---------------------------- MODULE RollupReads ----------------------------
(***************************************************************************)
(* aggregations/events of livepeer-api over the daily table of Rollups: a  *)
(* request with an upper bound is answered from the table when the         *)
(* checkpoint covers the bound, and from the raw events otherwise.  Both   *)
(* answers are sets of rows here, of which the code counts and sums.       *)
(***************************************************************************)
EXTENDS Rollups

CONSTANTS
    BlockOf,   \* [SourceRows -> Nat]
    DayOf      \* [Nat -> Nat]: the day of a block

ASSUME RollupReadsAssumption ==
    /\ BlockOf \in [SourceRows -> Nat] /\ \A r \in SourceRows : DayOf[BlockOf[r]] \in Nat
    /\ \A r, s \in SourceRows : r.id < s.id => BlockOf[r] <= BlockOf[s]
    /\ \A r, s \in SourceRows : BlockOf[r] <= BlockOf[s] => DayOf[BlockOf[r]] <= DayOf[BlockOf[s]]

Bounds == {BlockOf[r] : r \in SourceRows}

\* Mutant of RollupCovers: the newest finalized row is taken for the checkpoint.
VisibleCovers(to) == \E r \in visible : to <= BlockOf[r]

\* rollup_covers_range: the bound is not beyond the block of the checkpoint's event.
RollupCovers(to) == \E r \in SourceRows : r.id = checkpoint /\ to <= BlockOf[r]

\* resolve_day_window: the day of the last event up to the bound.
LastDay(to) == Max({DayOf[BlockOf[r]] : r \in {s \in SourceRows : BlockOf[s] <= to}})

\* aggregate_from_rollup: whole days, with what their aggregates have added.
FromRollup(to) ==
    {r \in SourceRows : DayOf[BlockOf[r]] <= LastDay(to) /\ agg[r.key].count[r] > 0}

\* aggregate_from_raw_events: canonical events of any finality.
FromRawEvents(to) == {r \in SourceRows : r.id \notin withdrawn /\ BlockOf[r] <= to}

\* events
Aggregates(to) == IF RollupCovers(to) THEN FromRollup(to) ELSE FromRawEvents(to)
-----------------------------------------------------------------------------
\* If rows become visible in the order of their ids, an answer from the daily table
\* lacks no canonical event but of the bound's own block, which a batch may have cut
\* in two: through failed runs, withdrawals and rebuilds.
OnlyLastBlockPartial ==
    \A to \in Bounds : \A r \in FromRawEvents(to) :
        r \in Aggregates(to) \/ BlockOf[r] = to
=============================================================================
