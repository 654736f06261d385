------------------------------ MODULE Rollups ------------------------------
(***************************************************************************)
(* livepeer-rollups: the scheme that event_metrics, orch_payouts,           *)
(* orch_rewards and tickets share.  A run first rebuilds the daily          *)
(* aggregates that recorded reorg mutations may have touched, then takes    *)
(* the source rows with an id above the checkpoint, adds them to their      *)
(* aggregates with one upsert per key, and moves the checkpoint.  None of   *)
(* the statements share a transaction.                                     *)
(*                                                                         *)
(* A source row is [id, key, party]: the event's id, the key of its         *)
(* aggregate (day, orchestrator, version, ...) and the gateway that the     *)
(* distinct counters count.  The sums of an aggregate are linear in its     *)
(* rows, so an aggregate keeps how often it has added each row.            *)
(***************************************************************************)
EXTENDS Integers, Sequences, FiniteSetsExt

CONSTANTS
    SourceRows,    \* events of the kind, each with its valuation
    BatchLimit,    \* batch_limit
    InOrder,       \* are rows finalized and valued in the order of their ids?
    MaxFaults,     \* bound on failed or killed runs
    MaxWithdrawn,  \* bound on withdrawn events
    MaxMutations   \* bound on recorded mutations

ASSUME RollupsAssumption ==
    /\ IsFiniteSet(SourceRows)
    /\ \A r \in SourceRows : r.id \in Nat \ {0}
    /\ BatchLimit \in Nat \ {0} /\ InOrder \in BOOLEAN
    /\ MaxFaults \in Nat /\ MaxWithdrawn \in Nat /\ MaxMutations \in Nat

Ids     == {r.id : r \in SourceRows}
Keys    == {r.key : r \in SourceRows}
Parties == {r.party : r \in SourceRows}

VARIABLES
    visible,     \* the rows the source query returns: canonical, finalized, valued
    withdrawn,   \* ids of events with is_canonical = FALSE
    mutations,   \* reorg_mutations: the raw_event_id of each, in id order
    checkpoint,  \* of the events, 0 = no row
    reorgPoint,  \* of the mutations, 0 = no row
    agg,         \* [Keys -> aggregate]: the daily table
    pc,          \* where run_once is
    keys,        \* keys still to rebuild or to upsert
    upTo,        \* max_mutation_id
    rebuilt,     \* the rebuilt aggregate that is about to be written
    batch,       \* the fetched rows
    lastId,      \* max_event_id
    news,        \* the <<key, party>> the batch counts as new
    faults

sourceVars == <<visible, withdrawn, mutations>>
tableVars  == <<checkpoint, reorgPoint, agg>>
runVars    == <<pc, keys, upTo, rebuilt, batch, lastId, news>>
vars == <<sourceVars, tableVars, runVars, faults>>

Aggregate == [count : [SourceRows -> Nat], distinct : Nat, max : Ids \cup {0}]

\* No row in the daily table: an upsert adds to nothing.
NoAggregate == [count |-> [r \in SourceRows |-> 0], distinct |-> 0, max |-> 0]

TypeOK ==
    /\ visible \subseteq SourceRows /\ withdrawn \subseteq Ids
    /\ mutations \in Seq(Ids)
    /\ checkpoint \in Ids \cup {0}
    /\ reorgPoint \in 0..Len(mutations) /\ upTo \in 0..Len(mutations)
    /\ agg \in [Keys -> Aggregate]
    /\ pc \in {"idle", "rebuild", "fetch", "count", "upsert"}
    /\ keys \subseteq Keys
    /\ rebuilt \subseteq [key : Keys, new : Aggregate]
    /\ batch \subseteq SourceRows /\ lastId \in Ids \cup {0}
    /\ news \subseteq Keys \X Parties
    /\ faults \in Nat

Init ==
    /\ visible = {} /\ withdrawn = {} /\ mutations = <<>>
    /\ checkpoint = 0 /\ reorgPoint = 0
    /\ agg = [k \in Keys |-> NoAggregate]
    /\ pc = "idle" /\ keys = {} /\ upTo = 0 /\ rebuilt = {}
    /\ batch = {} /\ lastId = 0 /\ news = {}
    /\ faults = 0
-----------------------------------------------------------------------------
(* The tables the rollups read.                                            *)

\* The event becomes finalized and gets its valuation.
Appear(r) ==
    /\ r \notin visible /\ r.id \notin withdrawn
    /\ InOrder => \A s \in SourceRows :
                     s.id < r.id => s \in visible \/ s.id \in withdrawn
    /\ visible' = visible \cup {r}
    /\ UNCHANGED <<withdrawn, mutations, tableVars, runVars, faults>>

\* The reorg-watcher withdraws an event.
Withdraw(i) ==
    /\ i \notin withdrawn /\ Cardinality(withdrawn) < MaxWithdrawn
    /\ withdrawn' = withdrawn \cup {i}
    /\ visible' = {r \in visible : r.id # i}
    /\ UNCHANGED <<mutations, tableVars, runVars, faults>>

\* The mutation of a withdrawn event is recorded.  Nothing in the repository does it
\* yet.
RecordMutation(i) ==
    /\ i \in withdrawn /\ Len(mutations) < MaxMutations
    /\ mutations' = Append(mutations, i)
    /\ UNCHANGED <<visible, withdrawn, tableVars, runVars, faults>>
-----------------------------------------------------------------------------
(* process_reorg_mutations.                                                *)

\* Mutant of CandidateKeys: > instead of >=.
CandidateKeysAbove(i) ==
    {k \in Keys : agg[k].max > i} \cup {r.key : r \in {s \in visible : s.id = i}}

\* load_existing_candidate_keys and load_current_event_keys of one mutation.
CandidateKeys(i) ==
    {k \in Keys : agg[k].max >= i /\ agg[k] # NoAggregate}
      \cup {r.key : r \in {s \in visible : s.id = i}}

\* The mutations above the reorg checkpoint; without any the step is skipped.
StartRun ==
    /\ pc = "idle"
    /\ upTo' = Len(mutations)
    /\ keys' = UNION {CandidateKeys(mutations[m]) :
                          m \in (reorgPoint + 1)..Len(mutations)}
    /\ pc' = IF upTo' = reorgPoint THEN "fetch" ELSE "rebuild"
    /\ UNCHANGED <<sourceVars, tableVars, rebuilt, batch, lastId, news, faults>>

MaxId(S) == Max({r.id : r \in S} \cup {0})

\* rebuild_aggregate_for_key over every source row of the key, those above the
\* checkpoint included.
RebuiltFrom(S) ==
    [count |-> [r \in SourceRows |-> IF r \in S THEN 1 ELSE 0],
     distinct |-> Cardinality({r.party : r \in S}),
     max |-> MaxId(S)]

Rebuild ==
    /\ pc = "rebuild" /\ rebuilt = {}
    /\ \E k \in keys :
          rebuilt' = {[key |-> k, new |-> RebuiltFrom({r \in visible : r.key = k})]}
    /\ UNCHANGED <<sourceVars, tableVars, pc, keys, upTo, batch, lastId, news, faults>>

\* replace_aggregate, or delete_aggregate if the key has no source row left.
Replace ==
    /\ pc = "rebuild"
    /\ \E b \in rebuilt :
          /\ agg' = [agg EXCEPT ![b.key] = b.new]
          /\ keys' = keys \ {b.key}
    /\ rebuilt' = {}
    /\ UNCHANGED <<sourceVars, checkpoint, reorgPoint, pc, upTo, batch, lastId, news,
                   faults>>

\* advance_named_checkpoint of the mutations.
RebuildDone ==
    /\ pc = "rebuild" /\ keys = {}
    /\ reorgPoint' = Max({reorgPoint, upTo})
    /\ pc' = "fetch"
    /\ UNCHANGED <<sourceVars, checkpoint, agg, keys, upTo, rebuilt, batch, lastId, news,
                   faults>>
-----------------------------------------------------------------------------
(* The incremental part of run_once.                                       *)

\* Mutant of Behind: the row after the checkpoint is skipped.
BehindSkippingOne == {r \in visible : r.id > checkpoint + 1}

Behind == {r \in visible : r.id > checkpoint}

\* Mutant of IsBatch: LIMIT without ORDER BY.
AnyBatch(B) == Cardinality(B) = Min({BatchLimit, Cardinality(Behind)})

\* ORDER BY e.id LIMIT batch_limit; rows with the same id come in any order.
IsBatch(B) ==
    /\ Cardinality(B) = Min({BatchLimit, Cardinality(Behind)})
    /\ \A r \in B : \A s \in Behind \ B : r.id <= s.id

Fetch ==
    /\ pc = "fetch"
    /\ \E B \in SUBSET Behind : IsBatch(B) /\ batch' = B
    /\ pc' = IF batch' = {} THEN "idle" ELSE "count"
    /\ UNCHANGED <<sourceVars, tableVars, keys, upTo, rebuilt, lastId, news, faults>>

\* Mutant of PriorSeen: only the rows of the batch are looked at.
PriorInBatch(r) ==
    \E s \in batch : s.id < r.id /\ s.key = r.key /\ s.party = r.party

\* prior_gateway_seen: a canonical event with a smaller id has the same party,
\* finalized or not.
PriorSeen(r) ==
    \E s \in SourceRows :
        /\ s.id < r.id /\ s.id \notin withdrawn
        /\ s.key = r.key /\ s.party = r.party

\* max_event_id
EndsBatch(last) == \A r \in batch : r.id <= last.id

\* The loop over the batch.  A party is new to an aggregate if no earlier row of the
\* batch names it and no prior one has been seen.
CountDistinct ==
    /\ pc = "count"
    /\ news' = {<<r.key, r.party>> :
                   r \in {b \in batch :
                            /\ ~PriorSeen(b)
                            /\ \A s \in batch :
                                  s.key = b.key /\ s.party = b.party => b.id <= s.id}}
    /\ keys' = {r.key : r \in batch}
    /\ \E last \in batch : EndsBatch(last) /\ lastId' = last.id
    /\ pc' = "upsert"
    /\ UNCHANGED <<sourceVars, tableVars, upTo, rebuilt, batch, faults>>

\* Mutant of LargerId: the upsert overwrites source_max_event_id.
NewId(stored, new) == new

\* GREATEST(stored, EXCLUDED)
LargerId(stored, new) == Max({stored, new})

\* upsert_aggregate: ON CONFLICT DO UPDATE adds the batch to what is stored.
Upsert ==
    /\ pc = "upsert"
    /\ \E k \in keys :
          LET mine == {r \in batch : r.key = k}
          IN  /\ agg' = [agg EXCEPT ![k] =
                    [count |-> [r \in SourceRows |->
                                   @.count[r] + IF r \in mine THEN 1 ELSE 0],
                     distinct |-> @.distinct + Cardinality({n \in news : n[1] = k}),
                     max |-> LargerId(@.max, MaxId(mine))]]
              /\ keys' = keys \ {k}
    /\ UNCHANGED <<sourceVars, checkpoint, reorgPoint, pc, upTo, rebuilt, batch, lastId,
                   news, faults>>

\* advance_checkpoint: GREATEST(stored, max_event_id).
Advance ==
    /\ pc = "upsert" /\ keys = {}
    /\ checkpoint' = Max({checkpoint, lastId})
    /\ pc' = "idle" /\ batch' = {} /\ lastId' = 0 /\ news' = {}
    /\ UNCHANGED <<sourceVars, reorgPoint, agg, keys, upTo, rebuilt, faults>>

\* A database error or a dead process: what was upserted stays, the checkpoints
\* have not moved.
Fail ==
    /\ pc # "idle" /\ faults < MaxFaults
    /\ pc' = "idle" /\ keys' = {} /\ rebuilt' = {} /\ batch' = {} /\ news' = {}
    /\ lastId' = 0 /\ upTo' = reorgPoint
    /\ faults' = faults + 1
    /\ UNCHANGED <<sourceVars, tableVars>>

RunOnce ==
    \/ StartRun \/ Rebuild \/ Replace \/ RebuildDone
    \/ Fetch \/ CountDistinct \/ Upsert \/ Advance

Next ==
    \/ \E r \in SourceRows : Appear(r)
    \/ \E i \in Ids : Withdraw(i) \/ RecordMutation(i)
    \/ RunOnce \/ Fail

Spec == Init /\ [][Next]_vars

\* --follow runs for ever: a failed run is logged and the next one starts.
FairSpec == Spec /\ WF_vars(RunOnce)
-----------------------------------------------------------------------------
\* Rows that become visible in the order of their ids are never lost: what lies
\* behind the checkpoint has been added to its aggregate, through failed runs,
\* withdrawals and rebuilds ("deterministic projection" of the finalized events).
NothingLost ==
    \A r \in visible : r.id <= checkpoint => agg[r.key].count[r] >= 1

\* Nothing is added twice: "every write operation is safe under re-execution".
NothingTwice ==
    \A r \in SourceRows : agg[r.key].count[r] <= 1

\* When the reorg checkpoint passes the mutation of a withdrawn event, no aggregate
\* counts the event any more, even if it was withdrawn while a run had it in memory.
WithdrawnRemoved ==
    \A r \in SourceRows :
        r.id \in {mutations[m] : m \in 1..reorgPoint} => agg[r.key].count[r] = 0

\* Between two runs of an undisturbed life every aggregate is the projection of the
\* rows behind the checkpoint, distinct counters included.
ExactWhenUndisturbed ==
    (pc = "idle" /\ faults = 0 /\ withdrawn = {} /\ mutations = <<>>) =>
        \A k \in Keys :
            agg[k] = RebuiltFrom({r \in visible : r.key = k /\ r.id <= checkpoint})

\* Every row that stays visible is eventually behind the checkpoint.
CatchesUp ==
    \A r \in SourceRows :
        (r \in visible) ~> (r \notin visible \/ r.id <= checkpoint)
-----------------------------------------------------------------------------
(* The inductive invariant behind NothingLost; it is inductive if the rows *)
(* appear in the order of their ids and no two have the same.              *)

UniqueIds == \A r, s \in SourceRows : r.id = s.id => r = s

\* Every row up to the id has appeared, and will not appear again.
Settled(r)  == r \in visible \/ r.id \in withdrawn
Complete(i) == \A r \in SourceRows : r.id <= i => Settled(r)

OrderInv ==
    /\ visible \subseteq SourceRows
    /\ \A r \in visible : Complete(r.id)
    /\ Complete(checkpoint)

CountsInv ==
    /\ checkpoint \in Nat /\ keys \subseteq Keys
    /\ DOMAIN agg = Keys
    /\ \A k \in Keys : agg[k].count \in [SourceRows -> Nat]
    /\ \A b \in rebuilt : b.key \in Keys /\ b.new.count \in [SourceRows -> Nat]

\* A fetched batch has every visible row up to each of its own.
BatchInv ==
    pc \in {"count", "upsert"} =>
        /\ batch \subseteq SourceRows
        /\ \A r \in batch : Complete(r.id)
        /\ \A r \in batch : \A s \in visible :
              checkpoint < s.id /\ s.id <= r.id => s \in batch

\* The keys that are no longer to be upserted have the rows of the batch.
AddedInv ==
    pc = "upsert" =>
        /\ \E last \in batch : EndsBatch(last) /\ lastId = last.id
        /\ \A r \in batch : r.key \notin keys => agg[r.key].count[r] >= 1

\* An aggregate that is about to replace the stored one has its rows as well.
RebuiltInv ==
    \A b \in rebuilt :
        /\ pc = "rebuild" /\ b.key \in keys
        /\ \A r \in visible :
              r.id <= checkpoint /\ r.key = b.key => b.new.count[r] >= 1

IInv ==
    /\ OrderInv /\ CountsInv /\ BatchInv
    /\ AddedInv /\ RebuiltInv /\ NothingLost
=============================================================================
