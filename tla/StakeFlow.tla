----------------------------- MODULE StakeFlow -----------------------------
(***************************************************************************)
(* livepeer-staker, flow v2 (run_flow_backfill): stake_balances_by_block    *)
(* and delegator_registry are derived from the finalized stake events.  A   *)
(* batch takes the events with an id above the checkpoint, and replays the  *)
(* history of the delegators they touch; rows and registry entries are      *)
(* upserted one statement at a time, the checkpoint moves last.             *)
(*                                                                         *)
(* An event is a record [name, from, to, amount, block, pos]; pos is its    *)
(* place in Log, the (block_number, log_index) order.  Of a stake   *)
(* row the balance and the delegate are kept.  EarningsClaimed carries its  *)
(* decoded rewards as amount.                                              *)
(***************************************************************************)
EXTENDS Integers, Sequences, FiniteSetsExt

CONSTANTS
    Log,         \* the sequence of the chain's stake events
    MaxBlock,
    BatchSize,   \* FLOW_BATCH_SIZE
    OutOfOrder,  \* may blocks be ingested out of order (gap repair)?
    MaxFaults    \* bound on failed or killed iterations

Blocks    == 1..MaxBlock
Events    == Range(Log)
Addresses == {e.from : e \in Events} \cup {e.to : e \in Events}

ASSUME StakeFlowAssumption ==
    /\ MaxBlock \in Nat /\ BatchSize \in Nat \ {0} /\ MaxFaults \in Nat
    /\ OutOfOrder \in BOOLEAN /\ Log \in Seq(Events)
    /\ {"no row", "zero"} \cap Addresses = {}
    /\ \A e \in Events : e.block \in Blocks /\ e.amount \in Nat
    /\ \A i \in 1..Len(Log) : Log[i].pos = i
    /\ \A i, j \in 1..Len(Log) : i < j => Log[i].block <= Log[j].block

NoRow   == [bal |-> 0, del |-> "no row"]
NoEntry == [first |-> 0, last |-> 0, active |-> FALSE]

VARIABLES
    id,          \* [Events -> Nat]: raw_protocol_events.id, 0 = not ingested
    final,       \* the events with finality = 'finalized'
    checkpoint,  \* last_processed_block of staker_flow_backfill_v2, 0 = no row
    stake,       \* [Addresses -> [Blocks -> row]]: stake_balances_by_block
    registry,    \* [Addresses -> entry]: delegator_registry
    pc,          \* where run_flow_backfill is
    heads,       \* new_events of the batch
    history,     \* the events fetch_full_history returned
    todo,        \* delegators of the batch not replayed yet
    cur, pending,\* the outcome being written and its blocks not upserted yet
    faults

feedVars  == <<id, final>>
tableVars == <<checkpoint, stake, registry>>
batchVars == <<pc, heads, history, todo, cur, pending>>
vars == <<feedVars, tableVars, batchVars, faults>>

Row == [bal : Int, del : Addresses \cup {"no row", "zero"}]

TypeOK ==
    /\ id \in [Events -> 0..Cardinality(Events)]
    /\ final \subseteq Events
    /\ checkpoint \in 0..Cardinality(Events)
    /\ stake \in [Addresses -> [Blocks -> Row]]
    /\ registry \in [Addresses -> [first : Nat, last : Nat, active : BOOLEAN]]
    /\ pc \in {"idle", "history", "replay", "rows", "advance"}
    /\ heads \subseteq Events /\ history \subseteq Events
    /\ todo \subseteq Addresses /\ pending \subseteq Blocks
    /\ \A o \in cur : o.who \in todo
    /\ faults \in Nat
-----------------------------------------------------------------------------
(* replay_delegator: a fold over one delegator's events in chain order.     *)

\* delegators_of: a TransferBond belongs to both sides.
DelegatorsOf(e) == IF e.name = "TransferBond" THEN {e.from, e.to} ELSE {e.from}

Registers(d, e) ==
    \/ e.name = "Bond" /\ e.from = d
    \/ e.name = "TransferBond" /\ e.to = d

\* The events a delegator's replay acts on; the others are skipped, those of an
\* unregistered delegator included.
Takes(d, registered, e) ==
    \/ Registers(d, e)
    \/ e.name = "EarningsClaimed" /\ e.from = d
    \/ registered /\ e.from = d

\* Mutant of Delta: stake that was unbonded is subtracted again when withdrawn.
DeltaAtWithdraw(e) ==
    CASE e.name \in {"Bond", "Rebond", "EarningsClaimed"} -> e.amount
      [] e.name \in {"Unbond", "WithdrawStake"} -> 0 - e.amount
      [] OTHER -> 0

Delta(e) ==
    CASE e.name \in {"Bond", "Rebond", "EarningsClaimed"} -> e.amount
      [] e.name = "Unbond" -> 0 - e.amount
      [] OTHER -> 0

NewDelegate(old, e) ==
    IF e.name \in {"Bond", "Unbond", "Rebond", "EarningsClaimed"} THEN e.to ELSE old

\* The locals of the replay: balance, delegate, first and last event, rows.
ReplayState ==
    [bal : Int, del : Addresses \cup {"zero"}, first : Nat, last : Nat,
     rows : [Blocks -> Row]]

Fresh == [bal |-> 0, del |-> "zero", first |-> 0, last |-> 0,
          rows |-> [b \in Blocks |-> NoRow]]

\* What one event does to them.
Apply(d, e) == [st \in ReplayState |->
    LET row == [bal |-> st.bal + Delta(e), del |-> NewDelegate(st.del, e)]
    IN  IF ~Takes(d, st.first > 0, e) THEN st
        ELSE [bal |-> row.bal, del |-> row.del,
              first |-> IF st.first = 0 /\ Registers(d, e) THEN e.pos ELSE st.first,
              last |-> e.pos,
              rows |-> [st.rows EXCEPT ![e.block] = row]]]

\* The delegator's events in S, ORDER BY block_number, log_index: upTo[n] is the state
\* after those among the first n of the log.
Replay(d, S) ==
    LET upTo[n \in 0..Len(Log)] ==
            IF n = 0 THEN Fresh
            ELSE IF Log[n] \in S /\ d \in DelegatorsOf(Log[n])
                 THEN Apply(d, Log[n])[upTo[n - 1]] ELSE upTo[n - 1]
    IN  upTo[Len(Log)]

\* Mutant of EntryOf: is_active is set at the first bond and never cleared.
EntryAlwaysActive(out) ==
    IF out.first = 0 THEN NoEntry
    ELSE [first |-> out.first, last |-> out.last, active |-> TRUE]

\* The RegistryWrite, NoEntry for a delegator that never registered.
EntryOf(out) ==
    IF out.first = 0 THEN NoEntry
    ELSE [first |-> out.first, last |-> out.last, active |-> out.bal > 0]
-----------------------------------------------------------------------------
Init ==
    /\ id = [e \in Events |-> 0] /\ final = {}
    /\ checkpoint = 0
    /\ stake = [d \in Addresses |-> [b \in Blocks |-> NoRow]]
    /\ registry = [d \in Addresses |-> NoEntry]
    /\ pc = "idle" /\ heads = {} /\ history = {}
    /\ todo = {} /\ cur = {} /\ pending = {}
    /\ faults = 0

Ingested == {e \in Events : id[e] > 0}

\* The indexer commits a block: ids follow the order of insertion.
Ingest ==
    /\ \E b \in Blocks :
          LET new == {e \in Events : e.block = b}
          IN  /\ new # {} /\ new \cap Ingested = {}
              /\ OutOfOrder \/ \A e \in Events : e.block < b => e \in Ingested
              /\ id' = [e \in Events |->
                           IF e \in new
                           THEN Cardinality(Ingested)
                                  + Cardinality({f \in new : f.pos <= e.pos})
                           ELSE id[e]]
    /\ UNCHANGED <<final, tableVars, batchVars, faults>>

\* The finality-watcher finalizes every ingested row up to its cutoff.
Finalize ==
    /\ \E cutoff \in Blocks :
          final' = final \cup {e \in Ingested : e.block <= cutoff}
    /\ final' # final
    /\ UNCHANGED <<id, tableVars, batchVars, faults>>

Behind == {e \in final : id[e] > checkpoint}

\* fetch_new_event_heads: the BatchSize smallest ids above the checkpoint.
NewHeads ==
    {e \in Behind : Cardinality({f \in Behind : id[f] <= id[e]}) <= BatchSize}

StartBatch ==
    /\ pc = "idle" /\ Behind # {}
    /\ heads' = NewHeads
    /\ pc' = "history"
    /\ UNCHANGED <<feedVars, tableVars, history, todo, cur, pending, faults>>

\* fetch_full_history selects every event that names an affected address on either
\* side; per_delegator then groups what came back by its own delegators.
FetchHistory ==
    LET affected == UNION {DelegatorsOf(e) : e \in heads}
        found    == {e \in final : e.from \in affected \/ e.to \in affected}
    IN  /\ pc = "history"
        /\ history' = found
        /\ todo' = UNION {DelegatorsOf(e) : e \in found}
        /\ pc' = "replay"
        /\ UNCHANGED <<feedVars, tableVars, heads, cur, pending, faults>>

\* replay_delegator of the next delegator, in the order of a hash map.
ReplayDelegator ==
    /\ pc = "replay"
    /\ \E d \in todo : \E out \in {Replay(d, history)} :
          /\ cur' = {[who |-> d, rows |-> out.rows, entry |-> EntryOf(out)]}
          /\ pending' = {b \in Blocks : out.rows[b] # NoRow}
    /\ pc' = "rows"
    /\ UNCHANGED <<feedVars, tableVars, heads, history, todo, faults>>

\* upsert_stake_row, in block order.
UpsertRow ==
    /\ pc = "rows" /\ pending # {}
    /\ LET b == Min(pending)
       IN  /\ \E o \in cur : stake' = [stake EXCEPT ![o.who][b] = o.rows[b]]
           /\ pending' = pending \ {b}
    /\ UNCHANGED <<feedVars, checkpoint, registry, pc, heads, history, todo, cur,
                   faults>>

\* upsert_registry, if the replay registered the delegator.
UpsertRegistry ==
    /\ pc = "rows" /\ pending = {}
    /\ \E o \in cur :
          /\ registry' = IF o.entry = NoEntry THEN registry
                         ELSE [registry EXCEPT ![o.who] = o.entry]
          /\ todo' = todo \ {o.who}
    /\ cur' = {}
    /\ pc' = IF todo' = {} THEN "advance" ELSE "replay"
    /\ UNCHANGED <<feedVars, checkpoint, stake, heads, history, pending, faults>>

\* Mutants of LastId: the newest finalized event instead of the newest of the
\* batch; the first id of the next batch; the newest of the batch is left for the
\* next one.
LastFinalId == Max({id[e] : e \in final})
LastIdPlusOne == Max({id[e] : e \in heads}) + 1
LastIdLessOne == Max({id[e] : e \in heads}) - 1

LastId == Max({id[e] : e \in heads})

\* advance_flow_checkpoint: GREATEST(stored, max_event_id).
Advance ==
    /\ pc = "advance"
    /\ checkpoint' = Max({checkpoint, LastId})
    /\ pc' = "idle" /\ heads' = {} /\ history' = {}
    /\ UNCHANGED <<feedVars, stake, registry, todo, cur, pending, faults>>

\* A database error or a dead process; the tables keep what was upserted.
Fail ==
    /\ pc # "idle" /\ faults < MaxFaults
    /\ pc' = "idle" /\ heads' = {} /\ history' = {}
    /\ todo' = {} /\ cur' = {} /\ pending' = {}
    /\ faults' = faults + 1
    /\ UNCHANGED <<feedVars, tableVars>>

Worker ==
    \/ StartBatch \/ FetchHistory \/ ReplayDelegator \/ UpsertRow
    \/ UpsertRegistry \/ Advance

Next == Ingest \/ Finalize \/ Worker \/ Fail

Spec == Init /\ [][Next]_vars

\* The staker loop runs a batch on every tick and is restarted when it fails.
FairSpec == Spec /\ WF_vars(Worker)
-----------------------------------------------------------------------------
(* What the tables should hold, without replaying anything.                *)

Before(d, S, e) == \E r \in S : Registers(d, r) /\ r.pos < e.pos

Counted(d, S) == {e \in S : d \in DelegatorsOf(e) /\ Takes(d, Before(d, S, e), e)}

\* The balance after block b: bonds, rebonds and claimed rewards less unbonds.
Balance(d, S, b) ==
    LET sum(names) == MapThenSumSet(LAMBDA e : e.amount,
                          {e \in Counted(d, S) : e.block <= b /\ e.name \in names})
    IN  sum({"Bond", "Rebond", "EarningsClaimed"}) - sum({"Unbond"})

\* The events that begin a delegator's rows, and those that his balance is made of.
Starts(d, e) == Registers(d, e) \/ (e.name = "EarningsClaimed" /\ e.from = d)
Moves(d, e) ==
    Registers(d, e)
    \/ (e.name \in {"Bond", "Unbond", "Rebond", "EarningsClaimed"} /\ e.from = d)

\* Whoever shares in the beginning of a delegator's rows, and is a delegator too, is
\* named by all that moves the balance: the history of the one has that of the other.
KeptApart(d) ==
    \A e, f, g \in Events : \A q \in {e.from, e.to} \ {d} :
        Starts(d, e) /\ Moves(d, g) /\ q \in DelegatorsOf(f) => q \in {g.from, g.to}

\* Every stake row ever visible holds the balance that the delegator's complete
\* finalized history gives it at that block, in the middle of a batch and after a
\* crash too (flow.rs: "re-derives every touched delegator's complete row history
\* from their full event stream").
RowsMatchHistory ==
    \A d \in Addresses : \A b \in Blocks :
        stake[d][b] # NoRow => stake[d][b].bal = Balance(d, final, b)

\* An event behind the checkpoint has its rows: nothing that is finalized late is
\* skipped (flow.rs: "id > checkpoint always picks up late arrivals").
CheckpointComplete ==
    \A e \in final : \A d \in DelegatorsOf(e) :
        id[e] <= checkpoint /\ e \in Counted(d, final) => stake[d][e.block] # NoRow

\* Once the worker has caught up, a delegator is active in the registry exactly
\* when it has stake, and was first seen at the event that registered it.
RegistryMatches ==
    (pc = "idle" /\ Behind = {}) =>
        \A d \in Addresses :
            LET bonds == {e.pos : e \in {r \in final : Registers(d, r)}}
            IN  IF bonds = {} THEN registry[d] = NoEntry
                ELSE /\ registry[d].first = Min(bonds)
                     /\ registry[d].active = (Balance(d, final, MaxBlock) > 0)

\* Every finalized stake event is eventually behind the checkpoint.
EventuallyReplayed ==
    \A e \in Events : (e \in final) ~> (id[e] <= checkpoint)
=============================================================================
