----------------------------- MODULE StakeTruth -----------------------------
(***************************************************************************)
(* What the staker loop of the daemon does to stake_balances_by_block      *)
(* after the stake flow: pending.rs replaces the principal of every row by *)
(* getDelegator at its block and fills in the pending columns of each      *)
(* EarningsClaimed; current.rs writes, once per protocol round, a row at   *)
(* the block of the latest finalized NewRound for every delegator whose    *)
(* latest row is positive.  An iteration runs the stages in order; the      *)
(* first error ends it and the next one starts over.  run_flow_backfill is  *)
(* one step here (module StakeFlow has its statements).                     *)
(***************************************************************************)
EXTENDS ChainLog

CONSTANTS
    Delegators,
    Blocks,
    Bonded,        \* getDelegator: bondedAmount, [Delegators \X Blocks -> Nat]
    Estimate,      \* what the flow computes for the same key
    RoundOf,       \* the round of a NewRound, the endRound of an EarningsClaimed;
                   \* a row whose pending columns are NULL has 0
    FlowBatch,     \* rows a flow batch takes
    StaleRetries,  \* EXACT_LAYER_STALE_RETRIES, LAYER_STALE_RETRIES
    Chunk          \* UPDATE_CHUNK, UPSERT_CHUNK

ASSUME TruthAssumption ==
    /\ Blocks \subseteq Nat /\ \A p \in Rows : Log[p].block \in Blocks
    /\ Bonded \in [Delegators \X Blocks -> Nat]
    /\ Estimate \in [Delegators \X Blocks -> Nat]
    /\ RoundOf \in [Rows -> Nat]
    /\ {FlowBatch, Chunk} \subseteq Nat \ {0} /\ StaleRetries \in Nat

VARIABLES
    stakes,   \* stake_balances_by_block: <<delegator, block>> -> row, partial
    active,      \* delegator_registry: delegator -> is_active, partial
    cached,      \* keys whose getDelegator answer is in rpc_call_cache
    cpFlow,      \* last event of the flow
    cpRound,     \* staker_round_stake_refresh: the last refreshed round
    work         \* the iteration in progress

truthVars == <<stakes, active, cached, cpFlow, cpRound, work>>
tables == <<stakes, active>>
checkpoints == <<cpFlow, cpRound>>

StakeKinds == {"Bond", "Unbond", "Rebond", "TransferBond", "EarningsClaimed"}
StakeEvents == {p \in Rows : Log[p].kind \in StakeKinds}
Claims      == {p \in Rows : Log[p].kind = "EarningsClaimed"}
NewRounds   == {p \in Rows : Log[p].kind = "NewRound"}
KeyOf(p)    == <<Log[p].who, Log[p].block>>

NoWork == [stage |-> "flow", todo |-> {}, retry |-> {}, tries |-> 0, got |-> {},
           mark |-> {}, anchor |-> 0]

TruthInit ==
    /\ stakes = [k \in {} |-> 0]
    /\ active = [d \in {} |-> FALSE]
    /\ cached = {}
    /\ cpFlow = 0 /\ cpRound = 0
    /\ work = NoWork

-----------------------------------------------------------------------------
\* The rows of the full finalized histories of D; pending columns are kept.
HistoryKeys(D) == {KeyOf(p) : p \in {q \in Finalized \cap StakeEvents : Log[q].who \in D}}

WithEstimates(D) ==
    [k \in DOMAIN stakes \cup HistoryKeys(D) |->
        IF k \notin HistoryKeys(D) THEN stakes[k]
        ELSE [principal |-> Estimate[k], source |-> "flow",
              pending |-> IF k \in DOMAIN stakes THEN stakes[k].pending ELSE 0]]

LastBlockOf(d) ==
    CHOOSE b \in Blocks : /\ <<d, b>> \in HistoryKeys({d})
                          /\ \A k \in HistoryKeys({d}) : k[2] <= b

WithActivity(D) ==
    [d \in DOMAIN active \cup D |->
        IF d \in D THEN Estimate[<<d, LastBlockOf(d)>>] > 0 ELSE active[d]]

NewEvents == FirstRows({p \in Finalized \cap StakeEvents : p > cpFlow}, FlowBatch)
Affected == {Log[p].who : p \in NewEvents} \cap Delegators

FlowStage ==
    /\ work.stage = "flow"
    /\ stakes' = WithEstimates(Affected)
    /\ active' = WithActivity(Affected)
    /\ cpFlow' = IF NewEvents = {} THEN cpFlow ELSE Max(NewEvents)
    /\ work' = [NoWork EXCEPT !.stage = "pending"]
    /\ UNCHANGED <<cached, cpRound, logVars>>

\* The flow dies after some of its delegators.
FlowCut ==
    /\ Fault
    /\ work.stage = "flow"
    /\ \E D \in SUBSET Affected :
          stakes' = WithEstimates(D) /\ active' = WithActivity(D)
    /\ work' = NoWork
    /\ UNCHANGED <<cached, checkpoints>>

-----------------------------------------------------------------------------
\* Mutant of PendingStart: rows whose answer is cached are taken as done.
PendingStartMisses ==
    /\ work.stage = "pending"
    /\ work' = [NoWork EXCEPT !.stage = "exact", !.todo = DOMAIN stakes \ cached,
                              !.tries = StaleRetries]
    /\ UNCHANGED <<tables, cached, checkpoints, logVars>>

\* reconcile_exact_stake_rows: every row, finalized or not, at its own block.
PendingStart ==
    /\ work.stage = "pending"
    /\ work' = [NoWork EXCEPT !.stage = "exact", !.todo = DOMAIN stakes \ cached,
                              !.got = DOMAIN stakes \cap cached, !.tries = StaleRetries]
    /\ UNCHANGED <<tables, cached, checkpoints, logVars>>

\* The key getDelegator is asked for: a row's own, or a delegator at the anchor.
Call(x) == IF work.stage = "exact" THEN x ELSE <<x, Log[work.anchor].block>>

\* One answer of a JSON-RPC batch; it is stored in the cache.
ReadState(x) ==
    /\ work.stage \in {"exact", "read"} /\ x \in work.todo
    /\ cached' = cached \cup {Call(x)}
    /\ work' = [work EXCEPT !.todo = @ \ {x}, !.got = @ \cup {x}]
    /\ UNCHANGED <<tables, checkpoints, logVars>>

\* "layer stale": asked again after the others.  An answer that is in the cache
\* cannot be stale.
ReadStale(x) ==
    /\ Fault
    /\ work.stage \in {"exact", "read"} /\ x \in work.todo
    /\ Call(x) \notin cached
    /\ work.tries > 0
    /\ work' = [work EXCEPT !.todo = @ \ {x}, !.retry = @ \cup {x}]
    /\ UNCHANGED <<tables, cached, checkpoints>>

\* Mutant of Retry: the calls that were stale are left out.
RetryNone ==
    /\ work.todo = {} /\ work.retry # {}
    /\ work' = [work EXCEPT !.retry = {}, !.tries = @ - 1]
    /\ UNCHANGED <<tables, cached, checkpoints, logVars>>

Retry ==
    /\ work.todo = {} /\ work.retry # {}
    /\ work' = [work EXCEPT !.todo = work.retry, !.retry = {}, !.tries = @ - 1]
    /\ UNCHANGED <<tables, cached, checkpoints, logVars>>

ReadsDone(stage) == work.stage = stage /\ work.todo = {} /\ work.retry = {}

Chunks(S) == {c \in SUBSET S : c # {} /\ Cardinality(c) <= Chunk}

\* UPDATE ... FROM unnest: principal and delegate, nothing else.
ApplyExact ==
    /\ ReadsDone("exact")
    /\ \E c \in Chunks(work.got) :
          /\ stakes' = [k \in DOMAIN stakes |->
                 IF k \in c THEN [stakes[k] EXCEPT !.principal = Bonded[k]] ELSE stakes[k]]
          /\ work' = [work EXCEPT !.got = @ \ c]
    /\ UNCHANGED <<active, cached, checkpoints, logVars>>

\* Mutant of ClaimsStart: the claims the flow has not seen yet.
ClaimsStartNew ==
    /\ ReadsDone("exact") /\ work.got = {}
    /\ work' = [NoWork EXCEPT !.stage = "claims",
                   !.todo = {p \in Finalized \cap Claims : Log[p].who \in Delegators /\ p > cpFlow}]
    /\ UNCHANGED <<tables, cached, checkpoints, logVars>>

ClaimsStart ==
    /\ ReadsDone("exact") /\ work.got = {}
    /\ work' = [NoWork EXCEPT !.stage = "claims",
                   !.todo = {p \in Finalized \cap Claims : Log[p].who \in Delegators}]
    /\ UNCHANGED <<tables, cached, checkpoints, logVars>>

ReadClaim(p) ==
    /\ work.stage = "claims" /\ p \in work.todo
    /\ work' = [work EXCEPT !.todo = @ \ {p}, !.got = @ \cup {p}]
    /\ UNCHANGED <<tables, cached, checkpoints, logVars>>

\* A claim that cannot be read is counted and left out.
SkipClaim(p) ==
    /\ Fault
    /\ work.stage = "claims" /\ p \in work.todo
    /\ work' = [work EXCEPT !.todo = @ \ {p}]
    /\ UNCHANGED <<tables, cached, checkpoints>>

\* UPDATE of the rows that exist.
ApplyClaims ==
    /\ ReadsDone("claims")
    /\ \E c \in Chunks(work.got) :
          /\ stakes' = [k \in DOMAIN stakes |->
                 IF \E p \in c : KeyOf(p) = k
                 THEN [stakes[k] EXCEPT !.source = "both",
                          !.pending = RoundOf[CHOOSE p \in c : KeyOf(p) = k]]
                 ELSE stakes[k]]
          /\ work' = [work EXCEPT !.got = @ \ c]
    /\ UNCHANGED <<active, cached, checkpoints, logVars>>

-----------------------------------------------------------------------------
\* Delegators whose latest row is positive and older than the anchor's block.
RefreshCandidates(b) ==
    {d \in Delegators : \E k \in DOMAIN stakes :
        /\ k[1] = d /\ k[2] < b /\ stakes[k].principal > 0
        /\ \A l \in DOMAIN stakes : l[1] = d => l[2] <= k[2]}

Anchor == CHOOSE p \in Finalized \cap NewRounds : \A q \in Finalized \cap NewRounds : q <= p

CurrentStart ==
    /\ ReadsDone("claims") /\ work.got = {}
    /\ work' = IF Finalized \cap NewRounds = {} THEN NoWork
               ELSE IF cpRound >= RoundOf[Anchor] THEN NoWork
               ELSE [NoWork EXCEPT !.stage = "read", !.anchor = Anchor, !.tries = StaleRetries,
                        !.todo = RefreshCandidates(Log[Anchor].block)]
    /\ UNCHANGED <<tables, cached, checkpoints, logVars>>

\* Two statements per chunk: the rows at the anchor ...
UpsertStates ==
    /\ ReadsDone("read") /\ work.mark = {}
    /\ \E c \in Chunks(work.got) :
          LET keys == {Call(d) : d \in c} IN
          /\ stakes' = [k \in DOMAIN stakes \cup keys |->
                 IF k \in keys THEN [principal |-> Bonded[k], source |-> "round_refresh",
                                     pending |-> RoundOf[work.anchor]]
                 ELSE stakes[k]]
          /\ work' = [work EXCEPT !.got = @ \ c, !.mark = c]
    /\ UNCHANGED <<active, cached, checkpoints, logVars>>

\* ... and the registry entries.
UpdateActivity ==
    /\ work.mark # {}
    /\ active' = [d \in DOMAIN active |->
          IF d \in work.mark THEN Bonded[Call(d)] > 0 ELSE active[d]]
    /\ work' = [work EXCEPT !.mark = {}]
    /\ UNCHANGED <<stakes, cached, checkpoints, logVars>>

AdvanceRound ==
    /\ ReadsDone("read") /\ work.got = {} /\ work.mark = {}
    /\ cpRound' = Greatest(cpRound, RoundOf[work.anchor])
    /\ work' = NoWork
    /\ UNCHANGED <<tables, cached, cpFlow, logVars>>

\* Any other error, retries that ran out, or a stop: the iteration is over.
StakerFails ==
    /\ Fault
    /\ work.stage # "flow"
    /\ work' = NoWork
    /\ UNCHANGED <<tables, cached, checkpoints>>

StakerWorks ==
    \/ FlowStage \/ PendingStart \/ Retry \/ ApplyExact \/ ClaimsStart \/ ApplyClaims
    \/ CurrentStart \/ UpsertStates \/ UpdateActivity \/ AdvanceRound
    \/ \E x \in work.todo : ReadState(x) \/ ReadClaim(x)

TruthNext ==
    \/ StakerWorks \/ StakerFails \/ FlowCut
    \/ \E x \in work.todo : ReadStale(x) \/ SkipClaim(x)

-----------------------------------------------------------------------------
TruthTypeOK ==
    /\ DOMAIN stakes \subseteq Delegators \X Blocks
    /\ \A k \in DOMAIN stakes :
          stakes[k] \in [principal : Nat, source : {"flow", "both", "round_refresh"},
                            pending : {0} \cup {RoundOf[p] : p \in Rows}]
    /\ DOMAIN active \subseteq Delegators
    /\ cached \subseteq Delegators \X Blocks
    /\ cpFlow \in {0} \cup StakeEvents /\ cpRound \in Nat
    /\ work.tries \in 0..StaleRetries

\* "Overwrite flow-derived bonded_principal with contract truth": once the
\* reconciliation has run, every row is exact, those the flow has just rewritten
\* although their answer was cached long ago included, and whatever was retried.
\* The refresh chooses its candidates by these principals.
ReconciledRowsAreExact ==
    work.stage \in {"claims", "read"} =>
        \A k \in DOMAIN stakes : stakes[k].principal = Bonded[k]

\* "Any other error aborts the refresh so the checkpoint does not advance past
\* unread state": when the round checkpoint moves, each delegator with a positive
\* row has one at the round's anchor or later.
NoUnreadRound ==
    [][cpRound' > cpRound =>
         RefreshCandidates(Log[work.anchor].block) = {}]_truthVars

\* Every row is exact, the latest finalized round has been refreshed, and each
\* finalized claim that has a row has its pendings.
StakeIsCurrent ==
    /\ \A k \in DOMAIN stakes : stakes[k].principal = Bonded[k]
    /\ Finalized \cap NewRounds # {} => cpRound = RoundOf[Anchor]
    /\ \A p \in Finalized \cap Claims :
          KeyOf(p) \in DOMAIN stakes => stakes[KeyOf(p)].pending # 0
=============================================================================
