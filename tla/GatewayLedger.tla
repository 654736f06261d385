---------------------------- MODULE GatewayLedger ----------------------------
(***************************************************************************)
(* livepeer-staker gateway-backfill (gateway.rs): three tables derived     *)
(* from the TicketBroker events, each with a checkpoint of its own.        *)
(*   flows     gateway_flows, keyed by the event                           *)
(*   claimants gateway_claimants_by_block, keyed by (gateway, claimant,    *)
(*             block), each row read from the archive node                 *)
(*   balances  gateway_balances_by_block, keyed by (gateway, block), read  *)
(*             from the archive node                                       *)
(* A run reads the checkpoints and fetches the three candidate lists, then *)
(* works through them one row at a time; it may be the staker loop of the  *)
(* daemon or a command line, and two runs may overlap.  An archive call    *)
(* that fails ends the run: what it wrote stays, the checkpoints of the    *)
(* lists it had not finished do not move.                                   *)
(***************************************************************************)
EXTENDS ChainLog

CONSTANTS
    Runners,          \* processes that run the backfill
    FlowLimit,        \* GATEWAY_FLOW_BATCH_LIMIT
    ClaimantLimit,    \* GATEWAY_CLAIMANT_BATCH_LIMIT
    BalanceLimit      \* GATEWAY_BALANCE_BATCH_LIMIT

ASSUME GatewayAssumption ==
    {FlowLimit, ClaimantLimit, BalanceLimit} \subseteq Nat \ {0}

VARIABLES
    flows,      \* rows of the log with a gateway_flows row
    claimants,  \* claimant key -> the triggering event, partial
    balances,   \* balance key -> the triggering event, partial
    cpGateway,  \* [axis -> block], 0 while the checkpoint row is absent
    run         \* [Runners -> the run in progress]

gatewayVars == <<flows, claimants, balances, cpGateway, run>>

FlowKinds     == {"DepositFunded", "ReserveFunded", "WinningTicketTransfer",
                  "WinningTicketRedeemed", "ReserveClaimed", "Withdrawal"}
ClaimantKinds == {"WinningTicketTransfer", "WinningTicketRedeemed", "ReserveClaimed"}
BalanceKinds  == FlowKinds \cup {"Unlock", "UnlockCancelled"}

Axes == <<"flow", "claimant", "balance">>
AxisSet == {"flow", "claimant", "balance"}

FromGateway  == {p \in Rows : Log[p].who # None}
FlowRows     == {p \in FromGateway : Log[p].kind \in FlowKinds}
ClaimantRows == {p \in FromGateway : Log[p].kind \in ClaimantKinds /\ Log[p].to # None}
BalanceRows  == {p \in FromGateway : Log[p].kind \in BalanceKinds}

ClaimantKey(p) == <<Log[p].who, Log[p].to, Log[p].block>>
BalanceKey(p)  == <<Log[p].who, Log[p].block>>

\* Mutant of LatestTouch: without DESC.
FirstTouch(S) ==
    {p \in S : \A q \in S : BalanceKey(q) = BalanceKey(p) => p <= q}

\* DISTINCT ON (from_address, block_number) ... ORDER BY log_index DESC, over
\* the finalized rows.
LatestTouch(S) ==
    {p \in S : \A q \in S : BalanceKey(q) = BalanceKey(p) => q <= p}

\* Mutant of FlowCandidates: the scan resumes after the checkpoint's block.
FlowCandidatesAfter ==
    FirstRows({p \in Finalized \cap FlowRows :
                  Log[p].block > cpGateway["flow"] /\ p \notin flows}, FlowLimit)

\* Mutant of FlowCandidates: every event of the contract.
FlowCandidatesOfAnyKind ==
    FirstRows({p \in Finalized :
                  Log[p].block >= cpGateway["flow"] /\ p \notin flows}, FlowLimit)

FlowCandidates ==
    FirstRows({p \in Finalized \cap FlowRows :
                  Log[p].block >= cpGateway["flow"] /\ p \notin flows}, FlowLimit)

\* Mutant of ClaimantCandidates: rows that exist are read again.
ClaimantCandidatesAgain ==
    FirstRows({p \in Finalized \cap ClaimantRows :
                  Log[p].block >= cpGateway["claimant"]}, ClaimantLimit)

ClaimantCandidates ==
    FirstRows({p \in Finalized \cap ClaimantRows :
                  /\ Log[p].block >= cpGateway["claimant"]
                  /\ ClaimantKey(p) \notin DOMAIN claimants}, ClaimantLimit)

BalanceCandidates ==
    FirstRows({p \in LatestTouch(Finalized \cap BalanceRows) :
                  /\ BalanceKey(p) \notin DOMAIN balances
                  /\ Log[p].block >= cpGateway["balance"]}, BalanceLimit)

NoRun == [axis |-> "idle", todo |-> [a \in AxisSet |-> {}], touched |-> 0]

GatewayInit ==
    /\ flows = {}
    /\ claimants = [k \in {} |-> 0]
    /\ balances = [k \in {} |-> 0]
    /\ cpGateway = [a \in AxisSet |-> 0]
    /\ run = [r \in Runners |-> NoRun]

-----------------------------------------------------------------------------
GatewayStart(r) ==
    /\ run[r].axis = "idle"
    /\ run' = [run EXCEPT ![r] =
                  [axis |-> "flow", touched |-> 0,
                   todo |-> [flow |-> FlowCandidates,
                             claimant |-> ClaimantCandidates,
                             balance |-> BalanceCandidates]]]
    /\ UNCHANGED <<flows, claimants, balances, cpGateway, logVars>>

\* The row of the run's axis is written: it leaves the list.
Done(r, a, p) ==
    run' = [run EXCEPT ![r].todo[a] = @ \ {p}, ![r].touched = Log[p].block]

UpsertFlow(r) ==
    /\ run[r].axis = "flow"
    /\ run[r].todo["flow"] # {}
    /\ LET p == Min(run[r].todo["flow"]) IN
         /\ flows' = flows \cup {p}
         /\ Done(r, "flow", p)
    /\ UNCHANGED <<claimants, balances, cpGateway, logVars>>

\* claimableReserve and claimedReserve at the event's block, then the upsert.
UpsertClaimant(r) ==
    /\ run[r].axis = "claimant"
    /\ run[r].todo["claimant"] # {}
    /\ LET p == Min(run[r].todo["claimant"]) IN
         /\ claimants' = [k \in DOMAIN claimants \cup {ClaimantKey(p)} |->
                             IF k = ClaimantKey(p) THEN p ELSE claimants[k]]
         /\ Done(r, "claimant", p)
    /\ UNCHANGED <<flows, balances, cpGateway, logVars>>

\* getSenderInfo and isUnlockInProgress at the event's block, then the upsert.
UpsertBalance(r) ==
    /\ run[r].axis = "balance"
    /\ run[r].todo["balance"] # {}
    /\ LET p == Min(run[r].todo["balance"]) IN
         /\ balances' = [k \in DOMAIN balances \cup {BalanceKey(p)} |->
                            IF k = BalanceKey(p) THEN p ELSE balances[k]]
         /\ Done(r, "balance", p)
    /\ UNCHANGED <<flows, claimants, cpGateway, logVars>>

NextAxis(a) == CASE a = "flow" -> "claimant" [] a = "claimant" -> "balance"
                 [] a = "balance" -> "idle"

\* The list is finished: the checkpoint moves to the block of its last row.
AdvanceGateway(r) ==
    /\ run[r].axis # "idle"
    /\ LET a == run[r].axis IN
         /\ run[r].todo[a] = {}
         /\ cpGateway' = [cpGateway EXCEPT ![a] = Greatest(@, run[r].touched)]
         /\ run' = [run EXCEPT ![r] =
                       IF a = "balance" THEN NoRun
                       ELSE [@ EXCEPT !.axis = NextAxis(a), !.touched = 0]]
    /\ UNCHANGED <<flows, claimants, balances, logVars>>

\* A database or archive error, or the process stops.
GatewayFails(r) ==
    /\ Fault
    /\ run[r].axis # "idle"
    /\ run' = [run EXCEPT ![r] = NoRun]
    /\ UNCHANGED <<flows, claimants, balances, cpGateway>>

GatewayWorks(r) ==
    GatewayStart(r) \/ UpsertFlow(r) \/ UpsertClaimant(r) \/ UpsertBalance(r) \/ AdvanceGateway(r)

GatewayNext == \E r \in Runners : GatewayWorks(r) \/ GatewayFails(r)

GatewaySpec ==
    /\ LogInit /\ GatewayInit
    /\ [][GatewayNext \/ (Finalize /\ UNCHANGED gatewayVars)]_<<logVars, gatewayVars>>

-----------------------------------------------------------------------------
GatewayTypeOK ==
    /\ final \in 0..Len(Log)
    /\ flows \in SUBSET FlowRows
    /\ DOMAIN claimants \subseteq {ClaimantKey(p) : p \in ClaimantRows}
    /\ \A k \in DOMAIN claimants : claimants[k] \in Rows
    /\ DOMAIN balances \subseteq {BalanceKey(p) : p \in BalanceRows}
    /\ \A k \in DOMAIN balances : balances[k] \in Rows
    /\ cpGateway \in [AxisSet -> Nat]
    /\ run \in [Runners -> [axis : AxisSet \cup {"idle"},
                            todo : [AxisSet -> SUBSET Rows],
                            touched : Nat]]

\* What an axis has to hold of a row of the log.
Held(a, p) ==
    CASE a = "flow"     -> p \in FlowRows => p \in flows
      [] a = "claimant" -> p \in ClaimantRows => ClaimantKey(p) \in DOMAIN claimants
      [] a = "balance"  -> p \in BalanceRows => BalanceKey(p) \in DOMAIN balances

\* A checkpoint never passes work that is not done: whatever the limits cut,
\* whichever archive call fails and however two runs overlap, every finalized
\* event below the checkpoint of an axis has its row in that axis's table.  The
\* next run looks only at blocks from the checkpoint on, so an event passed over
\* here would be missing for good.
GatewayNothingSkipped ==
    \A a \in AxisSet : \A p \in Finalized :
        Log[p].block < cpGateway[a] => Held(a, p)

\* The provenance of a balance row does not depend on when the run happened: it
\* is the last event of the gateway in that block, not the one the run met first.
BalanceTriggerIsLastTouch ==
    \A k \in DOMAIN balances :
        \A p \in BalanceRows : BalanceKey(p) = k => p <= balances[k]

\* Every finalized event is in the three tables.
GatewayComplete == \A a \in AxisSet, p \in Finalized : Held(a, p)
=============================================================================
