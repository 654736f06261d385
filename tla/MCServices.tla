----------------------------- MODULE MCServices -----------------------------
(***************************************************************************)
(* One of the services at a time: no service reads a table another of them *)
(* writes, so a behaviour of all five is an interleaving that no property  *)
(* can tell from the behaviours of one.  deployed says which one runs       *)
(* beside the finality-watcher.                                             *)
(***************************************************************************)
EXTENDS Services, TLC

VARIABLE deployed

allVars == <<servicesVars, deployed>>

Event(b, k, w, t, x) == [block |-> b, kind |-> k, who |-> w, to |-> t, tx |-> x]

\* Five blocks.  A limit cuts the ticket events of block 2 and the transactions of
\* block 3; the tickets touch a balance twice in one block and share a transaction;
\* an orchestrator appears between two rounds, one after the NewRound of its block,
\* and a lock is transferred.
MCLog == <<
    Event(1, "Bond",                  "d1",   "o1",   "t1"),
    Event(1, "NewRound",              "null", "null", "t1"),
    Event(2, "WinningTicketRedeemed", "g1",   "o1",   "t2"),
    Event(2, "WinningTicketRedeemed", "g1",   "o1",   "t2"),
    Event(2, "Bond",                  "d2",   "o2",   "t2"),
    Event(2, "WinningTicketRedeemed", "g1",   "o2",   "t2"),
    Event(3, "NewRound",              "null", "null", "t3"),
    Event(3, "TransferBond",          "o1",   "d3",   "t4"),
    Event(3, "TranscoderUpdate",      "null", "o3",   "t4"),
    Event(4, "Unbond",                "d2",   "o2",   "t5"),
    Event(4, "Withdrawal",            "g1",   "null", "t5"),
    Event(4, "EarningsClaimed",       "d1",   "o1",   "t5"),
    Event(5, "NewRound",              "null", "null", "t6")>>

\* d1 earns between its Bond and its claim; the flow's sum for d2 is a remainder
\* too high after the Unbond of all it had.
MCDelegators == {"d1", "d2"}
MCBlocks == 1..5
MCBonded == [k \in MCDelegators \X MCBlocks |->
    IF k[1] = "d1" THEN (IF k[2] >= 3 THEN 2 ELSE 1)
    ELSE IF k[2] \in 2..3 THEN 1 ELSE 0]
MCEstimate == [k \in MCDelegators \X MCBlocks |-> 1]
MCRoundOf == [p \in DOMAIN MCLog |-> 1 + MCLog[p].block \div 2]

\* One orchestrator, whose name moves to another with a different avatar, and three
\* gateways: one whose resolver reverts, one that claims the orchestrator's name, one
\* without a name.  Three L1 blocks in chunks of one, so that a pass of the watcher
\* has two; a sweep of two of the three.
MCAddressOrder == "g1" :> 1 @@ "g2" :> 2 @@ "g3" :> 3 @@ "o1" :> 4

MCStart == [reverse |-> [a \in {"o1", "g1", "g2", "g3"} |->
                            IF a \in {"o1", "g2"} THEN "n1" ELSE "null"],
            owner   |-> [n \in {"n1", "n2"} |-> "o1"],
            text    |-> [n \in {"n1", "n2"} |-> IF n = "n1" THEN "png" ELSE "jpg"],
            topic   |-> "none", node |-> "null"]

MCChanges == {[topic |-> "name", node |-> "o1", to |-> "n2"],
              [topic |-> "text", node |-> "n1", to |-> "html"]}

MCInit == ServicesInit /\ deployed \in {"gateway", "receipts", "profile", "stake", "enricher"}

MCNext ==
    /\ \/ deployed = "gateway"  /\ GatewaySteps
       \/ deployed = "receipts" /\ ReceiptSteps
       \/ deployed = "profile"  /\ ProfileSteps
       \/ deployed = "stake"    /\ StakerSteps
       \/ deployed = "enricher" /\ EnricherSteps
       \/ deployed # "enricher" /\ WatcherSteps
    /\ UNCHANGED deployed

OfGateway(A)  == deployed = "gateway"  /\ A /\ UNCHANGED <<receiptVars, profileVars, truthVars, ensVars, deployed>>
OfReceipts(A) == deployed = "receipts" /\ A /\ UNCHANGED <<gatewayVars, profileVars, truthVars, ensVars, deployed>>
OfProfile(A)  == deployed = "profile"  /\ A /\ UNCHANGED <<gatewayVars, receiptVars, truthVars, ensVars, deployed>>
OfStake(A)    == deployed = "stake"    /\ A /\ UNCHANGED <<gatewayVars, receiptVars, profileVars, ensVars, deployed>>
OfEnricher(A) == deployed = "enricher" /\ A /\ UNCHANGED <<gatewayVars, receiptVars, profileVars, truthVars, deployed>>

MCFairness ==
    /\ \A r \in Runners : WF_allVars(OfGateway(GatewayWorks(r)))
    /\ WF_allVars(OfReceipts(ReceiptsWork))
    /\ WF_allVars(OfProfile(ProfileWorks))
    /\ WF_allVars(OfStake(StakerWorks))
    /\ WF_allVars(OfEnricher(EnricherWorks)) /\ WF_allVars(OfEnricher(Expire))

MCSpec == MCInit /\ [][MCNext]_allVars /\ MCFairness

\* Once the failures stop, each service comes to be complete again and again:
\* every finalized ticket event is in all three tables of gateway.rs, whatever list a
\* limit cut or run failed half way; every finalized transaction has its receipt or is
\* known to have none, and nulls do not clog the batch for good (tx_receipts.rs); the
\* walk of profile.rs fills every finalized round; every row of the stake table is
\* exact, the latest round refreshed and every claim's pendings read, after stale layers
\* too (pending.rs, current.rs); and every tracked address whose resolver answers says
\* what L1 says once that is quiet, although failing addresses keep their place at the
\* head of the sweep (runner.rs of the enricher).
ServicesCatchUp == []<>
    /\ deployed = "gateway" => GatewayComplete
    /\ deployed = "receipts" => ReceiptsComplete
    /\ deployed = "profile" => ProfileComplete
    /\ deployed = "stake" => StakeIsCurrent
    /\ deployed = "enricher" => \A a \in Tracked \ Broken : MatchesL1(a)
=============================================================================
