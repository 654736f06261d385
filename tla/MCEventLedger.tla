--------------------------- MODULE MCEventLedger ---------------------------
(* Small instances of EventLedger. *)
EXTENDS EventLedger

CONSTANTS e1, e2

\* Two logs of one block, emitted by two contracts that are scanned separately.
\* e1 is in the block under both hashes, e2 only after the reorganisation.
TwoLogs     == {e1, e2}
SameBlock   == [e \in TwoLogs |-> 1]
TwoContracts == [e \in TwoLogs |-> IF e = e1 THEN "BondingManager" ELSE "TicketBroker"]
Reincluded  == [e \in TwoLogs |-> IF e = e1 THEN {"A", "B"} ELSE {"B"}]

\* Two logs of one contract in two blocks; a reorganisation keeps the first and
\* drops the second.
TwoBlocks   == [e \in TwoLogs |-> IF e = e1 THEN 1 ELSE 2]
OneContract == [e \in TwoLogs |-> "BondingManager"]
LosesSecond == [e \in TwoLogs |-> IF e = e1 THEN {"A", "B"} ELSE {"A"}]

\* The chain goes on and the indexer keeps ticking.
IndexedSpec ==
    /\ FairSpec /\ WF_vars(ChainGrows)
    /\ \A c \in Contracts : WF_vars(Index(c))
=============================================================================
