------------------------------ MODULE Services ------------------------------
(***************************************************************************)
(* The four services that follow the finalized log beside the finality-    *)
(* watcher, and the enricher, which follows L1.  Each is a process of its  *)
(* own: the daemon's staker loop, or a command line next to it.  They share *)
(* the log they read and the archive node and database they fail with.     *)
(***************************************************************************)
EXTENDS GatewayLedger, TxReceipts, OrchProfile, StakeTruth, EnsEnricher

servicesVars == <<logVars, gatewayVars, receiptVars, profileVars, truthVars, ensVars>>

ServicesInit ==
    LogInit /\ GatewayInit /\ ReceiptInit /\ ProfileInit /\ TruthInit /\ EnsInit

WatcherSteps  == Finalize    /\ UNCHANGED <<gatewayVars, receiptVars, profileVars, truthVars, ensVars>>
GatewaySteps  == GatewayNext /\ UNCHANGED <<receiptVars, profileVars, truthVars, ensVars>>
ReceiptSteps  == ReceiptNext /\ UNCHANGED <<gatewayVars, profileVars, truthVars, ensVars>>
ProfileSteps  == ProfileNext /\ UNCHANGED <<gatewayVars, receiptVars, truthVars, ensVars>>
StakerSteps   == TruthNext   /\ UNCHANGED <<gatewayVars, receiptVars, profileVars, ensVars>>
EnricherSteps == EnsNext     /\ UNCHANGED <<gatewayVars, receiptVars, profileVars, truthVars>>

ServicesNext ==
    \/ WatcherSteps \/ GatewaySteps \/ ReceiptSteps
    \/ ProfileSteps \/ StakerSteps \/ EnricherSteps

ServicesSpec == ServicesInit /\ [][ServicesNext]_servicesVars

-----------------------------------------------------------------------------
\* No checkpoint hides work: every finalized event below that of an axis of gateway.rs
\* has its row, every finalized transaction below that of tx_receipts.rs its receipt or
\* a null of the node, and every change of a name or an avatar below that of the ENS
\* watcher has been read or is known to have failed.
CheckpointsHideNothing == GatewayNothingSkipped /\ ReceiptsNothingSkipped /\ WatcherNothingSkipped

\* Type correctness of the five services.
ServicesTypeOK == GatewayTypeOK /\ ReceiptTypeOK /\ ProfileTypeOK /\ TruthTypeOK /\ EnsTypeOK
=============================================================================
