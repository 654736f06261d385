------------------------------ MODULE Serving ------------------------------
(***************************************************************************)
(* Four parts that meet in no table but the call cache: the RPC layer, the *)
(* supervised daemon, the paged endpoints and the balance endpoint.        *)
(***************************************************************************)
EXTENDS RpcCalls, Daemon, PagedReads, GatewayReads

servingVars == <<rpcVars, daemonVars, pageVars, gatewayReadVars>>

ServingInit == RpcInit /\ DaemonInit /\ PageInit /\ ReadsInit

RpcSteps     == RpcNext    /\ UNCHANGED <<daemonVars, pageVars, gatewayReadVars>>
DaemonSteps  == DaemonNext /\ UNCHANGED <<rpcVars, pageVars, gatewayReadVars>>
PageSteps    == PageNext   /\ UNCHANGED <<rpcVars, daemonVars, gatewayReadVars>>
BalanceSteps == ReadsNext  /\ UNCHANGED <<rpcVars, daemonVars, pageVars>>

ServingNext == RpcSteps \/ DaemonSteps \/ PageSteps \/ BalanceSteps

ServingSpec == ServingInit /\ [][ServingNext]_servingVars

-----------------------------------------------------------------------------
\* Type correctness of the four parts, with the limits of the permits and the backoff
\* and the order of the tips.
ServingTypeOK == RpcTypeOK /\ DaemonTypeOK /\ ReadsTypeOK
=============================================================================
