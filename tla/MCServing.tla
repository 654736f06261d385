------------------------------ MODULE MCServing ------------------------------
(***************************************************************************)
(* The four parts of Serving, one at a time.  As in MCServices, deployed   *)
(* says which one a behaviour is about; the others stand at one of their   *)
(* initial states.                                                         *)
(***************************************************************************)
EXTENDS Serving

VARIABLE deployed

allVars == <<servingVars, deployed>>

\* Two labelled callers of one permit each and an unlabelled one, one permit of
\* the process; a batch that shares one key with each of the others.
MCCallers == {"indexer", "valuator", "probe"}
MCAsk == [indexer |-> <<"receipt">>, valuator |-> <<"receipt", "price">>, probe |-> <<"price">>]
MCKinds == {[indexer |-> "single", valuator |-> "batch", probe |-> "cross"],
            [indexer |-> "single", valuator |-> "multi", probe |-> "hash"]}
MCTask == [indexer |-> "live", valuator |-> "live", probe |-> "none"]
MCTaskLimit == [live |-> 1]

\* A gated loop and the matview loop, which the probe leaves out.
MCTasks == {"indexer", "matview"}
MCPeriod == [indexer |-> 1, matview |-> 1]
MCThreshold == [indexer |-> 2]

\* Three rows, of which a page holds two; five events with nine valuations, more
\* than a batch of the list by amount has rows.
MCPlace == [r \in 1..3 |-> r]
MCEventOf == [v \in 1..9 |-> (v + 1) \div 2]

\* Block 1 has its touch in one version, block 2 in both, with other amounts.
MCTouched == {<<1, 0>>, <<2, 0>>, <<2, 1>>}

MCInit ==
    /\ deployed \in {"rpc", "daemon", "pages", "balance"}
    /\ ServingInit
    /\ deployed # "rpc" => disputed = {} /\ kind = CHOOSE k \in Kinds : TRUE
    /\ deployed # "daemon" => lag = 0
    /\ deployed # "pages" => endpoint = EventsUp /\ standing = {}

OfRpc(A)     == deployed = "rpc" /\ A /\ UNCHANGED <<daemonVars, pageVars, gatewayReadVars, deployed>>
OfDaemon(A)  == deployed = "daemon" /\ A /\ UNCHANGED <<rpcVars, pageVars, gatewayReadVars, deployed>>
OfPages(A)   == deployed = "pages" /\ A /\ UNCHANGED <<rpcVars, daemonVars, gatewayReadVars, deployed>>

MCNext ==
    /\ \/ deployed = "rpc"     /\ RpcSteps
       \/ deployed = "daemon"  /\ DaemonSteps
       \/ deployed = "pages"   /\ PageSteps
       \/ deployed = "balance" /\ BalanceSteps
    /\ UNCHANGED deployed

\* The fairness of RpcSpec, DaemonSpec and PageSpec, of the part that is deployed.
MCFairness ==
    /\ \A c \in Callers : WF_allVars(OfRpc(CallStep(c)))
    /\ WF_allVars(OfRpc(StartReplay))
    /\ WF_allVars(OfDaemon(PassGate)) /\ WF_allVars(OfDaemon(OperatorBackfill))
    /\ WF_allVars(OfDaemon(Tick)) /\ WF_allVars(OfDaemon(Restart))
    /\ WF_allVars(OfDaemon((\A t \in Tasks : loop[t] = "stopped") /\ Exit))
    /\ \A t \in Tasks : /\ WF_allVars(OfDaemon(Due(t) /\ Iterate(t)))
                        /\ WF_allVars(OfDaemon(Respawn(t)))
                        /\ WF_allVars(OfDaemon(Stop(t)))
    /\ WF_allVars(OfPages(AskPage \/ AskBatch))

MCSpec == MCInit /\ [][MCNext]_allVars /\ MCFairness

\* Each part comes to rest where it should, whoever else fails.  No caller waits for
\* ever for a permit: every call ends, and so does the replay of them all (provider.rs).
\* A signal ends the daemon unless a loop hangs, and without one it is up in the end
\* with every gated loop beating, as a hang or an escalation ends in a restart of the
\* container (supervisor.rs, http.rs).  A client that follows next_cursor comes to an
\* end on every endpoint (routes/*.rs).
EachPartSettles == <>[]
    /\ deployed = "rpc" => CallsEnded
    /\ deployed = "daemon" => IF shutdown THEN ShutDown ELSE Sound
    /\ deployed = "pages" => walk = "ended"
=============================================================================
