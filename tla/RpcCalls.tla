---------------------------- MODULE RpcCalls ----------------------------
(***************************************************************************)
(* The read-through RPC cache and the permits of core/src/rpc.  A caller   *)
(* asks for a sequence of keys (method, parameters, block), reads the rows *)
(* of rpc_call_cache one by one, sends what is missing under a permit of   *)
(* its task and one of the process, and stores what comes back row by row. *)
(* Once the live callers are done the same calls are made again by a       *)
(* replay, which may only read the cache.                                  *)
(***************************************************************************)
EXTENDS Integers, FiniteSets, Functions, SequencesExt

CONSTANTS
  Callers,       \* the callers of one process
  Ask,           \* the keys a caller asks for, a sequence
  Kinds,         \* the assignments of a cache function to each caller
  Task,          \* the task label of a caller, NoTask for none
  TaskLimit,     \* permits of each task
  GlobalLimit,   \* permits of the process
  Lagging,       \* keys a node answers differently until it has caught up
  Disputed,      \* keys the second provider may answer differently
  MaxRpcFaults,  \* failed requests, failed entries and failed inserts
  NoTask, NoKey

VARIABLES
  disputed,      \* the keys of Disputed the providers do disagree on
  kind,          \* single, batch, multi, cross or hash
  rpcCache,      \* key -> the stored answer and whether both providers gave it
  divergences,   \* keys with a row of rpc_divergence_failures
  call,          \* the progress of each caller
  taskQueue,     \* waiters for a permit of a task
  globalQueue,   \* waiters for a permit of the process
  synced,        \* the lagging node has caught up
  cacheOnly,     \* CACHE_ONLY_MODE
  liveGot,       \* what the live calls returned, once the replay has begun
  rpcFaults

rpcVars == <<disputed, kind, rpcCache, divergences, call, taskQueue, globalQueue, synced, cacheOnly, liveGot, rpcFaults>>

RpcKeys == UNION {ToSet(Ask[c]) : c \in Callers}
TaskLabels == {Task[c] : c \in Callers} \ {NoTask}
Answer(k, v) == [key |-> k, says |-> v]
CallKinds == {"single", "batch", "multi", "cross", "hash"}
Missing == Answer(NoKey, "nothing")
Failed == Answer(NoKey, "error")
NoRow == [answer |-> Missing, both |-> FALSE]

\* Permits are counted, and the keys of a call are listed.
ASSUME RpcAssumption ==
  /\ IsFiniteSet(Callers) /\ Kinds \subseteq [Callers -> CallKinds]
  /\ \A c \in Callers : Ask[c] \in Seq(RpcKeys)
  /\ GlobalLimit \in Nat /\ \A t \in TaskLabels : TaskLimit[t] \in Nat

\* What a provider answers for k: {"a", "b"} are the archive and the second one.
NodeSays(p, k) ==
  CASE k \in Lagging /\ ~synced -> Answer(k, "behind")
    [] k \in disputed /\ p = "b" -> Answer(k, "other")
    [] OTHER -> Answer(k, "final")

Idle(c) == [pc |-> "idle", got |-> <<>>, sent |-> <<>>,
            first |-> <<>>, answers |-> <<>>, at |-> 1, provider |-> "a"]

RpcInit ==
  /\ disputed \in SUBSET Disputed
  /\ kind \in Kinds
  /\ rpcCache = [k \in RpcKeys |-> NoRow]
  /\ divergences = {}
  /\ call = [c \in Callers |-> Idle(c)]
  /\ taskQueue = [t \in TaskLabels |-> <<>>]
  /\ globalQueue = <<>>
  /\ synced = FALSE
  /\ cacheOnly = FALSE
  /\ liveGot = [c \in Callers |-> <<>>]
  /\ rpcFaults = 0

\* A caller goes on with its progress rec.
Goes(c, rec) == call' = [call EXCEPT ![c] = rec]

\* A permit is held from its acquisition until call_once or call_batch returns.
HoldsTask(c) == Task[c] # NoTask /\ call[c].pc \in {"global", "sent"}
\* @mutant: the guards live as long as what the call returned.
InFlightKept == {c \in Callers : call[c].pc \in {"sent", "storing", "done"}}

InFlight == {c \in Callers : call[c].pc = "sent"}

Faulty(b) == IF b THEN rpcFaults < MaxRpcFaults /\ rpcFaults' = rpcFaults + 1 ELSE UNCHANGED rpcFaults

-----------------------------------------------------------------------------
(* cross_check_block_hash neither reads nor writes the cache: it sends every key. *)
Begin(c) ==
  /\ call[c].pc = "idle"
  /\ Goes(c, IF kind[c] = "hash"
             THEN [Idle(c) EXCEPT !.pc = "probing", !.got = [i \in 1..Len(Ask[c]) |-> Missing],
                                  !.sent = [i \in 1..Len(Ask[c]) |-> i]]
             ELSE [Idle(c) EXCEPT !.pc = "probing"])
  /\ UNCHANGED <<disputed, kind, rpcCache, divergences, taskQueue, globalQueue, synced, cacheOnly, liveGot, rpcFaults>>

\* One SELECT per key: another caller may store the row before or after it.  The
\* positions without a row are those that will be sent.
Probe(c) ==
  /\ call[c].pc = "probing" /\ Len(call[c].got) < Len(Ask[c])
  /\ LET i == Len(call[c].got) + 1
         row == rpcCache[Ask[c][i]].answer
     IN Goes(c, [call[c] EXCEPT !.got = Append(@, row),
                                !.sent = IF row = Missing THEN Append(@, i) ELSE @])
  /\ UNCHANGED <<disputed, kind, rpcCache, divergences, taskQueue, globalQueue, synced, cacheOnly, liveGot, rpcFaults>>

\* Waiting for a permit of the task, or of the process when there is no label.
Enqueue(c, rec) ==
  IF Task[c] = NoTask
  THEN /\ Goes(c, [rec EXCEPT !.pc = "global"])
       /\ globalQueue' = Append(globalQueue, c)
       /\ UNCHANGED taskQueue
  ELSE /\ Goes(c, [rec EXCEPT !.pc = "task"])
       /\ taskQueue' = [taskQueue EXCEPT ![Task[c]] = Append(@, c)]
       /\ UNCHANGED globalQueue

\* All keys probed: done, or a failed replay, or a request to send.
Probed(c) ==
  /\ call[c].pc = "probing" /\ Len(call[c].got) = Len(Ask[c])
  /\ IF call[c].sent # <<>> /\ ~cacheOnly
     THEN Enqueue(c, call[c])
     ELSE /\ Goes(c, [call[c] EXCEPT !.pc = IF call[c].sent = <<>> THEN "done" ELSE "failed"])
          /\ UNCHANGED <<taskQueue, globalQueue>>
  /\ UNCHANGED <<disputed, kind, rpcCache, divergences, synced, cacheOnly, liveGot, rpcFaults>>

TakeTask(c) ==
  /\ call[c].pc = "task" /\ Head(taskQueue[Task[c]]) = c
  /\ Cardinality({d \in Callers : HoldsTask(d) /\ Task[d] = Task[c]}) < TaskLimit[Task[c]]
  /\ taskQueue' = [taskQueue EXCEPT ![Task[c]] = Tail(@)]
  /\ Goes(c, [call[c] EXCEPT !.pc = "global"])
  /\ globalQueue' = Append(globalQueue, c)
  /\ UNCHANGED <<disputed, kind, rpcCache, divergences, synced, cacheOnly, liveGot, rpcFaults>>

\* @mutant: the limit is off by one.
TakeGlobalOver(c) ==
  /\ call[c].pc = "global" /\ Head(globalQueue) = c
  /\ Cardinality(InFlight) <= GlobalLimit
  /\ globalQueue' = Tail(globalQueue)
  /\ Goes(c, [call[c] EXCEPT !.pc = "sent"])
  /\ UNCHANGED <<disputed, kind, rpcCache, divergences, taskQueue, synced, cacheOnly, liveGot, rpcFaults>>

TakeGlobal(c) ==
  /\ call[c].pc = "global" /\ Head(globalQueue) = c
  /\ Cardinality(InFlight) < GlobalLimit
  /\ globalQueue' = Tail(globalQueue)
  /\ Goes(c, [call[c] EXCEPT !.pc = "sent"])
  /\ UNCHANGED <<disputed, kind, rpcCache, divergences, taskQueue, synced, cacheOnly, liveGot, rpcFaults>>

\* @mutant: the answers are taken in the order they arrive.
ByArrival(n, response) == [i \in 1..n |-> IF i <= Len(response) THEN response[i].body ELSE Failed]

\* Answers are put in their places by id; an id nobody answered is an error.
ById(n, response) ==
  [i \in 1..n |-> IF \E e \in ToSet(response) : e.id = i
                  THEN (CHOOSE e \in ToSet(response) : e.id = i).body ELSE Failed]

\* The entries of a response name different ones of n requests, in any order.
Orders(n) == {o \in UNION {[1..m -> 1..n] : m \in 0..n} : IsInjective(o)}

\* What may come for the i-th request sent.
Bodies(c, i) == {NodeSays(call[c].provider, Ask[c][call[c].sent[i]]), Failed}

\* A response to what was sent: any entry missing or in error.
Responses(c) ==
  LET n == Len(call[c].sent)
      all == {b \in [1..n -> UNION {Bodies(c, i) : i \in 1..n}] : \A i \in 1..n : b[i] \in Bodies(c, i)}
  IN {[j \in DOMAIN o |-> [id |-> o[j], body |-> b[o[j]]]] : o \in Orders(n), b \in all}

\* The HTTP call returns: call_once gives an error up, call_batch keeps one per
\* entry, cross_check_* go on to the second provider under new permits.
Respond(c) ==
  /\ call[c].pc = "sent"
  /\ \E response \in Responses(c) :
       LET placed == ById(Len(call[c].sent), response)
           faulty == Failed \in ToSet(placed)
       IN /\ Faulty(faulty)
          /\ CASE faulty /\ kind[c] \notin {"batch", "multi"} ->
                    /\ Goes(c, [call[c] EXCEPT !.pc = "failed"])
                    /\ UNCHANGED <<taskQueue, globalQueue>>
               [] ~faulty /\ kind[c] \in {"cross", "hash"} /\ call[c].provider = "a" ->
                    Enqueue(c, [call[c] EXCEPT !.first = placed, !.provider = "b"])
               [] OTHER ->
                    /\ Goes(c, [call[c] EXCEPT !.pc = "storing", !.answers = placed])
                    /\ UNCHANGED <<taskQueue, globalQueue>>
  /\ UNCHANGED <<disputed, kind, rpcCache, divergences, synced, cacheOnly, liveGot>>

\* HTTP error, malformed body, or the hard timeout: the guards are dropped.
Timeout(c) ==
  /\ call[c].pc = "sent" /\ Faulty(TRUE)
  /\ Goes(c, [call[c] EXCEPT !.pc = "failed"])
  /\ UNCHANGED <<disputed, kind, rpcCache, divergences, taskQueue, globalQueue, synced, cacheOnly, liveGot>>

\* @mutant: the answer of the first provider is compared with itself.
AgreeWithItself(c) == call[c].provider = "a" \/ call[c].first = call[c].first

\* cross_check_call and cross_check_block_hash compare before anything is stored.
Agree(c) == call[c].provider = "a" \/ call[c].first = call[c].answers

Diverge(c) ==
  /\ call[c].pc = "storing" /\ ~Agree(c)
  /\ divergences' = divergences \cup ToSet(Ask[c])
  /\ Goes(c, [call[c] EXCEPT !.pc = "failed"])
  /\ UNCHANGED <<disputed, kind, rpcCache, taskQueue, globalQueue, synced, cacheOnly, liveGot, rpcFaults>>

\* INSERT ... ON CONFLICT (call_hash) DO NOTHING.
Insert(k, row) == IF rpcCache[k] = NoRow THEN [rpcCache EXCEPT ![k] = row] ELSE rpcCache

\* @mutant: the key of the j-th entry sent is taken for that of the j-th asked.
KeyAsked(c, j) == Ask[c][j]

KeyOf(c, j) == Ask[c][call[c].sent[j]]

\* One entry is stored under its own key and returned as it came, not as stored;
\* multicall gives up at the first entry in error, the ones before it are stored.
Store(c) ==
  LET j == call[c].at
      body == call[c].answers[j]
  IN /\ call[c].pc = "storing" /\ Agree(c) /\ j <= Len(call[c].answers)
     /\ IF body = Failed /\ kind[c] = "multi"
        THEN /\ Goes(c, [call[c] EXCEPT !.pc = "failed"])
             /\ UNCHANGED rpcCache
        ELSE /\ Goes(c, [call[c] EXCEPT !.got = [@ EXCEPT ![call[c].sent[j]] = body], !.at = j + 1])
             /\ rpcCache' = IF body = Failed \/ kind[c] = "hash" THEN rpcCache
                            ELSE Insert(KeyOf(c, j), [answer |-> body, both |-> kind[c] = "cross"])
     /\ UNCHANGED <<disputed, kind, divergences, taskQueue, globalQueue, synced, cacheOnly, liveGot, rpcFaults>>

\* An INSERT fails: the entries before it are stored, the call is lost.
StoreFails(c) ==
  /\ call[c].pc = "storing" /\ call[c].at <= Len(call[c].answers) /\ kind[c] # "hash"
  /\ Faulty(TRUE)
  /\ Goes(c, [call[c] EXCEPT !.pc = "failed"])
  /\ UNCHANGED <<disputed, kind, rpcCache, divergences, taskQueue, globalQueue, synced, cacheOnly, liveGot>>

\* Every position filled; the caller asks again later for an entry in error.
Return(c) ==
  /\ call[c].pc = "storing" /\ call[c].at > Len(call[c].answers)
  /\ Goes(c, [call[c] EXCEPT !.pc = IF Failed \in ToSet(call[c].got) THEN "failed" ELSE "done"])
  /\ UNCHANGED <<disputed, kind, rpcCache, divergences, taskQueue, globalQueue, synced, cacheOnly, liveGot, rpcFaults>>

-----------------------------------------------------------------------------
\* The loop of a live caller starts its work again; a disagreement stands.
Retry(c) ==
  /\ call[c].pc = "failed" /\ ~cacheOnly /\ ToSet(Ask[c]) \cap divergences = {}
  /\ Goes(c, Idle(c))
  /\ UNCHANGED <<disputed, kind, rpcCache, divergences, taskQueue, globalQueue, synced, cacheOnly, liveGot, rpcFaults>>

\* The lagging node has caught up with the chain.
NodeSyncs ==
  /\ ~synced /\ synced' = TRUE
  /\ UNCHANGED <<disputed, kind, rpcCache, divergences, call, taskQueue, globalQueue, cacheOnly, liveGot, rpcFaults>>

Settled(c) == call[c].pc = "done" \/ (call[c].pc = "failed" /\ ToSet(Ask[c]) \cap divergences # {})

\* The live process has ended and a replay asks the same; block hashes are only
\* compared by commands a replay does not run.
StartReplay ==
  /\ ~cacheOnly /\ \A c \in Callers : Settled(c)
  /\ cacheOnly' = TRUE
  /\ liveGot' = [c \in Callers |-> IF call[c].pc = "done" /\ kind[c] # "hash" THEN call[c].got ELSE <<>>]
  /\ call' = [c \in Callers |-> IF kind[c] = "hash" THEN call[c] ELSE Idle(c)]
  /\ UNCHANGED <<disputed, kind, rpcCache, divergences, taskQueue, globalQueue, synced, rpcFaults>>

CallStep(c) ==
  \/ Begin(c) \/ Probe(c) \/ Probed(c) \/ TakeTask(c) \/ TakeGlobal(c)
  \/ Respond(c) \/ Timeout(c) \/ Diverge(c) \/ Store(c) \/ StoreFails(c) \/ Return(c) \/ Retry(c)

RpcNext == (\E c \in Callers : CallStep(c)) \/ NodeSyncs \/ StartReplay

\* A request is answered or times out, semaphores are fair, the loops go on.
RpcFairness == (\A c \in Callers : WF_rpcVars(CallStep(c))) /\ WF_rpcVars(StartReplay)

RpcSpec == RpcInit /\ [][RpcNext]_rpcVars /\ RpcFairness

-----------------------------------------------------------------------------
Answers == {Answer(k, v) : k \in RpcKeys, v \in {"behind", "other", "final"}}

(* Types, and the permits: a request is in flight under both of them. *)
RpcTypeOK ==
  /\ kind \in Kinds
  /\ rpcCache \in [RpcKeys -> [answer : Answers \cup {Missing}, both : BOOLEAN]]
  /\ divergences \subseteq RpcKeys
  /\ \A c \in Callers : ToSet(call[c].got) \subseteq Answers \cup {Missing, Failed}
  /\ Cardinality(InFlight) <= GlobalLimit
  /\ \A t \in TaskLabels : Cardinality({c \in Callers : HoldsTask(c) /\ Task[c] = t}) <= TaskLimit[t]

(* An answer is stored and returned for the key it was asked for, however the
   entries of a batch were permuted, dropped, or partly found in the cache; a
   cross-checked row holds what both providers said, which is what they both said
   before they caught up with the chain if they dispute the key. *)
AnswersMatchRequests ==
  /\ \A k \in RpcKeys :
       /\ rpcCache[k].answer.key \in {k, NoKey}
       /\ rpcCache[k].both => /\ rpcCache[k].answer.says # "other"
                              /\ k \in disputed => rpcCache[k].answer.says = "behind"
  /\ \A c \in Callers : \A i \in 1..Len(call[c].got) : call[c].got[i].key \in {Ask[c][i], NoKey}

(* What a live call returned is in the cache when the replay asks for it, byte
   for byte, unless the node itself had changed its answer in between. *)
ReplaySeesLiveBytes ==
  cacheOnly => \A c \in Callers :
    liveGot[c] # <<>> =>
      /\ call[c].pc # "failed"
      /\ \A i \in 1..Len(call[c].got) : Ask[c][i] \notin Lagging => call[c].got[i] = liveGot[c][i]

(* Each call has ended, and so has the replay of them all. *)
CallsEnded == cacheOnly /\ \A c \in Callers : call[c].pc \in {"done", "failed"}
=============================================================================
