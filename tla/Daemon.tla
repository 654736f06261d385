----------------------------- MODULE Daemon -----------------------------
(***************************************************************************)
(* livepeer-daemon: the startup gate, one supervisor per loop with its      *)
(* restarts, backoff and escalation, the heartbeats, the /health probe      *)
(* that has the container restarted, and the latched shutdown.  What an     *)
(* iteration of a loop does is the subject of the other modules; here it    *)
(* completes and beats, dies, or hangs.  One unit of time is shorter than   *)
(* any loop's interval.                                                     *)
(***************************************************************************)
EXTENDS Integers, FiniteSets

CONSTANTS
  Tasks,           \* SUPERVISED_TASKS
  Period,          \* [Tasks -> Nat]: an iteration and its sleep take no longer
  Threshold,       \* HEALTH_THRESHOLDS, a function of the gated tasks
  MaxConsecutive,  \* RestartPolicy.max_consecutive
  MaxBackoff,      \* RestartPolicy.max_backoff
  Grace,           \* HEALTH_START_GRACE_SECS
  MaxLag,          \* --max-start-lag-blocks
  ProbeRestarts,   \* whether what runs the container restarts an unhealthy one
  MaxDeaths        \* bound on the faults: deaths, hangs, panics

ASSUME DaemonAssumption ==
  /\ DOMAIN Threshold # {} /\ DOMAIN Threshold \subseteq Tasks /\ IsFiniteSet(DOMAIN Threshold)
  /\ \A t \in DOMAIN Threshold : Threshold[t] \in Nat /\ Period[t] \in Nat /\ Period[t] <= Threshold[t]
  /\ MaxConsecutive \in Nat /\ MaxBackoff \in Nat \ {0} /\ Grace \in Nat /\ MaxLag \in Nat /\ MaxDeaths \in Nat

VARIABLES
  process,      \* "gate" | "up" | "exited"
  shutdown,     \* the watch channel
  loop,         \* [Tasks -> {"running", "hung", "backoff", "stopped"}]
  consecutive,  \* deaths in a row without progress, of each supervisor
  progress,     \* the heartbeat has advanced since the loop was spawned
  up,           \* task_up
  age,          \* time since task_last_success_timestamp
  wait,         \* what is left of the backoff
  uptime,       \* time since the probe started
  lag,          \* blocks between the head and the slowest indexer checkpoint
  barren,       \* history: deaths since the last completed iteration
  deaths

daemonVars == <<process, shutdown, loop, consecutive, progress, up, age, wait, uptime, lag, barren, deaths>>

Gated == DOMAIN Threshold
LesserOf(a, b) == IF a < b THEN a ELSE b

\* Clocks stop where nothing looks at them any more.
MaxAge == 1 + CHOOSE n \in {Threshold[t] : t \in Gated} : \A t \in Gated : Threshold[t] <= n
Older(n) == LesserOf(n + 1, MaxAge)

\* @mutant: the cap is forgotten.
BackoffUncapped(n) == 2 ^ LesserOf(IF n = 0 THEN 0 ELSE n - 1, 6)

\* base * 2^(n-1), at most 2^6, capped.
Backoff(n) == LesserOf(2 ^ LesserOf(IF n = 0 THEN 0 ELSE n - 1, 6), MaxBackoff)

\* @mutant: the gauges are not initialised, an unset one reads 0.
FreshUnset ==
  /\ loop' = [t \in Tasks |-> "running"]
  /\ consecutive' = [t \in Tasks |-> 0]
  /\ progress' = [t \in Tasks |-> FALSE]
  /\ barren' = [t \in Tasks |-> 0]
  /\ wait' = [t \in Tasks |-> 0]
  /\ UNCHANGED <<up, age>>

\* The state run_follow sets up before it spawns the supervisors.
Fresh ==
  /\ loop' = [t \in Tasks |-> "running"]
  /\ consecutive' = [t \in Tasks |-> 0]
  /\ progress' = [t \in Tasks |-> FALSE]
  /\ up' = [t \in Tasks |-> TRUE]
  /\ age' = [t \in Tasks |-> 0]
  /\ wait' = [t \in Tasks |-> 0]
  /\ barren' = [t \in Tasks |-> 0]

DaemonInit ==
  /\ process = "gate" /\ shutdown = FALSE
  /\ loop = [t \in Tasks |-> "stopped"]
  /\ consecutive = [t \in Tasks |-> 0]
  /\ progress = [t \in Tasks |-> FALSE]
  /\ up = [t \in Tasks |-> FALSE]
  /\ age = [t \in Tasks |-> MaxAge]
  /\ wait = [t \in Tasks |-> 0]
  /\ uptime = 0
  /\ lag \in 0..(MaxLag + 1)
  /\ barren = [t \in Tasks |-> 0]
  /\ deaths = 0

-----------------------------------------------------------------------------
(* run_follow refuses to start too far behind the head: a backfill command,  *)
(* which an operator runs, comes first.                                      *)
PassGate ==
  /\ process = "gate" /\ lag <= MaxLag
  /\ process' = "up" /\ Fresh
  /\ UNCHANGED <<shutdown, uptime, lag, deaths>>

OperatorBackfill ==
  /\ process = "gate" /\ lag > MaxLag
  /\ lag' = 0
  /\ UNCHANGED <<process, shutdown, loop, consecutive, progress, up, age, wait, uptime, barren, deaths>>

\* No loop that runs takes longer than its period, no backoff longer than it is.
Due(t) == loop[t] = "running" /\ age[t] >= Period[t]

Tick ==
  /\ process = "up" /\ ~\E t \in Tasks : Due(t) \/ (loop[t] = "backoff" /\ wait[t] = 0)
  /\ age' = [t \in Tasks |-> Older(age[t])]
  /\ wait' = [t \in Tasks |-> IF wait[t] > 0 THEN wait[t] - 1 ELSE 0]
  /\ uptime' = LesserOf(uptime + 1, Grace + 1)
  /\ lag' = LesserOf(lag + 1, MaxLag + 1)
  /\ UNCHANGED <<process, shutdown, loop, consecutive, progress, up, barren, deaths>>

\* record_success: an iteration is complete and beats.
Iterate(t) ==
  /\ process = "up" /\ loop[t] = "running" /\ age[t] > 0
  /\ age' = [age EXCEPT ![t] = 0]
  /\ progress' = [progress EXCEPT ![t] = TRUE]
  /\ barren' = [barren EXCEPT ![t] = 0]
  /\ lag' = IF t = "indexer" THEN 0 ELSE lag
  /\ UNCHANGED <<process, shutdown, loop, consecutive, up, wait, uptime, deaths>>

\* @mutant: the counter is never reset.
DeathsOf(t) == consecutive[t] + 1

\* A loop that beat since it was spawned has made progress.
DeathsInARow(t) == IF progress[t] THEN 0 ELSE consecutive[t] + 1

\* An error or a panic of the loop, outside a shutdown.
Die(t) ==
  /\ process = "up" /\ loop[t] = "running" /\ ~shutdown /\ deaths < MaxDeaths
  /\ consecutive' = [consecutive EXCEPT ![t] = DeathsInARow(t)]
  /\ up' = [up EXCEPT ![t] = DeathsInARow(t) <= MaxConsecutive]
  /\ wait' = [wait EXCEPT ![t] = Backoff(DeathsInARow(t))]
  /\ loop' = [loop EXCEPT ![t] = "backoff"]
  /\ barren' = [barren EXCEPT ![t] = @ + 1]
  /\ deaths' = deaths + 1
  /\ UNCHANGED <<process, shutdown, progress, age, uptime, lag>>

\* A call without a timeout never returns.
Hang(t) ==
  /\ process = "up" /\ loop[t] = "running" /\ deaths < MaxDeaths
  /\ loop' = [loop EXCEPT ![t] = "hung"] /\ deaths' = deaths + 1
  /\ UNCHANGED <<process, shutdown, consecutive, progress, up, age, wait, uptime, lag, barren>>

Respawn(t) ==
  /\ process = "up" /\ loop[t] = "backoff" /\ wait[t] = 0 /\ ~shutdown
  /\ loop' = [loop EXCEPT ![t] = "running"]
  /\ progress' = [progress EXCEPT ![t] = FALSE]
  /\ UNCHANGED <<process, shutdown, consecutive, up, age, wait, uptime, lag, barren, deaths>>

\* SIGTERM or SIGINT.
Signal ==
  /\ process = "up" /\ ~shutdown
  /\ shutdown' = TRUE
  /\ UNCHANGED <<process, loop, consecutive, progress, up, age, wait, uptime, lag, barren, deaths>>

\* @mutant: a loop that returns is restarted, shutdown or not.
StopRestarting(t) ==
  /\ process = "up" /\ shutdown /\ loop[t] = "running"
  /\ loop' = [loop EXCEPT ![t] = "backoff"]
  /\ UNCHANGED <<process, shutdown, consecutive, progress, up, age, wait, uptime, lag, barren, deaths>>

\* The loop returns, or its backoff is interrupted, and the supervisor ends.
Stop(t) ==
  /\ process = "up" /\ shutdown /\ loop[t] \in {"running", "backoff"}
  /\ loop' = [loop EXCEPT ![t] = "stopped"]
  /\ UNCHANGED <<process, shutdown, consecutive, progress, up, age, wait, uptime, lag, barren, deaths>>

\* All supervisors have been joined, or one of them panicked.
Exit ==
  /\ process = "up"
  /\ \/ (\A t \in Tasks : loop[t] = "stopped") /\ UNCHANGED deaths
     \/ deaths < MaxDeaths /\ deaths' = deaths + 1
  /\ process' = "exited"
  /\ UNCHANGED <<shutdown, loop, consecutive, progress, up, age, wait, uptime, lag, barren>>

\* @mutant: only escalation counts.
UnhealthyDown == {t \in Gated : ~up[t]}

\* health_status, after the grace period.
Unhealthy == {t \in Gated : age[t] > Threshold[t] \/ ~up[t]}
Healthy == uptime <= Grace \/ Unhealthy = {}

\* The container is started again after it exited, or because its probe failed,
\* unless it was asked to stop.
Restart ==
  /\ ~shutdown
  /\ process = "exited" \/ (ProbeRestarts /\ process = "up" /\ ~Healthy)
  /\ process' = "gate" /\ uptime' = 0
  /\ loop' = [t \in Tasks |-> "stopped"]
  /\ up' = [t \in Tasks |-> FALSE] /\ age' = [t \in Tasks |-> MaxAge]
  /\ UNCHANGED <<shutdown, consecutive, progress, wait, lag, barren, deaths>>

TaskStep(t) == Iterate(t) \/ Respawn(t) \/ Stop(t)

DaemonNext ==
  \/ PassGate \/ OperatorBackfill \/ Tick \/ Signal \/ Exit \/ Restart
  \/ \E t \in Tasks : TaskStep(t) \/ Die(t) \/ Hang(t)

\* Time passes, loops and supervisors go on, Docker and the operator act.
DaemonFairness ==
  /\ WF_daemonVars(PassGate) /\ WF_daemonVars(OperatorBackfill) /\ WF_daemonVars(Tick)
  /\ WF_daemonVars(Restart) /\ WF_daemonVars((\A t \in Tasks : loop[t] = "stopped") /\ Exit)
  /\ \A t \in Tasks : WF_daemonVars(Due(t) /\ Iterate(t)) /\ WF_daemonVars(Respawn(t)) /\ WF_daemonVars(Stop(t))

DaemonSpec == DaemonInit /\ [][DaemonNext]_daemonVars /\ DaemonFairness

-----------------------------------------------------------------------------
DaemonTypeOK ==
  /\ process \in {"gate", "up", "exited"} /\ shutdown \in BOOLEAN
  /\ loop \in [Tasks -> {"running", "hung", "backoff", "stopped"}]
  /\ consecutive \in [Tasks -> 0..MaxDeaths] /\ barren \in [Tasks -> 0..MaxDeaths]
  /\ progress \in [Tasks -> BOOLEAN] /\ up \in [Tasks -> BOOLEAN]
  /\ age \in [Tasks -> 0..MaxAge] /\ wait \in [Tasks -> 0..MaxBackoff]
  /\ uptime \in 0..(Grace + 1) /\ lag \in 0..(MaxLag + 1) /\ deaths \in 0..MaxDeaths

(* A loop is marked down only after more than max_consecutive deaths without a
   completed iteration, and never later than one death after that. *)
EscalatesOnlyBarren ==
  \A t \in Tasks : /\ ~up[t] /\ loop[t] = "backoff" => barren[t] > MaxConsecutive
                   /\ process = "up" /\ barren[t] > MaxConsecutive + 1 => ~up[t]

(* While no loop has died or hung the probe never fails: no threshold is below
   what a sound loop needs, from the first iteration on. *)
SoundIsHealthy == deaths = 0 /\ process = "up" /\ ~shutdown => Healthy

(* A signal ends the process, whatever the supervisors were doing when it came,
   unless a loop hangs and has to be killed. *)
ShutDown == process = "exited" \/ \E t \in Tasks : loop[t] = "hung"

(* The daemon is up with every gated loop beating. *)
Sound == process = "up" /\ Unhealthy = {} /\ \A t \in Gated : loop[t] # "hung"

(* A daemon that is not asked to stop is sound in the end: hangs and escalations
   end in a restart of the container; one that is asked to stop does. *)
ComesBack == <>[](IF shutdown THEN ShutDown ELSE Sound)
=============================================================================
