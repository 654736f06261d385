---------------------------- MODULE FinalityFeed ----------------------------
(***************************************************************************)
(* What the consumers of raw_protocol_events (the valuator's passes, the    *)
(* staker's flow worker) rely on: rows become finalized exactly once, are  *)
(* stamped finalized_at = now() of the UPDATE statement that finalizes     *)
(* them, become visible when that statement commits, and may be withdrawn  *)
(* (is_canonical = FALSE) by the reorg-watcher at any time.                 *)
(*                                                                         *)
(* The clock counts abstract seconds.  0 stands for a NULL finalized_at    *)
(* and for "no UPDATE statement open"; the clock starts at 1.              *)
(***************************************************************************)
EXTENDS Integers

CONSTANTS
    Events,      \* rows of raw_protocol_events
    MaxCommit,   \* longest time an UPDATE statement stays uncommitted
    MaxClock     \* bound on the clock

ASSUME FeedAssumption == MaxCommit \in Nat /\ MaxClock \in Nat

VARIABLES
    clock,         \* now()
    finalizedAt,   \* [Events -> Nat], 0 while the row is not finalized
    canonical,     \* the rows with is_canonical = TRUE
    stmt           \* now() of the open finalizing UPDATE, 0 if none is open

feedVars == <<clock, finalizedAt, canonical, stmt>>

FeedTypeOK ==
    /\ clock \in Nat \ {0}
    /\ finalizedAt \in [Events -> Nat]
    /\ canonical \in SUBSET Events
    /\ stmt \in Nat

FeedInit ==
    /\ clock = 1
    /\ finalizedAt = [e \in Events |-> 0]
    /\ canonical = Events
    /\ stmt = 0

\* The rows every consumer's "finality = 'finalized' AND is_canonical" selects.
Finalized == {e \in canonical : finalizedAt[e] > 0}

Tick ==
    /\ clock < MaxClock
    /\ stmt > 0 => clock < stmt + MaxCommit
    /\ clock' = clock + 1
    /\ UNCHANGED <<finalizedAt, canonical, stmt>>

\* The UPDATE statement of the finality-watcher starts: now() is fixed here.
BeginFinalize ==
    /\ stmt = 0
    /\ stmt' = clock
    /\ UNCHANGED <<clock, finalizedAt, canonical>>

\* It commits: every row it matched becomes visible as finalized at once.
\* Which rows match depends on L1 timestamps, so any set of them may.
CommitFinalize ==
    /\ stmt > 0
    /\ \E batch \in SUBSET {e \in canonical : finalizedAt[e] = 0} :
          finalizedAt' = [e \in Events |-> IF e \in batch THEN stmt
                                                          ELSE finalizedAt[e]]
    /\ stmt' = 0
    /\ UNCHANGED <<clock, canonical>>

\* The reorg-watcher marks every row of a diverged block, in any finality.
MarkNonCanonical ==
    /\ \E rows \in SUBSET canonical :
          /\ rows # {}
          /\ canonical' = canonical \ rows
    /\ UNCHANGED <<clock, finalizedAt, stmt>>

FeedNext == Tick \/ BeginFinalize \/ CommitFinalize \/ MarkNonCanonical

FeedSpec == FeedInit /\ [][FeedNext]_feedVars
=============================================================================
