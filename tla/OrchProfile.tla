----------------------------- MODULE OrchProfile -----------------------------
(***************************************************************************)
(* livepeer-staker profile-follow (profile.rs): at every NewRound, one     *)
(* orch_stake_by_round row for every orchestrator known at that point.     *)
(* The set of known orchestrators lives in memory for one batch; the next  *)
(* batch rebuilds it from the log before the checkpoint and from the       *)
(* materialized view orchestrator_profile, which the daemon refreshes from  *)
(* the rows.  A batch takes the first rows from the checkpoint's block on, *)
(* that block included again.                                              *)
(***************************************************************************)
EXTENDS ChainLog

CONSTANT ProfileLimit   \* ORCH_PROFILE_BATCH_LIMIT

LifecycleKinds == {"Bond", "Unbond", "Rebond", "EarningsClaimed", "TransferBond",
                   "TranscoderUpdate", "TranscoderActivated", "TranscoderDeactivated"}

ProfileRows == {p \in Rows : Log[p].kind \in LifecycleKinds \cup {"NewRound"}}
RoundRows   == {p \in Rows : Log[p].kind = "NewRound"}
Transfers   == {p \in Rows : Log[p].kind = "TransferBond"}

\* A batch outgrows a block, so that it always gets past the checkpoint's; and
\* whoever a TransferBond ends up with was bonded to before.  For a TransferBond
\* to is the new delegator and who the delegate the contract gives for it.
ASSUME ProfileAssumption ==
    /\ ProfileLimit \in Nat \ {0}
    /\ \A p \in ProfileRows :
          Cardinality({q \in ProfileRows : Log[q].block = Log[p].block}) < ProfileLimit
    /\ \A p \in Transfers : \E q \in ProfileRows \ (RoundRows \cup Transfers) :
          q < p /\ Log[q].to = Log[p].who

VARIABLES
    stakeRows,    \* orch_stake_by_round: <<orchestrator, NewRound row>>
    profileView,  \* orchestrator_profile: the <<orchestrator, as_of_block>> rows
    cpProfile,    \* last_processed_block of staker_orch_profile, 0 while absent
    batch         \* the batch in progress

profileVars == <<stakeRows, profileView, cpProfile, batch>>

NoBatch == [at |-> "idle", todo |-> {}, known |-> {}, upTo |-> 0]

ProfileInit ==
    /\ stakeRows = {}
    /\ profileView = {}
    /\ cpProfile = 0
    /\ batch = NoBatch

\* Mutant of KnownBefore: the log is not scanned, the view alone is used.
KnownFromView(cp) == {v[1] : v \in {w \in profileView : w[2] < cp}}

\* load_known_orchestrators_before: with no checkpoint the scan has no bound.
KnownBefore(cp) ==
    {v[1] : v \in {w \in profileView : w[2] < cp}}
    \cup {Log[p].to : p \in {q \in ProfileRows \ RoundRows :
              Log[q].to # None /\ (cp = 0 \/ Log[q].block < cp)}}

\* What the first loop over the candidates adds before any of them is handled.
NamedIn(list) ==
    {Log[p].to : p \in {q \in list \ (RoundRows \cup Transfers) : Log[q].to # None}}

ProfileStart ==
    /\ batch.at = "idle"
    /\ LET list == FirstRows({p \in Finalized \cap ProfileRows :
                                 Log[p].block >= cpProfile}, ProfileLimit)
       IN batch' = [at |-> "walk", todo |-> list, upTo |-> cpProfile,
                    known |-> KnownBefore(cpProfile) \cup NamedIn(list)]
    /\ UNCHANGED <<stakeRows, profileView, cpProfile, logVars>>

Head1 == Min(batch.todo)
Next1(known) == [batch EXCEPT !.todo = @ \ {Head1}, !.known = known, !.upTo = Log[Head1].block]

\* The rows of one INSERT ... ON CONFLICT DO NOTHING.
RoundBatch(known, p) == {<<o, p>> : o \in known}

\* The active pool, a snapshot of every known orchestrator at the block of the
\* NewRound, then the insert.
SnapshotRound ==
    /\ batch.at = "walk" /\ batch.todo # {}
    /\ Head1 \in RoundRows
    /\ stakeRows' = stakeRows \cup RoundBatch(batch.known, Head1)
    /\ batch' = Next1(batch.known)
    /\ UNCHANGED <<profileView, cpProfile, logVars>>

\* A TransferBond is resolved to the delegate its new delegator has at the block.
LearnTransfer ==
    /\ batch.at = "walk" /\ batch.todo # {}
    /\ Head1 \in Transfers
    /\ batch' = Next1(batch.known \cup {Log[Head1].who})
    /\ UNCHANGED <<stakeRows, profileView, cpProfile, logVars>>

LearnOrchestrator ==
    /\ batch.at = "walk" /\ batch.todo # {}
    /\ Head1 \notin RoundRows \cup Transfers
    /\ batch' = Next1(batch.known \cup ({Log[Head1].to} \ {None}))
    /\ UNCHANGED <<stakeRows, profileView, cpProfile, logVars>>

\* Mutant of AdvanceProfile: the checkpoint is written once (DO NOTHING).
AdvanceProfileOnce ==
    /\ batch.at = "walk" /\ batch.todo = {}
    /\ cpProfile' = IF cpProfile = 0 THEN batch.upTo ELSE cpProfile
    /\ batch' = NoBatch
    /\ UNCHANGED <<stakeRows, profileView, logVars>>

AdvanceProfile ==
    /\ batch.at = "walk" /\ batch.todo = {}
    /\ cpProfile' = Greatest(cpProfile, batch.upTo)
    /\ batch' = NoBatch
    /\ UNCHANGED <<stakeRows, profileView, logVars>>

\* Any archive call of the fan-out, or a restart: the batch is lost, its rows stay.
ProfileFails ==
    /\ Fault
    /\ batch.at = "walk"
    /\ batch' = NoBatch
    /\ UNCHANGED <<stakeRows, profileView, cpProfile>>

ProfileWorks ==
    ProfileStart \/ SnapshotRound \/ LearnTransfer \/ LearnOrchestrator \/ AdvanceProfile

\* REFRESH MATERIALIZED VIEW of the daemon: the latest round of each orchestrator.
RefreshProfileView ==
    /\ profileView' =
          {<<r[1], Log[r[2]].block>> : r \in {s \in stakeRows :
              \A t \in stakeRows : t[1] = s[1] => t[2] <= s[2]}}
    /\ UNCHANGED <<stakeRows, cpProfile, batch, logVars>>

ProfileNext == ProfileWorks \/ ProfileFails \/ RefreshProfileView

ProfileSpec ==
    /\ LogInit /\ ProfileInit
    /\ [][ProfileNext \/ (Finalize /\ UNCHANGED profileVars)]_<<logVars, profileVars>>

-----------------------------------------------------------------------------
ProfileTypeOK ==
    /\ stakeRows \subseteq ({Log[p].to : p \in ProfileRows} \cup {Log[p].who : p \in Transfers})
                           \X RoundRows
    /\ cpProfile \in Nat
    /\ batch.at \in {"idle", "walk"}
    /\ batch.todo \subseteq ProfileRows
    /\ batch.upTo \in Nat

Orchestrators(p) ==
    {Log[q].to : q \in {r \in ProfileRows \ (RoundRows \cup Transfers) :
        r < p /\ Log[r].to # None}}

\* A round the checkpoint has passed has a row for every orchestrator that had
\* acted by then, wherever a batch began or ended, whatever failed in between and
\* however old the view is: rounds below the checkpoint are not walked again, so
\* an orchestrator missing here has no history for the round.
RoundsAreComplete ==
    \A p \in Finalized \cap RoundRows :
        Log[p].block < cpProfile => \A o \in Orchestrators(p) : <<o, p>> \in stakeRows

ProfileComplete ==
    \A p \in Finalized \cap RoundRows :
        \A o \in Orchestrators(p) : <<o, p>> \in stakeRows
=============================================================================
