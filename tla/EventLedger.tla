---------------------------- MODULE EventLedger ----------------------------
(***************************************************************************)
(* The life of a raw_protocol_events row: the indexer inserts it as        *)
(* tentative and canonical with the block hash it saw, the finality-watcher *)
(* moves it to l1_posted and finalized, the reorg-watcher withdraws it when *)
(* the stored hash of its block is not the chain's.  The three run          *)
(* concurrently and share nothing but the table.                           *)
(*                                                                         *)
(* Block numbers stand for block timestamps.  A block has one of two        *)
(* hashes, and a log is in the block under some of them.  l1Latest and      *)
(* l1Final are the L1 cutoffs (after POSTING_LAG_SECS and                   *)
(* FINALITY_SAFETY_MARGIN_SECS), as block numbers.                          *)
(***************************************************************************)
EXTENDS Integers, FiniteSets

CONSTANTS
    Events,     \* logs, by their key (tx_hash, log_index)
    BlockOf,    \* [Events -> 1..MaxBlock]
    Contract,   \* [Events -> contract that emits it]
    On,         \* [Events -> SUBSET Hashes]: the block hashes that contain it
    MaxBlock,   \* bound on the chain
    WalkDepth,  \* WALK_DEPTH of the reorg-watcher
    MaxReorgs,  \* bound on chain reorganisations
    MaxFaults,  \* bound on failed or killed watcher iterations
    MaxCommit, MaxClock

Hashes    == {"A", "B"}
Blocks    == 1..MaxBlock
Contracts == {Contract[e] : e \in Events}

ASSUME LedgerAssumption ==
    /\ MaxBlock \in Nat /\ WalkDepth \in Nat
    /\ MaxReorgs \in Nat /\ MaxFaults \in Nat
    /\ MaxCommit \in Nat /\ MaxClock \in Nat
    /\ BlockOf \in [Events -> Blocks]
    /\ On \in [Events -> SUBSET Hashes]

VARIABLES
    chain,        \* [Blocks -> Hashes]: the canonical hash of each block
    head, l1Latest, l1Final, reorgs,
    clock,        \* now()
    scanned,      \* [Contracts -> 0..MaxBlock]: the indexer's checkpoints
    hash,         \* [Events -> Hashes \cup {"none"}]: block_hash, "none" = no row
    finality,     \* [Events -> ...]: finality column
    finalizedAt,  \* [Events -> Nat]: finalized_at, 0 = NULL
    withdrawn,    \* the rows with is_canonical = FALSE
    reorgLog,     \* reorg_events: [block, old, new]
    fpc,          \* where the finality-watcher is
    fLatest, fFinal,         \* the cutoffs it read
    savedLatest, savedFinal, \* the replay inputs it persists
    fCheckpoint,  \* its own indexer_checkpoints row
    stmt, snap,   \* the open finalizing UPDATE: its now() and the rows it sees
    queue,        \* the <<block, hash>> pairs the reorg-watcher still checks
    marking,      \* divergences it is about to record (at most one)
    faults

chainVars    == <<chain, head, l1Latest, l1Final, reorgs>>
rowVars      == <<hash, finality, finalizedAt, withdrawn, reorgLog>>
finalityVars == <<fpc, fLatest, fFinal, savedLatest, savedFinal, fCheckpoint,
                  stmt, snap>>
reorgVars    == <<queue, marking>>
vars == <<chainVars, clock, scanned, rowVars, finalityVars, reorgVars, faults>>

Rows == {e \in Events : hash[e] # "none"}

TypeOK ==
    /\ chain \in [Blocks -> Hashes]
    /\ head \in 0..MaxBlock /\ l1Latest \in 0..head /\ l1Final \in 0..l1Latest
    /\ reorgs \in Nat /\ faults \in Nat /\ clock \in Nat \ {0}
    /\ scanned \in [Contracts -> 0..head]
    /\ hash \in [Events -> Hashes \cup {"none"}]
    /\ finality \in [Events -> {"tentative", "l1_posted", "finalized"}]
    /\ finalizedAt \in [Events -> Nat]
    /\ withdrawn \subseteq Rows
    /\ reorgLog \subseteq [block : Blocks, old : Hashes, new : Hashes]
    /\ fpc \in {"idle", "latest", "persist1", "persist2", "post", "finalize",
                "commit", "checkpoint"}
    /\ fLatest \in 0..MaxBlock /\ fFinal \in 0..MaxBlock
    /\ savedLatest \in 0..MaxBlock /\ savedFinal \in 0..MaxBlock
    /\ fCheckpoint \in 0..MaxBlock
    /\ stmt \in Nat /\ snap \subseteq Rows
    /\ queue \subseteq Blocks \X Hashes
    /\ marking \subseteq [block : Blocks, old : Hashes, new : Hashes]

Init ==
    /\ chain = [b \in Blocks |-> "A"]
    /\ head = 0 /\ l1Latest = 0 /\ l1Final = 0 /\ reorgs = 0
    /\ clock = 1
    /\ scanned = [c \in Contracts |-> 0]
    /\ hash = [e \in Events |-> "none"]
    /\ finality = [e \in Events |-> "tentative"]
    /\ finalizedAt = [e \in Events |-> 0]
    /\ withdrawn = {} /\ reorgLog = {}
    /\ fpc = "idle" /\ fLatest = 0 /\ fFinal = 0
    /\ savedLatest = 0 /\ savedFinal = 0 /\ fCheckpoint = 0
    /\ stmt = 0 /\ snap = {}
    /\ queue = {} /\ marking = {}
    /\ faults = 0
-----------------------------------------------------------------------------
(* The chain, and time. *)

ChainGrows ==
    /\ \/ head < MaxBlock /\ head' = head + 1 /\ UNCHANGED <<l1Latest, l1Final>>
       \/ l1Latest < head /\ l1Latest' = l1Latest + 1 /\ UNCHANGED <<head, l1Final>>
       \/ l1Final < l1Latest /\ l1Final' = l1Final + 1 /\ UNCHANGED <<head, l1Latest>>
    /\ UNCHANGED <<chain, reorgs, clock, scanned, rowVars, finalityVars,
                   reorgVars, faults>>

\* A block that is not final on L1 is replaced.
ChainReorg ==
    /\ reorgs < MaxReorgs
    /\ \E b \in (l1Final + 1)..head, h \in Hashes :
          h # chain[b] /\ chain' = [chain EXCEPT ![b] = h]
    /\ reorgs' = reorgs + 1
    /\ UNCHANGED <<head, l1Latest, l1Final, clock, scanned, rowVars, finalityVars,
                   reorgVars, faults>>

Tick ==
    /\ clock < MaxClock
    /\ stmt > 0 => clock < stmt + MaxCommit
    /\ clock' = clock + 1
    /\ UNCHANGED <<chainVars, scanned, rowVars, finalityVars, reorgVars, faults>>

\* The indexer commits the next block of contract c: one row per log, ON CONFLICT
\* (tx_hash, log_index) DO NOTHING.
Index(c) ==
    /\ scanned[c] < head
    /\ LET b   == scanned[c] + 1
           new == {e \in Events \ Rows : /\ Contract[e] = c /\ BlockOf[e] = b
                                         /\ chain[b] \in On[e]}
       IN  /\ hash' = [e \in Events |-> IF e \in new THEN chain[b] ELSE hash[e]]
           /\ scanned' = [scanned EXCEPT ![c] = b]
    /\ UNCHANGED <<chainVars, clock, finality, finalizedAt, withdrawn, reorgLog,
                   finalityVars, reorgVars, faults>>
-----------------------------------------------------------------------------
(* livepeer-finality-watcher: run_once. *)

\* eth_getBlockByNumber("latest") on L1 ...
ReadLatest ==
    /\ fpc = "idle"
    /\ fLatest' = l1Latest /\ fpc' = "latest"
    /\ UNCHANGED <<chainVars, clock, scanned, rowVars, fFinal, savedLatest,
                   savedFinal, fCheckpoint, stmt, snap, reorgVars, faults>>

\* ... then "finalized".
ReadFinalized ==
    /\ fpc = "latest"
    /\ fFinal' = l1Final /\ fpc' = "persist1"
    /\ UNCHANGED <<chainVars, clock, scanned, rowVars, fLatest, savedLatest,
                   savedFinal, fCheckpoint, stmt, snap, reorgVars, faults>>

\* persist_replay_inputs: two upserts, before any row changes.
PersistLatest ==
    /\ fpc = "persist1"
    /\ savedLatest' = fLatest /\ fpc' = "persist2"
    /\ UNCHANGED <<chainVars, clock, scanned, rowVars, fLatest, fFinal, savedFinal,
                   fCheckpoint, stmt, snap, reorgVars, faults>>

\* Mutant of PersistFinalized: the finalized input is not recorded.
PersistNothing ==
    /\ fpc = "persist2" /\ fpc' = "post"
    /\ UNCHANGED <<chainVars, clock, scanned, rowVars, fLatest, fFinal, savedLatest,
                   savedFinal, fCheckpoint, stmt, snap, reorgVars, faults>>

PersistFinalized ==
    /\ fpc = "persist2"
    /\ savedFinal' = fFinal /\ fpc' = "post"
    /\ UNCHANGED <<chainVars, clock, scanned, rowVars, fLatest, fFinal, savedLatest,
                   fCheckpoint, stmt, snap, reorgVars, faults>>

MarkPosted ==
    /\ fpc = "post"
    /\ finality' = [e \in Events |->
                       IF /\ e \in Rows \ withdrawn /\ finality[e] = "tentative"
                          /\ BlockOf[e] <= fLatest
                       THEN "l1_posted" ELSE finality[e]]
    /\ fpc' = "finalize"
    /\ UNCHANGED <<chainVars, clock, scanned, hash, finalizedAt, withdrawn,
                   reorgLog, fLatest, fFinal, savedLatest, savedFinal, fCheckpoint,
                   stmt, snap, reorgVars, faults>>

\* The second UPDATE: now() and the rows it sees are fixed when it starts, ...
BeginFinalize ==
    /\ fpc = "finalize"
    /\ stmt' = clock /\ snap' = Rows /\ fpc' = "commit"
    /\ UNCHANGED <<chainVars, clock, scanned, rowVars, fLatest, fFinal, savedLatest,
                   savedFinal, fCheckpoint, reorgVars, faults>>

\* Mutants of Finalizable: rows that are finalized already are matched again; the
\* block at the cutoff is left out.
Restampable ==
    {e \in snap \ withdrawn : BlockOf[e] <= fFinal}
BelowCutoff ==
    {e \in snap \ withdrawn : /\ finality[e] \in {"tentative", "l1_posted"}
                              /\ BlockOf[e] < fFinal}

\* ... its WHERE clause is evaluated again on rows changed meanwhile, ...
Finalizable ==
    {e \in snap \ withdrawn : /\ finality[e] \in {"tentative", "l1_posted"}
                              /\ BlockOf[e] <= fFinal}

\* ... and all of them become visible when it commits.
CommitFinalize ==
    /\ fpc = "commit"
    /\ finality' = [e \in Events |-> IF e \in Finalizable THEN "finalized"
                                                          ELSE finality[e]]
    /\ finalizedAt' = [e \in Events |-> IF e \in Finalizable THEN stmt
                                                             ELSE finalizedAt[e]]
    /\ stmt' = 0 /\ snap' = {} /\ fpc' = "checkpoint"
    /\ UNCHANGED <<chainVars, clock, scanned, hash, withdrawn, reorgLog, fLatest,
                   fFinal, savedLatest, savedFinal, fCheckpoint, reorgVars, faults>>

SaveCheckpoint ==
    /\ fpc = "checkpoint"
    /\ fCheckpoint' = IF fFinal > fCheckpoint THEN fFinal ELSE fCheckpoint
    /\ fpc' = "idle" /\ fLatest' = 0 /\ fFinal' = 0
    /\ UNCHANGED <<chainVars, clock, scanned, rowVars, savedLatest, savedFinal,
                   stmt, snap, reorgVars, faults>>

\* An RPC or database error, or the process dies: an open UPDATE rolls back.
FinalityFails ==
    /\ fpc # "idle" /\ faults < MaxFaults
    /\ fpc' = "idle" /\ fLatest' = 0 /\ fFinal' = 0 /\ stmt' = 0 /\ snap' = {}
    /\ faults' = faults + 1
    /\ UNCHANGED <<chainVars, clock, scanned, rowVars, savedLatest, savedFinal,
                   fCheckpoint, reorgVars>>

FinalityStep ==
    \/ ReadLatest \/ ReadFinalized \/ PersistLatest \/ PersistFinalized
    \/ MarkPosted \/ BeginFinalize \/ CommitFinalize \/ SaveCheckpoint
-----------------------------------------------------------------------------
(* livepeer-reorg-watcher: run_once. *)

\* The distinct (block_number, block_hash) of the tentative canonical rows in
\* the walk window.
ListTentative ==
    /\ queue = {} /\ marking = {}
    /\ queue' = {<<BlockOf[e], hash[e]>> :
                    e \in {r \in Rows \ withdrawn :
                              /\ finality[r] = "tentative"
                              /\ BlockOf[r] >= head - WalkDepth
                              /\ BlockOf[r] <= head}}
    /\ queue' # {}
    /\ UNCHANGED <<chainVars, clock, scanned, rowVars, finalityVars, marking, faults>>

\* The chain's hash of the next listed block is fetched and compared.
CheckBlock ==
    /\ marking = {}
    /\ \E p \in queue :
          /\ \A q \in queue : p[1] <= q[1]
          /\ queue' = queue \ {p}
          /\ marking' = IF chain[p[1]] = p[2] THEN {}
                        ELSE {[block |-> p[1], old |-> p[2], new |-> chain[p[1]]]}
    /\ UNCHANGED <<chainVars, clock, scanned, rowVars, finalityVars, faults>>

\* Mutant of HandleDivergence: the audit row is not part of the transaction.
WithdrawUnaudited ==
    /\ \E m \in marking :
          withdrawn' = withdrawn \cup {e \in Rows : BlockOf[e] = m.block}
    /\ marking' = {}
    /\ UNCHANGED <<chainVars, clock, scanned, hash, finality, finalizedAt, reorgLog,
                   finalityVars, queue, faults>>

\* handle_divergence: every canonical row of the block number is withdrawn,
\* whatever its finality and its hash, and the audit row is written with it.
HandleDivergence ==
    /\ \E m \in marking :
          /\ withdrawn' = withdrawn \cup {e \in Rows : BlockOf[e] = m.block}
          /\ reorgLog' = reorgLog \cup {m}
    /\ marking' = {}
    /\ UNCHANGED <<chainVars, clock, scanned, hash, finality, finalizedAt,
                   finalityVars, queue, faults>>

ReorgFails ==
    /\ queue # {} \/ marking # {}
    /\ faults < MaxFaults
    /\ queue' = {} /\ marking' = {}
    /\ faults' = faults + 1
    /\ UNCHANGED <<chainVars, clock, scanned, rowVars, finalityVars>>

ReorgStep == ListTentative \/ CheckBlock \/ HandleDivergence
-----------------------------------------------------------------------------
Next ==
    \/ ChainGrows \/ ChainReorg \/ Tick
    \/ \E c \in Contracts : Index(c)
    \/ FinalityStep \/ FinalityFails
    \/ ReorgStep \/ ReorgFails

Spec == Init /\ [][Next]_vars

\* The daemon restarts every loop, so each watcher keeps making steps.
FairSpec == Spec /\ WF_vars(FinalityStep) /\ WF_vars(ReorgStep)
-----------------------------------------------------------------------------
(* What the consumers rely on: the table is a FinalityFeed. *)

Feed == INSTANCE FinalityFeed WITH canonical <- Events \ withdrawn

\* The table refines the feed the valuator's cursors are built on: a row is
\* stamped once, with the now() of an UPDATE that was open no longer than
\* MaxCommit, and is never un-withdrawn.
ImplementsFeed == Feed!FeedSpec

\* Each withdrawal is audited: a row is only non-canonical when reorg_events has a
\* row for its block that names a stored hash of that block which was not the
\* chain's.
WithdrawalsAudited ==
    \A e \in withdrawn :
        \E m \in reorgLog :
            /\ m.block = BlockOf[e] /\ m.old # m.new
            /\ \E r \in Rows : BlockOf[r] = m.block /\ hash[r] = m.old

\* The recorded L1 inputs reproduce finality: a replay with the persisted cutoff
\* finalizes every row the live watcher has finalized, whenever it crashed.
ReplayFinalizesAll ==
    \A e \in Events : finality[e] = "finalized" => BlockOf[e] <= savedFinal

\* Once L1 has finalized its block, a row that stays canonical is finalized.
EventuallyFinalized ==
    \A e \in Events :
        (e \in Rows /\ BlockOf[e] <= l1Final)
            ~> (e \in withdrawn \/ finality[e] = "finalized")

\* "The indexer's next batch will fetch the canonical events anyway": a log of a
\* scanned block that stays on the chain eventually has a canonical row, even if a
\* reorganisation withdrew the row or replaced the block after it was scanned.
CanonicalLogsIndexed ==
    \A e \in Events :
        (/\ BlockOf[e] <= scanned[Contract[e]]
         /\ chain[BlockOf[e]] \in On[e])
            ~> (e \in Rows \ withdrawn \/ chain[BlockOf[e]] \notin On[e])
=============================================================================
