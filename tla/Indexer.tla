------------------------------ MODULE Indexer ------------------------------
(***************************************************************************)
(* livepeer-indexer: the chunked log backfill of one contract.  Two        *)
(* drivers may run at once: the daemon's indexer loop, which resumes at     *)
(* the checkpoint on every tick, and a backfill command an operator starts  *)
(* over a range of its own.  Both write the same tables and the same        *)
(* indexer_checkpoints row.                                                *)
(*                                                                         *)
(* A block is "none" (no log), "good" (its logs decode), "bad" (a log that  *)
(* is not critical does not decode) or "strict" (a critical one does not).  *)
(* Backoff delays and the min-batch counter, which only sets them, are left *)
(* out: a driver that sleeps simply does not step.                         *)
(***************************************************************************)
EXTENDS Integers

CONSTANTS
    MaxBlock,      \* bound on the chain; block 1 is the Livepeer genesis
    HeadDepth,     \* INDEXER_HEAD_DEPTH_BLOCKS
    PerTick,       \* INDEXER_PER_TICK_BLOCKS
    DefaultBatch,  \* DEFAULT_BATCH_BLOCKS
    MaxBatch,      \* MAX_BATCH_BLOCKS
    MinBatch,      \* MIN_BATCH_BLOCKS
    MaxRetries,    \* MAX_RETRIES_PER_CHUNK
    CliFrom,       \* the --from-block values operators use
    MaxFaults      \* bound on RPC errors and crashes

ASSUME IndexerAssumption ==
    /\ MaxBlock \in Nat /\ HeadDepth \in Nat /\ MaxFaults \in Nat
    /\ PerTick \in Nat \ {0} /\ MaxRetries \in Nat \ {0}
    /\ MinBatch \in Nat \ {0} /\ DefaultBatch \in Nat /\ MaxBatch \in Nat
    /\ MinBatch <= DefaultBatch /\ DefaultBatch <= MaxBatch
    /\ CliFrom \subseteq Nat \ {0}

Blocks  == 1..MaxBlock
Drivers == {"daemon", "cli"}
Kinds   == {"none", "good", "bad", "strict"}

VARIABLES
    kind,        \* [Blocks -> Kinds]: what the contract's logs of a block are
    head,        \* eth_blockNumber
    checkpoint,  \* last_processed_block, 0 = no row
    rows,        \* blocks whose logs are in raw_protocol_events
    dead,        \* blocks whose logs are in decode_failures
    running,     \* the drivers inside drive_backfill
    next,        \* [Drivers -> Nat], first block of the driver's next chunk
    to,          \* [Drivers -> Nat], to_block
    batch,       \* [Drivers -> Nat], current_batch
    retries,     \* [Drivers -> Nat], retries_in_a_row
    faults

locals == <<running, next, to, batch, retries>>
vars   == <<kind, head, checkpoint, rows, dead, locals, faults>>

TypeOK ==
    /\ kind \in [Blocks -> Kinds]
    /\ head \in 0..MaxBlock
    /\ checkpoint \in 0..MaxBlock
    /\ rows \subseteq Blocks /\ dead \subseteq Blocks
    /\ running \subseteq Drivers
    /\ next \in [Drivers -> Nat] /\ to \in [Drivers -> 0..MaxBlock]
    /\ batch \in [Drivers -> Nat] /\ retries \in [Drivers -> Nat]
    /\ faults \in Nat

Lesser(a, b)  == IF a < b THEN a ELSE b
Greater(a, b) == IF a > b THEN a ELSE b

\* Mutant of ResumeFrom: the block of the checkpoint is scanned as the next one.
ResumeSkippingOne(requested) ==
    IF checkpoint >= requested THEN checkpoint + 2 ELSE requested

\* resume_from
ResumeFrom(requested) ==
    IF checkpoint >= requested THEN checkpoint + 1 ELSE requested

ChunkEnd(d) == Lesser(next[d] + batch[d] - 1, to[d])
Chunk(d)    == next[d]..ChunkEnd(d)

Logs(S, k) == {b \in S : kind[b] = k}

\* Mutant of Doubled: the provider's cap is forgotten.
DoubledUncapped(n) == 2 * n

Doubled(n) == Lesser(2 * n, MaxBatch)
Halved(n)  == Greater(n \div 2, MinBatch)
-----------------------------------------------------------------------------
Init ==
    /\ kind \in [Blocks -> Kinds]
    /\ head = 0 /\ checkpoint = 0
    /\ rows = {} /\ dead = {}
    /\ running = {}
    /\ next = [d \in Drivers |-> 1] /\ to = [d \in Drivers |-> 0]
    /\ batch = [d \in Drivers |-> DefaultBatch]
    /\ retries = [d \in Drivers |-> 0]
    /\ faults = 0

NewBlock ==
    /\ head < MaxBlock
    /\ head' = head + 1
    /\ UNCHANGED <<kind, checkpoint, rows, dead, locals, faults>>

\* drive_backfill begins over a non-empty range.
Enter(d, f, t) ==
    /\ d \notin running /\ f <= t
    /\ running' = running \cup {d}
    /\ next' = [next EXCEPT ![d] = f] /\ to' = [to EXCEPT ![d] = t]
    /\ batch' = [batch EXCEPT ![d] = DefaultBatch]
    /\ retries' = [retries EXCEPT ![d] = 0]
    /\ UNCHANGED <<kind, head, checkpoint, rows, dead, faults>>

\* One contract's turn in a tick of indexer_loop.
Tick ==
    LET f == ResumeFrom(1)
    IN  Enter("daemon", f, Lesser(f + PerTick - 1, head - HeadDepth))

\* livepeer-indexer backfill --from-block f --to-block t [--no-resume]
Cli ==
    \E f \in CliFrom, t \in 1..head :
        Enter("cli", f, t) \/ Enter("cli", ResumeFrom(f), t)

Leave(d) == running' = running \ {d} /\ UNCHANGED <<next, to, batch, retries>>

\* Mutant of CommitChunk: the checkpoint is advanced although the rows are not
\* written (two transactions, and a crash between them).
CommitCheckpointOnly(d) ==
    /\ d \in running
    /\ Logs(Chunk(d), "strict") = {}
    /\ checkpoint' = Greater(checkpoint, ChunkEnd(d))
    /\ Leave(d)
    /\ UNCHANGED <<kind, head, rows, dead, faults>>

\* Mutant of CommitChunk: the rows are committed before the checkpoint, which a
\* crash then loses.
CommitRowsOnly(d) ==
    /\ d \in running
    /\ Logs(Chunk(d), "strict") = {}
    /\ rows' = rows \cup Logs(Chunk(d), "good")
    /\ dead' = dead \cup Logs(Chunk(d), "bad")
    /\ Leave(d)
    /\ UNCHANGED <<kind, head, checkpoint, faults>>

\* backfill_chunk: one transaction writes the rows, the dead letters and the
\* checkpoint; the loop then moves on with a doubled batch.
CommitChunk(d) ==
    /\ d \in running
    /\ Logs(Chunk(d), "strict") = {}
    /\ rows' = rows \cup Logs(Chunk(d), "good")
    /\ dead' = dead \cup Logs(Chunk(d), "bad")
    /\ checkpoint' = Greater(checkpoint, ChunkEnd(d))
    /\ next' = [next EXCEPT ![d] = ChunkEnd(d) + 1]
    /\ batch' = [batch EXCEPT ![d] = Doubled(batch[d])]
    /\ retries' = [retries EXCEPT ![d] = 0]
    /\ running' = IF ChunkEnd(d) = to[d] THEN running \ {d} ELSE running
    /\ UNCHANGED <<kind, head, to, faults>>

\* A critical event does not decode: the chunk is dropped and the driver halts.
StrictHalt(d) ==
    /\ d \in running
    /\ Logs(Chunk(d), "strict") # {}
    /\ Leave(d)
    /\ UNCHANGED <<kind, head, checkpoint, rows, dead, faults>>

\* A transient RPC error above the minimum batch: halve and retry the chunk.
TransientHalve(d) ==
    /\ d \in running /\ faults < MaxFaults
    /\ retries[d] < MaxRetries /\ batch[d] > MinBatch
    /\ batch' = [batch EXCEPT ![d] = Halved(batch[d])]
    /\ retries' = [retries EXCEPT ![d] = retries[d] + 1]
    /\ faults' = faults + 1
    /\ UNCHANGED <<kind, head, checkpoint, rows, dead, running, next, to>>

\* A transient error at the minimum batch: retry until the budget is spent.
TransientAtMin(d) ==
    /\ d \in running /\ faults < MaxFaults
    /\ retries[d] + 1 < MaxRetries /\ batch[d] <= MinBatch
    /\ retries' = [retries EXCEPT ![d] = retries[d] + 1]
    /\ faults' = faults + 1
    /\ UNCHANGED <<kind, head, checkpoint, rows, dead, running, next, to, batch>>

\* The retry budget is spent, another error occurs, or the process dies; the
\* daemon's loop is restarted by its supervisor.
Fail(d) ==
    /\ d \in running /\ faults < MaxFaults
    /\ Leave(d)
    /\ faults' = faults + 1
    /\ UNCHANGED <<kind, head, checkpoint, rows, dead>>

Step(d) == CommitChunk(d) \/ StrictHalt(d)

Next ==
    \/ NewBlock \/ Tick \/ Cli
    \/ \E d \in Drivers : Step(d) \/ TransientHalve(d) \/ TransientAtMin(d) \/ Fail(d)

Spec == Init /\ [][Next]_vars

\* The daemon ticks for ever and a running drive_backfill keeps stepping.
FairSpec == Spec /\ WF_vars(Tick) /\ \A d \in Drivers : WF_vars(Step(d))
-----------------------------------------------------------------------------
\* The logs of every block in S are where they belong, and none of them is a
\* critical event that did not decode.
Ingested(S) ==
    /\ Logs(S, "good") \subseteq rows
    /\ Logs(S, "bad") \subseteq dead
    /\ Logs(S, "strict") = {}

\* The checkpoint is a promise: nothing at or below it is missing, whatever the
\* two drivers, their errors and crashes do (the indexer "refuses to advance
\* past a block" with an undecodable critical event).
CheckpointCovers == Ingested(1..checkpoint)

\* Rows and checkpoint are committed together: nothing above the checkpoint is
\* ever visible, so no reader sees a part of a chunk.
NothingBeyondCheckpoint == rows \cup dead \subseteq 1..checkpoint

\* No chunk is empty or wider than the provider's eth_getLogs cap, however often
\* the batch was halved and doubled, and the retry budget is respected.
ChunkWithinCap ==
    \A d \in running :
        /\ next[d] <= ChunkEnd(d)
        /\ ChunkEnd(d) - next[d] + 1 <= MaxBatch
        /\ batch[d] <= MaxBatch /\ retries[d] <= MaxRetries

\* On a chain whose critical events all decode, every block deep enough is
\* eventually behind the checkpoint.
CatchesUp ==
    \A b \in Blocks :
        (Logs(Blocks, "strict") = {} /\ head >= b + HeadDepth) ~> (checkpoint >= b)
-----------------------------------------------------------------------------
\* Inductive strengthening of CheckpointCovers, for operators that start at the
\* genesis block: a running driver has everything below its next chunk behind it.
CliFromGenesis == CliFrom \subseteq {1}

DriversCover == \A d \in running : Ingested(1..(next[d] - 1))
DriversAhead ==
    \A d \in running : /\ 1 <= next[d] /\ next[d] <= to[d]
                       /\ MinBatch <= batch[d] /\ batch[d] <= MaxBatch
                       /\ retries[d] <= MaxRetries

IInv ==
    /\ TypeOK /\ NothingBeyondCheckpoint /\ DriversAhead
    /\ CheckpointCovers /\ DriversCover
=============================================================================
