--------------------------- MODULE IndexerProofs ---------------------------
(* The checkpoint of the indexer, proved for every chain, batch size and    *)
(* number of faults.                                                       *)
EXTENDS Indexer, TLAPS

USE IndexerAssumption

\* What can be said whatever range an operator backfills.
Shape == TypeOK /\ NothingBeyondCheckpoint /\ DriversAhead

LEMMA ChunkBounds ==
    ASSUME Shape, NEW d \in running
    PROVE  /\ ChunkEnd(d) \in Int
           /\ 1 <= next[d] /\ next[d] <= ChunkEnd(d) /\ ChunkEnd(d) <= to[d]
           /\ ChunkEnd(d) \in Blocks
           /\ Chunk(d) \subseteq 1..ChunkEnd(d)
           /\ ChunkEnd(d) - next[d] + 1 <= MaxBatch
BY DEF Shape, TypeOK, DriversAhead, ChunkEnd, Chunk, Lesser, Blocks

LEMMA ShapeInit == Init => Shape
BY DEF Init, Shape, TypeOK, NothingBeyondCheckpoint, DriversAhead

\* Entering drive_backfill over a range inside the chain.
LEMMA ShapeEnter ==
    ASSUME Shape, NEW d \in Drivers, NEW f \in Nat \ {0}, NEW t \in Int,
           t <= MaxBlock, Enter(d, f, t)
    PROVE  Shape'
BY DEF Shape, TypeOK, NothingBeyondCheckpoint, DriversAhead, Enter, Drivers

LEMMA ShapeStep ==
    ASSUME Shape, [Next]_vars
    PROVE  Shape'
<1>. USE DEF Shape
<1>1. CASE NewBlock
  BY <1>1 DEF NewBlock, TypeOK, NothingBeyondCheckpoint, DriversAhead, locals
<1>2. CASE Tick
  <2>1. ResumeFrom(1) \in Nat \ {0}
    BY DEF TypeOK, ResumeFrom
  <2>2. \A t \in Int : Lesser(t, head - HeadDepth) \in Int
                       /\ Lesser(t, head - HeadDepth) <= MaxBlock
    BY DEF TypeOK, Lesser
  <2>. QED
    BY <1>2, <2>1, <2>2, ShapeEnter DEF Tick, Drivers
<1>3. CASE Cli
  <2>1. PICK f \in CliFrom, t \in 1..head :
           Enter("cli", f, t) \/ Enter("cli", ResumeFrom(f), t)
    BY <1>3 DEF Cli
  <2>2. ResumeFrom(f) \in Nat \ {0} /\ f \in Nat \ {0} /\ t \in Int /\ t <= MaxBlock
    BY DEF TypeOK, ResumeFrom
  <2>. QED
    BY <2>1, <2>2, ShapeEnter DEF Drivers
<1>4. ASSUME NEW d \in Drivers, CommitChunk(d)
      PROVE  Shape'
  <2>1. d \in running
    BY <1>4 DEF CommitChunk
  <2>2. /\ checkpoint' = IF checkpoint > ChunkEnd(d) THEN checkpoint ELSE ChunkEnd(d)
        /\ rows' = rows \cup Logs(Chunk(d), "good")
        /\ dead' = dead \cup Logs(Chunk(d), "bad")
        /\ next' = [next EXCEPT ![d] = ChunkEnd(d) + 1]
        /\ batch' = [batch EXCEPT ![d] = Doubled(batch[d])]
        /\ retries' = [retries EXCEPT ![d] = 0]
        /\ running' = IF ChunkEnd(d) = to[d] THEN running \ {d} ELSE running
        /\ UNCHANGED <<kind, head, to, faults>>
    BY <1>4 DEF CommitChunk, Greater
  <2>3. /\ ChunkEnd(d) \in Blocks /\ ChunkEnd(d) <= to[d]
        /\ Chunk(d) \subseteq 1..ChunkEnd(d)
    BY <2>1, ChunkBounds
  <2>4. checkpoint' \in 0..MaxBlock /\ checkpoint <= checkpoint'
        /\ ChunkEnd(d) <= checkpoint'
    BY <2>2, <2>3 DEF TypeOK, Blocks
  <2>5. NothingBeyondCheckpoint'
    <3>1. rows' \cup dead' \subseteq rows \cup dead \cup Chunk(d)
      BY <2>2 DEF Logs
    <3>2. Chunk(d) \subseteq 1..checkpoint' /\ 1..checkpoint \subseteq 1..checkpoint'
      BY <2>3, <2>4 DEF TypeOK, Blocks
    <3>. QED  BY <3>1, <3>2 DEF NothingBeyondCheckpoint
  <2>6. Doubled(batch[d]) \in Nat /\ MinBatch <= Doubled(batch[d])
        /\ Doubled(batch[d]) <= MaxBatch
    BY <2>1 DEF Doubled, Lesser, TypeOK, DriversAhead
  <2>7. TypeOK'
    <3>1. rows' \subseteq Blocks /\ dead' \subseteq Blocks
      BY <2>4, <2>5 DEF NothingBeyondCheckpoint, Blocks
    <3>. QED
      BY <2>2, <2>3, <2>4, <2>6, <3>1 DEF TypeOK, Blocks
  <2>8. DriversAhead'
    BY <2>1, <2>2, <2>3, <2>6 DEF DriversAhead, TypeOK, Blocks
  <2>. QED  BY <2>5, <2>7, <2>8
<1>5. ASSUME NEW d \in Drivers, StrictHalt(d) \/ Fail(d)
      PROVE  Shape'
  BY <1>5 DEF StrictHalt, Fail, Leave, TypeOK, NothingBeyondCheckpoint, DriversAhead
<1>6. ASSUME NEW d \in Drivers, TransientHalve(d)
      PROVE  Shape'
  <2>1. Halved(batch[d]) \in Nat /\ MinBatch <= Halved(batch[d])
        /\ (batch[d] <= MaxBatch => Halved(batch[d]) <= MaxBatch)
    BY DEF Halved, Greater, TypeOK
  <2>. QED
    BY <1>6, <2>1
       DEF TransientHalve, TypeOK, NothingBeyondCheckpoint, DriversAhead
<1>7. ASSUME NEW d \in Drivers, TransientAtMin(d)
      PROVE  Shape'
  BY <1>7 DEF TransientAtMin, TypeOK, NothingBeyondCheckpoint, DriversAhead
<1>8. CASE UNCHANGED vars
  BY <1>8 DEF vars, locals, TypeOK, NothingBeyondCheckpoint, DriversAhead
<1>. QED
  BY <1>1, <1>2, <1>3, <1>4, <1>5, <1>6, <1>7, <1>8 DEF Next, Step

\* No reader of raw_protocol_events or decode_failures ever sees a row above the
\* checkpoint (the single transaction of backfill_chunk), for any operator.
THEOREM ChunksAreAtomic == Spec => []NothingBeyondCheckpoint
<1>1. Spec => []Shape
  BY ShapeInit, ShapeStep, PTL DEF Spec
<1>2. Shape => NothingBeyondCheckpoint
  BY DEF Shape
<1>. QED  BY <1>1, <1>2, PTL

\* drive_backfill never asks the provider for an empty range or for more blocks
\* than its cap, and never exceeds its retry budget.
THEOREM ChunksWithinCap == Spec => []ChunkWithinCap
<1>1. Spec => []Shape
  BY ShapeInit, ShapeStep, PTL DEF Spec
<1>2. Shape => ChunkWithinCap
  BY ChunkBounds DEF ChunkWithinCap, Shape, DriversAhead
<1>. QED  BY <1>1, <1>2, PTL
-----------------------------------------------------------------------------
\* Ingested is about the blocks of the chain and only ever gains rows.
LEMMA IngestedGrows ==
    ASSUME NEW S, Ingested(S), kind' = kind, rows \subseteq rows', dead \subseteq dead'
    PROVE  Ingested(S)'
BY DEF Ingested, Logs

LEMMA CoverStep ==
    ASSUME CliFromGenesis, Shape, CheckpointCovers, DriversCover, [Next]_vars
    PROVE  CheckpointCovers' /\ DriversCover'
<1>1. CASE UNCHANGED <<kind, checkpoint, rows, dead, next>> /\ running' \subseteq running
  BY <1>1 DEF CheckpointCovers, DriversCover, Ingested, Logs
<1>2. ASSUME NEW d \in Drivers, NEW f \in Nat, NEW t, Enter(d, f, t),
             Ingested(1..(f - 1))
      PROVE  CheckpointCovers' /\ DriversCover'
  BY <1>2 DEF Enter, CheckpointCovers, DriversCover, Ingested, Logs, Shape, TypeOK
<1>3. Ingested(1..(ResumeFrom(1) - 1)) /\ ResumeFrom(1) \in Nat
  BY DEF ResumeFrom, CheckpointCovers, Ingested, Logs, Shape, TypeOK
<1>4. Ingested(1..(1 - 1))
  BY DEF Ingested, Logs
<1>5. CASE Tick
  BY <1>5, <1>2, <1>3 DEF Tick, Drivers
<1>6. CASE Cli
  BY <1>6, <1>2, <1>3, <1>4 DEF Cli, Drivers, CliFromGenesis
<1>7. ASSUME NEW d \in Drivers, CommitChunk(d)
      PROVE  CheckpointCovers' /\ DriversCover'
  <2>1. PICK n, m, c : n = next[d] /\ m = ChunkEnd(d) /\ c = checkpoint
    OBVIOUS
  <2>2. /\ d \in running /\ kind' = kind
        /\ rows \subseteq rows' /\ dead \subseteq dead'
        /\ n \in Nat /\ m \in Int /\ n <= m
        /\ next' = [next EXCEPT ![d] = m + 1]
        /\ checkpoint' = c \/ checkpoint' = m
        /\ running' \subseteq running
    BY <1>7, <2>1, ChunkBounds DEF CommitChunk, Greater, Shape, TypeOK
  <2>3. Ingested(n..m)'
    BY <1>7, <2>1 DEF CommitChunk, Chunk, Ingested, Logs
  <2>4. Ingested(1..(n - 1))'
    BY <2>1, <2>2, IngestedGrows DEF DriversCover
  <2>5. Ingested(1..m)'
    <3>1. 1..m \subseteq (1..(n - 1)) \cup (n..m)
      BY <2>2
    <3>. QED  BY <2>3, <2>4, <3>1 DEF Ingested, Logs
  <2>6. CheckpointCovers'
    <3>1. Ingested(1..c)'
      BY <2>1, <2>2, IngestedGrows DEF CheckpointCovers
    <3>. QED  BY <2>2, <2>5, <3>1 DEF CheckpointCovers
  <2>7. ASSUME NEW x \in running'
        PROVE  Ingested(1..(next[x] - 1))'
    <3>1. PICK k : k = next[x]
      OBVIOUS
    <3>2. CASE x = d
      <4>1. next'[x] - 1 = m
        BY <2>2, <3>2 DEF Shape, TypeOK
      <4>. QED  BY <2>5, <4>1
    <3>3. CASE x # d
      <4>1. x \in running /\ next'[x] = k
        BY <2>2, <3>1, <3>3 DEF Shape, TypeOK
      <4>2. Ingested(1..(k - 1))
        BY <3>1, <4>1 DEF DriversCover
      <4>3. Ingested(1..(k - 1))'
        BY <2>2, <4>2, IngestedGrows
      <4>. QED  BY <4>1, <4>3
    <3>. QED  BY <3>2, <3>3
  <2>. QED  BY <2>6, <2>7 DEF DriversCover
<1>. QED
  BY <1>1, <1>5, <1>6, <1>7
     DEF Next, Step, NewBlock, StrictHalt, Fail, Leave, TransientHalve,
         TransientAtMin, vars, locals

\* When operators backfill from the genesis block, no log at or below the
\* checkpoint is ever missing and no undecodable critical event is passed
\* (resume_from, drive_backfill, backfill_chunk, advance_checkpoint), whatever
\* the interleaving of the daemon with a backfill command, errors and crashes.
THEOREM CheckpointIsSound ==
    ASSUME CliFromGenesis
    PROVE  Spec => []CheckpointCovers
<1>1. Init => IInv
  BY ShapeInit
     DEF Init, IInv, Shape, CheckpointCovers, DriversCover, Ingested, Logs
<1>2. IInv /\ [Next]_vars => IInv'
  BY ShapeStep, CoverStep DEF IInv, Shape
<1>3. IInv => CheckpointCovers
  BY DEF IInv
<1>. QED  BY <1>1, <1>2, <1>3, PTL DEF Spec
=============================================================================
