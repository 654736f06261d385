--------------------------- MODULE RollupsProofs ---------------------------
(* No source row is lost by the rollups, proved for every set of rows.     *)
EXTENDS RollupReads, Extremes, TLAPS

USE RollupsAssumption

LEMMA MaxOfPair ==
    ASSUME NEW a \in Nat, NEW b \in Nat
    PROVE  Max({a, b}) = IF a >= b THEN a ELSE b
<1>1. \E x \in {a, b} : \A y \in {a, b} : x >= y
  OBVIOUS
<1>. QED  BY <1>1 DEF Max

LEMMA CompleteBelow ==
    ASSUME NEW i \in Nat, NEW j \in Nat, i <= j, Complete(j)
    PROVE  Complete(i)
BY DEF Complete, Ids

\* What has appeared stays or is withdrawn, so completeness is never lost.
LEMMA CompleteKept ==
    ASSUME NEW i, Complete(i),
           \A r \in SourceRows : Settled(r) => Settled(r)'
    PROVE  Complete(i)'
BY DEF Complete

LEMMA SettledKept ==
    ASSUME [Next]_vars, NEW r \in SourceRows, Settled(r)
    PROVE  Settled(r)'
<1>1. CASE \E s \in SourceRows : Appear(s)
  BY <1>1 DEF Appear, Settled
<1>2. CASE \E i \in Ids : Withdraw(i)
  BY <1>2 DEF Withdraw, Settled
<1>3. CASE UNCHANGED <<visible, withdrawn>>
  BY <1>3 DEF Settled
<1>. QED
  BY <1>1, <1>2, <1>3
     DEF Next, RunOnce, RecordMutation, StartRun, Rebuild, Replace, RebuildDone, Fetch,
         CountDistinct, Upsert, Advance, Fail, sourceVars, vars

LEMMA InitIInv == Init => IInv
BY DEF Init, IInv, OrderInv, CountsInv, BatchInv, AddedInv, RebuiltInv, NothingLost,
       NoAggregate, Complete, Ids

LEMMA OrderStep ==
    ASSUME InOrder, UniqueIds, IInv, [Next]_vars
    PROVE  OrderInv'
<1>. USE DEF IInv, OrderInv
<1>0. \A i : Complete(i) => Complete(i)'
  BY SettledKept, CompleteKept
<1>1. ASSUME NEW r \in SourceRows, Appear(r)
      PROVE  OrderInv'
  <2>1. Complete(r.id)'
    BY <1>1 DEF Appear, Complete, Settled, UniqueIds
  <2>. QED  BY <1>0, <1>1, <2>1 DEF Appear, tableVars
<1>2. CASE \E i \in Ids : Withdraw(i)
  BY <1>0, <1>2 DEF Withdraw, tableVars
<1>3. CASE UNCHANGED <<visible, checkpoint>>
  BY <1>0, <1>3
<1>4. CASE Advance
  <2>1. PICK last \in batch : EndsBatch(last) /\ lastId = last.id
    BY <1>4 DEF Advance, AddedInv
  <2>. QED
    BY <1>0, <1>4, <2>1, MaxOfPair
       DEF Advance, BatchInv, CountsInv, sourceVars
<1>. QED
  BY <1>1, <1>2, <1>3, <1>4
     DEF Next, RunOnce, RecordMutation, StartRun, Rebuild, Replace, RebuildDone, Fetch,
         CountDistinct, Upsert, Fail, sourceVars, tableVars, vars
-----------------------------------------------------------------------------
\* An upsert keeps the table's keys, never lowers a count, and counts the rows of
\* the batch it adds.
LEMMA UpsertAdds ==
    ASSUME CountsInv, Upsert
    PROVE  \E k \in keys :
             /\ keys' = keys \ {k}
             /\ DOMAIN agg' = Keys
             /\ \A l \in Keys : agg'[l].count \in [SourceRows -> Nat]
             /\ \A l \in Keys, r \in SourceRows : agg'[l].count[r] >= agg[l].count[r]
             /\ \A r \in SourceRows :
                   r \in batch /\ r.key = k => agg'[k].count[r] >= 1
<1>1. PICK k \in keys :
         LET mine == {r \in batch : r.key = k}
         IN  /\ agg' = [agg EXCEPT ![k] =
                   [count |-> [r \in SourceRows |->
                                  @.count[r] + IF r \in mine THEN 1 ELSE 0],
                    distinct |-> @.distinct + Cardinality({n \in news : n[1] = k}),
                    max |-> LargerId(@.max, MaxId(mine))]]
             /\ keys' = keys \ {k}
  BY DEF Upsert
<1>. DEFINE mine == {r \in batch : r.key = k}
            sum  == [r \in SourceRows |->
                        agg[k].count[r] + IF r \in mine THEN 1 ELSE 0]
<1>2. k \in Keys /\ k \in DOMAIN agg /\ agg[k].count \in [SourceRows -> Nat]
  BY <1>1 DEF CountsInv
<1>3. DOMAIN agg' = Keys /\ agg'[k].count = sum
  BY <1>1, <1>2 DEF CountsInv
<1>4. \A l \in Keys : l # k => agg'[l] = agg[l]
  BY <1>1, <1>2 DEF CountsInv
<1>5. /\ sum \in [SourceRows -> Nat]
      /\ \A r \in SourceRows : sum[r] >= agg[k].count[r]
      /\ \A r \in SourceRows : r \in mine => sum[r] >= 1
  BY <1>2
<1>6. \A r \in SourceRows : r \in batch /\ r.key = k => r \in mine
  OBVIOUS
<1>. HIDE DEF sum, mine
<1>7. \A l \in Keys : agg'[l].count \in [SourceRows -> Nat]
  BY <1>3, <1>4, <1>5 DEF CountsInv
<1>8. \A l \in Keys, r \in SourceRows : agg'[l].count[r] >= agg[l].count[r]
  <2>. SUFFICES ASSUME NEW l \in Keys, NEW r \in SourceRows
                PROVE  agg'[l].count[r] >= agg[l].count[r]
    OBVIOUS
  <2>1. agg[l].count[r] \in Nat
    BY DEF CountsInv
  <2>. QED  BY <1>3, <1>4, <1>5, <2>1
<1>. QED  BY <1>1, <1>2, <1>3, <1>5, <1>6, <1>7, <1>8

\* The rebuilt aggregate that is written is the only one there is.
LEMMA ReplaceWrites ==
    ASSUME CountsInv, Replace
    PROVE  \E b \in rebuilt :
             /\ DOMAIN agg' = Keys /\ agg'[b.key] = b.new
             /\ \A l \in Keys : l # b.key => agg'[l] = agg[l]
BY DEF Replace, CountsInv

LEMMA CountsStep ==
    ASSUME IInv, [Next]_vars
    PROVE  CountsInv'
<1>. USE DEF IInv
<1>1. CASE StartRun
  <2>1. keys' \subseteq Keys
    BY <1>1 DEF StartRun, CandidateKeys, Keys, OrderInv
  <2>. QED  BY <1>1, <2>1 DEF StartRun, tableVars, CountsInv
<1>2. CASE Rebuild
  <2>1. PICK k \in keys :
           rebuilt' = {[key |-> k, new |-> RebuiltFrom({r \in visible : r.key = k})]}
    BY <1>2 DEF Rebuild
  <2>2. \A S : RebuiltFrom(S).count \in [SourceRows -> Nat]
    BY DEF RebuiltFrom
  <2>3. \A b \in rebuilt' : b.key \in Keys /\ b.new.count \in [SourceRows -> Nat]
    BY <2>1, <2>2 DEF CountsInv
  <2>. QED  BY <1>2, <2>3 DEF Rebuild, tableVars, CountsInv
<1>3. CASE Replace
  <2>1. PICK b \in rebuilt :
             /\ DOMAIN agg' = Keys /\ agg'[b.key] = b.new
             /\ \A l \in Keys : l # b.key => agg'[l] = agg[l]
    BY <1>3, ReplaceWrites
  <2>2. \A l \in Keys : agg'[l].count \in [SourceRows -> Nat]
    BY <2>1 DEF CountsInv
  <2>3. rebuilt' = {} /\ keys' \subseteq keys /\ checkpoint' = checkpoint
    BY <1>3 DEF Replace
  <2>. QED  BY <2>1, <2>2, <2>3 DEF CountsInv
<1>4. CASE CountDistinct
  BY <1>4 DEF CountDistinct, tableVars, CountsInv, BatchInv, Keys
<1>5. CASE Upsert
  BY <1>5, UpsertAdds DEF Upsert, CountsInv
<1>6. CASE Advance
  <2>1. PICK last \in batch : EndsBatch(last) /\ lastId = last.id
    BY <1>6 DEF Advance, AddedInv
  <2>2. lastId \in Nat
    BY <1>6, <2>1 DEF Advance, BatchInv
  <2>. QED  BY <1>6, <2>2, MaxOfPair DEF Advance, CountsInv
<1>7. CASE Fail
  BY <1>7 DEF Fail, tableVars, CountsInv
<1>8. CASE UNCHANGED <<checkpoint, keys, agg, rebuilt>>
  BY <1>8 DEF CountsInv
<1>. QED
  BY <1>1, <1>2, <1>3, <1>4, <1>5, <1>6, <1>7, <1>8
     DEF Next, RunOnce, Appear, Withdraw, RecordMutation, RebuildDone, Fetch,
         tableVars, runVars, vars

\* A batch stays complete: what appears later has a larger id.
LEMMA BatchStep ==
    ASSUME UniqueIds, IInv, [Next]_vars
    PROVE  BatchInv'
<1>. USE DEF IInv, BatchInv
<1>0. \A i : Complete(i) => Complete(i)'
  BY SettledKept, CompleteKept
<1>1. CASE Fetch
  <2>1. PICK B \in SUBSET Behind : IsBatch(B) /\ batch' = B
    BY <1>1 DEF Fetch
  <2>2. B \subseteq visible /\ visible' = visible /\ checkpoint' = checkpoint
    BY <1>1, <2>1 DEF Fetch, Behind, sourceVars, tableVars
  <2>3. \A r \in B : \A s \in visible :
           checkpoint < s.id /\ s.id <= r.id => s \in B
    <3>. SUFFICES ASSUME NEW r \in B, NEW s \in visible, s \notin B,
                         checkpoint < s.id, s.id <= r.id
                  PROVE  FALSE
      OBVIOUS
    <3>1. s \in Behind \ B /\ r \in SourceRows /\ s \in SourceRows
      BY <2>2 DEF Behind, OrderInv
    <3>2. r.id <= s.id /\ r.id \in Nat /\ s.id \in Nat
      BY <2>1, <3>1 DEF IsBatch
    <3>. QED  BY <3>1, <3>2 DEF UniqueIds
  <2>. QED  BY <1>0, <2>1, <2>2, <2>3 DEF OrderInv
<1>2. ASSUME NEW r \in SourceRows, Appear(r)
      PROVE  BatchInv'
  <2>. SUFFICES ASSUME pc \in {"count", "upsert"}
                PROVE  BatchInv'
    BY <1>2 DEF Appear, runVars
  <2>1. \A b \in batch : ~(r.id <= b.id)
    BY <1>2 DEF Appear, Complete, Settled
  <2>. QED  BY <1>0, <1>2, <2>1 DEF Appear, tableVars, runVars
<1>3. CASE \E i \in Ids : Withdraw(i)
  BY <1>0, <1>3 DEF Withdraw, tableVars, runVars
<1>4. CASE CountDistinct \/ Upsert
  BY <1>0, <1>4 DEF CountDistinct, Upsert, sourceVars, tableVars
<1>5. CASE pc' \notin {"count", "upsert"}
  BY <1>5
<1>6. CASE UNCHANGED <<visible, checkpoint, pc, batch>>
  BY <1>0, <1>6
<1>. QED
  BY <1>1, <1>2, <1>3, <1>4, <1>5, <1>6
     DEF Next, RunOnce, RecordMutation, StartRun, Rebuild, Replace, RebuildDone,
         Advance, Fail, sourceVars, tableVars, runVars, vars

LEMMA AddedStep ==
    ASSUME IInv, [Next]_vars
    PROVE  AddedInv'
<1>. USE DEF IInv, AddedInv, EndsBatch
<1>1. CASE CountDistinct
  BY <1>1 DEF CountDistinct
<1>2. CASE Upsert
  <2>1. PICK k \in keys :
             /\ keys' = keys \ {k}
             /\ DOMAIN agg' = Keys
             /\ \A l \in Keys : agg'[l].count \in [SourceRows -> Nat]
             /\ \A l \in Keys, r \in SourceRows :
                   agg'[l].count[r] >= agg[l].count[r]
             /\ \A r \in SourceRows :
                   r \in batch /\ r.key = k => agg'[k].count[r] >= 1
    BY <1>2, UpsertAdds
  <2>2. pc = "upsert" /\ batch' = batch /\ lastId' = lastId
    BY <1>2 DEF Upsert
  <2>3. ASSUME NEW r \in batch, r.key \notin keys'
        PROVE  agg'[r.key].count[r] >= 1
    <3>1. r \in SourceRows /\ r.key \in Keys
      BY <2>2 DEF BatchInv, Keys
    <3>2. CASE r.key = k
      BY <2>1, <3>1, <3>2
    <3>3. CASE r.key # k
      <4>1. agg[r.key].count[r] >= 1
        BY <2>1, <2>2, <2>3, <3>3
      <4>2. agg[r.key].count[r] \in Nat /\ agg'[r.key].count[r] \in Nat
        BY <2>1, <3>1 DEF CountsInv
      <4>. QED  BY <2>1, <3>1, <4>1, <4>2
    <3>. QED  BY <3>2, <3>3
  <2>. QED  BY <2>2, <2>3
<1>3. CASE pc' # "upsert"
  BY <1>3
<1>4. CASE UNCHANGED <<pc, keys, batch, lastId, agg>>
  BY <1>4
<1>. QED
  BY <1>1, <1>2, <1>3, <1>4
     DEF Next, RunOnce, Appear, Withdraw, RecordMutation, StartRun, Rebuild, Replace,
         RebuildDone, Fetch, Advance, Fail, tableVars, runVars, vars

\* Rows that appear after a rebuild has read its key lie above the checkpoint.
LEMMA RebuiltStep ==
    ASSUME IInv, [Next]_vars
    PROVE  RebuiltInv'
<1>. USE DEF IInv, RebuiltInv
<1>1. CASE Rebuild
  <2>1. PICK k \in keys :
           rebuilt' = {[key |-> k, new |-> RebuiltFrom({r \in visible : r.key = k})]}
    BY <1>1 DEF Rebuild
  <2>2. \A S : \A r \in SourceRows : r \in S => RebuiltFrom(S).count[r] = 1
    BY DEF RebuiltFrom
  <2>. QED
    BY <1>1, <2>1, <2>2 DEF Rebuild, sourceVars, tableVars, OrderInv
<1>2. ASSUME NEW r \in SourceRows, Appear(r)
      PROVE  RebuiltInv'
  <2>1. ~(r.id <= checkpoint)
    BY <1>2 DEF Appear, OrderInv, Complete, Settled
  <2>. QED  BY <1>2, <2>1 DEF Appear, tableVars, runVars
<1>3. CASE \E i \in Ids : Withdraw(i)
  BY <1>3 DEF Withdraw, tableVars, runVars
<1>4. CASE rebuilt' = {}
  BY <1>4
<1>5. CASE UNCHANGED <<visible, checkpoint, pc, keys, rebuilt>>
  BY <1>5
<1>6. CASE pc # "rebuild" /\ rebuilt' = rebuilt
  BY <1>6
<1>7. CASE RebuildDone
  BY <1>7 DEF RebuildDone
<1>. QED
  BY <1>1, <1>2, <1>3, <1>4, <1>5, <1>6, <1>7
     DEF Next, RunOnce, RecordMutation, StartRun, Replace, Fetch, CountDistinct,
         Upsert, Advance, Fail, sourceVars, tableVars, runVars, vars

LEMMA LostStep ==
    ASSUME IInv, [Next]_vars
    PROVE  NothingLost'
<1>. USE DEF IInv, NothingLost
<1>1. ASSUME NEW r \in SourceRows, Appear(r)
      PROVE  NothingLost'
  <2>1. ~(r.id <= checkpoint)
    BY <1>1 DEF Appear, OrderInv, Complete, Settled
  <2>. QED  BY <1>1, <2>1 DEF Appear, tableVars
<1>2. CASE \E i \in Ids : Withdraw(i)
  BY <1>2 DEF Withdraw, tableVars
<1>3. CASE Replace
  <2>1. PICK b \in rebuilt :
             /\ DOMAIN agg' = Keys /\ agg'[b.key] = b.new
             /\ \A l \in Keys : l # b.key => agg'[l] = agg[l]
    BY <1>3, ReplaceWrites
  <2>. QED
    BY <1>3, <2>1 DEF Replace, sourceVars, RebuiltInv, OrderInv, Keys
<1>4. CASE Upsert
  <2>1. \A l \in Keys, r \in SourceRows :
           /\ agg'[l].count[r] >= agg[l].count[r]
           /\ agg'[l].count[r] \in Nat /\ agg[l].count[r] \in Nat
    BY <1>4, UpsertAdds DEF CountsInv
  <2>2. visible' = visible /\ checkpoint' = checkpoint
    BY <1>4 DEF Upsert, sourceVars
  <2>3. ASSUME NEW r \in visible, r.id <= checkpoint
        PROVE  agg'[r.key].count[r] >= 1
    <3>1. r \in SourceRows /\ r.key \in Keys
      BY DEF OrderInv, Keys
    <3>2. agg[r.key].count[r] >= 1
      BY <2>3
    <3>. QED  BY <2>1, <3>1, <3>2
  <2>. QED  BY <2>2, <2>3
<1>5. CASE Advance
  <2>1. PICK last \in batch : EndsBatch(last) /\ lastId = last.id
    BY <1>5 DEF Advance, AddedInv
  <2>2. /\ pc = "upsert" /\ keys = {} /\ visible' = visible /\ agg' = agg
        /\ checkpoint' = Max({checkpoint, lastId})
    BY <1>5 DEF Advance, sourceVars
  <2>3. lastId \in Nat /\ checkpoint \in Nat
    BY <2>1, <2>2 DEF BatchInv, CountsInv
  <2>4. ASSUME NEW r \in visible, r.id <= checkpoint'
        PROVE  agg[r.key].count[r] >= 1
    <3>1. CASE r.id <= checkpoint
      BY <3>1
    <3>2. CASE ~(r.id <= checkpoint)
      <4>1. checkpoint < r.id /\ r.id <= last.id
        BY <2>1, <2>2, <2>3, <2>4, <3>2, MaxOfPair DEF OrderInv
      <4>2. r \in batch
        BY <2>1, <2>2, <4>1 DEF BatchInv
      <4>. QED  BY <2>2, <4>2 DEF AddedInv
    <3>. QED  BY <3>1, <3>2
  <2>. QED  BY <2>2, <2>4
<1>6. CASE UNCHANGED <<visible, checkpoint, agg>>
  BY <1>6
<1>. QED
  BY <1>1, <1>2, <1>3, <1>4, <1>5, <1>6
     DEF Next, RunOnce, RecordMutation, StartRun, Rebuild, RebuildDone, Fetch,
         CountDistinct, Fail, sourceVars, tableVars, vars

LEMMA IInvHolds ==
    ASSUME InOrder, UniqueIds
    PROVE  Spec => []IInv
<1>1. IInv /\ [Next]_vars => IInv'
  BY OrderStep, CountsStep, BatchStep, AddedStep, RebuiltStep, LostStep DEF IInv
<1>. QED  BY InitIInv, <1>1, PTL DEF Spec

\* If rows become finalized and valued in the order of their ids, and no event has
\* two of them, a row behind the checkpoint is in its aggregate as long as it is
\* visible (run_once and process_reorg_mutations of the four rollup workers), for any
\* batch size, any withdrawals and mutations, and a failure between any statements.
THEOREM RowsAreNeverLost ==
    ASSUME InOrder, UniqueIds
    PROVE  Spec => []NothingLost
<1>1. IInv => NothingLost
  BY DEF IInv
<1>. QED  BY <1>1, IInvHolds, PTL
-----------------------------------------------------------------------------
\* The day of the bound is the last of its days.
LEMMA WithinDays ==
    ASSUME NEW to \in Bounds, NEW r \in SourceRows, BlockOf[r] <= to
    PROVE  DayOf[BlockOf[r]] <= LastDay(to)
<1>. DEFINE S == {s \in SourceRows : BlockOf[s] <= to}
            D == {DayOf[BlockOf[s]] : s \in S}
<1>1. D \in SUBSET Nat /\ DayOf[BlockOf[r]] \in D
  BY RollupReadsAssumption
<1>2. IsFiniteSet(D)
  <2>1. IsFiniteSet(S)
    BY FS_Subset
  <2>2. PICK f : f = [s \in S |-> DayOf[BlockOf[s]]]
    OBVIOUS
  <2>3. f \in [S -> D] /\ \A d \in D : \E s \in S : d = f[s]
    BY <2>2
  <2>. HIDE DEF S, D
  <2>. QED  BY <2>1, <2>3, ValuesFinite
<1>3. LastDay(to) = Max(D)
  BY DEF LastDay
<1>. HIDE DEF D
<1>. QED  BY <1>1, <1>2, <1>3, MaxOfFinite

\* In the order of the ids, an answer of aggregations/events from the daily table
\* lacks canonical events of the bound's own block only (rollup_covers_range and
\* resolve_day_window of the API over run_once of the worker), for any batch size,
\* any withdrawals and rebuilds, and a failure between any statements.
THEOREM OnlyLastBlockIsCut ==
    ASSUME InOrder, UniqueIds
    PROVE  Spec => []OnlyLastBlockPartial
<1>1. IInv => OnlyLastBlockPartial
  <2>. SUFFICES ASSUME IInv, NEW to \in Bounds, NEW r \in FromRawEvents(to), BlockOf[r] # to,
                       RollupCovers(to)
                PROVE  r \in FromRollup(to)
    BY DEF OnlyLastBlockPartial, Aggregates
  <2>1. r \in SourceRows /\ r.id \notin withdrawn /\ BlockOf[r] <= to
    BY DEF FromRawEvents
  <2>2. PICK s \in SourceRows : s.id = checkpoint /\ to <= BlockOf[s]
    BY DEF RollupCovers
  <2>3. r.id \in Nat /\ s.id \in Nat /\ to \in Nat /\ BlockOf[r] \in Nat /\ BlockOf[s] \in Nat
    BY <2>1, <2>2, RollupReadsAssumption DEF Bounds
  <2>4. r.id <= checkpoint
    BY <2>1, <2>2, <2>3, RollupReadsAssumption
  <2>5. r \in visible
    BY <2>1, <2>4 DEF IInv, OrderInv, Complete, Settled
  <2>6. agg[r.key].count[r] \in Nat /\ agg[r.key].count[r] >= 1
    BY <2>1, <2>4, <2>5 DEF IInv, NothingLost, CountsInv, Keys
  <2>. QED  BY <2>1, <2>6, WithinDays DEF FromRollup
<1>. QED  BY <1>1, IInvHolds, PTL

-----------------------------------------------------------------------------
(* Types.                                                                  *)

\* MaxId of the rows of one aggregate.
LEMMA MaxIdOf ==
    ASSUME NEW S \in SUBSET SourceRows
    PROVE  /\ MaxId(S) \in Ids \cup {0} /\ MaxId(S) \in Nat
           /\ \A r \in S : r.id <= MaxId(S)
           /\ MaxId(S) = 0 \/ \E r \in S : r.id = MaxId(S)
<1>. DEFINE I == {r.id : r \in S}
<1>1. IsFiniteSet(I \cup {0})
  <2>1. IsFiniteSet(S)
    BY FS_Subset
  <2>2. PICK f : f = [r \in S |-> r.id]
    OBVIOUS
  <2>3. f \in [S -> I] /\ \A i \in I : \E r \in S : i = f[r]
    BY <2>2
  <2>. HIDE DEF I
  <2>4. IsFiniteSet(I)
    BY <2>1, <2>3, ValuesFinite
  <2>. QED  BY <2>4, FS_AddElement
<1>2. I \cup {0} \in SUBSET Nat /\ I \cup {0} # {} /\ I \cup {0} \subseteq Ids \cup {0}
  BY DEF Ids
<1>3. MaxId(S) = Max(I \cup {0}) /\ \A r \in S : r.id \in I \cup {0}
  BY DEF MaxId
<1>. HIDE DEF I
<1>4. Max(I \cup {0}) \in I \cup {0} /\ \A i \in I \cup {0} : i <= Max(I \cup {0})
  BY <1>1, <1>2, MaxOfFinite
<1>5. \A i \in I : \E r \in S : i = r.id
  BY DEF I
<1>. QED  BY <1>2, <1>3, <1>4, <1>5

\* What the rows of an aggregate name is finite.
LEMMA PartiesFinite ==
    ASSUME NEW S \in SUBSET SourceRows
    PROVE  IsFiniteSet({r.party : r \in S}) /\ Cardinality({r.party : r \in S}) \in Nat
<1>. DEFINE P == {r.party : r \in S}
<1>1. PICK f : f = [r \in S |-> r.party]
  OBVIOUS
<1>2. f \in [S -> P] /\ \A p \in P : \E r \in S : p = f[r]
  BY <1>1
<1>3. IsFiniteSet(S)
  BY FS_Subset
<1>. HIDE DEF P
<1>4. IsFiniteSet(P) /\ Cardinality(P) \in Nat
  BY <1>2, <1>3, ValuesFinite, FS_CardinalityType
<1>. QED  BY <1>4 DEF P

LEMMA NewsFinite ==
    ASSUME NEW N \in SUBSET (Keys \X Parties), NEW k
    PROVE  IsFiniteSet({n \in N : n[1] = k}) /\ Cardinality({n \in N : n[1] = k}) \in Nat
<1>1. IsFiniteSet(Keys)
  <2>1. PICK f : f = [r \in SourceRows |-> r.key]
    OBVIOUS
  <2>2. f \in [SourceRows -> Keys] /\ \A q \in Keys : \E r \in SourceRows : q = f[r]
    BY <2>1 DEF Keys
  <2>. QED  BY <2>2, ValuesFinite
<1>2. IsFiniteSet(Parties)
  BY PartiesFinite DEF Parties
<1>3. IsFiniteSet({n \in N : n[1] = k})
  <2>1. {n \in N : n[1] = k} \in SUBSET (Keys \X Parties)
    OBVIOUS
  <2>. QED  BY <1>1, <1>2, <2>1, FS_Product, FS_Subset
<1>. QED  BY <1>3, FS_CardinalityType

LEMMA RebuiltType ==
    ASSUME NEW S \in SUBSET SourceRows
    PROVE  RebuiltFrom(S) \in Aggregate
BY MaxIdOf, PartiesFinite DEF RebuiltFrom, Aggregate

\* What an upsert makes of the aggregate of its key.
Added(k) ==
    [count |-> [r \in SourceRows |-> agg[k].count[r] + IF r \in batch /\ r.key = k THEN 1 ELSE 0],
     distinct |-> agg[k].distinct + Cardinality({n \in news : n[1] = k}),
     max |-> LargerId(agg[k].max, MaxId({r \in batch : r.key = k}))]

LEMMA AddedType ==
    ASSUME TypeOK, NEW k \in Keys
    PROVE  /\ Added(k) \in Aggregate
           /\ Added(k).max >= agg[k].max /\ \A r \in batch : r.key = k => Added(k).max >= r.id
<1>1. /\ agg[k] \in Aggregate /\ agg[k].max \in Nat /\ agg[k].max \in Ids \cup {0}
      /\ agg[k].count \in [SourceRows -> Nat] /\ agg[k].distinct \in Nat
  BY DEF TypeOK, Aggregate, Ids
<1>. DEFINE mine == {r \in batch : r.key = k}
<1>2. mine \in SUBSET SourceRows /\ \A r \in batch : r.key = k => r \in mine
  BY DEF TypeOK
<1>3. Cardinality({n \in news : n[1] = k}) \in Nat
  BY NewsFinite DEF TypeOK
<1>4. /\ Added(k).max = LargerId(agg[k].max, MaxId(mine))
      /\ Added(k).distinct = agg[k].distinct + Cardinality({n \in news : n[1] = k})
      /\ Added(k).count = [r \in SourceRows |-> agg[k].count[r] + IF r \in batch /\ r.key = k THEN 1 ELSE 0]
  BY DEF Added
<1>. HIDE DEF mine
<1>5. MaxId(mine) \in Ids \cup {0} /\ MaxId(mine) \in Nat /\ \A r \in mine : r.id <= MaxId(mine)
  BY <1>2, MaxIdOf
<1>6. Added(k).max = IF agg[k].max >= MaxId(mine) THEN agg[k].max ELSE MaxId(mine)
  BY <1>1, <1>4, <1>5, MaxOfPair DEF LargerId
<1>7. \A r \in batch : r.key = k => Added(k).max >= r.id
  BY <1>1, <1>2, <1>5, <1>6 DEF TypeOK
<1>8. Added(k).max \in Ids \cup {0} /\ Added(k).max >= agg[k].max
  BY <1>1, <1>5, <1>6
<1>9. Added(k).count \in [SourceRows -> Nat] /\ Added(k).distinct \in Nat
  BY <1>1, <1>3, <1>4
<1>10. Added(k) = [count |-> Added(k).count, distinct |-> Added(k).distinct, max |-> Added(k).max]
  BY DEF Added
<1>. QED  BY <1>7, <1>8, <1>9, <1>10 DEF Aggregate

LEMMA UpsertWrites ==
    ASSUME TypeOK, Upsert
    PROVE  \E k \in keys : agg' = [agg EXCEPT ![k] = Added(k)] /\ keys' = keys \ {k}
<1>1. PICK k \in keys :
         /\ agg' = [agg EXCEPT ![k] =
               [count |-> [r \in SourceRows |->
                              @.count[r] + IF r \in {s \in batch : s.key = k} THEN 1 ELSE 0],
                distinct |-> @.distinct + Cardinality({n \in news : n[1] = k}),
                max |-> LargerId(@.max, MaxId({r \in batch : r.key = k}))]]
         /\ keys' = keys \ {k}
  BY DEF Upsert
<1>2. \A r : r \in {s \in batch : s.key = k} <=> r \in batch /\ r.key = k
  OBVIOUS
<1>3. agg' = [agg EXCEPT ![k] = Added(k)]
  BY <1>1, <1>2 DEF Added
<1>. QED  BY <1>1, <1>3

LEMMA RollupTypeInit == Init => TypeOK
<1>1. NoAggregate \in Aggregate
  BY DEF NoAggregate, Aggregate
<1>. QED  BY <1>1 DEF Init, TypeOK, Keys

LEMMA RollupTypeStep == TypeOK /\ [Next]_vars => TypeOK'
<1>. SUFFICES ASSUME TypeOK, [Next]_vars PROVE TypeOK'
  OBVIOUS
<1>. USE DEF TypeOK
<1>0. Len(mutations) \in Nat /\ \A m \in 1..Len(mutations) : mutations[m] \in Ids
  OBVIOUS
<1>1. ASSUME NEW r \in SourceRows, Appear(r) PROVE TypeOK'
  BY <1>1 DEF Appear, tableVars, runVars
<1>2. ASSUME NEW i \in Ids, Withdraw(i) PROVE TypeOK'
  BY <1>2 DEF Withdraw, tableVars, runVars
<1>3. ASSUME NEW i \in Ids, RecordMutation(i) PROVE TypeOK'
  <2>1. mutations' \in Seq(Ids) /\ Len(mutations') = Len(mutations) + 1
    BY <1>3 DEF RecordMutation
  <2>. QED  BY <1>0, <1>3, <2>1 DEF RecordMutation, tableVars, runVars
<1>4. CASE StartRun
  <2>1. keys' \subseteq Keys
    BY <1>4 DEF StartRun, CandidateKeys, Keys
  <2>. QED  BY <1>0, <1>4, <2>1 DEF StartRun, sourceVars, tableVars
<1>5. CASE Rebuild
  <2>1. PICK k \in keys :
           rebuilt' = {[key |-> k, new |-> RebuiltFrom({r \in visible : r.key = k})]}
    BY <1>5 DEF Rebuild
  <2>2. PICK new \in Aggregate : new = RebuiltFrom({r \in visible : r.key = k})
    BY RebuiltType
  <2>3. rebuilt' \subseteq [key : Keys, new : Aggregate]
    BY <2>1, <2>2
  <2>. QED  BY <1>5, <2>3 DEF Rebuild, sourceVars, tableVars
<1>6. CASE Replace
  <2>1. PICK b \in rebuilt : agg' = [agg EXCEPT ![b.key] = b.new] /\ keys' = keys \ {b.key}
    BY <1>6 DEF Replace
  <2>2. b.key \in Keys /\ b.new \in Aggregate
    OBVIOUS
  <2>3. agg' \in [Keys -> Aggregate]
    BY <2>1, <2>2
  <2>. QED  BY <1>6, <2>1, <2>3 DEF Replace, sourceVars
<1>7. CASE RebuildDone
  <2>1. reorgPoint' \in {reorgPoint, upTo}
    <3>1. reorgPoint \in Nat /\ upTo \in Nat
      BY <1>0
    <3>. QED  BY <1>7, <3>1, MaxOfPair DEF RebuildDone
  <2>2. reorgPoint' \in 0..Len(mutations)
    BY <2>1
  <2>. QED  BY <1>7, <2>2 DEF RebuildDone, sourceVars
<1>8. CASE Fetch
  BY <1>8 DEF Fetch, Behind, sourceVars, tableVars
<1>9. CASE CountDistinct
  <2>1. news' \subseteq Keys \X Parties /\ keys' \subseteq Keys
    BY <1>9 DEF CountDistinct, Keys, Parties
  <2>2. lastId' \in Ids
    BY <1>9 DEF CountDistinct, Ids
  <2>. QED  BY <1>9, <2>1, <2>2 DEF CountDistinct, sourceVars, tableVars
<1>10. CASE Upsert
  <2>1. PICK k \in keys : agg' = [agg EXCEPT ![k] = Added(k)] /\ keys' = keys \ {k}
    BY <1>10, UpsertWrites
  <2>2. Added(k) \in Aggregate
    BY AddedType
  <2>. QED  BY <1>10, <2>1, <2>2 DEF Upsert, sourceVars
<1>11. CASE Advance
  <2>1. checkpoint' \in {checkpoint, lastId}
    BY <1>11, MaxOfPair DEF Advance, Ids
  <2>. QED  BY <1>11, <2>1 DEF Advance, sourceVars
<1>12. CASE Fail
  BY <1>12 DEF Fail, sourceVars, tableVars
<1>13. CASE UNCHANGED vars
  BY <1>13 DEF vars, sourceVars, tableVars, runVars
<1>. QED
  BY <1>1, <1>2, <1>3, <1>4, <1>5, <1>6, <1>7, <1>8, <1>9, <1>10, <1>11, <1>12, <1>13 DEF Next, RunOnce
-----------------------------------------------------------------------------
(* Withdrawn events leave the aggregates.                                  *)

\* The events of the first n mutations.
Passed(n) == {mutations[m] : m \in 1..n}

\* A withdrawn event does not come back, and an aggregate that counts a row is found by
\* its id.
Findable ==
    /\ \A r \in visible : r.id \notin withdrawn
    /\ \A m \in 1..Len(mutations) : mutations[m] \in withdrawn
    /\ \A r \in SourceRows : agg[r.key].count[r] > 0 => r.id <= agg[r.key].max

\* Up to upTo the rebuild has taken the events out of the keys it is done with, and
\* out of what it is about to write; no batch holds one up to reorgPoint.
Removing ==
    /\ pc = "rebuild" => reorgPoint <= upTo
    /\ \A r \in SourceRows :
          /\ pc = "rebuild" /\ r.id \in Passed(upTo) /\ r.key \notin keys => agg[r.key].count[r] = 0
          /\ pc \in {"count", "upsert"} /\ r.id \in Passed(reorgPoint) => r \notin batch
    /\ \A b \in rebuilt :
          /\ pc = "rebuild" /\ b.key \in keys
          /\ \A r \in SourceRows : /\ r.id \in Passed(upTo) => b.new.count[r] = 0
                                   /\ b.new.count[r] > 0 => r.id <= b.new.max

RemovedInv == TypeOK /\ Findable /\ Removing /\ WithdrawnRemoved

LEMMA RemovedInit == Init => RemovedInv
<1>. SUFFICES ASSUME Init PROVE RemovedInv
  OBVIOUS
<1>1. \A r \in SourceRows : agg[r.key].count[r] = 0
  BY DEF Init, NoAggregate, Keys
<1>. QED  BY <1>1, RollupTypeInit DEF Init, RemovedInv, Findable, Removing, WithdrawnRemoved, Passed

\* Without a new mutation the same events are passed; one more changes none of them.
LEMMA PassedStays ==
    ASSUME TypeOK, NEW n \in 0..Len(mutations),
           mutations' = mutations \/ \E i \in Ids : mutations' = Append(mutations, i)
    PROVE  {mutations'[m] : m \in 1..n} = Passed(n)
<1>1. mutations \in Seq(Ids) /\ n \in Nat /\ n <= Len(mutations) /\ Len(mutations) \in Nat
  <2>1. mutations \in Seq(Ids)
    BY DEF TypeOK
  <2>. QED  BY <2>1
<1>2. \A m \in 1..n : mutations'[m] = mutations[m]
  <2>1. CASE mutations' = mutations
    BY <2>1
  <2>2. CASE \E i \in Ids : mutations' = Append(mutations, i)
    <3>1. PICK i \in Ids : mutations' = Append(mutations, i)
      BY <2>2
    <3>2. \A m \in 1..Len(mutations) : Append(mutations, i)[m] = mutations[m]
      BY <1>1
    <3>. QED  BY <1>1, <3>1, <3>2
  <2>. QED  BY <2>1, <2>2
<1>. QED  BY <1>2 DEF Passed

LEMMA FindableStep == RemovedInv /\ [Next]_vars => Findable'
<1>. SUFFICES ASSUME RemovedInv, [Next]_vars PROVE Findable'
  OBVIOUS
<1>. USE DEF RemovedInv, Findable
<1>0. \A r \in SourceRows : r.key \in Keys /\ r.id \in Nat
  BY DEF Keys
<1>1. ASSUME NEW r \in SourceRows, Appear(r) PROVE Findable'
  BY <1>1 DEF Appear, tableVars
<1>2. ASSUME NEW i \in Ids, Withdraw(i) PROVE Findable'
  BY <1>2 DEF Withdraw, tableVars
<1>3. ASSUME NEW i \in Ids, RecordMutation(i) PROVE Findable'
  <2>1. \A m \in 1..Len(mutations') : mutations'[m] \in withdrawn
    BY <1>3 DEF RecordMutation, TypeOK
  <2>. QED  BY <1>3, <2>1 DEF RecordMutation, tableVars
<1>4. CASE Replace
  <2>1. PICK b \in rebuilt : agg' = [agg EXCEPT ![b.key] = b.new]
    BY <1>4 DEF Replace
  <2>. QED  BY <1>0, <1>4, <2>1 DEF Replace, sourceVars, Removing, TypeOK
<1>5. CASE Upsert
  <2>1. PICK k \in keys : agg' = [agg EXCEPT ![k] = Added(k)]
    BY <1>5, UpsertWrites
  <2>2. k \in Keys /\ UNCHANGED <<visible, withdrawn, mutations>>
    BY <1>5 DEF TypeOK, Upsert, sourceVars
  <2>3. ASSUME NEW r \in SourceRows, agg'[r.key].count[r] > 0 PROVE r.id <= agg'[r.key].max
    <3>1. CASE r.key # k
      BY <1>0, <2>1, <2>2, <2>3, <3>1 DEF TypeOK
    <3>2. CASE r.key = k
      <4>1. agg'[k] = Added(k) /\ agg[k] \in Aggregate /\ Added(k) \in Aggregate /\ Added(k).max >= agg[k].max
        BY <2>1, <2>2, AddedType DEF TypeOK
      <4>2. Added(k).count[r] = agg[k].count[r] + IF r \in batch /\ r.key = k THEN 1 ELSE 0
        BY DEF Added
      <4>3. CASE r \in batch
        BY <2>2, <3>2, <4>1, <4>3, AddedType
      <4>4. CASE r \notin batch
        <5>1. agg[k].count[r] > 0
          BY <2>3, <3>2, <4>1, <4>2, <4>4 DEF Aggregate
        <5>2. r.id <= agg[k].max /\ agg[k].max \in Nat /\ Added(k).max \in Nat
          <6>1. r.id <= agg[k].max
            BY <3>2, <5>1
          <6>2. \A a \in Aggregate : a.max \in Nat
            BY DEF Aggregate, Ids
          <6>. QED  BY <4>1, <6>1, <6>2
        <5>. QED  BY <1>0, <3>2, <4>1, <5>2
      <4>. QED  BY <4>3, <4>4
    <3>. QED  BY <3>1, <3>2
  <2>. QED  BY <2>2, <2>3
<1>6. CASE UNCHANGED <<visible, withdrawn, mutations, agg>>
  BY <1>6
<1>. QED
  BY <1>1, <1>2, <1>3, <1>4, <1>5, <1>6
     DEF Next, RunOnce, StartRun, Rebuild, RebuildDone, Fetch, CountDistinct, Advance, Fail, sourceVars,
         tableVars, vars

LEMMA RemovingStep == RemovedInv /\ [Next]_vars => Removing'
<1>. SUFFICES ASSUME RemovedInv, [Next]_vars PROVE Removing'
  OBVIOUS
<1>. USE DEF RemovedInv, Removing
<1>0. /\ reorgPoint \in Nat /\ upTo \in Nat /\ Len(mutations) \in Nat
      /\ reorgPoint \in 0..Len(mutations) /\ upTo \in 0..Len(mutations)
      /\ \A r \in SourceRows : r.key \in Keys /\ r.id \in Nat
  BY DEF TypeOK, Keys
<1>p. ASSUME NEW n \in 0..Len(mutations), mutations' = mutations \/ \E i \in Ids : mutations' = Append(mutations, i)
      PROVE  {mutations'[m] : m \in 1..n} = Passed(n)
  BY <1>p, PassedStays
<1>w. ASSUME NEW n \in 0..Len(mutations), NEW r \in visible PROVE r.id \notin Passed(n)
  BY <1>0, <1>w DEF Findable, Passed
<1>1. ASSUME NEW r \in SourceRows, Appear(r) PROVE Removing'
  BY <1>1 DEF Appear, tableVars, runVars, Passed
<1>2. ASSUME NEW i \in Ids, Withdraw(i) PROVE Removing'
  BY <1>2 DEF Withdraw, tableVars, runVars, Passed
<1>3. ASSUME NEW i \in Ids, RecordMutation(i) PROVE Removing'
  <2>1. UNCHANGED <<reorgPoint, upTo, pc, keys, agg, batch, rebuilt>>
    BY <1>3 DEF RecordMutation, tableVars, runVars
  <2>2. mutations' = Append(mutations, i)
    BY <1>3 DEF RecordMutation
  <2>3. Passed(upTo)' = Passed(upTo) /\ Passed(reorgPoint)' = Passed(reorgPoint)
    BY <1>0, <1>p, <2>1, <2>2 DEF Passed
  <2>. QED  BY <2>1, <2>3
<1>4. CASE StartRun
  <2>1. /\ upTo' = Len(mutations) /\ UNCHANGED <<visible, mutations, agg, reorgPoint, rebuilt, batch>>
        /\ pc' \in {"fetch", "rebuild"} /\ pc = "idle"
        /\ keys' = UNION {CandidateKeys(mutations[m]) : m \in (reorgPoint + 1)..Len(mutations)}
    BY <1>4 DEF StartRun, sourceVars, tableVars
  <2>2. ASSUME NEW r \in SourceRows, r.id \in Passed(upTo)', r.key \notin keys' PROVE agg[r.key].count[r] = 0
    <3>1. PICK m \in 1..Len(mutations) : r.id = mutations[m]
      BY <2>1, <2>2 DEF Passed
    <3>2. CASE m \in 1..reorgPoint
      BY <3>1, <3>2 DEF WithdrawnRemoved
    <3>3. CASE m \in (reorgPoint + 1)..Len(mutations)
      <4>1. r.key \notin CandidateKeys(r.id)
        BY <2>1, <2>2, <3>1, <3>3
      <4>2. agg[r.key].max \in Nat /\ agg[r.key].count[r] \in Nat
        <5>1. agg[r.key] \in Aggregate
          BY <1>0 DEF TypeOK
        <5>2. \A a \in Aggregate : a.max \in Nat /\ a.count \in [SourceRows -> Nat]
          BY DEF Aggregate, Ids
        <5>. QED  BY <5>1, <5>2
      <4>3. agg[r.key].count[r] > 0 => r.id <= agg[r.key].max
        BY DEF Findable
      <4>4. agg[r.key].count[r] > 0 => agg[r.key] # NoAggregate
        BY DEF NoAggregate
      <4>. QED  BY <1>0, <4>1, <4>2, <4>3, <4>4 DEF CandidateKeys
    <3>. QED  BY <1>0, <3>2, <3>3
  <2>. QED  BY <1>0, <2>1, <2>2
<1>5. CASE Rebuild
  <2>1. PICK k \in keys :
           rebuilt' = {[key |-> k, new |-> RebuiltFrom({r \in visible : r.key = k})]}
    BY <1>5 DEF Rebuild
  <2>2. /\ pc = "rebuild" /\ UNCHANGED <<visible, mutations, agg, reorgPoint, upTo, pc, keys, batch>>
    BY <1>5 DEF Rebuild, sourceVars, tableVars
  <2>. DEFINE S == {r \in visible : r.key = k}
  <2>3. S \in SUBSET SourceRows
    BY DEF TypeOK
  <2>4. ASSUME NEW r \in SourceRows
        PROVE  /\ r.id \in Passed(upTo) => RebuiltFrom(S).count[r] = 0
               /\ RebuiltFrom(S).count[r] > 0 => r.id <= RebuiltFrom(S).max
    <3>1. RebuiltFrom(S).count[r] = (IF r \in S THEN 1 ELSE 0) /\ RebuiltFrom(S).max = MaxId(S)
      BY DEF RebuiltFrom
    <3>2. r \in S => r.id \notin Passed(upTo) /\ r.id <= MaxId(S)
      BY <1>0, <1>w, <2>3, MaxIdOf
    <3>. HIDE DEF S
    <3>. QED  BY <3>1, <3>2
  <2>5. PICK new : new = RebuiltFrom(S)
    OBVIOUS
  <2>6. rebuilt' = {[key |-> k, new |-> new]}
    BY <2>1, <2>5
  <2>7. Passed(upTo)' = Passed(upTo) /\ Passed(reorgPoint)' = Passed(reorgPoint)
    BY <2>2 DEF Passed
  <2>. HIDE DEF S
  <2>. QED  BY <2>2, <2>4, <2>5, <2>6, <2>7
<1>6. CASE Replace
  <2>1. PICK b \in rebuilt : agg' = [agg EXCEPT ![b.key] = b.new] /\ keys' = keys \ {b.key}
    BY <1>6 DEF Replace
  <2>2. /\ pc = "rebuild" /\ rebuilt' = {} /\ UNCHANGED <<visible, mutations, reorgPoint, upTo, pc, batch>>
    BY <1>6 DEF Replace, sourceVars
  <2>3. \A k \in Keys : agg'[k] = IF k = b.key THEN b.new ELSE agg[k]
    BY <2>1 DEF TypeOK
  <2>7. Passed(upTo)' = Passed(upTo) /\ Passed(reorgPoint)' = Passed(reorgPoint)
    BY <2>2 DEF Passed
  <2>. QED  BY <1>0, <2>1, <2>2, <2>3, <2>7
<1>7. CASE RebuildDone
  BY <1>7 DEF RebuildDone
<1>8. CASE Fetch
  <2>1. batch' \subseteq visible /\ pc = "fetch" /\ pc' \in {"idle", "count"}
        /\ UNCHANGED <<visible, mutations, agg, reorgPoint, upTo, keys, rebuilt>>
    BY <1>8 DEF Fetch, Behind, sourceVars, tableVars
  <2>2. Passed(upTo)' = Passed(upTo) /\ Passed(reorgPoint)' = Passed(reorgPoint)
    BY <2>1 DEF Passed
  <2>. QED  BY <1>0, <1>w, <2>1, <2>2
<1>9. CASE CountDistinct \/ Upsert
  <2>1. pc \in {"count", "upsert"} /\ pc' = "upsert" /\ UNCHANGED <<mutations, reorgPoint, upTo, batch, rebuilt>>
    BY <1>9 DEF CountDistinct, Upsert, sourceVars, tableVars
  <2>2. Passed(upTo)' = Passed(upTo) /\ Passed(reorgPoint)' = Passed(reorgPoint)
    BY <2>1 DEF Passed
  <2>. QED  BY <2>1, <2>2
<1>10. CASE Advance \/ Fail
  BY <1>10 DEF Advance, Fail
<1>11. CASE UNCHANGED vars
  BY <1>11 DEF vars, sourceVars, tableVars, runVars, Passed
<1>. QED
  BY <1>1, <1>2, <1>3, <1>4, <1>5, <1>6, <1>7, <1>8, <1>9, <1>10, <1>11 DEF Next, RunOnce

LEMMA RemovedStep == RemovedInv /\ [Next]_vars => WithdrawnRemoved'
<1>. SUFFICES ASSUME RemovedInv, [Next]_vars PROVE WithdrawnRemoved'
  OBVIOUS
<1>. USE DEF RemovedInv
<1>0. /\ reorgPoint \in Nat /\ upTo \in Nat /\ Len(mutations) \in Nat
      /\ reorgPoint \in 0..Len(mutations) /\ upTo \in 0..Len(mutations)
      /\ \A r \in SourceRows : r.key \in Keys
  BY DEF TypeOK, Keys
<1>1. CASE UNCHANGED <<agg, reorgPoint>> /\ (mutations' = mutations \/ \E i \in Ids : mutations' = Append(mutations, i))
  <2>1. {mutations'[m] : m \in 1..reorgPoint} = Passed(reorgPoint)
    BY <1>0, <1>1, PassedStays
  <2>. QED  BY <1>1, <2>1 DEF WithdrawnRemoved, Passed
<1>2. CASE Replace
  <2>1. PICK b \in rebuilt : agg' = [agg EXCEPT ![b.key] = b.new]
    BY <1>2 DEF Replace
  <2>2. UNCHANGED <<mutations, reorgPoint>> /\ pc = "rebuild" /\ reorgPoint <= upTo
    BY <1>2 DEF Replace, sourceVars, Removing
  <2>3. \A k \in Keys : agg'[k] = IF k = b.key THEN b.new ELSE agg[k]
    BY <2>1 DEF TypeOK
  <2>4. Passed(reorgPoint) \subseteq Passed(upTo)
    BY <1>0, <2>2 DEF Passed
  <2>. QED  BY <1>0, <2>2, <2>3, <2>4 DEF WithdrawnRemoved, Removing, Passed
<1>3. CASE RebuildDone
  <2>1. pc = "rebuild" /\ keys = {} /\ agg' = agg /\ mutations' = mutations /\ reorgPoint' \in {reorgPoint, upTo}
    BY <1>0, <1>3, MaxOfPair DEF RebuildDone, sourceVars
  <2>. QED  BY <2>1 DEF WithdrawnRemoved, Removing, Passed
<1>4. CASE Upsert
  <2>1. PICK k \in keys : agg' = [agg EXCEPT ![k] = Added(k)]
    BY <1>4, UpsertWrites
  <2>2. UNCHANGED <<mutations, reorgPoint>> /\ pc = "upsert"
    BY <1>4 DEF Upsert, sourceVars
  <2>3. \A q \in Keys : agg'[q] = IF q = k THEN Added(k) ELSE agg[q]
    BY <2>1 DEF TypeOK
  <2>4. \A r \in SourceRows : r \notin batch => Added(k).count[r] = agg[k].count[r] + 0
    BY DEF Added
  <2>5. \A r \in SourceRows : r.id \in Passed(reorgPoint) => r \notin batch /\ agg[r.key].count[r] = 0
    BY <2>2 DEF Removing, WithdrawnRemoved, Passed
  <2>. QED  BY <1>0, <2>2, <2>3, <2>4, <2>5 DEF WithdrawnRemoved, Passed
<1>. QED
  BY <1>1, <1>2, <1>3, <1>4
     DEF Next, RunOnce, Appear, Withdraw, RecordMutation, StartRun, Rebuild, Fetch, CountDistinct, Advance, Fail,
         sourceVars, tableVars, vars

\* Once the reorg checkpoint has passed the mutation of an event, no aggregate counts
\* it (process_reorg_mutations), in any order of withdrawals, mutations and runs, for
\* any failure between two statements: the rebuild finds each aggregate that has it by
\* source_max_event_id, and no batch fetched later can bring it back.
THEOREM WithdrawnLeave == Spec => []WithdrawnRemoved
<1>1. RemovedInv /\ [Next]_vars => RemovedInv'
  BY RollupTypeStep, FindableStep, RemovingStep, RemovedStep DEF RemovedInv
<1>2. RemovedInv => WithdrawnRemoved
  BY DEF RemovedInv
<1>. QED  BY RemovedInit, <1>1, <1>2, PTL DEF Spec

-----------------------------------------------------------------------------
(* Exact aggregates in an undisturbed life.                                *)

Undisturbed == faults = 0 /\ withdrawn = {} /\ mutations = <<>>

\* The visible rows of a key up to an id, and the parties they name.
RowsTo(k, i) == {r \in visible : r.key = k /\ r.id <= i}
Known(k, i)  == {r.party : r \in RowsTo(k, i)}

\* The id up to which the aggregate of a key has the rows.
AddedTo(k) == IF pc = "upsert" /\ k \notin keys THEN lastId ELSE checkpoint

\* Each aggregate is that of its rows up to the checkpoint, or up to the end of the
\* batch once it is upserted; news has the parties of the batch that no earlier row of
\* the key names.
Exact ==
    /\ pc # "rebuild"
    /\ pc \in {"count", "upsert"} => \A r \in batch : r \in visible /\ r.id > checkpoint
    /\ \A k \in Keys :
          /\ agg[k] = RebuiltFrom(RowsTo(k, AddedTo(k)))
          /\ pc = "upsert" =>
                {n \in news : n[1] = k} = {<<k, p>> : p \in Known(k, lastId) \ Known(k, checkpoint)}

ExactInv == IInv /\ TypeOK /\ (Undisturbed => Exact)

LEMMA ExactInit == Init => ExactInv
<1>. SUFFICES ASSUME Init PROVE ExactInv
  OBVIOUS
<1>1. \A k, i : RowsTo(k, i) = {}
  BY DEF Init, RowsTo
<1>2. RebuiltFrom({}) = NoAggregate
  <2>1. Cardinality({r.party : r \in {}}) = 0
    BY FS_EmptySet
  <2>2. MaxId({}) = 0
    BY MaxIdOf, MaxOfPair DEF MaxId
  <2>. QED  BY <2>1, <2>2 DEF RebuiltFrom, NoAggregate
<1>. QED  BY <1>1, <1>2, InitIInv, RollupTypeInit DEF Init, ExactInv, Exact

\* Rows that appear lie above every complete id.
LEMMA RowsToStay ==
    ASSUME UNCHANGED visible \/ \E r \in SourceRows : Appear(r), NEW k, NEW i, Complete(i)
    PROVE  \A s : s \in RowsTo(k, i) <=> s \in visible' /\ s.key = k /\ s.id <= i
<1>1. CASE UNCHANGED visible
  BY <1>1 DEF RowsTo
<1>2. ASSUME NEW r \in SourceRows, Appear(r)
      PROVE  \A s : s \in RowsTo(k, i) <=> s \in visible' /\ s.key = k /\ s.id <= i
  <2>1. ~(r.id <= i) /\ visible' = visible \cup {r}
    BY <1>2 DEF Appear, Complete, Settled
  <2>. QED  BY <2>1 DEF RowsTo
<1>. QED  BY <1>1, <1>2

\* In an upsert the batch is what is visible between the checkpoint and its last row.
LEMMA BatchIs ==
    ASSUME IInv, TypeOK, Exact, pc = "upsert"
    PROVE  /\ Complete(lastId) /\ checkpoint < lastId /\ lastId \in Nat /\ checkpoint \in Nat
           /\ \A r \in visible : r \in batch <=> r.id > checkpoint /\ r.id <= lastId
           /\ \A r \in batch : r \in visible
<1>1. PICK last \in batch : EndsBatch(last) /\ lastId = last.id
  BY DEF IInv, AddedInv
<1>2. last \in SourceRows /\ last.id \in Nat /\ checkpoint \in Nat /\ last.id > checkpoint
  BY <1>1 DEF TypeOK, Ids, Exact
<1>3. \A r \in visible : r.id > checkpoint /\ r.id <= last.id => r \in batch
  BY <1>1 DEF IInv, BatchInv
<1>4. Complete(last.id)
  BY <1>1 DEF IInv, BatchInv
<1>. QED  BY <1>1, <1>2, <1>3, <1>4 DEF EndsBatch, Exact

\* The loop over the batch finds the parties that are new to each key: an earlier row of
\* a party is in the batch or behind the checkpoint, both complete.
LEMMA CountedNews ==
    ASSUME IInv, TypeOK, Undisturbed, Exact, CountDistinct, NEW k \in Keys
    PROVE  {n \in news' : n[1] = k} = {<<k, p>> : p \in Known(k, lastId') \ Known(k, checkpoint)}
<1>1. PICK last \in batch : EndsBatch(last) /\ lastId' = last.id
  BY DEF CountDistinct
<1>2. /\ pc = "count" /\ last \in SourceRows /\ last.id \in Nat /\ checkpoint \in Nat
      /\ visible \subseteq SourceRows /\ withdrawn = {} /\ \A r \in visible : r.id \in Nat
      /\ \A r \in batch : r \in visible /\ r.id > checkpoint /\ r.id <= last.id
  BY <1>1 DEF TypeOK, Ids, Exact, CountDistinct, Undisturbed, EndsBatch
<1>3. \A r \in visible : r.id > checkpoint /\ r.id <= last.id => r \in batch
  BY <1>1, <1>2 DEF IInv, BatchInv
<1>4. \A r \in batch : Complete(r.id)
  BY <1>2 DEF IInv, BatchInv
<1>5. ASSUME NEW b \in batch, b.key = k, ~PriorSeen(b)
      PROVE  b.party \in Known(k, last.id) \ Known(k, checkpoint)
  <2>1. b \in RowsTo(k, last.id)
    BY <1>2, <1>5 DEF RowsTo
  <2>2. ASSUME NEW s \in RowsTo(k, checkpoint), s.party = b.party PROVE FALSE
    <3>1. s \in SourceRows /\ s.id < b.id /\ s.id \notin withdrawn /\ s.key = b.key
      BY <1>2, <1>5 DEF RowsTo
    <3>. QED  BY <1>5, <2>2, <3>1 DEF PriorSeen
  <2>. QED  BY <2>1, <2>2 DEF Known
<1>6. ASSUME NEW p \in Known(k, last.id) \ Known(k, checkpoint)
      PROVE  \E b \in batch : /\ b.key = k /\ b.party = p /\ ~PriorSeen(b)
                              /\ \A s \in batch : s.key = b.key /\ s.party = b.party => b.id <= s.id
  <2>. DEFINE T == {r.id : r \in {s \in RowsTo(k, last.id) : s.party = p}}
  <2>1. T \in SUBSET Nat /\ T # {}
    BY <1>2 DEF Known, RowsTo
  <2>2. PICK t \in T : \A u \in T : t <= u
    BY <2>1, LeastOf
  <2>3. PICK b \in RowsTo(k, last.id) : b.party = p /\ b.id = t
    BY <2>2
  <2>4. b \in visible /\ b.key = k /\ b.id <= last.id /\ b \in batch
    BY <1>2, <1>3, <2>3 DEF Known, RowsTo
  <2>5. \A s \in visible : s.key = k /\ s.party = p /\ s.id <= last.id => b.id <= s.id
    BY <2>2, <2>3 DEF RowsTo
  <2>6. ~PriorSeen(b)
    <3>. SUFFICES ASSUME NEW s \in SourceRows, s.id < b.id, s.key = b.key, s.party = b.party PROVE FALSE
      BY DEF PriorSeen
    <3>1. s \in visible
      BY <1>2, <1>4, <2>4 DEF Complete, Settled
    <3>. QED  BY <1>2, <2>3, <2>4, <2>5, <3>1
  <2>7. \A s \in batch : s.key = b.key /\ s.party = b.party => b.id <= s.id
    BY <1>2, <2>3, <2>4, <2>5
  <2>. QED  BY <2>3, <2>4, <2>6, <2>7
<1>7. news' = {<<r.key, r.party>> :
                 r \in {b \in batch :
                          /\ ~PriorSeen(b)
                          /\ \A s \in batch :
                                s.key = b.key /\ s.party = b.party => b.id <= s.id}}
  BY DEF CountDistinct
<1>8. ASSUME NEW n PROVE n \in {m \in news' : m[1] = k} <=> \E p \in Known(k, last.id) \ Known(k, checkpoint) : n = <<k, p>>
  <2>1. ASSUME n \in news', n[1] = k PROVE \E p \in Known(k, last.id) \ Known(k, checkpoint) : n = <<k, p>>
    <3>1. PICK b \in batch : ~PriorSeen(b) /\ n = <<b.key, b.party>>
      BY <1>7, <2>1
    <3>2. b.key = k
      BY <2>1, <3>1
    <3>. QED  BY <1>5, <3>1, <3>2
  <2>2. ASSUME NEW p \in Known(k, last.id) \ Known(k, checkpoint), n = <<k, p>> PROVE n \in news' /\ n[1] = k
    BY <1>6, <1>7, <2>2
  <2>. QED  BY <2>1, <2>2
<1>. QED  BY <1>1, <1>8

\* An upsert adds the rows between the checkpoint and the end of the batch.
LEMMA AddedIsRebuilt ==
    ASSUME IInv, TypeOK, Exact, pc = "upsert", NEW k \in keys
    PROVE  Added(k) = RebuiltFrom(RowsTo(k, lastId))
<1>0. k \in Keys /\ visible \in SUBSET SourceRows /\ \A r \in visible : r.id \in Nat
  BY DEF TypeOK
<1>. DEFINE old  == RowsTo(k, checkpoint)
            mine == {r \in batch : r.key = k}
            all  == RowsTo(k, lastId)
            kp   == Known(k, checkpoint)
            kl   == Known(k, lastId)
            N    == {n \in news : n[1] = k}
<1>1. agg[k] = RebuiltFrom(old) /\ N = {<<k, p>> : p \in kl \ kp}
  BY <1>0 DEF Exact, AddedTo
<1>2. old \in SUBSET SourceRows /\ mine \in SUBSET SourceRows /\ all \in SUBSET SourceRows
  BY <1>0, BatchIs DEF RowsTo
<1>3. all = old \cup mine /\ old \cap mine = {}
  BY <1>0, BatchIs DEF RowsTo
<1>4. kp = {r.party : r \in old} /\ kl = {r.party : r \in all} /\ kp \subseteq kl
  BY <1>3 DEF Known
<1>5. Cardinality(kp) + Cardinality(N) = Cardinality(kl)
  <2>1. IsFiniteSet(kp) /\ IsFiniteSet(kl) /\ Cardinality(kp) \in Nat
    BY <1>2, <1>4, PartiesFinite
  <2>2. PICK f : f = [p \in kl \ kp |-> <<k, p>>]
    OBVIOUS
  <2>3. f \in [kl \ kp -> N] /\ (\A n \in N : \E p \in kl \ kp : n = f[p]) /\ \A p, q \in kl \ kp : f[p] = f[q] => p = q
    BY <1>1, <2>2
  <2>4. PICK D : D = kl \ kp
    OBVIOUS
  <2>5. IsFiniteSet(D) /\ D \cap kp = {} /\ D \cup kp = kl
    BY <1>4, <2>1, <2>4, FS_Subset
  <2>. HIDE DEF N, kl, kp
  <2>6. Cardinality(N) = Cardinality(D)
    BY <2>3, <2>4, <2>5, ValuesFinite
  <2>7. Cardinality(kl) = Cardinality(D) + Cardinality(kp) /\ Cardinality(D) \in Nat
    <3>1. Cardinality(D \cup kp) = Cardinality(D) + Cardinality(kp) - Cardinality(D \cap kp)
      BY <2>1, <2>5, FS_Union
    <3>2. Cardinality(D \cap kp) = 0
      BY <2>5, FS_EmptySet
    <3>3. Cardinality(D) \in Nat
      BY <2>5, FS_CardinalityType
    <3>4. Cardinality(kl) = Cardinality(D) + Cardinality(kp) - 0
      BY <2>5, <3>1, <3>2
    <3>. QED  BY <2>1, <3>3, <3>4
  <2>. QED  BY <2>1, <2>6, <2>7
<1>6. LargerId(MaxId(old), MaxId(mine)) = MaxId(all)
  <2>. HIDE DEF old, mine, all
  <2>1. /\ MaxId(old) \in Nat /\ MaxId(mine) \in Nat /\ MaxId(all) \in Nat
        /\ \A r \in old : r.id <= MaxId(old)
        /\ \A r \in mine : r.id <= MaxId(mine)
        /\ \A r \in all : r.id <= MaxId(all)
    BY <1>2, MaxIdOf
  <2>2. /\ MaxId(old) = 0 \/ \E r \in old : r.id = MaxId(old)
        /\ MaxId(mine) = 0 \/ \E r \in mine : r.id = MaxId(mine)
        /\ MaxId(all) = 0 \/ \E r \in all : r.id = MaxId(all)
    BY <1>2, MaxIdOf
  <2>3. MaxId(old) <= MaxId(all) /\ MaxId(mine) <= MaxId(all)
    BY <1>3, <2>1, <2>2
  <2>4. MaxId(all) <= MaxId(old) \/ MaxId(all) <= MaxId(mine)
    <3>1. CASE MaxId(all) = 0
      BY <2>1, <3>1
    <3>2. ASSUME NEW r \in all, r.id = MaxId(all) PROVE MaxId(all) <= MaxId(old) \/ MaxId(all) <= MaxId(mine)
      BY <1>3, <2>1, <3>2
    <3>. QED  BY <2>2, <3>1, <3>2
  <2>. QED  BY <2>1, <2>3, <2>4, MaxOfPair DEF LargerId
<1>7. \A r \in SourceRows : (IF r \in old THEN 1 ELSE 0) + (IF r \in batch /\ r.key = k THEN 1 ELSE 0) = IF r \in all THEN 1 ELSE 0
  <2>1. \A r : r \in batch /\ r.key = k <=> r \in mine
    OBVIOUS
  <2>. HIDE DEF old, mine, all
  <2>. QED  BY <1>3, <2>1
<1>8. /\ agg[k].count = [r \in SourceRows |-> IF r \in old THEN 1 ELSE 0]
      /\ agg[k].distinct = Cardinality(kp) /\ agg[k].max = MaxId(old)
  BY <1>1, <1>4 DEF RebuiltFrom
<1>9. RebuiltFrom(all) = [count |-> [r \in SourceRows |-> IF r \in all THEN 1 ELSE 0],
                          distinct |-> Cardinality(kl), max |-> MaxId(all)]
  BY <1>4 DEF RebuiltFrom
<1>10. Added(k) = [count |-> [r \in SourceRows |-> agg[k].count[r] + IF r \in batch /\ r.key = k THEN 1 ELSE 0],
                   distinct |-> agg[k].distinct + Cardinality(N),
                   max |-> LargerId(agg[k].max, MaxId(mine))]
  BY DEF Added
<1>11. [r \in SourceRows |-> agg[k].count[r] + IF r \in batch /\ r.key = k THEN 1 ELSE 0]
         = [r \in SourceRows |-> IF r \in all THEN 1 ELSE 0]
  <2>. HIDE DEF old, all
  <2>. QED  BY <1>7, <1>8
<1>. HIDE DEF old, mine, all, kp, kl, N
<1>12. Added(k) = RebuiltFrom(all)
  BY <1>5, <1>6, <1>8, <1>9, <1>10, <1>11
<1>. QED  BY <1>12 DEF all

LEMMA ExactStep ==
    ASSUME ExactInv, [Next]_vars, IInv', TypeOK'
    PROVE  (Undisturbed => Exact)'
<1>. SUFFICES ASSUME Undisturbed' PROVE Exact'
  OBVIOUS
<1>. USE DEF ExactInv, Undisturbed
<1>0. /\ faults \in Nat /\ checkpoint \in Nat /\ visible \in SUBSET SourceRows /\ Len(mutations) \in Nat
      /\ keys \subseteq Keys /\ reorgPoint \in 0..Len(mutations) /\ upTo \in 0..Len(mutations)
      /\ \A r \in visible : r.id \in Nat /\ r.key \in Keys
  BY DEF TypeOK, Ids, Keys
<1>u. Undisturbed
  BY <1>0 DEF Next, RunOnce, Appear, Withdraw, RecordMutation, StartRun, Rebuild, Replace, RebuildDone, Fetch,
              CountDistinct, Upsert, Advance, Fail, sourceVars, vars, TypeOK
<1>e. Exact
  BY <1>u
<1>c. Complete(checkpoint) /\ (pc = "upsert" => Complete(lastId))
  BY <1>e, BatchIs DEF IInv, OrderInv
<1>k. \A k \in Keys : Complete(AddedTo(k))
  BY <1>c DEF AddedTo
<1>1. CASE UNCHANGED <<visible, withdrawn, mutations, checkpoint, agg>> /\ pc' \in {"idle", "fetch"} /\ pc \in {"idle", "fetch", "count"}
  BY <1>e, <1>1 DEF Exact, RowsTo, AddedTo
<1>2. ASSUME UNCHANGED visible \/ \E r \in SourceRows : Appear(r),
             UNCHANGED <<checkpoint, agg, pc, keys, lastId, batch, news>>, visible \subseteq visible'
      PROVE  Exact'
  <2>1. \A k, i, s : Complete(i) => (s \in RowsTo(k, i) <=> s \in visible' /\ s.key = k /\ s.id <= i)
    BY <1>2, RowsToStay
  <2>2. \A k \in Keys : RowsTo(k, AddedTo(k))' = RowsTo(k, AddedTo(k))
    <3>. SUFFICES ASSUME NEW k \in Keys, NEW s PROVE s \in RowsTo(k, AddedTo(k))' <=> s \in RowsTo(k, AddedTo(k))
      BY DEF RowsTo
    <3>1. AddedTo(k)' = AddedTo(k) /\ Complete(AddedTo(k))
      BY <1>2, <1>k DEF AddedTo
    <3>2. s \in RowsTo(k, AddedTo(k))' <=> s \in visible' /\ s.key = k /\ s.id <= AddedTo(k)'
      BY DEF RowsTo
    <3>. QED  BY <2>1, <3>1, <3>2
  <2>3. \A k : Known(k, checkpoint)' = Known(k, checkpoint)
    <3>1. \A k : RowsTo(k, checkpoint)' = RowsTo(k, checkpoint)
      <4>1. ASSUME NEW k, NEW s, TRUE PROVE s \in RowsTo(k, checkpoint)' <=> s \in RowsTo(k, checkpoint)
        <5>1. s \in RowsTo(k, checkpoint)' <=> s \in visible' /\ s.key = k /\ s.id <= checkpoint'
          BY DEF RowsTo
        <5>. QED  BY <1>2, <1>c, <2>1, <4>1, <5>1
      <4>. QED  BY <4>1 DEF RowsTo
    <3>. QED  BY <3>1 DEF Known
  <2>4. pc = "upsert" => \A k : Known(k, lastId)' = Known(k, lastId)
    <3>1. pc = "upsert" => \A k : RowsTo(k, lastId)' = RowsTo(k, lastId)
      <4>1. ASSUME NEW k, NEW s, pc = "upsert" PROVE s \in RowsTo(k, lastId)' <=> s \in RowsTo(k, lastId)
        <5>1. s \in RowsTo(k, lastId)' <=> s \in visible' /\ s.key = k /\ s.id <= lastId'
          BY DEF RowsTo
        <5>. QED  BY <1>2, <1>c, <2>1, <4>1, <5>1
      <4>. QED  BY <4>1 DEF RowsTo
    <3>. QED  BY <3>1 DEF Known
  <2>5. \A k \in Keys : RebuiltFrom(RowsTo(k, AddedTo(k)))' = RebuiltFrom(RowsTo(k, AddedTo(k)))
    BY <2>2 DEF RebuiltFrom, MaxId
  <2>. QED  BY <1>2, <1>e, <2>3, <2>4, <2>5 DEF Exact
<1>3. ASSUME NEW r \in SourceRows, Appear(r) PROVE Exact'
  BY <1>2, <1>3 DEF Appear, tableVars, runVars
<1>4. CASE StartRun
  <2>1. upTo' = reorgPoint
    <3>1. Len(mutations) = 0
      BY <1>u
    <3>. QED  BY <1>0, <1>4, <3>1 DEF StartRun
  <2>. QED  BY <1>1, <1>4, <2>1 DEF StartRun, sourceVars, tableVars
<1>5. CASE Rebuild \/ Replace \/ RebuildDone
  BY <1>5, <1>e DEF Exact, Rebuild, Replace, RebuildDone
<1>6. CASE Fetch
  <2>1. /\ \A r \in batch' : r \in visible /\ r.id > checkpoint
        /\ UNCHANGED <<visible, checkpoint, agg>> /\ pc = "fetch" /\ pc' \in {"idle", "count"}
    BY <1>6 DEF Fetch, Behind, sourceVars, tableVars
  <2>. QED  BY <1>e, <2>1 DEF Exact, RowsTo, AddedTo
<1>7. CASE CountDistinct
  <2>1. /\ UNCHANGED <<visible, checkpoint, agg, batch>> /\ pc = "count" /\ pc' = "upsert"
        /\ keys' = {r.key : r \in batch}
    BY <1>7 DEF CountDistinct, sourceVars, tableVars
  <2>2. ASSUME NEW k \in Keys PROVE agg'[k] = RebuiltFrom(RowsTo(k, AddedTo(k)))'
    <3>1. ASSUME k \notin keys', NEW r \in visible, r.key = k, r.id > checkpoint PROVE ~(r.id <= lastId')
      <4>1. PICK last \in batch : EndsBatch(last) /\ lastId' = last.id
        BY <1>7 DEF CountDistinct
      <4>2. r \notin batch
        BY <2>1, <3>1
      <4>. QED  BY <2>1, <3>1, <4>1, <4>2 DEF IInv, BatchInv
    <3>2. checkpoint <= lastId' /\ lastId' \in Nat
      BY <1>0, <1>7, <2>1, <1>e DEF CountDistinct, Exact
    <3>3. ASSUME NEW s PROVE s \in RowsTo(k, AddedTo(k))' <=> s \in RowsTo(k, checkpoint)
      <4>1. s \in RowsTo(k, AddedTo(k))' <=> s \in visible /\ s.key = k /\ s.id <= AddedTo(k)'
        BY <2>1 DEF RowsTo
      <4>2. AddedTo(k)' = IF k \notin keys' THEN lastId' ELSE checkpoint
        BY <2>1 DEF AddedTo
      <4>. QED  BY <1>0, <3>1, <3>2, <4>1, <4>2 DEF RowsTo
    <3>4. RowsTo(k, AddedTo(k))' = RowsTo(k, checkpoint)
      BY <3>3 DEF RowsTo
    <3>5. agg[k] = RebuiltFrom(RowsTo(k, checkpoint))
      BY <1>e, <2>1 DEF Exact, AddedTo
    <3>. QED  BY <2>1, <3>4, <3>5 DEF RebuiltFrom, MaxId
  <2>3. ASSUME NEW k \in Keys
        PROVE  {n \in news' : n[1] = k} = {<<k, p>> : p \in Known(k, lastId)' \ Known(k, checkpoint)'}
    <3>1. Known(k, lastId)' = Known(k, lastId') /\ Known(k, checkpoint)' = Known(k, checkpoint)
      BY <2>1 DEF Known, RowsTo
    <3>. QED  BY <1>7, <1>u, <1>e, <3>1, CountedNews
  <2>. QED  BY <1>e, <2>1, <2>2, <2>3 DEF Exact
<1>8. CASE Upsert
  <2>1. PICK k \in keys : agg' = [agg EXCEPT ![k] = Added(k)] /\ keys' = keys \ {k}
    BY <1>8, UpsertWrites
  <2>2. UNCHANGED <<visible, checkpoint, pc, batch, lastId, news>> /\ pc = "upsert" /\ k \in Keys
    BY <1>0, <1>8, <2>1 DEF Upsert, sourceVars
  <2>3. Added(k) = RebuiltFrom(RowsTo(k, lastId))
    BY <1>e, <2>2, AddedIsRebuilt
  <2>4. ASSUME NEW q \in Keys PROVE agg'[q] = RebuiltFrom(RowsTo(q, AddedTo(q)))'
    <3>1. agg'[q] = RebuiltFrom(RowsTo(q, IF q \notin keys' THEN lastId ELSE checkpoint))
      <4>1. CASE q = k
        BY <2>1, <2>2, <2>3, <4>1 DEF TypeOK
      <4>2. CASE q # k
        <5>1. agg'[q] = agg[q] /\ (q \in keys' <=> q \in keys)
          BY <2>1, <4>2 DEF TypeOK
        <5>. QED  BY <1>e, <2>2, <5>1 DEF Exact, AddedTo
      <4>. QED  BY <4>1, <4>2
    <3>. QED  BY <2>2, <3>1 DEF AddedTo, RowsTo, RebuiltFrom, MaxId
  <2>5. \A q : Known(q, lastId)' = Known(q, lastId) /\ Known(q, checkpoint)' = Known(q, checkpoint)
    BY <2>2 DEF Known, RowsTo
  <2>. QED  BY <1>e, <2>2, <2>4, <2>5 DEF Exact
<1>9. CASE Advance
  <2>1. /\ UNCHANGED <<visible, agg, keys>> /\ pc = "upsert" /\ keys = {} /\ pc' = "idle"
        /\ checkpoint' = Max({checkpoint, lastId})
    BY <1>9 DEF Advance, sourceVars
  <2>2. checkpoint' = lastId
    BY <1>e, <2>1, BatchIs, MaxOfPair
  <2>3. ASSUME NEW k \in Keys PROVE agg'[k] = RebuiltFrom(RowsTo(k, AddedTo(k)))'
    <3>1. AddedTo(k)' = lastId /\ AddedTo(k) = lastId
      BY <2>1, <2>2 DEF AddedTo
    <3>2. RowsTo(k, AddedTo(k))' = RowsTo(k, lastId)
      BY <2>1, <3>1 DEF RowsTo
    <3>3. agg[k] = RebuiltFrom(RowsTo(k, lastId))
      BY <1>e, <3>1 DEF Exact
    <3>. QED  BY <2>1, <3>2, <3>3 DEF RebuiltFrom, MaxId
  <2>. QED  BY <2>1, <2>3 DEF Exact
<1>10. CASE Fail
  BY <1>0, <1>10 DEF Fail
<1>11. CASE \E i \in Ids : Withdraw(i) \/ RecordMutation(i)
  <2>1. \A i \in Ids : Append(mutations, i) # <<>>
    BY DEF TypeOK
  <2>2. mutations' = <<>> /\ withdrawn' = {}
    OBVIOUS
  <2>. QED  BY <1>11, <2>1, <2>2 DEF Withdraw, RecordMutation
<1>12. CASE UNCHANGED vars
  BY <1>2, <1>12 DEF vars, sourceVars, tableVars, runVars
<1>. QED
  BY <1>3, <1>4, <1>5, <1>6, <1>7, <1>8, <1>9, <1>10, <1>11, <1>12 DEF Next, RunOnce

\* With no failed run, withdrawal or mutation so far, every aggregate between two runs
\* is the one a rebuild from the rows behind the checkpoint would give, its distinct
\* counter included (run_once of the four workers and prior_gateway_seen), if rows become
\* finalized and valued in the order of their ids and no event has two of them.
THEOREM UndisturbedIsExact ==
    ASSUME InOrder, UniqueIds
    PROVE  Spec => []ExactWhenUndisturbed
<1>1. ExactInv /\ [Next]_vars => ExactInv'
  <2>. SUFFICES ASSUME ExactInv, [Next]_vars PROVE ExactInv'
    OBVIOUS
  <2>1. IInv'
    BY OrderStep, CountsStep, BatchStep, AddedStep, RebuiltStep, LostStep DEF IInv, ExactInv
  <2>2. TypeOK'
    BY RollupTypeStep DEF ExactInv
  <2>. QED  BY <2>1, <2>2, ExactStep DEF ExactInv
<1>2. ExactInv => ExactWhenUndisturbed
  BY DEF ExactInv, Exact, ExactWhenUndisturbed, Undisturbed, RowsTo, AddedTo
<1>. QED  BY ExactInit, <1>1, <1>2, PTL DEF Spec
=============================================================================
