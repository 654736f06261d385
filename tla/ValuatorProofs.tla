--------------------------- MODULE ValuatorProofs ---------------------------
(* The cursor protocol of the valuator, proved for every set of events.    *)
EXTENDS Valuator, FiniteSetTheorems, TLAPS

USE FeedAssumption, ValuatorAssumption

\* A row set written by a pass or by the seed pass keeps the tables well typed.
LEMMA InsertNewType ==
    ASSUME NEW table \in SUBSET Outcomes, NEW rows \in SUBSET Outcomes
    PROVE  InsertNew(table, rows) \in SUBSET Outcomes
BY DEF InsertNew

\* The count of seeded_event_prices the seed pass compares is a number.
LEMMA SeedCountType ==
    ASSUME NEW S \in SUBSET Seeds
    PROVE  Cardinality(S) \in Nat
<1>1. IsFiniteSet(Seeds)
  BY FS_Subset, IsFiniteSet(Events)
<1>. QED  BY <1>1, FS_Subset, FS_CardinalityType

LEMMA PartsType ==
    ASSUME NEW e \in Events
    PROVE  Parts(e) \in SUBSET Assets /\ Parts(e) # {}
BY DEF Parts, Assets, Passes

LEMMA PriceKeysType ==
    ASSUME NEW rows \in SUBSET Outcomes
    PROVE  PriceKeys(rows) \in SUBSET (Events \X Assets)
BY DEF PriceKeys, Outcomes

\* Every column of the valuator's tables and every local of a pass keeps its
\* type in every step.
LEMMA TypeInit == Init => TypeOK
BY DEF Init, FeedInit, TypeOK, FeedTypeOK, Passes

LEMMA TypeStep ==
    ASSUME TypeOK, [Next]_vars
    PROVE  TypeOK'
<1>. USE DEF TypeOK, FeedTypeOK
<1>1. CASE Clock
  BY <1>1 DEF Clock, Tick, passVars, tableVars, seedVars
<1>2. CASE Feed
  BY <1>2 DEF Feed, BeginFinalize, CommitFinalize, passVars, tableVars, seedVars
<1>3. CASE Reorg
  BY <1>3 DEF Reorg, MarkNonCanonical, passVars, tableVars, seedVars
<1>4. CASE ImportSeeds
  BY <1>4 DEF ImportSeeds, feedVars, passVars, tableVars
<1>5. CASE SeedGate
  BY <1>5, SeedCountType DEF SeedGate, Passes, feedVars, tableVars
<1>6. CASE SeedBatch
  <2>1. PICK batch \in (SUBSET SeedCandidates) \ {{}} :
           LET rows == {[ev |-> e, asset |-> Class[e], status |-> "seed"] :
                           e \in batch}
           IN  valuations' = InsertNew(valuations, rows)
               /\ attempts' = attempts \cup rows
    BY <1>6 DEF SeedBatch
  <2>. DEFINE rows == {[ev |-> e, asset |-> Class[e], status |-> "seed"] :
                           e \in batch}
  <2>2. \A e \in batch : e \in Events /\ Class[e] \in Assets
    BY DEF SeedCandidates, Finalized, Assets, Passes
  <2>3. rows \in SUBSET Outcomes
    BY <2>2 DEF Outcomes, Terminal
  <2>. QED
    BY <1>6, <2>1, <2>3, InsertNewType
       DEF SeedBatch, feedVars, passVars, seedVars
<1>7. CASE SeedDone
  BY <1>7 DEF SeedDone, Passes, feedVars, tableVars
<1>8. CASE StartPass
  BY <1>8 DEF StartPass, Candidates, Finalized, feedVars, tableVars, seedVars
<1>9. CASE PassDrained
  BY <1>9 DEF PassDrained, feedVars, tableVars, seedVars
<1>10. ASSUME NEW e \in Events, PriceDone(e)
       PROVE  TypeOK'
  <2>1. buf' \in SUBSET Outcomes
    BY <1>10, PartsType DEF PriceDone, Outcomes
  <2>. QED
    BY <1>10, <2>1 DEF PriceDone, feedVars, tableVars, seedVars
<1>11. ASSUME NEW e \in Events, PriceTransient(e)
       PROVE  TypeOK'
  <2>1. buf' \in SUBSET Outcomes
    BY <1>11, PartsType DEF PriceTransient, Outcomes
  <2>. QED
    BY <1>11, <2>1 DEF PriceTransient, feedVars, tableVars, seedVars
<1>12. CASE FlushValuations
  BY <1>12, InsertNewType DEF FlushValuations, feedVars, seedVars
<1>13. CASE FlushPrices
  BY <1>13, PriceKeysType DEF FlushPrices, feedVars, seedVars
<1>14. CASE FlushAttempts
  BY <1>14 DEF FlushAttempts, feedVars, seedVars
<1>15. CASE ReadFrontier
  BY <1>15 DEF ReadFrontier, feedVars, tableVars, seedVars
<1>16. CASE Advance
  <2>1. cursor' \in [Passes -> Nat]
    BY <1>16 DEF Advance, NextWatermark
  <2>2. stage' \in Passes \cup {"SEED"}
    BY <1>16 DEF Advance, NextStage, Passes
  <2>. QED
    BY <1>16, <2>1, <2>2 DEF Advance, LeavePass, feedVars, seedVars
<1>17. CASE Abort
  BY <1>17 DEF Abort, LeavePass, feedVars, tableVars
<1>18. CASE TruncateForReplay
  BY <1>18 DEF TruncateForReplay, feedVars, passVars
<1>19. CASE UNCHANGED vars
  BY <1>19 DEF vars, feedVars, passVars, tableVars, seedVars
<1>. QED
  BY <1>1, <1>2, <1>3, <1>4, <1>5, <1>6, <1>7, <1>8, <1>9, <1>10, <1>11,
     <1>12, <1>13, <1>14, <1>15, <1>16, <1>17, <1>18, <1>19 DEF Next, Worker

\* The valuator's state is well typed in every behaviour.
THEOREM TypeCorrect == Spec => []TypeOK
<1>. QED  BY TypeInit, TypeStep, PTL DEF Spec
-----------------------------------------------------------------------------
(* The inductive invariant. *)

\* New rows in event_valuations and valuation_attempts never make a resolved
\* part unresolved again.
LEMMA UnresolvedMonotone ==
    ASSUME valuations \subseteq valuations', attempts \subseteq attempts',
           NEW e \in Events
    PROVE  /\ \A a : PartUnresolved(e, a)' => PartUnresolved(e, a)
           /\ Unresolved(e)' => Unresolved(e)
<1>1. \A a : PartUnresolved(e, a)' => PartUnresolved(e, a)
  BY DEF PartUnresolved
<1>. QED  BY <1>1 DEF Unresolved, Parts

\* INSERT ... ON CONFLICT DO NOTHING keeps every row and leaves a row with the
\* event and asset of each row it was given.
LEMMA InsertNewCovers ==
    ASSUME NEW table, NEW rows
    PROVE  /\ table \subseteq InsertNew(table, rows)
           /\ \A r \in rows : \E v \in InsertNew(table, rows) :
                 v.ev = r.ev /\ v.asset = r.asset
<1>1. table \subseteq InsertNew(table, rows)
  BY DEF InsertNew
<1>2. ASSUME NEW r \in rows
      PROVE  \E v \in InsertNew(table, rows) : v.ev = r.ev /\ v.asset = r.asset
  <2>1. CASE \A v \in table : ~SameKey(v, r)
    BY <2>1 DEF InsertNew
  <2>2. CASE \E v \in table : SameKey(v, r)
    BY <2>2 DEF InsertNew, SameKey
  <2>. QED  BY <2>1, <2>2
<1>. QED  BY <1>1, <1>2

LEMMA FinalizedType ==
    ASSUME TypeOK
    PROVE  /\ Finalized \subseteq Events
           /\ \A e \in Events : finalizedAt[e] \in Nat /\ Class[e] \in Passes
           /\ \A p \in Passes : cursor[p] \in Nat
BY DEF TypeOK, FeedTypeOK, Finalized

\* No cursor, frontier or stamp is ahead of now(), and a pass is no older than
\* MaxPass.
LEMMA TimeStep ==
    ASSUME TypeOK, TypeOK', TimeInv, [Next]_vars
    PROVE  TimeInv'
<1>. USE DEF TimeInv, InPass
<1>t. TypeOK /\ FeedTypeOK
  BY DEF TypeOK
<1>1. CASE Clock
  BY <1>1, <1>t DEF Clock, Tick, TypeOK, FeedTypeOK, Passes, passVars, tableVars
<1>2. CASE Feed
  <2>1. CASE BeginFinalize
    BY <1>2, <1>t, <2>1 DEF Feed, BeginFinalize, FeedTypeOK, passVars, tableVars
  <2>2. CASE CommitFinalize
    <3>1. \A e \in Events : finalizedAt'[e] <= clock
      BY <1>t, <2>2 DEF CommitFinalize, FeedTypeOK
    <3>. QED
      BY <1>2, <1>t, <2>2, <3>1
         DEF Feed, CommitFinalize, FeedTypeOK, passVars, tableVars
  <2>. QED  BY <1>2, <2>1, <2>2 DEF Feed
<1>3. CASE Reorg
  BY <1>3 DEF Reorg, MarkNonCanonical, passVars, tableVars
<1>4. CASE ImportSeeds
  BY <1>4 DEF ImportSeeds, feedVars, passVars, tableVars
<1>5. CASE SeedGate
  BY <1>5 DEF SeedGate, Passes, feedVars, tableVars
<1>6. CASE SeedBatch
  BY <1>6 DEF SeedBatch, feedVars, passVars
<1>7. CASE SeedDone
  BY <1>7 DEF SeedDone, Passes, feedVars, tableVars
<1>8. CASE StartPass
  BY <1>8, <1>t DEF StartPass, FeedTypeOK, feedVars, tableVars
<1>9. CASE PassDrained
  BY <1>9 DEF PassDrained, feedVars, tableVars
<1>10. ASSUME NEW e \in Events, PriceDone(e)
       PROVE  TimeInv'
  BY <1>10 DEF PriceDone, feedVars, tableVars
<1>11. ASSUME NEW e \in Events, PriceTransient(e)
       PROVE  TimeInv'
  BY <1>11 DEF PriceTransient, feedVars, tableVars
<1>12. CASE FlushValuations
  BY <1>12 DEF FlushValuations, feedVars
<1>13. CASE FlushPrices
  BY <1>13 DEF FlushPrices, feedVars
<1>14. CASE FlushAttempts
  BY <1>14 DEF FlushAttempts, feedVars
<1>15. CASE ReadFrontier
  <2>1. frontier' <= clock
    BY <1>15, <1>t DEF ReadFrontier, FeedTypeOK
  <2>. QED
    BY <1>15, <2>1 DEF ReadFrontier, feedVars, tableVars
<1>16. CASE Advance
  <2>1. \A p \in Passes : cursor'[p] <= clock
    BY <1>16, <1>t DEF Advance, NextWatermark, TypeOK, FeedTypeOK
  <2>. QED
    BY <1>16, <1>t, <2>1 DEF Advance, LeavePass, feedVars, FeedTypeOK
<1>17. CASE Abort
  BY <1>17, <1>t DEF Abort, LeavePass, Passes, feedVars, tableVars, FeedTypeOK
<1>18. CASE TruncateForReplay
  BY <1>18, <1>t DEF TruncateForReplay, feedVars, passVars, FeedTypeOK
<1>19. CASE UNCHANGED vars
  BY <1>19 DEF vars, feedVars, passVars, tableVars
<1>. QED
  BY <1>1, <1>2, <1>3, <1>4, <1>5, <1>6, <1>7, <1>8, <1>9, <1>10, <1>11,
     <1>12, <1>13, <1>14, <1>15, <1>16, <1>17, <1>18, <1>19 DEF Next, Worker

\* The buffers, the work list and the flush steps stay in step.
LEMMA LocalStep ==
    ASSUME TypeOK, TypeOK', LocalInv, [Next]_vars
    PROVE  LocalInv'
<1>. USE DEF LocalInv
<1>1. CASE Clock
  BY <1>1 DEF Clock, Tick, passVars, tableVars
<1>2. CASE Feed
  <2>1. \A e \in Events : finalizedAt[e] > 0 => finalizedAt'[e] > 0
    BY <1>2 DEF Feed, BeginFinalize, CommitFinalize, TypeOK, FeedTypeOK
  <2>. QED
    BY <1>2, <2>1 DEF Feed, passVars, tableVars, TypeOK
<1>3. CASE Reorg
  BY <1>3 DEF Reorg, MarkNonCanonical, passVars, tableVars
<1>4. CASE ImportSeeds
  BY <1>4 DEF ImportSeeds, feedVars, passVars, tableVars
<1>5. CASE SeedGate
  BY <1>5 DEF SeedGate, feedVars, tableVars
<1>6. CASE SeedBatch
  BY <1>6 DEF SeedBatch, feedVars, passVars
<1>7. CASE SeedDone
  BY <1>7 DEF SeedDone, feedVars, tableVars
<1>8. CASE StartPass
  BY <1>8 DEF StartPass, Candidates, Finalized, feedVars, tableVars
<1>9. CASE PassDrained
  BY <1>9 DEF PassDrained, feedVars, tableVars
<1>10. ASSUME NEW e \in Events, PriceDone(e)
       PROVE  LocalInv'
  BY <1>10 DEF PriceDone, feedVars, tableVars
<1>11. ASSUME NEW e \in Events, PriceTransient(e)
       PROVE  LocalInv'
  BY <1>11 DEF PriceTransient, feedVars, tableVars
<1>12. CASE FlushValuations
  BY <1>12, InsertNewCovers DEF FlushValuations, feedVars
<1>13. CASE FlushPrices
  BY <1>13 DEF FlushPrices, feedVars
<1>14. CASE FlushAttempts
  BY <1>14 DEF FlushAttempts, feedVars
<1>15. CASE ReadFrontier
  BY <1>15 DEF ReadFrontier, feedVars, tableVars
<1>16. CASE Advance
  BY <1>16 DEF Advance, LeavePass, feedVars
<1>17. CASE Abort
  BY <1>17 DEF Abort, LeavePass, feedVars, tableVars
<1>18. CASE TruncateForReplay
  BY <1>18 DEF TruncateForReplay, feedVars, passVars
<1>19. CASE UNCHANGED vars
  BY <1>19 DEF vars, feedVars, passVars, tableVars
<1>. QED
  BY <1>1, <1>2, <1>3, <1>4, <1>5, <1>6, <1>7, <1>8, <1>9, <1>10, <1>11,
     <1>12, <1>13, <1>14, <1>15, <1>16, <1>17, <1>18, <1>19 DEF Next, Worker

\* A flush writes attempts only after their valuations; the seed pass writes
\* both in one statement.
LEMMA AttemptStep ==
    ASSUME TypeOK, LocalInv, AttemptHasOutcomeRow, [Next]_vars
    PROVE  AttemptHasOutcomeRow'
<1>. USE DEF AttemptHasOutcomeRow
<1>1. CASE UNCHANGED <<valuations, attempts>>
  BY <1>1
<1>2. CASE SeedBatch
  <2>1. PICK rows : /\ valuations' = InsertNew(valuations, rows)
                    /\ attempts' = attempts \cup rows
    BY <1>2 DEF SeedBatch
  <2>. QED  BY <2>1, InsertNewCovers
<1>3. CASE FlushValuations
  BY <1>3, InsertNewCovers DEF FlushValuations
<1>4. CASE FlushAttempts
  BY <1>4 DEF FlushAttempts, LocalInv
<1>5. CASE TruncateForReplay
  BY <1>5 DEF TruncateForReplay
<1>. QED
  BY <1>1, <1>2, <1>3, <1>4, <1>5
     DEF Next, Worker, Clock, Feed, Reorg, ImportSeeds, SeedGate, SeedDone,
         StartPass, PassDrained, PriceDone, PriceTransient, FlushPrices,
         ReadFrontier, Advance, Abort, vars, tableVars

-----------------------------------------------------------------------------
(* The cursors. *)

\* A step that neither finalizes a row, nor moves a cursor, nor empties a table
\* leaves every cursor where it may be.
LEMMA ReachKept ==
    ASSUME TypeOK, ReachInv,
           UNCHANGED <<finalizedAt, cursor>>, canonical' \subseteq canonical,
           valuations \subseteq valuations', attempts \subseteq attempts'
    PROVE  ReachInv'
<1>. SUFFICES ASSUME NEW e \in Finalized', Unresolved(e)'
              PROVE  cursor'[Class[e]] <= finalizedAt'[e] + Lookback
  BY DEF ReachInv
<1>1. e \in Finalized /\ e \in Events
  BY DEF Finalized, TypeOK, FeedTypeOK
<1>2. Unresolved(e)
  BY <1>1, UnresolvedMonotone
<1>. QED  BY <1>1, <1>2 DEF ReachInv

LEMMA ReachStep ==
    ASSUME LookbackCovers, TypeOK, TypeOK', TimeInv, ReachInv, AccountInv,
           LocalInv, [Next]_vars
    PROVE  ReachInv'
<1>1. CASE /\ UNCHANGED <<finalizedAt, cursor>>
           /\ canonical' \subseteq canonical
           /\ valuations \subseteq valuations'
           /\ attempts \subseteq attempts'
  BY <1>1, ReachKept
<1>2. CASE Feed /\ CommitFinalize
  <2>. SUFFICES ASSUME NEW e \in Finalized', Unresolved(e)'
                PROVE  cursor'[Class[e]] <= finalizedAt'[e] + Lookback
    BY DEF ReachInv
  <2>1. e \in Events /\ Unresolved(e) /\ cursor' = cursor
    <3>1. e \in Events /\ UNCHANGED <<cursor, valuations, attempts>>
      BY <1>2 DEF Feed, tableVars, Finalized, TypeOK, FeedTypeOK
    <3>. QED  BY <3>1, UnresolvedMonotone
  <2>2. CASE e \in Finalized /\ finalizedAt'[e] = finalizedAt[e]
    BY <2>1, <2>2 DEF ReachInv
  <2>3. CASE stmt > 0 /\ finalizedAt'[e] = stmt
    <3>1. cursor[Class[e]] <= clock /\ clock <= stmt + MaxCommit
      BY <2>1, <2>3, FinalizedType DEF TimeInv
    <3>2. /\ cursor[Class[e]] \in Nat /\ clock \in Nat /\ stmt \in Nat
      BY <2>1, FinalizedType DEF TypeOK, FeedTypeOK
    <3>. QED
      BY <2>1, <2>3, <3>1, <3>2 DEF LookbackCovers
  <2>. QED
    BY <1>2, <2>1, <2>2, <2>3 DEF CommitFinalize, Finalized, TypeOK, FeedTypeOK
<1>3. CASE Advance
  <2>. SUFFICES ASSUME NEW e \in Finalized', Unresolved(e)'
                PROVE  cursor'[Class[e]] <= finalizedAt'[e] + Lookback
    BY DEF ReachInv
  <2>1. /\ e \in Finalized /\ e \in Events /\ finalizedAt' = finalizedAt
        /\ UNCHANGED <<valuations, attempts>>
    BY <1>3 DEF Advance, feedVars, Finalized, TypeOK, FeedTypeOK
  <2>2. Unresolved(e)
    BY <2>1, UnresolvedMonotone
  <2>3. stage \in Passes /\ InPass /\ buf = {} /\ todo = {}
    BY <1>3 DEF Advance, LocalInv, InPass
  <2>4. CASE Class[e] # stage \/ frontier = 0
    <3>1. cursor'[Class[e]] = cursor[Class[e]]
      BY <1>3, <2>1, <2>4, FinalizedType DEF Advance, TypeOK
    <3>. QED  BY <2>1, <2>2, <3>1 DEF ReachInv
  <2>5. CASE Class[e] = stage /\ frontier # 0
    <3>1. cursor'[Class[e]] = NextWatermark(minUnres, frontier)
      BY <1>3, <2>3, <2>5 DEF Advance, TypeOK
    <3>2. \/ 0 < minUnres /\ minUnres <= finalizedAt[e]
          \/ scanAt <= finalizedAt[e] + MaxCommit
      <4>1. Accounted(e)
        BY <2>1, <2>2, <2>3, <2>5 DEF AccountInv
      <4>2. ~ \A a \in Parts(e) : PartUnresolved(e, a) => Buffered(e, a)
        BY <2>2, <2>3 DEF Unresolved, Buffered
      <4>. QED  BY <4>1, <4>2, <2>3 DEF Accounted
    <3>3. frontier <= clock /\ clock <= scanAt + MaxPass
      BY <2>3 DEF TimeInv
    <3>4. /\ minUnres \in Nat /\ frontier \in Nat /\ scanAt \in Nat
          /\ clock \in Nat /\ finalizedAt[e] \in Nat
      BY <2>1 DEF TypeOK, FeedTypeOK
    <3>. QED
      BY <2>1, <3>1, <3>2, <3>3, <3>4 DEF NextWatermark, LookbackCovers
  <2>. QED  BY <2>4, <2>5
<1>4. CASE TruncateForReplay
  <2>1. \A p \in Passes : cursor'[p] = 0
    BY <1>4 DEF TruncateForReplay
  <2>2. \A e \in Finalized' : Class[e] \in Passes /\ finalizedAt'[e] \in Nat
    BY DEF Finalized, TypeOK, FeedTypeOK
  <2>. QED  BY <2>1, <2>2 DEF ReachInv
<1>5. CASE SeedBatch
  BY <1>5, <1>1, InsertNewCovers DEF SeedBatch, feedVars
<1>6. CASE FlushValuations
  BY <1>6, <1>1, InsertNewCovers DEF FlushValuations, feedVars
<1>7. CASE FlushAttempts
  BY <1>7, <1>1 DEF FlushAttempts, feedVars
<1>8. CASE Feed /\ BeginFinalize
  BY <1>8, <1>1 DEF Feed, BeginFinalize, tableVars
<1>9. CASE Reorg
  BY <1>9, <1>1 DEF Reorg, MarkNonCanonical, tableVars
<1>10. CASE Clock
  BY <1>10, <1>1 DEF Clock, Tick, tableVars
<1>. QED
  BY <1>1, <1>2, <1>3, <1>4, <1>5, <1>6, <1>7, <1>8, <1>9, <1>10
     DEF Next, Worker, Feed, ImportSeeds, SeedGate, SeedDone, StartPass,
         PassDrained, PriceDone, PriceTransient, FlushPrices, ReadFrontier,
         Abort, vars, tableVars, feedVars

-----------------------------------------------------------------------------
(* The running pass. *)

\* A step that keeps the pass running, finalizes nothing and empties no table
\* needs only to be shown not to lose track of an event.
LEMMA AccountKept ==
    ASSUME TypeOK, AccountInv, InPass, stage' = stage,
           finalizedAt' = finalizedAt, canonical' \subseteq canonical,
           valuations \subseteq valuations', attempts \subseteq attempts',
           \A e \in Events : Unresolved(e)' /\ Accounted(e) => Accounted(e)'
    PROVE  AccountInv'
<1>. SUFFICES ASSUME NEW e \in Finalized', Class[e] = stage', Unresolved(e)'
              PROVE  Accounted(e)'
  BY DEF AccountInv
<1>1. e \in Finalized /\ e \in Events
  BY DEF Finalized, TypeOK, FeedTypeOK
<1>2. Unresolved(e)
  BY <1>1, UnresolvedMonotone
<1>. QED  BY <1>1, <1>2 DEF AccountInv

\* The same when the locals of the pass do not change at all.
LEMMA AccountSame ==
    ASSUME TypeOK, AccountInv, InPass, UNCHANGED <<stage, todo, buf, minUnres, scanAt>>,
           finalizedAt' = finalizedAt, canonical' \subseteq canonical,
           valuations \subseteq valuations', attempts \subseteq attempts'
    PROVE  AccountInv'
<1>1. ASSUME NEW e \in Events, Accounted(e)
      PROVE  Accounted(e)'
  <2>1. \A a : PartUnresolved(e, a)' => PartUnresolved(e, a)
    BY UnresolvedMonotone
  <2>. QED  BY <1>1, <2>1 DEF Accounted, Buffered, Parts
<1>. QED  BY <1>1, AccountKept

LEMMA AccountStep ==
    ASSUME TypeOK, TypeOK', TimeInv, ReachInv, AccountInv, LocalInv, [Next]_vars
    PROVE  AccountInv'
<1>. USE DEF InPass
<1>0. CASE ~InPass'
  BY <1>0 DEF AccountInv
<1>1. CASE StartPass
  <2>. SUFFICES ASSUME NEW e \in Finalized', Class[e] = stage', Unresolved(e)'
                PROVE  e \in todo'
    BY DEF AccountInv, Accounted
  <2>1. /\ e \in Finalized /\ e \in Events /\ stage' = stage
        /\ UNCHANGED <<valuations, attempts>>
    BY <1>1 DEF StartPass, feedVars, tableVars, Finalized, TypeOK, FeedTypeOK
  <2>2. Unresolved(e)
    BY <2>1, UnresolvedMonotone
  <2>3. finalizedAt[e] >= ScanFloor(stage)
    BY <2>1, <2>2, FinalizedType DEF ScanFloor, ReachInv
  <2>. QED
    BY <1>1, <2>1, <2>2, <2>3 DEF StartPass, Candidates
<1>2. CASE InPass /\ Feed /\ CommitFinalize
  <2>. SUFFICES ASSUME NEW e \in Finalized', Class[e] = stage', Unresolved(e)'
                PROVE  Accounted(e)'
    BY DEF AccountInv
  <2>1. /\ e \in Events
        /\ UNCHANGED <<stage, todo, buf, minUnres, scanAt, valuations, attempts>>
    BY <1>2 DEF Feed, tableVars, passVars, Finalized, TypeOK, FeedTypeOK
  <2>2. Unresolved(e) /\ \A a : PartUnresolved(e, a)' => PartUnresolved(e, a)
    BY <2>1, UnresolvedMonotone
  <2>3. CASE e \in Finalized /\ finalizedAt'[e] = finalizedAt[e]
    <3>1. Accounted(e)
      BY <1>2, <2>1, <2>2, <2>3 DEF AccountInv
    <3>. QED  BY <2>1, <2>2, <2>3, <3>1 DEF Accounted, Buffered, Parts
  <2>4. CASE stmt > 0 /\ finalizedAt'[e] = stmt
    <3>1. scanAt <= clock /\ clock <= stmt + MaxCommit
      BY <1>2, <2>4 DEF TimeInv
    <3>2. scanAt' <= finalizedAt'[e] + MaxCommit
      BY <2>1, <2>4, <3>1 DEF TypeOK, FeedTypeOK
    <3>. QED  BY <3>2 DEF Accounted
  <2>. QED
    BY <1>2, <2>1, <2>3, <2>4 DEF CommitFinalize, Finalized, TypeOK, FeedTypeOK
<1>3. ASSUME NEW e \in Events, PriceDone(e)
      PROVE  AccountInv'
  <2>1. /\ InPass /\ stage' = stage /\ minUnres' = minUnres /\ scanAt' = scanAt
        /\ UNCHANGED <<finalizedAt, canonical, valuations, attempts>>
        /\ todo' = todo \ {e} /\ buf \subseteq buf'
    BY <1>3 DEF PriceDone, feedVars, tableVars
  <2>2. \A a \in Parts(e) : Buffered(e, a)'
    <3>1. PICK out : buf' = buf \cup {[ev |-> e, asset |-> a, status |-> out[a]] :
                                        a \in Parts(e)}
      BY <1>3 DEF PriceDone
    <3>2. ASSUME NEW a \in Parts(e)
          PROVE  [ev |-> e, asset |-> a, status |-> out[a]] \in buf'
      BY <3>1
    <3>. QED  BY <3>2 DEF Buffered
  <2>3. ASSUME NEW f \in Events, Accounted(f)
        PROVE  Accounted(f)'
    <3>1. Parts(f)' = Parts(f)
      BY DEF Parts
    <3>2. \A a : PartUnresolved(f, a)' => PartUnresolved(f, a)
      BY <2>1, UnresolvedMonotone
    <3>3. \A a : Buffered(f, a) => Buffered(f, a)'
      BY <2>1 DEF Buffered
    <3>4. CASE f = e
      BY <2>2, <3>1, <3>4 DEF Accounted
    <3>5. CASE f # e
      BY <2>1, <2>3, <3>1, <3>2, <3>3, <3>5 DEF Accounted
    <3>. QED  BY <3>4, <3>5
  <2>. QED  BY <2>1, <2>3, AccountKept
<1>4. ASSUME NEW e \in Events, PriceTransient(e)
      PROVE  AccountInv'
  <2>1. /\ InPass /\ stage' = stage /\ scanAt' = scanAt
        /\ UNCHANGED <<finalizedAt, canonical, valuations, attempts>>
        /\ todo' = todo \ {e} /\ buf \subseteq buf' /\ e \in todo
        /\ minUnres' = IF minUnres = 0 \/ finalizedAt[e] < minUnres
                       THEN finalizedAt[e] ELSE minUnres
    BY <1>4 DEF PriceTransient, feedVars, tableVars
  <2>2. 0 < minUnres' /\ minUnres' <= finalizedAt[e]
    BY <2>1 DEF LocalInv, TypeOK, FeedTypeOK
  <2>3. ASSUME NEW f \in Events, Accounted(f)
        PROVE  Accounted(f)'
    <3>1. Parts(f)' = Parts(f)
      BY DEF Parts
    <3>2. \A a : PartUnresolved(f, a)' => PartUnresolved(f, a)
      BY <2>1, UnresolvedMonotone
    <3>3. \A a : Buffered(f, a) => Buffered(f, a)'
      BY <2>1 DEF Buffered
    <3>4. CASE f = e
      BY <2>1, <2>2, <3>4 DEF Accounted
    <3>5. CASE 0 < minUnres /\ minUnres <= finalizedAt[f]
      <4>1. 0 < minUnres' /\ minUnres' <= finalizedAt'[f]
        BY <2>1, <2>2, <3>5 DEF TypeOK, FeedTypeOK
      <4>. QED  BY <4>1 DEF Accounted
    <3>6. CASE f # e /\ ~(0 < minUnres /\ minUnres <= finalizedAt[f])
      BY <2>1, <2>3, <3>1, <3>2, <3>3, <3>6 DEF Accounted
    <3>. QED  BY <3>4, <3>5, <3>6
  <2>. QED  BY <2>1, <2>3, AccountKept
<1>5. CASE FlushAttempts
  <2>1. /\ InPass /\ pc = "attempts"
        /\ UNCHANGED <<stage, todo, minUnres, scanAt, finalizedAt, canonical,
                       valuations>>
        /\ attempts \subseteq attempts'
    BY <1>5 DEF FlushAttempts, LocalInv, feedVars
  <2>2. ASSUME NEW e \in Events, Unresolved(e)', Accounted(e)
        PROVE  Accounted(e)'
    <3>1. PICK a \in Parts(e) : PartUnresolved(e, a)
      BY <2>1, <2>2, UnresolvedMonotone DEF Unresolved
    <3>2. ~Buffered(e, a)
      BY <2>1, <3>1 DEF Buffered, PartUnresolved, LocalInv
    <3>. QED  BY <2>1, <2>2, <3>1, <3>2 DEF Accounted
  <2>. QED  BY <2>1, <2>2, AccountKept
<1>6. CASE FlushValuations
  <2>1. InPass
    BY <1>6 DEF FlushValuations, LocalInv
  <2>. QED
    BY <1>6, <2>1, InsertNewCovers, AccountSame DEF FlushValuations, feedVars
<1>7. CASE FlushPrices
  <2>1. InPass
    BY <1>7 DEF FlushPrices, LocalInv
  <2>. QED
    BY <1>7, <2>1, AccountSame DEF FlushPrices, feedVars
<1>8. CASE PassDrained
  BY <1>8, AccountSame DEF PassDrained, feedVars, tableVars
<1>9. CASE ReadFrontier
  <2>1. InPass
    BY <1>9 DEF ReadFrontier, LocalInv
  <2>. QED
    BY <1>9, <2>1, AccountSame DEF ReadFrontier, feedVars, tableVars
<1>10. CASE InPass /\ Clock
  BY <1>10, AccountSame DEF Clock, Tick, passVars, tableVars
<1>11. CASE InPass /\ Feed /\ BeginFinalize
  BY <1>11, AccountSame DEF Feed, BeginFinalize, passVars, tableVars
<1>12. CASE InPass /\ Reorg
  BY <1>12, AccountSame DEF Reorg, MarkNonCanonical, passVars, tableVars
<1>13. CASE InPass /\ ImportSeeds
  BY <1>13, AccountSame DEF ImportSeeds, feedVars, passVars, tableVars
<1>14. CASE InPass /\ UNCHANGED vars
  BY <1>14, AccountSame DEF vars, feedVars, passVars, tableVars
<1>15. CASE ~InPass /\ (Clock \/ Feed \/ Reorg \/ ImportSeeds \/ UNCHANGED vars)
  BY <1>15, <1>0 DEF Clock, Feed, Reorg, ImportSeeds, vars, passVars
<1>16. CASE SeedGate \/ SeedBatch \/ SeedDone \/ TruncateForReplay
  BY <1>16, <1>0
     DEF SeedGate, SeedBatch, SeedDone, TruncateForReplay, passVars, Passes
<1>17. CASE Advance \/ Abort
  BY <1>17, <1>0 DEF Advance, Abort
<1>. QED
  BY <1>1, <1>2, <1>3, <1>4, <1>5, <1>6, <1>7, <1>8, <1>9, <1>10, <1>11,
     <1>12, <1>13, <1>14, <1>15, <1>16, <1>17 DEF Next, Worker, Feed
-----------------------------------------------------------------------------
(* One row per key.                                                        *)

\* ON CONFLICT DO NOTHING keeps the keys of a table unique if the rows of the
\* statement have unique keys.
LEMMA InsertNewKeepsKeys ==
    ASSUME NEW table, NEW rows,
           \A v, w \in table : SameKey(v, w) => v = w,
           \A r, s \in rows : r.ev = s.ev /\ r.asset = s.asset => r = s
    PROVE  \A v, w \in InsertNew(table, rows) : SameKey(v, w) => v = w
BY DEF InsertNew, SameKey

\* Pricing an event that is not in the buffers adds at most one row per part.
LEMMA BufferKeepsKeys ==
    ASSUME NEW e \in todo, NEW S, NEW out,
           KeyInv, todo' = todo \ {e},
           buf' = buf \cup {[ev |-> e, asset |-> a, status |-> out[a]] : a \in S}
    PROVE  /\ \A r, s \in buf' : r.ev = s.ev /\ r.asset = s.asset => r = s
           /\ \A r \in buf' : r.ev \notin todo'
<1>. DEFINE new == {[ev |-> e, asset |-> a, status |-> out[a]] : a \in S}
<1>1. \A r \in new : r.ev = e
  OBVIOUS
<1>2. \A r, s \in new : r.asset = s.asset => r = s
  OBVIOUS
<1>3. \A r \in buf : r.ev # e
  BY DEF KeyInv
<1>4. buf' = buf \cup new
  OBVIOUS
<1>. HIDE DEF new
<1>. QED  BY <1>1, <1>2, <1>3, <1>4 DEF KeyInv

LEMMA KeyStep ==
    ASSUME TypeOK, LocalInv, KeyInv, [Next]_vars
    PROVE  KeyInv'
<1>1. CASE Clock \/ Feed \/ Reorg \/ ImportSeeds \/ UNCHANGED vars
  BY <1>1 DEF Clock, Feed, Reorg, ImportSeeds, vars, passVars, tableVars,
              KeyInv, InPass, SameKey
<1>2. CASE SeedGate \/ SeedDone
  BY <1>2 DEF SeedGate, SeedDone, tableVars, KeyInv, InPass, SameKey, Passes
<1>3. CASE SeedBatch
  <2>1. PICK batch \in (SUBSET SeedCandidates) \ {{}} :
           LET rows == {[ev |-> e, asset |-> Class[e], status |-> "seed"] :
                           e \in batch}
           IN  valuations' = InsertNew(valuations, rows)
    BY <1>3 DEF SeedBatch
  <2>. DEFINE rows == {[ev |-> e, asset |-> Class[e], status |-> "seed"] :
                           e \in batch}
  <2>2. \A r, s \in rows : r.ev = s.ev /\ r.asset = s.asset => r = s
    OBVIOUS
  <2>3. valuations' = InsertNew(valuations, rows)
    BY <2>1
  <2>. HIDE DEF rows
  <2>4. \A v, w \in valuations' : SameKey(v, w) => v = w
    BY <2>2, <2>3, InsertNewKeepsKeys DEF KeyInv
  <2>. QED  BY <1>3, <2>4 DEF SeedBatch, passVars, KeyInv, InPass, SameKey
<1>4. CASE StartPass
  BY <1>4 DEF StartPass, tableVars, KeyInv, InPass, SameKey
<1>5. ASSUME NEW e \in Events, PriceDone(e)
      PROVE  KeyInv'
  <2>1. PICK out \in [Parts(e) -> Terminal] :
           buf' = buf \cup {[ev |-> e, asset |-> a, status |-> out[a]] :
                               a \in Parts(e)}
    BY <1>5 DEF PriceDone
  <2>2. e \in todo /\ todo' = todo \ {e}
    BY <1>5 DEF PriceDone
  <2>3. /\ \A r, s \in buf' : r.ev = s.ev /\ r.asset = s.asset => r = s
        /\ \A r \in buf' : r.ev \notin todo'
    BY <2>1, <2>2, BufferKeepsKeys
  <2>4. InPass'
    BY <1>5 DEF PriceDone, InPass
  <2>. QED  BY <1>5, <2>3, <2>4 DEF PriceDone, tableVars, KeyInv, SameKey
<1>6. ASSUME NEW e \in Events, PriceTransient(e)
      PROVE  KeyInv'
  <2>1. PICK bad \in SUBSET Parts(e), out \in [Parts(e) -> Terminal] :
           buf' = buf \cup {[ev |-> e, asset |-> a, status |-> out[a]] :
                               a \in Parts(e) \ bad}
    BY <1>6 DEF PriceTransient
  <2>2. e \in todo /\ todo' = todo \ {e}
    BY <1>6 DEF PriceTransient
  <2>3. /\ \A r, s \in buf' : r.ev = s.ev /\ r.asset = s.asset => r = s
        /\ \A r \in buf' : r.ev \notin todo'
    <3>. DEFINE S == Parts(e) \ bad
    <3>1. buf' = buf \cup {[ev |-> e, asset |-> a, status |-> out[a]] : a \in S}
      BY <2>1
    <3>. HIDE DEF S
    <3>. QED  BY <3>1, <2>2, BufferKeepsKeys
  <2>4. InPass'
    BY <1>6 DEF PriceTransient, InPass
  <2>. QED  BY <1>6, <2>3, <2>4 DEF PriceTransient, tableVars, KeyInv, SameKey
<1>7. CASE FlushValuations
  <2>1. \A v, w \in valuations' : SameKey(v, w) => v = w
    BY <1>7, InsertNewKeepsKeys DEF FlushValuations, KeyInv
  <2>2. InPass'
    BY <1>7 DEF FlushValuations, LocalInv, InPass
  <2>. QED  BY <1>7, <2>1, <2>2 DEF FlushValuations, KeyInv, SameKey
<1>8. CASE FlushPrices \/ FlushAttempts \/ PassDrained \/ ReadFrontier
  <2>1. InPass'
    BY <1>8 DEF FlushPrices, FlushAttempts, PassDrained, ReadFrontier, LocalInv, InPass
  <2>. QED
    BY <1>8, <2>1 DEF FlushPrices, FlushAttempts, PassDrained, ReadFrontier,
                      tableVars, KeyInv, SameKey
<1>9. CASE Advance \/ Abort
  BY <1>9 DEF Advance, Abort, LeavePass, tableVars, KeyInv, SameKey
<1>10. CASE TruncateForReplay
  BY <1>10 DEF TruncateForReplay, passVars, KeyInv, InPass, SameKey
<1>. QED
  BY <1>1, <1>2, <1>3, <1>4, <1>5, <1>6, <1>7, <1>8, <1>9, <1>10 DEF Next, Worker
-----------------------------------------------------------------------------
LEMMA InitIInv == Init => IInv
BY DEF Init, FeedInit, IInv, TypeOK, FeedTypeOK, TimeInv, ReachInv, AccountInv,
       LocalInv, AttemptHasOutcomeRow, KeyInv, Finalized, InPass, Passes

LEMMA IInvStep ==
    ASSUME LookbackCovers, IInv, [Next]_vars
    PROVE  IInv'
BY TypeStep, TimeStep, ReachStep, AccountStep, LocalStep, AttemptStep, KeyStep
   DEF IInv

LEMMA ReachesFloor ==
    ASSUME IInv
    PROVE  NoSkippedWork
BY FinalizedType DEF IInv, ReachInv, NoSkippedWork, ScanFloor

\* When the lookback covers one pass and one finalizing UPDATE, everything the passes
\* rely on between two statements holds for good (onchain.rs, bulk.rs, seed.rs and
\* cursor.rs): the clocks, what a running pass still knows of each event, the order
\* in which its buffers are written, the keys of event_valuations.
THEOREM PassesKeepInvariant ==
    ASSUME LookbackCovers
    PROVE  Spec => []IInv
BY InitIInv, IInvStep, PTL DEF Spec

\* When the lookback covers one pass and one finalizing UPDATE, a cursor never
\* hides a finalized event without an outcome from the scan (scan_floor, advance
\* and next_watermark of cursor.rs against run_onchain_pass_eth, _lpt and
\* run_multi_asset_pass), for any number of events, aborts and reorgs.
THEOREM CursorNeverSkips ==
    ASSUME LookbackCovers
    PROVE  Spec => []NoSkippedWork
<1>1. IInv => NoSkippedWork
  BY ReachesFloor
<1>. QED  BY <1>1, PassesKeepInvariant, PTL

\* Whatever the timing, valuation_attempts never holds a row whose outcome is
\* not in event_valuations (the order of BulkBuffers::flush, and the single
\* statement of the seed pass), so a crash between two flush statements never
\* suppresses an event that has no outcome row.
THEOREM AttemptsAreBacked == Spec => []AttemptHasOutcomeRow
<1>. DEFINE Inv == TypeOK /\ LocalInv /\ AttemptHasOutcomeRow
<1>1. Init => Inv
  BY InitIInv DEF IInv
<1>2. Inv /\ [Next]_vars => Inv'
  BY TypeStep, LocalStep, AttemptStep
<1>. QED  BY <1>1, <1>2, PTL DEF Spec

\* event_valuations only grows and never gets a second row for a key, except for
\* the truncation of a replay: every INSERT of the passes, retried or not, is ON
\* CONFLICT DO NOTHING over buffers with one row per part (bulk.rs, seed.rs).
THEOREM ValuationsNeverChange == Spec => ValuationsImmutable
<1>. DEFINE Inv == TypeOK /\ LocalInv /\ KeyInv
<1>1. Init => Inv
  BY InitIInv DEF IInv
<1>2. Inv /\ [Next]_vars => Inv'
  BY TypeStep, LocalStep, KeyStep
<1>3. Inv /\ Inv' /\ [Next]_vars =>
         [ \/ valuations' = {}
           \/ /\ valuations \subseteq valuations'
              /\ \A v, w \in valuations' : SameKey(v, w) => v = w ]_vars
  <2>. SUFFICES ASSUME Inv, Inv', Next
                PROVE  valuations' = {} \/ valuations \subseteq valuations'
    BY DEF KeyInv, SameKey
  <2>1. CASE SeedBatch
    BY <2>1, InsertNewCovers DEF SeedBatch
  <2>2. CASE FlushValuations
    BY <2>2, InsertNewCovers DEF FlushValuations
  <2>3. CASE TruncateForReplay
    BY <2>3 DEF TruncateForReplay
  <2>4. CASE valuations' = valuations
    BY <2>4
  <2>. QED
    BY <2>1, <2>2, <2>3, <2>4
       DEF Next, Worker, Clock, Feed, Reorg, ImportSeeds, SeedGate, SeedDone, StartPass,
           PriceDone, PriceTransient, PassDrained, FlushPrices, FlushAttempts,
           ReadFrontier, Advance, Abort, tableVars
<1>. QED  BY <1>1, <1>2, <1>3, PTL DEF Spec, ValuationsImmutable
=============================================================================
