------------------------- MODULE EventLedgerProofs -------------------------
(* The table of raw events, proved for every chain, every number of          *)
(* reorganisations and faults: it is the FinalityFeed its consumers rely on, *)
(* withdrawals are audited, and the recorded L1 inputs reproduce finality.   *)
EXTENDS EventLedger, TLAPS

USE LedgerAssumption

(* An UPDATE is open while the finality-watcher is at its commit, and only   *)
(* finalized rows are stamped.                                               *)
StampInv ==
    /\ fpc = "commit" <=> stmt > 0
    /\ \A e \in Events : finality[e] # "finalized" => finalizedAt[e] = 0

(* The recorded cutoff never goes down: L1's does not, and what the watcher  *)
(* has read lies between the two until it is recorded.                       *)
CutoffInv ==
    /\ savedFinal <= l1Final
    /\ fpc \in {"persist1", "persist2"} => savedFinal <= fFinal /\ fFinal <= l1Final
    /\ fpc \in {"post", "finalize", "commit", "checkpoint"} => fFinal = savedFinal

StoredHash(b, h) == \E r \in Rows : BlockOf[r] = b /\ hash[r] = h

(* What the reorg-watcher has listed, and is about to record, are hashes the *)
(* table holds.                                                              *)
ListedInv ==
    /\ \A p \in queue : StoredHash(p[1], p[2])
    /\ \A m \in marking : m.old # m.new /\ StoredHash(m.block, m.old)
-----------------------------------------------------------------------------
LEMMA LedgerTypeInit == Init => TypeOK /\ StampInv
BY DEF Init, TypeOK, StampInv, Rows, Blocks, Hashes

\* A row keeps its hash: ON CONFLICT DO NOTHING.
LEMMA RowsGrow ==
    ASSUME TypeOK, [Next]_vars
    PROVE  Rows \subseteq Rows' /\ \A e \in Rows : hash'[e] = hash[e]
<1>1. ASSUME NEW c \in Contracts, Index(c)
      PROVE  Rows \subseteq Rows' /\ \A e \in Rows : hash'[e] = hash[e]
  BY <1>1 DEF Index, Rows, TypeOK
<1>2. CASE hash' = hash
  BY <1>2 DEF Rows
<1>. QED
  BY <1>1, <1>2 DEF Next, vars, rowVars, ChainGrows, ChainReorg, Tick, FinalityStep,
     ReadLatest, ReadFinalized, PersistLatest, PersistFinalized, MarkPosted,
     BeginFinalize, CommitFinalize, SaveCheckpoint, FinalityFails, ReorgStep,
     ListTentative, CheckBlock, HandleDivergence, ReorgFails

LEMMA LedgerTypeStep ==
    ASSUME TypeOK, StampInv, [Next]_vars
    PROVE  TypeOK' /\ StampInv'
<1>. USE DEF TypeOK, StampInv, chainVars, rowVars, finalityVars, reorgVars
<1>1. CASE ChainGrows
  BY <1>1 DEF ChainGrows, Rows
<1>2. CASE ChainReorg
  <2>1. chain' \in [Blocks -> Hashes]
    BY <1>2 DEF ChainReorg, Blocks
  <2>. QED  BY <1>2, <2>1 DEF ChainReorg, Rows
<1>3. CASE Tick
  BY <1>3 DEF Tick, Rows
<1>4. ASSUME NEW c \in Contracts, Index(c)
      PROVE  TypeOK' /\ StampInv'
  <2>1. scanned[c] + 1 \in Blocks /\ chain[scanned[c] + 1] \in Hashes
    BY <1>4 DEF Index, Blocks
  <2>2. hash' \in [Events -> Hashes \cup {"none"}]
    BY <1>4, <2>1 DEF Index
  <2>3. Rows \subseteq Rows'
    BY <1>4, RowsGrow DEF Next
  <2>4. scanned' \in [Contracts -> 0..head]
    BY <1>4 DEF Index
  <2>. QED  BY <1>4, <2>2, <2>3, <2>4 DEF Index
<1>5. CASE ReadLatest \/ ReadFinalized \/ PersistLatest \/ PersistFinalized \/ SaveCheckpoint
  BY <1>5 DEF ReadLatest, ReadFinalized, PersistLatest, PersistFinalized,
              SaveCheckpoint, Rows
<1>6. CASE MarkPosted
  <2>1. Rows' = Rows
    BY <1>6 DEF MarkPosted, Rows
  <2>2. finality' \in [Events -> {"tentative", "l1_posted", "finalized"}]
    BY <1>6 DEF MarkPosted
  <2>3. \A e \in Events : finality'[e] # "finalized" => finality[e] # "finalized"
    BY <1>6 DEF MarkPosted
  <2>. QED  BY <1>6, <2>1, <2>2, <2>3 DEF MarkPosted
<1>7. CASE BeginFinalize
  BY <1>7 DEF BeginFinalize, Rows
<1>8. CASE CommitFinalize
  <2>1. Rows' = Rows
    BY <1>8 DEF CommitFinalize, Rows
  <2>2. /\ finality' \in [Events -> {"tentative", "l1_posted", "finalized"}]
        /\ finalizedAt' \in [Events -> Nat]
    BY <1>8 DEF CommitFinalize
  <2>3. \A e \in Events : finality'[e] # "finalized" => finalizedAt'[e] = 0
    BY <1>8 DEF CommitFinalize
  <2>. QED  BY <1>8, <2>1, <2>2, <2>3 DEF CommitFinalize
<1>9. CASE FinalityFails
  BY <1>9 DEF FinalityFails, Rows
<1>10. CASE ListTentative
  <2>1. \A e \in Rows : <<BlockOf[e], hash[e]>> \in Blocks \X Hashes
    BY DEF Rows
  <2>2. queue' \subseteq Blocks \X Hashes
    BY <1>10, <2>1 DEF ListTentative
  <2>. QED  BY <1>10, <2>2 DEF ListTentative, Rows
<1>11. CASE CheckBlock
  <2>1. PICK p \in queue :
           /\ queue' = queue \ {p}
           /\ marking' = IF chain[p[1]] = p[2] THEN {}
                         ELSE {[block |-> p[1], old |-> p[2], new |-> chain[p[1]]]}
    BY <1>11 DEF CheckBlock
  <2>2. p[1] \in Blocks /\ p[2] \in Hashes /\ chain[p[1]] \in Hashes
    OBVIOUS
  <2>. QED  BY <1>11, <2>1, <2>2 DEF CheckBlock, Rows
<1>12. CASE HandleDivergence
  BY <1>12 DEF HandleDivergence, Rows
<1>13. CASE ReorgFails
  BY <1>13 DEF ReorgFails, Rows
<1>14. CASE UNCHANGED vars
  BY <1>14 DEF vars, Rows
<1>. QED
  BY <1>1, <1>2, <1>3, <1>4, <1>5, <1>6, <1>7, <1>8, <1>9, <1>10, <1>11, <1>12,
     <1>13, <1>14 DEF Next, FinalityStep, ReorgStep

\* The state of the ledger is well-typed; withdrawn and seen rows are rows of the
\* table, and no L1 cutoff is above the head.
THEOREM LedgerTypes == Spec => [](TypeOK /\ StampInv)
BY LedgerTypeInit, LedgerTypeStep, PTL DEF Spec
-----------------------------------------------------------------------------
LEMMA CutoffStep ==
    ASSUME TypeOK, CutoffInv, ReplayFinalizesAll, [Next]_vars
    PROVE  CutoffInv' /\ ReplayFinalizesAll'
<1>. USE DEF TypeOK, CutoffInv, chainVars, rowVars, finalityVars, reorgVars
<1>1. CASE ChainGrows
  BY <1>1 DEF ChainGrows, ReplayFinalizesAll
<1>2. CASE PersistFinalized
  BY <1>2 DEF PersistFinalized, ReplayFinalizesAll, Blocks
<1>3. CASE MarkPosted
  <2>1. \A e \in Events : finality'[e] = "finalized" => finality[e] = "finalized"
    BY <1>3 DEF MarkPosted
  <2>. QED  BY <1>3, <2>1 DEF MarkPosted, ReplayFinalizesAll
<1>4. CASE CommitFinalize
  <2>1. \A e \in Events : finality'[e] = "finalized" =>
           finality[e] = "finalized" \/ BlockOf[e] <= fFinal
    BY <1>4 DEF CommitFinalize, Finalizable
  <2>. QED  BY <1>4, <2>1 DEF CommitFinalize, ReplayFinalizesAll
<1>5. ASSUME NEW c \in Contracts, Index(c)
      PROVE  CutoffInv' /\ ReplayFinalizesAll'
  BY <1>5 DEF Index, ReplayFinalizesAll
<1>6. CASE ReadLatest \/ ReadFinalized \/ PersistLatest \/ BeginFinalize \/ SaveCheckpoint
  BY <1>6 DEF ReadLatest, ReadFinalized, PersistLatest, BeginFinalize, SaveCheckpoint,
              ReplayFinalizesAll
<1>7. CASE ChainReorg \/ Tick \/ FinalityFails
  BY <1>7 DEF ChainReorg, Tick, FinalityFails, ReplayFinalizesAll
<1>8. CASE ReorgStep \/ ReorgFails \/ UNCHANGED vars
  BY <1>8 DEF ReorgStep, ListTentative, CheckBlock, HandleDivergence, ReorgFails, vars,
              ReplayFinalizesAll
<1>. QED
  BY <1>1, <1>2, <1>3, <1>4, <1>5, <1>6, <1>7, <1>8 DEF Next, FinalityStep

\* A replay that runs the finality-watcher's statements on the recorded inputs
\* finalizes every row the live watcher has finalized, wherever that was stopped.
THEOREM ReplayIsComplete == Spec => []ReplayFinalizesAll
<1>1. Init => CutoffInv /\ ReplayFinalizesAll
  BY DEF Init, CutoffInv, ReplayFinalizesAll
<1>. QED
  BY <1>1, LedgerTypes, CutoffStep, PTL DEF Spec
-----------------------------------------------------------------------------
LEMMA StoredStays ==
    ASSUME TypeOK, [Next]_vars, NEW b, NEW h, StoredHash(b, h)
    PROVE  StoredHash(b, h)'
BY RowsGrow DEF StoredHash

LEMMA AuditStep ==
    ASSUME TypeOK, ListedInv, WithdrawalsAudited, [Next]_vars
    PROVE  ListedInv' /\ WithdrawalsAudited'
<1>1. \A e \in withdrawn : \E m \in reorgLog :
         m.block = BlockOf[e] /\ m.old # m.new /\ StoredHash(m.block, m.old)'
  BY StoredStays DEF WithdrawalsAudited, StoredHash
<1>2. \A p \in queue : StoredHash(p[1], p[2])'
  BY StoredStays DEF ListedInv
<1>3. \A m \in marking : m.old # m.new /\ StoredHash(m.block, m.old)'
  BY StoredStays DEF ListedInv
<1>4. ASSUME withdrawn' = withdrawn, reorgLog' = reorgLog
      PROVE  WithdrawalsAudited'
  BY <1>1, <1>4 DEF WithdrawalsAudited, StoredHash
<1>5. CASE ListTentative
  <2>1. \A p \in queue' : StoredHash(p[1], p[2])
    BY <1>5 DEF ListTentative, StoredHash
  <2>2. \A p \in queue' : StoredHash(p[1], p[2])'
    BY <2>1, StoredStays
  <2>. QED  BY <1>3, <1>4, <1>5, <2>2 DEF ListTentative, ListedInv, rowVars
<1>6. CASE CheckBlock
  <2>1. PICK p \in queue :
           /\ queue' = queue \ {p}
           /\ marking' = IF chain[p[1]] = p[2] THEN {}
                         ELSE {[block |-> p[1], old |-> p[2], new |-> chain[p[1]]]}
    BY <1>6 DEF CheckBlock
  <2>2. \A m \in marking' : m.old # m.new /\ m.block = p[1] /\ m.old = p[2]
    BY <2>1
  <2>. QED  BY <1>2, <1>4, <1>6, <2>1, <2>2 DEF CheckBlock, ListedInv, rowVars
<1>7. CASE HandleDivergence
  <2>1. PICK m \in marking :
           /\ withdrawn' = withdrawn \cup {e \in Rows : BlockOf[e] = m.block}
           /\ reorgLog' = reorgLog \cup {m}
    BY <1>7 DEF HandleDivergence
  <2>2. \A e \in withdrawn' : \E n \in reorgLog' :
           n.block = BlockOf[e] /\ n.old # n.new /\ StoredHash(n.block, n.old)'
    BY <1>1, <1>3, <2>1
  <2>3. WithdrawalsAudited'
    BY <2>2 DEF WithdrawalsAudited, StoredHash
  <2>. QED  BY <1>2, <1>7, <2>3 DEF HandleDivergence, ListedInv
<1>8. CASE ReorgFails
  BY <1>4, <1>8 DEF ReorgFails, ListedInv, rowVars
<1>9. CASE UNCHANGED <<queue, marking, withdrawn, reorgLog>>
  BY <1>2, <1>3, <1>4, <1>9 DEF ListedInv
<1>10. CASE FinalityStep \/ FinalityFails
  BY <1>9, <1>10 DEF FinalityStep, ReadLatest, ReadFinalized, PersistLatest,
     PersistFinalized, MarkPosted, BeginFinalize, CommitFinalize, SaveCheckpoint,
     FinalityFails, rowVars, reorgVars
<1>11. ASSUME NEW c \in Contracts, Index(c)
       PROVE  ListedInv' /\ WithdrawalsAudited'
  BY <1>9, <1>11 DEF Index, reorgVars
<1>12. CASE ChainGrows \/ ChainReorg \/ Tick \/ UNCHANGED vars
  BY <1>9, <1>12 DEF ChainGrows, ChainReorg, Tick, vars, rowVars, reorgVars
<1>. QED
  BY <1>5, <1>6, <1>7, <1>8, <1>10, <1>11, <1>12 DEF Next, ReorgStep

\* The reorg-watcher withdraws no row without an audit row that names a hash the
\* table held for its block and the different one the chain had, although listing,
\* comparing and marking are apart.
THEOREM WithdrawalsAreAudited == Spec => []WithdrawalsAudited
<1>1. Init => ListedInv /\ WithdrawalsAudited
  BY DEF Init, ListedInv, WithdrawalsAudited
<1>. QED
  BY <1>1, LedgerTypes, AuditStep, PTL DEF Spec
-----------------------------------------------------------------------------
\* Every step of the table is a step of the feed, or leaves the feed as it is.
LEMMA FeedStep ==
    ASSUME TypeOK, StampInv, [Next]_vars
    PROVE  [Feed!FeedNext]_(Feed!feedVars)
<1>. USE DEF Feed!feedVars, chainVars, rowVars, finalityVars, reorgVars
<1>1. CASE UNCHANGED <<clock, finalizedAt, withdrawn, stmt>>
  BY <1>1
<1>2. CASE Tick
  BY <1>2 DEF Tick, Feed!FeedNext, Feed!Tick
<1>3. CASE BeginFinalize
  <2>1. stmt = 0
    BY <1>3 DEF BeginFinalize, StampInv, TypeOK
  <2>. QED  BY <1>3, <2>1 DEF BeginFinalize, Feed!FeedNext, Feed!BeginFinalize
<1>4. CASE CommitFinalize
  <2>1. stmt > 0
    BY <1>4 DEF CommitFinalize, StampInv
  <2>2. Finalizable \in SUBSET {e \in Events \ withdrawn : finalizedAt[e] = 0}
    BY DEF Finalizable, StampInv, TypeOK, Rows
  <2>. QED  BY <1>4, <2>1, <2>2 DEF CommitFinalize, Feed!FeedNext, Feed!CommitFinalize
<1>5. CASE FinalityFails
  <2>1. CASE fpc = "commit"
    <3>1. {} \in SUBSET {e \in Events \ withdrawn : finalizedAt[e] = 0}
      OBVIOUS
    <3>2. finalizedAt' = [e \in Events |-> IF e \in {} THEN stmt ELSE finalizedAt[e]]
      BY <1>5 DEF FinalityFails, TypeOK
    <3>. QED
      BY <1>5, <2>1, <3>1, <3>2
         DEF FinalityFails, StampInv, Feed!FeedNext, Feed!CommitFinalize
  <2>2. CASE fpc # "commit"
    BY <1>1, <1>5, <2>2 DEF FinalityFails, StampInv, TypeOK
  <2>. QED  BY <2>1, <2>2
<1>6. CASE HandleDivergence
  <2>1. withdrawn \subseteq withdrawn' /\ withdrawn' \subseteq Events
    BY <1>6 DEF HandleDivergence, TypeOK, Rows
  <2>2. CASE withdrawn' = withdrawn
    BY <1>1, <1>6, <2>2 DEF HandleDivergence
  <2>3. CASE withdrawn' # withdrawn
    <3>. DEFINE gone == withdrawn' \ withdrawn
    <3>1. /\ gone \in SUBSET (Events \ withdrawn) /\ gone # {}
          /\ Events \ withdrawn' = (Events \ withdrawn) \ gone
      BY <2>1, <2>3
    <3>2. UNCHANGED <<clock, finalizedAt, stmt>>
      BY <1>6 DEF HandleDivergence
    <3>. QED  BY <3>1, <3>2 DEF Feed!FeedNext, Feed!MarkNonCanonical
  <2>. QED  BY <2>2, <2>3
<1>7. CASE ReadLatest \/ ReadFinalized \/ PersistLatest \/ PersistFinalized
           \/ MarkPosted \/ SaveCheckpoint
  BY <1>1, <1>7 DEF ReadLatest, ReadFinalized, PersistLatest, PersistFinalized,
     MarkPosted, SaveCheckpoint
<1>8. ASSUME NEW c \in Contracts, Index(c)
      PROVE  [Feed!FeedNext]_(Feed!feedVars)
  BY <1>1, <1>8 DEF Index
<1>9. CASE ChainGrows \/ ChainReorg \/ ListTentative \/ CheckBlock \/ ReorgFails
           \/ UNCHANGED vars
  BY <1>1, <1>9 DEF ChainGrows, ChainReorg, ListTentative, CheckBlock, ReorgFails, vars
<1>. QED
  BY <1>2, <1>3, <1>4, <1>5, <1>6, <1>7, <1>8, <1>9 DEF Next, FinalityStep, ReorgStep

\* The two watchers over one table implement the feed the valuator is proved over:
\* a row is stamped once, with the now() of an UPDATE that was open no longer than
\* MaxCommit, and a withdrawn row stays withdrawn.
THEOREM LedgerImplementsFeed == Spec => ImplementsFeed
<1>1. Init => Feed!FeedInit
  BY DEF Init, Feed!FeedInit
<1>. QED
  BY <1>1, LedgerTypes, FeedStep, PTL DEF Spec, ImplementsFeed, Feed!FeedSpec
=============================================================================
