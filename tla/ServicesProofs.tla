-------------------------- MODULE ServicesProofs --------------------------
(***************************************************************************)
(* The services that follow the finalized log, and the enricher, proved     *)
(* for any log, any limits and any interleaving of all of them.             *)
(***************************************************************************)
EXTENDS Services, Extremes, TLAPS

-----------------------------------------------------------------------------
(* The log.                                                                *)

LEMMA LogRows ==
  /\ Rows = 1..Len(Log) /\ Len(Log) \in Nat /\ Rows \subseteq Nat /\ IsFiniteSet(Rows)
  /\ \A p \in Rows : Log[p].block \in Nat /\ Log[p].block > 0
  /\ \A p, q \in Rows : Log[p].block < Log[q].block => p < q
<1> DEFINE Record == [block : Nat \ {0}, kind : STRING, who : STRING, to : STRING, tx : STRING]
<1>1. Log \in Seq(Record)
  BY LogAssumption
<1>2. Rows = 1..Len(Log) /\ Len(Log) \in Nat /\ \A p \in Rows : Log[p] \in Record
  <2> HIDE DEF Record
  <2> QED BY <1>1 DEF Rows
<1>3. \A p \in Rows : Log[p].block \in Nat /\ Log[p].block > 0
  BY <1>2
<1>4. \A p, q \in Rows : p < q => Log[p].block <= Log[q].block
  BY LogAssumption DEF Rows
<1>5. \A p, q \in Rows : Log[p].block < Log[q].block => p < q
  BY <1>2, <1>3, <1>4
<1> HIDE DEF Record
<1>6. IsFiniteSet(Rows)
  <2>1. IsFiniteSet(1..Len(Log))
    BY <1>2, FS_Interval
  <2> QED BY <1>2, <2>1
<1> QED BY <1>2, <1>3, <1>5, <1>6

\* The watcher has finalized whole blocks.
LogInv == final = 0 \/ (final \in Rows /\ EndsBlock(final))

\* What the other services see of the one that steps.
FinalitySteps == Finalize \/ UNCHANGED final

LEMMA LogStart == LogInit => LogInv
BY DEF LogInit, LogInv

LEMMA LogStep == LogInv /\ FinalitySteps => LogInv'
BY DEF LogInv, FinalitySteps, Finalize, EndsBlock, Rows

(* The rows an UPDATE finalizes are of later blocks than the ones before. *)
LEMMA LaterBlocks ==
  ASSUME LogInv, FinalitySteps
  PROVE  /\ Finalized \subseteq Finalized' /\ Finalized' \subseteq Rows
         /\ \A p \in Finalized' \ Finalized : \A q \in Finalized : Log[q].block < Log[p].block
<1>1. final \in Nat /\ final' \in Nat /\ final <= final'
  BY LogRows DEF LogInv, FinalitySteps, Finalize
<1>2. Finalized = {p \in Rows : p <= final} /\ Finalized' = {p \in Rows : p <= final'}
  BY DEF Finalized, Rows
<1>3. ASSUME NEW p \in Rows, p > final, NEW q \in Rows, q <= final
      PROVE  Log[q].block < Log[p].block
  <2>1. final \in Rows /\ EndsBlock(final)
    BY <1>3, LogRows DEF LogInv
  <2>2. Log[p].block > Log[final].block
    BY <1>3, <2>1 DEF EndsBlock
  <2>3. ~ (Log[final].block < Log[q].block)
    BY <1>3, <2>1, LogRows
  <2> QED BY <2>1, <2>2, <2>3, <1>3, LogRows
<1> QED BY <1>1, <1>2, <1>3, LogRows

(* LIMIT keeps a nonempty prefix of what is selected. *)
LEMMA FirstRowsOf ==
  ASSUME NEW S \in SUBSET Rows, NEW n \in Nat \ {0}
  PROVE  /\ FirstRows(S, n) \subseteq S
         /\ \A p \in FirstRows(S, n), q \in S : q < p => q \in FirstRows(S, n)
         /\ S # {} => FirstRows(S, n) # {}
<1> DEFINE Below(p) == {q \in S : q < p}
<1>1. \A p \in S : IsFiniteSet(Below(p)) /\ Cardinality(Below(p)) \in Nat
  <2>1. ASSUME NEW p \in S PROVE IsFiniteSet(Below(p))
    BY LogRows, FS_Subset
  <2> QED BY <2>1, FS_CardinalityType
<1>2. ASSUME NEW p \in FirstRows(S, n), NEW q \in S, q < p PROVE q \in FirstRows(S, n)
  <2>1. p \in S /\ Cardinality(Below(p)) < n
    BY DEF FirstRows
  <2>0. p \in Nat /\ q \in Nat /\ S \subseteq Nat
    BY <2>1, LogRows
  <2>2. \A r \in Below(q) : r \in Below(p)
    BY <1>2, <2>0
  <2>3. Cardinality(Below(q)) <= Cardinality(Below(p))
    BY <1>1, <2>1, <2>2, FS_Subset
  <2>4. Cardinality(Below(q)) < n
    BY <1>1, <2>1, <2>3
  <2> QED BY <2>4 DEF FirstRows
<1>3. ASSUME S # {} PROVE FirstRows(S, n) # {}
  <2>1. PICK p \in S : \A q \in S : p <= q
    BY <1>3, LogRows, LeastOf
  <2>2. \A r \in S : ~ (r < p)
    BY <2>1, LogRows
  <2>3. Cardinality(Below(p)) < n
    <3>1. Below(p) = {}
      BY <2>2
    <3> QED BY <3>1, FS_EmptySet
  <2> QED BY <2>3 DEF FirstRows
<1> QED BY <1>2, <1>3 DEF FirstRows

(* Min and Max of a set of rows. *)
LEMMA RowExtremes ==
  ASSUME NEW S \in SUBSET Rows, S # {}
  PROVE  Min(S) \in S /\ Max(S) \in S /\ \A p \in S : Min(S) <= p /\ p <= Max(S)
<1>1. S \in SUBSET Nat /\ S \in SUBSET (0..Len(Log)) /\ Len(Log) \in Nat
  BY LogRows
<1>2. Max(S) \in S /\ \A p \in S : p <= Max(S)
  BY <1>1, MaxOf
<1>3. \E m \in S : \A p \in S : m =< p
  BY <1>1, LeastOf
<1>4. Min(S) \in S /\ \A p \in S : Min(S) <= p
  BY <1>3 DEF Min
<1> QED BY <1>2, <1>4

-----------------------------------------------------------------------------
(* The gateway worker.                                                     *)

DueRows(a) == CASE a = "flow" -> FlowRows [] a = "claimant" -> ClaimantRows [] a = "balance" -> BalanceRows

SameKey(a, p, q) ==
  CASE a = "flow" -> p = q
    [] a = "claimant" -> ClaimantKey(p) = ClaimantKey(q)
    [] a = "balance" -> BalanceKey(p) = BalanceKey(q)

UpToFinal(b) == b = 0 \/ \E n \in Finalized : b <= Log[n].block

\* The blocks a run may still move the checkpoint of an axis to.
InPlay(r, a) ==
  {Log[q].block : q \in run[r].todo[a]} \cup (IF run[r].axis = a THEN {run[r].touched} ELSE {})

\* What lies below such a block is in the table, or its key on the list.
ListCovers(r, a) ==
  \A p \in Finalized \cap DueRows(a) : \A b \in InPlay(r, a) :
    Log[p].block < b => Held(a, p) \/ \E q \in run[r].todo[a] : SameKey(a, p, q)

\* What a run has on its lists.
ListsAreDue(r) ==
  /\ \A a \in AxisSet : run[r].todo[a] \subseteq Finalized \cap DueRows(a)
  /\ run[r].todo["balance"] \subseteq LatestTouch(BalanceRows)
  /\ UpToFinal(run[r].touched)

GatewayInv ==
  /\ GatewayTypeOK
  /\ \A a \in AxisSet : UpToFinal(cpGateway[a])
  /\ \A r \in Runners : ListsAreDue(r) /\ \A a \in AxisSet : ListCovers(r, a)
  /\ BalanceTriggerIsLastTouch /\ GatewayNothingSkipped

LEMMA DueFacts ==
  ASSUME NEW a \in AxisSet
  PROVE  /\ DueRows(a) \subseteq Rows /\ \A p : SameKey(a, p, p)
         /\ \A p \in Rows : Held(a, p) <=> (p \in DueRows(a) => Held(a, p))
         /\ \A p, q \in DueRows(a) : SameKey(a, p, q) /\ Held(a, q) => Held(a, p)
BY DEF DueRows, SameKey, Held, AxisSet, FlowRows, ClaimantRows, BalanceRows, FromGateway

LEMMA HeldStays ==
  ASSUME NEW a \in AxisSet, NEW p, Held(a, p),
         flows \subseteq flows', DOMAIN claimants \subseteq DOMAIN claimants', DOMAIN balances \subseteq DOMAIN balances'
  PROVE  Held(a, p)'
BY DEF Held, AxisSet

LEMMA NotBefore ==
  ASSUME LogInv, FinalitySteps, NEW p \in Finalized' \ Finalized, NEW b \in Nat, UpToFinal(b)
  PROVE  ~ (Log[p].block < b)
<1>1. p \in Rows /\ Log[p].block \in Nat
  BY LaterBlocks, LogRows
<1>2. CASE b = 0
  BY <1>1, <1>2
<1>3. CASE b # 0
  <2>1. PICK n \in Finalized : b <= Log[n].block
    BY <1>3 DEF UpToFinal
  <2>2. Log[n].block < Log[p].block /\ Log[n].block \in Nat
    BY LaterBlocks, LogRows
  <2> QED BY <1>1, <2>1, <2>2
<1> QED BY <1>2, <1>3

LEMMA FinalStays ==
  ASSUME LogInv, FinalitySteps, NEW b, UpToFinal(b)
  PROVE  UpToFinal(b)'
BY LaterBlocks DEF UpToFinal

\* The blocks in play are bounded by what is final.
LEMMA InPlayFinal ==
  ASSUME GatewayInv, NEW r \in Runners, NEW a \in AxisSet, NEW b \in InPlay(r, a)
  PROVE  b \in Nat /\ UpToFinal(b)
<1>1. ListsAreDue(r) /\ run[r].touched \in Nat
  BY DEF GatewayInv, GatewayTypeOK
<1>2. CASE b = run[r].touched
  BY <1>1, <1>2 DEF ListsAreDue
<1>3. CASE \E q \in run[r].todo[a] : b = Log[q].block
  <2>1. PICK q \in run[r].todo[a] : b = Log[q].block
    BY <1>3
  <2>2. q \in Finalized /\ q \in Rows
    BY <1>1 DEF ListsAreDue, Finalized
  <2> QED BY <2>1, <2>2, LogRows DEF UpToFinal
<1> QED BY <1>2, <1>3 DEF InPlay

LEMMA GatewayWaits ==
  ASSUME GatewayInv, LogInv, FinalitySteps, UNCHANGED gatewayVars
  PROVE  GatewayInv'
<1> USE DEF gatewayVars
<1>1. GatewayTypeOK'
  <2>1. final' \in 0..Len(Log)
    BY LogRows DEF GatewayInv, GatewayTypeOK, FinalitySteps, Finalize
  <2> QED BY <2>1 DEF GatewayInv, GatewayTypeOK
<1>2. ASSUME NEW a \in AxisSet PROVE UpToFinal(cpGateway[a])'
  <2>1. UpToFinal(cpGateway[a])
    BY DEF GatewayInv
  <2> QED BY <2>1, FinalStays
<1>3. ASSUME NEW r \in Runners PROVE ListsAreDue(r)'
  <2>1. ListsAreDue(r)
    BY DEF GatewayInv
  <2>2. UpToFinal(run[r].touched)'
    BY <2>1, FinalStays DEF ListsAreDue
  <2> QED BY <2>1, <2>2, LaterBlocks DEF ListsAreDue
<1>4. ASSUME NEW r \in Runners, NEW a \in AxisSet, NEW p \in (Finalized \cap DueRows(a))',
             NEW b \in InPlay(r, a)', Log[p].block < b
      PROVE  Held(a, p)' \/ \E q \in run[r].todo[a] : SameKey(a, p, q)
  <2>1. b \in InPlay(r, a)
    BY DEF InPlay
  <2>2. b \in Nat /\ UpToFinal(b)
    BY <2>1, InPlayFinal
  <2>3. p \in Finalized /\ p \in DueRows(a)
    BY <1>4, <2>2, NotBefore
  <2>4. Held(a, p) \/ \E q \in run[r].todo[a] : SameKey(a, p, q)
    BY <1>4, <2>1, <2>3 DEF GatewayInv, ListCovers
  <2> QED BY <2>4, HeldStays
<1>5. ASSUME NEW a \in AxisSet, NEW p \in Finalized', Log[p].block < cpGateway[a]
      PROVE  Held(a, p)'
  <2>1. cpGateway[a] \in Nat /\ UpToFinal(cpGateway[a])
    BY DEF GatewayInv, GatewayTypeOK
  <2>2. p \in Finalized
    BY <1>5, <2>1, NotBefore
  <2>3. Held(a, p)
    BY <1>5, <2>2 DEF GatewayInv, GatewayNothingSkipped
  <2> QED BY <2>3, HeldStays
<1>6. \A r \in Runners, a \in AxisSet : ListCovers(r, a)'
  BY <1>4 DEF ListCovers
<1>7. GatewayNothingSkipped'
  BY <1>5 DEF GatewayNothingSkipped
<1>8. BalanceTriggerIsLastTouch'
  BY DEF GatewayInv, BalanceTriggerIsLastTouch
<1> QED BY <1>1, <1>2, <1>3, <1>6, <1>7, <1>8 DEF GatewayInv

(* A list that LIMIT cut covers what lies below its rows. *)
LEMMA ListFromCandidates ==
  ASSUME GatewayInv, LogInv, NEW a \in AxisSet, NEW n \in Nat \ {0},
         NEW C \in SUBSET (Finalized \cap DueRows(a)),
         \A p \in Finalized \cap DueRows(a) :
           Log[p].block >= cpGateway[a] /\ ~Held(a, p) =>
             \E q \in C : SameKey(a, p, q) /\ Log[q].block = Log[p].block,
         NEW p \in Finalized \cap DueRows(a), NEW q \in FirstRows(C, n), Log[p].block < Log[q].block
  PROVE  Held(a, p) \/ \E s \in FirstRows(C, n) : SameKey(a, p, s)
<1>1. C \in SUBSET Rows /\ p \in Rows /\ q \in C /\ FirstRows(C, n) \subseteq C
  BY FirstRowsOf DEF Finalized
<1>2. CASE Log[p].block < cpGateway[a]
  BY <1>2 DEF GatewayInv, GatewayNothingSkipped
<1>3. CASE ~ (Log[p].block < cpGateway[a]) /\ ~Held(a, p)
  <2>1. Log[p].block >= cpGateway[a]
    BY <1>1, <1>3, LogRows DEF GatewayInv, GatewayTypeOK
  <2>2. PICK s \in C : SameKey(a, p, s) /\ Log[s].block = Log[p].block
    BY <1>3, <2>1
  <2>3. s < q
    BY <1>1, <2>2, LogRows
  <2>4. s \in FirstRows(C, n)
    BY <1>1, <2>3, FirstRowsOf
  <2> QED BY <2>2, <2>4
<1> QED BY <1>2, <1>3

(* The last touch of a balance that is final is its last touch. *)
LEMMA TouchOf ==
  ASSUME LogInv, NEW p \in Finalized \cap BalanceRows
  PROVE  \E q \in LatestTouch(Finalized \cap BalanceRows) :
           BalanceKey(q) = BalanceKey(p) /\ Log[q].block = Log[p].block
<1> DEFINE S == {q \in Finalized \cap BalanceRows : BalanceKey(q) = BalanceKey(p)}
<1>1. S \in SUBSET Rows /\ p \in S
  BY DEF Finalized
<1>2. Max(S) \in S /\ \A q \in S : q <= Max(S)
  BY <1>1, RowExtremes
<1>3. Max(S) \in LatestTouch(Finalized \cap BalanceRows)
  BY <1>2 DEF LatestTouch
<1> QED BY <1>2, <1>3 DEF BalanceKey

LEMMA FinalTouches ==
  ASSUME LogInv
  PROVE  LatestTouch(Finalized \cap BalanceRows) \subseteq LatestTouch(BalanceRows)
<1> SUFFICES ASSUME NEW p \in LatestTouch(Finalized \cap BalanceRows), NEW q \in BalanceRows,
                    BalanceKey(q) = BalanceKey(p)
             PROVE  q <= p
  BY DEF LatestTouch
<1>1. p \in Rows /\ q \in Rows /\ p <= final /\ p \in Finalized \cap BalanceRows /\ Log[q].block = Log[p].block
  BY DEF LatestTouch, Finalized, BalanceRows, FromGateway, BalanceKey
<1>2. CASE q \in Finalized
  BY <1>1, <1>2 DEF LatestTouch
<1>3. CASE q \notin Finalized
  <2>1. final \in Rows /\ EndsBlock(final) /\ q > final
    BY <1>1, <1>3, LogRows DEF LogInv, Finalized
  <2>2. Log[q].block > Log[final].block
    BY <1>1, <2>1 DEF EndsBlock
  <2>3. final < p
    BY <1>1, <2>1, <2>2, LogRows
  <2> QED BY <1>1, <2>1, <2>3, LogRows
<1> QED BY <1>2, <1>3

LEMMA GatewayStarts ==
  ASSUME GatewayInv, LogInv, NEW r \in Runners, GatewayStart(r)
  PROVE  GatewayInv'
<1> DEFINE flowC == {p \in Finalized \cap FlowRows : Log[p].block >= cpGateway["flow"] /\ p \notin flows}
           claimantC == {p \in Finalized \cap ClaimantRows :
                           /\ Log[p].block >= cpGateway["claimant"]
                           /\ ClaimantKey(p) \notin DOMAIN claimants}
           balanceC == {p \in LatestTouch(Finalized \cap BalanceRows) :
                          /\ BalanceKey(p) \notin DOMAIN balances
                          /\ Log[p].block >= cpGateway["balance"]}
           list == [flow |-> FlowCandidates, claimant |-> ClaimantCandidates, balance |-> BalanceCandidates]
           C(a) == CASE a = "flow" -> flowC [] a = "claimant" -> claimantC [] a = "balance" -> balanceC
           n(a) == CASE a = "flow" -> FlowLimit [] a = "claimant" -> ClaimantLimit [] a = "balance" -> BalanceLimit
<1>1. /\ UNCHANGED <<flows, claimants, balances, cpGateway, final>>
      /\ run' = [run EXCEPT ![r] = [axis |-> "flow", touched |-> 0, todo |-> list]]
  BY DEF GatewayStart, logVars
<1>2. ASSUME NEW a \in AxisSet
      PROVE  /\ C(a) \subseteq Finalized \cap DueRows(a) /\ n(a) \in Nat \ {0}
             /\ list[a] = FirstRows(C(a), n(a))
  <2>1. n(a) \in Nat \ {0}
    BY GatewayAssumption DEF AxisSet
  <2>2. list[a] = FirstRows(C(a), n(a))
    BY DEF AxisSet, FlowCandidates, ClaimantCandidates, BalanceCandidates
  <2>3. C(a) \subseteq Finalized \cap DueRows(a)
    BY DEF AxisSet, DueRows, LatestTouch
  <2> QED BY <2>1, <2>2, <2>3
<1>3. ASSUME NEW a \in AxisSet, NEW p \in Finalized \cap DueRows(a), Log[p].block >= cpGateway[a], ~Held(a, p)
      PROVE  \E q \in C(a) : SameKey(a, p, q) /\ Log[q].block = Log[p].block
  <2>1. CASE a = "flow"
    BY <1>3, <2>1 DEF Held, DueRows, SameKey
  <2>2. CASE a = "claimant"
    BY <1>3, <2>2 DEF Held, DueRows, SameKey
  <2>3. CASE a = "balance"
    <3>1. PICK q \in LatestTouch(Finalized \cap BalanceRows) :
            BalanceKey(q) = BalanceKey(p) /\ Log[q].block = Log[p].block
      BY <2>3, TouchOf DEF DueRows
    <3> QED BY <1>3, <2>3, <3>1 DEF Held, DueRows, SameKey
  <2> QED BY <2>1, <2>2, <2>3 DEF AxisSet
<1>4. \A a \in AxisSet : list[a] \subseteq Finalized \cap DueRows(a)
  <2>1. ASSUME NEW a \in AxisSet PROVE FirstRows(C(a), n(a)) \subseteq C(a)
    <3>1. C(a) \in SUBSET Rows
      BY <1>2 DEF Finalized
    <3> HIDE DEF C, n
    <3> QED BY <1>2, <3>1, FirstRowsOf
  <2> HIDE DEF C, n, list
  <2> QED BY <1>2, <2>1
<1>5. list \in [AxisSet -> SUBSET Rows]
  <2>1. list = [a \in AxisSet |-> list[a]]
    BY DEF AxisSet
  <2>2. \A a \in AxisSet : list[a] \in SUBSET Rows
    BY <1>4 DEF Finalized
  <2> HIDE DEF list
  <2> QED BY <2>1, <2>2
<1>6. ASSUME NEW a \in AxisSet, NEW p \in Finalized \cap DueRows(a), NEW q \in list[a], Log[p].block < Log[q].block
      PROVE  Held(a, p) \/ \E s \in list[a] : SameKey(a, p, s)
  <2> HIDE DEF C, n, list
  <2> QED BY <1>2, <1>3, <1>6, ListFromCandidates
<1>7. list["balance"] \subseteq LatestTouch(BalanceRows)
  <2>1. balanceC \in SUBSET Rows /\ balanceC \subseteq LatestTouch(BalanceRows)
    BY FinalTouches DEF LatestTouch, Finalized
  <2>2. BalanceLimit \in Nat \ {0}
    BY GatewayAssumption
  <2>3. FirstRows(balanceC, BalanceLimit) \subseteq balanceC
    <3> HIDE DEF balanceC
    <3> QED BY <2>1, <2>2, FirstRowsOf
  <2> QED BY <2>1, <2>3 DEF BalanceCandidates
<1> HIDE DEF C, n, list, flowC, claimantC, balanceC
<1>8. /\ run'[r] = [axis |-> "flow", touched |-> 0, todo |-> list]
      /\ \A u \in Runners \ {r} : run'[u] = run[u]
      /\ run' \in [Runners -> [axis : AxisSet \cup {"idle"}, todo : [AxisSet -> SUBSET Rows], touched : Nat]]
  BY <1>1, <1>5 DEF GatewayInv, GatewayTypeOK, AxisSet
<1>9. GatewayTypeOK'
  BY <1>1, <1>8 DEF GatewayInv, GatewayTypeOK
<1>10. ASSUME NEW u \in Runners PROVE ListsAreDue(u)'
  <2>1. CASE u = r
    BY <1>1, <1>4, <1>7, <1>8, <2>1 DEF ListsAreDue, UpToFinal, Finalized
  <2>2. CASE u # r
    BY <1>1, <1>8, <2>2 DEF GatewayInv, ListsAreDue, UpToFinal, Finalized
  <2> QED BY <2>1, <2>2
<1>11. ASSUME NEW u \in Runners, NEW a \in AxisSet PROVE ListCovers(u, a)'
  <2>1. CASE u = r
    <3> SUFFICES ASSUME NEW p \in Finalized \cap DueRows(a), NEW b \in InPlay(r, a)', Log[p].block < b
                 PROVE  Held(a, p) \/ \E s \in list[a] : SameKey(a, p, s)
      BY <1>1, <1>8, <2>1 DEF ListCovers, Held, Finalized
    <3>1. b = 0 \/ \E q \in list[a] : b = Log[q].block
      BY <1>8 DEF InPlay
    <3>2. b # 0
      BY LogRows DEF Finalized
    <3> QED BY <1>6, <3>1, <3>2
  <2>2. CASE u # r
    BY <1>1, <1>8, <2>2 DEF GatewayInv, ListCovers, InPlay, Held, Finalized
  <2> QED BY <2>1, <2>2
<1> QED BY <1>1, <1>9, <1>10, <1>11 DEF GatewayInv, UpToFinal, Finalized, BalanceTriggerIsLastTouch, GatewayNothingSkipped, Held

(* A row of the current axis is written: its key leaves the list for the table. *)
LEMMA GatewayWrites ==
  ASSUME GatewayInv, LogInv, NEW r \in Runners, NEW a \in AxisSet, NEW p,
         run[r].axis = a, p \in run[r].todo[a], Done(r, a, p),
         UNCHANGED <<final, cpGateway>>, GatewayTypeOK', Held(a, p)',
         flows \subseteq flows', DOMAIN claimants \subseteq DOMAIN claimants', DOMAIN balances \subseteq DOMAIN balances',
         BalanceTriggerIsLastTouch'
  PROVE  GatewayInv'
<1>1. /\ run'[r].axis = a /\ run'[r].touched = Log[p].block /\ run'[r].todo[a] = run[r].todo[a] \ {p}
      /\ \A c \in AxisSet : c # a => run'[r].todo[c] = run[r].todo[c]
      /\ \A u \in Runners \ {r} : run'[u] = run[u]
  BY DEF Done, GatewayInv, GatewayTypeOK
<1>2. \A c \in AxisSet, q \in Rows : Held(c, q) => Held(c, q)'
  BY HeldStays
<1>3. ListsAreDue(r) /\ p \in Finalized /\ p \in DueRows(a) /\ UpToFinal(Log[p].block)
  BY LogRows DEF GatewayInv, ListsAreDue, UpToFinal, Finalized
<1>4. ASSUME NEW u \in Runners PROVE ListsAreDue(u)'
  <2>1. CASE u = r
    BY <1>1, <1>3, <2>1 DEF ListsAreDue, UpToFinal, Finalized, AxisSet
  <2>2. CASE u # r
    BY <1>1, <2>2 DEF GatewayInv, ListsAreDue, UpToFinal, Finalized
  <2> QED BY <2>1, <2>2
<1>5. ASSUME NEW u \in Runners, NEW c \in AxisSet, NEW q \in Finalized \cap DueRows(c),
             NEW b \in InPlay(u, c)', Log[q].block < b
      PROVE  Held(c, q)' \/ \E s \in run'[u].todo[c] : SameKey(c, q, s)
  <2>1. b \in InPlay(u, c) /\ q \in Rows
    <3>1. CASE u = r /\ c = a
      BY <1>1, <3>1 DEF InPlay, Finalized
    <3>2. CASE u = r /\ c # a
      BY <1>1, <3>2 DEF InPlay, Finalized
    <3>3. CASE u # r
      BY <1>1, <3>3 DEF InPlay, Finalized
    <3> QED BY <3>1, <3>2, <3>3
  <2>2. Held(c, q) \/ \E s \in run[u].todo[c] : SameKey(c, q, s)
    BY <1>5, <2>1 DEF GatewayInv, ListCovers
  <2>3. CASE Held(c, q)
    BY <1>2, <2>1, <2>3
  <2>4. ASSUME NEW s \in run[u].todo[c], SameKey(c, q, s)
        PROVE  Held(c, q)' \/ \E t \in run'[u].todo[c] : SameKey(c, q, t)
    <3>1. CASE u = r /\ c = a /\ s = p
      BY <1>3, <2>4, <3>1 DEF Held, DueRows, SameKey, AxisSet
    <3>2. CASE ~ (u = r /\ c = a /\ s = p)
      BY <1>1, <2>4, <3>2
    <3> QED BY <3>1, <3>2
  <2> QED BY <2>2, <2>3, <2>4
<1>6. \A u \in Runners, c \in AxisSet : ListCovers(u, c)'
  BY <1>5 DEF ListCovers, Finalized
<1>7. GatewayNothingSkipped'
  BY <1>2 DEF GatewayInv, GatewayNothingSkipped, Finalized
<1>8. \A c \in AxisSet : UpToFinal(cpGateway[c])'
  BY DEF GatewayInv, UpToFinal, Finalized
<1> QED BY <1>4, <1>6, <1>7, <1>8 DEF GatewayInv

LEMMA GatewayUpserts ==
  ASSUME GatewayInv, LogInv, NEW r \in Runners, UpsertFlow(r) \/ UpsertClaimant(r) \/ UpsertBalance(r)
  PROVE  GatewayInv'
<1>0. \A a \in AxisSet : run[r].todo[a] \in SUBSET Rows /\ run[r].todo[a] \subseteq Finalized \cap DueRows(a)
  BY DEF GatewayInv, GatewayTypeOK, ListsAreDue
<1>t. ASSUME NEW a \in AxisSet, NEW p \in Rows, Done(r, a, p)
      PROVE  run' \in [Runners -> [axis : AxisSet \cup {"idle"}, todo : [AxisSet -> SUBSET Rows], touched : Nat]]
  <2> DEFINE Run == [axis : AxisSet \cup {"idle"}, todo : [AxisSet -> SUBSET Rows], touched : Nat]
             new == [run[r] EXCEPT !.todo[a] = @ \ {p}, !.touched = Log[p].block]
  <2>1. run \in [Runners -> Run] /\ run[r] \in Run /\ Log[p].block \in Nat
    BY LogRows DEF GatewayInv, GatewayTypeOK
  <2>2. run' = [run EXCEPT ![r] = new]
    BY <1>t DEF Done
  <2>3. [run[r].todo EXCEPT ![a] = @ \ {p}] \in [AxisSet -> SUBSET Rows]
    BY <2>1
  <2>4. new \in Run
    BY <2>1, <2>3
  <2> HIDE DEF Run, new
  <2>6. run' \in [Runners -> Run]
    BY <2>1, <2>2, <2>4
  <2> QED BY <2>6 DEF Run
<1>1. CASE UpsertFlow(r)
  <2>1. /\ run[r].axis = "flow" /\ run[r].todo["flow"] # {}
        /\ UNCHANGED <<claimants, balances, cpGateway, final>>
    BY <1>1 DEF UpsertFlow, logVars
  <2>2. PICK p \in run[r].todo["flow"] \cap FlowRows : flows' = flows \cup {p} /\ Done(r, "flow", p)
    BY <1>0, <1>1, <2>1, RowExtremes DEF UpsertFlow, AxisSet, DueRows
  <2>3. p \in Rows
    BY <1>0, <2>2 DEF AxisSet
  <2>4. GatewayTypeOK'
    BY <1>t, <2>1, <2>2, <2>3 DEF GatewayInv, GatewayTypeOK, AxisSet
  <2>5. Held("flow", p)' /\ BalanceTriggerIsLastTouch'
    BY <2>1, <2>2 DEF Held, GatewayInv, BalanceTriggerIsLastTouch
  <2> QED BY <2>1, <2>2, <2>4, <2>5, GatewayWrites DEF AxisSet
<1>2. CASE UpsertClaimant(r)
  <2>1. /\ run[r].axis = "claimant" /\ run[r].todo["claimant"] # {}
        /\ UNCHANGED <<flows, balances, cpGateway, final>>
    BY <1>2 DEF UpsertClaimant, logVars
  <2>2. PICK p \in run[r].todo["claimant"] \cap ClaimantRows :
          /\ Done(r, "claimant", p)
          /\ claimants' = [k \in DOMAIN claimants \cup {ClaimantKey(p)} |->
                              IF k = ClaimantKey(p) THEN p ELSE claimants[k]]
    BY <1>0, <1>2, <2>1, RowExtremes DEF UpsertClaimant, AxisSet, DueRows
  <2>3. p \in Rows
    BY <1>0, <2>2 DEF AxisSet
  <2>4. /\ DOMAIN claimants' \subseteq {ClaimantKey(q) : q \in ClaimantRows}
        /\ \A k \in DOMAIN claimants' : claimants'[k] \in Rows
    BY <2>2, <2>3 DEF GatewayInv, GatewayTypeOK
  <2>5. GatewayTypeOK'
    BY <1>t, <2>1, <2>2, <2>3, <2>4 DEF GatewayInv, GatewayTypeOK, AxisSet
  <2>6. Held("claimant", p)' /\ BalanceTriggerIsLastTouch'
    BY <2>1, <2>2 DEF Held, GatewayInv, BalanceTriggerIsLastTouch
  <2> QED BY <2>1, <2>2, <2>5, <2>6, GatewayWrites DEF AxisSet
<1>3. CASE UpsertBalance(r)
  <2>1. /\ run[r].axis = "balance" /\ run[r].todo["balance"] # {}
        /\ UNCHANGED <<flows, claimants, cpGateway, final>>
    BY <1>3 DEF UpsertBalance, logVars
  <2>2. PICK p \in run[r].todo["balance"] \cap BalanceRows :
          /\ Done(r, "balance", p)
          /\ balances' = [k \in DOMAIN balances \cup {BalanceKey(p)} |->
                             IF k = BalanceKey(p) THEN p ELSE balances[k]]
    BY <1>0, <1>3, <2>1, RowExtremes DEF UpsertBalance, AxisSet, DueRows
  <2>3. p \in LatestTouch(BalanceRows) /\ p \in Rows
    BY <1>0, <2>2 DEF GatewayInv, ListsAreDue, AxisSet
  <2>4. /\ DOMAIN balances' \subseteq {BalanceKey(q) : q \in BalanceRows}
        /\ \A k \in DOMAIN balances' : balances'[k] \in Rows
    BY <2>2, <2>3 DEF GatewayInv, GatewayTypeOK
  <2>5. GatewayTypeOK'
    BY <1>t, <2>1, <2>2, <2>3, <2>4 DEF GatewayInv, GatewayTypeOK, AxisSet
  <2>6. Held("balance", p)'
    BY <2>2 DEF Held
  <2>7. BalanceTriggerIsLastTouch'
    BY <2>2, <2>3 DEF GatewayInv, BalanceTriggerIsLastTouch, LatestTouch
  <2> QED BY <2>1, <2>2, <2>5, <2>6, <2>7, GatewayWrites DEF AxisSet
<1> QED BY <1>1, <1>2, <1>3

LEMMA GatewayAdvances ==
  ASSUME GatewayInv, LogInv, NEW r \in Runners, AdvanceGateway(r)
  PROVE  GatewayInv'
<1> DEFINE a == run[r].axis
<1>1. a \in AxisSet /\ run[r].todo[a] = {} /\ UNCHANGED <<flows, claimants, balances, final>>
  BY DEF AdvanceGateway, GatewayInv, GatewayTypeOK, logVars
<1>2. /\ cpGateway' = [cpGateway EXCEPT ![a] = Greatest(@, run[r].touched)]
      /\ run' = [run EXCEPT ![r] = IF a = "balance" THEN NoRun
                                   ELSE [@ EXCEPT !.axis = NextAxis(a), !.touched = 0]]
  BY DEF AdvanceGateway
<1> HIDE DEF a
<1>3. /\ \A u \in Runners \ {r} : run'[u] = run[u]
      /\ run'[r].touched = 0 /\ run'[r].todo \in [AxisSet -> SUBSET Rows]
      /\ \A c \in AxisSet : run'[r].todo[c] \subseteq run[r].todo[c]
      /\ \A c \in AxisSet : run'[r].todo[c] = run[r].todo[c] \/ run'[r].todo[c] = {}
  BY <1>1, <1>2 DEF GatewayInv, GatewayTypeOK, NoRun, AxisSet
<1>4. /\ cpGateway'[a] \in {cpGateway[a], run[r].touched} /\ cpGateway[a] \in Nat /\ run[r].touched \in Nat
      /\ \A c \in AxisSet : c # a => cpGateway'[c] = cpGateway[c]
  BY <1>1, <1>2 DEF GatewayInv, GatewayTypeOK, Greatest
<1>5. GatewayTypeOK'
  <2>1. run'[r].axis \in AxisSet \cup {"idle"} /\ run'[r] \in [axis : AxisSet \cup {"idle"}, todo : [AxisSet -> SUBSET Rows], touched : Nat]
    BY <1>1, <1>2 DEF GatewayInv, GatewayTypeOK, NoRun, NextAxis, AxisSet
  <2>2. run' \in [Runners -> [axis : AxisSet \cup {"idle"}, todo : [AxisSet -> SUBSET Rows], touched : Nat]]
    BY <1>2, <1>3, <2>1 DEF GatewayInv, GatewayTypeOK
  <2>3. cpGateway' \in [AxisSet -> Nat]
    BY <1>1, <1>2, <1>4 DEF GatewayInv, GatewayTypeOK
  <2> QED BY <1>1, <2>2, <2>3 DEF GatewayInv, GatewayTypeOK
<1>6. ListsAreDue(r)
  BY DEF GatewayInv
<1>7. ASSUME NEW c \in AxisSet PROVE UpToFinal(cpGateway[c])'
  BY <1>1, <1>4, <1>6 DEF GatewayInv, ListsAreDue, UpToFinal, Finalized
<1>8. ASSUME NEW u \in Runners PROVE ListsAreDue(u)'
  <2>1. CASE u = r
    BY <1>1, <1>3, <1>6, <2>1 DEF ListsAreDue, UpToFinal, Finalized, AxisSet
  <2>2. CASE u # r
    BY <1>1, <1>3, <2>2 DEF GatewayInv, ListsAreDue, UpToFinal, Finalized
  <2> QED BY <2>1, <2>2
<1>9. ASSUME NEW u \in Runners, NEW c \in AxisSet PROVE ListCovers(u, c)'
  <2>1. CASE u = r
    <3> SUFFICES ASSUME NEW q \in Finalized \cap DueRows(c), NEW b \in InPlay(r, c)', Log[q].block < b
                 PROVE  Held(c, q) \/ \E s \in run'[r].todo[c] : SameKey(c, q, s)
      BY <1>1, <2>1 DEF ListCovers, Held, Finalized
    <3>1. PICK t \in run'[r].todo[c] : b = Log[t].block
      BY <1>3, LogRows DEF InPlay, Finalized
    <3>2. b \in InPlay(r, c) /\ run'[r].todo[c] = run[r].todo[c]
      BY <1>3, <3>1 DEF InPlay
    <3> QED BY <3>2 DEF GatewayInv, ListCovers
  <2>2. CASE u # r
    BY <1>1, <1>3, <2>2 DEF GatewayInv, ListCovers, InPlay, Held, Finalized
  <2> QED BY <2>1, <2>2
<1>10. ASSUME NEW c \in AxisSet, NEW p \in Finalized, Log[p].block < cpGateway'[c] PROVE Held(c, p)
  <2>1. CASE cpGateway'[c] = cpGateway[c]
    BY <1>10, <2>1 DEF GatewayInv, GatewayNothingSkipped
  <2>2. CASE c = a /\ cpGateway'[c] = run[r].touched
    <3>1. run[r].touched \in InPlay(r, a)
      BY DEF InPlay, a
    <3>2. p \in DueRows(a) => Held(a, p)
      BY <1>1, <1>10, <2>2, <3>1 DEF GatewayInv, ListCovers
    <3> QED BY <1>1, <2>2, <3>2, DueFacts DEF Finalized
  <2> QED BY <1>1, <1>4, <2>1, <2>2
<1>11. GatewayNothingSkipped' /\ BalanceTriggerIsLastTouch'
  BY <1>1, <1>10 DEF GatewayInv, GatewayNothingSkipped, BalanceTriggerIsLastTouch, Held, Finalized
<1> QED BY <1>5, <1>7, <1>8, <1>9, <1>11 DEF GatewayInv

LEMMA GatewayDies ==
  ASSUME GatewayInv, LogInv, NEW r \in Runners, GatewayFails(r)
  PROVE  GatewayInv'
<1>1. /\ UNCHANGED <<flows, claimants, balances, cpGateway, final>>
      /\ run' = [run EXCEPT ![r] = NoRun]
  BY DEF GatewayFails, Fault
<1>2. run'[r] = NoRun /\ \A u \in Runners \ {r} : run'[u] = run[u]
  BY <1>1 DEF GatewayInv, GatewayTypeOK
<1>3. GatewayTypeOK'
  BY <1>1 DEF GatewayInv, GatewayTypeOK, NoRun, AxisSet
<1>4. ASSUME NEW u \in Runners PROVE ListsAreDue(u)'
  BY <1>1, <1>2 DEF GatewayInv, ListsAreDue, UpToFinal, Finalized, NoRun, AxisSet
<1>5. ASSUME NEW u \in Runners, NEW a \in AxisSet PROVE ListCovers(u, a)'
  <2>1. CASE u = r
    <3>1. run'[r].todo[a] = {} /\ run'[r].axis # a
      BY <1>2 DEF NoRun, AxisSet
    <3>2. InPlay(r, a)' = {}
      BY <3>1 DEF InPlay
    <3> QED BY <2>1, <3>2 DEF ListCovers
  <2>2. CASE u # r
    BY <1>1, <1>2, <2>2 DEF GatewayInv, ListCovers, InPlay, Held, Finalized
  <2> QED BY <2>1, <2>2
<1>6. \A a \in AxisSet : UpToFinal(cpGateway[a])'
  BY <1>1 DEF GatewayInv, UpToFinal, Finalized
<1>7. GatewayNothingSkipped' /\ BalanceTriggerIsLastTouch'
  BY <1>1 DEF GatewayInv, GatewayNothingSkipped, BalanceTriggerIsLastTouch, Held, Finalized
<1> QED BY <1>3, <1>4, <1>5, <1>6, <1>7 DEF GatewayInv

LEMMA GatewayStarted == LogInit /\ GatewayInit => GatewayInv
<1> SUFFICES ASSUME LogInit, GatewayInit PROVE GatewayInv
  OBVIOUS
<1>1. GatewayTypeOK
  BY LogRows DEF LogInit, GatewayInit, GatewayTypeOK, NoRun, AxisSet
<1>2. \A r \in Runners : run[r] = NoRun
  BY DEF GatewayInit
<1>3. ASSUME NEW r \in Runners, NEW a \in AxisSet PROVE run[r].todo[a] = {} /\ InPlay(r, a) = {}
  BY <1>2 DEF InPlay, NoRun, AxisSet
<1>4. \A r \in Runners : ListsAreDue(r)
  BY <1>2, <1>3 DEF ListsAreDue, NoRun, UpToFinal, AxisSet
<1>5. GatewayNothingSkipped /\ BalanceTriggerIsLastTouch
  BY LogRows DEF GatewayInit, LogInit, GatewayNothingSkipped, BalanceTriggerIsLastTouch, Finalized
<1> QED BY <1>1, <1>3, <1>4, <1>5 DEF GatewayInv, ListCovers, GatewayInit, UpToFinal

LEMMA GatewayStep ==
  ASSUME GatewayInv, LogInv, GatewayNext
  PROVE  GatewayInv' /\ UNCHANGED final
<1>1. PICK r \in Runners : GatewayWorks(r) \/ GatewayFails(r)
  BY DEF GatewayNext
<1>2. UNCHANGED final
  BY <1>1 DEF GatewayWorks, GatewayFails, GatewayStart, UpsertFlow, UpsertClaimant, UpsertBalance,
              AdvanceGateway, Fault, logVars
<1> QED BY <1>1, <1>2, GatewayStarts, GatewayUpserts, GatewayAdvances, GatewayDies DEF GatewayWorks

-----------------------------------------------------------------------------
(* The staker loop of the daemon.                                          *)

Stages == {"flow", "pending", "exact", "claims", "read"}
Items == (Delegators \X Blocks) \cup Rows \cup Delegators

WorkType ==
  [stage : Stages, todo : SUBSET Items, retry : SUBSET Items, tries : 0..StaleRetries,
   got : SUBSET Items, mark : SUBSET Items, anchor : Int]

\* What a stage has on its lists.
WorkShape ==
  /\ work \in WorkType
  /\ work.retry # {} => work.tries > 0
  /\ work.stage \in {"flow", "pending"} => work = [NoWork EXCEPT !.stage = work.stage]
  /\ work.stage = "exact" => work.todo \cup work.retry \cup work.got \subseteq DOMAIN stakes /\ work.mark = {}
  /\ work.stage = "claims" => /\ work.todo \cup work.got \subseteq {p \in Claims : Log[p].who \in Delegators}
                              /\ work.retry = {} /\ work.mark = {}
  /\ work.stage = "read" => /\ work.todo \cup work.retry \cup work.got \cup work.mark \subseteq Delegators
                            /\ work.anchor \in NewRounds

\* A row that is not exact yet is still to be read or written ...
ExactSoFar ==
  work.stage = "exact" =>
    \A k \in DOMAIN stakes : k \in work.todo \cup work.retry \cup work.got \/ stakes[k].principal = Bonded[k]

\* ... and so is a delegator without a row at the anchor.
ToRefresh ==
  work.stage = "read" =>
    RefreshCandidates(Log[work.anchor].block) \subseteq work.todo \cup work.retry \cup work.got

TruthInv == TruthTypeOK /\ WorkShape /\ ExactSoFar /\ ReconciledRowsAreExact /\ ToRefresh

StakeRow == [principal : Nat, source : {"flow", "both", "round_refresh"},
             pending : {0} \cup {RoundOf[p] : p \in Rows}]

\* The tables, whatever the iteration is doing.
TruthTables ==
  /\ DOMAIN stakes \subseteq Delegators \X Blocks
  /\ \A k \in DOMAIN stakes : stakes[k] \in StakeRow
  /\ DOMAIN active \subseteq Delegators
  /\ cached \subseteq Delegators \X Blocks
  /\ cpFlow \in {0} \cup StakeEvents /\ cpRound \in Nat

LEMMA TruthTyped == WorkShape => (TruthTypeOK <=> TruthTables)
BY DEF WorkShape, WorkType, TruthTypeOK, TruthTables, StakeRow

LEMMA TruthStart == TruthInit => TruthInv
<1> SUFFICES ASSUME TruthInit PROVE TruthInv
  OBVIOUS
<1>1. work = NoWork /\ DOMAIN stakes = {} /\ DOMAIN active = {} /\ cached = {} /\ cpFlow = 0 /\ cpRound = 0
  BY DEF TruthInit
<1>2. WorkShape
  BY <1>1, TruthAssumption DEF WorkShape, WorkType, NoWork, Stages
<1>3. TruthTables
  BY <1>1 DEF TruthTables
<1> QED BY <1>1, <1>2, <1>3, TruthTyped DEF TruthInv, ExactSoFar, ReconciledRowsAreExact, ToRefresh, NoWork

\* An iteration that is not reading or comparing rows: nothing is claimed of them.
LEMMA IdleWork ==
  ASSUME TruthTables', work' = [NoWork EXCEPT !.stage = work'.stage], work'.stage \in {"flow", "pending"}
  PROVE  TruthInv'
<1>1. WorkShape'
  BY TruthAssumption DEF WorkShape, WorkType, NoWork, Stages
<1>2. TruthTypeOK'
  BY <1>1, TruthTyped, PTL
<1> QED BY <1>1, <1>2 DEF TruthInv, ExactSoFar, ReconciledRowsAreExact, ToRefresh

\* The rows the flow writes.
LEMMA FlowWrites ==
  ASSUME TruthTables, NEW D \in SUBSET Delegators
  PROVE  /\ DOMAIN WithEstimates(D) \subseteq Delegators \X Blocks
         /\ \A k \in DOMAIN WithEstimates(D) : WithEstimates(D)[k] \in StakeRow
         /\ DOMAIN WithActivity(D) \subseteq Delegators
<1>1. HistoryKeys(D) \subseteq Delegators \X Blocks
  BY TruthAssumption DEF HistoryKeys, KeyOf, Finalized
<1>2. \A k \in HistoryKeys(D) : Estimate[k] \in Nat
  BY <1>1, TruthAssumption
<1>3. DOMAIN WithEstimates(D) = DOMAIN stakes \cup HistoryKeys(D)
  BY DEF WithEstimates
<1>4. ASSUME NEW k \in DOMAIN WithEstimates(D) PROVE WithEstimates(D)[k] \in StakeRow
  <2>1. CASE k \notin HistoryKeys(D)
    BY <1>3, <1>4, <2>1 DEF WithEstimates, TruthTables
  <2>2. CASE k \in HistoryKeys(D)
    BY <1>2, <1>3, <1>4, <2>2 DEF WithEstimates, TruthTables, StakeRow
  <2> QED BY <2>1, <2>2
<1> QED BY <1>1, <1>3, <1>4 DEF WithActivity, TruthTables

LEMMA FlowSteps ==
  ASSUME TruthInv, FlowStage \/ FlowCut
  PROVE  TruthInv'
<1>0. TruthTables
  BY TruthTyped DEF TruthInv
<1>1. CASE FlowStage
  <2>1. Affected \in SUBSET Delegators /\ NewEvents \in SUBSET StakeEvents
    BY DEF Affected, NewEvents, FirstRows
  <2>2. cpFlow' \in {0} \cup StakeEvents
    <3>1. NewEvents # {} => Max(NewEvents) \in NewEvents
      BY <2>1, RowExtremes DEF StakeEvents
    <3> QED BY <1>0, <1>1, <2>1, <3>1 DEF FlowStage, TruthTables
  <2>3. TruthTables'
    BY <1>0, <1>1, <2>1, <2>2, FlowWrites DEF FlowStage, TruthTables, StakeRow
  <2>4. work' = [NoWork EXCEPT !.stage = "pending"] /\ work'.stage = "pending"
    BY <1>1 DEF FlowStage, NoWork
  <2> QED BY <2>3, <2>4, IdleWork
<1>2. CASE FlowCut
  <2>1. PICK D \in SUBSET Affected : stakes' = WithEstimates(D) /\ active' = WithActivity(D)
    BY <1>2 DEF FlowCut
  <2>2. D \in SUBSET Delegators
    BY <2>1 DEF Affected
  <2>3. TruthTables'
    BY <1>0, <1>2, <2>1, <2>2, FlowWrites DEF FlowCut, checkpoints, TruthTables, StakeRow
  <2>4. work' = [NoWork EXCEPT !.stage = work'.stage] /\ work'.stage = "flow"
    BY <1>2 DEF FlowCut, NoWork
  <2> QED BY <2>3, <2>4, IdleWork
<1> QED BY <1>1, <1>2

LEMMA StakerStops ==
  ASSUME TruthInv, StakerFails
  PROVE  TruthInv'
<1>1. TruthTables'
  BY TruthTyped DEF TruthInv, StakerFails, tables, checkpoints, TruthTables, StakeRow
<1>2. work' = [NoWork EXCEPT !.stage = work'.stage] /\ work'.stage = "flow"
  BY DEF StakerFails, NoWork
<1> QED BY <1>1, <1>2, IdleWork

LEMMA ExactStarts ==
  ASSUME TruthInv, PendingStart
  PROVE  TruthInv'
<1>1. /\ work' = [NoWork EXCEPT !.stage = "exact", !.todo = DOMAIN stakes \ cached,
                     !.got = DOMAIN stakes \cap cached, !.tries = StaleRetries]
      /\ UNCHANGED <<stakes, active, cached, cpFlow, cpRound>>
  BY DEF PendingStart, tables, checkpoints
<1>2. TruthTables /\ TruthTables'
  BY <1>1, TruthTyped DEF TruthInv, TruthTables, StakeRow
<1>3. DOMAIN stakes \subseteq Items
  BY <1>2 DEF TruthTables, Items
<1>4. /\ work'.stage = "exact" /\ work'.mark = {} /\ work'.retry = {} /\ work'.tries = StaleRetries
      /\ work'.todo = DOMAIN stakes \ cached /\ work'.got = DOMAIN stakes \cap cached /\ work'.anchor = 0
      /\ work' = [stage |-> "exact", todo |-> work'.todo, retry |-> {}, tries |-> StaleRetries,
                 got |-> work'.got, mark |-> {}, anchor |-> 0]
  BY <1>1 DEF NoWork
<1>5. work' \in WorkType
  BY <1>3, <1>4, TruthAssumption DEF WorkType, Stages
<1>6. WorkShape'
  BY <1>1, <1>4, <1>5 DEF WorkShape
<1>7. TruthTypeOK'
  BY <1>2, <1>6, TruthTyped, PTL
<1> QED BY <1>1, <1>4, <1>6, <1>7 DEF TruthInv, ExactSoFar, ReconciledRowsAreExact, ToRefresh, NoWork

\* A step that reads, or puts a stale answer back: the lists together stay as they are.
LEMMA ListsStay ==
  ASSUME TruthInv, UNCHANGED <<stakes, active, cpFlow, cpRound>>, cached' \subseteq Delegators \X Blocks,
         work' \in WorkType, work'.stage = work.stage, work'.anchor = work.anchor, work'.mark = work.mark,
         work.stage \in {"exact", "read"},
         work'.todo \cup work'.retry \cup work'.got = work.todo \cup work.retry \cup work.got,
         work'.retry # {} => work'.tries > 0
  PROVE  TruthInv'
<1>1. TruthTables /\ TruthTables'
  BY TruthTyped DEF TruthInv, TruthTables, StakeRow
<1>2. WorkShape'
  BY DEF TruthInv, WorkShape
<1>3. TruthTypeOK'
  BY <1>1, <1>2, TruthTyped, PTL
<1>4. ExactSoFar' /\ ReconciledRowsAreExact' /\ ToRefresh'
  BY DEF TruthInv, ExactSoFar, ReconciledRowsAreExact, ToRefresh, RefreshCandidates
<1> QED BY <1>2, <1>3, <1>4 DEF TruthInv

LEMMA StateReads ==
  ASSUME TruthInv, Retry \/ \E x \in work.todo : ReadState(x) \/ ReadStale(x)
  PROVE  TruthInv'
<1>0. work \in WorkType /\ WorkShape /\ TruthTables
  BY TruthTyped DEF TruthInv, WorkShape
<1>1. CASE Retry
  <2>1. /\ work' = [work EXCEPT !.todo = work.retry, !.retry = {}, !.tries = @ - 1]
        /\ work.todo = {} /\ work.retry # {} /\ UNCHANGED <<stakes, active, cached, cpFlow, cpRound>>
    BY <1>1 DEF Retry, tables, checkpoints
  <2>2. work.stage \in {"exact", "read"}
    BY <1>0, <2>1 DEF WorkShape, WorkType, Stages, NoWork
  <2>3. work' \in WorkType
    <3>1. work.tries - 1 \in 0..StaleRetries
      BY <1>0, <2>1, TruthAssumption DEF WorkShape, WorkType
    <3> QED BY <1>0, <2>1, <3>1 DEF WorkType
  <2>4. /\ work'.todo = work.retry /\ work'.retry = {} /\ work'.got = work.got
        /\ work'.stage = work.stage /\ work'.anchor = work.anchor /\ work'.mark = work.mark
    BY <1>0, <2>1 DEF WorkType
  <2>5. cached' \subseteq Delegators \X Blocks
    BY <1>0, <2>1 DEF TruthTables
  <2> QED BY <2>1, <2>2, <2>3, <2>4, <2>5, ListsStay
<1>2. ASSUME NEW x \in work.todo, ReadState(x) PROVE TruthInv'
  <2>1. /\ work' = [work EXCEPT !.todo = @ \ {x}, !.got = @ \cup {x}]
        /\ work.stage \in {"exact", "read"}
        /\ UNCHANGED <<stakes, active, cpFlow, cpRound>> /\ cached' = cached \cup {Call(x)}
    BY <1>2 DEF ReadState, tables, checkpoints
  <2>2. work' \in WorkType
    BY <1>0, <2>1 DEF WorkType
  <2>3. /\ work'.todo = work.todo \ {x} /\ work'.retry = work.retry /\ work'.got = work.got \cup {x}
        /\ work'.stage = work.stage /\ work'.anchor = work.anchor /\ work'.mark = work.mark
        /\ work'.tries = work.tries
    BY <1>0, <2>1 DEF WorkType
  <2>4. Call(x) \in Delegators \X Blocks
    BY <1>0, <2>1, TruthAssumption DEF Call, WorkShape, TruthTables, NewRounds
  <2>5. cached' \subseteq Delegators \X Blocks
    BY <1>0, <2>1, <2>4 DEF TruthTables
  <2> QED BY <1>0, <2>1, <2>2, <2>3, <2>5, ListsStay DEF WorkShape
<1>3. ASSUME NEW x \in work.todo, ReadStale(x) PROVE TruthInv'
  <2>1. /\ work' = [work EXCEPT !.todo = @ \ {x}, !.retry = @ \cup {x}]
        /\ work.stage \in {"exact", "read"} /\ work.tries > 0
        /\ UNCHANGED <<stakes, active, cached, cpFlow, cpRound>>
    BY <1>3 DEF ReadStale, tables, checkpoints
  <2>2. work' \in WorkType
    BY <1>0, <2>1 DEF WorkType
  <2>3. /\ work'.todo = work.todo \ {x} /\ work'.retry = work.retry \cup {x} /\ work'.got = work.got
        /\ work'.stage = work.stage /\ work'.anchor = work.anchor /\ work'.mark = work.mark
        /\ work'.tries = work.tries
    BY <1>0, <2>1 DEF WorkType
  <2>5. cached' \subseteq Delegators \X Blocks
    BY <1>0, <2>1 DEF TruthTables
  <2> QED BY <1>0, <2>1, <2>2, <2>3, <2>5, ListsStay DEF WorkShape
<1> QED BY <1>1, <1>2, <1>3

LEMMA RowsUpdated ==
  ASSUME TruthInv, ApplyExact
  PROVE  TruthInv'
<1>0. work \in WorkType /\ WorkShape /\ TruthTables /\ ExactSoFar
  BY TruthTyped DEF TruthInv, WorkShape
<1>1. PICK c \in SUBSET work.got :
        /\ stakes' = [k \in DOMAIN stakes |->
               IF k \in c THEN [stakes[k] EXCEPT !.principal = Bonded[k]] ELSE stakes[k]]
        /\ work' = [work EXCEPT !.got = @ \ c]
  BY DEF ApplyExact, Chunks
<1>2. /\ work.stage = "exact" /\ work.todo = {} /\ work.retry = {}
      /\ UNCHANGED <<active, cached, cpFlow, cpRound>>
  BY DEF ApplyExact, ReadsDone, checkpoints
<1>3. /\ work' \in WorkType /\ work'.stage = "exact" /\ work'.todo = {} /\ work'.retry = {}
      /\ work'.got = work.got \ c /\ work'.mark = work.mark
  BY <1>0, <1>1, <1>2 DEF WorkType
<1>4. DOMAIN stakes' = DOMAIN stakes
  BY <1>1
<1>5. ASSUME NEW k \in DOMAIN stakes
      PROVE  /\ stakes'[k] \in StakeRow
             /\ k \in c => stakes'[k].principal = Bonded[k]
             /\ k \notin c => stakes'[k] = stakes[k]
  <2>1. Bonded[k] \in Nat /\ stakes[k] \in StakeRow
    BY <1>0, TruthAssumption DEF TruthTables
  <2> QED BY <1>1, <2>1 DEF StakeRow
<1>6. TruthTables'
  BY <1>0, <1>2, <1>4, <1>5 DEF TruthTables, StakeRow
<1>7. WorkShape'
  BY <1>0, <1>2, <1>3, <1>4 DEF WorkShape
<1>8. ExactSoFar' /\ ReconciledRowsAreExact' /\ ToRefresh'
  BY <1>0, <1>2, <1>3, <1>4, <1>5 DEF ExactSoFar, ReconciledRowsAreExact, ToRefresh
<1>9. TruthTypeOK'
  BY <1>6, <1>7, TruthTyped, PTL
<1> QED BY <1>7, <1>8, <1>9 DEF TruthInv

LEMMA ClaimSteps ==
  ASSUME TruthInv, ClaimsStart \/ ApplyClaims \/ \E x \in work.todo : ReadClaim(x) \/ SkipClaim(x)
  PROVE  TruthInv'
<1>0. work \in WorkType /\ WorkShape /\ TruthTables /\ ExactSoFar /\ ReconciledRowsAreExact
  BY TruthTyped DEF TruthInv, WorkShape
<1> DEFINE Due == {p \in Claims : Log[p].who \in Delegators}
           Exact == \A k \in DOMAIN stakes : stakes[k].principal = Bonded[k]
<1>1. Exact
  BY <1>0 DEF ClaimsStart, ApplyClaims, ReadClaim, SkipClaim, ReadsDone, ExactSoFar, ReconciledRowsAreExact
<1>2. /\ DOMAIN stakes' = DOMAIN stakes /\ UNCHANGED <<active, cached, cpFlow, cpRound>>
      /\ \A k \in DOMAIN stakes : stakes'[k] \in StakeRow /\ stakes'[k].principal = stakes[k].principal
  <2>1. CASE ClaimsStart \/ \E x \in work.todo : ReadClaim(x) \/ SkipClaim(x)
    BY <1>0, <2>1 DEF ClaimsStart, ReadClaim, SkipClaim, tables, checkpoints, TruthTables
  <2>2. CASE ApplyClaims
    <3>1. PICK c \in SUBSET work.got :
            stakes' = [k \in DOMAIN stakes |->
                 IF \E p \in c : KeyOf(p) = k
                 THEN [stakes[k] EXCEPT !.source = "both",
                          !.pending = RoundOf[CHOOSE p \in c : KeyOf(p) = k]]
                 ELSE stakes[k]]
      BY <2>2 DEF ApplyClaims, Chunks
    <3>2. c \subseteq Rows
      BY <1>0, <2>2 DEF ApplyClaims, ReadsDone, WorkShape, Claims
    <3>3. ASSUME NEW k \in DOMAIN stakes, \E p \in c : KeyOf(p) = k
          PROVE  RoundOf[CHOOSE p \in c : KeyOf(p) = k] \in {RoundOf[p] : p \in Rows}
      BY <3>2, <3>3
    <3>4. ASSUME NEW k \in DOMAIN stakes
          PROVE  stakes'[k] \in StakeRow /\ stakes'[k].principal = stakes[k].principal
      <4>1. stakes[k] \in StakeRow
        BY <1>0 DEF TruthTables
      <4>2. CASE \E p \in c : KeyOf(p) = k
        <5> DEFINE r == RoundOf[CHOOSE p \in c : KeyOf(p) = k]
        <5>1. stakes'[k] = [stakes[k] EXCEPT !.source = "both", !.pending = r]
          BY <3>1, <4>2
        <5>2. r \in {0} \cup {RoundOf[p] : p \in Rows}
          BY <3>3, <4>2
        <5> HIDE DEF r
        <5> QED BY <4>1, <5>1, <5>2 DEF StakeRow
      <4>3. CASE ~ \E p \in c : KeyOf(p) = k
        BY <3>1, <4>1, <4>3
      <4> QED BY <4>2, <4>3
    <3> QED BY <2>2, <3>1, <3>4 DEF ApplyClaims, checkpoints
  <2> QED BY <2>1, <2>2
<1>3. /\ work' \in WorkType /\ work'.stage = "claims" /\ work'.retry = {} /\ work'.mark = {}
      /\ work'.todo \cup work'.got \subseteq Due
  <2>1. CASE ClaimsStart
    <3>1. work' = [NoWork EXCEPT !.stage = "claims", !.todo = Finalized \cap Due]
      <4>1. {p \in Finalized \cap Claims : Log[p].who \in Delegators} = Finalized \cap Due
        OBVIOUS
      <4> QED BY <2>1, <4>1 DEF ClaimsStart
    <3>2. Finalized \cap Due \subseteq Due /\ Finalized \cap Due \subseteq Items
      BY DEF Items, Claims
    <3>3. StaleRetries \in Nat
      BY TruthAssumption
    <3> DEFINE T == Finalized \cap Due
    <3>4. work' = [stage |-> "claims", todo |-> T, retry |-> {}, tries |-> 0, got |-> {},
                   mark |-> {}, anchor |-> 0]
      BY <3>1 DEF NoWork
    <3> HIDE DEF Due, T
    <3>5. T \in SUBSET Items /\ T \subseteq Due
      BY <3>2 DEF T
    <3> QED BY <3>3, <3>4, <3>5 DEF WorkType, Stages
  <2>2. CASE ApplyClaims
    <3>1. PICK c \in SUBSET work.got : work' = [work EXCEPT !.got = @ \ c]
      BY <2>2 DEF ApplyClaims, Chunks
    <3> QED BY <1>0, <2>2, <3>1 DEF ApplyClaims, ReadsDone, WorkShape, WorkType
  <2>3. ASSUME NEW x \in work.todo, ReadClaim(x) \/ SkipClaim(x)
        PROVE  /\ work' \in WorkType /\ work'.stage = "claims" /\ work'.retry = {} /\ work'.mark = {}
               /\ work'.todo \cup work'.got \subseteq Due
    <3>1. \/ work' = [work EXCEPT !.todo = @ \ {x}, !.got = @ \cup {x}]
          \/ work' = [work EXCEPT !.todo = @ \ {x}]
      BY <2>3 DEF ReadClaim, SkipClaim
    <3>2. work.stage = "claims"
      BY <2>3 DEF ReadClaim, SkipClaim
    <3>3. work' \in WorkType
      <4>1. CASE work' = [work EXCEPT !.todo = @ \ {x}, !.got = @ \cup {x}]
        BY <1>0, <4>1 DEF WorkType
      <4>2. CASE work' = [work EXCEPT !.todo = @ \ {x}]
        BY <1>0, <4>2 DEF WorkType
      <4> QED BY <3>1, <4>1, <4>2
    <3>4. /\ work'.stage = "claims" /\ work'.retry = work.retry /\ work'.mark = work.mark
          /\ work'.todo = work.todo \ {x} /\ work'.got \subseteq work.got \cup {x}
      BY <1>0, <3>1, <3>2 DEF WorkType
    <3> QED BY <1>0, <3>2, <3>3, <3>4 DEF WorkShape
  <2> QED BY <2>1, <2>2, <2>3
<1>4. WorkShape'
  BY <1>3 DEF WorkShape
<1>5. TruthTables'
  BY <1>0, <1>2 DEF TruthTables, StakeRow
<1>6. TruthTypeOK'
  BY <1>4, <1>5, TruthTyped, PTL
<1>7. ExactSoFar' /\ ReconciledRowsAreExact' /\ ToRefresh'
  BY <1>1, <1>2, <1>3 DEF ExactSoFar, ReconciledRowsAreExact, ToRefresh
<1> QED BY <1>4, <1>6, <1>7 DEF TruthInv

\* The refresh starts from the rows as they are ...
LEMMA RefreshStarts ==
  ASSUME TruthInv, CurrentStart
  PROVE  TruthInv'
<1>0. WorkShape /\ TruthTables /\ ReconciledRowsAreExact
  BY TruthTyped DEF TruthInv
<1>1. work.stage = "claims" /\ UNCHANGED <<stakes, active, cached, cpFlow, cpRound>>
  BY DEF CurrentStart, ReadsDone, tables, checkpoints
<1>2. TruthTables'
  BY <1>0, <1>1 DEF TruthTables, StakeRow
<1>3. CASE work' = NoWork
  <2>1. work' = [NoWork EXCEPT !.stage = work'.stage] /\ work'.stage = "flow"
    BY <1>3 DEF NoWork
  <2> QED BY <1>2, <2>1, IdleWork
<1>4. CASE work' # NoWork
  <2> DEFINE C == RefreshCandidates(Log[Anchor].block)
  <2>1. /\ work' = [NoWork EXCEPT !.stage = "read", !.anchor = Anchor, !.tries = StaleRetries, !.todo = C]
        /\ Finalized \cap NewRounds # {}
    BY <1>4 DEF CurrentStart
  <2>2. Anchor \in NewRounds /\ Anchor \in Int
    <3>1. Finalized \cap NewRounds \in SUBSET Rows
      BY DEF NewRounds
    <3>2. \E p \in Finalized \cap NewRounds : \A q \in Finalized \cap NewRounds : q <= p
      BY <2>1, <3>1, RowExtremes
    <3> QED BY <3>1, <3>2, LogRows DEF Anchor
  <2>3. C \subseteq Delegators /\ C \subseteq Items
    BY DEF RefreshCandidates, Items
  <2> HIDE DEF C
  <2>4. /\ work' = [stage |-> "read", todo |-> C, retry |-> {}, tries |-> StaleRetries, got |-> {},
                    mark |-> {}, anchor |-> Anchor]
    BY <2>1 DEF NoWork
  <2>5. WorkShape'
    BY <2>2, <2>3, <2>4, TruthAssumption DEF WorkShape, WorkType, Stages
  <2>6. TruthTypeOK'
    BY <1>2, <2>5, TruthTyped, PTL
  <2>7. ReconciledRowsAreExact' /\ ExactSoFar'
    BY <1>0, <1>1, <2>4 DEF ReconciledRowsAreExact, ExactSoFar
  <2>8. ToRefresh'
    BY <1>1, <2>4 DEF ToRefresh, RefreshCandidates, C
  <2> QED BY <2>5, <2>6, <2>7, <2>8 DEF TruthInv
<1> QED BY <1>3, <1>4

\* ... writes rows at the anchor, which is what takes a delegator off the candidates ...
LEMMA StatesWritten ==
  ASSUME TruthInv, UpsertStates
  PROVE  TruthInv'
<1>0. work \in WorkType /\ WorkShape /\ TruthTables /\ ReconciledRowsAreExact /\ ToRefresh
  BY TruthTyped DEF TruthInv, WorkShape
<1> DEFINE b == Log[work.anchor].block
<1>1. /\ work.stage = "read" /\ work.todo = {} /\ work.retry = {} /\ work.mark = {}
      /\ UNCHANGED <<active, cached, cpFlow, cpRound>>
  BY DEF UpsertStates, ReadsDone, checkpoints
<1>2. PICK c \in SUBSET work.got :
        LET keys == {Call(d) : d \in c} IN
        /\ stakes' = [k \in DOMAIN stakes \cup keys |->
               IF k \in keys THEN [principal |-> Bonded[k], source |-> "round_refresh",
                                   pending |-> RoundOf[work.anchor]]
               ELSE stakes[k]]
        /\ work' = [work EXCEPT !.got = @ \ c, !.mark = c]
  BY DEF UpsertStates, Chunks
<1> DEFINE keys == {<<d, b>> : d \in c}
<1>3. {Call(d) : d \in c} = keys
  BY <1>1 DEF Call
<1>4. /\ DOMAIN stakes' = DOMAIN stakes \cup keys
      /\ \A k \in keys : stakes'[k] = [principal |-> Bonded[k], source |-> "round_refresh",
                                       pending |-> RoundOf[work.anchor]]
      /\ \A k \in DOMAIN stakes \ keys : stakes'[k] = stakes[k]
  BY <1>2, <1>3
<1>5. c \subseteq Delegators /\ b \in Blocks /\ b \in Nat /\ work.anchor \in Rows
  BY <1>0, <1>1, TruthAssumption, LogRows DEF WorkShape, NewRounds
<1>6. keys \subseteq Delegators \X Blocks
  BY <1>5
<1>7. /\ work' \in WorkType /\ work'.stage = "read" /\ work'.todo = {} /\ work'.retry = {}
      /\ work'.got = work.got \ c /\ work'.mark = c /\ work'.anchor = work.anchor
  BY <1>0, <1>1, <1>2 DEF WorkType
<1>8. ASSUME NEW k \in DOMAIN stakes' PROVE stakes'[k] \in StakeRow /\ stakes'[k].principal = Bonded[k]
  <2>1. CASE k \in keys
    <3>1. Bonded[k] \in Nat
      BY <1>6, <2>1, TruthAssumption
    <3>2. RoundOf[work.anchor] \in {RoundOf[p] : p \in Rows}
      BY <1>5
    <3>3. stakes'[k] = [principal |-> Bonded[k], source |-> "round_refresh", pending |-> RoundOf[work.anchor]]
      BY <1>4, <2>1
    <3> HIDE DEF keys
    <3> QED BY <3>1, <3>2, <3>3 DEF StakeRow
  <2>2. CASE k \notin keys
    BY <1>0, <1>1, <1>4, <2>2 DEF TruthTables, ReconciledRowsAreExact
  <2> QED BY <2>1, <2>2
<1>9. TruthTables'
  <2> HIDE DEF keys
  <2> QED BY <1>0, <1>1, <1>4, <1>6, <1>8 DEF TruthTables, StakeRow
<1>10. WorkShape'
  BY <1>0, <1>1, <1>7 DEF WorkShape
<1>11. TruthTypeOK'
  BY <1>9, <1>10, TruthTyped, PTL
<1>12. ReconciledRowsAreExact' /\ ExactSoFar'
  BY <1>7, <1>8 DEF ReconciledRowsAreExact, ExactSoFar
<1>13. ASSUME NEW d \in RefreshCandidates(b)' PROVE d \in work'.got
  <2>1. d \in Delegators /\ b' = b
    BY <1>7 DEF RefreshCandidates
  <2>2. PICK k \in DOMAIN stakes' :
          /\ k[1] = d /\ k[2] < b /\ stakes'[k].principal > 0
          /\ \A l \in DOMAIN stakes' : l[1] = d => l[2] <= k[2]
    BY <1>7, <1>13 DEF RefreshCandidates
  <2>3. d \notin c
    <3>1. CASE d \in c
      <4>1. <<d, b>> \in DOMAIN stakes' /\ <<d, b>>[1] = d /\ <<d, b>>[2] = b
        BY <1>4, <3>1
      <4>2. b <= k[2]
        BY <2>2, <4>1
      <4>3. k[2] \in Nat
        BY <1>9, <2>2, TruthAssumption DEF TruthTables
      <4> QED BY <1>5, <2>2, <4>2, <4>3
    <3> QED BY <3>1
  <2>4. k \in DOMAIN stakes \ keys
    BY <1>4, <2>2, <2>3
  <2>5. d \in RefreshCandidates(b)
    BY <1>4, <2>1, <2>2, <2>4 DEF RefreshCandidates
  <2> QED BY <1>0, <1>1, <1>7, <2>3, <2>5 DEF ToRefresh
<1>14. ToRefresh'
  BY <1>7, <1>13 DEF ToRefresh
<1> QED BY <1>10, <1>11, <1>12, <1>14 DEF TruthInv

\* ... and moves its checkpoint when nobody is left.
LEMMA RefreshEnds ==
  ASSUME TruthInv, UpdateActivity \/ AdvanceRound
  PROVE  TruthInv'
<1>0. work \in WorkType /\ WorkShape /\ TruthTables /\ ReconciledRowsAreExact /\ ToRefresh
  BY TruthTyped DEF TruthInv, WorkShape
<1>1. CASE UpdateActivity
  <2>1. /\ work' = [work EXCEPT !.mark = {}] /\ work.mark # {}
        /\ DOMAIN active' = DOMAIN active /\ UNCHANGED <<stakes, cached, cpFlow, cpRound>>
    BY <1>1 DEF UpdateActivity, checkpoints
  <2>2. work.stage = "read"
    BY <1>0, <2>1 DEF WorkShape, WorkType, Stages, NoWork
  <2>3. /\ work' \in WorkType /\ work'.stage = work.stage /\ work'.todo = work.todo
        /\ work'.retry = work.retry /\ work'.got = work.got /\ work'.mark = {}
        /\ work'.anchor = work.anchor /\ work'.tries = work.tries
    BY <1>0, <2>1 DEF WorkType
  <2>4. TruthTables'
    BY <1>0, <2>1 DEF TruthTables, StakeRow
  <2>5. WorkShape'
    BY <1>0, <2>2, <2>3 DEF WorkShape
  <2>6. TruthTypeOK'
    BY <2>4, <2>5, TruthTyped, PTL
  <2>7. ReconciledRowsAreExact' /\ ExactSoFar' /\ ToRefresh'
    BY <1>0, <2>1, <2>2, <2>3 DEF ReconciledRowsAreExact, ExactSoFar, ToRefresh, RefreshCandidates
  <2> QED BY <2>5, <2>6, <2>7 DEF TruthInv
<1>2. CASE AdvanceRound
  <2>1. work.anchor \in Rows /\ RoundOf[work.anchor] \in Nat
    BY <1>0, <1>2, TruthAssumption DEF AdvanceRound, ReadsDone, WorkShape, NewRounds
  <2>2. cpRound' \in Nat
    BY <1>0, <1>2, <2>1 DEF AdvanceRound, TruthTables, Greatest
  <2>3. TruthTables'
    BY <1>0, <1>2, <2>2 DEF AdvanceRound, tables, TruthTables, StakeRow
  <2>4. work' = [NoWork EXCEPT !.stage = work'.stage] /\ work'.stage = "flow"
    BY <1>2 DEF AdvanceRound, NoWork
  <2> QED BY <2>3, <2>4, IdleWork
<1> QED BY <1>1, <1>2

LEMMA TruthStep ==
  ASSUME TruthInv, TruthNext \/ UNCHANGED truthVars
  PROVE  TruthInv'
<1>1. CASE UNCHANGED truthVars
  BY <1>1 DEF truthVars, TruthInv, TruthTypeOK, WorkShape, ExactSoFar, ReconciledRowsAreExact, ToRefresh,
              RefreshCandidates
<1>2. CASE TruthNext
  BY <1>2, FlowSteps, ExactStarts, StateReads, RowsUpdated, ClaimSteps, RefreshStarts, StatesWritten,
     RefreshEnds, StakerStops DEF TruthNext, StakerWorks
<1> QED BY <1>1, <1>2

\* The round checkpoint moves only past rounds every delegator has been read at.
LEMMA RoundMoves ==
  ASSUME TruthInv, TruthNext, cpRound' > cpRound
  PROVE  RefreshCandidates(Log[work.anchor].block) = {}
<1>1. AdvanceRound \/ UNCHANGED cpRound
  BY DEF TruthNext, StakerWorks, FlowStage, PendingStart, Retry, ApplyExact, ClaimsStart, ApplyClaims,
         CurrentStart, UpsertStates, UpdateActivity, StakerFails, FlowCut, ReadState, ReadClaim,
         ReadStale, SkipClaim, checkpoints
<1>2. CASE AdvanceRound
  BY <1>2 DEF AdvanceRound, ReadsDone, TruthInv, ToRefresh
<1>3. CASE UNCHANGED cpRound
  <2>1. cpRound \in Nat
    BY DEF TruthInv, TruthTypeOK
  <2> QED BY <1>3, <2>1
<1> QED BY <1>1, <1>2, <1>3

-----------------------------------------------------------------------------
(* The receipts.                                                           *)

PassType == [at : {"asleep", "again", "fetch", "advance"}, todo : SUBSET Tx,
             open : SUBSET Tx, got : SUBSET Tx, upTo : Nat]

Settled(t) == t \in receipts \/ answers[t] = "null"

\* What lies below the block a pass goes to is settled, or in the pass.
PassCovers ==
  \A t \in FinalizedTx :
    BlockOfTx[t] < pass.upTo => Settled(t) \/ t \in pass.todo \cup pass.open \cup pass.got

ReceiptInv ==
  /\ ReceiptTypeOK
  /\ UpToFinal(cpReceipts) /\ UpToFinal(pass.upTo)
  /\ pass.at = "advance" => pass.todo = {} /\ pass.open = {} /\ pass.got \subseteq receipts
  /\ PassCovers
  /\ ReceiptsNothingSkipped

LEMMA TxFacts ==
  /\ \A p \in Rows : Log[p].tx \in Tx /\ BlockOfTx[Log[p].tx] = Log[p].block
  /\ \A t \in Tx : /\ FirstRowOf[t] \in Rows /\ Log[FirstRowOf[t]].tx = t
                   /\ Log[FirstRowOf[t]].block = BlockOfTx[t]
                   /\ \A p \in Rows : Log[p].tx = t => FirstRowOf[t] <= p
<1>1. ASSUME NEW p \in Rows PROVE Log[p].tx \in Tx /\ BlockOfTx[Log[p].tx] = Log[p].block
  <2> DEFINE t == Log[p].tx
  <2>1. t \in Tx
    BY DEF Tx
  <2>2. (CHOOSE q \in Rows : Log[q].tx = t) \in Rows /\ Log[CHOOSE q \in Rows : Log[q].tx = t].tx = t
    OBVIOUS
  <2> QED BY <2>1, <2>2, ReceiptAssumption DEF BlockOfTx
<1>2. ASSUME NEW t \in Tx
      PROVE  /\ FirstRowOf[t] \in Rows /\ Log[FirstRowOf[t]].tx = t
             /\ \A p \in Rows : Log[p].tx = t => FirstRowOf[t] <= p
  <2> DEFINE S == {p \in Rows : Log[p].tx = t}
  <2>1. S \in SUBSET Rows /\ S # {}
    BY DEF Tx
  <2>2. Min(S) \in S /\ \A p \in S : Min(S) <= p
    BY <2>1, RowExtremes
  <2>3. \E p \in Rows : Log[p].tx = t /\ \A q \in Rows : Log[q].tx = t => p <= q
    BY <2>2
  <2> QED BY <2>3 DEF FirstRowOf
<1> QED BY <1>1, <1>2

LEMMA ReceiptStarted == LogInit /\ ReceiptInit => ReceiptInv
<1> SUFFICES ASSUME LogInit, ReceiptInit PROVE ReceiptInv
  OBVIOUS
<1>1. FinalizedTx = {}
  BY LogRows DEF LogInit, FinalizedTx, Finalized
<1> QED BY <1>1 DEF ReceiptInit, NoPass, ReceiptInv, ReceiptTypeOK, UpToFinal, PassCovers, ReceiptsNothingSkipped

LEMMA ReceiptWaits ==
  ASSUME ReceiptInv, LogInv, FinalitySteps, UNCHANGED receiptVars
  PROVE  ReceiptInv'
<1> USE DEF receiptVars
<1>1. ReceiptTypeOK' /\ UpToFinal(cpReceipts)' /\ UpToFinal(pass.upTo)'
  BY FinalStays DEF ReceiptInv, ReceiptTypeOK
<1>2. ASSUME NEW t \in FinalizedTx', NEW b \in Nat, UpToFinal(b), BlockOfTx[t] < b
      PROVE  t \in FinalizedTx
  <2>1. PICK p \in Finalized' : Log[p].tx = t
    BY DEF FinalizedTx
  <2>2. p \in Rows /\ Log[p].block = BlockOfTx[t]
    BY <2>1, TxFacts DEF Finalized
  <2>3. p \in Finalized
    BY <1>2, <2>1, <2>2, NotBefore
  <2> QED BY <2>1, <2>3 DEF FinalizedTx
<1>3. cpReceipts \in Nat /\ pass.upTo \in Nat
  BY DEF ReceiptInv, ReceiptTypeOK
<1>4. PassCovers'
  BY <1>2, <1>3 DEF ReceiptInv, PassCovers, Settled
<1>5. ReceiptsNothingSkipped'
  BY <1>2, <1>3 DEF ReceiptInv, ReceiptsNothingSkipped
<1> QED BY <1>1, <1>4, <1>5 DEF ReceiptInv

\* A pass takes every transaction below its last one that is not settled.
LEMMA CandidatesCover ==
  ASSUME ReceiptInv, LogInv, ReceiptCandidates # {}
  PROVE  LET b == LastBlock(ReceiptCandidates) IN
         /\ ReceiptCandidates \subseteq Tx /\ b \in Nat /\ UpToFinal(b)
         /\ \A t \in FinalizedTx : BlockOfTx[t] < b => Settled(t) \/ t \in ReceiptCandidates
<1> DEFINE S == {q \in Finalized : /\ q = FirstRowOf[Log[q].tx]
                                   /\ Log[q].block >= cpReceipts
                                   /\ Log[q].tx \notin receipts}
           F == FirstRows(S, ReceiptLimit)
           C == ReceiptCandidates
           b == LastBlock(C)
<1>1. S \in SUBSET Rows /\ S \subseteq Finalized /\ ReceiptLimit \in Nat \ {0}
  BY ReceiptAssumption DEF Finalized
<1>2. /\ F \subseteq S /\ \A p \in F, q \in S : q < p => q \in F
  <2> HIDE DEF S
  <2> QED BY <1>1, FirstRowsOf
<1>3. C = {Log[p].tx : p \in F}
  BY DEF ReceiptCandidates
<1> HIDE DEF F, C
<1>4. F \in SUBSET Rows /\ F # {}
  BY <1>1, <1>2, <1>3 DEF C
<1>5. PICK m \in F : \A p \in F : p <= m
  <2> HIDE DEF F
  <2> QED BY <1>4, RowExtremes
<1>6. \A p \in F : Log[p].block <= Log[m].block
  BY <1>1, <1>2, <1>5, LogRows
<1>7. C \subseteq Tx /\ \A t \in C : \E p \in F : t = Log[p].tx /\ BlockOfTx[t] = Log[p].block
  BY <1>3, <1>4, TxFacts
<1>8. b \in {BlockOfTx[t] : t \in C} /\ \A t \in C : BlockOfTx[t] <= b
  <2>1. Log[m].tx \in C /\ BlockOfTx[Log[m].tx] = Log[m].block
    BY <1>3, <1>4, <1>5, TxFacts
  <2>2. \E c \in {BlockOfTx[t] : t \in C} : \A t \in C : BlockOfTx[t] <= c
    BY <1>6, <1>7, <2>1
  <2> QED BY <2>2 DEF LastBlock, C
<1>9. PICK n \in F : b = Log[n].block
  BY <1>7, <1>8
<1>10. b \in Nat /\ UpToFinal(b)
  BY <1>1, <1>2, <1>4, <1>9, LogRows DEF UpToFinal
<1>11. ASSUME NEW t \in FinalizedTx, BlockOfTx[t] < b, ~ Settled(t) PROVE t \in C
  <2> DEFINE q == FirstRowOf[t]
  <2>1. PICK p \in Finalized : t = Log[p].tx
    BY DEF FinalizedTx
  <2>2. /\ t \in Tx /\ q \in Rows /\ Log[q].tx = t /\ Log[q].block = BlockOfTx[t] /\ q <= p /\ p \in Rows
    BY <2>1, TxFacts DEF Finalized
  <2>3. q \in Finalized
    BY <2>1, <2>2, LogRows DEF Finalized, ReceiptInv, LogInv
  <2>4. Log[q].block >= cpReceipts
    BY <1>11, <2>2, LogRows DEF ReceiptInv, ReceiptsNothingSkipped, ReceiptTypeOK, Settled
  <2>5. q \in S
    BY <1>11, <2>2, <2>3, <2>4 DEF Settled
  <2>6. q < n
    BY <1>4, <1>9, <1>11, <2>2, LogRows
  <2> QED BY <1>2, <1>3, <1>9, <2>2, <2>5, <2>6
<1> QED BY <1>7, <1>10, <1>11 DEF C

LEMMA ReceiptStep ==
  ASSUME ReceiptInv, LogInv, ReceiptNext
  PROVE  ReceiptInv' /\ UNCHANGED final
<1> USE DEF logVars
<1>0. /\ pass \in PassType /\ receipts \in SUBSET Tx /\ cpReceipts \in Nat
      /\ answers \in [Tx -> {"none", "receipt", "null"}] /\ FinalizedTx \subseteq Tx
  BY TxFacts DEF ReceiptInv, ReceiptTypeOK, PassType, FinalizedTx, Finalized
<1>1. CASE ReceiptsIdle \/ ReceiptsFail
  <2>1. pass' = NoPass /\ UNCHANGED <<receipts, answers, cpReceipts, final>>
    BY <1>1 DEF ReceiptsIdle, ReceiptsFail, Fault
  <2>2. PassCovers'
    <3>1. \A t \in FinalizedTx : ~ (BlockOfTx[t] < 0)
      BY TxFacts, LogRows DEF FinalizedTx, Finalized
    <3> QED BY <2>1, <3>1 DEF PassCovers, NoPass, FinalizedTx, Finalized
  <2>3. ReceiptsNothingSkipped'
    BY <2>1 DEF ReceiptInv, ReceiptsNothingSkipped, FinalizedTx, Finalized
  <2> QED BY <1>0, <2>1, <2>2, <2>3 DEF ReceiptInv, ReceiptTypeOK, NoPass, UpToFinal, Finalized
<1>2. CASE ReceiptsStart
  <2> DEFINE b == LastBlock(ReceiptCandidates)
  <2>1. /\ pass' = [NoPass EXCEPT !.at = "fetch", !.todo = ReceiptCandidates, !.upTo = b]
        /\ ReceiptCandidates # {} /\ UNCHANGED <<receipts, answers, cpReceipts, final>>
    BY <1>2 DEF ReceiptsStart
  <2>2. /\ ReceiptCandidates \subseteq Tx /\ b \in Nat /\ UpToFinal(b)
        /\ \A t \in FinalizedTx : BlockOfTx[t] < b => Settled(t) \/ t \in ReceiptCandidates
    BY <2>1, CandidatesCover
  <2> HIDE DEF b
  <2>3. /\ pass' \in PassType /\ pass'.at = "fetch" /\ pass'.todo = ReceiptCandidates /\ pass'.upTo = b
    BY <2>1, <2>2 DEF NoPass, PassType
  <2>4. PassCovers'
    BY <2>1, <2>2, <2>3 DEF PassCovers, Settled, FinalizedTx, Finalized
  <2>5. ReceiptsNothingSkipped'
    BY <2>1 DEF ReceiptInv, ReceiptsNothingSkipped, FinalizedTx, Finalized
  <2>6. UpToFinal(cpReceipts)' /\ UpToFinal(pass.upTo)'
    BY <2>1, <2>2, <2>3 DEF ReceiptInv, UpToFinal, Finalized
  <2> QED BY <1>0, <2>1, <2>3, <2>4, <2>5, <2>6 DEF ReceiptInv, ReceiptTypeOK, PassType
<1>3. ASSUME NEW t \in Tx, FetchStart(t) PROVE ReceiptInv'
  <2>1. /\ pass' = [pass EXCEPT !.todo = @ \ {t}, !.open = @ \cup {t}] /\ pass.at = "fetch" /\ t \in pass.todo
        /\ UNCHANGED <<receipts, answers, cpReceipts, final>>
    BY <1>3 DEF FetchStart
  <2>2. /\ pass' \in PassType /\ pass'.at = "fetch" /\ pass'.todo = pass.todo \ {t}
        /\ pass'.open = pass.open \cup {t} /\ pass'.got = pass.got /\ pass'.upTo = pass.upTo
    BY <1>0, <2>1 DEF PassType
  <2>3. PassCovers'
    BY <2>1, <2>2 DEF ReceiptInv, PassCovers, Settled, FinalizedTx, Finalized
  <2>4. ReceiptsNothingSkipped' /\ UpToFinal(cpReceipts)' /\ UpToFinal(pass.upTo)'
    BY <2>1, <2>2 DEF ReceiptInv, ReceiptsNothingSkipped, FinalizedTx, Finalized, UpToFinal
  <2> QED BY <1>0, <2>1, <2>2, <2>3, <2>4 DEF ReceiptInv, ReceiptTypeOK, PassType
<1>4. ASSUME NEW t \in Tx, NEW a \in {"receipt", "null"}, FetchDone(t, a) PROVE ReceiptInv'
  <2>1. /\ pass' = [pass EXCEPT !.open = @ \ {t}, !.got = IF a = "null" THEN @ ELSE @ \cup {t}]
        /\ pass.at = "fetch" /\ t \in pass.open
        /\ answers[t] \in {"none", a} /\ answers' = [answers EXCEPT ![t] = a]
        /\ UNCHANGED <<receipts, cpReceipts, final>>
    BY <1>4 DEF FetchDone
  <2>2. /\ pass' \in PassType /\ pass'.at = "fetch" /\ pass'.todo = pass.todo
        /\ pass'.open = pass.open \ {t} /\ pass'.got = (IF a = "null" THEN pass.got ELSE pass.got \cup {t})
        /\ pass'.upTo = pass.upTo
    BY <1>0, <2>1 DEF PassType
  <2>3. /\ answers' \in [Tx -> {"none", "receipt", "null"}] /\ answers'[t] = a
        /\ \A u \in Tx : answers[u] = "null" => answers'[u] = "null"
    BY <1>0, <2>1
  <2>4. PassCovers'
    BY <1>0, <2>1, <2>2, <2>3 DEF ReceiptInv, PassCovers, Settled, FinalizedTx, Finalized
  <2>5. ReceiptsNothingSkipped' /\ UpToFinal(cpReceipts)' /\ UpToFinal(pass.upTo)'
    BY <1>0, <2>1, <2>2, <2>3 DEF ReceiptInv, ReceiptsNothingSkipped, FinalizedTx, Finalized, UpToFinal
  <2> QED BY <1>0, <2>1, <2>2, <2>3, <2>4, <2>5 DEF ReceiptInv, ReceiptTypeOK, PassType
<1>5. CASE InsertReceipts
  <2>1. /\ pass' = [pass EXCEPT !.at = "advance"] /\ receipts' = receipts \cup pass.got
        /\ pass.todo = {} /\ pass.open = {} /\ UNCHANGED <<answers, cpReceipts, final>>
    BY <1>5 DEF InsertReceipts
  <2>2. /\ pass' \in PassType /\ pass'.at = "advance" /\ pass'.todo = {} /\ pass'.open = {}
        /\ pass'.got = pass.got /\ pass'.upTo = pass.upTo
    BY <1>0, <2>1 DEF PassType
  <2>3. PassCovers' /\ ReceiptsNothingSkipped' /\ UpToFinal(cpReceipts)' /\ UpToFinal(pass.upTo)'
    BY <2>1, <2>2 DEF ReceiptInv, PassCovers, Settled, ReceiptsNothingSkipped, FinalizedTx, Finalized, UpToFinal
  <2>4. receipts' \in SUBSET Tx /\ pass'.got \subseteq receipts'
    BY <1>0, <2>1, <2>2 DEF PassType
  <2> QED BY <1>0, <2>1, <2>2, <2>3, <2>4 DEF ReceiptInv, ReceiptTypeOK, PassType
<1>6. CASE AdvanceReceipts
  <2>1. /\ pass' = [NoPass EXCEPT !.at = "again"] /\ pass.at = "advance"
        /\ cpReceipts' \in {cpReceipts, pass.upTo} /\ UNCHANGED <<receipts, answers, final>>
    BY <1>6 DEF AdvanceReceipts, Greatest
  <2>2. /\ pass' \in PassType /\ pass'.at = "again" /\ pass'.todo = {} /\ pass'.open = {}
        /\ pass'.got = {} /\ pass'.upTo = 0
    BY <2>1 DEF NoPass, PassType
  <2>3. PassCovers'
    <3>1. \A t \in FinalizedTx : ~ (BlockOfTx[t] < 0)
      BY TxFacts, LogRows DEF FinalizedTx, Finalized
    <3> QED BY <2>1, <2>2, <3>1 DEF PassCovers, FinalizedTx, Finalized
  <2>4. cpReceipts' \in Nat /\ UpToFinal(cpReceipts)' /\ UpToFinal(pass.upTo)'
    BY <1>0, <2>1, <2>2 DEF ReceiptInv, PassType, UpToFinal, Finalized
  <2>5. ReceiptsNothingSkipped'
    BY <2>1 DEF ReceiptInv, PassCovers, Settled, ReceiptsNothingSkipped, FinalizedTx, Finalized
  <2> QED BY <1>0, <2>1, <2>2, <2>3, <2>4, <2>5 DEF ReceiptInv, ReceiptTypeOK, PassType
<1>7. UNCHANGED final
  BY DEF ReceiptNext, ReceiptsWork, ReceiptsIdle, ReceiptsFail, Fault, ReceiptsStart, FetchStart, FetchDone,
         InsertReceipts, AdvanceReceipts
<1> QED BY <1>1, <1>2, <1>3, <1>4, <1>5, <1>6, <1>7 DEF ReceiptNext, ReceiptsWork

-----------------------------------------------------------------------------
(* The orchestrator profile.                                               *)

Accounts == {Log[p].to : p \in ProfileRows} \cup {Log[p].who : p \in Transfers}

BatchType == [at : {"idle", "walk"}, todo : SUBSET ProfileRows, known : SUBSET Accounts, upTo : Nat]

RoundDone(p) == \A o \in Orchestrators(p) : <<o, p>> \in stakeRows

\* Below the blocks a batch has been at, or has on its list, a round is done or listed.
BatchCovers ==
  \A p \in Finalized \cap RoundRows, b \in {batch.upTo} \cup {Log[q].block : q \in batch.todo} :
    Log[p].block < b => RoundDone(p) \/ p \in batch.todo

ProfileInv ==
  /\ ProfileTypeOK /\ batch \in BatchType /\ \A v \in profileView : v[1] \in Accounts
  /\ UpToFinal(cpProfile) /\ UpToFinal(batch.upTo) /\ batch.todo \subseteq Finalized
  /\ \A p \in batch.todo : Orchestrators(p) \subseteq batch.known
  /\ BatchCovers
  /\ RoundsAreComplete

LEMMA ProfileStarted == LogInit /\ ProfileInit => ProfileInv
<1> SUFFICES ASSUME LogInit, ProfileInit PROVE ProfileInv
  OBVIOUS
<1>1. Finalized = {}
  BY LogRows DEF LogInit, Finalized
<1> QED BY <1>1 DEF ProfileInit, NoBatch, ProfileInv, ProfileTypeOK, BatchType, UpToFinal, BatchCovers, RoundsAreComplete

LEMMA ProfileWaits ==
  ASSUME ProfileInv, LogInv, FinalitySteps, UNCHANGED profileVars
  PROVE  ProfileInv'
<1> USE DEF profileVars
<1>1. /\ ProfileTypeOK' /\ (batch \in BatchType)' /\ UpToFinal(cpProfile)' /\ UpToFinal(batch.upTo)'
      /\ \A v \in profileView' : v[1] \in Accounts
      /\ batch'.todo \subseteq Finalized' /\ \A p \in batch'.todo : Orchestrators(p) \subseteq batch'.known
  BY FinalStays, LaterBlocks DEF ProfileInv, ProfileTypeOK, BatchType
<1>2. cpProfile \in Nat /\ batch.upTo \in Nat /\ batch.todo \subseteq Rows
  BY DEF ProfileInv, ProfileTypeOK, ProfileRows
<1>3. ASSUME NEW p \in Finalized', NEW b \in Nat, UpToFinal(b), Log[p].block < b PROVE p \in Finalized
  BY <1>3, NotBefore
<1>4. ASSUME NEW b \in {batch.upTo} \cup {Log[q].block : q \in batch.todo} PROVE b \in Nat /\ UpToFinal(b)
  BY <1>2, <1>4, LogRows DEF ProfileInv, UpToFinal
<1>5. BatchCovers'
  BY <1>3, <1>4 DEF ProfileInv, BatchCovers, RoundDone
<1>6. RoundsAreComplete'
  BY <1>2, <1>3 DEF ProfileInv, RoundsAreComplete
<1> QED BY <1>1, <1>5, <1>6 DEF ProfileInv

LEMMA BatchStarts ==
  ASSUME ProfileInv, LogInv, ProfileStart
  PROVE  ProfileInv'
<1> DEFINE S == {p \in Finalized \cap ProfileRows : Log[p].block >= cpProfile}
           list == FirstRows(S, ProfileLimit)
           known == KnownBefore(cpProfile) \cup NamedIn(list)
<1>1. /\ batch' = [at |-> "walk", todo |-> list, upTo |-> cpProfile, known |-> known]
      /\ UNCHANGED <<stakeRows, profileView, cpProfile, final>>
  BY DEF ProfileStart, logVars
<1>2. S \in SUBSET Rows /\ S \subseteq Finalized /\ S \subseteq ProfileRows /\ ProfileLimit \in Nat \ {0}
  BY ProfileAssumption DEF Finalized
<1>3. /\ list \subseteq S /\ \A p \in list, q \in S : q < p => q \in list
  <2> HIDE DEF S
  <2> QED BY <1>2, FirstRowsOf
<1>4. known \subseteq Accounts
  <2>1. NamedIn(list) \subseteq Accounts
    BY <1>2, <1>3 DEF NamedIn, Accounts
  <2>2. KnownBefore(cpProfile) \subseteq Accounts
    BY DEF KnownBefore, Accounts, ProfileInv
  <2> QED BY <2>1, <2>2
<1>5. cpProfile \in Nat
  BY DEF ProfileInv, ProfileTypeOK
<1>6. ASSUME NEW p \in list, NEW o \in Orchestrators(p) PROVE o \in known
  <2>1. PICK q \in ProfileRows \ (RoundRows \cup Transfers) : q < p /\ Log[q].to # None /\ o = Log[q].to
    BY DEF Orchestrators
  <2>2. p \in Rows /\ p <= final /\ q \in Rows /\ Log[q].block \in Nat /\ final \in Nat
    BY <1>2, <1>3, LogRows DEF Finalized, ProfileRows, LogInv
  <2>3. CASE Log[q].block < cpProfile
    BY <2>1, <2>3 DEF KnownBefore
  <2>4. CASE Log[q].block >= cpProfile
    <3>1. q \in S
      BY <2>1, <2>2, <2>4, LogRows DEF Finalized
    <3> QED BY <1>3, <2>1, <3>1 DEF NamedIn
  <2> QED BY <1>5, <2>2, <2>3, <2>4
<1> HIDE DEF known, list
<1>7. batch' \in BatchType
  BY <1>1, <1>2, <1>3, <1>4, <1>5 DEF BatchType
<1>8. ProfileTypeOK'
  BY <1>1, <1>2, <1>3 DEF ProfileInv, ProfileTypeOK
<1>9. ASSUME NEW p \in Finalized \cap RoundRows, NEW b \in {cpProfile} \cup {Log[q].block : q \in list},
             Log[p].block < b, ~ RoundDone(p)
      PROVE  p \in list
  <2>1. p \in Rows /\ p \in ProfileRows /\ Log[p].block \in Nat
    BY LogRows DEF RoundRows, ProfileRows, Finalized
  <2>2. ~ (Log[p].block < cpProfile)
    BY <1>9 DEF ProfileInv, RoundsAreComplete, RoundDone
  <2>3. PICK q \in list : b = Log[q].block
    BY <1>9, <2>2
  <2>4. p < q /\ p \in S
    BY <1>2, <1>3, <1>5, <1>9, <2>1, <2>2, <2>3, LogRows
  <2> QED BY <1>3, <2>4
<1>10. BatchCovers' /\ RoundsAreComplete'
  BY <1>1, <1>9 DEF ProfileInv, BatchCovers, RoundDone, RoundsAreComplete, Finalized
<1>11. UpToFinal(cpProfile)' /\ UpToFinal(batch.upTo)' /\ batch'.todo \subseteq Finalized'
  BY <1>1, <1>2, <1>3 DEF ProfileInv, UpToFinal, Finalized
<1> QED BY <1>1, <1>6, <1>7, <1>8, <1>10, <1>11 DEF ProfileInv

\* A row of the batch is handled: it leaves the list, and a round leaves it done.
LEMMA RowHandled ==
  ASSUME ProfileInv, NEW K \in SUBSET Accounts, batch.todo # {}, batch' = Next1(batch.known \cup K),
         NEW h, h = Head1, h \in RoundRows => RoundDone(h)', stakeRows \subseteq stakeRows',
         stakeRows' \subseteq Accounts \X RoundRows, UNCHANGED <<profileView, cpProfile, final>>
  PROVE  ProfileInv'
<1>1. h \in batch.todo
  BY RowExtremes DEF ProfileInv, ProfileTypeOK, ProfileRows, Head1
<1>2. h \in ProfileRows /\ h \in Rows /\ h \in Finalized /\ Log[h].block \in Nat
  BY <1>1, LogRows DEF ProfileInv, ProfileTypeOK, ProfileRows
<1>3. /\ batch' = [batch EXCEPT !.todo = @ \ {h}, !.known = batch.known \cup K, !.upTo = Log[h].block]
  BY <1>1 DEF Next1
<1>4. /\ batch' \in BatchType /\ batch'.todo = batch.todo \ {h} /\ batch'.known = batch.known \cup K
      /\ batch'.upTo = Log[h].block /\ batch'.at = batch.at
  BY <1>2, <1>3 DEF ProfileInv, BatchType
<1>5. ProfileTypeOK'
  BY <1>4 DEF ProfileInv, ProfileTypeOK, BatchType, Accounts
<1>6. \A p \in Rows : RoundDone(p) => RoundDone(p)'
  BY DEF RoundDone
<1>7. BatchCovers'
  <2> SUFFICES ASSUME NEW p \in Finalized \cap RoundRows,
                      NEW b \in {Log[h].block} \cup {Log[q].block : q \in batch.todo \ {h}},
                      Log[p].block < b
               PROVE  RoundDone(p)' \/ p \in batch.todo \ {h}
    BY <1>4 DEF BatchCovers, Finalized
  <2>1. RoundDone(p) \/ p \in batch.todo
    BY <1>1 DEF ProfileInv, BatchCovers
  <2>2. p \in Rows
    BY DEF Finalized
  <2>3. CASE p = h
    BY <2>3
  <2> QED BY <1>6, <2>1, <2>2, <2>3
<1>8. RoundsAreComplete'
  BY DEF ProfileInv, RoundsAreComplete, Finalized
<1>9. UpToFinal(cpProfile)' /\ UpToFinal(batch.upTo)' /\ batch'.todo \subseteq Finalized'
  <2>1. Finalized' = Finalized
    BY DEF Finalized
  <2>2. UpToFinal(Log[h].block)
    BY <1>2 DEF UpToFinal
  <2> QED BY <1>4, <2>1, <2>2 DEF ProfileInv, UpToFinal
<1> QED BY <1>4, <1>5, <1>7, <1>8, <1>9 DEF ProfileInv

LEMMA ProfileStep ==
  ASSUME ProfileInv, LogInv, ProfileNext
  PROVE  ProfileInv' /\ UNCHANGED final
<1> USE DEF logVars
<1>0. /\ stakeRows \subseteq Accounts \X RoundRows /\ batch \in BatchType /\ cpProfile \in Nat
      /\ (batch.todo # {} => Head1 \in batch.todo /\ Head1 \in ProfileRows)
  BY RowExtremes DEF ProfileInv, ProfileTypeOK, Accounts, Head1, ProfileRows
<1>f. UNCHANGED final
  BY DEF ProfileNext, ProfileWorks, ProfileStart, SnapshotRound, LearnTransfer, LearnOrchestrator,
         AdvanceProfile, ProfileFails, Fault, RefreshProfileView
<1> SUFFICES ProfileInv'
  BY <1>f
<1>1. CASE ProfileStart
  BY <1>1, BatchStarts
<1>h. PICK h : h = Head1
  OBVIOUS
<1>2. CASE SnapshotRound
  <2>1. /\ stakeRows' = stakeRows \cup RoundBatch(batch.known, Head1) /\ batch' = Next1(batch.known)
        /\ batch.todo # {} /\ Head1 \in RoundRows /\ UNCHANGED <<profileView, cpProfile, final>>
    BY <1>2 DEF SnapshotRound
  <2>2. Orchestrators(Head1) \subseteq batch.known
    BY <1>0, <2>1 DEF ProfileInv
  <2>3. batch' = Next1(batch.known \cup {})
    BY <2>1
  <2>4. stakeRows' \subseteq Accounts \X RoundRows
    BY <1>0, <2>1 DEF RoundBatch, BatchType
  <2>5. RoundDone(h)'
    BY <1>h, <2>1, <2>2 DEF RoundDone, RoundBatch
  <2>6. {} \in SUBSET Accounts /\ stakeRows \subseteq stakeRows'
    BY <2>1
  <2> QED BY <1>h, <2>1, <2>3, <2>4, <2>5, <2>6, RowHandled
<1>3. CASE LearnTransfer
  <2>1. /\ Log[Head1].who \in Accounts /\ batch' = Next1(batch.known \cup {Log[Head1].who}) /\ batch.todo # {}
        /\ Head1 \notin RoundRows /\ UNCHANGED <<stakeRows, profileView, cpProfile, final>>
    BY <1>3 DEF LearnTransfer, Accounts, Transfers, RoundRows
  <2> QED BY <1>0, <1>h, <2>1, RowHandled
<1>4. CASE LearnOrchestrator
  <2>1. /\ {Log[Head1].to} \ {None} \subseteq Accounts /\ batch' = Next1(batch.known \cup ({Log[Head1].to} \ {None}))
        /\ batch.todo # {} /\ Head1 \notin RoundRows /\ UNCHANGED <<stakeRows, profileView, cpProfile, final>>
    BY <1>0, <1>4 DEF LearnOrchestrator, Accounts
  <2> QED BY <1>0, <1>h, <2>1, RowHandled
<1>5. CASE AdvanceProfile \/ ProfileFails
  <2>1. /\ batch' = NoBatch /\ UNCHANGED <<stakeRows, profileView, final>>
        /\ cpProfile' \in {cpProfile, batch.upTo}
        /\ cpProfile' # cpProfile => batch.todo = {} /\ cpProfile' = batch.upTo
    BY <1>5 DEF AdvanceProfile, ProfileFails, Fault, Greatest
  <2>2. cpProfile' \in Nat /\ UpToFinal(cpProfile)' /\ UpToFinal(batch.upTo)'
    BY <1>0, <2>1 DEF ProfileInv, BatchType, UpToFinal, Finalized, NoBatch
  <2>3. RoundsAreComplete'
    BY <2>1 DEF ProfileInv, BatchCovers, RoundDone, RoundsAreComplete, Finalized
  <2>4. BatchCovers'
    <3>1. \A p \in Finalized : ~ (Log[p].block < 0)
      BY LogRows DEF Finalized
    <3> QED BY <2>1, <3>1 DEF BatchCovers, NoBatch, Finalized
  <2>5. batch' \in BatchType /\ batch'.todo = {} /\ ProfileTypeOK'
    BY <2>1, <2>2 DEF NoBatch, BatchType, ProfileInv, ProfileTypeOK
  <2> QED BY <2>1, <2>2, <2>3, <2>4, <2>5 DEF ProfileInv
<1>6. CASE RefreshProfileView
  <2>1. /\ UNCHANGED <<stakeRows, cpProfile, batch, final>>
        /\ \A v \in profileView' : v[1] \in Accounts
    BY <1>0, <1>6 DEF RefreshProfileView
  <2> QED BY <2>1 DEF ProfileInv, ProfileTypeOK, BatchType, BatchCovers, RoundDone, RoundsAreComplete, UpToFinal, Finalized
<1> QED BY <1>1, <1>2, <1>3, <1>4, <1>5, <1>6 DEF ProfileNext, ProfileWorks

-----------------------------------------------------------------------------
(* The enricher.                                                           *)

Steps == {"start", "chunk", "next", "owner", "text", "upsert", "fetch", "write", "clear", "mark"}

\* The steps of a refresh: before its row is written, and after.
Reading == {"owner", "text", "upsert"}
Storing == {"fetch", "write", "clear", "mark"}

JobType ==
  [phase : {"watch", "orchs", "gateways"}, step : Steps, todo : SUBSET Tracked, upTo : Nat, latest : Nat,
   who : Tracked \cup {None}, at : Nat, name : Names \cup {None}, avatar : Images \cup {None}]

\* What a job knows of the chain.
JobShape ==
  /\ job \in JobType
  /\ job.upTo <= Head0 /\ job.latest <= Head0
  /\ job.step \in {"start", "chunk"} => job.todo = {}
  /\ job.step \in Reading \cup Storing => job.who \in job.todo
  /\ job.step \in Reading => job.at \in 1..Head0 /\ job.at >= watched /\ job.at >= job.upTo
  /\ job.step \in Storing => job.who \in Tracked /\ ens[job.who].at >= job.upTo
  /\ job.step \notin Reading \cup Storing => job.name = None /\ job.avatar = None

\* The name a refresh has read, and the one it has checked.
NameRead ==
  /\ job.step \in Reading /\ job.name # None => chain[job.at].reverse[job.who] = job.name
  /\ job.step \in {"text", "upsert"} /\ job.name # None =>
       \E b \in job.at..Head0 : chain[b].owner[job.name] = job.who
  /\ job.step \in {"owner", "text"} => job.name # None

\* The avatar it is storing.
AvatarRead ==
  /\ job.step = "clear" => job.avatar = None
  /\ job.step = "write" => job.avatar \in KnownExts
  /\ job.step = "mark" => job.avatar = None \/ (job.avatar \in KnownExts /\ job.avatar \in files[job.who])

\* A recorded extension has its file up to the moment the file is written.
FilesKept ==
  \A a \in Tracked :
    \/ a \in damaged
    \/ job.step = "mark" /\ job.who = a
    \/ ens[a].ext = None \/ ens[a].ext \in files[a]

NamesHeld ==
  \A a \in Tracked : ens[a].name # None =>
    /\ ens[a].at > 0 /\ chain[ens[a].at].reverse[a] = ens[a].name
    /\ \E b \in ens[a].at..Head0 : chain[b].owner[ens[a].name] = a

\* A change of the chunk is read, failed, or on the list.
ChunkCovers ==
  job.phase = "watch" /\ job.step \notin {"start", "chunk"} =>
    \A b \in (since + 1)..job.upTo, a \in Tracked :
      AffectedBy(b, a) => ens[a].at >= b \/ a \in missed \/ a \in job.todo

EnsInv ==
  /\ EnsTypeOK /\ JobShape /\ NameRead /\ AvatarRead
  /\ NamesHeld /\ FilesKept /\ ChunkCovers /\ WatcherNothingSkipped

LEMMA EnsFacts ==
  /\ Cardinality(Tracked) \in Nat /\ KnownExts \subseteq Images /\ None \notin Images /\ None \notin Names
  /\ None \notin KnownExts
BY EnsAssumption, FS_CardinalityType

LEMMA RowsFollow == EnsInv => EnsRowsHold
<1> SUFFICES ASSUME EnsInv, NEW a \in Tracked
             PROVE  /\ ens[a].name # None =>
                         /\ chain[ens[a].at].reverse[a] = ens[a].name
                         /\ \E b \in ens[a].at..Head0 : chain[b].owner[ens[a].name] = a
                    /\ \/ a \in damaged
                       \/ job.step \in {"write", "mark"} /\ Current = a
                       \/ ens[a].ext = None \/ ens[a].ext \in files[a]
  BY DEF EnsRowsHold
<1> QED BY DEF EnsInv, NamesHeld, FilesKept, Current

\* The address whose turn it is, is on the list.
LEMMA OnTheList ==
  ASSUME EnsTypeOK, JobShape, job.todo # {}
  PROVE  Current \in job.todo /\ (job.step # "next" => Current = job.who)
         /\ (job.step \in Reading \cup Storing => Current = job.who)
<1>1. CASE job.step = "next"
  <2>1. job.todo \subseteq Tracked /\ \A a \in job.todo : Place(a) \in Nat
    <3>1. job.todo \subseteq Tracked
      BY DEF EnsTypeOK
    <3>2. \A a \in Tracked : AddressOrder[a] \in Nat /\ age[a] \in Nat
      BY EnsAssumption, EnsFacts DEF EnsTypeOK
    <3> QED BY <3>1, <3>2 DEF Place
  <2> DEFINE T == {Place(a) : a \in job.todo}
  <2>2. T \in SUBSET Nat /\ T # {}
    BY <2>1
  <2>3. \E t \in T : \A u \in T : t <= u
    <3> HIDE DEF T
    <3> QED BY <2>2, LeastOf
  <2>4. \E a \in job.todo : \A b \in job.todo : Place(a) <= Place(b)
    BY <2>3
  <2> QED BY <1>1, <2>4 DEF Current, NextAddress, Reading, Storing
<1>2. CASE job.step \in Reading \cup Storing
  BY <1>2 DEF Current, JobShape, Reading, Storing
<1>3. CASE job.step \in {"start", "chunk"}
  BY <1>3 DEF Current, JobShape
<1> QED BY <1>1, <1>2, <1>3 DEF JobShape, JobType, Steps, Reading, Storing

\* The tables, whatever the job.
EnsTables ==
  /\ chain \in Seq(L1Records) /\ Head0 > 0
  /\ ens \in [Tracked -> [name : Names \cup {None}, avatar : Images \cup {None},
                          ext : KnownExts \cup {None}, at : 0..Head0]]
  /\ age \in [Tracked -> 1..Cardinality(Tracked)]
  /\ \A a, b \in Tracked : age[a] = age[b] => a = b
  /\ files \in [Tracked -> SUBSET KnownExts]
  /\ fresh \subseteq Tracked /\ missed \subseteq Tracked /\ damaged \subseteq Tracked
  /\ watched \in 0..Head0 /\ since \in 0..watched

LEMMA EnsTyped == JobShape => (EnsTypeOK <=> EnsTables)
BY DEF JobShape, JobType, EnsTypeOK, EnsTables

LEMMA EnsStarted == EnsInit => EnsInv
<1> SUFFICES ASSUME EnsInit PROVE EnsInv
  OBVIOUS
<1>1. chain = <<L1Start>> /\ Head0 = 1 /\ chain \in Seq(L1Records)
  BY EnsAssumption DEF EnsInit, Head0
<1>2. ens = [a \in Tracked |-> NoRow] /\ files = [a \in Tracked |-> {}] /\ job = NoJob /\ watched = 0 /\ since = 0
  BY DEF EnsInit
<1>3. EnsTables
  BY <1>1, <1>2, EnsAssumption DEF EnsInit, EnsTables, NoRow
<1>4. JobShape
  BY <1>1, <1>2 DEF JobShape, JobType, Steps, NoJob, Reading, Storing
<1>5. EnsTypeOK
  BY <1>3, <1>4, EnsTyped
<1>6. NameRead /\ AvatarRead /\ ChunkCovers
  BY <1>2 DEF NameRead, AvatarRead, ChunkCovers, NoJob, Reading
<1>7. NamesHeld /\ FilesKept /\ WatcherNothingSkipped
  BY <1>2 DEF NamesHeld, FilesKept, WatcherNothingSkipped, NoRow
<1> QED BY <1>4, <1>5, <1>6, <1>7 DEF EnsInv

\* The process turns to something else: nothing is being refreshed.
LEMMA EnsEnters ==
  ASSUME EnsTables', NEW phase \in {"watch", "orchs", "gateways"}, job' = Enter(phase),
         NamesHeld', WatcherNothingSkipped',
         \A a \in Tracked : a \in damaged' \/ ens'[a].ext = None \/ ens'[a].ext \in files'[a]
  PROVE  EnsInv'
<1>1. job' = [phase |-> phase, step |-> "start", todo |-> {}, upTo |-> 0, latest |-> 0,
              who |-> None, at |-> 0, name |-> None, avatar |-> None]
  BY DEF Enter, NoJob
<1>2. Head0' \in Nat
  BY DEF EnsTables, Head0
<1>3. JobShape'
  BY <1>1, <1>2 DEF JobShape, JobType, Steps, Reading, Storing
<1>4. EnsTypeOK'
  BY <1>3, EnsTyped, PTL
<1>5. NameRead' /\ AvatarRead' /\ ChunkCovers' /\ FilesKept'
  BY <1>1 DEF NameRead, AvatarRead, ChunkCovers, FilesKept, Reading
<1> QED BY <1>3, <1>4, <1>5 DEF EnsInv

\* Names and the blocks they were read at stay.
LEMMA NamesStay ==
  ASSUME EnsInv, UNCHANGED <<chain, watched, since>>, missed \subseteq missed',
         \A a \in Tracked : ens'[a].name = ens[a].name /\ ens'[a].at = ens[a].at
  PROVE  NamesHeld' /\ WatcherNothingSkipped'
BY DEF EnsInv, NamesHeld, WatcherNothingSkipped, AffectedBy, Head0

\* A refresh is over.
LEMMA EnsPasses ==
  ASSUME EnsInv, job.todo # {}, job' = Passed, EnsTables', UNCHANGED <<chain, watched, since>>,
         NamesHeld', WatcherNothingSkipped', missed \ {Current} \subseteq missed',
         NEW c, c = Current,
         \A a \in Tracked \ {c} : ens'[a].name = ens[a].name /\ ens'[a].at = ens[a].at,
         job.phase = "watch" => ens'[c].at >= job.upTo \/ c \in missed',
         \A a \in Tracked : a \in damaged' \/ ens'[a].ext = None \/ ens'[a].ext \in files'[a]
  PROVE  EnsInv'
<1>0. EnsTypeOK /\ JobShape /\ ChunkCovers /\ job \in JobType
  BY DEF EnsInv, JobShape
<1>1. c \in job.todo /\ c \in Tracked
  BY <1>0, OnTheList DEF EnsTypeOK
<1>2. /\ job' \in JobType /\ job'.step = "next" /\ job'.todo = job.todo \ {c} /\ job'.phase = job.phase
      /\ job'.upTo = job.upTo /\ job'.latest = job.latest /\ job'.name = None /\ job'.avatar = None
  BY <1>0 DEF Passed, JobType, Steps
<1>3. JobShape'
  BY <1>0, <1>2 DEF JobShape, Reading, Storing, Head0
<1>4. EnsTypeOK'
  BY <1>3, EnsTyped, PTL
<1>5. NameRead' /\ AvatarRead' /\ FilesKept'
  BY <1>2 DEF NameRead, AvatarRead, FilesKept, Reading
<1>6. ASSUME job.phase = "watch", NEW b \in (since + 1)..job.upTo, NEW a \in Tracked, AffectedBy(b, a)'
      PROVE  ens'[a].at >= b \/ a \in missed' \/ a \in job'.todo
  <2>1. CASE a = c
    <3>1. ens'[c].at \in Nat /\ job.upTo \in Nat
      BY <1>0, <1>1 DEF EnsTables, JobType
    <3>2. b \in Int /\ b <= job.upTo
      BY <3>1 DEF EnsTypeOK
    <3> QED BY <1>6, <2>1, <3>1, <3>2
  <2>2. CASE a # c
    <3>1. AffectedBy(b, a)
      BY <1>6, <2>2 DEF AffectedBy
    <3>2. job.step \notin {"start", "chunk"}
      BY <1>0, <1>1 DEF JobShape
    <3> QED BY <1>0, <1>2, <1>6, <2>2, <3>1, <3>2 DEF ChunkCovers
  <2> QED BY <2>1, <2>2
<1>7. ChunkCovers'
  BY <1>2, <1>6 DEF ChunkCovers
<1> QED BY <1>3, <1>4, <1>5, <1>7 DEF EnsInv

\* A step of a job that leaves the tables alone.
LEMMA JobMoves ==
  ASSUME EnsInv, UNCHANGED <<chain, ens, age, fresh, files, watched, since, missed, damaged>>,
         JobShape', NameRead', AvatarRead', FilesKept', ChunkCovers'
  PROVE  EnsInv'
<1>1. EnsTypeOK'
  <2>1. EnsTables
    BY EnsTyped DEF EnsInv
  <2>2. EnsTables'
    BY <2>1 DEF EnsTables, Head0
  <2> QED BY <2>2, EnsTyped, PTL
<1>2. NamesHeld' /\ WatcherNothingSkipped'
  BY NamesStay
<1> QED BY <1>1, <1>2 DEF EnsInv

\* A block of L1.
LEMMA EnsBlock ==
  ASSUME EnsInv, L1Block
  PROVE  EnsInv'
<1>0. EnsTables /\ JobShape
  BY EnsTyped DEF EnsInv
<1>1. PICK c \in L1Changes : chain' = Append(chain, Applied(Latest, c))
  BY DEF L1Block
<1>2. UNCHANGED <<ens, age, fresh, files, watched, since, missed, damaged, job>>
  BY DEF L1Block, rowVars, storeVars, watchVars
<1>3. Latest \in L1Records /\ Head0 \in Nat \ {0}
  BY <1>0 DEF EnsTables, Latest, Head0
<1>4. Applied(Latest, c) \in L1Records
  <2> DEFINE s == Latest
  <2>1. s \in L1Records
    BY <1>3
  <2> HIDE DEF s
  <2>2. CASE c \in [topic : {"name"}, node : Tracked, to : Names \cup {None}]
    BY <2>1, <2>2 DEF Applied, L1Records, s
  <2>3. CASE c \in [topic : {"text"}, node : Names, to : Images \cup {None}]
    BY <2>1, <2>3 DEF Applied, L1Records, s
  <2>4. CASE c \in [topic : {"addr"}, node : Names, to : Tracked \cup {None}]
    BY <2>1, <2>4 DEF Applied, L1Records, s
  <2> QED BY <2>2, <2>3, <2>4, EnsAssumption
<1>5. /\ chain' \in Seq(L1Records) /\ Head0' = Head0 + 1
      /\ \A b \in 1..Head0 : chain'[b] = chain[b]
  BY <1>0, <1>1, <1>4 DEF EnsTables, Head0
<1>6. EnsTables'
  <2>1. \A a \in Tracked : ens[a] \in [name : Names \cup {None}, avatar : Images \cup {None},
                                       ext : KnownExts \cup {None}, at : 0..Head0']
    BY <1>0, <1>3, <1>5 DEF EnsTables
  <2>2. ens' \in [Tracked -> [name : Names \cup {None}, avatar : Images \cup {None},
                             ext : KnownExts \cup {None}, at : 0..Head0']]
    BY <1>0, <1>2, <2>1 DEF EnsTables
  <2>3. watched' \in 0..Head0' /\ since' \in 0..watched' /\ Head0' > 0
    BY <1>0, <1>2, <1>3, <1>5 DEF EnsTables
  <2> QED BY <1>0, <1>2, <1>5, <2>2, <2>3 DEF EnsTables
<1>7. JobShape'
  BY <1>0, <1>2, <1>3, <1>5 DEF JobShape, JobType
<1>8. EnsTypeOK'
  BY <1>6, <1>7, EnsTyped, PTL
<1>9. \A b \in 1..Head0, a \in Tracked : AffectedBy(b, a)' <=> AffectedBy(b, a)
  BY <1>2, <1>5 DEF AffectedBy
<1>10. NameRead' /\ AvatarRead' /\ FilesKept'
  <2>1. AvatarRead' /\ FilesKept'
    BY <1>2 DEF EnsInv, AvatarRead, FilesKept
  <2>2. job.step \in Reading => job.at \in 1..Head0 /\ job.at \in Nat
    BY <1>0, <1>3 DEF JobShape
  <2>3. NameRead'
    BY <1>2, <1>3, <1>5, <2>2 DEF EnsInv, NameRead, Reading
  <2> QED BY <2>1, <2>3
<1>11. NamesHeld'
  <2> SUFFICES ASSUME NEW a \in Tracked, ens[a].name # None
               PROVE  /\ ens[a].at > 0 /\ chain'[ens[a].at].reverse[a] = ens[a].name
                      /\ \E b \in ens[a].at..Head0' : chain'[b].owner[ens[a].name] = a
    BY <1>2 DEF NamesHeld
  <2>1. /\ ens[a].at > 0 /\ chain[ens[a].at].reverse[a] = ens[a].name
        /\ \E b \in ens[a].at..Head0 : chain[b].owner[ens[a].name] = a
    BY DEF EnsInv, NamesHeld
  <2>2. ens[a].at \in 1..Head0 /\ ens[a].at \in Nat
    BY <1>0, <1>3, <2>1 DEF EnsTables
  <2> QED BY <1>3, <1>5, <2>1, <2>2
<1>12. WatcherNothingSkipped' /\ ChunkCovers'
  <2>1. watched \in Nat /\ since \in Nat /\ watched <= Head0 /\ job.upTo \in Nat /\ job.upTo <= Head0
    BY <1>0, <1>3 DEF EnsTables, JobShape, JobType
  <2>2. \A b \in (since + 1)..watched : b \in 1..Head0
    BY <1>3, <2>1
  <2>3. \A b \in (since + 1)..job.upTo : b \in 1..Head0
    BY <1>3, <2>1
  <2>4. WatcherNothingSkipped'
    BY <1>2, <1>9, <2>2 DEF EnsInv, WatcherNothingSkipped
  <2>5. ChunkCovers'
    BY <1>2, <1>9, <2>3 DEF EnsInv, ChunkCovers
  <2> QED BY <2>4, <2>5
<1> QED BY <1>7, <1>8, <1>10, <1>11, <1>12 DEF EnsInv

LEMMA EnsExpires ==
  ASSUME EnsInv, Expire
  PROVE  EnsInv'
<1>1. UNCHANGED <<chain, ens, age, files, watched, since, missed, damaged, job>> /\ fresh' \subseteq fresh
  BY DEF Expire, storeVars, watchVars
<1>2. EnsTypeOK'
  BY <1>1 DEF EnsInv, EnsTypeOK, Head0
<1>3. NamesHeld' /\ WatcherNothingSkipped'
  BY <1>1, NamesStay
<1>4. JobShape' /\ NameRead' /\ AvatarRead' /\ FilesKept' /\ ChunkCovers'
  BY <1>1 DEF EnsInv, JobShape, NameRead, AvatarRead, FilesKept, ChunkCovers, AffectedBy, Head0
<1> QED BY <1>2, <1>3, <1>4 DEF EnsInv

\* The watcher's own steps.
LEMMA EnsWatches ==
  ASSUME EnsInv, WatchStart \/ FetchChunk \/ AdvanceWatch \/ WatchFails
  PROVE  EnsInv'
<1> USE DEF tableVars, rowVars, storeVars, watchVars
<1>0. EnsTables /\ JobShape /\ job \in JobType
  BY EnsTyped DEF EnsInv, JobShape
<1>f. job.step # "mark" => \A a \in Tracked : a \in damaged \/ ens[a].ext = None \/ ens[a].ext \in files[a]
  BY DEF EnsInv, FilesKept
<1>n. Head0 \in Nat \ {0} /\ watched \in Nat /\ since \in Nat /\ watched <= Head0 /\ job.upTo \in Nat /\ job.latest \in Nat
  BY <1>0 DEF EnsTables, JobType, Head0
<1>1. CASE WatchStart /\ watched = 0
  <2>1. /\ watched' = Head0 /\ since' = Head0 /\ job' = Enter("orchs")
        /\ UNCHANGED <<chain, ens, age, fresh, missed, files, damaged>> /\ job.step = "start"
    BY <1>1 DEF WatchStart
  <2>2. EnsTables'
    BY <1>0, <1>n, <2>1 DEF EnsTables, Head0
  <2>3. NamesHeld'
    BY <2>1 DEF EnsInv, NamesHeld, Head0
  <2>4. WatcherNothingSkipped'
    BY <1>n, <2>1 DEF WatcherNothingSkipped
  <2> QED BY <1>f, <2>1, <2>2, <2>3, <2>4, EnsEnters
<1>2. CASE (WatchStart /\ watched # 0 /\ job' = Enter("orchs")) \/ WatchFails
  <2>1. /\ job' = Enter("orchs") /\ job.step # "mark"
        /\ UNCHANGED <<chain, ens, age, fresh, missed, files, damaged, watched, since>>
    BY <1>2 DEF WatchStart, WatchFails
  <2>2. EnsTables'
    BY <1>0, <2>1 DEF EnsTables, Head0
  <2>3. NamesHeld' /\ WatcherNothingSkipped'
    BY <2>1, NamesStay
  <2> QED BY <1>f, <2>1, <2>2, <2>3, EnsEnters
<1>3. CASE WatchStart /\ watched # 0 /\ job' # Enter("orchs")
  <2>1. /\ job' = [job EXCEPT !.step = "chunk", !.latest = Head0] /\ job.step = "start"
        /\ UNCHANGED <<chain, ens, age, fresh, missed, files, damaged, watched, since>>
    BY <1>3 DEF WatchStart
  <2>2. /\ job' \in JobType /\ job'.step = "chunk" /\ job'.latest = Head0 /\ job'.upTo = job.upTo
        /\ job'.todo = job.todo /\ job'.name = job.name /\ job'.avatar = job.avatar
    BY <1>0, <1>n, <2>1 DEF JobType, Steps
  <2>3. JobShape'
    BY <1>0, <1>n, <2>1, <2>2 DEF JobShape, Reading, Storing, Head0
  <2>4. NameRead' /\ AvatarRead' /\ FilesKept' /\ ChunkCovers'
    BY <1>f, <2>1, <2>2 DEF NameRead, AvatarRead, FilesKept, ChunkCovers, Reading
  <2> QED BY <2>1, <2>3, <2>4, JobMoves
<1>4. CASE FetchChunk
  <2> DEFINE u == SmallerOf(watched + WatchChunk, job.latest)
             T == {a \in Tracked : \E b \in watched + 1..u : AffectedBy(b, a)}
  <2>1. /\ job' = [job EXCEPT !.step = "next", !.upTo = u, !.todo = T] /\ job.step = "chunk"
        /\ UNCHANGED <<chain, ens, age, fresh, missed, files, damaged, watched, since>>
    BY <1>4 DEF FetchChunk
  <2>2. u \in Nat /\ u <= Head0
    BY <1>0, <1>n, EnsAssumption DEF SmallerOf, JobShape
  <2> HIDE DEF u
  <2>3. /\ job' \in JobType /\ job'.step = "next" /\ job'.latest = job.latest /\ job'.upTo = u
        /\ job'.todo = T /\ job'.name = job.name /\ job'.avatar = job.avatar
    BY <1>0, <2>1, <2>2 DEF JobType, Steps
  <2>4. JobShape'
    BY <1>0, <1>n, <2>1, <2>2, <2>3 DEF JobShape, Reading, Storing, Head0
  <2>5. NameRead' /\ AvatarRead' /\ FilesKept'
    BY <1>f, <2>1, <2>3 DEF NameRead, AvatarRead, FilesKept, Reading
  <2>6. ASSUME NEW b \in (since + 1)..u, NEW a \in Tracked, AffectedBy(b, a)
        PROVE  ens[a].at >= b \/ a \in missed \/ a \in T
    <3>1. CASE b <= watched
      <4>1. b \in (since + 1)..watched
        BY <1>n, <2>2, <3>1
      <4> QED BY <2>6, <4>1 DEF EnsInv, WatcherNothingSkipped
    <3>2. CASE b > watched
      <4>1. b \in watched + 1..u
        BY <1>n, <2>2, <3>2
      <4> QED BY <2>6, <4>1
    <3> QED BY <1>n, <2>2, <3>1, <3>2
  <2>7. ChunkCovers'
    BY <2>1, <2>3, <2>6 DEF ChunkCovers, AffectedBy
  <2> QED BY <2>1, <2>4, <2>5, <2>7, JobMoves
<1>5. CASE AdvanceWatch
  <2>1. /\ watched' = Greatest(watched, job.upTo) /\ job.phase = "watch" /\ job.step = "next" /\ job.todo = {}
        /\ UNCHANGED <<chain, ens, age, fresh, missed, files, damaged, since>>
        /\ job' \in {[job EXCEPT !.step = "chunk"], Enter("orchs")}
    BY <1>5 DEF AdvanceWatch
  <2>2. watched' \in Nat /\ watched' <= Head0 /\ watched <= watched' /\ watched' \in {watched, job.upTo}
    BY <1>0, <1>n, <2>1 DEF Greatest, JobShape
  <2>3. EnsTables'
    BY <1>0, <1>n, <2>1, <2>2 DEF EnsTables, Head0
  <2>4. NamesHeld'
    BY <2>1 DEF EnsInv, NamesHeld, Head0
  <2>5. WatcherNothingSkipped'
    BY <2>1, <2>2 DEF EnsInv, WatcherNothingSkipped, ChunkCovers, AffectedBy
  <2>6. CASE job' = Enter("orchs")
    BY <1>f, <2>1, <2>3, <2>4, <2>5, <2>6, EnsEnters
  <2>7. CASE job' = [job EXCEPT !.step = "chunk"]
    <3>1. /\ job' \in JobType /\ job'.step = "chunk" /\ job'.latest = job.latest /\ job'.upTo = job.upTo
          /\ job'.todo = job.todo /\ job'.name = job.name /\ job'.avatar = job.avatar
      BY <1>0, <2>7 DEF JobType, Steps
    <3>2. JobShape'
      BY <1>0, <2>1, <3>1 DEF JobShape, Reading, Storing, Head0
    <3>3. EnsTypeOK'
      BY <2>3, <3>2, EnsTyped, PTL
    <3>4. NameRead' /\ AvatarRead' /\ FilesKept' /\ ChunkCovers'
      BY <1>f, <2>1, <3>1 DEF NameRead, AvatarRead, FilesKept, ChunkCovers, Reading
    <3> QED BY <2>4, <2>5, <3>2, <3>3, <3>4 DEF EnsInv
  <2> QED BY <2>1, <2>6, <2>7
<1> QED BY <1>1, <1>2, <1>3, <1>4, <1>5

\* The sweep takes a list, or is done with one.
LEMMA EnsSweeps ==
  ASSUME EnsInv, SweepStart \/ SweepNext
  PROVE  EnsInv'
<1> USE DEF tableVars, rowVars, storeVars, watchVars
<1>0. EnsTables /\ JobShape /\ job \in JobType
  BY EnsTyped DEF EnsInv, JobShape
<1>f. job.step # "mark" => \A a \in Tracked : a \in damaged \/ ens[a].ext = None \/ ens[a].ext \in files[a]
  BY DEF EnsInv, FilesKept
<1>1. CASE SweepStart
  <2> DEFINE T == FirstOf(Pending(IF job.phase = "orchs" THEN Orchs ELSE Gateways))
  <2>1. /\ job' = [job EXCEPT !.step = "next", !.todo = T] /\ job.step = "start" /\ job.phase # "watch"
        /\ UNCHANGED <<chain, ens, age, fresh, missed, files, damaged, watched, since>>
    BY <1>0, <1>1 DEF SweepStart, JobType
  <2>2. T \subseteq Tracked
    BY DEF FirstOf, Pending, Tracked
  <2> HIDE DEF T
  <2>3. /\ job' \in JobType /\ job'.step = "next" /\ job'.latest = job.latest /\ job'.upTo = job.upTo
        /\ job'.phase = job.phase /\ job'.name = job.name /\ job'.avatar = job.avatar
    BY <1>0, <2>1, <2>2 DEF JobType, Steps
  <2>4. JobShape'
    BY <1>0, <2>1, <2>3 DEF JobShape, Reading, Storing, Head0
  <2>5. NameRead' /\ AvatarRead' /\ FilesKept' /\ ChunkCovers'
    BY <1>f, <2>1, <2>3 DEF NameRead, AvatarRead, FilesKept, ChunkCovers, Reading
  <2> QED BY <2>1, <2>4, <2>5, JobMoves
<1>2. CASE SweepNext
  <2>1. /\ job' \in {Enter("gateways"), NoJob} /\ job.step = "next"
        /\ UNCHANGED <<chain, ens, age, fresh, missed, files, damaged, watched, since>>
    BY <1>2 DEF SweepNext
  <2>2. NoJob = Enter("watch")
    BY DEF NoJob, Enter
  <2>3. EnsTables'
    BY <1>0, <2>1 DEF EnsTables, Head0
  <2>4. NamesHeld' /\ WatcherNothingSkipped'
    BY <2>1, NamesStay
  <2> QED BY <1>f, <2>1, <2>2, <2>3, <2>4, EnsEnters
<1> QED BY <1>1, <1>2

\* The calls of a refresh.
LEMMA EnsReads ==
  ASSUME EnsInv, ReadName \/ CheckOwner \/ ReadAvatar
  PROVE  EnsInv'
<1> USE DEF tableVars, rowVars, storeVars, watchVars
<1>0. EnsTables /\ EnsTypeOK /\ JobShape /\ job \in JobType /\ NameRead /\ ChunkCovers
  BY EnsTyped DEF EnsInv, JobShape
<1>1. /\ job.todo # {} /\ job.step \in {"next", "owner", "text"}
      /\ UNCHANGED <<chain, ens, age, fresh, missed, files, damaged, watched, since>>
  BY DEF ReadName, CheckOwner, ReadAvatar, Refreshing
<1>2. Current \in job.todo /\ Current \in Tracked /\ (job.step # "next" => Current = job.who)
  BY <1>0, <1>1, OnTheList DEF EnsTypeOK
<1>3. Latest \in L1Records /\ Latest = chain[Head0] /\ Head0 \in Nat \ {0} /\ watched \in Nat /\ watched <= Head0
  BY <1>0 DEF EnsTables, Latest, Head0
<1>f. \A a \in Tracked : a \in damaged \/ ens[a].ext = None \/ ens[a].ext \in files[a]
  BY <1>1 DEF EnsInv, FilesKept
<1>4. CASE ReadName
  <2> DEFINE n == Latest.reverse[Current]
  <2>1. job' = [job EXCEPT !.who = Current, !.at = Head0, !.name = n,
                           !.step = IF n = None THEN "upsert" ELSE "owner"]
    BY <1>4 DEF ReadName
  <2>2. job.step = "next" /\ n \in Names \cup {None}
    BY <1>2, <1>3, <1>4 DEF ReadName, Refreshing, L1Records
  <2>3. n = chain[Head0].reverse[Current]
    BY <1>3
  <2> HIDE DEF n
  <2>4. /\ job' \in JobType /\ job'.step = (IF n = None THEN "upsert" ELSE "owner") /\ job'.todo = job.todo
        /\ job'.phase = job.phase /\ job'.upTo = job.upTo /\ job'.latest = job.latest /\ job'.who = Current
        /\ job'.at = Head0 /\ job'.name = n /\ job'.avatar = job.avatar
    BY <1>0, <1>2, <1>3, <2>1, <2>2 DEF JobType, Steps
  <2>5. JobShape'
    BY <1>0, <1>1, <1>2, <1>3, <2>4 DEF JobShape, Reading, Storing, Head0
  <2>6. NameRead'
    BY <1>1, <2>3, <2>4 DEF NameRead, Reading
  <2>7. AvatarRead' /\ FilesKept' /\ ChunkCovers'
    BY <1>0, <1>1, <1>f, <2>2, <2>4 DEF AvatarRead, FilesKept, ChunkCovers, AffectedBy
  <2> QED BY <1>1, <2>5, <2>6, <2>7, JobMoves
<1>5. CASE CheckOwner
  <2>1. job.step = "owner" /\ job.name # None /\ job.name \in Names
    BY <1>0, <1>5 DEF CheckOwner, Refreshing, NameRead, JobType
  <2>2. CASE Latest.owner[job.name] = Current
    <3>1. job' = [job EXCEPT !.step = "text"]
      BY <1>5, <2>2 DEF CheckOwner
    <3>2. /\ job' \in JobType /\ job'.step = "text" /\ job'.todo = job.todo
          /\ job'.phase = job.phase /\ job'.upTo = job.upTo /\ job'.latest = job.latest /\ job'.who = job.who
          /\ job'.at = job.at /\ job'.name = job.name /\ job'.avatar = job.avatar
      BY <1>0, <3>1 DEF JobType, Steps
    <3>3. JobShape'
      BY <1>0, <1>1, <2>1, <3>2 DEF JobShape, Reading, Storing, Head0
    <3>4. NameRead'
      <4>1. chain[Head0].owner[job.name] = job.who /\ Head0 \in job.at..Head0
        BY <1>0, <1>2, <1>3, <2>1, <2>2 DEF JobShape, Reading
      <4> QED BY <1>0, <1>1, <2>1, <3>2, <4>1 DEF NameRead, Reading, Head0
    <3>5. AvatarRead' /\ FilesKept' /\ ChunkCovers'
      BY <1>0, <1>1, <1>f, <2>1, <3>2 DEF AvatarRead, FilesKept, ChunkCovers, AffectedBy
    <3> QED BY <1>1, <3>3, <3>4, <3>5, JobMoves
  <2>3. CASE Latest.owner[job.name] # Current
    <3>1. job' = [job EXCEPT !.step = "upsert", !.name = None]
      BY <1>5, <2>3 DEF CheckOwner
    <3>2. /\ job' \in JobType /\ job'.step = "upsert" /\ job'.todo = job.todo
          /\ job'.phase = job.phase /\ job'.upTo = job.upTo /\ job'.latest = job.latest /\ job'.who = job.who
          /\ job'.at = job.at /\ job'.name = None /\ job'.avatar = job.avatar
      BY <1>0, <3>1 DEF JobType, Steps
    <3>3. JobShape'
      BY <1>0, <1>1, <2>1, <3>2 DEF JobShape, Reading, Storing, Head0
    <3>4. NameRead' /\ AvatarRead' /\ FilesKept' /\ ChunkCovers'
      BY <1>0, <1>1, <1>f, <2>1, <3>2 DEF NameRead, AvatarRead, FilesKept, ChunkCovers, AffectedBy
    <3> QED BY <1>1, <3>3, <3>4, JobMoves
  <2> QED BY <2>2, <2>3
<1>6. CASE ReadAvatar
  <2> DEFINE v == Latest.text[job.name]
  <2>1. job.step = "text" /\ job.name # None /\ job.name \in Names /\ job' = [job EXCEPT !.step = "upsert", !.avatar = v]
    BY <1>0, <1>6 DEF ReadAvatar, Refreshing, NameRead, JobType
  <2>2. v \in Images \cup {None}
    BY <1>3, <2>1 DEF L1Records
  <2> HIDE DEF v
  <2>3. /\ job' \in JobType /\ job'.step = "upsert" /\ job'.todo = job.todo
        /\ job'.phase = job.phase /\ job'.upTo = job.upTo /\ job'.latest = job.latest /\ job'.who = job.who
        /\ job'.at = job.at /\ job'.name = job.name
    BY <1>0, <2>1, <2>2 DEF JobType, Steps
  <2>4. JobShape'
    BY <1>0, <1>1, <2>1, <2>3 DEF JobShape, Reading, Storing, Head0
  <2>5. NameRead'
    BY <1>0, <1>1, <2>1, <2>3 DEF NameRead, Reading, Head0
  <2>6. AvatarRead' /\ FilesKept' /\ ChunkCovers'
    BY <1>0, <1>1, <1>f, <2>1, <2>3 DEF AvatarRead, FilesKept, ChunkCovers, AffectedBy
  <2> QED BY <1>1, <2>4, <2>5, <2>6, JobMoves
<1> QED BY <1>4, <1>5, <1>6

\* Moving an address to the end keeps the order one.
LEMMA YoungestKept ==
  ASSUME EnsTables, NEW c \in Tracked
  PROVE  /\ Youngest(c) \in [Tracked -> 1..Cardinality(Tracked)]
         /\ \A a, b \in Tracked : Youngest(c)[a] = Youngest(c)[b] => a = b
<1> DEFINE n == Cardinality(Tracked)
<1>1. /\ n \in Nat /\ \A a \in Tracked : age[a] \in 1..n
      /\ \A a, b \in Tracked : age[a] = age[b] => a = b
  BY EnsFacts DEF EnsTables
<1> HIDE DEF n
<1>2. \A a \in Tracked : Youngest(c)[a] = IF a = c THEN n ELSE IF age[a] > age[c] THEN age[a] - 1 ELSE age[a]
  BY DEF Youngest, n
<1>3. \A a \in Tracked : Youngest(c)[a] \in 1..n
  BY <1>1, <1>2
<1>4. ASSUME NEW a \in Tracked, a # c PROVE Youngest(c)[a] < n
  <2>1. age[a] # age[c]
    BY <1>1, <1>4
  <2> QED BY <1>1, <1>2, <1>4, <2>1
<1>5. ASSUME NEW a \in Tracked, NEW b \in Tracked, a # c, b # c, Youngest(c)[a] = Youngest(c)[b] PROVE a = b
  <2>1. age[a] # age[c] /\ age[b] # age[c]
    BY <1>1, <1>5
  <2>2. age[a] = age[b]
    BY <1>1, <1>2, <1>5, <2>1
  <2> QED BY <1>1, <2>2
<1>6. Youngest(c)[c] = n
  BY <1>2
<1>7. Youngest(c) \in [Tracked -> 1..n]
  BY <1>3 DEF Youngest
<1>8. \A a, b \in Tracked : Youngest(c)[a] = Youngest(c)[b] => a = b
  BY <1>1, <1>4, <1>5, <1>6
<1> QED BY <1>7, <1>8 DEF n

EnsRow == [name : Names \cup {None}, avatar : Images \cup {None}, ext : KnownExts \cup {None}, at : 0..Head0]

\* The row is written.
LEMMA EnsUpserts ==
  ASSUME EnsInv, UpsertEns
  PROVE  EnsInv'
<1> USE DEF rowVars, storeVars, watchVars
<1>0. EnsTables /\ EnsTypeOK /\ JobShape /\ job \in JobType /\ NameRead /\ ChunkCovers
  BY EnsTyped DEF EnsInv, JobShape
<1>1. job.step = "upsert" /\ job.todo # {} /\ UNCHANGED <<chain, files, damaged, watched, since>>
  BY DEF UpsertEns, Refreshing
<1>2. PICK c \in job.todo : c = Current /\ c = job.who /\ c \in Tracked
  BY <1>0, <1>1, OnTheList DEF EnsTypeOK
<1>3. /\ ens' = [ens EXCEPT ![c] = [@ EXCEPT !.name = job.name, !.avatar = job.avatar, !.at = job.at]]
      /\ age' = Youngest(c) /\ fresh' = fresh \cup {c} /\ missed' = missed \ {c}
      /\ job' = IF c \notin Orchs THEN Passed ELSE [job EXCEPT !.step = IF job.avatar = None THEN "clear" ELSE "fetch"]
  BY <1>2 DEF UpsertEns
<1>n. /\ job.at \in 1..Head0 /\ job.at \in Nat /\ Head0 \in Nat \ {0} /\ job.at >= watched /\ job.at >= job.upTo
      /\ watched \in Nat /\ since \in Nat /\ job.upTo \in Nat
  BY <1>0, <1>1 DEF JobShape, JobType, Reading, EnsTables, Head0
<1>4. /\ ens'[c].name = job.name /\ ens'[c].at = job.at /\ ens'[c].ext = ens[c].ext
      /\ \A a \in Tracked \ {c} : ens'[a] = ens[a]
      /\ ens' \in [Tracked -> [name : Names \cup {None}, avatar : Images \cup {None},
                              ext : KnownExts \cup {None}, at : 0..Head0]]
  <2>1. ens \in [Tracked -> EnsRow] /\ ens[c] \in EnsRow
    BY <1>0, <1>2 DEF EnsTables, EnsRow
  <2>2. PICK r \in EnsRow, n \in {job.name}, v \in {job.avatar}, h \in {job.at} : r = ens[c]
    BY <2>1
  <2>3. n \in Names \cup {None} /\ v \in Images \cup {None} /\ h \in 0..Head0
    BY <1>0, <1>n, <2>2 DEF JobType
  <2> DEFINE p == [r EXCEPT !.name = n]
             q == [p EXCEPT !.avatar = v]
             row == [q EXCEPT !.at = h]
  <2>4. p \in EnsRow /\ p.name = n /\ p.ext = r.ext
    BY <2>3 DEF EnsRow
  <2>5. ens' = [ens EXCEPT ![c] = row]
    BY <1>3, <2>2
  <2> HIDE DEF p
  <2>6. q \in EnsRow /\ q.name = n /\ q.ext = r.ext
    BY <2>3, <2>4 DEF EnsRow
  <2> HIDE DEF q
  <2>7. row \in EnsRow /\ row.name = n /\ row.ext = r.ext /\ row.at = h
    BY <2>3, <2>6 DEF EnsRow
  <2> HIDE DEF row
  <2>8. ens' \in [Tracked -> EnsRow] /\ ens'[c] = row /\ \A a \in Tracked \ {c} : ens'[a] = ens[a]
    BY <1>2, <2>1, <2>5, <2>7
  <2> QED BY <2>2, <2>7, <2>8 DEF EnsRow
<1>5. EnsTables'
  <2>1. Head0' = Head0
    BY <1>1 DEF Head0
  <2> QED BY <1>0, <1>1, <1>2, <1>3, <1>4, <2>1, YoungestKept DEF EnsTables
<1>6. NamesHeld'
  <2> SUFFICES ASSUME NEW a \in Tracked, ens'[a].name # None
               PROVE  /\ ens'[a].at > 0 /\ chain[ens'[a].at].reverse[a] = ens'[a].name
                      /\ \E b \in ens'[a].at..Head0 : chain[b].owner[ens'[a].name] = a
    BY <1>1 DEF NamesHeld, Head0
  <2>1. CASE a = c
    BY <1>0, <1>1, <1>2, <1>4, <1>n, <2>1 DEF NameRead, Reading
  <2>2. CASE a # c
    BY <1>4, <2>2 DEF EnsInv, NamesHeld
  <2> QED BY <2>1, <2>2
<1>7. WatcherNothingSkipped'
  <2> SUFFICES ASSUME NEW b \in (since + 1)..watched, NEW a \in Tracked, AffectedBy(b, a)'
               PROVE  ens'[a].at >= b \/ a \in missed'
    BY <1>1 DEF WatcherNothingSkipped
  <2>1. CASE a = c
    BY <1>4, <1>n, <2>1
  <2>2. CASE a # c
    <3>1. AffectedBy(b, a)
      BY <1>1, <1>4, <2>2 DEF AffectedBy
    <3> QED BY <1>3, <1>4, <2>2, <3>1 DEF EnsInv, WatcherNothingSkipped
  <2> QED BY <2>1, <2>2
<1>8. \A a \in Tracked : a \in damaged' \/ ens'[a].ext = None \/ ens'[a].ext \in files'[a]
  <2>1. \A a \in Tracked : ens'[a].ext = ens[a].ext
    BY <1>4
  <2> QED BY <1>1, <2>1 DEF EnsInv, FilesKept
<1>9. CASE c \notin Orchs
  <2>1. missed \ {Current} \subseteq missed' /\ job' = Passed
    BY <1>2, <1>3, <1>9
  <2>2. \A a \in Tracked \ {c} : ens'[a].name = ens[a].name /\ ens'[a].at = ens[a].at
    BY <1>4
  <2>3. job.phase = "watch" => ens'[c].at >= job.upTo \/ c \in missed'
    BY <1>4, <1>n
  <2> QED BY <1>1, <1>2, <1>5, <1>6, <1>7, <1>8, <2>1, <2>2, <2>3, EnsPasses
<1>10. CASE c \in Orchs
  <2> DEFINE s == IF job.avatar = None THEN "clear" ELSE "fetch"
  <2>1. job' = [job EXCEPT !.step = s] /\ s \in {"clear", "fetch"}
    BY <1>3, <1>10
  <2>2. s = "clear" => job.avatar = None
    OBVIOUS
  <2> HIDE DEF s
  <2>3. /\ job' \in JobType /\ job'.step = s /\ job'.todo = job.todo
        /\ job'.phase = job.phase /\ job'.upTo = job.upTo /\ job'.latest = job.latest /\ job'.who = job.who
        /\ job'.at = job.at /\ job'.name = job.name /\ job'.avatar = job.avatar
    BY <1>0, <2>1 DEF JobType, Steps
  <2>4. JobShape'
    <3>1. ens'[job.who].at >= job.upTo /\ job.who \in Tracked /\ job.who \in job.todo
      BY <1>2, <1>4, <1>n
    <3> QED BY <1>0, <1>1, <2>1, <2>3, <3>1 DEF JobShape, Reading, Storing, Head0
  <2>5. EnsTypeOK'
    BY <1>5, <2>4, EnsTyped, PTL
  <2>6. NameRead' /\ AvatarRead' /\ FilesKept'
    BY <1>8, <2>1, <2>2, <2>3 DEF NameRead, AvatarRead, FilesKept, Reading
  <2>7. ASSUME job.phase = "watch", NEW b \in (since + 1)..job.upTo, NEW a \in Tracked, AffectedBy(b, a)'
        PROVE  ens'[a].at >= b \/ a \in missed' \/ a \in job.todo
    <3>1. CASE a = c
      BY <1>2, <3>1
    <3>2. CASE a # c
      <4>1. AffectedBy(b, a)
        BY <1>1, <1>4, <2>7, <3>2 DEF AffectedBy
      <4> QED BY <1>0, <1>1, <1>3, <1>4, <2>7, <3>2, <4>1 DEF ChunkCovers
    <3> QED BY <3>1, <3>2
  <2>8. ChunkCovers'
    BY <1>1, <2>3, <2>7 DEF ChunkCovers
  <2> QED BY <1>6, <1>7, <2>4, <2>5, <2>6, <2>8 DEF EnsInv
<1> QED BY <1>9, <1>10

\* A refresh that fails, or whose avatar cannot be fetched, is passed over.
LEMMA EnsGivesUp ==
  ASSUME EnsInv, ResolverReverts \/ RefreshFails \/ FetchFails
  PROVE  EnsInv'
<1> USE DEF tableVars, rowVars, storeVars, watchVars
<1>0. EnsTables /\ EnsTypeOK /\ JobShape /\ job \in JobType
  BY EnsTyped DEF EnsInv, JobShape
<1>1. job.todo # {} /\ job.step # "mark" /\ job' = Passed
      /\ UNCHANGED <<chain, ens, age, fresh, files, damaged, watched, since>>
  BY DEF ResolverReverts, RefreshFails, FetchFails, Refreshing, GiveUp
<1>2. PICK c \in job.todo : c = Current /\ c \in Tracked /\ (job.step = "fetch" => c = job.who)
  BY <1>0, <1>1, OnTheList DEF EnsTypeOK
<1>3. /\ missed \subseteq missed' /\ missed' \subseteq Tracked
      /\ job.phase = "watch" => ens'[c].at >= job.upTo \/ c \in missed'
  <2>1. CASE ResolverReverts \/ RefreshFails
    BY <1>0, <1>2, <2>1 DEF ResolverReverts, RefreshFails, GiveUp, EnsTables
  <2>2. CASE FetchFails
    BY <1>0, <1>1, <1>2, <2>2 DEF FetchFails, Refreshing, EnsTables, JobShape, Storing
  <2> QED BY <2>1, <2>2
<1>4. EnsTables'
  BY <1>0, <1>1, <1>3 DEF EnsTables, Head0
<1>5. NamesHeld' /\ WatcherNothingSkipped'
  BY <1>1, <1>3, NamesStay
<1>6. \A a \in Tracked : a \in damaged' \/ ens'[a].ext = None \/ ens'[a].ext \in files'[a]
  BY <1>1 DEF EnsInv, FilesKept
<1> QED BY <1>1, <1>2, <1>3, <1>4, <1>5, <1>6, EnsPasses

\* The file is fetched; the files are replaced or removed; the marker is next.
LEMMA EnsStores ==
  ASSUME EnsInv, FetchAvatar \/ WriteFile \/ ClearFiles \/ ClearFails
  PROVE  EnsInv'
<1> USE DEF tableVars, rowVars, storeVars, watchVars
<1>0. EnsTables /\ EnsTypeOK /\ JobShape /\ job \in JobType /\ AvatarRead /\ ChunkCovers
  BY EnsTyped DEF EnsInv, JobShape
<1>1. /\ job.todo # {} /\ job.step \in {"fetch", "write", "clear"}
      /\ UNCHANGED <<chain, ens, age, fresh, missed, damaged, watched, since>>
  BY DEF FetchAvatar, WriteFile, ClearFiles, ClearFails, Refreshing
<1>2. PICK c \in job.todo : c = Current /\ c = job.who /\ c \in Tracked
  BY <1>0, <1>1, OnTheList DEF EnsTypeOK, Storing
<1>3. PICK s \in {"write", "mark"} : job' = [job EXCEPT !.step = s] /\ (s = "write" <=> job.step = "fetch")
  BY DEF FetchAvatar, WriteFile, ClearFiles, ClearFails, Refreshing
<1>4. /\ files' \in [Tracked -> SUBSET KnownExts]
      /\ \A a \in Tracked \ {c} : files'[a] = files[a]
      /\ s = "write" => files' = files /\ job.avatar \in KnownExts
      /\ s = "mark" => job.avatar = None \/ (job.avatar \in KnownExts /\ job.avatar \in files'[c])
  <2>1. CASE FetchAvatar \/ ClearFails
    BY <1>0, <1>3, <2>1 DEF FetchAvatar, ClearFails, Refreshing, EnsTables, AvatarRead
  <2>2. CASE WriteFile \/ ClearFiles
    BY <1>0, <1>2, <1>3, <2>2 DEF WriteFile, ClearFiles, Refreshing, EnsTables, AvatarRead
  <2> QED BY <2>1, <2>2
<1>5. /\ job' \in JobType /\ job'.step = s /\ job'.todo = job.todo
      /\ job'.phase = job.phase /\ job'.upTo = job.upTo /\ job'.latest = job.latest /\ job'.who = job.who
      /\ job'.at = job.at /\ job'.name = job.name /\ job'.avatar = job.avatar
  BY <1>0, <1>3 DEF JobType, Steps
<1>6. EnsTables'
  BY <1>0, <1>1, <1>4 DEF EnsTables, Head0
<1>7. JobShape'
  BY <1>0, <1>1, <1>3, <1>5 DEF JobShape, Reading, Storing, Head0
<1>8. EnsTypeOK'
  BY <1>6, <1>7, EnsTyped, PTL
<1>9. NamesHeld' /\ WatcherNothingSkipped'
  BY <1>1, NamesStay
<1>10. NameRead' /\ AvatarRead' /\ ChunkCovers'
  BY <1>0, <1>1, <1>2, <1>3, <1>4, <1>5 DEF NameRead, AvatarRead, ChunkCovers, AffectedBy, Reading
<1>11. FilesKept'
  <2> SUFFICES ASSUME NEW a \in Tracked
               PROVE  a \in damaged \/ (s = "mark" /\ c = a) \/ ens[a].ext = None \/ ens[a].ext \in files'[a]
    BY <1>1, <1>2, <1>5 DEF FilesKept
  <2>1. a \in damaged \/ ens[a].ext = None \/ ens[a].ext \in files[a]
    BY <1>1 DEF EnsInv, FilesKept
  <2> QED BY <1>3, <1>4, <2>1
<1> QED BY <1>7, <1>8, <1>9, <1>10, <1>11 DEF EnsInv

\* The extension is recorded, or the writing is cut short.
LEMMA EnsMarks ==
  ASSUME EnsInv, MarkExt \/ MarkFails \/ WriteFails
  PROVE  EnsInv'
<1> USE DEF tableVars, rowVars, storeVars, watchVars
<1>0. EnsTables /\ EnsTypeOK /\ JobShape /\ job \in JobType /\ AvatarRead
  BY EnsTyped DEF EnsInv, JobShape
<1>1. /\ job.todo # {} /\ job.step \in {"mark", "write"} /\ job' = Passed
      /\ UNCHANGED <<chain, age, fresh, missed, watched, since>>
  BY DEF MarkExt, MarkFails, WriteFails, Refreshing
<1>2. PICK c \in job.todo : c = Current /\ c = job.who /\ c \in Tracked
  BY <1>0, <1>1, OnTheList DEF EnsTypeOK, Storing
<1>3. /\ ens' \in [Tracked -> [name : Names \cup {None}, avatar : Images \cup {None},
                              ext : KnownExts \cup {None}, at : 0..Head0]]
      /\ \A a \in Tracked : ens'[a].name = ens[a].name /\ ens'[a].at = ens[a].at
      /\ \A a \in Tracked \ {c} : ens'[a] = ens[a]
      /\ MarkExt => ens'[c].ext = job.avatar
  <2> DEFINE Row == [name : Names \cup {None}, avatar : Images \cup {None}, ext : KnownExts \cup {None}, at : 0..Head0]
  <2>1. ens \in [Tracked -> Row] /\ ens[c] \in Row
    BY <1>0, <1>2 DEF EnsTables
  <2>2. CASE MarkExt
    <3> DEFINE row == [ens[c] EXCEPT !.ext = job.avatar]
    <3>1. job.avatar \in KnownExts \cup {None}
      BY <1>0, <2>2 DEF MarkExt, Refreshing, AvatarRead
    <3>2. row \in Row /\ row.name = ens[c].name /\ row.at = ens[c].at /\ row.ext = job.avatar
      BY <2>1, <3>1
    <3>3. ens' = [ens EXCEPT ![c] = row]
      BY <1>2, <2>2 DEF MarkExt
    <3> HIDE DEF row, Row
    <3>4. ens' \in [Tracked -> Row] /\ ens'[c] = row /\ \A a \in Tracked \ {c} : ens'[a] = ens[a]
      BY <1>2, <2>1, <3>2, <3>3
    <3> QED BY <3>2, <3>4 DEF Row
  <2>3. CASE ~ MarkExt
    BY <2>1, <2>3 DEF MarkFails, WriteFails
  <2> QED BY <2>2, <2>3
<1>4. /\ files' \in [Tracked -> SUBSET KnownExts] /\ damaged' \subseteq Tracked
      /\ \A a \in Tracked \ {c} : files'[a] = files[a]
      /\ damaged \ {c} \subseteq damaged'
      /\ ~ MarkExt => c \in damaged'
  <2>0. files \in [Tracked -> SUBSET KnownExts] /\ damaged \subseteq Tracked
    BY <1>0 DEF EnsTables
  <2>1. CASE MarkExt
    BY <1>2, <2>0, <2>1 DEF MarkExt
  <2>2. CASE ~ MarkExt /\ MarkFails
    BY <1>2, <2>0, <2>2 DEF MarkFails
  <2>3. CASE ~ MarkExt /\ WriteFails
    <3>1. files' = [files EXCEPT ![c] = files[c] \cap {job.avatar}] /\ damaged' = damaged \cup {c}
      BY <1>2, <2>3 DEF WriteFails
    <3> QED BY <1>2, <2>0, <2>3, <3>1
  <2> QED BY <2>1, <2>2, <2>3
<1>5. EnsTables'
  BY <1>0, <1>1, <1>3, <1>4 DEF EnsTables, Head0
<1>6. NamesHeld' /\ WatcherNothingSkipped'
  BY <1>1, <1>3, NamesStay
<1>7. ASSUME NEW a \in Tracked PROVE a \in damaged' \/ ens'[a].ext = None \/ ens'[a].ext \in files'[a]
  <2>1. CASE a = c /\ MarkExt
    <3>1. job.avatar = None \/ job.avatar \in files'[c]
      BY <1>0, <1>2, <2>1 DEF MarkExt, Refreshing, AvatarRead
    <3> QED BY <1>3, <2>1, <3>1
  <2>2. CASE a = c /\ ~ MarkExt
    BY <1>4, <2>2
  <2>3. CASE a # c
    BY <1>2, <1>3, <1>4, <2>3 DEF EnsInv, FilesKept
  <2> QED BY <2>1, <2>2, <2>3
<1>8. job.phase = "watch" => ens'[c].at >= job.upTo \/ c \in missed'
  BY <1>0, <1>1, <1>2, <1>3 DEF JobShape, Storing
<1>9. \A a \in Tracked \ {c} : ens'[a].name = ens[a].name /\ ens'[a].at = ens[a].at
  BY <1>3
<1>10. missed \ {Current} \subseteq missed'
  BY <1>1
<1> QED BY <1>1, <1>2, <1>5, <1>6, <1>7, <1>8, <1>9, <1>10, EnsPasses

LEMMA EnsRestarts ==
  ASSUME EnsInv, EnricherRestarts
  PROVE  EnsInv'
<1>0. EnsTables /\ EnsTypeOK /\ JobShape
  BY EnsTyped DEF EnsInv
<1>1. /\ job' = NoJob /\ damaged' = IF Refreshing("mark") THEN damaged \cup {Current} ELSE damaged
      /\ UNCHANGED <<chain, ens, age, fresh, missed, files, watched, since>>
  BY DEF EnricherRestarts, rowVars, watchVars
<1>2. job' = Enter("watch")
  BY <1>1 DEF Enter, NoJob
<1>3. damaged \subseteq damaged' /\ damaged' \subseteq Tracked
      /\ (job.step = "mark" => job.who \in damaged')
  <2>1. CASE job.step = "mark"
    <3>1. job.todo # {} /\ job.who \in Tracked /\ Current = job.who
      BY <1>0, <2>1, OnTheList DEF JobShape, Storing
    <3> QED BY <1>0, <1>1, <2>1, <3>1 DEF Refreshing, EnsTables
  <2>2. CASE job.step # "mark"
    BY <1>0, <1>1, <2>2 DEF Refreshing, EnsTables
  <2> QED BY <2>1, <2>2
<1>4. EnsTables'
  BY <1>0, <1>1, <1>3 DEF EnsTables, Head0
<1>5. NamesHeld' /\ WatcherNothingSkipped'
  BY <1>1, NamesStay
<1>6. \A a \in Tracked : a \in damaged' \/ ens'[a].ext = None \/ ens'[a].ext \in files'[a]
  BY <1>1, <1>3 DEF EnsInv, FilesKept
<1> QED BY <1>2, <1>4, <1>5, <1>6, EnsEnters

LEMMA EnsStep ==
  ASSUME EnsInv, EnsNext \/ UNCHANGED ensVars
  PROVE  EnsInv'
<1>1. CASE UNCHANGED ensVars
  BY <1>1 DEF ensVars, EnsInv, EnsTypeOK, JobShape, NameRead, AvatarRead, NamesHeld, FilesKept, ChunkCovers,
              WatcherNothingSkipped, AffectedBy, Head0
<1>2. CASE EnsNext
  BY <1>2, EnsBlock, EnsExpires, EnsWatches, EnsSweeps, EnsReads, EnsUpserts, EnsGivesUp, EnsStores, EnsMarks,
     EnsRestarts DEF EnsNext, EnricherWorks, EnricherFails
<1> QED BY <1>1, <1>2

-----------------------------------------------------------------------------
(* All of them.  A service's step is one of its own or leaves its tables    *)
(* alone while the log it reads may grow.                                   *)

ServicesInv == LogInv /\ GatewayInv /\ ReceiptInv /\ ProfileInv /\ TruthInv /\ EnsInv

LEMMA ServicesStart == ServicesInit => ServicesInv
BY LogStart, GatewayStarted, ReceiptStarted, ProfileStarted, TruthStart, EnsStarted
   DEF ServicesInit, ServicesInv

\* Neither the staker nor the enricher finalizes anything.
LEMMA StakerLeavesLog == TruthNext => UNCHANGED final
BY DEF TruthNext, StakerWorks, FlowStage, PendingStart, Retry, ApplyExact, ClaimsStart, ApplyClaims,
       CurrentStart, UpsertStates, UpdateActivity, AdvanceRound, StakerFails, FlowCut, ReadState, ReadClaim,
       ReadStale, SkipClaim, Fault, logVars

LEMMA EnricherLeavesLog == EnsNext => UNCHANGED final
BY DEF EnsNext, L1Block, Expire, EnricherWorks, EnricherFails, WatchStart, FetchChunk, AdvanceWatch, SweepStart,
       SweepNext, ReadName, CheckOwner, ReadAvatar, UpsertEns, ResolverReverts, FetchAvatar, FetchFails, WriteFile,
       ClearFiles, MarkExt, WatchFails, RefreshFails, WriteFails, ClearFails, MarkFails, EnricherRestarts, Fault,
       logVars

LEMMA ServicesStep == ServicesInv /\ [ServicesNext]_servicesVars => ServicesInv'
<1> SUFFICES ASSUME ServicesInv, [ServicesNext]_servicesVars PROVE ServicesInv'
  OBVIOUS
<1> USE DEF ServicesInv
<1>1. FinalitySteps
  <2>1. CASE WatcherSteps
    BY <2>1 DEF WatcherSteps, FinalitySteps
  <2>2. CASE GatewaySteps
    BY <2>2, GatewayStep DEF GatewaySteps, FinalitySteps
  <2>3. CASE ReceiptSteps
    BY <2>3, ReceiptStep DEF ReceiptSteps, FinalitySteps
  <2>4. CASE ProfileSteps
    BY <2>4, ProfileStep DEF ProfileSteps, FinalitySteps
  <2>5. CASE StakerSteps
    BY <2>5, StakerLeavesLog DEF StakerSteps, FinalitySteps
  <2>6. CASE EnricherSteps
    BY <2>6, EnricherLeavesLog DEF EnricherSteps, FinalitySteps
  <2>7. CASE UNCHANGED servicesVars
    BY <2>7 DEF servicesVars, logVars, FinalitySteps
  <2> QED BY <2>1, <2>2, <2>3, <2>4, <2>5, <2>6, <2>7 DEF ServicesNext
<1>2. /\ GatewayNext \/ UNCHANGED gatewayVars
      /\ ReceiptNext \/ UNCHANGED receiptVars
      /\ ProfileNext \/ UNCHANGED profileVars
      /\ TruthNext \/ UNCHANGED truthVars
      /\ EnsNext \/ UNCHANGED ensVars
  BY DEF ServicesNext, WatcherSteps, GatewaySteps, ReceiptSteps, ProfileSteps, StakerSteps, EnricherSteps,
         servicesVars
<1>3. LogInv'
  BY <1>1, LogStep
<1>4. GatewayInv'
  BY <1>1, <1>2, GatewayStep, GatewayWaits
<1>5. ReceiptInv'
  BY <1>1, <1>2, ReceiptStep, ReceiptWaits
<1>6. ProfileInv'
  BY <1>1, <1>2, ProfileStep, ProfileWaits
<1>7. TruthInv' /\ EnsInv'
  BY <1>2, TruthStep, EnsStep
<1> QED BY <1>3, <1>4, <1>5, <1>6, <1>7

LEMMA ServicesInvHolds == ServicesSpec => []ServicesInv
BY ServicesStart, ServicesStep, PTL DEF ServicesSpec

\* The five services keep their tables, lists and checkpoints well typed.
THEOREM ServicesTyped == ServicesSpec => []ServicesTypeOK
<1>1. ServicesInv => ServicesTypeOK
  BY DEF ServicesInv, ServicesTypeOK, GatewayInv, ReceiptInv, ProfileInv, TruthInv, EnsInv
<1> QED BY <1>1, ServicesInvHolds, PTL

\* No checkpoint of gateway.rs, tx_receipts.rs or the ENS watcher passes an event, a
\* transaction or a change it has not dealt with, wherever a LIMIT cuts a list, two
\* runs overlap, a call fails or the finality-watcher moves in between.
THEOREM NothingIsHidden == ServicesSpec => []CheckpointsHideNothing
<1>1. ServicesInv => CheckpointsHideNothing
  BY DEF ServicesInv, CheckpointsHideNothing, GatewayInv, ReceiptInv, EnsInv
<1> QED BY <1>1, ServicesInvHolds, PTL

\* gateway.rs: a balance row names the last event of its gateway in its block.
THEOREM BalancesNameLastTouch == ServicesSpec => []BalanceTriggerIsLastTouch
<1>1. ServicesInv => BalanceTriggerIsLastTouch
  BY DEF ServicesInv, GatewayInv
<1> QED BY <1>1, ServicesInvHolds, PTL

\* profile.rs: a round below the checkpoint has a row for every orchestrator that had
\* acted by then, however stale the view the walk started from.
THEOREM RoundsComplete == ServicesSpec => []RoundsAreComplete
<1>1. ServicesInv => RoundsAreComplete
  BY DEF ServicesInv, ProfileInv
<1> QED BY <1>1, ServicesInvHolds, PTL

\* pending.rs: after the reconciliation every row of the stake table is exact.
THEOREM ReconciledExact == ServicesSpec => []ReconciledRowsAreExact
<1>1. ServicesInv => ReconciledRowsAreExact
  BY DEF ServicesInv, TruthInv
<1> QED BY <1>1, ServicesInvHolds, PTL

\* current.rs: the round checkpoint never moves over a delegator that was not read.
THEOREM RoundsAreRead == ServicesSpec => NoUnreadRound
<1>1. ServicesInv /\ [ServicesNext]_servicesVars
        => [cpRound' > cpRound => RefreshCandidates(Log[work.anchor].block) = {}]_truthVars
  <2> SUFFICES ASSUME ServicesInv, [ServicesNext]_servicesVars, ~ UNCHANGED truthVars, cpRound' > cpRound
               PROVE  RefreshCandidates(Log[work.anchor].block) = {}
    OBVIOUS
  <2>1. TruthNext
    BY DEF ServicesNext, WatcherSteps, GatewaySteps, ReceiptSteps, ProfileSteps, StakerSteps, EnricherSteps,
           servicesVars
  <2> QED BY <2>1, RoundMoves DEF ServicesInv
<1> QED BY <1>1, ServicesInvHolds, PTL DEF ServicesSpec, NoUnreadRound

\* runner.rs and avatar.rs of the enricher: no name is stored for an address it did
\* not point back at, and a recorded avatar has its file.
THEOREM EnsRowsTrue == ServicesSpec => []EnsRowsHold
<1>1. ServicesInv => EnsRowsHold
  BY RowsFollow DEF ServicesInv
<1> QED BY <1>1, ServicesInvHolds, PTL
=============================================================================
