------------------------- MODULE StakeFlowProofs -------------------------
(***************************************************************************)
(* Theorems of StakeFlow.                                                  *)
(***************************************************************************)
EXTENDS StakeFlow, Extremes

-----------------------------------------------------------------------------
(* Sums over sets of events. *)
Amounts(T) == MapThenSumSet(LAMBDA e : e.amount, T)

\* What the fold of MapThenSumSet over S is a solution of, on the subsets in D.
Sums(f, D) ==
  f = [s \in D |-> IF s = {} THEN 0
                   ELSE (CHOOSE x \in s : TRUE).amount + f[s \ {CHOOSE x \in s : TRUE}]]

LEMMA AmountsAre == \A S : Amounts(S) = (CHOOSE f : Sums(f, SUBSET S))[S]
BY DEF Amounts, Sums, MapThenSumSet, MapThenFoldSet

LEMMA SumsTo ==
  ASSUME NEW S, IsFiniteSet(S)
  PROVE  \E f : Sums(f, SUBSET S)
<1> DEFINE Upto(n) == {s \in SUBSET S : Cardinality(s) <= n}
           Bad == {n \in Nat : ~ \E f : Sums(f, Upto(n))}
<1>0. \A s \in SUBSET S : IsFiniteSet(s) /\ Cardinality(s) \in Nat
  BY FS_Subset, FS_CardinalityType
<1>1. \E f : Sums(f, Upto(0))
  <2> DEFINE g == [s \in Upto(0) |-> 0]
  <2>1. \A s \in Upto(0) : s = {}
    BY <1>0, FS_EmptySet
  <2>2. Sums(g, Upto(0))
    <3> HIDE DEF Upto
    <3> QED BY <2>1 DEF Sums
  <2> QED BY <2>2
<1>2. ASSUME NEW n \in Nat, \E f : Sums(f, Upto(n)) PROVE \E f : Sums(f, Upto(n + 1))
  <2>1. PICK f : Sums(f, Upto(n))
    BY <1>2
  <2> DEFINE x(s) == CHOOSE x \in s : TRUE
             g == [s \in Upto(n + 1) |-> IF s \in Upto(n) THEN f[s] ELSE x(s).amount + f[s \ {x(s)}]]
  <2>2. \A s \in Upto(n + 1) : s # {} => s \ {x(s)} \in Upto(n)
    <3>1. TAKE s \in Upto(n + 1)
    <3>2. HAVE s # {}
    <3>3. x(s) \in s
      BY <3>2
    <3>4. Cardinality(s \ {x(s)}) = Cardinality(s) - 1
      <4> HIDE DEF x
      <4> QED BY <1>0, <3>3, FS_RemoveElement
    <3> QED BY <1>0, <3>4
  <2>3. Upto(n) \subseteq Upto(n + 1) /\ {} \in Upto(n)
    BY <1>0, FS_EmptySet
  <2>4. \A s \in Upto(n) : f[s] = IF s = {} THEN 0 ELSE x(s).amount + f[s \ {x(s)}]
    <3> HIDE DEF Upto
    <3> QED BY <2>1 DEF Sums
  <2> HIDE DEF Upto
  <2>5. \A s \in Upto(n + 1) : g[s] = IF s = {} THEN 0 ELSE x(s).amount + f[s \ {x(s)}]
    BY <2>3, <2>4
  <2>6. \A s \in Upto(n + 1) : s # {} => g[s \ {x(s)}] = f[s \ {x(s)}]
    BY <2>2, <2>3
  <2>7. g = [s \in Upto(n + 1) |-> IF s = {} THEN 0 ELSE x(s).amount + g[s \ {x(s)}]]
    <3> DEFINE h == [s \in Upto(n + 1) |-> IF s = {} THEN 0 ELSE x(s).amount + g[s \ {x(s)}]]
    <3>1. \A s \in Upto(n + 1) : g[s] = h[s]
      <4> HIDE DEF g, x
      <4> QED BY <2>5, <2>6
    <3> HIDE DEF x
    <3> QED BY <3>1
  <2> QED BY <2>7 DEF Sums
<1>3. Bad = {}
  <2>1. SUFFICES ASSUME Bad # {} PROVE FALSE
    OBVIOUS
  <2>2. PICK n \in Bad : \A m \in Bad : n <= m
    <3>1. Bad \in SUBSET Nat
      OBVIOUS
    <3> HIDE DEF Bad
    <3> QED BY <2>1, <3>1, LeastOf
  <2> HIDE DEF Upto
  <2>3. n # 0
    BY <1>1
  <2>4. n - 1 \in Nat /\ n - 1 \notin Bad /\ (n - 1) + 1 = n
    <3>1. n \in Nat
      OBVIOUS
    <3>2. n - 1 \in Nat /\ (n - 1) + 1 = n /\ ~ (n <= n - 1)
      BY <3>1, <2>3
    <3> QED BY <2>2, <3>2
  <2>5. \E f : Sums(f, Upto(n))
    BY <1>2, <2>4
  <2> QED BY <2>5
<1>4. SUBSET S = Upto(Cardinality(S))
  BY FS_Subset
<1>5. Cardinality(S) \in Nat
  BY FS_CardinalityType
<1> HIDE DEF Upto
<1>6. \E f : Sums(f, Upto(Cardinality(S)))
  BY <1>3, <1>5
<1> QED BY <1>4, <1>6

\* Two solutions agree where both are defined.
LEMMA SumsAgree ==
  ASSUME NEW S, NEW T, NEW f, NEW g, Sums(f, SUBSET S), Sums(g, SUBSET T),
         NEW U \in (SUBSET S) \cap (SUBSET T), IsFiniteSet(U)
  PROVE  f[U] = g[U]
<1> DEFINE Bad == {V \in SUBSET U : f[V] # g[V]}
           Sizes == {Cardinality(V) : V \in Bad}
<1>1. SUFFICES ASSUME Bad # {} PROVE FALSE
  OBVIOUS
<1>2. \A V \in SUBSET U : IsFiniteSet(V) /\ Cardinality(V) \in Nat
  BY FS_Subset, FS_CardinalityType
<1>3. PICK V \in Bad : \A W \in Bad : Cardinality(V) <= Cardinality(W)
  <2>1. Sizes \in SUBSET Nat /\ Sizes # {}
    BY <1>1, <1>2
  <2>2. PICK k \in Sizes : \A l \in Sizes : k <= l
    <3> HIDE DEF Sizes
    <3> QED BY <2>1, LeastOf
  <2> QED BY <2>2
<1> DEFINE x == CHOOSE x \in V : TRUE
<1>4. V \in SUBSET S /\ V \in SUBSET T /\ V \in SUBSET U
  OBVIOUS
<1>5. /\ f[V] = IF V = {} THEN 0 ELSE x.amount + f[V \ {x}]
      /\ g[V] = IF V = {} THEN 0 ELSE x.amount + g[V \ {x}]
  BY <1>4 DEF Sums
<1>6. V # {}
  <2> HIDE DEF x
  <2> QED BY <1>5
<1>7. x \in V
  BY <1>6
<1> HIDE DEF x
<1>8. Cardinality(V \ {x}) = Cardinality(V) - 1
  BY <1>2, <1>4, <1>7, FS_RemoveElement
<1>9. V \ {x} \notin Bad
  <2> HIDE DEF Bad
  <2> QED BY <1>2, <1>3, <1>4, <1>8
<1>10. f[V \ {x}] = g[V \ {x}]
  BY <1>4, <1>9
<1> QED BY <1>5, <1>6, <1>10

\* The sum over nothing, and what the chosen member of a set adds.
LEMMA AmountsChoose ==
  ASSUME NEW S, IsFiniteSet(S)
  PROVE  Amounts(S) = IF S = {} THEN 0
                      ELSE (CHOOSE x \in S : TRUE).amount + Amounts(S \ {CHOOSE x \in S : TRUE})
<1> DEFINE x == CHOOSE x \in S : TRUE
           f == CHOOSE f : Sums(f, SUBSET S)
           g == CHOOSE g : Sums(g, SUBSET (S \ {x}))
<1>1. Sums(f, SUBSET S) /\ Amounts(S) = f[S]
  BY SumsTo, AmountsAre
<1>2. Sums(g, SUBSET (S \ {x})) /\ Amounts(S \ {x}) = g[S \ {x}]
  <2>1. IsFiniteSet(S \ {x})
    BY FS_Subset
  <2> HIDE DEF x
  <2> QED BY <2>1, SumsTo, AmountsAre
<1>3. f[S] = IF S = {} THEN 0 ELSE x.amount + f[S \ {x}]
  <2> HIDE DEF f
  <2> QED BY <1>1 DEF Sums
<1>4. f[S \ {x}] = g[S \ {x}]
  <2>1. IsFiniteSet(S \ {x})
    BY FS_Subset
  <2> DEFINE U == S \ {x}
  <2>2. U \in (SUBSET S) \cap (SUBSET U) /\ IsFiniteSet(U)
    BY <2>1
  <2>3. Sums(g, SUBSET U)
    BY <1>2
  <2> HIDE DEF f, g, U
  <2>4. f[U] = g[U]
    BY <1>1, <2>2, <2>3, SumsAgree
  <2> QED BY <2>4 DEF U
<1> QED
  <2> HIDE DEF f, g
  <2> QED BY <1>1, <1>2, <1>3, <1>4

\* ... and what any member adds.
LEMMA AmountsSplit ==
  ASSUME NEW S, IsFiniteSet(S), \A e \in S : e.amount \in Nat
  PROVE  /\ Amounts(S) \in Nat
         /\ \A e \in S : Amounts(S) = e.amount + Amounts(S \ {e})
<1> DEFINE Fine(T) == Amounts(T) \in Nat /\ \A e \in T : Amounts(T) = e.amount + Amounts(T \ {e})
           Bad == {T \in SUBSET S : ~ Fine(T)}
           Sizes == {Cardinality(T) : T \in Bad}
<1>1. SUFFICES ASSUME Bad # {} PROVE FALSE
  <2> SUFFICES Bad = {}
    OBVIOUS
  <2> QED OBVIOUS
<1>2. \A T \in SUBSET S : IsFiniteSet(T) /\ Cardinality(T) \in Nat
  BY FS_Subset, FS_CardinalityType
<1>3. PICK T \in Bad : \A U \in Bad : Cardinality(T) <= Cardinality(U)
  <2>1. Sizes \in SUBSET Nat /\ Sizes # {}
    BY <1>1, <1>2
  <2>2. PICK k \in Sizes : \A l \in Sizes : k <= l
    <3> HIDE DEF Sizes
    <3> QED BY <2>1, LeastOf
  <2> QED BY <2>2
<1>4. T \in SUBSET S /\ ~ Fine(T)
  OBVIOUS
<1> DEFINE x == CHOOSE x \in T : TRUE
<1>5. Amounts(T) = IF T = {} THEN 0 ELSE x.amount + Amounts(T \ {x})
  BY <1>2, <1>4, AmountsChoose
<1>6. \A e \in T : T \ {e} \in SUBSET S /\ Fine(T \ {e})
  <2>1. TAKE e \in T
  <2>2. Cardinality(T \ {e}) = Cardinality(T) - 1
    BY <1>2, <1>4, FS_RemoveElement
  <2>3. T \ {e} \notin Bad
    <3> HIDE DEF Bad
    <3> QED BY <1>2, <1>3, <1>4, <2>2
  <2> HIDE DEF Fine
  <2> QED BY <1>4, <2>3
<1>7. T # {}
  <2> HIDE DEF x
  <2> QED BY <1>4, <1>5
<1>8. x \in T
  BY <1>7
<1> HIDE DEF x
<1>9. Amounts(T) \in Nat
  BY <1>4, <1>5, <1>6, <1>7, <1>8
<1>10. ASSUME NEW e \in T PROVE Amounts(T) = e.amount + Amounts(T \ {e})
  <2>1. CASE e = x
    BY <1>5, <1>7, <2>1
  <2>2. CASE e # x
    <3>1. /\ Amounts(T \ {x}) = e.amount + Amounts((T \ {x}) \ {e})
          /\ Amounts(T \ {e}) = x.amount + Amounts((T \ {e}) \ {x})
      BY <1>6, <1>8, <2>2
    <3>2. (T \ {x}) \ {e} = (T \ {e}) \ {x}
      OBVIOUS
    <3>3. /\ x.amount \in Nat /\ e.amount \in Nat
          /\ Amounts(T \ {x}) \in Nat /\ Amounts(T \ {e}) \in Nat
      BY <1>4, <1>6, <1>8
    <3>4. Fine((T \ {x}) \ {e}) => Amounts((T \ {x}) \ {e}) \in Nat
      OBVIOUS
    <3> DEFINE A == Amounts((T \ {x}) \ {e})
    <3>5. Amounts(T \ {x}) = e.amount + A /\ Amounts(T \ {e}) = x.amount + A
      BY <3>1, <3>2
    <3>6. Amounts(T) = x.amount + Amounts(T \ {x})
      BY <1>5, <1>7
    <3>7. A \in Int
      <4>1. (T \ {x}) \ {e} \in SUBSET S
        BY <1>4
      <4>2. (T \ {x}) \ {e} \notin Bad
        <5>1. Cardinality(T \ {x}) = Cardinality(T) - 1
          BY <1>2, <1>4, <1>8, FS_RemoveElement
        <5>2. Cardinality((T \ {x}) \ {e}) = Cardinality(T \ {x}) - 1
          BY <1>2, <1>6, <1>8, <2>2, FS_RemoveElement
        <5> HIDE DEF Bad
        <5> QED BY <1>2, <1>3, <1>4, <4>1, <5>1, <5>2
      <4>3. Fine((T \ {x}) \ {e})
        <5> HIDE DEF Fine
        <5> QED BY <4>1, <4>2
      <4> QED BY <4>3
    <3> HIDE DEF A
    <3> QED BY <3>3, <3>5, <3>6, <3>7
  <2> QED BY <2>1, <2>2
<1> QED BY <1>4, <1>9, <1>10
-----------------------------------------------------------------------------
(* The log, and the replay of one delegator.                                *)

LEMMA BlocksAre == Blocks \subseteq Nat
BY DEF Blocks

LEMMA LogFacts ==
  /\ IsFiniteSet(Events)
  /\ \A e \in Events : /\ e.pos \in 1..Len(Log) /\ Log[e.pos] = e
                       /\ e.block \in Blocks /\ e.block \in Nat /\ e.amount \in Nat
                       /\ e.from \in Addresses /\ e.to \in Addresses
  /\ \A n \in 1..Len(Log) : Log[n] \in Events /\ Log[n].pos = n
  /\ \A e, f \in Events : e.pos <= f.pos => e.block <= f.block
  /\ Len(Log) \in Nat
<1>1. Log \in Seq(Events) /\ Len(Log) \in Nat /\ DOMAIN Log = 1..Len(Log)
  <2>1. Log \in Seq(Events)
    BY StakeFlowAssumption
  <2> QED BY <2>1
<1>2. Events = {Log[i] : i \in 1..Len(Log)}
  BY <1>1 DEF Events, Range
<1>3. IsFiniteSet(Events)
  <2>1. IsFiniteSet(1..Len(Log))
    BY <1>1, FS_Interval
  <2>2. Log \in [1..Len(Log) -> Events] /\ \A e \in Events : \E i \in 1..Len(Log) : e = Log[i]
    BY <1>1, <1>2
  <2> QED BY <2>1, <2>2, ValuesFinite
<1>4. \A n \in 1..Len(Log) : Log[n] \in Events /\ Log[n].pos = n
  BY <1>2, StakeFlowAssumption
<1>5. \A e \in Events : e.pos \in 1..Len(Log) /\ Log[e.pos] = e
  BY <1>2, <1>4
<1>6. \A e \in Events : e.block \in Blocks /\ e.block \in Nat /\ e.amount \in Nat
  <2>1. \A e \in Events : e.block \in Blocks /\ e.amount \in Nat
    BY StakeFlowAssumption
  <2> QED BY <2>1, BlocksAre
<1>7. \A e \in Events : e.from \in Addresses /\ e.to \in Addresses
  BY DEF Addresses
<1>8. ASSUME NEW e \in Events, NEW f \in Events, e.pos <= f.pos PROVE e.block <= f.block
  <2>1. CASE e.pos = f.pos
    BY <1>5, <1>6, <2>1
  <2>2. CASE e.pos # f.pos
    <3>1. e.pos < f.pos
      BY <1>1, <1>5, <1>8, <2>2
    <3>2. \A i, j \in 1..Len(Log) : i < j => Log[i].block <= Log[j].block
      BY StakeFlowAssumption
    <3> QED BY <1>5, <3>1, <3>2
  <2> QED BY <2>1, <2>2
<1> QED BY <1>1, <1>3, <1>4, <1>5, <1>6, <1>7, <1>8

\* What upTo of Replay is a solution of, on the first n events.
Runs(d, S, n, f) ==
  f = [m \in 0..n |->
         IF m = 0 THEN Fresh
         ELSE IF Log[m] \in S /\ d \in DelegatorsOf(Log[m])
              THEN Apply(d, Log[m])[f[m - 1]] ELSE f[m - 1]]

LEMMA ReplayIs ==
  \A d, S : Replay(d, S) = (CHOOSE f : Runs(d, S, Len(Log), f))[Len(Log)]
BY DEF Replay, Runs

LEMMA ReplayRuns ==
  ASSUME NEW d, NEW S
  PROVE  \A n \in Nat : \E f : Runs(d, S, n, f)
<1> DEFINE Bad == {n \in Nat : ~ \E f : Runs(d, S, n, f)}
<1>1. \E f : Runs(d, S, 0, f)
  <2> DEFINE g == [m \in 0..0 |-> Fresh]
  <2>1. g = [m \in 0..0 |-> IF m = 0 THEN Fresh
                            ELSE IF Log[m] \in S /\ d \in DelegatorsOf(Log[m])
                                 THEN Apply(d, Log[m])[g[m - 1]] ELSE g[m - 1]]
    <3> DEFINE h == [m \in 0..0 |-> IF m = 0 THEN Fresh
                            ELSE IF Log[m] \in S /\ d \in DelegatorsOf(Log[m])
                                 THEN Apply(d, Log[m])[g[m - 1]] ELSE g[m - 1]]
    <3>1. \A m \in 0..0 : g[m] = h[m]
      OBVIOUS
    <3> QED BY <3>1
  <2> QED BY <2>1 DEF Runs
<1>2. ASSUME NEW n \in Nat, \E f : Runs(d, S, n, f) PROVE \E f : Runs(d, S, n + 1, f)
  <2>1. PICK f : Runs(d, S, n, f)
    BY <1>2
  <2> DEFINE Go(old, m) == IF Log[m] \in S /\ d \in DelegatorsOf(Log[m]) THEN Apply(d, Log[m])[old] ELSE old
             g == [m \in 0..(n + 1) |-> IF m = n + 1 THEN Go(f[n], n + 1) ELSE f[m]]
             h == [m \in 0..(n + 1) |-> IF m = 0 THEN Fresh ELSE Go(g[m - 1], m)]
  <2>2. \A m \in 0..n : f[m] = IF m = 0 THEN Fresh ELSE Go(f[m - 1], m)
    BY <2>1 DEF Runs
  <2> HIDE DEF Go
  <2>3. \A m \in 0..n : g[m] = f[m]
    OBVIOUS
  <2>4. \A m \in 1..(n + 1) : m - 1 \in 0..n
    OBVIOUS
  <2>5. \A m \in 1..(n + 1) : g[m] = Go(g[m - 1], m)
    <3>1. TAKE m \in 1..(n + 1)
    <3>2. CASE m = n + 1
      <4>1. g[m] = Go(f[n], n + 1) /\ g[n] = f[n] /\ m - 1 = n
        BY <3>2, <2>3
      <4> HIDE DEF g
      <4> QED BY <4>1, <3>2
    <3>3. CASE m # n + 1
      <4>1. m \in 0..n /\ m # 0 /\ m - 1 \in 0..n
        BY <3>3
      <4> HIDE DEF g
      <4> QED BY <4>1, <2>2, <2>3
    <3> QED BY <3>2, <3>3
  <2>6. g[0] = Fresh
    BY <2>2
  <2>7. \A m \in 0..(n + 1) : g[m] = h[m]
    <3> HIDE DEF g
    <3> QED BY <2>5, <2>6
  <2>8. g = h
    <3> SUFFICES \A m \in 0..(n + 1) : g[m] = h[m]
      OBVIOUS
    <3> QED BY <2>7
  <2>9. Runs(d, S, n + 1, g)
    <3> HIDE DEF g
    <3> QED BY <2>8 DEF Runs, Go
  <2> QED BY <2>9
<1>3. Bad = {}
  <2>1. SUFFICES ASSUME Bad # {} PROVE FALSE
    OBVIOUS
  <2>2. PICK n \in Bad : \A m \in Bad : n <= m
    <3>1. Bad \in SUBSET Nat
      OBVIOUS
    <3> HIDE DEF Bad
    <3> QED BY <2>1, <3>1, LeastOf
  <2>3. n \in Nat /\ n # 0
    BY <1>1
  <2>4. n - 1 \in Nat /\ (n - 1) + 1 = n /\ ~ (n <= n - 1)
    BY <2>3
  <2>5. n - 1 \notin Bad
    <3> HIDE DEF Bad
    <3> QED BY <2>2, <2>4
  <2>6. \E f : Runs(d, S, n - 1, f)
    BY <2>4, <2>5
  <2>7. \E f : Runs(d, S, (n - 1) + 1, f)
    BY <1>2, <2>4, <2>6
  <2> QED BY <2>4, <2>7
<1> QED BY <1>3

\* One event.
LEMMA Applied ==
  ASSUME NEW d \in Addresses, NEW st \in ReplayState, NEW e \in Events
  PROVE  /\ Delta(e) \in Int
         /\ ~Takes(d, st.first > 0, e) => Apply(d, e)[st] = st
         /\ Takes(d, st.first > 0, e) =>
              LET row == [bal |-> st.bal + Delta(e), del |-> NewDelegate(st.del, e)]
              IN  /\ row \in Row /\ row # NoRow
                  /\ Apply(d, e)[st].bal = st.bal + Delta(e)
                  /\ Apply(d, e)[st].first = IF st.first = 0 /\ Registers(d, e) THEN e.pos ELSE st.first
                  /\ Apply(d, e)[st].rows = [st.rows EXCEPT ![e.block] = row]
         /\ Apply(d, e)[st] \in ReplayState
<1> DEFINE row == [bal |-> st.bal + Delta(e), del |-> NewDelegate(st.del, e)]
           new == [bal |-> row.bal, del |-> row.del,
                   first |-> IF st.first = 0 /\ Registers(d, e) THEN e.pos ELSE st.first,
                   last |-> e.pos,
                   rows |-> [st.rows EXCEPT ![e.block] = row]]
<1>1. Apply(d, e)[st] = IF ~Takes(d, st.first > 0, e) THEN st ELSE new
  BY DEF Apply
<1>2. Delta(e) \in Int
  BY LogFacts DEF Delta
<1>3. /\ st.bal \in Int /\ st.del \in Addresses \cup {"zero"} /\ st.first \in Nat /\ st.last \in Nat
      /\ st.rows \in [Blocks -> Row]
  BY DEF ReplayState
<1>4. NewDelegate(st.del, e) \in Addresses \cup {"zero"}
  BY <1>3, LogFacts DEF NewDelegate
<1>5. row \in Row /\ row.del # "no row"
  <2>1. "no row" \notin Addresses
    BY StakeFlowAssumption
  <2> DEFINE b == st.bal + Delta(e)
             n == NewDelegate(st.del, e)
  <2>2. b \in Int /\ n \in Addresses \cup {"zero"}
    BY <1>2, <1>3, <1>4
  <2> HIDE DEF b, n
  <2>3. [bal |-> b, del |-> n] \in Row /\ n # "no row"
    BY <2>1, <2>2 DEF Row
  <2> QED BY <2>3 DEF b, n
<1>6. row # NoRow
  <2>1. NoRow.del = "no row"
    BY DEF NoRow
  <2> HIDE DEF row
  <2> QED BY <1>5, <2>1
<1>7. new \in ReplayState
  <2>1. row.bal \in Int /\ row.del \in Addresses \cup {"zero"}
    BY <1>2, <1>3, <1>4
  <2>2. e.pos \in Nat
    BY LogFacts
  <2> DEFINE rows == [st.rows EXCEPT ![e.block] = row]
  <2>3. rows \in [Blocks -> Row]
    <3> HIDE DEF row
    <3> QED BY <1>3, <1>5
  <2> HIDE DEF row, rows
  <2> QED BY <1>3, <2>1, <2>2, <2>3 DEF ReplayState, rows
<1>8. Apply(d, e)[st] \in ReplayState
  <2> HIDE DEF new
  <2> QED BY <1>1, <1>7
<1>9. new.bal = st.bal + Delta(e) /\ new.rows = [st.rows EXCEPT ![e.block] = row]
  OBVIOUS
<1>10. new.first = IF st.first = 0 /\ Registers(d, e) THEN e.pos ELSE st.first
  OBVIOUS
<1>11. ~Takes(d, st.first > 0, e) => Apply(d, e)[st] = st
  BY <1>1
<1>12. Takes(d, st.first > 0, e) => Apply(d, e)[st] = new
  BY <1>1
<1> HIDE DEF new
<1> QED BY <1>2, <1>5, <1>6, <1>8, <1>9, <1>10, <1>11, <1>12
-----------------------------------------------------------------------------
(* What a replay computes, in terms of the sets of Balance and Counted.     *)

Gains == {"Bond", "Rebond", "EarningsClaimed"}
Value(T) == Amounts({e \in T : e.name \in Gains}) - Amounts({e \in T : e.name \in {"Unbond"}})

LEMMA ValueOf ==
  /\ Value({}) = 0
  /\ \A T \in SUBSET Events : Value(T) \in Int
  /\ \A T \in SUBSET Events : \A e \in Events \ T : Value(T \cup {e}) = Value(T) + Delta(e)
<1>1. Value({}) = 0
  <2>1. Amounts({}) = 0
    BY AmountsChoose, FS_EmptySet
  <2>2. {e \in {} : e.name \in Gains} = {} /\ {e \in {} : e.name \in {"Unbond"}} = {}
    OBVIOUS
  <2> QED BY <2>1, <2>2 DEF Value
<1>2. \A T \in SUBSET Events : IsFiniteSet(T) /\ Amounts(T) \in Int
  <2>1. TAKE T \in SUBSET Events
  <2>2. IsFiniteSet(T) /\ \A e \in T : e.amount \in Nat
    BY LogFacts, FS_Subset
  <2> QED BY <2>2, AmountsSplit
<1>3. \A T \in SUBSET Events : Value(T) \in Int
  BY <1>2 DEF Value
<1>4. ASSUME NEW T \in SUBSET Events, NEW e \in Events \ T
      PROVE  Amounts(T \cup {e}) = e.amount + Amounts(T)
  <2> DEFINE U == T \cup {e}
  <2>1. IsFiniteSet(U) /\ (\A x \in U : x.amount \in Nat) /\ e \in U /\ U \ {e} = T
    BY <1>2, LogFacts
  <2> HIDE DEF U
  <2>2. Amounts(U) = e.amount + Amounts(U \ {e})
    BY <2>1, AmountsSplit
  <2> QED BY <2>1, <2>2 DEF U
<1>5. ASSUME NEW T \in SUBSET Events, NEW e \in Events \ T
      PROVE  Value(T \cup {e}) = Value(T) + Delta(e)
  <2> DEFINE Up(U) == {x \in U : x.name \in Gains}
             Down(U) == {x \in U : x.name \in {"Unbond"}}
  <2>1. Amounts(Up(T)) \in Int /\ Amounts(Down(T)) \in Int /\ e.amount \in Int
    BY <1>2, LogFacts
  <2>2. CASE e.name \in Gains
    <3>1. Up(T \cup {e}) = Up(T) \cup {e} /\ Down(T \cup {e}) = Down(T) /\ e \notin Up(T)
      BY <2>2 DEF Gains
    <3>2. Delta(e) = e.amount
      BY <2>2 DEF Delta, Gains
    <3>3. Up(T) \in SUBSET Events
      OBVIOUS
    <3>4. Amounts(Up(T) \cup {e}) = e.amount + Amounts(Up(T))
      <4> HIDE DEF Up
      <4> QED BY <1>4, <3>1, <3>3
    <3> HIDE DEF Up, Down
    <3>5. Value(T \cup {e}) = Amounts(Up(T \cup {e})) - Amounts(Down(T \cup {e}))
          /\ Value(T) = Amounts(Up(T)) - Amounts(Down(T))
      BY DEF Value, Up, Down
    <3>6. Value(T \cup {e}) = (e.amount + Amounts(Up(T))) - Amounts(Down(T))
      BY <2>1, <3>1, <3>4, <3>5
    <3> QED BY <2>1, <3>2, <3>5, <3>6
  <2>3. CASE e.name = "Unbond"
    <3>1. Down(T \cup {e}) = Down(T) \cup {e} /\ Up(T \cup {e}) = Up(T) /\ e \notin Down(T)
      BY <2>3 DEF Gains
    <3>2. Delta(e) = 0 - e.amount
      BY <2>3 DEF Delta, Gains
    <3>3. Down(T) \in SUBSET Events
      OBVIOUS
    <3>4. Amounts(Down(T) \cup {e}) = e.amount + Amounts(Down(T))
      <4> HIDE DEF Down
      <4> QED BY <1>4, <3>1, <3>3
    <3> HIDE DEF Up, Down
    <3>5. Value(T \cup {e}) = Amounts(Up(T \cup {e})) - Amounts(Down(T \cup {e}))
          /\ Value(T) = Amounts(Up(T)) - Amounts(Down(T))
      BY DEF Value, Up, Down
    <3>6. Value(T \cup {e}) = Amounts(Up(T)) - (e.amount + Amounts(Down(T)))
      BY <2>1, <3>1, <3>4, <3>5
    <3> QED BY <2>1, <3>2, <3>5, <3>6
  <2>4. CASE e.name \notin Gains /\ e.name # "Unbond"
    <3>1. Down(T \cup {e}) = Down(T) /\ Up(T \cup {e}) = Up(T)
      BY <2>4
    <3>2. Delta(e) = 0
      BY <2>4 DEF Delta, Gains
    <3> HIDE DEF Up, Down
    <3>5. Value(T \cup {e}) = Amounts(Up(T \cup {e})) - Amounts(Down(T \cup {e}))
          /\ Value(T) = Amounts(Up(T)) - Amounts(Down(T))
      BY DEF Value, Up, Down
    <3> QED BY <2>1, <3>1, <3>2, <3>5
  <2> QED BY <2>2, <2>3, <2>4
<1> QED BY <1>1, <1>3, <1>5

LEMMA BalanceIs ==
  \A d, S, b : Balance(d, S, b) = Value({e \in Counted(d, S) : e.block <= b})
<1>1. TAKE d, S, b
<1> DEFINE C == Counted(d, S)
<1>2. \A N : {e \in {x \in C : x.block <= b} : e.name \in N} = {e \in C : e.block <= b /\ e.name \in N}
  <2> HIDE DEF C
  <2> QED OBVIOUS
<1> HIDE DEF C
<1>3. Balance(d, S, b) = Amounts({e \in C : e.block <= b /\ e.name \in Gains})
                         - Amounts({e \in C : e.block <= b /\ e.name \in {"Unbond"}})
  BY DEF Balance, Amounts, Gains, C
<1> QED BY <1>2, <1>3 DEF Value, C

LEMMA RegistersIs ==
  \A d : \A e \in Events : Registers(d, e) => d \in DelegatorsOf(e) /\ d \in {e.from, e.to}
BY DEF Registers, DelegatorsOf

\* Events a replay counts, among the first n.
CountedTo(d, S, n) == {e \in Counted(d, S) : e.pos <= n}

\* The state after the first n events.
Sum(d, S, n, st) ==
  /\ st \in ReplayState
  /\ st.bal = Value(CountedTo(d, S, n))
  /\ st.first > 0 => \E r \in S : Registers(d, r) /\ r.pos = st.first /\ r.pos <= n
  /\ \A r \in S : Registers(d, r) /\ r.pos <= n => 0 < st.first /\ st.first <= r.pos
  /\ \A b \in Blocks :
       /\ st.rows[b] # NoRow <=> \E e \in CountedTo(d, S, n) : e.block = b
       /\ st.rows[b] # NoRow => st.rows[b].bal = Value({e \in CountedTo(d, S, n) : e.block <= b})

LEMMA SumStarts ==
  ASSUME NEW d \in Addresses, NEW S \in SUBSET Events
  PROVE  Sum(d, S, 0, Fresh)
<1>1. Fresh \in ReplayState
  <2>1. NoRow \in Row
    BY DEF NoRow, Row
  <2>2. [b \in Blocks |-> NoRow] \in [Blocks -> Row]
    BY <2>1
  <2> QED BY <2>2 DEF Fresh, ReplayState
<1>2. \A e \in Events : ~(e.pos <= 0)
  BY LogFacts
<1>3. CountedTo(d, S, 0) = {}
  BY <1>2 DEF CountedTo, Counted
<1>4. Fresh.bal = 0 /\ Fresh.first = 0 /\ \A b \in Blocks : Fresh.rows[b] = NoRow
  BY DEF Fresh
<1>5. \A b \in Blocks : ~(\E e \in CountedTo(d, S, 0) : e.block = b)
  BY <1>3
<1>6. \A r \in S : ~(r.pos <= 0)
  BY <1>2
<1>7. Fresh.bal = Value(CountedTo(d, S, 0))
  BY <1>3, <1>4, ValueOf
<1> QED BY <1>1, <1>4, <1>5, <1>6, <1>7 DEF Sum

LEMMA SumSteps ==
  ASSUME NEW d \in Addresses, NEW S \in SUBSET Events, NEW n \in 1..Len(Log), NEW st,
         Sum(d, S, n - 1, st)
  PROVE  Sum(d, S, n, IF Log[n] \in S /\ d \in DelegatorsOf(Log[n]) THEN Apply(d, Log[n])[st] ELSE st)
<1> DEFINE e == Log[n]
           C == CountedTo(d, S, n - 1)
<1>1. e \in Events /\ e.pos = n /\ n \in Nat /\ n - 1 \in Nat
  BY LogFacts
<1>2. \A x \in Events : /\ x.pos \in Nat /\ x.block \in Nat
                        /\ x.pos <= n <=> x.pos <= n - 1 \/ x = e
                        /\ x.pos <= n - 1 <=> x.pos < n
                        /\ x = e => ~(x.pos <= n - 1)
  <2>1. TAKE x \in Events
  <2>2. x.pos \in 1..Len(Log) /\ x = Log[x.pos] /\ x.block \in Nat
    BY LogFacts
  <2>3. x.pos = n => x = e
    BY <2>2
  <2> HIDE DEF e
  <2> QED BY <1>1, <2>2, <2>3
<1>3. CountedTo(d, S, n) = C \cup (IF e \in Counted(d, S) THEN {e} ELSE {})
  <2>1. Counted(d, S) \subseteq Events
    BY DEF Counted
  <2> HIDE DEF e
  <2> QED BY <1>1, <1>2, <2>1 DEF CountedTo
<1>4. C \in SUBSET Events /\ e \notin C
  <2> HIDE DEF e
  <2> QED BY <1>1, <1>2 DEF CountedTo, Counted
<1>5. \A r \in S : r.pos <= n <=> r.pos <= n - 1 \/ r = e
  <2> HIDE DEF e
  <2> QED BY <1>2
<1>6. st \in ReplayState /\ st.first \in Nat
  BY DEF Sum, ReplayState
<1> HIDE DEF e
<1>7. st.first > 0 <=> Before(d, S, e)
  BY <1>1, <1>2, <1>6 DEF Before, Sum
<1>8. CASE ~(e \in S /\ d \in DelegatorsOf(e))
  <2>1. e \notin Counted(d, S)
    BY <1>8 DEF Counted
  <2>2. ~(e \in S /\ Registers(d, e))
    BY <1>1, <1>8, RegistersIs
  <2>3. CountedTo(d, S, n) = C
    BY <1>3, <2>1
  <2>4. \A r \in S : Registers(d, r) /\ r.pos <= n => r.pos <= n - 1
    BY <1>5, <2>2
  <2>5. \A r \in S : r.pos <= n - 1 => r.pos <= n
    BY <1>5
  <2>6. Sum(d, S, n, st)
    BY <2>3, <2>4, <2>5 DEF Sum
  <2> QED BY <1>8, <2>6 DEF e
<1>9. CASE e \in S /\ d \in DelegatorsOf(e) /\ ~Takes(d, st.first > 0, e)
  <2>1. e \notin Counted(d, S)
    BY <1>7, <1>9 DEF Counted, Takes
  <2>2. ~(e \in S /\ Registers(d, e))
    BY <1>9 DEF Takes
  <2>3. CountedTo(d, S, n) = C
    BY <1>3, <2>1
  <2>4. \A r \in S : Registers(d, r) /\ r.pos <= n => r.pos <= n - 1
    BY <1>5, <2>2
  <2>5. \A r \in S : r.pos <= n - 1 => r.pos <= n
    BY <1>5
  <2>6. Sum(d, S, n, st)
    BY <2>3, <2>4, <2>5 DEF Sum
  <2>7. Apply(d, e)[st] = st
    BY <1>1, <1>6, <1>9, Applied
  <2> QED BY <2>6, <2>7 DEF e
<1>10. CASE e \in S /\ d \in DelegatorsOf(e) /\ Takes(d, st.first > 0, e)
  <2> DEFINE new == Apply(d, e)[st]
             row == [bal |-> st.bal + Delta(e), del |-> NewDelegate(st.del, e)]
             D == CountedTo(d, S, n)
  <2>1. /\ row \in Row /\ row # NoRow
        /\ new.bal = st.bal + Delta(e)
        /\ new.first = IF st.first = 0 /\ Registers(d, e) THEN e.pos ELSE st.first
        /\ new.rows = [st.rows EXCEPT ![e.block] = row]
        /\ new \in ReplayState
    BY <1>1, <1>6, <1>10, Applied
  <2>2. row.bal = st.bal + Delta(e)
    OBVIOUS
  <2>3. st.rows \in [Blocks -> Row] /\ e.block \in Blocks
    BY <1>1, <1>6, LogFacts DEF ReplayState
  <2>4. new.rows[e.block] = row /\ \A b \in Blocks \ {e.block} : new.rows[b] = st.rows[b]
    <3> HIDE DEF row, new
    <3> QED BY <2>1, <2>3
  <2> HIDE DEF new, row
  <2>5. D = C \cup {e}
    <3>1. e \in Counted(d, S)
      BY <1>7, <1>10 DEF Counted, Takes
    <3> QED BY <1>3, <3>1
  <2>6. new.bal = Value(D)
    <3>1. st.bal = Value(C)
      BY DEF Sum
    <3> HIDE DEF C, D
    <3> QED BY <1>1, <1>4, <2>1, <2>5, <3>1, ValueOf
  <2>7. new.first > 0 => \E r \in S : Registers(d, r) /\ r.pos = new.first /\ r.pos <= n
    <3>1. CASE st.first = 0 /\ Registers(d, e)
      BY <1>1, <1>10, <2>1, <3>1
    <3>2. CASE ~(st.first = 0 /\ Registers(d, e))
      <4>1. new.first = st.first
        BY <2>1, <3>2
      <4> QED BY <4>1, <1>5 DEF Sum
    <3> QED BY <3>1, <3>2
  <2>8. ASSUME NEW r \in S, Registers(d, r), r.pos <= n PROVE 0 < new.first /\ new.first <= r.pos
    <3>0. /\ \A x \in S : Registers(d, x) /\ x.pos <= n - 1 => 0 < st.first /\ st.first <= x.pos
          /\ st.first > 0 => \E x \in S : Registers(d, x) /\ x.pos = st.first /\ x.pos <= n - 1
      BY DEF Sum
    <3>1. CASE st.first = 0
      <4>1. r = e
        BY <1>5, <1>6, <2>8, <3>0, <3>1
      <4>2. new.first = e.pos
        BY <2>1, <2>8, <3>1, <4>1
      <4> QED BY <1>1, <4>1, <4>2
    <3>2. CASE st.first # 0
      <4>1. new.first = st.first /\ st.first > 0
        BY <1>6, <2>1, <3>2
      <4>2. CASE r = e
        <5>1. st.first <= n - 1
          BY <3>0, <4>1
        <5> QED BY <1>1, <1>6, <4>1, <4>2, <5>1
      <4>3. CASE r # e
        BY <1>5, <2>8, <3>0, <4>1, <4>3
      <4> QED BY <4>2, <4>3
    <3> QED BY <3>1, <3>2
  <2>9. ASSUME NEW b \in Blocks
        PROVE  /\ new.rows[b] # NoRow <=> \E x \in D : x.block = b
               /\ new.rows[b] # NoRow => new.rows[b].bal = Value({x \in D : x.block <= b})
    <3>0. /\ st.rows[b] # NoRow <=> \E x \in C : x.block = b
          /\ st.rows[b] # NoRow => st.rows[b].bal = Value({x \in C : x.block <= b})
      BY DEF Sum
    <3>1. \A x \in C : x.block <= e.block
      <4>1. \A x \in C : x \in Events /\ x.pos <= e.pos
        BY <1>1, <1>2, <1>4 DEF CountedTo
      <4> QED BY <1>1, <4>1, LogFacts
    <3>2. b \in Nat /\ e.block \in Nat
      BY <1>1, LogFacts, BlocksAre
    <3> HIDE DEF C, D
    <3>3. CASE b = e.block
      <4>1. {x \in D : x.block <= b} = D
        BY <2>5, <3>1, <3>2, <3>3
      <4> QED BY <2>1, <2>2, <2>4, <2>5, <2>6, <3>3, <4>1
    <3>4. CASE b # e.block
      <4>1. new.rows[b] = st.rows[b]
        BY <2>4, <3>4
      <4>2. (\E x \in D : x.block = b) <=> \E x \in C : x.block = b
        BY <2>5, <3>4
      <4>3. ASSUME \E x \in C : x.block = b PROVE {x \in D : x.block <= b} = {x \in C : x.block <= b}
        <5>1. b < e.block
          BY <3>1, <3>2, <3>4, <4>3
        <5> QED BY <2>5, <3>2, <5>1
      <4> QED BY <3>0, <4>1, <4>2, <4>3
    <3> QED BY <3>3, <3>4
  <2>10. Sum(d, S, n, new)
    BY <2>1, <2>6, <2>7, <2>8, <2>9 DEF Sum
  <2> QED BY <1>10, <2>10 DEF e, new
<1> QED BY <1>8, <1>9, <1>10

LEMMA ReplaySums ==
  ASSUME NEW d \in Addresses, NEW S \in SUBSET Events
  PROVE  Sum(d, S, Len(Log), Replay(d, S))
<1> DEFINE f == CHOOSE g : Runs(d, S, Len(Log), g)
<1>1. Replay(d, S) = f[Len(Log)] /\ Runs(d, S, Len(Log), f)
  BY ReplayIs, ReplayRuns, LogFacts
<1> HIDE DEF f
<1>2. \A m \in 0..Len(Log) :
        f[m] = IF m = 0 THEN Fresh
               ELSE IF Log[m] \in S /\ d \in DelegatorsOf(Log[m]) THEN Apply(d, Log[m])[f[m - 1]] ELSE f[m - 1]
  BY <1>1 DEF Runs
<1> DEFINE Bad == {m \in 0..Len(Log) : ~Sum(d, S, m, f[m])}
<1>3. SUFFICES ASSUME Bad # {} PROVE FALSE
  BY <1>1, LogFacts
<1>4. PICK m \in Bad : \A k \in Bad : m <= k
  <2>1. Bad \in SUBSET Nat
    BY LogFacts
  <2> HIDE DEF Bad
  <2> QED BY <1>3, <2>1, LeastOf
<1>5. m \in 0..Len(Log) /\ ~Sum(d, S, m, f[m])
  OBVIOUS
<1>6. m # 0
  BY <1>2, <1>5, SumStarts
<1>7. m - 1 \in 0..Len(Log) /\ ~(m <= m - 1) /\ m \in 1..Len(Log)
  BY <1>5, <1>6, LogFacts
<1>8. m - 1 \notin Bad
  <2> HIDE DEF Bad
  <2> QED BY <1>4, <1>7
<1>9. Sum(d, S, m - 1, f[m - 1])
  BY <1>7, <1>8
<1>10. Sum(d, S, m, f[m])
  BY <1>2, <1>5, <1>6, <1>7, <1>9, SumSteps
<1> QED BY <1>5, <1>10

-----------------------------------------------------------------------------
(* The outcome of a replay: its rows and its registry entry.                *)

Bonds(d, S) == {e.pos : e \in {r \in S : Registers(d, r)}}

Entry == [first : Nat, last : Nat, active : BOOLEAN]

\* What RegistryMatches asks of an entry.
Fits(d, S, entry) ==
  IF Bonds(d, S) = {} THEN entry = NoEntry
  ELSE entry.first = Min(Bonds(d, S)) /\ entry.active = (Balance(d, S, MaxBlock) > 0)

LEMMA OutcomeOf ==
  ASSUME NEW d \in Addresses, NEW S \in SUBSET Events
  PROVE  /\ Replay(d, S).rows \in [Blocks -> Row]
         /\ \A b \in Blocks :
              /\ Replay(d, S).rows[b] # NoRow <=> \E e \in Counted(d, S) : e.block = b
              /\ Replay(d, S).rows[b] # NoRow => Replay(d, S).rows[b].bal = Balance(d, S, b)
         /\ EntryOf(Replay(d, S)) \in Entry
         /\ Fits(d, S, EntryOf(Replay(d, S)))
         /\ Bonds(d, S) # {} => EntryOf(Replay(d, S)) # NoEntry
<1> DEFINE out == Replay(d, S)
<1>1. Sum(d, S, Len(Log), out)
  BY ReplaySums
<1> HIDE DEF out
<1>2. \A e \in S : e \in Events /\ e.pos <= Len(Log) /\ e.pos \in Nat /\ e.block <= MaxBlock
  <2>1. \A b \in Blocks : b <= MaxBlock
    BY DEF Blocks
  <2> QED BY <2>1, LogFacts
<1>3. CountedTo(d, S, Len(Log)) = Counted(d, S)
  BY <1>2 DEF CountedTo, Counted
<1>4. out.rows \in [Blocks -> Row] /\ out.first \in Nat /\ out.last \in Nat
  BY <1>1 DEF Sum, ReplayState
<1>5. ASSUME NEW b \in Blocks
      PROVE  /\ out.rows[b] # NoRow <=> \E e \in Counted(d, S) : e.block = b
             /\ out.rows[b] # NoRow => out.rows[b].bal = Balance(d, S, b)
  BY <1>1, <1>3, BalanceIs DEF Sum
<1>6. out.bal = Balance(d, S, MaxBlock)
  <2>1. {e \in Counted(d, S) : e.block <= MaxBlock} = Counted(d, S)
    BY <1>2 DEF Counted
  <2> QED BY <1>1, <1>3, <2>1, BalanceIs DEF Sum
<1>7. EntryOf(out) \in Entry
  <2>1. (out.bal > 0) \in BOOLEAN
    OBVIOUS
  <2> DEFINE a == out.bal > 0
  <2>2. EntryOf(out) = IF out.first = 0 THEN NoEntry ELSE [first |-> out.first, last |-> out.last, active |-> a]
    BY DEF EntryOf
  <2>3. a \in BOOLEAN
    OBVIOUS
  <2> HIDE DEF a
  <2>4. [first |-> out.first, last |-> out.last, active |-> a] \in Entry
    BY <1>4, <2>3 DEF Entry
  <2>5. NoEntry \in Entry
    BY DEF NoEntry, Entry
  <2> QED BY <2>2, <2>4, <2>5
<1>8. Bonds(d, S) = {} <=> out.first = 0
  <2>1. \A r \in S : Registers(d, r) => 0 < out.first
    BY <1>1, <1>2 DEF Sum
  <2>2. out.first > 0 => \E r \in S : Registers(d, r)
    BY <1>1 DEF Sum
  <2>3. Bonds(d, S) = {} <=> ~ \E r \in S : Registers(d, r)
    BY DEF Bonds
  <2>4. out.first = 0 \/ out.first > 0
    BY <1>4
  <2> QED BY <1>4, <2>1, <2>2, <2>3, <2>4
<1>9. ASSUME Bonds(d, S) # {} PROVE out.first = Min(Bonds(d, S))
  <2>1. Bonds(d, S) \in SUBSET Nat
    BY <1>2 DEF Bonds
  <2>2. Min(Bonds(d, S)) \in Bonds(d, S) /\ \A m \in Bonds(d, S) : Min(Bonds(d, S)) <= m
    <3>1. \E x \in Bonds(d, S) : \A y \in Bonds(d, S) : x =< y
      BY <1>9, <2>1, LeastOf
    <3> QED BY <3>1 DEF Min
  <2>3. out.first \in Bonds(d, S) /\ \A m \in Bonds(d, S) : out.first <= m
    <3>1. out.first > 0
      BY <1>4, <1>8, <1>9
    <3> QED BY <1>1, <1>2, <3>1 DEF Sum, Bonds
  <2>4. Min(Bonds(d, S)) \in Nat
    BY <2>1, <2>2
  <2> QED BY <1>4, <2>2, <2>3, <2>4
<1>10. Fits(d, S, EntryOf(out))
  <2>1. CASE Bonds(d, S) = {}
    BY <1>8, <2>1 DEF EntryOf, Fits
  <2>2. CASE Bonds(d, S) # {}
    <3>1. EntryOf(out) = [first |-> out.first, last |-> out.last, active |-> out.bal > 0]
      BY <1>8, <2>2 DEF EntryOf
    <3>2. EntryOf(out).first = out.first /\ EntryOf(out).active = (out.bal > 0)
      BY <3>1
    <3> QED BY <1>6, <1>9, <2>2, <3>2 DEF Fits
  <2> QED BY <2>1, <2>2
<1>11. Bonds(d, S) # {} => EntryOf(out) # NoEntry
  BY <1>8 DEF EntryOf, NoEntry
<1> QED BY <1>4, <1>5, <1>7, <1>10, <1>11 DEF out

\* What is counted up to a block depends on the events up to it only.
LEMMA CountedSame ==
  ASSUME NEW d, NEW b \in Nat, NEW S \in SUBSET Events, NEW T \in SUBSET Events,
         \A e \in Events : d \in DelegatorsOf(e) /\ e.block <= b => (e \in S <=> e \in T)
  PROVE  /\ {e \in Counted(d, S) : e.block <= b} = {e \in Counted(d, T) : e.block <= b}
         /\ Balance(d, S, b) = Balance(d, T, b)
<1>1. ASSUME NEW e \in Events, e.block <= b, d \in DelegatorsOf(e)
      PROVE  e \in Counted(d, S) <=> e \in Counted(d, T)
  <2>1. ASSUME NEW r \in Events, Registers(d, r), r.pos < e.pos
        PROVE  r \in S <=> r \in T
    <3>1. r.block <= e.block /\ r.block \in Nat /\ e.block \in Nat
      BY <2>1, LogFacts
    <3>2. r.block <= b
      BY <1>1, <3>1
    <3> QED BY <2>1, <3>2, RegistersIs
  <2>2. Before(d, S, e) <=> Before(d, T, e)
    BY <2>1 DEF Before
  <2> QED BY <1>1, <2>2 DEF Counted, Takes
<1>2. \A U \in SUBSET Events : \A e \in Counted(d, U) : e \in Events /\ d \in DelegatorsOf(e)
  BY DEF Counted
<1>3. {e \in Counted(d, S) : e.block <= b} = {e \in Counted(d, T) : e.block <= b}
  BY <1>1, <1>2
<1> QED BY <1>3, BalanceIs

-----------------------------------------------------------------------------
(* Type correctness, for any order of ingestion.                            *)

Batching == {"history", "replay", "rows", "advance"}

\* The batch in hand.
BatchShape ==
  /\ final \subseteq Ingested /\ heads \subseteq final /\ history \subseteq final
  /\ pc # "idle" => heads # {}
  /\ pc \notin {"replay", "rows"} => todo = {}
  /\ pc # "rows" => cur = {} /\ pending = {}
  /\ pc = "rows" => \E o \in cur : cur = {o}
  /\ \A o \in cur : /\ o.rows = Replay(o.who, history).rows
                    /\ o.entry = EntryOf(Replay(o.who, history))

TypeInv ==
  /\ TypeOK
  /\ \A e \in Events : id[e] <= Cardinality(Ingested)
  /\ \A e, f \in Ingested : id[e] = id[f] => e = f
  /\ BatchShape

LEMMA EventsCounted == Cardinality(Events) \in Nat
BY LogFacts, FS_CardinalityType

LEMMA TypeStarts == Init => TypeInv
<1> SUFFICES ASSUME Init PROVE TypeInv
  OBVIOUS
<1>1. NoRow \in Row
  BY DEF NoRow, Row
<1>2. NoEntry \in [first : Nat, last : Nat, active : BOOLEAN]
  BY DEF NoEntry
<1>3. Ingested = {}
  BY DEF Init, Ingested
<1>4. \A e \in Events : id[e] <= Cardinality(Ingested)
  BY <1>3, FS_EmptySet DEF Init
<1>5. TypeOK
  <2>1. id \in [Events -> 0..Cardinality(Events)] /\ checkpoint \in 0..Cardinality(Events)
    BY EventsCounted DEF Init
  <2>2. stake \in [Addresses -> [Blocks -> Row]]
    <3>1. [b \in Blocks |-> NoRow] \in [Blocks -> Row]
      BY <1>1
    <3> QED BY <3>1 DEF Init
  <2>3. registry \in [Addresses -> [first : Nat, last : Nat, active : BOOLEAN]]
    BY <1>2 DEF Init
  <2> QED BY <2>1, <2>2, <2>3 DEF Init, TypeOK
<1>6. BatchShape
  BY <1>3 DEF Init, BatchShape
<1> QED BY <1>3, <1>4, <1>5, <1>6 DEF TypeInv

\* A block is added: its events get the next ids.
LEMMA Ingests ==
  ASSUME TypeInv, Ingest
  PROVE  \E b \in Blocks :
           LET new == {e \in Events : e.block = b}
           IN  /\ new # {} /\ new \cap Ingested = {} /\ Ingested' = Ingested \cup new
               /\ OutOfOrder \/ \A e \in Events : e.block < b => e \in Ingested
               /\ id' \in [Events -> 0..Cardinality(Events)]
               /\ \A e \in new : Cardinality(Ingested) < id'[e]
               /\ \A e \in Events \ new : id'[e] = id[e]
               /\ Cardinality(Ingested) <= Cardinality(Ingested')
               /\ \A e \in Events : id'[e] <= Cardinality(Ingested')
               /\ \A e, f \in Ingested' : id'[e] = id'[f] => e = f
<1> DEFINE News(b) == {e \in Events : e.block = b}
<1>1. PICK b \in Blocks :
        /\ News(b) # {} /\ News(b) \cap Ingested = {}
        /\ OutOfOrder \/ \A e \in Events : e.block < b => e \in Ingested
        /\ id' = [e \in Events |->
                     IF e \in News(b)
                     THEN Cardinality(Ingested) + Cardinality({f \in News(b) : f.pos <= e.pos})
                     ELSE id[e]]
  BY DEF Ingest
<1> DEFINE new == News(b)
           Upto(e) == {f \in new : f.pos <= e.pos}
           known == Ingested
<1>2. id \in [Events -> 0..Cardinality(Events)] /\ \A e \in Events : id[e] \in Nat /\ id[e] <= Cardinality(known)
  BY EventsCounted DEF TypeInv, TypeOK
<1>3. known \subseteq Events /\ new \subseteq Events /\ IsFiniteSet(known) /\ IsFiniteSet(new)
      /\ Cardinality(known) \in Nat /\ Cardinality(new) \in Nat
  BY LogFacts, FS_Subset, FS_CardinalityType DEF Ingested
<1>4. \A e \in new : Cardinality(Upto(e)) \in Nat /\ 0 < Cardinality(Upto(e)) /\ Cardinality(Upto(e)) <= Cardinality(new)
  <2>1. TAKE e \in new
  <2>2. Upto(e) \subseteq new /\ e \in Upto(e)
    <3>1. e.pos <= e.pos
      BY <1>3, LogFacts
    <3> QED BY <3>1
  <2> HIDE DEF new, Upto
  <2>3. IsFiniteSet(Upto(e)) /\ Cardinality(Upto(e)) <= Cardinality(new) /\ Cardinality(Upto(e)) \in Nat
    BY <1>3, <2>2, FS_Subset, FS_CardinalityType
  <2>4. Cardinality(Upto(e)) # 0
    BY <2>2, <2>3, FS_EmptySet
  <2> QED BY <2>3, <2>4
<1>5. /\ \A e \in new : id'[e] = Cardinality(known) + Cardinality(Upto(e))
      /\ \A e \in Events \ new : id'[e] = id[e]
      /\ DOMAIN id' = Events
  BY <1>1, <1>3
<1>6. Cardinality(known \cup new) = Cardinality(known) + Cardinality(new) /\ Cardinality(known \cup new) <= Cardinality(Events)
  <2>1. new \cap known = {} /\ known \cap new = {}
    BY <1>1
  <2>2. known \cup new \in SUBSET Events
    BY <1>3
  <2> HIDE DEF new, known
  <2>3. Cardinality(known \cup new) = Cardinality(known) + Cardinality(new) - Cardinality(known \cap new)
    BY <1>3, FS_Union
  <2>4. Cardinality({}) = 0
    BY FS_EmptySet
  <2>5. Cardinality(known \cup new) <= Cardinality(Events)
    BY <2>2, LogFacts, FS_Subset
  <2>6. Cardinality(known \cup new) = Cardinality(known) + Cardinality(new) - 0
    BY <2>1, <2>3, <2>4
  <2> QED BY <1>3, <2>5, <2>6
<1>7. Ingested' = known \cup new
  <2>1. Ingested' = {e \in Events : id'[e] > 0}
    BY DEF Ingested
  <2>2. known = {e \in Events : id[e] > 0}
    BY DEF Ingested
  <2> HIDE DEF new, known, Upto
  <2>3. \A e \in new : id'[e] > 0
    BY <1>3, <1>4, <1>5
  <2>4. \A e \in Events \ new : id'[e] > 0 <=> id[e] > 0
    BY <1>5
  <2> QED BY <1>3, <2>1, <2>2, <2>3, <2>4
<1>8. new \cap known = {} /\ new # {} /\ (OutOfOrder \/ \A e \in Events : e.block < b => e \in known)
  BY <1>1
<1>9. \A e \in new : Cardinality(known) < id'[e] /\ id'[e] <= Cardinality(known \cup new) /\ id'[e] \in Nat
  <2> HIDE DEF new, known, Upto
  <2> QED BY <1>3, <1>4, <1>5, <1>6
<1>10. \A e \in Events : id'[e] <= Cardinality(known \cup new) /\ id'[e] \in Nat
  <2> HIDE DEF new, known, Upto
  <2> QED BY <1>2, <1>3, <1>5, <1>6, <1>9
<1>11. id' \in [Events -> 0..Cardinality(Events)]
  <2>1. \A e \in Events : id'[e] \in 0..Cardinality(Events)
    <3>1. TAKE e \in Events
    <3>2. id'[e] <= Cardinality(known \cup new) /\ id'[e] \in Nat
      BY <1>10
    <3>3. Cardinality(known \cup new) \in Nat /\ Cardinality(known \cup new) <= Cardinality(Events)
      <4> HIDE DEF new, known, Upto
      <4> QED BY <1>3, <1>6
    <3> HIDE DEF new, known, Upto
    <3> QED BY <3>2, <3>3, EventsCounted
  <2>2. id' = [e \in Events |-> id'[e]]
    BY <1>1
  <2> QED BY <2>1, <2>2
<1>12. Cardinality(known) <= Cardinality(known \cup new)
  <2> HIDE DEF new, known, Upto
  <2> QED BY <1>3, <1>6
<1>13. ASSUME NEW e \in new, NEW f \in new, e.pos < f.pos PROVE id'[e] < id'[f]
  <2>1. Upto(e) \subseteq Upto(f) \ {f} /\ Upto(f) \subseteq new /\ f \in Upto(f)
    <3>1. \A x \in new : x.pos \in Nat
      BY <1>3, LogFacts
    <3> HIDE DEF new
    <3> QED BY <1>13, <3>1
  <2> HIDE DEF new, Upto, known
  <2>2. IsFiniteSet(Upto(f)) /\ Cardinality(Upto(f)) \in Nat /\ Cardinality(Upto(e)) \in Nat
    BY <1>3, <1>4, <2>1, FS_Subset
  <2>3. IsFiniteSet(Upto(f) \ {f}) /\ Cardinality(Upto(f) \ {f}) = Cardinality(Upto(f)) - 1
    BY <2>1, <2>2, FS_RemoveElement
  <2>4. Cardinality(Upto(e)) <= Cardinality(Upto(f) \ {f})
    BY <2>1, <2>3, FS_Subset
  <2> QED BY <1>3, <1>5, <2>2, <2>3, <2>4
<1>14. ASSUME NEW e \in new, NEW f \in new, id'[e] = id'[f] PROVE e = f
  <2>1. e.pos \in Nat /\ f.pos \in Nat /\ e = Log[e.pos] /\ f = Log[f.pos]
    BY <1>3, LogFacts
  <2>2. ~(e.pos < f.pos) /\ ~(f.pos < e.pos)
    <3>1. id'[e] \in Nat /\ id'[f] \in Nat
      BY <1>9
    <3> HIDE DEF new, known, Upto
    <3> QED BY <1>13, <1>14, <3>1
  <2>3. e.pos = f.pos
    BY <2>1, <2>2
  <2> QED BY <2>1, <2>3
<1>15. \A e, f \in known : id[e] = id[f] => e = f
  BY DEF TypeInv
<1>16. \A e, f \in known \cup new : id'[e] = id'[f] => e = f
  <2> HIDE DEF new, known, Upto
  <2>1. \A e \in known : e \in Events \ new /\ id'[e] = id[e] /\ id[e] \in Nat /\ id[e] <= Cardinality(known)
    BY <1>2, <1>3, <1>5, <1>8
  <2>2. ASSUME NEW e \in known, NEW f \in new PROVE id'[e] # id'[f]
    BY <1>3, <1>9, <2>1
  <2> QED BY <1>14, <1>15, <2>1, <2>2
<1> HIDE DEF Upto
<1> QED
  <2> WITNESS b \in Blocks
  <2> QED BY <1>5, <1>7, <1>8, <1>9, <1>10, <1>11, <1>12, <1>16

LEMMA BatchEnds ==
  ASSUME TypeInv, UNCHANGED <<id, final>>, pc' = "idle", heads' = {}, history' = {},
         todo' = {}, cur' = {}, pending' = {}
  PROVE  BatchShape' /\ \A e \in Events : id'[e] <= Cardinality(Ingested')
<1>1. Ingested' = Ingested
  BY DEF Ingested
<1> QED BY <1>1 DEF TypeInv, BatchShape

LEMMA NamesDelegators ==
  \A e \in Events : DelegatorsOf(e) \subseteq Addresses /\ e.from \in DelegatorsOf(e)
                    /\ DelegatorsOf(e) \subseteq {e.from, e.to}
BY LogFacts DEF DelegatorsOf

LEMMA TypeKept == TypeInv /\ [Next]_vars => TypeInv'
<1> SUFFICES ASSUME TypeInv, [Next]_vars PROVE TypeInv'
  OBVIOUS
<1>0. TypeOK /\ BatchShape /\ final \subseteq Events /\ heads \subseteq Events /\ history \subseteq Events
  BY DEF TypeInv, TypeOK
<1>1. CASE Ingest
  <2>1. PICK b \in Blocks :
           LET new == {e \in Events : e.block = b}
           IN  /\ Ingested' = Ingested \cup new
               /\ id' \in [Events -> 0..Cardinality(Events)]
               /\ \A e \in Events : id'[e] <= Cardinality(Ingested')
               /\ \A e, f \in Ingested' : id'[e] = id'[f] => e = f
    BY <1>1, Ingests
  <2>2. UNCHANGED <<final, tableVars, batchVars, faults>>
    BY <1>1 DEF Ingest
  <2>3. TypeOK'
    BY <1>0, <2>1, <2>2 DEF TypeOK, tableVars, batchVars
  <2>4. BatchShape'
    <3>1. Ingested \subseteq Ingested'
      BY <2>1
    <3>2. UNCHANGED <<pc, heads, history, todo, cur, pending, final>>
      BY <2>2 DEF batchVars
    <3> QED BY <1>0, <3>1, <3>2 DEF BatchShape
  <2> QED BY <2>1, <2>3, <2>4 DEF TypeInv
<1>2. CASE Finalize
  <2>1. UNCHANGED <<id, tableVars, batchVars, faults>> /\ Ingested' = Ingested
    BY <1>2 DEF Finalize, Ingested
  <2>2. final \subseteq final' /\ final' \subseteq Ingested
    BY <1>0, <1>2 DEF Finalize, BatchShape
  <2>3. Ingested \subseteq Events
    BY DEF Ingested
  <2>4. TypeOK'
    BY <1>0, <2>1, <2>2, <2>3 DEF TypeOK, tableVars, batchVars
  <2>5. BatchShape'
    <3>1. UNCHANGED <<pc, heads, history, todo, cur, pending>>
      BY <2>1 DEF batchVars
    <3> QED BY <1>0, <2>1, <2>2, <3>1 DEF BatchShape
  <2> QED BY <2>1, <2>4, <2>5 DEF TypeInv
<1>3. CASE StartBatch
  <2>1. UNCHANGED <<feedVars, tableVars, history, todo, cur, pending, faults>> /\ pc' = "history" /\ heads' = NewHeads
    BY <1>3 DEF StartBatch
  <2>2. NewHeads \subseteq Behind /\ Behind \subseteq final /\ Behind # {}
    BY <1>3 DEF NewHeads, Behind, StartBatch
  <2>3. NewHeads # {}
    <3> DEFINE Ids == {id[e] : e \in Behind}
    <3>1. \A f \in Behind : f \in Ingested /\ id[f] \in Nat
      BY <1>0, <2>2, EventsCounted DEF TypeOK, BatchShape, Ingested
    <3>2. PICK k \in Ids : \A l \in Ids : k <= l
      <4>1. Ids \in SUBSET Nat /\ Ids # {}
        BY <2>2, <3>1
      <4> HIDE DEF Ids
      <4> QED BY <4>1, LeastOf
    <3>3. PICK e \in Behind : id[e] = k
      BY <3>2
    <3>4. \A f \in Behind : id[e] <= id[f]
      BY <3>2, <3>3
    <3> DEFINE first == {f \in Behind : id[f] <= id[e]}
    <3>5. first = {e}
      <4>1. \A f \in first : id[f] = id[e]
        BY <3>1, <3>4
      <4>2. \A f \in first : f = e
        BY <3>1, <4>1 DEF TypeInv
      <4> QED BY <3>1, <4>2
    <3>6. Cardinality(first) = 1
      <4> HIDE DEF first
      <4> QED BY <3>5, FS_Singleton
    <3>7. 1 <= BatchSize
      <4>1. BatchSize \in Nat \ {0}
        BY StakeFlowAssumption
      <4> QED BY <4>1
    <3>8. e \in NewHeads
      BY <3>6, <3>7 DEF NewHeads
    <3> QED BY <3>8
  <2>4. TypeOK'
    BY <1>0, <2>1, <2>2 DEF TypeOK, feedVars, tableVars
  <2>5. BatchShape'
    <3>1. Ingested' = Ingested
      BY <2>1 DEF Ingested, feedVars
    <3>2. pc = "idle"
      BY <1>3 DEF StartBatch
    <3> QED BY <1>0, <2>1, <2>2, <2>3, <3>1, <3>2 DEF BatchShape, feedVars
  <2> QED BY <2>1, <2>4, <2>5 DEF TypeInv, feedVars, Ingested
<1>4. CASE FetchHistory
  <2>1. UNCHANGED <<feedVars, tableVars, heads, cur, pending, faults>> /\ pc = "history" /\ pc' = "replay"
    BY <1>4 DEF FetchHistory
  <2>2. history' \subseteq final /\ todo' \subseteq Addresses
    <3>1. history' \subseteq final /\ todo' = UNION {DelegatorsOf(e) : e \in history'}
      BY <1>4 DEF FetchHistory
    <3> QED BY <1>0, <3>1, NamesDelegators
  <2>3. cur = {} /\ pending = {}
    BY <1>0, <2>1 DEF BatchShape
  <2>4. TypeOK'
    BY <1>0, <2>1, <2>2, <2>3 DEF TypeOK, feedVars, tableVars
  <2>5. BatchShape'
    <3>1. Ingested' = Ingested
      BY <2>1 DEF Ingested, feedVars
    <3> QED BY <1>0, <2>1, <2>2, <2>3, <3>1 DEF BatchShape, feedVars
  <2> QED BY <2>1, <2>4, <2>5 DEF TypeInv, feedVars, Ingested
<1>5. CASE ReplayDelegator
  <2>1. UNCHANGED <<feedVars, tableVars, heads, history, todo, faults>> /\ pc = "replay" /\ pc' = "rows"
    BY <1>5 DEF ReplayDelegator
  <2>2. PICK d \in todo :
          /\ cur' = {[who |-> d, rows |-> Replay(d, history).rows, entry |-> EntryOf(Replay(d, history))]}
          /\ pending' \subseteq Blocks
    BY <1>5 DEF ReplayDelegator
  <2>3. TypeOK'
    BY <1>0, <2>1, <2>2 DEF TypeOK, feedVars, tableVars
  <2>4. BatchShape'
    <3>1. Ingested' = Ingested
      BY <2>1 DEF Ingested, feedVars
    <3> QED BY <1>0, <2>1, <2>2, <3>1 DEF BatchShape, feedVars
  <2> QED BY <2>1, <2>3, <2>4 DEF TypeInv, feedVars, Ingested
<1>6. CASE UpsertRow
  <2>1. /\ UNCHANGED <<feedVars, checkpoint, registry, pc, heads, history, todo, cur, faults>>
        /\ pc = "rows" /\ pending # {} /\ pending' = pending \ {Min(pending)}
    BY <1>6 DEF UpsertRow
  <2>2. Min(pending) \in Blocks
    BY <1>0, <2>1, MinOf, BlocksAre DEF TypeOK
  <2>3. PICK o \in cur : stake' = [stake EXCEPT ![o.who][Min(pending)] = o.rows[Min(pending)]]
    BY <1>6 DEF UpsertRow
  <2>4. o.who \in Addresses /\ o.rows \in [Blocks -> Row]
    <3>1. o.who \in todo /\ todo \subseteq Addresses /\ o.rows = Replay(o.who, history).rows
      BY <1>0 DEF TypeOK, BatchShape
    <3> QED BY <1>0, <3>1, OutcomeOf
  <2>5. stake' \in [Addresses -> [Blocks -> Row]]
    <3>1. stake \in [Addresses -> [Blocks -> Row]] /\ o.rows[Min(pending)] \in Row
      BY <1>0, <2>2, <2>4 DEF TypeOK
    <3> QED BY <2>2, <2>3, <2>4, <3>1
  <2>6. TypeOK'
    BY <1>0, <2>1, <2>5 DEF TypeOK, feedVars
  <2>7. BatchShape'
    <3>1. Ingested' = Ingested
      BY <2>1 DEF Ingested, feedVars
    <3> QED BY <1>0, <2>1, <3>1 DEF BatchShape, feedVars
  <2> QED BY <2>1, <2>6, <2>7 DEF TypeInv, feedVars, Ingested
<1>7. CASE UpsertRegistry
  <2>1. /\ UNCHANGED <<feedVars, checkpoint, stake, heads, history, pending, faults>>
        /\ pc = "rows" /\ pending = {} /\ cur' = {} /\ pc' = IF todo' = {} THEN "advance" ELSE "replay"
    BY <1>7 DEF UpsertRegistry
  <2>2. PICK o \in cur : /\ registry' = IF o.entry = NoEntry THEN registry ELSE [registry EXCEPT ![o.who] = o.entry]
                         /\ todo' = todo \ {o.who}
    BY <1>7 DEF UpsertRegistry
  <2>3. o.who \in Addresses /\ o.entry \in Entry
    <3>1. o.who \in todo /\ todo \subseteq Addresses /\ o.entry = EntryOf(Replay(o.who, history))
      BY <1>0 DEF TypeOK, BatchShape
    <3> QED BY <1>0, <3>1, OutcomeOf
  <2>4. registry' \in [Addresses -> Entry]
    <3>1. registry \in [Addresses -> Entry]
      BY <1>0 DEF TypeOK, Entry
    <3> QED BY <2>2, <2>3, <3>1
  <2>5. TypeOK'
    BY <1>0, <2>1, <2>2, <2>4 DEF TypeOK, Entry, feedVars
  <2>6. BatchShape'
    <3>1. Ingested' = Ingested
      BY <2>1 DEF Ingested, feedVars
    <3> QED BY <1>0, <2>1, <2>2, <3>1 DEF BatchShape, feedVars
  <2> QED BY <2>1, <2>5, <2>6 DEF TypeInv, feedVars, Ingested
<1>8. CASE Advance
  <2>1. /\ UNCHANGED <<feedVars, stake, registry, todo, cur, pending, faults>> /\ pc = "advance"
        /\ checkpoint' = Max({checkpoint, LastId}) /\ pc' = "idle" /\ heads' = {} /\ history' = {}
    BY <1>8 DEF Advance
  <2>2. todo = {} /\ cur = {} /\ pending = {} /\ heads # {}
    BY <1>0, <2>1 DEF BatchShape
  <2>3. LastId \in 0..Cardinality(Events) /\ checkpoint \in 0..Cardinality(Events)
    <3> DEFINE Ids == {id[e] : e \in heads}
    <3>1. Ids \in SUBSET (0..Cardinality(Events)) /\ Ids # {}
      BY <1>0, <2>2 DEF TypeOK
    <3>2. Max(Ids) \in Ids
      <4> HIDE DEF Ids
      <4> QED BY <3>1, EventsCounted, MaxOf
    <3> QED BY <1>0, <3>1, <3>2 DEF LastId, TypeOK
  <2>4. checkpoint' \in 0..Cardinality(Events)
    <3>1. {checkpoint, LastId} \in SUBSET (0..Cardinality(Events)) /\ {checkpoint, LastId} # {}
      BY <2>3
    <3>2. Max({checkpoint, LastId}) \in {checkpoint, LastId}
      BY <3>1, EventsCounted, MaxOf
    <3> QED BY <2>1, <2>3, <3>2
  <2>5. TypeOK'
    BY <1>0, <2>1, <2>2, <2>4 DEF TypeOK, feedVars
  <2>6. BatchShape' /\ \A e \in Events : id'[e] <= Cardinality(Ingested')
    BY <2>1, <2>2, BatchEnds DEF feedVars
  <2> QED BY <2>1, <2>5, <2>6 DEF TypeInv, feedVars, Ingested
<1>9. CASE Fail
  <2>1. /\ UNCHANGED <<feedVars, tableVars>> /\ pc' = "idle" /\ heads' = {} /\ history' = {}
        /\ todo' = {} /\ cur' = {} /\ pending' = {} /\ faults' = faults + 1
    BY <1>9 DEF Fail
  <2>2. TypeOK'
    BY <1>0, <2>1 DEF TypeOK, feedVars, tableVars
  <2>3. Ingested' = Ingested
    BY <2>1 DEF Ingested, feedVars
  <2>4. BatchShape'
    BY <1>0, <2>1, <2>3 DEF BatchShape, feedVars
  <2> QED BY <2>1, <2>2, <2>3, <2>4 DEF TypeInv, feedVars
<1>10. CASE UNCHANGED vars
  BY <1>10 DEF TypeInv, TypeOK, BatchShape, Ingested, vars, feedVars, tableVars, batchVars
<1> QED BY <1>1, <1>2, <1>3, <1>4, <1>5, <1>6, <1>7, <1>8, <1>9, <1>10 DEF Next, Worker

(* The tables, the batch and the registry of the stake flow stay well-typed: flow.rs
   never writes a row or an entry that is not the outcome of a replay, and its
   checkpoint is an id, for any log, batch size, faults and order of ingestion. *)
THEOREM FlowTyped == Spec => []TypeOK
<1>1. TypeInv => TypeOK
  BY DEF TypeInv
<1> QED BY <1>1, TypeStarts, TypeKept, PTL DEF Spec

-----------------------------------------------------------------------------
(* Blocks that are ingested in order.                                       *)

InOrder == ~OutOfOrder

Affected == UNION {DelegatorsOf(e) : e \in heads}
Touches(e) == e.from \in Affected \/ e.to \in Affected

\* Ids, blocks and finality agree.
FeedInv ==
  /\ \A e \in Ingested, f \in Events : f.block <= e.block => f \in Ingested
  /\ \A e, f \in Ingested : e.block < f.block => id[e] < id[f]
  /\ \A e \in final, f \in Events : f.block <= e.block => f \in final

\* The heads of a batch are what comes after the checkpoint; the history has whatever
\* touches a delegator of theirs, and what was finalized since is later than all of it.
BatchInv ==
  /\ checkpoint = 0 \/ \E e \in final : checkpoint <= id[e]
  /\ \A f \in final, e \in heads : checkpoint < id[f] /\ id[f] <= id[e] => f \in heads
  /\ pc \in {"replay", "rows", "advance"} =>
       /\ heads \subseteq history
       /\ \A e \in history : Touches(e)
       /\ \A e \in final \ history :
            Touches(e) => checkpoint < id[e] /\ \A f \in history : f.block < e.block

OrderInv == TypeInv /\ FeedInv /\ BatchInv

LEMMA IdsAre ==
  ASSUME TypeInv
  PROVE  /\ checkpoint \in Nat /\ id \in [Events -> Nat] /\ \A e \in Events : id[e] \in Nat
         /\ final \subseteq Ingested /\ Ingested \subseteq Events /\ heads \subseteq final /\ history \subseteq final
         /\ \A e \in Events : e.block \in Nat
BY EventsCounted, LogFacts DEF TypeInv, TypeOK, BatchShape, Ingested

\* What is not final yet comes after all that is.
LEMMA Later ==
  ASSUME OrderInv, NEW e \in Ingested, e \notin final
  PROVE  checkpoint < id[e] /\ \A f \in final : f.block < e.block /\ id[f] < id[e]
<1>1. ASSUME NEW f \in final PROVE f.block < e.block /\ id[f] < id[e]
  <2>1. ~(e.block <= f.block) /\ e.block \in Nat /\ f.block \in Nat
    BY IdsAre DEF OrderInv, FeedInv
  <2> QED BY <2>1, IdsAre DEF OrderInv, FeedInv
<1>2. id[e] > 0
  BY DEF Ingested
<1> QED BY <1>1, <1>2, IdsAre DEF OrderInv, BatchInv

LEMMA OrderStarts == Init => OrderInv
BY TypeStarts DEF Init, OrderInv, FeedInv, BatchInv, Ingested

LEMMA IngestKeepsOrder == ASSUME InOrder, OrderInv, Ingest PROVE FeedInv' /\ BatchInv'
<1>1. PICK b \in Blocks :
         LET new == {e \in Events : e.block = b}
         IN  /\ new \cap Ingested = {} /\ Ingested' = Ingested \cup new
             /\ OutOfOrder \/ \A e \in Events : e.block < b => e \in Ingested
             /\ \A e \in new : Cardinality(Ingested) < id'[e]
             /\ \A e \in Events \ new : id'[e] = id[e]
  BY Ingests DEF OrderInv
<1> DEFINE new == {e \in Events : e.block = b}
<1>2. /\ new \cap Ingested = {} /\ Ingested' = Ingested \cup new /\ new \subseteq Events
      /\ \A e \in Events : e.block < b => e \in Ingested
      /\ \A e \in new : Cardinality(Ingested) < id'[e]
      /\ \A e \in Events \ new : id'[e] = id[e]
  BY <1>1 DEF InOrder
<1>3. UNCHANGED <<final, checkpoint, pc, heads, history>>
  BY DEF Ingest, tableVars, batchVars
<1>4. TypeInv' /\ TypeInv
  BY TypeKept DEF Next, OrderInv
<1>5. b \in Nat /\ \A e \in Events : e.block \in Nat /\ id[e] \in Nat /\ id'[e] \in Nat
  BY <1>4, BlocksAre, IdsAre DEF TypeInv, TypeOK
<1>6. \A e \in Ingested : e \in Events \ new /\ id'[e] = id[e] /\ id[e] <= Cardinality(Ingested)
  BY <1>2, <1>4 DEF TypeInv, Ingested
<1>7. \A e \in new : e.block = b
  OBVIOUS
<1> HIDE DEF new
<1>8. Cardinality(Ingested) \in Nat
  BY LogFacts, FS_Subset, FS_CardinalityType DEF Ingested
<1>9. ASSUME NEW e \in Ingested', NEW f \in Events, f.block <= e.block PROVE f \in Ingested'
  <2>1. CASE e \in Ingested
    BY <1>2, <1>9, <2>1 DEF OrderInv, FeedInv
  <2>2. CASE e \in new
    <3>1. CASE f.block < b
      BY <1>2, <3>1
    <3>2. CASE f.block = b
      BY <1>2, <3>2 DEF new
    <3> QED BY <1>5, <1>7, <1>9, <2>2, <3>1, <3>2
  <2> QED BY <1>2, <2>1, <2>2
<1>10. ASSUME NEW e \in Ingested', NEW f \in Ingested', e.block < f.block PROVE id'[e] < id'[f]
  <2>1. CASE e \in Ingested /\ f \in Ingested
    BY <1>6, <1>10, <2>1 DEF OrderInv, FeedInv
  <2>2. CASE e \in Ingested /\ f \in new
    BY <1>2, <1>5, <1>6, <1>8, <2>2
  <2>3. CASE e \in new /\ f \in Ingested
    <3>1. e \in Ingested
      BY <1>2, <1>5, <1>6, <1>10, <2>3 DEF OrderInv, FeedInv
    <3> QED BY <1>2, <2>3, <3>1
  <2>4. CASE e \in new /\ f \in new
    BY <1>5, <1>7, <1>10, <2>4
  <2> QED BY <1>2, <2>1, <2>2, <2>3, <2>4
<1>11. FeedInv'
  BY <1>3, <1>9, <1>10 DEF FeedInv, OrderInv
<1>12. \A e \in final : id'[e] = id[e]
  BY <1>4, <1>6 DEF TypeInv, BatchShape
<1>13. heads \subseteq final
  BY IdsAre DEF OrderInv
<1>14. BatchInv'
  BY <1>3, <1>12, <1>13 DEF BatchInv, OrderInv, Touches, Affected
<1> QED BY <1>11, <1>14

LEMMA FinalizeKeepsOrder == ASSUME OrderInv, Finalize PROVE FeedInv' /\ BatchInv'
<1>1. UNCHANGED <<id, checkpoint, pc, heads, history>> /\ Ingested' = Ingested
  BY DEF Finalize, tableVars, batchVars, Ingested
<1>2. PICK cutoff \in Blocks : final' = final \cup {e \in Ingested : e.block <= cutoff}
  BY DEF Finalize
<1>3. cutoff \in Nat /\ heads \subseteq final /\ history \subseteq final /\ final \subseteq Ingested
      /\ Ingested \subseteq Events /\ \A e \in Events : e.block \in Nat /\ id[e] \in Nat
  BY BlocksAre, IdsAre DEF OrderInv
<1>4. ASSUME NEW e \in final', NEW f \in Events, f.block <= e.block PROVE f \in final'
  <2>1. CASE e \in final
    BY <1>2, <1>4, <2>1 DEF OrderInv, FeedInv
  <2>2. CASE e \in Ingested /\ e.block <= cutoff
    <3>1. f \in Ingested /\ f.block <= cutoff
      BY <1>3, <1>4, <2>2 DEF OrderInv, FeedInv
    <3> QED BY <1>2, <3>1
  <2> QED BY <1>2, <2>1, <2>2
<1>5. FeedInv'
  BY <1>1, <1>4 DEF FeedInv, OrderInv
<1>6. \A e \in final' \ final : checkpoint < id[e] /\ \A f \in final : f.block < e.block /\ id[f] < id[e]
  BY <1>2, Later
<1>7. ASSUME NEW f \in final', NEW e \in heads, checkpoint < id[f], id[f] <= id[e] PROVE f \in heads
  <2>1. CASE f \in final
    BY <1>7, <2>1 DEF OrderInv, BatchInv
  <2>2. CASE f \notin final
    <3>1. id[e] < id[f] /\ id[e] \in Nat /\ id[f] \in Nat
      BY <1>2, <1>3, <1>6, <2>2
    <3> QED BY <1>7, <3>1
  <2> QED BY <2>1, <2>2
<1>8. \A e \in final' \ history : e \in final \ history \/ (checkpoint < id[e] /\ \A f \in history : f.block < e.block)
  BY <1>3, <1>6
<1>9. final \subseteq final'
  BY <1>2
<1>10. BatchInv'
  BY <1>1, <1>7, <1>8, <1>9 DEF BatchInv, OrderInv, Touches, Affected
<1> QED BY <1>5, <1>10

\* The checkpoint moves to the last id of the batch, or stays.
LEMMA NextCheckpoint ==
  ASSUME TypeInv, pc = "advance", NEW n, n = Max({checkpoint, LastId})
  PROVE  /\ n \in Nat /\ checkpoint <= n
         /\ n = checkpoint \/ \E e \in heads : n = id[e]
         /\ \A e \in heads : id[e] <= n
<1>1. heads # {} /\ heads \subseteq Events /\ id \in [Events -> 0..Cardinality(Events)]
      /\ checkpoint \in 0..Cardinality(Events)
  BY DEF TypeInv, TypeOK, BatchShape
<1> DEFINE Ids == {id[e] : e \in heads}
<1>2. Ids \in SUBSET (0..Cardinality(Events)) /\ Ids # {}
  BY <1>1
<1>3. LastId \in Ids /\ \A k \in Ids : k <= LastId
  <2>1. LastId = Max(Ids)
    BY DEF LastId
  <2> HIDE DEF Ids
  <2> QED BY <1>2, <2>1, EventsCounted, MaxOf
<1>4. n \in {checkpoint, LastId} /\ checkpoint <= n /\ LastId <= n
  <2> DEFINE Two == {checkpoint, LastId}
  <2>1. Two \in SUBSET (0..Cardinality(Events)) /\ Two # {}
    BY <1>1, <1>2, <1>3
  <2>2. Max(Two) \in Two /\ \A k \in Two : k <= Max(Two)
    <3> HIDE DEF Two
    <3> QED BY <2>1, EventsCounted, MaxOf
  <2> QED BY <2>2
<1>5. n \in Nat /\ LastId \in Nat /\ \A e \in heads : id[e] \in Nat /\ id[e] <= LastId
  BY <1>1, <1>2, <1>3, <1>4, EventsCounted
<1>6. \A e \in heads : id[e] <= n
  BY <1>4, <1>5
<1> QED BY <1>3, <1>4, <1>5, <1>6

LEMMA OrderKept == InOrder /\ OrderInv /\ [Next]_vars => OrderInv'
<1> SUFFICES ASSUME InOrder, OrderInv, [Next]_vars PROVE OrderInv'
  OBVIOUS
<1>0. TypeInv /\ TypeInv' /\ BatchShape
  BY TypeKept DEF OrderInv, TypeInv
<1>1. CASE Ingest
  BY <1>0, <1>1, IngestKeepsOrder DEF OrderInv
<1>2. CASE Finalize
  BY <1>0, <1>2, FinalizeKeepsOrder DEF OrderInv
<1>3. ASSUME UNCHANGED feedVars PROVE Ingested' = Ingested /\ FeedInv'
  BY <1>3 DEF feedVars, Ingested, FeedInv, OrderInv
<1>4. CASE StartBatch
  <2>1. UNCHANGED feedVars /\ checkpoint' = checkpoint /\ heads' = NewHeads /\ pc' = "history"
    BY <1>4 DEF StartBatch, tableVars
  <2>2. ASSUME NEW f \in final, NEW e \in NewHeads, checkpoint < id[f], id[f] <= id[e] PROVE f \in NewHeads
    <3> DEFINE Upto(x) == {g \in Behind : id[g] <= id[x]}
    <3>1. f \in Behind /\ e \in Behind /\ Cardinality(Upto(e)) <= BatchSize
      BY <2>2 DEF Behind, NewHeads
    <3>2. Upto(f) \subseteq Upto(e) /\ Upto(e) \subseteq Events
      <4>1. \A g \in Behind : g \in Events /\ id[g] \in Nat
        BY IdsAre DEF OrderInv, Behind
      <4> QED BY <2>2, <3>1, <4>1
    <3> HIDE DEF Upto
    <3>3. IsFiniteSet(Upto(e)) /\ Cardinality(Upto(f)) <= Cardinality(Upto(e)) /\ Cardinality(Upto(e)) \in Nat
          /\ Cardinality(Upto(f)) \in Nat
      <4>1. IsFiniteSet(Upto(e))
        BY <3>2, LogFacts, FS_Subset
      <4> QED BY <3>2, <4>1, FS_Subset, FS_CardinalityType
    <3>4. BatchSize \in Nat
      <4>1. BatchSize \in Nat \ {0}
        BY StakeFlowAssumption
      <4> QED BY <4>1
    <3>5. Cardinality(Upto(f)) <= BatchSize
      BY <3>1, <3>3, <3>4
    <3> QED BY <3>1, <3>5 DEF NewHeads, Upto
  <2>3. BatchInv'
    BY <2>1, <2>2 DEF BatchInv, OrderInv, feedVars
  <2> QED BY <1>0, <1>3, <2>1, <2>3 DEF OrderInv
<1>5. CASE FetchHistory
  <2>1. UNCHANGED <<feedVars, tableVars, heads>> /\ pc' = "replay" /\ history' = {e \in final : Touches(e)}
    BY <1>5 DEF FetchHistory, Touches, Affected
  <2>2. UNCHANGED <<id, final, checkpoint>> /\ Affected' = Affected
    BY <2>1 DEF feedVars, tableVars, Affected
  <2>3. \A e \in heads : e \in final /\ Touches(e)
    BY IdsAre, NamesDelegators DEF Touches, Affected, OrderInv
  <2>4. BatchInv'
    BY <2>1, <2>2, <2>3 DEF BatchInv, OrderInv, Touches
  <2> QED BY <1>0, <1>3, <2>1, <2>4 DEF OrderInv
<1>6. CASE ReplayDelegator \/ UpsertRow \/ UpsertRegistry
  <2>1. UNCHANGED <<feedVars, checkpoint, heads, history>> /\ pc \in {"replay", "rows", "advance"}
    BY <1>6 DEF ReplayDelegator, UpsertRow, UpsertRegistry, tableVars
  <2>2. UNCHANGED <<id, final>> /\ Affected' = Affected
    BY <2>1 DEF feedVars, Affected
  <2>3. BatchInv'
    BY <2>1, <2>2 DEF BatchInv, OrderInv, Touches
  <2> QED BY <1>0, <1>3, <2>1, <2>3 DEF OrderInv
<1>7. CASE Advance
  <2>1. UNCHANGED feedVars /\ checkpoint' = Max({checkpoint, LastId}) /\ pc' = "idle" /\ heads' = {} /\ pc = "advance"
    BY <1>7 DEF Advance
  <2>2. checkpoint' = checkpoint \/ \E e \in final : checkpoint' = id[e]
    BY <1>0, <2>1, NextCheckpoint, IdsAre
  <2>3. BatchInv'
    <3>1. \A e \in final : id[e] <= id[e]
      BY IdsAre DEF OrderInv
    <3> QED BY <2>1, <2>2, <3>1 DEF BatchInv, OrderInv, feedVars
  <2> QED BY <1>0, <1>3, <2>1, <2>3 DEF OrderInv
<1>8. CASE Fail
  <2>1. UNCHANGED <<feedVars, checkpoint>> /\ pc' = "idle" /\ heads' = {}
    BY <1>8 DEF Fail, tableVars
  <2>2. BatchInv'
    BY <2>1 DEF BatchInv, OrderInv, feedVars
  <2> QED BY <1>0, <1>3, <2>1, <2>2 DEF OrderInv
<1>9. CASE UNCHANGED vars
  BY <1>0, <1>9 DEF OrderInv, FeedInv, BatchInv, Touches, Affected, Ingested, vars, feedVars, tableVars, batchVars
<1> QED BY <1>1, <1>2, <1>4, <1>5, <1>6, <1>7, <1>8, <1>9 DEF Next, Worker

-----------------------------------------------------------------------------
(* Nothing behind the checkpoint is without its row.                        *)

InReplay == pc \in {"replay", "rows", "advance"}

\* The rows of an outcome are pending or written, and the heads of a delegator that is
\* done have theirs.
RowsInv ==
  /\ \A o \in cur : \A b \in Blocks : o.rows[b] # NoRow => b \in pending \/ stake[o.who][b] # NoRow
  /\ \A o \in cur : \A b \in pending : o.rows[b] # NoRow
  /\ InReplay => \A e \in heads : \A d \in DelegatorsOf(e) :
                   d \in todo \/ (e \in Counted(d, final) => stake[d][e.block] # NoRow)

CompleteInv == OrderInv /\ RowsInv /\ CheckpointComplete

LEMMA CompleteStarts == Init => CompleteInv
BY OrderStarts DEF Init, CompleteInv, RowsInv, InReplay, CheckpointComplete

\* What is finalized later changes nothing about what was counted.
LEMMA CountedStays ==
  ASSUME OrderInv, Finalize, NEW d, NEW e \in final
  PROVE  e \in Counted(d, final') <=> e \in Counted(d, final)
<1>1. PICK cutoff \in Blocks : final' = final \cup {f \in Ingested : f.block <= cutoff}
  BY DEF Finalize
<1>2. final \subseteq Events /\ final' \subseteq Events /\ e.block \in Nat /\ \A f \in Events : f.block \in Nat
  BY <1>1, IdsAre DEF OrderInv
<1>3. \A f \in final' \ final : e.block < f.block
  BY <1>1, Later
<1>4. \A f \in Events : f.block <= e.block => (f \in final' <=> f \in final)
  BY <1>1, <1>2, <1>3
<1>5. {f \in Counted(d, final') : f.block <= e.block} = {f \in Counted(d, final) : f.block <= e.block}
  <2> DEFINE S == final'
             b == e.block
  <2>1. S \in SUBSET Events /\ final \in SUBSET Events /\ b \in Nat
        /\ \A f \in Events : d \in DelegatorsOf(f) /\ f.block <= b => (f \in S <=> f \in final)
    BY <1>2, <1>4
  <2> HIDE DEF S, b
  <2>2. {f \in Counted(d, S) : f.block <= b} = {f \in Counted(d, final) : f.block <= b}
    BY <2>1, CountedSame
  <2> QED BY <2>2 DEF S, b
<1>6. e.block <= e.block
  BY <1>2
<1> QED BY <1>5, <1>6

\* The history of a delegator that the batch affects is complete up to its last block.
LEMMA HistoryCounts ==
  ASSUME OrderInv, InReplay, NEW d \in Affected, NEW e \in history
  PROVE  /\ \A f \in Events : d \in DelegatorsOf(f) /\ f.block <= e.block => (f \in history <=> f \in final)
         /\ e \in Counted(d, history) <=> e \in Counted(d, final)
<1>1. history \subseteq final /\ final \subseteq Events /\ \A f \in Events : f.block \in Nat
  BY IdsAre DEF OrderInv
<1>2. ASSUME NEW f \in final \ history, d \in DelegatorsOf(f) PROVE e.block < f.block
  <2>1. Touches(f)
    BY <1>1, <1>2, NamesDelegators DEF Touches
  <2> QED BY <2>1 DEF OrderInv, BatchInv, InReplay
<1>3. \A f \in Events : d \in DelegatorsOf(f) /\ f.block <= e.block => (f \in history <=> f \in final)
  BY <1>1, <1>2
<1>4. {f \in Counted(d, history) : f.block <= e.block} = {f \in Counted(d, final) : f.block <= e.block}
  BY <1>1, <1>3, CountedSame
<1>5. e.block <= e.block
  BY <1>1
<1> QED BY <1>3, <1>4, <1>5

\* Rows are overwritten, never removed.
LEMMA RowsStay ==
  ASSUME TypeInv, UpsertRow, NEW o \in cur
  PROVE  /\ Min(pending) \in pending /\ pending \subseteq Blocks
         /\ o.who \in Addresses /\ o.rows \in [Blocks -> Row]
         /\ stake' = [stake EXCEPT ![o.who][Min(pending)] = o.rows[Min(pending)]]
         /\ stake'[o.who][Min(pending)] = o.rows[Min(pending)]
         /\ \A d \in Addresses, b \in Blocks : d # o.who \/ b # Min(pending) => stake'[d][b] = stake[d][b]
<1>1. TypeOK /\ BatchShape /\ pending # {} /\ pc = "rows"
  BY DEF TypeInv, UpsertRow
<1>2. Min(pending) \in pending /\ pending \subseteq Blocks
  BY <1>1, MinOf, BlocksAre DEF TypeOK
<1>3. o.who \in Addresses /\ o.rows \in [Blocks -> Row]
  <2>1. o.who \in todo /\ todo \subseteq Addresses /\ o.rows = Replay(o.who, history).rows /\ history \subseteq Events
    BY <1>1 DEF TypeOK, BatchShape
  <2> QED BY <2>1, OutcomeOf
<1>4. cur = {o}
  BY <1>1 DEF BatchShape
<1>5. stake' = [stake EXCEPT ![o.who][Min(pending)] = o.rows[Min(pending)]]
  BY <1>4 DEF UpsertRow
<1>6. stake \in [Addresses -> [Blocks -> Row]]
  BY <1>1 DEF TypeOK
<1> DEFINE m == Min(pending)
<1> HIDE DEF m
<1>7. m \in Blocks /\ stake' = [stake EXCEPT ![o.who][m] = o.rows[m]]
  BY <1>2, <1>5 DEF m
<1>8. /\ stake'[o.who][m] = o.rows[m]
      /\ \A d \in Addresses, b \in Blocks : d # o.who \/ b # m => stake'[d][b] = stake[d][b]
  BY <1>3, <1>6, <1>7
<1> QED BY <1>2, <1>3, <1>5, <1>8 DEF m

LEMMA CompleteKept == InOrder /\ CompleteInv /\ [Next]_vars => CompleteInv'
<1> SUFFICES ASSUME InOrder, CompleteInv, [Next]_vars PROVE CompleteInv'
  OBVIOUS
<1>0. OrderInv /\ OrderInv' /\ TypeInv /\ BatchShape /\ RowsInv /\ CheckpointComplete
  BY OrderKept DEF CompleteInv, OrderInv, TypeInv
<1>a. heads \subseteq final /\ final \subseteq Events /\ history \subseteq final /\ checkpoint \in Nat
      /\ \A e \in Events : id[e] \in Nat /\ e.block \in Blocks /\ DelegatorsOf(e) \subseteq Addresses
  BY <1>0, IdsAre, LogFacts, NamesDelegators DEF OrderInv
<1>1. CASE Ingest
  <2>1. UNCHANGED <<final, checkpoint, stake, pc, heads, history, todo, cur, pending>>
    BY <1>1 DEF Ingest, tableVars, batchVars
  <2>2. \A e \in final : id'[e] = id[e]
    <3>1. PICK b \in Blocks :
            LET new == {e \in Events : e.block = b}
            IN  new \cap Ingested = {} /\ \A e \in Events \ new : id'[e] = id[e]
      BY <1>0, <1>1, Ingests
    <3> QED BY <1>0, <1>a, <3>1, IdsAre
  <2>3. CheckpointComplete'
    BY <1>0, <2>1, <2>2 DEF CheckpointComplete
  <2>4. RowsInv'
    BY <1>0, <2>1 DEF RowsInv, InReplay
  <2> QED BY <1>0, <2>3, <2>4 DEF CompleteInv
<1>2. CASE Finalize
  <2>1. UNCHANGED <<id, checkpoint, stake, pc, heads, history, todo, cur, pending>>
    BY <1>2 DEF Finalize, tableVars, batchVars
  <2>2. final \subseteq final' /\ \A e \in final' \ final : checkpoint < id[e]
    <3>1. \E cutoff \in Blocks : final' = final \cup {f \in Ingested : f.block <= cutoff}
      BY <1>2 DEF Finalize
    <3> QED BY <1>0, <3>1, Later
  <2>3. \A e \in final : \A d \in DelegatorsOf(e) : e \in Counted(d, final') <=> e \in Counted(d, final)
    BY <1>0, <1>2, CountedStays
  <2>4. CheckpointComplete'
    <3> SUFFICES ASSUME NEW e \in final', NEW d \in DelegatorsOf(e), id[e] <= checkpoint, e \in Counted(d, final')
                 PROVE  stake[d][e.block] # NoRow
      BY <2>1 DEF CheckpointComplete
    <3>1. e \in final
      <4>1. e \in Events
        <5>1. final' \subseteq Events
          BY <1>0 DEF OrderInv, TypeInv, TypeOK
        <5> QED BY <5>1
      <4> QED BY <1>a, <2>2, <4>1
    <3> QED BY <1>0, <2>3, <3>1 DEF CheckpointComplete
  <2>5. RowsInv'
    BY <1>0, <1>a, <2>1, <2>3 DEF RowsInv, InReplay
  <2> QED BY <1>0, <2>4, <2>5 DEF CompleteInv
<1>3. CASE StartBatch
  <2>1. UNCHANGED <<id, final, checkpoint, stake, cur, pending>> /\ pc' = "history"
    BY <1>3 DEF StartBatch, feedVars, tableVars
  <2> QED BY <1>0, <2>1 DEF CompleteInv, RowsInv, InReplay, CheckpointComplete
<1>4. CASE FetchHistory
  <2>1. UNCHANGED <<id, final, checkpoint, stake, heads, cur, pending>> /\ pc' = "replay"
        /\ history' = {e \in final : Touches(e)} /\ todo' = UNION {DelegatorsOf(e) : e \in history'}
    BY <1>4 DEF FetchHistory, feedVars, tableVars, Touches, Affected
  <2>2. \A e \in heads : \A d \in DelegatorsOf(e) : d \in todo'
    <3>1. \A e \in heads : e \in final /\ Touches(e)
      BY <1>a, NamesDelegators DEF Touches, Affected
    <3> QED BY <2>1, <3>1
  <2> QED BY <1>0, <2>1, <2>2 DEF CompleteInv, RowsInv, CheckpointComplete
<1>5. CASE ReplayDelegator
  <2>1. UNCHANGED <<id, final, checkpoint, stake, heads, history, todo>> /\ pc = "replay"
    BY <1>5 DEF ReplayDelegator, feedVars, tableVars
  <2>2. PICK d \in todo :
          /\ cur' = {[who |-> d, rows |-> Replay(d, history).rows, entry |-> EntryOf(Replay(d, history))]}
          /\ pending' = {b \in Blocks : Replay(d, history).rows[b] # NoRow}
    BY <1>5 DEF ReplayDelegator
  <2>3. \A o \in cur' : o.rows = Replay(d, history).rows
    BY <2>2
  <2>4. RowsInv'
    BY <1>0, <2>1, <2>2, <2>3 DEF RowsInv, InReplay
  <2> QED BY <1>0, <2>1, <2>4 DEF CompleteInv, CheckpointComplete
<1>6. CASE UpsertRow
  <2>1. UNCHANGED <<id, final, checkpoint, pc, heads, history, todo, cur>> /\ pc = "rows" /\ pending' = pending \ {Min(pending)}
    BY <1>6 DEF UpsertRow, feedVars
  <2>2. PICK o \in cur : cur = {o}
    BY <1>0, <2>1 DEF BatchShape
  <2>3. /\ Min(pending) \in pending /\ pending \subseteq Blocks
        /\ stake'[o.who][Min(pending)] = o.rows[Min(pending)]
        /\ \A d \in Addresses, b \in Blocks : d # o.who \/ b # Min(pending) => stake'[d][b] = stake[d][b]
    BY <1>0, <1>6, RowsStay
  <2>4. o.rows[Min(pending)] # NoRow
    BY <1>0, <2>3 DEF RowsInv
  <2>5. \A d \in Addresses, b \in Blocks : stake[d][b] # NoRow => stake'[d][b] # NoRow
    BY <2>3, <2>4
  <2>6. o.who \in Addresses
    BY <1>0, <1>6, RowsStay
  <2>7. CheckpointComplete'
    BY <1>0, <1>a, <2>1, <2>5 DEF CheckpointComplete
  <2>8. ASSUME NEW b \in Blocks, o.rows[b] # NoRow PROVE b \in pending' \/ stake'[o.who][b] # NoRow
    BY <1>0, <2>1, <2>3, <2>4, <2>5, <2>6, <2>8 DEF RowsInv
  <2>9. \A b \in pending' : o.rows[b] # NoRow
    BY <1>0, <2>1 DEF RowsInv
  <2>10. InReplay => \A e \in heads : \A d \in DelegatorsOf(e) :
                   d \in todo \/ (e \in Counted(d, final) => stake'[d][e.block] # NoRow)
    BY <1>0, <1>a, <2>5 DEF RowsInv
  <2>11. RowsInv'
    BY <2>1, <2>2, <2>8, <2>9, <2>10 DEF RowsInv, InReplay
  <2> QED BY <1>0, <2>7, <2>11 DEF CompleteInv
<1>7. CASE UpsertRegistry
  <2>1. UNCHANGED <<id, final, checkpoint, stake, heads, history, pending>> /\ pc = "rows" /\ pending = {} /\ cur' = {}
    BY <1>7 DEF UpsertRegistry, feedVars
  <2>2. PICK o \in cur : todo' = todo \ {o.who}
    BY <1>7 DEF UpsertRegistry
  <2>3. o.who \in Addresses /\ o.rows = Replay(o.who, history).rows
    BY <1>0 DEF TypeInv, TypeOK, BatchShape
  <2>4. InReplay
    BY <2>1 DEF InReplay
  <2>5. ASSUME NEW e \in heads, o.who \in DelegatorsOf(e), e \in Counted(o.who, final)
        PROVE  stake[o.who][e.block] # NoRow
    <3>1. e \in history /\ o.who \in Affected
      BY <1>0, <2>4, <2>5 DEF OrderInv, BatchInv, InReplay, Affected
    <3>2. e \in Counted(o.who, history)
      BY <1>0, <2>4, <2>5, <3>1, HistoryCounts
    <3>3. history \in SUBSET Events /\ e.block \in Blocks
      BY <1>a
    <3>4. o.rows[e.block] # NoRow
      BY <2>3, <3>2, <3>3, OutcomeOf
    <3> QED BY <1>0, <2>1, <3>3, <3>4 DEF RowsInv
  <2>6. RowsInv'
    BY <1>0, <2>1, <2>2, <2>4, <2>5 DEF RowsInv, InReplay
  <2> QED BY <1>0, <2>1, <2>6 DEF CompleteInv, CheckpointComplete
<1>8. CASE Advance
  <2>1. UNCHANGED <<id, final, stake, todo, cur, pending>> /\ pc = "advance" /\ pc' = "idle"
        /\ checkpoint' = Max({checkpoint, LastId})
    BY <1>8 DEF Advance, feedVars
  <2>2. checkpoint' \in Nat /\ (checkpoint' = checkpoint \/ \E h \in heads : checkpoint' = id[h])
    BY <1>0, <2>1, NextCheckpoint
  <2>3. ASSUME NEW e \in final, NEW d \in DelegatorsOf(e), id[e] <= checkpoint', e \in Counted(d, final)
        PROVE  stake[d][e.block] # NoRow
    <3>1. CASE id[e] <= checkpoint
      BY <1>0, <2>3, <3>1 DEF CheckpointComplete
    <3>2. CASE ~(id[e] <= checkpoint)
      <4>1. PICK h \in heads : id[e] <= id[h] /\ checkpoint < id[e]
        BY <1>a, <2>2, <2>3, <3>2
      <4>2. e \in heads
        BY <1>0, <4>1 DEF OrderInv, BatchInv
      <4>3. todo = {} /\ InReplay
        BY <1>0, <2>1 DEF BatchShape, InReplay
      <4> QED BY <1>0, <2>3, <4>2, <4>3 DEF RowsInv
    <3> QED BY <3>1, <3>2
  <2>4. RowsInv'
    BY <1>0, <2>1 DEF RowsInv, InReplay
  <2> QED BY <1>0, <2>1, <2>3, <2>4 DEF CompleteInv, CheckpointComplete
<1>9. CASE Fail
  <2>1. UNCHANGED <<id, final, checkpoint, stake>> /\ pc' = "idle" /\ cur' = {}
    BY <1>9 DEF Fail, feedVars, tableVars
  <2> QED BY <1>0, <2>1 DEF CompleteInv, RowsInv, InReplay, CheckpointComplete
<1>10. CASE UNCHANGED vars
  <2>1. UNCHANGED <<id, final, checkpoint, stake, pc, heads, history, todo, cur, pending>>
    BY <1>10 DEF vars, feedVars, tableVars, batchVars
  <2> QED BY <1>0, <2>1 DEF CompleteInv, RowsInv, InReplay, CheckpointComplete
<1> QED BY <1>1, <1>2, <1>3, <1>4, <1>5, <1>6, <1>7, <1>8, <1>9, <1>10 DEF Next, Worker

(* Every event of a delegator that is behind the checkpoint, and that its replay acts
   on, has a stake row: while blocks are ingested in order, the batch of run_flow_backfill
   never moves the checkpoint past an event it did not replay, whatever is finalized,
   fails or is restarted in between. *)
THEOREM FlowComplete == InOrder => (Spec => []CheckpointComplete)
<1> SUFFICES ASSUME InOrder PROVE Spec => []CheckpointComplete
  OBVIOUS
<1>1. CompleteInv => CheckpointComplete
  BY DEF CompleteInv
<1>2. CompleteInv /\ [Next]_vars => CompleteInv'
  BY CompleteKept
<1> QED BY <1>1, <1>2, CompleteStarts, PTL DEF Spec

-----------------------------------------------------------------------------
(* The rows and the entry of a delegator that is kept apart.                *)

LEMMA MovesIs ==
  \A d : \A e \in Events : /\ Moves(d, e) => d \in DelegatorsOf(e) /\ d \in {e.from, e.to}
                           /\ Starts(d, e) => d \in DelegatorsOf(e) /\ e.from \in DelegatorsOf(e)
                           /\ Registers(d, e) => Moves(d, e) /\ Starts(d, e)
BY DEF Moves, Starts, Registers, DelegatorsOf

\* A balance depends on the events that move it only, and so does an entry.
LEMMA MovesSame ==
  ASSUME NEW d, NEW b \in Nat, NEW S \in SUBSET Events, NEW T \in SUBSET Events,
         \A e \in Events : Moves(d, e) /\ e.block <= b => (e \in S <=> e \in T)
  PROVE  Balance(d, S, b) = Balance(d, T, b)
<1> DEFINE Named(U, N) == {e \in {x \in Counted(d, U) : x.block <= b} : e.name \in N}
<1>1. ASSUME NEW e \in Events, e.block <= b
      PROVE  Before(d, S, e) <=> Before(d, T, e)
  <2>1. ASSUME NEW r \in Events, Registers(d, r), r.pos < e.pos
        PROVE  r \in S <=> r \in T
    <3>1. r.block <= e.block /\ r.block \in Nat /\ e.block \in Nat
      BY <2>1, LogFacts
    <3>2. r.block <= b /\ Moves(d, r)
      BY <1>1, <2>1, <3>1, MovesIs
    <3> QED BY <3>2
  <2> QED BY <2>1 DEF Before
<1>2. ASSUME NEW e \in Events, e.block <= b, e.name \in Gains \cup {"Unbond"}
      PROVE  e \in Counted(d, S) <=> e \in Counted(d, T)
  <2>1. CASE d \in DelegatorsOf(e)
    <3>1. Moves(d, e)
      BY <1>2, <2>1 DEF Moves, DelegatorsOf, Gains
    <3>2. e \in S <=> e \in T
      BY <1>2, <3>1
    <3> QED BY <1>1, <1>2, <3>2 DEF Counted, Takes
  <2>2. CASE d \notin DelegatorsOf(e)
    BY <2>2 DEF Counted
  <2> QED BY <2>1, <2>2
<1>3. \A U \in SUBSET Events : Counted(d, U) \subseteq Events
  BY DEF Counted
<1>4. Named(S, Gains) = Named(T, Gains) /\ Named(S, {"Unbond"}) = Named(T, {"Unbond"})
  BY <1>2, <1>3
<1>5. \A U : Balance(d, U, b) = Amounts(Named(U, Gains)) - Amounts(Named(U, {"Unbond"}))
  BY BalanceIs DEF Value
<1> HIDE DEF Named
<1> QED BY <1>4, <1>5

LEMMA EntrySame ==
  ASSUME NEW d, NEW S \in SUBSET Events, NEW T \in SUBSET Events,
         \A e \in Events : Moves(d, e) => (e \in S <=> e \in T)
  PROVE  /\ Bonds(d, S) = Bonds(d, T)
         /\ Balance(d, S, MaxBlock) = Balance(d, T, MaxBlock)
<1>1. Bonds(d, S) = Bonds(d, T)
  <2>1. {r \in S : Registers(d, r)} = {r \in T : Registers(d, r)}
    BY MovesIs
  <2> QED BY <2>1 DEF Bonds
<1>2. MaxBlock \in Nat
  BY StakeFlowAssumption
<1> QED BY <1>1, <1>2, MovesSame

\* A history with anything to write for such a delegator has all that moves its balance,
\* but for what was finalized later.
LEMMA ApartWhole ==
  ASSUME OrderInv, InReplay, NEW d, KeptApart(d), NEW h \in Counted(d, history),
         NEW f \in final, Moves(d, f), f \notin history
  PROVE  checkpoint < id[f] /\ \A g \in history : g.block < f.block
<1>1. history \subseteq Events /\ final \subseteq Events /\ heads \subseteq Events
  BY IdsAre DEF OrderInv
<1>2. PICK e \in history : Starts(d, e)
  <2>1. h \in history /\ Takes(d, Before(d, history, h), h)
    BY DEF Counted
  <2>2. CASE Registers(d, h) \/ (h.name = "EarningsClaimed" /\ h.from = d)
    BY <2>1, <2>2 DEF Starts
  <2>3. CASE Before(d, history, h)
    BY <1>1, <2>3, MovesIs DEF Before
  <2> QED BY <2>1, <2>2, <2>3 DEF Takes
<1>3. PICK p \in {e.from, e.to} : p \in Affected
  BY <1>2 DEF OrderInv, BatchInv, InReplay, Touches
<1>4. PICK g \in heads : p \in DelegatorsOf(g)
  BY <1>3 DEF Affected
<1>5. p \in {f.from, f.to}
  <2>1. CASE p = d
    BY <1>1, <2>1, MovesIs
  <2>2. CASE p # d
    BY <1>1, <1>2, <1>3, <1>4, <2>2 DEF KeptApart
  <2> QED BY <2>1, <2>2
<1>6. Touches(f)
  BY <1>3, <1>5 DEF Touches
<1> QED BY <1>6 DEF OrderInv, BatchInv, InReplay

\* What RowsMatchHistory asks of one delegator, of finalized blocks.
RowsOf(d) ==
  \A b \in Blocks : stake[d][b] # NoRow => /\ \E f \in final : f.block = b
                                           /\ stake[d][b].bal = Balance(d, final, b)

KeptRows == \A d \in Addresses : KeptApart(d) => RowsOf(d)

LEMMA RowsStart == Init => KeptRows
BY DEF Init, KeptRows, RowsOf

LEMMA RowsKept == InOrder /\ OrderInv /\ KeptRows /\ [Next]_vars => KeptRows'
<1> SUFFICES ASSUME InOrder, OrderInv, KeptRows, [Next]_vars PROVE KeptRows'
  OBVIOUS
<1>0. TypeInv /\ history \subseteq final /\ final \subseteq Ingested /\ Ingested \subseteq Events
      /\ \A e \in Events : e.block \in Nat
  BY IdsAre DEF OrderInv
<1>1. CASE UNCHANGED <<final, stake>>
  BY <1>1 DEF KeptRows, RowsOf
<1>2. CASE Finalize
  <2>1. stake' = stake
    BY <1>2 DEF Finalize, tableVars
  <2>2. PICK cutoff \in Blocks : final' = final \cup {f \in Ingested : f.block <= cutoff}
    BY <1>2 DEF Finalize
  <2>3. ASSUME NEW d \in Addresses, NEW b \in Blocks, KeptApart(d), stake[d][b] # NoRow
        PROVE  (\E f \in final' : f.block = b) /\ stake[d][b].bal = Balance(d, final', b)
    <3>1. PICK f \in final : f.block = b
      BY <2>3 DEF KeptRows, RowsOf
    <3>2. stake[d][b].bal = Balance(d, final, b)
      BY <2>3 DEF KeptRows, RowsOf
    <3>3. \A g \in final' \ final : b < g.block
      BY <2>2, <3>1, Later
    <3> DEFINE S == final'
    <3>4. S \in SUBSET Events /\ final \in SUBSET Events /\ b \in Nat
          /\ \A g \in Events : Moves(d, g) /\ g.block <= b => (g \in S <=> g \in final)
      BY <1>0, <2>2, <3>3, BlocksAre
    <3> HIDE DEF S
    <3>5. Balance(d, S, b) = Balance(d, final, b)
      BY <3>4, MovesSame
    <3> QED BY <2>2, <3>1, <3>2, <3>5 DEF S
  <2> QED BY <2>1, <2>3 DEF KeptRows, RowsOf
<1>3. CASE UpsertRow
  <2>1. final' = final /\ InReplay /\ BatchShape
    BY <1>0, <1>3 DEF UpsertRow, feedVars, InReplay, TypeInv
  <2>2. PICK o \in cur : TRUE
    BY <1>3, <2>1 DEF UpsertRow, BatchShape
  <2> DEFINE m == Min(pending)
  <2>3. /\ m \in Blocks /\ o.who \in Addresses
        /\ stake'[o.who][m] = o.rows[m]
        /\ \A d \in Addresses, b \in Blocks : d # o.who \/ b # m => stake'[d][b] = stake[d][b]
        /\ o.rows = Replay(o.who, history).rows
    BY <1>0, <1>3, <2>1, RowsStay DEF BatchShape
  <2> HIDE DEF m
  <2>4. ASSUME KeptApart(o.who), o.rows[m] # NoRow
        PROVE  (\E f \in final : f.block = m) /\ o.rows[m].bal = Balance(o.who, final, m)
    <3>1. history \in SUBSET Events /\ final \in SUBSET Events /\ m \in Nat
      BY <1>0, <2>3, BlocksAre
    <3>2. (\E e \in Counted(o.who, history) : e.block = m) /\ o.rows[m].bal = Balance(o.who, history, m)
      BY <2>3, <2>4, <3>1, OutcomeOf
    <3>3. PICK h \in Counted(o.who, history) : h.block = m
      BY <3>2
    <3>4. h \in history
      BY DEF Counted
    <3>5. \A f \in final \ history : Moves(o.who, f) => h.block < f.block
      BY <2>1, <2>4, <3>4, ApartWhole
    <3>6. \A f \in Events : Moves(o.who, f) /\ f.block <= m => (f \in history <=> f \in final)
      BY <1>0, <3>1, <3>3, <3>5
    <3>7. Balance(o.who, history, m) = Balance(o.who, final, m)
      BY <3>1, <3>6, MovesSame
    <3> QED BY <1>0, <3>2, <3>3, <3>4, <3>7
  <2>5. ASSUME NEW d \in Addresses, NEW b \in Blocks, KeptApart(d), stake'[d][b] # NoRow
        PROVE  (\E f \in final : f.block = b) /\ stake'[d][b].bal = Balance(d, final, b)
    <3>1. CASE d = o.who /\ b = m
      BY <2>3, <2>4, <2>5, <3>1
    <3>2. CASE d # o.who \/ b # m
      BY <2>3, <2>5, <3>2 DEF KeptRows, RowsOf
    <3> QED BY <3>1, <3>2
  <2> QED BY <2>1, <2>5 DEF KeptRows, RowsOf
<1>4. ASSUME Next, ~Finalize, ~UpsertRow PROVE UNCHANGED <<final, stake>>
  BY <1>4 DEF Next, Worker, Ingest, StartBatch, FetchHistory, ReplayDelegator, UpsertRegistry,
              Advance, Fail, feedVars, tableVars
<1>5. CASE UNCHANGED vars
  BY <1>1, <1>5 DEF vars, feedVars, tableVars
<1> QED BY <1>1, <1>2, <1>3, <1>4, <1>5

(* A stake row of a delegator that is kept apart is, whenever it can be seen, what the
   delegator's whole finalized history makes of it: while blocks are ingested in order,
   replay_delegator has all that moves the balance in hand whenever it has anything to
   write, even when fetch_full_history found it through another delegator. *)
THEOREM FlowRows == InOrder => (Spec => []KeptRows)
<1> SUFFICES ASSUME InOrder PROVE Spec => []KeptRows
  OBVIOUS
<1> DEFINE Inv == OrderInv /\ KeptRows
<1>1. Init => Inv
  BY OrderStarts, RowsStart
<1>2. Inv /\ [Next]_vars => Inv'
  BY OrderKept, RowsKept
<1>3. Inv => KeptRows
  OBVIOUS
<1> QED BY <1>1, <1>2, <1>3, PTL DEF Spec

(* Every row of flow.rs matches its delegator's history where all delegators are kept
   apart; the run in which a delegate bonds to itself shows that this is needed. *)
THEOREM FlowRowsMatch ==
  InOrder /\ (\A d \in Addresses : KeptApart(d)) => (Spec => []RowsMatchHistory)
<1> SUFFICES ASSUME InOrder, \A d \in Addresses : KeptApart(d) PROVE Spec => []RowsMatchHistory
  OBVIOUS
<1>1. KeptRows => RowsMatchHistory
  BY DEF KeptRows, RowsOf, RowsMatchHistory
<1>2. Spec => []KeptRows
  BY FlowRows
<1> QED BY <1>1, <1>2, PTL

-----------------------------------------------------------------------------
(* The entry of such a delegator: that of a set of finalized events with all that is
   behind the checkpoint, and with the heads of a batch that is done with him; the
   history of a batch has those of the set that touch a delegator of its heads.      *)

EntryFrom(d, S) ==
  /\ Fits(d, S, registry[d])
  /\ \A f \in final : Moves(d, f) /\ id[f] <= checkpoint => f \in S
  /\ InReplay /\ d \notin todo => \A e \in heads : Moves(d, e) => e \in S
  /\ InReplay => \A f \in S : Touches(f) => f \in history

KeptEntries == \A d \in Addresses : KeptApart(d) => \E S \in SUBSET final : EntryFrom(d, S)

LEMMA EntriesStart == Init => KeptEntries
<1> SUFFICES ASSUME Init, NEW d \in Addresses PROVE \E S \in SUBSET final : EntryFrom(d, S)
  BY DEF KeptEntries
<1>1. Bonds(d, {}) = {}
  BY DEF Bonds
<1>2. registry[d] = NoEntry /\ final = {} /\ ~InReplay
  BY DEF Init, InReplay
<1>3. Fits(d, {}, registry[d])
  BY <1>1, <1>2 DEF Fits
<1>4. EntryFrom(d, {})
  BY <1>2, <1>3 DEF EntryFrom
<1> QED BY <1>4

\* The entry is written from the history, or the history has nothing to write and is
\* all the set had.
LEMMA EntryWritten ==
  ASSUME OrderInv, UpsertRegistry, NEW d \in Addresses, KeptApart(d), NEW o \in cur, o.who = d,
         NEW S \in SUBSET final, EntryFrom(d, S)
  PROVE  \E T \in SUBSET final : EntryFrom(d, T)'
<1>0. TypeInv /\ TypeOK /\ BatchShape /\ pc = "rows" /\ InReplay
  BY DEF OrderInv, TypeInv, UpsertRegistry, InReplay
<1>1. /\ UNCHANGED <<id, final, checkpoint, heads, history>> /\ Affected' = Affected
      /\ registry' = IF o.entry = NoEntry THEN registry ELSE [registry EXCEPT ![d] = o.entry]
      /\ todo' = todo \ {d}
  <2>1. UNCHANGED <<id, final, checkpoint, heads, history>>
    BY DEF UpsertRegistry, feedVars
  <2>2. PICK p \in cur : /\ registry' = IF p.entry = NoEntry THEN registry ELSE [registry EXCEPT ![p.who] = p.entry]
                         /\ todo' = todo \ {p.who}
    BY DEF UpsertRegistry
  <2>3. p = o
    BY <1>0 DEF BatchShape
  <2> QED BY <2>1, <2>2, <2>3 DEF Affected
<1>2. history \in SUBSET Events /\ history \subseteq final /\ final \in SUBSET Events /\ heads \subseteq history
  BY <1>0, IdsAre DEF OrderInv, BatchInv, InReplay
<1>3. o.entry = EntryOf(Replay(d, history))
  BY <1>0 DEF BatchShape
<1>4. /\ Fits(d, history, o.entry)
      /\ Bonds(d, history) # {} => o.entry # NoEntry
      /\ Bonds(d, history) = {} => o.entry = NoEntry
  BY <1>2, <1>3, OutcomeOf DEF Fits
<1>5. registry \in [Addresses -> [first : Nat, last : Nat, active : BOOLEAN]]
  BY <1>0 DEF TypeOK
<1>6. ASSUME Fits(d, history, registry'[d]),
             \A f \in final : Moves(d, f) /\ f \notin history => checkpoint < id[f]
      PROVE  \E T \in SUBSET final : EntryFrom(d, T)'
  <2>0. PICK H \in SUBSET final : H = history
    BY <1>2
  <2>1. \A f \in final : checkpoint \in Nat /\ id[f] \in Nat
    BY IdsAre DEF OrderInv
  <2>2. \A f \in final : Moves(d, f) /\ id[f] <= checkpoint => f \in history
    BY <1>6, <2>1
  <2>3. Fits(d, H, registry'[d])
    BY <1>6, <2>0
  <2>4. EntryFrom(d, H)'
    BY <1>1, <1>2, <2>0, <2>2, <2>3 DEF EntryFrom, Fits
  <2> QED BY <2>4
<1>7. CASE Bonds(d, history) # {}
  <2>1. registry'[d] = o.entry
    BY <1>1, <1>4, <1>5, <1>7
  <2>2. PICK r \in history : Registers(d, r)
    BY <1>7 DEF Bonds
  <2>3. r \in Counted(d, history)
    BY <1>2, <2>2, RegistersIs DEF Counted, Takes
  <2>4. \A f \in final : Moves(d, f) /\ f \notin history => checkpoint < id[f]
    BY <1>0, <2>3, ApartWhole
  <2> QED BY <1>4, <1>6, <2>1, <2>4
<1>8. CASE Bonds(d, history) = {} /\ d \in Affected
  <2>1. registry' = registry
    BY <1>1, <1>4, <1>8
  <2>2. \A f \in final : Moves(d, f) => Touches(f)
    BY <1>2, <1>8, MovesIs DEF Touches
  <2>3. Bonds(d, S) = {}
    <3>1. \A f \in S : Registers(d, f) => f \in history
      BY <1>0, <1>2, <2>2, MovesIs DEF EntryFrom
    <3> QED BY <1>8, <3>1 DEF Bonds
  <2>4. Fits(d, history, registry'[d])
    BY <1>8, <2>1, <2>3 DEF EntryFrom, Fits
  <2>5. \A f \in final : Moves(d, f) /\ f \notin history => checkpoint < id[f]
    BY <1>0, <2>2 DEF OrderInv, BatchInv, InReplay
  <2> QED BY <1>6, <2>4, <2>5
<1>9. CASE Bonds(d, history) = {} /\ d \notin Affected
  <2>1. registry' = registry
    BY <1>1, <1>4, <1>9
  <2>2. \A e \in heads : ~Moves(d, e)
    BY <1>2, <1>9, MovesIs DEF Affected
  <2>3. EntryFrom(d, S)'
    BY <1>0, <1>1, <2>1, <2>2 DEF EntryFrom, Touches
  <2> QED BY <2>3
<1> QED BY <1>7, <1>8, <1>9

LEMMA EntriesKept == InOrder /\ OrderInv /\ KeptEntries /\ [Next]_vars => KeptEntries'
<1> SUFFICES ASSUME InOrder, OrderInv, [Next]_vars, NEW d \in Addresses, KeptApart(d),
                    NEW S \in SUBSET final, EntryFrom(d, S)
             PROVE  \E T \in SUBSET final' : EntryFrom(d, T)'
  BY DEF KeptEntries
<1>0. TypeInv /\ BatchShape /\ heads \subseteq final /\ final \subseteq Ingested /\ Ingested \subseteq Events
  BY IdsAre DEF OrderInv, TypeInv
<1>1. CASE Ingest
  <2>1. UNCHANGED <<final, checkpoint, registry, pc, heads, history, todo>> /\ Affected' = Affected
    BY <1>1 DEF Ingest, tableVars, batchVars, Affected
  <2>2. \A e \in final : id'[e] = id[e]
    <3>1. PICK b \in Blocks :
            LET new == {e \in Events : e.block = b}
            IN  new \cap Ingested = {} /\ \A e \in Events \ new : id'[e] = id[e]
      BY <1>0, <1>1, Ingests
    <3> QED BY <1>0, <3>1
  <2>3. EntryFrom(d, S)'
    BY <2>1, <2>2 DEF EntryFrom, InReplay, Touches
  <2> QED BY <2>1, <2>3
<1>2. CASE Finalize
  <2>1. UNCHANGED <<id, checkpoint, registry, pc, heads, history, todo>> /\ Affected' = Affected
    BY <1>2 DEF Finalize, tableVars, batchVars, Affected
  <2>2. final \subseteq final' /\ \A e \in final' \ final : checkpoint < id[e]
    <3>1. \E cutoff \in Blocks : final' = final \cup {f \in Ingested : f.block <= cutoff}
      BY <1>2 DEF Finalize
    <3> QED BY <3>1, Later
  <2>3. \A e \in final' : checkpoint \in Nat /\ id[e] \in Nat
    <3>1. final' \subseteq Events
      BY <1>0, <1>2 DEF Finalize
    <3> QED BY <3>1, IdsAre DEF OrderInv
  <2>4. \A f \in final' : Moves(d, f) /\ id[f] <= checkpoint => f \in S
    BY <2>2, <2>3 DEF EntryFrom
  <2>5. EntryFrom(d, S)'
    BY <2>1, <2>4 DEF EntryFrom, InReplay, Touches
  <2> QED BY <2>2, <2>5
<1>3. CASE StartBatch
  <2>1. UNCHANGED <<id, final, checkpoint, registry>> /\ pc' = "history"
    BY <1>3 DEF StartBatch, feedVars, tableVars
  <2>2. EntryFrom(d, S)'
    BY <2>1 DEF EntryFrom, InReplay
  <2> QED BY <2>1, <2>2
<1>4. CASE FetchHistory
  <2>1. UNCHANGED <<id, final, checkpoint, registry, heads>> /\ Affected' = Affected
        /\ history' = {e \in final : Touches(e)} /\ todo' = UNION {DelegatorsOf(e) : e \in history'}
    BY <1>4 DEF FetchHistory, feedVars, tableVars, Touches, Affected
  <2>2. \A e \in heads : Moves(d, e) => d \in todo'
    <3>1. \A e \in heads : e \in final /\ Touches(e)
      BY <1>0, NamesDelegators DEF Touches, Affected
    <3> QED BY <1>0, <2>1, <3>1, MovesIs
  <2>3. \A f \in S : Touches(f) => f \in history'
    BY <2>1
  <2>4. EntryFrom(d, S)'
    BY <2>1, <2>2, <2>3 DEF EntryFrom, Touches
  <2> QED BY <2>1, <2>4
<1>5. CASE ReplayDelegator \/ UpsertRow
  <2>1. UNCHANGED <<id, final, checkpoint, registry, heads, history, todo>> /\ Affected' = Affected /\ InReplay
    BY <1>5 DEF ReplayDelegator, UpsertRow, feedVars, tableVars, Affected, InReplay
  <2>2. EntryFrom(d, S)'
    BY <2>1 DEF EntryFrom, Touches
  <2> QED BY <2>1, <2>2
<1>6. CASE UpsertRegistry
  <2>1. final' = final
    BY <1>6 DEF UpsertRegistry, feedVars
  <2>2. PICK o \in cur : cur = {o}
    BY <1>0, <1>6 DEF BatchShape, UpsertRegistry
  <2>3. CASE o.who = d
    BY <1>6, <2>1, <2>3, EntryWritten
  <2>4. CASE o.who # d
    <3>1. /\ UNCHANGED <<id, checkpoint, heads, history>> /\ Affected' = Affected /\ InReplay
          /\ registry' = IF o.entry = NoEntry THEN registry ELSE [registry EXCEPT ![o.who] = o.entry]
          /\ todo' = todo \ {o.who}
      BY <1>6, <2>2 DEF UpsertRegistry, feedVars, Affected, InReplay
    <3>2. registry'[d] = registry[d]
      <4>1. registry \in [Addresses -> [first : Nat, last : Nat, active : BOOLEAN]]
        BY <1>0 DEF TypeInv, TypeOK
      <4> QED BY <2>4, <3>1, <4>1
    <3>3. EntryFrom(d, S)'
      BY <2>1, <2>4, <3>1, <3>2 DEF EntryFrom, Touches
    <3> QED BY <2>1, <3>3
  <2> QED BY <2>3, <2>4
<1>7. CASE Advance
  <2>1. UNCHANGED <<id, final, registry>> /\ pc = "advance" /\ pc' = "idle"
        /\ checkpoint' = Max({checkpoint, LastId})
    BY <1>7 DEF Advance, feedVars
  <2>2. checkpoint' \in Nat /\ (checkpoint' = checkpoint \/ \E h \in heads : checkpoint' = id[h])
    BY <1>0, <2>1, NextCheckpoint
  <2>3. ASSUME NEW f \in final, Moves(d, f), id[f] <= checkpoint' PROVE f \in S
    <3>0. id[f] \in Nat /\ checkpoint \in Nat
      BY IdsAre DEF OrderInv
    <3>1. CASE id[f] <= checkpoint
      BY <2>3, <3>1 DEF EntryFrom
    <3>2. CASE ~(id[f] <= checkpoint)
      <4>1. PICK h \in heads : id[f] <= id[h] /\ checkpoint < id[f]
        BY <2>2, <2>3, <3>0, <3>2
      <4>2. f \in heads
        BY <4>1 DEF OrderInv, BatchInv
      <4>3. todo = {} /\ InReplay
        BY <1>0, <2>1 DEF BatchShape, InReplay
      <4> QED BY <2>3, <4>2, <4>3 DEF EntryFrom
    <3> QED BY <3>1, <3>2
  <2>4. EntryFrom(d, S)'
    BY <2>1, <2>3 DEF EntryFrom, InReplay
  <2> QED BY <2>1, <2>4
<1>8. CASE Fail
  <2>1. UNCHANGED <<id, final, checkpoint, registry>> /\ pc' = "idle"
    BY <1>8 DEF Fail, feedVars, tableVars
  <2>2. EntryFrom(d, S)'
    BY <2>1 DEF EntryFrom, InReplay
  <2> QED BY <2>1, <2>2
<1>9. CASE UNCHANGED vars
  <2>1. UNCHANGED <<id, final, checkpoint, registry, pc, heads, history, todo>> /\ Affected' = Affected
    BY <1>9 DEF vars, feedVars, tableVars, batchVars, Affected
  <2>2. EntryFrom(d, S)'
    BY <2>1 DEF EntryFrom, InReplay, Touches
  <2> QED BY <2>1, <2>2
<1> QED BY <1>1, <1>2, <1>3, <1>4, <1>5, <1>6, <1>7, <1>8, <1>9 DEF Next, Worker

KeptRegistry ==
  (pc = "idle" /\ Behind = {}) =>
      \A d \in Addresses : KeptApart(d) => Fits(d, final, registry[d])

(* Once the worker has caught up, a delegator that is kept apart is in the registry from
   the event that registered him, and active exactly when he has stake. *)
THEOREM FlowRegistry == InOrder => (Spec => []KeptRegistry)
<1> SUFFICES ASSUME InOrder PROVE Spec => []KeptRegistry
  OBVIOUS
<1> DEFINE Inv == OrderInv /\ KeptEntries
<1>1. Init => Inv
  BY OrderStarts, EntriesStart
<1>2. Inv /\ [Next]_vars => Inv'
  BY OrderKept, EntriesKept
<1>3. Inv => KeptRegistry
  <2> SUFFICES ASSUME Inv, Behind = {}, NEW d \in Addresses, KeptApart(d)
               PROVE  Fits(d, final, registry[d])
    BY DEF KeptRegistry
  <2>1. PICK S \in SUBSET final : EntryFrom(d, S)
    BY DEF KeptEntries
  <2>2. final \subseteq Events /\ \A f \in final : id[f] <= checkpoint
    <3>1. \A f \in final : f \in Events /\ id[f] \in Nat /\ checkpoint \in Nat
      BY IdsAre DEF OrderInv
    <3> QED BY <3>1 DEF Behind
  <2>3. \A f \in Events : Moves(d, f) => (f \in S <=> f \in final)
    BY <2>1, <2>2 DEF EntryFrom
  <2>4. Bonds(d, S) = Bonds(d, final) /\ Balance(d, S, MaxBlock) = Balance(d, final, MaxBlock)
    BY <2>1, <2>2, <2>3, EntrySame
  <2> QED BY <2>1, <2>4 DEF EntryFrom, Fits
<1> QED BY <1>1, <1>2, <1>3, PTL DEF Spec

(* The whole registry, where all delegators are kept apart. *)
THEOREM FlowRegistryMatches ==
  InOrder /\ (\A d \in Addresses : KeptApart(d)) => (Spec => []RegistryMatches)
<1> SUFFICES ASSUME InOrder, \A d \in Addresses : KeptApart(d) PROVE Spec => []RegistryMatches
  OBVIOUS
<1>1. KeptRegistry => RegistryMatches
  BY DEF KeptRegistry, RegistryMatches, Fits, Bonds
<1>2. Spec => []KeptRegistry
  BY FlowRegistry
<1> QED BY <1>1, <1>2, PTL
=============================================================================
