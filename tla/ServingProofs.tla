--------------------------- MODULE ServingProofs ---------------------------
(***************************************************************************)
(* What clients are served, proved for any callers, keys, limits, faults,  *)
(* loops, touches and requests: an answer of the RPC layer is that of its  *)
(* request and the same in a replay; what marks a loop of the daemon down, *)
(* and that sound loops pass the probe; a walk over pages misses no row    *)
(* that stays and repeats none; a balance is never ahead of its block, and *)
(* wrong only if the block was read before the ledger had it.              *)
(***************************************************************************)
EXTENDS Serving, Extremes, TLAPS

-----------------------------------------------------------------------------
(* The pages.                                                              *)

LEMMA EndpointFields ==
  ASSUME endpoint \in Endpoints
  PROVE  /\ endpoint.key \in {"place", "value", "amount"}
         /\ endpoint.next \in {"full", "last", "more", "offset"}
         /\ endpoint.next = "offset" <=> endpoint.key = "amount"
         /\ endpoint.writer \in {"ledger", "snapshots"} <=> endpoint.key # "value"
         /\ endpoint.key = "amount" => endpoint.up
<1> DEFINE Fields(e) == /\ e.key \in {"place", "value", "amount"}
                        /\ e.next \in {"full", "last", "more", "offset"}
                        /\ e.next = "offset" <=> e.key = "amount"
                        /\ e.writer \in {"ledger", "snapshots"} <=> e.key # "value"
                        /\ e.key = "amount" => e = EventsByAmount
<1>2. EventsByAmount.up
  BY DEF Endpoint, EventsByAmount
<1>3. Fields(EventsUp) /\ Fields(EventsDown) /\ Fields(DelegatorEvents) /\ Fields(RoundEvents)
  BY DEF Endpoint, EventsUp, EventsDown, DelegatorEvents, RoundEvents
<1>4. Fields(Votes) /\ Fields(TicketHistory) /\ Fields(RoundsIndex)
  BY DEF Endpoint, Votes, TicketHistory, RoundsIndex
<1>5. Fields(OrchDelegators) /\ Fields(DelegatorIndex) /\ Fields(PayoutLeaderboard)
  BY DEF Endpoint, OrchDelegators, DelegatorIndex, PayoutLeaderboard
<1>6. Fields(RewardLeaderboard) /\ Fields(OrchestratorProfiles) /\ Fields(GatewayProfiles)
  BY DEF Endpoint, RewardLeaderboard, OrchestratorProfiles, GatewayProfiles
<1>7. Fields(EventsByAmount)
  BY DEF Endpoint, EventsByAmount
<1>8. Fields(endpoint)
  <2> HIDE DEF Fields
  <2> QED BY <1>3, <1>4, <1>5, <1>6, <1>7 DEF Endpoints
<1> QED BY <1>2, <1>8

LEMMA PlacesBound ==
  /\ TieBreak \in Nat \ {0}
  /\ \A r \in Rows : Place[r] \in 1..(TieBreak - 1)
<1>1. IsFiniteSet(Rows) /\ IsFiniteSet(Valuations) /\ Place \in [Rows -> 1..Cardinality(Rows)]
  BY PagesAssumption
<1>2. IsFiniteSet(Rows \cup Valuations)
  BY <1>1, FS_Union
<1>3. /\ Cardinality(Rows \cup Valuations) \in Nat /\ Cardinality(Rows) \in Nat
      /\ Cardinality(Rows) <= Cardinality(Rows \cup Valuations)
  BY <1>1, <1>2, FS_CardinalityType, FS_Subset
<1>4. TieBreak = 1 + Cardinality(Rows \cup Valuations)
  BY DEF TieBreak
<1>5. \A r \in Rows : Place[r] \in 1..Cardinality(Rows)
  BY <1>1
<1>6. TieBreak \in Nat \ {0} /\ Cardinality(Rows) <= TieBreak - 1
  BY <1>3, <1>4
<1>7. \A r \in Rows : Place[r] \in 1..(TieBreak - 1)
  BY <1>3, <1>5, <1>6
<1> QED BY <1>6, <1>7

\* The rows and the values are those of the endpoint.
Walkable ==
  /\ endpoint \in Endpoints
  /\ value \in [RowsOf(endpoint) -> ValuesOf(endpoint)]

(* A greater value comes first, whatever the places. *)
LEMMA ValueFirst ==
  ASSUME NEW t \in Nat, NEW v \in Nat, NEW w \in Nat, w < v
  PROVE  v * t \in Nat /\ w * t \in Nat /\ v * t >= w * t + t
<1>1. PICK d \in Nat : v = w + 1 + d
  <2>1. v - w - 1 \in Nat /\ v = w + 1 + (v - w - 1)
    OBVIOUS
  <2> QED BY <2>1
<1>2. v * t = w * t + t + d * t
  BY <1>1
<1>3. w * t \in Nat /\ d * t \in Nat
  OBVIOUS
<1> QED BY <1>2, <1>3

LEMMA RowKeys ==
  ASSUME Walkable
  PROVE  /\ \A r \in RowsOf(endpoint) : value[r] \in Nat /\ KeyOfRow(r) \in Int
         /\ \A q, r \in RowsOf(endpoint) : KeyOfRow(q) = KeyOfRow(r) => q = r
         /\ endpoint.key # "amount" => RowsOf(endpoint) = Rows
<1>1. Values \subseteq Nat /\ Valuations \subseteq Nat /\ \A q, r \in Rows : Place[q] = Place[r] => q = r
  BY PagesAssumption
<1>2. ValuesOf(endpoint) \subseteq Nat
  BY <1>1 DEF ValuesOf
<1>3. TieBreak \in Nat \ {0} /\ \A r \in Rows : Place[r] \in 1..(TieBreak - 1)
  BY PlacesBound
<1>4. CASE endpoint.key = "amount"
  <2>0. endpoint.up
    BY <1>4, EndpointFields DEF Walkable
  <2>1. \A r \in RowsOf(endpoint) : r \in Nat /\ KeyOfRow(r) = TieBreak - r
    <3> SUFFICES ASSUME NEW r \in RowsOf(endpoint) PROVE r \in Nat /\ KeyOfRow(r) = TieBreak - r
      OBVIOUS
    <3>1. r \in Nat /\ endpoint.key # "value"
      BY <1>1, <1>4 DEF RowsOf
    <3>2. KeyOfRow(r) = 0 + (TieBreak - r)
      BY <1>4, <2>0, <3>1 DEF KeyOfRow, PlaceOf
    <3> QED BY <1>3, <3>1, <3>2
  <2> QED BY <1>2, <1>3, <1>4, <2>1 DEF Walkable
<1>5. CASE endpoint.key = "place"
  <2>1. \A r \in RowsOf(endpoint) : r \in Rows /\ KeyOfRow(r) = IF endpoint.up THEN TieBreak - Place[r] ELSE Place[r]
    BY <1>3, <1>5 DEF RowsOf, KeyOfRow, PlaceOf
  <2> QED BY <1>1, <1>2, <1>3, <1>5, <2>1 DEF Walkable, RowsOf
<1>6. CASE endpoint.key = "value"
  <2> DEFINE P(r) == IF endpoint.up THEN TieBreak - Place[r] ELSE Place[r]
  <2>1. \A r \in RowsOf(endpoint) : r \in Rows /\ value[r] \in Nat /\ P(r) \in 1..(TieBreak - 1)
                                    /\ KeyOfRow(r) = value[r] * TieBreak + P(r)
    BY <1>2, <1>3, <1>6 DEF Walkable, RowsOf, KeyOfRow, PlaceOf
  <2>2. \A q, r \in Rows : P(q) = P(r) => q = r
    BY <1>1, <1>3
  <2> HIDE DEF P
  <2>3. ASSUME NEW q \in RowsOf(endpoint), NEW r \in RowsOf(endpoint), value[q] < value[r] PROVE KeyOfRow(q) < KeyOfRow(r)
    <3> DEFINE t == TieBreak  v == value[r]  w == value[q]
    <3>1. t \in Nat /\ v \in Nat /\ w \in Nat /\ w < v /\ P(q) \in 1..(t - 1) /\ P(r) \in 1..(t - 1)
          /\ KeyOfRow(q) = w * t + P(q) /\ KeyOfRow(r) = v * t + P(r)
      BY <1>3, <2>1, <2>3
    <3> HIDE DEF t, v, w
    <3>2. v * t \in Nat /\ w * t \in Nat /\ v * t >= w * t + t
      BY <3>1, ValueFirst
    <3> QED BY <3>1, <3>2
  <2>4. ASSUME NEW q \in RowsOf(endpoint), NEW r \in RowsOf(endpoint), KeyOfRow(q) = KeyOfRow(r) PROVE q = r
    <3>1. \A k \in RowsOf(endpoint) : KeyOfRow(k) \in Int /\ value[k] * TieBreak \in Int /\ P(k) \in Int
      BY <1>3, <2>1
    <3>2. value[q] = value[r]
      BY <2>1, <2>3, <2>4, <3>1
    <3>3. P(q) = P(r)
      <4> DEFINE x == value[q] * TieBreak
      <4>1. x + P(q) = x + P(r) /\ x \in Int
        BY <2>1, <2>4, <3>1, <3>2
      <4>2. P(q) \in Int /\ P(r) \in Int
        BY <3>1
      <4> HIDE DEF x
      <4> QED BY <4>1, <4>2
    <3> QED BY <2>1, <2>2, <3>3
  <2>5. \A r \in RowsOf(endpoint) : value[r] \in Nat /\ KeyOfRow(r) \in Int
    BY <1>3, <2>1
  <2>6. RowsOf(endpoint) = Rows
    BY <1>6 DEF RowsOf
  <2> QED BY <2>4, <2>5, <2>6
<1> QED BY <1>4, <1>5, <1>6, EndpointFields DEF Walkable

(* ORDER BY: every row of S once, the keys falling. *)
LEMMA Ordered ==
  ASSUME NEW S, IsFiniteSet(S), \A r \in S : KeyOfRow(r) \in Int,
         \A q, r \in S : KeyOfRow(q) = KeyOfRow(r) => q = r
  PROVE  /\ InOrder(S) \in Seq(S) /\ Len(InOrder(S)) = Cardinality(S)
         /\ \A r \in S : \E n \in 1..Cardinality(S) : InOrder(S)[n] = r
         /\ \A m, n \in 1..Cardinality(S) : m < n => KeyOfRow(InOrder(S)[n]) < KeyOfRow(InOrder(S)[m])
<1> DEFINE N == Cardinality(S)
           T == 0..(N - 1)
           f == [r \in S |-> Cardinality(Ahead(S, r))]
<1>1. N \in Nat
  BY FS_CardinalityType
<1>2. IsFiniteSet(T) /\ Cardinality(T) = N
  BY <1>1, FS_Interval
<1>3. \A r \in S : IsFiniteSet(Ahead(S, r)) /\ Cardinality(Ahead(S, r)) \in Nat
  BY FS_Subset, FS_CardinalityType DEF Ahead
<1>4. ASSUME NEW q \in S, NEW r \in S, KeyOfRow(r) < KeyOfRow(q) PROVE f[q] < f[r]
  <2>1. Ahead(S, q) \subseteq Ahead(S, r) /\ q \in Ahead(S, r) /\ q \notin Ahead(S, q)
    BY <1>4 DEF Ahead
  <2>2. /\ Cardinality(Ahead(S, q)) <= Cardinality(Ahead(S, r))
        /\ Cardinality(Ahead(S, q)) # Cardinality(Ahead(S, r))
    BY <1>3, <2>1, FS_Subset
  <2> QED BY <1>3, <2>2
<1>5. f \in [S -> T]
  <2> SUFFICES ASSUME NEW r \in S PROVE Cardinality(Ahead(S, r)) \in T
    OBVIOUS
  <2>1. Ahead(S, r) \subseteq S \ {r}
    BY DEF Ahead
  <2>2. IsFiniteSet(S \ {r}) /\ Cardinality(S \ {r}) = N - 1
    BY FS_RemoveElement
  <2>3. Cardinality(Ahead(S, r)) <= N - 1
    BY <2>1, <2>2, FS_Subset
  <2> QED BY <1>1, <1>3, <2>3
<1>6. \A q, r \in S : f[q] = f[r] => q = r
  <2> SUFFICES ASSUME NEW q \in S, NEW r \in S, f[q] = f[r], q # r PROVE FALSE
    OBVIOUS
  <2>1. KeyOfRow(q) < KeyOfRow(r) \/ KeyOfRow(r) < KeyOfRow(q)
    OBVIOUS
  <2> HIDE DEF f, T, N
  <2> QED BY <1>1, <1>4, <1>5, <2>1 DEF T
<1> HIDE DEF f, T
<1>7. f \in Surjection(S, T)
  <2>1. f \in Injection(S, T)
    BY <1>5, <1>6 DEF Injection, IsInjective
  <2> QED BY <1>2, <2>1, FS_Injection
<1>8. \A n \in 1..N : InOrder(S)[n] \in S /\ f[InOrder(S)[n]] = n - 1
  <2> SUFFICES ASSUME NEW n \in 1..N PROVE InOrder(S)[n] \in S /\ f[InOrder(S)[n]] = n - 1
    OBVIOUS
  <2>1. n - 1 \in T
    BY <1>1 DEF T
  <2>2. \E r \in S : Cardinality(Ahead(S, r)) = n - 1
    BY <1>7, <2>1 DEF Surjection, f
  <2> QED BY <2>2 DEF InOrder, f
<1>9. InOrder(S) \in [1..N -> S]
  BY <1>8 DEF InOrder
<1>10. InOrder(S) \in Seq(S) /\ Len(InOrder(S)) = N
  BY <1>1, <1>9
<1>11. \A r \in S : \E n \in 1..N : InOrder(S)[n] = r
  <2> SUFFICES ASSUME NEW r \in S PROVE \E n \in 1..N : InOrder(S)[n] = r
    OBVIOUS
  <2>1. f[r] + 1 \in 1..N
    BY <1>1, <1>5 DEF T
  <2>2. f[InOrder(S)[f[r] + 1]] = f[r] /\ InOrder(S)[f[r] + 1] \in S
    BY <1>1, <1>5, <1>8, <2>1 DEF T
  <2> QED BY <1>6, <2>1, <2>2
<1>12. ASSUME NEW m \in 1..N, NEW n \in 1..N, m < n PROVE KeyOfRow(InOrder(S)[n]) < KeyOfRow(InOrder(S)[m])
  <2> DEFINE a == InOrder(S)[m]  b == InOrder(S)[n]
  <2>1. a \in S /\ b \in S /\ f[a] = m - 1 /\ f[b] = n - 1
    BY <1>8
  <2> HIDE DEF a, b
  <2>2. f[a] < f[b]
    BY <1>1, <1>12, <2>1
  <2>3. KeyOfRow(a) \in Int /\ KeyOfRow(b) \in Int /\ a # b /\ f[a] \in Int /\ f[b] \in Int
    BY <1>1, <1>12, <2>1
  <2>4. ~(KeyOfRow(a) < KeyOfRow(b))
    BY <1>4, <2>1, <2>2, <2>3
  <2>5. KeyOfRow(a) # KeyOfRow(b)
    BY <2>1, <2>3
  <2>6. KeyOfRow(b) < KeyOfRow(a)
    BY <2>3, <2>4, <2>5
  <2> QED BY <2>6 DEF a, b
<1> QED BY <1>10, <1>11, <1>12

LEMMA FirstOfSeq ==
  ASSUME NEW T, NEW s \in Seq(T), NEW n \in Nat
  PROVE  /\ FirstOf(s, n) \in Seq(T) /\ Len(FirstOf(s, n)) = IF Len(s) < n THEN Len(s) ELSE n
         /\ \A i \in 1..Len(FirstOf(s, n)) : FirstOf(s, n)[i] = s[i]
<1> DEFINE m == IF Len(s) < n THEN Len(s) ELSE n
<1>1. Len(s) \in Nat /\ m \in Nat /\ m <= Len(s) /\ \A i \in 1..m : i \in 1..Len(s)
  OBVIOUS
<1>2. FirstOf(s, n) = SubSeq(s, 1, m)
  BY DEF FirstOf
<1> HIDE DEF m
<1>3. SubSeq(s, 1, m) \in Seq(T) /\ Len(SubSeq(s, 1, m)) = m /\ \A i \in 1..m : SubSeq(s, 1, m)[i] = s[i]
  BY <1>1
<1> QED BY <1>2, <1>3 DEF m

LEMMA FirstOfFirst ==
  ASSUME NEW T, NEW s \in Seq(T), NEW n \in Nat, NEW m \in Nat, m <= n
  PROVE  FirstOf(FirstOf(s, n), m) = FirstOf(s, m)
<1> DEFINE a == FirstOf(s, n)  b == FirstOf(a, m)  c == FirstOf(s, m)
<1>1. a \in Seq(T) /\ Len(a) = (IF Len(s) < n THEN Len(s) ELSE n) /\ \A i \in 1..Len(a) : a[i] = s[i]
  BY FirstOfSeq
<1>2. c \in Seq(T) /\ Len(c) = (IF Len(s) < m THEN Len(s) ELSE m) /\ \A i \in 1..Len(c) : c[i] = s[i]
  BY FirstOfSeq
<1> HIDE DEF a, c
<1>3. b \in Seq(T) /\ Len(b) = (IF Len(a) < m THEN Len(a) ELSE m) /\ \A i \in 1..Len(b) : b[i] = a[i]
  BY <1>1, FirstOfSeq
<1> HIDE DEF b
<1>4. Len(b) = Len(c) /\ Len(b) \in Nat /\ Len(b) <= Len(a)
  BY <1>1, <1>2, <1>3
<1>5. \A i \in 1..Len(b) : b[i] = c[i]
  BY <1>1, <1>2, <1>3, <1>4
<1>6. b = c
  BY <1>2, <1>3, <1>4, <1>5
<1> QED BY <1>6 DEF a, b, c

\* p is the first n rows of S: what is left out has a smaller key than the last.
FirstBy(S, n, p) ==
  /\ p \in Seq(S) /\ Len(p) = IF Cardinality(S) < n THEN Cardinality(S) ELSE n
  /\ \A i \in 1..Len(p) : p[i] = InOrder(S)[i]
  /\ \A i, j \in 1..Len(p) : i < j => KeyOfRow(p[j]) < KeyOfRow(p[i])
  /\ \A r \in S : \/ \E i \in 1..Len(p) : p[i] = r
                  \/ /\ Len(p) = n /\ n < Cardinality(S)
                     /\ \A i \in 1..Len(p) : KeyOfRow(r) < KeyOfRow(p[i])

(* ORDER BY with LIMIT. *)
LEMMA FirstRows ==
  ASSUME NEW S, IsFiniteSet(S), \A r \in S : KeyOfRow(r) \in Int,
         \A q, r \in S : KeyOfRow(q) = KeyOfRow(r) => q = r, NEW n \in Nat
  PROVE  FirstBy(S, n, FirstOf(InOrder(S), n))
<1> DEFINE p == FirstOf(InOrder(S), n)
           o == InOrder(S)  N == Cardinality(S)  m == IF N < n THEN N ELSE n
<1>1. N \in Nat /\ m \in 0..N
  BY FS_CardinalityType
<1>2. /\ o \in Seq(S) /\ Len(o) = N
      /\ \A r \in S : \E i \in 1..N : o[i] = r
      /\ \A i, j \in 1..N : i < j => KeyOfRow(o[j]) < KeyOfRow(o[i])
  BY Ordered
<1> HIDE DEF o, N
<1>3. /\ FirstOf(o, n) \in Seq(S) /\ Len(FirstOf(o, n)) = IF Len(o) < n THEN Len(o) ELSE n
      /\ \A i \in 1..Len(FirstOf(o, n)) : FirstOf(o, n)[i] = o[i]
  BY <1>2, FirstOfSeq
<1>4. p \in Seq(S) /\ Len(p) = m /\ \A i \in 1..m : p[i] = o[i]
  BY <1>2, <1>3 DEF o
<1> HIDE DEF p
<1>5. ASSUME NEW i \in 1..m, NEW j \in 1..m, i < j PROVE KeyOfRow(p[j]) < KeyOfRow(p[i])
  <2>1. i \in 1..N /\ j \in 1..N /\ p[i] = o[i] /\ p[j] = o[j]
    BY <1>1, <1>4
  <2> QED BY <1>2, <1>5, <2>1
<1>6. ASSUME NEW r \in S
      PROVE  \/ \E i \in 1..m : p[i] = r
             \/ m = n /\ n < N /\ \A i \in 1..m : KeyOfRow(r) < KeyOfRow(p[i])
  <2>1. PICK k \in 1..N : o[k] = r
    BY <1>2
  <2>2. CASE k \in 1..m
    BY <1>4, <2>1, <2>2
  <2>3. CASE k \notin 1..m
    <3>1. m = n /\ n < N /\ \A i \in 1..m : i \in 1..N /\ i < k
      BY <1>1, <2>3
    <3> QED BY <1>2, <1>4, <2>1, <3>1
  <2> QED BY <2>2, <2>3
<1> QED BY <1>4, <1>5, <1>6 DEF N, o, p, FirstBy

Count(s, r) == Cardinality({i \in 1..Len(s) : s[i] = r})

(* A page adds each of its rows once. *)
LEMMA CountOn ==
  ASSUME NEW T, NEW s \in Seq(T), NEW p \in Seq(T), NEW r,
         \A i, j \in 1..Len(p) : p[i] = p[j] => i = j
  PROVE  /\ Count(s, r) \in Nat
         /\ (\E i \in 1..Len(p) : p[i] = r) => Count(s \o p, r) = Count(s, r) + 1
         /\ ~(\E i \in 1..Len(p) : p[i] = r) => Count(s \o p, r) = Count(s, r)
<1> DEFINE A == {i \in 1..Len(s) : s[i] = r}
           B == {i \in 1..Len(s \o p) : (s \o p)[i] = r}
<1>1. Len(s) \in Nat /\ Len(p) \in Nat /\ Len(s \o p) = Len(s) + Len(p)
  OBVIOUS
<1>2. /\ \A i \in 1..Len(s) : (s \o p)[i] = s[i]
      /\ \A i \in 1..Len(p) : (s \o p)[Len(s) + i] = p[i]
      /\ \A i \in 1..Len(s \o p) : i \in 1..Len(s) \/ i - Len(s) \in 1..Len(p)
  BY <1>1
<1>3. IsFiniteSet(A) /\ Cardinality(A) \in Nat
  <2>1. IsFiniteSet(1..Len(s))
    BY <1>1, FS_Interval
  <2> QED BY <2>1, FS_Subset, FS_CardinalityType
<1>4. ASSUME NEW k \in 1..Len(p), p[k] = r PROVE Cardinality(B) = Cardinality(A) + 1
  <2>1. B = A \cup {Len(s) + k}
    <3>1. ASSUME NEW i \in B PROVE i \in A \cup {Len(s) + k}
      <4>1. CASE i \in 1..Len(s)
        BY <1>2, <3>1, <4>1
      <4>2. CASE i - Len(s) \in 1..Len(p)
        <5>1. p[i - Len(s)] = r
          <6>1. i = Len(s) + (i - Len(s)) /\ (s \o p)[i] = r
            BY <1>1, <3>1
          <6> QED BY <1>2, <4>2, <6>1
        <5>2. i - Len(s) = k
          BY <1>4, <4>2, <5>1
        <5> QED BY <1>1, <3>1, <5>2
      <4> QED BY <1>2, <3>1, <4>1, <4>2
    <3>2. A \subseteq B
      BY <1>1, <1>2
    <3>3. Len(s) + k \in B
      BY <1>1, <1>2, <1>4
    <3> HIDE DEF A, B
    <3> QED BY <3>1, <3>2, <3>3
  <2>2. Len(s) + k \notin A
    BY <1>1
  <2> HIDE DEF A, B
  <2> QED BY <1>3, <2>1, <2>2, FS_AddElement
<1>5. ASSUME ~(\E k \in 1..Len(p) : p[k] = r) PROVE B = A
  <2>1. ASSUME NEW i \in B PROVE i \in A
    <3>1. CASE i \in 1..Len(s)
      BY <1>2, <2>1, <3>1
    <3>2. CASE i - Len(s) \in 1..Len(p)
      <4>1. i = Len(s) + (i - Len(s)) /\ (s \o p)[i] = r
        BY <1>1, <2>1
      <4> QED BY <1>2, <1>5, <3>2, <4>1
    <3> QED BY <1>2, <2>1, <3>1, <3>2
  <2>2. A \subseteq B
    BY <1>1, <1>2
  <2> HIDE DEF A, B
  <2> QED BY <2>1, <2>2
<1> HIDE DEF A, B
<1>6. Count(s, r) = Cardinality(A) /\ Count(s \o p, r) = Cardinality(B)
  BY DEF Count, A, B
<1> QED BY <1>3, <1>4, <1>5, <1>6

-----------------------------------------------------------------------------
\* The walk has passed the row.
Seen(r) == IF walk = "ended" \/ cursor <= KeyOfRow(r) THEN 1 ELSE 0

\* How often a row may have come again.
Again(r) == IF endpoint.key = "value" THEN drops[r] ELSE 0

PageTypes ==
  /\ Walkable /\ walk \in {"walking", "ended"} /\ offset = 0
  /\ drops \in [RowsOf(endpoint) -> Nat]
  /\ cursor \in Int /\ got \in Seq(RowsOf(endpoint))
  /\ standing \subseteq Matching

(* A row has been returned once if the walk has passed it with the key it still has, not
   at all if it is yet to come, and again at most as often as its value went down; the
   list by amount is one batch. *)
PagesInv ==
  /\ PageTypes
  /\ endpoint.key = "amount" => IF walk = "walking" THEN got = <<>> ELSE \A r \in Valuations : Times(r) <= 1
  /\ endpoint.key # "amount" =>
        \A r \in Rows : /\ Times(r) <= Seen(r) + Again(r)
                        /\ r \in standing => Times(r) = Seen(r)

LEMMA MatchingRows ==
  ASSUME Walkable, NEW S \in SUBSET RowsOf(endpoint)
  PROVE  /\ IsFiniteSet(S) /\ \A r \in S : KeyOfRow(r) \in Int
         /\ \A q, r \in S : KeyOfRow(q) = KeyOfRow(r) => q = r
<1>1. IsFiniteSet(RowsOf(endpoint))
  BY PagesAssumption DEF RowsOf
<1> QED BY <1>1, RowKeys, FS_Subset

LEMMA PageStep ==
  ASSUME PagesInv, AskPage
  PROVE  PagesInv'
<1> DEFINE n == IF endpoint.next = "more" THEN Limit + 1 ELSE Limit
<1>1. PICK fetched \in {FirstOf(InOrder(After), n)} :
        /\ got' = got \o FirstOf(fetched, Limit)
        /\ walk' = IF HasNext(fetched) THEN "walking" ELSE "ended"
        /\ cursor' = IF HasNext(fetched) THEN CursorAt(fetched) ELSE cursor
  BY DEF AskPage
<1>2. /\ endpoint.key # "amount" /\ walk = "walking"
      /\ endpoint' = endpoint /\ value' = value /\ offset' = offset /\ standing' = standing /\ drops' = drops
  BY DEF AskPage
<1>3. /\ Walkable /\ After \subseteq Rows /\ RowsOf(endpoint) = Rows /\ endpoint \in Endpoints
      /\ cursor \in Int /\ got \in Seq(Rows) /\ Limit \in Nat \ {0} /\ n \in Nat /\ Limit <= n
  BY <1>2, RowKeys, PagesAssumption DEF PagesInv, PageTypes, After, Matching, Walkable
<1>4. /\ IsFiniteSet(After) /\ \A r \in After : KeyOfRow(r) \in Int
      /\ \A q, r \in After : KeyOfRow(q) = KeyOfRow(r) => q = r
  BY <1>3, MatchingRows
<1> DEFINE N == Cardinality(After)  page == FirstOf(fetched, Limit)
<1>5. fetched \in Seq(After) /\ Len(fetched) = IF N < n THEN N ELSE n
  <2> HIDE DEF n
  <2>1. FirstBy(After, n, fetched)
    BY <1>3, <1>4, FirstRows
  <2> QED BY <2>1 DEF FirstBy
<1>6. page = FirstOf(InOrder(After), Limit)
  <2> DEFINE o == InOrder(After)
  <2>1. o \in Seq(After) /\ Len(o) = N /\ N \in Nat
    BY <1>4, Ordered, FS_CardinalityType
  <2>2. fetched = FirstOf(o, n)
    OBVIOUS
  <2> HIDE DEF o, n
  <2> QED BY <1>3, <2>1, <2>2, FirstOfFirst DEF o
<1> HIDE DEF page
<1>7. /\ page \in Seq(After) /\ Len(page) = IF N < Limit THEN N ELSE Limit
      /\ \A i, j \in 1..Len(page) : i < j => KeyOfRow(page[j]) < KeyOfRow(page[i])
      /\ \A r \in After : \/ \E i \in 1..Len(page) : page[i] = r
                          \/ Len(page) = Limit /\ Limit < N /\ \A i \in 1..Len(page) : KeyOfRow(r) < KeyOfRow(page[i])
  <2>1. FirstBy(After, Limit, page)
    BY <1>3, <1>4, <1>6, FirstRows
  <2> QED BY <2>1 DEF FirstBy
<1>8. \A i, j \in 1..Len(page) : page[i] = page[j] => i = j
  <2> SUFFICES ASSUME NEW i \in 1..Len(page), NEW j \in 1..Len(page), page[i] = page[j], i < j PROVE FALSE
    OBVIOUS
  <2>1. KeyOfRow(page[j]) < KeyOfRow(page[i]) /\ KeyOfRow(page[i]) \in Int
    BY <1>4, <1>7
  <2> QED BY <2>1
<1> DEFINE In(r) == \E i \in 1..Len(page) : page[i] = r
<1>9. \A r : /\ Times(r) \in Nat
             /\ In(r) => Times(r)' = Times(r) + 1
             /\ ~In(r) => Times(r)' = Times(r)
  <2> SUFFICES ASSUME NEW r
               PROVE  /\ Times(r) \in Nat
                      /\ In(r) => Times(r)' = Times(r) + 1
                      /\ ~In(r) => Times(r)' = Times(r)
    OBVIOUS
  <2>1. page \in Seq(Rows)
    BY <1>3, <1>7
  <2>2. Times(r) = Count(got, r) /\ Times(r)' = Count(got \o page, r)
    BY <1>1 DEF Times, Count, page
  <2> QED BY <1>3, <1>8, <2>1, <2>2, CountOn
<1>10. N \in Nat /\ Len(page) \in Nat
  BY <1>4, <1>7, FS_CardinalityType
<1>11. \A r \in Rows : KeyOfRow(r) \in Int /\ KeyOfRow(r)' = KeyOfRow(r) /\ Again(r)' = Again(r)
  BY <1>2, <1>3, RowKeys DEF KeyOfRow, PlaceOf, Again
<1>12. \A r \in Rows : r \in After <=> value[r] > 0 /\ KeyOfRow(r) < cursor
  BY <1>3 DEF After, Matching, Follows
<1>13. \A r \in standing : r \in Rows /\ value[r] > 0
  BY <1>3 DEF PagesInv, PageTypes, Matching
<1>14. /\ Walkable' /\ offset' = 0 /\ drops' \in [RowsOf(endpoint') -> Nat]
       /\ got' \in Seq(RowsOf(endpoint')) /\ standing' \subseteq Matching'
  <2>1. got' \in Seq(Rows)
    <3>1. page \in Seq(Rows)
      BY <1>3, <1>7
    <3> QED BY <1>1, <1>3, <3>1 DEF page
  <2> QED BY <1>2, <1>3, <2>1 DEF PagesInv, PageTypes, Walkable, RowsOf, ValuesOf, Matching
<1>15. CASE HasNext(fetched)
  <2>1. Len(page) > 0
    BY <1>3, <1>5, <1>7, <1>10, <1>15, EndpointFields, <1>2 DEF HasNext
  <2>2. cursor' = KeyOfRow(page[Len(page)]) /\ walk' = "walking"
    BY <1>1, <1>15 DEF CursorAt, page
  <2>3. page[Len(page)] \in After
    BY <1>7, <1>10, <2>1
  <2>4. cursor' \in Int /\ cursor' < cursor
    BY <1>3, <1>11, <1>12, <2>2, <2>3
  <2>5. \A r \in Rows : In(r) => cursor' <= KeyOfRow(r) /\ KeyOfRow(r) < cursor
    <3> SUFFICES ASSUME NEW i \in 1..Len(page) PROVE cursor' <= KeyOfRow(page[i]) /\ KeyOfRow(page[i]) < cursor
      OBVIOUS
    <3>1. page[i] \in After
      BY <1>7
    <3>2. i = Len(page) \/ KeyOfRow(page[Len(page)]) < KeyOfRow(page[i])
      BY <1>7, <1>10, <2>1
    <3> QED BY <1>3, <1>11, <1>12, <2>2, <2>4, <3>1, <3>2
  <2>6. \A r \in After : ~In(r) => KeyOfRow(r) < cursor'
    BY <1>7, <1>10, <2>1, <2>2
  <2>7. ASSUME NEW r \in Rows
        PROVE  /\ Times(r)' <= Seen(r)' + Again(r)'
               /\ r \in standing' => Times(r)' = Seen(r)'
    <3>1. /\ Seen(r) = IF cursor <= KeyOfRow(r) THEN 1 ELSE 0
          /\ Seen(r)' = IF cursor' <= KeyOfRow(r) THEN 1 ELSE 0
      BY <1>2, <1>11, <2>2 DEF Seen
    <3>2. /\ Times(r) <= Seen(r) + Again(r) /\ Again(r)' = Again(r) /\ Again(r) \in Nat
          /\ r \in standing => Times(r) = Seen(r)
      BY <1>2, <1>3, <1>11 DEF PagesInv, PageTypes, Again
    <3>3. KeyOfRow(r) \in Int /\ cursor \in Int /\ Times(r) \in Nat
      BY <1>3, <1>9, <1>11
    <3>4. CASE In(r)
      BY <1>9, <2>4, <2>5, <3>1, <3>2, <3>3, <3>4, <1>2
    <3>5. CASE ~In(r)
      <4>1. Times(r)' = Times(r)
        BY <1>9, <3>5
      <4>2. r \in standing => (cursor' <= KeyOfRow(r) <=> cursor <= KeyOfRow(r))
        BY <1>12, <1>13, <2>4, <2>6, <3>3, <3>5
      <4>3. Seen(r) <= Seen(r)'
        BY <2>4, <3>1, <3>3
      <4>4. Seen(r) \in Nat /\ Seen(r)' \in Nat
        BY <3>1
      <4> QED BY <1>2, <3>1, <3>2, <3>3, <4>1, <4>2, <4>3, <4>4
    <3> QED BY <3>4, <3>5
  <2>8. cursor' \in Int /\ walk' \in {"walking", "ended"}
    BY <2>2, <2>4
  <2> QED BY <2>7, <2>8, <1>14, <1>2 DEF PagesInv, PageTypes
<1>16. CASE ~HasNext(fetched)
  <2>1. cursor' = cursor /\ walk' = "ended"
    BY <1>1, <1>16
  <2>2. N <= Limit
    BY <1>2, <1>3, <1>5, <1>10, <1>16, EndpointFields DEF HasNext
  <2>3. \A r \in After : In(r)
    BY <1>3, <1>7, <1>10, <2>2
  <2>4. ASSUME NEW r \in Rows
        PROVE  /\ Times(r)' <= Seen(r)' + Again(r)'
               /\ r \in standing' => Times(r)' = Seen(r)'
    <3>1. /\ Seen(r) = IF cursor <= KeyOfRow(r) THEN 1 ELSE 0
          /\ Seen(r)' = 1
      BY <1>2, <2>1 DEF Seen
    <3>2. /\ Times(r) <= Seen(r) + Again(r) /\ Again(r)' = Again(r) /\ Again(r) \in Nat
          /\ r \in standing => Times(r) = Seen(r)
      BY <1>2, <1>3, <1>11 DEF PagesInv, PageTypes, Again
    <3>3. KeyOfRow(r) \in Int /\ cursor \in Int /\ Times(r) \in Nat
      BY <1>3, <1>9, <1>11
    <3>4. CASE In(r)
      <4>1. r \in After
        BY <1>7, <3>4
      <4>2. Seen(r) = 0 /\ Times(r)' = Times(r) + 1
        BY <1>9, <1>12, <3>1, <3>3, <3>4, <4>1
      <4> QED BY <1>2, <3>1, <3>2, <3>3, <4>2
    <3>5. CASE ~In(r)
      <4>1. Times(r)' = Times(r)
        BY <1>9, <3>5
      <4>2. r \in standing => Seen(r) = 1
        BY <1>12, <1>13, <2>3, <3>1, <3>3, <3>5
      <4>3. Seen(r) \in {0, 1}
        BY <3>1
      <4> QED BY <1>2, <3>1, <3>2, <3>3, <4>1, <4>2, <4>3
    <3> QED BY <3>4, <3>5
  <2>5. cursor' \in Int /\ walk' \in {"walking", "ended"}
    BY <1>3, <2>1
  <2> QED BY <2>4, <2>5, <1>14, <1>2 DEF PagesInv, PageTypes
<1> QED BY <1>15, <1>16

-----------------------------------------------------------------------------
(* The list by amount.                                                     *)

\* The rows of S whose event has a row of T.
OfEvents(S, T) == {r \in S : \E q \in T : EventOf[q] = EventOf[r]}

LEMMA FourPerEvent ==
  ASSUME NEW S \in SUBSET Valuations, NEW U \in SUBSET S
  PROVE  Cardinality(OfEvents(S, U)) <= 4 * Cardinality(U)
<1> DEFINE Bad == {T \in SUBSET U : Cardinality(OfEvents(S, T)) > 4 * Cardinality(T)}
<1>1. IsFiniteSet(Valuations) /\ IsFiniteSet(S) /\ IsFiniteSet(U)
  BY PagesAssumption, FS_Subset
<1>2. \A T \in SUBSET U : IsFiniteSet(T) /\ Cardinality(T) \in Nat
  BY <1>1, FS_Subset, FS_CardinalityType
<1>3. \A T : IsFiniteSet(OfEvents(S, T)) /\ Cardinality(OfEvents(S, T)) \in Nat
  BY <1>1, FS_Subset, FS_CardinalityType DEF OfEvents
<1>4. SUFFICES ASSUME Bad # {} PROVE FALSE
  BY <1>1, <1>2, <1>3
<1> DEFINE Sizes == {Cardinality(T) : T \in Bad}
<1>5. Sizes \in SUBSET Nat /\ Sizes # {}
  BY <1>2, <1>4
<1>6. PICK n \in Sizes : \A m \in Sizes : n <= m
  <2> HIDE DEF Sizes
  <2> QED BY <1>5, LeastOf
<1>7. PICK T \in Bad : \A V \in Bad : Cardinality(T) <= Cardinality(V)
  BY <1>6
<1>8. T # {}
  <2> SUFFICES ASSUME T = {} PROVE FALSE
    OBVIOUS
  <2>1. OfEvents(S, T) = {}
    BY DEF OfEvents
  <2> QED BY <1>7, <2>1, FS_EmptySet
<1>9. PICK t \in T : TRUE
  BY <1>8
<1> DEFINE V == T \ {t}
<1>10. V \in SUBSET U /\ Cardinality(V) = Cardinality(T) - 1 /\ Cardinality(T) \in Nat
  BY <1>2, <1>7, <1>9, FS_RemoveElement
<1>11. V \notin Bad /\ Cardinality(V) \in Nat
  BY <1>2, <1>7, <1>10
<1>12. Cardinality(OfEvents(S, V)) <= 4 * Cardinality(V)
  BY <1>2, <1>3, <1>10, <1>11
<1> DEFINE W == {w \in Valuations : EventOf[w] = EventOf[t]}
<1>13. t \in Valuations /\ IsFiniteSet(W) /\ Cardinality(W) \in Nat /\ Cardinality(W) <= 4
  <2>1. t \in Valuations
    BY <1>7, <1>9
  <2>2. IsFiniteSet(W) /\ Cardinality(W) \in Nat
    BY <1>1, FS_Subset, FS_CardinalityType
  <2> QED BY <2>1, <2>2, PagesAssumption
<1> HIDE DEF W, Bad
<1>14. Cardinality(OfEvents(S, V) \cup W) <= Cardinality(OfEvents(S, V)) + Cardinality(W)
       /\ IsFiniteSet(OfEvents(S, V) \cup W)
  <2> DEFINE A == OfEvents(S, V)
  <2>1. IsFiniteSet(A) /\ Cardinality(A) \in Nat
    BY <1>3
  <2> HIDE DEF A
  <2>2. IsFiniteSet(A \cap W)
    BY <2>1, FS_Subset
  <2>3. Cardinality(A \cap W) \in Nat
    BY <2>2, FS_CardinalityType
  <2>4. IsFiniteSet(A \cup W) /\ Cardinality(A \cup W) = Cardinality(A) + Cardinality(W) - Cardinality(A \cap W)
    BY <1>13, <2>1, FS_Union
  <2>5. Cardinality(A \cup W) <= Cardinality(A) + Cardinality(W)
    BY <1>13, <2>1, <2>3, <2>4
  <2> QED BY <2>4, <2>5 DEF A
<1>15. OfEvents(S, T) \subseteq OfEvents(S, V) \cup W
  BY DEF OfEvents, W
<1>16. Cardinality(OfEvents(S, T)) <= Cardinality(OfEvents(S, V) \cup W)
       /\ Cardinality(OfEvents(S, V) \cup W) \in Nat
  BY <1>14, <1>15, FS_Subset, FS_CardinalityType
<1>17. Cardinality(OfEvents(S, T)) > 4 * Cardinality(T)
  BY <1>7 DEF Bad
<1> DEFINE a == Cardinality(OfEvents(S, T))  b == Cardinality(OfEvents(S, V))
           c == Cardinality(OfEvents(S, V) \cup W)  d == Cardinality(T)
<1>18. /\ a \in Nat /\ b \in Nat /\ c \in Nat /\ d \in Nat /\ a <= c /\ c <= b + 4 /\ b <= 4 * (d - 1)
       /\ a > 4 * d
  BY <1>3, <1>10, <1>12, <1>13, <1>14, <1>16, <1>17
<1> HIDE DEF a, b, c, d
<1> QED BY <1>18

\* The first row of each event.
FirstsOf(S) == {r \in S : \A q \in Ahead(S, r) : EventOf[q] # EventOf[r]}

LEMMA EachEventHasFirst ==
  ASSUME Walkable, NEW S \in SUBSET RowsOf(endpoint)
  PROVE  OfEvents(S, FirstsOf(S)) = S
<1> SUFFICES ASSUME NEW r \in S PROVE \E q \in FirstsOf(S) : EventOf[q] = EventOf[r]
  BY DEF OfEvents
<1> DEFINE E == {q \in S : EventOf[q] = EventOf[r]}
<1>1. /\ IsFiniteSet(E) /\ \A q \in E : KeyOfRow(q) \in Int
      /\ \A p, q \in E : KeyOfRow(p) = KeyOfRow(q) => p = q
  BY MatchingRows
<1>2. r \in E /\ E \subseteq S /\ \A q \in S : q \in E <=> EventOf[q] = EventOf[r]
  OBVIOUS
<1> HIDE DEF E
<1> DEFINE f == InOrder(E)[1]  N == Cardinality(E)
<1>3. /\ \A q \in E : \E n \in 1..N : InOrder(E)[n] = q
      /\ \A m, n \in 1..N : m < n => KeyOfRow(InOrder(E)[n]) < KeyOfRow(InOrder(E)[m])
      /\ InOrder(E) \in Seq(E) /\ Len(InOrder(E)) = N /\ N \in Nat
  BY <1>1, Ordered, FS_CardinalityType
<1>4. 1 \in 1..N
  BY <1>2, <1>3
<1>5. f \in E
  BY <1>3, <1>4
<1>6. ASSUME NEW q \in E PROVE ~(KeyOfRow(q) > KeyOfRow(f))
  <2>1. PICK n \in 1..N : InOrder(E)[n] = q
    BY <1>3
  <2>2. CASE n = 1
    BY <1>1, <1>5, <2>1, <2>2
  <2>3. CASE 1 < n
    <3>1. KeyOfRow(q) < KeyOfRow(f)
      BY <1>3, <1>4, <2>1, <2>3
    <3> QED BY <1>1, <1>5, <3>1
  <2> QED BY <1>3, <2>2, <2>3
<1> HIDE DEF f
<1>7. f \in FirstsOf(S) /\ EventOf[f] = EventOf[r]
  BY <1>2, <1>5, <1>6 DEF FirstsOf, Ahead
<1> QED BY <1>7

LEMMA BatchStep ==
  ASSUME PagesInv, AskBatch
  PROVE  PagesInv'
<1>1. PICK top \in {FirstOf(InOrder(Matching), offset + BatchSize)} :
      \E rows \in {SubSeq(top, offset + 1, Len(top))} : \E all \in {NewEvents(got, rows)} :
        /\ got' = all
        /\ walk' = IF Len(all) = Limit \/ Len(rows) < BatchSize THEN "ended" ELSE "walking"
        /\ offset' = IF walk' = "ended" THEN offset ELSE offset + BatchSize
  BY DEF AskBatch
<1>2. PICK rows \in {SubSeq(top, offset + 1, Len(top))} :
        /\ got' = NewEvents(got, rows)
        /\ walk' = IF Len(got') = Limit \/ Len(rows) < BatchSize THEN "ended" ELSE "walking"
        /\ offset' = IF walk' = "ended" THEN offset ELSE offset + BatchSize
  BY <1>1
<1>3. /\ endpoint.key = "amount" /\ walk = "walking" /\ offset = 0 /\ got = <<>>
      /\ endpoint' = endpoint /\ value' = value /\ cursor' = cursor /\ standing' = standing /\ drops' = drops
  BY DEF AskBatch, PagesInv, PageTypes
<1>4. /\ Walkable /\ Matching \subseteq Valuations /\ RowsOf(endpoint) = Valuations
      /\ Limit \in Nat \ {0} /\ BatchSize = 4 * Limit /\ BatchSize \in Nat
  BY <1>3, PagesAssumption DEF PagesInv, PageTypes, Matching, RowsOf, BatchSize
<1>5. top \in Seq(Matching) /\ Len(top) \in Nat /\ \A i, j \in 1..Len(top) : top[i] = top[j] => i = j
  <2>0. /\ IsFiniteSet(Matching) /\ \A r \in Matching : KeyOfRow(r) \in Int
        /\ \A q, r \in Matching : KeyOfRow(q) = KeyOfRow(r) => q = r
    BY <1>4, MatchingRows
  <2>1. FirstBy(Matching, BatchSize, top)
    BY <1>1, <1>3, <1>4, <2>0, FirstRows
  <2>2. top \in Seq(Matching) /\ \A i, j \in 1..Len(top) : i < j => KeyOfRow(top[j]) < KeyOfRow(top[i])
    BY <2>1 DEF FirstBy
  <2>3. ASSUME NEW i \in 1..Len(top), NEW j \in 1..Len(top), i < j, top[i] = top[j] PROVE FALSE
    <3>1. KeyOfRow(top[j]) < KeyOfRow(top[i]) /\ KeyOfRow(top[i]) \in Int
      BY <2>0, <2>2, <2>3
    <3> QED BY <2>3, <3>1
  <2>4. \A i, j \in 1..Len(top) : top[i] = top[j] => i = j
    <3> SUFFICES ASSUME NEW i \in 1..Len(top), NEW j \in 1..Len(top), top[i] = top[j] PROVE i = j
      OBVIOUS
    <3>1. ~(i < j) /\ ~(j < i)
      BY <2>3
    <3> QED BY <3>1
  <2> QED BY <2>2, <2>4
<1>6. rows = top
  <2>1. rows = SubSeq(top, 1, Len(top))
    BY <1>3
  <2> QED BY <1>5, <2>1
<1> DEFINE S == Range(top)
<1>7. /\ S \subseteq Valuations /\ S \subseteq Matching /\ IsFiniteSet(S) /\ Cardinality(S) = Len(top)
  <2>1. S = {top[i] : i \in 1..Len(top)}
    BY <1>5 DEF Range
  <2>2. top \in [1..Len(top) -> S]
    BY <1>5, <2>1
  <2>3. \A t \in S : \E i \in 1..Len(top) : t = top[i]
    BY <2>1
  <2>4. IsFiniteSet(1..Len(top)) /\ Cardinality(1..Len(top)) = Len(top)
    <3> DEFINE l == Len(top)
    <3>1. l \in Nat
      BY <1>5
    <3> HIDE DEF l
    <3>2. IsFiniteSet(1..l) /\ Cardinality(1..l) = IF 1 > l THEN 0 ELSE l - 1 + 1
      BY <3>1, FS_Interval
    <3>3. Cardinality(1..l) = l
      BY <3>1, <3>2
    <3> QED BY <3>2, <3>3 DEF l
  <2>5. S \subseteq Matching
    BY <1>5, <2>1
  <2> HIDE DEF S
  <2>6. IsFiniteSet(S) /\ Cardinality(S) = Cardinality(1..Len(top))
    BY <1>5, <2>2, <2>3, <2>4, ValuesFinite
  <2> QED BY <1>4, <2>4, <2>5, <2>6
<1> HIDE DEF S
<1> DEFINE F == FirstsOf(S)
<1>8. got' = FirstOf(InOrder(F), Limit)
  <2>1. Range(<<>>) = {}
    BY DEF Range
  <2>2. {r \in S : \A q \in Range(<<>>) \cup Ahead(S, r) : EventOf[q] # EventOf[r]} = F
    BY <2>1 DEF FirstsOf
  <2>3. got' = <<>> \o FirstOf(InOrder(F), Limit - Len(<<>>))
    BY <1>2, <1>3, <1>6, <2>2 DEF NewEvents, S
  <2>4. Limit - Len(<<>>) = Limit
    BY <1>4
  <2>5. FirstBy(F, Limit, FirstOf(InOrder(F), Limit))
    <3>1. F \subseteq RowsOf(endpoint)
      BY <1>4, <1>7 DEF FirstsOf
    <3>2. /\ IsFiniteSet(F) /\ \A r \in F : KeyOfRow(r) \in Int
          /\ \A q, r \in F : KeyOfRow(q) = KeyOfRow(r) => q = r
      BY <1>4, <3>1, MatchingRows
    <3> QED BY <1>4, <3>2, FirstRows
  <2>6. FirstOf(InOrder(F), Limit) \in Seq(F)
    BY <2>5 DEF FirstBy
  <2> HIDE DEF F
  <2> QED BY <2>3, <2>4, <2>6
<1>9. F \subseteq S /\ F \subseteq Valuations /\ IsFiniteSet(F) /\ Cardinality(F) \in Nat
  BY <1>7, FS_Subset, FS_CardinalityType DEF FirstsOf
<1>10. FirstBy(F, Limit, got')
  <2>1. /\ IsFiniteSet(F) /\ \A r \in F : KeyOfRow(r) \in Int
        /\ \A q, r \in F : KeyOfRow(q) = KeyOfRow(r) => q = r
    BY <1>4, <1>9, MatchingRows
  <2> QED BY <1>4, <1>8, <2>1, FirstRows
<1>11. Len(top) <= 4 * Cardinality(F)
  <2>1. Cardinality(OfEvents(S, F)) <= 4 * Cardinality(F)
    BY <1>7, <1>9, FourPerEvent
  <2>2. OfEvents(S, F) = S
    BY <1>4, <1>7, EachEventHasFirst
  <2> QED BY <1>7, <2>1, <2>2
<1> HIDE DEF F
<1>12. walk' = "ended"
  <2> SUFFICES ASSUME Len(got') # Limit PROVE Len(top) < BatchSize
    BY <1>2, <1>6
  <2>1. Cardinality(F) < Limit
    BY <1>9, <1>10 DEF FirstBy
  <2> DEFINE c == Cardinality(F)  l == Len(top)
  <2>2. c \in Nat /\ l \in Nat /\ Limit \in Nat /\ c < Limit /\ l <= 4 * c
    BY <1>4, <1>5, <1>9, <1>11, <2>1
  <2> HIDE DEF c, l
  <2>3. l < 4 * Limit
    BY <2>2
  <2> QED BY <1>4, <2>3 DEF l
<1>13. offset' = 0 /\ got' \in Seq(Valuations)
  BY <1>2, <1>3, <1>9, <1>10, <1>12 DEF FirstBy
<1>14. \A r \in Valuations : Times(r)' <= 1
  <2> SUFFICES ASSUME NEW r \in Valuations PROVE Times(r)' <= 1
    OBVIOUS
  <2>0. \A i, j \in 1..Len(got') : i < j => KeyOfRow(got'[j]) < KeyOfRow(got'[i])
    BY <1>10 DEF FirstBy
  <2>1. \A i, j \in 1..Len(got') : got'[i] = got'[j] => i = j
    <3> SUFFICES ASSUME NEW i \in 1..Len(got'), NEW j \in 1..Len(got'), got'[i] = got'[j], i < j PROVE FALSE
      BY <1>13
    <3>1. KeyOfRow(got'[j]) < KeyOfRow(got'[i])
      BY <2>0
    <3>2. got'[i] \in Valuations
      BY <1>13
    <3>3. KeyOfRow(got'[i]) \in Int
      BY <1>4, <3>2, RowKeys
    <3> QED BY <3>1, <3>3
  <2>2. Count(<<>>, r) = 0
    BY FS_EmptySet DEF Count
  <2>3. Count(<<>> \o got', r) <= 1
    <3> DEFINE g == got'
    <3>1. <<>> \in Seq(Valuations) /\ g \in Seq(Valuations)
      BY <1>13
    <3>2. \A i, j \in 1..Len(g) : g[i] = g[j] => i = j
      BY <2>1
    <3> HIDE DEF g
    <3>3. (\E i \in 1..Len(g) : g[i] = r) => Count(<<>> \o g, r) = Count(<<>>, r) + 1
      BY <3>1, <3>2, CountOn
    <3>4. ~(\E i \in 1..Len(g) : g[i] = r) => Count(<<>> \o g, r) = Count(<<>>, r)
      BY <3>1, <3>2, CountOn
    <3>5. Count(<<>> \o g, r) <= 1
      BY <2>2, <3>3, <3>4
    <3> QED BY <3>5 DEF g
  <2>4. Times(r)' = Count(<<>> \o got', r)
    BY <1>13 DEF Times, Count
  <2> QED BY <2>3, <2>4
<1>15. PageTypes'
  BY <1>3, <1>4, <1>12, <1>13 DEF PagesInv, PageTypes, Walkable, RowsOf, ValuesOf, Matching
<1> QED BY <1>3, <1>12, <1>14, <1>15 DEF PagesInv

-----------------------------------------------------------------------------
(* The workers.                                                            *)

LEMMA WriteStep ==
  ASSUME PagesInv, NEW after \in [RowsOf(endpoint) -> ValuesOf(endpoint)], Writes(after)
  PROVE  PagesInv'
<1>1. /\ endpoint' = endpoint /\ cursor' = cursor /\ walk' = walk /\ got' = got /\ offset' = offset
      /\ walk = "walking" /\ value' = after
      /\ standing' = {r \in standing : after[r] = value[r]}
      /\ drops' = [r \in DOMAIN value |-> drops[r] + IF after[r] < value[r] THEN 1 ELSE 0]
  BY DEF Writes
<1>2. /\ Walkable /\ endpoint \in Endpoints /\ DOMAIN value = RowsOf(endpoint) /\ offset = 0
      /\ drops \in [RowsOf(endpoint) -> Nat] /\ cursor \in Int /\ got \in Seq(RowsOf(endpoint))
      /\ standing \subseteq RowsOf(endpoint) /\ \A r \in standing : value[r] > 0
  BY DEF PagesInv, PageTypes, Walkable, Matching
<1>3. Walkable' /\ RowsOf(endpoint)' = RowsOf(endpoint)
  BY <1>1, <1>2 DEF Walkable, RowsOf, ValuesOf
<1>4. PageTypes'
  <2>1. drops' \in [RowsOf(endpoint) -> Nat]
    BY <1>1, <1>2
  <2>2. standing' \subseteq Matching'
    BY <1>1, <1>2, <1>3 DEF Matching
  <2> QED BY <1>1, <1>2, <1>3, <2>1, <2>2 DEF PageTypes
<1>5. CASE endpoint.key = "amount"
  BY <1>1, <1>4, <1>5 DEF PagesInv
<1>6. CASE endpoint.key # "amount"
  <2>1. RowsOf(endpoint) = Rows
    BY <1>6 DEF RowsOf
  <2>2. ASSUME NEW r \in Rows
        PROVE  /\ Times(r)' <= Seen(r)' + Again(r)'
               /\ r \in standing' => Times(r)' = Seen(r)'
    <3>1. /\ Times(r) <= Seen(r) + Again(r)
          /\ r \in standing => Times(r) = Seen(r)
      BY <1>6 DEF PagesInv
    <3>2. Times(r)' = Times(r) /\ Times(r) \in Nat
      <4>1. Times(r) = Count(got, r) /\ Times(r)' = Count(got, r)
        BY <1>1 DEF Times, Count
      <4>2. Count(got, r) \in Nat
        <5>1. <<>> \in Seq(Rows) /\ \A i, j \in 1..Len(<<>>) : <<>>[i] = <<>>[j] => i = j
          OBVIOUS
        <5> QED BY <1>2, <2>1, <5>1, CountOn
      <4> QED BY <4>1, <4>2
    <3>3. KeyOfRow(r) \in Int /\ KeyOfRow(r)' \in Int /\ value[r] \in Nat /\ after[r] \in Nat
      <4>1. KeyOfRow(r) \in Int /\ value[r] \in Nat
        BY <1>2, <2>1, RowKeys
      <4>2. KeyOfRow(r)' \in Int /\ value'[r] \in Nat
        <5>1. ValuesOf(endpoint) \subseteq Nat
          BY PagesAssumption DEF ValuesOf
        <5>2. after[r] \in Nat
          BY <2>1, <5>1
        <5> DEFINE p == IF endpoint.up THEN TieBreak - PlaceOf(r) ELSE PlaceOf(r)
                   v == IF endpoint.key = "value" THEN after[r] * TieBreak ELSE 0
        <5>3. p \in Int /\ v \in Int
          BY <1>6, <5>2, PlacesBound DEF PlaceOf
        <5>4. KeyOfRow(r)' = v + p
          BY <1>1 DEF KeyOfRow, PlaceOf
        <5> HIDE DEF p, v
        <5> QED BY <1>1, <5>2, <5>3, <5>4
      <4> QED BY <1>1, <4>1, <4>2
    <3>4. /\ Seen(r) = IF cursor <= KeyOfRow(r) THEN 1 ELSE 0
          /\ Seen(r)' = IF cursor <= KeyOfRow(r)' THEN 1 ELSE 0
      BY <1>1 DEF Seen
    <3>5. after[r] >= value[r] \/ endpoint.key # "value" => KeyOfRow(r)' >= KeyOfRow(r)
      <4>1. CASE endpoint.key # "value"
        BY <1>1, <3>3, <4>1 DEF KeyOfRow, PlaceOf
      <4>2. CASE endpoint.key = "value" /\ after[r] >= value[r]
        <5> DEFINE p == IF endpoint.up THEN TieBreak - PlaceOf(r) ELSE PlaceOf(r)
                   a == after[r]  v == value[r]  t == TieBreak
        <5>1. KeyOfRow(r) = v * t + p /\ KeyOfRow(r)' = a * t + p
          BY <1>1, <4>2 DEF KeyOfRow, PlaceOf
        <5>2. t \in Nat /\ v \in Nat /\ a \in Nat /\ a >= v
          BY <3>3, <4>2, PlacesBound
        <5>3. p \in Int
          BY <1>6, PlacesBound DEF PlaceOf
        <5> HIDE DEF p, a, v, t
        <5>4. a * t >= v * t /\ a * t \in Nat /\ v * t \in Nat
          BY <5>2, ValueFirst
        <5> QED BY <5>1, <5>3, <5>4
      <4> QED BY <4>1, <4>2
    <3>6. /\ Again(r) \in Nat /\ Again(r)' \in Nat
          /\ Again(r)' = Again(r) + IF endpoint.key = "value" /\ after[r] < value[r] THEN 1 ELSE 0
      BY <1>1, <1>2, <2>1, <3>3 DEF Again
    <3>7. Times(r)' <= Seen(r)' + Again(r)'
      BY <1>2, <3>1, <3>2, <3>3, <3>4, <3>5, <3>6
    <3>8. ASSUME r \in standing' PROVE Times(r)' = Seen(r)'
      <4>1. r \in standing /\ after[r] = value[r]
        BY <1>1, <3>8
      <4>2. KeyOfRow(r)' = KeyOfRow(r)
        BY <1>1, <4>1 DEF KeyOfRow, PlaceOf
      <4> QED BY <3>1, <3>2, <3>4, <4>1, <4>2
    <3> QED BY <3>7, <3>8
  <2> QED BY <1>1, <1>4, <1>6, <2>2 DEF PagesInv
<1> QED BY <1>5, <1>6

LEMMA PagesKept == PagesInv /\ [PageNext]_pageVars => PagesInv'
<1> SUFFICES ASSUME PagesInv, [PageNext]_pageVars PROVE PagesInv'
  OBVIOUS
<1>1. CASE AskPage
  BY <1>1, PageStep
<1>2. CASE AskBatch
  BY <1>2, BatchStep
<1> DEFINE R == RowsOf(endpoint)  V == ValuesOf(endpoint)
<1>3. /\ endpoint \in Endpoints /\ value \in [R -> V] /\ DOMAIN value = R
      /\ endpoint.writer \in {"ledger", "snapshots"} <=> endpoint.key # "value"
  BY EndpointFields DEF PagesInv, PageTypes, Walkable
<1>4. endpoint.writer \in {"ledger", "snapshots"} => V = {0, 1}
  BY <1>3 DEF ValuesOf
<1>5. endpoint.writer \notin {"ledger", "snapshots"} => V = Values
  BY <1>3 DEF ValuesOf
<1> HIDE DEF R, V
<1>6. CASE LedgerChanges
  <2>1. PICK r \in R : Writes([value EXCEPT ![r] = 1 - @])
    BY <1>3, <1>6 DEF LedgerChanges
  <2>2. V = {0, 1}
    BY <1>4, <1>6 DEF LedgerChanges
  <2>3. [value EXCEPT ![r] = 1 - @] \in [R -> V]
    BY <1>3, <2>2
  <2> QED BY <2>1, <2>3, WriteStep DEF R, V
<1>7. CASE RoundAppears
  <2>1. PICK r \in R : Writes([value EXCEPT ![r] = 1])
    BY <1>3, <1>7 DEF RoundAppears
  <2>2. V = {0, 1}
    BY <1>4, <1>7 DEF RoundAppears
  <2>3. [value EXCEPT ![r] = 1] \in [R -> V]
    BY <1>3, <2>2
  <2> QED BY <2>1, <2>3, WriteStep DEF R, V
<1>8. CASE RowUpserted
  <2>1. PICK r \in R, v \in Values : Writes([value EXCEPT ![r] = v])
    BY <1>3, <1>8 DEF RowUpserted
  <2>2. V = Values
    BY <1>5, <1>8 DEF RowUpserted
  <2>3. [value EXCEPT ![r] = v] \in [R -> V]
    BY <1>3, <2>2
  <2> QED BY <2>1, <2>3, WriteStep DEF R, V
<1>9. CASE ViewRefreshed
  <2>1. PICK f \in [R -> Values] : Writes(f)
    BY <1>3, <1>9 DEF ViewRefreshed
  <2>2. V = Values
    BY <1>5, <1>9 DEF ViewRefreshed
  <2> QED BY <2>1, <2>2, WriteStep DEF R, V
<1>10. CASE UNCHANGED pageVars
  BY <1>10 DEF pageVars, PagesInv, PageTypes, Walkable, Matching, Times, Seen, Again, KeyOfRow, PlaceOf
<1> QED BY <1>1, <1>2, <1>6, <1>7, <1>8, <1>9, <1>10 DEF PageNext

LEMMA PagesStart == PageInit => PagesInv
<1> SUFFICES ASSUME PageInit PROVE PagesInv
  OBVIOUS
<1> DEFINE V == ValuesOf(endpoint)
<1>1. /\ endpoint \in Endpoints /\ cursor = Start /\ walk = "walking" /\ got = <<>> /\ offset = 0
      /\ standing = {r \in DOMAIN value : value[r] > 0} /\ drops = [r \in DOMAIN value |-> 0]
  BY DEF PageInit
<1>2. value \in [RowsOf(endpoint) -> V]
  <2>1. CASE endpoint.key = "amount"
    <3>1. value \in [RowsOf(endpoint) -> {1}] /\ 1 \in V
      BY <2>1 DEF PageInit, ValuesOf
    <3> HIDE DEF V
    <3> QED BY <3>1
  <2>2. CASE endpoint.key # "amount"
    BY <2>2 DEF PageInit
  <2> QED BY <2>1, <2>2
<1>3. Walkable
  BY <1>1, <1>2 DEF Walkable
<1>4. PICK m \in Values : \A v \in Values : v <= m
  BY PagesAssumption, GreatestOf
<1>5. (CHOOSE v \in Values : \A w \in Values : w <= v) = m
  <2> DEFINE c == CHOOSE v \in Values : \A w \in Values : w <= v
  <2>1. c \in Values /\ \A w \in Values : w <= c
    BY <1>4
  <2> HIDE DEF c
  <2>2. c <= m /\ m <= c /\ c \in Nat /\ m \in Nat
    BY <1>4, <2>1, PagesAssumption
  <2>3. c = m
    BY <2>2
  <2> QED BY <2>3 DEF c
<1> DEFINE t == TieBreak
<1>6. m \in Nat /\ t \in Nat \ {0} /\ Start = t * (1 + m)
  BY <1>4, <1>5, PlacesBound, PagesAssumption DEF Start
<1>7. Start \in Int
  <2> HIDE DEF t
  <2> QED BY <1>6
<1>8. PageTypes
  BY <1>1, <1>2, <1>3, <1>7 DEF PageTypes, Matching
<1>9. ASSUME endpoint.key # "amount", NEW r \in Rows PROVE KeyOfRow(r) < Start
  <2> DEFINE p == IF endpoint.up THEN t - PlaceOf(r) ELSE PlaceOf(r)
             v == value[r]
  <2>1. p \in Int /\ p < t
    BY <1>9, PlacesBound DEF PlaceOf
  <2>2. endpoint.key = "value" => v \in Nat /\ v <= m
    BY <1>2, <1>4, <1>9, PagesAssumption DEF RowsOf, ValuesOf
  <2>3. KeyOfRow(r) = (IF endpoint.key = "value" THEN v * t ELSE 0) + p
    BY DEF KeyOfRow
  <2> HIDE DEF p, v, t
  <2>4. endpoint.key = "value" => v * t \in Nat /\ v * t <= m * t
    BY <1>6, <2>2, ValueFirst
  <2>5. m * t \in Nat /\ t * (1 + m) = t + m * t
    BY <1>6
  <2> QED BY <1>6, <2>1, <2>3, <2>4, <2>5
<1>10. \A r : Times(r) = 0
  BY <1>1, FS_EmptySet DEF Times
<1>11. ASSUME endpoint.key # "amount", NEW r \in Rows
       PROVE  /\ Times(r) <= Seen(r) + Again(r)
              /\ r \in standing => Times(r) = Seen(r)
  <2>1. KeyOfRow(r) \in Int
    BY <1>3, <1>11, RowKeys
  <2>2. Seen(r) = 0
    BY <1>1, <1>7, <1>9, <1>11, <2>1 DEF Seen
  <2>3. Again(r) = 0
    BY <1>1, <1>2, <1>11 DEF Again, RowsOf
  <2> QED BY <1>10, <2>2, <2>3
<1> QED BY <1>1, <1>8, <1>11 DEF PagesInv

(* THEOREM PagesExact.  Whatever is written during a walk, it returns every row that
   matched all along with its key exactly once, and a row again only where its value went
   down; the list by amount answers from one batch. *)
THEOREM PagesExact == PageSpec => []PagesAreExact
<1>1. PagesInv => PagesAreExact
  <2> SUFFICES ASSUME PagesInv PROVE PagesAreExact
    OBVIOUS
  <2>1. ASSUME walk = "ended", endpoint.key # "amount", NEW r \in standing PROVE Times(r) = 1
    <3>1. r \in Rows
      BY <2>1 DEF PagesInv, PageTypes, Matching, RowsOf
    <3> QED BY <2>1, <3>1 DEF PagesInv, Seen
  <2>2. ASSUME NEW r \in DOMAIN value PROVE Times(r) <= IF endpoint.key = "value" THEN 1 + drops[r] ELSE 1
    <3>1. r \in RowsOf(endpoint) /\ drops \in [RowsOf(endpoint) -> Nat]
      BY DEF PagesInv, PageTypes, Walkable
    <3>2. CASE endpoint.key = "amount"
      <4>1. got = <<>> => Times(r) = 0
        BY FS_EmptySet DEF Times
      <4> QED BY <3>1, <3>2, <4>1 DEF PagesInv, RowsOf
    <3>3. CASE endpoint.key # "amount"
      <4>1. Times(r) <= Seen(r) + Again(r)
        BY <3>1, <3>3 DEF PagesInv, RowsOf
      <4>2. Seen(r) \in {0, 1} /\ Times(r) \in Int
        <5>1. Seen(r) \in {0, 1}
          BY DEF Seen
        <5>2. Times(r) = Count(got, r)
          BY DEF Times, Count
        <5>3. Count(got, r) \in Nat
          <6>1. <<>> \in Seq(RowsOf(endpoint)) /\ \A i, j \in 1..Len(<<>>) : <<>>[i] = <<>>[j] => i = j
            OBVIOUS
          <6> QED BY <6>1, CountOn DEF PagesInv, PageTypes
        <5> QED BY <5>1, <5>2, <5>3
      <4> QED BY <3>1, <4>1, <4>2 DEF Again
    <3> QED BY <3>2, <3>3
  <2>3. offset = 0
    BY DEF PagesInv, PageTypes
  <2> QED BY <2>1, <2>2, <2>3 DEF PagesAreExact
<1> QED BY <1>1, PagesStart, PagesKept, PTL DEF PageSpec

-----------------------------------------------------------------------------
USE RpcAssumption

-----------------------------------------------------------------------------
(* The answers of the RPC layer.                                           *)

\* What a provider ever answers for a key.
MaySay(p, k) ==
  {Answer(k, v) : v \in (IF k \in Lagging THEN {"behind"} ELSE {})
                          \cup (IF k \in disputed /\ p = "b" THEN {"other"} ELSE {"final"})}

Progress == [pc : {"idle", "probing", "task", "global", "sent", "storing", "done", "failed"},
             got : Seq(Answers \cup {Missing, Failed}), sent : Seq(Nat),
             first : Seq(Answers \cup {Failed}), answers : Seq(Answers \cup {Failed}),
             at : Nat \ {0}, provider : {"a", "b"}]

CacheRows == [answer : Answers \cup {Missing}, both : BOOLEAN]

\* A row is empty or has what the archive says of its key, and the second provider too
\* if it was checked against it.
RowFits(k, row) ==
  /\ row \in CacheRows
  /\ row.answer \in MaySay("a", k) \cup {Missing}
  /\ row.answer = Missing => ~row.both
  /\ row.both => row.answer \in MaySay("b", k)

\* What has been read or returned is at the place of its key; while the cache is probed
\* the positions to send are those without a row.
Reads(c, r) ==
  /\ Len(r.got) <= Len(Ask[c])
  /\ r.pc = "idle" => r.got = <<>>
  /\ r.pc \in {"task", "global", "sent", "storing", "done"} => Len(r.got) = Len(Ask[c])
  /\ \A i \in 1..Len(r.got) : r.got[i] \in MaySay("a", Ask[c][i]) \cup {Missing, Failed}
  /\ r.pc \in {"probing", "task", "global", "sent"} => \A i \in 1..Len(r.got) : r.got[i] # Failed
  /\ r.pc \in {"probing", "task", "global", "sent"} =>
        \A i \in 1..Len(r.got) : r.got[i] = Missing => \E j \in 1..Len(r.sent) : r.sent[j] = i
  /\ r.pc = "done" => \A i \in 1..Len(r.got) : r.got[i] \notin {Missing, Failed}

\* The answers are to the keys that were sent, and every place without one is yet to be
\* filled.
Sends(c, r) ==
  /\ \A j \in 1..Len(r.sent) : r.sent[j] \in 1..Len(r.got)
  /\ r.pc \in {"idle", "probing", "task", "global", "sent"} => r.at = 1
  /\ r.provider = "b" =>
        /\ r.pc \notin {"idle", "probing"} /\ kind[c] \in {"cross", "hash"}
        /\ Len(r.first) = Len(r.sent)
        /\ \A j \in 1..Len(r.sent) : r.first[j] \in MaySay("a", Ask[c][r.sent[j]])
  /\ r.pc = "storing" =>
        /\ kind[c] \in {"cross", "hash"} => r.provider = "b"
        /\ Len(r.answers) = Len(r.sent)
        /\ \A j \in 1..Len(r.sent) : r.answers[j] \in MaySay(r.provider, Ask[c][r.sent[j]]) \cup {Failed}
        /\ \A i \in 1..Len(r.got) : r.got[i] = Missing => \E j \in r.at..Len(r.sent) : r.sent[j] = i

CallFits(c, r) == r \in Progress /\ Reads(c, r) /\ Sends(c, r)

\* A caller that uses the cache has nothing the cache lacks.
Held(c, r) ==
  kind[c] # "hash" =>
    \A i \in 1..Len(r.got) : r.got[i] \notin {Missing, Failed} => rpcCache[Ask[c][i]].answer # Missing

\* A replay finds all that a live call returned.
Replays(c) ==
  cacheOnly =>
    /\ call[c].pc \in {"idle", "probing", "done", "failed"}
    /\ kind[c] = "hash" => call[c].pc \in {"done", "failed"}
    /\ liveGot[c] # <<>> =>
         /\ kind[c] # "hash" /\ call[c].pc # "failed"
         /\ call[c].pc # "idle" => call[c].sent = <<>>
         /\ \A i \in 1..Len(Ask[c]) :
              /\ rpcCache[Ask[c][i]].answer # Missing
              /\ liveGot[c][i] \in MaySay("a", Ask[c][i])

RpcInv ==
  /\ kind \in Kinds /\ cacheOnly \in BOOLEAN /\ divergences \subseteq RpcKeys
  /\ rpcCache \in [RpcKeys -> CacheRows] /\ \A k \in RpcKeys : RowFits(k, rpcCache[k])
  /\ DOMAIN call = Callers
  /\ \A c \in Callers : CallFits(c, call[c]) /\ Held(c, call[c]) /\ Replays(c)

LEMMA RpcConstants ==
  /\ \A c \in Callers : Len(Ask[c]) \in Nat /\ \A i \in 1..Len(Ask[c]) : Ask[c][i] \in RpcKeys
  /\ \A p, k : k \in RpcKeys => MaySay(p, k) \subseteq Answers
  /\ \A p, k : Missing \notin MaySay(p, k) /\ Failed \notin MaySay(p, k)
  /\ Missing # Failed /\ Missing \notin Answers /\ Failed \notin Answers
<1>1. \A c \in Callers : Len(Ask[c]) \in Nat /\ \A i \in 1..Len(Ask[c]) : Ask[c][i] \in RpcKeys
  <2>. SUFFICES ASSUME NEW c \in Callers PROVE Len(Ask[c]) \in Nat /\ \A i \in 1..Len(Ask[c]) : Ask[c][i] \in RpcKeys
    OBVIOUS
  <2>1. Ask[c] \in Seq(RpcKeys)
    OBVIOUS
  <2>. QED  BY <2>1
<1>2. \A k, v : Answer(k, v).says = v
  BY DEF Answer
<1>3. Missing.says = "nothing" /\ Failed.says = "error"
  BY <1>2 DEF Missing, Failed
<1>4. \A a \in Answers : a.says \in {"behind", "other", "final"}
  BY <1>2 DEF Answers
<1>5. \A p, k : \A a \in MaySay(p, k) : a.says \in {"behind", "other", "final"}
  BY <1>2 DEF MaySay
<1>6. \A p, k : k \in RpcKeys => MaySay(p, k) \subseteq Answers
  BY DEF MaySay, Answers
<1>. QED  BY <1>1, <1>3, <1>4, <1>5, <1>6

\* A caller goes on: the rows it has found or stored stay, and a replay only reads.
LEMMA CallGoesOn ==
  ASSUME RpcInv, NEW c \in Callers, NEW r, Goes(c, r), CallFits(c, r),
         UNCHANGED <<disputed, kind, cacheOnly, liveGot>>, divergences' \subseteq RpcKeys,
         rpcCache' \in [RpcKeys -> CacheRows],
         \A k \in RpcKeys : /\ RowFits(k, rpcCache'[k])
                            /\ rpcCache[k].answer # Missing => rpcCache'[k].answer # Missing,
         kind[c] # "hash" => \A i \in 1..Len(r.got) : r.got[i] \notin {Missing, Failed} => rpcCache'[Ask[c][i]].answer # Missing,
         cacheOnly => /\ kind[c] # "hash" /\ r.pc \in {"idle", "probing", "done", "failed"}
                      /\ liveGot[c] # <<>> => r.pc # "failed" /\ (r.pc # "idle" => r.sent = <<>>)
  PROVE  RpcInv'
<1>1. \A d \in Callers : call'[d] = IF d = c THEN r ELSE call[d]
  BY DEF Goes, RpcInv
<1>2. DOMAIN call' = Callers
  BY DEF Goes, RpcInv
<1>3. \A p, k : MaySay(p, k)' = MaySay(p, k)
  BY DEF MaySay
<1>4. \A k \in RpcKeys : RowFits(k, rpcCache[k])'
  BY <1>3 DEF RowFits
<1>5. ASSUME NEW d \in Callers PROVE CallFits(d, call[d])'
  <2>1. CallFits(d, call'[d])
    BY <1>1 DEF RpcInv
  <2>. QED  BY <1>3, <2>1 DEF CallFits, Reads, Sends
<1>6. ASSUME NEW d \in Callers PROVE Held(d, call[d])'
  <2>1. CASE d = c
    BY <1>1, <2>1 DEF Held
  <2>2. CASE d # c
    <3>1. Held(d, call[d]) /\ call'[d] = call[d] /\ Len(call[d].got) <= Len(Ask[d])
      BY <1>1, <2>2 DEF RpcInv, CallFits, Reads
    <3>2. \A i \in 1..Len(call[d].got) : Ask[d][i] \in RpcKeys
      <4>1. Len(call[d].got) \in Nat
        BY DEF RpcInv, CallFits, Progress
      <4>. QED  BY <3>1, <4>1, RpcConstants
    <3>. QED  BY <3>1, <3>2 DEF Held
  <2>. QED  BY <2>1, <2>2
<1>7. ASSUME NEW d \in Callers PROVE Replays(d)'
  <2>1. \A i \in 1..Len(Ask[d]) : Ask[d][i] \in RpcKeys
    BY RpcConstants
  <2>2. Replays(d)
    BY DEF RpcInv
  <2>3. CASE d = c
    BY <1>1, <1>3, <2>1, <2>2, <2>3 DEF Replays
  <2>4. CASE d # c
    BY <1>1, <1>3, <2>1, <2>2, <2>4 DEF Replays
  <2>. QED  BY <2>3, <2>4
<1>. QED  BY <1>2, <1>4, <1>5, <1>6, <1>7 DEF RpcInv

\* The same when the cache stays as it is.
LEMMA CallMoves ==
  ASSUME RpcInv, NEW c \in Callers, NEW r, Goes(c, r), CallFits(c, r), Held(c, r),
         UNCHANGED <<disputed, kind, rpcCache, cacheOnly, liveGot>>, divergences' \subseteq RpcKeys,
         cacheOnly => /\ kind[c] # "hash" /\ r.pc \in {"idle", "probing", "done", "failed"}
                      /\ liveGot[c] # <<>> => r.pc # "failed" /\ (r.pc # "idle" => r.sent = <<>>)
  PROVE  RpcInv'
<1>1. /\ rpcCache' \in [RpcKeys -> CacheRows]
      /\ \A k \in RpcKeys : /\ RowFits(k, rpcCache'[k])
                            /\ rpcCache[k].answer # Missing => rpcCache'[k].answer # Missing
  BY DEF RpcInv
<1>2. kind[c] # "hash" => \A i \in 1..Len(r.got) : r.got[i] \notin {Missing, Failed} => rpcCache'[Ask[c][i]].answer # Missing
  BY DEF Held
<1>. QED  BY <1>1, <1>2, CallGoesOn

\* What is known of a caller before it goes on.
LEMMA CallKnown ==
  ASSUME RpcInv, NEW c \in Callers
  PROVE  /\ call[c] \in Progress /\ Reads(c, call[c]) /\ Sends(c, call[c]) /\ Held(c, call[c]) /\ Replays(c)
         /\ Len(call[c].got) \in Nat /\ Len(call[c].sent) \in Nat /\ Len(Ask[c]) \in Nat
         /\ kind[c] \in CallKinds
<1>1. call[c] \in Progress /\ Reads(c, call[c]) /\ Sends(c, call[c]) /\ Held(c, call[c]) /\ Replays(c)
  BY DEF RpcInv, CallFits
<1>2. kind[c] \in CallKinds
  BY DEF RpcInv
<1>. QED  BY <1>1, <1>2, RpcConstants DEF Progress

LEMMA IdleFits == \A c \in Callers : CallFits(c, Idle(c)) /\ Idle(c).pc = "idle" /\ Idle(c).got = <<>>
<1>. SUFFICES ASSUME NEW c \in Callers PROVE CallFits(c, Idle(c)) /\ Idle(c).pc = "idle" /\ Idle(c).got = <<>>
  OBVIOUS
<1>1. Idle(c) \in Progress
  BY DEF Idle, Progress
<1>2. Reads(c, Idle(c)) /\ Sends(c, Idle(c))
  BY RpcConstants DEF Idle, Reads, Sends
<1>. QED  BY <1>1, <1>2 DEF CallFits, Idle

LEMMA RpcStarts == RpcInit => RpcInv
<1>. SUFFICES ASSUME RpcInit PROVE RpcInv
  OBVIOUS
<1>1. \A k \in RpcKeys : RowFits(k, NoRow)
  BY DEF RowFits, NoRow, CacheRows
<1>2. \A c \in Callers : CallFits(c, Idle(c)) /\ Held(c, Idle(c))
  BY IdleFits DEF Held
<1>. QED  BY <1>1, <1>2 DEF RpcInit, RpcInv, Replays, RowFits

LEMMA BeginInv == ASSUME RpcInv, NEW c \in Callers, Begin(c) PROVE RpcInv'
<1>0. /\ call[c].pc = "idle" /\ divergences' \subseteq RpcKeys
      /\ UNCHANGED <<disputed, kind, rpcCache, cacheOnly, liveGot>>
  BY DEF Begin, RpcInv
<1>. DEFINE n == Len(Ask[c])
            blank == [i \in 1..n |-> Missing]
            every == [i \in 1..n |-> i]
            r == IF kind[c] = "hash" THEN [Idle(c) EXCEPT !.pc = "probing", !.got = blank, !.sent = every]
                                     ELSE [Idle(c) EXCEPT !.pc = "probing"]
<1>1. Goes(c, r)
  BY DEF Begin
<1>2. n \in Nat
  BY RpcConstants
<1>3. /\ blank \in Seq(Answers \cup {Missing, Failed}) /\ Len(blank) = n /\ \A i \in 1..n : blank[i] = Missing
      /\ every \in Seq(Nat) /\ Len(every) = n /\ \A i \in 1..n : every[i] = i
  BY <1>2
<1>4. /\ r.pc = "probing" /\ r.provider = "a" /\ r.at = 1 /\ r.first = <<>> /\ r.answers = <<>>
      /\ IF kind[c] = "hash" THEN r.got = blank /\ r.sent = every ELSE r.got = <<>> /\ r.sent = <<>>
  BY DEF Idle
<1>5. r \in Progress
  <2>1. Idle(c) \in Progress
    BY IdleFits DEF CallFits
  <2>. HIDE DEF blank, every
  <2>. QED  BY <1>3, <2>1 DEF Progress
<1>. HIDE DEF r, blank, every, n
<1>6. Reads(c, r)
  BY <1>2, <1>3, <1>4, RpcConstants DEF Reads, n
<1>7. Sends(c, r)
  BY <1>2, <1>3, <1>4 DEF Sends
<1>8. Held(c, r)
  BY <1>4 DEF Held
<1>9. cacheOnly => kind[c] # "hash"
  BY <1>0, CallKnown DEF Replays
<1>. QED  BY <1>0, <1>1, <1>4, <1>5, <1>6, <1>7, <1>8, <1>9, CallMoves DEF CallFits

LEMMA ProbeInv == ASSUME RpcInv, NEW c \in Callers, Probe(c) PROVE RpcInv'
<1>0. /\ call[c].pc = "probing" /\ divergences' \subseteq RpcKeys
      /\ UNCHANGED <<disputed, kind, rpcCache, cacheOnly, liveGot>>
      /\ Len(call[c].got) < Len(Ask[c])
  BY DEF Probe, RpcInv
<1>. DEFINE g == call[c].got
            s == call[c].sent
            i == Len(g) + 1
            row == rpcCache[Ask[c][i]].answer
            found == Append(g, row)
            sent == IF row = Missing THEN Append(s, i) ELSE s
            r == [call[c] EXCEPT !.got = found, !.sent = sent]
<1>1. Goes(c, r)
  BY DEF Probe
<1>2. /\ call[c] \in Progress /\ Reads(c, call[c]) /\ Sends(c, call[c]) /\ Held(c, call[c]) /\ Replays(c)
      /\ Len(g) \in Nat /\ Len(s) \in Nat /\ Len(Ask[c]) \in Nat /\ i \in 1..Len(Ask[c])
      /\ g \in Seq(Answers \cup {Missing, Failed}) /\ s \in Seq(Nat)
  BY <1>0, CallKnown DEF Progress
<1>3. /\ row \in MaySay("a", Ask[c][i]) \cup {Missing} /\ row \in Answers \cup {Missing}
      /\ row # Failed
  <2>1. Ask[c][i] \in RpcKeys
    BY <1>2, RpcConstants
  <2>. QED  BY <2>1, RpcConstants DEF RpcInv, RowFits
<1>4. row = rpcCache[Ask[c][i]].answer
  OBVIOUS
<1>r. /\ \A j \in 1..Len(g) : g[j] \in MaySay("a", Ask[c][j]) \cup {Missing, Failed} /\ g[j] # Failed
      /\ \A j \in 1..Len(g) : g[j] = Missing => \E m \in 1..Len(s) : s[m] = j
  BY <1>0, <1>2 DEF Reads
<1>s. (\A j \in 1..Len(s) : s[j] \in 1..Len(g)) /\ call[c].provider = "a" /\ call[c].at = 1
  BY <1>0, <1>2 DEF Sends, Progress
<1>h. kind[c] # "hash" => \A j \in 1..Len(g) : g[j] \notin {Missing, Failed} => rpcCache[Ask[c][j]].answer # Missing
  BY <1>2 DEF Held
<1>12. cacheOnly => kind[c] # "hash" /\ (liveGot[c] # <<>> => sent = <<>>)
  BY <1>0, <1>2, <1>4 DEF Replays
<1>i. i = Len(g) + 1
  OBVIOUS
<1>. HIDE DEF row, g, s, i
<1>5. /\ found \in Seq(Answers \cup {Missing, Failed}) /\ Len(found) = i
      /\ \A j \in 1..i : found[j] = IF j = i THEN row ELSE g[j]
  BY <1>2, <1>3, <1>i
<1>6. /\ sent \in Seq(Nat) /\ Len(sent) \in {Len(s), Len(s) + 1}
      /\ \A j \in 1..Len(s) : sent[j] = s[j]
      /\ row = Missing => Len(sent) = Len(s) + 1 /\ sent[Len(s) + 1] = i
      /\ row # Missing => sent = s
  BY <1>2, <1>i
<1>7. /\ r.pc = "probing" /\ r.got = found /\ r.sent = sent /\ r.provider = call[c].provider /\ r.first = call[c].first
      /\ r.at = 1
  BY <1>0, <1>2, <1>s DEF Progress
<1>. HIDE DEF found, sent
<1>8. r \in Progress
  BY <1>2, <1>5, <1>6 DEF Progress
<1>. HIDE DEF r
<1>9. Reads(c, r)
  <2>1. \A j \in 1..i : found[j] = Missing => \E m \in 1..Len(sent) : sent[m] = j
    <3>1. ASSUME NEW j \in 1..i, found[j] = Missing, j # i PROVE \E m \in 1..Len(sent) : sent[m] = j
      <4>1. PICK m \in 1..Len(s) : s[m] = j
        <5>1. j \in 1..Len(g) /\ g[j] = Missing
          BY <1>2, <1>5, <1>i, <3>1
        <5>. QED  BY <1>r, <5>1
      <4>2. m \in 1..Len(sent) /\ sent[m] = j
        BY <1>2, <1>6, <4>1, <1>i
      <4>. QED  BY <4>2
    <3>2. found[i] = Missing => \E m \in 1..Len(sent) : sent[m] = i
      BY <1>2, <1>5, <1>6
    <3>. QED  BY <3>1, <3>2
  <2>2. \A j \in 1..i : found[j] \in MaySay("a", Ask[c][j]) \cup {Missing} /\ found[j] # Failed
    BY <1>2, <1>3, <1>5, <1>r, <1>i
  <2>3. r.pc \notin {"idle", "task", "global", "sent", "storing", "done"}
    BY <1>7
  <2>4. Len(r.got) = i /\ i \in Nat /\ i <= Len(Ask[c])
    BY <1>2, <1>5, <1>7
  <2>. QED  BY <1>7, <2>1, <2>2, <2>3, <2>4 DEF Reads
<1>10. Sends(c, r)
  <2>1. \A j \in 1..Len(sent) : sent[j] \in 1..Len(found)
    <3>1. CASE row # Missing
      BY <1>2, <1>5, <1>6, <1>i, <1>s, <3>1
    <3>2. CASE row = Missing
      <4>. SUFFICES ASSUME NEW j \in 1..Len(sent) PROVE sent[j] \in 1..Len(found)
        OBVIOUS
      <4>1. CASE j \in 1..Len(s)
        <5>1. sent[j] \in 1..Len(g)
          BY <1>6, <1>s, <4>1
        <5>. QED  BY <1>2, <1>5, <1>i, <5>1
      <4>2. CASE j \notin 1..Len(s)
        <5>1. j = Len(s) + 1
          BY <1>2, <1>6, <3>2, <4>2
        <5>2. sent[j] = i /\ i \in 1..i
          BY <1>2, <1>6, <3>2, <5>1
        <5>. QED  BY <1>5, <5>2
      <4>. QED  BY <4>1, <4>2
    <3>. QED  BY <3>1, <3>2
  <2>. QED  BY <1>7, <1>s, <2>1 DEF Sends
<1>11. Held(c, r)
  <2>1. ASSUME kind[c] # "hash", NEW j \in 1..Len(found), found[j] \notin {Missing, Failed} PROVE rpcCache[Ask[c][j]].answer # Missing
    <3>1. CASE j = i
      BY <1>2, <1>4, <1>5, <2>1, <3>1
    <3>2. CASE j # i
      <4>1. j \in 1..Len(g) /\ found[j] = g[j]
        BY <1>2, <1>5, <1>i, <3>2
      <4>. QED  BY <1>h, <2>1, <4>1
    <3>. QED  BY <3>1, <3>2
  <2>. QED  BY <1>7, <2>1 DEF Held
<1>. QED  BY <1>0, <1>1, <1>7, <1>8, <1>9, <1>10, <1>11, <1>12, CallMoves DEF CallFits

\* A caller outside the replay, of which every step but a probe is.
LEMMA OnlyLive ==
  ASSUME RpcInv, NEW c \in Callers, call[c].pc \in {"task", "global", "sent", "storing"}
  PROVE  ~cacheOnly
BY CallKnown DEF Replays

\* A step that ends a call, or takes it on to a permit, changes nothing else of it.
LEMMA PcMoves ==
  ASSUME RpcInv, NEW c \in Callers, NEW p \in {"task", "global", "sent", "done", "failed"},
         Goes(c, [call[c] EXCEPT !.pc = p]),
         UNCHANGED <<disputed, kind, rpcCache, cacheOnly, liveGot>>, divergences' \subseteq RpcKeys,
         p \in {"task", "global", "sent"} =>
            /\ call[c].pc \in {"probing", "task", "global"} /\ ~cacheOnly /\ Len(call[c].got) = Len(Ask[c])
            /\ call[c].provider = "a" \/ call[c].pc # "probing",
         p = "done" => Len(call[c].got) = Len(Ask[c]) /\ \A i \in 1..Len(call[c].got) : call[c].got[i] \notin {Missing, Failed},
         cacheOnly => kind[c] # "hash" /\ (liveGot[c] # <<>> => p # "failed" /\ call[c].sent = <<>>)
  PROVE  RpcInv'
<1>. DEFINE r == [call[c] EXCEPT !.pc = p]
<1>1. call[c] \in Progress /\ Reads(c, call[c]) /\ Sends(c, call[c]) /\ Held(c, call[c]) /\ Len(call[c].got) \in Nat
  BY CallKnown
<1>2. /\ r \in Progress /\ r.pc = p /\ r.got = call[c].got /\ r.sent = call[c].sent /\ r.provider = call[c].provider
      /\ r.first = call[c].first /\ r.at = call[c].at
  BY <1>1 DEF Progress
<1>3. Goes(c, r)
  OBVIOUS
<1>. HIDE DEF r
<1>4. Reads(c, r)
  BY <1>1, <1>2 DEF Reads
<1>5. Sends(c, r)
  BY <1>1, <1>2 DEF Sends
<1>6. Held(c, r)
  BY <1>1, <1>2 DEF Held
<1>. QED  BY <1>2, <1>3, <1>4, <1>5, <1>6, CallMoves DEF CallFits

LEMMA ProbedInv == ASSUME RpcInv, NEW c \in Callers, Probed(c) PROVE RpcInv'
<1>0. /\ call[c].pc = "probing" /\ Len(call[c].got) = Len(Ask[c]) /\ divergences' \subseteq RpcKeys
      /\ UNCHANGED <<disputed, kind, rpcCache, cacheOnly, liveGot>>
  BY DEF Probed, RpcInv
<1>1. call[c] \in Progress /\ Reads(c, call[c]) /\ Sends(c, call[c]) /\ Replays(c) /\ Len(call[c].sent) \in Nat
  BY CallKnown
<1>2. call[c].provider = "a" /\ (cacheOnly => kind[c] # "hash" /\ (liveGot[c] # <<>> => call[c].sent = <<>>))
  BY <1>0, <1>1 DEF Sends, Progress, Replays
<1>3. call[c].sent = <<>> => \A i \in 1..Len(call[c].got) : call[c].got[i] \notin {Missing, Failed}
  BY <1>0, <1>1 DEF Reads
<1>4. CASE call[c].sent # <<>> /\ ~cacheOnly
  <2>1. Enqueue(c, call[c])
    BY <1>4 DEF Probed
  <2>2. \E p \in {"task", "global"} : Goes(c, [call[c] EXCEPT !.pc = p])
    BY <2>1 DEF Enqueue
  <2>. QED  BY <1>0, <1>2, <1>4, <2>2, PcMoves
<1>5. CASE ~(call[c].sent # <<>> /\ ~cacheOnly)
  <2>1. Goes(c, [call[c] EXCEPT !.pc = IF call[c].sent = <<>> THEN "done" ELSE "failed"])
    BY <1>5 DEF Probed
  <2>2. CASE call[c].sent = <<>>
    <3>1. Goes(c, [call[c] EXCEPT !.pc = "done"])
      BY <2>1, <2>2
    <3>. QED  BY <1>0, <1>2, <1>3, <2>2, <3>1, PcMoves
  <2>3. CASE call[c].sent # <<>>
    <3>1. Goes(c, [call[c] EXCEPT !.pc = "failed"])
      BY <2>1, <2>3
    <3>. QED  BY <1>0, <1>2, <2>3, <3>1, PcMoves
  <2>. QED  BY <2>2, <2>3
<1>. QED  BY <1>4, <1>5

LEMMA TakeInv == ASSUME RpcInv, NEW c \in Callers, TakeTask(c) \/ TakeGlobal(c) PROVE RpcInv'
<1>0. /\ call[c].pc \in {"task", "global"} /\ divergences' \subseteq RpcKeys
      /\ UNCHANGED <<disputed, kind, rpcCache, cacheOnly, liveGot>>
  BY DEF TakeTask, TakeGlobal, RpcInv
<1>1. Len(call[c].got) = Len(Ask[c]) /\ ~cacheOnly
  BY <1>0, CallKnown, OnlyLive DEF Reads
<1>2. \E p \in {"global", "sent"} : Goes(c, [call[c] EXCEPT !.pc = p])
  BY DEF TakeTask, TakeGlobal
<1>. QED  BY <1>0, <1>1, <1>2, PcMoves

LEMMA FailInv ==
  ASSUME RpcInv, NEW c \in Callers, Timeout(c) \/ Diverge(c) \/ StoreFails(c)
  PROVE  RpcInv'
<1>1. /\ call[c].pc \in {"sent", "storing"} /\ Goes(c, [call[c] EXCEPT !.pc = "failed"])
      /\ UNCHANGED <<disputed, kind, rpcCache, cacheOnly, liveGot>>
  BY DEF Timeout, Diverge, StoreFails
<1>2. divergences' \subseteq RpcKeys
  BY DEF Timeout, Diverge, StoreFails, RpcInv, RpcKeys
<1>. QED  BY <1>1, <1>2, OnlyLive, PcMoves

LEMMA RetryInv == ASSUME RpcInv, NEW c \in Callers, Retry(c) PROVE RpcInv'
<1>1. /\ Goes(c, Idle(c)) /\ ~cacheOnly /\ divergences' \subseteq RpcKeys
      /\ UNCHANGED <<disputed, kind, rpcCache, cacheOnly, liveGot>>
  BY DEF Retry, RpcInv
<1>2. Held(c, Idle(c))
  BY IdleFits DEF Held
<1>. QED  BY <1>1, <1>2, IdleFits, CallMoves

LEMMA ListOf ==
  ASSUME NEW S, NEW n \in Nat, NEW f \in [1..n -> S]
  PROVE  f \in Seq(S) /\ Len(f) = n
OBVIOUS

\* The body of each place is an answer to the key that was sent at that place.
LEMMA Placed ==
  ASSUME RpcInv, NEW c \in Callers, NEW response \in Responses(c)
  PROVE  LET n == Len(call[c].sent)
         IN /\ ById(n, response) \in Seq(Answers \cup {Failed}) /\ Len(ById(n, response)) = n
            /\ \A i \in 1..n : ById(n, response)[i] \in MaySay(call[c].provider, Ask[c][call[c].sent[i]]) \cup {Failed}
            /\ Failed \notin ToSet(ById(n, response)) => \A i \in 1..n : ById(n, response)[i] # Failed
<1>. DEFINE n == Len(call[c].sent)
            key(i) == Ask[c][call[c].sent[i]]
            placed == ById(n, response)
<1>1. /\ n \in Nat /\ call[c].provider \in {"a", "b"}
      /\ \A i \in 1..n : call[c].sent[i] \in 1..Len(Ask[c])
  BY CallKnown DEF Progress, Reads, Sends
<1>2. \A i \in 1..n : key(i) \in RpcKeys
  BY <1>1, RpcConstants
<1>3. \A i \in 1..n : NodeSays(call[c].provider, key(i)) \in MaySay(call[c].provider, key(i))
  BY DEF NodeSays, MaySay
<1>4. PICK o \in Orders(n), b \in {b \in [1..n -> UNION {Bodies(c, i) : i \in 1..n}] : \A i \in 1..n : b[i] \in Bodies(c, i)} :
         response = [j \in DOMAIN o |-> [id |-> o[j], body |-> b[o[j]]]]
  BY DEF Responses
<1>o. (\A j \in DOMAIN o : o[j] \in 1..n) /\ \A i \in 1..n : b[i] \in {NodeSays(call[c].provider, key(i)), Failed}
  <2>1. PICK m \in 0..n : o \in [1..m -> 1..n]
    BY DEF Orders
  <2>2. \A i \in 1..n : b[i] \in Bodies(c, i)
    OBVIOUS
  <2>. QED  BY <2>1, <2>2 DEF Bodies
<1>5. ASSUME NEW e \in ToSet(response) PROVE e.id \in 1..n /\ e.body \in {NodeSays(call[c].provider, key(e.id)), Failed}
  <2>1. PICK j \in DOMAIN o : e = [id |-> o[j], body |-> b[o[j]]]
    BY <1>4 DEF ToSet
  <2>2. o[j] \in 1..n /\ e.id = o[j] /\ e.body = b[o[j]]
    BY <1>o, <2>1
  <2>. QED  BY <1>o, <2>2
<1>6. placed = [i \in 1..n |-> IF \E e \in ToSet(response) : e.id = i
                               THEN (CHOOSE e \in ToSet(response) : e.id = i).body ELSE Failed]
  BY DEF ById
<1>7. ASSUME NEW i \in 1..n PROVE placed[i] \in MaySay(call[c].provider, key(i)) \cup {Failed}
  <2>1. CASE \E e \in ToSet(response) : e.id = i
    <3>1. PICK e : e = CHOOSE x \in ToSet(response) : x.id = i
      OBVIOUS
    <3>2. e \in ToSet(response) /\ e.id = i
      BY <2>1, <3>1
    <3>3. placed[i] = e.body
      BY <1>6, <2>1, <3>1
    <3>. QED  BY <1>3, <1>5, <3>2, <3>3
  <2>2. CASE ~\E e \in ToSet(response) : e.id = i
    BY <1>6, <2>2
  <2>. QED  BY <2>1, <2>2
<1>8. \A i \in 1..n : placed[i] \in Answers \cup {Failed}
  BY <1>2, <1>7, RpcConstants
<1>9. DOMAIN placed = 1..n
  BY <1>6
<1>10. placed \in Seq(Answers \cup {Failed}) /\ Len(placed) = n
  <2>1. placed \in [1..n -> Answers \cup {Failed}]
    <3>1. placed = [i \in 1..n |-> placed[i]]
      BY <1>6
    <3>. HIDE DEF placed, n
    <3>. QED  BY <1>8, <3>1
  <2>. HIDE DEF placed, n
  <2>. QED  BY <1>1, <2>1, ListOf
<1>11. Failed \notin ToSet(placed) => \A i \in 1..n : placed[i] # Failed
  BY <1>9 DEF ToSet
<1>. QED  BY <1>7, <1>10, <1>11

LEMMA RespondInv == ASSUME RpcInv, NEW c \in Callers, Respond(c) PROVE RpcInv'
<1>0. /\ call[c].pc = "sent" /\ divergences' \subseteq RpcKeys
      /\ UNCHANGED <<disputed, kind, rpcCache, cacheOnly, liveGot>>
  BY DEF Respond, RpcInv
<1>1. /\ call[c] \in Progress /\ Reads(c, call[c]) /\ Sends(c, call[c]) /\ Held(c, call[c]) /\ ~cacheOnly
      /\ Len(call[c].got) = Len(Ask[c]) /\ Len(call[c].got) \in Nat /\ Len(call[c].sent) \in Nat
  BY <1>0, CallKnown, OnlyLive DEF Reads
<1>. DEFINE n == Len(call[c].sent)
            key(i) == Ask[c][call[c].sent[i]]
<1>2. PICK response \in Responses(c) :
         LET placed == ById(n, response)
             faulty == Failed \in ToSet(placed)
         IN CASE faulty /\ kind[c] \notin {"batch", "multi"} ->
                    /\ Goes(c, [call[c] EXCEPT !.pc = "failed"])
                    /\ UNCHANGED <<taskQueue, globalQueue>>
              [] ~faulty /\ kind[c] \in {"cross", "hash"} /\ call[c].provider = "a" ->
                    Enqueue(c, [call[c] EXCEPT !.first = placed, !.provider = "b"])
              [] OTHER ->
                    /\ Goes(c, [call[c] EXCEPT !.pc = "storing", !.answers = placed])
                    /\ UNCHANGED <<taskQueue, globalQueue>>
  BY DEF Respond
<1>3. PICK placed : placed = ById(n, response)
  OBVIOUS
<1>4. /\ placed \in Seq(Answers \cup {Failed}) /\ Len(placed) = n
      /\ \A i \in 1..n : placed[i] \in MaySay(call[c].provider, key(i)) \cup {Failed}
      /\ Failed \notin ToSet(placed) => \A i \in 1..n : placed[i] # Failed
  BY <1>3, Placed
<1>5. CASE Failed \in ToSet(placed) /\ kind[c] \notin {"batch", "multi"}
  <2>1. Goes(c, [call[c] EXCEPT !.pc = "failed"])
    BY <1>2, <1>3, <1>5
  <2>. QED  BY <1>0, <1>1, <2>1, PcMoves
<1>6. CASE Failed \notin ToSet(placed) /\ kind[c] \in {"cross", "hash"} /\ call[c].provider = "a"
  <2>1. Enqueue(c, [call[c] EXCEPT !.first = placed, !.provider = "b"])
    BY <1>2, <1>3, <1>6
  <2>2. PICK p \in {"task", "global"} : Goes(c, [[call[c] EXCEPT !.first = placed, !.provider = "b"] EXCEPT !.pc = p])
    BY <2>1 DEF Enqueue
  <2>. DEFINE r == [[call[c] EXCEPT !.first = placed, !.provider = "b"] EXCEPT !.pc = p]
  <2>3. /\ r \in Progress /\ r.pc = p /\ r.got = call[c].got /\ r.sent = call[c].sent /\ r.provider = "b"
        /\ r.first = placed /\ r.at = call[c].at
    BY <1>1, <1>4 DEF Progress
  <2>4. Goes(c, r)
    BY <2>2
  <2>. HIDE DEF r
  <2>5. Reads(c, r)
    BY <1>0, <1>1, <2>3 DEF Reads
  <2>6. Sends(c, r)
    BY <1>0, <1>1, <1>4, <1>6, <2>3 DEF Sends
  <2>7. Held(c, r)
    BY <1>1, <2>3 DEF Held
  <2>. QED  BY <1>0, <1>1, <2>4, <2>3, <2>5, <2>6, <2>7, CallMoves DEF CallFits
<1>7. CASE /\ ~(Failed \in ToSet(placed) /\ kind[c] \notin {"batch", "multi"})
           /\ ~(Failed \notin ToSet(placed) /\ kind[c] \in {"cross", "hash"} /\ call[c].provider = "a")
  <2>. DEFINE r == [call[c] EXCEPT !.pc = "storing", !.answers = placed]
  <2>1. Goes(c, r)
    BY <1>2, <1>3, <1>7
  <2>2. kind[c] \in {"cross", "hash"} => call[c].provider = "b"
    BY <1>1, <1>7 DEF Progress
  <2>3. /\ r \in Progress /\ r.pc = "storing" /\ r.got = call[c].got /\ r.sent = call[c].sent
        /\ r.provider = call[c].provider /\ r.first = call[c].first /\ r.answers = placed /\ r.at = call[c].at
    BY <1>1, <1>4 DEF Progress
  <2>. HIDE DEF r
  <2>5. Reads(c, r)
    BY <1>0, <1>1, <2>3 DEF Reads
  <2>6. Sends(c, r)
    <3>1. \A i \in 1..Len(r.got) : r.got[i] = Missing => \E j \in 1..Len(r.sent) : r.sent[j] = i
      BY <1>0, <1>1, <2>3 DEF Reads
    <3>2. r.at = 1
      BY <1>0, <1>1, <2>3 DEF Sends
    <3>. QED  BY <1>0, <1>1, <1>4, <2>2, <2>3, <3>1, <3>2 DEF Sends
  <2>7. Held(c, r)
    BY <1>1, <2>3 DEF Held
  <2>. QED  BY <1>0, <1>1, <2>1, <2>3, <2>5, <2>6, <2>7, CallMoves DEF CallFits
<1>. QED  BY <1>5, <1>6, <1>7

\* Entries agreed on are stored at their keys and come to their places.
LEMMA StoreInv == ASSUME RpcInv, NEW c \in Callers, Store(c) PROVE RpcInv'
<1>. DEFINE j == call[c].at
            body == call[c].answers[j]
            m == call[c].sent[j]
            k == Ask[c][m]
<1>0. /\ call[c].pc = "storing" /\ Agree(c) /\ j <= Len(call[c].answers) /\ divergences' \subseteq RpcKeys
      /\ UNCHANGED <<disputed, kind, cacheOnly, liveGot>>
  BY DEF Store, RpcInv
<1>1. /\ call[c] \in Progress /\ Reads(c, call[c]) /\ Sends(c, call[c]) /\ Held(c, call[c]) /\ ~cacheOnly
      /\ Len(call[c].got) = Len(Ask[c]) /\ Len(call[c].got) \in Nat /\ Len(call[c].sent) \in Nat
      /\ j \in Nat \ {0} /\ call[c].got \in Seq(Answers \cup {Missing, Failed}) /\ kind[c] \in CallKinds
  BY <1>0, CallKnown, OnlyLive DEF Reads, Progress
<1>2. j \in 1..Len(call[c].sent) /\ m \in 1..Len(Ask[c]) /\ k \in RpcKeys
  BY <1>0, <1>1, RpcConstants DEF Sends
<1>3. body \in MaySay(call[c].provider, k) \cup {Failed} /\ body \in Answers \cup {Failed} /\ body # Missing
  <2>1. body \in MaySay(call[c].provider, k) \cup {Failed}
    BY <1>0, <1>1, <1>2 DEF Sends
  <2>. HIDE DEF body, k
  <2>. QED  BY <1>2, <2>1, RpcConstants
<1>4. body # Failed => body \in MaySay("a", k)
  <2>1. CASE call[c].provider = "a"
    BY <1>3, <2>1
  <2>2. CASE call[c].provider = "b"
    BY <1>0, <1>1, <1>2, <2>2 DEF Agree, Sends
  <2>. QED  BY <1>1, <2>1, <2>2 DEF Progress
<1>5. kind[c] = "cross" /\ body # Failed => body \in MaySay("b", k)
  BY <1>0, <1>1, <1>3 DEF Sends
<1>6. CASE body = Failed /\ kind[c] = "multi"
  <2>1. Goes(c, [call[c] EXCEPT !.pc = "failed"]) /\ rpcCache' = rpcCache
    BY <1>6 DEF Store
  <2>. QED  BY <1>0, <1>1, <2>1, PcMoves
<1>7. CASE ~(body = Failed /\ kind[c] = "multi")
  <2>. DEFINE found == [call[c].got EXCEPT ![m] = body]
              r == [call[c] EXCEPT !.got = found, !.at = j + 1]
              row == [answer |-> body, both |-> kind[c] = "cross"]
  <2>1. /\ Goes(c, r)
        /\ rpcCache' = IF body = Failed \/ kind[c] = "hash" THEN rpcCache ELSE Insert(k, row)
    BY <1>7 DEF Store, KeyOf
  <2>2. /\ found \in Seq(Answers \cup {Missing, Failed}) /\ Len(found) = Len(Ask[c])
        /\ \A i \in 1..Len(Ask[c]) : found[i] = IF i = m THEN body ELSE call[c].got[i]
    <3>. HIDE DEF body, m
    <3>. QED  BY <1>1, <1>2, <1>3
  <2>3. /\ r.pc = "storing" /\ r.got = found /\ r.sent = call[c].sent /\ r.at = j + 1
        /\ r.provider = call[c].provider /\ r.first = call[c].first /\ r.answers = call[c].answers
    BY <1>0, <1>1 DEF Progress
  <2>. HIDE DEF found
  <2>4. r \in Progress
    <3>1. j + 1 \in Nat \ {0}
      BY <1>1
    <3>. HIDE DEF j
    <3>. QED  BY <1>1, <2>2, <3>1 DEF Progress
  <2>5. DOMAIN rpcCache' = RpcKeys /\ \A q \in RpcKeys : rpcCache'[q] = IF q = k /\ rpcCache[k] = NoRow /\ body # Failed /\ kind[c] # "hash" THEN row ELSE rpcCache[q]
    BY <1>2, <2>1 DEF Insert, RpcInv
  <2>6. RowFits(k, row) \/ body = Failed
    <3>1. row \in CacheRows \/ body = Failed
      <4>. HIDE DEF body
      <4>. QED  BY <1>3 DEF CacheRows
    <3>. HIDE DEF body, k
    <3>. QED  BY <1>3, <1>4, <1>5, <3>1 DEF RowFits
  <2>f. rpcCache' \in [RpcKeys -> CacheRows]
    <3>1. CASE body = Failed \/ kind[c] = "hash" \/ rpcCache[k] # NoRow
      <4>1. rpcCache' = rpcCache
        BY <2>1, <3>1 DEF Insert
      <4>. QED  BY <4>1 DEF RpcInv
    <3>2. CASE ~(body = Failed \/ kind[c] = "hash" \/ rpcCache[k] # NoRow)
      <4>1. rpcCache' = [rpcCache EXCEPT ![k] = row]
        BY <2>1, <3>2 DEF Insert
      <4>2. row \in CacheRows
        BY <2>6, <3>2 DEF RowFits
      <4>. HIDE DEF row, k
      <4>. QED  BY <4>1, <4>2 DEF RpcInv
    <3>. QED  BY <3>1, <3>2
  <2>7. row.answer = body
    OBVIOUS
  <2>8. \A q \in RpcKeys : /\ RowFits(q, rpcCache'[q])
                           /\ rpcCache[q].answer # Missing => rpcCache'[q].answer # Missing
    <3>1. \A q \in RpcKeys : RowFits(q, rpcCache[q])
      BY DEF RpcInv
    <3>. HIDE DEF row, body, k
    <3>. QED  BY <1>3, <2>5, <2>6, <2>7, <3>1
  <2>9. kind[c] # "hash" /\ body # Failed => rpcCache'[k].answer # Missing
    <3>1. rpcCache[k] # NoRow => rpcCache[k].answer # Missing
      <4>1. RowFits(k, rpcCache[k])
        BY <1>2 DEF RpcInv
      <4>. QED  BY <4>1 DEF RowFits, NoRow, CacheRows
    <3>. HIDE DEF row, body, k
    <3>. QED  BY <1>2, <1>3, <2>5, <2>7, <3>1
  <2>. HIDE DEF r, row
  <2>10. Reads(c, r)
    <3>1. \A i \in 1..Len(Ask[c]) : found[i] \in MaySay("a", Ask[c][i]) \cup {Missing, Failed}
      BY <1>1, <1>4, <2>2 DEF Reads
    <3>. QED  BY <1>1, <2>2, <2>3, <3>1 DEF Reads
  <2>11. Sends(c, r)
    <3>1. ASSUME NEW i \in 1..Len(Ask[c]), found[i] = Missing PROVE \E l \in (j + 1)..Len(call[c].sent) : call[c].sent[l] = i
      <4>1. i # m /\ call[c].got[i] = Missing
        BY <1>3, <2>2, <3>1
      <4>2. PICK l \in j..Len(call[c].sent) : call[c].sent[l] = i
        BY <1>0, <1>1, <4>1 DEF Sends
      <4>3. l # j
        BY <4>1, <4>2
      <4>. QED  BY <1>1, <4>2, <4>3
    <3>2. \A l \in 1..Len(call[c].sent) : call[c].sent[l] \in 1..Len(found)
      BY <1>1, <2>2 DEF Sends
    <3>3. r.provider = "b" =>
            /\ kind[c] \in {"cross", "hash"} /\ Len(r.first) = Len(r.sent)
            /\ \A l \in 1..Len(r.sent) : r.first[l] \in MaySay("a", Ask[c][r.sent[l]])
      BY <1>1, <2>3 DEF Sends
    <3>4. /\ kind[c] \in {"cross", "hash"} => r.provider = "b"
          /\ Len(r.answers) = Len(r.sent)
          /\ \A l \in 1..Len(r.sent) : r.answers[l] \in MaySay(r.provider, Ask[c][r.sent[l]]) \cup {Failed}
      BY <1>0, <1>1, <2>3 DEF Sends
    <3>5. \A i \in 1..Len(r.got) : r.got[i] = Missing => \E l \in r.at..Len(r.sent) : r.sent[l] = i
      BY <2>2, <2>3, <3>1
    <3>. HIDE DEF j
    <3>. QED  BY <2>3, <3>2, <3>3, <3>4, <3>5 DEF Sends
  <2>12. kind[c] # "hash" => \A i \in 1..Len(r.got) : r.got[i] \notin {Missing, Failed} => rpcCache'[Ask[c][i]].answer # Missing
    <3>. SUFFICES ASSUME kind[c] # "hash", NEW i \in 1..Len(Ask[c]), found[i] \notin {Missing, Failed}
                  PROVE  rpcCache'[Ask[c][i]].answer # Missing
      BY <2>2, <2>3
    <3>1. CASE i = m
      BY <2>2, <2>9, <3>1
    <3>2. CASE i # m
      <4>1. rpcCache[Ask[c][i]].answer # Missing
        BY <1>1, <2>2, <3>2 DEF Held
      <4>. QED  BY <2>8, <4>1, RpcConstants
    <3>. QED  BY <3>1, <3>2
  <2>. QED  BY <1>0, <1>1, <2>1, <2>3, <2>4, <2>f, <2>8, <2>10, <2>11, <2>12, CallGoesOn DEF CallFits
<1>. QED  BY <1>6, <1>7

LEMMA ReturnInv == ASSUME RpcInv, NEW c \in Callers, Return(c) PROVE RpcInv'
<1>0. /\ call[c].pc = "storing" /\ call[c].at > Len(call[c].answers) /\ divergences' \subseteq RpcKeys
      /\ UNCHANGED <<disputed, kind, rpcCache, cacheOnly, liveGot>>
      /\ Goes(c, [call[c] EXCEPT !.pc = IF Failed \in ToSet(call[c].got) THEN "failed" ELSE "done"])
  BY DEF Return, RpcInv
<1>1. /\ call[c] \in Progress /\ Reads(c, call[c]) /\ Sends(c, call[c]) /\ ~cacheOnly
      /\ Len(call[c].got) = Len(Ask[c]) /\ Len(call[c].sent) \in Nat /\ call[c].at \in Nat
      /\ call[c].got \in Seq(Answers \cup {Missing, Failed})
  BY <1>0, CallKnown, OnlyLive DEF Reads, Progress
<1>2. \A i \in 1..Len(call[c].got) : call[c].got[i] # Missing
  BY <1>0, <1>1 DEF Sends
<1>3. CASE Failed \in ToSet(call[c].got)
  <2>1. Goes(c, [call[c] EXCEPT !.pc = "failed"])
    BY <1>0, <1>3
  <2>. QED  BY <1>0, <1>1, <2>1, PcMoves
<1>4. CASE Failed \notin ToSet(call[c].got)
  <2>1. Goes(c, [call[c] EXCEPT !.pc = "done"])
    BY <1>0, <1>4
  <2>2. \A i \in 1..Len(call[c].got) : call[c].got[i] # Failed
    BY <1>1, <1>4 DEF ToSet
  <2>. QED  BY <1>0, <1>1, <1>2, <2>1, <2>2, PcMoves
<1>. QED  BY <1>3, <1>4

\* A replay starts when every call is done, or has failed on a disagreement.
LEMMA StartReplayInv == ASSUME RpcInv, StartReplay PROVE RpcInv'
<1>0. /\ UNCHANGED <<disputed, kind, rpcCache, divergences>> /\ cacheOnly' = TRUE
      /\ liveGot' = [c \in Callers |-> IF call[c].pc = "done" /\ kind[c] # "hash" THEN call[c].got ELSE <<>>]
      /\ call' = [c \in Callers |-> IF kind[c] = "hash" THEN call[c] ELSE Idle(c)]
      /\ \A c \in Callers : call[c].pc \in {"done", "failed"}
  BY DEF StartReplay, Settled
<1>1. \A p, k : MaySay(p, k)' = MaySay(p, k)
  BY <1>0 DEF MaySay
<1>2. ASSUME NEW c \in Callers PROVE CallFits(c, call[c])' /\ Held(c, call[c])'
  <2>1. CallFits(c, call'[c]) /\ Held(c, call'[c])
    BY <1>0, IdleFits DEF RpcInv, Held
  <2>. QED  BY <1>0, <1>1, <2>1 DEF CallFits, Reads, Sends, Held
<1>3. ASSUME NEW c \in Callers PROVE Replays(c)'
  <2>1. /\ call'[c].pc \in {"idle", "done", "failed"} /\ (kind[c] = "hash" => call'[c].pc \in {"done", "failed"})
        /\ kind[c] # "hash" => call'[c].pc = "idle"
    BY <1>0, IdleFits
  <2>2. ASSUME liveGot'[c] # <<>> PROVE kind[c] # "hash" /\ call[c].pc = "done" /\ liveGot'[c] = call[c].got
    BY <1>0, <2>2
  <2>3. ASSUME liveGot'[c] # <<>>, NEW i \in 1..Len(Ask[c])
        PROVE  rpcCache[Ask[c][i]].answer # Missing /\ liveGot'[c][i] \in MaySay("a", Ask[c][i])
    BY <2>2, <2>3, CallKnown DEF Reads, Held
  <2>. QED  BY <1>0, <1>1, <2>1, <2>2, <2>3 DEF Replays
<1>. QED  BY <1>0, <1>1, <1>2, <1>3 DEF RpcInv, RowFits

LEMMA RpcStep == RpcInv /\ [RpcNext]_rpcVars => RpcInv'
<1>. SUFFICES ASSUME RpcInv, [RpcNext]_rpcVars PROVE RpcInv'
  OBVIOUS
<1>1. ASSUME UNCHANGED <<disputed, kind, rpcCache, divergences, call, cacheOnly, liveGot>> PROVE RpcInv'
  BY <1>1 DEF RpcInv, CallFits, Reads, Sends, Held, Replays, RowFits, MaySay
<1>2. ASSUME NEW c \in Callers, CallStep(c) PROVE RpcInv'
  BY <1>2, BeginInv, ProbeInv, ProbedInv, TakeInv, RespondInv, FailInv, StoreInv, ReturnInv, RetryInv DEF CallStep
<1>3. CASE NodeSyncs \/ UNCHANGED rpcVars
  BY <1>1, <1>3 DEF NodeSyncs, rpcVars
<1>4. CASE StartReplay
  BY <1>4, StartReplayInv
<1>. QED  BY <1>2, <1>3, <1>4 DEF RpcNext

\* No more calls are in flight than there are permits, of each task and of the process.
Permits ==
  /\ Cardinality(InFlight) <= GlobalLimit
  /\ \A t \in TaskLabels : Cardinality({c \in Callers : HoldsTask(c) /\ Task[c] = t}) <= TaskLimit[t]

\* A caller that goes on without a new permit.
LEMMA PermitsLast ==
  ASSUME Permits, InFlight' \subseteq InFlight, \A c \in Callers : HoldsTask(c)' => HoldsTask(c)
  PROVE  Permits'
<1>. DEFINE H(t) == {c \in Callers : HoldsTask(c) /\ Task[c] = t}
<1>1. Cardinality(InFlight') <= Cardinality(InFlight) /\ Cardinality(InFlight) \in Nat /\ Cardinality(InFlight') \in Nat
  BY FS_Subset, FS_CardinalityType DEF InFlight
<1>2. ASSUME NEW t \in TaskLabels PROVE Cardinality(H(t)') <= TaskLimit[t]
  <2>1. H(t)' \subseteq H(t) /\ IsFiniteSet(H(t))
    BY FS_Subset
  <2>2. Cardinality(H(t)') <= Cardinality(H(t)) /\ Cardinality(H(t)) \in Nat /\ Cardinality(H(t)') \in Nat
    BY <2>1, FS_Subset, FS_CardinalityType
  <2>3. Cardinality(H(t)) <= TaskLimit[t]
    BY DEF Permits
  <2>. QED  BY <2>2, <2>3
<1>. QED  BY <1>1, <1>2 DEF Permits

LEMMA PermitsGo ==
  ASSUME Permits, DOMAIN call = Callers, NEW c \in Callers, NEW r, Goes(c, r), r.pc # "sent",
         r.pc = "global" => Task[c] = NoTask
  PROVE  Permits'
<1>1. \A d \in Callers : call'[d] = IF d = c THEN r ELSE call[d]
  BY DEF Goes
<1>2. InFlight' \subseteq InFlight /\ \A d \in Callers : HoldsTask(d)' => HoldsTask(d)
  BY <1>1 DEF InFlight, HoldsTask
<1>. QED  BY <1>2, PermitsLast

LEMMA OnePermitMore ==
  ASSUME NEW S \in SUBSET Callers, NEW T, NEW c \in Callers, T \subseteq S \cup {c}, NEW n \in Nat,
         Cardinality(S) < n
  PROVE  Cardinality(T) <= n
<1>1. IsFiniteSet(S) /\ IsFiniteSet(S \cup {c}) /\ Cardinality(S) \in Nat
  BY FS_Subset, FS_AddElement, FS_CardinalityType
<1>2. Cardinality(S \cup {c}) <= Cardinality(S) + 1 /\ Cardinality(S \cup {c}) \in Nat
  <2>1. CASE c \in S
    <3>1. S \cup {c} = S
      BY <2>1
    <3>2. Cardinality(S \cup {c}) = Cardinality(S)
      BY <3>1
    <3>. QED  BY <1>1, <3>2
  <2>2. CASE c \notin S
    <3>1. Cardinality(S \cup {c}) = Cardinality(S) + 1
      BY <1>1, <2>2, FS_AddElement
    <3>. QED  BY <1>1, <3>1
  <2>. QED  BY <2>1, <2>2
<1>3. Cardinality(T) <= Cardinality(S \cup {c}) /\ Cardinality(T) \in Nat
  BY <1>1, FS_Subset, FS_CardinalityType
<1>. QED  BY <1>1, <1>2, <1>3

LEMMA PermitsStep == RpcInv /\ Permits /\ [RpcNext]_rpcVars => Permits'
<1>. SUFFICES ASSUME RpcInv, Permits, [RpcNext]_rpcVars PROVE Permits'
  OBVIOUS
<1>0. DOMAIN call = Callers /\ \A c \in Callers : call[c] \in Progress
  BY DEF RpcInv, CallFits
<1>m. ASSUME NEW c \in Callers, NEW p \in STRING PROVE [call[c] EXCEPT !.pc = p].pc = p
  BY <1>0 DEF Progress
<1>1. ASSUME UNCHANGED call PROVE Permits'
  BY <1>1 DEF Permits, InFlight, HoldsTask
<1>2. ASSUME NEW c \in Callers, NEW rec, Enqueue(c, rec), rec \in Progress PROVE Permits'
  <2>1. CASE Task[c] = NoTask
    <3>1. Goes(c, [rec EXCEPT !.pc = "global"]) /\ [rec EXCEPT !.pc = "global"].pc = "global"
      BY <1>2, <2>1 DEF Enqueue, Progress
    <3>. QED  BY <1>0, <2>1, <3>1, PermitsGo
  <2>2. CASE Task[c] # NoTask
    <3>1. Goes(c, [rec EXCEPT !.pc = "task"]) /\ [rec EXCEPT !.pc = "task"].pc = "task"
      BY <1>2, <2>2 DEF Enqueue, Progress
    <3>. QED  BY <1>0, <3>1, PermitsGo
  <2>. QED  BY <2>1, <2>2
<1>3. ASSUME NEW c \in Callers, NEW p \in {"done", "failed"}, Goes(c, [call[c] EXCEPT !.pc = p]) PROVE Permits'
  <2>1. [call[c] EXCEPT !.pc = p].pc = p /\ p # "sent" /\ p # "global"
    BY <1>m
  <2>. QED  BY <1>0, <1>3, <2>1, PermitsGo
<1>4. ASSUME NEW c \in Callers, Begin(c) \/ Probe(c) \/ Retry(c) PROVE Permits'
  <2>1. \E r : Goes(c, r) /\ r.pc \in {"idle", "probing"}
    <3>1. CASE Begin(c)
      <4>. DEFINE n == Len(Ask[c])
                  r == [Idle(c) EXCEPT !.pc = "probing", !.got = [i \in 1..n |-> Missing], !.sent = [i \in 1..n |-> i]]
                  q == [Idle(c) EXCEPT !.pc = "probing"]
      <4>1. Goes(c, r) \/ Goes(c, q)
        BY <3>1 DEF Begin
      <4>2. r.pc = "probing" /\ q.pc = "probing"
        BY DEF Idle
      <4>. HIDE DEF r, q
      <4>. QED  BY <4>1, <4>2
    <3>2. CASE Probe(c)
      <4>. DEFINE i == Len(call[c].got) + 1
                  row == rpcCache[Ask[c][i]].answer
                  r == [call[c] EXCEPT !.got = Append(@, row), !.sent = IF row = Missing THEN Append(@, i) ELSE @]
      <4>1. Goes(c, r) /\ call[c].pc = "probing"
        BY <3>2 DEF Probe
      <4>2. r.pc = "probing"
        BY <1>0, <4>1 DEF Progress
      <4>. QED  BY <4>1, <4>2
    <3>3. CASE Retry(c)
      BY <3>3 DEF Retry, Idle
    <3>. QED  BY <1>4, <3>1, <3>2, <3>3
  <2>. QED  BY <1>0, <2>1, PermitsGo
<1>5. ASSUME NEW c \in Callers, Probed(c) PROVE Permits'
  <2>1. \/ Enqueue(c, call[c])
        \/ \E p \in {"done", "failed"} : Goes(c, [call[c] EXCEPT !.pc = p])
    BY <1>5 DEF Probed
  <2>. QED  BY <1>0, <1>2, <1>3, <2>1
<1>6. ASSUME NEW c \in Callers, Respond(c) PROVE Permits'
  <2>1. PICK response \in Responses(c) : 
            \/ Goes(c, [call[c] EXCEPT !.pc = "failed"])
            \/ /\ Enqueue(c, [call[c] EXCEPT !.first = ById(Len(call[c].sent), response), !.provider = "b"])
            \/ Goes(c, [call[c] EXCEPT !.pc = "storing", !.answers = ById(Len(call[c].sent), response)])
    BY <1>6 DEF Respond
  <2>2. PICK placed \in Seq(Answers \cup {Failed}) : placed = ById(Len(call[c].sent), response)
    BY Placed
  <2>3. /\ [call[c] EXCEPT !.first = placed, !.provider = "b"] \in Progress
        /\ [call[c] EXCEPT !.pc = "storing", !.answers = placed].pc = "storing"
    BY <1>0 DEF Progress
  <2>4. CASE Goes(c, [call[c] EXCEPT !.pc = "failed"])
    BY <1>3, <2>4
  <2>5. CASE Enqueue(c, [call[c] EXCEPT !.first = placed, !.provider = "b"])
    BY <1>2, <2>3, <2>5
  <2>6. CASE Goes(c, [call[c] EXCEPT !.pc = "storing", !.answers = placed])
    BY <1>0, <2>3, <2>6, PermitsGo
  <2>. QED  BY <2>1, <2>2, <2>4, <2>5, <2>6
<1>7. ASSUME NEW c \in Callers, Store(c) PROVE Permits'
  <2>1. CASE Goes(c, [call[c] EXCEPT !.pc = "failed"])
    BY <1>3, <2>1
  <2>2. CASE \E found : Goes(c, [call[c] EXCEPT !.got = found, !.at = call[c].at + 1])
    <3>1. PICK found : Goes(c, [call[c] EXCEPT !.got = found, !.at = call[c].at + 1])
      BY <2>2
    <3>2. [call[c] EXCEPT !.got = found, !.at = call[c].at + 1].pc = call[c].pc /\ call[c].pc = "storing"
      BY <1>0, <1>7 DEF Progress, Store
    <3>. QED  BY <1>0, <3>1, <3>2, PermitsGo
  <2>. QED  BY <1>7, <2>1, <2>2 DEF Store
<1>8. ASSUME NEW c \in Callers, Return(c) \/ Timeout(c) \/ Diverge(c) \/ StoreFails(c) PROVE Permits'
  <2>1. \E p \in {"done", "failed"} : Goes(c, [call[c] EXCEPT !.pc = p])
    BY <1>8 DEF Return, Timeout, Diverge, StoreFails
  <2>. QED  BY <1>3, <2>1
<1>9. ASSUME NEW c \in Callers, TakeTask(c) PROVE Permits'
  <2>1. \A d \in Callers : call'[d].pc = IF d = c THEN "global" ELSE call[d].pc
    BY <1>0, <1>9, <1>m DEF TakeTask, Goes
  <2>2. InFlight' \subseteq InFlight
    BY <2>1 DEF InFlight
  <2>3. Cardinality(InFlight') <= GlobalLimit
    <3>1. IsFiniteSet(InFlight)
      BY FS_Subset DEF InFlight
    <3>. QED  BY <2>2, <3>1, FS_Subset, FS_CardinalityType DEF Permits
  <2>4. ASSUME NEW t \in TaskLabels PROVE Cardinality({d \in Callers : HoldsTask(d)' /\ Task[d] = t}) <= TaskLimit[t]
    <3>. DEFINE S == {d \in Callers : HoldsTask(d) /\ Task[d] = t}
                T == {d \in Callers : HoldsTask(d)' /\ Task[d] = t}
    <3>1. CASE t = Task[c]
      <4>1. T \subseteq S \cup {c} /\ S \in SUBSET Callers
        BY <2>1 DEF HoldsTask
      <4>2. Cardinality(S) < TaskLimit[t] /\ TaskLimit[t] \in Nat
        BY <1>9, <3>1 DEF TakeTask
      <4>. HIDE DEF S, T
      <4>3. Cardinality(T) <= TaskLimit[t]
        BY <4>1, <4>2, OnePermitMore
      <4>. QED  BY <4>3 DEF T
    <3>2. CASE t # Task[c]
      <4>1. T \subseteq S /\ IsFiniteSet(S)
        BY <2>1, <3>2, FS_Subset DEF HoldsTask
      <4>2. Cardinality(S) <= TaskLimit[t] /\ TaskLimit[t] \in Nat
        BY DEF Permits
      <4>. HIDE DEF S, T
      <4>3. Cardinality(T) <= TaskLimit[t]
        BY <4>1, <4>2, FS_Subset, FS_CardinalityType
      <4>. QED  BY <4>3 DEF T
    <3>. QED  BY <3>1, <3>2
  <2>. QED  BY <2>3, <2>4 DEF Permits
<1>10. ASSUME NEW c \in Callers, TakeGlobal(c) PROVE Permits'
  <2>1. \A d \in Callers : call'[d].pc = IF d = c THEN "sent" ELSE call[d].pc
    BY <1>0, <1>10, <1>m DEF TakeGlobal, Goes
  <2>2. call[c].pc = "global" /\ Cardinality(InFlight) < GlobalLimit
    BY <1>10 DEF TakeGlobal
  <2>3. InFlight' \subseteq InFlight \cup {c} /\ InFlight \in SUBSET Callers
    BY <2>1 DEF InFlight
  <2>4. Cardinality(InFlight') <= GlobalLimit
    BY <2>2, <2>3, OnePermitMore
  <2>5. \A d \in Callers : HoldsTask(d)' <=> HoldsTask(d)
    BY <2>1, <2>2 DEF HoldsTask
  <2>. QED  BY <2>4, <2>5 DEF Permits
<1>11. CASE StartReplay
  <2>1. \A d \in Callers : call'[d].pc \in {"idle", call[d].pc}
    BY <1>11 DEF StartReplay, Idle
  <2>2. InFlight' \subseteq InFlight /\ \A d \in Callers : HoldsTask(d)' => HoldsTask(d)
    BY <2>1 DEF InFlight, HoldsTask
  <2>. QED  BY <2>2, PermitsLast
<1>. QED
  BY <1>1, <1>4, <1>5, <1>6, <1>7, <1>8, <1>9, <1>10, <1>11 DEF RpcNext, CallStep, NodeSyncs, rpcVars

LEMMA PermitsStart == RpcInit => Permits
<1>. SUFFICES ASSUME RpcInit PROVE Permits
  OBVIOUS
<1>1. \A c \in Callers : call[c].pc = "idle"
  BY IdleFits DEF RpcInit
<1>2. InFlight = {} /\ \A t \in TaskLabels : {c \in Callers : HoldsTask(c) /\ Task[c] = t} = {}
  BY <1>1 DEF InFlight, HoldsTask
<1>3. Cardinality(InFlight) = 0 /\ \A t \in TaskLabels : Cardinality({c \in Callers : HoldsTask(c) /\ Task[c] = t}) = 0
  BY <1>2, FS_EmptySet
<1>. QED  BY <1>3 DEF Permits

LEMMA RpcTypes == RpcInv /\ Permits => RpcTypeOK
<1>. SUFFICES ASSUME RpcInv, Permits PROVE RpcTypeOK
  OBVIOUS
<1>1. rpcCache \in [RpcKeys -> [answer : Answers \cup {Missing}, both : BOOLEAN]]
  BY DEF RpcInv, CacheRows
<1>2. ASSUME NEW c \in Callers PROVE ToSet(call[c].got) \subseteq Answers \cup {Missing, Failed}
  <2>1. call[c].got \in Seq(Answers \cup {Missing, Failed})
    BY CallKnown DEF Progress
  <2>. QED  BY <2>1 DEF ToSet
<1>. QED  BY <1>1, <1>2 DEF RpcTypeOK, RpcInv, Permits

LEMMA AnswersOfKeys == RpcInv => AnswersMatchRequests
<1>. SUFFICES ASSUME RpcInv PROVE AnswersMatchRequests
  OBVIOUS
<1>1. \A k, v : Answer(k, v).key = k /\ Answer(k, v).says = v
  BY DEF Answer
<1>2. Missing.key = NoKey /\ Failed.key = NoKey
  BY <1>1 DEF Missing, Failed
<1>3. \A p, k : \A a \in MaySay(p, k) : a.key = k
  BY <1>1 DEF MaySay
<1>4. ASSUME NEW k \in RpcKeys
      PROVE  /\ rpcCache[k].answer.key \in {k, NoKey}
             /\ rpcCache[k].both => /\ rpcCache[k].answer.says # "other"
                                    /\ k \in disputed => rpcCache[k].answer.says = "behind"
  <2>. DEFINE a == rpcCache[k].answer
  <2>1. /\ a \in MaySay("a", k) \cup {Missing}
        /\ rpcCache[k].both => a \in MaySay("a", k) /\ a \in MaySay("b", k)
    BY DEF RpcInv, RowFits
  <2>. HIDE DEF a
  <2>2. a \in MaySay("a", k) => a.says \in {"behind", "final"}
    BY <1>1 DEF MaySay
  <2>3. a \in MaySay("b", k) /\ k \in disputed => a.says \in {"behind", "other"}
    BY <1>1 DEF MaySay
  <2>4. a.key \in {k, NoKey}
    BY <1>2, <1>3, <2>1
  <2>5. rpcCache[k].both => a.says # "other" /\ (k \in disputed => a.says = "behind")
    BY <2>1, <2>2, <2>3
  <2>. QED  BY <2>4, <2>5 DEF a
<1>5. ASSUME NEW c \in Callers, NEW i \in 1..Len(call[c].got) PROVE call[c].got[i].key \in {Ask[c][i], NoKey}
  <2>1. call[c].got[i] \in MaySay("a", Ask[c][i]) \cup {Missing, Failed}
    BY CallKnown DEF Reads
  <2>. QED  BY <1>2, <1>3, <2>1
<1>. QED  BY <1>4, <1>5 DEF AnswersMatchRequests

\* A replay is never without the row of a live answer, and the archive says one thing of
\* a key that does not lag.
LEMMA ReplayedAnswers == RpcInv => ReplaySeesLiveBytes
<1>. SUFFICES ASSUME RpcInv, cacheOnly, NEW c \in Callers, liveGot[c] # <<>>
              PROVE  /\ call[c].pc # "failed"
                     /\ \A i \in 1..Len(call[c].got) : Ask[c][i] \notin Lagging => call[c].got[i] = liveGot[c][i]
  BY DEF ReplaySeesLiveBytes
<1>1. /\ Reads(c, call[c]) /\ Replays(c) /\ call[c] \in Progress
      /\ Len(call[c].got) \in Nat /\ Len(Ask[c]) \in Nat
  BY CallKnown
<1>2. call[c].pc \in {"idle", "probing", "done"}
  BY <1>1 DEF Replays
<1>3. ASSUME NEW i \in 1..Len(call[c].got), Ask[c][i] \notin Lagging PROVE call[c].got[i] = liveGot[c][i]
  <2>1. i \in 1..Len(Ask[c])
    BY <1>1 DEF Reads
  <2>2. \A a, b \in MaySay("a", Ask[c][i]) : a = b
    BY <1>3 DEF MaySay
  <2>3. liveGot[c][i] \in MaySay("a", Ask[c][i])
    BY <1>1, <2>1 DEF Replays
  <2>4. call[c].got[i] \in MaySay("a", Ask[c][i]) \cup {Missing, Failed}
    BY <1>1 DEF Reads
  <2>5. call[c].got[i] \notin {Missing, Failed}
    <3>1. CASE call[c].pc = "done"
      BY <1>1, <3>1 DEF Reads
    <3>2. CASE call[c].pc = "probing"
      <4>1. call[c].sent = <<>>
        BY <1>1, <3>2 DEF Replays
      <4>. QED  BY <1>1, <3>2, <4>1 DEF Reads
    <3>3. CASE call[c].pc = "idle"
      BY <1>1, <3>3 DEF Reads
    <3>. QED  BY <1>2, <3>1, <3>2, <3>3
  <2>. QED  BY <2>2, <2>3, <2>4, <2>5
<1>. QED  BY <1>2, <1>3

(* THEOREM AnswersAreTheirs.  What the cache holds and what a call returns is what a
   provider answered for that key, however the entries of a response were permuted or
   dropped and whoever stored first; a cross-checked row holds what both said. *)
THEOREM AnswersAreTheirs == RpcSpec => []AnswersMatchRequests
BY RpcStarts, RpcStep, AnswersOfKeys, PTL DEF RpcSpec

(* THEOREM ReplayIsLive.  A replay finds every answer a live call returned, and the same
   one unless the node itself had changed it in between. *)
THEOREM ReplayIsLive == RpcSpec => []ReplaySeesLiveBytes
BY RpcStarts, RpcStep, ReplayedAnswers, PTL DEF RpcSpec

-----------------------------------------------------------------------------
(* The supervisors of the daemon.                                          *)
HIDE RpcAssumption
USE DaemonAssumption

SupervisorTypes ==
  /\ consecutive \in [Tasks -> Nat] /\ barren \in [Tasks -> Nat]
  /\ progress \in [Tasks -> BOOLEAN] /\ DOMAIN up = Tasks
  /\ loop \in [Tasks -> {"running", "hung", "backoff", "stopped"}]
  /\ process = "gate" => \A t \in Tasks : loop[t] = "stopped"

(* The supervisor counts from the first death after a beat, which it does not
   count itself: it is at most one behind the deaths since that beat. *)
Counts(t) ==
  /\ loop[t] \in {"running", "hung"} /\ progress[t] => barren[t] = 0
  /\ loop[t] = "backoff" \/ ~progress[t] => barren[t] \in {consecutive[t], consecutive[t] + 1}

(* The gauge follows the counter at each death. *)
Gauges(t) ==
  /\ loop[t] = "backoff" => (up[t] <=> consecutive[t] <= MaxConsecutive)
  /\ barren[t] > MaxConsecutive + 1 => ~up[t]

EscalationInv == SupervisorTypes /\ (process # "gate" => \A t \in Tasks : Counts(t) /\ Gauges(t))

(* Without a fault every loop runs, and a gated one beats in time. *)
BeatInv ==
  /\ deaths \in Nat /\ DOMAIN age = Tasks
  /\ \A t \in Gated : age[t] \in Nat
  /\ deaths = 0 /\ process = "up" /\ ~shutdown =>
       /\ \A t \in Tasks : loop[t] = "running" /\ up[t]
       /\ \A t \in Gated : age[t] <= Period[t]

-----------------------------------------------------------------------------
(* Only a task's own steps touch its supervisor, once the daemon is up. *)
LEMMA SameSupervisors ==
  ASSUME EscalationInv, UNCHANGED <<process, loop, consecutive, progress, up, barren>>
  PROVE  EscalationInv'
BY DEF EscalationInv, SupervisorTypes, Counts, Gauges

LEMMA OneSupervisor ==
  ASSUME EscalationInv, NEW t \in Tasks, SupervisorTypes', process = "up", process' = "up",
         \A u \in Tasks \ {t} : /\ loop'[u] = loop[u] /\ consecutive'[u] = consecutive[u]
                                /\ progress'[u] = progress[u] /\ up'[u] = up[u] /\ barren'[u] = barren[u],
         (Counts(t) /\ Gauges(t))'
  PROVE  EscalationInv'
<1>1. ASSUME NEW u \in Tasks PROVE Counts(u)' /\ Gauges(u)'
  <2>1. CASE u = t
    BY <2>1
  <2>2. CASE u # t
    BY <2>2 DEF EscalationInv, Counts, Gauges
  <2> QED BY <2>1, <2>2
<1> QED BY <1>1 DEF EscalationInv

LEMMA EscalationStep == EscalationInv /\ [DaemonNext]_daemonVars => EscalationInv'
<1> SUFFICES ASSUME EscalationInv, [DaemonNext]_daemonVars PROVE EscalationInv'
  OBVIOUS
<1> USE DEF EscalationInv
<1>1. CASE PassGate
  BY <1>1 DEF PassGate, Fresh, SupervisorTypes, Counts, Gauges
<1>2. CASE OperatorBackfill \/ Tick \/ Signal
  BY <1>2, SameSupervisors DEF OperatorBackfill, Tick, Signal
<1>3. CASE Exit
  BY <1>3 DEF Exit, SupervisorTypes, Counts, Gauges
<1>4. CASE Restart
  BY <1>4 DEF Restart, SupervisorTypes
<1>5. ASSUME NEW t \in Tasks, Iterate(t) PROVE EscalationInv'
  <2>1. process = "up" /\ process' = "up" /\ loop[t] = "running" /\ UNCHANGED <<loop, consecutive, up>>
    BY <1>5 DEF Iterate
  <2>2. progress' = [progress EXCEPT ![t] = TRUE] /\ barren' = [barren EXCEPT ![t] = 0]
    BY <1>5 DEF Iterate
  <2>3. SupervisorTypes'
    BY <2>1, <2>2 DEF SupervisorTypes
  <2>4. (Counts(t) /\ Gauges(t))'
    BY <2>1, <2>2 DEF SupervisorTypes, Counts, Gauges
  <2> QED BY <2>1, <2>2, <2>3, <2>4, OneSupervisor DEF SupervisorTypes
<1>6. ASSUME NEW t \in Tasks, Die(t) PROVE EscalationInv'
  <2> DEFINE n == DeathsInARow(t)
  <2>1. process = "up" /\ process' = "up" /\ loop[t] = "running" /\ UNCHANGED progress
    BY <1>6 DEF Die
  <2>2. /\ consecutive' = [consecutive EXCEPT ![t] = n]
        /\ loop' = [loop EXCEPT ![t] = "backoff"]
        /\ barren' = [barren EXCEPT ![t] = @ + 1]
    BY <1>6 DEF Die
  <2>3. up' = [up EXCEPT ![t] = n <= MaxConsecutive]
    BY <1>6 DEF Die
  <2>4. n \in Nat /\ barren[t] + 1 \in {n, n + 1}
    BY <2>1 DEF SupervisorTypes, Counts, DeathsInARow
  <2>5. SupervisorTypes'
    <3>2. DOMAIN up' = Tasks
      BY <2>3 DEF SupervisorTypes
    <3> HIDE DEF n
    <3> QED BY <2>1, <2>2, <2>4, <3>2 DEF SupervisorTypes
  <2>6. up'[t] <=> n <= MaxConsecutive
    BY <2>3, Zenon DEF SupervisorTypes
  <2>7. consecutive'[t] = n /\ loop'[t] = "backoff" /\ barren'[t] = barren[t] + 1
    BY <2>2 DEF SupervisorTypes
  <2> HIDE DEF n
  <2>8. (Counts(t) /\ Gauges(t))'
    BY <2>4, <2>5, <2>6, <2>7 DEF SupervisorTypes, Counts, Gauges
  <2> QED BY <2>1, <2>2, <2>3, <2>5, <2>8, OneSupervisor DEF SupervisorTypes
<1>7. ASSUME NEW t \in Tasks, Hang(t) PROVE EscalationInv'
  <2>1. /\ process = "up" /\ process' = "up" /\ loop[t] = "running" /\ UNCHANGED <<consecutive, progress, up, barren>>
        /\ loop' = [loop EXCEPT ![t] = "hung"]
    BY <1>7 DEF Hang
  <2> QED BY <2>1, OneSupervisor DEF SupervisorTypes, Counts, Gauges
<1>8. ASSUME NEW t \in Tasks, Respawn(t) PROVE EscalationInv'
  <2>1. /\ process = "up" /\ process' = "up" /\ loop[t] = "backoff" /\ UNCHANGED <<consecutive, up, barren>>
        /\ loop' = [loop EXCEPT ![t] = "running"] /\ progress' = [progress EXCEPT ![t] = FALSE]
    BY <1>8 DEF Respawn
  <2>2. SupervisorTypes'
    BY <2>1 DEF SupervisorTypes
  <2>3. (Counts(t) /\ Gauges(t))'
    BY <2>1 DEF SupervisorTypes, Counts, Gauges
  <2> QED BY <2>1, <2>2, <2>3, OneSupervisor DEF SupervisorTypes
<1>9. ASSUME NEW t \in Tasks, Stop(t) PROVE EscalationInv'
  <2>1. /\ process = "up" /\ process' = "up" /\ UNCHANGED <<consecutive, progress, up, barren>>
        /\ loop[t] \in {"running", "backoff"} /\ loop' = [loop EXCEPT ![t] = "stopped"]
    BY <1>9 DEF Stop
  <2>2. SupervisorTypes'
    BY <2>1 DEF SupervisorTypes
  <2>3. (Counts(t) /\ Gauges(t))'
    BY <2>1 DEF SupervisorTypes, Counts, Gauges
  <2> QED BY <2>1, <2>2, <2>3, OneSupervisor DEF SupervisorTypes
<1>10. CASE UNCHANGED daemonVars
  BY <1>10, SameSupervisors DEF daemonVars
<1> QED BY <1>1, <1>2, <1>3, <1>4, <1>5, <1>6, <1>7, <1>8, <1>9, <1>10 DEF DaemonNext, TaskStep

(* THEOREM DownMeansBarren.  A supervisor reports its loop down only after more than
   max_consecutive deaths without a completed iteration, and at most one death later
   than that, through restarts of the container and shutdowns. *)
THEOREM DownMeansBarren == DaemonSpec => []EscalatesOnlyBarren
<1>1. DaemonInit => EscalationInv
  BY DEF DaemonInit, EscalationInv, SupervisorTypes
<1>2. EscalationInv => EscalatesOnlyBarren
  <2> SUFFICES ASSUME EscalationInv, NEW t \in Tasks
               PROVE  /\ ~up[t] /\ loop[t] = "backoff" => barren[t] > MaxConsecutive
                      /\ process = "up" /\ barren[t] > MaxConsecutive + 1 => ~up[t]
    BY DEF EscalatesOnlyBarren
  <2>1. CASE process = "gate"
    BY <2>1 DEF EscalationInv, SupervisorTypes
  <2>2. CASE process # "gate"
    BY <2>2 DEF EscalationInv, SupervisorTypes, Counts, Gauges
  <2> QED BY <2>1, <2>2
<1> QED BY <1>1, <1>2, EscalationStep, PTL DEF DaemonSpec

-----------------------------------------------------------------------------
(* There is a longest threshold, past which an age need not be counted. *)
LEMMA MaxAgeOf ==
  ASSUME NEW u \in Gated
  PROVE  MaxAge \in Nat
<1> DEFINE S == {Threshold[t] : t \in Gated}
           f == [t \in Gated |-> Threshold[t]]
<1>1. S \in SUBSET Nat /\ S # {}
  BY DEF Gated
<1>2. f \in Surjection(Gated, S)
  BY DEF Surjection
<1>3. IsFiniteSet(S)
  <2> HIDE DEF S, f
  <2> QED BY <1>2, FS_Surjection DEF Gated
<1>4. \E n \in S : \A t \in Gated : Threshold[t] <= n
  <2>1. PICK n \in S : \A s \in S : s <= n
    <3> HIDE DEF S
    <3> QED BY <1>1, <1>3, GreatestOf
  <2> QED BY <2>1
<1>5. MaxAge = 1 + CHOOSE n \in S : \A t \in Gated : Threshold[t] <= n
  BY DEF MaxAge
<1> HIDE DEF S
<1>6. (CHOOSE n \in S : \A t \in Gated : Threshold[t] <= n) \in S
  BY <1>4, Zenon
<1> DEFINE top == CHOOSE n \in S : \A t \in Gated : Threshold[t] <= n
<1>7. top \in Nat /\ MaxAge = 1 + top
  BY <1>1, <1>5, <1>6
<1> HIDE DEF top
<1> QED BY <1>7

LEMMA BeatStep == BeatInv /\ SupervisorTypes /\ [DaemonNext]_daemonVars => BeatInv'
<1> SUFFICES ASSUME BeatInv, SupervisorTypes, [DaemonNext]_daemonVars PROVE BeatInv'
  OBVIOUS
<1>0. DOMAIN loop = Tasks /\ DOMAIN up = Tasks
  BY DEF SupervisorTypes
<1>1. CASE PassGate
  BY <1>1 DEF PassGate, Fresh, BeatInv, Gated
<1>2. CASE OperatorBackfill \/ Signal
  BY <1>2 DEF OperatorBackfill, Signal, BeatInv
<1>3. CASE Exit
  BY <1>3 DEF Exit, BeatInv
<1>4. CASE Restart
  <2>1. process' = "gate" /\ UNCHANGED deaths /\ age' = [t \in Tasks |-> MaxAge]
    BY <1>4 DEF Restart
  <2> QED BY <2>1, MaxAgeOf DEF BeatInv, Gated
<1>5. CASE Tick
  <2>1. /\ UNCHANGED <<process, shutdown, loop, up, deaths>>
        /\ age' = [t \in Tasks |-> Older(age[t])]
        /\ \A t \in Tasks : loop[t] = "running" => ~(age[t] >= Period[t])
    BY <1>5 DEF Tick, Due
  <2>2. ASSUME NEW t \in Gated PROVE age'[t] \in Nat /\ age'[t] <= age[t] + 1
    BY <2>1, <2>2, MaxAgeOf DEF BeatInv, Gated, Older, LesserOf
  <2>3. ASSUME NEW t \in Gated, loop[t] = "running" PROVE age'[t] <= Period[t]
    BY <2>1, <2>2, <2>3 DEF BeatInv, Gated
  <2>4. Gated \subseteq Tasks
    BY DEF Gated
  <2> QED BY <2>1, <2>2, <2>3, <2>4 DEF BeatInv
<1>6. ASSUME NEW t \in Tasks, Iterate(t) PROVE BeatInv'
  <2>1. UNCHANGED <<process, shutdown, loop, up, deaths>> /\ age' = [age EXCEPT ![t] = 0]
    BY <1>6 DEF Iterate
  <2> QED BY <2>1 DEF BeatInv, Gated
<1>7. ASSUME NEW t \in Tasks, Die(t) \/ Hang(t) PROVE BeatInv'
  <2>1. deaths' = deaths + 1 /\ UNCHANGED age
    BY <1>7 DEF Die, Hang
  <2> QED BY <2>1 DEF BeatInv
<1>8. ASSUME NEW t \in Tasks, Respawn(t) PROVE BeatInv'
  <2>1. UNCHANGED <<process, shutdown, up, age, deaths>> /\ loop' = [loop EXCEPT ![t] = "running"]
    BY <1>8 DEF Respawn
  <2> QED BY <1>0, <2>1 DEF BeatInv
<1>9. ASSUME NEW t \in Tasks, Stop(t) PROVE BeatInv'
  BY <1>9 DEF Stop, BeatInv
<1>10. CASE UNCHANGED daemonVars
  BY <1>10 DEF daemonVars, BeatInv
<1> QED BY <1>1, <1>2, <1>3, <1>4, <1>5, <1>6, <1>7, <1>8, <1>9, <1>10 DEF DaemonNext, TaskStep

(* THEOREM NoFalseAlarm.  As long as no loop has died or hung the /health probe passes,
   from the gate to the first iteration of each loop and ever after. *)
THEOREM NoFalseAlarm == DaemonSpec => []SoundIsHealthy
<1>1. DaemonInit => EscalationInv /\ BeatInv
  <2> SUFFICES ASSUME DaemonInit PROVE EscalationInv /\ BeatInv
    OBVIOUS
  <2>1. EscalationInv
    BY DEF DaemonInit, EscalationInv, SupervisorTypes
  <2>2. BeatInv
    BY MaxAgeOf DEF DaemonInit, BeatInv, Gated
  <2> QED BY <2>1, <2>2
<1>2. EscalationInv /\ BeatInv /\ [DaemonNext]_daemonVars => EscalationInv' /\ BeatInv'
  BY EscalationStep, BeatStep DEF EscalationInv
<1>3. BeatInv => SoundIsHealthy
  <2> SUFFICES ASSUME BeatInv, deaths = 0, process = "up", ~shutdown, NEW t \in Gated
               PROVE  ~(age[t] > Threshold[t] \/ ~up[t])
    BY DEF SoundIsHealthy, Healthy, Unhealthy
  <2> QED BY DEF BeatInv, Gated
<1> QED BY <1>1, <1>2, <1>3, PTL DEF DaemonSpec

-----------------------------------------------------------------------------
(* Types of the supervisors: what they count are deaths. *)
DaemonTypes == DaemonTypeOK /\ \A t \in Tasks : consecutive[t] <= deaths /\ barren[t] <= deaths

LEMMA BackoffOf == \A n \in Nat : Backoff(n) \in 0..MaxBackoff
<1>1. \A n \in 0..6 : 2 ^ n \in Nat
  <2>1. 2 ^ 0 \in Nat /\ 2 ^ 1 \in Nat /\ 2 ^ 2 \in Nat /\ 2 ^ 3 \in Nat /\ 2 ^ 4 \in Nat /\ 2 ^ 5 \in Nat /\ 2 ^ 6 \in Nat
    OBVIOUS
  <2>. SUFFICES ASSUME NEW n \in 0..6 PROVE 2 ^ n \in Nat
    OBVIOUS
  <2>2. n = 0 \/ n = 1 \/ n = 2 \/ n = 3 \/ n = 4 \/ n = 5 \/ n = 6
    OBVIOUS
  <2>. QED  BY <2>1, <2>2, Zenon
<1>2. \A n \in Nat : LesserOf(IF n = 0 THEN 0 ELSE n - 1, 6) \in 0..6
  BY DEF LesserOf
<1>3. \A a \in Nat : LesserOf(a, MaxBackoff) \in 0..MaxBackoff
  BY DEF LesserOf
<1>. SUFFICES ASSUME NEW n \in Nat PROVE Backoff(n) \in 0..MaxBackoff
  OBVIOUS
<1>. DEFINE m == LesserOf(IF n = 0 THEN 0 ELSE n - 1, 6)
            p == 2 ^ m
<1>4. p \in Nat
  <2>1. m \in 0..6
    BY <1>2
  <2>. HIDE DEF m
  <2>. QED  BY <1>1, <2>1
<1>5. Backoff(n) = LesserOf(p, MaxBackoff)
  BY DEF Backoff
<1>. HIDE DEF p
<1>. QED  BY <1>3, <1>4, <1>5

LEMMA MaxAgeIs == MaxAge \in Nat /\ Gated \subseteq Tasks
<1>1. PICK t \in Gated : TRUE
  BY DEF Gated
<1>. QED  BY <1>1, MaxAgeOf DEF Gated

LEMMA DaemonTypesStart == DaemonInit => DaemonTypes
<1>. SUFFICES ASSUME DaemonInit PROVE DaemonTypes
  OBVIOUS
<1>1. age \in [Tasks -> 0..MaxAge]
  BY MaxAgeIs DEF DaemonInit
<1>2. consecutive \in [Tasks -> 0..MaxDeaths] /\ barren \in [Tasks -> 0..MaxDeaths]
  BY DEF DaemonInit
<1>3. loop \in [Tasks -> {"running", "hung", "backoff", "stopped"}] /\ wait \in [Tasks -> 0..MaxBackoff]
  BY DEF DaemonInit
<1>4. progress \in [Tasks -> BOOLEAN] /\ up \in [Tasks -> BOOLEAN]
  BY DEF DaemonInit
<1>5. uptime \in 0..(Grace + 1) /\ lag \in 0..(MaxLag + 1) /\ deaths \in 0..MaxDeaths
  BY DEF DaemonInit
<1>6. \A t \in Tasks : consecutive[t] <= deaths /\ barren[t] <= deaths
  BY DEF DaemonInit
<1>7. process \in {"gate", "up", "exited"} /\ shutdown \in BOOLEAN
  BY DEF DaemonInit
<1>. QED  BY <1>1, <1>2, <1>3, <1>4, <1>5, <1>6, <1>7 DEF DaemonTypes, DaemonTypeOK

LEMMA DaemonTypesStep == DaemonTypes /\ [DaemonNext]_daemonVars => DaemonTypes'
<1> SUFFICES ASSUME DaemonTypes, [DaemonNext]_daemonVars PROVE DaemonTypes'
  OBVIOUS
<1>0. MaxAge \in Nat /\ Gated \subseteq Tasks
  BY MaxAgeIs
<1> USE DEF DaemonTypes, DaemonTypeOK
<1>1. CASE PassGate
  BY <1>0, <1>1 DEF PassGate, Fresh
<1>2. CASE OperatorBackfill \/ Signal \/ Exit \/ UNCHANGED daemonVars
  <2>1. /\ UNCHANGED <<loop, consecutive, progress, up, age, wait, uptime, barren>>
        /\ process' \in {process, "exited"} /\ shutdown' \in {shutdown, TRUE} /\ lag' \in {lag, 0}
        /\ deaths' = deaths \/ (deaths < MaxDeaths /\ deaths' = deaths + 1)
    BY <1>2, Zenon DEF OperatorBackfill, Signal, Exit, daemonVars
  <2>2. deaths' \in 0..MaxDeaths /\ deaths <= deaths'
    BY <2>1
  <2>3. process' \in {"gate", "up", "exited"} /\ lag' \in 0..(MaxLag + 1)
    BY <2>1
  <2>5. shutdown' \in BOOLEAN
    BY <2>1, Zenon
  <2>4. \A t \in Tasks : consecutive'[t] <= deaths' /\ barren'[t] <= deaths'
    BY <2>1, <2>2
  <2> QED BY <2>1, <2>2, <2>3, <2>4, <2>5
<1>3. CASE Restart
  BY <1>0, <1>3 DEF Restart
<1>4. CASE Tick
  <2>1. /\ age' = [t \in Tasks |-> Older(age[t])] /\ wait' = [t \in Tasks |-> IF wait[t] > 0 THEN wait[t] - 1 ELSE 0]
        /\ uptime' = LesserOf(uptime + 1, Grace + 1) /\ lag' = LesserOf(lag + 1, MaxLag + 1)
        /\ UNCHANGED <<process, shutdown, loop, consecutive, progress, up, barren, deaths>>
    BY <1>4 DEF Tick
  <2>2. \A n \in 0..MaxAge : Older(n) \in 0..MaxAge
    BY <1>0 DEF Older, LesserOf
  <2>3. age' \in [Tasks -> 0..MaxAge]
    BY <2>1, <2>2
  <2>4. wait' \in [Tasks -> 0..MaxBackoff]
    BY <2>1
  <2>5. uptime' \in 0..(Grace + 1) /\ lag' \in 0..(MaxLag + 1)
    BY <2>1 DEF LesserOf
  <2> QED BY <2>1, <2>3, <2>4, <2>5
<1>5. ASSUME NEW t \in Tasks, Iterate(t) PROVE DaemonTypes'
  <2>1. /\ age' = [age EXCEPT ![t] = 0] /\ progress' = [progress EXCEPT ![t] = TRUE]
        /\ barren' = [barren EXCEPT ![t] = 0] /\ lag' \in {0, lag}
        /\ UNCHANGED <<process, shutdown, loop, consecutive, up, wait, uptime, deaths>>
    BY <1>5 DEF Iterate
  <2>2. age' \in [Tasks -> 0..MaxAge] /\ progress' \in [Tasks -> BOOLEAN] /\ lag' \in 0..(MaxLag + 1)
    BY <1>0, <2>1
  <2>3. barren' \in [Tasks -> 0..MaxDeaths] /\ \A u \in Tasks : barren'[u] <= deaths
    BY <2>1
  <2> QED BY <2>1, <2>2, <2>3
<1>6. ASSUME NEW t \in Tasks, Die(t) PROVE DaemonTypes'
  <2> DEFINE n == DeathsInARow(t)
             b == n <= MaxConsecutive
             w == Backoff(n)
  <2>1. /\ consecutive' = [consecutive EXCEPT ![t] = n] /\ wait' = [wait EXCEPT ![t] = w]
        /\ loop' = [loop EXCEPT ![t] = "backoff"] /\ barren' = [barren EXCEPT ![t] = @ + 1]
        /\ deaths < MaxDeaths /\ deaths' = deaths + 1 /\ UNCHANGED <<process, shutdown, progress, age, uptime, lag>>
    BY <1>6 DEF Die
  <2>2. up' = [up EXCEPT ![t] = b]
    BY <1>6 DEF Die
  <2>3. n \in Nat /\ n <= deaths + 1
    BY DEF DeathsInARow
  <2>4. w \in 0..MaxBackoff /\ b \in BOOLEAN
    BY <2>3, BackoffOf
  <2> HIDE DEF n, b, w
  <2>5. up' \in [Tasks -> BOOLEAN]
    BY <2>2, <2>4
  <2>6. consecutive' \in [Tasks -> 0..MaxDeaths] /\ barren' \in [Tasks -> 0..MaxDeaths]
    BY <2>1, <2>3
  <2>7. \A u \in Tasks : consecutive'[u] <= deaths' /\ barren'[u] <= deaths'
    BY <2>1, <2>3
  <2>8. wait' \in [Tasks -> 0..MaxBackoff] /\ loop' \in [Tasks -> {"running", "hung", "backoff", "stopped"}]
    BY <2>1, <2>4
  <2> QED BY <2>1, <2>5, <2>6, <2>7, <2>8
<1>7. ASSUME NEW t \in Tasks, Hang(t) PROVE DaemonTypes'
  BY <1>7 DEF Hang
<1>8. ASSUME NEW t \in Tasks, Respawn(t) \/ Stop(t) PROVE DaemonTypes'
  <2>1. /\ UNCHANGED <<process, shutdown, consecutive, up, age, wait, uptime, lag, barren, deaths>>
        /\ loop' \in {[loop EXCEPT ![t] = "running"], [loop EXCEPT ![t] = "stopped"]}
        /\ progress' \in {progress, [progress EXCEPT ![t] = FALSE]}
    BY <1>8, Zenon DEF Respawn, Stop
  <2> QED BY <2>1
<1> QED BY <1>1, <1>2, <1>3, <1>4, <1>5, <1>6, <1>7, <1>8 DEF DaemonNext, TaskStep

-----------------------------------------------------------------------------
(* The balances of gateways.                                               *)
HIDE DaemonAssumption
USE GatewayReadsAssumption

Blocks == HeightsTo(TopBlock)
Pairs == Nat \X Nat
Called == {"store", "header", "persist"}
RowRecords == [value : Pairs, hash : Pairs \cup {None}]
CallerRecords ==
  [stage : Stages, at : Nat \cup {LatestTag}, block : Nat, value : Pairs \cup {None}, hash : Pairs \cup {None}]

(* What a reader's record says of itself: the blocks it names are those of the
   chain, a request never names one after the block asked for, and the balance
   it carries tells of no touch after the block it was read at. *)
Fits(c, r) ==
  /\ r \in CallerRecords
  /\ c = Staker => r.stage \in Called \cup {"idle", "call"}
  /\ c # Staker /\ r.stage # "idle" => r.at \in Blocks \cup {LatestTag}
  /\ r.stage = "head" => r.at = LatestTag
  /\ r.stage \in Called \cup {"again", "call"} => r.block \in Blocks
  /\ r.stage \in Called \cup {"again", "call"} /\ c # Staker /\ r.at # LatestTag => r.block <= r.at
  /\ r.stage \in Called => r.value \in Pairs /\ r.value[1] <= r.block
  /\ c # Staker /\ r.stage = "answered" /\ r.at # LatestTag => r.value \in Pairs /\ r.value[1] <= r.at

(* The tables, of which neither holds a balance ahead of its block. *)
Shape ==
  /\ head \in Blocks /\ tip \in 0..TopBlock /\ tip <= head /\ finalTip \in 0..tip
  /\ version \in [Blocks -> Nat]
  /\ callCache \in [Blocks -> Pairs \cup {None}]
  /\ balanceRow \in [Blocks -> RowRecords \cup {None}]
  /\ early \subseteq Blocks
  /\ \A b \in Blocks : callCache[b] # None => callCache[b][1] <= b
  /\ \A b \in Blocks : balanceRow[b] # None => balanceRow[b].value[1] <= b

CallersFit ==
  /\ caller \in [Readers -> CallerRecords]
  /\ \A c \in Readers : Fits(c, caller[c])

AheadInv == Shape /\ CallersFit

(* The balances at blocks that are known: that of the block, or any if the block
   was read too early. *)
Known == {p \in Blocks \X Pairs : p[1] \in early \/ (p[1] <= tip /\ p[2] = Balance(p[1]))}

ExactInv ==
  /\ \A b \in Blocks : callCache[b] # None => <<b, callCache[b]>> \in Known
  /\ \A b \in Blocks : balanceRow[b] # None => <<b, balanceRow[b].value>> \in Known
  /\ \A c \in Readers : caller[c].stage \in Called => <<caller[c].block, caller[c].value>> \in Known

-----------------------------------------------------------------------------
(* The balance of a block is that of one of its touches, none of them later. *)
LEMMA BalanceOf ==
  ASSUME Shape, NEW b \in Blocks
  PROVE  /\ Balance(b) \in Pairs /\ Balance(b)[1] <= b
         /\ Touches(b) # {} => Max(Touches(b)) \in Touches(b)
<1>1. Touches(b) \in SUBSET (0..b) /\ b \in Nat /\ Touches(b) \in SUBSET HeightsTo(b)
  BY DEF Touches, HeightsTo, Blocks
<1>2. CASE Touches(b) = {}
  BY <1>1, <1>2 DEF Balance, Pairs, HeightsTo
<1>3. CASE Touches(b) # {}
  <2>1. Max(Touches(b)) \in Touches(b)
    BY <1>1, <1>3, MaxOf
  <2>2. Max(Touches(b)) \in Blocks /\ Max(Touches(b)) <= b
    BY <2>1, <1>1 DEF HeightsTo, Blocks
  <2> QED BY <2>1, <2>2, <1>3 DEF Balance, Pairs, Shape, Blocks, HeightsTo
<1> QED BY <1>2, <1>3

(* A row that answers a request for a block is of that block or an earlier one. *)
LEMMA RowOf ==
  ASSUME Shape, NEW at \in Nat \cup {LatestTag}, RowsAt(at) # {}
  PROVE  /\ balanceRow[Max(RowsAt(at))] \in RowRecords
         /\ at # LatestTag => balanceRow[Max(RowsAt(at))].value[1] <= at
<1>1. RowsAt(at) \in SUBSET (0..TopBlock)
  BY DEF RowsAt, HeightsTo
<1>2. Max(RowsAt(at)) \in RowsAt(at)
  BY <1>1, MaxOf
<1> DEFINE m == Max(RowsAt(at))
<1> HIDE DEF m
<1>3. m \in Blocks /\ balanceRow[m] # None /\ (at = LatestTag \/ m <= at)
  BY <1>2 DEF RowsAt, Blocks, m
<1>4. balanceRow[m] \in RowRecords /\ balanceRow[m].value[1] <= m
  BY <1>3 DEF Shape
<1>5. balanceRow[m].value[1] \in Nat /\ m \in Nat
  BY <1>3, <1>4 DEF RowRecords, Pairs, Blocks, HeightsTo
<1> QED BY <1>3, <1>4, <1>5 DEF m
-----------------------------------------------------------------------------
(* One reader moves, the others stay what they were. *)
LEMMA MoveFits ==
  ASSUME CallersFit, NEW c \in Readers, NEW r, Moves(c, r), Fits(c, r)
  PROVE  CallersFit'
<1>1. r \in CallerRecords
  BY DEF Fits
<1>2. caller' \in [Readers -> CallerRecords]
  BY <1>1 DEF Moves, CallersFit
<1>3. \A d \in Readers : caller'[d] = IF d = c THEN r ELSE caller[d]
  BY DEF Moves, CallersFit
<1>4. \A d \in Readers : Fits(d, caller[d])
  BY DEF CallersFit
<1>5. \A d \in Readers : Fits(d, caller'[d])
  <2> HIDE DEF Fits
  <2> QED BY <1>3, <1>4
<1> QED BY <1>2, <1>5 DEF CallersFit

LEMMA AheadInit == ReadsInit => AheadInv
<1> SUFFICES ASSUME ReadsInit PROVE AheadInv
  OBVIOUS
<1>1. Shape
  BY DEF ReadsInit, Shape, Blocks, HeightsTo, RowRecords, Pairs
<1>2. NoRequest \in CallerRecords /\ \A c \in Readers : Fits(c, NoRequest)
  BY DEF Fits, NoRequest, CallerRecords, Stages, Pairs, Called
<1> QED BY <1>1, <1>2 DEF AheadInv, CallersFit, ReadsInit

(* Each step of a reader leaves it with a record that fits. *)
LEMMA AheadStep == AheadInv /\ [ReadsNext]_gatewayReadVars => AheadInv'
<1> SUFFICES ASSUME AheadInv, [ReadsNext]_gatewayReadVars PROVE AheadInv'
  OBVIOUS
<1> USE DEF AheadInv
<1> DEFINE Same == UNCHANGED <<head, version, tip, finalTip, callCache, balanceRow>> /\ (early' = early)
<1>1. ASSUME NEW c \in Readers
      PROVE  Fits(c, caller[c]) /\ caller[c] \in CallerRecords /\ Fits(c, NoRequest)
  BY DEF CallersFit, Fits, NoRequest, CallerRecords, Stages, Pairs, Called
<1>2. ASSUME Same PROVE Shape'
  BY <1>2 DEF Shape
<1>3. ASSUME caller' = caller PROVE CallersFit'
  BY <1>3 DEF CallersFit
<1>4. CASE NodeAdvances
  BY <1>4, <1>3 DEF NodeAdvances, Shape, Blocks, HeightsTo
<1>5. CASE NodeReorgs
  <2>1. version' \in [Blocks -> Nat]
    BY <1>5 DEF NodeReorgs, Shape
  <2> QED BY <1>5, <1>3, <2>1 DEF NodeReorgs, Shape
<1>6. CASE LedgerFollows
  BY <1>6, <1>3 DEF LedgerFollows, Shape, Blocks, HeightsTo
<1>7. CASE StakerTakes
  <2> DEFINE touches == {b \in Touches(finalTip) : b > done}
             r == [NoRequest EXCEPT !.stage = "call", !.block = Min(touches),
                                    !.hash = <<Min(touches), version[Min(touches)]>>]
  <2>1. touches # {} /\ Moves(Staker, r) /\ Same
    BY <1>7 DEF StakerTakes
  <2>2. touches \in SUBSET Blocks /\ Blocks \in SUBSET Nat
    BY DEF Touches, Shape, Blocks, HeightsTo
  <2>3. Min(touches) \in Blocks
    BY <2>1, <2>2, MinOf
  <2>4. r \in CallerRecords
    BY <2>2, <2>3 DEF NoRequest, CallerRecords, Shape, Stages, Pairs
  <2>5. Fits(Staker, r)
    BY <2>3, <2>4 DEF Fits, NoRequest, Called
  <2> QED BY <2>1, <2>5, <1>2, MoveFits DEF Readers
<1>8. ASSUME NEW c \in Readers, AskBalance(c) PROVE AheadInv'
  <2>1. PICK at \in Blocks \cup {LatestTag} : Moves(c, [NoRequest EXCEPT !.stage = "rows", !.at = at])
    BY <1>8 DEF AskBalance, Blocks
  <2>2. Fits(c, [NoRequest EXCEPT !.stage = "rows", !.at = at])
    <3>1. c # Staker /\ at \in Nat \cup {LatestTag}
      BY <1>8, <2>1 DEF AskBalance, Blocks, HeightsTo
    <3> QED BY <3>1 DEF Fits, NoRequest, CallerRecords, Stages, Called
  <2>3. Same
    BY <1>8 DEF AskBalance
  <2> QED BY <2>1, <2>2, <2>3, <1>2, MoveFits
<1>9. ASSUME NEW c \in Readers, LookUp(c) PROVE AheadInv'
  <2> DEFINE at == caller[c].at
             rows == RowsAt(at)
             v == balanceRow[Max(rows)].value
  <2>1. caller[c].stage = "rows" /\ c # Staker /\ at \in Nat \cup {LatestTag} /\ at \in Blocks \cup {LatestTag}
    BY <1>9, <1>1 DEF LookUp, Fits, Called, CallerRecords
  <2>2. Same
    BY <1>9 DEF LookUp
  <2>3. CASE rows = {}
    <3>1. Moves(c, [caller[c] EXCEPT !.stage = "touch"])
      BY <1>9, <2>3 DEF LookUp
    <3>2. Fits(c, [caller[c] EXCEPT !.stage = "touch"])
      BY <1>1, <2>1 DEF Fits, CallerRecords, Stages, Called
    <3> QED BY <3>1, <3>2, <2>2, <1>2, MoveFits
  <2>4. CASE rows # {}
    <3>1. Moves(c, Answered(c, v))
      BY <1>9, <2>4 DEF LookUp
    <3>2. v \in Pairs /\ (at # LatestTag => v[1] <= at)
      BY <2>1, <2>4, RowOf DEF RowRecords
    <3>3. Fits(c, Answered(c, v))
      BY <2>1, <3>2 DEF Fits, Answered, NoRequest, CallerRecords, Stages, Called, Pairs
    <3> QED BY <3>1, <3>3, <2>2, <1>2, MoveFits
  <2> QED BY <2>3, <2>4
<1>10. ASSUME NEW c \in Readers, FindTouch(c) PROVE AheadInv'
  <2> DEFINE at == caller[c].at
             touches == {b \in Touches(tip) : at = LatestTag \/ b <= at}
             m == Max(touches)
             r == IF touches # {} THEN [caller[c] EXCEPT !.stage = "again", !.block = m, !.hash = <<m, version[m]>>]
                  ELSE IF at = LatestTag THEN [caller[c] EXCEPT !.stage = "head"]
                  ELSE [caller[c] EXCEPT !.stage = "call", !.block = at]
  <2>1. caller[c].stage = "touch" /\ c # Staker /\ at \in Blocks \cup {LatestTag}
    BY <1>10, <1>1 DEF FindTouch, Fits, Called
  <2>2. Same /\ Moves(c, r)
    BY <1>10 DEF FindTouch
  <2>3. touches # {} => m \in Blocks /\ (at # LatestTag => m <= at)
    <3>1. touches \in SUBSET (0..tip) /\ tip \in Nat /\ touches \in SUBSET Blocks
      BY DEF Touches, HeightsTo, Shape, Blocks
    <3>2. touches # {} => m \in touches
      BY <3>1, MaxOf
    <3> QED BY <3>1, <3>2
  <2> HIDE DEF m, touches
  <2>4. Fits(c, r)
    <3>1. CASE touches # {}
      <4>1. <<m, version[m]>> \in Pairs /\ m \in Nat
        BY <3>1, <2>3 DEF Shape, Pairs, Blocks, HeightsTo
      <4> QED BY <3>1, <4>1, <2>1, <2>3, <1>1 DEF Fits, CallerRecords, Stages, Called
    <3>2. CASE touches = {}
      <4>1. CASE at = LatestTag
        BY <4>1, <3>2, <2>1, <1>1 DEF Fits, CallerRecords, Stages, Called
      <4>2. CASE at # LatestTag
        <5>1. at \in Blocks /\ at \in Nat
          BY <4>2, <2>1 DEF Blocks, HeightsTo
        <5>2. r = [caller[c] EXCEPT !.stage = "call", !.block = at] /\ caller[c] \in CallerRecords
          BY <3>2, <4>2, <1>1
        <5>3. r \in CallerRecords /\ r.stage = "call" /\ r.block = at /\ r.at = at
          BY <5>1, <5>2 DEF CallerRecords, Stages
        <5> HIDE DEF r, at
        <5> QED BY <5>1, <5>3, <2>1, <4>2 DEF Fits, Called
      <4> QED BY <4>1, <4>2
    <3> QED BY <3>1, <3>2
  <2> QED BY <2>2, <2>4, <1>2, MoveFits
<1>11. ASSUME NEW c \in Readers, LookUpAgain(c) PROVE AheadInv'
  <2> DEFINE b == caller[c].block
             rows == RowsAt(b)
             v == balanceRow[Max(rows)].value
  <2>1. /\ caller[c].stage = "again" /\ c # Staker /\ b \in Blocks /\ b \in Nat /\ b # LatestTag
        /\ caller[c].at \in Blocks \cup {LatestTag} /\ (caller[c].at # LatestTag => b <= caller[c].at)
    BY <1>11, <1>1 DEF LookUpAgain, Fits, Called, Blocks, HeightsTo
  <2>2. Same
    BY <1>11 DEF LookUpAgain
  <2>3. CASE rows = {}
    <3>1. Moves(c, [caller[c] EXCEPT !.stage = "call"])
      BY <1>11, <2>3 DEF LookUpAgain
    <3>2. Fits(c, [caller[c] EXCEPT !.stage = "call"])
      BY <1>1, <2>1 DEF Fits, CallerRecords, Stages, Called
    <3> QED BY <3>1, <3>2, <2>2, <1>2, MoveFits
  <2>4. CASE rows # {}
    <3>1. Moves(c, Answered(c, v))
      BY <1>11, <2>4 DEF LookUpAgain
    <3>2. v \in Pairs /\ v[1] <= b
      BY <2>1, <2>4, RowOf DEF RowRecords
    <3>3. caller[c].at # LatestTag => v[1] <= caller[c].at
      BY <2>1, <3>2 DEF Pairs, Blocks, HeightsTo
    <3>4. Fits(c, Answered(c, v))
      BY <2>1, <3>2, <3>3, <1>1 DEF Fits, Answered, NoRequest, CallerRecords, Stages, Called
    <3> QED BY <3>1, <3>4, <2>2, <1>2, MoveFits
  <2> QED BY <2>3, <2>4
<1>12. ASSUME NEW c \in Readers, ReadHead(c) PROVE AheadInv'
  <2>1. Same /\ Moves(c, [caller[c] EXCEPT !.stage = "call", !.block = head])
    BY <1>12 DEF ReadHead
  <2>2. Fits(c, [caller[c] EXCEPT !.stage = "call", !.block = head])
    <3>1. caller[c].stage = "head" /\ caller[c].at = LatestTag
      BY <1>12, <1>1 DEF ReadHead, Fits
    <3>2. head \in Blocks /\ head \in Nat
      BY DEF Shape, Blocks, HeightsTo
    <3> QED BY <3>1, <3>2, <1>1 DEF Fits, CallerRecords, Stages, Called
  <2> QED BY <2>1, <2>2, <1>2, MoveFits
<1>13. ASSUME NEW c \in Readers, CallNode(c) PROVE AheadInv'
  <2> DEFINE b == caller[c].block
  <2>1. caller[c].stage = "call" /\ b \in Blocks
    BY <1>13, <1>1 DEF CallNode, Fits
  <2>2. Shape'
    BY <1>13, <2>1 DEF CallNode, Shape
  <2>3. ASSUME NEW v \in Pairs, v[1] <= b, NEW stage \in Called
        PROVE  Fits(c, [caller[c] EXCEPT !.stage = stage, !.value = v])
    BY <2>3, <2>1, <1>1 DEF Fits, CallerRecords, Stages, Called
  <2>4. CASE callCache[b] # None
    <3>1. Moves(c, [caller[c] EXCEPT !.stage = AfterCall(c), !.value = callCache[b]])
      BY <1>13, <2>4 DEF CallNode
    <3>2. callCache[b] \in Pairs /\ callCache[b][1] <= b /\ AfterCall(c) \in Called
      BY <2>1, <2>4 DEF Shape, AfterCall, Called
    <3> QED BY <3>1, <3>2, <2>2, <2>3, MoveFits
  <2>5. CASE callCache[b] = None
    <3>1. Moves(c, [caller[c] EXCEPT !.stage = "store", !.value = Balance(b)])
      BY <1>13, <2>5 DEF CallNode
    <3>2. Balance(b) \in Pairs /\ Balance(b)[1] <= b /\ "store" \in Called
      BY <2>1, BalanceOf DEF Called
    <3> QED BY <3>1, <3>2, <2>2, <2>3, MoveFits
  <2> QED BY <2>4, <2>5
<1>14. ASSUME NEW c \in Readers, StoreCall(c) PROVE AheadInv'
  <2>1. /\ caller[c].stage \in Called /\ caller[c].block \in Blocks
        /\ caller[c].value \in Pairs /\ caller[c].value[1] <= caller[c].block
    BY <1>14, <1>1 DEF StoreCall, Fits, Called
  <2>2. Shape'
    BY <1>14, <2>1 DEF StoreCall, Shape
  <2>3. Fits(c, [caller[c] EXCEPT !.stage = AfterCall(c)])
    BY <2>1, <1>1 DEF AfterCall, Fits, CallerRecords, Stages, Called
  <2> QED BY <1>14, <2>2, <2>3, MoveFits DEF StoreCall
<1>15. ASSUME NEW c \in Readers, ReadHeader(c) PROVE AheadInv'
  <2> DEFINE r == [caller[c] EXCEPT !.stage = "persist", !.hash = <<caller[c].block, version[caller[c].block]>>]
  <2>1. Same /\ Moves(c, r)
    BY <1>15 DEF ReadHeader
  <2>2. caller[c].stage = "header" /\ caller[c].block \in Blocks
    BY <1>15, <1>1 DEF ReadHeader, Fits, Called
  <2>3. <<caller[c].block, version[caller[c].block]>> \in Pairs
    BY <2>2 DEF Shape, Pairs, Blocks, HeightsTo
  <2>4. Fits(c, r)
    BY <2>2, <2>3, <1>1 DEF Fits, CallerRecords, Stages, Called
  <2> QED BY <2>1, <2>4, <1>2, MoveFits
<1>16. ASSUME NEW c \in Readers, Persist(c) PROVE AheadInv'
  <2>1. /\ caller[c].stage = "persist" /\ caller[c].block \in Blocks
        /\ caller[c].value \in Pairs /\ caller[c].value[1] <= caller[c].block
        /\ caller[c].hash \in Pairs \cup {None} /\ caller[c].at \in Nat \cup {LatestTag}
    BY <1>16, <1>1 DEF Persist, Fits, Called, CallerRecords
  <2>2. [value |-> caller[c].value, hash |-> caller[c].hash] \in RowRecords
    BY <2>1 DEF RowRecords
  <2>3. Shape'
    BY <1>16, <2>1, <2>2 DEF Persist, Shape
  <2>4. CASE c = Staker
    <3>1. Moves(c, NoRequest)
      BY <1>16, <2>4 DEF Persist
    <3> QED BY <3>1, <1>1, <2>3, MoveFits
  <2>5. CASE c # Staker
    <3>1. Moves(c, Answered(c, caller[c].value))
      BY <1>16, <2>5 DEF Persist
    <3>2. /\ caller[c].at \in Blocks \cup {LatestTag}
          /\ caller[c].at # LatestTag => caller[c].value[1] <= caller[c].at
      <4>1. /\ caller[c].at \in Blocks \cup {LatestTag}
            /\ caller[c].at # LatestTag => caller[c].block <= caller[c].at
        BY <2>1, <2>5, <1>1 DEF Fits, Called
      <4> QED BY <4>1, <2>1 DEF Pairs, Blocks, HeightsTo
    <3>3. Fits(c, Answered(c, caller[c].value))
      BY <2>1, <2>5, <3>2 DEF Fits, Answered, NoRequest, CallerRecords, Stages, Called
    <3> QED BY <3>1, <3>3, <2>3, MoveFits
  <2> QED BY <2>4, <2>5
<1>17. ASSUME NEW c \in Readers, ReadFails(c) PROVE AheadInv'
  BY <1>17, <1>1, <1>2, MoveFits DEF ReadFails
<1>18. CASE UNCHANGED gatewayReadVars
  BY <1>18, <1>2, <1>3 DEF gatewayReadVars
<1> QED BY <1>4, <1>5, <1>6, <1>7, <1>8, <1>9, <1>10, <1>11, <1>12, <1>13, <1>14, <1>15, <1>16, <1>17, <1>18
     DEF ReadsNext, CallerSteps

(* THEOREM AnswersStayBehind.  An answer for block b never tells of a touch after b,
   whichever of the table, the touch or the node it came from. *)
THEOREM AnswersStayBehind == ReadsSpec => []AnswersNotAhead
<1>1. AheadInv => AnswersNotAhead
  <2> SUFFICES ASSUME AheadInv, NEW c \in Requests, caller[c].stage = "answered", caller[c].at # LatestTag
               PROVE  caller[c].value[1] <= caller[c].at
    BY DEF AnswersNotAhead
  <2>1. Fits(c, caller[c]) /\ c # Staker
    BY DEF AheadInv, CallersFit, Readers
  <2> QED BY <2>1 DEF Fits
<1>2. ReadsSpec => []AheadInv
  BY AheadInit, AheadStep, PTL DEF ReadsSpec
<1> QED BY <1>1, <1>2, PTL

-----------------------------------------------------------------------------
(* The versions of the blocks up to b decide its balance. *)
LEMMA BalanceKept ==
  ASSUME Shape, NEW b \in Blocks, \A c \in HeightsTo(b) : version'[c] = version[c]
  PROVE  Balance(b)' = Balance(b)
<1>1. Touches(b)' = Touches(b) /\ Touches(b) \subseteq HeightsTo(b)
  BY DEF Touches
<1>2. Touches(b) # {} => Max(Touches(b)) \in HeightsTo(b)
  BY <1>1, BalanceOf
<1> DEFINE m == Max(Touches(b))
<1>3. m' = m
  BY <1>1
<1>4. Balance(b) = (IF Touches(b) = {} THEN <<0, 0>> ELSE <<m, version[m]>>)
  BY DEF Balance
<1>5. Balance(b)' = (IF Touches(b)' = {} THEN <<0, 0>> ELSE <<m', version'[m']>>)
  BY DEF Balance
<1>6. Touches(b) # {} => version'[m] = version[m]
  BY <1>2
<1> HIDE DEF m
<1> QED BY <1>1, <1>3, <1>4, <1>5, <1>6

(* What is known of a balance is not forgotten while the ledger only grows and
   its blocks keep their versions. *)
LEMMA KnownKept ==
  ASSUME Shape, tip' \in Nat, tip <= tip', early \subseteq early',
         \A c \in Blocks : c <= tip => version'[c] = version[c]
  PROVE  Known \subseteq Known'
<1> SUFFICES ASSUME NEW b \in Blocks, NEW v \in Pairs, <<b, v>> \in Known
             PROVE  b \in early' \/ (b <= tip' /\ v = Balance(b)')
  BY DEF Known
<1>1. b \in early \/ (b <= tip /\ v = Balance(b))
  BY DEF Known
<1>2. CASE b \in early
  BY <1>2
<1>3. CASE b <= tip /\ v = Balance(b)
  <2>1. \A c \in HeightsTo(b) : version'[c] = version[c]
    BY <1>3 DEF HeightsTo, Blocks, Shape
  <2>2. Balance(b)' = Balance(b)
    BY <2>1, BalanceKept
  <2>3. b <= tip'
    BY <1>3 DEF Blocks, HeightsTo, Shape
  <2> QED BY <1>3, <2>2, <2>3
<1> QED BY <1>1, <1>2, <1>3

LEMMA ExactStep == AheadInv /\ ExactInv /\ [ReadsNext]_gatewayReadVars => ExactInv'
<1> SUFFICES ASSUME AheadInv, ExactInv, [ReadsNext]_gatewayReadVars PROVE ExactInv'
  OBVIOUS
<1>1. Shape /\ CallersFit /\ tip \in Nat
  BY DEF AheadInv, Shape
<1>2. ASSUME NEW c \in Readers
      PROVE  /\ caller[c] \in CallerRecords
             /\ caller[c].stage \in Called \cup {"again", "call"} => caller[c].block \in Blocks
  BY <1>1 DEF CallersFit, Fits
<1>3. ASSUME NEW c \in Readers, NEW r, Moves(c, r)
      PROVE  caller'[c] = r /\ \A d \in Readers \ {c} : caller'[d] = caller[d]
  BY <1>1, <1>3 DEF Moves, CallersFit
\* Whoever leaves the ledger and the versions alone.
<1>4. ASSUME UNCHANGED <<tip, version>>, early \subseteq early' PROVE Known \subseteq Known'
  BY <1>1, <1>4, KnownKept
\* The others still hold what they held.
<1>5. ASSUME NEW c \in Readers, \A d \in Readers \ {c} : caller'[d] = caller[d], Known \subseteq Known',
             caller'[c].stage \in Called => <<caller'[c].block, caller'[c].value>> \in Known'
      PROVE  \A d \in Readers : caller'[d].stage \in Called => <<caller'[d].block, caller'[d].value>> \in Known'
  BY <1>5 DEF ExactInv
<1>6. ASSUME Known \subseteq Known', UNCHANGED <<callCache, balanceRow, caller>> PROVE ExactInv'
  BY <1>6 DEF ExactInv
<1>7. CASE NodeAdvances
  BY <1>7, <1>4, <1>6 DEF NodeAdvances
<1>8. CASE NodeReorgs
  <2>1. \A c \in Blocks : c <= tip => version'[c] = version[c]
    BY <1>8, <1>1 DEF NodeReorgs, Shape, Blocks, HeightsTo
  <2>2. UNCHANGED <<tip, early, callCache, balanceRow, caller>>
    BY <1>8 DEF NodeReorgs
  <2> QED BY <2>1, <2>2, <1>1, <1>6, KnownKept
<1>9. CASE LedgerFollows
  <2>1. tip' \in Nat /\ tip <= tip' /\ UNCHANGED <<version, early, callCache, balanceRow, caller>>
    BY <1>9, <1>1 DEF LedgerFollows
  <2> QED BY <2>1, <1>1, <1>6, KnownKept
<1>10. ASSUME NEW c \in Readers, caller'[c].stage \notin Called, \A d \in Readers \ {c} : caller'[d] = caller[d],
              UNCHANGED <<tip, version, early, callCache, balanceRow>>
       PROVE  ExactInv'
  BY <1>4, <1>5, <1>10 DEF ExactInv
<1>11. CASE StakerTakes
  <2>1. UNCHANGED <<tip, version, early, callCache, balanceRow>>
    BY <1>11 DEF StakerTakes
  <2> DEFINE touches == {b \in Touches(finalTip) : b > done}
             r == [NoRequest EXCEPT !.stage = "call", !.block = Min(touches),
                                    !.hash = <<Min(touches), version[Min(touches)]>>]
  <2>2. r.stage \notin Called /\ Moves(Staker, r)
    BY <1>11 DEF StakerTakes, NoRequest, Called
  <2> HIDE DEF r
  <2>3. caller'[Staker].stage \notin Called /\ \A d \in Readers \ {Staker} : caller'[d] = caller[d]
    BY <2>2, <1>3 DEF Readers
  <2> QED BY <2>1, <2>3, <1>10 DEF Readers
<1>12. ASSUME NEW c \in Readers, AskBalance(c) \/ LookUp(c) \/ FindTouch(c) \/ LookUpAgain(c) \/ ReadHead(c) \/ ReadFails(c)
       PROVE  ExactInv'
  <2>1. UNCHANGED <<tip, version, early, callCache, balanceRow>>
    BY <1>12 DEF AskBalance, LookUp, FindTouch, LookUpAgain, ReadHead, ReadFails
  <2>2. \A v : Answered(c, v).stage \notin Called
    BY DEF Answered, NoRequest, Called
  <2>3. ASSUME NEW stage \in Stages \ Called, NEW b, NEW h
        PROVE  /\ [caller[c] EXCEPT !.stage = stage].stage \notin Called
               /\ [caller[c] EXCEPT !.stage = stage, !.block = b].stage \notin Called
               /\ [caller[c] EXCEPT !.stage = stage, !.block = b, !.hash = h].stage \notin Called
    BY <1>2 DEF CallerRecords
  <2>4. {"touch", "again", "head", "call"} \subseteq Stages \ Called
    BY DEF Stages, Called
  <2>5. caller'[c].stage \notin Called /\ \A d \in Readers \ {c} : caller'[d] = caller[d]
    <3>1. CASE AskBalance(c)
      <4>1. PICK at : Moves(c, [NoRequest EXCEPT !.stage = "rows", !.at = at])
        BY <3>1 DEF AskBalance
      <4> DEFINE r == [NoRequest EXCEPT !.stage = "rows", !.at = at]
      <4>2. Moves(c, r) /\ r.stage \notin Called
        BY <4>1 DEF NoRequest, Called
      <4> HIDE DEF r
      <4> QED BY <4>2, <1>3
    <3>2. CASE LookUp(c)
      BY <3>2, <1>3, <2>2, <2>3, <2>4 DEF LookUp
    <3>3. CASE FindTouch(c)
      <4> DEFINE touches == {b \in Touches(tip) : caller[c].at = LatestTag \/ b <= caller[c].at}
                 again == [caller[c] EXCEPT !.stage = "again", !.block = Max(touches),
                                            !.hash = <<Max(touches), version[Max(touches)]>>]
                 toHead == [caller[c] EXCEPT !.stage = "head"]
                 toCall == [caller[c] EXCEPT !.stage = "call", !.block = caller[c].at]
      <4>1. Moves(c, IF touches # {} THEN again ELSE IF caller[c].at = LatestTag THEN toHead ELSE toCall)
        BY <3>3 DEF FindTouch
      <4>2. again.stage \notin Called /\ toHead.stage \notin Called /\ toCall.stage \notin Called
        BY <2>3, <2>4
      <4> HIDE DEF again, toHead, toCall, touches
      <4> QED BY <4>1, <4>2, <1>3
    <3>4. CASE LookUpAgain(c)
      BY <3>4, <1>3, <2>2, <2>3, <2>4 DEF LookUpAgain
    <3>5. CASE ReadHead(c)
      BY <3>5, <1>3, <2>3, <2>4 DEF ReadHead
    <3>6. CASE ReadFails(c)
      BY <3>6, <1>3 DEF ReadFails, NoRequest, Called
    <3> QED BY <1>12, <3>1, <3>2, <3>3, <3>4, <3>5, <3>6
  <2> QED BY <2>1, <2>5, <1>10
<1>13. ASSUME NEW c \in Readers, CallNode(c) PROVE ExactInv'
  <2> DEFINE b == caller[c].block
  <2>1. caller[c].stage = "call" /\ b \in Blocks
    BY <1>13, <1>2 DEF CallNode
  <2>2. UNCHANGED <<tip, version, callCache, balanceRow>> /\ early \subseteq early'
    BY <1>13 DEF CallNode
  <2>3. Known \subseteq Known'
    BY <2>2, <1>4
  <2>4. ASSUME NEW stage, NEW v, <<b, v>> \in Known', Moves(c, [caller[c] EXCEPT !.stage = stage, !.value = v])
        PROVE  ExactInv'
    <3>1. caller'[c].block = b /\ caller'[c].value = v /\ \A d \in Readers \ {c} : caller'[d] = caller[d]
      <4> DEFINE r == [caller[c] EXCEPT !.stage = stage, !.value = v]
      <4>1. r.block = b /\ r.value = v
        BY <1>2 DEF CallerRecords
      <4>2. Moves(c, r)
        BY <2>4
      <4> HIDE DEF r
      <4> QED BY <4>1, <4>2, <1>3
    <3> QED BY <3>1, <2>2, <2>3, <2>4, <1>5 DEF ExactInv
  <2>5. CASE callCache[b] # None
    <3>1. Moves(c, [caller[c] EXCEPT !.stage = AfterCall(c), !.value = callCache[b]])
      BY <1>13, <2>5 DEF CallNode
    <3>2. <<b, callCache[b]>> \in Known'
      BY <2>1, <2>3, <2>5 DEF ExactInv
    <3> QED BY <3>1, <3>2, <2>4
  <2>6. CASE callCache[b] = None
    <3>1. /\ Moves(c, [caller[c] EXCEPT !.stage = "store", !.value = Balance(b)])
          /\ early' = early \cup IF b > tip THEN {b} ELSE {}
      BY <1>13, <2>6 DEF CallNode
    <3>2. <<b, Balance(b)>> \in Known'
      <4>1. ASSUME NEW a \in Blocks, a \in early' \/ a <= tip PROVE <<a, Balance(a)>> \in Known'
        <5>1. Balance(a) \in Pairs
          BY <1>1, BalanceOf
        <5>2. Balance(a)' = Balance(a)
          BY <2>2, <1>1, BalanceKept
        <5> QED BY <4>1, <5>1, <5>2, <2>2 DEF Known
      <4>2. b \in early' \/ b <= tip
        BY <3>1, <2>1, <1>1 DEF Blocks, HeightsTo
      <4> QED BY <4>1, <4>2, <2>1
    <3> QED BY <3>1, <3>2, <2>4
  <2> QED BY <2>5, <2>6
<1>14. ASSUME NEW c \in Readers, StoreCall(c) PROVE ExactInv'
  <2> DEFINE b == caller[c].block
  <2>1. caller[c].stage \in Called /\ b \in Blocks
    BY <1>14, <1>2 DEF StoreCall, Called
  <2>2. UNCHANGED <<tip, version, early, balanceRow>> /\ Moves(c, [caller[c] EXCEPT !.stage = AfterCall(c)])
    BY <1>14 DEF StoreCall
  <2>3. Known \subseteq Known'
    BY <2>2, <1>4
  <2>4. <<b, caller[c].value>> \in Known'
    BY <2>1, <2>3 DEF ExactInv
  <2>5. \A a \in Blocks : callCache'[a] = IF a = b /\ callCache[b] = None THEN caller[c].value ELSE callCache[a]
    BY <1>14, <2>1, <1>1 DEF StoreCall, Shape
  <2>6. /\ caller'[c].block = b /\ caller'[c].value = caller[c].value
        /\ \A d \in Readers \ {c} : caller'[d] = caller[d]
    BY <2>2, <1>2, <1>3 DEF CallerRecords
  <2>7. \A d \in Readers : caller'[d].stage \in Called => <<caller'[d].block, caller'[d].value>> \in Known'
    BY <2>3, <2>4, <2>6, <1>5
  <2>8. \A a \in Blocks : callCache'[a] # None => <<a, callCache'[a]>> \in Known'
    BY <2>3, <2>4, <2>5 DEF ExactInv
  <2> QED BY <2>2, <2>3, <2>7, <2>8 DEF ExactInv
<1>15. ASSUME NEW c \in Readers, ReadHeader(c) PROVE ExactInv'
  <2> DEFINE r == [caller[c] EXCEPT !.stage = "persist", !.hash = <<caller[c].block, version[caller[c].block]>>]
  <2>1. Moves(c, r) /\ UNCHANGED <<tip, version, early, callCache, balanceRow>>
    BY <1>15 DEF ReadHeader
  <2>2. caller[c].stage \in Called /\ Known \subseteq Known'
    BY <1>15, <2>1, <1>4 DEF ReadHeader, Called
  <2>3. /\ caller'[c].block = caller[c].block /\ caller'[c].value = caller[c].value
        /\ \A d \in Readers \ {c} : caller'[d] = caller[d]
    <3>1. r.block = caller[c].block /\ r.value = caller[c].value
      BY <1>2 DEF CallerRecords
    <3> HIDE DEF r
    <3> QED BY <2>1, <3>1, <1>3
  <2>4. <<caller'[c].block, caller'[c].value>> \in Known'
    BY <2>2, <2>3 DEF ExactInv
  <2> QED BY <2>1, <2>2, <2>3, <2>4, <1>5 DEF ExactInv
<1>16. ASSUME NEW c \in Readers, Persist(c) PROVE ExactInv'
  <2> DEFINE b == caller[c].block
             row == [value |-> caller[c].value, hash |-> caller[c].hash]
  <2>1. caller[c].stage \in Called /\ b \in Blocks
    BY <1>16, <1>2 DEF Persist, Called
  <2>2. UNCHANGED <<tip, version, early, callCache>>
    BY <1>16 DEF Persist
  <2>3. Known \subseteq Known'
    BY <2>2, <1>4
  <2>4. <<b, caller[c].value>> \in Known'
    BY <2>1, <2>3 DEF ExactInv
  <2>5. \A a \in Blocks : balanceRow'[a] = IF a = b THEN row ELSE balanceRow[a]
    BY <1>16, <1>1 DEF Persist, Shape
  <2>6. \A a \in Blocks : balanceRow'[a] # None => <<a, balanceRow'[a].value>> \in Known'
    BY <2>3, <2>4, <2>5 DEF ExactInv
  <2>7. caller'[c].stage \notin Called /\ \A d \in Readers \ {c} : caller'[d] = caller[d]
    <3>1. NoRequest.stage \notin Called /\ Answered(c, caller[c].value).stage \notin Called
      BY DEF Answered, NoRequest, Called
    <3>2. Moves(c, NoRequest) \/ Moves(c, Answered(c, caller[c].value))
      BY <1>16 DEF Persist
    <3>3. CASE Moves(c, NoRequest)
      BY <3>1, <3>3, <1>3
    <3>4. CASE Moves(c, Answered(c, caller[c].value))
      BY <3>1, <3>4, <1>3
    <3> QED BY <3>2, <3>3, <3>4
  <2>8. \A d \in Readers : caller'[d].stage \in Called => <<caller'[d].block, caller'[d].value>> \in Known'
    BY <2>3, <2>7, <1>5
  <2> QED BY <2>2, <2>3, <2>6, <2>8 DEF ExactInv
<1>17. CASE UNCHANGED gatewayReadVars
  BY <1>17, <1>4, <1>6 DEF gatewayReadVars
<1> QED BY <1>7, <1>8, <1>9, <1>11, <1>12, <1>13, <1>14, <1>15, <1>16, <1>17 DEF ReadsNext, CallerSteps

(* THEOREM RowsAreExact.  A row of a block of the ledger that nobody read before it
   was in the ledger holds the balance of that block, whoever wrote it and
   whichever blocks above the ledger were replaced meanwhile. *)
THEOREM RowsAreExact == ReadsSpec => []ExactUnlessReadEarly
<1>1. ReadsInit => ExactInv
  BY DEF ReadsInit, ExactInv, Blocks, NoRequest, Called
<1>2. AheadInv /\ ExactInv => ExactUnlessReadEarly
  <2> SUFFICES ASSUME AheadInv, ExactInv, NEW b \in HeightsTo(tip), balanceRow[b] # None, b \notin early
               PROVE  balanceRow[b].value = Balance(b)
    BY DEF ExactUnlessReadEarly
  <2>1. b \in Blocks
    BY DEF AheadInv, Shape, Blocks, HeightsTo
  <2>2. <<b, balanceRow[b].value>> \in Known
    BY <2>1 DEF ExactInv
  <2> QED BY <2>2 DEF Known
<1>3. ReadsSpec => [](AheadInv /\ ExactInv)
  BY AheadInit, AheadStep, <1>1, ExactStep, PTL DEF ReadsSpec
<1> QED BY <1>2, <1>3, PTL

-----------------------------------------------------------------------------
(* Types of the balances: a block is called, stored and persisted when the *)
(* node has it, and the staker never comes past finality.                  *)
ReaderRecords ==
  [stage : Stages, at : Nat \cup {LatestTag}, block : Nat, value : Balances \cup {None}, hash : Balances \cup {None}]

\* What a reader holds is of a block the node and, when it is to be persisted, the cache have.
Holds(c, r) ==
  /\ r \in ReaderRecords
  /\ r.stage \in Called => r.block \in HeightsTo(head) /\ r.value # None
  /\ r.stage \in {"header", "persist"} => callCache[r.block] # None
  /\ r.stage = "persist" => r.hash # None
  /\ c = Staker /\ r.stage \in Called \cup {"call"} => r.block <= finalTip

Tables ==
  /\ head \in Blocks /\ tip \in 0..head /\ finalTip \in 0..tip /\ done \in 0..finalTip
  /\ version \in [Blocks -> Versions]
  /\ \A b \in Blocks : version[b] <= version[head] /\ (b >= head => version[b] = version[head])
  /\ callCache \in [Blocks -> Balances \cup {None}]
  /\ \A b \in Blocks : balanceRow[b] # None =>
       b <= head /\ callCache[b] # None /\ balanceRow[b] \in [value : Balances, hash : Balances]
  /\ early \subseteq HeightsTo(head)

ReadsInv == AheadInv /\ Tables /\ \A c \in Readers : Holds(c, caller[c])

LEMMA BalancesAre == None \notin Balances /\ Balances \subseteq Pairs
BY DEF Balances, Versions, Pairs

\* A reader moves on: the tables only grow, and it holds what it should.
LEMMA HoldsOn ==
  ASSUME ReadsInv, NEW c \in Readers, NEW r, Moves(c, r), Holds(c, r)',
         head \in Nat /\ head' \in Nat /\ head <= head', finalTip' = finalTip,
         \A b \in Blocks : callCache[b] # None => callCache'[b] # None
  PROVE  (\A d \in Readers : Holds(d, caller[d]))'
<1>1. \A d \in Readers : caller'[d] = IF d = c THEN r ELSE caller[d]
  BY DEF Moves, ReadsInv, AheadInv, CallersFit
<1>2. ASSUME NEW d \in Readers, d # c PROVE Holds(d, caller[d])'
  <2>1. Holds(d, caller[d]) /\ caller'[d] = caller[d]
    BY <1>1, <1>2 DEF ReadsInv
  <2>2. HeightsTo(head) \subseteq HeightsTo(head') /\ HeightsTo(head) \subseteq Blocks
    BY DEF HeightsTo, Blocks, ReadsInv, Tables
  <2> QED BY <2>1, <2>2 DEF Holds, Called
<1>3. Holds(c, caller[c])'
  <2>1. caller'[c] = r
    BY <1>1
  <2> QED BY <2>1 DEF Holds
<1> QED BY <1>2, <1>3

\* The same when it leaves the tables alone, but for blocks that are called early.
LEMMA HoldsAlone ==
  ASSUME ReadsInv, NEW c \in Readers, NEW r, Moves(c, r), Holds(c, r), AheadInv',
         UNCHANGED <<head, version, tip, finalTip, callCache, balanceRow, done>>, early' \subseteq HeightsTo(head)
  PROVE  ReadsInv'
<1>1. Tables'
  BY DEF ReadsInv, Tables
<1>2. Holds(c, r)' /\ head \in Nat
  BY DEF Holds, ReadsInv, Tables, Blocks, HeightsTo
<1>3. (\A d \in Readers : Holds(d, caller[d]))'
  BY <1>2, HoldsOn
<1> QED BY <1>1, <1>3 DEF ReadsInv

\* The blocks of touches, and the balances, are those of the chain.
LEMMA TypedBalance ==
  ASSUME ReadsInv, NEW b \in Blocks
  PROVE  Balance(b) \in Balances /\ <<b, version[b]>> \in Balances
<1>1. b \in 0..TopBlock /\ \A m \in Blocks : m \in 0..TopBlock /\ version[m] \in Versions
  BY DEF ReadsInv, Tables, Blocks, HeightsTo
<1>2. 0 \in Versions /\ 0 \in 0..TopBlock
  BY DEF Versions
<1>3. Touches(b) \subseteq Blocks
  BY DEF Touches, HeightsTo, Blocks
<1>4. Touches(b) # {} => Max(Touches(b)) \in Blocks
  BY <1>3, BalanceOf DEF ReadsInv, AheadInv
<1>5. CASE Touches(b) = {}
  BY <1>1, <1>2, <1>5 DEF Balance, Balances
<1>6. CASE Touches(b) # {}
  BY <1>1, <1>4, <1>6 DEF Balance, Balances
<1> QED BY <1>5, <1>6

LEMMA ReadsInvStart == ReadsInit => ReadsInv
<1> SUFFICES ASSUME ReadsInit PROVE ReadsInv
  OBVIOUS
<1>1. Tables
  BY DEF ReadsInit, Tables, Blocks, HeightsTo, Versions
<1>2. Holds(Staker, NoRequest) /\ \A c \in Readers : Holds(c, NoRequest)
  BY DEF Holds, NoRequest, ReaderRecords, Stages, Called
<1> QED BY <1>1, <1>2, AheadInit DEF ReadsInv, ReadsInit

LEMMA ReadsInvStep == ReadsInv /\ [ReadsNext]_gatewayReadVars => ReadsInv'
<1> SUFFICES ASSUME ReadsInv, [ReadsNext]_gatewayReadVars PROVE ReadsInv'
  OBVIOUS
<1>a. AheadInv'
  BY AheadStep DEF ReadsInv
<1> DEFINE Same == /\ UNCHANGED <<head, version, tip, finalTip, callCache, balanceRow>>
                   /\ done' = done /\ early' = early
<1>b. /\ Blocks \subseteq Nat /\ 0 \in Nat /\ head \in Nat /\ tip \in Nat /\ finalTip \in Nat /\ done \in Nat
      /\ head \in Blocks /\ HeightsTo(head) \subseteq Blocks /\ early \subseteq HeightsTo(head)
      /\ DOMAIN balanceRow = Blocks
  BY DEF ReadsInv, AheadInv, Shape, Tables, Blocks, HeightsTo
<1>c. ASSUME NEW c \in Readers
      PROVE  /\ Holds(c, caller[c]) /\ caller[c] \in ReaderRecords /\ Holds(c, NoRequest) /\ Fits(c, caller[c])
             /\ \A v \in Balances \cup {None} : Holds(c, Answered(c, v))
  <2>1. Holds(c, caller[c]) /\ caller[c] \in ReaderRecords /\ Fits(c, caller[c])
    BY DEF ReadsInv, Holds, AheadInv, CallersFit
  <2>2. Holds(c, NoRequest)
    BY DEF Holds, NoRequest, ReaderRecords, Stages, Called
  <2>3. ASSUME NEW v \in Balances \cup {None} PROVE Holds(c, Answered(c, v))
    BY <2>1 DEF Holds, Answered, NoRequest, ReaderRecords, Stages, Called
  <2> QED BY <2>1, <2>2, <2>3
<1>d. ASSUME NEW c \in Readers, NEW r, Moves(c, r), Holds(c, r), Same PROVE ReadsInv'
  BY <1>a, <1>b, <1>d, HoldsAlone
<1>e. ASSUME caller' = caller, Tables', head <= head', head' \in Nat, callCache' = callCache, finalTip <= finalTip', finalTip' \in Nat
      PROVE  ReadsInv'
  <2>1. HeightsTo(head) \subseteq HeightsTo(head')
    BY <1>b, <1>e DEF HeightsTo
  <2>2. ASSUME NEW c \in Readers PROVE Holds(c, caller[c])'
    <3>1. Holds(c, caller[c]) /\ caller'[c] = caller[c]
      BY <1>c, <1>e
    <3>2. caller[c].block \in Nat
      BY <1>c DEF ReaderRecords
    <3> QED BY <1>b, <1>e, <2>1, <3>1, <3>2 DEF Holds
  <2> QED BY <1>a, <1>e, <2>2 DEF ReadsInv
<1>1. CASE NodeAdvances
  <2>1. head < TopBlock /\ head' = head + 1 /\ UNCHANGED <<version, tip, finalTip, callCache, balanceRow, caller, done, early>>
    BY <1>1 DEF NodeAdvances
  <2>2. head' \in Blocks /\ head' >= head
    BY <1>b, <2>1 DEF Blocks, HeightsTo
  <2>3. \A b \in Blocks : version[b] <= version[head'] /\ (b >= head' => version[b] = version[head'])
    BY <1>b, <2>1, <2>2 DEF ReadsInv, Tables
  <2>4. Tables'
    BY <1>b, <2>1, <2>2, <2>3 DEF ReadsInv, Tables, HeightsTo
  <2> QED BY <1>b, <1>e, <2>1, <2>4
<1>2. CASE NodeReorgs
  <2>1. PICK b \in HeightsTo(head) :
            /\ version[head] < MaxReorgs
            /\ version' = [c \in DOMAIN version |-> IF c >= b THEN version[c] + 1 ELSE version[c]]
    BY <1>2 DEF NodeReorgs
  <2>2. UNCHANGED <<head, tip, finalTip, callCache, balanceRow, caller, done, early>>
    BY <1>2 DEF NodeReorgs
  <2>3. DOMAIN version = Blocks /\ \A c \in Blocks : version[c] \in Nat /\ version[c] <= version[head] /\ (c >= head => version[c] = version[head])
    BY DEF ReadsInv, Tables, Versions
  <2>4. \A c \in Blocks : version'[c] = IF c >= b THEN version[c] + 1 ELSE version[c]
    BY <2>1, <2>3
  <2>5. b <= head /\ b \in Nat
    BY <1>b, <2>1 DEF HeightsTo
  <2>6. version'[head] = version[head] + 1
    BY <1>b, <2>4, <2>5
  <2>7. \A c \in Blocks : version'[c] <= version'[head] /\ (c >= head => version'[c] = version'[head])
    BY <1>b, <2>3, <2>4, <2>5, <2>6
  <2>8. version' \in [Blocks -> Versions]
    <3>1. \A c \in Blocks : version'[c] \in Versions
      BY <1>b, <2>1, <2>3, <2>4 DEF Versions
    <3> QED BY <2>1, <2>3, <3>1
  <2>9. Tables'
    BY <2>2, <2>7, <2>8 DEF ReadsInv, Tables
  <2> QED BY <1>b, <1>e, <2>2, <2>9
<1>3. CASE LedgerFollows
  <2>1. /\ UNCHANGED <<head, version, callCache, balanceRow, caller, done, early>>
        /\ \/ tip < head /\ tip' = tip + 1 /\ UNCHANGED finalTip
           \/ finalTip < tip /\ finalTip' = finalTip + 1 /\ UNCHANGED tip
    BY <1>3 DEF LedgerFollows
  <2>2. tip' \in 0..head /\ finalTip' \in 0..tip' /\ done \in 0..finalTip' /\ finalTip <= finalTip'
    BY <1>b, <2>1 DEF ReadsInv, Tables
  <2>3. Tables'
    BY <2>1, <2>2 DEF ReadsInv, Tables
  <2> QED BY <1>b, <1>e, <2>1, <2>2, <2>3
<1>4. CASE StakerTakes
  <2> DEFINE touches == {b \in Touches(finalTip) : b > done}
             m == Min(touches)
             r == [NoRequest EXCEPT !.stage = "call", !.block = m, !.hash = <<m, version[m]>>]
  <2>1. touches # {} /\ Moves(Staker, r) /\ Same
    BY <1>4 DEF StakerTakes
  <2>2. touches \in SUBSET HeightsTo(finalTip) /\ touches \in SUBSET Nat
    BY DEF Touches, HeightsTo
  <2>3. m \in HeightsTo(finalTip)
    BY <2>1, <2>2, MinOf
  <2>4. m \in Blocks /\ m \in Nat /\ m <= finalTip
    BY <1>b, <2>3 DEF HeightsTo, ReadsInv, Tables, Blocks
  <2>5. <<m, version[m]>> \in Balances
    BY <2>4, TypedBalance
  <2> HIDE DEF m
  <2>6. Holds(Staker, r)
    BY <2>4, <2>5 DEF Holds, NoRequest, ReaderRecords, Stages, Called
  <2> QED BY <2>1, <2>6, <1>d DEF Readers
<1>5. ASSUME NEW c \in Readers, AskBalance(c) PROVE ReadsInv'
  <2>1. PICK at \in Blocks \cup {LatestTag} : Moves(c, [NoRequest EXCEPT !.stage = "rows", !.at = at])
    BY <1>5 DEF AskBalance, Blocks
  <2>2. Holds(c, [NoRequest EXCEPT !.stage = "rows", !.at = at])
    BY <1>b, <2>1 DEF Holds, NoRequest, ReaderRecords, Stages, Called
  <2>3. Same
    BY <1>5 DEF AskBalance
  <2> QED BY <2>1, <2>2, <2>3, <1>d
<1>r. ASSUME NEW at \in Nat \cup {LatestTag}, RowsAt(at) # {} PROVE balanceRow[Max(RowsAt(at))].value \in Balances
  <2>1. RowsAt(at) \in SUBSET (0..TopBlock) /\ RowsAt(at) \subseteq Blocks /\ \A b \in RowsAt(at) : balanceRow[b] # None
    BY DEF RowsAt, HeightsTo, Blocks
  <2>2. Max(RowsAt(at)) \in RowsAt(at)
    BY <1>r, <2>1, MaxOf
  <2>3. balanceRow[Max(RowsAt(at))] \in [value : Balances, hash : Balances]
    BY <2>1, <2>2 DEF ReadsInv, Tables
  <2> QED BY <2>3
<1>6. ASSUME NEW c \in Readers, LookUp(c) PROVE ReadsInv'
  <2> DEFINE at == caller[c].at
             v == balanceRow[Max(RowsAt(at))].value
  <2>1. at \in Nat \cup {LatestTag} /\ caller[c] \in ReaderRecords
    BY <1>c DEF ReaderRecords
  <2>2. Same /\ Moves(c, IF RowsAt(at) = {} THEN [caller[c] EXCEPT !.stage = "touch"] ELSE Answered(c, v))
    BY <1>6 DEF LookUp
  <2>3. CASE RowsAt(at) = {}
    <3>1. Holds(c, [caller[c] EXCEPT !.stage = "touch"])
      BY <2>1 DEF Holds, ReaderRecords, Stages, Called
    <3> QED BY <2>2, <2>3, <3>1, <1>d
  <2>4. CASE RowsAt(at) # {}
    <3>1. Holds(c, Answered(c, v))
      BY <2>1, <2>4, <1>c, <1>r
    <3> QED BY <2>2, <2>4, <3>1, <1>d
  <2> QED BY <2>3, <2>4
<1>7. ASSUME NEW c \in Readers, FindTouch(c) PROVE ReadsInv'
  <2> DEFINE at == caller[c].at
             touches == {b \in Touches(tip) : at = LatestTag \/ b <= at}
             m == Max(touches)
             found == [caller[c] EXCEPT !.stage = "again", !.block = m, !.hash = <<m, version[m]>>]
             asks == [caller[c] EXCEPT !.stage = "head"]
             calls == [caller[c] EXCEPT !.stage = "call", !.block = at]
  <2>1. /\ caller[c] \in ReaderRecords /\ at \in Nat \cup {LatestTag} /\ c # Staker
    BY <1>7, <1>c DEF ReaderRecords, FindTouch, Fits, Called
  <2>2. Same /\ Moves(c, IF touches # {} THEN found ELSE IF at = LatestTag THEN asks ELSE calls)
    BY <1>7 DEF FindTouch
  <2>3. CASE touches # {}
    <3>1. touches \in SUBSET (0..tip) /\ touches \in SUBSET Blocks
      BY DEF Touches, HeightsTo, ReadsInv, Tables, Blocks
    <3>2. m \in Blocks
      BY <1>b, <2>3, <3>1, MaxOf
    <3>3. <<m, version[m]>> \in Balances /\ m \in Nat
      BY <1>b, <3>2, TypedBalance
    <3>4. Moves(c, found)
      BY <2>2, <2>3
    <3> HIDE DEF m, touches
    <3>5. Holds(c, found)
      BY <2>1, <3>3 DEF Holds, ReaderRecords, Stages, Called
    <3> QED BY <2>2, <3>4, <3>5, <1>d
  <2>4. CASE touches = {} /\ at = LatestTag
    <3>1. Holds(c, asks)
      BY <2>1 DEF Holds, ReaderRecords, Stages, Called
    <3> QED BY <2>2, <2>4, <3>1, <1>d
  <2>5. CASE touches = {} /\ at # LatestTag
    <3>1. at \in Nat
      BY <2>1, <2>5
    <3>2. calls \in ReaderRecords /\ calls.stage = "call"
      BY <2>1, <3>1 DEF ReaderRecords, Stages
    <3>3. Moves(c, calls)
      BY <2>2, <2>5
    <3> HIDE DEF calls
    <3>4. Holds(c, calls)
      BY <2>1, <3>2 DEF Holds, Called
    <3> QED BY <2>2, <3>3, <3>4, <1>d
  <2> QED BY <2>3, <2>4, <2>5
<1>8. ASSUME NEW c \in Readers, LookUpAgain(c) PROVE ReadsInv'
  <2> DEFINE at == caller[c].block
             v == balanceRow[Max(RowsAt(at))].value
  <2>1. at \in Nat /\ caller[c] \in ReaderRecords /\ c # Staker
    BY <1>8, <1>c DEF ReaderRecords, LookUpAgain, Fits, Called
  <2>2. Same /\ Moves(c, IF RowsAt(at) = {} THEN [caller[c] EXCEPT !.stage = "call"] ELSE Answered(c, v))
    BY <1>8 DEF LookUpAgain
  <2>3. CASE RowsAt(at) = {}
    <3>1. Holds(c, [caller[c] EXCEPT !.stage = "call"])
      BY <2>1 DEF Holds, ReaderRecords, Stages, Called
    <3> QED BY <2>2, <2>3, <3>1, <1>d
  <2>4. CASE RowsAt(at) # {}
    <3>1. Holds(c, Answered(c, v))
      BY <2>1, <2>4, <1>c, <1>r
    <3> QED BY <2>2, <2>4, <3>1, <1>d
  <2> QED BY <2>3, <2>4
<1>9. ASSUME NEW c \in Readers, ReadHead(c) PROVE ReadsInv'
  <2>1. Same /\ Moves(c, [caller[c] EXCEPT !.stage = "call", !.block = head]) /\ c # Staker
    BY <1>9, <1>c DEF ReadHead, Fits, Called
  <2>2. Holds(c, [caller[c] EXCEPT !.stage = "call", !.block = head])
    BY <1>b, <1>c, <2>1 DEF Holds, ReaderRecords, Stages, Called
  <2> QED BY <2>1, <2>2, <1>d
<1>s. ASSUME NEW c \in Readers, NEW st \in Called, NEW v \in Balances, caller[c].block \in HeightsTo(head),
             caller[c].stage \in Called \cup {"call"},
             st \in {"header", "persist"} => callCache[caller[c].block] # None,
             st = "persist" => caller[c].hash # None
      PROVE  Holds(c, [caller[c] EXCEPT !.stage = st, !.value = v])
  <2> DEFINE r == [caller[c] EXCEPT !.stage = st, !.value = v]
  <2>1. /\ r \in ReaderRecords /\ r.stage = st /\ r.value = v /\ r.block = caller[c].block /\ r.hash = caller[c].hash
    BY <1>s, <1>c DEF ReaderRecords, Stages, Called
  <2>2. c = Staker => caller[c].block <= finalTip
    BY <1>s, <1>c DEF Holds
  <2> HIDE DEF r
  <2>3. Holds(c, r)
    BY <1>s, <2>1, <2>2, BalancesAre DEF Holds
  <2> QED BY <2>3 DEF r
<1>10. ASSUME NEW c \in Readers, CallNode(c) PROVE ReadsInv'
  <2> DEFINE b == caller[c].block
  <2>1. /\ caller[c].stage = "call" /\ b <= head /\ b \in Blocks /\ b \in HeightsTo(head)
        /\ UNCHANGED <<head, version, tip, finalTip, callCache, balanceRow, done>>
        /\ early' \subseteq early \cup {b}
    BY <1>b, <1>10, <1>c DEF CallNode, Fits, Blocks, HeightsTo
  <2>2. early' \subseteq HeightsTo(head)
    BY <1>b, <2>1
  <2>3. CASE callCache[b] # None
    <3>1. Moves(c, [caller[c] EXCEPT !.stage = AfterCall(c), !.value = callCache[b]])
      BY <1>10, <2>3 DEF CallNode
    <3>2. callCache[b] \in Balances /\ AfterCall(c) \in Called /\ (AfterCall(c) = "persist" => caller[c].hash # None)
      BY <2>1, <2>3 DEF AfterCall, Called, ReadsInv, Tables
    <3>3. Holds(c, [caller[c] EXCEPT !.stage = AfterCall(c), !.value = callCache[b]])
      BY <2>1, <2>3, <3>2, <1>s
    <3> QED BY <1>a, <2>1, <2>2, <3>1, <3>3, HoldsAlone
  <2>4. CASE callCache[b] = None
    <3>1. Moves(c, [caller[c] EXCEPT !.stage = "store", !.value = Balance(b)])
      BY <1>10, <2>4 DEF CallNode
    <3>2. Balance(b) \in Balances /\ "store" \in Called
      BY <2>1, TypedBalance DEF Called
    <3>3. Holds(c, [caller[c] EXCEPT !.stage = "store", !.value = Balance(b)])
      BY <2>1, <3>2, <1>s
    <3> QED BY <1>a, <2>1, <2>2, <3>1, <3>3, HoldsAlone
  <2> QED BY <2>3, <2>4
<1>11. ASSUME NEW c \in Readers, StoreCall(c) PROVE ReadsInv'
  <2> DEFINE b == caller[c].block
             v == caller[c].value
  <2>0. PICK r : r = [caller[c] EXCEPT !.stage = AfterCall(c)]
    OBVIOUS
  <2>1. /\ caller[c].stage = "store" /\ b \in HeightsTo(head) /\ b \in Blocks /\ v \in Balances
        /\ callCache' = [callCache EXCEPT ![b] = IF @ = None THEN v ELSE @] /\ Moves(c, r)
        /\ UNCHANGED <<head, version, tip, finalTip, balanceRow, done, early>>
    BY <1>b, <1>11, <1>c, <2>0 DEF StoreCall, Holds, Called, ReaderRecords
  <2>2. callCache \in [Blocks -> Balances \cup {None}]
    BY DEF ReadsInv, Tables
  <2>3. callCache' \in [Blocks -> Balances \cup {None}] /\ callCache'[b] # None
        /\ \A d \in Blocks : callCache[d] # None => callCache'[d] # None
    <3> HIDE DEF b, v
    <3> QED BY <2>1, <2>2, BalancesAre
  <2>4. Tables'
    BY <2>1, <2>3 DEF ReadsInv, Tables
  <2>5. /\ r \in ReaderRecords /\ r.stage = AfterCall(c) /\ r.value = v /\ r.block = b /\ r.hash = caller[c].hash
        /\ AfterCall(c) \in {"header", "persist"} /\ (AfterCall(c) = "persist" => caller[c].hash # None)
    BY <1>c, <2>0 DEF ReaderRecords, Stages, AfterCall
  <2>6. c = Staker => b <= finalTip
    BY <2>1, <1>c DEF Holds, Called
  <2> HIDE DEF b, v
  <2>7. Holds(c, r)'
    BY <2>1, <2>3, <2>5, <2>6, BalancesAre DEF Holds
  <2> QED BY <1>a, <1>b, <2>1, <2>3, <2>4, <2>7, HoldsOn DEF ReadsInv
<1>12. ASSUME NEW c \in Readers, ReadHeader(c) PROVE ReadsInv'
  <2> DEFINE b == caller[c].block
             r == [caller[c] EXCEPT !.stage = "persist", !.hash = <<b, version[b]>>]
  <2>1. Same /\ Moves(c, r) /\ caller[c].stage = "header"
    BY <1>12 DEF ReadHeader
  <2>2. /\ b \in HeightsTo(head) /\ b \in Blocks /\ callCache[b] # None /\ caller[c].value # None
        /\ caller[c] \in ReaderRecords /\ (c = Staker => b <= finalTip)
    BY <1>b, <1>c, <2>1 DEF Holds, Called
  <2>3. <<b, version[b]>> \in Balances
    BY <2>2, TypedBalance
  <2>4. /\ r \in ReaderRecords /\ r.stage = "persist" /\ r.block = b /\ r.value = caller[c].value /\ r.hash = <<b, version[b]>>
    BY <2>2, <2>3 DEF ReaderRecords, Stages
  <2> HIDE DEF r
  <2>5. Holds(c, r)
    BY <2>2, <2>3, <2>4, BalancesAre DEF Holds
  <2> QED BY <2>1, <2>5, <1>d
<1>13. ASSUME NEW c \in Readers, Persist(c) PROVE ReadsInv'
  <2> DEFINE b == caller[c].block
             row == [value |-> caller[c].value, hash |-> caller[c].hash]
  <2>1. /\ caller[c].stage = "persist" /\ balanceRow' = [balanceRow EXCEPT ![b] = row]
        /\ UNCHANGED <<head, version, tip, finalTip, callCache, early>>
    BY <1>13 DEF Persist
  <2>2. /\ b \in HeightsTo(head) /\ b \in Blocks /\ b <= head /\ callCache[b] # None
        /\ caller[c].value \in Balances /\ caller[c].hash \in Balances /\ (c = Staker => b <= finalTip)
    BY <1>b, <1>c, <2>1 DEF Holds, Called, ReaderRecords, HeightsTo
  <2>r. PICK r : r = IF c = Staker THEN NoRequest ELSE Answered(c, caller[c].value)
    OBVIOUS
  <2>3. done' \in {b, done} /\ (done' = b => c = Staker \/ b = done) /\ Moves(c, r)
    BY <1>13, <2>r DEF Persist
  <2>4. row \in [value : Balances, hash : Balances]
    BY <2>2
  <2>5. done' \in 0..finalTip
    BY <1>b, <2>2, <2>3 DEF ReadsInv, Tables, Blocks, HeightsTo
  <2> HIDE DEF row
  <2>6. \A d \in Blocks : balanceRow'[d] = IF d = b THEN row ELSE balanceRow[d]
    BY <1>b, <2>1
  <2>7. Tables'
    BY <2>1, <2>2, <2>4, <2>5, <2>6 DEF ReadsInv, Tables
  <2>8. Holds(c, r)
    BY <1>c, <2>2, <2>r
  <2>9. Holds(c, r)'
    BY <2>1, <2>8 DEF Holds
  <2> QED BY <1>a, <1>b, <2>1, <2>3, <2>7, <2>8, <2>9, HoldsOn DEF ReadsInv
<1>14. ASSUME NEW c \in Readers, ReadFails(c) PROVE ReadsInv'
  BY <1>14, <1>c, <1>d DEF ReadFails
<1>15. CASE UNCHANGED gatewayReadVars
  <2>1. Tables'
    BY <1>15 DEF gatewayReadVars, ReadsInv, Tables
  <2> QED BY <1>15, <1>b, <1>e, <2>1 DEF gatewayReadVars
<1> QED BY <1>1, <1>2, <1>3, <1>4, <1>5, <1>6, <1>7, <1>8, <1>9, <1>10, <1>11, <1>12, <1>13, <1>14, <1>15
     DEF ReadsNext, CallerSteps

LEMMA ReadsTypes == ReadsInv => ReadsTypeOK
<1> SUFFICES ASSUME ReadsInv PROVE ReadsTypeOK
  OBVIOUS
<1>1. \A c \in Readers : caller[c].stage \in Stages /\ caller[c].value \in Balances \cup {None}
  BY DEF ReadsInv, Holds, ReaderRecords
<1>2. head \in 1..TopBlock /\ tip \in 0..head /\ finalTip \in 0..tip /\ done \in 0..finalTip
  BY DEF ReadsInv, Tables, Blocks, HeightsTo
<1>3. version \in [HeightsTo(TopBlock) -> Versions] /\ callCache \in [HeightsTo(TopBlock) -> Balances \cup {None}]
  BY DEF ReadsInv, Tables, Blocks
<1>4. /\ early \subseteq HeightsTo(head)
      /\ \A b \in HeightsTo(TopBlock) : balanceRow[b] # None =>
            b <= head /\ callCache[b] # None /\ balanceRow[b] \in [value : Balances, hash : Balances]
  BY DEF ReadsInv, Tables, Blocks
<1> QED BY <1>1, <1>2, <1>3, <1>4 DEF ReadsTypeOK

-----------------------------------------------------------------------------
(* THEOREM ServingTyped.  The four parts stay within their types and limits: no more
   calls are in flight than the process and each task have permits, a backoff is never
   longer than the longest, a loop never counts more deaths than there were, and the
   staker, finality, the ledger and the node follow each other in that order. *)
THEOREM ServingTyped == ServingSpec => []ServingTypeOK
<1> USE RpcAssumption
<1> DEFINE Inv == RpcInv /\ Permits /\ DaemonTypes /\ ReadsInv
<1>1. ServingInit => Inv
  BY RpcStarts, PermitsStart, DaemonTypesStart, ReadsInvStart DEF ServingInit
<1>2. Inv /\ [ServingNext]_servingVars => Inv'
  <2> SUFFICES ASSUME Inv, [ServingNext]_servingVars PROVE Inv'
    OBVIOUS
  <2>1. [RpcNext]_rpcVars /\ [DaemonNext]_daemonVars /\ [ReadsNext]_gatewayReadVars
    BY DEF ServingNext, RpcSteps, DaemonSteps, PageSteps, BalanceSteps, servingVars
  <2> QED BY <2>1, RpcStep, PermitsStep, DaemonTypesStep, ReadsInvStep
<1>3. Inv => ServingTypeOK
  BY RpcTypes, ReadsTypes DEF ServingTypeOK, DaemonTypes
<1> HIDE DEF Inv
<1> QED BY <1>1, <1>2, <1>3, PTL DEF ServingSpec
=============================================================================
