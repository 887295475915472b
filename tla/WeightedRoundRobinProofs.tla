---------------------- MODULE WeightedRoundRobinProofs ----------------------
(***************************************************************************)
(* Proofs about module WeightedRoundRobin, for any list of backends, any   *)
(* number of threads, any width of the counter and any number of calls.    *)
(*                                                                         *)
(* The first part is about the cycle that the constructor computes, the    *)
(* second about the calls that walk it.                                    *)
(***************************************************************************)
EXTENDS WeightedRoundRobin, RingProofs, InductionLemmas

-----------------------------------------------------------------------------
(* The fold behind Cycle, as a function on the sets of positions that are  *)
(* still to be folded.                                                     *)
FoldStep(g, s, bs) == IF s = {} THEN <<>> ELSE g[s \ {Max(s)}] \o Repeat(bs[Max(s)])
IsFold(g, bs, m) == g = [s \in SUBSET (1..m) |-> FoldStep(g, s, bs)]

LEMMA MaxOf ==
  ASSUME NEW m \in Nat, NEW s \in SUBSET (1..m), m \in s
  PROVE  Max(s) = m
<1>1. \A x \in s : x <= m /\ x \in Nat
  OBVIOUS
<1>2. \A x \in s : (\A y \in s : x >= y) <=> x = m
  BY <1>1
<1> QED
  BY <1>1, <1>2 DEF Max

LEMMA FoldExists ==
  ASSUME NEW bs PROVE \A m \in Nat : \E g : IsFold(g, bs, m)
<1> DEFINE T == {m \in Nat : \E g : IsFold(g, bs, m)}
<1>1. 0 \in T
  <2> DEFINE g == [s \in SUBSET (1..0) |-> <<>>]
  <2>0. \A s \in SUBSET (1..0) : s = {}
    OBVIOUS
  <2>1. \A s \in SUBSET (1..0) : FoldStep(g, s, bs) = <<>>
    BY <2>0 DEF FoldStep
  <2>2. IsFold(g, bs, 0)
    BY <2>1, Zenon DEF IsFold
  <2> QED
    BY <2>2
<1>2. ASSUME NEW m \in Nat, m \in T PROVE m + 1 \in T
  <2>1. PICK f : IsFold(f, bs, m)
    BY <1>2
  <2> DEFINE g == [s \in SUBSET (1..(m + 1)) |->
                     IF m + 1 \in s THEN f[s \ {m + 1}] \o Repeat(bs[m + 1]) ELSE f[s]]
  <2>2. ASSUME NEW s \in SUBSET (1..m) PROVE g[s] = f[s] /\ f[s] = FoldStep(f, s, bs)
    <3>1. s \in SUBSET (1..(m + 1)) /\ m + 1 \notin s
      OBVIOUS
    <3> QED
      BY <2>1, <3>1 DEF IsFold
  <2>3. ASSUME NEW s \in SUBSET (1..(m + 1)) PROVE g[s] = FoldStep(g, s, bs)
    <3>1. CASE m + 1 \in s
      <4>1. Max(s) = m + 1
        BY <3>1, MaxOf
      <4>2. s \ {m + 1} \in SUBSET (1..m)
        OBVIOUS
      <4>3. g[s \ {m + 1}] = f[s \ {m + 1}]
        BY <2>2, <4>2
      <4>4. g[s] = f[s \ {m + 1}] \o Repeat(bs[m + 1])
        BY <3>1
      <4> HIDE DEF g
      <4> QED
        BY <3>1, <4>1, <4>3, <4>4 DEF FoldStep
    <3>2. CASE m + 1 \notin s
      <4>0. s \in SUBSET (1..m)
        BY <3>2
      <4>1. s \in SUBSET (1..m) /\ s \ {Max(s)} \in SUBSET (1..m)
        BY <4>0, Zenon
      <4>2. g[s \ {Max(s)}] = f[s \ {Max(s)}] /\ g[s] = FoldStep(f, s, bs)
        BY <2>2, <4>1
      <4> HIDE DEF g
      <4> QED
        BY <4>2 DEF FoldStep
    <3> QED
      BY <3>1, <3>2
  <2>4. IsFold(g, bs, m + 1)
    BY <2>3 DEF IsFold
  <2> QED
    BY <2>4
<1> HIDE DEF T
<1>3. \A m \in Nat : m \in T
  BY <1>1, <1>2, SetInduction
<1> QED
  BY <1>3 DEF T

LEMMA CycleIsFold ==
  ASSUME NEW S, NEW bs \in Seq(S)
  PROVE  \E g : IsFold(g, bs, Len(bs)) /\ Cycle(bs) = g[1..Len(bs)]
<1> DEFINE g == CHOOSE g : IsFold(g, bs, Len(bs))
<1>1. Len(bs) \in Nat /\ DOMAIN bs = 1..Len(bs)
  OBVIOUS
<1>2. IsFold(g, bs, Len(bs))
  BY <1>1, FoldExists, Zenon
<1>3. Cycle(bs) = g[1..Len(bs)]
  BY <1>1, Zenon DEF Cycle, FoldLeft, MapThenFoldSet, IsFold, FoldStep
<1> QED
  BY <1>2, <1>3

-----------------------------------------------------------------------------
AreBackends(bs) == bs \in Seq([address : Elements, weight : Nat])

LEMMA BackendOf ==
  ASSUME NEW bs, AreBackends(bs), NEW i \in 1..Len(bs)
  PROVE  bs[i].address \in Elements /\ bs[i].weight \in Nat
<1> DEFINE S == [address : Elements, weight : Nat]
<1>1. bs \in Seq(S)
  BY DEF AreBackends
<1> HIDE DEF S
<1>2. bs[i] \in S
  BY <1>1
<1> QED
  BY <1>2 DEF S

(* The cycle as the loop of WeightedRoundRobin::new builds it: h[m] is     *)
(* what the first m backends give.                                         *)
Builds(h, bs) ==
  /\ h[0] = <<>>
  /\ \A m \in 1..Len(bs) : h[m] = h[m - 1] \o Repeat(bs[m])
  /\ h[Len(bs)] = Cycle(bs)

LEMMA CycleIsBuilt ==
  ASSUME NEW bs, AreBackends(bs) PROVE \E h : Builds(h, bs)
<1> DEFINE n == Len(bs)
<1>1. n \in Nat
  BY DEF AreBackends
<1>2. PICK g : IsFold(g, bs, n) /\ Cycle(bs) = g[1..n]
  BY CycleIsFold DEF AreBackends
<1> DEFINE h == [m \in 0..n |-> g[1..m]]
<1>3. ASSUME NEW m \in 0..n PROVE g[1..m] = FoldStep(g, 1..m, bs)
  <2>1. 1..m \in SUBSET (1..n)
    BY <1>1
  <2> QED
    BY <1>2, <2>1 DEF IsFold
<1>4. h[0] = <<>>
  <2>1. 0 \in 0..n /\ 1..0 = {}
    BY <1>1
  <2> QED
    BY <1>3, <2>1 DEF FoldStep
<1>5. ASSUME NEW m \in 1..n PROVE h[m] = h[m - 1] \o Repeat(bs[m])
  <2>1. m \in 0..n /\ m - 1 \in 0..n /\ m \in 1..m /\ m \in Nat
    BY <1>1
  <2>2. Max(1..m) = m
    BY <2>1, MaxOf
  <2>3. (1..m) \ {m} = 1..(m - 1) /\ 1..m # {}
    <3>1. ASSUME NEW k PROVE k \in (1..m) \ {m} <=> k \in 1..(m - 1)
      BY <2>1
    <3> QED
      BY <2>1, <3>1, Zenon
  <2>4. g[1..m] = g[1..(m - 1)] \o Repeat(bs[m])
    BY <1>3, <2>1, <2>2, <2>3 DEF FoldStep
  <2> QED
    BY <2>1, <2>4
<1>6. n \in 0..n
  BY <1>1
<1>7. h[n] = Cycle(bs)
  BY <1>2, <1>6
<1> HIDE DEF h
<1>8. Builds(h, bs)
  BY <1>4, <1>5, <1>7 DEF Builds
<1> QED
  BY <1>8

(* Each request of a turn has a slot: one of the backend's weight.         *)
Slots(bs, I) == {p \in I \X Nat : p[2] \in 1..bs[p[1]].weight}

LEMMA SlotsOf ==
  ASSUME NEW bs, NEW I, NEW i \in I, NEW w \in Nat, w = bs[i].weight,
         IsFiniteSet(Slots(bs, I \ {i}))
  PROVE  /\ IsFiniteSet(Slots(bs, I))
         /\ Cardinality(Slots(bs, I)) = Cardinality(Slots(bs, I \ {i})) + w
<1> DEFINE New == {i} \X (1..w)
           Old == Slots(bs, I \ {i})
<1>1. Slots(bs, I) = Old \cup New /\ Old \cap New = {}
  BY DEF Slots
<1>2. IsFiniteSet(New) /\ Cardinality(New) = w
  <2> DEFINE f == [k \in 1..w |-> <<i, k>>]
  <2>0. f \in [1..w -> New] /\ \A k \in 1..w : f[k] = <<i, k>>
    OBVIOUS
  <2>1. f \in Bijection(1..w, New)
    <3> HIDE DEF f
    <3>1. \A p \in New : p[2] \in 1..w /\ f[p[2]] = p
      BY <2>0
    <3>2. \A k, l \in 1..w : f[k] = f[l] => k = l
      BY <2>0
    <3> QED
      BY <2>0, <3>1, <3>2, Zenon DEF Bijection, Injection, Surjection, IsInjective
  <2>2. ExistsBijection(1..w, New)
    BY <2>1 DEF ExistsBijection
  <2>3. IsFiniteSet(1..w) /\ Cardinality(1..w) = w
    <3>1. 1 \in Int /\ w \in Int /\ (IF 1 > w THEN 0 ELSE w - 1 + 1) = w
      OBVIOUS
    <3> QED
      BY ONLY <3>1, FS_Interval, Zenon
  <2> HIDE DEF New
  <2> QED
    BY <2>2, <2>3, FS_Bijection
<1>3. Cardinality(Old) \in Nat
  BY FS_CardinalityType
<1>4. Cardinality(Old \cap New) = 0
  BY <1>1, FS_EmptySet
<1> HIDE DEF Old, New
<1>5. /\ IsFiniteSet(Old \cup New)
      /\ Cardinality(Old \cup New) = Cardinality(Old) + Cardinality(New) - Cardinality(Old \cap New)
  BY <1>2, FS_Union DEF Old
<1> QED
  BY <1>1, <1>2, <1>3, <1>4, <1>5 DEF Old

LEMMA SlotsFinite ==
  ASSUME NEW bs, AreBackends(bs), NEW I \in SUBSET (1..Len(bs))
  PROVE  IsFiniteSet(Slots(bs, I))
<1> DEFINE n == Len(bs)
           T == {m \in Nat : m <= n => IsFiniteSet(Slots(bs, 1..m))}
<1>1. n \in Nat
  BY DEF AreBackends
<1>2. 0 \in T
  <2>1. Slots(bs, 1..0) = {}
    BY DEF Slots
  <2> QED
    BY <2>1, FS_EmptySet
<1>3. ASSUME NEW m \in Nat, m \in T PROVE m + 1 \in T
  <2> SUFFICES ASSUME m + 1 <= n PROVE IsFiniteSet(Slots(bs, 1..(m + 1)))
    OBVIOUS
  <2>1. (1..(m + 1)) \ {m + 1} = 1..m /\ m + 1 \in 1..(m + 1) /\ m + 1 \in 1..n
    BY <1>1
  <2>2. bs[m + 1].weight \in Nat
    BY <2>1, BackendOf
  <2>3. IsFiniteSet(Slots(bs, 1..m))
    BY <1>1, <1>3
  <2> QED
    BY <2>1, <2>2, <2>3, SlotsOf
<1> HIDE DEF T
<1>4. \A m \in Nat : m \in T
  BY <1>2, <1>3, SetInduction
<1>5. IsFiniteSet(Slots(bs, 1..n))
  BY <1>1, <1>4 DEF T
<1>6. Slots(bs, I) \in SUBSET Slots(bs, 1..n)
  BY DEF Slots
<1> QED
  BY <1>5, <1>6, FS_Subset

Chosen(I) == CHOOSE i \in I : TRUE
SumStep(g, I, bs) ==
  IF I = {} THEN 0 ELSE bs[Chosen(I)].weight + g[I \ {Chosen(I)}]
IsSum(g, bs, J) == g = [I \in SUBSET J |-> SumStep(g, I, bs)]

\* All weights of the entries in I.
Total(bs, I) == MapThenSumSet(LAMBDA i : bs[i].weight, I)

LEMMA TotalIsSlots ==
  ASSUME NEW bs, AreBackends(bs), NEW J \in SUBSET (1..Len(bs))
  PROVE  Total(bs, J) = Cardinality(Slots(bs, J))
<1>1. ASSUME NEW I \in SUBSET J, I # {}
      PROVE  /\ I \ {Chosen(I)} \in SUBSET J
             /\ Cardinality(Slots(bs, I))
                  = bs[Chosen(I)].weight + Cardinality(Slots(bs, I \ {Chosen(I)}))
             /\ Cardinality(Slots(bs, I \ {Chosen(I)})) \in Nat
             /\ Cardinality(I \ {Chosen(I)}) < Cardinality(I)
  <2> DEFINE i == Chosen(I)
  <2>1. i \in I
    BY <1>1, Zenon DEF Chosen
  <2>2. bs[i].weight \in Nat
    BY <2>1, BackendOf
  <2>3. I \ {i} \in SUBSET (1..Len(bs))
    OBVIOUS
  <2>4. IsFiniteSet(Slots(bs, I \ {i}))
    BY <2>3, SlotsFinite
  <2>5. Cardinality(Slots(bs, I \ {i})) \in Nat
    BY <2>4, FS_CardinalityType
  <2>6. Cardinality(Slots(bs, I)) = Cardinality(Slots(bs, I \ {i})) + bs[i].weight
    BY <2>1, <2>2, <2>4, SlotsOf
  <2>7. IsFiniteSet(I)
    <3>1. IsFiniteSet(1..Len(bs))
      BY FS_Interval DEF AreBackends
    <3>2. I \in SUBSET (1..Len(bs))
      OBVIOUS
    <3> QED
      BY <3>1, <3>2, FS_Subset
  <2>8. Cardinality(I \ {i}) = Cardinality(I) - 1 /\ Cardinality(I) \in Nat
    BY <2>1, <2>7, FS_RemoveElement, FS_CardinalityType
  <2> HIDE DEF i
  <2>9. Cardinality(I \ {i}) < Cardinality(I)
    BY <2>8
  <2> QED
    BY <2>2, <2>3, <2>5, <2>6, <2>9 DEF i
<1>2. Slots(bs, {}) = {}
  BY DEF Slots
<1>3. Cardinality(Slots(bs, {})) = 0
  BY <1>2, FS_EmptySet
<1> DEFINE g == [I \in SUBSET J |-> Cardinality(Slots(bs, I))]
<1>4. IsSum(g, bs, J)
  <2>1. ASSUME NEW I \in SUBSET J PROVE Cardinality(Slots(bs, I)) = SumStep(g, I, bs)
    <3>1. CASE I = {}
      BY <3>1, <1>3 DEF SumStep
    <3>2. CASE I # {}
      <4>1. g[I \ {Chosen(I)}] = Cardinality(Slots(bs, I \ {Chosen(I)}))
        BY <1>1, <3>2, Zenon
      <4> HIDE DEF g
      <4> QED
        BY <1>1, <3>2, <4>1, Zenon DEF SumStep
    <3> QED
      BY <3>1, <3>2
  <2> QED
    BY <2>1, Zenon DEF IsSum
<1> HIDE DEF g
<1> DEFINE f == CHOOSE f : IsSum(f, bs, J)
<1>5. IsSum(f, bs, J)
  BY <1>4, Zenon
<1>6. Total(bs, J) = f[J]
  BY Zenon DEF Total, MapThenSumSet, MapThenFoldSet, IsSum, SumStep, Chosen
<1> HIDE DEF f
<1>7. ASSUME NEW I \in SUBSET J PROVE f[I] = SumStep(f, I, bs)
  BY <1>5 DEF IsSum
<1> DEFINE Wrong == {Cardinality(I) : I \in {K \in SUBSET J : f[K] # Cardinality(Slots(bs, K))}}
<1>8. ASSUME NEW I \in SUBSET J PROVE Cardinality(I) \in Nat
  <2>1. IsFiniteSet(1..Len(bs))
    BY FS_Interval DEF AreBackends
  <2>2. I \in SUBSET (1..Len(bs))
    OBVIOUS
  <2> QED
    BY <2>1, <2>2, FS_Subset, FS_CardinalityType
<1>9. ASSUME NEW I \in SUBSET J, f[I] # Cardinality(Slots(bs, I)) PROVE FALSE
  <2>1. Wrong \in SUBSET Nat /\ Wrong # {}
    BY <1>8, <1>9
  <2>2. PICK k \in Wrong : \A l \in Wrong : k <= l
    BY <2>1, LeastNumber
  <2>3. PICK K \in SUBSET J : f[K] # Cardinality(Slots(bs, K)) /\ k = Cardinality(K)
    OBVIOUS
  <2>4. K # {}
    BY <1>3, <1>7, <2>3 DEF SumStep
  <2> DEFINE L == K \ {Chosen(K)}
  <2>5. L \in SUBSET J /\ Cardinality(L) < k /\ Cardinality(L) \in Nat /\ k \in Nat
    BY <1>1, <1>8, <2>3, <2>4
  <2>6. f[L] = Cardinality(Slots(bs, L))
    BY <2>2, <2>5
  <2>7. f[K] = bs[Chosen(K)].weight + f[L]
    BY <1>7, <2>4 DEF SumStep
  <2> QED
    BY <1>1, <2>3, <2>4, <2>6, <2>7, Zenon
<1>10. f[J] = Cardinality(Slots(bs, J))
  BY <1>9
<1> QED
  BY <1>6, <1>10

(* Where the entries of the cycle come from: position k of what the first  *)
(* m backends give belongs to one of them, and lies within its weight.     *)
InOrder(s, bs, m) ==
  /\ s \in Seq(Elements)
  /\ Len(s) = Total(bs, 1..m)
  /\ \A k \in 1..Len(s) : \E i \in 1..m :
       /\ k \in (Total(bs, 1..(i - 1)) + 1)..(Total(bs, 1..(i - 1)) + bs[i].weight)
       /\ s[k] = bs[i].address

\* Each address has as many positions as the backends give it slots.
Places(s, a) == {k \in 1..Len(s) : s[k] = a}
EntriesOf(bs, a, m) == {i \in 1..m : bs[i].address = a}
InProportion(s, bs, m) ==
  \A a : Cardinality(Places(s, a)) = Total(bs, EntriesOf(bs, a, m))

LEMMA TotalGrows ==
  ASSUME NEW bs, AreBackends(bs), NEW I \in SUBSET (1..Len(bs)), NEW i \in 1..Len(bs), i \notin I
  PROVE  /\ Total(bs, I) \in Nat
         /\ Total(bs, I \cup {i}) = Total(bs, I) + bs[i].weight
<1>1. IsFiniteSet(Slots(bs, I))
  BY SlotsFinite
<1>2. /\ (I \cup {i}) \ {i} = I /\ i \in I \cup {i}
      /\ I \cup {i} \in SUBSET (1..Len(bs)) /\ I \in SUBSET (1..Len(bs))
  OBVIOUS
<1>3. bs[i].weight \in Nat
  BY BackendOf
<1>4. Cardinality(Slots(bs, I \cup {i})) = Cardinality(Slots(bs, I)) + bs[i].weight
  <2> DEFINE J == I \cup {i}
             w == bs[i].weight
  <2>1. i \in J /\ w \in Nat /\ w = bs[i].weight /\ IsFiniteSet(Slots(bs, J \ {i}))
    BY <1>1, <1>2, <1>3
  <2> HIDE DEF J, w
  <2>2. Cardinality(Slots(bs, J)) = Cardinality(Slots(bs, J \ {i})) + w
    BY ONLY <2>1, SlotsOf
  <2> QED
    BY <1>2, <2>2 DEF J, w
<1>5. Total(bs, I) = Cardinality(Slots(bs, I))
  BY TotalIsSlots
<1>6. Total(bs, I \cup {i}) = Cardinality(Slots(bs, I \cup {i}))
  BY <1>2, TotalIsSlots
<1> QED
  BY <1>1, <1>4, <1>5, <1>6, FS_CardinalityType

LEMMA TotalOfNothing ==
  ASSUME NEW bs, AreBackends(bs) PROVE Total(bs, {}) = 0
<1>1. Slots(bs, {}) = {}
  BY DEF Slots
<1> QED
  BY <1>1, TotalIsSlots, FS_EmptySet

LEMMA RepeatIs ==
  ASSUME NEW bs, AreBackends(bs), NEW i \in 1..Len(bs)
  PROVE  /\ Repeat(bs[i]) \in Seq(Elements)
         /\ Len(Repeat(bs[i])) = bs[i].weight
         /\ \A k \in 1..bs[i].weight : Repeat(bs[i])[k] = bs[i].address
<1> DEFINE w == bs[i].weight
           a == bs[i].address
<1>1. w \in Nat /\ a \in Elements
  BY BackendOf
<1>2. Repeat(bs[i]) = [k \in 1..w |-> a]
  BY DEF Repeat
<1> HIDE DEF w, a
<1>3. /\ [k \in 1..w |-> a] \in Seq(Elements)
      /\ Len([k \in 1..w |-> a]) = w
      /\ \A k \in 1..w : [l \in 1..w |-> a][k] = a
  BY <1>1
<1> QED
  BY <1>2, <1>3 DEF w, a

Only(s, b) == \A k \in 1..Len(s) : s[k] = b

LEMMA PlacesOfConcat ==
  ASSUME NEW s \in Seq(Elements), NEW r \in Seq(Elements), NEW a, NEW b, Only(r, b)
  PROVE  /\ a = b => Cardinality(Places(s \o r, a)) = Cardinality(Places(s, a)) + Len(r)
         /\ a # b => Cardinality(Places(s \o r, a)) = Cardinality(Places(s, a))
<1> DEFINE New == {k \in (Len(s) + 1)..(Len(s) + Len(r)) : a = b}
<1>1. /\ s \o r \in Seq(Elements) /\ Len(s \o r) = Len(s) + Len(r)
      /\ \A k \in 1..Len(s) : (s \o r)[k] = s[k]
      /\ \A k \in (Len(s) + 1)..(Len(s) + Len(r)) : (s \o r)[k] = r[k - Len(s)]
      /\ Len(s) \in Nat /\ Len(r) \in Nat
  OBVIOUS
<1>2. \A k \in (Len(s) + 1)..(Len(s) + Len(r)) : (s \o r)[k] = b
  <2> SUFFICES ASSUME NEW k \in (Len(s) + 1)..(Len(s) + Len(r)) PROVE (s \o r)[k] = b
    OBVIOUS
  <2>1. k - Len(s) \in 1..Len(r)
    BY <1>1
  <2> QED
    BY <1>1, <2>1 DEF Only
<1>3. Places(s \o r, a) = Places(s, a) \cup New
  <2>1. ASSUME NEW k PROVE k \in Places(s \o r, a) <=> k \in Places(s, a) \cup New
    <3>1. k \in 1..(Len(s) + Len(r)) <=> k \in 1..Len(s) \/ k \in (Len(s) + 1)..(Len(s) + Len(r))
      BY <1>1
    <3> QED
      BY <1>1, <1>2, <3>1 DEF Places
  <2> QED
    BY <2>1
<1>4. Places(s, a) \cap New = {}
  BY <1>1 DEF Places
<1>5. IsFiniteSet(Places(s, a))
  <2>1. IsFiniteSet(1..Len(s)) /\ Places(s, a) \in SUBSET (1..Len(s))
    BY <1>1, FS_Interval DEF Places
  <2> QED
    BY <2>1, FS_Subset
<1>6. IsFiniteSet(New) /\ Cardinality(New) = IF a = b THEN Len(r) ELSE 0
  <2>1. CASE a = b
    <3>1. New = (Len(s) + 1)..(Len(s) + Len(r))
      BY <2>1
    <3>2. /\ IsFiniteSet((Len(s) + 1)..(Len(s) + Len(r)))
          /\ Cardinality((Len(s) + 1)..(Len(s) + Len(r))) = Len(r)
      <4> DEFINE from == Len(s) + 1
                 to == Len(s) + Len(r)
      <4>1. /\ from \in Int /\ to \in Int
            /\ (IF from > to THEN 0 ELSE to - from + 1) = Len(r)
        BY <1>1
      <4> HIDE DEF from, to
      <4>2. IsFiniteSet(from..to) /\ Cardinality(from..to) = Len(r)
        BY ONLY <4>1, FS_Interval, Zenon
      <4> QED
        BY <4>2 DEF from, to
    <3> QED
      BY <2>1, <3>1, <3>2
  <2>2. CASE a # b
    BY <2>2, FS_EmptySet
  <2> QED
    BY <2>1, <2>2
<1> HIDE DEF New
<1>7. Cardinality(Places(s, a) \cup New) =
        Cardinality(Places(s, a)) + Cardinality(New) - Cardinality(Places(s, a) \cap New)
  BY <1>5, <1>6, FS_Union
<1>8. Cardinality(Places(s, a) \cap New) = 0
  BY <1>4, FS_EmptySet
<1>9. Cardinality(Places(s, a)) \in Nat /\ Cardinality(New) \in Nat
  BY <1>5, <1>6, FS_CardinalityType
<1> QED
  BY <1>3, <1>6, <1>7, <1>8, <1>9

LEMMA CycleIsFair ==
  ASSUME NEW bs, AreBackends(bs)
  PROVE  InOrder(Cycle(bs), bs, Len(bs)) /\ InProportion(Cycle(bs), bs, Len(bs))
<1> DEFINE n == Len(bs)
<1>1. n \in Nat
  BY DEF AreBackends
<1>2. PICK h : Builds(h, bs)
  BY CycleIsBuilt
<1> DEFINE T == {m \in Nat : m <= n => InOrder(h[m], bs, m) /\ InProportion(h[m], bs, m)}
<1>3. 0 \in T
  <2>1. h[0] = <<>> /\ 1..0 = {}
    BY <1>2 DEF Builds
  <2>2. InOrder(<<>>, bs, 0)
    BY <2>1, TotalOfNothing DEF InOrder
  <2>3. ASSUME NEW a PROVE Places(<<>>, a) = {} /\ EntriesOf(bs, a, 0) = {}
    BY DEF Places, EntriesOf
  <2>4. InProportion(<<>>, bs, 0)
    BY <2>3, TotalOfNothing, FS_EmptySet DEF InProportion
  <2> QED
    BY <2>1, <2>2, <2>4
<1>4. ASSUME NEW m \in Nat, m \in T PROVE m + 1 \in T
  <2> SUFFICES ASSUME m + 1 <= n
               PROVE  InOrder(h[m + 1], bs, m + 1) /\ InProportion(h[m + 1], bs, m + 1)
    OBVIOUS
  <2>1. InOrder(h[m], bs, m) /\ InProportion(h[m], bs, m)
    BY <1>1, <1>4
  <2>2. m + 1 \in 1..n /\ (m + 1) - 1 = m
    BY <1>1
  <2> HIDE DEF T
  <2> DEFINE s == h[m]
             r == Repeat(bs[m + 1])
             w == bs[m + 1].weight
             b == bs[m + 1].address
  <2>3. h[m + 1] = s \o r
    BY <1>2, <2>2 DEF Builds
  <2>4. s \in Seq(Elements) /\ Len(s) = Total(bs, 1..m)
    BY <2>1 DEF InOrder
  <2>5. r \in Seq(Elements) /\ Len(r) = w /\ \A k \in 1..w : r[k] = b
    BY <2>2, RepeatIs
  <2>6. w \in Nat /\ b \in Elements
    BY <2>2, BackendOf
  <2>7. 1..m \in SUBSET (1..n) /\ m + 1 \notin 1..m /\ 1..(m + 1) = (1..m) \cup {m + 1}
    BY <1>1, <2>2
  <2>8. Total(bs, 1..(m + 1)) = Total(bs, 1..m) + w
    BY <2>2, <2>7, TotalGrows
  <2> HIDE DEF s, r, w, b
  <2>9. /\ s \o r \in Seq(Elements) /\ Len(s \o r) = Len(s) + w
        /\ \A k \in 1..Len(s) : (s \o r)[k] = s[k]
        /\ \A k \in (Len(s) + 1)..(Len(s) + w) : (s \o r)[k] = r[k - Len(s)]
        /\ Len(s) \in Nat
    BY <2>4, <2>5
  <2>10. ASSUME NEW k \in 1..Len(s \o r)
         PROVE  \E i \in 1..(m + 1) :
                  /\ k \in (Total(bs, 1..(i - 1)) + 1)..(Total(bs, 1..(i - 1)) + bs[i].weight)
                  /\ (s \o r)[k] = bs[i].address
    <3>1. CASE k \in 1..Len(s)
      <4>1. PICK i \in 1..m :
              /\ k \in (Total(bs, 1..(i - 1)) + 1)..(Total(bs, 1..(i - 1)) + bs[i].weight)
              /\ s[k] = bs[i].address
        BY <2>1, <3>1 DEF InOrder, s
      <4>2. i \in 1..(m + 1)
        OBVIOUS
      <4> QED
        BY <2>9, <3>1, <4>1, <4>2
    <3>2. CASE k \in (Len(s) + 1)..(Len(s) + w)
      <4>1. k - Len(s) \in 1..w
        BY <2>6, <2>9, <3>2
      <4>2. (s \o r)[k] = bs[m + 1].address
        BY <2>5, <2>9, <3>2, <4>1 DEF b
      <4>3. k \in (Total(bs, 1..m) + 1)..(Total(bs, 1..m) + bs[m + 1].weight)
        BY <2>4, <3>2 DEF w
      <4>4. m + 1 \in 1..(m + 1)
        OBVIOUS
      <4> QED
        BY <2>2, <4>2, <4>3, <4>4
    <3>3. k \in 1..Len(s) \/ k \in (Len(s) + 1)..(Len(s) + w)
      BY <2>6, <2>9
    <3> QED
      BY <3>1, <3>2, <3>3
  <2>11. InOrder(s \o r, bs, m + 1)
    BY <2>4, <2>8, <2>9, <2>10 DEF InOrder
  <2>12. ASSUME NEW a
         PROVE  Cardinality(Places(s \o r, a)) = Total(bs, EntriesOf(bs, a, m + 1))
    <3>1. /\ a = b => Cardinality(Places(s \o r, a)) = Cardinality(Places(s, a)) + w
          /\ a # b => Cardinality(Places(s \o r, a)) = Cardinality(Places(s, a))
      <4>1. Len(r) = w /\ Only(r, b)
        BY <2>5 DEF Only
      <4>2. /\ a = b => Cardinality(Places(s \o r, a)) = Cardinality(Places(s, a)) + Len(r)
            /\ a # b => Cardinality(Places(s \o r, a)) = Cardinality(Places(s, a))
        BY <2>4, <2>5, <4>1, PlacesOfConcat
      <4> QED
        BY <4>1, <4>2
    <3>2. Cardinality(Places(s, a)) = Total(bs, EntriesOf(bs, a, m))
      BY <2>1 DEF InProportion, s
    <3>3. EntriesOf(bs, a, m + 1) =
            EntriesOf(bs, a, m) \cup (IF a = b THEN {m + 1} ELSE {})
      BY <2>7 DEF EntriesOf, b
    <3>4. EntriesOf(bs, a, m) \in SUBSET (1..n) /\ m + 1 \notin EntriesOf(bs, a, m)
      BY <2>7 DEF EntriesOf
    <3>5. /\ Total(bs, EntriesOf(bs, a, m)) \in Nat
          /\ Total(bs, EntriesOf(bs, a, m) \cup {m + 1}) = Total(bs, EntriesOf(bs, a, m)) + w
      BY <2>2, <3>4, TotalGrows DEF w
    <3>6. CASE a = b
      BY <3>1, <3>2, <3>3, <3>5, <3>6
    <3>7. CASE a # b
      BY <3>1, <3>2, <3>3, <3>5, <3>7
    <3> QED
      BY <3>6, <3>7
  <2>13. InProportion(s \o r, bs, m + 1)
    BY <2>12 DEF InProportion
  <2> QED
    BY <2>3, <2>11, <2>13 DEF s, r
<1> HIDE DEF T
<1>5. \A m \in Nat : m \in T
  BY <1>3, <1>4, SetInduction
<1>6. InOrder(h[n], bs, n) /\ InProportion(h[n], bs, n)
  BY <1>1, <1>5 DEF T
<1>7. h[n] = Cycle(bs)
  BY <1>2 DEF Builds
<1> QED
  BY <1>6, <1>7

-----------------------------------------------------------------------------
LEMMA BackendsOfInit ==
  ASSUME backends \in BackendLists
  PROVE  AreBackends(backends) /\ Cycle(backends) \in Seq(Elements)
<1>1. AreBackends(backends)
  BY BackendListsAssumption DEF AreBackends
<1>2. InOrder(Cycle(backends), backends, Len(backends))
  BY <1>1, CycleIsFair
<1> QED
  BY <1>1, <1>2 DEF InOrder

LEMMA NextIsRingNext == [Next]_vars => [RingNext]_ringVars
  BY DEF Next, Call, Answer, Exhausted, RingNext, vars, ringVars

(* The ring holds the cycle of the configuration it was made from.         *)
HoldsCycle == values = Cycle(backends)

LEMMA EntryIsAddress ==
  ASSUME TypeOK, HoldsCycle, NEW n \in Usize
  PROVE  /\ Index(n) \in 1..Len(values)
         /\ values[Index(n)] \in Addresses
<1>1. Len(values) \in Nat \ {0} /\ n \in Nat
  BY UsizeAssumption DEF TypeOK, RingTypeOK, Usize
<1>2. n % Len(values) \in 0..(Len(values) - 1)
  BY <1>1
<1>3. Index(n) \in 1..Len(values)
  BY <1>1, <1>2 DEF Index
<1>4. AreBackends(backends)
  BY BackendsOfInit DEF TypeOK
<1>5. InOrder(values, backends, Len(backends))
  BY <1>4, CycleIsFair DEF HoldsCycle
<1>6. PICK i \in 1..Len(backends) : values[Index(n)] = backends[i].address
  BY <1>3, <1>5 DEF InOrder
<1>7. i \in DOMAIN backends
  BY <1>4 DEF AreBackends
<1> QED
  BY <1>3, <1>6, <1>7 DEF Addresses

LEMMA SchedulerTypeInit == Init => TypeOK /\ HoldsCycle
<1> SUFFICES ASSUME Init PROVE TypeOK /\ HoldsCycle
  OBVIOUS
<1>1. backends \in BackendLists /\ NewRing(Cycle(backends))
  BY DEF Init
<1>2. Cycle(backends) \in Seq(Elements)
  BY <1>1, BackendsOfInit
<1>3. RingTypeOK
  BY <1>1, <1>2, UsizeAssumption DEF NewRing, RingTypeOK, Usize
<1>4. answers \in [Addresses -> Nat]
  BY DEF Init
<1> QED
  BY <1>1, <1>3, <1>4 DEF TypeOK, HoldsCycle, NewRing

LEMMA SchedulerTypeStep ==
  TypeOK /\ HoldsCycle /\ [Next]_vars => (TypeOK /\ HoldsCycle)'
<1> SUFFICES ASSUME TypeOK, HoldsCycle, [Next]_vars PROVE (TypeOK /\ HoldsCycle)'
  OBVIOUS
<1>1. RingTypeOK'
  BY NextIsRingNext, TypeStep DEF TypeOK
<1>2. backends' = backends /\ values' = values
  BY DEF Next, Call, Answer, Exhausted, TakeTicket, Return, vars, ringVars
<1>3. Addresses' = Addresses
  BY <1>2 DEF Addresses
<1>4. answers' \in [Addresses -> Nat]
  <2>1. ASSUME NEW t \in Threads, Answer(t) PROVE answers' \in [Addresses -> Nat]
    <3>1. ticket[t] \in Usize
      BY <2>1 DEF Answer, Return, TypeOK, RingTypeOK
    <3>2. Entry(t) \in Addresses
      BY <3>1, EntryIsAddress DEF Entry
    <3>3. answers' = [answers EXCEPT ![Entry(t)] = @ + 1]
      BY <2>1 DEF Answer
    <3> QED
      BY <3>2, <3>3 DEF TypeOK
  <2>2. ASSUME NEW t \in Threads, Call(t) PROVE answers' \in [Addresses -> Nat]
    BY <2>2 DEF Call, TypeOK
  <2>3. CASE UNCHANGED vars
    BY <2>3 DEF vars, TypeOK
  <2> QED
    BY <2>1, <2>2, <2>3 DEF Next, Exhausted
<1> QED
  BY <1>1, <1>2, <1>3, <1>4 DEF TypeOK, HoldsCycle

(* next_server returns an address of the configuration, and every counter  *)
(* keeps its range.                                                        *)
THEOREM SchedulerTypeCorrect == Spec => []TypeOK
  BY SchedulerTypeInit, SchedulerTypeStep, PTL DEF Spec

-----------------------------------------------------------------------------
(* The turns of the ring are those of the scheduler's ring.                *)
LEMMA ConsecutiveInit == Init => Consecutive
  BY DEF Init, NewRing, Consecutive

THEOREM SchedulerVisitsEveryEntry == Spec => []TurnsVisitEveryEntry
<1>1. Init => TypeOK /\ HoldsCycle /\ Consecutive
  BY SchedulerTypeInit, ConsecutiveInit
<1>2. TypeOK /\ HoldsCycle /\ Consecutive /\ [Next]_vars
        => (TypeOK /\ HoldsCycle /\ Consecutive)'
  BY SchedulerTypeStep, ConsecutiveStep, NextIsRingNext DEF TypeOK
<1>3. TypeOK /\ Consecutive => TurnsVisitEveryEntry
  BY TurnsFromConsecutive DEF TypeOK
<1> QED
  BY <1>1, <1>2, <1>3, PTL DEF Spec

-----------------------------------------------------------------------------
(* The calls that a turn makes: each of its positions once.                *)
LEMMA TurnIsCycle ==
  ASSUME TypeOK, HoldsCycle, Consecutive, NEW a,
         NEW i \in 1..Len(calls), NEW j \in 1..Len(calls),
         j = i + Len(values) - 1, NoWrap(i, j)
  PROVE  Share(a, i, j) = Cardinality(Places(values, a))
<1> DEFINE L == Len(values)
           f == [k \in i..j |-> Index(calls[k])]
           Mine == {k \in i..j : ServerOf(k) = a}
<1>1. L \in Nat \ {0} /\ Len(calls) \in Nat
  BY DEF TypeOK, RingTypeOK
<1>2. ASSUME NEW k \in i..j
      PROVE  k \in 1..Len(calls) /\ calls[k] \in Usize /\ Index(calls[k]) \in 1..L
  <2>1. k \in 1..Len(calls)
    BY <1>1
  <2>2. calls[k] \in Usize
    BY <2>1 DEF TypeOK, RingTypeOK
  <2> QED
    BY <2>1, <2>2, EntryIsAddress
<1>3. ASSUME NEW k \in i..j, NEW l \in i..j, k < l
      PROVE  Index(calls[k]) # Index(calls[l])
  <2>1. NoWrap(k, l)
    BY <1>1 DEF NoWrap
  <2>2. l - k < L
    BY <1>1
  <2>3. TurnsVisitEveryEntry
    BY TurnsFromConsecutive DEF TypeOK
  <2> QED
    BY <1>2, <1>3, <2>1, <2>2, <2>3 DEF TurnsVisitEveryEntry
<1>4. f \in Injection(i..j, 1..L)
  <2>1. f \in [i..j -> 1..L]
    BY <1>2
  <2>2. ASSUME NEW k \in i..j, NEW l \in i..j, f[k] = f[l] PROVE k = l
    <3>1. Index(calls[k]) = Index(calls[l])
      BY <2>2
    <3>2. ~(k < l) /\ ~(l < k)
      BY <1>3, <3>1
    <3> QED
      BY <3>2
  <2> HIDE DEF f
  <2> QED
    BY <2>1, <2>2 DEF Injection, IsInjective
<1>5. IsFiniteSet(1..L) /\ Cardinality(1..L) = L
  <2>1. 1 \in Int /\ L \in Int /\ (IF 1 > L THEN 0 ELSE L - 1 + 1) = L
    BY <1>1
  <2> HIDE DEF L
  <2> QED
    BY ONLY <2>1, FS_Interval, Zenon
<1>6. IsFiniteSet(i..j) /\ Cardinality(i..j) = L
  <2>1. i \in Int /\ j \in Int /\ (IF i > j THEN 0 ELSE j - i + 1) = L
    BY <1>1
  <2> HIDE DEF L
  <2> QED
    BY ONLY <2>1, FS_Interval, Zenon
<1>7. f \in Surjection(i..j, 1..L)
  <2> HIDE DEF f, L
  <2>1. Cardinality(i..j) = Cardinality(1..L)
    BY <1>5, <1>6
  <2> QED
    BY <1>4, <1>5, <2>1, FS_Injection
<1>8. IsFiniteSet(Mine)
  <2>1. Mine \in SUBSET (i..j)
    OBVIOUS
  <2> QED
    BY <1>6, <2>1, FS_Subset
<1> DEFINE g == [k \in Mine |-> Index(calls[k])]
<1>9. g \in Bijection(Mine, Places(values, a))
  <2>1. g \in [Mine -> Places(values, a)]
    BY <1>2 DEF ServerOf, Places
  <2>2. ASSUME NEW k \in Mine, NEW l \in Mine, g[k] = g[l] PROVE k = l
    <3>1. f[k] = f[l]
      BY <2>2
    <3>2. k \in i..j /\ l \in i..j
      OBVIOUS
    <3> HIDE DEF f
    <3> QED
      BY <1>4, <3>1, <3>2 DEF Injection, IsInjective
  <2>3. ASSUME NEW p \in Places(values, a) PROVE \E k \in Mine : g[k] = p
    <3>1. p \in 1..L /\ values[p] = a
      BY DEF Places
    <3>2. PICK k \in i..j : f[k] = p
      <4> HIDE DEF f
      <4> QED
        BY <1>7, <3>1 DEF Surjection
    <3>3. Index(calls[k]) = p
      BY <3>2
    <3>4. k \in Mine
      BY <3>1, <3>3 DEF ServerOf
    <3> QED
      BY <3>3, <3>4
  <2> HIDE DEF g, Mine
  <2> QED
    BY <2>1, <2>2, <2>3 DEF Bijection, Injection, Surjection, IsInjective
<1>10. ExistsBijection(Mine, Places(values, a))
  BY <1>9 DEF ExistsBijection
<1>11. Cardinality(Places(values, a)) = Cardinality(Mine)
  <2> HIDE DEF Mine
  <2> QED
    BY <1>8, <1>10, FS_Bijection
<1> QED
  BY <1>11 DEF Share

LEMMA TurnIsWeighted ==
  ASSUME TypeOK, HoldsCycle, Consecutive, NEW a,
         NEW i \in 1..Len(calls), NEW j \in 1..Len(calls),
         j = i + Len(values) - 1, NoWrap(i, j)
  PROVE  Share(a, i, j) = Weight(a)
<1>1. AreBackends(backends)
  BY BackendsOfInit DEF TypeOK
<1>2. InProportion(values, backends, Len(backends))
  BY <1>1, CycleIsFair DEF HoldsCycle
<1>3. Cardinality(Places(values, a)) = Total(backends, EntriesOf(backends, a, Len(backends)))
  BY <1>2 DEF InProportion
<1>4. DOMAIN backends = 1..Len(backends)
  BY <1>1 DEF AreBackends
<1>5. Weight(a) = Total(backends, EntriesOf(backends, a, Len(backends)))
  BY <1>4, Zenon DEF Weight, Total, EntriesOf
<1> QED
  BY <1>3, <1>5, TurnIsCycle

-----------------------------------------------------------------------------
(* Each turn serves every backend as often as its weight says, for every   *)
(* configuration, number of threads and width of the counter.              *)
THEOREM EveryTurnFollowsWeights == Spec => []TurnsFollowWeights
<1>1. Init => TypeOK /\ HoldsCycle /\ Consecutive
  BY SchedulerTypeInit, ConsecutiveInit
<1>2. TypeOK /\ HoldsCycle /\ Consecutive /\ [Next]_vars
        => (TypeOK /\ HoldsCycle /\ Consecutive)'
  BY SchedulerTypeStep, ConsecutiveStep, NextIsRingNext DEF TypeOK
<1>3. TypeOK /\ HoldsCycle /\ Consecutive => TurnsFollowWeights
  <2> SUFFICES ASSUME TypeOK, HoldsCycle, Consecutive,
                      NEW i \in 1..(Len(calls) - Len(values) + 1),
                      NoWrap(i, i + Len(values) - 1), NEW a \in Addresses
               PROVE  Share(a, i, i + Len(values) - 1) = Weight(a)
    BY DEF TurnsFollowWeights
  <2> DEFINE j == i + Len(values) - 1
  <2>1. Len(values) \in Nat \ {0} /\ Len(calls) \in Nat
    BY DEF TypeOK, RingTypeOK
  <2>2. i \in 1..Len(calls) /\ j \in 1..Len(calls)
    BY <2>1
  <2> QED
    BY <2>2, TurnIsWeighted
<1> QED
  BY <1>1, <1>2, <1>3, PTL DEF Spec

-----------------------------------------------------------------------------
(* The tickets in the order they are taken: from 0, each the successor of  *)
(* the one before, wrapping around included.                               *)
Chained ==
  /\ Len(values) = 1 => \A k \in 1..Len(calls) : calls[k] = 0
  /\ Len(values) > 1 =>
       /\ calls = <<>> => next = 0
       /\ calls # <<>> => calls[1] = 0 /\ next = FetchAdd(calls[Len(calls)])
       /\ \A k \in 1..(Len(calls) - 1) : calls[k + 1] = FetchAdd(calls[k])

LEMMA OneOrMore == ASSUME NEW n \in Nat \ {0} PROVE n = 1 \/ n > 1
  OBVIOUS

LEMMA ChainedStep == RingTypeOK /\ Chained /\ [RingNext]_ringVars => Chained'
<1> SUFFICES ASSUME RingTypeOK, Chained, [RingNext]_ringVars PROVE Chained'
  OBVIOUS
<1>1. CASE UNCHANGED <<values, next, calls>>
  BY <1>1 DEF Chained
<1>2. ASSUME NEW t \in Threads, TakeTicket(t), Len(values) = 1 PROVE Chained'
  <2> DEFINE n == Len(calls)
  <2>1. calls' = Append(calls, 0) /\ values' = values
    BY <1>2, Zenon DEF TakeTicket
  <2>2. n \in Nat /\ Len(calls') = n + 1 /\ calls'[n + 1] = 0
        /\ \A i \in 1..n : calls'[i] = calls[i]
    BY <2>1 DEF RingTypeOK
  <2>3. \A k \in 1..Len(calls') : calls'[k] = 0
    BY <1>2, <2>2 DEF Chained
  <2>4. Len(values') = 1 /\ ~(Len(values') > 1)
    <3>1. ~(1 > 1)
      OBVIOUS
    <3> QED
      BY <1>2, <2>1, <3>1, Zenon
  <2> QED
    BY <2>3, <2>4 DEF Chained
<1>3. ASSUME NEW t \in Threads, TakeTicket(t), Len(values) # 1 PROVE Chained'
  <2> DEFINE n == Len(calls)
  <2>1. calls' = Append(calls, next) /\ next' = FetchAdd(next) /\ values' = values
    BY <1>3, Zenon DEF TakeTicket
  <2>2. n \in Nat /\ Len(calls') = n + 1 /\ calls'[n + 1] = next
        /\ \A i \in 1..n : calls'[i] = calls[i]
    BY <2>1 DEF RingTypeOK
  <2>3. Len(values) > 1
    <3>1. Len(values) \in Nat \ {0}
      BY DEF RingTypeOK
    <3>2. \A m \in Nat \ {0} : m # 1 => m > 1
      OBVIOUS
    <3> QED
      BY <1>3, <3>1, <3>2, Zenon
  <2>4. calls' # <<>> /\ next' = FetchAdd(calls'[Len(calls')])
    BY <2>1, <2>2
  <2>7. Len(values') > 1 /\ ~(Len(values') = 1)
    BY <1>3, <2>1, <2>3
  <2>5. CASE calls = <<>>
    <3>1. n = 0 /\ next = 0
      BY <2>3, <2>5 DEF Chained
    <3>2. calls'[1] = 0 /\ 1..(Len(calls') - 1) = {}
      BY <2>2, <3>1
    <3> QED
      BY <2>4, <2>7, <3>2 DEF Chained
  <2>6. CASE calls # <<>>
    <3>1. n \in 1..n /\ 1 \in 1..n
      BY <2>2, <2>6 DEF RingTypeOK
    <3>2. calls'[1] = 0 /\ next = FetchAdd(calls[n])
      BY <2>2, <2>3, <2>6, <3>1 DEF Chained
    <3>3. ASSUME NEW k \in 1..(Len(calls') - 1) PROVE calls'[k + 1] = FetchAdd(calls'[k])
      <4>1. CASE k = n
        BY <2>2, <3>1, <3>2, <4>1
      <4>2. CASE k # n
        <5>1. k \in 1..(n - 1) /\ k \in 1..n /\ k + 1 \in 1..n
          BY <2>2, <4>2
        <5> QED
          BY <2>2, <2>3, <5>1 DEF Chained
      <4> QED
        BY <4>1, <4>2
    <3> QED
      BY <2>4, <2>7, <3>2, <3>3 DEF Chained
  <2> QED
    BY <2>5, <2>6
<1>4. ASSUME NEW t \in Threads, Return(t) PROVE Chained'
  BY <1>1, <1>4 DEF Return
<1> QED
  BY <1>1, <1>2, <1>3, <1>4 DEF RingNext, ringVars

\* A turn that begins with ticket 0 does not wrap.
LEMMA TurnFromZero ==
  ASSUME RingTypeOK, Consecutive, Chained, Len(values) < UsizeModulus,
         NEW s \in 1..Len(calls), NEW e \in 1..Len(calls),
         s <= e, e - s < Len(values), calls[s] = 0
  PROVE  NoWrap(s, e)
<1> DEFINE L == Len(values)
           M == UsizeModulus
<1>1. L \in Nat \ {0} /\ Len(calls) \in Nat /\ M \in Nat \ {0, 1}
  BY UsizeAssumption DEF RingTypeOK
<1>2. CASE L = 1
  BY <1>1, <1>2 DEF NoWrap
<1>3. CASE L > 1
  <2> SUFFICES ASSUME ~NoWrap(s, e) PROVE FALSE
    OBVIOUS
  <2> DEFINE Wraps == {k \in s..(e - 1) : ~(calls[k] <= calls[k + 1])}
  <2>1. Wraps \in SUBSET Nat /\ Wraps # {}
    <3>1. \A k \in s..(e - 1) : k \in Nat
      BY <1>1
    <3>2. \E k \in s..(e - 1) : ~(calls[k] <= calls[k + 1])
      BY DEF NoWrap
    <3> QED
      BY <3>1, <3>2
  <2>2. PICK k \in Wraps : \A l \in Wraps : k <= l
    BY <2>1, LeastNumber
  <2>3. k \in s..(e - 1) /\ ~(calls[k] <= calls[k + 1]) /\ k \in 1..(Len(calls) - 1)
        /\ k \in 1..Len(calls)
    BY <1>1
  <2>4. NoWrap(s, k)
    <3>1. ASSUME NEW l \in s..(k - 1) PROVE calls[l] <= calls[l + 1]
      <4>1. l \in s..(e - 1) /\ ~(k <= l)
        BY <2>3
      <4>2. l \notin Wraps
        BY <2>2, <4>1
      <4> QED
        BY <4>1, <4>2
    <3> QED
      BY <3>1 DEF NoWrap
  <2> HIDE DEF Wraps
  <2>5. calls[k] = k - s
    <3>1. calls[k] = calls[s] + (k - s)
      BY <1>3, <2>3, <2>4 DEF Consecutive
    <3> QED
      BY <2>3, <3>1
  <2>6. calls[k] \in Usize /\ calls[k + 1] = FetchAdd(calls[k])
    BY <1>3, <2>3 DEF Chained, RingTypeOK
  <2>7. calls[k] = M - 1
    <3>1. calls[k] # M - 1 => calls[k + 1] = calls[k] + 1
      BY <2>6, FetchAddIsSuccessor
    <3>2. calls[k] \in Nat
      BY <1>1, <2>6 DEF Usize
    <3> QED
      BY <2>3, <3>1, <3>2
  <2> QED
    BY <1>1, <2>3, <2>5, <2>7
<1>4. L = 1 \/ L > 1
  BY <1>1, OneOrMore, Zenon
<1> QED
  BY <1>2, <1>3, <1>4

\* Within a turn less one call, calls go on from ticket 0 or do not wrap.
LEMMA TurnWithin ==
  ASSUME RingTypeOK, Consecutive, Chained, Len(values) < UsizeModulus,
         NEW i \in 1..Len(calls), i + 2 * Len(values) - 2 <= Len(calls)
  PROVE  \E s \in i..(i + Len(values) - 1) : NoWrap(s, s + Len(values) - 1)
<1> DEFINE L == Len(values)
           M == UsizeModulus
           j == i + L - 1
<1>1. L \in Nat \ {0} /\ Len(calls) \in Nat /\ M \in Nat \ {0, 1}
  BY UsizeAssumption DEF RingTypeOK
<1>2. CASE NoWrap(i, j)
  BY <1>1, <1>2
<1>3. CASE ~NoWrap(i, j)
  <2>1. PICK k \in i..(j - 1) : ~(calls[k] <= calls[k + 1])
    BY <1>3 DEF NoWrap
  <2>2. L > 1 /\ k \in 1..(Len(calls) - 1) /\ k \in 1..Len(calls)
    BY <1>1
  <2>3. calls[k] \in Usize /\ calls[k + 1] = FetchAdd(calls[k])
    BY <2>2 DEF Chained, RingTypeOK
  <2>4. calls[k + 1] = 0
    <3>1. calls[k] \in Nat
      BY <1>1, <2>3 DEF Usize
    <3> QED
      BY <2>1, <2>3, <3>1, FetchAddIsSuccessor
  <2> DEFINE s == k + 1
             e == s + L - 1
  <2>5. s \in 1..Len(calls) /\ e \in 1..Len(calls) /\ s <= e /\ e - s < L /\ s \in i..j
    BY <1>1, <2>2
  <2> HIDE DEF s, e
  <2>6. NoWrap(s, e)
    BY <2>4, <2>5, TurnFromZero DEF s
  <2> QED
    BY <2>5, <2>6 DEF e
<1> QED
  BY <1>2, <1>3

LEMMA ShareGrows ==
  ASSUME NEW a, NEW i \in Int, NEW j \in Int, NEW s \in Int, NEW e \in Int, i <= s, e <= j
  PROVE  Share(a, s, e) <= Share(a, i, j)
<1> DEFINE Small == {k \in s..e : ServerOf(k) = a}
           Large == {k \in i..j : ServerOf(k) = a}
<1>1. IsFiniteSet(i..j) /\ Large \in SUBSET (i..j)
  BY FS_Interval
<1>2. Small \in SUBSET Large
  OBVIOUS
<1> HIDE DEF Small, Large
<1>3. IsFiniteSet(Large)
  BY <1>1, FS_Subset
<1>4. Cardinality(Small) <= Cardinality(Large)
  BY <1>2, <1>3, FS_Subset
<1> QED
  BY <1>4 DEF Share, Small, Large

(* What the proofs about the order of calls rest on.                       *)
OrderInv == TypeOK /\ HoldsCycle /\ Consecutive /\ Chained

LEMMA OrderInit == Init => OrderInv
  BY SchedulerTypeInit, ConsecutiveInit DEF Init, NewRing, Chained, OrderInv

LEMMA OrderStep == OrderInv /\ [Next]_vars => OrderInv'
  BY SchedulerTypeStep, ConsecutiveStep, ChainedStep, NextIsRingNext DEF TypeOK, OrderInv

LEMMA CycleFitsUsize == ASSUME OrderInv PROVE Len(values) < UsizeModulus
  BY BackendListsAssumption DEF OrderInv, TypeOK, HoldsCycle

(* The wrap-around of the counter starves no backend.                      *)
THEOREM NobodyEverStarves == Spec => []NobodyStarves
<1>1. OrderInv => NobodyStarves
  <2> SUFFICES ASSUME OrderInv, NEW i \in 1..(Len(calls) - 2 * Len(values) + 2),
                      NEW a \in Addresses
               PROVE  Share(a, i, i + 2 * Len(values) - 2) >= Weight(a)
    BY DEF NobodyStarves
  <2> DEFINE L == Len(values)
  <2>1. L \in Nat \ {0} /\ Len(calls) \in Nat
    BY DEF OrderInv, TypeOK, RingTypeOK
  <2>2. i \in 1..Len(calls) /\ i + 2 * L - 2 <= Len(calls)
    BY <2>1
  <2>3. L < UsizeModulus
    BY CycleFitsUsize
  <2>4. PICK s \in i..(i + L - 1) : NoWrap(s, s + L - 1)
    BY <2>2, <2>3, TurnWithin DEF OrderInv, TypeOK
  <2>5. s \in 1..Len(calls) /\ s + L - 1 \in 1..Len(calls)
    BY <2>1, <2>2
  <2>6. Share(a, s, s + L - 1) = Weight(a)
    BY <2>4, <2>5, TurnIsWeighted DEF OrderInv
  <2> DEFINE j == i + 2 * L - 2
             e == s + L - 1
  <2>7. i \in Int /\ j \in Int /\ s \in Int /\ e \in Int /\ i <= s /\ e <= j
    BY <2>1
  <2> HIDE DEF e, j
  <2>8. Share(a, s, e) <= Share(a, i, j)
    BY <2>7, ShareGrows
  <2>9. IsFiniteSet({k \in i..j : ServerOf(k) = a}) /\ IsFiniteSet({k \in s..e : ServerOf(k) = a})
    <3>1. IsFiniteSet(i..j) /\ IsFiniteSet(s..e)
      BY <2>7, FS_Interval
    <3>2. {k \in i..j : ServerOf(k) = a} \in SUBSET (i..j) /\ {k \in s..e : ServerOf(k) = a} \in SUBSET (s..e)
      OBVIOUS
    <3> QED
      BY <3>1, <3>2, FS_Subset
  <2>10. Share(a, i, j) \in Nat /\ Share(a, s, e) \in Nat
    BY <2>9, FS_CardinalityType DEF Share
  <2>11. Share(a, i, j) >= Share(a, s, e)
    BY <2>8, <2>10
  <2> QED
    BY <2>6, <2>11 DEF j, e
<1> QED
  BY <1>1, OrderInit, OrderStep, PTL DEF Spec

(* The first turn serves the backends in configuration order.              *)
THEOREM FirstTurnKeepsConfigOrder == Spec => []FirstTurnInConfigOrder
<1>1. OrderInv => FirstTurnInConfigOrder
  <2> SUFFICES ASSUME OrderInv, NEW k \in 1..Min({Len(calls), Len(values)})
               PROVE  \E i \in DOMAIN backends :
                        LET before == MapThenSumSet(LAMBDA j : backends[j].weight, 1..(i - 1)) IN
                          /\ k \in (before + 1)..(before + backends[i].weight)
                          /\ ServerOf(k) = backends[i].address
    BY DEF FirstTurnInConfigOrder
  <2> DEFINE L == Len(values)
  <2>1. L \in Nat \ {0} /\ Len(calls) \in Nat
    BY DEF OrderInv, TypeOK, RingTypeOK
  <2>2. k \in 1..L /\ k \in 1..Len(calls)
    <3> DEFINE m == Min({Len(calls), L})
    <3>1. m \in {Len(calls), L} /\ m <= L /\ m <= Len(calls)
      <4>1. \E x \in {Len(calls), L} : \A y \in {Len(calls), L} : x <= y
        BY <2>1
      <4>2. m \in {Len(calls), L} /\ \A y \in {Len(calls), L} : m <= y
        BY <4>1, Zenon DEF Min
      <4> QED
        BY <4>2
    <3> HIDE DEF m
    <3>2. k \in 1..m
      BY DEF m
    <3> QED
      BY <2>1, <3>1, <3>2
  <2>3. 1 \in 1..Len(calls) /\ calls # <<>>
    BY <2>2
  <2>4. calls[1] = 0
    <3>1. L = 1 \/ L > 1
      BY <2>1, OneOrMore, Zenon
    <3> QED
      BY <2>3, <3>1 DEF OrderInv, Chained
  <2>5. NoWrap(1, k)
    BY <2>1, <2>2, <2>3, <2>4, CycleFitsUsize, TurnFromZero DEF OrderInv, TypeOK
  <2>6. calls[k] = k - 1
    <3>1. CASE L = 1
      BY <2>2, <2>4, <3>1
    <3>2. CASE L > 1
      <4>1. calls[k] = calls[1] + (k - 1)
        BY <2>2, <2>3, <2>5, <3>2 DEF OrderInv, Consecutive
      <4>2. 0 + (k - 1) = k - 1
        BY <2>1, <2>2
      <4> QED
        BY <2>4, <4>1, <4>2
    <3>3. L = 1 \/ L > 1
      BY <2>1, OneOrMore, Zenon
    <3> QED
      BY <3>1, <3>2, <3>3
  <2>7. Index(calls[k]) = k
    <3>1. k - 1 \in 0..(L - 1)
      BY <2>1, <2>2
    <3>2. (k - 1) % L = k - 1
      BY <2>1, <3>1
    <3> QED
      BY <2>6, <3>2 DEF Index
  <2>8. AreBackends(backends)
    BY BackendsOfInit DEF OrderInv, TypeOK
  <2>9. InOrder(values, backends, Len(backends))
    BY <2>8, CycleIsFair DEF OrderInv, HoldsCycle
  <2>10. PICK i \in 1..Len(backends) :
           /\ k \in (Total(backends, 1..(i - 1)) + 1)..(Total(backends, 1..(i - 1)) + backends[i].weight)
           /\ values[k] = backends[i].address
    BY <2>2, <2>9 DEF InOrder
  <2>11. i \in DOMAIN backends
    BY <2>8 DEF AreBackends
  <2> QED
    BY <2>7, <2>10, <2>11, Zenon DEF Total, ServerOf
<1> QED
  BY <1>1, OrderInit, OrderStep, PTL DEF Spec

-----------------------------------------------------------------------------
(* Every ticket that was taken has been answered, or the thread that took  *)
(* it is about to: for each address, the answers and the threads that will *)
(* return it make up the tickets for it.                                   *)
Pending(a) == {t \in Threads : ticket[t] # NoTicket /\ Entry(t) = a}
Accounted ==
  \A a \in Addresses :
    /\ IsFiniteSet(Pending(a))
    /\ answers[a] + Cardinality(Pending(a)) = Share(a, 1, Len(calls))

LEMMA AccountedInit == Init => Accounted
<1> SUFFICES ASSUME Init, NEW a \in Addresses
             PROVE  /\ IsFiniteSet(Pending(a))
                    /\ answers[a] + Cardinality(Pending(a)) = Share(a, 1, Len(calls))
  BY DEF Accounted
<1>1. ticket = [t \in Threads |-> NoTicket] /\ calls = <<>> /\ answers[a] = 0
  BY DEF Init, NewRing
<1>2. Pending(a) = {}
  BY <1>1 DEF Pending
<1>3. Len(calls) = 0 /\ 1..0 = {}
  BY <1>1
<1>4. Share(a, 1, Len(calls)) = 0
  BY <1>3, FS_EmptySet DEF Share
<1> QED
  BY <1>1, <1>2, <1>4, FS_EmptySet

LEMMA AccountedStep ==
  TypeOK /\ HoldsCycle /\ Accounted /\ [Next]_vars => Accounted'
<1> SUFFICES ASSUME TypeOK, HoldsCycle, Accounted, [Next]_vars PROVE Accounted'
  OBVIOUS
<1>0. backends' = backends /\ values' = values
  BY DEF Next, Call, Answer, Exhausted, TakeTicket, Return, vars, ringVars
<1>1. Addresses' = Addresses
  BY <1>0 DEF Addresses
<1>2. CASE UNCHANGED vars
  <2>1. \A a : Pending(a)' = Pending(a) /\ Share(a, 1, Len(calls))' = Share(a, 1, Len(calls))
    BY <1>2 DEF vars, ringVars, Pending, Entry, Index, Share, ServerOf
  <2>2. answers' = answers
    BY <1>2 DEF vars
  <2> QED
    BY <1>1, <2>1, <2>2 DEF Accounted
<1>3. ASSUME NEW t \in Threads, Call(t) PROVE Accounted'
  <2>0. PICK n \in Nat : n = Len(calls)
    BY DEF TypeOK, RingTypeOK
  <2>1. PICK x : ticket' = [ticket EXCEPT ![t] = x] /\ calls' = Append(calls, x)
    BY <1>3 DEF Call, TakeTicket
  <2>2. ticket[t] = NoTicket /\ answers' = answers
    BY <1>3 DEF Call, TakeTicket
  <2>3. n \in Nat /\ Len(calls') = n + 1 /\ calls'[n + 1] = x
        /\ \A k \in 1..n : calls'[k] = calls[k]
    BY <2>0, <2>1 DEF TypeOK, RingTypeOK
  <2>4. ticket'[t] = x /\ \A u \in Threads \ {t} : ticket'[u] = ticket[u]
    BY <2>1 DEF TypeOK, RingTypeOK
  <2>5. x # NoTicket
    <3>1. RingTypeOK'
      BY NextIsRingNext, TypeStep DEF TypeOK
    <3>2. n + 1 \in 1..Len(calls')
      BY <2>3
    <3>3. calls'[n + 1] \in Usize
      BY <3>1, <3>2 DEF RingTypeOK
    <3> QED
      BY <2>3, <3>3, UsizeAssumption DEF Usize, NoTicket
  <2> SUFFICES ASSUME NEW a \in Addresses
               PROVE  /\ IsFiniteSet(Pending(a)')
                      /\ answers'[a] + Cardinality(Pending(a)') = Share(a, 1, Len(calls))'
    BY <1>1 DEF Accounted
  <2>6. IsFiniteSet(Pending(a)) /\ answers[a] + Cardinality(Pending(a)) = Share(a, 1, n)
    BY <2>0 DEF Accounted
  <2> DEFINE Old == {k \in 1..n : ServerOf(k) = a}
             New == {k \in 1..(n + 1) : ServerOf(k)' = a}
  <2>7. \A k \in 1..n : ServerOf(k)' = ServerOf(k)
    BY <1>0, <2>3 DEF ServerOf, Index
  <2>8. Entry(t)' = ServerOf(n + 1)'
    BY <2>3, <2>4 DEF Entry, ServerOf, Index
  <2>9. \A u \in Threads \ {t} : Entry(u)' = Entry(u)
    BY <1>0, <2>4 DEF Entry, Index
  <2>10. t \notin Pending(a)
    BY <2>2 DEF Pending
  <2>11. Cardinality(Pending(a)) \in Nat /\ answers[a] \in Nat
    BY <2>6, FS_CardinalityType DEF TypeOK
  <2>12. IsFiniteSet(Old) /\ n + 1 \notin Old
    <3>1. IsFiniteSet(1..n) /\ Old \in SUBSET (1..n)
      BY <2>3, FS_Interval
    <3> QED
      BY <2>3, <3>1, FS_Subset
  <2>13. Share(a, 1, n) = Cardinality(Old) /\ Share(a, 1, Len(calls))' = Cardinality(New)
    BY <2>3 DEF Share
  <2>14. \A k : k \in 1..(n + 1) <=> k \in 1..n \/ k = n + 1
    BY <2>3
  <2>15. CASE Entry(t)' = a
    <3>1. Pending(a)' = Pending(a) \cup {t}
      BY <2>4, <2>5, <2>9, <2>15 DEF Pending, NoTicket
    <3>2. New = Old \cup {n + 1}
      BY <2>7, <2>8, <2>14, <2>15
    <3> HIDE DEF Old, New
    <3>3. IsFiniteSet(Pending(a)') /\ Cardinality(Pending(a)') = Cardinality(Pending(a)) + 1
      BY <2>6, <2>10, <3>1, FS_AddElement
    <3>4. Cardinality(New) = Cardinality(Old) + 1
      BY <2>12, <3>2, FS_AddElement
    <3> QED
      BY <2>2, <2>6, <2>11, <2>13, <3>3, <3>4
  <2>16. CASE Entry(t)' # a
    <3>1. Pending(a)' = Pending(a)
      BY <2>4, <2>9, <2>10, <2>16 DEF Pending, NoTicket
    <3>2. New = Old
      BY <2>7, <2>8, <2>14, <2>16
    <3> HIDE DEF Old, New
    <3> QED
      BY <2>2, <2>6, <2>13, <3>1, <3>2
  <2> QED
    BY <2>15, <2>16
<1>4. ASSUME NEW t \in Threads, Answer(t) PROVE Accounted'
  <2>1. /\ ticket[t] # NoTicket /\ ticket' = [ticket EXCEPT ![t] = NoTicket]
        /\ calls' = calls
        /\ answers' = [answers EXCEPT ![Entry(t)] = @ + 1]
    BY <1>4 DEF Answer, Return
  <2>2. ticket'[t] = NoTicket /\ \A u \in Threads \ {t} : ticket'[u] = ticket[u]
    BY <2>1 DEF TypeOK, RingTypeOK
  <2>3. Entry(t) \in Addresses
    <3>1. ticket[t] \in Usize
      BY <2>1 DEF TypeOK, RingTypeOK
    <3> QED
      BY <3>1, EntryIsAddress DEF Entry
  <2>4. \A u \in Threads \ {t} : Entry(u)' = Entry(u)
    BY <1>0, <2>2 DEF Entry, Index
  <2> SUFFICES ASSUME NEW a \in Addresses
               PROVE  /\ IsFiniteSet(Pending(a)')
                      /\ answers'[a] + Cardinality(Pending(a)') = Share(a, 1, Len(calls))'
    BY <1>1 DEF Accounted
  <2>5. Share(a, 1, Len(calls))' = Share(a, 1, Len(calls))
    BY <1>0, <2>1 DEF Share, ServerOf, Index
  <2>6. IsFiniteSet(Pending(a)) /\ answers[a] + Cardinality(Pending(a)) = Share(a, 1, Len(calls))
    BY DEF Accounted
  <2>7. Cardinality(Pending(a)) \in Nat /\ answers[a] \in Nat
    BY <2>6, FS_CardinalityType DEF TypeOK
  <2>8. CASE Entry(t) = a
    <3>1. Pending(a)' = Pending(a) \ {t} /\ t \in Pending(a)
      BY <2>1, <2>2, <2>4, <2>8 DEF Pending, NoTicket
    <3>2. IsFiniteSet(Pending(a)') /\ Cardinality(Pending(a)') = Cardinality(Pending(a)) - 1
      BY <2>6, <3>1, FS_RemoveElement
    <3>3. answers'[a] = answers[a] + 1
      BY <2>1, <2>8 DEF TypeOK
    <3> QED
      BY <2>5, <2>6, <2>7, <3>2, <3>3
  <2>9. CASE Entry(t) # a
    <3>1. Pending(a)' = Pending(a)
      BY <2>1, <2>2, <2>4, <2>9 DEF Pending, NoTicket
    <3>2. answers'[a] = answers[a]
      BY <2>1, <2>3, <2>9 DEF TypeOK
    <3> QED
      BY <2>5, <2>6, <3>1, <3>2
  <2> QED
    BY <2>8, <2>9
<1> QED
  BY <1>2, <1>3, <1>4 DEF Next, Exhausted

(* However threads overtake one another, the answers that have been given  *)
(* once nobody waits are exactly those of the tickets taken.               *)
THEOREM AnswersAlwaysMatchTickets == Spec => []AnswersMatchTickets
<1>1. Init => TypeOK /\ HoldsCycle /\ Accounted
  BY SchedulerTypeInit, AccountedInit
<1>2. TypeOK /\ HoldsCycle /\ Accounted /\ [Next]_vars
        => (TypeOK /\ HoldsCycle /\ Accounted)'
  BY SchedulerTypeStep, AccountedStep
<1>3. TypeOK /\ Accounted => AnswersMatchTickets
  <2> SUFFICES ASSUME TypeOK, Accounted, \A t \in Threads : ticket[t] = NoTicket,
                      NEW a \in Addresses
               PROVE  answers[a] = Share(a, 1, Len(calls))
    BY DEF AnswersMatchTickets
  <2>1. Pending(a) = {}
    BY DEF Pending
  <2>2. Cardinality(Pending(a)) = 0 /\ answers[a] \in Nat
    BY <2>1, FS_EmptySet DEF TypeOK
  <2> QED
    BY <2>2 DEF Accounted
<1> QED
  BY <1>1, <1>2, <1>3, PTL DEF Spec

=============================================================================
