----------------------------- MODULE RingProofs -----------------------------
(***************************************************************************)
(* Proofs about module Ring, for any vector of values, any width of the    *)
(* counter, any number of threads and any number of calls.                 *)
(***************************************************************************)
EXTENDS Ring, Integers, TLAPS

LEMMA FetchAddIsSuccessor ==
  ASSUME NEW n \in Usize
  PROVE  /\ FetchAdd(n) \in Usize
         /\ FetchAdd(n) = IF n = UsizeModulus - 1 THEN 0 ELSE n + 1
  BY UsizeAssumption DEF FetchAdd, Usize

LEMMA MoreThanOne == ASSUME NEW n \in Nat, n > 1 PROVE n # 1
  OBVIOUS

\* Numbers less than m apart have different remainders modulo m.
LEMMA RemaindersDiffer ==
  ASSUME NEW m \in Nat \ {0}, NEW n \in Nat, NEW d \in 1..(m - 1)
  PROVE  n % m # (n + d) % m
<1> SUFFICES ASSUME n % m = (n + d) % m PROVE FALSE
  OBVIOUS
<1> DEFINE q1 == n \div m
           q2 == (n + d) \div m
<1>1. q1 \in Int /\ q2 \in Int
  OBVIOUS
<1>2. n = m * q1 + (n % m) /\ n % m \in Int
  OBVIOUS
<1>3. n + d = m * q2 + ((n + d) % m)
  OBVIOUS
<1>4. d = m * (q2 - q1)
  BY <1>1, <1>2, <1>3
<1> HIDE DEF q1, q2
<1>5. CASE q2 - q1 <= 0
  <2>1. m * (q2 - q1) <= 0
    BY <1>1, <1>5
  <2> QED
    BY <1>4, <2>1
<1>6. CASE q2 - q1 >= 1
  <2>1. m * (q2 - q1) >= m
    BY <1>1, <1>6
  <2> QED
    BY <1>4, <2>1
<1> QED
  BY <1>1, <1>5, <1>6

-----------------------------------------------------------------------------
LEMMA TypeStep == RingTypeOK /\ [RingNext]_ringVars => RingTypeOK'
<1> SUFFICES ASSUME RingTypeOK, [RingNext]_ringVars PROVE RingTypeOK'
  OBVIOUS
<1> USE DEF RingTypeOK
<1>1. ASSUME NEW t \in Threads, TakeTicket(t) PROVE RingTypeOK'
  <2>1. 0 \in Usize /\ FetchAdd(next) \in Usize
    BY FetchAddIsSuccessor, UsizeAssumption DEF Usize
  <2> QED
    BY <1>1, <2>1 DEF TakeTicket
<1>2. ASSUME NEW t \in Threads, Return(t) PROVE RingTypeOK'
  BY <1>2 DEF Return
<1>3. CASE UNCHANGED ringVars
  BY <1>3 DEF ringVars
<1> QED
  BY <1>1, <1>2, <1>3 DEF RingNext

LEMMA TypeInit == RingInit => RingTypeOK
  BY UsizeAssumption DEF RingInit, NewRing, RingTypeOK, Usize

(* The shared counter stays within its width, and a ring never loses its   *)
(* values.                                                                 *)
THEOREM TypeCorrect == RingSpec => []RingTypeOK
  BY TypeInit, TypeStep, PTL DEF RingSpec

-----------------------------------------------------------------------------
(* The inductive invariant behind the turns: the counter is the successor  *)
(* of the last ticket, and tickets grow by one from call to call until the *)
(* counter wraps.                                                          *)
Consecutive ==
  Len(values) > 1 =>
    /\ calls # <<>> => next = FetchAdd(calls[Len(calls)])
    /\ \A i, j \in 1..Len(calls) :
         i <= j /\ NoWrap(i, j) => calls[j] = calls[i] + (j - i)

LEMMA ConsecutiveStep ==
  RingTypeOK /\ Consecutive /\ [RingNext]_ringVars => Consecutive'
<1> SUFFICES ASSUME RingTypeOK, Consecutive, [RingNext]_ringVars PROVE Consecutive'
  OBVIOUS
<1>1. CASE UNCHANGED <<values, next, calls>>
  BY <1>1 DEF Consecutive, NoWrap
<1>2. ASSUME NEW t \in Threads, TakeTicket(t), Len(values) > 1 PROVE Consecutive'
  <2> DEFINE n == Len(calls)
  <2>0. Len(values) # 1
    <3>1. Len(values) \in Nat
      BY DEF RingTypeOK
    <3> QED
      BY <1>2, <3>1, MoreThanOne
  <2>1. /\ calls' = Append(calls, next)
        /\ next' = FetchAdd(next)
        /\ values' = values
    BY <1>2, <2>0, Zenon DEF TakeTicket
  <2>2. /\ n \in Nat /\ Len(calls') = n + 1
        /\ calls'[n + 1] = next
        /\ \A i \in 1..n : calls'[i] = calls[i]
    BY <2>1 DEF RingTypeOK
  <2>3. \A i \in 1..n : calls[i] \in Nat
    BY UsizeAssumption DEF RingTypeOK, Usize
  <2>4. next \in Nat
    BY UsizeAssumption DEF RingTypeOK, Usize
  <2>5. ASSUME NEW i \in 1..(n + 1), NEW j \in 1..(n + 1), i <= j, NoWrap(i, j)'
        PROVE  calls'[j] = calls'[i] + (j - i)
    <3>1. CASE i = j
      BY <3>1, <2>2, <2>3, <2>4
    <3>2. CASE i < j /\ j <= n
      <4>1. NoWrap(i, j)
        BY <2>2, <2>5, <3>2 DEF NoWrap
      <4> QED
        BY <1>2, <2>2, <3>2, <4>1 DEF Consecutive
    <3>3. CASE i < j /\ j = n + 1
      <4>1. i \in 1..n /\ n \in 1..n /\ calls # <<>>
        BY <2>2, <3>3
      <4>2. NoWrap(i, n) /\ calls[n] <= next
        BY <2>2, <2>5, <3>3, <4>1 DEF NoWrap
      <4>3. calls[n] = calls[i] + (n - i)
        BY <1>2, <4>1, <4>2 DEF Consecutive
      <4>4. next = calls[n] + 1
        <5>1. calls[n] \in Usize /\ next = FetchAdd(calls[n])
          BY <1>2, <4>1 DEF Consecutive, RingTypeOK
        <5> QED
          BY <4>2, <5>1, FetchAddIsSuccessor, UsizeAssumption DEF Usize
      <4> QED
        BY <2>2, <2>3, <3>3, <4>1, <4>3, <4>4
    <3> QED
      BY <2>2, <2>5, <3>1, <3>2, <3>3
  <2> HIDE DEF n
  <2> QED
    BY <2>1, <2>2, <2>5 DEF Consecutive
<1>3. ASSUME NEW t \in Threads, TakeTicket(t), ~(Len(values) > 1)
      PROVE  Consecutive'
  BY <1>3 DEF TakeTicket, Consecutive
<1>4. ASSUME NEW t \in Threads, Return(t) PROVE Consecutive'
  BY <1>1, <1>4 DEF Return
<1> QED
  BY <1>1, <1>2, <1>3, <1>4 DEF RingNext, ringVars

LEMMA TurnsFromConsecutive ==
  ASSUME RingTypeOK, Consecutive PROVE TurnsVisitEveryEntry
<1> SUFFICES ASSUME NEW i \in 1..Len(calls), NEW j \in 1..Len(calls),
                    i < j, j - i < Len(values), NoWrap(i, j)
             PROVE  Index(calls[i]) # Index(calls[j])
  BY DEF TurnsVisitEveryEntry
<1> DEFINE m == Len(values)
           d == j - i
<1>1. m \in Nat \ {0} /\ d \in 1..(m - 1) /\ m > 1
  BY DEF RingTypeOK
<1>2. calls[i] \in Nat
  BY UsizeAssumption DEF RingTypeOK, Usize
<1>3. calls[j] = calls[i] + d
  BY <1>1 DEF Consecutive
<1>4. calls[i] % m # calls[j] % m
  BY <1>1, <1>2, <1>3, RemaindersDiffer
<1>5. calls[i] % m \in Nat /\ calls[j] % m \in Nat
  BY <1>1, <1>2, <1>3
<1> QED
  BY <1>4, <1>5 DEF Index

(* No turn of the ring skips an entry or hands one out twice, for any      *)
(* number of threads, any length of the cycle and any width of usize.      *)
THEOREM EveryTurnVisitsEveryEntry == RingSpec => []TurnsVisitEveryEntry
<1>1. RingInit => RingTypeOK /\ Consecutive
  BY TypeInit DEF RingInit, NewRing, Consecutive
<1>2. RingTypeOK /\ Consecutive /\ [RingNext]_ringVars
        => (RingTypeOK /\ Consecutive)'
  BY TypeStep, ConsecutiveStep
<1>3. RingTypeOK /\ Consecutive => TurnsVisitEveryEntry
  BY TurnsFromConsecutive
<1> QED
  BY <1>1, <1>2, <1>3, PTL DEF RingSpec

=============================================================================
