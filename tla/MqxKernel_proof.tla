--------------------------- MODULE MqxKernel_proof ---------------------------
(***************************************************************************)
(* What the operators of MqxKernel preserve, for any number of tasks,        *)
(* priorities and wait queues.                                               *)
(*                                                                           *)
(* The dispatcher is only correct because the idle task is always ready (the *)
(* search would otherwise run off the ready queues), because no task is ready *)
(* above CURRENT_READY_Q, and because the ready queues hold exactly the ready *)
(* tasks; so the type of the kernel, these three facts and the timeout queue, *)
(* which the timer interrupt moves tasks from, are one inductive invariant.   *)
(***************************************************************************)
EXTENDS MqxKernel, FiniteSetTheorems, WellFoundedInduction, TLAPS

(***************************************************************************)
(* The queue operators, for every queue and every set: what taking elements *)
(* off a queue (Keep, Unlink) and sorting one in (InsertBefore) do to its   *)
(* elements and to their order.                                             *)
(***************************************************************************)
\* A non-empty set of natural numbers has a least element.
LEMMA LeastNatural ==
    ASSUME NEW S \in SUBSET Nat, S # {}
    PROVE  \E n \in S : \A m \in S : n <= m
<1>1. PICK n \in S : \A m \in S : ~(<<m, n>> \in OpToRel(<, Nat))
  BY NatLessThanWellFounded, WFMin
<1>2. \A m \in S : ~(m < n)
  BY <1>1 DEF OpToRel
<1> QED
  BY <1>2

\* The rank of the members of a finite set of numbers: strictly increasing, and onto.
LEMMA Ranks ==
    ASSUME NEW I \in SUBSET Int, IsFiniteSet(I)
    PROVE  /\ Cardinality(I) \in Nat
           /\ \A i \in I : Cardinality({j \in I : j <= i}) \in 1 .. Cardinality(I)
           /\ \A i, m \in I : i < m =>
                Cardinality({j \in I : j <= i}) < Cardinality({j \in I : j <= m})
           /\ \A n \in 1 .. Cardinality(I) :
                \E i \in I : Cardinality({j \in I : j <= i}) = n
<1> DEFINE Below(i) == {j \in I : j <= i}
           rank == [i \in I |-> Cardinality(Below(i))]
<1>1. Cardinality(I) \in Nat
  BY FS_CardinalityType
<1>2. ASSUME NEW i \in I
      PROVE  /\ IsFiniteSet(Below(i)) /\ Cardinality(Below(i)) \in Nat
             /\ Cardinality(Below(i)) <= Cardinality(I)
             /\ Cardinality(Below(i)) # 0
  <2>1. Below(i) \in SUBSET I
    OBVIOUS
  <2>2. IsFiniteSet(Below(i)) /\ Cardinality(Below(i)) <= Cardinality(I)
    BY <2>1, FS_Subset
  <2>3. i \in Below(i)
    OBVIOUS
  <2> QED
    BY <2>2, <2>3, FS_CardinalityType, FS_EmptySet
<1>3. ASSUME NEW i \in I, NEW m \in I, i < m
      PROVE  Cardinality(Below(i)) < Cardinality(Below(m))
  <2>0. I \subseteq Int /\ i \in Int /\ m \in Int /\ i < m
    BY <1>3
  <2>1. \A j \in Int : j <= i => j <= m
    BY <2>0
  <2>2. Below(i) \in SUBSET Below(m) /\ m \in Below(m) /\ m \notin Below(i)
    <3>1. \A j \in Below(i) : j \in Below(m)
      BY <2>0, <2>1
    <3>2. m <= m /\ ~(m <= i)
      BY <2>0
    <3> QED
      BY <3>1, <3>2
  <2>3. /\ Cardinality(Below(i)) <= Cardinality(Below(m))
        /\ Cardinality(Below(m)) # Cardinality(Below(i))
    BY <2>2, <1>2, FS_Subset
  <2> QED
    BY <2>3, <1>2
<1>4. rank \in Injection(I, 1 .. Cardinality(I))
  <2>1. rank \in [I -> 1 .. Cardinality(I)]
    BY <1>1, <1>2
  <2>2. \A i, m \in I : i # m => Cardinality(Below(i)) # Cardinality(Below(m))
    <3>1. ASSUME NEW i \in I, NEW m \in I, i # m
          PROVE  Cardinality(Below(i)) # Cardinality(Below(m))
      <4>1. i < m \/ m < i
        BY <3>1
      <4> HIDE DEF Below
      <4>2. CASE i < m
        BY <4>2, <1>2, <1>3
      <4>3. CASE m < i
        BY <4>3, <1>2, <1>3
      <4> QED
        BY <4>1, <4>2, <4>3
    <3> QED
      BY <3>1
  <2> QED
    BY <2>1, <2>2 DEF Injection, IsInjective
<1>5. IsFiniteSet(1 .. Cardinality(I)) /\ Cardinality(1 .. Cardinality(I)) = Cardinality(I)
  BY <1>1, FS_Interval
<1>6. rank \in Surjection(I, 1 .. Cardinality(I))
  BY <1>4, <1>5, FS_Injection
<1>7. \A n \in 1 .. Cardinality(I) : \E i \in I : Cardinality(Below(i)) = n
  BY <1>6 DEF Surjection
<1> QED
  BY <1>1, <1>2, <1>3, <1>7

\* What Keep(q, S) is made of: an increasing choice of the positions of q with an
\* element of S, and none of them left out.
LEMMA KeepIndices ==
    ASSUME NEW T, NEW q \in Seq(T), NEW S
    PROVE  LET r == Keep(q, S)
           IN  /\ r \in Seq(T)
               /\ \A n \in 1 .. Len(r) : r[n] \in S
               /\ \A m, n \in 1 .. Len(r) : m < n =>
                    \E i, j \in 1 .. Len(q) : i < j /\ r[m] = q[i] /\ r[n] = q[j]
               /\ \A n \in 1 .. Len(r) : \E i \in 1 .. Len(q) : r[n] = q[i]
               /\ \A i \in 1 .. Len(q) : q[i] \in S => \E n \in 1 .. Len(r) : r[n] = q[i]
<1> DEFINE I == {i \in 1 .. Len(q) : q[i] \in S}
           R(i) == Cardinality({j \in I : j <= i})
           at(n) == CHOOSE i \in I : R(i) = n
           r == Keep(q, S)
<1>1. I \in SUBSET (1 .. Len(q)) /\ I \in SUBSET Int /\ Len(q) \in Nat
  OBVIOUS
<1>2. IsFiniteSet(I)
  <2>1. IsFiniteSet(1 .. Len(q))
    BY <1>1, FS_Interval
  <2> QED
    BY <1>1, <2>1, FS_Subset
<1>3. /\ Cardinality(I) \in Nat
      /\ \A i \in I : R(i) \in 1 .. Cardinality(I)
      /\ \A i, m \in I : i < m => R(i) < R(m)
      /\ \A n \in 1 .. Cardinality(I) : \E i \in I : R(i) = n
  BY <1>1, <1>2, Ranks
<1>4. r = [n \in 1 .. Cardinality(I) |-> q[at(n)]]
  BY DEF Keep
<1>5. \A i \in I : i \in 1 .. Len(q) /\ q[i] \in S
  OBVIOUS
<1>6. \A i \in 1 .. Len(q) : q[i] \in S => i \in I
  OBVIOUS
<1> HIDE DEF I, R, r
<1>7. \A n \in 1 .. Cardinality(I) : at(n) \in I /\ R(at(n)) = n
  BY <1>3
<1> HIDE DEF at
<1>8. Len(r) = Cardinality(I) /\ r \in Seq(T)
  <2>1. \A n \in 1 .. Cardinality(I) : q[at(n)] \in T
    BY <1>5, <1>7
  <2> QED
    BY <1>3, <1>4, <2>1
<1>9. \A n \in 1 .. Len(r) : at(n) \in 1 .. Len(q) /\ r[n] = q[at(n)] /\ q[at(n)] \in S
  BY <1>4, <1>5, <1>7, <1>8
<1>10. ASSUME NEW m \in 1 .. Len(r), NEW n \in 1 .. Len(r), m < n
       PROVE  at(m) < at(n)
  <2>1. at(m) \in I /\ at(n) \in I /\ R(at(m)) = m /\ R(at(n)) = n
    BY <1>7, <1>8
  <2>2. at(m) \in Int /\ at(n) \in Int
    BY <2>1, <1>1
  <2>3. ~(at(n) < at(m)) /\ at(n) # at(m)
    BY <1>3, <1>10, <2>1
  <2> QED
    BY <2>2, <2>3
<1>11. ASSUME NEW i \in 1 .. Len(q), q[i] \in S
       PROVE  \E n \in 1 .. Len(r) : r[n] = q[i]
  <2>1. i \in I /\ R(i) \in 1 .. Len(r)
    BY <1>3, <1>6, <1>8, <1>11
  <2>2. at(R(i)) \in I /\ R(at(R(i))) = R(i)
    BY <1>7, <1>8, <2>1
  <2>3. at(R(i)) = i
    <3>1. at(R(i)) \in Int /\ i \in Int
      BY <1>1, <2>1, <2>2
    <3>2. \A x, y \in I : x < y => R(x) # R(y)
      BY <1>3
    <3>3. ~(at(R(i)) < i) /\ ~(i < at(R(i)))
      BY <2>1, <2>2, <3>2
    <3> QED
      BY <3>1, <3>3
  <2> QED
    BY <1>9, <2>1, <2>3
<1>12. \A m, n \in 1 .. Len(r) : m < n =>
          \E i, j \in 1 .. Len(q) : i < j /\ r[m] = q[i] /\ r[n] = q[j]
  BY <1>9, <1>10
<1>13. \A n \in 1 .. Len(r) : r[n] \in S /\ \E i \in 1 .. Len(q) : r[n] = q[i]
  BY <1>9
<1> QED
  BY <1>8, <1>11, <1>12, <1>13 DEF r

\* Keep(q, S) has the elements of q that are in S, and is free of duplicates if q is.
LEMMA KeepElems ==
    ASSUME NEW T, NEW q \in Seq(T), NEW S
    PROVE  /\ Keep(q, S) \in Seq(T)
           /\ Elems(Keep(q, S)) = Elems(q) \cap S
           /\ NoDuplicates(q) => NoDuplicates(Keep(q, S))
<1> DEFINE r == Keep(q, S)
<1>1. /\ r \in Seq(T)
      /\ \A n \in 1 .. Len(r) : r[n] \in S
      /\ \A m, n \in 1 .. Len(r) : m < n =>
            \E i, j \in 1 .. Len(q) : i < j /\ r[m] = q[i] /\ r[n] = q[j]
      /\ \A n \in 1 .. Len(r) : \E i \in 1 .. Len(q) : r[n] = q[i]
      /\ \A i \in 1 .. Len(q) : q[i] \in S => \E n \in 1 .. Len(r) : r[n] = q[i]
  BY KeepIndices
<1> HIDE DEF r
<1>2. Elems(r) = Elems(q) \cap S
  <2>1. \A x \in Elems(r) : x \in Elems(q) /\ x \in S
    BY <1>1 DEF Elems
  <2>2. \A x \in Elems(q) : x \in S => x \in Elems(r)
    BY <1>1 DEF Elems
  <2> QED
    BY <2>1, <2>2
<1>3. ASSUME NoDuplicates(q)
      PROVE  NoDuplicates(r)
  <2>1. \A m, n \in 1 .. Len(r) : m < n => r[m] # r[n]
    <3>1. ASSUME NEW m \in 1 .. Len(r), NEW n \in 1 .. Len(r), m < n
          PROVE  r[m] # r[n]
      <4>1. PICK i \in 1 .. Len(q), j \in 1 .. Len(q) :
                i < j /\ r[m] = q[i] /\ r[n] = q[j]
        BY <1>1, <3>1
      <4>2. i # j
        BY <4>1
      <4> QED
        BY <1>3, <4>1, <4>2 DEF NoDuplicates
    <3> QED
      BY <3>1
  <2>2. \A m, n \in 1 .. Len(r) : m # n => m < n \/ n < m
    OBVIOUS
  <2> QED
    BY <2>1, <2>2 DEF NoDuplicates
<1> QED
  BY <1>1, <1>2, <1>3 DEF r

\* _QUEUE_UNLINK takes its TD off the queue and nothing else.
LEMMA UnlinkElems ==
    ASSUME NEW T, NEW q \in Seq(T), NEW t
    PROVE  /\ Unlink(q, t) \in Seq(T)
           /\ Elems(Unlink(q, t)) = Elems(q) \ {t}
           /\ NoDuplicates(q) => NoDuplicates(Unlink(q, t))
BY KeepElems DEF Unlink

\* InsertBefore finds its place: behind elements that are not in S, before one that is
\* or at the tail.
LEMMA InsertPlace ==
    ASSUME NEW T, NEW q \in Seq(T), NEW t \in T, NEW S
    PROVE  \E n \in 1 .. (Len(q) + 1) :
              /\ \A j \in 1 .. (n - 1) : q[j] \notin S
              /\ n <= Len(q) => q[n] \in S
              /\ InsertBefore(q, t, S) = QUEUE_INSERT(q, n, t)
<1> DEFINE P(i) == /\ \A j \in 1 .. (i - 1) : q[j] \notin S
                   /\ i <= Len(q) => q[i] \in S
           N == {i \in 1 .. (Len(q) + 1) : i <= Len(q) => q[i] \in S}
           n == CHOOSE i \in 1 .. (Len(q) + 1) : P(i)
<1>1. Len(q) \in Nat /\ Len(q) + 1 \in N /\ N \in SUBSET Nat
  OBVIOUS
<1>2. PICK i \in N : \A j \in N : i <= j
  BY <1>1, LeastNatural
<1>3. i \in 1 .. (Len(q) + 1) /\ P(i)
  <2>1. ASSUME NEW j \in 1 .. (i - 1), q[j] \in S
        PROVE  FALSE
    <3>1. j \in N /\ j < i
      BY <1>1, <2>1
    <3> QED
      BY <1>2, <3>1
  <2> QED
    BY <2>1
<1>4. n \in 1 .. (Len(q) + 1) /\ P(n)
  BY <1>3
<1>5. InsertBefore(q, t, S) = QUEUE_INSERT(q, n, t)
  BY DEF InsertBefore
<1> HIDE DEF n
<1> QED
  BY <1>4, <1>5

\* InsertBefore adds its TD to the queue, and no duplicate if the TD is new to it.
LEMMA InsertElems ==
    ASSUME NEW T, NEW q \in Seq(T), NEW t \in T, NEW S
    PROVE  /\ InsertBefore(q, t, S) \in Seq(T)
           /\ Elems(InsertBefore(q, t, S)) = Elems(q) \cup {t}
           /\ NoDuplicates(q) /\ t \notin Elems(q) => NoDuplicates(InsertBefore(q, t, S))
<1> DEFINE r == InsertBefore(q, t, S)
<1>1. PICK n \in 1 .. (Len(q) + 1) :
        r = QUEUE_INSERT(q, n, t)
  BY InsertPlace
<1> HIDE DEF r
<1>2. Len(r) = Len(q) + 1 /\ r \in Seq(T) /\ Len(q) \in Nat
  BY <1>1 DEF QUEUE_INSERT
<1>3. \A j \in 1 .. Len(r) : r[j] = IF j < n THEN q[j] ELSE IF j = n THEN t ELSE q[j - 1]
  BY <1>1, <1>2 DEF QUEUE_INSERT
<1>4. Elems(r) = Elems(q) \cup {t}
  <2>1. \A x \in Elems(r) : x = t \/ x \in Elems(q)
    BY <1>2, <1>3 DEF Elems
  <2>2. t \in Elems(r)
    <3>1. n \in 1 .. Len(r) /\ r[n] = t
      BY <1>2, <1>3
    <3> QED
      BY <3>1 DEF Elems
  <2>3. ASSUME NEW i \in 1 .. Len(q)
        PROVE  q[i] \in Elems(r)
    <3>1. CASE i < n
      <4>1. i \in 1 .. Len(r) /\ r[i] = q[i]
        BY <1>2, <1>3, <3>1
      <4> QED
        BY <4>1 DEF Elems
    <3>2. CASE i >= n
      <4>1. i + 1 \in 1 .. Len(r) /\ r[i + 1] = q[i]
        BY <1>2, <1>3, <3>2
      <4> QED
        BY <4>1 DEF Elems
    <3> QED
      BY <3>1, <3>2
  <2>4. \A x \in Elems(q) : x \in Elems(r)
    BY <2>3 DEF Elems
  <2> QED
    BY <2>1, <2>2, <2>4
<1>5. ASSUME NoDuplicates(q), t \notin Elems(q)
      PROVE  NoDuplicates(r)
  <2>1. \A i \in 1 .. Len(q) : q[i] # t
    BY <1>5 DEF Elems
  <2>2. ASSUME NEW i \in 1 .. Len(r), NEW j \in 1 .. Len(r), i < j
        PROVE  r[i] # r[j]
    <3>1. CASE j < n
      <4>1. r[i] = q[i] /\ r[j] = q[j] /\ i \in 1 .. Len(q) /\ j \in 1 .. Len(q)
        BY <1>2, <1>3, <2>2, <3>1
      <4> QED
        BY <1>5, <2>2, <4>1 DEF NoDuplicates
    <3>2. CASE j = n
      <4>1. r[i] = q[i] /\ r[j] = t /\ i \in 1 .. Len(q)
        BY <1>2, <1>3, <2>2, <3>2
      <4> QED
        BY <2>1, <4>1
    <3>3. CASE n < j /\ i = n
      <4>1. r[i] = t /\ r[j] = q[j - 1] /\ j - 1 \in 1 .. Len(q)
        BY <1>2, <1>3, <2>2, <3>3
      <4> QED
        BY <2>1, <4>1
    <3>4. CASE n < j /\ i # n
      <4>1. PICK x \in 1 .. Len(q), y \in 1 .. Len(q) : x < y /\ r[i] = q[x] /\ r[j] = q[y]
        <5>1. CASE i < n
          <6>1. i \in 1 .. Len(q) /\ j - 1 \in 1 .. Len(q) /\ i < j - 1
            BY <1>2, <2>2, <3>4, <5>1
          <6>2. r[i] = q[i] /\ r[j] = q[j - 1]
            BY <1>3, <3>4, <5>1
          <6> QED
            BY <6>1, <6>2
        <5>2. CASE n < i
          <6>1. i - 1 \in 1 .. Len(q) /\ j - 1 \in 1 .. Len(q) /\ i - 1 < j - 1
            BY <1>2, <2>2, <3>4, <5>2
          <6>2. r[i] = q[i - 1] /\ r[j] = q[j - 1]
            BY <1>3, <3>4, <5>2
          <6> QED
            BY <6>1, <6>2
        <5> QED
          BY <1>2, <3>4, <5>1, <5>2
      <4> QED
        BY <1>5, <4>1 DEF NoDuplicates
    <3> QED
      BY <1>2, <3>1, <3>2, <3>3, <3>4
  <2>3. \A i, j \in 1 .. Len(r) : i # j => i < j \/ j < i
    OBVIOUS
  <2> QED
    BY <2>2, <2>3 DEF NoDuplicates
<1> QED
  BY <1>2, <1>4, <1>5 DEF r

\* Keep keeps the order.
LEMMA KeepOrder ==
    ASSUME NEW T, NEW q \in Seq(T), NEW S
    PROVE  /\ Keep(q, S) \in Seq(T)
           /\ \A n \in 1 .. Len(Keep(q, S)) : Keep(q, S)[n] \in S
           /\ \A m, n \in 1 .. Len(Keep(q, S)) : m < n =>
                 \E i, j \in 1 .. Len(q) :
                    i < j /\ Keep(q, S)[m] = q[i] /\ Keep(q, S)[n] = q[j]
BY KeepIndices

\* q is sorted by f.
Sorted(q, f) == \A i, j \in 1 .. Len(q) : i < j => f[q[i]] <= f[q[j]]

\* Taking elements off a sorted queue, and changing f outside what is left, leaves it
\* sorted.
LEMMA KeepSorted ==
    ASSUME NEW T, NEW q \in Seq(T), NEW S, NEW f, NEW g, Sorted(q, f),
           \A x \in Elems(q) \cap S : g[x] = f[x]
    PROVE  Sorted(Keep(q, S), g)
<1> DEFINE r == Keep(q, S)
<1>1. /\ r \in Seq(T)
      /\ \A n \in 1 .. Len(r) : r[n] \in S
      /\ \A m, n \in 1 .. Len(r) : m < n =>
            \E i, j \in 1 .. Len(q) : i < j /\ r[m] = q[i] /\ r[n] = q[j]
  BY KeepOrder DEF r
<1> HIDE DEF r
<1>2. ASSUME NEW m \in 1 .. Len(r), NEW n \in 1 .. Len(r), m < n
      PROVE  g[r[m]] <= g[r[n]]
  <2>1. PICK i \in 1 .. Len(q), j \in 1 .. Len(q) : i < j /\ r[m] = q[i] /\ r[n] = q[j]
    BY <1>1, <1>2
  <2>2. r[m] \in Elems(q) \cap S /\ r[n] \in Elems(q) \cap S
    BY <1>1, <2>1 DEF Elems
  <2>3. f[q[i]] <= f[q[j]]
    BY <2>1 DEF Sorted
  <2> QED
    BY <2>1, <2>2, <2>3
<1>3. Sorted(r, g)
  BY <1>2 DEF Sorted
<1> QED
  BY <1>3 DEF r

\* InsertBefore keeps a queue sorted if S separates the elements that belong behind t.
LEMMA InsertSorted ==
    ASSUME NEW T, NEW q \in Seq(T), NEW t \in T, NEW S,
           NEW f \in [T -> Int], Sorted(q, f),
           \A u \in T : IF u \in S THEN f[t] <= f[u] ELSE f[u] <= f[t]
    PROVE  Sorted(InsertBefore(q, t, S), f)
<1> DEFINE r == InsertBefore(q, t, S)
<1>1. PICK n \in 1 .. (Len(q) + 1) :
        /\ \A j \in 1 .. (n - 1) : q[j] \notin S
        /\ n <= Len(q) => q[n] \in S
        /\ r = QUEUE_INSERT(q, n, t)
  BY InsertPlace
<1> HIDE DEF r
<1>2. Len(r) = Len(q) + 1 /\ Len(q) \in Nat
  BY <1>1 DEF QUEUE_INSERT
<1>3. \A j \in 1 .. Len(r) : r[j] = IF j < n THEN q[j] ELSE IF j = n THEN t ELSE q[j - 1]
  BY <1>1, <1>2 DEF QUEUE_INSERT
<1>4. \A i \in 1 .. Len(q) : q[i] \in T /\ f[q[i]] \in Int
  OBVIOUS
<1>5. \A i \in 1 .. Len(q) : i < n => f[q[i]] <= f[t]
  BY <1>1, <1>4
<1>6. \A i \in 1 .. Len(q) : n <= i => f[t] <= f[q[i]]
  <2>1. ASSUME NEW i \in 1 .. Len(q), n <= i
        PROVE  f[t] <= f[q[i]]
    <3>1. n \in 1 .. Len(q) /\ f[t] <= f[q[n]]
      BY <1>1, <1>2, <1>4, <2>1
    <3>2. f[q[n]] <= f[q[i]]
      BY <1>4, <2>1, <3>1 DEF Sorted
    <3> QED
      BY <1>4, <3>1, <3>2
  <2> QED
    BY <2>1
<1>7. ASSUME NEW i \in 1 .. Len(r), NEW j \in 1 .. Len(r), i < j
      PROVE  f[r[i]] <= f[r[j]]
  <2>1. CASE j < n
    <3>1. r[i] = q[i] /\ r[j] = q[j] /\ i \in 1 .. Len(q) /\ j \in 1 .. Len(q)
      BY <1>2, <1>3, <1>7, <2>1
    <3> QED
      BY <1>7, <3>1 DEF Sorted
  <2>2. CASE j = n
    BY <1>2, <1>3, <1>5, <1>7, <2>2
  <2>3. CASE n < j /\ i = n
    BY <1>2, <1>3, <1>6, <1>7, <2>3
  <2>4. CASE n < j /\ n < i
    <3>1. /\ r[i] = q[i - 1] /\ r[j] = q[j - 1] /\ i - 1 < j - 1
          /\ i - 1 \in 1 .. Len(q) /\ j - 1 \in 1 .. Len(q)
      BY <1>2, <1>3, <1>7, <2>4
    <3> QED
      BY <3>1 DEF Sorted
  <2>5. CASE n < j /\ i < n
    <3>1. /\ r[i] = q[i] /\ r[j] = q[j - 1] /\ i < j - 1
          /\ i \in 1 .. Len(q) /\ j - 1 \in 1 .. Len(q)
      BY <1>2, <1>3, <1>7, <2>5
    <3> QED
      BY <3>1 DEF Sorted
  <2> QED
    BY <1>2, <2>1, <2>2, <2>3, <2>4, <2>5
<1>8. Sorted(r, f)
  BY <1>7 DEF Sorted
<1> QED
  BY <1>8 DEF r

\* Enqueueing at the tail.
LEMMA AppendElems ==
    ASSUME NEW T, NEW q \in Seq(T), NEW t \in T
    PROVE  /\ Append(q, t) \in Seq(T) /\ Append(q, t) # <<>>
           /\ Elems(Append(q, t)) = Elems(q) \cup {t}
           /\ NoDuplicates(q) /\ t \notin Elems(q) => NoDuplicates(Append(q, t))
<1>1. /\ Len(Append(q, t)) = Len(q) + 1 /\ Len(q) \in Nat
      /\ \A i \in 1 .. Len(q) : Append(q, t)[i] = q[i]
      /\ Append(q, t)[Len(q) + 1] = t
  OBVIOUS
<1>2. \A x : x \in Elems(Append(q, t)) <=> x \in Elems(q) \/ x = t
  BY <1>1 DEF Elems
<1>3. ASSUME NoDuplicates(q), t \notin Elems(q) PROVE NoDuplicates(Append(q, t))
  BY <1>1, <1>3 DEF Elems, NoDuplicates
<1> QED
  BY <1>2, <1>3

\* Enqueueing several TDs at the tail, one after the other.
LEMMA ConcatElems ==
    ASSUME NEW T, NEW q \in Seq(T), NEW r \in Seq(T)
    PROVE  /\ q \o r \in Seq(T)
           /\ Elems(q \o r) = Elems(q) \cup Elems(r)
           /\ NoDuplicates(q) /\ NoDuplicates(r) /\ Elems(q) \cap Elems(r) = {}
                => NoDuplicates(q \o r)
<1> DEFINE s == q \o r
<1>1. /\ Len(s) = Len(q) + Len(r) /\ Len(q) \in Nat /\ Len(r) \in Nat
      /\ \A i \in 1 .. Len(s) : s[i] = IF i <= Len(q) THEN q[i] ELSE r[i - Len(q)]
      /\ s \in Seq(T)
  OBVIOUS
<1> HIDE DEF s
<1>2. \A x \in Elems(s) : x \in Elems(q) \cup Elems(r)
  BY <1>1 DEF Elems
<1>3. \A i \in 1 .. Len(q) : q[i] \in Elems(s)
  <2>1. \A i \in 1 .. Len(q) : i \in 1 .. Len(s) /\ s[i] = q[i]
    BY <1>1
  <2> QED
    BY <2>1 DEF Elems
<1>4. \A i \in 1 .. Len(r) : r[i] \in Elems(s)
  <2>1. ASSUME NEW i \in 1 .. Len(r)
        PROVE  Len(q) + i \in 1 .. Len(s) /\ s[Len(q) + i] = r[i]
    <3>1. Len(q) + i \in 1 .. Len(s) /\ ~(Len(q) + i <= Len(q)) /\ (Len(q) + i) - Len(q) = i
      BY <1>1
    <3> QED
      BY <1>1, <3>1
  <2> QED
    BY <2>1 DEF Elems
<1>5. Elems(s) = Elems(q) \cup Elems(r)
  <2>1. \A x \in Elems(q) \cup Elems(r) : x \in Elems(s)
    BY <1>3, <1>4 DEF Elems
  <2> QED
    BY <1>2, <2>1
<1>6. ASSUME NoDuplicates(q), NoDuplicates(r), Elems(q) \cap Elems(r) = {}
      PROVE  NoDuplicates(s)
  <2>1. \A i \in 1 .. Len(q), j \in 1 .. Len(r) : q[i] # r[j]
    BY <1>6 DEF Elems
  <2>2. ASSUME NEW i \in 1 .. Len(s), NEW j \in 1 .. Len(s), s[i] = s[j]
        PROVE  i = j
    <3>1. CASE i <= Len(q) /\ j <= Len(q)
      BY <1>1, <1>6, <2>2, <3>1 DEF NoDuplicates
    <3>2. CASE i <= Len(q) /\ j > Len(q)
      <4>1. s[i] = q[i] /\ s[j] = r[j - Len(q)] /\ i \in 1 .. Len(q) /\ j - Len(q) \in 1 .. Len(r)
        BY <1>1, <3>2
      <4> QED
        BY <2>1, <2>2, <4>1
    <3>3. CASE i > Len(q) /\ j <= Len(q)
      <4>1. s[j] = q[j] /\ s[i] = r[i - Len(q)] /\ j \in 1 .. Len(q) /\ i - Len(q) \in 1 .. Len(r)
        BY <1>1, <3>3
      <4> QED
        BY <2>1, <2>2, <4>1
    <3>4. CASE i > Len(q) /\ j > Len(q)
      <4>1. /\ s[i] = r[i - Len(q)] /\ i - Len(q) \in 1 .. Len(r)
            /\ s[j] = r[j - Len(q)] /\ j - Len(q) \in 1 .. Len(r)
        BY <1>1, <3>4
      <4>2. i - Len(q) = j - Len(q)
        BY <1>6, <2>2, <4>1 DEF NoDuplicates
      <4> QED
        BY <1>1, <4>2
    <3> QED
      BY <1>1, <3>1, <3>2, <3>3, <3>4
  <2> QED
    BY <2>2 DEF NoDuplicates
<1> QED
  BY <1>1, <1>5, <1>6 DEF s

\* A queue cut in two.
LEMMA SplitElems ==
    ASSUME NEW T, NEW q \in Seq(T), NEW n \in 0 .. Len(q)
    PROVE  LET a == SubSeq(q, 1, n)
               b == SubSeq(q, n + 1, Len(q))
           IN  /\ a \in Seq(T) /\ b \in Seq(T)
               /\ Elems(a) \cup Elems(b) = Elems(q)
               /\ Elems(a) = {q[i] : i \in 1 .. n}
               /\ Elems(b) = {q[i] : i \in (n + 1) .. Len(q)}
               /\ NoDuplicates(q) =>
                    NoDuplicates(a) /\ NoDuplicates(b) /\ Elems(a) \cap Elems(b) = {}
               /\ \A f : Sorted(q, f) => Sorted(b, f)
<1> DEFINE a == SubSeq(q, 1, n)
           b == SubSeq(q, n + 1, Len(q))
<1>1. /\ a \in Seq(T) /\ Len(a) = n /\ Len(q) \in Nat
      /\ \A i \in 1 .. n : a[i] = q[i]
  OBVIOUS
<1>2. /\ b \in Seq(T) /\ Len(b) = Len(q) - n
      /\ \A i \in 1 .. (Len(q) - n) : b[i] = q[n + i]
  OBVIOUS
<1> HIDE DEF a, b
<1>3. Elems(a) = {q[i] : i \in 1 .. n}
  BY <1>1 DEF Elems
<1>4. Elems(b) = {q[i] : i \in (n + 1) .. Len(q)}
  <2>1. \A i \in (n + 1) .. Len(q) : i - n \in 1 .. Len(b) /\ b[i - n] = q[i]
    BY <1>1, <1>2
  <2>2. \A i \in 1 .. Len(b) : n + i \in (n + 1) .. Len(q) /\ b[i] = q[n + i]
    BY <1>1, <1>2
  <2>3. \A x \in Elems(b) : x \in {q[i] : i \in (n + 1) .. Len(q)}
    BY <2>2 DEF Elems
  <2>4. \A x \in {q[i] : i \in (n + 1) .. Len(q)} : x \in Elems(b)
    BY <2>1 DEF Elems
  <2> QED
    BY <2>3, <2>4
<1>5. Elems(a) \cup Elems(b) = Elems(q)
  <2>1. \A i \in Int : i \in 1 .. Len(q) <=> i \in 1 .. n \/ i \in (n + 1) .. Len(q)
    BY <1>1
  <2>2. \A x \in Elems(a) \cup Elems(b) : x \in Elems(q)
    <3>1. \A i \in 1 .. Len(q) : q[i] \in Elems(q)
      BY DEF Elems
    <3> QED
      BY <1>3, <1>4, <2>1, <3>1
  <2>3. ASSUME NEW i \in 1 .. Len(q)
        PROVE  q[i] \in Elems(a) \cup Elems(b)
    BY <1>3, <1>4, <2>1
  <2>4. \A x \in Elems(q) : x \in Elems(a) \cup Elems(b)
    BY <2>3 DEF Elems
  <2> QED
    BY <2>2, <2>4
<1>6. ASSUME NoDuplicates(q)
      PROVE  NoDuplicates(a) /\ NoDuplicates(b) /\ Elems(a) \cap Elems(b) = {}
  <2>1. NoDuplicates(a)
    BY <1>1, <1>6 DEF NoDuplicates
  <2>2. NoDuplicates(b)
    BY <1>1, <1>2, <1>6 DEF NoDuplicates
  <2>3. \A i \in 1 .. n, j \in (n + 1) .. Len(q) : q[i] # q[j]
    BY <1>1, <1>6 DEF NoDuplicates
  <2> QED
    BY <2>1, <2>2, <2>3, <1>3, <1>4
<1>7. ASSUME NEW f, Sorted(q, f)
      PROVE  Sorted(b, f)
  <2>1. \A i \in 1 .. Len(b) : n + i \in 1 .. Len(q) /\ b[i] = q[n + i]
    BY <1>1, <1>2
  <2>2. \A i, j \in 1 .. Len(b) : i < j => n + i < n + j
    BY <1>1, <1>2
  <2> QED
    BY <1>7, <2>1, <2>2 DEF Sorted
<1> QED
  BY <1>1, <1>2, <1>3, <1>4, <1>5, <1>6, <1>7 DEF a, b

(***************************************************************************)
(* The kernel's invariant.                                                  *)
(***************************************************************************)
\* ReadyQueuesOK in the middle of a kernel call: the tasks of X are unlinked.
ReadyExcept(k, X) ==
    \A p \in Priority :
        /\ NoDuplicates(k.READY_Q[p])
        /\ \A t \in Task :
              t \in Elems(k.READY_Q[p]) <=>
                 IsReady(k, t) /\ t \notin X /\ k.MY_QUEUE[t] = p

\* The idle task is ready, or one of X, and has its own priority.
IdleOK(k, X) == (IsReady(k, Idle) \/ Idle \in X) /\ k.MY_QUEUE[Idle] = IDLE_PRIORITY

\* The invariant of the kernel inside a call, with the tasks of X unlinked.
KInv(k, X) ==
    k \in Kernel /\ ReadyExcept(k, X) /\ HintOK(k) /\ TimeoutQueueOK(k) /\ IdleOK(k, X)

\* The active task is ready and nothing that is ready has a higher priority.
TopRuns(k) ==
    /\ IsReady(k, k.ACTIVE_PTR)
    /\ \A t \in Task : IsReady(k, t) => k.MY_QUEUE[k.ACTIVE_PTR] <= k.MY_QUEUE[t]

\* The priorities are 0 .. IDLE_PRIORITY.
LEMMA Priorities == /\ IDLE_PRIORITY \in Nat
                    /\ IDLE_PRIORITY \in Priority
                    /\ Priority \subseteq Nat
                    /\ Priority \subseteq Int
                    /\ \A p \in Priority : p <= IDLE_PRIORITY
                    /\ \A p \in Nat : p <= IDLE_PRIORITY => p \in Priority
BY KernelAssumption DEF IDLE_PRIORITY, Priority

\* The round-robin intervals are 0 .. MaxTimeSlice.
LEMMA TimeSlices == /\ MaxTimeSlice \in Nat
                    /\ 0 \in 0 .. MaxTimeSlice
                    /\ MaxTimeSlice \in 0 .. MaxTimeSlice
<1>1. MaxTimeSlice \in Nat
  BY KernelAssumption
<1> QED
  BY <1>1

\* The fields of a kernel.
LEMMA KernelFields ==
    ASSUME NEW k \in Kernel
    PROVE  /\ k.ACTIVE_PTR \in Task
           /\ k.CURRENT_READY_Q \in Priority
           /\ k.READY_Q \in [Priority -> Seq(Task)]
           /\ k.MY_QUEUE \in [Task -> Priority]
           /\ k.HOME_QUEUE \in [Task -> Priority]
           /\ k.BOOSTED \in [Task -> Nat]
           /\ k.TD_STATE \in [Task -> State]
           /\ k.ON_TIMEOUT_Q \in SUBSET Task
           /\ k.TIMEOUT_QUEUE \in Seq(Task)
           /\ k.TIMEOUT \in [Task -> Int]
           /\ k.QUEUE \in [Queue -> Seq(Task)]
           /\ k.INFO \in [Task -> Info]
           /\ k.PREEMPTION_DISABLED \in SUBSET Task
           /\ k.TIME_SLICE_TASK \in SUBSET Task
           /\ k.TIME_SLICE \in [Task -> 0 .. MaxTimeSlice]
           /\ k.CURRENT_TIME_SLICE \in [Task -> 0 .. MaxTimeSlice]
BY DEF Kernel

\* A queue is empty exactly if it has no elements.
LEMMA EmptyQueue ==
    ASSUME NEW T, NEW q \in Seq(T)
    PROVE  /\ q = <<>> <=> Elems(q) = {}
           /\ q # <<>> => Head(q) \in Elems(q)
           /\ Elems(q) \subseteq T
<1>1. q # <<>> => 1 \in 1 .. Len(q) /\ Head(q) = q[1]
  OBVIOUS
<1>2. q = <<>> => Elems(q) = {}
  BY DEF Elems
<1>3. q # <<>> => Head(q) \in Elems(q)
  BY <1>1 DEF Elems
<1>4. Elems(q) \subseteq T
  BY DEF Elems
<1> QED
  BY <1>2, <1>3, <1>4

(***************************************************************************)
(* Dispatching.                                                             *)
(***************************************************************************)
\* The PendSV search always finds a task, and runs one of the highest priority.
LEMMA DispatchInv ==
    ASSUME NEW k, KInv(k, {})
    PROVE  KInv(Dispatch(k), {}) /\ TopRuns(Dispatch(k))
<1> DEFINE c == k.CURRENT_READY_Q
           P(i) == /\ i >= c /\ k.READY_Q[i] # <<>>
                   /\ \A j \in c .. (i - 1) : k.READY_Q[j] = <<>>
           p == CHOOSE i \in Priority : P(i)
           d == Dispatch(k)
<1> USE DEF KInv
<1>1. k \in Kernel /\ Idle \in Task
  BY KernelAssumption
<1>2. /\ c \in Priority /\ c \in Nat
      /\ k.READY_Q \in [Priority -> Seq(Task)]
      /\ k.MY_QUEUE \in [Task -> Priority]
  BY <1>1, KernelFields, Priorities
<1>3. k.READY_Q[IDLE_PRIORITY] # <<>>
  <2>1. Idle \in Elems(k.READY_Q[IDLE_PRIORITY])
    BY <1>1, Priorities DEF IdleOK, ReadyExcept
  <2> QED
    BY <2>1, <1>2, Priorities, EmptyQueue
<1>4. \E i \in Priority : P(i)
  <2> DEFINE N == {i \in Priority : i >= c /\ k.READY_Q[i] # <<>>}
  <2>1. IDLE_PRIORITY \in N
    BY <1>2, <1>3, Priorities
  <2>2. PICK i \in N : \A j \in N : i <= j
    BY <2>1, Priorities, LeastNatural
  <2>3. ASSUME NEW j \in c .. (i - 1)
        PROVE  k.READY_Q[j] = <<>>
    <3>1. j \in Priority /\ j >= c /\ ~(i <= j)
      BY <1>2, <2>2, Priorities
    <3> QED
      BY <2>2, <3>1
  <2> QED
    BY <2>2, <2>3
<1>5. p \in Priority /\ P(p)
  BY <1>4
<1>6. d = [k EXCEPT !.CURRENT_READY_Q = p, !.ACTIVE_PTR = Head(k.READY_Q[p])]
  BY DEF Dispatch
<1> HIDE DEF p
<1>7. Head(k.READY_Q[p]) \in Task /\ Head(k.READY_Q[p]) \in Elems(k.READY_Q[p])
  BY <1>2, <1>5, EmptyQueue
<1>8. d \in Kernel
  BY <1>1, <1>5, <1>6, <1>7 DEF Kernel
<1>9. /\ d.CURRENT_READY_Q = p /\ d.ACTIVE_PTR = Head(k.READY_Q[p])
      /\ d.READY_Q = k.READY_Q /\ d.MY_QUEUE = k.MY_QUEUE /\ d.TD_STATE = k.TD_STATE
      /\ d.ON_TIMEOUT_Q = k.ON_TIMEOUT_Q /\ d.TIMEOUT_QUEUE = k.TIMEOUT_QUEUE
      /\ d.TIMEOUT = k.TIMEOUT
  BY <1>1, <1>6 DEF Kernel
<1> HIDE DEF d
<1>10. \A t \in Task : IsReady(d, t) <=> IsReady(k, t)
  BY <1>9 DEF IsReady
<1>11. ReadyExcept(d, {}) /\ IdleOK(d, {}) /\ TimeoutQueueOK(d)
  BY <1>1, <1>9, <1>10 DEF ReadyExcept, IdleOK, TimeoutQueueOK
<1>12. \A i \in Priority : i < p => k.READY_Q[i] = <<>>
  <2>1. ASSUME NEW i \in Priority, i < p
        PROVE  k.READY_Q[i] = <<>>
    <3>1. CASE i < c
      BY <3>1 DEF HintOK
    <3>2. CASE ~(i < c)
      <4>1. i \in c .. (p - 1)
        BY <1>2, <1>5, <2>1, <3>2, Priorities
      <4> QED
        BY <1>5, <4>1
    <3> QED
      BY <3>1, <3>2
  <2> QED
    BY <2>1
<1>13. HintOK(d)
  BY <1>9, <1>12 DEF HintOK
<1>14. TopRuns(d)
  <2>1. IsReady(d, d.ACTIVE_PTR) /\ d.MY_QUEUE[d.ACTIVE_PTR] = p
    BY <1>5, <1>7, <1>9, <1>10 DEF ReadyExcept
  <2>2. ASSUME NEW t \in Task, IsReady(k, t)
        PROVE  p <= k.MY_QUEUE[t]
    <3>1. t \in Elems(k.READY_Q[k.MY_QUEUE[t]]) /\ k.MY_QUEUE[t] \in Priority
      BY <1>2, <2>2 DEF ReadyExcept
    <3>2. k.READY_Q[k.MY_QUEUE[t]] # <<>>
      BY <1>2, <3>1, EmptyQueue
    <3>3. ~(k.MY_QUEUE[t] < p)
      BY <1>12, <3>1, <3>2
    <3>4. k.MY_QUEUE[t] \in Nat /\ p \in Nat
      BY <1>5, <3>1, Priorities
    <3> QED
      BY <3>3, <3>4
  <2> QED
    BY <1>9, <1>10, <2>1, <2>2 DEF TopRuns
<1> QED
  BY <1>8, <1>11, <1>13, <1>14 DEF d
\* No ready task is above the hint.
LEMMA ReadyBelowHint ==
    ASSUME NEW k, KInv(k, {}), NEW t \in Task, IsReady(k, t)
    PROVE  k.CURRENT_READY_Q <= k.MY_QUEUE[t]
<1>1. /\ k.CURRENT_READY_Q \in Priority /\ k.MY_QUEUE[t] \in Priority
      /\ k.READY_Q[k.MY_QUEUE[t]] \in Seq(Task)
  BY KernelFields DEF KInv
<1>2. t \in Elems(k.READY_Q[k.MY_QUEUE[t]])
  BY <1>1 DEF KInv, ReadyExcept
<1>3. ~(k.MY_QUEUE[t] < k.CURRENT_READY_Q)
  BY <1>1, <1>2, EmptyQueue DEF KInv, HintOK
<1>4. k.CURRENT_READY_Q \in Nat /\ k.MY_QUEUE[t] \in Nat
  BY <1>1, Priorities
<1> QED
  BY <1>3, <1>4

\* _CHECK_RUN_SCHEDULER leaves a task of the highest priority running.
LEMMA CheckRunInv ==
    ASSUME NEW k, KInv(k, {}), IsReady(k, k.ACTIVE_PTR)
    PROVE  KInv(CHECK_RUN_SCHEDULER(k), {}) /\ TopRuns(CHECK_RUN_SCHEDULER(k))
<1>1. CASE k.CURRENT_READY_Q = k.MY_QUEUE[k.ACTIVE_PTR]
  <2>1. CHECK_RUN_SCHEDULER(k) = k
    BY <1>1 DEF CHECK_RUN_SCHEDULER
  <2>2. TopRuns(k)
    BY <1>1, ReadyBelowHint DEF TopRuns
  <2> QED
    BY <2>1, <2>2
<1>2. CASE k.CURRENT_READY_Q # k.MY_QUEUE[k.ACTIVE_PTR]
  BY <1>2, DispatchInv DEF CHECK_RUN_SCHEDULER
<1> QED
  BY <1>1, <1>2

\* The end of an interrupt switches tasks if it has to and if preemption is allowed.
LEMMA IsrReturnInv ==
    ASSUME NEW k, KInv(k, {}), IsReady(k, k.ACTIVE_PTR)
    PROVE  KInv(IsrReturn(k), {}) /\ RunningOK(IsrReturn(k))
<1>1. CASE k.ACTIVE_PTR \in k.PREEMPTION_DISABLED
  <2>1. IsrReturn(k) = k
    BY <1>1 DEF IsrReturn
  <2> QED
    BY <1>1, <2>1 DEF RunningOK
<1>2. CASE /\ k.READY_Q[k.CURRENT_READY_Q] # <<>>
           /\ Head(k.READY_Q[k.CURRENT_READY_Q]) = k.ACTIVE_PTR
  <2>1. IsrReturn(k) = k
    BY <1>2 DEF IsrReturn
  <2>2. /\ k.ACTIVE_PTR \in Task /\ k.CURRENT_READY_Q \in Priority
        /\ k.READY_Q[k.CURRENT_READY_Q] \in Seq(Task)
    BY KernelFields DEF KInv
  <2>3. k.MY_QUEUE[k.ACTIVE_PTR] = k.CURRENT_READY_Q
    <3>1. k.ACTIVE_PTR \in Elems(k.READY_Q[k.CURRENT_READY_Q])
      BY <1>2, <2>2, EmptyQueue
    <3> QED
      BY <2>2, <3>1 DEF KInv, ReadyExcept
  <2> QED
    BY <2>1, <2>3, ReadyBelowHint DEF RunningOK
<1>3. CASE ~(\/ k.ACTIVE_PTR \in k.PREEMPTION_DISABLED
             \/ /\ k.READY_Q[k.CURRENT_READY_Q] # <<>>
                /\ Head(k.READY_Q[k.CURRENT_READY_Q]) = k.ACTIVE_PTR)
  <2>1. IsrReturn(k) = Dispatch(k)
    BY <1>3 DEF IsrReturn
  <2> QED
    BY <2>1, DispatchInv DEF RunningOK, TopRuns
<1> QED
  BY <1>1, <1>2, <1>3

(***************************************************************************)
(* Taking a task off its ready queue and putting it on one.                 *)
(***************************************************************************)
\* _QUEUE_UNLINK of a ready task.
LEMMA UnlinkReadyInv ==
    ASSUME NEW k, KInv(k, {}), NEW t \in Task, IsReady(k, t)
    PROVE  /\ KInv(UnlinkReady(k, t), {t})
           /\ UnlinkReady(k, t) =
                 [k EXCEPT !.READY_Q = [k.READY_Q EXCEPT ![k.MY_QUEUE[t]] = Unlink(@, t)]]
<1> DEFINE p == k.MY_QUEUE[t]
           u == UnlinkReady(k, t)
<1>1. /\ k \in Kernel /\ p \in Priority /\ k.READY_Q \in [Priority -> Seq(Task)]
      /\ k.READY_Q[p] \in Seq(Task)
  BY KernelFields DEF KInv
<1>2. u = [k EXCEPT !.READY_Q = [k.READY_Q EXCEPT ![p] = Unlink(k.READY_Q[p], t)]]
  BY DEF UnlinkReady
<1>3. /\ Unlink(k.READY_Q[p], t) \in Seq(Task)
      /\ Elems(Unlink(k.READY_Q[p], t)) = Elems(k.READY_Q[p]) \ {t}
      /\ NoDuplicates(Unlink(k.READY_Q[p], t))
  BY <1>1, UnlinkElems DEF KInv, ReadyExcept
<1>4. u \in Kernel
  <2>1. [k.READY_Q EXCEPT ![p] = Unlink(k.READY_Q[p], t)] \in [Priority -> Seq(Task)]
    BY <1>1, <1>3
  <2> QED
    BY <1>1, <1>2, <2>1 DEF Kernel
<1>5. /\ u.READY_Q = [k.READY_Q EXCEPT ![p] = Unlink(k.READY_Q[p], t)]
      /\ u.CURRENT_READY_Q = k.CURRENT_READY_Q /\ u.MY_QUEUE = k.MY_QUEUE
      /\ u.TD_STATE = k.TD_STATE /\ u.ON_TIMEOUT_Q = k.ON_TIMEOUT_Q
      /\ u.TIMEOUT_QUEUE = k.TIMEOUT_QUEUE /\ u.TIMEOUT = k.TIMEOUT
  BY <1>1, <1>2 DEF Kernel
<1> HIDE DEF u
<1>6. \A v \in Task : IsReady(u, v) <=> IsReady(k, v)
  BY <1>5 DEF IsReady
<1>7. ReadyExcept(u, {t})
  <2>1. ASSUME NEW r \in Priority
        PROVE  /\ NoDuplicates(u.READY_Q[r])
               /\ \A v \in Task : v \in Elems(u.READY_Q[r]) <=>
                      IsReady(u, v) /\ v \notin {t} /\ u.MY_QUEUE[v] = r
    <3>1. CASE r = p
      <4>1. u.READY_Q[r] = Unlink(k.READY_Q[p], t)
        BY <1>1, <1>5, <3>1
      <4> QED
        BY <1>1, <1>3, <1>5, <1>6, <3>1, <4>1 DEF KInv, ReadyExcept
    <3>2. CASE r # p
      <4>1. u.READY_Q[r] = k.READY_Q[r]
        BY <1>1, <1>5, <3>2
      <4> QED
        BY <1>5, <1>6, <3>2, <4>1 DEF KInv, ReadyExcept
    <3> QED
      BY <3>1, <3>2
  <2> QED
    BY <2>1 DEF ReadyExcept
<1>8. HintOK(u)
  <2>1. ASSUME NEW r \in Priority, r < k.CURRENT_READY_Q
        PROVE  u.READY_Q[r] = <<>>
    <3>1. k.READY_Q[r] = <<>>
      BY <2>1 DEF KInv, HintOK
    <3>2. r # p
      BY <1>1, <3>1, EmptyQueue DEF KInv, ReadyExcept
    <3> QED
      BY <1>1, <1>5, <3>1, <3>2
  <2> QED
    BY <1>5, <2>1 DEF HintOK
<1>9. TimeoutQueueOK(u) /\ IdleOK(u, {t})
  BY <1>5, <1>6, KernelAssumption DEF KInv, TimeoutQueueOK, IdleOK
<1> QED
  BY <1>2, <1>4, <1>7, <1>8, <1>9 DEF KInv, u

\* _TASK_READY of a task that is on no ready queue and not delayed.
LEMMA TaskReadyInv ==
    ASSUME NEW k, NEW X, KInv(k, X), NEW t \in Task,
           t \notin k.ON_TIMEOUT_Q, t \in X \/ k.TD_STATE[t] # "READY"
    PROVE  /\ KInv(TASK_READY(k, t), X \ {t})
           /\ TASK_READY(k, t).ACTIVE_PTR = k.ACTIVE_PTR
           /\ TASK_READY(k, t).MY_QUEUE = k.MY_QUEUE
           /\ TASK_READY(k, t).PREEMPTION_DISABLED = k.PREEMPTION_DISABLED
           /\ \A v \in Task : IsReady(TASK_READY(k, t), v) <=> v = t \/ IsReady(k, v)
<1> DEFINE p == k.MY_QUEUE[t]
           c == k.CURRENT_READY_Q
           u == TASK_READY(k, t)
<1>1. /\ k \in Kernel /\ p \in Priority /\ c \in Priority
      /\ k.READY_Q \in [Priority -> Seq(Task)] /\ k.READY_Q[p] \in Seq(Task)
      /\ k.TD_STATE \in [Task -> State]
      /\ k.CURRENT_TIME_SLICE \in [Task -> 0 .. MaxTimeSlice]
  BY KernelFields DEF KInv
<1>2. /\ Append(k.READY_Q[p], t) \in Seq(Task)
      /\ Elems(Append(k.READY_Q[p], t)) = Elems(k.READY_Q[p]) \cup {t}
      /\ NoDuplicates(Append(k.READY_Q[p], t))
  <2>1. t \notin Elems(k.READY_Q[p])
    BY <1>1 DEF KInv, ReadyExcept, IsReady
  <2> QED
    BY <1>1, <2>1, AppendElems DEF KInv, ReadyExcept
<1>3. /\ u.READY_Q = [k.READY_Q EXCEPT ![p] = Append(k.READY_Q[p], t)]
      /\ u.CURRENT_READY_Q = (IF p < c THEN p ELSE c) /\ u.MY_QUEUE = k.MY_QUEUE
      /\ u.TD_STATE = [k.TD_STATE EXCEPT ![t] = "READY"]
      /\ u.ON_TIMEOUT_Q = k.ON_TIMEOUT_Q
      /\ u.TIMEOUT_QUEUE = k.TIMEOUT_QUEUE /\ u.TIMEOUT = k.TIMEOUT
      /\ u.ACTIVE_PTR = k.ACTIVE_PTR /\ u.PREEMPTION_DISABLED = k.PREEMPTION_DISABLED
  BY <1>1 DEF Kernel, TASK_READY
<1>4. u \in Kernel
  <2>1. [k.READY_Q EXCEPT ![p] = Append(k.READY_Q[p], t)] \in [Priority -> Seq(Task)]
    BY <1>1, <1>2
  <2>2. [k.TD_STATE EXCEPT ![t] = "READY"] \in [Task -> State]
    BY <1>1 DEF State
  <2>3. [k.CURRENT_TIME_SLICE EXCEPT ![t] = 0] \in [Task -> 0 .. MaxTimeSlice]
    BY <1>1, TimeSlices
  <2>4. (IF p < c THEN p ELSE c) \in Priority
    BY <1>1
  <2> QED
    BY <1>1, <2>1, <2>2, <2>3, <2>4 DEF Kernel, TASK_READY
<1> HIDE DEF u
<1>5. \A v \in Task : IsReady(u, v) <=> v = t \/ IsReady(k, v)
  BY <1>1, <1>3 DEF IsReady
<1>6. ReadyExcept(u, X \ {t})
  <2>1. ASSUME NEW r \in Priority
        PROVE  /\ NoDuplicates(u.READY_Q[r])
               /\ \A v \in Task : v \in Elems(u.READY_Q[r]) <=>
                      IsReady(u, v) /\ v \notin X \ {t} /\ u.MY_QUEUE[v] = r
    <3>1. CASE r = p
      <4>1. u.READY_Q[r] = Append(k.READY_Q[p], t)
        BY <1>1, <1>3, <3>1
      <4> QED
        BY <1>1, <1>2, <1>3, <1>5, <3>1, <4>1 DEF KInv, ReadyExcept
    <3>2. CASE r # p
      <4>1. u.READY_Q[r] = k.READY_Q[r]
        BY <1>1, <1>3, <3>2
      <4> QED
        BY <1>3, <1>5, <3>2, <4>1 DEF KInv, ReadyExcept
    <3> QED
      BY <3>1, <3>2
  <2> QED
    BY <2>1 DEF ReadyExcept
<1>7. HintOK(u)
  <2>1. ASSUME NEW r \in Priority, r < u.CURRENT_READY_Q
        PROVE  u.READY_Q[r] = <<>>
    <3>1. r \in Nat /\ p \in Nat /\ c \in Nat
      BY <1>1, Priorities
    <3>2. r < c /\ r # p
      BY <1>3, <2>1, <3>1
    <3> QED
      BY <1>1, <1>3, <3>2 DEF KInv, HintOK
  <2> QED
    BY <2>1 DEF HintOK
<1>8. TimeoutQueueOK(u) /\ IdleOK(u, X \ {t})
  BY <1>3, <1>5, KernelAssumption DEF KInv, TimeoutQueueOK, IdleOK
<1> QED
  BY <1>3, <1>4, <1>5, <1>6, <1>7, <1>8 DEF KInv, u

\* What a task's rotation to the tail of its ready queue leaves as it is.
LEMMA RotateInv ==
    ASSUME NEW k, KInv(k, {}), NEW t \in Task, IsReady(k, t)
    PROVE  LET v == TASK_READY(UnlinkReady(k, t), t)
           IN  /\ KInv(v, {})
               /\ v.ACTIVE_PTR = k.ACTIVE_PTR
               /\ v.PREEMPTION_DISABLED = k.PREEMPTION_DISABLED
               /\ \A u \in Task : IsReady(v, u) <=> IsReady(k, u)
<1> DEFINE j == UnlinkReady(k, t)
<1>1. /\ KInv(j, {t})
      /\ j = [k EXCEPT !.READY_Q = [k.READY_Q EXCEPT ![k.MY_QUEUE[t]] = Unlink(@, t)]]
  BY UnlinkReadyInv
<1>2. /\ j.ACTIVE_PTR = k.ACTIVE_PTR /\ j.PREEMPTION_DISABLED = k.PREEMPTION_DISABLED
      /\ j.ON_TIMEOUT_Q = k.ON_TIMEOUT_Q /\ j.TD_STATE = k.TD_STATE
  BY <1>1 DEF KInv, Kernel
<1> HIDE DEF j
<1>3. /\ t \notin j.ON_TIMEOUT_Q /\ t \in {t}
      /\ \A u \in Task : IsReady(j, u) <=> IsReady(k, u)
  BY <1>2 DEF IsReady
<1>4. /\ KInv(TASK_READY(j, t), {t} \ {t})
      /\ TASK_READY(j, t).ACTIVE_PTR = j.ACTIVE_PTR
      /\ TASK_READY(j, t).PREEMPTION_DISABLED = j.PREEMPTION_DISABLED
      /\ \A u \in Task : IsReady(TASK_READY(j, t), u) <=> u = t \/ IsReady(j, u)
  <2>1. KInv(j, {t})
    BY <1>1
  <2> QED
    BY <1>3, <2>1, TaskReadyInv, Zenon
<1>5. {t} \ {t} = {}
  OBVIOUS
<1> QED
  BY <1>2, <1>3, <1>4, <1>5 DEF j

\* _sched_yield
LEMMA SchedYieldInv ==
    ASSUME NEW k, KInv(k, {}), IsReady(k, k.ACTIVE_PTR)
    PROVE  KInv(SchedYield(k), {}) /\ TopRuns(SchedYield(k))
<1>1. k.ACTIVE_PTR \in Task
  BY KernelFields DEF KInv
<1>2. KInv(TASK_READY(UnlinkReady(k, k.ACTIVE_PTR), k.ACTIVE_PTR), {})
  BY <1>1, RotateInv
<1> QED
  BY <1>2, DispatchInv DEF SchedYield

\* The invariant depends on the scheduling fields only.
LEMMA Frame ==
    ASSUME NEW k, NEW X, KInv(k, X), NEW v \in Kernel,
           v.READY_Q = k.READY_Q, v.CURRENT_READY_Q = k.CURRENT_READY_Q,
           v.MY_QUEUE = k.MY_QUEUE, v.TD_STATE = k.TD_STATE,
           v.ON_TIMEOUT_Q = k.ON_TIMEOUT_Q, v.TIMEOUT_QUEUE = k.TIMEOUT_QUEUE,
           v.TIMEOUT = k.TIMEOUT
    PROVE  /\ KInv(v, X)
           /\ \A u \in Task : IsReady(v, u) <=> IsReady(k, u)
<1>1. \A u \in Task : IsReady(v, u) <=> IsReady(k, u)
  BY DEF IsReady
<1>2. ReadyExcept(v, X)
  BY <1>1 DEF KInv, ReadyExcept
<1>3. HintOK(v)
  BY DEF KInv, HintOK
<1>4. TimeoutQueueOK(v)
  BY DEF KInv, TimeoutQueueOK
<1>5. IdleOK(v, X)
  BY <1>1, KernelAssumption DEF KInv, IdleOK
<1> QED
  BY <1>1, <1>2, <1>3, <1>4, <1>5 DEF KInv

\* A ready task is suspended: unlinked, and no longer ready by STATE.
LEMMA SuspendInv ==
    ASSUME NEW k, KInv(k, {}), NEW t \in Task, t # Idle, IsReady(k, t),
           NEW v \in Kernel,
           v.READY_Q = [k.READY_Q EXCEPT ![k.MY_QUEUE[t]] = Unlink(@, t)],
           v.CURRENT_READY_Q = k.CURRENT_READY_Q, v.MY_QUEUE = k.MY_QUEUE,
           ~IsReady(v, t), \A u \in Task \ {t} : IsReady(v, u) <=> IsReady(k, u),
           TimeoutQueueOK(v)
    PROVE  KInv(v, {})
<1> DEFINE j == UnlinkReady(k, t)
<1>1. /\ KInv(j, {t})
      /\ j = [k EXCEPT !.READY_Q = [k.READY_Q EXCEPT ![k.MY_QUEUE[t]] = Unlink(@, t)]]
  BY UnlinkReadyInv
<1>2. /\ j.READY_Q = v.READY_Q /\ j.MY_QUEUE = k.MY_QUEUE
      /\ j.CURRENT_READY_Q = k.CURRENT_READY_Q
      /\ j.ON_TIMEOUT_Q = k.ON_TIMEOUT_Q /\ j.TD_STATE = k.TD_STATE
  BY <1>1 DEF KInv, Kernel
<1> HIDE DEF j
<1>3. \A u \in Task : IsReady(v, u) <=> IsReady(j, u) /\ u \notin {t}
  BY <1>2 DEF IsReady
<1>4. ReadyExcept(v, {})
  BY <1>1, <1>2, <1>3 DEF KInv, ReadyExcept
<1>5. HintOK(v)
  BY <1>1, <1>2 DEF KInv, HintOK
<1>6. IdleOK(v, {})
  BY KernelAssumption DEF KInv, IdleOK
<1> QED
  BY <1>4, <1>5, <1>6 DEF KInv

\* _task_block
LEMMA TaskBlockInv ==
    ASSUME NEW k, KInv(k, {}), IsReady(k, k.ACTIVE_PTR), k.ACTIVE_PTR # Idle
    PROVE  KInv(TaskBlock(k), {}) /\ TopRuns(TaskBlock(k))
<1> DEFINE t == k.ACTIVE_PTR
           j == [k EXCEPT !.TD_STATE[t] = IF @ = "READY" THEN "BLOCKED" ELSE @]
           v == UnlinkReady(j, t)
           Q == [k.READY_Q EXCEPT ![k.MY_QUEUE[t]] = Unlink(@, t)]
<1>1. k \in Kernel /\ t \in Task /\ k.TD_STATE[t] = "READY"
  BY KernelFields DEF KInv, IsReady
<1>2. /\ k.TD_STATE \in [Task -> State] /\ k.READY_Q \in [Priority -> Seq(Task)]
      /\ k.MY_QUEUE[t] \in Priority
  BY <1>1, KernelFields
<1>3. Q \in [Priority -> Seq(Task)]
  BY <1>2, UnlinkElems
<1>4. v = [k EXCEPT !.TD_STATE = [k.TD_STATE EXCEPT ![t] = "BLOCKED"], !.READY_Q = Q]
  BY <1>1 DEF UnlinkReady, Kernel
<1>5. v \in Kernel
  <2>1. [k.TD_STATE EXCEPT ![t] = "BLOCKED"] \in [Task -> State]
    BY <1>2 DEF State
  <2> QED
    BY <1>1, <1>3, <1>4, <2>1 DEF Kernel
<1>6. /\ v.READY_Q = Q /\ v.CURRENT_READY_Q = k.CURRENT_READY_Q
      /\ v.MY_QUEUE = k.MY_QUEUE /\ v.TD_STATE = [k.TD_STATE EXCEPT ![t] = "BLOCKED"]
      /\ v.ON_TIMEOUT_Q = k.ON_TIMEOUT_Q /\ v.TIMEOUT_QUEUE = k.TIMEOUT_QUEUE
      /\ v.TIMEOUT = k.TIMEOUT
  BY <1>1, <1>4 DEF Kernel
<1>7. TaskBlock(k) = Dispatch(v)
  BY DEF TaskBlock
<1> HIDE DEF v
<1>8. ~IsReady(v, t) /\ \A u \in Task \ {t} : IsReady(v, u) <=> IsReady(k, u)
  BY <1>1, <1>2, <1>6 DEF IsReady
<1>9. TimeoutQueueOK(v)
  BY <1>6 DEF KInv, TimeoutQueueOK
<1>10. KInv(v, {})
  BY <1>1, <1>5, <1>6, <1>8, <1>9, SuspendInv
<1> QED
  BY <1>7, <1>10, DispatchInv

(***************************************************************************)
(* The timeout queue.                                                       *)
(***************************************************************************)
\* TimeoutQueueOK in terms of Sorted.
LEMMA TimeoutSorted ==
    ASSUME NEW k
    PROVE  TimeoutQueueOK(k) <=> /\ NoDuplicates(k.TIMEOUT_QUEUE)
                                 /\ Elems(k.TIMEOUT_QUEUE) = k.ON_TIMEOUT_Q
                                 /\ Sorted(k.TIMEOUT_QUEUE, k.TIMEOUT)
BY DEF TimeoutQueueOK, Sorted

\* _time_delay_internal of a ready task t.  The caller may have changed STATE and INFO of
\* t and the wait queues before: j is the kernel it passes.
LEMMA TimeDelayInv ==
    ASSUME NEW k, KInv(k, {}), NEW t \in Task, t # Idle, IsReady(k, t), NEW n \in Int,
           NEW j \in Kernel,
           j.READY_Q = k.READY_Q, j.CURRENT_READY_Q = k.CURRENT_READY_Q,
           j.MY_QUEUE = k.MY_QUEUE, j.ON_TIMEOUT_Q = k.ON_TIMEOUT_Q,
           j.TIMEOUT_QUEUE = k.TIMEOUT_QUEUE, j.TIMEOUT = k.TIMEOUT,
           \A u \in Task \ {t} : j.TD_STATE[u] = k.TD_STATE[u]
    PROVE  KInv(time_delay_internal(j, t, n), {}) /\ TopRuns(time_delay_internal(j, t, n))
<1> DEFINE f == [k.TIMEOUT EXCEPT ![t] = n]
           k1 == [j EXCEPT !.TIMEOUT[t] = n]
           S == DELAY_ENQUEUE_POLICY(k1, t)
           q == k.TIMEOUT_QUEUE
           Q == [k.READY_Q EXCEPT ![k.MY_QUEUE[t]] = Unlink(@, t)]
           v == [UnlinkReady(k1, t) EXCEPT !.TIMEOUT_QUEUE = InsertBefore(@, t, S),
                                           !.ON_TIMEOUT_Q = @ \cup {t}]
<1>1. /\ k \in Kernel /\ q \in Seq(Task) /\ k.TIMEOUT \in [Task -> Int]
      /\ k.READY_Q \in [Priority -> Seq(Task)] /\ k.MY_QUEUE[t] \in Priority
      /\ k.ON_TIMEOUT_Q \in SUBSET Task
  BY KernelFields DEF KInv
<1>2. f \in [Task -> Int] /\ f[t] = n /\ \A u \in Task \ {t} : f[u] = k.TIMEOUT[u]
  BY <1>1
<1>3. k1 = [j EXCEPT !.TIMEOUT = f]
  OBVIOUS
<1>4. /\ k1 \in Kernel /\ k1.TIMEOUT = f /\ k1.READY_Q = k.READY_Q
      /\ k1.CURRENT_READY_Q = k.CURRENT_READY_Q
      /\ k1.MY_QUEUE = k.MY_QUEUE /\ k1.ON_TIMEOUT_Q = k.ON_TIMEOUT_Q
      /\ k1.TIMEOUT_QUEUE = q /\ k1.TD_STATE = j.TD_STATE
  BY <1>2, <1>3 DEF Kernel
<1>5. time_delay_internal(j, t, n) = Dispatch(v)
  BY DEF time_delay_internal
<1> HIDE DEF k1
<1>6. UnlinkReady(k1, t) = [k1 EXCEPT !.READY_Q = Q]
  BY <1>4 DEF UnlinkReady
<1>7. Q \in [Priority -> Seq(Task)]
  BY <1>1, UnlinkElems
<1>8. v = [k1 EXCEPT !.READY_Q = Q, !.TIMEOUT_QUEUE = InsertBefore(q, t, S),
                     !.ON_TIMEOUT_Q = k.ON_TIMEOUT_Q \cup {t}]
  BY <1>4, <1>6 DEF Kernel
<1> HIDE DEF v, S, f, Q
<1>9. t \notin k.ON_TIMEOUT_Q /\ t \notin Elems(q)
  BY TimeoutSorted DEF KInv, IsReady
<1>10. /\ InsertBefore(q, t, S) \in Seq(Task)
       /\ Elems(InsertBefore(q, t, S)) = Elems(q) \cup {t}
       /\ NoDuplicates(InsertBefore(q, t, S))
  BY <1>1, <1>9, InsertElems, TimeoutSorted DEF KInv
<1>11. v \in Kernel
  BY <1>1, <1>4, <1>7, <1>8, <1>10 DEF Kernel
<1>12. /\ v.READY_Q = Q /\ v.CURRENT_READY_Q = k.CURRENT_READY_Q
       /\ v.MY_QUEUE = k.MY_QUEUE /\ v.TD_STATE = j.TD_STATE
       /\ v.ON_TIMEOUT_Q = k.ON_TIMEOUT_Q \cup {t}
       /\ v.TIMEOUT_QUEUE = InsertBefore(q, t, S)
       /\ v.TIMEOUT = f
  BY <1>4, <1>8 DEF Kernel
<1>13. ~IsReady(v, t) /\ \A u \in Task \ {t} : IsReady(v, u) <=> IsReady(k, u)
  BY <1>12 DEF IsReady
<1>14. Sorted(InsertBefore(q, t, S), f)
  <2>1. Sorted(q, f)
    <3>1. \A i \in 1 .. Len(q) : q[i] \in Task \ {t}
      BY <1>1, <1>9 DEF Elems
    <3>2. Sorted(q, k.TIMEOUT)
      BY TimeoutSorted DEF KInv
    <3> QED
      BY <1>2, <3>1, <3>2 DEF Sorted
  <2>2. ASSUME NEW u \in Task
        PROVE  IF u \in S THEN f[t] <= f[u] ELSE f[u] <= f[t]
    <3>1. f[u] \in Int /\ f[t] \in Int
      BY <1>2
    <3>2. u \in S => f[u] > f[t] \/ f[u] = f[t]
      BY <1>4 DEF S, DELAY_ENQUEUE_POLICY
    <3>3. f[u] > f[t] => u \in S
      BY <1>4 DEF S, DELAY_ENQUEUE_POLICY
    <3> QED
      BY <3>1, <3>2, <3>3
  <2> QED
    BY <1>1, <1>2, <2>1, <2>2, InsertSorted
<1>15. TimeoutQueueOK(v)
  <2>1. Elems(q) = k.ON_TIMEOUT_Q
    BY TimeoutSorted DEF KInv
  <2> QED
    BY <1>10, <1>12, <1>14, <2>1, TimeoutSorted
<1>16. KInv(v, {})
  BY <1>11, <1>12, <1>13, <1>15, SuspendInv DEF Q
<1> QED
  BY <1>5, <1>16, DispatchInv

\* _TIME_DEQUEUE takes a task off the timeout queue and makes no task ready.
LEMMA TimeDequeueInv ==
    ASSUME NEW k, KInv(k, {}), NEW t \in Task
    PROVE  LET v == TIME_DEQUEUE(k, t)
           IN  /\ KInv(v, {})
               /\ v.ACTIVE_PTR = k.ACTIVE_PTR /\ v.MY_QUEUE = k.MY_QUEUE
               /\ v.PREEMPTION_DISABLED = k.PREEMPTION_DISABLED
               /\ t \notin v.ON_TIMEOUT_Q
               /\ t \in k.ON_TIMEOUT_Q => v.TD_STATE[t] # "READY"
               /\ \A u \in Task : IsReady(v, u) <=> IsReady(k, u)
<1> DEFINE v == TIME_DEQUEUE(k, t)
<1>1. CASE t \notin k.ON_TIMEOUT_Q
  <2>1. v = k
    BY <1>1 DEF TIME_DEQUEUE
  <2> QED
    BY <1>1, <2>1
<1>2. CASE t \in k.ON_TIMEOUT_Q
  <2> DEFINE q == k.TIMEOUT_QUEUE
             f == [k.TIMEOUT EXCEPT ![t] = 0]
             g == [k.TD_STATE EXCEPT ![t] = IF @ = "READY" THEN "BLOCKED" ELSE @]
  <2>1. /\ k \in Kernel /\ q \in Seq(Task) /\ k.TIMEOUT \in [Task -> Int]
        /\ k.TD_STATE \in [Task -> State] /\ k.ON_TIMEOUT_Q \in SUBSET Task
    BY KernelFields DEF KInv
  <2>2. v = [k EXCEPT !.TIMEOUT_QUEUE = Unlink(q, t),
                      !.ON_TIMEOUT_Q = k.ON_TIMEOUT_Q \ {t},
                      !.TIMEOUT = f, !.TD_STATE = g]
    BY <1>2 DEF TIME_DEQUEUE
  <2>3. /\ f \in [Task -> Int] /\ \A u \in Task \ {t} : f[u] = k.TIMEOUT[u]
    BY <2>1
  <2>4. /\ g \in [Task -> State] /\ \A u \in Task \ {t} : g[u] = k.TD_STATE[u]
        /\ g[t] # "READY"
    BY <2>1 DEF State
  <2> HIDE DEF f, g, v
  <2>5. /\ Unlink(q, t) \in Seq(Task)
        /\ Elems(Unlink(q, t)) = Elems(q) \ {t}
        /\ NoDuplicates(Unlink(q, t))
        /\ Elems(q) = k.ON_TIMEOUT_Q
    BY <2>1, UnlinkElems, TimeoutSorted DEF KInv
  <2>6. v \in Kernel
    BY <2>1, <2>2, <2>3, <2>4, <2>5 DEF Kernel
  <2>7. /\ v.READY_Q = k.READY_Q /\ v.CURRENT_READY_Q = k.CURRENT_READY_Q
        /\ v.MY_QUEUE = k.MY_QUEUE /\ v.TD_STATE = g
        /\ v.ON_TIMEOUT_Q = k.ON_TIMEOUT_Q \ {t} /\ v.TIMEOUT_QUEUE = Unlink(q, t)
        /\ v.TIMEOUT = f /\ v.ACTIVE_PTR = k.ACTIVE_PTR
        /\ v.PREEMPTION_DISABLED = k.PREEMPTION_DISABLED
    BY <2>1, <2>2 DEF Kernel
  <2>8. \A u \in Task : IsReady(v, u) <=> IsReady(k, u)
    BY <1>2, <2>4, <2>7 DEF IsReady
  <2>9. ReadyExcept(v, {}) /\ HintOK(v)
    BY <2>7, <2>8 DEF KInv, ReadyExcept, HintOK
  <2>10. IdleOK(v, {})
    BY <2>7, <2>8, KernelAssumption DEF KInv, IdleOK
  <2>11. Sorted(Unlink(q, t), f)
    <3>1. \A x \in Elems(q) \cap (Elems(q) \ {t}) : f[x] = k.TIMEOUT[x]
      BY <2>1, <2>3, <2>5
    <3>2. Sorted(q, k.TIMEOUT)
      BY TimeoutSorted DEF KInv
    <3> QED
      BY <2>1, <3>1, <3>2, KeepSorted DEF Unlink
  <2>12. TimeoutQueueOK(v)
    BY <2>5, <2>7, <2>11, TimeoutSorted
  <2> QED
    BY <1>2, <2>4, <2>6, <2>7, <2>8, <2>9, <2>10, <2>12 DEF KInv, v
<1> QED
  BY <1>1, <1>2

\* _TASK_READY for the tasks of a sequence that are on no ready queue and not delayed.
LEMMA ReadyAllInv ==
    ASSUME NEW k, NEW s \in Seq(Task), KInv(k, Elems(s)), NoDuplicates(s),
           Elems(s) \cap k.ON_TIMEOUT_Q = {}
    PROVE  LET v == ReadyAll(k, s)
           IN  /\ KInv(v, {})
               /\ v.ACTIVE_PTR = k.ACTIVE_PTR
               /\ \A u \in Task : IsReady(v, u) <=> u \in Elems(s) \/ IsReady(k, u)
<1> DEFINE c == k.CURRENT_READY_Q
           M == {c} \cup {k.MY_QUEUE[t] : t \in Elems(s)}
           m == CHOOSE p \in M : \A r \in M : p <= r
           part(p) == Keep(s, {t \in Task : k.MY_QUEUE[t] = p})
           R == [p \in Priority |-> k.READY_Q[p] \o part(p)]
           D == [t \in Task |-> IF t \in Elems(s) THEN "READY" ELSE k.TD_STATE[t]]
           C == [t \in Task |-> IF t \in Elems(s) THEN 0 ELSE k.CURRENT_TIME_SLICE[t]]
           v == ReadyAll(k, s)
<1>1. /\ k \in Kernel /\ k.MY_QUEUE \in [Task -> Priority] /\ c \in Priority
      /\ k.READY_Q \in [Priority -> Seq(Task)] /\ k.TD_STATE \in [Task -> State]
      /\ k.CURRENT_TIME_SLICE \in [Task -> 0 .. MaxTimeSlice]
      /\ Elems(s) \subseteq Task
  BY KernelFields, EmptyQueue DEF KInv
<1>2. v = [k EXCEPT !.CURRENT_READY_Q = m, !.TD_STATE = D, !.READY_Q = R,
                    !.CURRENT_TIME_SLICE = C]
  BY DEF ReadyAll
<1>3. m \in M /\ m \in Priority /\ \A r \in M : m <= r
  <2>1. M \subseteq Priority /\ M # {}
    BY <1>1
  <2>2. M \in SUBSET Nat
    BY <2>1, Priorities
  <2>3. \E p \in M : \A r \in M : p <= r
    BY <2>1, <2>2, LeastNatural
  <2> HIDE DEF M
  <2>4. m \in M /\ \A r \in M : m <= r
    BY <2>3
  <2> QED
    BY <2>1, <2>4
<1>4. ASSUME NEW p \in Priority
      PROVE  /\ R[p] \in Seq(Task)
             /\ Elems(R[p]) = Elems(k.READY_Q[p]) \cup
                              {t \in Elems(s) : k.MY_QUEUE[t] = p}
             /\ NoDuplicates(R[p])
  <2> DEFINE S == {t \in Task : k.MY_QUEUE[t] = p}
             r == Keep(s, S)
  <2>1. R[p] = k.READY_Q[p] \o r /\ k.READY_Q[p] \in Seq(Task)
    BY <1>1
  <2>2. r \in Seq(Task) /\ Elems(r) = Elems(s) \cap S /\ NoDuplicates(r)
    BY KeepElems
  <2>3. Elems(r) = {t \in Elems(s) : k.MY_QUEUE[t] = p}
    BY <1>1, <2>2
  <2> HIDE DEF r, R
  <2>4. \A x \in Elems(k.READY_Q[p]) : x \in Task /\ x \notin Elems(s)
    BY <2>1, EmptyQueue DEF KInv, ReadyExcept
  <2>5. NoDuplicates(k.READY_Q[p]) /\ Elems(k.READY_Q[p]) \cap Elems(r) = {}
    BY <2>3, <2>4 DEF KInv, ReadyExcept
  <2> QED
    BY <2>1, <2>2, <2>3, <2>5, ConcatElems
<1>5. D \in [Task -> State] /\ C \in [Task -> 0 .. MaxTimeSlice]
  <2>1. D \in [Task -> State]
    BY <1>1 DEF State
  <2>2. C \in [Task -> 0 .. MaxTimeSlice]
    BY <1>1, TimeSlices
  <2> QED
    BY <2>1, <2>2
<1>6. R \in [Priority -> Seq(Task)]
  BY <1>4
<1>7. \A t \in Task : D[t] = IF t \in Elems(s) THEN "READY" ELSE k.TD_STATE[t]
  OBVIOUS
<1> HIDE DEF m, D, C, R, v
<1>8. v \in Kernel
  BY <1>1, <1>2, <1>3, <1>5, <1>6 DEF Kernel
<1>9. /\ v.READY_Q = R /\ v.CURRENT_READY_Q = m /\ v.MY_QUEUE = k.MY_QUEUE
      /\ v.TD_STATE = D /\ v.ON_TIMEOUT_Q = k.ON_TIMEOUT_Q
      /\ v.TIMEOUT_QUEUE = k.TIMEOUT_QUEUE /\ v.TIMEOUT = k.TIMEOUT
      /\ v.ACTIVE_PTR = k.ACTIVE_PTR
  BY <1>1, <1>2 DEF Kernel
<1>10. \A u \in Task : IsReady(v, u) <=> u \in Elems(s) \/ IsReady(k, u)
  BY <1>7, <1>9 DEF IsReady
<1>11. ReadyExcept(v, {})
  <2>1. ASSUME NEW p \in Priority, NEW u \in Task
        PROVE  u \in Elems(R[p]) <=> IsReady(v, u) /\ u \notin {} /\ k.MY_QUEUE[u] = p
    BY <1>4, <1>10 DEF KInv, ReadyExcept
  <2> QED
    BY <1>4, <1>9, <2>1 DEF ReadyExcept
<1>12. HintOK(v)
  <2>1. ASSUME NEW p \in Priority, p < m
        PROVE  R[p] = <<>>
    <3>1. p \in Nat /\ m \in Nat /\ c \in Nat
      BY <1>1, <1>3, Priorities
    <3>2. p < c /\ \A t \in Elems(s) : k.MY_QUEUE[t] # p
      <4>1. c \in M /\ m <= c
        BY <1>3
      <4>2. ASSUME NEW t \in Elems(s) PROVE k.MY_QUEUE[t] # p
        <5>1. k.MY_QUEUE[t] \in M /\ m <= k.MY_QUEUE[t]
          BY <1>3
        <5> QED
          BY <2>1, <3>1, <5>1
      <4> QED
        BY <2>1, <3>1, <4>1, <4>2
    <3>3. Elems(k.READY_Q[p]) = {}
      BY <1>1, <3>2, EmptyQueue DEF KInv, HintOK
    <3>4. R[p] \in Seq(Task) /\ Elems(R[p]) = {}
      BY <1>4, <3>2, <3>3
    <3> QED
      BY <3>4, EmptyQueue
  <2> QED
    BY <1>9, <2>1 DEF HintOK
<1>13. IdleOK(v, {})
  BY <1>9, <1>10, KernelAssumption DEF KInv, IdleOK
<1>14. TimeoutQueueOK(v)
  BY <1>9, TimeoutSorted DEF KInv
<1> QED
  BY <1>8, <1>9, <1>10, <1>11, <1>12, <1>13, <1>14 DEF KInv, v

\* TIME moves on: the delays left all shrink together.
LEMMA IncTimeInv ==
    ASSUME NEW k, KInv(k, {})
    PROVE  /\ KInv(IncTime(k), {})
           /\ IncTime(k).ACTIVE_PTR = k.ACTIVE_PTR
           /\ \A u \in Task : IsReady(IncTime(k), u) <=> IsReady(k, u)
<1> DEFINE f == [t \in Task |-> IF t \in k.ON_TIMEOUT_Q THEN k.TIMEOUT[t] - 1 ELSE k.TIMEOUT[t]]
           v == IncTime(k)
           q == k.TIMEOUT_QUEUE
<1>1. k \in Kernel /\ k.TIMEOUT \in [Task -> Int] /\ q \in Seq(Task)
  BY KernelFields DEF KInv
<1>2. v = [k EXCEPT !.TIMEOUT = f]
  BY DEF IncTime
<1>3. f \in [Task -> Int]
  BY <1>1
<1>4. \A t \in k.ON_TIMEOUT_Q \cap Task : f[t] = k.TIMEOUT[t] - 1
  OBVIOUS
<1> HIDE DEF f, v
<1>5. v \in Kernel
  BY <1>1, <1>2, <1>3 DEF Kernel
<1>6. /\ v.READY_Q = k.READY_Q /\ v.CURRENT_READY_Q = k.CURRENT_READY_Q
      /\ v.MY_QUEUE = k.MY_QUEUE /\ v.TD_STATE = k.TD_STATE
      /\ v.ON_TIMEOUT_Q = k.ON_TIMEOUT_Q /\ v.TIMEOUT_QUEUE = q /\ v.TIMEOUT = f
      /\ v.ACTIVE_PTR = k.ACTIVE_PTR
  BY <1>1, <1>2 DEF Kernel
<1>7. \A u \in Task : IsReady(v, u) <=> IsReady(k, u)
  BY <1>6 DEF IsReady
<1>8. /\ NoDuplicates(q) /\ Elems(q) = k.ON_TIMEOUT_Q /\ Sorted(q, k.TIMEOUT)
  BY TimeoutSorted DEF KInv
<1>9. Sorted(q, f)
  <2>1. \A i \in 1 .. Len(q) : /\ q[i] \in k.ON_TIMEOUT_Q /\ q[i] \in Task
                                /\ k.TIMEOUT[q[i]] \in Int
    BY <1>1, <1>8 DEF Elems
  <2>2. \A i \in 1 .. Len(q) : f[q[i]] = k.TIMEOUT[q[i]] - 1
    BY <1>4, <2>1
  <2> QED
    BY <1>8, <2>1, <2>2 DEF Sorted
<1>10. TimeoutQueueOK(v)
  BY <1>6, <1>8, <1>9, TimeoutSorted
<1>11. ReadyExcept(v, {}) /\ HintOK(v)
  BY <1>6, <1>7 DEF KInv, ReadyExcept, HintOK
<1>12. IdleOK(v, {})
  BY <1>6, <1>7, KernelAssumption DEF KInv, IdleOK
<1> QED
  BY <1>5, <1>6, <1>7, <1>10, <1>11, <1>12 DEF KInv, v

\* The wait queues stay queues when tasks leave them.
LEMMA LeaveAuxQueuesType ==
    ASSUME NEW k \in Kernel, NEW S
    PROVE  LeaveAuxQueues(k, S) \in [Queue -> Seq(Task)]
<1>1. k.QUEUE \in [Queue -> Seq(Task)]
  BY KernelFields
<1>2. \A q \in Seq(Task) : \A W : Keep(q, W) \in Seq(Task)
  BY KeepElems
<1> QED
  BY <1>1, <1>2 DEF LeaveAuxQueues

\* The loop finds the delayed tasks that are due at the head of the timeout queue.
LEMMA DuePrefix ==
    ASSUME NEW k, k.TIMEOUT_QUEUE \in Seq(Task)
    PROVE  LET q == k.TIMEOUT_QUEUE
               n == CHOOSE i \in 0 .. Len(q) :
                       /\ \A j \in 1 .. i : Due(k, q[j])
                       /\ i < Len(q) => ~Due(k, q[i + 1])
           IN  /\ n \in 0 .. Len(q)
               /\ \A j \in 1 .. n : Due(k, q[j])
               /\ n < Len(q) => ~Due(k, q[n + 1])
<1> DEFINE q == k.TIMEOUT_QUEUE
           P(i) == /\ \A j \in 1 .. i : Due(k, q[j])
                   /\ i < Len(q) => ~Due(k, q[i + 1])
           N == {i \in 0 .. Len(q) : i < Len(q) => ~Due(k, q[i + 1])}
<1>1. Len(q) \in Nat /\ Len(q) \in N /\ N \in SUBSET Nat
  OBVIOUS
<1>2. PICK i \in N : \A j \in N : i <= j
  BY <1>1, LeastNatural
<1>3. i \in 0 .. Len(q) /\ (i < Len(q) => ~Due(k, q[i + 1]))
  BY <1>2
<1>4. ASSUME NEW j \in 1 .. i
      PROVE  Due(k, q[j])
  <2>1. j - 1 \in 0 .. Len(q) /\ j - 1 < Len(q) /\ ~(i <= j - 1) /\ (j - 1) + 1 = j
    BY <1>1, <1>3
  <2>2. j - 1 \notin N
    BY <1>2, <2>1
  <2> QED
    BY <2>1, <2>2
<1>5. P(i)
  BY <1>3, <1>4
<1> HIDE DEF P
<1>6. \E m \in 0 .. Len(q) : P(m)
  BY <1>3, <1>5
<1>7. LET n == CHOOSE m \in 0 .. Len(q) : P(m) IN n \in 0 .. Len(q) /\ P(n)
  BY <1>6
<1> QED
  BY <1>7 DEF P

\* The timer interrupt's loop over the timeout queue readies the delayed tasks that are
\* due and leaves the others delayed.
LEMMA ExpireInv ==
    ASSUME NEW k, KInv(k, {})
    PROVE  /\ KInv(Expire(k), {})
           /\ Expire(k).ACTIVE_PTR = k.ACTIVE_PTR
           /\ \A u \in Task : IsReady(k, u) => IsReady(Expire(k), u)
<1> DEFINE q == k.TIMEOUT_QUEUE
           P(i) == /\ \A j \in 1 .. i : Due(k, q[j])
                   /\ i < Len(q) => ~Due(k, q[i + 1])
           n == CHOOSE i \in 0 .. Len(q) : P(i)
           due == SubSeq(q, 1, n)
           rest == SubSeq(q, n + 1, Len(q))
           f == [t \in Task |-> IF t \in Elems(due) THEN 0 ELSE k.TIMEOUT[t]]
           L == LeaveAuxQueues(k, Elems(due))
           v == [k EXCEPT !.TIMEOUT_QUEUE = rest,
                          !.ON_TIMEOUT_Q = k.ON_TIMEOUT_Q \ Elems(due),
                          !.TIMEOUT = f, !.QUEUE = L]
<1>1. /\ k \in Kernel /\ q \in Seq(Task) /\ k.TIMEOUT \in [Task -> Int]
      /\ k.ON_TIMEOUT_Q \in SUBSET Task /\ Len(q) \in Nat
  BY KernelFields DEF KInv
<1>2. n \in 0 .. Len(q) /\ P(n)
  BY <1>1, DuePrefix
<1>3. Expire(k) = ReadyAll(v, due)
  BY DEF Expire
<1> HIDE DEF n, P
<1>4. NoDuplicates(q) /\ Elems(q) = k.ON_TIMEOUT_Q /\ Sorted(q, k.TIMEOUT)
  BY TimeoutSorted DEF KInv
<1>5. /\ due \in Seq(Task) /\ rest \in Seq(Task)
      /\ Elems(due) \cup Elems(rest) = Elems(q)
      /\ NoDuplicates(due) /\ NoDuplicates(rest) /\ Elems(due) \cap Elems(rest) = {}
      /\ Sorted(rest, k.TIMEOUT)
  BY <1>1, <1>2, <1>4, SplitElems
<1>6. L \in [Queue -> Seq(Task)]
  BY <1>1, LeaveAuxQueuesType
<1>7. f \in [Task -> Int] /\ \A t \in Task : t \notin Elems(due) => f[t] = k.TIMEOUT[t]
  BY <1>1
<1> HIDE DEF due, rest, f, L
<1>8. v \in Kernel
  BY <1>1, <1>5, <1>6, <1>7 DEF Kernel
<1>9. /\ v.READY_Q = k.READY_Q /\ v.CURRENT_READY_Q = k.CURRENT_READY_Q
      /\ v.MY_QUEUE = k.MY_QUEUE /\ v.TD_STATE = k.TD_STATE
      /\ v.ON_TIMEOUT_Q = k.ON_TIMEOUT_Q \ Elems(due) /\ v.TIMEOUT_QUEUE = rest
      /\ v.TIMEOUT = f /\ v.ACTIVE_PTR = k.ACTIVE_PTR
  BY <1>1 DEF Kernel
<1> HIDE DEF v
<1>10. Elems(due) \subseteq k.ON_TIMEOUT_Q /\ Elems(rest) = k.ON_TIMEOUT_Q \ Elems(due)
  BY <1>4, <1>5
<1>11. \A u \in Task : IsReady(k, u) <=> IsReady(v, u) /\ u \notin Elems(due)
  BY <1>9, <1>10 DEF IsReady
<1>12. ReadyExcept(v, Elems(due))
  BY <1>9, <1>11 DEF KInv, ReadyExcept
<1>13. HintOK(v)
  BY <1>9 DEF KInv, HintOK
<1>14. IdleOK(v, Elems(due))
  BY <1>9, <1>11, KernelAssumption DEF KInv, IdleOK
<1>15. TimeoutQueueOK(v)
  <2>1. \A i \in 1 .. Len(rest) : rest[i] \in Task /\ rest[i] \notin Elems(due)
    <3>1. \A i \in 1 .. Len(rest) : rest[i] \in Elems(rest)
      BY DEF Elems
    <3> QED
      BY <1>5, <3>1
  <2>2. Sorted(rest, f)
    BY <1>5, <1>7, <2>1 DEF Sorted
  <2> QED
    BY <1>5, <1>9, <1>10, <2>2, TimeoutSorted
<1>16. KInv(v, Elems(due)) /\ Elems(due) \cap v.ON_TIMEOUT_Q = {}
  BY <1>8, <1>9, <1>12, <1>13, <1>14, <1>15 DEF KInv
<1>17. /\ KInv(ReadyAll(v, due), {})
       /\ ReadyAll(v, due).ACTIVE_PTR = v.ACTIVE_PTR
       /\ \A u \in Task : IsReady(ReadyAll(v, due), u) <=> u \in Elems(due) \/ IsReady(v, u)
  BY <1>5, <1>16, ReadyAllInv
<1> QED
  BY <1>3, <1>9, <1>11, <1>17

\* Round robin in the timer interrupt.
LEMMA TimeSliceInv ==
    ASSUME NEW k, KInv(k, {}), IsReady(k, k.ACTIVE_PTR)
    PROVE  /\ KInv(TimeSlice(k), {})
           /\ TimeSlice(k).ACTIVE_PTR = k.ACTIVE_PTR
           /\ \A u \in Task : IsReady(TimeSlice(k), u) <=> IsReady(k, u)
<1> DEFINE t == k.ACTIVE_PTR
           used == k.CURRENT_TIME_SLICE[t] + 1
           w == IF used > MaxTimeSlice THEN MaxTimeSlice ELSE used
<1>1. /\ k \in Kernel /\ t \in Task
      /\ k.CURRENT_TIME_SLICE \in [Task -> 0 .. MaxTimeSlice]
  BY KernelFields DEF KInv
<1>2. CASE t \notin k.TIME_SLICE_TASK
  <2>1. TimeSlice(k) = k
    BY <1>2 DEF TimeSlice
  <2> QED
    BY <2>1
<1>3. CASE /\ t \in k.TIME_SLICE_TASK
           /\ t \notin k.PREEMPTION_DISABLED /\ used >= k.TIME_SLICE[t]
  <2>1. TimeSlice(k) = TASK_READY(UnlinkReady(k, t), t)
    BY <1>3 DEF TimeSlice
  <2> QED
    BY <1>1, <2>1, RotateInv
<1>4. CASE /\ t \in k.TIME_SLICE_TASK
           /\ ~(t \notin k.PREEMPTION_DISABLED /\ used >= k.TIME_SLICE[t])
  <2> DEFINE C == [k.CURRENT_TIME_SLICE EXCEPT ![t] = w]
             v == [k EXCEPT !.CURRENT_TIME_SLICE = C]
  <2>1. TimeSlice(k) = v
    BY <1>4 DEF TimeSlice
  <2>2. w \in 0 .. MaxTimeSlice
    <3>1. k.CURRENT_TIME_SLICE[t] \in 0 .. MaxTimeSlice
      BY <1>1
    <3> QED
      BY <3>1, TimeSlices
  <2>3. C \in [Task -> 0 .. MaxTimeSlice]
    BY <1>1, <2>2
  <2> HIDE DEF C
  <2>4. v \in Kernel
    BY <1>1, <2>3 DEF Kernel
  <2>5. /\ v.READY_Q = k.READY_Q /\ v.CURRENT_READY_Q = k.CURRENT_READY_Q
        /\ v.MY_QUEUE = k.MY_QUEUE /\ v.TD_STATE = k.TD_STATE
        /\ v.ON_TIMEOUT_Q = k.ON_TIMEOUT_Q /\ v.TIMEOUT_QUEUE = k.TIMEOUT_QUEUE
        /\ v.TIMEOUT = k.TIMEOUT /\ v.ACTIVE_PTR = k.ACTIVE_PTR
    BY <1>1 DEF Kernel
  <2> HIDE DEF v
  <2>6. KInv(v, {}) /\ \A u \in Task : IsReady(v, u) <=> IsReady(k, u)
    BY <2>4, <2>5, Frame
  <2> QED
    BY <2>1, <2>5, <2>6
<1> QED
  BY <1>2, <1>3, <1>4

\* The timer interrupt, _time_notify_kernel and the return from it.
LEMMA TickInv ==
    ASSUME NEW k, KInv(k, {}), IsReady(k, k.ACTIVE_PTR)
    PROVE  /\ KInv(IsrReturn(time_notify_kernel(k)), {})
           /\ RunningOK(IsrReturn(time_notify_kernel(k)))
<1> DEFINE i == IncTime(k)
           e == Expire(i)
           s == TimeSlice(e)
<1>0. k.ACTIVE_PTR \in Task
  BY KernelFields DEF KInv
<1>1. KInv(i, {}) /\ i.ACTIVE_PTR = k.ACTIVE_PTR /\ IsReady(i, i.ACTIVE_PTR)
  BY <1>0, IncTimeInv
<1> HIDE DEF i
<1>2. KInv(e, {}) /\ e.ACTIVE_PTR = k.ACTIVE_PTR /\ IsReady(e, e.ACTIVE_PTR)
  BY <1>0, <1>1, ExpireInv
<1> HIDE DEF e
<1>3. KInv(s, {}) /\ IsReady(s, s.ACTIVE_PTR)
  BY <1>0, <1>2, TimeSliceInv
<1>4. time_notify_kernel(k) = s
  BY DEF time_notify_kernel, s, e, i
<1> QED
  BY <1>3, <1>4, IsrReturnInv

(***************************************************************************)
(* Priorities.                                                              *)
(***************************************************************************)
\* MY_QUEUE of a task that is on no ready queue.
LEMMA ChangePriorityInv ==
    ASSUME NEW k, NEW X, KInv(k, X), NEW t \in Task, t # Idle, NEW p \in Priority,
           t \in X \/ ~IsReady(k, t)
    PROVE  LET v == [k EXCEPT !.MY_QUEUE[t] = p]
           IN  /\ KInv(v, X)
               /\ v.ACTIVE_PTR = k.ACTIVE_PTR
               /\ v.ON_TIMEOUT_Q = k.ON_TIMEOUT_Q
               /\ \A u \in Task : IsReady(v, u) <=> IsReady(k, u)
<1> DEFINE f == [k.MY_QUEUE EXCEPT ![t] = p]
           v == [k EXCEPT !.MY_QUEUE[t] = p]
<1>1. k \in Kernel /\ k.MY_QUEUE \in [Task -> Priority]
  BY KernelFields DEF KInv
<1>2. f \in [Task -> Priority] /\ \A u \in Task \ {t} : f[u] = k.MY_QUEUE[u]
  BY <1>1
<1>3. v = [k EXCEPT !.MY_QUEUE = f]
  OBVIOUS
<1> HIDE DEF f, v
<1>4. v \in Kernel
  BY <1>1, <1>2, <1>3 DEF Kernel
<1>5. /\ v.READY_Q = k.READY_Q /\ v.CURRENT_READY_Q = k.CURRENT_READY_Q
      /\ v.MY_QUEUE = f /\ v.TD_STATE = k.TD_STATE
      /\ v.ON_TIMEOUT_Q = k.ON_TIMEOUT_Q /\ v.TIMEOUT_QUEUE = k.TIMEOUT_QUEUE
      /\ v.TIMEOUT = k.TIMEOUT /\ v.ACTIVE_PTR = k.ACTIVE_PTR
  BY <1>1, <1>3 DEF Kernel
<1>6. \A u \in Task : IsReady(v, u) <=> IsReady(k, u)
  BY <1>5 DEF IsReady
<1>7. ReadyExcept(v, X)
  <2>1. ASSUME NEW r \in Priority, NEW u \in Task
        PROVE  u \in Elems(k.READY_Q[r]) <=> IsReady(v, u) /\ u \notin X /\ f[u] = r
    <3>1. CASE u = t
      BY <1>6, <3>1 DEF KInv, ReadyExcept
    <3>2. CASE u # t
      BY <1>2, <1>6, <3>2 DEF KInv, ReadyExcept
    <3> QED
      BY <3>1, <3>2
  <2> QED
    BY <1>5, <2>1 DEF KInv, ReadyExcept
<1>8. HintOK(v)
  BY <1>5 DEF KInv, HintOK
<1>9. IdleOK(v, X)
  BY <1>2, <1>5, <1>6, KernelAssumption DEF KInv, IdleOK
<1>10. TimeoutQueueOK(v)
  BY <1>5, TimeoutSorted DEF KInv
<1> QED
  BY <1>4, <1>5, <1>6, <1>7, <1>8, <1>9, <1>10 DEF KInv, v

\* _sched_set_priority_internal leaves a ready task active.
LEMMA SetPriorityInv ==
    ASSUME NEW k, KInv(k, {}), IsReady(k, k.ACTIVE_PTR),
           NEW t \in Task, t # Idle, NEW p \in Priority
    PROVE  LET v == sched_set_priority_internal(k, t, p)
           IN  KInv(v, {}) /\ IsReady(v, v.ACTIVE_PTR)
<1> DEFINE a == k.ACTIVE_PTR
           u == UnlinkReady(k, t)
           w == [u EXCEPT !.MY_QUEUE[t] = p]
           moved == TASK_READY(w, t)
           v == sched_set_priority_internal(k, t, p)
<1>0. a \in Task
  BY KernelFields DEF KInv
<1>1. CASE IsReady(k, t)
  <2>1. /\ KInv(u, {t})
        /\ u = [k EXCEPT !.READY_Q = [k.READY_Q EXCEPT ![k.MY_QUEUE[t]] = Unlink(@, t)]]
    BY <1>1, UnlinkReadyInv
  <2>2. /\ u.ACTIVE_PTR = a /\ u.TD_STATE = k.TD_STATE
        /\ u.ON_TIMEOUT_Q = k.ON_TIMEOUT_Q
    BY <2>1 DEF KInv, Kernel
  <2>3. KInv(u, {t}) /\ t \in {t}
    BY <2>1
  <2>4. IsReady(u, t) /\ IsReady(u, a)
    BY <1>1, <2>2 DEF IsReady
  <2> HIDE DEF u
  <2>5. /\ KInv(w, {t}) /\ w.ACTIVE_PTR = u.ACTIVE_PTR
        /\ \A x \in Task : IsReady(w, x) <=> IsReady(u, x)
    BY <2>3, ChangePriorityInv, Zenon
  <2> HIDE DEF w
  <2>6. t \notin w.ON_TIMEOUT_Q
    BY <2>4, <2>5 DEF IsReady
  <2>7. /\ KInv(moved, {t} \ {t}) /\ moved.ACTIVE_PTR = w.ACTIVE_PTR
        /\ \A x \in Task : IsReady(moved, x) <=> x = t \/ IsReady(w, x)
    BY <2>3, <2>5, <2>6, TaskReadyInv, Zenon
  <2>8. KInv(moved, {}) /\ IsReady(moved, moved.ACTIVE_PTR)
    <3>1. {t} \ {t} = {}
      OBVIOUS
    <3>2. KInv(moved, {})
      BY <2>7, <3>1
    <3> QED
      BY <1>0, <2>2, <2>4, <2>5, <2>7, <3>2
  <2>9. v = moved \/ v = Dispatch(moved)
    BY <1>1 DEF sched_set_priority_internal, w, u
  <2> QED
    BY <2>8, <2>9, DispatchInv DEF TopRuns
<1>2. CASE ~IsReady(k, t)
  <2>1. v = [k EXCEPT !.MY_QUEUE[t] = p]
    BY <1>2 DEF sched_set_priority_internal
  <2>2. /\ KInv([k EXCEPT !.MY_QUEUE[t] = p], {})
        /\ [k EXCEPT !.MY_QUEUE[t] = p].ACTIVE_PTR = a
        /\ \A x \in Task : IsReady([k EXCEPT !.MY_QUEUE[t] = p], x) <=> IsReady(k, x)
    BY <1>2, ChangePriorityInv, Zenon
  <2> QED
    BY <1>0, <2>1, <2>2
<1> QED
  BY <1>1, <1>2

\* _task_set_priority ends in the scheduler, whether or not the task was boosted or waits
\* on a queue ordered by priority.
LEMMA TaskSetPriorityInv ==
    ASSUME NEW k, KInv(k, {}), IsReady(k, k.ACTIVE_PTR),
           NEW t \in Task, t # Idle, NEW p \in Priority
    PROVE  KInv(TaskSetPriority(k, t, p), {}) /\ TopRuns(TaskSetPriority(k, t, p))
<1> DEFINE k1 == [k EXCEPT !.HOME_QUEUE[t] = p]
           k2 == IF k.BOOSTED[t] = 0 \/ p < k.MY_QUEUE[t]
                 THEN sched_set_priority_internal(k1, t, p)
                 ELSE k1
           o  == k.INFO[t]
           c  == /\ k.TD_STATE[t] = "TASK_QUEUE_BLOCKED"
                 /\ t \notin k.ON_TIMEOUT_Q
                 /\ o \in PriorityQueue
           r  == sched_insert_priorityq_internal(k2, Unlink(k2.QUEUE[o], t), t)
           v  == [k2 EXCEPT !.QUEUE = [k2.QUEUE EXCEPT ![o] = r]]
           k3 == IF c THEN v ELSE k2
<1>1. TaskSetPriority(k, t, p) = CHECK_RUN_SCHEDULER(k3)
  BY DEF TaskSetPriority
<1>2. KInv(k1, {}) /\ IsReady(k1, k1.ACTIVE_PTR)
  <2> DEFINE h == [k.HOME_QUEUE EXCEPT ![t] = p]
  <2>1. k \in Kernel /\ k.HOME_QUEUE \in [Task -> Priority] /\ k.ACTIVE_PTR \in Task
    BY KernelFields DEF KInv
  <2>2. h \in [Task -> Priority] /\ k1 = [k EXCEPT !.HOME_QUEUE = h]
    BY <2>1
  <2> HIDE DEF h, k1
  <2>3. k1 \in Kernel
    BY <2>1, <2>2 DEF Kernel
  <2>4. /\ k1.READY_Q = k.READY_Q /\ k1.CURRENT_READY_Q = k.CURRENT_READY_Q
        /\ k1.MY_QUEUE = k.MY_QUEUE /\ k1.TD_STATE = k.TD_STATE
        /\ k1.ON_TIMEOUT_Q = k.ON_TIMEOUT_Q /\ k1.TIMEOUT_QUEUE = k.TIMEOUT_QUEUE
        /\ k1.TIMEOUT = k.TIMEOUT /\ k1.ACTIVE_PTR = k.ACTIVE_PTR
    BY <2>1, <2>2 DEF Kernel
  <2>5. KInv(k1, {}) /\ \A u \in Task : IsReady(k1, u) <=> IsReady(k, u)
    BY <2>3, <2>4, Frame
  <2> QED
    BY <2>1, <2>4, <2>5
<1> HIDE DEF k1
<1>3. KInv(k2, {}) /\ IsReady(k2, k2.ACTIVE_PTR)
  BY <1>2, SetPriorityInv
<1> HIDE DEF k2
<1>4. CASE c
  <2>1. o \in Queue
    BY <1>4, KernelAssumption
  <2>2. k2 \in Kernel /\ k2.QUEUE \in [Queue -> Seq(Task)] /\ k2.ACTIVE_PTR \in Task
    BY <1>3, KernelFields DEF KInv
  <2>3. Unlink(k2.QUEUE[o], t) \in Seq(Task)
    BY <2>1, <2>2, UnlinkElems
  <2>4. r \in Seq(Task)
    BY <2>3, InsertElems DEF sched_insert_priorityq_internal
  <2> DEFINE Q == [k2.QUEUE EXCEPT ![o] = r]
  <2>5. Q \in [Queue -> Seq(Task)] /\ v = [k2 EXCEPT !.QUEUE = Q]
    BY <2>2, <2>4
  <2> HIDE DEF Q, v
  <2>6. v \in Kernel
    BY <2>2, <2>5 DEF Kernel
  <2>7. /\ v.READY_Q = k2.READY_Q /\ v.CURRENT_READY_Q = k2.CURRENT_READY_Q
        /\ v.MY_QUEUE = k2.MY_QUEUE /\ v.TD_STATE = k2.TD_STATE
        /\ v.ON_TIMEOUT_Q = k2.ON_TIMEOUT_Q /\ v.TIMEOUT_QUEUE = k2.TIMEOUT_QUEUE
        /\ v.TIMEOUT = k2.TIMEOUT /\ v.ACTIVE_PTR = k2.ACTIVE_PTR
    BY <2>2, <2>5 DEF Kernel
  <2>8. KInv(v, {}) /\ \A u \in Task : IsReady(v, u) <=> IsReady(k2, u)
    BY <1>3, <2>6, <2>7, Frame
  <2>9. KInv(v, {}) /\ IsReady(v, v.ACTIVE_PTR)
    BY <1>3, <2>2, <2>7, <2>8
  <2> QED
    BY <1>1, <1>4, <2>9, CheckRunInv
<1>5. CASE ~c
  BY <1>1, <1>3, <1>5, CheckRunInv
<1> QED
  BY <1>4, <1>5

(***************************************************************************)
(* The start.                                                               *)
(***************************************************************************)
\* The kernel before its tasks are readied for the first time.
Unbooted ==
    [ACTIVE_PTR          |-> Idle,
     CURRENT_READY_Q     |-> IDLE_PRIORITY,
     READY_Q             |-> [p \in Priority |-> <<>>],
     MY_QUEUE            |-> InitPriority,
     HOME_QUEUE          |-> InitPriority,
     BOOSTED             |-> [t \in Task |-> 0],
     TD_STATE            |-> [t \in Task |-> "BLOCKED"],
     ON_TIMEOUT_Q        |-> {},
     TIMEOUT_QUEUE       |-> <<>>,
     TIMEOUT             |-> [t \in Task |-> 0],
     QUEUE               |-> [o \in Queue |-> <<>>],
     INFO                |-> [t \in Task |-> NULL],
     PREEMPTION_DISABLED |-> {},
     TIME_SLICE_TASK     |-> InitTimeSliceTask,
     TIME_SLICE          |-> [t \in Task |-> MaxTimeSlice],
     CURRENT_TIME_SLICE  |-> [t \in Task |-> 0]]

\* It is a kernel.
LEMMA UnbootedType == Unbooted \in Kernel
<1>1. InitPriority \in [Task -> Priority] /\ InitTimeSliceTask \in SUBSET Task
  BY KernelAssumption DEF IDLE_PRIORITY, Priority
<1>2. /\ [p \in Priority |-> <<>>] \in [Priority -> Seq(Task)]
      /\ [o \in Queue |-> <<>>] \in [Queue -> Seq(Task)]
      /\ <<>> \in Seq(Task)
  OBVIOUS
<1>3. /\ [t \in Task |-> 0] \in [Task -> Nat] /\ [t \in Task |-> 0] \in [Task -> Int]
  OBVIOUS
<1>4. /\ [t \in Task |-> 0] \in [Task -> 0 .. MaxTimeSlice]
      /\ [t \in Task |-> MaxTimeSlice] \in [Task -> 0 .. MaxTimeSlice]
  BY TimeSlices
<1>5. [t \in Task |-> "BLOCKED"] \in [Task -> State]
  BY DEF State
<1>6. [t \in Task |-> NULL] \in [Task -> Info]
  BY DEF Info
<1> QED
  BY <1>1, <1>2, <1>3, <1>4, <1>5, <1>6, KernelAssumption, Priorities DEF Kernel, Unbooted

\* The kernel the init task leaves behind is in order.
LEMMA BootInv ==
    /\ KInv(Boot, {}) /\ TopRuns(Boot)
    /\ KInv(ReadyAll(Unbooted, BootOrder), {})
<1> DEFINE z == Unbooted
<1>1. Boot = Dispatch(ReadyAll(z, BootOrder))
  BY DEF Boot, Unbooted
<1>2. /\ Idle \in Task
      /\ BootOrder \in Seq(Task) /\ NoDuplicates(BootOrder)
      /\ Idle \in Elems(BootOrder)
      /\ InitTimeSliceTask \in SUBSET Task
  BY KernelAssumption DEF NoDuplicates, Elems
<1>3. InitPriority \in [Task -> Priority] /\ InitPriority[Idle] = IDLE_PRIORITY
  BY KernelAssumption DEF IDLE_PRIORITY, Priority
<1>4. z \in Kernel
  BY UnbootedType
<1>5. /\ \A p \in Priority : z.READY_Q[p] = <<>>
      /\ \A t \in Task : z.TD_STATE[t] = "BLOCKED"
      /\ z.MY_QUEUE = InitPriority /\ z.ON_TIMEOUT_Q = {} /\ z.TIMEOUT_QUEUE = <<>>
  BY DEF Unbooted
<1> HIDE DEF z
<1>6. ReadyExcept(z, Elems(BootOrder))
  <2>1. NoDuplicates(<<>>) /\ Elems(<<>>) = {}
    BY DEF NoDuplicates, Elems
  <2>2. \A t \in Task : ~IsReady(z, t)
    BY <1>5 DEF IsReady
  <2> QED
    BY <1>5, <2>1, <2>2 DEF ReadyExcept
<1>7. HintOK(z) /\ IdleOK(z, Elems(BootOrder))
  BY <1>2, <1>3, <1>5 DEF HintOK, IdleOK
<1>8. TimeoutQueueOK(z)
  BY <1>5 DEF TimeoutQueueOK, NoDuplicates, Elems
<1>9. KInv(z, Elems(BootOrder)) /\ Elems(BootOrder) \cap z.ON_TIMEOUT_Q = {}
  BY <1>4, <1>5, <1>6, <1>7, <1>8 DEF KInv
<1>10. KInv(ReadyAll(z, BootOrder), {})
  BY <1>2, <1>9, ReadyAllInv
<1> QED
  BY <1>1, <1>10, DispatchInv DEF z

(***************************************************************************)
(* Waiting.  What the operators do to the wait queues, and what they leave   *)
(* alone.                                                                    *)
(*                                                                           *)
(* A waiting task is on a wait queue by its AUX_QUEUE links and may be on    *)
(* the timeout queue too, or it is on the wait queue by its own links and    *)
(* then cannot be delayed.  A call, a timeout and a destroy compete for it:  *)
(* whichever comes first has to take it off both queues.                     *)
(***************************************************************************)

\* STATE says that a task is on a wait queue.
WaitStates == AuxStates \cup QueueStates

\* The wait queues are exact, and a delayed task is on none by its own links.
WaitInv(k) ==
    /\ WaitQueuesOK(k, {})
    /\ \A t \in k.ON_TIMEOUT_Q : k.TD_STATE[t] \notin QueueStates

\* j comes from k by switching tasks or moving them within the ready queues.
OnlySwitched(k, j) ==
    /\ j.TD_STATE = k.TD_STATE /\ j.ON_TIMEOUT_Q = k.ON_TIMEOUT_Q
    /\ j.QUEUE = k.QUEUE /\ j.INFO = k.INFO
    /\ j.MY_QUEUE = k.MY_QUEUE /\ j.HOME_QUEUE = k.HOME_QUEUE /\ j.BOOSTED = k.BOOSTED

\* The kernel between calls.
Consistent(k) == KInv(k, {}) /\ RunningOK(k) /\ WaitInv(k)

\* The kernel inside a call that has readied tasks and not called the scheduler yet.
Unscheduled(k) == KInv(k, {}) /\ IsReady(k, k.ACTIVE_PTR) /\ WaitInv(k)

\* Between calls the kernel is as MqxKernel demands.
LEMMA ConsistentKernel ==
    ASSUME NEW k, Consistent(k)
    PROVE  k \in Kernel /\ SchedulerOK(k) /\ WaitQueuesOK(k, {})
<1>1. ReadyQueuesOK(k)
  BY DEF Consistent, KInv, ReadyExcept, ReadyQueuesOK
<1> QED
  BY <1>1 DEF Consistent, KInv, WaitInv, SchedulerOK

\* The task states are different states.
LEMMA States ==
    /\ WaitStates \subseteq State /\ AuxStates \subseteq WaitStates
    /\ QueueStates \subseteq WaitStates /\ AuxStates \cap QueueStates = {}
    /\ "READY" \in State \ WaitStates /\ "BLOCKED" \in State \ WaitStates
BY DEF WaitStates, AuxStates, QueueStates, State

\* Switching tasks leaves the task descriptors and the wait queues as they are.
LEMMA SwitchFrame ==
    ASSUME NEW k \in Kernel
    PROVE  /\ OnlySwitched(k, Dispatch(k))
           /\ OnlySwitched(k, CHECK_RUN_SCHEDULER(k))
           /\ OnlySwitched(k, IsrReturn(k))
<1>1. OnlySwitched(k, Dispatch(k))
  <2> DEFINE p == CHOOSE i \in Priority :
                /\ i >= k.CURRENT_READY_Q /\ k.READY_Q[i] # <<>>
                /\ \A j \in k.CURRENT_READY_Q .. (i - 1) : k.READY_Q[j] = <<>>
             h == Head(k.READY_Q[p])
  <2>1. Dispatch(k) = [k EXCEPT !.CURRENT_READY_Q = p, !.ACTIVE_PTR = h]
    BY DEF Dispatch
  <2> HIDE DEF p, h
  <2> QED
    BY <2>1 DEF OnlySwitched, Kernel
<1>2. OnlySwitched(k, k)
  BY DEF OnlySwitched
<1> QED
  BY <1>1, <1>2 DEF CHECK_RUN_SCHEDULER, IsrReturn

\* So does unlinking a task from its ready queue.
LEMMA UnlinkFrame ==
    ASSUME NEW k \in Kernel, NEW t \in Task
    PROVE  /\ OnlySwitched(k, UnlinkReady(k, t))
           /\ UnlinkReady(k, t).ACTIVE_PTR = k.ACTIVE_PTR
<1> DEFINE R == [k.READY_Q EXCEPT ![k.MY_QUEUE[t]] = Unlink(@, t)]
<1>1. UnlinkReady(k, t) = [k EXCEPT !.READY_Q = R]
  BY DEF UnlinkReady
<1> HIDE DEF R
<1> QED
  BY <1>1 DEF OnlySwitched, Kernel

\* WaitInv depends on the states, INFO, the wait queues and the timeout flags only.
LEMMA WaitFrame ==
    ASSUME NEW k, WaitInv(k), NEW j, OnlySwitched(k, j)
    PROVE  WaitInv(j)
BY DEF WaitInv, WaitQueuesOK, OnlySwitched

\* A kernel whose active task has the highest priority is a correct one.
LEMMA TopIsRunning ==
    ASSUME NEW k, TopRuns(k)
    PROVE  RunningOK(k)
BY DEF TopRuns, RunningOK

\* The scheduler called by a task at the end of a call.
LEMMA CheckRunWait ==
    ASSUME NEW k, Unscheduled(k)
    PROVE  /\ Consistent(CHECK_RUN_SCHEDULER(k))
           /\ OnlySwitched(k, CHECK_RUN_SCHEDULER(k))
<1>1. OnlySwitched(k, CHECK_RUN_SCHEDULER(k))
  BY SwitchFrame DEF Unscheduled, KInv
<1>2. WaitInv(CHECK_RUN_SCHEDULER(k))
  BY <1>1, WaitFrame DEF Unscheduled
<1> QED
  BY <1>1, <1>2, CheckRunInv, TopIsRunning DEF Unscheduled, Consistent

\* The end of an interrupt.
LEMMA IsrReturnWait ==
    ASSUME NEW k, Unscheduled(k)
    PROVE  /\ Consistent(IsrReturn(k))
           /\ OnlySwitched(k, IsrReturn(k))
<1>1. OnlySwitched(k, IsrReturn(k))
  BY SwitchFrame DEF Unscheduled, KInv
<1>2. WaitInv(IsrReturn(k))
  BY <1>1, WaitFrame DEF Unscheduled
<1> QED
  BY <1>1, <1>2, IsrReturnInv DEF Unscheduled, Consistent

\* A call that gives the processor away at once.
LEMMA DispatchWait ==
    ASSUME NEW k, KInv(k, {}), WaitInv(k)
    PROVE  /\ Consistent(Dispatch(k))
           /\ OnlySwitched(k, Dispatch(k))
<1>1. OnlySwitched(k, Dispatch(k))
  BY SwitchFrame DEF KInv
<1>2. WaitInv(Dispatch(k))
  BY <1>1, WaitFrame
<1> QED
  BY <1>1, <1>2, DispatchInv, TopIsRunning DEF Consistent

(***************************************************************************)
(* Leaving and joining a wait queue.                                        *)
(***************************************************************************)
\* The tasks of S have left the wait queues and the timeout queue and are ready.
LeftWait(k, j, S) ==
    /\ \A o \in Queue : /\ NoDuplicates(j.QUEUE[o])
                        /\ Elems(j.QUEUE[o]) = Elems(k.QUEUE[o]) \ S
    /\ \A t \in Task : /\ t \in S => j.TD_STATE[t] = "READY"
                       /\ t \notin S => /\ j.TD_STATE[t] = k.TD_STATE[t]
                                        /\ j.INFO[t] = k.INFO[t]
    /\ k.ON_TIMEOUT_Q \subseteq Task
    /\ j.ON_TIMEOUT_Q \subseteq k.ON_TIMEOUT_Q \ S

\* That keeps the wait queues exact.
LEMMA LeaveWait ==
    ASSUME NEW k, WaitInv(k), NEW j, NEW S, LeftWait(k, j, S)
    PROVE  WaitInv(j)
<1>1. ASSUME NEW o \in Queue, NEW t \in Task
      PROVE  t \in Elems(j.QUEUE[o]) <=>
                j.TD_STATE[t] \in AuxStates \cup QueueStates /\ j.INFO[t] = o /\ t \notin {}
  <2>1. t \in Elems(k.QUEUE[o]) <=>
           k.TD_STATE[t] \in AuxStates \cup QueueStates /\ k.INFO[t] = o /\ t \notin {}
    BY DEF WaitInv, WaitQueuesOK
  <2>2. CASE t \in S
    BY <2>2, States DEF WaitStates, LeftWait
  <2>3. CASE t \notin S
    BY <2>1, <2>3 DEF LeftWait
  <2> QED
    BY <2>2, <2>3
<1>2. WaitQueuesOK(j, {})
  BY <1>1 DEF WaitQueuesOK, LeftWait
<1>3. \A t \in j.ON_TIMEOUT_Q : j.TD_STATE[t] \notin QueueStates
  BY DEF WaitInv, LeftWait
<1> QED
  BY <1>2, <1>3 DEF WaitInv

\* Task t joins the wait queue of o.
LEMMA JoinWait ==
    ASSUME NEW k, WaitInv(k), NEW j, NEW t \in Task, NEW o \in Queue,
           k.TD_STATE[t] \notin WaitStates,
           j.TD_STATE[t] \in WaitStates, j.INFO[t] = o,
           \A u \in Task \ {t} : j.TD_STATE[u] = k.TD_STATE[u] /\ j.INFO[u] = k.INFO[u],
           NoDuplicates(j.QUEUE[o]), Elems(j.QUEUE[o]) = Elems(k.QUEUE[o]) \cup {t},
           \A p \in Queue \ {o} : j.QUEUE[p] = k.QUEUE[p],
           j.ON_TIMEOUT_Q \subseteq k.ON_TIMEOUT_Q \cup {t},
           k.ON_TIMEOUT_Q \subseteq Task,
           t \in j.ON_TIMEOUT_Q => j.TD_STATE[t] \notin QueueStates
    PROVE  WaitInv(j)
<1>1. ASSUME NEW p \in Queue
      PROVE  /\ NoDuplicates(j.QUEUE[p])
             /\ \A u \in Task : u \in Elems(j.QUEUE[p]) <=>
                   /\ j.TD_STATE[u] \in AuxStates \cup QueueStates
                   /\ j.INFO[u] = p /\ u \notin {}
  <2>1. /\ NoDuplicates(k.QUEUE[p])
        /\ \A u \in Task : u \in Elems(k.QUEUE[p]) <=>
              k.TD_STATE[u] \in AuxStates \cup QueueStates /\ k.INFO[u] = p /\ u \notin {}
    BY DEF WaitInv, WaitQueuesOK
  <2>2. CASE p = o
    BY <2>1, <2>2 DEF WaitStates
  <2>3. CASE p # o
    BY <2>1, <2>3 DEF WaitStates
  <2> QED
    BY <2>2, <2>3
<1>2. WaitQueuesOK(j, {})
  BY <1>1 DEF WaitQueuesOK
<1>3. \A u \in j.ON_TIMEOUT_Q : j.TD_STATE[u] \notin QueueStates
  BY DEF WaitInv
<1> QED
  BY <1>2, <1>3 DEF WaitInv

(***************************************************************************)
(* Blocking on a wait queue.                                                *)
(***************************************************************************)
\* Task t with STATE st and INFO o, and q as the wait queue of o.
Waiting(k, t, o, st, q) ==
    [k EXCEPT !.TD_STATE[t] = st, !.INFO[t] = o, !.QUEUE[o] = q]

\* That is all that j's task descriptors and wait queues differ in from k's.
Joined(k, j, t, o, st, q) ==
    /\ j.TD_STATE = [k.TD_STATE EXCEPT ![t] = st]
    /\ j.INFO = [k.INFO EXCEPT ![t] = o]
    /\ j.QUEUE = [k.QUEUE EXCEPT ![o] = q]
    /\ j.MY_QUEUE = k.MY_QUEUE /\ j.HOME_QUEUE = k.HOME_QUEUE /\ j.BOOSTED = k.BOOSTED

\* The fields of the kernel that a blocking call passes on.
LEMMA WaitingFields ==
    ASSUME NEW k \in Kernel, NEW t \in Task, NEW o \in Queue, NEW st \in State,
           NEW q \in Seq(Task)
    PROVE  LET j == Waiting(k, t, o, st, q)
           IN  /\ j \in Kernel
               /\ Joined(k, j, t, o, st, q)
               /\ j.READY_Q = k.READY_Q /\ j.CURRENT_READY_Q = k.CURRENT_READY_Q
               /\ j.ON_TIMEOUT_Q = k.ON_TIMEOUT_Q /\ j.TIMEOUT_QUEUE = k.TIMEOUT_QUEUE
               /\ j.TIMEOUT = k.TIMEOUT /\ j.ACTIVE_PTR = k.ACTIVE_PTR
               /\ j.PREEMPTION_DISABLED = k.PREEMPTION_DISABLED
<1> DEFINE D == [k.TD_STATE EXCEPT ![t] = st]
           I == [k.INFO EXCEPT ![t] = o]
           W == [k.QUEUE EXCEPT ![o] = q]
           j == Waiting(k, t, o, st, q)
<1>1. D \in [Task -> State] /\ I \in [Task -> Info] /\ W \in [Queue -> Seq(Task)]
  BY KernelFields DEF Info
<1>2. j = [k EXCEPT !.TD_STATE = D, !.INFO = I, !.QUEUE = W]
  BY DEF Waiting, Kernel
<1> HIDE DEF D, I, W, j
<1>3. j \in Kernel
  BY <1>1, <1>2 DEF Kernel
<1>4. /\ j.TD_STATE = D /\ j.INFO = I /\ j.QUEUE = W
      /\ j.MY_QUEUE = k.MY_QUEUE /\ j.HOME_QUEUE = k.HOME_QUEUE /\ j.BOOSTED = k.BOOSTED
      /\ j.READY_Q = k.READY_Q /\ j.CURRENT_READY_Q = k.CURRENT_READY_Q
      /\ j.ON_TIMEOUT_Q = k.ON_TIMEOUT_Q /\ j.TIMEOUT_QUEUE = k.TIMEOUT_QUEUE
      /\ j.TIMEOUT = k.TIMEOUT /\ j.ACTIVE_PTR = k.ACTIVE_PTR
      /\ j.PREEMPTION_DISABLED = k.PREEMPTION_DISABLED
  BY <1>2 DEF Kernel
<1> QED
  BY <1>3, <1>4 DEF Joined, D, I, W, j

\* The wait queues when t, which was ready, has joined that of o and may be delayed too.
LEMMA JoinedWait ==
    ASSUME NEW k, KInv(k, {}), WaitInv(k), NEW t \in Task, IsReady(k, t),
           NEW o \in Queue, NEW st \in WaitStates, NEW q \in Seq(Task), NoDuplicates(q),
           Elems(q) = Elems(k.QUEUE[o]) \cup {t},
           NEW j, Joined(k, j, t, o, st, q),
           \/ j.ON_TIMEOUT_Q = k.ON_TIMEOUT_Q
           \/ j.ON_TIMEOUT_Q = k.ON_TIMEOUT_Q \cup {t} /\ st \in AuxStates
    PROVE  WaitInv(j)
<1>1. /\ k.TD_STATE \in [Task -> State] /\ k.INFO \in [Task -> Info]
      /\ k.QUEUE \in [Queue -> Seq(Task)] /\ k.ON_TIMEOUT_Q \subseteq Task
  BY KernelFields DEF KInv
<1>2. k.TD_STATE[t] \notin WaitStates /\ t \notin k.ON_TIMEOUT_Q
  BY States DEF IsReady
<1>3. j.TD_STATE[t] = st /\ j.INFO[t] = o /\ j.QUEUE[o] = q
  BY <1>1 DEF Joined
<1>4. /\ \A u \in Task \ {t} : j.TD_STATE[u] = k.TD_STATE[u] /\ j.INFO[u] = k.INFO[u]
      /\ \A p \in Queue \ {o} : j.QUEUE[p] = k.QUEUE[p]
  BY <1>1 DEF Joined
<1>5. t \in j.ON_TIMEOUT_Q => st \notin QueueStates
  BY <1>2, States
<1> QED
  BY <1>1, <1>2, <1>3, <1>4, <1>5, JoinWait

\* A ready task is moved to the wait queue of o.
LEMMA BlockInv ==
    ASSUME NEW k, KInv(k, {}), NEW t \in Task, t # Idle, IsReady(k, t),
           NEW o \in Queue, NEW st \in WaitStates, NEW q \in Seq(Task)
    PROVE  LET v == UnlinkReady(Waiting(k, t, o, st, q), t)
           IN  /\ KInv(v, {}) /\ Joined(k, v, t, o, st, q)
               /\ v.ON_TIMEOUT_Q = k.ON_TIMEOUT_Q /\ v.ACTIVE_PTR = k.ACTIVE_PTR
               /\ v.PREEMPTION_DISABLED = k.PREEMPTION_DISABLED
               /\ \A u \in Task : IsReady(v, u) <=> IsReady(k, u) /\ u # t
<1> DEFINE j == Waiting(k, t, o, st, q)
           v == UnlinkReady(j, t)
           R == [k.READY_Q EXCEPT ![k.MY_QUEUE[t]] = Unlink(@, t)]
<1>1. k \in Kernel /\ st \in State
  BY States DEF KInv
<1>2. /\ k.READY_Q \in [Priority -> Seq(Task)] /\ k.MY_QUEUE[t] \in Priority
      /\ k.TD_STATE \in [Task -> State]
  BY <1>1, KernelFields
<1>3. /\ j \in Kernel /\ Joined(k, j, t, o, st, q)
      /\ j.READY_Q = k.READY_Q /\ j.CURRENT_READY_Q = k.CURRENT_READY_Q
      /\ j.ON_TIMEOUT_Q = k.ON_TIMEOUT_Q /\ j.TIMEOUT_QUEUE = k.TIMEOUT_QUEUE
      /\ j.TIMEOUT = k.TIMEOUT /\ j.ACTIVE_PTR = k.ACTIVE_PTR
      /\ j.PREEMPTION_DISABLED = k.PREEMPTION_DISABLED
  BY <1>1, WaitingFields
<1> HIDE DEF j
<1>4. R \in [Priority -> Seq(Task)]
  BY <1>2, UnlinkElems
<1>5. v = [j EXCEPT !.READY_Q = R]
  BY <1>3 DEF UnlinkReady, Joined
<1> HIDE DEF v, R
<1>6. v \in Kernel
  BY <1>3, <1>4, <1>5 DEF Kernel
<1>7. /\ v.READY_Q = R /\ v.CURRENT_READY_Q = k.CURRENT_READY_Q
      /\ v.TD_STATE = j.TD_STATE /\ v.INFO = j.INFO /\ v.QUEUE = j.QUEUE
      /\ v.MY_QUEUE = j.MY_QUEUE /\ v.HOME_QUEUE = j.HOME_QUEUE /\ v.BOOSTED = j.BOOSTED
      /\ v.ON_TIMEOUT_Q = k.ON_TIMEOUT_Q /\ v.TIMEOUT_QUEUE = k.TIMEOUT_QUEUE
      /\ v.TIMEOUT = k.TIMEOUT /\ v.ACTIVE_PTR = k.ACTIVE_PTR
      /\ v.PREEMPTION_DISABLED = k.PREEMPTION_DISABLED
  BY <1>3, <1>5 DEF Kernel
<1>8. Joined(k, v, t, o, st, q) /\ v.MY_QUEUE = k.MY_QUEUE
  BY <1>3, <1>7 DEF Joined
<1>9. ~IsReady(v, t) /\ \A u \in Task \ {t} : IsReady(v, u) <=> IsReady(k, u)
  BY <1>2, <1>7, <1>8, States DEF Joined, IsReady
<1>10. TimeoutQueueOK(v)
  BY <1>7 DEF KInv, TimeoutQueueOK
<1>11. KInv(v, {})
  BY <1>6, <1>7, <1>8, <1>9, <1>10, SuspendInv DEF R
<1> QED
  BY <1>7, <1>8, <1>9, <1>11 DEF v, j

\* The wait queues are exact then.
LEMMA BlockWait ==
    ASSUME NEW k, KInv(k, {}), WaitInv(k), NEW t \in Task, t # Idle, IsReady(k, t),
           NEW o \in Queue, NEW st \in WaitStates, NEW q \in Seq(Task), NoDuplicates(q),
           Elems(q) = Elems(k.QUEUE[o]) \cup {t}
    PROVE  LET v == UnlinkReady(Waiting(k, t, o, st, q), t)
           IN  /\ KInv(v, {}) /\ WaitInv(v) /\ Joined(k, v, t, o, st, q)
               /\ v.ON_TIMEOUT_Q = k.ON_TIMEOUT_Q /\ v.ACTIVE_PTR = k.ACTIVE_PTR
               /\ v.PREEMPTION_DISABLED = k.PREEMPTION_DISABLED
               /\ \A u \in Task : IsReady(v, u) <=> IsReady(k, u) /\ u # t
<1> DEFINE v == UnlinkReady(Waiting(k, t, o, st, q), t)
<1>1. /\ KInv(v, {}) /\ Joined(k, v, t, o, st, q)
      /\ v.ON_TIMEOUT_Q = k.ON_TIMEOUT_Q /\ v.ACTIVE_PTR = k.ACTIVE_PTR
      /\ v.PREEMPTION_DISABLED = k.PREEMPTION_DISABLED
      /\ \A u \in Task : IsReady(v, u) <=> IsReady(k, u) /\ u # t
  BY BlockInv
<1> HIDE DEF v
<1>2. WaitInv(v)
  BY <1>1, JoinedWait
<1> QED
  BY <1>1, <1>2 DEF v

\* _time_delay_internal puts a task on the timeout queue and leaves all else but the
\* ready queues alone.
LEMMA DelayFrame ==
    ASSUME NEW k \in Kernel, NEW t \in Task, NEW n \in Int
    PROVE  LET v == time_delay_internal(k, t, n)
           IN  /\ v.TD_STATE = k.TD_STATE /\ v.INFO = k.INFO /\ v.QUEUE = k.QUEUE
               /\ v.MY_QUEUE = k.MY_QUEUE /\ v.HOME_QUEUE = k.HOME_QUEUE
               /\ v.BOOSTED = k.BOOSTED
               /\ v.ON_TIMEOUT_Q = k.ON_TIMEOUT_Q \cup {t}
<1> DEFINE f == [k.TIMEOUT EXCEPT ![t] = n]
           j == [k EXCEPT !.TIMEOUT = f]
           S == DELAY_ENQUEUE_POLICY(j, t)
           R == [j.READY_Q EXCEPT ![j.MY_QUEUE[t]] = Unlink(@, t)]
           u == [j EXCEPT !.READY_Q = R]
           q == InsertBefore(j.TIMEOUT_QUEUE, t, S)
           w == [u EXCEPT !.TIMEOUT_QUEUE = q, !.ON_TIMEOUT_Q = @ \cup {t}]
           v == time_delay_internal(k, t, n)
<1>1. /\ k.TIMEOUT \in [Task -> Int] /\ k.READY_Q \in [Priority -> Seq(Task)]
      /\ k.MY_QUEUE[t] \in Priority /\ k.TIMEOUT_QUEUE \in Seq(Task)
      /\ k.ON_TIMEOUT_Q \in SUBSET Task
  BY KernelFields
<1>2. f \in [Task -> Int]
  BY <1>1
<1>3. u = UnlinkReady(j, t)
  BY DEF UnlinkReady
<1>4. v = Dispatch(w)
  <2>1. v = Dispatch([UnlinkReady(j, t) EXCEPT
               !.TIMEOUT_QUEUE = InsertBefore(@, t, S), !.ON_TIMEOUT_Q = @ \cup {t}])
    BY DEF time_delay_internal
  <2>2. UnlinkReady(j, t).TIMEOUT_QUEUE = j.TIMEOUT_QUEUE
    BY <1>2, <1>3 DEF Kernel
  <2> QED
    BY <1>3, <2>1, <2>2
<1> HIDE DEF f
<1>5. /\ j \in Kernel /\ j.TD_STATE = k.TD_STATE /\ j.INFO = k.INFO /\ j.QUEUE = k.QUEUE
      /\ j.MY_QUEUE = k.MY_QUEUE /\ j.HOME_QUEUE = k.HOME_QUEUE /\ j.BOOSTED = k.BOOSTED
      /\ j.ON_TIMEOUT_Q = k.ON_TIMEOUT_Q /\ j.READY_Q = k.READY_Q
      /\ j.TIMEOUT_QUEUE = k.TIMEOUT_QUEUE
  BY <1>2 DEF Kernel
<1>6. R \in [Priority -> Seq(Task)] /\ q \in Seq(Task)
  BY <1>1, <1>5, UnlinkElems, InsertElems
<1> HIDE DEF R, j, q
<1>7. /\ w \in Kernel /\ w.TD_STATE = j.TD_STATE /\ w.INFO = j.INFO /\ w.QUEUE = j.QUEUE
      /\ w.MY_QUEUE = j.MY_QUEUE /\ w.HOME_QUEUE = j.HOME_QUEUE /\ w.BOOSTED = j.BOOSTED
      /\ w.ON_TIMEOUT_Q = j.ON_TIMEOUT_Q \cup {t}
  BY <1>1, <1>5, <1>6 DEF Kernel
<1> HIDE DEF w
<1>8. OnlySwitched(w, v)
  BY <1>4, <1>7, SwitchFrame
<1> QED
  BY <1>5, <1>7, <1>8 DEF OnlySwitched, v

\* The active task blocks on the wait queue of o with a timeout.
LEMMA TimedBlockWait ==
    ASSUME NEW k, KInv(k, {}), WaitInv(k), NEW t \in Task, t # Idle, IsReady(k, t),
           NEW o \in Queue, NEW st \in AuxStates, NEW q \in Seq(Task), NoDuplicates(q),
           Elems(q) = Elems(k.QUEUE[o]) \cup {t}, NEW n \in Int
    PROVE  LET v == time_delay_internal(Waiting(k, t, o, st, q), t, n)
           IN  /\ Consistent(v) /\ Joined(k, v, t, o, st, q)
               /\ v.ON_TIMEOUT_Q = k.ON_TIMEOUT_Q \cup {t}
<1> DEFINE j == Waiting(k, t, o, st, q)
           v == time_delay_internal(j, t, n)
<1>1. k \in Kernel /\ st \in State /\ st \in WaitStates
  BY States DEF KInv
<1>2. /\ j \in Kernel /\ Joined(k, j, t, o, st, q)
      /\ j.READY_Q = k.READY_Q /\ j.CURRENT_READY_Q = k.CURRENT_READY_Q
      /\ j.ON_TIMEOUT_Q = k.ON_TIMEOUT_Q /\ j.TIMEOUT_QUEUE = k.TIMEOUT_QUEUE
      /\ j.TIMEOUT = k.TIMEOUT
  BY <1>1, WaitingFields
<1> HIDE DEF j
<1>3. j.MY_QUEUE = k.MY_QUEUE /\ \A u \in Task \ {t} : j.TD_STATE[u] = k.TD_STATE[u]
  BY <1>1, <1>2, KernelFields DEF Joined
<1>4. KInv(v, {}) /\ TopRuns(v)
  BY <1>2, <1>3, TimeDelayInv
<1>5. /\ v.TD_STATE = j.TD_STATE /\ v.INFO = j.INFO /\ v.QUEUE = j.QUEUE
      /\ v.MY_QUEUE = j.MY_QUEUE /\ v.HOME_QUEUE = j.HOME_QUEUE /\ v.BOOSTED = j.BOOSTED
      /\ v.ON_TIMEOUT_Q = k.ON_TIMEOUT_Q \cup {t}
  BY <1>2, DelayFrame
<1> HIDE DEF v
<1>6. Joined(k, v, t, o, st, q)
  BY <1>2, <1>5 DEF Joined
<1>7. WaitInv(v)
  BY <1>1, <1>5, <1>6, JoinedWait
<1> QED
  BY <1>4, <1>5, <1>6, <1>7, TopIsRunning DEF Consistent, v, j

\* A ready task sleeps: it is on no wait queue then.
LEMMA DelayWait ==
    ASSUME NEW k, KInv(k, {}), WaitInv(k), NEW t \in Task, t # Idle, IsReady(k, t),
           NEW n \in Int
    PROVE  LET v == time_delay_internal(k, t, n)
           IN  /\ Consistent(v)
               /\ v.TD_STATE = k.TD_STATE /\ v.INFO = k.INFO /\ v.QUEUE = k.QUEUE
               /\ v.MY_QUEUE = k.MY_QUEUE /\ v.HOME_QUEUE = k.HOME_QUEUE
               /\ v.BOOSTED = k.BOOSTED
               /\ v.ON_TIMEOUT_Q = k.ON_TIMEOUT_Q \cup {t}
<1> DEFINE v == time_delay_internal(k, t, n)
<1>1. k \in Kernel
  BY DEF KInv
<1>2. KInv(v, {}) /\ TopRuns(v)
  BY <1>1, TimeDelayInv
<1>3. /\ v.TD_STATE = k.TD_STATE /\ v.INFO = k.INFO /\ v.QUEUE = k.QUEUE
      /\ v.MY_QUEUE = k.MY_QUEUE /\ v.HOME_QUEUE = k.HOME_QUEUE
      /\ v.BOOSTED = k.BOOSTED
      /\ v.ON_TIMEOUT_Q = k.ON_TIMEOUT_Q \cup {t}
  BY <1>1, DelayFrame
<1> HIDE DEF v
<1>4. WaitInv(v)
  BY <1>3, States DEF WaitInv, WaitQueuesOK, IsReady
<1> QED
  BY <1>2, <1>3, <1>4, TopIsRunning DEF Consistent, v

(***************************************************************************)
(* Readying waiting tasks.                                                  *)
(***************************************************************************)
\* The tasks of S have been readied: each is off the timeout queue too.
Readied(k, j, S) ==
    /\ j.TD_STATE = [t \in Task |-> IF t \in S THEN "READY" ELSE k.TD_STATE[t]]
    /\ j.ON_TIMEOUT_Q = k.ON_TIMEOUT_Q \ S
    /\ j.MY_QUEUE = k.MY_QUEUE /\ j.HOME_QUEUE = k.HOME_QUEUE /\ j.BOOSTED = k.BOOSTED

\* _QUEUE_DEQUEUE
LEMMA TailElems ==
    ASSUME NEW T, NEW q \in Seq(T), q # <<>>, NoDuplicates(q)
    PROVE  /\ Tail(q) \in Seq(T) /\ Head(q) \in T /\ Head(q) \in Elems(q)
           /\ Elems(Tail(q)) = Elems(q) \ {Head(q)}
           /\ NoDuplicates(Tail(q))
<1>1. /\ Len(q) \in Nat /\ Len(q) >= 1 /\ Head(q) = q[1]
      /\ Tail(q) \in Seq(T) /\ Len(Tail(q)) = Len(q) - 1
      /\ \A i \in 1 .. Len(Tail(q)) : Tail(q)[i] = q[i + 1]
  OBVIOUS
<1> DEFINE r == Tail(q)
<1> HIDE DEF r
<1>2. NoDuplicates(r)
  BY <1>1 DEF NoDuplicates, r
<1>3. \A x \in Elems(r) : x \in Elems(q) \ {Head(q)}
  BY <1>1 DEF Elems, NoDuplicates, r
<1>4. ASSUME NEW x \in Elems(q) \ {Head(q)}
      PROVE  x \in Elems(r)
  <2>1. PICK i \in 1 .. Len(q) : x = q[i]
    BY DEF Elems
  <2>2. i # 1 /\ i - 1 \in 1 .. Len(r) /\ r[i - 1] = q[(i - 1) + 1] /\ (i - 1) + 1 = i
    BY <1>1, <2>1 DEF r
  <2> QED
    BY <2>1, <2>2 DEF Elems
<1> QED
  BY <1>1, <1>2, <1>3, <1>4, EmptyQueue DEF r

\* _TASK_READY in full.
LEMMA TaskReadyFrame ==
    ASSUME NEW k \in Kernel, NEW t \in Task
    PROVE  LET v == TASK_READY(k, t)
           IN  /\ v.TD_STATE = [k.TD_STATE EXCEPT ![t] = "READY"]
               /\ v.ON_TIMEOUT_Q = k.ON_TIMEOUT_Q /\ v.ACTIVE_PTR = k.ACTIVE_PTR
               /\ v.QUEUE = k.QUEUE /\ v.INFO = k.INFO
               /\ v.MY_QUEUE = k.MY_QUEUE /\ v.HOME_QUEUE = k.HOME_QUEUE
               /\ v.BOOSTED = k.BOOSTED
<1> DEFINE c == IF k.MY_QUEUE[t] < k.CURRENT_READY_Q THEN k.MY_QUEUE[t]
                ELSE k.CURRENT_READY_Q
           D == [k.TD_STATE EXCEPT ![t] = "READY"]
           R == [k.READY_Q EXCEPT ![k.MY_QUEUE[t]] = Append(@, t)]
           C == [k.CURRENT_TIME_SLICE EXCEPT ![t] = 0]
           v == TASK_READY(k, t)
<1>1. v = [k EXCEPT !.CURRENT_READY_Q = c, !.TD_STATE = D, !.READY_Q = R,
                    !.CURRENT_TIME_SLICE = C]
  BY DEF TASK_READY, Kernel
<1> HIDE DEF c, D, R, C, v
<1>2. /\ v.TD_STATE = D
      /\ v.ON_TIMEOUT_Q = k.ON_TIMEOUT_Q /\ v.ACTIVE_PTR = k.ACTIVE_PTR
      /\ v.QUEUE = k.QUEUE /\ v.INFO = k.INFO
      /\ v.MY_QUEUE = k.MY_QUEUE /\ v.HOME_QUEUE = k.HOME_QUEUE
      /\ v.BOOSTED = k.BOOSTED
  BY <1>1 DEF Kernel
<1> QED
  BY <1>2 DEF v, D

\* _TIME_DEQUEUE in full; it leaves a task that waits on a queue as it is otherwise.
LEMMA TimeDequeueFrame ==
    ASSUME NEW k \in Kernel, NEW t \in Task, k.TD_STATE[t] # "READY"
    PROVE  LET v == TIME_DEQUEUE(k, t)
           IN  /\ v.TD_STATE = k.TD_STATE
               /\ v.ON_TIMEOUT_Q = k.ON_TIMEOUT_Q \ {t} /\ v.ACTIVE_PTR = k.ACTIVE_PTR
               /\ v.QUEUE = k.QUEUE /\ v.INFO = k.INFO
               /\ v.MY_QUEUE = k.MY_QUEUE /\ v.HOME_QUEUE = k.HOME_QUEUE
               /\ v.BOOSTED = k.BOOSTED
<1> DEFINE v == TIME_DEQUEUE(k, t)
           D == [k.TD_STATE EXCEPT ![t] = IF @ = "READY" THEN "BLOCKED" ELSE @]
           q == Unlink(k.TIMEOUT_QUEUE, t)
           f == [k.TIMEOUT EXCEPT ![t] = 0]
<1>1. D = k.TD_STATE
  BY KernelFields
<1>2. CASE t \in k.ON_TIMEOUT_Q
  <2>1. v = [k EXCEPT !.TIMEOUT_QUEUE = q, !.ON_TIMEOUT_Q = k.ON_TIMEOUT_Q \ {t},
                      !.TIMEOUT = f, !.TD_STATE = D]
    BY <1>2 DEF TIME_DEQUEUE
  <2> HIDE DEF v, D, q, f
  <2>2. /\ v.TD_STATE = D
        /\ v.ON_TIMEOUT_Q = k.ON_TIMEOUT_Q \ {t} /\ v.ACTIVE_PTR = k.ACTIVE_PTR
        /\ v.QUEUE = k.QUEUE /\ v.INFO = k.INFO
        /\ v.MY_QUEUE = k.MY_QUEUE /\ v.HOME_QUEUE = k.HOME_QUEUE
        /\ v.BOOSTED = k.BOOSTED
    BY <2>1 DEF Kernel
  <2> QED
    BY <1>1, <2>2 DEF v
<1>3. CASE t \notin k.ON_TIMEOUT_Q
  <2>1. v = k /\ k.ON_TIMEOUT_Q = k.ON_TIMEOUT_Q \ {t}
    BY <1>3 DEF TIME_DEQUEUE
  <2> QED
    BY <2>1
<1> QED
  BY <1>2, <1>3

\* The first waiter of o is taken off its queues, told so in INFO, and readied.
HandedOver(k, o, i) ==
    LET t == Head(k.QUEUE[o])
        j == TIME_DEQUEUE([k EXCEPT !.QUEUE[o] = Tail(@)], t)
    IN  TASK_READY([j EXCEPT !.INFO[t] = i], t)

\* The first waiter of o in k is ready in j, and has i in INFO.
FirstReadied(k, j, o, i) ==
    LET t == Head(k.QUEUE[o])
    IN  /\ t \in Task /\ t \in Elems(k.QUEUE[o])
        /\ k.TD_STATE[t] \in WaitStates /\ k.INFO[t] = o
        /\ Readied(k, j, {t}) /\ j.ACTIVE_PTR = k.ACTIVE_PTR
        /\ j.QUEUE = [k.QUEUE EXCEPT ![o] = Tail(@)]
        /\ j.INFO = [k.INFO EXCEPT ![t] = i]

\* That leaves the kernel in order.
LEMMA HandOverWait ==
    ASSUME NEW k, Unscheduled(k), NEW o \in Queue, k.QUEUE[o] # <<>>, NEW i \in Info
    PROVE  Unscheduled(HandedOver(k, o, i)) /\ FirstReadied(k, HandedOver(k, o, i), o, i)
<1> DEFINE t == Head(k.QUEUE[o])
           W == [k.QUEUE EXCEPT ![o] = Tail(@)]
           g == [k EXCEPT !.QUEUE = W]
           j == TIME_DEQUEUE(g, t)
           I == [j.INFO EXCEPT ![t] = i]
           h == [j EXCEPT !.INFO = I]
           v == TASK_READY(h, t)
<1>1. /\ k \in Kernel /\ k.QUEUE \in [Queue -> Seq(Task)] /\ k.QUEUE[o] \in Seq(Task)
      /\ k.TD_STATE \in [Task -> State] /\ k.INFO \in [Task -> Info]
      /\ k.ON_TIMEOUT_Q \in SUBSET Task /\ k.ACTIVE_PTR \in Task
  BY KernelFields DEF Unscheduled, KInv
<1>2. NoDuplicates(k.QUEUE[o])
  BY DEF Unscheduled, WaitInv, WaitQueuesOK
<1>3. /\ Tail(k.QUEUE[o]) \in Seq(Task) /\ t \in Task /\ t \in Elems(k.QUEUE[o])
      /\ Elems(Tail(k.QUEUE[o])) = Elems(k.QUEUE[o]) \ {t}
      /\ NoDuplicates(Tail(k.QUEUE[o]))
  BY <1>1, <1>2, TailElems
<1> HIDE DEF t
<1>4. k.TD_STATE[t] \in WaitStates /\ k.INFO[t] = o
  BY <1>3 DEF Unscheduled, WaitInv, WaitQueuesOK, WaitStates
<1>5. W \in [Queue -> Seq(Task)]
  BY <1>1, <1>3
<1> HIDE DEF W
<1>6. /\ g \in Kernel
      /\ g.READY_Q = k.READY_Q /\ g.CURRENT_READY_Q = k.CURRENT_READY_Q
      /\ g.MY_QUEUE = k.MY_QUEUE /\ g.TD_STATE = k.TD_STATE
      /\ g.ON_TIMEOUT_Q = k.ON_TIMEOUT_Q /\ g.TIMEOUT_QUEUE = k.TIMEOUT_QUEUE
      /\ g.TIMEOUT = k.TIMEOUT /\ g.ACTIVE_PTR = k.ACTIVE_PTR /\ g.QUEUE = W
      /\ g.INFO = k.INFO /\ g.HOME_QUEUE = k.HOME_QUEUE /\ g.BOOSTED = k.BOOSTED
  BY <1>1, <1>5 DEF Kernel
<1>7. KInv(g, {}) /\ \A u \in Task : IsReady(g, u) <=> IsReady(k, u)
  BY <1>6, Frame DEF Unscheduled
<1> HIDE DEF g
<1>8. g.TD_STATE[t] # "READY"
  BY <1>4, <1>6, States
<1>9. /\ j.TD_STATE = k.TD_STATE
      /\ j.ON_TIMEOUT_Q = k.ON_TIMEOUT_Q \ {t} /\ j.ACTIVE_PTR = k.ACTIVE_PTR
      /\ j.QUEUE = W /\ j.INFO = k.INFO
      /\ j.MY_QUEUE = k.MY_QUEUE /\ j.HOME_QUEUE = k.HOME_QUEUE
      /\ j.BOOSTED = k.BOOSTED
  BY <1>3, <1>6, <1>8, TimeDequeueFrame
<1>10. KInv(j, {}) /\ \A u \in Task : IsReady(j, u) <=> IsReady(g, u)
  BY <1>3, <1>7, TimeDequeueInv
<1> HIDE DEF j
<1>11. I \in [Task -> Info] /\ I = [k.INFO EXCEPT ![t] = i]
  BY <1>1, <1>9
<1> HIDE DEF I
<1>12. /\ h \in Kernel
       /\ h.READY_Q = j.READY_Q /\ h.CURRENT_READY_Q = j.CURRENT_READY_Q
       /\ h.MY_QUEUE = j.MY_QUEUE /\ h.TD_STATE = j.TD_STATE
       /\ h.ON_TIMEOUT_Q = j.ON_TIMEOUT_Q /\ h.TIMEOUT_QUEUE = j.TIMEOUT_QUEUE
       /\ h.TIMEOUT = j.TIMEOUT /\ h.ACTIVE_PTR = j.ACTIVE_PTR /\ h.QUEUE = j.QUEUE
       /\ h.INFO = I /\ h.HOME_QUEUE = j.HOME_QUEUE /\ h.BOOSTED = j.BOOSTED
  BY <1>10, <1>11 DEF KInv, Kernel
<1>13. KInv(h, {}) /\ \A u \in Task : IsReady(h, u) <=> IsReady(j, u)
  BY <1>10, <1>12, Frame
<1> HIDE DEF h
<1>14. t \notin h.ON_TIMEOUT_Q /\ h.TD_STATE[t] # "READY"
  BY <1>6, <1>8, <1>9, <1>12
<1>15. /\ KInv(v, {} \ {t})
       /\ \A u \in Task : IsReady(v, u) <=> u = t \/ IsReady(h, u)
  BY <1>3, <1>13, <1>14, TaskReadyInv, Zenon
<1>16. KInv(v, {})
  <2>1. {} \ {t} = {}
    OBVIOUS
  <2> QED
    BY <1>15, <2>1
<1>17. /\ v.TD_STATE = [h.TD_STATE EXCEPT ![t] = "READY"]
       /\ v.ON_TIMEOUT_Q = h.ON_TIMEOUT_Q /\ v.ACTIVE_PTR = h.ACTIVE_PTR
       /\ v.QUEUE = h.QUEUE /\ v.INFO = h.INFO
       /\ v.MY_QUEUE = h.MY_QUEUE /\ v.HOME_QUEUE = h.HOME_QUEUE
       /\ v.BOOSTED = h.BOOSTED
  BY <1>3, <1>12, TaskReadyFrame
<1> HIDE DEF v
<1>18. v.TD_STATE = [u \in Task |-> IF u \in {t} THEN "READY" ELSE k.TD_STATE[u]]
  BY <1>1, <1>9, <1>12, <1>17
<1>19. /\ Readied(k, v, {t}) /\ v.QUEUE = W /\ v.INFO = I
       /\ v.ACTIVE_PTR = k.ACTIVE_PTR
  BY <1>6, <1>9, <1>12, <1>17, <1>18 DEF Readied
<1>20. WaitInv(v)
  <2>1. ASSUME NEW p \in Queue
        PROVE  NoDuplicates(W[p]) /\ Elems(W[p]) = Elems(k.QUEUE[p]) \ {t}
    <3>1. CASE p = o
      BY <1>1, <1>3, <3>1 DEF W
    <3>2. CASE p # o
      <4>1. W[p] = k.QUEUE[p] /\ t \notin Elems(k.QUEUE[p])
        BY <1>1, <1>3, <1>4, <3>2 DEF W, Unscheduled, WaitInv, WaitQueuesOK
      <4> QED
        BY <4>1 DEF Unscheduled, WaitInv, WaitQueuesOK
    <3> QED
      BY <3>1, <3>2
  <2>2. \A u \in Task : /\ u \in {t} => v.TD_STATE[u] = "READY"
                        /\ u \notin {t} => v.TD_STATE[u] = k.TD_STATE[u] /\ v.INFO[u] = k.INFO[u]
    BY <1>1, <1>11, <1>18, <1>19
  <2>3. v.ON_TIMEOUT_Q \subseteq k.ON_TIMEOUT_Q \ {t}
    BY <1>19 DEF Readied
  <2>4. /\ WaitInv(k) /\ k.ON_TIMEOUT_Q \subseteq Task
        /\ \A p \in Queue : /\ NoDuplicates(v.QUEUE[p])
                            /\ Elems(v.QUEUE[p]) = Elems(k.QUEUE[p]) \ {t}
    BY <1>1, <1>19, <2>1 DEF Unscheduled
  <2>5. LeftWait(k, v, {t})
    BY <2>2, <2>3, <2>4 DEF LeftWait
  <2> QED
    BY <2>4, <2>5, LeaveWait
<1>21. Unscheduled(v)
  <2>1. IsReady(v, v.ACTIVE_PTR)
    BY <1>1, <1>7, <1>10, <1>13, <1>15, <1>19 DEF Unscheduled, Readied
  <2> QED
    BY <1>16, <1>20, <2>1 DEF Unscheduled
<1>22. v = HandedOver(k, o, i)
  BY DEF v, h, j, g, I, W, t, HandedOver
<1> QED
  BY <1>3, <1>4, <1>11, <1>19, <1>21, <1>22 DEF t, W, FirstReadied

\* _TASK_READY for all tasks of a sequence, in full.
LEMMA ReadyAllFrame ==
    ASSUME NEW k \in Kernel, NEW s \in Seq(Task)
    PROVE  LET v == ReadyAll(k, s)
           IN  /\ v.TD_STATE = [t \in Task |-> IF t \in Elems(s) THEN "READY"
                                               ELSE k.TD_STATE[t]]
               /\ v.ON_TIMEOUT_Q = k.ON_TIMEOUT_Q /\ v.ACTIVE_PTR = k.ACTIVE_PTR
               /\ v.QUEUE = k.QUEUE /\ v.INFO = k.INFO
               /\ v.MY_QUEUE = k.MY_QUEUE /\ v.HOME_QUEUE = k.HOME_QUEUE
               /\ v.BOOSTED = k.BOOSTED
<1> DEFINE M == {k.CURRENT_READY_Q} \cup {k.MY_QUEUE[t] : t \in Elems(s)}
           c == CHOOSE p \in M : \A r \in M : p <= r
           D == [t \in Task |-> IF t \in Elems(s) THEN "READY" ELSE k.TD_STATE[t]]
           R == [p \in Priority |->
                    k.READY_Q[p] \o Keep(s, {t \in Task : k.MY_QUEUE[t] = p})]
           C == [t \in Task |-> IF t \in Elems(s) THEN 0 ELSE k.CURRENT_TIME_SLICE[t]]
           v == ReadyAll(k, s)
<1>1. v = [k EXCEPT !.CURRENT_READY_Q = c, !.TD_STATE = D, !.READY_Q = R,
                    !.CURRENT_TIME_SLICE = C]
  BY DEF ReadyAll
<1> HIDE DEF c, D, R, C, v
<1>2. /\ v.TD_STATE = D
      /\ v.ON_TIMEOUT_Q = k.ON_TIMEOUT_Q /\ v.ACTIVE_PTR = k.ACTIVE_PTR
      /\ v.QUEUE = k.QUEUE /\ v.INFO = k.INFO
      /\ v.MY_QUEUE = k.MY_QUEUE /\ v.HOME_QUEUE = k.HOME_QUEUE
      /\ v.BOOSTED = k.BOOSTED
  BY <1>1 DEF Kernel
<1> QED
  BY <1>2 DEF v, D

\* j: the tasks of the sequence s, none of them ready, have been taken off the wait
\* queues and the timeout queue of k.
Released(k, j, s) ==
    /\ j \in Kernel /\ s \in Seq(Task) /\ NoDuplicates(s)
    /\ \A t \in Elems(s) : ~IsReady(k, t)
    /\ j.READY_Q = k.READY_Q /\ j.CURRENT_READY_Q = k.CURRENT_READY_Q
    /\ j.TD_STATE = k.TD_STATE /\ j.ACTIVE_PTR = k.ACTIVE_PTR
    /\ j.MY_QUEUE = k.MY_QUEUE /\ j.HOME_QUEUE = k.HOME_QUEUE /\ j.BOOSTED = k.BOOSTED
    /\ j.ON_TIMEOUT_Q = k.ON_TIMEOUT_Q \ Elems(s)
    /\ TimeoutQueueOK(j)
    /\ \A o \in Queue : /\ NoDuplicates(j.QUEUE[o])
                        /\ Elems(j.QUEUE[o]) = Elems(k.QUEUE[o]) \ Elems(s)
    /\ \A t \in Task : t \notin Elems(s) => j.INFO[t] = k.INFO[t]

\* Readying them in that order leaves the kernel in order.
LEMMA ReleaseWait ==
    ASSUME NEW k, Unscheduled(k), NEW j, NEW s, Released(k, j, s)
    PROVE  LET v == ReadyAll(j, s)
           IN  /\ Unscheduled(v) /\ Readied(k, v, Elems(s)) /\ v.ACTIVE_PTR = k.ACTIVE_PTR
               /\ v.QUEUE = j.QUEUE /\ v.INFO = j.INFO
<1> DEFINE v == ReadyAll(j, s)
           S == Elems(s)
<1>1. /\ k \in Kernel /\ k.ON_TIMEOUT_Q \in SUBSET Task /\ k.ACTIVE_PTR \in Task
      /\ k.TD_STATE \in [Task -> State]
  BY KernelFields DEF Unscheduled, KInv
<1>2. j \in Kernel /\ s \in Seq(Task) /\ NoDuplicates(s) /\ S \subseteq Task
  BY EmptyQueue DEF Released
<1>3. \A u \in Task : IsReady(k, u) <=> IsReady(j, u) /\ u \notin S
  BY DEF Released, IsReady
<1>4. KInv(j, S)
  <2>1. ReadyExcept(j, S)
    BY <1>3 DEF Released, Unscheduled, KInv, ReadyExcept
  <2>2. HintOK(j)
    BY DEF Released, Unscheduled, KInv, HintOK
  <2>3. IdleOK(j, S)
    BY <1>3, KernelAssumption DEF Released, Unscheduled, KInv, IdleOK
  <2> QED
    BY <2>1, <2>2, <2>3 DEF Released, KInv
<1>5. S \cap j.ON_TIMEOUT_Q = {}
  BY DEF Released
<1>6. KInv(v, {}) /\ \A u \in Task : IsReady(v, u) <=> u \in S \/ IsReady(j, u)
  BY <1>2, <1>4, <1>5, ReadyAllInv
<1>7. /\ v.TD_STATE = [t \in Task |-> IF t \in S THEN "READY" ELSE j.TD_STATE[t]]
      /\ v.ON_TIMEOUT_Q = j.ON_TIMEOUT_Q /\ v.ACTIVE_PTR = j.ACTIVE_PTR
      /\ v.QUEUE = j.QUEUE /\ v.INFO = j.INFO
      /\ v.MY_QUEUE = j.MY_QUEUE /\ v.HOME_QUEUE = j.HOME_QUEUE
      /\ v.BOOSTED = j.BOOSTED
  BY <1>2, ReadyAllFrame
<1> HIDE DEF v
<1>8. Readied(k, v, S) /\ v.ACTIVE_PTR = k.ACTIVE_PTR
  BY <1>7 DEF Readied, Released
<1>9. LeftWait(k, v, S)
  <2>1. \A t \in Task : /\ t \in S => v.TD_STATE[t] = "READY"
                        /\ t \notin S => /\ v.TD_STATE[t] = k.TD_STATE[t]
                                         /\ v.INFO[t] = k.INFO[t]
    BY <1>7 DEF Released
  <2>2. \A o \in Queue : /\ NoDuplicates(v.QUEUE[o])
                         /\ Elems(v.QUEUE[o]) = Elems(k.QUEUE[o]) \ S
    BY <1>7 DEF Released
  <2> QED
    BY <1>1, <1>8, <2>1, <2>2 DEF LeftWait, Readied
<1>10. WaitInv(v)
  BY <1>9, LeaveWait DEF Unscheduled
<1>11. IsReady(v, v.ACTIVE_PTR)
  BY <1>1, <1>3, <1>6, <1>8 DEF Readied, Unscheduled
<1> QED
  BY <1>6, <1>7, <1>8, <1>10, <1>11 DEF Unscheduled, v

\* The timeout queue without the tasks of S is exact and sorted.
LEMMA KeepTimeout ==
    ASSUME NEW k, KInv(k, {}), NEW S \in SUBSET Task, NEW j,
           j.TIMEOUT_QUEUE = Keep(k.TIMEOUT_QUEUE, Task \ S),
           j.ON_TIMEOUT_Q = k.ON_TIMEOUT_Q \ S,
           \A t \in Task \ S : j.TIMEOUT[t] = k.TIMEOUT[t]
    PROVE  TimeoutQueueOK(j) /\ j.TIMEOUT_QUEUE \in Seq(Task)
<1> DEFINE q == k.TIMEOUT_QUEUE
<1>1. q \in Seq(Task) /\ k.ON_TIMEOUT_Q \in SUBSET Task
  BY KernelFields DEF KInv
<1>2. NoDuplicates(q) /\ Elems(q) = k.ON_TIMEOUT_Q /\ Sorted(q, k.TIMEOUT)
  BY TimeoutSorted DEF KInv
<1>3. /\ Keep(q, Task \ S) \in Seq(Task) /\ NoDuplicates(Keep(q, Task \ S))
      /\ Elems(Keep(q, Task \ S)) = Elems(q) \cap (Task \ S)
  BY <1>1, <1>2, KeepElems
<1>4. Sorted(Keep(q, Task \ S), j.TIMEOUT)
  <2>1. \A x \in Elems(q) \cap (Task \ S) : j.TIMEOUT[x] = k.TIMEOUT[x]
    OBVIOUS
  <2> QED
    BY <1>1, <1>2, <2>1, KeepSorted
<1>5. Elems(Keep(q, Task \ S)) = k.ON_TIMEOUT_Q \ S
  BY <1>1, <1>2, <1>3
<1> QED
  BY <1>3, <1>4, <1>5, TimeoutSorted

\* The loop of the destroy functions.
LEMMA ReleaseAllWait ==
    ASSUME NEW k, Unscheduled(k), NEW o \in Queue
    PROVE  LET v == ReleaseAll(k, o)
           IN  /\ Unscheduled(v) /\ Readied(k, v, Elems(k.QUEUE[o]))
               /\ v.ACTIVE_PTR = k.ACTIVE_PTR
               /\ v.QUEUE = [k.QUEUE EXCEPT ![o] = <<>>] /\ v.INFO = k.INFO
<1> DEFINE s == k.QUEUE[o]
           S == Elems(s)
           W == [k.QUEUE EXCEPT ![o] = <<>>]
           q == Keep(k.TIMEOUT_QUEUE, Task \ S)
           f == [t \in Task |-> IF t \in S THEN 0 ELSE k.TIMEOUT[t]]
           j == [k EXCEPT !.QUEUE = W, !.TIMEOUT_QUEUE = q,
                          !.ON_TIMEOUT_Q = k.ON_TIMEOUT_Q \ S, !.TIMEOUT = f]
<1>1. /\ k \in Kernel /\ KInv(k, {}) /\ WaitQueuesOK(k, {})
      /\ k.QUEUE \in [Queue -> Seq(Task)] /\ s \in Seq(Task)
      /\ k.TIMEOUT \in [Task -> Int] /\ k.ON_TIMEOUT_Q \in SUBSET Task
      /\ k.TIMEOUT_QUEUE \in Seq(Task)
  BY KernelFields DEF Unscheduled, KInv, WaitInv
<1>2. NoDuplicates(s) /\ S \in SUBSET Task
  BY <1>1, EmptyQueue DEF WaitQueuesOK
<1>3. \A t \in S : ~IsReady(k, t)
  BY <1>1, <1>2, States DEF WaitQueuesOK, WaitStates, IsReady
<1>4. W \in [Queue -> Seq(Task)] /\ f \in [Task -> Int] /\ q \in Seq(Task)
  BY <1>1, KeepElems
<1>5. ReleaseAll(k, o) = ReadyAll(j, s)
  BY DEF ReleaseAll
<1>6. \A t \in Task \ S : f[t] = k.TIMEOUT[t]
  OBVIOUS
<1> HIDE DEF W, f, q
<1>7. /\ j \in Kernel
      /\ j.READY_Q = k.READY_Q /\ j.CURRENT_READY_Q = k.CURRENT_READY_Q
      /\ j.TD_STATE = k.TD_STATE /\ j.ACTIVE_PTR = k.ACTIVE_PTR
      /\ j.MY_QUEUE = k.MY_QUEUE /\ j.HOME_QUEUE = k.HOME_QUEUE /\ j.BOOSTED = k.BOOSTED
      /\ j.ON_TIMEOUT_Q = k.ON_TIMEOUT_Q \ S /\ j.TIMEOUT_QUEUE = q /\ j.TIMEOUT = f
      /\ j.QUEUE = W /\ j.INFO = k.INFO
  BY <1>1, <1>4 DEF Kernel
<1> HIDE DEF j
<1>8. TimeoutQueueOK(j)
  <2>1. \A t \in Task \ S : j.TIMEOUT[t] = k.TIMEOUT[t]
    BY <1>6, <1>7
  <2>2. j.TIMEOUT_QUEUE = Keep(k.TIMEOUT_QUEUE, Task \ S) /\ j.ON_TIMEOUT_Q = k.ON_TIMEOUT_Q \ S
    BY <1>7 DEF q
  <2> HIDE DEF S
  <2> QED
    BY <1>1, <1>2, <2>1, <2>2, KeepTimeout
<1>9. ASSUME NEW p \in Queue
      PROVE  NoDuplicates(W[p]) /\ Elems(W[p]) = Elems(k.QUEUE[p]) \ S
  <2>1. CASE p = o
    <3>1. W[p] = <<>>
      BY <1>1, <2>1 DEF W
    <3> QED
      BY <2>1, <3>1 DEF Elems, NoDuplicates
  <2>2. CASE p # o
    <3>1. W[p] = k.QUEUE[p] /\ NoDuplicates(k.QUEUE[p])
      BY <1>1, <2>2 DEF W, WaitQueuesOK
    <3>2. \A t \in Task : t \in S => k.INFO[t] = o
      BY <1>1 DEF WaitQueuesOK
    <3>3. \A t \in Task : t \in Elems(k.QUEUE[p]) => k.INFO[t] = p
      BY <1>1 DEF WaitQueuesOK
    <3>4. \A t \in S : t \notin Elems(k.QUEUE[p])
      BY <1>2, <2>2, <3>2, <3>3
    <3> QED
      BY <3>1, <3>4
  <2> QED
    BY <2>1, <2>2
<1>10. Released(k, j, s)
  BY <1>1, <1>2, <1>3, <1>7, <1>8, <1>9 DEF Released
<1> QED
  BY <1>5, <1>7, <1>10, ReleaseWait DEF W

(***************************************************************************)
(* The timer interrupt.                                                     *)
(***************************************************************************)
\* The tasks of S, all delayed, have timed out: a waiting one has left its wait queue,
\* with INFO still naming it.
TimedOut(k, j, S) ==
    /\ S \subseteq k.ON_TIMEOUT_Q
    /\ Readied(k, j, S)
    /\ j.INFO = k.INFO
    /\ j.QUEUE = LeaveAuxQueues(k, S)

\* The wait queues without the tasks that have timed out.
LEMMA LeaveAuxElems ==
    ASSUME NEW k, k \in Kernel, WaitInv(k), NEW S \in SUBSET k.ON_TIMEOUT_Q
    PROVE  LET W == LeaveAuxQueues(k, S)
           IN  \A o \in Queue : /\ W[o] \in Seq(Task) /\ NoDuplicates(W[o])
                                /\ Elems(W[o]) = Elems(k.QUEUE[o]) \ S
<1> DEFINE W == LeaveAuxQueues(k, S)
<1> SUFFICES ASSUME NEW o \in Queue
             PROVE  /\ W[o] \in Seq(Task) /\ NoDuplicates(W[o])
                    /\ Elems(W[o]) = Elems(k.QUEUE[o]) \ S
  OBVIOUS
<1> DEFINE X == {t \in S : k.TD_STATE[t] \in AuxStates /\ k.INFO[t] = o}
<1>1. W[o] = Keep(k.QUEUE[o], Task \ X)
  BY DEF LeaveAuxQueues
<1>2. k.QUEUE[o] \in Seq(Task) /\ k.ON_TIMEOUT_Q \in SUBSET Task
  BY KernelFields
<1>3. NoDuplicates(k.QUEUE[o]) /\ Elems(k.QUEUE[o]) \subseteq Task
  BY <1>2, EmptyQueue DEF WaitInv, WaitQueuesOK
<1>4. \A t \in Elems(k.QUEUE[o]) : t \in S <=> t \in X
  BY <1>3 DEF WaitInv, WaitQueuesOK
<1>5. /\ W[o] \in Seq(Task) /\ NoDuplicates(W[o])
      /\ Elems(W[o]) = Elems(k.QUEUE[o]) \cap (Task \ X)
  BY <1>1, <1>2, <1>3, KeepElems
<1> QED
  BY <1>3, <1>4, <1>5

\* The loop over the timeout queue.
LEMMA ExpireFrame ==
    ASSUME NEW k, KInv(k, {})
    PROVE  \E S \in SUBSET k.ON_TIMEOUT_Q : TimedOut(k, Expire(k), S)
<1> DEFINE q == k.TIMEOUT_QUEUE
           n == CHOOSE i \in 0 .. Len(q) :
                   /\ \A j \in 1 .. i : Due(k, q[j])
                   /\ i < Len(q) => ~Due(k, q[i + 1])
           s == SubSeq(q, 1, n)
           r == SubSeq(q, n + 1, Len(q))
           S == Elems(s)
           f == [t \in Task |-> IF t \in S THEN 0 ELSE k.TIMEOUT[t]]
           W == LeaveAuxQueues(k, S)
           j == [k EXCEPT !.TIMEOUT_QUEUE = r, !.ON_TIMEOUT_Q = k.ON_TIMEOUT_Q \ S,
                          !.TIMEOUT = f, !.QUEUE = W]
           v == Expire(k)
<1>1. /\ k \in Kernel /\ q \in Seq(Task) /\ k.TIMEOUT \in [Task -> Int]
      /\ k.ON_TIMEOUT_Q \in SUBSET Task
  BY KernelFields DEF KInv
<1>2. n \in 0 .. Len(q)
  BY <1>1, DuePrefix
<1>3. v = ReadyAll(j, s)
  BY DEF Expire
<1> HIDE DEF n, v
<1>4. NoDuplicates(q) /\ Elems(q) = k.ON_TIMEOUT_Q /\ Sorted(q, k.TIMEOUT)
  BY <1>1, TimeoutSorted DEF KInv
<1>5. s \in Seq(Task) /\ r \in Seq(Task) /\ Elems(s) \cup Elems(r) = Elems(q)
  BY <1>1, <1>2, <1>4, SplitElems
<1>6. f \in [Task -> Int]
  BY <1>1
<1>7. S \in SUBSET k.ON_TIMEOUT_Q
  BY <1>4, <1>5
<1> HIDE DEF s, r, f
<1>8. W \in [Queue -> Seq(Task)]
  BY <1>1, LeaveAuxQueuesType
<1> HIDE DEF W
<1>9. /\ j \in Kernel
      /\ j.TD_STATE = k.TD_STATE
      /\ j.MY_QUEUE = k.MY_QUEUE /\ j.HOME_QUEUE = k.HOME_QUEUE /\ j.BOOSTED = k.BOOSTED
      /\ j.ON_TIMEOUT_Q = k.ON_TIMEOUT_Q \ S /\ j.QUEUE = W /\ j.INFO = k.INFO
  BY <1>1, <1>5, <1>6, <1>8 DEF Kernel
<1> HIDE DEF j
<1>10. /\ v.TD_STATE = [t \in Task |-> IF t \in S THEN "READY" ELSE j.TD_STATE[t]]
       /\ v.ON_TIMEOUT_Q = j.ON_TIMEOUT_Q /\ v.QUEUE = j.QUEUE /\ v.INFO = j.INFO
       /\ v.MY_QUEUE = j.MY_QUEUE /\ v.HOME_QUEUE = j.HOME_QUEUE
       /\ v.BOOSTED = j.BOOSTED
  BY <1>3, <1>5, <1>9, ReadyAllFrame
<1>11. TimedOut(k, v, S)
  BY <1>7, <1>9, <1>10 DEF TimedOut, Readied, W
<1> QED
  BY <1>7, <1>11 DEF v

\* Round robin moves tasks within the ready queues only.
LEMMA TimeSliceFrame ==
    ASSUME NEW k, KInv(k, {}), IsReady(k, k.ACTIVE_PTR)
    PROVE  OnlySwitched(k, TimeSlice(k))
<1> DEFINE t == k.ACTIVE_PTR
           used == k.CURRENT_TIME_SLICE[t] + 1
           C == [k.CURRENT_TIME_SLICE EXCEPT ![t] =
                    IF used > MaxTimeSlice THEN MaxTimeSlice ELSE used]
           u == UnlinkReady(k, t)
           r == TASK_READY(u, t)
<1>1. k \in Kernel /\ t \in Task /\ k.TD_STATE \in [Task -> State] /\ k.TD_STATE[t] = "READY"
  BY KernelFields DEF KInv, IsReady
<1>2. OnlySwitched(k, u) /\ u \in Kernel
  <2>1. KInv(u, {t})
    BY <1>1, UnlinkReadyInv
  <2> QED
    BY <1>1, <2>1, UnlinkFrame DEF KInv
<1>3. OnlySwitched(k, r)
  <2> HIDE DEF u
  <2>1. /\ r.TD_STATE = [u.TD_STATE EXCEPT ![t] = "READY"]
        /\ r.ON_TIMEOUT_Q = u.ON_TIMEOUT_Q
        /\ r.QUEUE = u.QUEUE /\ r.INFO = u.INFO
        /\ r.MY_QUEUE = u.MY_QUEUE /\ r.HOME_QUEUE = u.HOME_QUEUE
        /\ r.BOOSTED = u.BOOSTED
    BY <1>1, <1>2, TaskReadyFrame
  <2>2. [k.TD_STATE EXCEPT ![t] = "READY"] = k.TD_STATE
    BY <1>1
  <2> QED
    BY <1>2, <2>1, <2>2 DEF OnlySwitched
<1>4. OnlySwitched(k, [k EXCEPT !.CURRENT_TIME_SLICE = C])
  <2> HIDE DEF C
  <2> QED
    BY <1>1 DEF OnlySwitched, Kernel
<1>5. OnlySwitched(k, k)
  BY DEF OnlySwitched
<1>6. TimeSlice(k) \in {k, r, [k EXCEPT !.CURRENT_TIME_SLICE = C]}
  BY DEF TimeSlice
<1> QED
  BY <1>3, <1>4, <1>5, <1>6

\* What the timer interrupt, from _time_notify_kernel to the return from it, changes.
LEMMA TickFrame ==
    ASSUME NEW k, KInv(k, {}), IsReady(k, k.ACTIVE_PTR)
    PROVE  \E S \in SUBSET k.ON_TIMEOUT_Q :
               TimedOut(k, IsrReturn(time_notify_kernel(k)), S)
<1> DEFINE f == [t \in Task |-> IF t \in k.ON_TIMEOUT_Q THEN k.TIMEOUT[t] - 1
                                                        ELSE k.TIMEOUT[t]]
           i == IncTime(k)
           e == Expire(i)
           s == TimeSlice(e)
           v == IsrReturn(s)
<1>1. k \in Kernel /\ k.ACTIVE_PTR \in Task
  BY KernelFields DEF KInv
<1>2. OnlySwitched(k, i)
  <2>1. i = [k EXCEPT !.TIMEOUT = f]
    BY DEF IncTime
  <2> HIDE DEF i, f
  <2> QED
    BY <1>1, <2>1 DEF OnlySwitched, Kernel
<1>3. KInv(i, {}) /\ i.ACTIVE_PTR = k.ACTIVE_PTR /\ IsReady(i, k.ACTIVE_PTR)
  BY <1>1, IncTimeInv
<1> HIDE DEF i
<1>4. PICK S \in SUBSET i.ON_TIMEOUT_Q : TimedOut(i, e, S)
  BY <1>3, ExpireFrame
<1>5. KInv(e, {}) /\ IsReady(e, e.ACTIVE_PTR)
  BY <1>1, <1>3, ExpireInv
<1> HIDE DEF e
<1>6. OnlySwitched(e, s)
  BY <1>5, TimeSliceFrame
<1>7. s \in Kernel
  BY <1>5, TimeSliceInv DEF KInv
<1> HIDE DEF s
<1>8. OnlySwitched(s, v)
  BY <1>7, SwitchFrame
<1> HIDE DEF v
<1>9. LeaveAuxQueues(i, S) = LeaveAuxQueues(k, S)
  BY <1>2 DEF LeaveAuxQueues, OnlySwitched
<1>10. S \in SUBSET k.ON_TIMEOUT_Q /\ TimedOut(k, v, S)
  BY <1>2, <1>4, <1>6, <1>8, <1>9 DEF TimedOut, Readied, OnlySwitched
<1>11. v = IsrReturn(time_notify_kernel(k))
  BY DEF v, s, e, i, time_notify_kernel
<1> QED
  BY <1>10, <1>11

\* The timer interrupt keeps the wait queues exact.
LEMMA TickWait ==
    ASSUME NEW k, Unscheduled(k)
    PROVE  LET v == IsrReturn(time_notify_kernel(k))
           IN  /\ Consistent(v)
               /\ \E S \in SUBSET k.ON_TIMEOUT_Q : TimedOut(k, v, S)
<1> DEFINE v == IsrReturn(time_notify_kernel(k))
<1>1. k \in Kernel /\ KInv(k, {}) /\ IsReady(k, k.ACTIVE_PTR) /\ WaitInv(k)
  BY DEF Unscheduled, KInv
<1>2. k.ON_TIMEOUT_Q \in SUBSET Task
  BY <1>1, KernelFields
<1>3. KInv(v, {}) /\ RunningOK(v)
  BY <1>1, TickInv
<1>4. PICK S \in SUBSET k.ON_TIMEOUT_Q : TimedOut(k, v, S)
  BY <1>1, TickFrame
<1> HIDE DEF v
<1>5. \A o \in Queue : /\ NoDuplicates(v.QUEUE[o])
                       /\ Elems(v.QUEUE[o]) = Elems(k.QUEUE[o]) \ S
  <2>1. v.QUEUE = LeaveAuxQueues(k, S)
    BY <1>4 DEF TimedOut
  <2> QED
    BY <1>1, <2>1, LeaveAuxElems, SMTT(30)
<1>6. LeftWait(k, v, S)
  BY <1>2, <1>4, <1>5 DEF TimedOut, Readied, LeftWait
<1>7. WaitInv(v)
  BY <1>1, <1>6, LeaveWait
<1> QED
  BY <1>3, <1>4, <1>7 DEF Consistent, v

\* The kernel the init task leaves behind: every task is ready and nobody waits.
LEMMA BootWait ==
    /\ Consistent(Boot)
    /\ Boot.TD_STATE = [t \in Task |-> "READY"]
    /\ Boot.QUEUE = [o \in Queue |-> <<>>]
    /\ Boot.INFO = [t \in Task |-> NULL]
    /\ Boot.ON_TIMEOUT_Q = {}
    /\ Boot.MY_QUEUE = InitPriority /\ Boot.HOME_QUEUE = InitPriority
    /\ Boot.BOOSTED = [t \in Task |-> 0]
<1> DEFINE r == ReadyAll(Unbooted, BootOrder)
<1>1. KInv(Boot, {}) /\ RunningOK(Boot)
  BY BootInv, TopIsRunning
<1>2. Boot = Dispatch(r)
  BY DEF Boot, Unbooted
<1>3. BootOrder \in Seq(Task) /\ Elems(BootOrder) = Task
  <2>1. BootOrder \in Seq(Task) /\ Elems(BootOrder) \subseteq Task
    BY KernelAssumption, EmptyQueue
  <2>2. ASSUME NEW t \in Task PROVE t \in Elems(BootOrder)
    <3>1. PICK i \in 1 .. Len(BootOrder) : BootOrder[i] = t
      BY KernelAssumption
    <3> QED
      BY <3>1 DEF Elems
  <2> QED
    BY <2>1, <2>2
<1>4. /\ Unbooted.QUEUE = [o \in Queue |-> <<>>] /\ Unbooted.INFO = [t \in Task |-> NULL]
      /\ Unbooted.ON_TIMEOUT_Q = {} /\ Unbooted.BOOSTED = [t \in Task |-> 0]
      /\ Unbooted.MY_QUEUE = InitPriority /\ Unbooted.HOME_QUEUE = InitPriority
  BY DEF Unbooted
<1>5. /\ r.TD_STATE = [t \in Task |-> IF t \in Elems(BootOrder) THEN "READY"
                                       ELSE Unbooted.TD_STATE[t]]
      /\ r.ON_TIMEOUT_Q = Unbooted.ON_TIMEOUT_Q
      /\ r.QUEUE = Unbooted.QUEUE /\ r.INFO = Unbooted.INFO
      /\ r.MY_QUEUE = Unbooted.MY_QUEUE /\ r.HOME_QUEUE = Unbooted.HOME_QUEUE
      /\ r.BOOSTED = Unbooted.BOOSTED
  BY <1>3, UnbootedType, ReadyAllFrame
<1>6. r.TD_STATE = [t \in Task |-> "READY"]
  BY <1>3, <1>5
<1>7. OnlySwitched(r, Boot)
  BY <1>2, BootInv, SwitchFrame DEF KInv
<1>8. WaitInv(Boot)
  <2>1. Elems(<<>>) = {} /\ NoDuplicates(<<>>)
    BY DEF Elems, NoDuplicates
  <2> QED
    BY <1>4, <1>5, <1>6, <1>7, <2>1, States DEF OnlySwitched, WaitInv, WaitQueuesOK, WaitStates
<1> QED
  BY <1>1, <1>4, <1>5, <1>6, <1>7, <1>8 DEF OnlySwitched, Consistent

(***************************************************************************)
(* Changing a priority.                                                     *)
(***************************************************************************)
\* _sched_set_priority_internal changes MY_QUEUE of the task, and the ready queues.
LEMMA SetPriorityFrame ==
    ASSUME NEW k, KInv(k, {}), NEW t \in Task, t # Idle, NEW p \in Priority
    PROVE  LET v == sched_set_priority_internal(k, t, p)
           IN  /\ v.TD_STATE = k.TD_STATE /\ v.ON_TIMEOUT_Q = k.ON_TIMEOUT_Q
               /\ v.QUEUE = k.QUEUE /\ v.INFO = k.INFO
               /\ v.HOME_QUEUE = k.HOME_QUEUE /\ v.BOOSTED = k.BOOSTED
               /\ v.MY_QUEUE = [k.MY_QUEUE EXCEPT ![t] = p]
<1> DEFINE f == [k.MY_QUEUE EXCEPT ![t] = p]
           u == UnlinkReady(k, t)
           w == [u EXCEPT !.MY_QUEUE[t] = p]
           m == TASK_READY(w, t)
           v == sched_set_priority_internal(k, t, p)
<1>1. /\ k \in Kernel /\ KInv(k, {}) /\ k.MY_QUEUE \in [Task -> Priority]
      /\ k.TD_STATE \in [Task -> State]
  BY KernelFields DEF KInv
<1>2. f \in [Task -> Priority]
  BY <1>1
<1>3. CASE IsReady(k, t)
  <2>1. KInv(u, {t}) /\ OnlySwitched(k, u) /\ u \in Kernel
    BY <1>1, <1>3, UnlinkReadyInv, UnlinkFrame DEF KInv
  <2> HIDE DEF u
  <2>2. w = [u EXCEPT !.MY_QUEUE = f]
    BY <2>1 DEF OnlySwitched
  <2> HIDE DEF f, w
  <2>3. /\ w \in Kernel /\ w.MY_QUEUE = f
        /\ w.TD_STATE = u.TD_STATE /\ w.ON_TIMEOUT_Q = u.ON_TIMEOUT_Q
        /\ w.QUEUE = u.QUEUE /\ w.INFO = u.INFO
        /\ w.HOME_QUEUE = u.HOME_QUEUE /\ w.BOOSTED = u.BOOSTED
    BY <1>2, <2>1, <2>2 DEF Kernel
  <2>4. KInv(w, {t})
    <3>1. t \in {t}
      OBVIOUS
    <3> QED
      BY <2>1, <3>1, ChangePriorityInv, Zenon DEF w
  <2>5. /\ m.TD_STATE = [w.TD_STATE EXCEPT ![t] = "READY"]
        /\ m.ON_TIMEOUT_Q = w.ON_TIMEOUT_Q
        /\ m.QUEUE = w.QUEUE /\ m.INFO = w.INFO
        /\ m.MY_QUEUE = w.MY_QUEUE /\ m.HOME_QUEUE = w.HOME_QUEUE
        /\ m.BOOSTED = w.BOOSTED
    BY <2>3, TaskReadyFrame
  <2>6. m \in Kernel
    <3>1. t \in {t} /\ t \notin w.ON_TIMEOUT_Q
      BY <1>3, <2>1, <2>3 DEF OnlySwitched, IsReady
    <3>2. KInv(m, {t} \ {t})
      BY <2>4, <3>1, TaskReadyInv, Zenon
    <3> QED
      BY <3>2 DEF KInv
  <2> HIDE DEF m
  <2>7. k.TD_STATE = [k.TD_STATE EXCEPT ![t] = "READY"]
    BY <1>1, <1>3 DEF IsReady
  <2>8. v = m \/ v = Dispatch(m)
    BY <1>3 DEF sched_set_priority_internal, m, w, u
  <2>9. OnlySwitched(m, v)
    BY <2>6, <2>8, SwitchFrame DEF OnlySwitched
  <2> HIDE DEF v
  <2>10. v.MY_QUEUE = f
    BY <2>3, <2>5, <2>9 DEF OnlySwitched
  <2>11. /\ v.TD_STATE = k.TD_STATE /\ v.ON_TIMEOUT_Q = k.ON_TIMEOUT_Q
         /\ v.QUEUE = k.QUEUE /\ v.INFO = k.INFO
         /\ v.HOME_QUEUE = k.HOME_QUEUE /\ v.BOOSTED = k.BOOSTED
    BY <2>1, <2>3, <2>5, <2>7, <2>9 DEF OnlySwitched
  <2> QED
    BY <2>10, <2>11 DEF v, f
<1>4. CASE ~IsReady(k, t)
  <2>1. v = [k EXCEPT !.MY_QUEUE = f]
    BY <1>4 DEF sched_set_priority_internal
  <2> HIDE DEF v, f
  <2>2. /\ v.TD_STATE = k.TD_STATE /\ v.ON_TIMEOUT_Q = k.ON_TIMEOUT_Q
        /\ v.QUEUE = k.QUEUE /\ v.INFO = k.INFO
        /\ v.HOME_QUEUE = k.HOME_QUEUE /\ v.BOOSTED = k.BOOSTED
        /\ v.MY_QUEUE = f
    BY <1>1, <2>1 DEF Kernel
  <2> QED
    BY <2>2 DEF v, f
<1> QED
  BY <1>3, <1>4

\* Task t waits on a queue ordered by priority.
Ordered(k, t) ==
    /\ k.TD_STATE[t] = "TASK_QUEUE_BLOCKED"
    /\ t \notin k.ON_TIMEOUT_Q
    /\ k.INFO[t] \in PriorityQueue

\* What _task_set_priority may change of the task descriptors and the wait queues: the
\* priority of t, and the place of t in a queue ordered by priority.
Reprioritized(k, j, t) ==
    /\ j.TD_STATE = k.TD_STATE /\ j.ON_TIMEOUT_Q = k.ON_TIMEOUT_Q
    /\ j.INFO = k.INFO /\ j.BOOSTED = k.BOOSTED
    /\ \A u \in Task \ {t} : j.MY_QUEUE[u] = k.MY_QUEUE[u]
    /\ j.QUEUE = IF Ordered(k, t)
                 THEN [k.QUEUE EXCEPT ![k.INFO[t]] =
                          sched_insert_priorityq_internal(j, Unlink(@, t), t)]
                 ELSE k.QUEUE

\* A task that is sorted in anew is on the same wait queue as before.
LEMMA ReprioritizedWait ==
    ASSUME NEW k \in Kernel, WaitInv(k), NEW t \in Task, NEW j, Reprioritized(k, j, t)
    PROVE  /\ WaitInv(j)
           /\ \A o \in Queue : /\ j.QUEUE[o] \in Seq(Task)
                               /\ Elems(j.QUEUE[o]) = Elems(k.QUEUE[o])
<1>1. k.QUEUE \in [Queue -> Seq(Task)]
  BY KernelFields
<1>2. ASSUME NEW o \in Queue
      PROVE  /\ j.QUEUE[o] \in Seq(Task) /\ NoDuplicates(j.QUEUE[o])
             /\ Elems(j.QUEUE[o]) = Elems(k.QUEUE[o])
  <2>1. k.QUEUE[o] \in Seq(Task) /\ NoDuplicates(k.QUEUE[o])
    BY <1>1 DEF WaitInv, WaitQueuesOK
  <2>2. CASE Ordered(k, t) /\ k.INFO[t] = o
    <3> DEFINE r == Unlink(k.QUEUE[o], t)
               q == sched_insert_priorityq_internal(j, r, t)
    <3>1. j.QUEUE[o] = q
      BY <1>1, <2>2 DEF Reprioritized
    <3>2. t \in Elems(k.QUEUE[o])
      BY <2>2 DEF Ordered, WaitInv, WaitQueuesOK, QueueStates
    <3>3. /\ r \in Seq(Task) /\ NoDuplicates(r) /\ Elems(r) = Elems(k.QUEUE[o]) \ {t}
          /\ t \notin Elems(r)
      BY <2>1, UnlinkElems
    <3> HIDE DEF r
    <3>4. q \in Seq(Task) /\ NoDuplicates(q) /\ Elems(q) = Elems(r) \cup {t}
      BY <3>3, InsertElems DEF sched_insert_priorityq_internal
    <3> QED
      BY <3>1, <3>2, <3>3, <3>4
  <2>3. CASE ~(Ordered(k, t) /\ k.INFO[t] = o)
    BY <1>1, <2>1, <2>3 DEF Reprioritized
  <2> QED
    BY <2>2, <2>3
<1>3. WaitQueuesOK(j, {})
  BY <1>2 DEF Reprioritized, WaitInv, WaitQueuesOK
<1> QED
  BY <1>2, <1>3 DEF Reprioritized, WaitInv

\* _task_set_priority changes nothing else.
LEMMA TaskSetPriorityFrame ==
    ASSUME NEW k, KInv(k, {}), IsReady(k, k.ACTIVE_PTR), NEW t \in Task, t # Idle,
           NEW p \in Priority
    PROVE  Reprioritized(k, TaskSetPriority(k, t, p), t)
<1> DEFINE h  == [k.HOME_QUEUE EXCEPT ![t] = p]
           k1 == [k EXCEPT !.HOME_QUEUE = h]
           k2 == IF k.BOOSTED[t] = 0 \/ p < k.MY_QUEUE[t]
                 THEN sched_set_priority_internal(k1, t, p)
                 ELSE k1
           o  == k.INFO[t]
           r  == sched_insert_priorityq_internal(k2, Unlink(k2.QUEUE[o], t), t)
           W  == [k2.QUEUE EXCEPT ![o] = r]
           k3 == IF Ordered(k, t) THEN [k2 EXCEPT !.QUEUE = W] ELSE k2
           v  == TaskSetPriority(k, t, p)
<1>1. /\ k \in Kernel /\ k.HOME_QUEUE \in [Task -> Priority] /\ k.ACTIVE_PTR \in Task
      /\ k.MY_QUEUE \in [Task -> Priority]
  BY KernelFields DEF KInv
<1>2. v = CHECK_RUN_SCHEDULER(k3)
  BY DEF TaskSetPriority, Ordered
<1>3. h \in [Task -> Priority]
  BY <1>1
<1> HIDE DEF h
<1>4. /\ k1 \in Kernel
      /\ k1.READY_Q = k.READY_Q /\ k1.CURRENT_READY_Q = k.CURRENT_READY_Q
      /\ k1.MY_QUEUE = k.MY_QUEUE /\ k1.TD_STATE = k.TD_STATE
      /\ k1.ON_TIMEOUT_Q = k.ON_TIMEOUT_Q /\ k1.TIMEOUT_QUEUE = k.TIMEOUT_QUEUE
      /\ k1.TIMEOUT = k.TIMEOUT /\ k1.ACTIVE_PTR = k.ACTIVE_PTR
      /\ k1.QUEUE = k.QUEUE /\ k1.INFO = k.INFO /\ k1.BOOSTED = k.BOOSTED
  BY <1>1, <1>3 DEF Kernel
<1> HIDE DEF k1
<1>5. KInv(k1, {}) /\ IsReady(k1, k1.ACTIVE_PTR)
  <2>1. KInv(k1, {}) /\ \A u \in Task : IsReady(k1, u) <=> IsReady(k, u)
    BY <1>1, <1>4, Frame
  <2> QED
    BY <1>1, <1>4, <2>1
<1>6. KInv(k2, {}) /\ IsReady(k2, k2.ACTIVE_PTR)
  BY <1>5, SetPriorityInv
<1>7. /\ k2.TD_STATE = k.TD_STATE /\ k2.ON_TIMEOUT_Q = k.ON_TIMEOUT_Q
      /\ k2.QUEUE = k.QUEUE /\ k2.INFO = k.INFO /\ k2.BOOSTED = k.BOOSTED
      /\ \A u \in Task \ {t} : k2.MY_QUEUE[u] = k.MY_QUEUE[u]
  <2> DEFINE s == sched_set_priority_internal(k1, t, p)
  <2>1. /\ s.TD_STATE = k1.TD_STATE /\ s.ON_TIMEOUT_Q = k1.ON_TIMEOUT_Q
        /\ s.QUEUE = k1.QUEUE /\ s.INFO = k1.INFO /\ s.BOOSTED = k1.BOOSTED
        /\ s.MY_QUEUE = [k1.MY_QUEUE EXCEPT ![t] = p]
    BY <1>5, SetPriorityFrame
  <2>2. k2 = s \/ k2 = k1
    OBVIOUS
  <2> HIDE DEF s, k2
  <2>3. \A u \in Task \ {t} : s.MY_QUEUE[u] = k.MY_QUEUE[u]
    BY <1>1, <1>4, <2>1
  <2> QED
    BY <1>4, <2>1, <2>2, <2>3
<1> HIDE DEF k2
<1>8. k2 \in Kernel /\ k2.ACTIVE_PTR \in Task /\ k2.QUEUE \in [Queue -> Seq(Task)]
  BY <1>6, KernelFields DEF KInv
<1>9. /\ KInv(k3, {}) /\ IsReady(k3, k3.ACTIVE_PTR)
      /\ k3.TD_STATE = k2.TD_STATE /\ k3.ON_TIMEOUT_Q = k2.ON_TIMEOUT_Q
      /\ k3.INFO = k2.INFO /\ k3.BOOSTED = k2.BOOSTED /\ k3.MY_QUEUE = k2.MY_QUEUE
      /\ k3.QUEUE = IF Ordered(k, t) THEN W ELSE k2.QUEUE
  <2>1. CASE Ordered(k, t)
    <3>1. o \in Queue
      BY <2>1, KernelAssumption DEF Ordered
    <3>2. Unlink(k2.QUEUE[o], t) \in Seq(Task)
      BY <1>8, <3>1, UnlinkElems
    <3>3. r \in Seq(Task)
      BY <3>2, InsertElems DEF sched_insert_priorityq_internal
    <3>4. W \in [Queue -> Seq(Task)] /\ k3 = [k2 EXCEPT !.QUEUE = W]
      BY <1>8, <2>1, <3>3
    <3> HIDE DEF W, k3
    <3>5. /\ k3 \in Kernel
          /\ k3.READY_Q = k2.READY_Q /\ k3.CURRENT_READY_Q = k2.CURRENT_READY_Q
          /\ k3.MY_QUEUE = k2.MY_QUEUE /\ k3.TD_STATE = k2.TD_STATE
          /\ k3.ON_TIMEOUT_Q = k2.ON_TIMEOUT_Q /\ k3.TIMEOUT_QUEUE = k2.TIMEOUT_QUEUE
          /\ k3.TIMEOUT = k2.TIMEOUT /\ k3.ACTIVE_PTR = k2.ACTIVE_PTR
          /\ k3.QUEUE = W /\ k3.INFO = k2.INFO /\ k3.BOOSTED = k2.BOOSTED
      BY <1>8, <3>4 DEF Kernel
    <3>6. KInv(k3, {}) /\ \A u \in Task : IsReady(k3, u) <=> IsReady(k2, u)
      BY <1>6, <3>5, Frame
    <3> QED
      BY <1>6, <1>8, <2>1, <3>5, <3>6
  <2>2. CASE ~Ordered(k, t)
    BY <1>6, <2>2
  <2> QED
    BY <2>1, <2>2
<1> HIDE DEF k3, v
<1>10. k3 \in Kernel
  BY <1>9 DEF KInv
<1>11. OnlySwitched(k3, v)
  BY <1>2, <1>10, SwitchFrame
<1>12. v.MY_QUEUE = k2.MY_QUEUE
  BY <1>9, <1>11 DEF OnlySwitched
<1>13. r = sched_insert_priorityq_internal(v, Unlink(k.QUEUE[o], t), t)
  BY <1>7, <1>12 DEF sched_insert_priorityq_internal
<1>14. v.QUEUE = IF Ordered(k, t) THEN W ELSE k2.QUEUE
  BY <1>9, <1>11 DEF OnlySwitched
<1> HIDE DEF r
<1>15. W = [k.QUEUE EXCEPT ![o] = sched_insert_priorityq_internal(v, Unlink(@, t), t)]
  BY <1>7, <1>13
<1> HIDE DEF W
<1>16. Reprioritized(k, v, t)
  <2>1. /\ v.TD_STATE = k.TD_STATE /\ v.ON_TIMEOUT_Q = k.ON_TIMEOUT_Q
        /\ v.INFO = k.INFO /\ v.BOOSTED = k.BOOSTED
        /\ \A u \in Task \ {t} : v.MY_QUEUE[u] = k.MY_QUEUE[u]
    BY <1>7, <1>9, <1>11 DEF OnlySwitched
  <2> QED
    BY <1>7, <1>14, <1>15, <2>1 DEF Reprioritized
<1> QED
  BY <1>16 DEF v

\* _task_set_priority
LEMMA TaskSetPriorityWait ==
    ASSUME NEW k, Unscheduled(k), NEW t \in Task, t # Idle, NEW p \in Priority
    PROVE  LET v == TaskSetPriority(k, t, p)
           IN  Consistent(v) /\ Reprioritized(k, v, t)
<1> DEFINE v == TaskSetPriority(k, t, p)
<1>1. k \in Kernel /\ KInv(k, {}) /\ IsReady(k, k.ACTIVE_PTR) /\ WaitInv(k)
  BY DEF Unscheduled, KInv
<1>2. Reprioritized(k, v, t)
  BY <1>1, TaskSetPriorityFrame
<1>3. KInv(v, {}) /\ RunningOK(v)
  BY <1>1, TaskSetPriorityInv, TopIsRunning
<1> HIDE DEF v
<1>4. WaitInv(v)
  BY <1>1, <1>2, ReprioritizedWait
<1> QED
  BY <1>2, <1>3, <1>4 DEF Consistent, v

(***************************************************************************)
(* Two kernels that differ in STATE only.                                   *)
(***************************************************************************)
\* c with the states D.
Restate(c, D) == [c EXCEPT !.TD_STATE = D]

\* D with the tasks of S ready.
ReadyStates(D, S) == [t \in Task |-> IF t \in S THEN "READY" ELSE D[t]]

\* All other fields are those of k.
LEMMA RestateFields ==
    ASSUME NEW c \in Kernel, NEW D
    PROVE  LET j == Restate(c, D)
           IN  /\ j.TD_STATE = D
               /\ j.ACTIVE_PTR = c.ACTIVE_PTR /\ j.CURRENT_READY_Q = c.CURRENT_READY_Q
               /\ j.READY_Q = c.READY_Q /\ j.MY_QUEUE = c.MY_QUEUE
               /\ j.ON_TIMEOUT_Q = c.ON_TIMEOUT_Q /\ j.TIMEOUT_QUEUE = c.TIMEOUT_QUEUE
               /\ j.TIMEOUT = c.TIMEOUT /\ j.QUEUE = c.QUEUE /\ j.INFO = c.INFO
               /\ j.PREEMPTION_DISABLED = c.PREEMPTION_DISABLED
               /\ j.TIME_SLICE_TASK = c.TIME_SLICE_TASK /\ j.TIME_SLICE = c.TIME_SLICE
               /\ j.CURRENT_TIME_SLICE = c.CURRENT_TIME_SLICE
               /\ Restate(c, c.TD_STATE) = c
               /\ D \in [Task -> State] => j \in Kernel
               /\ \A E : Restate(j, E) = Restate(c, E)
BY DEF Restate, Kernel

\* Where the dispatcher finds a task.
Found(c, R) ==
    CHOOSE i \in Priority :
        /\ i >= c /\ R[i] # <<>>
        /\ \A j \in c .. (i - 1) : R[j] = <<>>

\* The dispatcher looks at no STATE.
LEMMA RestateDispatch ==
    ASSUME NEW c \in Kernel, NEW D
    PROVE  Dispatch(Restate(c, D)) = Restate(Dispatch(c), D)
<1> DEFINE j == Restate(c, D)
           p == Found(c.CURRENT_READY_Q, c.READY_Q)
           h == Head(c.READY_Q[p])
<1>1. /\ j.CURRENT_READY_Q = c.CURRENT_READY_Q /\ j.READY_Q = c.READY_Q
      /\ j = [c EXCEPT !.TD_STATE = D]
  BY RestateFields DEF Restate
<1>2. Dispatch(c) = [c EXCEPT !.CURRENT_READY_Q = p, !.ACTIVE_PTR = h]
  BY DEF Dispatch, Found
<1>3. Dispatch(j) = [j EXCEPT !.CURRENT_READY_Q = Found(j.CURRENT_READY_Q, j.READY_Q),
                              !.ACTIVE_PTR = Head(j.READY_Q[Found(j.CURRENT_READY_Q, j.READY_Q)])]
  BY DEF Dispatch, Found
<1>4. Dispatch(j) = [j EXCEPT !.CURRENT_READY_Q = p, !.ACTIVE_PTR = h]
  BY <1>1, <1>3
<1> HIDE DEF p, h
<1>5. [j EXCEPT !.CURRENT_READY_Q = p, !.ACTIVE_PTR = h]
         = Restate([c EXCEPT !.CURRENT_READY_Q = p, !.ACTIVE_PTR = h], D)
  BY <1>1 DEF Restate, Kernel
<1> QED
  BY <1>2, <1>4, <1>5

\* Neither does the scheduler, called by a task or at the end of an interrupt.
LEMMA RestateSchedule ==
    ASSUME NEW c \in Kernel, NEW D
    PROVE  /\ CHECK_RUN_SCHEDULER(Restate(c, D)) = Restate(CHECK_RUN_SCHEDULER(c), D)
           /\ IsrReturn(Restate(c, D)) = Restate(IsrReturn(c), D)
<1> DEFINE j == Restate(c, D)
<1>1. /\ j.CURRENT_READY_Q = c.CURRENT_READY_Q /\ j.READY_Q = c.READY_Q
      /\ j.ACTIVE_PTR = c.ACTIVE_PTR /\ j.MY_QUEUE = c.MY_QUEUE
      /\ j.PREEMPTION_DISABLED = c.PREEMPTION_DISABLED
  BY RestateFields
<1>2. Dispatch(j) = Restate(Dispatch(c), D)
  BY RestateDispatch
<1> HIDE DEF j
<1>3. CHECK_RUN_SCHEDULER(j) = Restate(CHECK_RUN_SCHEDULER(c), D)
  BY <1>1, <1>2 DEF CHECK_RUN_SCHEDULER, j
<1>4. IsrReturn(j) = Restate(IsrReturn(c), D)
  BY <1>1, <1>2 DEF IsrReturn, j
<1> QED
  BY <1>3, <1>4 DEF j

\* Taking a task off its ready queue.
LEMMA RestateUnlink ==
    ASSUME NEW c \in Kernel, NEW D, NEW t \in Task
    PROVE  UnlinkReady(Restate(c, D), t) = Restate(UnlinkReady(c, t), D)
<1> DEFINE j == Restate(c, D)
           R == [c.READY_Q EXCEPT ![c.MY_QUEUE[t]] = Unlink(@, t)]
<1>1. /\ j.MY_QUEUE = c.MY_QUEUE /\ j.READY_Q = c.READY_Q
      /\ j = [c EXCEPT !.TD_STATE = D]
  BY RestateFields DEF Restate
<1>2. UnlinkReady(c, t) = [c EXCEPT !.READY_Q = R]
  BY DEF UnlinkReady
<1>3. UnlinkReady(j, t) = [j EXCEPT !.READY_Q = R]
  BY <1>1 DEF UnlinkReady
<1> HIDE DEF R
<1> QED
  BY <1>1, <1>2, <1>3 DEF Restate, Kernel

\* _TASK_READY sets the STATE of its task.
LEMMA RestateReady ==
    ASSUME NEW c \in Kernel, NEW D, NEW t \in Task
    PROVE  TASK_READY(Restate(c, D), t) = Restate(TASK_READY(c, t), [D EXCEPT ![t] = "READY"])
<1> DEFINE j == Restate(c, D)
           h == IF c.MY_QUEUE[t] < c.CURRENT_READY_Q THEN c.MY_QUEUE[t]
                ELSE c.CURRENT_READY_Q
           E == [D EXCEPT ![t] = "READY"]
           F == [c.TD_STATE EXCEPT ![t] = "READY"]
           R == [c.READY_Q EXCEPT ![c.MY_QUEUE[t]] = Append(@, t)]
           C == [c.CURRENT_TIME_SLICE EXCEPT ![t] = 0]
<1>1. /\ j.MY_QUEUE = c.MY_QUEUE /\ j.READY_Q = c.READY_Q
      /\ j.CURRENT_READY_Q = c.CURRENT_READY_Q /\ j.TD_STATE = D
      /\ j.CURRENT_TIME_SLICE = c.CURRENT_TIME_SLICE
      /\ j = [c EXCEPT !.TD_STATE = D]
  BY RestateFields, ZenonT(30) DEF Restate
<1>2. TASK_READY(c, t) = [c EXCEPT !.CURRENT_READY_Q = h, !.TD_STATE = F, !.READY_Q = R,
                                   !.CURRENT_TIME_SLICE = C]
  BY DEF TASK_READY, Kernel
<1>3. TASK_READY(j, t) = [j EXCEPT !.CURRENT_READY_Q = h, !.TD_STATE = E, !.READY_Q = R,
                                   !.CURRENT_TIME_SLICE = C]
  BY <1>1 DEF TASK_READY
<1> HIDE DEF h, E, F, R, C
<1>4. TASK_READY(j, t) = Restate(TASK_READY(c, t), E)
  BY <1>1, <1>2, <1>3 DEF Restate, Kernel
<1> QED
  BY <1>4 DEF E

\* _time_delay_internal
LEMMA RestateDelay ==
    ASSUME NEW c \in Kernel, NEW D, NEW t \in Task, NEW n \in Int
    PROVE  time_delay_internal(Restate(c, D), t, n) = Restate(time_delay_internal(c, t, n), D)
<1> DEFINE Before(g) == {u \in Task : \/ g[u] > g[t]
                                      \/ ~DELAY_ENQUEUE_FIFO_ORDER /\ g[u] = g[t]}
           f == [c.TIMEOUT EXCEPT ![t] = n]
           R == [c.READY_Q EXCEPT ![c.MY_QUEUE[t]] = Unlink(@, t)]
           tq == InsertBefore(c.TIMEOUT_QUEUE, t, Before(f))
           O == c.ON_TIMEOUT_Q \cup {t}
           w == [c EXCEPT !.TIMEOUT = f, !.READY_Q = R, !.TIMEOUT_QUEUE = tq, !.ON_TIMEOUT_Q = O]
<1>1. ASSUME NEW j, j \in {c, Restate(c, D)}
      PROVE  time_delay_internal(j, t, n)
                = Dispatch([j EXCEPT !.TIMEOUT = f, !.READY_Q = R, !.TIMEOUT_QUEUE = tq,
                                     !.ON_TIMEOUT_Q = O])
  <2>1. /\ j.TIMEOUT = c.TIMEOUT /\ j.READY_Q = c.READY_Q /\ j.MY_QUEUE = c.MY_QUEUE
        /\ j.TIMEOUT_QUEUE = c.TIMEOUT_QUEUE /\ j.ON_TIMEOUT_Q = c.ON_TIMEOUT_Q
        /\ j = Restate(c, j.TD_STATE)
    BY <1>1, RestateFields
  <2> DEFINE i == [j EXCEPT !.TIMEOUT = f]
  <2>2. /\ i.TIMEOUT = f /\ i.READY_Q = c.READY_Q /\ i.MY_QUEUE = c.MY_QUEUE
        /\ i.TIMEOUT_QUEUE = c.TIMEOUT_QUEUE /\ i.ON_TIMEOUT_Q = c.ON_TIMEOUT_Q
    <3> HIDE DEF f
    <3> QED
      BY <2>1 DEF Kernel, Restate
  <2>3. [j EXCEPT !.TIMEOUT[t] = n] = i
    BY <2>1
  <2> HIDE DEF i
  <2>4. DELAY_ENQUEUE_POLICY(i, t) = Before(f)
    BY <2>2 DEF DELAY_ENQUEUE_POLICY
  <2>5. UnlinkReady(i, t) = [i EXCEPT !.READY_Q = R]
    BY <2>2 DEF UnlinkReady
  <2> DEFINE u == UnlinkReady(i, t)
  <2>6. u.TIMEOUT_QUEUE = c.TIMEOUT_QUEUE /\ u.ON_TIMEOUT_Q = c.ON_TIMEOUT_Q
    <3> HIDE DEF R, f
    <3> QED
      BY <2>1, <2>5 DEF Kernel, Restate, i
  <2>7. time_delay_internal(j, t, n)
           = Dispatch([u EXCEPT !.TIMEOUT_QUEUE = InsertBefore(@, t, DELAY_ENQUEUE_POLICY(i, t)),
                                !.ON_TIMEOUT_Q = @ \cup {t}])
    BY <2>3 DEF time_delay_internal
  <2> HIDE DEF u
  <2>8. [u EXCEPT !.TIMEOUT_QUEUE = InsertBefore(@, t, DELAY_ENQUEUE_POLICY(i, t)),
                  !.ON_TIMEOUT_Q = @ \cup {t}]
          = [u EXCEPT !.TIMEOUT_QUEUE = tq, !.ON_TIMEOUT_Q = O]
    BY <2>4, <2>6
  <2>9. [u EXCEPT !.TIMEOUT_QUEUE = tq, !.ON_TIMEOUT_Q = O]
          = [j EXCEPT !.TIMEOUT = f, !.READY_Q = R, !.TIMEOUT_QUEUE = tq, !.ON_TIMEOUT_Q = O]
    <3> HIDE DEF tq, O, R, f
    <3> QED
      BY <2>1, <2>5 DEF Kernel, Restate, i, u
  <2> QED
    BY <2>7, <2>8, <2>9
<1>2. w \in Kernel
  <2>1. /\ c.TIMEOUT \in [Task -> Int] /\ c.READY_Q \in [Priority -> Seq(Task)]
        /\ c.MY_QUEUE \in [Task -> Priority] /\ c.TIMEOUT_QUEUE \in Seq(Task)
        /\ c.ON_TIMEOUT_Q \in SUBSET Task
    BY KernelFields
  <2>2. f \in [Task -> Int] /\ O \in SUBSET Task
    BY <2>1
  <2>3. R \in [Priority -> Seq(Task)]
    BY <2>1, UnlinkElems
  <2>4. tq \in Seq(Task)
    BY <2>1, InsertElems
  <2> HIDE DEF f, R, tq, O
  <2> QED
    BY <2>2, <2>3, <2>4 DEF Kernel
<1>3. Dispatch(Restate(w, D)) = Restate(Dispatch(w), D)
  BY <1>2, RestateDispatch
<1>4. Restate(w, D) = [Restate(c, D) EXCEPT !.TIMEOUT = f, !.READY_Q = R, !.TIMEOUT_QUEUE = tq,
                                            !.ON_TIMEOUT_Q = O]
  <2> HIDE DEF f, R, tq, O
  <2> QED
    BY DEF Restate, Kernel
<1>5. /\ time_delay_internal(c, t, n) = Dispatch(w)
      /\ time_delay_internal(Restate(c, D), t, n) = Dispatch(Restate(w, D))
  BY <1>1, <1>4
<1> QED
  BY <1>3, <1>5

\* _TIME_DEQUEUE of a task that is not READY.
LEMMA RestateDequeue ==
    ASSUME NEW c \in Kernel, NEW D \in [Task -> State], NEW t \in Task,
           D[t] # "READY", c.TD_STATE[t] # "READY"
    PROVE  TIME_DEQUEUE(Restate(c, D), t) = Restate(TIME_DEQUEUE(c, t), D)
<1> DEFINE j == Restate(c, D)
           tq == Unlink(c.TIMEOUT_QUEUE, t)
           O == c.ON_TIMEOUT_Q \ {t}
           f == [c.TIMEOUT EXCEPT ![t] = 0]
<1>1. /\ j.TIMEOUT_QUEUE = c.TIMEOUT_QUEUE /\ j.ON_TIMEOUT_Q = c.ON_TIMEOUT_Q
      /\ j.TIMEOUT = c.TIMEOUT /\ j.TD_STATE = D /\ j = [c EXCEPT !.TD_STATE = D]
      /\ c.TD_STATE \in [Task -> State]
  <2>1. j = [c EXCEPT !.TD_STATE = D]
    BY DEF Restate
  <2> QED
    BY <2>1, RestateFields, KernelFields
<1>2. CASE t \notin c.ON_TIMEOUT_Q
  <2>1. TIME_DEQUEUE(c, t) = c
    BY <1>2 DEF TIME_DEQUEUE
  <2> HIDE DEF j
  <2>2. TIME_DEQUEUE(j, t) = j
    BY <1>1, <1>2 DEF TIME_DEQUEUE
  <2> QED
    BY <2>1, <2>2 DEF j
<1>3. CASE t \in c.ON_TIMEOUT_Q
  <2>1. /\ [D EXCEPT ![t] = IF @ = "READY" THEN "BLOCKED" ELSE @] = D
        /\ [c.TD_STATE EXCEPT ![t] = IF @ = "READY" THEN "BLOCKED" ELSE @] = c.TD_STATE
    BY <1>1
  <2>2. TIME_DEQUEUE(c, t) = [c EXCEPT !.TIMEOUT_QUEUE = tq, !.ON_TIMEOUT_Q = O, !.TIMEOUT = f,
                                       !.TD_STATE = c.TD_STATE]
    BY <1>3, <2>1 DEF TIME_DEQUEUE
  <2>3. TIME_DEQUEUE(j, t) = [j EXCEPT !.TIMEOUT_QUEUE = tq, !.ON_TIMEOUT_Q = O, !.TIMEOUT = f,
                                       !.TD_STATE = D]
    BY <1>1, <1>3, <2>1 DEF TIME_DEQUEUE
  <2> HIDE DEF tq, O, f
  <2> QED
    BY <1>1, <2>2, <2>3 DEF Restate, Kernel
<1> QED
  BY <1>2, <1>3

\* The highest of the priority c and those of the tasks in s.
Highest(c, f, s) ==
    CHOOSE p \in {c} \cup {f[t] : t \in Elems(s)} :
        \A r \in {c} \cup {f[t] : t \in Elems(s)} : p <= r

\* Readying the tasks of a sequence.
LEMMA RestateReadyAll ==
    ASSUME NEW c \in Kernel, NEW D, NEW s
    PROVE  ReadyAll(Restate(c, D), s) = Restate(ReadyAll(c, s), ReadyStates(D, Elems(s)))
<1> DEFINE j == Restate(c, D)
           h == Highest(c.CURRENT_READY_Q, c.MY_QUEUE, s)
           E == ReadyStates(D, Elems(s))
           F == ReadyStates(c.TD_STATE, Elems(s))
           R == [p \in Priority |->
                    c.READY_Q[p] \o Keep(s, {t \in Task : c.MY_QUEUE[t] = p})]
           C == [t \in Task |-> IF t \in Elems(s) THEN 0 ELSE c.CURRENT_TIME_SLICE[t]]
<1>1. /\ j.MY_QUEUE = c.MY_QUEUE /\ j.READY_Q = c.READY_Q
      /\ j.CURRENT_READY_Q = c.CURRENT_READY_Q /\ j.TD_STATE = D
      /\ j.CURRENT_TIME_SLICE = c.CURRENT_TIME_SLICE
      /\ j = [c EXCEPT !.TD_STATE = D]
  BY RestateFields DEF Restate
<1>2. ASSUME NEW i
      PROVE  ReadyAll(i, s) =
                [i EXCEPT !.CURRENT_READY_Q = Highest(i.CURRENT_READY_Q, i.MY_QUEUE, s),
                          !.TD_STATE = ReadyStates(i.TD_STATE, Elems(s)),
                          !.READY_Q = [p \in Priority |->
                              i.READY_Q[p] \o Keep(s, {t \in Task : i.MY_QUEUE[t] = p})],
                          !.CURRENT_TIME_SLICE =
                              [t \in Task |-> IF t \in Elems(s) THEN 0
                                              ELSE i.CURRENT_TIME_SLICE[t]]]
  BY DEF ReadyAll, ReadyStates, Highest
<1>3. ReadyAll(c, s) = [c EXCEPT !.CURRENT_READY_Q = h, !.TD_STATE = F, !.READY_Q = R,
                                 !.CURRENT_TIME_SLICE = C]
  BY <1>2
<1>4. ReadyAll(j, s) = [j EXCEPT !.CURRENT_READY_Q = h, !.TD_STATE = E, !.READY_Q = R,
                                 !.CURRENT_TIME_SLICE = C]
  <2>1. /\ Highest(j.CURRENT_READY_Q, j.MY_QUEUE, s) = h
        /\ ReadyStates(j.TD_STATE, Elems(s)) = E
    BY <1>1
  <2>2. [p \in Priority |-> j.READY_Q[p] \o Keep(s, {t \in Task : j.MY_QUEUE[t] = p})] = R
    BY <1>1
  <2>3. [t \in Task |-> IF t \in Elems(s) THEN 0 ELSE j.CURRENT_TIME_SLICE[t]] = C
    BY <1>1
  <2> HIDE DEF j, h, E, R, C
  <2> QED
    BY <1>2, <2>1, <2>2, <2>3
<1> HIDE DEF h, E, F, R, C
<1>5. ReadyAll(j, s) = Restate(ReadyAll(c, s), E)
  BY <1>1, <1>3, <1>4 DEF Restate, Kernel
<1> QED
  BY <1>5 DEF E

\* Releasing all waiters of an object.
LEMMA RestateRelease ==
    ASSUME NEW c \in Kernel, NEW D, NEW o \in Queue
    PROVE  ReleaseAll(Restate(c, D), o)
              = Restate(ReleaseAll(c, o), ReadyStates(D, Elems(c.QUEUE[o])))
<1> DEFINE j == Restate(c, D)
           s == c.QUEUE[o]
           W == [c.QUEUE EXCEPT ![o] = <<>>]
           tq == Keep(c.TIMEOUT_QUEUE, Task \ Elems(s))
           O == c.ON_TIMEOUT_Q \ Elems(s)
           f == [t \in Task |-> IF t \in Elems(s) THEN 0 ELSE c.TIMEOUT[t]]
           i == [c EXCEPT !.QUEUE = W, !.TIMEOUT_QUEUE = tq, !.ON_TIMEOUT_Q = O, !.TIMEOUT = f]
<1>1. /\ j.QUEUE = c.QUEUE /\ j.TIMEOUT_QUEUE = c.TIMEOUT_QUEUE
      /\ j.ON_TIMEOUT_Q = c.ON_TIMEOUT_Q /\ j.TIMEOUT = c.TIMEOUT
      /\ j = [c EXCEPT !.TD_STATE = D]
  BY RestateFields DEF Restate
<1>2. ReleaseAll(c, o) = ReadyAll(i, s)
  BY DEF ReleaseAll
<1>3. ReleaseAll(j, o) = ReadyAll([j EXCEPT !.QUEUE = W, !.TIMEOUT_QUEUE = tq,
                                            !.ON_TIMEOUT_Q = O, !.TIMEOUT = f], s)
  BY <1>1 DEF ReleaseAll
<1>4. i \in Kernel
  <2>1. /\ c.QUEUE \in [Queue -> Seq(Task)] /\ c.TIMEOUT_QUEUE \in Seq(Task)
        /\ c.ON_TIMEOUT_Q \in SUBSET Task /\ c.TIMEOUT \in [Task -> Int]
    BY KernelFields
  <2>2. W \in [Queue -> Seq(Task)] /\ O \in SUBSET Task /\ f \in [Task -> Int]
    BY <2>1
  <2>3. tq \in Seq(Task)
    BY <2>1, KeepElems
  <2> HIDE DEF W, O, f, tq
  <2> QED
    BY <2>2, <2>3 DEF Kernel
<1>5. [j EXCEPT !.QUEUE = W, !.TIMEOUT_QUEUE = tq, !.ON_TIMEOUT_Q = O, !.TIMEOUT = f]
         = Restate(i, D)
  <2> HIDE DEF W, O, f, tq
  <2> QED
    BY <1>1 DEF Restate, Kernel
<1> HIDE DEF i
<1> QED
  BY <1>2, <1>3, <1>4, <1>5, RestateReadyAll

\* The number of tasks at the head of q whose time has come.
DueCount(tq, f) ==
    CHOOSE i \in 0 .. Len(tq) :
        /\ \A j \in 1 .. i : f[tq[j]] <= 0
        /\ i < Len(tq) => ~(f[tq[i + 1]] <= 0)

\* The tasks on the timeout queue whose time has come.
DueTasks(c) ==
    Elems(SubSeq(c.TIMEOUT_QUEUE, 1, DueCount(c.TIMEOUT_QUEUE, c.TIMEOUT)))

\* The timer looks at the STATE of the tasks on the timeout queue only.
LEMMA RestateExpire ==
    ASSUME NEW c, KInv(c, {}), NEW D, \A t \in c.ON_TIMEOUT_Q : D[t] = c.TD_STATE[t]
    PROVE  /\ Expire(Restate(c, D)) = Restate(Expire(c), ReadyStates(D, DueTasks(c)))
           /\ DueTasks(c) \in SUBSET c.ON_TIMEOUT_Q
<1> DEFINE j == Restate(c, D)
           tq == c.TIMEOUT_QUEUE
           n == DueCount(tq, c.TIMEOUT)
           s == SubSeq(tq, 1, n)
           r == SubSeq(tq, n + 1, Len(tq))
           S == Elems(s)
           O == c.ON_TIMEOUT_Q \ S
           f == [t \in Task |-> IF t \in S THEN 0 ELSE c.TIMEOUT[t]]
           W == LeaveAuxQueues(c, S)
           i == [c EXCEPT !.TIMEOUT_QUEUE = r, !.ON_TIMEOUT_Q = O, !.TIMEOUT = f, !.QUEUE = W]
<1>1. /\ c \in Kernel /\ tq \in Seq(Task) /\ c.TIMEOUT \in [Task -> Int]
      /\ c.ON_TIMEOUT_Q \in SUBSET Task
  BY KernelFields DEF KInv
<1>2. n \in 0 .. Len(tq)
  BY <1>1, DuePrefix DEF Due, DueCount
<1>3. NoDuplicates(tq) /\ Elems(tq) = c.ON_TIMEOUT_Q
  BY <1>1, TimeoutSorted DEF KInv
<1> HIDE DEF n
<1>4. s \in Seq(Task) /\ r \in Seq(Task) /\ S \in SUBSET c.ON_TIMEOUT_Q
  BY <1>1, <1>2, <1>3, SplitElems
<1>5. /\ j.QUEUE = c.QUEUE /\ j.TIMEOUT_QUEUE = c.TIMEOUT_QUEUE /\ j.INFO = c.INFO
      /\ j.ON_TIMEOUT_Q = c.ON_TIMEOUT_Q /\ j.TIMEOUT = c.TIMEOUT /\ j.TD_STATE = D
  BY <1>1, RestateFields
<1>6. Expire(c) = ReadyAll(i, s)
  BY DEF Expire, DueCount, Due, n
<1>7. LeaveAuxQueues(j, S) = W
  <2>1. ASSUME NEW o \in Queue
        PROVE  {t \in S : j.TD_STATE[t] \in AuxStates /\ j.INFO[t] = o}
                  = {t \in S : c.TD_STATE[t] \in AuxStates /\ c.INFO[t] = o}
    BY <1>4, <1>5
  <2> HIDE DEF j, S
  <2> QED
    BY <1>5, <2>1 DEF LeaveAuxQueues
<1>8. Expire(j) = ReadyAll([j EXCEPT !.TIMEOUT_QUEUE = r, !.ON_TIMEOUT_Q = O, !.TIMEOUT = f,
                                     !.QUEUE = W], s)
  <2>1. Expire(j) = LET m == DueCount(j.TIMEOUT_QUEUE, j.TIMEOUT)
                        due == SubSeq(j.TIMEOUT_QUEUE, 1, m)
                    IN  ReadyAll([j EXCEPT
                            !.TIMEOUT_QUEUE = SubSeq(j.TIMEOUT_QUEUE, m + 1, Len(j.TIMEOUT_QUEUE)),
                            !.ON_TIMEOUT_Q = j.ON_TIMEOUT_Q \ Elems(due),
                            !.TIMEOUT = [t \in Task |-> IF t \in Elems(due) THEN 0
                                                        ELSE j.TIMEOUT[t]],
                            !.QUEUE = LeaveAuxQueues(j, Elems(due))], due)
    BY DEF Expire, DueCount, Due
  <2>2. DueCount(j.TIMEOUT_QUEUE, j.TIMEOUT) = n
    BY <1>5 DEF n
  <2> HIDE DEF j, W
  <2> QED
    BY <1>5, <1>7, <2>1, <2>2
<1>9. i \in Kernel
  <2>1. f \in [Task -> Int] /\ O \in SUBSET Task
    BY <1>1
  <2>2. W \in [Queue -> Seq(Task)]
    BY <1>1, LeaveAuxQueuesType
  <2> HIDE DEF f, O, W, r
  <2> QED
    BY <1>1, <1>4, <2>1, <2>2 DEF Kernel
<1>10. [j EXCEPT !.TIMEOUT_QUEUE = r, !.ON_TIMEOUT_Q = O, !.TIMEOUT = f, !.QUEUE = W]
          = Restate(i, D)
  <2> HIDE DEF f, O, W, r
  <2> QED
    BY <1>1 DEF Restate, Kernel
<1>11. S = DueTasks(c)
  BY DEF DueTasks, n
<1> HIDE DEF i, S, s
<1>12. ReadyAll(Restate(i, D), s) = Restate(ReadyAll(i, s), ReadyStates(D, S))
  BY <1>9, RestateReadyAll DEF S
<1> QED
  BY <1>4, <1>6, <1>8, <1>10, <1>11, <1>12

\* Which tasks take part in round robin is nothing that the core changes.
LEMMA SliceTasksKept ==
    ASSUME NEW c \in Kernel, NEW t \in Task
    PROVE  LET T == c.TIME_SLICE_TASK
           IN  /\ Dispatch(c).TIME_SLICE_TASK = T
               /\ CHECK_RUN_SCHEDULER(c).TIME_SLICE_TASK = T
               /\ IsrReturn(c).TIME_SLICE_TASK = T
               /\ UnlinkReady(c, t).TIME_SLICE_TASK = T
               /\ TASK_READY(c, t).TIME_SLICE_TASK = T
               /\ TIME_DEQUEUE(c, t).TIME_SLICE_TASK = T
               /\ IncTime(c).TIME_SLICE_TASK = T
               /\ \A s : ReadyAll(c, s).TIME_SLICE_TASK = T
<1>1. Dispatch(c).TIME_SLICE_TASK = c.TIME_SLICE_TASK
  BY DEF Dispatch, Kernel
<1>2. /\ CHECK_RUN_SCHEDULER(c).TIME_SLICE_TASK = c.TIME_SLICE_TASK
      /\ IsrReturn(c).TIME_SLICE_TASK = c.TIME_SLICE_TASK
  BY <1>1 DEF CHECK_RUN_SCHEDULER, IsrReturn
<1>3. UnlinkReady(c, t).TIME_SLICE_TASK = c.TIME_SLICE_TASK
  BY DEF UnlinkReady, Kernel
<1>4. TASK_READY(c, t).TIME_SLICE_TASK = c.TIME_SLICE_TASK
  BY DEF TASK_READY, Kernel
<1>5. TIME_DEQUEUE(c, t).TIME_SLICE_TASK = c.TIME_SLICE_TASK
  BY DEF TIME_DEQUEUE, Kernel
<1>6. IncTime(c).TIME_SLICE_TASK = c.TIME_SLICE_TASK
  BY DEF IncTime, Kernel
<1>7. ASSUME NEW s PROVE ReadyAll(c, s).TIME_SLICE_TASK = c.TIME_SLICE_TASK
  BY DEF ReadyAll, Kernel
<1> QED
  BY <1>1, <1>2, <1>3, <1>4, <1>5, <1>6, <1>7

\* Neither do the loop over the timeout queue, round robin itself and a delay.
LEMMA TickSliceTasks ==
    ASSUME NEW c, KInv(c, {})
    PROVE  /\ Expire(c).TIME_SLICE_TASK = c.TIME_SLICE_TASK
           /\ IsReady(c, c.ACTIVE_PTR) => TimeSlice(c).TIME_SLICE_TASK = c.TIME_SLICE_TASK
<1>1. c \in Kernel /\ c.ACTIVE_PTR \in Task
  BY KernelFields DEF KInv
<1>2. Expire(c).TIME_SLICE_TASK = c.TIME_SLICE_TASK
  <2> DEFINE n == DueCount(c.TIMEOUT_QUEUE, c.TIMEOUT)
             s == SubSeq(c.TIMEOUT_QUEUE, 1, n)
             r == SubSeq(c.TIMEOUT_QUEUE, n + 1, Len(c.TIMEOUT_QUEUE))
             O == c.ON_TIMEOUT_Q \ Elems(s)
             f == [t \in Task |-> IF t \in Elems(s) THEN 0 ELSE c.TIMEOUT[t]]
             W == LeaveAuxQueues(c, Elems(s))
             i == [c EXCEPT !.TIMEOUT_QUEUE = r, !.ON_TIMEOUT_Q = O, !.TIMEOUT = f, !.QUEUE = W]
  <2>1. Expire(c) = ReadyAll(i, s)
    BY DEF Expire, DueCount, Due
  <2>2. ReadyAll(i, s).TIME_SLICE_TASK = i.TIME_SLICE_TASK
    <3> HIDE DEF s, r, O, f, W
    <3> QED
      BY <1>1 DEF ReadyAll, Kernel
  <2>3. i.TIME_SLICE_TASK = c.TIME_SLICE_TASK
    <3> HIDE DEF s, r, O, f, W
    <3> QED
      BY <1>1 DEF Kernel
  <2> QED
    BY <2>1, <2>2, <2>3
<1>3. ASSUME IsReady(c, c.ACTIVE_PTR)
      PROVE  TimeSlice(c).TIME_SLICE_TASK = c.TIME_SLICE_TASK
  <2> DEFINE u == UnlinkReady(c, c.ACTIVE_PTR)
             m == c.CURRENT_TIME_SLICE[c.ACTIVE_PTR] + 1
             C == [c.CURRENT_TIME_SLICE EXCEPT ![c.ACTIVE_PTR] =
                      IF m > MaxTimeSlice THEN MaxTimeSlice ELSE m]
  <2>1. u \in Kernel
    BY <1>1, <1>3, UnlinkReadyInv DEF KInv
  <2>2. u.TIME_SLICE_TASK = c.TIME_SLICE_TASK
    BY <1>1, SliceTasksKept
  <2> HIDE DEF u
  <2>3. TASK_READY(u, c.ACTIVE_PTR).TIME_SLICE_TASK = c.TIME_SLICE_TASK
    BY <1>1, <2>1, <2>2, SliceTasksKept
  <2>4. [c EXCEPT !.CURRENT_TIME_SLICE = C].TIME_SLICE_TASK = c.TIME_SLICE_TASK
    <3> HIDE DEF C
    <3> QED
      BY <1>1 DEF Kernel
  <2>5. TimeSlice(c) \in {c, TASK_READY(u, c.ACTIVE_PTR), [c EXCEPT !.CURRENT_TIME_SLICE = C]}
    BY DEF TimeSlice, u
  <2> HIDE DEF C
  <2> QED
    BY <2>3, <2>4, <2>5
<1> QED
  BY <1>2, <1>3

\* Round robin.
LEMMA RestateSlice ==
    ASSUME NEW c, KInv(c, {}), NEW D \in [Task -> State], IsReady(c, c.ACTIVE_PTR),
           D[c.ACTIVE_PTR] = "READY" \/ c.ACTIVE_PTR \notin c.TIME_SLICE_TASK
    PROVE  TimeSlice(Restate(c, D)) = Restate(TimeSlice(c), D)
<1> DEFINE j == Restate(c, D)
           u == UnlinkReady(c, c.ACTIVE_PTR)
           m == c.CURRENT_TIME_SLICE[c.ACTIVE_PTR] + 1
           C == [c.CURRENT_TIME_SLICE EXCEPT ![c.ACTIVE_PTR] =
                    IF m > MaxTimeSlice THEN MaxTimeSlice ELSE m]
<1>1. /\ c \in Kernel /\ c.ACTIVE_PTR \in Task
      /\ j.ACTIVE_PTR = c.ACTIVE_PTR /\ j.TIME_SLICE_TASK = c.TIME_SLICE_TASK
      /\ j.PREEMPTION_DISABLED = c.PREEMPTION_DISABLED /\ j.TIME_SLICE = c.TIME_SLICE
      /\ j.CURRENT_TIME_SLICE = c.CURRENT_TIME_SLICE
  BY RestateFields, KernelFields DEF KInv
<1>2. u \in Kernel
  BY <1>1, UnlinkReadyInv DEF KInv
<1>3. D[c.ACTIVE_PTR] = "READY" => [D EXCEPT ![c.ACTIVE_PTR] = "READY"] = D
  BY <1>1
<1>4. D[c.ACTIVE_PTR] = "READY" =>
         TASK_READY(UnlinkReady(j, c.ACTIVE_PTR), c.ACTIVE_PTR)
            = Restate(TASK_READY(u, c.ACTIVE_PTR), D)
  <2>1. UnlinkReady(j, c.ACTIVE_PTR) = Restate(u, D)
    BY <1>1, RestateUnlink
  <2> HIDE DEF u, j
  <2> QED
    BY <1>1, <1>2, <1>3, <2>1, RestateReady
<1>5. [j EXCEPT !.CURRENT_TIME_SLICE = C] = Restate([c EXCEPT !.CURRENT_TIME_SLICE = C], D)
  <2> HIDE DEF C
  <2> QED
    BY <1>1 DEF Restate, Kernel
<1>6. ASSUME NEW i
      PROVE  TimeSlice(i) =
                IF i.ACTIVE_PTR \notin i.TIME_SLICE_TASK THEN i
                ELSE IF /\ i.ACTIVE_PTR \notin i.PREEMPTION_DISABLED
                        /\ i.CURRENT_TIME_SLICE[i.ACTIVE_PTR] + 1 >= i.TIME_SLICE[i.ACTIVE_PTR]
                     THEN TASK_READY(UnlinkReady(i, i.ACTIVE_PTR), i.ACTIVE_PTR)
                     ELSE [i EXCEPT !.CURRENT_TIME_SLICE =
                              [i.CURRENT_TIME_SLICE EXCEPT ![i.ACTIVE_PTR] =
                                  IF i.CURRENT_TIME_SLICE[i.ACTIVE_PTR] + 1 > MaxTimeSlice
                                  THEN MaxTimeSlice
                                  ELSE i.CURRENT_TIME_SLICE[i.ACTIVE_PTR] + 1]]
  BY DEF TimeSlice
<1> DEFINE P == c.ACTIVE_PTR \notin c.TIME_SLICE_TASK
           Q == c.ACTIVE_PTR \notin c.PREEMPTION_DISABLED /\ m >= c.TIME_SLICE[c.ACTIVE_PTR]
<1>7. TimeSlice(c) = IF P THEN c ELSE IF Q THEN TASK_READY(u, c.ACTIVE_PTR)
                     ELSE [c EXCEPT !.CURRENT_TIME_SLICE = C]
  BY <1>6
<1>8. TimeSlice(j) = IF P THEN j
                     ELSE IF Q THEN TASK_READY(UnlinkReady(j, c.ACTIVE_PTR), c.ACTIVE_PTR)
                     ELSE [j EXCEPT !.CURRENT_TIME_SLICE = C]
  <2> HIDE DEF j
  <2> QED
    BY <1>1, <1>6
<1>9. D[c.ACTIVE_PTR] = "READY" \/ P
  OBVIOUS
<1> HIDE DEF P, Q, C, u, m
<1> QED
  BY <1>4, <1>5, <1>7, <1>8, <1>9

\* The timer interrupt.
LEMMA RestateTick ==
    ASSUME NEW c, KInv(c, {}), IsReady(c, c.ACTIVE_PTR), NEW D \in [Task -> State],
           \A t \in c.ON_TIMEOUT_Q : D[t] = c.TD_STATE[t],
           D[c.ACTIVE_PTR] = "READY" \/ c.ACTIVE_PTR \notin c.TIME_SLICE_TASK
    PROVE  LET v == IsrReturn(time_notify_kernel(c))
           IN  \E S \in SUBSET c.ON_TIMEOUT_Q :
                  /\ IsrReturn(time_notify_kernel(Restate(c, D))) = Restate(v, ReadyStates(D, S))
                  /\ v.TD_STATE = ReadyStates(c.TD_STATE, S)
                  /\ v.TIME_SLICE_TASK = c.TIME_SLICE_TASK
<1> DEFINE f == [t \in Task |-> IF t \in c.ON_TIMEOUT_Q THEN c.TIMEOUT[t] - 1
                                                        ELSE c.TIMEOUT[t]]
           j == Restate(c, D)
           i == IncTime(c)
           e == Expire(i)
           s == TimeSlice(e)
           v == IsrReturn(s)
           S == DueTasks(i)
           E == ReadyStates(D, S)
<1>1. /\ c \in Kernel /\ c.ACTIVE_PTR \in Task /\ c.TD_STATE \in [Task -> State]
      /\ c.ON_TIMEOUT_Q \in SUBSET Task
      /\ j.TIMEOUT = c.TIMEOUT /\ j.ON_TIMEOUT_Q = c.ON_TIMEOUT_Q
  BY KernelFields, RestateFields DEF KInv
<1>2. /\ i = [c EXCEPT !.TIMEOUT = f] /\ IncTime(j) = [j EXCEPT !.TIMEOUT = f]
  <2>1. i = [c EXCEPT !.TIMEOUT = f]
    BY DEF IncTime
  <2> HIDE DEF j
  <2>2. IncTime(j) = [j EXCEPT !.TIMEOUT = f]
    BY <1>1 DEF IncTime
  <2> QED
    BY <2>1, <2>2
<1>3. /\ IncTime(j) = Restate(i, D) /\ i.TD_STATE = c.TD_STATE
      /\ i.ON_TIMEOUT_Q = c.ON_TIMEOUT_Q
  <2> HIDE DEF f, i
  <2> QED
    BY <1>1, <1>2 DEF Restate, Kernel
<1>4. KInv(i, {}) /\ i.ACTIVE_PTR = c.ACTIVE_PTR /\ IsReady(i, i.ACTIVE_PTR)
  BY <1>1, IncTimeInv
<1> HIDE DEF i
<1>5. /\ Expire(Restate(i, D)) = Restate(e, E) /\ S \in SUBSET c.ON_TIMEOUT_Q
      /\ Expire(Restate(i, c.TD_STATE)) = Restate(e, ReadyStates(c.TD_STATE, S))
  BY <1>3, <1>4, RestateExpire
<1>6. KInv(e, {}) /\ e.ACTIVE_PTR = c.ACTIVE_PTR /\ IsReady(e, e.ACTIVE_PTR) /\ e \in Kernel
  BY <1>1, <1>4, ExpireInv DEF KInv
<1> HIDE DEF S
<1>7. e.TD_STATE = ReadyStates(c.TD_STATE, S)
  <2>1. i \in Kernel /\ Restate(i, i.TD_STATE) = i
    BY <1>4, RestateFields DEF KInv
  <2>2. e = Restate(e, ReadyStates(c.TD_STATE, S))
    BY <1>3, <1>5, <2>1
  <2> HIDE DEF e
  <2> QED
    BY <1>6, <2>2, RestateFields
<1>8. E \in [Task -> State] /\ (D[c.ACTIVE_PTR] = "READY" => E[c.ACTIVE_PTR] = "READY")
  BY <1>1, States DEF ReadyStates
<1>15. e.TIME_SLICE_TASK = c.TIME_SLICE_TASK
  <2>1. i.TIME_SLICE_TASK = c.TIME_SLICE_TASK
    BY <1>1, SliceTasksKept DEF i
  <2> QED
    BY <1>4, <2>1, TickSliceTasks
<1> HIDE DEF e, E
<1>9. TimeSlice(Restate(e, E)) = Restate(s, E)
  BY <1>6, <1>8, <1>15, RestateSlice
<1>10. s \in Kernel /\ OnlySwitched(e, s)
  BY <1>6, TimeSliceInv, TimeSliceFrame DEF KInv
<1>16. s.TIME_SLICE_TASK = c.TIME_SLICE_TASK
  BY <1>6, <1>15, TickSliceTasks
<1> HIDE DEF s
<1>11. IsrReturn(Restate(s, E)) = Restate(v, E) /\ OnlySwitched(s, v)
  BY <1>10, RestateSchedule, SwitchFrame
<1>17. v.TIME_SLICE_TASK = c.TIME_SLICE_TASK
  BY <1>1, <1>10, <1>16, SliceTasksKept
<1>12. v = IsrReturn(time_notify_kernel(c))
  BY DEF v, s, e, i, time_notify_kernel
<1> HIDE DEF v
<1>13. IsrReturn(time_notify_kernel(j)) = Restate(v, E)
  BY <1>3, <1>5, <1>9, <1>11 DEF time_notify_kernel
<1>14. v.TD_STATE = ReadyStates(c.TD_STATE, S)
  BY <1>7, <1>10, <1>11 DEF OnlySwitched
<1> QED
  BY <1>5, <1>12, <1>13, <1>14, <1>17 DEF E

(***************************************************************************)
(* The kernel without its wait queues: _task_block and _task_ready.          *)
(***************************************************************************)
\* What _task_block does, to either kernel.
LEMMA RestateBlock ==
    ASSUME NEW c, Unscheduled(c), NEW a \in Task, a = c.ACTIVE_PTR, a # Idle,
           NEW D \in [Task -> State], D[a] = "READY"
    PROVE  LET v == TaskBlock(c)
           IN  /\ Consistent(v)
               /\ TaskBlock(Restate(c, D)) = Restate(v, [D EXCEPT ![a] = "BLOCKED"])
               /\ v.TD_STATE = [c.TD_STATE EXCEPT ![a] = "BLOCKED"]
               /\ v.QUEUE = c.QUEUE /\ v.INFO = c.INFO /\ v.ON_TIMEOUT_Q = c.ON_TIMEOUT_Q
<1> DEFINE j == Restate(c, D)
           E == [D EXCEPT ![a] = "BLOCKED"]
           F == [c.TD_STATE EXCEPT ![a] = "BLOCKED"]
           g == [c EXCEPT !.TD_STATE = F]
           u == UnlinkReady(g, a)
           v == TaskBlock(c)
<1>1. /\ c \in Kernel /\ KInv(c, {}) /\ WaitInv(c) /\ IsReady(c, a)
      /\ c.TD_STATE \in [Task -> State] /\ c.TD_STATE[a] = "READY"
      /\ c.QUEUE \in [Queue -> Seq(Task)] /\ c.ON_TIMEOUT_Q \in SUBSET Task
      /\ a \notin c.ON_TIMEOUT_Q
  BY KernelFields DEF Unscheduled, KInv, IsReady
<1>2. /\ j.ACTIVE_PTR = a /\ j.TD_STATE = D
  BY <1>1, RestateFields
<1>3. TaskBlock(c) = Dispatch(u)
  BY <1>1 DEF TaskBlock
<1>4. TaskBlock(j) = Dispatch(UnlinkReady([j EXCEPT !.TD_STATE = E], a))
  <2> HIDE DEF j
  <2> QED
    BY <1>2 DEF TaskBlock
<1>5. F \in [Task -> State] /\ F[a] = "BLOCKED"
      /\ \A t \in Task \ {a} : F[t] = c.TD_STATE[t]
  BY <1>1, States
<1> HIDE DEF E, F
<1>6. /\ g \in Kernel /\ [j EXCEPT !.TD_STATE = E] = Restate(g, E)
      /\ g.TD_STATE = F /\ g.QUEUE = c.QUEUE /\ g.INFO = c.INFO
      /\ g.ON_TIMEOUT_Q = c.ON_TIMEOUT_Q /\ g.READY_Q = c.READY_Q /\ g.MY_QUEUE = c.MY_QUEUE
  BY <1>1, <1>5 DEF Restate, Kernel
<1> HIDE DEF g
<1>7. UnlinkReady(Restate(g, E), a) = Restate(u, E) /\ OnlySwitched(g, u)
  BY <1>6, RestateUnlink, UnlinkFrame
<1>8. u \in Kernel
  <2> DEFINE R == [g.READY_Q EXCEPT ![g.MY_QUEUE[a]] = Unlink(@, a)]
  <2>1. u = [g EXCEPT !.READY_Q = R]
    BY DEF UnlinkReady
  <2>2. R \in [Priority -> Seq(Task)]
    BY <1>6, KernelFields, UnlinkElems
  <2> HIDE DEF R
  <2> QED
    BY <1>6, <2>1, <2>2 DEF Kernel
<1> HIDE DEF u
<1>9. Dispatch(Restate(u, E)) = Restate(v, E) /\ OnlySwitched(u, v)
  BY <1>3, <1>8, RestateDispatch, SwitchFrame
<1>10. KInv(v, {}) /\ RunningOK(v)
  BY TaskBlockInv, TopIsRunning DEF Unscheduled
<1> HIDE DEF v
<1>11. /\ v.TD_STATE = F /\ v.QUEUE = c.QUEUE /\ v.INFO = c.INFO
       /\ v.ON_TIMEOUT_Q = c.ON_TIMEOUT_Q
  BY <1>6, <1>7, <1>9 DEF OnlySwitched
<1>12. WaitInv(v)
  <2>1. \A t \in Task : v.TD_STATE[t] \in WaitStates <=> c.TD_STATE[t] \in WaitStates
    BY <1>1, <1>5, <1>11, States
  <2>2. WaitQueuesOK(v, {})
    BY <1>1, <1>11, <2>1 DEF WaitInv, WaitQueuesOK, WaitStates
  <2>3. \A t \in v.ON_TIMEOUT_Q : v.TD_STATE[t] \notin QueueStates
    BY <1>1, <1>5, <1>11 DEF WaitInv
  <2> QED
    BY <2>2, <2>3 DEF WaitInv
<1>13. TaskBlock(j) = Restate(v, E)
  BY <1>4, <1>6, <1>7, <1>9
<1> QED
  BY <1>10, <1>11, <1>12, <1>13 DEF Consistent, v, E, F

\* _TASK_READY of a task that is on no queue.
LEMMA ReadyWait ==
    ASSUME NEW c, Unscheduled(c), NEW t \in Task, c.TD_STATE[t] # "READY",
           c.TD_STATE[t] \notin WaitStates, t \notin c.ON_TIMEOUT_Q
    PROVE  LET v == TASK_READY(c, t)
           IN  /\ Unscheduled(v)
               /\ v.TD_STATE = [c.TD_STATE EXCEPT ![t] = "READY"]
               /\ v.QUEUE = c.QUEUE /\ v.INFO = c.INFO /\ v.ON_TIMEOUT_Q = c.ON_TIMEOUT_Q
               /\ v.ACTIVE_PTR = c.ACTIVE_PTR
<1> DEFINE v == TASK_READY(c, t)
<1>1. /\ c \in Kernel /\ KInv(c, {}) /\ WaitInv(c) /\ IsReady(c, c.ACTIVE_PTR)
      /\ c.ACTIVE_PTR \in Task /\ c.TD_STATE \in [Task -> State]
      /\ c.ON_TIMEOUT_Q \in SUBSET Task
  BY KernelFields DEF Unscheduled, KInv
<1>2. /\ v.TD_STATE = [c.TD_STATE EXCEPT ![t] = "READY"]
      /\ v.ON_TIMEOUT_Q = c.ON_TIMEOUT_Q /\ v.ACTIVE_PTR = c.ACTIVE_PTR
      /\ v.QUEUE = c.QUEUE /\ v.INFO = c.INFO
  BY <1>1, TaskReadyFrame
<1>3. KInv(v, {} \ {t}) /\ \A u \in Task : IsReady(v, u) <=> u = t \/ IsReady(c, u)
  BY <1>1, TaskReadyInv
<1>4. KInv(v, {})
  <2>1. {} \ {t} = {}
    OBVIOUS
  <2> QED
    BY <1>3, <2>1
<1> HIDE DEF v
<1>5. WaitInv(v)
  <2>1. \A u \in Task : v.TD_STATE[u] \in WaitStates <=> c.TD_STATE[u] \in WaitStates
    BY <1>1, <1>2, States
  <2>2. WaitQueuesOK(v, {})
    BY <1>1, <1>2, <2>1 DEF WaitInv, WaitQueuesOK, WaitStates
  <2>3. \A u \in v.ON_TIMEOUT_Q : v.TD_STATE[u] \notin QueueStates
    BY <1>1, <1>2 DEF WaitInv
  <2> QED
    BY <2>2, <2>3 DEF WaitInv
<1> QED
  BY <1>1, <1>2, <1>3, <1>4, <1>5 DEF Unscheduled, v

\* The first waiter of o told that what it waits for is there.  _TIME_DEQUEUE does
\* nothing for a task that is not on the timeout queue, and a sender never is.
LEMMA RestateHandOver ==
    ASSUME NEW c, Unscheduled(c), NEW o \in Queue, c.QUEUE[o] # <<>>, NEW i \in Info,
           NEW D \in [Task -> State], NEW t, t = Head(c.QUEUE[o]),
           t \notin c.ON_TIMEOUT_Q \/ D[t] # "READY"
    PROVE  HandedOver(Restate(c, D), o, i) = Restate(HandedOver(c, o, i), ReadyStates(D, {t}))
<1> DEFINE W == [c.QUEUE EXCEPT ![o] = Tail(@)]
           g == [c EXCEPT !.QUEUE = W]
           d == TIME_DEQUEUE(g, t)
           I == [c.INFO EXCEPT ![t] = i]
           h == [d EXCEPT !.INFO = I]
           j == Restate(c, D)
<1>1. /\ c \in Kernel /\ WaitInv(c) /\ c.QUEUE \in [Queue -> Seq(Task)]
      /\ c.QUEUE[o] \in Seq(Task) /\ c.INFO \in [Task -> Info]
      /\ c.TD_STATE \in [Task -> State]
  BY KernelFields DEF Unscheduled, KInv
<1>2. t \in Task /\ t \in Elems(c.QUEUE[o]) /\ Tail(c.QUEUE[o]) \in Seq(Task)
  BY <1>1, EmptyQueue
<1>3. c.TD_STATE[t] # "READY"
  BY <1>1, <1>2, States DEF WaitInv, WaitQueuesOK, WaitStates
<1>4. W \in [Queue -> Seq(Task)] /\ I \in [Task -> Info]
  BY <1>1, <1>2
<1>5. j.QUEUE = c.QUEUE /\ j.INFO = c.INFO /\ j.ON_TIMEOUT_Q = c.ON_TIMEOUT_Q
  BY <1>1, RestateFields
<1>6. /\ [c EXCEPT !.QUEUE[o] = Tail(@)] = g
      /\ [j EXCEPT !.QUEUE[o] = Tail(@)] = [j EXCEPT !.QUEUE = W]
  BY <1>5
<1> HIDE DEF W
<1>7. /\ g \in Kernel /\ [j EXCEPT !.QUEUE = W] = Restate(g, D)
      /\ g.TD_STATE = c.TD_STATE /\ g.INFO = c.INFO /\ g.ON_TIMEOUT_Q = c.ON_TIMEOUT_Q
  BY <1>1, <1>4 DEF Restate, Kernel
<1> HIDE DEF g
<1>8. TIME_DEQUEUE(Restate(g, D), t) = Restate(d, D)
  <2>1. CASE t \in c.ON_TIMEOUT_Q
    <3>1. D[t] # "READY"
      BY <2>1
    <3> QED
      BY <1>2, <1>3, <1>7, <3>1, RestateDequeue
  <2>2. CASE t \notin c.ON_TIMEOUT_Q
    <3>1. d = g
      BY <1>7, <2>2 DEF TIME_DEQUEUE
    <3>2. Restate(g, D).ON_TIMEOUT_Q = c.ON_TIMEOUT_Q
      BY <1>7, RestateFields
    <3> DEFINE e == Restate(g, D)
    <3> HIDE DEF e
    <3>3. TIME_DEQUEUE(e, t) = e
      BY <2>2, <3>2 DEF TIME_DEQUEUE, e
    <3> QED
      BY <3>1, <3>3 DEF e
  <2> QED
    BY <2>1, <2>2
<1>9. d \in Kernel /\ d.INFO = c.INFO /\ (t \notin c.ON_TIMEOUT_Q => d = g)
  <2>1. KInv(g, {})
    <3>1. /\ g.READY_Q = c.READY_Q /\ g.CURRENT_READY_Q = c.CURRENT_READY_Q
          /\ g.MY_QUEUE = c.MY_QUEUE /\ g.TIMEOUT_QUEUE = c.TIMEOUT_QUEUE
          /\ g.TIMEOUT = c.TIMEOUT
      BY <1>1 DEF g, Kernel
    <3> QED
      BY <1>7, <3>1, Frame DEF Unscheduled
  <2>2. d \in Kernel
    BY <1>2, <2>1, TimeDequeueInv DEF KInv
  <2>3. d.INFO = c.INFO
    BY <1>2, <1>3, <1>7, TimeDequeueFrame
  <2>4. t \notin c.ON_TIMEOUT_Q => d = g
    BY <1>7 DEF TIME_DEQUEUE
  <2> QED
    BY <2>2, <2>3, <2>4
<1> HIDE DEF d
<1>10. /\ [d EXCEPT !.INFO[t] = i] = h
       /\ [Restate(d, D) EXCEPT !.INFO[t] = i] = [Restate(d, D) EXCEPT !.INFO = I]
  BY <1>9, RestateFields
<1> HIDE DEF I
<1>11. h \in Kernel /\ [Restate(d, D) EXCEPT !.INFO = I] = Restate(h, D)
  BY <1>4, <1>9 DEF Restate, Kernel
<1> HIDE DEF h
<1>12. TASK_READY(Restate(h, D), t) = Restate(TASK_READY(h, t), [D EXCEPT ![t] = "READY"])
  BY <1>2, <1>11, RestateReady
<1>13. HandedOver(c, o, i) = TASK_READY(h, t)
  BY <1>6, <1>10 DEF HandedOver, d
<1>14. HandedOver(j, o, i) = TASK_READY(Restate(h, D), t)
  <2>1. Head(j.QUEUE[o]) = t
    BY <1>5
  <2>2. TIME_DEQUEUE([j EXCEPT !.QUEUE[o] = Tail(@)], t) = Restate(d, D)
    BY <1>6, <1>7, <1>8
  <2> HIDE DEF j
  <2> QED
    BY <1>10, <1>11, <2>1, <2>2 DEF HandedOver
<1>15. [D EXCEPT ![t] = "READY"] = ReadyStates(D, {t})
  BY <1>2 DEF ReadyStates
<1> QED
  BY <1>2, <1>12, <1>13, <1>14, <1>15

\* A waiter that has no timeout is just taken off its wait queue.
LEMMA UntimedHandOver ==
    ASSUME NEW c \in Kernel, NEW o \in Queue, NEW i, NEW t, t = Head(c.QUEUE[o]),
           t \notin c.ON_TIMEOUT_Q
    PROVE  TASK_READY([c EXCEPT !.QUEUE[o] = Tail(@), !.INFO[t] = i], t) = HandedOver(c, o, i)
<1> DEFINE W == [c.QUEUE EXCEPT ![o] = Tail(@)]
           g == [c EXCEPT !.QUEUE = W]
<1>1. [c EXCEPT !.QUEUE[o] = Tail(@)] = g
  OBVIOUS
<1>2. g.ON_TIMEOUT_Q = c.ON_TIMEOUT_Q /\ g.INFO = c.INFO
  <2> HIDE DEF W
  <2> QED
    BY DEF Kernel
<1>3. [g EXCEPT !.INFO[t] = i] = [c EXCEPT !.QUEUE[o] = Tail(@), !.INFO[t] = i]
  <2> DEFINE I == [c.INFO EXCEPT ![t] = i]
  <2>1. [g EXCEPT !.INFO[t] = i] = [g EXCEPT !.INFO = I]
    BY <1>2
  <2>2. [c EXCEPT !.QUEUE[o] = Tail(@), !.INFO[t] = i] = [c EXCEPT !.QUEUE = W, !.INFO = I]
    BY DEF Kernel
  <2> HIDE DEF W, I
  <2> QED
    BY <2>1, <2>2 DEF Kernel
<1> HIDE DEF g
<1>4. TIME_DEQUEUE(g, t) = g
  BY <1>2 DEF TIME_DEQUEUE
<1> QED
  BY <1>1, <1>3, <1>4 DEF HandedOver
=============================================================================
