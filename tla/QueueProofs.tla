----------------------------- MODULE QueueProofs -----------------------------
(***************************************************************************)
(* Facts about queues, about what is counted in them, and about numbers,   *)
(* for the proofs about the components.                                    *)
(***************************************************************************)
EXTENDS Loops, SequencesExt, SequenceTheorems, FunctionTheorems, FiniteSetTheorems, TLAPS

(* Sequences in which every element occurs once. *)

\* An element put behind a queue.
LEMMA AppendOnce ==
  ASSUME NEW S, NEW s \in Seq(S), NEW e \in S
  PROVE  /\ Append(s, e) \in Seq(S) /\ Len(Append(s, e)) = Len(s) + 1
         /\ ToSet(Append(s, e)) = ToSet(s) \cup {e}
         /\ IsInjective(s) /\ e \notin ToSet(s) => IsInjective(Append(s, e))
<1> DEFINE t == Append(s, e)
<1>1. /\ t \in Seq(S) /\ Len(t) = Len(s) + 1 /\ Len(s) \in Nat
      /\ DOMAIN s = 1 .. Len(s) /\ DOMAIN t = 1 .. Len(s) + 1
      /\ \A i \in DOMAIN s : t[i] = s[i]
      /\ t[Len(s) + 1] = e
  OBVIOUS
<1> HIDE DEF t
<1>2. DOMAIN t = DOMAIN s \cup {Len(s) + 1} /\ Len(s) + 1 \notin DOMAIN s
  BY <1>1
<1>3. ToSet(t) = ToSet(s) \cup {e}
  BY <1>1, <1>2 DEF ToSet
<1>4. IsInjective(s) /\ e \notin ToSet(s) => IsInjective(t)
  BY <1>1, <1>2 DEF ToSet, IsInjective
<1> QED BY <1>1, <1>3, <1>4 DEF t

\* The first element taken out.
LEMMA TailOnce ==
  ASSUME NEW S, NEW s \in Seq(S), s # <<>>
  PROVE  /\ Head(s) \in S /\ Tail(s) \in Seq(S) /\ Len(Tail(s)) = Len(s) - 1
         /\ ToSet(s) = ToSet(Tail(s)) \cup {Head(s)}
         /\ IsInjective(s) => IsInjective(Tail(s)) /\ Head(s) \notin ToSet(Tail(s))
<1> DEFINE t == Tail(s)
<1>1. /\ Head(s) = s[1] /\ s[1] \in S /\ t \in Seq(S) /\ Len(t) = Len(s) - 1
      /\ \A i \in 1 .. Len(t) : t[i] = s[i + 1]
      /\ Len(s) \in Nat \ {0} /\ DOMAIN s = 1 .. Len(s) /\ DOMAIN t = 1 .. Len(t)
  BY HeadTailProperties
<1> HIDE DEF t
<1>2. ToSet(s) = ToSet(t) \cup {Head(s)}
  <2>1. ASSUME NEW i \in DOMAIN s PROVE s[i] \in ToSet(t) \cup {Head(s)}
    <3>1. CASE i = 1
      BY <3>1, <1>1
    <3>2. CASE i # 1
      <4>1. i - 1 \in DOMAIN t /\ t[i - 1] = s[i]
        BY <3>2, <1>1
      <4> QED BY <4>1 DEF ToSet
    <3> QED BY <3>1, <3>2
  <2>2. ASSUME NEW i \in DOMAIN t PROVE t[i] \in ToSet(s)
    <3>1. i + 1 \in DOMAIN s /\ t[i] = s[i + 1]
      BY <1>1
    <3> QED BY <3>1 DEF ToSet
  <2>3. Head(s) \in ToSet(s)
    BY <1>1 DEF ToSet
  <2> QED BY <2>1, <2>2, <2>3 DEF ToSet
<1>3. ASSUME IsInjective(s) PROVE IsInjective(t) /\ Head(s) \notin ToSet(t)
  <2>1. \A i \in DOMAIN t : i + 1 \in DOMAIN s /\ t[i] = s[i + 1]
    BY <1>1
  <2>2. 1 \in DOMAIN s /\ \A i \in DOMAIN t : i \in Nat /\ i + 1 # 1
    BY <1>1
  <2>3. \A i \in DOMAIN t : t[i] # s[1]
    BY <1>3, <2>1, <2>2 DEF IsInjective
  <2>4. ASSUME NEW i \in DOMAIN t, NEW j \in DOMAIN t, t[i] = t[j] PROVE i = j
    <3>1. i + 1 = j + 1
      BY <1>3, <2>1, <2>4 DEF IsInjective
    <3> QED BY <2>2, <3>1
  <2> QED BY <1>1, <2>3, <2>4 DEF IsInjective, ToSet
<1> QED BY <1>1, <1>2, <1>3 DEF t
-----------------------------------------------------------------------------
(* One element taken out of the middle, and how often an element occurs. *)

\* RemoveAt, by places.
LEMMA RemoveAtLaws ==
  ASSUME NEW S, NEW s \in Seq(S), NEW i \in DOMAIN s
  PROVE  /\ RemoveAt(s, i) \in Seq(S) /\ Len(RemoveAt(s, i)) = Len(s) - 1
         /\ \A j \in 1 .. Len(s) - 1 : RemoveAt(s, i)[j] = IF j < i THEN s[j] ELSE s[j + 1]
<1>1. /\ Len(s) \in Nat /\ i \in 1 .. Len(s)
  OBVIOUS
<1> DEFINE x == SubSeq(s, 1, i - 1)
           y == SubSeq(s, i + 1, Len(s))
<1>2. /\ x \in Seq(S) /\ Len(x) = i - 1 /\ \A j \in 1 .. i - 1 : x[j] = s[j]
  BY <1>1
<1>3. /\ y \in Seq(S) /\ Len(y) = Len(s) - i /\ \A j \in 1 .. Len(s) - i : y[j] = s[j + i]
  BY <1>1
<1> HIDE DEF x, y
<1>4. x \o y \in Seq(S) /\ Len(x \o y) = Len(s) - 1
  BY <1>1, <1>2, <1>3
<1>5. ASSUME NEW j \in 1 .. Len(s) - 1 PROVE (x \o y)[j] = IF j < i THEN s[j] ELSE s[j + 1]
  <2>0. (x \o y)[j] = IF j <= Len(x) THEN x[j] ELSE y[j - Len(x)]
    <3>1. j \in 1 .. Len(x) + Len(y)
      BY <1>1, <1>2, <1>3
    <3>2. \A u, v \in Seq(S) : \A m \in 1 .. Len(u) + Len(v) :
            (u \o v)[m] = IF m <= Len(u) THEN u[m] ELSE v[m - Len(u)]
      BY ConcatProperties
    <3> QED BY <1>2, <1>3, <3>1, <3>2
  <2>1. CASE j < i
    <3>1. (x \o y)[j] = x[j]
      BY <1>1, <1>2, <2>0, <2>1
    <3> QED BY <1>1, <1>2, <2>1, <3>1
  <2>2. CASE j >= i
    <3>1. (x \o y)[j] = y[j - (i - 1)]
      BY <1>1, <1>2, <2>0, <2>2
    <3>2. j - (i - 1) \in 1 .. Len(s) - i /\ j - (i - 1) + i = j + 1
      BY <1>1, <2>2
    <3>3. y[j - (i - 1)] = s[j - (i - 1) + i]
      BY <1>3, <3>2
    <3>4. ~(j < i)
      BY <1>1, <2>2
    <3> QED BY <3>1, <3>2, <3>3, <3>4
  <2>3. j < i \/ j >= i
    BY <1>1
  <2> QED BY <2>1, <2>2, <2>3
<1> QED BY <1>4, <1>5 DEF RemoveAt, x, y

\* What is left of a sequence behind its first k elements.
LEMMA SuffixLaws ==
  ASSUME NEW S, NEW s \in Seq(S), NEW k \in 0 .. Len(s)
  PROVE  /\ SubSeq(s, k + 1, Len(s)) \in Seq(S)
         /\ Len(SubSeq(s, k + 1, Len(s))) = Len(s) - k
         /\ \A i \in 1 .. Len(s) - k : SubSeq(s, k + 1, Len(s))[i] = s[k + i]
<1> DEFINE w == SubSeq(s, k + 1, Len(s))
<1>1. Len(s) \in Nat /\ k + 1 \in Int /\ Len(s) \in Int /\ \A i \in k + 1 .. Len(s) : s[i] \in S
  OBVIOUS
<1>2. /\ w \in Seq(S) /\ Len(w) = (IF k + 1 <= Len(s) THEN Len(s) - (k + 1) + 1 ELSE 0)
      /\ \A i \in 1 .. Len(s) - (k + 1) + 1 : w[i] = s[(k + 1) + i - 1]
  BY <1>1, SubSeqProperties
<1> HIDE DEF w
<1>3. Len(w) = Len(s) - k
  BY <1>1, <1>2
<1>4. ASSUME NEW i \in 1 .. Len(s) - k PROVE w[i] = s[k + i]
  <2>1. i \in 1 .. Len(s) - (k + 1) + 1 /\ (k + 1) + i - 1 = k + i
    BY <1>1
  <2> QED BY <1>2, <2>1
<1> QED BY <1>2, <1>3, <1>4 DEF w

\* A queue has as many of an element as there are places for it.
LEMMA OccurrencesType ==
  ASSUME NEW S, NEW s \in Seq(S), NEW a
  PROVE  /\ Occurrences(s, a) \in Nat /\ IsFiniteSet({i \in DOMAIN s : s[i] = a})
         /\ Occurrences(s, a) = 0 <=> a \notin ToSet(s)
<1> DEFINE D == {i \in DOMAIN s : s[i] = a}
<1>1. IsFiniteSet(D)
  <2>1. DOMAIN s = 1 .. Len(s) /\ Len(s) \in Nat
    OBVIOUS
  <2>2. IsFiniteSet(1 .. Len(s))
    BY <2>1, FS_Interval
  <2>3. D \in SUBSET (1 .. Len(s))
    BY <2>1
  <2> QED BY <2>2, <2>3, FS_Subset
<1>2. Cardinality(D) \in Nat /\ (Cardinality(D) = 0 <=> D = {})
  BY <1>1, FS_CardinalityType, FS_EmptySet
<1>3. D = {} <=> a \notin ToSet(s)
  BY DEF ToSet
<1> QED BY <1>1, <1>2, <1>3 DEF Occurrences

\* One more or one less of an element.
LEMMA OccurrencesAppend ==
  ASSUME NEW S, NEW s \in Seq(S), NEW e \in S, NEW a
  PROVE  Occurrences(Append(s, e), a) = Occurrences(s, a) + (IF e = a THEN 1 ELSE 0)
<1> DEFINE t == Append(s, e)
           D == {i \in DOMAIN s : s[i] = a}
           E == {i \in DOMAIN t : t[i] = a}
           n == Len(s) + 1
<1>1. /\ n \notin DOMAIN s /\ DOMAIN t = DOMAIN s \cup {n}
      /\ \A i \in DOMAIN s : t[i] = s[i]
      /\ t[n] = e
  OBVIOUS
<1>2. IsFiniteSet(D) /\ Cardinality(D) \in Nat
  BY OccurrencesType, FS_CardinalityType
<1> HIDE DEF t, n
<1>3. E = IF e = a THEN D \cup {n} ELSE D
  BY <1>1
<1>4. n \notin D
  BY <1>1
<1> HIDE DEF D, E
<1>5. Cardinality(D \cup {n}) = Cardinality(D) + 1
  BY <1>2, <1>4, FS_AddElement
<1>6. Cardinality(E) = Cardinality(D) + (IF e = a THEN 1 ELSE 0)
  BY <1>2, <1>3, <1>5
<1> QED BY <1>6 DEF Occurrences, D, E, t

\* Taking out one place of a sequence takes out one occurrence of what was there.
LEMMA OccurrencesRemoveAt ==
  ASSUME NEW S, NEW s \in Seq(S), NEW k \in DOMAIN s, NEW a
  PROVE  Occurrences(s, a) = Occurrences(RemoveAt(s, k), a) + (IF s[k] = a THEN 1 ELSE 0)
<1> DEFINE t == RemoveAt(s, k)
           D == {i \in DOMAIN s : s[i] = a}
           E == {i \in DOMAIN t : t[i] = a}
           up == [i \in E |-> IF i < k THEN i ELSE i + 1]
<1>1. /\ t \in Seq(S) /\ DOMAIN t = 1 .. Len(s) - 1 /\ DOMAIN s = 1 .. Len(s) /\ Len(s) \in Nat
      /\ \A j \in 1 .. Len(s) - 1 : t[j] = IF j < k THEN s[j] ELSE s[j + 1]
      /\ k \in 1 .. Len(s)
  BY RemoveAtLaws
<1>2. IsFiniteSet(D) /\ IsFiniteSet(E) /\ Cardinality(D) \in Nat /\ Cardinality(E) \in Nat
  BY <1>1, OccurrencesType, FS_CardinalityType
<1> HIDE DEF t
<1>3. up \in Bijection(E, D \ {k})
  <2>1. \A i \in E : up[i] \in D \ {k}
    BY <1>1
  <2>2. \A i, j \in E : up[i] = up[j] => i = j
    BY <1>1
  <2>3. ASSUME NEW j \in D \ {k} PROVE \E i \in E : up[i] = j
    <3>1. CASE j < k
      <4>1. j \in E /\ up[j] = j
        BY <1>1, <3>1
      <4> QED BY <4>1
    <3>2. CASE j > k
      <4>1. j - 1 \in E /\ up[j - 1] = j
        BY <1>1, <3>2
      <4> QED BY <4>1
    <3>3. j < k \/ j > k
      BY <1>1
    <3> QED BY <3>1, <3>2, <3>3
  <2> QED BY <2>1, <2>2, <2>3, Fun_IsBij
<1> HIDE DEF D, E
<1>4. Cardinality(D \ {k}) = Cardinality(E)
  <2>1. ExistsBijection(E, D \ {k})
    BY <1>3 DEF ExistsBijection
  <2> QED BY <1>2, <2>1, FS_Bijection
<1>5. k \in D <=> s[k] = a
  BY DEF D
<1>6. Cardinality(D \ {k}) = IF k \in D THEN Cardinality(D) - 1 ELSE Cardinality(D)
  BY <1>2, FS_RemoveElement
<1>7. Cardinality(D) = Cardinality(E) + (IF s[k] = a THEN 1 ELSE 0)
  BY <1>2, <1>4, <1>5, <1>6
<1> QED BY <1>7 DEF Occurrences, D, E, t

\* The first element taken out.
LEMMA OccurrencesTail ==
  ASSUME NEW S, NEW s \in Seq(S), s # <<>>, NEW a
  PROVE  Occurrences(s, a) = Occurrences(Tail(s), a) + (IF Head(s) = a THEN 1 ELSE 0)
<1>1. 1 \in DOMAIN s /\ Head(s) = s[1] /\ Len(s) \in Nat \ {0}
  OBVIOUS
<1>2. /\ RemoveAt(s, 1) \in Seq(S) /\ Len(RemoveAt(s, 1)) = Len(s) - 1
      /\ \A j \in 1 .. Len(s) - 1 : RemoveAt(s, 1)[j] = s[j + 1]
  <2>1. \A j \in 1 .. Len(s) - 1 : ~(j < 1)
    BY <1>1
  <2> QED BY <1>1, <2>1, RemoveAtLaws
<1>3. /\ Tail(s) \in Seq(S) /\ Len(Tail(s)) = Len(s) - 1
      /\ \A j \in 1 .. Len(s) - 1 : Tail(s)[j] = s[j + 1]
  BY HeadTailProperties
<1>4. Tail(s) = RemoveAt(s, 1)
  BY <1>1, <1>2, <1>3, SeqEqual
<1>5. Occurrences(s, a) = Occurrences(RemoveAt(s, 1), a) + (IF s[1] = a THEN 1 ELSE 0)
  BY <1>1, OccurrencesRemoveAt
<1> QED BY <1>1, <1>4, <1>5
-----------------------------------------------------------------------------
(* Division. *)

\* A number has one quotient and one rest.
LEMMA OneQuotient ==
  ASSUME NEW M \in Nat \ {0}, NEW q \in Int, NEW p \in Int,
         NEW r \in 0 .. M - 1, NEW s \in 0 .. M - 1, M * q + r = M * p + s
  PROVE  q = p /\ r = s
<1>1. CASE q - p >= 1
  <2>1. M * (q - p) >= M /\ M * (q - p) = s - r
    BY <1>1
  <2> QED BY <2>1
<1>2. CASE p - q >= 1
  <2>1. M * (p - q) >= M /\ M * (p - q) = r - s
    BY <1>2
  <2> QED BY <2>1
<1>3. CASE q = p
  BY <1>3
<1> QED BY <1>1, <1>2, <1>3

\* Every natural number has one.
LEMMA Division ==
  ASSUME NEW M \in Nat \ {0}, NEW a \in Nat
  PROVE  /\ a \div M \in Nat /\ a % M \in 0 .. M - 1 /\ a = M * (a \div M) + (a % M)
         /\ \A q \in Int, r \in 0 .. M - 1 : a = M * q + r => a \div M = q /\ a % M = r
<1>1. a \div M \in Int
  OBVIOUS
<1>2. a % M \in 0 .. M - 1
  OBVIOUS
<1>3. a = M * (a \div M) + (a % M)
  OBVIOUS
<1> DEFINE q == a \div M
           r == a % M
<1>4. q \in Int /\ r \in 0 .. M - 1 /\ a = M * q + r
  BY <1>1, <1>2, <1>3
<1> HIDE DEF q, r
<1>5. q >= 0
  <2> SUFFICES ASSUME q <= -1 PROVE FALSE
    BY <1>4
  <2>1. M * q <= -M
    BY <1>4
  <2> QED BY <1>4, <2>1
<1>6. \A p \in Int, s \in 0 .. M - 1 : a = M * p + s => q = p /\ r = s
  BY <1>4, OneQuotient
<1>7. q \in Nat /\ r \in 0 .. M - 1 /\ a = M * q + r
      /\ \A p \in Int, s \in 0 .. M - 1 : a = M * p + s => q = p /\ r = s
  BY <1>4, <1>5, <1>6
<1> QED BY ONLY <1>7, Zenon DEF q, r
-----------------------------------------------------------------------------
(* Numbers. *)

\* The induction over numbers of LoopProofs is about no loop.
Skip == INSTANCE LoopProofs WITH Body <- LAMBDA p, x, i : x

\* A set of numbers that has a bound has a least and a greatest one.
LEMMA LeastAndGreatest ==
  ASSUME NEW b \in Nat, NEW S \in SUBSET (0 .. b), S # {}
  PROVE  (\E l \in S : \A k \in S : l <= k) /\ (\E l \in S : \A k \in S : k <= l)
<1> DEFINE Has(T) == /\ \E l \in T : \A k \in T : l <= k
                     /\ \E l \in T : \A k \in T : k <= l
           N == {n \in Nat : \A T \in SUBSET (0 .. n) : T # {} => Has(T)}
<1>1. 0 \in N
  <2>1. \A T \in SUBSET (0 .. 0) : T # {} => T = {0}
    <3>1. 0 .. 0 = {0}
      OBVIOUS
    <3> QED BY <3>1
  <2>2. Has({0})
    OBVIOUS
  <2> QED BY <2>1, <2>2
<1>2. ASSUME NEW n \in Nat, n \in N PROVE n + 1 \in N
  <2>1. SUFFICES ASSUME NEW T \in SUBSET (0 .. n + 1), T # {} PROVE Has(T)
    OBVIOUS
  <2>2. CASE n + 1 \notin T
    <3>1. T \in SUBSET (0 .. n)
      BY <2>2
    <3> QED BY <1>2, <2>1, <3>1
  <2>3. CASE T = {n + 1}
    BY <2>3
  <2>4. CASE n + 1 \in T /\ T # {n + 1}
    <3> DEFINE R == T \ {n + 1}
    <3>1. R \in SUBSET (0 .. n) /\ R # {}
      BY <2>4
    <3>2. Has(R)
      BY <1>2, <3>1
    <3>3. PICK l \in R : \A k \in R : l <= k
      BY <3>2
    <3>4. l \in T /\ \A k \in T : l <= k /\ k <= n + 1
      BY <3>1, <3>3
    <3> QED BY <2>4, <3>4
  <2> QED BY <2>2, <2>3, <2>4
<1>3. b \in N
  <2> HIDE DEF N
  <2> QED BY <1>1, <1>2, Skip!NatSetInduction
<1> QED BY <1>3
-----------------------------------------------------------------------------
(* Sums. *)

\* The loop that adds up a sequence.
SumLoop == INSTANCE LoopProofs WITH Body <- LAMBDA q, sum, i : sum + q[i + 1]

\* A sum of naturals is a natural.
LEMMA TotalType ==
  ASSUME NEW q \in Seq(Nat)
  PROVE  Total(q) \in Nat
<1>1. Len(q) \in Nat /\ \A i \in 0 .. Len(q) - 1, sum \in Nat : sum + q[i + 1] \in Nat
  OBVIOUS
<1>2. SumLoop!After(q, 0, Len(q)) \in Nat
  BY <1>1, SumLoop!LoopKeeps
<1> QED BY <1>2 DEF SumLoop!After, Total, SumLoop!Repeat, Repeat

\* A sum grows by what is appended and shrinks by what is taken away.
LEMMA TotalAppend ==
  ASSUME NEW q \in Seq(Nat), NEW x \in Nat
  PROVE  Total(Append(q, x)) = Total(q) + x
<1> DEFINE a == Append(q, x)
           Sum(r, i) == SumLoop!After(r, 0, i)
           S == {i \in Nat : i <= Len(q) => Sum(a, i) = Sum(q, i)}
<1>1. /\ Len(a) = Len(q) + 1 /\ a[Len(q) + 1] = x /\ Len(q) \in Nat
      /\ \A i \in 1 .. Len(q) : a[i] = q[i]
  OBVIOUS
<1>2. \A r : /\ Sum(r, 0) = 0 /\ Total(r) = Sum(r, Len(r))
             /\ \A i \in Nat : Sum(r, i + 1) = Sum(r, i) + r[i + 1]
  <2>1. \A r : Total(r) = Sum(r, Len(r))
    BY DEF SumLoop!After, Total, SumLoop!Repeat, Repeat
  <2> QED BY <2>1, SumLoop!AfterZero, SumLoop!AfterStep
<1> HIDE DEF a, Sum
<1>3. 0 \in S
  BY <1>2
<1>4. ASSUME NEW i \in Nat, i \in S PROVE i + 1 \in S
  <2>1. SUFFICES ASSUME i + 1 <= Len(q) PROVE Sum(a, i + 1) = Sum(q, i + 1)
    OBVIOUS
  <2>2. a[i + 1] = q[i + 1] /\ Sum(a, i) = Sum(q, i)
    BY <1>1, <1>4, <2>1
  <2>3. Sum(a, i + 1) = Sum(a, i) + a[i + 1] /\ Sum(q, i + 1) = Sum(q, i) + q[i + 1]
    BY <1>2
  <2> QED BY <2>2, <2>3
<1>5. Len(q) \in S
  <2> HIDE DEF S
  <2> QED BY <1>1, <1>3, <1>4, SumLoop!NatSetInduction
<1>6. Sum(a, Len(q)) = Sum(q, Len(q))
  BY <1>5
<1>7. Sum(a, Len(q) + 1) = Sum(a, Len(q)) + a[Len(q) + 1]
  BY <1>1, <1>2
<1>8. Total(a) = Sum(a, Len(a)) /\ Total(q) = Sum(q, Len(q))
  BY <1>2
<1>9. Total(a) = Total(q) + x
  BY <1>1, <1>6, <1>7, <1>8
<1> QED BY <1>9 DEF a

\* A sum over a buffer shrinks by the number at its head.
LEMMA TotalTail ==
  ASSUME NEW q \in Seq(Nat), q # <<>>
  PROVE  Total(q) = Total(Tail(q)) + Head(q)
<1> DEFINE t == Tail(q)
           x == Head(q)
           Sum(r, i) == SumLoop!After(r, 0, i)
           S == {i \in Nat : i <= Len(t) => /\ Sum(q, i + 1) = Sum(t, i) + x
                                            /\ Sum(t, i) \in Nat}
<1>1. /\ Len(q) = Len(t) + 1 /\ x = q[1] /\ x \in Nat /\ Len(t) \in Nat
      /\ \A i \in 1 .. Len(t) : t[i] = q[i + 1] /\ t[i] \in Nat
  BY HeadTailProperties
<1>2. \A r : /\ Sum(r, 0) = 0 /\ Total(r) = Sum(r, Len(r))
             /\ \A i \in Nat : Sum(r, i + 1) = Sum(r, i) + r[i + 1]
  <2>1. \A r : Total(r) = Sum(r, Len(r))
    BY DEF SumLoop!After, Total, SumLoop!Repeat, Repeat
  <2> QED BY <2>1, SumLoop!AfterZero, SumLoop!AfterStep
<1> HIDE DEF t, x, Sum
<1>3. 0 \in S
  <2>1. Sum(q, 0 + 1) = Sum(q, 0) + q[0 + 1]
    BY <1>2
  <2> QED BY <1>1, <1>2, <2>1, SMTT(20)
<1>4. ASSUME NEW i \in Nat, i \in S PROVE i + 1 \in S
  <2>1. SUFFICES ASSUME i + 1 <= Len(t)
                 PROVE  Sum(q, i + 1 + 1) = Sum(t, i + 1) + x /\ Sum(t, i + 1) \in Nat
    OBVIOUS
  <2>2. Sum(q, i + 1) = Sum(t, i) + x /\ Sum(t, i) \in Nat
    BY <1>1, <1>4, <2>1
  <2>3. i + 1 \in Nat /\ i + 1 \in 1 .. Len(t)
    BY <1>1, <2>1
  <2>4. Sum(q, i + 1 + 1) = Sum(q, i + 1) + q[i + 1 + 1] /\ Sum(t, i + 1) = Sum(t, i) + t[i + 1]
    BY <1>2, <2>3
  <2>5. t[i + 1] = q[i + 1 + 1] /\ t[i + 1] \in Nat
    BY <1>1, <2>3
  <2>6. Sum(q, i + 1 + 1) = Sum(t, i) + x + t[i + 1]
    BY <2>2, <2>4, <2>5
  <2>7. Sum(t, i + 1) \in Nat
    BY <2>2, <2>4, <2>5
  <2>8. Sum(t, i) + x + t[i + 1] = Sum(t, i) + t[i + 1] + x
    BY <1>1, <2>2, <2>5
  <2> QED BY <2>4, <2>6, <2>7, <2>8
<1>5. Len(t) \in S
  <2> HIDE DEF S
  <2> QED BY <1>1, <1>3, <1>4, SumLoop!NatSetInduction
<1>6. Sum(q, Len(t) + 1) = Sum(t, Len(t)) + x
  BY <1>5, <1>1
<1>7. Total(q) = Total(t) + x
  BY <1>1, <1>2, <1>6
<1> QED BY <1>7 DEF t, x

\* A sum changes by as much as its m-th number does.
LEMMA TotalChange ==
  ASSUME NEW q \in Seq(Nat), NEW r \in Seq(Nat), Len(r) = Len(q), NEW m \in 1 .. Len(q),
         \A i \in 1 .. Len(q) : i # m => r[i] = q[i]
  PROVE  Total(r) + q[m] = Total(q) + r[m]
<1> DEFINE Sum(z, i) == SumLoop!After(z, 0, i)
           S == {i \in Nat : i <= Len(q) =>
                   /\ Sum(q, i) \in Nat /\ Sum(r, i) \in Nat
                   /\ IF i < m THEN Sum(r, i) = Sum(q, i)
                      ELSE Sum(r, i) + q[m] = Sum(q, i) + r[m]}
<1>1. /\ Len(q) \in Nat /\ m \in Nat /\ 1 <= m /\ m <= Len(q)
      /\ \A i \in 1 .. Len(q) : q[i] \in Nat /\ r[i] \in Nat
  OBVIOUS
<1>2. \A z : /\ Sum(z, 0) = 0 /\ Total(z) = Sum(z, Len(z))
             /\ \A i \in Nat : Sum(z, i + 1) = Sum(z, i) + z[i + 1]
  <2>1. \A z : Total(z) = Sum(z, Len(z))
    BY DEF SumLoop!After, Total, SumLoop!Repeat, Repeat
  <2> QED BY <2>1, SumLoop!AfterZero, SumLoop!AfterStep
<1>3. 0 \in S
  <2>1. Sum(q, 0) = 0 /\ Sum(r, 0) = 0 /\ 0 < m
    BY <1>1, <1>2
  <2> HIDE DEF Sum
  <2> QED BY <2>1
<1> HIDE DEF Sum
<1>4. ASSUME NEW i \in Nat, i \in S PROVE i + 1 \in S
  <2>1. SUFFICES ASSUME i + 1 <= Len(q)
                 PROVE  /\ Sum(q, i + 1) \in Nat /\ Sum(r, i + 1) \in Nat
                        /\ IF i + 1 < m THEN Sum(r, i + 1) = Sum(q, i + 1)
                           ELSE Sum(r, i + 1) + q[m] = Sum(q, i + 1) + r[m]
    OBVIOUS
  <2>2. i + 1 \in 1 .. Len(q) /\ i <= Len(q)
    BY <1>1, <2>1
  <2>3. /\ Sum(q, i) \in Nat /\ Sum(r, i) \in Nat
        /\ i < m => Sum(r, i) = Sum(q, i)
        /\ ~(i < m) => Sum(r, i) + q[m] = Sum(q, i) + r[m]
    BY <1>4, <2>2
  <2>4. Sum(q, i + 1) = Sum(q, i) + q[i + 1] /\ Sum(r, i + 1) = Sum(r, i) + r[i + 1]
    BY <1>2
  <2>5. /\ q[i + 1] \in Nat /\ r[i + 1] \in Nat /\ q[m] \in Nat /\ r[m] \in Nat
        /\ i + 1 # m => r[i + 1] = q[i + 1]
    BY <1>1, <2>2
  <2> DEFINE x == Sum(q, i)
             y == Sum(r, i)
             u == q[i + 1]
             w == r[i + 1]
             a == q[m]
             b == r[m]
  <2>6. /\ x \in Nat /\ y \in Nat /\ u \in Nat /\ w \in Nat /\ a \in Nat /\ b \in Nat
        /\ i < m => y = x
        /\ ~(i < m) => y + a = x + b
        /\ i + 1 # m => w = u
        /\ i + 1 = m => w = b /\ u = a
    BY <2>3, <2>5
  <2>7. Sum(q, i + 1) = x + u /\ Sum(r, i + 1) = y + w
    BY <2>4
  <2> HIDE DEF x, y, u, w, a, b
  <2>8. x + u \in Nat /\ y + w \in Nat
    BY <2>6
  <2>9. i + 1 < m => y + w = x + u
    BY <1>1, <2>6
  <2>10. ~(i + 1 < m) => (y + w) + a = (x + u) + b
    BY <1>1, <2>6
  <2>11. ~(i + 1 < m) => Sum(r, i + 1) + q[m] = Sum(q, i + 1) + r[m]
    BY <2>7, <2>10 DEF a, b
  <2> QED BY <2>7, <2>8, <2>9, <2>11
<1>5. Len(q) \in S
  <2> HIDE DEF S
  <2> QED BY <1>1, <1>3, <1>4, SumLoop!NatSetInduction
<1>6. Sum(r, Len(q)) + q[m] = Sum(q, Len(q)) + r[m]
  BY <1>1, <1>5
<1> QED BY <1>2, <1>6

\* Nothing added up is nothing.
LEMMA TotalZero ==
  ASSUME NEW q \in Seq(Nat), \A i \in 1 .. Len(q) : q[i] = 0
  PROVE  Total(q) = 0
<1>1. Len(q) \in Nat /\ \A i \in 0 .. Len(q) - 1, sum \in {0} : sum + q[i + 1] \in {0}
  OBVIOUS
<1>2. SumLoop!After(q, 0, Len(q)) \in {0}
  BY <1>1, SumLoop!LoopKeeps
<1> QED BY <1>2 DEF SumLoop!After, Total, SumLoop!Repeat, Repeat

\* More added up is more.
LEMMA TotalMono ==
  ASSUME NEW q \in Seq(Nat), NEW r \in Seq(Nat), Len(r) = Len(q),
         \A i \in 1 .. Len(q) : q[i] <= r[i]
  PROVE  Total(q) <= Total(r)
<1> DEFINE Sum(z, i) == SumLoop!After(z, 0, i)
           S == {i \in Nat : i <= Len(q) =>
                   Sum(q, i) \in Nat /\ Sum(r, i) \in Nat /\ Sum(q, i) <= Sum(r, i)}
<1>1. /\ Len(q) \in Nat
      /\ \A i \in 1 .. Len(q) : q[i] \in Nat /\ r[i] \in Nat
  OBVIOUS
<1>2. \A z : /\ Sum(z, 0) = 0 /\ Total(z) = Sum(z, Len(z))
             /\ \A i \in Nat : Sum(z, i + 1) = Sum(z, i) + z[i + 1]
  <2>1. \A z : Total(z) = Sum(z, Len(z))
    BY DEF SumLoop!After, Total, SumLoop!Repeat, Repeat
  <2>2. \A z : Sum(z, 0) = 0
    BY SumLoop!AfterZero
  <2>3. \A z : \A i \in Nat : Sum(z, i + 1) = Sum(z, i) + z[i + 1]
    BY SumLoop!AfterStep
  <2> QED BY <2>1, <2>2, <2>3
<1> HIDE DEF Sum
<1>3. 0 \in S
  BY <1>2
<1>4. ASSUME NEW i \in Nat, i \in S PROVE i + 1 \in S
  <2>1. SUFFICES ASSUME i + 1 <= Len(q)
                 PROVE  Sum(q, i + 1) \in Nat /\ Sum(r, i + 1) \in Nat /\ Sum(q, i + 1) <= Sum(r, i + 1)
    OBVIOUS
  <2>2. Sum(q, i) \in Nat /\ Sum(r, i) \in Nat /\ Sum(q, i) <= Sum(r, i)
    BY <1>1, <1>4, <2>1
  <2>3. i + 1 \in 1 .. Len(q)
    BY <1>1, <2>1
  <2>4. q[i + 1] \in Nat /\ r[i + 1] \in Nat /\ q[i + 1] <= r[i + 1]
    BY <1>1, <2>3
  <2>5. Sum(q, i + 1) = Sum(q, i) + q[i + 1] /\ Sum(r, i + 1) = Sum(r, i) + r[i + 1]
    BY <1>2
  <2> QED BY <2>2, <2>4, <2>5
<1> HIDE DEF S
<1>5. Len(q) \in S
  <2>1. Nat \subseteq S
    BY <1>3, <1>4, SumLoop!NatSetInduction
  <2> QED BY <1>1, <2>1
<1> QED BY <1>2, <1>5 DEF S
=============================================================================
