----------------------------- MODULE LoopProofs -----------------------------
(***************************************************************************)
(* How something is proved of a loop.  Body(p, x, i) is the body of the    *)
(* loop, p what it reads and does not change; a proof about a loop of the  *)
(* model instantiates this module with the body of that loop.  The         *)
(* library's induction theorems take the formula to be proved as an        *)
(* operator; here induction is stated for a set instead, from the fact     *)
(* that inclusion of finite sets is well founded.                          *)
(***************************************************************************)
EXTENDS Loops, FiniteSets, FiniteSetTheorems, TLAPS

CONSTANT Body(_, _, _)

\* The value of x after n rounds.
After(p, u, n) == Repeat(LAMBDA x, i : Body(p, x, i), u, n)

\* Induction over the natural numbers, for a set.
LEMMA NatSetInduction ==
  ASSUME NEW S, 0 \in S, \A n \in Nat : n \in S => n + 1 \in S
  PROVE  Nat \subseteq S
<1> DEFINE T == Nat \ S
           Below == {0 .. n : n \in T}
           R == StrictSubsetOrdering(Nat)
           F == FiniteSubsetsOf(Nat)
<1>1. IsWellFoundedOn(R, F)
  BY FS_StrictSubsetOrderingWellFounded
<1>2. SUFFICES ASSUME T # {} PROVE FALSE
  OBVIOUS
<1>3. Below \subseteq F /\ Below # {}
  <2>1. \A n \in Nat : IsFiniteSet(0 .. n) /\ 0 .. n \subseteq Nat
    BY FS_Interval
  <2> QED BY <1>2, <2>1 DEF FiniteSubsetsOf
<1>4. PICK x \in Below : \A y \in Below : ~ (<<y, x>> \in R)
  <2> HIDE DEF R, F, Below
  <2> QED BY <1>1, <1>3, WFMin
<1>5. PICK n \in T : x = 0 .. n
  OBVIOUS
<1>6. n \in Nat /\ n # 0
  OBVIOUS
<1>7. n - 1 \in Nat /\ n - 1 \in T
  BY <1>6
<1>8. 0 .. n - 1 \subseteq 0 .. n /\ n \in 0 .. n /\ n \notin 0 .. n - 1
  BY <1>6
<1>9. <<0 .. n - 1, 0 .. n>> \in R
  BY <1>6, <1>8 DEF StrictSubsetOrdering
<1> QED BY <1>4, <1>5, <1>7, <1>9

\* run takes the values of x in the first n rounds.
IsRun(p, u, n, run) ==
  run = [i \in 0 .. n |-> IF i = 0 THEN u ELSE Body(p, run[i - 1], i - 1)]

\* There is such a function, although its definition is recursive.
LEMMA RunExists ==
  ASSUME NEW p, NEW u
  PROVE  \A n \in Nat : \E run : IsRun(p, u, n, run)
<1> DEFINE S == {n \in Nat : \E run : IsRun(p, u, n, run)}
<1>1. 0 \in S
  <2> DEFINE f == [i \in 0 .. 0 |-> u]
  <2>1. f = [i \in 0 .. 0 |-> IF i = 0 THEN u ELSE Body(p, f[i - 1], i - 1)]
    OBVIOUS
  <2>2. IsRun(p, u, 0, f)
    BY <2>1 DEF IsRun
  <2> QED BY <2>2
<1>2. ASSUME NEW n \in Nat, n \in S PROVE n + 1 \in S
  <2>1. PICK run : IsRun(p, u, n, run)
    BY <1>2
  <2> DEFINE f == [i \in 0 .. n + 1 |-> IF i = n + 1 THEN Body(p, run[n], n) ELSE run[i]]
  <2>2. ASSUME NEW i \in 0 .. n + 1
        PROVE  f[i] = IF i = 0 THEN u ELSE Body(p, f[i - 1], i - 1)
    BY <2>1 DEF IsRun
  <2>3. f = [i \in 0 .. n + 1 |-> IF i = 0 THEN u ELSE Body(p, f[i - 1], i - 1)]
    BY <2>2
  <2>4. IsRun(p, u, n + 1, f)
    <3> HIDE DEF f
    <3> QED BY <2>3 DEF IsRun
  <2> QED BY <2>4
<1> HIDE DEF S
<1>3. Nat \subseteq S
  BY <1>1, <1>2, NatSetInduction
<1> QED BY <1>3 DEF S

\* And a longer run goes through the same values.
LEMMA RunUnique ==
  ASSUME NEW p, NEW u, NEW n \in Nat, NEW m \in Nat, n <= m,
         NEW f, IsRun(p, u, n, f), NEW g, IsRun(p, u, m, g)
  PROVE  f[n] = g[n]
<1> DEFINE S == {i \in Nat : i <= n => f[i] = g[i]}
<1>1. 0 \in S
  BY DEF IsRun
<1>2. ASSUME NEW i \in Nat, i \in S PROVE i + 1 \in S
  <2>1. SUFFICES ASSUME i + 1 <= n PROVE f[i + 1] = g[i + 1]
    OBVIOUS
  <2>2. f[i] = g[i]
    BY <1>2, <2>1
  <2>3. i + 1 \in 0 .. n /\ i + 1 \in 0 .. m /\ (i + 1) - 1 = i /\ i + 1 # 0
    BY <2>1
  <2>4. f[i + 1] = Body(p, f[i], i) /\ g[i + 1] = Body(p, g[i], i)
    BY <2>3 DEF IsRun
  <2> QED BY <2>2, <2>4
<1> HIDE DEF S
<1>3. n \in S
  BY <1>1, <1>2, NatSetInduction
<1> QED BY <1>3 DEF S

\* The recursive function in Repeat is a run.
LEMMA AfterIsRun ==
  ASSUME NEW p, NEW u, NEW n \in Nat
  PROVE  \E run : IsRun(p, u, n, run) /\ After(p, u, n) = run[n]
<1> DEFINE run == CHOOSE r : r = [i \in 0 .. n |-> IF i = 0 THEN u ELSE Body(p, r[i - 1], i - 1)]
<1>1. After(p, u, n) = run[n]
  BY DEF After, Repeat
<1>2. \E r : r = [i \in 0 .. n |-> IF i = 0 THEN u ELSE Body(p, r[i - 1], i - 1)]
  <2>1. PICK r : IsRun(p, u, n, r)
    BY RunExists
  <2>2. r = [i \in 0 .. n |-> IF i = 0 THEN u ELSE Body(p, r[i - 1], i - 1)]
    BY <2>1 DEF IsRun
  <2> QED BY <2>2
<1>3. run = [i \in 0 .. n |-> IF i = 0 THEN u ELSE Body(p, run[i - 1], i - 1)]
  BY <1>2
<1> HIDE DEF run
<1>4. IsRun(p, u, n, run)
  BY <1>3 DEF IsRun
<1> QED BY <1>1, <1>4

\* No round: x is as before.
LEMMA AfterZero ==
  ASSUME NEW p, NEW u
  PROVE  After(p, u, 0) = u
<1>1. PICK run : IsRun(p, u, 0, run) /\ After(p, u, 0) = run[0]
  BY AfterIsRun
<1> QED BY <1>1 DEF IsRun

\* One round more: the body, applied once more.
LEMMA AfterStep ==
  ASSUME NEW p, NEW u, NEW n \in Nat
  PROVE  After(p, u, n + 1) = Body(p, After(p, u, n), n)
<1>1. PICK f : IsRun(p, u, n, f) /\ After(p, u, n) = f[n]
  BY AfterIsRun
<1>2. PICK g : IsRun(p, u, n + 1, g) /\ After(p, u, n + 1) = g[n + 1]
  BY AfterIsRun
<1>3. f[n] = g[n]
  BY <1>1, <1>2, RunUnique
<1>4. n + 1 \in 0 .. n + 1 /\ n + 1 # 0 /\ (n + 1) - 1 = n
  OBVIOUS
<1>5. g[n + 1] = Body(p, g[n], n)
  BY <1>2, <1>4 DEF IsRun
<1> QED BY <1>1, <1>2, <1>3, <1>5

\* The rule for a loop: what holds before round i implies what holds before round
\* i + 1, so what holds before the first one implies what holds in the end.
LEMMA LoopRule ==
  ASSUME NEW p, NEW n \in Nat, NEW A, NEW u \in A[0],
         \A i \in 0 .. n - 1 : \A x \in A[i] : Body(p, x, i) \in A[i + 1]
  PROVE  After(p, u, n) \in A[n]
<1> DEFINE S == {i \in Nat : i <= n => After(p, u, i) \in A[i]}
<1>1. 0 \in S
  BY AfterZero
<1>2. ASSUME NEW i \in Nat, i \in S PROVE i + 1 \in S
  <2>1. SUFFICES ASSUME i + 1 <= n PROVE After(p, u, i + 1) \in A[i + 1]
    OBVIOUS
  <2>2. i \in 0 .. n - 1 /\ After(p, u, i) \in A[i]
    BY <1>2, <2>1
  <2>3. After(p, u, i + 1) = Body(p, After(p, u, i), i)
    BY AfterStep
  <2> QED BY <2>2, <2>3
<1> HIDE DEF S
<1>3. n \in S
  BY <1>1, <1>2, NatSetInduction
<1> QED BY <1>3 DEF S

\* What every round keeps, the loop keeps.
LEMMA LoopKeeps ==
  ASSUME NEW p, NEW n \in Nat, NEW A, NEW u \in A,
         \A i \in 0 .. n - 1, x \in A : Body(p, x, i) \in A
  PROVE  After(p, u, n) \in A
<1> DEFINE B == [i \in 0 .. n |-> A]
<1>1. u \in B[0] /\ \A i \in 0 .. n - 1 : \A x \in B[i] : Body(p, x, i) \in B[i + 1]
  OBVIOUS
<1>2. B[n] = A
  OBVIOUS
<1> HIDE DEF B
<1> QED BY <1>1, <1>2, LoopRule
=============================================================================
