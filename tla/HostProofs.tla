------------------------------ MODULE HostProofs ------------------------------
(***************************************************************************)
(* Proofs about HostController: IInv is an inductive invariant, for all    *)
(* numbers of links, buffer sizes, policies and workloads, and the safety  *)
(* properties and the refinement of MemoryService follow.                  *)
(*                                                                         *)
(* The steps of an Update are functions on a state of their own, so the    *)
(* invariant is a set of such states (Good) and each step has a lemma that *)
(* it stays in the set; the loops over the links go by the loop rule of    *)
(* LoopProofs.  The invariant must also say what no property does: that a  *)
(* transaction is in one place, and is there once (OnePlace), and that no  *)
(* link is active while another goes down as the last one (LastGoesDown).  *)
(***************************************************************************)
EXTENDS HostController, QueueProofs

\* The loops of HostController, for LoopProofs.
WakeLoop == INSTANCE LoopProofs WITH Body <- LAMBDA p, v, l : Wake(v, l)
RetrainLoop == INSTANCE LoopProofs WITH Body <- LAMBDA p, v, l : Retrain(v, l)
TryLoop == INSTANCE LoopProofs WITH Body <- LAMBDA p, v, i : Try(v, p)
QuiesceLoop == INSTANCE LoopProofs WITH Body <- LAMBDA p, v, l : QuiesceLink(v, l, p)
SleepLoop == INSTANCE LoopProofs WITH Body <- LAMBDA p, v, i : SleepLink(v, i)

\* What the constants are.
LEMMA Sizes ==
  /\ NUM_LINKS \in Nat \ {0} /\ COUNT_MAX \in Nat \ {0}
  /\ Link = 0 .. NUM_LINKS - 1
  /\ LINK_POWER \subseteq {"NO_MANAGEMENT", "QUIESCE_SLEEP", "EPOCH"}
  BY HostConstants DEF Link
-----------------------------------------------------------------------------
(* Numbers modulo M. *)

\* A counter that is reduced after every step is right modulo M.
LEMMA ModStep ==
  ASSUME NEW M \in Nat \ {0}, NEW a \in Int, NEW b \in Int
  PROVE  a % M \in 0 .. M - 1 /\ ((a % M) + b) % M = (a + b) % M
<1>1. \A x \in Int : x % M \in 0 .. M - 1 /\ x \div M \in Int
  OBVIOUS
<1>2. \A x \in Int : x = M * (x \div M) + (x % M)
  OBVIOUS
<1> DEFINE c == (a % M) + b
<1>3. c \in Int /\ a + b \in Int /\ M \in Int
  BY <1>1
<1>4. a = M * (a \div M) + (a % M)
  BY <1>2
<1>5. c = M * (c \div M) + (c % M)
  BY <1>2, <1>3
<1>6. a + b = M * ((a + b) \div M) + ((a + b) % M)
  BY <1>2, <1>3
<1> DEFINE qa == a \div M
           qc == c \div M
           qs == (a + b) \div M
           ra == a % M
           rc == c % M
           rs == (a + b) % M
<1>7. qa \in Int /\ qc \in Int /\ qs \in Int /\ ra \in Int /\ rc \in 0 .. M - 1 /\ rs \in 0 .. M - 1
  BY <1>1, <1>3
<1>8. a = M * qa + ra /\ ra + b = M * qc + rc /\ a + b = M * qs + rs
  BY <1>4, <1>5, <1>6
<1> HIDE DEF qa, qc, qs, ra, rc, rs
<1>9. M * (qa + qc) + rc = M * qs + rs
  BY <1>3, <1>7, <1>8
<1>10. rc = rs
  BY <1>7, <1>9, OneQuotient
<1> QED BY <1>1, <1>10 DEF rc, rs
-----------------------------------------------------------------------------
(***************************************************************************)
(* The invariant.  It is stated of a record c of the controller, so that   *)
(* it can be stated after each step of Update and in each round of a loop. *)
(***************************************************************************)
Held(buffers) == UNION {ToSet(buffers[l]) : l \in Link}

Controllers ==
  [downBuffers : Seq(DOMAIN arrived), bufPopDelay : {0, 1}, inServiceLink : Link \cup {-1},
   Buffers : [Link -> Seq({0} \cup DOMAIN arrived)], state : [Link -> LinkState],
   upBuffers : Seq(DOMAIN arrived), returnTransCnt : 0 .. COUNT_MAX - 1,
   sleepLink : Link, answered : Seq(DOMAIN arrived)]

Timer ==
  {"calm", "modeTransition", "staggerSleep", "staggerActive", "staySREF"} \X Link

Running == [h : Controllers, due : SUBSET Timer, uncounted : SUBSET DOMAIN arrived, sent : BOOLEAN]

WithinLimits(c) ==
  /\ Len(c.downBuffers) <= MAX_REQ_BUF
  /\ \A l \in Link : Flits(c.Buffers[l]) <= MAX_LINK_BUF + Trets(c.Buffers[l])
  /\ UpFlits(c.upBuffers) <= MAX_LINK_BUF

Together(buffers) ==
  \A l, k \in Link : \A n \in ToSet(buffers[l]), m \in ToSet(buffers[k]) :
    BlockOf(n) = BlockOf(m) /\ BlockOf(n) # 0 => l = k

AwakeFor(buffers, state) ==
  \A l \in Link : \A n \in ToSet(buffers[l]) : state[l] = "ACTIVE" \/ BlockOf(n) = 0

\* A link goes down when it is the last one: until it is down none is active.
LastGoesDown(state) ==
  \A l, k \in Link : state[l] = "TRANSITION_TO_DOWN" => state[k] # "ACTIVE"

\* No request is in a buffer twice, but there may be several TRETs.
RequestsOnce(buf) == \A i, j \in DOMAIN buf : buf[i] = buf[j] /\ buf[i] # 0 => i = j

\* A transaction is in one place, and there it is once.  uncounted is about those
\* that left downBuffers.
OnePlace(c, mem, unc) ==
  /\ IsInjective(c.downBuffers) /\ IsInjective(c.upBuffers)
  /\ \A l \in Link : RequestsOnce(c.Buffers[l])
  /\ \A l, k \in Link : \A n \in ToSet(c.Buffers[l]) \cap ToSet(c.Buffers[k]) : n = 0 \/ l = k
  /\ ToSet(c.downBuffers) \cap
       (Held(c.Buffers) \cup mem \cup ToSet(c.upBuffers) \cup ToSet(c.answered) \cup unc) = {}
  /\ Held(c.Buffers) \cap (mem \cup ToSet(c.upBuffers) \cup ToSet(c.answered)) = {}
  /\ mem \cap (ToSet(c.upBuffers) \cup ToSet(c.answered)) = {}
  /\ ToSet(c.upBuffers) \cap ToSet(c.answered) = {}
  /\ \A n \in mem \cup ToSet(c.upBuffers) : Wants(arrived[n])

OutstandingOf(c, mem) ==
  {n \in mem \cup ToSet(c.upBuffers) \cup Held(c.Buffers) : n # 0 /\ Wants(arrived[n])}

Drift(c, mem, unc) ==
  Cardinality(OutstandingOf(c, mem) \ unc) - Cardinality(ToSet(c.answered) \cap unc)

GoodWhen(mem) ==
  {u \in Running :
     /\ WithinLimits(u.h)
     /\ Together(u.h.Buffers)
     /\ AwakeFor(u.h.Buffers, u.h.state)
     /\ LastGoesDown(u.h.state)
     /\ OnePlace(u.h, mem, u.uncounted)
     /\ u.h.returnTransCnt = Drift(u.h, mem, u.uncounted) % COUNT_MAX}

Good == GoodWhen(memory)

\* The controller between two Updates.
Now == [h |-> h, due |-> {}, uncounted |-> uncounted, sent |-> FALSE]

Around ==
  /\ policy \in LINK_POWER /\ scheme \in LINK_PRIORITY
  /\ unsettled \subseteq Link /\ cycle \in {0, 1}
  /\ arrived \in Seq(Transactions) /\ memory \subseteq DOMAIN arrived

IInv == Now \in Good /\ Around
-----------------------------------------------------------------------------
(* Lengths of buffers. *)

\* The transactions are numbered from 1, and finitely many have arrived.
LEMMA Numbers ==
  ASSUME Around
  PROVE  /\ IsFiniteSet(DOMAIN arrived) /\ DOMAIN arrived \subseteq Nat \ {0}
         /\ memory \subseteq DOMAIN arrived
<1>1. arrived \in Seq(Transactions) /\ memory \subseteq DOMAIN arrived
  BY DEF Around
<1>2. DOMAIN arrived = 1 .. Len(arrived) /\ Len(arrived) \in Nat
  BY <1>1
<1>3. IsFiniteSet(1 .. Len(arrived))
  BY <1>2, FS_Interval
<1> QED BY <1>1, <1>2, <1>3

\* The sum of f over the elements of a buffer.
Sum(buf, f) == Total([i \in DOMAIN buf |-> f[buf[i]]])

\* What a sum over a buffer becomes when one is put in or taken out.
LEMMA SumLaws ==
  ASSUME NEW S, NEW f \in [S -> Nat], NEW buf \in Seq(S)
  PROVE  /\ Sum(buf, f) \in Nat /\ Sum(<<>>, f) = 0
         /\ \A n \in S : Sum(Append(buf, n), f) = Sum(buf, f) + f[n]
         /\ buf # <<>> => Sum(buf, f) = Sum(Tail(buf), f) + f[Head(buf)]
<1> DEFINE L(b) == [i \in DOMAIN b |-> f[b[i]]]
<1>1. \A b \in Seq(S) : L(b) \in Seq(Nat) /\ Len(L(b)) = Len(b)
  OBVIOUS
<1>2. \A b : Sum(b, f) = Total(L(b))
  BY DEF Sum
<1>3. ASSUME NEW n \in S PROVE L(Append(buf, n)) = Append(L(buf), f[n])
  <2>1. Append(buf, n) \in Seq(S) /\ Len(Append(buf, n)) = Len(buf) + 1 /\ Len(buf) \in Nat
    OBVIOUS
  <2>2. /\ Append(L(buf), f[n]) \in Seq(Nat) /\ Len(Append(L(buf), f[n])) = Len(buf) + 1
        /\ L(Append(buf, n)) \in Seq(Nat) /\ Len(L(Append(buf, n))) = Len(buf) + 1
    <3>1. L(buf) \in Seq(Nat) /\ Len(L(buf)) = Len(buf) /\ f[n] \in Nat
      BY <1>1
    <3>2. L(Append(buf, n)) \in Seq(Nat) /\ Len(L(Append(buf, n))) = Len(buf) + 1
      BY <1>1, <2>1
    <3> HIDE DEF L
    <3>3. Append(L(buf), f[n]) \in Seq(Nat)
      BY <3>1
    <3>4. Len(Append(L(buf), f[n])) = Len(L(buf)) + 1
      BY <3>1
    <3> QED BY <3>1, <3>2, <3>3, <3>4
  <2>3. \A i \in 1 .. Len(buf) + 1 : L(Append(buf, n))[i] = f[Append(buf, n)[i]]
    BY <2>1
  <2>4. \A i \in 1 .. Len(buf) : L(buf)[i] = f[buf[i]]
    OBVIOUS
  <2>5. \A i \in 1 .. Len(buf) + 1 : L(Append(buf, n))[i] = Append(L(buf), f[n])[i]
    <3>1. L(buf) \in Seq(Nat) /\ Len(L(buf)) = Len(buf) /\ f[n] \in Nat
      BY <1>1
    <3> HIDE DEF L
    <3> QED BY <2>1, <2>3, <2>4, <3>1
  <2> HIDE DEF L
  <2> QED BY <2>1, <2>2, <2>5, SeqEqual
<1>4. ASSUME buf # <<>> PROVE L(Tail(buf)) = Tail(L(buf)) /\ Head(L(buf)) = f[Head(buf)]
  <2>1. /\ Tail(buf) \in Seq(S) /\ Len(Tail(buf)) = Len(buf) - 1 /\ Head(buf) = buf[1]
        /\ \A i \in 1 .. Len(buf) - 1 : Tail(buf)[i] = buf[i + 1]
        /\ Len(buf) \in Nat \ {0}
    BY <1>4, HeadTailProperties
  <2>2. L(buf) \in Seq(Nat) /\ Len(L(buf)) = Len(buf) /\ L(buf) # <<>>
    BY <1>1, <2>1
  <2>3. /\ Tail(L(buf)) \in Seq(Nat) /\ Len(Tail(L(buf))) = Len(buf) - 1
        /\ \A i \in 1 .. Len(buf) - 1 : Tail(L(buf))[i] = L(buf)[i + 1]
        /\ Head(L(buf)) = L(buf)[1]
    <3> HIDE DEF L
    <3> QED BY <2>2, HeadTailProperties
  <2>4. /\ \A i \in 1 .. Len(buf) : L(buf)[i] = f[buf[i]]
        /\ \A i \in 1 .. Len(buf) - 1 : L(Tail(buf))[i] = f[Tail(buf)[i]]
    BY <2>1
  <2>5. L(Tail(buf)) \in Seq(Nat) /\ Len(L(Tail(buf))) = Len(buf) - 1
    BY <1>1, <2>1
  <2> HIDE DEF L
  <2>6. \A i \in 1 .. Len(buf) - 1 : L(Tail(buf))[i] = Tail(L(buf))[i]
    BY <2>1, <2>3, <2>4
  <2>7. Head(L(buf)) = f[Head(buf)]
    BY <2>1, <2>3, <2>4
  <2> QED BY <2>3, <2>5, <2>6, <2>7, SeqEqual
<1>5. L(buf) # <<>> <=> buf # <<>>
  BY <1>1
<1>6. Sum(<<>>, f) = 0
  <2>1. L(<<>>) \in Seq(Nat) /\ Len(L(<<>>)) = 0
    BY <1>1
  <2> HIDE DEF L
  <2>2. Total(L(<<>>)) = SumLoop!After(L(<<>>), 0, Len(L(<<>>)))
    BY DEF SumLoop!After, Total, SumLoop!Repeat, Repeat
  <2> QED BY <1>2, <2>1, <2>2, SumLoop!AfterZero
<1> HIDE DEF L
<1>7. L(buf) \in Seq(Nat) /\ Sum(buf, f) = Total(L(buf))
  BY <1>1, <1>2
<1>8. Sum(buf, f) \in Nat
  BY <1>7, TotalType
<1>9. ASSUME NEW n \in S PROVE Sum(Append(buf, n), f) = Sum(buf, f) + f[n]
  BY <1>2, <1>3, <1>7, TotalAppend
<1>10. ASSUME buf # <<>> PROVE Sum(buf, f) = Sum(Tail(buf), f) + f[Head(buf)]
  BY <1>2, <1>4, <1>5, <1>7, <1>10, TotalTail
<1> QED BY <1>6, <1>8, <1>9, <1>10

\* What the flits of a request buffer become when one is put in or taken out.
LEMMA FlitsLaws ==
  ASSUME NEW S, NEW buf \in Seq(S)
  PROVE  /\ Flits(buf) \in Nat /\ Flits(<<>>) = 0
         /\ \A n \in S : Flits(Append(buf, n)) = Flits(buf) + RequestLNG(n)
         /\ buf # <<>> => Flits(buf) = Flits(Tail(buf)) + RequestLNG(Head(buf))
<1> DEFINE f == [n \in S |-> RequestLNG(n)]
<1>1. f \in [S -> Nat]
  BY DEF RequestLNG
<1>2. ASSUME NEW b \in Seq(S) PROVE Flits(b) = Sum(b, f)
  <2>1. \A i \in DOMAIN b : f[b[i]] = RequestLNG(b[i])
    OBVIOUS
  <2> HIDE DEF f
  <2> QED BY <2>1 DEF Flits, Sum
<1>3. /\ <<>> \in Seq(S)
      /\ \A n \in S : Append(buf, n) \in Seq(S)
      /\ buf # <<>> => Tail(buf) \in Seq(S) /\ Head(buf) \in S
  BY HeadTailProperties
<1>4. \A n \in S : f[n] = RequestLNG(n)
  OBVIOUS
<1> HIDE DEF f
<1>5. Sum(buf, f) \in Nat /\ Sum(<<>>, f) = 0
  BY <1>1, SumLaws
<1>6. ASSUME NEW n \in S PROVE Flits(Append(buf, n)) = Flits(buf) + RequestLNG(n)
  <2>1. Sum(Append(buf, n), f) = Sum(buf, f) + f[n]
    BY <1>1, SumLaws
  <2> QED BY <1>2, <1>3, <1>4, <2>1
<1>7. ASSUME buf # <<>> PROVE Flits(buf) = Flits(Tail(buf)) + RequestLNG(Head(buf))
  <2>1. Sum(buf, f) = Sum(Tail(buf), f) + f[Head(buf)]
    BY <1>1, <1>7, SumLaws
  <2> QED BY <1>2, <1>3, <1>4, <1>7, <2>1
<1> QED BY <1>2, <1>3, <1>5, <1>6, <1>7

\* The number of TRETs in a buffer, when one is put in or taken out.
LEMMA TretsLaws ==
  ASSUME NEW S, NEW buf \in Seq(S)
  PROVE  /\ Trets(buf) \in Nat /\ Trets(<<>>) = 0
         /\ \A n \in S : Trets(Append(buf, n)) = Trets(buf) + (IF n = 0 THEN 1 ELSE 0)
         /\ buf # <<>> => Trets(buf) = Trets(Tail(buf)) + (IF Head(buf) = 0 THEN 1 ELSE 0)
<1> DEFINE f == [n \in S |-> IF n = 0 THEN 1 ELSE 0]
<1>1. f \in [S -> Nat]
  OBVIOUS
<1>2. ASSUME NEW b \in Seq(S) PROVE Trets(b) = Sum(b, f)
  <2>1. \A i \in DOMAIN b : f[b[i]] = IF b[i] = 0 THEN 1 ELSE 0
    OBVIOUS
  <2> HIDE DEF f
  <2> QED BY <2>1 DEF Trets, Sum
<1>3. /\ <<>> \in Seq(S)
      /\ \A n \in S : Append(buf, n) \in Seq(S)
      /\ buf # <<>> => Tail(buf) \in Seq(S) /\ Head(buf) \in S
  BY HeadTailProperties
<1>4. \A n \in S : f[n] = IF n = 0 THEN 1 ELSE 0
  OBVIOUS
<1> HIDE DEF f
<1>5. Sum(buf, f) \in Nat /\ Sum(<<>>, f) = 0
  BY <1>1, SumLaws
<1>6. ASSUME NEW n \in S PROVE Trets(Append(buf, n)) = Trets(buf) + (IF n = 0 THEN 1 ELSE 0)
  <2>1. Sum(Append(buf, n), f) = Sum(buf, f) + f[n]
    BY <1>1, SumLaws
  <2> QED BY <1>2, <1>3, <1>4, <2>1
<1>7. ASSUME buf # <<>> PROVE Trets(buf) = Trets(Tail(buf)) + (IF Head(buf) = 0 THEN 1 ELSE 0)
  <2>1. Sum(buf, f) = Sum(Tail(buf), f) + f[Head(buf)]
    BY <1>1, <1>7, SumLaws
  <2> QED BY <1>2, <1>3, <1>4, <1>7, <2>1
<1> QED BY <1>2, <1>3, <1>5, <1>6, <1>7

\* RequestsOnce, when one is put behind, put in front or taken out.
LEMMA OnceLaws ==
  ASSUME NEW S, NEW buf \in Seq(S), RequestsOnce(buf)
  PROVE  /\ \A n \in S : n \notin ToSet(buf) => RequestsOnce(Append(buf, n))
         /\ buf # <<>> => /\ RequestsOnce(Tail(buf))
                          /\ Head(buf) # 0 => Head(buf) \notin ToSet(Tail(buf))
<1>1. ASSUME NEW n \in S, n \notin ToSet(buf) PROVE RequestsOnce(Append(buf, n))
  <2> DEFINE t == Append(buf, n)
  <2>1. /\ DOMAIN buf = 1 .. Len(buf) /\ DOMAIN t = 1 .. Len(buf) + 1 /\ Len(buf) \in Nat
        /\ \A i \in 1 .. Len(buf) : t[i] = buf[i]
        /\ t[Len(buf) + 1] = n
    OBVIOUS
  <2> HIDE DEF t
  <2>2. \A i \in DOMAIN buf : buf[i] # n
    BY <1>1 DEF ToSet
  <2>3. ASSUME NEW i \in DOMAIN t, NEW j \in DOMAIN t, t[i] = t[j], t[i] # 0 PROVE i = j
    <3>1. (i \in DOMAIN buf \/ i = Len(buf) + 1) /\ (j \in DOMAIN buf \/ j = Len(buf) + 1)
      BY <2>1
    <3> QED BY <2>1, <2>2, <2>3, <3>1 DEF RequestsOnce
  <2>4. RequestsOnce(t)
    BY <2>3 DEF RequestsOnce
  <2> QED BY <2>4 DEF t
<1>2. ASSUME buf # <<>>
      PROVE  RequestsOnce(Tail(buf)) /\ (Head(buf) # 0 => Head(buf) \notin ToSet(Tail(buf)))
  <2> DEFINE t == Tail(buf)
  <2>1. /\ DOMAIN buf = 1 .. Len(buf) /\ DOMAIN t = 1 .. Len(buf) - 1 /\ Len(buf) \in Nat \ {0}
        /\ \A i \in 1 .. Len(buf) - 1 : t[i] = buf[i + 1]
        /\ Head(buf) = buf[1]
    BY <1>2, HeadTailProperties
  <2> HIDE DEF t
  <2>2. ASSUME NEW i \in DOMAIN t, NEW j \in DOMAIN t, t[i] = t[j], t[i] # 0 PROVE i = j
    <3>1. i + 1 \in DOMAIN buf /\ j + 1 \in DOMAIN buf /\ buf[i + 1] = buf[j + 1] /\ buf[i + 1] # 0
      BY <2>1, <2>2
    <3>2. i + 1 = j + 1
      BY <3>1 DEF RequestsOnce
    <3> QED BY <2>1, <3>2
  <2>3. ASSUME Head(buf) # 0, NEW i \in DOMAIN t, t[i] = Head(buf) PROVE FALSE
    <3>1. i + 1 \in DOMAIN buf /\ 1 \in DOMAIN buf /\ buf[i + 1] = buf[1] /\ buf[1] # 0
      BY <2>1, <2>3
    <3>2. i + 1 = 1
      BY <3>1 DEF RequestsOnce
    <3> QED BY <2>1, <3>2
  <2>4. RequestsOnce(t) /\ (Head(buf) # 0 => Head(buf) \notin ToSet(t))
    BY <2>2, <2>3 DEF RequestsOnce, ToSet
  <2> QED BY <2>4 DEF t
<1> QED BY <1>1, <1>2

\* A TRET put before a buffer.
LEMMA TretBefore ==
  ASSUME NEW S, 0 \in S, NEW buf \in Seq(S)
  PROVE  LET b == <<0>> \o buf
         IN  /\ b \in Seq(S) /\ ToSet(b) = ToSet(buf) \cup {0}
             /\ RequestsOnce(buf) => RequestsOnce(b)
             /\ Flits(b) = Flits(buf) + 1 /\ Trets(b) = Trets(buf) + 1
<1> DEFINE b == <<0>> \o buf
<1>1. b \in Seq(S) /\ Len(b) = Len(buf) + 1 /\ b[1] = 0 /\ Len(buf) \in Nat
      /\ \A i \in 2 .. Len(buf) + 1 : b[i] = buf[i - 1]
  OBVIOUS
<1>2. DOMAIN b = 1 .. Len(buf) + 1 /\ DOMAIN buf = 1 .. Len(buf)
  BY <1>1
<1> HIDE DEF b
<1>3. b # <<>>
  BY <1>1
<1>4. Head(b) = 0 /\ Tail(b) \in Seq(S) /\ Len(Tail(b)) = Len(buf)
      /\ \A i \in 1 .. Len(buf) : Tail(b)[i] = b[i + 1]
  BY <1>1, <1>3, HeadTailProperties
<1>5. Tail(b) = buf
  <2>1. \A i \in 1 .. Len(buf) : Tail(b)[i] = buf[i]
    BY <1>1, <1>4
  <2> QED BY <1>4, <2>1, SeqEqual
<1>6. ToSet(b) = ToSet(buf) \cup {0}
  BY <1>1, <1>3, <1>4, <1>5, TailOnce
<1>7. ASSUME RequestsOnce(buf), NEW i \in DOMAIN b, NEW j \in DOMAIN b, b[i] = b[j], b[i] # 0
      PROVE  i = j
  <2>1. i # 1 /\ j # 1
    BY <1>1, <1>7
  <2>2. /\ i - 1 \in DOMAIN buf /\ j - 1 \in DOMAIN buf
        /\ buf[i - 1] = buf[j - 1] /\ buf[i - 1] # 0
    BY <1>1, <1>2, <1>7, <2>1
  <2>3. i - 1 = j - 1
    BY <1>7, <2>2 DEF RequestsOnce
  <2> QED BY <1>2, <2>3
<1>8. RequestsOnce(buf) => RequestsOnce(b)
  BY <1>7 DEF RequestsOnce
<1>9. Flits(b) = Flits(buf) + 1
  <2>1. Flits(b) = Flits(Tail(b)) + RequestLNG(Head(b))
    BY <1>1, <1>3, FlitsLaws
  <2> QED BY <1>4, <1>5, <2>1 DEF RequestLNG
<1>10. Trets(b) = Trets(buf) + 1
  <2>1. Trets(b) = Trets(Tail(b)) + (IF Head(b) = 0 THEN 1 ELSE 0)
    BY <1>1, <1>3, TretsLaws
  <2> QED BY <1>4, <1>5, <2>1
<1> QED BY <1>1, <1>6, <1>8, <1>9, <1>10 DEF b

\* What the flits of a response buffer become when one is put in or taken out.
LEMMA UpFlitsLaws ==
  ASSUME NEW S, NEW buf \in Seq(S)
  PROVE  /\ UpFlits(buf) \in Nat /\ UpFlits(<<>>) = 0
         /\ \A n \in S : UpFlits(Append(buf, n)) = UpFlits(buf) + ResponseLNG(n)
         /\ buf # <<>> => UpFlits(buf) = UpFlits(Tail(buf)) + ResponseLNG(Head(buf))
<1> DEFINE f == [n \in S |-> ResponseLNG(n)]
<1>1. f \in [S -> Nat]
  BY DEF ResponseLNG
<1>2. ASSUME NEW b \in Seq(S) PROVE UpFlits(b) = Sum(b, f)
  <2>1. \A i \in DOMAIN b : f[b[i]] = ResponseLNG(b[i])
    OBVIOUS
  <2> HIDE DEF f
  <2> QED BY <2>1 DEF UpFlits, Sum
<1>3. /\ <<>> \in Seq(S)
      /\ \A n \in S : Append(buf, n) \in Seq(S)
      /\ buf # <<>> => Tail(buf) \in Seq(S) /\ Head(buf) \in S
  BY HeadTailProperties
<1>4. \A n \in S : f[n] = ResponseLNG(n)
  OBVIOUS
<1> HIDE DEF f
<1>5. Sum(buf, f) \in Nat /\ Sum(<<>>, f) = 0
  BY <1>1, SumLaws
<1>6. ASSUME NEW n \in S PROVE UpFlits(Append(buf, n)) = UpFlits(buf) + ResponseLNG(n)
  <2>1. Sum(Append(buf, n), f) = Sum(buf, f) + f[n]
    BY <1>1, SumLaws
  <2> QED BY <1>2, <1>3, <1>4, <2>1
<1>7. ASSUME buf # <<>> PROVE UpFlits(buf) = UpFlits(Tail(buf)) + ResponseLNG(Head(buf))
  <2>1. Sum(buf, f) = Sum(Tail(buf), f) + f[Head(buf)]
    BY <1>1, <1>7, SumLaws
  <2> QED BY <1>2, <1>3, <1>4, <1>7, <2>1
<1> QED BY <1>2, <1>3, <1>5, <1>6, <1>7
-----------------------------------------------------------------------------
(***************************************************************************)
(* The steps that send links to sleep and wake them: only states and       *)
(* timers change.  The transactions answered are named, because the        *)
(* refinement needs that these steps answer none.                          *)
(***************************************************************************)
GoodWith(ans) == {u \in Good : u.h.answered = ans}

\* A step that moves no transaction keeps the invariant, if it keeps awake every
\* link that holds one.
LEMMA SameTraffic ==
  ASSUME NEW ans, NEW u \in GoodWith(ans), NEW w \in Running,
         w.h.downBuffers = u.h.downBuffers, w.h.Buffers = u.h.Buffers,
         w.h.upBuffers = u.h.upBuffers, w.h.answered = u.h.answered,
         w.h.returnTransCnt = u.h.returnTransCnt, w.uncounted = u.uncounted,
         AwakeFor(u.h.Buffers, w.h.state), LastGoesDown(w.h.state)
  PROVE  w \in GoodWith(ans)
<1>1. /\ u \in Running /\ u.h \in Controllers /\ u.h.answered = ans
      /\ WithinLimits(u.h) /\ Together(u.h.Buffers) /\ OnePlace(u.h, memory, u.uncounted)
      /\ u.h.returnTransCnt = Drift(u.h, memory, u.uncounted) % COUNT_MAX
  BY DEF GoodWith, Good, GoodWhen, Running
<1>2. WithinLimits(w.h)
  BY <1>1 DEF WithinLimits
<1>3. OnePlace(w.h, memory, w.uncounted)
  BY <1>1 DEF OnePlace
<1>4. Drift(w.h, memory, w.uncounted) = Drift(u.h, memory, u.uncounted)
  BY DEF Drift, OutstandingOf
<1> QED BY <1>1, <1>2, <1>3, <1>4 DEF GoodWith, Good, GoodWhen

\* So does a change of the states of the links and of the timers alone.
LEMMA StateKeeps ==
  ASSUME NEW ans, NEW u \in GoodWith(ans), NEW w,
         NEW s \in [Link -> LinkState], NEW d \in SUBSET Timer,
         AwakeFor(u.h.Buffers, s), LastGoesDown(s),
         w = [u EXCEPT !.h.state = s, !.due = d]
  PROVE  w \in GoodWith(ans)
<1>1. u \in Running /\ u.h \in Controllers
  BY DEF GoodWith, Good, GoodWhen, Running
<1>2. /\ w.h = [u.h EXCEPT !.state = s] /\ w.uncounted = u.uncounted
      /\ w = [h |-> w.h, due |-> d, uncounted |-> u.uncounted, sent |-> u.sent]
  BY <1>1 DEF Running
<1>3. w.h \in Controllers
  BY <1>1, <1>2 DEF Controllers
<1>4. /\ w.h.downBuffers = u.h.downBuffers /\ w.h.Buffers = u.h.Buffers
      /\ w.h.upBuffers = u.h.upBuffers /\ w.h.answered = u.h.answered
      /\ w.h.returnTransCnt = u.h.returnTransCnt /\ w.h.state = s
  BY <1>1, <1>2 DEF Controllers
<1>5. w \in Running
  BY <1>1, <1>2, <1>3 DEF Running
<1> QED BY <1>2, <1>4, <1>5, SameTraffic

\* Arming a timer keeps the invariant.
LEMMA ArmKeeps ==
  ASSUME NEW ans, NEW u \in GoodWith(ans), NEW t
  PROVE  Arm(u, t) \in GoodWith(ans)
<1>1. /\ u \in Running /\ u.h \in Controllers /\ u.h.state \in [Link -> LinkState]
      /\ AwakeFor(u.h.Buffers, u.h.state) /\ LastGoesDown(u.h.state)
  BY DEF GoodWith, Good, GoodWhen, Running, Controllers
<1>2. Arm(u, t) = [u EXCEPT !.h.state = u.h.state, !.due = u.due \ {t}]
  BY <1>1 DEF Arm, Running, Controllers
<1>3. u.due \ {t} \in SUBSET Timer
  BY <1>1 DEF Running
<1> QED BY <1>1, <1>2, <1>3, StateKeeps

\* A link changes its state.  It was not ACTIVE, or nothing waits in its master; it
\* goes down only when no other link is ACTIVE.
LEMMA GoToKeeps ==
  ASSUME NEW ans, NEW u \in GoodWith(ans), NEW l \in Link, NEW x \in LinkState \ {"ACTIVE"},
         u.h.state[l] # "ACTIVE" \/ u.h.Buffers[l] = <<>>,
         x = "TRANSITION_TO_DOWN" => \A k \in Link \ {l} : u.h.state[k] # "ACTIVE"
  PROVE  GoTo(u, l, x) \in GoodWith(ans)
<1> DEFINE s == [u.h.state EXCEPT ![l] = x]
<1>1. /\ u \in Running /\ u.h \in Controllers /\ u.h.state \in [Link -> LinkState]
      /\ AwakeFor(u.h.Buffers, u.h.state) /\ LastGoesDown(u.h.state)
  BY DEF GoodWith, Good, GoodWhen, Running, Controllers
<1>2. s \in [Link -> LinkState] /\ \A k \in Link : s[k] = IF k = l THEN x ELSE u.h.state[k]
  BY <1>1
<1>3. GoTo(u, l, x) = [u EXCEPT !.h.state = s, !.due = u.due]
  BY <1>1 DEF GoTo, Running, Controllers
<1> HIDE DEF s
<1>4. AwakeFor(u.h.Buffers, s)
  <2>1. ASSUME NEW k \in Link, NEW n \in ToSet(u.h.Buffers[k])
        PROVE  s[k] = "ACTIVE" \/ BlockOf(n) = 0
    <3>1. CASE k # l
      BY <1>1, <1>2, <3>1 DEF AwakeFor
    <3>2. CASE k = l /\ u.h.Buffers[l] = <<>>
      BY <3>2 DEF ToSet
    <3>3. CASE k = l /\ u.h.state[l] # "ACTIVE"
      BY <1>1, <3>3 DEF AwakeFor
    <3> QED BY <3>1, <3>2, <3>3
  <2> QED BY <2>1 DEF AwakeFor
<1>5. LastGoesDown(s)
  BY <1>1, <1>2 DEF LastGoesDown
<1>6. u.due \in SUBSET Timer
  BY <1>1 DEF Running
<1> QED BY <1>2, <1>3, <1>4, <1>5, <1>6, StateKeeps

\* The first and the last link of a set.
LEMMA Extremes ==
  ASSUME NEW S \in SUBSET Link, S # {}
  PROVE  FirstOf(S) \in S /\ LastOf(S) \in S /\ \A k \in S : k <= LastOf(S)
<1>1. NUM_LINKS - 1 \in Nat /\ S \in SUBSET (0 .. NUM_LINKS - 1)
  BY Sizes
<1>2. (\E l \in S : \A k \in S : l <= k) /\ (\E l \in S : \A k \in S : k <= l)
  BY <1>1, LeastAndGreatest
<1> QED BY <1>2 DEF FirstOf, LastOf

\* A link that is not active may start to wake.
LEMMA StartWakingKeeps ==
  ASSUME NEW ans, NEW u \in GoodWith(ans), NEW l \in Link, u.h.state[l] # "ACTIVE"
  PROVE  StartWaking(u, l) \in GoodWith(ans)
<1>1. "TRANSITION_TO_RETRAIN" \in LinkState \ {"ACTIVE"}
  BY DEF LinkState, Waking
<1>2. GoTo(u, l, "TRANSITION_TO_RETRAIN") \in GoodWith(ans)
  BY <1>1, GoToKeeps
<1> QED BY <1>2, ArmKeeps DEF StartWaking

\* The manager that wakes links keeps the invariant, for each policy of linkPower.
LEMMA ExitKeeps ==
  ASSUME NEW ans, NEW u \in GoodWith(ans), Around
  PROVE  LinkPowerExitManager(u) \in GoodWith(ans)
<1>1. ASSUME NEW v \in GoodWith(ans) PROVE WakeForRequests(v) \in GoodWith(ans)
  <2> DEFINE asleep == LinksIn(v, Asleep)
  <2>1. CASE asleep = {}
    BY <1>1, <2>1 DEF WakeForRequests
  <2>2. CASE asleep # {}
    <3>1. FirstOf(asleep) \in asleep
      BY <2>2, Extremes DEF LinksIn
    <3>2. FirstOf(asleep) \in Link /\ v.h.state[FirstOf(asleep)] # "ACTIVE"
      BY <3>1 DEF LinksIn, Asleep
    <3>3. StartWaking(v, FirstOf(asleep)) \in GoodWith(ans)
      BY <1>1, <3>2, StartWakingKeeps
    <3> QED BY <1>1, <3>3 DEF WakeForRequests
  <2> QED BY <2>1, <2>2
<1>2. ASSUME NEW v \in GoodWith(ans), NEW l \in Link PROVE Wake(v, l) \in GoodWith(ans)
  BY <1>2, StartWakingKeeps, ArmKeeps DEF Wake
<1>3. ASSUME NEW v \in GoodWith(ans), NEW l \in Link PROVE Retrain(v, l) \in GoodWith(ans)
  <2> DEFINE s == [k \in Link |-> IF k = l THEN "RETRAIN1"
                                  ELSE IF v.h.state[k] = "DOWN" THEN "SLEEP" ELSE v.h.state[k]]
  <2>1. SUFFICES ASSUME v.h.state[l] = "TRANSITION_TO_RETRAIN"
                 PROVE  [v EXCEPT !.h.state = s] \in GoodWith(ans)
    BY <1>3 DEF Retrain, GoodWith, Good, Running, Controllers
  <2>2. /\ v \in Running /\ v.h \in Controllers /\ v.h.state \in [Link -> LinkState]
        /\ AwakeFor(v.h.Buffers, v.h.state) /\ LastGoesDown(v.h.state)
    BY <1>3 DEF GoodWith, Good, GoodWhen, Running, Controllers
  <2>3. s \in [Link -> LinkState]
    BY <2>2 DEF LinkState, Asleep, Waking
  <2>4. \A k \in Link : /\ s[k] = "ACTIVE" <=> v.h.state[k] = "ACTIVE"
                        /\ s[k] = "TRANSITION_TO_DOWN" => v.h.state[k] = "TRANSITION_TO_DOWN"
    BY <2>1
  <2>5. [v EXCEPT !.h.state = s] = [v EXCEPT !.h.state = s, !.due = v.due] /\ v.due \in SUBSET Timer
    BY <2>2 DEF Running
  <2> HIDE DEF s
  <2>6. AwakeFor(v.h.Buffers, s) /\ LastGoesDown(s)
    BY <2>2, <2>4 DEF AwakeFor, LastGoesDown
  <2> QED BY <1>3, <2>3, <2>5, <2>6, StateKeeps
<1>4. ASSUME NEW v \in GoodWith(ans) PROVE WakeForEpoch(v) \in GoodWith(ans)
  <2>1. v.h.sleepLink \in 0 .. NUM_LINKS - 1
    BY <1>4, Sizes DEF GoodWith, Good, GoodWhen, Running, Controllers
  <2>2. NUM_LINKS - v.h.sleepLink \in Nat /\ 0 .. (NUM_LINKS - v.h.sleepLink) - 1 \subseteq Link
    BY <2>1, Sizes
  <2>3. WakeLoop!After(0, v, NUM_LINKS - v.h.sleepLink) \in GoodWith(ans)
    BY <1>2, <1>4, <2>2, WakeLoop!LoopKeeps
  <2> QED BY <2>3 DEF WakeForEpoch, WakeLoop!After, WakeLoop!Repeat, Repeat
<1>5. ASSUME NEW v \in GoodWith(ans) PROVE EnterRetraining(v) \in GoodWith(ans)
  <2>1. RetrainLoop!After(0, v, NUM_LINKS) \in GoodWith(ans)
    BY <1>3, <1>5, Sizes, RetrainLoop!LoopKeeps
  <2> QED BY <2>1 DEF EnterRetraining, RetrainLoop!After, RetrainLoop!Repeat, Repeat
<1>6. policy \in {"NO_MANAGEMENT", "QUIESCE_SLEEP", "EPOCH"}
  BY Sizes DEF Around
<1> QED BY <1>1, <1>4, <1>5, <1>6 DEF LinkPowerExitManager

\* Each way in which a link is quieted or put to sleep keeps the invariant:
\* a link is quieted only when it has nothing to do.
LEMMA EntryStepKeeps ==
  ASSUME NEW ans, NEW v \in GoodWith(ans), NEW l \in Link
  PROVE  /\ v.h.state[l] = "ACTIVE" /\ Settled(v, l) => Quiet(v, l) \in GoodWith(ans)
         /\ v.h.state[l] # "ACTIVE" => StartSleeping(v, l) \in GoodWith(ans)
         /\ v.h.state[l] # "ACTIVE" => FallAsleep(v, l) \in GoodWith(ans)
<1>1. {"WAIT", "TRANSITION_TO_SLEEP", "SLEEP"} \subseteq LinkState \ {"ACTIVE", "TRANSITION_TO_DOWN"}
  BY DEF LinkState, Asleep
<1>2. ASSUME v.h.state[l] = "ACTIVE", Settled(v, l) PROVE Quiet(v, l) \in GoodWith(ans)
  BY <1>1, <1>2, GoToKeeps DEF Quiet, Settled
<1>3. ASSUME v.h.state[l] # "ACTIVE" PROVE StartSleeping(v, l) \in GoodWith(ans)
  <2>1. GoTo(v, l, "TRANSITION_TO_SLEEP") \in GoodWith(ans)
    BY <1>1, <1>3, GoToKeeps
  <2> QED BY <2>1, ArmKeeps DEF StartSleeping
<1>4. ASSUME v.h.state[l] # "ACTIVE" PROVE FallAsleep(v, l) \in GoodWith(ans)
  <2>1. GoTo(v, l, "SLEEP") \in GoodWith(ans)
    BY <1>1, <1>4, GoToKeeps
  <2> QED BY <2>1 DEF FallAsleep
<1> QED BY <1>2, <1>3, <1>4

\* The manager that puts links to sleep keeps the invariant, for each policy.
LEMMA EntryKeeps ==
  ASSUME NEW ans, NEW u \in GoodWith(ans), Around
  PROVE  LinkPowerEntryManager(u) \in GoodWith(ans)
<1>1. ASSUME NEW v \in GoodWith(ans), NEW l \in Link, NEW p
      PROVE  QuiesceLink(v, l, p) \in GoodWith(ans)
  <2> DEFINE lastExit == \A k \in Link \ {l} : v.h.state[k] \in {"SLEEP", "TRANSITION_TO_SLEEP"}
             down == [v EXCEPT !.h.state = [k \in Link |-> "DOWN"]]
             goes == Arm(GoTo(v, l, "TRANSITION_TO_DOWN"), <<"modeTransition", l>>)
  <2>1. ASSUME lastExit, v.h.state[l] # "ACTIVE" PROVE goes \in GoodWith(ans)
    <3>1. "TRANSITION_TO_DOWN" \in LinkState \ {"ACTIVE"}
      BY DEF LinkState
    <3>2. \A k \in Link \ {l} : v.h.state[k] # "ACTIVE"
      BY <2>1
    <3>3. GoTo(v, l, "TRANSITION_TO_DOWN") \in GoodWith(ans)
      BY <1>1, <2>1, <3>1, <3>2, GoToKeeps
    <3> QED BY <3>3, ArmKeeps
  <2>2. ASSUME v.h.state[l] = "TRANSITION_TO_DOWN" PROVE down \in GoodWith(ans)
    <3> DEFINE s == [k \in Link |-> "DOWN"]
    <3>1. /\ v \in Running /\ v.h \in Controllers /\ v.due \in SUBSET Timer
          /\ AwakeFor(v.h.Buffers, v.h.state) /\ LastGoesDown(v.h.state)
      BY <1>1 DEF GoodWith, Good, GoodWhen, Running
    <3>2. s \in [Link -> LinkState] /\ \A k \in Link : s[k] = "DOWN"
      BY DEF LinkState, Asleep
    <3>3. \A k \in Link : v.h.state[k] # "ACTIVE"
      BY <2>2, <3>1 DEF LastGoesDown
    <3>4. down = [v EXCEPT !.h.state = s, !.due = v.due]
      BY <3>1 DEF Running
    <3> HIDE DEF s, down
    <3>5. AwakeFor(v.h.Buffers, s) /\ LastGoesDown(s)
      BY <3>1, <3>2, <3>3 DEF AwakeFor, LastGoesDown
    <3> QED BY <1>1, <3>1, <3>2, <3>4, <3>5, StateKeeps
  <2> HIDE DEF lastExit, down, goes
  <2>3. QuiesceLink(v, l, p) =
          CASE /\ v.h.state[l] = "ACTIVE" /\ Settled(v, l) /\ <<"calm", l>> \in v.due
               /\ (~p \/ v.h.returnTransCnt = 0) -> Quiet(v, l)
            [] v.h.state[l] = "CONFIRM" /\ <<"staggerSleep", 0>> \in v.due /\ ~lastExit ->
                 StartSleeping(v, l)
            [] v.h.state[l] = "CONFIRM" /\ <<"staggerSleep", 0>> \in v.due /\ lastExit -> goes
            [] v.h.state[l] = "TRANSITION_TO_SLEEP" -> FallAsleep(v, l)
            [] v.h.state[l] = "TRANSITION_TO_DOWN" /\ <<"modeTransition", l>> \in v.due -> down
            [] OTHER -> v
    BY DEF QuiesceLink, lastExit, down, goes
  <2> QED BY <1>1, <2>1, <2>2, <2>3, EntryStepKeeps
<1>2. ASSUME NEW v \in GoodWith(ans), NEW i \in 0 .. NUM_LINKS - 1
      PROVE  SleepLink(v, i) \in GoodWith(ans)
  <2> DEFINE l == NUM_LINKS - 1 - i
  <2>1. l \in Link
    BY Sizes
  <2>2. SleepLink(v, i) =
          CASE v.h.state[l] = "ACTIVE" /\ Settled(v, l) /\ <<"calm", l>> \in v.due -> Quiet(v, l)
            [] v.h.state[l] = "CONFIRM" /\ <<"staggerSleep", 0>> \in v.due -> StartSleeping(v, l)
            [] v.h.state[l] = "TRANSITION_TO_SLEEP" -> FallAsleep(v, l)
            [] OTHER -> v
    BY DEF SleepLink
  <2> HIDE DEF l
  <2> QED BY <1>2, <2>1, <2>2, EntryStepKeeps
<1>3. Quiesce(u) \in GoodWith(ans)
  <2> DEFINE p == Cardinality(LinksIn(u, {"ACTIVE"})) = 1
  <2>1. \A i \in 0 .. NUM_LINKS - 1, v \in GoodWith(ans) : QuiesceLink(v, i, p) \in GoodWith(ans)
    BY <1>1, Sizes
  <2>2. Quiesce(u) = QuiesceLoop!After(p, u, NUM_LINKS)
    BY DEF Quiesce, QuiesceLoop!After, QuiesceLoop!Repeat, Repeat
  <2> HIDE DEF p
  <2> QED BY <2>1, <2>2, Sizes, QuiesceLoop!LoopKeeps
<1>4. SleepAsTold(u) \in GoodWith(ans)
  <2>1. u.h.sleepLink \in 0 .. NUM_LINKS - 1
    BY Sizes DEF GoodWith, Good, GoodWhen, Running, Controllers
  <2>2. u.h.sleepLink \in Nat /\ 0 .. u.h.sleepLink - 1 \subseteq 0 .. NUM_LINKS - 1
    BY <2>1, Sizes
  <2>3. SleepLoop!After(0, u, u.h.sleepLink) \in GoodWith(ans)
    BY <1>2, <2>2, SleepLoop!LoopKeeps
  <2> QED BY <2>3 DEF SleepAsTold, SleepLoop!After, SleepLoop!Repeat, Repeat
<1>5. policy \in {"NO_MANAGEMENT", "QUIESCE_SLEEP", "EPOCH"}
  BY Sizes DEF Around
<1> QED BY <1>3, <1>4, <1>5 DEF LinkPowerEntryManager

\* The rest of an Update: sleepLink and bufPopDelay are set.
LEMMA SettingsKeep ==
  ASSUME NEW ans, NEW u \in GoodWith(ans), NEW w, NEW k \in Link,
         NEW i \in Link \cup {-1}, NEW d \in {0, 1},
         w = [u EXCEPT !.h.bufPopDelay = d, !.h.sleepLink = k, !.h.inServiceLink = i]
  PROVE  w \in GoodWith(ans)
<1>1. /\ u \in Running /\ u.h \in Controllers
      /\ AwakeFor(u.h.Buffers, u.h.state) /\ LastGoesDown(u.h.state)
  BY DEF GoodWith, Good, GoodWhen, Running
<1>2. /\ w.h = [u.h EXCEPT !.bufPopDelay = d, !.sleepLink = k, !.inServiceLink = i]
      /\ w.uncounted = u.uncounted
      /\ w = [h |-> w.h, due |-> u.due, uncounted |-> u.uncounted, sent |-> u.sent]
  BY <1>1 DEF Running
<1>3. w.h \in Controllers
  BY <1>1, <1>2 DEF Controllers
<1>4. /\ w.h.downBuffers = u.h.downBuffers /\ w.h.Buffers = u.h.Buffers
      /\ w.h.upBuffers = u.h.upBuffers /\ w.h.answered = u.h.answered
      /\ w.h.returnTransCnt = u.h.returnTransCnt /\ w.h.state = u.h.state
  BY <1>1, <1>2 DEF Controllers
<1>5. w \in Running
  BY <1>1, <1>2, <1>3 DEF Running
<1> QED BY <1>1, <1>2, <1>4, <1>5, SameTraffic
-----------------------------------------------------------------------------
(***************************************************************************)
(* Downstream and Upstream.  w is the record after the step.               *)
(***************************************************************************)

\* The first transaction n goes to link l: the one where packets of its block wait
\* or an ACTIVE one when there is none.  It is counted or noted as uncounted.
Sent(u, w, l) ==
  LET n == Head(u.h.downBuffers)
  IN  /\ w.h.downBuffers = Tail(u.h.downBuffers)
      /\ w.h.Buffers = [u.h.Buffers EXCEPT ![l] = Append(@, n)]
      /\ w.h.upBuffers = u.h.upBuffers /\ w.h.answered = u.h.answered
      /\ w.h.state = u.h.state
      /\ \/ /\ w.uncounted = u.uncounted
            /\ w.h.returnTransCnt = IF Wants(arrived[n]) THEN (u.h.returnTransCnt + 1) % COUNT_MAX
                                                         ELSE u.h.returnTransCnt
         \/ /\ w.uncounted = u.uncounted \cup {x \in {n} : Wants(arrived[x])}
            /\ w.h.returnTransCnt = u.h.returnTransCnt

\* returnTransCnt after a transaction more or less.
LEMMA CountStep ==
  /\ \A a \in Int : a % COUNT_MAX \in 0 .. COUNT_MAX - 1
  /\ \A a \in Int : ((a % COUNT_MAX) + 1) % COUNT_MAX = (a + 1) % COUNT_MAX
  /\ \A a \in Int : ((a % COUNT_MAX) - 1) % COUNT_MAX = (a - 1) % COUNT_MAX
<1>1. COUNT_MAX \in Nat \ {0}
  BY Sizes
<1>2. ASSUME NEW a \in Int, NEW b \in Int
      PROVE  a % COUNT_MAX \in 0 .. COUNT_MAX - 1 /\ ((a % COUNT_MAX) + b) % COUNT_MAX = (a + b) % COUNT_MAX
  BY <1>1, ModStep
<1>3. ASSUME NEW a \in Int PROVE ((a % COUNT_MAX) - 1) % COUNT_MAX = (a - 1) % COUNT_MAX
  <2>1. a % COUNT_MAX \in Int
    BY <1>1
  <2>2. (a % COUNT_MAX) - 1 = (a % COUNT_MAX) + (-1) /\ a - 1 = a + (-1)
    BY <2>1
  <2> QED BY <1>2, <2>2
<1> QED BY <1>2, <1>3

\* The parts of Drift are numbers.
LEMMA FiniteParts ==
  ASSUME Around, NEW u \in Running, NEW unc
  PROVE  /\ IsFiniteSet(OutstandingOf(u.h, memory) \ unc)
         /\ IsFiniteSet(ToSet(u.h.answered) \cap unc)
         /\ Cardinality(OutstandingOf(u.h, memory) \ unc) \in Nat
         /\ Cardinality(ToSet(u.h.answered) \cap unc) \in Nat
<1>1. /\ u.h.upBuffers \in Seq(DOMAIN arrived) /\ u.h.answered \in Seq(DOMAIN arrived)
      /\ u.h.Buffers \in [Link -> Seq({0} \cup DOMAIN arrived)]
  BY DEF Running, Controllers
<1>2. ToSet(u.h.upBuffers) \subseteq DOMAIN arrived /\ ToSet(u.h.answered) \subseteq DOMAIN arrived
  BY <1>1 DEF ToSet
<1>3. Held(u.h.Buffers) \subseteq {0} \cup DOMAIN arrived
  <2>1. \A l \in Link : ToSet(u.h.Buffers[l]) \subseteq {0} \cup DOMAIN arrived
    BY <1>1 DEF ToSet
  <2> QED BY <2>1 DEF Held
<1>4. OutstandingOf(u.h, memory) \ unc \subseteq DOMAIN arrived
  BY <1>2, <1>3, Numbers DEF OutstandingOf
<1>5. IsFiniteSet(DOMAIN arrived)
  BY Numbers
<1>6. IsFiniteSet(OutstandingOf(u.h, memory) \ unc) /\ IsFiniteSet(ToSet(u.h.answered) \cap unc)
  BY <1>2, <1>4, <1>5, FS_Subset
<1> QED BY <1>6, FS_CardinalityType

\* A transaction that goes to link l, and is counted or not, keeps the invariant:
\* what is in the way of its block is in link l too (HMCController.cpp:127-193).
LEMMA SendKeeps ==
  ASSUME Around, NEW ans, NEW u \in GoodWith(ans), NEW l \in Link, NEW w \in Running,
         u.h.downBuffers # <<>>, Fits(u, l), Sent(u, w, l),
         (Dependencies(u) = {} /\ u.h.state[l] = "ACTIVE") \/ l \in Dependencies(u)
  PROVE  w \in GoodWith(ans)
<1> DEFINE n == Head(u.h.downBuffers)
           c == u.h
           d == w.h
<1>1. /\ u \in Running /\ WithinLimits(c) /\ Together(c.Buffers) /\ OnePlace(c, memory, u.uncounted)
      /\ AwakeFor(c.Buffers, c.state) /\ LastGoesDown(c.state) /\ c.answered = ans
      /\ c.returnTransCnt = Drift(c, memory, u.uncounted) % COUNT_MAX
  BY DEF GoodWith, Good, GoodWhen
<1>2. /\ c.downBuffers \in Seq(DOMAIN arrived) /\ c.upBuffers \in Seq(DOMAIN arrived)
      /\ c.Buffers \in [Link -> Seq({0} \cup DOMAIN arrived)]
      /\ d.Buffers \in [Link -> Seq({0} \cup DOMAIN arrived)]
  BY <1>1 DEF Running, Controllers
<1>3. /\ d.downBuffers = Tail(c.downBuffers) /\ d.upBuffers = c.upBuffers
      /\ d.answered = c.answered /\ d.state = c.state
      /\ d.Buffers = [c.Buffers EXCEPT ![l] = Append(@, n)]
  BY DEF Sent
<1>4. /\ n \in DOMAIN arrived /\ n # 0 /\ Len(d.downBuffers) = Len(c.downBuffers) - 1
      /\ ToSet(c.downBuffers) = ToSet(d.downBuffers) \cup {n}
      /\ IsInjective(c.downBuffers) => IsInjective(d.downBuffers) /\ n \notin ToSet(d.downBuffers)
  BY <1>2, <1>3, TailOnce, Numbers
<1>5. /\ \A k \in Link \ {l} : d.Buffers[k] = c.Buffers[k]
      /\ d.Buffers[l] = Append(c.Buffers[l], n)
      /\ ToSet(d.Buffers[l]) = ToSet(c.Buffers[l]) \cup {n}
      /\ RequestsOnce(c.Buffers[l]) /\ n \notin ToSet(c.Buffers[l]) => RequestsOnce(d.Buffers[l])
  <2>1. c.Buffers[l] \in Seq({0} \cup DOMAIN arrived) /\ n \in {0} \cup DOMAIN arrived
    BY <1>2, <1>4
  <2>2. /\ \A k \in Link \ {l} : d.Buffers[k] = c.Buffers[k]
        /\ d.Buffers[l] = Append(c.Buffers[l], n)
    BY <1>2, <1>3
  <2> HIDE DEF n, c, d
  <2>3. ToSet(Append(c.Buffers[l], n)) = ToSet(c.Buffers[l]) \cup {n}
    BY <2>1, AppendOnce
  <2>4. RequestsOnce(c.Buffers[l]) /\ n \notin ToSet(c.Buffers[l])
          => RequestsOnce(Append(c.Buffers[l], n))
    BY <2>1, OnceLaws
  <2> QED BY <2>2, <2>3, <2>4
<1>6. Held(d.Buffers) = Held(c.Buffers) \cup {n}
  BY <1>5 DEF Held
<1>7. /\ n \notin Held(c.Buffers) /\ n \notin memory /\ n \notin ToSet(c.upBuffers)
      /\ n \notin ToSet(c.answered) /\ n \notin u.uncounted
      /\ \A k \in Link : n \notin ToSet(c.Buffers[k])
  BY <1>1, <1>4 DEF OnePlace, Held
<1>8. Dependencies(u) = {k \in Link : \E x \in ToSet(c.Buffers[k]) : BlockOf(x) = BlockOf(n)}
  BY DEF Dependencies
<1>9. Fits(u, l) = (Flits(c.Buffers[l]) + RequestLNG(n) <= MAX_LINK_BUF)
  BY DEF Fits
<1>10. w.uncounted \in SUBSET (u.uncounted \cup {n})
  BY DEF Sent
<1> HIDE DEF n
<1>11. WithinLimits(d)
  <2>1. Len(d.downBuffers) <= MAX_REQ_BUF
    <3>1. Len(c.downBuffers) \in Nat /\ Len(c.downBuffers) <= MAX_REQ_BUF /\ MAX_REQ_BUF \in Nat
      BY <1>1, <1>2, HostConstants DEF WithinLimits
    <3> QED BY <1>4, <3>1
  <2>2. Flits(d.Buffers[l]) = Flits(c.Buffers[l]) + RequestLNG(n)
    BY <1>2, <1>4, <1>5, FlitsLaws
  <2>3. Flits(d.Buffers[l]) <= MAX_LINK_BUF + Trets(d.Buffers[l])
    <3>1. Trets(d.Buffers[l]) \in Nat /\ Flits(d.Buffers[l]) \in Nat
      BY <1>2, TretsLaws, FlitsLaws
    <3>2. Flits(d.Buffers[l]) <= MAX_LINK_BUF
      BY <1>9, <2>2
    <3> QED BY <3>1, <3>2, HostConstants
  <2>4. \A k \in Link : Flits(d.Buffers[k]) <= MAX_LINK_BUF + Trets(d.Buffers[k])
    BY <1>1, <1>5, <2>3 DEF WithinLimits
  <2> QED BY <1>1, <1>3, <2>1, <2>4 DEF WithinLimits
<1>12. Together(d.Buffers)
  <2>1. ASSUME NEW k \in Link, NEW x \in ToSet(c.Buffers[k]),
               BlockOf(x) = BlockOf(n), BlockOf(n) # 0
        PROVE  k = l
    <3>1. l \in Dependencies(u)
      BY <1>8, <2>1
    <3>2. PICK y \in ToSet(c.Buffers[l]) : BlockOf(y) = BlockOf(n)
      BY <1>8, <3>1
    <3> QED BY <1>1, <2>1, <3>2 DEF Together
  <2>2. ASSUME NEW j \in Link, NEW k \in Link,
               NEW x \in ToSet(d.Buffers[j]), NEW y \in ToSet(d.Buffers[k]),
               BlockOf(x) = BlockOf(y), BlockOf(x) # 0
        PROVE  j = k
    <3>1. x \in ToSet(c.Buffers[j]) \/ (x = n /\ j = l)
      BY <1>5, <2>2
    <3>2. y \in ToSet(c.Buffers[k]) \/ (y = n /\ k = l)
      BY <1>5, <2>2
    <3> QED BY <1>1, <2>1, <2>2, <3>1, <3>2 DEF Together
  <2> QED BY <2>2 DEF Together
<1>13. AwakeFor(d.Buffers, d.state)
  <2>1. c.state[l] = "ACTIVE" \/ BlockOf(n) = 0
    BY <1>1, <1>8 DEF AwakeFor
  <2>2. ASSUME NEW k \in Link, NEW x \in ToSet(d.Buffers[k])
        PROVE  d.state[k] = "ACTIVE" \/ BlockOf(x) = 0
    BY <1>1, <1>3, <1>5, <2>1, <2>2 DEF AwakeFor
  <2> QED BY <2>2 DEF AwakeFor
<1>14. OnePlace(d, memory, w.uncounted)
  <2>1. /\ IsInjective(d.downBuffers) /\ IsInjective(d.upBuffers)
        /\ \A k \in Link : RequestsOnce(d.Buffers[k])
    BY <1>1, <1>3, <1>4, <1>5, <1>7 DEF OnePlace
  <2>2. \A j, k \in Link : \A x \in ToSet(d.Buffers[j]) \cap ToSet(d.Buffers[k]) : x = 0 \/ j = k
    <3>1. ASSUME NEW j \in Link, NEW k \in Link,
                 NEW x \in ToSet(d.Buffers[j]), x \in ToSet(d.Buffers[k]), x # 0
          PROVE  j = k
      <4>1. x \in ToSet(c.Buffers[j]) \/ (x = n /\ j = l)
        BY <1>5
      <4>2. x \in ToSet(c.Buffers[k]) \/ (x = n /\ k = l)
        BY <1>5, <3>1
      <4>3. x = n => j = l /\ k = l
        BY <1>7, <4>1, <4>2
      <4> QED BY <1>1, <3>1, <4>1, <4>2, <4>3 DEF OnePlace
    <3> QED BY <3>1
  <2>3. ToSet(d.downBuffers) \cap
          (Held(d.Buffers) \cup memory \cup ToSet(d.upBuffers) \cup ToSet(d.answered) \cup w.uncounted) = {}
    BY <1>1, <1>3, <1>4, <1>6, <1>10 DEF OnePlace
  <2>4. Held(d.Buffers) \cap (memory \cup ToSet(d.upBuffers) \cup ToSet(d.answered)) = {}
    BY <1>1, <1>3, <1>6, <1>7 DEF OnePlace
  <2> QED BY <1>1, <1>3, <2>1, <2>2, <2>3, <2>4 DEF OnePlace
<1>15. d.returnTransCnt = Drift(d, memory, w.uncounted) % COUNT_MAX
  <2> DEFINE N == {x \in {n} : Wants(arrived[x])}
             D(unc) == Drift(d, memory, unc)
             old == OutstandingOf(c, memory)
             A(unc) == Cardinality(ToSet(c.answered) \cap unc)
  <2>1. OutstandingOf(d, memory) = old \cup N /\ n \notin old
    BY <1>3, <1>4, <1>6, <1>7 DEF OutstandingOf
  <2>2. CASE w.uncounted = u.uncounted \cup N /\ d.returnTransCnt = c.returnTransCnt
    <3>1. OutstandingOf(d, memory) \ w.uncounted = old \ u.uncounted
      BY <2>1, <2>2
    <3>2. ToSet(d.answered) \cap w.uncounted = ToSet(c.answered) \cap u.uncounted
      BY <1>3, <1>7, <2>2
    <3>3. Drift(d, memory, w.uncounted) = Drift(c, memory, u.uncounted)
      BY <3>1, <3>2 DEF Drift
    <3> QED BY <1>1, <2>2, <3>3
  <2>3. CASE /\ w.uncounted = u.uncounted
             /\ d.returnTransCnt = IF Wants(arrived[n]) THEN (c.returnTransCnt + 1) % COUNT_MAX
                                                       ELSE c.returnTransCnt
    <3>1. CASE Wants(arrived[n])
      <4>1. OutstandingOf(d, memory) \ w.uncounted = (old \ u.uncounted) \cup {n}
        BY <1>7, <2>1, <2>3, <3>1
      <4>2. /\ IsFiniteSet(old \ u.uncounted) /\ Cardinality(old \ u.uncounted) \in Nat
            /\ A(u.uncounted) \in Nat
        BY <1>1, FiniteParts
      <4>3. Cardinality((old \ u.uncounted) \cup {n}) = Cardinality(old \ u.uncounted) + 1
        BY <2>1, <4>2, FS_AddElement
      <4>4. /\ Drift(d, memory, w.uncounted) = Cardinality(old \ u.uncounted) + 1 - A(u.uncounted)
            /\ Drift(c, memory, u.uncounted) = Cardinality(old \ u.uncounted) - A(u.uncounted)
        <5>1. Cardinality(OutstandingOf(d, memory) \ w.uncounted) = Cardinality(old \ u.uncounted) + 1
          BY <4>1, <4>3
        <5>2. Cardinality(ToSet(d.answered) \cap w.uncounted) = A(u.uncounted)
          BY <1>3, <2>3
        <5>3. Drift(d, memory, w.uncounted) =
                Cardinality(OutstandingOf(d, memory) \ w.uncounted)
                  - Cardinality(ToSet(d.answered) \cap w.uncounted)
          BY DEF Drift
        <5>4. Drift(c, memory, u.uncounted) = Cardinality(old \ u.uncounted) - A(u.uncounted)
          BY DEF Drift
        <5> HIDE DEF A, old, D, c, d
        <5> QED BY <4>2, <5>1, <5>2, <5>3, <5>4
      <4>5. \A a, b \in Nat : a - b \in Int /\ a + 1 - b = (a - b) + 1
        OBVIOUS
      <4> HIDE DEF A
      <4>6. /\ Drift(d, memory, w.uncounted) = Drift(c, memory, u.uncounted) + 1
            /\ Drift(c, memory, u.uncounted) \in Int
        BY <4>2, <4>4, <4>5
      <4> QED BY <1>1, <2>3, <3>1, <4>6, CountStep
    <3>2. CASE ~Wants(arrived[n])
      <4>1. OutstandingOf(d, memory) = old
        BY <2>1, <3>2
      <4>2. Drift(d, memory, w.uncounted) = Drift(c, memory, u.uncounted)
        BY <1>3, <2>3, <4>1 DEF Drift
      <4> QED BY <1>1, <2>3, <3>2, <4>2
    <3> QED BY <3>1, <3>2
  <2> QED BY <2>2, <2>3 DEF Sent, n
<1> QED BY <1>1, <1>3, <1>11, <1>12, <1>13, <1>14, <1>15 DEF GoodWith, Good, GoodWhen

\* The controller after it gave its first transaction to link l.
HandOver(c, l, i, cnt) ==
  [c EXCEPT !.Buffers = [c.Buffers EXCEPT ![l] = Append(@, Head(c.downBuffers))],
            !.downBuffers = Tail(c.downBuffers), !.inServiceLink = i, !.returnTransCnt = cnt]

\* So does the step that the code takes, with each count that it can leave.
LEMMA HandOverKeeps ==
  ASSUME Around, NEW ans, NEW u \in GoodWith(ans), NEW l \in Link, NEW i \in Link \cup {-1},
         NEW cnt \in 0 .. COUNT_MAX - 1, NEW b \in BOOLEAN, NEW unc,
         u.h.downBuffers # <<>>, Fits(u, l),
         (Dependencies(u) = {} /\ u.h.state[l] = "ACTIVE") \/ l \in Dependencies(u),
         LET n == Head(u.h.downBuffers)
         IN  \/ /\ unc = u.uncounted
                /\ cnt = IF Wants(arrived[n]) THEN (u.h.returnTransCnt + 1) % COUNT_MAX
                                              ELSE u.h.returnTransCnt
             \/ /\ unc = u.uncounted \cup {x \in {n} : Wants(arrived[x])}
                /\ cnt = u.h.returnTransCnt
  PROVE  [h |-> HandOver(u.h, l, i, cnt), due |-> u.due, uncounted |-> unc, sent |-> b] \in GoodWith(ans)
<1> DEFINE n == Head(u.h.downBuffers)
           bufs == [u.h.Buffers EXCEPT ![l] = Append(@, n)]
           c == HandOver(u.h, l, i, cnt)
           w == [h |-> c, due |-> u.due, uncounted |-> unc, sent |-> b]
<1>1. /\ u \in Running /\ u.h \in Controllers /\ u.h.downBuffers \in Seq(DOMAIN arrived)
      /\ u.h.Buffers \in [Link -> Seq({0} \cup DOMAIN arrived)] /\ u.due \in SUBSET Timer
      /\ u.uncounted \in SUBSET DOMAIN arrived
  BY DEF GoodWith, Good, GoodWhen, Running, Controllers
<1>2. n \in DOMAIN arrived /\ Tail(u.h.downBuffers) \in Seq(DOMAIN arrived)
  BY <1>1, TailOnce
<1>3. bufs \in [Link -> Seq({0} \cup DOMAIN arrived)]
  <2>1. Append(u.h.Buffers[l], n) \in Seq({0} \cup DOMAIN arrived)
    BY <1>1, <1>2
  <2> QED BY <1>1, <2>1
<1>4. c \in Controllers
  <2>1. c = [u.h EXCEPT !.Buffers = bufs, !.downBuffers = Tail(u.h.downBuffers),
                        !.inServiceLink = i, !.returnTransCnt = cnt]
    BY DEF HandOver
  <2> HIDE DEF bufs, c
  <2> QED BY <1>1, <1>2, <1>3, <2>1 DEF Controllers
<1>5. w \in Running
  <2> HIDE DEF c
  <2> QED BY <1>1, <1>2, <1>4 DEF Running
<1>6. Sent(u, w, l)
  BY <1>1 DEF Sent, HandOver, Controllers
<1> HIDE DEF w
<1>7. w \in GoodWith(ans)
  BY <1>5, <1>6, SendKeeps
<1> QED BY <1>7 DEF w

\* The least loaded link is a link.
LEMMA LeastIsLink ==
  ASSUME NEW u, u.h.Buffers \in [Link -> Seq({0} \cup DOMAIN arrived)],
         NEW standby \in [Link -> Nat]
  PROVE  LeastLoaded(u, standby) \in Link
<1> DEFINE load(l) == Flits(u.h.Buffers[l]) + standby[l]
           open == {l \in LinksIn(u, {"ACTIVE"}) : load(l) < MAX_LINK_BUF}
           least == {l \in open : \A k \in open : load(l) <= load(k)}
           loads == {load(l) : l \in open}
<1>1. open \subseteq Link /\ least \subseteq open
  BY DEF LinksIn
<1>2. \A l \in Link : load(l) \in Nat
  <2>1. \A l \in Link : u.h.Buffers[l] \in Seq({0} \cup DOMAIN arrived) /\ standby[l] \in Nat
    OBVIOUS
  <2> QED BY <2>1, FlitsLaws
<1>3. \A l \in open : load(l) < MAX_LINK_BUF
  OBVIOUS
<1>4. 0 \in Link /\ MAX_LINK_BUF \in Nat
  BY Sizes, HostConstants
<1> HIDE DEF load
<1>5. loads \in SUBSET (0 .. MAX_LINK_BUF)
  <2>1. \A l \in open : load(l) \in 0 .. MAX_LINK_BUF
    BY <1>1, <1>2, <1>3, <1>4
  <2> QED BY <2>1
<1>6. ASSUME open # {} PROVE least # {}
  <2>1. loads # {}
    BY <1>6
  <2>2. \E x \in loads : \A y \in loads : x <= y
    BY <1>4, <1>5, <2>1, LeastAndGreatest
  <2> QED BY <2>2
<1>7. LeastLoaded(u, standby) = IF open = {} THEN 0 ELSE FirstOf(least)
  BY DEF LeastLoaded, load
<1> HIDE DEF least, open
<1>8. least # {} => FirstOf(least) \in least
  BY <1>1, Extremes
<1> QED BY <1>1, <1>4, <1>6, <1>7, <1>8

\* The whole tour over the links with the first request keeps the invariant.
LEMMA DownstreamKeeps ==
  ASSUME Around, NEW ans, NEW u \in GoodWith(ans), NEW standby \in [Link -> Nat]
  PROVE  Downstream(u, standby) \in GoodWith(ans)
<1>1. ASSUME NEW v \in GoodWith(ans)
      PROVE  /\ v \in Running /\ v.h \in Controllers /\ v.uncounted \in SUBSET DOMAIN arrived
             /\ v.h.returnTransCnt \in 0 .. COUNT_MAX - 1 /\ v.h.inServiceLink \in Link \cup {-1}
             /\ v.h.sleepLink \in Link /\ v.h.bufPopDelay \in {0, 1}
             /\ v.h.Buffers \in [Link -> Seq({0} \cup DOMAIN arrived)]
             /\ v.h.downBuffers # <<>> => Head(v.h.downBuffers) \in DOMAIN arrived
  <2>1. v \in Running /\ v.h \in Controllers /\ v.h.downBuffers \in Seq(DOMAIN arrived)
    BY <1>1 DEF GoodWith, Good, GoodWhen, Running, Controllers
  <2>2. v.h.downBuffers # <<>> => Head(v.h.downBuffers) \in DOMAIN arrived
    BY <2>1, TailOnce
  <2> QED BY <2>1, <2>2 DEF Running, Controllers
<1>2. ASSUME u.h.downBuffers # <<>>, Dependencies(u) # {}
      PROVE  SendDependent(u, LastOf(Dependencies(u))) \in GoodWith(ans)
  <2> DEFINE l == LastOf(Dependencies(u))
             n == Head(u.h.downBuffers)
             w == [Send(u, l) EXCEPT !.uncounted = @ \cup {x \in {n} : Wants(arrived[x])}]
             c == HandOver(u.h, l, u.h.inServiceLink, u.h.returnTransCnt)
             unc == u.uncounted \cup {x \in {n} : Wants(arrived[x])}
  <2>1. SUFFICES ASSUME Fits(u, l) PROVE w \in GoodWith(ans)
    BY DEF SendDependent
  <2>2. l \in Dependencies(u) /\ l \in Link
    BY <1>2, Extremes DEF Dependencies
  <2>3. [h |-> c, due |-> u.due, uncounted |-> unc, sent |-> u.sent] \in GoodWith(ans)
    <3>1. u.sent \in BOOLEAN
      BY <1>1 DEF Running
    <3> HIDE DEF l
    <3> QED BY <1>1, <1>2, <2>1, <2>2, <3>1, HandOverKeeps
  <2>4. w = [h |-> c, due |-> u.due, uncounted |-> unc, sent |-> u.sent]
    <3> HIDE DEF l, n
    <3>1. [u.h EXCEPT !.Buffers[l] = Append(@, n), !.downBuffers = Tail(@)] = c
      BY <1>1 DEF HandOver, Controllers, n
    <3>2. w = [[u EXCEPT !.h = c] EXCEPT !.uncounted = unc]
      BY <1>1, <3>1 DEF Send, Running, n
    <3> HIDE DEF c, unc, w
    <3> QED BY <1>1, <3>2 DEF Running
  <2> QED BY <2>3, <2>4
<1> DEFINE P == {v \in GoodWith(ans) : v.sent \/ (v.h.downBuffers # <<>> /\ Dependencies(v) = {})}
<1>3. ASSUME NEW v \in P PROVE Try(v, standby) \in P
  <2> DEFINE link == FindAvailableLink(v, standby)
             is == IF scheme = "ROUND_ROBIN" THEN link ELSE v.h.inServiceLink
             t == Served(v, link)
             n == Head(v.h.downBuffers)
             w == [Count(Send(t, link), n) EXCEPT !.sent = TRUE]
             cnt == IF Wants(arrived[n]) THEN (v.h.returnTransCnt + 1) % COUNT_MAX
                                         ELSE v.h.returnTransCnt
             c == HandOver(v.h, link, is, cnt)
  <2>1. SUFFICES ASSUME ~v.sent
                 PROVE  /\ t \in P
                        /\ v.h.state[link] = "ACTIVE" /\ Fits(v, link) => w \in P
    BY <1>3 DEF Try
  <2>2. v \in GoodWith(ans) /\ v.h.downBuffers # <<>> /\ Dependencies(v) = {}
    BY <1>3, <2>1
  <2>3. link \in Link /\ is \in Link \cup {-1}
    <3>1. v.h.inServiceLink \in Link \cup {-1}
      BY <1>1, <2>2
    <3>2. (v.h.inServiceLink + 1) % NUM_LINKS \in Link
      <4>1. v.h.inServiceLink + 1 \in Int
        BY <3>1, Sizes
      <4> QED BY <4>1, Sizes, ModStep
    <3>3. LeastLoaded(v, standby) \in Link
      BY <1>1, <2>2, LeastIsLink
    <3> QED BY <3>1, <3>2, <3>3 DEF FindAvailableLink
  <2> HIDE DEF link
  <2>6. t = [v EXCEPT !.h.inServiceLink = is]
    <3>1. v = [v EXCEPT !.h.inServiceLink = v.h.inServiceLink]
      BY <1>1, <2>2 DEF Running, Controllers
    <3> QED BY <3>1 DEF Served
  <2> HIDE DEF t, is
  <2>4. t \in P
    <3>1. t = [v EXCEPT !.h.bufPopDelay = v.h.bufPopDelay, !.h.sleepLink = v.h.sleepLink,
                        !.h.inServiceLink = is]
      BY <1>1, <2>2, <2>6 DEF Running, Controllers
    <3>2. t \in GoodWith(ans)
      BY <1>1, <2>2, <2>3, <3>1, SettingsKeep
    <3>3. t.h.downBuffers = v.h.downBuffers /\ t.h.Buffers = v.h.Buffers
      BY <1>1, <2>2, <2>6 DEF Running, Controllers
    <3> HIDE DEF t
    <3> QED BY <2>2, <3>2, <3>3 DEF Dependencies
  <2>5. ASSUME v.h.state[link] = "ACTIVE", Fits(v, link) PROVE w \in P
    <3>1. cnt \in 0 .. COUNT_MAX - 1
      <4>1. v.h.returnTransCnt + 1 \in Int
        BY <1>1, <2>2
      <4> QED BY <1>1, <2>2, <4>1, Sizes, ModStep
    <3>2. [h |-> c, due |-> v.due, uncounted |-> v.uncounted, sent |-> TRUE] \in GoodWith(ans)
      BY <1>1, <2>2, <2>3, <2>5, <3>1, HandOverKeeps
    <3>3. w = [h |-> c, due |-> v.due, uncounted |-> v.uncounted, sent |-> TRUE]
      <4> HIDE DEF n
      <4> DEFINE old == HandOver(v.h, link, is, v.h.returnTransCnt)
      <4>1. Send(t, link) = [v EXCEPT !.h = old]
        <5>1. /\ t.h = [v.h EXCEPT !.inServiceLink = is]
              /\ t.h.downBuffers = v.h.downBuffers
          BY <1>1, <2>2, <2>6 DEF Running, Controllers
        <5>2. t = [v EXCEPT !.h = t.h]
          BY <1>1, <2>2, <2>6, <5>1 DEF Running
        <5> HIDE DEF t
        <5>3. [t.h EXCEPT !.Buffers[link] = Append(@, n), !.downBuffers = Tail(@)] = old
          <6>1. [[v.h EXCEPT !.inServiceLink = is] EXCEPT !.Buffers[link] = Append(@, n),
                                                            !.downBuffers = Tail(@)] = old
            BY <1>1, <2>2 DEF HandOver, Controllers, n
          <6> QED BY <5>1, <6>1
        <5> HIDE DEF old
        <5>4. Send(t, link) = [t EXCEPT !.h = old]
          BY <5>1, <5>3 DEF Send, n
        <5> QED BY <1>1, <2>2, <5>2, <5>4 DEF Running
      <4>2. [old EXCEPT !.returnTransCnt = cnt] = c /\ old.returnTransCnt = v.h.returnTransCnt
        BY <1>1, <2>2 DEF HandOver, Controllers
      <4> HIDE DEF old, t, c
      <4>3. Count(Send(t, link), n) = [v EXCEPT !.h = c]
        <5>1. CASE Wants(arrived[n])
          <6>1. Count(Send(t, link), n) = [v EXCEPT !.h = [old EXCEPT !.returnTransCnt = cnt]]
            BY <1>1, <2>2, <4>1, <4>2, <5>1 DEF Count, Running
          <6> QED BY <4>2, <6>1
        <5>2. CASE ~Wants(arrived[n])
          <6>1. c = old
            BY <5>2 DEF c, old
          <6> QED BY <4>1, <5>2, <6>1 DEF Count
        <5> QED BY <5>1, <5>2
      <4>4. w = [[v EXCEPT !.h = c] EXCEPT !.sent = TRUE]
        BY <4>3
      <4> HIDE DEF w
      <4> QED BY <1>1, <2>2, <4>4 DEF Running
    <3> HIDE DEF c, w
    <3> QED BY <3>2, <3>3
  <2> QED BY <2>4, <2>5
<1>4. ASSUME u.h.downBuffers # <<>>, Dependencies(u) = {}
      PROVE  Repeat(LAMBDA v, i : Try(v, standby), u, NUM_LINKS) \in GoodWith(ans)
  <2>1. u \in P
    BY <1>4
  <2> HIDE DEF P
  <2>2. TryLoop!After(standby, u, NUM_LINKS) \in P
    BY <1>3, <2>1, Sizes, TryLoop!LoopKeeps
  <2>3. TryLoop!After(standby, u, NUM_LINKS) \in GoodWith(ans)
    BY <2>2 DEF P
  <2> QED BY <2>3 DEF TryLoop!After, TryLoop!Repeat, Repeat
<1> QED BY <1>2, <1>4 DEF Downstream

\* One transaction more is answered, that wants an answer and had none, or none is.
AnswersOne(old, new) ==
  \/ new = old
  \/ \E n \in DOMAIN arrived : /\ Wants(arrived[n]) /\ n \notin ToSet(old)
                               /\ new = Append(old, n)

\* Answering the first response keeps the invariant, and answers one transaction
\* that waited for it, or none (HMCController.cpp:197-226).
LEMMA UpstreamKeeps ==
  ASSUME Around, NEW ans, NEW u \in GoodWith(ans)
  PROVE  \E new : Upstream(u) \in GoodWith(new) /\ AnswersOne(ans, new)
<1>1. CASE u.h.upBuffers = <<>>
  BY <1>1 DEF Upstream, AnswersOne
<1>2. CASE u.h.upBuffers # <<>>
  <2> DEFINE n == Head(u.h.upBuffers)
             c == u.h
             d == [c EXCEPT !.returnTransCnt = (@ - 1) % COUNT_MAX,
                            !.answered = Append(@, n), !.upBuffers = Tail(@)]
             w == [u EXCEPT !.h = d]
             unc == u.uncounted
  <2>1. /\ u \in Running /\ WithinLimits(c) /\ Together(c.Buffers) /\ OnePlace(c, memory, unc)
        /\ AwakeFor(c.Buffers, c.state) /\ LastGoesDown(c.state) /\ c.answered = ans
        /\ c.returnTransCnt = Drift(c, memory, unc) % COUNT_MAX
    BY DEF GoodWith, Good, GoodWhen
  <2>2. /\ c \in Controllers
        /\ c.upBuffers \in Seq(DOMAIN arrived) /\ c.answered \in Seq(DOMAIN arrived)
        /\ c.returnTransCnt \in Int
    BY <2>1 DEF Running, Controllers
  <2>3. /\ n \in DOMAIN arrived /\ n # 0 /\ Tail(c.upBuffers) \in Seq(DOMAIN arrived)
        /\ ToSet(c.upBuffers) = ToSet(Tail(c.upBuffers)) \cup {n}
        /\ IsInjective(Tail(c.upBuffers)) /\ n \notin ToSet(Tail(c.upBuffers))
    BY <1>2, <2>1, <2>2, TailOnce, Numbers DEF OnePlace
  <2>4. Append(ans, n) \in Seq(DOMAIN arrived) /\ ToSet(Append(ans, n)) = ToSet(ans) \cup {n}
    BY <2>1, <2>2, <2>3, AppendOnce
  <2>5. /\ n \notin ToSet(ans) /\ n \notin memory /\ n \notin Held(c.Buffers)
        /\ n \notin ToSet(c.downBuffers) /\ Wants(arrived[n])
    BY <2>1, <2>3 DEF OnePlace
  <2>6. Upstream(u) = w
    BY <1>2, <2>1, <2>2 DEF Upstream, Running
  <2> HIDE DEF n
  <2>7. /\ d.downBuffers = c.downBuffers /\ d.Buffers = c.Buffers /\ d.state = c.state
        /\ d.upBuffers = Tail(c.upBuffers) /\ d.answered = Append(ans, n)
        /\ d.returnTransCnt = (c.returnTransCnt - 1) % COUNT_MAX
    BY <2>1, <2>2 DEF Controllers
  <2>8. (c.returnTransCnt - 1) % COUNT_MAX \in 0 .. COUNT_MAX - 1
    <3>1. c.returnTransCnt - 1 \in Int
      BY <2>2
    <3> QED BY <3>1, Sizes, ModStep
  <2>9. d \in Controllers
    <3> DEFINE cnt == (c.returnTransCnt - 1) % COUNT_MAX
               a == Append(ans, n)
               t == Tail(c.upBuffers)
    <3>1. d = [c EXCEPT !.returnTransCnt = cnt, !.answered = a, !.upBuffers = t]
      BY <2>1
    <3>2. cnt \in 0 .. COUNT_MAX - 1 /\ a \in Seq(DOMAIN arrived) /\ t \in Seq(DOMAIN arrived)
      BY <2>3, <2>4, <2>8
    <3> HIDE DEF cnt, a, t, d
    <3> QED BY <2>2, <3>1, <3>2 DEF Controllers
  <2> HIDE DEF d
  <2>10. w \in Running /\ w.h = d /\ w.uncounted = unc
    BY <2>1, <2>9 DEF Running
  <2>11. WithinLimits(d)
    <3>1. UpFlits(c.upBuffers) = UpFlits(d.upBuffers) + ResponseLNG(n)
      BY <1>2, <2>2, <2>7, UpFlitsLaws DEF n
    <3>2. UpFlits(c.upBuffers) \in Nat /\ UpFlits(d.upBuffers) \in Nat /\ ResponseLNG(n) \in Nat
      BY <2>2, <2>3, <2>7, UpFlitsLaws DEF ResponseLNG
    <3>3. UpFlits(d.upBuffers) <= MAX_LINK_BUF
      BY <2>1, <3>1, <3>2, HostConstants DEF WithinLimits
    <3> QED BY <2>1, <2>7, <3>3 DEF WithinLimits
  <2>12. OnePlace(d, memory, unc)
    BY <2>1, <2>3, <2>4, <2>5, <2>7 DEF OnePlace
  <2>13. d.returnTransCnt = Drift(d, memory, unc) % COUNT_MAX
    <3> DEFINE old == OutstandingOf(c, memory)
               new == OutstandingOf(d, memory)
               a == Cardinality(old \ unc)
               b == Cardinality(ToSet(ans) \cap unc)
    <3>1. new = old \ {n} /\ n \in old
      BY <2>3, <2>5, <2>7 DEF OutstandingOf
    <3>2. /\ IsFiniteSet(old \ unc) /\ a \in Nat
          /\ IsFiniteSet(ToSet(ans) \cap unc) /\ b \in Nat
      BY <2>1, FiniteParts
    <3>3. Drift(c, memory, unc) = a - b
      BY <2>1 DEF Drift
    <3>4. Drift(d, memory, unc) = Cardinality(new \ unc) - Cardinality((ToSet(ans) \cup {n}) \cap unc)
      BY <2>4, <2>7 DEF Drift
    <3>5. \A x, y \in Nat : x - y \in Int /\ x - (y + 1) = (x - y) - 1 /\ (x - 1) - y = (x - y) - 1
      OBVIOUS
    <3>6. CASE n \in unc
      <4>1. new \ unc = old \ unc /\ (ToSet(ans) \cup {n}) \cap unc = (ToSet(ans) \cap unc) \cup {n}
        BY <3>1, <3>6
      <4>2. Cardinality((ToSet(ans) \cap unc) \cup {n}) = b + 1
        BY <2>5, <3>2, FS_AddElement
      <4>3. Drift(d, memory, unc) = a - (b + 1)
        BY <3>4, <4>1, <4>2
      <4> HIDE DEF a, b
      <4> QED BY <2>1, <2>7, <3>2, <3>3, <3>5, <4>3, CountStep
    <3>7. CASE n \notin unc
      <4>1. new \ unc = (old \ unc) \ {n} /\ (ToSet(ans) \cup {n}) \cap unc = ToSet(ans) \cap unc
        BY <3>1, <3>7
      <4>2. Cardinality((old \ unc) \ {n}) = a - 1
        BY <3>1, <3>2, <3>7, FS_RemoveElement
      <4>3. Drift(d, memory, unc) = (a - 1) - b
        BY <3>4, <4>1, <4>2
      <4> HIDE DEF a, b
      <4> QED BY <2>1, <2>7, <3>2, <3>3, <3>5, <4>3, CountStep
    <3> QED BY <3>6, <3>7
  <2> HIDE DEF w
  <2>14. w \in GoodWith(Append(ans, n))
    BY <2>1, <2>7, <2>10, <2>11, <2>12, <2>13 DEF GoodWith, Good, GoodWhen
  <2>15. AnswersOne(ans, Append(ans, n))
    BY <2>3, <2>5 DEF AnswersOne
  <2> QED BY <2>6, <2>14, <2>15
<1> QED BY <1>1, <1>2
-----------------------------------------------------------------------------
(* The actions. *)

\* Without a new transaction, Good changes with memory alone.
LEMMA GoodFrame ==
  ASSUME arrived' = arrived
  PROVE  Good' = GoodWhen(memory')
<1>1. \A n : BlockOf(n)' = BlockOf(n) /\ RequestLNG(n)' = RequestLNG(n) /\ ResponseLNG(n)' = ResponseLNG(n)
  BY DEF BlockOf, RequestLNG, ResponseLNG
<1>2. \A buf : Flits(buf)' = Flits(buf) /\ UpFlits(buf)' = UpFlits(buf)
  BY <1>1 DEF Flits, UpFlits
<1>3. Running' = Running
  BY DEF Running, Controllers
<1>4. ASSUME NEW c, NEW m, NEW unc
      PROVE  /\ WithinLimits(c)' <=> WithinLimits(c)
             /\ Together(c.Buffers)' <=> Together(c.Buffers)
             /\ AwakeFor(c.Buffers, c.state)' <=> AwakeFor(c.Buffers, c.state)
             /\ OnePlace(c, m, unc)' <=> OnePlace(c, m, unc)
             /\ Drift(c, m, unc)' = Drift(c, m, unc)
  BY <1>1, <1>2 DEF WithinLimits, Together, AwakeFor, OnePlace, Drift, OutstandingOf
<1> QED BY <1>3, <1>4 DEF Good, GoodWhen

\* HMCController::update keeps the invariant.
LEMMA UpdateKeeps ==
  ASSUME IInv, Update
  PROVE  IInv' /\ AnswersOne(h.answered, h'.answered)
<1>1. Around /\ Now \in Good
  BY DEF IInv
<1>2. PICK due \in SUBSET Timers(h.state), sleepLink \in 0 .. NUM_LINKS - 1,
           standby \in [Link -> Standby] :
        LET start == [h |-> h, due |-> due, uncounted |-> uncounted, sent |-> FALSE]
            moved == Upstream(Downstream(LinkPowerExitManager(start), standby))
            end   == Step(LinkPowerEntryManager(LinkPowerStateManager(moved, sleepLink)))
        IN  /\ h' = end.h /\ uncounted' = end.uncounted
            /\ cycle' \in {cycle, 1 - cycle}
            /\ UNCHANGED <<policy, scheme, unsettled, memory, arrived>>
  BY DEF Update
<1> DEFINE start == [h |-> h, due |-> due, uncounted |-> uncounted, sent |-> FALSE]
           sent == Downstream(LinkPowerExitManager(start), standby)
           moved == Upstream(sent)
           told == LinkPowerStateManager(moved, sleepLink)
           slept == LinkPowerEntryManager(told)
           end == Step(slept)
<1>3. start \in GoodWith(h.answered)
  <2>1. /\ Now \in Running /\ h \in Controllers /\ uncounted \in SUBSET DOMAIN arrived
        /\ AwakeFor(h.Buffers, h.state) /\ LastGoesDown(h.state)
    BY <1>1 DEF Good, GoodWhen, Running, Now
  <2>2. due \in SUBSET Timer
    <3>1. 0 \in Link
      BY Sizes
    <3>2. ASSUME NEW t \in Timers(h.state) PROVE t \in Timer
      BY <3>1, <3>2 DEF Timers, Timer
    <3> QED BY <3>2
  <2>3. start \in Running
    BY <2>1, <2>2 DEF Running
  <2>4. Now \in GoodWith(h.answered) /\ Now.h = h /\ Now.uncounted = uncounted
    BY <1>1 DEF GoodWith, Now
  <2> QED BY <2>1, <2>3, <2>4, SameTraffic
<1>4. sent \in GoodWith(h.answered)
  <2>1. standby \in [Link -> Nat]
    <3>1. Standby \subseteq Nat
      BY HostConstants DEF Standby
    <3> QED BY <3>1
  <2> HIDE DEF start
  <2> QED BY <1>1, <1>3, <2>1, ExitKeeps, DownstreamKeeps
<1>5. PICK new : moved \in GoodWith(new) /\ AnswersOne(h.answered, new)
  <2> HIDE DEF sent
  <2> QED BY <1>1, <1>4, UpstreamKeeps
<1>6. ASSUME NEW u \in GoodWith(new)
      PROVE  /\ u \in Running /\ u.h \in Controllers /\ u.h.bufPopDelay \in {0, 1}
             /\ u.h.sleepLink \in Link /\ u.h.inServiceLink \in Link \cup {-1}
  <2>1. u \in Running /\ u.h \in Controllers
    BY <1>6 DEF GoodWith, Good, GoodWhen, Running
  <2> QED BY <2>1 DEF Controllers
<1> HIDE DEF moved
<1>7. told \in GoodWith(new)
  <2>1. [moved EXCEPT !.h.sleepLink = sleepLink] =
          [moved EXCEPT !.h.bufPopDelay = moved.h.bufPopDelay, !.h.sleepLink = sleepLink,
                        !.h.inServiceLink = moved.h.inServiceLink]
    BY <1>5, <1>6 DEF Running, Controllers
  <2>2. [moved EXCEPT !.h.sleepLink = sleepLink] \in GoodWith(new)
    BY <1>5, <1>6, <2>1, Sizes, SettingsKeep, Zenon
  <2> QED BY <1>5, <2>2 DEF LinkPowerStateManager
<1> HIDE DEF told
<1>8. slept \in GoodWith(new)
  BY <1>1, <1>7, EntryKeeps
<1> HIDE DEF slept
<1>9. end \in GoodWith(new)
  <2> DEFINE d == IF slept.h.bufPopDelay > 0 THEN slept.h.bufPopDelay - 1 ELSE 0
  <2>1. d \in {0, 1}
    BY <1>6, <1>8
  <2>2. Step(slept) = [slept EXCEPT !.h.bufPopDelay = d]
    BY DEF Step
  <2> HIDE DEF d
  <2>3. Step(slept) = [slept EXCEPT !.h.bufPopDelay = d, !.h.sleepLink = slept.h.sleepLink,
                                    !.h.inServiceLink = slept.h.inServiceLink]
    BY <1>6, <1>8, <2>2 DEF Running, Controllers
  <2> QED BY <1>6, <1>8, <2>1, <2>3, SettingsKeep
<1>10. /\ h' = end.h /\ uncounted' = end.uncounted /\ cycle' \in {cycle, 1 - cycle}
       /\ policy' = policy /\ scheme' = scheme /\ unsettled' = unsettled
       /\ memory' = memory /\ arrived' = arrived
  BY <1>2 DEF end, slept, told, moved
<1> HIDE DEF end
<1>11. [h |-> end.h, due |-> {}, uncounted |-> end.uncounted, sent |-> FALSE] \in GoodWith(new)
  <2> DEFINE w == [h |-> end.h, due |-> {}, uncounted |-> end.uncounted, sent |-> FALSE]
  <2>1. end \in Running /\ AwakeFor(end.h.Buffers, end.h.state) /\ LastGoesDown(end.h.state)
    BY <1>9 DEF GoodWith, Good, GoodWhen
  <2>2. w \in Running /\ w.h = end.h /\ w.uncounted = end.uncounted
    BY <2>1 DEF Running
  <2> HIDE DEF w
  <2>3. w \in GoodWith(new)
    BY <1>9, <2>1, <2>2, SameTraffic
  <2> QED BY <2>3 DEF w
<1>12. Now' = [h |-> end.h, due |-> {}, uncounted |-> end.uncounted, sent |-> FALSE]
  BY <1>10 DEF Now
<1>13. Now' \in Good /\ h'.answered = new
  BY <1>10, <1>11, <1>12 DEF GoodWith
<1>14. Around'
  BY <1>1, <1>10 DEF Around
<1>15. Good' = Good
  BY <1>10, GoodFrame DEF Good
<1> QED BY <1>5, <1>13, <1>14, <1>15 DEF IInv

\* The answers of the links keep the invariant.
LEMMA HandshakesKeep ==
  ASSUME IInv, NEW l \in Link, LinkSettles(l) \/ QuietAnswered(l) \/ NullArrives(l)
  PROVE  IInv' /\ h'.answered = h.answered
<1>1. /\ Around /\ Now \in GoodWith(h.answered) /\ h \in Controllers /\ Now.h = h
      /\ AwakeFor(h.Buffers, h.state) /\ LastGoesDown(h.state)
      /\ h.state \in [Link -> LinkState]
  BY DEF IInv, Now, GoodWith, Good, GoodWhen, Running, Controllers
<1>2. ASSUME NEW x \in LinkState, NEW s, s = [h.state EXCEPT ![l] = x],
             h' = [h EXCEPT !.state = s], uncounted' = uncounted,
             AwakeFor(h.Buffers, s), LastGoesDown(s)
      PROVE  Now' \in GoodWith(h.answered)
  <2>1. Now' = [h |-> [h EXCEPT !.state = s], due |-> {}, uncounted |-> uncounted, sent |-> FALSE]
    BY <1>2 DEF Now
  <2>2. ASSUME NEW d, NEW w, w = [Now EXCEPT !.h.state = s, !.due = d]
        PROVE  w = [h |-> [h EXCEPT !.state = s], due |-> d, uncounted |-> uncounted, sent |-> FALSE]
    <3>1. /\ Now \in Running /\ Now.h \in Controllers /\ Now.h = h
          /\ Now.uncounted = uncounted /\ Now.sent = FALSE
      BY <1>1 DEF GoodWith, Good, GoodWhen, Now
    <3>2. w = [h |-> [Now.h EXCEPT !.state = s], due |-> d, uncounted |-> Now.uncounted, sent |-> Now.sent]
      BY <2>2, <3>1 DEF Running
    <3> QED BY <3>1, <3>2
  <2>3. s \in [Link -> LinkState] /\ {} \in SUBSET Timer
    BY <1>1, <1>2
  <2>4. [Now EXCEPT !.h.state = s, !.due = {}] \in GoodWith(h.answered)
    BY <1>1, <1>2, <2>3, StateKeeps
  <2> QED BY <2>1, <2>2, <2>4
<1>3. Now' \in GoodWith(h.answered)
  <2>1. CASE LinkSettles(l)
    BY <1>1, <2>1 DEF LinkSettles, Now
  <2>2. CASE QuietAnswered(l)
    <3> DEFINE s == [h.state EXCEPT ![l] = "CONFIRM"]
    <3>1. /\ \A k \in Link : s[k] = IF k = l THEN "CONFIRM" ELSE h.state[k]
          /\ h.state[l] = "WAIT" /\ uncounted' = uncounted
      BY <1>1, <2>2 DEF QuietAnswered
    <3>2. h' = [h EXCEPT !.state = s]
      BY <1>1, <2>2 DEF QuietAnswered, Controllers
    <3> HIDE DEF s
    <3>3. AwakeFor(h.Buffers, s) /\ LastGoesDown(s)
      BY <1>1, <3>1 DEF AwakeFor, LastGoesDown
    <3> QED BY <1>2, <3>1, <3>2, <3>3 DEF s, LinkState
  <2>3. CASE NullArrives(l)
    <3> DEFINE x == IF h.state[l] = "RETRAIN1" THEN "RETRAIN2" ELSE "ACTIVE"
               s == [h.state EXCEPT ![l] = x]
    <3>1. /\ \A k \in Link : s[k] = IF k = l THEN x ELSE h.state[k]
          /\ h.state[l] \in {"RETRAIN1", "RETRAIN2"} /\ uncounted' = uncounted
          /\ \A k \in Link : h.state[k] # "TRANSITION_TO_DOWN"
      BY <1>1, <2>3 DEF NullArrives
    <3>2. h' = [h EXCEPT !.state = s]
      BY <1>1, <2>3 DEF NullArrives, Controllers
    <3>3. x \in LinkState /\ x # "TRANSITION_TO_DOWN"
      BY DEF LinkState, Waking
    <3> HIDE DEF x
    <3>4. AwakeFor(h.Buffers, s) /\ LastGoesDown(s)
      BY <1>1, <3>1, <3>3 DEF AwakeFor, LastGoesDown
    <3> QED BY <1>2, <3>1, <3>2, <3>3, <3>4
  <2> QED BY <2>1, <2>2, <2>3
<1>4. /\ arrived' = arrived /\ memory' = memory /\ policy' = policy /\ cycle' = cycle
      /\ unsettled' \subseteq unsettled
  BY DEF LinkSettles, QuietAnswered, NullArrives
<1>7. scheme' = scheme
  BY DEF LinkSettles, QuietAnswered, NullArrives
<1>5. Now' \in Good' /\ h'.answered = h.answered
  <2>1. Good' = Good
    BY <1>4, GoodFrame DEF Good
  <2> QED BY <1>3, <2>1 DEF GoodWith, Now
<1>6. Around'
  BY <1>1, <1>4, <1>7 DEF Around
<1> QED BY <1>5, <1>6 DEF IInv

\* What IInv says of h, and that it is all it has to say.
LEMMA AtRest ==
  /\ IInv => /\ Around /\ h \in Controllers /\ uncounted \in SUBSET DOMAIN arrived
             /\ WithinLimits(h) /\ Together(h.Buffers) /\ AwakeFor(h.Buffers, h.state)
             /\ LastGoesDown(h.state) /\ OnePlace(h, memory, uncounted)
             /\ h.returnTransCnt = Drift(h, memory, uncounted) % COUNT_MAX
  /\ \A d, unc, mem :
       /\ d \in Controllers /\ unc \in SUBSET DOMAIN arrived
       /\ WithinLimits(d) /\ Together(d.Buffers) /\ AwakeFor(d.Buffers, d.state)
       /\ LastGoesDown(d.state) /\ OnePlace(d, mem, unc)
       /\ d.returnTransCnt = Drift(d, mem, unc) % COUNT_MAX
       => [h |-> d, due |-> {}, uncounted |-> unc, sent |-> FALSE] \in GoodWhen(mem)
<1>1. ASSUME IInv
      PROVE  /\ Around /\ h \in Controllers /\ uncounted \in SUBSET DOMAIN arrived
             /\ WithinLimits(h) /\ Together(h.Buffers) /\ AwakeFor(h.Buffers, h.state)
             /\ LastGoesDown(h.state) /\ OnePlace(h, memory, uncounted)
             /\ h.returnTransCnt = Drift(h, memory, uncounted) % COUNT_MAX
  BY <1>1 DEF IInv, Now, Good, GoodWhen, Running
<1>2. ASSUME NEW d, NEW unc, NEW mem,
             d \in Controllers, unc \in SUBSET DOMAIN arrived,
             WithinLimits(d), Together(d.Buffers), AwakeFor(d.Buffers, d.state),
             LastGoesDown(d.state), OnePlace(d, mem, unc),
             d.returnTransCnt = Drift(d, mem, unc) % COUNT_MAX
      PROVE  [h |-> d, due |-> {}, uncounted |-> unc, sent |-> FALSE] \in GoodWhen(mem)
  <2> DEFINE w == [h |-> d, due |-> {}, uncounted |-> unc, sent |-> FALSE]
  <2>1. w \in Running /\ w.h = d /\ w.uncounted = unc
    BY <1>2 DEF Running
  <2> HIDE DEF w
  <2>2. w \in GoodWhen(mem)
    BY <1>2, <2>1 DEF GoodWhen
  <2> QED BY <2>2 DEF w
<1> QED BY <1>1, <1>2

\* A link that takes its first request keeps the invariant.
LEMMA LinkSendKeeps ==
  ASSUME IInv, NEW l \in Link, LinkSend(l)
  PROVE  IInv' /\ h'.answered = h.answered
<1> DEFINE n == Head(h.Buffers[l])
           mem == IF n # 0 /\ Wants(arrived[n]) THEN memory \cup {n} ELSE memory
           bufs == [h.Buffers EXCEPT ![l] = Tail(@)]
           d == [h EXCEPT !.Buffers = bufs]
<1>1. /\ Around /\ h \in Controllers /\ uncounted \in SUBSET DOMAIN arrived
      /\ WithinLimits(h) /\ Together(h.Buffers) /\ AwakeFor(h.Buffers, h.state)
      /\ LastGoesDown(h.state) /\ OnePlace(h, memory, uncounted)
      /\ h.returnTransCnt = Drift(h, memory, uncounted) % COUNT_MAX
  BY AtRest
<1>2. /\ h.Buffers[l] # <<>> /\ memory' = mem /\ h' = d /\ unsettled' = unsettled \cup {l}
      /\ policy' = policy /\ scheme' = scheme /\ arrived' = arrived /\ cycle' = cycle
      /\ uncounted' = uncounted
  BY <1>1 DEF LinkSend, Controllers
<1>3. h.Buffers \in [Link -> Seq({0} \cup DOMAIN arrived)] /\ memory \subseteq DOMAIN arrived
  BY <1>1 DEF Controllers, Around
<1>4. /\ n \in {0} \cup DOMAIN arrived /\ Tail(h.Buffers[l]) \in Seq({0} \cup DOMAIN arrived)
      /\ ToSet(h.Buffers[l]) = ToSet(Tail(h.Buffers[l])) \cup {n}
      /\ RequestsOnce(Tail(h.Buffers[l])) /\ (n # 0 => n \notin ToSet(Tail(h.Buffers[l])))
  <2>1. RequestsOnce(h.Buffers[l])
    BY <1>1 DEF OnePlace
  <2> QED BY <1>2, <1>3, <2>1, TailOnce, OnceLaws
<1>5. /\ bufs \in [Link -> Seq({0} \cup DOMAIN arrived)]
      /\ \A k \in Link \ {l} : bufs[k] = h.Buffers[k]
      /\ bufs[l] = Tail(h.Buffers[l])
  BY <1>3, <1>4
<1>6. \A k \in Link : ToSet(bufs[k]) \subseteq ToSet(h.Buffers[k])
  BY <1>4, <1>5
<1>7. Flits(bufs[l]) <= MAX_LINK_BUF + Trets(bufs[l])
  <2>1. Flits(h.Buffers[l]) = Flits(bufs[l]) + RequestLNG(n)
    BY <1>2, <1>3, <1>5, FlitsLaws
  <2>2. /\ Flits(h.Buffers[l]) \in Nat /\ Flits(bufs[l]) \in Nat /\ RequestLNG(n) \in Nat \ {0}
        /\ Trets(h.Buffers[l]) \in Nat /\ Trets(bufs[l]) \in Nat
    <3>1. h.Buffers[l] \in Seq({0} \cup DOMAIN arrived) /\ bufs[l] \in Seq({0} \cup DOMAIN arrived)
      BY <1>3, <1>5
    <3> HIDE DEF bufs, n
    <3>2. RequestLNG(n) \in Nat \ {0}
      BY DEF RequestLNG
    <3> QED BY <3>1, <3>2, FlitsLaws, TretsLaws
  <2>3. Flits(h.Buffers[l]) <= MAX_LINK_BUF + Trets(h.Buffers[l])
    BY <1>1 DEF WithinLimits
  <2>4. Trets(h.Buffers[l]) = Trets(bufs[l]) + (IF n = 0 THEN 1 ELSE 0)
    BY <1>2, <1>3, <1>5, TretsLaws
  <2> HIDE DEF n, bufs
  <2> QED BY <2>1, <2>2, <2>3, <2>4, HostConstants
<1>8. n # 0 => /\ n \in DOMAIN arrived /\ n \in Held(h.Buffers)
               /\ \A k \in Link : n \notin ToSet(bufs[k])
  <2>1. n \in Held(h.Buffers)
    BY <1>4 DEF Held
  <2>2. ASSUME n # 0, NEW k \in Link, n \in ToSet(bufs[k]) PROVE FALSE
    <3>1. n \in ToSet(h.Buffers[l]) /\ n \in ToSet(h.Buffers[k])
      BY <1>4, <1>6, <2>2
    <3>2. k = l
      BY <1>1, <2>2, <3>1 DEF OnePlace
    <3> QED BY <1>4, <1>5, <2>2, <3>2
  <2> QED BY <1>4, <2>1, <2>2
<1>9. Held(h.Buffers) = Held(bufs) \cup {n}
  BY <1>4, <1>5 DEF Held
<1> HIDE DEF n, bufs
<1>10. /\ d \in Controllers /\ d.Buffers = bufs /\ d.state = h.state
       /\ d.downBuffers = h.downBuffers /\ d.upBuffers = h.upBuffers
       /\ d.answered = h.answered /\ d.returnTransCnt = h.returnTransCnt
  BY <1>1, <1>5 DEF Controllers
<1> HIDE DEF d
<1>11. WithinLimits(d)
  BY <1>1, <1>5, <1>7, <1>10 DEF WithinLimits
<1>12. Together(bufs) /\ AwakeFor(bufs, h.state)
  BY <1>1, <1>6 DEF Together, AwakeFor
<1>13. mem \subseteq memory \cup {n} /\ memory \subseteq mem
       /\ (n # 0 /\ Wants(arrived[n]) <=> n \in mem)
  BY <1>1, <1>8, Numbers DEF OnePlace
<1>14. n # 0 => n \notin Held(bufs)
  BY <1>8 DEF Held
<1>15. OnePlace(d, mem, uncounted)
  <2>1. \A k \in Link : RequestsOnce(bufs[k])
    BY <1>1, <1>4, <1>5 DEF OnePlace
  <2>2. \A j, k \in Link : \A x \in ToSet(bufs[j]) \cap ToSet(bufs[k]) : x = 0 \/ j = k
    BY <1>1, <1>6 DEF OnePlace
  <2>3. /\ ToSet(h.downBuffers) \cap
             (Held(bufs) \cup mem \cup ToSet(h.upBuffers) \cup ToSet(h.answered) \cup uncounted) = {}
        /\ mem \cap (ToSet(h.upBuffers) \cup ToSet(h.answered)) = {}
    BY <1>1, <1>9, <1>13 DEF OnePlace
  <2>4. Held(bufs) \cap (mem \cup ToSet(h.upBuffers) \cup ToSet(h.answered)) = {}
    BY <1>1, <1>9, <1>13, <1>14 DEF OnePlace
  <2>5. \A x \in mem \cup ToSet(h.upBuffers) : Wants(arrived[x])
    BY <1>1, <1>13 DEF OnePlace
  <2> QED BY <1>1, <1>10, <2>1, <2>2, <2>3, <2>4, <2>5 DEF OnePlace
<1>16. Drift(d, mem, uncounted) = Drift(h, memory, uncounted)
  <2>1. OutstandingOf(d, mem) = OutstandingOf(h, memory)
    BY <1>9, <1>10, <1>13 DEF OutstandingOf
  <2> QED BY <1>10, <2>1 DEF Drift
<1> HIDE DEF mem
<1>17. [h |-> d, due |-> {}, uncounted |-> uncounted, sent |-> FALSE] \in GoodWhen(mem)
  BY <1>1, <1>10, <1>11, <1>12, <1>15, <1>16, AtRest
<1>18. Now' \in Good'
  BY <1>2, <1>17, GoodFrame DEF Now
<1>19. Around'
  BY <1>1, <1>2, <1>8, <1>13 DEF Around
<1> QED BY <1>2, <1>10, <1>18, <1>19 DEF IInv

\* A response that comes up a link keeps the invariant.
LEMMA RespondKeeps ==
  ASSUME IInv, NEW n \in Number, NEW l \in Link, Respond(n, l)
  PROVE  IInv' /\ h'.answered = h.answered
<1> DEFINE mem == memory \ {n}
           up == Append(h.upBuffers, n)
<1>1. /\ Around /\ h \in Controllers /\ uncounted \in SUBSET DOMAIN arrived
      /\ WithinLimits(h) /\ Together(h.Buffers) /\ AwakeFor(h.Buffers, h.state)
      /\ LastGoesDown(h.state) /\ OnePlace(h, memory, uncounted)
      /\ h.returnTransCnt = Drift(h, memory, uncounted) % COUNT_MAX
  BY AtRest
<1>2. PICK tret \in BOOLEAN :
        /\ n \in memory /\ UpFlits(h.upBuffers) + ResponseLNG(n) <= MAX_LINK_BUF
        /\ memory' = mem
        /\ h' = [h EXCEPT !.upBuffers = Append(@, n),
                          !.Buffers[l] = IF tret THEN <<0>> \o @ ELSE @]
        /\ policy' = policy /\ scheme' = scheme /\ unsettled' = unsettled
        /\ arrived' = arrived /\ cycle' = cycle /\ uncounted' = uncounted
  BY DEF Respond
<1> DEFINE bufs == [h.Buffers EXCEPT ![l] = IF tret THEN <<0>> \o @ ELSE @]
           d == [h EXCEPT !.upBuffers = up, !.Buffers = bufs]
<1>18. h' = d
  BY <1>1, <1>2 DEF Controllers
<1>3. /\ h.Buffers \in [Link -> Seq({0} \cup DOMAIN arrived)]
      /\ h.upBuffers \in Seq(DOMAIN arrived) /\ n \in DOMAIN arrived /\ n # 0
  BY <1>1, <1>2, Numbers DEF Controllers
<1>4. /\ n \notin Held(h.Buffers) /\ n \notin ToSet(h.upBuffers) /\ n \notin ToSet(h.answered)
      /\ n \notin ToSet(h.downBuffers) /\ Wants(arrived[n]) /\ 0 \notin memory
  BY <1>1, <1>2, Numbers DEF OnePlace
<1>5. up \in Seq(DOMAIN arrived) /\ ToSet(up) = ToSet(h.upBuffers) \cup {n} /\ IsInjective(up)
  BY <1>1, <1>3, <1>4, AppendOnce DEF OnePlace
<1>6. /\ <<0>> \o h.Buffers[l] \in Seq({0} \cup DOMAIN arrived)
      /\ ToSet(<<0>> \o h.Buffers[l]) = ToSet(h.Buffers[l]) \cup {0}
      /\ RequestsOnce(<<0>> \o h.Buffers[l])
      /\ Flits(<<0>> \o h.Buffers[l]) = Flits(h.Buffers[l]) + 1
      /\ Trets(<<0>> \o h.Buffers[l]) = Trets(h.Buffers[l]) + 1
  <2>1. RequestsOnce(h.Buffers[l])
    BY <1>1 DEF OnePlace
  <2> QED BY <1>3, <2>1, TretBefore
<1>7. /\ bufs \in [Link -> Seq({0} \cup DOMAIN arrived)]
      /\ \A k \in Link : \/ bufs[k] = h.Buffers[k]
                         \/ k = l /\ bufs[k] = <<0>> \o h.Buffers[l]
  BY <1>3, <1>6
<1> HIDE DEF bufs, up
<1>8. \A k \in Link : /\ RequestsOnce(bufs[k])
                      /\ ToSet(h.Buffers[k]) \subseteq ToSet(bufs[k])
                      /\ ToSet(bufs[k]) \subseteq ToSet(h.Buffers[k]) \cup {0}
  BY <1>1, <1>6, <1>7 DEF OnePlace
<1>9. Held(bufs) \ {0} = Held(h.Buffers) \ {0}
  BY <1>8 DEF Held
<1>10. /\ d \in Controllers /\ d.Buffers = bufs /\ d.state = h.state
       /\ d.downBuffers = h.downBuffers /\ d.upBuffers = up
       /\ d.answered = h.answered /\ d.returnTransCnt = h.returnTransCnt
  BY <1>1, <1>5, <1>7 DEF Controllers
<1> HIDE DEF d
<1>11. WithinLimits(d)
  <2>1. UpFlits(up) <= MAX_LINK_BUF
    <3>1. UpFlits(up) = UpFlits(h.upBuffers) + ResponseLNG(n)
      BY <1>3, UpFlitsLaws DEF up
    <3> QED BY <1>2, <3>1
  <2>2. ASSUME NEW k \in Link PROVE Flits(bufs[k]) <= MAX_LINK_BUF + Trets(bufs[k])
    <3>1. Flits(h.Buffers[k]) <= MAX_LINK_BUF + Trets(h.Buffers[k])
      BY <1>1 DEF WithinLimits
    <3>2. Flits(h.Buffers[k]) \in Nat /\ Trets(h.Buffers[k]) \in Nat
      BY <1>3, FlitsLaws, TretsLaws
    <3>3. CASE bufs[k] = h.Buffers[k]
      BY <3>1, <3>3
    <3>4. CASE k = l /\ bufs[k] = <<0>> \o h.Buffers[l]
      <4>1. /\ Flits(bufs[k]) = Flits(h.Buffers[k]) + 1
            /\ Trets(bufs[k]) = Trets(h.Buffers[k]) + 1
        BY <1>6, <3>4
      <4> QED BY <3>1, <3>2, <4>1, HostConstants
    <3> QED BY <1>7, <3>3, <3>4
  <2> QED BY <1>1, <1>10, <2>1, <2>2 DEF WithinLimits
<1>12. Together(bufs) /\ AwakeFor(bufs, h.state)
  <2>1. BlockOf(0) = 0
    BY DEF BlockOf
  <2>2. \A k \in Link : \A x \in ToSet(bufs[k]) : x \in ToSet(h.Buffers[k]) \/ BlockOf(x) = 0
    BY <1>8, <2>1
  <2> QED BY <1>1, <2>2 DEF Together, AwakeFor
<1>13. OnePlace(d, mem, uncounted)
  <2>1. 0 \notin ToSet(h.downBuffers) /\ 0 \notin ToSet(h.upBuffers) /\ 0 \notin ToSet(h.answered)
    BY <1>1, Numbers DEF Controllers, ToSet
  <2>2. Held(bufs) \subseteq Held(h.Buffers) \cup {0}
    BY <1>9
  <2>3. \A j, k \in Link : \A x \in ToSet(bufs[j]) \cap ToSet(bufs[k]) : x = 0 \/ j = k
    BY <1>1, <1>8 DEF OnePlace
  <2>4. ToSet(h.downBuffers) \cap
          (Held(bufs) \cup mem \cup ToSet(up) \cup ToSet(h.answered) \cup uncounted) = {}
    BY <1>1, <1>4, <1>5, <2>1, <2>2 DEF OnePlace
  <2>5. Held(bufs) \cap (mem \cup ToSet(up) \cup ToSet(h.answered)) = {}
    BY <1>1, <1>3, <1>4, <1>5, <2>1, <2>2 DEF OnePlace
  <2>6. mem \cap (ToSet(up) \cup ToSet(h.answered)) = {} /\ ToSet(up) \cap ToSet(h.answered) = {}
    BY <1>1, <1>4, <1>5 DEF OnePlace
  <2>7. \A x \in mem \cup ToSet(up) : Wants(arrived[x])
    BY <1>1, <1>4, <1>5 DEF OnePlace
  <2> QED BY <1>1, <1>5, <1>8, <1>10, <2>3, <2>4, <2>5, <2>6, <2>7 DEF OnePlace
<1>14. Drift(d, mem, uncounted) = Drift(h, memory, uncounted)
  <2>1. OutstandingOf(d, mem) = OutstandingOf(h, memory)
    BY <1>2, <1>5, <1>9, <1>10 DEF OutstandingOf
  <2> QED BY <1>10, <2>1 DEF Drift
<1> HIDE DEF mem
<1>15. [h |-> d, due |-> {}, uncounted |-> uncounted, sent |-> FALSE] \in GoodWhen(mem)
  BY <1>1, <1>10, <1>11, <1>12, <1>13, <1>14, AtRest
<1>16. Now' \in Good'
  BY <1>2, <1>15, <1>18, GoodFrame DEF Now
<1>17. Around'
  BY <1>1, <1>2 DEF Around, mem
<1> QED BY <1>2, <1>10, <1>16, <1>17, <1>18 DEF IInv

\* A new transaction keeps the invariant, whether it is taken or refused.
LEMMA ReceiveKeeps ==
  ASSUME IInv, ReceiveTran
  PROVE  IInv' /\ h'.answered = h.answered
<1> DEFINE new == Len(arrived) + 1
           down == Append(h.downBuffers, new)
           pop == IF h.downBuffers = <<>> /\ h.bufPopDelay = 0 THEN 1 ELSE h.bufPopDelay
           d == [h EXCEPT !.downBuffers = down, !.bufPopDelay = pop]
<1>1. /\ Around /\ h \in Controllers /\ uncounted \in SUBSET DOMAIN arrived
      /\ WithinLimits(h) /\ Together(h.Buffers) /\ AwakeFor(h.Buffers, h.state)
      /\ LastGoesDown(h.state) /\ OnePlace(h, memory, uncounted)
      /\ h.returnTransCnt = Drift(h, memory, uncounted) % COUNT_MAX
  BY AtRest
<1>2. PICK t \in Transactions : arrived' = Append(arrived, t)
  BY DEF ReceiveTran
<1>3. /\ arrived \in Seq(Transactions) /\ memory \subseteq DOMAIN arrived
      /\ DOMAIN arrived = 1 .. Len(arrived) /\ Len(arrived) \in Nat
  BY <1>1 DEF Around
<1>4. /\ arrived' \in Seq(Transactions) /\ Len(arrived') = new
      /\ DOMAIN arrived' = DOMAIN arrived \cup {new} /\ new \notin DOMAIN arrived
      /\ \A n \in DOMAIN arrived : arrived'[n] = arrived[n]
  BY <1>2, <1>3
<1>5. /\ Len(h.downBuffers) < MAX_REQ_BUF /\ h' = d /\ policy' = policy /\ scheme' = scheme
      /\ unsettled' = unsettled /\ memory' = memory /\ cycle' = cycle /\ uncounted' = uncounted
  BY <1>1, <1>4 DEF ReceiveTran, Controllers
<1>6. /\ h.downBuffers \in Seq(DOMAIN arrived) /\ h.upBuffers \in Seq(DOMAIN arrived)
      /\ h.answered \in Seq(DOMAIN arrived) /\ h.bufPopDelay \in {0, 1}
      /\ h.Buffers \in [Link -> Seq({0} \cup DOMAIN arrived)]
  BY <1>1 DEF Controllers
<1>7. /\ ToSet(h.downBuffers) \subseteq DOMAIN arrived /\ ToSet(h.upBuffers) \subseteq DOMAIN arrived
      /\ ToSet(h.answered) \subseteq DOMAIN arrived
      /\ \A l \in Link : ToSet(h.Buffers[l]) \subseteq {0} \cup DOMAIN arrived
  BY <1>6 DEF ToSet
<1>8. /\ down \in Seq(DOMAIN arrived') /\ Len(down) = Len(h.downBuffers) + 1
      /\ ToSet(down) = ToSet(h.downBuffers) \cup {new} /\ IsInjective(down)
  <2>1. h.downBuffers \in Seq(DOMAIN arrived') /\ new \in DOMAIN arrived'
    BY <1>4, <1>6, SeqMonotonic
  <2>2. new \notin ToSet(h.downBuffers) /\ IsInjective(h.downBuffers)
    BY <1>1, <1>4, <1>7 DEF OnePlace
  <2> HIDE DEF new
  <2> QED BY <2>1, <2>2, AppendOnce
<1>9. new # 0
  BY <1>3
<1> HIDE DEF new, down
<1>10. d \in Controllers'
  <2>1. /\ h.upBuffers \in Seq(DOMAIN arrived') /\ h.answered \in Seq(DOMAIN arrived')
        /\ h.Buffers \in [Link -> Seq({0} \cup DOMAIN arrived')]
    <3>1. \A q \in Seq(DOMAIN arrived) : q \in Seq(DOMAIN arrived')
      BY <1>4, SeqMonotonic
    <3>2. \A q \in Seq({0} \cup DOMAIN arrived) : q \in Seq({0} \cup DOMAIN arrived')
      BY <1>4, SeqMonotonic
    <3> QED BY <1>6, <3>1, <3>2
  <2>2. pop \in {0, 1}
    BY <1>6
  <2> HIDE DEF pop
  <2> QED BY <1>1, <1>8, <2>1, <2>2 DEF Controllers
<1>11. /\ d.Buffers = h.Buffers /\ d.state = h.state /\ d.downBuffers = down
       /\ d.upBuffers = h.upBuffers /\ d.answered = h.answered
       /\ d.returnTransCnt = h.returnTransCnt
  BY <1>1 DEF Controllers
<1> HIDE DEF d
<1>12. /\ \A n \in {0} \cup DOMAIN arrived : BlockOf(n)' = BlockOf(n) /\ RequestLNG(n)' = RequestLNG(n)
       /\ \A n \in DOMAIN arrived : ResponseLNG(n)' = ResponseLNG(n)
  BY <1>4 DEF BlockOf, RequestLNG, ResponseLNG
<1>13. /\ h'.Buffers = h.Buffers /\ h'.state = h.state /\ h'.downBuffers = down
       /\ h'.upBuffers = h.upBuffers /\ h'.answered = h.answered
       /\ h'.returnTransCnt = h.returnTransCnt /\ h' \in Controllers'
  BY <1>5, <1>10, <1>11
<1>14. WithinLimits(h)'
  <2>1. ASSUME NEW buf \in Seq({0} \cup DOMAIN arrived) PROVE Flits(buf)' = Flits(buf)
    <3>0. \A i \in DOMAIN buf : buf[i] \in {0} \cup DOMAIN arrived
      OBVIOUS
    <3>1. \A i \in DOMAIN buf : RequestLNG(buf[i])' = RequestLNG(buf[i])
      BY <1>12, <3>0
    <3>2. [i \in DOMAIN buf |-> RequestLNG(buf[i])'] = [i \in DOMAIN buf |-> RequestLNG(buf[i])]
      BY <3>1
    <3>3. Flits(buf)' = Total([i \in DOMAIN buf |-> RequestLNG(buf[i])'])
      BY DEF Flits
    <3> QED BY <3>2, <3>3 DEF Flits
  <2>2. ASSUME NEW buf \in Seq(DOMAIN arrived) PROVE UpFlits(buf)' = UpFlits(buf)
    <3>1. \A i \in DOMAIN buf : ResponseLNG(buf[i])' = ResponseLNG(buf[i])
      BY <1>12
    <3>2. [i \in DOMAIN buf |-> ResponseLNG(buf[i])'] = [i \in DOMAIN buf |-> ResponseLNG(buf[i])]
      BY <3>1
    <3>3. UpFlits(buf)' = Total([i \in DOMAIN buf |-> ResponseLNG(buf[i])'])
      BY DEF UpFlits
    <3> QED BY <3>2, <3>3 DEF UpFlits
  <2>3. Len(down) <= MAX_REQ_BUF
    BY <1>5, <1>6, <1>8, HostConstants
  <2>4. \A l \in Link : h.Buffers[l] \in Seq({0} \cup DOMAIN arrived)
    BY <1>6
  <2>5. ASSUME NEW l \in Link PROVE Flits(h.Buffers[l])' = Flits(h.Buffers[l])
    BY <1>13, <2>1, <2>4
  <2>6. UpFlits(h.upBuffers)' = UpFlits(h.upBuffers)
    BY <1>6, <1>13, <2>2
  <2>7. WithinLimits(h)
    BY <1>1
  <2>11. \A l \in Link : Trets(h.Buffers[l])' = Trets(h.Buffers[l])
    BY <1>13 DEF Trets
  <2>8. (\A l \in Link : Flits(h.Buffers[l]) <= MAX_LINK_BUF + Trets(h.Buffers[l]))'
    BY <2>5, <2>7, <2>11 DEF WithinLimits
  <2>9. (UpFlits(h.upBuffers) <= MAX_LINK_BUF)'
    BY <2>6, <2>7 DEF WithinLimits
  <2>10. (Len(h.downBuffers) <= MAX_REQ_BUF)'
    BY <1>13, <2>3
  <2> QED BY <2>8, <2>9, <2>10 DEF WithinLimits
<1>15. Together(h.Buffers)' /\ AwakeFor(h.Buffers, h.state)' /\ LastGoesDown(h.state)'
  <2>1. \A l \in Link : \A n \in ToSet(h.Buffers[l]) : BlockOf(n)' = BlockOf(n)
    BY <1>7, <1>12
  <2>2. Together(h.Buffers)'
    <3> SUFFICES ASSUME NEW l \in Link, NEW k \in Link, NEW n \in ToSet(h.Buffers[l]),
                        NEW m \in ToSet(h.Buffers[k]), BlockOf(n)' = BlockOf(m)', BlockOf(n)' # 0
                 PROVE  l = k
      BY <1>13 DEF Together
    <3>1. BlockOf(n) = BlockOf(m) /\ BlockOf(n) # 0
      BY <2>1
    <3> QED BY <1>1, <3>1 DEF Together
  <2>3. AwakeFor(h.Buffers, h.state)'
    <3> SUFFICES ASSUME NEW l \in Link, NEW n \in ToSet(h.Buffers[l])
                 PROVE  h.state[l] = "ACTIVE" \/ BlockOf(n)' = 0
      BY <1>13 DEF AwakeFor
    <3> QED BY <1>1, <2>1 DEF AwakeFor
  <2> QED BY <1>1, <1>13, <2>2, <2>3 DEF LastGoesDown
<1>16. Held(h.Buffers)' = Held(h.Buffers) /\ Held(h.Buffers) \subseteq {0} \cup DOMAIN arrived
  BY <1>7, <1>13 DEF Held
<1>17. OnePlace(h, memory, uncounted)'
  <2>1. /\ IsInjective(h'.upBuffers) /\ \A l \in Link : RequestsOnce(h'.Buffers[l])
        /\ \A l, k \in Link : \A n \in ToSet(h'.Buffers[l]) \cap ToSet(h'.Buffers[k]) : n = 0 \/ l = k
    BY <1>1, <1>13 DEF OnePlace
  <2>2. ToSet(h'.downBuffers) \cap (Held(h.Buffers)' \cup memory' \cup ToSet(h'.upBuffers)
          \cup ToSet(h'.answered) \cup uncounted') = {}
    <3>1. ToSet(h.downBuffers) \cap (Held(h.Buffers) \cup memory \cup ToSet(h.upBuffers)
            \cup ToSet(h.answered) \cup uncounted) = {}
      BY <1>1 DEF OnePlace
    <3>2. new \notin Held(h.Buffers) \cup memory \cup ToSet(h.upBuffers)
            \cup ToSet(h.answered) \cup uncounted
      BY <1>1, <1>3, <1>4, <1>7, <1>9, <1>16
    <3> QED BY <1>5, <1>8, <1>13, <1>16, <3>1, <3>2
  <2>3. /\ Held(h.Buffers)' \cap (memory' \cup ToSet(h'.upBuffers) \cup ToSet(h'.answered)) = {}
        /\ memory' \cap (ToSet(h'.upBuffers) \cup ToSet(h'.answered)) = {}
        /\ ToSet(h'.upBuffers) \cap ToSet(h'.answered) = {}
    BY <1>1, <1>5, <1>13, <1>16 DEF OnePlace
  <2>4. \A n \in memory' \cup ToSet(h'.upBuffers) : Wants(arrived'[n])
    BY <1>1, <1>3, <1>4, <1>5, <1>7, <1>13 DEF OnePlace
  <2>5. IsInjective(h'.downBuffers)
    BY <1>8, <1>13
  <2> QED BY <2>1, <2>2, <2>3, <2>4, <2>5 DEF OnePlace
<1>18. Drift(h, memory, uncounted)' = Drift(h, memory, uncounted)
  <2>1. OutstandingOf(h, memory)' = OutstandingOf(h, memory)
    BY <1>3, <1>4, <1>5, <1>7, <1>13, <1>16 DEF OutstandingOf
  <2> QED BY <1>5, <1>13, <2>1 DEF Drift
<1>19. Now' \in Good'
  <2>1. Now' = [h |-> h', due |-> {}, uncounted |-> uncounted', sent |-> FALSE]
    BY DEF Now
  <2>2. uncounted' \in SUBSET DOMAIN arrived'
    BY <1>1, <1>4, <1>5
  <2>3. Now' \in Running' /\ Now'.h = h' /\ Now'.uncounted = uncounted'
    BY <1>13, <2>1, <2>2 DEF Running, Timer
  <2>4. h'.returnTransCnt = Drift(h, memory, uncounted)' % COUNT_MAX
    BY <1>1, <1>13, <1>18
  <2> QED BY <1>14, <1>15, <1>17, <2>3, <2>4 DEF Good, GoodWhen
<1>20. Around'
  BY <1>1, <1>3, <1>4, <1>5 DEF Around
<1> QED BY <1>13, <1>19, <1>20 DEF IInv
-----------------------------------------------------------------------------
\* IInv holds at first.
LEMMA InitGood == Init => IInv
<1> SUFFICES ASSUME Init PROVE IInv
  OBVIOUS
<1> DEFINE none == [l \in Link |-> <<>>]
<1>1. /\ policy \in LINK_POWER /\ scheme \in LINK_PRIORITY /\ unsettled = {} /\ memory = {}
      /\ arrived = <<>> /\ cycle = 0 /\ uncounted = {}
  BY DEF Init
<1>2. /\ h.downBuffers = <<>> /\ h.upBuffers = <<>> /\ h.answered = <<>> /\ h.returnTransCnt = 0
      /\ h.Buffers = none /\ h.state = [l \in Link |-> "ACTIVE"]
  BY DEF Init
<1>3. /\ {<<>>} \subseteq Seq(DOMAIN arrived) \cap Seq({0} \cup DOMAIN arrived)
      /\ 0 \in Link /\ 0 \in 0 .. COUNT_MAX - 1
  BY HostConstants DEF Link
<1>4. h \in Controllers
  <2>1. none \in [Link -> Seq({0} \cup DOMAIN arrived)] /\ [l \in Link |-> "ACTIVE"] \in [Link -> LinkState]
    BY DEF LinkState
  <2>2. -1 \in Link \cup {-1} /\ 0 \in {0, 1} /\ <<>> \in Seq(DOMAIN arrived)
    OBVIOUS
  <2> HIDE DEF none
  <2> QED BY <1>3, <2>1, <2>2 DEF Init, Controllers, none
<1>5. ToSet(<<>>) = {} /\ IsInjective(<<>>) /\ RequestsOnce(<<>>)
  BY DEF ToSet, IsInjective, RequestsOnce
<1>6. \A l \in Link : none[l] = <<>>
  OBVIOUS
<1>7. Held(none) = {}
  BY <1>5, <1>6 DEF Held
<1> HIDE DEF none
<1>8. WithinLimits(h)
  <2>1. <<>> \in Seq({0}) /\ Len(<<>>) = 0
    OBVIOUS
  <2>2. Flits(<<>>) = 0 /\ UpFlits(<<>>) = 0 /\ Trets(<<>>) = 0
    BY <1>3, <2>1, FlitsLaws, UpFlitsLaws, TretsLaws
  <2> QED BY <1>2, <1>6, <2>1, <2>2, HostConstants DEF WithinLimits
<1>9. Together(h.Buffers) /\ AwakeFor(h.Buffers, h.state) /\ LastGoesDown(h.state)
  BY <1>2, <1>5, <1>6 DEF Together, AwakeFor, LastGoesDown
<1>10. OnePlace(h, memory, uncounted)
  BY <1>1, <1>2, <1>5, <1>6, <1>7 DEF OnePlace
<1>11. h.returnTransCnt = Drift(h, memory, uncounted) % COUNT_MAX
  <2>1. OutstandingOf(h, memory) = {}
    BY <1>1, <1>2, <1>5, <1>7 DEF OutstandingOf
  <2>2. OutstandingOf(h, memory) \ uncounted = {} /\ ToSet(h.answered) \cap uncounted = {}
    BY <1>1, <2>1
  <2>3. Drift(h, memory, uncounted) = 0
    <3>1. Cardinality({}) = 0
      BY FS_EmptySet
    <3>2. Drift(h, memory, uncounted) = Cardinality({}) - Cardinality({})
      BY <2>2, Zenon DEF Drift
    <3> QED BY <3>1, <3>2
  <2>4. 0 % COUNT_MAX = 0
    BY HostConstants
  <2> QED BY <1>2, <2>3, <2>4
<1>12. Around
  BY <1>1 DEF Around
<1>13. uncounted \in SUBSET DOMAIN arrived
  BY <1>1
<1> QED BY <1>4, <1>8, <1>9, <1>10, <1>11, <1>12, <1>13, AtRest DEF IInv, Now, Good

\* Every step keeps IInv, and answers at most one transaction.
LEMMA StepKeeps ==
  ASSUME IInv, [Next]_vars
  PROVE  IInv' /\ (h'.answered = h.answered \/ Update)
<1>1. CASE ReceiveTran
  BY <1>1, ReceiveKeeps
<1>2. CASE Update
  BY <1>2, UpdateKeeps
<1>3. CASE \E l \in Link : LinkSend(l) \/ LinkSettles(l) \/ QuietAnswered(l) \/ NullArrives(l)
  BY <1>3, LinkSendKeeps, HandshakesKeep
<1>4. CASE \E n \in Number, l \in Link : Respond(n, l)
  BY <1>4, RespondKeeps
<1>5. CASE UNCHANGED vars
  <2>1. Now' = Now /\ arrived' = arrived /\ memory' = memory
    BY <1>5 DEF vars, Now
  <2>2. Good' = GoodWhen(memory)
    BY <2>1, GoodFrame
  <2> QED BY <1>5, <2>1, <2>2 DEF vars, IInv, Around, Good
<1> QED BY <1>1, <1>2, <1>3, <1>4, <1>5 DEF Next

\* The invariant holds in every behaviour of the controller.
THEOREM HostInvariant == Spec => []IInv
<1>1. IInv /\ [Next]_vars => IInv'
  BY StepKeeps
<1> QED BY InitGood, <1>1, PTL DEF Spec

\* The state has its type: downBuffers and upBuffers keep their limits, and the
\* requests in a link master keep theirs.  (FLITs that TRETs add, which the code
\* inserts without a look at the limit, are the only ones above it.)
THEOREM HostTypes == Spec => []TypeOK
<1>1. ASSUME IInv PROVE TypeOK
  <2>1. /\ Around /\ h \in Controllers /\ uncounted \in SUBSET DOMAIN arrived /\ WithinLimits(h)
    BY <1>1, AtRest
  <2> QED BY <2>1, HostConstants DEF TypeOK, Controllers, Around, WithinLimits, Link
<1> QED BY <1>1, HostInvariant, PTL

\* Waiting packets of one block are in one link master, however the round robin
\* of SelectDownstream goes and whichever links fall asleep in between.
THEOREM HostBlocks == Spec => []BlockOnOneLink
<1>1. IInv => BlockOnOneLink
  BY AtRest DEF Together, BlockOnOneLink
<1> QED BY <1>1, HostInvariant, PTL

\* No request waits in a link master that is asleep or on its way there.
THEOREM HostRequests == Spec => []NoRequestAsleep
<1>1. IInv => NoRequestAsleep
  BY AtRest DEF AwakeFor, NoRequestAsleep
<1> QED BY <1>1, HostInvariant, PTL

\* returnTransCnt is, modulo its width, the number of outstanding requests less
\* the error that the dependent requests make.
THEOREM HostCount == Spec => []CountDrift
<1>1. ASSUME IInv PROVE CountDrift
  <2>1. h.returnTransCnt = Drift(h, memory, uncounted) % COUNT_MAX
    BY <1>1, AtRest
  <2>2. OutstandingOf(h, memory) = Outstanding
    BY DEF OutstandingOf, Outstanding, Held
  <2> QED BY <2>1, <2>2 DEF Drift, CountDrift
<1> QED BY <1>1, HostInvariant, PTL

\* Whatever the power managers do, the controller keeps what a memory promises:
\* every transaction is answered at most once, and only if it wants an answer.
THEOREM HostService == Spec => ServiceKept
<1>1. Init => Service!Init
  BY DEF Init, Service!Init
<1>2. IInv /\ [Next]_vars => [Service!Next]_(Service!vars)
  <2> SUFFICES ASSUME IInv, [Next]_vars PROVE [Service!Next]_(Service!vars)
    OBVIOUS
  <2>1. CASE Update
    <3>1. AnswersOne(h.answered, h'.answered) /\ arrived' = arrived
      BY <2>1, UpdateKeeps DEF Update
    <3>2. CASE h'.answered = h.answered
      BY <3>1, <3>2 DEF Service!vars
    <3>3. ASSUME NEW n \in DOMAIN arrived, Wants(arrived[n]), n \notin ToSet(h.answered),
                 h'.answered = Append(h.answered, n)
          PROVE  Service!Answer
      <4>1. n \in Service!Open
        BY <3>3 DEF Service!Open, ToSet, Service!Range
      <4> QED BY <3>1, <3>3, <4>1 DEF Service!Answer
    <3> QED BY <3>1, <3>2, <3>3 DEF AnswersOne, Service!Next
  <2>2. CASE ReceiveTran
    <3>1. h'.answered = h.answered
      BY <2>2, ReceiveKeeps
    <3> QED BY <2>2, <3>1 DEF ReceiveTran, Service!Next, Service!Ask
  <2>3. CASE ~Update /\ ~ReceiveTran
    <3>1. h'.answered = h.answered
      BY <2>3, StepKeeps
    <3>2. arrived' = arrived
      <4>1. \A l \in Link : LinkSend(l) \/ LinkSettles(l) \/ QuietAnswered(l) \/ NullArrives(l)
                              => arrived' = arrived
        BY DEF LinkSend, LinkSettles, QuietAnswered, NullArrives
      <4>2. \A n \in Number, l \in Link : Respond(n, l) => arrived' = arrived
        BY DEF Respond
      <4>3. UNCHANGED vars => arrived' = arrived
        BY DEF vars
      <4> QED BY <2>3, <4>1, <4>2, <4>3 DEF Next
    <3> QED BY <3>1, <3>2 DEF Service!vars
  <2> QED BY <2>1, <2>2, <2>3
<1> QED BY <1>1, <1>2, HostInvariant, PTL DEF Spec, ServiceKept, Service!Spec
=============================================================================
