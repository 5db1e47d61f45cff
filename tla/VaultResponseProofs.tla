------------------------- MODULE VaultResponseProofs -------------------------
(***************************************************************************)
(* The room that the vault keeps for its responses.                        *)
(*                                                                         *)
(* pendingDataSize is added to when the last command of a request leaves   *)
(* the queue and subtracted from when its response is made, objects and    *)
(* cycles later.  That the two agree takes more than to know where a       *)
(* request is (VaultProofs): the DRAM has one place for the data it is     *)
(* returning and the atomic unit one for a command, and whatever would be  *)
(* put there too early would be forgotten together with its reservation.   *)
(* Paced says that nothing comes too early, in terms of the time left.     *)
(***************************************************************************)
EXTENDS VaultProofs

\* Two reads are at least this far apart, for the burst and the atomic unit.
Apart == Later(2, BL)

\* Request n, whose last command was popped, waits for the data it reads, or to write,
ReadOwed(v, n) ==
  \/ v.cmdBus.type \in Reads /\ v.cmdBus.last /\ v.cmdBus.tag = n
  \/ \E i \in DOMAIN v.readReturn : v.readReturn[i][1].last /\ v.readReturn[i][1].tag = n
  \/ v.readData.last /\ v.readData.tag = n
WriteOwed(v, n) ==
  \/ \E i \in DOMAIN v.writeData :
       LET c == v.writeData[i][1] IN c.last /\ ~Atomic(c) /\ c.tag = n
  \/ v.dataBus.last /\ ~Atomic(v.dataBus) /\ v.dataBus.tag = n

\* or is in the atomic unit: its response is not made.  The flits of such responses
\* are reserved.
Owed(v) ==
  {n \in 1 .. Len(arrived) :
     \/ ReadOwed(v, n) \/ WriteOwed(v, n)
     \/ v.atomicCMD # NoCommand /\ v.atomicCMD.tag = n}

Fits(v) ==
  /\ v.pendingDataSize = Debt(Owed(v))
  /\ Len(v.upBuffers) + v.pendingDataSize <= MAX_VLT_BUF

\* Data that come back in t cycles are Apart from all that come back before.  (lead
\* is 0 in the middle of DRAMUpdate, when readCyclesLeft is a cycle ahead, else 1.)
Behind(v, lead, t) ==
  /\ \A i \in DOMAIN v.readReturn : t >= v.readReturn[i][2] + Apart
  /\ v.readData # NoCommand => t + lead + BL >= v.readCyclesLeft + Apart

\* So are the reads in the DRAM,
Returned(v, lead) ==
  /\ \A i \in DOMAIN v.readReturn : v.readReturn[i][2] \in 0 .. RL
  /\ \A i, j \in DOMAIN v.readReturn :
       i < j => v.readReturn[j][2] >= v.readReturn[i][2] + Apart
  /\ v.readData # NoCommand =>
       /\ v.readCyclesLeft \in 1 .. BL
       /\ \A i \in DOMAIN v.readReturn :
            v.readReturn[i][2] + lead + BL >= v.readCyclesLeft + Apart

\* the atomic unit is free again before the next data arrive (late is 1 when it had
\* its cycle already and the DRAM had not),
UnitFree(v, late, lead) ==
  v.atomicCMD # NoCommand =>
    /\ v.atomicOperLeft + late <= 1
    /\ v.readData # NoCommand => v.readCyclesLeft > v.atomicOperLeft + late
    /\ \A i \in DOMAIN v.readReturn :
         v.readReturn[i][2] + lead + BL > v.atomicOperLeft + late

\* and the reads to come, on the bus or for a bank that must wait, are Apart, too.
Paced(v, late, lead) ==
  /\ Returned(v, lead) /\ UnitFree(v, late, lead)
  /\ v.cmdBus.type \in Reads => Behind(v, lead, RL)
  /\ \A b \in Banks : Behind(v, lead, RL + v.bank[b].nextRead)

Books(v, late, lead) ==
  /\ v.fault # "upBufferFull"
  /\ v.fault = "none" => Fits(v) /\ Paced(v, late, lead)

\* The data of reads never overtake each other: a burst, or two cycles for the
\* atomic unit, pass between two reads of any banks, and a bank that precharges
\* by itself does not take another read any sooner.
ReadsApart ==
  /\ T.tCCD >= 2 \/ BL >= 2
  /\ READ_AUTOPRE_DELAY >= Apart /\ WRITE_AUTOPRE_DELAY >= Apart

BooksInv == Books(s, IF turn = "dram" THEN 1 ELSE 0, 1)
-----------------------------------------------------------------------------
(* What is owed *)

\* What the bounds are.
LEMMA ApartSizes ==
  /\ Apart \in Nat /\ Apart >= 2 /\ Apart >= BL /\ BL \in Nat \ {0} /\ RL \in Nat
  /\ ReadsApart => Later(T.tCCD, BL) >= Apart
  BY VaultSizes, Times DEF Apart, Later, ReadsApart

\* The flits of a set of responses grow and shrink with the set.
LEMMA DebtLaws ==
  ASSUME Known, NEW S, NEW n \in 1 .. Len(arrived)
  PROVE  /\ Debt(S) \in Nat
         /\ n \notin S => Debt(S \cup {n}) = Debt(S) + Resp(n)
         /\ n \in S => Debt(S \ {n}) + Resp(n) = Debt(S)
<1> DEFINE Q(X) == [i \in 1 .. Len(arrived) |-> IF i \in X THEN Resp(i) ELSE 0]
<1>1. \A i \in 1 .. Len(arrived) : Resp(i) \in Nat
  BY RespNat
<1>2. \A X : /\ Q(X) \in Seq(Nat) /\ Len(Q(X)) = Len(arrived)
             /\ \A i \in 1 .. Len(arrived) : Q(X)[i] = IF i \in X THEN Resp(i) ELSE 0
  <2>1. Len(arrived) \in Nat
    BY DEF Known
  <2> QED BY <1>1, <2>1
<1>3. \A X : Debt(X) = Total(Q(X))
  BY DEF Debt
<1> HIDE DEF Q
<1>4. \A X : Debt(X) \in Nat
  BY <1>2, <1>3, TotalType
<1>5. ASSUME NEW X, NEW Y, \A i \in 1 .. Len(arrived) : i # n => (i \in X <=> i \in Y),
             n \notin X, n \in Y
      PROVE  Debt(Y) = Debt(X) + Resp(n)
  <2>1. /\ Q(X) \in Seq(Nat) /\ Q(Y) \in Seq(Nat) /\ Len(Q(Y)) = Len(Q(X))
        /\ n \in 1 .. Len(Q(X)) /\ Q(X)[n] = 0 /\ Q(Y)[n] = Resp(n)
        /\ \A i \in 1 .. Len(Q(X)) : i # n => Q(Y)[i] = Q(X)[i]
    BY <1>2, <1>5
  <2>2. Total(Q(Y)) + Q(X)[n] = Total(Q(X)) + Q(Y)[n]
    BY <2>1, TotalChange
  <2>3. Debt(X) \in Nat /\ Debt(Y) \in Nat /\ Debt(Y) + 0 = Debt(X) + Resp(n)
    BY <1>3, <1>4, <2>1, <2>2
  <2> QED BY <2>3
<1>6. n \notin S => Debt(S \cup {n}) = Debt(S) + Resp(n)
  BY <1>5
<1>7. n \in S => Debt(S) = Debt(S \ {n}) + Resp(n)
  BY <1>5
<1> QED BY <1>4, <1>6, <1>7

\* The responses that are owed depend on these fields only,
Owing(v, w) ==
  /\ w.cmdBus = v.cmdBus /\ w.readReturn = v.readReturn /\ w.readData = v.readData
  /\ w.atomicCMD = v.atomicCMD /\ w.writeData = v.writeData /\ w.dataBus = v.dataBus
LEMMA OwedFields ==
  ASSUME NEW v, NEW w, Owing(v, w)
  PROVE  Owed(w) = Owed(v)
  BY DEF Owed, ReadOwed, WriteOwed, Owing

\* and whether the reads are apart on these.
Reading(v, w) ==
  /\ w.cmdBus = v.cmdBus /\ w.readReturn = v.readReturn /\ w.readData = v.readData
  /\ w.readCyclesLeft = v.readCyclesLeft /\ w.atomicCMD = v.atomicCMD
  /\ w.atomicOperLeft = v.atomicOperLeft
  /\ \A b \in Banks : w.bank[b].nextRead = v.bank[b].nextRead
LEMMA PacedFields ==
  ASSUME NEW v, NEW w, NEW late, NEW lead, Paced(v, late, lead), Reading(v, w)
  PROVE  Paced(w, late, lead)
<1>1. Returned(w, lead) /\ UnitFree(w, late, lead)
  BY DEF Paced, Reading, Returned, UnitFree
<1>2. \A t : Behind(v, lead, t) => Behind(w, lead, t)
  BY DEF Behind, Reading
<1> QED BY <1>1, <1>2 DEF Paced, Reading

\* A step that moves no read and makes no response, at most sends one,
Quiet(v, w) ==
  /\ Owing(v, w) /\ Reading(v, w)
  /\ w.pendingDataSize = v.pendingDataSize /\ w.fault = v.fault
  /\ Len(w.upBuffers) \in Nat /\ Len(w.upBuffers) <= Len(v.upBuffers)

\* leaves the books in order.
LEMMA QuietBooks ==
  ASSUME NEW v \in VaultShape, NEW w, NEW late, NEW lead, Books(v, late, lead), Quiet(v, w)
  PROVE  Books(w, late, lead)
<1>1. w.fault = v.fault
  BY DEF Quiet
<1>2. SUFFICES ASSUME v.fault = "none" PROVE Fits(w) /\ Paced(w, late, lead)
  BY <1>1 DEF Books
<1>3. Fits(v) /\ Paced(v, late, lead)
  BY <1>2 DEF Books
<1>4. Owed(w) = Owed(v)
  BY OwedFields DEF Quiet
<1>5. Paced(w, late, lead)
  BY <1>3, PacedFields DEF Quiet
<1>6. w.pendingDataSize = Debt(Owed(w))
  BY <1>3, <1>4 DEF Fits, Quiet
<1>7. Len(w.upBuffers) + w.pendingDataSize <= MAX_VLT_BUF
  <2>1. /\ v.upBuffers \in Seq(Nat) /\ v.pendingDataSize \in Int
    BY DEF VaultShape, Responses
  <2>2. Len(v.upBuffers) \in Nat /\ Len(w.upBuffers) \in Nat /\ MAX_VLT_BUF \in Nat
    BY <2>1, VaultSizes DEF Quiet
  <2>3. /\ w.pendingDataSize = v.pendingDataSize /\ Len(w.upBuffers) <= Len(v.upBuffers)
        /\ Len(v.upBuffers) + v.pendingDataSize <= MAX_VLT_BUF
    BY <1>3 DEF Fits, Quiet
  <2> QED BY <2>1, <2>2, <2>3
<1> QED BY <1>5, <1>6, <1>7 DEF Fits

\* Such are the steps that touch none of these fields.
LEMMA SameQuiet ==
  ASSUME NEW v \in VaultShape, NEW w, Untouched(v, w), Owing(v, w)
  PROVE  Quiet(v, w)
<1>1. v.upBuffers \in Seq(Nat)
  BY DEF VaultShape, Responses
<1>2. Len(v.upBuffers) \in Nat
  BY <1>1
<1> QED BY <1>2 DEF Quiet, Reading, Untouched, Owing

\* Two of them are one.
LEMMA QuietTwice ==
  ASSUME NEW u, NEW v \in VaultShape, NEW w, Len(u.upBuffers) \in Nat, Quiet(u, v), Quiet(v, w)
  PROVE  Quiet(u, w)
<1>1. Len(u.upBuffers) \in Nat /\ Len(v.upBuffers) \in Nat /\ Len(w.upBuffers) \in Nat
      /\ Len(v.upBuffers) <= Len(u.upBuffers) /\ Len(w.upBuffers) <= Len(v.upBuffers)
  BY DEF Quiet
<1>2. Len(w.upBuffers) <= Len(u.upBuffers)
  BY <1>1
<1> QED BY <1>1, <1>2 DEF Quiet, Owing, Reading

\* An ERROR branch other than that of a full buffer ends the simulation.
LEMMA FailBooks ==
  ASSUME NEW v \in VaultShape, NEW late, NEW lead, Books(v, late, lead),
         NEW e \in {"dataBusCollision", "noMatch", "cmdBusCollision"}, NEW w,
         w.fault = Fail(v, e).fault
  PROVE  Books(w, 0, 0) /\ Books(w, 0, 1) /\ Books(w, 1, 1) /\ w.fault # "none"
<1>1. Fail(v, e).fault = IF v.fault = "none" THEN e ELSE v.fault
  BY DEF Fail, VaultShape
<1> QED BY <1>1 DEF Books

\* Where the last accesses are that owe a response.
LEMMA OwedAt ==
  ASSUME NEW v, NEW D, NEW at, Good(arrived, v, D, at)
  PROVE  /\ v.cmdBus.type \in Reads /\ v.cmdBus.last => at[v.cmdBus.tag] = "bus"
         /\ \A i \in DOMAIN v.readReturn :
              v.readReturn[i][1].last => at[v.readReturn[i][1].tag] = "return"
         /\ v.readData.last => at[v.readData.tag] = "data"
         /\ v.atomicCMD # NoCommand => at[v.atomicCMD.tag] = "atomic"
         /\ \A i \in DOMAIN v.writeData :
              v.writeData[i][1].last => at[v.writeData[i][1].tag] = "write"
         /\ v.dataBus.last => at[v.dataBus.tag] = "write"
  BY DEF Good, Labelled, Place

\* None of them is a command that is not there.
LEMMA NullOwesNothing ==
  ~NoCommand.last /\ NoCommand.type \notin Reads /\ NoCommand.type \notin Writes
  BY DEF NoCommand, NewCommand, Reads, Writes

\* What MakeRespondPacket leaves alone.
LEMMA RespondFields ==
  ASSUME NEW v \in VaultShape, NEW c
  PROVE  LET w == MakeRespondPacket(v, c)
         IN  /\ Owing(v, w) /\ Reading(v, w) /\ w.bank = v.bank
             /\ v.fault # "none" => w.fault = v.fault
<1> DEFINE n == [v EXCEPT !.pendingDataSize = @ - Resp(c.tag)]
<1>1. Owing(v, n) /\ Reading(v, n) /\ n.bank = v.bank /\ n.fault = v.fault
  BY DEF VaultShape, Owing, Reading
<1>2. LET w == [n EXCEPT !.upBuffers = @ \o Flits(c.tag)]
      IN  Owing(v, w) /\ Reading(v, w) /\ w.bank = v.bank /\ w.fault = v.fault
  BY DEF VaultShape, Owing, Reading
<1>3. LET w == [n EXCEPT !.fault = "upBufferFull"]
      IN  Owing(v, w) /\ Reading(v, w) /\ w.bank = v.bank
  BY DEF VaultShape, Owing, Reading
<1> HIDE DEF n
<1> QED BY <1>1, <1>2, <1>3 DEF MakeRespondPacket, Fail, n

\* A response that is owed finds its place, and is owed no longer.
LEMMA RespondBooks ==
  ASSUME Known, NEW v \in VaultShape, v.fault = "none", Fits(v), NEW c, c.tag \in Owed(v),
         Resp(c.tag) # 0
  PROVE  LET w == MakeRespondPacket(v, c)
         IN  /\ w.fault = "none" /\ w.pendingDataSize = Debt(Owed(v) \ {c.tag})
             /\ Len(w.upBuffers) + w.pendingDataSize <= MAX_VLT_BUF
<1> DEFINE k == Resp(c.tag)
           p == v.pendingDataSize
           u == v.upBuffers
           n == [v EXCEPT !.pendingDataSize = p - k]
           w == [n EXCEPT !.upBuffers = u \o Flits(c.tag)]
<1>1. c.tag \in 1 .. Len(arrived)
  BY DEF Owed
<1>2. k \in Nat \ {0}
  BY <1>1, RespNat
<1>3. p = Debt(Owed(v)) /\ Debt(Owed(v) \ {c.tag}) + k = p /\ Debt(Owed(v) \ {c.tag}) \in Nat
      /\ p \in Int
  <2>1. p = Debt(Owed(v))
    BY DEF Fits
  <2>2. Debt(Owed(v) \ {c.tag}) + k = Debt(Owed(v))
    BY <1>1, DebtLaws
  <2>3. Debt(Owed(v) \ {c.tag}) \in Nat
    BY <1>1, DebtLaws
  <2>4. p \in Int
    BY DEF VaultShape
  <2> QED BY <2>1, <2>2, <2>3, <2>4
<1>4. u \in Seq(Nat) /\ Len(u) \in Nat
  <2>1. u \in Seq(Nat)
    BY DEF VaultShape, Responses
  <2> QED BY <2>1
<1>5. u \o Flits(c.tag) \in Seq(Nat) /\ Len(u \o Flits(c.tag)) = Len(u) + k
  <2> DEFINE z == [i \in 1 .. k - 1 |-> 0]
  <2>1. z \in Seq(Nat) /\ Len(z) = k - 1
    BY <1>2
  <2>2. <<c.tag>> \in Seq(Nat) /\ Len(<<c.tag>>) = 1
    BY <1>1
  <2>3. Flits(c.tag) = <<c.tag>> \o z
    BY DEF Flits
  <2> HIDE DEF z, k
  <2>4. <<c.tag>> \o z \in Seq(Nat) /\ Len(<<c.tag>> \o z) = 1 + (k - 1)
    BY <2>1, <2>2
  <2> HIDE DEF u
  <2>5. Flits(c.tag) \in Seq(Nat) /\ Len(Flits(c.tag)) = k
    BY <1>2, <2>3, <2>4
  <2>6. \A f \in Seq(Nat) : u \o f \in Seq(Nat) /\ Len(u \o f) = Len(u) + Len(f)
    BY <1>4
  <2> HIDE DEF Flits
  <2> QED BY <2>5, <2>6
<1>6. Len(u) + p <= MAX_VLT_BUF /\ MAX_VLT_BUF \in Nat
  BY VaultSizes DEF Fits
<1>7. Len(u) + k <= MAX_VLT_BUF
  <2> DEFINE e == Debt(Owed(v) \ {c.tag})
  <2>1. e \in Nat /\ e + k = p
    BY <1>3
  <2> HIDE DEF e, k, p, u
  <2> QED BY <1>2, <1>3, <1>4, <1>6, <2>1
<1>8. MakeRespondPacket(v, c) = w
  <2>1. n.upBuffers = u
    BY DEF VaultShape
  <2> QED BY <1>7, <2>1 DEF MakeRespondPacket
<1>9. w.fault = v.fault /\ w.pendingDataSize = p - k /\ w.upBuffers = u \o Flits(c.tag)
  <2> HIDE DEF p, k, u
  <2> QED BY DEF VaultShape
<1>10. p - k = Debt(Owed(v) \ {c.tag})
  <2> DEFINE e == Debt(Owed(v) \ {c.tag})
  <2>1. e \in Nat /\ e + k = p
    BY <1>3
  <2> HIDE DEF e, k, p
  <2>2. p - k = e
    BY <1>2, <1>3, <2>1
  <2> QED BY <2>2 DEF e
<1>11. Len(w.upBuffers) + w.pendingDataSize <= MAX_VLT_BUF
  <2>1. Len(w.upBuffers) = Len(u) + k
    BY <1>5, <1>9
  <2>2. w.pendingDataSize = p - k
    BY <1>9
  <2> HIDE DEF w, u, k, p
  <2> QED BY <1>2, <1>3, <1>4, <1>6, <2>1, <2>2
<1> QED BY <1>8, <1>9, <1>10, <1>11
-----------------------------------------------------------------------------
(* The command bus *)

\* After a read no bank takes another one too soon, and nothing else makes it sooner.
LEMMA CommandedNext ==
  ASSUME ReadsApart, NEW c \in DRAMCommand, c.type # "READ_DATA", NEW b \in Banks,
         NEW k \in BankState
  PROVE  LET n == Commanded(c, b, k)
         IN  /\ n.nextRead \in Nat
             /\ n.nextRead >= k.nextRead \/ n.nextRead >= Apart
             /\ c.type \in Reads => n.nextRead >= Apart
<1> DEFINE next == Commanded(c, b, k).nextRead
<1>1. k.nextRead \in Nat /\ c.type \in CommandType /\ k.nextActivate \in Nat /\ Apart \in Nat
  BY ApartSizes DEF BankState, DRAMCommand
<1>2. CASE c.type = "ACTIVATE"
  <2>1. T.tRCD - T.AL \in Int
    BY Times
  <2>2. Commanded(c, b, k) = Activated(c, b, k)
    BY <1>2 DEF Commanded, IsAccess, Reads, Writes
  <2>3. \/ Activated(c, b, k).nextRead = Later(T.tRCD - T.AL, k.nextRead)
        \/ Activated(c, b, k).nextRead = k.nextRead
    BY DEF Activated, BankState
  <2>4. c.type \notin Reads
    BY <1>2 DEF Reads
  <2>5. /\ Later(T.tRCD - T.AL, k.nextRead) \in Nat
        /\ Later(T.tRCD - T.AL, k.nextRead) >= k.nextRead /\ k.nextRead >= k.nextRead
    BY <1>1, <2>1 DEF Later
  <2> QED BY <1>1, <2>2, <2>3, <2>4, <2>5
<1>3. CASE IsAccess(c)
  <2> DEFINE all == IF c.type \in Reads THEN AfterRead(k) ELSE AfterWrite(k)
             d == IF c.type \in Reads THEN Later(T.tCCD, BL) ELSE WRITE_TO_READ_DELAY_B
  <2>1. Commanded(c, b, k) = Column(c, b, k)
    BY <1>3 DEF Commanded, IsAccess, Reads, Writes
  <2>2. all.nextRead = Later(d, k.nextRead) /\ all.nextActivate = k.nextActivate
        /\ all \in BankState
    <3>1. \A x, y \in Nat : [k EXCEPT !.nextRead = x, !.nextWrite = y] \in BankState
      BY DEF BankState
    <3>2. /\ Later(READ_TO_WRITE_DELAY, k.nextWrite) \in Nat
          /\ Later(Later(T.tCCD, BL), k.nextWrite) \in Nat
          /\ Later(Later(T.tCCD, BL), k.nextRead) \in Nat
          /\ Later(WRITE_TO_READ_DELAY_B, k.nextRead) \in Nat
      BY Times, VaultSizes DEF Later, BankState
    <3>3. AfterRead(k) \in BankState /\ AfterRead(k).nextRead = Later(Later(T.tCCD, BL), k.nextRead)
          /\ AfterRead(k).nextActivate = k.nextActivate
      BY <3>2 DEF AfterRead, BankState
    <3>4. AfterWrite(k) \in BankState /\ AfterWrite(k).nextRead = Later(WRITE_TO_READ_DELAY_B, k.nextRead)
          /\ AfterWrite(k).nextActivate = k.nextActivate
      BY <3>2 DEF AfterWrite, BankState
    <3> QED BY <3>3, <3>4
  <2>3. /\ d \in Nat /\ (c.type \in Reads => d >= Apart) /\ Apart \in Nat
        /\ Later(READ_AUTOPRE_DELAY, k.nextActivate) \in Nat
        /\ Later(WRITE_AUTOPRE_DELAY, k.nextActivate) \in Nat
        /\ Later(READ_AUTOPRE_DELAY, k.nextActivate) >= Apart
        /\ Later(WRITE_AUTOPRE_DELAY, k.nextActivate) >= Apart
    <3>1. /\ READ_AUTOPRE_DELAY \in Nat /\ WRITE_AUTOPRE_DELAY \in Nat
          /\ READ_AUTOPRE_DELAY >= Apart /\ WRITE_AUTOPRE_DELAY >= Apart
          /\ WRITE_TO_READ_DELAY_B \in Nat /\ Apart \in Nat
      BY Times, ApartSizes DEF ReadsApart
    <3>2. Later(T.tCCD, BL) \in Nat /\ Later(T.tCCD, BL) >= Apart
      BY Times, VaultSizes, ApartSizes DEF Later
    <3>3. d \in Nat /\ (c.type \in Reads => d >= Apart)
      BY <3>1, <3>2
    <3> QED BY <1>1, <3>1, <3>3 DEF Later
  <2> HIDE DEF d, all
  <2>4. \/ Column(c, b, k).nextRead = Later(d, k.nextRead)
        \/ Column(c, b, k).nextRead = Later(READ_AUTOPRE_DELAY, k.nextActivate)
        \/ Column(c, b, k).nextRead = Later(WRITE_AUTOPRE_DELAY, k.nextActivate)
    <3>1. Column(c, b, k) \in {all, Accessed(all, "READ", READ_TO_PRE_DELAY),
                               Accessed(all, "WRITE", WRITE_TO_PRE_DELAY),
                               AutoPrecharged(all, "READ_P", READ_TO_PRE_DELAY, READ_AUTOPRE_DELAY),
                               AutoPrecharged(all, "WRITE_P", WRITE_TO_PRE_DELAY, WRITE_AUTOPRE_DELAY)}
      BY <1>3 DEF Column, all, IsAccess, Reads, Writes
    <3>2. \A x, y : Accessed(all, x, y).nextRead = all.nextRead
      BY <2>2 DEF Accessed, BankState
    <3>3. \A x, y, z : AutoPrecharged(all, x, y, z).nextRead = Later(z, all.nextActivate)
      BY <2>2 DEF AutoPrecharged, BankState
    <3> QED BY <2>2, <3>1, <3>2, <3>3
  <2>5. /\ Later(d, k.nextRead) \in Nat /\ Later(d, k.nextRead) >= k.nextRead
        /\ c.type \in Reads => Later(d, k.nextRead) >= Apart
    <3>1. d \in Nat /\ Apart \in Nat /\ (c.type \in Reads => d >= Apart)
      BY <2>3
    <3> QED BY <1>1, <3>1 DEF Later
  <2>6. CASE next = Later(d, k.nextRead)
    BY <2>5, <2>6
  <2>7. CASE \/ next = Later(READ_AUTOPRE_DELAY, k.nextActivate)
             \/ next = Later(WRITE_AUTOPRE_DELAY, k.nextActivate)
    BY <2>3, <2>7
  <2> QED BY <2>1, <2>4, <2>6, <2>7
<1>4. CASE c.type \in {"PRECHARGE", "REFRESH", "WRITE_DATA"}
  <2>1. /\ Precharged(k).nextRead = k.nextRead /\ Refreshed(k).nextRead = k.nextRead
    BY DEF Precharged, Refreshed, BankState
  <2>2. ~IsAccess(c) /\ c.type \notin Reads
    BY <1>4 DEF IsAccess, Reads, Writes
  <2>3. Commanded(c, b, k).nextRead = k.nextRead
    BY <1>4, <2>1, <2>2 DEF Commanded
  <2>4. k.nextRead >= k.nextRead
    BY <1>1
  <2> QED BY <1>1, <2>2, <2>3, <2>4
<1> QED BY <1>1, <1>2, <1>3, <1>4 DEF CommandType, IsAccess

\* The command bus: a read goes on to the DRAM, as the last one.
LEMMA CommandBusBooks ==
  ASSUME ReadsApart, NEW v, NEW D, NEW at, Good(arrived, v, D, at), Books(v, 0, 1)
  PROVE  Books(CommandBusCycle(v), 0, 1)
<1> DEFINE c == v.cmdBus
           d == [c EXCEPT !.type = "READ_DATA"]
           r == IF c.type \in Reads THEN Append(v.readReturn, <<d, RL>>) ELSE v.readReturn
           k == [b \in Banks |-> Commanded(c, b, v.bank[b])]
           w == [ReceiveCMD(v, c) EXCEPT !.cmdBus = NoCommand, !.cmdCyclesLeft = 0]
<1>0. v \in VaultShape
  BY DEF Good
<1>1. CASE c = NoCommand
  BY <1>1 DEF CommandBusCycle
<1>2. CASE c # NoCommand /\ v.cmdCyclesLeft > 1
  <2>1. \A x : LET u == [v EXCEPT !.cmdCyclesLeft = x] IN Untouched(v, u) /\ Owing(v, u)
    BY <1>0 DEF VaultShape, Untouched, Owing
  <2> QED BY <1>0, <1>2, <2>1, SameQuiet, QuietBooks DEF CommandBusCycle
<1>3. CASE c # NoCommand /\ ~(v.cmdCyclesLeft > 1)
  <2>1. /\ c \in DRAMCommand /\ c.type # "READ_DATA"
        /\ c.type \in Reads => c.tag \in 1 .. Len(arrived)
    BY <1>3, OnTheBus DEF Reads, Writes, ReadsFor, IsOf
  <2>2. d.tag = c.tag /\ d.last = c.last
    BY <2>1 DEF DRAMCommand
  <2>3. w = [v EXCEPT !.bank = k, !.readReturn = r, !.cmdBus = NoCommand, !.cmdCyclesLeft = 0]
    BY <1>0 DEF ReceiveCMD, VaultShape
  <2> HIDE DEF r, k, d, w
  <2>4. /\ w.bank = k /\ w.readReturn = r /\ w.cmdBus = NoCommand /\ w.fault = v.fault
        /\ w.readData = v.readData /\ w.readCyclesLeft = v.readCyclesLeft
        /\ w.atomicCMD = v.atomicCMD /\ w.atomicOperLeft = v.atomicOperLeft
        /\ w.writeData = v.writeData /\ w.dataBus = v.dataBus
        /\ w.upBuffers = v.upBuffers /\ w.pendingDataSize = v.pendingDataSize
    BY <1>0, <2>3 DEF VaultShape
  <2>5. SUFFICES ASSUME v.fault = "none" PROVE Fits(w) /\ Paced(w, 0, 1)
    BY <1>3, <2>4 DEF CommandBusCycle, w, Books
  <2>6. Fits(v) /\ Paced(v, 0, 1)
    BY <2>5 DEF Books
  <2> DEFINE n == Len(v.readReturn)
  <2>7. /\ n \in Nat /\ DOMAIN v.readReturn = 1 .. n
        /\ c.type \notin Reads => r = v.readReturn
        /\ c.type \in Reads =>
             /\ DOMAIN r = 1 .. n + 1 /\ r[n + 1] = <<d, RL>>
             /\ \A i \in 1 .. n : r[i] = v.readReturn[i]
    <3>1. v.readReturn \in Seq(DRAMCommand \X Int)
      BY <1>0 DEF VaultShape
    <3> QED BY <3>1 DEF r
  <2> HIDE DEF n
  <2>8. /\ n + 1 \in 1 .. n + 1 /\ \A i \in 1 .. n + 1 : i \in 1 .. n \/ i = n + 1
        /\ \A i \in 1 .. n : i \in 1 .. n + 1 /\ i < n + 1 /\ i \in Int
    BY <2>7
  <2>9. Owed(w) = Owed(v)
    <3>1. w.cmdBus.type \notin Reads
      BY <2>4, NullOwesNothing
    <3>2. ASSUME NEW m PROVE ReadOwed(w, m) <=> ReadOwed(v, m)
      <4>1. (\E i \in DOMAIN r : r[i][1].last /\ r[i][1].tag = m)
              <=> \/ \E i \in DOMAIN v.readReturn :
                       v.readReturn[i][1].last /\ v.readReturn[i][1].tag = m
                  \/ c.type \in Reads /\ c.last /\ c.tag = m
        BY <2>2, <2>7, <2>8
      <4> QED BY <2>4, <3>1, <4>1 DEF ReadOwed
    <3>3. \A m : WriteOwed(w, m) <=> WriteOwed(v, m)
      BY <2>4 DEF WriteOwed
    <3> QED BY <2>4, <3>2, <3>3 DEF Owed
  <2>10. Fits(w)
    BY <2>4, <2>6, <2>9 DEF Fits
  <2>11. /\ RL \in Nat /\ Apart \in Nat /\ BL \in Nat /\ BL >= 1 /\ Apart >= 2
    BY ApartSizes
  <2>12. /\ \A i \in 1 .. n : v.readReturn[i][2] \in 0 .. RL
         /\ \A i, j \in 1 .. n : i < j => v.readReturn[j][2] >= v.readReturn[i][2] + Apart
         /\ c.type \in Reads => \A i \in 1 .. n : RL >= v.readReturn[i][2] + Apart
         /\ v.readData # NoCommand =>
              /\ v.readCyclesLeft \in 1 .. BL
              /\ \A i \in 1 .. n : v.readReturn[i][2] + 1 + BL >= v.readCyclesLeft + Apart
              /\ c.type \in Reads => RL + 1 + BL >= v.readCyclesLeft + Apart
    BY <2>6, <2>7 DEF Paced, Returned, Behind
  <2>13. Returned(w, 1)
    <3>1. CASE c.type \notin Reads
      BY <2>4, <2>6, <2>7, <3>1 DEF Paced, Returned
    <3>2. CASE c.type \in Reads
      <4>1. r[n + 1][2] = RL /\ RL \in 0 .. RL
        BY <2>7, <2>11, <3>2
      <4>2. \A i \in DOMAIN r : r[i][2] \in 0 .. RL
        BY <2>7, <2>8, <2>12, <3>2, <4>1
      <4>3. \A i, j \in DOMAIN r : i < j => r[j][2] >= r[i][2] + Apart
        <5> SUFFICES ASSUME NEW i \in 1 .. n + 1, NEW j \in 1 .. n + 1, i < j
                     PROVE  r[j][2] >= r[i][2] + Apart
          BY <2>7, <3>2
        <5>1. i \in 1 .. n
          BY <2>7
        <5>2. j \in 1 .. n \/ j = n + 1
          BY <2>8
        <5> QED BY <2>7, <2>12, <3>2, <4>1, <5>1, <5>2
      <4>4. v.readData # NoCommand =>
              \A i \in DOMAIN r : r[i][2] + 1 + BL >= v.readCyclesLeft + Apart
        BY <2>7, <2>8, <2>12, <3>2, <4>1
      <4> QED BY <2>4, <2>12, <4>2, <4>3, <4>4 DEF Returned
    <3> QED BY <3>1, <3>2
  <2>14. UnitFree(w, 0, 1)
    <3>1. /\ v.atomicCMD # NoCommand =>
               /\ v.atomicOperLeft + 0 <= 1
               /\ v.readData # NoCommand => v.readCyclesLeft > v.atomicOperLeft + 0
               /\ \A i \in 1 .. n : v.readReturn[i][2] + 1 + BL > v.atomicOperLeft + 0
          /\ v.atomicOperLeft \in {0, 1}
      BY <1>0, <2>6, <2>7 DEF Paced, UnitFree, VaultShape
    <3>2. v.atomicCMD # NoCommand => \A i \in DOMAIN r : r[i][2] + 1 + BL > v.atomicOperLeft + 0
      <4>1. RL + 1 + BL > v.atomicOperLeft + 0
        BY <2>11, <3>1
      <4>2. c.type \in Reads => r[n + 1][2] = RL
        BY <2>7
      <4> QED BY <2>7, <2>8, <3>1, <4>1, <4>2
    <3> QED BY <2>4, <3>1, <3>2 DEF UnitFree
  <2>15. ASSUME NEW b \in Banks PROVE Behind(w, 1, RL + w.bank[b].nextRead)
    <3> DEFINE x == v.bank[b].nextRead
               y == w.bank[b].nextRead
    <3>1. x \in Nat /\ y \in Nat /\ (y >= x \/ y >= Apart) /\ (c.type \in Reads => y >= Apart)
      <4>1. v.bank[b] \in BankState /\ w.bank[b] = Commanded(c, b, v.bank[b])
        BY <1>0, <2>4 DEF VaultShape, k
      <4>2. x \in Nat
        BY <4>1 DEF BankState
      <4> QED BY <2>1, <4>1, <4>2, CommandedNext
    <3>2. /\ \A i \in 1 .. n : RL + x >= v.readReturn[i][2] + Apart
          /\ v.readData # NoCommand => RL + x + 1 + BL >= v.readCyclesLeft + Apart
      BY <2>6, <2>7 DEF Paced, Behind
    <3> HIDE DEF x, y
    <3>3. \A i \in 1 .. n : RL + y >= v.readReturn[i][2] + Apart
      <4> TAKE i \in 1 .. n
      <4>1. v.readReturn[i][2] \in Int /\ v.readReturn[i][2] <= RL
            /\ RL + x >= v.readReturn[i][2] + Apart
        BY <2>11, <2>12, <3>2
      <4> QED BY <2>11, <3>1, <4>1
    <3>4. \A i \in DOMAIN r : RL + y >= r[i][2] + Apart
      <4>1. c.type \in Reads => r[n + 1][2] = RL /\ RL + y >= RL + Apart
        BY <2>7, <2>11, <3>1
      <4> QED BY <2>7, <2>8, <3>3, <4>1
    <3>5. v.readData # NoCommand => RL + y + 1 + BL >= v.readCyclesLeft + Apart
      BY <2>11, <2>12, <3>1, <3>2
    <3> QED BY <2>4, <3>4, <3>5 DEF Behind, y
  <2>16. w.cmdBus.type \notin Reads
    BY <2>4, NullOwesNothing
  <2> QED BY <2>10, <2>13, <2>14, <2>15, <2>16 DEF Paced
<1> QED BY <1>1, <1>2, <1>3
-----------------------------------------------------------------------------
(* The data bus *)

\* The data of the last write are through: the response is made.
LEMMA DataBusBooks ==
  ASSUME Known, NEW v, NEW D, NEW at, Good(arrived, v, D, at), Books(v, 0, 1)
  PROVE  Books(DataBusCycle(v), 0, 1)
<1> DEFINE c == v.dataBus
           n == IF c.last /\ ~Atomic(c) THEN MakeRespondPacket(v, c) ELSE v
           w == [n EXCEPT !.dataBus = NoCommand, !.dataCyclesLeft = 0]
<1>0. v \in VaultShape
  BY DEF Good
<1>1. CASE c = NoCommand
  BY <1>1 DEF DataBusCycle
<1>2. CASE c # NoCommand /\ v.dataCyclesLeft > 1
  <2>1. \A x : LET u == [v EXCEPT !.dataCyclesLeft = x] IN Untouched(v, u) /\ Owing(v, u)
    BY <1>0 DEF VaultShape, Untouched, Owing
  <2> QED BY <1>0, <1>2, <2>1, SameQuiet, QuietBooks DEF DataBusCycle
<1>3. CASE c # NoCommand /\ ~(v.dataCyclesLeft > 1)
  <2>1. c.last => c.tag \in 1 .. Len(arrived)
    BY TagsOf
  <2>2. c.last /\ ~Atomic(c) => Resp(c.tag) \in Nat \ {0}
    BY <2>1, RespNat DEF Atomic, AtomicOp
  <2>3. n \in VaultShape
    BY <1>0, <2>1, <2>2, RespondSame DEF Same
  <2>4. /\ Owing(v, n) /\ Reading(v, n) /\ (v.fault # "none" => n.fault = v.fault)
    BY <1>0, RespondFields DEF Owing, Reading
  <2>5. DataBusCycle(v) = w
    BY <1>3 DEF DataBusCycle
  <2> HIDE DEF n
  <2>6. /\ Reading(n, w) /\ w.writeData = n.writeData /\ w.dataBus = NoCommand
        /\ w.fault = n.fault /\ w.upBuffers = n.upBuffers /\ w.pendingDataSize = n.pendingDataSize
    BY <2>3 DEF VaultShape, Reading
  <2> HIDE DEF w
  <2>7. SUFFICES ASSUME v.fault = "none"
                 PROVE  w.fault # "upBufferFull" /\ (w.fault = "none" => Fits(w) /\ Paced(w, 0, 1))
    BY <2>4, <2>5, <2>6 DEF Books
  <2>8. Fits(v) /\ Paced(v, 0, 1)
    BY <2>7 DEF Books
  <2>9. Paced(w, 0, 1)
    <3>1. Paced(n, 0, 1)
      BY <2>4, <2>8, PacedFields
    <3> QED BY <2>6, <3>1, PacedFields
  <2>10. /\ w.cmdBus = v.cmdBus /\ w.readReturn = v.readReturn /\ w.readData = v.readData
         /\ w.atomicCMD = v.atomicCMD /\ w.writeData = v.writeData /\ ~w.dataBus.last
    BY <2>4, <2>6, NullOwesNothing DEF Owing, Reading
  <2>11. CASE c.last /\ ~Atomic(c)
    <3>1. c.tag \in Owed(v)
      BY <2>1, <2>11 DEF Owed, WriteOwed
    <3>2. Owed(w) = Owed(v) \ {c.tag}
      <4>1. at[c.tag] = "write"
        BY <2>11, OwedAt
      <4>2. \A i \in DOMAIN v.writeData : v.writeData[i][1].last => v.writeData[i][1].tag # c.tag
        BY <2>11 DEF Good, Once
      <4>3. \A m \in Owed(v) : m # c.tag => m \in Owed(w)
        BY <2>10 DEF Owed, ReadOwed, WriteOwed
      <4>4. \A m \in Owed(w) : m \in Owed(v) /\ m # c.tag
        BY <2>10, <4>1, <4>2, OwedAt DEF Owed, ReadOwed, WriteOwed
      <4> QED BY <4>3, <4>4
    <3>3. n = MakeRespondPacket(v, c)
      BY <2>11 DEF n
    <3>4. /\ n.fault = "none" /\ n.pendingDataSize = Debt(Owed(v) \ {c.tag})
          /\ Len(n.upBuffers) + n.pendingDataSize <= MAX_VLT_BUF
      BY <1>0, <2>2, <2>7, <2>8, <2>11, <3>1, <3>3, RespondBooks
    <3>5. Fits(w)
      BY <2>6, <3>2, <3>4 DEF Fits
    <3> QED BY <2>6, <2>9, <3>4, <3>5
  <2>12. CASE ~(c.last /\ ~Atomic(c))
    <3>1. n = v
      BY <2>12 DEF n
    <3>2. Owed(w) = Owed(v)
      BY <2>10, <2>12 DEF Owed, ReadOwed, WriteOwed
    <3>3. Fits(w)
      BY <2>6, <2>8, <3>1, <3>2 DEF Fits
    <3> QED BY <2>6, <2>7, <2>9, <3>1, <3>3
  <2> QED BY <2>11, <2>12
<1> QED BY <1>1, <1>2, <1>3

\* The data of a write go on the bus.
LEMMA WriteDataBooks ==
  ASSUME NEW v, NEW D, NEW at, Good(arrived, v, D, at), Books(v, 0, 1)
  PROVE  Books(WriteDataCycle(v), 0, 1)
<1> DEFINE q == v.writeData
<1>0. v \in VaultShape /\ q \in Seq(DRAMCommand \X Int)
  BY DEF Good, VaultShape
<1>1. CASE q = <<>>
  BY <1>1 DEF WriteDataCycle
<1> DEFINE Other(w) == /\ Reading(v, w) /\ w.fault = v.fault
                       /\ w.upBuffers = v.upBuffers /\ w.pendingDataSize = v.pendingDataSize
<1>2. ASSUME NEW w, Other(w), \A m : WriteOwed(w, m) <=> WriteOwed(v, m)
      PROVE  Books(w, 0, 1)
  <2>1. Owed(w) = Owed(v)
    BY <1>2 DEF Owed, ReadOwed, Reading
  <2> QED BY <1>2, <2>1, PacedFields DEF Books, Fits
<1>3. CASE q # <<>> /\ q[1][2] > 0
  <2> DEFINE w == [v EXCEPT !.dataBus = v.dataBus, !.dataCyclesLeft = v.dataCyclesLeft,
                            !.writeData = Sooner(q)]
  <2>1. /\ WriteDataCycle(v) = w /\ w.writeData = Sooner(q) /\ w.dataBus = v.dataBus /\ Other(w)
    BY <1>0, <1>3 DEF WriteDataCycle, VaultShape, Reading
  <2>2. DOMAIN Sooner(q) = DOMAIN q /\ \A i \in DOMAIN q : Sooner(q)[i][1] = q[i][1]
    BY <1>0, SoonerLaws
  <2> HIDE DEF w
  <2>3. \A m : WriteOwed(w, m) <=> WriteOwed(v, m)
    BY <2>1, <2>2 DEF WriteOwed
  <2> QED BY <1>2, <2>1, <2>3
<1>4. CASE q # <<>> /\ ~(q[1][2] > 0) /\ v.dataBus # NoCommand
  BY <1>0, <1>4, FailBooks DEF WriteDataCycle
<1>5. CASE q # <<>> /\ ~(q[1][2] > 0) /\ v.dataBus = NoCommand
  <2> DEFINE r == Sooner(Tail(q))
  <2> DEFINE w == [v EXCEPT !.dataBus = q[1][1], !.dataCyclesLeft = BL, !.writeData = r]
  <2>1. WriteDataCycle(v) = w /\ w.writeData = r /\ w.dataBus = q[1][1] /\ Other(w)
    BY <1>0, <1>5 DEF WriteDataCycle, VaultShape, Reading
  <2>2. /\ DOMAIN q = 1 .. Len(q) /\ Len(q) \in Nat \ {0} /\ DOMAIN r = 1 .. Len(q) - 1
        /\ \A i \in 1 .. Len(q) - 1 : r[i][1] = q[i + 1][1]
    BY <1>0, <1>5, TakenLaws
  <2> HIDE DEF r
  <2>3. /\ 1 \in DOMAIN q /\ \A i \in DOMAIN r : i + 1 \in DOMAIN q /\ r[i][1] = q[i + 1][1]
        /\ \A i \in DOMAIN q : i = 1 \/ (i - 1 \in DOMAIN r /\ r[i - 1][1] = q[i][1])
    <3>1. \A i \in DOMAIN q : i = 1 \/ (i - 1 \in DOMAIN r /\ (i - 1) + 1 = i)
      BY <2>2
    <3> QED BY <2>2, <3>1
  <2>4. ~v.dataBus.last
    BY <1>5, NullOwesNothing
  <2> HIDE DEF w
  <2>5. \A m : WriteOwed(w, m) <=> WriteOwed(v, m)
    BY <2>1, <2>3, <2>4 DEF WriteOwed
  <2> QED BY <1>2, <2>1, <2>5
<1> QED BY <1>1, <1>3, <1>4, <1>5
-----------------------------------------------------------------------------
(* What makes no response and moves no read *)

\* The countdown to the next refresh, and the pop delay of the queues.
LEMMA CountdownQuiet ==
  ASSUME NEW v \in VaultShape
  PROVE  Quiet(v, RefreshCycle(v)) /\ Quiet(v, QueueCycle(v))
         /\ \A x : Quiet(v, [v EXCEPT !.bufPopDelay = x])
<1>1. \A x, y : LET w == [v EXCEPT !.refreshWaiting = x, !.refreshCountdown = y]
                IN  Untouched(v, w) /\ Owing(v, w)
  BY DEF VaultShape, Untouched, Owing
<1>2. \A x : LET w == [v EXCEPT !.refreshCountdown = x] IN Untouched(v, w) /\ Owing(v, w)
  BY DEF VaultShape, Untouched, Owing
<1>3. \A x : LET w == [v EXCEPT !.popDelay = x] IN Untouched(v, w) /\ Owing(v, w)
  BY DEF VaultShape, Untouched, Owing
<1>4. \A x : LET w == [v EXCEPT !.bufPopDelay = x] IN Untouched(v, w) /\ Owing(v, w)
  BY DEF VaultShape, Untouched, Owing
<1>5. Quiet(v, RefreshCycle(v))
  <2>1. \A x, y : Quiet(v, [v EXCEPT !.refreshWaiting = x, !.refreshCountdown = y])
    BY <1>1, SameQuiet
  <2>2. \A x : Quiet(v, [v EXCEPT !.refreshCountdown = x])
    BY <1>2, SameQuiet
  <2> QED BY <2>1, <2>2 DEF RefreshCycle
<1>6. Quiet(v, QueueCycle(v))
  BY <1>3, SameQuiet DEF QueueCycle
<1>7. \A x : Quiet(v, [v EXCEPT !.bufPopDelay = x])
  BY <1>4, SameQuiet
<1> QED BY <1>5, <1>6, <1>7

\* The countdowns of the vault controller.
LEMMA CountdownBooks ==
  ASSUME Known, ReadsApart, NEW v, Sound(v), Books(v, 0, 1)
  PROVE  Books(UpdateCountdown(v), 0, 1)
<1> DEFINE x == CommandBusCycle(v)
           y == DataBusCycle(x)
           z == WriteDataCycle(y)
<1>1. PICK at : Good(arrived, v, ToSet(v.downBuffers), at)
  BY DEF Sound
<1>2. PICK new : Good(arrived, x, ToSet(v.downBuffers), new)
  BY <1>1, CommandBusGood
<1>3. Books(x, 0, 1)
  BY <1>1, CommandBusBooks
<1> HIDE DEF x
<1>4. Good(arrived, y, ToSet(v.downBuffers), new) /\ Books(y, 0, 1)
  BY <1>2, <1>3, DataBusGood, DataBusBooks
<1> HIDE DEF y
<1>5. Good(arrived, z, ToSet(v.downBuffers), new) /\ Books(z, 0, 1)
  BY <1>4, WriteDataGood, WriteDataBooks
<1> HIDE DEF z
<1>6. z \in VaultShape
  BY <1>5 DEF Good
<1>7. Books(RefreshCycle(z), 0, 1)
  BY <1>5, <1>6, CountdownQuiet, QuietBooks
<1> QED BY <1>7 DEF UpdateCountdown, x, y, z

\* The conversion of one packet.
LEMMA RoundQuiet ==
  ASSUME Known, NEW x, x.v \in VaultShape,
         x \in [v : VaultShape, kept : Seq(Tag), skip : BOOLEAN], NEW n \in 1 .. Len(arrived)
  PROVE  Quiet(x.v, ConvPacketIntoCMDs(x, n).v)
<1> DEFINE v == x.v
           y == NotePending(v, n, 1)
           z == NotePending(y, n, Accesses(n))
           u == Enqueue(z, arrived[n].bank, CommandsOf(n))
<1>1. ASSUME NEW w \in VaultShape, NEW k PROVE Quiet(w, NotePending(w, n, k))
  <2>1. \A f : LET e == [w EXCEPT !.pendingReadData = f] IN Untouched(w, e) /\ Owing(w, e)
    BY DEF VaultShape, Untouched, Owing
  <2>2. Untouched(w, w) /\ Owing(w, w)
    BY DEF Untouched, Owing
  <2> QED BY <2>1, <2>2, SameQuiet DEF NotePending
<1>2. n \in Tag /\ Accesses(n) \in Nat
  BY RespNat, CommandsOfLaws
<1>3. y \in VaultShape
  BY <1>2, NoteSame DEF Same
<1>4. Quiet(v, y)
  BY <1>1
<1> HIDE DEF y
<1>5. z \in VaultShape
  BY <1>2, <1>3, NoteSame DEF Same
<1>6. Quiet(y, z)
  BY <1>1, <1>3
<1> HIDE DEF z
<1>7. Quiet(z, u)
  <2>1. \A f, g : LET e == [z EXCEPT !.queue = f, !.popDelay = g] IN Untouched(z, e) /\ Owing(z, e)
    BY <1>5 DEF VaultShape, Untouched, Owing
  <2>2. \A f, g : Quiet(z, [z EXCEPT !.queue = f, !.popDelay = g])
    BY <1>5, <2>1, SameQuiet
  <2> QED BY <2>2 DEF Enqueue
<1>8. Len(v.upBuffers) \in Nat /\ Quiet(v, v)
  <2>1. v.upBuffers \in Seq(Nat)
    BY DEF VaultShape, Responses
  <2>2. Untouched(v, v) /\ Owing(v, v)
    BY DEF Untouched, Owing
  <2> QED BY <2>1, <2>2, SameQuiet
<1>9. Quiet(v, u)
  <2>1. Quiet(v, z)
    BY <1>3, <1>4, <1>6, <1>8, QuietTwice
  <2> QED BY <1>5, <1>7, <1>8, <2>1, QuietTwice
<1> HIDE DEF u
<1>10. ConvPacketIntoCMDs(x, n).v \in {v, y, u}
  BY DEF ConvPacketIntoCMDs, y, z, u
<1> QED BY <1>4, <1>8, <1>9, <1>10

\* The conversion of the packets.
LEMMA ConvertQuiet ==
  ASSUME Known, NEW v, Sound(v)
  PROVE  Quiet(v, ConvertPackets(v))
<1> DEFINE d == v.downBuffers
           start == [v |-> v, kept |-> <<>>, skip |-> FALSE]
           done == ConvertLoop!After(d, start, Len(d))
           w == [done.v EXCEPT !.downBuffers = done.kept]
           A == {x \in [v : VaultShape, kept : Seq(Tag), skip : BOOLEAN] : Quiet(v, x.v)}
           H == [i \in 0 .. Len(d) |-> {x \in Half(d, i) : Quiet(v, x.v)}]
<1>1. PICK at : Good(arrived, v, ToSet(d), at) /\ at \in [1 .. Len(arrived) -> Place]
  BY DEF Sound
<1>2. v \in VaultShape /\ d \in Seq(Tag) /\ Len(d) \in Nat /\ IsInjective(d)
  BY SMTT(30), <1>1 DEF Good, VaultShape, Sound
<1>3. Len(v.upBuffers) \in Nat /\ Quiet(v, v)
  <2>1. v.upBuffers \in Seq(Nat)
    BY <1>2 DEF VaultShape, Responses
  <2>2. Untouched(v, v) /\ Owing(v, v)
    BY DEF Untouched, Owing
  <2> QED BY <1>2, <2>1, <2>2, SameQuiet
<1>4. start \in Half(d, 0)
  <2>1. ToSet(<<>>) = {} /\ IsInjective(<<>>) /\ <<>> \in Seq(Tag)
    BY DEF ToSet, IsInjective
  <2>2. Ahead(d, 0) = ToSet(d)
    <3>1. DOMAIN d = 0 + 1 .. Len(d)
      BY <1>2
    <3> QED BY <3>1 DEF Ahead, ToSet
  <2>3. start \in [v : VaultShape, kept : Seq(Tag), skip : BOOLEAN]
    BY <1>2, <2>1
  <2>4. ToSet(start.kept) \cup Ahead(d, 0) = ToSet(d)
    BY <2>1, <2>2
  <2> QED BY <1>1, <1>2, <2>1, <2>2, <2>3, <2>4 DEF Half
<1>5. start \in H[0]
  <2>1. Quiet(v, start.v)
    BY <1>3
  <2> HIDE DEF start
  <2> QED BY <1>2, <1>4, <2>1
<1>6. \A i \in 0 .. Len(d) - 1 : \A x \in H[i] : ConvPacketIntoCMDs(x, d[i + 1]) \in H[i + 1]
  <2> SUFFICES ASSUME NEW i \in 0 .. Len(d) - 1, NEW x \in H[i]
               PROVE  ConvPacketIntoCMDs(x, d[i + 1]) \in H[i + 1]
    OBVIOUS
  <2> DEFINE y == ConvPacketIntoCMDs(x, d[i + 1])
  <2>1. x \in Half(d, i) /\ Quiet(v, x.v) /\ i + 1 \in 0 .. Len(d) /\ i + 1 \in 1 .. Len(d)
    BY <1>2
  <2>2. y \in Half(d, i + 1)
    BY <1>2, <2>1, ConvertRound
  <2>3. x.v \in VaultShape /\ x \in [v : VaultShape, kept : Seq(Tag), skip : BOOLEAN]
    BY <2>1 DEF Half
  <2>4. d[i + 1] \in 1 .. Len(arrived)
    <3>1. d[i + 1] \in ToSet(d)
      BY <1>2, <2>1 DEF ToSet
    <3> QED BY <1>1, <3>1, TagsOf
  <2>5. Quiet(x.v, y.v)
    BY <2>3, <2>4, RoundQuiet
  <2>6. Quiet(v, y.v)
    BY <1>3, <2>1, <2>3, <2>5, QuietTwice
  <2> HIDE DEF y
  <2> QED BY <2>1, <2>2, <2>6 DEF y
<1>7. done \in H[Len(d)]
  <2> HIDE DEF H, start, d
  <2> QED BY <1>2, <1>5, <1>6, ConvertLoop!LoopRule
<1>8. done \in Half(d, Len(d)) /\ Quiet(v, done.v)
  BY <1>2, <1>7
<1>9. ConvertPackets(v) = IF v.bufPopDelay # 0 THEN v ELSE w
  BY DEF ConvertPackets, ConvertLoop!After, ConvertLoop!Repeat, Repeat
<1> HIDE DEF done, H, start
<1>10. done.v \in VaultShape
  BY <1>8 DEF Half
<1>11. Quiet(done.v, w)
  <2>1. \A f : LET e == [done.v EXCEPT !.downBuffers = f]
               IN  Untouched(done.v, e) /\ Owing(done.v, e)
    BY <1>10 DEF VaultShape, Untouched, Owing
  <2> QED BY <1>10, <2>1, SameQuiet
<1> HIDE DEF w
<1>12. Quiet(v, w)
  BY <1>3, <1>8, <1>10, <1>11, QuietTwice
<1> QED BY <1>3, <1>9, <1>12

\* A response that the crossbar takes leaves the buffer.
LEMMA SendQuiet ==
  ASSUME NEW v \in VaultShape, NEW accepted
  PROVE  Quiet(v, SendResponse(v, accepted))
<1> DEFINE u == v.upBuffers
           k == Resp(u[1])
           x == SubSeq(u, k + 1, Len(u))
           w == [v EXCEPT !.upBuffers = x]
<1>1. u \in Responses /\ u \in Seq(Nat) /\ Len(u) \in Nat /\ DOMAIN u = 1 .. Len(u)
  BY DEF VaultShape, Responses
<1>2. Quiet(v, v)
  <2>1. Untouched(v, v) /\ Owing(v, v)
    BY DEF Untouched, Owing
  <2> QED BY <2>1, SameQuiet
<1>3. u # <<>> => Len(x) \in Nat /\ Len(x) <= Len(u)
  <2> SUFFICES ASSUME u # <<>> PROVE Len(x) \in Nat /\ Len(x) <= Len(u)
    OBVIOUS
  <2>1. 1 \in DOMAIN u /\ u[1] # 0
    BY <1>1 DEF Responses
  <2>2. k \in Nat \ {0} /\ 1 + k <= Len(u) + 1
    BY <1>1, <2>1 DEF Responses
  <2> HIDE DEF k, u
  <2>3. k \in 0 .. Len(u)
    BY SMTT(30), <1>1, <2>2
  <2>4. Len(SubSeq(u, k + 1, Len(u))) = Len(u) - k
    BY <1>1, <2>3, SuffixLaws
  <2>5. Len(x) = Len(u) - k
    BY <2>4 DEF x
  <2> HIDE DEF x
  <2> QED BY <1>1, <2>3, <2>5
<1> HIDE DEF x
<1>4. Owing(v, w) /\ Reading(v, w) /\ w.pendingDataSize = v.pendingDataSize
      /\ w.fault = v.fault /\ w.upBuffers = x
  BY DEF VaultShape, Owing, Reading
<1>5. SendResponse(v, accepted) = IF u = <<>> \/ ~accepted THEN v ELSE w
  BY DEF SendResponse, x
<1> HIDE DEF w
<1>6. u # <<>> => Quiet(v, w)
  BY <1>3, <1>4 DEF Quiet
<1> QED BY <1>2, <1>5, <1>6

\* Banks that fall asleep or wake up wait no less for a read.
LEMMA PowerdownQuiet ==
  ASSUME NEW v \in VaultShape
  PROVE  Quiet(v, EnablePowerdown(v))
<1>1. ASSUME NEW x, NEW f, \A b \in Banks : f[b].nextRead = v.bank[b].nextRead
      PROVE  Quiet(v, [v EXCEPT !.powerDown = x, !.bank = f])
  <2> DEFINE w == [v EXCEPT !.powerDown = x, !.bank = f]
  <2>1. Owing(v, w) /\ w.bank = f /\ w.readCyclesLeft = v.readCyclesLeft
        /\ w.atomicOperLeft = v.atomicOperLeft /\ w.pendingDataSize = v.pendingDataSize
        /\ w.fault = v.fault /\ w.upBuffers = v.upBuffers
    BY DEF VaultShape, Owing
  <2>2. v.upBuffers \in Seq(Nat)
    BY DEF VaultShape, Responses
  <2>3. Len(v.upBuffers) \in Nat
    BY <2>2
  <2> HIDE DEF w
  <2>4. Quiet(v, w)
    BY <1>1, <2>1, <2>3 DEF Quiet, Reading, Owing
  <2> QED BY <2>4 DEF w
<1>2. Quiet(v, v)
  <2>1. Untouched(v, v) /\ Owing(v, v)
    BY DEF Untouched, Owing
  <2> QED BY <2>1, SameQuiet
<1>3. \A b \in Banks : v.bank[b] \in BankState
  BY DEF VaultShape
<1>4. Quiet(v, EnterPowerDown(v))
  <2> DEFINE f == [b \in Banks |-> [v.bank[b] EXCEPT !.state = "POWERDOWN", !.nextPowerUp = T.tCKE]]
  <2>1. \A b \in Banks : f[b].nextRead = v.bank[b].nextRead
    BY <1>3 DEF BankState
  <2>2. EnterPowerDown(v) = v \/ EnterPowerDown(v) = [v EXCEPT !.powerDown = TRUE, !.bank = f]
    BY DEF EnterPowerDown
  <2> HIDE DEF f
  <2>3. Quiet(v, [v EXCEPT !.powerDown = TRUE, !.bank = f])
    BY <1>1, <2>1
  <2> QED BY <1>2, <2>2, <2>3
<1>5. Quiet(v, LeavePowerDown(v))
  <2> DEFINE f == [b \in Banks |->
                     [v.bank[b] EXCEPT !.lastCommand = "POWERDOWN_EXIT", !.state = "AWAKING",
                                       !.countdown = T.tXP, !.nextActivate = T.tXP]]
  <2>1. \A b \in Banks : f[b].nextRead = v.bank[b].nextRead
    BY <1>3 DEF BankState
  <2>2. LeavePowerDown(v) = [v EXCEPT !.powerDown = FALSE, !.bank = f]
    BY DEF LeavePowerDown
  <2> HIDE DEF f
  <2>3. Quiet(v, [v EXCEPT !.powerDown = FALSE, !.bank = f])
    BY <1>1, <2>1
  <2> QED BY <2>2, <2>3
<1> QED BY <1>2, <1>4, <1>5 DEF EnablePowerdown
-----------------------------------------------------------------------------
(* The command that leaves the queue *)

\* Its response is promised, and fits.
LEMMA PopCommandBooks ==
  ASSUME Known, NEW v, NEW D, NEW at, Good(arrived, v, D, at), Books(v, 0, 1)
  PROVE  Books(PopCommand(v), 0, 1)
<1> DEFINE n == CmdPop(v)
           c == n.poppedCMD
           d == [c EXCEPT !.type = "WRITE_DATA"]
           p == IF Reserves(c) THEN n.pendingDataSize + Resp(c.tag) ELSE n.pendingDataSize
           x == IF c.type \in Writes THEN Append(n.writeData, <<d, WL>>) ELSE n.writeData
           m == [n EXCEPT !.writeData = x, !.pendingDataSize = p, !.cmdBus = c,
                          !.cmdCyclesLeft = T.tCMD, !.poppedCMD = NoCommand]
<1>0. v \in VaultShape /\ v.poppedCMD = NoCommand
  BY DEF Good
<1>1. Pops(v, n) /\ n \in VaultShape /\ Untouched(v, n) /\ Owing(v, n)
  BY <1>0, CmdPopLaws DEF Pops, Beside, Owing
<1>2. PopCommand(v) = IF c = NoCommand THEN n
                      ELSE IF n.cmdBus # NoCommand THEN Fail(m, "cmdBusCollision") ELSE m
  BY DEF PopCommand
<1>3. c # NoCommand => \/ Controls(c)
                       \/ \E b \in Banks : \E i \in DOMAIN v.queue[Que(b)] : Takes(v, n, b, i)
  BY <1>1 DEF Pops
<1>4. \A b \in Banks : \A i \in DOMAIN v.queue[Que(b)] :
        Takes(v, n, b, i) =>
          /\ Ready(v, c) /\ c \in DRAMCommand /\ c.tag \in 1 .. Len(arrived)
          /\ Final(c) => at[c.tag] = Label(arrived, c)
  <2> HIDE DEF n
  <2> SUFFICES ASSUME NEW b \in Banks, NEW i \in DOMAIN v.queue[Que(b)], Takes(v, n, b, i)
               PROVE  /\ Ready(v, c) /\ c \in DRAMCommand /\ c.tag \in 1 .. Len(arrived)
                      /\ Final(c) => at[c.tag] = Label(arrived, c)
    OBVIOUS
  <2>1. Ready(v, c)
    BY DEF Takes
  <2> QED BY <2>1, TakenCommand
<1> HIDE DEF n
<1>5. /\ m.writeData = x /\ m.pendingDataSize = p /\ m.cmdBus = c /\ m.fault = v.fault
      /\ m.bank = v.bank /\ m.upBuffers = v.upBuffers /\ m.readReturn = v.readReturn
      /\ m.readData = v.readData /\ m.readCyclesLeft = v.readCyclesLeft
      /\ m.atomicCMD = v.atomicCMD /\ m.atomicOperLeft = v.atomicOperLeft
      /\ m.dataBus = v.dataBus /\ Fail(m, "cmdBusCollision").fault = Fail(v, "cmdBusCollision").fault
  <2> HIDE DEF c, d, p, x
  <2>1. /\ m.writeData = x /\ m.pendingDataSize = p /\ m.cmdBus = c /\ m.fault = n.fault
        /\ m.bank = n.bank /\ m.upBuffers = n.upBuffers /\ m.readReturn = n.readReturn
        /\ m.readData = n.readData /\ m.readCyclesLeft = n.readCyclesLeft
        /\ m.atomicCMD = n.atomicCMD /\ m.atomicOperLeft = n.atomicOperLeft
        /\ m.dataBus = n.dataBus
    BY <1>1 DEF VaultShape
  <2>2. [m EXCEPT !.fault = "cmdBusCollision"].fault = "cmdBusCollision"
        /\ [v EXCEPT !.fault = "cmdBusCollision"].fault = "cmdBusCollision"
    BY <1>0, <1>1 DEF VaultShape
  <2> HIDE DEF m
  <2> QED BY <1>1, <2>1, <2>2 DEF Untouched, Owing, Fail
<1>6. CASE c = NoCommand
  BY <1>0, <1>1, <1>2, <1>6, SameQuiet, QuietBooks
<1>7. CASE c # NoCommand /\ n.cmdBus # NoCommand
  <2> HIDE DEF m
  <2> QED BY <1>0, <1>2, <1>5, <1>7, FailBooks
<1>8. CASE c # NoCommand /\ n.cmdBus = NoCommand
  <2> HIDE DEF m
  <2>1. v.cmdBus = NoCommand
    BY <1>1, <1>8 DEF Owing
  <2>2. /\ c \in DRAMCommand /\ Ready(v, c) /\ (IsAccess(c) => c.tag \in 1 .. Len(arrived))
        /\ Final(c) => at[c.tag] = Label(arrived, c)
    <3>1. Controls(c) => c \in DRAMCommand /\ Ready(v, c) /\ ~IsAccess(c) /\ ~Final(c)
      BY DEF Controls, Ready, Reserves, IsAccess, Reads, Writes, Final
    <3> QED BY <1>3, <1>4, <1>8, <3>1
  <2>3. SUFFICES ASSUME v.fault = "none" PROVE Fits(m) /\ Paced(m, 0, 1)
    BY <1>2, <1>5, <1>8 DEF Books
  <2>4. Fits(v) /\ Paced(v, 0, 1)
    BY <2>3 DEF Books
  <2>5. Paced(m, 0, 1)
    <3>1. c.type \in Reads => Behind(v, 1, RL)
      <4>1. c.type \in Reads => c.bank \in Banks /\ v.bank[c.bank].nextRead = 0
        BY <2>2 DEF Ready, DRAMCommand
      <4>2. RL + 0 = RL
        BY Times
      <4> QED BY <2>4, <4>1, <4>2 DEF Paced
    <3>2. \A t : Behind(v, 1, t) => Behind(m, 1, t)
      BY <1>5 DEF Behind
    <3>3. Returned(m, 1) /\ UnitFree(m, 0, 1)
      BY <1>5, <2>4 DEF Paced, Returned, UnitFree
    <3> QED BY <1>5, <2>4, <3>1, <3>2, <3>3 DEF Paced
  <2>6. \A k : ReadOwed(m, k) <=> ReadOwed(v, k) \/ (c.type \in Reads /\ c.last /\ c.tag = k)
    BY <1>5, <2>1, NullOwesNothing DEF ReadOwed
  <2>7. \A k : WriteOwed(m, k)
                 <=> WriteOwed(v, k) \/ (c.type \in Writes /\ c.last /\ ~Atomic(c) /\ c.tag = k)
    <3> DEFINE y == v.writeData
    <3>1. y \in Seq(DRAMCommand \X Int) /\ n.writeData = y
      BY <1>0, <1>1 DEF VaultShape, Owing
    <3>2. d.tag = c.tag /\ d.last = c.last /\ (Atomic(d) <=> Atomic(c))
      BY <2>2 DEF DRAMCommand, Atomic
    <3>3. c.type \in Writes =>
            /\ Len(y) \in Nat /\ DOMAIN y = 1 .. Len(y)
            /\ DOMAIN x = 1 .. Len(y) + 1 /\ x[Len(y) + 1] = <<d, WL>>
            /\ \A i \in 1 .. Len(y) : x[i] = y[i]
      <4> HIDE DEF d
      <4> QED BY <3>1
    <3>4. c.type \notin Writes => x = y
      BY <3>1
    <3> HIDE DEF x, y, d
    <3>5. c.type \in Writes =>
            /\ Len(y) + 1 \in DOMAIN x /\ \A i \in DOMAIN x : i \in DOMAIN y \/ i = Len(y) + 1
            /\ DOMAIN y \subseteq DOMAIN x
      BY <3>3
    <3>6. CASE c.type \in Writes
      <4>1. x[Len(y) + 1][1] = d
        BY <3>3, <3>6
      <4>2. \A k : (\E i \in DOMAIN x : x[i][1].last /\ ~Atomic(x[i][1]) /\ x[i][1].tag = k)
                     <=> \/ \E i \in DOMAIN y : y[i][1].last /\ ~Atomic(y[i][1]) /\ y[i][1].tag = k
                         \/ c.last /\ ~Atomic(c) /\ c.tag = k
        BY <3>2, <3>3, <3>5, <3>6, <4>1
      <4> QED BY <1>5, <3>6, <4>2 DEF WriteOwed, y
    <3>7. CASE c.type \notin Writes
      BY <1>5, <3>4, <3>7 DEF WriteOwed, y
    <3> QED BY <3>6, <3>7
  <2>8. c.type \in Reads \/ c.type \in Writes => c.tag \in 1 .. Len(arrived)
    BY <2>2 DEF IsAccess
  <2>9. CASE ~Reserves(c)
    <3>1. Owed(m) = Owed(v)
      BY <1>5, <2>6, <2>7, <2>9 DEF Owed, Reserves
    <3>2. m.pendingDataSize = v.pendingDataSize
      BY <1>1, <1>5, <2>9 DEF Untouched
    <3> QED BY <1>5, <2>4, <2>5, <3>1, <3>2 DEF Fits
  <2>10. CASE Reserves(c)
    <3>1. c.tag \in 1 .. Len(arrived) /\ Final(c)
      BY <2>2, <2>10 DEF Reserves, Final, IsAccess
    <3>2. Owed(m) = Owed(v) \cup {c.tag}
      <4>1. \A k : (c.type \in Reads /\ c.last /\ c.tag = k)
                     \/ (c.type \in Writes /\ c.last /\ ~Atomic(c) /\ c.tag = k) <=> k = c.tag
        BY <2>10 DEF Reserves
      <4> HIDE DEF c
      <4> QED BY <1>5, <2>6, <2>7, <3>1, <4>1 DEF Owed
    <3>3. at[c.tag] = "queue"
      <4>1. c.type \in Writes => arrived[c.tag].op \notin AtomicOp
        <5>1. c.type \in Writes => c.type \notin Reads
          BY DEF Reads, Writes
        <5>2. c.tag # 0
          BY <3>1
        <5> QED BY <2>10, <5>1, <5>2 DEF Reserves, Atomic, Op
      <4> QED BY <2>2, <3>1, <4>1 DEF Label
    <3>4. c.tag \notin Owed(v)
      <4>1. ~ReadOwed(v, c.tag)
        BY <3>3, OwedAt DEF ReadOwed
      <4>2. ~WriteOwed(v, c.tag)
        BY <3>3, OwedAt DEF WriteOwed
      <4> QED BY <3>3, <4>1, <4>2, OwedAt DEF Owed
    <3>5. Debt(Owed(m)) = Debt(Owed(v)) + Resp(c.tag)
      BY <3>1, <3>2, <3>4, DebtLaws
    <3>6. m.pendingDataSize = v.pendingDataSize + Resp(c.tag)
      BY <1>1, <1>5, <2>10 DEF Untouched
    <3>7. Len(m.upBuffers) + m.pendingDataSize <= MAX_VLT_BUF
      <4> DEFINE size == arrived[c.tag].size
                 k == Resp(c.tag)
                 pend == v.pendingDataSize
                 used == Len(v.upBuffers)
      <4>1. k \in Nat /\ k <= size + 1 /\ size \in Nat
        BY <3>1, RespNat DEF Request
      <4>2. pend \in Int /\ v.upBuffers \in Seq(Nat)
        BY <1>0 DEF VaultShape, Responses
      <4>3. used \in Nat /\ MAX_VLT_BUF \in Nat
        BY <4>2, VaultSizes
      <4>4. pend + size + 1 <= MAX_VLT_BUF - used
        BY <2>2, <2>10 DEF Ready, ResponseFits
      <4>5. Len(m.upBuffers) = used /\ m.pendingDataSize = pend + k
        BY <1>5, <3>6
      <4> HIDE DEF size, k, pend, used
      <4> QED BY <4>1, <4>2, <4>3, <4>4, <4>5
    <3> QED BY <2>4, <2>5, <3>5, <3>6, <3>7 DEF Fits
  <2> QED BY <2>9, <2>10
<1> QED BY <1>6, <1>7, <1>8
-----------------------------------------------------------------------------
(* The atomic unit *)

\* An idle unit is no reason to wait.
LEMMA IdlePaced ==
  ASSUME NEW v, NEW w, NEW late, NEW lead, NEW new, Paced(v, late, lead),
         w.atomicCMD = NoCommand, w.cmdBus = v.cmdBus, w.readReturn = v.readReturn,
         w.readData = v.readData, w.readCyclesLeft = v.readCyclesLeft, w.bank = v.bank
  PROVE  Paced(w, new, lead)
<1>1. Returned(w, lead) /\ UnitFree(w, new, lead)
  BY DEF Paced, Returned, UnitFree
<1>2. \A t : Behind(v, lead, t) => Behind(w, lead, t)
  BY DEF Behind
<1> QED BY <1>1, <1>2 DEF Paced

\* The unit's command is the only one of its request that is owed.
LEMMA UnitOwed ==
  ASSUME NEW v, NEW D, NEW at, Good(arrived, v, D, at), v.atomicCMD # NoCommand, NEW w,
         w.atomicCMD = NoCommand, w.cmdBus = v.cmdBus, w.readReturn = v.readReturn,
         w.readData = v.readData, w.writeData = v.writeData, w.dataBus = v.dataBus
  PROVE  Owed(w) = Owed(v) \ {v.atomicCMD.tag} /\ v.atomicCMD.tag \in Owed(v)
<1> DEFINE t == v.atomicCMD.tag
<1>1. t \in 1 .. Len(arrived) /\ at[t] = "atomic"
  BY TagsOf, OwedAt
<1>2. ~ReadOwed(v, t) /\ ~WriteOwed(v, t)
  <2>1. ~ReadOwed(v, t)
    BY <1>1, OwedAt DEF ReadOwed
  <2>2. ~WriteOwed(v, t)
    BY <1>1, OwedAt DEF WriteOwed
  <2> QED BY <2>1, <2>2
<1>3. \A k : (ReadOwed(w, k) <=> ReadOwed(v, k)) /\ (WriteOwed(w, k) <=> WriteOwed(v, k))
  BY DEF ReadOwed, WriteOwed
<1> QED BY <1>1, <1>2, <1>3 DEF Owed

\* The atomic operation takes its cycle; then its response is made.
LEMMA AtomicOperationBooks ==
  ASSUME Known, NEW v, NEW D, NEW at, Good(arrived, v, D, at), Books(v, 0, 1)
  PROVE  Books(AtomicOperation(v), 1, 1)
<1> DEFINE c == v.atomicCMD
           k == Que(c.bank)
           old == v.queue[k]
           back == [c EXCEPT !.type = IF OPEN_PAGE THEN "WRITE" ELSE "WRITE_P", !.last = TRUE]
           n == IF Op(c.tag) = "EQ" THEN v ELSE [v EXCEPT !.queue[k] = <<back>> \o @]
           m == IF Op(c.tag) = "P_ATOMIC" THEN n ELSE MakeRespondPacket(n, c)
           w == [m EXCEPT !.atomicCMD = NoCommand]
<1>0. v \in VaultShape
  BY DEF Good
<1>1. CASE c = NoCommand
  <2>1. Paced(v, 0, 1) => Paced(v, 1, 1)
    BY <1>1, IdlePaced
  <2> QED BY <1>1, <2>1 DEF AtomicOperation, Books
<1>2. CASE c # NoCommand /\ v.atomicOperLeft > 0
  <2> DEFINE u == [v EXCEPT !.atomicOperLeft = @ - 1]
  <2>1. v.atomicOperLeft = 1
    <3>1. v.atomicOperLeft \in {0, 1}
      BY <1>0 DEF VaultShape
    <3> QED BY <1>2, <3>1
  <2>2. /\ Owing(v, u) /\ u.bank = v.bank /\ u.readCyclesLeft = v.readCyclesLeft
        /\ u.upBuffers = v.upBuffers /\ u.pendingDataSize = v.pendingDataSize
        /\ u.fault = v.fault /\ u.atomicOperLeft = v.atomicOperLeft - 1
    BY <1>0 DEF VaultShape, Owing
  <2>3. u.atomicOperLeft + 1 = 1 /\ v.atomicOperLeft + 0 = 1
    BY <2>1, <2>2
  <2>4. AtomicOperation(v) = u
    BY <1>2 DEF AtomicOperation
  <2> HIDE DEF u
  <2>5. SUFFICES ASSUME v.fault = "none" PROVE Fits(u) /\ Paced(u, 1, 1)
    BY <2>2, <2>4 DEF Books
  <2>6. Fits(v) /\ Paced(v, 0, 1)
    BY <2>5 DEF Books
  <2>7. Fits(u)
    BY <2>2, <2>6, OwedFields DEF Fits
  <2>8. UnitFree(u, 1, 1)
    <3>1. 1 <= 1
      OBVIOUS
    <3> QED BY <2>2, <2>3, <2>6, <3>1 DEF Paced, UnitFree, Owing
  <2>9. Returned(u, 1) /\ \A t : Behind(v, 1, t) => Behind(u, 1, t)
    BY <2>2, <2>6 DEF Paced, Returned, Behind, Owing
  <2> QED BY <2>2, <2>6, <2>7, <2>8, <2>9 DEF Paced, Owing
<1>3. CASE c # NoCommand /\ ~(v.atomicOperLeft > 0)
  <2>1. Returns(arrived, c)
    BY <1>3 DEF Good, Contents
  <2>2. /\ c \in DRAMCommand /\ c.tag \in 1 .. Len(arrived) /\ c.bank \in Banks
        /\ c.row \in Nat /\ c.tag \in Nat
    BY <2>1 DEF Returns, ReadsFor, IsOf, DRAMCommand
  <2>3. /\ k \in Queues /\ old \in Seq(DRAMCommand) /\ v.queue \in [Queues -> Seq(DRAMCommand)]
        /\ Op(c.tag) # "P_ATOMIC" => Resp(c.tag) # 0
    <3>1. k \in Queues
      BY <2>2, VaultSizes
    <3>2. v.queue \in [Queues -> Seq(DRAMCommand)]
      BY <1>0 DEF VaultShape
    <3> QED BY <2>2, <3>1, <3>2, RespNat
  <2>4. back \in DRAMCommand
    BY <2>2 DEF DRAMCommand, CommandType, Writes
  <2> HIDE DEF back
  <2> DEFINE q == <<back>> \o old
             f == IF Op(c.tag) = "EQ" THEN v.queue ELSE [v.queue EXCEPT ![k] = q]
  <2>5. q \in Seq(DRAMCommand)
    BY <2>3, <2>4
  <2>6. f \in [Queues -> Seq(DRAMCommand)]
    BY <2>3, <2>5
  <2>7. n = [v EXCEPT !.queue = f]
    BY <1>0 DEF VaultShape
  <2> HIDE DEF f, n
  <2>8. n \in VaultShape
    BY ZenonT(60), <1>0, <2>6, <2>7 DEF VaultShape
  <2>9. Untouched(v, n) /\ Owing(v, n)
    BY <1>0, <2>7 DEF VaultShape, Untouched, Owing
  <2>10. /\ Owing(n, m) /\ Reading(n, m) /\ m.bank = n.bank /\ (n.fault # "none" => m.fault = n.fault)
    <3>1. Owing(n, n) /\ Reading(n, n)
      BY DEF Owing, Reading
    <3> QED BY <2>8, <3>1, RespondFields
  <2>11. /\ w.cmdBus = m.cmdBus /\ w.readReturn = m.readReturn /\ w.readData = m.readData
         /\ w.readCyclesLeft = m.readCyclesLeft /\ w.bank = m.bank /\ w.atomicCMD = NoCommand
         /\ w.writeData = m.writeData /\ w.dataBus = m.dataBus
         /\ w.fault = m.fault /\ w.upBuffers = m.upBuffers /\ w.pendingDataSize = m.pendingDataSize
    <3>1. m \in VaultShape
      <4>1. Op(c.tag) # "P_ATOMIC" => m \in VaultShape
        <5>1. Resp(c.tag) \in Nat
          BY <2>2, RespNat
        <5> QED BY <2>2, <2>3, <2>8, <5>1, RespondSame DEF Same
      <4> QED BY <2>8, <4>1
    <3> HIDE DEF m
    <3> QED BY <3>1 DEF VaultShape
  <2>12. AtomicOperation(v) = w
    BY <1>3 DEF AtomicOperation, n, back
  <2> DEFINE rest == Owed(v) \ {c.tag}
  <2>13. Op(c.tag) # "P_ATOMIC" /\ v.fault = "none" /\ Fits(v) =>
           /\ m.fault = "none" /\ m.pendingDataSize = Debt(rest)
           /\ Len(m.upBuffers) + m.pendingDataSize <= MAX_VLT_BUF
    <3> SUFFICES ASSUME Op(c.tag) # "P_ATOMIC", v.fault = "none", Fits(v)
                 PROVE  /\ m.fault = "none" /\ m.pendingDataSize = Debt(rest)
                        /\ Len(m.upBuffers) + m.pendingDataSize <= MAX_VLT_BUF
      OBVIOUS
    <3>1. Owed(n) = Owed(v)
      BY <2>9, OwedFields
    <3>2. Fits(n) /\ n.fault = "none"
      BY <2>9, <3>1 DEF Fits, Untouched
    <3>3. c.tag \in Owed(n)
      BY <1>3, <2>2, <3>1 DEF Owed
    <3> QED BY <2>3, <2>8, <3>1, <3>2, <3>3, RespondBooks
  <2>14. Op(c.tag) = "P_ATOMIC" /\ v.fault = "none" /\ Fits(v) =>
           /\ m.fault = "none" /\ m.pendingDataSize = Debt(rest)
           /\ Len(m.upBuffers) + m.pendingDataSize <= MAX_VLT_BUF
    <3> SUFFICES ASSUME Op(c.tag) = "P_ATOMIC", v.fault = "none", Fits(v)
                 PROVE  /\ m.fault = "none" /\ m.pendingDataSize = Debt(rest)
                        /\ Len(m.upBuffers) + m.pendingDataSize <= MAX_VLT_BUF
      OBVIOUS
    <3>1. m = n
      OBVIOUS
    <3>2. Resp(c.tag) = 0
      BY DEF Resp
    <3>3. c.tag \in Owed(v)
      BY <1>3, <2>2 DEF Owed
    <3>4. Debt(rest) + 0 = Debt(Owed(v)) /\ Debt(rest) \in Nat
      BY <2>2, <3>2, <3>3, DebtLaws
    <3>5. Debt(rest) = Debt(Owed(v))
      BY <3>4
    <3> HIDE DEF m, rest
    <3> QED BY <2>9, <3>1, <3>5 DEF Fits, Untouched
  <2>15. Paced(v, 0, 1) => Paced(w, 1, 1)
    <3> HIDE DEF m, w
    <3> SUFFICES ASSUME Paced(v, 0, 1) PROVE Paced(w, 1, 1)
      OBVIOUS
    <3>1. /\ w.cmdBus = v.cmdBus /\ w.readReturn = v.readReturn /\ w.readData = v.readData
          /\ w.readCyclesLeft = v.readCyclesLeft /\ w.bank = v.bank
      BY <2>9, <2>10, <2>11 DEF Untouched, Owing, Reading
    <3> QED BY <2>11, <3>1, IdlePaced
  <2>16. Owed(w) = rest
    <3> HIDE DEF m, w
    <3>1. /\ w.cmdBus = v.cmdBus /\ w.readReturn = v.readReturn /\ w.readData = v.readData
          /\ w.writeData = v.writeData /\ w.dataBus = v.dataBus
      BY <2>9, <2>10, <2>11 DEF Owing
    <3> QED BY <1>3, <2>11, <3>1, UnitOwed
  <2> HIDE DEF m, w, rest
  <2>17. v.fault # "none" => w.fault = v.fault
    BY <2>9, <2>10, <2>11 DEF Untouched
  <2>18. v.fault = "none" => w.fault = "none" /\ Fits(w) /\ Paced(w, 1, 1)
    BY <2>11, <2>13, <2>14, <2>15, <2>16 DEF Books, Fits
  <2> QED BY <2>12, <2>17, <2>18 DEF Books
<1> QED BY <1>1, <1>2, <1>3
-----------------------------------------------------------------------------
(* The DRAM *)

\* A cycle of the data that arrive brings no reads closer together.
LEMMA NearerPaced ==
  ASSUME NEW v \in VaultShape, NEW w, Paced(v, 1, 1), UnitFree(w, 0, 0),
         w.cmdBus = v.cmdBus, w.readReturn = v.readReturn, w.bank = v.bank,
         \/ w.readData = NoCommand
         \/ /\ w.readData = v.readData /\ v.readCyclesLeft > 1
            /\ w.readCyclesLeft = v.readCyclesLeft - 1
  PROVE  Paced(w, 0, 0)
<1>1. /\ BL \in Nat /\ BL >= 1 /\ RL \in Nat /\ Apart \in Nat /\ v.readCyclesLeft \in Nat
      /\ \A b \in Banks : v.bank[b].nextRead \in Nat
  <2>1. /\ v.readCyclesLeft \in Nat /\ v.bank \in [Banks -> BankState]
    BY DEF VaultShape
  <2>2. \A b \in Banks : v.bank[b] \in BankState
    BY <2>1
  <2> QED BY <2>1, <2>2, ApartSizes DEF BankState
<1>2. \A t \in Int : Behind(v, 1, t) => Behind(w, 0, t)
  <2> SUFFICES ASSUME NEW t \in Int, Behind(v, 1, t) PROVE Behind(w, 0, t)
    OBVIOUS
  <2>1. w.readData # NoCommand => t + 0 + BL >= w.readCyclesLeft + Apart
    <3> SUFFICES ASSUME w.readData # NoCommand PROVE t + 0 + BL >= w.readCyclesLeft + Apart
      OBVIOUS
    <3>1. t + 1 + BL >= v.readCyclesLeft + Apart /\ w.readCyclesLeft = v.readCyclesLeft - 1
      BY DEF Behind
    <3> QED BY <1>1, <3>1
  <2> QED BY <2>1 DEF Behind
<1>3. Returned(w, 0)
  <2>1. \A i \in DOMAIN v.readReturn : v.readReturn[i][2] \in 0 .. RL
    BY DEF Paced, Returned
  <2>2. w.readData # NoCommand => w.readCyclesLeft \in 1 .. BL
    <3> SUFFICES ASSUME w.readData # NoCommand PROVE w.readCyclesLeft \in 1 .. BL
      OBVIOUS
    <3>1. v.readCyclesLeft \in 1 .. BL /\ v.readCyclesLeft > 1
          /\ w.readCyclesLeft = v.readCyclesLeft - 1
      BY DEF Paced, Returned
    <3> QED BY <1>1, <3>1
  <2>3. w.readData # NoCommand =>
          \A i \in DOMAIN v.readReturn : v.readReturn[i][2] + 0 + BL >= w.readCyclesLeft + Apart
    <3> SUFFICES ASSUME w.readData # NoCommand, NEW i \in DOMAIN v.readReturn
                 PROVE  v.readReturn[i][2] + 0 + BL >= w.readCyclesLeft + Apart
      OBVIOUS
    <3>1. v.readReturn[i][2] + 1 + BL >= v.readCyclesLeft + Apart
          /\ w.readCyclesLeft = v.readCyclesLeft - 1 /\ v.readReturn[i][2] \in 0 .. RL
      BY <2>1 DEF Paced, Returned
    <3> QED BY <1>1, <3>1
  <2> QED BY <2>2, <2>3 DEF Paced, Returned
<1>4. \A b \in Banks : Behind(w, 0, RL + v.bank[b].nextRead)
  <2>1. \A b \in Banks : RL + v.bank[b].nextRead \in Int
    BY <1>1
  <2> QED BY <1>2, <2>1 DEF Paced
<1>5. w.cmdBus.type \in Reads => Behind(w, 0, RL)
  <2>1. RL \in Int
    BY <1>1
  <2> QED BY <1>2, <2>1 DEF Paced
<1> QED BY <1>3, <1>4, <1>5 DEF Paced

\* The last cycle of the data: the unit takes them, or the response is made.
LEMMA ReadDataBooks ==
  ASSUME Known, NEW v, NEW D, NEW at, Good(arrived, v, D, at), Books(v, 1, 1)
  PROVE  Books(ReadDataCycle(v), 0, 0)
<1> DEFINE c == v.readData
           p == [v.pendingReadData EXCEPT ![c.tag] = @ - 1]
           n == [v EXCEPT !.pendingReadData = p]
           u == [n EXCEPT !.atomicCMD = c, !.atomicOperLeft = 1]
           m == ReturnCommand(v, c)
           w == [m EXCEPT !.readData = NoCommand, !.readCyclesLeft = 0]
<1>0. v \in VaultShape /\ v.atomicOperLeft \in {0, 1} /\ v.readCyclesLeft \in Nat
  BY DEF Good, VaultShape
<1>1. BL \in Nat /\ BL >= 1 /\ RL \in Nat /\ Apart \in Nat /\ Apart >= 2
  BY ApartSizes
<1>2. Paced(v, 1, 1) /\ v.atomicCMD # NoCommand =>
        /\ v.atomicOperLeft = 0
        /\ c # NoCommand => v.readCyclesLeft > 1
        /\ \A i \in DOMAIN v.readReturn :
             v.readReturn[i][2] + 0 + BL > 0 /\ v.readReturn[i][2] \in 0 .. RL
  <2> SUFFICES ASSUME Paced(v, 1, 1), v.atomicCMD # NoCommand
               PROVE  /\ v.atomicOperLeft = 0
                      /\ c # NoCommand => v.readCyclesLeft > 1
                      /\ \A i \in DOMAIN v.readReturn :
                           v.readReturn[i][2] + 0 + BL > 0 /\ v.readReturn[i][2] \in 0 .. RL
    OBVIOUS
  <2>1. v.atomicOperLeft + 1 <= 1 /\ (c # NoCommand => v.readCyclesLeft > v.atomicOperLeft + 1)
    BY DEF Paced, UnitFree
  <2>2. v.atomicOperLeft = 0
    BY <1>0, <2>1
  <2>3. \A i \in DOMAIN v.readReturn : v.readReturn[i][2] \in 0 .. RL
    BY DEF Paced, Returned
  <2> QED BY <1>0, <1>1, <2>1, <2>2, <2>3
<1>3. CASE c = NoCommand
  <2>1. Paced(v, 1, 1) => Paced(v, 0, 0)
    <3> SUFFICES ASSUME Paced(v, 1, 1) PROVE Paced(v, 0, 0)
      OBVIOUS
    <3>1. UnitFree(v, 0, 0)
      BY <1>2, <1>3 DEF UnitFree
    <3> QED BY <1>0, <1>3, <3>1, NearerPaced
  <2> QED BY <1>3, <2>1 DEF ReadDataCycle, Books
<1>4. CASE c # NoCommand /\ v.readCyclesLeft > 1
  <2> DEFINE e == [v EXCEPT !.readCyclesLeft = @ - 1]
  <2>1. /\ Owing(v, e) /\ e.bank = v.bank /\ e.readCyclesLeft = v.readCyclesLeft - 1
        /\ e.upBuffers = v.upBuffers /\ e.pendingDataSize = v.pendingDataSize
        /\ e.fault = v.fault /\ e.atomicOperLeft = v.atomicOperLeft
    BY <1>0 DEF VaultShape, Owing
  <2>2. ReadDataCycle(v) = e
    BY <1>4 DEF ReadDataCycle
  <2> HIDE DEF e
  <2>3. Fits(v) => Fits(e)
    BY <2>1, OwedFields DEF Fits
  <2>4. Paced(v, 1, 1) => Paced(e, 0, 0)
    <3> SUFFICES ASSUME Paced(v, 1, 1) PROVE Paced(e, 0, 0)
      OBVIOUS
    <3>1. UnitFree(e, 0, 0)
      <4>1. v.readCyclesLeft - 1 > 0 /\ 0 + 0 <= 1
        BY <1>0, <1>4
      <4> QED BY <1>2, <2>1, <4>1 DEF UnitFree, Owing
    <3> QED BY <1>0, <1>4, <2>1, <3>1, NearerPaced DEF Owing
  <2> QED BY <2>1, <2>2, <2>3, <2>4 DEF Books
<1>5. CASE c # NoCommand /\ ~(v.readCyclesLeft > 1)
  <2>1. /\ c \in DRAMCommand /\ c.tag \in 1 .. Len(arrived)
    BY <1>5 DEF Good, Contents, Returns, ReadsFor, IsOf
  <2>2. ~Atomic(c) => Resp(c.tag) \in Nat \ {0}
    <3>1. c.tag # 0
      BY <2>1
    <3> QED BY <2>1, <3>1, RespNat DEF Atomic, AtomicOp
  <2>3. ReadDataCycle(v) = w
    BY <1>5 DEF ReadDataCycle
  <2>4. m = IF v.dataBus # NoCommand THEN Fail(v, "dataBusCollision")
            ELSE IF v.pendingReadData[c.tag] = 0 THEN Fail(v, "noMatch")
            ELSE IF ~c.last THEN n
            ELSE IF Atomic(c) THEN u
            ELSE MakeRespondPacket(n, c)
    BY DEF ReturnCommand
  <2>5. CASE v.dataBus # NoCommand \/ v.pendingReadData[c.tag] = 0
    <3>1. /\ Fail(v, "dataBusCollision") \in VaultShape /\ Fail(v, "noMatch") \in VaultShape
      BY <1>0, FailSame DEF Fault, Same
    <3>2. PICK e \in {"dataBusCollision", "noMatch", "cmdBusCollision"} : m = Fail(v, e)
      BY <2>4, <2>5
    <3>3. m \in VaultShape
      BY <2>4, <2>5, <3>1
    <3> HIDE DEF m
    <3>4. w.fault = Fail(v, e).fault
      BY <3>2, <3>3 DEF VaultShape
    <3> HIDE DEF w
    <3> QED BY <1>0, <2>3, <3>4, FailBooks
  <2>6. CASE v.dataBus = NoCommand /\ v.pendingReadData[c.tag] # 0
    <3>1. Untouched(v, n) /\ Owing(v, n)
      BY <1>0 DEF VaultShape, Untouched, Owing
    <3>2. n \in VaultShape
      <4>1. v.pendingReadData \in [Tag -> 0 .. MaxPending] /\ c.tag \in Tag
        BY <1>0, <2>1, RespNat DEF VaultShape
      <4>2. v.pendingReadData[c.tag] \in 0 .. MaxPending /\ MaxPending \in Nat
        BY <4>1, VaultConstants
      <4>3. v.pendingReadData[c.tag] - 1 \in 0 .. MaxPending
        BY <2>6, <4>2
      <4>4. p \in [Tag -> 0 .. MaxPending]
        BY <4>1, <4>3
      <4> HIDE DEF p
      <4> QED BY ZenonT(60), <1>0, <4>4 DEF VaultShape
    <3> HIDE DEF n
    <3>3. m = IF ~c.last THEN n ELSE IF Atomic(c) THEN u ELSE MakeRespondPacket(n, c)
      BY <2>4, <2>6
    <3>4. /\ u.cmdBus = n.cmdBus /\ u.readReturn = n.readReturn /\ u.readData = n.readData
          /\ u.writeData = n.writeData /\ u.dataBus = n.dataBus /\ u.bank = n.bank
          /\ u.fault = n.fault /\ u.upBuffers = n.upBuffers /\ u.atomicCMD = c
          /\ u.atomicOperLeft = 1 /\ u.pendingDataSize = n.pendingDataSize
          /\ u \in VaultShape
      <4>1. c \in Command
        BY <2>1 DEF Command
      <4>2. /\ u.cmdBus = n.cmdBus /\ u.readReturn = n.readReturn /\ u.readData = n.readData
            /\ u.writeData = n.writeData /\ u.dataBus = n.dataBus /\ u.bank = n.bank
            /\ u.fault = n.fault /\ u.upBuffers = n.upBuffers /\ u.atomicCMD = c
            /\ u.atomicOperLeft = 1 /\ u.pendingDataSize = n.pendingDataSize
        BY <3>2 DEF VaultShape
      <4>3. u \in VaultShape
        BY ZenonT(60), <3>2, <4>1 DEF VaultShape
      <4> QED BY <4>2, <4>3
    <3> HIDE DEF u
    <3>5. LET r == MakeRespondPacket(n, c)
          IN  /\ Owing(n, r) /\ Reading(n, r) /\ r.bank = n.bank
              /\ n.fault # "none" => r.fault = n.fault
              /\ ~Atomic(c) => r \in VaultShape
      BY <2>1, <2>2, <3>2, RespondFields, RespondSame DEF Same
    <3>6. m \in VaultShape
      BY <3>2, <3>3, <3>4, <3>5
    <3>7. /\ m.cmdBus = v.cmdBus /\ m.readReturn = v.readReturn /\ m.bank = v.bank
          /\ m.writeData = v.writeData /\ m.dataBus = v.dataBus
          /\ v.fault # "none" => m.fault = v.fault
      BY <3>1, <3>3, <3>4, <3>5 DEF Untouched, Owing
    <3>8. /\ m.atomicCMD = IF c.last /\ Atomic(c) THEN c ELSE v.atomicCMD
          /\ c.last /\ Atomic(c) => m.atomicOperLeft = 1
      BY <3>1, <3>3, <3>4, <3>5 DEF Owing
    <3> HIDE DEF m
    <3>9. /\ w.cmdBus = m.cmdBus /\ w.readReturn = m.readReturn /\ w.readData = NoCommand
          /\ w.writeData = m.writeData /\ w.dataBus = m.dataBus /\ w.bank = m.bank
          /\ w.fault = m.fault /\ w.upBuffers = m.upBuffers /\ w.atomicCMD = m.atomicCMD
          /\ w.atomicOperLeft = m.atomicOperLeft /\ w.pendingDataSize = m.pendingDataSize
      BY <3>6 DEF VaultShape
    <3> HIDE DEF w
    <3>10. SUFFICES ASSUME v.fault = "none"
                    PROVE  w.fault = "none" /\ Fits(w) /\ Paced(w, 0, 0)
      BY <2>3, <3>7, <3>9 DEF Books
    <3>11. Fits(v) /\ Paced(v, 1, 1)
      BY <3>10 DEF Books
    <3>12. v.atomicCMD = NoCommand
      BY <1>2, <1>5, <3>11
    <3>13. UnitFree(w, 0, 0)
      <4>1. \A i \in DOMAIN v.readReturn : v.readReturn[i][2] + 0 + BL > 1 + 0
        <5> TAKE i \in DOMAIN v.readReturn
        <5>1. /\ v.readReturn[i][2] \in 0 .. RL /\ v.readCyclesLeft \in 1 .. BL
              /\ v.readReturn[i][2] + 1 + BL >= v.readCyclesLeft + Apart
          BY <1>5, <3>11 DEF Paced, Returned
        <5> QED BY <1>1, <5>1
      <4>2. 1 + 0 <= 1
        OBVIOUS
      <4> QED BY <3>7, <3>8, <3>9, <3>12, <4>1, <4>2 DEF UnitFree
    <3>14. Paced(w, 0, 0)
      BY <1>0, <3>7, <3>9, <3>11, <3>13, NearerPaced
    <3>15. /\ \A k : ReadOwed(v, k) <=> ReadOwed(w, k) \/ (c.last /\ c.tag = k)
           /\ \A k : WriteOwed(w, k) <=> WriteOwed(v, k)
           /\ c.last => at[c.tag] = "data"
      <4>1. \A k : ReadOwed(v, k) <=> ReadOwed(w, k) \/ (c.last /\ c.tag = k)
        BY <3>7, <3>9, NullOwesNothing DEF ReadOwed
      <4>2. \A k : WriteOwed(w, k) <=> WriteOwed(v, k)
        BY <3>7, <3>9 DEF WriteOwed
      <4> QED BY <4>1, <4>2, OwedAt
    <3>16. CASE ~(c.last /\ ~Atomic(c))
      <4>1. Owed(w) = Owed(v)
        BY <1>5, <2>1, <3>8, <3>9, <3>12, <3>15, <3>16 DEF Owed
      <4>2. w.fault = "none" /\ w.upBuffers = v.upBuffers /\ w.pendingDataSize = v.pendingDataSize
        BY <3>1, <3>3, <3>4, <3>9, <3>10, <3>16 DEF Untouched
      <4> QED BY <3>11, <3>14, <4>1, <4>2 DEF Fits
    <3>17. CASE c.last /\ ~Atomic(c)
      <4>1. Owed(w) = Owed(v) \ {c.tag}
        <5>1. ~ReadOwed(w, c.tag)
          BY <3>7, <3>9, <3>15, <3>17, OwedAt, NullOwesNothing DEF ReadOwed
        <5>2. ~WriteOwed(v, c.tag)
          BY <3>15, <3>17, OwedAt DEF WriteOwed
        <5> QED BY <3>8, <3>9, <3>12, <3>15, <3>17, <5>1, <5>2 DEF Owed
      <4>2. Owed(n) = Owed(v)
        BY <3>1, OwedFields
      <4>3. Fits(n) /\ n.fault = "none"
        BY <3>1, <3>10, <3>11, <4>2 DEF Fits, Untouched
      <4>4. c.tag \in Owed(n)
        BY <2>1, <3>15, <3>17, <4>2 DEF Owed
      <4>5. m = MakeRespondPacket(n, c)
        BY <3>3, <3>17
      <4>6. /\ m.fault = "none" /\ m.pendingDataSize = Debt(Owed(v) \ {c.tag})
            /\ Len(m.upBuffers) + m.pendingDataSize <= MAX_VLT_BUF
        BY ZenonT(60), <2>2, <3>2, <3>17, <4>2, <4>3, <4>4, <4>5, RespondBooks
      <4> QED BY <3>9, <3>14, <4>1, <4>6 DEF Fits
    <3> QED BY <3>16, <3>17
  <2> QED BY SMTT(30), <2>5, <2>6
<1> QED BY <1>3, <1>4, <1>5

\* A cycle of a bank.
LEMMA BankCycleNext ==
  ASSUME NEW k \in BankState
  PROVE  /\ BankCycle(k).nextRead \in Nat /\ k.nextRead \in Nat
         /\ BankCycle(k).nextRead >= k.nextRead - 1
<1> DEFINE n == IF k.countdown = 1 THEN CountdownOver(k) ELSE [k EXCEPT !.countdown = Less1(@)]
<1>1. k.nextRead \in Nat
  BY DEF BankState
<1>2. n \in BankState /\ n.nextRead = k.nextRead
  <2>1. CountdownOver(k) \in BankState /\ CountdownOver(k).nextRead = k.nextRead
    BY Times DEF CountdownOver, BankState, CommandType
  <2>2. LET m == [k EXCEPT !.countdown = Less1(@)] IN m \in BankState /\ m.nextRead = k.nextRead
    BY DEF BankState, Less1
  <2> QED BY <2>1, <2>2
<1> HIDE DEF n
<1>3. BankCycle(k).nextRead = Less1(k.nextRead)
  <2>1. [n EXCEPT !.nextActivate = Less1(@), !.nextRead = Less1(@), !.nextWrite = Less1(@),
                  !.nextPrecharge = Less1(@), !.nextPowerUp = Less1(@)].nextRead = Less1(n.nextRead)
    BY <1>2 DEF BankState
  <2> QED BY <1>2, <2>1 DEF BankCycle, n
<1> QED BY <1>1, <1>3 DEF Less1

\* The reads that return come a cycle nearer, and the first when it is its time.
LEMMA ReadReturnBooks ==
  ASSUME NEW v, NEW D, NEW at, Good(arrived, v, D, at), Books(v, 0, 0)
  PROVE  Books([ReadReturnCycle(v) EXCEPT !.bank = [b \in Banks |-> BankCycle(@[b])]], 0, 1)
<1> DEFINE q == v.readReturn
           y == ReadReturnCycle(v)
           k == [b \in Banks |-> BankCycle(y.bank[b])]
           w == [y EXCEPT !.bank = k]
           Due == q # <<>> /\ q[1][2] = 0
           r == IF Due THEN Sooner(Tail(q)) ELSE Sooner(q)
           c == IF Due THEN q[1][1] ELSE v.readData
           left == IF Due THEN BL ELSE v.readCyclesLeft
<1>0. v \in VaultShape /\ q \in Seq(DRAMCommand \X Int) /\ v.readCyclesLeft \in Nat
      /\ v.atomicOperLeft \in {0, 1}
  BY DEF Good, VaultShape
<1>1. /\ BL \in Nat /\ BL >= 1 /\ RL \in Nat /\ Apart \in Nat /\ Apart >= 2 /\ Apart >= BL
  BY ApartSizes
<1>2. y = [v EXCEPT !.readData = c, !.readCyclesLeft = left, !.readReturn = r]
  <2>1. Due => y = [v EXCEPT !.readData = c, !.readCyclesLeft = left, !.readReturn = r]
    BY DEF ReadReturnCycle
  <2>2. ~Due => y = [v EXCEPT !.readReturn = r]
    BY DEF ReadReturnCycle
  <2>3. ~Due => [v EXCEPT !.readReturn = r]
                  = [v EXCEPT !.readData = c, !.readCyclesLeft = left, !.readReturn = r]
    BY <1>0 DEF VaultShape
  <2> QED BY <2>1, <2>2, <2>3
<1> HIDE DEF y, r, c, left, Due
<1>3. w = [v EXCEPT !.readData = c, !.readCyclesLeft = left, !.readReturn = r, !.bank = k]
  <2> HIDE DEF k
  <2> QED BY <1>0, <1>2 DEF VaultShape
<1>4. k = [b \in Banks |-> BankCycle(v.bank[b])]
  <2>1. y.bank = v.bank
    BY <1>0, <1>2 DEF VaultShape
  <2> QED BY <2>1
<1> HIDE DEF k
<1>5. /\ w.readData = c /\ w.readCyclesLeft = left /\ w.readReturn = r /\ w.bank = k
      /\ w.cmdBus = v.cmdBus /\ w.atomicCMD = v.atomicCMD /\ w.atomicOperLeft = v.atomicOperLeft
      /\ w.writeData = v.writeData /\ w.dataBus = v.dataBus /\ w.fault = v.fault
      /\ w.upBuffers = v.upBuffers /\ w.pendingDataSize = v.pendingDataSize
  <2> HIDE DEF w
  <2> QED BY <1>0, <1>3 DEF VaultShape
<1>6. ReadReturnCycle(v) = y /\ [y EXCEPT !.bank = [b \in Banks |-> BankCycle(@[b])]] = w
  BY DEF y, k
<1> HIDE DEF w
<1>7. SUFFICES ASSUME v.fault = "none" PROVE Fits(w) /\ Paced(w, 0, 1)
  BY <1>5, <1>6 DEF Books
<1>8. Fits(v) /\ Paced(v, 0, 0)
  BY <1>7 DEF Books
<1>9. /\ \A i \in DOMAIN q : q[i][2] \in 0 .. RL
      /\ \A i, j \in DOMAIN q : i < j => q[j][2] >= q[i][2] + Apart
      /\ v.readData # NoCommand =>
           /\ v.readCyclesLeft \in 1 .. BL
           /\ \A i \in DOMAIN q : q[i][2] + 0 + BL >= v.readCyclesLeft + Apart
      /\ v.atomicCMD # NoCommand =>
           /\ v.atomicOperLeft + 0 <= 1
           /\ v.readData # NoCommand => v.readCyclesLeft > v.atomicOperLeft + 0
           /\ \A i \in DOMAIN q : q[i][2] + 0 + BL > v.atomicOperLeft + 0
  BY <1>8 DEF Paced, Returned, UnitFree
<1>10. DOMAIN q = 1 .. Len(q) /\ Len(q) \in Nat
  BY <1>0
\* Where the entries of r come from.
<1>11. \A i \in DOMAIN r :
         \E j \in DOMAIN q : /\ r[i][1] = q[j][1] /\ r[i][2] = q[j][2] - 1
                             /\ j = IF Due THEN i + 1 ELSE i
  <2>1. CASE Due
    <3>1. /\ DOMAIN r = 1 .. Len(q) - 1
          /\ \A i \in 1 .. Len(q) - 1 : r[i][1] = q[i + 1][1] /\ r[i][2] = q[i + 1][2] - 1
      BY <1>0, <2>1, TakenLaws DEF Due, r
    <3>2. \A i \in 1 .. Len(q) - 1 : i + 1 \in DOMAIN q
      BY <1>10
    <3> QED BY <2>1, <3>1, <3>2
  <2>2. CASE ~Due
    BY <1>0, <2>2, SoonerLaws DEF r
  <2> QED BY <2>1, <2>2
<1>12. \A i \in DOMAIN r : i \in Nat /\ i >= 1
  <2>1. r \in Seq(DRAMCommand \X Int)
    <3>1. Due => q # <<>>
      BY DEF Due
    <3> QED BY <1>0, <3>1, SoonerLaws, TakenLaws DEF r
  <2> QED BY <2>1
<1>13. Due => 1 \in DOMAIN q /\ q[1][2] = 0 /\ v.readData = NoCommand
  <2> SUFFICES ASSUME Due PROVE 1 \in DOMAIN q /\ q[1][2] = 0 /\ v.readData = NoCommand
    OBVIOUS
  <2>1. 1 \in DOMAIN q /\ q[1][2] = 0
    BY <1>0 DEF Due
  <2>2. v.readData # NoCommand => FALSE
    <3> SUFFICES ASSUME v.readData # NoCommand PROVE FALSE
      OBVIOUS
    <3>1. 0 + 0 + BL >= v.readCyclesLeft + Apart /\ v.readCyclesLeft >= 1
      BY <1>9, <2>1
    <3> QED BY <1>0, <1>1, <3>1
  <2> QED BY <2>1, <2>2
<1>14. \A i \in DOMAIN r : r[i][2] \in 0 .. RL
  <2> SUFFICES ASSUME NEW i \in DOMAIN r PROVE r[i][2] \in 0 .. RL
    OBVIOUS
  <2>1. PICK j \in DOMAIN q : r[i][2] = q[j][2] - 1 /\ j = IF Due THEN i + 1 ELSE i
    BY <1>11
  <2>2. 1 \in DOMAIN q /\ j \in Nat /\ i \in Nat /\ i >= 1
    BY <1>10, <1>12, <2>1
  <2>3. q[j][2] >= 1
    <3>1. CASE Due
      <4>1. 1 < j
        BY <2>1, <2>2, <3>1
      <4>2. q[j][2] >= 0 + Apart /\ q[j][2] \in 0 .. RL
        BY <1>9, <1>13, <2>2, <3>1, <4>1
      <4> QED BY <1>1, <4>2
    <3>2. CASE ~Due
      <4>1. q[1][2] # 0 /\ q[1][2] \in 0 .. RL /\ q[j][2] \in 0 .. RL
        BY <1>9, <2>2, <3>2 DEF Due
      <4>2. j = 1 \/ 1 < j
        BY <2>2, <1>10
      <4>3. 1 < j => q[j][2] >= q[1][2] + Apart
        BY <1>9, <2>2
      <4> QED BY <1>1, <4>1, <4>2, <4>3
    <3> QED BY <3>1, <3>2
  <2>4. q[j][2] \in 0 .. RL
    BY <1>9
  <2> QED BY <1>1, <2>1, <2>3, <2>4
\* How far t is behind the others, seen a cycle later.
<1>15. ASSUME NEW t \in Int, NEW x \in Int, Behind(v, 0, t), x >= t - 1
       PROVE  Behind(w, 1, x)
  <2>1. \A i \in DOMAIN r : x >= r[i][2] + Apart
    <3> SUFFICES ASSUME NEW i \in DOMAIN r PROVE x >= r[i][2] + Apart
      OBVIOUS
    <3>1. PICK j \in DOMAIN q : r[i][2] = q[j][2] - 1
      BY <1>11
    <3>2. t >= q[j][2] + Apart /\ q[j][2] \in 0 .. RL
      BY <1>9, <1>15 DEF Behind
    <3> QED BY <1>1, <1>15, <3>1, <3>2
  <2>2. c # NoCommand => x + 1 + BL >= left + Apart
    <3>1. CASE Due
      <4>1. t >= 0 + Apart /\ left = BL
        BY <1>13, <1>15, <3>1 DEF Behind, left
      <4> QED BY <1>1, <1>15, <4>1
    <3>2. CASE ~Due
      <4>1. c # NoCommand => t + 0 + BL >= left + Apart
        BY <1>15, <3>2 DEF Behind, left, c
      <4>2. left \in Nat
        BY <1>0, <3>2 DEF left
      <4> QED BY <1>1, <1>15, <4>1, <4>2
    <3> QED BY <3>1, <3>2
  <2> QED BY <1>5, <2>1, <2>2 DEF Behind
<1>16. Returned(w, 1)
  <2>1. \A i, j \in DOMAIN r : i < j => r[j][2] >= r[i][2] + Apart
    <3> SUFFICES ASSUME NEW i \in DOMAIN r, NEW j \in DOMAIN r, i < j
                 PROVE  r[j][2] >= r[i][2] + Apart
      OBVIOUS
    <3>1. PICK f \in DOMAIN q : r[i][2] = q[f][2] - 1 /\ f = IF Due THEN i + 1 ELSE i
      BY <1>11
    <3>2. PICK g \in DOMAIN q : r[j][2] = q[g][2] - 1 /\ g = IF Due THEN j + 1 ELSE j
      BY <1>11
    <3>3. f < g
      BY <1>12, <3>1, <3>2
    <3>4. q[g][2] >= q[f][2] + Apart /\ q[f][2] \in 0 .. RL /\ q[g][2] \in 0 .. RL
      BY <1>9, <3>3
    <3> QED BY <1>1, <3>1, <3>2, <3>4
  <2>2. c # NoCommand => left \in 1 .. BL
    BY <1>1, <1>9 DEF c, left
  <2>3. c # NoCommand => \A i \in DOMAIN r : r[i][2] + 1 + BL >= left + Apart
    <3> SUFFICES ASSUME c # NoCommand, NEW i \in DOMAIN r PROVE r[i][2] + 1 + BL >= left + Apart
      OBVIOUS
    <3>1. PICK j \in DOMAIN q : r[i][2] = q[j][2] - 1 /\ j = IF Due THEN i + 1 ELSE i
      BY <1>11
    <3>2. q[j][2] \in 0 .. RL
      BY <1>9
    <3>3. CASE Due
      <4>1. 1 < j
        BY <1>12, <3>1, <3>3
      <4>2. q[j][2] >= 0 + Apart /\ left = BL
        BY <1>9, <1>13, <3>3, <4>1 DEF left
      <4> QED BY <1>1, <3>1, <3>2, <4>2
    <3>4. CASE ~Due
      <4>1. q[j][2] + 0 + BL >= left + Apart /\ left \in Nat
        BY <1>0, <1>9, <3>4 DEF left, c
      <4> QED BY <1>1, <3>1, <3>2, <4>1
    <3> QED BY <3>3, <3>4
  <2> QED BY <1>5, <1>14, <2>1, <2>2, <2>3 DEF Returned
<1>17. UnitFree(w, 0, 1)
  <2> SUFFICES ASSUME v.atomicCMD # NoCommand
               PROVE  /\ v.atomicOperLeft + 0 <= 1
                      /\ c # NoCommand => left > v.atomicOperLeft + 0
                      /\ \A i \in DOMAIN r : r[i][2] + 1 + BL > v.atomicOperLeft + 0
    BY <1>5 DEF UnitFree
  <2>1. \A i \in DOMAIN r : r[i][2] + 1 + BL > v.atomicOperLeft + 0
    <3> SUFFICES ASSUME NEW i \in DOMAIN r PROVE r[i][2] + 1 + BL > v.atomicOperLeft + 0
      OBVIOUS
    <3>1. PICK j \in DOMAIN q : r[i][2] = q[j][2] - 1
      BY <1>11
    <3>2. q[j][2] \in 0 .. RL /\ q[j][2] + 0 + BL > v.atomicOperLeft + 0
      BY <1>9
    <3> QED BY <1>0, <1>1, <3>1, <3>2
  <2>2. c # NoCommand => left > v.atomicOperLeft + 0
    <3>1. CASE Due
      <4>1. 0 + 0 + BL > v.atomicOperLeft + 0 /\ left = BL
        BY <1>9, <1>13, <3>1 DEF left
      <4> QED BY <1>0, <1>1, <4>1
    <3>2. CASE ~Due
      BY <1>9, <3>2 DEF c, left
    <3> QED BY <3>1, <3>2
  <2> QED BY <1>9, <2>1, <2>2
<1>18. \A b \in Banks : Behind(w, 1, RL + k[b].nextRead)
  <2> SUFFICES ASSUME NEW b \in Banks PROVE Behind(w, 1, RL + k[b].nextRead)
    OBVIOUS
  <2>1. v.bank[b] \in BankState
    BY <1>0 DEF VaultShape
  <2> DEFINE f == v.bank[b].nextRead
             g == k[b].nextRead
  <2>2. f \in Nat /\ g \in Nat /\ g >= f - 1
    BY <1>4, <2>1, BankCycleNext
  <2>3. Behind(v, 0, RL + f)
    BY <1>8 DEF Paced
  <2> HIDE DEF f, g
  <2>4. RL + f \in Int /\ RL + g \in Int /\ RL + g >= (RL + f) - 1
    BY <1>1, <2>2
  <2>5. Behind(w, 1, RL + g)
    BY <1>15, <2>3, <2>4
  <2> QED BY <2>5 DEF g
<1>19. w.cmdBus.type \in Reads => Behind(w, 1, RL)
  <2>1. w.cmdBus.type \in Reads => Behind(v, 0, RL)
    BY <1>5, <1>8 DEF Paced
  <2>2. RL \in Int /\ RL >= RL - 1
    BY <1>1
  <2> QED BY <1>15, <2>1, <2>2
<1>20. Owed(w) = Owed(v)
  <2>1. \A m : ReadOwed(w, m) <=> ReadOwed(v, m)
    <3> SUFFICES ASSUME NEW m PROVE ReadOwed(w, m) <=> ReadOwed(v, m)
      OBVIOUS
    <3> DEFINE In(z) == \E i \in DOMAIN z : z[i][1].last /\ z[i][1].tag = m
    <3>1. CASE Due
      <4>1. /\ DOMAIN r = 1 .. Len(q) - 1 /\ \A i \in 1 .. Len(q) - 1 : r[i][1] = q[i + 1][1]
        BY <1>0, <3>1, TakenLaws DEF Due, r
      <4>2. /\ \A i \in DOMAIN r : i + 1 \in DOMAIN q /\ r[i][1] = q[i + 1][1]
            /\ \A i \in DOMAIN q : i = 1 \/ (i - 1 \in DOMAIN r /\ r[i - 1][1] = q[i][1])
        <5>1. \A i \in DOMAIN r : i + 1 \in DOMAIN q
          BY <1>10, <4>1
        <5>2. \A i \in DOMAIN q : i = 1 \/ (i - 1 \in DOMAIN r /\ (i - 1) + 1 = i)
          BY <1>10, <4>1
        <5> QED BY <4>1, <5>1, <5>2
      <4>3. In(q) <=> In(r) \/ (c.last /\ c.tag = m)
        <5>1. c = q[1][1] /\ 1 \in DOMAIN q
          BY <1>13, <3>1 DEF c
        <5>2. In(q) => In(r) \/ (c.last /\ c.tag = m)
          BY <4>2, <5>1
        <5>3. In(r) => In(q)
          BY <4>2
        <5> QED BY <5>1, <5>2, <5>3
      <4> HIDE DEF In
      <4>4. ~v.readData.last
        BY <1>13, <3>1, NullOwesNothing
      <4> QED BY <1>5, <4>3, <4>4 DEF ReadOwed, In
    <3>2. CASE ~Due
      <4>1. DOMAIN r = DOMAIN q /\ \A i \in DOMAIN q : r[i][1] = q[i][1]
        BY <1>0, <3>2, SoonerLaws DEF r
      <4>2. c = v.readData
        BY <3>2 DEF c
      <4> QED BY <1>5, <4>1, <4>2 DEF ReadOwed
    <3> QED BY <3>1, <3>2
  <2>2. \A m : WriteOwed(w, m) <=> WriteOwed(v, m)
    BY <1>5 DEF WriteOwed
  <2> QED BY <1>5, <2>1, <2>2 DEF Owed
<1> QED BY <1>5, <1>8, <1>16, <1>17, <1>18, <1>19, <1>20 DEF Fits, Paced
-----------------------------------------------------------------------------
(* The calls *)

\* VaultController::Update.
LEMMA VaultUpdateBooks ==
  ASSUME Known, ReadsApart, NEW v, Sound(v), Books(v, 0, 1), NEW accepted
  PROVE  LET n == AtomicOperation(PopCommand(SendResponse(ConvertPackets(UpdateCountdown(v)), accepted)))
         IN  Books([QueueCycle(EnablePowerdown(n)) EXCEPT !.bufPopDelay = Less1(@)], 1, 1)
<1> DEFINE u == UpdateCountdown(v)
           x == ConvertPackets(u)
           y == SendResponse(x, accepted)
           z == PopCommand(y)
           n == AtomicOperation(z)
           e == EnablePowerdown(n)
           q == QueueCycle(e)
           w == [q EXCEPT !.bufPopDelay = Less1(@)]
<1>1. Sound(u) /\ u \in VaultShape /\ Books(u, 0, 1)
  BY UpdateCountdownSound, CountdownBooks, SoundShape
<1> HIDE DEF u
<1>2. Quiet(u, x)
  BY <1>1, ConvertQuiet
<1>3. PICK at : Good(arrived, x, ToSet(x.downBuffers), at)
  <2>1. PICK new : Good(arrived, u, ToSet(u.downBuffers), new)
    BY <1>1 DEF Sound
  <2> QED BY <1>1, <2>1, ConvertGood DEF Sound
<1> HIDE DEF x
<1>4. Books(x, 0, 1) /\ x \in VaultShape
  BY <1>1, <1>2, <1>3, QuietBooks DEF Good
<1>5. Good(arrived, y, ToSet(x.downBuffers), at) /\ Books(y, 0, 1)
  BY <1>3, <1>4, SendSame, SameGood, SendQuiet, QuietBooks
<1> HIDE DEF y
<1>6. PICK sent : Good(arrived, z, ToSet(x.downBuffers), sent)
  BY <1>5, PopCommandGood
<1>7. Books(z, 0, 1)
  BY <1>5, PopCommandBooks
<1> HIDE DEF z
<1>8. PICK back : Good(arrived, n, ToSet(x.downBuffers), back)
  BY <1>6, AtomicOperationGood
<1>9. Books(n, 1, 1) /\ n \in VaultShape
  BY <1>6, <1>7, <1>8, AtomicOperationBooks DEF Good
<1> HIDE DEF n
<1>10. Books(e, 1, 1) /\ e \in VaultShape
  BY <1>9, PowerdownQuiet, PowerdownSame, QuietBooks DEF Same
<1> HIDE DEF e
<1>11. Books(q, 1, 1) /\ q \in VaultShape
  BY <1>10, CountdownQuiet, QueueCycleSame, QuietBooks DEF Same
<1> HIDE DEF q
<1>12. Books(w, 1, 1)
  <2>1. \A k : Quiet(q, [q EXCEPT !.bufPopDelay = k])
    BY <1>11, CountdownQuiet
  <2>2. \A k : Books([q EXCEPT !.bufPopDelay = k], 1, 1)
    BY <1>11, <2>1, QuietBooks
  <2> QED BY <2>2
<1> QED BY <1>12 DEF u, x, y, z, n, e, q

\* DRAM::Update.
LEMMA DRAMUpdateBooks ==
  ASSUME Known, NEW v, Sound(v), Books(v, 1, 1)
  PROVE  Books([ReadReturnCycle(ReadDataCycle(v)) EXCEPT
                  !.bank = [b \in Banks |-> BankCycle(@[b])]], 0, 1)
<1> DEFINE x == ReadDataCycle(v)
<1>1. PICK at : Good(arrived, v, ToSet(v.downBuffers), at)
  BY DEF Sound
<1>2. PICK new : Good(arrived, x, ToSet(v.downBuffers), new)
  BY <1>1, ReadDataGood
<1>3. Books(x, 0, 0)
  BY <1>1, ReadDataBooks
<1> HIDE DEF x
<1>4. Books([ReadReturnCycle(x) EXCEPT !.bank = [b \in Banks |-> BankCycle(@[b])]], 0, 1)
  BY <1>2, <1>3, ReadReturnBooks
<1> QED BY <1>4 DEF x

\* The books are about the requests that are known.
LEMMA BooksNext ==
  ASSUME arrived' = arrived, NEW late, NEW lead, Books(s', late, lead)
  PROVE  Books(s, late, lead)'
<1>1. \A n : WriteOwed(s, n)' <=> WriteOwed(s', n)
  BY DEF WriteOwed, Atomic, Op
<1>2. \A n : ReadOwed(s, n)' <=> ReadOwed(s', n)
  BY DEF ReadOwed
<1>3. Owed(s)' = Owed(s')
  BY <1>1, <1>2 DEF Owed
<1>4. \A n : Resp(n)' = Resp(n)
  BY DEF Resp, Op
<1>5. Debt(Owed(s))' = Debt(Owed(s'))
  BY <1>3, <1>4 DEF Debt
<1>6. Fits(s') => Fits(s)'
  BY <1>3, <1>5 DEF Fits
<1> QED BY <1>6 DEF Books

\* A request that just arrived is owed nothing yet.
LEMMA ArriveBooks ==
  ASSUME VaultInv, Arrive, BooksInv
  PROVE  BooksInv'
<1> DEFINE N == Len(arrived)
<1>1. PICK r \in Templates : arrived' = Append(arrived, r)
  BY DEF Arrive
<1>2. PICK at : Good(arrived, s, ToSet(s.downBuffers), at)
  BY DEF VaultInv, Sound
<1>3. s \in VaultShape /\ Known /\ N \in Nat
  BY <1>2 DEF VaultInv, Known, Good
<1>4. Untouched(s, s') /\ Owing(s, s')
  BY <1>3 DEF Arrive, VaultShape, Untouched, Owing
<1>5. turn = "vault" /\ turn' = "vault" /\ s.fault = "none"
  BY DEF Arrive, Running
<1>6. Fits(s) /\ Paced(s, 0, 1)
  BY <1>5 DEF BooksInv, Books
<1>7. Paced(s', 0, 1)
  BY <1>3, <1>4, <1>6, SameQuiet, PacedFields DEF Quiet
<1>8. /\ Len(arrived') = N + 1 /\ \A n \in 1 .. N : arrived'[n] = arrived[n] /\ n \in 1 .. N + 1
      /\ \A n \in 1 .. N + 1 : n \in 1 .. N \/ n = N + 1
      /\ N + 1 \notin 1 .. N
  BY <1>1, <1>3 DEF Known
<1>9. \A n \in 1 .. N : Op(n)' = Op(n) /\ Resp(n)' = Resp(n)
  BY <1>8 DEF Op, Resp
<1>10. \A n : ReadOwed(s, n)' <=> ReadOwed(s, n)
  BY <1>4 DEF ReadOwed, Owing
<1>11. \A n : WriteOwed(s, n)' <=> WriteOwed(s, n)
  <2>1. /\ \A i \in DOMAIN s.writeData : s.writeData[i][1].tag \in 1 .. N
        /\ s.dataBus.last => s.dataBus.tag \in 1 .. N
    BY <1>2, TagsOf
  <2>2. \A i \in DOMAIN s.writeData : Atomic(s.writeData[i][1])' <=> Atomic(s.writeData[i][1])
    BY <1>4, <1>9, <2>1 DEF Atomic, Owing
  <2>3. s.dataBus.last => (Atomic(s.dataBus)' <=> Atomic(s.dataBus))
    BY <1>4, <1>9, <2>1 DEF Atomic, Owing
  <2> QED BY <1>4, <2>2, <2>3 DEF WriteOwed, Owing
<1>12. \A n : ReadOwed(s, n) \/ WriteOwed(s, n) \/ (s.atomicCMD # NoCommand /\ s.atomicCMD.tag = n)
                => n \in 1 .. N
  BY <1>2, TagsOf DEF ReadOwed, WriteOwed
<1>13. Owed(s)' = Owed(s) /\ N + 1 \notin Owed(s)
  <2>1. \A n : n \in Owed(s)' <=> n \in Owed(s)
    BY <1>4, <1>8, <1>10, <1>11, <1>12 DEF Owed, Owing
  <2> QED BY <1>8, <2>1 DEF Owed
<1>14. Debt(Owed(s))' = Debt(Owed(s))
  <2> DEFINE S == Owed(s)
             q == [n \in 1 .. N |-> IF n \in S THEN Resp(n) ELSE 0]
             x == [n \in 1 .. N + 1 |-> IF n \in S THEN Resp(n)' ELSE 0]
  <2>1. q \in Seq(Nat) /\ Len(q) = N
    BY <1>3, RespNat
  <2>2. \A n \in 1 .. N : q[n] = IF n \in S THEN Resp(n) ELSE 0
    OBVIOUS
  <2>3. Debt(Owed(s)) = Total(q)
    BY DEF Debt
  <2>4. Debt(Owed(s))' = Total(x)
    BY <1>8, <1>13 DEF Debt
  <2> HIDE DEF q
  <2>5. x = Append(q, 0)
    <3>1. Append(q, 0) \in Seq(Nat) /\ Len(Append(q, 0)) = N + 1
      BY <2>1
    <3>2. \A n \in 1 .. N : Append(q, 0)[n] = q[n]
      BY <2>1
    <3>3. Append(q, 0)[N + 1] = 0
      BY <2>1
    <3>4. \A n \in 1 .. N + 1 : x[n] = Append(q, 0)[n]
      BY <1>8, <1>9, <1>13, <2>2, <3>2, <3>3
    <3> DEFINE z == Append(q, 0)
    <3>5. z \in Seq(Nat) /\ Len(z) = N + 1
      BY <3>1
    <3>6. \A n \in 1 .. N + 1 : x[n] = z[n]
      BY <3>4
    <3> HIDE DEF z, S
    <3>7. z = [n \in 1 .. N + 1 |-> z[n]]
      BY <3>5
    <3>8. x = [n \in 1 .. N + 1 |-> x[n]]
      OBVIOUS
    <3> HIDE DEF x
    <3>9. x = z
      BY <3>6, <3>7, <3>8
    <3> QED BY <3>9 DEF z
  <2> HIDE DEF x
  <2>6. Total(x) = Total(q) + 0 /\ Total(q) \in Nat
    BY <2>1, <2>5, TotalAppend, TotalType
  <2> QED BY <2>3, <2>4, <2>6
<1>15. Fits(s)'
  BY <1>4, <1>6, <1>13, <1>14 DEF Fits, Untouched
<1>16. Paced(s, 0, 1)'
  BY <1>7
<1> QED BY <1>4, <1>5, <1>15, <1>16 DEF BooksInv, Books, Untouched

\* Initially nothing is owed and nothing is read.
LEMMA BooksInit == Init => BooksInv
<1> SUFFICES ASSUME Init PROVE BooksInv
  OBVIOUS
<1>1. /\ s.cmdBus = NoCommand /\ s.readReturn = <<>> /\ s.readData = NoCommand
      /\ s.atomicCMD = NoCommand /\ s.writeData = <<>> /\ s.dataBus = NoCommand
      /\ s.upBuffers = <<>> /\ s.pendingDataSize = 0 /\ s.fault = "none"
      /\ turn = "vault" /\ arrived = <<>>
  BY DEF Init, NewVault
<1>2. Debt(Owed(s)) = 0
  <2>1. Debt(Owed(s)) = Total(<<>>)
    <3>1. 1 .. Len(arrived) = {}
      BY <1>1
    <3>2. [n \in 1 .. Len(arrived) |-> IF n \in Owed(s) THEN Resp(n) ELSE 0] = <<>>
      BY <3>1
    <3> QED BY <3>2 DEF Debt
  <2>2. Total(<<>>) = 0
    <3>1. Total(<<>>) = SumLoop!After(<<>>, 0, Len(<<>>))
      BY DEF SumLoop!After, Total, SumLoop!Repeat, Repeat
    <3>2. Len(<<>>) = 0
      OBVIOUS
    <3> QED BY <3>1, <3>2, SumLoop!AfterZero
  <2> QED BY <2>1, <2>2
<1>3. Fits(s)
  <2>1. Len(s.upBuffers) + s.pendingDataSize <= MAX_VLT_BUF
    BY <1>1, VaultSizes
  <2> QED BY <1>1, <1>2, <2>1 DEF Fits
<1>4. Paced(s, 0, 1)
  BY <1>1, NullOwesNothing DEF Paced, Returned, UnitFree, Behind
<1> QED BY <1>1, <1>3, <1>4 DEF BooksInv, Books

\* The invariant is one.
LEMMA BooksInvNext ==
  ASSUME ReadsApart, VaultInv, BooksInv, [Next]_vars
  PROVE  BooksInv'
<1>1. Known /\ Sound(s)
  BY DEF VaultInv
<1>2. CASE Arrive
  BY <1>2, ArriveBooks
<1>3. CASE VaultUpdate
  <2>1. PICK accepted \in BOOLEAN :
          LET n == AtomicOperation(PopCommand(SendResponse(ConvertPackets(UpdateCountdown(s)), accepted)))
          IN  s' = [QueueCycle(EnablePowerdown(n)) EXCEPT !.bufPopDelay = Less1(@)]
    BY <1>3 DEF VaultUpdate
  <2>2. turn = "vault" /\ turn' = "dram" /\ arrived' = arrived
    BY <1>3 DEF VaultUpdate
  <2>3. Books(s, 0, 1)
    BY <2>2 DEF BooksInv
  <2>4. Books(s', 1, 1)
    BY <1>1, <2>1, <2>3, VaultUpdateBooks
  <2>5. Books(s, 1, 1)'
    BY <2>2, <2>4, BooksNext
  <2> QED BY <2>2, <2>5 DEF BooksInv
<1>4. CASE DRAMUpdate
  <2>1. /\ turn = "dram" /\ turn' = "vault" /\ arrived' = arrived
        /\ s' = [ReadReturnCycle(ReadDataCycle(s)) EXCEPT !.bank = [b \in Banks |-> BankCycle(@[b])]]
    BY <1>4 DEF DRAMUpdate
  <2>2. Books(s, 1, 1)
    BY <2>1 DEF BooksInv
  <2>3. Books(s', 0, 1)
    BY <1>1, <2>1, <2>2, DRAMUpdateBooks
  <2>4. Books(s, 0, 1)'
    BY <2>1, <2>3, BooksNext
  <2> QED BY <2>1, <2>4 DEF BooksInv
<1>5. CASE UNCHANGED vars
  <2>1. s' = s /\ arrived' = arrived /\ turn' = turn
    BY <1>5 DEF vars
  <2>2. CASE turn = "dram"
    <3>1. Books(s', 1, 1)
      BY <2>1, <2>2 DEF BooksInv
    <3>2. Books(s, 1, 1)'
      BY <2>1, <3>1, BooksNext
    <3> QED BY <2>1, <2>2, <3>2 DEF BooksInv
  <2>3. CASE turn # "dram"
    <3>1. Books(s', 0, 1)
      BY <2>1, <2>3 DEF BooksInv
    <3>2. Books(s, 0, 1)'
      BY <2>1, <3>1, BooksNext
    <3> QED BY <2>1, <2>3, <3>2 DEF BooksInv
  <2> QED BY <2>2, <2>3
<1> QED BY <1>2, <1>3, <1>4, <1>5 DEF Next
-----------------------------------------------------------------------------
(* The theorems *)

\* What is promised is what is owed.
LEMMA PromisedOwed ==
  ASSUME VaultInv
  PROVE  Promised = Owed(s)
<1>1. PICK at : Good(arrived, s, ToSet(s.downBuffers), at)
  BY DEF VaultInv, Sound
<1>2. Contents(arrived, s, ToSet(s.downBuffers)) /\ s \in VaultShape
  BY <1>1 DEF Good
<1>3. /\ \A i \in DOMAIN s.readReturn : s.readReturn[i][1].type = "READ_DATA"
      /\ s.readData.last => s.readData.type = "READ_DATA"
      /\ s.atomicCMD # NoCommand => s.atomicCMD.type = "READ_DATA" /\ s.atomicCMD.last
      /\ s.cmdBus.type # "READ_DATA"
  <2>1. NoCommand.type # "READ_DATA"
    BY DEF NoCommand, NewCommand
  <2> QED BY <1>2, <2>1, NullOwesNothing DEF Contents, Returns, ReadsFor, Waits, Controls, Reads, Writes
<1>4. /\ DOMAIN s.readReturn = 1 .. Len(s.readReturn)
      /\ DOMAIN s.writeData = 1 .. Len(s.writeData)
  BY <1>2 DEF VaultShape
<1>5. \A n : (\E c \in Returning \cup {s.atomicCMD, s.cmdBus} :
                 c.last /\ c.type \in Reads \cup {"READ_DATA"} /\ c.tag = n)
               <=> ReadOwed(s, n) \/ (s.atomicCMD # NoCommand /\ s.atomicCMD.tag = n)
  BY <1>3, <1>4, NullOwesNothing DEF Returning, ReadOwed
<1>6. \A n : (\E c \in Writing : c.last /\ ~Atomic(c) /\ c.tag = n) <=> WriteOwed(s, n)
  BY <1>4 DEF Writing, WriteOwed
<1>7. \A n : ReadOwed(s, n) \/ WriteOwed(s, n) \/ (s.atomicCMD # NoCommand /\ s.atomicCMD.tag = n)
               => n \in 1 .. Len(arrived)
  BY <1>1, TagsOf DEF ReadOwed, WriteOwed
<1>8. \A n : n \in Promised <=> \/ \E c \in Returning \cup {s.atomicCMD, s.cmdBus} :
                                     c.last /\ c.type \in Reads \cup {"READ_DATA"} /\ c.tag = n
                                \/ \E c \in Writing : c.last /\ ~Atomic(c) /\ c.tag = n
  BY DEF Promised
<1> QED BY ZenonT(60), <1>5, <1>6, <1>7, <1>8 DEF Owed

\* When reads stay apart, the room that is kept for responses (pendingDataSize, which
\* VaultController::Update adds to and MakeRespondPacket subtracts from) is at any
\* time what the promised responses take, and there is that much room.
THEOREM ResponsesFit ==
  ASSUME ReadsApart
  PROVE  Spec => [](Running => ResponsesReserved)
<1>1. Init => VaultInv /\ BooksInv
  BY VaultInvInit, BooksInit
<1>2. VaultInv /\ BooksInv /\ [Next]_vars => (VaultInv /\ BooksInv)'
  BY VaultInvNext, BooksInvNext
<1>3. VaultInv /\ BooksInv => (Running => ResponsesReserved)
  BY PromisedOwed DEF BooksInv, Books, Running, Fits, ResponsesReserved
<1> QED BY <1>1, <1>2, <1>3, PTL DEF Spec

\* So no response finds the upstream buffer full: the ERROR branch of
\* MakeRespondPacket (VaultController.cpp:75) is never taken.
THEOREM BufferNeverFull ==
  ASSUME ReadsApart
  PROVE  Spec => [](s.fault # "upBufferFull")
<1>1. Init => VaultInv /\ BooksInv
  BY VaultInvInit, BooksInit
<1>2. VaultInv /\ BooksInv /\ [Next]_vars => (VaultInv /\ BooksInv)'
  BY VaultInvNext, BooksInvNext
<1>3. BooksInv => s.fault # "upBufferFull"
  BY DEF BooksInv, Books
<1> QED BY <1>1, <1>2, <1>3, PTL DEF Spec
=============================================================================
