----------------------------- MODULE VaultProofs -----------------------------
(***************************************************************************)
(* Proofs about the vault.                                                 *)
(*                                                                         *)
(* VaultUpdate and DRAMUpdate are compositions of functions on the record  *)
(* of the vault's fields; each has a lemma that it keeps Good.  Good says  *)
(* where the last access of each request is (Labelled, Once): in the buffer of     *)
(* packets, in a command queue, on the command bus, on its way through the *)
(* DRAM, in the atomic unit, or back in the queue.  a is the sequence      *)
(* arrived, D the set of requests whose packet was not converted yet.      *)
(***************************************************************************)
EXTENDS Vault, QueueProofs

\* What upBuffers holds: whole responses, each with its number in front.
Responses ==
  {u \in Seq(Nat) :
     /\ u # <<>> => u[1] # 0
     /\ \A i \in DOMAIN u :
          u[i] # 0 => /\ u[i] \in 1 .. Len(arrived) /\ Resp(u[i]) \in Nat \ {0}
                      /\ i + Resp(u[i]) <= Len(u) + 1
                      /\ i + Resp(u[i]) <= Len(u) => u[i + Resp(u[i])] # 0}

\* VaultState without what depends on the timing.
VaultShape ==
  [downBuffers: Seq(Tag), upBuffers: Responses, bufPopDelay: {0, 1},
   refreshCountdown: Int, powerDown: BOOLEAN, poppedCMD: Command,
   atomicCMD: Command, atomicOperLeft: {0, 1}, pendingDataSize: Int,
   pendingReadData: [Tag -> 0 .. MaxPending], cmdBus: Command,
   cmdCyclesLeft: Nat, dataBus: Command, dataCyclesLeft: Nat,
   writeData: Seq(DRAMCommand \X Int), fault: Fault,
   queue: [Queues -> Seq(DRAMCommand)], popDelay: [Queues -> {0, 1}],
   issuedBank: Banks, refreshWaiting: BOOLEAN, atomicLock: [Banks -> Nat],
   tFAWCountdown: Seq(Int), rowAccessCounter: [Banks -> Nat],
   bank: [Banks -> BankState], readReturn: Seq(DRAMCommand \X Int),
   readData: Command, readCyclesLeft: Nat]

-----------------------------------------------------------------------------
(* The inductive invariant *)

\* A command of a request; one that reads for it; one that writes for it.
IsOf(a, c) ==
  /\ c \in DRAMCommand /\ c.tag \in 1 .. Len(a)
  /\ c.bank = a[c.tag].bank /\ c.row = a[c.tag].row
ReadsFor(a, c) ==
  IsOf(a, c) /\ a[c.tag].op # "WRITE" /\ (a[c.tag].op \in AtomicOp => c.last)
WritesFor(a, c) ==
  IsOf(a, c) /\ (a[c.tag].op = "WRITE" \/ (a[c.tag].op \in AtomicOp \ {"EQ"} /\ c.last))

\* What a queue holds, and what the buses and the DRAM do.
Waits(a, c) ==
  /\ IsOf(a, c) /\ c.type \in {"ACTIVATE"} \cup Reads \cup Writes
  /\ c.type \in Reads => ReadsFor(a, c)
  /\ c.type \in Writes => WritesFor(a, c)
Controls(c) == c \in DRAMCommand /\ c.tag = 0 /\ c.type \in {"PRECHARGE", "REFRESH"}
Returns(a, c) == ReadsFor(a, c) /\ c.type = "READ_DATA"
Stores(a, c) == WritesFor(a, c) /\ c.type = "WRITE_DATA"

Contents(a, v, D) ==
  /\ \A q \in Queues : \A i \in DOMAIN v.queue[q] :
       Waits(a, v.queue[q][i]) /\ Que(v.queue[q][i].bank) = q
  /\ v.cmdBus = NoCommand \/ Waits(a, v.cmdBus) \/ Controls(v.cmdBus)
  /\ \A i \in DOMAIN v.readReturn : Returns(a, v.readReturn[i][1])
  /\ v.readData = NoCommand \/ Returns(a, v.readData)
  /\ v.atomicCMD = NoCommand
     \/ (Returns(a, v.atomicCMD) /\ a[v.atomicCMD.tag].op \in AtomicOp)
  /\ \A i \in DOMAIN v.writeData : Stores(a, v.writeData[i][1])
  /\ v.dataBus = NoCommand \/ Stores(a, v.dataBus)
  /\ D \subseteq 1 .. Len(a)

\* Where the last access of a request may be; "back": its result waits to be written.
Place == {"packet", "queue", "bus", "return", "data", "atomic", "back", "write", "gone"}
Final(c) == IsAccess(c) /\ c.last

Label(a, c) ==
  IF c.type \in Writes /\ a[c.tag].op \in AtomicOp THEN "back" ELSE "queue"

\* at[n] is where the last access of request n is, if it is anywhere: this, for
\* accesses at the places P.
Labelled(a, v, D, at, P) ==
  /\ "packet" \in P => \A n \in D : at[n] = "packet"
  /\ \A q \in Queues : \A i \in DOMAIN v.queue[q] :
       LET c == v.queue[q][i]
       IN  Final(c) /\ Label(a, c) \in P => at[c.tag] = Label(a, c)
  /\ "bus" \in P /\ v.cmdBus.type \in Reads /\ v.cmdBus.last => at[v.cmdBus.tag] = "bus"
  /\ "return" \in P =>
       \A i \in DOMAIN v.readReturn :
         v.readReturn[i][1].last => at[v.readReturn[i][1].tag] = "return"
  /\ "data" \in P /\ v.readData.last => at[v.readData.tag] = "data"
  /\ "atomic" \in P /\ v.atomicCMD # NoCommand => at[v.atomicCMD.tag] = "atomic"
  /\ "write" \in P =>
       /\ \A i \in DOMAIN v.writeData :
            v.writeData[i][1].last => at[v.writeData[i][1].tag] = "write"
       /\ v.dataBus.last => at[v.dataBus.tag] = "write"

\* And it is there only once.
OnceQueued(q) ==
  \A i, j \in DOMAIN q : Final(q[i]) /\ Final(q[j]) /\ q[i].tag = q[j].tag => i = j
OnceTimed(q) ==
  \A i, j \in DOMAIN q : q[i][1].last /\ q[j][1].last /\ q[i][1].tag = q[j][1].tag => i = j
Once(v) ==
  /\ \A q \in Queues : OnceQueued(v.queue[q])
  /\ OnceTimed(v.readReturn) /\ OnceTimed(v.writeData)
  /\ v.dataBus.last =>
       \A i \in DOMAIN v.writeData :
         v.writeData[i][1].last => v.writeData[i][1].tag # v.dataBus.tag

\* From the moment its read is popped to the moment its write-back is, an atomic
\* request holds the lock of its bank (a queue for each bank),
Locks(a, v, at) ==
  QUE_PER_BANK =>
    \A n \in 1 .. Len(a) :
      a[n].op \in AtomicOp \ {"EQ"} /\ at[n] \in {"bus", "return", "data", "atomic", "back"}
        => v.atomicLock[a[n].bank] = n

\* and from the moment its read reaches the DRAM the command bus serves it alone.
Excludes(a, v, at) ==
  QUE_PER_BANK =>
    \A n \in 1 .. Len(a) :
      /\ a[n].op \in AtomicOp \ {"EQ"} /\ at[n] \in {"return", "data", "atomic", "back"}
      /\ IsAccess(v.cmdBus) /\ v.cmdBus.bank = a[n].bank
      => v.cmdBus.tag = n

Good(a, v, D, at) ==
  /\ v \in VaultShape /\ v.poppedCMD = NoCommand
  /\ at \in [1 .. Len(a) -> Place]
  /\ Contents(a, v, D) /\ Labelled(a, v, D, at, Place) /\ Once(v)
  /\ Locks(a, v, at) /\ Excludes(a, v, at)

\* What the requests are, and what holds of the vault between two calls.
Known == arrived \in Seq(Templates) /\ Len(arrived) <= MaxRequests
Sound(v) ==
  /\ IsInjective(v.downBuffers)
  /\ \E at \in [1 .. Len(arrived) -> Place] : Good(arrived, v, ToSet(v.downBuffers), at)

VaultInv == Known /\ Sound(s)
-----------------------------------------------------------------------------
(* Steps that only change fields of which the invariant does not speak *)

\* What the constants are.
LEMMA VaultSizes ==
  /\ NUM_BANKS \in Nat \ {0} /\ BL \in Nat \ {0} /\ MAX_CMD_QUE \in Nat \ {0}
  /\ MAX_VLT_BUF \in Nat \ {0} /\ MAX_ROW_ACCESSES \in Nat \ {0} /\ REFRESH_PERIOD \in Nat \ {0}
  /\ MaxRequests \in Nat /\ Refusals \in Nat
  /\ OPEN_PAGE \in BOOLEAN /\ QUE_PER_BANK \in BOOLEAN /\ USE_LOW_POWER \in BOOLEAN
  /\ Templates \subseteq Request
  /\ 0 \in Banks /\ Banks \subseteq Nat /\ Tag \subseteq Nat
  /\ Queues \subseteq Banks /\ \A b \in Banks : Que(b) \in Queues
  BY SMTT(30), DramConstants, QueueConstants, VaultConstants DEF Banks, Tag, Queues, Que

\* The timing parameters are natural numbers.
LEMMA Times ==
  /\ T.CWL \in Nat /\ T.CL \in Nat /\ T.AL \in Nat /\ T.tRAS \in Nat /\ T.tRCD \in Nat
  /\ T.tRRD \in Nat /\ T.tRC \in Nat /\ T.tRP \in Nat /\ T.tCCD \in Nat /\ T.tRTP \in Nat
  /\ T.tWTR \in Nat /\ T.tWR \in Nat /\ T.tRFC \in Nat /\ T.tFAW \in Nat /\ T.tCKE \in Nat
  /\ T.tXP \in Nat /\ T.tCMD \in Nat
  /\ RL \in Nat /\ WL \in Nat /\ READ_TO_PRE_DELAY \in Nat /\ WRITE_TO_PRE_DELAY \in Nat
  /\ READ_TO_WRITE_DELAY \in Int /\ READ_AUTOPRE_DELAY \in Nat
  /\ WRITE_AUTOPRE_DELAY \in Nat /\ WRITE_TO_READ_DELAY_B \in Nat
<1>1. /\ T.CWL \in Nat /\ T.CL \in Nat /\ T.AL \in Nat /\ T.tRAS \in Nat /\ T.tRCD \in Nat
      /\ T.tRRD \in Nat /\ T.tRC \in Nat /\ T.tRP \in Nat /\ T.tCCD \in Nat /\ T.tRTP \in Nat
      /\ T.tWTR \in Nat /\ T.tWR \in Nat /\ T.tRFC \in Nat /\ T.tFAW \in Nat /\ T.tCKE \in Nat
      /\ T.tXP \in Nat /\ T.tCMD \in Nat
  BY DramConstants
<1>2. BL \in Nat /\ BL \div 2 \in Nat
  BY DramConstants
<1> QED BY <1>1, <1>2 DEF RL, WL, READ_TO_PRE_DELAY, WRITE_TO_PRE_DELAY, READ_TO_WRITE_DELAY,
             READ_AUTOPRE_DELAY, WRITE_AUTOPRE_DELAY, WRITE_TO_READ_DELAY_B, Later

\* w differs from v only in fields that the invariant does not mention.
Same(v, w) ==
  /\ w \in VaultShape /\ w.poppedCMD = v.poppedCMD
  /\ w.queue = v.queue /\ w.atomicLock = v.atomicLock /\ w.cmdBus = v.cmdBus
  /\ w.readReturn = v.readReturn /\ w.readData = v.readData /\ w.atomicCMD = v.atomicCMD
  /\ w.writeData = v.writeData /\ w.dataBus = v.dataBus /\ w.downBuffers = v.downBuffers

\* And w does not differ in these.
Untouched(v, w) ==
  /\ w.bank = v.bank /\ w.upBuffers = v.upBuffers /\ w.pendingDataSize = v.pendingDataSize
  /\ w.fault = v.fault /\ w.atomicOperLeft = v.atomicOperLeft
  /\ w.readCyclesLeft = v.readCyclesLeft

\* A vault that differs in nothing else is as good.
LEMMA SameGood ==
  ASSUME NEW a, NEW v, NEW w, NEW D, NEW at, Good(a, v, D, at), Same(v, w)
  PROVE  Good(a, w, D, at)
<1>1. Contents(a, w, D)
  BY SMTT(30) DEF Good, Same, Contents
<1>2. Labelled(a, w, D, at, Place) /\ Once(w)
  BY DEF Good, Same, Labelled, Once
<1>3. Locks(a, w, at) /\ Excludes(a, w, at)
  BY DEF Good, Same, Locks, Excludes
<1> QED BY <1>1, <1>2, <1>3 DEF Good, Same

\* An ERROR branch only notes the fault.
LEMMA FailSame ==
  ASSUME NEW v \in VaultShape, NEW e \in Fault
  PROVE  Same(v, Fail(v, e))
  BY ZenonT(60) DEF Fail, Same, VaultShape

\* A response is put behind the others.
LEMMA RespondWhole ==
  ASSUME NEW u \in Responses, NEW n \in 1 .. Len(arrived), Resp(n) \in Nat \ {0}
  PROVE  u \o Flits(n) \in Responses
<1> DEFINE f == Flits(n)
           w == u \o f
           k == Resp(n)
<1>1. /\ f \in Seq(Nat) /\ Len(f) = k /\ f[1] = n /\ \A i \in 2 .. k : f[i] = 0
  <2> DEFINE z == [i \in 1 .. k - 1 |-> 0]
  <2>1. z \in Seq(Nat) /\ Len(z) = k - 1 /\ <<n>> \in Seq(Nat) /\ Len(<<n>>) = 1
    OBVIOUS
  <2>2. f = <<n>> \o z
    BY DEF Flits
  <2>3. \A i \in 1 .. k - 1 : z[i] = 0
    OBVIOUS
  <2> HIDE DEF z, f
  <2>4. \A i \in 2 .. k : f[i] = z[i - 1]
    BY <2>1, <2>2
  <2>5. \A i \in 2 .. k : i - 1 \in 1 .. k - 1
    BY <2>1
  <2> QED BY <2>1, <2>2, <2>3, <2>4, <2>5
<1>2. u \in Seq(Nat) /\ Len(u) \in Nat /\ DOMAIN u = 1 .. Len(u) /\ k \in Nat \ {0}
  BY DEF Responses
<1> HIDE DEF f, k
<1>3. /\ w \in Seq(Nat) /\ Len(w) = Len(u) + k /\ DOMAIN w = 1 .. Len(u) + k
      /\ \A i \in 1 .. Len(u) : w[i] = u[i] /\ w[Len(u) + 1] = n
      /\ \A i \in 2 .. k : w[Len(u) + i] = 0
  BY SMTT(30), <1>1, <1>2
<1> HIDE DEF w
<1>4. w[Len(u) + 1] = n
  BY <1>1, <1>2 DEF w
<1>5. w # <<>> => w[1] # 0
  <2>1. CASE u = <<>>
    BY <1>2, <1>4, <2>1
  <2>2. CASE u # <<>>
    BY <1>2, <1>3, <2>2 DEF Responses
  <2> QED BY <2>1, <2>2
<1>6. ASSUME NEW i \in DOMAIN w, w[i] # 0
      PROVE  /\ w[i] \in 1 .. Len(arrived) /\ Resp(w[i]) \in Nat \ {0}
             /\ i + Resp(w[i]) <= Len(w) + 1
             /\ i + Resp(w[i]) <= Len(w) => w[i + Resp(w[i])] # 0
  <2>1. CASE i \in DOMAIN u
    <3> DEFINE e == i + Resp(u[i])
    <3>1. /\ u[i] \in 1 .. Len(arrived) /\ Resp(u[i]) \in Nat \ {0} /\ e \in Nat
          /\ e <= Len(u) + 1 /\ (e <= Len(u) => u[e] # 0) /\ w[i] = u[i]
      <4>1. w[i] = u[i] /\ u[i] # 0 /\ i \in Nat
        BY <1>2, <1>3, <1>6, <2>1
      <4>2. /\ u[i] \in 1 .. Len(arrived) /\ Resp(u[i]) \in Nat \ {0}
            /\ e <= Len(u) + 1 /\ (e <= Len(u) => u[e] # 0)
        BY <2>1, <4>1 DEF Responses
      <4> QED BY <4>1, <4>2
    <3> HIDE DEF e
    <3>2. w[e] # 0
      <4>1. CASE e = Len(u) + 1
        BY <1>4, <4>1
      <4>2. CASE e # Len(u) + 1
        <5>1. e \in 1 .. Len(u)
          BY <1>2, <2>1, <3>1, <4>2 DEF e
        <5> QED BY SMTT(30), <1>3, <3>1, <5>1
      <4> QED BY <4>1, <4>2
    <3> QED BY <1>2, <1>3, <3>1, <3>2 DEF e
  <2>2. CASE i \notin DOMAIN u
    <3>1. i = Len(u) + 1
      <4>1. i - Len(u) \in 1 .. k /\ i = Len(u) + (i - Len(u))
        BY <1>2, <1>3, <2>2
      <4>2. i - Len(u) \notin 2 .. k
        BY <1>3, <1>6, <4>1
      <4> QED BY <1>2, <4>1, <4>2
    <3>2. w[i] = n
      BY <1>4, <3>1
    <3> QED BY <1>2, <1>3, <3>1, <3>2 DEF k
  <2> QED BY <2>1, <2>2
<1>7. w \in Responses
  BY <1>3, <1>5, <1>6 DEF Responses
<1> QED BY <1>7 DEF w, f

\* Other responses in upBuffers.
LEMMA ReplacedSame ==
  ASSUME NEW v \in VaultShape, NEW x \in Responses
  PROVE  Same(v, [v EXCEPT !.upBuffers = x])
  BY ZenonT(60) DEF Same, VaultShape

\* A response goes to upBuffers.
LEMMA RespondSame ==
  ASSUME NEW v \in VaultShape, NEW c, c.tag \in 1 .. Len(arrived), Resp(c.tag) \in Nat \ {0}
  PROVE  Same(v, MakeRespondPacket(v, c))
<1>1. v.upBuffers \in Responses
  BY DEF VaultShape
<1>2. v.upBuffers \o Flits(c.tag) \in Responses
  BY <1>1, RespondWhole
<1> DEFINE n == [v EXCEPT !.pendingDataSize = @ - Resp(c.tag)]
<1>3. n \in VaultShape /\ Same(v, n) /\ n.upBuffers = v.upBuffers
  <2>1. \A x \in Int : Same(v, [v EXCEPT !.pendingDataSize = x])
    BY ZenonT(60) DEF Same, VaultShape
  <2>2. v.pendingDataSize - Resp(c.tag) \in Int
    BY DEF VaultShape
  <2>3. Same(v, n)
    BY <2>1, <2>2
  <2>4. n.upBuffers = v.upBuffers
    BY DEF VaultShape
  <2> QED BY <2>3, <2>4 DEF Same
<1>4. Same(v, [n EXCEPT !.upBuffers = @ \o Flits(c.tag)])
  <2> HIDE DEF n
  <2>1. n.upBuffers \o Flits(c.tag) \in Responses
    BY <1>2, <1>3
  <2>2. Same(n, [n EXCEPT !.upBuffers = @ \o Flits(c.tag)])
    BY <1>3, <2>1, ReplacedSame
  <2> QED BY <1>3, <2>2 DEF Same
<1>5. Same(v, Fail(n, "upBufferFull"))
  <2> HIDE DEF n
  <2>1. Same(n, Fail(n, "upBufferFull"))
    BY <1>3, FailSame DEF Fault
  <2> QED BY <1>3, <2>1 DEF Same
<1> QED BY <1>4, <1>5 DEF MakeRespondPacket

\* The countdown to the next refresh.
LEMMA RefreshCycleSame ==
  ASSUME NEW v \in VaultShape
  PROVE  Same(v, RefreshCycle(v))
<1>1. \A x \in Int : Same(v, [v EXCEPT !.refreshCountdown = x])
  BY ZenonT(60) DEF Same, VaultShape
<1>2. \A x \in Int : Same(v, [v EXCEPT !.refreshWaiting = TRUE, !.refreshCountdown = x])
  BY ZenonT(60) DEF Same, VaultShape
<1>3. v.refreshCountdown - 1 \in Int /\ REFRESH_PERIOD \in Int
  BY VaultSizes DEF VaultShape
<1> QED BY <1>1, <1>2, <1>3 DEF RefreshCycle

\* The window of four activations.
LEMMA FAWCycleSame ==
  ASSUME NEW v \in VaultShape
  PROVE  Same(v, FAWCycle(v)) /\ Untouched(v, FAWCycle(v))
<1> DEFINE left == [i \in 1 .. Len(v.tFAWCountdown) |-> v.tFAWCountdown[i] - 1]
<1>1. left \in Seq(Int)
  BY SMTT(30) DEF VaultShape
<1>2. left # <<>> => Tail(left) \in Seq(Int)
  BY <1>1
<1> HIDE DEF left
<1>3. \A x \in Seq(Int) : LET w == [v EXCEPT !.tFAWCountdown = x]
                          IN  Same(v, w) /\ Untouched(v, w)
  BY ZenonT(60) DEF Same, VaultShape, Untouched
<1> DEFINE y == IF left # <<>> /\ left[1] = 0 THEN Tail(left) ELSE left
<1>4. y \in Seq(Int)
  BY <1>1, <1>2
<1>5. FAWCycle(v) = [v EXCEPT !.tFAWCountdown = y]
  BY DEF FAWCycle, left
<1> HIDE DEF y
<1> QED BY <1>3, <1>4, <1>5

\* The queues' pop delay.
LEMMA QueueCycleSame ==
  ASSUME NEW v \in VaultShape
  PROVE  Same(v, QueueCycle(v))
<1>1. [q \in Queues |-> Less1(v.popDelay[q])] \in [Queues -> {0, 1}]
  BY DEF VaultShape, Less1
<1> QED BY ZenonT(60), <1>1 DEF QueueCycle, Same, VaultShape

\* Entering and leaving power-down mode.
LEMMA PowerdownSame ==
  ASSUME NEW v \in VaultShape
  PROVE  Same(v, EnablePowerdown(v))
<1>1. [b \in Banks |-> [v.bank[b] EXCEPT !.state = "POWERDOWN", !.nextPowerUp = T.tCKE]]
        \in [Banks -> BankState]
  <2>1. \A k \in BankState : [k EXCEPT !.state = "POWERDOWN", !.nextPowerUp = T.tCKE] \in BankState
    BY Times DEF BankState
  <2> QED BY <2>1 DEF VaultShape
<1>2. [b \in Banks |-> [v.bank[b] EXCEPT !.lastCommand = "POWERDOWN_EXIT", !.state = "AWAKING",
                                         !.countdown = T.tXP, !.nextActivate = T.tXP]]
        \in [Banks -> BankState]
  <2>1. \A k \in BankState :
          [k EXCEPT !.lastCommand = "POWERDOWN_EXIT", !.state = "AWAKING",
                    !.countdown = T.tXP, !.nextActivate = T.tXP] \in BankState
    BY Times DEF BankState
  <2> QED BY <2>1 DEF VaultShape
<1>3. Same(v, EnterPowerDown(v))
  BY ZenonT(60), <1>1 DEF EnterPowerDown, Same, VaultShape
<1>4. Same(v, LeavePowerDown(v))
  BY ZenonT(60), <1>2 DEF LeavePowerDown, Same, VaultShape
<1>5. Same(v, v)
  BY DEF Same
<1> QED BY <1>3, <1>4, <1>5 DEF EnablePowerdown
-----------------------------------------------------------------------------
(* The command bus and the banks *)

\* A command leaves a bank with a state of a bank.
LEMMA CommandedShape ==
  ASSUME NEW c \in DRAMCommand, c.type # "READ_DATA", NEW b \in Banks, NEW k \in BankState
  PROVE  Commanded(c, b, k) \in BankState
<1>1. \A x \in Nat, y \in Int : Later(y, x) \in Nat
  BY DEF Later
<1>2. c.row \in Nat /\ c.type \in CommandType
  BY DEF DRAMCommand
<1>3. Activated(c, b, k) \in BankState
  <2>1. \A x \in Nat : /\ Later(T.tRC, x) \in Nat /\ Later(T.tRAS, x) \in Nat
                       /\ Later(T.tRCD - T.AL, x) \in Nat /\ Later(T.tRRD, x) \in Nat
    <3>1. T.tRC \in Int /\ T.tRAS \in Int /\ T.tRCD - T.AL \in Int /\ T.tRRD \in Int
      BY Times
    <3> QED BY <1>1, <3>1
  <2> QED BY <1>2, <2>1 DEF Activated, BankState, CommandType
<1>4. \A x \in Nat : /\ Later(Later(T.tCCD, BL), x) \in Nat
                     /\ Later(READ_TO_WRITE_DELAY, x) \in Nat
                     /\ Later(WRITE_TO_READ_DELAY_B, x) \in Nat
                     /\ Later(READ_TO_PRE_DELAY, x) \in Nat
                     /\ Later(WRITE_TO_PRE_DELAY, x) \in Nat
                     /\ Later(READ_AUTOPRE_DELAY, x) \in Nat
                     /\ Later(WRITE_AUTOPRE_DELAY, x) \in Nat
  BY <1>1, Times, VaultSizes DEF Later
<1>5. AfterRead(k) \in BankState /\ AfterWrite(k) \in BankState
  BY <1>4 DEF AfterRead, AfterWrite, BankState
<1>6. \A m \in BankState :
        /\ Accessed(m, "READ", READ_TO_PRE_DELAY) \in BankState
        /\ Accessed(m, "WRITE", WRITE_TO_PRE_DELAY) \in BankState
        /\ AutoPrecharged(m, "READ_P", READ_TO_PRE_DELAY, READ_AUTOPRE_DELAY) \in BankState
        /\ AutoPrecharged(m, "WRITE_P", WRITE_TO_PRE_DELAY, WRITE_AUTOPRE_DELAY) \in BankState
  <2> SUFFICES ASSUME NEW m \in BankState
               PROVE  /\ Accessed(m, "READ", READ_TO_PRE_DELAY) \in BankState
                      /\ Accessed(m, "WRITE", WRITE_TO_PRE_DELAY) \in BankState
                      /\ AutoPrecharged(m, "READ_P", READ_TO_PRE_DELAY, READ_AUTOPRE_DELAY)
                           \in BankState
                      /\ AutoPrecharged(m, "WRITE_P", WRITE_TO_PRE_DELAY, WRITE_AUTOPRE_DELAY)
                           \in BankState
    OBVIOUS
  <2>1. /\ Accessed(m, "READ", READ_TO_PRE_DELAY) \in BankState
        /\ Accessed(m, "WRITE", WRITE_TO_PRE_DELAY) \in BankState
    BY <1>4, Times DEF Accessed, BankState, CommandType, Reads, Writes
  <2>2. /\ AutoPrecharged(m, "READ_P", READ_TO_PRE_DELAY, READ_AUTOPRE_DELAY) \in BankState
        /\ AutoPrecharged(m, "WRITE_P", WRITE_TO_PRE_DELAY, WRITE_AUTOPRE_DELAY) \in BankState
    <3>1. m.nextActivate \in Nat
      BY DEF BankState
    <3>2. \A x, y \in Nat :
            [m EXCEPT !.nextActivate = x, !.nextRead = x, !.nextWrite = x,
                      !.lastCommand = "READ_P", !.countdown = y] \in BankState
      BY DEF BankState, CommandType, Reads, Writes
    <3>3. \A x, y \in Nat :
            [m EXCEPT !.nextActivate = x, !.nextRead = x, !.nextWrite = x,
                      !.lastCommand = "WRITE_P", !.countdown = y] \in BankState
      BY DEF BankState, CommandType, Reads, Writes
    <3> QED BY <1>4, <3>1, <3>2, <3>3, Times DEF AutoPrecharged
  <2> QED BY <2>1, <2>2
<1>7. IsAccess(c) => Column(c, b, k) \in BankState
  BY <1>5, <1>6 DEF Column, IsAccess, Reads, Writes
<1>8. Precharged(k) \in BankState /\ Refreshed(k) \in BankState
  <2>1. \A x \in Nat : Later(T.tRP, x) \in Nat
    <3>1. T.tRP \in Int
      BY Times
    <3> QED BY <1>1, <3>1
  <2> QED BY <2>1, Times DEF Precharged, Refreshed, BankState, CommandType
<1> QED BY <1>2, <1>3, <1>7, <1>8 DEF Commanded, CommandType, IsAccess

\* So does a cycle.
LEMMA BankCycleShape ==
  ASSUME NEW k \in BankState
  PROVE  BankCycle(k) \in BankState
<1>1. \A x \in Nat : Less1(x) \in Nat
  BY DEF Less1
<1>2. CountdownOver(k) \in BankState
  BY Times DEF CountdownOver, BankState, CommandType
<1>3. [k EXCEPT !.countdown = Less1(@)] \in BankState
  BY <1>1 DEF BankState
<1>4. \A m \in BankState :
        [m EXCEPT !.nextActivate = Less1(@), !.nextRead = Less1(@), !.nextWrite = Less1(@),
                  !.nextPrecharge = Less1(@), !.nextPowerUp = Less1(@)] \in BankState
  BY <1>1 DEF BankState
<1> QED BY <1>2, <1>3, <1>4 DEF BankCycle

\* What a command on the bus is.
LEMMA OnTheBus ==
  ASSUME NEW a, NEW v, NEW D, NEW at, Good(a, v, D, at), v.cmdBus # NoCommand
  PROVE  /\ v.cmdBus \in DRAMCommand
         /\ v.cmdBus.type \in {"ACTIVATE", "PRECHARGE", "REFRESH"} \cup Reads \cup Writes
         /\ v.cmdBus.type \in Reads => ReadsFor(a, v.cmdBus)
  BY DEF Good, Contents, Waits, IsOf, Controls, Reads

\* The requests of the commands.
LEMMA TagsOf ==
  ASSUME NEW a, NEW v, NEW D, NEW at, Good(a, v, D, at)
  PROVE  /\ \A n \in D : n \in 1 .. Len(a)
         /\ \A q \in Queues : \A i \in DOMAIN v.queue[q] : v.queue[q][i].tag \in 1 .. Len(a)
         /\ v.cmdBus.type \in Reads => v.cmdBus.tag \in 1 .. Len(a)
         /\ \A i \in DOMAIN v.readReturn : v.readReturn[i][1].tag \in 1 .. Len(a)
         /\ v.readData.last => v.readData.tag \in 1 .. Len(a)
         /\ v.atomicCMD # NoCommand => v.atomicCMD.tag \in 1 .. Len(a)
         /\ \A i \in DOMAIN v.writeData : v.writeData[i][1].tag \in 1 .. Len(a)
         /\ v.dataBus.last => v.dataBus.tag \in 1 .. Len(a)
<1>1. Contents(a, v, D)
  BY DEF Good
<1>2. ~NoCommand.last /\ NoCommand.type \notin Reads
  BY DEF NoCommand, NewCommand, Reads
<1>3. \A c : Waits(a, c) => c.tag \in 1 .. Len(a)
  BY DEF Waits, IsOf
<1>4. \A c : Returns(a, c) => c.tag \in 1 .. Len(a)
  BY DEF Returns, ReadsFor, IsOf
<1>5. \A c : Stores(a, c) => c.tag \in 1 .. Len(a)
  BY DEF Stores, WritesFor, IsOf
<1>6. \A c : Controls(c) => c.type \notin Reads
  BY DEF Controls, Reads
<1> QED BY <1>1, <1>2, <1>3, <1>4, <1>5, <1>6 DEF Contents

\* When one request moves on, the labels of all places but its old one still hold.
LEMMA MovesOn ==
  ASSUME NEW a, NEW v, NEW D, NEW at, Good(a, v, D, at), NEW m \in 1 .. Len(a), NEW p \in Place
  PROVE  /\ [at EXCEPT ![m] = p] \in [1 .. Len(a) -> Place]
         /\ Labelled(a, v, D, [at EXCEPT ![m] = p], Place \ {at[m]})
<1> DEFINE new == [at EXCEPT ![m] = p]
<1>1. at \in [1 .. Len(a) -> Place]
  BY DEF Good
<1>2. new \in [1 .. Len(a) -> Place] /\ \A n \in 1 .. Len(a) : at[n] # at[m] => new[n] = at[n]
  BY <1>1
<1> HIDE DEF new
<1>3. Labelled(a, v, D, at, Place)
  BY DEF Good
<1>4. Labelled(a, v, D, new, Place \ {at[m]})
  BY <1>2, <1>3, TagsOf DEF Labelled
<1> QED BY <1>2, <1>4 DEF new

\* The command bus: a read goes on to the DRAM, which will return its data.
LEMMA CommandBusGood ==
  ASSUME NEW a, NEW v, NEW D, NEW at, Good(a, v, D, at)
  PROVE  /\ \E new : Good(a, CommandBusCycle(v), D, new)
         /\ CommandBusCycle(v).downBuffers = v.downBuffers
<1> DEFINE c == v.cmdBus
           d == [c EXCEPT !.type = "READ_DATA"]
           w == [ReceiveCMD(v, c) EXCEPT !.cmdBus = NoCommand, !.cmdCyclesLeft = 0]
<1>0. v \in VaultShape
  BY DEF Good
<1>1. CASE c = NoCommand
  BY <1>1 DEF CommandBusCycle
<1>2. CASE c # NoCommand /\ v.cmdCyclesLeft > 1
  <2>1. Same(v, [v EXCEPT !.cmdCyclesLeft = @ - 1])
    <3>1. v.cmdCyclesLeft - 1 \in Nat
      BY <1>0, <1>2 DEF VaultShape
    <3>2. \A x \in Nat : Same(v, [v EXCEPT !.cmdCyclesLeft = x])
      BY ZenonT(60), <1>0 DEF Same, VaultShape
    <3> QED BY <3>1, <3>2
  <2> QED BY <1>2, <2>1, SameGood DEF CommandBusCycle, Same
<1>3. CASE c # NoCommand /\ ~(v.cmdCyclesLeft > 1)
  <2>1. /\ c \in DRAMCommand /\ c.type \in {"ACTIVATE", "PRECHARGE", "REFRESH"} \cup Reads \cup Writes
        /\ c.type \in Reads => ReadsFor(a, c)
    BY <1>3, OnTheBus
  <2>2. [b \in Banks |-> Commanded(c, b, v.bank[b])] \in [Banks -> BankState]
    <3>1. \A b \in Banks : v.bank[b] \in BankState
      BY <1>0 DEF VaultShape
    <3>2. c.type # "READ_DATA"
      BY <2>1 DEF Reads, Writes
    <3> QED BY <2>1, <3>1, <3>2, CommandedShape
  <2>3. /\ d \in DRAMCommand /\ d.type = "READ_DATA" /\ d.tag = c.tag /\ d.last = c.last
        /\ d.bank = c.bank /\ d.row = c.row
    BY <2>1 DEF DRAMCommand, CommandType
  <2> HIDE DEF d
  <2>4. Append(v.readReturn, <<d, RL>>) \in Seq(DRAMCommand \X Int)
    BY <1>0, <2>3, Times DEF VaultShape
  <2> DEFINE r == IF c.type \in Reads THEN Append(v.readReturn, <<d, RL>>) ELSE v.readReturn
             k == [b \in Banks |-> Commanded(c, b, v.bank[b])]
  <2>5. w = [v EXCEPT !.bank = k, !.readReturn = r, !.cmdBus = NoCommand, !.cmdCyclesLeft = 0]
    BY <1>0 DEF ReceiveCMD, VaultShape, d
  <2>6. r \in Seq(DRAMCommand \X Int) /\ k \in [Banks -> BankState]
    BY <1>0, <2>2, <2>4 DEF VaultShape
  <2>7. /\ w \in VaultShape /\ w.poppedCMD = v.poppedCMD /\ w.queue = v.queue
        /\ w.atomicLock = v.atomicLock /\ w.cmdBus = NoCommand /\ w.readReturn = r
        /\ w.readData = v.readData /\ w.atomicCMD = v.atomicCMD /\ w.writeData = v.writeData
        /\ w.dataBus = v.dataBus /\ w.downBuffers = v.downBuffers
    <3>1. NoCommand \in Command
      BY DEF Command
    <3> HIDE DEF r, k, w
    <3>2. w \in VaultShape
      BY ZenonT(60), <1>0, <2>5, <2>6, <3>1 DEF VaultShape
    <3> QED BY ZenonT(60), <1>0, <2>5, <3>2 DEF VaultShape
  <2> HIDE DEF w
  <2>8. /\ c.type \in Reads => c.tag \in 1 .. Len(a) /\ c.bank = a[c.tag].bank
        /\ c.type \in Reads /\ c.last => at[c.tag] = "bus"
        /\ at \in [1 .. Len(a) -> Place]
    BY <2>1 DEF ReadsFor, IsOf, Good, Labelled, Place
  <2>9. /\ Len(v.readReturn) \in Nat /\ DOMAIN v.readReturn = 1 .. Len(v.readReturn)
        /\ c.type \notin Reads => r = v.readReturn
        /\ c.type \in Reads =>
             /\ DOMAIN r = 1 .. Len(v.readReturn) + 1 /\ r[Len(v.readReturn) + 1] = <<d, RL>>
             /\ \A i \in DOMAIN v.readReturn : r[i] = v.readReturn[i]
    <3>1. v.readReturn \in Seq(DRAMCommand \X Int) /\ <<d, RL>> \in DRAMCommand \X Int
      BY <1>0, <2>3, Times DEF VaultShape
    <3> QED BY <3>1
  <2> HIDE DEF r
  <2>10. Contents(a, w, D)
    <3>1. \A i \in DOMAIN r : Returns(a, r[i][1])
      <4>1. c.type \in Reads => Returns(a, d)
        BY <2>1, <2>3 DEF Returns, ReadsFor, IsOf
      <4> QED BY SMTT(30), <2>9, <4>1 DEF Good, Contents
    <3> QED BY <2>7, <3>1 DEF Good, Contents
  <2>11. Once(w)
    <3>1. \A i \in DOMAIN v.readReturn :
            c.type \in Reads /\ c.last /\ v.readReturn[i][1].last => v.readReturn[i][1].tag # c.tag
      BY <2>8 DEF Good, Labelled, Place
    <3>2. OnceTimed(v.readReturn)
      BY DEF Good, Once
    <3>3. c.type \in Reads => OnceTimed(r)
      <4> SUFFICES ASSUME c.type \in Reads, NEW i \in DOMAIN r, NEW j \in DOMAIN r,
                          r[i][1].last, r[j][1].last, r[i][1].tag = r[j][1].tag
                   PROVE  i = j
        BY Zenon DEF OnceTimed
      <4> DEFINE last == Len(v.readReturn) + 1
      <4>1. \A n \in DOMAIN r : n # last => n \in DOMAIN v.readReturn /\ r[n] = v.readReturn[n]
        BY <2>9
      <4>2. r[last][1] = d
        BY <2>9
      <4>3. r[last][1].last = c.last /\ r[last][1].tag = c.tag
        BY <2>3, <4>2
      <4> HIDE DEF last
      <4>4. CASE i # last /\ j # last
        BY <3>2, <4>1, <4>4 DEF OnceTimed
      <4>5. CASE i = last /\ j # last
        BY <3>1, <4>1, <4>3, <4>5
      <4>6. CASE i # last /\ j = last
        BY <3>1, <4>1, <4>3, <4>6
      <4> QED BY <4>4, <4>5, <4>6
    <3>4. c.type \notin Reads => r = v.readReturn
      BY <2>9
    <3>5. OnceTimed(r)
      BY <3>2, <3>3, <3>4, Zenon
    <3> QED BY <2>7, <3>5 DEF Good, Once
  <2>12. ~w.cmdBus.last /\ ~IsAccess(w.cmdBus)
    BY <2>7 DEF IsAccess, Reads, Writes, NoCommand, NewCommand
  <2>13. CASE c.type \in Reads /\ c.last
    <3> DEFINE new == [at EXCEPT ![c.tag] = "return"]
    <3>1. new \in [1 .. Len(a) -> Place] /\ Labelled(a, v, D, new, Place \ {"bus"})
      <4>1. c.tag \in 1 .. Len(a) /\ at[c.tag] = "bus" /\ "return" \in Place
        BY <2>8, <2>13 DEF Place
      <4>2. new \in [1 .. Len(a) -> Place] /\ Labelled(a, v, D, new, Place \ {at[c.tag]})
        BY <4>1, MovesOn
      <4> QED BY <4>1, <4>2
    <3>2. new[c.tag] = "return" /\ \A n \in 1 .. Len(a) : n # c.tag => new[n] = at[n]
      BY <2>8, <2>13
    <3> HIDE DEF new
    <3>3. Labelled(a, w, D, new, Place)
      <4>1. \A i \in DOMAIN r : r[i][1].last => new[r[i][1].tag] = "return"
        BY SMTT(30), <2>3, <2>9, <2>13, <3>1, <3>2 DEF Labelled, Place
      <4>2. \A x : Label(a, x) \in Place \ {"bus"}
        BY DEF Label, Place
      <4>3. {"packet", "data", "atomic", "write"} \subseteq Place \ {"bus"}
        BY DEF Place
      <4> HIDE DEF w
      <4> QED BY <2>7, <2>12, <3>1, <4>1, <4>2, <4>3 DEF Labelled
    <3>4. Locks(a, w, new) /\ Excludes(a, w, new)
      BY <2>7, <2>8, <2>12, <2>13, <3>2 DEF Locks, Excludes, Good
    <3>5. Good(a, w, D, new)
      BY <2>7, <2>10, <2>11, <3>1, <3>3, <3>4 DEF Good
    <3> QED BY <1>3, <2>7, <3>5 DEF CommandBusCycle, w
  <2>14. CASE ~(c.type \in Reads /\ c.last)
    <3>1. Labelled(a, w, D, at, Place)
      <4>1. \A i \in DOMAIN r : r[i][1].last => at[r[i][1].tag] = "return"
        BY SMTT(30), <2>3, <2>9, <2>14 DEF Labelled, Place, Good
      <4> QED BY <2>7, <2>12, <4>1 DEF Labelled, Place, Good
    <3>2. Locks(a, w, at) /\ Excludes(a, w, at)
      BY <2>7, <2>12 DEF Locks, Excludes, Good
    <3>3. Good(a, w, D, at)
      BY <2>7, <2>8, <2>10, <2>11, <3>1, <3>2 DEF Good
    <3> QED BY <1>3, <2>7, <3>3 DEF CommandBusCycle, w
  <2> QED BY <2>13, <2>14
<1> QED BY <1>1, <1>2, <1>3
-----------------------------------------------------------------------------
(* The data bus *)

\* Responses have a length.
LEMMA RespNat ==
  ASSUME Known, NEW n \in 1 .. Len(arrived)
  PROVE  /\ Resp(n) \in Nat /\ n \in Tag /\ arrived[n] \in Request /\ Op(n) = arrived[n].op
         /\ Resp(n) <= arrived[n].size + 1 /\ (Op(n) \in AtomicOp => arrived[n].size = 1)
         /\ Op(n) # "P_ATOMIC" => Resp(n) # 0
<1>1. /\ arrived[n] \in Templates /\ arrived[n] \in Request /\ Len(arrived) \in Nat
      /\ n \in Tag
  BY VaultSizes DEF Known, Tag
<1>2. Op(n) \in {"READ", "WRITE"} \cup AtomicOp /\ arrived[n].size \in Nat \ {0}
  BY <1>1 DEF Op, Request
<1>3. Op(n) \in AtomicOp => arrived[n].size = 1
  BY <1>1, VaultConstants DEF Op
<1>4. Resp(n) \in Nat /\ Resp(n) <= arrived[n].size + 1 /\ (Op(n) # "P_ATOMIC" => Resp(n) # 0)
  BY <1>2, <1>3 DEF Resp, AtomicOp
<1> QED BY <1>1, <1>3, <1>4 DEF Op

\* A cycle does not reorder what waits for its time.
LEMMA SoonerLaws ==
  ASSUME NEW q \in Seq(DRAMCommand \X Int)
  PROVE  /\ Sooner(q) \in Seq(DRAMCommand \X Int) /\ DOMAIN Sooner(q) = DOMAIN q
         /\ DOMAIN q = 1 .. Len(q) /\ Len(q) \in Nat /\ Len(Sooner(q)) = Len(q)
         /\ \A i \in DOMAIN q : /\ Sooner(q)[i][1] = q[i][1] /\ Sooner(q)[i][2] = q[i][2] - 1
                                /\ q[i][1] \in DRAMCommand /\ q[i][2] \in Int
<1>1. \A i \in 1 .. Len(q) : q[i] \in DRAMCommand \X Int
  OBVIOUS
<1>2. \A i \in 1 .. Len(q) : <<q[i][1], q[i][2] - 1>> \in DRAMCommand \X Int
  BY <1>1
<1>3. Sooner(q) = [i \in 1 .. Len(q) |-> <<q[i][1], q[i][2] - 1>>]
  BY Zenon DEF Sooner
<1>4. \A i \in 1 .. Len(q) : Sooner(q)[i] = <<q[i][1], q[i][2] - 1>>
  BY Zenon, <1>3
<1>5. Sooner(q) \in Seq(DRAMCommand \X Int) /\ Len(Sooner(q)) = Len(q)
  <2>1. Len(q) \in Nat
    OBVIOUS
  <2> DEFINE e(i) == <<q[i][1], q[i][2] - 1>>
  <2>2. \A i \in 1 .. Len(q) : e(i) \in DRAMCommand \X Int
    BY <1>2
  <2>3. Sooner(q) = [i \in 1 .. Len(q) |-> e(i)]
    BY <1>3
  <2> HIDE DEF e
  <2> QED BY <2>1, <2>2, <2>3
<1> QED BY <1>1, <1>4, <1>5

\* Nor does it when the first entry is taken.
LEMMA TakenLaws ==
  ASSUME NEW q \in Seq(DRAMCommand \X Int), q # <<>>
  PROVE  /\ Sooner(Tail(q)) \in Seq(DRAMCommand \X Int)
         /\ DOMAIN Sooner(Tail(q)) = 1 .. Len(q) - 1 /\ Len(Sooner(Tail(q))) = Len(q) - 1
         /\ DOMAIN q = 1 .. Len(q) /\ Len(q) \in Nat \ {0} /\ q[1] \in DRAMCommand \X Int
         /\ \A i \in 1 .. Len(q) - 1 : /\ Sooner(Tail(q))[i][1] = q[i + 1][1]
                                       /\ Sooner(Tail(q))[i][2] = q[i + 1][2] - 1
<1>1. /\ Tail(q) \in Seq(DRAMCommand \X Int) /\ Len(Tail(q)) = Len(q) - 1
      /\ Len(q) \in Nat \ {0} /\ q[1] \in DRAMCommand \X Int
      /\ \A i \in 1 .. Len(q) - 1 : Tail(q)[i] = q[i + 1]
  BY HeadTailProperties
<1> DEFINE t == Tail(q)
<1>0. t = Tail(q)
  OBVIOUS
<1>2. t \in Seq(DRAMCommand \X Int) /\ Len(t) = Len(q) - 1
  BY <1>1
<1>3. \A i \in 1 .. Len(q) - 1 : t[i] = q[i + 1]
  BY <1>1
<1> HIDE DEF t
<1>4. /\ Sooner(t) \in Seq(DRAMCommand \X Int) /\ DOMAIN Sooner(t) = DOMAIN t
      /\ DOMAIN t = 1 .. Len(t) /\ Len(Sooner(t)) = Len(t)
      /\ \A i \in DOMAIN t : Sooner(t)[i][1] = t[i][1] /\ Sooner(t)[i][2] = t[i][2] - 1
  BY <1>2, SoonerLaws
<1>5. DOMAIN q = 1 .. Len(q)
  OBVIOUS
<1>6. /\ Sooner(t) \in Seq(DRAMCommand \X Int)
      /\ DOMAIN Sooner(t) = 1 .. Len(q) - 1 /\ Len(Sooner(t)) = Len(q) - 1
      /\ \A i \in 1 .. Len(q) - 1 : /\ Sooner(t)[i][1] = q[i + 1][1]
                                    /\ Sooner(t)[i][2] = q[i + 1][2] - 1
  <2>1. DOMAIN t = 1 .. Len(q) - 1 /\ Len(Sooner(t)) = Len(q) - 1
    BY <1>2, <1>4
  <2>2. \A i \in 1 .. Len(q) - 1 : Sooner(t)[i][1] = t[i][1] /\ Sooner(t)[i][2] = t[i][2] - 1
    BY <1>4, <2>1
  <2>3. \A i \in 1 .. Len(q) - 1 : t[i][1] = q[i + 1][1] /\ t[i][2] = q[i + 1][2]
    BY <1>3
  <2>4. \A i \in 1 .. Len(q) - 1 : /\ Sooner(t)[i][1] = q[i + 1][1]
                                   /\ Sooner(t)[i][2] = q[i + 1][2] - 1
    <3> SUFFICES ASSUME NEW i \in 1 .. Len(q) - 1
                 PROVE  Sooner(t)[i][1] = q[i + 1][1] /\ Sooner(t)[i][2] = q[i + 1][2] - 1
      OBVIOUS
    <3>1. Sooner(t)[i][1] = t[i][1] /\ Sooner(t)[i][2] = t[i][2] - 1
      BY <2>2
    <3>2. t[i][1] = q[i + 1][1] /\ t[i][2] = q[i + 1][2]
      BY <2>3
    <3> QED BY <3>1, <3>2, Zenon
  <2> QED BY <1>4, <2>1, <2>4, Zenon
<1> QED BY <1>0, <1>1, <1>5, <1>6

\* The data of a write has gone over the bus.
LEMMA DataBusGood ==
  ASSUME Known, NEW v, NEW D, NEW at, Good(arrived, v, D, at)
  PROVE  /\ Good(arrived, DataBusCycle(v), D, at)
         /\ DataBusCycle(v).downBuffers = v.downBuffers
<1> DEFINE c == v.dataBus
           n == IF c.last /\ ~Atomic(c) THEN MakeRespondPacket(v, c) ELSE v
<1>0. v \in VaultShape
  BY DEF Good
<1>1. CASE c = NoCommand
  BY <1>1 DEF DataBusCycle
<1>2. CASE c # NoCommand /\ v.dataCyclesLeft > 1
  <2>1. Same(v, [v EXCEPT !.dataCyclesLeft = @ - 1])
    <3>1. v.dataCyclesLeft - 1 \in Nat
      BY <1>0, <1>2 DEF VaultShape
    <3>2. \A x \in Nat : Same(v, [v EXCEPT !.dataCyclesLeft = x])
      BY ZenonT(60), <1>0 DEF Same, VaultShape
    <3> QED BY <3>1, <3>2
  <2> QED BY <1>2, <2>1, SameGood DEF DataBusCycle, Same
<1>3. CASE c # NoCommand /\ ~(v.dataCyclesLeft > 1)
  <2>1. Same(v, n)
    <3>1. c.last => c.tag \in 1 .. Len(arrived)
      BY TagsOf
    <3>2. c.last /\ ~Atomic(c) => Resp(c.tag) \in Nat \ {0}
      BY <3>1, RespNat DEF Atomic, AtomicOp
    <3>3. Same(v, v)
      BY <1>0 DEF Same
    <3> QED BY <1>0, <3>1, <3>2, <3>3, RespondSame
  <2>2. Good(arrived, n, D, at)
    BY <2>1, SameGood
  <2> HIDE DEF n
  <2> DEFINE w == [n EXCEPT !.dataBus = NoCommand, !.dataCyclesLeft = 0]
  <2>3. /\ w \in VaultShape /\ w.poppedCMD = n.poppedCMD /\ w.queue = n.queue
        /\ w.atomicLock = n.atomicLock /\ w.cmdBus = n.cmdBus /\ w.readReturn = n.readReturn
        /\ w.readData = n.readData /\ w.atomicCMD = n.atomicCMD /\ w.writeData = n.writeData
        /\ w.dataBus = NoCommand /\ w.downBuffers = n.downBuffers
    <3>1. NoCommand \in Command /\ n \in VaultShape
      BY <2>1 DEF Command, Same
    <3>2. w \in VaultShape
      BY ZenonT(60), <3>1 DEF VaultShape
    <3> QED BY ZenonT(60), <3>1, <3>2 DEF VaultShape
  <2> HIDE DEF w
  <2>4. ~NoCommand.last
    BY DEF NoCommand, NewCommand
  <2>5. Contents(arrived, w, D)
    BY <2>2, <2>3 DEF Good, Contents
  <2>6. Labelled(arrived, w, D, at, Place) /\ Once(w)
    BY <2>2, <2>3, <2>4 DEF Good, Labelled, Once
  <2>7. Good(arrived, w, D, at)
    BY <2>2, <2>3, <2>5, <2>6 DEF Good, Locks, Excludes
  <2> QED BY <1>3, <2>1, <2>3, <2>7 DEF DataBusCycle, w, n, Same
<1> QED BY <1>1, <1>2, <1>3

\* The data of a write goes on the bus.
LEMMA WriteDataGood ==
  ASSUME NEW a, NEW v, NEW D, NEW at, Good(a, v, D, at)
  PROVE  /\ Good(a, WriteDataCycle(v), D, at)
         /\ WriteDataCycle(v).downBuffers = v.downBuffers
<1> DEFINE q == v.writeData
<1>0. v \in VaultShape /\ q \in Seq(DRAMCommand \X Int)
  BY DEF Good, VaultShape
<1>1. CASE q = <<>>
  BY <1>1 DEF WriteDataCycle
<1>2. CASE q # <<>> /\ q[1][2] > 0
  <2> DEFINE w == [v EXCEPT !.writeData = Sooner(q)]
  <2>1. /\ w \in VaultShape /\ w.poppedCMD = v.poppedCMD /\ w.queue = v.queue
        /\ w.atomicLock = v.atomicLock /\ w.cmdBus = v.cmdBus /\ w.readReturn = v.readReturn
        /\ w.readData = v.readData /\ w.atomicCMD = v.atomicCMD /\ w.writeData = Sooner(q)
        /\ w.dataBus = v.dataBus /\ w.downBuffers = v.downBuffers
    BY ZenonT(60), <1>0, SoonerLaws DEF VaultShape
  <2> HIDE DEF w
  <2>2. /\ DOMAIN w.writeData = DOMAIN q
        /\ \A i \in DOMAIN q : w.writeData[i][1] = q[i][1]
    BY <1>0, <2>1, SoonerLaws
  <2>3. Contents(a, w, D)
    BY <2>1, <2>2 DEF Good, Contents
  <2>4. Labelled(a, w, D, at, Place)
    BY <2>1, <2>2 DEF Good, Labelled
  <2>5. Once(w)
    BY <2>1, <2>2 DEF Good, Once, OnceTimed
  <2>6. Good(a, w, D, at)
    BY <2>1, <2>3, <2>4, <2>5 DEF Good, Locks, Excludes
  <2>7. WriteDataCycle(v) = w
    BY <1>2 DEF WriteDataCycle, w
  <2> QED BY <2>1, <2>6, <2>7
<1>3. CASE q # <<>> /\ ~(q[1][2] > 0) /\ v.dataBus # NoCommand
  <2>1. Same(v, Fail(v, "dataBusCollision"))
    BY <1>0, FailSame DEF Fault
  <2> QED BY <1>3, <2>1, SameGood DEF WriteDataCycle, Same
<1>4. CASE q # <<>> /\ ~(q[1][2] > 0) /\ v.dataBus = NoCommand
  <2> DEFINE r == Sooner(Tail(q))
             w == [v EXCEPT !.dataBus = q[1][1], !.dataCyclesLeft = BL, !.writeData = r]
  <2>1. /\ r \in Seq(DRAMCommand \X Int) /\ q[1][1] \in DRAMCommand
        /\ DOMAIN q = 1 .. Len(q) /\ Len(q) \in Nat \ {0} /\ DOMAIN r = 1 .. Len(q) - 1
        /\ \A i \in 1 .. Len(q) - 1 : r[i][1] = q[i + 1][1]
    BY <1>0, <1>4, TakenLaws
  <2> HIDE DEF r
  <2>2. /\ w \in VaultShape /\ w.poppedCMD = v.poppedCMD /\ w.queue = v.queue
        /\ w.atomicLock = v.atomicLock /\ w.cmdBus = v.cmdBus /\ w.readReturn = v.readReturn
        /\ w.readData = v.readData /\ w.atomicCMD = v.atomicCMD /\ w.writeData = r
        /\ w.dataBus = q[1][1] /\ w.downBuffers = v.downBuffers
    <3>1. q[1][1] \in Command /\ BL \in Nat
      BY <2>1, VaultSizes DEF Command
    <3>2. w \in VaultShape
      BY ZenonT(60), <1>0, <2>1, <3>1 DEF VaultShape
    <3> QED BY ZenonT(60), <1>0, <3>2 DEF VaultShape
  <2> HIDE DEF w
  <2>3. /\ 1 \in DOMAIN q
        /\ \A i \in DOMAIN r : i + 1 \in DOMAIN q /\ i + 1 # 1 /\ r[i][1] = q[i + 1][1] /\ i \in Int
    BY SMTT(30), <2>1
  <2>4. Contents(a, w, D)
    <3>1. Stores(a, q[1][1]) /\ \A i \in DOMAIN r : Stores(a, r[i][1])
      BY SMTT(30), <2>1, <2>3 DEF Good, Contents
    <3> QED BY <2>2, <3>1 DEF Good, Contents
  <2>5. Labelled(a, w, D, at, Place)
    <3>1. /\ q[1][1].last => at[q[1][1].tag] = "write"
          /\ \A i \in DOMAIN r : r[i][1].last => at[r[i][1].tag] = "write"
      <4>1. \A i \in DOMAIN q : q[i][1].last => at[q[i][1].tag] = "write"
        BY DEF Good, Labelled, Place
      <4> QED BY <2>3, <4>1
    <3> QED BY <2>2, <3>1 DEF Good, Labelled
  <2>6. Once(w)
    <3>1. OnceTimed(q)
      BY DEF Good, Once
    <3>2. OnceTimed(r)
      <4> SUFFICES ASSUME NEW i \in DOMAIN r, NEW j \in DOMAIN r, r[i][1].last, r[j][1].last,
                          r[i][1].tag = r[j][1].tag
                   PROVE  i = j
        BY DEF OnceTimed
      <4>1. i + 1 = j + 1
        BY <2>3, <3>1 DEF OnceTimed
      <4> QED BY <2>3, <4>1
    <3>3. q[1][1].last => \A i \in DOMAIN r : r[i][1].last => r[i][1].tag # q[1][1].tag
      BY <2>3, <3>1 DEF OnceTimed
    <3> QED BY <2>2, <3>2, <3>3 DEF Good, Once
  <2>7. Good(a, w, D, at)
    BY <2>2, <2>4, <2>5, <2>6 DEF Good, Locks, Excludes
  <2>8. WriteDataCycle(v) = w
    BY <1>4 DEF WriteDataCycle, w, r
  <2> QED BY <2>2, <2>7, <2>8
<1> QED BY <1>1, <1>2, <1>3, <1>4
-----------------------------------------------------------------------------
(* Packets become commands *)

\* A note in pendingReadData.
LEMMA NoteSame ==
  ASSUME NEW v \in VaultShape, NEW n \in Tag, NEW k \in Nat
  PROVE  Same(v, NotePending(v, n, k))
<1>1. MaxPending \in Nat
  BY VaultConstants
<1>2. v.pendingReadData \in [Tag -> 0 .. MaxPending]
  BY DEF VaultShape
<1>3. v.pendingReadData[n] \in 0 .. MaxPending
  BY <1>2
<1> DEFINE x == IF v.pendingReadData[n] + k < MaxPending
                THEN v.pendingReadData[n] + k ELSE MaxPending
<1>4. x \in 0 .. MaxPending
  BY <1>1, <1>3
<1>5. [v.pendingReadData EXCEPT ![n] = x] \in [Tag -> 0 .. MaxPending]
  BY <1>2, <1>4
<1>6. NotePending(v, n, k) = IF Op(n) = "WRITE" THEN v
                             ELSE [v EXCEPT !.pendingReadData = [v.pendingReadData EXCEPT ![n] = x]]
  BY DEF NotePending
<1> HIDE DEF x
<1>7. \A f \in [Tag -> 0 .. MaxPending] : Same(v, [v EXCEPT !.pendingReadData = f])
  BY ZenonT(60) DEF Same, VaultShape
<1>8. Same(v, v)
  BY DEF Same
<1> QED BY <1>5, <1>6, <1>7, <1>8

\* The commands of a request: the last one, and it alone, is its final access.
LEMMA CommandsOfLaws ==
  ASSUME Known, NEW n \in 1 .. Len(arrived)
  PROVE  /\ CommandsOf(n) \in Seq(DRAMCommand) /\ DOMAIN CommandsOf(n) = 1 .. Len(CommandsOf(n))
         /\ Len(CommandsOf(n)) = Accesses(n) + 1 /\ Accesses(n) \in Nat \ {0}
         /\ \A i \in DOMAIN CommandsOf(n) :
              /\ Waits(arrived, CommandsOf(n)[i]) /\ CommandsOf(n)[i].tag = n
              /\ CommandsOf(n)[i].bank = arrived[n].bank
              /\ Final(CommandsOf(n)[i]) => i = Len(CommandsOf(n))
              /\ IsAccess(CommandsOf(n)[i]) =>
                   (CommandsOf(n)[i].type \in Writes <=> Op(n) = "WRITE")
<1> DEFINE r == arrived[n]
           k == Accesses(n)
           plain == IF r.op = "WRITE" THEN "WRITE" ELSE "READ"
           final == IF OPEN_PAGE \/ r.op \in AtomicOp THEN plain
                    ELSE IF r.op = "WRITE" THEN "WRITE_P" ELSE "READ_P"
           first == NewCommand("ACTIVATE", n, r.bank, r.row, TRUE)
           rest == [i \in 1 .. k |->
                      NewCommand(IF i < k THEN plain ELSE final, n, r.bank, r.row, i = k)]
<1>1. /\ r \in Request /\ n \in Nat /\ n # 0 /\ Op(n) = r.op
      /\ r.bank \in Banks /\ r.row \in Nat /\ r.size \in Nat \ {0}
      /\ r.op \in AtomicOp => r.size = 1
  BY RespNat, VaultSizes DEF Request
<1>2. k \in Nat \ {0} /\ (r.op \in AtomicOp => k = 1)
  <2>1. (r.size + 1) \div 2 \in Nat \ {0} /\ (r.size = 1 => (r.size + 1) \div 2 = 1)
    BY <1>1
  <2> QED BY <1>1, <2>1 DEF Accesses
<1>3. /\ plain \in {"READ", "WRITE"} /\ (plain = "WRITE" <=> r.op = "WRITE")
      /\ final \in Reads \cup Writes /\ (final \in Writes <=> r.op = "WRITE")
  BY DEF Reads, Writes
<1>4. /\ CommandsOf(n) = <<first>> \o rest
  BY DEF CommandsOf
<1> HIDE DEF plain, final, k
<1>5. /\ first \in DRAMCommand /\ first.type = "ACTIVATE" /\ first.tag = n
      /\ first.bank = r.bank /\ first.row = r.row
  BY <1>1 DEF NewCommand, DRAMCommand, CommandType
<1>6. \A i \in 1 .. k :
        /\ rest[i] \in DRAMCommand /\ rest[i].type = IF i < k THEN plain ELSE final
        /\ rest[i].tag = n /\ rest[i].bank = r.bank /\ rest[i].row = r.row
        /\ rest[i].last = (i = k)
  BY <1>1, <1>3 DEF NewCommand, DRAMCommand, CommandType, Reads, Writes
<1>7. rest \in Seq(DRAMCommand) /\ Len(rest) = k
  BY <1>2, <1>6
<1> HIDE DEF first, rest, r
<1> DEFINE cs == CommandsOf(n)
<1>8. /\ cs \in Seq(DRAMCommand) /\ Len(cs) = k + 1 /\ DOMAIN cs = 1 .. k + 1
      /\ cs[1] = first /\ \A i \in 1 .. k : cs[i + 1] = rest[i]
  BY <1>2, <1>4, <1>5, <1>7
<1> HIDE DEF cs
<1>9. \A i \in DOMAIN cs : i = 1 \/ \E j \in 1 .. k : i = j + 1 /\ cs[i] = rest[j]
  <2> SUFFICES ASSUME NEW i \in DOMAIN cs, i # 1 PROVE \E j \in 1 .. k : i = j + 1 /\ cs[i] = rest[j]
    OBVIOUS
  <2>1. i - 1 \in 1 .. k /\ i = (i - 1) + 1
    BY <1>2, <1>8
  <2> QED BY <1>8, <2>1
<1>10. Waits(arrived, first) /\ ~IsAccess(first)
  BY <1>1, <1>5 DEF Waits, IsOf, IsAccess, Reads, Writes, r
<1>11. \A j \in 1 .. k :
         /\ Waits(arrived, rest[j]) /\ IsAccess(rest[j])
         /\ rest[j].type \in Writes <=> r.op = "WRITE"
         /\ rest[j].last => j = k
  <2> SUFFICES ASSUME NEW j \in 1 .. k
               PROVE  /\ Waits(arrived, rest[j]) /\ IsAccess(rest[j])
                      /\ rest[j].type \in Writes <=> r.op = "WRITE"
                      /\ rest[j].last => j = k
    OBVIOUS
  <2>1. /\ rest[j].type \in Reads \cup Writes
        /\ rest[j].type \in Writes <=> r.op = "WRITE"
    BY <1>3, <1>6 DEF Reads, Writes
  <2>2. r.op \in AtomicOp => rest[j].last
    <3>1. r.op \in AtomicOp => j = k
      BY <1>2
    <3> QED BY <1>6, <3>1
  <2>3. IsOf(arrived, rest[j])
    BY <1>1, <1>6 DEF IsOf, r
  <2>4. rest[j].type \in Reads <=> rest[j].type \notin Writes
    BY <2>1 DEF Reads, Writes
  <2>5. rest[j].tag = n
    BY <1>6
  <2>6. ReadsFor(arrived, rest[j]) \/ rest[j].type \in Writes
    BY <2>1, <2>2, <2>3, <2>4, <2>5 DEF ReadsFor, r
  <2>7. WritesFor(arrived, rest[j]) \/ rest[j].type \in Reads
    BY <2>1, <2>3, <2>4, <2>5 DEF WritesFor, r
  <2> QED BY <1>6, <2>1, <2>3, <2>4, <2>6, <2>7 DEF Waits, IsAccess
<1>12. \A i \in DOMAIN cs :
         /\ Waits(arrived, cs[i]) /\ cs[i].tag = n /\ cs[i].bank = r.bank
         /\ Final(cs[i]) => i = k + 1
         /\ IsAccess(cs[i]) => (cs[i].type \in Writes <=> r.op = "WRITE")
  BY <1>5, <1>6, <1>8, <1>9, <1>10, <1>11 DEF Final
<1> QED BY <1>1, <1>2, <1>8, <1>12 DEF cs, r, k
\* The commands of a request enter the queue of its bank.
LEMMA EnqueueGood ==
  ASSUME Known, NEW v, NEW D, NEW at, Good(arrived, v, D, at), NEW n \in D
  PROVE  /\ \E new : Good(arrived, Enqueue(v, arrived[n].bank, CommandsOf(n)), D \ {n}, new)
         /\ Enqueue(v, arrived[n].bank, CommandsOf(n)).downBuffers = v.downBuffers
<1> DEFINE b == arrived[n].bank
           k == Que(b)
           cs == CommandsOf(n)
           old == v.queue[k]
           w == Enqueue(v, b, cs)
           new == [at EXCEPT ![n] = "queue"]
<1>1. v \in VaultShape /\ n \in 1 .. Len(arrived) /\ at \in [1 .. Len(arrived) -> Place]
  BY TagsOf DEF Good
<1>2. b \in Banks /\ k \in Queues /\ at[n] = "packet" /\ old \in Seq(DRAMCommand)
  <2>1. at[n] = "packet"
    BY DEF Good, Labelled, Place
  <2> QED BY <1>1, <2>1, RespNat, VaultSizes DEF Request, VaultShape
<1>3. /\ cs \in Seq(DRAMCommand) /\ DOMAIN cs = 1 .. Len(cs) /\ Len(cs) \in Nat
      /\ \A i \in DOMAIN cs :
           /\ Waits(arrived, cs[i]) /\ cs[i].tag = n /\ cs[i].bank = b
           /\ Final(cs[i]) => i = Len(cs)
           /\ IsAccess(cs[i]) => (cs[i].type \in Writes <=> Op(n) = "WRITE")
  BY <1>1, CommandsOfLaws
<1> HIDE DEF cs
<1> DEFINE q == old \o cs
<1>4. /\ q \in Seq(DRAMCommand) /\ DOMAIN q = 1 .. Len(old) + Len(cs) /\ Len(old) \in Nat
      /\ DOMAIN old = 1 .. Len(old)
      /\ \A i \in DOMAIN old : q[i] = old[i] /\ i \in DOMAIN q
      /\ \A i \in DOMAIN q : i \notin DOMAIN old => i - Len(old) \in DOMAIN cs /\ q[i] = cs[i - Len(old)]
  BY SMTT(30), <1>2, <1>3
<1>5. /\ w \in VaultShape /\ w.poppedCMD = v.poppedCMD /\ w.queue = [v.queue EXCEPT ![k] = q]
      /\ w.atomicLock = v.atomicLock /\ w.cmdBus = v.cmdBus /\ w.readReturn = v.readReturn
      /\ w.readData = v.readData /\ w.atomicCMD = v.atomicCMD /\ w.writeData = v.writeData
      /\ w.dataBus = v.dataBus /\ w.downBuffers = v.downBuffers
  <2>1. v.queue \in [Queues -> Seq(DRAMCommand)] /\ v.popDelay \in [Queues -> {0, 1}]
    BY <1>1 DEF VaultShape
  <2>2. [v.queue EXCEPT ![k] = q] \in [Queues -> Seq(DRAMCommand)]
    BY <1>4, <2>1
  <2> DEFINE f == [v.popDelay EXCEPT ![k] = IF old = <<>> THEN Later(v.popDelay[k], 1) ELSE v.popDelay[k]]
  <2>3. f \in [Queues -> {0, 1}]
    BY <1>2, <2>1 DEF Later
  <2>4. w = [v EXCEPT !.queue = [v.queue EXCEPT ![k] = q], !.popDelay = f]
    BY DEF Enqueue, Queue
  <2> DEFINE x == [v.queue EXCEPT ![k] = q]
  <2> HIDE DEF w, f, q, x
  <2>5. w \in VaultShape
    BY ZenonT(60), <1>1, <2>2, <2>3, <2>4 DEF VaultShape, x
  <2>6. /\ w.poppedCMD = v.poppedCMD /\ w.queue = x
        /\ w.atomicLock = v.atomicLock /\ w.cmdBus = v.cmdBus /\ w.readReturn = v.readReturn
        /\ w.readData = v.readData /\ w.atomicCMD = v.atomicCMD /\ w.writeData = v.writeData
        /\ w.dataBus = v.dataBus /\ w.downBuffers = v.downBuffers
    BY <1>1, <2>4 DEF VaultShape, x
  <2> QED BY <2>5, <2>6 DEF x
<1>6. new \in [1 .. Len(arrived) -> Place] /\ Labelled(arrived, v, D, new, Place \ {"packet"})
  <2>1. "queue" \in Place
    BY DEF Place
  <2>2. new \in [1 .. Len(arrived) -> Place] /\ Labelled(arrived, v, D, new, Place \ {at[n]})
    BY <1>1, <2>1, MovesOn
  <2> QED BY <1>2, <2>2
<1>7. new[n] = "queue" /\ \A m \in 1 .. Len(arrived) : m # n => new[m] = at[m]
  BY <1>1
<1>8. /\ w.queue[k] = q /\ \A l \in Queues : l # k => w.queue[l] = v.queue[l]
      /\ old = v.queue[k]
  BY <1>1, <1>2, <1>5 DEF VaultShape
<1> HIDE DEF w, q, old, new
<1>9. Contents(arrived, w, D \ {n})
  <2>1. \A l \in Queues : \A i \in DOMAIN v.queue[l] :
          Waits(arrived, v.queue[l][i]) /\ Que(v.queue[l][i].bank) = l
    BY DEF Good, Contents
  <2>2. \A i \in DOMAIN q : Waits(arrived, q[i]) /\ Que(q[i].bank) = k
    BY <1>2, <1>3, <1>4, <1>8, <2>1
  <2>3. \A l \in Queues : \A i \in DOMAIN w.queue[l] :
          Waits(arrived, w.queue[l][i]) /\ Que(w.queue[l][i].bank) = l
    BY <1>8, <2>1, <2>2
  <2> QED BY <1>5, <2>3 DEF Good, Contents
<1>10. \A x : Label(arrived, x) \in Place \ {"packet"}
  BY DEF Label, Place
<1>11. \A i \in DOMAIN cs : Final(cs[i]) => Label(arrived, cs[i]) = "queue"
  <2>1. arrived[n].op = Op(n)
    BY SMTT(30) DEF Op
  <2> QED BY <1>3, <2>1 DEF Final, Label, AtomicOp
<1>12. Labelled(arrived, w, D \ {n}, new, Place)
  <2>1. \A l \in Queues : \A i \in DOMAIN v.queue[l] :
          Final(v.queue[l][i]) => new[v.queue[l][i].tag] = Label(arrived, v.queue[l][i])
    BY <1>6, <1>10 DEF Labelled
  <2>2. \A i \in DOMAIN q : Final(q[i]) => new[q[i].tag] = Label(arrived, q[i])
    <3> SUFFICES ASSUME NEW i \in DOMAIN q, Final(q[i]) PROVE new[q[i].tag] = Label(arrived, q[i])
      OBVIOUS
    <3>1. CASE i \in DOMAIN old
      BY <1>2, <1>4, <1>8, <2>1, <3>1
    <3>2. CASE i \notin DOMAIN old
      BY <1>3, <1>4, <1>7, <1>11, <3>2
    <3> QED BY <3>1, <3>2
  <2>3. \A l \in Queues : \A i \in DOMAIN w.queue[l] :
          Final(w.queue[l][i]) => new[w.queue[l][i].tag] = Label(arrived, w.queue[l][i])
    BY <1>8, <2>1, <2>2
  <2>4. \A m \in D \ {n} : new[m] = "packet"
    BY <1>7, TagsOf DEF Good, Labelled, Place
  <2>5. {"bus", "return", "data", "atomic", "write"} \subseteq Place \ {"packet"}
    BY DEF Place
  <2> QED BY <1>5, <1>6, <2>3, <2>4, <2>5 DEF Labelled
<1>13. Once(w)
  <2>1. \A i \in DOMAIN old : Final(old[i]) => old[i].tag # n
    <3>1. \A i \in DOMAIN old : Final(old[i]) => at[old[i].tag] = Label(arrived, old[i])
      BY <1>2, <1>8, <1>10 DEF Good, Labelled
    <3> QED BY SMTT(30), <1>2, <1>10, <3>1
  <2>2. OnceQueued(old)
    BY <1>2, <1>8 DEF Good, Once
  <2>3. OnceQueued(q)
    <3> SUFFICES ASSUME NEW i \in DOMAIN q, NEW j \in DOMAIN q, Final(q[i]), Final(q[j]),
                        q[i].tag = q[j].tag
                 PROVE  i = j
      BY DEF OnceQueued
    <3>1. CASE i \in DOMAIN old /\ j \in DOMAIN old
      BY <1>4, <2>2, <3>1 DEF OnceQueued
    <3>2. CASE i \notin DOMAIN old /\ j \notin DOMAIN old
      <4>1. i - Len(old) = Len(cs) /\ j - Len(old) = Len(cs)
        BY <1>3, <1>4, <3>2
      <4> QED BY <1>4, <4>1
    <3>3. (i \in DOMAIN old) = (j \in DOMAIN old)
      BY <1>3, <1>4, <2>1
    <3> QED BY <3>1, <3>2, <3>3
  <2> QED BY <1>5, <1>8, <2>3 DEF Good, Once
<1>14. Locks(arrived, w, new) /\ Excludes(arrived, w, new)
  BY <1>5, <1>7 DEF Good, Locks, Excludes
<1>15. Good(arrived, w, D \ {n}, new)
  BY <1>5, <1>6, <1>9, <1>12, <1>13, <1>14 DEF Good
<1> QED BY <1>5, <1>15 DEF w, cs
\* Before round i of the loop over the packets d: a request is either kept or
\* still to be looked at, or converted.
Ahead(d, i) == {d[j] : j \in i + 1 .. Len(d)}
Half(d, i) ==
  {x \in [v : VaultShape, kept : Seq(Tag), skip : BOOLEAN] :
     /\ x.v.downBuffers = d /\ IsInjective(x.kept) /\ ToSet(x.kept) \cap Ahead(d, i) = {}
     /\ \E at \in [1 .. Len(arrived) -> Place] :
          Good(arrived, x.v, ToSet(x.kept) \cup Ahead(d, i), at)}

\* One round of it.
LEMMA ConvertRound ==
  ASSUME Known, NEW d \in Seq(Tag), IsInjective(d), NEW i \in 0 .. Len(d) - 1, NEW x \in Half(d, i)
  PROVE  ConvPacketIntoCMDs(x, d[i + 1]) \in Half(d, i + 1)
<1> DEFINE n == d[i + 1]
           D == ToSet(x.kept) \cup Ahead(d, i)
           E == ToSet(x.kept) \cup Ahead(d, i + 1)
           F == ToSet(Append(x.kept, n)) \cup Ahead(d, i + 1)
           y == NotePending(x.v, n, 1)
           z == NotePending(y, n, Accesses(n))
           u == Enqueue(z, arrived[n].bank, CommandsOf(n))
<1>1. /\ x.v \in VaultShape /\ x.kept \in Seq(Tag) /\ x.skip \in BOOLEAN /\ x.v.downBuffers = d
      /\ IsInjective(x.kept) /\ ToSet(x.kept) \cap Ahead(d, i) = {}
      /\ x \in [v : VaultShape, kept : Seq(Tag), skip : BOOLEAN]
  BY DEF Half
<1>2. PICK at : Good(arrived, x.v, D, at)
  BY DEF Half
<1>3. /\ n \in Tag /\ Len(d) \in Nat /\ DOMAIN d = 1 .. Len(d) /\ i + 1 \in DOMAIN d
      /\ Ahead(d, i) = Ahead(d, i + 1) \cup {n} /\ n \notin Ahead(d, i + 1)
  <2>1. Len(d) \in Nat /\ DOMAIN d = 1 .. Len(d) /\ i + 1 \in DOMAIN d /\ n \in Tag
    OBVIOUS
  <2>2. i + 1 .. Len(d) = (i + 1) + 1 .. Len(d) \cup {i + 1}
    BY <2>1
  <2>3. Ahead(d, i) = Ahead(d, i + 1) \cup {n}
    BY <2>2 DEF Ahead
  <2>4. \A j \in (i + 1) + 1 .. Len(d) : j \in DOMAIN d /\ j # i + 1
    BY <2>1
  <2>5. n \notin Ahead(d, i + 1)
    BY <2>1, <2>4 DEF Ahead, IsInjective
  <2> QED BY <2>1, <2>3, <2>5
<1>4. n \in D /\ n \in 1 .. Len(arrived) /\ Accesses(n) \in Nat
  <2>1. n \in D
    BY <1>3
  <2> QED BY <1>2, <2>1, TagsOf, CommandsOfLaws
<1>5. /\ Append(x.kept, n) \in Seq(Tag) /\ IsInjective(Append(x.kept, n))
      /\ ToSet(Append(x.kept, n)) = ToSet(x.kept) \cup {n}
      /\ ToSet(Append(x.kept, n)) \cap Ahead(d, i + 1) = {}
      /\ F = D /\ E = D \ {n} /\ ToSet(x.kept) \cap Ahead(d, i + 1) = {}
  BY <1>1, <1>3, AppendOnce
<1>6. Same(x.v, y) /\ Same(y, z)
  <2>1. Same(x.v, y)
    BY <1>1, <1>3, NoteSame
  <2>2. y \in VaultShape
    BY <2>1 DEF Same
  <2>3. Same(y, z)
    BY <1>3, <1>4, <2>2, NoteSame
  <2> QED BY <2>1, <2>3
<1> HIDE DEF n, D, E, F, y, z, u
<1>7. Good(arrived, y, D, at) /\ Good(arrived, z, D, at) /\ y.downBuffers = d /\ z.downBuffers = d
  <2>1. Good(arrived, y, D, at)
    BY <1>2, <1>6, SameGood
  <2> QED BY <1>1, <1>6, <2>1, SameGood DEF Same
<1>8. (\E new : Good(arrived, u, D \ {n}, new)) /\ u.downBuffers = d
  BY <1>4, <1>7, EnqueueGood DEF u
<1>9. /\ \A w, g : Good(arrived, w, D, g) => w \in VaultShape /\ g \in [1 .. Len(arrived) -> Place]
      /\ \A w, g : Good(arrived, w, D \ {n}, g) => w \in VaultShape /\ g \in [1 .. Len(arrived) -> Place]
  BY DEF Good
<1>10. /\ [x EXCEPT !.kept = Append(@, n), !.skip = FALSE] \in Half(d, i + 1)
       /\ [x EXCEPT !.v = y, !.kept = Append(@, n)] \in Half(d, i + 1)
  <2> DEFINE k == Append(x.kept, n)
  <2> HIDE DEF k
  <2>1. k \in Seq(Tag) /\ IsInjective(k) /\ ToSet(k) \cap Ahead(d, i + 1) = {}
        /\ ToSet(k) \cup Ahead(d, i + 1) = D
    BY <1>5 DEF k, F
  <2>2. [x EXCEPT !.kept = k, !.skip = FALSE] \in Half(d, i + 1)
    BY <1>1, <1>2, <1>9, <2>1 DEF Half
  <2>3. [x EXCEPT !.v = y, !.kept = k] \in Half(d, i + 1)
    BY <1>1, <1>7, <1>9, <2>1 DEF Half
  <2> QED BY <2>2, <2>3 DEF k
<1>11. [x EXCEPT !.v = u, !.skip = TRUE] \in Half(d, i + 1)
  <2>1. ToSet(x.kept) \cup Ahead(d, i + 1) = D \ {n}
    BY <1>5 DEF E
  <2> QED BY <1>1, <1>5, <1>8, <1>9, <2>1 DEF Half
<1> QED BY <1>10, <1>11 DEF ConvPacketIntoCMDs, n, y, z, u

\* Good is decided by where the commands are and by the locks.
LEMMA FieldsDecide ==
  ASSUME NEW a, NEW v, NEW D, NEW at, Good(a, v, D, at), NEW w \in VaultShape,
         w.queue = v.queue, w.atomicLock = v.atomicLock, w.cmdBus = v.cmdBus,
         w.readReturn = v.readReturn, w.readData = v.readData, w.atomicCMD = v.atomicCMD,
         w.writeData = v.writeData, w.dataBus = v.dataBus, w.poppedCMD = v.poppedCMD
  PROVE  Good(a, w, D, at)
<1>1. Contents(a, w, D)
  BY DEF Good, Contents
<1>2. Labelled(a, w, D, at, Place)
  BY DEF Good, Labelled
<1>3. Once(w)
  BY DEF Good, Once
<1>4. Locks(a, w, at) /\ Excludes(a, w, at)
  BY DEF Good, Locks, Excludes
<1> QED BY <1>1, <1>2, <1>3, <1>4 DEF Good

ConvertLoop == INSTANCE LoopProofs WITH Body <- LAMBDA d, x, i : ConvPacketIntoCMDs(x, d[i + 1])

\* ConvertPackets keeps the invariant.
LEMMA ConvertGood ==
  ASSUME Known, NEW v, NEW at, Good(arrived, v, ToSet(v.downBuffers), at), IsInjective(v.downBuffers)
  PROVE  /\ \E new : Good(arrived, ConvertPackets(v), ToSet(ConvertPackets(v).downBuffers), new)
         /\ IsInjective(ConvertPackets(v).downBuffers)
<1> DEFINE d == v.downBuffers
           start == [v |-> v, kept |-> <<>>, skip |-> FALSE]
           done == ConvertLoop!After(d, start, Len(d))
           w == [done.v EXCEPT !.downBuffers = done.kept]
           A == [i \in 0 .. Len(d) |-> Half(d, i)]
<1>1. v \in VaultShape /\ d \in Seq(Tag) /\ Len(d) \in Nat /\ at \in [1 .. Len(arrived) -> Place]
  BY SMTT(30) DEF Good, VaultShape
<1>2. start \in A[0]
  <2>1. ToSet(<<>>) = {} /\ IsInjective(<<>>) /\ <<>> \in Seq(Tag)
    BY DEF ToSet, IsInjective
  <2>2. Ahead(d, 0) = ToSet(d)
    <3>1. DOMAIN d = 0 + 1 .. Len(d)
      BY <1>1
    <3> QED BY <3>1 DEF Ahead, ToSet
  <2>3. start \in [v : VaultShape, kept : Seq(Tag), skip : BOOLEAN]
    BY <1>1, <2>1
  <2>4. ToSet(start.kept) \cup Ahead(d, 0) = ToSet(d)
    BY <2>1, <2>2
  <2>5. start \in Half(d, 0)
    BY <1>1, <2>1, <2>2, <2>3, <2>4 DEF Half
  <2> QED BY <1>1, <2>5
<1>3. \A i \in 0 .. Len(d) - 1 : \A x \in A[i] : ConvPacketIntoCMDs(x, d[i + 1]) \in A[i + 1]
  <2> SUFFICES ASSUME NEW i \in 0 .. Len(d) - 1, NEW x \in A[i]
               PROVE  ConvPacketIntoCMDs(x, d[i + 1]) \in A[i + 1]
    OBVIOUS
  <2>1. x \in Half(d, i) /\ A[i + 1] = Half(d, i + 1)
    BY <1>1
  <2>2. ConvPacketIntoCMDs(x, d[i + 1]) \in Half(d, i + 1)
    BY <1>1, <2>1, ConvertRound
  <2> QED BY <2>1, <2>2
<1>4. done \in A[Len(d)]
  <2> HIDE DEF A, start, d
  <2> QED BY <1>1, <1>2, <1>3, ConvertLoop!LoopRule
<1>5. done \in Half(d, Len(d))
  BY <1>1, <1>4
<1>6. ConvertPackets(v) = IF v.bufPopDelay # 0 THEN v ELSE w
  BY DEF ConvertPackets, ConvertLoop!After, ConvertLoop!Repeat, Repeat
<1> HIDE DEF done, A, start
<1>7. Ahead(d, Len(d)) = {}
  BY <1>1 DEF Ahead
<1>8. PICK new \in [1 .. Len(arrived) -> Place] : Good(arrived, done.v, ToSet(done.kept), new)
  BY <1>5, <1>7 DEF Half
<1>9. /\ done.v \in VaultShape /\ done.kept \in Seq(Tag) /\ IsInjective(done.kept)
  BY <1>5 DEF Half
<1>10. /\ w \in VaultShape /\ w.poppedCMD = done.v.poppedCMD
       /\ w.queue = done.v.queue /\ w.atomicLock = done.v.atomicLock /\ w.cmdBus = done.v.cmdBus
       /\ w.readReturn = done.v.readReturn /\ w.readData = done.v.readData
       /\ w.atomicCMD = done.v.atomicCMD
       /\ w.writeData = done.v.writeData /\ w.dataBus = done.v.dataBus /\ w.downBuffers = done.kept
  BY ZenonT(60), <1>9 DEF VaultShape
<1> HIDE DEF w
<1>11. Good(arrived, w, ToSet(w.downBuffers), new)
  <2> DEFINE D == ToSet(done.kept)
  <2> HIDE DEF D
  <2>1. Good(arrived, done.v, D, new)
    BY <1>8 DEF D
  <2>2. Good(arrived, w, D, new)
    BY <2>1, <1>10, FieldsDecide
  <2> QED BY <1>10, <2>2 DEF D
<1> QED BY <1>6, <1>9, <1>10, <1>11
-----------------------------------------------------------------------------
(* The command queue: what CmdPop may take *)

\* The rest of queue q when its command i, and perhaps another, was taken out.
Rest(q, i, r) ==
  /\ r \in Seq(DRAMCommand)
  /\ \E f \in [DOMAIN r -> DOMAIN q \ {i}] :
       IsInjective(f) /\ \A j \in DOMAIN r : r[j] = q[f[j]]

\* May command c go to its bank, as far as the data and the response of c matter?
Ready(v, c) ==
  /\ c.type \in Reads => v.bank[c.bank].nextRead = 0
  /\ Reserves(c) => ResponseFits(v, c)

\* w differs from v in nothing outside the command queue.
Beside(v, w) ==
  /\ w \in VaultShape /\ Untouched(v, w) /\ w.cmdBus = v.cmdBus
  /\ w.readReturn = v.readReturn /\ w.readData = v.readData /\ w.atomicCMD = v.atomicCMD
  /\ w.writeData = v.writeData /\ w.dataBus = v.dataBus /\ w.downBuffers = v.downBuffers

\* The search of bank b took command i, which is ready.  A locked bank yields only
\* to the request that holds its lock; an atomic command taken from an unlocked bank
\* locks one.
Takes(v, w, b, i) ==
  LET q == v.queue[Que(b)]
      c == q[i]
      l == IF OPEN_PAGE THEN b ELSE c.bank
  IN  /\ w.poppedCMD = c /\ Ready(v, c)
      /\ \E r : Rest(q, i, r) /\ w.queue = [v.queue EXCEPT ![Que(b)] = r]
      /\ IF v.atomicLock[b] # 0
         THEN /\ c.tag = v.atomicLock[b]
              /\ w.atomicLock = [v.atomicLock EXCEPT ![b] = IF c.type \in Writes THEN 0 ELSE @]
         ELSE w.atomicLock = [v.atomicLock EXCEPT ![l] = IF WritesBack(c) THEN c.tag ELSE @]

Pops(v, w) ==
  /\ Beside(v, w)
  /\ \/ /\ w.queue = v.queue /\ w.atomicLock = v.atomicLock
        /\ w.poppedCMD = NoCommand \/ Controls(w.poppedCMD)
     \/ \E b \in Banks : \E i \in DOMAIN v.queue[Que(b)] : Takes(v, w, b, i)

\* A command taken out of the middle leaves the rest in order.
LEMMA RestLaws ==
  ASSUME NEW q \in Seq(DRAMCommand), NEW i \in DOMAIN q
  PROVE  /\ Rest(q, i, RemoveAt(q, i))
         /\ \A r : Rest(q, i, r) => \A h \in DOMAIN r : Rest(q, i, RemoveAt(r, h))
<1>1. /\ RemoveAt(q, i) \in Seq(DRAMCommand) /\ DOMAIN q = 1 .. Len(q) /\ Len(q) \in Nat
      /\ DOMAIN RemoveAt(q, i) = 1 .. Len(q) - 1
      /\ \A j \in 1 .. Len(q) - 1 : RemoveAt(q, i)[j] = IF j < i THEN q[j] ELSE q[j + 1]
  <2>1. RemoveAt(q, i) \in Seq(DRAMCommand) /\ Len(RemoveAt(q, i)) = Len(q) - 1
    BY RemoveAtLaws
  <2>2. \A j \in 1 .. Len(q) - 1 : RemoveAt(q, i)[j] = IF j < i THEN q[j] ELSE q[j + 1]
    BY RemoveAtLaws
  <2>3. DOMAIN q = 1 .. Len(q) /\ Len(q) \in Nat
    OBVIOUS
  <2>4. DOMAIN RemoveAt(q, i) = 1 .. Len(RemoveAt(q, i))
    BY <2>1
  <2> HIDE DEF RemoveAt
  <2> QED BY <2>1, <2>2, <2>3, <2>4
<1>2. Rest(q, i, RemoveAt(q, i))
  <2> DEFINE f == [j \in 1 .. Len(q) - 1 |-> IF j < i THEN j ELSE j + 1]
  <2>1. f \in [1 .. Len(q) - 1 -> DOMAIN q \ {i}]
    BY <1>1
  <2>2. IsInjective(f)
    BY <1>1 DEF IsInjective
  <2>3. \A j \in 1 .. Len(q) - 1 : RemoveAt(q, i)[j] = q[f[j]]
    BY <1>1
  <2> HIDE DEF f
  <2> QED BY <1>1, <2>1, <2>2, <2>3 DEF Rest
<1>3. ASSUME NEW r, Rest(q, i, r), NEW h \in DOMAIN r PROVE Rest(q, i, RemoveAt(r, h))
  <2> DEFINE u == RemoveAt(r, h)
  <2>1. r \in Seq(DRAMCommand)
    BY <1>3 DEF Rest
  <2>2. PICK f \in [DOMAIN r -> DOMAIN q \ {i}] :
          IsInjective(f) /\ \A j \in DOMAIN r : r[j] = q[f[j]]
    BY <1>3 DEF Rest
  <2>3. /\ u \in Seq(DRAMCommand) /\ DOMAIN r = 1 .. Len(r) /\ Len(r) \in Nat
        /\ DOMAIN u = 1 .. Len(r) - 1
        /\ \A j \in 1 .. Len(r) - 1 : u[j] = IF j < h THEN r[j] ELSE r[j + 1]
    <3>1. /\ u \in Seq(DRAMCommand) /\ Len(u) = Len(r) - 1
          /\ \A j \in 1 .. Len(r) - 1 : u[j] = IF j < h THEN r[j] ELSE r[j + 1]
      BY <1>3, <2>1, RemoveAtLaws
    <3> HIDE DEF u
    <3> QED BY <2>1, <3>1
  <2> DEFINE g == [j \in 1 .. Len(r) - 1 |-> f[IF j < h THEN j ELSE j + 1]]
  <2>4. \A j \in 1 .. Len(r) - 1 : (IF j < h THEN j ELSE j + 1) \in DOMAIN r
    BY <2>3
  <2>5. g \in [1 .. Len(r) - 1 -> DOMAIN q \ {i}]
    BY <2>2, <2>4
  <2>6. IsInjective(g)
    <3> SUFFICES ASSUME NEW j \in 1 .. Len(r) - 1, NEW k \in 1 .. Len(r) - 1, g[j] = g[k] PROVE j = k
      BY DEF IsInjective
    <3>1. (IF j < h THEN j ELSE j + 1) = (IF k < h THEN k ELSE k + 1)
      BY <2>2, <2>4 DEF IsInjective
    <3> QED BY <1>3, <2>3, <3>1
  <2>7. \A j \in 1 .. Len(r) - 1 : u[j] = q[g[j]]
    BY <2>2, <2>3, <2>4
  <2> HIDE DEF g, u
  <2>8. Rest(q, i, u)
    BY <2>3, <2>5, <2>6, <2>7 DEF Rest
  <2> QED BY <2>8 DEF u
<1> QED BY <1>2, <1>3

\* Take, by fields.
LEMMA TakeLaws ==
  ASSUME NEW v \in VaultShape, NEW b \in Banks, NEW i \in DOMAIN v.queue[Que(b)]
  PROVE  LET w == Take(v, Que(b), i)
             q == v.queue[Que(b)]
         IN  /\ Beside(v, w) /\ w.poppedCMD = q[i] /\ q[i] \in DRAMCommand
             /\ q \in Seq(DRAMCommand) /\ Que(b) \in Queues
             /\ w.queue = [v.queue EXCEPT ![Que(b)] = RemoveAt(q, i)]
             /\ w.atomicLock = v.atomicLock
<1> DEFINE q == v.queue[Que(b)]
           x == [v.queue EXCEPT ![Que(b)] = RemoveAt(q, i)]
           w == Take(v, Que(b), i)
<1>1. q \in Seq(DRAMCommand) /\ Que(b) \in Queues /\ v.queue \in [Queues -> Seq(DRAMCommand)]
  BY VaultSizes DEF VaultShape
<1>2. q[i] \in DRAMCommand /\ q[i] \in Command
  BY <1>1 DEF Command
<1>3. x \in [Queues -> Seq(DRAMCommand)]
  <2>1. RemoveAt(q, i) \in Seq(DRAMCommand)
    BY <1>1, RemoveAtLaws
  <2> QED BY <1>1, <2>1
<1>4. w = [v EXCEPT !.poppedCMD = q[i], !.queue = x]
  BY DEF Take
<1> HIDE DEF w, x, q
<1>5. w \in VaultShape
  BY ZenonT(60), <1>2, <1>3, <1>4 DEF VaultShape
<1>6. Beside(v, w) /\ w.poppedCMD = q[i] /\ w.queue = x /\ w.atomicLock = v.atomicLock
  BY ZenonT(60), <1>4, <1>5 DEF Beside, Untouched, VaultShape
<1> QED BY <1>1, <1>2, <1>6 DEF w, x, q

\* The locks.
LEMMA LockLaws ==
  ASSUME NEW v \in VaultShape, NEW f \in [Banks -> Nat]
  PROVE  LET w == [v EXCEPT !.atomicLock = f]
         IN  Beside(v, w) /\ w.atomicLock = f /\ w.queue = v.queue /\ w.poppedCMD = v.poppedCMD
<1> DEFINE w == [v EXCEPT !.atomicLock = f]
<1>1. w \in VaultShape
  BY ZenonT(60) DEF VaultShape
<1>2. w.atomicLock = f /\ w.queue = v.queue /\ w.poppedCMD = v.poppedCMD
  BY DEF VaultShape
<1> HIDE DEF w
<1>3. Beside(v, w)
  <2>1. /\ w.cmdBus = v.cmdBus /\ w.readReturn = v.readReturn /\ w.readData = v.readData
        /\ w.atomicCMD = v.atomicCMD /\ w.writeData = v.writeData /\ w.dataBus = v.dataBus
        /\ w.downBuffers = v.downBuffers /\ Untouched(v, w)
    BY DEF w, VaultShape, Untouched
  <2> QED BY <1>1, <2>1 DEF Beside, Untouched
<1> QED BY <1>2, <1>3 DEF w

\* What the queue issues is ready.
LEMMA IssuableReady ==
  ASSUME NEW v, NEW c, IsIssuable(v, c)
  PROVE  Ready(v, c)
  BY DEF IsIssuable, Ready, Reserves, Reads, Writes

\* A locked bank: its front goes on, if the request that holds the lock owns it.
LEMMA TakeLockedLaws ==
  ASSUME NEW v \in VaultShape, NEW b \in Banks, v.atomicLock[b] # 0, LockedReady(v, b)
  PROVE  Beside(v, TakeLocked(v, b)) /\ 1 \in DOMAIN v.queue[Que(b)]
         /\ Takes(v, TakeLocked(v, b), b, 1)
<1> DEFINE q == v.queue[Que(b)]
           x == Take(v, Que(b), 1)
           f == [v.atomicLock EXCEPT ![b] = IF q[1].type \in Writes THEN 0 ELSE @]
           w == TakeLocked(v, b)
<1>1. q \in Seq(DRAMCommand) /\ q # <<>> /\ q[1].tag = v.atomicLock[b]
  <2>1. Que(b) \in Queues
    BY VaultSizes
  <2> QED BY <2>1 DEF LockedReady, Queue, VaultShape
<1>2. 1 \in DOMAIN q
  BY <1>1
<1>3. /\ Beside(v, x) /\ x.poppedCMD = q[1]
      /\ x.queue = [v.queue EXCEPT ![Que(b)] = RemoveAt(q, 1)]
      /\ x.atomicLock = v.atomicLock
  BY <1>2, TakeLaws
<1>4. Rest(q, 1, RemoveAt(q, 1))
  BY <1>1, <1>2, RestLaws
<1>5. f \in [Banks -> Nat]
  BY DEF VaultShape
<1>6. w = [x EXCEPT !.atomicLock = f]
  BY <1>3 DEF TakeLocked, Queue
<1> HIDE DEF x, f, w, q
<1>7. Beside(x, w) /\ w.atomicLock = f /\ w.queue = x.queue /\ w.poppedCMD = x.poppedCMD
  BY <1>3, <1>5, <1>6, LockLaws DEF Beside, Untouched
<1>8. Beside(v, w)
  BY <1>3, <1>7 DEF Beside, Untouched
<1>9. Ready(v, q[1])
  BY IssuableReady DEF LockedReady, Queue, q
<1>10. Takes(v, w, b, 1)
  BY <1>1, <1>3, <1>4, <1>7, <1>9 DEF Takes, q, f
<1> QED BY <1>2, <1>8, <1>10 DEF q, w

\* A bank that is not locked.
LEMMA TakeFreeLaws ==
  ASSUME NEW v \in VaultShape, NEW b \in Banks, v.atomicLock[b] = 0,
         NEW i \in DOMAIN v.queue[Que(b)], IsIssuable(v, v.queue[Que(b)][i])
  PROVE  /\ Beside(v, TakeFree(v, b, i)) /\ Takes(v, TakeFree(v, b, i), b, i)
         /\ TakeFree(v, b, i).queue
              = [v.queue EXCEPT ![Que(b)] = RemoveAt(v.queue[Que(b)], i)]
<1> DEFINE q == v.queue[Que(b)]
           c == q[i]
           l == IF OPEN_PAGE THEN b ELSE c.bank
           x == Take(v, Que(b), i)
           f == [v.atomicLock EXCEPT ![l] = IF WritesBack(c) THEN c.tag ELSE @]
           w == TakeFree(v, b, i)
<1>1. /\ Beside(v, x) /\ x.poppedCMD = c /\ c \in DRAMCommand /\ q \in Seq(DRAMCommand)
      /\ x.queue = [v.queue EXCEPT ![Que(b)] = RemoveAt(q, i)]
      /\ x.atomicLock = v.atomicLock
  BY TakeLaws
<1>2. Rest(q, i, RemoveAt(q, i))
  BY <1>1, RestLaws
<1>3. f \in [Banks -> Nat]
  <2>1. c.tag \in Nat
    BY <1>1 DEF DRAMCommand
  <2> QED BY <2>1 DEF VaultShape
<1>4. w = [x EXCEPT !.atomicLock = f]
  BY <1>1 DEF TakeFree, Queue
<1> HIDE DEF x, f, w, q
<1>5. Beside(x, w) /\ w.atomicLock = f /\ w.queue = x.queue /\ w.poppedCMD = x.poppedCMD
  BY <1>1, <1>3, <1>4, LockLaws DEF Beside, Untouched
<1>6. Beside(v, w)
  BY <1>1, <1>5 DEF Beside, Untouched
<1>7. Ready(v, c)
  BY IssuableReady DEF q
<1>8. Takes(v, w, b, i)
  BY <1>1, <1>2, <1>5, <1>7 DEF Takes, q, f
<1> QED BY <1>1, <1>5, <1>6, <1>8 DEF q, w

\* A queue and the counts of row hits replaced.
LEMMA CountedShape ==
  ASSUME NEW v \in VaultShape, NEW h \in [Queues -> Seq(DRAMCommand)], NEW g \in [Banks -> Nat]
  PROVE  [v EXCEPT !.queue = h, !.rowAccessCounter = g] \in VaultShape
  BY ZenonT(60) DEF VaultShape

\* A row hit: its ACTIVATE is taken out, too.
LEMMA TakeHitLaws ==
  ASSUME NEW v \in VaultShape, NEW b \in Banks, v.atomicLock[b] = 0,
         NEW i \in DOMAIN v.queue[Que(b)], IsIssuable(v, v.queue[Que(b)][i])
  PROVE  Beside(v, TakeHit(v, b, i)) /\ Takes(v, TakeHit(v, b, i), b, i)
<1> DEFINE q == v.queue[Que(b)]
           r == RemoveAt(q, i)
           t == TakeFree(v, b, i)
           x == [t.queue EXCEPT ![Que(b)] = RemoveAt(r, i - 1)]
           f == [t.rowAccessCounter EXCEPT ![b] = @ + 1]
           w == [t EXCEPT !.queue = x, !.rowAccessCounter = f]
<1>1. /\ Beside(v, t) /\ Takes(v, t, b, i) /\ t.queue = [v.queue EXCEPT ![Que(b)] = r]
  BY TakeFreeLaws
<1>2. CASE ~RowHit(v, b, i)
  BY <1>1, <1>2 DEF TakeHit
<1>3. CASE RowHit(v, b, i)
  <2>1. /\ q \in Seq(DRAMCommand) /\ Que(b) \in Queues /\ i \in DOMAIN q /\ i \in Int /\ i > 1
        /\ v.queue \in [Queues -> Seq(DRAMCommand)] /\ t \in VaultShape
    <3>1. Que(b) \in Queues /\ v.queue \in [Queues -> Seq(DRAMCommand)]
      BY VaultSizes DEF VaultShape
    <3>2. q \in Seq(DRAMCommand) /\ i \in DOMAIN q
      BY <3>1
    <3>3. i \in Int
      BY <3>2
    <3>4. i > 1 /\ t \in VaultShape
      BY <1>1, <1>3 DEF RowHit, Beside
    <3> QED BY <3>1, <3>2, <3>3, <3>4
  <2>2. r \in Seq(DRAMCommand) /\ i - 1 \in DOMAIN r /\ Rest(q, i, r)
    <3>1. r \in Seq(DRAMCommand) /\ Len(r) = Len(q) - 1 /\ Rest(q, i, r)
      BY <2>1, RemoveAtLaws, RestLaws
    <3>2. i - 1 \in 1 .. Len(q) - 1
      BY <2>1
    <3> HIDE DEF r
    <3> QED BY <3>1, <3>2
  <2> HIDE DEF q, r
  <2>3. Rest(q, i, RemoveAt(r, i - 1))
    BY <2>1, <2>2, RestLaws
  <2>4. RemoveAt(r, i - 1) \in Seq(DRAMCommand)
    BY <2>3 DEF Rest
  <2>5. /\ x \in [Queues -> Seq(DRAMCommand)]
        /\ x = [v.queue EXCEPT ![Que(b)] = RemoveAt(r, i - 1)]
        /\ t.queue[Que(b)] = r
    BY <1>1, <2>1, <2>2, <2>4
  <2>6. f \in [Banks -> Nat]
    <3>1. t.rowAccessCounter \in [Banks -> Nat]
      BY <2>1 DEF VaultShape
    <3>2. t.rowAccessCounter[b] + 1 \in Nat
      BY <3>1
    <3> QED BY <3>1, <3>2
  <2>7. TakeHit(v, b, i) = w
    BY <1>3, <2>5 DEF TakeHit
  <2> HIDE DEF t, x, f
  <2>8. /\ w \in VaultShape /\ w.queue = x /\ w.poppedCMD = t.poppedCMD
        /\ w.atomicLock = t.atomicLock
    <3>1. x \in [Queues -> Seq(DRAMCommand)]
      BY <2>5
    <3>2. w \in VaultShape
      BY <2>1, <2>6, <3>1, CountedShape
    <3> QED BY ZenonT(60), <2>1, <3>2 DEF VaultShape
  <2>9. /\ w.cmdBus = t.cmdBus /\ w.readReturn = t.readReturn /\ w.readData = t.readData
        /\ w.atomicCMD = t.atomicCMD /\ w.writeData = t.writeData /\ w.dataBus = t.dataBus
        /\ w.downBuffers = t.downBuffers /\ Untouched(t, w)
    BY <2>1 DEF VaultShape, Untouched
  <2> HIDE DEF w
  <2>10. Beside(v, w)
    BY <1>1, <2>8, <2>9 DEF Beside, Untouched
  <2>11. Takes(v, w, b, i)
    BY <1>1, <2>3, <2>5, <2>8 DEF Takes, q
  <2> QED BY <2>7, <2>10, <2>11
<1> QED BY <1>2, <1>3

\* PRECHARGE and REFRESH come from no queue.
LEMMA ControlLaws ==
  ASSUME NEW v \in VaultShape
  PROVE  /\ \A b \in Banks : Pops(v, Precharge(v, b))
         /\ Pops(v, Refresh(v))
<1>1. \A b \in Banks : LET c == NewCommand("PRECHARGE", 0, b, 0, TRUE)
                       IN  Controls(c) /\ c \in Command
  BY DEF NewCommand, Controls, DRAMCommand, CommandType, Command
<1>2. LET c == NewCommand("REFRESH", 0, 0, 0, TRUE) IN Controls(c) /\ c \in Command
  BY VaultSizes DEF NewCommand, Controls, DRAMCommand, CommandType, Command
<1>3. ASSUME NEW c \in Command, Controls(c), NEW f \in [Banks -> Nat]
      PROVE  Pops(v, [v EXCEPT !.rowAccessCounter = f, !.poppedCMD = c])
  <2> DEFINE w == [v EXCEPT !.rowAccessCounter = f, !.poppedCMD = c]
  <2>1. w \in VaultShape /\ w.queue = v.queue /\ w.atomicLock = v.atomicLock /\ w.poppedCMD = c
    BY ZenonT(60) DEF VaultShape
  <2>2. /\ w.cmdBus = v.cmdBus /\ w.readReturn = v.readReturn /\ w.readData = v.readData
        /\ w.atomicCMD = v.atomicCMD /\ w.writeData = v.writeData /\ w.dataBus = v.dataBus
        /\ w.downBuffers = v.downBuffers /\ Untouched(v, w)
    BY DEF VaultShape, Untouched
  <2> HIDE DEF w
  <2>3. Pops(v, w)
    BY <1>3, <2>1, <2>2 DEF Pops, Beside
  <2> QED BY <2>3 DEF w
<1>4. ASSUME NEW c \in Command, Controls(c)
      PROVE  Pops(v, [v EXCEPT !.refreshWaiting = FALSE, !.poppedCMD = c])
  <2> DEFINE w == [v EXCEPT !.refreshWaiting = FALSE, !.poppedCMD = c]
  <2>1. w \in VaultShape /\ w.queue = v.queue /\ w.atomicLock = v.atomicLock /\ w.poppedCMD = c
    BY ZenonT(60) DEF VaultShape
  <2>2. /\ w.cmdBus = v.cmdBus /\ w.readReturn = v.readReturn /\ w.readData = v.readData
        /\ w.atomicCMD = v.atomicCMD /\ w.writeData = v.writeData /\ w.dataBus = v.dataBus
        /\ w.downBuffers = v.downBuffers /\ Untouched(v, w)
    BY DEF VaultShape, Untouched
  <2> HIDE DEF w
  <2>3. Pops(v, w)
    BY <1>4, <2>1, <2>2 DEF Pops, Beside
  <2> QED BY <2>3 DEF w
<1>5. \A b \in Banks : [v.rowAccessCounter EXCEPT ![b] = 0] \in [Banks -> Nat]
  BY DEF VaultShape
<1> QED BY <1>1, <1>2, <1>3, <1>4, <1>5 DEF Precharge, Refresh

\* The least of some banks, and the first of some commands.
LEMMA MinIn ==
  ASSUME NEW b \in Nat, NEW S \in SUBSET (0 .. b), S # {}
  PROVE  Min(S) \in S
  BY LeastAndGreatest DEF Min

\* Nothing popped, so far.
LEMMA IdlePops ==
  ASSUME NEW v \in VaultShape, v.poppedCMD = NoCommand
  PROVE  Pops(v, v)
  BY DEF Pops, Beside, Untouched

\* A waiting refresh deals with one bank.
LEMMA RefreshPopLaws ==
  ASSUME NEW v \in VaultShape, v.poppedCMD = NoCommand
  PROVE  Pops(v, RefreshPop(v))
<1> DEFINE b == Min(InTheWay(v))
<1>1. InTheWay(v) # {} => b \in Banks
  <2>1. InTheWay(v) \in SUBSET (0 .. NUM_BANKS - 1) /\ NUM_BANKS - 1 \in Nat
    BY VaultSizes DEF InTheWay, Banks
  <2>2. InTheWay(v) # {} => b \in InTheWay(v)
    BY <2>1, MinIn
  <2> QED BY <2>2 DEF InTheWay
<1> HIDE DEF b
<1>2. InTheWay(v) # {} /\ v.atomicLock[b] # 0 /\ LockedReady(v, b) => Pops(v, TakeLocked(v, b))
  BY <1>1, TakeLockedLaws DEF Pops
<1>3. InTheWay(v) # {} /\ v.atomicLock[b] = 0 => Pops(v, ClearRow(v, b))
  <2> SUFFICES ASSUME InTheWay(v) # {}, v.atomicLock[b] = 0 PROVE Pops(v, ClearRow(v, b))
    OBVIOUS
  <2> DEFINE hits == ToOpenRow(v, b)
             i == Min(hits)
  <2>1. v.queue[Que(b)] \in Seq(DRAMCommand)
    <3>1. Que(b) \in Queues
      BY <1>1, VaultSizes
    <3> QED BY <3>1 DEF VaultShape
  <2>2. hits # {} => i \in DOMAIN v.queue[Que(b)]
    <3>1. hits \in SUBSET (0 .. Len(v.queue[Que(b)])) /\ Len(v.queue[Que(b)]) \in Nat
      BY <2>1 DEF ToOpenRow, Queue
    <3>2. hits # {} => i \in hits
      BY <3>1, MinIn
    <3> QED BY <2>1, <3>2 DEF ToOpenRow, Queue
  <2> HIDE DEF hits, i
  <2>3. hits # {} /\ IsIssuable(v, Queue(v, b)[i]) => Pops(v, TakeFree(v, b, i))
    BY <1>1, <2>2, TakeFreeLaws DEF Pops, Queue
  <2> QED BY <1>1, <2>3, ControlLaws, IdlePops DEF ClearRow, hits, i
<1> QED BY <1>2, <1>3, ControlLaws, IdlePops DEF RefreshPop, b

\* The search of the banks in turn.
LEMMA NormalPopLaws ==
  ASSUME NEW v \in VaultShape, v.poppedCMD = NoCommand
  PROVE  Pops(v, NormalPop(v))
<1> DEFINE nth(k) == (v.issuedBank + k) % NUM_BANKS
           stops == {k \in 0 .. NUM_BANKS - 1 :
                       Candidates(v, nth(k)) # {} \/ EndsSearch(v, nth(k))}
           b == nth(Min(stops))
           t == IF Candidates(v, b) = {} THEN v ELSE TakeFrom(v, b)
           g == IF EndsSearch(v, b) THEN b ELSE (b + 1) % NUM_BANKS
<1>1. NUM_BANKS \in Nat \ {0} /\ Banks = 0 .. NUM_BANKS - 1 /\ v.issuedBank \in Nat
  BY VaultSizes DEF Banks, VaultShape
<1>2. \A k \in Nat : k % NUM_BANKS \in Banks
  BY <1>1, Division
<1>3. stops # {} => b \in Banks /\ g \in Banks
  <2>1. stops \in SUBSET (0 .. NUM_BANKS - 1) /\ NUM_BANKS - 1 \in Nat
    BY <1>1
  <2>2. stops # {} => Min(stops) \in Nat
    <3> HIDE DEF stops
    <3>1. stops # {} => Min(stops) \in stops
      BY <2>1, MinIn
    <3>2. 0 .. NUM_BANKS - 1 \subseteq Nat
      BY <1>1
    <3> QED BY <2>1, <3>1, <3>2
  <2> HIDE DEF stops
  <2>3. stops # {} => b \in Banks
    <3>1. stops # {} => v.issuedBank + Min(stops) \in Nat
      BY <1>1, <2>2
    <3> QED BY <1>2, <3>1
  <2> HIDE DEF b
  <2>4. b \in Banks => b + 1 \in Nat
    BY <1>1
  <2> QED BY <1>2, <2>3, <2>4
<1> HIDE DEF b, stops, g
<1>4. \A k \in Banks : Candidates(v, k) # {} => Pops(v, TakeFrom(v, k))
  <2> SUFFICES ASSUME NEW k \in Banks, Candidates(v, k) # {} PROVE Pops(v, TakeFrom(v, k))
    OBVIOUS
  <2> DEFINE i == Min(Candidates(v, k))
  <2>1. CASE v.atomicLock[k] # 0
    <3>1. LockedReady(v, k)
      BY <2>1 DEF Candidates
    <3> QED BY <2>1, <3>1, TakeLockedLaws DEF TakeFrom, Pops
  <2>2. CASE v.atomicLock[k] = 0
    <3>1. v.queue[Que(k)] \in Seq(DRAMCommand)
      <4>1. Que(k) \in Queues
        BY VaultSizes
      <4> QED BY <4>1 DEF VaultShape
    <3>2. Candidates(v, k) \in SUBSET (1 .. Len(Queue(v, k)))
      BY <2>2 DEF Candidates
    <3>3. i \in DOMAIN v.queue[Que(k)] /\ IsIssuable(v, v.queue[Que(k)][i])
      <4>1. Candidates(v, k) \in SUBSET (0 .. Len(Queue(v, k))) /\ Len(Queue(v, k)) \in Nat
        BY <3>1, <3>2 DEF Queue
      <4>2. i \in Candidates(v, k)
        BY <4>1, MinIn
      <4>3. \A j \in Candidates(v, k) : IsIssuable(v, Queue(v, k)[j])
        BY <2>2 DEF Candidates
      <4> QED BY <3>1, <3>2, <4>2, <4>3 DEF Queue
    <3> HIDE DEF i
    <3>4. Pops(v, TakeHit(v, k, i)) /\ Pops(v, TakeFree(v, k, i))
      BY <2>2, <3>3, TakeHitLaws, TakeFreeLaws DEF Pops
    <3> QED BY <2>2, <3>4 DEF TakeFrom, i
  <2> QED BY <2>1, <2>2
<1>5. stops # {} => Pops(v, [t EXCEPT !.issuedBank = g])
  <2> SUFFICES ASSUME stops # {} PROVE Pops(v, [t EXCEPT !.issuedBank = g])
    OBVIOUS
  <2>1. Pops(v, t)
    BY <1>3, <1>4, IdlePops
  <2> HIDE DEF t
  <2> DEFINE w == [t EXCEPT !.issuedBank = g]
  <2>2. w \in VaultShape /\ w.queue = t.queue /\ w.atomicLock = t.atomicLock
        /\ w.poppedCMD = t.poppedCMD
    <3>1. t \in VaultShape /\ g \in Banks
      BY <1>3, <2>1 DEF Pops, Beside
    <3>2. w \in VaultShape
      BY ZenonT(60), <3>1 DEF VaultShape
    <3> QED BY <3>1, <3>2 DEF VaultShape
  <2>3. /\ w.cmdBus = t.cmdBus /\ w.readReturn = t.readReturn /\ w.readData = t.readData
        /\ w.atomicCMD = t.atomicCMD /\ w.writeData = t.writeData /\ w.dataBus = t.dataBus
        /\ w.downBuffers = t.downBuffers /\ Untouched(t, w)
    BY <2>1 DEF VaultShape, Pops, Beside, Untouched
  <2> HIDE DEF w
  <2>4. Beside(v, w)
    BY <2>1, <2>2, <2>3 DEF Pops, Beside, Untouched
  <2>5. \A k, i : Takes(v, t, k, i) => Takes(v, w, k, i)
    BY <2>2 DEF Takes
  <2>6. Pops(v, w)
    BY <2>1, <2>2, <2>4, <2>5 DEF Pops
  <2> QED BY <2>6 DEF w
<1>6. Pops(v, CloseRow(v))
  <2> DEFINE idle == {k \in Banks :
                       /\ v.bank[k].state = "ROW_ACTIVE"
                       /\ v.atomicLock[k] = 0
                       /\ \/ ToOpenRow(v, k) = {}
                          \/ v.rowAccessCounter[k] >= MAX_ROW_ACCESSES
                       /\ v.bank[k].nextPrecharge = 0}
  <2>1. idle \in SUBSET (0 .. NUM_BANKS - 1) /\ NUM_BANKS - 1 \in Nat
    BY <1>1
  <2>2. CloseRow(v) = IF idle = {} THEN v ELSE Precharge(v, Min(idle))
    BY DEF CloseRow
  <2> HIDE DEF idle
  <2>3. idle # {} => Min(idle) \in Banks
    BY <1>1, <2>1, MinIn
  <2> QED BY <2>2, <2>3, ControlLaws, IdlePops
<1> QED BY <1>5, <1>6, IdlePops DEF NormalPop, t, b, stops, g

\* CmdPop.
LEMMA CmdPopLaws ==
  ASSUME NEW v \in VaultShape, v.poppedCMD = NoCommand
  PROVE  Pops(v, CmdPop(v))
<1> DEFINE n == FAWCycle(v)
           r == IF n.refreshWaiting THEN RefreshPop(n) ELSE n
           t == IF r.poppedCMD = NoCommand /\ (OPEN_PAGE \/ ~n.refreshWaiting)
                THEN NormalPop(r) ELSE r
           w == [t EXCEPT !.tFAWCountdown = Append(@, T.tFAW)]
<1>1. Same(v, n) /\ Untouched(v, n) /\ n \in VaultShape /\ n.poppedCMD = NoCommand
  BY FAWCycleSame DEF Same
<1> HIDE DEF n
<1>2. Pops(n, r) /\ r \in VaultShape
  BY <1>1, RefreshPopLaws, IdlePops DEF Pops, Beside
<1> HIDE DEF r
<1>3. r.poppedCMD = NoCommand => r.queue = n.queue /\ r.atomicLock = n.atomicLock
  <2>1. ASSUME NEW b \in Banks, NEW i \in DOMAIN n.queue[Que(b)], Takes(n, r, b, i)
        PROVE  r.poppedCMD # NoCommand
    <3>1. n.queue[Que(b)] \in Seq(DRAMCommand)
      <4>1. Que(b) \in Queues
        BY VaultSizes
      <4> QED BY <1>1, <4>1 DEF VaultShape
    <3>2. r.poppedCMD \in DRAMCommand
      <4>1. r.poppedCMD = n.queue[Que(b)][i]
        BY <2>1 DEF Takes
      <4> QED BY <3>1, <4>1
    <3> QED BY <3>2 DEF DRAMCommand, CommandType, NoCommand, NewCommand, Reads, Writes
  <2> QED BY <1>2, <2>1 DEF Pops
<1>4. Pops(n, t)
  <2>1. ASSUME r.poppedCMD = NoCommand PROVE Pops(n, NormalPop(r))
    <3> DEFINE x == NormalPop(r)
    <3>1. Pops(r, x)
      BY <1>2, <2>1, NormalPopLaws
    <3> HIDE DEF x
    <3>2. Beside(n, x)
      BY <1>2, <3>1 DEF Pops, Beside, Untouched
    <3>3. \A b, i : Takes(r, x, b, i) => Takes(n, x, b, i)
      <4>1. Untouched(n, r)
        BY <1>2 DEF Pops, Beside
      <4>2. \A c : Ready(r, c) => Ready(n, c)
        BY <4>1 DEF Ready, ResponseFits, Untouched
      <4> QED BY <1>3, <2>1, <4>2 DEF Takes
    <3>4. Pops(n, x)
      BY <1>3, <2>1, <3>1, <3>2, <3>3 DEF Pops
    <3> QED BY <3>4 DEF x
  <2> QED BY <1>2, <2>1
<1> HIDE DEF t
<1>5. Pops(v, t)
  <2>1. Beside(v, t)
    BY <1>1, <1>4 DEF Same, Pops, Beside, Untouched
  <2>2. \A b, i : Takes(n, t, b, i) => Takes(v, t, b, i)
    <3>1. \A c : Ready(n, c) => Ready(v, c)
      BY <1>1 DEF Ready, ResponseFits, Untouched
    <3> QED BY <1>1, <3>1 DEF Takes, Same
  <2> QED BY <1>1, <1>4, <2>1, <2>2 DEF Pops, Same
<1>6. Pops(v, w)
  <2>1. t \in VaultShape
    BY <1>5 DEF Pops, Beside
  <2>2. Append(t.tFAWCountdown, T.tFAW) \in Seq(Int)
    <3>1. t.tFAWCountdown \in Seq(Int)
      BY <2>1 DEF VaultShape
    <3>2. T.tFAW \in Int
      BY Times
    <3> QED BY <3>1, <3>2
  <2>3. w \in VaultShape
    BY ZenonT(60), <2>1, <2>2 DEF VaultShape
  <2>4. /\ w.cmdBus = t.cmdBus /\ w.readReturn = t.readReturn /\ w.readData = t.readData
        /\ w.atomicCMD = t.atomicCMD /\ w.writeData = t.writeData /\ w.dataBus = t.dataBus
        /\ w.downBuffers = t.downBuffers /\ w.queue = t.queue /\ w.atomicLock = t.atomicLock
        /\ w.poppedCMD = t.poppedCMD /\ Untouched(t, w)
    BY <2>1 DEF VaultShape, Untouched
  <2> HIDE DEF w
  <2>5. Beside(v, w)
    BY <1>5, <2>3, <2>4 DEF Pops, Beside, Untouched
  <2>6. \A b, i : Takes(v, t, b, i) => Takes(v, w, b, i)
    BY <2>4 DEF Takes
  <2> QED BY <1>5, <2>4, <2>5, <2>6 DEF Pops
<1> QED BY <1>5, <1>6 DEF CmdPop, n, r, t

\* m is n with the popped command on the command bus, and the data of a write behind it.
Sent(n, m) ==
  LET c == n.poppedCMD
  IN  /\ m \in VaultShape /\ m.poppedCMD = NoCommand /\ m.cmdBus = c
      /\ m.queue = n.queue /\ m.atomicLock = n.atomicLock
      /\ m.readReturn = n.readReturn /\ m.readData = n.readData /\ m.atomicCMD = n.atomicCMD
      /\ m.dataBus = n.dataBus /\ m.downBuffers = n.downBuffers
      /\ m.writeData = IF c.type \in Writes
                       THEN Append(n.writeData, <<[c EXCEPT !.type = "WRITE_DATA"], WL>>)
                       ELSE n.writeData

\* A command that was taken belongs to a request, and to its queue.
LEMMA TakenCommand ==
  ASSUME NEW a, NEW v, NEW D, NEW at, Good(a, v, D, at), NEW n, NEW b \in Banks,
         NEW i \in DOMAIN v.queue[Que(b)], Takes(v, n, b, i)
  PROVE  LET c == n.poppedCMD
         IN  /\ c = v.queue[Que(b)][i] /\ Waits(a, c) /\ Que(c.bank) = Que(b)
             /\ c \in DRAMCommand /\ c.tag \in 1 .. Len(a) /\ c # NoCommand
             /\ Final(c) => at[c.tag] = Label(a, c)
<1>1. n.poppedCMD = v.queue[Que(b)][i] /\ Que(b) \in Queues
  BY VaultSizes DEF Takes
<1> DEFINE c == n.poppedCMD
<1>2. Waits(a, c) /\ Que(c.bank) = Que(b)
  BY <1>1 DEF Good, Contents
<1>3. c \in DRAMCommand /\ c.tag \in 1 .. Len(a)
  BY <1>2 DEF Waits, IsOf
<1>4. c # NoCommand
  BY <1>3 DEF DRAMCommand, CommandType, NoCommand, NewCommand, Reads, Writes
<1>5. Final(c) => at[c.tag] = Label(a, c)
  <2>1. Label(a, c) \in Place
    BY DEF Label, Place
  <2> QED BY <1>1, <2>1 DEF Good, Labelled
<1> QED BY <1>1, <1>2, <1>3, <1>4, <1>5

\* What PopCommand does to the fields.
LEMMA SentLaws ==
  ASSUME Known, NEW v, NEW D, NEW at, Good(arrived, v, D, at), CmdPop(v).poppedCMD # NoCommand
  PROVE  Sent(CmdPop(v), PopCommand(v))
<1> DEFINE n == CmdPop(v)
           c == n.poppedCMD
           d == [c EXCEPT !.type = "WRITE_DATA"]
           p == IF Reserves(c) THEN n.pendingDataSize + Resp(c.tag) ELSE n.pendingDataSize
           x == IF c.type \in Writes THEN Append(n.writeData, <<d, WL>>) ELSE n.writeData
           m == [n EXCEPT !.writeData = x, !.pendingDataSize = p, !.cmdBus = c,
                          !.cmdCyclesLeft = T.tCMD, !.poppedCMD = NoCommand]
<1>1. v \in VaultShape /\ v.poppedCMD = NoCommand
  BY DEF Good
<1>2. Pops(v, n) /\ n \in VaultShape
  BY <1>1, CmdPopLaws DEF Pops, Beside
<1>3. PopCommand(v) = IF n.cmdBus # NoCommand THEN Fail(m, "cmdBusCollision") ELSE m
  BY DEF PopCommand
<1> HIDE DEF n
<1>4. c \in DRAMCommand /\ (IsAccess(c) => c.tag \in 1 .. Len(arrived))
  <2>1. Controls(c) => c \in DRAMCommand /\ ~IsAccess(c)
    BY DEF Controls, IsAccess, Reads, Writes
  <2>2. \A b \in Banks : \A i \in DOMAIN v.queue[Que(b)] :
          Takes(v, n, b, i) => c \in DRAMCommand /\ c.tag \in 1 .. Len(arrived)
    BY TakenCommand
  <2> QED BY <1>2, <2>1, <2>2 DEF Pops, n
<1>5. Reserves(c) => Resp(c.tag) \in Nat
  <2>1. Reserves(c) => IsAccess(c)
    BY DEF Reserves, IsAccess
  <2> QED BY <1>4, <2>1, RespNat
<1>6. p \in Int
  <2>1. n.pendingDataSize \in Int
    BY <1>2 DEF VaultShape
  <2> QED BY <1>5, <2>1
<1>7. d \in DRAMCommand
  BY <1>4 DEF DRAMCommand, CommandType
<1>8. x \in Seq(DRAMCommand \X Int)
  <2>1. n.writeData \in Seq(DRAMCommand \X Int)
    BY <1>2 DEF VaultShape
  <2>2. WL \in Int
    BY Times
  <2> HIDE DEF d
  <2> QED BY <1>7, <2>1, <2>2
<1> HIDE DEF c, d, p, x
<1>9. m \in VaultShape
  <2>1. c \in Command /\ NoCommand \in Command
    BY <1>4 DEF Command
  <2>2. T.tCMD \in Nat
    BY Times
  <2> QED BY ZenonT(60), <1>2, <1>6, <1>8, <2>1, <2>2 DEF VaultShape
<1>10. Sent(n, m)
  <2>1. /\ m.poppedCMD = NoCommand /\ m.cmdBus = c /\ m.queue = n.queue
        /\ m.atomicLock = n.atomicLock /\ m.writeData = x
        /\ m.readReturn = n.readReturn /\ m.readData = n.readData /\ m.atomicCMD = n.atomicCMD
        /\ m.dataBus = n.dataBus /\ m.downBuffers = n.downBuffers
    BY <1>2 DEF VaultShape
  <2> HIDE DEF m
  <2> QED BY <1>9, <2>1 DEF Sent, c, x, d
<1> HIDE DEF m
<1>11. Sent(n, Fail(m, "cmdBusCollision"))
  <2>1. Same(m, Fail(m, "cmdBusCollision"))
    BY <1>9, FailSame DEF Fault
  <2> QED BY <1>10, <2>1 DEF Sent, Same
<1> QED BY <1>3, <1>10, <1>11 DEF n

\* PRECHARGE or REFRESH goes on the bus.
LEMMA SentControl ==
  ASSUME NEW a, NEW v, NEW D, NEW at, Good(a, v, D, at), NEW n, Beside(v, n),
         n.queue = v.queue, n.atomicLock = v.atomicLock, Controls(n.poppedCMD),
         NEW m, Sent(n, m)
  PROVE  Good(a, m, D, at) /\ m.downBuffers = v.downBuffers
<1>1. n.poppedCMD.type \notin Reads \cup Writes
  BY DEF Controls, Reads, Writes
<1>2. /\ m \in VaultShape /\ m.poppedCMD = NoCommand /\ m.cmdBus = n.poppedCMD
      /\ m.queue = v.queue /\ m.atomicLock = v.atomicLock
      /\ m.readReturn = v.readReturn /\ m.readData = v.readData /\ m.atomicCMD = v.atomicCMD
      /\ m.dataBus = v.dataBus /\ m.downBuffers = v.downBuffers /\ m.writeData = v.writeData
  BY <1>1 DEF Sent, Beside
<1>3. Contents(a, m, D)
  BY <1>2 DEF Good, Contents
<1>4. Labelled(a, m, D, at, Place)
  BY <1>1, <1>2 DEF Good, Labelled
<1>5. Once(m)
  BY <1>2 DEF Good, Once
<1>6. Locks(a, m, at) /\ Excludes(a, m, at)
  BY <1>1, <1>2 DEF Good, Locks, Excludes, IsAccess
<1> QED BY <1>2, <1>3, <1>4, <1>5, <1>6 DEF Good

\* A command of a queue goes on the bus.
LEMMA SentTaken ==
  ASSUME Known, NEW v, NEW D, NEW at, Good(arrived, v, D, at), NEW n, Beside(v, n),
         NEW b \in Banks, NEW i \in DOMAIN v.queue[Que(b)], Takes(v, n, b, i),
         NEW m, Sent(n, m)
  PROVE  (\E new : Good(arrived, m, D, new)) /\ m.downBuffers = v.downBuffers
<1> DEFINE k == Que(b)
           q == v.queue[k]
           c == n.poppedCMD
           d == [c EXCEPT !.type = "WRITE_DATA"]
           x == Append(v.writeData, <<d, WL>>)
           new == IF Final(c)
                  THEN [at EXCEPT ![c.tag] = IF c.type \in Reads THEN "bus" ELSE "write"] ELSE at
<1>1. /\ c = q[i] /\ Waits(arrived, c) /\ Que(c.bank) = k /\ c \in DRAMCommand
      /\ c.tag \in 1 .. Len(arrived) /\ (Final(c) => at[c.tag] = Label(arrived, c))
  BY TakenCommand
<1>2. PICK r : Rest(q, i, r) /\ n.queue = [v.queue EXCEPT ![k] = r]
  BY DEF Takes
<1>3. /\ v \in VaultShape /\ at \in [1 .. Len(arrived) -> Place] /\ k \in Queues
      /\ q \in Seq(DRAMCommand) /\ v.queue \in [Queues -> Seq(DRAMCommand)]
  <2>1. v \in VaultShape /\ at \in [1 .. Len(arrived) -> Place] /\ k \in Queues
    BY VaultSizes DEF Good
  <2>2. v.queue \in [Queues -> Seq(DRAMCommand)]
    BY <2>1 DEF VaultShape
  <2> QED BY <2>1, <2>2
<1>4. /\ m \in VaultShape /\ m.poppedCMD = NoCommand /\ m.cmdBus = c
      /\ m.queue = [v.queue EXCEPT ![k] = r] /\ m.atomicLock = n.atomicLock
      /\ m.readReturn = v.readReturn /\ m.readData = v.readData /\ m.atomicCMD = v.atomicCMD
      /\ m.dataBus = v.dataBus /\ m.downBuffers = v.downBuffers
      /\ m.writeData = IF c.type \in Writes THEN x ELSE v.writeData
  BY <1>2 DEF Sent, Beside
<1>5. /\ d \in DRAMCommand /\ d.type = "WRITE_DATA" /\ d.tag = c.tag /\ d.last = c.last
      /\ d.bank = c.bank /\ d.row = c.row
  BY <1>1 DEF DRAMCommand, CommandType
<1> HIDE DEF d
<1>6. /\ DOMAIN v.writeData = 1 .. Len(v.writeData) /\ Len(v.writeData) \in Nat
      /\ DOMAIN x = 1 .. Len(v.writeData) + 1 /\ x[Len(v.writeData) + 1] = <<d, WL>>
      /\ \A j \in DOMAIN v.writeData : x[j] = v.writeData[j]
  <2>1. v.writeData \in Seq(DRAMCommand \X Int)
    BY <1>3 DEF VaultShape
  <2>2. WL \in Int
    BY Times
  <2>3. <<d, WL>> \in DRAMCommand \X Int
    BY <1>5, <2>2
  <2> QED BY <2>1, <2>3
<1>7. /\ m.queue[k] = r /\ \A l \in Queues : l # k => m.queue[l] = v.queue[l]
  BY <1>3, <1>4
<1>8. \A j \in DOMAIN r : \E h \in DOMAIN q : h # i /\ r[j] = q[h]
  BY <1>2 DEF Rest
<1> HIDE DEF x, new, q, c
<1>9. /\ \A h \in DOMAIN q : Waits(arrived, q[h]) /\ Que(q[h].bank) = k
      /\ \A l \in Queues : \A h \in DOMAIN v.queue[l] :
           Waits(arrived, v.queue[l][h]) /\ Que(v.queue[l][h].bank) = l
  BY <1>3 DEF Good, Contents, q
<1>10. Contents(arrived, m, D)
  <2>1. \A l \in Queues : \A j \in DOMAIN m.queue[l] :
          Waits(arrived, m.queue[l][j]) /\ Que(m.queue[l][j].bank) = l
    BY <1>7, <1>8, <1>9
  <2>2. c.type \in Writes => Stores(arrived, d)
    BY <1>1, <1>5 DEF Waits, Stores, WritesFor, IsOf
  <2>3. \A j \in DOMAIN m.writeData : Stores(arrived, m.writeData[j][1])
    <3>1. \A j \in DOMAIN v.writeData : Stores(arrived, v.writeData[j][1])
      BY DEF Good, Contents
    <3>2. c.type \in Writes => \A j \in DOMAIN x : Stores(arrived, x[j][1])
      BY <1>6, <2>2, <3>1
    <3> QED BY <1>4, <3>1, <3>2
  <2> QED BY <1>1, <1>4, <2>1, <2>3 DEF Good, Contents
\* No other final access of its request is queued.
<1>11. \A l \in Queues : \A j \in DOMAIN m.queue[l] :
         Final(c) /\ Final(m.queue[l][j]) => m.queue[l][j].tag # c.tag
  <2>1. \A h \in DOMAIN q : Final(c) /\ Final(q[h]) /\ q[h].tag = c.tag => h = i
    BY <1>1, <1>3 DEF Good, Once, OnceQueued, q
  <2>2. ASSUME NEW l \in Queues, l # k, NEW j \in DOMAIN m.queue[l]
        PROVE  m.queue[l][j].tag # c.tag
    <3>1. Waits(arrived, m.queue[l][j]) /\ Que(m.queue[l][j].bank) = l
      BY <1>7, <1>9, <2>2
    <3> QED BY <1>1, <2>2, <3>1 DEF Waits, IsOf
  <2> QED BY SMTT(30), <1>7, <1>8, <2>1, <2>2
<1>12. /\ new \in [1 .. Len(arrived) -> Place]
       /\ \A t \in 1 .. Len(arrived) : t # c.tag \/ ~Final(c) => new[t] = at[t]
       /\ Final(c) => new[c.tag] = IF c.type \in Reads THEN "bus" ELSE "write"
  <2>1. "bus" \in Place /\ "write" \in Place
    BY DEF Place
  <2> QED BY <1>1, <1>3, <2>1 DEF new
<1>13. \A y : Label(arrived, y) \in {"queue", "back"}
  BY DEF Label
<1>14. /\ \A t \in D : new[t] = "packet"
       /\ \A j \in DOMAIN v.readReturn :
            v.readReturn[j][1].last => new[v.readReturn[j][1].tag] = "return"
       /\ v.readData.last => new[v.readData.tag] = "data"
       /\ v.atomicCMD # NoCommand => new[v.atomicCMD.tag] = "atomic"
       /\ \A j \in DOMAIN v.writeData :
            v.writeData[j][1].last =>
              /\ new[v.writeData[j][1].tag] = "write"
              /\ Final(c) => v.writeData[j][1].tag # c.tag
       /\ v.dataBus.last => new[v.dataBus.tag] = "write" /\ (Final(c) => v.dataBus.tag # c.tag)
  <2>1. Labelled(arrived, v, D, at, Place)
    BY DEF Good
  <2>2. {"packet", "return", "data", "atomic", "write"} \subseteq Place
    BY DEF Place
  <2>3. \A t \in 1 .. Len(arrived) :
          at[t] \in {"packet", "return", "data", "atomic", "write"} =>
            new[t] = at[t] /\ (Final(c) => t # c.tag)
    BY <1>1, <1>12, <1>13
  <2> QED BY <2>1, <2>2, <2>3, TagsOf DEF Labelled
<1>15. Labelled(arrived, m, D, new, Place)
  <2>1. \A l \in Queues : \A j \in DOMAIN m.queue[l] :
          Final(m.queue[l][j]) => new[m.queue[l][j].tag] = Label(arrived, m.queue[l][j])
    <3>1. \A l \in Queues : \A j \in DOMAIN v.queue[l] :
            Final(v.queue[l][j]) => at[v.queue[l][j].tag] = Label(arrived, v.queue[l][j])
      <4>1. \A y : Label(arrived, y) \in Place
        BY <1>13 DEF Place
      <4> QED BY <4>1 DEF Good, Labelled
    <3>2. \A l \in Queues : \A j \in DOMAIN m.queue[l] :
            Final(m.queue[l][j]) => at[m.queue[l][j].tag] = Label(arrived, m.queue[l][j])
      <4>1. \A h \in DOMAIN q : Final(q[h]) => at[q[h].tag] = Label(arrived, q[h])
        BY <1>3, <3>1 DEF q
      <4>2. \A j \in DOMAIN r : Final(r[j]) => at[r[j].tag] = Label(arrived, r[j])
        BY <1>8, <4>1
      <4> QED BY <1>7, <3>1, <4>2
    <3>3. \A l \in Queues : \A j \in DOMAIN m.queue[l] : m.queue[l][j].tag \in 1 .. Len(arrived)
      BY <1>10 DEF Contents, Waits, IsOf
    <3> QED BY <1>11, <1>12, <3>2, <3>3
  <2>2. c.type \in Reads /\ c.last => new[c.tag] = "bus"
    BY <1>12 DEF Final, IsAccess
  <2>3. \A j \in DOMAIN m.writeData : m.writeData[j][1].last => new[m.writeData[j][1].tag] = "write"
    <3>1. c.type \in Writes /\ d.last => new[d.tag] = "write"
      BY <1>5, <1>12 DEF Final, IsAccess, Reads, Writes
    <3>2. c.type \in Writes => \A j \in DOMAIN x : x[j][1].last => new[x[j][1].tag] = "write"
      BY <1>6, <1>14, <3>1
    <3> QED BY <1>4, <1>14, <3>2
  <2> QED BY <1>4, <1>14, <2>1, <2>2, <2>3 DEF Labelled
<1>16. Once(m)
  <2>1. OnceQueued(r)
    <3>1. OnceQueued(q)
      BY <1>3 DEF Good, Once, q
    <3>2. PICK f \in [DOMAIN r -> DOMAIN q \ {i}] :
            IsInjective(f) /\ \A j \in DOMAIN r : r[j] = q[f[j]]
      BY <1>2 DEF Rest
    <3> QED BY <3>1, <3>2 DEF OnceQueued, IsInjective
  <2>2. \A l \in Queues : OnceQueued(m.queue[l])
    BY <1>7, <2>1 DEF Good, Once
  <2>3. OnceTimed(v.writeData)
    BY DEF Good, Once
  <2>4. c.type \in Writes => OnceTimed(x)
    <3>1. c.type \in Writes /\ d.last => Final(c)
      BY <1>5 DEF Final, IsAccess
    <3> SUFFICES ASSUME c.type \in Writes, NEW j \in DOMAIN x, NEW h \in DOMAIN x,
                        x[j][1].last, x[h][1].last, x[j][1].tag = x[h][1].tag
                 PROVE  j = h
      BY DEF OnceTimed
    <3>2. CASE j \in DOMAIN v.writeData /\ h \in DOMAIN v.writeData
      BY <1>6, <2>3, <3>2 DEF OnceTimed
    <3>3. CASE j = Len(v.writeData) + 1 /\ h = Len(v.writeData) + 1
      BY <3>3
    <3>4. CASE j \in DOMAIN v.writeData /\ h = Len(v.writeData) + 1
      BY <1>5, <1>6, <1>14, <3>1, <3>4
    <3>5. CASE h \in DOMAIN v.writeData /\ j = Len(v.writeData) + 1
      BY <1>5, <1>6, <1>14, <3>1, <3>5
    <3>6. \A g \in DOMAIN x : g \in DOMAIN v.writeData \/ g = Len(v.writeData) + 1
      BY <1>6
    <3> QED BY <3>2, <3>3, <3>4, <3>5, <3>6
  <2>5. v.dataBus.last /\ c.type \in Writes =>
          \A j \in DOMAIN x : x[j][1].last => x[j][1].tag # v.dataBus.tag
    <3>1. v.dataBus.last => \A j \in DOMAIN v.writeData :
            v.writeData[j][1].last => v.writeData[j][1].tag # v.dataBus.tag
      BY DEF Good, Once
    <3>2. c.type \in Writes /\ d.last /\ v.dataBus.last => d.tag # v.dataBus.tag
      BY <1>5, <1>14 DEF Final, IsAccess
    <3> QED BY <1>6, <3>1, <3>2
  <2>6. OnceTimed(m.writeData) /\ (m.dataBus.last =>
          \A j \in DOMAIN m.writeData : m.writeData[j][1].last => m.writeData[j][1].tag # m.dataBus.tag)
    BY <1>4, <2>3, <2>4, <2>5 DEF Good, Once
  <2> QED BY <1>4, <2>2, <2>6 DEF Good, Once
\* The lock, with a queue for each bank.
<1>17. QUE_PER_BANK =>
         /\ c.bank = b
         /\ v.atomicLock[b] # 0 =>
              /\ c.tag = v.atomicLock[b]
              /\ m.atomicLock = [v.atomicLock EXCEPT ![b] = IF c.type \in Writes THEN 0 ELSE @]
         /\ v.atomicLock[b] = 0 =>
              m.atomicLock = [v.atomicLock EXCEPT ![b] = IF WritesBack(c) THEN c.tag ELSE @]
  <2>1. QUE_PER_BANK => c.bank = b
    BY <1>1 DEF Que
  <2> QED BY <1>4, <2>1 DEF Takes, c
<1>18. Locks(arrived, m, new)
  <2> SUFFICES ASSUME QUE_PER_BANK, NEW t \in 1 .. Len(arrived),
                      arrived[t].op \in AtomicOp \ {"EQ"},
                      new[t] \in {"bus", "return", "data", "atomic", "back"}
               PROVE  m.atomicLock[arrived[t].bank] = t
    BY DEF Locks
  <2>1. /\ v.atomicLock \in [Banks -> Nat] /\ arrived[t].bank \in Banks /\ t # 0
        /\ c.bank = arrived[c.tag].bank /\ c.type \in {"ACTIVATE"} \cup Reads \cup Writes
    <3>1. v.atomicLock \in [Banks -> Nat]
      BY <1>3 DEF VaultShape
    <3>2. arrived[t].bank \in Banks
      BY RespNat DEF Request
    <3> QED BY <1>1, <3>1, <3>2 DEF Waits, IsOf
  <2>2. CASE t # c.tag \/ ~Final(c)
    <3>1. v.atomicLock[arrived[t].bank] = t
      BY <1>12, <2>2 DEF Good, Locks
    <3>2. CASE arrived[t].bank # b
      BY <1>17, <2>1, <3>1, <3>2
    <3>3. CASE arrived[t].bank = b
      <4>1. c.tag = t /\ ~Final(c)
        BY <1>17, <2>1, <2>2, <3>1, <3>3
      <4>2. c.type \notin Writes
        BY <1>1, <4>1 DEF Waits, WritesFor, Final, IsAccess, AtomicOp
      <4> QED BY <1>17, <2>1, <3>1, <3>3, <4>2
    <3> QED BY <3>2, <3>3
  <2>3. CASE t = c.tag /\ Final(c)
    <3>1. c.type \in Reads /\ c.type \notin Writes
      BY <1>12, <2>3 DEF Reads, Writes
    <3>2. WritesBack(c)
      BY <2>1, <2>3 DEF WritesBack, Atomic, Op
    <3>3. arrived[t].bank = b
      BY <1>17, <2>1, <2>3
    <3> QED BY <1>17, <2>1, <2>3, <3>1, <3>2, <3>3
  <2> QED BY <2>2, <2>3
<1>19. Excludes(arrived, m, new)
  <2> SUFFICES ASSUME QUE_PER_BANK, NEW t \in 1 .. Len(arrived),
                      arrived[t].op \in AtomicOp \ {"EQ"},
                      new[t] \in {"return", "data", "atomic", "back"},
                      c.bank = arrived[t].bank
               PROVE  c.tag = t
    BY <1>4 DEF Excludes
  <2>1. CASE t = c.tag
    BY <2>1
  <2>2. CASE t # c.tag
    <3>1. v.atomicLock[arrived[t].bank] = t
      BY <1>12, <2>2 DEF Good, Locks
    <3>2. t # 0
      OBVIOUS
    <3> QED BY <1>17, <3>1, <3>2
  <2> QED BY <2>1, <2>2
<1>20. Good(arrived, m, D, new)
  BY <1>4, <1>10, <1>12, <1>15, <1>16, <1>18, <1>19 DEF Good
<1> QED BY <1>4, <1>20

\* PopCommand keeps the invariant.
LEMMA PopCommandGood ==
  ASSUME Known, NEW v, NEW D, NEW at, Good(arrived, v, D, at)
  PROVE  /\ \E new : Good(arrived, PopCommand(v), D, new)
         /\ PopCommand(v).downBuffers = v.downBuffers
<1> DEFINE n == CmdPop(v)
           m == PopCommand(v)
<1>1. v \in VaultShape /\ v.poppedCMD = NoCommand
  BY DEF Good
<1>2. Pops(v, n)
  BY <1>1, CmdPopLaws
<1>3. n.poppedCMD # NoCommand => Sent(n, m)
  BY SentLaws
<1>4. n.poppedCMD = NoCommand => m = n
  BY DEF PopCommand
<1> HIDE DEF n, m
<1>5. \A b \in Banks : \A i \in DOMAIN v.queue[Que(b)] :
        Takes(v, n, b, i) => (\E new : Good(arrived, m, D, new)) /\ m.downBuffers = v.downBuffers
  <2>1. \A b \in Banks : \A i \in DOMAIN v.queue[Que(b)] :
          Takes(v, n, b, i) => n.poppedCMD # NoCommand
    BY TakenCommand
  <2> QED BY <1>2, <1>3, <2>1, SentTaken DEF Pops
<1>6. ASSUME n.queue = v.queue, n.atomicLock = v.atomicLock
      PROVE  /\ Controls(n.poppedCMD) => Good(arrived, m, D, at) /\ m.downBuffers = v.downBuffers
             /\ n.poppedCMD = NoCommand => Good(arrived, m, D, at) /\ m.downBuffers = v.downBuffers
  <2>1. Controls(n.poppedCMD) => n.poppedCMD # NoCommand
    BY DEF Controls, NoCommand, NewCommand
  <2>2. n.poppedCMD = NoCommand => Same(v, m)
    BY <1>1, <1>2, <1>4, <1>6 DEF Pops, Beside, Same
  <2> QED BY <1>2, <1>3, <1>6, <2>1, <2>2, SentControl, SameGood DEF Pops, Same
<1> QED BY <1>2, <1>5, <1>6 DEF Pops, m
-----------------------------------------------------------------------------
(* Responses, the atomic unit and the data that come back *)

\* A response packet goes up; the next one is in front.
LEMMA SendSame ==
  ASSUME NEW v \in VaultShape, NEW accepted
  PROVE  Same(v, SendResponse(v, accepted))
<1> DEFINE u == v.upBuffers
           k == Resp(u[1])
           w == SubSeq(u, k + 1, Len(u))
<1>1. u \in Responses /\ u \in Seq(Nat) /\ Len(u) \in Nat /\ DOMAIN u = 1 .. Len(u)
  BY DEF VaultShape, Responses
<1>2. u # <<>> => w \in Responses
  <2> SUFFICES ASSUME u # <<>> PROVE w \in Responses
    OBVIOUS
  <2>1. k \in Nat \ {0} /\ k <= Len(u) /\ (k < Len(u) => u[k + 1] # 0)
    <3>1. 1 \in DOMAIN u /\ u[1] # 0
      BY <1>1 DEF Responses
    <3>2. /\ k \in Nat \ {0} /\ 1 + k <= Len(u) + 1
          /\ 1 + k <= Len(u) => u[1 + k] # 0
      BY <1>1, <3>1 DEF Responses
    <3> QED BY <1>1, <3>2
  <2> HIDE DEF k, u
  <2>2. /\ w \in Seq(Nat) /\ Len(w) = Len(u) - k /\ DOMAIN w = 1 .. Len(u) - k
        /\ \A i \in 1 .. Len(u) - k : w[i] = u[k + i]
    <3>1. k \in 0 .. Len(u)
      BY SMTT(30), <1>1, <2>1
    <3>2. /\ w \in Seq(Nat) /\ Len(w) = Len(u) - k
          /\ \A i \in 1 .. Len(u) - k : w[i] = u[k + i]
      BY <1>1, <3>1, SuffixLaws
    <3> HIDE DEF w
    <3> QED BY <3>2
  <2> HIDE DEF w
  <2>3. w # <<>> => w[1] # 0
    BY <1>1, <2>1, <2>2
  <2>4. ASSUME NEW i \in DOMAIN w, w[i] # 0
        PROVE  /\ w[i] \in 1 .. Len(arrived) /\ Resp(w[i]) \in Nat \ {0}
               /\ i + Resp(w[i]) <= Len(w) + 1
               /\ i + Resp(w[i]) <= Len(w) => w[i + Resp(w[i])] # 0
    <3>1. k + i \in DOMAIN u /\ u[k + i] = w[i] /\ i \in Nat
      <4>1. i \in 1 .. Len(u) - k
        BY <2>2
      <4>2. i \in Nat /\ k + i \in 1 .. Len(u)
        BY <1>1, <2>1, <4>1
      <4>3. u[k + i] = w[i]
        BY <2>2, <4>1
      <4> QED BY <1>1, <4>2, <4>3
    <3>2. /\ w[i] \in 1 .. Len(arrived) /\ Resp(w[i]) \in Nat \ {0}
          /\ (k + i) + Resp(w[i]) <= Len(u) + 1
          /\ (k + i) + Resp(w[i]) <= Len(u) => u[(k + i) + Resp(w[i])] # 0
      BY <1>1, <2>4, <3>1 DEF Responses
    <3> DEFINE e == i + Resp(w[i])
    <3>3. e \in Nat /\ e >= 1 /\ (k + i) + Resp(w[i]) = k + e
      BY <2>1, <3>1, <3>2
    <3> HIDE DEF e
    <3>4. e <= Len(w) => w[e] = u[k + e]
      <4>1. e <= Len(w) => e \in 1 .. Len(u) - k
        BY <1>1, <2>1, <2>2, <3>3
      <4> QED BY <2>2, <4>1
    <3>5. k + e <= Len(u) + 1 /\ (k + e <= Len(u) => u[k + e] # 0)
      BY <3>2, <3>3
    <3>6. e <= Len(w) + 1 /\ (e <= Len(w) => w[e] # 0)
      BY <1>1, <2>1, <2>2, <3>3, <3>4, <3>5
    <3> QED BY <3>2, <3>6 DEF e
  <2> QED BY <2>2, <2>3, <2>4 DEF Responses
<1>3. Same(v, v)
  BY DEF Same
<1>4. u # <<>> => Same(v, [v EXCEPT !.upBuffers = w])
  BY <1>2, ReplacedSame
<1> QED BY <1>3, <1>4 DEF SendResponse

\* The atomic operation is done: the result waits, in front of its queue, to be written.
LEMMA AtomicOperationGood ==
  ASSUME Known, NEW v, NEW D, NEW at, Good(arrived, v, D, at)
  PROVE  /\ \E new : Good(arrived, AtomicOperation(v), D, new)
         /\ AtomicOperation(v).downBuffers = v.downBuffers
<1> DEFINE c == v.atomicCMD
           k == Que(c.bank)
           old == v.queue[k]
           back == [c EXCEPT !.type = IF OPEN_PAGE THEN "WRITE" ELSE "WRITE_P", !.last = TRUE]
           n == IF Op(c.tag) = "EQ" THEN v ELSE [v EXCEPT !.queue[k] = <<back>> \o @]
           m == IF Op(c.tag) = "P_ATOMIC" THEN n ELSE MakeRespondPacket(n, c)
           w == [m EXCEPT !.atomicCMD = NoCommand]
           new == [at EXCEPT ![c.tag] = IF Op(c.tag) = "EQ" THEN "gone" ELSE "back"]
<1>0. v \in VaultShape /\ at \in [1 .. Len(arrived) -> Place]
  BY DEF Good
<1>1. CASE c = NoCommand
  BY <1>1 DEF AtomicOperation
<1>2. CASE c # NoCommand /\ v.atomicOperLeft > 0
  <2>1. Same(v, [v EXCEPT !.atomicOperLeft = @ - 1])
    <3>1. v.atomicOperLeft - 1 \in {0, 1}
      <4>1. v.atomicOperLeft \in {0, 1}
        BY <1>0 DEF VaultShape
      <4> QED BY <1>2, <4>1
    <3>2. \A x \in {0, 1} : Same(v, [v EXCEPT !.atomicOperLeft = x])
      BY ZenonT(60), <1>0 DEF Same, VaultShape
    <3> QED BY <3>1, <3>2
  <2> QED BY <1>2, <2>1, SameGood DEF AtomicOperation, Same
<1>3. CASE c # NoCommand /\ ~(v.atomicOperLeft > 0)
  <2>1. Returns(arrived, c) /\ arrived[c.tag].op \in AtomicOp
    BY <1>3 DEF Good, Contents
  <2>2. /\ c \in DRAMCommand /\ c.tag \in 1 .. Len(arrived) /\ c.last
        /\ c.bank = arrived[c.tag].bank /\ c.row = arrived[c.tag].row
        /\ c.bank \in Banks /\ c.row \in Nat /\ c.tag \in Nat
    BY <2>1 DEF Returns, ReadsFor, IsOf, DRAMCommand
  <2>3. /\ k \in Queues /\ old \in Seq(DRAMCommand) /\ v.queue \in [Queues -> Seq(DRAMCommand)]
        /\ Op(c.tag) = arrived[c.tag].op
        /\ Op(c.tag) # "P_ATOMIC" => Resp(c.tag) \in Nat \ {0}
    <3>1. k \in Queues
      BY <2>2, VaultSizes
    <3>2. v.queue \in [Queues -> Seq(DRAMCommand)]
      BY <1>0 DEF VaultShape
    <3> QED BY <2>2, <3>1, <3>2, RespNat
  <2>4. /\ back \in DRAMCommand /\ back.type \in Writes /\ back.tag = c.tag /\ back.last
        /\ back.bank = c.bank /\ back.row = c.row
    BY <2>2 DEF DRAMCommand, CommandType, Writes
  <2> HIDE DEF back
  <2> DEFINE q == <<back>> \o old
  <2>5. /\ q \in Seq(DRAMCommand) /\ DOMAIN q = 1 .. Len(old) + 1 /\ q[1] = back
        /\ DOMAIN old = 1 .. Len(old) /\ Len(old) \in Nat
        /\ \A i \in DOMAIN q : i = 1 \/ (i - 1 \in DOMAIN old /\ q[i] = old[i - 1] /\ i \in Int)
    BY <2>3, <2>4
  <2> DEFINE f == IF Op(c.tag) = "EQ" THEN v.queue ELSE [v.queue EXCEPT ![k] = q]
  <2>6. f \in [Queues -> Seq(DRAMCommand)]
    BY <2>3, <2>5
  <2>7. n = [v EXCEPT !.queue = f]
    BY <1>0 DEF VaultShape
  <2> HIDE DEF f, n
  <2>8. /\ n \in VaultShape /\ n.poppedCMD = v.poppedCMD /\ n.queue = f
        /\ n.atomicLock = v.atomicLock /\ n.cmdBus = v.cmdBus /\ n.readReturn = v.readReturn
        /\ n.readData = v.readData /\ n.atomicCMD = v.atomicCMD /\ n.writeData = v.writeData
        /\ n.dataBus = v.dataBus /\ n.downBuffers = v.downBuffers
    <3>1. n \in VaultShape
      BY ZenonT(60), <1>0, <2>6, <2>7 DEF VaultShape
    <3> QED BY ZenonT(60), <1>0, <2>7, <3>1 DEF VaultShape
  <2>9. Same(n, m)
    <3>1. Same(n, n)
      BY <2>8 DEF Same
    <3> QED BY <2>2, <2>3, <2>8, <3>1, RespondSame
  <2> HIDE DEF m
  <2>10. /\ w \in VaultShape /\ w.poppedCMD = v.poppedCMD /\ w.queue = f
         /\ w.atomicLock = v.atomicLock /\ w.cmdBus = v.cmdBus /\ w.readReturn = v.readReturn
         /\ w.readData = v.readData /\ w.atomicCMD = NoCommand /\ w.writeData = v.writeData
         /\ w.dataBus = v.dataBus /\ w.downBuffers = v.downBuffers
    <3>1. m \in VaultShape /\ NoCommand \in Command
      BY <2>9 DEF Same, Command
    <3>2. w \in VaultShape
      BY ZenonT(60), <3>1 DEF VaultShape
    <3>3. /\ w.poppedCMD = m.poppedCMD /\ w.queue = m.queue
          /\ w.atomicLock = m.atomicLock /\ w.cmdBus = m.cmdBus /\ w.readReturn = m.readReturn
          /\ w.readData = m.readData /\ w.atomicCMD = NoCommand /\ w.writeData = m.writeData
          /\ w.dataBus = m.dataBus /\ w.downBuffers = m.downBuffers
      BY <3>1 DEF VaultShape
    <3> HIDE DEF w
    <3> QED BY <2>8, <2>9, <3>2, <3>3 DEF Same
  <2>11. AtomicOperation(v) = w
    BY <1>3 DEF AtomicOperation, w, m, n, back
  <2> HIDE DEF w, q
  <2>12. at[c.tag] = "atomic"
    BY <1>3 DEF Good, Labelled, Place
  <2>13. /\ new \in [1 .. Len(arrived) -> Place]
         /\ new[c.tag] = (IF Op(c.tag) = "EQ" THEN "gone" ELSE "back")
         /\ \A t \in 1 .. Len(arrived) : t # c.tag => new[t] = at[t]
    BY <1>0, <2>2 DEF Place
  <2>14. Labelled(arrived, v, D, new, Place \ {"atomic"})
    <3>1. "gone" \in Place /\ "back" \in Place
      BY DEF Place
    <3>2. Labelled(arrived, v, D, new, Place \ {at[c.tag]})
      BY <2>2, <3>1, MovesOn
    <3> QED BY <2>12, <3>2
  <2> HIDE DEF new
  <2>15. Waits(arrived, back) \/ Op(c.tag) = "EQ"
    <3>1. back.type \notin Reads /\ back.type # "ACTIVATE"
      BY <2>4 DEF Reads, Writes
    <3> QED BY <2>1, <2>2, <2>3, <2>4, <3>1 DEF Waits, WritesFor, IsOf
  <2>16. \A l \in Queues : w.queue[l] = v.queue[l] \/ (l = k /\ w.queue[l] = q /\ Op(c.tag) # "EQ")
    BY <2>3, <2>10 DEF f
  <2>17. Contents(arrived, w, D)
    <3>1. \A l \in Queues : \A i \in DOMAIN v.queue[l] :
            Waits(arrived, v.queue[l][i]) /\ Que(v.queue[l][i].bank) = l
      BY DEF Good, Contents
    <3>2. Op(c.tag) # "EQ" =>
            \A i \in DOMAIN q : Waits(arrived, q[i]) /\ Que(q[i].bank) = k
      <4>1. \A i \in DOMAIN old : Waits(arrived, old[i]) /\ Que(old[i].bank) = k
        BY <2>3, <3>1
      <4> HIDE DEF old
      <4> QED BY <2>4, <2>5, <2>15, <4>1
    <3>3. \A l \in Queues : \A i \in DOMAIN w.queue[l] :
            Waits(arrived, w.queue[l][i]) /\ Que(w.queue[l][i].bank) = l
      BY <2>16, <3>1, <3>2
    <3> QED BY <2>10, <3>3 DEF Good, Contents
  <2>18. \A y : Label(arrived, y) \in Place \ {"atomic"}
    BY DEF Label, Place
  <2>19. Label(arrived, back) = "back"
    BY <2>1, <2>4 DEF Label
  <2>20. \A l \in Queues : \A i \in DOMAIN v.queue[l] :
           Final(v.queue[l][i]) =>
             /\ new[v.queue[l][i].tag] = Label(arrived, v.queue[l][i])
             /\ v.queue[l][i].tag # c.tag
    <3>1. \A l \in Queues : \A i \in DOMAIN v.queue[l] :
            Final(v.queue[l][i]) => at[v.queue[l][i].tag] = Label(arrived, v.queue[l][i])
      BY <2>18 DEF Good, Labelled
    <3> QED BY <2>12, <2>14, <2>18, <3>1 DEF Labelled
  <2>21. Labelled(arrived, w, D, new, Place)
    <3>1. Op(c.tag) # "EQ" =>
            \A i \in DOMAIN q : Final(q[i]) => new[q[i].tag] = Label(arrived, q[i])
      <4>1. \A i \in DOMAIN old : Final(old[i]) => new[old[i].tag] = Label(arrived, old[i])
        BY <2>3, <2>20
      <4> HIDE DEF old
      <4> QED BY <2>4, <2>5, <2>13, <2>19, <4>1
    <3>2. \A l \in Queues : \A i \in DOMAIN w.queue[l] :
            Final(w.queue[l][i]) => new[w.queue[l][i].tag] = Label(arrived, w.queue[l][i])
      BY <2>16, <2>20, <3>1
    <3>3. {"packet", "bus", "return", "data", "write"} \subseteq Place \ {"atomic"}
      BY DEF Place
    <3> QED BY <2>10, <2>14, <3>2, <3>3 DEF Labelled
  <2>22. Once(w)
    <3>1. OnceQueued(old) /\ \A i \in DOMAIN old : Final(old[i]) => old[i].tag # c.tag
      BY <2>3, <2>20 DEF Good, Once
    <3> HIDE DEF old
    <3>2. OnceQueued(q)
      <4> SUFFICES ASSUME NEW i \in DOMAIN q, NEW j \in DOMAIN q, Final(q[i]), Final(q[j]),
                          q[i].tag = q[j].tag
                   PROVE  i = j
        BY DEF OnceQueued
      <4>1. CASE i = 1 \/ j = 1
        BY <2>4, <2>5, <3>1, <4>1
      <4>2. CASE i # 1 /\ j # 1
        <5>1. i - 1 = j - 1
          BY <2>5, <3>1, <4>2 DEF OnceQueued
        <5> QED BY <2>5, <4>2, <5>1
      <4> QED BY <4>1, <4>2
    <3> QED BY <2>10, <2>16, <3>2 DEF Good, Once
  <2>23. Locks(arrived, w, new) /\ Excludes(arrived, w, new)
    <3>1. \A t \in 1 .. Len(arrived) :
            /\ arrived[t].op # "EQ" /\ new[t] \in {"bus", "return", "data", "atomic", "back"}
            => at[t] = new[t] \/ at[t] = "atomic"
      BY <2>3, <2>12, <2>13
    <3>2. Locks(arrived, w, new)
      BY <2>10, <3>1 DEF Good, Locks
    <3>3. Excludes(arrived, w, new)
      BY <2>10, <3>1 DEF Good, Excludes
    <3> QED BY <3>2, <3>3
  <2>24. Good(arrived, w, D, new)
    BY <2>10, <2>13, <2>17, <2>21, <2>22, <2>23 DEF Good
  <2> QED BY <2>10, <2>11, <2>24
<1> QED BY <1>1, <1>2, <1>3

\* The data of a read has come back: to the atomic unit, or into the response.
LEMMA ReadDataGood ==
  ASSUME Known, NEW v, NEW D, NEW at, Good(arrived, v, D, at)
  PROVE  /\ \E new : Good(arrived, ReadDataCycle(v), D, new)
         /\ ReadDataCycle(v).downBuffers = v.downBuffers
<1> DEFINE c == v.readData
           p == [v.pendingReadData EXCEPT ![c.tag] = @ - 1]
           n == [v EXCEPT !.pendingReadData = p]
           u == [n EXCEPT !.atomicCMD = c, !.atomicOperLeft = 1]
           m == ReturnCommand(v, c)
           w == [m EXCEPT !.readData = NoCommand, !.readCyclesLeft = 0]
<1>0. v \in VaultShape /\ at \in [1 .. Len(arrived) -> Place]
  BY DEF Good
<1>1. CASE c = NoCommand
  BY <1>1 DEF ReadDataCycle
<1>2. CASE c # NoCommand /\ v.readCyclesLeft > 1
  <2>1. Same(v, [v EXCEPT !.readCyclesLeft = @ - 1])
    <3>1. v.readCyclesLeft - 1 \in Nat
      BY <1>0, <1>2 DEF VaultShape
    <3>2. \A x \in Nat : Same(v, [v EXCEPT !.readCyclesLeft = x])
      BY ZenonT(60), <1>0 DEF Same, VaultShape
    <3> QED BY <3>1, <3>2
  <2> QED BY <1>2, <2>1, SameGood DEF ReadDataCycle, Same
<1>3. CASE c # NoCommand /\ ~(v.readCyclesLeft > 1)
  <2>1. Returns(arrived, c)
    BY <1>3 DEF Good, Contents
  <2>2. /\ c \in DRAMCommand /\ c.tag \in 1 .. Len(arrived) /\ c.tag \in Tag /\ c.tag \in Nat
        /\ Op(c.tag) = arrived[c.tag].op /\ (~Atomic(c) => Resp(c.tag) \in Nat \ {0})
        /\ Atomic(c) => arrived[c.tag].op \in AtomicOp
        /\ c.last => at[c.tag] = "data"
    <3>1. c \in DRAMCommand /\ c.tag \in 1 .. Len(arrived)
      BY <2>1 DEF Returns, ReadsFor, IsOf
    <3>2. c.last => at[c.tag] = "data"
      BY DEF Good, Labelled, Place
    <3>3. Op(c.tag) = arrived[c.tag].op
      BY DEF Op
    <3>4. ~Atomic(c) => Resp(c.tag) \in Nat \ {0}
      BY <3>1, RespNat DEF Atomic, AtomicOp
    <3> QED BY <3>1, <3>2, <3>3, <3>4, RespNat DEF DRAMCommand, Atomic
  <2>3. v.pendingReadData[c.tag] # 0 => Same(v, n)
    <3>1. v.pendingReadData \in [Tag -> 0 .. MaxPending]
      BY <1>0 DEF VaultShape
    <3>2. v.pendingReadData[c.tag] \in 0 .. MaxPending /\ MaxPending \in Nat
      BY <2>2, <3>1, VaultConstants
    <3>3. v.pendingReadData[c.tag] # 0 => p \in [Tag -> 0 .. MaxPending]
      <4>1. v.pendingReadData[c.tag] # 0 => v.pendingReadData[c.tag] - 1 \in 0 .. MaxPending
        BY <3>2
      <4> QED BY <3>1, <4>1
    <3> HIDE DEF p
    <3>4. \A x \in [Tag -> 0 .. MaxPending] : Same(v, [v EXCEPT !.pendingReadData = x])
      BY ZenonT(60), <1>0 DEF Same, VaultShape
    <3> QED BY <3>3, <3>4
  <2>4. m = IF v.dataBus # NoCommand THEN Fail(v, "dataBusCollision")
            ELSE IF v.pendingReadData[c.tag] = 0 THEN Fail(v, "noMatch")
            ELSE IF ~c.last THEN n
            ELSE IF Atomic(c) THEN u
            ELSE MakeRespondPacket(n, c)
    BY DEF ReturnCommand
  <2> HIDE DEF n
  <2>5. Same(v, n) /\ ~Atomic(c) => Same(v, MakeRespondPacket(n, c))
    <3>1. Same(v, n) /\ ~Atomic(c) => Same(n, MakeRespondPacket(n, c))
      BY <2>2, RespondSame DEF Same
    <3> QED BY <3>1 DEF Same
  <2>6. Same(v, Fail(v, "dataBusCollision")) /\ Same(v, Fail(v, "noMatch"))
    BY <1>0, FailSame DEF Fault
  <2>7. Same(v, n) => /\ u \in VaultShape /\ u.poppedCMD = v.poppedCMD /\ u.queue = v.queue
        /\ u.atomicLock = v.atomicLock /\ u.cmdBus = v.cmdBus /\ u.readReturn = v.readReturn
        /\ u.readData = v.readData /\ u.atomicCMD = c /\ u.writeData = v.writeData
        /\ u.dataBus = v.dataBus /\ u.downBuffers = v.downBuffers
    <3> SUFFICES ASSUME Same(v, n)
                 PROVE  /\ u \in VaultShape /\ u.poppedCMD = v.poppedCMD /\ u.queue = v.queue
        /\ u.atomicLock = v.atomicLock /\ u.cmdBus = v.cmdBus /\ u.readReturn = v.readReturn
        /\ u.readData = v.readData /\ u.atomicCMD = c /\ u.writeData = v.writeData
        /\ u.dataBus = v.dataBus /\ u.downBuffers = v.downBuffers
      OBVIOUS
    <3>1. n \in VaultShape /\ c \in Command
      BY <2>2 DEF Same, Command
    <3>2. u \in VaultShape
      BY ZenonT(60), <3>1 DEF VaultShape
    <3>3. /\ u.poppedCMD = n.poppedCMD /\ u.queue = n.queue
          /\ u.atomicLock = n.atomicLock /\ u.cmdBus = n.cmdBus /\ u.readReturn = n.readReturn
          /\ u.readData = n.readData /\ u.atomicCMD = c /\ u.writeData = n.writeData
          /\ u.dataBus = n.dataBus /\ u.downBuffers = n.downBuffers
      BY <3>1 DEF VaultShape
    <3> HIDE DEF u
    <3> QED BY <3>2, <3>3 DEF Same
  <2> HIDE DEF u
\* The command goes to the atomic unit, or nowhere.
  <2> DEFINE Stored == c.last /\ Atomic(c) /\ m.atomicCMD = c
  <2>8. /\ m \in VaultShape /\ m.poppedCMD = v.poppedCMD /\ m.queue = v.queue
        /\ m.atomicLock = v.atomicLock /\ m.cmdBus = v.cmdBus /\ m.readReturn = v.readReturn
        /\ m.writeData = v.writeData /\ m.dataBus = v.dataBus /\ m.downBuffers = v.downBuffers
        /\ m.atomicCMD = v.atomicCMD \/ Stored
    <3>1. Same(v, m) \/ (Same(v, n) /\ m = u /\ c.last /\ Atomic(c))
      BY <2>3, <2>4, <2>5, <2>6
    <3>2. Same(v, m) => /\ m \in VaultShape /\ m.poppedCMD = v.poppedCMD /\ m.queue = v.queue
        /\ m.atomicLock = v.atomicLock /\ m.cmdBus = v.cmdBus /\ m.readReturn = v.readReturn
        /\ m.writeData = v.writeData /\ m.dataBus = v.dataBus /\ m.downBuffers = v.downBuffers
        /\ m.atomicCMD = v.atomicCMD
      BY DEF Same
    <3> QED BY <2>7, <3>1, <3>2
  <2> HIDE DEF m, Stored
  <2>9. /\ w \in VaultShape /\ w.poppedCMD = v.poppedCMD /\ w.queue = v.queue
        /\ w.atomicLock = v.atomicLock /\ w.cmdBus = v.cmdBus /\ w.readReturn = v.readReturn
        /\ w.readData = NoCommand /\ w.atomicCMD = m.atomicCMD /\ w.writeData = v.writeData
        /\ w.dataBus = v.dataBus /\ w.downBuffers = v.downBuffers
    <3>1. m \in VaultShape /\ NoCommand \in Command
      BY <2>8 DEF Command
    <3>2. w \in VaultShape
      BY ZenonT(60), <3>1 DEF VaultShape
    <3>3. /\ w.poppedCMD = m.poppedCMD /\ w.queue = m.queue
          /\ w.atomicLock = m.atomicLock /\ w.cmdBus = m.cmdBus /\ w.readReturn = m.readReturn
          /\ w.readData = NoCommand /\ w.atomicCMD = m.atomicCMD /\ w.writeData = m.writeData
          /\ w.dataBus = m.dataBus /\ w.downBuffers = m.downBuffers
      BY <3>1 DEF VaultShape
    <3> HIDE DEF w
    <3> QED BY <2>8, <3>2, <3>3
  <2>10. ReadDataCycle(v) = w
    BY <1>3 DEF ReadDataCycle, w, m
  <2> HIDE DEF w
  <2>11. ~NoCommand.last
    BY DEF NoCommand, NewCommand
  <2>12. Contents(arrived, w, D)
    <3>1. w.atomicCMD = NoCommand
          \/ (Returns(arrived, w.atomicCMD) /\ arrived[w.atomicCMD.tag].op \in AtomicOp)
      BY <2>1, <2>2, <2>8, <2>9 DEF Good, Contents, Stored
    <3> QED BY <2>9, <3>1 DEF Good, Contents
  <2>13. Once(w)
    BY <2>9 DEF Good, Once
  <2>14. CASE m.atomicCMD = v.atomicCMD
    <3>1. Labelled(arrived, w, D, at, Place)
      BY <2>9, <2>11, <2>14 DEF Good, Labelled
    <3>2. Locks(arrived, w, at) /\ Excludes(arrived, w, at)
      BY <2>9 DEF Good, Locks, Excludes
    <3>3. Good(arrived, w, D, at)
      BY <1>0, <2>9, <2>12, <2>13, <3>1, <3>2 DEF Good
    <3> QED BY <2>9, <2>10, <3>3
  <2>15. CASE Stored
    <3> DEFINE new == [at EXCEPT ![c.tag] = "atomic"]
    <3>1. c.last /\ at[c.tag] = "data" /\ "atomic" \in Place
      BY <2>2, <2>15 DEF Stored, Place
    <3>2. new \in [1 .. Len(arrived) -> Place] /\ Labelled(arrived, v, D, new, Place \ {"data"})
      <4>1. new \in [1 .. Len(arrived) -> Place] /\ Labelled(arrived, v, D, new, Place \ {at[c.tag]})
        BY <2>2, <3>1, MovesOn
      <4> QED BY <3>1, <4>1
    <3>3. new[c.tag] = "atomic" /\ \A t \in 1 .. Len(arrived) : t # c.tag => new[t] = at[t]
      BY <1>0, <2>2
    <3> HIDE DEF new
    <3>4. Labelled(arrived, w, D, new, Place)
      <4>1. \A x : Label(arrived, x) \in Place \ {"data"}
        BY DEF Label, Place
      <4>2. {"packet", "bus", "return", "write"} \subseteq Place \ {"data"}
        BY DEF Place
      <4>3. w.atomicCMD = c
        BY <2>9, <2>15 DEF Stored
      <4> QED BY <2>9, <2>11, <3>2, <3>3, <4>1, <4>2, <4>3 DEF Labelled
    <3>5. Locks(arrived, w, new) /\ Excludes(arrived, w, new)
      <4>1. Locks(arrived, w, new)
        BY <2>9, <3>1, <3>3 DEF Good, Locks
      <4>2. Excludes(arrived, w, new)
        BY <2>9, <3>1, <3>3 DEF Good, Excludes
      <4> QED BY <4>1, <4>2
    <3>6. Good(arrived, w, D, new)
      BY <2>9, <2>12, <2>13, <3>2, <3>4, <3>5 DEF Good
    <3> QED BY <2>9, <2>10, <3>6
  <2> QED BY <2>8, <2>14, <2>15
<1> QED BY <1>1, <1>2, <1>3

\* The data of a read comes on its way to the controller.
LEMMA ReadReturnGood ==
  ASSUME NEW a, NEW v, NEW D, NEW at, Good(a, v, D, at)
  PROVE  /\ \E new : Good(a, ReadReturnCycle(v), D, new)
         /\ ReadReturnCycle(v).downBuffers = v.downBuffers
<1> DEFINE q == v.readReturn
<1>0. v \in VaultShape /\ q \in Seq(DRAMCommand \X Int) /\ at \in [1 .. Len(a) -> Place]
  BY DEF Good, VaultShape
<1>1. CASE ~(q # <<>> /\ q[1][2] = 0)
  <2> DEFINE w == [v EXCEPT !.readReturn = Sooner(q)]
  <2>1. /\ w \in VaultShape /\ w.poppedCMD = v.poppedCMD /\ w.queue = v.queue
        /\ w.atomicLock = v.atomicLock /\ w.cmdBus = v.cmdBus /\ w.readReturn = Sooner(q)
        /\ w.readData = v.readData /\ w.atomicCMD = v.atomicCMD /\ w.writeData = v.writeData
        /\ w.dataBus = v.dataBus /\ w.downBuffers = v.downBuffers
    BY ZenonT(60), <1>0, SoonerLaws DEF VaultShape
  <2> HIDE DEF w
  <2>2. /\ DOMAIN w.readReturn = DOMAIN q
        /\ \A i \in DOMAIN q : w.readReturn[i][1] = q[i][1]
    BY <1>0, <2>1, SoonerLaws
  <2>3. Contents(a, w, D)
    BY <2>1, <2>2 DEF Good, Contents
  <2>4. Labelled(a, w, D, at, Place)
    BY <2>1, <2>2 DEF Good, Labelled
  <2>5. Once(w)
    BY <2>1, <2>2 DEF Good, Once, OnceTimed
  <2>6. Good(a, w, D, at)
    BY <2>1, <2>3, <2>4, <2>5 DEF Good, Locks, Excludes
  <2>7. ReadReturnCycle(v) = w
    BY <1>1 DEF ReadReturnCycle, w
  <2> QED BY <2>1, <2>6, <2>7
<1>2. CASE q # <<>> /\ q[1][2] = 0
  <2> DEFINE r == Sooner(Tail(q))
             c == q[1][1]
             w == [v EXCEPT !.readData = c, !.readCyclesLeft = BL, !.readReturn = r]
  <2>1. /\ r \in Seq(DRAMCommand \X Int) /\ c \in DRAMCommand
        /\ DOMAIN q = 1 .. Len(q) /\ Len(q) \in Nat \ {0} /\ DOMAIN r = 1 .. Len(q) - 1
        /\ \A i \in 1 .. Len(q) - 1 : r[i][1] = q[i + 1][1]
    BY <1>0, <1>2, TakenLaws
  <2> HIDE DEF r
  <2>2. /\ w \in VaultShape /\ w.poppedCMD = v.poppedCMD /\ w.queue = v.queue
        /\ w.atomicLock = v.atomicLock /\ w.cmdBus = v.cmdBus /\ w.readReturn = r
        /\ w.readData = c /\ w.atomicCMD = v.atomicCMD /\ w.writeData = v.writeData
        /\ w.dataBus = v.dataBus /\ w.downBuffers = v.downBuffers
    <3>1. c \in Command /\ BL \in Nat
      BY <2>1, VaultSizes DEF Command
    <3> HIDE DEF c
    <3>2. w \in VaultShape
      BY ZenonT(60), <1>0, <2>1, <3>1 DEF VaultShape
    <3> QED BY ZenonT(60), <1>0, <3>2 DEF VaultShape
  <2>3. ReadReturnCycle(v) = w
    BY <1>2 DEF ReadReturnCycle, r
  <2> HIDE DEF w
  <2>4. /\ 1 \in DOMAIN q
        /\ \A i \in DOMAIN r : i + 1 \in DOMAIN q /\ i + 1 # 1 /\ r[i][1] = q[i + 1][1] /\ i \in Int
    BY SMTT(30), <2>1
  <2>5. Returns(a, c) /\ c.tag \in 1 .. Len(a)
    <3>1. Returns(a, c)
      BY <2>4 DEF Good, Contents
    <3> QED BY <3>1 DEF Returns, ReadsFor, IsOf
  <2>6. Contents(a, w, D)
    <3>1. \A i \in DOMAIN r : Returns(a, r[i][1])
      BY <2>4 DEF Good, Contents
    <3> QED BY <2>2, <2>5, <3>1 DEF Good, Contents
  <2>7. OnceTimed(q) /\ \A i \in DOMAIN q : q[i][1].last => at[q[i][1].tag] = "return"
    BY DEF Good, Once, Labelled, Place
  <2>8. Once(w)
    <3>1. OnceTimed(r)
      <4> SUFFICES ASSUME NEW i \in DOMAIN r, NEW j \in DOMAIN r, r[i][1].last, r[j][1].last,
                          r[i][1].tag = r[j][1].tag
                   PROVE  i = j
        BY DEF OnceTimed
      <4>1. i + 1 = j + 1
        BY <2>4, <2>7 DEF OnceTimed
      <4> QED BY <2>4, <4>1
    <3> QED BY <2>2, <3>1 DEF Good, Once
  <2> DEFINE new == IF c.last THEN [at EXCEPT ![c.tag] = "data"] ELSE at
  <2>9. /\ new \in [1 .. Len(a) -> Place] /\ (c.last => new[c.tag] = "data")
        /\ \A t \in 1 .. Len(a) : t # c.tag \/ ~c.last => new[t] = at[t]
    BY <1>0, <2>5 DEF Place
  <2>10. Labelled(a, v, D, new, Place \ {"return"})
    <3>1. CASE c.last
      <4>1. at[c.tag] = "return" /\ "data" \in Place
        BY <2>4, <2>7, <3>1 DEF Place
      <4>2. Labelled(a, v, D, [at EXCEPT ![c.tag] = "data"], Place \ {at[c.tag]})
        BY <2>5, <4>1, MovesOn
      <4> QED BY <3>1, <4>1, <4>2
    <3>2. CASE ~c.last
      BY <3>2 DEF Good, Labelled
    <3> QED BY <3>1, <3>2
  <2> HIDE DEF new
  <2>11. Labelled(a, w, D, new, Place)
    <3>1. \A i \in DOMAIN r : r[i][1].last => new[r[i][1].tag] = "return"
      <4> SUFFICES ASSUME NEW i \in DOMAIN r, r[i][1].last PROVE new[r[i][1].tag] = "return"
        OBVIOUS
      <4>1. at[r[i][1].tag] = "return" /\ r[i][1].tag \in 1 .. Len(a)
        <5>1. r[i][1].tag \in 1 .. Len(a)
          BY <2>4, TagsOf
        <5> QED BY <2>4, <2>7, <5>1
      <4>2. c.last => r[i][1].tag # c.tag
        BY <2>4, <2>7 DEF OnceTimed
      <4> QED BY <2>9, <4>1, <4>2
    <3>2. \A x : Label(a, x) \in Place \ {"return"}
      BY DEF Label, Place
    <3>3. {"packet", "bus", "atomic", "write"} \subseteq Place \ {"return"}
      BY DEF Place
    <3>4. w.readData.last => new[w.readData.tag] = "data"
      BY <2>2, <2>9
    <3> QED BY <2>2, <2>10, <3>1, <3>2, <3>3, <3>4 DEF Labelled
  <2>12. Locks(a, w, new) /\ Excludes(a, w, new)
    <3>1. \A t \in 1 .. Len(a) :
            at[t] = new[t] \/ (at[t] = "return" /\ new[t] = "data")
      BY <2>4, <2>7, <2>9
    <3>2. Locks(a, w, new)
      BY <2>2, <3>1 DEF Good, Locks
    <3>3. Excludes(a, w, new)
      BY <2>2, <3>1 DEF Good, Excludes
    <3> QED BY <3>2, <3>3
  <2>13. Good(a, w, D, new)
    BY <2>2, <2>6, <2>8, <2>9, <2>11, <2>12 DEF Good
  <2> QED BY <2>2, <2>3, <2>13
<1> QED BY <1>1, <1>2
-----------------------------------------------------------------------------
(* The calls *)

\* A step keeps Sound when it keeps Good and leaves the packets alone,
LEMMA StepSound ==
  ASSUME NEW v, NEW w, Sound(v),
         \A D, at : Good(arrived, v, D, at) =>
           (\E new : Good(arrived, w, D, new)) /\ w.downBuffers = v.downBuffers
  PROVE  Sound(w)
<1>1. PICK at : Good(arrived, v, ToSet(v.downBuffers), at)
  BY DEF Sound
<1>2. PICK new : Good(arrived, w, ToSet(w.downBuffers), new)
  BY <1>1
<1>3. new \in [1 .. Len(arrived) -> Place]
  BY <1>2 DEF Good
<1>4. w.downBuffers = v.downBuffers
  BY <1>1
<1> QED BY <1>2, <1>3, <1>4 DEF Sound

\* and when it changes nothing of which the invariant speaks.
LEMMA SameSound ==
  ASSUME NEW v, NEW w, Sound(v), Same(v, w)
  PROVE  Sound(w)
<1>1. \A D, at : Good(arrived, v, D, at) =>
        (\E new : Good(arrived, w, D, new)) /\ w.downBuffers = v.downBuffers
  BY SameGood DEF Same
<1> QED BY <1>1, StepSound

\* A vault has its fields.
LEMMA SoundShape ==
  ASSUME NEW v, Sound(v)
  PROVE  v \in VaultShape
  BY DEF Sound, Good

\* VaultController::UpdateCountdown.
LEMMA UpdateCountdownSound ==
  ASSUME Known, NEW v, Sound(v)
  PROVE  Sound(UpdateCountdown(v))
<1> DEFINE x == CommandBusCycle(v)
           y == DataBusCycle(x)
           z == WriteDataCycle(y)
<1>1. Sound(x)
  <2>1. \A D, at : Good(arrived, v, D, at) =>
          (\E new : Good(arrived, x, D, new)) /\ x.downBuffers = v.downBuffers
    BY CommandBusGood
  <2> QED BY <2>1, StepSound
<1> HIDE DEF x
<1>2. Sound(y)
  <2>1. \A D, at : Good(arrived, x, D, at) =>
          (\E new : Good(arrived, y, D, new)) /\ y.downBuffers = x.downBuffers
    BY DataBusGood
  <2> QED BY <1>1, <2>1, StepSound
<1> HIDE DEF y
<1>3. Sound(z)
  <2>1. \A D, at : Good(arrived, y, D, at) =>
          (\E new : Good(arrived, z, D, new)) /\ z.downBuffers = y.downBuffers
    BY WriteDataGood
  <2> QED BY <1>2, <2>1, StepSound
<1> HIDE DEF z
<1>4. Sound(RefreshCycle(z))
  BY <1>3, SoundShape, RefreshCycleSame, SameSound
<1> QED BY <1>4 DEF UpdateCountdown, x, y, z

\* VaultController::Update.
LEMMA VaultUpdateSound ==
  ASSUME Known, NEW v, Sound(v), NEW accepted
  PROVE  LET n == AtomicOperation(PopCommand(SendResponse(ConvertPackets(UpdateCountdown(v)), accepted)))
         IN  Sound([QueueCycle(EnablePowerdown(n)) EXCEPT !.bufPopDelay = Less1(@)])
<1> DEFINE u == UpdateCountdown(v)
           x == ConvertPackets(u)
           y == SendResponse(x, accepted)
           z == PopCommand(y)
           n == AtomicOperation(z)
           e == EnablePowerdown(n)
           q == QueueCycle(e)
           w == [q EXCEPT !.bufPopDelay = Less1(@)]
<1>1. Sound(u)
  BY UpdateCountdownSound
<1> HIDE DEF u
<1>2. Sound(x)
  <2>1. PICK at : Good(arrived, u, ToSet(u.downBuffers), at)
    BY <1>1 DEF Sound
  <2>2. IsInjective(u.downBuffers)
    BY <1>1 DEF Sound
  <2>3. /\ \E new : Good(arrived, x, ToSet(x.downBuffers), new)
        /\ IsInjective(x.downBuffers)
    BY <2>1, <2>2, ConvertGood
  <2> HIDE DEF x
  <2> QED BY <2>3 DEF Sound, Good
<1> HIDE DEF x
<1>3. Sound(y)
  BY <1>2, SoundShape, SendSame, SameSound
<1> HIDE DEF y
<1>4. Sound(z)
  <2>1. \A D, at : Good(arrived, y, D, at) =>
          (\E new : Good(arrived, z, D, new)) /\ z.downBuffers = y.downBuffers
    BY PopCommandGood
  <2> QED BY <1>3, <2>1, StepSound
<1> HIDE DEF z
<1>5. Sound(n)
  <2>1. \A D, at : Good(arrived, z, D, at) =>
          (\E new : Good(arrived, n, D, new)) /\ n.downBuffers = z.downBuffers
    BY AtomicOperationGood
  <2> QED BY <1>4, <2>1, StepSound
<1> HIDE DEF n
<1>6. Sound(e)
  BY <1>5, SoundShape, PowerdownSame, SameSound
<1> HIDE DEF e
<1>7. Sound(q)
  BY <1>6, SoundShape, QueueCycleSame, SameSound
<1> HIDE DEF q
<1>8. Same(q, w)
  <2>1. q \in VaultShape
    BY <1>7, SoundShape
  <2>2. Less1(q.bufPopDelay) \in {0, 1}
    <3>1. q.bufPopDelay \in {0, 1}
      BY <2>1 DEF VaultShape
    <3> QED BY <3>1 DEF Less1
  <2>3. \A k \in {0, 1} : Same(q, [q EXCEPT !.bufPopDelay = k])
    BY ZenonT(60), <2>1 DEF Same, VaultShape
  <2> QED BY <2>2, <2>3
<1>9. Sound(w)
  BY <1>7, <1>8, SameSound
<1> QED BY <1>9 DEF u, x, y, z, n, e, q

\* DRAM::Update.
LEMMA DRAMUpdateSound ==
  ASSUME Known, NEW v, Sound(v)
  PROVE  Sound([ReadReturnCycle(ReadDataCycle(v)) EXCEPT
                  !.bank = [b \in Banks |-> BankCycle(@[b])]])
<1> DEFINE x == ReadDataCycle(v)
           y == ReadReturnCycle(x)
           k == [b \in Banks |-> BankCycle(y.bank[b])]
           w == [y EXCEPT !.bank = [b \in Banks |-> BankCycle(@[b])]]
<1>1. Sound(x)
  <2>1. \A D, at : Good(arrived, v, D, at) =>
          (\E new : Good(arrived, x, D, new)) /\ x.downBuffers = v.downBuffers
    BY ReadDataGood
  <2> QED BY <2>1, StepSound
<1> HIDE DEF x
<1>2. Sound(y)
  <2>1. \A D, at : Good(arrived, x, D, at) =>
          (\E new : Good(arrived, y, D, new)) /\ y.downBuffers = x.downBuffers
    BY ReadReturnGood
  <2> QED BY <1>1, <2>1, StepSound
<1> HIDE DEF y
<1>3. k \in [Banks -> BankState]
  <2>1. \A b \in Banks : y.bank[b] \in BankState
    <3>1. y \in VaultShape
      BY <1>2, SoundShape
    <3> QED BY <3>1 DEF VaultShape
  <2> QED BY <2>1, BankCycleShape
<1>4. w = [y EXCEPT !.bank = k]
  OBVIOUS
<1>5. \A f \in [Banks -> BankState] : Same(y, [y EXCEPT !.bank = f])
  <2>1. y \in VaultShape
    BY <1>2, SoundShape
  <2> QED BY ZenonT(60), <2>1 DEF Same, VaultShape
<1> HIDE DEF k, w
<1>6. Same(y, w)
  BY <1>3, <1>4, <1>5
<1>7. Sound(w)
  BY <1>2, <1>6, SameSound
<1> QED BY <1>7 DEF w, y, x

\* One request more: what is known of the others still holds.
LEMMA ArriveGood ==
  ASSUME Known, NEW v, NEW D, NEW at, Good(arrived, v, D, at), NEW r \in Templates, NEW w,
         w.queue = v.queue, w.atomicLock = v.atomicLock, w.cmdBus = v.cmdBus,
         w.readReturn = v.readReturn, w.readData = v.readData, w.atomicCMD = v.atomicCMD,
         w.writeData = v.writeData, w.dataBus = v.dataBus
  PROVE  LET n == Len(arrived) + 1
             a == Append(arrived, r)
             new == [t \in 1 .. n |-> IF t = n THEN "packet" ELSE at[t]]
         IN  /\ new \in [1 .. Len(a) -> Place]
             /\ Contents(a, w, D \cup {n}) /\ Labelled(a, w, D \cup {n}, new, Place) /\ Once(w)
             /\ Locks(a, w, new) /\ Excludes(a, w, new)
<1> DEFINE n == Len(arrived) + 1
           a == Append(arrived, r)
           new == [t \in 1 .. n |-> IF t = n THEN "packet" ELSE at[t]]
<1>1. /\ Len(arrived) \in Nat /\ Len(a) = n /\ \A t \in 1 .. Len(arrived) : a[t] = arrived[t]
      /\ \A t \in 1 .. Len(arrived) : t \in 1 .. Len(a) /\ t # n
      /\ n \in 1 .. Len(a) /\ \A t \in 1 .. Len(a) : t = n \/ t \in 1 .. Len(arrived)
  BY DEF Known
<1>2. at \in [1 .. Len(arrived) -> Place] /\ "packet" \in Place
  BY DEF Good, Place
<1>3. /\ new \in [1 .. Len(a) -> Place] /\ new[n] = "packet"
      /\ \A t \in 1 .. Len(arrived) : new[t] = at[t]
  BY <1>1, <1>2
<1> HIDE DEF n, a, new
<1>4. /\ \A c : Waits(arrived, c) => Waits(a, c)
      /\ \A c : Returns(arrived, c) => Returns(a, c) /\ a[c.tag] = arrived[c.tag]
      /\ \A c : Stores(arrived, c) => Stores(a, c)
  <2>1. \A c : IsOf(arrived, c) => IsOf(a, c) /\ a[c.tag] = arrived[c.tag]
    BY <1>1 DEF IsOf
  <2>2. \A c : ReadsFor(arrived, c) => ReadsFor(a, c) /\ a[c.tag] = arrived[c.tag]
    BY <2>1 DEF ReadsFor
  <2>3. \A c : WritesFor(arrived, c) => WritesFor(a, c)
    BY <2>1 DEF WritesFor
  <2> QED BY <2>1, <2>2, <2>3 DEF Waits, Returns, Stores
<1>5. Contents(a, w, D \cup {n})
  <2>1. Contents(arrived, v, D)
    BY DEF Good
  <2>2. D \cup {n} \subseteq 1 .. Len(a)
    BY <1>1, <2>1 DEF Contents
  <2> QED BY <1>4, <2>1, <2>2 DEF Contents
<1>6. Labelled(a, w, D \cup {n}, new, Place)
  <2>1. Labelled(arrived, v, D, at, Place)
    BY DEF Good
  <2>2. \A l \in Queues : \A i \in DOMAIN v.queue[l] :
          /\ v.queue[l][i].tag \in 1 .. Len(arrived)
          /\ Label(a, v.queue[l][i]) = Label(arrived, v.queue[l][i])
    BY <1>1, TagsOf DEF Label
  <2>3. \A l \in Queues : \A i \in DOMAIN w.queue[l] :
          Final(w.queue[l][i]) /\ Label(a, w.queue[l][i]) \in Place =>
            new[w.queue[l][i].tag] = Label(a, w.queue[l][i])
    BY <1>3, <2>1, <2>2 DEF Labelled
  <2>4. \A t \in D \cup {n} : new[t] = "packet"
    BY <1>2, <1>3, <2>1, TagsOf DEF Labelled
  <2> QED BY <1>3, <2>1, <2>3, <2>4, TagsOf DEF Labelled
<1>7. Once(w)
  BY DEF Good, Once
<1>8. Locks(a, w, new)
  BY <1>1, <1>3 DEF Good, Locks
<1>9. Excludes(a, w, new)
  BY <1>1, <1>3 DEF Good, Excludes
<1> QED BY <1>3, <1>5, <1>6, <1>7, <1>8, <1>9 DEF n, a, new

\* What responses may be does not shrink when requests come.
LEMMA ShapeGrows ==
  ASSUME Known, NEW r, arrived' = Append(arrived, r)
  PROVE  Responses \subseteq Responses'
<1> SUFFICES ASSUME NEW u \in Responses PROVE u \in Responses'
  OBVIOUS
<1>1. \A t \in 1 .. Len(arrived) : arrived'[t] = arrived[t] /\ t \in 1 .. Len(arrived')
  BY DEF Known
<1>2. \A t \in 1 .. Len(arrived) : Resp(t)' = Resp(t)
  BY <1>1 DEF Resp, Op
<1>3. \A i \in DOMAIN u : u[i] # 0 => Resp(u[i])' = Resp(u[i]) /\ u[i] \in 1 .. Len(arrived')
  BY <1>1, <1>2 DEF Responses
<1> QED BY <1>3 DEF Responses

\* Initially, nothing is anywhere.
LEMMA VaultInvInit == Init => VaultInv
<1> SUFFICES ASSUME Init PROVE VaultInv
  OBVIOUS
<1>1. arrived = <<>> /\ Len(arrived) = 0 /\ Known
  BY VaultSizes DEF Init, Known
<1> DEFINE at == [t \in 1 .. 0 |-> "packet"]
<1>2. at \in [1 .. Len(arrived) -> Place]
  BY <1>1 DEF Place
<1> HIDE DEF at
<1>3. NewBank \in BankState
  BY DEF NewBank, BankState, CommandType, Reads, Writes
<1>4. <<>> \in Responses /\ NoCommand \in Command
  BY DEF Responses, Command
<1>5. NewVault \in VaultShape
  <2>1. /\ [t \in Tag |-> 0] \in [Tag -> 0 .. MaxPending]
        /\ [q \in Queues |-> <<>>] \in [Queues -> Seq(DRAMCommand)]
        /\ [q \in Queues |-> 0] \in [Queues -> {0, 1}]
        /\ [b \in Banks |-> 0] \in [Banks -> Nat]
        /\ [b \in Banks |-> NewBank] \in [Banks -> BankState]
    BY <1>3, VaultConstants
  <2>2. 0 \in Banks /\ REFRESH_PERIOD \in Int /\ "none" \in Fault
    BY VaultSizes DEF Fault
  <2> QED BY <1>4, <2>1, <2>2 DEF NewVault, VaultShape
<1>6. /\ s.downBuffers = <<>> /\ s.poppedCMD = NoCommand /\ s.queue = [q \in Queues |-> <<>>]
      /\ s.cmdBus = NoCommand /\ s.readReturn = <<>> /\ s.readData = NoCommand
      /\ s.atomicCMD = NoCommand /\ s.writeData = <<>> /\ s.dataBus = NoCommand
  BY DEF Init, NewVault
<1>7. ToSet(s.downBuffers) = {} /\ IsInjective(s.downBuffers)
  BY <1>6 DEF ToSet, IsInjective
<1>8. ~NoCommand.last /\ ~IsAccess(NoCommand)
  BY DEF NoCommand, NewCommand, IsAccess, Reads, Writes
<1>9. Contents(arrived, s, {})
  BY <1>6 DEF Contents
<1>10. Labelled(arrived, s, {}, at, Place)
  BY <1>6, <1>8 DEF Labelled
<1>11. Once(s)
  BY <1>6, <1>8 DEF Once, OnceQueued, OnceTimed
<1>12. Locks(arrived, s, at) /\ Excludes(arrived, s, at)
  BY <1>1 DEF Locks, Excludes
<1>13. Good(arrived, s, {}, at)
  BY <1>2, <1>5, <1>6, <1>9, <1>10, <1>11, <1>12 DEF Good, Init
<1> QED BY <1>1, <1>2, <1>7, <1>13 DEF VaultInv, Sound

\* The crossbar hands over a request packet.
LEMMA ArriveInv ==
  ASSUME VaultInv, Arrive
  PROVE  VaultInv'
<1> DEFINE n == Len(arrived) + 1
           d == s.downBuffers
<1>1. PICK r \in Templates : arrived' = Append(arrived, r)
  BY DEF Arrive
<1>2. /\ Known /\ IsInjective(d) /\ s \in VaultShape /\ d \in Seq(Tag) /\ s.bufPopDelay \in {0, 1}
      /\ Len(arrived) \in Nat
  BY SMTT(30), SoundShape DEF VaultInv, Sound, VaultShape, Known
<1>3. PICK at \in [1 .. Len(arrived) -> Place] : Good(arrived, s, ToSet(d), at)
  BY DEF VaultInv, Sound
<1> DEFINE new == [t \in 1 .. n |-> IF t = n THEN "packet" ELSE at[t]]
<1>4. Known'
  <2>1. Len(arrived) < MaxRequests
    BY DEF Arrive
  <2>2. arrived \in Seq(Templates) /\ MaxRequests \in Nat
    BY <1>2, VaultSizes DEF Known
  <2>3. arrived' \in Seq(Templates) /\ Len(arrived') = Len(arrived) + 1
    BY <1>1, <2>2
  <2> QED BY <1>2, <2>1, <2>2, <2>3 DEF Known
<1>5. n \in Tag
  <2>1. Len(arrived) < MaxRequests
    BY DEF Arrive
  <2>2. MaxRequests \in Nat
    BY VaultSizes
  <2>3. n \in 1 .. MaxRequests
    BY <1>2, <2>1, <2>2
  <2> QED BY <2>3 DEF Tag
<1>6. n \notin ToSet(d)
  BY <1>2, <1>3 DEF Good, Contents
<1>7. Append(d, n) \in Seq(Tag) /\ IsInjective(Append(d, n)) /\ ToSet(Append(d, n)) = ToSet(d) \cup {n}
  BY <1>2, <1>5, <1>6, AppendOnce
<1>8. s' \in VaultShape /\ s'.downBuffers = Append(d, n) /\ s'.poppedCMD = s.poppedCMD
  <2> DEFINE k == IF d = <<>> THEN 1 ELSE s.bufPopDelay
             x == Append(d, n)
  <2>1. s' = [s EXCEPT !.downBuffers = x, !.bufPopDelay = k]
    BY DEF Arrive
  <2>2. k \in {0, 1} /\ x \in Seq(Tag)
    BY <1>2, <1>7
  <2> HIDE DEF k, x
  <2>3. s' \in VaultShape
    BY ZenonT(60), <1>2, <2>1, <2>2 DEF VaultShape
  <2>4. s'.downBuffers = x /\ s'.poppedCMD = s.poppedCMD
    BY <1>2, <2>1 DEF VaultShape
  <2> QED BY <2>3, <2>4 DEF x
<1>9. /\ s'.queue = s.queue /\ s'.atomicLock = s.atomicLock /\ s'.cmdBus = s.cmdBus
      /\ s'.readReturn = s.readReturn /\ s'.readData = s.readData /\ s'.atomicCMD = s.atomicCMD
      /\ s'.writeData = s.writeData /\ s'.dataBus = s.dataBus
  BY <1>2 DEF Arrive, VaultShape
<1>10. s' \in VaultShape'
  BY <1>1, <1>2, <1>8, ShapeGrows DEF VaultShape
<1>11. /\ new \in [1 .. Len(arrived') -> Place]
       /\ Contents(arrived', s', ToSet(d) \cup {n})
       /\ Labelled(arrived', s', ToSet(d) \cup {n}, new, Place) /\ Once(s')
       /\ Locks(arrived', s', new) /\ Excludes(arrived', s', new)
  BY ZenonT(60), <1>1, <1>2, <1>3, <1>9, ArriveGood
<1>12. s.poppedCMD = NoCommand
  BY <1>3 DEF Good
<1>13. IsInjective(s'.downBuffers) /\ ToSet(s'.downBuffers) = ToSet(d) \cup {n}
  BY <1>7, <1>8
<1>14. PICK g \in [1 .. Len(arrived') -> Place] : g = new
  BY <1>11
<1> HIDE DEF new, n, d
<1>15. Good(arrived, s, ToSet(s.downBuffers), g)'
  BY <1>8, <1>10, <1>11, <1>12, <1>13, <1>14 DEF Good
<1>16. Sound(s)'
  BY <1>13, <1>14, <1>15 DEF Sound
<1> QED BY <1>4, <1>16 DEF VaultInv

\* The invariant is one.
LEMMA VaultInvNext == VaultInv /\ [Next]_vars => VaultInv'
<1> SUFFICES ASSUME VaultInv, [Next]_vars PROVE VaultInv'
  OBVIOUS
<1>1. ASSUME arrived' = arrived, Sound(s') PROVE VaultInv'
  <2>1. VaultShape' = VaultShape
    BY <1>1 DEF VaultShape, Responses, Resp, Op
  <2>2. Known'
    BY <1>1 DEF VaultInv, Known
  <2>3. PICK at \in [1 .. Len(arrived) -> Place] : Good(arrived, s', ToSet(s'.downBuffers), at)
    BY <1>1 DEF Sound
  <2>4. Good(arrived, s, ToSet(s.downBuffers), at)'
    BY <1>1, <2>1, <2>3 DEF Good
  <2>5. IsInjective(s'.downBuffers) /\ at \in [1 .. Len(arrived') -> Place]
    BY <1>1 DEF Sound
  <2> QED BY <2>2, <2>4, <2>5 DEF VaultInv, Sound
<1>2. CASE Arrive
  BY <1>2, ArriveInv
<1>3. CASE VaultUpdate
  <2>1. PICK accepted \in BOOLEAN :
          LET n == AtomicOperation(PopCommand(SendResponse(ConvertPackets(UpdateCountdown(s)), accepted)))
          IN  s' = [QueueCycle(EnablePowerdown(n)) EXCEPT !.bufPopDelay = Less1(@)]
    BY <1>3 DEF VaultUpdate
  <2>2. Sound(s')
    BY <2>1, VaultUpdateSound DEF VaultInv
  <2> QED BY <1>1, <1>3, <2>2 DEF VaultUpdate
<1>4. CASE DRAMUpdate
  <2>1. Sound(s')
    BY <1>4, DRAMUpdateSound DEF VaultInv, DRAMUpdate
  <2> QED BY <1>1, <1>4, <2>1 DEF DRAMUpdate
<1>5. CASE UNCHANGED vars
  BY <1>1, <1>5 DEF vars, VaultInv
<1> QED BY <1>2, <1>3, <1>4, <1>5 DEF Next

\* The invariant of the vault (VaultController::Update, CommandQueue::CmdPop,
\* DRAM::Update): every request's last access is at one place only, and an atomic
\* request that has been read holds the lock of its bank until it is written back.
THEOREM VaultInvariant == Spec => []VaultInv
<1>1. Init => VaultInv
  BY VaultInvInit
<1>2. VaultInv /\ [Next]_vars => VaultInv'
  BY VaultInvNext
<1> QED BY <1>1, <1>2, PTL DEF Spec

\* With a queue for each bank nothing else is read from or written to a bank
\* between the read and the write-back of an atomic request (the atomicLock of
\* CommandQueue::CmdPop).
THEOREM AtomicExclusion ==
  ASSUME QUE_PER_BANK
  PROVE  Spec => []AtomicExclusive
<1>1. VaultInv => AtomicExclusive
  <2> SUFFICES ASSUME VaultInv, NEW n \in Unfinished, IsAccess(s.cmdBus),
                      s.cmdBus.bank = arrived[n].bank
               PROVE  s.cmdBus.tag = n
    BY DEF AtomicExclusive
  <2>1. PICK at : Good(arrived, s, ToSet(s.downBuffers), at)
    BY DEF VaultInv, Sound
  <2>2. Contents(arrived, s, ToSet(s.downBuffers)) /\ Excludes(arrived, s, at)
    BY <2>1 DEF Good
  <2>3. NoCommand.tag = 0
    BY DEF NoCommand, NewCommand
  <2>4. ASSUME NEW c \in Returning \cup {s.atomicCMD}, WritesBack(c), n = c.tag
        PROVE  /\ n \in 1 .. Len(arrived) /\ arrived[n].op \in AtomicOp \ {"EQ"}
               /\ at[n] \in {"return", "data", "atomic"}
    <3>1. c # NoCommand /\ arrived[n].op \in AtomicOp \ {"EQ"}
      BY <2>3, <2>4 DEF WritesBack, Atomic, Op
    <3>2. Returns(arrived, c)
      BY <2>2, <2>4, <3>1 DEF Contents, Returning
    <3>3. n \in 1 .. Len(arrived) /\ c.last
      BY <2>4, <3>1, <3>2 DEF Returns, ReadsFor, IsOf
    <3>4. at[n] \in {"return", "data", "atomic"}
      BY <2>1, <2>4, <3>1, <3>3 DEF Good, Labelled, Place, Returning
    <3> QED BY <3>1, <3>3, <3>4
  <2>5. ASSUME NEW c \in InQueue, c.type \in Writes, Atomic(c), n = c.tag
        PROVE  /\ n \in 1 .. Len(arrived) /\ arrived[n].op \in AtomicOp \ {"EQ"} /\ at[n] = "back"
    <3>1. PICK q \in Queues : \E i \in DOMAIN s.queue[q] : c = s.queue[q][i]
      BY <2>5 DEF InQueue, ToSet
    <3>2. Waits(arrived, c) /\ (Final(c) => at[c.tag] = Label(arrived, c))
      <4>1. Label(arrived, c) \in Place
        BY DEF Label, Place
      <4> QED BY <2>1, <2>2, <3>1, <4>1 DEF Contents, Good, Labelled
    <3>3. arrived[n].op \in AtomicOp /\ c.type \notin Reads
      BY <2>5 DEF Atomic, Op, Reads, Writes
    <3>4. n \in 1 .. Len(arrived) /\ arrived[n].op \in AtomicOp \ {"EQ"} /\ c.last
      BY <2>5, <3>2, <3>3 DEF Waits, WritesFor, IsOf, AtomicOp
    <3> QED BY <2>5, <3>2, <3>3, <3>4 DEF Final, IsAccess, Label
  <2>6. /\ n \in 1 .. Len(arrived) /\ arrived[n].op \in AtomicOp \ {"EQ"}
        /\ at[n] \in {"return", "data", "atomic", "back"}
    BY <2>4, <2>5 DEF Unfinished
  <2> QED BY <2>2, <2>6 DEF Excludes
<1> QED BY <1>1, VaultInvariant, PTL
==============================================================================
