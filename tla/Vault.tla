------------------------------- MODULE Vault -------------------------------
(***************************************************************************)
(* One vault of the cube: the controller that turns request packets of the *)
(* crossbar into DRAM commands, its command queue, and the DRAM whose data *)
(* comes back as response packets.                                         *)
(*                                                                         *)
(* HMC::Update calls the crossbar, then every vault controller, then every *)
(* DRAM, once per cycle; the vaults share nothing.  Here: any number of    *)
(* arrivals, VaultUpdate, DRAMUpdate, and again.                           *)
(*                                                                         *)
(* Abstracted: data, columns and latency bookkeeping.  A packet is the     *)
(* number of its request (the TAG).  The crossbar is external: it sends any *)
(* request that fits and takes or refuses any response.                    *)
(***************************************************************************)
EXTENDS CommandQueue, Loops

CONSTANTS
  USE_LOW_POWER,   \* power-down mode
  REFRESH_PERIOD,  \* cycles between refreshes
  Templates,       \* requests that may arrive, none beyond ADDRESS_MAPPING
  MaxRequests,     \* bound on the number of requests
  Refusals,        \* bound on the responses the crossbar refuses
  MaxPending       \* bound on the count of a TAG in pendingReadData

ASSUME VaultConstants ==
  /\ USE_LOW_POWER \in BOOLEAN
  /\ REFRESH_PERIOD \in Nat \ {0}
  /\ Templates \subseteq Request
  /\ \A r \in Templates : r.op \in AtomicOp => r.size = 1
  /\ \A r \in Templates : r.size <= 2 * BL
  /\ MaxRequests \in Nat
  /\ Refusals \in Nat
  /\ MaxPending \in Nat /\ \A r \in Templates : MaxPending > r.size

VARIABLES
  s,         \* the fields of the vault's three objects
  answered,  \* requests whose response the crossbar took, in that order
  turn,      \* "vault" or "dram": which Update comes next
  refused    \* how many responses were refused

vars == <<s, arrived, answered, turn, refused>>

Tag == 1 .. MaxRequests

Fault == {"none", "upBufferFull", "dataBusCollision", "noMatch", "cmdBusCollision"}

Command == DRAMCommand \cup {NoCommand}

VaultState ==
  [\* VaultController
   downBuffers: Seq(Tag), upBuffers: Seq(Nat), bufPopDelay: {0, 1},
   refreshCountdown: Nat, powerDown: BOOLEAN, poppedCMD: {NoCommand},
   atomicCMD: Command, atomicOperLeft: {0, 1}, pendingDataSize: Nat,
   pendingReadData: [Tag -> 0 .. MaxPending], cmdBus: Command,
   cmdCyclesLeft: Nat, dataBus: Command, dataCyclesLeft: Nat,
   writeData: Seq(DRAMCommand \X Nat), fault: Fault,
   \* CommandQueue
   queue: [Queues -> Seq(DRAMCommand)], popDelay: [Queues -> {0, 1}],
   issuedBank: Banks, refreshWaiting: BOOLEAN, atomicLock: [Banks -> 0 .. MaxRequests],
   tFAWCountdown: Seq(Nat), rowAccessCounter: [Banks -> Nat],
   \* DRAM
   bank: [Banks -> BankState], readReturn: Seq(DRAMCommand \X Nat),
   readData: Command, readCyclesLeft: Nat]

NewVault ==
  [downBuffers |-> <<>>, upBuffers |-> <<>>, bufPopDelay |-> 0,
   refreshCountdown |-> REFRESH_PERIOD, powerDown |-> FALSE,
   poppedCMD |-> NoCommand, atomicCMD |-> NoCommand, atomicOperLeft |-> 0,
   pendingDataSize |-> 0, pendingReadData |-> [t \in Tag |-> 0],
   cmdBus |-> NoCommand, cmdCyclesLeft |-> 0, dataBus |-> NoCommand,
   dataCyclesLeft |-> 0, writeData |-> <<>>, fault |-> "none",
   queue |-> [q \in Queues |-> <<>>], popDelay |-> [q \in Queues |-> 0],
   issuedBank |-> 0, refreshWaiting |-> FALSE,
   atomicLock |-> [b \in Banks |-> 0], tFAWCountdown |-> <<>>,
   rowAccessCounter |-> [b \in Banks |-> 0],
   bank |-> [b \in Banks |-> NewBank], readReturn |-> <<>>,
   readData |-> NoCommand, readCyclesLeft |-> 0]

\* An ERROR branch that ends in exit(0).
Fail(v, f) == IF v.fault = "none" THEN [v EXCEPT !.fault = f] ELSE v

\* The entries of a queue of <<command, countdown>> one cycle later.
Sooner(q) == [i \in 1 .. Len(q) |-> <<q[i][1], q[i][2] - 1>>]

-----------------------------------------------------------------------------
(* VaultController *)

\* A response and its virtual tails; 0 is the NULL of a tail.
Flits(tag) == <<tag>> \o [i \in 1 .. Resp(tag) - 1 |-> 0]

\* Mutant of MakeRespondPacket: the reservation is kept.
RespondKeeping(v, c) ==
  IF Len(v.upBuffers) + Resp(c.tag) <= MAX_VLT_BUF
  THEN [v EXCEPT !.upBuffers = @ \o Flits(c.tag)] ELSE Fail(v, "upBufferFull")

MakeRespondPacket(v, c) ==
  LET n == [v EXCEPT !.pendingDataSize = @ - Resp(c.tag)]
  IN  IF Len(v.upBuffers) + Resp(c.tag) <= MAX_VLT_BUF
      THEN [n EXCEPT !.upBuffers = @ \o Flits(c.tag)] ELSE Fail(n, "upBufferFull")

\* UpdateCountdown, in its four parts: the command bus, the data bus, the write
\* data that waits for it, and the refresh.
CommandBusCycle(v) ==
  IF v.cmdBus = NoCommand THEN v
  ELSE IF v.cmdCyclesLeft > 1 THEN [v EXCEPT !.cmdCyclesLeft = @ - 1]
  ELSE [ReceiveCMD(v, v.cmdBus) EXCEPT !.cmdBus = NoCommand, !.cmdCyclesLeft = 0]

DataBusCycle(v) ==
  LET c == v.dataBus
      n == IF c.last /\ ~Atomic(c) THEN MakeRespondPacket(v, c) ELSE v
  IN  IF c = NoCommand THEN v
      ELSE IF v.dataCyclesLeft > 1 THEN [v EXCEPT !.dataCyclesLeft = @ - 1]
      ELSE [n EXCEPT !.dataBus = NoCommand, !.dataCyclesLeft = 0]

WriteDataCycle(v) ==
  IF v.writeData = <<>> THEN v
  ELSE IF v.writeData[1][2] > 0 THEN [v EXCEPT !.writeData = Sooner(@)]
  ELSE IF v.dataBus # NoCommand THEN Fail(v, "dataBusCollision")
  ELSE [v EXCEPT !.dataBus = v.writeData[1][1], !.dataCyclesLeft = BL,
                 !.writeData = Sooner(Tail(@))]

RefreshCycle(v) ==
  IF v.refreshCountdown > 1 THEN [v EXCEPT !.refreshCountdown = @ - 1]
  ELSE [v EXCEPT !.refreshWaiting = TRUE, !.refreshCountdown = REFRESH_PERIOD]

UpdateCountdown(v) == RefreshCycle(WriteDataCycle(DataBusCycle(CommandBusCycle(v))))

\* Mutant of CommandsOf: no command closes the row.
CommandsPlain(tag) ==
  LET r == arrived[tag]
      n == Accesses(tag)
  IN  <<NewCommand("ACTIVATE", tag, r.bank, r.row, TRUE)>> \o
        [i \in 1 .. n |-> NewCommand(IF r.op = "WRITE" THEN "WRITE" ELSE "READ",
                                    tag, r.bank, r.row, i = n)]

\* ConvPacketIntoCMDs, when there is room: ACTIVATE and one command for each 32
\* bytes, the last with auto-precharge (close page).
CommandsOf(tag) ==
  LET r == arrived[tag]
      n == Accesses(tag)
      plain == IF r.op = "WRITE" THEN "WRITE" ELSE "READ"
      final == IF OPEN_PAGE \/ r.op \in AtomicOp THEN plain
               ELSE IF r.op = "WRITE" THEN "WRITE_P" ELSE "READ_P"
  IN  <<NewCommand("ACTIVATE", tag, r.bank, r.row, TRUE)>> \o
        [i \in 1 .. n |->
           NewCommand(IF i < n THEN plain ELSE final, tag, r.bank, r.row, i = n)]

\* A read notes its TAG in pendingReadData, times times.
NotePending(v, tag, times) ==
  IF Op(tag) = "WRITE" THEN v
  ELSE [v EXCEPT !.pendingReadData[tag] =
          IF @ + times < MaxPending THEN @ + times ELSE MaxPending]

\* The packet in Update's loop over the packets, which works on the vault x.v, the
\* packets kept and whether this one is skipped.  A converted packet is erased and
\* the next one is passed over, for the index goes on all the same.
ConvPacketIntoCMDs(x, tag) ==
  LET n == NotePending(x.v, tag, 1)
      m == NotePending(n, tag, Accesses(tag))
      b == arrived[tag].bank
  IN  IF x.skip THEN [x EXCEPT !.kept = Append(@, tag), !.skip = FALSE]
      ELSE IF AvailableSpace(n, b, Accesses(tag) + 1)
      THEN [x EXCEPT !.v = Enqueue(m, b, CommandsOf(tag)), !.skip = TRUE]
      ELSE [x EXCEPT !.v = n, !.kept = Append(@, tag)]

ConvertPackets(v) ==
  LET done == Repeat(LAMBDA x, i : ConvPacketIntoCMDs(x, v.downBuffers[i + 1]),
                     [v |-> v, kept |-> <<>>, skip |-> FALSE], Len(v.downBuffers))
  IN  IF v.bufPopDelay # 0 THEN v ELSE [done.v EXCEPT !.downBuffers = done.kept]

SendResponse(v, accepted) ==
  IF v.upBuffers = <<>> \/ ~accepted THEN v
  ELSE [v EXCEPT !.upBuffers = SubSeq(@, Resp(@[1]) + 1, Len(@))]

\* Does the popped command reserve room for a response?  (A posted request's
\* response has no flits.)
Reserves(c) == c.last /\ (c.type \in Reads \/ (c.type \in Writes /\ ~Atomic(c)))

\* The popped command goes to the command bus; a write's data is to follow.
PopCommand(v) ==
  LET n == CmdPop(v)
      c == n.poppedCMD
      m == [n EXCEPT
              !.writeData = IF c.type \in Writes
                            THEN Append(@, <<[c EXCEPT !.type = "WRITE_DATA"], WL>>) ELSE @,
              !.pendingDataSize = IF Reserves(c) THEN @ + Resp(c.tag) ELSE @,
              !.cmdBus = c, !.cmdCyclesLeft = T.tCMD, !.poppedCMD = NoCommand]
  IN  IF c = NoCommand THEN n
      ELSE IF n.cmdBus # NoCommand THEN Fail(m, "cmdBusCollision") ELSE m

\* The atomic operation takes a cycle; then the result is written back before
\* anything else of its queue, and the response is made.
AtomicOperation(v) ==
  LET c == v.atomicCMD
      back == [c EXCEPT !.type = IF OPEN_PAGE THEN "WRITE" ELSE "WRITE_P", !.last = TRUE]
      n == IF Op(c.tag) = "EQ" THEN v
           ELSE [v EXCEPT !.queue[Que(c.bank)] = <<back>> \o @]
      m == IF Op(c.tag) = "P_ATOMIC" THEN n ELSE MakeRespondPacket(n, c)
  IN  IF c = NoCommand THEN v
      ELSE IF v.atomicOperLeft > 0 THEN [v EXCEPT !.atomicOperLeft = @ - 1]
      ELSE [m EXCEPT !.atomicCMD = NoCommand]

EnablePowerdown(v) ==
  IF ~USE_LOW_POWER THEN v
  ELSE IF IsEmpty(v) /\ ~v.refreshWaiting THEN EnterPowerDown(v)
  ELSE IF v.powerDown /\ v.bank[0].nextPowerUp = 0 THEN LeavePowerDown(v)
  ELSE v

\* DRAM::UpdateState and, through it, VaultController::ReturnCommand.
ReturnCommand(v, c) ==
  LET n == [v EXCEPT !.pendingReadData[c.tag] = @ - 1]
  IN  IF v.dataBus # NoCommand THEN Fail(v, "dataBusCollision")
      ELSE IF v.pendingReadData[c.tag] = 0 THEN Fail(v, "noMatch")
      ELSE IF ~c.last THEN n
      ELSE IF Atomic(c) THEN [n EXCEPT !.atomicCMD = c, !.atomicOperLeft = 1]
      ELSE MakeRespondPacket(n, c)

ReadDataCycle(v) ==
  IF v.readData = NoCommand THEN v
  ELSE IF v.readCyclesLeft > 1 THEN [v EXCEPT !.readCyclesLeft = @ - 1]
  ELSE [ReturnCommand(v, v.readData) EXCEPT !.readData = NoCommand, !.readCyclesLeft = 0]

ReadReturnCycle(v) ==
  IF v.readReturn # <<>> /\ v.readReturn[1][2] = 0
  THEN [v EXCEPT !.readData = v.readReturn[1][1], !.readCyclesLeft = BL,
                 !.readReturn = Sooner(Tail(@))]
  ELSE [v EXCEPT !.readReturn = Sooner(@)]

-----------------------------------------------------------------------------
(* Actions *)

Init ==
  /\ s = NewVault
  /\ arrived = <<>>
  /\ answered = <<>>
  /\ turn = "vault"
  /\ refused = 0

Running == s.fault = "none"

DownFlits == MapThenSumSet(LAMBDA i : Lng(arrived[s.downBuffers[i]]),
                           1 .. Len(s.downBuffers))

\* The crossbar hands over a request packet.
Arrive ==
  /\ Running
  /\ turn = "vault"
  /\ Len(arrived) < MaxRequests
  /\ \E r \in Templates :
       /\ DownFlits + Lng(r) <= MAX_VLT_BUF
       /\ arrived' = Append(arrived, r)
  /\ s' = [s EXCEPT !.downBuffers = Append(@, Len(arrived) + 1),
                    !.bufPopDelay = IF s.downBuffers = <<>> THEN 1 ELSE @]
  /\ UNCHANGED <<answered, turn, refused>>

\* accepted: the answer of the crossbar's ReceiveUp.
VaultUpdate ==
  /\ Running
  /\ turn = "vault"
  /\ turn' = "dram"
  /\ \E accepted \in BOOLEAN :
       LET v == ConvertPackets(UpdateCountdown(s))
           sends == accepted /\ v.upBuffers # <<>>
           n == AtomicOperation(PopCommand(SendResponse(v, accepted)))
       IN  /\ s' = [QueueCycle(EnablePowerdown(n)) EXCEPT !.bufPopDelay = Less1(@)]
           /\ answered' = IF sends THEN Append(answered, v.upBuffers[1]) ELSE answered
           /\ accepted \/ (v.upBuffers # <<>> /\ refused < Refusals)
           /\ refused' = IF accepted THEN refused ELSE refused + 1
  /\ UNCHANGED arrived

DRAMUpdate ==
  /\ Running
  /\ turn = "dram"
  /\ turn' = "vault"
  /\ s' = [ReadReturnCycle(ReadDataCycle(s)) EXCEPT
             !.bank = [b \in Banks |-> BankCycle(@[b])]]
  /\ UNCHANGED <<arrived, answered, refused>>

Next == Arrive \/ VaultUpdate \/ DRAMUpdate

Spec == Init /\ [][Next]_vars

\* The simulator goes on to the next call as long as it runs.  (Only Arrive
\* leaves turn alone, and VaultUpdate or DRAMUpdate is possible whenever Running.)
NextCall == Running /\ turn' \in {"vault", "dram"} \ {turn}
FairSpec == Spec /\ WF_turn(NextCall)

-----------------------------------------------------------------------------
(* Properties *)

TypeOK ==
  /\ s \in VaultState
  /\ arrived \in Seq(Templates)
  /\ answered \in Seq(Tag)
  /\ turn \in {"vault", "dram"}
  /\ refused \in 0 .. Refusals

InQueue == UNION {ToSet(s.queue[q]) : q \in Queues}
Returning == {s.readReturn[i][1] : i \in 1 .. Len(s.readReturn)} \cup {s.readData}
Writing == {s.writeData[i][1] : i \in 1 .. Len(s.writeData)} \cup {s.dataBus}

\* The requests whose last command was popped and whose response is not made.
Promised ==
  {c.tag : c \in {d \in Returning \cup {s.atomicCMD, s.cmdBus} :
                   d.last /\ d.type \in Reads \cup {"READ_DATA"}}
             \cup {d \in Writing : d.last /\ ~Atomic(d)}}

\* The flits of their responses.
Debt(tags) == Total([n \in 1 .. Len(arrived) |-> IF n \in tags THEN Resp(n) ELSE 0])

\* pendingDataSize is at any time the size of the responses that were promised
\* when their last command was popped, several cycles, objects and buses ago,
\* and together with those already made they fit the upstream buffer: no
\* response finds it full (the ERROR of VaultController.cpp:75).
ResponsesReserved ==
  /\ s.pendingDataSize = Debt(Promised)
  /\ Len(s.upBuffers) + s.pendingDataSize <= MAX_VLT_BUF

\* None of the ERROR branches of the vault ends the simulation: no bus collides,
\* every read finds its TAG and every response its place.
NoExit == Running

\* A command that left the queue still suits its bank while it waits on the
\* command bus: an access finds its row open, ACTIVATE a closed bank, PRECHARGE
\* an open one, and REFRESH no bank open or about to close, although banks may
\* fall asleep and wake up in between.
BusCommandLegal ==
  LET c == s.cmdBus
      k == s.bank[c.bank]
  IN  /\ IsAccess(c) => k.state = "ROW_ACTIVE" /\ k.row = c.row
      /\ c.type = "ACTIVATE" => k.state \in {"IDLE", "REFRESHING"}
      /\ c.type = "PRECHARGE" => k.state = "ROW_ACTIVE"
      /\ c.type = "REFRESH" =>
           \A b \in Banks : s.bank[b].state \notin {"ROW_ACTIVE", "PRECHARGING"}

\* An atomic request between its read and its write-back: nothing else is read
\* from or written to its bank.
Unfinished ==
  {c.tag : c \in {d \in Returning \cup {s.atomicCMD} : WritesBack(d)}
             \cup {d \in InQueue : d.type \in Writes /\ Atomic(d)}}

AtomicExclusive ==
  \A n \in Unfinished :
    IsAccess(s.cmdBus) /\ s.cmdBus.bank = arrived[n].bank => s.cmdBus.tag = n

\* "Time for a refresh issue a refresh" (VaultController.cpp:348): a refresh that
\* is due is issued in the end, whatever is open, locked or asleep.
RefreshHappens == s.refreshWaiting ~> ~s.refreshWaiting

\* A bank that began a refresh stays out of use until the refresh is over: its
\* countdown is not replaced by that of another state change.
RefreshCompletes ==
  [][\A b \in Banks :
       s.bank[b].lastCommand = "REFRESH" /\ s.bank[b].state = "REFRESHING"
         => \/ s'.bank[b].state \in {"REFRESHING", "IDLE"}
            \/ s.bank[b].nextActivate = 0]_vars

\* The vault answers every request that wants an answer, once.
Service ==
  INSTANCE MemoryService
    WITH Requests <- Templates, Wants <- LAMBDA r : r.op # "P_ATOMIC"
ServiceLive == Service!FairSpec
=============================================================================
