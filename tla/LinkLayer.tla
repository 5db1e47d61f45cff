----------------------------- MODULE LinkLayer -----------------------------
(***************************************************************************)
(* One HMC link, both directions: at each end a LinkMaster (transmitter,   *)
(* retry ring, token counter) and the LinkSlave next to it (receiver), and *)
(* the two wires between them (Link).  The upper layer (HMCController or   *)
(* CrossbarSwitch) hands packets to the LinkMaster and takes them from the *)
(* LinkSlave.                                                              *)
(*                                                                         *)
(* A member function of LinkMaster or LinkSlave is an operator from the    *)
(* record of the object before the call to the record after it; an Update()*)
(* is one action that applies them in the order of the code.  The buffers  *)
(* of the code hold one entry per FLIT: a packet of LNG flits is its head  *)
(* followed by LNG-1 NULL "virtual tails", so that size() counts flits.    *)
(* linkRxTx holds heads only.                                              *)
(*                                                                         *)
(* Here the Update calls of the six objects interleave freely, which covers *)
(* every ratio of the three clocks; LinkCycle runs the same actions in the *)
(* order of CasHMCWrapper::Update.  Abstracted: payload, addresses and     *)
(* TAGs (a packet is the number of its submission).  The low power states  *)
(* (QUIET and NULL packets) are not in this module.                        *)
(***************************************************************************)
EXTENDS Integers, FiniteSets, SequencesExt

CONSTANTS
  MAX_LINK_BUF,         \* flits of a link master or link slave buffer
  MAX_RETRY_BUF,        \* slots (flits) of the retry ring
  MAX_LNG,              \* flits of the longest packet
  NUM_OF_IRTRY,         \* IRTRY packets per retry sequence
  RETRY_ATTEMPT_LIMIT,  \* retry-timer expirations before giving up
  CRC_DELAY,            \* ceil(CRC_CAL_CYCLE * LNG): 1 at the shipped .01
  FLIT_TIME,            \* Link updates one flit takes, 128 / LINK_WIDTH
  Workload,             \* per end, the lengths of the packets submitted there
  MaxNoise,             \* bound on the packets hit by link noise
  NULL                  \* the NULL pointer of buffers and retry ring

End == {"host", "cube"}
Peer(e) == IF e = "host" THEN "cube" ELSE "host"

ASSUME LinkConstants ==
  /\ MAX_LINK_BUF \in Nat \ {0}
  /\ MAX_RETRY_BUF \in Nat \ {0}
  /\ MAX_LNG \in Nat \ {0}
  /\ NUM_OF_IRTRY \in Nat \ {0}
  /\ RETRY_ATTEMPT_LIMIT \in Nat \ {0}
  /\ CRC_DELAY \in {0, 1}
  /\ FLIT_TIME \in Nat \ {0}
  /\ Workload \in [End -> Seq(1 .. MAX_LNG)]
  /\ MaxNoise \in Nat

VARIABLES
  lm,         \* lm[e]: the LinkMaster object at end e
  ls,         \* ls[e]: the LinkSlave object at end e
  wire,       \* wire[e]: the Link that leaves end e: <<>> or its
              \* <<inFlightPacket, inFlightCountdown>>
  sent,       \* sent[e]: how many packets of Workload[e] were submitted
  delivered,  \* delivered[e]: numbers of the packets handed out at end e
  noise       \* how many packets were hit by noise so far

vars == <<lm, ls, wire, sent, delivered, noise>>

-----------------------------------------------------------------------------
(* Packets.  cmd "TRAN" is any request or response; the others are flow    *)
(* packets.  IRTRY_START is IRTRY with FRP[0] set (StartRetry), IRTRY_CLEAR *)
(* with FRP[1] set (ClearErrorAbort).                                      *)

Cmd == {"TRAN", "TRET", "PRET", "IRTRY_START", "IRTRY_CLEAR"}
Ptr == 0 .. MAX_RETRY_BUF - 1

Packet ==
  [id: Nat, cmd: Cmd, lng: 1 .. MAX_LNG, seq: 0 .. 7, frp: Ptr, rrp: Ptr,
   rtc: Nat, crc: BOOLEAN, chkRRP: BOOLEAN, bufPopDelay: {0, 1}]

ASSUME NullIsNoPacket == NULL \notin Packet

NewPacket(id, cmd, lng) ==
  [id |-> id, cmd |-> cmd, lng |-> lng, seq |-> 0, frp |-> 0, rrp |-> 0,
   rtc |-> 0, crc |-> TRUE, chkRRP |-> FALSE, bufPopDelay |-> 1]

\* A flow packet made by a link master: no delay downstream.
FlowPacket(m, cmd) ==
  [NewPacket(0, cmd, 1) EXCEPT !.bufPopDelay = IF m.downstream THEN 0 ELSE 1]

IrtryStream(m, cmd) ==
  [i \in 1 .. NUM_OF_IRTRY |-> [FlowPacket(m, cmd) EXCEPT !.rrp = m.lastestRRP]]

IsRetryControl(p) == p.cmd \in {"IRTRY_START", "IRTRY_CLEAR"}

\* A packet and its virtual tails.
Flits(p) == <<p>> \o [i \in 1 .. p.lng - 1 |-> NULL]
\* Mutant of DropFirst: only the head is erased.
DropHead(buf) == Tail(buf)

\* A buffer without its first packet.
DropFirst(buf) == SubSeq(buf, buf[1].lng + 1, Len(buf))

\* The part of Step() that counts bufPopDelay down.
StepDelay(buf) ==
  [i \in 1 .. Len(buf) |->
     IF buf[i] = NULL THEN NULL ELSE [buf[i] EXCEPT !.bufPopDelay = 0]]

\* The slots of the retry ring from pointer a up to, not including, b.
Slots(a, b) ==
  IF a <= b THEN a .. (b - 1) ELSE (a .. MAX_RETRY_BUF - 1) \cup (0 .. b - 1)

\* Mutant of Wrap: one slot too many.
WrapLate(i) == IF i <= MAX_RETRY_BUF THEN i ELSE i - MAX_RETRY_BUF

Wrap(i) == IF i < MAX_RETRY_BUF THEN i ELSE i - MAX_RETRY_BUF

-----------------------------------------------------------------------------
(* LinkMaster *)

LinkState == {"ACTIVE", "START_RETRY", "LINK_RETRY"}

\* The ERROR branches that end in exit(0), and one NULL dereference.
Fault == {"none", "tokenOverMaximum", "firstRetryPacketNULL",
          "noRetryPackets", "headIsTail", "retrySlotOccupied",
          "retryStartPacketSet", "retryStartPacketNULL", "slaveBufferFull"}

Flit == Packet \cup {NULL}

LinkMaster ==
  [downstream: BOOLEAN, Buffers: Seq(Flit), linkRxTx: Seq(Packet), backupBuffers: Seq(Flit),
   retryBuffers: [Ptr -> Flit], retBufReadP: Ptr, retBufWriteP: Ptr,
   lastestRRP: Ptr, tokenCount: Nat, masterSEQ: 0 .. 7,
   currentState: LinkState, startCRC: BOOLEAN, readyStartRetry: BOOLEAN,
   retryStartPacket: BOOLEAN, startRetryTimer: BOOLEAN,
   retryTimer: Nat, retryAttempts: Nat, fault: Fault]

NewLinkMaster(down) ==
  [downstream |-> down, Buffers |-> <<>>, linkRxTx |-> <<>>, backupBuffers |-> <<>>,
   retryBuffers |-> [s \in Ptr |-> NULL], retBufReadP |-> 0,
   retBufWriteP |-> 0, lastestRRP |-> 0, tokenCount |-> MAX_LINK_BUF,
   masterSEQ |-> 0, currentState |-> "ACTIVE", startCRC |-> FALSE,
   readyStartRetry |-> FALSE, retryStartPacket |-> FALSE,
   startRetryTimer |-> FALSE, retryTimer |-> 0, retryAttempts |-> 1, fault |-> "none"]

Fail(m, f) == IF m.fault = "none" THEN [m EXCEPT !.fault = f] ELSE m

\* SingleVectorObject::Receive: room for every flit of the packet?
HasRoom(buf, p) == Len(buf) + p.lng <= MAX_LINK_BUF

\* Mutants of UpdateRetryPointer: the slots are not freed, one slot too many is
\* freed.
AckKeepsSlots(m, p) == [m EXCEPT !.retBufReadP = p.rrp]

AckTooFar(m, p) ==
  [m EXCEPT
     !.retryBuffers = [s \in Ptr |->
        IF s \in Slots(m.retBufReadP, p.rrp) \cup {p.rrp}
        THEN NULL ELSE m.retryBuffers[s]],
     !.retBufReadP = p.rrp]

\* An arriving RRP frees the ring slots up to it.
UpdateRetryPointer(m, p) ==
  [m EXCEPT
     !.retryBuffers = [s \in Ptr |->
        IF s \in Slots(m.retBufReadP, p.rrp) THEN NULL ELSE m.retryBuffers[s]],
     !.retBufReadP = p.rrp]

\* Mutant of ReturnRetryPointer: no PRET.
NoPRET(m, p) == [m EXCEPT !.lastestRRP = p.frp]

\* The FRP of an accepted packet goes back as an RRP: with the next packet of
\* Buffers if there is one (UpdateField writes it), in a PRET otherwise.
ReturnRetryPointer(m, p) ==
  LET pret == [FlowPacket(m, "PRET") EXCEPT !.rrp = p.frp]
  IN  [m EXCEPT !.lastestRRP = p.frp,
                !.linkRxTx = IF m.Buffers = <<>> THEN Append(@, pret) ELSE @]

UpdateToken(m, p) ==
  LET n == [m EXCEPT !.tokenCount = @ + p.rtc]
  IN  IF p.rtc # 0 /\ n.tokenCount > MAX_LINK_BUF
      THEN Fail(n, "tokenOverMaximum") ELSE n

\* Mutant of ReturnTocken: the tokens replace those already in the packet.
TokensOverwrite(m, p) ==
  LET tret == [FlowPacket(m, "TRET") EXCEPT !.rtc = p.lng]
      at   == IF m.startCRC THEN m.Buffers[1].lng ELSE 0
  IN  IF m.Buffers # <<>> /\ m.Buffers[1].lng <= m.tokenCount
      THEN [m EXCEPT !.Buffers[1].rtc = p.lng]
      ELSE IF m.currentState = "LINK_RETRY"
      THEN [m EXCEPT !.backupBuffers = Append(@, tret)]
      ELSE [m EXCEPT !.Buffers =
              SubSeq(@, 1, at) \o <<tret>> \o SubSeq(@, at + 1, Len(@))]

\* Tokens of a packet that left the slave buffer: added to the first packet
\* of Buffers if that one can be paid for, sent in a TRET otherwise.
ReturnTocken(m, p) ==
  LET tret == [FlowPacket(m, "TRET") EXCEPT !.rtc = p.lng]
      at   == IF m.startCRC THEN m.Buffers[1].lng ELSE 0
  IN  IF m.Buffers # <<>> /\ m.Buffers[1].lng <= m.tokenCount
      THEN [m EXCEPT !.Buffers[1].rtc = @ + p.lng]
      ELSE IF m.currentState = "LINK_RETRY"
      THEN [m EXCEPT !.backupBuffers = Append(@, tret)]
      ELSE [m EXCEPT !.Buffers =
              SubSeq(@, 1, at) \o <<tret>> \o SubSeq(@, at + 1, Len(@))]

StartRetry(m) ==
  LET n == [m EXCEPT !.startRetryTimer = TRUE, !.retryTimer = 0]
  IN  IF m.currentState = "LINK_RETRY"
      THEN [n EXCEPT !.readyStartRetry = TRUE]
      ELSE [n EXCEPT
              !.linkRxTx = IrtryStream(m, "IRTRY_START") \o @,
              !.currentState = "START_RETRY"]

\* The content of the ring from the read to the write pointer, in order, as it
\* is sent again.
RetryWindow(m) ==
  LET n == IF m.retBufReadP <= m.retBufWriteP
           THEN m.retBufWriteP - m.retBufReadP
           ELSE m.retBufWriteP - m.retBufReadP + MAX_RETRY_BUF
      slot(i) == m.retryBuffers[Wrap(m.retBufReadP + i - 1)]
  IN  [i \in 1 .. n |->
         IF slot(i) = NULL THEN NULL
         ELSE [slot(i) EXCEPT !.bufPopDelay = IF m.downstream THEN 0 ELSE 1]]

\* Sum of the lengths of the requests and responses in the ring's window.
RetryToken(m) ==
  Cardinality({sj \in Slots(m.retBufReadP, m.retBufWriteP) \X (1 .. MAX_LNG) :
                 /\ m.retryBuffers[sj[1]] # NULL
                 /\ m.retryBuffers[sj[1]].cmd = "TRAN"
                 /\ sj[2] <= m.retryBuffers[sj[1]].lng})

\* Mutant of LinkRetry: the ring is not emptied.
RetryKeepsRing(m) ==
  [m EXCEPT !.startCRC = FALSE,
            !.linkRxTx = @ \o IrtryStream(m, "IRTRY_CLEAR"),
            !.masterSEQ = 0,
            !.backupBuffers = @ \o m.Buffers,
            !.Buffers = RetryWindow(m),
            !.tokenCount = @ + RetryToken(m),
            !.retBufWriteP = m.retBufReadP,
            !.currentState = "LINK_RETRY"]

\* The other end asked for retransmission.
LinkRetry(m) ==
  LET n == [m EXCEPT
              !.startCRC = FALSE,
              !.linkRxTx = @ \o IrtryStream(m, "IRTRY_CLEAR"),
              !.masterSEQ = 0,
              !.backupBuffers = @ \o m.Buffers,
              !.Buffers = <<>>]
  IN  IF m.retryBuffers[m.retBufReadP] = NULL
      THEN Fail(n, "firstRetryPacketNULL")
      ELSE IF m.retBufReadP = m.retBufWriteP
      THEN Fail(n, "noRetryPackets")
      ELSE [n EXCEPT
              !.Buffers = RetryWindow(m),
              !.retryBuffers = [s \in Ptr |->
                 IF s \in Slots(m.retBufReadP, m.retBufWriteP)
                 THEN NULL ELSE m.retryBuffers[s]],
              !.tokenCount = @ + RetryToken(m),
              !.retBufWriteP = m.retBufReadP,
              !.currentState = "LINK_RETRY"]

FinishRetry(m) ==
  [m EXCEPT !.currentState = "ACTIVE", !.retryStartPacket = FALSE,
            !.retryAttempts = 1, !.startRetryTimer = FALSE, !.retryTimer = 0]

\* UpdateField: number the packet, store a copy in the ring and move it to
\* linkRxTx.
UpdateField(m) ==
  LET p     == m.Buffers[1]
      nextP == Wrap(m.retBufWriteP + p.lng)
      out   == [p EXCEPT !.seq = IF m.masterSEQ < 7 THEN m.masterSEQ ELSE 0,
                         !.rrp = m.lastestRRP, !.frp = nextP, !.crc = TRUE]
      tails == {Wrap(m.retBufWriteP + i) : i \in 1 .. p.lng - 1}
      n     == [m EXCEPT
                  !.masterSEQ = IF @ < 7 THEN @ + 1 ELSE @,
                  !.startCRC = FALSE,
                  !.tokenCount = IF p.cmd = "TRAN" THEN @ - p.lng ELSE @,
                  !.retryBuffers = [s \in Ptr |->
                     IF s = m.retBufWriteP THEN out
                     ELSE IF s \in tails THEN NULL ELSE m.retryBuffers[s]],
                  !.retBufWriteP = nextP,
                  !.linkRxTx = Append(@, [out EXCEPT !.bufPopDelay = 1]),
                  !.Buffers = DropFirst(@)]
  IN  IF m.retryBuffers[m.retBufWriteP] = NULL
      THEN n ELSE Fail(m, "retrySlotOccupied")

\* Room between the write and the read pointer, one slot always kept free.
RetryRoom(m) ==
  LET w == m.retBufWriteP + m.Buffers[1].lng
  IN  IF m.retBufWriteP >= m.retBufReadP
      THEN w - m.retBufReadP < MAX_RETRY_BUF
      ELSE m.retBufReadP - w > 0

CanSend(m) ==
  /\ m.Buffers # <<>>
  /\ m.Buffers[1].bufPopDelay = 0
  /\ m.linkRxTx = <<>>
  /\ m.Buffers[1].cmd = "TRAN" => m.tokenCount >= m.Buffers[1].lng
  /\ RetryRoom(m)

\* Mutant of SendFirst: startCRC stays set when the packet leaves.
CRCStaysSet(m) ==
  IF m.Buffers # <<>> /\ m.Buffers[1] = NULL THEN Fail(m, "headIsTail")
  ELSE IF ~CanSend(m) THEN m
  ELSE IF CRC_DELAY = 1 /\ ~m.startCRC THEN [m EXCEPT !.startCRC = TRUE]
  ELSE [UpdateField(m) EXCEPT !.startCRC = m.startCRC]

\* First part of Update: the first packet waits for its CRC, then goes out.
SendFirst(m) ==
  IF m.Buffers # <<>> /\ m.Buffers[1] = NULL THEN Fail(m, "headIsTail")
  ELSE IF ~CanSend(m) THEN m
  ELSE IF CRC_DELAY = 1 /\ ~m.startCRC THEN [m EXCEPT !.startCRC = TRUE]
  ELSE UpdateField(m)

\* Mutant of FinishLinkRetry: the backup packets do not come back.
BackupStays(m) ==
  IF m.currentState = "LINK_RETRY" /\ m.Buffers = <<>> /\ m.linkRxTx = <<>>
  THEN [m EXCEPT !.currentState = "ACTIVE"] ELSE m

\* Second part: when everything was retransmitted, LINK_RETRY ends, a waiting
\* StartRetry begins and the backup packets come back.
FinishLinkRetry(m) ==
  LET n == [m EXCEPT !.Buffers = m.backupBuffers, !.backupBuffers = <<>>]
  IN  IF ~(m.currentState = "LINK_RETRY" /\ m.Buffers = <<>>
             /\ m.linkRxTx = <<>>)
      THEN m
      ELSE IF ~m.readyStartRetry THEN [n EXCEPT !.currentState = "ACTIVE"]
      ELSE IF ~m.retryStartPacket THEN Fail(n, "retryStartPacketNULL")
      ELSE [n EXCEPT
              !.readyStartRetry = FALSE,
              !.linkRxTx = IrtryStream(m, "IRTRY_START"),
              !.currentState = "START_RETRY"]

\* Third part: the retry timer runs, and expires.
RunRetryTimer(m) ==
  LET n == [m EXCEPT !.retryTimer = IF m.startRetryTimer THEN @ + 1 ELSE @]
  IN  IF n.retryTimer <= 4 * MAX_RETRY_BUF THEN n
      ELSE IF n.retryAttempts = RETRY_ATTEMPT_LIMIT THEN FinishRetry(n)
      ELSE StartRetry([n EXCEPT !.retryAttempts = @ + 1])

MasterStep(m) ==
  LET n == RunRetryTimer(FinishLinkRetry(SendFirst(m)))
  IN  [n EXCEPT !.Buffers = StepDelay(@)]

-----------------------------------------------------------------------------
(* LinkSlave *)

LinkSlave ==
  [linkRxTx: Seq(Packet), Buffers: Seq(Flit), slaveSEQ: 0 .. 7,
   currentState: {"ACTIVE", "START_RETRY"}, startCRC: BOOLEAN]

NewLinkSlave ==
  [linkRxTx |-> <<>>, Buffers |-> <<>>, slaveSEQ |-> 0,
   currentState |-> "ACTIVE", startCRC |-> FALSE]

\* The operators below take and give a pair: the slave at an end and the
\* LinkMaster at the same end (localLinkMaster).
Pair(m, s) == [lm |-> m, ls |-> s]

CheckNoError(s, p) ==
  /\ p.crc
  /\ p.seq = IF s.slaveSEQ < 7 THEN s.slaveSEQ ELSE 0

\* An IRTRY at position i of linkRxTx.
RetryControl(m, s, i) ==
  LET p == s.linkRxTx[i]
      n == UpdateRetryPointer(m, p)
      t == [s EXCEPT !.linkRxTx = RemoveAt(@, i)]
  IN  IF p.cmd = "IRTRY_START"
      THEN Pair(IF m.currentState # "LINK_RETRY" THEN LinkRetry(n) ELSE n, t)
      ELSE IF m.currentState \in {"START_RETRY", "LINK_RETRY"}
      THEN Pair(FinishRetry(n),
                [t EXCEPT !.currentState = "ACTIVE", !.slaveSEQ = 0])
      ELSE Pair(n, t)

\* A packet without error: acknowledge it, take its tokens, keep it.
AcceptPacket(m, s, i) ==
  LET p == s.linkRxTx[i]
      n == UpdateToken(ReturnRetryPointer(m, p), p)
      t == [s EXCEPT !.linkRxTx = RemoveAt(@, i)]
  IN  IF p.cmd = "TRET" THEN Pair(n, t)
      ELSE IF HasRoom(s.Buffers, p)
      THEN Pair(n, [t EXCEPT !.Buffers = @ \o Flits(p)])
      ELSE Pair(Fail(n, "slaveBufferFull"), t)

\* Mutant of AbortOnError: retransmission is not asked for.
SilentAbort(m, s) ==
  Pair(m, [s EXCEPT !.linkRxTx = <<>>, !.startCRC = FALSE,
                    !.currentState = "START_RETRY"])

\* A packet with an error: everything received is dropped and the local
\* master asks for retransmission.
AbortOnError(m, s) ==
  LET n == IF m.retryStartPacket THEN Fail(m, "retryStartPacketSet")
           ELSE [m EXCEPT !.retryStartPacket = TRUE]
  IN  Pair(StartRetry(n), [s EXCEPT !.linkRxTx = <<>>, !.startCRC = FALSE,
                                    !.currentState = "START_RETRY"])

CheckPacket(m, s, i) ==
  LET p == s.linkRxTx[i]
      t == [s EXCEPT !.slaveSEQ = IF @ < 7 THEN @ + 1 ELSE @]
  IN  IF CheckNoError(s, p) THEN AcceptPacket(m, t, i) ELSE AbortOnError(m, t)

\* The RRP of a packet is used once (chkRRP).
ExtractRRP(m, p) == IF p.chkRRP THEN m ELSE UpdateRetryPointer(m, p)

NeedsCheck(s, p) ==
  s.currentState # "START_RETRY" /\ p.cmd \in {"TRAN", "TRET"}

\* The body of the receive loop for the packet at position i, once its CRC
\* countdown is over.
Examine(m, s, i) ==
  LET p == s.linkRxTx[i]
      drop == [s EXCEPT !.linkRxTx = RemoveAt(@, i)]
  IN  IF IsRetryControl(p) THEN RetryControl(m, s, i)
      ELSE IF s.currentState = "START_RETRY" THEN Pair(m, drop)
      ELSE IF p.cmd = "PRET" THEN Pair(UpdateRetryPointer(m, p), drop)
      ELSE CheckPacket(ExtractRRP(m, p), [s EXCEPT !.startCRC = CRC_DELAY = 1], i)

\* The receive loop.  One packet is dealt with per update, the first that
\* arrived before the last update; while its CRC is awaited the loop goes on to
\* the second.
ReceiveLoop(m, s) ==
  LET ready(i) == i <= Len(s.linkRxTx) /\ s.linkRxTx[i].bufPopDelay = 0
      p == s.linkRxTx[1]
      waits == CRC_DELAY = 1 /\ ~s.startCRC /\ NeedsCheck(s, p)
      n == ExtractRRP(m, p)
      t == [s EXCEPT !.linkRxTx[1].chkRRP = TRUE, !.startCRC = TRUE]
  IN  IF ~ready(1) THEN Pair(m, s)
      ELSE IF ~waits THEN Examine(m, s, 1)
      ELSE IF ~ready(2) THEN Pair(n, t)
      ELSE Examine(n, t, 2)

\* Mutant of HandOut: the packet stays in the buffer.
HandOutCopy(q) == Pair(ReturnTocken(q.lm, q.ls.Buffers[1]), q.ls)

\* The first packet of the slave buffer goes to the upper layer.
HandOut(q) ==
  Pair(ReturnTocken(q.lm, q.ls.Buffers[1]),
       [q.ls EXCEPT !.Buffers = DropFirst(@)])

-----------------------------------------------------------------------------
(* Actions *)

Init ==
  /\ lm = [e \in End |-> NewLinkMaster(e = "host")]
  /\ ls = [e \in End |-> NewLinkSlave]
  /\ wire = [e \in End |-> <<>>]
  /\ sent = [e \in End |-> 0]
  /\ delivered = [e \in End |-> <<>>]
  /\ noise = 0

\* exit(0) ends the simulation.
Running == \A e \in End : lm[e].fault = "none"

\* The upper layer hands its next packet to the link master.  The crossbar and
\* the controller use a master that is ACTIVE or in LINK_RETRY; the controller
\* also adds a dependent request behind packets already waiting, in any state.
Submit(e) ==
  LET p == NewPacket(sent[e] + 1, "TRAN", Workload[e][sent[e] + 1])
  IN  /\ Running
      /\ sent[e] < Len(Workload[e])
      /\ \/ lm[e].currentState \in {"ACTIVE", "LINK_RETRY"}
         \/ e = "host" /\ lm[e].Buffers # <<>>
      /\ HasRoom(lm[e].Buffers, p)
      /\ lm' = [lm EXCEPT ![e].Buffers = @ \o Flits(p)]
      /\ sent' = [sent EXCEPT ![e] = @ + 1]
      /\ UNCHANGED <<ls, wire, delivered, noise>>

MasterUpdate(e) ==
  /\ Running
  /\ lm' = [lm EXCEPT ![e] = MasterStep(@)]
  /\ UNCHANGED <<ls, wire, sent, delivered, noise>>

\* The packet on a link after the first part of Link::Update, which takes the
\* next one if the link is idle.
Loading(e) ==
  /\ wire[e] = <<>>
  /\ lm[e].linkRxTx # <<>>
  /\ lm[e].linkRxTx[1].bufPopDelay = 0

InFlight(e) ==
  IF Loading(e)
  THEN <<lm[e].linkRxTx[1], FLIT_TIME * lm[e].linkRxTx[1].lng>>
  ELSE wire[e]

\* A transmission starts, goes on, or ends; noise may flip the CRC at the end.
\* lastUpdate: the last call of a CPU cycle also counts bufPopDelay down.
LinkUpdate(e, lastUpdate) ==
  LET w == InFlight(e)
      left == IF Loading(e) THEN Tail(lm[e].linkRxTx) ELSE lm[e].linkRxTx
  IN  /\ Running
      /\ lm' = [lm EXCEPT ![e].linkRxTx =
                           IF lastUpdate THEN StepDelay(left) ELSE left]
      /\ IF w # <<>> /\ w[2] = 1
         THEN /\ wire' = [wire EXCEPT ![e] = <<>>]
              /\ \E hit \in BOOLEAN :
                   /\ hit => noise < MaxNoise
                   /\ noise' = IF hit THEN noise + 1 ELSE noise
                   /\ ls' = [ls EXCEPT ![Peer(e)].linkRxTx = Append(@,
                        [w[1] EXCEPT !.crc = @ /\ ~hit, !.bufPopDelay = 1])]
         ELSE /\ wire' = [wire EXCEPT ![e] =
                   IF w = <<>> THEN w ELSE <<w[1], w[2] - 1>>]
              /\ UNCHANGED <<ls, noise>>
      /\ UNCHANGED <<sent, delivered>>

\* accepted: the answer of ReceiveDown or ReceiveUp of the destination.
SlaveUpdate(e) ==
  /\ Running
  /\ \E accepted \in BOOLEAN :
       LET q == ReceiveLoop(lm[e], ls[e])
           out == accepted /\ q.ls.Buffers # <<>> /\ q.lm.fault = "none"
           r == IF out THEN HandOut(q) ELSE q
       IN  /\ lm' = [lm EXCEPT ![e] = r.lm]
           /\ ls' = [ls EXCEPT ![e] =
                [r.ls EXCEPT !.linkRxTx = StepDelay(@)]]
           /\ delivered' = IF out
                THEN [delivered EXCEPT ![e] = Append(@, q.ls.Buffers[1].id)]
                ELSE delivered
  /\ UNCHANGED <<wire, sent, noise>>

Next ==
  \E e \in End :
    \/ Submit(e)
    \/ MasterUpdate(e)
    \/ \E lastUpdate \in BOOLEAN : LinkUpdate(e, lastUpdate)
    \/ SlaveUpdate(e)

Spec == Init /\ [][Next]_vars

-----------------------------------------------------------------------------
(* Properties *)

TypeOK ==
  /\ lm \in [End -> LinkMaster]
  /\ ls \in [End -> LinkSlave]
  /\ wire \in [End -> {<<>>} \cup (Packet \X (Nat \ {0}))]
  /\ sent \in [End -> Nat]
  /\ delivered \in [End -> Seq(Nat)]
  /\ noise \in 0 .. MaxNoise

\* Among the first n entries of buf every head is followed by its own virtual
\* tails and then by the next head, or by the end.
Chained(buf, n) ==
  \A i \in 1 .. n :
    buf[i] # NULL =>
      /\ i + buf[i].lng - 1 <= n
      /\ \A j \in i + 1 .. i + buf[i].lng - 1 : buf[j] = NULL
      /\ i + buf[i].lng <= n => buf[i + buf[i].lng] # NULL

Framed(buf) == Chained(buf, Len(buf)) /\ (buf # <<>> => buf[1] # NULL)

\* No buffer is ever cut in the middle of a packet: erase() and insert() with
\* an offset of LNG entries, the backup and the refill from the retry ring all
\* keep a head first and every tail behind its head (the ERROR of
\* LinkMaster::Update and LinkSlave::Update for a NULL Buffers[0]).
BuffersFramed ==
  \A e \in End :
    /\ Framed(lm[e].Buffers)
    /\ Framed(lm[e].backupBuffers)
    /\ Framed(ls[e].Buffers)

\* The retry ring holds packets only between its read and its write pointer,
\* whole and without gaps, although RRPs of the other end move the one pointer
\* and transmissions the other: a slot about to be written is free (the ERROR
\* of UpdateField) and LinkRetry finds every unacknowledged packet.
RingDiscipline ==
  \A e \in End :
    /\ \A s \in Ptr : lm[e].retryBuffers[s] # NULL =>
                       s \in Slots(lm[e].retBufReadP, lm[e].retBufWriteP)
    /\ Chained(RetryWindow(lm[e]), Len(RetryWindow(lm[e])))

\* The ERROR branches for a NULL Buffers[0] (LinkMaster.cpp:295) and for an
\* occupied slot of the retry ring (LinkMaster.cpp:436) are never taken.
NoFramingError ==
  \A e \in End : lm[e].fault \notin {"headIsTail", "retrySlotOccupied"}

\* The CRC being computed is that of a packet in Buffers: ReturnTocken reads
\* Buffers[0]->LNG whenever startCRC is set (LinkMaster.cpp:155), whatever a
\* retry sequence did to Buffers in the meantime.
CRCHasPacket == \A e \in End : lm[e].startCRC => lm[e].Buffers # <<>>

\* Everything sent from end e that its peer has not dealt with yet.
InTransit(e) ==
  lm[e].linkRxTx \o (IF wire[e] = <<>> THEN <<>> ELSE <<wire[e][1]>>)
    \o ls[Peer(e)].linkRxTx

Heads(buf) == {i \in 1 .. Len(buf) : buf[i] # NULL}
DataFlits(pkts) ==
  MapThenSumSet(LAMBDA i : pkts[i].lng,
                {i \in 1 .. Len(pkts) : pkts[i].cmd = "TRAN"})
ReturnedTokens(buf) == MapThenSumSet(LAMBDA i : buf[i].rtc, Heads(buf))

\* Flow control loses and invents no token: those of end e are in its token
\* count register, in use by packets on the way or in the peer's slave buffer,
\* or on the way back in the RTC field of a packet of the peer.
TokensConserved ==
  \A e \in End :
    MAX_LINK_BUF =
      lm[e].tokenCount + DataFlits(InTransit(e)) + Len(ls[Peer(e)].Buffers)
        + ReturnedTokens(lm[Peer(e)].Buffers)
        + ReturnedTokens(InTransit(Peer(e)))

Ids(buf) == {buf[i].id : i \in Heads(buf)}

\* A submitted packet waits at its end, or is kept in the retry ring, until the
\* peer has accepted it without error: no acknowledgement, retry sequence,
\* time-out or refill drops the last good copy.
NothingLost ==
  \A e \in End : \A n \in 1 .. sent[e] :
    \/ n \in Ids(lm[e].Buffers) \cup Ids(lm[e].backupBuffers)
    \/ \E s \in Ptr : /\ lm[e].retryBuffers[s] # NULL
                      /\ lm[e].retryBuffers[s].id = n
    \/ n \in Ids(ls[Peer(e)].Buffers) \cup Range(delivered[Peer(e)])

\* "Finish LinkRetry state, and then backup packets return to buffers"
\* (LinkMaster.cpp:326): packets set aside by LinkRetry never stay behind when
\* the LINK_RETRY state has been left, for nothing else brings them back.
BackupReturns ==
  \A e \in End :
    lm[e].backupBuffers # <<>> => lm[e].currentState = "LINK_RETRY"

\* When nothing is left to send in either direction every packet has been
\* acknowledged: the piggybacked RRP of one direction always finds a carrier.
AllAcknowledged ==
  (\A e \in End : /\ lm[e].Buffers = <<>>
                  /\ lm[e].currentState = "ACTIVE"
                  /\ InTransit(e) = <<>>)
     => \A e \in End : lm[e].retBufReadP = lm[e].retBufWriteP

\* The link is a channel: packets come out once, and in order if no noise hits.
Channel == INSTANCE PacketChannel
             WITH Load <- [e \in End |-> Len(Workload[e])],
                  Ordered <- MaxNoise = 0
ChannelSpec == Channel!Spec
=============================================================================
