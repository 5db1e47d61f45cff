---------------------------- MODULE CommandQueue ----------------------------
(***************************************************************************)
(* The command queue of a vault and its scheduling policy: which command   *)
(* goes to the DRAM next, for the open page and the close page policy, one *)
(* queue per bank or one for all, with refresh and with the lock that keeps *)
(* an atomic request's read and write-back together.                       *)
(*                                                                         *)
(* arrived[tag] is the request a command belongs to.                       *)
(***************************************************************************)
EXTENDS DramBanks

CONSTANTS
  MAX_CMD_QUE,       \* commands a queue may hold
  MAX_VLT_BUF,       \* flits of either packet buffer of the vault
  MAX_ROW_ACCESSES,  \* row hits before a row is closed
  OPEN_PAGE,         \* open page or close page policy
  QUE_PER_BANK       \* one queue per bank or a single queue

ASSUME QueueConstants ==
  /\ MAX_CMD_QUE \in Nat \ {0}
  /\ MAX_VLT_BUF \in Nat \ {0}
  /\ MAX_ROW_ACCESSES \in Nat \ {0}
  /\ OPEN_PAGE \in BOOLEAN
  /\ QUE_PER_BANK \in BOOLEAN

VARIABLE arrived  \* the requests that came from the crossbar so far

-----------------------------------------------------------------------------
(* Requests.  size is in units of 16 bytes.  ATOMIC_R stands for the atomic *)
(* requests answered with data, ATOMIC_W for those answered without, EQ for *)
(* EQ8 and EQ16, which write nothing back; P_ATOMIC is posted.             *)

AtomicOp == {"ATOMIC_R", "ATOMIC_W", "P_ATOMIC", "EQ"}
Request ==
  [op: {"READ", "WRITE"} \cup AtomicOp, size: Nat \ {0}, bank: Banks, row: Nat]

Op(tag) == arrived[tag].op
Atomic(c) == c.tag # 0 /\ Op(c.tag) \in AtomicOp
WritesBack(c) == Atomic(c) /\ Op(c.tag) # "EQ"

\* Flits of the packet of a request, and of its response.
Lng(r) == IF r.op = "READ" THEN 1 ELSE 1 + r.size
Resp(tag) ==
  CASE Op(tag) = "READ" -> arrived[tag].size + 1
    [] Op(tag) \in {"WRITE", "ATOMIC_W", "EQ"} -> 1
    [] Op(tag) = "ATOMIC_R" -> 2
    [] Op(tag) = "P_ATOMIC" -> 0

\* Accesses of 32 bytes that a request takes.
Accesses(tag) == (arrived[tag].size + 1) \div 2

-----------------------------------------------------------------------------
Que(b) == IF QUE_PER_BANK THEN b ELSE 0
Queues == IF QUE_PER_BANK THEN Banks ELSE {0}
Queue(v, b) == v.queue[Que(b)]
IsEmpty(v) == \A q \in Queues : v.queue[q] = <<>>

AvailableSpace(v, b, n) ==
  Len(Queue(v, b)) + n + (IF v.atomicLock[b] # 0 THEN 1 ELSE 0) <= MAX_CMD_QUE

\* The commands cs, for bank b; the first to enter an empty queue waits a cycle.
Enqueue(v, b, cs) ==
  [v EXCEPT !.queue[Que(b)] = @ \o cs,
            !.popDelay[Que(b)] = IF Queue(v, b) = <<>> THEN Later(@, 1) ELSE @]

\* Mutant of ResponseFits: responses that are being prepared are not counted.
FitsBuffer(v, c) == arrived[c.tag].size + 1 <= MAX_VLT_BUF - Len(v.upBuffers)

\* Room for the response, besides the responses that are being prepared.
ResponseFits(v, c) ==
  v.pendingDataSize + arrived[c.tag].size + 1 <= MAX_VLT_BUF - Len(v.upBuffers)

\* Mutant of IsIssuable: the open row is not compared.
IssuableAnyRow(v, c) ==
  LET k == v.bank[c.bank]
      fewHits == v.rowAccessCounter[c.bank] < MAX_ROW_ACCESSES
  IN  \/ /\ c.type = "ACTIVATE"
         /\ k.state \in {"IDLE", "REFRESHING"}
         /\ k.nextActivate = 0
         /\ Len(v.tFAWCountdown) < 4
      \/ /\ c.type \in Writes
         /\ k.state = "ROW_ACTIVE" /\ k.nextWrite = 0
         /\ Atomic(c) \/ (fewHits /\ ResponseFits(v, c))
      \/ /\ c.type \in Reads
         /\ k.state = "ROW_ACTIVE" /\ k.nextRead = 0
         /\ fewHits /\ ResponseFits(v, c)

IsIssuable(v, c) ==
  LET k == v.bank[c.bank]
      fewHits == v.rowAccessCounter[c.bank] < MAX_ROW_ACCESSES
      openRow == k.state = "ROW_ACTIVE" /\ k.row = c.row
  IN  \/ /\ c.type = "ACTIVATE"
         /\ k.state \in {"IDLE", "REFRESHING"}
         /\ k.nextActivate = 0
         /\ Len(v.tFAWCountdown) < 4
      \/ /\ c.type \in Writes
         /\ openRow /\ k.nextWrite = 0
         /\ Atomic(c) \/ (fewHits /\ ResponseFits(v, c))
      \/ /\ c.type \in Reads
         /\ openRow /\ k.nextRead = 0
         /\ fewHits /\ ResponseFits(v, c)

-----------------------------------------------------------------------------
(* Taking a command out: it becomes poppedCMD. *)

Take(v, q, i) ==
  [v EXCEPT !.poppedCMD = v.queue[q][i], !.queue[q] = RemoveAt(@, i)]

\* While bank b is locked only the command at the front goes on, if it belongs
\* to the atomic request; its write ends the lock.
LockedReady(v, b) ==
  /\ Queue(v, b) # <<>>
  /\ Queue(v, b)[1].tag = v.atomicLock[b]
  /\ IsIssuable(v, Queue(v, b)[1])

\* Mutant of TakeLocked: the write-back does not end the lock.
TakeStillLocked(v, b) == Take(v, Que(b), 1)

TakeLocked(v, b) ==
  [Take(v, Que(b), 1) EXCEPT
     !.atomicLock[b] = IF Queue(v, b)[1].type \in Writes THEN 0 ELSE @]

\* Mutant of TakeFree: an atomic request does not lock the bank.
TakeUnlocked(v, b, i) == Take(v, Que(b), i)

\* A command of an atomic request that will write back locks a bank: the one
\* that was searched (open page), its own (close page).
TakeFree(v, b, i) ==
  LET c == Queue(v, b)[i]
  IN  [Take(v, Que(b), i) EXCEPT
         !.atomicLock[IF OPEN_PAGE THEN b ELSE c.bank] =
           IF WritesBack(c) THEN c.tag ELSE @]

\* Open page: a row hit also removes the ACTIVATE in front of it.
RowHit(v, b, i) == i > 1 /\ Queue(v, b)[i - 1].type = "ACTIVATE"

TakeHit(v, b, i) ==
  LET t == TakeFree(v, b, i)
  IN  IF ~RowHit(v, b, i) THEN t
      ELSE [t EXCEPT !.queue[Que(b)] = RemoveAt(@, i - 1),
                     !.rowAccessCounter[b] = @ + 1]

Precharge(v, b) ==
  [v EXCEPT !.rowAccessCounter[b] = 0,
            !.poppedCMD = NewCommand("PRECHARGE", 0, b, 0, TRUE)]

Refresh(v) ==
  [v EXCEPT !.refreshWaiting = FALSE,
            !.poppedCMD = NewCommand("REFRESH", 0, 0, 0, TRUE)]

-----------------------------------------------------------------------------
(* A waiting refresh: the first bank that stands in its way is dealt with. *)

InTheWay(v) ==
  {b \in Banks : \/ v.atomicLock[b] # 0
                 \/ v.bank[b].state = "ROW_ACTIVE"
                 \/ v.bank[b].nextActivate > 0}

\* Commands in the queue for the open row of bank b.
ToOpenRow(v, b) ==
  {i \in 1 .. Len(Queue(v, b)) : /\ Queue(v, b)[i].bank = b
                                 /\ Queue(v, b)[i].row = v.bank[b].row}

\* The open row of bank b is used up by a command that was already activated,
\* or else closed (open page).
ClearRow(v, b) ==
  LET hits == ToOpenRow(v, b)
      i == Min(hits)
  IN  IF hits # {} /\ Queue(v, b)[i].type # "ACTIVATE"
      THEN IF IsIssuable(v, Queue(v, b)[i]) THEN TakeFree(v, b, i) ELSE v
      ELSE IF OPEN_PAGE /\ v.bank[b].nextPrecharge = 0 THEN Precharge(v, b)
      ELSE v

\* Mutant of RefreshPop: the lock of an atomic request is ignored.
RefreshUnlocked(v) ==
  LET way == {b \in InTheWay(v) : \/ v.bank[b].state = "ROW_ACTIVE"
                                  \/ v.bank[b].nextActivate > 0}
      b == Min(way)
  IN  IF way = {}
      THEN IF v.bank[0].state # "POWERDOWN" THEN Refresh(v) ELSE v
      ELSE IF v.bank[b].state = "ROW_ACTIVE" THEN ClearRow(v, b)
      ELSE v

RefreshPop(v) ==
  LET b == Min(InTheWay(v))
  IN  IF InTheWay(v) = {}
      THEN IF v.bank[0].state # "POWERDOWN" THEN Refresh(v) ELSE v
      ELSE IF v.atomicLock[b] # 0
      THEN IF v.popDelay[Que(v.issuedBank)] = 0 /\ LockedReady(v, b)
           THEN TakeLocked(v, b) ELSE v
      ELSE IF v.bank[b].state = "ROW_ACTIVE" THEN ClearRow(v, b)
      ELSE v

-----------------------------------------------------------------------------
(* Normal scheduling: the banks in turn from issuedBank on, and in a queue *)
(* the first command that can be issued.                                   *)

\* Command i may not overtake an access in front of it that goes to its row.
DependencyFound(v, b, i) ==
  \E j \in 1 .. i - 1 : /\ Queue(v, b)[j].type # "ACTIVATE"
                        /\ Queue(v, b)[j].bank = Queue(v, b)[i].bank
                        /\ Queue(v, b)[j].row = Queue(v, b)[i].row

\* Close page: it stays behind its own ACTIVATE.
Paired(v, b, i) == RowHit(v, b, i) /\ Queue(v, b)[i - 1].tag = Queue(v, b)[i].tag

\* The positions that the search of bank b may stop at.
Candidates(v, b) ==
  IF v.popDelay[Que(b)] # 0 THEN {}
  ELSE IF v.atomicLock[b] # 0 THEN {i \in {1} : LockedReady(v, b)}
  ELSE {i \in 1 .. Len(Queue(v, b)) :
          /\ IsIssuable(v, Queue(v, b)[i])
          /\ ~IF OPEN_PAGE THEN DependencyFound(v, b, i) ELSE Paired(v, b, i)}

\* Close page: the search ends at a bank that is locked.
EndsSearch(v, b) ==
  ~OPEN_PAGE /\ v.popDelay[Que(b)] = 0 /\ v.atomicLock[b] # 0

TakeFrom(v, b) ==
  LET i == Min(Candidates(v, b))
  IN  IF v.atomicLock[b] # 0 THEN TakeLocked(v, b)
      ELSE IF OPEN_PAGE THEN TakeHit(v, b, i)
      ELSE TakeFree(v, b, i)

\* Open page, when nothing can be issued: the first open row that no command
\* wants, or that was hit too often, is closed.
CloseRow(v) ==
  LET idle == {b \in Banks :
                 /\ v.bank[b].state = "ROW_ACTIVE"
                 /\ v.atomicLock[b] = 0
                 /\ \/ ToOpenRow(v, b) = {}
                    \/ v.rowAccessCounter[b] >= MAX_ROW_ACCESSES
                 /\ v.bank[b].nextPrecharge = 0}
  IN  IF idle = {} THEN v ELSE Precharge(v, Min(idle))

NormalPop(v) ==
  LET nth(k) == (v.issuedBank + k) % NUM_BANKS
      stops == {k \in 0 .. NUM_BANKS - 1 :
                  Candidates(v, nth(k)) # {} \/ EndsSearch(v, nth(k))}
      b == nth(Min(stops))
      t == IF Candidates(v, b) = {} THEN v ELSE TakeFrom(v, b)
  IN  IF stops # {}
      THEN [t EXCEPT !.issuedBank =
                       IF EndsSearch(v, b) THEN b ELSE (b + 1) % NUM_BANKS]
      ELSE IF OPEN_PAGE THEN CloseRow(v) ELSE v

\* The window in which at most four rows may be activated.
FAWCycle(v) ==
  LET left == [i \in 1 .. Len(v.tFAWCountdown) |-> v.tFAWCountdown[i] - 1]
  IN  [v EXCEPT !.tFAWCountdown =
                  IF left # <<>> /\ left[1] = 0 THEN Tail(left) ELSE left]

\* CommandQueue::CmdPop: poppedCMD is NoCommand when nothing is popped.
CmdPop(v) ==
  LET n == FAWCycle(v)
      r == IF n.refreshWaiting THEN RefreshPop(n) ELSE n
      t == IF r.poppedCMD = NoCommand /\ (OPEN_PAGE \/ ~n.refreshWaiting)
           THEN NormalPop(r) ELSE r
  IN  IF t.poppedCMD.type = "ACTIVATE"
      THEN [t EXCEPT !.tFAWCountdown = Append(@, T.tFAW)] ELSE t

\* CommandQueue::Update.
QueueCycle(v) == [v EXCEPT !.popDelay = [q \in Queues |-> Less1(@[q])]]
=============================================================================
