-------------------------------- MODULE Cache --------------------------------
(***************************************************************************)
(* The cache front end (src/sources/cache): the object cache, its banks,   *)
(* their table of block requests, tag array and delays, and as much of the *)
(* memory behind it as the cache can see: a request buffer that refuses    *)
(* when it is full, and reads that return in any order.                    *)
(*                                                                         *)
(* c is the object cache.  c.banks[b] holds the fields of one CacheBank    *)
(* and of the objects in it, c.req is the host controller's request        *)
(* buffer.  Addresses are bytes.  The contents of a line are the address   *)
(* of the block they belong to.  A `while (1)` sets c.hung, after which    *)
(* nothing happens.  c.retired (blocks whose entry was erased since it was *)
(* made), c.lost (requests erased with their entry and not reported) and   *)
(* c.refused (transactions the full buffer turned away) are history.       *)
(***************************************************************************)
EXTENDS Loops, SequencesExt

CONSTANTS
  BLOCK_BYTES,  \* 1 << NUM_BYTE_OFFSET_BITS
  NUM_ROWS, NUM_WAYS, NUM_BANKS,
  BANK_BYTES,   \* 1 << LOG2_NUM_BYTES_PER_BANK
  MISS_TIME, HIT_TIME,
  MAX_REQ_BUF,  \* capacity of the host controller's request buffer
  UNSIGNED,     \* values of an unsigned: 2^32
  Addresses,    \* addresses the client uses
  MaxRequests,  \* bound: requests of the client
  Garbage       \* values the uninitialized next_state may have

ASSUME CacheConstants ==
  /\ {BLOCK_BYTES, NUM_ROWS, NUM_WAYS, NUM_BANKS, BANK_BYTES} \subseteq Nat \ {0}
  /\ {MISS_TIME, MAX_REQ_BUF, UNSIGNED} \subseteq Nat \ {0}
  /\ HIT_TIME \in Nat /\ HIT_TIME > MISS_TIME
  /\ BANK_BYTES % BLOCK_BYTES = 0
  /\ Addresses \subseteq Nat
  /\ MaxRequests \in Nat

VARIABLES
  c,        \* the object cache
  hmc,      \* reads sent to the memory and not returned
  cycle,    \* currentClockCycle, modulo 2
  returned  \* history: requests wait() has returned for

vars == <<c, hmc, cycle, returned>>
-----------------------------------------------------------------------------
(* utils.cpp *)
Index(a) == (a \div BLOCK_BYTES) % NUM_ROWS
Tag(a) == (a \div (BLOCK_BYTES * NUM_ROWS)) % UNSIGNED
\* Mutant of MakeAddr: the tag is shifted past the offset, and not past the index.
MakeLowAddr(a, tag) == (a % (BLOCK_BYTES * NUM_ROWS)) + tag * BLOCK_BYTES

MakeAddr(a, tag) ==
  (a % (BLOCK_BYTES * NUM_ROWS)) + tag * BLOCK_BYTES * NUM_ROWS
BankOf(a) == (a \div BANK_BYTES) % NUM_BANKS
BlockAddr(a) == a - (a % BLOCK_BYTES)

Blocks == {BlockAddr(a) : a \in Addresses}

\* The addresses are short enough for the cast to lose nothing of their tags; above
\* 2^45 two blocks would have one tag, and be written back to one address.
ASSUME TagsFit == \A a \in Blocks : a \div (BLOCK_BYTES * NUM_ROWS) < UNSIGNED

Bank == 0 .. NUM_BANKS - 1
Row == 0 .. NUM_ROWS - 1
Way == 0 .. NUM_WAYS - 1
ReqId == 0 .. MaxRequests - 1

HitState ==
  {"INVALID__RD_REQ_SENT_TO_CACHE", "INVALID__RW_REQ_SENT_TO_CACHE",
   "INVALID__RD_REQ_SENT_TO_CACHE_NEW_WR"}
ValidState ==
  {"VALID__WR_REQ_SENT_TO_CACHE", "VALID__CACHE_CHECK", "VALID__RW_REQ_SENT_TO_CACHE"}
block_state ==
  HitState \cup ValidState \cup {"INVALID__CACHE_CHECK", "INVALID__LINEFILL_REQ_SENT"}

(* DelayObject.h *)
Idle == [counter |-> 0, state |-> "IDLE"]
DelayUpdate(d) ==
  CASE d.counter > 1 -> [d EXCEPT !.counter = @ - 1]
    [] d.counter = 1 -> [counter |-> 0, state |-> "COMPLETE"]
    [] OTHER -> d
DelayComplete(d) == d.counter = 0 /\ d.state = "COMPLETE"
DelayStart(n) == [counter |-> n, state |-> "IN_PROGRESS"]
-----------------------------------------------------------------------------
(* std::map: m[x] = e, and m.insert({x, e}), which leaves an old entry alone. *)
Put(f, x, e) == [y \in DOMAIN f \cup {x} |-> IF y = x THEN e ELSE f[y]]
Insert(f, x, e) == IF x \in DOMAIN f THEN f ELSE Put(f, x, e)

(* block_requests.h.  operator[] of the map makes an entry when none is there. *)
NewEntry(ids, allReads) ==
  [req_ids |-> ids, state |-> "INVALID__CACHE_CHECK", all_reads |-> allReads, way |-> 0]

Entry(s, b, a) ==
  LET table == s.banks[b].table
  IN  IF a \in DOMAIN table THEN table[a] ELSE NewEntry(<<>>, FALSE)

PutEntry(s, b, a, entry) ==
  [s EXCEPT !.banks[b].table = Put(@, a, entry)]

SetState(s, b, a, state) ==
  PutEntry(s, b, a, [Entry(s, b, a) EXCEPT !.state = state])

SetWay(s, b, a, w) ==
  PutEntry(s, b, a, [Entry(s, b, a) EXCEPT !.way = w])

Erase(s, b, a) ==
  [s EXCEPT !.banks[b].table = [x \in DOMAIN @ \ {a} |-> @[x]]]

\* pending_transactions[addr]: the map's key is a request id, an unsigned; the code
\* looks up the address of the block, whose upper half is lost, and finds a default
\* transaction or a stranger's.
Key(a) == a % UNSIGNED
TypeAt(s, a) == IF Key(a) \in DOMAIN s.pending THEN s.pending[Key(a)] ELSE "READ"
LookedUp(s, a) ==
  IF Entry(s, BankOf(a), a).req_ids = <<>> THEN s
  ELSE [s EXCEPT !.pending = Insert(@, Key(a), "READ")]

\* Mutant of ServiceAll: the loop stops one short.
ServiceButLast(s, b, a) ==
  LET ids == Entry(s, b, a).req_ids
  IN  [LookedUp(s, a) EXCEPT !.completed = @ \cup {ids[i] : i \in 1 .. Len(ids) - 1}]

ServiceAll(s, b, a) ==
  [LookedUp(s, a) EXCEPT !.completed = @ \cup ToSet(Entry(s, b, a).req_ids)]

ServiceReads(s, b, a) ==
  IF Entry(s, b, a).req_ids # <<>> /\ TypeAt(s, a) # "READ"
  THEN [s EXCEPT !.hung = TRUE]
  ELSE ServiceAll(s, b, a)

ServiceLeadingReads(s, b, a) ==
  IF TypeAt(s, a) # "READ" THEN s ELSE ServiceAll(s, b, a)

\* new_read and new_write: what becomes of the request, and whether it is new.
Registered(s, b, op, a, id) ==
  LET e == Entry(s, b, a)
      joined == [e EXCEPT !.req_ids = Append(@, id)]
  IN  CASE a \notin DOMAIN s.banks[b].table ->
             [PutEntry(s, b, a, NewEntry(<<id>>, op = "READ")) EXCEPT !.retired = @ \ {a}]
        [] a \in DOMAIN s.banks[b].table /\ e.state \in ValidState -> s
        [] /\ a \in DOMAIN s.banks[b].table
           /\ op = "WRITE" /\ e.state = "INVALID__RD_REQ_SENT_TO_CACHE" ->
             PutEntry(s, b, a, [joined EXCEPT !.all_reads = FALSE,
                                  !.state = "INVALID__RD_REQ_SENT_TO_CACHE_NEW_WR"])
        [] OTHER -> PutEntry(s, b, a, joined)
-----------------------------------------------------------------------------
(* TagArray.h, way.h.  A row is a function from ways to lines. *)
Matches(line, a) == line.valid /\ line.tag = Tag(a)

\* check_tag: every way of the row grows older, those that hit are young again.
Aged(row, a) ==
  [w \in Way |-> [row[w] EXCEPT !.age = IF Matches(row[w], a) THEN 0 ELSE @ + 1]]
HitWays(row, a) == {w \in Way : Matches(row[w], a)}
LastOf(S) == CHOOSE w \in S : \A v \in S : v <= w
FirstOf(S) == CHOOSE w \in S : \A v \in S : v >= w

\* check_tag_evict: the way it takes for a block, in this order of preference.
FreeWays(row) == {w \in Way : ~row[w].valid}
Oldest(row) == {w \in Way : \A v \in Way : row[v].age <= row[w].age}
TakenWay(row, a) ==
  CASE HitWays(row, a) # {} -> LastOf(HitWays(row, a))
    [] HitWays(row, a) = {} /\ FreeWays(row) # {} -> FirstOf(FreeWays(row))
    [] OTHER -> FirstOf(Oldest(row))
MustEvict(row, a) == HitWays(row, a) = {} /\ FreeWays(row) = {}
-----------------------------------------------------------------------------

(* CasHMCWrapper::ReceiveTran as the banks call it: the result is ignored. *)
SendTran(s, tran) ==
  IF Len(s.req) < MAX_REQ_BUF
  THEN [s EXCEPT !.req = Append(@, tran)]
  ELSE [s EXCEPT !.refused = @ \cup {tran}]

(* CacheBank::do_tag_check *)
PopTag(s, b) == [s EXCEPT !.banks[b].tag_check_q = Tail(@)]
PushTag(s, b, a) == [s EXCEPT !.banks[b].tag_check_q = Append(@, a)]

PushData(s, b, a, n) ==
  [s EXCEPT !.banks[b].data_access_q = @ \o [i \in 1 .. n |-> a]]

Lookup(s, b, a) ==
  LET row == s.banks[b].tags[Index(a)]
      hit == HitWays(row, a) # {}
      aged == [s EXCEPT !.banks[b].tags[Index(a)] = Aged(row, a)]
      reads == Entry(s, b, a).all_reads
  IN  IF hit
      THEN SetState(SetWay(PushData(aged, b, a, IF reads THEN 1 ELSE 2),
                           b, a, LastOf(HitWays(row, a))),
                    b, a, IF reads THEN "INVALID__RD_REQ_SENT_TO_CACHE"
                                   ELSE "INVALID__RW_REQ_SENT_TO_CACHE")
      ELSE SetState(SendTran(aged, [op |-> "READ", adrs |-> a, data |-> a]),
                    b, a, "INVALID__LINEFILL_REQ_SENT")

Allocate(s, b, a) ==
  LET row == Aged(s.banks[b].tags[Index(a)], a)
      w == TakenWay(row, a)
      victim == MakeAddr(a, row[w].tag)
      taken == [s EXCEPT !.banks[b].tags[Index(a)] =
                  [row EXCEPT ![w] = [valid |-> TRUE, tag |-> Tag(a), age |-> 0]]]
      evicting == [taken EXCEPT !.banks[b].evict_q = Append(@, victim)]
  IN  IF MustEvict(row, a)
      THEN SetState(SetWay(PushData(evicting, b, a, 2), b, a, w),
                    b, a, "VALID__RW_REQ_SENT_TO_CACHE")
      ELSE SetState(SetWay(PushData(taken, b, a, 1), b, a, w),
                    b, a, "VALID__WR_REQ_SENT_TO_CACHE")

DoTagCheck(s, b) ==
  LET q == s.banks[b].tag_check_q
      a == Head(q)
      state == Entry(s, b, a).state
  IN  CASE q # <<>> /\ state = "INVALID__CACHE_CHECK" -> Lookup(PopTag(s, b), b, a)
        [] q # <<>> /\ state = "VALID__CACHE_CHECK" -> Allocate(PopTag(s, b), b, a)
        [] OTHER -> [s EXCEPT !.hung = TRUE]

(* CacheBank::do_data_access *)
PopData(s, b) == [s EXCEPT !.banks[b].data_access_q = Tail(@)]

Erased(s, b, a) ==
  [Erase(s, b, a) EXCEPT
     !.retired = @ \cup {a},
     !.lost = @ \cup (ToSet(Entry(s, b, a).req_ids) \ (s.completed \cup returned))]

\* erase(addr), and the set_state(addr, next_state) after it, whose next_state
\* no one has assigned: the entry is there again, without requests.
Retire(s, b, a, garbage) ==
  SetState(Erased(s, b, a), b, a, garbage)

\* Mutant of WriteLine: it serves the requests, as the comment there says.
WriteLineServing(s, b, a) ==
  [ServiceAll(s, b, a) EXCEPT !.banks[b].data[Index(a)][Entry(s, b, a).way] = a]

WriteLine(s, b, a) ==
  [s EXCEPT !.banks[b].data[Index(a)][Entry(s, b, a).way] = a]

\* The victim's line is read where the new block will go.
WriteBack(s, b, a) ==
  SendTran([s EXCEPT !.banks[b].evict_q = Tail(@)],
           [op |-> "WRITE", adrs |-> Head(s.banks[b].evict_q),
            data |-> s.banks[b].data[Index(a)][Entry(s, b, a).way]])

DoDataAccess(s, b, garbage) ==
  LET q == s.banks[b].data_access_q
      a == Head(q)
      t == PopData(s, b)
      state == IF q = <<>> THEN "none" ELSE Entry(s, b, a).state
  IN  CASE state = "INVALID__RD_REQ_SENT_TO_CACHE" ->
             Retire(ServiceReads(t, b, a), b, a, garbage)
        [] state = "INVALID__RW_REQ_SENT_TO_CACHE" ->
             SetState(ServiceAll(t, b, a), b, a, "VALID__WR_REQ_SENT_TO_CACHE")
        [] state = "VALID__WR_REQ_SENT_TO_CACHE" ->
             Retire(WriteLine(t, b, a), b, a, garbage)
        [] state = "INVALID__RD_REQ_SENT_TO_CACHE_NEW_WR" ->
             SetState(PushTag(ServiceLeadingReads(t, b, a), b, a),
                      b, a, "VALID__CACHE_CHECK")
        [] state = "VALID__RW_REQ_SENT_TO_CACHE" ->
             SetState(WriteBack(t, b, a), b, a, "VALID__WR_REQ_SENT_TO_CACHE")
        [] OTHER -> [s EXCEPT !.hung = TRUE]

\* Mutant of CheckHMCResp: the block stays in its state.
CheckHMCRespStay(s, b, resp) ==
  IF resp \in DOMAIN s.banks[b].table
  THEN PushTag(ServiceAll(s, b, resp), b, resp)
  ELSE s

(* CacheBank::check_hmc_resp, for the one block that may have arrived *)
CheckHMCResp(s, b, resp) ==
  CASE resp \notin DOMAIN s.banks[b].table -> s
    [] /\ resp \in DOMAIN s.banks[b].table
       /\ Entry(s, b, resp).state = "INVALID__LINEFILL_REQ_SENT" ->
         SetState(PushTag(ServiceAll(s, b, resp), b, resp), b, resp, "VALID__CACHE_CHECK")
    [] OTHER -> [s EXCEPT !.hung = TRUE]

(* CacheBank::process_request *)
ProcessRequest(s, b) ==
  LET k == s.banks[b]
      Started(d, q, n) == IF d.state = "IDLE" /\ q # <<>> THEN DelayStart(n) ELSE d
  IN  [s EXCEPT !.banks[b].tag_delay = Started(@, k.tag_check_q, MISS_TIME),
                !.banks[b].data_delay = Started(@, k.data_access_q, HIT_TIME - MISS_TIME)]

(* CacheBank::update *)
BankUpdate(s, b, resp, garbage) ==
  LET tagDelay == DelayUpdate(s.banks[b].tag_delay)
      dataDelay == DelayUpdate(s.banks[b].data_delay)
      Settled(d) == IF DelayComplete(d) THEN Idle ELSE d
      s1 == [s EXCEPT !.banks[b].tag_delay = Settled(tagDelay),
                      !.banks[b].data_delay = Settled(dataDelay)]
      s2 == IF DelayComplete(tagDelay) THEN DoTagCheck(s1, b) ELSE s1
      s3 == IF DelayComplete(dataDelay) THEN DoDataAccess(s2, b, garbage) ELSE s2
  IN  ProcessRequest(CheckHMCResp(s3, b, resp), b)
-----------------------------------------------------------------------------
NoLine == [valid |-> FALSE, tag |-> 0, age |-> 0]

Init ==
  /\ c = [banks |-> [b \in Bank |->
                       [table |-> <<>>, tag_check_q |-> <<>>, data_access_q |-> <<>>,
                        evict_q |-> <<>>, tag_delay |-> Idle, data_delay |-> Idle,
                        tags |-> [r \in Row |-> [w \in Way |-> NoLine]],
                        data |-> [r \in Row |-> [w \in Way |-> 0]]]],
          next_req_id |-> 0, pending |-> <<>>, completed |-> {}, req |-> <<>>,
          hung |-> FALSE, retired |-> {}, lost |-> {}, refused |-> {}]
  /\ hmc = <<>>
  /\ cycle = 0
  /\ returned = {}

\* Mutant of Request: every request sends its block to the tag check.
RequestTagged(op, a) ==
  LET id == c.next_req_id
      b == BankOf(a)
      s == [c EXCEPT !.pending = Insert(@, id, op), !.next_req_id = @ + 1]
      t == Registered(s, b, op, BlockAddr(a), id)
  IN  /\ ~c.hung /\ id < MaxRequests
      /\ c' = ProcessRequest(PushTag(t, b, BlockAddr(a)), b)
      /\ UNCHANGED <<hmc, cycle, returned>>

\* cache::read and cache::write.  insert() leaves an id's old transaction alone.
Request(op, a) ==
  LET id == c.next_req_id
      b == BankOf(a)
      block == BlockAddr(a)
      s == [c EXCEPT !.pending = Insert(@, id, op), !.next_req_id = @ + 1]
      t == Registered(s, b, op, block, id)
      isNew == block \notin DOMAIN c.banks[b].table
  IN  /\ ~c.hung /\ id < MaxRequests
      /\ c' = ProcessRequest(IF isNew THEN PushTag(t, b, block) ELSE t, b)
      /\ UNCHANGED <<hmc, cycle, returned>>

\* cache::wait finds the request, at once or after some calls of update(), which
\* are steps of their own: a client that waits is one that makes no request.
Wait(id) ==
  /\ ~c.hung /\ id \in c.completed
  /\ c' = [c EXCEPT !.completed = @ \ {id}]
  /\ returned' = returned \cup {id}
  /\ UNCHANGED <<hmc, cycle>>

\* casHMCWrapper->Update(): the controller may send the first transaction of its
\* buffer to the cube and may hand out one answer (a write has none).
MemoryStep(sends, i) ==
  LET sent == IF sends /\ Head(c.req).op = "READ" THEN <<Head(c.req).adrs>> ELSE <<>>
  IN  /\ sends => c.req # <<>>
      /\ hmc' = (IF i = 0 THEN hmc ELSE RemoveAt(hmc, i)) \o sent

\* The banks, one after the other.
UpdateBanks(s, resp, garbage) ==
  Repeat(LAMBDA t, b : BankUpdate(t, b, resp, garbage), s, NUM_BANKS)

\* cache::update, with the answer to the i-th read (0: none).
Update(sends, i) ==
  LET resp == IF i = 0 THEN -1 ELSE hmc[i]
  IN  /\ ~c.hung
      /\ MemoryStep(sends, i)
      /\ \E garbage \in Garbage :
           c' = UpdateBanks(IF sends THEN [c EXCEPT !.req = Tail(@)] ELSE c, resp, garbage)
      /\ cycle' = 1 - cycle
      /\ UNCHANGED returned

Next ==
  \/ \E op \in {"READ", "WRITE"}, a \in Addresses : Request(op, a)
  \/ \E id \in ReqId : Wait(id)
  \/ \E sends \in BOOLEAN, i \in 0 .. Len(hmc) : Update(sends, i)

Spec == Init /\ [][Next]_vars

\* wait() calls update() until the request is there.  The memory sends what it has
\* accepted and answers what it was sent (ServiceLive of Vault and Crossbar): as
\* there are finitely many requests, it is idle again and again.
FairSpec ==
  /\ Spec
  /\ WF_cycle(~c.hung /\ cycle' = 1 - cycle)
  /\ []<>(c.req = <<>>)
  /\ []<>(hmc = <<>>)
-----------------------------------------------------------------------------
Live(b) == {a \in DOMAIN c.banks[b].table : a \notin c.retired}

Line == [valid : BOOLEAN, tag : Nat, age : Nat]
Delay(n) == [counter : 0 .. n, state : {"IDLE", "IN_PROGRESS", "COMPLETE"}]
Tran == [op : {"READ", "WRITE"}, adrs : Blocks, data : Blocks \cup {0}]

\* Type correctness.
TypeOK ==
  /\ \A b \in Bank : LET k == c.banks[b] IN
       /\ DOMAIN k.table \subseteq Blocks
       /\ \A a \in DOMAIN k.table :
            k.table[a] \in [req_ids : Seq(ReqId), state : block_state \cup Garbage,
                           all_reads : BOOLEAN, way : Way]
       /\ {k.tag_check_q, k.data_access_q, k.evict_q} \subseteq Seq(Blocks)
       /\ k.tag_delay \in Delay(MISS_TIME) /\ k.data_delay \in Delay(HIT_TIME - MISS_TIME)
       /\ k.tags \in [Row -> [Way -> Line]]
       /\ k.data \in [Row -> [Way -> Blocks \cup {0}]]
  /\ c.next_req_id \in 0 .. MaxRequests
  /\ c.completed \subseteq ReqId
  /\ c.req \in Seq(Tran) /\ Len(c.req) <= MAX_REQ_BUF
  /\ hmc \in Seq(Blocks)
  /\ cycle \in {0, 1}
  /\ returned \subseteq ReqId

\* A block that waits for its fill has exactly one read on its way: in the request
\* buffer, in the memory, or refused (which nothing will repeat); no other has any.
OneFillPerBlock ==
  \A b \in Bank, a \in Blocks : BankOf(a) = b =>
    LET reads == [op |-> "READ", adrs |-> a, data |-> a]
    IN  Occurrences(c.req, reads) + Occurrences(hmc, a)
          + (IF reads \in c.refused THEN 1 ELSE 0)
        = IF a \in Live(b) /\ c.banks[b].table[a].state = "INVALID__LINEFILL_REQ_SENT"
          THEN 1 ELSE 0

\* What is written back is the victim's own line, although its way was given away,
\* with the tag, some data accesses before it is read (CacheBank.h:269, 361-365).
WriteBackHoldsVictim ==
  \A tran \in ToSet(c.req) \cup c.refused : tran.op = "WRITE" => tran.data = tran.adrs

\* No request is reported twice: req_ids is never cleared, so serving an entry
\* again would report requests wait() has already returned for.
ReportedOnce == returned \cap c.completed = {}

\* No `while (1)` is reached.
NoHang == ~c.hung

\* "remove entry from table" (CacheBank.h:345): a block whose line is written
\* has no entry any more, and the next access to it finds the line in the tags.
EntryRemoved == \A b \in Bank : c.retired \cap DOMAIN c.banks[b].table = {}

\* A request that joined an entry before its line was filled is reported in the
\* end, unless the memory refused the fill: again and again nobody is waiting.
Refused(a) == [op |-> "READ", adrs |-> a, data |-> a] \in c.refused
Waiters ==
  c.lost \cup
  (UNION {ToSet(c.banks[BankOf(a)].table[a].req_ids) :
            a \in {x \in UNION {Live(b) : b \in Bank} : ~Refused(x)}}
     \ (c.completed \cup returned))
Served == []<>(Waiters = {})
=============================================================================
