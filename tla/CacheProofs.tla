------------------------------ MODULE CacheProofs ------------------------------
(***************************************************************************)
(* Proofs about Cache: IInv is an inductive invariant, for all values of   *)
(* the constants, and the safety properties of the component follow.       *)
(*                                                                         *)
(* A block in the table whose entry was not erased is alive.  IInv says of *)
(* each bank that the blocks alive are in tag_check_q once when their tag  *)
(* is to be checked and in data_access_q once or twice when their line is  *)
(* to be accessed (BankGood); of the data accesses still to be done, that  *)
(* they leave in each valid line the block its tag names, and that each    *)
(* one that reads finds the victim evict_q has for it (AccessGood); of the *)
(* requests, that one is listed with one block, and not reported as long   *)
(* as that block waits (IdsGood); of the memory, that a block has as many  *)
(* reads out as it waits for: one or none (FillsGood).                     *)
(*                                                                         *)
(* The order of the proof: arithmetic of addresses; types when a field is  *)
(* set; a push to and a pop from data_access_q (PushAccess, PopAccess);    *)
(* one step of a bank after the other, each by replacing one field at a    *)
(* time (SetField, TableStep); the loop over the banks by the loop rule of *)
(* LoopProofs; requests, answers, the buffer of the controller.            *)
(***************************************************************************)
EXTENDS Cache, QueueProofs

\* The loops of the proofs: of Update, and for an induction over numbers.
BankLoop == INSTANCE LoopProofs WITH Body <- LAMBDA p, s, b : BankUpdate(s, b, p[1], p[2])

\* What the constants are.
LEMMA CacheSizes ==
  /\ BLOCK_BYTES \in Nat \ {0} /\ NUM_ROWS \in Nat \ {0} /\ NUM_WAYS \in Nat \ {0}
  /\ NUM_BANKS \in Nat \ {0} /\ BANK_BYTES \in Nat \ {0} /\ MISS_TIME \in Nat \ {0}
  /\ MAX_REQ_BUF \in Nat \ {0} /\ HIT_TIME \in Nat /\ HIT_TIME - MISS_TIME \in Nat \ {0}
  /\ BANK_BYTES % BLOCK_BYTES = 0 /\ Addresses \subseteq Nat /\ MaxRequests \in Nat
  /\ UNSIGNED \in Nat \ {0}
  BY CacheConstants
-----------------------------------------------------------------------------
(* Addresses.  All is said in quotients, as numbers have only one of them. *)

\* A block is the number of its row and its tag.
LEMMA BlockParts ==
  ASSUME NEW a \in Nat
  PROVE  /\ Index(a) \in Row /\ Tag(a) \in Nat /\ BankOf(a) \in Bank
         /\ a % BLOCK_BYTES = 0 /\ a \div (BLOCK_BYTES * NUM_ROWS) < UNSIGNED =>
              /\ a = BLOCK_BYTES * (NUM_ROWS * Tag(a) + Index(a))
              /\ a % (BLOCK_BYTES * NUM_ROWS) = BLOCK_BYTES * Index(a)
<1> DEFINE B == BLOCK_BYTES
           R == NUM_ROWS
           n == a \div B
           t == n \div R
           r == n % R
<1>1. B \in Nat \ {0} /\ R \in Nat \ {0} /\ B * R \in Nat \ {0}
  BY CacheSizes
<1>2. n \in Nat /\ a % B \in 0 .. B - 1 /\ a = B * n + (a % B)
  BY <1>1, Division
<1>3. t \in Nat /\ r \in 0 .. R - 1 /\ n = R * t + r
  <2> HIDE DEF n, R
  <2> QED BY <1>1, <1>2, Division
<1>4. Index(a) = r
  BY DEF Index
<1> DEFINE x == a % B
<1>5. x \in 0 .. B - 1 /\ a = B * n + x
  BY <1>2
<1> HIDE DEF B, R, n, t, r, x
<1>6. a = (B * R) * t + (B * r + x)
  <2>1. B * (R * t + r) = (B * R) * t + B * r
    BY <1>1, <1>3
  <2> QED BY <1>1, <1>3, <1>5, <2>1
<1>7. B * r + x \in 0 .. B * R - 1
  <2>1. B * r <= B * (R - 1)
    BY <1>1, <1>3
  <2>2. B * (R - 1) = B * R - B /\ B * r \in Nat
    BY <1>1, <1>3
  <2> QED BY <1>1, <1>5, <2>1, <2>2
<1>8. a \div (B * R) = t /\ a % (B * R) = B * r + x
  <2> DEFINE D == B * R
             y == B * r + x
  <2>1. D \in Nat \ {0} /\ y \in 0 .. D - 1 /\ a = D * t + y
    BY <1>1, <1>6, <1>7
  <2>2. t \in Int
    BY <1>3
  <2> HIDE DEF D, y
  <2>3. a \div D = t /\ a % D = y
    BY <2>1, <2>2, Division
  <2> QED BY <2>3 DEF D, y
<1>9. Tag(a) \in Nat /\ (t < UNSIGNED => Tag(a) = t)
  <2>1. Tag(a) = t % UNSIGNED
    BY <1>8 DEF Tag, B, R
  <2> QED BY <2>1, <1>3, CacheSizes
<1>10. BankOf(a) \in Bank
  <2>1. a \div BANK_BYTES \in Nat
    BY CacheSizes, Division
  <2> QED BY <2>1, CacheSizes, Division DEF BankOf, Bank
<1>11. ASSUME x = 0 PROVE a = B * (R * t + r) /\ a % (B * R) = B * r
  BY <1>1, <1>3, <1>5, <1>8, <1>11
<1>12. a \div (BLOCK_BYTES * NUM_ROWS) = t
  BY <1>8 DEF B, R
<1> QED BY <1>3, <1>4, <1>9, <1>10, <1>11, <1>12 DEF Row, B, R, x

\* get_block_addr, and what two blocks of one row are to each other.
LEMMA BlockLaws ==
  /\ \A a \in Addresses : /\ BlockAddr(a) \in Blocks /\ BankOf(BlockAddr(a)) = BankOf(a)
  /\ \A a \in Blocks : /\ a \in Nat /\ Index(a) \in Row /\ Tag(a) \in Nat /\ BankOf(a) \in Bank
  /\ \A a, x \in Blocks : Index(a) = Index(x) =>
       /\ MakeAddr(a, Tag(x)) = x
       /\ Tag(a) = Tag(x) => a = x
<1>1. ASSUME NEW a \in Nat
      PROVE  /\ BlockAddr(a) \in Nat /\ BlockAddr(a) % BLOCK_BYTES = 0
             /\ BankOf(BlockAddr(a)) = BankOf(a)
  <2> DEFINE B == BLOCK_BYTES
             n == a \div B
             x == a % B
             K == BANK_BYTES \div B
  <2>1. B \in Nat \ {0} /\ BANK_BYTES \in Nat \ {0} /\ BANK_BYTES % B = 0
    BY CacheSizes
  <2>2. n \in Nat /\ x \in 0 .. B - 1 /\ a = B * n + x
    BY <2>1, Division
  <2>3. K \in Nat /\ BANK_BYTES = B * K
    BY <2>1, Division
  <2> HIDE DEF B, n, x, K
  <2>4. BlockAddr(a) = B * n
    <3>1. BlockAddr(a) = a - x
      BY DEF BlockAddr, B, x
    <3>2. B * n \in Int /\ x \in Int
      BY <2>1, <2>2
    <3> QED BY <2>2, <3>1, <3>2
  <2>5. B * n \in Nat /\ B * n = B * n + 0 /\ 0 \in 0 .. B - 1
    BY <2>1, <2>2
  <2>6. (B * n) % B = 0
    BY <2>1, <2>2, <2>5, Division
  <2>7. K \in Nat \ {0}
    BY <2>1, <2>3
  <2> DEFINE m == n \div K
             y == n % K
  <2>8. m \in Nat /\ y \in 0 .. K - 1 /\ n = K * m + y
    BY <2>2, <2>7, Division
  <2> HIDE DEF m, y
  <2>9. B * n = BANK_BYTES * m + B * y
    <3>1. B * (K * m + y) = (B * K) * m + B * y
      BY <2>1, <2>3, <2>8
    <3> QED BY <2>3, <2>8, <3>1
  <2>10. B * y + x \in 0 .. BANK_BYTES - 1 /\ B * y \in 0 .. BANK_BYTES - 1
    <3>1. B * y <= B * (K - 1) /\ B * y \in Nat
      BY <2>1, <2>7, <2>8
    <3>2. B * (K - 1) = B * K - B
      BY <2>1, <2>7
    <3> QED BY <2>1, <2>2, <2>3, <3>1, <3>2
  <2>11. a = BANK_BYTES * m + (B * y + x)
    <3>1. B * y \in Int /\ x \in Int /\ BANK_BYTES * m \in Int
      BY <2>1, <2>2, <2>8, <2>10
    <3> QED BY <2>2, <2>9, <3>1
  <2>12. a \div BANK_BYTES = m /\ (B * n) \div BANK_BYTES = m
    <3> DEFINE y1 == B * y + x
               y2 == B * y
               z == B * n
    <3>1. /\ y1 \in 0 .. BANK_BYTES - 1 /\ a = BANK_BYTES * m + y1
          /\ y2 \in 0 .. BANK_BYTES - 1 /\ z = BANK_BYTES * m + y2 /\ z \in Nat
      BY <2>5, <2>9, <2>10, <2>11
    <3> HIDE DEF y1, y2, z
    <3>2. a \div BANK_BYTES = m /\ z \div BANK_BYTES = m
      <4>1. m \in Int /\ BANK_BYTES \in Nat \ {0}
        BY <2>1, <2>8
      <4>2. a \div BANK_BYTES = m
        BY <3>1, <4>1, Division
      <4>3. z \div BANK_BYTES = m
        BY <3>1, <4>1, Division
      <4> QED BY <4>2, <4>3
    <3> QED BY <3>2 DEF z
  <2> QED BY <2>4, <2>5, <2>6, <2>12 DEF BankOf, B
<1>2. \A a \in Addresses : a \in Nat
  BY CacheSizes
<1>3. \A a \in Blocks : a \in Nat /\ a % BLOCK_BYTES = 0
  BY <1>1, <1>2 DEF Blocks
<1>4. ASSUME NEW a \in Blocks, NEW x \in Blocks, Index(a) = Index(x)
      PROVE  MakeAddr(a, Tag(x)) = x /\ (Tag(a) = Tag(x) => a = x)
  <2>1. /\ Index(x) \in Nat /\ Tag(x) \in Nat
        /\ a = BLOCK_BYTES * (NUM_ROWS * Tag(a) + Index(a))
        /\ x = BLOCK_BYTES * (NUM_ROWS * Tag(x) + Index(x))
        /\ a % (BLOCK_BYTES * NUM_ROWS) = BLOCK_BYTES * Index(a)
    BY <1>3, BlockParts, TagsFit DEF Row
  <2>2. MakeAddr(a, Tag(x)) = BLOCK_BYTES * Index(x) + Tag(x) * BLOCK_BYTES * NUM_ROWS
    BY <1>4, <2>1 DEF MakeAddr
  <2>3. BLOCK_BYTES * Index(x) + Tag(x) * BLOCK_BYTES * NUM_ROWS = x
    <3> DEFINE B == BLOCK_BYTES
               R == NUM_ROWS
               i == Index(x)
               t == Tag(x)
    <3>1. B \in Int /\ R \in Int /\ i \in Int /\ t \in Int /\ x = B * (R * t + i)
      BY <2>1, CacheSizes
    <3> HIDE DEF B, R, i, t
    <3>2. B * i + t * B * R = B * (R * t + i)
      BY <3>1
    <3> QED BY <3>1, <3>2 DEF B, R, i, t
  <2> QED BY <1>4, <2>1, <2>2, <2>3
<1> QED BY <1>1, <1>2, <1>3, <1>4, BlockParts DEF Blocks
-----------------------------------------------------------------------------
(* The invariant.  It is stated of a record s of the cache, so that it can *)
(* be stated after each bank of an Update and each step of a bank.         *)
(***************************************************************************)
Table == [req_ids : Seq(ReqId), state : block_state \cup Garbage, all_reads : BOOLEAN, way : Way]

Tables == UNION {[D -> Table] : D \in SUBSET Blocks}
Pendings == UNION {[D -> {"READ", "WRITE"}] : D \in SUBSET Nat}

Banks ==
  [table : Tables,
   tag_check_q : Seq(Blocks), data_access_q : Seq(Blocks), evict_q : Seq(Blocks),
   tag_delay : Delay(MISS_TIME), data_delay : Delay(HIT_TIME - MISS_TIME),
   tags : [Row -> [Way -> Line]], data : [Row -> [Way -> Blocks \cup {0}]]]

Buffers == {q \in Seq(Tran) : Len(q) <= MAX_REQ_BUF}

Caches ==
  [banks : [Bank -> Banks], next_req_id : 0 .. MaxRequests,
   pending : Pendings,
   completed : SUBSET ReqId, req : Buffers, hung : BOOLEAN, retired : SUBSET Blocks,
   lost : SUBSET ReqId, refused : SUBSET Tran]

Checking == {"INVALID__CACHE_CHECK", "VALID__CACHE_CHECK"}
Accessing == {"VALID__WR_REQ_SENT_TO_CACHE", "VALID__RW_REQ_SENT_TO_CACHE"}

\* Blocks are in tag_check_q once, when a check of their tag is due.
TagGood(t, L, q) == IsInjective(q) /\ ToSet(q) = {a \in L : t[a].state \in Checking}

\* Blocks are in data_access_q once when their line is to be written, and twice,
\* next to each other, when a victim is read from it before.
DataGood(t, L, q) ==
  /\ ToSet(q) = {a \in L : t[a].state \in Accessing}
  /\ \A i, j \in DOMAIN q :
       i < j /\ q[i] = q[j] => j = i + 1 /\ t[q[i]].state = "VALID__RW_REQ_SENT_TO_CACHE"
  /\ \A i \in DOMAIN q : t[q[i]].state = "VALID__RW_REQ_SENT_TO_CACHE" =>
       \E j \in DOMAIN q : j # i /\ q[j] = q[i]

\* The data access at i of the queue reads a victim, or writes line w of row r.
ReadsAt(q, i) == i \in DOMAIN q /\ i + 1 \in DOMAIN q /\ q[i + 1] = q[i]
WritesAt(t, q, i, r, w) ==
  /\ i \in DOMAIN q /\ ~ReadsAt(q, i)
  /\ Index(q[i]) = r /\ t[q[i]].way = w

\* The line holds v when the data access at i begins.
Holds(t, q, data, i, r, w, v) ==
  \/ \E j \in DOMAIN q :
       /\ j < i /\ WritesAt(t, q, j, r, w) /\ q[j] = v
       /\ \A m \in DOMAIN q : m < i /\ WritesAt(t, q, m, r, w) => m <= j
  \/ /\ data[r][w] = v
     /\ \A m \in DOMAIN q : m < i => ~WritesAt(t, q, m, r, w)

\* Once the data accesses are done, each line holds the block its tag names.
LinesGood(t, L, q, tags, data) ==
  \A r \in Row, w \in Way : tags[r][w].valid =>
    \E v \in DOMAIN t :
      /\ Index(v) = r /\ Tag(v) = tags[r][w].tag /\ v \notin L \ ToSet(q)
      /\ Holds(t, q, data, Len(q) + 1, r, w, v)

\* The victims in evict_q are what the data accesses at f[1], f[2], ... will read.
EvictsGood(t, q, ev, data) ==
  \E f \in [DOMAIN ev -> DOMAIN q] :
    /\ \A m, n \in DOMAIN ev : m < n => f[m] < f[n]
    /\ \A i \in DOMAIN q : ReadsAt(q, i) <=> \E m \in DOMAIN ev : f[m] = i
    /\ \A m \in DOMAIN ev : Holds(t, q, data, f[m], Index(q[f[m]]), t[q[f[m]]].way, ev[m])

AccessGood(t, L, q, ev, tags, data) ==
  DataGood(t, L, q) /\ LinesGood(t, L, q, tags, data) /\ EvictsGood(t, q, ev, data)

\* A delay runs only while its queue has something to do.
Timed(d, q) == d = Idle \/ (d.state = "IN_PROGRESS" /\ d.counter > 0 /\ q # <<>>)

BankGood(k, b, L) ==
  /\ \A a \in DOMAIN k.table : BankOf(a) = b
  /\ L \subseteq DOMAIN k.table
  /\ \A a \in L : k.table[a].state \in {"INVALID__LINEFILL_REQ_SENT"} \cup Checking \cup Accessing
  /\ TagGood(k.table, L, k.tag_check_q)
  /\ AccessGood(k.table, L, k.data_access_q, k.evict_q, k.tags, k.data)
  /\ Timed(k.tag_delay, k.tag_check_q) /\ Timed(k.data_delay, k.data_access_q)

TableOf(s, a) == s.banks[BankOf(a)].table
Alive(s, b) == DOMAIN s.banks[b].table \ s.retired
StateOf(s, a) ==
  CASE a \notin DOMAIN TableOf(s, a) -> "NONE"
    [] a \in DOMAIN TableOf(s, a) /\ a \in s.retired -> "RETIRED"
    [] OTHER -> TableOf(s, a)[a].state
IdsOf(s, a) == IF a \in DOMAIN TableOf(s, a) THEN ToSet(TableOf(s, a)[a].req_ids) ELSE {}

\* A request is reported once: while its block waits it was not, and no other
\* block has it.
IdsGood(s) ==
  /\ s.completed \cup returned \subseteq 0 .. s.next_req_id - 1
  /\ s.completed \cap returned = {}
  /\ \A a \in Blocks : IdsOf(s, a) \subseteq 0 .. s.next_req_id - 1
  /\ \A a, x \in Blocks : a # x => IdsOf(s, a) \cap IdsOf(s, x) = {}
  /\ \A a \in Blocks :
       StateOf(s, a) \in {"INVALID__CACHE_CHECK", "INVALID__LINEFILL_REQ_SENT"} =>
         IdsOf(s, a) \cap (s.completed \cup returned) = {}

\* The fills on their way: in the request buffer, in the memory hm, refused, or
\* (hand) just come back and not taken by a bank yet.
ReadOf(a) == [op |-> "READ", adrs |-> a, data |-> a]
Fills(s, hm, hand, a) ==
  Occurrences(s.req, ReadOf(a)) + Occurrences(hm, a)
    + (IF ReadOf(a) \in s.refused THEN 1 ELSE 0) + (IF hand = a THEN 1 ELSE 0)
FillsGood(s, hm, hand) ==
  \A a \in Blocks :
    Fills(s, hm, hand, a) = IF StateOf(s, a) = "INVALID__LINEFILL_REQ_SENT" THEN 1 ELSE 0

Structure(s, hm, hand) ==
  /\ ~s.hung
  /\ \A b \in Bank : BankGood(s.banks[b], b, Alive(s, b))
  /\ \A a \in s.retired : a \in DOMAIN TableOf(s, a)
  /\ \A tran \in ToSet(s.req) \cup s.refused : tran.data = tran.adrs
  /\ IdsGood(s)
  /\ FillsGood(s, hm, hand)

Good(hm, hand) == {s \in Caches : Structure(s, hm, hand)}

IInv ==
  /\ c \in Good(hmc, -1)
  /\ hmc \in Seq(Blocks) /\ cycle \in {0, 1} /\ returned \subseteq ReqId
-----------------------------------------------------------------------------
(* Maps, banks and caches keep their type when a field is set. *)

\* m[x] = e.
LEMMA PutLaws ==
  ASSUME NEW f, NEW x, NEW e
  PROVE  /\ DOMAIN Put(f, x, e) = DOMAIN f \cup {x} /\ Put(f, x, e)[x] = e
         /\ \A y \in DOMAIN f : y # x => Put(f, x, e)[y] = f[y]
  BY DEF Put

\* The tables of a bank, and the transactions of the cache.
LEMMA TableLaws ==
  /\ \A t \in Tables : DOMAIN t \subseteq Blocks /\ \A a \in DOMAIN t : t[a] \in Table
  /\ \A t \in Tables, a \in Blocks, e \in Table : Put(t, a, e) \in Tables
  /\ \A t \in Tables : \A a : [x \in DOMAIN t \ {a} |-> t[x]] \in Tables
  /\ \A f \in Pendings, x \in Nat, op \in {"READ", "WRITE"} : Insert(f, x, op) \in Pendings
<1>1. ASSUME NEW t \in Tables PROVE DOMAIN t \subseteq Blocks /\ \A a \in DOMAIN t : t[a] \in Table
  <2>1. PICK D \in SUBSET Blocks : t \in [D -> Table]
    BY DEF Tables
  <2> QED BY <2>1
<1>2. ASSUME NEW t \in Tables, NEW a \in Blocks, NEW e \in Table PROVE Put(t, a, e) \in Tables
  <2>1. Put(t, a, e) \in [DOMAIN t \cup {a} -> Table]
    BY <1>1 DEF Put
  <2>2. DOMAIN t \cup {a} \in SUBSET Blocks
    BY <1>1
  <2> QED BY <2>1, <2>2 DEF Tables
<1>3. ASSUME NEW t \in Tables, NEW a PROVE [x \in DOMAIN t \ {a} |-> t[x]] \in Tables
  <2>1. [x \in DOMAIN t \ {a} |-> t[x]] \in [DOMAIN t \ {a} -> Table]
    BY <1>1
  <2>2. DOMAIN t \ {a} \in SUBSET Blocks
    BY <1>1
  <2> QED BY <2>1, <2>2 DEF Tables
<1>4. ASSUME NEW f \in Pendings, NEW x \in Nat, NEW op \in {"READ", "WRITE"}
      PROVE  Insert(f, x, op) \in Pendings
  <2>1. PICK D \in SUBSET Nat : f \in [D -> {"READ", "WRITE"}]
    BY DEF Pendings
  <2>2. Put(f, x, op) \in [D \cup {x} -> {"READ", "WRITE"}]
    BY <2>1 DEF Put
  <2>3. D \cup {x} \in SUBSET Nat
    OBVIOUS
  <2>4. Put(f, x, op) \in Pendings
    BY <2>2, <2>3 DEF Pendings
  <2> QED BY <2>4 DEF Insert
<1> QED BY <1>1, <1>2, <1>3, <1>4

\* What an operation on bank b, or on the request buffer, leaves alone.
Quiet(s, r) ==
  /\ r.next_req_id = s.next_req_id /\ r.pending = s.pending /\ r.completed = s.completed
  /\ r.hung = s.hung /\ r.retired = s.retired /\ r.lost = s.lost
OnlyBank(s, r, b) ==
  /\ r \in Caches /\ Quiet(s, r)
  /\ \A x \in Bank \ {b} : r.banks[x] = s.banks[x]

\* A whole bank is replaced.
LEMMA SetBank ==
  ASSUME NEW s \in Caches, NEW b \in Bank, NEW k \in Banks
  PROVE  LET r == [s EXCEPT !.banks[b] = k]
         IN  /\ OnlyBank(s, r, b) /\ r.banks[b] = k
             /\ r.req = s.req /\ r.refused = s.refused
<1> DEFINE bs == [s.banks EXCEPT ![b] = k]
           r == [s EXCEPT !.banks = bs]
<1>1. s.banks \in [Bank -> Banks]
  BY DEF Caches
<1>2. bs \in [Bank -> Banks] /\ bs[b] = k /\ \A x \in Bank \ {b} : bs[x] = s.banks[x]
  BY <1>1
<1> HIDE DEF bs
<1>3. r \in Caches
  BY <1>2 DEF Caches
<1>4. r.banks = bs /\ Quiet(s, r) /\ r.req = s.req /\ r.refused = s.refused
  BY DEF Caches, Quiet
<1> QED BY <1>2, <1>3, <1>4 DEF OnlyBank, bs

\* SendTran, whether the buffer takes the transaction or not.
LEMMA SendLaws ==
  ASSUME NEW s \in Caches, NEW tran \in Tran
  PROVE  LET r == SendTran(s, tran)
         IN  /\ r \in Caches /\ Quiet(s, r) /\ r.banks = s.banks
             /\ \/ r.req = Append(s.req, tran) /\ r.refused = s.refused
                \/ r.req = s.req /\ r.refused = s.refused \cup {tran}
<1>1. CASE Len(s.req) < MAX_REQ_BUF
  <2> DEFINE q == Append(s.req, tran)
             r == [s EXCEPT !.req = q]
  <2>1. s.req \in Seq(Tran) /\ Len(s.req) \in Nat /\ MAX_REQ_BUF \in Nat
    BY CacheSizes DEF Caches, Buffers
  <2>3. q \in Buffers
    BY <1>1, <2>1 DEF Buffers
  <2> HIDE DEF q
  <2>2. r \in Caches /\ Quiet(s, r) /\ r.banks = s.banks /\ r.req = q /\ r.refused = s.refused
    BY <2>3 DEF Caches, Quiet
  <2> QED BY <1>1, <2>2 DEF SendTran, q
<1>2. CASE ~(Len(s.req) < MAX_REQ_BUF)
  <2> DEFINE R == s.refused \cup {tran}
             r == [s EXCEPT !.refused = R]
  <2>1. R \in SUBSET Tran
    BY DEF Caches
  <2> HIDE DEF R
  <2>2. r \in Caches /\ Quiet(s, r) /\ r.banks = s.banks /\ r.req = s.req /\ r.refused = R
    BY <2>1 DEF Caches, Quiet
  <2> QED BY <1>2, <2>2 DEF SendTran, R
<1> QED BY <1>1, <1>2
-----------------------------------------------------------------------------
(* The queue of data accesses, and what the lines hold while it is worked  *)
(* off.                                                                    *)
(***************************************************************************)

\* What a line holds when a later access begins does not change when the first
\* access is done.
LEMMA PopHolds ==
  ASSUME NEW t, NEW t2, NEW q \in Seq(Blocks), q # <<>>, NEW data, NEW data2,
         \A x \in ToSet(Tail(q)) : t2[x].way = t[x].way,
         NEW i \in 1 .. Len(q), NEW r, NEW w, NEW v,
         data2[r][w] = IF WritesAt(t, q, 1, r, w) THEN q[1] ELSE data[r][w],
         Holds(t, q, data, i + 1, r, w, v)
  PROVE  Holds(t2, Tail(q), data2, i, r, w, v)
<1> DEFINE u == Tail(q)
<1>1. /\ Len(q) \in Nat \ {0} /\ DOMAIN q = 1 .. Len(q) /\ DOMAIN u = 1 .. Len(q) - 1
      /\ \A j \in 1 .. Len(q) - 1 : u[j] = q[j + 1]
      /\ i \in 1 .. Len(q)
  OBVIOUS
<1>2. \A x \in ToSet(u) : t2[x].way = t[x].way
  OBVIOUS
<1> HIDE DEF u
<1>3. ASSUME NEW j \in DOMAIN u
      PROVE  j + 1 \in DOMAIN q /\ u[j] = q[j + 1]
             /\ (WritesAt(t2, u, j, r, w) <=> WritesAt(t, q, j + 1, r, w))
  <2>1. j + 1 \in DOMAIN q /\ u[j] = q[j + 1]
    BY <1>1
  <2>2. ReadsAt(u, j) <=> ReadsAt(q, j + 1)
    BY <1>1 DEF ReadsAt
  <2>3. t2[u[j]].way = t[u[j]].way
    BY <1>2 DEF ToSet
  <2> QED BY <2>1, <2>2, <2>3 DEF WritesAt
<1>4. \A m \in DOMAIN q : m = 1 \/ m - 1 \in DOMAIN u
  BY <1>1
<1>5. \A m \in DOMAIN q : m \in Int
  BY <1>1
<1>6. \A m \in DOMAIN u : m \in Int
  BY <1>1
<1>7. ASSUME NEW j \in DOMAIN q, j < i + 1, WritesAt(t, q, j, r, w), q[j] = v,
             \A m \in DOMAIN q : m < i + 1 /\ WritesAt(t, q, m, r, w) => m <= j
      PROVE  Holds(t2, u, data2, i, r, w, v)
  <2>1. CASE j = 1
    <3>1. data2[r][w] = v
      BY <1>7, <2>1
    <3>2. ASSUME NEW m \in DOMAIN u, m < i PROVE ~WritesAt(t2, u, m, r, w)
      BY <1>1, <1>3, <1>6, <1>7, <2>1, <3>2
    <3> QED BY <3>1, <3>2 DEF Holds
  <2>2. CASE j # 1
    <3>1. j - 1 \in DOMAIN u /\ j - 1 < i /\ (j - 1) + 1 = j
      BY <1>1, <1>4, <1>5, <1>7, <2>2
    <3>2. WritesAt(t2, u, j - 1, r, w) /\ u[j - 1] = v
      BY <1>3, <1>7, <3>1
    <3>3. ASSUME NEW m \in DOMAIN u, m < i, WritesAt(t2, u, m, r, w) PROVE m <= j - 1
      <4>1. m + 1 \in DOMAIN q /\ WritesAt(t, q, m + 1, r, w) /\ m + 1 < i + 1
        BY <1>1, <1>3, <1>6, <3>3
      <4>2. m + 1 <= j
        BY <1>7, <4>1
      <4> QED BY <1>5, <1>6, <4>2
    <3> QED BY <3>1, <3>2, <3>3 DEF Holds
  <2> QED BY <2>1, <2>2
<1>8. ASSUME data[r][w] = v, \A m \in DOMAIN q : m < i + 1 => ~WritesAt(t, q, m, r, w)
      PROVE  Holds(t2, u, data2, i, r, w, v)
  <2>1. 1 \in DOMAIN q /\ 1 < i + 1
    BY <1>1
  <2>2. data2[r][w] = v
    BY <1>8, <2>1
  <2>3. ASSUME NEW m \in DOMAIN u, m < i PROVE ~WritesAt(t2, u, m, r, w)
    <3>1. m + 1 \in DOMAIN q /\ m + 1 < i + 1
      BY <1>1, <1>3, <1>6, <2>3
    <3> QED BY <1>3, <1>8, <3>1
  <2> QED BY <2>2, <2>3 DEF Holds
<1> QED BY <1>7, <1>8 DEF Holds, u

\* It does not change either when accesses are put behind the others.
LEMMA PushHolds ==
  ASSUME NEW t, NEW t2, NEW q \in Seq(Blocks), NEW u \in Seq(Blocks), NEW data,
         Len(q) <= Len(u), \A i \in DOMAIN q : u[i] = q[i],
         Len(q) < Len(u) => u[Len(q) + 1] \notin ToSet(q),
         \A x \in ToSet(q) : t2[x].way = t[x].way
  PROVE  /\ \A i \in DOMAIN q : i \in DOMAIN u /\ (ReadsAt(u, i) <=> ReadsAt(q, i))
         /\ \A i \in 1 .. Len(q) + 1 : \A r, w, v :
              Holds(t, q, data, i, r, w, v) => Holds(t2, u, data, i, r, w, v)
<1>1. /\ Len(q) \in Nat /\ DOMAIN q = 1 .. Len(q) /\ Len(u) \in Nat /\ DOMAIN u = 1 .. Len(u)
  OBVIOUS
<1>2. ASSUME NEW i \in DOMAIN q PROVE i \in DOMAIN u /\ (ReadsAt(u, i) <=> ReadsAt(q, i))
  <2>1. i \in DOMAIN u
    BY <1>1
  <2>2. CASE i + 1 \in DOMAIN q
    BY <1>1, <2>1, <2>2 DEF ReadsAt
  <2>3. CASE i + 1 \notin DOMAIN q
    <3>1. i = Len(q) /\ q[i] \in ToSet(q)
      BY <1>1, <2>3 DEF ToSet
    <3>2. ~ReadsAt(u, i)
      BY <1>1, <2>3, <3>1 DEF ReadsAt
    <3> QED BY <2>1, <2>3, <3>2 DEF ReadsAt
  <2> QED BY <2>2, <2>3
<1>3. ASSUME NEW i \in 1 .. Len(q) + 1, NEW r, NEW w, NEW v, Holds(t, q, data, i, r, w, v)
      PROVE  Holds(t2, u, data, i, r, w, v)
  <2>1. ASSUME NEW j \in DOMAIN q
        PROVE  WritesAt(t2, u, j, r, w) <=> WritesAt(t, q, j, r, w)
    <3>1. t2[q[j]].way = t[q[j]].way
      BY DEF ToSet
    <3> QED BY <1>2, <3>1 DEF WritesAt
  <2>2. \A m \in DOMAIN u : m < i => m \in DOMAIN q
    BY <1>1
  <2>3. ASSUME NEW j \in DOMAIN q, j < i, WritesAt(t, q, j, r, w), q[j] = v,
               \A m \in DOMAIN q : m < i /\ WritesAt(t, q, m, r, w) => m <= j
        PROVE  Holds(t2, u, data, i, r, w, v)
    <3>1. j \in DOMAIN u /\ WritesAt(t2, u, j, r, w) /\ u[j] = v
      BY <1>2, <2>1, <2>3
    <3>2. \A m \in DOMAIN u : m < i /\ WritesAt(t2, u, m, r, w) => m <= j
      BY <2>1, <2>2, <2>3
    <3> QED BY <2>3, <3>1, <3>2 DEF Holds
  <2>4. ASSUME data[r][w] = v, \A m \in DOMAIN q : m < i => ~WritesAt(t, q, m, r, w)
        PROVE  Holds(t2, u, data, i, r, w, v)
    <3>1. \A m \in DOMAIN u : m < i => ~WritesAt(t2, u, m, r, w)
      BY <2>1, <2>2, <2>4
    <3> QED BY <2>4, <3>1 DEF Holds
  <2> QED BY <1>3, <2>3, <2>4 DEF Holds
<1> QED BY <1>2, <1>3

\* What is done to a block that is in no data access leaves them good.
LEMMA FrameAccess ==
  ASSUME NEW t, NEW L, NEW q \in Seq(Blocks), NEW ev, NEW tags, NEW data,
         AccessGood(t, L, q, ev, tags, data),
         NEW t2, NEW L2, NEW tags2, DOMAIN t \subseteq DOMAIN t2, L \subseteq L2,
         (L2 \ L) \cap DOMAIN t = {},
         \A x \in ToSet(q) : t2[x].way = t[x].way /\ t2[x].state = t[x].state,
         {x \in L2 : t2[x].state \in Accessing} = {x \in L : t[x].state \in Accessing},
         \A r \in Row, w \in Way :
           tags2[r][w].valid = tags[r][w].valid /\ tags2[r][w].tag = tags[r][w].tag
  PROVE  AccessGood(t2, L2, q, ev, tags2, data)
<1>0. Len(q) \in Nat /\ DOMAIN q = 1 .. Len(q)
  OBVIOUS
<1>1. \A i \in 1 .. Len(q) + 1 : \A r, w, v :
        Holds(t, q, data, i, r, w, v) => Holds(t2, q, data, i, r, w, v)
  <2>1. /\ Len(q) <= Len(q) /\ ~(Len(q) < Len(q)) /\ \A i \in DOMAIN q : q[i] = q[i]
        /\ \A x \in ToSet(q) : t2[x].way = t[x].way
    BY <1>0
  <2> QED BY ONLY q \in Seq(Blocks), <2>1, PushHolds, Zenon
<1>2. \A i \in DOMAIN q : t2[q[i]].way = t[q[i]].way /\ t2[q[i]].state = t[q[i]].state
  BY DEF ToSet
<1>3. DataGood(t2, L2, q)
  BY <1>2 DEF AccessGood, DataGood
<1>4. LinesGood(t2, L2, q, tags2, data)
  <2> SUFFICES ASSUME NEW r \in Row, NEW w \in Way, tags2[r][w].valid
               PROVE  \E v \in DOMAIN t2 :
                        /\ Index(v) = r /\ Tag(v) = tags2[r][w].tag /\ v \notin L2 \ ToSet(q)
                        /\ Holds(t2, q, data, Len(q) + 1, r, w, v)
    BY DEF LinesGood
  <2>1. PICK v \in DOMAIN t :
          /\ Index(v) = r /\ Tag(v) = tags[r][w].tag /\ v \notin L \ ToSet(q)
          /\ Holds(t, q, data, Len(q) + 1, r, w, v)
    BY DEF AccessGood, LinesGood
  <2>2. v \in DOMAIN t2 /\ v \notin L2 \ ToSet(q) /\ Tag(v) = tags2[r][w].tag
    BY <2>1
  <2>3. Holds(t2, q, data, Len(q) + 1, r, w, v)
    BY <1>0, <1>1, <2>1
  <2> QED BY <2>1, <2>2, <2>3
<1>5. EvictsGood(t2, q, ev, data)
  <2>1. PICK f \in [DOMAIN ev -> DOMAIN q] :
          /\ \A m, n \in DOMAIN ev : m < n => f[m] < f[n]
          /\ \A i \in DOMAIN q : ReadsAt(q, i) <=> \E m \in DOMAIN ev : f[m] = i
          /\ \A m \in DOMAIN ev : Holds(t, q, data, f[m], Index(q[f[m]]), t[q[f[m]]].way, ev[m])
    BY DEF AccessGood, EvictsGood
  <2>2. ASSUME NEW m \in DOMAIN ev
        PROVE  Holds(t2, q, data, f[m], Index(q[f[m]]), t2[q[f[m]]].way, ev[m])
    <3>1. f[m] \in DOMAIN q /\ f[m] \in 1 .. Len(q) + 1
      BY <1>0
    <3>2. t2[q[f[m]]].way = t[q[f[m]]].way
      BY <1>2, <3>1
    <3> QED BY <1>1, <2>1, <3>1, <3>2
  <2> QED BY <2>1, <2>2 DEF EvictsGood
<1> QED BY <1>3, <1>4, <1>5 DEF AccessGood

\* A block whose tag check took way w for it: its line will be written (n = 1), and
\* the victim's line read before (n = 2), if there is one.
Pushes(t, L, q, ev, tags, a, w, n, t2, u, ev2, tags2) ==
  /\ a \in L /\ t[a].state \notin Accessing /\ w \in Way /\ n \in {1, 2}
  /\ DOMAIN t2 = DOMAIN t /\ t2[a].way = w /\ \A x \in DOMAIN t \ {a} : t2[x] = t[x]
  /\ t2[a].state = IF n = 2 THEN "VALID__RW_REQ_SENT_TO_CACHE" ELSE "VALID__WR_REQ_SENT_TO_CACHE"
  /\ n = 2 => tags[Index(a)][w].valid
  /\ tags2[Index(a)][w].tag = Tag(a)
  /\ \A r \in Row, y \in Way : r # Index(a) \/ y # w =>
       tags2[r][y].valid = tags[r][y].valid /\ tags2[r][y].tag = tags[r][y].tag
  /\ u = q \o [i \in 1 .. n |-> a]
  /\ ev2 = IF n = 2 THEN Append(ev, MakeAddr(a, tags[Index(a)][w].tag)) ELSE ev

\* Such a step leaves the data accesses good.
LEMMA PushAccess ==
  ASSUME NEW t, NEW L, NEW q \in Seq(Blocks), NEW ev \in Seq(Blocks), NEW tags, NEW data,
         AccessGood(t, L, q, ev, tags, data), L \subseteq DOMAIN t, DOMAIN t \subseteq Blocks,
         NEW a, NEW w, NEW n, NEW t2, NEW tags2, NEW u, NEW ev2,
         Pushes(t, L, q, ev, tags, a, w, n, t2, u, ev2, tags2)
  PROVE  u \in Seq(Blocks) /\ ev2 \in Seq(Blocks) /\ AccessGood(t2, L, u, ev2, tags2, data)
<1>0. /\ a \in L /\ t[a].state \notin Accessing /\ w \in Way /\ n \in {1, 2}
      /\ DOMAIN t2 = DOMAIN t /\ t2[a].way = w /\ \A x \in DOMAIN t \ {a} : t2[x] = t[x]
      /\ t2[a].state = IF n = 2 THEN "VALID__RW_REQ_SENT_TO_CACHE" ELSE "VALID__WR_REQ_SENT_TO_CACHE"
      /\ n = 2 => tags[Index(a)][w].valid
      /\ tags2[Index(a)][w].tag = Tag(a)
      /\ \A r \in Row, y \in Way : r # Index(a) \/ y # w =>
           tags2[r][y].valid = tags[r][y].valid /\ tags2[r][y].tag = tags[r][y].tag
      /\ u = q \o [i \in 1 .. n |-> a]
      /\ ev2 = IF n = 2 THEN Append(ev, MakeAddr(a, tags[Index(a)][w].tag)) ELSE ev
  BY DEF Pushes
<1> USE <1>0
<1> DEFINE N == Len(q)
           twice == n = 2
           one == [i \in 1 .. n |-> a]
<1>1. a \in Blocks /\ a \in DOMAIN t /\ Index(a) \in Row
  BY BlockLaws
<1>2. N \in Nat /\ DOMAIN q = 1 .. N /\ n \in {1, 2} /\ (n = 2 <=> twice)
  OBVIOUS
<1>3. /\ u \in Seq(Blocks) /\ Len(u) = N + n /\ DOMAIN u = 1 .. N + n
      /\ \A i \in DOMAIN q : u[i] = q[i]
      /\ \A i \in N + 1 .. N + n : u[i] = a
  <2>1. one \in Seq(Blocks) /\ Len(one) = n /\ \A i \in 1 .. n : one[i] = a
    <3>1. one \in [1 .. n -> Blocks] /\ n \in Nat
      BY <1>1, <1>2
    <3> QED BY <3>1
  <2>2. u = q \o one
    OBVIOUS
  <2> HIDE DEF one
  <2>3. /\ q \o one \in Seq(Blocks) /\ Len(q \o one) = N + n
        /\ \A i \in 1 .. Len(q) + Len(one) :
             (q \o one)[i] = IF i <= Len(q) THEN q[i] ELSE one[i - Len(q)]
    BY <2>1, ConcatProperties
  <2>4. \A i \in N + 1 .. N + n : i \in 1 .. Len(q) + Len(one) /\ ~(i <= Len(q)) /\ i - N \in 1 .. n
    BY <1>2, <2>1
  <2>5. \A i \in DOMAIN q : i \in 1 .. Len(q) + Len(one) /\ i <= Len(q)
    BY <1>2, <2>1
  <2> QED BY <1>2, <2>1, <2>2, <2>3, <2>4, <2>5
<1>4. a \notin ToSet(q) /\ ToSet(q) = {x \in L : t[x].state \in Accessing}
  BY DEF AccessGood, DataGood
<1>5. \A x \in ToSet(q) : t2[x] = t[x] /\ x # a
  BY <1>4
<1> HIDE DEF N, one
<1>6. \A i \in DOMAIN u : i \in DOMAIN q \/ (i \in N + 1 .. N + n /\ u[i] = a)
  BY <1>2, <1>3
<1>7. /\ \A i \in DOMAIN q : i \in DOMAIN u /\ (ReadsAt(u, i) <=> ReadsAt(q, i))
      /\ \A i \in 1 .. N + 1 : \A r, y, v :
           Holds(t, q, data, i, r, y, v) => Holds(t2, u, data, i, r, y, v)
  <2>1. Len(q) <= Len(u) /\ u[Len(q) + 1] \notin ToSet(q)
    BY <1>2, <1>3, <1>4, SMTT(20) DEF N
  <2>2. \A x \in ToSet(q) : t2[x].way = t[x].way
    BY <1>5
  <2>3. u \in Seq(Blocks) /\ \A i \in DOMAIN q : u[i] = q[i]
    BY <1>3
  <2> QED BY ONLY q \in Seq(Blocks), <2>1, <2>2, <2>3, PushHolds, Zenon DEF N
<1>8. DataGood(t2, L, u)
  <2>1. ToSet(u) = ToSet(q) \cup {a}
    <3>1. N + 1 \in DOMAIN u /\ u[N + 1] = a
      BY <1>2, <1>3
    <3>2. \A i \in DOMAIN u : u[i] \in ToSet(q) \cup {a}
      BY <1>3, <1>6 DEF ToSet
    <3>3. \A i \in DOMAIN q : q[i] \in ToSet(u)
      BY <1>3, <1>7 DEF ToSet
    <3>4. a \in ToSet(u)
      BY <3>1 DEF ToSet
    <3>5. ToSet(u) \subseteq ToSet(q) \cup {a}
      BY <3>2 DEF ToSet
    <3>6. ToSet(q) \subseteq ToSet(u)
      BY ONLY <3>3 DEF ToSet
    <3> QED BY <3>4, <3>5, <3>6
  <2>2. ToSet(u) = {x \in L : t2[x].state \in Accessing}
    BY <1>4, <1>5, <2>1 DEF Accessing
  <2>3. ASSUME NEW i \in DOMAIN u, NEW j \in DOMAIN u, i < j, u[i] = u[j]
        PROVE  j = i + 1 /\ t2[u[i]].state = "VALID__RW_REQ_SENT_TO_CACHE"
    <3>1. CASE i \in DOMAIN q /\ j \in DOMAIN q
      <4>1. q[i] = q[j] /\ q[i] \in ToSet(q)
        BY <1>3, <2>3, <3>1 DEF ToSet
      <4>2. j = i + 1 /\ t[q[i]].state = "VALID__RW_REQ_SENT_TO_CACHE"
        BY <2>3, <3>1, <4>1 DEF AccessGood, DataGood
      <4> QED BY <1>3, <1>5, <3>1, <4>1, <4>2
    <3>2. CASE i \in DOMAIN q /\ j \notin DOMAIN q
      BY <1>3, <1>4, <1>6, <2>3, <3>2 DEF ToSet
    <3>3. CASE i \notin DOMAIN q
      BY <1>2, <1>3, <1>6, <2>3, <3>3
    <3> QED BY <3>1, <3>2, <3>3
  <2>4. ASSUME NEW i \in DOMAIN u, t2[u[i]].state = "VALID__RW_REQ_SENT_TO_CACHE"
        PROVE  \E j \in DOMAIN u : j # i /\ u[j] = u[i]
    <3>1. CASE i \in DOMAIN q
      <4>1. q[i] \in ToSet(q) /\ u[i] = q[i]
        BY <1>3, <3>1 DEF ToSet
      <4>2. PICK j \in DOMAIN q : j # i /\ q[j] = q[i]
        BY <1>5, <2>4, <3>1, <4>1 DEF AccessGood, DataGood
      <4> QED BY <1>3, <1>7, <4>1, <4>2
    <3>2. CASE i \notin DOMAIN q
      <4>1. twice /\ n = 2
        BY <1>2, <1>6, <2>4, <3>2
      <4>2. N + 1 \in DOMAIN u /\ N + 2 \in DOMAIN u /\ u[N + 1] = a /\ u[N + 2] = a /\ u[i] = a
        BY <1>2, <1>3, <1>6, <3>2, <4>1
      <4>3. i = N + 1 \/ i = N + 2
        BY <1>2, <1>6, <3>2, <4>1
      <4>4. N + 1 # N + 2
        BY <1>2
      <4> QED BY ONLY <4>2, <4>3, <4>4
    <3> QED BY <3>1, <3>2
  <2> QED BY <2>2, <2>3, <2>4 DEF DataGood
<1>9. \A v \in DOMAIN t : v \notin L \ ToSet(q) => v \in DOMAIN t2 /\ v \notin L \ ToSet(u)
  BY <1>4, <1>8, <1>5 DEF DataGood, Accessing
<1>10. ASSUME NEW r \in Row, NEW y \in Way, NEW v,
              Index(a) # r \/ w # y, Holds(t, q, data, N + 1, r, y, v)
       PROVE  Holds(t2, u, data, Len(u) + 1, r, y, v)
  <2>1. Holds(t2, u, data, N + 1, r, y, v)
    <3>1. N + 1 \in 1 .. N + 1
      BY <1>2
    <3> QED BY <1>7, <1>10, <3>1
  <2>2. \A m \in DOMAIN u : m < Len(u) + 1 /\ WritesAt(t2, u, m, r, y) => m < N + 1
    BY <1>2, <1>6, <1>10, SMTT(20) DEF WritesAt
  <2>3. \A m \in DOMAIN u : m < Len(u) + 1
    BY <1>2, <1>3
  <2> QED BY <2>1, <2>2, <2>3 DEF Holds
<1>11. LinesGood(t2, L, u, tags2, data)
  <2> SUFFICES ASSUME NEW r \in Row, NEW y \in Way, tags2[r][y].valid
               PROVE  \E v \in DOMAIN t2 :
                        /\ Index(v) = r /\ Tag(v) = tags2[r][y].tag /\ v \notin L \ ToSet(u)
                        /\ Holds(t2, u, data, Len(u) + 1, r, y, v)
    BY DEF LinesGood
  <2>1. CASE r # Index(a) \/ y # w
    <3>1. tags2[r][y].valid = tags[r][y].valid /\ tags2[r][y].tag = tags[r][y].tag
      BY <2>1
    <3>2. PICK v \in DOMAIN t :
            /\ Index(v) = r /\ Tag(v) = tags[r][y].tag /\ v \notin L \ ToSet(q)
            /\ Holds(t, q, data, Len(q) + 1, r, y, v)
      BY <3>1 DEF AccessGood, LinesGood
    <3>3. v \in DOMAIN t2 /\ v \notin L \ ToSet(u)
      BY <1>9, <3>2
    <3>4. Holds(t2, u, data, Len(u) + 1, r, y, v)
      BY <1>10, <2>1, <3>2 DEF N
    <3> QED BY <3>1, <3>2, <3>3, <3>4
  <2>2. CASE r = Index(a) /\ y = w
    <3>1. a \in DOMAIN t2 /\ Tag(a) = tags2[r][y].tag /\ a \notin L \ ToSet(u)
      <4>1. t2[a].state \in Accessing
        BY DEF Accessing
      <4> QED BY <1>1, <1>8, <2>2, <4>1 DEF DataGood
    <3>2. Len(u) \in DOMAIN u /\ Len(u) < Len(u) + 1 /\ u[Len(u)] = a
      BY <1>2, <1>3
    <3>3. WritesAt(t2, u, Len(u), r, y)
      <4>1. Len(u) + 1 \notin DOMAIN u
        BY <1>2, <1>3
      <4>2. ~ReadsAt(u, Len(u))
        BY ONLY <4>1 DEF ReadsAt
      <4> QED BY ONLY <1>0, <2>2, <3>2, <4>2 DEF WritesAt
    <3>4. \A m \in DOMAIN u : m <= Len(u)
      BY <1>2, <1>3
    <3>5. Holds(t2, u, data, Len(u) + 1, r, y, a)
      BY <3>2, <3>3, <3>4 DEF Holds
    <3> QED BY <2>2, <3>1, <3>5
  <2> QED BY <2>1, <2>2
<1>12. PICK f \in [DOMAIN ev -> DOMAIN q] :
          /\ \A m, i \in DOMAIN ev : m < i => f[m] < f[i]
          /\ \A i \in DOMAIN q : ReadsAt(q, i) <=> \E m \in DOMAIN ev : f[m] = i
          /\ \A m \in DOMAIN ev : Holds(t, q, data, f[m], Index(q[f[m]]), t[q[f[m]]].way, ev[m])
  BY DEF AccessGood, EvictsGood
<1>13. ASSUME NEW m \in DOMAIN ev
       PROVE  /\ f[m] \in DOMAIN q /\ f[m] \in DOMAIN u
              /\ Holds(t2, u, data, f[m], Index(u[f[m]]), t2[u[f[m]]].way, ev[m])
  <2>1. f[m] \in DOMAIN q /\ f[m] \in 1 .. N + 1 /\ q[f[m]] \in ToSet(q)
    BY <1>2 DEF ToSet
  <2>2. u[f[m]] = q[f[m]] /\ t2[u[f[m]]].way = t[q[f[m]]].way
    BY <1>3, <1>5, <2>1
  <2> QED BY <1>7, <1>12, <2>1, <2>2
<1>14. ev2 \in Seq(Blocks) /\ EvictsGood(t2, u, ev2, data)
  <2>1. CASE ~twice
    <3>1. \A i \in DOMAIN u : ReadsAt(u, i) <=> \E m \in DOMAIN ev : f[m] = i
      <4>1. ASSUME NEW i \in DOMAIN u, i \notin DOMAIN q PROVE ~ReadsAt(u, i)
        BY <1>2, <1>3, <1>6, <2>1, <4>1 DEF ReadsAt
      <4> QED BY ONLY <1>7, <1>12, <1>13, <4>1
    <3>2. f \in [DOMAIN ev -> DOMAIN u]
      BY <1>13
    <3>3. EvictsGood(t2, u, ev, data)
      BY <1>12, <1>13, <3>1, <3>2 DEF EvictsGood
    <3> QED BY <2>1, <3>3
  <2>2. CASE twice
    <3>1. PICK v \in DOMAIN t :
            /\ Index(v) = Index(a) /\ Tag(v) = tags[Index(a)][w].tag
            /\ Holds(t, q, data, N + 1, Index(a), w, v)
      BY <1>1, <2>2 DEF AccessGood, LinesGood, N
    <3>2. MakeAddr(a, tags[Index(a)][w].tag) = v /\ v \in Blocks
      BY <1>1, <3>1, BlockLaws
    <3>3. ev2 = Append(ev, v) /\ ev2 \in Seq(Blocks) /\ DOMAIN ev2 = DOMAIN ev \cup {Len(ev) + 1}
          /\ ev2[Len(ev) + 1] = v /\ \A m \in DOMAIN ev : ev2[m] = ev[m] /\ m < Len(ev) + 1 /\ m \in Int
      BY <2>2, <3>2
    <3> DEFINE g == [m \in DOMAIN ev2 |-> IF m \in DOMAIN ev THEN f[m] ELSE N + 1]
    <3>4. Len(ev) + 1 \notin DOMAIN ev /\ Len(ev) + 1 \in Int
      OBVIOUS
    <3>5. N + 1 \in DOMAIN u /\ u[N + 1] = a /\ N + 1 \notin DOMAIN q
      BY ONLY <1>2, <1>3
    <3>6. /\ g \in [DOMAIN ev2 -> DOMAIN u] /\ g[Len(ev) + 1] = N + 1
          /\ \A m \in DOMAIN ev : g[m] = f[m]
      BY <1>13, <3>3, <3>4, <3>5
    <3>7. \A m, i \in DOMAIN ev2 : m < i => g[m] < g[i]
      <4>1. ASSUME NEW m \in DOMAIN ev2, NEW i \in DOMAIN ev2, m < i PROVE g[m] < g[i]
        <5>1. m \in DOMAIN ev
          BY <3>3, <3>4, <4>1
        <5>2. CASE i \in DOMAIN ev
          BY <1>12, <3>6, <4>1, <5>1, <5>2
        <5>3. CASE i = Len(ev) + 1
          <6>1. f[m] \in 1 .. N
            BY <1>2, <1>13, <5>1
          <6> QED BY <1>2, <3>6, <5>1, <5>3, <6>1
        <5> QED BY <3>3, <5>2, <5>3
      <4> QED BY <4>1
    <3>8. \A i \in DOMAIN u : ReadsAt(u, i) <=> \E m \in DOMAIN ev2 : g[m] = i
      <4>1. ReadsAt(u, N + 1) /\ ~ReadsAt(u, N + 2)
        BY <1>2, <1>3, <2>2 DEF ReadsAt
      <4>2. \A i \in DOMAIN u : i \in DOMAIN q \/ i = N + 1 \/ i = N + 2
        BY <1>2, <1>3
      <4>3. N + 2 \notin DOMAIN q /\ N + 2 # N + 1
        BY <1>2
      <4>4. \A i : (\E m \in DOMAIN ev2 : g[m] = i) <=> (i = N + 1 \/ \E m \in DOMAIN ev : f[m] = i)
        BY ONLY <3>3, <3>6
      <4>5. \A m \in DOMAIN ev : f[m] \in DOMAIN q
        BY <1>13
      <4> HIDE DEF g
      <4>6. ASSUME NEW i \in DOMAIN q
            PROVE  ReadsAt(u, i) <=> \E m \in DOMAIN ev2 : g[m] = i
        BY ONLY <1>7, <1>12, <3>5, <4>4
      <4>7. ReadsAt(u, N + 1) <=> \E m \in DOMAIN ev2 : g[m] = N + 1
        BY <4>1, <4>4
      <4>8. ReadsAt(u, N + 2) <=> \E m \in DOMAIN ev2 : g[m] = N + 2
        <5>1. ~(\E m \in DOMAIN ev : f[m] = N + 2)
          BY <4>3, <4>5
        <5>2. ~(\E m \in DOMAIN ev2 : g[m] = N + 2)
          BY ONLY <4>3, <4>4, <5>1
        <5> QED BY <4>1, <5>2
      <4> QED BY ONLY <4>2, <4>6, <4>7, <4>8, Zenon
    <3>9. ASSUME NEW m \in DOMAIN ev2
          PROVE  Holds(t2, u, data, g[m], Index(u[g[m]]), t2[u[g[m]]].way, ev2[m])
      <4>1. CASE m \in DOMAIN ev
        BY <1>13, <3>3, <3>6, <4>1
      <4>2. CASE m = Len(ev) + 1
        <5>1. Holds(t2, u, data, N + 1, Index(a), w, v)
          <6>1. N + 1 \in 1 .. N + 1
            BY <1>2
          <6> QED BY <1>7, <3>1, <6>1
        <5> QED BY <3>3, <3>5, <3>6, <4>2, <5>1
      <4> QED BY <3>3, <4>1, <4>2
    <3> HIDE DEF g
    <3> QED BY <3>3, <3>6, <3>7, <3>8, <3>9 DEF EvictsGood
  <2> QED BY <2>1, <2>2
<1> QED BY <1>3, <1>8, <1>11, <1>14 DEF AccessGood

\* The first access of q is done: the line that it writes is in data2.
Popped(t, L, q, ev, tags, data, t2, L2, data2) ==
  /\ t \in Tables /\ q \in Seq(Blocks) /\ ev \in Seq(Blocks) /\ q # <<>>
  /\ AccessGood(t, L, q, ev, tags, data) /\ ToSet(q) \subseteq DOMAIN t
  /\ DOMAIN t2 = DOMAIN t /\ \A x \in ToSet(Tail(q)) : t2[x].way = t[x].way
  /\ \A r \in Row, w \in Way :
       data2[r][w] = IF WritesAt(t, q, 1, r, w) THEN q[1] ELSE data[r][w]
  /\ \A v \in DOMAIN t : v \notin L \ ToSet(q) => v \notin L2 \ ToSet(Tail(q))

\* The victims are read in their order, and the line of the first is still the
\* victim's.
LEMMA PopAccess ==
  ASSUME NEW t, NEW L, NEW q, NEW ev, NEW tags, NEW data, NEW t2, NEW L2, NEW data2,
         Popped(t, L, q, ev, tags, data, t2, L2, data2)
  PROVE  /\ LinesGood(t2, L2, Tail(q), tags, data2)
         /\ ReadsAt(q, 1) => ev # <<>> /\ data[Index(q[1])][t[q[1]].way] = Head(ev)
         /\ EvictsGood(t2, Tail(q), IF ReadsAt(q, 1) THEN Tail(ev) ELSE ev, data2)
<1>0. /\ t \in Tables /\ q \in Seq(Blocks) /\ ev \in Seq(Blocks) /\ q # <<>>
      /\ AccessGood(t, L, q, ev, tags, data) /\ ToSet(q) \subseteq DOMAIN t
      /\ DOMAIN t2 = DOMAIN t /\ \A x \in ToSet(Tail(q)) : t2[x].way = t[x].way
      /\ \A r \in Row, w \in Way :
           data2[r][w] = IF WritesAt(t, q, 1, r, w) THEN q[1] ELSE data[r][w]
      /\ \A v \in DOMAIN t : v \notin L \ ToSet(q) => v \notin L2 \ ToSet(Tail(q))
  BY DEF Popped
<1> USE <1>0
<1> DEFINE u == Tail(q)
           N == Len(q)
<1>1. /\ N \in Nat \ {0} /\ DOMAIN q = 1 .. N /\ DOMAIN u = 1 .. N - 1 /\ Len(u) = N - 1
      /\ \A j \in 1 .. N - 1 : u[j] = q[j + 1]
      /\ \A m, n \in DOMAIN ev : m \in Int /\ m >= 1
  OBVIOUS
<1>2. \A i \in DOMAIN q : q[i] \in DOMAIN t /\ Index(q[i]) \in Row /\ t[q[i]].way \in Way
  <2> SUFFICES ASSUME NEW i \in DOMAIN q
               PROVE  q[i] \in DOMAIN t /\ Index(q[i]) \in Row /\ t[q[i]].way \in Way
    OBVIOUS
  <2>1. q[i] \in DOMAIN t
    BY DEF ToSet
  <2>2. q[i] \in Blocks /\ t[q[i]] \in Table
    BY <2>1, TableLaws
  <2> QED BY <2>1, <2>2, BlockLaws DEF Table
<1>3. \A i \in 1 .. N, r \in Row, w \in Way : \A v :
        Holds(t, q, data, i + 1, r, w, v) => Holds(t2, u, data2, i, r, w, v)
  BY PopHolds
<1>4. \A i \in DOMAIN u : i + 1 \in DOMAIN q /\ u[i] = q[i + 1]
                          /\ (ReadsAt(u, i) <=> ReadsAt(q, i + 1))
  BY <1>1 DEF ReadsAt
<1>5. \A i \in DOMAIN u : t2[u[i]].way = t[q[i + 1]].way
  BY <1>4 DEF ToSet
<1> HIDE DEF u, N
<1>6. LinesGood(t2, L2, u, tags, data2)
  <2> SUFFICES ASSUME NEW r \in Row, NEW y \in Way, tags[r][y].valid
               PROVE  \E v \in DOMAIN t2 :
                        /\ Index(v) = r /\ Tag(v) = tags[r][y].tag /\ v \notin L2 \ ToSet(u)
                        /\ Holds(t2, u, data2, Len(u) + 1, r, y, v)
    BY DEF LinesGood
  <2>1. PICK v \in DOMAIN t :
          /\ Index(v) = r /\ Tag(v) = tags[r][y].tag /\ v \notin L \ ToSet(q)
          /\ Holds(t, q, data, N + 1, r, y, v)
    BY DEF AccessGood, LinesGood, N
  <2>2. v \notin L2 \ ToSet(u)
    BY <2>1 DEF u
  <2>3. N \in 1 .. N /\ Len(u) + 1 = N
    BY <1>1
  <2>4. Holds(t2, u, data2, N, r, y, v)
    BY <1>3, <2>1, <2>3
  <2> QED BY <2>1, <2>2, <2>3, <2>4
<1>7. PICK f \in [DOMAIN ev -> DOMAIN q] :
         /\ \A m, n \in DOMAIN ev : m < n => f[m] < f[n]
         /\ \A i \in DOMAIN q : ReadsAt(q, i) <=> \E m \in DOMAIN ev : f[m] = i
         /\ \A m \in DOMAIN ev : Holds(t, q, data, f[m], Index(q[f[m]]), t[q[f[m]]].way, ev[m])
  BY DEF AccessGood, EvictsGood
<1>8. ASSUME NEW m \in DOMAIN ev, f[m] # 1
      PROVE  /\ f[m] - 1 \in DOMAIN u /\ f[m] \in DOMAIN q /\ (f[m] - 1) + 1 = f[m]
             /\ Holds(t2, u, data2, f[m] - 1, Index(u[f[m] - 1]), t2[u[f[m] - 1]].way, ev[m])
  <2>1. f[m] \in DOMAIN q /\ f[m] - 1 \in DOMAIN u /\ (f[m] - 1) + 1 = f[m] /\ f[m] - 1 \in 1 .. N
    BY <1>1, <1>8
  <2>2. u[f[m] - 1] = q[f[m]] /\ t2[u[f[m] - 1]].way = t[q[f[m]]].way
    BY <1>4, <1>5, <2>1
  <2>3. Index(q[f[m]]) \in Row /\ t[q[f[m]]].way \in Way
    BY <1>2, <2>1
  <2>4. Holds(t, q, data, (f[m] - 1) + 1, Index(q[f[m]]), t[q[f[m]]].way, ev[m])
    BY <1>7, <2>1
  <2>5. Holds(t2, u, data2, f[m] - 1, Index(q[f[m]]), t[q[f[m]]].way, ev[m])
    BY <1>3, <2>1, <2>3, <2>4
  <2> QED BY <2>1, <2>2, <2>5
<1>9. ASSUME ReadsAt(q, 1)
      PROVE  /\ ev # <<>> /\ f[1] = 1 /\ data[Index(q[1])][t[q[1]].way] = Head(ev)
             /\ EvictsGood(t2, u, Tail(ev), data2)
  <2>1. 1 \in DOMAIN q
    BY <1>1
  <2>2. PICK m \in DOMAIN ev : f[m] = 1
    BY <1>7, <1>9, <2>1
  <2>3. m = 1
    <3> SUFFICES ASSUME m # 1 PROVE FALSE
      OBVIOUS
    <3>1. 1 \in DOMAIN ev /\ 1 < m
      BY <1>1, <2>2
    <3>2. f[1] < f[m] /\ f[1] \in DOMAIN q
      BY <1>7, <3>1
    <3> QED BY <1>1, <2>2, <3>2
  <2>4. ev # <<>> /\ Head(ev) = ev[1] /\ 1 \in DOMAIN ev /\ f[1] = 1
    BY <2>2, <2>3
  <2>5. data[Index(q[1])][t[q[1]].way] = ev[1]
    <3>1. Holds(t, q, data, 1, Index(q[1]), t[q[1]].way, ev[1])
      BY <1>7, <2>4
    <3>2. \A j \in DOMAIN q : ~(j < 1)
      BY <1>1
    <3> QED BY <3>1, <3>2 DEF Holds
  <2>6. EvictsGood(t2, u, Tail(ev), data2)
    <3> DEFINE e == Tail(ev)
               g == [k \in DOMAIN e |-> f[k + 1] - 1]
    <3>1. \A i \in DOMAIN e : i + 1 \in DOMAIN ev /\ e[i] = ev[i + 1] /\ i \in Int /\ 1 < i + 1
      BY <2>4
    <3>2. \A i \in DOMAIN ev : i = 1 \/ (i - 1 \in DOMAIN e /\ (i - 1) + 1 = i)
      BY <2>4
    <3> HIDE DEF e
    <3>3. \A i \in DOMAIN e : f[i + 1] # 1 /\ f[i + 1] \in DOMAIN q /\ f[i + 1] \in Int
      <4> SUFFICES ASSUME NEW i \in DOMAIN e
                   PROVE  f[i + 1] # 1 /\ f[i + 1] \in DOMAIN q /\ f[i + 1] \in Int
        OBVIOUS
      <4>1. f[1] < f[i + 1] /\ f[i + 1] \in DOMAIN q
        BY <1>7, <2>4, <3>1
      <4> QED BY <1>1, <2>4, <4>1
    <3>4. g \in [DOMAIN e -> DOMAIN u] /\ \A i \in DOMAIN e : g[i] = f[i + 1] - 1
      BY <1>8, <3>1, <3>3
    <3> HIDE DEF g
    <3>5. ASSUME NEW i \in DOMAIN e, NEW n \in DOMAIN e, i < n PROVE g[i] < g[n]
      <4>1. i + 1 \in DOMAIN ev /\ n + 1 \in DOMAIN ev /\ i + 1 < n + 1
        BY <3>1, <3>5
      <4>2. f[i + 1] < f[n + 1]
        BY <1>7, <4>1
      <4> QED BY <3>3, <3>4, <4>2
    <3>6. ASSUME NEW i \in DOMAIN u PROVE ReadsAt(u, i) <=> \E n \in DOMAIN e : g[n] = i
      <4>1. i \in Int /\ i + 1 # 1
        BY <1>1
      <4>2. ReadsAt(u, i) <=> \E n \in DOMAIN ev : f[n] = i + 1
        BY <1>4, <1>7
      <4>3. ASSUME NEW n \in DOMAIN ev, f[n] = i + 1 PROVE \E j \in DOMAIN e : g[j] = i
        <5>1. n - 1 \in DOMAIN e /\ (n - 1) + 1 = n
          BY <2>4, <3>2, <4>1, <4>3
        <5>2. g[n - 1] = i
          BY <3>4, <4>1, <4>3, <5>1
        <5> QED BY <5>1, <5>2
      <4>4. ASSUME NEW j \in DOMAIN e, g[j] = i PROVE \E n \in DOMAIN ev : f[n] = i + 1
        <5>1. j + 1 \in DOMAIN ev /\ f[j + 1] = i + 1
          BY <3>1, <3>3, <3>4, <4>4
        <5> QED BY <5>1
      <4> QED BY <4>2, <4>3, <4>4
    <3>7. ASSUME NEW n \in DOMAIN e
          PROVE  Holds(t2, u, data2, g[n], Index(u[g[n]]), t2[u[g[n]]].way, e[n])
      <4>1. n + 1 \in DOMAIN ev /\ f[n + 1] # 1 /\ e[n] = ev[n + 1] /\ g[n] = f[n + 1] - 1
        BY <3>1, <3>3, <3>4
      <4> QED BY <1>8, <4>1
    <3>8. EvictsGood(t2, u, e, data2)
      BY <3>4, <3>5, <3>6, <3>7 DEF EvictsGood
    <3> QED BY <3>8 DEF e
  <2> QED BY <2>4, <2>5, <2>6
<1>10. ASSUME ~ReadsAt(q, 1) PROVE EvictsGood(t2, u, ev, data2)
  <2>1. \A m \in DOMAIN ev : f[m] \in DOMAIN q /\ f[m] # 1 /\ f[m] \in Int
    BY <1>1, <1>7, <1>10
  <2> DEFINE g == [m \in DOMAIN ev |-> f[m] - 1]
  <2>2. g \in [DOMAIN ev -> DOMAIN u] /\ \A i \in DOMAIN ev : g[i] = f[i] - 1
    BY <1>8, <2>1
  <2> HIDE DEF g
  <2>3. \A m, n \in DOMAIN ev : m < n => g[m] < g[n]
    BY <1>7, <2>1, <2>2
  <2>4. ASSUME NEW i \in DOMAIN u PROVE ReadsAt(u, i) <=> \E n \in DOMAIN ev : g[n] = i
    <3>1. i \in Int
      BY <1>1
    <3>2. \A n \in DOMAIN ev : g[n] = i <=> f[n] = i + 1
      BY <2>1, <2>2, <3>1
    <3> QED BY <1>4, <1>7, <3>2
  <2>5. \A n \in DOMAIN ev : Holds(t2, u, data2, g[n], Index(u[g[n]]), t2[u[g[n]]].way, ev[n])
    BY <1>8, <2>1, <2>2
  <2> QED BY <2>2, <2>3, <2>4, <2>5 DEF EvictsGood
<1> QED BY <1>6, <1>9, <1>10 DEF u

\* Only the entry of block a is another in t2.
OnlyEntry(t, t2, a) == DOMAIN t2 = DOMAIN t /\ \A x \in DOMAIN t \ {a} : t2[x] = t[x]

\* The first data access reads a victim, and t2 is the table then.
VictimRead(t, L, q, ev, tags, data, a, t2) ==
  /\ t \in Tables /\ L \subseteq DOMAIN t /\ q \in Seq(Blocks) /\ ev \in Seq(Blocks)
  /\ AccessGood(t, L, q, ev, tags, data)
  /\ q # <<>> /\ a = Head(q) /\ t[a].state = "VALID__RW_REQ_SENT_TO_CACHE"
  /\ OnlyEntry(t, t2, a)
  /\ t2[a].way = t[a].way /\ t2[a].state = "VALID__WR_REQ_SENT_TO_CACHE"

\* The victim is the one that is due, and the accesses stay good.
LEMMA ReadVictim ==
  ASSUME NEW t, NEW L, NEW q, NEW ev, NEW tags, NEW data, NEW a, NEW t2,
         VictimRead(t, L, q, ev, tags, data, a, t2)
  PROVE  /\ ev # <<>> /\ data[Index(a)][t[a].way] = Head(ev)
         /\ AccessGood(t2, L, Tail(q), Tail(ev), tags, data)
<1> DEFINE u == Tail(q)
           N == Len(q)
<1>0. /\ t \in Tables /\ L \subseteq DOMAIN t /\ q \in Seq(Blocks) /\ ev \in Seq(Blocks)
      /\ AccessGood(t, L, q, ev, tags, data)
      /\ q # <<>> /\ a = Head(q) /\ t[a].state = "VALID__RW_REQ_SENT_TO_CACHE"
      /\ DOMAIN t2 = DOMAIN t /\ \A x \in DOMAIN t \ {a} : t2[x] = t[x]
      /\ t2[a].way = t[a].way /\ t2[a].state = "VALID__WR_REQ_SENT_TO_CACHE"
  BY DEF VictimRead, OnlyEntry
<1> USE <1>0
<1>1. /\ N \in Nat \ {0} /\ DOMAIN q = 1 .. N /\ DOMAIN u = 1 .. N - 1 /\ Len(u) = N - 1
      /\ \A j \in 1 .. N - 1 : u[j] = q[j + 1]
      /\ a = q[1]
  OBVIOUS
<1> HIDE DEF u, N
<1>2. /\ ToSet(q) = {x \in L : t[x].state \in Accessing}
      /\ \A i, j \in DOMAIN q :
           i < j /\ q[i] = q[j] => j = i + 1 /\ t[q[i]].state = "VALID__RW_REQ_SENT_TO_CACHE"
      /\ \A i \in DOMAIN q : t[q[i]].state = "VALID__RW_REQ_SENT_TO_CACHE" =>
           \E j \in DOMAIN q : j # i /\ q[j] = q[i]
  BY DEF AccessGood, DataGood
<1>3. 2 \in DOMAIN q /\ q[2] = a /\ ReadsAt(q, 1)
  <2>1. 1 \in DOMAIN q
    BY <1>1
  <2>2. PICK j \in DOMAIN q : j # 1 /\ q[j] = q[1]
    BY <1>1, <1>2, <2>1
  <2>3. 1 < j
    BY <1>1, <2>2
  <2>4. j = 1 + 1
    BY <1>2, <2>1, <2>2, <2>3
  <2> QED BY <1>1, <2>1, <2>2, <2>4 DEF ReadsAt
<1>4. ToSet(u) = ToSet(q)
  <2>1. \A i \in DOMAIN q : i = 1 \/ (i - 1 \in DOMAIN u /\ u[i - 1] = q[i])
    BY <1>1
  <2>2. 1 \in DOMAIN u /\ u[1] = q[2]
    BY <1>1, <1>3
  <2>3. \A i \in DOMAIN u : i + 1 \in DOMAIN q /\ u[i] = q[i + 1]
    BY <1>1
  <2>4. \A i \in DOMAIN q : q[i] \in ToSet(u)
    <3>1. u[1] \in ToSet(u) /\ \A i \in DOMAIN u : u[i] \in ToSet(u)
      BY <2>2 DEF ToSet
    <3> QED BY <1>1, <1>3, <2>1, <2>2, <3>1
  <2>5. \A i \in DOMAIN u : u[i] \in ToSet(q)
    BY <2>3 DEF ToSet
  <2>6. ToSet(u) \subseteq ToSet(q)
    BY <2>5 DEF ToSet
  <2>7. ToSet(q) \subseteq ToSet(u)
    BY <2>4 DEF ToSet
  <2> QED BY <2>6, <2>7
<1>5. ToSet(q) \subseteq DOMAIN t /\ ToSet(q) \subseteq L
  BY <1>2
<1>6. \A x \in ToSet(u) : t2[x].way = t[x].way
  BY <1>4, <1>5
<1>7. DataGood(t2, L, u)
  <2>1. ToSet(u) = {x \in L : t2[x].state \in Accessing}
    <3>1. \A x \in L : t2[x].state \in Accessing <=> t[x].state \in Accessing
      BY DEF Accessing
    <3> QED BY <1>2, <1>4, <3>1
  <2>2. \A i \in DOMAIN u : i + 1 \in DOMAIN q /\ u[i] = q[i + 1] /\ i \in Int /\ 1 < i + 1
    BY <1>1
  <2>3. \A i \in DOMAIN u : q[i + 1] \in DOMAIN t
    BY <1>5, <2>2 DEF ToSet
  <2>4. \A i \in DOMAIN q : q[i] = a => i \in {1, 2}
    <3> SUFFICES ASSUME NEW i \in DOMAIN q, q[i] = a, i # 1 PROVE i = 2
      OBVIOUS
    <3>1. 1 \in DOMAIN q /\ 1 < i /\ q[1] = q[i]
      BY <1>1
    <3> QED BY <1>2, <3>1
  <2>5. ASSUME NEW i \in DOMAIN u, NEW j \in DOMAIN u, i < j, u[i] = u[j]
        PROVE  j = i + 1 /\ t2[u[i]].state = "VALID__RW_REQ_SENT_TO_CACHE"
    <3>1. i + 1 < j + 1 /\ q[i + 1] = q[j + 1]
      BY <2>2, <2>5
    <3>2. j + 1 = (i + 1) + 1 /\ t[q[i + 1]].state = "VALID__RW_REQ_SENT_TO_CACHE"
      BY <1>2, <2>2, <3>1
    <3>3. q[j + 1] # a
      <4>1. j + 1 \notin {1, 2}
        BY <2>2, <2>5
      <4> QED BY <2>2, <2>4, <4>1
    <3>4. t2[q[i + 1]] = t[q[i + 1]]
      BY <2>3, <3>1, <3>3
    <3> QED BY <2>2, <3>2, <3>4
  <2>6. ASSUME NEW i \in DOMAIN u, t2[u[i]].state = "VALID__RW_REQ_SENT_TO_CACHE"
        PROVE  \E j \in DOMAIN u : j # i /\ u[j] = u[i]
    <3>1. q[i + 1] # a /\ t[q[i + 1]].state = "VALID__RW_REQ_SENT_TO_CACHE"
      BY <2>2, <2>3, <2>6
    <3>2. PICK j \in DOMAIN q : j # i + 1 /\ q[j] = q[i + 1]
      BY <1>2, <2>2, <3>1
    <3>3. j # 1
      BY <1>1, <3>1, <3>2
    <3>4. j - 1 \in DOMAIN u /\ j - 1 # i /\ u[j - 1] = u[i]
      BY <1>1, <2>2, <3>2, <3>3
    <3> QED BY <3>4
  <2> QED BY <2>1, <2>5, <2>6 DEF DataGood
<1>8. /\ LinesGood(t2, L, u, tags, data)
      /\ ev # <<>> /\ data[Index(a)][t[a].way] = Head(ev)
      /\ EvictsGood(t2, u, Tail(ev), data)
  <2>1. \A r \in Row, w \in Way :
          data[r][w] = IF WritesAt(t, q, 1, r, w) THEN q[1] ELSE data[r][w]
    BY <1>3 DEF WritesAt
  <2>2. \A v \in DOMAIN t : v \notin L \ ToSet(q) => v \notin L \ ToSet(u)
    BY <1>4
  <2>3. \A x \in ToSet(Tail(q)) : t2[x].way = t[x].way
    BY <1>6 DEF u
  <2>4. \A v \in DOMAIN t : v \notin L \ ToSet(q) => v \notin L \ ToSet(Tail(q))
    BY <2>2 DEF u
  <2> HIDE DEF u
  <2>5. /\ LinesGood(t2, L, Tail(q), tags, data)
        /\ ReadsAt(q, 1) => ev # <<>> /\ data[Index(q[1])][t[q[1]].way] = Head(ev)
        /\ EvictsGood(t2, Tail(q), IF ReadsAt(q, 1) THEN Tail(ev) ELSE ev, data)
    <3>1. Popped(t, L, q, ev, tags, data, t2, L, data)
      BY <1>5, <2>1, <2>3, <2>4 DEF Popped
    <3> QED BY ONLY <3>1, PopAccess
  <2> QED BY <1>1, <1>3, <2>5 DEF u
<1> QED BY <1>7, <1>8 DEF AccessGood, u

\* A line has been written, and its block leaves the table.
LEMMA WriteBlock ==
  ASSUME NEW t \in Tables, NEW L, NEW q \in Seq(Blocks), NEW ev \in Seq(Blocks),
         NEW tags, NEW data \in [Row -> [Way -> Blocks \cup {0}]],
         AccessGood(t, L, q, ev, tags, data), q # <<>>,
         L \subseteq DOMAIN t, NEW a, a = Head(q), t[a].state = "VALID__WR_REQ_SENT_TO_CACHE",
         NEW t2, OnlyEntry(t, t2, a),
         NEW data2, data2 = [data EXCEPT ![Index(a)][t[a].way] = a]
  PROVE  AccessGood(t2, L \ {a}, Tail(q), ev, tags, data2)
<1> DEFINE u == Tail(q)
           N == Len(q)
<1>0. DOMAIN t2 = DOMAIN t /\ \A x \in DOMAIN t \ {a} : t2[x] = t[x]
  BY DEF OnlyEntry
<1> USE <1>0
<1>1. /\ N \in Nat \ {0} /\ DOMAIN q = 1 .. N /\ DOMAIN u = 1 .. N - 1 /\ Len(u) = N - 1
      /\ \A j \in 1 .. N - 1 : u[j] = q[j + 1]
      /\ a = q[1]
  OBVIOUS
<1> HIDE DEF u, N
<1>2. /\ ToSet(q) = {x \in L : t[x].state \in Accessing}
      /\ \A i, j \in DOMAIN q :
           i < j /\ q[i] = q[j] => j = i + 1 /\ t[q[i]].state = "VALID__RW_REQ_SENT_TO_CACHE"
      /\ \A i \in DOMAIN q : t[q[i]].state = "VALID__RW_REQ_SENT_TO_CACHE" =>
           \E j \in DOMAIN q : j # i /\ q[j] = q[i]
  BY DEF AccessGood, DataGood
<1>3. 1 \in DOMAIN q /\ \A j \in DOMAIN q : j # 1 => q[j] # a
  <2>1. 1 \in DOMAIN q /\ \A j \in DOMAIN q : j # 1 => 1 < j
    BY <1>1
  <2> QED BY <1>1, <1>2, <2>1
<1>4. ~ReadsAt(q, 1)
  BY <1>1, <1>3 DEF ReadsAt
<1>5. ToSet(u) = ToSet(q) \ {a}
  <2>1. \A i \in DOMAIN q : i = 1 \/ (i - 1 \in DOMAIN u /\ u[i - 1] = q[i])
    BY <1>1
  <2>2. \A i \in DOMAIN u : i + 1 \in DOMAIN q /\ i + 1 # 1 /\ u[i] = q[i + 1]
    BY <1>1
  <2>3. \A i \in DOMAIN q : q[i] \in ToSet(u) \cup {a}
    BY <1>1, <2>1 DEF ToSet
  <2>4. \A i \in DOMAIN u : u[i] \in ToSet(q) \ {a}
    BY <1>3, <2>2 DEF ToSet
  <2>5. ToSet(u) \subseteq ToSet(q) \ {a}
    BY <2>4 DEF ToSet
  <2>6. ToSet(q) \subseteq ToSet(u) \cup {a}
    BY <2>3 DEF ToSet
  <2> QED BY <2>5, <2>6
<1>6. ToSet(q) \subseteq DOMAIN t /\ ToSet(q) \subseteq L
  BY <1>2
<1>7. \A x \in ToSet(u) : t2[x] = t[x]
  BY <1>5, <1>6
<1>8. DataGood(t2, L \ {a}, u)
  <2>1. ToSet(u) = {x \in L \ {a} : t2[x].state \in Accessing}
    BY <1>2, <1>5
  <2>2. \A i \in DOMAIN u : i + 1 \in DOMAIN q /\ u[i] = q[i + 1] /\ i \in Int
    BY <1>1
  <2>3. \A i \in DOMAIN u : t2[u[i]] = t[q[i + 1]]
    BY <1>7, <2>2 DEF ToSet
  <2>4. ASSUME NEW i \in DOMAIN u, NEW j \in DOMAIN u, i < j, u[i] = u[j]
        PROVE  j = i + 1 /\ t2[u[i]].state = "VALID__RW_REQ_SENT_TO_CACHE"
    <3>1. i + 1 < j + 1 /\ q[i + 1] = q[j + 1]
      BY <2>2, <2>4
    <3>2. j + 1 = (i + 1) + 1 /\ t[q[i + 1]].state = "VALID__RW_REQ_SENT_TO_CACHE"
      BY <1>2, <2>2, <3>1
    <3> QED BY <2>2, <2>3, <3>2
  <2>5. ASSUME NEW i \in DOMAIN u, t2[u[i]].state = "VALID__RW_REQ_SENT_TO_CACHE"
        PROVE  \E j \in DOMAIN u : j # i /\ u[j] = u[i]
    <3>1. PICK j \in DOMAIN q : j # i + 1 /\ q[j] = q[i + 1]
      BY <1>2, <2>2, <2>3, <2>5
    <3>2. q[i + 1] # a
      BY <1>1, <1>3, <2>2
    <3>3. j # 1
      BY <1>1, <3>1, <3>2
    <3>4. j - 1 \in DOMAIN u /\ j - 1 # i /\ u[j - 1] = u[i]
      BY <1>1, <2>2, <3>1, <3>3
    <3> QED BY <3>4
  <2> QED BY <2>1, <2>4, <2>5 DEF DataGood
<1>9. LinesGood(t2, L \ {a}, u, tags, data2) /\ EvictsGood(t2, u, ev, data2)
  <2>1. \A r \in Row, w \in Way :
          data2[r][w] = IF WritesAt(t, q, 1, r, w) THEN q[1] ELSE data[r][w]
    <3>1. \A r \in Row, w \in Way :
            data2[r][w] = IF r = Index(a) /\ w = t[a].way THEN a ELSE data[r][w]
      OBVIOUS
    <3> QED BY <1>1, <1>3, <1>4, <3>1 DEF WritesAt
  <2>2. \A v \in DOMAIN t : v \notin L \ ToSet(q) => v \notin (L \ {a}) \ ToSet(u)
    BY <1>5
  <2>3. \A x \in ToSet(u) : t2[x].way = t[x].way
    BY <1>7
  <2>4. Popped(t, L, q, ev, tags, data, t2, L \ {a}, data2)
    BY <1>6, <2>1, <2>2, <2>3 DEF Popped, u
  <2>5. /\ LinesGood(t2, L \ {a}, Tail(q), tags, data2)
        /\ EvictsGood(t2, Tail(q), IF ReadsAt(q, 1) THEN Tail(ev) ELSE ev, data2)
    BY ONLY <2>4, PopAccess
  <2> QED BY <1>4, <2>5 DEF u
<1> QED BY <1>8, <1>9 DEF AccessGood, u
-----------------------------------------------------------------------------
(* What a step of a bank does to the whole cache.                          *)
(***************************************************************************)

\* r is s with k as its bank b.
Sets(s, r, b, k) ==
  /\ OnlyBank(s, r, b) /\ k \in Banks /\ r.banks[b] = k
  /\ r.req = s.req /\ r.refused = s.refused

\* Each field of a bank, set.
LEMMA SetField ==
  ASSUME NEW s \in Caches, NEW b \in Bank, NEW k, k = s.banks[b]
  PROVE  /\ k \in Banks
         /\ \A v \in Tables : Sets(s, [s EXCEPT !.banks[b].table = v], b, [k EXCEPT !.table = v])
         /\ \A v \in Seq(Blocks) :
              /\ Sets(s, [s EXCEPT !.banks[b].tag_check_q = v], b, [k EXCEPT !.tag_check_q = v])
              /\ Sets(s, [s EXCEPT !.banks[b].data_access_q = v], b, [k EXCEPT !.data_access_q = v])
              /\ Sets(s, [s EXCEPT !.banks[b].evict_q = v], b, [k EXCEPT !.evict_q = v])
         /\ \A v \in Delay(MISS_TIME) :
              Sets(s, [s EXCEPT !.banks[b].tag_delay = v], b, [k EXCEPT !.tag_delay = v])
         /\ \A v \in Delay(HIT_TIME - MISS_TIME) :
              Sets(s, [s EXCEPT !.banks[b].data_delay = v], b, [k EXCEPT !.data_delay = v])
         /\ \A v \in [Row -> [Way -> Line]] :
              Sets(s, [s EXCEPT !.banks[b].tags = v], b, [k EXCEPT !.tags = v])
         /\ \A v \in [Row -> [Way -> Blocks \cup {0}]] :
              Sets(s, [s EXCEPT !.banks[b].data = v], b, [k EXCEPT !.data = v])
<1>1. k \in Banks
  BY DEF Caches
<1>2. \A y \in Banks : Sets(s, [s EXCEPT !.banks[b] = y], b, y)
  BY SetBank DEF Sets
<1>3. \A v \in Tables : [k EXCEPT !.table = v] \in Banks
  BY <1>1 DEF Banks
<1>4. \A v \in Seq(Blocks) : [k EXCEPT !.tag_check_q = v] \in Banks
  BY <1>1 DEF Banks
<1>5. \A v \in Seq(Blocks) : [k EXCEPT !.data_access_q = v] \in Banks
  BY <1>1 DEF Banks
<1>6. \A v \in Seq(Blocks) : [k EXCEPT !.evict_q = v] \in Banks
  BY <1>1 DEF Banks
<1>7. \A v \in Delay(MISS_TIME) : [k EXCEPT !.tag_delay = v] \in Banks
  BY <1>1 DEF Banks
<1>8. \A v \in Delay(HIT_TIME - MISS_TIME) : [k EXCEPT !.data_delay = v] \in Banks
  BY <1>1 DEF Banks
<1>9. \A v \in [Row -> [Way -> Line]] : [k EXCEPT !.tags = v] \in Banks
  BY <1>1 DEF Banks
<1>10. \A v \in [Row -> [Way -> Blocks \cup {0}]] : [k EXCEPT !.data = v] \in Banks
  BY <1>1 DEF Banks
<1>11. \A v : /\ [s EXCEPT !.banks[b].table = v] = [s EXCEPT !.banks[b] = [k EXCEPT !.table = v]]
              /\ [s EXCEPT !.banks[b].tag_check_q = v] = [s EXCEPT !.banks[b] = [k EXCEPT !.tag_check_q = v]]
              /\ [s EXCEPT !.banks[b].data_access_q = v] = [s EXCEPT !.banks[b] = [k EXCEPT !.data_access_q = v]]
              /\ [s EXCEPT !.banks[b].evict_q = v] = [s EXCEPT !.banks[b] = [k EXCEPT !.evict_q = v]]
              /\ [s EXCEPT !.banks[b].tag_delay = v] = [s EXCEPT !.banks[b] = [k EXCEPT !.tag_delay = v]]
              /\ [s EXCEPT !.banks[b].data_delay = v] = [s EXCEPT !.banks[b] = [k EXCEPT !.data_delay = v]]
              /\ [s EXCEPT !.banks[b].tags = v] = [s EXCEPT !.banks[b] = [k EXCEPT !.tags = v]]
              /\ [s EXCEPT !.banks[b].data = v] = [s EXCEPT !.banks[b] = [k EXCEPT !.data = v]]
  OBVIOUS
<1> QED BY <1>1, <1>2, <1>3, <1>4, <1>5, <1>6, <1>7, <1>8, <1>9, <1>10, <1>11

\* From s to r only block a and its bank b change.
Around(s, r, b, a) ==
  /\ \A x \in Bank \ {b} : r.banks[x] = s.banks[x]
  /\ DOMAIN r.banks[b].table = DOMAIN s.banks[b].table \cup {a}
  /\ \A x \in DOMAIN s.banks[b].table \ {a} : r.banks[b].table[x] = s.banks[b].table[x]
  /\ r.retired \in {s.retired, s.retired \cup {a}}

\* The other blocks.
LEMMA AroundLaws ==
  ASSUME NEW s, NEW r, NEW a \in Blocks, NEW b, b = BankOf(a), Around(s, r, b, a)
  PROVE  \A x \in Blocks \ {a} : StateOf(r, x) = StateOf(s, x) /\ IdsOf(r, x) = IdsOf(s, x)
<1> SUFFICES ASSUME NEW x \in Blocks, x # a
             PROVE  StateOf(r, x) = StateOf(s, x) /\ IdsOf(r, x) = IdsOf(s, x)
  OBVIOUS
<1>1. x \in r.retired <=> x \in s.retired
  BY DEF Around
<1>2. BankOf(x) \in Bank
  BY BlockLaws
<1>3. /\ x \in DOMAIN TableOf(r, x) <=> x \in DOMAIN TableOf(s, x)
      /\ x \in DOMAIN TableOf(s, x) => TableOf(r, x)[x] = TableOf(s, x)[x]
  <2>1. CASE BankOf(x) = b
    BY <2>1 DEF Around, TableOf
  <2>2. CASE BankOf(x) # b
    BY <1>2, <2>2 DEF Around, TableOf
  <2> QED BY <2>1, <2>2
<1> QED BY <1>1, <1>3 DEF StateOf, IdsOf

\* The cache is good again, if that bank and what the banks share are.
LEMMA Reassembled ==
  ASSUME NEW hm, NEW hand, NEW hand2, NEW s \in Good(hm, hand), NEW r \in Caches,
         NEW a \in Blocks, NEW b, b = BankOf(a), Around(s, r, b, a), ~r.hung,
         BankGood(r.banks[b], b, Alive(r, b)),
         \A tran \in ToSet(r.req) \cup r.refused : tran.data = tran.adrs,
         IdsGood(r), FillsGood(r, hm, hand2)
  PROVE  r \in Good(hm, hand2)
<1>1. /\ \A x \in Bank : BankGood(s.banks[x], x, Alive(s, x))
      /\ \A x \in s.retired : x \in DOMAIN TableOf(s, x)
      /\ s.retired \subseteq Blocks
  BY DEF Good, Structure, Caches
<1>2. b \in Bank
  BY BlockLaws
<1>3. ASSUME NEW x \in Bank, x # b PROVE BankGood(r.banks[x], x, Alive(r, x))
  <2>1. r.banks[x] = s.banks[x]
    BY <1>3 DEF Around
  <2>2. a \notin DOMAIN s.banks[x].table
    BY <1>1, <1>3 DEF BankGood
  <2>3. Alive(r, x) = Alive(s, x)
    BY <2>1, <2>2 DEF Alive, Around
  <2> QED BY <1>1, <2>1, <2>3
<1>4. ASSUME NEW x \in r.retired PROVE x \in DOMAIN TableOf(r, x)
  <2>1. CASE x = a
    BY <2>1 DEF TableOf, Around
  <2>2. CASE x # a
    <3>1. x \in s.retired /\ BankOf(x) \in Bank
      BY <1>1, <2>2, BlockLaws DEF Around
    <3>2. x \in DOMAIN s.banks[BankOf(x)].table
      BY <1>1, <3>1 DEF TableOf
    <3> QED BY <3>1, <3>2 DEF TableOf, Around
  <2> QED BY <2>1, <2>2
<1>5. \A x \in Bank : BankGood(r.banks[x], x, Alive(r, x))
  BY <1>3
<1> QED BY <1>4, <1>5 DEF Good, Structure

Waiting == {"INVALID__CACHE_CHECK", "INVALID__LINEFILL_REQ_SENT"}

\* The requests of block a stay or are dropped, or are reported as its fill arrives.
LEMMA IdsKeep ==
  ASSUME NEW s \in Caches, NEW r, NEW a \in Blocks, IdsGood(s), r.next_req_id = s.next_req_id,
         \A x \in Blocks \ {a} : StateOf(r, x) = StateOf(s, x) /\ IdsOf(r, x) = IdsOf(s, x),
         IdsOf(r, a) \subseteq IdsOf(s, a),
         \/ r.completed = s.completed /\ (StateOf(r, a) \in Waiting => StateOf(s, a) \in Waiting)
         \/ /\ r.completed = s.completed \cup IdsOf(s, a)
            /\ StateOf(s, a) \in Waiting /\ StateOf(r, a) \notin Waiting
  PROVE  IdsGood(r)
<1> DEFINE n == s.next_req_id
<1>0. /\ s.completed \cup returned \subseteq 0 .. n - 1
      /\ s.completed \cap returned = {}
      /\ \A x \in Blocks : IdsOf(s, x) \subseteq 0 .. n - 1
      /\ \A x, y \in Blocks : x # y => IdsOf(s, x) \cap IdsOf(s, y) = {}
      /\ \A x \in Blocks : StateOf(s, x) \in Waiting => IdsOf(s, x) \cap (s.completed \cup returned) = {}
  BY DEF IdsGood, Waiting
<1> HIDE DEF n
<1>1. r.completed \cup returned \subseteq 0 .. n - 1 /\ r.completed \cap returned = {}
  BY <1>0
<1>2. \A x \in Blocks : IdsOf(r, x) \subseteq IdsOf(s, x)
  OBVIOUS
<1>3. ASSUME NEW x \in Blocks, StateOf(r, x) \in Waiting
      PROVE  IdsOf(r, x) \cap (r.completed \cup returned) = {}
  <2>1. CASE x = a
    BY <1>0, <1>2, <1>3, <2>1
  <2>2. CASE x # a
    <3>1. StateOf(s, x) \in Waiting /\ IdsOf(r, x) = IdsOf(s, x) /\ IdsOf(s, x) \cap IdsOf(s, a) = {}
      BY <1>0, <1>3, <2>2
    <3> QED BY <1>0, <3>1
  <2> QED BY <2>1, <2>2
<1>4. \A x, y \in Blocks : x # y => IdsOf(r, x) \cap IdsOf(r, y) = {}
  BY <1>0, <1>2
<1>5. \A x \in Blocks : IdsOf(r, x) \subseteq 0 .. n - 1
  BY <1>0, <1>2
<1> QED BY <1>1, <1>3, <1>4, <1>5 DEF IdsGood, Waiting, n

\* A new request joins block a, if any.
LEMMA IdsJoin ==
  ASSUME NEW s \in Caches, NEW r, NEW a \in Blocks, IdsGood(s),
         r.next_req_id = s.next_req_id + 1, r.completed = s.completed,
         \A x \in Blocks \ {a} : StateOf(r, x) = StateOf(s, x) /\ IdsOf(r, x) = IdsOf(s, x),
         IdsOf(r, a) \subseteq IdsOf(s, a) \cup {s.next_req_id},
         StateOf(r, a) \in Waiting => StateOf(s, a) \in Waiting \/ IdsOf(s, a) = {}
  PROVE  IdsGood(r)
<1> DEFINE n == s.next_req_id
<1>0. /\ s.completed \cup returned \subseteq 0 .. n - 1
      /\ s.completed \cap returned = {}
      /\ \A x \in Blocks : IdsOf(s, x) \subseteq 0 .. n - 1
      /\ \A x, y \in Blocks : x # y => IdsOf(s, x) \cap IdsOf(s, y) = {}
      /\ \A x \in Blocks : StateOf(s, x) \in Waiting => IdsOf(s, x) \cap (s.completed \cup returned) = {}
      /\ n \in Nat /\ r.next_req_id = n + 1
  BY DEF IdsGood, Waiting, Caches
<1> HIDE DEF n
<1>1. n \notin 0 .. n - 1 /\ 0 .. (n + 1) - 1 = (0 .. n - 1) \cup {n}
  BY <1>0
<1>2. \A x \in Blocks : IdsOf(r, x) \subseteq IdsOf(s, x) \cup (IF x = a THEN {n} ELSE {})
  BY DEF n
<1>3. ASSUME NEW x \in Blocks, StateOf(r, x) \in Waiting
      PROVE  IdsOf(r, x) \cap (r.completed \cup returned) = {}
  BY <1>0, <1>1, <1>2, <1>3
<1>4. \A x, y \in Blocks : x # y => IdsOf(r, x) \cap IdsOf(r, y) = {}
  <2> SUFFICES ASSUME NEW x \in Blocks, NEW y \in Blocks, x # y
               PROVE  IdsOf(r, x) \cap IdsOf(r, y) = {}
    OBVIOUS
  <2>1. n \notin IdsOf(s, x) /\ n \notin IdsOf(s, y) /\ IdsOf(s, x) \cap IdsOf(s, y) = {}
    BY <1>0, <1>1
  <2> QED BY <1>2, <2>1
<1>5. \A x \in Blocks : IdsOf(r, x) \subseteq 0 .. (n + 1) - 1
  BY <1>0, <1>1, <1>2
<1>6. r.completed \cup returned \subseteq 0 .. (n + 1) - 1 /\ r.completed \cap returned = {}
  BY <1>0, <1>1
<1> QED BY <1>0, <1>3, <1>4, <1>5, <1>6 DEF IdsGood, Waiting

\* A transaction has been handed to the memory, which took it or refused it.
Sent(s, r, tran) ==
  \/ r.req = Append(s.req, tran) /\ r.refused = s.refused
  \/ r.req = s.req /\ r.refused = s.refused \cup {tran}

\* It is one more fill on its way, if it is a read.
LEMMA SentLaws ==
  ASSUME NEW hm \in Seq(Blocks), NEW hand, NEW s \in Good(hm, hand), NEW r, NEW tran \in Tran, Sent(s, r, tran),
         tran.data = tran.adrs
  PROVE  /\ \A y \in ToSet(r.req) \cup r.refused : y.data = y.adrs
         /\ \A x \in Blocks : Fills(s, hm, hand, x) = 0 \/ tran # ReadOf(x) =>
              Fills(r, hm, hand, x) = Fills(s, hm, hand, x) + (IF tran = ReadOf(x) THEN 1 ELSE 0)
<1>1. s.req \in Seq(Tran) /\ \A y \in ToSet(s.req) \cup s.refused : y.data = y.adrs
  BY DEF Good, Structure, Caches, Buffers
<1>2. \A x : Occurrences(s.req, x) \in Nat /\ Occurrences(Append(s.req, tran), x)
                                             = Occurrences(s.req, x) + (IF tran = x THEN 1 ELSE 0)
  <2>1. \A x : Occurrences(s.req, x) \in Nat
    BY <1>1, OccurrencesType
  <2>2. \A x : Occurrences(Append(s.req, tran), x) = Occurrences(s.req, x) + (IF tran = x THEN 1 ELSE 0)
    BY ONLY <1>1, tran \in Tran, OccurrencesAppend
  <2> QED BY <2>1, <2>2
<1>3. ToSet(Append(s.req, tran)) = ToSet(s.req) \cup {tran}
  BY <1>1, AppendOnce
<1>4. \A y \in ToSet(r.req) \cup r.refused : y.data = y.adrs
  BY <1>1, <1>3 DEF Sent
<1>5. ASSUME NEW x \in Blocks, Fills(s, hm, hand, x) = 0 \/ tran # ReadOf(x)
      PROVE  Fills(r, hm, hand, x) = Fills(s, hm, hand, x) + (IF tran = ReadOf(x) THEN 1 ELSE 0)
  <2> DEFINE m == Occurrences(hm, x)
             o == Occurrences(s.req, ReadOf(x))
             p == Occurrences(r.req, ReadOf(x))
             y == ReadOf(x)
  <2>1. o \in Nat /\ (r.req = s.req => p = o)
        /\ (r.req = Append(s.req, tran) => p = o + (IF tran = y THEN 1 ELSE 0))
    BY <1>2
  <2>2. m \in Nat
    BY OccurrencesType
  <2> HIDE DEF m, o, p, y
  <2>3. /\ Fills(r, hm, hand, x) = p + m + (IF y \in r.refused THEN 1 ELSE 0) + (IF hand = x THEN 1 ELSE 0)
        /\ Fills(s, hm, hand, x) = o + m + (IF y \in s.refused THEN 1 ELSE 0) + (IF hand = x THEN 1 ELSE 0)
    BY DEF Fills, m, o, p, y
  <2>4. Fills(s, hm, hand, x) = 0 => y \notin s.refused
    BY <2>1, <2>2, <2>3
  <2>5. Fills(s, hm, hand, x) = 0 \/ tran # y
    BY <1>5 DEF y
  <2>6. Fills(r, hm, hand, x) = Fills(s, hm, hand, x) + (IF tran = y THEN 1 ELSE 0)
    BY <2>1, <2>2, <2>3, <2>4, <2>5 DEF Sent
  <2> QED BY <2>6 DEF y
<1> QED BY <1>4, <1>5
-----------------------------------------------------------------------------
(* The steps of a bank.                                                    *)
(***************************************************************************)

\* The fields of a bank.
LEMMA BankTypes ==
  ASSUME NEW k \in Banks
  PROVE  /\ k.table \in Tables /\ k.tag_check_q \in Seq(Blocks) /\ k.data_access_q \in Seq(Blocks)
         /\ k.evict_q \in Seq(Blocks) /\ k.tags \in [Row -> [Way -> Line]]
         /\ k.tag_delay \in Delay(MISS_TIME) /\ k.data_delay \in Delay(HIT_TIME - MISS_TIME)
         /\ k.data \in [Row -> [Way -> Blocks \cup {0}]]
  BY DEF Banks

\* A block that is in the table of its bank and alive.
LEMMA AliveLaws ==
  ASSUME NEW hm, NEW hand, NEW s \in Good(hm, hand), NEW b \in Bank, NEW k, k = s.banks[b]
  PROVE  /\ s \in Caches /\ ~s.hung /\ k \in Banks /\ BankGood(k, b, Alive(s, b)) /\ IdsGood(s)
         /\ \A a \in Alive(s, b) :
              /\ a \in Blocks /\ a \in DOMAIN k.table /\ k.table[a] \in Table /\ BankOf(a) = b
              /\ StateOf(s, a) = k.table[a].state /\ IdsOf(s, a) = ToSet(k.table[a].req_ids)
              /\ Fills(s, hm, hand, a)
                   = IF k.table[a].state = "INVALID__LINEFILL_REQ_SENT" THEN 1 ELSE 0
<1>1. s \in Caches /\ ~s.hung /\ k \in Banks /\ BankGood(k, b, Alive(s, b)) /\ IdsGood(s)
  BY DEF Good, Structure, Caches
<1>2. ASSUME NEW a \in Alive(s, b)
      PROVE  /\ a \in Blocks /\ a \in DOMAIN k.table /\ k.table[a] \in Table /\ BankOf(a) = b
             /\ a \notin s.retired
  <2>1. a \in DOMAIN k.table /\ a \notin s.retired
    BY DEF Alive
  <2>2. k.table \in Tables
    BY <1>1, BankTypes
  <2>3. a \in Blocks /\ k.table[a] \in Table
    BY <2>1, <2>2, TableLaws
  <2> QED BY <1>1, <2>1, <2>3 DEF BankGood
<1>3. ASSUME NEW a \in Alive(s, b)
      PROVE  StateOf(s, a) = k.table[a].state /\ IdsOf(s, a) = ToSet(k.table[a].req_ids)
  BY <1>2 DEF StateOf, IdsOf, TableOf
<1>4. ASSUME NEW a \in Alive(s, b)
      PROVE  Fills(s, hm, hand, a)
               = IF k.table[a].state = "INVALID__LINEFILL_REQ_SENT" THEN 1 ELSE 0
  BY <1>2, <1>3 DEF Good, Structure, FillsGood
<1> QED BY <1>1, <1>2, <1>3, <1>4

\* No line holds a block whose line is not there: no tag check hits.
LEMMA NoHit ==
  ASSUME NEW k \in Banks, NEW b, NEW L, BankGood(k, b, L),
         NEW a \in L, k.table[a].state \notin Accessing
  PROVE  HitWays(k.tags[Index(a)], a) = {}
<1>1. k.table \in Tables /\ a \in DOMAIN k.table /\ L \subseteq DOMAIN k.table
  BY BankTypes DEF BankGood
<1>2. DOMAIN k.table \subseteq Blocks
  BY <1>1, TableLaws
<1>3. a \notin ToSet(k.data_access_q)
  BY DEF BankGood, AccessGood, DataGood
<1>4. ASSUME NEW w \in Way, Matches(k.tags[Index(a)][w], a) PROVE FALSE
  <2>1. Index(a) \in Row
    BY <1>1, <1>2, BlockLaws
  <2>2. PICK v \in DOMAIN k.table :
          /\ Index(v) = Index(a) /\ Tag(v) = k.tags[Index(a)][w].tag
          /\ v \notin L \ ToSet(k.data_access_q)
    BY <1>4, <2>1 DEF BankGood, AccessGood, LinesGood, Matches
  <2>3. v = a
    BY <1>1, <1>2, <1>4, <2>2, BlockLaws DEF Matches
  <2> QED BY <1>3, <2>2, <2>3
<1> QED BY <1>4 DEF HitWays

\* A row that a tag check has aged.
LEMMA AgedLaws ==
  ASSUME NEW row \in [Way -> Line], NEW a
  PROVE  /\ Aged(row, a) \in [Way -> Line]
         /\ \A w \in Way : Aged(row, a)[w].valid = row[w].valid /\ Aged(row, a)[w].tag = row[w].tag
<1>1. ASSUME NEW w \in Way
      PROVE  /\ Aged(row, a)[w] \in Line
             /\ Aged(row, a)[w].valid = row[w].valid /\ Aged(row, a)[w].tag = row[w].tag
  <2> DEFINE n == IF Matches(row[w], a) THEN 0 ELSE row[w].age + 1
  <2>1. Aged(row, a)[w] = [row[w] EXCEPT !.age = n]
    BY DEF Aged
  <2>2. row[w] \in Line /\ n \in Nat
    BY DEF Line
  <2> HIDE DEF n
  <2>3. [row[w] EXCEPT !.age = n] \in Line
    BY <2>2 DEF Line
  <2> QED BY <2>1, <2>2, <2>3 DEF Line
<1>2. Aged(row, a) \in [Way -> Line]
  <2>1. DOMAIN Aged(row, a) = Way /\ Aged(row, a) = [w \in Way |-> Aged(row, a)[w]]
    BY DEF Aged
  <2> QED BY <1>1, <2>1
<1> QED BY <1>1, <1>2

\* The table of bank b has got entry e for block a.
Entered(s, r, b, a, e) ==
  /\ a \in Blocks /\ b = BankOf(a)
  /\ r.banks[b].table = Put(s.banks[b].table, a, e)
  /\ \A x \in Bank \ {b} : r.banks[x] = s.banks[x]
  /\ r.retired \in {s.retired, s.retired \cup {a}}

\* What that does to the states and the requests of the blocks.
LEMMA TableStep ==
  ASSUME NEW s, NEW r, NEW b, NEW a, NEW e, Entered(s, r, b, a, e)
  PROVE  /\ Around(s, r, b, a)
         /\ \A x \in Blocks \ {a} : StateOf(r, x) = StateOf(s, x) /\ IdsOf(r, x) = IdsOf(s, x)
         /\ StateOf(r, a) = IF a \in r.retired THEN "RETIRED" ELSE e.state
         /\ IdsOf(r, a) = ToSet(e.req_ids)
         /\ Alive(r, b) = (Alive(s, b) \cup {a}) \ (r.retired \cap {a})
<1> DEFINE t == s.banks[b].table
           u == r.banks[b].table
<1>0. a \in Blocks /\ b = BankOf(a)
  BY DEF Entered
<1>1. DOMAIN u = DOMAIN t \cup {a} /\ u[a] = e /\ \A x \in DOMAIN t \ {a} : u[x] = t[x]
  BY DEF Put, Entered
<1>2. TableOf(r, a) = u
  BY <1>0 DEF TableOf
<1> HIDE DEF t, u
<1>3. Around(s, r, b, a)
  BY <1>1 DEF Around, Entered, t, u
<1>4. \A x \in Blocks \ {a} : StateOf(r, x) = StateOf(s, x) /\ IdsOf(r, x) = IdsOf(s, x)
  BY <1>0, <1>3, AroundLaws
<1>5. StateOf(r, a) = IF a \in r.retired THEN "RETIRED" ELSE e.state
  BY <1>1, <1>2 DEF StateOf
<1>6. IdsOf(r, a) = ToSet(e.req_ids)
  BY <1>1, <1>2 DEF IdsOf
<1>7. Alive(r, b) = (Alive(s, b) \cup {a}) \ (r.retired \cap {a})
  <2>1. Alive(r, b) = (DOMAIN t \cup {a}) \ r.retired /\ Alive(s, b) = DOMAIN t \ s.retired
    BY <1>1 DEF Alive, t, u
  <2>2. CASE r.retired = s.retired
    BY <2>1, <2>2
  <2>3. CASE r.retired = s.retired \cup {a}
    BY <2>1, <2>3
  <2> QED BY <2>2, <2>3 DEF Entered
<1> QED BY <1>3, <1>4, <1>5, <1>6, <1>7

\* The tag check of a block that is not there sends for its line.
LEMMA MissKeeps ==
  ASSUME NEW hm \in Seq(Blocks), NEW hand, NEW s \in Good(hm, hand), NEW b \in Bank,
         NEW k, k = s.banks[b], k.tag_check_q # <<>>, NEW a, a = Head(k.tag_check_q),
         k.tag_delay = Idle, k.table[a].state = "INVALID__CACHE_CHECK"
  PROVE  LET r == Lookup(PopTag(s, b), b, a)
         IN  /\ r \in Good(hm, hand) /\ r.banks[b].data_delay = k.data_delay
             /\ r.banks[b].data_access_q = k.data_access_q
<1> DEFINE L == Alive(s, b)
           q == k.tag_check_q
           T == Put(k.table, a, [k.table[a] EXCEPT !.state = "INVALID__LINEFILL_REQ_SENT"])
           G == [k.tags EXCEPT ![Index(a)] = Aged(k.tags[Index(a)], a)]
           k1 == [k EXCEPT !.tag_check_q = Tail(q)]
           k2 == [k1 EXCEPT !.tags = G]
           k4 == [k2 EXCEPT !.table = T]
           r1 == PopTag(s, b)
           r2 == [r1 EXCEPT !.banks[b].tags = G]
           r3 == SendTran(r2, ReadOf(a))
           r4 == [r3 EXCEPT !.banks[b].table = T]
<1>1. s \in Caches /\ ~s.hung /\ k \in Banks /\ BankGood(k, b, L) /\ IdsGood(s)
  BY AliveLaws
<1>2. /\ k.table \in Tables /\ q \in Seq(Blocks) /\ k.data_access_q \in Seq(Blocks)
      /\ k.tags \in [Row -> [Way -> Line]]
  BY <1>1, BankTypes
<1>3. Tail(q) \in Seq(Blocks) /\ ToSet(q) = ToSet(Tail(q)) \cup {a}
      /\ (IsInjective(q) => IsInjective(Tail(q)) /\ a \notin ToSet(Tail(q)))
  BY <1>2, TailOnce, Zenon
<1>4. a \in L
  BY <1>1, <1>3 DEF BankGood, TagGood
<1>5. /\ a \in Blocks /\ a \in DOMAIN k.table /\ k.table[a] \in Table /\ BankOf(a) = b
      /\ StateOf(s, a) = "INVALID__CACHE_CHECK" /\ IdsOf(s, a) = ToSet(k.table[a].req_ids)
      /\ Fills(s, hm, hand, a) = 0
  BY <1>4, AliveLaws
<1>6. Index(a) \in Row
  BY <1>5, BlockLaws
<1>7. HitWays(k.tags[Index(a)], a) = {}
  BY <1>1, <1>4, NoHit, Zenon DEF Accessing
<1>8. T \in Tables /\ DOMAIN T = DOMAIN k.table
      /\ T[a] = [k.table[a] EXCEPT !.state = "INVALID__LINEFILL_REQ_SENT"]
      /\ \A x \in DOMAIN k.table \ {a} : T[x] = k.table[x]
  <2>1. [k.table[a] EXCEPT !.state = "INVALID__LINEFILL_REQ_SENT"] \in Table
    BY ONLY <1>5, Zenon DEF Table, block_state
  <2> DEFINE e == [k.table[a] EXCEPT !.state = "INVALID__LINEFILL_REQ_SENT"]
  <2> HIDE DEF e
  <2>2. Put(k.table, a, e) \in Tables
    BY ONLY <1>2, <1>5, <2>1, TableLaws DEF e
  <2>3. /\ DOMAIN Put(k.table, a, e) = DOMAIN k.table \cup {a} /\ Put(k.table, a, e)[a] = e
        /\ \A x \in DOMAIN k.table : x # a => Put(k.table, a, e)[x] = k.table[x]
    BY DEF Put
  <2> QED BY ONLY <1>5, <2>2, <2>3, Zenon DEF e
<1>9. G \in [Row -> [Way -> Line]]
      /\ \A x \in Row, w \in Way : G[x][w].valid = k.tags[x][w].valid /\ G[x][w].tag = k.tags[x][w].tag
  <2>1. k.tags[Index(a)] \in [Way -> Line]
    BY ONLY <1>2, <1>6
  <2>2. /\ Aged(k.tags[Index(a)], a) \in [Way -> Line]
        /\ \A w \in Way : /\ Aged(k.tags[Index(a)], a)[w].valid = k.tags[Index(a)][w].valid
                           /\ Aged(k.tags[Index(a)], a)[w].tag = k.tags[Index(a)][w].tag
    BY ONLY <2>1, AgedLaws
  <2> DEFINE new == Aged(k.tags[Index(a)], a)
             i == Index(a)
  <2> HIDE DEF new, i
  <2>3. G = [k.tags EXCEPT ![i] = new] /\ i \in Row
    BY ONLY <1>6 DEF new, i
  <2>4. G \in [Row -> [Way -> Line]] /\ G[i] = new /\ \A x \in Row : x # i => G[x] = k.tags[x]
    BY ONLY <1>2, <2>2, <2>3 DEF new
  <2>5. \A w \in Way : new[w].valid = k.tags[i][w].valid /\ new[w].tag = k.tags[i][w].tag
    BY <2>2, Zenon DEF new, i
  <2> HIDE DEF G
  <2> QED BY <2>4, <2>5
<1>10. Sets(s, r1, b, k1)
  <2>1. r1 = [s EXCEPT !.banks[b].tag_check_q = Tail(q)]
    BY DEF PopTag
  <2> HIDE DEF r1
  <2> QED BY <1>1, <1>3, <2>1, SetField
<1> HIDE DEF T, G, r1, k1
<1>11. r1 \in Caches /\ r1.banks[b] = k1
  BY <1>10 DEF Sets, OnlyBank
<1>12. Sets(r1, r2, b, k2)
  BY <1>9, <1>11, SetField
<1> HIDE DEF r2, k2
<1>13. r2 \in Caches /\ r2.banks[b] = k2
  BY <1>12 DEF Sets, OnlyBank
<1>14. ReadOf(a) \in Tran
  BY <1>5 DEF ReadOf, Tran
<1>15. r3 \in Caches /\ Quiet(r2, r3) /\ r3.banks = r2.banks /\ Sent(r2, r3, ReadOf(a))
  BY ONLY <1>13, <1>14, SendLaws DEF Sent
<1> HIDE DEF r3
<1>16. Sets(r3, r4, b, k4)
  BY ONLY <1>8, <1>13, <1>15, SetField, Zenon
<1>17. k1.tags = k.tags /\ k2.table = k.table
  BY ONLY <1>1 DEF k1, k2, Banks
<1>18. Lookup(PopTag(s, b), b, a) = r4
  <2>1. Lookup(r1, b, a) = SetState(SendTran(r2, ReadOf(a)), b, a, "INVALID__LINEFILL_REQ_SENT")
    BY ONLY <1>7, <1>11, <1>17 DEF Lookup, r2, G, ReadOf
  <2>2. Entry(r3, b, a) = k.table[a] /\ r3.banks[b].table = k.table
    BY <1>5, <1>13, <1>15, <1>17 DEF Entry
  <2>3. SetState(r3, b, a, "INVALID__LINEFILL_REQ_SENT") = r4
    BY <2>2 DEF SetState, PutEntry, T
  <2> QED BY ONLY <2>1, <2>3, Zenon DEF r1, r3
<1> HIDE DEF r4, k4
<1>19. /\ k4.table = T /\ k4.tag_check_q = Tail(q) /\ k4.data_access_q = k.data_access_q
       /\ k4.evict_q = k.evict_q /\ k4.tags = G /\ k4.data = k.data
       /\ k4.tag_delay = k.tag_delay /\ k4.data_delay = k.data_delay
  BY <1>1 DEF k1, k2, k4, Banks
<1>20. /\ r4 \in Caches /\ r4.banks[b] = k4 /\ Quiet(s, r4) /\ Sent(s, r4, ReadOf(a))
       /\ \A x \in Bank \ {b} : r4.banks[x] = s.banks[x]
  BY ONLY <1>10, <1>12, <1>15, <1>16 DEF Sets, OnlyBank, Quiet, Sent
<1>21. /\ Around(s, r4, b, a) /\ Alive(r4, b) = L
       /\ \A x \in Blocks \ {a} : StateOf(r4, x) = StateOf(s, x) /\ IdsOf(r4, x) = IdsOf(s, x)
       /\ StateOf(r4, a) = "INVALID__LINEFILL_REQ_SENT" /\ IdsOf(r4, a) = IdsOf(s, a)
  <2> DEFINE e == [k.table[a] EXCEPT !.state = "INVALID__LINEFILL_REQ_SENT"]
  <2>1. e.state = "INVALID__LINEFILL_REQ_SENT" /\ e.req_ids = k.table[a].req_ids
    BY ONLY <1>5, Zenon DEF Table
  <2> HIDE DEF e
  <2>2. r4.banks[b].table = Put(k.table, a, e) /\ r4.retired = s.retired /\ a \notin s.retired
    BY <1>4, <1>19, <1>20 DEF T, e, Quiet, Alive
  <2>3. /\ Around(s, r4, b, a)
        /\ \A x \in Blocks \ {a} : StateOf(r4, x) = StateOf(s, x) /\ IdsOf(r4, x) = IdsOf(s, x)
        /\ StateOf(r4, a) = IF a \in r4.retired THEN "RETIRED" ELSE e.state
        /\ IdsOf(r4, a) = ToSet(e.req_ids)
        /\ Alive(r4, b) = (Alive(s, b) \cup {a}) \ (r4.retired \cap {a})
    <3>1. Entered(s, r4, b, a, e)
      BY <1>20, <2>2, <1>5 DEF Entered
    <3> QED BY ONLY <3>1, TableStep
  <2>4. Alive(r4, b) = L
    BY ONLY <1>4, <2>2, <2>3
  <2>5. StateOf(r4, a) = "INVALID__LINEFILL_REQ_SENT"
    BY <2>1, <2>2, <2>3, Zenon
  <2> QED BY ONLY <1>5, <2>1, <2>3, <2>4, <2>5
<1>23. BankGood(k4, b, L)
  <2>0. L \subseteq DOMAIN k.table
    BY ONLY <1>1 DEF BankGood
  <2>9. \A x \in L : x # a => T[x] = k.table[x]
    BY ONLY <1>8, <2>0
  <2>1. T[a].state = "INVALID__LINEFILL_REQ_SENT" /\ T[a].way = k.table[a].way
    BY ONLY <1>5, <1>8 DEF Table
  <2>2. TagGood(T, L, Tail(q))
    <3>1. {x \in L : T[x].state \in Checking} = {x \in L : k.table[x].state \in Checking} \ {a}
      BY ONLY <2>1, <2>9 DEF Checking
    <3> QED BY ONLY <1>1, <1>3, <3>1 DEF TagGood, BankGood
  <2>3. AccessGood(T, L, k.data_access_q, k.evict_q, G, k.data)
    <3>1. {x \in L : T[x].state \in Accessing} = {x \in L : k.table[x].state \in Accessing}
      BY <2>1, <2>9, Zenon DEF Accessing
    <3>2. a \notin ToSet(k.data_access_q) /\ ToSet(k.data_access_q) \subseteq DOMAIN k.table
      BY <1>1, Zenon DEF BankGood, AccessGood, DataGood, Accessing
    <3>3. \A x \in ToSet(k.data_access_q) : T[x].way = k.table[x].way /\ T[x].state = k.table[x].state
      BY <1>8, <3>2
    <3>4. AccessGood(k.table, L, k.data_access_q, k.evict_q, k.tags, k.data)
      BY ONLY <1>1 DEF BankGood
    <3>5. DOMAIN k.table \subseteq DOMAIN T /\ L \subseteq L /\ (L \ L) \cap DOMAIN k.table = {}
      BY ONLY <1>8
    <3> QED BY ONLY <1>2, <1>9, <3>1, <3>3, <3>4, <3>5, FrameAccess
  <2>4. \A x \in L : T[x].state \in {"INVALID__LINEFILL_REQ_SENT"} \cup Checking \cup Accessing
    <3>1. \A x \in L : k.table[x].state \in {"INVALID__LINEFILL_REQ_SENT"} \cup Checking \cup Accessing
      BY ONLY <1>1 DEF BankGood
    <3> QED BY ONLY <2>1, <2>9, <3>1
  <2>5. Timed(k.tag_delay, Tail(q))
    BY DEF Timed
  <2> QED BY ONLY <1>1, <1>8, <1>19, <2>2, <2>3, <2>4, <2>5 DEF BankGood
<1>26. IdsGood(r4)
  BY ONLY <1>1, <1>5, <1>20, <1>21, IdsKeep DEF Quiet, Waiting
<1>27. /\ \A y \in ToSet(r4.req) \cup r4.refused : y.data = y.adrs
       /\ \A x \in Blocks : Fills(r4, hm, hand, x) = Fills(s, hm, hand, x) + (IF x = a THEN 1 ELSE 0)
  <2>1. \A x \in Blocks : ReadOf(a) = ReadOf(x) => x = a
    BY DEF ReadOf
  <2>2. ReadOf(a).data = ReadOf(a).adrs
    BY DEF ReadOf
  <2>3. /\ \A y \in ToSet(r4.req) \cup r4.refused : y.data = y.adrs
        /\ \A x \in Blocks : Fills(s, hm, hand, x) = 0 \/ ReadOf(a) # ReadOf(x) =>
             Fills(r4, hm, hand, x) = Fills(s, hm, hand, x) + (IF ReadOf(a) = ReadOf(x) THEN 1 ELSE 0)
    BY ONLY <1>14, <1>20, <2>2, SentLaws
  <2> QED BY <1>5, <2>1, <2>3
<1>28. FillsGood(r4, hm, hand)
  <2>1. \A x \in Blocks :
          Fills(s, hm, hand, x) = IF StateOf(s, x) = "INVALID__LINEFILL_REQ_SENT" THEN 1 ELSE 0
    BY ONLY DEF Good, Structure, FillsGood
  <2> QED BY <1>5, <1>21, <1>27, <2>1 DEF FillsGood
<1>29. r4 \in Good(hm, hand)
  BY <1>1, <1>5, <1>20, <1>21, <1>23, <1>26, <1>27, <1>28, Reassembled DEF Quiet
<1> QED BY <1>18, <1>19, <1>20, <1>29

\* An entry of the table is set, and set again.
LEMMA PutInTable ==
  ASSUME NEW t \in Tables, NEW a \in DOMAIN t, NEW e \in Table, NEW T, T = Put(t, a, e)
  PROVE  /\ T \in Tables /\ DOMAIN T = DOMAIN t /\ T[a] = e
         /\ \A x \in DOMAIN t : x # a => T[x] = t[x]
         /\ \A d : Put(T, a, d) = Put(t, a, d)
<1>1. a \in Blocks
  BY TableLaws
<1>2. T \in Tables
  BY <1>1, TableLaws
<1>3. DOMAIN T = DOMAIN t /\ T[a] = e /\ \A x \in DOMAIN t : x # a => T[x] = t[x]
  BY DEF Put
<1>4. ASSUME NEW d PROVE Put(T, a, d) = Put(t, a, d)
  <2> HIDE DEF Put
  <2>1. /\ Put(T, a, d) = [y \in DOMAIN t |-> IF y = a THEN d ELSE T[y]]
        /\ Put(t, a, d) = [y \in DOMAIN t |-> IF y = a THEN d ELSE t[y]]
    <3>1. DOMAIN T \cup {a} = DOMAIN t /\ DOMAIN t \cup {a} = DOMAIN t
      BY <1>3
    <3> QED BY <3>1 DEF Put
  <2>2. \A y \in DOMAIN t : (IF y = a THEN d ELSE T[y]) = (IF y = a THEN d ELSE t[y])
    BY <1>3
  <2> QED BY <2>1, <2>2
<1> QED BY <1>2, <1>3, <1>4

\* The way that is taken is one of the row; it is free unless one must be evicted.
LEMMA TakenLaws ==
  ASSUME NEW row \in [Way -> Line], NEW a, HitWays(row, a) = {}
  PROVE  /\ TakenWay(row, a) \in Way
         /\ MustEvict(row, a) => row[TakenWay(row, a)].valid
<1> DEFINE N == NUM_WAYS - 1
           Found == {n \in Nat : n <= N => \E m \in 0 .. n : \A v \in 0 .. n : row[v].age <= row[m].age}
<1>1. N \in Nat /\ Way = 0 .. N
  BY CacheSizes DEF Way
<1>2. \A v \in 0 .. N : row[v].age \in Nat /\ row[v].valid \in BOOLEAN
  BY <1>1 DEF Line
<1> HIDE DEF N
<1>3. \E m \in 0 .. N : \A v \in 0 .. N : row[v].age <= row[m].age
  <2>1. 0 \in Found
    <3>1. 0 \in 0 .. 0 /\ \A v \in 0 .. 0 : v = 0
      OBVIOUS
    <3>2. N >= 0 => row[0].age <= row[0].age
      BY <1>1, <1>2
    <3> QED BY <1>1, <3>1, <3>2
  <2>2. ASSUME NEW n \in Nat, n \in Found PROVE n + 1 \in Found
    <3> SUFFICES ASSUME n + 1 <= N
                 PROVE  \E m \in 0 .. n + 1 : \A v \in 0 .. n + 1 : row[v].age <= row[m].age
      OBVIOUS
    <3>1. PICK m \in 0 .. n : \A v \in 0 .. n : row[v].age <= row[m].age
      BY <1>1, <2>2
    <3>2. \A v \in 0 .. n + 1 : v \in 0 .. N /\ (v \in 0 .. n \/ v = n + 1)
      BY <1>1
    <3>3. m \in 0 .. n + 1 /\ n + 1 \in 0 .. n + 1
      OBVIOUS
    <3>4. row[m].age \in Nat /\ row[n + 1].age \in Nat /\ \A v \in 0 .. n + 1 : row[v].age \in Nat
      BY <1>2, <3>2, <3>3
    <3>5. CASE row[n + 1].age <= row[m].age
      BY <3>1, <3>2, <3>3, <3>5
    <3>6. CASE row[m].age <= row[n + 1].age
      <4>1. \A v \in 0 .. n + 1 : row[v].age <= row[n + 1].age
        BY <3>1, <3>2, <3>4, <3>6
      <4> QED BY <3>3, <4>1
    <3> QED BY <3>4, <3>5, <3>6
  <2> HIDE DEF Found
  <2>3. N \in Found
    BY <1>1, <2>1, <2>2, Skip!NatSetInduction
  <2> QED BY <1>1, <2>3 DEF Found
<1>4. Oldest(row) # {}
  BY <1>1, <1>3 DEF Oldest
<1>5. \A S \in SUBSET Way : S # {} => FirstOf(S) \in S
  <2> SUFFICES ASSUME NEW S \in SUBSET Way, S # {} PROVE FirstOf(S) \in S
    OBVIOUS
  <2>1. \E l \in S : \A k \in S : l <= k
    BY <1>1, LeastAndGreatest
  <2>2. \E l \in S : \A k \in S : k >= l
    <3>1. \A x, y \in S : x <= y => y >= x
      BY <1>1
    <3> QED BY <2>1, <3>1
  <2> QED BY <2>2 DEF FirstOf
<1>6. FreeWays(row) \subseteq Way /\ Oldest(row) \subseteq Way
  BY DEF FreeWays, Oldest
<1>7. CASE FreeWays(row) # {}
  <2>1. TakenWay(row, a) = FirstOf(FreeWays(row)) /\ ~MustEvict(row, a)
    BY <1>7 DEF TakenWay, MustEvict
  <2> QED BY <1>5, <1>6, <1>7, <2>1
<1>8. CASE FreeWays(row) = {}
  <2>1. TakenWay(row, a) = FirstOf(Oldest(row))
    BY <1>8, Zenon DEF TakenWay
  <2>2. TakenWay(row, a) \in Way
    BY ONLY <1>4, <1>5, <1>6, <2>1, Zenon
  <2> QED BY <1>8, <2>2 DEF FreeWays
<1> QED BY <1>7, <1>8

\* The tag check of a block whose line has come takes a way for it.
LEMMA AllocateKeeps ==
  ASSUME NEW hm \in Seq(Blocks), NEW hand, NEW s \in Good(hm, hand), NEW b \in Bank,
         NEW k, k = s.banks[b], k.tag_check_q # <<>>, NEW a, a = Head(k.tag_check_q),
         k.tag_delay = Idle, k.table[a].state = "VALID__CACHE_CHECK"
  PROVE  LET r == Allocate(PopTag(s, b), b, a)
         IN  /\ r \in Good(hm, hand) /\ r.banks[b].data_delay = k.data_delay
             /\ k.data_access_q # <<>> =>
                  r.banks[b].data_access_q # <<>>
<1> DEFINE L == Alive(s, b)
           q == k.tag_check_q
           i == Index(a)
           r1 == PopTag(s, b)
           row == Aged(r1.banks[b].tags[i], a)
           w == TakenWay(row, a)
           twice == MustEvict(row, a)
           victim == MakeAddr(a, row[w].tag)
           state == IF twice THEN "VALID__RW_REQ_SENT_TO_CACHE" ELSE "VALID__WR_REQ_SENT_TO_CACHE"
           e == [[k.table[a] EXCEPT !.way = w] EXCEPT !.state = state]
           T == Put(k.table, a, e)
           line == [valid |-> TRUE, tag |-> Tag(a), age |-> 0]
           G == [k.tags EXCEPT ![i] = [row EXCEPT ![w] = line]]
           u == k.data_access_q \o [j \in 1 .. (IF twice THEN 2 ELSE 1) |-> a]
           ev == IF twice THEN Append(k.evict_q, victim) ELSE k.evict_q
           k1 == [k EXCEPT !.tag_check_q = Tail(q)]
           r == Allocate(PopTag(s, b), b, a)
<1>1. s \in Caches /\ ~s.hung /\ k \in Banks /\ BankGood(k, b, L) /\ IdsGood(s)
  BY AliveLaws
<1>2. /\ k.table \in Tables /\ q \in Seq(Blocks) /\ k.data_access_q \in Seq(Blocks)
      /\ k.tags \in [Row -> [Way -> Line]] /\ k.evict_q \in Seq(Blocks)
  BY ONLY <1>1, BankTypes
<1>3. Tail(q) \in Seq(Blocks) /\ ToSet(q) = ToSet(Tail(q)) \cup {a}
      /\ (IsInjective(q) => IsInjective(Tail(q)) /\ a \notin ToSet(Tail(q)))
  BY <1>2, TailOnce, Zenon
<1>4. a \in L
  BY <1>1, <1>3 DEF BankGood, TagGood
<1>5. /\ a \in Blocks /\ a \in DOMAIN k.table /\ k.table[a] \in Table /\ BankOf(a) = b
      /\ StateOf(s, a) = "VALID__CACHE_CHECK" /\ IdsOf(s, a) = ToSet(k.table[a].req_ids)
      /\ Fills(s, hm, hand, a) = 0
  BY <1>4, AliveLaws
<1>40. Sets(s, r1, b, k1)
  <2>1. r1 = [s EXCEPT !.banks[b].tag_check_q = Tail(q)]
    BY DEF PopTag
  <2> HIDE DEF r1
  <2> QED BY <1>1, <1>3, <2>1, SetField
<1>41. r1 \in Caches /\ r1.banks[b] = k1 /\ k1.tags = k.tags /\ k1.table = k.table
       /\ k1.data_access_q = k.data_access_q /\ k1.evict_q = k.evict_q
  BY <1>1, <1>40 DEF Sets, OnlyBank, Banks
<1> HIDE DEF r1
<1>6. i \in Row /\ k.tags[i] \in [Way -> Line] /\ Tag(a) \in Nat
  BY ONLY <1>2, <1>5, BlockLaws
<1>7. HitWays(k.tags[i], a) = {}
  BY <1>1, <1>4, NoHit DEF Accessing
<1>8. row \in [Way -> Line] /\ \A y \in Way : row[y].valid = k.tags[i][y].valid /\ row[y].tag = k.tags[i][y].tag
  <2>1. r1.banks[b].tags[i] = k.tags[i]
    BY <1>41
  <2> HIDE DEF i
  <2>2. row = Aged(k.tags[i], a)
    BY <2>1, Zenon
  <2> HIDE DEF row
  <2> QED BY <1>6, <2>2, AgedLaws
<1> HIDE DEF row
<1>9. HitWays(row, a) = {}
  BY ONLY <1>7, <1>8, Zenon DEF HitWays, Matches
<1>10. w \in Way /\ twice \in BOOLEAN /\ (twice => row[w].valid)
  <2>1. twice \in BOOLEAN
    BY DEF MustEvict
  <2> QED BY <1>8, <1>9, <2>1, TakenLaws
<1> HIDE DEF w, twice
<1>11. line \in Line
  BY <1>6 DEF Line
<1>12. /\ G \in [Row -> [Way -> Line]] /\ G[i][w].tag = Tag(a)
       /\ \A x \in Row, y \in Way : x # i \/ y # w =>
            G[x][y].valid = k.tags[x][y].valid /\ G[x][y].tag = k.tags[x][y].tag
  <2> DEFINE new == [row EXCEPT ![w] = line]
  <2>1. line.tag = Tag(a)
    OBVIOUS
  <2> HIDE DEF line
  <2>2. new \in [Way -> Line] /\ new[w] = line /\ \A y \in Way : y # w => new[y] = row[y]
    BY ONLY <1>8, <1>10, <1>11
  <2>3. G = [k.tags EXCEPT ![i] = new]
    OBVIOUS
  <2> HIDE DEF new, G, i
  <2>4. G \in [Row -> [Way -> Line]] /\ G[i] = new /\ \A x \in Row : x # i => G[x] = k.tags[x]
    BY ONLY <1>2, <1>6, <2>2, <2>3, Zenon
  <2> QED BY <1>8, <2>1, <2>2, <2>4
<1>13. e \in Table /\ e.state = state /\ e.way = w /\ e.req_ids = k.table[a].req_ids
  <2>1. state \in block_state
    BY ONLY DEF block_state, ValidState
  <2> HIDE DEF state
  <2> QED BY ONLY <1>5, <1>10, <2>1, Zenon DEF Table
<1> HIDE DEF e
<1>14. /\ T \in Tables /\ DOMAIN T = DOMAIN k.table /\ T[a] = e
       /\ \A x \in DOMAIN k.table : x # a => T[x] = k.table[x]
  BY ONLY <1>2, <1>5, <1>13, PutInTable
<1>15. a \notin ToSet(k.data_access_q) /\ L \subseteq DOMAIN k.table /\ DOMAIN k.table \subseteq Blocks
  BY <1>1, <1>2, TableLaws, Zenon DEF BankGood, AccessGood, DataGood, Accessing
<1>16. u \in Seq(Blocks) /\ ev \in Seq(Blocks) /\ AccessGood(T, L, u, ev, G, k.data)
  <2>1. ev = IF twice THEN Append(k.evict_q, MakeAddr(a, k.tags[i][w].tag)) ELSE k.evict_q
    BY ONLY <1>8, <1>10, Zenon
  <2>2. twice => k.tags[i][w].valid
    BY ONLY <1>8, <1>10
  <2>3. AccessGood(k.table, L, k.data_access_q, k.evict_q, k.tags, k.data)
    BY <1>1, Zenon DEF BankGood
  <2>4. T[a].way = w /\ T[a].state = IF twice THEN "VALID__RW_REQ_SENT_TO_CACHE"
                                      ELSE "VALID__WR_REQ_SENT_TO_CACHE"
    BY <1>13, <1>14
  <2>5. k.table[a].state \notin Accessing
    BY DEF Accessing
  <2>6. \A x \in DOMAIN k.table \ {a} : T[x] = k.table[x]
    BY <1>14
  <2> DEFINE n == IF twice THEN 2 ELSE 1
  <2>7. n \in {1, 2} /\ (n = 2 <=> twice) /\ u = k.data_access_q \o [x \in 1 .. n |-> a]
    OBVIOUS
  <2> HIDE DEF G, T, ev, u, i, n
  <2>8. \A x \in Row, y \in Way : x # Index(a) \/ y # w =>
          G[x][y].valid = k.tags[x][y].valid /\ G[x][y].tag = k.tags[x][y].tag
    BY <1>12, Zenon DEF i
  <2>9. G[Index(a)][w].tag = Tag(a) /\ (n = 2 => k.tags[Index(a)][w].valid)
        /\ ev = IF n = 2 THEN Append(k.evict_q, MakeAddr(a, k.tags[Index(a)][w].tag)) ELSE k.evict_q
    BY ONLY <1>12, <2>1, <2>2, <2>7, Zenon DEF i
  <2>10. T[a].way = w /\ T[a].state = IF n = 2 THEN "VALID__RW_REQ_SENT_TO_CACHE"
                                      ELSE "VALID__WR_REQ_SENT_TO_CACHE"
    BY ONLY <2>4, <2>7
  <2> HIDE DEF L, w, twice
  <2>11. Pushes(k.table, L, k.data_access_q, k.evict_q, k.tags, a, w, n, T, u, ev, G)
    BY <1>4, <1>10, <1>14, <2>5, <2>6, <2>7, <2>8, <2>9, <2>10, Zenon DEF Pushes
  <2> QED BY ONLY <1>2, <1>15, <2>3, <2>11, PushAccess, Zenon
<1> HIDE DEF k1
<1> DEFINE taken == [r1 EXCEPT !.banks[b].tags[Index(a)] =
                                  [row EXCEPT ![w] = [valid |-> TRUE, tag |-> Tag(a), age |-> 0]]]
           evicting == [taken EXCEPT !.banks[b].evict_q = Append(@, victim)]
           k2 == [k1 EXCEPT !.tags = G]
           r3 == IF twice THEN evicting ELSE taken
           k3 == IF twice THEN [k2 EXCEPT !.evict_q = Append(k.evict_q, victim)] ELSE k2
           r4 == [r3 EXCEPT !.banks[b].data_access_q = u]
           k4 == [k3 EXCEPT !.data_access_q = u]
           S == Put(k.table, a, [k.table[a] EXCEPT !.way = w])
           r5 == [r4 EXCEPT !.banks[b].table = S]
           k5 == [k4 EXCEPT !.table = S]
           r6 == [r5 EXCEPT !.banks[b].table = T]
           k6 == [k5 EXCEPT !.table = T]
<1>19. Sets(r1, taken, b, k2)
  <2>1. taken = [r1 EXCEPT !.banks[b].tags = G]
    BY ONLY <1>41, Zenon
  <2> HIDE DEF G, taken
  <2> QED BY <1>12, <1>41, <2>1, SetField, Zenon
<1>20. k2.table = k.table /\ k2.data_access_q = k.data_access_q /\ k2.evict_q = k.evict_q /\ k2.tags = G
  BY ONLY <1>41, <1>19 DEF Sets, Banks, OnlyBank, Caches, k1
<1> HIDE DEF r1, G, taken, k2, u, victim
<1>21. Sets(r1, r3, b, k3)
  <2>1. CASE twice
    <3>1. taken \in Caches /\ taken.banks[b] = k2 /\ Append(k.evict_q, victim) \in Seq(Blocks)
      BY <1>16, <1>19, <2>1 DEF Sets, OnlyBank
    <3>2. Sets(taken, evicting, b, [k2 EXCEPT !.evict_q = Append(k.evict_q, victim)])
      <4>1. evicting = [taken EXCEPT !.banks[b].evict_q = Append(k.evict_q, victim)]
        BY <1>20, <3>1
      <4> HIDE DEF evicting
      <4> QED BY <3>1, <4>1, SetField
    <3> HIDE DEF evicting
    <3> QED BY <1>19, <2>1, <3>2 DEF Sets, OnlyBank, Quiet
  <2>2. CASE ~twice
    BY <1>19, <2>2
  <2> QED BY <1>10, <2>1, <2>2
<1>22. /\ k3.table = k.table /\ k3.data_access_q = k.data_access_q /\ k3.evict_q = ev
       /\ k3.tags = G /\ k3.tag_check_q = Tail(q) /\ k3.data = k.data
       /\ k3.tag_delay = k.tag_delay /\ k3.data_delay = k.data_delay
  BY <1>1, <1>2, <1>10, <1>20 DEF Banks, k1, k2
<1> HIDE DEF r3, k3
<1>23. r3 \in Caches /\ r3.banks[b] = k3
  BY <1>21 DEF Sets, OnlyBank
<1>24. Sets(r3, r4, b, k4)
  BY ONLY <1>16, <1>23, SetField
<1> HIDE DEF r4, k4
<1>25. r4 \in Caches /\ r4.banks[b] = k4 /\ k4.table = k.table
  BY ONLY <1>21, <1>22, <1>24 DEF Sets, OnlyBank, k4, Banks
<1>26. S \in Tables /\ S[a] = [k.table[a] EXCEPT !.way = w] /\ a \in DOMAIN S
       /\ \A d : Put(S, a, d) = Put(k.table, a, d)
  <2>1. [k.table[a] EXCEPT !.way = w] \in Table
    BY ONLY <1>5, <1>10, Zenon DEF Table
  <2> DEFINE d0 == [k.table[a] EXCEPT !.way = w]
  <2>2. S = Put(k.table, a, d0) /\ d0 \in Table
    BY ONLY <2>1
  <2> HIDE DEF d0, S
  <2>3. S \in Tables /\ DOMAIN S = DOMAIN k.table /\ S[a] = d0 /\ \A d : Put(S, a, d) = Put(k.table, a, d)
    BY ONLY <1>2, <1>5, <2>2, PutInTable, SMTT(20)
  <2> QED BY ONLY <1>5, <2>3 DEF d0
<1> HIDE DEF S, T
<1>27. Sets(r4, r5, b, k5)
  BY <1>25, <1>26, SetField
<1> HIDE DEF r5, k5
<1>28. r5 \in Caches /\ r5.banks[b] = k5 /\ k5.table = S
  BY <1>24, <1>27 DEF Sets, OnlyBank, k5, Banks
<1>29. Sets(r5, r6, b, k6)
  BY <1>14, <1>28, SetField
<1> HIDE DEF r6, k6
<1>30. r = r6
  <2>1. r3 = IF twice THEN evicting ELSE taken
    BY DEF r3
  <2>2. PushData(r3, b, a, IF twice THEN 2 ELSE 1) = r4
    BY <1>22, <1>23 DEF PushData, r4, u
  <2>3. SetWay(r4, b, a, w) = r5
    BY <1>5, <1>25 DEF SetWay, PutEntry, Entry, S, r5
  <2>4. SetState(r5, b, a, state) = r6
    <3>1. Entry(r5, b, a) = [k.table[a] EXCEPT !.way = w]
      BY <1>26, <1>28, Zenon DEF Entry
    <3>2. Put(S, a, [Entry(r5, b, a) EXCEPT !.state = state]) = T
      BY ONLY <1>26, <3>1 DEF T, e
    <3> QED BY ONLY <1>28, <3>2 DEF SetState, PutEntry, r6
  <2>8. Allocate(r1, b, a) =
          IF twice THEN SetState(SetWay(PushData(evicting, b, a, 2), b, a, w),
                                 b, a, "VALID__RW_REQ_SENT_TO_CACHE")
          ELSE SetState(SetWay(PushData(taken, b, a, 1), b, a, w),
                        b, a, "VALID__WR_REQ_SENT_TO_CACHE")
    BY DEF Allocate, row, w, victim, twice, taken
  <2>9. r = Allocate(r1, b, a)
    BY DEF r1
  <2> HIDE DEF evicting
  <2>10. CASE twice
    BY <2>1, <2>2, <2>3, <2>4, <2>8, <2>9, <2>10
  <2>11. CASE ~twice
    BY <2>1, <2>2, <2>3, <2>4, <2>8, <2>9, <2>11
  <2> QED BY <1>10, <2>10, <2>11
<1> HIDE DEF r
<1>31. /\ k6.table = T /\ k6.tag_check_q = Tail(q) /\ k6.data_access_q = u
       /\ k6.evict_q = ev /\ k6.tags = G /\ k6.data = k.data
       /\ k6.tag_delay = k.tag_delay /\ k6.data_delay = k.data_delay
  <2>1. k3 \in Banks
    BY <1>21 DEF Sets
  <2> QED BY <1>22, <2>1 DEF k4, k5, k6, Banks
<1>32. /\ OnlyBank(s, r, b) /\ r.banks[b] = k6 /\ r.req = s.req /\ r.refused = s.refused
       /\ \A x \in Bank \ {b} : r.banks[x] = s.banks[x]
  BY ONLY <1>40, <1>21, <1>24, <1>27, <1>29, <1>30 DEF Sets, OnlyBank, Quiet
<1>33. /\ Around(s, r, b, a) /\ Alive(r, b) = L
       /\ \A x \in Blocks \ {a} : StateOf(r, x) = StateOf(s, x) /\ IdsOf(r, x) = IdsOf(s, x)
       /\ StateOf(r, a) = state /\ IdsOf(r, a) = IdsOf(s, a)
  <2>1. r.banks[b].table = Put(k.table, a, e) /\ r.retired = s.retired /\ a \notin s.retired
    BY <1>4, <1>31, <1>32 DEF T, OnlyBank, Quiet, Alive
  <2>2. /\ Around(s, r, b, a)
        /\ \A x \in Blocks \ {a} : StateOf(r, x) = StateOf(s, x) /\ IdsOf(r, x) = IdsOf(s, x)
        /\ StateOf(r, a) = IF a \in r.retired THEN "RETIRED" ELSE e.state
        /\ IdsOf(r, a) = ToSet(e.req_ids)
        /\ Alive(r, b) = (Alive(s, b) \cup {a}) \ (r.retired \cap {a})
    <3>1. Entered(s, r, b, a, e)
      BY <1>32, <2>1, <1>5 DEF Entered
    <3> QED BY ONLY <3>1, TableStep
  <2>3. Alive(r, b) = L
    BY ONLY <1>4, <2>1, <2>2
  <2>4. StateOf(r, a) = state
    BY ONLY <1>13, <2>1, <2>2, Zenon
  <2> QED BY ONLY <1>5, <1>13, <2>2, <2>3, <2>4
<1>34. BankGood(k6, b, L)
  <2>1. \A x \in L : x # a => T[x] = k.table[x]
    BY <1>14, <1>15
  <2>2. T[a].state \in Accessing
    BY ONLY <1>13, <1>14, Zenon DEF Accessing
  <2>3. TagGood(T, L, Tail(q))
    <3>1. {x \in L : T[x].state \in Checking} = {x \in L : k.table[x].state \in Checking} \ {a}
      BY <2>1, <2>2 DEF Checking, Accessing
    <3> QED BY <1>1, <1>3, <3>1 DEF TagGood, BankGood
  <2>4. \A x \in L : T[x].state \in {"INVALID__LINEFILL_REQ_SENT"} \cup Checking \cup Accessing
    <3>1. \A x \in L : k.table[x].state \in {"INVALID__LINEFILL_REQ_SENT"} \cup Checking \cup Accessing
      BY <1>1 DEF BankGood
    <3> QED BY <2>1, <2>2, <3>1
  <2>5. Timed(k.tag_delay, Tail(q))
    BY DEF Timed
  <2>6. u # <<>>
    <3>1. a \in ToSet(u)
      BY <1>4, <1>14, <1>16, <2>2 DEF AccessGood, DataGood
    <3> QED BY ONLY <3>1 DEF ToSet
  <2>7. Timed(k.data_delay, u)
    BY ONLY <1>1, <2>6, Zenon DEF Timed, BankGood
  <2>8. \A x \in DOMAIN T : BankOf(x) = b
    BY <1>1, <1>14 DEF BankGood
  <2> QED BY <1>14, <1>15, <1>16, <1>31, <2>3, <2>4, <2>5, <2>7, <2>8 DEF BankGood
<1>35. IdsGood(r)
  <2>1. state \notin Waiting
    BY DEF Waiting
  <2> QED BY <1>1, <1>5, <1>32, <1>33, <2>1, IdsKeep DEF OnlyBank, Quiet
<1>36. FillsGood(r, hm, hand)
  <2>1. \A x \in Blocks :
          Fills(s, hm, hand, x) = IF StateOf(s, x) = "INVALID__LINEFILL_REQ_SENT" THEN 1 ELSE 0
    BY DEF Good, Structure, FillsGood
  <2>2. \A x \in Blocks : Fills(r, hm, hand, x) = Fills(s, hm, hand, x)
    BY <1>32 DEF Fills
  <2>3. state # "INVALID__LINEFILL_REQ_SENT"
    OBVIOUS
  <2> HIDE DEF state
  <2> QED BY ONLY <1>5, <1>33, <2>1, <2>2, <2>3 DEF FillsGood
<1>37. \A tran \in ToSet(r.req) \cup r.refused : tran.data = tran.adrs
  BY <1>32 DEF Good, Structure
<1>38. r \in Good(hm, hand)
  BY ONLY <1>1, <1>5, <1>32, <1>33, <1>34, <1>35, <1>36, <1>37, Reassembled, Zenon DEF OnlyBank, Quiet
<1>39. u # <<>>
  <2>1. a \in ToSet(u)
    BY <1>4, <1>13, <1>14, <1>16 DEF AccessGood, DataGood, Accessing
  <2> QED BY ONLY <2>1 DEF ToSet
<1> QED BY <1>31, <1>32, <1>38, <1>39 DEF r

\* The requests of a block are reported.
LEMMA ServiceLaws ==
  ASSUME NEW s \in Caches, NEW b \in Bank, NEW a \in DOMAIN s.banks[b].table, BankOf(a) = b
  PROVE  LET r == ServiceAll(s, b, a)
         IN  /\ r \in Caches /\ r.banks = s.banks /\ r.req = s.req /\ r.refused = s.refused
             /\ r.next_req_id = s.next_req_id /\ r.hung = s.hung /\ r.retired = s.retired
             /\ r.completed = s.completed \cup ToSet(s.banks[b].table[a].req_ids)
<1> DEFINE e == s.banks[b].table[a]
           C == s.completed \cup ToSet(e.req_ids)
           P == Insert(s.pending, Key(a), "READ")
           l == LookedUp(s, a)
<1>1. s.banks[b] \in Banks
  BY DEF Caches
<1>2. a \in Blocks /\ e \in Table
  BY <1>1, BankTypes, TableLaws
<1>3. Key(a) \in Nat
  BY <1>2, BlockLaws, CacheSizes DEF Key
<1>4. P \in Pendings
  BY <1>3, TableLaws DEF Caches
<1>5. C \in SUBSET ReqId
  BY <1>2 DEF Table, ToSet, Caches
<1>6. Entry(s, b, a) = e /\ Entry(s, BankOf(a), a) = e
  BY DEF Entry
<1> HIDE DEF e, C, P
<1>7. /\ l \in Caches /\ l.banks = s.banks /\ l.req = s.req /\ l.refused = s.refused
      /\ l.next_req_id = s.next_req_id /\ l.hung = s.hung /\ l.retired = s.retired
      /\ l.completed = s.completed /\ l.lost = s.lost
  <2>1. l = s \/ l = [s EXCEPT !.pending = P]
    BY DEF LookedUp, P
  <2> HIDE DEF l
  <2>2. CASE l = s
    BY <2>2
  <2>3. CASE l = [s EXCEPT !.pending = P]
    BY <1>4, <2>3 DEF Caches
  <2> QED BY <2>1, <2>2, <2>3
<1>8. ServiceAll(s, b, a) = [l EXCEPT !.completed = C]
  <2>1. l.completed = s.completed
    BY <1>7
  <2> QED BY <1>6, <2>1 DEF ServiceAll, C
<1> HIDE DEF l
<1> DEFINE r == [l EXCEPT !.completed = C]
<1>9. /\ r \in Caches /\ r.banks = l.banks /\ r.req = l.req /\ r.refused = l.refused
      /\ r.next_req_id = l.next_req_id /\ r.hung = l.hung /\ r.retired = l.retired
      /\ r.completed = C
  BY <1>5, <1>7 DEF Caches
<1> QED BY <1>7, <1>8, <1>9 DEF C, e

\* The line of a block has come: one bank takes it.
LEMMA FillKeeps ==
  ASSUME NEW hm \in Seq(Blocks), NEW a \in Blocks, NEW s \in Good(hm, a), NEW b, b = BankOf(a)
  PROVE  CheckHMCResp(s, b, a) \in Good(hm, -1)
<1> DEFINE k == s.banks[b]
           L == Alive(s, b)
           q == Append(k.tag_check_q, a)
           e == [k.table[a] EXCEPT !.state = "VALID__CACHE_CHECK"]
           T == Put(k.table, a, e)
           r1 == ServiceAll(s, b, a)
           r2 == PushTag(r1, b, a)
           k2 == [k EXCEPT !.tag_check_q = q]
           r3 == [r2 EXCEPT !.banks[b].table = T]
           k3 == [k2 EXCEPT !.table = T]
           r == CheckHMCResp(s, b, a)
<1>1. b \in Bank
  BY BlockLaws
<1>2. s \in Caches /\ ~s.hung /\ k \in Banks /\ BankGood(k, b, L) /\ IdsGood(s)
  BY <1>1, AliveLaws
<1>3. /\ k.table \in Tables /\ k.tag_check_q \in Seq(Blocks) /\ k.data_access_q \in Seq(Blocks)
  BY <1>2, BankTypes
<1>4. s.req \in Seq(Tran)
  BY <1>2 DEF Caches, Buffers
<1>5. StateOf(s, a) = "INVALID__LINEFILL_REQ_SENT"
  <2>1. Fills(s, hm, a, a) = IF StateOf(s, a) = "INVALID__LINEFILL_REQ_SENT" THEN 1 ELSE 0
    BY DEF Good, Structure, FillsGood
  <2>2. Occurrences(s.req, ReadOf(a)) \in Nat /\ Occurrences(hm, a) \in Nat
    BY <1>4, OccurrencesType
  <2> QED BY <2>1, <2>2 DEF Fills
<1>6. a \in L
  BY <1>5 DEF StateOf, TableOf, Alive
<1>7. /\ a \in DOMAIN k.table /\ k.table[a] \in Table
      /\ k.table[a].state = "INVALID__LINEFILL_REQ_SENT" /\ IdsOf(s, a) = ToSet(k.table[a].req_ids)
  BY <1>1, <1>5, <1>6, AliveLaws
<1>8. e \in Table /\ e.state = "VALID__CACHE_CHECK" /\ e.way = k.table[a].way
      /\ e.req_ids = k.table[a].req_ids
  BY <1>7 DEF Table, block_state, ValidState
<1> HIDE DEF e
<1>9. /\ T \in Tables /\ DOMAIN T = DOMAIN k.table /\ T[a] = e
      /\ \A x \in DOMAIN k.table : x # a => T[x] = k.table[x]
  BY ONLY <1>3, <1>7, <1>8, PutInTable, SMTT(20)
<1> HIDE DEF T
<1>10. a \notin ToSet(k.tag_check_q)
  BY <1>2, <1>7 DEF BankGood, TagGood, Checking
<1>11. q \in Seq(Blocks) /\ ToSet(q) = ToSet(k.tag_check_q) \cup {a} /\ q # <<>>
       /\ (IsInjective(k.tag_check_q) => IsInjective(q))
  <2>1. q # <<>>
    BY <1>3, SMTT(20)
  <2> QED BY <1>3, <1>10, <2>1, AppendOnce
<1>12. /\ r1 \in Caches /\ r1.banks = s.banks /\ r1.req = s.req /\ r1.refused = s.refused
       /\ r1.next_req_id = s.next_req_id /\ r1.hung = s.hung /\ r1.retired = s.retired
       /\ r1.completed = s.completed \cup ToSet(k.table[a].req_ids)
  BY <1>1, <1>2, <1>7, ServiceLaws
<1> HIDE DEF r1
<1>13. Sets(r1, r2, b, k2)
  <2>1. r2 = [r1 EXCEPT !.banks[b].tag_check_q = q]
    BY <1>12 DEF PushTag
  <2> HIDE DEF r2, q
  <2> QED BY <1>1, <1>11, <1>12, <2>1, SetField
<1> HIDE DEF r2, k2, q
<1>14. r2 \in Caches /\ r2.banks[b] = k2 /\ k2.table = k.table
  BY <1>2, <1>13 DEF Sets, OnlyBank, k2, Banks
<1>15. Sets(r2, r3, b, k3)
  BY <1>1, <1>9, <1>14, SetField
<1>16. r = r3
  <2>1. Entry(s, b, a) = k.table[a] /\ Entry(r2, b, a) = k.table[a]
    BY <1>7, <1>14 DEF Entry
  <2>2. r = SetState(r2, b, a, "VALID__CACHE_CHECK")
    BY <1>7, <2>1 DEF CheckHMCResp, r2, r1
  <2> QED BY <1>14, <2>1, <2>2 DEF SetState, PutEntry, T, e
<1> HIDE DEF r3, k3, r
<1>17. /\ k3.table = T /\ k3.tag_check_q = q /\ k3.data_access_q = k.data_access_q
       /\ k3.evict_q = k.evict_q /\ k3.tags = k.tags /\ k3.data = k.data
       /\ k3.tag_delay = k.tag_delay /\ k3.data_delay = k.data_delay
  BY <1>2 DEF k2, k3, Banks
<1>18. /\ r \in Caches /\ r.banks[b] = k3 /\ r.req = s.req /\ r.refused = s.refused
       /\ \A x \in Bank \ {b} : r.banks[x] = s.banks[x]
       /\ r.next_req_id = s.next_req_id /\ r.hung = s.hung /\ r.retired = s.retired
       /\ r.completed = s.completed \cup IdsOf(s, a)
  BY <1>7, <1>12, <1>13, <1>15, <1>16 DEF Sets, OnlyBank, Quiet
<1>19. /\ Around(s, r, b, a) /\ Alive(r, b) = L
       /\ \A x \in Blocks \ {a} : StateOf(r, x) = StateOf(s, x) /\ IdsOf(r, x) = IdsOf(s, x)
       /\ StateOf(r, a) = "VALID__CACHE_CHECK" /\ IdsOf(r, a) = IdsOf(s, a)
  <2>1. r.banks[b].table = Put(k.table, a, e) /\ r.retired = s.retired /\ a \notin s.retired
    BY <1>6, <1>17, <1>18 DEF T, Alive
  <2>2. /\ Around(s, r, b, a)
        /\ \A x \in Blocks \ {a} : StateOf(r, x) = StateOf(s, x) /\ IdsOf(r, x) = IdsOf(s, x)
        /\ StateOf(r, a) = IF a \in r.retired THEN "RETIRED" ELSE e.state
        /\ IdsOf(r, a) = ToSet(e.req_ids)
        /\ Alive(r, b) = (Alive(s, b) \cup {a}) \ (r.retired \cap {a})
    <3>1. Entered(s, r, b, a, e)
      BY <1>18, <2>1, <1>1, <1>7 DEF Entered
    <3> QED BY ONLY <3>1, TableStep
  <2>3. Alive(r, b) = L
    BY <1>6, <2>1, <2>2
  <2>4. StateOf(r, a) = "VALID__CACHE_CHECK"
    BY <1>8, <2>1, <2>2
  <2> QED BY <1>7, <1>8, <2>2, <2>3, <2>4
<1>20. BankGood(k3, b, L)
  <2>0. L \subseteq DOMAIN k.table
    BY <1>2 DEF BankGood
  <2>1. T[a].state = "VALID__CACHE_CHECK" /\ T[a].way = k.table[a].way
    BY ONLY <1>8, <1>9
  <2>2. \A x \in L : x # a => T[x] = k.table[x]
    BY ONLY <1>9, <2>0, Zenon
  <2>3. TagGood(T, L, q)
    <3>1. {x \in L : T[x].state \in Checking} = {x \in L : k.table[x].state \in Checking} \cup {a}
      BY <1>6, <2>1, <2>2 DEF Checking
    <3> QED BY <1>2, <1>11, <3>1 DEF TagGood, BankGood
  <2>4. AccessGood(T, L, k.data_access_q, k.evict_q, k.tags, k.data)
    <3>1. {x \in L : T[x].state \in Accessing} = {x \in L : k.table[x].state \in Accessing}
      BY ONLY <1>7, <2>1, <2>2, Zenon DEF Accessing
    <3>2. a \notin ToSet(k.data_access_q) /\ ToSet(k.data_access_q) \subseteq DOMAIN k.table
      BY ONLY <1>2, <1>7, Zenon DEF BankGood, AccessGood, DataGood, Accessing
    <3>3. \A x \in ToSet(k.data_access_q) : T[x].way = k.table[x].way /\ T[x].state = k.table[x].state
      BY <1>9, <3>2
    <3>4. AccessGood(k.table, L, k.data_access_q, k.evict_q, k.tags, k.data)
      BY <1>2 DEF BankGood
    <3>5. DOMAIN k.table \subseteq DOMAIN T /\ L \subseteq L /\ (L \ L) \cap DOMAIN k.table = {}
      BY <1>9
    <3> QED BY <1>3, <3>1, <3>3, <3>4, <3>5, FrameAccess
  <2>5. \A x \in L : T[x].state \in {"INVALID__LINEFILL_REQ_SENT"} \cup Checking \cup Accessing
    <3>1. \A x \in L : k.table[x].state \in {"INVALID__LINEFILL_REQ_SENT"} \cup Checking \cup Accessing
      BY <1>2 DEF BankGood
    <3> QED BY <2>1, <2>2, <3>1 DEF Checking
  <2>6. Timed(k.tag_delay, q) /\ Timed(k.data_delay, k.data_access_q)
    BY <1>2, <1>11 DEF Timed, BankGood
  <2>7. \A x \in DOMAIN T : BankOf(x) = b
    BY <1>2, <1>9 DEF BankGood
  <2> QED BY <1>9, <1>17, <2>0, <2>3, <2>4, <2>5, <2>6, <2>7 DEF BankGood
<1>21. IdsGood(r)
  BY <1>2, <1>5, <1>18, <1>19, IdsKeep DEF Waiting
<1>22. FillsGood(r, hm, -1)
  <2>1. \A x \in Blocks :
          Fills(s, hm, a, x) = IF StateOf(s, x) = "INVALID__LINEFILL_REQ_SENT" THEN 1 ELSE 0
    BY DEF Good, Structure, FillsGood
  <2>2. ASSUME NEW x \in Blocks
        PROVE  Fills(r, hm, -1, x) = Fills(s, hm, a, x) - (IF x = a THEN 1 ELSE 0)
    <3>1. x \in Nat
      BY BlockLaws
    <3>2. Occurrences(s.req, ReadOf(x)) \in Nat /\ Occurrences(hm, x) \in Nat
      BY <1>4, OccurrencesType
    <3> QED BY <1>18, <3>1, <3>2 DEF Fills
  <2>3. \A x \in Blocks : x # a => Fills(s, hm, a, x) \in Nat
    BY <2>1
  <2> QED BY <1>5, <1>19, <2>1, <2>2, <2>3 DEF FillsGood
<1>23. \A tran \in ToSet(r.req) \cup r.refused : tran.data = tran.adrs
  BY <1>18 DEF Good, Structure
<1> QED BY <1>2, <1>17, <1>18, <1>19, <1>20, <1>21, <1>22, <1>23, Reassembled DEF r

\* A bank that did not ask for the line leaves it.
LEMMA NotMine ==
  ASSUME NEW hm, NEW hand, NEW s \in Good(hm, hand), NEW b \in Bank, NEW a,
         a = -1 \/ BankOf(a) # b
  PROVE  CheckHMCResp(s, b, a) = s
<1>1. s.banks[b] \in Banks /\ BankGood(s.banks[b], b, Alive(s, b))
  BY AliveLaws
<1>2. DOMAIN s.banks[b].table \subseteq Blocks
  BY <1>1, BankTypes, TableLaws
<1>3. -1 \notin Blocks
  BY BlockLaws
<1>4. a \notin DOMAIN s.banks[b].table
  BY <1>1, <1>2, <1>3 DEF BankGood
<1> QED BY <1>4 DEF CheckHMCResp

\* The first data access is of a live block.
LEMMA FirstAccess ==
  ASSUME NEW k \in Banks, NEW b, NEW L, BankGood(k, b, L), k.data_access_q # <<>>
  PROVE  /\ Head(k.data_access_q) \in L /\ Tail(k.data_access_q) \in Seq(Blocks)
         /\ k.table[Head(k.data_access_q)].state \in Accessing
<1> DEFINE q == k.data_access_q
<1>1. q \in Seq(Blocks)
  BY BankTypes
<1>2. ToSet(q) = ToSet(Tail(q)) \cup {Head(q)} /\ Tail(q) \in Seq(Blocks)
  BY <1>1, TailOnce
<1>3. ToSet(q) = {a \in L : k.table[a].state \in Accessing}
  BY DEF BankGood, AccessGood, DataGood
<1> QED BY <1>2, <1>3

\* The data access that reads a victim writes it back.
LEMMA WriteBackKeeps ==
  ASSUME NEW hm \in Seq(Blocks), NEW hand, NEW s \in Good(hm, hand), NEW b \in Bank,
         NEW k, k = s.banks[b], k.data_access_q # <<>>, NEW a, a = Head(k.data_access_q),
         k.data_delay = Idle, k.table[a].state = "VALID__RW_REQ_SENT_TO_CACHE"
  PROVE  SetState(WriteBack(PopData(s, b), b, a), b, a, "VALID__WR_REQ_SENT_TO_CACHE")
           \in Good(hm, hand)
<1> DEFINE L == Alive(s, b)
           q == k.data_access_q
           u == Tail(q)
           ev == Tail(k.evict_q)
           e == [k.table[a] EXCEPT !.state = "VALID__WR_REQ_SENT_TO_CACHE"]
           T == Put(k.table, a, e)
           line == k.data[Index(a)][k.table[a].way]
           tran == [op |-> "WRITE", adrs |-> Head(k.evict_q), data |-> line]
           k1 == [k EXCEPT !.data_access_q = u]
           k2 == [k1 EXCEPT !.evict_q = ev]
           k4 == [k2 EXCEPT !.table = T]
           r1 == PopData(s, b)
           r2 == [r1 EXCEPT !.banks[b].evict_q = ev]
           r3 == SendTran(r2, tran)
           r4 == [r3 EXCEPT !.banks[b].table = T]
<1>1. s \in Caches /\ ~s.hung /\ k \in Banks /\ BankGood(k, b, L) /\ IdsGood(s)
  BY AliveLaws
<1>2. /\ k.table \in Tables /\ q \in Seq(Blocks) /\ k.evict_q \in Seq(Blocks)
      /\ k.tag_check_q \in Seq(Blocks)
  BY <1>1, BankTypes
<1>3. a \in L /\ u \in Seq(Blocks)
  BY <1>1, FirstAccess
<1>4. /\ a \in Blocks /\ a \in DOMAIN k.table /\ k.table[a] \in Table /\ BankOf(a) = b
      /\ StateOf(s, a) = "VALID__RW_REQ_SENT_TO_CACHE" /\ IdsOf(s, a) = ToSet(k.table[a].req_ids)
  BY <1>3, AliveLaws
<1>5. e \in Table /\ e.state = "VALID__WR_REQ_SENT_TO_CACHE" /\ e.way = k.table[a].way
      /\ e.req_ids = k.table[a].req_ids
  BY ONLY <1>4 DEF Table, block_state, ValidState
<1> HIDE DEF e
<1>6. /\ T \in Tables /\ DOMAIN T = DOMAIN k.table /\ T[a] = e
      /\ \A x \in DOMAIN k.table : x # a => T[x] = k.table[x]
  <2>1. T = Put(k.table, a, e)
    OBVIOUS
  <2> HIDE DEF T
  <2> QED BY ONLY <1>2, <1>4, <1>5, <2>1, PutInTable
<1> HIDE DEF T
<1>7. /\ k.evict_q # <<>> /\ line = Head(k.evict_q)
      /\ AccessGood(T, L, u, ev, k.tags, k.data)
  <2>1. AccessGood(k.table, L, q, k.evict_q, k.tags, k.data) /\ L \subseteq DOMAIN k.table
    BY <1>1, Zenon DEF BankGood
  <2>2. T[a].way = k.table[a].way /\ T[a].state = "VALID__WR_REQ_SENT_TO_CACHE"
    BY <1>5, <1>6
  <2>3. OnlyEntry(k.table, T, a)
    BY ONLY <1>6 DEF OnlyEntry
  <2> HIDE DEF u, ev, line, L
  <2>4. /\ k.evict_q # <<>> /\ k.data[Index(a)][k.table[a].way] = Head(k.evict_q)
        /\ AccessGood(T, L, Tail(q), Tail(k.evict_q), k.tags, k.data)
    <3>1. VictimRead(k.table, L, q, k.evict_q, k.tags, k.data, a, T)
      BY <1>2, <2>1, <2>2, <2>3, Zenon DEF VictimRead
    <3> QED BY ONLY <3>1, ReadVictim, Zenon
  <2> QED BY ONLY <2>4, Zenon DEF u, ev, line
<1>8. ev \in Seq(Blocks) /\ Head(k.evict_q) \in Blocks
  BY ONLY <1>2, <1>7, TailOnce
<1>9. tran \in Tran /\ tran.data = tran.adrs /\ tran.op = "WRITE"
  BY ONLY <1>7, <1>8, Zenon DEF Tran
<1>10. Sets(s, r1, b, k1)
  <2>1. r1 = [s EXCEPT !.banks[b].data_access_q = u]
    BY DEF PopData
  <2> HIDE DEF r1, u
  <2> QED BY <1>1, <1>3, <2>1, SetField
<1> HIDE DEF r1, k1, u
<1>11. /\ r1 \in Caches /\ r1.banks[b] = k1 /\ k1.table = k.table /\ k1.evict_q = k.evict_q
       /\ k1.data = k.data
  BY <1>1, <1>10 DEF Sets, OnlyBank, k1, Banks
<1>12. Sets(r1, r2, b, k2)
  <2> HIDE DEF ev
  <2> QED BY ONLY <1>8, <1>11, SetField
<1>13. WriteBack(r1, b, a) = r3
  <2>1. Entry(r1, b, a) = k.table[a]
    BY <1>4, <1>11 DEF Entry
  <2>2. r2 = [r1 EXCEPT !.banks[b].evict_q = Tail(@)]
    BY <1>11
  <2>3. WriteBack(r1, b, a) =
          SendTran([r1 EXCEPT !.banks[b].evict_q = Tail(@)],
                   [op |-> "WRITE", adrs |-> Head(r1.banks[b].evict_q),
                    data |-> r1.banks[b].data[Index(a)][Entry(r1, b, a).way]])
    BY DEF WriteBack
  <2> QED BY ONLY <1>11, <2>1, <2>2, <2>3
<1> HIDE DEF r2, k2, ev, tran
<1>14. r2 \in Caches /\ r2.banks[b] = k2 /\ k2.table = k.table
  BY <1>11, <1>12 DEF Sets, OnlyBank, k2, Banks
<1>15. r3 \in Caches /\ Quiet(r2, r3) /\ r3.banks = r2.banks /\ Sent(r2, r3, tran)
  BY <1>9, <1>14, SendLaws DEF Sent
<1> HIDE DEF r3
<1>16. Sets(r3, r4, b, k4)
  BY <1>6, <1>14, <1>15, SetField, Zenon
<1>17. SetState(WriteBack(PopData(s, b), b, a), b, a, "VALID__WR_REQ_SENT_TO_CACHE") = r4
  <2>1. Entry(r3, b, a) = k.table[a] /\ r3.banks[b].table = k.table
    BY <1>4, <1>14, <1>15 DEF Entry
  <2>2. SetState(r3, b, a, "VALID__WR_REQ_SENT_TO_CACHE") = r4
    BY <2>1 DEF SetState, PutEntry, T, e
  <2> QED BY <1>13, <2>2 DEF r1
<1> HIDE DEF r4, k4
<1>18. /\ k4.table = T /\ k4.tag_check_q = k.tag_check_q /\ k4.data_access_q = u
       /\ k4.evict_q = ev /\ k4.tags = k.tags /\ k4.data = k.data
       /\ k4.tag_delay = k.tag_delay /\ k4.data_delay = k.data_delay
  BY <1>1 DEF k1, k2, k4, Banks
<1>19. /\ r4 \in Caches /\ r4.banks[b] = k4 /\ Quiet(s, r4) /\ Sent(s, r4, tran)
       /\ \A x \in Bank \ {b} : r4.banks[x] = s.banks[x]
  BY ONLY <1>10, <1>12, <1>15, <1>16 DEF Sets, OnlyBank, Quiet, Sent
<1>20. /\ Around(s, r4, b, a) /\ Alive(r4, b) = L
       /\ \A x \in Blocks \ {a} : StateOf(r4, x) = StateOf(s, x) /\ IdsOf(r4, x) = IdsOf(s, x)
       /\ StateOf(r4, a) = "VALID__WR_REQ_SENT_TO_CACHE" /\ IdsOf(r4, a) = IdsOf(s, a)
  <2>1. r4.banks[b].table = Put(k.table, a, e) /\ r4.retired = s.retired /\ a \notin s.retired
    BY <1>3, <1>18, <1>19 DEF T, Quiet, Alive
  <2>2. /\ Around(s, r4, b, a)
        /\ \A x \in Blocks \ {a} : StateOf(r4, x) = StateOf(s, x) /\ IdsOf(r4, x) = IdsOf(s, x)
        /\ StateOf(r4, a) = IF a \in r4.retired THEN "RETIRED" ELSE e.state
        /\ IdsOf(r4, a) = ToSet(e.req_ids)
        /\ Alive(r4, b) = (Alive(s, b) \cup {a}) \ (r4.retired \cap {a})
    <3>1. Entered(s, r4, b, a, e)
      BY <1>19, <2>1, <1>4 DEF Entered
    <3> QED BY ONLY <3>1, TableStep
  <2>3. Alive(r4, b) = L
    BY ONLY <1>3, <2>1, <2>2
  <2>4. StateOf(r4, a) = "VALID__WR_REQ_SENT_TO_CACHE"
    BY ONLY <1>5, <2>1, <2>2
  <2> QED BY ONLY <1>4, <1>5, <2>2, <2>3, <2>4
<1>21. BankGood(k4, b, L)
  <2>0. L \subseteq DOMAIN k.table
    BY ONLY <1>1 DEF BankGood
  <2>1. T[a].state = "VALID__WR_REQ_SENT_TO_CACHE" /\ k.table[a].state = "VALID__RW_REQ_SENT_TO_CACHE"
    BY <1>5, <1>6
  <2>2. \A x \in L : x # a => T[x] = k.table[x]
    BY ONLY <1>6, <2>0
  <2>3. TagGood(T, L, k.tag_check_q)
    <3>1. {x \in L : T[x].state \in Checking} = {x \in L : k.table[x].state \in Checking}
      BY <2>1, <2>2 DEF Checking
    <3> QED BY <1>1, <3>1 DEF TagGood, BankGood
  <2>4. \A x \in L : T[x].state \in {"INVALID__LINEFILL_REQ_SENT"} \cup Checking \cup Accessing
    <3>1. \A x \in L : k.table[x].state \in {"INVALID__LINEFILL_REQ_SENT"} \cup Checking \cup Accessing
      BY <1>1 DEF BankGood
    <3> QED BY <2>1, <2>2, <3>1 DEF Accessing
  <2>5. Timed(k.tag_delay, k.tag_check_q) /\ Timed(k.data_delay, u)
    BY <1>1, Zenon DEF Timed, BankGood
  <2>6. \A x \in DOMAIN T : BankOf(x) = b
    BY <1>1, <1>6 DEF BankGood
  <2> QED BY ONLY <1>6, <1>7, <1>18, <2>0, <2>3, <2>4, <2>5, <2>6, Zenon DEF BankGood
<1>22. IdsGood(r4)
  BY <1>1, <1>4, <1>19, <1>20, IdsKeep DEF Quiet, Waiting
<1>23. /\ \A y \in ToSet(r4.req) \cup r4.refused : y.data = y.adrs
       /\ \A x \in Blocks : Fills(r4, hm, hand, x) = Fills(s, hm, hand, x) + 0
  <2>1. \A x \in Blocks : tran # ReadOf(x)
    BY <1>9 DEF ReadOf
  <2>2. /\ \A y \in ToSet(r4.req) \cup r4.refused : y.data = y.adrs
        /\ \A x \in Blocks : Fills(s, hm, hand, x) = 0 \/ tran # ReadOf(x) =>
             Fills(r4, hm, hand, x) = Fills(s, hm, hand, x) + (IF tran = ReadOf(x) THEN 1 ELSE 0)
    BY <1>9, <1>19, SentLaws
  <2> QED BY <2>1, <2>2
<1>24. FillsGood(r4, hm, hand)
  <2>1. \A x \in Blocks :
          Fills(s, hm, hand, x) = IF StateOf(s, x) = "INVALID__LINEFILL_REQ_SENT" THEN 1 ELSE 0
    BY ONLY DEF Good, Structure, FillsGood
  <2> QED BY <1>4, <1>20, <1>23, <2>1 DEF FillsGood
<1>25. r4 \in Good(hm, hand)
  <2>1. ~r4.hung /\ BankGood(r4.banks[b], b, Alive(r4, b))
    BY <1>1, <1>19, <1>20, <1>21 DEF Quiet
  <2> QED BY <1>4, <1>19, <1>20, <1>22, <1>23, <1>24, <2>1, Reassembled
<1> QED BY <1>17, <1>25

\* The data access that writes a line: the block's entry is erased and made again.
LEMMA RetireKeeps ==
  ASSUME NEW hm \in Seq(Blocks), NEW hand, NEW s \in Good(hm, hand), NEW b \in Bank,
         NEW k, k = s.banks[b], k.data_access_q # <<>>, NEW a, a = Head(k.data_access_q),
         k.data_delay = Idle, k.table[a].state = "VALID__WR_REQ_SENT_TO_CACHE",
         NEW garbage \in Garbage
  PROVE  Retire(WriteLine(PopData(s, b), b, a), b, a, garbage) \in Good(hm, hand)
<1> DEFINE L == Alive(s, b)
           q == k.data_access_q
           u == Tail(q)
           e == [NewEntry(<<>>, FALSE) EXCEPT !.state = garbage]
           E == [x \in DOMAIN k.table \ {a} |-> k.table[x]]
           T == Put(k.table, a, e)
           D == [k.data EXCEPT ![Index(a)][k.table[a].way] = a]
           k1 == [k EXCEPT !.data_access_q = u]
           k2 == [k1 EXCEPT !.data = D]
           k3 == [k2 EXCEPT !.table = E]
           k5 == [k3 EXCEPT !.table = T]
           r1 == PopData(s, b)
           r2 == [r1 EXCEPT !.banks[b].data = D]
           r3 == [r2 EXCEPT !.banks[b].table = E]
           R == r3.retired \cup {a}
           M == r3.lost \cup (ToSet(k.table[a].req_ids) \ (r2.completed \cup returned))
           r4 == [r3 EXCEPT !.retired = R, !.lost = M]
           r5 == [r4 EXCEPT !.banks[b].table = T]
<1>1. s \in Caches /\ ~s.hung /\ k \in Banks /\ BankGood(k, b, L) /\ IdsGood(s)
  BY AliveLaws
<1>2. /\ k.table \in Tables /\ q \in Seq(Blocks) /\ k.evict_q \in Seq(Blocks)
      /\ k.tag_check_q \in Seq(Blocks) /\ k.data \in [Row -> [Way -> Blocks \cup {0}]]
  BY <1>1, BankTypes
<1>3. a \in L /\ u \in Seq(Blocks)
  BY <1>1, FirstAccess
<1>4. /\ a \in Blocks /\ a \in DOMAIN k.table /\ k.table[a] \in Table /\ BankOf(a) = b
      /\ StateOf(s, a) = "VALID__WR_REQ_SENT_TO_CACHE"
  BY <1>3, AliveLaws
<1>5. e \in Table /\ e.state = garbage /\ e.req_ids = <<>>
  <2>1. 0 \in Way
    BY CacheSizes DEF Way
  <2>2. NewEntry(<<>>, FALSE) \in Table
    BY <2>1 DEF Table, NewEntry, block_state
  <2>3. NewEntry(<<>>, FALSE).req_ids = <<>>
    BY DEF NewEntry
  <2> QED BY <2>2, <2>3 DEF Table
<1>6. /\ T \in Tables /\ DOMAIN T = DOMAIN k.table /\ T[a] = e
      /\ \A x \in DOMAIN k.table : x # a => T[x] = k.table[x]
  <2> HIDE DEF e
  <2> QED BY <1>2, <1>4, <1>5, PutInTable
<1>7. E \in Tables /\ a \notin DOMAIN E /\ Put(E, a, e) = T
  <2>1. E \in Tables /\ a \notin DOMAIN E
    BY <1>2, TableLaws
  <2> HIDE DEF e
  <2>2. Put(E, a, e) = [y \in DOMAIN k.table |-> IF y = a THEN e ELSE E[y]]
        /\ T = [y \in DOMAIN k.table |-> IF y = a THEN e ELSE k.table[y]]
    <3>1. DOMAIN E \cup {a} = DOMAIN k.table /\ DOMAIN k.table \cup {a} = DOMAIN k.table
      BY <1>4
    <3> QED BY <3>1 DEF Put
  <2>3. \A y \in DOMAIN k.table : (IF y = a THEN e ELSE E[y]) = (IF y = a THEN e ELSE k.table[y])
    OBVIOUS
  <2> HIDE DEF E
  <2> QED BY <2>1, <2>2, <2>3
<1> HIDE DEF e, E, T
<1>8. D \in [Row -> [Way -> Blocks \cup {0}]]
  <2>1. Index(a) \in Row /\ k.table[a].way \in Way
    BY <1>4, BlockLaws DEF Table
  <2> DEFINE i == Index(a)
             w == k.table[a].way
             new == [k.data[i] EXCEPT ![w] = a]
  <2>2. i \in Row /\ w \in Way
    BY <2>1
  <2> HIDE DEF i, w
  <2>3. new \in [Way -> Blocks \cup {0}]
    BY <1>2, <1>4, <2>2
  <2>4. D = [k.data EXCEPT ![i] = new]
    BY ONLY DEF i, w
  <2> HIDE DEF new, D
  <2> QED BY <1>2, <2>2, <2>3, <2>4
<1>9. AccessGood(T, L \ {a}, u, k.evict_q, k.tags, D)
  <2>1. AccessGood(k.table, L, q, k.evict_q, k.tags, k.data) /\ L \subseteq DOMAIN k.table
    BY <1>1 DEF BankGood
  <2>2. OnlyEntry(k.table, T, a)
    BY <1>6 DEF OnlyEntry
  <2> HIDE DEF D
  <2>3. D = [k.data EXCEPT ![Index(a)][k.table[a].way] = a]
    BY DEF D
  <2> QED BY <1>2, <2>1, <2>2, <2>3, WriteBlock, Zenon
<1>10. Sets(s, r1, b, k1)
  <2>1. r1 = [s EXCEPT !.banks[b].data_access_q = u]
    BY DEF PopData
  <2> HIDE DEF r1, u
  <2> QED BY <1>1, <1>3, <2>1, SetField
<1> HIDE DEF r1, k1, u
<1>11. r1 \in Caches /\ r1.banks[b] = k1 /\ k1.table = k.table /\ k1.data = k.data
  BY <1>1, <1>10 DEF Sets, OnlyBank, k1, Banks
<1>12. Sets(r1, r2, b, k2)
  <2> HIDE DEF D
  <2> QED BY <1>8, <1>11, SetField, Zenon
<1>13. WriteLine(r1, b, a) = r2
  <2>1. Entry(r1, b, a) = k.table[a]
    BY <1>4, <1>11 DEF Entry
  <2> QED BY ONLY <1>11, <2>1 DEF WriteLine
<1> HIDE DEF r2, k2, D
<1>14. r2 \in Caches /\ r2.banks[b] = k2 /\ k2.table = k.table
  BY <1>11, <1>12 DEF Sets, OnlyBank, k2, Banks
<1>15. Sets(r2, r3, b, k3)
  BY <1>7, <1>14, SetField
<1>16. Erased(r2, b, a) = r4
  <2>1. Entry(r2, b, a) = k.table[a]
    BY <1>4, <1>14 DEF Entry
  <2>2. Erase(r2, b, a) = r3
    BY <1>14 DEF Erase, E
  <2>3. Erased(r2, b, a) = [Erase(r2, b, a) EXCEPT
          !.retired = @ \cup {a},
          !.lost = @ \cup (ToSet(Entry(r2, b, a).req_ids) \ (r2.completed \cup returned))]
    BY DEF Erased
  <2> HIDE DEF r3
  <2> QED BY <2>1, <2>2, <2>3
<1> HIDE DEF r3, k3
<1>17. r3 \in Caches /\ r3.banks[b] = k3 /\ k3.table = E
  BY <1>14, <1>15 DEF Sets, OnlyBank, k3, Banks
<1>18. R \in SUBSET Blocks /\ M \in SUBSET ReqId
  <2>1. r3.retired \in SUBSET Blocks /\ r3.lost \in SUBSET ReqId
    BY <1>17 DEF Caches
  <2>2. k.table[a].req_ids \in Seq(ReqId)
    BY ONLY <1>4, Zenon DEF Table
  <2>3. ToSet(k.table[a].req_ids) \subseteq ReqId
    BY <2>2 DEF ToSet
  <2> QED BY <1>4, <2>1, <2>3
<1> HIDE DEF R, M
<1>19. /\ r4 \in Caches /\ r4.banks = r3.banks /\ r4.req = r3.req /\ r4.refused = r3.refused
       /\ r4.next_req_id = r3.next_req_id /\ r4.hung = r3.hung /\ r4.retired = R
       /\ r4.completed = r3.completed
  BY <1>17, <1>18 DEF Caches
<1> HIDE DEF r4
<1>20. Sets(r4, r5, b, k5)
  BY <1>6, <1>17, <1>19, SetField
<1>21. Retire(WriteLine(PopData(s, b), b, a), b, a, garbage) = r5
  <2>1. Entry(r4, b, a) = NewEntry(<<>>, FALSE)
    BY <1>7, <1>17, <1>19 DEF Entry
  <2>2. [NewEntry(<<>>, FALSE) EXCEPT !.state = garbage] = e
    BY DEF e
  <2>3. SetState(r4, b, a, garbage) = r5
    BY <1>7, <1>17, <1>19, <2>1, <2>2 DEF SetState, PutEntry
  <2> QED BY <1>13, <1>16, <2>3 DEF Retire, r1
<1> HIDE DEF r5, k5
<1>22. /\ k5.table = T /\ k5.tag_check_q = k.tag_check_q /\ k5.data_access_q = u
       /\ k5.evict_q = k.evict_q /\ k5.tags = k.tags /\ k5.data = D
       /\ k5.tag_delay = k.tag_delay /\ k5.data_delay = k.data_delay
  BY <1>1 DEF k1, k2, k3, k5, Banks
<1>23. /\ r5 \in Caches /\ r5.banks[b] = k5 /\ r5.req = s.req /\ r5.refused = s.refused
       /\ \A x \in Bank \ {b} : r5.banks[x] = s.banks[x]
       /\ r5.next_req_id = s.next_req_id /\ r5.hung = s.hung /\ r5.completed = s.completed
       /\ r5.retired = s.retired \cup {a}
  <2>1. R = r3.retired \cup {a}
    BY DEF R
  <2> QED BY <1>10, <1>12, <1>15, <1>19, <1>20, <2>1 DEF Sets, OnlyBank, Quiet
<1>24. /\ Around(s, r5, b, a) /\ Alive(r5, b) = L \ {a}
       /\ \A x \in Blocks \ {a} : StateOf(r5, x) = StateOf(s, x) /\ IdsOf(r5, x) = IdsOf(s, x)
       /\ StateOf(r5, a) = "RETIRED" /\ IdsOf(r5, a) = {}
  <2>1. Entered(s, r5, b, a, e)
    BY <1>4, <1>22, <1>23 DEF T, Entered
  <2>2. /\ Around(s, r5, b, a)
        /\ \A x \in Blocks \ {a} : StateOf(r5, x) = StateOf(s, x) /\ IdsOf(r5, x) = IdsOf(s, x)
        /\ StateOf(r5, a) = IF a \in r5.retired THEN "RETIRED" ELSE e.state
        /\ IdsOf(r5, a) = ToSet(e.req_ids)
        /\ Alive(r5, b) = (Alive(s, b) \cup {a}) \ (r5.retired \cap {a})
    BY ONLY <2>1, TableStep
  <2>3. a \in r5.retired
    BY <1>23
  <2>4. Alive(r5, b) = L \ {a}
    BY <2>2, <2>3
  <2>5. ToSet(e.req_ids) = {}
    BY ONLY <1>5 DEF ToSet
  <2> QED BY <2>2, <2>3, <2>4, <2>5
<1>25. BankGood(k5, b, L \ {a})
  <2>0. L \subseteq DOMAIN k.table
    BY <1>1 DEF BankGood
  <2>2. \A x \in L \ {a} : T[x] = k.table[x]
    BY ONLY <1>6, <2>0, Zenon
  <2>3. TagGood(T, L \ {a}, k.tag_check_q)
    <3>1. {x \in L \ {a} : T[x].state \in Checking} = {x \in L : k.table[x].state \in Checking}
      BY <2>2 DEF Checking
    <3> QED BY <1>1, <3>1 DEF TagGood, BankGood
  <2>4. \A x \in L \ {a} : T[x].state \in {"INVALID__LINEFILL_REQ_SENT"} \cup Checking \cup Accessing
    <3>1. \A x \in L : k.table[x].state \in {"INVALID__LINEFILL_REQ_SENT"} \cup Checking \cup Accessing
      BY <1>1 DEF BankGood
    <3> QED BY <2>2, <3>1
  <2>5. Timed(k.tag_delay, k.tag_check_q) /\ Timed(k.data_delay, u)
    BY <1>1, Zenon DEF Timed, BankGood
  <2>6. \A x \in DOMAIN T : BankOf(x) = b
    BY <1>1, <1>6 DEF BankGood
  <2> QED BY ONLY <1>6, <1>9, <1>22, <2>0, <2>3, <2>4, <2>5, <2>6 DEF BankGood
<1>26. IdsGood(r5)
  <2>1. "RETIRED" \notin Waiting
    BY DEF Waiting
  <2> QED BY <1>1, <1>4, <1>23, <1>24, <2>1, IdsKeep
<1>27. FillsGood(r5, hm, hand)
  <2>1. \A x \in Blocks :
          Fills(s, hm, hand, x) = IF StateOf(s, x) = "INVALID__LINEFILL_REQ_SENT" THEN 1 ELSE 0
    BY DEF Good, Structure, FillsGood
  <2>2. \A x \in Blocks : Fills(r5, hm, hand, x) = Fills(s, hm, hand, x)
    BY <1>23 DEF Fills
  <2> QED BY <1>4, <1>24, <2>1, <2>2 DEF FillsGood
<1>28. \A tran \in ToSet(r5.req) \cup r5.refused : tran.data = tran.adrs
  BY <1>23 DEF Good, Structure
<1>29. r5 \in Good(hm, hand)
  <2>1. ~r5.hung /\ BankGood(r5.banks[b], b, Alive(r5, b))
    BY <1>1, <1>23, <1>24, <1>25
  <2> QED BY <1>4, <1>23, <1>24, <1>26, <1>27, <1>28, <2>1, Reassembled
<1> QED BY <1>21, <1>29
-----------------------------------------------------------------------------
(* The whole update of a bank, and the loop over the banks.                *)
(***************************************************************************)

\* A cache with the same tables has the same blocks in the same states.
SameTables(s, r) ==
  r.retired = s.retired /\ \A x \in Bank : r.banks[x].table = s.banks[x].table

\* What is the same when the tables are the same.
LEMMA Unmoved ==
  ASSUME NEW s, NEW r, SameTables(s, r)
  PROVE  /\ \A x \in Bank : Alive(r, x) = Alive(s, x)
         /\ \A a \in Blocks : /\ TableOf(r, a) = TableOf(s, a) /\ StateOf(r, a) = StateOf(s, a)
                             /\ IdsOf(r, a) = IdsOf(s, a)
<1>1. \A x \in Bank : Alive(r, x) = Alive(s, x)
  BY DEF Alive, SameTables
<1>2. \A a \in Blocks : TableOf(r, a) = TableOf(s, a)
  BY BlockLaws DEF TableOf, SameTables
<1>3. \A a \in Blocks : StateOf(r, a) = StateOf(s, a) /\ IdsOf(r, a) = IdsOf(s, a)
  BY <1>2 DEF StateOf, IdsOf, SameTables
<1> QED BY <1>1, <1>2, <1>3

\* The delays of bank b are set to d1 and d2.
Delayed(s, r, b, d1, d2) ==
  /\ d1 \in Delay(MISS_TIME) /\ Timed(d1, s.banks[b].tag_check_q)
  /\ d2 \in Delay(HIT_TIME - MISS_TIME) /\ Timed(d2, s.banks[b].data_access_q)
  /\ r = [s EXCEPT !.banks[b].tag_delay = d1, !.banks[b].data_delay = d2]

\* Setting the delays of a bank keeps the invariant.
LEMMA DelaysKeep ==
  ASSUME NEW hm, NEW hand, NEW s \in Good(hm, hand), NEW b \in Bank, NEW d1, NEW d2,
         NEW p, Delayed(s, p, b, d1, d2)
  PROVE  /\ p \in Good(hm, hand)
         /\ p.banks[b].tag_check_q = s.banks[b].tag_check_q
         /\ p.banks[b].data_access_q = s.banks[b].data_access_q
         /\ p.banks[b].tag_delay = d1 /\ p.banks[b].data_delay = d2
<1> DEFINE k == s.banks[b]
           k1 == [k EXCEPT !.tag_delay = d1]
           k2 == [k1 EXCEPT !.data_delay = d2]
           r1 == [s EXCEPT !.banks[b].tag_delay = d1]
           r == [r1 EXCEPT !.banks[b].data_delay = d2]
<1>0. /\ d1 \in Delay(MISS_TIME) /\ Timed(d1, k.tag_check_q)
      /\ d2 \in Delay(HIT_TIME - MISS_TIME) /\ Timed(d2, k.data_access_q)
  BY DEF Delayed
<1>1. s \in Caches /\ ~s.hung /\ k \in Banks /\ BankGood(k, b, Alive(s, b)) /\ IdsGood(s)
  BY AliveLaws
<1>2. Sets(s, r1, b, k1)
  BY <1>0, <1>1, SetField
<1>3. p = r
  BY DEF Delayed
<1> HIDE DEF r1, k1
<1>4. r1 \in Caches /\ r1.banks[b] = k1
  BY <1>2 DEF Sets, OnlyBank
<1>5. Sets(r1, r, b, k2)
  BY <1>0, <1>4, SetField
<1> HIDE DEF r, k2
<1>6. /\ k2.table = k.table /\ k2.tag_check_q = k.tag_check_q
      /\ k2.data_access_q = k.data_access_q /\ k2.evict_q = k.evict_q
      /\ k2.tags = k.tags /\ k2.data = k.data /\ k2.tag_delay = d1 /\ k2.data_delay = d2
  BY <1>1 DEF k1, k2, Banks
<1>7. /\ r \in Caches /\ r.banks[b] = k2 /\ Quiet(s, r) /\ r.req = s.req /\ r.refused = s.refused
      /\ \A x \in Bank \ {b} : r.banks[x] = s.banks[x]
  BY <1>2, <1>5 DEF Sets, OnlyBank, Quiet
<1>8. SameTables(s, r)
  BY <1>6, <1>7 DEF SameTables, Quiet
<1>9. /\ \A x \in Bank : Alive(r, x) = Alive(s, x)
      /\ \A a \in Blocks : /\ TableOf(r, a) = TableOf(s, a) /\ StateOf(r, a) = StateOf(s, a)
                          /\ IdsOf(r, a) = IdsOf(s, a)
  BY ONLY <1>8, Unmoved
<1>10. \A x \in Bank : BankGood(r.banks[x], x, Alive(r, x))
  <2>1. BankGood(k2, b, Alive(s, b))
    BY <1>0, <1>1, <1>6 DEF BankGood
  <2>2. \A x \in Bank : BankGood(s.banks[x], x, Alive(s, x))
    BY DEF Good, Structure
  <2> QED BY <1>7, <1>9, <2>1, <2>2
<1>11. \A a \in r.retired : a \in DOMAIN TableOf(r, a)
  <2>1. s.retired \subseteq Blocks /\ r.retired = s.retired
    BY <1>1, <1>7 DEF Caches, Quiet
  <2> QED BY <1>9, <2>1 DEF Good, Structure
<1>12. \A tran \in ToSet(r.req) \cup r.refused : tran.data = tran.adrs
  BY <1>7 DEF Good, Structure
<1>13. IdsGood(r)
  BY <1>1, <1>7, <1>9 DEF IdsGood, Quiet
<1>14. FillsGood(r, hm, hand)
  <2>1. FillsGood(s, hm, hand)
    BY DEF Good, Structure
  <2> QED BY <1>7, <1>9, <2>1 DEF FillsGood, Fills
<1>15. r \in Good(hm, hand)
  BY <1>1, <1>7, <1>10, <1>11, <1>12, <1>13, <1>14 DEF Good, Structure, Quiet
<1> QED BY <1>3, <1>6, <1>7, <1>15

\* A delay counts down and is idle again when it is complete; it starts when its
\* queue has something to do.
LEMMA DelayLaws ==
  ASSUME NEW n \in Nat \ {0}, NEW d \in Delay(n), NEW q, Timed(d, q)
  PROVE  /\ LET u == DelayUpdate(d)
                v == IF DelayComplete(u) THEN Idle ELSE u
            IN  v \in Delay(n) /\ Timed(v, q) /\ (DelayComplete(u) => q # <<>>)
         /\ LET v == IF d.state = "IDLE" /\ q # <<>> THEN DelayStart(n) ELSE d
            IN  v \in Delay(n) /\ Timed(v, q)
<1> DEFINE u == DelayUpdate(d)
<1>1. Idle \in Delay(n) /\ Idle.counter = 0 /\ Idle.state = "IDLE"
  BY DEF Idle, Delay
<1>2. (DelayStart(n) \in Delay(n) /\ Timed(DelayStart(n), q)) \/ q = <<>>
  BY DEF DelayStart, Delay, Timed
<1>3. d.counter \in 0 .. n /\ (d = Idle \/ (d.state = "IN_PROGRESS" /\ d.counter > 0 /\ q # <<>>))
  BY DEF Delay, Timed
<1>4. CASE d = Idle
  <2>1. u = d
    BY <1>1, <1>4 DEF DelayUpdate
  <2> QED BY <1>1, <1>2, <1>4, <2>1 DEF Timed, DelayComplete
<1>5. CASE d.counter = 1 /\ d # Idle
  <2>1. u = [counter |-> 0, state |-> "COMPLETE"]
    BY <1>5 DEF DelayUpdate
  <2>2. DelayComplete(u)
    BY <2>1 DEF DelayComplete
  <2> HIDE DEF u
  <2> QED BY <1>1, <1>3, <1>5, <2>2 DEF Timed, u
<1>6. CASE d.counter > 1 /\ d # Idle
  <2>1. u = [d EXCEPT !.counter = d.counter - 1]
    BY <1>6 DEF DelayUpdate
  <2>2. d.counter - 1 \in 0 .. n /\ d.counter - 1 > 0
    BY <1>3, <1>6
  <2>3. u \in Delay(n) /\ u.counter > 0 /\ u.state = "IN_PROGRESS"
    <3>1. d \in Delay(n) /\ d.state = "IN_PROGRESS"
      BY <1>3, <1>6
    <3> QED BY <2>1, <2>2, <3>1 DEF Delay
  <2>4. ~DelayComplete(u)
    BY <2>3 DEF DelayComplete
  <2> HIDE DEF u
  <2> QED BY <1>3, <1>6, <2>3, <2>4 DEF Timed, u
<1> QED BY <1>3, <1>4, <1>5, <1>6

\* process_request starts the delays.
LEMMA ProcessKeeps ==
  ASSUME NEW hm, NEW hand, NEW s \in Good(hm, hand), NEW b \in Bank
  PROVE  ProcessRequest(s, b) \in Good(hm, hand)
<1> DEFINE k == s.banks[b]
           H == HIT_TIME - MISS_TIME
           d1 == IF k.tag_delay.state = "IDLE" /\ k.tag_check_q # <<>>
                 THEN DelayStart(MISS_TIME) ELSE k.tag_delay
           d2 == IF k.data_delay.state = "IDLE" /\ k.data_access_q # <<>>
                 THEN DelayStart(H) ELSE k.data_delay
<1>1. k \in Banks /\ BankGood(k, b, Alive(s, b))
  BY AliveLaws
<1>2. /\ k.tag_delay \in Delay(MISS_TIME) /\ Timed(k.tag_delay, k.tag_check_q)
      /\ k.data_delay \in Delay(H) /\ Timed(k.data_delay, k.data_access_q)
  BY <1>1, BankTypes DEF BankGood
<1>3. MISS_TIME \in Nat \ {0} /\ H \in Nat \ {0}
  BY CacheSizes
<1>4. ProcessRequest(s, b) = [s EXCEPT !.banks[b].tag_delay = d1, !.banks[b].data_delay = d2]
  BY DEF ProcessRequest
<1>5. d1 \in Delay(MISS_TIME) /\ Timed(d1, k.tag_check_q)
  BY ONLY <1>2, <1>3, DelayLaws
<1>6. d2 \in Delay(H) /\ Timed(d2, k.data_access_q)
  <2> HIDE DEF H
  <2> QED BY ONLY <1>2, <1>3, DelayLaws
<1> HIDE DEF d1, d2
<1>7. Delayed(s, ProcessRequest(s, b), b, d1, d2)
  BY <1>4, <1>5, <1>6 DEF Delayed
<1> QED BY ONLY <1>7, b \in Bank, s \in Good(hm, hand), DelaysKeep

\* The tag check that is due.
LEMMA TagCheckKeeps ==
  ASSUME NEW hm \in Seq(Blocks), NEW hand, NEW s \in Good(hm, hand), NEW b \in Bank,
         NEW k, k = s.banks[b], k.tag_check_q # <<>>, k.tag_delay = Idle
  PROVE  LET r == DoTagCheck(s, b)
         IN  /\ r \in Good(hm, hand) /\ r.banks[b].data_delay = k.data_delay
             /\ k.data_access_q # <<>> => r.banks[b].data_access_q # <<>>
<1> DEFINE a == Head(k.tag_check_q)
<1>1. k \in Banks /\ BankGood(k, b, Alive(s, b))
  BY AliveLaws
<1>2. k.tag_check_q \in Seq(Blocks)
  BY <1>1, BankTypes
<1>3. a \in ToSet(k.tag_check_q)
  BY <1>2, TailOnce, SMTT(20)
<1>4. a \in Alive(s, b) /\ k.table[a].state \in Checking
  BY <1>1, <1>3 DEF BankGood, TagGood
<1>5. Entry(s, b, a) = k.table[a]
  BY <1>4, AliveLaws DEF Entry
<1>6. CASE k.table[a].state = "INVALID__CACHE_CHECK"
  <2>1. DoTagCheck(s, b) = Lookup(PopTag(s, b), b, a)
    BY <1>5, <1>6 DEF DoTagCheck
  <2> QED BY <1>6, <2>1, MissKeeps
<1>7. CASE k.table[a].state = "VALID__CACHE_CHECK"
  <2>1. DoTagCheck(s, b) = Allocate(PopTag(s, b), b, a)
    BY <1>5, <1>7 DEF DoTagCheck
  <2> QED BY <1>7, <2>1, AllocateKeeps
<1> QED BY <1>4, <1>6, <1>7 DEF Checking

\* The data access that is due.
LEMMA DataAccessKeeps ==
  ASSUME NEW hm \in Seq(Blocks), NEW hand, NEW s \in Good(hm, hand), NEW b \in Bank,
         NEW k, k = s.banks[b], k.data_access_q # <<>>, k.data_delay = Idle,
         NEW garbage \in Garbage
  PROVE  DoDataAccess(s, b, garbage) \in Good(hm, hand)
<1> DEFINE a == Head(k.data_access_q)
<1>1. k \in Banks /\ BankGood(k, b, Alive(s, b))
  BY AliveLaws
<1>2. a \in Alive(s, b) /\ k.table[a].state \in Accessing
  BY <1>1, FirstAccess
<1>3. Entry(s, b, a) = k.table[a]
  BY <1>2, AliveLaws DEF Entry
<1>4. CASE k.table[a].state = "VALID__WR_REQ_SENT_TO_CACHE"
  <2>1. DoDataAccess(s, b, garbage) = Retire(WriteLine(PopData(s, b), b, a), b, a, garbage)
    BY <1>3, <1>4 DEF DoDataAccess
  <2> QED BY <1>4, <2>1, RetireKeeps
<1>5. CASE k.table[a].state = "VALID__RW_REQ_SENT_TO_CACHE"
  <2>1. DoDataAccess(s, b, garbage) =
          SetState(WriteBack(PopData(s, b), b, a), b, a, "VALID__WR_REQ_SENT_TO_CACHE")
    BY <1>3, <1>5 DEF DoDataAccess
  <2> QED BY <1>5, <2>1, WriteBackKeeps
<1> QED BY <1>2, <1>4, <1>5 DEF Accessing

\* The line that came back is in hand until its bank is updated.
Hand(resp, i) == IF resp # -1 /\ BankOf(resp) < i THEN -1 ELSE resp

\* update of bank b.
LEMMA BankKeeps ==
  ASSUME NEW hm \in Seq(Blocks), NEW resp \in Blocks \cup {-1}, NEW b \in Bank,
         NEW s \in Good(hm, Hand(resp, b)), NEW garbage \in Garbage
  PROVE  BankUpdate(s, b, resp, garbage) \in Good(hm, Hand(resp, b + 1))
<1> DEFINE k == s.banks[b]
           H == HIT_TIME - MISS_TIME
           hand == Hand(resp, b)
           tagDelay == DelayUpdate(k.tag_delay)
           dataDelay == DelayUpdate(k.data_delay)
           d1 == IF DelayComplete(tagDelay) THEN Idle ELSE tagDelay
           d2 == IF DelayComplete(dataDelay) THEN Idle ELSE dataDelay
           s1 == [s EXCEPT !.banks[b].tag_delay = d1, !.banks[b].data_delay = d2]
           s2 == IF DelayComplete(tagDelay) THEN DoTagCheck(s1, b) ELSE s1
           s3 == IF DelayComplete(dataDelay) THEN DoDataAccess(s2, b, garbage) ELSE s2
<1>1. BankUpdate(s, b, resp, garbage) = ProcessRequest(CheckHMCResp(s3, b, resp), b)
  BY DEF BankUpdate
<1>2. k \in Banks /\ BankGood(k, b, Alive(s, b))
  BY AliveLaws
<1>3. /\ k.tag_delay \in Delay(MISS_TIME) /\ Timed(k.tag_delay, k.tag_check_q)
      /\ k.data_delay \in Delay(H) /\ Timed(k.data_delay, k.data_access_q)
  BY <1>2, BankTypes DEF BankGood
<1>4. MISS_TIME \in Nat \ {0} /\ H \in Nat \ {0}
  BY CacheSizes
<1>5. /\ d1 \in Delay(MISS_TIME) /\ Timed(d1, k.tag_check_q)
      /\ DelayComplete(tagDelay) => k.tag_check_q # <<>> /\ d1 = Idle
  BY ONLY <1>3, <1>4, DelayLaws
<1>6. /\ d2 \in Delay(H) /\ Timed(d2, k.data_access_q)
      /\ DelayComplete(dataDelay) => k.data_access_q # <<>> /\ d2 = Idle
  <2> HIDE DEF H
  <2> QED BY ONLY <1>3, <1>4, DelayLaws
<1> HIDE DEF d1, d2, tagDelay, dataDelay
<1>7. /\ s1 \in Good(hm, hand)
      /\ s1.banks[b].tag_check_q = k.tag_check_q /\ s1.banks[b].data_access_q = k.data_access_q
      /\ s1.banks[b].tag_delay = d1 /\ s1.banks[b].data_delay = d2
  <2>1. Delayed(s, s1, b, d1, d2)
    BY <1>5, <1>6 DEF Delayed
  <2> HIDE DEF s1
  <2> QED BY <2>1, DelaysKeep
<1> HIDE DEF s1, hand
<1>8. /\ s2 \in Good(hm, hand) /\ s2.banks[b].data_delay = d2
      /\ k.data_access_q # <<>> => s2.banks[b].data_access_q # <<>>
  <2>1. CASE DelayComplete(tagDelay)
    BY <1>5, <1>7, <2>1, TagCheckKeeps
  <2>2. CASE ~DelayComplete(tagDelay)
    BY <1>7, <2>2
  <2> QED BY <2>1, <2>2
<1> HIDE DEF s2
<1>9. s3 \in Good(hm, hand)
  <2>1. CASE DelayComplete(dataDelay)
    BY <1>6, <1>8, <2>1, DataAccessKeeps
  <2>2. CASE ~DelayComplete(dataDelay)
    BY <1>8, <2>2
  <2> QED BY <2>1, <2>2
<1> HIDE DEF s3
<1>10. CheckHMCResp(s3, b, resp) \in Good(hm, Hand(resp, b + 1))
  <2>1. b \in Int /\ -1 \notin Blocks /\ \A a \in Blocks : BankOf(a) \in Int
    BY CacheSizes, BlockLaws DEF Bank
  <2>2. CASE resp # -1 /\ BankOf(resp) = b
    <3>1. hand = resp /\ Hand(resp, b + 1) = -1 /\ resp \in Blocks
      BY <2>1, <2>2 DEF Hand, hand
    <3> QED BY <1>9, <2>2, <3>1, FillKeeps
  <2>3. CASE resp = -1 \/ BankOf(resp) # b
    <3>1. hand = Hand(resp, b + 1)
      BY <2>1, <2>3 DEF Hand, hand
    <3>2. CheckHMCResp(s3, b, resp) = s3
      BY <1>9, <2>3, NotMine
    <3> QED BY <1>9, <3>1, <3>2
  <2> QED BY <2>2, <2>3
<1> QED BY <1>1, <1>10, ProcessKeeps
-----------------------------------------------------------------------------
(* The requests of the client.                                             *)
(***************************************************************************)

\* A request has got its id.
Begun(s, r) ==
  /\ r \in Caches /\ r.next_req_id = s.next_req_id + 1
  /\ r.banks = s.banks /\ r.req = s.req /\ r.refused = s.refused
  /\ r.completed = s.completed /\ r.hung = s.hung /\ r.retired = s.retired

Begins(s, r, op) ==
  r = [s EXCEPT !.pending = Insert(@, s.next_req_id, op), !.next_req_id = @ + 1]

\* What a new request changes.
LEMMA BeginLaws ==
  ASSUME NEW s \in Caches, s.next_req_id < MaxRequests, NEW op \in {"READ", "WRITE"},
         NEW p, Begins(s, p, op)
  PROVE  s.next_req_id \in ReqId /\ Begun(s, p)
<1> DEFINE n == s.next_req_id
           P == Insert(s.pending, n, op)
           m == n + 1
           r == [[s EXCEPT !.pending = P] EXCEPT !.next_req_id = m]
<1>1. n \in ReqId /\ m \in 0 .. MaxRequests /\ n \in Nat
  BY CacheSizes DEF Caches, ReqId
<1>2. P \in Pendings
  BY <1>1, TableLaws DEF Caches
<1> HIDE DEF P, m
<1>3. Begun(s, r)
  <2>1. r \in Caches
    BY <1>1, <1>2 DEF Caches
  <2>2. /\ r.banks = s.banks /\ r.req = s.req /\ r.refused = s.refused
        /\ r.completed = s.completed /\ r.hung = s.hung /\ r.retired = s.retired
        /\ r.next_req_id = m
    BY DEF Caches
  <2> HIDE DEF r
  <2> QED BY <2>1, <2>2 DEF Begun, m
<1>4. p = r
  BY DEF P, m, Begins
<1> HIDE DEF r
<1> QED BY <1>1, <1>3, <1>4

\* Nothing else has changed: the request is dropped.
LEMMA DropKeeps ==
  ASSUME NEW hm, NEW hand, NEW s \in Good(hm, hand), NEW r, Begun(s, r)
  PROVE  r \in Good(hm, hand)
<1>1. /\ s \in Caches /\ ~s.hung /\ IdsGood(s) /\ FillsGood(s, hm, hand)
      /\ \A x \in Bank : BankGood(s.banks[x], x, Alive(s, x))
      /\ \A x \in s.retired : x \in DOMAIN TableOf(s, x)
      /\ \A tran \in ToSet(s.req) \cup s.refused : tran.data = tran.adrs
  BY DEF Good, Structure
<1>2. /\ \A x \in Bank : Alive(r, x) = Alive(s, x)
      /\ \A a \in Blocks : /\ TableOf(r, a) = TableOf(s, a) /\ StateOf(r, a) = StateOf(s, a)
                          /\ IdsOf(r, a) = IdsOf(s, a)
  BY Unmoved DEF SameTables, Begun
<1>3. \A x \in Bank : BankGood(r.banks[x], x, Alive(r, x))
  BY <1>1, <1>2 DEF Begun
<1>4. \A x \in r.retired : x \in DOMAIN TableOf(r, x)
  BY <1>1 DEF TableOf, Begun
<1>5. IdsGood(r)
  <2>1. /\ s.completed \cup returned \subseteq 0 .. s.next_req_id - 1
        /\ s.completed \cap returned = {}
        /\ \A a \in Blocks : IdsOf(s, a) \subseteq 0 .. s.next_req_id - 1
        /\ s.next_req_id \in Nat
    BY <1>1 DEF IdsGood, Caches
  <2>2. 0 .. s.next_req_id - 1 \subseteq 0 .. r.next_req_id - 1
    BY <2>1 DEF Begun
  <2> QED BY <1>1, <1>2, <2>1, <2>2 DEF IdsGood, Begun
<1>6. FillsGood(r, hm, hand)
  BY <1>1, <1>2 DEF FillsGood, Fills, Begun
<1> QED BY <1>1, <1>3, <1>4, <1>5, <1>6 DEF Good, Structure, Begun

\* The table of its bank has got an entry for block a with the new request.
Joins(s, r, b, a, e) ==
  /\ Entered(s, r, b, a, e) /\ r \in Caches
  /\ r.next_req_id = s.next_req_id + 1
  /\ r.req = s.req /\ r.refused = s.refused
  /\ r.completed = s.completed /\ r.hung = s.hung /\ r.retired = s.retired
  /\ ToSet(e.req_ids) \subseteq IdsOf(s, a) \cup {s.next_req_id}
  /\ a \notin s.retired =>
       \/ StateOf(s, a) \in Waiting /\ e.state = StateOf(s, a)
       \/ StateOf(s, a) \in Accessing \cup Checking /\ e.state = StateOf(s, a)
       \/ StateOf(s, a) = "NONE" /\ e.state = "INVALID__CACHE_CHECK"

\* A request that joins the entry of its block keeps the invariant, if the bank is good.
LEMMA JoinsKeep ==
  ASSUME NEW hm, NEW hand, NEW s \in Good(hm, hand), NEW r, NEW b, NEW a, NEW e,
         Joins(s, r, b, a, e), BankGood(r.banks[b], b, Alive(r, b))
  PROVE  r \in Good(hm, hand)
<1>1. /\ s \in Caches /\ ~s.hung /\ IdsGood(s) /\ FillsGood(s, hm, hand)
      /\ \A tran \in ToSet(s.req) \cup s.refused : tran.data = tran.adrs
  BY DEF Good, Structure
<1>2. Entered(s, r, b, a, e) /\ a \in Blocks /\ b = BankOf(a) /\ r.retired = s.retired
  BY DEF Joins, Entered
<1>3. /\ Around(s, r, b, a)
      /\ \A x \in Blocks \ {a} : StateOf(r, x) = StateOf(s, x) /\ IdsOf(r, x) = IdsOf(s, x)
      /\ StateOf(r, a) = IF a \in r.retired THEN "RETIRED" ELSE e.state
      /\ IdsOf(r, a) = ToSet(e.req_ids)
  BY ONLY <1>2, TableStep
<1>4. a \in s.retired => StateOf(s, a) = "RETIRED"
  <2>1. a \in s.retired => a \in DOMAIN TableOf(s, a)
    BY DEF Good, Structure
  <2> QED BY <2>1 DEF StateOf
<1>5. StateOf(s, a) = "NONE" => IdsOf(s, a) = {}
  <2> SUFFICES ASSUME a \in DOMAIN TableOf(s, a), StateOf(s, a) = "NONE" PROVE FALSE
    BY DEF IdsOf
  <2>1. CASE a \in s.retired
    BY <1>4, <2>1
  <2>2. CASE a \notin s.retired
    <3>1. b \in Bank
      BY <1>2, BlockLaws
    <3>2. a \in Alive(s, b)
      BY <1>2, <2>2 DEF Alive, TableOf
    <3>3. StateOf(s, a) \in {"INVALID__LINEFILL_REQ_SENT"} \cup Checking \cup Accessing
      BY <3>1, <3>2, AliveLaws DEF BankGood
    <3> QED BY <3>3 DEF Checking, Accessing
  <2> QED BY <2>1, <2>2
<1>6. IdsGood(r)
  <2>1. StateOf(r, a) \in Waiting => StateOf(s, a) \in Waiting \/ IdsOf(s, a) = {}
    BY <1>2, <1>3, <1>5 DEF Joins, Waiting
  <2>2. IdsOf(r, a) \subseteq IdsOf(s, a) \cup {s.next_req_id}
    BY <1>3 DEF Joins
  <2>3. r.next_req_id = s.next_req_id + 1 /\ r.completed = s.completed
    BY DEF Joins
  <2> QED BY ONLY <1>1, <1>2, <1>3, <2>1, <2>2, <2>3, IdsJoin
<1>7. FillsGood(r, hm, hand)
  <2>1. \A x \in Blocks : Fills(r, hm, hand, x) = Fills(s, hm, hand, x)
    BY DEF Fills, Joins
  <2>2. StateOf(r, a) = "INVALID__LINEFILL_REQ_SENT" <=> StateOf(s, a) = "INVALID__LINEFILL_REQ_SENT"
    BY <1>2, <1>3, <1>4 DEF Joins
  <2> QED BY <1>1, <1>2, <1>3, <2>1, <2>2 DEF FillsGood
<1>8. ~r.hung /\ r \in Caches /\ \A tran \in ToSet(r.req) \cup r.refused : tran.data = tran.adrs
  BY <1>1 DEF Joins
<1> QED BY <1>2, <1>3, <1>6, <1>7, <1>8, Reassembled

\* The entry of block a, with the new request.
LEMMA JoinKeeps ==
  ASSUME NEW hm, NEW hand, NEW s \in Good(hm, hand), NEW s1, Begun(s, s1),
         NEW b \in Bank, NEW k, k = s.banks[b], NEW a \in DOMAIN k.table, NEW e \in Table,
         e.way = k.table[a].way,
         ToSet(e.req_ids) \subseteq ToSet(k.table[a].req_ids) \cup {s.next_req_id},
         a \notin s.retired => e.state = k.table[a].state
  PROVE  PutEntry(s1, b, a, e) \in Good(hm, hand)
<1> DEFINE L == Alive(s, b)
           T == Put(k.table, a, e)
           k2 == [k EXCEPT !.table = T]
           r == [s1 EXCEPT !.banks[b].table = T]
<1>1. s \in Caches /\ ~s.hung /\ k \in Banks /\ BankGood(k, b, L) /\ IdsGood(s)
  BY AliveLaws
<1>2. k.table \in Tables /\ k.data_access_q \in Seq(Blocks)
  BY <1>1, BankTypes
<1>3. a \in Blocks /\ BankOf(a) = b /\ IdsOf(s, a) = ToSet(k.table[a].req_ids)
  <2>1. a \in Blocks /\ BankOf(a) = b
    BY <1>1, <1>2, TableLaws DEF BankGood
  <2> QED BY <2>1 DEF IdsOf, TableOf
<1>4. /\ T \in Tables /\ DOMAIN T = DOMAIN k.table /\ T[a] = e
      /\ \A x \in DOMAIN k.table : x # a => T[x] = k.table[x]
  BY <1>2, PutInTable
<1>5. s1 \in Caches /\ s1.banks[b] = k
  BY DEF Begun
<1>6. PutEntry(s1, b, a, e) = r
  BY <1>5 DEF PutEntry
<1>7. T = Put(k.table, a, e)
  OBVIOUS
<1> HIDE DEF T
<1>8. Sets(s1, r, b, k2)
  BY <1>4, <1>5, SetField
<1> HIDE DEF r, k2
<1>9. /\ k2.table = T /\ k2.tag_check_q = k.tag_check_q /\ k2.data_access_q = k.data_access_q
      /\ k2.evict_q = k.evict_q /\ k2.tags = k.tags /\ k2.data = k.data
      /\ k2.tag_delay = k.tag_delay /\ k2.data_delay = k.data_delay
  BY <1>1 DEF k2, Banks
<1>10. /\ r \in Caches /\ r.banks[b] = k2 /\ r.req = s.req /\ r.refused = s.refused
       /\ \A x \in Bank \ {b} : r.banks[x] = s.banks[x]
       /\ r.next_req_id = s.next_req_id + 1 /\ r.completed = s.completed /\ r.hung = s.hung
       /\ r.retired = s.retired
  BY <1>8 DEF Begun, Sets, OnlyBank, Quiet
<1>11. Joins(s, r, b, a, e)
  <2>1. Entered(s, r, b, a, e)
    BY <1>3, <1>7, <1>9, <1>10 DEF Entered
  <2>2. ASSUME a \notin s.retired
        PROVE  /\ StateOf(s, a) \in Waiting \/ StateOf(s, a) \in Accessing \cup Checking
               /\ e.state = StateOf(s, a)
    <3>1. a \in L
      BY <2>2 DEF Alive
    <3>2. StateOf(s, a) = k.table[a].state
      BY <3>1, AliveLaws
    <3> QED BY <1>1, <2>2, <3>1, <3>2 DEF BankGood, Waiting
  <2> QED BY <1>3, <1>10, <2>1, <2>2 DEF Joins
<1>12. Alive(r, b) = L
  BY <1>4, <1>9, <1>10, Zenon DEF Alive
<1>13. BankGood(k2, b, L)
  <2>1. L \subseteq DOMAIN k.table
    BY <1>1 DEF BankGood
  <2>2. \A x \in L : T[x].state = k.table[x].state /\ T[x].way = k.table[x].way
    <3>1. a \in L => a \notin s.retired
      BY DEF Alive
    <3> QED BY <1>4, <2>1, <3>1, Zenon
  <2>3. TagGood(T, L, k.tag_check_q)
    BY <1>1, <2>2 DEF BankGood, TagGood
  <2>4. AccessGood(T, L, k.data_access_q, k.evict_q, k.tags, k.data)
    <3>1. {x \in L : T[x].state \in Accessing} = {x \in L : k.table[x].state \in Accessing}
      BY ONLY <2>2, Zenon
    <3>2. ToSet(k.data_access_q) \subseteq L
      BY ONLY <1>1 DEF BankGood, AccessGood, DataGood
    <3>3. \A x \in ToSet(k.data_access_q) : T[x].way = k.table[x].way /\ T[x].state = k.table[x].state
      BY <2>2, <3>2
    <3>4. AccessGood(k.table, L, k.data_access_q, k.evict_q, k.tags, k.data)
      BY <1>1 DEF BankGood
    <3>5. DOMAIN k.table \subseteq DOMAIN T /\ L \subseteq L /\ (L \ L) \cap DOMAIN k.table = {}
      BY <1>4
    <3> QED BY <1>2, <3>1, <3>3, <3>4, <3>5, FrameAccess
  <2> QED BY <1>1, <1>4, <1>9, <2>1, <2>2, <2>3, <2>4 DEF BankGood
<1> QED BY <1>6, <1>10, <1>11, <1>12, <1>13, JoinsKeep

\* A new entry: its tag is to be checked.
LEMMA NewKeeps ==
  ASSUME NEW hm, NEW hand, NEW s \in Good(hm, hand), NEW s1, Begun(s, s1),
         NEW b \in Bank, NEW k, k = s.banks[b], NEW a \in Blocks, BankOf(a) = b,
         a \notin DOMAIN k.table, NEW id \in ReqId, id = s.next_req_id,
         NEW reads \in BOOLEAN
  PROVE  PushTag([PutEntry(s1, b, a, NewEntry(<<id>>, reads)) EXCEPT !.retired = @ \ {a}], b, a)
           \in Good(hm, hand)
<1> DEFINE L == Alive(s, b)
           e == NewEntry(<<id>>, reads)
           T == Put(k.table, a, e)
           q == Append(k.tag_check_q, a)
           k2 == [k EXCEPT !.table = T]
           k3 == [k2 EXCEPT !.tag_check_q = q]
           r2 == [s1 EXCEPT !.banks[b].table = T]
           r == [r2 EXCEPT !.banks[b].tag_check_q = q]
<1>1. s \in Caches /\ ~s.hung /\ k \in Banks /\ BankGood(k, b, L) /\ IdsGood(s)
  BY AliveLaws
<1>2. /\ k.table \in Tables /\ k.data_access_q \in Seq(Blocks) /\ k.tag_check_q \in Seq(Blocks)
  BY <1>1, BankTypes
<1>3. a \notin s.retired /\ a \notin L /\ StateOf(s, a) = "NONE" /\ IdsOf(s, a) = {}
  <2>1. TableOf(s, a) = k.table
    BY DEF TableOf
  <2>2. a \notin s.retired
    BY <2>1 DEF Good, Structure
  <2> QED BY <2>1, <2>2 DEF Alive, StateOf, IdsOf
<1>4. /\ e \in Table /\ e.state = "INVALID__CACHE_CHECK" /\ e.req_ids = <<id>>
  <2>1. 0 \in Way /\ <<id>> \in Seq(ReqId)
    BY CacheSizes DEF Way
  <2>2. NewEntry(<<id>>, TRUE) \in Table /\ NewEntry(<<id>>, FALSE) \in Table
    BY <2>1 DEF Table, NewEntry, block_state
  <2>3. e \in Table
    <3>1. CASE reads = TRUE
      BY <2>2, <3>1
    <3>2. CASE reads = FALSE
      BY <2>2, <3>2
    <3> QED BY <3>1, <3>2
  <2> QED BY <2>3 DEF NewEntry
<1> HIDE DEF e
<1>5. T \in Tables /\ DOMAIN T = DOMAIN k.table \cup {a} /\ T[a] = e
      /\ \A x \in DOMAIN k.table : T[x] = k.table[x]
  <2>1. T \in Tables
    BY <1>2, <1>4, TableLaws
  <2> QED BY <2>1 DEF Put
<1>6. T = Put(k.table, a, e)
  OBVIOUS
<1> HIDE DEF T
<1>7. a \notin ToSet(k.tag_check_q) /\ L \subseteq DOMAIN k.table
  BY <1>1, <1>3 DEF BankGood, TagGood
<1>8. q \in Seq(Blocks) /\ ToSet(q) = ToSet(k.tag_check_q) \cup {a} /\ q # <<>>
      /\ (IsInjective(k.tag_check_q) => IsInjective(q))
  <2>1. q # <<>>
    BY <1>2
  <2> QED BY <1>2, <1>7, <2>1, AppendOnce
<1>9. s1 \in Caches /\ s1.banks[b] = k /\ s1.retired = s.retired
  BY DEF Begun
<1>10. Sets(s1, r2, b, k2)
  BY <1>5, <1>9, SetField
<1>11. PutEntry(s1, b, a, e) = r2
  BY <1>6, <1>9 DEF PutEntry
<1> HIDE DEF r2, k2
<1>12. r2 \in Caches /\ r2.banks[b] = k2 /\ r2.retired = s.retired /\ k2.tag_check_q = k.tag_check_q
  BY <1>1, <1>9, <1>10 DEF Sets, OnlyBank, Quiet, k2, Banks
<1>13. [r2 EXCEPT !.retired = @ \ {a}] = r2
  <2>1. r2.retired \ {a} = r2.retired
    BY <1>3, <1>12
  <2> QED BY <1>12, <2>1 DEF Caches
<1>14. PushTag([PutEntry(s1, b, a, e) EXCEPT !.retired = @ \ {a}], b, a) = r
  BY <1>11, <1>12, <1>13 DEF PushTag
<1>15. Sets(r2, r, b, k3)
  <2> HIDE DEF q
  <2> QED BY <1>8, <1>12, SetField
<1> HIDE DEF r, k3, q
<1>16. /\ k3.table = T /\ k3.tag_check_q = q /\ k3.data_access_q = k.data_access_q
       /\ k3.evict_q = k.evict_q /\ k3.tags = k.tags /\ k3.data = k.data
       /\ k3.tag_delay = k.tag_delay /\ k3.data_delay = k.data_delay
  BY <1>1 DEF k2, k3, Banks
<1>17. /\ r \in Caches /\ r.banks[b] = k3 /\ r.req = s.req /\ r.refused = s.refused
       /\ \A x \in Bank \ {b} : r.banks[x] = s.banks[x]
       /\ r.next_req_id = s.next_req_id + 1 /\ r.completed = s.completed /\ r.hung = s.hung
       /\ r.retired = s.retired
  BY <1>10, <1>15 DEF Begun, Sets, OnlyBank, Quiet
<1>18. Joins(s, r, b, a, e)
  <2>1. Entered(s, r, b, a, e)
    BY <1>6, <1>16, <1>17 DEF Entered
  <2>2. ToSet(e.req_ids) \subseteq {id}
    BY <1>4 DEF ToSet
  <2> QED BY <1>3, <1>4, <1>17, <2>1, <2>2 DEF Joins
<1>19. Alive(r, b) = L \cup {a}
  BY <1>3, <1>5, <1>16, <1>17 DEF Alive
<1>20. BankGood(k3, b, L \cup {a})
  <2>1. \A x \in L : T[x] = k.table[x]
    BY ONLY <1>5, <1>7
  <2>2. T[a].state \in Checking /\ T[a].state \notin Accessing
    BY ONLY <1>4, <1>5, Zenon DEF Checking, Accessing
  <2>3. TagGood(T, L \cup {a}, q)
    <3>1. {x \in L \cup {a} : T[x].state \in Checking} = {x \in L : k.table[x].state \in Checking} \cup {a}
      BY <2>1, <2>2
    <3> QED BY <1>1, <1>8, <3>1 DEF TagGood, BankGood
  <2>4. AccessGood(T, L \cup {a}, k.data_access_q, k.evict_q, k.tags, k.data)
    <3>1. {x \in L \cup {a} : T[x].state \in Accessing} = {x \in L : k.table[x].state \in Accessing}
      BY ONLY <2>1, <2>2, Zenon
    <3>2. ToSet(k.data_access_q) \subseteq L
      BY <1>1 DEF BankGood, AccessGood, DataGood
    <3>3. \A x \in ToSet(k.data_access_q) : T[x].way = k.table[x].way /\ T[x].state = k.table[x].state
      BY <2>1, <3>2
    <3>4. AccessGood(k.table, L, k.data_access_q, k.evict_q, k.tags, k.data)
      BY <1>1 DEF BankGood
    <3>5. /\ DOMAIN k.table \subseteq DOMAIN T /\ L \subseteq L \cup {a}
          /\ ((L \cup {a}) \ L) \cap DOMAIN k.table = {}
      BY <1>5
    <3> QED BY <1>2, <3>1, <3>3, <3>4, <3>5, FrameAccess
  <2>5. \A x \in L \cup {a} : T[x].state \in {"INVALID__LINEFILL_REQ_SENT"} \cup Checking \cup Accessing
    <3>1. \A x \in L : k.table[x].state \in {"INVALID__LINEFILL_REQ_SENT"} \cup Checking \cup Accessing
      BY <1>1 DEF BankGood
    <3> QED BY <2>1, <2>2, <3>1
  <2>6. Timed(k.tag_delay, q) /\ Timed(k.data_delay, k.data_access_q)
    BY <1>1, <1>8 DEF Timed, BankGood
  <2>7. \A x \in DOMAIN T : BankOf(x) = b
    BY <1>1, <1>5 DEF BankGood
  <2>8. L \cup {a} \subseteq DOMAIN T
    BY <1>5, <1>7
  <2> QED BY <1>16, <2>3, <2>4, <2>5, <2>6, <2>7, <2>8 DEF BankGood
<1>21. r \in Good(hm, hand)
  BY <1>17, <1>18, <1>19, <1>20, JoinsKeep
<1> QED BY <1>14, <1>21 DEF e

\* A request of the client makes s become p.
Asked(s, p, op, adrs) ==
  LET id == s.next_req_id
      b == BankOf(adrs)
      a == BlockAddr(adrs)
      s1 == [s EXCEPT !.pending = Insert(@, id, op), !.next_req_id = @ + 1]
      t == Registered(s1, b, op, a, id)
  IN  p = ProcessRequest(IF a \notin DOMAIN s.banks[b].table THEN PushTag(t, b, a) ELSE t, b)

\* read and write: the request is registered, and its block goes to the tag check
\* if it is new.
LEMMA RequestKeeps ==
  ASSUME NEW hm, NEW hand, NEW s \in Good(hm, hand), s.next_req_id < MaxRequests,
         NEW op \in {"READ", "WRITE"}, NEW adrs \in Addresses, NEW p, Asked(s, p, op, adrs)
  PROVE  p \in Good(hm, hand)
<1> DEFINE id == s.next_req_id
           b == BankOf(adrs)
           a == BlockAddr(adrs)
           k == s.banks[b]
           s1 == [s EXCEPT !.pending = Insert(@, id, op), !.next_req_id = @ + 1]
           t == Registered(s1, b, op, a, id)
           old == k.table[a]
           joined == [old EXCEPT !.req_ids = Append(old.req_ids, id)]
<1>1. b \in Bank /\ a \in Blocks /\ BankOf(a) = b
  BY BlockLaws
<1>2. id \in ReqId /\ Begun(s, s1)
  <2>1. s \in Caches
    BY DEF Good
  <2>2. Begins(s, s1, op)
    BY DEF Begins
  <2> QED BY ONLY <2>1, <2>2, s.next_req_id < MaxRequests, op \in {"READ", "WRITE"}, BeginLaws
<1>3. k \in Banks /\ BankGood(k, b, Alive(s, b)) /\ k.table \in Tables
  BY <1>1, AliveLaws, BankTypes
<1> HIDE DEF s1
<1>4. s1.banks[b] = k
  BY <1>2 DEF Begun
<1> HIDE DEF id, b, a
<1>5. CASE a \notin DOMAIN k.table
  <2> DEFINE reads == (op = "READ")
  <2>1. t = [PutEntry(s1, b, a, NewEntry(<<id>>, reads)) EXCEPT !.retired = @ \ {a}]
    BY <1>4, <1>5 DEF Registered
  <2>2. reads \in BOOLEAN /\ id = s.next_req_id
    BY DEF id
  <2> HIDE DEF reads, t
  <2>3. PushTag(t, b, a) \in Good(hm, hand)
    BY <1>1, <1>2, <1>5, <2>1, <2>2, NewKeeps
  <2>4. ProcessRequest(PushTag(t, b, a), b) \in Good(hm, hand)
    BY <1>1, <2>3, ProcessKeeps
  <2>5. p = ProcessRequest(PushTag(t, b, a), b)
    BY <1>5 DEF Asked, t, s1, id, a, b
  <2> QED BY <2>4, <2>5
<1>6. CASE a \in DOMAIN k.table
  <2>1. old \in Table /\ old.req_ids \in Seq(ReqId)
    BY <1>3, <1>6, TableLaws DEF Table
  <2>2. /\ Append(old.req_ids, id) \in Seq(ReqId)
        /\ ToSet(Append(old.req_ids, id)) = ToSet(old.req_ids) \cup {id}
    BY ONLY <1>2, <2>1, AppendOnce
  <2>3. /\ joined \in Table /\ joined.way = old.way /\ joined.state = old.state
        /\ joined.req_ids = Append(old.req_ids, id)
    BY <2>1, <2>2 DEF Table
  <2>4. Entry(s1, b, a) = old
    BY <1>4, <1>6 DEF Entry
  <2>5. a \notin s.retired => old.state \in {"INVALID__LINEFILL_REQ_SENT"} \cup Checking \cup Accessing
    BY <1>3, <1>6 DEF BankGood, Alive
  <2> DEFINE e1 == [joined EXCEPT !.all_reads = FALSE]
             e2 == [e1 EXCEPT !.state = "INVALID__RD_REQ_SENT_TO_CACHE_NEW_WR"]
  <2>6. /\ e2 \in Table /\ e2.way = old.way /\ e2.req_ids = Append(old.req_ids, id)
    <3> HIDE DEF joined
    <3>1. e1 \in Table /\ e1.way = old.way /\ e1.req_ids = Append(old.req_ids, id)
      BY <2>3 DEF Table
    <3> HIDE DEF e1
    <3> QED BY ONLY <3>1, Zenon DEF Table, block_state, HitState
  <2>7. t \in {s1, PutEntry(s1, b, a, joined)}
           \cup (IF old.state = "INVALID__RD_REQ_SENT_TO_CACHE" THEN {PutEntry(s1, b, a, e2)} ELSE {})
    <3>1. ASSUME old.state \in ValidState PROVE t = s1
      BY <1>4, <1>6, <2>4, <3>1 DEF Registered, ValidState
    <3>2. ASSUME old.state \notin ValidState, op = "WRITE", old.state = "INVALID__RD_REQ_SENT_TO_CACHE"
          PROVE  t = PutEntry(s1, b, a, e2)
      BY ONLY <1>4, <1>6, <2>4, <3>2, Zenon DEF Registered
    <3>3. ASSUME old.state \notin ValidState, ~(op = "WRITE" /\ old.state = "INVALID__RD_REQ_SENT_TO_CACHE")
          PROVE  t = PutEntry(s1, b, a, joined)
      BY <1>4, <1>6, <2>4, <3>3 DEF Registered
    <3> HIDE DEF t, e2, joined, old
    <3> QED BY ONLY <3>1, <3>2, <3>3
  <2> HIDE DEF t, e1, e2, joined
  <2>8. PutEntry(s1, b, a, joined) \in Good(hm, hand)
    <3>1. joined.way = k.table[a].way /\ (a \notin s.retired => joined.state = k.table[a].state)
          /\ ToSet(joined.req_ids) \subseteq ToSet(k.table[a].req_ids) \cup {s.next_req_id}
      BY <2>2, <2>3 DEF id
    <3> QED BY <1>1, <1>2, <1>6, <2>3, <3>1, JoinKeeps
  <2>9. ASSUME old.state = "INVALID__RD_REQ_SENT_TO_CACHE" PROVE PutEntry(s1, b, a, e2) \in Good(hm, hand)
    <3>1. a \in s.retired
      BY <2>5, <2>9 DEF Checking, Accessing
    <3>2. e2.way = k.table[a].way
          /\ ToSet(e2.req_ids) \subseteq ToSet(k.table[a].req_ids) \cup {s.next_req_id}
      BY <2>2, <2>6 DEF id
    <3> QED BY ONLY <1>1, <1>2, <1>6, <2>6, <3>1, <3>2, JoinKeeps
  <2>10. s1 \in Good(hm, hand)
    BY <1>2, DropKeeps
  <2>11. ProcessRequest(t, b) \in Good(hm, hand)
    <3>1. t \in Good(hm, hand)
      BY <2>7, <2>8, <2>9, <2>10
    <3> QED BY <1>1, <3>1, ProcessKeeps
  <2>12. p = ProcessRequest(t, b)
    BY <1>6 DEF Asked, t, s1, id, a, b
  <2> QED BY <2>11, <2>12
<1> QED BY <1>5, <1>6
-----------------------------------------------------------------------------
(* The memory, and the loop over the banks.                                *)
(***************************************************************************)

\* A line comes back.
LEMMA AnswerKeeps ==
  ASSUME NEW hm \in Seq(Blocks), NEW i \in DOMAIN hm, NEW s \in Good(hm, -1)
  PROVE  /\ hm[i] \in Blocks /\ RemoveAt(hm, i) \in Seq(Blocks)
         /\ s \in Good(RemoveAt(hm, i), hm[i])
<1>1. hm[i] \in Blocks /\ RemoveAt(hm, i) \in Seq(Blocks)
  BY RemoveAtLaws
<1>2. ASSUME NEW x \in Blocks PROVE Fills(s, RemoveAt(hm, i), hm[i], x) = Fills(s, hm, -1, x)
  <2>1. Occurrences(hm, x) = Occurrences(RemoveAt(hm, i), x) + (IF hm[i] = x THEN 1 ELSE 0)
    BY OccurrencesRemoveAt
  <2>2. Occurrences(RemoveAt(hm, i), x) \in Nat
    BY <1>1, OccurrencesType
  <2>3. Occurrences(s.req, ReadOf(x)) \in Nat
    BY OccurrencesType DEF Good, Caches, Buffers
  <2>4. x # -1
    BY BlockLaws
  <2> HIDE DEF Occurrences
  <2> QED BY <2>1, <2>2, <2>3, <2>4 DEF Fills
<1> QED BY <1>1, <1>2 DEF Good, Structure, FillsGood

\* The first transaction of the request buffer leaves it.
LEMMA SendKeeps ==
  ASSUME NEW hm \in Seq(Blocks), NEW hand, NEW s \in Good(hm, hand), s.req # <<>>
  PROVE  LET sent == IF Head(s.req).op = "READ" THEN <<Head(s.req).adrs>> ELSE <<>>
         IN  /\ hm \o sent \in Seq(Blocks)
             /\ [s EXCEPT !.req = Tail(@)] \in Good(hm \o sent, hand)
<1> DEFINE h == Head(s.req)
           sent == IF h.op = "READ" THEN <<h.adrs>> ELSE <<>>
           q == Tail(s.req)
           r == [s EXCEPT !.req = q]
<1>1. s \in Caches /\ s.req \in Seq(Tran) /\ Len(s.req) \in Nat /\ Len(s.req) <= MAX_REQ_BUF
  BY DEF Good, Caches, Buffers
<1>2. h \in Tran /\ q \in Seq(Tran) /\ ToSet(s.req) = ToSet(q) \cup {h} /\ Len(q) = Len(s.req) - 1
  BY <1>1, TailOnce
<1>15. q \in Buffers
  BY <1>1, <1>2, CacheSizes DEF Buffers
<1>3. h.data = h.adrs /\ h.adrs \in Blocks /\ h.op \in {"READ", "WRITE"}
      /\ h = [op |-> h.op, adrs |-> h.adrs, data |-> h.data]
  BY <1>2 DEF Good, Structure, Tran
<1>4. hm \o sent = IF h.op = "READ" THEN Append(hm, h.adrs) ELSE hm
  OBVIOUS
<1>5. hm \o sent \in Seq(Blocks)
  BY <1>3
<1>6. \A x \in Blocks : Occurrences(hm \o sent, x) = Occurrences(hm, x) + (IF h = ReadOf(x) THEN 1 ELSE 0)
  <2> SUFFICES ASSUME NEW x \in Blocks
               PROVE  Occurrences(hm \o sent, x) = Occurrences(hm, x) + (IF h = ReadOf(x) THEN 1 ELSE 0)
    OBVIOUS
  <2>1. Occurrences(Append(hm, h.adrs), x) = Occurrences(hm, x) + (IF h.adrs = x THEN 1 ELSE 0)
    BY <1>3, OccurrencesAppend
  <2>2. h = ReadOf(x) <=> h.op = "READ" /\ h.adrs = x
    BY <1>3 DEF ReadOf
  <2>3. Occurrences(hm, x) \in Nat
    BY OccurrencesType
  <2> HIDE DEF h, sent
  <2>4. CASE h.op = "READ"
    BY <1>4, <2>1, <2>2, <2>4
  <2>5. CASE h.op # "READ"
    BY <1>4, <2>2, <2>3, <2>5
  <2> QED BY <2>4, <2>5
<1> HIDE DEF q
<1>7. /\ r \in Caches /\ r.req = q /\ r.banks = s.banks /\ r.refused = s.refused /\ r.hung = s.hung
      /\ r.retired = s.retired /\ r.completed = s.completed /\ r.next_req_id = s.next_req_id
  BY <1>1, <1>15 DEF Caches
<1> HIDE DEF r
<1>8. /\ \A x \in Bank : Alive(r, x) = Alive(s, x)
      /\ \A a \in Blocks : /\ TableOf(r, a) = TableOf(s, a) /\ StateOf(r, a) = StateOf(s, a)
                          /\ IdsOf(r, a) = IdsOf(s, a)
  BY <1>7, Unmoved DEF SameTables
<1>9. /\ ~s.hung /\ IdsGood(s) /\ FillsGood(s, hm, hand)
      /\ \A x \in Bank : BankGood(s.banks[x], x, Alive(s, x))
      /\ \A x \in s.retired : x \in DOMAIN TableOf(s, x)
      /\ \A tran \in ToSet(s.req) \cup s.refused : tran.data = tran.adrs
  BY DEF Good, Structure
<1>10. FillsGood(r, hm \o sent, hand)
  <2>1. ASSUME NEW x \in Blocks PROVE Fills(r, hm \o sent, hand, x) = Fills(s, hm, hand, x)
    <3>1. Occurrences(s.req, ReadOf(x)) = Occurrences(q, ReadOf(x)) + (IF h = ReadOf(x) THEN 1 ELSE 0)
      BY <1>1, OccurrencesTail DEF q
    <3>2. Occurrences(hm \o sent, x) = Occurrences(hm, x) + (IF h = ReadOf(x) THEN 1 ELSE 0)
      BY <1>6
    <3>3. Occurrences(hm, x) \in Nat /\ Occurrences(q, ReadOf(x)) \in Nat
      BY <1>2, OccurrencesType
    <3> HIDE DEF h, sent
    <3> QED BY <1>7, <3>1, <3>2, <3>3 DEF Fills
  <2> QED BY <1>8, <1>9, <2>1 DEF FillsGood
<1>11. \A x \in Bank : BankGood(r.banks[x], x, Alive(r, x))
  BY <1>7, <1>8, <1>9
<1>12. \A x \in r.retired : x \in DOMAIN TableOf(r, x)
  BY <1>7, <1>9 DEF TableOf
<1>13. IdsGood(r)
  BY <1>7, <1>8, <1>9 DEF IdsGood
<1>14. r \in Good(hm \o sent, hand)
  <2>1. \A tran \in ToSet(r.req) \cup r.refused : tran.data = tran.adrs
    BY <1>2, <1>7, <1>9
  <2> HIDE DEF sent
  <2> QED BY <1>7, <1>9, <1>10, <1>11, <1>12, <1>13, <2>1 DEF Good, Structure
<1> QED BY <1>5, <1>14 DEF r, q

\* The banks are updated one after the other.
LEMMA BanksKeep ==
  ASSUME NEW hm \in Seq(Blocks), NEW resp \in Blocks \cup {-1}, NEW s \in Good(hm, resp),
         NEW garbage \in Garbage
  PROVE  UpdateBanks(s, resp, garbage) \in Good(hm, -1)
<1> DEFINE p == <<resp, garbage>>
           A == [i \in 0 .. NUM_BANKS |-> Good(hm, Hand(resp, i))]
<1>1. NUM_BANKS \in Nat \ {0} /\ \A x \in Blocks : BankOf(x) \in 0 .. NUM_BANKS - 1
  BY CacheSizes, BlockLaws DEF Bank
<1>2. Hand(resp, 0) = resp /\ Hand(resp, NUM_BANKS) = -1
  BY <1>1 DEF Hand
<1>3. s \in A[0] /\ A[NUM_BANKS] = Good(hm, -1)
  BY <1>1, <1>2
<1>4. ASSUME NEW i \in 0 .. NUM_BANKS - 1, NEW x \in A[i]
      PROVE  BankUpdate(x, i, p[1], p[2]) \in A[i + 1]
  <2>1. i \in Bank /\ i \in 0 .. NUM_BANKS /\ i + 1 \in 0 .. NUM_BANKS
    BY <1>1 DEF Bank
  <2>2. x \in Good(hm, Hand(resp, i))
    BY <2>1
  <2>3. BankUpdate(x, i, resp, garbage) \in Good(hm, Hand(resp, i + 1))
    BY <2>1, <2>2, BankKeeps
  <2> QED BY <2>1, <2>3
<1> HIDE DEF A
<1>5. BankLoop!After(p, s, NUM_BANKS) \in A[NUM_BANKS]
  <2> HIDE DEF p
  <2> QED BY <1>1, <1>3, <1>4, BankLoop!LoopRule
<1>6. BankLoop!After(p, s, NUM_BANKS) \in Good(hm, -1)
  BY <1>3, <1>5
<1> QED BY <1>6 DEF UpdateBanks, BankLoop!After, BankLoop!Repeat, Repeat
-----------------------------------------------------------------------------
(* The specification.                                                      *)
(***************************************************************************)

\* A cache that has done nothing meets the invariant.
LEMMA InitHolds == Init => IInv
<1> SUFFICES ASSUME Init PROVE IInv
  OBVIOUS
<1> DEFINE k == [table |-> <<>>, tag_check_q |-> <<>>, data_access_q |-> <<>>,
                 evict_q |-> <<>>, tag_delay |-> Idle, data_delay |-> Idle,
                 tags |-> [r \in Row |-> [w \in Way |-> NoLine]],
                 data |-> [r \in Row |-> [w \in Way |-> 0]]]
           s == [banks |-> [b \in Bank |-> k],
                 next_req_id |-> 0, pending |-> <<>>, completed |-> {}, req |-> <<>>,
                 hung |-> FALSE, retired |-> {}, lost |-> {}, refused |-> {}]
<1>1. c = s /\ hmc = <<>> /\ cycle = 0 /\ returned = {}
  BY DEF Init
<1>2. <<>> \in Tables /\ <<>> \in Pendings
  <2>1. /\ <<>> \in [{} -> Table] /\ {} \in SUBSET Blocks
        /\ <<>> \in [{} -> {"READ", "WRITE"}] /\ {} \in SUBSET Nat
    OBVIOUS
  <2> QED BY <2>1 DEF Tables, Pendings
<1>3. k \in Banks
  <2>1. /\ Idle \in Delay(MISS_TIME) /\ Idle \in Delay(HIT_TIME - MISS_TIME)
        /\ [r \in Row |-> [w \in Way |-> NoLine]] \in [Row -> [Way -> Line]]
        /\ [r \in Row |-> [w \in Way |-> 0]] \in [Row -> [Way -> Blocks \cup {0}]]
        /\ <<>> \in Seq(Blocks)
    BY CacheSizes DEF Idle, Delay, NoLine, Line
  <2> QED BY <1>2, <2>1 DEF Banks
<1>4. s \in Caches
  <2>1. [b \in Bank |-> k] \in [Bank -> Banks] /\ 0 \in 0 .. MaxRequests
    BY <1>3, CacheSizes
  <2> DEFINE B == [b \in Bank |-> k]
  <2>2. B \in [Bank -> Banks] /\ <<>> \in Buffers
    BY <2>1, CacheSizes DEF Buffers
  <2> HIDE DEF B, k
  <2> QED BY <1>2, <2>1, <2>2 DEF Caches, B
<1>5. /\ k.table = <<>> /\ k.tag_check_q = <<>> /\ k.data_access_q = <<>> /\ k.evict_q = <<>>
      /\ k.tag_delay = Idle /\ k.data_delay = Idle
      /\ k.tags = [r \in Row |-> [w \in Way |-> NoLine]]
  OBVIOUS
<1>6. /\ \A b \in Bank : s.banks[b] = k
      /\ s.next_req_id = 0 /\ s.completed = {} /\ s.req = <<>> /\ s.refused = {}
      /\ s.hung = FALSE /\ s.retired = {}
  OBVIOUS
<1> HIDE DEF k, s
<1>7. DOMAIN <<>> = {} /\ ToSet(<<>>) = {}
  BY DEF ToSet
<1>8. \A b \in Bank : BankGood(k, b, {})
  <2>1. TagGood(<<>>, {}, <<>>)
    BY <1>7 DEF TagGood, IsInjective
  <2>2. DataGood(<<>>, {}, <<>>)
    BY <1>7 DEF DataGood
  <2>3. LinesGood(<<>>, {}, <<>>, k.tags, k.data)
    BY <1>5 DEF LinesGood, NoLine
  <2>4. EvictsGood(<<>>, <<>>, <<>>, k.data)
    <3> DEFINE f == [m \in DOMAIN <<>> |-> m]
    <3>1. f \in [DOMAIN <<>> -> DOMAIN <<>>]
      OBVIOUS
    <3>2. \A m : m \notin DOMAIN <<>>
      BY <1>7
    <3> HIDE DEF f
    <3> QED BY <3>1, <3>2 DEF EvictsGood
  <2>5. Timed(Idle, <<>>)
    BY DEF Timed
  <2> QED BY <1>5, <1>7, <2>1, <2>2, <2>3, <2>4, <2>5 DEF BankGood, AccessGood
<1>9. /\ \A b \in Bank : Alive(s, b) = {}
      /\ \A a \in Blocks : StateOf(s, a) = "NONE" /\ IdsOf(s, a) = {}
  BY <1>5, <1>6, <1>7, BlockLaws DEF Alive, StateOf, IdsOf, TableOf
<1>10. IdsGood(s)
  BY <1>1, <1>6, <1>9 DEF IdsGood
<1>11. FillsGood(s, <<>>, -1)
  <2>1. \A a : Occurrences(<<>>, a) = 0
    <3>1. <<>> \in Seq({}) /\ \A a : a \notin ToSet(<<>>)
      BY <1>7
    <3> QED BY <3>1, OccurrencesType
  <2>2. \A a \in Blocks : a # -1
    BY BlockLaws
  <2> QED BY <1>6, <1>9, <2>1, <2>2 DEF FillsGood, Fills
<1>12. Structure(s, <<>>, -1)
  BY <1>6, <1>7, <1>8, <1>9, <1>10, <1>11 DEF Structure
<1> QED BY <1>1, <1>4, <1>12 DEF IInv, Good

\* Each step keeps the invariant.
LEMMA StepKeeps == IInv /\ [Next]_vars => IInv'
<1> SUFFICES ASSUME IInv, [Next]_vars PROVE IInv'
  OBVIOUS
<1>1. /\ c \in Good(hmc, -1) /\ hmc \in Seq(Blocks) /\ cycle \in {0, 1} /\ returned \subseteq ReqId
  BY DEF IInv
<1>2. ASSUME c' \in Good(hmc', -1), hmc' \in Seq(Blocks), cycle' \in {0, 1}, returned' = returned
      PROVE  IInv'
  BY <1>1, <1>2 DEF IInv, Good, Structure, IdsGood
<1>3. ASSUME NEW op \in {"READ", "WRITE"}, NEW a \in Addresses, Request(op, a)
      PROVE  IInv'
  <2>1. c' \in Good(hmc, -1)
    <3>1. Asked(c, c', op, a) /\ c.next_req_id < MaxRequests
      BY <1>3 DEF Request, Asked
    <3> QED BY <1>1, <3>1, RequestKeeps
  <2> QED BY <1>1, <1>2, <1>3, <2>1 DEF Request
<1>4. ASSUME NEW id \in ReqId, Wait(id) PROVE IInv'
  <2> DEFINE C == c.completed \ {id}
             r == [c EXCEPT !.completed = C]
  <2>1. c \in Caches /\ IdsGood(c)
    BY <1>1 DEF Good, Structure
  <2>2. C \subseteq ReqId /\ C \cup (returned \cup {id}) = c.completed \cup returned
    BY <1>4, <2>1 DEF Wait, Caches
  <2> HIDE DEF C
  <2>3. /\ r \in Caches /\ r.banks = c.banks /\ r.req = c.req /\ r.refused = c.refused
        /\ r.hung = c.hung /\ r.retired = c.retired /\ r.next_req_id = c.next_req_id
        /\ r.completed = C
    BY <2>1, <2>2 DEF Caches
  <2>4. c' = r /\ returned' = returned \cup {id} /\ hmc' = hmc /\ cycle' = cycle
    BY <1>4 DEF Wait, C
  <2> HIDE DEF r
  <2>5. /\ \A x \in Bank : Alive(r, x) = Alive(c, x)
        /\ \A a \in Blocks : /\ TableOf(r, a) = TableOf(c, a) /\ StateOf(r, a) = StateOf(c, a)
                            /\ IdsOf(r, a) = IdsOf(c, a)
    BY <2>3, Unmoved DEF SameTables
  <2>6. /\ ~r.hung
        /\ \A b \in Bank : BankGood(r.banks[b], b, Alive(r, b))
        /\ \A a \in r.retired : a \in DOMAIN TableOf(r, a)
        /\ \A tran \in ToSet(r.req) \cup r.refused : tran.data = tran.adrs
        /\ FillsGood(r, hmc, -1)
    BY <1>1, <2>3, <2>5 DEF Good, Structure, FillsGood, Fills, TableOf
  <2>7. /\ r.completed \cup returned' \subseteq 0 .. r.next_req_id - 1
        /\ r.completed \cap returned' = {}
        /\ \A a \in Blocks : IdsOf(r, a) \subseteq 0 .. r.next_req_id - 1
        /\ \A a, x \in Blocks : a # x => IdsOf(r, a) \cap IdsOf(r, x) = {}
        /\ \A a \in Blocks :
             StateOf(r, a) \in {"INVALID__CACHE_CHECK", "INVALID__LINEFILL_REQ_SENT"} =>
               IdsOf(r, a) \cap (r.completed \cup returned') = {}
    <3>1. r.completed \cup returned' = c.completed \cup returned
      BY <2>2, <2>3, <2>4
    <3>2. r.completed \cap returned' = {}
      BY <2>1, <2>3, <2>4 DEF C, IdsGood
    <3> QED BY <2>1, <2>3, <2>5, <3>1, <3>2 DEF IdsGood
  <2>8. returned' \subseteq ReqId
    BY <1>1, <2>4
  <2> QED BY <1>1, <2>3, <2>4, <2>6, <2>7, <2>8 DEF IInv, Good, Structure, IdsGood
<1>5. ASSUME NEW sends \in BOOLEAN, NEW i \in 0 .. Len(hmc), Update(sends, i) PROVE IInv'
  <2> DEFINE resp == IF i = 0 THEN -1 ELSE hmc[i]
             hm == IF i = 0 THEN hmc ELSE RemoveAt(hmc, i)
             s == IF sends THEN [c EXCEPT !.req = Tail(@)] ELSE c
  <2>1. resp \in Blocks \cup {-1} /\ hm \in Seq(Blocks) /\ c \in Good(hm, resp)
    <3>1. CASE i = 0
      BY <1>1, <3>1
    <3>2. CASE i # 0
      <4>1. i \in DOMAIN hmc
        BY <1>1, <3>2
      <4> QED BY <1>1, <3>2, <4>1, AnswerKeeps
    <3> QED BY <3>1, <3>2
  <2>2. hmc' \in Seq(Blocks) /\ s \in Good(hmc', resp)
    <3>1. CASE sends
      <4> DEFINE sent == IF Head(c.req).op = "READ" THEN <<Head(c.req).adrs>> ELSE <<>>
      <4>1. hmc' = hm \o sent /\ c.req # <<>>
        BY <1>5, <3>1 DEF Update, MemoryStep
      <4> HIDE DEF hm, resp
      <4>2. hm \o sent \in Seq(Blocks) /\ [c EXCEPT !.req = Tail(@)] \in Good(hm \o sent, resp)
        BY <2>1, <4>1, SendKeeps
      <4> QED BY <3>1, <4>1, <4>2
    <3>2. CASE ~sends
      <4>1. hmc' = hm
        BY <1>5, <2>1, <3>2 DEF Update, MemoryStep
      <4> QED BY <2>1, <3>2, <4>1
    <3> QED BY <3>1, <3>2
  <2>3. PICK garbage \in Garbage : c' = UpdateBanks(s, resp, garbage)
    BY <1>5 DEF Update
  <2> HIDE DEF resp, hm, s
  <2>4. UpdateBanks(s, resp, garbage) \in Good(hmc', -1)
    BY <2>1, <2>2, BanksKeep
  <2>5. cycle' \in {0, 1} /\ returned' = returned
    BY <1>1, <1>5 DEF Update
  <2> QED BY <1>2, <2>2, <2>3, <2>4, <2>5
<1>6. CASE UNCHANGED vars
  BY <1>1, <1>2, <1>6 DEF vars
<1> QED BY <1>3, <1>4, <1>5, <1>6 DEF Next

\* The inductive invariant of the cache: the queues, the tables, the lines, the
\* fills on their way and the requests fit together, before every step.
THEOREM CacheInvariant == Spec => []IInv
<1>1. Init => IInv
  BY InitHolds
<1>2. IInv /\ [Next]_vars => IInv'
  BY StepKeeps
<1> QED BY <1>1, <1>2, PTL DEF Spec

\* Every field has its type, and the request buffer never holds more than it can.
THEOREM CacheTypes == Spec => []TypeOK
<1>1. IInv => TypeOK
  <2> SUFFICES ASSUME IInv PROVE TypeOK
    OBVIOUS
  <2>1. c \in Caches /\ hmc \in Seq(Blocks) /\ cycle \in {0, 1} /\ returned \subseteq ReqId
    BY DEF IInv, Good
  <2>2. ASSUME NEW b \in Bank
        PROVE  LET k == c.banks[b] IN
               /\ DOMAIN k.table \subseteq Blocks
               /\ \A a \in DOMAIN k.table :
                    k.table[a] \in [req_ids : Seq(ReqId), state : block_state \cup Garbage,
                                   all_reads : BOOLEAN, way : Way]
               /\ {k.tag_check_q, k.data_access_q, k.evict_q} \subseteq Seq(Blocks)
               /\ k.tag_delay \in Delay(MISS_TIME) /\ k.data_delay \in Delay(HIT_TIME - MISS_TIME)
               /\ k.tags \in [Row -> [Way -> Line]]
               /\ k.data \in [Row -> [Way -> Blocks \cup {0}]]
    <3>1. c.banks[b] \in Banks
      BY <2>1 DEF Caches
    <3> QED BY <3>1, BankTypes, TableLaws DEF Table
  <2>3. /\ c.next_req_id \in 0 .. MaxRequests /\ c.completed \subseteq ReqId
        /\ c.req \in Seq(Tran) /\ Len(c.req) <= MAX_REQ_BUF
    BY <2>1 DEF Caches, Buffers
  <2> QED BY <2>1, <2>2, <2>3 DEF TypeOK
<1> QED BY <1>1, CacheInvariant, PTL

\* A block that waits for its line has exactly one read on its way, any other none.
THEOREM CacheFills == Spec => []OneFillPerBlock
<1>1. IInv => OneFillPerBlock
  <2> SUFFICES ASSUME IInv, NEW b \in Bank, NEW a \in Blocks, BankOf(a) = b
               PROVE  Occurrences(c.req, ReadOf(a)) + Occurrences(hmc, a)
                        + (IF ReadOf(a) \in c.refused THEN 1 ELSE 0)
                      = IF a \in Live(b) /\ c.banks[b].table[a].state = "INVALID__LINEFILL_REQ_SENT"
                        THEN 1 ELSE 0
    BY DEF OneFillPerBlock, ReadOf
  <2>1. Fills(c, hmc, -1, a) = IF StateOf(c, a) = "INVALID__LINEFILL_REQ_SENT" THEN 1 ELSE 0
    BY DEF IInv, Good, Structure, FillsGood
  <2>2. c.req \in Seq(Tran) /\ hmc \in Seq(Blocks)
    BY DEF IInv, Good, Caches, Buffers
  <2>3. Occurrences(c.req, ReadOf(a)) \in Nat /\ Occurrences(hmc, a) \in Nat
    BY <2>2, OccurrencesType
  <2>4. a # -1
    BY BlockLaws
  <2>5. StateOf(c, a) = "INVALID__LINEFILL_REQ_SENT" <=>
          a \in Live(b) /\ c.banks[b].table[a].state = "INVALID__LINEFILL_REQ_SENT"
    BY DEF StateOf, TableOf, Live
  <2> QED BY <2>1, <2>3, <2>4, <2>5 DEF Fills
<1> QED BY <1>1, CacheInvariant, PTL

\* What is written back is the victim's own line.
THEOREM CacheWritesBack == Spec => []WriteBackHoldsVictim
<1>1. IInv => WriteBackHoldsVictim
  BY DEF IInv, Good, Structure, WriteBackHoldsVictim
<1> QED BY <1>1, CacheInvariant, PTL

\* No request is reported twice.
THEOREM CacheReports == Spec => []ReportedOnce
<1>1. IInv => ReportedOnce
  BY DEF IInv, Good, Structure, IdsGood, ReportedOnce
<1> QED BY <1>1, CacheInvariant, PTL

\* No `while (1)` is reached.
THEOREM CacheNeverHangs == Spec => []NoHang
<1>1. IInv => NoHang
  BY DEF IInv, Good, Structure, NoHang
<1> QED BY <1>1, CacheInvariant, PTL
=============================================================================
