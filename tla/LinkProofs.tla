----------------------------- MODULE LinkProofs -----------------------------
(***************************************************************************)
(* Theorems about LinkLayer and LinkCycle, in three parts.  First the two  *)
(* data structures, a buffer of heads and virtual tails (Framed) and the   *)
(* retry ring between its two pointers (RingOK): which operations keep     *)
(* packets whole; then the invariant of one LinkMaster, kept by every      *)
(* member function of the class.  The second part starts at PairOK: the    *)
(* functions of the slave, which act on the slave and on the master next   *)
(* to it, then the actions.  The inductive invariant is the type           *)
(* invariant, MasterOK of every link master and SlaveOK of every link      *)
(* slave: buffers framed, ring contiguous, startCRC only for a packet that *)
(* is there, no framing fault.  The third part starts at CycleStep: the    *)
(* link in the fixed order of CasHMCWrapper::Update is one of the free     *)
(* interleavings of LinkLayer, so that what is proved of LinkLayer holds   *)
(* of it; and the clocks of the links and of the cube keep the right time, *)
(* whatever the periods are.                                               *)
(***************************************************************************)
EXTENDS LinkCycle, SequenceTheorems, FiniteSetTheorems, TLAPS

\* The fields of a packet that the proofs use, and that it is not NULL.
LEMMA PacketFields ==
  ASSUME NEW p \in Packet
  PROVE  /\ p # NULL /\ p \in Flit /\ p.lng \in Nat \ {0} /\ p.rtc \in Nat
         /\ p.rrp \in Ptr /\ p.frp \in Ptr /\ p.lng <= MAX_LNG
BY NullIsNoPacket, LinkConstants DEF Packet, Flit

\* What Receive appends to a buffer is one whole packet.
LEMMA FlitsFramed ==
  ASSUME NEW p \in Packet
  PROVE  Flits(p) \in Seq(Flit) /\ Len(Flits(p)) = p.lng /\ Framed(Flits(p)) /\ Flits(p) # <<>>
<1> DEFINE t == [i \in 1 .. p.lng - 1 |-> NULL]
<1>1. /\ p # NULL /\ p \in Flit /\ p.lng \in Nat \ {0} /\ NULL \in Flit
  BY PacketFields DEF Flit
<1>2. t \in Seq(Flit) /\ Len(t) = p.lng - 1
  BY <1>1
<1>3. <<p>> \in Seq(Flit) /\ Len(<<p>>) = 1 /\ <<p>>[1] = p
  BY <1>1
<1>4. /\ Flits(p) \in Seq(Flit) /\ Len(Flits(p)) = p.lng
      /\ \A i \in 1 .. p.lng : Flits(p)[i] = IF i = 1 THEN p ELSE NULL
  <2> HIDE DEF t
  <2>1. Flits(p) = <<p>> \o t BY DEF Flits, t
  <2>2. \A i \in 1 .. Len(t) : t[i] = NULL BY <1>2, <1>1 DEF t
  <2> QED BY <2>1, <2>2, <1>1, <1>2, <1>3, ConcatProperties
<1> QED BY <1>1, <1>4 DEF Framed, Chained

\* The head comes first, NULL tails follow.
LEMMA FlitsShape ==
  ASSUME NEW p \in Packet
  PROVE  Flits(p)[1] = p /\ \A i \in 2 .. p.lng : Flits(p)[i] = NULL
<1> DEFINE t == [i \in 1 .. p.lng - 1 |-> NULL]
<1>1. /\ p \in Flit /\ p.lng \in Nat \ {0} /\ NULL \in Flit
  BY PacketFields DEF Flit
<1>2. t \in Seq(Flit) /\ Len(t) = p.lng - 1 /\ <<p>> \in Seq(Flit) /\ Len(<<p>>) = 1
  BY <1>1
<1>3. \A i \in 1 .. p.lng - 1 : t[i] = NULL
  OBVIOUS
<1>4. Flits(p) = <<p>> \o t
  BY DEF Flits
<1> HIDE DEF t
<1> QED BY <1>1, <1>2, <1>3, <1>4, ConcatProperties

\* Whole packets followed by whole packets are whole packets, entry by entry.
LEMMA ChainedJoin ==
  ASSUME NEW a, NEW b, NEW c, NEW L \in Nat, NEW M \in Nat,
         Chained(a, L), Chained(b, M), M > 0 => b[1] # NULL,
         \A i \in 1 .. L + M : c[i] = IF i <= L THEN a[i] ELSE b[i - L],
         \A i \in 1 .. L + M : c[i] # NULL => c[i].lng \in Nat \ {0}
  PROVE  Chained(c, L + M)
<1>1. SUFFICES ASSUME NEW i \in 1 .. L + M, c[i] # NULL
      PROVE /\ i + c[i].lng - 1 <= L + M
            /\ \A j \in i + 1 .. i + c[i].lng - 1 : c[j] = NULL
            /\ i + c[i].lng <= L + M => c[i + c[i].lng] # NULL
  BY DEF Chained
<1>2. c[i].lng \in Nat \ {0}
  BY <1>1
<1>3. CASE i <= L
  <2>1. c[i] = a[i] BY <1>3
  <2>2. /\ i + a[i].lng - 1 <= L
        /\ \A j \in i + 1 .. i + a[i].lng - 1 : a[j] = NULL
        /\ i + a[i].lng <= L => a[i + a[i].lng] # NULL
    BY <2>1, <1>1, <1>3 DEF Chained
  <2> QED BY <2>1, <2>2, <1>2
<1>4. CASE i > L
  <2>1. c[i] = b[i - L] /\ i - L \in 1 .. M BY <1>4
  <2>2. /\ (i - L) + b[i - L].lng - 1 <= M
        /\ \A j \in (i - L) + 1 .. (i - L) + b[i - L].lng - 1 : b[j] = NULL
        /\ (i - L) + b[i - L].lng <= M => b[(i - L) + b[i - L].lng] # NULL
    BY <2>1, <1>1 DEF Chained
  <2>3. PICK n \in Nat \ {0} : n = b[i - L].lng BY <1>2, <2>1
  <2>5. \A j \in i + 1 .. i + n - 1 : c[j] = NULL
    BY <2>1, <2>2, <2>3, <1>4
  <2> QED BY <2>1, <2>2, <2>3, <2>5, <1>4
<1> QED BY <1>3, <1>4

\* What is left after k entries is chained as it was.
LEMMA ChainedSuffix ==
  ASSUME NEW a, NEW c, NEW n \in Nat, NEW k \in 0 .. n, Chained(a, n),
         \A i \in 1 .. n - k : c[i] = a[i + k],
         \A i \in 1 .. n : a[i] # NULL => a[i].lng \in Nat \ {0}
  PROVE  Chained(c, n - k)
<1>1. SUFFICES ASSUME NEW i \in 1 .. n - k, c[i] # NULL
      PROVE /\ i + c[i].lng - 1 <= n - k
            /\ \A j \in i + 1 .. i + c[i].lng - 1 : c[j] = NULL
            /\ i + c[i].lng <= n - k => c[i + c[i].lng] # NULL
  BY DEF Chained
<1>2. c[i] = a[i + k] /\ i + k \in 1 .. n
  OBVIOUS
<1>3. PICK l \in Nat \ {0} : l = a[i + k].lng
  BY <1>1, <1>2
<1>4. /\ (i + k) + l - 1 <= n
      /\ \A j \in (i + k) + 1 .. (i + k) + l - 1 : a[j] = NULL
      /\ (i + k) + l <= n => a[(i + k) + l] # NULL
  BY <1>1, <1>2, <1>3 DEF Chained
<1>5. \A j \in i + 1 .. i + l - 1 : c[j] = NULL
  BY <1>4
<1>6. i + l <= n - k => c[i + l] # NULL
  BY <1>4
<1> QED BY <1>2, <1>3, <1>4, <1>5, <1>6

\* The first packet alone is chained.
LEMMA ChainedPrefix ==
  ASSUME NEW a, NEW n \in Nat, NEW l \in 1 .. n, Chained(a, n),
         a[1] # NULL, l = a[1].lng
  PROVE  Chained(a, l)
BY DEF Chained

\* Only which entries are heads, and their lengths, matter.
LEMMA ChainedSameShape ==
  ASSUME NEW a, NEW c, NEW n \in Nat, Chained(a, n),
         \A i \in 1 .. n : /\ c[i] = NULL <=> a[i] = NULL
                           /\ c[i] # NULL => c[i].lng = a[i].lng,
         \A i \in 1 .. n : a[i] # NULL => a[i].lng \in Nat \ {0}
  PROVE  Chained(c, n)
<1>1. SUFFICES ASSUME NEW i \in 1 .. n, c[i] # NULL
      PROVE /\ i + c[i].lng - 1 <= n
            /\ \A j \in i + 1 .. i + c[i].lng - 1 : c[j] = NULL
            /\ i + c[i].lng <= n => c[i + c[i].lng] # NULL
  BY DEF Chained
<1>2. PICK l \in Nat \ {0} : l = a[i].lng /\ l = c[i].lng
  BY <1>1
<1>3. /\ i + l - 1 <= n
      /\ \A j \in i + 1 .. i + l - 1 : a[j] = NULL
      /\ i + l <= n => a[i + l] # NULL
  BY <1>1, <1>2 DEF Chained
<1> QED BY <1>2, <1>3

\* Every head of a buffer has a length.
LEMMA FlitLng ==
  ASSUME NEW a \in Seq(Flit)
  PROVE  /\ Len(a) \in Nat
         /\ \A i \in 1 .. Len(a) : a[i] \in Flit
         /\ \A i \in 1 .. Len(a) : a[i] # NULL => a[i].lng \in Nat \ {0}
<1>1. Len(a) \in Nat /\ \A i \in 1 .. Len(a) : a[i] \in Flit
  BY LenProperties, ElementOfSeq
<1> QED BY <1>1, PacketFields DEF Flit

\* The empty buffer is framed.
LEMMA EmptyFramed == <<>> \in Seq(Flit) /\ Framed(<<>>)
BY DEF Framed, Chained

\* A framed buffer may be appended to a chained one.
LEMMA ChainedConcat ==
  ASSUME NEW a \in Seq(Flit), NEW b \in Seq(Flit), Chained(a, Len(a)), Framed(b)
  PROVE  a \o b \in Seq(Flit) /\ Chained(a \o b, Len(a \o b))
<1>1. /\ a \o b \in Seq(Flit) /\ Len(a \o b) = Len(a) + Len(b)
      /\ \A i \in 1 .. Len(a) + Len(b) :
        (a \o b)[i] = IF i <= Len(a) THEN a[i] ELSE b[i - Len(a)]
  BY ConcatProperties
<1>2. PICK c : c = a \o b
  OBVIOUS
<1>3. \A i \in 1 .. Len(a) + Len(b) : c[i] # NULL => c[i].lng \in Nat \ {0}
  BY <1>1, <1>2, FlitLng
<1>4. Len(a) \in Nat /\ Len(b) \in Nat /\ (Len(b) > 0 => b[1] # NULL)
  BY FlitLng DEF Framed
<1>5. Chained(c, Len(a) + Len(b))
  BY <1>1, <1>2, <1>3, <1>4, ChainedJoin DEF Framed
<1> QED BY <1>1, <1>2, <1>5

\* Appending a framed buffer to a framed one keeps both (backup, refill).
LEMMA FramedConcat ==
  ASSUME NEW a \in Seq(Flit), NEW b \in Seq(Flit), Framed(a), Framed(b)
  PROVE  a \o b \in Seq(Flit) /\ Framed(a \o b)
<1>1. a \o b \in Seq(Flit) /\ Chained(a \o b, Len(a \o b))
  BY ChainedConcat DEF Framed
<1>2. CASE a = <<>>
  BY <1>2, <1>1, ConcatEmptySeq
<1>3. CASE a # <<>>
  <2>1. (a \o b)[1] = a[1]
    BY <1>3, ConcatProperties, EmptySeq, FlitLng
  <2> QED BY <2>1, <1>1, <1>3 DEF Framed
<1> QED BY <1>2, <1>3

\* A framed buffer that is not empty begins with a packet it holds whole.
LEMMA FirstPacket ==
  ASSUME NEW a \in Seq(Flit), Framed(a), a # <<>>
  PROVE  a[1] \in Packet /\ a[1].lng \in 1 .. Len(a) /\ Len(a) \in Nat \ {0}
<1>1. Len(a) \in Nat \ {0} BY EmptySeq
<1>2. a[1] \in Packet BY <1>1, FlitLng DEF Framed, Flit
<1> QED BY <1>1, <1>2, PacketFields DEF Framed, Chained

\* erase(begin, begin+LNG) removes exactly the first packet.
LEMMA DropFirstFramed ==
  ASSUME NEW a \in Seq(Flit), Framed(a), a # <<>>
  PROVE  DropFirst(a) \in Seq(Flit) /\ Framed(DropFirst(a))
<1>1. PICK l \in 1 .. Len(a) : l = a[1].lng
  BY FirstPacket
<1>2. Len(a) \in Nat \ {0}
  BY FirstPacket
<1>3. PICK c : c = DropFirst(a)
  OBVIOUS
<1>4. c = SubSeq(a, l + 1, Len(a))
  BY <1>1, <1>3 DEF DropFirst
<1>5. \A i \in l + 1 .. Len(a) : a[i] \in Flit
  BY <1>1, <1>2, FlitLng
<1>6. c \in Seq(Flit) /\ Len(c) = Len(a) - l
  <2>1. PICK k \in Int : k = l + 1
    BY <1>1
  <2>2. /\ c \in Seq(Flit)
        /\ Len(c) = IF k <= Len(a) THEN Len(a) - k + 1 ELSE 0
    BY <1>4, <1>5, <1>2, <2>1, SubSeqProperties
  <2> QED BY <2>1, <2>2, <1>1, <1>2
<1>7. \A i \in 1 .. Len(a) - l : c[i] = a[i + l]
  BY <1>4, <1>5, <1>1, <1>2, SubSeqProperties
<1>8. Chained(c, Len(a) - l)
  <2>1. Chained(a, Len(a)) /\ l \in 0 .. Len(a)
    BY <1>1 DEF Framed
  <2>2. \A i \in 1 .. Len(a) : a[i] # NULL => a[i].lng \in Nat \ {0}
    BY FlitLng
  <2> QED BY <2>1, <2>2, <1>2, <1>7, ChainedSuffix
<1>9. c # <<>> => c[1] # NULL
  <2>1. ASSUME c # <<>> PROVE c[1] # NULL
    <3>1. Len(a) - l > 0 /\ c[1] = a[1 + l]
      BY <2>1, <1>6, <1>7, <1>1, <1>2, EmptySeq
    <3> QED BY <3>1, <1>1, <1>2 DEF Framed, Chained
  <2> QED BY <2>1
<1> QED BY <1>3, <1>6, <1>8, <1>9 DEF Framed

\* The first LNG entries are the first packet (insert behind it in ReturnTocken).
LEMMA TakeFirstFramed ==
  ASSUME NEW a \in Seq(Flit), Framed(a), a # <<>>
  PROVE  SubSeq(a, 1, a[1].lng) \in Seq(Flit) /\ Framed(SubSeq(a, 1, a[1].lng))
<1>1. PICK l \in 1 .. Len(a) : l = a[1].lng
  BY FirstPacket
<1>2. Len(a) \in Nat \ {0}
  BY FirstPacket
<1>3. PICK c : c = SubSeq(a, 1, l)
  OBVIOUS
<1>5. \A i \in 1 .. l : a[i] \in Flit
  BY <1>1, <1>2, FlitLng
<1>6. c \in Seq(Flit) /\ Len(c) = l /\ \A i \in 1 .. l : c[i] = a[i]
  BY <1>3, <1>5, <1>1, <1>2, SubSeqProperties
<1>7. Chained(a, l) /\ a[1] # NULL
  BY <1>1, <1>2, ChainedPrefix DEF Framed
<1>8. Chained(c, l)
  BY <1>6, <1>7, <1>1, <1>2, FlitLng, ChainedSameShape
<1> QED BY <1>1, <1>3, <1>6, <1>7, <1>8 DEF Framed

\* Changing fields of packets, not their lengths, keeps a buffer framed.
LEMMA SameShapeFramed ==
  ASSUME NEW a \in Seq(Flit), NEW c \in Seq(Flit), Framed(a), Len(c) = Len(a),
         \A i \in 1 .. Len(a) : /\ c[i] = NULL <=> a[i] = NULL
                                /\ c[i] # NULL => c[i].lng = a[i].lng
  PROVE  Framed(c)
<1>1. Chained(c, Len(a))
  BY FlitLng, ChainedSameShape DEF Framed
<1>2. c # <<>> => a # <<>> /\ Len(a) \in Nat \ {0}
  BY EmptySeq
<1> QED BY <1>1, <1>2 DEF Framed

\* So does replacing the first packet by one of the same length.
LEMMA SetFirstFramed ==
  ASSUME NEW a \in Seq(Flit), Framed(a), a # <<>>, NEW f \in Packet,
         f.lng = a[1].lng
  PROVE  /\ [a EXCEPT ![1] = f] \in Seq(Flit) /\ Framed([a EXCEPT ![1] = f])
         /\ [a EXCEPT ![1] = f] # <<>>
<1>1. 1 \in 1 .. Len(a) /\ f \in Flit /\ f # NULL /\ a[1] # NULL
  BY FirstPacket, PacketFields
<1>2. PICK c : c = [a EXCEPT ![1] = f]
  OBVIOUS
<1>3. /\ c \in Seq(Flit) /\ Len(c) = Len(a)
      /\ \A j \in 1 .. Len(a) : c[j] = IF j = 1 THEN f ELSE a[j]
  BY <1>1, <1>2, ExceptSeq
<1>4. Framed(c)
  BY <1>1, <1>3, SameShapeFramed
<1>5. c # <<>>
  BY <1>1, <1>3, EmptySeq
<1> QED BY <1>2, <1>3, <1>4, <1>5

\* A function on 1 .. n with values in Flit is a buffer.
LEMMA SeqOfFlits ==
  ASSUME NEW n \in Nat, NEW c, c = [i \in 1 .. n |-> c[i]],
         \A i \in 1 .. n : c[i] \in Flit
  PROVE  c \in Seq(Flit) /\ Len(c) = n
OBVIOUS

-----------------------------------------------------------------------------
\* How many slots lie between two pointers, and the ring read from r on.
Count(r, w) == IF r <= w THEN w - r ELSE w - r + MAX_RETRY_BUF
Content(ring, r) == [i \in 1 .. MAX_RETRY_BUF |-> ring[Wrap(r + i - 1)]]

RingOK(ring, r, w) ==
  /\ \A s \in Ptr : ring[s] # NULL => s \in Slots(r, w)
  /\ Chained(Content(ring, r), Count(r, w))

\* The ring has at least one slot.
LEMMA RingSize == MAX_RETRY_BUF \in Nat \ {0}
BY LinkConstants

\* A pointer is a natural number below the ring size.
LEMMA InPtr == \A s : s \in Ptr <=> s \in Nat /\ s < MAX_RETRY_BUF
BY RingSize DEF Ptr

\* Wrapping once brings an index back into the ring.
LEMMA WrapPtr ==
  ASSUME NEW s \in Nat, s < 2 * MAX_RETRY_BUF
  PROVE  Wrap(s) \in Ptr
BY RingSize DEF Ptr, Wrap

\* Between two pointers lie fewer slots than the ring has.
LEMMA CountRange ==
  ASSUME NEW r \in Ptr, NEW w \in Ptr
  PROVE  Count(r, w) \in 0 .. MAX_RETRY_BUF - 1
BY RingSize DEF Ptr, Count

\* The slots from r up to w are those nearer to r than w is.
LEMMA SlotsCount ==
  ASSUME NEW r \in Ptr, NEW w \in Ptr, NEW s \in Ptr
  PROVE  s \in Slots(r, w) <=> Count(r, s) < Count(r, w)
<1>1. MAX_RETRY_BUF \in Nat /\ r \in Nat /\ w \in Nat /\ s \in Nat
  BY RingSize, InPtr
<1>2. r < MAX_RETRY_BUF /\ w < MAX_RETRY_BUF /\ s < MAX_RETRY_BUF
  BY RingSize, InPtr
<1>3. CASE r <= w
  BY <1>1, <1>2, <1>3 DEF Slots, Count
<1>4. CASE w < r
  BY <1>1, <1>2, <1>4 DEF Slots, Count
<1> QED BY <1>1, <1>3, <1>4

\* The slot i steps from r is i steps from r.
LEMMA WrapCount ==
  ASSUME NEW r \in Ptr, NEW i \in 0 .. MAX_RETRY_BUF - 1
  PROVE  Wrap(r + i) \in Ptr /\ Count(r, Wrap(r + i)) = i
<1>1. MAX_RETRY_BUF \in Nat /\ r \in Nat /\ r < MAX_RETRY_BUF
  BY RingSize, InPtr
<1>2. Wrap(r + i) \in Nat /\ Wrap(r + i) < MAX_RETRY_BUF
  BY <1>1 DEF Wrap
<1>3. Count(r, Wrap(r + i)) = i
  BY <1>1 DEF Wrap, Count
<1> QED BY <1>2, <1>3, InPtr

\* The ring read from r on is the ring.
LEMMA ContentFlits ==
  ASSUME NEW ring \in [Ptr -> Flit], NEW r \in Ptr
  PROVE  \A i \in 1 .. MAX_RETRY_BUF :
           /\ Content(ring, r)[i] = ring[Wrap(r + i - 1)]
           /\ Content(ring, r)[i] \in Flit
           /\ Content(ring, r)[i] # NULL => Content(ring, r)[i].lng \in Nat \ {0}
<1>1. TAKE i \in 1 .. MAX_RETRY_BUF
<1>2. Wrap(r + i - 1) \in Ptr
  BY RingSize DEF Ptr, Wrap
<1>3. Content(ring, r)[i] = ring[Wrap(r + i - 1)]
  BY DEF Content
<1> QED BY <1>2, <1>3, PacketFields DEF Flit

\* An empty ring is in order wherever its pointers are.
LEMMA EmptyRing ==
  ASSUME NEW ring, NEW r \in Ptr, NEW w \in Ptr, \A s \in Ptr : ring[s] = NULL
  PROVE  RingOK(ring, r, w)
<1>1. \A i \in 1 .. MAX_RETRY_BUF : Content(ring, r)[i] = NULL
  BY RingSize DEF Content, Ptr, Wrap
<1>2. Count(r, w) \in 0 .. MAX_RETRY_BUF - 1
  BY CountRange
<1> QED BY <1>1, <1>2, RingSize DEF RingOK, Chained

\* UpdateRetryPointer, wherever the RRP points to.
LEMMA RingAck ==
  ASSUME NEW ring \in [Ptr -> Flit], NEW r \in Ptr, NEW w \in Ptr, NEW q \in Ptr,
         RingOK(ring, r, w), NEW ring2 \in [Ptr -> Flit],
         \A s \in Ptr : ring2[s] = IF s \in Slots(r, q) THEN NULL ELSE ring[s]
  PROVE  RingOK(ring2, q, w)
<1> DEFINE k == Count(r, q)
           n == Count(r, w)
<1>0. /\ MAX_RETRY_BUF \in Nat /\ r \in Nat /\ w \in Nat /\ q \in Nat
      /\ r < MAX_RETRY_BUF /\ w < MAX_RETRY_BUF /\ q < MAX_RETRY_BUF
  BY RingSize, InPtr
<1>1. k \in 0 .. MAX_RETRY_BUF - 1 /\ n \in 0 .. MAX_RETRY_BUF - 1
  BY CountRange
<1>2. CASE k <= n
  <2>1. Count(q, w) = n - k
    BY <1>0, <1>2 DEF Count
  <2>2. \A s \in Ptr : ring2[s] # NULL => s \in Slots(q, w)
    <3>1. SUFFICES ASSUME NEW s \in Ptr, ring2[s] # NULL PROVE s \in Slots(q, w)
      OBVIOUS
    <3>2. s \notin Slots(r, q) /\ s \in Slots(r, w)
      BY <3>1 DEF RingOK
    <3>3. k <= Count(r, s) /\ Count(r, s) < n /\ Count(r, s) \in Nat
      BY <3>2, SlotsCount, CountRange, <1>1
    <3>4. s \in Nat /\ s < MAX_RETRY_BUF
      BY InPtr
    <3>5. Count(q, s) = Count(r, s) - k
      BY <3>3, <3>4, <1>0 DEF Count
    <3> QED BY <3>3, <3>5, <2>1, <1>1, SlotsCount
  <2>3. \A i \in 1 .. n - k : Content(ring2, q)[i] = Content(ring, r)[i + k]
    <3>1. TAKE i \in 1 .. n - k
    <3>2. Wrap(q + i - 1) = Wrap(r + (i + k) - 1)
      BY <1>0, <1>1, <1>2 DEF Wrap, Count
    <3>3. PICK s \in Ptr : s = Wrap(r + (i + k - 1)) /\ Count(r, s) = i + k - 1
      <4>1. i + k - 1 \in 0 .. MAX_RETRY_BUF - 1 BY <1>0, <1>1, <1>2
      <4> QED BY <4>1, WrapCount
    <3>4. ring2[s] = ring[s]
      BY <3>3, <1>1, SlotsCount
    <3>5. r + (i + k) - 1 = r + (i + k - 1) BY <1>0, <1>1
    <3>6. Content(ring2, q)[i] = ring2[s]
      BY <3>2, <3>3, <3>5, <1>0, <1>1, <1>2, ContentFlits
    <3>7. Content(ring, r)[i + k] = ring[s]
      BY <3>2, <3>3, <3>5, <1>0, <1>1, <1>2, ContentFlits
    <3> QED BY <3>4, <3>6, <3>7
  <2>4. Chained(Content(ring2, q), n - k)
    <3>1. Chained(Content(ring, r), n)
      BY DEF RingOK
    <3>2. \A i \in 1 .. n : Content(ring, r)[i] # NULL => Content(ring, r)[i].lng \in Nat \ {0}
      BY <1>0, <1>1, ContentFlits
    <3>3. k \in 0 .. n /\ n \in Nat
      BY <1>1, <1>2
    <3> HIDE DEF k, n
    <3> QED BY <2>3, <3>1, <3>2, <3>3, ChainedSuffix
  <2> QED BY <2>1, <2>2, <2>4 DEF RingOK
<1>3. CASE k > n
  <2>1. \A s \in Ptr : ring2[s] = NULL
    <3>1. TAKE s \in Ptr
    <3>2. s \in Slots(r, w) => s \in Slots(r, q)
      BY <1>1, <1>3, SlotsCount, CountRange
    <3> QED BY <3>2 DEF RingOK
  <2> QED BY <2>1, EmptyRing
<1> QED BY <1>1, <1>2, <1>3

\* LinkRetry takes everything out.
LEMMA RingTakeAll ==
  ASSUME NEW ring \in [Ptr -> Flit], NEW r \in Ptr, NEW w \in Ptr,
         RingOK(ring, r, w), NEW ring2 \in [Ptr -> Flit],
         \A s \in Ptr : ring2[s] = IF s \in Slots(r, w) THEN NULL ELSE ring[s]
  PROVE  RingOK(ring2, r, r)
BY EmptyRing DEF RingOK

\* UpdateField puts the flits of p behind the write pointer.
LEMMA RingPut ==
  ASSUME NEW ring \in [Ptr -> Flit], NEW r \in Ptr, NEW w \in Ptr, NEW p \in Packet,
         RingOK(ring, r, w), NEW ring2 \in [Ptr -> Flit],
         Count(r, w) + p.lng < MAX_RETRY_BUF,
         ring2[w] = p, \A i \in 1 .. p.lng - 1 : ring2[Wrap(w + i)] = NULL,
         \A s \in Ptr : s # w /\ (\A i \in 1 .. p.lng - 1 : s # Wrap(w + i))
                         => ring2[s] = ring[s]
  PROVE  /\ ring[w] = NULL
         /\ Wrap(w + p.lng) \in Ptr
         /\ RingOK(ring2, r, Wrap(w + p.lng))
<1> DEFINE n == Count(r, w)
           w2 == Wrap(w + p.lng)
<1>0. /\ MAX_RETRY_BUF \in Nat /\ r \in Nat /\ w \in Nat
      /\ r < MAX_RETRY_BUF /\ w < MAX_RETRY_BUF
  BY RingSize, InPtr
<1>1. n \in 0 .. MAX_RETRY_BUF - 1 /\ p.lng \in Nat \ {0} /\ p # NULL
  BY CountRange, PacketFields
<1>a. PICK l \in Nat \ {0} : l = p.lng
  BY <1>1
<1>2. w2 \in Ptr /\ Count(r, w2) = n + p.lng
  <2>1. w2 \in Nat /\ w2 < MAX_RETRY_BUF /\ Count(r, w2) = n + l
    BY <1>0, <1>1, <1>a DEF Count, Wrap
  <2> QED BY <2>1, <1>a, InPtr
<1>3. ring[w] = NULL
  BY <1>1, SlotsCount DEF RingOK
<1>4. \A i \in 1 .. n : Content(ring2, r)[i] = Content(ring, r)[i]
  <2>1. TAKE i \in 1 .. n
  <2>2. PICK s \in Ptr : s = Wrap(r + (i - 1)) /\ Count(r, s) = i - 1
    <3>1. i - 1 \in 0 .. MAX_RETRY_BUF - 1
      BY <1>0, <1>1
    <3> QED BY <3>1, WrapCount
  <2>3. s # w
    BY <2>2, <1>1
  <2>4. \A j \in 1 .. p.lng - 1 : s # Wrap(w + j)
    <3>1. TAKE j \in 1 .. p.lng - 1
    <3>2. s \in Nat /\ s < MAX_RETRY_BUF BY InPtr
    <3>3. j \in 1 .. l - 1 /\ n + l < MAX_RETRY_BUF BY <1>a
    <3>4. Count(r, Wrap(w + j)) = n + j
      BY <3>3, <1>0, <1>1 DEF Count, Wrap
    <3> QED BY <3>3, <3>4, <2>2, <1>1
  <2>5. r + i - 1 = r + (i - 1) /\ i \in 1 .. MAX_RETRY_BUF BY <1>0, <1>1
  <2>6. ring2[s] = ring[s]
    BY <2>3, <2>4
  <2> HIDE DEF n
  <2> QED BY <2>2, <2>5, <2>6, ContentFlits
<1>5. Content(ring2, r)[n + 1] = p
  <2>1. n + 1 \in 1 .. MAX_RETRY_BUF
    BY <1>0, <1>1
  <2>2. Wrap(r + (n + 1) - 1) = w
    BY <1>0, <1>1 DEF Count, Wrap
  <2> HIDE DEF n
  <2> QED BY <2>1, <2>2, ContentFlits
<1>6. \A i \in n + 2 .. n + p.lng : Content(ring2, r)[i] = NULL
  <2>1. TAKE i \in n + 2 .. n + p.lng
  <2>2. PICK j \in 1 .. p.lng - 1 : j = i - n - 1
    BY <1>1
  <2>3. /\ Wrap(r + i - 1) = Wrap(w + j) /\ Wrap(w + j) # w
        /\ Wrap(w + j) \in Nat /\ Wrap(w + j) < MAX_RETRY_BUF
        /\ i \in 1 .. MAX_RETRY_BUF
    <3>1. j \in 1 .. l - 1 /\ n + l < MAX_RETRY_BUF /\ i = n + 1 + j BY <1>a, <1>1, <2>2
    <3> QED BY <3>1, <1>0, <1>1 DEF Count, Wrap
  <2>4. Wrap(w + j) \in Ptr
    BY <2>3, InPtr
  <2>5. Content(ring2, r)[i] = ring2[Wrap(w + j)]
    BY <2>3, ContentFlits
  <2> QED BY <2>3, <2>4, <2>5
<1>7. Chained(Content(ring2, r), n + p.lng)
  <2> DEFINE f == Flits(p)
  <2>1. Len(f) = p.lng /\ Chained(f, p.lng) /\ f[1] = p /\ \A i \in 2 .. p.lng : f[i] = NULL
    BY FlitsFramed, FlitsShape DEF Framed
  <2>2. \A i \in 1 .. n + p.lng : Content(ring2, r)[i] =
          IF i <= n THEN Content(ring, r)[i] ELSE f[i - n]
    <3>1. TAKE i \in 1 .. n + p.lng
    <3>2. CASE i <= n BY <3>2, <1>4, <1>1
    <3>3. CASE i = n + 1 BY <3>3, <1>5, <2>1, <1>1
    <3>4. CASE i > n + 1
      <4>1. i - n \in 2 .. p.lng /\ i \in n + 2 .. n + p.lng BY <3>4, <1>1
      <4> HIDE DEF n, f
      <4> QED BY <4>1, <3>4, <1>6, <2>1, <1>1
    <3> QED BY <3>2, <3>3, <3>4, <1>1
  <2>3. \A i \in 1 .. n + p.lng : Content(ring2, r)[i] # NULL => Content(ring2, r)[i].lng \in Nat \ {0}
    BY <1>0, <1>1, ContentFlits
  <2>4. Chained(Content(ring, r), n)
    BY DEF RingOK
  <2>5. n \in Nat /\ p.lng \in Nat BY <1>1
  <2> HIDE DEF n, f
  <2> QED BY <2>1, <2>2, <2>3, <2>4, <2>5, <1>1, ChainedJoin
<1>8. \A s \in Ptr : ring2[s] # NULL => s \in Slots(r, w2)
  <2>1. SUFFICES ASSUME NEW s \in Ptr, ring2[s] # NULL PROVE s \in Slots(r, w2)
    OBVIOUS
  <2>2. CASE s = w
    BY <2>2, <1>1, <1>2, SlotsCount
  <2>3. CASE ring[s] # NULL
    <3>1. Count(r, s) < n
      BY <2>3, SlotsCount DEF RingOK
    <3>2. Count(r, s) \in Nat BY CountRange
    <3> HIDE DEF n, w2
    <3> QED BY <3>1, <3>2, <1>1, <1>2, SlotsCount
  <2>4. s = w \/ ring2[s] = ring[s]
    BY <2>1
  <2> QED BY <2>1, <2>2, <2>3, <2>4
<1> QED BY <1>2, <1>3, <1>7, <1>8 DEF RingOK
-----------------------------------------------------------------------------
(* LinkMaster *)

FramingFault == {"headIsTail", "retrySlotOccupied"}

\* The invariant of one LinkMaster and of one LinkSlave.
MasterOK(m) ==
  /\ m \in LinkMaster
  /\ Framed(m.Buffers)
  /\ Framed(m.backupBuffers)
  /\ RingOK(m.retryBuffers, m.retBufReadP, m.retBufWriteP)
  /\ m.startCRC => m.Buffers # <<>>
  /\ m.fault \notin FramingFault

SlaveOK(s) == s \in LinkSlave /\ Framed(s.Buffers)

\* The initial pointers are pointers.
LEMMA ZeroPtr == 0 \in Ptr
BY RingSize, InPtr

\* The constructor makes a packet.
LEMMA NewPacketType ==
  ASSUME NEW id \in Nat, NEW cmd \in Cmd, NEW lng \in 1 .. MAX_LNG
  PROVE  NewPacket(id, cmd, lng) \in Packet
BY ZeroPtr DEF NewPacket, Packet

\* A flow packet is one flit and carries no token.
LEMMA FlowPacketType ==
  ASSUME NEW m, NEW cmd \in Cmd
  PROVE  /\ FlowPacket(m, cmd) \in Packet
         /\ FlowPacket(m, cmd).lng = 1
         /\ FlowPacket(m, cmd).rtc = 0
<1>1. NewPacket(0, cmd, 1) \in Packet
  BY NewPacketType, LinkConstants
<1> QED BY <1>1 DEF FlowPacket, NewPacket, Packet

\* An IRTRY stream is a sequence of packets.
LEMMA IrtryStreamType ==
  ASSUME NEW m \in LinkMaster, NEW cmd \in Cmd
  PROVE  IrtryStream(m, cmd) \in Seq(Packet)
<1>1. NUM_OF_IRTRY \in Nat /\ m.lastestRRP \in Ptr
  BY LinkConstants DEF LinkMaster
<1>2. [FlowPacket(m, cmd) EXCEPT !.rrp = m.lastestRRP] \in Packet
  BY <1>1, FlowPacketType DEF Packet
<1> QED BY <1>1, <1>2 DEF IrtryStream

\* A single one-flit packet is framed.
LEMMA SingleFramed ==
  ASSUME NEW p \in Packet, p.lng = 1
  PROVE  <<p>> \in Seq(Flit) /\ Framed(<<p>>)
BY PacketFields DEF Framed, Chained, Flit

\* The constructor establishes the invariant.
LEMMA NewLinkMasterOK ==
  ASSUME NEW down \in BOOLEAN
  PROVE  MasterOK(NewLinkMaster(down))
<1> DEFINE m == NewLinkMaster(down)
<1>1. m \in LinkMaster
  BY ZeroPtr, LinkConstants DEF NewLinkMaster, LinkMaster, LinkState, Fault, Flit
<1>2. RingOK(m.retryBuffers, m.retBufReadP, m.retBufWriteP)
  BY ZeroPtr, EmptyRing DEF NewLinkMaster
<1> QED BY <1>1, <1>2, EmptyFramed DEF MasterOK, NewLinkMaster, FramingFault

\* The other ERROR branches leave the invariant.
LEMMA FailOK ==
  ASSUME NEW m, MasterOK(m), NEW f \in Fault \ FramingFault
  PROVE  MasterOK(Fail(m, f))
BY DEF MasterOK, Fail, LinkMaster, FramingFault

\* A change of other fields leaves the buffers and the ring alone.
SameWork(n, m) ==
  /\ n.Buffers = m.Buffers /\ n.backupBuffers = m.backupBuffers
  /\ n.retryBuffers = m.retryBuffers /\ n.retBufReadP = m.retBufReadP
  /\ n.retBufWriteP = m.retBufWriteP /\ n.startCRC = m.startCRC
  /\ n.fault = m.fault

\* It is enough that buffers, ring, startCRC and fault are as before.
LEMMA SameWorkOK ==
  ASSUME NEW m, MasterOK(m), NEW n \in LinkMaster, SameWork(n, m)
  PROVE  MasterOK(n)
BY DEF MasterOK, SameWork

\* Any RRP, stale ones included, leaves the ring whole.
LEMMA UpdateRetryPointerOK ==
  ASSUME NEW m, MasterOK(m), NEW p \in Packet
  PROVE  MasterOK(UpdateRetryPointer(m, p))
<1> DEFINE ring == [s \in Ptr |-> IF s \in Slots(m.retBufReadP, p.rrp)
                                  THEN NULL ELSE m.retryBuffers[s]]
           n == [m EXCEPT !.retryBuffers = ring, !.retBufReadP = p.rrp]
<1>1. /\ m.retryBuffers \in [Ptr -> Flit] /\ m.retBufReadP \in Ptr
      /\ m.retBufWriteP \in Ptr /\ p.rrp \in Ptr
      /\ RingOK(m.retryBuffers, m.retBufReadP, m.retBufWriteP)
  BY PacketFields DEF MasterOK, LinkMaster
<1>2. ring \in [Ptr -> Flit]
  BY <1>1 DEF Flit
<1>3. RingOK(ring, p.rrp, m.retBufWriteP)
  BY <1>1, <1>2, RingAck
<1>4. UpdateRetryPointer(m, p) = n
  BY DEF UpdateRetryPointer
<1> HIDE DEF ring
<1>5. n \in LinkMaster
  BY <1>1, <1>2 DEF MasterOK, LinkMaster
<1>6. n.retryBuffers = ring /\ n.retBufReadP = p.rrp
  BY DEF MasterOK, LinkMaster
<1>7. /\ n.Buffers = m.Buffers /\ n.backupBuffers = m.backupBuffers
      /\ n.retBufWriteP = m.retBufWriteP /\ n.startCRC = m.startCRC
      /\ n.fault = m.fault
  BY DEF MasterOK, LinkMaster
<1> HIDE DEF n
<1> QED BY <1>3, <1>4, <1>5, <1>6, <1>7 DEF MasterOK

\* A PRET goes to linkRxTx only.
LEMMA ReturnRetryPointerOK ==
  ASSUME NEW m, MasterOK(m), NEW p \in Packet
  PROVE  MasterOK(ReturnRetryPointer(m, p))
<1> DEFINE pret == [FlowPacket(m, "PRET") EXCEPT !.rrp = p.frp]
<1>1. pret \in Packet /\ p.frp \in Ptr
  BY FlowPacketType, PacketFields DEF Packet, Cmd
<1>2. Append(m.linkRxTx, pret) \in Seq(Packet)
  BY <1>1, AppendProperties DEF MasterOK, LinkMaster
<1>3. ReturnRetryPointer(m, p) =
        [m EXCEPT !.lastestRRP = p.frp,
                  !.linkRxTx = IF m.Buffers = <<>> THEN Append(@, pret) ELSE @]
  BY DEF ReturnRetryPointer
<1> HIDE DEF pret
<1> QED BY <1>1, <1>2, <1>3 DEF MasterOK, LinkMaster

\* Tokens only grow here.
LEMMA UpdateTokenOK ==
  ASSUME NEW m, MasterOK(m), NEW p \in Packet
  PROVE  MasterOK(UpdateToken(m, p))
<1> DEFINE n == [m EXCEPT !.tokenCount = @ + p.rtc]
<1>1. MasterOK(n)
  <2>1. m.tokenCount + p.rtc \in Nat /\ m \in LinkMaster
    BY PacketFields DEF MasterOK, LinkMaster
  <2>2. n \in LinkMaster
    BY <2>1 DEF LinkMaster
  <2>3. SameWork(n, m)
    BY <2>1 DEF LinkMaster, SameWork
  <2> HIDE DEF n
  <2> QED BY <2>2, <2>3, SameWorkOK
<1>2. MasterOK(Fail(n, "tokenOverMaximum"))
  BY <1>1, FailOK DEF Fault, FramingFault
<1>3. UpdateToken(m, p) \in {n, Fail(n, "tokenOverMaximum")}
  BY DEF UpdateToken
<1> QED BY <1>1, <1>2, <1>3

\* A TRET goes before or behind the first packet, never into it.
LEMMA ReturnTockenOK ==
  ASSUME NEW m, MasterOK(m), NEW p \in Packet
  PROVE  MasterOK(ReturnTocken(m, p))
<1> DEFINE tret == [FlowPacket(m, "TRET") EXCEPT !.rtc = p.lng]
           b == m.Buffers
           at == IF m.startCRC THEN b[1].lng ELSE 0
<1>1. /\ m \in LinkMaster /\ b \in Seq(Flit) /\ Framed(b) /\ p.lng \in Nat
      /\ m.backupBuffers \in Seq(Flit) /\ Framed(m.backupBuffers)
  BY PacketFields DEF MasterOK, LinkMaster
<1>2. tret \in Packet /\ tret.lng = 1
  BY <1>1, FlowPacketType DEF Packet, Cmd
<1>3. <<tret>> \in Seq(Flit) /\ Framed(<<tret>>)
  BY <1>2, SingleFramed
<1> HIDE DEF tret
<1>4. CASE b # <<>> /\ b[1].lng <= m.tokenCount
  <2> DEFINE f == [b[1] EXCEPT !.rtc = b[1].rtc + p.lng]
             n == [m EXCEPT !.Buffers = [b EXCEPT ![1] = f]]
  <2>1. ReturnTocken(m, p) = n
    BY <1>4 DEF ReturnTocken
  <2>2. b[1] \in Packet /\ b[1].rtc + p.lng \in Nat
    BY <1>1, <1>4, FirstPacket, PacketFields
  <2>3. f \in Packet /\ f.lng = b[1].lng
    BY <2>2 DEF Packet
  <2> HIDE DEF f
  <2>4. PICK c \in Seq(Flit) : c = [b EXCEPT ![1] = f] /\ Framed(c) /\ c # <<>>
    BY <1>1, <1>4, <2>3, SetFirstFramed
  <2>5. /\ n \in LinkMaster /\ n.Buffers = c /\ n.backupBuffers = m.backupBuffers
        /\ n.retryBuffers = m.retryBuffers /\ n.retBufReadP = m.retBufReadP
        /\ n.retBufWriteP = m.retBufWriteP /\ n.fault = m.fault
    BY <1>1, <2>4 DEF LinkMaster
  <2> HIDE DEF n
  <2> QED BY <2>1, <2>4, <2>5 DEF MasterOK
<1>5. CASE ~(b # <<>> /\ b[1].lng <= m.tokenCount) /\ m.currentState = "LINK_RETRY"
  <2> DEFINE c == Append(m.backupBuffers, tret)
             n == [m EXCEPT !.backupBuffers = c]
  <2>1. ReturnTocken(m, p) = n
    BY <1>5 DEF ReturnTocken, tret
  <2>2. c = m.backupBuffers \o <<tret>>
    BY <1>1, <1>2, PacketFields, AppendIsConcat
  <2>3. c \in Seq(Flit) /\ Framed(c)
    BY <1>1, <1>3, <2>2, FramedConcat
  <2> HIDE DEF c
  <2>4. /\ n \in LinkMaster /\ n.Buffers = m.Buffers /\ n.backupBuffers = c
        /\ n.retryBuffers = m.retryBuffers /\ n.retBufReadP = m.retBufReadP
        /\ n.retBufWriteP = m.retBufWriteP /\ n.fault = m.fault
        /\ n.startCRC = m.startCRC
    BY <1>1, <2>3 DEF LinkMaster
  <2> HIDE DEF n
  <2> QED BY <2>1, <2>3, <2>4 DEF MasterOK
<1>6. CASE ~(b # <<>> /\ b[1].lng <= m.tokenCount) /\ m.currentState # "LINK_RETRY"
  <2> DEFINE u == SubSeq(b, 1, at)
             v == SubSeq(b, at + 1, Len(b))
             c == u \o <<tret>> \o v
             n == [m EXCEPT !.Buffers = c]
  <2>1. ReturnTocken(m, p) = n
    BY <1>6 DEF ReturnTocken, tret
  <2>2. u \in Seq(Flit) /\ Framed(u) /\ v \in Seq(Flit) /\ Framed(v)
    <3>1. CASE m.startCRC
      <4>1. b # <<>> BY <3>1 DEF MasterOK
      <4>2. u = SubSeq(b, 1, b[1].lng) /\ v = DropFirst(b)
        BY <3>1 DEF DropFirst
      <4> QED BY <1>1, <4>1, <4>2, TakeFirstFramed, DropFirstFramed
    <3>2. CASE ~m.startCRC
      <4>1. u = <<>> /\ v = b
        <5>1. at = 0 BY <3>2
        <5>2. u = SubSeq(b, 1, 0) /\ v = SubSeq(b, 1, Len(b)) BY <5>1
        <5> HIDE DEF u, v
        <5> QED BY <1>1, <5>2, SubSeqEmpty, SubSeqFull
      <4> QED BY <1>1, <4>1, EmptyFramed
    <3> QED BY <3>1, <3>2
  <2> HIDE DEF u, v
  <2>3. u \o <<tret>> \in Seq(Flit) /\ Framed(u \o <<tret>>)
    BY <2>2, <1>3, FramedConcat
  <2>4. c \in Seq(Flit) /\ Framed(c)
    BY <2>2, <2>3, FramedConcat
  <2>5. c # <<>>
    <3>1. Len(c) = Len(u) + 1 + Len(v) /\ Len(u) \in Nat /\ Len(v) \in Nat
      <4>1. Len(u \o <<tret>>) = Len(u) + 1 BY <2>2, <1>3, ConcatProperties
      <4>2. Len(c) = Len(u \o <<tret>>) + Len(v) BY <2>2, <2>3, ConcatProperties
      <4> QED BY <4>1, <4>2, <2>2, LenProperties
    <3> QED BY <3>1, <2>4, EmptySeq
  <2> HIDE DEF c
  <2>6. /\ n \in LinkMaster /\ n.Buffers = c /\ n.backupBuffers = m.backupBuffers
        /\ n.retryBuffers = m.retryBuffers /\ n.retBufReadP = m.retBufReadP
        /\ n.retBufWriteP = m.retBufWriteP /\ n.fault = m.fault
    BY <1>1, <2>4 DEF LinkMaster
  <2> HIDE DEF n
  <2> QED BY <2>1, <2>4, <2>5, <2>6 DEF MasterOK
<1> QED BY <1>4, <1>5, <1>6

\* Asking for retransmission touches linkRxTx only.
LEMMA StartRetryOK ==
  ASSUME NEW m, MasterOK(m)
  PROVE  MasterOK(StartRetry(m))
<1> DEFINE q == IrtryStream(m, "IRTRY_START") \o m.linkRxTx
           n == [m EXCEPT !.startRetryTimer = TRUE, !.retryTimer = 0]
           n1 == [n EXCEPT !.readyStartRetry = TRUE]
           n2 == [n EXCEPT !.linkRxTx = q, !.currentState = "START_RETRY"]
<1>1. m \in LinkMaster /\ m.linkRxTx \in Seq(Packet)
  BY DEF MasterOK, LinkMaster
<1>2. q \in Seq(Packet)
  BY <1>1, IrtryStreamType, ConcatProperties DEF Cmd
<1>3. StartRetry(m) = IF m.currentState = "LINK_RETRY" THEN n1 ELSE n2
  BY <1>1 DEF StartRetry, LinkMaster
<1> HIDE DEF q
<1>4. n1 \in LinkMaster /\ SameWork(n1, m)
  BY <1>1 DEF LinkMaster, SameWork
<1>5. n2 \in LinkMaster /\ SameWork(n2, m)
  BY <1>1, <1>2 DEF LinkMaster, SameWork, LinkState
<1> HIDE DEF n1, n2
<1>6. StartRetry(m) \in LinkMaster /\ SameWork(StartRetry(m), m)
  BY <1>3, <1>4, <1>5
<1> QED BY <1>6, SameWorkOK

\* Leaving a retry sequence touches no buffer.
LEMMA FinishRetryOK ==
  ASSUME NEW m, MasterOK(m)
  PROVE  MasterOK(FinishRetry(m))
<1>1. FinishRetry(m) \in LinkMaster /\ SameWork(FinishRetry(m), m)
  BY DEF MasterOK, LinkMaster, FinishRetry, SameWork, LinkState
<1> QED BY <1>1, SameWorkOK

\* The window of the ring is a sequence of whole packets, framed if its first
\* slot is a head (the ERROR of LinkRetry otherwise).
LEMMA RetryWindowFramed ==
  ASSUME NEW m, MasterOK(m)
  PROVE  /\ RetryWindow(m) \in Seq(Flit)
         /\ Chained(RetryWindow(m), Len(RetryWindow(m)))
         /\ m.retryBuffers[m.retBufReadP] # NULL => Framed(RetryWindow(m))
<1> DEFINE ring == m.retryBuffers
           r == m.retBufReadP
           w == m.retBufWriteP
           n == Count(r, w)
           d == IF m.downstream THEN 0 ELSE 1
           g == Content(ring, r)
           c == [i \in 1 .. n |-> IF g[i] = NULL THEN NULL
                                  ELSE [g[i] EXCEPT !.bufPopDelay = d]]
<1>1. ring \in [Ptr -> Flit] /\ r \in Ptr /\ w \in Ptr /\ d \in {0, 1} /\ RingOK(ring, r, w)
  BY DEF MasterOK, LinkMaster
<1>2. n \in Nat /\ n < MAX_RETRY_BUF
  BY <1>1, CountRange, RingSize
<1>3. \A i \in 1 .. n : /\ g[i] = ring[Wrap(r + i - 1)] /\ g[i] \in Flit
                        /\ g[i] # NULL => g[i].lng \in Nat \ {0}
  <2> HIDE DEF ring, r, n, g
  <2>1. \A i \in 1 .. n : i \in 1 .. MAX_RETRY_BUF
    BY <1>2, RingSize
  <2> QED BY <2>1, <1>1, ContentFlits DEF g
<1>4. RetryWindow(m) = c
  BY <1>3 DEF RetryWindow, Count
<1>5. Chained(g, n)
  BY <1>1 DEF RingOK
<1>6. r = Wrap(r + 1 - 1)
  BY <1>1, InPtr, RingSize DEF Wrap
<1> HIDE DEF ring, r, w, n, g, d
<1>7. \A i \in 1 .. n : /\ c[i] = NULL <=> g[i] = NULL
                        /\ c[i] # NULL => c[i].lng = g[i].lng
                        /\ c[i] \in Flit
  <2>1. TAKE i \in 1 .. n
  <2>2. CASE g[i] = NULL
    BY <2>2 DEF Flit
  <2>3. CASE g[i] # NULL
    <3>1. g[i] \in Packet BY <2>3, <1>3 DEF Flit
    <3>2. c[i] = [g[i] EXCEPT !.bufPopDelay = d] BY <2>3
    <3>3. c[i] \in Packet /\ c[i].lng = g[i].lng BY <3>1, <3>2, <1>1 DEF Packet
    <3> QED BY <3>3, <2>3, PacketFields
  <2> QED BY <2>2, <2>3
<1>8. c \in Seq(Flit) /\ Len(c) = n
  <2>1. c = [i \in 1 .. n |-> c[i]]
    OBVIOUS
  <2> HIDE DEF c
  <2> QED BY <1>2, <1>7, <2>1, SeqOfFlits
<1> HIDE DEF c
<1>9. Chained(c, n)
  BY <1>2, <1>3, <1>5, <1>7, ChainedSameShape
<1>10. ring[r] # NULL => Framed(c)
  <2>1. n > 0 => g[1] = ring[r]
    BY <1>2, <1>3, <1>6
  <2>2. n = 0 => c = <<>>
    BY <1>8, EmptySeq
  <2> QED BY <2>1, <2>2, <1>2, <1>7, <1>8, <1>9 DEF Framed
<1> QED BY <1>4, <1>8, <1>9, <1>10 DEF ring, r

\* The tokens given back by LinkRetry are a number.
LEMMA RetryTokenType ==
  ASSUME NEW m, MasterOK(m)
  PROVE  RetryToken(m) \in Nat
<1> DEFINE S == Ptr \X (1 .. MAX_LNG)
           T == {sj \in Slots(m.retBufReadP, m.retBufWriteP) \X (1 .. MAX_LNG) :
                   /\ m.retryBuffers[sj[1]] # NULL
                   /\ m.retryBuffers[sj[1]].cmd = "TRAN"
                   /\ sj[2] <= m.retryBuffers[sj[1]].lng}
<1>1. IsFiniteSet(Ptr) /\ IsFiniteSet(1 .. MAX_LNG)
  <2>1. 0 \in Int /\ MAX_RETRY_BUF - 1 \in Int /\ 1 \in Int /\ MAX_LNG \in Int
    BY LinkConstants
  <2> QED BY <2>1, FS_Interval DEF Ptr
<1>2. IsFiniteSet(S)
  BY <1>1, FS_Product
<1>3. Slots(m.retBufReadP, m.retBufWriteP) \subseteq Ptr
  BY LinkConstants DEF MasterOK, LinkMaster, Slots, Ptr
<1>4. T \subseteq S
  BY <1>3
<1>5. Cardinality(T) \in Nat
  <2> HIDE DEF S, T
  <2> QED BY <1>2, <1>4, FS_Subset, FS_CardinalityType
<1> QED BY <1>5 DEF RetryToken

\* Backup and refill keep the invariant, and leave the ring empty.
LEMMA LinkRetryOK ==
  ASSUME NEW m, MasterOK(m)
  PROVE  MasterOK(LinkRetry(m))
<1> DEFINE q == m.linkRxTx \o IrtryStream(m, "IRTRY_CLEAR")
           b == m.backupBuffers \o m.Buffers
           w == RetryWindow(m)
           ring == [s \in Ptr |-> IF s \in Slots(m.retBufReadP, m.retBufWriteP)
                                   THEN NULL ELSE m.retryBuffers[s]]
           k == RetryToken(m)
           n == [m EXCEPT !.startCRC = FALSE, !.linkRxTx = q, !.masterSEQ = 0,
                          !.backupBuffers = b, !.Buffers = <<>>]
           o == [n EXCEPT !.Buffers = w, !.retryBuffers = ring,
                          !.tokenCount = m.tokenCount + k,
                          !.retBufWriteP = m.retBufReadP,
                          !.currentState = "LINK_RETRY"]
<1>1. /\ m \in LinkMaster /\ m.linkRxTx \in Seq(Packet)
      /\ m.Buffers \in Seq(Flit) /\ Framed(m.Buffers)
      /\ m.backupBuffers \in Seq(Flit) /\ Framed(m.backupBuffers)
      /\ m.retryBuffers \in [Ptr -> Flit] /\ m.retBufReadP \in Ptr
      /\ m.retBufWriteP \in Ptr /\ m.tokenCount \in Nat
      /\ RingOK(m.retryBuffers, m.retBufReadP, m.retBufWriteP)
  BY DEF MasterOK, LinkMaster
<1>2. q \in Seq(Packet)
  BY <1>1, IrtryStreamType, ConcatProperties DEF Cmd
<1>3. b \in Seq(Flit) /\ Framed(b)
  BY <1>1, FramedConcat
<1>4. w \in Seq(Flit) /\ (m.retryBuffers[m.retBufReadP] # NULL => Framed(w))
  BY RetryWindowFramed
<1>5. ring \in [Ptr -> Flit]
  BY <1>1 DEF Flit
<1>6. RingOK(ring, m.retBufReadP, m.retBufReadP)
  BY <1>1, <1>5, RingTakeAll
<1>7. m.tokenCount + k \in Nat
  BY <1>1, RetryTokenType
<1>8. LinkRetry(m) = IF m.retryBuffers[m.retBufReadP] = NULL
                     THEN Fail(n, "firstRetryPacketNULL")
                     ELSE IF m.retBufReadP = m.retBufWriteP
                     THEN Fail(n, "noRetryPackets") ELSE o
  BY <1>1 DEF LinkRetry, LinkMaster
<1> HIDE DEF q, b, w, ring, k
<1>9. MasterOK(n)
  <2>1. n \in LinkMaster
    <3>1. PICK z \in Seq(Flit) : z = <<>>
      BY EmptyFramed
    <3>2. n = [m EXCEPT !.startCRC = FALSE, !.linkRxTx = q, !.masterSEQ = 0,
                        !.backupBuffers = b, !.Buffers = z]
      BY <3>1
    <3>3. PICK k0 \in 0 .. 7 : k0 = 0
      OBVIOUS
    <3>4. n = [m EXCEPT !.startCRC = FALSE, !.linkRxTx = q, !.masterSEQ = k0,
                        !.backupBuffers = b, !.Buffers = z]
      BY <3>2, <3>3
    <3> HIDE DEF n
    <3> QED BY <1>1, <1>2, <1>3, <3>4 DEF LinkMaster
  <2>2. /\ n.Buffers = <<>> /\ n.backupBuffers = b /\ n.startCRC = FALSE
        /\ n.retryBuffers = m.retryBuffers /\ n.retBufReadP = m.retBufReadP
        /\ n.retBufWriteP = m.retBufWriteP /\ n.fault = m.fault
    BY <1>1 DEF LinkMaster
  <2> HIDE DEF n
  <2> QED BY <1>1, <1>3, <2>1, <2>2, EmptyFramed DEF MasterOK
<1>10. m.retryBuffers[m.retBufReadP] # NULL => MasterOK(o)
  <2>1. o \in LinkMaster
    <3>1. n \in LinkMaster BY <1>9 DEF MasterOK
    <3>2. "LINK_RETRY" \in LinkState BY DEF LinkState
    <3> HIDE DEF n
    <3> QED BY <1>1, <1>4, <1>5, <1>7, <3>1, <3>2 DEF LinkMaster
  <2>2. /\ o.Buffers = w /\ o.backupBuffers = b /\ o.startCRC = FALSE
        /\ o.retryBuffers = ring /\ o.retBufReadP = m.retBufReadP
        /\ o.retBufWriteP = m.retBufReadP /\ o.fault = m.fault
    BY <1>1 DEF LinkMaster
  <2> HIDE DEF o
  <2> QED BY <1>3, <1>4, <1>6, <2>1, <2>2 DEF MasterOK
<1> HIDE DEF n, o
<1>11. MasterOK(Fail(n, "firstRetryPacketNULL")) /\ MasterOK(Fail(n, "noRetryPackets"))
  BY <1>9, FailOK DEF Fault, FramingFault
<1> QED BY <1>8, <1>10, <1>11

\* Room in the ring, as the code computes it, is room in the counted window.
LEMMA RetryRoomCount ==
  ASSUME NEW m, MasterOK(m), m.Buffers # <<>>, RetryRoom(m)
  PROVE  Count(m.retBufReadP, m.retBufWriteP) + m.Buffers[1].lng < MAX_RETRY_BUF
<1>1. m.Buffers[1].lng \in Nat
  BY FirstPacket, PacketFields DEF MasterOK, LinkMaster
<1>2. PICK l \in Nat : l = m.Buffers[1].lng
  BY <1>1
<1>3. /\ m.retBufReadP \in Nat /\ m.retBufReadP < MAX_RETRY_BUF
      /\ m.retBufWriteP \in Nat /\ m.retBufWriteP < MAX_RETRY_BUF
      /\ MAX_RETRY_BUF \in Nat
  BY RingSize, InPtr DEF MasterOK, LinkMaster
<1> QED BY <1>2, <1>3 DEF RetryRoom, Count

\* Sending finds the slot free and stores the packet whole.
LEMMA UpdateFieldOK ==
  ASSUME NEW m, MasterOK(m), CanSend(m)
  PROVE  MasterOK(UpdateField(m))
<1> DEFINE p == m.Buffers[1]
           w == m.retBufWriteP
           nextP == Wrap(w + p.lng)
           sq == IF m.masterSEQ < 7 THEN m.masterSEQ ELSE 0
           sq2 == IF m.masterSEQ < 7 THEN m.masterSEQ + 1 ELSE m.masterSEQ
           out == [p EXCEPT !.seq = sq, !.rrp = m.lastestRRP, !.frp = nextP,
                            !.crc = TRUE]
           out2 == [out EXCEPT !.bufPopDelay = 1]
           tails == {Wrap(w + i) : i \in 1 .. p.lng - 1}
           ring == [s \in Ptr |-> IF s = w THEN out ELSE IF s \in tails THEN NULL
                                  ELSE m.retryBuffers[s]]
           tk == IF p.cmd = "TRAN" THEN m.tokenCount - p.lng ELSE m.tokenCount
           q == Append(m.linkRxTx, out2)
           b == DropFirst(m.Buffers)
           n == [m EXCEPT !.masterSEQ = sq2, !.startCRC = FALSE, !.tokenCount = tk,
                          !.retryBuffers = ring, !.retBufWriteP = nextP,
                          !.linkRxTx = q, !.Buffers = b]
<1>1. /\ m \in LinkMaster /\ m.linkRxTx \in Seq(Packet)
      /\ m.Buffers \in Seq(Flit) /\ Framed(m.Buffers) /\ m.Buffers # <<>>
      /\ m.retryBuffers \in [Ptr -> Flit] /\ m.retBufReadP \in Ptr
      /\ w \in Ptr /\ m.lastestRRP \in Ptr /\ m.masterSEQ \in 0 .. 7
      /\ m.tokenCount \in Nat /\ m.fault \notin FramingFault
      /\ RingOK(m.retryBuffers, m.retBufReadP, w)
      /\ m.backupBuffers \in Seq(Flit) /\ Framed(m.backupBuffers)
  BY DEF MasterOK, LinkMaster, CanSend
<1>2. p \in Packet /\ p.lng \in Nat \ {0}
  BY <1>1, FirstPacket, PacketFields
<1>3. sq \in 0 .. 7 /\ sq2 \in 0 .. 7
  BY <1>1
<1>4. Count(m.retBufReadP, w) + p.lng < MAX_RETRY_BUF
  BY <1>1, RetryRoomCount DEF CanSend
<1>5. nextP \in Ptr
  <2>1. PICK l \in Nat : l = p.lng BY <1>2
  <2>2. Count(m.retBufReadP, w) \in Nat BY <1>1, CountRange
  <2>3. w \in Nat /\ w < MAX_RETRY_BUF BY <1>1, InPtr
  <2>4. w + l \in Nat /\ w + l < 2 * MAX_RETRY_BUF BY <1>4, <2>1, <2>2, <2>3, RingSize
  <2> QED BY <2>1, <2>4, WrapPtr
<1> HIDE DEF nextP, sq, sq2
<1>6. out \in Packet /\ out.lng = p.lng
  BY <1>1, <1>2, <1>3, <1>5 DEF Packet
<1>7. out2 \in Packet
  <2> HIDE DEF out
  <2> QED BY <1>6 DEF Packet
<1> HIDE DEF out, out2
<1>8. ring \in [Ptr -> Flit]
  BY <1>1, <1>6, PacketFields DEF Flit
<1>9. m.retryBuffers[w] = NULL /\ RingOK(ring, m.retBufReadP, nextP)
  <2>3. ring[w] = out
    BY <1>1
  <2>4. \A i \in 1 .. out.lng - 1 : ring[Wrap(w + i)] = NULL
    <3>1. PICK l \in Nat : l = p.lng BY <1>2
    <3>2. PICK c \in Nat : c = Count(m.retBufReadP, w) BY <1>1, CountRange
    <3>3. w \in Nat /\ w < MAX_RETRY_BUF BY <1>1, InPtr
    <3>4. TAKE i \in 1 .. out.lng - 1
    <3>5. i \in 1 .. l - 1 /\ c + l < MAX_RETRY_BUF BY <3>1, <3>2, <3>4, <1>4, <1>6
    <3>6. Wrap(w + i) # w /\ w + i < 2 * MAX_RETRY_BUF
      BY <3>3, <3>5, RingSize DEF Wrap
    <3>7. Wrap(w + i) \in Ptr
      BY <3>3, <3>5, <3>6, WrapPtr
    <3> QED BY <3>4, <3>6, <3>7, <1>6
  <2>5. \A s \in Ptr : s # w /\ (\A i \in 1 .. out.lng - 1 : s # Wrap(w + i))
                        => ring[s] = m.retryBuffers[s]
    BY <1>6
  <2>6. Count(m.retBufReadP, w) + out.lng < MAX_RETRY_BUF /\ nextP = Wrap(w + out.lng)
    BY <1>4, <1>6 DEF nextP
  <2> HIDE DEF ring, w, p, tails
  <2>7. PICK old \in [Ptr -> Flit], r \in Ptr : old = m.retryBuffers /\ r = m.retBufReadP
    BY <1>1
  <2>8. w \in Ptr /\ RingOK(old, r, w) /\ Count(r, w) + out.lng < MAX_RETRY_BUF
    BY <1>1, <2>6, <2>7
  <2>9. \A s \in Ptr : s # w /\ (\A i \in 1 .. out.lng - 1 : s # Wrap(w + i))
                        => ring[s] = old[s]
    BY <2>5, <2>7
  <2>10. old[w] = NULL /\ RingOK(ring, r, Wrap(w + out.lng))
    BY <1>6, <1>8, <2>3, <2>4, <2>8, <2>9, RingPut
  <2> QED BY <2>6, <2>7, <2>10
<1>10. tk \in Nat
  BY <1>1, <1>2 DEF CanSend
<1>11. q \in Seq(Packet)
  BY <1>1, <1>7, AppendProperties
<1>12. b \in Seq(Flit) /\ Framed(b)
  BY <1>1, DropFirstFramed
<1>13. UpdateField(m) = n
  BY <1>9 DEF UpdateField, nextP, sq, sq2, out, out2
<1> HIDE DEF ring, q, b, tk, tails, w, p
<1>14. n \in LinkMaster
  BY <1>1, <1>3, <1>5, <1>8, <1>10, <1>11, <1>12 DEF LinkMaster
<1>15. /\ n.Buffers = b /\ n.backupBuffers = m.backupBuffers /\ n.startCRC = FALSE
       /\ n.retryBuffers = ring /\ n.retBufReadP = m.retBufReadP
       /\ n.retBufWriteP = nextP /\ n.fault = m.fault
  BY <1>1 DEF LinkMaster
<1> HIDE DEF n
<1> QED BY <1>1, <1>9, <1>12, <1>13, <1>14, <1>15 DEF MasterOK

\* The first part of Update never sees a virtual tail in front.
LEMMA SendFirstOK ==
  ASSUME NEW m, MasterOK(m)
  PROVE  MasterOK(SendFirst(m))
<1> DEFINE n == [m EXCEPT !.startCRC = TRUE]
<1>1. m.Buffers # <<>> => m.Buffers[1] # NULL
  BY DEF MasterOK, Framed
<1>2. CanSend(m) => MasterOK(n)
  <2>1. ASSUME CanSend(m) PROVE MasterOK(n)
    <3>1. n \in LinkMaster
      BY DEF MasterOK, LinkMaster
    <3>2. /\ n.Buffers = m.Buffers /\ n.backupBuffers = m.backupBuffers
          /\ n.retryBuffers = m.retryBuffers /\ n.retBufReadP = m.retBufReadP
          /\ n.retBufWriteP = m.retBufWriteP /\ n.fault = m.fault
      BY DEF MasterOK, LinkMaster
    <3>3. m.Buffers # <<>> BY <2>1 DEF CanSend
    <3> HIDE DEF n
    <3> QED BY <3>1, <3>2, <3>3 DEF MasterOK
  <2> QED BY <2>1
<1>3. CanSend(m) => MasterOK(UpdateField(m))
  BY UpdateFieldOK
<1>4. SendFirst(m) = IF ~CanSend(m) THEN m
                     ELSE IF CRC_DELAY = 1 /\ ~m.startCRC THEN n ELSE UpdateField(m)
  BY <1>1 DEF SendFirst
<1> HIDE DEF n
<1> QED BY <1>2, <1>3, <1>4

\* The backup packets come back whole.
LEMMA FinishLinkRetryOK ==
  ASSUME NEW m, MasterOK(m)
  PROVE  MasterOK(FinishLinkRetry(m))
<1> DEFINE n == [m EXCEPT !.Buffers = m.backupBuffers, !.backupBuffers = <<>>]
           n1 == [n EXCEPT !.currentState = "ACTIVE"]
           q == IrtryStream(m, "IRTRY_START")
           n2 == [n EXCEPT !.readyStartRetry = FALSE, !.linkRxTx = q,
                           !.currentState = "START_RETRY"]
           ends == m.currentState = "LINK_RETRY" /\ m.Buffers = <<>> /\ m.linkRxTx = <<>>
<1>1. m \in LinkMaster /\ m.backupBuffers \in Seq(Flit) /\ Framed(m.backupBuffers)
  BY DEF MasterOK, LinkMaster
<1>2. q \in Seq(Packet)
  BY <1>1, IrtryStreamType DEF Cmd
<1>3. FinishLinkRetry(m) = IF ~ends THEN m
        ELSE IF ~m.readyStartRetry THEN n1
        ELSE IF ~m.retryStartPacket THEN Fail(n, "retryStartPacketNULL") ELSE n2
  BY DEF FinishLinkRetry
<1> HIDE DEF q
<1>4. ends => ~m.startCRC
  BY DEF MasterOK
<1>5. n \in LinkMaster
  <2>1. PICK z \in Seq(Flit) : z = <<>>
    BY EmptyFramed
  <2>2. n = [m EXCEPT !.Buffers = m.backupBuffers, !.backupBuffers = z]
    BY <2>1
  <2> HIDE DEF n
  <2> QED BY <1>1, <2>2 DEF LinkMaster
<1>6. /\ n.Buffers = m.backupBuffers /\ n.backupBuffers = <<>>
      /\ n.startCRC = m.startCRC
      /\ n.retryBuffers = m.retryBuffers /\ n.retBufReadP = m.retBufReadP
      /\ n.retBufWriteP = m.retBufWriteP /\ n.fault = m.fault
  BY <1>1 DEF LinkMaster
<1> HIDE DEF n
<1>7. ends => MasterOK(n)
  BY <1>1, <1>4, <1>5, <1>6, EmptyFramed DEF MasterOK
<1>8. n1 \in LinkMaster /\ SameWork(n1, n)
  BY <1>5 DEF LinkMaster, SameWork, LinkState
<1>9. n2 \in LinkMaster /\ SameWork(n2, n)
  BY <1>2, <1>5 DEF LinkMaster, SameWork, LinkState
<1>10. ends => MasterOK(Fail(n, "retryStartPacketNULL"))
  BY <1>7, FailOK DEF Fault, FramingFault
<1> HIDE DEF n1, n2, ends
<1> QED BY <1>3, <1>7, <1>8, <1>9, <1>10, SameWorkOK

\* A time-out is a StartRetry or a FinishRetry.
LEMMA RunRetryTimerOK ==
  ASSUME NEW m, MasterOK(m)
  PROVE  MasterOK(RunRetryTimer(m))
<1> DEFINE t == IF m.startRetryTimer THEN m.retryTimer + 1 ELSE m.retryTimer
           n == [m EXCEPT !.retryTimer = t]
           o == [n EXCEPT !.retryAttempts = @ + 1]
<1>1. m \in LinkMaster /\ t \in Nat
  BY DEF MasterOK, LinkMaster
<1>2. RunRetryTimer(m) \in {n, FinishRetry(n), StartRetry(o)}
  BY <1>1 DEF RunRetryTimer
<1> HIDE DEF t
<1>3. n \in LinkMaster /\ SameWork(n, m)
  BY <1>1 DEF LinkMaster, SameWork
<1>4. o \in LinkMaster /\ SameWork(o, n)
  <2> HIDE DEF n
  <2>1. n.retryAttempts + 1 \in Nat BY <1>3 DEF LinkMaster
  <2> QED BY <1>3, <2>1 DEF LinkMaster, SameWork
<1> HIDE DEF n, o
<1>5. MasterOK(n) /\ MasterOK(o)
  BY <1>3, <1>4, SameWorkOK
<1> QED BY <1>2, <1>5, FinishRetryOK, StartRetryOK

\* Counting bufPopDelay down changes no length.
LEMMA StepDelayFramed ==
  ASSUME NEW b \in Seq(Flit), Framed(b)
  PROVE  /\ StepDelay(b) \in Seq(Flit) /\ Framed(StepDelay(b))
         /\ b # <<>> => StepDelay(b) # <<>>
<1> DEFINE c == [i \in 1 .. Len(b) |->
                   IF b[i] = NULL THEN NULL ELSE [b[i] EXCEPT !.bufPopDelay = 0]]
<1>1. Len(b) \in Nat
  BY FlitLng
<1>2. \A i \in 1 .. Len(b) : /\ c[i] = NULL <=> b[i] = NULL
                             /\ c[i] # NULL => c[i].lng = b[i].lng
                             /\ c[i] \in Flit
  <2>1. TAKE i \in 1 .. Len(b)
  <2>2. CASE b[i] = NULL
    BY <2>2 DEF Flit
  <2>3. CASE b[i] # NULL
    <3>1. b[i] \in Packet BY <2>3, FlitLng DEF Flit
    <3>2. c[i] = [b[i] EXCEPT !.bufPopDelay = 0] BY <2>3
    <3>3. c[i] \in Packet /\ c[i].lng = b[i].lng BY <3>1, <3>2 DEF Packet
    <3> QED BY <3>3, <2>3, PacketFields
  <2> QED BY <2>2, <2>3
<1>3. c \in Seq(Flit) /\ Len(c) = Len(b)
  <2>1. c = [i \in 1 .. Len(b) |-> c[i]]
    OBVIOUS
  <2> HIDE DEF c
  <2> QED BY <1>1, <1>2, <2>1, SeqOfFlits
<1>4. StepDelay(b) = c
  BY DEF StepDelay
<1> HIDE DEF c
<1>5. Framed(c)
  BY <1>2, <1>3, SameShapeFramed
<1>6. b # <<>> => c # <<>>
  BY <1>1, <1>3, EmptySeq
<1> QED BY <1>3, <1>4, <1>5, <1>6

\* The same for linkRxTx.
LEMMA StepDelayType ==
  ASSUME NEW q \in Seq(Packet)
  PROVE  StepDelay(q) \in Seq(Packet)
<1>1. Len(q) \in Nat /\ \A i \in 1 .. Len(q) : q[i] \in Packet
  BY LenProperties, ElementOfSeq
<1>2. \A i \in 1 .. Len(q) : [q[i] EXCEPT !.bufPopDelay = 0] \in Packet /\ q[i] # NULL
  BY <1>1, PacketFields DEF Packet
<1>3. StepDelay(q) = [i \in 1 .. Len(q) |-> [q[i] EXCEPT !.bufPopDelay = 0]]
  BY <1>2 DEF StepDelay
<1> QED BY <1>1, <1>2, <1>3

\* Buffers may become any framed buffer, not empty while a CRC is computed.
LEMMA SetBuffersOK ==
  ASSUME NEW m, MasterOK(m), NEW b \in Seq(Flit), Framed(b), m.startCRC => b # <<>>
  PROVE  MasterOK([m EXCEPT !.Buffers = b])
<1> DEFINE n == [m EXCEPT !.Buffers = b]
<1>1. n \in LinkMaster
  BY DEF MasterOK, LinkMaster
<1>2. /\ n.Buffers = b /\ n.backupBuffers = m.backupBuffers
      /\ n.startCRC = m.startCRC
      /\ n.retryBuffers = m.retryBuffers /\ n.retBufReadP = m.retBufReadP
      /\ n.retBufWriteP = m.retBufWriteP /\ n.fault = m.fault
  BY DEF MasterOK, LinkMaster
<1> HIDE DEF n
<1>3. MasterOK(n)
  BY <1>1, <1>2 DEF MasterOK
<1> QED BY <1>3 DEF n

\* linkRxTx may become anything.
LEMMA SetLinkRxTxOK ==
  ASSUME NEW m, MasterOK(m), NEW q \in Seq(Packet)
  PROVE  MasterOK([m EXCEPT !.linkRxTx = q])
<1>1. [m EXCEPT !.linkRxTx = q] \in LinkMaster /\ SameWork([m EXCEPT !.linkRxTx = q], m)
  BY DEF MasterOK, LinkMaster, SameWork
<1> QED BY <1>1, SameWorkOK

\* LinkMaster::Update keeps the invariant.
LEMMA MasterStepOK ==
  ASSUME NEW m, MasterOK(m)
  PROVE  MasterOK(MasterStep(m))
<1> DEFINE n == RunRetryTimer(FinishLinkRetry(SendFirst(m)))
<1>1. MasterOK(n)
  BY SendFirstOK, FinishLinkRetryOK, RunRetryTimerOK
<1>2. MasterStep(m) = [n EXCEPT !.Buffers = StepDelay(n.Buffers)]
  BY DEF MasterStep
<1> HIDE DEF n
<1>3. n.Buffers \in Seq(Flit) /\ Framed(n.Buffers) /\ (n.startCRC => n.Buffers # <<>>)
  BY <1>1 DEF MasterOK, LinkMaster
<1>4. /\ StepDelay(n.Buffers) \in Seq(Flit) /\ Framed(StepDelay(n.Buffers))
      /\ n.startCRC => StepDelay(n.Buffers) # <<>>
  BY <1>3, StepDelayFramed
<1> QED BY <1>1, <1>2, <1>4, SetBuffersOK

-----------------------------------------------------------------------------
\* The link slave, then the actions.

PairOK(q) == MasterOK(q.lm) /\ SlaveOK(q.ls)

\* erase(begin+i) of linkRxTx.
LEMMA RemoveAtType ==
  ASSUME NEW q \in Seq(Packet), NEW i \in 1 .. Len(q)
  PROVE  RemoveAt(q, i) \in Seq(Packet)
<1>1. Len(q) \in Nat /\ \A j \in 1 .. Len(q) : q[j] \in Packet
  BY LenProperties, ElementOfSeq
<1>2. SubSeq(q, 1, i - 1) \in Seq(Packet)
  BY <1>1, SubSeqProperties
<1>3. SubSeq(q, i + 1, Len(q)) \in Seq(Packet)
  BY <1>1, SubSeqProperties
<1>4. SubSeq(q, 1, i - 1) \o SubSeq(q, i + 1, Len(q)) \in Seq(Packet)
  BY <1>2, <1>3, ConcatProperties
<1> QED BY <1>4 DEF RemoveAt

\* The constructor establishes the invariant.
LEMMA NewLinkSlaveOK == SlaveOK(NewLinkSlave)
<1>1. NewLinkSlave \in LinkSlave
  BY EmptyFramed DEF NewLinkSlave, LinkSlave
<1> QED BY <1>1, EmptyFramed DEF SlaveOK, NewLinkSlave

\* What is received is dropped or shortened; the buffer stays.
LEMMA SetReceivedOK ==
  ASSUME NEW s, SlaveOK(s), NEW q \in Seq(Packet)
  PROVE  SlaveOK([s EXCEPT !.linkRxTx = q])
<1>1. [s EXCEPT !.linkRxTx = q] \in LinkSlave
  BY DEF SlaveOK, LinkSlave
<1>2. [s EXCEPT !.linkRxTx = q].Buffers = s.Buffers
  BY DEF SlaveOK, LinkSlave
<1> QED BY <1>1, <1>2 DEF SlaveOK

\* An IRTRY keeps the invariants.
LEMMA RetryControlOK ==
  ASSUME NEW m, MasterOK(m), NEW s, SlaveOK(s), NEW i \in 1 .. Len(s.linkRxTx)
  PROVE  PairOK(RetryControl(m, s, i))
<1> DEFINE p == s.linkRxTx[i]
           n == UpdateRetryPointer(m, p)
           t == [s EXCEPT !.linkRxTx = RemoveAt(s.linkRxTx, i)]
           t2 == [t EXCEPT !.currentState = "ACTIVE", !.slaveSEQ = 0]
<1>1. s.linkRxTx \in Seq(Packet) /\ p \in Packet
  BY ElementOfSeq DEF SlaveOK, LinkSlave
<1>2. MasterOK(n)
  BY <1>1, UpdateRetryPointerOK
<1>3. SlaveOK(t)
  BY <1>1, RemoveAtType, SetReceivedOK
<1>4. RetryControl(m, s, i) \in
        {Pair(n, t), Pair(LinkRetry(n), t), Pair(FinishRetry(n), t2)}
  BY DEF RetryControl
<1> HIDE DEF n, t
<1>5. SlaveOK(t2)
  <2>1. PICK k0 \in 0 .. 7 : k0 = 0
    OBVIOUS
  <2>2. t2 = [t EXCEPT !.currentState = "ACTIVE", !.slaveSEQ = k0]
    BY <2>1
  <2> HIDE DEF t2
  <2> QED BY <1>3, <2>2 DEF SlaveOK, LinkSlave
<1> HIDE DEF t2
<1>6. MasterOK(LinkRetry(n)) /\ MasterOK(FinishRetry(n))
  BY <1>2, LinkRetryOK, FinishRetryOK
<1> QED BY <1>2, <1>3, <1>4, <1>5, <1>6 DEF PairOK, Pair

\* Accepting a packet keeps them.
LEMMA AcceptPacketOK ==
  ASSUME NEW m, MasterOK(m), NEW s, SlaveOK(s), NEW i \in 1 .. Len(s.linkRxTx)
  PROVE  PairOK(AcceptPacket(m, s, i))
<1> DEFINE p == s.linkRxTx[i]
           n == UpdateToken(ReturnRetryPointer(m, p), p)
           t == [s EXCEPT !.linkRxTx = RemoveAt(s.linkRxTx, i)]
           b == t.Buffers \o Flits(p)
           t2 == [t EXCEPT !.Buffers = b]
<1>1. s.linkRxTx \in Seq(Packet) /\ p \in Packet
  BY ElementOfSeq DEF SlaveOK, LinkSlave
<1>2. MasterOK(n)
  BY <1>1, ReturnRetryPointerOK, UpdateTokenOK
<1>3. SlaveOK(t)
  BY <1>1, RemoveAtType, SetReceivedOK
<1>4. AcceptPacket(m, s, i) \in
        {Pair(n, t), Pair(n, t2), Pair(Fail(n, "slaveBufferFull"), t)}
  BY DEF AcceptPacket
<1> HIDE DEF p, n, t
<1>5. b \in Seq(Flit) /\ Framed(b)
  BY <1>1, <1>3, FlitsFramed, FramedConcat DEF SlaveOK, LinkSlave
<1>6. SlaveOK(t2)
  <2> HIDE DEF b
  <2> QED BY <1>3, <1>5 DEF SlaveOK, LinkSlave
<1> HIDE DEF t2
<1>7. MasterOK(Fail(n, "slaveBufferFull"))
  BY <1>2, FailOK DEF Fault, FramingFault
<1> QED BY <1>2, <1>3, <1>4, <1>6, <1>7 DEF PairOK, Pair

\* Aborting keeps them.
LEMMA AbortOnErrorOK ==
  ASSUME NEW m, MasterOK(m), NEW s, SlaveOK(s)
  PROVE  PairOK(AbortOnError(m, s))
<1> DEFINE o == [m EXCEPT !.retryStartPacket = TRUE]
           n == IF m.retryStartPacket THEN Fail(m, "retryStartPacketSet") ELSE o
           t == [s EXCEPT !.linkRxTx = <<>>, !.startCRC = FALSE,
                          !.currentState = "START_RETRY"]
<1>1. o \in LinkMaster /\ SameWork(o, m)
  BY DEF MasterOK, LinkMaster, SameWork
<1>2. MasterOK(o) /\ MasterOK(Fail(m, "retryStartPacketSet"))
  BY <1>1, SameWorkOK, FailOK DEF Fault, FramingFault
<1>3. MasterOK(StartRetry(n))
  <2> HIDE DEF o
  <2> QED BY <1>2, StartRetryOK
<1>4. SlaveOK(t)
  <2>1. PICK z \in Seq(Packet) : z = <<>>
    BY EmptySeq
  <2>2. t = [s EXCEPT !.linkRxTx = z, !.startCRC = FALSE, !.currentState = "START_RETRY"]
    BY <2>1
  <2> HIDE DEF t
  <2> QED BY <2>2 DEF SlaveOK, LinkSlave
<1>5. AbortOnError(m, s) = Pair(StartRetry(n), t)
  BY DEF AbortOnError
<1> HIDE DEF n, t
<1> QED BY <1>3, <1>4, <1>5 DEF PairOK, Pair

\* So both outcomes of the check do.
LEMMA CheckPacketOK ==
  ASSUME NEW m, MasterOK(m), NEW s, SlaveOK(s), NEW i \in 1 .. Len(s.linkRxTx)
  PROVE  PairOK(CheckPacket(m, s, i))
<1> DEFINE k == IF s.slaveSEQ < 7 THEN s.slaveSEQ + 1 ELSE s.slaveSEQ
           t == [s EXCEPT !.slaveSEQ = k]
<1>1. s \in LinkSlave /\ k \in 0 .. 7
  BY DEF SlaveOK, LinkSlave
<1>2. CheckPacket(m, s, i) \in {AcceptPacket(m, t, i), AbortOnError(m, t)}
  BY <1>1 DEF CheckPacket, LinkSlave
<1> HIDE DEF k
<1>3. SlaveOK(t) /\ t.linkRxTx = s.linkRxTx
  BY <1>1 DEF SlaveOK, LinkSlave
<1> HIDE DEF t
<1>4. i \in 1 .. Len(t.linkRxTx)
  BY <1>3
<1> QED BY <1>2, <1>3, <1>4, AcceptPacketOK, AbortOnErrorOK

\* The RRP of a packet, used once.
LEMMA ExtractRRPOK ==
  ASSUME NEW m, MasterOK(m), NEW p \in Packet
  PROVE  MasterOK(ExtractRRP(m, p))
BY UpdateRetryPointerOK DEF ExtractRRP

\* startCRC of the slave is not part of its invariant.
LEMMA SetStartCRCOK ==
  ASSUME NEW s, SlaveOK(s), NEW b \in BOOLEAN
  PROVE  /\ SlaveOK([s EXCEPT !.startCRC = b])
         /\ [s EXCEPT !.startCRC = b].linkRxTx = s.linkRxTx
BY DEF SlaveOK, LinkSlave

\* The body of the receive loop keeps the invariants.
LEMMA ExamineOK ==
  ASSUME NEW m, MasterOK(m), NEW s, SlaveOK(s), NEW i \in 1 .. Len(s.linkRxTx)
  PROVE  PairOK(Examine(m, s, i))
<1> DEFINE p == s.linkRxTx[i]
           drop == [s EXCEPT !.linkRxTx = RemoveAt(s.linkRxTx, i)]
           b == CRC_DELAY = 1
           t == [s EXCEPT !.startCRC = b]
<1>1. s.linkRxTx \in Seq(Packet) /\ p \in Packet
  BY ElementOfSeq DEF SlaveOK, LinkSlave
<1>2. SlaveOK(drop)
  BY <1>1, RemoveAtType, SetReceivedOK
<1>3. SlaveOK(t) /\ t.linkRxTx = s.linkRxTx
  <2>1. b \in BOOLEAN OBVIOUS
  <2> QED BY <2>1, SetStartCRCOK
<1>4. Examine(m, s, i) \in
        {RetryControl(m, s, i), Pair(m, drop), Pair(UpdateRetryPointer(m, p), drop),
         CheckPacket(ExtractRRP(m, p), t, i)}
  BY DEF Examine
<1> HIDE DEF p, drop, t
<1>5. i \in 1 .. Len(t.linkRxTx)
  BY <1>3
<1>6. PairOK(RetryControl(m, s, i)) /\ PairOK(CheckPacket(ExtractRRP(m, p), t, i))
  BY <1>1, <1>3, <1>5, RetryControlOK, ExtractRRPOK, CheckPacketOK
<1>7. PairOK(Pair(m, drop)) /\ PairOK(Pair(UpdateRetryPointer(m, p), drop))
  BY <1>1, <1>2, UpdateRetryPointerOK DEF PairOK, Pair
<1> QED BY <1>4, <1>6, <1>7

\* The receive loop keeps them.
LEMMA ReceiveLoopOK ==
  ASSUME NEW m, MasterOK(m), NEW s, SlaveOK(s)
  PROVE  PairOK(ReceiveLoop(m, s))
<1> DEFINE ready(i) == i <= Len(s.linkRxTx) /\ s.linkRxTx[i].bufPopDelay = 0
           p == s.linkRxTx[1]
           waits == CRC_DELAY = 1 /\ ~s.startCRC /\ NeedsCheck(s, p)
           n == ExtractRRP(m, p)
           p2 == [p EXCEPT !.chkRRP = TRUE]
           q == [s.linkRxTx EXCEPT ![1] = p2]
           t == [s EXCEPT !.linkRxTx = q, !.startCRC = TRUE]
<1>1. ReceiveLoop(m, s) = IF ~ready(1) THEN Pair(m, s)
                          ELSE IF ~waits THEN Examine(m, s, 1)
                          ELSE IF ~ready(2) THEN Pair(n, t)
                          ELSE Examine(n, t, 2)
  BY DEF ReceiveLoop
<1>2. s.linkRxTx \in Seq(Packet) /\ Len(s.linkRxTx) \in Nat
  BY LenProperties DEF SlaveOK, LinkSlave
<1>3. ready(1) => 1 \in 1 .. Len(s.linkRxTx)
  BY <1>2
<1>4. ready(2) => 2 \in 1 .. Len(s.linkRxTx)
  BY <1>2
<1>5. ready(1) => PairOK(Examine(m, s, 1))
  BY <1>3, ExamineOK
<1>6. ready(1) => /\ MasterOK(n) /\ SlaveOK(t)
                  /\ Len(t.linkRxTx) = Len(s.linkRxTx)
  <2>1. SUFFICES ASSUME ready(1)
        PROVE MasterOK(n) /\ SlaveOK(t) /\ Len(t.linkRxTx) = Len(s.linkRxTx)
    OBVIOUS
  <2>2. p \in Packet
    BY <1>2, <1>3, <2>1, ElementOfSeq
  <2>3. p2 \in Packet
    BY <2>2 DEF Packet
  <2> HIDE DEF p2
  <2>4. q \in Seq(Packet) /\ Len(q) = Len(s.linkRxTx)
    BY <1>2, <1>3, <2>1, <2>3, ExceptSeq
  <2>5. MasterOK(n)
    BY <2>2, ExtractRRPOK
  <2> HIDE DEF q
  <2>6. SlaveOK(t) /\ t.linkRxTx = q
    BY <2>4 DEF SlaveOK, LinkSlave
  <2> HIDE DEF t, n
  <2> QED BY <2>4, <2>5, <2>6
<1> HIDE DEF n, t
<1>7. ready(1) /\ ready(2) => PairOK(Examine(n, t, 2))
  BY <1>4, <1>6, ExamineOK
<1>8. PairOK(Pair(m, s)) /\ (ready(1) => PairOK(Pair(n, t)))
  BY <1>6 DEF PairOK, Pair
<1> HIDE DEF ready, waits
<1> QED BY <1>1, <1>5, <1>7, <1>8

\* Handing the first packet out, and returning its tokens, keeps them.
LEMMA HandOutOK ==
  ASSUME NEW q, PairOK(q), q.ls.Buffers # <<>>
  PROVE  PairOK(HandOut(q)) /\ q.ls.Buffers[1].id \in Nat
<1> DEFINE s == q.ls
           b == DropFirst(s.Buffers)
           t == [s EXCEPT !.Buffers = b]
<1>1. MasterOK(q.lm) /\ SlaveOK(s) /\ s.Buffers \in Seq(Flit) /\ Framed(s.Buffers)
  BY DEF PairOK, SlaveOK, LinkSlave
<1>2. s.Buffers[1] \in Packet
  BY <1>1, FirstPacket
<1>3. b \in Seq(Flit) /\ Framed(b)
  BY <1>1, DropFirstFramed
<1>4. HandOut(q) = Pair(ReturnTocken(q.lm, s.Buffers[1]), t)
  BY DEF HandOut
<1> HIDE DEF b, s
<1>5. SlaveOK(t)
  BY <1>1, <1>3 DEF SlaveOK, LinkSlave
<1>6. MasterOK(ReturnTocken(q.lm, s.Buffers[1]))
  BY <1>1, <1>2, ReturnTockenOK
<1>7. q.ls.Buffers[1].id \in Nat
  BY <1>2 DEF Packet, s
<1> HIDE DEF t
<1> QED BY <1>4, <1>5, <1>6, <1>7 DEF PairOK, Pair

-----------------------------------------------------------------------------
(* The actions. *)

IInv ==
  /\ TypeOK
  /\ \A e \in End : MasterOK(lm[e]) /\ SlaveOK(ls[e])

\* Replacing the master of one end by one in order.
LEMMA MastersExcept ==
  ASSUME NEW f \in [End -> LinkMaster], \A x \in End : MasterOK(f[x]),
         NEW e \in End, NEW n, MasterOK(n)
  PROVE  /\ [f EXCEPT ![e] = n] \in [End -> LinkMaster]
         /\ \A x \in End : MasterOK([f EXCEPT ![e] = n][x])
<1>1. n \in LinkMaster
  BY DEF MasterOK
<1>2. \A x \in End : [f EXCEPT ![e] = n][x] = IF x = e THEN n ELSE f[x]
  OBVIOUS
<1> QED BY <1>1, <1>2

\* Replacing the slave of one end by one in order.
LEMMA SlavesExcept ==
  ASSUME NEW f \in [End -> LinkSlave], \A x \in End : SlaveOK(f[x]),
         NEW e \in End, NEW s, SlaveOK(s)
  PROVE  /\ [f EXCEPT ![e] = s] \in [End -> LinkSlave]
         /\ \A x \in End : SlaveOK([f EXCEPT ![e] = s][x])
<1>1. s \in LinkSlave
  BY DEF SlaveOK
<1>2. \A x \in End : [f EXCEPT ![e] = s][x] = IF x = e THEN s ELSE f[x]
  OBVIOUS
<1> QED BY <1>1, <1>2

\* The peer of an end is an end.
LEMMA PeerEnd == \A e \in End : Peer(e) \in End
BY DEF End, Peer

\* The invariant holds initially.
LEMMA InitIInv == Init => IInv
<1>1. SUFFICES ASSUME Init PROVE IInv
  OBVIOUS
<1>2. \A e \in End : MasterOK(NewLinkMaster(e = "host"))
  BY NewLinkMasterOK
<1>3. \A e \in End : MasterOK(lm[e]) /\ SlaveOK(ls[e])
  BY <1>1, <1>2, NewLinkSlaveOK DEF Init
<1>4. lm \in [End -> LinkMaster] /\ ls \in [End -> LinkSlave]
  BY <1>1, <1>2, NewLinkSlaveOK DEF Init, MasterOK, SlaveOK
<1>5. /\ wire \in [End -> {<<>>} \cup (Packet \X (Nat \ {0}))]
      /\ sent \in [End -> Nat]
  BY <1>1 DEF Init
<1>6. delivered \in [End -> Seq(Nat)]
  <2>1. PICK z \in Seq(Nat) : z = <<>>
    BY EmptySeq
  <2> QED BY <1>1, <2>1 DEF Init
<1>7. noise \in 0 .. MaxNoise
  BY <1>1, LinkConstants DEF Init
<1> QED BY <1>3, <1>4, <1>5, <1>6, <1>7 DEF IInv, TypeOK

\* A submission keeps it.
LEMMA SubmitIInv ==
  ASSUME IInv, NEW e \in End, Submit(e)
  PROVE  IInv'
<1> DEFINE k == sent[e] + 1
           p == NewPacket(k, "TRAN", Workload[e][k])
           b == lm[e].Buffers \o Flits(p)
           n == [lm[e] EXCEPT !.Buffers = b]
<1>1. /\ lm \in [End -> LinkMaster] /\ sent \in [End -> Nat] /\ k \in Nat
      /\ \A x \in End : MasterOK(lm[x])
  BY DEF IInv, TypeOK
<1>2. p \in Packet
  <2>1. Workload[e] \in Seq(1 .. MAX_LNG) /\ Len(Workload[e]) \in Nat
    BY LinkConstants, LenProperties
  <2>2. k \in 1 .. Len(Workload[e])
    BY <1>1, <2>1 DEF Submit
  <2>3. Workload[e][k] \in 1 .. MAX_LNG
    BY <2>1, <2>2, ElementOfSeq
  <2> HIDE DEF k
  <2> QED BY <1>1, <2>3, NewPacketType DEF Cmd
<1>3. /\ lm' = [lm EXCEPT ![e] = n] /\ sent' = [sent EXCEPT ![e] = k]
      /\ UNCHANGED <<ls, wire, delivered, noise>>
  BY <1>1 DEF Submit
<1> HIDE DEF k, p
<1>4. MasterOK(n)
  <2>1. MasterOK(lm[e]) /\ lm[e].Buffers \in Seq(Flit) /\ Framed(lm[e].Buffers)
    BY <1>1 DEF MasterOK, LinkMaster
  <2>2. /\ Flits(p) \in Seq(Flit) /\ Framed(Flits(p)) /\ Len(Flits(p)) \in Nat \ {0}
    BY <1>2, FlitsFramed, PacketFields
  <2>3. b \in Seq(Flit) /\ Framed(b)
    BY <2>1, <2>2, FramedConcat
  <2>4. b # <<>>
    <3>1. Len(b) = Len(lm[e].Buffers) + Len(Flits(p)) /\ Len(lm[e].Buffers) \in Nat
      BY <2>1, <2>2, ConcatProperties, LenProperties
    <3> QED BY <2>2, <2>3, <3>1, EmptySeq
  <2> HIDE DEF b
  <2> QED BY <2>1, <2>3, <2>4, SetBuffersOK
<1> HIDE DEF n
<1>5. lm' \in [End -> LinkMaster] /\ \A x \in End : MasterOK(lm'[x])
  BY <1>1, <1>3, <1>4, MastersExcept
<1>6. sent' \in [End -> Nat]
  BY <1>1, <1>3
<1> QED BY <1>3, <1>5, <1>6 DEF IInv, TypeOK

\* LinkMaster::Update keeps it.
LEMMA MasterUpdateIInv ==
  ASSUME IInv, NEW e \in End, MasterUpdate(e)
  PROVE  IInv'
<1>1. lm \in [End -> LinkMaster] /\ \A x \in End : MasterOK(lm[x])
  BY DEF IInv, TypeOK
<1>2. /\ lm' = [lm EXCEPT ![e] = MasterStep(lm[e])]
      /\ UNCHANGED <<ls, wire, sent, delivered, noise>>
  BY DEF MasterUpdate
<1>3. lm' \in [End -> LinkMaster] /\ \A x \in End : MasterOK(lm'[x])
  BY <1>1, <1>2, MasterStepOK, MastersExcept
<1> QED BY <1>2, <1>3 DEF IInv, TypeOK

\* Link::Update keeps it.
LEMMA LinkUpdateIInv ==
  ASSUME IInv, NEW e \in End, NEW lastUpdate \in BOOLEAN, LinkUpdate(e, lastUpdate)
  PROVE  IInv'
<1> DEFINE q == lm[e].linkRxTx
           left == IF Loading(e) THEN Tail(q) ELSE q
           rest == IF lastUpdate THEN StepDelay(left) ELSE left
           n == [lm[e] EXCEPT !.linkRxTx = rest]
           w == InFlight(e)
           o == Peer(e)
           Wires == {<<>>} \cup (Packet \X (Nat \ {0}))
<1>1. /\ lm \in [End -> LinkMaster] /\ ls \in [End -> LinkSlave]
      /\ wire \in [End -> Wires] /\ o \in End
      /\ \A x \in End : MasterOK(lm[x]) /\ SlaveOK(ls[x])
      /\ q \in Seq(Packet)
  BY PeerEnd DEF IInv, TypeOK, LinkMaster
<1>2. left \in Seq(Packet)
  BY <1>1, HeadTailProperties DEF Loading
<1>3. rest \in Seq(Packet)
  <2> HIDE DEF left
  <2> QED BY <1>2, StepDelayType
<1>4. lm' = [lm EXCEPT ![e] = n] /\ UNCHANGED <<sent, delivered>>
  BY <1>1 DEF LinkUpdate
<1> HIDE DEF rest
<1>5. lm' \in [End -> LinkMaster] /\ \A x \in End : MasterOK(lm'[x])
  <2>1. MasterOK(n) BY <1>1, <1>3, SetLinkRxTxOK
  <2> HIDE DEF n
  <2> QED BY <1>1, <1>4, <2>1, MastersExcept
<1>6. w \in Wires
  <2>1. CASE Loading(e)
    <3>1. q[1] \in Packet
      BY <1>1, <2>1, HeadTailProperties DEF Loading
    <3>2. PICK l \in Nat \ {0} : l = q[1].lng
      BY <3>1, PacketFields
    <3>3. FLIT_TIME * l \in Nat \ {0}
      BY LinkConstants
    <3> QED BY <2>1, <3>1, <3>2, <3>3 DEF InFlight
  <2>2. CASE ~Loading(e)
    BY <1>1, <2>2 DEF InFlight
  <2> QED BY <2>1, <2>2
<1>7. CASE w # <<>> /\ w[2] = 1
  <2>1. PICK hit \in BOOLEAN :
          /\ hit => noise < MaxNoise
          /\ noise' = IF hit THEN noise + 1 ELSE noise
          /\ ls' = [ls EXCEPT ![o].linkRxTx =
               Append(@, [w[1] EXCEPT !.crc = @ /\ ~hit, !.bufPopDelay = 1])]
    BY <1>7 DEF LinkUpdate
  <2> DEFINE p == [w[1] EXCEPT !.crc = @ /\ ~hit, !.bufPopDelay = 1]
             r == Append(ls[o].linkRxTx, p)
             s == [ls[o] EXCEPT !.linkRxTx = r]
  <2>2. wire' = [wire EXCEPT ![e] = <<>>]
    BY <1>7 DEF LinkUpdate
  <2>3. wire' \in [End -> Wires]
    BY <1>1, <2>2
  <2>4. noise' \in 0 .. MaxNoise
    BY <2>1, LinkConstants DEF IInv, TypeOK
  <2>5. w[1] \in Packet
    BY <1>6, <1>7
  <2>6. p \in Packet
    BY <2>5 DEF Packet
  <2>7. ls' = [ls EXCEPT ![o] = s]
    BY <1>1, <2>1
  <2> HIDE DEF p
  <2>8. r \in Seq(Packet)
    BY <1>1, <2>6, AppendProperties DEF LinkSlave
  <2> HIDE DEF r
  <2>9. SlaveOK(s)
    BY <1>1, <2>8, SetReceivedOK
  <2> HIDE DEF s
  <2>10. ls' \in [End -> LinkSlave] /\ \A x \in End : SlaveOK(ls'[x])
    BY <1>1, <2>7, <2>9, SlavesExcept
  <2> HIDE DEF w
  <2> QED BY <1>4, <1>5, <2>3, <2>4, <2>10 DEF IInv, TypeOK
<1>8. CASE ~(w # <<>> /\ w[2] = 1)
  <2>1. /\ wire' = [wire EXCEPT ![e] = IF w = <<>> THEN w ELSE <<w[1], w[2] - 1>>]
        /\ UNCHANGED <<ls, noise>>
    BY <1>8 DEF LinkUpdate
  <2>2. (IF w = <<>> THEN w ELSE <<w[1], w[2] - 1>>) \in Wires
    <3>1. CASE w = <<>> BY <3>1
    <3>2. CASE w # <<>>
      <4>1. w[1] \in Packet /\ w[2] \in Nat \ {0} /\ w[2] # 1
        BY <1>6, <1>8, <3>2
      <4>2. PICK k \in Nat \ {0} : k = w[2] - 1
        BY <4>1
      <4> HIDE DEF w
      <4> QED BY <3>2, <4>1, <4>2
    <3> QED BY <3>1, <3>2
  <2> HIDE DEF w
  <2>3. wire' \in [End -> Wires]
    BY <1>1, <2>1, <2>2
  <2> QED BY <1>4, <1>5, <2>1, <2>3 DEF IInv, TypeOK
<1> QED BY <1>7, <1>8

\* LinkSlave::Update keeps it.
LEMMA SlaveUpdateIInv ==
  ASSUME IInv, NEW e \in End, SlaveUpdate(e)
  PROVE  IInv'
<1> DEFINE q == ReceiveLoop(lm[e], ls[e])
           Out(a) == a /\ q.ls.Buffers # <<>> /\ q.lm.fault = "none"
           R(a) == IF Out(a) THEN HandOut(q) ELSE q
<1>1. /\ lm \in [End -> LinkMaster] /\ ls \in [End -> LinkSlave]
      /\ delivered \in [End -> Seq(Nat)]
      /\ \A x \in End : MasterOK(lm[x]) /\ SlaveOK(ls[x])
  BY DEF IInv, TypeOK
<1>2. PICK a \in BOOLEAN :
        /\ lm' = [lm EXCEPT ![e] = R(a).lm]
        /\ ls' = [ls EXCEPT ![e] =
                    [R(a).ls EXCEPT !.linkRxTx = StepDelay(R(a).ls.linkRxTx)]]
        /\ delivered' = IF Out(a)
             THEN [delivered EXCEPT ![e] = Append(@, q.ls.Buffers[1].id)]
             ELSE delivered
  BY DEF SlaveUpdate
<1>3. UNCHANGED <<wire, sent, noise>>
  BY DEF SlaveUpdate
<1>4. PairOK(q)
  BY <1>1, ReceiveLoopOK
<1> HIDE DEF q
<1>5. PairOK(R(a)) /\ (Out(a) => q.ls.Buffers[1].id \in Nat)
  BY <1>4, HandOutOK
<1> DEFINE r == R(a)
           s == [r.ls EXCEPT !.linkRxTx = StepDelay(r.ls.linkRxTx)]
<1>6. lm' = [lm EXCEPT ![e] = r.lm] /\ ls' = [ls EXCEPT ![e] = s]
  BY <1>2
<1>7. MasterOK(r.lm) /\ SlaveOK(r.ls)
  BY <1>5 DEF PairOK
<1>8. delivered' \in [End -> Seq(Nat)]
  <2>1. CASE Out(a)
    <3> DEFINE d == Append(delivered[e], q.ls.Buffers[1].id)
    <3>1. d \in Seq(Nat)
      BY <1>1, <1>5, <2>1, AppendProperties
    <3>2. delivered' = [delivered EXCEPT ![e] = d]
      BY <1>2, <2>1
    <3> HIDE DEF d
    <3> QED BY <1>1, <3>1, <3>2
  <2>2. CASE ~Out(a)
    BY <1>1, <1>2, <2>2
  <2> QED BY <2>1, <2>2
<1> HIDE DEF r
<1>9. SlaveOK(s)
  BY <1>7, StepDelayType, SetReceivedOK DEF SlaveOK, LinkSlave
<1> HIDE DEF s
<1>10. lm' \in [End -> LinkMaster] /\ \A x \in End : MasterOK(lm'[x])
  BY <1>1, <1>6, <1>7, MastersExcept
<1>11. ls' \in [End -> LinkSlave] /\ \A x \in End : SlaveOK(ls'[x])
  BY <1>1, <1>6, <1>9, SlavesExcept
<1> QED BY <1>3, <1>8, <1>10, <1>11 DEF IInv, TypeOK

\* Every step keeps it.
LEMMA NextIInv == IInv /\ [Next]_vars => IInv'
<1>1. SUFFICES ASSUME IInv, [Next]_vars PROVE IInv'
  OBVIOUS
<1>2. CASE UNCHANGED vars
  BY <1>1, <1>2 DEF vars, IInv, TypeOK
<1>3. ASSUME NEW e \in End, Submit(e) PROVE IInv'
  BY <1>1, <1>3, SubmitIInv
<1>4. ASSUME NEW e \in End, MasterUpdate(e) PROVE IInv'
  BY <1>1, <1>4, MasterUpdateIInv
<1>5. ASSUME NEW e \in End, NEW lastUpdate \in BOOLEAN, LinkUpdate(e, lastUpdate)
      PROVE  IInv'
  BY <1>1, <1>5, LinkUpdateIInv
<1>6. ASSUME NEW e \in End, SlaveUpdate(e) PROVE IInv'
  BY <1>1, <1>6, SlaveUpdateIInv
<1> QED BY <1>1, <1>2, <1>3, <1>4, <1>5, <1>6 DEF Next

\* The invariant holds of every behaviour of the link.
THEOREM InvariantHolds == Spec => []IInv
<1> QED BY InitIInv, NextIInv, PTL DEF Spec

\* Every field of every object keeps its type: pointers stay in the ring,
\* token counts and timers never go below zero.
THEOREM TypeCorrect == Spec => []TypeOK
<1>1. IInv => TypeOK
  BY DEF IInv
<1> QED BY <1>1, InvariantHolds, PTL

\* Whatever the lengths, clocks, noise and bounds, no buffer is cut inside a
\* packet.
THEOREM BuffersStayFramed == Spec => []BuffersFramed
<1>1. IInv => BuffersFramed
  BY DEF IInv, BuffersFramed, MasterOK, SlaveOK
<1> QED BY <1>1, InvariantHolds, PTL

\* The retry ring holds whole packets, between its two pointers only.
THEOREM RingStaysContiguous == Spec => []RingDiscipline
<1>1. IInv => RingDiscipline
  <2>1. SUFFICES ASSUME IInv, NEW e \in End
        PROVE /\ \A s \in Ptr : lm[e].retryBuffers[s] # NULL =>
                     s \in Slots(lm[e].retBufReadP, lm[e].retBufWriteP)
              /\ Chained(RetryWindow(lm[e]), Len(RetryWindow(lm[e])))
    BY DEF RingDiscipline
  <2>2. MasterOK(lm[e])
    BY <2>1 DEF IInv
  <2>3. \A s \in Ptr : lm[e].retryBuffers[s] # NULL =>
           s \in Slots(lm[e].retBufReadP, lm[e].retBufWriteP)
    BY <2>2 DEF MasterOK, RingOK
  <2> QED BY <2>2, <2>3, RetryWindowFramed
<1> QED BY <1>1, InvariantHolds, PTL

\* The ERROR branches of LinkMaster for a virtual tail in front and for an
\* occupied slot of the ring are dead code.
THEOREM NoFramingErrorEver == Spec => []NoFramingError
<1>1. IInv => NoFramingError
  BY DEF IInv, NoFramingError, MasterOK, FramingFault
<1> QED BY <1>1, InvariantHolds, PTL

\* ReturnTocken never reads a packet that is no longer in Buffers.
THEOREM CRCAlwaysHasPacket == Spec => []CRCHasPacket
<1>1. IInv => CRCHasPacket
  BY DEF IInv, CRCHasPacket, MasterOK
<1> QED BY <1>1, InvariantHolds, PTL
-----------------------------------------------------------------------------
(* The fixed order of the calls, and the clocks *)

\* Every call of the cycle is an action of LinkLayer or changes none of its
\* variables.
LEMMA CycleStep == [CNext]_cvars => [Next]_vars
<1>1. SUFFICES ASSUME [CNext]_cvars PROVE [Next]_vars
  OBVIOUS
<1>2. "host" \in End /\ "cube" \in End /\ TRUE \in BOOLEAN /\ FALSE \in BOOLEAN
  BY DEF End
<1>3. CASE UNCHANGED cvars
  BY <1>3 DEF cvars
<1>4. CASE \E e \in End : Submit(e) \/ MasterUpdate(e) \/ SlaveUpdate(e)
  BY <1>4 DEF Next
<1>5. CASE \E e \in End, last \in BOOLEAN : LinkUpdate(e, last)
  BY <1>5 DEF Next
<1>6. CASE Idle
  BY <1>6 DEF Idle
<1>7. CASE LinkTurn("downLink", "host", "cubeSlave") \/ LinkTurn("upLink", "cube", "hostSlave")
  BY <1>2, <1>5, <1>7 DEF LinkTurn
<1>8. CASE CubeSkips
  BY <1>6, <1>8 DEF CubeSkips
<1>9. CASE CubeSlaveTurn \/ HostSlaveTurn
  BY <1>2, <1>4, <1>9 DEF CubeSlaveTurn, HostSlaveTurn, SlaveTurn
<1>10. CASE CubeMasterTurn
  BY <1>2, <1>4, <1>10 DEF CubeMasterTurn
<1>11. CASE Submit("host") \/ Submit("cube") \/ MasterUpdate("host")
  BY <1>2, <1>4, <1>11
<1> QED BY <1>1, <1>3, <1>6, <1>7, <1>8, <1>9, <1>10, <1>11 DEF CNext

\* The cycle of CasHMCWrapper::Update implements the free interleaving.
THEOREM CycleImplementsLayer == CSpec => Spec
<1>1. CInit => Init
  BY DEF CInit
<1> QED BY <1>1, CycleStep, PTL DEF CSpec, Spec

\* In the order of the code the ERROR branches of LinkMaster for a virtual tail
\* in front and for an occupied slot of the ring are dead code.
THEOREM CycleNoFramingError == CSpec => []NoFramingError
BY CycleImplementsLayer, NoFramingErrorEver

-----------------------------------------------------------------------------
(* The clocks.  In a CPU cycle a clock first waits for its turn, is then   *)
(* served with updates, and waits for the end of the cycle.  The position  *)
(* in the order tells which; the counts are right before the updates for   *)
(* the CPU cycles before this one and after them for this one too.         *)

Right(k, n, cycles) ==
  /\ Period(k) * (n.clock - 1) <= CPU_CLK_PERIOD * cycles
  /\ CPU_CLK_PERIOD * cycles < Period(k) * n.clock

Before(k) == Right(k, tuner[k], tuner[k].tuner - 1)
After(k) == Right(k, tuner[k], tuner[k].tuner)

\* A clock that is not slower than the CPU updates in every CPU cycle; while it
\* does, it has made no update too many.
Fast(k) == k = "cube" => ~SlowCube
NotAhead(k, n) == Period(k) * n.clock <= CPU_CLK_PERIOD * n.tuner

\* A slower cube makes one update or none; the test comes first.
SlowServed == Before("cube") /\ (turn # "cubeSlave" => CubeDue)

ClockInv(k) ==
  IF turn \in Waiting(k) THEN Before(k)
  ELSE IF turn \notin Serving(k) THEN After(k)
  ELSE IF Fast(k) THEN NotAhead(k, tuner[k])
  ELSE SlowServed

CInv ==
  /\ turn \in Call
  /\ tuner \in [Clock -> Counts]
  /\ \A k \in Clock : ClockInv(k)

\* The periods of the clocks, and which of them is the smaller.
LEMMA PeriodsPositive ==
  ASSUME NEW k \in Clock
  PROVE  /\ Period(k) \in Nat /\ Period(k) > 0
         /\ CPU_CLK_PERIOD \in Nat /\ CPU_CLK_PERIOD > 0
         /\ Fast(k) => Period(k) <= CPU_CLK_PERIOD
BY CycleConstants DEF Period, Fast, SlowCube, Clock

\* The calls of a cycle around the updates of each clock.
LEMMA Phases ==
  /\ Waiting("downLink") = {"controller", "hostMaster"}
  /\ Waiting("cube") = {"controller", "hostMaster", "downLink"}
  /\ Waiting("upLink") =
       {"controller", "hostMaster", "downLink", "cubeSlave", "crossbar", "cubeMaster"}
  /\ Serving("downLink") = {"downLink"}
  /\ Serving("upLink") = {"upLink"}
  /\ Serving("cube") = {"cubeSlave", "crossbar", "cubeMaster"}
BY DEF Waiting, Serving

\* A fast clock whose turn comes has at least one update to make.
LEMMA TurnComes ==
  ASSUME NEW k \in Clock, NEW n \in Counts, Fast(k), Right(k, n, n.tuner - 1)
  PROVE  NotAhead(k, n)
<1> DEFINE T == Period(k)
           C == CPU_CLK_PERIOD
<1>1. T \in Nat /\ C \in Nat /\ T <= C /\ n.clock \in Nat /\ n.tuner \in Nat
  BY PeriodsPositive DEF Counts
<1>2. T * (n.clock - 1) <= C * (n.tuner - 1)
  BY DEF Right
<1>3. T * (n.clock - 1) = T * n.clock - T /\ C * (n.tuner - 1) = C * n.tuner - C
  BY <1>1
<1>4. T * n.clock \in Nat /\ C * n.tuner \in Nat
  BY <1>1
<1>5. T * n.clock <= C * n.tuner
  BY <1>1, <1>2, <1>3, <1>4
<1> QED BY <1>5 DEF NotAhead

\* Its updates before the last one never take it ahead, the meeting of the two
\* clocks included; the last one of the cycle makes it right.
LEMMA FastUpdate ==
  ASSUME NEW k \in Clock, tuner \in [Clock -> Counts], NotAhead(k, tuner[k])
  PROVE  /\ Faster(k) \in Counts /\ Tick(tuner[k]) \in Counts
         /\ Again(k) => NotAhead(k, Faster(k))
         /\ ~Again(k) => Right(k, Tick(tuner[k]), Tick(tuner[k]).tuner)
<1> DEFINE n == tuner[k]
           T == Period(k)
           C == CPU_CLK_PERIOD
<1>1. n \in Counts /\ n.clock \in Nat /\ n.tuner \in Nat /\ T \in Nat /\ C \in Nat
  BY PeriodsPositive DEF Counts
<1>2. T * (n.clock + 1) = T * n.clock + T /\ T * n.clock \in Nat /\ C * n.tuner \in Nat
  BY <1>1
<1>3. Tick(n) \in Counts /\ Tick(n).clock = n.clock + 1 /\ Tick(n).tuner = n.tuner
  BY <1>1 DEF Tick, Counts
<1>4. Met \in Counts /\ NotAhead(k, Met)
  BY <1>1 DEF Met, Counts, NotAhead
<1>5. Faster(k) \in Counts
  BY <1>3, <1>4 DEF Faster
<1>6. ASSUME Again(k) PROVE NotAhead(k, Faster(k))
  <2>1. CASE C * n.tuner = T * (n.clock + 1)
    BY <1>4, <2>1 DEF Faster
  <2>2. CASE C * n.tuner # T * (n.clock + 1)
    <3>1. C * n.tuner >= T * (n.clock + 1)
      BY <1>6 DEF Again
    <3>2. Faster(k) = Tick(n)
      BY <2>2 DEF Faster
    <3> QED BY <1>1, <1>2, <1>3, <3>1, <3>2 DEF NotAhead
  <2> QED BY <2>1, <2>2
<1>7. ASSUME ~Again(k) PROVE Right(k, Tick(n), Tick(n).tuner)
  <2>1. ~(C * n.tuner >= T * (n.clock + 1))
    BY <1>7 DEF Again
  <2>2. T * n.clock <= C * n.tuner
    BY DEF NotAhead
  <2>3. T * ((n.clock + 1) - 1) = T * n.clock
    BY <1>1
  <2> QED BY <1>1, <1>2, <1>3, <2>1, <2>2, <2>3 DEF Right
<1> QED BY <1>3, <1>5, <1>6, <1>7

\* A slower cube is right after a CPU cycle in which it does not update ...
LEMMA SlowSkip ==
  ASSUME tuner \in [Clock -> Counts], Before("cube"), ~CubeDue
  PROVE  After("cube")
<1> DEFINE n == tuner["cube"]
           T == Period("cube")
           C == CPU_CLK_PERIOD
<1>1. n.clock \in Nat /\ n.tuner \in Nat /\ T \in Nat /\ C \in Nat /\ T = tCK
  BY PeriodsPositive DEF Counts, Clock, Period
<1>2. C * (n.tuner - 1) = C * n.tuner - C /\ C * n.tuner \in Nat /\ T * n.clock \in Nat
  BY <1>1
<1>3. T * (n.clock - 1) <= C * (n.tuner - 1) /\ ~(C * n.tuner >= T * n.clock)
  BY <1>1 DEF Before, Right, CubeDue
<1>4. T * (n.clock - 1) \in Int
  BY <1>1
<1> QED BY <1>1, <1>2, <1>3, <1>4 DEF After, Right

\* ... and after one in which it does.
LEMMA SlowUpdate ==
  ASSUME tuner \in [Clock -> Counts], Before("cube"), CubeDue, SlowCube
  PROVE  Slower \in Counts /\ Right("cube", Slower, Slower.tuner)
<1> DEFINE n == tuner["cube"]
           T == Period("cube")
           C == CPU_CLK_PERIOD
<1>1. /\ n \in Counts /\ n.clock \in Nat /\ n.tuner \in Nat
      /\ T \in Nat /\ T > 0 /\ C \in Nat /\ C <= T /\ T = tCK
  BY PeriodsPositive DEF Counts, Clock, Period, SlowCube
<1>2. CASE C * n.tuner = T * n.clock
  <2>1. Slower = Tick(Met)
    BY <1>1, <1>2 DEF Slower
  <2>2. Tick(Met) = [tuner |-> 0, clock |-> 1]
    BY DEF Tick, Met
  <2> QED BY <1>1, <2>1, <2>2 DEF Right, Counts
<1>3. CASE C * n.tuner # T * n.clock
  <2>1. Slower = Tick(n)
    BY <1>1, <1>3 DEF Slower
  <2>2. Tick(n) \in Counts /\ Tick(n).clock = n.clock + 1 /\ Tick(n).tuner = n.tuner
    BY <1>1 DEF Tick, Counts
  <2>3. C * (n.tuner - 1) < T * n.clock /\ C * n.tuner >= T * n.clock
    BY <1>1 DEF Before, Right, CubeDue
  <2>4. /\ C * (n.tuner - 1) = C * n.tuner - C /\ T * (n.clock + 1) = T * n.clock + T
        /\ T * ((n.clock + 1) - 1) = T * n.clock
        /\ C * n.tuner \in Nat /\ T * n.clock \in Nat
    BY <1>1
  <2> QED BY <1>1, <2>1, <2>2, <2>3, <2>4 DEF Right
<1> QED BY <1>2, <1>3

\* The steps in which neither a count nor the phase of clock k changes, or in
\* which the turn of k comes.
LEMMA ClockWaits ==
  ASSUME NEW k \in Clock, CInv, turn' \in Call, tuner'[k] = tuner[k],
         \/ turn \in Waiting(k) /\ turn' \in Waiting(k)
         \/ turn \in Waiting(k) /\ turn' \in Serving(k) /\ turn' \in {k, "cubeSlave"}
         \/ turn \notin Waiting(k) \cup Serving(k) /\ turn' \notin Waiting(k) \cup Serving(k)
  PROVE  ClockInv(k)'
<1>1. tuner[k] \in Counts /\ ClockInv(k)
  BY DEF CInv
<1>2. /\ Before(k)' <=> Before(k)
      /\ After(k)' <=> After(k)
  BY DEF Before, After, Right, Period
<1>3. Waiting(k) \cap Serving(k) = {}
  BY Phases DEF Clock
<1>4. CASE turn \in Waiting(k) /\ turn' \in Serving(k) /\ turn' \in {k, "cubeSlave"}
  <2>1. Before(k) /\ turn' \notin Waiting(k)
    BY <1>1, <1>3, <1>4 DEF ClockInv
  <2>2. CASE Fast(k)
    <3>1. NotAhead(k, tuner[k])
      BY <1>1, <2>1, <2>2, TurnComes DEF Before
    <3>2. NotAhead(k, tuner[k])'
      BY <3>1 DEF NotAhead, Period
    <3> QED BY <1>4, <2>1, <2>2, <3>2 DEF ClockInv, Fast, Serving, Waiting, SlowCube
  <2>3. CASE ~Fast(k)
    <3>1. k = "cube" /\ turn' = "cubeSlave"
      BY <1>4, <2>3, Phases DEF Fast
    <3>2. SlowServed'
      BY <1>2, <2>1, <3>1 DEF SlowServed
    <3> QED BY <1>4, <2>1, <2>3, <3>2 DEF ClockInv, Fast, Serving, Waiting, SlowCube
  <2> QED BY <2>2, <2>3
<1>5. CASE turn \in Waiting(k) /\ turn' \in Waiting(k)
  BY <1>1, <1>2, <1>5 DEF ClockInv, Waiting, Serving
<1>6. CASE turn \notin Waiting(k) \cup Serving(k) /\ turn' \notin Waiting(k) \cup Serving(k)
  BY <1>1, <1>2, <1>6 DEF ClockInv, Waiting, Serving
<1> QED BY <1>4, <1>5, <1>6

\* The updates of a link in one CPU cycle.
LEMMA LinkServed ==
  ASSUME NEW k \in {"downLink", "upLink"}, NEW e \in End, NEW next \in Call,
         CInv, LinkTurn(k, e, next), next \notin Waiting(k) \cup Serving(k)
  PROVE  /\ tuner' \in [Clock -> Counts] /\ turn' \in Call
         /\ ClockInv(k)'
         /\ turn = k /\ turn' \in {k, next}
         /\ \A j \in Clock \ {k} : tuner'[j] = tuner[j]
<1>1. /\ k \in Clock /\ Fast(k) /\ k \in Call /\ turn = k
      /\ k \in Serving(k) /\ k \notin Waiting(k)
  BY Phases DEF Clock, Fast, Call, LinkTurn
<1>2. tuner \in [Clock -> Counts] /\ NotAhead(k, tuner[k])
  BY <1>1 DEF CInv, ClockInv
<1>3. /\ Faster(k) \in Counts /\ Tick(tuner[k]) \in Counts
      /\ Again(k) => NotAhead(k, Faster(k))
      /\ ~Again(k) => Right(k, Tick(tuner[k]), Tick(tuner[k]).tuner)
  BY <1>1, <1>2, FastUpdate
<1>4. CASE Again(k) /\ Update(k, Faster(k)) /\ turn' = k
  <2>1. tuner' \in [Clock -> Counts] /\ tuner'[k] = Faster(k)
    BY <1>1, <1>2, <1>3, <1>4 DEF Update
  <2>2. NotAhead(k, tuner[k])'
    BY <1>3, <1>4, <2>1 DEF NotAhead, Period
  <2>3. ClockInv(k)'
    BY <1>1, <1>4, <2>2 DEF ClockInv, Waiting, Serving, Fast, SlowCube
  <2> QED BY <1>1, <1>2, <1>4, <2>1, <2>3 DEF Update
<1>5. CASE ~Again(k) /\ Update(k, Tick(tuner[k])) /\ turn' = next
  <2>1. tuner' \in [Clock -> Counts] /\ tuner'[k] = Tick(tuner[k])
    BY <1>1, <1>2, <1>3, <1>5 DEF Update
  <2>2. After(k)'
    BY <1>3, <1>5, <2>1 DEF After, Right, Period
  <2>3. ClockInv(k)'
    BY <1>5, <2>2 DEF ClockInv, Waiting, Serving
  <2> QED BY <1>1, <1>2, <1>5, <2>1, <2>3 DEF Update
<1> QED BY <1>4, <1>5 DEF LinkTurn

\* The last call of an update of the cube, and with it the update itself.
LEMMA CubeServed ==
  ASSUME CInv, CubeMasterTurn
  PROVE  /\ tuner' \in [Clock -> Counts] /\ turn' \in {"cubeSlave", "upLink"}
         /\ ClockInv("cube")'
         /\ turn = "cubeMaster"
         /\ \A j \in Clock \ {"cube"} : tuner'[j] = tuner[j]
<1>1. /\ "cube" \in Clock /\ turn = "cubeMaster"
      /\ "cubeMaster" \in Serving("cube") /\ "cubeMaster" \notin Waiting("cube")
  BY Phases DEF Clock, CubeMasterTurn
<1>2. tuner \in [Clock -> Counts] /\ ClockInv("cube")
  BY <1>1 DEF CInv
<1>3. "upLink" \notin Waiting("cube") \cup Serving("cube") /\ "cubeSlave" \in Serving("cube") \ Waiting("cube")
  BY Phases
<1>4. ASSUME NEW n \in Counts, Update("cube", n)
      PROVE  /\ tuner' \in [Clock -> Counts] /\ tuner'["cube"] = n
             /\ \A j \in Clock \ {"cube"} : tuner'[j] = tuner[j]
  BY <1>1, <1>2, <1>4 DEF Update
<1>5. ASSUME NEW n \in Counts, Update("cube", n), turn' = "upLink", Right("cube", n, n.tuner)
      PROVE  ClockInv("cube")'
  <2>1. After("cube")'
    BY <1>4, <1>5 DEF After, Right, Period
  <2> QED BY <1>3, <1>5, <2>1 DEF ClockInv, Waiting, Serving
<1>6. CASE SlowCube /\ Update("cube", Slower) /\ turn' = "upLink"
  <2>1. Before("cube") /\ CubeDue
    BY <1>1, <1>2, <1>6 DEF ClockInv, Fast, SlowServed
  <2>2. Slower \in Counts /\ Right("cube", Slower, Slower.tuner)
    BY <1>2, <1>6, <2>1, SlowUpdate
  <2> QED BY <1>1, <1>4, <1>5, <1>6, <2>2
<1>7. CASE ~SlowCube
  <2>1. NotAhead("cube", tuner["cube"]) /\ Fast("cube")
    BY <1>1, <1>2, <1>7 DEF ClockInv, Fast
  <2>2. /\ Faster("cube") \in Counts /\ Tick(tuner["cube"]) \in Counts
        /\ Again("cube") => NotAhead("cube", Faster("cube"))
        /\ ~Again("cube") =>
             Right("cube", Tick(tuner["cube"]), Tick(tuner["cube"]).tuner)
    BY <1>1, <1>2, <2>1, FastUpdate
  <2>3. CASE Again("cube") /\ Update("cube", Faster("cube")) /\ turn' = "cubeSlave"
    <3>1. tuner'["cube"] = Faster("cube")
      BY <1>4, <2>2, <2>3
    <3>2. NotAhead("cube", tuner["cube"])'
      BY <2>2, <2>3, <3>1 DEF NotAhead, Period
    <3>3. ClockInv("cube")'
      BY <1>3, <1>7, <2>3, <3>2 DEF ClockInv, Waiting, Serving, Fast, SlowCube
    <3> QED BY <1>1, <1>4, <2>2, <2>3, <3>3
  <2>4. CASE ~Again("cube") /\ Update("cube", Tick(tuner["cube"])) /\ turn' = "upLink"
    BY <1>1, <1>4, <1>5, <2>2, <2>4
  <2> QED BY <1>7, <2>3, <2>4 DEF CubeMasterTurn
<1> QED BY <1>6, <1>7 DEF CubeMasterTurn

\* The clocks start as the invariant says.
LEMMA ClocksStart == CInit => CInv
<1> SUFFICES ASSUME CInit PROVE CInv
  OBVIOUS
<1>1. turn = "controller" /\ turn \in Call /\ tuner = [k \in Clock |-> [tuner |-> 1, clock |-> 1]]
  BY DEF CInit, Call
<1>2. ASSUME NEW k \in Clock PROVE ClockInv(k)
  <2>1. turn \in Waiting(k)
    BY <1>1, Phases DEF Clock
  <2>2. Before(k)
    BY <1>1, PeriodsPositive DEF Before, Right
  <2> QED BY <2>1, <2>2 DEF ClockInv
<1> QED BY <1>1, <1>2 DEF CInv, Counts

\* Every turn of the clock scheduler keeps the invariant.
LEMMA ClocksStep == CInv /\ [CNext]_cvars => CInv'
<1> SUFFICES ASSUME CInv, [CNext]_cvars PROVE CInv'
  OBVIOUS
<1>1. tuner \in [Clock -> Counts] /\ turn \in Call
  BY DEF CInv
<1>2. {"downLink", "upLink", "cube"} = Clock /\ "host" \in End /\ "cube" \in End
  BY DEF Clock, End
<1>3. CASE UNCHANGED cvars
  BY <1>3 DEF cvars, CInv, ClockInv, Before, After, Right, NotAhead, Period, Fast,
              SlowServed, SlowCube, CubeDue, Waiting, Serving
<1>4. CASE Pass("controller", "hostMaster")
  BY <1>1, <1>4, ClockWaits, Phases, <1>2 DEF Pass, CInv, Call
<1>5. CASE Pass("hostMaster", "downLink")
  BY <1>1, <1>5, ClockWaits, Phases, <1>2 DEF Pass, CInv, Call
<1>6. CASE LinkTurn("downLink", "host", "cubeSlave")
  <2>1. "cubeSlave" \in Call /\ "cubeSlave" \notin Waiting("downLink") \cup Serving("downLink")
    BY Phases DEF Call
  <2>2. /\ tuner' \in [Clock -> Counts] /\ turn' \in Call
        /\ ClockInv("downLink")'
        /\ turn = "downLink" /\ turn' \in {"downLink", "cubeSlave"}
        /\ \A j \in Clock \ {"downLink"} : tuner'[j] = tuner[j]
    BY <1>2, <1>6, <2>1, LinkServed
  <2>3. ClockInv("cube")' /\ ClockInv("upLink")'
    BY <1>2, <2>2, ClockWaits, Phases
  <2> QED BY <1>2, <2>2, <2>3 DEF CInv
<1>7. CASE CubeSkips
  <2>1. turn = "cubeSlave" /\ turn' = "upLink" /\ tuner' = tuner /\ SlowCube /\ ~CubeDue
    BY <1>7 DEF CubeSkips, Pass
  <2>2. ClockInv("downLink")' /\ ClockInv("upLink")'
    BY <1>2, <2>1, ClockWaits, Phases DEF Call
  <2>3. SlowServed
    BY <1>2, <2>1, Phases DEF CInv, ClockInv, Fast
  <2>4. After("cube")
    BY <1>1, <2>1, <2>3, SlowSkip DEF SlowServed
  <2>5. After("cube")'
    BY <2>1, <2>4 DEF After, Right, Period
  <2>6. ClockInv("cube")'
    BY <2>1, <2>5 DEF ClockInv, Waiting, Serving
  <2> QED BY <1>1, <1>2, <2>1, <2>2, <2>6 DEF CInv, Call
<1>8. CASE CubeSlaveTurn \/ Pass("crossbar", "crossbar") \/ Pass("crossbar", "cubeMaster")
  <2>1. /\ turn \in {"cubeSlave", "crossbar"} /\ turn' \in {"crossbar", "cubeMaster"}
        /\ tuner' = tuner
        /\ turn = "cubeSlave" => (SlowCube => CubeDue)
    BY <1>8 DEF CubeSlaveTurn, Pass
  <2>2. ClockInv("downLink")' /\ ClockInv("upLink")'
    BY <1>2, <2>1, ClockWaits, Phases DEF Call
  <2>3. /\ turn \in Serving("cube") /\ turn \notin Waiting("cube")
        /\ turn' \in Serving("cube") /\ turn' \notin Waiting("cube")
    BY <2>1, Phases
  <2>4. IF Fast("cube") THEN NotAhead("cube", tuner["cube"]) ELSE SlowServed /\ CubeDue
    BY <1>2, <2>1, <2>3 DEF CInv, ClockInv, Fast, SlowServed
  <2>5. IF Fast("cube")' THEN NotAhead("cube", tuner["cube"])' ELSE SlowServed'
    BY <2>1, <2>4 DEF Fast, NotAhead, SlowServed, SlowCube, CubeDue, Before, Right, Period
  <2>6. ClockInv("cube")'
    BY <2>3, <2>5 DEF ClockInv, Waiting, Serving
  <2> QED BY <1>1, <1>2, <2>1, <2>2, <2>6 DEF CInv, Call
<1>9. CASE CubeMasterTurn
  <2>1. /\ tuner' \in [Clock -> Counts] /\ turn' \in {"cubeSlave", "upLink"}
        /\ ClockInv("cube")'
        /\ turn = "cubeMaster"
        /\ \A j \in Clock \ {"cube"} : tuner'[j] = tuner[j]
    BY <1>9, CubeServed
  <2>2. ClockInv("downLink")' /\ ClockInv("upLink")'
    BY <1>2, <2>1, ClockWaits, Phases DEF Call
  <2> QED BY <1>2, <2>1, <2>2 DEF CInv, Call
<1>10. CASE LinkTurn("upLink", "cube", "hostSlave")
  <2>1. "hostSlave" \in Call /\ "hostSlave" \notin Waiting("upLink") \cup Serving("upLink")
    BY Phases DEF Call
  <2>2. /\ tuner' \in [Clock -> Counts] /\ turn' \in Call
        /\ ClockInv("upLink")'
        /\ turn = "upLink" /\ turn' \in {"upLink", "hostSlave"}
        /\ \A j \in Clock \ {"upLink"} : tuner'[j] = tuner[j]
    BY <1>2, <1>10, <2>1, LinkServed
  <2>3. ClockInv("cube")' /\ ClockInv("downLink")'
    BY <1>2, <2>2, ClockWaits, Phases
  <2> QED BY <1>2, <2>2, <2>3 DEF CInv
<1>11. CASE HostSlaveTurn
  <2>1. /\ turn = "hostSlave" /\ turn' = "controller"
        /\ tuner' = [k \in Clock |-> [tuner[k] EXCEPT !.tuner = @ + 1]]
    BY <1>11 DEF HostSlaveTurn
  <2>2. ASSUME NEW k \in Clock PROVE ClockInv(k)' /\ tuner'[k] \in Counts
    <3>1. turn \notin Waiting(k) \cup Serving(k) /\ turn' \in Waiting(k)
      BY <2>1, Phases DEF Clock
    <3>2. tuner[k] \in Counts /\ After(k)
      BY <1>1, <3>1 DEF CInv, ClockInv
    <3>3. tuner'[k] = [clock |-> tuner[k].clock, tuner |-> tuner[k].tuner + 1]
      BY <2>1, <3>2 DEF Counts
    <3>4. tuner'[k].clock = tuner[k].clock /\ tuner'[k].tuner - 1 = tuner[k].tuner
      BY <3>2, <3>3 DEF Counts
    <3>5. Before(k)'
      BY <3>2, <3>4 DEF Before, After, Right, Period
    <3> QED BY <3>1, <3>2, <3>3, <3>5 DEF ClockInv, Waiting, Serving, Counts
  <2> QED BY <2>1, <2>2 DEF CInv, Call
<1> QED BY <1>3, <1>4, <1>5, <1>6, <1>7, <1>8, <1>9, <1>10, <1>11 DEF CNext

\* The links and the cube make as many updates as their clocks tick, CPU cycle
\* by CPU cycle, for all periods that the constructor allows.
THEOREM ClocksStayInStep == CSpec => []ClocksInStep
<1>1. CInv => ClocksInStep
  BY DEF CInv, ClocksInStep, ClockInv, InStep, Passed, Before, After, Right
<1> QED BY <1>1, ClocksStart, ClocksStep, PTL DEF CSpec
=============================================================================
