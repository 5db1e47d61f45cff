--------------------------- MODULE CrossbarProofs ---------------------------
(***************************************************************************)
(* Theorems about Crossbar.  The invariant has two halves.  The buffers    *)
(* are made of whole packets (Shaped).  And the packets are accounted for  *)
(* (Balanced): how many there are of a kind on their way to a vault and    *)
(* back, set aside, or at a link, against what pendingSegTag notes and the *)
(* requests that were made.  A step of the crossbar only takes packets out *)
(* of buffers and puts packets in, so each one is shown twice, for the     *)
(* buffers with the laws of framed sequences and for the accounts by       *)
(* arithmetic.                                                             *)
(***************************************************************************)
EXTENDS Crossbar, QueueProofs

\* A buffer of whole packets.
Buffers == {b \in Seq(Flit) : Framed(b)}

\* Is p of this kind?
Has(p, P) == IF p \in P THEN 1 ELSE 0

\* What the constants are.
LEMMA Sizes ==
  /\ NUM_VAULTS \in Nat \ {0} /\ NUM_LINKS \in Nat \ {0} /\ ADDRESS_MAPPING \in Nat \ {0}
  /\ MAX_TAG \in Nat \ {0} /\ MAX_CROSS_BUF \in Nat /\ MAX_VLT_BUF \in Nat
  /\ MAX_LINK_BUF \in Nat /\ MaxRequests \in Nat
  /\ NULL \notin Packet
  BY CrossbarConstants, NullIsNoPacket

\* The fields of a packet.
LEMMA PacketFields ==
  ASSUME NEW p \in Packet
  PROVE  /\ p # NULL /\ p \in Flit /\ p.lng \in Nat \ {0} /\ p.tag \in Tags
         /\ p.trace \in 0 .. MaxRequests /\ p.segment \in BOOLEAN /\ p.adrs \in Nat
         /\ p.reqDataSize \in Nat /\ p.op \in {"READ", "WRITE"}
  BY NullIsNoPacket DEF Packet, Flit
-----------------------------------------------------------------------------
(* Framed sequences *)

\* Two sequences joined, by places.
LEMMA JoinPlaces ==
  ASSUME NEW S, NEW a \in Seq(S), NEW b \in Seq(S)
  PROVE  /\ a \o b \in Seq(S) /\ Len(a \o b) = Len(a) + Len(b)
         /\ Len(a) \in Nat /\ Len(b) \in Nat
         /\ DOMAIN a = 1 .. Len(a) /\ DOMAIN b = 1 .. Len(b)
         /\ DOMAIN (a \o b) = 1 .. Len(a) + Len(b)
         /\ \A i \in 1 .. Len(a) : (a \o b)[i] = a[i]
         /\ \A i \in 1 .. Len(b) : (a \o b)[Len(a) + i] = b[i]
  BY ConcatProperties

\* A sequence with an element put in front.
LEMMA FrontLaws ==
  ASSUME NEW S, NEW v \in S, NEW y \in Seq(S)
  PROVE  /\ <<v>> \o y \in Seq(S) /\ Len(<<v>> \o y) = 1 + Len(y) /\ (<<v>> \o y)[1] = v
         /\ \A i \in 1 .. Len(y) : (<<v>> \o y)[1 + i] = y[i]
<1>1. <<v>> \in Seq(S) /\ Len(<<v>>) = 1 /\ <<v>>[1] = v /\ 1 \in 1 .. 1
  OBVIOUS
<1> DEFINE h == <<v>>
           z == h \o y
<1>2. h \in Seq(S) /\ Len(h) = 1 /\ h[1] = v
  BY <1>1
<1> HIDE DEF h
<1>3. /\ z \in Seq(S) /\ Len(z) = Len(h) + Len(y) /\ Len(y) \in Nat
  BY <1>2, JoinPlaces
<1>4. \A i \in 1 .. Len(h) + Len(y) : z[i] = IF i <= Len(h) THEN h[i] ELSE y[i - Len(h)]
  BY <1>2, ConcatProperties
<1>5. \A i \in 1 .. Len(y) : 1 + i \in 1 .. Len(h) + Len(y) /\ ~(1 + i <= Len(h)) /\ (1 + i) - Len(h) = i
  BY <1>2, <1>3
<1> HIDE DEF z
<1>6. z \in Seq(S) /\ Len(z) = 1 + Len(y) /\ z[1] = v /\ \A i \in 1 .. Len(y) : z[1 + i] = y[i]
  BY <1>1, <1>2, <1>3, <1>4, <1>5
<1> QED BY <1>6 DEF z, h

\* An empty buffer.
LEMMA EmptyBuffer == <<>> \in Buffers
  BY DEF Buffers, Framed, HeadsOf

\* A packet and its tails.
LEMMA FlitsLaws ==
  ASSUME NEW p \in Packet
  PROVE  /\ Flits(p) \in Seq(Flit) /\ Len(Flits(p)) = p.lng /\ DOMAIN Flits(p) = 1 .. p.lng
         /\ Flits(p)[1] = p /\ \A i \in 2 .. p.lng : Flits(p)[i] = NULL
         /\ Flits(p) \in Buffers /\ Flits(p) # <<>>
<1> DEFINE t == [k \in 1 .. p.lng - 1 |-> NULL]
           h == <<p>>
           f == h \o t
<1>1. p # NULL /\ p \in Flit /\ p.lng \in Nat \ {0} /\ NULL \in Flit
  BY PacketFields DEF Flit
<1>2. /\ t \in Seq(Flit) /\ Len(t) = p.lng - 1 /\ h \in Seq(Flit) /\ Len(h) = 1 /\ h[1] = p
      /\ \A i \in 1 .. p.lng - 1 : t[i] = NULL
  BY <1>1
<1>3. Flits(p) = f
  BY DEF Flits
<1> HIDE DEF t, h, f
<1>4. f \in Seq(Flit) /\ Len(f) = p.lng /\ DOMAIN f = 1 .. p.lng /\ f[1] = p
  BY SMTT(60), <1>1, <1>2, JoinPlaces DEF f
<1>5. \A i \in 2 .. p.lng : f[i] = NULL
  <2>1. \A i \in 1 .. p.lng - 1 : f[1 + i] = t[i]
    <3>1. \A i \in 1 .. Len(t) : f[Len(h) + i] = t[i]
      <4>1. h \in Seq(Flit) /\ t \in Seq(Flit)
        BY <1>2
      <4> QED BY ONLY <4>1, JoinPlaces DEF f
    <3> QED BY <1>2, <3>1
  <2>2. \A i \in 2 .. p.lng : i - 1 \in 1 .. p.lng - 1 /\ 1 + (i - 1) = i
    BY <1>1
  <2> QED BY <1>2, <2>1, <2>2
<1>6. Framed(f)
  <2>1. HeadsOf(f) = {1}
    BY <1>1, <1>4, <1>5 DEF HeadsOf
  <2> QED BY <1>1, <1>4, <1>5, <2>1 DEF Framed, Follows
<1> QED BY <1>1, <1>3, <1>4, <1>5, <1>6 DEF Buffers

\* Whole packets followed by whole packets.
LEMMA JoinBuffers ==
  ASSUME NEW a \in Buffers, NEW b \in Buffers
  PROVE  a \o b \in Buffers
<1> DEFINE c == a \o b
           m == Len(a)
           n == Len(b)
<1>1. a \in Seq(Flit) /\ b \in Seq(Flit) /\ Framed(a) /\ Framed(b)
  BY DEF Buffers
<1>2. /\ c \in Seq(Flit) /\ Len(c) = m + n /\ m \in Nat /\ n \in Nat
      /\ DOMAIN a = 1 .. m /\ DOMAIN b = 1 .. n /\ DOMAIN c = 1 .. m + n
      /\ \A i \in 1 .. m : c[i] = a[i]
      /\ \A i \in 1 .. n : c[m + i] = b[i]
  BY <1>1, JoinPlaces
<1>3. n > 0 => b[1] # NULL
  BY <1>1 DEF Framed
<1>4. m > 0 => a[1] # NULL
  BY <1>1 DEF Framed
<1> HIDE DEF c, m, n
<1>5. m + n > 0 => c[1] # NULL
  <2>1. CASE m > 0
    <3>1. 1 \in 1 .. m
      BY <1>2, <2>1
    <3> QED BY <1>2, <1>4, <2>1, <3>1
  <2>2. CASE m = 0 /\ n > 0
    <3>1. 1 \in 1 .. n /\ m + 1 = 1
      BY <1>2, <2>2
    <3> QED BY <1>2, <1>3, <2>2, <3>1
  <2> QED BY <1>2, <2>1, <2>2
<1>6. ASSUME NEW i \in DOMAIN c, c[i] # NULL
      PROVE  Follows(c, i, c[i].lng)
  <2>1. PICK l \in Nat \ {0} : l = c[i].lng
    <3>1. c[i] \in Packet
      BY <1>2, <1>6 DEF Flit
    <3> QED BY <3>1, PacketFields
  <2>2. CASE i <= m
    <3>1. i \in 1 .. m /\ c[i] = a[i]
      BY <1>2, <2>2
    <3>2. /\ i + l <= m + 1
          /\ \A k \in i + 1 .. i + l - 1 : a[k] = NULL
          /\ i + l <= m => a[i + l] # NULL
      <4>1. i \in HeadsOf(a) /\ a[i].lng = l /\ Len(a) = m
        BY <1>2, <1>6, <2>1, <3>1 DEF HeadsOf, m
      <4> QED BY <1>1, <4>1 DEF Framed, Follows
    <3>3. \A k \in i + 1 .. i + l - 1 : k \in 1 .. m
      BY <1>2, <3>1, <3>2
    <3>4. i + l <= m + n => c[i + l] # NULL
      <4>1. CASE i + l <= m
        <5>1. i + l \in 1 .. m
          BY <1>2, <2>1, <3>1, <4>1
        <5> QED BY <1>2, <3>2, <4>1, <5>1
      <4>2. CASE i + l = m + 1
        BY <1>2, <1>3, <4>2
      <4> QED BY <1>2, <2>1, <3>1, <3>2, <4>1, <4>2
    <3>5. i + l <= m + n + 1
      BY <1>2, <2>1, <3>1, <3>2
    <3>6. \A k \in i + 1 .. i + l - 1 : c[k] = NULL
      BY <1>2, <3>2, <3>3
    <3> QED BY <1>2, <2>1, <3>4, <3>5, <3>6 DEF Follows
  <2>3. CASE i > m
    <3>1. PICK j \in 1 .. n : i = m + j
      <4>1. i - m \in 1 .. n /\ i = m + (i - m)
        BY <1>2, <2>3
      <4> QED BY <4>1
    <3>2. c[i] = b[j] /\ j \in HeadsOf(b) /\ b[j].lng = l /\ Len(b) = n
      BY <1>2, <1>6, <2>1, <3>1 DEF HeadsOf, n
    <3>3. /\ j + l <= n + 1
          /\ \A k \in j + 1 .. j + l - 1 : b[k] = NULL
          /\ j + l <= n => b[j + l] # NULL
      BY <1>1, <3>2 DEF Framed, Follows
    <3>31. j + l <= n + 1
      BY <3>3
    <3>4. ASSUME NEW k \in i + 1 .. i + l - 1 PROVE c[k] = NULL
      <4>1. k - m \in j + 1 .. j + l - 1 /\ k - m \in 1 .. n /\ m + (k - m) = k
        <5>1. k \in Int /\ i + 1 <= k /\ k <= i + l - 1 /\ j \in Nat /\ 1 <= j /\ j <= n
          BY <1>2, <2>1, <3>1
        <5>2. k - m >= j + 1 /\ k - m <= j + l - 1
          BY SMTT(60), <1>2, <2>1, <3>1, <5>1
        <5>3. \A x, y, z, u \in Int : x <= y + z - 1 /\ y + z <= u + 1 => x <= u
          OBVIOUS
        <5>4. k - m \in Int /\ j \in Int /\ l \in Int /\ n \in Int
          BY <1>2, <2>1, <5>1
        <5>5. k - m <= n
          BY ONLY <5>2, <5>3, <5>4, <3>31
        <5>6. k - m >= 1
          BY <5>1, <5>2, <5>4
        <5> QED BY <1>2, <5>1, <5>2, <5>4, <5>5, <5>6
      <4> QED BY <1>2, <3>3, <4>1
    <3>5. i + l <= m + n => c[i + l] # NULL
      <4>1. i + l <= m + n => j + l \in 1 .. n /\ m + (j + l) = i + l
        BY SMTT(60), <1>2, <2>1, <3>1
      <4> QED BY <1>2, <3>3, <4>1
    <3> QED BY SMTT(60), <1>2, <2>1, <3>1, <3>31, <3>4, <3>5 DEF Follows
  <2> QED BY <1>2, <2>2, <2>3
<1>7. Framed(c)
  <2>1. c # <<>> => c[1] # NULL
    BY <1>2, <1>5
  <2> QED BY <1>6, <2>1 DEF Framed, HeadsOf
<1> QED BY <1>2, <1>7 DEF Buffers, c

\* A sequence is what comes before a place and what comes behind it.
LEMMA CutSeq ==
  ASSUME NEW S, NEW s \in Seq(S), NEW k \in 0 .. Len(s)
  PROVE  /\ SubSeq(s, 1, k) \in Seq(S) /\ Len(SubSeq(s, 1, k)) = k
         /\ \A i \in 1 .. k : SubSeq(s, 1, k)[i] = s[i]
         /\ SubSeq(s, k + 1, Len(s)) \in Seq(S) /\ Len(SubSeq(s, k + 1, Len(s))) = Len(s) - k
         /\ \A i \in 1 .. Len(s) - k : SubSeq(s, k + 1, Len(s))[i] = s[k + i]
         /\ s = SubSeq(s, 1, k) \o SubSeq(s, k + 1, Len(s))
<1>1. Len(s) \in Nat /\ k \in Nat /\ k <= Len(s)
  OBVIOUS
<1>2. SubSeq(s, 1, k) \in Seq(S) /\ Len(SubSeq(s, 1, k)) = k
  OBVIOUS
<1>3. \A i \in 1 .. k : SubSeq(s, 1, k)[i] = s[i]
  OBVIOUS
<1>4. 1 \in 1 .. Len(s) + 1 /\ k \in 1 - 1 .. Len(s) /\ Len(s) \in k .. Len(s)
  BY <1>1
<1>5. SubSeq(s, 1, k) \o SubSeq(s, k + 1, Len(s)) = SubSeq(s, 1, Len(s))
  BY <1>4, ConcatAdjacentSubSeq
<1>6. SubSeq(s, 1, Len(s)) = s
  BY SubSeqFull
<1> QED BY <1>2, <1>3, <1>5, <1>6, SuffixLaws

\* And a sequence put together is cut where it was.
LEMMA CutJoined ==
  ASSUME NEW S, NEW l \in Seq(S), NEW r \in Seq(S)
  PROVE  /\ SubSeq(l \o r, 1, Len(l)) = l
         /\ SubSeq(l \o r, Len(l) + 1, Len(l \o r)) = r
<1> DEFINE s == l \o r
           x == SubSeq(s, 1, Len(l))
           y == SubSeq(s, Len(l) + 1, Len(s))
<1>1. /\ s \in Seq(S) /\ Len(s) = Len(l) + Len(r) /\ Len(l) \in Nat /\ Len(r) \in Nat
      /\ \A i \in 1 .. Len(l) : s[i] = l[i]
      /\ \A i \in 1 .. Len(r) : s[Len(l) + i] = r[i]
  BY JoinPlaces
<1> HIDE DEF s
<1>2. Len(l) \in 0 .. Len(s)
  BY <1>1
<1>3. /\ x \in Seq(S) /\ Len(x) = Len(l) /\ \A i \in 1 .. Len(l) : x[i] = s[i]
      /\ y \in Seq(S) /\ Len(y) = Len(s) - Len(l)
      /\ \A i \in 1 .. Len(s) - Len(l) : y[i] = s[Len(l) + i]
  BY <1>1, <1>2, CutSeq
<1> HIDE DEF x, y
<1>4. x = l
  <2>1. Len(x) = Len(l) /\ \A i \in 1 .. Len(x) : x[i] = l[i]
    BY <1>1, <1>3
  <2> QED BY <1>3, <2>1, SeqEqual
<1>5. y = r
  <2>1. Len(y) = Len(r) /\ \A i \in 1 .. Len(y) : y[i] = r[i]
    BY <1>1, <1>3
  <2> QED BY <1>3, <2>1, SeqEqual
<1> QED BY <1>4, <1>5 DEF x, y, s

\* Whole packets are cut into whole packets, if not between a packet and its tails.
LEMMA CutBuffer ==
  ASSUME NEW b \in Buffers, NEW k \in 0 .. Len(b), k < Len(b) => b[k + 1] # NULL
  PROVE  SubSeq(b, 1, k) \in Buffers /\ SubSeq(b, k + 1, Len(b)) \in Buffers
<1> DEFINE l == SubSeq(b, 1, k)
           r == SubSeq(b, k + 1, Len(b))
           n == Len(b)
<1>1. b \in Seq(Flit) /\ Framed(b)
  BY DEF Buffers
<1>2. /\ n \in Nat /\ k \in Nat /\ k <= n /\ DOMAIN b = 1 .. n
      /\ l \in Seq(Flit) /\ Len(l) = k /\ DOMAIN l = 1 .. k
      /\ \A i \in 1 .. k : l[i] = b[i]
      /\ r \in Seq(Flit) /\ Len(r) = n - k /\ DOMAIN r = 1 .. n - k
      /\ \A i \in 1 .. n - k : r[i] = b[k + i]
  BY SMTT(60), <1>1, CutSeq
<1>3. /\ n > 0 => b[1] # NULL
      /\ \A i \in 1 .. n : b[i] # NULL => Follows(b, i, b[i].lng)
  <2>1. n > 0 => b # <<>>
    BY <1>1
  <2> QED BY <1>1, <1>2, <2>1 DEF Framed, HeadsOf
<1>4. k < n => b[k + 1] # NULL
  OBVIOUS
<1>5. \A i \in 1 .. n : b[i] # NULL => b[i].lng \in Nat \ {0}
  BY <1>1, PacketFields DEF Flit
<1> HIDE DEF l, r, n
<1>6. Framed(l)
  <2>1. ASSUME NEW i \in 1 .. k, l[i] # NULL PROVE Follows(l, i, l[i].lng)
    <3>1. i \in 1 .. n /\ l[i] = b[i] /\ b[i] # NULL
      BY <1>2, <2>1
    <3>2. PICK m \in Nat \ {0} : m = b[i].lng
      BY <1>5, <3>1
    <3>3. /\ i + m <= n + 1 /\ \A j \in i + 1 .. i + m - 1 : b[j] = NULL
          /\ i + m <= n => b[i + m] # NULL
      BY <1>3, <3>1, <3>2 DEF Follows, n
    <3>4. i + m <= k + 1
      <4>1. SUFFICES ASSUME i + m > k + 1 PROVE FALSE
        BY <1>2
      <4>2. k + 1 \in i + 1 .. i + m - 1 /\ k < n
        BY <1>2, <3>3, <4>1
      <4> QED BY <1>4, <3>3, <4>2
    <3>5. \A j \in i + 1 .. i + m - 1 : j \in 1 .. k
      BY <1>2, <3>4
    <3>6. i + m <= k => i + m \in 1 .. k /\ i + m <= n
      BY <1>2
    <3> QED BY <1>2, <3>1, <3>2, <3>3, <3>4, <3>5, <3>6 DEF Follows
  <2>2. l # <<>> => l[1] # NULL
    <3>1. SUFFICES ASSUME l # <<>> PROVE l[1] # NULL
      OBVIOUS
    <3>2. k > 0
      BY <1>2, <3>1
    <3> QED BY <1>2, <1>3, <3>2
  <2> QED BY <1>2, <2>1, <2>2 DEF Framed, HeadsOf
<1>7. Framed(r)
  <2>1. ASSUME NEW i \in 1 .. n - k, r[i] # NULL PROVE Follows(r, i, r[i].lng)
    <3>1. k + i \in 1 .. n /\ r[i] = b[k + i]
      BY <1>2
    <3>2. PICK m \in Nat \ {0} : m = r[i].lng
      BY <1>5, <2>1, <3>1
    <3>3. /\ (k + i) + m <= n + 1 /\ \A j \in (k + i) + 1 .. (k + i) + m - 1 : b[j] = NULL
          /\ (k + i) + m <= n => b[(k + i) + m] # NULL
      BY <1>3, <2>1, <3>1, <3>2 DEF Follows, n
    <3>4. i + m <= (n - k) + 1
      BY <1>2, <3>3
    <3>5. ASSUME NEW j \in i + 1 .. i + m - 1 PROVE r[j] = NULL
      <4>1. j \in Int /\ i + 1 <= j /\ j <= i + m - 1
        OBVIOUS
      <4>2. k + j \in (k + i) + 1 .. (k + i) + m - 1
        BY <1>2, <4>1
      <4>3. j \in 1 .. n - k
        BY <1>2, <3>4, <4>1
      <4> QED BY <1>2, <3>3, <4>2, <4>3
    <3>6. ASSUME i + m <= n - k PROVE r[i + m] # NULL
      <4>1. i + m \in 1 .. n - k /\ k + (i + m) = (k + i) + m /\ (k + i) + m <= n
        BY <1>2, <3>6
      <4> QED BY <1>2, <3>3, <4>1
    <3> QED BY <1>2, <3>2, <3>4, <3>5, <3>6 DEF Follows
  <2>2. r # <<>> => r[1] # NULL
    <3>1. SUFFICES ASSUME r # <<>> PROVE r[1] # NULL
      OBVIOUS
    <3>2. 1 \in 1 .. n - k /\ k < n
      BY <1>2, <3>1
    <3> QED BY <1>2, <1>4, <3>2
  <2> QED BY <1>2, <2>1, <2>2 DEF Framed, HeadsOf
<1> QED BY <1>2, <1>6, <1>7 DEF Buffers, l, r

\* A packet in a buffer: what is before it, its FLITs, and what is behind them.
LEMMA TakeOut ==
  ASSUME NEW b \in Buffers, NEW i \in HeadsOf(b)
  PROVE  /\ b[i] \in Packet /\ i \in 1 .. Len(b)
         /\ \E l, r \in Buffers : /\ b = l \o (Flits(b[i]) \o r) /\ Erase(b, i) = l \o r
                                  /\ Len(l) = i - 1
<1>1. b \in Seq(Flit) /\ Framed(b)
  BY DEF Buffers
<1>2. i \in 1 .. Len(b) /\ b[i] # NULL /\ Len(b) \in Nat
  BY <1>1 DEF HeadsOf
<1>3. b[i] \in Packet
  BY <1>1, <1>2 DEF Flit
<1> DEFINE p == b[i]
           n == Len(b)
<1>4. PICK m \in Nat \ {0} : m = p.lng
  BY <1>3, PacketFields
<1>5. /\ i + m <= n + 1 /\ \A j \in i + 1 .. i + m - 1 : b[j] = NULL
      /\ i + m <= n => b[i + m] # NULL
  BY <1>1, <1>4 DEF Framed, Follows
<1> DEFINE k == i + m - 1
           l == SubSeq(b, 1, i - 1)
           f == SubSeq(b, i, k)
           a == SubSeq(b, 1, k)
           r == SubSeq(b, k + 1, n)
<1>6. i - 1 \in 0 .. n /\ (i - 1) + 1 = i /\ k \in 0 .. n /\ k + 1 = i + m
  BY <1>2, <1>5
<1>7. l \in Buffers /\ Len(l) = i - 1
  <2>1. i - 1 < n => b[(i - 1) + 1] # NULL
    BY <1>2, <1>6
  <2> QED BY <1>1, <1>6, <2>1, CutBuffer, CutSeq
<1>8. r \in Buffers /\ b = a \o r
  <2>1. k < n => b[k + 1] # NULL
    BY <1>2, <1>5, <1>6
  <2> QED BY <1>1, <1>6, <2>1, CutBuffer, CutSeq
<1>9. a = l \o f
  <2>1. 1 \in 1 .. n + 1 /\ i - 1 \in 1 - 1 .. n /\ k \in i - 1 .. n
    BY <1>2, <1>5
  <2>2. SubSeq(b, 1, i - 1) \o SubSeq(b, (i - 1) + 1, k) = SubSeq(b, 1, k)
    BY <1>1, <2>1, ConcatAdjacentSubSeq
  <2> QED BY <1>6, <2>2
<1>10. f = Flits(p)
  <2>1. /\ Flits(p) \in Seq(Flit) /\ Len(Flits(p)) = m
        /\ Flits(p)[1] = p /\ \A j \in 2 .. m : Flits(p)[j] = NULL
    BY <1>3, <1>4, FlitsLaws
  <2>2. i \in Int /\ k \in Int /\ i <= k /\ \A j \in i .. k : b[j] \in Flit
    <3>1. \A j \in i .. k : j \in 1 .. n
      BY <1>2, <1>5
    <3> QED BY <1>1, <1>2, <3>1
  <2>3. /\ f \in Seq(Flit) /\ Len(f) = (IF i <= k THEN k - i + 1 ELSE 0)
        /\ \A j \in 1 .. k - i + 1 : f[j] = b[i + j - 1]
    <3> HIDE DEF k
    <3> QED BY <2>2, SubSeqProperties
  <2>4. k - i + 1 = m /\ Len(f) = m
    BY <1>2, <2>2, <2>3
  <2>5. ASSUME NEW j \in 1 .. m PROVE f[j] = Flits(p)[j]
    <3>1. f[j] = b[i + j - 1]
      BY <2>3, <2>4
    <3>2. CASE j = 1
      <4>1. i + j - 1 = i
        BY <1>2, <3>2
      <4> QED BY <2>1, <3>1, <3>2, <4>1
    <3>3. CASE j > 1
      <4>1. j \in 2 .. m /\ i + j - 1 \in i + 1 .. i + m - 1
        BY <1>2, <3>3
      <4> QED BY <1>5, <2>1, <3>1, <4>1
    <3>4. j = 1 \/ j > 1
      BY <1>4
    <3> QED BY <3>2, <3>3, <3>4
  <2> HIDE DEF f
  <2> QED BY <2>1, <2>3, <2>4, <2>5, SeqEqual
<1>11. Erase(b, i) = l \o r
  BY <1>4, <1>6 DEF Erase
<1>12. (l \o Flits(p)) \o r = l \o (Flits(p) \o r)
  <2>1. l \in Seq(Flit) /\ r \in Seq(Flit) /\ Flits(p) \in Seq(Flit)
    BY <1>3, <1>7, <1>8, FlitsLaws DEF Buffers
  <2> HIDE DEF l, r, p
  <2> QED BY <2>1, ConcatAssociative
<1> QED BY <1>2, <1>3, <1>7, <1>8, <1>9, <1>10, <1>11, <1>12
-----------------------------------------------------------------------------
(* Counting packets *)

\* A count is a natural, and zero if there is none.
LEMMA InType ==
  ASSUME NEW S, NEW s \in Seq(S), NEW P
  PROVE  /\ In(s, P) \in Nat /\ IsFiniteSet({i \in DOMAIN s : s[i] \in P})
         /\ In(s, P) = 0 <=> \A i \in DOMAIN s : s[i] \notin P
<1> DEFINE D == {i \in DOMAIN s : s[i] \in P}
<1>1. IsFiniteSet(D)
  <2>1. DOMAIN s = 1 .. Len(s) /\ Len(s) \in Nat
    OBVIOUS
  <2>2. IsFiniteSet(1 .. Len(s))
    BY <2>1, FS_Interval
  <2>3. D \in SUBSET (1 .. Len(s))
    BY <2>1
  <2> QED BY <2>2, <2>3, FS_Subset
<1>2. Cardinality(D) \in Nat /\ (Cardinality(D) = 0 <=> D = {})
  BY <1>1, FS_CardinalityType, FS_EmptySet
<1>3. D = {} <=> \A i \in DOMAIN s : s[i] \notin P
  OBVIOUS
<1> HIDE DEF D
<1>4. In(s, P) = Cardinality(D)
  BY DEF In, D
<1> QED BY <1>1, <1>2, <1>3, <1>4 DEF D

\* A larger kind is counted more often.
LEMMA InMono ==
  ASSUME NEW S, NEW s \in Seq(S), NEW P, NEW Q, P \subseteq Q
  PROVE  In(s, P) <= In(s, Q)
<1> DEFINE D == {i \in DOMAIN s : s[i] \in P}
           E == {i \in DOMAIN s : s[i] \in Q}
<1>1. IsFiniteSet(E) /\ D \in SUBSET E
  BY InType
<1>2. Cardinality(D) <= Cardinality(E)
  <2> HIDE DEF D, E
  <2> QED BY <1>1, FS_Subset
<1> QED BY <1>2 DEF In

\* What is counted in two sequences joined.
LEMMA InJoin ==
  ASSUME NEW S, NEW a \in Seq(S), NEW b \in Seq(S), NEW P
  PROVE  In(a \o b, P) = In(a, P) + In(b, P)
<1> DEFINE c == a \o b
           m == Len(a)
           n == Len(b)
           A == {i \in DOMAIN a : a[i] \in P}
           B == {i \in DOMAIN b : b[i] \in P}
           C == {i \in DOMAIN c : c[i] \in P}
           M == {i \in C : i > m}
           up == [i \in B |-> m + i]
<1>1. /\ c \in Seq(S) /\ m \in Nat /\ n \in Nat
      /\ DOMAIN a = 1 .. m /\ DOMAIN b = 1 .. n /\ DOMAIN c = 1 .. m + n
      /\ \A i \in 1 .. m : c[i] = a[i]
      /\ \A i \in 1 .. n : c[m + i] = b[i]
  BY JoinPlaces
<1> HIDE DEF c, m, n
<1>2. IsFiniteSet(A) /\ IsFiniteSet(B) /\ IsFiniteSet(C)
  BY <1>1, InType
<1>3. \A i \in M : i - m \in B /\ m + (i - m) = i
  <2> SUFFICES ASSUME NEW i \in M PROVE i - m \in B /\ m + (i - m) = i
    OBVIOUS
  <2>1. i \in 1 .. m + n /\ i > m /\ c[i] \in P
    BY <1>1
  <2>2. i - m \in 1 .. n /\ m + (i - m) = i
    BY <1>1, <2>1
  <2>3. b[i - m] \in P
    BY <1>1, <2>1, <2>2
  <2> QED BY <1>1, <2>2, <2>3
<1>4. \A i \in B : m + i \in M
  <2> SUFFICES ASSUME NEW i \in B PROVE m + i \in M
    OBVIOUS
  <2>1. i \in 1 .. n /\ b[i] \in P
    BY <1>1
  <2>2. m + i \in 1 .. m + n /\ m + i > m
    BY <1>1, <2>1
  <2> QED BY <1>1, <2>1, <2>2
<1>5. up \in Bijection(B, M)
  <2>1. up \in [B -> M]
    BY <1>4
  <2>2. \A i, j \in B : up[i] = up[j] => i = j
    BY <1>1
  <2>3. \A i \in M : \E j \in B : up[j] = i
    BY <1>3
  <2> HIDE DEF up, B, M
  <2> QED BY <2>1, <2>2, <2>3, Fun_IsBij
<1>6. Cardinality(B) = Cardinality(M)
  <2> HIDE DEF up, B, M
  <2>1. ExistsBijection(B, M)
    BY <1>5 DEF ExistsBijection
  <2> QED BY <1>2, <2>1, FS_Bijection
<1>7. C = A \cup M /\ A \cap M = {} /\ M \in SUBSET C
  BY <1>1
<1>8. Cardinality(C) = Cardinality(A) + Cardinality(M)
  <2>1. IsFiniteSet(M)
    <3> HIDE DEF A, C, M
    <3> QED BY <1>2, <1>7, FS_Subset
  <2> HIDE DEF A, C, M
  <2>2. Cardinality(A \cup M) = Cardinality(A) + Cardinality(M) - Cardinality(A \cap M)
    BY <1>2, <2>1, FS_Union
  <2>3. Cardinality({}) = 0 /\ Cardinality(A) \in Nat /\ Cardinality(M) \in Nat
    BY <1>2, <2>1, FS_EmptySet, FS_CardinalityType
  <2>4. Cardinality(C) = Cardinality(A \cup M) /\ Cardinality(A \cap M) = Cardinality({})
    BY <1>7
  <2> QED BY <2>2, <2>3, <2>4
<1> QED BY <1>6, <1>8 DEF In, c

\* One packet, alone and with its tails, and none.
LEMMA InOne ==
  ASSUME NEW p \in Packet, NEW P \in SUBSET Packet
  PROVE  /\ In(<<p>>, P) = Has(p, P) /\ In(Flits(p), P) = Has(p, P) /\ In(<<>>, P) = 0
         /\ Has(p, P) \in 0 .. 1
<1> DEFINE A == {i \in DOMAIN <<p>> : <<p>>[i] \in P}
           F == {i \in DOMAIN Flits(p) : Flits(p)[i] \in P}
           N == {i \in DOMAIN <<>> : <<>>[i] \in P}
<1>1. A = IF p \in P THEN {1} ELSE {}
  OBVIOUS
<1>2. F = IF p \in P THEN {1} ELSE {}
  <2>1. /\ DOMAIN Flits(p) = 1 .. p.lng /\ Flits(p)[1] = p
        /\ \A i \in 2 .. p.lng : Flits(p)[i] = NULL
    BY FlitsLaws
  <2>2. NULL \notin P
    BY NullIsNoPacket
  <2>3. p.lng \in Nat \ {0}
    BY PacketFields
  <2>4. \A i \in 1 .. p.lng : i = 1 \/ i \in 2 .. p.lng
    BY <2>3
  <2> QED BY <2>1, <2>2, <2>3, <2>4
<1>3. N = {}
  OBVIOUS
<1>4. Cardinality({1}) = 1 /\ Cardinality({}) = 0
  BY FS_Singleton, FS_EmptySet
<1> QED BY <1>1, <1>2, <1>3, <1>4 DEF In, Has

\* A sequence and one of its elements, which is taken out or replaced.
LEMMA InPlace ==
  ASSUME NEW s \in Seq(Packet), NEW j \in DOMAIN s, NEW P \in SUBSET Packet, NEW w \in Packet
  PROVE  /\ In(s, P) = In(RemoveAt(s, j), P) + Has(s[j], P)
         /\ In([s EXCEPT ![j] = w], P) = In(RemoveAt(s, j), P) + Has(w, P)
<1> DEFINE x == SubSeq(s, 1, j - 1)
           y == SubSeq(s, j + 1, Len(s))
           t == SubSeq(s, j, Len(s))
           e == [s EXCEPT ![j] = w]
<1>1. j \in 1 .. Len(s) /\ Len(s) \in Nat /\ s[j] \in Packet
  OBVIOUS
<1>2. j - 1 \in 0 .. Len(s) /\ (j - 1) + 1 = j
  BY <1>1
<1>3. /\ x \in Seq(Packet) /\ Len(x) = j - 1 /\ \A i \in 1 .. j - 1 : x[i] = s[i]
  BY <1>2, CutSeq
<1>4. /\ y \in Seq(Packet) /\ Len(y) = Len(s) - j /\ \A i \in 1 .. Len(s) - j : y[i] = s[j + i]
  BY <1>1, CutSeq
<1>5. RemoveAt(s, j) = x \o y
  BY DEF RemoveAt
<1> HIDE DEF x, y
<1>6. \A v \in Packet : [s EXCEPT ![j] = v] = x \o (<<v>> \o y)
  <2> SUFFICES ASSUME NEW v \in Packet PROVE [s EXCEPT ![j] = v] = x \o (<<v>> \o y)
    OBVIOUS
  <2> DEFINE f == [s EXCEPT ![j] = v]
             z == <<v>> \o y
             g == x \o z
  <2>1. f \in Seq(Packet) /\ Len(f) = Len(s) /\ f[j] = v /\ \A i \in 1 .. Len(s) : i # j => f[i] = s[i]
    BY <1>1
  <2>3. /\ z \in Seq(Packet) /\ Len(z) = 1 + Len(y) /\ z[1] = v
        /\ \A i \in 1 .. Len(y) : z[1 + i] = y[i]
    BY <1>4, FrontLaws
  <2> HIDE DEF z
  <2>4. /\ g \in Seq(Packet) /\ Len(g) = Len(x) + Len(z)
        /\ \A i \in 1 .. Len(x) : g[i] = x[i]
        /\ \A i \in 1 .. Len(z) : g[Len(x) + i] = z[i]
    BY SMTT(60), <1>3, <2>3, JoinPlaces
  <2> HIDE DEF f, g
  <2>5. Len(g) = Len(f)
    BY SMTT(60), <1>1, <1>3, <1>4, <2>1, <2>3, <2>4
  <2>6. ASSUME NEW i \in 1 .. Len(s) PROVE f[i] = g[i]
    <3>1. CASE i < j
      <4>1. i \in 1 .. j - 1
        BY <1>1, <3>1
      <4>2. f[i] = s[i] /\ x[i] = s[i]
        BY <1>3, <2>1, <3>1, <4>1
      <4>3. g[i] = x[i]
        BY <1>3, <2>4, <4>1
      <4> QED BY <4>2, <4>3
    <3>2. CASE i = j
      <4>1. 1 \in 1 .. Len(z) /\ Len(x) + 1 = j
        BY <1>1, <1>3, <1>4, <2>3
      <4>2. g[j] = z[1]
        BY <2>4, <4>1
      <4> QED BY <2>1, <2>3, <3>2, <4>2
    <3>3. CASE i > j
      <4>1. i - j \in 1 .. Len(y) /\ j + (i - j) = i /\ 1 + (i - j) \in 1 .. Len(z)
        BY <1>1, <1>4, <2>3, <3>3
      <4>2. Len(x) + (1 + (i - j)) = i
        BY <1>1, <1>3, <3>3
      <4>3. g[i] = z[1 + (i - j)]
        BY <2>4, <4>1, <4>2
      <4>4. z[1 + (i - j)] = s[i]
        BY <1>4, <2>3, <4>1
      <4> QED BY <2>1, <3>3, <4>3, <4>4
    <3> QED BY <1>1, <3>1, <3>2, <3>3
  <2>7. \A i \in 1 .. Len(f) : f[i] = g[i]
    BY <2>1, <2>6
  <2>8. f = g
    BY <2>1, <2>4, <2>5, <2>7, SeqEqual
  <2> QED BY <2>8 DEF f, g, z
<1>7. [s EXCEPT ![j] = s[j]] = s
  BY <1>1
<1>8. ASSUME NEW v \in Packet PROVE In([s EXCEPT ![j] = v], P) = In(x \o y, P) + Has(v, P)
  <2>1. <<v>> \in Seq(Packet) /\ <<v>> \o y \in Seq(Packet)
    BY <1>4
  <2>2. In(x \o (<<v>> \o y), P) = In(x, P) + In(<<v>> \o y, P)
    BY ZenonT(60), <1>3, <2>1, InJoin
  <2>3. In(<<v>> \o y, P) = In(<<v>>, P) + In(y, P)
    BY <1>4, <2>1, InJoin
  <2>4. In(x \o y, P) = In(x, P) + In(y, P)
    BY <1>3, <1>4, InJoin
  <2>5. In(<<v>>, P) = Has(v, P) /\ Has(v, P) \in Nat
    BY InOne
  <2>6. In(x, P) \in Nat /\ In(y, P) \in Nat
    BY <1>3, <1>4, InType
  <2>7. In([s EXCEPT ![j] = v], P) = In(x \o (<<v>> \o y), P)
    BY <1>6
  <2> QED BY ONLY <2>2, <2>3, <2>4, <2>5, <2>6, <2>7
<1> QED BY <1>1, <1>5, <1>7, <1>8

\* A packet is taken out of a buffer.
LEMMA Erased ==
  ASSUME NEW b \in Buffers, NEW i \in HeadsOf(b), NEW P \in SUBSET Packet
  PROVE  /\ b[i] \in Packet /\ Erase(b, i) \in Buffers
         /\ In(b, P) = In(Erase(b, i), P) + Has(b[i], P)
<1>1. b[i] \in Packet
  BY TakeOut
<1>2. PICK l, r \in Buffers : b = l \o (Flits(b[i]) \o r) /\ Erase(b, i) = l \o r
  BY TakeOut
<1> DEFINE f == Flits(b[i])
<1>3. f \in Buffers
  BY <1>1, FlitsLaws
<1>4. f \o r \in Buffers /\ l \o r \in Buffers
  BY <1>2, <1>3, JoinBuffers
<1>5. l \in Seq(Flit) /\ r \in Seq(Flit) /\ f \in Seq(Flit) /\ f \o r \in Seq(Flit)
  BY <1>2, <1>3, <1>4 DEF Buffers
<1>6. In(f, P) = Has(b[i], P)
  BY <1>1, InOne
<1> HIDE DEF f
<1>7. In(l \o (f \o r), P) = In(l, P) + In(f \o r, P)
  BY ZenonT(60), <1>5, InJoin
<1>8. In(f \o r, P) = In(f, P) + In(r, P)
  BY <1>5, InJoin
<1>9. In(l \o r, P) = In(l, P) + In(r, P)
  BY <1>5, InJoin
<1>10. In(l, P) \in Nat /\ In(r, P) \in Nat /\ In(f, P) \in Nat
  BY <1>5, InType
<1>11. In(b, P) = In(l \o (f \o r), P)
  BY <1>2 DEF f
<1>12. In(l \o (f \o r), P) = In(l \o r, P) + In(f, P)
  BY <1>7, <1>8, <1>9, <1>10
<1> QED BY <1>1, <1>2, <1>4, <1>6, <1>11, <1>12

\* A packet is put behind a buffer.
LEMMA PutBehind ==
  ASSUME NEW b \in Buffers, NEW p \in Packet, NEW P \in SUBSET Packet
  PROVE  b \o Flits(p) \in Buffers /\ In(b \o Flits(p), P) = In(b, P) + Has(p, P)
<1>1. Flits(p) \in Buffers /\ Flits(p) \in Seq(Flit) /\ b \in Seq(Flit)
  BY FlitsLaws DEF Buffers
<1>2. In(b \o Flits(p), P) = In(b, P) + In(Flits(p), P)
  BY <1>1, InJoin
<1> QED BY <1>1, <1>2, InOne, JoinBuffers

\* A packet is put in front of a buffer.
LEMMA PutInFront ==
  ASSUME NEW b \in Buffers, NEW p \in Packet, NEW P \in SUBSET Packet
  PROVE  Flits(p) \o b \in Buffers /\ In(Flits(p) \o b, P) = In(b, P) + Has(p, P)
<1>1. Flits(p) \in Buffers /\ Flits(p) \in Seq(Flit) /\ b \in Seq(Flit)
  BY FlitsLaws DEF Buffers
<1>2. In(Flits(p) \o b, P) = In(Flits(p), P) + In(b, P)
  BY <1>1, InJoin
<1>3. In(b, P) \in Nat /\ In(Flits(p), P) = Has(p, P) /\ Has(p, P) \in Nat
  <2>1. In(b, P) \in Nat
    BY <1>1, InType
  <2>2. In(Flits(p), P) = Has(p, P) /\ Has(p, P) \in 0 .. 1
    BY InOne
  <2> QED BY <2>1, <2>2
<1> QED BY <1>1, <1>2, <1>3, JoinBuffers

\* The buffers of the vaults, or of the links.
Shelves(n) == [0 .. n - 1 -> Buffers]

\* The numbers that InAll adds up.
Counts(bufs, n, P) == [k \in 1 .. n |-> In(bufs[k - 1], P)]

\* These are numbers, and InAll is their sum.
LEMMA CountsType ==
  ASSUME NEW n \in Nat, NEW bufs \in Shelves(n), NEW P
  PROVE  /\ Counts(bufs, n, P) \in Seq(Nat) /\ Len(Counts(bufs, n, P)) = n
         /\ \A k \in 1 .. n : Counts(bufs, n, P)[k] = In(bufs[k - 1], P)
         /\ InAll(bufs, n, P) = Total(Counts(bufs, n, P)) /\ InAll(bufs, n, P) \in Nat
<1>1. \A k \in 1 .. n : In(bufs[k - 1], P) \in Nat
  <2> SUFFICES ASSUME NEW k \in 1 .. n PROVE In(bufs[k - 1], P) \in Nat
    OBVIOUS
  <2>1. bufs[k - 1] \in Seq(Flit)
    BY DEF Shelves, Buffers
  <2> QED BY <2>1, InType
<1>2. Counts(bufs, n, P) \in Seq(Nat)
  <2>1. Counts(bufs, n, P) \in [1 .. n -> Nat]
    BY <1>1 DEF Counts
  <2> QED BY <2>1, IsASeq
<1>3. Len(Counts(bufs, n, P)) = n /\ \A k \in 1 .. n : Counts(bufs, n, P)[k] = In(bufs[k - 1], P)
  BY DEF Counts
<1>4. InAll(bufs, n, P) = Total(Counts(bufs, n, P))
  BY DEF InAll, Counts
<1> QED BY <1>2, <1>3, <1>4, TotalType

\* One of the buffers changes.
LEMMA InAllChange ==
  ASSUME NEW n \in Nat, NEW bufs \in Shelves(n), NEW v \in 0 .. n - 1, NEW b \in Buffers, NEW P
  PROVE  /\ [bufs EXCEPT ![v] = b] \in Shelves(n)
         /\ InAll([bufs EXCEPT ![v] = b], n, P) + In(bufs[v], P) = InAll(bufs, n, P) + In(b, P)
<1> DEFINE new == [bufs EXCEPT ![v] = b]
           q == Counts(bufs, n, P)
           r == Counts(new, n, P)
<1>1. new \in Shelves(n) /\ new[v] = b /\ \A u \in 0 .. n - 1 : u # v => new[u] = bufs[u]
  BY DEF Shelves
<1> HIDE DEF new
<1>2. v + 1 \in 1 .. n /\ (v + 1) - 1 = v
  OBVIOUS
<1>3. /\ q \in Seq(Nat) /\ Len(q) = n /\ \A k \in 1 .. n : q[k] = In(bufs[k - 1], P)
      /\ InAll(bufs, n, P) = Total(q)
  BY CountsType
<1>4. /\ r \in Seq(Nat) /\ Len(r) = n /\ \A k \in 1 .. n : r[k] = In(new[k - 1], P)
      /\ InAll(new, n, P) = Total(r)
  BY <1>1, CountsType
<1> HIDE DEF q, r
<1>5. \A k \in 1 .. n : k # v + 1 => r[k] = q[k]
  <2> SUFFICES ASSUME NEW k \in 1 .. n, k # v + 1 PROVE r[k] = q[k]
    OBVIOUS
  <2>1. k - 1 \in 0 .. n - 1 /\ k - 1 # v
    OBVIOUS
  <2> QED BY <1>1, <1>3, <1>4, <2>1
<1>6. Total(r) + q[v + 1] = Total(q) + r[v + 1]
  <2> DEFINE m == v + 1
  <2>1. m \in 1 .. Len(q) /\ Len(r) = Len(q) /\ \A k \in 1 .. Len(q) : k # m => r[k] = q[k]
    BY <1>2, <1>3, <1>4, <1>5
  <2> HIDE DEF m
  <2>2. Total(r) + q[m] = Total(q) + r[m]
    BY ONLY <1>3, <1>4, <2>1, TotalChange
  <2> QED BY <2>2 DEF m
<1> QED BY <1>1, <1>2, <1>3, <1>4, <1>6 DEF new

\* What one of them holds, they hold.
LEMMA InAllHolds ==
  ASSUME NEW n \in Nat, NEW bufs \in Shelves(n), NEW v \in 0 .. n - 1, NEW P \in SUBSET Packet
  PROVE  In(bufs[v], P) <= InAll(bufs, n, P)
<1>1. /\ [bufs EXCEPT ![v] = <<>>] \in Shelves(n)
      /\ InAll([bufs EXCEPT ![v] = <<>>], n, P) + In(bufs[v], P) = InAll(bufs, n, P) + In(<<>>, P)
  BY EmptyBuffer, InAllChange
<1>2. In(<<>>, P) = 0
  <2>1. <<>> \in Seq(Flit) /\ \A i \in DOMAIN <<>> : <<>>[i] \notin P
    OBVIOUS
  <2> QED BY <2>1, InType
<1>3. bufs[v] \in Seq(Flit)
  BY DEF Shelves, Buffers
<1>4. In(bufs[v], P) \in Nat
  BY <1>3, InType
<1>5. InAll([bufs EXCEPT ![v] = <<>>], n, P) \in Nat /\ InAll(bufs, n, P) \in Nat
  BY <1>1, CountsType
<1> QED BY <1>1, <1>2, <1>4, <1>5

\* Empty buffers hold nothing.
LEMMA InAllNone ==
  ASSUME NEW n \in Nat, NEW P \in SUBSET Packet
  PROVE  InAll([v \in 0 .. n - 1 |-> <<>>], n, P) = 0
<1> DEFINE bufs == [v \in 0 .. n - 1 |-> <<>>]
           q == Counts(bufs, n, P)
<1>1. bufs \in Shelves(n) /\ \A v \in 0 .. n - 1 : bufs[v] = <<>>
  BY EmptyBuffer DEF Shelves
<1>2. In(<<>>, P) = 0
  <2>1. <<>> \in Seq(Flit) /\ \A i \in DOMAIN <<>> : <<>>[i] \notin P
    OBVIOUS
  <2> QED BY <2>1, InType
<1> HIDE DEF bufs
<1>3. q \in Seq(Nat) /\ Len(q) = n /\ InAll(bufs, n, P) = Total(q) /\ \A k \in 1 .. n : q[k] = In(bufs[k - 1], P)
  BY <1>1, CountsType
<1>4. \A k \in 1 .. n : q[k] = 0
  <2>1. \A k \in 1 .. n : k - 1 \in 0 .. n - 1
    OBVIOUS
  <2> HIDE DEF q
  <2> QED BY <1>1, <1>2, <1>3, <2>1
<1> HIDE DEF q
<1>5. Total(q) = 0
  BY <1>3, <1>4, TotalZero
<1> QED BY <1>3, <1>5 DEF bufs

\* A larger kind is counted more often.
LEMMA InAllMono ==
  ASSUME NEW n \in Nat, NEW bufs \in Shelves(n), NEW P, NEW Q, P \subseteq Q
  PROVE  InAll(bufs, n, P) <= InAll(bufs, n, Q)
<1> DEFINE q == Counts(bufs, n, P)
           r == Counts(bufs, n, Q)
<1>1. /\ q \in Seq(Nat) /\ Len(q) = n /\ \A k \in 1 .. n : q[k] = In(bufs[k - 1], P)
      /\ InAll(bufs, n, P) = Total(q)
      /\ r \in Seq(Nat) /\ Len(r) = n /\ \A k \in 1 .. n : r[k] = In(bufs[k - 1], Q)
      /\ InAll(bufs, n, Q) = Total(r)
  BY CountsType
<1> HIDE DEF q, r
<1>2. \A k \in 1 .. n : q[k] <= r[k]
  <2> SUFFICES ASSUME NEW k \in 1 .. n PROVE q[k] <= r[k]
    OBVIOUS
  <2>1. bufs[k - 1] \in Seq(Flit)
    BY DEF Shelves, Buffers
  <2>2. In(bufs[k - 1], P) <= In(bufs[k - 1], Q)
    BY <2>1, InMono
  <2> QED BY <1>1, <2>2
<1>3. Total(q) <= Total(r)
  BY <1>1, <1>2, TotalMono
<1> QED BY <1>1, <1>3
-----------------------------------------------------------------------------
(* Accounts.  An account says how many packets of each kind there are at a *)
(* place: t on their way to a vault and back, s set aside, l at the links. *)
(* g[k] is how often TAG k is noted, d[n] how often request n was answered *)
(* and m how many were made.                                               *)

Accounts == [SUBSET Packet -> Nat]
Notes == [Tags -> Nat]
Answered == [1 .. MaxRequests -> Nat]

Tagged(k) == {p \in Packet : p.tag = k}
Traced == {p \in Packet : p.trace # 0}
Untraced == {p \in Packet : p.trace = 0}
Stray == {p \in Packet : ~p.segment /\ p.trace = 0}
Of(n) == {p \in Packet : p.trace = n}

\* Every TAG is noted once for each of its segments under way; one response
\* at most is set aside for a TAG; as long as there is something of a TAG that
\* was noted, one of its segments has the trace; a packet that is no segment
\* has a trace; and there is one packet at most with the trace of a request that
\* was made and not answered, and none with that of another.
Books(g, t, s, l, d, m) ==
  /\ \A k \in Tags : g[k] = t[SegmentsOf(k)]
  /\ \A k \in Tags : s[Tagged(k)] <= 1
  /\ \A k \in Tags : g[k] > 0 \/ s[Tagged(k)] > 0 =>
                       t[SegmentsOf(k) \cap Traced] + s[Tagged(k) \cap Traced] >= 1
  /\ t[Stray] = 0
  /\ l[Untraced] = 0
  /\ \A n \in 1 .. MaxRequests :
       t[Of(n)] + s[Of(n)] + l[Of(n)] + d[n] <= IF n <= m THEN 1 ELSE 0

\* One packet more, and one TAG more.
Plus(t, p, t1) == \A P \in SUBSET Packet : t1[P] = t[P] + Has(p, P)
PlusTag(g, k, g1) == \A j \in Tags : g1[j] = g[j] + (IF j = k THEN 1 ELSE 0)

\* The kinds are sets of packets.
LEMMA KindSets ==
  /\ Stray \in SUBSET Packet /\ Untraced \in SUBSET Packet /\ Traced \in SUBSET Packet
  /\ \A k : /\ SegmentsOf(k) \in SUBSET Packet /\ Tagged(k) \in SUBSET Packet
            /\ SegmentsOf(k) \cap Traced \in SUBSET Packet
            /\ Tagged(k) \cap Traced \in SUBSET Packet
            /\ Of(k) \in SUBSET Packet
  BY DEF Stray, Untraced, Traced, SegmentsOf, Tagged, Of

\* Which kinds a packet is of.
LEMMA KindsOf ==
  ASSUME NEW p \in Packet
  PROVE  /\ Has(p, Stray) = IF ~p.segment /\ p.trace = 0 THEN 1 ELSE 0
         /\ Has(p, Untraced) = IF p.trace = 0 THEN 1 ELSE 0
         /\ \A k : /\ Has(p, SegmentsOf(k)) = IF p.segment /\ p.tag = k THEN 1 ELSE 0
                   /\ Has(p, SegmentsOf(k) \cap Traced) =
                        IF p.segment /\ p.tag = k /\ p.trace # 0 THEN 1 ELSE 0
                   /\ Has(p, Tagged(k)) = IF p.tag = k THEN 1 ELSE 0
                   /\ Has(p, Tagged(k) \cap Traced) = IF p.tag = k /\ p.trace # 0 THEN 1 ELSE 0
                   /\ Has(p, Of(k)) = IF p.trace = k THEN 1 ELSE 0
  BY DEF Has, Stray, Untraced, Traced, SegmentsOf, Tagged, Of

\* What one packet more means for the kinds.
PlusKind(t, p, t1, k) ==
  /\ t[Stray] \in Nat /\ t1[Stray] \in Nat /\ t[Untraced] \in Nat /\ t1[Untraced] \in Nat
  /\ t[SegmentsOf(k)] \in Nat /\ t[SegmentsOf(k) \cap Traced] \in Nat
  /\ t[Tagged(k)] \in Nat /\ t[Tagged(k) \cap Traced] \in Nat /\ t[Of(k)] \in Nat
  /\ t1[Stray] = t[Stray] + (IF ~p.segment /\ p.trace = 0 THEN 1 ELSE 0)
  /\ t1[Untraced] = t[Untraced] + (IF p.trace = 0 THEN 1 ELSE 0)
  /\ t1[SegmentsOf(k)] = t[SegmentsOf(k)] + (IF p.segment /\ p.tag = k THEN 1 ELSE 0)
  /\ t1[SegmentsOf(k) \cap Traced] =
       t[SegmentsOf(k) \cap Traced] + (IF p.segment /\ p.tag = k /\ p.trace # 0 THEN 1 ELSE 0)
  /\ t1[Tagged(k)] = t[Tagged(k)] + (IF p.tag = k THEN 1 ELSE 0)
  /\ t1[Tagged(k) \cap Traced] =
       t[Tagged(k) \cap Traced] + (IF p.tag = k /\ p.trace # 0 THEN 1 ELSE 0)
  /\ t1[Of(k)] = t[Of(k)] + (IF p.trace = k THEN 1 ELSE 0)

\* It follows from the definition of an account with one packet more.
LEMMA PlusKinds ==
  ASSUME NEW t \in Accounts, NEW t1 \in Accounts, NEW p \in Packet, Plus(t, p, t1), NEW k
  PROVE  PlusKind(t, p, t1, k)
  BY SMTT(60), KindSets, KindsOf DEF Plus, Accounts, PlusKind

\* The kinds of an account.
LEMMA AccountKinds ==
  ASSUME NEW t \in Accounts
  PROVE  /\ t[Stray] \in Nat /\ t[Untraced] \in Nat
         /\ \A k : /\ t[SegmentsOf(k)] \in Nat /\ t[SegmentsOf(k) \cap Traced] \in Nat
                   /\ t[Tagged(k)] \in Nat /\ t[Tagged(k) \cap Traced] \in Nat /\ t[Of(k)] \in Nat
  BY KindSets DEF Accounts

\* A request arrives.
LEMMA Arrived ==
  ASSUME NEW g \in Notes, NEW t \in Accounts, NEW s \in Accounts, NEW l \in Accounts,
         NEW d \in Answered, NEW m \in Nat, Books(g, t, s, l, d, m),
         NEW p \in Packet, ~p.segment, p.trace = m + 1,
         NEW t1 \in Accounts, Plus(t, p, t1)
  PROVE  Books(g, t1, s, l, d, m + 1)
<1>1. ASSUME NEW k
      PROVE  /\ t1[Stray] = t[Stray] /\ t1[SegmentsOf(k)] = t[SegmentsOf(k)]
             /\ t1[SegmentsOf(k) \cap Traced] = t[SegmentsOf(k) \cap Traced]
             /\ t1[Of(k)] = t[Of(k)] + (IF m + 1 = k THEN 1 ELSE 0)
  <2>1. PlusKind(t, p, t1, k)
    BY PlusKinds
  <2> QED BY <2>1 DEF PlusKind
<1>2. /\ \A k : t[Of(k)] \in Nat /\ s[Of(k)] \in Nat /\ l[Of(k)] \in Nat
      /\ \A n \in 1 .. MaxRequests : d[n] \in Nat
  BY AccountKinds DEF Answered
<1>3. ASSUME NEW n \in 1 .. MaxRequests
      PROVE  t1[Of(n)] + s[Of(n)] + l[Of(n)] + d[n] <= IF n <= m + 1 THEN 1 ELSE 0
  <2>1. t[Of(n)] + s[Of(n)] + l[Of(n)] + d[n] <= IF n <= m THEN 1 ELSE 0
    BY DEF Books
  <2>2. PlusKind(t, p, t1, n)
    BY PlusKinds
  <2> QED BY <1>2, <2>1, <2>2 DEF PlusKind
<1> QED BY <1>1, <1>3 DEF Books

\* A response leaves the crossbar for a link.
LEMMA SentUp ==
  ASSUME NEW g \in Notes, NEW t \in Accounts, NEW s \in Accounts, NEW l \in Accounts,
         NEW d \in Answered, NEW m \in Nat, Books(g, t, s, l, d, m),
         NEW p \in Packet, ~p.segment,
         NEW t1 \in Accounts, Plus(t1, p, t), NEW l1 \in Accounts, Plus(l, p, l1)
  PROVE  Books(g, t1, s, l1, d, m)
<1>1. t1[Stray] = 0 /\ p.trace # 0
  <2>1. t[Stray] = t1[Stray] + (IF p.trace = 0 THEN 1 ELSE 0) /\ t1[Stray] \in Nat
    <3>1. \A k : PlusKind(t1, p, t, k)
      BY PlusKinds
    <3> QED BY <3>1 DEF PlusKind
  <2>2. t[Stray] = 0
    BY DEF Books
  <2> QED BY <2>1, <2>2
<1>2. ASSUME NEW k
      PROVE  /\ t[SegmentsOf(k)] = t1[SegmentsOf(k)]
             /\ t[SegmentsOf(k) \cap Traced] = t1[SegmentsOf(k) \cap Traced]
             /\ t[Of(k)] = t1[Of(k)] + (IF p.trace = k THEN 1 ELSE 0) /\ t1[Of(k)] \in Nat
  <2>1. PlusKind(t1, p, t, k)
    BY PlusKinds
  <2> QED BY <2>1 DEF PlusKind
<1>3. ASSUME NEW k
      PROVE  /\ l1[Untraced] = l[Untraced]
             /\ l1[Of(k)] = l[Of(k)] + (IF p.trace = k THEN 1 ELSE 0) /\ l[Of(k)] \in Nat
  <2>1. PlusKind(l, p, l1, k)
    BY PlusKinds
  <2> QED BY <1>1, <2>1 DEF PlusKind
<1>4. (\A k : s[Of(k)] \in Nat) /\ \A n \in 1 .. MaxRequests : d[n] \in Nat
  BY AccountKinds DEF Answered
<1>5. ASSUME NEW n \in 1 .. MaxRequests
      PROVE  t1[Of(n)] + s[Of(n)] + l1[Of(n)] + d[n] <= IF n <= m THEN 1 ELSE 0
  <2>1. t[Of(n)] + s[Of(n)] + l[Of(n)] + d[n] <= IF n <= m THEN 1 ELSE 0
    BY DEF Books
  <2>2. PlusKind(t1, p, t, n)
    BY PlusKinds
  <2>3. PlusKind(l, p, l1, n)
    BY PlusKinds
  <2> QED BY <1>4, <2>1, <2>2, <2>3 DEF PlusKind
<1> QED BY <1>1, <1>2, <1>3, <1>5 DEF Books

\* A vault answers, with a packet of the same kind.
LEMMA AnsweredAlike ==
  ASSUME NEW g \in Notes, NEW t \in Accounts, NEW s \in Accounts, NEW l \in Accounts,
         NEW d \in Answered, NEW m \in Nat, Books(g, t, s, l, d, m),
         NEW p \in Packet, NEW q \in Packet,
         q.segment = p.segment, q.tag = p.tag, q.trace = p.trace,
         NEW t0 \in Accounts, Plus(t0, p, t), NEW t1 \in Accounts, Plus(t0, q, t1)
  PROVE  Books(g, t1, s, l, d, m)
<1>1. ASSUME NEW k
      PROVE  /\ t1[Stray] = t[Stray]
             /\ t1[SegmentsOf(k)] = t[SegmentsOf(k)]
             /\ t1[SegmentsOf(k) \cap Traced] = t[SegmentsOf(k) \cap Traced]
             /\ t1[Of(k)] = t[Of(k)]
  <2>1. PlusKind(t0, p, t, k) /\ PlusKind(t0, q, t1, k)
    BY PlusKinds
  <2> QED BY <2>1 DEF PlusKind
<1> QED BY <1>1 DEF Books

\* A response leaves the cube.  It has the trace of a request not yet answered.
LEMMA LeftCube ==
  ASSUME NEW g \in Notes, NEW t \in Accounts, NEW s \in Accounts, NEW l \in Accounts,
         NEW d \in Answered, NEW m \in Nat, Books(g, t, s, l, d, m),
         NEW p \in Packet, NEW l1 \in Accounts, Plus(l1, p, l)
  PROVE  /\ p.trace \in 1 .. MaxRequests /\ p.trace <= m /\ d[p.trace] = 0
         /\ \A d1 \in Answered :
              (\A n \in 1 .. MaxRequests : d1[n] = d[n] + (IF n = p.trace THEN 1 ELSE 0))
                => Books(g, t, s, l1, d1, m)
<1>1. l1[Untraced] = 0 /\ p.trace # 0
  <2>1. l[Untraced] = l1[Untraced] + (IF p.trace = 0 THEN 1 ELSE 0) /\ l1[Untraced] \in Nat
    <3>1. \A k : PlusKind(l1, p, l, k)
      BY PlusKinds
    <3> QED BY <3>1 DEF PlusKind
  <2>2. l[Untraced] = 0
    BY DEF Books
  <2> QED BY <2>1, <2>2
<1>2. p.trace \in 1 .. MaxRequests
  BY <1>1, PacketFields, Sizes
<1>3. \A k : l[Of(k)] = l1[Of(k)] + (IF p.trace = k THEN 1 ELSE 0) /\ l1[Of(k)] \in Nat
  <2>1. \A k : PlusKind(l1, p, l, k)
    BY PlusKinds
  <2> QED BY <2>1 DEF PlusKind
<1>4. /\ \A k : t[Of(k)] \in Nat /\ s[Of(k)] \in Nat
      /\ \A n \in 1 .. MaxRequests : d[n] \in Nat
  BY AccountKinds DEF Answered
<1>5. p.trace <= m /\ d[p.trace] = 0
  <2> DEFINE n == p.trace
  <2>1. t[Of(n)] + s[Of(n)] + l[Of(n)] + d[n] <= IF n <= m THEN 1 ELSE 0
    BY <1>2 DEF Books
  <2>2. l[Of(n)] >= 1 /\ l[Of(n)] \in Nat /\ t[Of(n)] \in Nat /\ s[Of(n)] \in Nat /\ d[n] \in Nat
    BY <1>2, <1>3, <1>4
  <2> HIDE DEF n
  <2>3. n <= m /\ d[n] = 0
    BY <2>1, <2>2
  <2> QED BY <2>3 DEF n
<1>6. ASSUME NEW d1 \in Answered,
             \A n \in 1 .. MaxRequests : d1[n] = d[n] + (IF n = p.trace THEN 1 ELSE 0),
             NEW n \in 1 .. MaxRequests
      PROVE  t[Of(n)] + s[Of(n)] + l1[Of(n)] + d1[n] <= IF n <= m THEN 1 ELSE 0
  <2>1. t[Of(n)] + s[Of(n)] + l[Of(n)] + d[n] <= IF n <= m THEN 1 ELSE 0
    BY DEF Books
  <2> QED BY <1>3, <1>4, <1>6, <2>1
<1> QED BY <1>1, <1>2, <1>5, <1>6 DEF Books

\* The first segment takes the place of a packet that is cut.
LEMMA FirstSegment ==
  ASSUME NEW g \in Notes, NEW t \in Accounts, NEW s \in Accounts, NEW l \in Accounts,
         NEW d \in Answered, NEW m \in Nat, Books(g, t, s, l, d, m),
         NEW p \in Packet, ~p.segment,
         NEW a \in Packet, a.segment, a.tag = p.tag, a.trace = p.trace,
         NEW t0 \in Accounts, Plus(t0, p, t), NEW t1 \in Accounts, Plus(t0, a, t1),
         NEW g1 \in Notes, PlusTag(g, a.tag, g1)
  PROVE  Books(g1, t1, s, l, d, m) /\ g1[a.tag] >= 1
<1>2. t1[Stray] = 0 /\ a.trace # 0
  <2>1. PlusKind(t0, p, t, 0) /\ PlusKind(t0, a, t1, 0)
    BY PlusKinds
  <2> QED BY <2>1 DEF PlusKind, Books
<1>3. \A k : s[Tagged(k)] \in Nat /\ s[Tagged(k) \cap Traced] \in Nat
  BY AccountKinds
<1>4. a.tag \in Tags /\ \A k \in Tags : g[k] \in Nat /\ g1[k] = g[k] + (IF k = a.tag THEN 1 ELSE 0)
  BY PacketFields DEF PlusTag, Notes
<1>5. ASSUME NEW k \in Tags
      PROVE  /\ g1[k] = t1[SegmentsOf(k)]
             /\ g1[k] > 0 \/ s[Tagged(k)] > 0 =>
                  t1[SegmentsOf(k) \cap Traced] + s[Tagged(k) \cap Traced] >= 1
  <2>1. /\ g[k] = t[SegmentsOf(k)]
        /\ g[k] > 0 \/ s[Tagged(k)] > 0 =>
             t[SegmentsOf(k) \cap Traced] + s[Tagged(k) \cap Traced] >= 1
    BY DEF Books
  <2>2. PlusKind(t0, p, t, k) /\ PlusKind(t0, a, t1, k)
    BY PlusKinds
  <2> QED BY SMTT(60), <1>2, <1>3, <1>4, <2>1, <2>2 DEF PlusKind
<1>6. ASSUME NEW n \in 1 .. MaxRequests
      PROVE  t1[Of(n)] = t[Of(n)]
  <2>1. PlusKind(t0, p, t, n) /\ PlusKind(t0, a, t1, n)
    BY PlusKinds
  <2> QED BY <2>1 DEF PlusKind
<1>7. g1[a.tag] >= 1
  BY <1>4
<1> QED BY <1>2, <1>5, <1>6, <1>7 DEF Books

\* The other segments, which have no trace, follow.
LEMMA NextSegment ==
  ASSUME NEW g \in Notes, NEW t \in Accounts, NEW s \in Accounts, NEW l \in Accounts,
         NEW d \in Answered, NEW m \in Nat, Books(g, t, s, l, d, m),
         NEW a \in Packet, a.segment, a.trace = 0, g[a.tag] >= 1,
         NEW t1 \in Accounts, Plus(t, a, t1), NEW g1 \in Notes, PlusTag(g, a.tag, g1)
  PROVE  Books(g1, t1, s, l, d, m) /\ g1[a.tag] >= 1
<1>2. a.tag \in Tags /\ \A k \in Tags : g[k] \in Nat /\ g1[k] = g[k] + (IF k = a.tag THEN 1 ELSE 0)
  BY PacketFields DEF PlusTag, Notes
<1>3. ASSUME NEW k \in Tags
      PROVE  /\ g1[k] = t1[SegmentsOf(k)]
             /\ g1[k] > 0 \/ s[Tagged(k)] > 0 =>
                  t1[SegmentsOf(k) \cap Traced] + s[Tagged(k) \cap Traced] >= 1
  <2>1. /\ g[k] = t[SegmentsOf(k)]
        /\ g[k] > 0 \/ s[Tagged(k)] > 0 =>
             t[SegmentsOf(k) \cap Traced] + s[Tagged(k) \cap Traced] >= 1
    BY DEF Books
  <2>2. PlusKind(t, a, t1, k)
    BY PlusKinds
  <2> QED BY <1>2, <2>1, <2>2 DEF PlusKind
<1>4. ASSUME NEW n \in 1 .. MaxRequests
      PROVE  t1[Of(n)] = t[Of(n)]
  <2>1. PlusKind(t, a, t1, n)
    BY PlusKinds
  <2> QED BY <2>1 DEF PlusKind
<1>5. t1[Stray] = 0
  <2>1. PlusKind(t, a, t1, 0)
    BY PlusKinds
  <2> QED BY <2>1 DEF PlusKind, Books
<1>6. g1[a.tag] >= 1
  BY <1>2
<1> QED BY <1>3, <1>4, <1>5, <1>6 DEF Books

\* The first response of a segment is set aside.
LEMMA CollectFirst ==
  ASSUME NEW g \in Notes, NEW t \in Accounts, NEW s \in Accounts, NEW l \in Accounts,
         NEW d \in Answered, NEW m \in Nat, Books(g, t, s, l, d, m),
         NEW p \in Packet, p.segment, s[Tagged(p.tag)] = 0,
         NEW t1 \in Accounts, Plus(t1, p, t), NEW s1 \in Accounts, Plus(s, p, s1),
         NEW g1 \in Notes, PlusTag(g1, p.tag, g)
  PROVE  Books(g1, t1, s1, l, d, m)
<1>1. ASSUME NEW k
      PROVE  /\ t1[Stray] = t[Stray]
             /\ t[SegmentsOf(k)] = t1[SegmentsOf(k)] + (IF p.tag = k THEN 1 ELSE 0)
             /\ t[SegmentsOf(k) \cap Traced] =
                  t1[SegmentsOf(k) \cap Traced] + (IF p.tag = k /\ p.trace # 0 THEN 1 ELSE 0)
             /\ t1[SegmentsOf(k)] \in Nat /\ t1[SegmentsOf(k) \cap Traced] \in Nat
             /\ t[Of(k)] = t1[Of(k)] + (IF p.trace = k THEN 1 ELSE 0) /\ t1[Of(k)] \in Nat
  <2>1. PlusKind(t1, p, t, k)
    BY PlusKinds
  <2> QED BY <2>1 DEF PlusKind
<1>3. p.tag \in Tags /\ \A k \in Tags : g1[k] \in Nat /\ g[k] = g1[k] + (IF k = p.tag THEN 1 ELSE 0)
  BY PacketFields DEF PlusTag, Notes
<1>4. (\A k : l[Of(k)] \in Nat) /\ \A n \in 1 .. MaxRequests : d[n] \in Nat
  BY AccountKinds DEF Answered
<1>5. ASSUME NEW k \in Tags
      PROVE  /\ g1[k] = t1[SegmentsOf(k)] /\ s1[Tagged(k)] <= 1
             /\ g1[k] > 0 \/ s1[Tagged(k)] > 0 =>
                  t1[SegmentsOf(k) \cap Traced] + s1[Tagged(k) \cap Traced] >= 1
  <2>1. /\ g[k] = t[SegmentsOf(k)] /\ s[Tagged(k)] <= 1
        /\ g[k] > 0 \/ s[Tagged(k)] > 0 =>
             t[SegmentsOf(k) \cap Traced] + s[Tagged(k) \cap Traced] >= 1
    BY DEF Books
  <2>2. PlusKind(t1, p, t, k)
    BY PlusKinds
  <2>3. PlusKind(s, p, s1, k)
    BY PlusKinds
  <2> QED BY <1>3, <2>1, <2>2, <2>3 DEF PlusKind
<1>6. ASSUME NEW n \in 1 .. MaxRequests
      PROVE  t1[Of(n)] + s1[Of(n)] + l[Of(n)] + d[n] <= IF n <= m THEN 1 ELSE 0
  <2>1. t[Of(n)] + s[Of(n)] + l[Of(n)] + d[n] <= IF n <= m THEN 1 ELSE 0
    BY DEF Books
  <2>2. PlusKind(t1, p, t, n)
    BY PlusKinds
  <2>3. PlusKind(s, p, s1, n)
    BY PlusKinds
  <2> QED BY <1>4, <2>1, <2>2, <2>3 DEF PlusKind
<1> QED BY <1>1, <1>5, <1>6 DEF Books

\* Another response of a segment is merged into the one set aside.
LEMMA CollectNext ==
  ASSUME NEW g \in Notes, NEW t \in Accounts, NEW s \in Accounts, NEW l \in Accounts,
         NEW d \in Answered, NEW m \in Nat, Books(g, t, s, l, d, m),
         NEW p \in Packet, p.segment, NEW q \in Packet, q.tag = p.tag,
         NEW w \in Packet, w.tag = p.tag, w.trace = IF p.trace = 0 THEN q.trace ELSE p.trace,
         NEW t1 \in Accounts, Plus(t1, p, t),
         NEW s0 \in Accounts, Plus(s0, q, s), NEW s1 \in Accounts, Plus(s0, w, s1),
         NEW g1 \in Notes, PlusTag(g1, p.tag, g)
  PROVE  Books(g1, t1, s1, l, d, m)
<1>1. ASSUME NEW k
      PROVE  /\ t1[Stray] = t[Stray]
             /\ t[SegmentsOf(k)] = t1[SegmentsOf(k)] + (IF p.tag = k THEN 1 ELSE 0)
             /\ t[SegmentsOf(k) \cap Traced] =
                  t1[SegmentsOf(k) \cap Traced] + (IF p.tag = k /\ p.trace # 0 THEN 1 ELSE 0)
             /\ t1[SegmentsOf(k)] \in Nat /\ t1[SegmentsOf(k) \cap Traced] \in Nat
             /\ t[Of(k)] = t1[Of(k)] + (IF p.trace = k THEN 1 ELSE 0) /\ t1[Of(k)] \in Nat
  <2>1. PlusKind(t1, p, t, k)
    BY PlusKinds
  <2> QED BY <2>1 DEF PlusKind
<1>3. p.tag \in Tags /\ \A k \in Tags : g1[k] \in Nat /\ g[k] = g1[k] + (IF k = p.tag THEN 1 ELSE 0)
  BY PacketFields DEF PlusTag, Notes
<1>4. (\A k : l[Of(k)] \in Nat) /\ \A n \in 1 .. MaxRequests : d[n] \in Nat
  BY AccountKinds DEF Answered
<1>5. ASSUME NEW k \in Tags
      PROVE  /\ g1[k] = t1[SegmentsOf(k)] /\ s1[Tagged(k)] <= 1
             /\ g1[k] > 0 \/ s1[Tagged(k)] > 0 =>
                  t1[SegmentsOf(k) \cap Traced] + s1[Tagged(k) \cap Traced] >= 1
  <2>1. /\ g[k] = t[SegmentsOf(k)] /\ s[Tagged(k)] <= 1
        /\ g[k] > 0 \/ s[Tagged(k)] > 0 =>
             t[SegmentsOf(k) \cap Traced] + s[Tagged(k) \cap Traced] >= 1
    BY DEF Books
  <2>2. PlusKind(t1, p, t, k)
    BY PlusKinds
  <2>3. PlusKind(s0, q, s, k) /\ PlusKind(s0, w, s1, k)
    BY PlusKinds
  <2> QED BY <1>3, <2>1, <2>2, <2>3 DEF PlusKind
<1>6. ASSUME NEW n \in 1 .. MaxRequests
      PROVE  t1[Of(n)] + s1[Of(n)] + l[Of(n)] + d[n] <= IF n <= m THEN 1 ELSE 0
  <2>1. t[Of(n)] + s[Of(n)] + l[Of(n)] + d[n] <= IF n <= m THEN 1 ELSE 0
    BY DEF Books
  <2>2. PlusKind(t1, p, t, n)
    BY PlusKinds
  <2>3. PlusKind(s0, q, s, n) /\ PlusKind(s0, w, s1, n)
    BY PlusKinds
  <2> QED BY <1>4, <2>1, <2>2, <2>3 DEF PlusKind
<1> QED BY <1>1, <1>5, <1>6 DEF Books

\* The last response of a segment makes the whole response, which has a trace.
LEMMA CollectLast ==
  ASSUME NEW g \in Notes, NEW t \in Accounts, NEW s \in Accounts, NEW l \in Accounts,
         NEW d \in Answered, NEW m \in Nat, Books(g, t, s, l, d, m),
         NEW p \in Packet, p.segment, NEW q \in Packet, q.tag = p.tag,
         NEW w \in Packet, ~w.segment, w.tag = p.tag,
         w.trace = IF p.trace = 0 THEN q.trace ELSE p.trace,
         NEW t0 \in Accounts, Plus(t0, p, t), NEW t1 \in Accounts, Plus(t0, w, t1),
         NEW s0 \in Accounts, Plus(s0, q, s),
         t0[SegmentsOf(p.tag) \cap Traced] <= t0[SegmentsOf(p.tag)],
         s0[Tagged(p.tag) \cap Traced] <= s0[Tagged(p.tag)],
         NEW g1 \in Notes, PlusTag(g1, p.tag, g), g1[p.tag] = 0
  PROVE  Books(g1, t1, s0, l, d, m)
<1>1. ASSUME NEW k
      PROVE  /\ t1[Stray] = t[Stray] + (IF w.trace = 0 THEN 1 ELSE 0)
             /\ t[SegmentsOf(k)] = t1[SegmentsOf(k)] + (IF p.tag = k THEN 1 ELSE 0)
             /\ t0[SegmentsOf(k)] = t1[SegmentsOf(k)]
             /\ t0[SegmentsOf(k) \cap Traced] = t1[SegmentsOf(k) \cap Traced]
             /\ t[SegmentsOf(k) \cap Traced] =
                  t1[SegmentsOf(k) \cap Traced] + (IF p.tag = k /\ p.trace # 0 THEN 1 ELSE 0)
             /\ t1[SegmentsOf(k)] \in Nat /\ t1[SegmentsOf(k) \cap Traced] \in Nat
             /\ t[Of(k)] = t0[Of(k)] + (IF p.trace = k THEN 1 ELSE 0) /\ t0[Of(k)] \in Nat
             /\ t1[Of(k)] = t0[Of(k)] + (IF w.trace = k THEN 1 ELSE 0)
  <2>1. PlusKind(t0, p, t, k) /\ PlusKind(t0, w, t1, k)
    BY PlusKinds
  <2> QED BY <2>1 DEF PlusKind
<1>2. ASSUME NEW k
      PROVE  /\ s[Tagged(k)] = s0[Tagged(k)] + (IF p.tag = k THEN 1 ELSE 0)
             /\ s[Tagged(k) \cap Traced] =
                  s0[Tagged(k) \cap Traced] + (IF p.tag = k /\ q.trace # 0 THEN 1 ELSE 0)
             /\ s0[Tagged(k)] \in Nat /\ s0[Tagged(k) \cap Traced] \in Nat
             /\ s[Of(k)] = s0[Of(k)] + (IF q.trace = k THEN 1 ELSE 0) /\ s0[Of(k)] \in Nat
  <2>1. PlusKind(s0, q, s, k)
    BY PlusKinds
  <2> QED BY <2>1 DEF PlusKind
<1>3. p.tag \in Tags /\ \A k \in Tags : g1[k] \in Nat /\ g[k] = g1[k] + (IF k = p.tag THEN 1 ELSE 0)
  BY PacketFields DEF PlusTag, Notes
<1>4. (\A k : l[Of(k)] \in Nat) /\ \A n \in 1 .. MaxRequests : d[n] \in Nat
  BY AccountKinds DEF Answered
<1>5. w.trace # 0
  <2> DEFINE k == p.tag
  <2>1. /\ g[k] = t[SegmentsOf(k)] /\ s[Tagged(k)] <= 1
        /\ g[k] > 0 => t[SegmentsOf(k) \cap Traced] + s[Tagged(k) \cap Traced] >= 1
    BY <1>3 DEF Books
  <2>2. g[k] = 1 /\ t1[SegmentsOf(k)] = 0 /\ t1[SegmentsOf(k) \cap Traced] = 0
    BY <1>1, <1>3, <2>1
  <2>3. s0[Tagged(k)] = 0 /\ s0[Tagged(k) \cap Traced] = 0
    BY <1>2, <2>1
  <2>4. PlusKind(t0, p, t, k) /\ PlusKind(t0, w, t1, k) /\ PlusKind(s0, q, s, k)
    BY PlusKinds
  <2> QED BY <2>1, <2>2, <2>3, <2>4 DEF PlusKind
<1>6. ASSUME NEW k \in Tags
      PROVE  /\ g1[k] = t1[SegmentsOf(k)] /\ s0[Tagged(k)] <= 1
             /\ g1[k] > 0 \/ s0[Tagged(k)] > 0 =>
                  t1[SegmentsOf(k) \cap Traced] + s0[Tagged(k) \cap Traced] >= 1
  <2>1. /\ g[k] = t[SegmentsOf(k)] /\ s[Tagged(k)] <= 1
        /\ g[k] > 0 \/ s[Tagged(k)] > 0 =>
             t[SegmentsOf(k) \cap Traced] + s[Tagged(k) \cap Traced] >= 1
    BY DEF Books
  <2>2. PlusKind(t0, p, t, k) /\ PlusKind(t0, w, t1, k)
    BY PlusKinds
  <2>3. PlusKind(s0, q, s, k)
    BY PlusKinds
  <2> QED BY <1>3, <2>1, <2>2, <2>3 DEF PlusKind
<1>7. ASSUME NEW n \in 1 .. MaxRequests
      PROVE  t1[Of(n)] + s0[Of(n)] + l[Of(n)] + d[n] <= IF n <= m THEN 1 ELSE 0
  <2>1. t[Of(n)] + s[Of(n)] + l[Of(n)] + d[n] <= IF n <= m THEN 1 ELSE 0
    BY DEF Books
  <2>2. PlusKind(t0, p, t, n) /\ PlusKind(t0, w, t1, n)
    BY PlusKinds
  <2>3. PlusKind(s0, q, s, n)
    BY PlusKinds
  <2> QED BY <1>4, <2>1, <2>2, <2>3 DEF PlusKind
<1>8. t1[Stray] = 0
  <2>1. PlusKind(t0, p, t, 0) /\ PlusKind(t0, w, t1, 0)
    BY PlusKinds
  <2> QED BY <1>5, <2>1 DEF PlusKind, Books
<1> QED BY <1>6, <1>7, <1>8 DEF Books
-----------------------------------------------------------------------------
(* The accounts of a state *)

NotesOf(tags) == [k \in Tags |-> Occurrences(tags, k)]
UnderWay(down, vlt, up) ==
  [P \in SUBSET Packet |-> In(down, P) + InAll(vlt, NUM_VAULTS, P) + In(up, P)]
Aside(segs) == [P \in SUBSET Packet |-> In(segs, P)]
AtLinks(lnk) == [P \in SUBSET Packet |-> InAll(lnk, NUM_LINKS, P)]
AnsweredOf(ans) == [n \in 1 .. MaxRequests |-> Occurrences(ans, n)]

\* The packets under way have an account.
LEMMA UnderWayType ==
  ASSUME NEW down \in Buffers, NEW vlt \in Shelves(NUM_VAULTS), NEW up \in Buffers
  PROVE  /\ UnderWay(down, vlt, up) \in Accounts
         /\ \A P \in SUBSET Packet :
              /\ UnderWay(down, vlt, up)[P] = In(down, P) + InAll(vlt, NUM_VAULTS, P) + In(up, P)
              /\ In(down, P) \in Nat /\ InAll(vlt, NUM_VAULTS, P) \in Nat /\ In(up, P) \in Nat
<1>1. ASSUME NEW P \in SUBSET Packet
      PROVE  In(down, P) \in Nat /\ InAll(vlt, NUM_VAULTS, P) \in Nat /\ In(up, P) \in Nat
  <2>1. down \in Seq(Flit) /\ up \in Seq(Flit)
    BY DEF Buffers
  <2>2. In(down, P) \in Nat /\ In(up, P) \in Nat
    BY <2>1, InType
  <2>3. InAll(vlt, NUM_VAULTS, P) \in Nat
    BY CountsType, Sizes
  <2> QED BY <2>2, <2>3
<1> QED BY <1>1 DEF UnderWay, Accounts

\* The packets set aside have an account.
LEMMA AsideType ==
  ASSUME NEW segs \in Seq(Packet)
  PROVE  Aside(segs) \in Accounts /\ \A P \in SUBSET Packet : Aside(segs)[P] = In(segs, P)
<1>1. ASSUME NEW P \in SUBSET Packet PROVE In(segs, P) \in Nat
  BY InType
<1> QED BY <1>1 DEF Aside, Accounts

\* Those at the links have one.
LEMMA AtLinksType ==
  ASSUME NEW lnk \in Shelves(NUM_LINKS)
  PROVE  /\ AtLinks(lnk) \in Accounts
         /\ \A P \in SUBSET Packet : AtLinks(lnk)[P] = InAll(lnk, NUM_LINKS, P)
<1>1. ASSUME NEW P \in SUBSET Packet PROVE InAll(lnk, NUM_LINKS, P) \in Nat
  BY CountsType, Sizes
<1> QED BY <1>1 DEF AtLinks, Accounts

\* The TAGs noted have one.
LEMMA NotesType ==
  ASSUME NEW tags \in Seq(Tags)
  PROVE  NotesOf(tags) \in Notes /\ \A k \in Tags : NotesOf(tags)[k] = Occurrences(tags, k)
<1>1. ASSUME NEW k \in Tags PROVE Occurrences(tags, k) \in Nat
  BY OccurrencesType
<1> QED BY <1>1 DEF NotesOf, Notes

\* The requests answered have one.
LEMMA AnsweredType ==
  ASSUME NEW ans \in Seq(1 .. MaxRequests)
  PROVE  /\ AnsweredOf(ans) \in Answered
         /\ \A n \in 1 .. MaxRequests : AnsweredOf(ans)[n] = Occurrences(ans, n)
<1>1. ASSUME NEW n \in 1 .. MaxRequests PROVE Occurrences(ans, n) \in Nat
  BY OccurrencesType
<1> QED BY <1>1 DEF AnsweredOf, Answered

\* A TAG is noted.
LEMMA NotesAppend ==
  ASSUME NEW tags \in Seq(Tags), NEW k \in Tags
  PROVE  Append(tags, k) \in Seq(Tags) /\ PlusTag(NotesOf(tags), k, NotesOf(Append(tags, k)))
<1>1. Append(tags, k) \in Seq(Tags)
  OBVIOUS
<1>2. ASSUME NEW j \in Tags
      PROVE  NotesOf(Append(tags, k))[j] = NotesOf(tags)[j] + (IF j = k THEN 1 ELSE 0)
  <2>1. Occurrences(Append(tags, k), j) = Occurrences(tags, j) + (IF k = j THEN 1 ELSE 0)
    BY OccurrencesAppend
  <2> QED BY <1>1, <2>1, NotesType
<1> QED BY <1>1, <1>2 DEF PlusTag

\* A note is removed.
LEMMA NotesRemove ==
  ASSUME NEW tags \in Seq(Tags), NEW k \in Tags, k \in ToSet(tags)
  PROVE  /\ Untag(tags, k) \in Seq(Tags) /\ PlusTag(NotesOf(Untag(tags, k)), k, NotesOf(tags))
<1> DEFINE I == {i \in 1 .. Len(tags) : tags[i] = k}
           j == SelectInSeq(tags, LAMBDA v : v = k)
<1>1. PICK i \in I : TRUE
  <2>1. DOMAIN tags = 1 .. Len(tags)
    OBVIOUS
  <2> QED BY <2>1 DEF ToSet
<1>2. j = Min(I)
  BY <1>1 DEF SelectInSeq
<1>3. j \in I
  <2>1. Len(tags) \in Nat /\ I \in SUBSET (0 .. Len(tags)) /\ I # {}
    BY <1>1
  <2> HIDE DEF I, j
  <2>2. \E l \in I : \A n \in I : l <= n
    BY <2>1, LeastAndGreatest
  <2> QED BY <1>2, <2>2 DEF Min
<1>4. Untag(tags, k) = RemoveAt(tags, j)
  BY <1>1 DEF Untag, RemoveFirst
<1>5. j \in DOMAIN tags /\ tags[j] = k
  BY <1>3
<1> HIDE DEF j
<1>6. RemoveAt(tags, j) \in Seq(Tags)
  BY <1>5, RemoveAtLaws
<1>7. ASSUME NEW n \in Tags
      PROVE  NotesOf(tags)[n] = NotesOf(RemoveAt(tags, j))[n] + (IF n = k THEN 1 ELSE 0)
  <2>1. Occurrences(tags, n) = Occurrences(RemoveAt(tags, j), n) + (IF tags[j] = n THEN 1 ELSE 0)
    BY <1>5, OccurrencesRemoveAt
  <2> QED BY <1>5, <1>6, <2>1, NotesType
<1> QED BY <1>4, <1>6, <1>7 DEF PlusTag

\* A packet more among those under way.
LEMMA UnderWayPlus ==
  ASSUME NEW down \in Buffers, NEW vlt \in Shelves(NUM_VAULTS), NEW up \in Buffers,
         NEW down1 \in Buffers, NEW vlt1 \in Shelves(NUM_VAULTS), NEW up1 \in Buffers, NEW p \in Packet,
         \A P \in SUBSET Packet :
           In(down1, P) + InAll(vlt1, NUM_VAULTS, P) + In(up1, P) =
             In(down, P) + InAll(vlt, NUM_VAULTS, P) + In(up, P) + Has(p, P)
  PROVE  Plus(UnderWay(down, vlt, up), p, UnderWay(down1, vlt1, up1))
  BY DEF Plus, UnderWay
-----------------------------------------------------------------------------
(* The downstream loop *)

\* A segment that would be cut again.
Big == {p \in Packet : p.segment /\ p.reqDataSize > ADDRESS_MAPPING}

\* The states of the loop: buffers of whole packets, and segments of one block.
Downs ==
  {st \in [at: Nat \ {0}, buf: Buffers, tags: Seq(Tags), vault: Shelves(NUM_VAULTS)] :
     In(st.buf, Big) = 0}

\* And accounts that balance, where the rest of the state is up, s, l, d and m.
DownBooks(up, s, l, d, m) ==
  {st \in Downs : Books(NotesOf(st.tags), UnderWay(st.buf, st.vault, up), s, l, d, m)}

\* The fields of a state of the loop.
LEMMA DownsFields ==
  ASSUME NEW st \in Downs
  PROVE  /\ st.at \in Nat \ {0} /\ st.buf \in Buffers /\ st.tags \in Seq(Tags)
         /\ st.vault \in Shelves(NUM_VAULTS) /\ In(st.buf, Big) = 0
         /\ st = [at |-> st.at, buf |-> st.buf, tags |-> st.tags, vault |-> st.vault]
         /\ st \in Down
<1>1. st \in [at: Nat \ {0}, buf: Buffers, tags: Seq(Tags), vault: Shelves(NUM_VAULTS)]
  BY DEF Downs
<1>2. Buffers \subseteq Seq(Flit) /\ Shelves(NUM_VAULTS) \subseteq [Vaults -> Seq(Flit)]
  BY DEF Buffers, Shelves, Vaults
<1>3. /\ st.at \in Nat \ {0} /\ st.buf \in Buffers /\ st.tags \in Seq(Tags)
      /\ st.vault \in Shelves(NUM_VAULTS)
      /\ st = [at |-> st.at, buf |-> st.buf, tags |-> st.tags, vault |-> st.vault]
  BY <1>1
<1>4. st \in Down
  BY <1>2, <1>3 DEF Down
<1> QED BY <1>3, <1>4 DEF Downs

\* A kind of packet.
LEMMA BigSet == Big \in SUBSET Packet
  BY DEF Big

\* What a segment is.
LEMMA SegmentFields ==
  ASSUME NEW p \in Packet, NEW j \in Nat
  PROVE  /\ Segment(p, j) \in Packet /\ Segment(p, j).tag = p.tag
         /\ Segment(p, j).trace = (IF j = 0 THEN p.trace ELSE 0) /\ Segment(p, j).segment
         /\ Has(Segment(p, j), Big) = 0
<1> DEFINE q == Segment(p, j)
<1>1. ADDRESS_MAPPING \in Nat \ {0} /\ MaxRequests \in Nat
  BY Sizes
<1>2. /\ (IF j = 0 THEN p.trace ELSE 0) \in 0 .. MaxRequests
      /\ (IF p.lng > 1 THEN 1 + ADDRESS_MAPPING ELSE 1) \in Nat \ {0}
      /\ p.adrs + j \in Nat
  BY <1>1, PacketFields
<1>3. q \in Packet
  BY <1>1, <1>2 DEF Segment, Packet
<1>4. /\ q.trace = (IF j = 0 THEN p.trace ELSE 0) /\ q.tag = p.tag
      /\ q.reqDataSize = ADDRESS_MAPPING /\ q.segment = TRUE
  BY DEF Segment, Packet
<1>5. q \notin Big
  BY <1>1, <1>4 DEF Big
<1> QED BY <1>3, <1>4, <1>5 DEF Has

\* There is a place between two packets at x.at.
AtPlace(x) == \E l, r \in Buffers : x.buf = l \o r /\ x.at = Len(l) + 1

\* A packet put in at such a place.
LEMMA PutInKeeps ==
  ASSUME NEW x \in Downs, AtPlace(x), NEW p \in Packet, Has(p, Big) = 0
  PROVE  LET y == PutIn(x, p)
         IN  /\ y \in Downs /\ AtPlace(y) /\ y.vault = x.vault /\ y.tags = Append(x.tags, p.tag)
             /\ \A P \in SUBSET Packet : In(y.buf, P) = In(x.buf, P) + Has(p, P)
<1>1. PICK l \in Buffers, r \in Buffers : x.buf = l \o r /\ x.at = Len(l) + 1
  BY DEF AtPlace
<1> DEFINE f == Flits(p)
           b == (l \o f) \o r
           y == PutIn(x, p)
<1>2. f \in Buffers /\ Len(f) = p.lng
  BY FlitsLaws
<1>3. l \in Seq(Flit) /\ r \in Seq(Flit) /\ f \in Seq(Flit)
  BY <1>2 DEF Buffers
<1>4. l \o f \in Buffers /\ b \in Buffers
  BY <1>2, JoinBuffers
<1>5. Len(l) \in Nat /\ Len(l \o f) = Len(l) + p.lng /\ p.lng \in Nat \ {0} /\ p.tag \in Tags
  <2>1. p.lng \in Nat \ {0} /\ p.tag \in Tags
    BY PacketFields
  <2>2. Len(l) \in Nat /\ Len(l \o f) = Len(l) + Len(f)
    BY <1>3, JoinPlaces
  <2> QED BY <1>2, <2>1, <2>2
<1>6. SubSeq(x.buf, 1, x.at - 1) = l /\ SubSeq(x.buf, x.at, Len(x.buf)) = r
  <2>1. SubSeq(l \o r, 1, Len(l)) = l /\ SubSeq(l \o r, Len(l) + 1, Len(l \o r)) = r
    BY <1>3, CutJoined
  <2>2. x.at - 1 = Len(l)
    BY SMTT(60), <1>1, <1>5
  <2> QED BY <1>1, <2>1, <2>2
<1>7. /\ y \in [at: Nat \ {0}, buf: Buffers, tags: Seq(Tags), vault: Shelves(NUM_VAULTS)]
      /\ y.at = x.at + p.lng /\ y.buf = b /\ y.tags = Append(x.tags, p.tag) /\ y.vault = x.vault
  <2>1. x \in [at: Nat \ {0}, buf: Buffers, tags: Seq(Tags), vault: Shelves(NUM_VAULTS)]
    BY DEF Downs
  <2>2. SubSeq(x.buf, 1, x.at - 1) \o Flits(p) \o SubSeq(x.buf, x.at, Len(x.buf)) = b
    BY <1>6
  <2>3. x.at + p.lng \in Nat \ {0} /\ b \in Buffers /\ Append(x.tags, p.tag) \in Seq(Tags)
    BY <1>4, <1>5, <2>1
  <2>4. /\ y.at = x.at + p.lng /\ y.tags = Append(x.tags, p.tag) /\ y.vault = x.vault
        /\ y.buf = SubSeq(x.buf, 1, x.at - 1) \o Flits(p) \o SubSeq(x.buf, x.at, Len(x.buf))
    BY <2>1 DEF PutIn
  <2>5. y \in [at: Nat \ {0}, buf: Buffers, tags: Seq(Tags), vault: Shelves(NUM_VAULTS)]
    <3> DEFINE c == SubSeq(x.buf, 1, x.at - 1) \o Flits(p) \o SubSeq(x.buf, x.at, Len(x.buf))
    <3>1. c \in Buffers
      BY <2>2, <2>3
    <3>2. y = [x EXCEPT !.buf = c, !.at = @ + p.lng, !.tags = Append(@, p.tag)]
      BY DEF PutIn
    <3> HIDE DEF c, y, b
    <3> QED BY <2>1, <2>3, <3>1, <3>2
  <2> QED BY <2>2, <2>4, <2>5
<1>8. ASSUME NEW P \in SUBSET Packet PROVE In(b, P) = In(x.buf, P) + Has(p, P)
  <2> DEFINE lf == l \o f
  <2>0. lf \in Seq(Flit)
    BY <1>4 DEF Buffers
  <2>1. In(lf \o r, P) = In(lf, P) + In(r, P)
    BY <1>3, <2>0, InJoin
  <2>2. In(lf, P) = In(l, P) + In(f, P)
    BY <1>3, InJoin
  <2>3. In(l \o r, P) = In(l, P) + In(r, P)
    BY <1>3, InJoin
  <2>4. In(l, P) \in Nat /\ In(r, P) \in Nat
    BY <1>3, InType
  <2>5. In(f, P) = Has(p, P) /\ Has(p, P) \in 0 .. 1
    BY InOne
  <2>6. In(b, P) = In(lf \o r, P) /\ In(x.buf, P) = In(l \o r, P)
    BY <1>1
  <2> HIDE DEF lf, b, f
  <2> QED BY <2>1, <2>2, <2>3, <2>4, <2>5, <2>6
<1>9. AtPlace(y)
  <2>1. y.buf = (l \o f) \o r /\ y.at = Len(l \o f) + 1
    <3>1. x.at + p.lng = Len(l \o f) + 1
      BY <1>1, <1>5
    <3> QED BY <1>7, <3>1
  <2> HIDE DEF y
  <2> QED BY <1>4, <2>1 DEF AtPlace
<1>10. y \in Downs
  <2>1. In(b, Big) = 0
    BY <1>8, BigSet, DownsFields
  <2> HIDE DEF b, y
  <2> QED BY <1>7, <2>1 DEF Downs
<1> HIDE DEF b
<1> QED BY <1>7, <1>8, <1>9, <1>10

\* A packet that the loop takes out: its buffer and its accounts.
LEMMA DownErased ==
  ASSUME NEW st \in Downs, st.at \in HeadsOf(st.buf), NEW up \in Buffers
  PROVE  /\ st.buf[st.at] \in Packet /\ st.buf[st.at] \notin Big
         /\ [st EXCEPT !.buf = Erase(st.buf, st.at)] \in Downs
         /\ AtPlace([st EXCEPT !.buf = Erase(st.buf, st.at)])
         /\ Plus(UnderWay(Erase(st.buf, st.at), st.vault, up), st.buf[st.at],
                 UnderWay(st.buf, st.vault, up))
<1> DEFINE p == st.buf[st.at]
           b == Erase(st.buf, st.at)
           x == [st EXCEPT !.buf = b]
<1>1. st.buf \in Buffers /\ st.vault \in Shelves(NUM_VAULTS) /\ In(st.buf, Big) = 0
  BY DownsFields
<1>2. /\ p \in Packet /\ b \in Buffers
      /\ \A P \in SUBSET Packet : In(st.buf, P) = In(b, P) + Has(p, P)
  BY <1>1, Erased
<1>3. \A P \in SUBSET Packet : In(b, P) \in Nat /\ Has(p, P) \in 0 .. 1
  <2>1. b \in Seq(Flit)
    BY <1>2 DEF Buffers
  <2> HIDE DEF b, p
  <2> QED BY <1>2, <2>1, InType, InOne
<1>4. In(b, Big) = 0 /\ Has(p, Big) = 0
  BY <1>1, <1>2, <1>3, BigSet
<1>5. p \notin Big
  BY <1>4 DEF Has
<1>6. x \in [at: Nat \ {0}, buf: Buffers, tags: Seq(Tags), vault: Shelves(NUM_VAULTS)] /\ x.buf = b /\ x.at = st.at
  <2>1. st \in [at: Nat \ {0}, buf: Buffers, tags: Seq(Tags), vault: Shelves(NUM_VAULTS)]
    BY DEF Downs
  <2> HIDE DEF b
  <2> QED BY <1>2, <2>1
<1>7. x \in Downs
  <2> HIDE DEF b, x
  <2> QED BY <1>4, <1>6 DEF Downs
<1>8. AtPlace(x)
  <2>1. PICK l \in Buffers, r \in Buffers : b = l \o r /\ Len(l) = st.at - 1
    BY <1>1, TakeOut
  <2>2. st.at = Len(l) + 1
    BY <2>1, DownsFields
  <2> HIDE DEF b, x
  <2> QED BY <1>6, <2>1, <2>2 DEF AtPlace
<1>9. Plus(UnderWay(b, st.vault, up), p, UnderWay(st.buf, st.vault, up))
  <2>1. ASSUME NEW P \in SUBSET Packet
        PROVE  In(st.buf, P) + InAll(st.vault, NUM_VAULTS, P) + In(up, P) =
                 In(b, P) + InAll(st.vault, NUM_VAULTS, P) + In(up, P) + Has(p, P)
    <3>1. In(b, P) \in Nat /\ InAll(st.vault, NUM_VAULTS, P) \in Nat /\ In(up, P) \in Nat
      BY <1>1, <1>2, UnderWayType
    <3> HIDE DEF b, p
    <3> QED BY <1>2, <1>3, <3>1
  <2> HIDE DEF b, p
  <2> QED BY <1>1, <1>2, <2>1, UnderWayPlus
<1> QED BY <1>2, <1>5, <1>7, <1>8, <1>9

\* The loop in Divide.
Cut == INSTANCE LoopProofs WITH Body <- LAMBDA p, x, j : PutIn(x, Segment(p, j))

\* At least one segment is made.
LEMMA SomeBlocks ==
  ASSUME NEW size \in Nat, size > ADDRESS_MAPPING
  PROVE  Blocks(size) \in Nat \ {0}
<1> DEFINE M == ADDRESS_MAPPING
           a == size + M - 1
           q == a \div M
           r == a % M
<1>1. M \in Nat \ {0} /\ a \in Nat /\ a >= M
  BY Sizes
<1> HIDE DEF M, a
<1>2. q \in Nat /\ r \in 0 .. M - 1 /\ a = M * q + r
  BY <1>1, Division
<1>3. q # 0
  <2>1. SUFFICES ASSUME q = 0 PROVE FALSE
    OBVIOUS
  <2>2. a = M * 0 + r
    BY <1>2, <2>1
  <2> HIDE DEF q, r
  <2> QED BY <1>1, <1>2, <2>2
<1>4. Blocks(size) = q
  BY DEF Blocks, a, M
<1> QED BY <1>2, <1>3, <1>4

\* A packet is cut into segments, all of which are noted.
LEMMA DivideKeeps ==
  ASSUME NEW up \in Buffers, NEW s \in Accounts, NEW l \in Accounts, NEW d \in Answered, NEW m \in Nat,
         NEW st \in DownBooks(up, s, l, d, m), st.at \in HeadsOf(st.buf),
         st.buf[st.at].reqDataSize > ADDRESS_MAPPING
  PROVE  Divide(st) \in DownBooks(up, s, l, d, m)
<1> DEFINE p == st.buf[st.at]
           x0 == [st EXCEPT !.buf = Erase(@, st.at)]
           n == Blocks(p.reqDataSize)
           G == {x \in DownBooks(up, s, l, d, m) :
                   AtPlace(x) /\ x.vault = st.vault /\ NotesOf(x.tags)[p.tag] >= 1}
           A == [j \in 0 .. n |-> IF j = 0 THEN {x0} ELSE G]
           t(x) == UnderWay(x.buf, x.vault, up)
<1>1. st \in Downs /\ Books(NotesOf(st.tags), t(st), s, l, d, m)
  BY DEF DownBooks
<1>2. /\ p \in Packet /\ p \notin Big /\ x0 \in Downs /\ AtPlace(x0)
      /\ x0.buf = Erase(st.buf, st.at) /\ x0.tags = st.tags /\ x0.vault = st.vault
      /\ Plus(t(x0), p, t(st))
  <2>1. x0 = [st EXCEPT !.buf = Erase(st.buf, st.at)]
    OBVIOUS
  <2>2. st \in [at: Nat \ {0}, buf: Buffers, tags: Seq(Tags), vault: Shelves(NUM_VAULTS)]
    BY <1>1 DEF Downs
  <2>3. x0.buf = Erase(st.buf, st.at) /\ x0.tags = st.tags /\ x0.vault = st.vault
    BY <2>1, <2>2
  <2> QED BY <1>1, <2>1, <2>3, DownErased
<1>3. ~p.segment
  BY <1>2 DEF Big
<1>4. n \in Nat \ {0}
  BY <1>2, PacketFields, SomeBlocks
<1>5. \A x \in Downs : t(x) \in Accounts /\ NotesOf(x.tags) \in Notes /\ x.vault \in Shelves(NUM_VAULTS)
  BY DownsFields, UnderWayType, NotesType
<1> HIDE DEF n, x0, p
<1>6. ASSUME NEW x \in Downs, AtPlace(x), x.vault = st.vault, NEW a \in Packet, Has(a, Big) = 0
      PROVE  LET y == PutIn(x, a)
             IN  /\ y \in Downs /\ AtPlace(y) /\ y.vault = st.vault
                 /\ Plus(t(x), a, t(y)) /\ PlusTag(NotesOf(x.tags), a.tag, NotesOf(y.tags))
  <2> DEFINE y == PutIn(x, a)
  <2>1. /\ y \in Downs /\ AtPlace(y) /\ y.vault = x.vault /\ y.tags = Append(x.tags, a.tag)
        /\ \A P \in SUBSET Packet : In(y.buf, P) = In(x.buf, P) + Has(a, P)
    BY <1>6, PutInKeeps
  <2> HIDE DEF y
  <2>2. /\ x.buf \in Buffers /\ x.vault \in Shelves(NUM_VAULTS) /\ x.tags \in Seq(Tags)
        /\ y.buf \in Buffers /\ y.vault \in Shelves(NUM_VAULTS)
    BY <2>1, DownsFields
  <2>3. ASSUME NEW P \in SUBSET Packet
        PROVE  In(y.buf, P) + InAll(y.vault, NUM_VAULTS, P) + In(up, P) =
                 In(x.buf, P) + InAll(x.vault, NUM_VAULTS, P) + In(up, P) + Has(a, P)
    <3>1. In(x.buf, P) \in Nat /\ InAll(x.vault, NUM_VAULTS, P) \in Nat /\ In(up, P) \in Nat
      BY <2>2, UnderWayType
    <3>2. Has(a, P) \in 0 .. 1
      BY InOne
    <3>3. In(y.buf, P) = In(x.buf, P) + Has(a, P) /\ y.vault = x.vault
      BY <2>1
    <3> QED BY <3>1, <3>2, <3>3
  <2>4. Plus(t(x), a, t(y))
    BY <2>2, <2>3, UnderWayPlus
  <2>5. PlusTag(NotesOf(x.tags), a.tag, NotesOf(y.tags))
    BY <2>1, <2>2, NotesAppend, PacketFields
  <2> QED BY <1>6, <2>1, <2>4, <2>5 DEF y
<1>7. PutIn(x0, Segment(p, 0)) \in G
  <2> DEFINE a == Segment(p, 0)
             y == PutIn(x0, a)
  <2>1. a \in Packet /\ a.tag = p.tag /\ a.trace = p.trace /\ a.segment /\ Has(a, Big) = 0
    BY <1>2, SegmentFields
  <2> HIDE DEF a
  <2>2. /\ y \in Downs /\ AtPlace(y) /\ y.vault = st.vault
        /\ Plus(t(x0), a, t(y)) /\ PlusTag(NotesOf(x0.tags), a.tag, NotesOf(y.tags))
    BY <1>2, <1>6, <2>1
  <2> HIDE DEF y, t
  <2>3. Books(NotesOf(y.tags), t(y), s, l, d, m) /\ NotesOf(y.tags)[a.tag] >= 1
    BY <1>1, <1>2, <1>3, <1>5, <2>1, <2>2, FirstSegment
  <2> USE DEF t
  <2> QED BY <2>1, <2>2, <2>3 DEF DownBooks, y, a
<1>8. ASSUME NEW x \in G, NEW j \in Nat, j # 0
      PROVE  PutIn(x, Segment(p, j)) \in G
  <2> DEFINE a == Segment(p, j)
             y == PutIn(x, a)
  <2>1. a \in Packet /\ a.tag = p.tag /\ a.trace = 0 /\ a.segment /\ Has(a, Big) = 0
    BY <1>2, <1>8, SegmentFields
  <2>2. /\ x \in Downs /\ AtPlace(x) /\ x.vault = st.vault /\ NotesOf(x.tags)[a.tag] >= 1
        /\ Books(NotesOf(x.tags), t(x), s, l, d, m)
    BY <2>1 DEF DownBooks
  <2> HIDE DEF a
  <2>3. /\ y \in Downs /\ AtPlace(y) /\ y.vault = st.vault
        /\ Plus(t(x), a, t(y)) /\ PlusTag(NotesOf(x.tags), a.tag, NotesOf(y.tags))
    BY <1>6, <2>1, <2>2
  <2> HIDE DEF y, t
  <2>4. Books(NotesOf(y.tags), t(y), s, l, d, m) /\ NotesOf(y.tags)[a.tag] >= 1
    BY <1>5, <2>1, <2>2, <2>3, NextSegment
  <2> USE DEF t
  <2> QED BY <2>1, <2>3, <2>4 DEF DownBooks, y, a
<1>9. Cut!After(p, x0, n) \in G
  <2>1. x0 \in A[0] /\ A[n] = G
    BY <1>4
  <2>2. ASSUME NEW j \in 0 .. n - 1, NEW x \in A[j] PROVE PutIn(x, Segment(p, j)) \in A[j + 1]
    <3>1. j \in 0 .. n /\ j + 1 \in 0 .. n /\ j + 1 # 0 /\ j \in Nat /\ A[j + 1] = G
      BY <1>4
    <3>2. CASE j = 0
      <4>1. x = x0
        BY <3>1, <3>2
      <4> QED BY <1>7, <3>1, <3>2, <4>1
    <3>3. CASE j # 0
      <4>1. x \in G
        BY <3>1, <3>3
      <4> HIDE DEF G, A
      <4> QED BY <1>8, <3>1, <3>3, <4>1
    <3> QED BY <3>2, <3>3
  <2> HIDE DEF A, G
  <2>3. Cut!After(p, x0, n) \in A[n]
    BY <1>4, <2>1, <2>2, Cut!LoopRule
  <2> QED BY <2>1, <2>3
<1>10. Divide(st) = [Cut!After(p, x0, n) EXCEPT !.at = @ + 1]
  BY DEF Divide, Cut!After, Cut!Repeat, Repeat, p, x0, n
<1> DEFINE z == Cut!After(p, x0, n)
           y == [z EXCEPT !.at = @ + 1]
<1>11. z \in Downs /\ Books(NotesOf(z.tags), UnderWay(z.buf, z.vault, up), s, l, d, m)
  BY <1>9 DEF DownBooks
<1> HIDE DEF z
<1>12. y \in Downs /\ y.buf = z.buf /\ y.tags = z.tags /\ y.vault = z.vault
  <2>1. z \in [at: Nat \ {0}, buf: Buffers, tags: Seq(Tags), vault: Shelves(NUM_VAULTS)] /\ In(z.buf, Big) = 0
    BY <1>11 DEF Downs
  <2>2. y \in [at: Nat \ {0}, buf: Buffers, tags: Seq(Tags), vault: Shelves(NUM_VAULTS)]
    BY <2>1
  <2>3. y.buf = z.buf /\ y.tags = z.tags /\ y.vault = z.vault
    BY <2>1
  <2> QED BY <2>1, <2>2, <2>3 DEF Downs
<1>13. y \in DownBooks(up, s, l, d, m)
  <2> HIDE DEF y
  <2> QED BY <1>11, <1>12 DEF DownBooks
<1> QED BY <1>10, <1>13 DEF z

\* A packet passed to a vault stays under way.
LEMMA SendDownKeeps ==
  ASSUME NEW up \in Buffers, NEW s \in Accounts, NEW l \in Accounts, NEW d \in Answered, NEW m \in Nat,
         NEW st \in DownBooks(up, s, l, d, m), st.at \in HeadsOf(st.buf)
  PROVE  SendDown(st) \in DownBooks(up, s, l, d, m)
<1> DEFINE p == st.buf[st.at]
           b == Erase(st.buf, st.at)
           v == VaultMap(p)
           f == st.vault[v] \o Flits(p)
           w == [st.vault EXCEPT ![v] = f]
           N == NUM_VAULTS
<1>1. st \in Downs /\ Books(NotesOf(st.tags), UnderWay(st.buf, st.vault, up), s, l, d, m)
  BY DEF DownBooks
<1>2. /\ st \in [at: Nat \ {0}, buf: Buffers, tags: Seq(Tags), vault: Shelves(N)]
      /\ In(st.buf, Big) = 0
  BY <1>1 DEF Downs
<1>3. /\ p \in Packet /\ b \in Buffers
      /\ \A P \in SUBSET Packet : In(st.buf, P) = In(b, P) + Has(p, P)
  BY <1>2, Erased
<1>4. v \in 0 .. N - 1
  <2>1. p.adrs \in Nat /\ N \in Nat \ {0}
    BY <1>3, PacketFields, Sizes
  <2> HIDE DEF p
  <2> QED BY <2>1, Division DEF VaultMap
<1>5. st.vault[v] \in Buffers
  BY <1>2, <1>4 DEF Shelves
<1>6. f \in Buffers /\ \A P \in SUBSET Packet : In(f, P) = In(st.vault[v], P) + Has(p, P)
  BY <1>3, <1>5, PutBehind
<1> HIDE DEF p, b, v, f
<1>7. /\ w \in Shelves(N)
      /\ \A P : InAll(w, N, P) + In(st.vault[v], P) = InAll(st.vault, N, P) + In(f, P)
  BY <1>2, <1>4, <1>6, InAllChange, Sizes
<1>8. UnderWay(b, w, up) = UnderWay(st.buf, st.vault, up)
  <2>1. ASSUME NEW P \in SUBSET Packet
        PROVE  In(b, P) + InAll(w, N, P) + In(up, P) =
                 In(st.buf, P) + InAll(st.vault, N, P) + In(up, P)
    <3>1. /\ In(b, P) \in Nat /\ InAll(w, N, P) \in Nat /\ In(up, P) \in Nat
          /\ InAll(st.vault, N, P) \in Nat
      BY <1>2, <1>3, <1>7, UnderWayType
    <3>2. In(st.vault[v], P) \in Nat
      BY <1>5, InType DEF Buffers
    <3>3. Has(p, P) \in 0 .. 1
      BY <1>3, InOne
    <3>4. /\ In(st.buf, P) = In(b, P) + Has(p, P) /\ In(f, P) = In(st.vault[v], P) + Has(p, P)
          /\ InAll(w, N, P) + In(st.vault[v], P) = InAll(st.vault, N, P) + In(f, P)
      BY <1>3, <1>6, <1>7
    <3> HIDE DEF w
    <3> QED BY <3>1, <3>2, <3>3, <3>4
  <2> QED BY <2>1 DEF UnderWay
<1>9. In(b, Big) = 0
  <2>1. In(b, Big) \in Nat /\ Has(p, Big) \in 0 .. 1
    <3>1. b \in Seq(Flit)
      BY <1>3 DEF Buffers
    <3> QED BY <1>3, <3>1, BigSet, InOne, InType
  <2> QED BY <1>2, <1>3, <2>1, BigSet
<1>10. CASE Fits(p, st.vault[v], MAX_VLT_BUF)
  <2> DEFINE y == [st EXCEPT !.buf = b, !.vault[v] = @ \o Flits(p)]
  <2>1. SendDown(st) = y
    BY <1>10 DEF SendDown, p, v, b
  <2>2. y = [st EXCEPT !.buf = b, !.vault = w]
    BY <1>2 DEF f
  <2> HIDE DEF w
  <2>3. /\ y \in [at: Nat \ {0}, buf: Buffers, tags: Seq(Tags), vault: Shelves(N)]
        /\ y.buf = b /\ y.tags = st.tags /\ y.vault = w
    BY <1>2, <1>3, <1>7, <2>2
  <2> HIDE DEF y
  <2>4. y \in Downs
    BY <1>9, <2>3 DEF Downs
  <2> QED BY <1>1, <1>8, <2>1, <2>3, <2>4 DEF DownBooks
<1>11. CASE ~Fits(p, st.vault[v], MAX_VLT_BUF)
  <2> DEFINE y == [st EXCEPT !.at = @ + 1]
  <2>1. SendDown(st) = y
    BY <1>11 DEF SendDown, p, v, b
  <2>2. /\ y \in [at: Nat \ {0}, buf: Buffers, tags: Seq(Tags), vault: Shelves(N)]
        /\ y.buf = st.buf /\ y.tags = st.tags /\ y.vault = st.vault
    BY <1>2
  <2> HIDE DEF y
  <2>3. y \in Downs
    BY <1>2, <2>2 DEF Downs
  <2> QED BY <1>1, <2>1, <2>2, <2>3 DEF DownBooks
<1> QED BY <1>10, <1>11

\* A step of the loop.
LEMMA DownStepKeeps ==
  ASSUME NEW up \in Buffers, NEW s \in Accounts, NEW l \in Accounts, NEW d \in Answered, NEW m \in Nat,
         NEW st \in DownBooks(up, s, l, d, m), st.at <= Len(st.buf)
  PROVE  DownStep(st) \in DownBooks(up, s, l, d, m)
<1>1. st \in Downs /\ Books(NotesOf(st.tags), UnderWay(st.buf, st.vault, up), s, l, d, m)
  BY DEF DownBooks
<1>2. CASE st.buf[st.at] = NULL
  <2> DEFINE y == [st EXCEPT !.at = @ + 1]
  <2>1. DownStep(st) = y
    BY <1>2 DEF DownStep
  <2>2. /\ st \in [at: Nat \ {0}, buf: Buffers, tags: Seq(Tags), vault: Shelves(NUM_VAULTS)]
        /\ In(st.buf, Big) = 0
    BY <1>1 DEF Downs
  <2>3. /\ y \in [at: Nat \ {0}, buf: Buffers, tags: Seq(Tags), vault: Shelves(NUM_VAULTS)]
        /\ y.buf = st.buf /\ y.tags = st.tags /\ y.vault = st.vault
    BY <2>2
  <2> HIDE DEF y
  <2>4. y \in Downs
    BY <2>2, <2>3 DEF Downs
  <2> QED BY <1>1, <2>1, <2>3, <2>4 DEF DownBooks
<1>3. CASE st.buf[st.at] # NULL
  <2>1. st.at \in HeadsOf(st.buf)
    <3>1. st.buf \in Seq(Flit) /\ st.at \in Nat \ {0}
      BY <1>1, DownsFields DEF Buffers
    <3>2. st.at \in DOMAIN st.buf
      BY <3>1
    <3> QED BY <1>3, <3>2 DEF HeadsOf
  <2>2. CASE st.buf[st.at].reqDataSize > ADDRESS_MAPPING
    BY <1>3, <2>1, <2>2, DivideKeeps DEF DownStep
  <2>3. CASE ~(st.buf[st.at].reqDataSize > ADDRESS_MAPPING)
    BY <1>3, <2>1, <2>3, SendDownKeeps DEF DownStep
  <2> QED BY <2>2, <2>3
<1> QED BY <1>2, <1>3

\* The loop as a loop.
DownRound(st) == [x \in Down |-> IF x.at > Len(x.buf) THEN x ELSE DownStep(x)][st]
DownRounds == INSTANCE LoopProofs WITH Body <- LAMBDA p, x, i : DownRound(x)

\* The downstream loop keeps the accounts.
LEMMA DownLoopKeeps ==
  ASSUME NEW up \in Buffers, NEW s \in Accounts, NEW l \in Accounts, NEW d \in Answered, NEW m \in Nat,
         NEW st \in DownBooks(up, s, l, d, m), NEW n \in Nat
  PROVE  Loop(DownStep, st, Down, n) \in DownBooks(up, s, l, d, m)
<1> DEFINE G == DownBooks(up, s, l, d, m)
<1>1. ASSUME NEW x \in G PROVE DownRound(x) \in G
  <2>1. x \in Downs /\ x \in Down /\ x.at \in Nat /\ x.buf \in Seq(Flit)
    BY DownsFields DEF DownBooks, Buffers
  <2>2. DownRound(x) = IF x.at > Len(x.buf) THEN x ELSE DownStep(x)
    BY <2>1 DEF DownRound
  <2>3. CASE x.at > Len(x.buf)
    BY <2>2, <2>3
  <2>4. CASE ~(x.at > Len(x.buf))
    <3>1. x.at <= Len(x.buf)
      BY <2>1, <2>4
    <3> QED BY <2>2, <2>4, <3>1, DownStepKeeps
  <2> QED BY <2>3, <2>4
<1> HIDE DEF G
<1>2. DownRounds!After(0, st, n) \in G
  BY <1>1, DownRounds!LoopKeeps DEF G
<1>3. Loop(DownStep, st, Down, n) = DownRounds!After(0, st, n)
  BY DEF Loop, DownRounds!After, DownRounds!Repeat, Repeat, DownRound
<1> QED BY <1>2, <1>3 DEF G
-----------------------------------------------------------------------------
(* The upstream loop *)

\* The states of the loop, and the accounts, where the rest of the state is
\* down, vlt, d and m.
Ups ==
  [at: Nat \ {0}, buf: Buffers, tags: Seq(Tags), segs: Seq(Packet),
   inService: -1 .. NUM_LINKS - 1, link: Shelves(NUM_LINKS), fault: {FALSE}]

UpBalances(st, down, vlt, d, m) ==
  Books(NotesOf(st.tags), UnderWay(down, vlt, st.buf), Aside(st.segs), AtLinks(st.link), d, m)

UpBooks(down, vlt, d, m) == {st \in Ups : UpBalances(st, down, vlt, d, m)}

\* The fields of a state of the loop.
LEMMA UpsFields ==
  ASSUME NEW st \in Ups
  PROVE  /\ st.at \in Nat \ {0} /\ st.buf \in Buffers /\ st.tags \in Seq(Tags)
         /\ st.segs \in Seq(Packet) /\ st.inService \in -1 .. NUM_LINKS - 1
         /\ st.link \in Shelves(NUM_LINKS) /\ st.fault = FALSE
         /\ st \in Up
<1>1. Buffers \subseteq Seq(Flit) /\ Shelves(NUM_LINKS) \subseteq [Links -> Seq(Flit)]
  BY DEF Buffers, Shelves, Links
<1>2. st \in Up
  <2>1. {FALSE} \subseteq BOOLEAN /\ Nat \ {0} \subseteq Nat
    OBVIOUS
  <2> QED BY <1>1, <2>1 DEF Ups, Up
<1> QED BY <1>2 DEF Ups

\* The accounts of a state of the loop.
LEMMA UpAccounts ==
  ASSUME NEW st \in Ups, NEW down \in Buffers, NEW vlt \in Shelves(NUM_VAULTS)
  PROVE  /\ NotesOf(st.tags) \in Notes /\ UnderWay(down, vlt, st.buf) \in Accounts
         /\ Aside(st.segs) \in Accounts /\ AtLinks(st.link) \in Accounts
  BY UpsFields, NotesType, UnderWayType, AsideType, AtLinksType

\* A packet that the loop takes out of the buffer.
LEMMA UpErased ==
  ASSUME NEW b \in Buffers, NEW i \in HeadsOf(b), NEW down \in Buffers, NEW vlt \in Shelves(NUM_VAULTS)
  PROVE  /\ b[i] \in Packet /\ Erase(b, i) \in Buffers
         /\ Plus(UnderWay(down, vlt, Erase(b, i)), b[i], UnderWay(down, vlt, b))
<1> DEFINE p == b[i]
           c == Erase(b, i)
<1>1. p \in Packet /\ c \in Buffers /\ \A P \in SUBSET Packet : In(b, P) = In(c, P) + Has(p, P)
  BY Erased
<1> HIDE DEF p, c
<1>2. ASSUME NEW P \in SUBSET Packet
      PROVE  In(down, P) + InAll(vlt, NUM_VAULTS, P) + In(b, P) =
               In(down, P) + InAll(vlt, NUM_VAULTS, P) + In(c, P) + Has(p, P)
  <2>1. In(down, P) \in Nat /\ InAll(vlt, NUM_VAULTS, P) \in Nat /\ In(c, P) \in Nat
    BY <1>1, UnderWayType
  <2>2. Has(p, P) \in 0 .. 1
    BY <1>1, InOne
  <2> QED BY <1>1, <2>1, <2>2
<1>3. Plus(UnderWay(down, vlt, c), p, UnderWay(down, vlt, b))
  BY <1>1, <1>2, UnderWayPlus
<1> QED BY <1>1, <1>3 DEF p, c

\* A packet put in front of the buffer, or behind it.
LEMMA UpPut ==
  ASSUME NEW b \in Buffers, NEW p \in Packet, NEW down \in Buffers, NEW vlt \in Shelves(NUM_VAULTS)
  PROVE  /\ Flits(p) \o b \in Buffers /\ b \o Flits(p) \in Buffers
         /\ Plus(UnderWay(down, vlt, b), p, UnderWay(down, vlt, Flits(p) \o b))
         /\ Plus(UnderWay(down, vlt, b), p, UnderWay(down, vlt, b \o Flits(p)))
<1> DEFINE c == Flits(p) \o b
           e == b \o Flits(p)
<1>1. /\ c \in Buffers /\ \A P \in SUBSET Packet : In(c, P) = In(b, P) + Has(p, P)
      /\ e \in Buffers /\ \A P \in SUBSET Packet : In(e, P) = In(b, P) + Has(p, P)
  BY PutInFront, PutBehind, KindSets
<1> HIDE DEF c, e
<1>2. ASSUME NEW P \in SUBSET Packet
      PROVE  /\ In(down, P) + InAll(vlt, NUM_VAULTS, P) + In(c, P) =
                  In(down, P) + InAll(vlt, NUM_VAULTS, P) + In(b, P) + Has(p, P)
             /\ In(down, P) + InAll(vlt, NUM_VAULTS, P) + In(e, P) =
                  In(down, P) + InAll(vlt, NUM_VAULTS, P) + In(b, P) + Has(p, P)
  <2>1. In(down, P) \in Nat /\ InAll(vlt, NUM_VAULTS, P) \in Nat /\ In(b, P) \in Nat
    BY UnderWayType
  <2>2. Has(p, P) \in 0 .. 1
    BY InOne
  <2> QED BY <1>1, <2>1, <2>2
<1>3. Plus(UnderWay(down, vlt, b), p, UnderWay(down, vlt, c))
  BY <1>1, <1>2, UnderWayPlus
<1>4. Plus(UnderWay(down, vlt, b), p, UnderWay(down, vlt, e))
  BY <1>1, <1>2, UnderWayPlus
<1> QED BY <1>1, <1>3, <1>4 DEF c, e

\* A packet is added to those set aside.
LEMMA AsideAppend ==
  ASSUME NEW segs \in Seq(Packet), NEW p \in Packet
  PROVE  Append(segs, p) \in Seq(Packet) /\ Plus(Aside(segs), p, Aside(Append(segs, p)))
<1>1. Append(segs, p) \in Seq(Packet) /\ Append(segs, p) = segs \o <<p>> /\ <<p>> \in Seq(Packet)
  OBVIOUS
<1>2. ASSUME NEW P \in SUBSET Packet PROVE In(Append(segs, p), P) = In(segs, P) + Has(p, P)
  <2>1. In(segs \o <<p>>, P) = In(segs, P) + In(<<p>>, P)
    BY <1>1, InJoin
  <2> QED BY <1>1, <2>1, InOne
<1> QED BY <1>1, <1>2 DEF Plus, Aside

\* A packet set aside is taken away or replaced.
LEMMA AsidePlace ==
  ASSUME NEW segs \in Seq(Packet), NEW j \in DOMAIN segs, NEW w \in Packet
  PROVE  /\ RemoveAt(segs, j) \in Seq(Packet) /\ [segs EXCEPT ![j] = w] \in Seq(Packet)
         /\ Plus(Aside(RemoveAt(segs, j)), segs[j], Aside(segs))
         /\ Plus(Aside(RemoveAt(segs, j)), w, Aside([segs EXCEPT ![j] = w]))
<1>1. RemoveAt(segs, j) \in Seq(Packet) /\ [segs EXCEPT ![j] = w] \in Seq(Packet)
  BY RemoveAtLaws
<1>2. \A P \in SUBSET Packet :
        /\ In(segs, P) = In(RemoveAt(segs, j), P) + Has(segs[j], P)
        /\ In([segs EXCEPT ![j] = w], P) = In(RemoveAt(segs, j), P) + Has(w, P)
  BY InPlace
<1> QED BY <1>1, <1>2 DEF Plus, Aside

\* The first packet set aside with a TAG.
LEMMA SelectLaws ==
  ASSUME NEW segs \in Seq(Packet), NEW k
  PROVE  LET j == SelectInSeq(segs, LAMBDA q : q.tag = k)
         IN  IF j = 0 THEN In(segs, Tagged(k)) = 0 ELSE j \in DOMAIN segs /\ segs[j].tag = k
<1> DEFINE I == {i \in 1 .. Len(segs) : segs[i].tag = k}
           j == SelectInSeq(segs, LAMBDA q : q.tag = k)
<1>1. DOMAIN segs = 1 .. Len(segs) /\ Len(segs) \in Nat /\ I \in SUBSET (0 .. Len(segs))
  OBVIOUS
<1>2. j = IF I # {} THEN Min(I) ELSE 0
  BY DEF SelectInSeq
<1>3. I # {} => j \in I
  <2> SUFFICES ASSUME I # {} PROVE j \in I
    OBVIOUS
  <2> HIDE DEF I, j
  <2>1. \E l \in I : \A n \in I : l <= n
    BY <1>1, LeastAndGreatest
  <2> QED BY <1>2, <2>1 DEF Min
<1>4. CASE I # {}
  <2>1. j \in 1 .. Len(segs) /\ segs[j].tag = k
    BY <1>3, <1>4
  <2> HIDE DEF j
  <2>2. j # 0
    BY <1>1, <2>1
  <2> QED BY <1>1, <2>1, <2>2 DEF j
<1>5. CASE I = {}
  <2>1. \A i \in DOMAIN segs : segs[i] \notin Tagged(k)
    BY <1>1, <1>5 DEF Tagged
  <2>2. In(segs, Tagged(k)) = 0
    BY <2>1, InType
  <2>3. j = 0
    BY <1>2, <1>5
  <2> HIDE DEF j
  <2> QED BY <2>2, <2>3 DEF j
<1> QED BY <1>4, <1>5

\* What two responses merged are.
LEMMA CombineFields ==
  ASSUME NEW q \in Packet, NEW p \in Packet
  PROVE  /\ Combine(q, p) \in Packet /\ Combine(q, p).tag = q.tag
         /\ Combine(q, p).trace = IF p.trace = 0 THEN q.trace ELSE p.trace
<1>1. ADDRESS_MAPPING \in Nat \ {0} /\ MaxRequests \in Nat
  BY Sizes
<1>2. /\ q.lng \in Nat \ {0} /\ q.lng + ADDRESS_MAPPING \in Nat \ {0}
      /\ p.trace \in 0 .. MaxRequests /\ p.adrs \in Nat
  BY <1>1, PacketFields
<1> DEFINE longer == [q EXCEPT !.lng = IF p.lng > 1 THEN @ + ADDRESS_MAPPING ELSE @]
<1>3. longer \in Packet /\ longer.tag = q.tag /\ longer.trace = q.trace
  BY <1>2 DEF Packet
<1>4. Combine(q, p) = IF p.trace = 0 THEN longer ELSE [longer EXCEPT !.trace = p.trace, !.adrs = p.adrs]
  BY DEF Combine
<1> HIDE DEF longer
<1> QED BY ZenonT(60), <1>2, <1>3, <1>4 DEF Packet

\* The response of a segment is collected.  Its TAG was noted, so the branch
\* that stops the program is never taken.
LEMMA CollectKeeps ==
  ASSUME NEW down \in Buffers, NEW vlt \in Shelves(NUM_VAULTS), NEW d \in Answered, NEW m \in Nat,
         NEW st \in UpBooks(down, vlt, d, m), st.at \in HeadsOf(st.buf), st.buf[st.at].segment
  PROVE  Collect(st) \in UpBooks(down, vlt, d, m)
<1> DEFINE p == st.buf[st.at]
           k == p.tag
           b == Erase(st.buf, st.at)
           tags1 == Untag(st.tags, k)
           j == SelectInSeq(st.segs, LAMBDA q : q.tag = k)
           q == st.segs[j]
           w == Combine(q, p)
           t(x) == UnderWay(down, vlt, x)
           l == AtLinks(st.link)
           taken == [st EXCEPT !.tags = tags1, !.buf = b]
<1>1. /\ st \in Ups
      /\ Books(NotesOf(st.tags), t(st.buf), Aside(st.segs), l, d, m)
  BY DEF UpBooks, UpBalances
<1>2. /\ st.buf \in Buffers /\ st.tags \in Seq(Tags) /\ st.segs \in Seq(Packet)
      /\ st.link \in Shelves(NUM_LINKS)
  BY <1>1, UpsFields
<1>3. p \in Packet /\ b \in Buffers /\ Plus(t(b), p, t(st.buf))
  BY <1>2, UpErased
<1>4. k \in Tags
  BY <1>3, PacketFields
<1>5. /\ NotesOf(st.tags) \in Notes /\ Aside(st.segs) \in Accounts /\ l \in Accounts
      /\ t(st.buf) \in Accounts /\ t(b) \in Accounts
  BY <1>1, <1>3, UpAccounts, UnderWayType
<1>6. k \in ToSet(st.tags)
  <2>1. PlusKind(t(b), p, t(st.buf), k)
    <3> HIDE DEF t, p, b
    <3> QED BY <1>3, <1>5, PlusKinds
  <2>2. NotesOf(st.tags)[k] = t(st.buf)[SegmentsOf(k)]
    BY <1>1, <1>4 DEF Books
  <2>3. p.segment
    OBVIOUS
  <2>4. NotesOf(st.tags)[k] # 0
    <3> HIDE DEF t, b
    <3> QED BY <2>1, <2>2, <2>3 DEF PlusKind
  <2>5. Occurrences(st.tags, k) # 0
    BY <1>2, <1>4, <2>4, NotesType
  <2> QED BY <1>2, <2>5, OccurrencesType
<1>7. tags1 \in Seq(Tags) /\ PlusTag(NotesOf(tags1), k, NotesOf(st.tags)) /\ NotesOf(tags1) \in Notes
  BY <1>2, <1>4, <1>6, NotesRemove, NotesType
<1>8. IF j = 0 THEN In(st.segs, Tagged(k)) = 0 ELSE j \in DOMAIN st.segs /\ q.tag = k
  BY <1>2, SelectLaws
<1>9. Collect(st) =
        IF j = 0 THEN [taken EXCEPT !.segs = Append(@, p)]
        ELSE IF k \notin ToSet(tags1)
        THEN [taken EXCEPT !.segs = RemoveAt(@, j), !.at = @ + 1,
                           !.buf = Flits([w EXCEPT !.segment = FALSE]) \o @]
        ELSE [taken EXCEPT !.segs = [@ EXCEPT ![j] = w]]
  BY <1>6 DEF Collect
<1>10. p.segment
  OBVIOUS
<1> HIDE DEF p, k, b, tags1, j, q, w, l, t
<1>11. taken \in Ups /\ taken.segs = st.segs /\ taken.buf = b /\ taken.tags = tags1 /\ taken.at = st.at
       /\ taken.link = st.link
  BY <1>1, <1>3, <1>7 DEF Ups
<1> HIDE DEF taken
<1>12. CASE j = 0
  <2> DEFINE segs1 == Append(st.segs, p)
             y == [taken EXCEPT !.segs = segs1]
  <2>1. segs1 \in Seq(Packet) /\ Plus(Aside(st.segs), p, Aside(segs1)) /\ Aside(segs1) \in Accounts
    BY <1>2, <1>3, AsideAppend, AsideType
  <2>2. Aside(st.segs)[Tagged(k)] = 0
    BY <1>2, <1>8, <1>12, AsideType, KindSets
  <2>3. Collect(st) = y
    BY <1>9, <1>11, <1>12
  <2> HIDE DEF segs1
  <2>4. y \in Ups /\ y.tags = tags1 /\ y.buf = b /\ y.segs = segs1 /\ y.link = st.link
    BY <1>11, <2>1 DEF Ups
  <2> HIDE DEF y
  <2>5. Books(NotesOf(tags1), t(b), Aside(segs1), l, d, m)
    BY <1>1, <1>3, <1>5, <1>7, <1>10, <2>1, <2>2, CollectFirst DEF k
  <2> QED BY <2>3, <2>4, <2>5 DEF UpBooks, UpBalances, t, l
<1>13. ASSUME j # 0
       PROVE  /\ j \in DOMAIN st.segs /\ q = st.segs[j] /\ q \in Packet /\ q.tag = k
              /\ w \in Packet /\ w.tag = k /\ w.trace = (IF p.trace = 0 THEN q.trace ELSE p.trace)
              /\ RemoveAt(st.segs, j) \in Seq(Packet)
              /\ Aside(RemoveAt(st.segs, j)) \in Accounts
              /\ Plus(Aside(RemoveAt(st.segs, j)), q, Aside(st.segs))
  <2>1. j \in DOMAIN st.segs /\ q = st.segs[j] /\ q.tag = k
    BY <1>8, <1>13 DEF q
  <2>2. q \in Packet
    BY <1>2, <2>1
  <2>3. w \in Packet /\ w.tag = k /\ w.trace = (IF p.trace = 0 THEN q.trace ELSE p.trace)
    BY <1>3, <2>1, <2>2, CombineFields DEF w
  <2>4. /\ RemoveAt(st.segs, j) \in Seq(Packet)
        /\ Plus(Aside(RemoveAt(st.segs, j)), q, Aside(st.segs))
    BY <1>2, <2>1, <2>3, AsidePlace
  <2> QED BY <2>1, <2>2, <2>3, <2>4, AsideType
<1>14. CASE j # 0 /\ k \in ToSet(tags1)
  <2> DEFINE segs1 == [st.segs EXCEPT ![j] = w]
             y == [taken EXCEPT !.segs = segs1]
  <2>1. /\ segs1 \in Seq(Packet) /\ Aside(segs1) \in Accounts
        /\ Plus(Aside(RemoveAt(st.segs, j)), w, Aside(segs1))
    BY <1>2, <1>13, <1>14, AsidePlace, AsideType
  <2>2. Collect(st) = y
    BY <1>9, <1>11, <1>14
  <2> HIDE DEF segs1
  <2>3. y \in Ups /\ y.tags = tags1 /\ y.buf = b /\ y.segs = segs1 /\ y.link = st.link
    BY <1>11, <2>1 DEF Ups
  <2> HIDE DEF y
  <2>4. Books(NotesOf(tags1), t(b), Aside(segs1), l, d, m)
    <3>1. k = p.tag
      BY DEF k
    <3> QED BY ZenonT(60), <1>1, <1>3, <1>5, <1>7, <1>10, <1>13, <1>14, <2>1, <3>1, CollectNext
  <2> QED BY <2>2, <2>3, <2>4 DEF UpBooks, UpBalances, t, l
<1>15. CASE j # 0 /\ k \notin ToSet(tags1)
  <2> DEFINE v == [w EXCEPT !.segment = FALSE]
             c == Flits(v) \o b
             segs1 == RemoveAt(st.segs, j)
             y == [taken EXCEPT !.segs = RemoveAt(@, j), !.at = @ + 1, !.buf = Flits(v) \o @]
  <2>1. v \in Packet /\ v.tag = w.tag /\ v.trace = w.trace /\ ~v.segment
    BY <1>13, <1>15 DEF Packet
  <2> HIDE DEF v
  <2>2. c \in Buffers /\ Plus(t(b), v, t(c)) /\ t(c) \in Accounts
    BY <1>3, <2>1, UpPut, UnderWayType DEF t
  <2>3. Collect(st) = y
    BY <1>9, <1>15 DEF v
  <2> HIDE DEF c
  <2>4. y \in Ups /\ y.tags = tags1 /\ y.buf = c /\ y.segs = segs1 /\ y.link = st.link
    <3> DEFINE n == taken.at + 1
    <3>1. segs1 \in Seq(Packet) /\ y = [taken EXCEPT !.segs = segs1, !.at = n, !.buf = c]
      BY <1>11, <1>13, <1>15 DEF c
    <3>2. n \in Nat \ {0}
      <4>1. taken.at \in Nat \ {0}
        BY <1>11, UpsFields
      <4> QED BY <4>1
    <3> HIDE DEF segs1, y, n
    <3>3. /\ DOMAIN y = DOMAIN taken /\ y.at = n /\ y.buf = c /\ y.segs = segs1 /\ y.tags = tags1
          /\ y.link = st.link
      BY <1>11, <3>1 DEF Ups
    <3>4. y \in Ups
      BY <1>11, <2>2, <3>1, <3>2 DEF Ups
    <3> QED BY <3>3, <3>4
  <2> HIDE DEF y
  <2>5. NotesOf(tags1)[k] = 0
    <3>1. Occurrences(tags1, k) = 0
      BY <1>7, <1>15, OccurrencesType
    <3> QED BY <1>4, <1>7, <3>1, NotesType
  <2>6. t(b)[SegmentsOf(k) \cap Traced] <= t(b)[SegmentsOf(k)]
    <3> DEFINE P == SegmentsOf(k) \cap Traced
               Q == SegmentsOf(k)
    <3>1. P \in SUBSET Packet /\ Q \in SUBSET Packet /\ P \subseteq Q
      BY KindSets
    <3> HIDE DEF P, Q
    <3>2. In(down, P) <= In(down, Q) /\ In(b, P) <= In(b, Q)
      BY <1>3, <3>1, InMono DEF Buffers
    <3>3. InAll(vlt, NUM_VAULTS, P) <= InAll(vlt, NUM_VAULTS, Q)
      BY <3>1, InAllMono, Sizes
    <3>4. /\ In(down, P) \in Nat /\ In(down, Q) \in Nat /\ In(b, P) \in Nat /\ In(b, Q) \in Nat
          /\ InAll(vlt, NUM_VAULTS, P) \in Nat /\ InAll(vlt, NUM_VAULTS, Q) \in Nat
          /\ t(b)[P] = In(down, P) + InAll(vlt, NUM_VAULTS, P) + In(b, P)
          /\ t(b)[Q] = In(down, Q) + InAll(vlt, NUM_VAULTS, Q) + In(b, Q)
      BY <1>3, <3>1, UnderWayType DEF t
    <3>5. t(b)[P] <= t(b)[Q]
      BY <3>2, <3>3, <3>4
    <3> QED BY <3>5 DEF P, Q
  <2>7. Aside(segs1)[Tagged(k) \cap Traced] <= Aside(segs1)[Tagged(k)]
    <3>1. segs1 \in Seq(Packet)
      BY <1>13, <1>15
    <3> HIDE DEF segs1
    <3>2. In(segs1, Tagged(k) \cap Traced) <= In(segs1, Tagged(k))
      BY <3>1, InMono
    <3> QED BY <3>1, <3>2, AsideType, KindSets
  <2>8. Books(NotesOf(tags1), t(c), Aside(segs1), l, d, m)
    <3>1. k = p.tag
      BY DEF k
    <3> HIDE DEF segs1
    <3>2. /\ q \in Packet /\ q.tag = k /\ v.trace = (IF p.trace = 0 THEN q.trace ELSE p.trace)
          /\ v.tag = k /\ Aside(segs1) \in Accounts /\ Plus(Aside(segs1), q, Aside(st.segs))
      BY <1>13, <1>15, <2>1 DEF segs1
    <3> QED BY ZenonT(60), <1>1, <1>3, <1>5, <1>7, <1>10, <2>1, <2>2, <2>5, <2>6, <2>7, <3>1, <3>2, CollectLast
  <2> QED BY <2>3, <2>4, <2>8 DEF UpBooks, UpBalances, t, l
<1> QED BY <1>12, <1>14, <1>15

\* The links that are tried.
LEMMA TriesLaws ==
  ASSUME NEW st \in Ups, NEW standby
  PROVE  /\ DOMAIN Tries(st, standby) = 1 .. NUM_LINKS /\ Len(Tries(st, standby)) = NUM_LINKS
         /\ scheme = "ROUND_ROBIN" => \A k \in 1 .. NUM_LINKS : Tries(st, standby)[k] \in Links
<1> DEFINE T == Tries(st, standby)
           N == NUM_LINKS
<1>1. N \in Nat \ {0}
  BY Sizes
<1>2. CASE scheme = "ROUND_ROBIN"
  <2>1. T = [k \in 1 .. N |-> (st.inService + k) % N]
    BY <1>2 DEF Tries
  <2>2. ASSUME NEW k \in 1 .. N PROVE (st.inService + k) % N \in Links
    <3>1. st.inService \in -1 .. N - 1
      BY UpsFields
    <3> DEFINE i == st.inService + k
    <3>2. i \in Nat
      BY <1>1, <3>1
    <3> HIDE DEF i
    <3>3. i % N \in 0 .. N - 1
      BY <1>1, <3>2, Division
    <3> QED BY <3>3 DEF i, Links
  <2> HIDE DEF T
  <2>3. DOMAIN T = 1 .. N /\ Len(T) = N
    BY <1>1, <2>1
  <2>4. \A k \in 1 .. N : T[k] \in Links
    BY <2>1, <2>2
  <2> QED BY <2>3, <2>4 DEF T
<1>3. CASE scheme # "ROUND_ROBIN"
  <2>1. \E x : T = [k \in 1 .. N |-> x]
    BY <1>3 DEF Tries
  <2> HIDE DEF T
  <2>2. DOMAIN T = 1 .. N /\ Len(T) = N
    BY <1>1, <2>1
  <2> QED BY <1>3, <2>2 DEF T
<1> QED BY <1>2, <1>3

\* A response passed to a link, if one has room.
LEMMA SendUpKeeps ==
  ASSUME NEW down \in Buffers, NEW vlt \in Shelves(NUM_VAULTS), NEW d \in Answered, NEW m \in Nat,
         NEW st \in UpBooks(down, vlt, d, m), st.at \in HeadsOf(st.buf), ~st.buf[st.at].segment,
         NEW standby \in Standby
  PROVE  SendUp(st, standby) \in UpBooks(down, vlt, d, m)
<1> DEFINE p == st.buf[st.at]
           b == Erase(st.buf, st.at)
           tries == Tries(st, standby)
           I == {i \in 1 .. Len(tries) : tries[i] \in DOMAIN standby /\ Fits(p, st.link[tries[i]], MAX_LINK_BUF)}
           k == SelectInSeq(tries, LAMBDA l : l \in DOMAIN standby /\ Fits(p, st.link[l], MAX_LINK_BUF))
           last == tries[IF k = 0 THEN NUM_LINKS ELSE k]
           in == IF scheme = "ROUND_ROBIN" THEN last ELSE st.inService
           moved == [st EXCEPT !.inService = in]
           t(x) == UnderWay(down, vlt, x)
           N == NUM_LINKS
<1>1. st \in Ups /\ Books(NotesOf(st.tags), t(st.buf), Aside(st.segs), AtLinks(st.link), d, m)
  BY DEF UpBooks, UpBalances
<1>2. /\ st.buf \in Buffers /\ st.tags \in Seq(Tags) /\ st.segs \in Seq(Packet)
      /\ st.link \in Shelves(N) /\ st.inService \in -1 .. N - 1 /\ st.at \in Nat \ {0}
  BY <1>1, UpsFields
<1>3. p \in Packet /\ b \in Buffers /\ Plus(t(b), p, t(st.buf))
  BY <1>2, UpErased
<1>4. /\ NotesOf(st.tags) \in Notes /\ Aside(st.segs) \in Accounts /\ AtLinks(st.link) \in Accounts
      /\ t(st.buf) \in Accounts /\ t(b) \in Accounts
  BY <1>1, <1>3, UpAccounts, UnderWayType
<1>5. /\ Len(tries) = N
      /\ scheme = "ROUND_ROBIN" => \A i \in 1 .. N : tries[i] \in Links
  BY <1>1, TriesLaws
<1>6. k = IF I # {} THEN Min(I) ELSE 0
  BY DEF SelectInSeq
<1>7. I # {} => k \in I
  <2> SUFFICES ASSUME I # {} PROVE k \in I
    OBVIOUS
  <2>1. I \in SUBSET (0 .. N) /\ N \in Nat
    BY <1>5, Sizes
  <2> HIDE DEF I, k
  <2>2. \E l \in I : \A n \in I : l <= n
    BY <2>1, LeastAndGreatest
  <2> QED BY <1>6, <2>2 DEF Min
<1>8. k # 0 => k \in 1 .. N /\ tries[k] \in Links
  <2>1. DOMAIN standby \subseteq Links
    BY DEF Standby
  <2>2. k # 0 => k \in 1 .. N /\ tries[k] \in DOMAIN standby
    BY <1>5, <1>6, <1>7
  <2> QED BY <2>1, <2>2
<1>9. SendUp(st, standby) =
        IF k = 0 THEN [moved EXCEPT !.at = @ + 1]
        ELSE [moved EXCEPT !.buf = b, !.link[last] = @ \o Flits(p)]
  BY DEF SendUp
<1>10. ~p.segment
  OBVIOUS
<1> HIDE DEF p, b, tries, I, k, t
<1>11. in \in -1 .. N - 1
  <2>1. CASE scheme = "ROUND_ROBIN"
    <3>1. N \in 1 .. N
      BY Sizes
    <3>2. last \in Links
      BY <1>5, <1>8, <2>1, <3>1
    <3> HIDE DEF last
    <3> QED BY <2>1, <3>2 DEF Links
  <2>2. CASE scheme # "ROUND_ROBIN"
    BY <1>2, <2>2
  <2> QED BY <2>1, <2>2
<1> HIDE DEF in
<1>12. moved \in Ups /\ moved.segs = st.segs /\ moved.buf = st.buf /\ moved.tags = st.tags
       /\ moved.link = st.link /\ moved.at = st.at
  BY <1>1, <1>11 DEF Ups
<1> HIDE DEF moved
<1>13. CASE k = 0
  <2> DEFINE y == [moved EXCEPT !.at = @ + 1]
  <2>1. SendUp(st, standby) = y
    BY <1>9, <1>13
  <2>2. y \in Ups /\ y.segs = st.segs /\ y.buf = st.buf /\ y.tags = st.tags /\ y.link = st.link
    <3>1. moved.at + 1 \in Nat \ {0}
      BY <1>2, <1>12
    <3> QED BY <1>12, <3>1 DEF Ups
  <2> HIDE DEF y
  <2> QED BY <1>1, <2>1, <2>2 DEF UpBooks, UpBalances, t
<1>14. CASE k # 0
  <2> DEFINE f == st.link[last] \o Flits(p)
             lnk == [st.link EXCEPT ![last] = f]
             y == [moved EXCEPT !.buf = b, !.link[last] = @ \o Flits(p)]
  <2>1. last \in 0 .. N - 1
    BY <1>8, <1>14 DEF Links
  <2> HIDE DEF last
  <2>2. st.link[last] \in Buffers
    BY <1>2, <2>1 DEF Shelves
  <2>3. f \in Buffers /\ \A P \in SUBSET Packet : In(f, P) = In(st.link[last], P) + Has(p, P)
    BY <1>3, <2>2, PutBehind
  <2> HIDE DEF f
  <2>4. /\ lnk \in Shelves(N)
        /\ \A P : InAll(lnk, N, P) + In(st.link[last], P) = InAll(st.link, N, P) + In(f, P)
    <3>1. N \in Nat
      BY Sizes
    <3> QED BY SMTT(60), <1>2, <2>1, <2>3, <3>1, InAllChange
  <2>5. Plus(AtLinks(st.link), p, AtLinks(lnk)) /\ AtLinks(lnk) \in Accounts
    <3>1. ASSUME NEW P \in SUBSET Packet
          PROVE  InAll(lnk, N, P) = InAll(st.link, N, P) + Has(p, P)
      <4>1. In(st.link[last], P) \in Nat
        BY <2>2, InType DEF Buffers
      <4>2. Has(p, P) \in 0 .. 1
        BY <1>3, InOne
      <4>3. InAll(lnk, N, P) \in Nat /\ InAll(st.link, N, P) \in Nat
        BY <1>2, <2>4, CountsType, Sizes
      <4>4. /\ InAll(lnk, N, P) + In(st.link[last], P) = InAll(st.link, N, P) + In(f, P)
            /\ In(f, P) = In(st.link[last], P) + Has(p, P)
        BY <2>3, <2>4
      <4> HIDE DEF lnk
      <4> QED BY <4>1, <4>2, <4>3, <4>4
    <3>2. Plus(AtLinks(st.link), p, AtLinks(lnk))
      <4> HIDE DEF lnk
      <4> QED BY <3>1 DEF Plus, AtLinks
    <3> QED BY <2>4, <3>2, AtLinksType
  <2>6. SendUp(st, standby) = y
    BY <1>9, <1>14
  <2>7. y = [moved EXCEPT !.buf = b, !.link = lnk]
    BY <1>12 DEF f, Ups
  <2> HIDE DEF lnk
  <2>8. y \in Ups /\ y.segs = st.segs /\ y.buf = b /\ y.tags = st.tags /\ y.link = lnk
    BY <1>3, <1>12, <2>4, <2>7 DEF Ups
  <2> HIDE DEF y
  <2>9. Books(NotesOf(st.tags), t(b), Aside(st.segs), AtLinks(lnk), d, m)
    BY <1>1, <1>3, <1>4, <1>10, <2>5, SentUp
  <2> QED BY <2>6, <2>8, <2>9 DEF UpBooks, UpBalances, t
<1> QED BY <1>13, <1>14

\* A step of the loop.
LEMMA UpStepKeeps ==
  ASSUME NEW down \in Buffers, NEW vlt \in Shelves(NUM_VAULTS), NEW d \in Answered, NEW m \in Nat,
         NEW st \in UpBooks(down, vlt, d, m), st.at <= Len(st.buf),
         NEW standby \in Standby
  PROVE  UpStep(st, standby) \in UpBooks(down, vlt, d, m)
<1>1. st \in Ups /\ Books(NotesOf(st.tags), UnderWay(down, vlt, st.buf), Aside(st.segs),
               AtLinks(st.link), d, m)
  BY DEF UpBooks, UpBalances
<1>2. CASE st.buf[st.at] = NULL
  <2> DEFINE y == [st EXCEPT !.at = @ + 1]
  <2>1. UpStep(st, standby) = y
    BY <1>2 DEF UpStep
  <2>2. y \in Ups /\ y.segs = st.segs /\ y.buf = st.buf /\ y.tags = st.tags /\ y.link = st.link
    <3>1. st.at + 1 \in Nat \ {0}
      <4>1. st.at \in Nat \ {0}
        BY <1>1, UpsFields
      <4> QED BY <4>1
    <3> QED BY <1>1, <3>1 DEF Ups
  <2> HIDE DEF y
  <2> QED BY <1>1, <2>1, <2>2 DEF UpBooks, UpBalances
<1>3. CASE st.buf[st.at] # NULL
  <2>1. st.at \in HeadsOf(st.buf)
    <3>1. st.buf \in Seq(Flit) /\ st.at \in Nat \ {0}
      BY <1>1, UpsFields DEF Buffers
    <3>2. st.at \in DOMAIN st.buf
      BY <3>1
    <3> QED BY <1>3, <3>2 DEF HeadsOf
  <2>2. CASE st.buf[st.at].segment
    BY <1>3, <2>1, <2>2, CollectKeeps DEF UpStep
  <2>3. CASE ~st.buf[st.at].segment
    BY <1>3, <2>1, <2>3, SendUpKeeps DEF UpStep
  <2> QED BY <2>2, <2>3
<1> QED BY <1>2, <1>3

\* The loop as a loop.
UpRound(st, standby) ==
  [x \in Up |-> IF x.at > Len(x.buf) THEN x ELSE UpStep(x, standby)][st]
UpRounds == INSTANCE LoopProofs WITH Body <- LAMBDA p, x, i : UpRound(x, p)

\* The upstream loop keeps the accounts.
LEMMA UpLoopKeeps ==
  ASSUME NEW down \in Buffers, NEW vlt \in Shelves(NUM_VAULTS), NEW d \in Answered, NEW m \in Nat,
         NEW st \in UpBooks(down, vlt, d, m), NEW standby \in Standby,
         NEW n \in Nat
  PROVE  Loop(LAMBDA x : UpStep(x, standby), st, Up, n) \in UpBooks(down, vlt, d, m)
<1> DEFINE G == UpBooks(down, vlt, d, m)
<1>1. ASSUME NEW x \in G PROVE UpRound(x, standby) \in G
  <2>1. x \in Ups /\ x \in Up /\ x.at \in Nat /\ x.buf \in Seq(Flit)
    BY UpsFields DEF UpBooks, Buffers
  <2>2. UpRound(x, standby) = IF x.at > Len(x.buf) THEN x ELSE UpStep(x, standby)
    BY <2>1 DEF UpRound
  <2>3. CASE x.at > Len(x.buf)
    BY <2>2, <2>3
  <2>4. CASE ~(x.at > Len(x.buf))
    <3>1. x.at <= Len(x.buf)
      BY <2>1, <2>4
    <3> QED BY <2>2, <2>4, <3>1, UpStepKeeps
  <2> QED BY <2>3, <2>4
<1> HIDE DEF G
<1>2. UpRounds!After(standby, st, n) \in G
  BY <1>1, UpRounds!LoopKeeps DEF G
<1>3. Loop(LAMBDA x : UpStep(x, standby), st, Up, n) = UpRounds!After(standby, st, n)
  BY DEF Loop, UpRounds!After, UpRounds!Repeat, Repeat, UpRound
<1> QED BY <1>2, <1>3 DEF G
-----------------------------------------------------------------------------
(* The invariant *)

\* Buffers of whole packets, and the rest of its type; no segment waits to be
\* cut again, and the ERROR branch was not taken.
Shaped ==
  /\ downBuffers \in Buffers /\ upBuffers \in Buffers
  /\ vault \in Shelves(NUM_VAULTS) /\ link \in Shelves(NUM_LINKS)
  /\ bufPopDelay \in {0, 1} /\ inServiceLink \in -1 .. NUM_LINKS - 1
  /\ pendingSegTag \in Seq(Tags) /\ pendingSegPacket \in Seq(Packet)
  /\ scheme \in LINK_PRIORITY
  /\ arrived \in Seq(Requests) /\ Len(arrived) <= MaxRequests
  /\ answered \in Seq(1 .. MaxRequests)
  /\ In(downBuffers, Big) = 0
  /\ fault = FALSE

\* The accounts balance.
Balanced ==
  Books(NotesOf(pendingSegTag), UnderWay(downBuffers, vault, upBuffers),
        Aside(pendingSegPacket), AtLinks(link), AnsweredOf(answered), Len(arrived))

IInv == Shaped /\ Balanced

\* The accounts of a state with the invariant.
LEMMA StateAccounts ==
  ASSUME Shaped
  PROVE  /\ NotesOf(pendingSegTag) \in Notes
         /\ UnderWay(downBuffers, vault, upBuffers) \in Accounts
         /\ Aside(pendingSegPacket) \in Accounts /\ AtLinks(link) \in Accounts
         /\ AnsweredOf(answered) \in Answered /\ Len(arrived) \in Nat
  BY NotesType, UnderWayType, AsideType, AtLinksType, AnsweredType DEF Shaped

\* At first everything is empty.
LEMMA InitKeeps == Init => IInv
<1> SUFFICES ASSUME Init PROVE IInv
  OBVIOUS
<1>1. NUM_VAULTS \in Nat \ {0} /\ NUM_LINKS \in Nat \ {0} /\ MaxRequests \in Nat
  BY Sizes
<1>2. /\ downBuffers = <<>> /\ upBuffers = <<>> /\ pendingSegTag = <<>> /\ pendingSegPacket = <<>>
      /\ vault = [v \in 0 .. NUM_VAULTS - 1 |-> <<>>] /\ link = [l \in 0 .. NUM_LINKS - 1 |-> <<>>]
      /\ arrived = <<>> /\ answered = <<>>
  BY DEF Init, Vaults, Links
<1>3. <<>> \in Buffers
  BY EmptyBuffer
<1>4. \A S : <<>> \in Seq(S)
  OBVIOUS
<1>5. \A P : In(<<>>, P) = 0
  <2> SUFFICES ASSUME NEW P PROVE In(<<>>, P) = 0
    OBVIOUS
  <2>1. <<>> \in Seq(Nat) /\ \A i \in DOMAIN <<>> : <<>>[i] \notin P
    OBVIOUS
  <2> QED BY <2>1, InType
<1>6. \A a : Occurrences(<<>>, a) = 0
  <2> SUFFICES ASSUME NEW a PROVE Occurrences(<<>>, a) = 0
    OBVIOUS
  <2>1. <<>> \in Seq(Nat) /\ a \notin ToSet(<<>>)
    BY DEF ToSet
  <2> QED BY <2>1, OccurrencesType
<1>7. Shaped
  <2>1. vault \in Shelves(NUM_VAULTS) /\ link \in Shelves(NUM_LINKS)
    BY <1>2, <1>3 DEF Shelves
  <2>2. inServiceLink \in -1 .. NUM_LINKS - 1
    BY <1>1 DEF Init
  <2>3. Len(arrived) <= MaxRequests
    BY <1>1, <1>2
  <2> QED BY <1>2, <1>3, <1>4, <1>5, <2>1, <2>2, <2>3 DEF Init, Shaped
<1>8. \A P \in SUBSET Packet : /\ UnderWay(downBuffers, vault, upBuffers)[P] = 0
                               /\ Aside(pendingSegPacket)[P] = 0 /\ AtLinks(link)[P] = 0
  <2> SUFFICES ASSUME NEW P \in SUBSET Packet
               PROVE  /\ UnderWay(downBuffers, vault, upBuffers)[P] = 0
                      /\ Aside(pendingSegPacket)[P] = 0 /\ AtLinks(link)[P] = 0
    OBVIOUS
  <2>1. InAll(vault, NUM_VAULTS, P) = 0 /\ InAll(link, NUM_LINKS, P) = 0
    BY <1>1, <1>2, InAllNone
  <2> QED BY <1>2, <1>5, <2>1 DEF UnderWay, Aside, AtLinks
<1>9. /\ \A k \in Tags : NotesOf(pendingSegTag)[k] = 0
      /\ \A n \in 1 .. MaxRequests : AnsweredOf(answered)[n] = 0
  BY <1>2, <1>6 DEF NotesOf, AnsweredOf
<1>10. Balanced
  <2> DEFINE g == NotesOf(pendingSegTag)
             t == UnderWay(downBuffers, vault, upBuffers)
             s == Aside(pendingSegPacket)
             l == AtLinks(link)
             d == AnsweredOf(answered)
  <2>1. /\ \A P \in SUBSET Packet : t[P] = 0 /\ s[P] = 0 /\ l[P] = 0
        /\ \A k \in Tags : g[k] = 0
        /\ \A n \in 1 .. MaxRequests : d[n] = 0
    BY <1>8, <1>9
  <2> HIDE DEF g, t, s, l, d
  <2>2. /\ t[Stray] = 0 /\ l[Untraced] = 0
        /\ \A k : /\ t[SegmentsOf(k)] = 0 /\ s[Tagged(k)] = 0
                  /\ t[SegmentsOf(k) \cap Traced] = 0 /\ s[Tagged(k) \cap Traced] = 0
                  /\ t[Of(k)] = 0 /\ s[Of(k)] = 0 /\ l[Of(k)] = 0
    BY <2>1, KindSets
  <2>3. Books(g, t, s, l, d, 0)
    BY <2>1, <2>2 DEF Books
  <2>4. Len(arrived) = 0
    BY <1>2
  <2> QED BY <2>3, <2>4 DEF Balanced, g, t, s, l, d
<1> QED BY <1>7, <1>10 DEF IInv

\* A request is a packet with a trace of its own, and no segment.
LEMMA RequestFields ==
  ASSUME NEW r \in Requests, NEW n \in 1 .. MaxRequests
  PROVE  /\ RequestPacket(n, r) \in Packet /\ ~RequestPacket(n, r).segment
         /\ RequestPacket(n, r).trace = n
<1>1. r.op \in {"READ", "WRITE"} /\ r.size \in Nat \ {0} /\ r.adrs \in Nat
  BY CrossbarConstants
<1>2. TagOf(n) \in Tags
  <2>1. n - 1 \in Nat /\ MAX_TAG \in Nat \ {0}
    BY Sizes
  <2> QED BY <2>1, Division DEF TagOf, Tags
<1>3. (IF r.op = "WRITE" THEN 1 + r.size ELSE 1) \in Nat \ {0}
  BY <1>1
<1>4. n \in 0 .. MaxRequests
  BY Sizes
<1> QED BY <1>1, <1>2, <1>3, <1>4 DEF RequestPacket, Packet

\* A request arrives.
LEMMA ArriveKeeps ==
  ASSUME IInv, Arrive
  PROVE  IInv'
<1>1. PICK r \in Requests : /\ downBuffers' = downBuffers \o Flits(RequestPacket(Len(arrived) + 1, r))
                            /\ arrived' = Append(arrived, r)
  BY DEF Arrive
<1> DEFINE n == Len(arrived)
           p == RequestPacket(n + 1, r)
           t == UnderWay(downBuffers, vault, upBuffers)
           t1 == UnderWay(downBuffers', vault, upBuffers)
<1>2. /\ downBuffers \in Buffers /\ upBuffers \in Buffers /\ vault \in Shelves(NUM_VAULTS)
      /\ In(downBuffers, Big) = 0 /\ arrived \in Seq(Requests)
  BY DEF IInv, Shaped
<1>3. n \in Nat /\ n + 1 \in 1 .. MaxRequests
  BY <1>2, Sizes DEF Arrive
<1>4. p \in Packet /\ ~p.segment /\ p.trace = n + 1
  BY <1>3, RequestFields
<1>5. Len(arrived') = n + 1 /\ arrived' \in Seq(Requests)
  BY <1>1, <1>2
<1>6. UNCHANGED <<upBuffers, inServiceLink, pendingSegTag, pendingSegPacket, fault,
                  vault, link, scheme, answered>>
  BY DEF Arrive
<1>7. bufPopDelay' \in {0, 1}
  BY DEF Arrive, IInv, Shaped
<1> HIDE DEF p, n
<1>8. /\ downBuffers' \in Buffers
      /\ \A P \in SUBSET Packet : In(downBuffers', P) = In(downBuffers, P) + Has(p, P)
  BY <1>1, <1>2, <1>4, PutBehind DEF p, n
<1>9. In(downBuffers', Big) = 0
  <2>1. Has(p, Big) = 0
    BY <1>4 DEF Has, Big
  <2> QED BY <1>2, <1>8, <2>1, BigSet
<1>10. Shaped'
  BY <1>3, <1>5, <1>6, <1>7, <1>8, <1>9, Sizes DEF IInv, Shaped
<1>11. t \in Accounts /\ t1 \in Accounts
  BY <1>2, <1>8, UnderWayType
<1>12. Plus(t, p, t1)
  <2>1. ASSUME NEW P \in SUBSET Packet
        PROVE  In(downBuffers', P) + InAll(vault, NUM_VAULTS, P) + In(upBuffers, P) =
                 In(downBuffers, P) + InAll(vault, NUM_VAULTS, P) + In(upBuffers, P) + Has(p, P)
    <3>1. /\ In(downBuffers, P) \in Nat /\ InAll(vault, NUM_VAULTS, P) \in Nat /\ In(upBuffers, P) \in Nat
          /\ Has(p, P) \in 0 .. 1 /\ In(downBuffers', P) = In(downBuffers, P) + Has(p, P)
      BY <1>2, <1>4, <1>8, UnderWayType, InOne
    <3> QED BY <3>1
  <2> QED BY <1>2, <1>4, <1>8, <2>1, UnderWayPlus
<1> HIDE DEF t, t1
<1>13. Books(NotesOf(pendingSegTag), t1, Aside(pendingSegPacket), AtLinks(link), AnsweredOf(answered), n + 1)
  <2>1. /\ NotesOf(pendingSegTag) \in Notes /\ Aside(pendingSegPacket) \in Accounts
        /\ AtLinks(link) \in Accounts /\ AnsweredOf(answered) \in Answered
    BY StateAccounts DEF IInv
  <2>2. Books(NotesOf(pendingSegTag), t, Aside(pendingSegPacket), AtLinks(link), AnsweredOf(answered), n)
    BY DEF IInv, Balanced, t, n
  <2> QED BY <1>3, <1>4, <1>11, <1>12, <2>1, <2>2, Arrived
<1>14. Balanced'
  BY <1>5, <1>6, <1>13 DEF Balanced, t1
<1> QED BY <1>10, <1>14 DEF IInv

\* Both loops of an Update, one after the other.
LEMMA UpdateLoops ==
  ASSUME IInv, NEW standby \in Standby
  PROVE  /\ DownLoop.buf \in Buffers /\ DownLoop.vault \in Shelves(NUM_VAULTS)
         /\ In(DownLoop.buf, Big) = 0
         /\ UpLoop(DownLoop.tags, standby)
              \in UpBooks(DownLoop.buf, DownLoop.vault, AnsweredOf(answered), Len(arrived))
<1> DEFINE d == AnsweredOf(answered)
           m == Len(arrived)
           s == Aside(pendingSegPacket)
           l == AtLinks(link)
           start == [at |-> 1, buf |-> downBuffers, tags |-> pendingSegTag, vault |-> vault]
           G == DownBooks(upBuffers, s, l, d, m)
           down == DownLoop
           up0 == [at |-> 1, buf |-> upBuffers, tags |-> down.tags, segs |-> pendingSegPacket,
                   inService |-> inServiceLink, link |-> link, fault |-> fault]
           n == 2 * Len(upBuffers) + Total([j \in DOMAIN pendingSegPacket |-> pendingSegPacket[j].lng])
<1>1. /\ downBuffers \in Buffers /\ upBuffers \in Buffers
      /\ vault \in Shelves(NUM_VAULTS) /\ link \in Shelves(NUM_LINKS)
      /\ inServiceLink \in -1 .. NUM_LINKS - 1
      /\ pendingSegTag \in Seq(Tags) /\ pendingSegPacket \in Seq(Packet)
      /\ In(downBuffers, Big) = 0 /\ fault = FALSE
  BY DEF IInv, Shaped
<1>2. s \in Accounts /\ l \in Accounts /\ d \in Answered /\ m \in Nat
  BY StateAccounts DEF IInv
<1>3. Books(NotesOf(pendingSegTag), UnderWay(downBuffers, vault, upBuffers), s, l, d, m)
  BY DEF IInv, Balanced
<1> HIDE DEF d, m, s, l
<1>4. start \in G
  <2>1. start \in Downs /\ start.tags = pendingSegTag /\ start.buf = downBuffers /\ start.vault = vault
    BY <1>1 DEF Downs
  <2> HIDE DEF start
  <2> QED BY <1>3, <2>1 DEF DownBooks
<1>5. Len(downBuffers) \in Nat /\ Len(upBuffers) \in Nat
  BY <1>1 DEF Buffers
<1>6. down = IF bufPopDelay = 0 THEN Loop(DownStep, start, Down, Len(downBuffers)) ELSE start
  BY DEF DownLoop
<1> HIDE DEF start, down, G
<1>7. Loop(DownStep, start, Down, Len(downBuffers)) \in G
  BY <1>1, <1>2, <1>4, <1>5, DownLoopKeeps DEF G
<1>8. down \in G
  BY <1>4, <1>6, <1>7
<1>9. /\ down \in Downs
      /\ Books(NotesOf(down.tags), UnderWay(down.buf, down.vault, upBuffers), s, l, d, m)
  BY <1>8 DEF G, DownBooks
<1>10. /\ down.buf \in Buffers /\ down.vault \in Shelves(NUM_VAULTS) /\ down.tags \in Seq(Tags)
       /\ In(down.buf, Big) = 0
  BY <1>9, DownsFields
<1>11. up0 \in UpBooks(down.buf, down.vault, d, m)
  <2>1. /\ up0 \in Ups /\ up0.tags = down.tags /\ up0.buf = upBuffers /\ up0.segs = pendingSegPacket
        /\ up0.link = link
    <3>1. 1 \in Nat \ {0} /\ fault \in {FALSE}
      <4>1. 1 \in Nat \ {0}
        OBVIOUS
      <4>2. fault = FALSE
        BY <1>1
      <4>3. fault \in {FALSE}
        BY ONLY <4>2, Zenon
      <4> QED BY <4>1, <4>3
    <3>2. up0 \in Ups
      BY <1>1, <1>10, <3>1 DEF Ups
    <3> QED BY <3>2
  <2> HIDE DEF up0
  <2> QED BY <1>9, <2>1 DEF UpBooks, UpBalances, s, l
<1>12. n \in Nat
  <2> DEFINE q == [j \in DOMAIN pendingSegPacket |-> pendingSegPacket[j].lng]
  <2>1. ASSUME NEW j \in DOMAIN pendingSegPacket PROVE pendingSegPacket[j].lng \in Nat
    <3>1. pendingSegPacket[j] \in Packet
      BY <1>1
    <3> QED BY <3>1, PacketFields
  <2>2. DOMAIN pendingSegPacket = 1 .. Len(pendingSegPacket) /\ Len(pendingSegPacket) \in Nat
    BY <1>1
  <2>3. q \in Seq(Nat)
    BY <2>1, <2>2
  <2>4. Total(q) \in Nat
    <3> HIDE DEF q
    <3> QED BY <2>3, TotalType
  <2> QED BY <1>5, <2>4
<1>13. UpLoop(down.tags, standby) = Loop(LAMBDA x : UpStep(x, standby), up0, Up, n)
  BY DEF UpLoop
<1> HIDE DEF up0, n
<1>14. UpLoop(down.tags, standby) \in UpBooks(down.buf, down.vault, d, m)
  BY <1>2, <1>10, <1>11, <1>12, <1>13, UpLoopKeeps
<1> QED BY <1>10, <1>14 DEF d, m, down

\* The crossbar is updated.
LEMMA CrossbarKeeps ==
  ASSUME IInv, CrossbarUpdate
  PROVE  IInv'
<1>1. PICK standby \in Standby :
        LET down == DownLoop
            up   == UpLoop(down.tags, standby)
        IN  /\ downBuffers' = down.buf
            /\ vault' = down.vault
            /\ upBuffers' = up.buf
            /\ pendingSegTag' = up.tags
            /\ pendingSegPacket' = up.segs
            /\ inServiceLink' = up.inService
            /\ link' = up.link
            /\ fault' = up.fault
  BY DEF CrossbarUpdate
<1> DEFINE down == DownLoop
           up == UpLoop(down.tags, standby)
<1>2. /\ downBuffers' = down.buf /\ vault' = down.vault /\ upBuffers' = up.buf
      /\ pendingSegTag' = up.tags /\ pendingSegPacket' = up.segs
      /\ inServiceLink' = up.inService /\ link' = up.link /\ fault' = up.fault
  BY <1>1
<1>3. bufPopDelay' = 0 /\ UNCHANGED <<scheme, arrived, answered>>
  BY DEF CrossbarUpdate
<1>4. /\ down.buf \in Buffers /\ down.vault \in Shelves(NUM_VAULTS) /\ In(down.buf, Big) = 0
      /\ up \in UpBooks(down.buf, down.vault, AnsweredOf(answered), Len(arrived))
  BY UpdateLoops
<1> HIDE DEF down, up
<1>5. /\ up \in Ups
      /\ Books(NotesOf(up.tags), UnderWay(down.buf, down.vault, up.buf), Aside(up.segs),
               AtLinks(up.link), AnsweredOf(answered), Len(arrived))
  BY <1>4 DEF UpBooks, UpBalances
<1>6. /\ up.buf \in Buffers /\ up.tags \in Seq(Tags) /\ up.segs \in Seq(Packet)
      /\ up.inService \in -1 .. NUM_LINKS - 1 /\ up.link \in Shelves(NUM_LINKS) /\ up.fault = FALSE
  BY <1>5, UpsFields
<1>7. Shaped'
  BY <1>2, <1>3, <1>4, <1>6 DEF IInv, Shaped
<1>8. Balanced'
  BY <1>2, <1>3, <1>5 DEF Balanced
<1> QED BY <1>7, <1>8 DEF IInv

\* What a vault makes of a packet.
LEMMA ResponseFields ==
  ASSUME NEW p \in Packet
  PROVE  /\ Response(p) \in Packet /\ Response(p).segment = p.segment
         /\ Response(p).tag = p.tag /\ Response(p).trace = p.trace
<1>1. (IF p.op = "READ" THEN 1 + p.reqDataSize ELSE 1) \in Nat \ {0}
  BY PacketFields
<1> QED BY <1>1 DEF Response, Packet

\* A vault answers.
LEMMA VaultKeeps ==
  ASSUME IInv, NEW v \in Vaults, VaultAnswer(v)
  PROVE  IInv'
<1>1. PICK i \in HeadsOf(vault[v]) :
        /\ upBuffers' = upBuffers \o Flits(Response(vault[v][i]))
        /\ vault' = [vault EXCEPT ![v] = Erase(@, i)]
  BY DEF VaultAnswer
<1> DEFINE b == vault[v]
           p == b[i]
           q == Response(p)
           c == Erase(b, i)
           N == NUM_VAULTS
           t == UnderWay(downBuffers, vault, upBuffers)
           t0 == UnderWay(downBuffers, vault', upBuffers)
           t1 == UnderWay(downBuffers, vault', upBuffers')
<1>2. UNCHANGED <<downBuffers, bufPopDelay, inServiceLink, pendingSegTag,
                  pendingSegPacket, fault, link, scheme, arrived, answered>>
  BY DEF VaultAnswer
<1>3. downBuffers \in Buffers /\ upBuffers \in Buffers /\ vault \in Shelves(N)
  BY DEF IInv, Shaped
<1>4. N \in Nat /\ v \in 0 .. N - 1
  BY Sizes DEF Vaults
<1>5. b \in Buffers
  BY <1>3, <1>4 DEF Shelves
<1>6. p \in Packet /\ c \in Buffers /\ \A P \in SUBSET Packet : In(b, P) = In(c, P) + Has(p, P)
  BY <1>5, Erased
<1>7. q \in Packet /\ q.segment = p.segment /\ q.tag = p.tag /\ q.trace = p.trace
  BY <1>6, ResponseFields
<1>8. vault' = [vault EXCEPT ![v] = c] /\ upBuffers' = upBuffers \o Flits(q) /\ vault[v] = b
  BY <1>1, <1>3, <1>4 DEF Shelves
<1> HIDE DEF b, p, q, c
<1>9. vault' \in Shelves(N) /\ \A P : InAll(vault', N, P) + In(b, P) = InAll(vault, N, P) + In(c, P)
  <2>1. /\ [vault EXCEPT ![v] = c] \in Shelves(N)
        /\ \A P : InAll([vault EXCEPT ![v] = c], N, P) + In(vault[v], P) = InAll(vault, N, P) + In(c, P)
    BY ZenonT(60), <1>3, <1>4, <1>6, InAllChange
  <2> QED BY <1>8, <2>1
<1>10. upBuffers' \in Buffers /\ Plus(t0, q, t1)
  BY <1>3, <1>7, <1>8, <1>9, UpPut
<1>11. t \in Accounts /\ t0 \in Accounts /\ t1 \in Accounts
  BY <1>3, <1>9, <1>10, UnderWayType
<1>12. Plus(t0, p, t)
  <2>1. ASSUME NEW P \in SUBSET Packet
        PROVE  In(downBuffers, P) + InAll(vault, N, P) + In(upBuffers, P) =
                 In(downBuffers, P) + InAll(vault', N, P) + In(upBuffers, P) + Has(p, P)
    <3>1. /\ In(downBuffers, P) \in Nat /\ InAll(vault, N, P) \in Nat /\ In(upBuffers, P) \in Nat
      BY <1>3, UnderWayType
    <3>2. InAll(vault', N, P) \in Nat
      BY <1>3, <1>9, UnderWayType
    <3>3. In(b, P) \in Nat /\ In(c, P) \in Nat
      BY <1>5, <1>6, InType DEF Buffers
    <3>4. Has(p, P) \in 0 .. 1
      BY <1>6, InOne
    <3> QED BY <1>6, <1>9, <3>1, <3>2, <3>3, <3>4
  <2> QED BY <1>3, <1>6, <1>9, <2>1, UnderWayPlus
<1> HIDE DEF t, t0, t1
<1>13. Books(NotesOf(pendingSegTag), t1, Aside(pendingSegPacket), AtLinks(link),
             AnsweredOf(answered), Len(arrived))
  <2>1. /\ NotesOf(pendingSegTag) \in Notes /\ Aside(pendingSegPacket) \in Accounts
        /\ AtLinks(link) \in Accounts /\ AnsweredOf(answered) \in Answered /\ Len(arrived) \in Nat
    BY StateAccounts DEF IInv
  <2>2. Books(NotesOf(pendingSegTag), t, Aside(pendingSegPacket), AtLinks(link),
              AnsweredOf(answered), Len(arrived))
    BY DEF IInv, Balanced, t
  <2> QED BY <1>6, <1>7, <1>10, <1>11, <1>12, <2>1, <2>2, AnsweredAlike
<1>14. Balanced'
  BY <1>2, <1>13 DEF Balanced, t1
<1>15. Shaped'
  BY <1>2, <1>9, <1>10 DEF IInv, Shaped
<1> QED BY <1>14, <1>15 DEF IInv

\* A response leaves the cube, and it is that of a request which was made and
\* has not been answered.
LEMMA LinkKeeps ==
  ASSUME IInv, NEW l \in Links, LinkSend(l)
  PROVE  /\ IInv'
         /\ \E n \in DOMAIN arrived : n \notin ToSet(answered) /\ answered' = Append(answered, n)
<1> DEFINE b == link[l]
           p == b[1]
           c == Erase(b, 1)
           N == NUM_LINKS
           n == p.trace
           x == AtLinks(link)
           x1 == AtLinks(link')
           d == AnsweredOf(answered)
           d1 == AnsweredOf(answered')
<1>1. /\ link \in Shelves(N) /\ answered \in Seq(1 .. MaxRequests) /\ arrived \in Seq(Requests)
  BY DEF IInv, Shaped
<1>2. UNCHANGED <<crossbar, vault, scheme, arrived>>
  BY DEF LinkSend
<1>3. N \in Nat /\ l \in 0 .. N - 1
  BY Sizes DEF Links
<1>4. b \in Buffers
  BY <1>1, <1>3 DEF Shelves
<1>5. 1 \in HeadsOf(b) /\ Head(b) = p
  <2>1. b \in Seq(Flit) /\ b # <<>>
    BY <1>4 DEF Buffers, LinkSend
  <2>2. b[1] # NULL
    BY <1>4, <2>1 DEF Buffers, Framed
  <2> HIDE DEF b
  <2>3. 1 \in DOMAIN b /\ Head(b) = b[1]
    BY <2>1
  <2> QED BY <2>2, <2>3 DEF HeadsOf
<1>6. p \in Packet /\ c \in Buffers /\ \A P \in SUBSET Packet : In(b, P) = In(c, P) + Has(p, P)
  BY <1>4, <1>5, Erased
<1>7. link' = [link EXCEPT ![l] = c] /\ answered' = Append(answered, n)
  BY <1>1, <1>3, <1>5 DEF LinkSend, Shelves
<1>8. link[l] = b
  OBVIOUS
<1> HIDE DEF b, p, c, n
<1>9. link' \in Shelves(N) /\ \A P : InAll(link', N, P) + In(b, P) = InAll(link, N, P) + In(c, P)
  <2>1. /\ [link EXCEPT ![l] = c] \in Shelves(N)
        /\ \A P : InAll([link EXCEPT ![l] = c], N, P) + In(link[l], P) = InAll(link, N, P) + In(c, P)
    BY <1>1, <1>3, <1>6, InAllChange
  <2> QED BY <1>7, <1>8, <2>1
<1>10. x \in Accounts /\ x1 \in Accounts
  BY <1>1, <1>9, AtLinksType
<1>11. Plus(x1, p, x)
  <2>1. ASSUME NEW P \in SUBSET Packet
        PROVE  InAll(link, N, P) = InAll(link', N, P) + Has(p, P)
    <3>1. InAll(link, N, P) \in Nat /\ InAll(link', N, P) \in Nat
      BY <1>1, <1>3, <1>9, CountsType
    <3>2. In(b, P) \in Nat /\ In(c, P) \in Nat
      BY <1>4, <1>6, InType DEF Buffers
    <3>3. Has(p, P) \in 0 .. 1
      BY <1>6, InOne
    <3> QED BY <1>6, <1>9, <3>1, <3>2, <3>3
  <2> QED BY <2>1 DEF Plus, AtLinks
<1>12. /\ NotesOf(pendingSegTag) \in Notes /\ Aside(pendingSegPacket) \in Accounts
       /\ UnderWay(downBuffers, vault, upBuffers) \in Accounts
       /\ d \in Answered /\ Len(arrived) \in Nat
       /\ Books(NotesOf(pendingSegTag), UnderWay(downBuffers, vault, upBuffers),
                Aside(pendingSegPacket), x, d, Len(arrived))
  BY StateAccounts DEF IInv, Balanced
<1> HIDE DEF x, x1, d
<1>13. /\ n \in 1 .. MaxRequests /\ n <= Len(arrived) /\ d[n] = 0
       /\ \A e \in Answered :
            (\A j \in 1 .. MaxRequests : e[j] = d[j] + (IF j = n THEN 1 ELSE 0))
              => Books(NotesOf(pendingSegTag), UnderWay(downBuffers, vault, upBuffers),
                       Aside(pendingSegPacket), x1, e, Len(arrived))
  BY <1>6, <1>10, <1>11, <1>12, LeftCube DEF n
<1>14. answered' \in Seq(1 .. MaxRequests)
  BY <1>1, <1>7, <1>13
<1>15. d1 \in Answered /\ \A j \in 1 .. MaxRequests : d1[j] = d[j] + (IF j = n THEN 1 ELSE 0)
  <2>1. d1 \in Answered /\ \A j \in 1 .. MaxRequests : d1[j] = Occurrences(answered', j)
    BY <1>14, AnsweredType
  <2>2. \A j \in 1 .. MaxRequests : d[j] = Occurrences(answered, j)
    BY <1>1, AnsweredType DEF d
  <2>3. ASSUME NEW j \in 1 .. MaxRequests
        PROVE  Occurrences(answered', j) = Occurrences(answered, j) + (IF j = n THEN 1 ELSE 0)
    <3>1. Occurrences(Append(answered, n), j) = Occurrences(answered, j) + (IF n = j THEN 1 ELSE 0)
      <4> DEFINE R == 1 .. MaxRequests
      <4>1. answered \in Seq(R) /\ n \in R
        BY <1>1, <1>13
      <4> HIDE DEF R
      <4> QED BY <4>1, OccurrencesAppend
    <3> QED BY <1>7, <3>1
  <2> HIDE DEF d1
  <2> QED BY <2>1, <2>2, <2>3
<1> HIDE DEF d1
<1>16. Books(NotesOf(pendingSegTag), UnderWay(downBuffers, vault, upBuffers),
             Aside(pendingSegPacket), x1, d1, Len(arrived))
  BY <1>13, <1>15
<1>17. Balanced'
  BY <1>2, <1>16 DEF Balanced, x1, d1, crossbar
<1>18. Shaped'
  BY <1>2, <1>9, <1>14 DEF IInv, Shaped, crossbar
<1>19. n \in DOMAIN arrived /\ n \notin ToSet(answered)
  <2>1. n \in DOMAIN arrived
    BY <1>1, <1>13
  <2>2. Occurrences(answered, n) = 0
    BY <1>1, <1>13, AnsweredType DEF d
  <2> QED BY <1>1, <2>1, <2>2, OccurrencesType
<1> QED BY <1>7, <1>17, <1>18, <1>19 DEF IInv

\* Every step keeps the invariant.
LEMMA StepKeeps == IInv /\ [Next]_vars => IInv'
<1> SUFFICES ASSUME IInv, [Next]_vars PROVE IInv'
  OBVIOUS
<1>1. CASE Arrive
  BY <1>1, ArriveKeeps
<1>2. ASSUME NEW l \in Links, LinkSend(l) PROVE IInv'
  BY <1>2, LinkKeeps
<1>3. ASSUME NEW v \in Vaults, VaultAnswer(v) PROVE IInv'
  BY <1>3, VaultKeeps
<1>4. CASE CrossbarUpdate
  BY <1>4, CrossbarKeeps
<1>5. CASE UNCHANGED vars
  BY <1>5 DEF vars, crossbar, IInv, Shaped, Balanced
<1> QED BY <1>1, <1>2, <1>3, <1>4, <1>5 DEF Next, Update
-----------------------------------------------------------------------------
(* The theorems *)

\* The invariant holds in every behaviour of the crossbar.
THEOREM CrossbarInvariant == Spec => []IInv
<1>1. Init => IInv
  BY InitKeeps
<1>2. IInv /\ [Next]_vars => IInv'
  BY StepKeeps
<1> QED BY <1>1, <1>2, PTL DEF Spec

\* The state has its type.
THEOREM CrossbarTypes == Spec => []TypeOK
<1>1. IInv => TypeOK
  <2> SUFFICES ASSUME IInv PROVE TypeOK
    OBVIOUS
  <2>1. Buffers \subseteq Seq(Flit)
    BY DEF Buffers
  <2>2. vault \in [Vaults -> Seq(Flit)] /\ link \in [Links -> Seq(Flit)]
    BY <2>1 DEF IInv, Shaped, Shelves, Vaults, Links
  <2> QED BY <2>1, <2>2 DEF IInv, Shaped, TypeOK
<1> QED BY <1>1, CrossbarInvariant, PTL

\* Whatever is cut, refused, merged and put back: pendingSegTag notes the TAG of
\* every segment that is on its way, as often as there are, and no other.
THEOREM CrossbarSegments == Spec => []SegmentsConserved
<1>1. IInv => SegmentsConserved
  <2> SUFFICES ASSUME IInv, NEW t \in Tags PROVE Occurrences(pendingSegTag, t) = Travelling(t)
    BY DEF SegmentsConserved
  <2>1. NotesOf(pendingSegTag)[t] = UnderWay(downBuffers, vault, upBuffers)[SegmentsOf(t)]
    BY DEF IInv, Balanced, Books
  <2>2. NotesOf(pendingSegTag)[t] = Occurrences(pendingSegTag, t)
    BY DEF NotesOf
  <2>3. UnderWay(downBuffers, vault, upBuffers)[SegmentsOf(t)] = Travelling(t)
    BY KindSets DEF UnderWay, Travelling
  <2> QED BY <2>1, <2>2, <2>3
<1> QED BY <1>1, CrossbarInvariant, PTL

\* The index arithmetic of the loops never separates a packet from its tails, in
\* any buffer.
THEOREM CrossbarBuffers == Spec => []BuffersWhole
<1>1. IInv => BuffersWhole
  BY DEF IInv, Shaped, BuffersWhole, Buffers, Shelves, Vaults, Links
<1> QED BY <1>1, CrossbarInvariant, PTL

\* The crossbar never meets the response of a segment it does not know: the
\* branch that stops the program (CrossbarSwitch.cpp:130) is never taken.
THEOREM CrossbarNoFault == Spec => [](~fault)
<1>1. IInv => ~fault
  BY DEF IInv, Shaped
<1> QED BY <1>1, CrossbarInvariant, PTL

\* The crossbar keeps what a memory promises: no request is answered twice, and
\* none that was not made, though a request may go down in many segments whose
\* responses come back in any order, even when two requests have the same TAG.
THEOREM CrossbarService == Spec => Service!Spec
<1>1. Init => Service!Init
  BY DEF Init, Service!Init
<1>2. IInv /\ [Next]_vars => [Service!Next]_(Service!vars)
  <2> SUFFICES ASSUME IInv, [Next]_vars PROVE [Service!Next]_(Service!vars)
    OBVIOUS
  <2>1. CASE Arrive
    <3>1. Service!Ask
      BY <2>1 DEF Arrive, Service!Ask
    <3> QED BY <3>1 DEF Service!Next
  <2>2. ASSUME NEW l \in Links, LinkSend(l) PROVE [Service!Next]_(Service!vars)
    <3>1. PICK n \in DOMAIN arrived : n \notin ToSet(answered) /\ answered' = Append(answered, n)
      BY <2>2, LinkKeeps
    <3>2. answered \in Seq(1 .. MaxRequests)
      BY DEF IInv, Shaped
    <3>3. n \in Service!Open
      BY <3>1, <3>2 DEF Service!Open, ToSet, Range, Service!Range
    <3>4. arrived' = arrived
      BY <2>2 DEF LinkSend
    <3>5. Service!Answer
      BY <3>1, <3>3, <3>4 DEF Service!Answer
    <3> QED BY <3>5 DEF Service!Next
  <2>3. ASSUME NEW v \in Vaults, VaultAnswer(v) PROVE [Service!Next]_(Service!vars)
    BY <2>3 DEF VaultAnswer, Service!vars
  <2>4. CASE CrossbarUpdate
    BY <2>4 DEF CrossbarUpdate, Service!vars
  <2>5. CASE UNCHANGED vars
    BY <2>5 DEF vars, Service!vars
  <2> QED BY <2>1, <2>2, <2>3, <2>4, <2>5 DEF Next, Update
<1> QED BY <1>1, <1>2, CrossbarInvariant, PTL DEF Spec, Service!Spec
=============================================================================
