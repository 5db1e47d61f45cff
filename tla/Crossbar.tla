------------------------------ MODULE Crossbar ------------------------------
(***************************************************************************)
(* The crossbar switch of the cube: packets of the link slaves go down to  *)
(* the vault of their block, responses of the vaults go up to any link     *)
(* master.  A packet for more than one block is cut into a segment for     *)
(* each, and the responses of the segments are merged into one.            *)
(*                                                                         *)
(* A request's number stands for its trace pointer; 0 is no trace.  The    *)
(* objects around the crossbar are reduced to their buffers: a vault holds *)
(* what fits and answers it in any order (its own module is Vault), a link *)
(* master holds what fits and sends it in order (LinkLayer), and those     *)
(* that are not AlwaysAwake may be found asleep at any Update.  Atomic     *)
(* requests are shorter than a block and pass like a short read or write.  *)
(* Sizes count the 16 bytes of a FLIT; an address is a block number.       *)
(***************************************************************************)
EXTENDS Integers, FiniteSets, SequencesExt, Loops

CONSTANTS
  NULL,             \* a virtual tail
  NUM_VAULTS, NUM_LINKS,
  ADDRESS_MAPPING,  \* size of a block
  MAX_CROSS_BUF, MAX_VLT_BUF, MAX_LINK_BUF,
  MAX_TAG,          \* TAGs are numbers modulo this
  LINK_PRIORITY,    \* the link priority schemes to consider
  AlwaysAwake,      \* links that are never asleep
  Requests,         \* requests that may be made
  MaxRequests       \* bound on their number

VARIABLES
  downBuffers, upBuffers, bufPopDelay, inServiceLink, pendingSegTag,
  pendingSegPacket,  \* fields of CrossbarSwitch
  vault,     \* vault[v]: the packets that vault v holds
  link,      \* link[l]: the responses that link master l holds
  scheme,    \* the link priority scheme
  arrived,   \* requests made, in that order
  answered,  \* requests whose response left the cube, in that order
  fault      \* the ERROR branch (exit) was taken

crossbar == <<downBuffers, upBuffers, bufPopDelay, inServiceLink, pendingSegTag,
              pendingSegPacket, fault>>
vars == <<crossbar, vault, link, scheme, arrived, answered>>

Vaults == 0 .. NUM_VAULTS - 1
Links == 0 .. NUM_LINKS - 1
Tags == 0 .. MAX_TAG - 1

ASSUME CrossbarConstants ==
  /\ {NUM_VAULTS, NUM_LINKS, ADDRESS_MAPPING, MAX_TAG} \subseteq Nat \ {0}
  /\ {MAX_CROSS_BUF, MAX_VLT_BUF, MAX_LINK_BUF, MaxRequests} \subseteq Nat
  /\ LINK_PRIORITY \subseteq {"ROUND_ROBIN", "BUFFER_AWARE"}
  /\ AlwaysAwake \subseteq Links /\ AlwaysAwake # {}
  /\ Requests \subseteq [op: {"READ", "WRITE"}, size: Nat \ {0}, adrs: Nat]

Packet ==
  [trace: 0 .. MaxRequests, op: {"READ", "WRITE"}, tag: Tags,
   lng: Nat \ {0}, reqDataSize: Nat, adrs: Nat, segment: BOOLEAN]

ASSUME NullIsNoPacket == NULL \notin Packet

Flit == Packet \cup {NULL}

\* The TAG counter is advanced for each request that is sent.
TagOf(n) == (n - 1) % MAX_TAG

RequestPacket(n, r) ==
  [trace |-> n, op |-> r.op, tag |-> TagOf(n),
   lng |-> IF r.op = "WRITE" THEN 1 + r.size ELSE 1,
   reqDataSize |-> r.size, adrs |-> r.adrs, segment |-> FALSE]

\* What the vault makes of a request.
Response(p) ==
  [p EXCEPT !.lng = IF p.op = "READ" THEN 1 + p.reqDataSize ELSE 1, !.reqDataSize = 1]

\* A packet and its virtual tails, the places of the packets of a buffer, and
\* the buffer without the packet at i.
Flits(p) == <<p>> \o [k \in 1 .. p.lng - 1 |-> NULL]
HeadsOf(buf) == {i \in DOMAIN buf : buf[i] # NULL}
Erase(buf, i) == SubSeq(buf, 1, i - 1) \o SubSeq(buf, i + buf[i].lng, Len(buf))

Fits(p, buf, max) == Len(buf) + p.lng <= max

-----------------------------------------------------------------------------
(* The two loops over a buffer.  `at' is the position and grows or stays   *)
(* while packets are taken out and put in.  `rounds' is a number of rounds *)
(* after which a loop is past the end of the buffer and changes nothing.   *)

Loop(Step(_), start, States, rounds) ==
  LET Round == [st \in States |-> IF st.at > Len(st.buf) THEN st ELSE Step(st)]
  IN  Repeat(LAMBDA st, i : Round[st], start, rounds)

Down == [at: Nat, buf: Seq(Flit), tags: Seq(Tags), vault: [Vaults -> Seq(Flit)]]

\* Mutant of Blocks: a last, partial block is forgotten.
BlocksWhole(size) == size \div ADDRESS_MAPPING

Blocks(size) == (size + ADDRESS_MAPPING - 1) \div ADDRESS_MAPPING

\* Mutant of Segment: the first, which keeps the trace, is not marked.
SegmentUnmarked(p, j) ==
  [p EXCEPT !.lng = IF @ > 1 THEN 1 + ADDRESS_MAPPING ELSE 1,
            !.reqDataSize = ADDRESS_MAPPING, !.adrs = @ + j,
            !.trace = IF j = 0 THEN @ ELSE 0, !.segment = j > 0]

Segment(p, j) ==
  [p EXCEPT !.lng = IF @ > 1 THEN 1 + ADDRESS_MAPPING ELSE 1,
            !.reqDataSize = ADDRESS_MAPPING, !.adrs = @ + j,
            !.trace = IF j = 0 THEN @ ELSE 0, !.segment = TRUE]

\* Before the packet at the position, which moves past it.
PutIn(st, p) ==
  [st EXCEPT !.buf = SubSeq(@, 1, st.at - 1) \o Flits(p) \o SubSeq(@, st.at, Len(@)),
             !.at = @ + p.lng,
             !.tags = Append(@, p.tag)]

\* The segments take the packet's place; the packet behind them is passed over.
Divide(st) ==
  LET p    == st.buf[st.at]
      segs == Repeat(LAMBDA x, j : PutIn(x, Segment(p, j)),
                     [st EXCEPT !.buf = Erase(@, st.at)], Blocks(p.reqDataSize))
  IN  [segs EXCEPT !.at = @ + 1]

VaultMap(p) == p.adrs % NUM_VAULTS

SendDown(st) ==
  LET p == st.buf[st.at]
      v == VaultMap(p)
  IN  IF Fits(p, st.vault[v], MAX_VLT_BUF)
      THEN [st EXCEPT !.buf = Erase(st.buf, st.at), !.vault[v] = @ \o Flits(p)]
      ELSE [st EXCEPT !.at = @ + 1]

DownStep(st) ==
  IF st.buf[st.at] = NULL THEN [st EXCEPT !.at = @ + 1]
  ELSE IF st.buf[st.at].reqDataSize > ADDRESS_MAPPING THEN Divide(st)
  ELSE SendDown(st)

DownLoop ==
  LET start == [at |-> 1, buf |-> downBuffers, tags |-> pendingSegTag, vault |-> vault]
  IN  IF bufPopDelay = 0 THEN Loop(DownStep, start, Down, Len(downBuffers)) ELSE start

-----------------------------------------------------------------------------
Up ==
  [at: Nat, buf: Seq(Flit), tags: Seq(Tags), segs: Seq(Packet),
   inService: -1 .. NUM_LINKS - 1, link: [Links -> Seq(Flit)], fault: BOOLEAN]

\* Mutant of Combine: the FLIT of header and tail is counted again.
CombineAll(first, p) ==
  LET longer == [first EXCEPT !.lng = IF p.lng > 1 THEN @ + p.lng ELSE @]
  IN  IF p.trace = 0 THEN longer
      ELSE [longer EXCEPT !.trace = p.trace, !.adrs = p.adrs]

\* A segment's response is added to those that came before it.
Combine(first, p) ==
  LET longer == [first EXCEPT !.lng = IF p.lng > 1 THEN @ + ADDRESS_MAPPING ELSE @]
  IN  IF p.trace = 0 THEN longer
      ELSE [longer EXCEPT !.trace = p.trace, !.adrs = p.adrs]

Untag(tags, t) == RemoveFirst(tags, t)

\* The response of a segment: the first is set aside, the others are merged
\* into it, and the last puts the whole response in front of the buffer.
Collect(st) ==
  LET p      == st.buf[st.at]
      tags   == Untag(st.tags, p.tag)
      isLast == p.tag \notin ToSet(tags)
      j      == SelectInSeq(st.segs, LAMBDA q : q.tag = p.tag)
      whole  == Combine(st.segs[j], p)
      taken  == [st EXCEPT !.tags = tags, !.buf = Erase(st.buf, st.at)]
  IN  IF p.tag \notin ToSet(st.tags) THEN [st EXCEPT !.fault = TRUE, !.at = Len(st.buf) + 1]
      ELSE IF j = 0 THEN [taken EXCEPT !.segs = Append(@, p)]
      ELSE IF isLast
      THEN [taken EXCEPT !.segs = RemoveAt(@, j), !.at = @ + 1,
                         !.buf = Flits([whole EXCEPT !.segment = FALSE]) \o @]
      ELSE [taken EXCEPT !.segs = [@ EXCEPT ![j] = whole]]

\* FindAvailableLink, NUM_LINKS times in a row.  standby[l] FLITs are in linkRxTx of
\* link l, if it is awake; BUFFER_AWARE takes the link that has the fewest FLITs.
Tries(st, standby) ==
  IF scheme = "ROUND_ROBIN" THEN [k \in 1 .. NUM_LINKS |-> (st.inService + k) % NUM_LINKS]
  ELSE LET load(l) == Len(st.link[l]) + standby[l]
           open == {l \in DOMAIN standby : load(l) < MAX_LINK_BUF}
           least == IF open = {} THEN 0
                    ELSE CHOOSE l \in open : \A m \in open :
                           load(l) < load(m) \/ (load(l) = load(m) /\ l <= m)
       IN  [k \in 1 .. NUM_LINKS |-> least]

SendUp(st, standby) ==
  LET p     == st.buf[st.at]
      tries == Tries(st, standby)
      k     == SelectInSeq(tries, LAMBDA l : l \in DOMAIN standby
                                               /\ Fits(p, st.link[l], MAX_LINK_BUF))
      last  == tries[IF k = 0 THEN NUM_LINKS ELSE k]
      moved == [st EXCEPT !.inService = IF scheme = "ROUND_ROBIN" THEN last ELSE @]
  IN  IF k = 0 THEN [moved EXCEPT !.at = @ + 1]
      ELSE [moved EXCEPT !.buf = Erase(st.buf, st.at), !.link[last] = @ \o Flits(p)]

UpStep(st, standby) ==
  IF st.buf[st.at] = NULL THEN [st EXCEPT !.at = @ + 1]
  ELSE IF st.buf[st.at].segment THEN Collect(st)
  ELSE SendUp(st, standby)

\* The upstream loop follows the downstream loop, whose TAGs it starts from.  A
\* response put in front pushes those behind it on, which are seen again.
UpLoop(tags, standby) ==
  Loop(LAMBDA st : UpStep(st, standby),
       [at |-> 1, buf |-> upBuffers, tags |-> tags, segs |-> pendingSegPacket,
        inService |-> inServiceLink, link |-> link, fault |-> fault],
       Up,
       2 * Len(upBuffers)
         + Total([j \in DOMAIN pendingSegPacket |-> pendingSegPacket[j].lng]))

-----------------------------------------------------------------------------
Init ==
  /\ downBuffers = <<>> /\ upBuffers = <<>> /\ bufPopDelay = 0
  /\ inServiceLink = -1
  /\ pendingSegTag = <<>> /\ pendingSegPacket = <<>>
  /\ vault = [v \in Vaults |-> <<>>]
  /\ link = [l \in Links |-> <<>>]
  /\ scheme \in LINK_PRIORITY
  /\ arrived = <<>> /\ answered = <<>>
  /\ fault = FALSE

\* A link slave hands a request to the crossbar (ReceiveDown).
Arrive ==
  /\ ~fault
  /\ Len(arrived) < MaxRequests
  /\ \E r \in Requests :
       LET p == RequestPacket(Len(arrived) + 1, r)
       IN  /\ Fits(p, downBuffers, MAX_CROSS_BUF)
           /\ downBuffers' = downBuffers \o Flits(p)
           /\ arrived' = Append(arrived, r)
  /\ bufPopDelay' = IF downBuffers = <<>> THEN 1 ELSE bufPopDelay
  /\ UNCHANGED <<upBuffers, inServiceLink, pendingSegTag, pendingSegPacket, fault,
                 vault, link, scheme, answered>>

\* What the links that are found awake may have in linkRxTx.  Only BUFFER_AWARE looks;
\* with a full buffer or more it passes over the link, so more need not be told apart.
Standby ==
  LET flits == IF scheme = "BUFFER_AWARE" THEN 0 .. MAX_LINK_BUF ELSE {0}
  IN  UNION {[awake -> flits] : awake \in {S \in SUBSET Links : AlwaysAwake \subseteq S}}

CrossbarUpdate ==
  /\ ~fault
  /\ bufPopDelay' = 0
  /\ UNCHANGED <<scheme, arrived, answered>>
  /\ \E standby \in Standby :
       LET down == DownLoop
           up   == UpLoop(down.tags, standby)
       IN  /\ downBuffers' = down.buf
           /\ vault' = down.vault
           /\ upBuffers' = up.buf
           /\ pendingSegTag' = up.tags
           /\ pendingSegPacket' = up.segs
           /\ inServiceLink' = up.inService
           /\ link' = up.link
           /\ fault' = up.fault

\* A vault hands a response to the crossbar (ReceiveUp).
VaultAnswer(v) ==
  /\ ~fault
  /\ \E i \in HeadsOf(vault[v]) :
       LET p == Response(vault[v][i])
       IN  /\ Fits(p, upBuffers, MAX_CROSS_BUF)
           /\ upBuffers' = upBuffers \o Flits(p)
           /\ vault' = [vault EXCEPT ![v] = Erase(@, i)]
  /\ UNCHANGED <<downBuffers, bufPopDelay, inServiceLink, pendingSegTag,
                 pendingSegPacket, fault, link, scheme, arrived, answered>>

\* A link master sends its oldest response to the host.
LinkSend(l) ==
  /\ ~fault
  /\ link[l] # <<>>
  /\ link' = [link EXCEPT ![l] = Erase(@, 1)]
  /\ answered' = Append(answered, Head(link[l]).trace)
  /\ UNCHANGED <<crossbar, vault, scheme, arrived>>

\* What the simulator does of itself.
Update ==
  \/ \E l \in Links : LinkSend(l)
  \/ \E v \in Vaults : VaultAnswer(v)
  \/ CrossbarUpdate

Next == Arrive \/ Update

Spec == Init /\ [][Next]_vars

\* The simulator goes on to some next call; arrivals may stop, a linkRxTx empties.
FairSpec == Spec /\ WF_vars(Update)

-----------------------------------------------------------------------------
(* Properties.                                                             *)

TypeOK ==
  /\ downBuffers \in Seq(Flit)
  /\ upBuffers \in Seq(Flit)
  /\ bufPopDelay \in {0, 1}
  /\ inServiceLink \in -1 .. NUM_LINKS - 1
  /\ pendingSegTag \in Seq(Tags)
  /\ pendingSegPacket \in Seq(Packet)
  /\ vault \in [Vaults -> Seq(Flit)]
  /\ link \in [Links -> Seq(Flit)]
  /\ scheme \in LINK_PRIORITY
  /\ arrived \in Seq(Requests)
  /\ answered \in Seq(1 .. MaxRequests)
  /\ fault \in BOOLEAN

\* The packets of P in a buffer, and in the buffers of n vaults or link masters.
In(buf, P) == Cardinality({i \in DOMAIN buf : buf[i] \in P})
InAll(bufs, n, P) == Total([k \in 1 .. n |-> In(bufs[k - 1], P)])

\* Segments with TAG t on their way to a vault, in it, or back from it.
SegmentsOf(t) == {p \in Packet : p.segment /\ p.tag = t}
Travelling(t) ==
  In(downBuffers, SegmentsOf(t)) + InAll(vault, NUM_VAULTS, SegmentsOf(t))
    + In(upBuffers, SegmentsOf(t))

\* Every TAG is noted once in pendingSegTag for each of its segments that is
\* still on its way: none is lost when a full vault refuses some of them, and
\* none is taken by a packet that was never cut.
SegmentsConserved ==
  \A t \in Tags :
    Occurrences(pendingSegTag, t) = Travelling(t)

\* The packet at i has length l: its virtual tails follow, then the next packet.
Follows(buf, i, l) ==
  /\ i + l <= Len(buf) + 1
  /\ \A k \in i + 1 .. i + l - 1 : buf[k] = NULL
  /\ i + l <= Len(buf) => buf[i + l] # NULL

\* The buffer is made of whole packets.
Framed(buf) ==
  /\ buf # <<>> => buf[1] # NULL
  /\ \A i \in HeadsOf(buf) : Follows(buf, i, buf[i].lng)

\* What a response to request n must be: its own TAG, the address of its first
\* block, and as many data FLITs as the blocks it was cut into.
Answers(p, n) ==
  LET r == arrived[n]
  IN  /\ p.tag = TagOf(n) /\ p.adrs = r.adrs /\ p.op = r.op
      /\ p.lng = IF r.op = "WRITE" THEN 1
                 ELSE 1 + IF r.size > ADDRESS_MAPPING THEN Blocks(r.size) * ADDRESS_MAPPING ELSE r.size

\* The index arithmetic of the loops (CrossbarSwitch.cpp:65-88, 150-163), which
\* cut and merge packets in the middle of a buffer while they go through it,
\* never separates a packet from its tails, in any of the buffers.
BuffersWhole ==
  /\ Framed(downBuffers) /\ Framed(upBuffers)
  /\ \A v \in Vaults : Framed(vault[v])
  /\ \A l \in Links : Framed(link[l])

\* In whatever order the segments' responses come back, what goes to the link
\* masters is the complete response to one request, with that request's trace; and
\* buffers are made of whole packets, when they are cut and merged in the middle.
ResponsesWhole ==
  LET up == {upBuffers} \cup {link[l] : l \in Links}
  IN  /\ BuffersWhole
      /\ \A buf \in up : \A i \in HeadsOf(buf) :
           ~buf[i].segment => /\ buf[i].trace \in DOMAIN arrived
                              /\ Answers(buf[i], buf[i].trace)

\* The crossbar with its vaults is a memory: every request is answered once,
\* and in the end, however full the buffers are.
Service == INSTANCE MemoryService WITH Wants <- LAMBDA r : TRUE
ServiceLive == Service!FairSpec
=============================================================================
