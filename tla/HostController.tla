---------------------------- MODULE HostController ----------------------------
(***************************************************************************)
(* The HMC controller of the host: transactions of the system wait in      *)
(* downBuffers, become packets of a link master, and their responses come  *)
(* back through upBuffers; between the two its managers send links to      *)
(* sleep and wake them up.  Update is HMCController::Update, whole.        *)
(*                                                                         *)
(* h holds the fields of the controller and, of each link master, Buffers  *)
(* and currentState.  A transaction is its number; in Buffers a 0 is a     *)
(* TRET, a packet of the link itself.  Whether `currentClockCycle >= t'    *)
(* for a time t noted earlier is left open: each Update may find any timer *)
(* run out, unless it is set in that same Update.  Beyond the masters:     *)
(* unsettled is the set of the links with packets to be acknowledged or    *)
(* tokens to come back (LinkLayer), memory holds the requests the cube has *)
(* to answer (Crossbar, Vault).  The handshakes by which the two ends of a *)
(* link fall asleep and wake up are single steps here, and errors are left *)
(* out.                                                                    *)
(***************************************************************************)
EXTENDS Loops, FiniteSets, SequencesExt

CONSTANTS
  NUM_LINKS,
  MAX_REQ_BUF,    \* capacity of downBuffers
  MAX_LINK_BUF,   \* capacity, in FLITs, of Buffers and of upBuffers
  AWAKE_REQ,      \* transactions that make a sleeping link worth waking
  COUNT_MAX,      \* modulus of the unsigned returnTransCnt
  LINK_POWER,     \* the power policies to consider
  LINK_PRIORITY,  \* the schemes of FindAvailableLink to consider
  Transactions,   \* transactions the system may make
  MaxTransactions \* bound on their number

VARIABLES
  h,          \* the controller and its link masters
  policy,     \* the member of LINK_POWER in use
  scheme,     \* the member of LINK_PRIORITY in use
  unsettled,  \* links with packets to be acknowledged or tokens to come back
  memory,     \* requests in the cube
  arrived,    \* transactions accepted, in that order
  cycle,      \* parity of the Updates that found all timers run out and no
              \* packet in a linkRxTx
  uncounted   \* history: requests that returnTransCnt was not told of

vars == <<h, policy, scheme, unsettled, memory, arrived, cycle, uncounted>>

Link == 0 .. NUM_LINKS - 1

ASSUME HostConstants ==
  /\ {NUM_LINKS, MAX_REQ_BUF, AWAKE_REQ, COUNT_MAX} \subseteq Nat \ {0}
  /\ MAX_LINK_BUF \in Nat /\ MaxTransactions \in Nat
  /\ LINK_POWER \subseteq {"NO_MANAGEMENT", "QUIESCE_SLEEP", "EPOCH"}
  /\ LINK_PRIORITY \subseteq {"ROUND_ROBIN", "BUFFER_AWARE"}
  /\ Transactions \subseteq [op : {"READ", "WRITE", "POSTED"}, block : Nat]

Asleep == {"SLEEP", "DOWN"}
Waking == {"TRANSITION_TO_RETRAIN", "RETRAIN1", "RETRAIN2"}
LinkState ==
  {"ACTIVE", "WAIT", "CONFIRM", "TRANSITION_TO_SLEEP", "TRANSITION_TO_DOWN"}
    \cup Asleep \cup Waking

\* The timers that Update looks at.  calm is the later of quiesceLink and
\* stayActive, which are only used together.
Timers(state) ==
  {<<"calm", l>> : l \in {k \in Link : state[k] = "ACTIVE"}}
    \cup {<<"modeTransition", l>> : l \in {k \in Link : state[k] \in
           {"TRANSITION_TO_SLEEP", "TRANSITION_TO_DOWN", "TRANSITION_TO_RETRAIN"}}}
    \cup {<<"staggerSleep", 0>> : l \in {k \in Link : state[k] = "CONFIRM"}}
    \cup {<<"staggerActive", 0>> : l \in {k \in Link : state[k] = "SLEEP"}}
    \cup {<<"staySREF", 0>> : l \in {k \in Link : state[k] = "DOWN"}}

Number == 1 .. MaxTransactions
Wants(t) == t.op # "POSTED"

\* Packets: their blocks and lengths.  A TRET has the address 0.
BlockOf(n) == IF n = 0 THEN 0 ELSE arrived[n].block
RequestLNG(n) == IF n = 0 \/ arrived[n].op = "READ" THEN 1 ELSE 2
ResponseLNG(n) == IF arrived[n].op = "READ" THEN 2 ELSE 1
Flits(buf) == Total([i \in DOMAIN buf |-> RequestLNG(buf[i])])
Trets(buf) == Total([i \in DOMAIN buf |-> IF buf[i] = 0 THEN 1 ELSE 0])
UpFlits(buf) == Total([i \in DOMAIN buf |-> ResponseLNG(buf[i])])
-----------------------------------------------------------------------------
(* The steps of Update work on a record u of h and the timers that are due. *)
Arm(u, t) == [u EXCEPT !.due = @ \ {t}]
GoTo(u, l, state) == [u EXCEPT !.h.state[l] = state]
LinksIn(u, S) == {l \in Link : u.h.state[l] \in S}

(* LinkPowerExitManager *)
FirstOf(S) == CHOOSE l \in S : \A k \in S : l <= k

StartWaking(u, l) ==
  Arm(GoTo(u, l, "TRANSITION_TO_RETRAIN"), <<"modeTransition", l>>)

\* Mutant of WakeForRequests: a link that is down waits for more requests, too.
WakeForMany(u) ==
  LET link == FirstOf(LinksIn(u, Asleep))
  IN  IF /\ LinksIn(u, Asleep) # {} /\ LinksIn(u, Waking) = {}
         /\ Len(u.h.downBuffers) >= AWAKE_REQ
      THEN StartWaking(u, link)
      ELSE u

WakeForRequests(u) ==
  LET asleep == LinksIn(u, Asleep)
      link   == FirstOf(asleep)
      queued == Len(u.h.downBuffers)
      worth  == IF u.h.state[link] = "DOWN"
                THEN queued > 0 /\ <<"staySREF", 0>> \in u.due
                ELSE queued >= AWAKE_REQ
  IN  IF asleep # {} /\ LinksIn(u, Waking) = {} /\ worth THEN StartWaking(u, link) ELSE u

Wake(v, l) ==
  IF v.h.state[l] = "SLEEP" /\ <<"staggerActive", 0>> \in v.due
  THEN Arm(StartWaking(v, l), <<"staggerActive", 0>>)
  ELSE v

WakeForEpoch(u) == Repeat(Wake, u, NUM_LINKS - u.h.sleepLink)

Retrain(v, l) ==
  IF v.h.state[l] = "TRANSITION_TO_RETRAIN" /\ <<"modeTransition", l>> \in v.due
  THEN [v EXCEPT !.h.state = [k \in Link |->
          IF k = l THEN "RETRAIN1"
          ELSE IF @[k] = "DOWN" THEN "SLEEP" ELSE @[k]]]
  ELSE v

EnterRetraining(u) == Repeat(Retrain, u, NUM_LINKS)

LinkPowerExitManager(u) ==
  CASE policy = "NO_MANAGEMENT" -> u
    [] policy = "QUIESCE_SLEEP" -> EnterRetraining(WakeForRequests(u))
    [] policy = "EPOCH" -> EnterRetraining(WakeForEpoch(u))
-----------------------------------------------------------------------------
(* Downstream *)

Fits(u, l) ==
  Flits(u.h.Buffers[l]) + RequestLNG(Head(u.h.downBuffers)) <= MAX_LINK_BUF

\* Mutant of Send: the transaction stays in downBuffers.
SendAndKeep(u, l) == [u EXCEPT !.h.Buffers[l] = Append(@, Head(u.h.downBuffers))]

Send(u, l) ==
  [u EXCEPT !.h.Buffers[l] = Append(@, Head(u.h.downBuffers)),
            !.h.downBuffers = Tail(@)]

\* Mutant of Count: posted writes are counted.
CountAll(u, n) == [u EXCEPT !.h.returnTransCnt = (@ + 1) % COUNT_MAX]

Count(u, n) ==
  IF Wants(arrived[n]) THEN [u EXCEPT !.h.returnTransCnt = (@ + 1) % COUNT_MAX] ELSE u

\* Mutant of Dependencies: the last link is not looked at.
DependenciesButLast(u) ==
  {l \in Link \ {NUM_LINKS - 1} : \E n \in ToSet(u.h.Buffers[l]) :
     BlockOf(n) = BlockOf(Head(u.h.downBuffers))}

\* The links with a packet for the block of the first transaction: the loop over
\* the links goes on after a match, so the last one counts.
Dependencies(u) ==
  {l \in Link : \E n \in ToSet(u.h.Buffers[l]) : BlockOf(n) = BlockOf(Head(u.h.downBuffers))}
LastOf(S) == CHOOSE l \in S : \A k \in S : k <= l

SendDependent(u, l) ==
  IF Fits(u, l)
  THEN [Send(u, l) EXCEPT !.uncounted =
          @ \cup {n \in {Head(u.h.downBuffers)} : Wants(arrived[n])}]
  ELSE u

\* FindAvailableLink: the next link in turn, or of the links that are awake the
\* one with the fewest FLITs in Buffers and linkRxTx, the first of those, if it has
\* less than a full buffer of them; else link 0.  standby[l] FLITs are in linkRxTx.
LeastLoaded(u, standby) ==
  LET load(l) == Flits(u.h.Buffers[l]) + standby[l]
      open    == {l \in LinksIn(u, {"ACTIVE"}) : load(l) < MAX_LINK_BUF}
      least   == {l \in open : \A k \in open : load(l) <= load(k)}
  IN  IF open = {} THEN 0 ELSE FirstOf(least)

FindAvailableLink(u, standby) ==
  IF scheme = "ROUND_ROBIN" THEN (u.h.inServiceLink + 1) % NUM_LINKS
  ELSE LeastLoaded(u, standby)

Served(u, link) ==
  IF scheme = "ROUND_ROBIN" THEN [u EXCEPT !.h.inServiceLink = link] ELSE u

\* Mutant of Try: the state of the link is not looked at.
TryAny(u, standby) ==
  LET link == FindAvailableLink(u, standby)
      v    == Served(u, link)
  IN  IF u.sent THEN u
      ELSE IF Fits(u, link)
           THEN [Count(Send(v, link), Head(u.h.downBuffers)) EXCEPT !.sent = TRUE]
           ELSE v

\* A try to find a link for the first transaction; there is one for each link.
Try(u, standby) ==
  LET link == FindAvailableLink(u, standby)
      v    == Served(u, link)
      n    == Head(u.h.downBuffers)
  IN  CASE u.sent -> u
        [] ~u.sent /\ u.h.state[link] = "ACTIVE" /\ Fits(u, link) ->
             [Count(Send(v, link), n) EXCEPT !.sent = TRUE]
        [] OTHER -> v

Downstream(u, standby) ==
  IF u.h.bufPopDelay > 0 \/ u.h.downBuffers = <<>> THEN u
  ELSE IF Dependencies(u) # {} THEN SendDependent(u, LastOf(Dependencies(u)))
  ELSE Repeat(LAMBDA v, i : Try(v, standby), u, NUM_LINKS)

(* Upstream: callbacks, and the response is gone. *)
Upstream(u) ==
  IF u.h.upBuffers = <<>> THEN u
  ELSE [u EXCEPT !.h.returnTransCnt = (@ - 1) % COUNT_MAX,
                 !.h.answered = Append(@, Head(u.h.upBuffers)),
                 !.h.upBuffers = Tail(@)]

\* LinkPowerStateManager: at the end of an epoch the traffic says how many links
\* shall sleep, at most all but one (the code is written for four and says 3).
LinkPowerStateManager(u, sleepLink) ==
  IF policy = "EPOCH" THEN [u EXCEPT !.h.sleepLink = sleepLink] ELSE u
-----------------------------------------------------------------------------
(* LinkPowerEntryManager *)
Settled(u, l) == u.h.Buffers[l] = <<>> /\ l \notin unsettled

Quiet(u, l) == GoTo(u, l, "WAIT")

StartSleeping(u, l) ==
  Arm(Arm(GoTo(u, l, "TRANSITION_TO_SLEEP"), <<"staggerSleep", 0>>), <<"modeTransition", l>>)

FallAsleep(u, l) ==
  IF <<"modeTransition", l>> \in u.due THEN GoTo(u, l, "SLEEP") ELSE u

QuiesceLink(v, l, lastActive) ==
  LET state == v.h.state[l]
      lastExit == \A k \in Link \ {l} : v.h.state[k] \in {"SLEEP", "TRANSITION_TO_SLEEP"}
  IN  CASE /\ state = "ACTIVE" /\ Settled(v, l) /\ <<"calm", l>> \in v.due
           /\ (~lastActive \/ v.h.returnTransCnt = 0) -> Quiet(v, l)
        [] state = "CONFIRM" /\ <<"staggerSleep", 0>> \in v.due /\ ~lastExit ->
             StartSleeping(v, l)
        [] state = "CONFIRM" /\ <<"staggerSleep", 0>> \in v.due /\ lastExit ->
             Arm(GoTo(v, l, "TRANSITION_TO_DOWN"), <<"modeTransition", l>>)
        [] state = "TRANSITION_TO_SLEEP" -> FallAsleep(v, l)
        [] state = "TRANSITION_TO_DOWN" /\ <<"modeTransition", l>> \in v.due ->
             [v EXCEPT !.h.state = [k \in Link |-> "DOWN"]]
        [] OTHER -> v

Quiesce(u) ==
  LET lastActive == Cardinality(LinksIn(u, {"ACTIVE"})) = 1
  IN  Repeat(LAMBDA v, l : QuiesceLink(v, l, lastActive), u, NUM_LINKS)

\* The loop runs from the last link (the code says 3) down.
SleepLink(v, i) ==
  LET l == NUM_LINKS - 1 - i
      state == v.h.state[l]
  IN  CASE state = "ACTIVE" /\ Settled(v, l) /\ <<"calm", l>> \in v.due -> Quiet(v, l)
        [] state = "CONFIRM" /\ <<"staggerSleep", 0>> \in v.due -> StartSleeping(v, l)
        [] state = "TRANSITION_TO_SLEEP" -> FallAsleep(v, l)
        [] OTHER -> v

SleepAsTold(u) == Repeat(SleepLink, u, u.h.sleepLink)

LinkPowerEntryManager(u) ==
  CASE policy = "NO_MANAGEMENT" -> u
    [] policy = "QUIESCE_SLEEP" -> Quiesce(u)
    [] policy = "EPOCH" -> SleepAsTold(u)

\* DualVectorObject::Step
Step(u) == [u EXCEPT !.h.bufPopDelay = IF @ > 0 THEN @ - 1 ELSE 0]
-----------------------------------------------------------------------------
Init ==
  /\ h = [downBuffers |-> <<>>, bufPopDelay |-> 0, inServiceLink |-> -1,
          Buffers |-> [l \in Link |-> <<>>], state |-> [l \in Link |-> "ACTIVE"],
          upBuffers |-> <<>>, returnTransCnt |-> 0, sleepLink |-> 0, answered |-> <<>>]
  /\ policy \in LINK_POWER /\ scheme \in LINK_PRIORITY
  /\ unsettled = {} /\ memory = {} /\ arrived = <<>> /\ cycle = 0 /\ uncounted = {}

\* ReceiveDown: the system hands over a transaction.
ReceiveTran ==
  /\ Len(arrived) < MaxTransactions
  /\ Len(h.downBuffers) < MAX_REQ_BUF
  /\ \E t \in Transactions : arrived' = Append(arrived, t)
  /\ h' = [h EXCEPT !.downBuffers = Append(@, Len(arrived')),
                    !.bufPopDelay = IF h.downBuffers = <<>> /\ @ = 0 THEN 1 ELSE @]
  /\ UNCHANGED <<policy, scheme, unsettled, memory, cycle, uncounted>>

\* The FLITs that may be in the linkRxTx of a link; with a full buffer or more of
\* them BUFFER_AWARE passes over the link, so more need not be told apart.
Standby == IF scheme = "BUFFER_AWARE" THEN 0 .. MAX_LINK_BUF ELSE {0}

Update ==
  \E due \in SUBSET Timers(h.state), sleepLink \in 0 .. NUM_LINKS - 1,
     standby \in [Link -> Standby] :
    LET start == [h |-> h, due |-> due, uncounted |-> uncounted, sent |-> FALSE]
        moved == Upstream(Downstream(LinkPowerExitManager(start), standby))
        end   == Step(LinkPowerEntryManager(LinkPowerStateManager(moved, sleepLink)))
        calm  == due = Timers(h.state) /\ \A l \in Link : standby[l] = 0
    IN  /\ policy # "EPOCH" => sleepLink = 0
        /\ h' = end.h /\ uncounted' = end.uncounted
        /\ cycle' = IF calm THEN 1 - cycle ELSE cycle
        /\ UNCHANGED <<policy, scheme, unsettled, memory, arrived>>

\* Mutant of LinkSend: only links that are ACTIVE send.
LinkSendActive(l) ==
  /\ h.Buffers[l] # <<>> /\ h.state[l] = "ACTIVE"
  /\ LET n == Head(h.Buffers[l])
     IN  memory' = IF n # 0 /\ Wants(arrived[n]) THEN memory \cup {n} ELSE memory
  /\ h' = [h EXCEPT !.Buffers[l] = Tail(@)]
  /\ unsettled' = unsettled \cup {l}
  /\ UNCHANGED <<policy, scheme, arrived, cycle, uncounted>>

\* LinkMaster::Update sends the first packet, whatever currentState is.
LinkSend(l) ==
  /\ h.Buffers[l] # <<>>
  /\ LET n == Head(h.Buffers[l])
     IN  memory' = IF n # 0 /\ Wants(arrived[n]) THEN memory \cup {n} ELSE memory
  /\ h' = [h EXCEPT !.Buffers[l] = Tail(@)]
  /\ unsettled' = unsettled \cup {l}
  /\ UNCHANGED <<policy, scheme, arrived, cycle, uncounted>>

LinkSettles(l) ==
  /\ l \in unsettled
  /\ unsettled' = unsettled \ {l}
  /\ UNCHANGED <<h, policy, scheme, memory, arrived, cycle, uncounted>>

\* The cube answers through a link whose other end is awake.  The tokens of the
\* response go back with the first packet that waits or, if there is none or the
\* link's own tokens are out and do not pay for it, in a TRET put before all
\* others, full as the buffer may be.  (Behind the first packet while that one is
\* under CRC: it cannot be paid for and be under CRC unless it is a TRET, too.)
Respond(n, l) ==
  /\ n \in memory
  /\ h.state[l] \in {"ACTIVE", "WAIT"}
  /\ UpFlits(h.upBuffers) + ResponseLNG(n) <= MAX_LINK_BUF
  /\ memory' = memory \ {n}
  /\ \E tret \in BOOLEAN :
       /\ h.Buffers[l] = <<>> => tret
       /\ tret => h.Buffers[l] = <<>> \/ l \in unsettled
       /\ h' = [h EXCEPT !.upBuffers = Append(@, n),
                         !.Buffers[l] = IF tret THEN <<0>> \o @ ELSE @]
  /\ UNCHANGED <<policy, scheme, unsettled, arrived, cycle, uncounted>>

\* The other end has nothing left to send and answers the QUIET packet.
QuietAnswered(l) ==
  /\ h.state[l] = "WAIT" /\ 0 \notin ToSet(h.Buffers[l])
  /\ h' = [h EXCEPT !.state[l] = "CONFIRM"]
  /\ UNCHANGED <<policy, scheme, unsettled, memory, arrived, cycle, uncounted>>

\* A NULL packet of the other end.  It answers tRESP1 (1 ms) after the link began
\* to wake: a transition to down mode, tSD (150 us), is over by then.
NullArrives(l) ==
  /\ h.state[l] \in {"RETRAIN1", "RETRAIN2"}
  /\ \A k \in Link : h.state[k] # "TRANSITION_TO_DOWN"
  /\ h' = [h EXCEPT !.state[l] = IF @ = "RETRAIN1" THEN "RETRAIN2" ELSE "ACTIVE"]
  /\ UNCHANGED <<policy, scheme, unsettled, memory, arrived, cycle, uncounted>>

Next ==
  \/ ReceiveTran
  \/ Update
  \/ \E l \in Link : LinkSend(l) \/ LinkSettles(l) \/ QuietAnswered(l) \/ NullArrives(l)
  \/ \E n \in Number, l \in Link : Respond(n, l)

Spec == Init /\ [][Next]_vars

\* The clock runs, and timers run out: they are set when a link changes its state
\* and by traffic, so again and again all of them have.  A linkRxTx empties: while no
\* transaction leaves, the buffers of the links run dry.  The links carry packets,
\* acknowledge them and finish their handshakes (ChannelLive of LinkLayer), and
\* the cube answers while a link takes the answer (ServiceLive of Crossbar).
FairSpec ==
  /\ Spec
  /\ WF_cycle(cycle' = 1 - cycle)
  /\ \A l \in Link :
       /\ WF_vars(LinkSend(l)) /\ WF_vars(LinkSettles(l))
       /\ WF_vars(QuietAnswered(l)) /\ WF_vars(NullArrives(l))
  /\ WF_vars(\E n \in Number, l \in Link : Respond(n, l))
-----------------------------------------------------------------------------
\* Requests that the cube still has to answer, or whose answer is on its way.
Outstanding ==
  {n \in memory \cup ToSet(h.upBuffers) \cup UNION {ToSet(h.Buffers[l]) : l \in Link} :
     n # 0 /\ Wants(arrived[n])}

\* Type correctness; the requests in a buffer keep its limit.  TRETs do not: the
\* code inserts them without a look at the limit, so they come on top.
TypeOK ==
  /\ h.downBuffers \in Seq(DOMAIN arrived) /\ Len(h.downBuffers) <= MAX_REQ_BUF
  /\ h.bufPopDelay \in {0, 1}
  /\ h.inServiceLink \in Link \cup {-1}
  /\ h.Buffers \in [Link -> Seq({0} \cup DOMAIN arrived)]
  /\ \A l \in Link : Flits(h.Buffers[l]) <= MAX_LINK_BUF + Trets(h.Buffers[l])
  /\ h.state \in [Link -> LinkState]
  /\ h.upBuffers \in Seq(DOMAIN arrived) /\ UpFlits(h.upBuffers) <= MAX_LINK_BUF
  /\ h.returnTransCnt \in 0 .. COUNT_MAX - 1
  /\ h.sleepLink \in 0 .. NUM_LINKS - 1
  /\ h.answered \in Seq(DOMAIN arrived)
  /\ policy \in LINK_POWER /\ scheme \in LINK_PRIORITY /\ unsettled \subseteq Link
  /\ {memory, uncounted} \subseteq SUBSET DOMAIN arrived
  /\ arrived \in Seq(Transactions) /\ cycle \in {0, 1}

\* Waiting packets of one block are all in one link master, behind each other.
\* Block 0 is an exception: a TRET has its address, so the check may find one in
\* another link than the request that came first.
BlockOnOneLink ==
  \A l, k \in Link : \A n \in ToSet(h.Buffers[l]), m \in ToSet(h.Buffers[k]) :
    BlockOf(n) = BlockOf(m) /\ BlockOf(n) # 0 => l = k

\* No request waits for a link that is asleep or on its way there, although a
\* dependent request is sent without a look at currentState.  Again a TRET may
\* lead a request of block 0 astray.
NoRequestAsleep ==
  \A l \in Link : \A n \in ToSet(h.Buffers[l]) :
    h.state[l] = "ACTIVE" \/ BlockOf(n) = 0

\* What returnTransCnt counts: outstanding requests, less the dependent requests
\* that were or will be answered without having been counted.  It is unsigned and
\* below zero when those have been answered.
CountDrift ==
  h.returnTransCnt =
    (Cardinality(Outstanding \ uncounted)
       - Cardinality(ToSet(h.answered) \cap uncounted)) % COUNT_MAX

\* Every transaction is answered at most once and only when it wants an answer.
Service == INSTANCE MemoryService WITH Requests <- Transactions,
                                       MaxRequests <- MaxTransactions,
                                       answered <- h.answered
ServiceKept == Service!Spec

\* Whatever the links do, no transaction waits in the controller for ever.
RequestsLeave == []<>(h.downBuffers = <<>>)

\* With no power management, and while the epochs decide (the first links never
\* sleep), every request is answered in the end, however many links fall asleep
\* and wake up between a request and its answer.
AnswersReturn == []<>(policy # "QUIESCE_SLEEP" => Outstanding = {})

\* "In order to prevent from blocking response packet to HMC controller"
\* (HMCController.cpp:363): while a response is to come, some link is awake or
\* being woken up.
ResponsePath ==
  Outstanding # {} => \E l \in Link : h.state[l] \in {"ACTIVE", "WAIT"} \cup Waking
=============================================================================
