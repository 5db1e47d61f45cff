------------------------------- MODULE LinkPower -------------------------------
(***************************************************************************)
(* How the two ends of one link fall asleep and wake up together: QUIET    *)
(* and NULL packets of LinkMaster and LinkSlave, and what the power        *)
(* managers of HMCController do with the link.                             *)
(*                                                                         *)
(* lm[e] and ls[e] are the master and the slave of end e, "host" or        *)
(* "cube".  lm.out is linkRxTx of the master and the packet in flight,     *)
(* ls.in is linkRxTx of the slave.  Of the link protocol there is what the *)
(* condition for sleep reads: packets not acknowledged (retBufReadP #      *)
(* retBufWriteP) and tokens that are out; acknowledgements travel in PRET  *)
(* packets and tokens in TRET packets, also where they could ride on a     *)
(* packet that waits.  Errors are left out.                                *)
(*                                                                         *)
(* A transition timer, 400 ns at least, runs longer than a link needs to   *)
(* deliver the NULL packets that a master sends at once (32 at 2.6 ns).    *)
(***************************************************************************)
EXTENDS Integers, Sequences, SequencesExt

CONSTANTS
  NUM_NULL,    \* NULL packets after retraining (32)
  Links,       \* the links to consider: flits, the packets one delivers between two
               \* updates of a slave, and a bound on interrupts
  MaxRequests  \* bound on the requests

VARIABLES
  lm,         \* the two masters
  ls,         \* the two slaves
  memory,     \* requests the cube has to answer
  submitted,  \* requests so far
  interrupts, \* times another link took this one down
  link,       \* the member of Links considered
  turn        \* the end whose slave is next to make a full update

vars == <<lm, ls, memory, submitted, interrupts, link, turn>>

ASSUME PowerConstants ==
  /\ NUM_NULL \in Nat \ {0} /\ MaxRequests \in Nat
  /\ Links \subseteq [flits : Nat \ {0}, interrupts : Nat]

End == {"host", "cube"}
Other(e) == IF e = "host" THEN "cube" ELSE "host"

Kind == {"NULL", "QUIET", "PRET", "TRET", "DATA"}
\* The host believes that the link is not in use.
HostAsleep == {"CONFIRM", "TRANSITION_TO_SLEEP", "SLEEP",
               "TRANSITION_TO_DOWN", "DOWN", "TRANSITION_TO_RETRAIN"}
Retraining == {"RETRAIN1", "RETRAIN2"}
MasterState == {"ACTIVE", "WAIT"} \cup HostAsleep \cup Retraining

OnTheWay(kinds) ==
  \E e \in End : \E p \in ToSet(lm[e].out) \cup ToSet(ls[e].in) : p \in kinds
Flushed == ~OnTheWay({"NULL", "QUIET"})

\* What both ends ask of their master before sleep.
Settled(m) == m.Buffers = <<>> /\ m.unacked = 0 /\ m.owed = 0
-----------------------------------------------------------------------------
(* LinkMaster *)
QuitePacket(m) == [m EXCEPT !.out = Append(@, "QUIET")]

FinishRetrain(m) ==
  [m EXCEPT !.state = "ACTIVE", !.out = @ \o [i \in 1 .. NUM_NULL |-> "NULL"]]

\* linkRxTx is empty.  The only packet of out may be in flight.
Idle(m, flying) == m.out = <<>> \/ (flying /\ Len(m.out) = 1)

\* Mutant of SendFirst: only while the master is ACTIVE.
SendFirstActive(m, flying) ==
  IF Idle(m, flying) /\ m.Buffers # <<>> /\ m.state = "ACTIVE"
  THEN [m EXCEPT !.out = Append(@, Head(m.Buffers)), !.Buffers = Tail(@), !.unacked = @ + 1,
                 !.owed = IF Head(m.Buffers) = "DATA" THEN @ + 1 ELSE @]
  ELSE m

\* Update: the first packet goes out when nothing else waits to.
SendFirst(m, flying) ==
  IF Idle(m, flying) /\ m.Buffers # <<>>
  THEN [m EXCEPT !.out = Append(@, Head(m.Buffers)), !.Buffers = Tail(@), !.unacked = @ + 1,
                 !.owed = IF Head(m.Buffers) = "DATA" THEN @ + 1 ELSE @]
  ELSE m

\* Update: one NULL packet in each state of retraining.
SendTraining(m, due) ==
  IF m.state \in Retraining /\ m.firstNull /\ due
  THEN [m EXCEPT !.out = Append(@, "NULL"), !.firstNull = FALSE]
  ELSE m

\* The timer retrainTransit is only used by the cube.
MasterUpdate(e) ==
  \E due, flying \in BOOLEAN :
    /\ (e = "cube" /\ due) => Flushed
    /\ e = "host" => due
    /\ lm' = [lm EXCEPT ![e] = SendTraining(SendFirst(@, flying), due)]
    /\ UNCHANGED <<ls, memory, submitted, interrupts, link, turn>>
-----------------------------------------------------------------------------
(* LinkSlave::Update.  The loop works on a record r: master m, state s and   *)
(* Buffers of the slave, packets kept, whether the next packet is skipped    *)
(* (erase at i, then i++) and whether the loop was left.                     *)
\* Mutant of Train: firstNull is not set again.
TrainOnce(m, state) == [m EXCEPT !.state = state]

Train(m, state) == [m EXCEPT !.state = state, !.firstNull = TRUE]

\* Mutant of NullArrives: the slave of the cube stays as it is.
NullWakesMaster(e, r) ==
  LET state == r.m.state
  IN  CASE e = "cube" /\ state = "SLEEP" -> [r EXCEPT !.m = Train(@, "RETRAIN1")]
        [] state = "RETRAIN1" -> [r EXCEPT !.m = Train(@, "RETRAIN2")]
        [] state = "RETRAIN2" -> [r EXCEPT !.m = FinishRetrain(@)]
        [] OTHER -> r

NullArrives(e, r) ==
  LET state == r.m.state
  IN  CASE e = "cube" /\ state = "SLEEP" -> [r EXCEPT !.m = Train(@, "RETRAIN1")]
        [] state = "RETRAIN1" -> [r EXCEPT !.m = Train(@, "RETRAIN2")]
        [] state = "RETRAIN2" -> [r EXCEPT !.m = FinishRetrain(@), !.s = "ACTIVE"]
        [] OTHER -> r

QuietArrives(r) ==
  IF r.m.state = "WAIT" THEN [r EXCEPT !.m.state = "CONFIRM"] ELSE [r EXCEPT !.s = "WAIT"]

\* A packet whose CRC is good.
PacketArrives(r, p) ==
  LET acked == [r EXCEPT !.m.out = Append(@, "PRET")]
  IN  IF p = "TRET" THEN [acked EXCEPT !.m.owed = @ - 1]
      ELSE [acked EXCEPT !.Buffers = @ + 1]

\* Packet p at the place the loop has come to.  crc: the CRC of the packet that
\* is being checked is ready; else the loop goes on to the next packet.
Examine(e, r, p, crc) ==
  CASE r.stop -> [r EXCEPT !.kept = Append(@, p)]
    [] ~r.stop /\ r.skip -> [r EXCEPT !.kept = Append(@, p), !.skip = FALSE]
    [] ~r.stop /\ ~r.skip /\ p = "NULL" -> [NullArrives(e, r) EXCEPT !.skip = TRUE]
    [] ~r.stop /\ ~r.skip /\ p = "PRET" -> [r EXCEPT !.m.unacked = @ - 1, !.stop = TRUE]
    [] ~r.stop /\ ~r.skip /\ p = "QUIET" -> [QuietArrives(r) EXCEPT !.stop = TRUE]
    [] ~r.stop /\ ~r.skip /\ p \in {"TRET", "DATA"} ->
         IF crc THEN [PacketArrives(r, p) EXCEPT !.stop = TRUE]
                ELSE [r EXCEPT !.kept = Append(@, p)]

\* Mutant of GoToSleep: tokens that are out are forgotten.
GoToSleepEarly(r) ==
  IF r.s = "WAIT" /\ r.m.Buffers = <<>> /\ r.m.unacked = 0
  THEN [r EXCEPT !.s = "SLEEP", !.m = QuitePacket([@ EXCEPT !.state = "SLEEP"])]
  ELSE r

\* The cube's answer to QUIET.
GoToSleep(r) ==
  IF r.s = "WAIT" /\ Settled(r.m)
  THEN [r EXCEPT !.s = "SLEEP", !.m = QuitePacket([@ EXCEPT !.state = "SLEEP"])]
  ELSE r

\* The first packet is taken by the crossbar or the controller; its tokens go back.
Forward(r) == [r EXCEPT !.Buffers = @ - 1, !.m.Buffers = <<"TRET">> \o @]

\* Packets that arrive before this update are examined in the next one.
\* A full update finds its CRC ready and takes and hands on all it can.
SlaveUpdate(e, crc, accept, arriving) ==
  LET start == [m |-> lm[e], s |-> ls[e].state, Buffers |-> ls[e].Buffers,
                kept |-> <<>>, skip |-> FALSE, stop |-> FALSE]
      seen  == GoToSleep(FoldLeft(LAMBDA r, p : Examine(e, r, p, crc), start, ls[e].in))
      taken == accept /\ seen.Buffers > 0
      end   == IF taken THEN Forward(seen) ELSE seen
      sent  == lm[Other(e)].out
      full  == crc /\ accept /\ arriving \in {Len(sent), link.flits}
  IN  /\ arriving <= Len(sent)
      /\ ls' = [ls EXCEPT ![e] = [state |-> end.s, Buffers |-> end.Buffers,
                                  in |-> end.kept \o SubSeq(sent, 1, arriving)]]
      /\ lm' = [lm EXCEPT ![e] = end.m,
                          ![Other(e)].out = SubSeq(sent, arriving + 1, Len(sent))]
      /\ memory' = IF taken /\ e = "cube" THEN memory + 1 ELSE memory
      /\ turn' = IF full /\ turn = e THEN Other(e) ELSE turn
      /\ UNCHANGED <<submitted, interrupts, link>>
-----------------------------------------------------------------------------
(* HMCController and its power managers *)
HostGoes(from, to) ==
  /\ lm["host"].state = from
  /\ lm' = [lm EXCEPT !["host"].state = to]

\* A request of the system; only links that are ACTIVE are given any.
Submit ==
  /\ submitted < MaxRequests
  /\ lm["host"].state = "ACTIVE"
  /\ lm' = [lm EXCEPT !["host"].Buffers = Append(@, "DATA")]
  /\ submitted' = submitted + 1
  /\ UNCHANGED <<ls, memory, interrupts, link, turn>>

\* The crossbar hands a response to a link that is ACTIVE.
Respond ==
  /\ memory > 0
  /\ lm["cube"].state = "ACTIVE"
  /\ lm' = [lm EXCEPT !["cube"].Buffers = Append(@, "DATA")]
  /\ memory' = memory - 1
  /\ UNCHANGED <<ls, submitted, interrupts, link, turn>>

Quiet ==
  /\ lm["host"].state = "ACTIVE"
  /\ Settled(lm["host"])
  /\ lm' = [lm EXCEPT !["host"] = QuitePacket([@ EXCEPT !.state = "WAIT"])]
  /\ UNCHANGED <<ls, memory, submitted, interrupts, link, turn>>

Confirmed ==
  /\ HostGoes("CONFIRM", "TRANSITION_TO_SLEEP") \/ HostGoes("CONFIRM", "TRANSITION_TO_DOWN")
  /\ UNCHANGED <<ls, memory, submitted, interrupts, link, turn>>

FallAsleep ==
  /\ Flushed
  /\ HostGoes("TRANSITION_TO_SLEEP", "SLEEP") \/ HostGoes("TRANSITION_TO_DOWN", "DOWN")
  /\ UNCHANGED <<ls, memory, submitted, interrupts, link, turn>>

StartWaking ==
  /\ HostGoes("SLEEP", "TRANSITION_TO_RETRAIN") \/ HostGoes("DOWN", "TRANSITION_TO_RETRAIN")
  /\ UNCHANGED <<ls, memory, submitted, interrupts, link, turn>>

EnterRetraining ==
  /\ Flushed
  /\ lm["host"].state = "TRANSITION_TO_RETRAIN"
  /\ lm' = [lm EXCEPT !["host"] = Train(@, "RETRAIN1")]
  /\ UNCHANGED <<ls, memory, submitted, interrupts, link, turn>>

\* Another link wakes up: links that are down are asleep from then on.
OtherWakes ==
  /\ HostGoes("DOWN", "SLEEP")
  /\ UNCHANGED <<ls, memory, submitted, interrupts, link, turn>>

\* The transition to down mode of another link ends, which sets every link DOWN:
\* one that sleeps, or has begun to wake up since.
OtherGoesDown ==
  /\ interrupts < link.interrupts
  /\ HostGoes("SLEEP", "DOWN") \/ HostGoes("TRANSITION_TO_RETRAIN", "DOWN")
       \/ HostGoes("RETRAIN1", "DOWN")
  /\ interrupts' = interrupts + 1
  /\ UNCHANGED <<ls, memory, submitted, link, turn>>

Init ==
  /\ lm = [e \in End |-> [state |-> "ACTIVE", firstNull |-> FALSE, out |-> <<>>,
                          Buffers |-> <<>>, unacked |-> 0, owed |-> 0]]
  /\ ls = [e \in End |-> [state |-> "ACTIVE", in |-> <<>>, Buffers |-> 0]]
  /\ memory = 0 /\ submitted = 0 /\ interrupts = 0
  /\ link \in Links /\ turn = "cube"

\* Otherwise there is no CRC to wait for and nothing to hand on.
Loaded(e) == ls[e].Buffers > 0 \/ \E p \in ToSet(ls[e].in) : p \in {"TRET", "DATA"}

Host ==
  \/ Submit \/ Quiet \/ Confirmed \/ FallAsleep \/ StartWaking
  \/ EnterRetraining \/ OtherWakes \/ OtherGoesDown

Next ==
  \/ Host \/ Respond
  \/ \E e \in End : MasterUpdate(e)
  \/ \E e \in End, arriving \in 0 .. link.flits :
       \E crc, accept \in IF Loaded(e) THEN BOOLEAN ELSE {TRUE} :
         SlaveUpdate(e, crc, accept, arriving)

Spec == Init /\ [][Next]_vars

\* The clocks run, links deliver, crossbar and controller accept (each slave makes
\* full updates for ever), and timers run out.
FairSpec ==
  /\ Spec
  /\ WF_turn(turn' = Other(turn))
  /\ \A e \in End : WF_vars(MasterUpdate(e))
  /\ WF_vars(EnterRetraining)
-----------------------------------------------------------------------------
\* Type correctness.
TypeOK ==
  /\ lm \in [End -> [state : MasterState, firstNull : BOOLEAN, out : Seq(Kind),
                     Buffers : Seq({"DATA", "TRET"}), unacked : Nat, owed : Nat]]
  /\ ls \in [End -> [state : {"ACTIVE", "WAIT", "SLEEP"}, in : Seq(Kind), Buffers : Nat]]
  /\ memory \in 0 .. MaxRequests
  /\ submitted \in 0 .. MaxRequests
  /\ interrupts \in 0 .. link.interrupts
  /\ link \in Links /\ turn \in End

\* From the answer to QUIET until it starts retraining the host relies on this:
\* the cube's end is not in use either, and nothing but NULL packets is under way.
\* A QUIET packet may overtake NULL packets, which then wake the cube's end up: not on
\* the shipped link, whose packets come one by one, but on a full-width one.
SleepIsShared ==
  lm["host"].state \in HostAsleep =>
    /\ lm["cube"].state # "ACTIVE"
    /\ \A e \in End : Settled(lm[e]) /\ ls[e].Buffers = 0
    /\ ~OnTheWay({"QUIET", "PRET", "TRET", "DATA"})

\* Once its NULL packets have arrived, a link that is awake is so at both ends.
WakeIsShared ==
  lm["host"].state = "ACTIVE" /\ ~OnTheWay({"NULL"}) =>
    lm["cube"].state = "ACTIVE" /\ ls["cube"].state = "ACTIVE"

\* Every retraining that is not cut off by another link ends.
RetrainingEnds ==
  []<>(lm["host"].state \notin Retraining \cup {"TRANSITION_TO_RETRAIN"})

\* Every QUIET packet is answered.
QuietAnswered == []<>(lm["host"].state # "WAIT")
=============================================================================
