----------------------------- MODULE LinkCycle -----------------------------
(***************************************************************************)
(* The link driven the way the simulator drives it: CasHMCWrapper::Update, *)
(* once per CPU cycle, calls the objects of one link in a fixed order.     *)
(* The links and the cube have clocks of their own: two counters for each, *)
(* the CPU cycles and the updates since the two clocks last met, decide    *)
(* how many updates fall into a CPU cycle.  This module adds the position  *)
(* in the order and these counters to LinkLayer and restricts which action *)
(* may come next; every behaviour is one of LinkLayer.                     *)
(*                                                                         *)
(* The periods are integers, multiples of some unit of time; the code has  *)
(* doubles, whose rounding is left out.                                    *)
(***************************************************************************)
EXTENDS LinkLayer

CONSTANTS
  CPU_CLK_PERIOD, linkPeriod, tCK,  \* clock periods of CPU, links and cube
  Refusals  \* bound on how often a slave's destination refuses

\* The constructor ends the program when a link is slower than the CPU.
ASSUME CycleConstants ==
  /\ {CPU_CLK_PERIOD, linkPeriod, tCK} \subseteq Nat \ {0}
  /\ linkPeriod <= CPU_CLK_PERIOD
  /\ Refusals \in Nat

VARIABLES
  turn,     \* the call that comes next in this cycle
  tuner,    \* of each clock: CPU cycles (tuner) and updates (clock) since it met
            \* the CPU clock, both counted from one
  refused   \* how many hand-overs were refused so far

cvars == <<vars, turn, tuner, refused>>

\* The calls: hmcCont->Update, downLinkMasters, DownLinkUpdate, hmc->Update (its
\* downLinkSlaves, crossbar and upLinkMasters), UpLinkUpdate, upLinkSlaves.
Call == {"controller", "hostMaster", "downLink", "cubeSlave",
         "crossbar", "cubeMaster", "upLink", "hostSlave"}

\* downLinkTuner and downLinkClock, upLinkTuner and upLinkClock, dramTuner and
\* hmc->clockTuner.
Clock == {"downLink", "upLink", "cube"}
Period(k) == IF k = "cube" THEN tCK ELSE linkPeriod
Counts == [tuner : Nat, clock : Nat]

Met == [tuner |-> 0, clock |-> 0]
Tick(n) == [n EXCEPT !.clock = @ + 1]

\* Mutant of Again: the update that ends together with the CPU cycle is left out.
AgainWithin(k) == CPU_CLK_PERIOD * tuner[k].tuner > Period(k) * (tuner[k].clock + 1)

\* A clock that is not slower than the CPU: is the update that comes next not yet
\* the last one of this CPU cycle?
Again(k) == CPU_CLK_PERIOD * tuner[k].tuner >= Period(k) * (tuner[k].clock + 1)

\* What that update leaves: when the two clocks meet both counts start anew.
Faster(k) ==
  LET n == tuner[k]
  IN  IF CPU_CLK_PERIOD * n.tuner = Period(k) * (n.clock + 1) THEN Met ELSE Tick(n)

\* A cube that is slower: does it update in this CPU cycle?
SlowCube == CPU_CLK_PERIOD <= tCK
CubeDue == CPU_CLK_PERIOD * tuner["cube"].tuner >= tCK * tuner["cube"].clock

\* And the counts after it.
Slower ==
  LET n == tuner["cube"]
  IN  Tick(IF CPU_CLK_PERIOD * n.tuner = tCK * n.clock THEN Met ELSE n)

CInit ==
  /\ Init
  /\ turn = "controller" /\ refused = 0
  /\ tuner = [k \in Clock |-> [tuner |-> 1, clock |-> 1]]

Pass(call, next) == turn = call /\ turn' = next /\ UNCHANGED tuner
Update(k, n) == tuner' = [tuner EXCEPT ![k] = n]

\* The upper layer hands nothing over.
Idle == Running /\ UNCHANGED vars

\* In its turn a slave hands over its first packet unless it is refused.
SlaveTurn(e) ==
  /\ SlaveUpdate(e)
  /\ \/ /\ delivered' # delivered \/ ls'[e].Buffers = <<>>
        /\ refused' = refused
     \/ /\ delivered' = delivered /\ ls'[e].Buffers # <<>>
        /\ refused < Refusals
        /\ refused' = refused + 1

\* DownLinkUpdate and UpLinkUpdate; lastUpdate marks the last one of a CPU cycle.
LinkTurn(k, e, next) ==
  /\ turn = k
  /\ \/ /\ Again(k)
        /\ LinkUpdate(e, FALSE) /\ Update(k, Faster(k)) /\ turn' = k
     \/ /\ ~Again(k)
        /\ LinkUpdate(e, TRUE) /\ Update(k, Tick(tuner[k])) /\ turn' = next
  /\ UNCHANGED refused

\* hmc->Update, in the parts that concern the link; it ends with clockTuner++.
CubeSkips ==
  /\ SlowCube /\ ~CubeDue
  /\ Pass("cubeSlave", "upLink") /\ Idle /\ UNCHANGED refused

CubeSlaveTurn ==
  /\ SlowCube => CubeDue
  /\ Pass("cubeSlave", "crossbar") /\ SlaveTurn("cube")

CubeMasterTurn ==
  /\ turn = "cubeMaster" /\ MasterUpdate("cube") /\ UNCHANGED refused
  /\ \/ SlowCube /\ Update("cube", Slower) /\ turn' = "upLink"
     \/ ~SlowCube /\ Again("cube") /\ Update("cube", Faster("cube")) /\ turn' = "cubeSlave"
     \/ ~SlowCube /\ ~Again("cube") /\ Update("cube", Tick(tuner["cube"])) /\ turn' = "upLink"

\* The last call of a cycle; then all clocks count the CPU cycle.
HostSlaveTurn ==
  /\ turn = "hostSlave" /\ SlaveTurn("host") /\ turn' = "controller"
  /\ tuner' = [k \in Clock |-> [tuner[k] EXCEPT !.tuner = @ + 1]]

\* The controller hands over at most one packet per update, the crossbar as
\* many as it has.
CNext ==
  \/ Pass("controller", "hostMaster") /\ (Submit("host") \/ Idle) /\ UNCHANGED refused
  \/ Pass("hostMaster", "downLink") /\ MasterUpdate("host") /\ UNCHANGED refused
  \/ LinkTurn("downLink", "host", "cubeSlave")
  \/ CubeSkips
  \/ CubeSlaveTurn
  \/ Pass("crossbar", "crossbar") /\ Submit("cube") /\ UNCHANGED refused
  \/ Pass("crossbar", "cubeMaster") /\ Idle /\ UNCHANGED refused
  \/ CubeMasterTurn
  \/ LinkTurn("upLink", "cube", "hostSlave")
  \/ HostSlaveTurn

CSpec == CInit /\ [][CNext]_cvars

\* The simulator goes on to the next call as long as it runs.
CFairSpec == CSpec /\ WF_cvars(CNext)

-----------------------------------------------------------------------------
(* Properties *)

\* Where the updates of a clock are made, and the calls of a cycle before them.
Serving(k) == IF k = "cube" THEN {"cubeSlave", "crossbar", "cubeMaster"} ELSE {k}

Waiting(k) ==
  {"controller", "hostMaster"}
    \cup (IF k = "downLink" THEN {} ELSE {"downLink"})
    \cup (IF k = "upLink" THEN Serving("cube") ELSE {})

\* CPU cycles since clock k met the CPU clock, this one included once it is served.
Passed(k) == IF turn \in Waiting(k) THEN tuner[k].tuner - 1 ELSE tuner[k].tuner

\* The right time: as many updates since the clocks met as periods fit into the
\* CPU cycles that passed.
InStep(k) ==
  /\ Period(k) * (tuner[k].clock - 1) <= CPU_CLK_PERIOD * Passed(k)
  /\ CPU_CLK_PERIOD * Passed(k) < Period(k) * tuner[k].clock

\* Before and after its updates in a CPU cycle every clock shows the right time.
\* No ratio of the periods makes a clock lag, run ahead or lose an update when
\* its counts start anew.
ClocksInStep == \A k \in Clock : turn \notin Serving(k) => InStep(k)

\* Every packet submitted at one end comes out at the other in the end: no
\* mutual wait for tokens, retry-ring room or acknowledgements.
ChannelLive == Channel!FairSpec

\* "When local link slave detects an error, StartRetry sequence is initiated"
\* (LinkMaster.cpp:166): without noise no master is asked for a retry.  The slave's
\* loop passes a packet whose CRC is not ready and checks the next one first.
RetryOnlyAfterNoise == noise = 0 => \A e \in End : lm[e].currentState # "START_RETRY"

\* "Extracted FRP is transmitted to the opposite side of the link"
\* (LinkMaster.cpp:84): once a packet came out, its sender may free the copy in
\* the retry ring in the end.
AcksReturn ==
  \A e \in End : \A n \in 1 .. Len(Workload[e]) :
    n \in Range(delivered[Peer(e)])
      ~> \A s \in Ptr : lm[e].retryBuffers[s] # NULL =>
                          lm[e].retryBuffers[s].id # n
=============================================================================
