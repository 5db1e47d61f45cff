--------------------------- MODULE PacketChannel ---------------------------
(***************************************************************************)
(* What a link promises to the layer above it, in each direction: packets  *)
(* submitted at one end come out at the other, each at most once, in the   *)
(* order of submission when Ordered, and all of them in the end.  Packets  *)
(* are numbered by their submission.  LinkLayer and LinkCycle are shown to *)
(* implement this.                                                         *)
(***************************************************************************)
EXTENDS Naturals, Sequences, Functions

CONSTANTS
  End,      \* the two ends
  Peer(_),  \* the end opposite an end
  Load,     \* Load[e]: how many packets are ever submitted at end e
  Ordered   \* whether the order of submission is kept

VARIABLES
  sent,      \* sent[e]: how many packets were submitted at end e
  delivered  \* delivered[e]: numbers of the packets that came out at end e

vars == <<sent, delivered>>

Init ==
  /\ sent = [e \in End |-> 0]
  /\ delivered = [e \in End |-> <<>>]

Submit(e) ==
  /\ sent[e] < Load[e]
  /\ sent' = [sent EXCEPT ![e] = @ + 1]
  /\ UNCHANGED delivered

Deliver(e) ==
  /\ \E n \in (1 .. sent[Peer(e)]) \ Range(delivered[e]) :
       /\ Ordered => n = Len(delivered[e]) + 1
       /\ delivered' = [delivered EXCEPT ![e] = Append(@, n)]
  /\ UNCHANGED sent

Next == \E e \in End : Submit(e) \/ Deliver(e)

Spec == Init /\ [][Next]_vars

FairSpec == Spec /\ \A e \in End : WF_vars(Deliver(e))
=============================================================================
