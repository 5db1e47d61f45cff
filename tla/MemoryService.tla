---------------------------- MODULE MemoryService ----------------------------
(***************************************************************************)
(* What a memory promises to those who use it: a request is answered at    *)
(* most once and never unasked, and every request that wants an answer is  *)
(* answered in the end, in any order.                                      *)
(***************************************************************************)
EXTENDS Naturals, Sequences, Functions

CONSTANTS
  Requests,    \* the requests that may be made
  Wants(_),    \* does the request want an answer?
  MaxRequests  \* bound on the number of requests

VARIABLES
  arrived,   \* the requests made so far
  answered   \* numbers of the requests answered, in that order

vars == <<arrived, answered>>

Init == arrived = <<>> /\ answered = <<>>

Ask ==
  /\ Len(arrived) < MaxRequests
  /\ \E r \in Requests : arrived' = Append(arrived, r)
  /\ UNCHANGED answered

Open == {n \in DOMAIN arrived : Wants(arrived[n])} \ Range(answered)

Answer ==
  /\ \E n \in Open : answered' = Append(answered, n)
  /\ UNCHANGED arrived

Next == Ask \/ Answer

Spec == Init /\ [][Next]_vars

FairSpec == Spec /\ WF_vars(Answer)
=============================================================================
