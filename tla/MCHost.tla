-------------------------------- MODULE MCHost --------------------------------
(***************************************************************************)
(* Transactions, schemes and policies for TLC.  Block 0 is the one that a  *)
(* TRET is taken for; MSHR, LINK_MONITOR and AUTONOMOUS are all "EPOCH".   *)
(***************************************************************************)
EXTENDS HostController

MCTransaction(op, block) == [op |-> op, block |-> block]

MCTransactions ==
  {MCTransaction("READ", 0), MCTransaction("READ", 1), MCTransaction("POSTED", 1)}

MCSchemes == {"ROUND_ROBIN", "BUFFER_AWARE"}

MCPolicies == {"NO_MANAGEMENT", "QUIESCE_SLEEP", "EPOCH"}
=============================================================================
