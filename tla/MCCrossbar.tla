----------------------------- MODULE MCCrossbar -----------------------------
(***************************************************************************)
(* Requests for TLC: within a block, of one and a half and of two blocks.  *)
(***************************************************************************)
EXTENDS Crossbar

MCRequest(op, size, adrs) == [op |-> op, size |-> size, adrs |-> adrs]

MCRequests ==
  {MCRequest("READ", 2, 0), MCRequest("READ", 3, 1), MCRequest("WRITE", 4, 0)}
MCSchemes == {"ROUND_ROBIN", "BUFFER_AWARE"}
MCAwake == {1}
=============================================================================
