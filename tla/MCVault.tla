------------------------------- MODULE MCVault -------------------------------
(***************************************************************************)
(* Timing parameters and requests for TLC.                                 *)
(***************************************************************************)
EXTENDS Vault

\* Short times that keep the proportions of the shipped ones.
MCShort ==
  [CWL |-> 1, CL |-> 2, AL |-> 0, tRAS |-> 3, tRCD |-> 2, tRRD |-> 1, tRC |-> 5,
   tRP |-> 2, tCCD |-> 2, tRTP |-> 3, tWTR |-> 1, tWR |-> 1, tRFC |-> 8,
   tFAW |-> 4, tCKE |-> 2, tXP |-> 2, tCMD |-> 1]

\* ConfigDRAM.ini: the times in cycles of 0.8 ns.
MCShipped ==
  [CWL |-> 4, CL |-> 13, AL |-> 0, tRAS |-> 27, tRCD |-> 13, tRRD |-> 4, tRC |-> 40,
   tRP |-> 10, tCCD |-> 4, tRTP |-> 7, tWTR |-> 7, tWR |-> 10, tRFC |-> 74,
   tFAW |-> 24, tCKE |-> 5, tXP |-> 4, tCMD |-> 1]

MCRequest(op, size, bank, row) == [op |-> op, size |-> size, bank |-> bank, row |-> row]

\* A write and an atomic request that want different rows of one bank, and a
\* read of another bank.
MCThree ==
  {MCRequest("WRITE", 2, 0, 1), MCRequest("ATOMIC_R", 1, 0, 2), MCRequest("READ", 4, 1, 1)}

\* And a read of the row that is written, and the other atomic requests that write.
MCMixed ==
  MCThree \cup {MCRequest("READ", 2, 0, 1), MCRequest("ATOMIC_W", 1, 0, 2),
                MCRequest("P_ATOMIC", 1, 0, 1)}

\* EQ reads, and writes nothing back.
MCEqual == {MCRequest("EQ", 1, 1, 1)}
MCAll == MCMixed \cup MCEqual

MCLongRead == {MCRequest("READ", 4, 0, 1)}
MCReadWrite == {MCRequest("READ", 2, 0, 1), MCRequest("WRITE", 2, 0, 1)}
MCTwoBanks == {MCRequest("READ", 2, 0, 1), MCRequest("WRITE", 2, 1, 1)}
=============================================================================
