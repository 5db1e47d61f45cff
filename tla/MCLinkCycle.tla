---------------------------- MODULE MCLinkCycle ----------------------------
(***************************************************************************)
(* Workloads for TLC: lengths of the packets submitted at the two ends.    *)
(***************************************************************************)
EXTENDS LinkCycle

MCPairs == [host |-> <<2, 1>>, cube |-> <<1, 2>>]
MCOne == [host |-> <<2, 1>>, cube |-> <<1>>]

\* Long packets upstream, so that acknowledgements of the short ones wait.
MCLong == [host |-> <<1, 1, 1>>, cube |-> <<4, 2>>]

\* Packets of half a retry ring, as 17 FLITs are for the shipped 32 slots.
MCHalfRing == [host |-> <<2, 2>>, cube |-> <<2, 2>>]

\* A response of 64 bytes, whose CRC is ready a cycle later, and a short one behind it.
MCLongShort == [host |-> <<>>, cube |-> <<5, 1>>]
=============================================================================
