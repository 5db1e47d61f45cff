------------------------------ MODULE MCCache -------------------------------
(***************************************************************************)
(* Blocks for TLC: lines of 4 bytes, two banks of two rows and one way.    *)
(* Blocks 16, 32 and 48 compete for a line of bank 0, block 8 is of bank 1.*)
(* With unsigned numbers up to 15 the lookup by address finds for all of   *)
(* the former the transaction of request 0.                                *)
(***************************************************************************)
EXTENDS Cache

MCAddresses == {16, 32, 48, 8}

\* Garbage that makes new requests be dropped, and garbage that lets them join.
MCGarbage == {"INVALID__CACHE_CHECK", "VALID__CACHE_CHECK"}

=============================================================================
