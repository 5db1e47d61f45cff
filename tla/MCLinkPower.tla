------------------------------ MODULE MCLinkPower ------------------------------
EXTENDS LinkPower
\* The shipped quarter-width link at 12.5 Gb/s: a FLIT takes 2.56 ns, more than the
\* 1 ns between two updates.  Other links may take it down twice.
ShippedLink == {[flits |-> 1, interrupts |-> 2]}

\* A full-width link at 30 Gb/s delivers 3.75 FLITs in the 1 ns of a CPU cycle.
FullWidthLink == {[flits |-> 4, interrupts |-> 0]}
=============================================================================
