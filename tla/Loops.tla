-------------------------------- MODULE Loops --------------------------------
(***************************************************************************)
(* The for loops of the code, as recursive functions (LoopProofs has the   *)
(* rule by which something is proved of them), and what is counted in a    *)
(* queue (QueueProofs).                                                    *)
(***************************************************************************)
EXTENDS Integers, Sequences, FiniteSets

\* for (i = 0; i < n; i++) x = Body(x, i), with x = start before.
Repeat(Body(_, _), start, n) ==
  LET run[i \in 0 .. n] == IF i = 0 THEN start ELSE Body(run[i - 1], i - 1)
  IN  run[n]

\* The sum of a sequence of numbers.
Total(q) == Repeat(LAMBDA sum, i : sum + q[i + 1], 0, Len(q))

\* How often a is in the queue q.
Occurrences(q, a) == Cardinality({i \in DOMAIN q : q[i] = a})
=============================================================================
