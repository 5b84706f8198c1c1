------------------------------- MODULE Walks -------------------------------
(***************************************************************************)
(* The loops of the code that follow one pointer after another - along a   *)
(* hash chain, up the parents of an entry - and the closures that the      *)
(* properties speak of: a start and functions that are applied one after   *)
(* the other, n times at most.                                             *)
(***************************************************************************)
EXTENDS Naturals, Sequences

\* Where the walk is after 0, 1, ..., n steps, when F[i] is the i-th of them, and
\* when all of them are F.
Along(F, a, n) ==
    LET at[i \in 0 .. n] == IF i = 0 THEN a ELSE F[i][at[i - 1]] IN at
Walk(F, a, n) == Along([i \in 1 .. n |-> F], a, n)

\* What G says of the first n places of such a walk, one behind the other.
Gathered(F, G, a, n) ==
    LET from[i \in 0 .. n] ==
          [x \in DOMAIN F |-> IF i = 0 THEN <<>> ELSE G[x] \o from[i - 1][F[x]]]
    IN  from[n][a]
=============================================================================
