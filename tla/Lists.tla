-------------------------------- MODULE Lists --------------------------------
(* What Array.filter and Array.splice leave of a list, the elements at certain   *)
(* places in their order, and what flatMap and join make of a list of lists.     *)
EXTENDS Integers, Sequences, FiniteSets

\* How many of the places I are no later than i.
Rank(I, i) == Cardinality({j \in I : j <= i})

\* The k-th of the places I.
Nth(I, k) == CHOOSE i \in I : Rank(I, i) = k

Picked(s, I) == [k \in 1..Cardinality(I) |-> s[Nth(I, k)]]

Without(s, i) == Picked(s, DOMAIN s \ {i})

Joined(ss) == LET upTo[i \in 0..Len(ss)] == IF i = 0 THEN <<>> ELSE upTo[i - 1] \o ss[i]
              IN upTo[Len(ss)]
=============================================================================
