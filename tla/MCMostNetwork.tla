--------------------------- MODULE MCMostNetwork ----------------------------
(* Two values on one node each, or both on one node. *)
EXTENDS MostNetwork

TwoNodes   == [i \in Values |-> i + 1]
TwoKeys    == [i \in Values |-> IF i = 0 THEN "master" ELSE "left"]
OkOrFailed == {0, -1}
=============================================================================
