----------------------------- MODULE MCServices -----------------------------
(* A small instance of module Services. *)
EXTENDS Services

CONSTANTS n0, n1, n2

MCNode == {n0, n1, n2}

\* n0 sends, enough to fill what is in front of a node that does not read.
MCSent == [n \in MCNode |-> IF n = n0 THEN 4 ELSE 0]

=============================================================================
