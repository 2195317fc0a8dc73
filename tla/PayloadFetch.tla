---------------------------- MODULE PayloadFetch ----------------------------
(***************************************************************************)
(* What a node's core relies on when it asks its mempool for the payloads *)
(* of a block: after an answer Wait the block is looped back, and only    *)
(* when all its payloads are there.  Module Core takes these steps on its *)
(* variables missing and pending; module Mempool is shown to implement    *)
(* them.                                                                  *)
(***************************************************************************)
CONSTANTS Node, Block

VARIABLES
    missing,  \* missing[n]: blocks whose payloads node n does not have
    owed      \* owed[n]: blocks answered with Wait and not looped back since

vars == <<missing, owed>>

Init ==
    /\ missing = [n \in Node |-> Block]
    /\ owed = [n \in Node |-> {}]

Verify(n, b) ==
    /\ b \in missing[n]
    /\ owed' = [owed EXCEPT ![n] = @ \cup {b}]
    /\ UNCHANGED missing

Arrive ==
    /\ missing' \in [Node -> SUBSET Block]
    /\ \A n \in Node : missing'[n] \subseteq missing[n]
    /\ UNCHANGED owed

LoopBack(n, b) ==
    /\ b \in owed[n] \ missing[n]
    /\ owed' = [owed EXCEPT ![n] = @ \ {b}]
    /\ UNCHANGED missing

Next == Arrive \/ \E n \in Node, b \in Block : Verify(n, b) \/ LoopBack(n, b)

Spec == Init /\ [][Next]_vars

=============================================================================
