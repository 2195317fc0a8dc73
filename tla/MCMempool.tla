----------------------------- MODULE MCMempool -----------------------------
(* A small instance of module Mempool. *)
EXTENDS Mempool

CONSTANTS n0, n1, n2

MCNode == {n0, n1, n2}

\* The pools of n1 and n2 hand out a batch each.
MCBatches == [n \in MCNode |-> IF n = n0 THEN 0 ELSE 1]

\* n1 makes a block of the payloads, of which n0 may lack both, and n0 one of
\* those that have reached it.
TwoBlocks == [proposer : {n0, n1}, epoch : {0}]

\* The answers of n1 to n0 may cease.
MCBreakable == {<<n1, n0>>}

\* Action constraint: n0 waits for a payload to propose.
QueueFirst ==
    \A b \in Block :
        b.proposer = n0 /\ payloads'[b] # payloads[b] => Queue[n0] # {}

=============================================================================
