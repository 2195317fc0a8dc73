----------------------------- MODULE OrderedLog -----------------------------
(***************************************************************************)
(* What a node's committor promises: an append-only log that holds one    *)
(* block for every epoch, in the order of the epochs.                     *)
(***************************************************************************)
EXTENDS Integers, Sequences

CONSTANT Block      \* records with a field epoch

VARIABLE committed  \* the blocks committed, the one of epoch 0 first

Init == committed = <<>>

Next ==
    \E b \in Block :
        /\ b.epoch = Len(committed)
        /\ committed' = Append(committed, b)

Spec == Init /\ [][Next]_committed

=============================================================================
