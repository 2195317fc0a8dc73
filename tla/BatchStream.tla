----------------------------- MODULE BatchStream -----------------------------
(***************************************************************************)
(* What the transaction pool promises its consumers: the transactions of  *)
(* the node, in order and none left out, in batches of BatchSize with the *)
(* numbers Id, Id + N, Id + 2N, ...  Whoever takes a batch, by GetBatch   *)
(* or from BatchChannel, takes the next one.                              *)
(***************************************************************************)
EXTENDS Integers, Sequences

CONSTANTS N, Id, BatchSize

VARIABLE taken  \* the batches taken so far

\* The k-th batch, counted from 0.  Transactions are numbered from 1.
StreamBatch(k) ==
    [ID |-> Id + N * k, Txs |-> [i \in 1..BatchSize |-> BatchSize * k + i]]

Init == taken = <<>>

Take == taken' = Append(taken, StreamBatch(Len(taken)))

Spec == Init /\ [][Take]_taken

=============================================================================
