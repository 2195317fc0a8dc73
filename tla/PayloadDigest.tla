--------------------------- MODULE PayloadDigest ---------------------------
(***************************************************************************)
(* The digest of a payload (Block.Hash in src/mempool/message.go), which  *)
(* module Mempool takes for its name.  Hashed are the proposer and the    *)
(* batch ID in base 2, one right after the other, and the transactions.   *)
(* txMaker makes all transactions equal, and so are those of any two      *)
(* batches: the digest is the digits of the two numbers.  SHA-256 is      *)
(* taken to be injective.  The empty payload, with ID -1, is left out: no *)
(* other one has a minus sign among its digits.                           *)
(***************************************************************************)
EXTENDS Naturals, Sequences

CONSTANTS
    N,          \* the size of the committee
    MaxBatches  \* bound: batches of one node

VARIABLE bcnt  \* bcnt[p]: the batches node p has made a payload of

NodeID == 0..(N - 1)

\* strconv.AppendInt(nil, i, 2)
AppendInt[i \in Nat] ==
    IF i < 2 THEN <<i>> ELSE Append(AppendInt[i \div 2], i % 2)

\* A variant of BatchID that numbers the batches of each node from 0.
BatchIDOwn(p, k) == k

\* txQueue.make
BatchID(p, k) == p + N * k

Hash(p, id) == AppendInt[p] \o AppendInt[id]

\* generateBlocks: node p makes a payload of its next batch.
NewBlock(p) ==
    /\ bcnt[p] < MaxBatches
    /\ bcnt' = [bcnt EXCEPT ![p] = @ + 1]

Init == bcnt = [p \in NodeID |-> 0]

Next == \E p \in NodeID : NewBlock(p)

Spec == Init /\ [][Next]_bcnt

\* The payloads made so far have different digests: HandleOthorBlock, which
\* discards a payload when its digest is in the store, discards none it has
\* not received before.
DistinctDigests ==
    \A p, q \in NodeID : \A j \in 0..(bcnt[p] - 1), k \in 0..(bcnt[q] - 1) :
        Hash(p, BatchID(p, j)) = Hash(q, BatchID(q, k)) => p = q /\ j = k

=============================================================================
