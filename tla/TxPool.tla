------------------------------- MODULE TxPool -------------------------------
(***************************************************************************)
(* The transaction pool of one node (src/pool/pool.go): the transaction   *)
(* maker, the ring buffer with its goroutine, and the two consumers of    *)
(* the batches: generateBlocks, which ranges over BatchChannel, and the   *)
(* mempool goroutine, which calls GetBatch.                               *)
(*                                                                         *)
(* Transactions are numbered in the order in which they are made.  The    *)
(* goroutine of the buffer stops in make() while batchChannel is full;    *)
(* sending holds the batch it is about to send.                           *)
(***************************************************************************)
EXTENDS Integers, Sequences

CONSTANTS
    N, Id,          \* committee size and NodeID, for the batch numbers
    MaxQueueSize,   \* slots of the ring buffer
    BatchSize,
    TxCap,          \* capacity of txChannel
    BatchCap,       \* capacity of batchChannel
    MaxTx           \* bound: transactions made

ASSUME TxPoolAssumption ==
    /\ N \in Nat /\ Id \in Nat
    /\ MaxQueueSize \in Nat \ {0}
    /\ BatchSize \in Nat \ {0}
    /\ TxCap \in Nat /\ BatchCap \in Nat /\ MaxTx \in Nat

VARIABLES
    made,          \* transactions made so far
    txChannel,
    queue,         \* the ring buffer, 0 in a slot never written
    wind, rind,    \* the slot written next, the slot read last
    nums,          \* transactions in the buffer
    bcnt,          \* batches sent
    sending,       \* the batch make() is sending, if any
    batchChannel,
    getter,        \* GetBatch: "checked" between the test and the receive
    taken          \* history: the batches the consumers have taken

ringVars == <<queue, wind, rind, nums>>
poolVars == <<made, txChannel, ringVars, bcnt, sending, batchChannel, getter, taken>>

Slots == 0..(MaxQueueSize - 1)
Batch == [ID : Nat, Txs : [1..BatchSize -> Nat]]

PoolTypeOK ==
    /\ made \in Nat
    /\ txChannel \in Seq(Nat)
    /\ queue \in [Slots -> Nat]
    /\ wind \in Slots
    /\ rind \in Slots \cup {-1}
    /\ nums \in 0..(BatchSize - 1)
    /\ bcnt \in Nat
    /\ sending \in Seq(Batch) /\ Len(sending) \in {0, 1}
    /\ batchChannel \in Seq(Batch)
    /\ getter \in {"checked", "batch", "empty"}
    /\ taken \in Seq(Batch)

PoolInit ==
    /\ made = 0
    /\ txChannel = <<>>
    /\ queue = [s \in Slots |-> 0]
    /\ wind = 0
    /\ rind = -1
    /\ nums = 0
    /\ bcnt = 0
    /\ sending = <<>>
    /\ batchChannel = <<>>
    /\ getter = "empty"
    /\ taken = <<>>

\* txMaker.run puts a transaction on txChannel.
MakeTx ==
    /\ made < MaxTx
    /\ Len(txChannel) < TxCap
    /\ made' = made + 1
    /\ txChannel' = Append(txChannel, made + 1)
    /\ UNCHANGED <<ringVars, bcnt, sending, batchChannel, getter, taken>>

\* A variant of MakeDue that makes a batch one transaction late.
MakeDueLate(n) == n > BatchSize

\* The test of txQueue.run after a transaction has been put in.
MakeDue(n) == n >= BatchSize

\* A variant of Slot that reads from the slot before.
SlotBefore(i) == (rind + i + MaxQueueSize - 1) % MaxQueueSize

\* The slot of the i-th transaction make() reads.
Slot(i) == (rind + i) % MaxQueueSize

\* txQueue.make up to the send: BatchSize transactions are read from q.
make(q) ==
    /\ rind' = Slot(BatchSize)
    /\ nums' = nums + 1 - BatchSize
    /\ sending' = <<[ID |-> Id + N * bcnt,
                     Txs |-> [i \in 1..BatchSize |-> q[Slot(i)]]]>>

\* One turn of txQueue.run: a full buffer drops the transaction.
Enqueue ==
    /\ sending = <<>>
    /\ txChannel # <<>>
    /\ txChannel' = Tail(txChannel)
    /\ IF wind = rind
       THEN UNCHANGED <<ringVars, sending>>
       ELSE /\ queue' = [queue EXCEPT ![wind] = Head(txChannel)]
            /\ wind' = (wind + 1) % MaxQueueSize
            /\ IF MakeDue(nums + 1)
               THEN make(queue')
               ELSE nums' = nums + 1 /\ UNCHANGED <<rind, sending>>
    /\ UNCHANGED <<made, bcnt, batchChannel, getter, taken>>

\* The send at the end of make(), and its deferred bcnt++.
SendBatch ==
    /\ sending # <<>>
    /\ Len(batchChannel) < BatchCap
    /\ batchChannel' = batchChannel \o sending
    /\ sending' = <<>>
    /\ bcnt' = bcnt + 1
    /\ UNCHANGED <<made, txChannel, ringVars, getter, taken>>

\* A consumer receives from batchChannel.
Take ==
    /\ batchChannel # <<>>
    /\ taken' = Append(taken, Head(batchChannel))
    /\ batchChannel' = Tail(batchChannel)
    /\ UNCHANGED <<made, txChannel, ringVars, bcnt, sending>>

\* txQueue.get tests the length of batchChannel ...
GetCheck ==
    /\ getter # "checked"
    /\ getter' = IF Len(batchChannel) > 0 THEN "checked" ELSE "empty"
    /\ UNCHANGED <<made, txChannel, ringVars, bcnt, sending, batchChannel, taken>>

\* A variant of GetReceive that leaves the last batch to generateBlocks.
GetReceiveNotLast ==
    /\ getter = "checked"
    /\ Len(batchChannel) > 1
    /\ Take
    /\ getter' = "batch"

\* ... and then receives; generateBlocks may have taken the batch in between,
\* and the mempool goroutine waits for the next one.
GetReceive ==
    /\ getter = "checked"
    /\ Take
    /\ getter' = "batch"

\* Mempool.generateBlocks takes a batch.
Generate == Take /\ UNCHANGED getter

PoolNext == MakeTx \/ Enqueue \/ SendBatch \/ GetCheck \/ GetReceive \/ Generate

PoolSpec == PoolInit /\ [][PoolNext]_poolVars

\* The maker and the goroutine of the buffer run.  A receiver that waits on a
\* Go channel is served before later ones, so GetBatch is not passed over for
\* ever; nothing is assumed of generateBlocks, which mempoolCh can hold up.
PoolFairSpec ==
    /\ PoolSpec
    /\ WF_poolVars(MakeTx)
    /\ WF_poolVars(Enqueue)
    /\ WF_poolVars(SendBatch)
    /\ SF_poolVars(GetReceive)

-----------------------------------------------------------------------------

\* Transactions that have left the buffer in batches.
Batched == BatchSize * (bcnt + Len(sending))

\* The buffer never fills up, so "Transaction pool is full" drops nothing, and
\* between the indices are the transactions not yet batched, in order, also
\* after the indices have wrapped around and while make() waits in its send.
BufferInOrder ==
    /\ wind # rind
    /\ wind = (rind + nums + 1) % MaxQueueSize
    /\ \A i \in 1..nums : queue[Slot(i)] = Batched + i

\* The consumers together take the stream of batches: no transaction is lost,
\* doubled or out of order, although two goroutines receive from the channel.
Stream == INSTANCE BatchStream
ImplementsStream == Stream!Spec

\* A GetBatch that has seen a batch returns, even if generateBlocks takes that
\* batch first; only when no transactions are left does it wait for ever.
GetReturns ==
    getter = "checked" ~> getter # "checked" \/ Len(taken) = MaxTx \div BatchSize

=============================================================================
