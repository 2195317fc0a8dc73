------------------------------ MODULE Mempool ------------------------------
(***************************************************************************)
(* The mempools of the nodes (src/mempool): payloads are made from the    *)
(* batches of the transaction pool, broadcast, queued and put into        *)
(* consensus blocks; the synchronizer of a node fetches the payloads of a *)
(* block it lacks and reports the block to the core.                      *)
(*                                                                         *)
(* A payload is named by its author and batch ID, which stand for its     *)
(* digest.  One goroutine handles a node's messages and requests, so a    *)
(* handler is one step; the synchronizer and a waiter for each block run  *)
(* beside it.  A missing list is the set of the positions of its payloads *)
(* in the block, taken in increasing order.                               *)
(*                                                                         *)
(* The network is a set: messages of one link may overtake each other,    *)
(* which the real one does not do, and equal messages of one link in      *)
(* flight count once.  Node holds the nodes whose Mempool.Run goes past   *)
(* the test for faulty nodes; the others take no step at all.             *)
(***************************************************************************)
EXTENDS Integers, Sequences, FiniteSets

CONSTANTS
    Node,
    Block,           \* bound: the blocks made, each with proposer and epoch
    Batches,         \* bound: Batches[n] batches come from the pool of n
    MaxQueenSize,    \* Parameters.MaxQueenSize
    MaxPayloadSize,  \* Parameters.MaxPayloadSize
    Verifier,        \* bound: the nodes whose core receives blocks of others
    InterCap,        \* bound: fetch requests waiting on interChan (1000)
    Breakable,       \* bound: the links whose connections may break
    MaxFaults        \* bound: messages lost and connections broken

ASSUME MempoolAssumption ==
    /\ Block \subseteq [proposer : Node, epoch : Nat]
    /\ Batches \in [Node -> Nat]
    /\ MaxQueenSize \in Nat \ {0}
    /\ MaxPayloadSize \in Nat
    /\ Verifier \subseteq Node
    /\ InterCap \in Nat
    /\ Breakable \subseteq Node \X Node
    /\ MaxFaults \in Nat

VARIABLES
    db,         \* db[n]: the payloads in the store of n
    Queue,      \* Mempool.Queue
    batch,      \* batch[n]: batches taken from the pool of n
    own,        \* own[n]: IDs of the OwnBlockMsgs on mempoolCh
    payloads,   \* payloads[b]: ConsensusBlock.PayLoads, <<>> if not made
    net,        \* messages between the nodes
    broken,     \* links <<m, n>> whose connection has broken
    lost,       \* messages lost
    interChan,  \* Synchronizer.interChan
    pending,    \* pending[n][b]: the missing list of a pending block, or {}
    left,       \* left[n][b]: what the waiter of b has still to wait for
    owed        \* owed[n]: blocks answered with Wait and not looped back since

poolVars == <<db, Queue, batch, own, payloads>>
netVars  == <<net, broken, lost>>
syncVars == <<interChan, pending, left, owed>>
vars     == <<poolVars, netVars, syncVars>>

Payload == [proposer : Node, id : Int]
Index   == SUBSET (Nat \ {0})

Message ==
    [type : {"other"}, from : Node, to : Node, payload : Payload]
    \cup [type : {"request"}, from : Node, to : Node, block : Block, digests : Index]

\* The types of the variables, and the limit on the length of the queue.
TypeOK ==
    /\ db \in [Node -> SUBSET Payload]
    /\ Queue \in [Node -> SUBSET Payload]
    /\ \A n \in Node : IsFiniteSet(Queue[n]) /\ Cardinality(Queue[n]) <= MaxQueenSize
    /\ batch \in [Node -> Nat]
    /\ own \in [Node -> Seq(Int)]
    /\ payloads \in [Block -> Seq(Payload)]
    /\ net \subseteq Message
    /\ broken \subseteq Node \X Node
    /\ lost \in Nat
    /\ interChan \in [Node -> Seq([block : Block, missing : Index])]
    /\ pending \in [Node -> [Block -> Index]]
    /\ left \in [Node -> [Block -> Index]]
    /\ owed \in [Node -> SUBSET Block]

Init ==
    /\ db = [n \in Node |-> {}]
    /\ Queue = [n \in Node |-> {}]
    /\ batch = [n \in Node |-> 0]
    /\ own = [n \in Node |-> <<>>]
    /\ payloads = [b \in Block |-> <<>>]
    /\ net = {}
    /\ broken = {}
    /\ lost = 0
    /\ interChan = [n \in Node |-> <<>>]
    /\ pending = [n \in Node |-> [b \in Block |-> {}]]
    /\ left = [n \in Node |-> [b \in Block |-> {}]]
    /\ owed = [n \in Node |-> {}]

-----------------------------------------------------------------------------
(* Messages. *)

NewBlock(n, id) == [proposer |-> n, id |-> id]

Others(n) == Node \ {n}

OtherBlockMsg(n, to, p) ==
    {[type |-> "other", from |-> n, to |-> m, payload |-> p] : m \in to}

RequestBlockMsg(n, to, b, digests) ==
    {[type |-> "request", from |-> n, to |-> m, block |-> b, digests |-> digests] : m \in to}

\* MempoolSend and the network: what goes to a broken connection is dropped.
MempoolSend(msgs) == {msg \in msgs : <<msg.from, msg.to>> \notin broken}

\* The next message to node n, of the given type.
Receive(n, msg, type) == msg \in net /\ msg.to = n /\ msg.type = type

-----------------------------------------------------------------------------
(* Making payloads and blocks. *)

\* generateBlocks: a batch from the pool becomes an OwnBlockMsg.  (A pool hands
\* empty batches to GetBatch only.)
generateBlocks(n) ==
    /\ batch[n] < Batches[n]
    /\ batch' = [batch EXCEPT ![n] = @ + 1]
    /\ own' = [own EXCEPT ![n] = Append(@, batch[n] + 1)]
    /\ UNCHANGED <<db, Queue, payloads, netVars, syncVars>>

\* A variant of Full that lets one payload more in.
FullLate(n) == Cardinality(Queue[n]) > MaxQueenSize

Full(n) == Cardinality(Queue[n]) >= MaxQueenSize

\* payloadProcess, with room in the queue: store and broadcast.
payloadProcess(n, p) ==
    /\ db' = [db EXCEPT ![n] = @ \cup {p}]
    /\ net' = net \cup MempoolSend(OtherBlockMsg(n, Others(n), p))

\* With a full queue the payload is dropped.
HandleOwnBlock(n) ==
    LET p == NewBlock(n, Head(own[n])) IN
    /\ own[n] # <<>>
    /\ own' = [own EXCEPT ![n] = Tail(@)]
    /\ IF Full(n)
       THEN UNCHANGED <<db, Queue, net>>
       ELSE /\ payloadProcess(n, p)
            /\ Queue' = [Queue EXCEPT ![n] = @ \cup {p}]
    /\ UNCHANGED <<batch, payloads, broken, lost, syncVars>>

\* The payloads HandleMakeBlockMsg may take from the queue, in some order:
\* MaxPayloadSize of them (0 is no limit), or all.
Taken(n) ==
    LET all == Cardinality(Queue[n])
        k == IF MaxPayloadSize \in 1..all THEN MaxPayloadSize ELSE all
    IN {s \in [1..k -> Queue[n]] : \A i, j \in 1..k : s[i] = s[j] => i = j}

\* The queue after HandleMakeBlockMsg has taken the payloads of s.
Removed(n, s) == Queue[n] \ {s[i] : i \in DOMAIN s}

\* The core makes its blocks in the order of their epochs.
NextBlock(b) ==
    /\ payloads[b] = <<>>
    /\ \A c \in Block : c.proposer = b.proposer /\ c.epoch > b.epoch => payloads[c] = <<>>

\* HandleMakeBlockMsg on an empty queue: a payload from the pool, the empty
\* one (ID -1) if it has none; it is not queued.
MakeFromPool(n, b, id) ==
    /\ b.proposer = n /\ NextBlock(b)
    /\ Queue[n] = {}
    /\ batch' = [batch EXCEPT ![n] = IF id = -1 THEN @ ELSE id]
    /\ payloadProcess(n, NewBlock(n, id))
    /\ payloads' = [payloads EXCEPT ![b] = <<NewBlock(n, id)>>]
    /\ UNCHANGED <<Queue, own, broken, lost, syncVars>>

MakeFromQueue(n, b, s) ==
    /\ b.proposer = n /\ NextBlock(b)
    /\ Queue[n] # {}
    /\ payloads' = [payloads EXCEPT ![b] = s]
    /\ Queue' = [Queue EXCEPT ![n] = Removed(n, s)]
    /\ UNCHANGED <<db, batch, own, netVars, syncVars>>

HandleMakeBlockMsg(n) ==
    \E b \in Block :
        \/ MakeFromPool(n, b, -1)
        \/ batch[n] < Batches[n] /\ MakeFromPool(n, b, batch[n] + 1)
        \/ \E s \in Taken(n) : MakeFromQueue(n, b, s)

-----------------------------------------------------------------------------
(* Messages of other mempools. *)

\* A variant of Known that looks at the queue instead of the store.
KnownQueued(n, p) == p \in Queue[n]

\* HandleOthorBlock's GetBlock test.
Known(n, p) == p \in db[n]

HandleOthorBlock(n, msg) ==
    LET p == msg.payload IN
    /\ Receive(n, msg, "other")
    /\ net' = net \ {msg}
    /\ IF Full(n) \/ Known(n, p)
       THEN UNCHANGED <<db, Queue>>
       ELSE /\ db' = [db EXCEPT ![n] = @ \cup {p}]
            /\ Queue' = [Queue EXCEPT ![n] = @ \cup {p}]
    /\ UNCHANGED <<batch, own, payloads, broken, lost, syncVars>>

\* HandleRequestBlock answers up to the first payload it does not have.
Answered(n, b, digests) ==
    {payloads[b][i] : i \in {j \in digests :
        \A k \in digests : k <= j => payloads[b][k] \in db[n]}}

HandleRequestBlock(n, msg) ==
    /\ Receive(n, msg, "request")
    /\ net' = (net \ {msg}) \cup
              MempoolSend(UNION {OtherBlockMsg(n, {msg.from}, p) :
                                    p \in Answered(n, msg.block, msg.digests)})
    /\ UNCHANGED <<poolVars, broken, lost, syncVars>>

\* The network may fail once more.
MayFail == lost + Cardinality(broken) < MaxFaults

\* The network loses a message: a dial fails, or its connection breaks first.
Lose(msg) ==
    /\ msg \in net
    /\ MayFail
    /\ net' = net \ {msg}
    /\ lost' = lost + 1
    /\ UNCHANGED <<poolVars, broken, syncVars>>

\* A connection breaks; the sender keeps it and never dials again.
Break(m, n) ==
    /\ <<m, n>> \in Breakable \ broken
    /\ MayFail
    /\ broken' = broken \cup {<<m, n>>}
    /\ UNCHANGED <<poolVars, net, lost, syncVars>>

-----------------------------------------------------------------------------
(* The synchronizer. *)

\* The payloads of block b that node n lacks.
Missing(n, b) == {i \in DOMAIN payloads[b] : payloads[b][i] \notin db[n]}

\* Synchronizer.Verify for a block the core has received, with the answer Wait;
\* the answer OK changes nothing.
Verify(n, b) ==
    /\ n \in Verifier
    /\ payloads[b] # <<>>
    /\ Missing(n, b) # {}
    /\ Len(interChan[n]) < InterCap
    /\ interChan' = [interChan EXCEPT ![n] =
                        Append(@, [block |-> b, missing |-> Missing(n, b)])]
    /\ owed' = [owed EXCEPT ![n] = @ \cup {b}]
    /\ UNCHANGED <<poolVars, netVars, pending, left>>

\* A variant of SyncBlock that has nothing to do for a block completed meanwhile.
SyncLate(n) ==
    LET req == Head(interChan[n])
        b == req.block
    IN
    /\ interChan[n] # <<>>
    /\ interChan' = [interChan EXCEPT ![n] = Tail(@)]
    /\ IF pending[n][b] # {} \/ Missing(n, b) = {}
       THEN UNCHANGED <<pending, left, net>>
       ELSE /\ pending' = [pending EXCEPT ![n][b] = req.missing]
            /\ left' = [left EXCEPT ![n][b] = req.missing]
            /\ net' = net \cup MempoolSend(RequestBlockMsg(n, {b.proposer}, b, req.missing))
    /\ UNCHANGED <<poolVars, broken, lost, owed>>

\* Run, a SyncBlockMsg: nothing if the block is pending, else a waiter starts
\* and the block's proposer is asked.
SyncBlock(n) ==
    LET req == Head(interChan[n])
        b == req.block
    IN
    /\ interChan[n] # <<>>
    /\ interChan' = [interChan EXCEPT ![n] = Tail(@)]
    /\ IF pending[n][b] # {}
       THEN UNCHANGED <<pending, left, net>>
       ELSE /\ pending' = [pending EXCEPT ![n][b] = req.missing]
            /\ left' = [left EXCEPT ![n][b] = req.missing]
            /\ net' = net \cup MempoolSend(RequestBlockMsg(n, {b.proposer}, b, req.missing))
    /\ UNCHANGED <<poolVars, broken, lost, owed>>

\* A variant of waiter that is done with the first payload.
waiterFirst(n, b) ==
    /\ left[n][b] # {}
    /\ \E i \in left[n][b] : payloads[b][i] \in db[n]
    /\ left' = [left EXCEPT ![n][b] = {}]
    /\ UNCHANGED <<poolVars, netVars, interChan, pending, owed>>

\* waiter: NotifyRead of the first payload still to wait for returns.
waiter(n, b) ==
    \E i \in left[n][b] :
        /\ \A j \in left[n][b] : i <= j
        /\ payloads[b][i] \in db[n]
        /\ left' = [left EXCEPT ![n][b] = @ \ {i}]
        /\ UNCHANGED <<poolVars, netVars, interChan, pending, owed>>

\* Run, a block from a waiter that is done.
LoopBack(n, b) ==
    /\ pending[n][b] # {} /\ left[n][b] = {}
    /\ pending' = [pending EXCEPT ![n][b] = {}]
    /\ owed' = [owed EXCEPT ![n] = @ \ {b}]
    /\ UNCHANGED <<poolVars, netVars, interChan, left>>

\* A variant of Asked for a retry that asks the proposer only.
AskedProposer(n, b) == {b.proposer}

\* Whom a retry asks.
Asked(n, b) == Others(n)

\* Run, a tick: the blocks of late have not been asked for long enough.  All
\* other nodes are asked for all that was missing at first.
Retry(n, late) ==
    /\ late # {}
    /\ \A b \in late : pending[n][b] # {}
    /\ net' = net \cup MempoolSend(UNION {RequestBlockMsg(n, Asked(n, b), b, pending[n][b]) :
                                             b \in late})
    /\ UNCHANGED <<poolVars, broken, lost, syncVars>>

-----------------------------------------------------------------------------

Handle(n, msg) == HandleOthorBlock(n, msg) \/ HandleRequestBlock(n, msg)

Next ==
    \/ \E n \in Node :
          \/ generateBlocks(n)
          \/ HandleOwnBlock(n)
          \/ HandleMakeBlockMsg(n)
          \/ \E msg \in net : Handle(n, msg)
          \/ SyncBlock(n)
          \/ \E b \in Block : Verify(n, b) \/ waiter(n, b) \/ LoopBack(n, b)
          \/ \E late \in SUBSET Block : Retry(n, late)
          \/ \E m \in Node : Break(m, n)
    \/ \E msg \in net : Lose(msg)

Spec == Init /\ [][Next]_vars

\* The goroutines of the mempools run, payloads that come are handled, requests
\* for a block are, and the ticker fires for a block as long as it is pending.
\* Nothing obliges the core to make or verify blocks, the pool to fill, or the
\* network to lose anything.
FairSpec ==
    /\ Spec
    /\ WF_vars(\E n \in Node : \/ HandleOwnBlock(n) \/ SyncBlock(n)
                               \/ \E b \in Block : waiter(n, b) \/ LoopBack(n, b))
    /\ WF_vars(\E n \in Node, msg \in net : /\ msg.type = "other" /\ ~Known(n, msg.payload)
                                            /\ HandleOthorBlock(n, msg))
    /\ \A n \in Node, b \in Block :
          /\ WF_vars(\E msg \in net : /\ msg.type = "request" /\ msg.block = b
                                      /\ HandleRequestBlock(n, msg))
          /\ WF_vars(\E late \in SUBSET Block : b \in late /\ Retry(n, late))

-----------------------------------------------------------------------------

Complete(n, b) == payloads[b] # <<>> /\ Missing(n, b) = {}

\* The core's view: what Core assumes of its mempool.
Fetch == INSTANCE PayloadFetch WITH
            missing <- [n \in Node |-> {b \in Block : ~Complete(n, b)}]

\* Loss, retries, several answers and several Verify calls for a block included,
\* the mempool takes only the steps Core relies on: a block that was answered
\* with Wait stays owed until it is looped back with all its payloads there.
ImplementsFetch == Fetch!Spec

\* A block answered with Wait is never forgotten: it waits on interChan or is
\* pending, although Run skips a request for a block that is pending then, and
\* may loop that block back between the answer and the request's turn.
WaitWatched ==
    \A n \in Node : \A b \in owed[n] :
        \/ pending[n][b] # {}
        \/ \E i \in 1..Len(interChan[n]) : interChan[n][i].block = b

\* A waiter that is done has all payloads of its block, also those that were
\* there when Verify looked and are not on its list.
DoneIsComplete ==
    \A n \in Node, b \in Block : pending[n][b] # {} /\ left[n][b] = {} => Complete(n, b)

\* A node proposes a payload once (but for the empty one): what it has taken
\* from its queue does not come back, whoever sends it again.
ProposedOnce ==
    \A b \in Block : \A i \in DOMAIN payloads[b] :
        LET p == payloads[b][i] IN
        /\ p \notin Queue[b.proposer]
        /\ \A c \in Block : \A j \in DOMAIN payloads[c] :
              c.proposer = b.proposer /\ c # b /\ payloads[c][j] = p => p.id = -1

\* Node m answers a request of node n for block b completely.
Supplies(m, n, b) ==
    /\ m # n /\ <<n, m>> \notin broken /\ <<m, n>> \notin broken
    /\ \A i \in pending[n][b] : payloads[b][i] \in db[m]

\* A block answered with Wait is looped back, unless the node's queue is full
\* again and again (a full queue also turns away what was asked for), or no
\* node with all the payloads asked for is reachable (two that have half of
\* them each do not do: an answer stops at the first payload missing).
WaitLoopedBack ==
    \A n \in Verifier, b \in Block :
        \/ []<>Full(n)
        \/ []<>(pending[n][b] # {} /\ ~\E m \in Node : Supplies(m, n, b))
        \/ (b \in owed[n] ~> b \notin owed[n])

=============================================================================
