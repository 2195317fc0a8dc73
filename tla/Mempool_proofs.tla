--------------------------- MODULE Mempool_proofs ---------------------------
(***************************************************************************)
(* The safety of the mempools and their synchronizers, for every set of   *)
(* nodes and blocks, every queue length and any number of lost messages   *)
(* and broken connections.                                                *)
(***************************************************************************)
EXTENDS Mempool, FiniteSetTheorems, SequenceTheorems, TLAPS

Request == [block : Block, missing : Index]

\* A fetch request waits on interChan.
Waits(n, q) == \E i \in 1..Len(interChan[n]) : interChan[n][i] = q

\* The fetch requests name blocks that are made, and all payloads of the block
\* the node lacks.
Listed ==
    \A n \in Node, q \in Request :
        Waits(n, q) => /\ payloads[q.block] # <<>>
                       /\ q.missing # {}
                       /\ Missing(n, q.block) \subseteq q.missing

\* A waiter has all payloads before it that the node lacks.
Covered ==
    \A n \in Node, b \in Block :
        pending[n][b] # {} => payloads[b] # <<>> /\ Missing(n, b) \subseteq left[n][b]

\* WaitWatched, in terms of the fetch requests.
Watched ==
    \A n \in Node : \A b \in owed[n] :
        \/ pending[n][b] # {}
        \/ \E q \in Request : Waits(n, q) /\ q.block = b

SyncInv == Listed /\ Covered /\ Watched

IInv == TypeOK /\ SyncInv

-----------------------------------------------------------------------------

LEMMA InitInv == Init => IInv
  <1> SUFFICES ASSUME Init PROVE IInv
    OBVIOUS
  <1>1. TypeOK
    <2>1. \A n \in Node : IsFiniteSet(Queue[n]) /\ Cardinality(Queue[n]) <= MaxQueenSize
      BY FS_EmptySet, MempoolAssumption DEF Init
    <2> QED
      BY <2>1 DEF Init, TypeOK, Index
  <1>2. SyncInv
    BY DEF Init, SyncInv, Listed, Covered, Watched, Waits
  <1> QED
    BY <1>1, <1>2 DEF IInv

\* The messages of the handlers are messages, and only they are sent.
LEMMA MessageTypes ==
    ASSUME NEW n \in Node, NEW to \in SUBSET Node
    PROVE  /\ \A p \in Payload : OtherBlockMsg(n, to, p) \subseteq Message
           /\ \A b \in Block, d \in Index : RequestBlockMsg(n, to, b, d) \subseteq Message
  BY DEF OtherBlockMsg, RequestBlockMsg, Message

LEMMA SendSome == \A msgs : MempoolSend(msgs) \subseteq msgs
  BY DEF MempoolSend

\* What payloadProcess does to the types.
LEMMA ProcessTypes ==
    ASSUME TypeOK, NEW n \in Node, NEW p \in Payload, payloadProcess(n, p)
    PROVE  db' \in [Node -> SUBSET Payload] /\ net' \subseteq Message
  <1>1. db \in [Node -> SUBSET Payload] /\ net \subseteq Message
    BY DEF TypeOK
  <1>2. db' \in [Node -> SUBSET Payload]
    BY <1>1 DEF payloadProcess
  <1>3. OtherBlockMsg(n, Others(n), p) \subseteq Message
    BY ZenonT(60), MessageTypes DEF Others
  <1> QED
    BY <1>1, <1>2, <1>3, SendSome DEF payloadProcess

\* A payload that joins a queue with room leaves it within its limit.
LEMMA QueueTypes ==
    ASSUME TypeOK, NEW n \in Node, NEW p \in Payload, ~Full(n),
           Queue' = [Queue EXCEPT ![n] = @ \cup {p}]
    PROVE  /\ Queue' \in [Node -> SUBSET Payload]
           /\ \A m \in Node : IsFiniteSet(Queue'[m]) /\ Cardinality(Queue'[m]) <= MaxQueenSize
  <1>1. /\ Queue \in [Node -> SUBSET Payload]
        /\ \A m \in Node : IsFiniteSet(Queue[m]) /\ Cardinality(Queue[m]) <= MaxQueenSize
    BY DEF TypeOK
  <1>2. IsFiniteSet(Queue[n] \cup {p}) /\ Cardinality(Queue[n] \cup {p}) <= MaxQueenSize
    <2>1. Cardinality(Queue[n]) \in Nat /\ ~(Cardinality(Queue[n]) >= MaxQueenSize)
      BY <1>1, FS_CardinalityType DEF Full
    <2>2. /\ IsFiniteSet(Queue[n] \cup {p})
          /\ \/ Cardinality(Queue[n] \cup {p}) = Cardinality(Queue[n])
             \/ Cardinality(Queue[n] \cup {p}) = Cardinality(Queue[n]) + 1
      BY Zenon, <1>1, FS_AddElement
    <2> QED
      BY <2>1, <2>2, MempoolAssumption
  <1> QED
    BY <1>1, <1>2

\* The payloads taken from a queue are a sequence of them, none if it is empty.
LEMMA TakenTypes ==
    ASSUME TypeOK, NEW n \in Node, NEW s \in Taken(n)
    PROVE  /\ s \in Seq(Payload)
           /\ \A i \in DOMAIN s : s[i] \in Queue[n]
           /\ \A i, j \in DOMAIN s : s[i] = s[j] => i = j
  <1>1. IsFiniteSet(Queue[n]) /\ Queue[n] \subseteq Payload
    BY DEF TypeOK
  <1>2. PICK k \in Nat : /\ s \in [1..k -> Queue[n]]
                         /\ \A i, j \in 1..k : s[i] = s[j] => i = j
    BY <1>1, FS_CardinalityType, MempoolAssumption DEF Taken
  <1> QED
    BY <1>1, <1>2, SeqDef

-----------------------------------------------------------------------------
(* Type correctness, action by action. *)

LEMMA MakeTypes ==
    ASSUME TypeOK, NEW n \in Node, HandleMakeBlockMsg(n)
    PROVE  TypeOK'
  <1> USE DEF TypeOK
  <1>1. ASSUME NEW b \in Block, NEW id \in Int, id = -1 \/ id = batch[n] + 1,
               MakeFromPool(n, b, id)
        PROVE  TypeOK'
    <2>1. NewBlock(n, id) \in Payload /\ <<NewBlock(n, id)>> \in Seq(Payload)
      BY DEF NewBlock, Payload
    <2>2. db' \in [Node -> SUBSET Payload] /\ net' \subseteq Message
      BY Zenon, <1>1, <2>1, ProcessTypes DEF MakeFromPool
    <2>3. batch' \in [Node -> Nat] /\ payloads' \in [Block -> Seq(Payload)]
      BY <1>1, <2>1 DEF MakeFromPool
    <2> QED
      BY Zenon, <1>1, <2>2, <2>3 DEF MakeFromPool, syncVars
  <1>2. ASSUME NEW b \in Block, NEW s \in Taken(n), MakeFromQueue(n, b, s)
        PROVE  TypeOK'
    <2>1. s \in Seq(Payload)
      BY Zenon, TakenTypes
    <2>2. payloads' \in [Block -> Seq(Payload)]
      BY <1>2, <2>1 DEF MakeFromQueue
    <2>3. /\ IsFiniteSet(Removed(n, s))
          /\ Cardinality(Removed(n, s)) <= MaxQueenSize
          /\ Removed(n, s) \subseteq Queue[n]
      <3>1. Removed(n, s) \subseteq Queue[n]
        BY DEF Removed
      <3>a. IsFiniteSet(Queue[n]) /\ Cardinality(Queue[n]) <= MaxQueenSize
        OBVIOUS
      <3>2. /\ IsFiniteSet(Removed(n, s))
            /\ Cardinality(Removed(n, s)) <= Cardinality(Queue[n])
        <4> HIDE DEF TypeOK
        <4> QED
          BY <3>1, <3>a, FS_Subset
      <3>3. Cardinality(Removed(n, s)) \in Nat /\ Cardinality(Queue[n]) \in Nat
        BY <3>2, <3>a, FS_CardinalityType
      <3> QED
        BY <3>1, <3>2, <3>3, <3>a, MempoolAssumption
    <2>4. /\ Queue' \in [Node -> SUBSET Payload]
          /\ \A m \in Node : IsFiniteSet(Queue'[m]) /\ Cardinality(Queue'[m]) <= MaxQueenSize
      BY <1>2, <2>3 DEF MakeFromQueue
    <2> QED
      BY Zenon, <1>2, <2>2, <2>4 DEF MakeFromQueue, netVars, syncVars
  <1>3. batch[n] + 1 \in Int /\ -1 \in Int
    OBVIOUS
  <1> HIDE DEF TypeOK
  <1> QED
    BY <1>1, <1>2, <1>3 DEF HandleMakeBlockMsg

LEMMA PoolTypes ==
    ASSUME TypeOK, NEW n \in Node,
           generateBlocks(n) \/ HandleOwnBlock(n)
    PROVE  TypeOK'
  <1> USE DEF TypeOK
  <1>1. CASE generateBlocks(n)
    <2>1. batch' \in [Node -> Nat] /\ own' \in [Node -> Seq(Int)]
      BY <1>1 DEF generateBlocks
    <2> QED
      BY Zenon, <1>1, <2>1 DEF generateBlocks, netVars, syncVars
  <1>2. CASE HandleOwnBlock(n)
    <2> DEFINE p == NewBlock(n, Head(own[n]))
    <2>1. own[n] \in Seq(Int) /\ own[n] # <<>>
      BY <1>2 DEF HandleOwnBlock
    <2>2. Head(own[n]) \in Int /\ Tail(own[n]) \in Seq(Int)
      BY <2>1
    <2>3. p \in Payload /\ own' \in [Node -> Seq(Int)]
      BY <1>2, <2>2 DEF HandleOwnBlock, NewBlock, Payload
    <2>4. CASE Full(n)
      BY Zenon, <1>2, <2>3, <2>4 DEF HandleOwnBlock, syncVars
    <2>5. CASE ~Full(n)
      <3>1. payloadProcess(n, p) /\ Queue' = [Queue EXCEPT ![n] = @ \cup {p}]
        BY <1>2, <2>5 DEF HandleOwnBlock
      <3>2. db' \in [Node -> SUBSET Payload] /\ net' \subseteq Message
        BY Zenon, <3>1, <2>3, ProcessTypes
      <3>3. /\ Queue' \in [Node -> SUBSET Payload]
            /\ \A m \in Node : IsFiniteSet(Queue'[m]) /\ Cardinality(Queue'[m]) <= MaxQueenSize
        BY Zenon, <3>1, <2>3, <2>5, QueueTypes
      <3> QED
        BY Zenon, <1>2, <2>3, <3>2, <3>3 DEF HandleOwnBlock, syncVars
    <2> QED
      BY Zenon, <2>4, <2>5
  <1> QED
    BY Zenon, <1>1, <1>2

\* A node answers a request with payloads it has.
LEMMA AnsweredHeld ==
    ASSUME NEW n \in Node, NEW b \in Block, NEW digests \in Index
    PROVE  Answered(n, b, digests) \subseteq db[n]
  <1>1. ASSUME NEW j \in digests, \A k \in digests : k <= j => payloads[b][k] \in db[n]
        PROVE  payloads[b][j] \in db[n]
    <2>1. j <= j
      BY DEF Index
    <2> QED
      BY <1>1, <2>1
  <1> QED
    BY <1>1 DEF Answered

LEMMA HandleTypes ==
    ASSUME TypeOK, NEW n \in Node, NEW msg \in net, Handle(n, msg)
    PROVE  TypeOK'
  <1>1. net \subseteq Message /\ msg \in Message
    BY DEF TypeOK
  <1>2. CASE HandleOthorBlock(n, msg)
    <2> DEFINE p == msg.payload
    <2>1. p \in Payload
      BY <1>1, <1>2 DEF HandleOthorBlock, Receive, Message
    <2>2. net' \subseteq Message
      BY <1>1, <1>2 DEF HandleOthorBlock
    <2>3. CASE Full(n) \/ Known(n, p)
      BY Zenon, <1>2, <2>2, <2>3 DEF TypeOK, HandleOthorBlock, syncVars
    <2>4. CASE ~(Full(n) \/ Known(n, p))
      <3>1. /\ db' = [db EXCEPT ![n] = @ \cup {p}]
            /\ Queue' = [Queue EXCEPT ![n] = @ \cup {p}]
        BY <1>2, <2>4 DEF HandleOthorBlock
      <3>2. /\ Queue' \in [Node -> SUBSET Payload]
            /\ \A m \in Node : IsFiniteSet(Queue'[m]) /\ Cardinality(Queue'[m]) <= MaxQueenSize
        BY Zenon, <3>1, <2>1, <2>4, QueueTypes
      <3>3. db' \in [Node -> SUBSET Payload]
        BY <3>1, <2>1 DEF TypeOK
      <3> QED
        BY Zenon, <1>2, <2>2, <3>2, <3>3 DEF TypeOK, HandleOthorBlock, syncVars
    <2> QED
      BY <2>3, <2>4
  <1>3. CASE HandleRequestBlock(n, msg)
    <2> DEFINE b == msg.block
               D == Answered(n, b, msg.digests)
               S == UNION {OtherBlockMsg(n, {msg.from}, p) : p \in D}
    <2>1. msg.from \in Node /\ b \in Block /\ msg.digests \in Index
      BY <1>1, <1>3 DEF HandleRequestBlock, Receive, Message
    <2>2. \A p \in D : p \in db[n]
      BY <2>1, AnsweredHeld
    <2>3. S \subseteq Message
      <3>1. D \subseteq Payload
        BY <2>2 DEF TypeOK
      <3> HIDE DEF D
      <3> QED
        BY <2>1, <3>1, MessageTypes
    <2>4. net' = (net \ {msg}) \cup MempoolSend(S)
      BY <1>3 DEF HandleRequestBlock
    <2>5. net' \subseteq Message
      <3> HIDE DEF S
      <3> QED
        BY <1>1, <2>3, <2>4, SendSome
    <2> QED
      BY Zenon, <1>3, <2>5 DEF TypeOK, HandleRequestBlock, poolVars, syncVars
  <1> QED
    BY <1>2, <1>3 DEF Handle

LEMMA LoseTypes ==
    ASSUME TypeOK, NEW msg \in net, Lose(msg)
    PROVE  TypeOK'
  <1>1. net' \subseteq Message /\ lost' \in Nat
    BY DEF TypeOK, Lose
  <1> QED
    BY Zenon, <1>1 DEF TypeOK, Lose, poolVars, syncVars

LEMMA BreakTypes ==
    ASSUME TypeOK, NEW n \in Node, NEW m \in Node, Break(m, n)
    PROVE  TypeOK'
  <1>1. broken' \subseteq Node \X Node
    BY DEF TypeOK, Break
  <1> QED
    BY Zenon, <1>1 DEF TypeOK, Break, poolVars, syncVars

LEMMA MissingIndex ==
    ASSUME TypeOK, NEW n \in Node, NEW b \in Block
    PROVE  Missing(n, b) \in Index
  <1>1. payloads[b] \in Seq(Payload)
    BY DEF TypeOK
  <1>2. DOMAIN payloads[b] \subseteq Nat \ {0}
    BY <1>1
  <1> QED
    BY <1>2 DEF Missing, Index

LEMMA SyncTypes ==
    ASSUME TypeOK, NEW n \in Node,
           \/ SyncBlock(n)
           \/ \E b \in Block : Verify(n, b) \/ waiter(n, b) \/ LoopBack(n, b)
           \/ \E late \in SUBSET Block : Retry(n, late)
    PROVE  TypeOK'
  <1> DEFINE Req == [block : Block, missing : Index]
  <1>1. /\ interChan \in [Node -> Seq(Req)]
        /\ pending \in [Node -> [Block -> Index]]
        /\ left \in [Node -> [Block -> Index]]
        /\ owed \in [Node -> SUBSET Block]
        /\ net \subseteq Message
    BY Zenon DEF TypeOK
  <1>2. CASE SyncBlock(n)
    <2> DEFINE req == Head(interChan[n])
               b == req.block
               S == RequestBlockMsg(n, {b.proposer}, b, req.missing)
    <2>1. req \in Req /\ Tail(interChan[n]) \in Seq(Req)
      <3>1. interChan[n] \in Seq(Req) /\ interChan[n] # <<>>
        BY ZenonT(60), <1>1, <1>2 DEF SyncBlock
      <3> HIDE DEF Req
      <3> QED
        BY <3>1
    <2>2. b \in Block /\ req.missing \in Index /\ b.proposer \in Node
      BY <2>1, MempoolAssumption
    <2>3. interChan' \in [Node -> Seq(Req)]
      <3>1. interChan' = [interChan EXCEPT ![n] = Tail(@)]
        BY <1>2 DEF SyncBlock
      <3> HIDE DEF Req
      <3> QED
        BY ZenonT(60), <3>1, <1>1, <2>1
    <2>4. CASE pending[n][b] # {}
      <3>1. UNCHANGED <<pending, left, net>>
        BY <1>2, <2>4 DEF SyncBlock
      <3> QED
        BY Zenon, <1>2, <2>3, <3>1 DEF TypeOK, SyncBlock, poolVars
    <2>5. CASE pending[n][b] = {}
      <3>1. /\ pending' = [pending EXCEPT ![n][b] = req.missing]
            /\ left' = [left EXCEPT ![n][b] = req.missing]
            /\ net' = net \cup MempoolSend(S)
        BY Zenon, <1>2, <2>5 DEF SyncBlock
      <3>2. S \subseteq Message
        BY ZenonT(60), <2>2, MessageTypes
      <3> HIDE DEF req, b, S
      <3>3. net' \subseteq Message
        BY <3>1, <3>2, <1>1, SendSome
      <3>4. pending' \in [Node -> [Block -> Index]] /\ left' \in [Node -> [Block -> Index]]
        BY SMTT(60), <3>1, <2>2, <1>1
      <3> QED
        BY Zenon, <1>2, <2>3, <3>3, <3>4 DEF TypeOK, SyncBlock, poolVars
    <2> QED
      BY <2>4, <2>5
  <1>3. ASSUME NEW b \in Block, Verify(n, b) PROVE TypeOK'
    <2>1. [block |-> b, missing |-> Missing(n, b)] \in Req
      BY MissingIndex
    <2>2. interChan' \in [Node -> Seq(Req)]
      <3> DEFINE r == [block |-> b, missing |-> Missing(n, b)]
      <3>1. interChan' = [interChan EXCEPT ![n] = Append(@, r)]
        BY <1>3 DEF Verify
      <3> HIDE DEF Req, r
      <3> QED
        BY <3>1, <1>1, <2>1 DEF r
    <2>3. owed' \in [Node -> SUBSET Block]
      BY <1>3, <1>1 DEF Verify
    <2> QED
      BY ZenonT(60), <1>3, <2>2, <2>3 DEF TypeOK, Verify, poolVars, netVars
  <1>4. ASSUME NEW b \in Block, waiter(n, b) PROVE TypeOK'
    <2>1. left' \in [Node -> [Block -> Index]]
      BY <1>4, <1>1 DEF waiter, Index
    <2> QED
      BY Zenon, <1>4, <2>1 DEF TypeOK, waiter, poolVars, netVars
  <1>5. ASSUME NEW b \in Block, LoopBack(n, b) PROVE TypeOK'
    <2>1. pending' \in [Node -> [Block -> Index]] /\ owed' \in [Node -> SUBSET Block]
      BY <1>5, <1>1 DEF LoopBack, Index
    <2> QED
      BY Zenon, <1>5, <2>1 DEF TypeOK, LoopBack, poolVars, netVars
  <1>6. ASSUME NEW late \in SUBSET Block, Retry(n, late) PROVE TypeOK'
    <2> DEFINE S == UNION {RequestBlockMsg(n, Asked(n, b), b, pending[n][b]) : b \in late}
    <2>1. S \subseteq Message
      <3>1. \A b \in late : RequestBlockMsg(n, Asked(n, b), b, pending[n][b]) \subseteq Message
        BY ZenonT(60), <1>1, MessageTypes DEF Asked, Others
      <3> QED
        BY <3>1
    <2>2. net' = net \cup MempoolSend(S)
      BY <1>6 DEF Retry
    <2>3. net' \subseteq Message
      <3> HIDE DEF S
      <3> QED
        BY <1>1, <2>1, <2>2, SendSome
    <2> QED
      BY Zenon, <1>6, <2>3 DEF TypeOK, Retry, poolVars, syncVars
  <1> QED
    BY <1>2, <1>3, <1>4, <1>5, <1>6

LEMMA TypeInv == TypeOK /\ [Next]_vars => TypeOK'
  <1> SUFFICES ASSUME TypeOK, [Next]_vars PROVE TypeOK'
    OBVIOUS
  <1>1. CASE UNCHANGED vars
    BY Zenon, <1>1 DEF TypeOK, vars, poolVars, netVars, syncVars
  <1>2. ASSUME NEW msg \in net, Lose(msg) PROVE TypeOK'
    BY <1>2, LoseTypes
  <1>3. ASSUME NEW n \in Node, generateBlocks(n) \/ HandleOwnBlock(n) PROVE TypeOK'
    BY <1>3, PoolTypes
  <1>4. ASSUME NEW n \in Node, HandleMakeBlockMsg(n) PROVE TypeOK'
    BY <1>4, MakeTypes
  <1>5. ASSUME NEW n \in Node, NEW msg \in net, Handle(n, msg) PROVE TypeOK'
    BY <1>5, HandleTypes
  <1>6. ASSUME NEW n \in Node,
               \/ SyncBlock(n)
               \/ \E b \in Block : Verify(n, b) \/ waiter(n, b) \/ LoopBack(n, b)
               \/ \E late \in SUBSET Block : Retry(n, late)
        PROVE  TypeOK'
    BY <1>6, SyncTypes
  <1>7. ASSUME NEW n \in Node, NEW m \in Node, Break(m, n) PROVE TypeOK'
    BY <1>7, BreakTypes
  <1> QED
    BY <1>1, <1>2, <1>3, <1>4, <1>5, <1>6, <1>7 DEF Next
-----------------------------------------------------------------------------
(* The fetch requests and the waiters. *)

\* What every step does to the stores and the blocks: they only grow.
Grows ==
    /\ \A n \in Node : db[n] \subseteq db'[n]
    /\ \A b \in Block : payloads[b] # <<>> => payloads'[b] = payloads[b]

LEMMA StepGrows ==
    ASSUME TypeOK, [Next]_vars
    PROVE  Grows
  <1>1. db \in [Node -> SUBSET Payload] /\ payloads \in [Block -> Seq(Payload)]
    BY DEF TypeOK
  <1>2. CASE UNCHANGED <<db, payloads>>
    BY <1>2 DEF Grows
  <1>3. ASSUME NEW n \in Node, HandleOwnBlock(n) PROVE Grows
    BY <1>1, <1>3 DEF Grows, HandleOwnBlock, payloadProcess
  <1>4. ASSUME NEW n \in Node, HandleMakeBlockMsg(n) PROVE Grows
    <2>1. ASSUME NEW b \in Block, NEW id, MakeFromPool(n, b, id) PROVE Grows
      BY <1>1, <2>1 DEF Grows, MakeFromPool, payloadProcess, NextBlock
    <2>2. ASSUME NEW b \in Block, NEW s, MakeFromQueue(n, b, s) PROVE Grows
      BY <1>1, <2>2 DEF Grows, MakeFromQueue, NextBlock
    <2> QED
      BY <1>4, <2>1, <2>2 DEF HandleMakeBlockMsg
  <1>5. ASSUME NEW n \in Node, NEW msg \in net, Handle(n, msg) PROVE Grows
    BY <1>1, <1>5 DEF Grows, Handle, HandleOthorBlock, HandleRequestBlock, poolVars
  <1>6. ASSUME NEW n \in Node, generateBlocks(n) PROVE Grows
    BY SMTT(60), <1>2, <1>6 DEF generateBlocks
  <1>7. ASSUME NEW n \in Node,
               \/ SyncBlock(n)
               \/ \E b \in Block : Verify(n, b) \/ waiter(n, b) \/ LoopBack(n, b)
               \/ \E late \in SUBSET Block : Retry(n, late)
               \/ \E m \in Node : Break(m, n)
        PROVE  Grows
    BY ZenonT(60), <1>2, <1>7 DEF SyncBlock, Verify, waiter, LoopBack, Retry, Break, poolVars
  <1>8. ASSUME NEW msg \in net, Lose(msg) PROVE Grows
    BY <1>2, <1>8 DEF Lose, poolVars
  <1>9. CASE UNCHANGED vars
    BY <1>2, <1>9 DEF vars, poolVars
  <1> QED
    BY <1>3, <1>4, <1>5, <1>6, <1>7, <1>8, <1>9 DEF Next

\* A block that is made lacks no more payloads later than it did before.
LEMMA MissingShrinks ==
    ASSUME Grows, NEW n \in Node, NEW b \in Block, payloads[b] # <<>>
    PROVE  payloads'[b] # <<>> /\ Missing(n, b)' \subseteq Missing(n, b)
  BY DEF Grows, Missing

LEMMA SyncUnchanged ==
    ASSUME TypeOK, SyncInv, Grows, UNCHANGED syncVars
    PROVE  SyncInv'
  <1>1. UNCHANGED <<interChan, pending, left, owed>>
    BY DEF syncVars
  <1>2. Listed'
    <2> SUFFICES ASSUME NEW n \in Node, NEW q \in Request, Waits(n, q)
                 PROVE  /\ payloads'[q.block] # <<>>
                        /\ q.missing # {}
                        /\ Missing(n, q.block)' \subseteq q.missing
      BY <1>1 DEF Listed, Waits
    <2>1. q.block \in Block
      BY DEF Request
    <2> QED
      BY <2>1, MissingShrinks DEF SyncInv, Listed
  <1>3. Covered'
    BY <1>1, MissingShrinks DEF SyncInv, Covered
  <1>4. Watched'
    BY <1>1 DEF SyncInv, Watched, Waits
  <1> QED
    BY <1>2, <1>3, <1>4 DEF SyncInv

LEMMA VerifySync ==
    ASSUME TypeOK, SyncInv, NEW n \in Node, NEW b \in Block, Verify(n, b)
    PROVE  SyncInv'
  <1> DEFINE r == [block |-> b, missing |-> Missing(n, b)]
  <1>1. /\ interChan' = [interChan EXCEPT ![n] = Append(@, r)]
        /\ owed' = [owed EXCEPT ![n] = @ \cup {b}]
        /\ UNCHANGED <<pending, left, db, payloads>>
        /\ payloads[b] # <<>> /\ Missing(n, b) # {}
    BY SMTT(60) DEF Verify, poolVars
  <1>2. /\ interChan \in [Node -> Seq(Request)] /\ r \in Request
        /\ owed \in [Node -> SUBSET Block]
    BY ZenonT(60), MissingIndex DEF TypeOK, Request
  <1>3. \A m \in Node, c \in Block : Missing(m, c)' = Missing(m, c)
    BY <1>1 DEF Missing
  <1>4. ASSUME NEW m \in Node, NEW q \in Request
        PROVE  Waits(m, q)' <=> Waits(m, q) \/ (m = n /\ q = r)
    <2>1. interChan[m] \in Seq(Request)
      BY <1>2
    <2>2. CASE m = n
      <3>1. interChan'[m] = Append(interChan[m], r)
        BY <1>1, <1>2, <2>2
      <3> HIDE DEF r
      <3>2. /\ Len(interChan'[m]) = Len(interChan[m]) + 1
            /\ Len(interChan[m]) \in Nat
            /\ \A i \in 1..Len(interChan[m]) : interChan'[m][i] = interChan[m][i]
            /\ interChan'[m][Len(interChan[m]) + 1] = r
        BY <3>1, <2>1, <1>2
      <3>3. \A i : i \in 1..Len(interChan'[m]) <=>
                       i \in 1..Len(interChan[m]) \/ i = Len(interChan[m]) + 1
        BY <3>2
      <3> QED
        BY Zenon, <3>2, <3>3, <2>2 DEF Waits
    <2>3. CASE m # n
      BY <1>1, <1>2, <2>3 DEF Waits
    <2> QED
      BY <2>2, <2>3
  <1>5. Listed'
    <2> SUFFICES ASSUME NEW m \in Node, NEW q \in Request, Waits(m, q)'
                 PROVE  /\ payloads[q.block] # <<>>
                        /\ q.missing # {}
                        /\ Missing(m, q.block) \subseteq q.missing
      <3>1. \A q \in Request : q.block \in Block
        BY DEF Request
      <3> QED
        BY <3>1, <1>1, <1>3 DEF Listed
    <2>1. CASE Waits(m, q)
      BY <2>1 DEF SyncInv, Listed
    <2>2. CASE m = n /\ q = r
      BY SMTT(60), <2>2, <1>1
    <2> QED
      BY SMTT(60), <1>4, <2>1, <2>2
  <1>6. Covered'
    BY <1>1, <1>3 DEF SyncInv, Covered
  <1>7. Watched'
    <2> SUFFICES ASSUME NEW m \in Node, NEW c \in owed'[m], pending'[m][c] = {}
                 PROVE  \E q \in Request : Waits(m, q)' /\ q.block = c
      BY DEF Watched
    <2>2. CASE c \in owed[m]
      BY <2>2, <1>1, <1>4 DEF SyncInv, Watched
    <2>3. CASE c \notin owed[m]
      <3>1. m = n /\ c = b
        BY <2>3, <1>1, <1>2
      <3> QED
        BY <3>1, <1>2, <1>4
    <2> QED
      BY <2>2, <2>3
  <1> QED
    BY <1>5, <1>6, <1>7 DEF SyncInv
LEMMA SyncBlockSync ==
    ASSUME TypeOK, SyncInv, NEW n \in Node, SyncBlock(n)
    PROVE  SyncInv'
  <1> DEFINE r == Head(interChan[n])
             b == r.block
  <1>1. /\ interChan[n] # <<>>
        /\ interChan' = [interChan EXCEPT ![n] = Tail(@)]
        /\ UNCHANGED <<owed, db, payloads>>
    BY DEF SyncBlock, poolVars
  <1>2. /\ interChan \in [Node -> Seq(Request)]
        /\ pending \in [Node -> [Block -> Index]] /\ left \in [Node -> [Block -> Index]]
        /\ owed \in [Node -> SUBSET Block]
    BY ZenonT(60) DEF TypeOK, Request
  <1>3. \A m \in Node, c \in Block : Missing(m, c)' = Missing(m, c)
    BY <1>1 DEF Missing
  <1>4. ASSUME NEW m \in Node, NEW q \in Request
        PROVE  /\ Waits(m, q)' => Waits(m, q)
               /\ Waits(m, q) => Waits(m, q)' \/ (m = n /\ q = r)
    <2>1. interChan[m] \in Seq(Request)
      BY <1>2
    <2>2. CASE m = n
      <3>1. interChan'[m] = Tail(interChan[m]) /\ interChan[m] # <<>>
        BY <1>1, <1>2, <2>2
      <3>2. /\ Len(interChan'[m]) = Len(interChan[m]) - 1
            /\ Len(interChan[m]) \in Nat
            /\ \A i \in 1..Len(interChan'[m]) : interChan'[m][i] = interChan[m][i + 1]
            /\ interChan[m][1] = Head(interChan[m])
        BY <3>1, <2>1, HeadTailProperties
      <3>3. Waits(m, q)' => Waits(m, q)
        BY <3>2 DEF Waits
      <3>4. ASSUME NEW i \in 1..Len(interChan[m]), interChan[m][i] = q
            PROVE  Waits(m, q)' \/ q = Head(interChan[m])
        <4>1. CASE i = 1
          BY <4>1, <3>2, <3>4
        <4>2. CASE i # 1
          <5>1. i - 1 \in 1..Len(interChan'[m]) /\ (i - 1) + 1 = i
            BY <4>2, <3>2
          <5>2. interChan'[m][i - 1] = q
            BY <5>1, <3>2, <3>4
          <5> QED
            BY <5>1, <5>2 DEF Waits
        <4> QED
          BY <4>1, <4>2
      <3> QED
        BY <3>3, <3>4, <2>2 DEF Waits
    <2>3. CASE m # n
      BY <1>1, <1>2, <2>3 DEF Waits
    <2> QED
      BY <2>2, <2>3
  <1>5. r \in Request /\ Waits(n, r) /\ b \in Block
    <2>1. interChan[n] \in Seq(Request)
      BY <1>2
    <2>2. r = interChan[n][1] /\ 1 \in 1..Len(interChan[n]) /\ r \in Request
      BY <2>1, <1>1
    <2> QED
      BY <2>2 DEF Waits, Request
  <1>6. payloads[b] # <<>> /\ r.missing # {} /\ Missing(n, b) \subseteq r.missing
    BY <1>5 DEF SyncInv, Listed
  <1>7. Listed'
    <2>1. \A q \in Request : q.block \in Block
      BY SMTT(60) DEF Request
    <2> QED
      BY <1>1, <1>3, <1>4, <2>1 DEF SyncInv, Listed
  <1>8. /\ \A m \in Node, c \in Block :
              \/ pending'[m][c] = pending[m][c] /\ left'[m][c] = left[m][c]
              \/ m = n /\ c = b /\ pending'[m][c] = r.missing /\ left'[m][c] = r.missing
        /\ pending'[n][b] # {}
        /\ \A m \in Node, c \in Block : pending[m][c] # {} => pending'[m][c] # {}
    <2>1. CASE pending[n][b] # {}
      <3>1. UNCHANGED <<pending, left>>
        BY SMTT(60), <2>1 DEF SyncBlock
      <3> QED
        BY <3>1, <2>1
    <2>2. CASE pending[n][b] = {}
      <3>1. /\ pending' = [pending EXCEPT ![n][b] = r.missing]
            /\ left' = [left EXCEPT ![n][b] = r.missing]
        BY <2>2 DEF SyncBlock
      <3> HIDE DEF r, b
      <3> QED
        BY <3>1, <2>2, <1>2, <1>5, <1>6
    <2> QED
      BY <2>1, <2>2
  <1> HIDE DEF r, b
  <1>9. Covered'
    <2> SUFFICES ASSUME NEW m \in Node, NEW c \in Block, pending'[m][c] # {}
                 PROVE  payloads[c] # <<>> /\ Missing(m, c) \subseteq left'[m][c]
      BY <1>1, <1>3 DEF Covered
    <2>1. CASE pending'[m][c] = pending[m][c] /\ left'[m][c] = left[m][c]
      BY <2>1 DEF SyncInv, Covered
    <2>2. CASE m = n /\ c = b /\ left'[m][c] = r.missing
      BY <2>2, <1>6
    <2> QED
      BY <2>1, <2>2, <1>8
  <1>10. Watched'
    <2> SUFFICES ASSUME NEW m \in Node, NEW c \in owed[m], pending'[m][c] = {}
                 PROVE  \E q \in Request : Waits(m, q)' /\ q.block = c
      BY <1>1 DEF Watched
    <2>1. c \in Block /\ pending[m][c] = {}
      BY ZenonT(60), <1>2, <1>8
    <2>2. PICK q \in Request : Waits(m, q) /\ q.block = c
      BY <2>1 DEF SyncInv, Watched
    <2>3. ~(m = n /\ q = r)
      BY <2>2, <1>8 DEF b
    <2> QED
      BY <2>2, <2>3, <1>4
  <1> QED
    BY <1>7, <1>9, <1>10 DEF SyncInv

LEMMA WaiterSync ==
    ASSUME TypeOK, SyncInv, NEW n \in Node, NEW b \in Block,
           waiter(n, b) \/ LoopBack(n, b)
    PROVE  SyncInv'
  <1>1. UNCHANGED <<interChan, db, payloads>>
    BY DEF waiter, LoopBack, poolVars
  <1>2. /\ pending \in [Node -> [Block -> Index]] /\ left \in [Node -> [Block -> Index]]
        /\ owed \in [Node -> SUBSET Block]
    BY DEF TypeOK
  <1>3. \A m \in Node, c \in Block : Missing(m, c)' = Missing(m, c)
    BY <1>1 DEF Missing
  <1>4. \A m \in Node, q \in Request : Waits(m, q)' <=> Waits(m, q)
    BY SMTT(60), <1>1 DEF Waits
  <1>5. Listed'
    <2>1. \A q \in Request : q.block \in Block
      BY DEF Request
    <2> QED
      BY <2>1, <1>1, <1>3, <1>4 DEF SyncInv, Listed
  <1>6. CASE waiter(n, b)
    <2>1. PICK i \in left[n][b] : /\ payloads[b][i] \in db[n]
                                  /\ left' = [left EXCEPT ![n][b] = @ \ {i}]
                                  /\ UNCHANGED <<pending, owed>>
      BY ZenonT(60), <1>6 DEF waiter
    <2>2. i \notin Missing(n, b)
      BY <2>1 DEF Missing
    <2>3. Covered'
      BY <1>1, <1>2, <1>3, <2>1, <2>2 DEF SyncInv, Covered
    <2>4. Watched'
      BY <1>4, <2>1 DEF SyncInv, Watched
    <2> QED
      BY <1>5, <2>3, <2>4 DEF SyncInv
  <1>7. CASE LoopBack(n, b)
    <2>1. /\ pending' = [pending EXCEPT ![n][b] = {}]
          /\ owed' = [owed EXCEPT ![n] = @ \ {b}]
          /\ UNCHANGED left
      BY SMTT(60), <1>7 DEF LoopBack
    <2>2. Covered'
      BY <1>1, <1>2, <1>3, <2>1 DEF SyncInv, Covered
    <2>3. Watched'
      <3> SUFFICES ASSUME NEW m \in Node, NEW c \in owed'[m]
                   PROVE  \/ pending'[m][c] # {}
                          \/ \E q \in Request : Waits(m, q)' /\ q.block = c
        BY DEF Watched
      <3>1. c \in owed[m] /\ c \in Block /\ ~(m = n /\ c = b)
        BY <1>2, <2>1
      <3>2. pending'[m][c] = pending[m][c]
        BY <1>2, <2>1, <3>1
      <3> QED
        BY <3>1, <3>2, <1>4 DEF SyncInv, Watched
    <2> QED
      BY <1>5, <2>2, <2>3 DEF SyncInv
  <1> QED
    BY <1>6, <1>7

LEMMA SyncStep == IInv /\ [Next]_vars => IInv'
  <1> SUFFICES ASSUME IInv, [Next]_vars PROVE IInv'
    OBVIOUS
  <1>1. TypeOK /\ SyncInv /\ TypeOK' /\ Grows
    BY TypeInv, StepGrows DEF IInv
  <1>2. CASE UNCHANGED syncVars
    BY <1>1, <1>2, SyncUnchanged DEF IInv
  <1>3. ASSUME NEW n \in Node, SyncBlock(n) PROVE IInv'
    BY <1>1, <1>3, SyncBlockSync DEF IInv
  <1>4. ASSUME NEW n \in Node, NEW b \in Block,
               Verify(n, b) \/ waiter(n, b) \/ LoopBack(n, b)
        PROVE  IInv'
    BY <1>1, <1>4, VerifySync, WaiterSync DEF IInv
  <1>5. ASSUME NEW n \in Node,
               \/ generateBlocks(n) \/ HandleOwnBlock(n) \/ HandleMakeBlockMsg(n)
               \/ \E msg \in net : Handle(n, msg)
               \/ \E late \in SUBSET Block : Retry(n, late)
               \/ \E m \in Node : Break(m, n)
        PROVE  IInv'
    <2>1. UNCHANGED syncVars
      BY ZenonT(60), <1>5 DEF generateBlocks, HandleOwnBlock, HandleMakeBlockMsg, MakeFromPool,
                  MakeFromQueue, Handle, HandleOthorBlock, HandleRequestBlock, Retry, Break
    <2> QED
      BY SMTT(60), <1>2, <2>1
  <1>6. ASSUME NEW msg \in net, Lose(msg) PROVE IInv'
    BY <1>2, <1>6 DEF Lose
  <1>7. CASE UNCHANGED vars
    BY <1>2, <1>7 DEF vars
  <1> QED
    BY <1>3, <1>4, <1>5, <1>6, <1>7 DEF Next

LEMMA Invariance == Spec => []IInv
  BY InitInv, SyncStep, PTL DEF Spec

LEMMA IInvImplies == IInv => TypeOK /\ WaitWatched /\ DoneIsComplete
  <1> SUFFICES ASSUME IInv PROVE WaitWatched /\ DoneIsComplete
    BY DEF IInv
  <1>1. WaitWatched
    BY DEF IInv, SyncInv, Watched, Waits, WaitWatched
  <1>2. DoneIsComplete
    BY DEF IInv, SyncInv, Covered, DoneIsComplete, Complete
  <1> QED
    BY <1>1, <1>2

-----------------------------------------------------------------------------

\* The types of the mempools' state, and the limit MaxQueenSize on the queue,
\* which own payloads, others' payloads and cleanings share (mempool.go).
THEOREM TypeCorrect == Spec => []TypeOK
  BY Invariance, IInvImplies, PTL

\* A block answered with Wait is on interChan or pending until it is looped
\* back: no sequence of cleanings and arrivals makes the synchronizer forget it.
THEOREM FetchKept == Spec => []WaitWatched
  BY Invariance, IInvImplies, PTL

\* A waiter is done only when all payloads of its block are in the store.
THEOREM DoneWhenComplete == Spec => []DoneIsComplete
  BY Invariance, IInvImplies, PTL

\* The blocks node n lacks payloads of, as PayloadFetch sees them.
Lacking == [n \in Node |-> {b \in Block : ~Complete(n, b)}]

LEMMA LackingShrinks ==
    ASSUME Grows
    PROVE  /\ Lacking' \in [Node -> SUBSET Block]
           /\ \A n \in Node : Lacking'[n] \subseteq Lacking[n]
  <1>1. ASSUME NEW n \in Node, NEW b \in Block, Complete(n, b)
        PROVE  Complete(n, b)'
    BY <1>1, MissingShrinks DEF Complete
  <1> QED
    BY <1>1 DEF Lacking

\* The mempools take only the steps Core relies on: payloads arrive, a block
\* that lacks payloads becomes owed, an owed block is looped back when complete.
THEOREM FetchRefinement == Spec => ImplementsFetch
  <1>1. Init => Fetch!Init
    BY DEF Init, Fetch!Init, Complete
  <1>2. IInv /\ [Next]_vars => [Fetch!Next]_Fetch!vars
    <2> SUFFICES ASSUME IInv, [Next]_vars PROVE [Fetch!Next]_Fetch!vars
      OBVIOUS
    <2>1. TypeOK /\ DoneIsComplete /\ Grows
      BY IInvImplies, StepGrows
    <2>2. ASSUME UNCHANGED owed PROVE Fetch!Arrive
      BY <2>1, <2>2, LackingShrinks DEF Fetch!Arrive, Lacking
    <2>3. ASSUME UNCHANGED <<db, payloads>> PROVE UNCHANGED Lacking
      BY SMTT(60), <2>3 DEF Lacking, Complete, Missing
    <2>4. ASSUME NEW n \in Node, NEW b \in Block, Verify(n, b) PROVE Fetch!Verify(n, b)
      <3>1. ~Complete(n, b) /\ UNCHANGED Lacking
        BY <2>3, <2>4 DEF Verify, Complete, poolVars
      <3> QED
        BY SMTT(60), <2>4, <3>1 DEF Verify, Fetch!Verify, Lacking
    <2>5. ASSUME NEW n \in Node, NEW b \in Block, LoopBack(n, b)
          PROVE  Fetch!LoopBack(n, b) \/ UNCHANGED owed
      <3>1. Complete(n, b) /\ UNCHANGED Lacking
        BY <2>1, <2>3, <2>5 DEF LoopBack, DoneIsComplete, poolVars
      <3>2. owed \in [Node -> SUBSET Block] /\ owed' = [owed EXCEPT ![n] = @ \ {b}]
        BY <2>1, <2>5 DEF TypeOK, LoopBack
      <3>3. CASE b \in owed[n]
        BY <3>1, <3>2, <3>3 DEF Fetch!LoopBack, Lacking
      <3>4. CASE b \notin owed[n]
        BY SMTT(60), <3>2, <3>4
      <3> QED
        BY <3>3, <3>4
    <2>6. ASSUME NEW n \in Node,
                 \/ generateBlocks(n) \/ HandleOwnBlock(n) \/ HandleMakeBlockMsg(n)
                 \/ \E msg \in net : Handle(n, msg)
                 \/ SyncBlock(n)
                 \/ \E b \in Block : waiter(n, b)
                 \/ \E late \in SUBSET Block : Retry(n, late)
                 \/ \E m \in Node : Break(m, n)
          PROVE  UNCHANGED owed
      BY ZenonT(60), <2>6 DEF generateBlocks, HandleOwnBlock, HandleMakeBlockMsg, MakeFromPool,
                  MakeFromQueue, Handle, HandleOthorBlock, HandleRequestBlock, SyncBlock,
                  waiter, Retry, Break, syncVars
    <2>7. ASSUME NEW msg \in net, Lose(msg) PROVE UNCHANGED owed
      BY <2>7 DEF Lose, syncVars
    <2>8. CASE UNCHANGED vars
      BY <2>2, <2>8 DEF vars, syncVars, Fetch!Next
    <2> QED
      BY <2>2, <2>4, <2>5, <2>6, <2>7, <2>8 DEF Next, Fetch!Next
  <1> QED
    BY <1>1, <1>2, Invariance, PTL DEF Spec, ImplementsFetch, Fetch!Spec

-----------------------------------------------------------------------------
(* A node proposes a payload once. *)

\* What a node has queued or proposed is in its store, and whatever a node has
\* or is sent is in the store of its author.
Held ==
    /\ \A n \in Node : Queue[n] \subseteq db[n]
    /\ \A b \in Block : \A i \in DOMAIN payloads[b] : payloads[b][i] \in db[b.proposer]
    /\ \A n \in Node : \A p \in db[n] : p \in db[p.proposer]
    /\ \A msg \in net : msg.type = "other" => msg.payload \in db[msg.payload.proposer]

\* The OwnBlockMsgs are for different batches that are in no store yet.
Fresh ==
    \A n \in Node :
        /\ \A id \in Int : NewBlock(n, id) \in db[n] => id <= batch[n]
        /\ \A i \in 1..Len(own[n]) :
              /\ own[n][i] \in 1..batch[n]
              /\ NewBlock(n, own[n][i]) \notin db[n]
              /\ \A j \in 1..Len(own[n]) : own[n][i] = own[n][j] => i = j

PayInv == Held /\ Fresh /\ ProposedOnce

LEMMA NewBlockFields ==
    ASSUME NEW n, NEW id, NEW m, NEW jd
    PROVE  /\ NewBlock(n, id).proposer = n /\ NewBlock(n, id).id = id
           /\ NewBlock(n, id) = NewBlock(m, jd) => n = m /\ id = jd
  BY DEF NewBlock

\* Held, for a step that stores p at n and sends it or takes it off the net.
LEMMA HeldStep ==
    ASSUME TypeOK, Held, NEW n \in Node, NEW p \in Payload,
           db' = [db EXCEPT ![n] = @ \cup {p}],
           p.proposer = n \/ p \in db[p.proposer],
           \A m \in Node : Queue'[m] \subseteq db'[m],
           \A b \in Block : \A i \in DOMAIN payloads'[b] :
               payloads'[b][i] \in db'[b.proposer],
           \A msg \in net' : msg \in net \/ (msg.type = "other" => msg.payload = p)
    PROVE  Held'
  <1>1. db \in [Node -> SUBSET Payload] /\ p.proposer \in Node
    BY DEF TypeOK, Payload
  <1>2. \A m \in Node : db[m] \subseteq db'[m]
    BY <1>1
  <1>3. p \in db'[p.proposer]
    BY <1>1
  <1>4. ASSUME NEW m \in Node, NEW x \in db'[m] PROVE x \in db'[x.proposer]
    <2>1. CASE x = p
      BY <2>1, <1>3
    <2>2. CASE x # p
      <3>1. x \in db[m] /\ x.proposer \in Node
        BY <2>2, <1>1 DEF Payload
      <3> QED
        BY <3>1, <1>2 DEF Held
    <2> QED
      BY <2>1, <2>2
  <1>5. ASSUME NEW msg \in net', msg.type = "other"
        PROVE  msg.payload \in db'[msg.payload.proposer]
    <2>1. CASE msg \in net
      <3>1. msg.payload.proposer \in Node
        BY <1>5, <2>1 DEF TypeOK, Message, Payload
      <3> QED
        BY SMTT(60), <1>5, <2>1, <3>1, <1>2 DEF Held
    <2>2. CASE msg.payload = p
      BY <2>2, <1>3
    <2> QED
      BY <1>5, <2>1, <2>2
  <1> QED
    BY SMTT(60), <1>4, <1>5 DEF Held

LEMMA PoolPay ==
    ASSUME TypeOK, PayInv, NEW n \in Node, generateBlocks(n)
    PROVE  PayInv'
  <1>1. UNCHANGED <<db, Queue, payloads, net>>
    BY DEF generateBlocks, netVars
  <1>2. /\ own' = [own EXCEPT ![n] = Append(@, batch[n] + 1)]
        /\ batch' = [batch EXCEPT ![n] = @ + 1]
        /\ own \in [Node -> Seq(Int)] /\ batch \in [Node -> Nat]
    BY ZenonT(60) DEF generateBlocks, TypeOK
  <1>3. Held' /\ ProposedOnce'
    BY SMTT(60), <1>1 DEF PayInv, Held, ProposedOnce
  <1>4. ASSUME NEW m \in Node
        PROVE  /\ \A id \in Int : NewBlock(m, id) \in db'[m] => id <= batch'[m]
               /\ \A i \in 1..Len(own'[m]) :
                     /\ own'[m][i] \in 1..batch'[m]
                     /\ NewBlock(m, own'[m][i]) \notin db'[m]
                     /\ \A j \in 1..Len(own'[m]) : own'[m][i] = own'[m][j] => i = j
    <2>1. /\ \A id \in Int : NewBlock(m, id) \in db[m] => id <= batch[m]
          /\ \A i \in 1..Len(own[m]) :
                /\ own[m][i] \in 1..batch[m]
                /\ NewBlock(m, own[m][i]) \notin db[m]
                /\ \A j \in 1..Len(own[m]) : own[m][i] = own[m][j] => i = j
      BY DEF PayInv, Fresh
    <2>2. CASE m # n
      <3>1. own'[m] = own[m] /\ batch'[m] = batch[m]
        BY SMTT(60), <1>2, <2>2
      <3> QED
        BY <2>1, <3>1, <1>1
    <2>3. CASE m = n
      <3>1. /\ own'[m] = Append(own[m], batch[m] + 1) /\ own[m] \in Seq(Int)
            /\ batch'[m] = batch[m] + 1 /\ batch[m] \in Nat
        BY <1>2, <2>3
      <3>2. /\ Len(own'[m]) = Len(own[m]) + 1 /\ Len(own[m]) \in Nat
            /\ \A i \in 1..Len(own[m]) : own'[m][i] = own[m][i]
            /\ own'[m][Len(own[m]) + 1] = batch[m] + 1
        BY <3>1
      <3>3. NewBlock(m, batch[m] + 1) \notin db[m]
        BY <2>1, <3>1
      <3>4. ASSUME NEW id \in Int, NewBlock(m, id) \in db'[m] PROVE id <= batch'[m]
        BY SMTT(60), <3>4, <2>1, <3>1, <1>1
      <3>5. ASSUME NEW i \in 1..Len(own'[m])
            PROVE  /\ own'[m][i] \in 1..batch'[m]
                   /\ NewBlock(m, own'[m][i]) \notin db'[m]
                   /\ i <= Len(own[m]) => own'[m][i] <= batch[m]
        <4>1. CASE i <= Len(own[m])
          BY SMTT(60), <4>1, <2>1, <3>1, <3>2, <1>1
        <4>2. CASE i = Len(own[m]) + 1
          BY <4>2, <3>1, <3>2, <3>3, <1>1
        <4> QED
          BY SMTT(60), <4>1, <4>2, <3>2
      <3>6. ASSUME NEW i \in 1..Len(own'[m]), NEW j \in 1..Len(own'[m]),
                   own'[m][i] = own'[m][j]
            PROVE  i = j
        <4>1. CASE i <= Len(own[m]) /\ j <= Len(own[m])
          <5>1. i \in 1..Len(own[m]) /\ j \in 1..Len(own[m])
            BY <4>1, <3>2
          <5>2. own[m][i] = own[m][j]
            BY <5>1, <3>2, <3>6
          <5> QED
            BY <5>1, <5>2, <2>1
        <4>2. CASE i = Len(own[m]) + 1 \/ j = Len(own[m]) + 1
          BY SMTT(60), <4>2, <3>1, <3>2, <3>5, <3>6
        <4> QED
          BY <4>1, <4>2, <3>2
      <3> QED
        BY <3>4, <3>5, <3>6
    <2> QED
      BY SMTT(60), <2>2, <2>3
  <1>5. Fresh'
    BY SMTT(60), <1>4 DEF Fresh, NewBlock
  <1> QED
    BY <1>3, <1>5 DEF PayInv

\* Fresh, for a step that stores p at n: p is of another author or has an ID
\* that is not waiting.
LEMMA FreshStep ==
    ASSUME TypeOK, Fresh, NEW n \in Node, NEW p \in Payload,
           db' = [db EXCEPT ![n] = @ \cup {p}], UNCHANGED own,
           batch' \in [Node -> Nat], \A m \in Node : batch[m] <= batch'[m],
           p.proposer = n => /\ p.id <= batch'[n]
                             /\ \A i \in 1..Len(own[n]) : own[n][i] # p.id
    PROVE  Fresh'
  <1>1. db \in [Node -> SUBSET Payload] /\ batch \in [Node -> Nat]
    BY SMTT(60) DEF TypeOK
  <1>2. ASSUME NEW m \in Node
        PROVE  /\ \A id \in Int : NewBlock(m, id) \in db'[m] => id <= batch'[m]
               /\ \A i \in 1..Len(own[m]) :
                     /\ own[m][i] \in 1..batch'[m]
                     /\ NewBlock(m, own[m][i]) \notin db'[m]
                     /\ \A j \in 1..Len(own[m]) : own[m][i] = own[m][j] => i = j
    <2>1. /\ \A id \in Int : NewBlock(m, id) \in db[m] => id <= batch[m]
          /\ \A i \in 1..Len(own[m]) :
                /\ own[m][i] \in 1..batch[m]
                /\ NewBlock(m, own[m][i]) \notin db[m]
                /\ \A j \in 1..Len(own[m]) : own[m][i] = own[m][j] => i = j
      BY DEF Fresh
    <2>2. batch[m] \in Nat /\ batch'[m] \in Nat /\ batch[m] <= batch'[m]
      BY <1>1
    <2>3. ASSUME NEW id \in Int, NewBlock(m, id) \in db'[m], NewBlock(m, id) \notin db[m]
          PROVE  m = n /\ p.proposer = n /\ p.id = id
      <3>1. m = n /\ NewBlock(m, id) = p
        BY <1>1, <2>3
      <3> QED
        BY <3>1, NewBlockFields
    <2>4. ASSUME NEW id \in Int, NewBlock(m, id) \in db'[m] PROVE id <= batch'[m]
      BY SMTT(60), <2>1, <2>2, <2>3, <2>4
    <2>5. ASSUME NEW i \in 1..Len(own[m])
          PROVE  own[m][i] \in 1..batch'[m] /\ NewBlock(m, own[m][i]) \notin db'[m]
      <3>1. own[m][i] \in Int /\ own[m][i] \in 1..batch'[m]
        BY <2>1, <2>2
      <3> QED
        BY <3>1, <2>1, <2>3
    <2> QED
      BY SMTT(60), <2>1, <2>4, <2>5
  <1> QED
    BY <1>2 DEF Fresh, NewBlock

\* ProposedOnce, for a step that queues a payload that node n did not have.
LEMMA QueuedStep ==
    ASSUME TypeOK, Held, ProposedOnce, NEW n \in Node, NEW p, p \notin db[n],
           Queue' = [Queue EXCEPT ![n] = @ \cup {p}], UNCHANGED payloads
    PROVE  ProposedOnce'
  <1>1. Queue \in [Node -> SUBSET Payload]
    BY DEF TypeOK
  <1>2. ASSUME NEW b \in Block, NEW i \in DOMAIN payloads[b]
        PROVE  payloads[b][i] \notin Queue'[b.proposer]
    <2>1. payloads[b][i] \in db[b.proposer] /\ b.proposer \in Node
      BY MempoolAssumption DEF Held
    <2>2. payloads[b][i] \notin Queue[b.proposer]
      BY DEF ProposedOnce
    <2> QED
      BY <1>1, <2>1, <2>2
  <1> QED
    BY <1>2 DEF ProposedOnce

LEMMA OwnPay ==
    ASSUME TypeOK, PayInv, NEW n \in Node, HandleOwnBlock(n)
    PROVE  PayInv'
  <1> DEFINE id == Head(own[n])
             p == NewBlock(n, id)
  <1>1. /\ own[n] # <<>> /\ own' = [own EXCEPT ![n] = Tail(@)]
        /\ UNCHANGED <<batch, payloads>>
        /\ own \in [Node -> Seq(Int)] /\ own[n] \in Seq(Int)
        /\ db \in [Node -> SUBSET Payload]
    BY DEF HandleOwnBlock, TypeOK
  <1>2. /\ Len(Tail(own[n])) = Len(own[n]) - 1 /\ Len(own[n]) \in Nat \ {0}
        /\ \A i \in 1..Len(Tail(own[n])) : Tail(own[n])[i] = own[n][i + 1]
        /\ own[n][1] = id /\ id \in Int
    BY <1>1, HeadTailProperties
  <1>3. p \notin db[n]
    BY <1>2 DEF PayInv, Fresh
  <1>4. p \in Payload /\ p.proposer = n /\ p.id = id
    BY <1>2 DEF Payload, NewBlock
  <1>5. \/ UNCHANGED <<db, Queue, net>>
        \/ /\ payloadProcess(n, p) /\ Queue' = [Queue EXCEPT ![n] = @ \cup {p}]
    BY DEF HandleOwnBlock
  <1> HIDE DEF p, id
  <1>6. Held' /\ ProposedOnce'
    <2>1. CASE UNCHANGED <<db, Queue, net>>
      BY <1>1, <2>1 DEF PayInv, Held, ProposedOnce
    <2>2. CASE payloadProcess(n, p) /\ Queue' = [Queue EXCEPT ![n] = @ \cup {p}]
      <3>1. /\ db' = [db EXCEPT ![n] = @ \cup {p}]
            /\ net' = net \cup MempoolSend(OtherBlockMsg(n, Others(n), p))
        BY <2>2 DEF payloadProcess
      <3>2. \A msg \in net' : msg \in net \/ (msg.type = "other" => msg.payload = p)
        BY SMTT(60), <3>1 DEF MempoolSend, OtherBlockMsg
      <3>3. \A m \in Node : Queue'[m] \subseteq db'[m]
        BY ZenonT(60), <1>1, <2>2, <3>1 DEF PayInv, Held, TypeOK
      <3>4. \A b \in Block : \A i \in DOMAIN payloads'[b] : payloads'[b][i] \in db'[b.proposer]
        BY <1>1, <3>1, MempoolAssumption DEF PayInv, Held
      <3>5. Held'
        BY Zenon, <1>4, <3>1, <3>2, <3>3, <3>4, HeldStep DEF PayInv
      <3>6. ProposedOnce'
        BY ZenonT(60), <1>1, <1>3, <2>2, QueuedStep DEF PayInv
      <3> QED
        BY <3>5, <3>6
    <2> QED
      BY SMTT(60), <1>5, <2>1, <2>2
  <1>7. ASSUME NEW m \in Node
        PROVE  /\ \A jd \in Int : NewBlock(m, jd) \in db'[m] => jd <= batch[m]
               /\ \A i \in 1..Len(own'[m]) :
                     /\ own'[m][i] \in 1..batch[m]
                     /\ NewBlock(m, own'[m][i]) \notin db'[m]
                     /\ \A j \in 1..Len(own'[m]) : own'[m][i] = own'[m][j] => i = j
    <2>1. /\ \A jd \in Int : NewBlock(m, jd) \in db[m] => jd <= batch[m]
          /\ \A i \in 1..Len(own[m]) :
                /\ own[m][i] \in 1..batch[m]
                /\ NewBlock(m, own[m][i]) \notin db[m]
                /\ \A j \in 1..Len(own[m]) : own[m][i] = own[m][j] => i = j
      BY DEF PayInv, Fresh
    <2>2. ASSUME NEW jd \in Int, NewBlock(m, jd) \in db'[m], NewBlock(m, jd) \notin db[m]
          PROVE  m = n /\ jd = id
      <3>1. m = n /\ NewBlock(m, jd) = p
        BY SMTT(60), <1>1, <1>5, <2>2 DEF payloadProcess
      <3> QED
        BY <3>1, NewBlockFields DEF p
    <2>3. CASE m # n
      <3>1. own'[m] = own[m]
        BY <1>1, <2>3
      <3>2. \A i \in 1..Len(own[m]) : own[m][i] \in Int
        BY SMTT(60), <2>1
      <3> QED
        BY <2>1, <2>2, <2>3, <3>1, <3>2
    <2>4. CASE m = n
      <3>1. own'[m] = Tail(own[n])
        BY SMTT(60), <1>1, <2>4
      <3>2. ASSUME NEW jd \in Int, NewBlock(m, jd) \in db'[m] PROVE jd <= batch[m]
        <4>1. id <= batch[m]
          BY SMTT(60), <1>2, <2>1, <2>4
        <4> QED
          BY <4>1, <2>1, <2>2, <3>2
      <3>3. ASSUME NEW i \in 1..Len(own'[m])
            PROVE  /\ i + 1 \in 1..Len(own[m]) /\ own'[m][i] = own[m][i + 1]
                   /\ own'[m][i] # id
        <4>1. i + 1 \in 1..Len(own[m]) /\ own'[m][i] = own[m][i + 1] /\ i + 1 # 1
          BY <1>2, <2>4, <3>1, <3>3
        <4>2. 1 \in 1..Len(own[m])
          BY <1>2, <2>4
        <4> QED
          BY SMTT(60), <4>1, <4>2, <1>2, <2>1, <2>4
      <3>4. ASSUME NEW i \in 1..Len(own'[m])
            PROVE  own'[m][i] \in 1..batch[m] /\ NewBlock(m, own'[m][i]) \notin db'[m]
        BY <2>1, <2>2, <3>3
      <3>5. ASSUME NEW i \in 1..Len(own'[m]), NEW j \in 1..Len(own'[m]),
                   own'[m][i] = own'[m][j]
            PROVE  i = j
        <4>1. i + 1 = j + 1
          BY ZenonT(60), <2>1, <3>3, <3>5
        <4> QED
          BY <4>1
      <3> QED
        BY <3>2, <3>4, <3>5
    <2> QED
      BY <2>3, <2>4
  <1>8. Fresh'
    BY ZenonT(60), <1>1, <1>7 DEF Fresh, NewBlock
  <1> QED
    BY <1>6, <1>8 DEF PayInv

LEMMA FromPoolPay ==
    ASSUME TypeOK, PayInv, NEW n \in Node, NEW b \in Block, NEW id \in Int,
           id = -1 \/ id = batch[n] + 1, MakeFromPool(n, b, id)
    PROVE  PayInv'
  <1> DEFINE p == NewBlock(n, id)
  <1>1. /\ b.proposer = n /\ Queue[n] = {} /\ payloads[b] = <<>>
        /\ batch' = [batch EXCEPT ![n] = IF id = -1 THEN @ ELSE id]
        /\ payloads' = [payloads EXCEPT ![b] = <<p>>]
        /\ db' = [db EXCEPT ![n] = @ \cup {p}]
        /\ net' = net \cup MempoolSend(OtherBlockMsg(n, Others(n), p))
        /\ UNCHANGED <<Queue, own>>
    BY DEF MakeFromPool, NextBlock, payloadProcess
  <1>2. /\ p \in Payload /\ p.proposer = n /\ p.id = id
    BY DEF Payload, NewBlock
  <1>3. /\ batch \in [Node -> Nat] /\ db \in [Node -> SUBSET Payload]
        /\ payloads \in [Block -> Seq(Payload)] /\ Queue \in [Node -> SUBSET Payload]
    BY DEF TypeOK
  <1>4. p \in db[n] => id = -1
    BY <1>3 DEF PayInv, Fresh
  <1>5. /\ payloads'[b] = <<p>> /\ \A i \in DOMAIN payloads'[b] : payloads'[b][i] = p
        /\ \A c \in Block : c # b => payloads'[c] = payloads[c]
    BY SMTT(60), <1>1, <1>3
  <1>6. Fresh'
    <2>1. batch' \in [Node -> Nat] /\ \A m \in Node : batch[m] <= batch'[m]
      BY <1>1, <1>3
    <2>2. p.id <= batch'[n]
      BY <1>1, <1>2, <1>3
    <2>3. \A i \in 1..Len(own[n]) : own[n][i] # p.id
      BY <1>2, <1>3 DEF PayInv, Fresh
    <2> QED
      BY ZenonT(60), <1>1, <1>2, <2>1, <2>2, <2>3, FreshStep DEF PayInv
  <1> HIDE DEF p
  <1>7. Held'
    <2>1. \A msg \in net' : msg \in net \/ (msg.type = "other" => msg.payload = p)
      BY <1>1 DEF MempoolSend, OtherBlockMsg
    <2>2. \A m \in Node : Queue'[m] \subseteq db'[m]
      BY <1>1, <1>3 DEF PayInv, Held
    <2>3. ASSUME NEW c \in Block, NEW i \in DOMAIN payloads'[c]
          PROVE  payloads'[c][i] \in db'[c.proposer]
      <3>1. CASE c = b
        BY <3>1, <1>1, <1>3, <1>5
      <3>2. CASE c # b
        <4>1. payloads[c][i] \in db[c.proposer] /\ c.proposer \in Node
          BY SMTT(60), <3>2, <1>5, MempoolAssumption DEF PayInv, Held
        <4> QED
          BY SMTT(60), <3>2, <4>1, <1>1, <1>3, <1>5
      <3> QED
        BY <3>1, <3>2
    <2> QED
      BY ZenonT(60), <1>1, <1>2, <2>1, <2>2, <2>3, HeldStep DEF PayInv
  <1>8. ProposedOnce'
    <2>1. ASSUME NEW c \in Block, c # b, c.proposer = n, NEW i \in DOMAIN payloads[c],
                 payloads[c][i] = p
          PROVE  id = -1
      BY <1>4, <2>1 DEF PayInv, Held
    <2>2. ASSUME NEW c \in Block, NEW i \in DOMAIN payloads'[c]
          PROVE  payloads'[c][i] \notin Queue[c.proposer]
      BY <2>2, <1>1, <1>5 DEF PayInv, ProposedOnce
    <2>3. ASSUME NEW c \in Block, NEW i \in DOMAIN payloads'[c],
                 NEW d \in Block, NEW j \in DOMAIN payloads'[d],
                 d.proposer = c.proposer, d # c, payloads'[d][j] = payloads'[c][i]
          PROVE  payloads'[c][i].id = -1
      <3>1. CASE c = b
        BY SMTT(60), <2>1, <2>3, <3>1, <1>1, <1>2, <1>5
      <3>2. CASE d = b
        BY ZenonT(60), <2>1, <2>3, <3>2, <1>1, <1>2, <1>5
      <3>3. CASE c # b /\ d # b
        BY <2>3, <3>3, <1>5 DEF PayInv, ProposedOnce
      <3> QED
        BY <3>1, <3>2, <3>3
    <2> QED
      BY SMTT(60), <2>2, <2>3, <1>1 DEF ProposedOnce
  <1> QED
    BY <1>6, <1>7, <1>8 DEF PayInv

LEMMA FromQueuePay ==
    ASSUME TypeOK, PayInv, NEW n \in Node, NEW b \in Block, NEW s \in Taken(n),
           MakeFromQueue(n, b, s)
    PROVE  PayInv'
  <1>1. /\ b.proposer = n /\ payloads[b] = <<>>
        /\ payloads' = [payloads EXCEPT ![b] = s]
        /\ Queue' = [Queue EXCEPT ![n] = Removed(n, s)]
        /\ UNCHANGED <<db, batch, own, net>>
    BY DEF MakeFromQueue, NextBlock, netVars
  <1>2. /\ payloads \in [Block -> Seq(Payload)] /\ Queue \in [Node -> SUBSET Payload]
    BY DEF TypeOK
  <1>3. \A i \in DOMAIN s : s[i] \in Queue[n] /\ s[i] \notin Removed(n, s)
    BY TakenTypes DEF Removed
  <1>4. /\ payloads'[b] = s
        /\ \A c \in Block : c # b => payloads'[c] = payloads[c]
        /\ \A m \in Node : Queue'[m] \subseteq Queue[m]
        /\ Queue'[n] = Removed(n, s)
    BY SMTT(60), <1>1, <1>2 DEF Removed
  <1>5. Fresh'
    BY SMTT(60), <1>1 DEF PayInv, Fresh, NewBlock
  <1>6. Held'
    <2>1. ASSUME NEW c \in Block, NEW i \in DOMAIN payloads'[c]
          PROVE  payloads'[c][i] \in db[c.proposer]
      <3>1. CASE c = b
        BY ZenonT(60), <3>1, <1>1, <1>3, <1>4 DEF PayInv, Held
      <3>2. CASE c # b
        BY <3>2, <1>4 DEF PayInv, Held
      <3> QED
        BY SMTT(60), <3>1, <3>2
    <2>2. \A m \in Node : Queue'[m] \subseteq db[m]
      BY <1>4 DEF PayInv, Held
    <2> QED
      BY <2>1, <2>2, <1>1 DEF PayInv, Held
  <1>7. ProposedOnce'
    <2>1. ASSUME NEW c \in Block, c # b, c.proposer = n, NEW i \in DOMAIN payloads[c],
                 NEW j \in DOMAIN s
          PROVE  payloads[c][i] # s[j]
      BY <2>1, <1>3 DEF PayInv, ProposedOnce
    <2>2. ASSUME NEW c \in Block, NEW i \in DOMAIN payloads'[c]
          PROVE  payloads'[c][i] \notin Queue'[c.proposer]
      <3>1. CASE c = b
        BY SMTT(60), <3>1, <1>1, <1>3, <1>4
      <3>2. CASE c # b
        <4>1. payloads[c][i] \notin Queue[c.proposer] /\ c.proposer \in Node
          BY <3>2, <1>4, MempoolAssumption DEF PayInv, ProposedOnce
        <4> QED
          BY SMTT(60), <3>2, <4>1, <1>4
      <3> QED
        BY <3>1, <3>2
    <2>3. ASSUME NEW c \in Block, NEW i \in DOMAIN payloads'[c],
                 NEW d \in Block, NEW j \in DOMAIN payloads'[d],
                 d.proposer = c.proposer, d # c, payloads'[d][j] = payloads'[c][i]
          PROVE  payloads'[c][i].id = -1
      <3>1. CASE c = b
        BY <2>1, <2>3, <3>1, <1>1, <1>4
      <3>2. CASE d = b
        BY SMTT(60), <2>1, <2>3, <3>2, <1>1, <1>4
      <3>3. CASE c # b /\ d # b
        BY <2>3, <3>3, <1>4 DEF PayInv, ProposedOnce
      <3> QED
        BY <3>1, <3>2, <3>3
    <2> QED
      BY <2>2, <2>3 DEF ProposedOnce
  <1> QED
    BY <1>5, <1>6, <1>7 DEF PayInv

LEMMA HandlePay ==
    ASSUME TypeOK, PayInv, NEW n \in Node, NEW msg \in net, Handle(n, msg)
    PROVE  PayInv'
  <1>1. msg \in Message
    BY DEF TypeOK
  <1>2. CASE HandleOthorBlock(n, msg)
    <2> DEFINE p == msg.payload
    <2>1. /\ p \in Payload /\ p \in db[p.proposer] /\ p.proposer \in Node
          /\ net' = net \ {msg} /\ UNCHANGED <<batch, own, payloads>>
      <3>1. msg.type = "other" /\ net' = net \ {msg} /\ UNCHANGED <<batch, own, payloads>>
        BY <1>2 DEF HandleOthorBlock, Receive
      <3>2. p \in Payload
        BY <1>1, <3>1 DEF Message
      <3>3. p \in db[p.proposer]
        BY <3>1 DEF PayInv, Held
      <3>4. p.proposer \in Node
        BY <3>2 DEF Payload
      <3> QED
        BY <3>1, <3>2, <3>3, <3>4
    <2>2. CASE UNCHANGED <<db, Queue>>
      <3>1. Held'
        BY SMTT(60), <2>1, <2>2 DEF PayInv, Held
      <3>2. Fresh' /\ ProposedOnce'
        BY <2>1, <2>2 DEF PayInv, Fresh, ProposedOnce
      <3> QED
        BY SMTT(60), <3>1, <3>2 DEF PayInv
    <2>3. CASE /\ p \notin db[n]
               /\ db' = [db EXCEPT ![n] = @ \cup {p}]
               /\ Queue' = [Queue EXCEPT ![n] = @ \cup {p}]
      <3> HIDE DEF p
      <3>1. p.proposer # n
        BY SMTT(60), <2>1, <2>3
      <3>2. Fresh'
        <4>1. batch' \in [Node -> Nat] /\ \A m \in Node : batch[m] <= batch'[m]
          BY <2>1 DEF TypeOK
        <4> QED
          BY Zenon, <2>1, <2>3, <3>1, <4>1, FreshStep DEF PayInv
      <3>3. ProposedOnce'
        BY Zenon, <2>1, <2>3, QueuedStep DEF PayInv
      <3>4. Held'
        <4>1. \A m \in Node : Queue'[m] \subseteq db'[m]
          BY <2>3 DEF PayInv, Held, TypeOK
        <4>2. \A b \in Block : \A i \in DOMAIN payloads'[b] :
                  payloads'[b][i] \in db'[b.proposer]
          BY ZenonT(60), <2>1, <2>3, MempoolAssumption DEF PayInv, Held, TypeOK
        <4> QED
          BY ZenonT(60), <2>1, <2>3, <4>1, <4>2, HeldStep DEF PayInv
      <3> QED
        BY <3>2, <3>3, <3>4 DEF PayInv
    <2> QED
      BY <1>2, <2>2, <2>3 DEF HandleOthorBlock, Known
  <1>3. CASE HandleRequestBlock(n, msg)
    <2> DEFINE D == Answered(n, msg.block, msg.digests)
    <2>1. D \subseteq db[n]
      BY ZenonT(60), <1>1, <1>3, AnsweredHeld DEF HandleRequestBlock, Receive, Message
    <2>2. /\ net' = (net \ {msg}) \cup
                    MempoolSend(UNION {OtherBlockMsg(n, {msg.from}, p) : p \in D})
          /\ UNCHANGED <<db, Queue, batch, own, payloads>>
      BY <1>3 DEF HandleRequestBlock, poolVars
    <2> HIDE DEF D
    <2>3. \A x \in net' : x \in net \/ (x.type = "other" => x.payload \in D)
      <3> TAKE x \in net'
      <3>1. x \in net \/ \E p \in D : x \in OtherBlockMsg(n, {msg.from}, p)
        BY ZenonT(60), <2>2 DEF MempoolSend
      <3>2. ASSUME NEW p, x \in OtherBlockMsg(n, {msg.from}, p) PROVE x.payload = p
        BY <3>2 DEF OtherBlockMsg
      <3> QED
        BY <3>1, <3>2
    <2>4. \A x \in net' : x.type = "other" => x.payload \in db[x.payload.proposer]
      BY ZenonT(60), <2>1, <2>3 DEF PayInv, Held
    <2>5. Held'
      BY ZenonT(60), <2>2, <2>4 DEF PayInv, Held
    <2>6. Fresh' /\ ProposedOnce'
      BY <2>2 DEF PayInv, Fresh, ProposedOnce, NewBlock
    <2> QED
      BY <2>5, <2>6 DEF PayInv
  <1> QED
    BY <1>2, <1>3 DEF Handle

LEMMA PayStep == IInv /\ PayInv /\ [Next]_vars => PayInv'
  <1> SUFFICES ASSUME IInv, PayInv, [Next]_vars PROVE PayInv'
    OBVIOUS
  <1>1. TypeOK
    BY ZenonT(60) DEF IInv
  <1>2. ASSUME UNCHANGED poolVars,
               \A msg \in net' : msg \in net \/ msg.type = "request"
        PROVE  PayInv'
    BY <1>2 DEF PayInv, Held, Fresh, ProposedOnce, NewBlock, poolVars
  <1>3. ASSUME NEW n \in Node, generateBlocks(n) \/ HandleOwnBlock(n) PROVE PayInv'
    BY <1>1, <1>3, PoolPay, OwnPay
  <1>4. ASSUME NEW n \in Node, HandleMakeBlockMsg(n) PROVE PayInv'
    <2>1. -1 \in Int /\ batch[n] + 1 \in Int
      BY <1>1 DEF TypeOK
    <2> QED
      BY <1>1, <1>4, <2>1, FromPoolPay, FromQueuePay DEF HandleMakeBlockMsg
  <1>5. ASSUME NEW n \in Node, NEW msg \in net, Handle(n, msg) PROVE PayInv'
    BY <1>1, <1>5, HandlePay
  <1>6. ASSUME NEW n \in Node, SyncBlock(n) PROVE PayInv'
    <2>1. /\ UNCHANGED poolVars
          /\ \/ UNCHANGED net
             \/ \E to, b, d : net' = net \cup MempoolSend(RequestBlockMsg(n, to, b, d))
      BY <1>6, Zenon DEF SyncBlock
    <2>2. \A to, b, d : \A x \in MempoolSend(RequestBlockMsg(n, to, b, d)) :
             x.type = "request"
      BY DEF MempoolSend, RequestBlockMsg
    <2>3. \A msg \in net' : msg \in net \/ msg.type = "request"
      BY <2>1, <2>2
    <2> QED
      BY <1>2, <2>1, <2>3
  <1>7. ASSUME NEW n \in Node, NEW b \in Block,
               Verify(n, b) \/ waiter(n, b) \/ LoopBack(n, b)
        PROVE  PayInv'
    BY SMTT(60), <1>2, <1>7 DEF Verify, waiter, LoopBack, netVars
  <1>8. ASSUME NEW n \in Node, NEW late \in SUBSET Block, Retry(n, late) PROVE PayInv'
    BY <1>2, <1>8 DEF Retry, MempoolSend, RequestBlockMsg
  <1>9. ASSUME NEW n \in Node, NEW m \in Node, Break(m, n) PROVE PayInv'
    BY <1>2, <1>9 DEF Break
  <1>10. ASSUME NEW msg \in net, Lose(msg) PROVE PayInv'
    BY <1>2, <1>10 DEF Lose
  <1>11. CASE UNCHANGED vars
    BY <1>2, <1>11 DEF vars, netVars
  <1> QED
    BY <1>3, <1>4, <1>5, <1>6, <1>7, <1>8, <1>9, <1>10, <1>11 DEF Next

\* A node puts a payload other than the empty one into one block at most and
\* does not queue it again, however often it is sent to it.
THEOREM ProposedOnceKept == Spec => []ProposedOnce
  <1>1. Init => PayInv
    BY DEF Init, PayInv, Held, Fresh, ProposedOnce
  <1>2. PayInv => ProposedOnce
    BY DEF PayInv
  <1> QED
    BY <1>1, <1>2, PayStep, Invariance, PTL DEF Spec

=============================================================================
