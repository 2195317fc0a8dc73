----------------------------- MODULE Core_proofs -----------------------------
(***************************************************************************)
(* Type correctness of Core and the order of what a node commits, for     *)
(* every committee, every number of epochs and rounds, every coin and     *)
(* every set of late payloads.  Then what the handlers send, that nothing *)
(* sent or counted is undone, and that no node misses a step of a round   *)
(* although the aggregators answer only once.                              *)
(***************************************************************************)
EXTENDS Core, FiniteSetTheorems, TLAPS

-----------------------------------------------------------------------------
(* Sequences. *)

LEMMA SeqAsFunctions == \A S : Seq(S) = UNION {[1..k -> S] : k \in Nat}
OBVIOUS

LEMMA EmptyIsSeq ==
    ASSUME NEW S
    PROVE  /\ <<>> \in Seq(S) /\ Len(<<>>) = 0
           /\ \A s \in Seq(S) : s # <<>> => Len(s) \in Nat \ {0}
OBVIOUS

LEMMA SeqLength ==
    ASSUME NEW S, NEW s \in Seq(S)
    PROVE  Len(s) \in Nat /\ DOMAIN s = 1..Len(s) /\ s \in [1..Len(s) -> S]
OBVIOUS

LEMMA SeqElement ==
    ASSUME NEW S, NEW s \in Seq(S), NEW k \in 1..Len(s)
    PROVE  s[k] \in S
OBVIOUS

LEMMA SeqConcat ==
    ASSUME NEW S, NEW s \in Seq(S), NEW t \in Seq(S)
    PROVE  /\ s \o t \in Seq(S)
           /\ Len(s \o t) = Len(s) + Len(t)
           /\ \A k \in 1..(Len(s) + Len(t)) :
                  (s \o t)[k] = IF k <= Len(s) THEN s[k] ELSE t[k - Len(s)]
OBVIOUS

LEMMA SeqHeadTail ==
    ASSUME NEW S, NEW s \in Seq(S), s # <<>>
    PROVE  /\ Head(s) \in S /\ Tail(s) \in Seq(S)
           /\ Len(Tail(s)) = Len(s) - 1
           /\ \A k \in 1..Len(Tail(s)) : Tail(s)[k] = s[k + 1]
OBVIOUS

-----------------------------------------------------------------------------
(* Messages. *)

\* What the fields of a message are.
LEMMA MessageFields ==
    ASSUME NEW x \in Message
    PROVE  /\ x.er \in ER /\ x.er[1] \in Epochs /\ x.er[2] \in Rounds
           /\ x.er = <<x.er[1], x.er[2]>>
           /\ x.type = "proposal" => x.block \in Block
           /\ x.type \in {"prevote", "finvote"} =>
                 x.leader \in Node /\ x.flag \in Flag /\ x.hash \in Hash
           /\ x.type = "halt" => x.leader \in Node /\ x.hash \in Hash
BY DEF Message, ER

\* The constructors make messages.
LEMMA MessageTypes ==
    /\ \A b \in Block, e \in Epochs, r \in Rounds : Proposal(b, e, r) \in Message
    /\ \A er \in ER, t \in {"finish", "done", "share"} : Signed(t, er) \in Message
    /\ \A l \in Node, er \in ER, f \in Flag, h \in Hash :
          /\ NewPrevote(l, er, f, h) \in Message
          /\ NewFinVote(l, er, f, h) \in Message
          /\ NewHalt(l, h, er) \in Message
BY CoreAssumption DEF Message, Proposal, Signed, NewPrevote, NewFinVote, NewHalt, ER

\* A node's block of an epoch is a block.
LEMMA BlockTypes == \A n \in Node, e \in Epochs : generatorBlock(n, e) \in Block
BY DEF generatorBlock, Block

\* Changing one entry of a table indexed by node and round.
LEMMA TableUpdate ==
    ASSUME NEW S, NEW f \in [Node -> [ER -> S]], NEW n \in Node, NEW er \in ER, NEW v \in S
    PROVE  [f EXCEPT ![n][er] = v] \in [Node -> [ER -> S]]
OBVIOUS

\* The first proposal of an epoch is at most one message.
LEMMA FirstProposalType ==
    ASSUME NEW n \in Node, NEW e \in Nat
    PROVE  FirstProposal(n, e) \in Seq(Message)
<1>1. CASE e \in Epochs
  <2>1. 0 \in Rounds
        BY CoreAssumption DEF Rounds
  <2>2. Proposal(generatorBlock(n, e), e, 0) \in Message
        BY <1>1, <2>1, MessageTypes, BlockTypes
  <2>3. QED BY <1>1, <2>2 DEF FirstProposal
<1>2. CASE e \notin Epochs
      BY <1>2 DEF FirstProposal
<1>3. QED BY <1>1, <1>2

\* The message a node takes next is a message.
LEMMA NextFromType ==
    ASSUME TypeOK, NEW n \in Node, NEW m \in Node, HasNext(n, m)
    PROVE  NextFrom(n, m) \in Message
<1>1. CASE m = n
      BY <1>1, SeqHeadTail DEF TypeOK, HasNext, NextFrom
<1>2. CASE m # n
  <2>1. log[m] \in Seq(Message) /\ cur[n][m] \in Nat /\ cur[n][m] < Len(log[m])
        BY <1>2 DEF TypeOK, HasNext
  <2>2. cur[n][m] + 1 \in 1..Len(log[m])
        BY <2>1
  <2>3. QED BY <1>2, <2>1, <2>2, SeqElement DEF NextFrom
<1>3. QED BY <1>1, <1>2

\* Taking a message and sending messages keeps the types of the links.
LEMMA TakeAndSendType ==
    ASSUME TypeOK, NEW n \in Node, NEW m \in Node, HasNext(n, m),
           NEW out \in Seq(Message), TakeAndSend(n, m, out)
    PROVE  /\ log' \in [Node -> Seq(Message)]
           /\ cur' \in [Node -> [Node -> Nat]]
           /\ self' \in [Node -> Seq(Message)]
<1>1. log[n] \o out \in Seq(Message)
      BY SeqConcat DEF TypeOK
<1>2. (IF m = n THEN Tail(self[n]) ELSE self[n]) \in Seq(Message)
      BY SeqHeadTail DEF TypeOK, HasNext
<1>3. (IF m = n THEN Tail(self[n]) ELSE self[n]) \o out \in Seq(Message)
      BY <1>2, SeqConcat
<1>4. cur[n][m] + 1 \in Nat
      BY DEF TypeOK
<1>5. QED BY ZenonT(60), <1>1, <1>3, <1>4 DEF TypeOK, TakeAndSend

-----------------------------------------------------------------------------
(* Commit. *)

CommitorType == [blocks : SUBSET Block, out : Seq(Block)]

InOrder(out) == \A k \in 1..Len(out) : out[k].epoch = k - 1

\* Sequence t goes on where s ends.
Extends(s, t) == Len(s) <= Len(t) /\ \A k \in 1..Len(s) : t[k] = s[k]

\* A gap-free run of epochs that starts at i is as long as it has members.
LEMMA RunLength ==
    ASSUME NEW i \in Nat, NEW S \in SUBSET Epochs,
           \A e \in S : i <= e /\ \A d \in i..e : d \in S
    PROVE  /\ Cardinality(S) \in Nat
           /\ \A k \in 1..Cardinality(S) : i + k - 1 \in S
<1>1. IsFiniteSet(S) /\ Cardinality(S) \in Nat
  <2>1. MaxEpoch \in Int /\ 0 \in Int
        BY CoreAssumption
  <2>2. IsFiniteSet(Epochs)
        BY <2>1, FS_Interval DEF Epochs
  <2>3. IsFiniteSet(S)
        BY <2>2, FS_Subset
  <2>4. QED BY <2>3, FS_CardinalityType
<1>2. ASSUME NEW k \in 1..Cardinality(S), i + k - 1 \notin S
      PROVE  FALSE
  <2>1. S \in SUBSET (i..(i + k - 2))
    <3> SUFFICES ASSUME NEW e \in S PROVE e \in i..(i + k - 2)
        OBVIOUS
    <3>1. e \in Nat /\ i <= e
          BY CoreAssumption DEF Epochs
    <3>2. ~(i + k - 1 \in i..e)
          BY <1>2
    <3>3. QED BY <1>1, <3>1, <3>2
  <2>2. i \in Int /\ i + k - 2 \in Int
        BY <1>1
  <2>3. IsFiniteSet(i..(i + k - 2))
        /\ Cardinality(i..(i + k - 2)) = IF i > i + k - 2 THEN 0 ELSE (i + k - 2) - i + 1
        BY <2>2, FS_Interval
  <2>4. Cardinality(S) <= Cardinality(i..(i + k - 2))
        BY Zenon, <2>1, <2>3, FS_Subset
  <2>5. QED BY <1>1, <2>3, <2>4
<1>3. QED BY <1>1, <1>2

\* Commit keeps the committor's type, hands blocks over in the order of their
\* epochs and takes none back.
LEMMA CommitOK ==
    ASSUME NEW c \in CommitorType, NEW b \in Block
    PROVE  /\ Commit(c, b) \in CommitorType
           /\ InOrder(c.out) => InOrder(Commit(c, b).out)
           /\ Extends(c.out, Commit(c, b).out)
<1>1. CASE b.epoch < Index(c)
  <2>1. Commit(c, b) = c
        BY <1>1 DEF Commit
  <2>2. Len(c.out) \in Nat
        BY DEF CommitorType
  <2>3. QED BY <2>1, <2>2 DEF Extends
<1>2. CASE ~(b.epoch < Index(c))
  <2> DEFINE i == Index(c)
             blocks == {x \in c.blocks : x.epoch # b.epoch} \cup {b}
             next == {e \in Epochs : /\ i <= e
                                     /\ \A d \in i..e : \E x \in blocks : x.epoch = d}
             pick(k) == CHOOSE x \in blocks : x.epoch = i + k - 1
             handed == [k \in 1..Cardinality(next) |-> pick(k)]
             rest == {x \in blocks : x.epoch \notin next}
  <2>1. i \in Nat /\ c.out \in Seq(Block) /\ blocks \in SUBSET Block
        BY DEF Index, CommitorType
  <2>2. Cardinality(next) \in Nat /\ \A k \in 1..Cardinality(next) : i + k - 1 \in next
    <3>1. next \in SUBSET Epochs
          OBVIOUS
    <3>2. \A e \in next : i <= e /\ \A d \in i..e : d \in next
          BY <2>1, CoreAssumption DEF Epochs
    <3>3. QED BY <2>1, <3>1, <3>2, RunLength
  <2>3. ASSUME NEW k \in 1..Cardinality(next)
        PROVE  pick(k) \in Block /\ pick(k).epoch = i + k - 1
    <3>1. i + k - 1 \in next
          BY <2>2
    <3>2. i + k - 1 \in i..(i + k - 1)
          BY <2>1, <2>2
    <3>3. \E x \in blocks : x.epoch = i + k - 1
          BY <3>1, <3>2
    <3>4. pick(k) \in blocks /\ pick(k).epoch = i + k - 1
          BY <3>3
    <3>5. QED BY Zenon, <2>1, <3>4
  <2>4. /\ handed \in Seq(Block) /\ Len(handed) = Cardinality(next)
        /\ \A k \in 1..Cardinality(next) : handed[k].epoch = i + k - 1
    <3> HIDE DEF pick, next
    <3>1. handed \in [1..Cardinality(next) -> Block]
          BY <2>3
    <3>2. handed \in Seq(Block)
          BY <2>2, <3>1, SeqAsFunctions
    <3>3. Len(handed) = Cardinality(next)
          BY <2>2, <3>2, SeqLength
    <3>4. QED BY Zenon, <2>3, <3>2, <3>3
  <2>5. Commit(c, b) = [blocks |-> rest, out |-> c.out \o handed]
        BY <1>2 DEF Commit
  <2> HIDE DEF handed
  <2>6. /\ c.out \o handed \in Seq(Block)
        /\ Len(c.out \o handed) = i + Len(handed)
        /\ \A k \in 1..(i + Len(handed)) :
              (c.out \o handed)[k] = IF k <= i THEN c.out[k] ELSE handed[k - i]
        BY Zenon, <2>1, <2>4, SeqConcat DEF Index
  <2>7. rest \in SUBSET Block
        BY <2>1
  <2>8. Commit(c, b) \in CommitorType
        BY <2>5, <2>6, <2>7 DEF CommitorType
  <2>9. ASSUME InOrder(c.out) PROVE InOrder(Commit(c, b).out)
    <3> SUFFICES ASSUME NEW k \in 1..(i + Len(handed))
                 PROVE  (c.out \o handed)[k].epoch = k - 1
        BY <2>5, <2>6 DEF InOrder
    <3>1. CASE k <= i
          BY <2>1, <2>2, <2>4, <2>6, <2>9, <3>1 DEF InOrder, Index
    <3>2. CASE ~(k <= i)
      <4>1. k - i \in 1..Cardinality(next)
            BY <2>1, <2>2, <2>4, <3>2
      <4>2. handed[k - i].epoch = i + (k - i) - 1
            BY <2>4, <4>1
      <4>3. (c.out \o handed)[k] = handed[k - i]
            BY <2>6, <3>2
      <4>4. QED BY <2>1, <2>2, <2>4, <4>2, <4>3
    <3>3. QED BY ZenonT(60), <3>1, <3>2
  <2>10. Extends(c.out, Commit(c, b).out)
    <3>1. Len(c.out) = i /\ Len(handed) \in Nat
          BY <2>2, <2>4 DEF Index
    <3>2. Commit(c, b).out = c.out \o handed
          BY <2>5
    <3> HIDE DEF i
    <3>3. i <= i + Len(handed) /\ \A k \in 1..i : k \in 1..(i + Len(handed)) /\ k <= i
          BY <2>1, <3>1
    <3>4. \A k \in 1..i : (c.out \o handed)[k] = c.out[k]
          BY Zenon, <2>6, <3>3
    <3>5. QED BY Zenon, <2>6, <3>1, <3>2, <3>3, <3>4 DEF Extends
  <2>11. QED BY <2>8, <2>9, <2>10
<1>3. QED BY <1>1, <1>2

-----------------------------------------------------------------------------
(* The actions. *)

IInv == TypeOK /\ CommittedInOrder

\* Committing a block on one node keeps the types and the order.
LEMMA CommitStep ==
    ASSUME IInv, NEW n \in Node, NEW b \in Block,
           \/ commitor' = commitor
           \/ commitor' = [commitor EXCEPT ![n] = Commit(@, b)]
    PROVE  commitor' \in [Node -> CommitorType] /\ CommittedInOrder'
<1>1. /\ commitor \in [Node -> CommitorType]
      /\ \A a \in Node : InOrder(commitor[a].out)
      BY ZenonT(60) DEF IInv, TypeOK, CommitorType, CommittedInOrder, InOrder
<1>2. Commit(commitor[n], b) \in CommitorType /\ InOrder(Commit(commitor[n], b).out)
      BY <1>1, CommitOK
<1>3. commitor' \in [Node -> CommitorType] /\ \A a \in Node : InOrder(commitor'[a].out)
      BY <1>1, <1>2
<1>4. QED BY <1>3 DEF CommittedInOrder, InOrder

\* Steps that commit nothing keep the order.
LEMMA NoCommitStep ==
    ASSUME IInv, commitor' = commitor
    PROVE  commitor' \in [Node -> CommitorType] /\ CommittedInOrder'
BY DEF IInv, TypeOK, CommitorType, CommittedInOrder

\* Asking for the payloads of a block keeps the type of pending.
LEMMA FetchType ==
    ASSUME TypeOK, NEW n \in Node, NEW b \in Block, Fetch(n, b) \/ pending' = pending
    PROVE  pending' \in [Node -> SUBSET Block]
<1>1. pending \in [Node -> SUBSET Block]
      BY DEF TypeOK
<1>2. QED BY <1>1 DEF Fetch

\* Dropping a message of an epoch the node has left.
LEMMA DiscardIInv ==
    ASSUME IInv, NEW n \in Node, NEW m \in Node, Discard(n, m)
    PROVE  IInv'
<1>1. /\ log' \in [Node -> Seq(Message)] /\ self' \in [Node -> Seq(Message)]
      /\ cur' \in [Node -> [Node -> Nat]]
      BY ZenonT(60), TakeAndSendType, EmptyIsSeq DEF Discard, IInv
<1>2. CommittedInOrder'
      BY NoCommitStep DEF Discard
<1>3. QED BY Zenon, <1>1, <1>2 DEF IInv, TypeOK, Discard, voteVars, poolVars, spbVars

\* A phase-one proposal, stored or committed late.
LEMMA ProposalIInv ==
    ASSUME IInv, NEW n \in Node, NEW m \in Node, handleSpbProposal(n, m)
    PROVE  IInv'
<1> DEFINE p == NextFrom(n, m)
<1>1. /\ log' \in [Node -> Seq(Message)] /\ self' \in [Node -> Seq(Message)]
      /\ cur' \in [Node -> [Node -> Nat]]
      BY Zenon, TakeAndSendType, EmptyIsSeq DEF handleSpbProposal, IInv
<1>2. p.block \in Block /\ p.er \in ER
      BY NextFromType, MessageFields DEF handleSpbProposal, IInv
<1>3. commitor' \in [Node -> CommitorType] /\ CommittedInOrder'
  <2>1. \/ commitor' = commitor
        \/ commitor' = [commitor EXCEPT ![n] = Commit(@, p.block)]
        BY DEF handleSpbProposal
  <2>2. QED BY <1>2, <2>1, CommitStep
<1>4. pending' \in [Node -> SUBSET Block]
  <2>1. Fetch(n, p.block) \/ pending' = pending
        BY DEF handleSpbProposal
  <2>2. QED BY <1>2, <2>1, FetchType DEF IInv
<1>5. /\ blockStore' \in [Node -> SUBSET Block]
      /\ calls' \in [Node -> SUBSET (ER \X Node)]
  <2>1. /\ \/ blockStore' = blockStore
           \/ blockStore' = [blockStore EXCEPT ![n] = @ \cup {p.block}]
        /\ \/ calls' = calls
           \/ calls' = [calls EXCEPT ![n] = @ \cup {<<p.er, m>>}]
        BY DEF handleSpbProposal
  <2>2. /\ blockStore \in [Node -> SUBSET Block]
        /\ calls \in [Node -> SUBSET (ER \X Node)]
        BY ZenonT(60) DEF IInv, TypeOK
  <2>3. blockStore' \in [Node -> SUBSET Block]
        BY <1>2, <2>1, <2>2
  <2>4. <<p.er, m>> \in ER \X Node
        BY <1>2
  <2> HIDE DEF p
  <2>5. calls' \in [Node -> SUBSET (ER \X Node)]
        BY <2>1, <2>2, <2>4
  <2>6. QED BY <2>3, <2>5
<1>6. QED BY Zenon, <1>1, <1>3, <1>4, <1>5
          DEF IInv, TypeOK, handleSpbProposal, voteVars, CommitorType

\* What invokeDoneAndShare sends.
LEMMA DoneAndShareType ==
    ASSUME NEW n \in Node, NEW er \in ER
    PROVE  DoneAndShare(n, er) \in Seq(Message)
BY MessageTypes DEF DoneAndShare

\* A Finish message.
LEMMA FinishIInv ==
    ASSUME IInv, NEW n \in Node, NEW m \in Node, handleFinish(n, m)
    PROVE  IInv'
<1> DEFINE er == NextFrom(n, m).er
           flag == Reached(FinishFlags[n][er], m, HightThreshold)
           out == IF flag THEN DoneAndShare(n, er) ELSE <<>>
<1>1. HasNext(n, m) /\ TakeAndSend(n, m, out)
      BY DEF handleFinish, Receive
<1>2. er \in ER
      BY <1>1, NextFromType, MessageFields DEF IInv
<1>3. out \in Seq(Message)
      BY <1>2, DoneAndShareType, EmptyIsSeq
<1>4. /\ log' \in [Node -> Seq(Message)] /\ self' \in [Node -> Seq(Message)]
      /\ cur' \in [Node -> [Node -> Nat]]
      BY Zenon, <1>1, <1>3, TakeAndSendType DEF IInv
<1>5. CommittedInOrder'
      BY NoCommitStep DEF handleFinish
<1>6. FinishFlags' \in [Node -> [ER -> SUBSET Node]]
  <2>1. FinishFlags \in [Node -> [ER -> SUBSET Node]]
        BY DEF IInv, TypeOK
  <2>2. FinishFlags' = [FinishFlags EXCEPT ![n][er] = @ \cup {m}]
        BY DEF handleFinish
  <2>3. QED BY <1>2, <2>1, <2>2
<1>7. DoneFlags' \in [Node -> SUBSET ER]
      BY ZenonT(60), <1>2 DEF handleFinish, IInv, TypeOK
<1>8. QED BY Zenon, <1>4, <1>5, <1>6, <1>7 DEF IInv, TypeOK, handleFinish, poolVars, spbVars

\* What processLeader sends.
LEMMA ProcessLeaderType ==
    ASSUME NEW n \in Node, NEW er \in ER, NEW ready, NEW leader \in Node \cup {NONE}
    PROVE  processLeader(n, er, ready, leader) \in Seq(Message)
<1>1. CASE er \in ready /\ leader # NONE
  <2>1. generatorBlock(leader, er[1]) \in Hash /\ NoHash \in Hash /\ leader \in Node
        BY <1>1, BlockTypes DEF Hash, ER
  <2>2. LeaderMessage(n, er, leader) \in Message
        BY <2>1, MessageTypes DEF LeaderMessage, Flag
  <2>3. QED BY <1>1, <2>2 DEF processLeader
<1>2. CASE ~(er \in ready /\ leader # NONE)
      BY <1>2, EmptyIsSeq DEF processLeader
<1>3. QED BY <1>1, <1>2

\* A Done message.
LEMMA DoneIInv ==
    ASSUME IInv, NEW n \in Node, NEW m \in Node, handleDone(n, m)
    PROVE  IInv'
<1> DEFINE er == NextFrom(n, m).er
           low == Reached(doneAuthors[n][er], m, LowThreshold)
           high == ~low /\ Reached(doneAuthors[n][er], m, HightThreshold)
           ready == IF high THEN ReadyFlags[n] \cup {er} ELSE ReadyFlags[n]
           out == IF low THEN DoneAndShare(n, er)
                  ELSE IF high THEN processLeader(n, er, ready, leaders[n][er])
                  ELSE <<>>
<1>1. HasNext(n, m) /\ TakeAndSend(n, m, out)
      BY SMTT(60) DEF handleDone, Receive
<1>2. er \in ER
      BY <1>1, NextFromType, MessageFields DEF IInv
<1>3. out \in Seq(Message)
  <2>1. leaders[n][er] \in Node \cup {NONE}
    <3>1. leaders \in [Node -> [ER -> Node \cup {NONE}]]
          BY Zenon DEF IInv, TypeOK
    <3>2. QED BY <1>2, <3>1
  <2>2. processLeader(n, er, ready, leaders[n][er]) \in Seq(Message)
        BY SMTT(60), <1>2, <2>1, ProcessLeaderType
  <2>3. QED BY <1>2, <2>2, DoneAndShareType, EmptyIsSeq
<1>4. /\ log' \in [Node -> Seq(Message)] /\ self' \in [Node -> Seq(Message)]
      /\ cur' \in [Node -> [Node -> Nat]]
      BY Zenon, <1>1, <1>3, TakeAndSendType DEF IInv
<1>5. CommittedInOrder'
      BY NoCommitStep DEF handleDone
<1>6. doneAuthors' \in [Node -> [ER -> SUBSET Node]]
  <2>1. doneAuthors \in [Node -> [ER -> SUBSET Node]]
        BY DEF IInv, TypeOK
  <2>2. doneAuthors' = [doneAuthors EXCEPT ![n][er] = @ \cup {m}]
        BY DEF handleDone
  <2>3. QED BY <1>2, <2>1, <2>2
<1>7. DoneFlags' \in [Node -> SUBSET ER]
      BY ZenonT(60), <1>2 DEF handleDone, IInv, TypeOK
<1>8. ReadyFlags' \in [Node -> SUBSET ER]
      BY ZenonT(60), <1>2 DEF handleDone, IInv, TypeOK
<1>9. QED BY ZenonT(60), <1>4, <1>5, <1>6, <1>7, <1>8
             DEF IInv, TypeOK, handleDone, poolVars, spbVars

\* A coin share.
LEMMA ElectShareIInv ==
    ASSUME IInv, NEW n \in Node, NEW m \in Node, handleElectShare(n, m)
    PROVE  IInv'
<1> DEFINE er == NextFrom(n, m).er
           node == ElectAppend(n, m, er)
           out == IF node # NONE THEN processLeader(n, er, ReadyFlags[n], node) ELSE <<>>
<1>1. HasNext(n, m) /\ TakeAndSend(n, m, out)
      BY DEF handleElectShare, Receive
<1>2. er \in ER
      BY <1>1, NextFromType, MessageFields DEF IInv
<1>3. node \in Node \cup {NONE}
      BY <1>2 DEF IInv, TypeOK, ElectAppend
<1>4. out \in Seq(Message)
  <2> HIDE DEF er, node
  <2>1. QED BY <1>2, <1>3, ProcessLeaderType, EmptyIsSeq
<1>5. /\ log' \in [Node -> Seq(Message)] /\ self' \in [Node -> Seq(Message)]
      /\ cur' \in [Node -> [Node -> Nat]]
      BY ZenonT(60), <1>1, <1>4, TakeAndSendType DEF IInv
<1>6. CommittedInOrder'
      BY NoCommitStep DEF handleElectShare
<1>7. shareAuthors' \in [Node -> [ER -> SUBSET Node]]
  <2>1. shareAuthors \in [Node -> [ER -> SUBSET Node]]
        BY DEF IInv, TypeOK
  <2>2. shareAuthors' = [shareAuthors EXCEPT ![n][er] = @ \cup {m}]
        BY DEF handleElectShare
  <2>3. QED BY <1>2, <2>1, <2>2
<1>8. leaders' \in [Node -> [ER -> Node \cup {NONE}]]
  <2>1. leaders \in [Node -> [ER -> Node \cup {NONE}]]
        BY DEF IInv, TypeOK
  <2>2. leaders' = leaders \/ leaders' = [leaders EXCEPT ![n][er] = node]
        BY DEF handleElectShare, AddShareVote, SetLeader
  <2> HIDE DEF er, node
  <2>3. QED BY <1>2, <1>3, <2>1, <2>2
<1>9. QED BY ZenonT(60), <1>5, <1>6, <1>7, <1>8
          DEF IInv, TypeOK, handleElectShare, poolVars, spbVars

\* Adding a vote keeps the type of an aggregator.
LEMMA AddVoteType ==
    ASSUME NEW votes \in [Flag -> SUBSET Node], NEW a \in Node, NEW f \in Flag
    PROVE  AddVote(votes, a, f) \in [Flag -> SUBSET Node]
BY SMTT(60) DEF AddVote

\* A prevote.
LEMMA PrevoteIInv ==
    ASSUME IInv, NEW n \in Node, NEW m \in Node, handlePrevote(n, m)
    PROVE  IInv'
<1> DEFINE pv == NextFrom(n, m)
           action == PrevoteAction(prevotes[n][pv.er], m, pv.flag)
           out == IF action = "none" THEN <<>>
                  ELSE <<NewFinVote(pv.leader, pv.er, action, pv.hash)>>
<1>1. HasNext(n, m) /\ TakeAndSend(n, m, out) /\ pv.type = "prevote"
      BY SMTT(60) DEF handlePrevote, Receive
<1>2. pv.er \in ER /\ pv.flag \in Flag /\ pv.leader \in Node /\ pv.hash \in Hash
      BY <1>1, NextFromType, MessageFields DEF IInv
<1>3. out \in Seq(Message)
  <2>1. action \in Flag \cup {"none"}
        BY DEF PrevoteAction, Flag
  <2>2. CASE action \in Flag
    <3>1. NewFinVote(pv.leader, pv.er, action, pv.hash) \in Message
          BY <1>2, <2>2, MessageTypes
    <3>2. QED BY <3>1, EmptyIsSeq
  <2>3. CASE action = "none"
        BY <2>3, EmptyIsSeq
  <2>4. QED BY <2>1, <2>2, <2>3
<1>4. /\ log' \in [Node -> Seq(Message)] /\ self' \in [Node -> Seq(Message)]
      /\ cur' \in [Node -> [Node -> Nat]]
      BY Zenon, <1>1, <1>3, TakeAndSendType DEF IInv
<1>5. CommittedInOrder'
      BY NoCommitStep DEF handlePrevote
<1>6. prevotes' \in [Node -> [ER -> [Flag -> SUBSET Node]]]
  <2>1. prevotes \in [Node -> [ER -> [Flag -> SUBSET Node]]]
        BY DEF IInv, TypeOK
  <2>2. prevotes' = [prevotes EXCEPT ![n][pv.er] =
                                    AddVote(prevotes[n][pv.er], m, pv.flag)]
        BY DEF handlePrevote
  <2> HIDE DEF pv
  <2>3. prevotes[n][pv.er] \in [Flag -> SUBSET Node]
        BY <1>2, <2>1
  <2>4. AddVote(prevotes[n][pv.er], m, pv.flag) \in [Flag -> SUBSET Node]
        BY ZenonT(60), <1>2, <2>3, AddVoteType
  <2>5. QED BY <1>2, <2>1, <2>2, <2>4, TableUpdate
<1>7. QED BY ZenonT(60), <1>4, <1>5, <1>6 DEF IInv, TypeOK, handlePrevote, poolVars, spbVars

\* What advanceNextRound sends.
LEMMA NextRoundType ==
    ASSUME TypeOK, NEW n \in Node, NEW er \in ER, NEW action, NEW hash
    PROVE  NextRound(n, er, action, hash) \in Seq(Message)
<1> DEFINE own == generatorBlock(n, er[1])
           b == IF action = "yes" THEN hash
                ELSE IF <<er, n>> \in accepted[n] THEN own ELSE NoHash
<1>1. CASE b \in blockStore[n] /\ er[2] < MaxRound
  <2>1. b \in Block /\ er[1] \in Epochs /\ er[2] + 1 \in Rounds
    <3>1. blockStore[n] \in SUBSET Block
          BY DEF TypeOK
    <3>2. er[1] \in Epochs /\ er[2] \in 0..MaxRound
          BY DEF ER, Rounds
    <3>3. er[2] + 1 \in 0..MaxRound
          BY <1>1, <3>2, CoreAssumption
    <3>4. QED BY <1>1, <3>1, <3>2, <3>3 DEF Rounds
  <2>2. Proposal(b, er[1], er[2] + 1) \in Message
        BY <2>1, MessageTypes
  <2>3. NextRound(n, er, action, hash) = <<Proposal(b, er[1], er[2] + 1)>>
        BY <1>1 DEF NextRound
  <2>4. QED BY <2>2, <2>3
<1>2. CASE ~(b \in blockStore[n] /\ er[2] < MaxRound)
      BY <1>2, EmptyIsSeq DEF NextRound
<1>3. QED BY <1>1, <1>2

\* A FinVote.
LEMMA FinvoteIInv ==
    ASSUME IInv, NEW n \in Node, NEW m \in Node, handleFinvote(n, m)
    PROVE  IInv'
<1> DEFINE fv == NextFrom(n, m)
           action == FinVoteAction(finvotes[n][fv.er], m, fv.flag)
           out == CASE action = "none"   -> <<>>
                    [] action = "commit" -> <<NewHalt(fv.leader, fv.hash, fv.er)>>
                    [] OTHER             -> NextRound(n, fv.er, action, fv.hash)
<1>1. HasNext(n, m) /\ TakeAndSend(n, m, out) /\ fv.type = "finvote"
      BY DEF handleFinvote, Receive
<1>2. fv.er \in ER /\ fv.flag \in Flag /\ fv.leader \in Node /\ fv.hash \in Hash
      BY <1>1, NextFromType, MessageFields DEF IInv
<1>3. out \in Seq(Message)
  <2>1. NewHalt(fv.leader, fv.hash, fv.er) \in Message
        BY <1>2, MessageTypes
  <2>2. NextRound(n, fv.er, action, fv.hash) \in Seq(Message)
        BY <1>2, NextRoundType DEF IInv
  <2>3. CASE action = "none"
        BY <2>3, EmptyIsSeq
  <2>4. CASE action = "commit"
        BY <2>1, <2>4
  <2>5. CASE action # "none" /\ action # "commit"
        BY <2>2, <2>5
  <2>6. QED BY <2>3, <2>4, <2>5
<1>4. /\ log' \in [Node -> Seq(Message)] /\ self' \in [Node -> Seq(Message)]
      /\ cur' \in [Node -> [Node -> Nat]]
      BY Zenon, <1>1, <1>3, TakeAndSendType DEF IInv
<1>5. CommittedInOrder'
      BY NoCommitStep DEF handleFinvote
<1>6. finvotes' \in [Node -> [ER -> [Flag -> SUBSET Node]]]
  <2>1. finvotes \in [Node -> [ER -> [Flag -> SUBSET Node]]]
        BY DEF IInv, TypeOK
  <2>2. finvotes' = [finvotes EXCEPT ![n][fv.er] =
                                    AddVote(finvotes[n][fv.er], m, fv.flag)]
        BY DEF handleFinvote
  <2> HIDE DEF fv
  <2>3. finvotes[n][fv.er] \in [Flag -> SUBSET Node]
        BY <1>2, <2>1
  <2>4. AddVote(finvotes[n][fv.er], m, fv.flag) \in [Flag -> SUBSET Node]
        BY ZenonT(60), <1>2, <2>3, AddVoteType
  <2>5. QED BY <1>2, <2>1, <2>2, <2>4, TableUpdate
<1>7. QED BY Zenon, <1>4, <1>5, <1>6 DEF IInv, TypeOK, handleFinvote, poolVars, spbVars

\* A Halt message.
LEMMA HaltIInv ==
    ASSUME IInv, NEW n \in Node, NEW m \in Node, handleHalt(n, m)
    PROVE  IInv'
<1> DEFINE h == NextFrom(n, m)
           e == h.er[1]
<1>1. HasNext(n, m) /\ h.type = "halt"
      BY DEF handleHalt, Receive
<1>2. /\ h.er \in ER /\ h.leader \in Node /\ e \in Epochs /\ e + 1 \in Nat
      /\ e + 1 \in 0..(MaxEpoch + 1)
  <2>1. h \in Message
        BY <1>1, NextFromType DEF IInv
  <2>2. h.er \in ER /\ h.leader \in Node /\ e \in Epochs
    <3> HIDE DEF h
    <3>1. QED BY <1>1, <2>1, MessageFields
  <2> HIDE DEF e
  <2>3. QED BY <2>2, CoreAssumption DEF Epochs
<1>3. leaders' \in [Node -> [ER -> Node \cup {NONE}]]
  <2>1. leaders \in [Node -> [ER -> Node \cup {NONE}]]
        BY DEF IInv, TypeOK
  <2>2. leaders' = [leaders EXCEPT ![n][h.er] = h.leader]
        BY SMTT(60) DEF handleHalt, SetLeader
  <2> HIDE DEF h
  <2>3. QED BY <1>2, <2>1, <2>2, TableUpdate
<1>4. CASE h.hash \notin blockStore[n]
  <2>1. TakeAndSend(n, m, <<>>) /\ UNCHANGED <<Epoch, HaltFlags, commitor, pending>>
        BY ZenonT(60), <1>4 DEF handleHalt
  <2>2. /\ log' \in [Node -> Seq(Message)] /\ self' \in [Node -> Seq(Message)]
        /\ cur' \in [Node -> [Node -> Nat]]
        BY ZenonT(60), <1>1, <2>1, TakeAndSendType, EmptyIsSeq DEF IInv
  <2>3. CommittedInOrder'
        BY <2>1, NoCommitStep
  <2>4. QED BY ZenonT(60), <1>3, <2>1, <2>2, <2>3
               DEF IInv, TypeOK, handleHalt, voteVars, spbVars
<1>5. CASE h.hash \in blockStore[n]
  <2>1. h.hash \in Block
        BY SMTT(60), <1>5 DEF IInv, TypeOK
  <2>2. TakeAndSend(n, m, FirstProposal(n, e + 1)) /\ Fetch(n, h.hash)
        BY <1>5 DEF handleHalt
  <2>3. /\ log' \in [Node -> Seq(Message)] /\ self' \in [Node -> Seq(Message)]
        /\ cur' \in [Node -> [Node -> Nat]]
    <3>1. FirstProposal(n, e + 1) \in Seq(Message)
          BY ZenonT(60), <1>2, FirstProposalType
    <3>2. QED BY <1>1, <2>2, <3>1, TakeAndSendType DEF IInv
  <2>4. commitor' \in [Node -> CommitorType] /\ CommittedInOrder'
    <3>1. \/ commitor' = commitor
          \/ commitor' = [commitor EXCEPT ![n] = Commit(@, h.hash)]
          BY <1>5 DEF handleHalt
    <3>2. QED BY <2>1, <3>1, CommitStep
  <2>5. pending' \in [Node -> SUBSET Block]
        BY <2>1, <2>2, FetchType DEF IInv
  <2>6. /\ HaltFlags' \in [Node -> SUBSET Epochs]
        /\ Epoch' \in [Node -> 0..(MaxEpoch + 1)]
    <3>1. /\ HaltFlags' = [HaltFlags EXCEPT ![n] = @ \cup {e}]
          /\ Epoch' = [Epoch EXCEPT ![n] = e + 1]
          BY <1>5 DEF handleHalt
    <3> HIDE DEF e
    <3>2. QED BY Zenon, <1>2, <3>1 DEF IInv, TypeOK
  <2>7. QED BY Zenon, <1>3, <2>3, <2>4, <2>5, <2>6
            DEF IInv, TypeOK, handleHalt, voteVars, spbVars, CommitorType
<1>6. QED BY SMTT(60), <1>4, <1>5

\* The mempool gets the payloads of a block.
LEMMA PayloadIInv ==
    ASSUME IInv, NEW n \in Node, NEW b \in Block, PayloadArrives(n, b)
    PROVE  IInv'
<1>1. CommittedInOrder'
      BY NoCommitStep DEF PayloadArrives
<1>2. missing' \in [Node -> SUBSET Block]
      BY DEF PayloadArrives, IInv, TypeOK
<1>3. QED BY ZenonT(60), <1>1, <1>2
             DEF IInv, TypeOK, PayloadArrives, netVars, voteVars, spbVars

\* The synchronizer reports a block.
LEMMA LoopBackIInv ==
    ASSUME IInv, NEW n \in Node, NEW b \in Block, handleLoopBack(n, b)
    PROVE  IInv'
<1>1. commitor' \in [Node -> CommitorType] /\ CommittedInOrder'
  <2>1. \/ commitor' = commitor
        \/ commitor' = [commitor EXCEPT ![n] = Commit(@, b)]
        BY ZenonT(60) DEF handleLoopBack
  <2>2. QED BY ZenonT(60), <2>1, CommitStep
<1>2. pending' \in [Node -> SUBSET Block]
      BY DEF handleLoopBack, IInv, TypeOK
<1>3. calls' \in [Node -> SUBSET (ER \X Node)]
  <2>1. <<<<b.epoch, 0>>, b.proposer>> \in ER \X Node
        BY SMTT(60), CoreAssumption DEF Block, ER, Rounds
  <2>2. \/ calls' = calls
        \/ calls' = [calls EXCEPT ![n] = @ \cup {<<<<b.epoch, 0>>, b.proposer>>}]
        BY ZenonT(60) DEF handleLoopBack
  <2>3. calls \in [Node -> SUBSET (ER \X Node)]
        BY DEF IInv, TypeOK
  <2>4. QED BY <2>1, <2>2, <2>3
<1>4. QED BY Zenon, <1>1, <1>2, <1>3
          DEF IInv, TypeOK, handleLoopBack, netVars, voteVars, CommitorType

\* The steps of the SPB instances.
LEMMA SpbIInv ==
    ASSUME IInv, NEW n \in Node,
           \/ \E i \in ER \X Node : SpbAccept(n, i) \/ SpbLock(n, i)
           \/ \E er \in ER : SpbFinish(n, er) \/ SpbFinishSelf(n, er)
    PROVE  IInv'
<1> USE DEF netVars, voteVars, poolVars
<1>1. ASSUME NEW i \in ER \X Node, SpbAccept(n, i) PROVE IInv'
  <2>1. CommittedInOrder'
        BY <1>1, NoCommitStep DEF SpbAccept
  <2>2. QED BY ZenonT(60), <1>1, <2>1 DEF IInv, TypeOK, SpbAccept
<1>2. ASSUME NEW i \in ER \X Node, SpbLock(n, i) PROVE IInv'
  <2>1. CommittedInOrder'
        BY SMTT(60), <1>2, NoCommitStep DEF SpbLock
  <2>2. QED BY ZenonT(60), <1>2, <2>1 DEF IInv, TypeOK, SpbLock
<1>3. ASSUME NEW er \in ER, SpbFinish(n, er) PROVE IInv'
  <2>1. CommittedInOrder'
        BY ZenonT(60), <1>3, NoCommitStep DEF SpbFinish
  <2>2. Signed("finish", er) \in Message
        BY MessageTypes
  <2>3. log' \in [Node -> Seq(Message)]
    <3>1. log \in [Node -> Seq(Message)]
          BY SMTT(60) DEF IInv, TypeOK
    <3>2. log' = [log EXCEPT ![n] = Append(@, Signed("finish", er))]
          BY Zenon, <1>3 DEF SpbFinish
    <3>3. QED BY <2>2, <3>1, <3>2
  <2>4. finished' \in [Node -> SUBSET ER]
    <3>1. finished \in [Node -> SUBSET ER]
          BY DEF IInv, TypeOK
    <3>2. finished' = [finished EXCEPT ![n] = @ \cup {er}]
          BY ZenonT(60), <1>3 DEF SpbFinish
    <3>3. QED BY <3>1, <3>2
  <2>5. QED BY ZenonT(60), <1>3, <2>1, <2>3, <2>4 DEF IInv, TypeOK, SpbFinish
<1>4. ASSUME NEW er \in ER, SpbFinishSelf(n, er) PROVE IInv'
  <2>1. CommittedInOrder'
        BY ZenonT(60), <1>4, NoCommitStep DEF SpbFinishSelf
  <2>2. Signed("finish", er) \in Message
        BY MessageTypes
  <2>3. self' \in [Node -> Seq(Message)]
    <3>1. self \in [Node -> Seq(Message)]
          BY SMTT(60) DEF IInv, TypeOK
    <3>2. self' = [self EXCEPT ![n] = Append(@, Signed("finish", er))]
          BY ZenonT(60), <1>4 DEF SpbFinishSelf
    <3>3. QED BY <2>2, <3>1, <3>2
  <2>4. selfFinish' \in [Node -> SUBSET ER]
    <3>1. selfFinish \in [Node -> SUBSET ER]
          BY SMTT(60) DEF IInv, TypeOK
    <3>2. selfFinish' = [selfFinish EXCEPT ![n] = @ \cup {er}]
          BY ZenonT(60), <1>4 DEF SpbFinishSelf
    <3>3. QED BY <3>1, <3>2
  <2>5. QED BY ZenonT(60), <1>4, <2>1, <2>3, <2>4 DEF IInv, TypeOK, SpbFinishSelf
<1>5. QED BY SMTT(60), <1>1, <1>2, <1>3, <1>4

-----------------------------------------------------------------------------

\* The initial state, with the first proposals sent.
LEMMA InitIInv == Init => IInv
<1> SUFFICES ASSUME Init PROVE IInv
    OBVIOUS
<1>1. log \in [Node -> Seq(Message)] /\ self = log
  <2>1. \A n \in Node : FirstProposal(n, 0) \in Seq(Message)
        BY FirstProposalType
  <2>2. QED BY <2>1, EmptyIsSeq DEF Init
<1>2. coin \in [ER -> Node] /\ missing \in [Node -> SUBSET Block]
      BY CoreAssumption DEF Init
<1>3. CommittedInOrder
  <2>1. \A n \in Node : commitor[n].out = <<>>
        BY SMTT(60) DEF Init
  <2>2. QED BY <2>1 DEF CommittedInOrder
<1>4. commitor \in [Node -> [blocks : SUBSET Block, out : Seq(Block)]]
  <2>1. [blocks |-> {}, out |-> <<>>] \in [blocks : SUBSET Block, out : Seq(Block)]
        OBVIOUS
  <2>2. QED BY ZenonT(60), <2>1 DEF Init
<1>5. /\ Epoch \in [Node -> 0..(MaxEpoch + 1)]
      /\ cur \in [Node -> [Node -> Nat]]
  <2>1. 0 \in 0..(MaxEpoch + 1)
        BY CoreAssumption
  <2>2. QED BY <2>1 DEF Init
<1>6. /\ FinishFlags \in [Node -> [ER -> SUBSET Node]]
      /\ doneAuthors \in [Node -> [ER -> SUBSET Node]]
      /\ shareAuthors \in [Node -> [ER -> SUBSET Node]]
      /\ leaders \in [Node -> [ER -> Node \cup {NONE}]]
      BY DEF Init
<1>7. /\ prevotes \in [Node -> [ER -> [Flag -> SUBSET Node]]]
      /\ finvotes \in [Node -> [ER -> [Flag -> SUBSET Node]]]
      BY DEF Init
<1>8. QED BY ZenonT(60), <1>1, <1>2, <1>3, <1>4, <1>5, <1>6, <1>7 DEF Init, IInv, TypeOK

\* Every step of every node keeps the types and the order.
LEMMA NextIInv == IInv /\ [Next]_vars => IInv'
<1> SUFFICES ASSUME IInv, [Next]_vars PROVE IInv'
    OBVIOUS
<1>1. Active \subseteq Node
      BY DEF Active
<1>2. ASSUME NEW n \in Active, NEW m \in Active, Handle(n, m) PROVE IInv'
      BY <1>1, <1>2, DiscardIInv, ProposalIInv, FinishIInv, DoneIInv, ElectShareIInv,
         PrevoteIInv, FinvoteIInv, HaltIInv DEF Handle
<1>3. ASSUME NEW n \in Active, NEW b \in Block, PayloadArrives(n, b) \/ handleLoopBack(n, b)
      PROVE  IInv'
      BY <1>1, <1>3, PayloadIInv, LoopBackIInv
<1>4. ASSUME NEW n \in Active,
             \/ \E i \in ER \X Active : SpbAccept(n, i) \/ SpbLock(n, i)
             \/ \E er \in ER : SpbFinish(n, er) \/ SpbFinishSelf(n, er)
      PROVE  IInv'
      BY SMTT(60), <1>1, <1>4, SpbIInv
<1>5. CASE UNCHANGED vars
      BY Zenon, <1>5 DEF vars, netVars, voteVars, poolVars, spbVars, IInv, TypeOK, CommittedInOrder
<1>6. QED BY <1>2, <1>3, <1>4, <1>5 DEF Next

\* Types and order hold in every reachable state.
LEMMA Invariance == Spec => []IInv
BY InitIInv, NextIInv, PTL DEF Spec

\* The state of Core keeps its type: no handler builds a message with a leader
\* that is not a node or a block that does not exist.
THEOREM TypeCorrect == Spec => []TypeOK
<1>1. IInv => TypeOK
      BY DEF IInv
<1>2. QED BY <1>1, Invariance, PTL

\* Every node commits one block per epoch in the order of the epochs, whatever
\* order blocks, payloads and Halt messages arrive in.
THEOREM CommitsInOrder == Spec => []CommittedInOrder
<1>1. IInv => CommittedInOrder
      BY DEF IInv
<1>2. QED BY <1>1, Invariance, PTL

LogsExtended == \A n \in Node : Extends(commitor[n].out, commitor'[n].out)

\* A step extends the committed sequence of every node or leaves it as it is.
LEMMA StepExtends ==
    ASSUME IInv, NEW n \in Node, NEW b \in Block,
           \/ commitor' = commitor
           \/ commitor' = [commitor EXCEPT ![n] = Commit(@, b)]
    PROVE  LogsExtended
<1>1. commitor \in [Node -> CommitorType]
      BY ZenonT(60) DEF IInv, TypeOK, CommitorType
<1>2. \A a \in Node : commitor'[a] = commitor[a] \/ commitor'[a] = Commit(commitor[a], b)
      BY Zenon, <1>1
<1>3. ASSUME NEW a \in Node PROVE Extends(commitor[a].out, commitor[a].out)
  <2>1. Len(commitor[a].out) \in Nat
        BY <1>1 DEF CommitorType
  <2>2. QED BY <2>1 DEF Extends
<1>4. QED BY Zenon, <1>1, <1>2, <1>3, CommitOK DEF LogsExtended

\* What a node has committed is never taken back or replaced, although a later
\* proposal, Halt or loop back may call Commit for the same epoch again, with
\* another block.
THEOREM CommitsKept == Spec => [][LogsExtended]_vars
<1>1. IInv /\ [Next]_vars => LogsExtended
  <2> SUFFICES ASSUME IInv, [Next]_vars PROVE LogsExtended
      OBVIOUS
  <2>1. Active \subseteq Node
        BY Zenon DEF Active
  <2>2. CASE commitor' = commitor
    <3>1. ASSUME NEW a \in Node PROVE Extends(commitor[a].out, commitor'[a].out)
      <4>1. commitor[a] \in CommitorType
            BY Zenon DEF IInv, TypeOK, CommitorType
      <4>2. Len(commitor[a].out) \in Nat
            BY <4>1 DEF CommitorType
      <4>3. QED BY <2>2, <4>2 DEF Extends
    <3>2. QED BY Zenon, <3>1 DEF LogsExtended
  <2>3. ASSUME NEW n \in Active, NEW m \in Active, Handle(n, m) PROVE LogsExtended
    <3>1. CASE handleSpbProposal(n, m)
      <4>1. NextFrom(n, m).block \in Block
            BY <2>1, <3>1, NextFromType, MessageFields DEF handleSpbProposal, IInv
      <4>2. \/ commitor' = commitor
            \/ commitor' = [commitor EXCEPT ![n] = Commit(@, NextFrom(n, m).block)]
            BY <3>1 DEF handleSpbProposal
      <4>3. QED BY Zenon, <2>1, <4>1, <4>2, StepExtends
    <3>2. CASE handleHalt(n, m)
      <4>1. \/ commitor' = commitor
            \/ /\ NextFrom(n, m).hash \in blockStore[n]
               /\ commitor' = [commitor EXCEPT ![n] = Commit(@, NextFrom(n, m).hash)]
            BY <3>2 DEF handleHalt
      <4>2. blockStore[n] \subseteq Block
            BY Zenon, <2>1 DEF IInv, TypeOK
      <4>3. QED BY Zenon, <2>1, <2>2, <4>1, <4>2, StepExtends
    <3>3. QED BY Zenon, <2>2, <2>3, <3>1, <3>2 DEF Handle, Discard, handleFinish, handleDone,
                 handleElectShare, handlePrevote, handleFinvote, poolVars
  <2>4. ASSUME NEW n \in Active, NEW b \in Block, PayloadArrives(n, b) \/ handleLoopBack(n, b)
        PROVE  LogsExtended
    <3>1. \/ commitor' = commitor
          \/ commitor' = [commitor EXCEPT ![n] = Commit(@, b)]
          BY ZenonT(60), <2>4 DEF handleLoopBack, PayloadArrives
    <3>2. QED BY Zenon, <2>1, <3>1, StepExtends
  <2>5. ASSUME NEW n \in Active,
               \/ \E i \in ER \X Active : SpbAccept(n, i) \/ SpbLock(n, i)
               \/ \E er \in ER : SpbFinish(n, er) \/ SpbFinishSelf(n, er)
        PROVE  LogsExtended
        BY Zenon, <2>2, <2>5 DEF SpbAccept, SpbLock, SpbFinish, SpbFinishSelf
  <2>6. CASE UNCHANGED vars
        BY Zenon, <2>2, <2>6 DEF vars
  <2>7. QED BY Zenon, <2>3, <2>4, <2>5, <2>6 DEF Next
<1>2. QED BY <1>1, Invariance, PTL DEF Spec

-----------------------------------------------------------------------------
(* The parts Core is built on. *)

\* The handlers use a node's mempool as PayloadFetch has it: a block is looked
\* for when handleSpbProposal or handleHalt finds payloads missing, and comes
\* back through handleLoopBack once, with all its payloads.
THEOREM FetchUsed == Spec => [][Payloads!Next]_Payloads!vars
<1>1. IInv /\ [Next]_vars => [Payloads!Next]_Payloads!vars
  <2> SUFFICES ASSUME IInv, [Next]_vars PROVE [Payloads!Next]_Payloads!vars
      OBVIOUS
  <2>0. Active \subseteq Node /\ TypeOK
      BY DEF Active, IInv
  <2>1. ASSUME NEW n \in Node, NEW b \in Block, Fetch(n, b), UNCHANGED missing
        PROVE  [Payloads!Next]_Payloads!vars
      <3>1. CASE b \in missing[n]
        <4>1. pending' = [pending EXCEPT ![n] = @ \cup {b}]
          BY ZenonT(60), <2>1, <3>1 DEF Fetch, verifyConsensusBlock
        <4> QED
          BY ZenonT(60), <2>1, <3>1, <4>1 DEF Payloads!Next, Payloads!Verify
      <3>2. CASE b \notin missing[n]
        <4>1. pending' = [pending EXCEPT ![n] = @]
          BY <2>1, <3>2 DEF Fetch, verifyConsensusBlock
        <4> QED
          BY <2>0, <2>1, <4>1 DEF Payloads!vars, TypeOK
      <3> QED
        BY <3>1, <3>2
  <2>2. CASE UNCHANGED poolVars
      BY <2>2 DEF poolVars, Payloads!vars
  <2>3. ASSUME NEW n \in Active, NEW m \in Active, handleSpbProposal(n, m)
        PROVE  [Payloads!Next]_Payloads!vars
      <3>1. NextFrom(n, m) \in Message /\ NextFrom(n, m).type = "proposal"
        BY ZenonT(60), <2>0, <2>3, NextFromType DEF handleSpbProposal
      <3>2. NextFrom(n, m).block \in Block
        BY <3>1, MessageFields
      <3>3. /\ UNCHANGED missing
            /\ Fetch(n, NextFrom(n, m).block) \/ UNCHANGED pending
        BY <2>3, Zenon DEF handleSpbProposal
      <3> QED
        BY <2>0, <2>1, <2>2, <3>2, <3>3 DEF poolVars
  <2>4. ASSUME NEW n \in Active, NEW m \in Active, handleHalt(n, m)
        PROVE  [Payloads!Next]_Payloads!vars
      <3>1. /\ UNCHANGED missing
            /\ \/ NextFrom(n, m).hash \in blockStore[n] /\ Fetch(n, NextFrom(n, m).hash)
               \/ UNCHANGED pending
        BY <2>4, Zenon DEF handleHalt
      <3>2. blockStore[n] \subseteq Block
        BY <2>0 DEF TypeOK
      <3> QED
        BY <2>0, <2>1, <2>2, <3>1, <3>2 DEF poolVars
  <2>5. ASSUME NEW n \in Active, NEW m \in Active, Handle(n, m)
        PROVE  [Payloads!Next]_Payloads!vars
      <3>1. CASE \/ Discard(n, m) \/ handleFinish(n, m) \/ handleDone(n, m)
                 \/ handleElectShare(n, m) \/ handlePrevote(n, m) \/ handleFinvote(n, m)
        BY <2>2, <3>1 DEF Discard, handleFinish, handleDone, handleElectShare, handlePrevote,
           handleFinvote, poolVars
      <3> QED
        BY <2>3, <2>4, <2>5, <3>1 DEF Handle
  <2>6. ASSUME NEW n \in Active, NEW b \in Block, PayloadArrives(n, b)
        PROVE  [Payloads!Next]_Payloads!vars
      <3>1. /\ missing' = [missing EXCEPT ![n] = @ \ {b}] /\ UNCHANGED pending
            /\ missing \in [Node -> SUBSET Block]
        BY <2>0, <2>6 DEF PayloadArrives, TypeOK
      <3>2. /\ missing' \in [Node -> SUBSET Block]
            /\ \A m \in Node : missing'[m] \subseteq missing[m]
        BY ZenonT(60), <3>1
      <3> QED
        BY <3>1, <3>2 DEF Payloads!Next, Payloads!Arrive
  <2>7. ASSUME NEW n \in Active, NEW b \in Block, handleLoopBack(n, b)
        PROVE  [Payloads!Next]_Payloads!vars
      <3>1. /\ b \in pending[n] /\ b \notin missing[n] /\ UNCHANGED missing
            /\ pending' = [pending EXCEPT ![n] = @ \ {b}]
        BY ZenonT(60), <2>7 DEF handleLoopBack, verifyConsensusBlock
      <3> QED
        BY ZenonT(60), <2>0, <3>1 DEF Payloads!Next, Payloads!LoopBack
  <2>8. ASSUME NEW n \in Active,
               \/ \E i \in ER \X Active : SpbAccept(n, i) \/ SpbLock(n, i)
               \/ \E er \in ER : SpbFinish(n, er) \/ SpbFinishSelf(n, er)
        PROVE  [Payloads!Next]_Payloads!vars
      BY ZenonT(60), <2>2, <2>8 DEF SpbAccept, SpbLock, SpbFinish, SpbFinishSelf
  <2> QED
      BY <2>2, <2>5, <2>6, <2>7, <2>8 DEF Next, vars
<1> QED
  BY <1>1, Invariance, PTL DEF Spec

\* Every SPB instance in Core behaves as ProvableBroadcast, which module SPB
\* implements: no handler and no other instance interferes with it, in whatever
\* epoch and round the nodes are.
THEOREM BroadcastUsed ==
    ASSUME NEW er \in ER, NEW p \in Node
    PROVE  Spec => Broadcast(er, p)!Spec
<1> DEFINE acc == {n \in Node : <<er, p>> \in accepted[n]}
           loc == {n \in Node : <<er, p>> \in locked[n]}
<1>1. Init => Broadcast(er, p)!Init
  BY DEF Init, Broadcast!Init
<1>2. IInv /\ [Next]_vars => [Broadcast(er, p)!Next]_(Broadcast(er, p)!vars)
  <2> SUFFICES ASSUME IInv, [Next]_vars
               PROVE  [Broadcast(er, p)!Next]_(Broadcast(er, p)!vars)
      OBVIOUS
  <2>0. Active \subseteq Node /\ TypeOK
      BY DEF Active, IInv
  <2>1. CASE UNCHANGED <<accepted, locked, finished>>
      BY ZenonT(60), <2>1 DEF Broadcast!vars
  <2>2. ASSUME NEW n \in Active, NEW m \in Active, Handle(n, m)
        PROVE  [Broadcast(er, p)!Next]_(Broadcast(er, p)!vars)
      BY ZenonT(60), <2>1, <2>2 DEF Handle, Discard, handleSpbProposal, handleFinish, handleDone,
         handleElectShare, handlePrevote, handleFinvote, handleHalt, spbVars
  <2>3. ASSUME NEW n \in Active, NEW b \in Block, PayloadArrives(n, b) \/ handleLoopBack(n, b)
        PROVE  [Broadcast(er, p)!Next]_(Broadcast(er, p)!vars)
      BY <2>1, <2>3 DEF PayloadArrives, handleLoopBack, spbVars
  <2>4. ASSUME NEW n \in Active, NEW i \in ER \X Active, SpbAccept(n, i)
        PROVE  [Broadcast(er, p)!Next]_(Broadcast(er, p)!vars)
      <3>1. /\ accepted \in [Node -> SUBSET (ER \X Node)] /\ n \in Node
            /\ accepted' = [accepted EXCEPT ![n] = @ \cup {i}] /\ UNCHANGED <<locked, finished>>
        BY ZenonT(60), <2>0, <2>4 DEF SpbAccept, TypeOK
      <3>2. acc' = acc \cup (IF i = <<er, p>> THEN {n} ELSE {})
        BY <3>1
      <3> QED
        BY <3>1, <3>2 DEF Broadcast!vars, Broadcast!Next, Broadcast!Accept
  <2>5. ASSUME NEW n \in Active, NEW i \in ER \X Active, SpbLock(n, i)
        PROVE  [Broadcast(er, p)!Next]_(Broadcast(er, p)!vars)
      <3>1. /\ locked \in [Node -> SUBSET (ER \X Node)] /\ n \in Node
            /\ locked' = [locked EXCEPT ![n] = @ \cup {i}] /\ UNCHANGED <<accepted, finished>>
            /\ i \in accepted[n] /\ Cardinality({m \in Node : i \in accepted[m]}) >= HightThreshold
        BY ZenonT(60), <2>0, <2>5 DEF SpbLock, TypeOK
      <3>2. loc' = loc \cup (IF i = <<er, p>> THEN {n} ELSE {})
        BY <3>1
      <3>3. i = <<er, p>> => {m \in Node : i \in accepted[m]} = acc
        OBVIOUS
      <3> QED
        BY ZenonT(60), <3>1, <3>2, <3>3 DEF Broadcast!vars, Broadcast!Next, Broadcast!Lock
  <2>6. ASSUME NEW n \in Active, NEW q \in ER, SpbFinish(n, q)
        PROVE  [Broadcast(er, p)!Next]_(Broadcast(er, p)!vars)
      <3>1. /\ finished \in [Node -> SUBSET ER] /\ n \in Node
            /\ finished' = [finished EXCEPT ![n] = @ \cup {q}] /\ UNCHANGED <<accepted, locked>>
            /\ (n = p /\ q = er) => Cardinality(loc) >= HightThreshold
        BY ZenonT(60), <2>0, <2>6 DEF SpbFinish, TypeOK
      <3>2. (er \in finished'[p]) <=> (er \in finished[p] \/ (n = p /\ q = er))
        BY <3>1
      <3> QED
        BY <3>1, <3>2 DEF Broadcast!vars, Broadcast!Next, Broadcast!Finish
  <2>7. ASSUME NEW n \in Active, NEW q \in ER, SpbFinishSelf(n, q)
        PROVE  [Broadcast(er, p)!Next]_(Broadcast(er, p)!vars)
      BY <2>1, <2>7 DEF SpbFinishSelf
  <2> QED
      BY <2>1, <2>2, <2>3, <2>4, <2>5, <2>6, <2>7 DEF Next, vars, spbVars
<1> QED
  BY <1>1, <1>2, Invariance, PTL DEF Spec, Broadcast!Spec

-----------------------------------------------------------------------------
(* What the handlers send, and that nothing is undone. *)

\* The messages of a sequence.
On(s) == {s[k] : k \in 1..Len(s)}

\* The messages of a concatenation.
LEMMA OnConcat ==
    ASSUME NEW s \in Seq(Message), NEW t \in Seq(Message)
    PROVE  On(s \o t) = On(s) \cup On(t)
<1>1. /\ Len(s) \in Nat /\ Len(t) \in Nat /\ Len(s \o t) = Len(s) + Len(t)
      /\ \A i \in 1..(Len(s) + Len(t)) :
            (s \o t)[i] = IF i <= Len(s) THEN s[i] ELSE t[i - Len(s)]
      BY SeqLength, SeqConcat
<1>2. \A i \in 1..Len(s) : i \in 1..(Len(s) + Len(t)) /\ (s \o t)[i] = s[i]
      BY <1>1
<1>3. \A i \in 1..Len(t) : Len(s) + i \in 1..(Len(s) + Len(t)) /\ (s \o t)[Len(s) + i] = t[i]
      BY <1>1
<1>4. \A i \in 1..(Len(s) + Len(t)) :
          (i \in 1..Len(s) /\ (s \o t)[i] = s[i])
          \/ (i - Len(s) \in 1..Len(t) /\ (s \o t)[i] = t[i - Len(s)])
      BY <1>1
<1>5. \A x : x \in On(s \o t) => x \in On(s) \/ x \in On(t)
      BY ZenonT(60), <1>1, <1>4 DEF On
<1>6. On(s) \subseteq On(s \o t)
      BY ZenonT(60), <1>1, <1>2 DEF On
<1>7. On(t) \subseteq On(s \o t)
  <2> SUFFICES ASSUME NEW i \in 1..Len(t) PROVE t[i] \in On(s \o t)
      BY Zenon DEF On
  <2>1. Len(s) + i \in 1..Len(s \o t) /\ t[i] = (s \o t)[Len(s) + i]
        BY Zenon, <1>1, <1>3
  <2>2. QED BY Zenon, <2>1 DEF On
<1>8. QED BY Zenon, <1>5, <1>6, <1>7

\* The messages of a sequence with one more.
LEMMA OnAppend ==
    ASSUME NEW s \in Seq(Message), NEW x \in Message
    PROVE  On(Append(s, x)) = On(s) \cup {x}
<1>1. /\ Len(s) \in Nat /\ Len(Append(s, x)) = Len(s) + 1
      /\ Append(s, x)[Len(s) + 1] = x /\ \A k \in 1..Len(s) : Append(s, x)[k] = s[k]
      OBVIOUS
<1>2. \A k : k \in 1..(Len(s) + 1) <=> k \in 1..Len(s) \/ k = Len(s) + 1
      BY <1>1
<1>3. QED BY ZenonT(60), <1>1, <1>2 DEF On

\* The first message of a sequence and those that remain are of the sequence.
LEMMA OnTail ==
    ASSUME NEW s \in Seq(Message), s # <<>>
    PROVE  Head(s) \in On(s) /\ On(Tail(s)) \subseteq On(s)
<1>1. /\ Len(s) \in Nat /\ Len(s) # 0 /\ Head(s) = s[1]
      /\ Len(Tail(s)) = Len(s) - 1 /\ \A i \in 1..Len(Tail(s)) : Tail(s)[i] = s[i + 1]
      BY SeqHeadTail, SeqLength, EmptyIsSeq
<1>2. \A i \in 1..Len(Tail(s)) : i + 1 \in 1..Len(s) /\ Tail(s)[i] = s[i + 1]
      BY <1>1
<1>3. 1 \in 1..Len(s)
      BY <1>1
<1>4. ASSUME NEW i \in 1..Len(Tail(s)) PROVE Tail(s)[i] \in On(s)
  <2>1. i + 1 \in 1..Len(s) /\ Tail(s)[i] = s[i + 1]
        BY Zenon, <1>2
  <2>2. QED BY Zenon, <2>1 DEF On
<1>5. On(Tail(s)) \subseteq On(s)
      BY Zenon, <1>4 DEF On
<1>6. Head(s) \in On(s)
      BY Zenon, <1>1, <1>3 DEF On
<1>7. QED BY Zenon, <1>5, <1>6

\* The messages of the sequences the handlers send.
LEMMA OnSmall == /\ On(<<>>) = {}
                 /\ \A x : On(<<x>>) = {x}
                 /\ \A x, y : On(<<x, y>>) = {x, y}
BY DEF On

\* The messages on the links after a handler has taken one and sent some.
LEMMA LogsAfter ==
    ASSUME IInv, NEW n \in Node, NEW m \in Node, HasNext(n, m), NEW out \in Seq(Message),
           TakeAndSend(n, m, out)
    PROVE  /\ \A a \in Node : On(log'[a]) = IF a = n THEN On(log[a]) \cup On(out)
                                            ELSE On(log[a])
           /\ \A a \in Node : On(self'[a]) \subseteq
                                  IF a = n THEN On(self[a]) \cup On(out) ELSE On(self[a])
<1> DEFINE rest == IF m = n THEN Tail(self[n]) ELSE self[n]
<1>1. log \in [Node -> Seq(Message)] /\ self \in [Node -> Seq(Message)]
      BY Zenon DEF IInv, TypeOK
<1>2. /\ \A a \in Node : log'[a] = IF a = n THEN log[n] \o out ELSE log[a]
      /\ \A a \in Node : self'[a] = IF a = n THEN rest \o out ELSE self[a]
      BY Zenon, <1>1 DEF TakeAndSend
<1>3. rest \in Seq(Message) /\ On(rest) \subseteq On(self[n])
  <2>1. CASE m = n
    <3>1. self[n] \in Seq(Message) /\ self[n] # <<>>
          BY Zenon, <1>1, <2>1 DEF HasNext
    <3>2. Tail(self[n]) \in Seq(Message) /\ On(Tail(self[n])) \subseteq On(self[n])
          BY Zenon, <3>1, SeqHeadTail, OnTail
    <3>3. QED BY Zenon, <2>1, <3>2
  <2>2. CASE m # n
        BY Zenon, <1>1, <2>2
  <2>3. QED BY Zenon, <2>1, <2>2
<1> HIDE DEF rest
<1>4. On(log[n] \o out) = On(log[n]) \cup On(out) /\ On(rest \o out) = On(rest) \cup On(out)
      BY Zenon, <1>1, <1>3, OnConcat
<1>5. QED BY ZenonT(60), <1>2, <1>3, <1>4

\* A message that node n sends when it handles the next message of m.
NewMessage(n, m, x) ==
    LET y == NextFrom(n, m)
        pre == PrevoteAction(prevotes[n][y.er], m, y.flag)
        fin == FinVoteAction(finvotes[n][y.er], m, y.flag)
    IN
    \/ x.type \in {"done", "share"} /\ x.er = y.er
    \/ x.type = "proposal" /\ x.er[2] = 0
    \/ y.er \in ER /\ \E l \in Node : x = LeaderMessage(n, y.er, l)
    \/ handlePrevote(n, m) /\ pre # "none" /\ x = NewFinVote(y.leader, y.er, pre, y.hash)
    \/ handleFinvote(n, m) /\ fin = "commit" /\ x = NewHalt(y.leader, y.hash, y.er)
    \/ handleFinvote(n, m) /\ fin \in Flag /\ x \in On(NextRound(n, y.er, fin, y.hash))

\* Handlers that send nothing.
LEMMA NothingNew == \A n, m : \A x \in On(<<>>) : NewMessage(n, m, x)
BY Zenon, OnSmall

\* invokeDoneAndShare.
LEMMA DoneAndShareNew ==
    ASSUME NEW n, NEW m, NEW er, er = NextFrom(n, m).er, NEW x \in On(DoneAndShare(n, er))
    PROVE  NewMessage(n, m, x)
<1>1. x \in {Signed("done", er), Signed("share", er)}
      BY Zenon, OnSmall DEF DoneAndShare
<1>2. x.type \in {"done", "share"} /\ x.er = er
      BY <1>1 DEF Signed
<1>3. QED BY Zenon, <1>2 DEF NewMessage

\* processLeader.
LEMMA ProcessLeaderNew ==
    ASSUME NEW n, NEW m, NEW ready, NEW leader \in Node \cup {NONE}, NextFrom(n, m).er \in ER,
           NEW x \in On(processLeader(n, NextFrom(n, m).er, ready, leader))
    PROVE  NewMessage(n, m, x)
<1>1. leader \in Node /\ x = LeaderMessage(n, NextFrom(n, m).er, leader)
      BY ZenonT(30), OnSmall DEF processLeader
<1>2. QED BY Zenon, <1>1 DEF NewMessage

\* The first proposal of an epoch.
LEMMA FirstProposalNew ==
    ASSUME NEW n, NEW m, NEW e, NEW x \in On(FirstProposal(n, e))
    PROVE  NewMessage(n, m, x)
<1>1. x = Proposal(generatorBlock(n, e), e, 0)
      BY ZenonT(30), OnSmall DEF FirstProposal
<1>2. x.type = "proposal" /\ x.er[2] = 0
      BY <1>1 DEF Proposal
<1>3. QED BY Zenon, <1>2 DEF NewMessage

\* What the handlers send.
LEMMA HandlerSends ==
    ASSUME IInv, NEW n \in Node, NEW m \in Node, Handle(n, m)
    PROVE  /\ HasNext(n, m)
           /\ \E out \in Seq(Message) :
                 TakeAndSend(n, m, out) /\ \A x \in On(out) : NewMessage(n, m, x)
<1> DEFINE y == NextFrom(n, m)
<1>1. HasNext(n, m)
      BY ZenonT(60) DEF Handle, Discard, handleSpbProposal, handleFinish, handleDone,
         handleElectShare, handlePrevote, handleFinvote, handleHalt, Receive
<1>2. y \in Message
      BY Zenon, <1>1, NextFromType DEF IInv
<1>3. y.er \in ER /\ y.er[1] + 1 \in Nat
  <2> HIDE DEF y
  <2>1. y.er \in ER /\ y.er[1] \in Epochs
        BY Zenon, <1>2, MessageFields
  <2>2. QED BY <2>1, CoreAssumption DEF Epochs
<1>4. /\ leaders[n][y.er] \in Node \cup {NONE} /\ ElectAppend(n, m, y.er) \in Node \cup {NONE}
  <2>1. leaders \in [Node -> [ER -> Node \cup {NONE}]] /\ coin \in [ER -> Node]
        BY Zenon DEF IInv, TypeOK
  <2> HIDE DEF y
  <2>2. QED BY Zenon, <1>3, <2>1 DEF ElectAppend
<1>5. CASE Discard(n, m) \/ handleSpbProposal(n, m)
      BY ZenonT(60), <1>1, <1>5, NothingNew, EmptyIsSeq DEF Discard, handleSpbProposal
<1>6. CASE handleFinish(n, m)
  <2>1. TakeAndSend(n, m, <<>>) \/ TakeAndSend(n, m, DoneAndShare(n, y.er))
        BY Zenon, <1>6 DEF handleFinish
  <2>2. QED BY ZenonT(60), <1>1, <1>3, <2>1, NothingNew, DoneAndShareNew, DoneAndShareType, EmptyIsSeq
<1>7. CASE handleDone(n, m)
  <2>1. \/ TakeAndSend(n, m, <<>>)
        \/ TakeAndSend(n, m, DoneAndShare(n, y.er))
        \/ \E ready : TakeAndSend(n, m, processLeader(n, y.er, ready, leaders[n][y.er]))
        BY Zenon, <1>7 DEF handleDone
  <2>2. QED BY ZenonT(60), <1>1, <1>3, <1>4, <2>1, NothingNew, DoneAndShareNew, ProcessLeaderNew,
               DoneAndShareType, ProcessLeaderType, EmptyIsSeq
<1>8. CASE handleElectShare(n, m)
  <2>1. \/ TakeAndSend(n, m, <<>>)
        \/ TakeAndSend(n, m, processLeader(n, y.er, ReadyFlags[n], ElectAppend(n, m, y.er)))
        BY Zenon, <1>8 DEF handleElectShare
  <2>2. QED BY ZenonT(60), <1>1, <1>3, <1>4, <2>1, NothingNew, ProcessLeaderNew,
               ProcessLeaderType, EmptyIsSeq
<1>9. CASE handlePrevote(n, m)
  <2> DEFINE action == PrevoteAction(prevotes[n][y.er], m, y.flag)
             fv == NewFinVote(y.leader, y.er, action, y.hash)
  <2>1. y.type = "prevote" /\ TakeAndSend(n, m, IF action = "none" THEN <<>> ELSE <<fv>>)
        BY Zenon, <1>9 DEF handlePrevote, Receive
  <2>2. y.leader \in Node /\ y.hash \in Hash
    <3> HIDE DEF y
    <3>1. QED BY Zenon, <1>2, <2>1, MessageFields
  <2>3. action \in Flag \cup {"none"}
        BY DEF PrevoteAction, Flag
  <2>4. action # "none" => fv \in Message
    <3> HIDE DEF y, action
    <3>1. QED BY Zenon, <1>3, <2>2, <2>3, MessageTypes
  <2>5. action # "none" => NewMessage(n, m, fv)
        BY Zenon, <1>9 DEF NewMessage
  <2> HIDE DEF fv, action, y
  <2>6. CASE action = "none"
        BY Zenon, <1>1, <2>1, <2>6, NothingNew, EmptyIsSeq
  <2>7. CASE action # "none"
    <3>1. <<fv>> \in Seq(Message)
          BY <2>4, <2>7
    <3>2. \A x \in On(<<fv>>) : NewMessage(n, m, x)
          BY ZenonT(30), <2>5, <2>7, OnSmall
    <3>3. TakeAndSend(n, m, <<fv>>)
          BY Zenon, <2>1, <2>7
    <3>4. QED BY Zenon, <1>1, <3>1, <3>2, <3>3
  <2>8. QED BY Zenon, <2>6, <2>7
<1>10. CASE handleFinvote(n, m)
  <2> DEFINE action == FinVoteAction(finvotes[n][y.er], m, y.flag)
             h == NewHalt(y.leader, y.hash, y.er)
             next == NextRound(n, y.er, action, y.hash)
  <2>1. /\ y.type = "finvote"
        /\ TakeAndSend(n, m, CASE action = "none"   -> <<>>
                               [] action = "commit" -> <<h>>
                               [] OTHER             -> next)
        BY Zenon, <1>10 DEF handleFinvote, Receive
  <2>2. y.leader \in Node /\ y.hash \in Hash
    <3> HIDE DEF y
    <3>1. QED BY Zenon, <1>2, <2>1, MessageFields
  <2>3. action \in Flag \cup {"none", "commit"}
        BY DEF FinVoteAction, Flag
  <2>4. h \in Message /\ next \in Seq(Message)
    <3> HIDE DEF y, action
    <3>1. "yes" \in Flag
          BY Zenon DEF Flag
    <3>2. QED BY Zenon, <1>3, <2>2, <3>1, MessageTypes, NextRoundType DEF IInv
  <2>5. action = "commit" => NewMessage(n, m, h)
        BY Zenon, <1>10 DEF NewMessage
  <2>6. action \in Flag => \A x \in On(next) : NewMessage(n, m, x)
        BY Zenon, <1>10 DEF NewMessage
  <2> HIDE DEF h, action, next, y
  <2>7. CASE action = "none"
    <3>1. TakeAndSend(n, m, <<>>)
          BY <2>1, <2>7
    <3>2. QED BY Zenon, <1>1, <3>1, NothingNew, EmptyIsSeq
  <2>8. CASE action = "commit"
    <3>1. <<h>> \in Seq(Message)
          BY <2>4
    <3>2. TakeAndSend(n, m, <<h>>)
          BY <2>1, <2>8
    <3>3. \A x \in On(<<h>>) : NewMessage(n, m, x)
          BY ZenonT(30), <2>5, <2>8, OnSmall
    <3>4. QED BY Zenon, <1>1, <3>1, <3>2, <3>3
  <2>9. CASE action \in Flag
    <3>1. TakeAndSend(n, m, next)
          BY <2>1, <2>9 DEF Flag
    <3>2. QED BY Zenon, <1>1, <2>4, <2>6, <2>9, <3>1
  <2>10. QED BY Zenon, <2>3, <2>7, <2>8, <2>9
<1>11. CASE handleHalt(n, m)
  <2>1. TakeAndSend(n, m, <<>>) \/ TakeAndSend(n, m, FirstProposal(n, y.er[1] + 1))
        BY Zenon, <1>11 DEF handleHalt
  <2>2. QED BY ZenonT(60), <1>1, <1>3, <2>1, NothingNew, FirstProposalNew, FirstProposalType, EmptyIsSeq
<1>12. QED BY Zenon, <1>5, <1>6, <1>7, <1>8, <1>9, <1>10, <1>11 DEF Handle

\* advanceNextRound sends nothing but a proposal.
LEMMA NextRoundNew ==
    ASSUME NEW n, NEW er, NEW action, NEW hash, NEW x \in On(NextRound(n, er, action, hash))
    PROVE  x.type = "proposal"
<1>1. NextRound(n, er, action, hash) = <<>> \/
      \E b : NextRound(n, er, action, hash) = <<Proposal(b, er[1], er[2] + 1)>>
      BY Zenon DEF NextRound
<1>2. On(<<>>) = {} /\ \A p : On(<<p>>) = {p}
      BY Zenon, OnSmall
<1>3. \E b : x \in {Proposal(b, er[1], er[2] + 1)}
      BY Zenon, <1>1, <1>2
<1>4. QED BY <1>3 DEF Proposal

\* All that is not a proposal is about the round of the message that is handled, and
\* only handlePrevote sends FinVotes.
LEMMA NewMessageKinds ==
    ASSUME NEW n, NEW m, NEW x, NewMessage(n, m, x)
    PROVE  /\ \/ x.type = "proposal"
              \/ x.type \in {"done", "share", "prevote", "finvote", "halt"} /\ x.er = NextFrom(n, m).er
           /\ x.type = "finvote" => handlePrevote(n, m)
<1>1. PICK y : y = NextFrom(n, m)
      OBVIOUS
<1>2. \A action, hash : x \in On(NextRound(n, y.er, action, hash)) => x.type = "proposal"
      BY Zenon, NextRoundNew
<1>3. \A l : /\ LeaderMessage(n, y.er, l).type \in {"prevote", "halt"}
            /\ LeaderMessage(n, y.er, l).er = y.er
      BY DEF LeaderMessage, NewHalt, NewPrevote
<1>4. \A l, h : NewHalt(l, h, y.er).type = "halt" /\ NewHalt(l, h, y.er).er = y.er
      BY DEF NewHalt
<1>5. \A l, f, h : NewFinVote(l, y.er, f, h).type = "finvote" /\ NewFinVote(l, y.er, f, h).er = y.er
      BY DEF NewFinVote
<1>6. \/ x.type \in {"done", "share", "prevote", "halt"} /\ x.er = y.er
      \/ x.type = "proposal"
      \/ x.type = "finvote" /\ x.er = y.er /\ handlePrevote(n, m)
  <2>1. \/ x.type \in {"done", "share"} /\ x.er = y.er
        \/ x.type = "proposal"
        \/ \E l : x = LeaderMessage(n, y.er, l)
        \/ handlePrevote(n, m) /\ \E l, f, h : x = NewFinVote(l, y.er, f, h)
        \/ \E l, h : x = NewHalt(l, h, y.er)
        BY ZenonT(60), <1>1, <1>2 DEF NewMessage
  <2>2. QED BY <1>3, <1>4, <1>5, <2>1
<1>7. QED BY <1>1, <1>6

\* What a node has for itself it has sent to the others as well.
LogInv ==
    \A a \in Node : /\ On(self[a]) \subseteq On(log[a])
                    /\ \A er \in finished[a] : Signed("finish", er) \in On(log[a])

\* What node n takes from m, m has sent.
LEMMA TakenSent ==
    ASSUME IInv, LogInv, NEW n \in Node, NEW m \in Node, HasNext(n, m)
    PROVE  NextFrom(n, m) \in On(log[m])
<1>1. CASE m = n
  <2>1. self[n] \in Seq(Message) /\ self[n] # <<>>
        BY Zenon, <1>1 DEF IInv, TypeOK, HasNext
  <2>2. QED BY Zenon, <1>1, <2>1, OnTail DEF LogInv, NextFrom
<1>2. CASE m # n
  <2>1. log[m] \in Seq(Message) /\ cur[n][m] \in Nat /\ cur[n][m] < Len(log[m])
        BY <1>2 DEF IInv, TypeOK, HasNext
  <2>2. cur[n][m] + 1 \in 1..Len(log[m])
        BY <2>1
  <2>3. QED BY Zenon, <1>2, <2>2 DEF On, NextFrom
<1>3. QED BY Zenon, <1>1, <1>2

\* The logs and the own queues after an SPB instance has finished.
LEMMA FinishLogs ==
    ASSUME IInv, NEW n \in Node, NEW er \in ER
    PROVE  /\ SpbFinish(n, er) => \A a \in Node :
                 /\ On(log'[a]) = IF a = n THEN On(log[a]) \cup {Signed("finish", er)}
                                  ELSE On(log[a])
                 /\ self'[a] = self[a]
           /\ SpbFinishSelf(n, er) => \A a \in Node :
                 /\ log'[a] = log[a]
                 /\ On(self'[a]) = IF a = n THEN On(self[a]) \cup {Signed("finish", er)}
                                   ELSE On(self[a])
<1> DEFINE x == Signed("finish", er)
<1>1. x \in Message /\ log \in [Node -> Seq(Message)] /\ self \in [Node -> Seq(Message)]
      BY Zenon, MessageTypes DEF IInv, TypeOK
<1> HIDE DEF x
<1>2. /\ On(Append(log[n], x)) = On(log[n]) \cup {x}
      /\ On(Append(self[n], x)) = On(self[n]) \cup {x}
      BY Zenon, <1>1, OnAppend
<1>3. /\ SpbFinish(n, er) => self' = self /\ log' = [log EXCEPT ![n] = Append(@, x)]
      /\ SpbFinishSelf(n, er) => log' = log /\ self' = [self EXCEPT ![n] = Append(@, x)]
      BY Zenon DEF SpbFinish, SpbFinishSelf, x
<1>4. QED BY ZenonT(60), <1>1, <1>2, <1>3 DEF x

\* Table u has one vote more than table t.
OneVote(t, u, n, er, m, g) ==
    \A a \in Node, e \in ER :
        u[a][e] = IF a = n /\ e = er THEN AddVote(t[n][er], m, g) ELSE t[a][e]

\* All votes of table t are in table u.
Within(t, u) == \A a \in Node, e \in ER, f \in Flag : t[a][e][f] \subseteq u[a][e][f]

\* Only the vote of m is new in table u.
OnlyNew(t, u, n, er, m, g) ==
    \A a \in Node, e \in ER, f \in Flag : \A b \in u[a][e][f] :
        b \in t[a][e][f] \/ (a = n /\ e = er /\ f = g /\ b = m)

\* Adding a vote to one entry keeps all votes.
LEMMA VotesGrow ==
    ASSUME NEW t \in [Node -> [ER -> [Flag -> SUBSET Node]]], NEW n \in Node, NEW m \in Node,
           NEW er \in ER, NEW g \in Flag, NEW u, OneVote(t, u, n, er, m, g)
    PROVE  Within(t, u) /\ OnlyNew(t, u, n, er, m, g)
<1>1. t[n][er] \in [Flag -> SUBSET Node]
      OBVIOUS
<1>2. /\ \A f \in Flag : t[n][er][f] \subseteq AddVote(t[n][er], m, g)[f]
      /\ \A f \in Flag : \A b \in AddVote(t[n][er], m, g)[f] :
            b \in t[n][er][f] \/ (f = g /\ b = m)
      BY <1>1 DEF AddVote, Voters, Flag
<1>3. QED BY ZenonT(60), <1>2 DEF OneVote, Within, OnlyNew

\* handlePrevote and handleFinvote add at most the vote they take.
LEMMA PrevoteAdds ==
    ASSUME IInv, NEW n \in Node, NEW m \in Node, handlePrevote(n, m)
    PROVE  LET y == NextFrom(n, m) IN
           /\ HasNext(n, m) /\ y.type = "prevote" /\ y.er \in ER /\ y.flag \in Flag
           /\ OneVote(prevotes, prevotes', n, y.er, m, y.flag)
<1> DEFINE y == NextFrom(n, m)
<1>1. /\ HasNext(n, m) /\ y.type = "prevote"
      /\ prevotes' = [prevotes EXCEPT ![n][y.er] = AddVote(prevotes[n][y.er], m, y.flag)]
      BY Zenon DEF handlePrevote, Receive
<1>2. y.er \in ER /\ y.flag \in Flag
      BY Zenon, <1>1, NextFromType, MessageFields DEF IInv
<1>3. prevotes \in [Node -> [ER -> [Flag -> SUBSET Node]]]
      BY Zenon DEF IInv, TypeOK
<1> HIDE DEF y
<1>4. OneVote(prevotes, prevotes', n, y.er, m, y.flag)
      BY <1>1, <1>2, <1>3 DEF OneVote
<1>5. QED BY Zenon, <1>1, <1>2, <1>4 DEF y

\* The same for handleFinvote.
LEMMA FinvoteAdds ==
    ASSUME IInv, NEW n \in Node, NEW m \in Node, handleFinvote(n, m)
    PROVE  LET y == NextFrom(n, m) IN
           /\ HasNext(n, m) /\ y.type = "finvote" /\ y.er \in ER /\ y.flag \in Flag
           /\ OneVote(finvotes, finvotes', n, y.er, m, y.flag)
<1> DEFINE y == NextFrom(n, m)
<1>1. /\ HasNext(n, m) /\ y.type = "finvote"
      /\ finvotes' = [finvotes EXCEPT ![n][y.er] = AddVote(finvotes[n][y.er], m, y.flag)]
      BY Zenon DEF handleFinvote, Receive
<1>2. y.er \in ER /\ y.flag \in Flag
      BY Zenon, <1>1, NextFromType, MessageFields DEF IInv
<1>3. finvotes \in [Node -> [ER -> [Flag -> SUBSET Node]]]
      BY Zenon DEF IInv, TypeOK
<1> HIDE DEF y
<1>4. OneVote(finvotes, finvotes', n, y.er, m, y.flag)
      BY <1>1, <1>2, <1>3 DEF OneVote
<1>5. QED BY Zenon, <1>1, <1>2, <1>4 DEF y

\* Nothing that is sent, counted, accepted, locked or finished is undone.
Grows ==
    /\ coin' = coin
    /\ \A a \in Node : /\ On(log[a]) \subseteq On(log'[a])
                       /\ accepted[a] \subseteq accepted'[a]
                       /\ locked[a] \subseteq locked'[a]
                       /\ finished[a] \subseteq finished'[a]
    /\ Within(prevotes, prevotes') /\ Within(finvotes, finvotes')

\* No handler undoes anything.
LEMMA HandlerGrows ==
    ASSUME IInv, NEW n \in Node, NEW m \in Node, Handle(n, m)
    PROVE  Grows
<1> DEFINE y == NextFrom(n, m)
<1>1. \A a \in Node : On(log[a]) \subseteq On(log'[a])
  <2>1. PICK out \in Seq(Message) : TakeAndSend(n, m, out)
        BY Zenon, HandlerSends
  <2>2. QED BY Zenon, <2>1, HandlerSends, LogsAfter
<1>2. coin' = coin /\ accepted' = accepted /\ locked' = locked /\ finished' = finished
      BY ZenonT(60) DEF Handle, Discard, handleSpbProposal, handleFinish, handleDone,
         handleElectShare, handlePrevote, handleFinvote, handleHalt, spbVars
<1>3. /\ prevotes' = prevotes \/ (handlePrevote(n, m) /\ finvotes' = finvotes)
      /\ finvotes' = finvotes \/ (handleFinvote(n, m) /\ prevotes' = prevotes)
      BY ZenonT(60) DEF Handle, Discard, handleSpbProposal, handleFinish, handleDone,
         handleElectShare, handlePrevote, handleFinvote, handleHalt, voteVars
<1>4. /\ prevotes \in [Node -> [ER -> [Flag -> SUBSET Node]]]
      /\ finvotes \in [Node -> [ER -> [Flag -> SUBSET Node]]]
      BY Zenon DEF IInv, TypeOK
<1>5. Within(prevotes, prevotes')
  <2>1. CASE prevotes' = prevotes
        BY Zenon, <2>1 DEF Within
  <2>2. CASE handlePrevote(n, m)
    <3>1. y.er \in ER /\ y.flag \in Flag /\ OneVote(prevotes, prevotes', n, y.er, m, y.flag)
          BY Zenon, <2>2, PrevoteAdds
    <3> HIDE DEF y
    <3>2. QED BY Zenon, <1>4, <3>1, VotesGrow
  <2>3. QED BY Zenon, <1>3, <2>1, <2>2
<1>6. Within(finvotes, finvotes')
  <2>1. CASE finvotes' = finvotes
        BY Zenon, <2>1 DEF Within
  <2>2. CASE handleFinvote(n, m)
    <3>1. y.er \in ER /\ y.flag \in Flag /\ OneVote(finvotes, finvotes', n, y.er, m, y.flag)
          BY Zenon, <2>2, FinvoteAdds
    <3> HIDE DEF y
    <3>2. QED BY Zenon, <1>4, <3>1, VotesGrow
  <2>3. QED BY Zenon, <1>3, <2>1, <2>2
<1>7. QED BY Zenon, <1>1, <1>2, <1>5, <1>6 DEF Grows

\* No step undoes anything.
LEMMA NextGrows == IInv /\ [Next]_vars => Grows
<1> SUFFICES ASSUME IInv, [Next]_vars PROVE Grows
    OBVIOUS
<1>1. Active \subseteq Node
      BY Zenon DEF Active
<1>2. ASSUME NEW n \in Active, NEW m \in Active, Handle(n, m) PROVE Grows
      BY Zenon, <1>1, <1>2, HandlerGrows
<1>3. ASSUME NEW n \in Active, NEW b \in Block, PayloadArrives(n, b) \/ handleLoopBack(n, b)
      PROVE  Grows
      BY Zenon, <1>3 DEF Grows, Within, PayloadArrives, handleLoopBack, netVars, voteVars, spbVars
<1>4. /\ accepted \in [Node -> SUBSET (ER \X Node)] /\ locked \in [Node -> SUBSET (ER \X Node)]
      /\ finished \in [Node -> SUBSET ER]
      BY Zenon DEF IInv, TypeOK
<1>5. ASSUME NEW n \in Active, NEW i \in ER \X Active, SpbAccept(n, i) \/ SpbLock(n, i)
      PROVE  Grows
      BY ZenonT(60), <1>4, <1>5 DEF Grows, Within, SpbAccept, SpbLock, netVars, voteVars
<1>6. ASSUME NEW n \in Active, NEW er \in ER, SpbFinish(n, er) \/ SpbFinishSelf(n, er)
      PROVE  Grows
  <2>1. \A a \in Node : On(log[a]) \subseteq On(log'[a])
        BY Zenon, <1>1, <1>6, FinishLogs
  <2>2. /\ coin' = coin /\ accepted' = accepted /\ locked' = locked
        /\ prevotes' = prevotes /\ finvotes' = finvotes
        /\ finished' = finished \/ finished' = [finished EXCEPT ![n] = @ \cup {er}]
        BY Zenon, <1>6 DEF SpbFinish, SpbFinishSelf, voteVars
  <2>3. \A a \in Node : finished[a] \subseteq finished'[a]
        BY Zenon, <1>4, <2>2
  <2>4. QED BY Zenon, <2>1, <2>2, <2>3 DEF Grows, Within
<1>7. CASE UNCHANGED vars
      BY Zenon, <1>7 DEF Grows, Within, vars, netVars, voteVars, spbVars
<1>8. QED BY Zenon, <1>2, <1>3, <1>5, <1>6, <1>7 DEF Next

\* At the start each node has its first proposal on its links and for itself.
LEMMA InitLog == Init => LogInv
BY Zenon DEF Init, LogInv

\* Every step keeps LogInv.
LEMMA NextLog == IInv /\ LogInv /\ [Next]_vars => LogInv'
<1> SUFFICES ASSUME IInv, LogInv, [Next]_vars PROVE LogInv'
    OBVIOUS
<1>1. Active \subseteq Node /\ Grows
      BY Zenon, NextGrows DEF Active
<1>2. ASSUME finished' = finished, self' = self PROVE LogInv'
      BY Zenon, <1>1, <1>2 DEF LogInv, Grows, On
<1>3. ASSUME NEW n \in Active, NEW m \in Active, Handle(n, m) PROVE LogInv'
  <2>1. finished' = finished
        BY ZenonT(60), <1>3 DEF Handle, Discard, handleSpbProposal, handleFinish, handleDone,
           handleElectShare, handlePrevote, handleFinvote, handleHalt, spbVars
  <2>2. PICK out \in Seq(Message) : TakeAndSend(n, m, out)
        BY Zenon, <1>1, <1>3, HandlerSends
  <2>3. HasNext(n, m)
        BY Zenon, <1>1, <1>3, HandlerSends
  <2>4. \A a \in Node : On(self'[a]) \subseteq On(log'[a])
        BY Zenon, <1>1, <2>2, <2>3, LogsAfter DEF LogInv
  <2>5. QED BY Zenon, <1>1, <2>1, <2>4 DEF LogInv, Grows, On
<1>4. ASSUME NEW n \in Active, NEW er \in ER, SpbFinish(n, er) PROVE LogInv'
  <2>1. \A a \in Node : \A r \in finished'[a] : r \in finished[a] \/ (a = n /\ r = er)
    <3>1. finished \in [Node -> SUBSET ER]
          BY Zenon DEF IInv, TypeOK
    <3>2. finished' = [finished EXCEPT ![n] = @ \cup {er}]
          BY Zenon, <1>4 DEF SpbFinish
    <3>3. QED BY <3>1, <3>2
  <2>2. \A a \in Node : On(self'[a]) \subseteq On(log'[a])
        BY Zenon, <1>1, <1>4, FinishLogs DEF LogInv, Grows
  <2>3. \A a \in Node : \A r \in finished'[a] : Signed("finish", r) \in On(log'[a])
    <3>1. \A a \in Node : On(log'[a]) = IF a = n THEN On(log[a]) \cup {Signed("finish", er)}
                                        ELSE On(log[a])
          BY Zenon, <1>1, <1>4, FinishLogs
    <3>2. QED BY Zenon, <2>1, <3>1 DEF LogInv
  <2>4. QED BY Zenon, <2>2, <2>3 DEF LogInv, On
<1>5. ASSUME NEW n \in Active, NEW er \in ER, SpbFinishSelf(n, er) PROVE LogInv'
  <2>1. finished' = finished /\ er \in finished[n]
        BY Zenon, <1>5 DEF SpbFinishSelf
  <2>2. \A a \in Node : On(self'[a]) \subseteq On(log'[a])
    <3>1. \A a \in Node : /\ log'[a] = log[a]
                          /\ On(self'[a]) = IF a = n THEN On(self[a]) \cup {Signed("finish", er)}
                                            ELSE On(self[a])
          BY Zenon, <1>1, <1>5, FinishLogs
    <3>2. QED BY Zenon, <1>1, <2>1, <3>1 DEF LogInv
  <2>3. \A a \in Node : \A r \in finished'[a] : Signed("finish", r) \in On(log'[a])
        BY Zenon, <1>1, <2>1 DEF LogInv, Grows
  <2>4. QED BY Zenon, <2>2, <2>3 DEF LogInv, On
<1>6. ASSUME NEW n \in Active,
             \/ \E b \in Block : PayloadArrives(n, b) \/ handleLoopBack(n, b)
             \/ \E i \in ER \X Active : SpbAccept(n, i) \/ SpbLock(n, i)
      PROVE  LogInv'
      BY Zenon, <1>2, <1>6 DEF PayloadArrives, handleLoopBack, SpbAccept, SpbLock, netVars, spbVars
<1>7. CASE UNCHANGED vars
      BY Zenon, <1>2, <1>7 DEF vars, netVars, spbVars
<1>8. QED BY Zenon, <1>3, <1>4, <1>5, <1>6, <1>7 DEF Next

-----------------------------------------------------------------------------
(* Quorums. *)

\* The thresholds are natural numbers.
LEMMA Thresholds == HightThreshold \in Nat /\ LowThreshold \in Nat
<1>1. Size \in Nat /\ Size # 0
      BY CommitteeAssumption, FS_CardinalityType, FS_EmptySet DEF Size
<1>2. QED BY <1>1 DEF F, HightThreshold, LowThreshold

Quorate(S) == Cardinality(S) >= HightThreshold

\* The answers of the vote aggregators that stand for 2f+1 equal votes.
LEMMA ActionQuorums ==
    ASSUME NEW votes, NEW a, NEW f
    PROVE  LET new == AddVote(votes, a, f)
           IN  /\ PrevoteAction(votes, a, f) = "no" => Quorate(new["no"])
               /\ FinVoteAction(votes, a, f) = "commit" => Quorate(new["yes"])
               /\ FinVoteAction(votes, a, f) = "no" => Quorate(new["no"])
<1> DEFINE new == AddVote(votes, a, f)
<1>1. \A S : Cardinality(S) = HightThreshold => Quorate(S)
      BY Thresholds DEF Quorate
<1>2. PrevoteAction(votes, a, f) = "no" => Cardinality(new["no"]) = HightThreshold
      BY DEF PrevoteAction
<1>3. /\ FinVoteAction(votes, a, f) = "commit" =>
            Cardinality(Voters(new)) = HightThreshold /\ new["no"] = {}
      /\ FinVoteAction(votes, a, f) = "no" =>
            Cardinality(Voters(new)) = HightThreshold /\ new["yes"] = {}
      BY DEF FinVoteAction
<1> HIDE DEF new
<1>4. /\ new["no"] = {} => Voters(new) = new["yes"]
      /\ new["yes"] = {} => Voters(new) = new["no"]
      BY DEF Voters
<1>5. /\ PrevoteAction(votes, a, f) = "no" => Quorate(new["no"])
      /\ FinVoteAction(votes, a, f) = "commit" => Quorate(new["yes"])
      /\ FinVoteAction(votes, a, f) = "no" => Quorate(new["no"])
      BY Zenon, <1>1, <1>2, <1>3, <1>4
<1>6. QED BY Zenon, <1>5 DEF new

\* A set of nodes with a quorum in it is a quorum.
LEMMA QuorateGrows ==
    ASSUME NEW T \in SUBSET Node, NEW S \in SUBSET T, Quorate(S)
    PROVE  Quorate(T)
<1>1. IsFiniteSet(T) /\ IsFiniteSet(S) /\ Cardinality(S) <= Cardinality(T)
      BY CommitteeAssumption, FS_Subset
<1>2. Cardinality(S) \in Nat /\ Cardinality(T) \in Nat
      BY <1>1, FS_CardinalityType
<1>3. QED BY <1>1, <1>2, Thresholds DEF Quorate

\* A quorum has a member.
LEMMA QuorateHas ==
    ASSUME NEW S \in SUBSET Node, Quorate(S)
    PROVE  \E a \in Node : a \in S
<1>1. HightThreshold \in Nat \ {0}
  <2>1. Size \in Nat /\ Size # 0
        BY ZenonT(60), CommitteeAssumption, FS_CardinalityType, FS_EmptySet DEF Size
  <2>2. QED BY <2>1 DEF HightThreshold, F
<1>2. SUFFICES ASSUME S = {} PROVE FALSE
      OBVIOUS
<1>3. Cardinality(S) = 0
      BY <1>2, FS_EmptySet
<1>4. QED BY <1>1, <1>3 DEF Quorate

\* Where two sets of 2f+1 nodes always meet.
LEMMA QuoratesMeet ==
    ASSUME 2 * HightThreshold > Size, NEW S \in SUBSET Node, NEW T \in SUBSET Node,
           Quorate(S), Quorate(T)
    PROVE  \E a \in Node : a \in S /\ a \in T
<1>1. IsFiniteSet(S) /\ IsFiniteSet(T)
      BY CommitteeAssumption, FS_Subset
<1>2. Cardinality(S) \in Nat /\ Cardinality(T) \in Nat /\ Size \in Nat
      BY <1>1, CommitteeAssumption, FS_CardinalityType DEF Size
<1>3. Cardinality(S) + Cardinality(T) > Cardinality(Node)
      BY <1>2, Thresholds DEF Quorate, Size
<1>4. S \cap T # {}
      BY <1>3, CommitteeAssumption, FS_MajoritiesIntersect
<1>5. QED BY Zenon, <1>4

\* A committee with 2f+1 = 1 in which quorums meet has one node.
LEMMA OneNode ==
    ASSUME 2 * HightThreshold > Size, NEW c \in Node, NEW S \in SUBSET Node, Quorate(S),
           \A p \in S : p = c
    PROVE  \A a, b \in Node : a = b
<1>1. S \subseteq {c} /\ IsFiniteSet({c}) /\ Cardinality({c}) = 1
      BY Zenon, FS_Singleton
<1>2. Cardinality(S) <= 1 /\ Cardinality(S) \in Nat
      BY <1>1, FS_Subset, FS_CardinalityType
<1>3. Size \in Nat /\ IsFiniteSet(Node)
      BY CommitteeAssumption, FS_CardinalityType DEF Size
<1>4. Size <= 1
      BY <1>2, <1>3, Thresholds DEF Quorate
<1>5. SUFFICES ASSUME NEW a \in Node, NEW b \in Node, a # b PROVE FALSE
      OBVIOUS
<1>6. Cardinality({a, b}) = 2
  <2>1. Cardinality({a} \cup {b}) = Cardinality({a}) + 1
        BY Zenon, <1>5, FS_Singleton, FS_AddElement
  <2>2. {a} \cup {b} = {a, b} /\ Cardinality({a}) = 1
        BY FS_Singleton
  <2>3. QED BY <2>1, <2>2
<1>7. Cardinality({a, b}) <= Size
  <2>1. {a, b} \subseteq Node
        OBVIOUS
  <2>2. QED BY <1>3, <2>1, FS_Subset DEF Size
<1>8. QED BY <1>3, <1>4, <1>6, <1>7

-----------------------------------------------------------------------------
(* The steps of a round. *)

Sizable(S) == Cardinality(S) >= LowThreshold

\* What node n has done in round er for the messages it has counted.
Steps(n, er) ==
    /\ er \in DoneFlags[n] => HasSent(n, "done", er) /\ HasSent(n, "share", er)
    /\ Quorate(FinishFlags[n][er]) \/ Sizable(doneAuthors[n][er]) => er \in DoneFlags[n]
    /\ Quorate(doneAuthors[n][er]) => er \in ReadyFlags[n]
    /\ Quorate(shareAuthors[n][er]) => leaders[n][er] # NONE
    /\ Quorate(doneAuthors[n][er]) /\ Quorate(shareAuthors[n][er]) =>
          HasSent(n, "prevote", er) \/ HasSent(n, "halt", er)
    /\ prevotes[n][er]["yes"] # {} \/ Quorate(prevotes[n][er]["no"]) => HasSent(n, "finvote", er)

StepInv == \A n \in Node, er \in ER : Steps(n, er)

\* Node n has now sent a message.
SendsNow(n, type, er) == \E x \in On(log'[n]) : x.type = type /\ x.er = er

\* A step of the system takes node n along in round er.
StepsOn(n, er) ==
    /\ er \in DoneFlags[n] => er \in DoneFlags'[n]
    /\ er \in ReadyFlags[n] => er \in ReadyFlags'[n]
    /\ leaders[n][er] # NONE => leaders'[n][er] # NONE
    /\ er \in DoneFlags'[n] =>
          er \in DoneFlags[n] \/ (SendsNow(n, "done", er) /\ SendsNow(n, "share", er))
    /\ Quorate(FinishFlags'[n][er]) => Quorate(FinishFlags[n][er]) \/ er \in DoneFlags'[n]
    /\ Sizable(doneAuthors'[n][er]) => Sizable(doneAuthors[n][er]) \/ er \in DoneFlags'[n]
    /\ Quorate(doneAuthors'[n][er]) => Quorate(doneAuthors[n][er]) \/ er \in ReadyFlags'[n]
    /\ Quorate(shareAuthors'[n][er]) => Quorate(shareAuthors[n][er]) \/ leaders'[n][er] # NONE
    /\ Quorate(doneAuthors'[n][er]) /\ Quorate(shareAuthors'[n][er]) =>
          \/ Quorate(doneAuthors[n][er]) /\ Quorate(shareAuthors[n][er])
          \/ SendsNow(n, "prevote", er) \/ SendsNow(n, "halt", er)
    /\ prevotes'[n][er]["yes"] # {} =>
          prevotes[n][er]["yes"] # {} \/ SendsNow(n, "finvote", er)
    /\ Quorate(prevotes'[n][er]["no"]) =>
          Quorate(prevotes[n][er]["no"]) \/ prevotes[n][er]["yes"] # {}
          \/ SendsNow(n, "finvote", er)

-----------------------------------------------------------------------------

\* What was sent stays sent.
LEMMA SentStays ==
    ASSUME Grows, NEW n \in Node, NEW type, NEW er
    PROVE  /\ HasSent(n, type, er) => HasSent(n, type, er)'
           /\ SendsNow(n, type, er) => HasSent(n, type, er)'
<1>1. SendsNow(n, type, er) => HasSent(n, type, er)'
      BY Zenon DEF SendsNow, HasSent, On
<1>2. HasSent(n, type, er) => \E x \in On(log[n]) : x.type = type /\ x.er = er
      BY Zenon DEF HasSent, On
<1>3. HasSent(n, type, er) => SendsNow(n, type, er)
      BY Zenon, <1>2 DEF SendsNow, Grows
<1>4. QED BY Zenon, <1>1, <1>3

\* Steps that take every node along keep StepInv.
LEMMA StepsTaken ==
    ASSUME Grows, StepInv, \A n \in Node, er \in ER : StepsOn(n, er)
    PROVE  StepInv'
<1> SUFFICES ASSUME NEW n \in Node, NEW er \in ER PROVE Steps(n, er)'
    BY Zenon DEF StepInv
<1>1. Steps(n, er) /\ StepsOn(n, er)
      BY Zenon DEF StepInv
<1>2. \A type : /\ HasSent(n, type, er) => HasSent(n, type, er)'
                /\ SendsNow(n, type, er) => HasSent(n, type, er)'
      BY Zenon, SentStays
<1>3. er \in DoneFlags'[n] => HasSent(n, "done", er)' /\ HasSent(n, "share", er)'
      BY Zenon, <1>1, <1>2 DEF Steps, StepsOn
<1>4. /\ Quorate(FinishFlags'[n][er]) \/ Sizable(doneAuthors'[n][er]) => er \in DoneFlags'[n]
      /\ Quorate(doneAuthors'[n][er]) => er \in ReadyFlags'[n]
      /\ Quorate(shareAuthors'[n][er]) => leaders'[n][er] # NONE
      BY Zenon, <1>1 DEF Steps, StepsOn
<1>5. Quorate(doneAuthors'[n][er]) /\ Quorate(shareAuthors'[n][er]) =>
          HasSent(n, "prevote", er)' \/ HasSent(n, "halt", er)'
      BY Zenon, <1>1, <1>2 DEF Steps, StepsOn
<1>6. prevotes'[n][er]["yes"] # {} \/ Quorate(prevotes'[n][er]["no"]) => HasSent(n, "finvote", er)'
      BY Zenon, <1>1, <1>2 DEF Steps, StepsOn
<1>7. QED BY Zenon, <1>3, <1>4, <1>5, <1>6 DEF Steps, Quorate, Sizable

\* A set that has come to a threshold has just reached it.
LEMMA CountStep ==
    ASSUME NEW S \in SUBSET Node, NEW m \in Node
    PROVE  /\ Quorate(S \cup {m}) => Quorate(S) \/ Reached(S, m, HightThreshold)
           /\ Sizable(S \cup {m}) => Sizable(S) \/ Reached(S, m, LowThreshold)
<1>1. IsFiniteSet(S) /\ Cardinality(S) \in Nat
      BY CommitteeAssumption, FS_Subset, FS_CardinalityType
<1>2. CASE m \in S
  <2>1. S \cup {m} = S
        BY <1>2
  <2>2. QED BY Zenon, <2>1
<1>3. CASE m \notin S
  <2>1. Cardinality(S \cup {m}) = Cardinality(S) + 1
        BY Zenon, <1>1, <1>3, FS_AddElement
  <2>2. QED BY <1>1, <1>3, <2>1, Thresholds DEF Quorate, Sizable, Reached
<1>4. QED BY Zenon, <1>2, <1>3

\* Only the entry of node n and round er gets a new author.
OneAuthor(t, u, n, er, m) ==
    \A a \in Node, e \in ER : u[a][e] = IF a = n /\ e = er THEN t[n][er] \cup {m} ELSE t[a][e]

\* Adding an author to one entry of a table.
LEMMA AuthorAdded ==
    ASSUME NEW t \in [Node -> [ER -> SUBSET Node]], NEW n \in Node, NEW er \in ER, NEW m,
           NEW u, u = [t EXCEPT ![n][er] = t[n][er] \cup {m}]
    PROVE  OneAuthor(t, u, n, er, m)
BY DEF OneAuthor

\* A round in which nothing is counted.
LEMMA SameSteps ==
    ASSUME NEW a, NEW e, FinishFlags'[a][e] = FinishFlags[a][e],
           doneAuthors'[a][e] = doneAuthors[a][e], shareAuthors'[a][e] = shareAuthors[a][e],
           prevotes'[a][e] = prevotes[a][e], e \in DoneFlags'[a] <=> e \in DoneFlags[a],
           e \in ReadyFlags[a] => e \in ReadyFlags'[a],
           leaders[a][e] # NONE => leaders'[a][e] # NONE
    PROVE  StepsOn(a, e)
BY Zenon DEF StepsOn

\* Handlers and other steps that leave the counts alone.
LEMMA QuietSteps ==
    ASSUME FinishFlags' = FinishFlags, DoneFlags' = DoneFlags, ReadyFlags' = ReadyFlags,
           doneAuthors' = doneAuthors, shareAuthors' = shareAuthors, prevotes' = prevotes,
           \A a \in Node, er \in ER : leaders[a][er] # NONE => leaders'[a][er] # NONE
    PROVE  \A a \in Node, er \in ER : StepsOn(a, er)
BY Zenon DEF StepsOn

\* invokeDoneAndShare sends Done and the share, unless they are sent.
LEMMA DoneAndShareSent ==
    ASSUME IInv, NEW n \in Node, NEW m \in Node, HasNext(n, m), NEW er \in ER,
           TakeAndSend(n, m, DoneAndShare(n, er))
    PROVE  er \in DoneFlags[n] \/ (SendsNow(n, "done", er) /\ SendsNow(n, "share", er))
<1> DEFINE d == Signed("done", er)
           s == Signed("share", er)
<1>1. SUFFICES ASSUME er \notin DoneFlags[n] PROVE SendsNow(n, "done", er) /\ SendsNow(n, "share", er)
      OBVIOUS
<1>2. DoneAndShare(n, er) = <<d, s>> /\ DoneAndShare(n, er) \in Seq(Message)
      BY Zenon, <1>1, DoneAndShareType DEF DoneAndShare
<1>3. d.type = "done" /\ d.er = er /\ s.type = "share" /\ s.er = er
      BY DEF Signed
<1> HIDE DEF d, s
<1>4. On(<<d, s>>) = {d, s}
      BY Zenon, OnSmall
<1>5. On(log'[n]) = On(log[n]) \cup On(DoneAndShare(n, er))
      BY Zenon, <1>2, LogsAfter
<1>6. d \in On(log'[n]) /\ s \in On(log'[n])
      BY Zenon, <1>2, <1>4, <1>5
<1>7. QED BY Zenon, <1>3, <1>6 DEF SendsNow

\* The 2f+1st Finish.
LEMMA FinishSteps ==
    ASSUME IInv, NEW n \in Node, NEW m \in Node, handleFinish(n, m)
    PROVE  \A a \in Node, e \in ER : StepsOn(a, e)
<1>1. PICK er : er = NextFrom(n, m).er
      OBVIOUS
<1> DEFINE flag == Reached(FinishFlags[n][er], m, HightThreshold)
<1>2. /\ HasNext(n, m)
      /\ FinishFlags' = [FinishFlags EXCEPT ![n][er] = FinishFlags[n][er] \cup {m}]
      /\ TakeAndSend(n, m, IF flag THEN DoneAndShare(n, er) ELSE <<>>)
      /\ DoneFlags' = [DoneFlags EXCEPT ![n] = IF flag THEN DoneFlags[n] \cup {er} ELSE DoneFlags[n]]
      /\ ReadyFlags' = ReadyFlags /\ doneAuthors' = doneAuthors /\ shareAuthors' = shareAuthors
      /\ prevotes' = prevotes /\ leaders' = leaders
      BY Zenon, <1>1 DEF handleFinish, Receive
<1>3. er \in ER
      BY Zenon, <1>1, <1>2, NextFromType, MessageFields DEF IInv
<1>4. OneAuthor(FinishFlags, FinishFlags', n, er, m) /\ FinishFlags[n][er] \in SUBSET Node
  <2>1. FinishFlags \in [Node -> [ER -> SUBSET Node]]
        BY Zenon DEF IInv, TypeOK
  <2>2. QED BY Zenon, <1>2, <1>3, <2>1, AuthorAdded
<1>5. \A a \in Node : DoneFlags'[a] = IF a = n /\ flag THEN DoneFlags[n] \cup {er} ELSE DoneFlags[a]
  <2>1. DoneFlags \in [Node -> SUBSET ER]
        BY Zenon DEF IInv, TypeOK
  <2> HIDE DEF flag
  <2>2. QED BY Zenon, <1>2, <2>1
<1>6. flag => er \in DoneFlags[n] \/ (SendsNow(n, "done", er) /\ SendsNow(n, "share", er))
  <2> HIDE DEF flag
  <2>1. flag => TakeAndSend(n, m, DoneAndShare(n, er))
        BY Zenon, <1>2
  <2>2. QED BY Zenon, <1>2, <1>3, <2>1, DoneAndShareSent
<1>7. Quorate(FinishFlags[n][er] \cup {m}) => Quorate(FinishFlags[n][er]) \/ flag
      BY Zenon, <1>4, CountStep
<1> HIDE DEF flag
<1>8. ASSUME NEW a \in Node, NEW e \in ER, ~(a = n /\ e = er) PROVE StepsOn(a, e)
  <2>1. FinishFlags'[a][e] = FinishFlags[a][e]
        BY Zenon, <1>4, <1>8 DEF OneAuthor
  <2>2. e \in DoneFlags'[a] <=> e \in DoneFlags[a]
        BY Zenon, <1>5, <1>8
  <2>3. QED BY Zenon, <1>2, <2>1, <2>2, SameSteps
<1>9. StepsOn(n, er)
  <2>1. FinishFlags'[n][er] = FinishFlags[n][er] \cup {m}
        BY Zenon, <1>3, <1>4 DEF OneAuthor
  <2>2. er \in DoneFlags'[n] <=> er \in DoneFlags[n] \/ flag
        BY Zenon, <1>5
  <2>3. QED BY Zenon, <1>2, <1>6, <1>7, <2>1, <2>2 DEF StepsOn
<1>10. QED BY Zenon, <1>8, <1>9

\* processLeader, with the node ready and the leader known, sends a prevote or a
\* Halt.
LEMMA LeaderSent ==
    ASSUME IInv, NEW n \in Node, NEW m \in Node, HasNext(n, m), NEW er \in ER, NEW ready,
           NEW l \in Node, er \in ready, TakeAndSend(n, m, processLeader(n, er, ready, l))
    PROVE  SendsNow(n, "prevote", er) \/ SendsNow(n, "halt", er)
<1> DEFINE x == LeaderMessage(n, er, l)
<1>1. processLeader(n, er, ready, l) = <<x>>
      BY Zenon, CoreAssumption DEF processLeader
<1>2. processLeader(n, er, ready, l) \in Seq(Message)
      BY ZenonT(30), ProcessLeaderType
<1>3. x.type \in {"prevote", "halt"} /\ x.er = er
      BY DEF LeaderMessage, NewHalt, NewPrevote
<1> HIDE DEF x
<1>4. On(<<x>>) = {x}
      BY Zenon, OnSmall
<1>5. On(log'[n]) = On(log[n]) \cup On(processLeader(n, er, ready, l))
      BY Zenon, <1>2, LogsAfter
<1>6. x \in On(log'[n])
      BY Zenon, <1>1, <1>4, <1>5
<1>7. QED BY Zenon, <1>3, <1>6 DEF SendsNow

\* The f+1st Done, and the 2f+1st: the coin may be known already.
LEMMA DoneSteps ==
    ASSUME LowThreshold < HightThreshold, IInv, StepInv, NEW n \in Node, NEW m \in Node,
           handleDone(n, m)
    PROVE  \A a \in Node, e \in ER : StepsOn(a, e)
<1>1. PICK er : er = NextFrom(n, m).er
      OBVIOUS
<1> DEFINE low == Reached(doneAuthors[n][er], m, LowThreshold)
           high == ~low /\ Reached(doneAuthors[n][er], m, HightThreshold)
           ready == IF high THEN ReadyFlags[n] \cup {er} ELSE ReadyFlags[n]
<1>2. /\ HasNext(n, m)
      /\ doneAuthors' = [doneAuthors EXCEPT ![n][er] = doneAuthors[n][er] \cup {m}]
      /\ DoneFlags' = [DoneFlags EXCEPT ![n] = IF low THEN DoneFlags[n] \cup {er} ELSE DoneFlags[n]]
      /\ ReadyFlags' = [ReadyFlags EXCEPT ![n] = ready]
      /\ TakeAndSend(n, m, IF low THEN DoneAndShare(n, er)
                           ELSE IF high THEN processLeader(n, er, ready, leaders[n][er])
                           ELSE <<>>)
      /\ FinishFlags' = FinishFlags /\ shareAuthors' = shareAuthors
      /\ prevotes' = prevotes /\ leaders' = leaders
      BY Zenon, <1>1 DEF handleDone, Receive
<1>3. er \in ER
      BY Zenon, <1>1, <1>2, NextFromType, MessageFields DEF IInv
<1>4. OneAuthor(doneAuthors, doneAuthors', n, er, m) /\ doneAuthors[n][er] \in SUBSET Node
  <2>1. doneAuthors \in [Node -> [ER -> SUBSET Node]]
        BY Zenon DEF IInv, TypeOK
  <2>2. QED BY Zenon, <1>2, <1>3, <2>1, AuthorAdded
<1>5. Reached(doneAuthors[n][er], m, HightThreshold) => high
      BY Thresholds DEF Reached
<1>6. /\ Sizable(doneAuthors[n][er] \cup {m}) => Sizable(doneAuthors[n][er]) \/ low
      /\ Quorate(doneAuthors[n][er] \cup {m}) => Quorate(doneAuthors[n][er]) \/ high
      BY Zenon, <1>4, <1>5, CountStep
<1>7. low => ~high
      OBVIOUS
<1>8. er \in ready <=> er \in ReadyFlags[n] \/ high
      OBVIOUS
<1>9. \A e \in ER : e # er => (e \in ready <=> e \in ReadyFlags[n])
      OBVIOUS
<1> HIDE DEF low, high, ready
<1>10. \A a \in Node :
          /\ DoneFlags'[a] = IF a = n /\ low THEN DoneFlags[n] \cup {er} ELSE DoneFlags[a]
          /\ ReadyFlags'[a] = IF a = n THEN ready ELSE ReadyFlags[a]
  <2>1. DoneFlags \in [Node -> SUBSET ER] /\ ReadyFlags \in [Node -> SUBSET ER]
        BY Zenon DEF IInv, TypeOK
  <2>2. QED BY Zenon, <1>2, <2>1
<1>11. low => er \in DoneFlags[n] \/ (SendsNow(n, "done", er) /\ SendsNow(n, "share", er))
  <2>1. low => TakeAndSend(n, m, DoneAndShare(n, er))
        BY Zenon, <1>2
  <2>2. QED BY Zenon, <1>2, <1>3, <2>1, DoneAndShareSent
<1>12. high /\ Quorate(shareAuthors[n][er]) => SendsNow(n, "prevote", er) \/ SendsNow(n, "halt", er)
  <2> SUFFICES ASSUME high, Quorate(shareAuthors[n][er])
               PROVE  SendsNow(n, "prevote", er) \/ SendsNow(n, "halt", er)
      OBVIOUS
  <2>1. TakeAndSend(n, m, processLeader(n, er, ready, leaders[n][er]))
        BY Zenon, <1>2, <1>7
  <2>2. leaders[n][er] \in Node
    <3>1. leaders \in [Node -> [ER -> Node \cup {NONE}]]
          BY Zenon DEF IInv, TypeOK
    <3>2. leaders[n][er] # NONE
          BY Zenon, <1>3 DEF StepInv, Steps
    <3>3. QED BY Zenon, <1>3, <3>1, <3>2
  <2>3. QED BY Zenon, <1>2, <1>3, <1>8, <2>1, <2>2, LeaderSent
<1>13. ASSUME NEW a \in Node, NEW e \in ER, ~(a = n /\ e = er) PROVE StepsOn(a, e)
  <2>1. doneAuthors'[a][e] = doneAuthors[a][e]
        BY Zenon, <1>4, <1>13 DEF OneAuthor
  <2>2. e \in DoneFlags'[a] <=> e \in DoneFlags[a]
        BY Zenon, <1>10, <1>13
  <2>3. e \in ReadyFlags'[a] <=> e \in ReadyFlags[a]
        BY Zenon, <1>9, <1>10, <1>13
  <2>4. QED BY Zenon, <1>2, <2>1, <2>2, <2>3, SameSteps
<1>14. StepsOn(n, er)
  <2>1. doneAuthors'[n][er] = doneAuthors[n][er] \cup {m}
        BY Zenon, <1>3, <1>4 DEF OneAuthor
  <2>2. er \in DoneFlags'[n] <=> er \in DoneFlags[n] \/ low
        BY Zenon, <1>10
  <2>3. er \in ReadyFlags'[n] <=> er \in ReadyFlags[n] \/ high
        BY Zenon, <1>8, <1>10
  <2>4. QED BY ZenonT(60), <1>2, <1>6, <1>11, <1>12, <2>1, <2>2, <2>3 DEF StepsOn
<1>15. QED BY Zenon, <1>13, <1>14

\* The 2f+1st share: 2f+1 Done messages may be counted already.
LEMMA ShareSteps ==
    ASSUME IInv, StepInv, NEW n \in Node, NEW m \in Node, handleElectShare(n, m)
    PROVE  \A a \in Node, e \in ER : StepsOn(a, e)
<1>1. PICK er : er = NextFrom(n, m).er
      OBVIOUS
<1> DEFINE flag == Reached(shareAuthors[n][er], m, HightThreshold)
           node == ElectAppend(n, m, er)
<1>2. /\ HasNext(n, m)
      /\ shareAuthors' = [shareAuthors EXCEPT ![n][er] = shareAuthors[n][er] \cup {m}]
      /\ leaders' = IF node # NONE THEN [leaders EXCEPT ![n][er] = node] ELSE leaders
      /\ TakeAndSend(n, m, IF node # NONE THEN processLeader(n, er, ReadyFlags[n], node) ELSE <<>>)
      /\ FinishFlags' = FinishFlags /\ doneAuthors' = doneAuthors /\ prevotes' = prevotes
      /\ DoneFlags' = DoneFlags /\ ReadyFlags' = ReadyFlags
      BY Zenon, <1>1 DEF handleElectShare, Receive, AddShareVote, SetLeader
<1>3. er \in ER
      BY Zenon, <1>1, <1>2, NextFromType, MessageFields DEF IInv
<1>4. OneAuthor(shareAuthors, shareAuthors', n, er, m) /\ shareAuthors[n][er] \in SUBSET Node
  <2>1. shareAuthors \in [Node -> [ER -> SUBSET Node]]
        BY Zenon DEF IInv, TypeOK
  <2>2. QED BY Zenon, <1>2, <1>3, <2>1, AuthorAdded
<1>5. flag => node \in Node /\ node # NONE
  <2>1. coin \in [ER -> Node]
        BY Zenon DEF IInv, TypeOK
  <2>2. QED BY Zenon, <1>3, <2>1, CoreAssumption DEF ElectAppend
<1>6. Quorate(shareAuthors[n][er] \cup {m}) => Quorate(shareAuthors[n][er]) \/ flag
      BY Zenon, <1>4, CountStep
<1> HIDE DEF flag, node
<1>7. /\ \A a \in Node, e \in ER : leaders[a][e] # NONE => leaders'[a][e] # NONE
      /\ flag => leaders'[n][er] # NONE
  <2>1. leaders \in [Node -> [ER -> Node \cup {NONE}]]
        BY Zenon DEF IInv, TypeOK
  <2>2. QED BY <1>2, <1>3, <1>5, <2>1
<1>8. flag /\ Quorate(doneAuthors[n][er]) => SendsNow(n, "prevote", er) \/ SendsNow(n, "halt", er)
  <2> SUFFICES ASSUME flag, Quorate(doneAuthors[n][er])
               PROVE  SendsNow(n, "prevote", er) \/ SendsNow(n, "halt", er)
      OBVIOUS
  <2>1. TakeAndSend(n, m, processLeader(n, er, ReadyFlags[n], node))
        BY Zenon, <1>2, <1>5
  <2>2. er \in ReadyFlags[n]
        BY Zenon, <1>3 DEF StepInv, Steps
  <2>3. QED BY Zenon, <1>2, <1>3, <1>5, <2>1, <2>2, LeaderSent
<1>9. ASSUME NEW a \in Node, NEW e \in ER, ~(a = n /\ e = er) PROVE StepsOn(a, e)
  <2>1. shareAuthors'[a][e] = shareAuthors[a][e]
        BY Zenon, <1>4, <1>9 DEF OneAuthor
  <2>2. QED BY Zenon, <1>2, <1>7, <2>1, SameSteps
<1>10. StepsOn(n, er)
  <2>1. shareAuthors'[n][er] = shareAuthors[n][er] \cup {m}
        BY Zenon, <1>3, <1>4 DEF OneAuthor
  <2>2. leaders[n][er] # NONE => leaders'[n][er] # NONE
        BY Zenon, <1>3, <1>7
  <2>3. QED BY ZenonT(60), <1>2, <1>6, <1>7, <1>8, <2>1, <2>2 DEF StepsOn
<1>11. QED BY Zenon, <1>9, <1>10

\* PreVoteAggreator answers the first yes, and 2f+1 no votes that come before one.
LEMMA PrevoteAnswers ==
    ASSUME NEW old \in [Flag -> SUBSET Node], NEW m \in Node, NEW f \in Flag
    PROVE  /\ PrevoteAction(old, m, f) \in Flag \cup {"none"}
           /\ AddVote(old, m, f)["yes"] # {}
              => old["yes"] # {} \/ PrevoteAction(old, m, f) # "none"
           /\ Quorate(AddVote(old, m, f)["no"])
              => Quorate(old["no"]) \/ old["yes"] # {} \/ PrevoteAction(old, m, f) # "none"
<1> DEFINE new == AddVote(old, m, f)
           action == PrevoteAction(old, m, f)
<1>1. action \in Flag \cup {"none"}
      BY DEF PrevoteAction, Flag
<1>2. new["yes"] # {} => old["yes"] # {} \/ action # "none"
      BY DEF AddVote, PrevoteAction, Flag
<1>3. old["no"] \in SUBSET Node
      BY DEF Flag
<1>4. new = old \/ (f = "yes" /\ new["no"] = old["no"])
      \/ (m \notin Voters(old) /\ new["no"] = old["no"] \cup {m} /\ new["yes"] = old["yes"])
      BY DEF AddVote, Flag
<1>5. Quorate(old["no"] \cup {m}) => Quorate(old["no"]) \/ Reached(old["no"], m, HightThreshold)
      BY Zenon, <1>3, CountStep
<1>6. /\ m \notin Voters(old) /\ new["no"] = old["no"] \cup {m} /\ new["yes"] = old["yes"]
      /\ Reached(old["no"], m, HightThreshold) /\ old["yes"] = {}
      => action # "none"
      BY DEF PrevoteAction, Reached
<1> HIDE DEF new, action
<1>7. /\ action \in Flag \cup {"none"}
      /\ new["yes"] # {} => old["yes"] # {} \/ action # "none"
      /\ Quorate(new["no"]) => Quorate(old["no"]) \/ old["yes"] # {} \/ action # "none"
      BY Zenon, <1>1, <1>2, <1>4, <1>5, <1>6
<1>8. QED BY Zenon, <1>7 DEF new, action

\* The first yes prevote, or 2f+1 no prevotes before it.
LEMMA PrevoteSteps ==
    ASSUME IInv, NEW n \in Node, NEW m \in Node, handlePrevote(n, m)
    PROVE  \A a \in Node, e \in ER : StepsOn(a, e)
<1>1. PICK y : y = NextFrom(n, m)
      OBVIOUS
<1> DEFINE old == prevotes[n][y.er]
           new == AddVote(old, m, y.flag)
           action == PrevoteAction(old, m, y.flag)
           fv == NewFinVote(y.leader, y.er, action, y.hash)
<1>2. /\ HasNext(n, m) /\ y \in Message /\ y.type = "prevote" /\ y.er \in ER /\ y.flag \in Flag
      /\ OneVote(prevotes, prevotes', n, y.er, m, y.flag)
      BY Zenon, <1>1, PrevoteAdds, NextFromType DEF IInv
<1>3. /\ TakeAndSend(n, m, IF action = "none" THEN <<>> ELSE <<fv>>)
      /\ FinishFlags' = FinishFlags /\ doneAuthors' = doneAuthors /\ shareAuthors' = shareAuthors
      /\ DoneFlags' = DoneFlags /\ ReadyFlags' = ReadyFlags /\ leaders' = leaders
      BY Zenon, <1>1 DEF handlePrevote
<1>4. old \in [Flag -> SUBSET Node]
  <2>1. prevotes \in [Node -> [ER -> [Flag -> SUBSET Node]]]
        BY Zenon DEF IInv, TypeOK
  <2>2. QED BY Zenon, <1>2, <2>1
<1>5. /\ action \in Flag \cup {"none"}
      /\ new["yes"] # {} => old["yes"] # {} \/ action # "none"
      /\ Quorate(new["no"]) => Quorate(old["no"]) \/ old["yes"] # {} \/ action # "none"
      BY Zenon, <1>2, <1>4, PrevoteAnswers
<1>6. action # "none" => SendsNow(n, "finvote", y.er)
  <2> SUFFICES ASSUME action # "none" PROVE SendsNow(n, "finvote", y.er)
      OBVIOUS
  <2>1. action \in Flag
        BY Zenon, <1>5
  <2>2. fv.type = "finvote" /\ fv.er = y.er
        BY DEF NewFinVote
  <2>3. TakeAndSend(n, m, <<fv>>)
        BY Zenon, <1>3
  <2>4. fv \in Message
    <3> HIDE DEF action
    <3>1. QED BY Zenon, <1>2, <2>1, MessageFields, MessageTypes
  <2> HIDE DEF fv, action
  <2>5. <<fv>> \in Seq(Message) /\ On(<<fv>>) = {fv}
        BY <2>4, OnSmall
  <2>6. On(log'[n]) = On(log[n]) \cup On(<<fv>>)
        BY ZenonT(30), <1>2, <2>3, <2>5, LogsAfter
  <2>7. QED BY Zenon, <2>2, <2>5, <2>6 DEF SendsNow
<1>7. ASSUME NEW a \in Node, NEW e \in ER, ~(a = n /\ e = y.er) PROVE StepsOn(a, e)
  <2>1. prevotes'[a][e] = prevotes[a][e]
        BY Zenon, <1>2, <1>7 DEF OneVote
  <2>2. QED BY Zenon, <1>3, <2>1, SameSteps
<1>8. StepsOn(n, y.er)
  <2>1. prevotes'[n][y.er] = new
        BY Zenon, <1>2 DEF OneVote
  <2>2. old = prevotes[n][y.er]
        OBVIOUS
  <2> HIDE DEF old, new, action
  <2>3. QED BY Zenon, <1>3, <1>5, <1>6, <2>1, <2>2 DEF StepsOn
<1>9. QED BY Zenon, <1>7, <1>8

\* A Halt names a leader, and takes none away.
LEMMA HaltSteps ==
    ASSUME IInv, NEW n \in Node, NEW m \in Node, handleHalt(n, m)
    PROVE  \A a \in Node, e \in ER : StepsOn(a, e)
<1>1. PICK h : h = NextFrom(n, m)
      OBVIOUS
<1>2. /\ HasNext(n, m) /\ h.type = "halt" /\ leaders' = [leaders EXCEPT ![n][h.er] = h.leader]
      /\ FinishFlags' = FinishFlags /\ doneAuthors' = doneAuthors /\ shareAuthors' = shareAuthors
      /\ DoneFlags' = DoneFlags /\ ReadyFlags' = ReadyFlags /\ prevotes' = prevotes
      BY Zenon, <1>1 DEF handleHalt, Receive, SetLeader, voteVars
<1>3. h.er \in ER /\ h.leader \in Node
      BY Zenon, <1>1, <1>2, NextFromType, MessageFields DEF IInv
<1>4. leaders \in [Node -> [ER -> Node \cup {NONE}]]
      BY Zenon DEF IInv, TypeOK
<1>5. h.leader # NONE
      BY Zenon, <1>3, CoreAssumption
<1>6. \A a \in Node, e \in ER : leaders[a][e] # NONE => leaders'[a][e] # NONE
      BY <1>2, <1>3, <1>4, <1>5
<1>7. QED BY Zenon, <1>2, <1>6, QuietSteps

\* At the start nothing is counted.
LEMMA InitSteps == Init => StepInv
<1> SUFFICES ASSUME Init, NEW n \in Node, NEW er \in ER PROVE Steps(n, er)
    BY Zenon DEF StepInv
<1>1. /\ FinishFlags[n][er] = {} /\ doneAuthors[n][er] = {} /\ shareAuthors[n][er] = {}
      /\ DoneFlags[n] = {}
      BY Zenon DEF Init
<1>2. prevotes[n][er]["yes"] = {} /\ prevotes[n][er]["no"] = {}
      BY DEF Init, Flag
<1>3. ~Quorate({}) /\ ~Sizable({})
  <2>1. Size \in Nat /\ Size # 0
        BY ZenonT(60), CommitteeAssumption, FS_CardinalityType, FS_EmptySet DEF Size
  <2>2. Cardinality({}) = 0
        BY Zenon, FS_EmptySet
  <2>3. QED BY <2>1, <2>2 DEF Quorate, Sizable, HightThreshold, LowThreshold, F
<1>4. QED BY Zenon, <1>1, <1>2, <1>3 DEF Steps

\* Every step keeps StepInv where f+1 is less than 2f+1.
LEMMA NextSteps ==
    ASSUME LowThreshold < HightThreshold
    PROVE  IInv /\ StepInv /\ [Next]_vars => StepInv'
<1> SUFFICES ASSUME IInv, StepInv, [Next]_vars PROVE StepInv'
    OBVIOUS
<1>1. Active \subseteq Node /\ Grows
      BY Zenon, NextGrows DEF Active
<1> DEFINE Unchanged == /\ FinishFlags' = FinishFlags /\ DoneFlags' = DoneFlags
                        /\ ReadyFlags' = ReadyFlags /\ doneAuthors' = doneAuthors
                        /\ shareAuthors' = shareAuthors /\ prevotes' = prevotes
                        /\ leaders' = leaders
<1>2. Unchanged => StepInv'
      BY Zenon, <1>1, QuietSteps, StepsTaken
<1>3. ASSUME NEW n \in Active, NEW m \in Active,
             Discard(n, m) \/ handleSpbProposal(n, m) \/ handleFinvote(n, m)
      PROVE  Unchanged
      BY Zenon, <1>3 DEF Discard, handleSpbProposal, handleFinvote, voteVars
<1>4. ASSUME NEW n \in Active,
             \/ \E b \in Block : PayloadArrives(n, b) \/ handleLoopBack(n, b)
             \/ \E i \in ER \X Active : SpbAccept(n, i) \/ SpbLock(n, i)
             \/ \E er \in ER : SpbFinish(n, er) \/ SpbFinishSelf(n, er)
      PROVE  Unchanged
      BY ZenonT(60), <1>4 DEF PayloadArrives, handleLoopBack, SpbAccept, SpbLock, SpbFinish,
         SpbFinishSelf, voteVars
<1>5. UNCHANGED vars => Unchanged
      BY Zenon DEF vars, voteVars
<1>6. ASSUME NEW n \in Active, NEW m \in Active,
             \/ handleFinish(n, m) \/ handleDone(n, m) \/ handleElectShare(n, m)
             \/ handlePrevote(n, m) \/ handleHalt(n, m)
      PROVE  StepInv'
  <2>1. n \in Node /\ m \in Node
        BY Zenon, <1>1
  <2>2. \A a \in Node, e \in ER : StepsOn(a, e)
        BY Zenon, <1>6, <2>1, FinishSteps, DoneSteps, ShareSteps, PrevoteSteps, HaltSteps
  <2>3. QED BY Zenon, <1>1, <2>2, StepsTaken
<1> HIDE DEF Unchanged
<1>7. ASSUME NEW n \in Active, NEW m \in Active, Handle(n, m) PROVE StepInv'
      BY Zenon, <1>2, <1>3, <1>6, <1>7 DEF Handle
<1>8. QED BY Zenon, <1>2, <1>4, <1>5, <1>7 DEF Next

\* The committees in which f+1 is less than 2f+1.
LEMMA LowIsLower == Size >= 4 => LowThreshold < HightThreshold
<1>1. Size \in Nat
      BY CommitteeAssumption, FS_CardinalityType DEF Size
<1>2. QED BY <1>1 DEF LowThreshold, HightThreshold, F

\* In a committee of four nodes or more a node takes each step of a round when it
\* has counted enough, although the aggregators answer only once (handleFinish,
\* handleDone, handleElectShare, handlePrevote).  In a smaller one f+1 = 2f+1, and
\* DoneAggreator never comes to its second answer.
THEOREM StepsNotMissed ==
    ASSUME Size >= 4
    PROVE  Spec => []NoStepMissed
<1>1. ASSUME IInv, StepInv, NEW n \in Node, NEW er \in ER,
             Cardinality(Voters(prevotes[n][er])) >= HightThreshold
      PROVE  HasSent(n, "finvote", er)
  <2>1. CASE prevotes[n][er]["yes"] = {}
    <3>1. Voters(prevotes[n][er]) = prevotes[n][er]["no"]
          BY Zenon, <2>1 DEF Voters
    <3>2. Quorate(prevotes[n][er]["no"])
          BY Zenon, <1>1, <3>1 DEF Quorate
    <3>3. QED BY Zenon, <1>1, <3>2 DEF StepInv, Steps
  <2>2. CASE prevotes[n][er]["yes"] # {}
        BY Zenon, <1>1, <2>2 DEF StepInv, Steps
  <2>3. QED BY Zenon, <2>1, <2>2
<1>2. IInv /\ StepInv => NoStepMissed
      BY Zenon, <1>1 DEF NoStepMissed, StepInv, Steps, Quorate, Sizable
<1>3. IInv /\ StepInv /\ [Next]_vars => StepInv'
      BY LowIsLower, NextSteps
<1>4. QED BY <1>2, <1>3, Invariance, InitSteps, PTL DEF Spec

=============================================================================
