------------------------ MODULE CoreAgreement_proofs ------------------------
(***************************************************************************)
(* Agreement when exactly as many nodes run as the thresholds ask for: f  *)
(* of 3f+1 nodes are faulty, and node 0 is one of them, because           *)
(* Core.Run stops the nodes with the smallest NodeIDs.  For every such    *)
(* committee, every coin, every number of epochs and rounds and every set *)
(* of late payloads, no two nodes commit different blocks.                *)
(*                                                                         *)
(* The argument: every quorum then is all running nodes.  The leader of a *)
(* round is known only after 2f+1 proposers have finished, so all of them *)
(* have, and every running node has locked the blocks of all of them.  If *)
(* the coin selects a running node, all votes of the round are yes, every *)
(* Halt names that node's block, and nobody enters the next round.  If it *)
(* selects a faulty one, all votes are no and nobody halts.  So the block *)
(* of an epoch is that of the first running node the coin selects.        *)
(***************************************************************************)
EXTENDS CoreCoin_proofs

\* As many nodes run as a quorum needs, and node 0 does not.
FewestNodes == Cardinality(Active) <= HightThreshold /\ Zero \in Faulty

\* The coin selects a node that runs.
Fruitful(er) == coin[er] \in Active

\* The coin has selected faulty nodes in all earlier rounds of the epoch.
Open(er) == \A q \in Rounds : q < er[2] => ~Fruitful(<<er[1], q>>)

\* The block of the node that the coin of round er selects.
Selected(er) == generatorBlock(coin[er], er[1])

\* The decision of an epoch: the block the coin selects in the first round in
\* which it selects a node that runs, known once 2f+1 proposers have finished.
Decision(b) ==
    \E er \in ER : Open(er) /\ Fruitful(er) /\ FinishQuorum(er) /\ b = Selected(er)

\* What message x from node a says about the coin of its round.
Sound(a, x) ==
    /\ x.type = "proposal" => Open(x.er) /\ x.block = generatorBlock(a, x.er[1])
    /\ x.type \in {"prevote", "finvote"} =>
          /\ x.flag = "yes" <=> Fruitful(x.er)
          /\ x.flag = "yes" => x.hash = Selected(x.er)
    /\ x.type = "finvote" => x.leader = Zero
    /\ x.type = "halt" => /\ Fruitful(x.er)
                          /\ x.hash = Selected(x.er)
                          /\ x.leader \in {coin[x.er], Zero}

AllSound(a, s) == \A k \in 1..Len(s) : Sound(a, s[k])

LinksSound == \A a \in Node : AllSound(a, log[a]) /\ AllSound(a, self[a])

\* SPB instances run for proposers that run, on blocks that are stored, in
\* rounds that are entered; a proposer finishes when all running nodes have
\* locked its block.
InstancesSound ==
    /\ \A n \in Node : \A b \in blockStore[n] : b.proposer \in Active
    /\ \A n \in Node : \A i \in calls[n] \cup accepted[n] :
          i[2] \in Active /\ Open(i[1]) /\ generatorBlock(i[2], i[1][1]) \in blockStore[n]
    /\ \A n \in Node : locked[n] \subseteq accepted[n]
    /\ \A n \in Node \ Active : locked[n] = {} /\ finished[n] = {}
    /\ \A n \in Node : \A er \in finished[n] : \A m \in Active : <<er, n>> \in locked[m]

\* A leader that was not selected by the coin comes from a Halt, and the node
\* has left the epoch.
LeadersSound ==
    \A n \in Node, er \in ER :
        leaders[n][er] \in {NONE, coin[er]} \/ (leaders[n][er] = Zero /\ er[1] < Epoch[n])

\* The FinVotes of a round are all yes or all no.
VotesSound ==
    \A n \in Node, er \in ER, f \in Flag :
        finvotes[n][er][f] # {} => (f = "yes" <=> Fruitful(er))

\* Committed blocks, and blocks that wait for those before them.
CommitsSound ==
    \A n \in Node :
        /\ \A b \in commitor[n].blocks : Decision(b)
        /\ \A k \in 1..Len(commitor[n].out) : Decision(commitor[n].out[k])

AgreementInv == LinksSound /\ InstancesSound /\ LeadersSound /\ VotesSound /\ CommitsSound

-----------------------------------------------------------------------------
(* Quorums. *)

\* A quorum of running nodes is all of them.
LEMMA QuorumIsAll ==
    ASSUME FewestNodes, NEW S \in SUBSET Active, Cardinality(S) >= HightThreshold
    PROVE  S = Active
<1>1. IsFiniteSet(Active)
      BY CommitteeAssumption, FS_Subset DEF Active
<1>2. /\ IsFiniteSet(S) /\ Cardinality(S) <= Cardinality(Active)
      /\ Cardinality(S) = Cardinality(Active) => S = Active
      BY <1>1, FS_Subset
<1>3. Cardinality(S) \in Nat /\ Cardinality(Active) \in Nat
      BY <1>1, <1>2, FS_CardinalityType
<1>4. QED BY <1>2, <1>3, Thresholds DEF FewestNodes

\* After 2f+1 Finish messages every running node has locked and stored the block
\* of every running node.
LEMMA AllFinished ==
    ASSUME FewestNodes, IInv, InstancesSound, NEW er \in ER, FinishQuorum(er)
    PROVE  /\ Open(er)
           /\ \A p \in Active : /\ er \in finished[p]
                                /\ \A n \in Active : /\ <<er, p>> \in locked[n]
                                                     /\ generatorBlock(p, er[1]) \in blockStore[n]
<1>1. Finishers(er) \in SUBSET Active
      BY DEF Finishers, InstancesSound
<1>2. Finishers(er) = Active
      BY <1>1, QuorumIsAll DEF FinishQuorum
<1>3. Active \subseteq Node
      BY DEF Active
<1>4. ASSUME NEW p \in Active, NEW n \in Active
      PROVE  /\ er \in finished[p] /\ <<er, p>> \in locked[n] /\ Open(er)
             /\ generatorBlock(p, er[1]) \in blockStore[n]
  <2>1. er \in finished[p] /\ p \in Node /\ n \in Node
        BY <1>2, <1>3 DEF Finishers
  <2>2. <<er, p>> \in locked[n] /\ <<er, p>> \in accepted[n]
        BY <2>1 DEF InstancesSound
  <2>3. <<er, p>>[1] = er /\ <<er, p>>[2] = p
        OBVIOUS
  <2>4. QED BY <2>1, <2>2, <2>3 DEF InstancesSound
<1>5. Active # {}
  <2>1. Size \in Nat /\ Size # 0
        BY CommitteeAssumption, FS_CardinalityType, FS_EmptySet DEF Size
  <2>2. HightThreshold \in Nat \ {0}
        BY <2>1 DEF HightThreshold, F
  <2>3. Cardinality({}) = 0
        BY FS_EmptySet
  <2>4. QED BY <1>2, <2>2, <2>3 DEF FinishQuorum
<1>6. QED BY Zenon, <1>4, <1>5

\* More finishers keep a quorum.
LEMMA FinishQuorumKept ==
    ASSUME \A a \in Node : finished[a] \subseteq finished'[a]
    PROVE  \A er : FinishQuorum(er) => FinishQuorum(er)'
<1> SUFFICES ASSUME NEW er, FinishQuorum(er) PROVE FinishQuorum(er)'
    OBVIOUS
<1>1. Finishers(er)' \in SUBSET Node /\ Finishers(er) \in SUBSET Finishers(er)'
      BY DEF Finishers
<1>2. IsFiniteSet(Finishers(er)') /\ Cardinality(Finishers(er)') \in Nat
      BY <1>1, CommitteeAssumption, FS_Subset, FS_CardinalityType
<1>3. Cardinality(Finishers(er)) <= Cardinality(Finishers(er)')
      BY <1>1, <1>2, FS_Subset
<1>4. QED BY <1>2, <1>3, FinishersFinite, Thresholds DEF FinishQuorum

\* The coin of a round does not change, nor does what is said about it.
LEMMA SameCoin ==
    ASSUME coin' = coin
    PROVE  /\ \A er : (Fruitful(er)' <=> Fruitful(er)) /\ Selected(er)' = Selected(er)
           /\ \A er : Open(er)' <=> Open(er)
           /\ \A a, x : Sound(a, x)' <=> Sound(a, x)
<1>1. \A er : (Fruitful(er)' <=> Fruitful(er)) /\ Selected(er)' = Selected(er)
      BY DEF Fruitful, Selected
<1>2. \A er : Open(er)' <=> Open(er)
      BY <1>1 DEF Open
<1>3. \A a, x : Sound(a, x)' <=> Sound(a, x)
      BY <1>1, <1>2 DEF Sound
<1>4. QED BY <1>1, <1>2, <1>3

\* A decision stands.
LEMMA DecisionKept ==
    ASSUME coin' = coin, \A a \in Node : finished[a] \subseteq finished'[a]
    PROVE  \A b : Decision(b) => Decision(b)'
BY SameCoin, FinishQuorumKept DEF Decision

\* An epoch has one decision.
LEMMA OneDecision ==
    ASSUME NEW b, NEW c, Decision(b), Decision(c), b.epoch = c.epoch
    PROVE  b = c
<1>1. PICK x \in ER : Open(x) /\ Fruitful(x) /\ b = Selected(x)
      BY DEF Decision
<1>2. PICK y \in ER : Open(y) /\ Fruitful(y) /\ c = Selected(y)
      BY DEF Decision
<1>3. /\ x = <<x[1], x[2]>> /\ x[2] \in Rounds
      /\ y = <<y[1], y[2]>> /\ y[2] \in Rounds
      BY DEF ER
<1>4. x[1] = y[1]
      BY <1>1, <1>2 DEF Selected, generatorBlock
<1>5. ~(x[2] < y[2]) /\ ~(y[2] < x[2])
      BY <1>1, <1>2, <1>3, <1>4 DEF Open
<1>6. x[2] = y[2]
      BY <1>3, <1>5, CoreAssumption DEF Rounds
<1>7. QED BY <1>1, <1>2, <1>3, <1>4, <1>6

-----------------------------------------------------------------------------
(* Parts of the state a step leaves alone. *)

LEMMA SameInstances ==
    ASSUME InstancesSound, coin' = coin, blockStore' = blockStore, calls' = calls,
           accepted' = accepted, locked' = locked, finished' = finished
    PROVE  InstancesSound'
BY SameCoin DEF InstancesSound

LEMMA SameLeaders ==
    ASSUME LeadersSound, coin' = coin, leaders' = leaders, Epoch' = Epoch
    PROVE  LeadersSound'
BY DEF LeadersSound

LEMMA SameVotes ==
    ASSUME VotesSound, coin' = coin, finvotes' = finvotes
    PROVE  VotesSound'
BY SameCoin DEF VotesSound

LEMMA SameCommits ==
    ASSUME CommitsSound, coin' = coin, commitor' = commitor,
           \A a \in Node : finished[a] \subseteq finished'[a]
    PROVE  CommitsSound'
BY DecisionKept DEF CommitsSound

-----------------------------------------------------------------------------
(* Links. *)

\* The next message on a link is sound.
LEMMA TakenSound ==
    ASSUME IInv, LinksSound, NEW n \in Node, NEW m \in Node, HasNext(n, m)
    PROVE  Sound(m, NextFrom(n, m))
<1>1. CASE m = n
  <2>1. self[n] \in Seq(Message) /\ self[n] # <<>>
        BY <1>1 DEF IInv, TypeOK, HasNext
  <2>2. 1 \in 1..Len(self[n]) /\ Head(self[n]) = self[n][1]
        BY <2>1
  <2>3. QED BY <1>1, <2>2 DEF LinksSound, AllSound, NextFrom
<1>2. CASE m # n
  <2>1. log[m] \in Seq(Message) /\ cur[n][m] \in Nat /\ cur[n][m] < Len(log[m])
        BY <1>2 DEF IInv, TypeOK, HasNext
  <2>2. cur[n][m] + 1 \in 1..Len(log[m])
        BY <2>1
  <2>3. QED BY <1>2, <2>2 DEF LinksSound, AllSound, NextFrom
<1>3. QED BY <1>1, <1>2

\* Two sound sequences make a sound one.
LEMMA ConcatSound ==
    ASSUME NEW a, NEW s \in Seq(Message), NEW t \in Seq(Message), AllSound(a, s), AllSound(a, t)
    PROVE  AllSound(a, s \o t)
<1>1. /\ Len(s \o t) = Len(s) + Len(t)
      /\ \A i \in 1..(Len(s) + Len(t)) :
            (s \o t)[i] = IF i <= Len(s) THEN s[i] ELSE t[i - Len(s)]
      BY SeqConcat
<1>2. Len(s) \in Nat /\ Len(t) \in Nat
      BY SeqLength
<1>3. QED BY <1>1, <1>2 DEF AllSound

\* A handler that sends sound messages keeps the links sound.
LEMMA SendSound ==
    ASSUME IInv, LinksSound, NEW n \in Node, NEW m \in Node, HasNext(n, m),
           NEW out \in Seq(Message), AllSound(n, out), TakeAndSend(n, m, out), coin' = coin
    PROVE  LinksSound'
<1> DEFINE rest == IF m = n THEN Tail(self[n]) ELSE self[n]
<1>1. log[n] \in Seq(Message) /\ self[n] \in Seq(Message)
      BY DEF IInv, TypeOK
<1>2. rest \in Seq(Message) /\ AllSound(n, rest)
  <2>1. CASE m = n
    <3>1. self[n] # <<>>
          BY <2>1 DEF HasNext
    <3>2. /\ Tail(self[n]) \in Seq(Message) /\ Len(Tail(self[n])) = Len(self[n]) - 1
          /\ \A i \in 1..Len(Tail(self[n])) : Tail(self[n])[i] = self[n][i + 1]
          BY <1>1, <3>1, SeqHeadTail
    <3>3. Len(self[n]) \in Nat
          BY <1>1, SeqLength
    <3>4. \A i \in 1..Len(Tail(self[n])) : i + 1 \in 1..Len(self[n])
          BY <3>2, <3>3
    <3>5. QED BY <2>1, <3>2, <3>4 DEF LinksSound, AllSound
  <2>2. CASE m # n
        BY ZenonT(60), <1>1, <2>2 DEF LinksSound
  <2>3. QED BY <2>1, <2>2
<1>3. /\ \A a \in Node : log'[a] = IF a = n THEN log[n] \o out ELSE log[a]
      /\ \A a \in Node : self'[a] = IF a = n THEN rest \o out ELSE self[a]
      BY DEF TakeAndSend, IInv, TypeOK
<1> HIDE DEF rest
<1>4. AllSound(n, log[n] \o out) /\ AllSound(n, rest \o out)
      BY <1>1, <1>2, ConcatSound DEF LinksSound
<1>5. \A a \in Node : AllSound(a, log'[a]) /\ AllSound(a, self'[a])
      BY <1>3, <1>4 DEF LinksSound
<1>6. QED BY <1>5, SameCoin DEF LinksSound, AllSound

\* Sending nothing, Done or a coin share says nothing about the coin.
LEMMA NothingSound == \A n, er : AllSound(n, <<>>) /\ AllSound(n, DoneAndShare(n, er))
BY DEF AllSound, DoneAndShare, Signed, Sound

\* The first proposal of an epoch is in an open round.
LEMMA FirstSound == \A n, e : AllSound(n, FirstProposal(n, e))
<1> SUFFICES ASSUME NEW n, NEW e PROVE AllSound(n, FirstProposal(n, e))
    OBVIOUS
<1>1. ~\E q \in Rounds : q < 0
      BY CoreAssumption DEF Rounds
<1>2. Sound(n, Proposal(generatorBlock(n, e), e, 0))
      BY <1>1 DEF Sound, Proposal, Open
<1>3. QED BY <1>2 DEF FirstProposal, AllSound

\* processLeader with the leader the coin selects, after 2f+1 Finish messages: a
\* selected node that runs has its block locked everywhere, a faulty one has not
\* finished and its block is locked nowhere.
LEMMA LeaderSound ==
    ASSUME FewestNodes, IInv, CoinInv, InstancesSound, NEW n \in Active, NEW er \in ER,
           NEW ready, NEW leader \in {NONE, coin[er]}, FinishQuorum(er)
    PROVE  AllSound(n, processLeader(n, er, ready, leader))
<1>1. CASE er \in ready /\ leader # NONE
  <2> DEFINE x == LeaderMessage(n, er, leader)
  <2>1. n \in Node /\ leader = coin[er] /\ coin[er] \in Node
        BY <1>1 DEF Active, IInv, TypeOK
  <2>2. Sound(n, x)
    <3>1. CASE Fruitful(er)
      <4>1. <<er, leader>> \in locked[n]
            BY <2>1, <3>1, AllFinished DEF Fruitful
      <4>2. \/ x = NewHalt(leader, generatorBlock(leader, er[1]), er)
            \/ x = NewPrevote(leader, er, "yes", generatorBlock(leader, er[1]))
            BY <4>1 DEF LeaderMessage
      <4>3. QED BY <2>1, <3>1, <4>2 DEF Sound, NewHalt, NewPrevote, Selected
    <3>2. CASE ~Fruitful(er)
      <4>1. leader \notin Active
            BY ZenonT(60), <2>1, <3>2 DEF Fruitful
      <4>2. leader \notin FinishFlags[n][er]
            BY <2>1, <4>1 DEF CoinInv, FinishesCounted, Finishers, InstancesSound
      <4>3. <<er, leader>> \notin locked[n]
        <5>1. <<er, leader>>[2] = leader
              OBVIOUS
        <5>2. QED BY <2>1, <4>1, <5>1 DEF InstancesSound
      <4>4. x = NewPrevote(leader, er, "no", NoHash)
            BY <4>2, <4>3 DEF LeaderMessage
      <4>5. QED BY <3>2, <4>4 DEF Sound, NewPrevote
    <3>3. QED BY ZenonT(60), <3>1, <3>2
  <2> HIDE DEF x
  <2>3. processLeader(n, er, ready, leader) = <<x>>
        BY <1>1 DEF processLeader, x
  <2>4. QED BY <2>2, <2>3 DEF AllSound
<1>2. CASE ~(er \in ready /\ leader # NONE)
      BY <1>2, NothingSound DEF processLeader
<1>3. QED BY <1>1, <1>2

-----------------------------------------------------------------------------
(* Commits. *)

\* What Commit keeps and hands over it had before, or is the new block.
LEMMA CommitFrom ==
    ASSUME NEW c \in CommitorType, NEW b \in Block, NEW D,
           b \in D, c.blocks \subseteq D, \A k \in 1..Len(c.out) : c.out[k] \in D
    PROVE  /\ Commit(c, b).blocks \subseteq D
           /\ \A k \in 1..Len(Commit(c, b).out) : Commit(c, b).out[k] \in D
<1>1. CASE b.epoch < Index(c)
      BY <1>1 DEF Commit
<1>2. CASE ~(b.epoch < Index(c))
  <2> DEFINE i == Index(c)
             blocks == {x \in c.blocks : x.epoch # b.epoch} \cup {b}
             next == {e \in Epochs : /\ i <= e
                                     /\ \A d \in i..e : \E x \in blocks : x.epoch = d}
             pick(k) == CHOOSE x \in blocks : x.epoch = i + k - 1
             handed == [k \in 1..Cardinality(next) |-> pick(k)]
             rest == {x \in blocks : x.epoch \notin next}
  <2>1. i \in Nat /\ c.out \in Seq(Block) /\ blocks \in SUBSET Block /\ blocks \subseteq D
        BY DEF Index, CommitorType
  <2>2. Cardinality(next) \in Nat /\ \A k \in 1..Cardinality(next) : i + k - 1 \in next
    <3>1. next \in SUBSET Epochs
          OBVIOUS
    <3>2. \A e \in next : i <= e /\ \A d \in i..e : d \in next
          BY <2>1, CoreAssumption DEF Epochs
    <3>3. QED BY <2>1, <3>1, <3>2, RunLength
  <2>3. ASSUME NEW k \in 1..Cardinality(next) PROVE pick(k) \in blocks
    <3>1. i + k - 1 \in next
          BY <2>2
    <3>2. i + k - 1 \in i..(i + k - 1)
          BY <2>1, <2>2
    <3>3. \E x \in blocks : x.epoch = i + k - 1
          BY <3>1, <3>2
    <3>4. QED BY <3>3
  <2>4. handed \in Seq(Block) /\ Len(handed) = Cardinality(next)
        /\ \A k \in 1..Len(handed) : handed[k] \in D
    <3> HIDE DEF pick, next, blocks
    <3>1. handed \in [1..Cardinality(next) -> Block]
          BY <2>1, <2>3
    <3>2. handed \in Seq(Block)
          BY <2>2, <3>1, SeqAsFunctions
    <3>3. Len(handed) = Cardinality(next)
          BY <2>2, <3>2, SeqLength
    <3>4. QED BY ZenonT(30), <2>1, <2>3, <3>2, <3>3
  <2>5. Commit(c, b) = [blocks |-> rest, out |-> c.out \o handed]
        BY <1>2 DEF Commit
  <2>6. rest \subseteq D
        BY <2>1
  <2> HIDE DEF handed, rest
  <2>7. /\ Len(c.out \o handed) = Len(c.out) + Len(handed)
        /\ \A k \in 1..(Len(c.out) + Len(handed)) :
              (c.out \o handed)[k] = IF k <= Len(c.out) THEN c.out[k]
                                     ELSE handed[k - Len(c.out)]
        BY ZenonT(60), <2>1, <2>4, SeqConcat
  <2>8. Len(c.out) \in Nat /\ Len(handed) \in Nat
        BY <2>1, <2>4, SeqLength
  <2>9. \A k \in 1..Len(c.out \o handed) : (c.out \o handed)[k] \in D
        BY <2>4, <2>7, <2>8
  <2>10. QED BY <2>5, <2>6, <2>9
<1>3. QED BY <1>1, <1>2

\* Committing decisions.
LEMMA CommitSound ==
    ASSUME IInv, CommitsSound, NEW n \in Node, NEW b \in Block,
           coin' = coin, finished' = finished,
           \/ commitor' = commitor
           \/ Decision(b) /\ commitor' = [commitor EXCEPT ![n] = Commit(@, b)]
    PROVE  CommitsSound'
<1>1. CASE commitor' = commitor
      BY <1>1, SameCommits
<1>2. CASE Decision(b) /\ commitor' = [commitor EXCEPT ![n] = Commit(@, b)]
  <2> DEFINE c == commitor[n]
             D == {x \in Block : Decision(x)}
  <2>1. commitor \in [Node -> CommitorType]
        BY DEF IInv, TypeOK, CommitorType
  <2>2. c \in CommitorType
        BY <2>1
  <2>3. /\ b \in D /\ c.blocks \subseteq D
        /\ \A k \in 1..Len(c.out) : c.out[k] \in D
    <3>1. c.blocks \subseteq Block /\ c.out \in Seq(Block)
          BY <2>2 DEF CommitorType
    <3>2. \A k \in 1..Len(c.out) : c.out[k] \in Block
          BY <3>1, SeqElement
    <3>3. QED BY <1>2, <3>1, <3>2 DEF CommitsSound
  <2>4. /\ Commit(c, b).blocks \subseteq D
        /\ \A k \in 1..Len(Commit(c, b).out) : Commit(c, b).out[k] \in D
    <3> HIDE DEF c, D
    <3>1. QED BY <2>2, <2>3, CommitFrom
  <2>5. \A a \in Node : commitor'[a] = IF a = n THEN Commit(c, b) ELSE commitor[a]
        BY <1>2, <2>1
  <2>6. \A x : Decision(x) => Decision(x)'
        BY DecisionKept
  <2>7. ASSUME NEW a \in Node
        PROVE  /\ \A x \in commitor'[a].blocks : Decision(x)'
               /\ \A k \in 1..Len(commitor'[a].out) : \A x : x = commitor'[a].out[k] => Decision(x)'
    <3>1. CASE a = n
          BY <2>4, <2>5, <2>6, <3>1
    <3>2. CASE a # n
          BY <2>5, <2>6, <3>2 DEF CommitsSound
    <3>3. QED BY <3>1, <3>2
  <2>8. QED BY <2>7 DEF CommitsSound
<1>3. QED BY <1>1, <1>2

-----------------------------------------------------------------------------
(* The actions. *)

\* Steps that only take a message and answer it.
LEMMA OnlySends ==
    ASSUME IInv, AgreementInv, NEW n \in Node, NEW m \in Node, HasNext(n, m),
           NEW out \in Seq(Message), AllSound(n, out), TakeAndSend(n, m, out),
           UNCHANGED <<coin, Epoch, leaders, finvotes, blockStore, commitor, spbVars>>
    PROVE  AgreementInv'
<1>1. /\ coin' = coin /\ Epoch' = Epoch /\ leaders' = leaders /\ finvotes' = finvotes
      /\ blockStore' = blockStore /\ commitor' = commitor /\ calls' = calls
      /\ accepted' = accepted /\ locked' = locked /\ finished' = finished
      BY DEF spbVars
<1>2. LinksSound'
      BY <1>1, SendSound DEF AgreementInv
<1>3. InstancesSound' /\ LeadersSound' /\ VotesSound' /\ CommitsSound'
      BY ZenonT(60), <1>1, SameInstances, SameLeaders, SameVotes, SameCommits DEF AgreementInv
<1>4. QED BY <1>2, <1>3 DEF AgreementInv

\* Discard and handleFinish.
LEMMA FinishAgreement ==
    ASSUME IInv, AgreementInv, NEW n \in Node, NEW m \in Node,
           Discard(n, m) \/ handleFinish(n, m)
    PROVE  AgreementInv'
<1> DEFINE er == NextFrom(n, m).er
<1>1. /\ HasNext(n, m)
      /\ UNCHANGED <<coin, Epoch, leaders, finvotes, blockStore, commitor, spbVars>>
      BY DEF Discard, handleFinish, Receive, voteVars
<1>2. TakeAndSend(n, m, <<>>) \/ TakeAndSend(n, m, DoneAndShare(n, er))
      BY DEF Discard, handleFinish
<1>3. er \in ER
      BY <1>1, NextFromType, MessageFields DEF IInv
<1>4. \E out \in Seq(Message) : AllSound(n, out) /\ TakeAndSend(n, m, out)
  <2> HIDE DEF er
  <2>1. QED BY Zenon, <1>2, <1>3, NothingSound, DoneAndShareType, EmptyIsSeq
<1>5. QED BY <1>1, <1>4, OnlySends

\* handleSpbProposal: a late block is that of the node the coin has selected.
LEMMA ProposalAgreement ==
    ASSUME FewestNodes, IInv, CoinInv, AgreementInv, NEW n \in Active, NEW m \in Active,
           handleSpbProposal(n, m)
    PROVE  AgreementInv'
<1> DEFINE p == NextFrom(n, m)
           e == p.er[1]
<1>1. /\ HasNext(n, m) /\ TakeAndSend(n, m, <<>>) /\ p.type = "proposal"
      /\ coin' = coin /\ Epoch' = Epoch /\ leaders' = leaders /\ finvotes' = finvotes
      /\ accepted' = accepted /\ locked' = locked /\ finished' = finished
      BY DEF handleSpbProposal, voteVars
<1>2. n \in Node /\ m \in Node
      BY DEF Active
<1>3. p \in Message
      BY <1>1, <1>2, NextFromType DEF IInv
<1>4. p.er \in ER /\ p.block \in Block
      BY <1>1, <1>3, MessageFields
<1>5. Sound(m, p)
      BY ZenonT(60), <1>1, <1>2, TakenSound DEF AgreementInv
<1>6. Open(p.er) /\ p.block = generatorBlock(m, e)
      BY <1>1, <1>5 DEF Sound
<1>7. LinksSound'
      BY ZenonT(30), <1>1, <1>2, SendSound, NothingSound, EmptyIsSeq DEF AgreementInv
<1>8. LeadersSound' /\ VotesSound'
      BY ZenonT(60), <1>1, SameLeaders, SameVotes DEF AgreementInv
<1>9. CommitsSound'
  <2>1. \/ commitor' = commitor
        \/ leaders[n][p.er] = m /\ commitor' = [commitor EXCEPT ![n] = Commit(@, p.block)]
        BY DEF handleSpbProposal
  <2>2. ASSUME leaders[n][p.er] = m PROVE Decision(p.block)
    <3> HIDE DEF p
    <3>1. m # NONE /\ m # Zero
          BY <1>2, CoreAssumption DEF FewestNodes, Active
    <3>2. coin[p.er] = m
          BY ZenonT(60), <1>2, <1>4, <2>2, <3>1 DEF AgreementInv, LeadersSound
    <3>3. Fruitful(p.er) /\ Selected(p.er) = p.block
          BY <1>6, <3>2 DEF Fruitful, Selected
    <3>4. FinishQuorum(p.er)
          BY <1>2, <1>4, <2>2, <3>1 DEF CoinInv, CoinNeedsFinishQuorum, FinishQuorum, Finishers
    <3>5. QED BY <1>4, <1>6, <3>3, <3>4 DEF Decision
  <2>3. QED BY ZenonT(60), <1>1, <1>2, <1>4, <2>1, <2>2, CommitSound DEF AgreementInv
<1>10. InstancesSound'
  <2>1. /\ blockStore \in [Node -> SUBSET Block] /\ calls \in [Node -> SUBSET (ER \X Node)]
        BY ZenonT(60) DEF IInv, TypeOK
  <2>2. \/ blockStore' = blockStore /\ calls' = calls
        \/ /\ blockStore' = [blockStore EXCEPT ![n] = @ \cup {p.block}]
           /\ \/ calls' = calls
              \/ calls' = [calls EXCEPT ![n] = @ \cup {<<p.er, m>>}]
        BY DEF handleSpbProposal
  <2>3. CASE blockStore' = blockStore /\ calls' = calls
        BY ZenonT(60), <1>1, <2>3, SameInstances DEF AgreementInv
  <2>4. CASE blockStore' = [blockStore EXCEPT ![n] = @ \cup {p.block}]
    <3>1. \A a \in Node : /\ blockStore[a] \subseteq blockStore'[a]
                          /\ \A b \in blockStore'[a] : b \in blockStore[a] \/ b = p.block
          BY <1>2, <2>1, <2>4
    <3>2. p.block \in blockStore'[n]
          BY <1>2, <2>1, <2>4
    <3>3. \A a \in Node : \A i \in calls'[a] : i \in calls[a] \/ (a = n /\ i = <<p.er, m>>)
          BY ZenonT(60), <1>2, <2>1, <2>2, <2>4
    <3>4. p.block.proposer \in Active
          BY <1>6 DEF generatorBlock
    <3>5. \A a \in Node : \A b \in blockStore'[a] : b.proposer \in Active
          BY ZenonT(60), <3>1, <3>4 DEF AgreementInv, InstancesSound
    <3>6. ASSUME NEW a \in Node, NEW i \in calls'[a] \cup accepted'[a]
          PROVE  i[2] \in Active /\ Open(i[1]) /\ generatorBlock(i[2], i[1][1]) \in blockStore'[a]
      <4>1. CASE i \in calls[a] \cup accepted[a]
            BY ZenonT(60), <3>1, <4>1 DEF AgreementInv, InstancesSound
      <4>2. CASE a = n /\ i = <<p.er, m>>
        <5>1. i[1] = p.er /\ i[2] = m
              BY <4>2
        <5>2. QED BY ZenonT(60), <1>6, <3>2, <4>2, <5>1
      <4>3. QED BY ZenonT(60), <1>1, <3>3, <4>1, <4>2
    <3>7. /\ \A a \in Node : locked'[a] \subseteq accepted'[a]
          /\ \A a \in Node \ Active : locked'[a] = {} /\ finished'[a] = {}
          /\ \A a \in Node : \A er \in finished'[a] : \A k \in Active : <<er, a>> \in locked'[k]
          BY <1>1 DEF AgreementInv, InstancesSound
    <3>8. QED BY ZenonT(60), <1>1, <3>5, <3>6, <3>7, SameCoin DEF InstancesSound
  <2>5. QED BY ZenonT(60), <2>2, <2>3, <2>4
<1>11. QED BY ZenonT(60), <1>7, <1>8, <1>9, <1>10 DEF AgreementInv

\* handleDone: the node has not left the epoch, so the leader it knows is the one
\* the coin selects.
LEMMA DoneAgreement ==
    ASSUME FewestNodes, IInv, CoinInv, AgreementInv, NEW n \in Active, NEW m \in Active,
           handleDone(n, m)
    PROVE  AgreementInv'
<1> DEFINE er == NextFrom(n, m).er
<1>1. /\ HasNext(n, m) /\ NextFrom(n, m).type = "done" /\ ~messgaeFilter(n, er[1])
      /\ UNCHANGED <<coin, Epoch, leaders, finvotes, blockStore, commitor, spbVars>>
      BY ZenonT(60) DEF handleDone, Receive
<1>2. n \in Node /\ m \in Node
      BY DEF Active
<1>3. er \in ER /\ FinishQuorum(er) /\ er[1] \in Epochs
      BY ZenonT(60), <1>1, <1>2, NextFromType, MessageFields, TakenJustified DEF IInv, CoinInv, Justified
<1>4. leaders[n][er] \in {NONE, coin[er]} /\ leaders[n][er] \in Node \cup {NONE}
  <2> HIDE DEF er
  <2>1. ~(er[1] < Epoch[n])
        BY <1>1 DEF messgaeFilter
  <2>2. QED BY ZenonT(60), <1>2, <1>3, <2>1 DEF AgreementInv, LeadersSound, IInv, TypeOK
<1>5. \/ TakeAndSend(n, m, <<>>)
      \/ TakeAndSend(n, m, DoneAndShare(n, er))
      \/ \E ready : TakeAndSend(n, m, processLeader(n, er, ready, leaders[n][er]))
      BY Zenon DEF handleDone
<1> HIDE DEF er
<1>6. \A ready : AllSound(n, processLeader(n, er, ready, leaders[n][er]))
      BY <1>3, <1>4, LeaderSound DEF AgreementInv
<1>7. \A ready : processLeader(n, er, ready, leaders[n][er]) \in Seq(Message)
      BY <1>2, <1>3, <1>4, ProcessLeaderType
<1>8. \E out \in Seq(Message) : AllSound(n, out) /\ TakeAndSend(n, m, out)
      BY ZenonT(60), <1>2, <1>3, <1>5, <1>6, <1>7, NothingSound, EmptyIsSeq, DoneAndShareType
<1>9. QED BY ZenonT(60), <1>1, <1>2, <1>8, OnlySends

\* handleElectShare: the leader is the node the coin selects.
LEMMA ElectShareAgreement ==
    ASSUME FewestNodes, IInv, CoinInv, AgreementInv, NEW n \in Active, NEW m \in Active,
           handleElectShare(n, m)
    PROVE  AgreementInv'
<1> DEFINE er == NextFrom(n, m).er
           node == ElectAppend(n, m, er)
           out == IF node # NONE THEN processLeader(n, er, ReadyFlags[n], node) ELSE <<>>
<1>1. /\ HasNext(n, m) /\ TakeAndSend(n, m, out) /\ NextFrom(n, m).type = "share"
      /\ AddShareVote(n, er, node)
      /\ coin' = coin /\ Epoch' = Epoch /\ finvotes' = finvotes
      /\ blockStore' = blockStore /\ commitor' = commitor /\ calls' = calls
      /\ accepted' = accepted /\ locked' = locked /\ finished' = finished
      BY ZenonT(60) DEF handleElectShare, Receive, spbVars
<1>2. n \in Node /\ m \in Node
      BY DEF Active
<1>3. er \in ER /\ FinishQuorum(er)
      BY ZenonT(60), <1>1, <1>2, NextFromType, MessageFields, TakenJustified DEF IInv, CoinInv, Justified
<1>4. node \in {NONE, coin[er]} /\ node \in Node \cup {NONE}
      BY ZenonT(60), <1>3 DEF ElectAppend, IInv, TypeOK
<1> HIDE DEF er, node
<1>5. out \in Seq(Message) /\ AllSound(n, out)
  <2>1. CASE node = NONE
        BY ZenonT(60), <2>1, NothingSound, EmptyIsSeq
  <2>2. CASE node # NONE
        BY ZenonT(60), <1>2, <1>3, <1>4, <2>2, ProcessLeaderType, LeaderSound DEF AgreementInv
  <2>3. QED BY <2>1, <2>2
<1> HIDE DEF out
<1>6. LinksSound'
      BY ZenonT(60), <1>1, <1>2, <1>5, SendSound DEF AgreementInv
<1>7. LeadersSound'
  <2>1. leaders \in [Node -> [ER -> Node \cup {NONE}]]
        BY DEF IInv, TypeOK
  <2>2. \A a \in Node, x \in ER :
            \/ leaders'[a][x] = leaders[a][x]
            \/ a = n /\ x = er /\ leaders'[a][x] = coin[er]
        BY ZenonT(60), <1>1, <1>2, <1>3, <1>4, <2>1 DEF AddShareVote, SetLeader
  <2>3. QED BY <1>1, <2>2 DEF AgreementInv, LeadersSound
<1>8. InstancesSound' /\ VotesSound' /\ CommitsSound'
      BY ZenonT(30), <1>1, SameInstances, SameVotes, SameCommits DEF AgreementInv
<1>9. QED BY <1>6, <1>7, <1>8 DEF AgreementInv

\* handlePrevote: a FinVote has the flag and the hash of the prevote before it.
LEMMA PrevoteAgreement ==
    ASSUME IInv, AgreementInv, NEW n \in Node, NEW m \in Node, handlePrevote(n, m)
    PROVE  AgreementInv'
<1> DEFINE pv == NextFrom(n, m)
           action == PrevoteAction(prevotes[n][pv.er], m, pv.flag)
           fv == NewFinVote(pv.leader, pv.er, action, pv.hash)
<1>1. /\ HasNext(n, m) /\ pv.type = "prevote"
      /\ TakeAndSend(n, m, IF action = "none" THEN <<>> ELSE <<fv>>)
      /\ UNCHANGED <<coin, Epoch, leaders, finvotes, blockStore, commitor, spbVars>>
      BY ZenonT(60) DEF handlePrevote, Receive
<1>2. pv.er \in ER /\ pv.leader \in Node /\ pv.hash \in Hash /\ pv.flag \in Flag
      BY ZenonT(60), <1>1, NextFromType, MessageFields DEF IInv
<1>3. action \in {pv.flag, "none"}
  <2>1. prevotes[n][pv.er] \in [Flag -> SUBSET Node]
    <3>1. prevotes \in [Node -> [ER -> [Flag -> SUBSET Node]]]
          BY ZenonT(60) DEF IInv, TypeOK
    <3> HIDE DEF pv
    <3>2. QED BY <1>2, <3>1
  <2> DEFINE votes == prevotes[n][pv.er]
  <2>2. CASE pv.flag = "yes" /\ m \notin Voters(votes)
    <3>1. AddVote(votes, m, "yes") = [votes EXCEPT !["yes"] = votes["yes"] \cup {m}]
          BY <2>2 DEF AddVote
    <3> HIDE DEF votes
    <3>2. m \in AddVote(votes, m, "yes")["yes"]
          BY <2>1, <3>1 DEF Flag, votes
    <3>3. QED BY <2>2, <3>2 DEF PrevoteAction, votes
  <2>3. CASE pv.flag = "no"
        BY <2>3 DEF PrevoteAction
  <2>4. CASE m \in Voters(votes)
        BY ZenonT(60), <2>4 DEF PrevoteAction
  <2>5. QED BY <1>2, <2>2, <2>3, <2>4 DEF Flag
<1>4. Sound(m, pv)
      BY <1>1, TakenSound DEF AgreementInv
<1> HIDE DEF pv, action
<1>5. CASE action = "none"
  <2>1. TakeAndSend(n, m, <<>>)
        BY <1>1, <1>5
  <2>2. QED BY ZenonT(30), <1>1, <2>1, NothingSound, EmptyIsSeq, OnlySends
<1>6. CASE action = pv.flag
  <2>1. fv \in Message
        BY <1>2, <1>6, MessageTypes
  <2>2. Sound(n, fv)
        BY Zenon, <1>1, <1>4, <1>6 DEF Sound, NewFinVote
  <2>3. TakeAndSend(n, m, <<fv>>)
        BY <1>1, <1>2, <1>6 DEF Flag
  <2> HIDE DEF fv
  <2>4. <<fv>> \in Seq(Message) /\ AllSound(n, <<fv>>)
        BY <2>1, <2>2 DEF AllSound
  <2>5. QED BY ZenonT(60), <1>1, <2>3, <2>4, OnlySends
<1>7. QED BY <1>3, <1>5, <1>6

\* The first 2f+1 FinVotes of a round are all like the last of them.
LEMMA ActionSound ==
    ASSUME IInv, VotesSound, NEW n \in Node, NEW m \in Node, NEW er \in ER,
           NEW flag \in Flag, flag = "yes" <=> Fruitful(er)
    PROVE  LET votes == finvotes[n][er]
               action == FinVoteAction(votes, m, flag)
           IN /\ action \in {"none", "commit", "no"}
              /\ action = "commit" => flag = "yes"
              /\ action = "no" => flag = "no"
              /\ \A f \in Flag : AddVote(votes, m, flag)[f] # {} =>
                                     (f = "yes" <=> Fruitful(er))
<1> DEFINE votes == finvotes[n][er]
           new == AddVote(votes, m, flag)
<1>1. votes \in [Flag -> SUBSET Node]
      BY DEF IInv, TypeOK
<1>2. \A f \in Flag : votes[f] # {} => (f = "yes" <=> Fruitful(er))
      BY ZenonT(60) DEF VotesSound
<1>3. CASE m \in Voters(votes)
      BY ZenonT(60), <1>2, <1>3 DEF FinVoteAction, AddVote
<1>4. CASE m \notin Voters(votes)
  <2>1. new = [votes EXCEPT ![flag] = votes[flag] \cup {m}]
        BY <1>4 DEF AddVote
  <2>2. \A f \in Flag : new[f] = IF f = flag THEN votes[f] \cup {m} ELSE votes[f]
        BY ZenonT(30), <1>1, <2>1
  <2>3. \A f \in Flag : new[f] # {} => (f = "yes" <=> Fruitful(er))
        BY <1>2, <2>2 DEF Flag
  <2>4. new[flag] # {}
        BY ZenonT(60), <2>2
  <2>5. CASE flag = "yes"
    <3>1. new["no"] = {} /\ new["yes"] # {}
          BY ZenonT(60), <2>3, <2>4, <2>5 DEF Flag
    <3>2. QED BY ZenonT(60), <2>3, <2>5, <3>1 DEF FinVoteAction
  <2>6. CASE flag = "no"
    <3>1. new["yes"] = {} /\ new["no"] # {}
          BY ZenonT(60), <2>3, <2>4, <2>6 DEF Flag
    <3>2. QED BY ZenonT(60), <2>3, <2>6, <3>1 DEF FinVoteAction
  <2>7. QED BY <2>5, <2>6 DEF Flag
<1>5. QED BY ZenonT(60), <1>3, <1>4

\* advanceNextRound after no: the coin has selected a faulty node once more.
LEMMA NextRoundSound ==
    ASSUME NEW n \in Node, NEW er \in ER, Open(er), ~Fruitful(er), NEW hash,
           NoHash \notin blockStore[n]
    PROVE  AllSound(n, NextRound(n, er, "no", hash))
<1> DEFINE x == Proposal(generatorBlock(n, er[1]), er[1], er[2] + 1)
<1>1. er[1] \in Epochs /\ er[2] \in Nat /\ er = <<er[1], er[2]>>
      BY CoreAssumption DEF ER, Rounds
<1>2. Open(<<er[1], er[2] + 1>>)
  <2>1. ASSUME NEW q \in Rounds, q < er[2] + 1 PROVE ~Fruitful(<<er[1], q>>)
    <3>1. q < er[2] \/ q = er[2]
          BY <1>1, <2>1, CoreAssumption DEF Rounds
    <3>2. QED BY <1>1, <3>1 DEF Open
  <2>2. <<er[1], er[2] + 1>>[1] = er[1] /\ <<er[1], er[2] + 1>>[2] = er[2] + 1
        BY SMTT(60)
  <2>3. QED BY <2>1, <2>2 DEF Open
<1>3. Sound(n, x)
      BY ZenonT(60), <1>2 DEF Sound, Proposal
<1>4. NextRound(n, er, "no", hash) = <<>> \/ NextRound(n, er, "no", hash) = <<x>>
      BY DEF NextRound
<1> HIDE DEF x
<1>5. QED BY <1>3, <1>4, NothingSound DEF AllSound

\* handleFinvote
LEMMA FinvoteAgreement ==
    ASSUME FewestNodes, IInv, CoinInv, AgreementInv, NEW n \in Active, NEW m \in Active,
           handleFinvote(n, m)
    PROVE  AgreementInv'
<1> DEFINE fv == NextFrom(n, m)
           votes == finvotes[n][fv.er]
           action == FinVoteAction(votes, m, fv.flag)
           h == NewHalt(fv.leader, fv.hash, fv.er)
           out == CASE action = "none"   -> <<>>
                    [] action = "commit" -> <<h>>
                    [] OTHER             -> NextRound(n, fv.er, action, fv.hash)
<1>1. /\ HasNext(n, m) /\ TakeAndSend(n, m, out) /\ fv.type = "finvote"
      /\ finvotes' = [finvotes EXCEPT ![n][fv.er] = AddVote(votes, m, fv.flag)]
      /\ coin' = coin /\ Epoch' = Epoch /\ leaders' = leaders
      /\ blockStore' = blockStore /\ commitor' = commitor /\ calls' = calls
      /\ accepted' = accepted /\ locked' = locked /\ finished' = finished
      BY DEF handleFinvote, Receive, spbVars
<1>2. n \in Node /\ m \in Node
      BY DEF Active
<1>3. fv \in Message
      BY <1>1, <1>2, NextFromType DEF IInv
<1>4. fv.er \in ER /\ fv.leader \in Node /\ fv.hash \in Hash /\ fv.flag \in Flag
      BY <1>1, <1>3, MessageFields
<1>5. Sound(m, fv) /\ FinishQuorum(fv.er)
      BY <1>1, <1>2, TakenSound, TakenJustified DEF AgreementInv, CoinInv, Justified
<1>6. /\ fv.leader = Zero /\ (fv.flag = "yes" <=> Fruitful(fv.er))
      /\ fv.flag = "yes" => fv.hash = Selected(fv.er)
      BY <1>1, <1>5 DEF Sound
<1> HIDE DEF fv
<1>7. /\ action \in {"none", "commit", "no"}
      /\ action = "commit" => fv.flag = "yes"
      /\ action = "no" => fv.flag = "no"
      /\ \A f \in Flag : AddVote(votes, m, fv.flag)[f] # {} => (f = "yes" <=> Fruitful(fv.er))
  <2>1. VotesSound
        BY DEF AgreementInv
  <2>2. QED BY ZenonT(120), <1>2, <1>4, <1>6, <2>1, ActionSound
<1> HIDE DEF action
<1>8. out \in Seq(Message) /\ AllSound(n, out)
  <2>1. CASE action = "none"
        BY <2>1, NothingSound, EmptyIsSeq
  <2>2. CASE action = "commit"
    <3>1. h \in Message
          BY <1>4, MessageTypes
    <3>2. Sound(n, h)
          BY ZenonT(60), <1>6, <1>7, <2>2 DEF Sound, NewHalt
    <3> HIDE DEF h
    <3>3. QED BY <2>2, <3>1, <3>2 DEF AllSound
  <2>3. CASE action = "no"
    <3>1. out = NextRound(n, fv.er, "no", fv.hash)
          BY ZenonT(60), <2>3
    <3>2. Open(fv.er)
          BY ZenonT(60), <1>4, <1>5, AllFinished DEF AgreementInv
    <3>3. NoHash \notin blockStore[n]
          BY ZenonT(60), <1>2, CoreAssumption DEF IInv, TypeOK
    <3>4. ~Fruitful(fv.er)
          BY ZenonT(60), <1>6, <1>7, <2>3
    <3>5. AllSound(n, NextRound(n, fv.er, "no", fv.hash))
          BY ZenonT(60), <1>2, <1>4, <3>2, <3>3, <3>4, NextRoundSound
    <3>6. QED BY ZenonT(60), <1>2, <1>4, <3>1, <3>5, NextRoundType DEF IInv
  <2>4. QED BY <1>7, <2>1, <2>2, <2>3
<1> HIDE DEF out
<1>9. LinksSound'
      BY ZenonT(60), <1>1, <1>2, <1>8, SendSound DEF AgreementInv
<1>10. VotesSound'
  <2>1. finvotes \in [Node -> [ER -> [Flag -> SUBSET Node]]]
        BY DEF IInv, TypeOK
  <2>2. \A a \in Node, x \in ER :
            finvotes'[a][x] = IF a = n /\ x = fv.er THEN AddVote(votes, m, fv.flag)
                              ELSE finvotes[a][x]
    <3> HIDE DEF votes
    <3>1. QED BY ZenonT(60), <1>1, <1>2, <1>4, <2>1
  <2>3. \A a \in Node, x \in ER, f \in Flag :
            finvotes'[a][x][f] # {} => (f = "yes" <=> Fruitful(x))
    <3> HIDE DEF votes
    <3>1. QED BY <1>7, <2>2 DEF AgreementInv, VotesSound
  <2>4. QED BY ZenonT(60), <1>1, <2>3, SameCoin DEF VotesSound
<1>11. InstancesSound' /\ LeadersSound' /\ CommitsSound'
      BY <1>1, SameInstances, SameLeaders, SameCommits DEF AgreementInv
<1>12. QED BY <1>9, <1>10, <1>11 DEF AgreementInv

\* handleHalt: every running node has stored the block of a Halt, so the node
\* leaves the epoch, and commits the decision if it has its payloads.
LEMMA HaltAgreement ==
    ASSUME FewestNodes, IInv, CoinInv, AgreementInv, NEW n \in Active, NEW m \in Active,
           handleHalt(n, m)
    PROVE  AgreementInv'
<1> DEFINE h == NextFrom(n, m)
           e == h.er[1]
<1>1. /\ HasNext(n, m) /\ h.type = "halt" /\ ~messgaeFilter(n, e)
      /\ leaders' = [leaders EXCEPT ![n][h.er] = h.leader]
      /\ coin' = coin /\ finvotes' = finvotes /\ blockStore' = blockStore /\ calls' = calls
      /\ accepted' = accepted /\ locked' = locked /\ finished' = finished
      BY DEF handleHalt, Receive, SetLeader, voteVars, spbVars
<1>2. n \in Node /\ m \in Node
      BY DEF Active
<1>3. h \in Message
      BY <1>1, <1>2, NextFromType DEF IInv
<1>4. h.er \in ER /\ h.leader \in Node /\ e \in Epochs /\ e \in Nat /\ e + 1 \in Nat
  <2>1. h.er \in ER /\ h.leader \in Node /\ e \in Epochs
        BY <1>1, <1>3, MessageFields
  <2> HIDE DEF e
  <2>2. QED BY <2>1, CoreAssumption DEF Epochs
<1>5. Sound(m, h) /\ FinishQuorum(h.er)
      BY ZenonT(60), <1>1, <1>2, TakenSound, TakenJustified DEF AgreementInv, CoinInv, Justified
<1>6. Fruitful(h.er) /\ h.hash = Selected(h.er) /\ h.leader \in {coin[h.er], Zero}
      BY <1>1, <1>5 DEF Sound
<1>7. Open(h.er) /\ h.hash \in blockStore[n]
  <2> HIDE DEF h
  <2>1. QED BY ZenonT(60), <1>4, <1>5, <1>6, AllFinished DEF AgreementInv, Fruitful, Selected
<1>8. h.hash \in Block /\ Decision(h.hash)
  <2> HIDE DEF h
  <2>1. QED BY ZenonT(30), <1>2, <1>4, <1>5, <1>6, <1>7 DEF Decision, IInv, TypeOK
<1>9. /\ TakeAndSend(n, m, FirstProposal(n, e + 1))
      /\ Epoch' = [Epoch EXCEPT ![n] = e + 1]
      /\ \/ commitor' = commitor
         \/ commitor' = [commitor EXCEPT ![n] = Commit(@, h.hash)]
      BY <1>7 DEF handleHalt
<1>10. LinksSound'
  <2>1. FirstProposal(n, e + 1) \in Seq(Message) /\ AllSound(n, FirstProposal(n, e + 1))
        BY ZenonT(30), <1>2, <1>4, FirstProposalType, FirstSound
  <2>2. QED BY ZenonT(30), <1>1, <1>2, <1>9, <2>1, SendSound DEF AgreementInv
<1>11. CommitsSound'
  <2> HIDE DEF h
  <2>1. QED BY ZenonT(60), <1>1, <1>2, <1>8, <1>9, CommitSound DEF AgreementInv
<1>12. LeadersSound'
  <2>1. /\ leaders \in [Node -> [ER -> Node \cup {NONE}]] /\ Epoch \in [Node -> 0..(MaxEpoch + 1)]
        BY DEF IInv, TypeOK
  <2>2. ~(e < Epoch[n])
        BY <1>1 DEF messgaeFilter
  <2>3. h.er[1] = e
        OBVIOUS
  <2> HIDE DEF h, e
  <2>4. /\ \A a \in Node, x \in ER :
               leaders'[a][x] = IF a = n /\ x = h.er THEN h.leader ELSE leaders[a][x]
        /\ \A a \in Node : Epoch'[a] = IF a = n THEN e + 1 ELSE Epoch[a]
        BY ZenonT(60), <1>1, <1>2, <1>4, <1>9, <2>1
  <2>5. \A a \in Node : Epoch[a] \in Nat /\ Epoch'[a] \in Nat /\ Epoch[a] <= Epoch'[a]
        BY <1>2, <1>4, <2>1, <2>2, <2>4, CoreAssumption
  <2>6. e < Epoch'[n]
        BY <1>2, <1>4, <2>4
  <2>7. ASSUME NEW a \in Node, NEW x \in ER
        PROVE  \/ leaders'[a][x] \in {NONE, coin[x]}
               \/ leaders'[a][x] = Zero /\ x[1] < Epoch'[a]
    <3>1. CASE a = n /\ x = h.er
          BY ZenonT(60), <1>6, <2>3, <2>4, <2>6, <3>1
    <3>2. CASE ~(a = n /\ x = h.er)
      <4>1. leaders'[a][x] = leaders[a][x] /\ x[1] \in Nat
            BY <2>4, <3>2, CoreAssumption DEF ER, Epochs
      <4>2. QED BY <2>5, <4>1 DEF AgreementInv, LeadersSound
    <3>3. QED BY <3>1, <3>2
  <2>8. QED BY ZenonT(60), <1>1, <2>7 DEF LeadersSound
<1>13. InstancesSound' /\ VotesSound'
      BY <1>1, SameInstances, SameVotes DEF AgreementInv
<1>14. QED BY ZenonT(60), <1>10, <1>11, <1>12, <1>13 DEF AgreementInv

\* Steps that leave links, leaders, votes and epochs alone.
LEMMA QuietAgreement ==
    ASSUME AgreementInv,
           coin' = coin, log' = log, self' = self, Epoch' = Epoch, leaders' = leaders,
           finvotes' = finvotes, InstancesSound', CommitsSound'
    PROVE  AgreementInv'
<1>1. LinksSound'
      BY SameCoin DEF AgreementInv, LinksSound, AllSound
<1>2. QED BY ZenonT(60), <1>1, SameLeaders, SameVotes DEF AgreementInv

\* handleLoopBack: a block that is committed late is one the coin selected in
\* round 0.
LEMMA LoopBackAgreement ==
    ASSUME FewestNodes, IInv, CoinInv, AgreementInv, NEW n \in Active, NEW b \in Block,
           handleLoopBack(n, b)
    PROVE  AgreementInv'
<1> DEFINE er == <<b.epoch, 0>>
<1>1. /\ coin' = coin /\ log' = log /\ self' = self /\ Epoch' = Epoch /\ leaders' = leaders
      /\ finvotes' = finvotes /\ blockStore' = blockStore
      /\ accepted' = accepted /\ locked' = locked /\ finished' = finished
      BY DEF handleLoopBack, netVars, voteVars
<1>2. n \in Node
      BY ZenonT(60) DEF Active
<1>3. /\ \/ commitor' = commitor
         \/ /\ b \in blockStore[n] /\ leaders[n][er] = b.proposer
            /\ commitor' = [commitor EXCEPT ![n] = Commit(@, b)]
      /\ \/ calls' = calls
         \/ b \in blockStore[n] /\ calls' = [calls EXCEPT ![n] = @ \cup {<<er, b.proposer>>}]
      BY DEF handleLoopBack
<1>4. /\ er \in ER /\ er[1] = b.epoch /\ er[2] = 0 /\ b = generatorBlock(b.proposer, b.epoch)
      BY CoreAssumption DEF Block, ER, Rounds, generatorBlock
<1>5. Open(er)
      BY <1>4, CoreAssumption DEF Open, Rounds
<1>6. b \in blockStore[n] => b.proposer \in Active
      BY ZenonT(60), <1>2 DEF AgreementInv, InstancesSound
<1> HIDE DEF er
<1>7. CommitsSound'
  <2>1. ASSUME b \in blockStore[n], leaders[n][er] = b.proposer PROVE Decision(b)
    <3>1. b.proposer # NONE /\ b.proposer # Zero /\ b.proposer \in Active
          BY ZenonT(60), <1>6, <2>1, CoreAssumption DEF FewestNodes, Active
    <3>2. coin[er] = b.proposer
          BY <1>2, <1>4, <2>1, <3>1 DEF AgreementInv, LeadersSound
    <3>3. Fruitful(er) /\ Selected(er) = b
          BY ZenonT(60), <1>4, <3>1, <3>2 DEF Fruitful, Selected
    <3>4. FinishQuorum(er)
          BY <1>2, <1>4, <2>1, <3>1 DEF CoinInv, CoinNeedsFinishQuorum, FinishQuorum, Finishers
    <3>5. QED BY <1>4, <1>5, <3>3, <3>4 DEF Decision
  <2>2. QED BY ZenonT(60), <1>1, <1>2, <1>3, <2>1, CommitSound DEF AgreementInv
<1>8. InstancesSound'
  <2>1. calls \in [Node -> SUBSET (ER \X Node)]
        BY ZenonT(60) DEF IInv, TypeOK
  <2>2. \A a \in Node : \A i \in calls'[a] :
            i \in calls[a] \/ (a = n /\ b \in blockStore[n] /\ i = <<er, b.proposer>>)
        BY ZenonT(60), <1>2, <1>3, <2>1
  <2>3. ASSUME NEW a \in Node, NEW i \in calls'[a] \cup accepted'[a]
        PROVE  i[2] \in Active /\ Open(i[1]) /\ generatorBlock(i[2], i[1][1]) \in blockStore'[a]
    <3>1. CASE i \in calls[a] \cup accepted[a]
          BY ZenonT(60), <1>1, <3>1 DEF AgreementInv, InstancesSound
    <3>2. CASE a = n /\ b \in blockStore[n] /\ i = <<er, b.proposer>>
      <4>1. i[1] = er /\ i[2] = b.proposer
            BY <3>2
      <4>2. QED BY ZenonT(60), <1>1, <1>4, <1>5, <1>6, <3>2, <4>1
    <3>3. QED BY ZenonT(60), <1>1, <2>2, <2>3, <3>1, <3>2
  <2>4. QED BY ZenonT(60), <1>1, <2>3, SameCoin DEF AgreementInv, InstancesSound
<1>9. QED BY ZenonT(60), <1>1, <1>7, <1>8, QuietAgreement

\* PayloadArrives touches only the mempool.
LEMMA PayloadAgreement ==
    ASSUME AgreementInv, NEW n, NEW b, PayloadArrives(n, b)
    PROVE  AgreementInv'
<1>1. /\ coin' = coin /\ log' = log /\ self' = self /\ Epoch' = Epoch /\ leaders' = leaders
      /\ finvotes' = finvotes /\ blockStore' = blockStore /\ commitor' = commitor
      /\ calls' = calls /\ accepted' = accepted /\ locked' = locked /\ finished' = finished
      BY DEF PayloadArrives, netVars, voteVars, spbVars
<1>2. InstancesSound' /\ CommitsSound'
      BY ZenonT(60), <1>1, SameInstances, SameCommits DEF AgreementInv
<1>3. QED BY <1>1, <1>2, QuietAgreement

\* An instance accepts the block it was called with.
LEMMA AcceptAgreement ==
    ASSUME IInv, AgreementInv, NEW n \in Active, NEW i, SpbAccept(n, i)
    PROVE  AgreementInv'
<1>1. /\ coin' = coin /\ log' = log /\ self' = self /\ Epoch' = Epoch /\ leaders' = leaders
      /\ finvotes' = finvotes /\ blockStore' = blockStore /\ commitor' = commitor
      /\ locked' = locked /\ finished' = finished
      /\ i \in calls[n]
      BY DEF SpbAccept, netVars, voteVars
<1>2. /\ \A a \in Node : calls'[a] \cup accepted'[a] \subseteq calls[a] \cup accepted[a]
      /\ \A a \in Node : accepted[a] \subseteq accepted'[a]
  <2>1. /\ calls \in [Node -> SUBSET (ER \X Node)] /\ accepted \in [Node -> SUBSET (ER \X Node)]
        BY DEF IInv, TypeOK
  <2>2. /\ calls' = [calls EXCEPT ![n] = @ \ {i}]
        /\ accepted' = [accepted EXCEPT ![n] = @ \cup {i}]
        BY ZenonT(60) DEF SpbAccept
  <2>3. QED BY ZenonT(60), <1>1, <2>1, <2>2
<1>3. InstancesSound'
  <2>1. \A a \in Node : \A j \in calls'[a] \cup accepted'[a] :
            j[2] \in Active /\ Open(j[1]) /\ generatorBlock(j[2], j[1][1]) \in blockStore'[a]
        BY ZenonT(60), <1>1, <1>2 DEF AgreementInv, InstancesSound
  <2>2. \A a \in Node : locked'[a] \subseteq accepted'[a]
        BY ZenonT(60), <1>1, <1>2 DEF AgreementInv, InstancesSound
  <2>3. QED BY ZenonT(60), <1>1, <2>1, <2>2, SameCoin DEF AgreementInv, InstancesSound
<1>4. QED BY ZenonT(60), <1>1, <1>3, SameCommits, QuietAgreement DEF AgreementInv

\* A node locks a block it has accepted.
LEMMA LockAgreement ==
    ASSUME IInv, AgreementInv, NEW n \in Active, NEW i, SpbLock(n, i)
    PROVE  AgreementInv'
<1>1. /\ coin' = coin /\ log' = log /\ self' = self /\ Epoch' = Epoch /\ leaders' = leaders
      /\ finvotes' = finvotes /\ blockStore' = blockStore /\ commitor' = commitor
      /\ calls' = calls /\ accepted' = accepted /\ finished' = finished
      /\ i \in accepted[n]
      BY ZenonT(60) DEF SpbLock, netVars, voteVars
<1>2. \A a \in Node : /\ locked[a] \subseteq locked'[a]
                      /\ locked'[a] = locked[a] \/ (a = n /\ locked'[a] = locked[a] \cup {i})
  <2>1. locked \in [Node -> SUBSET (ER \X Node)]
        BY DEF IInv, TypeOK
  <2>2. locked' = [locked EXCEPT ![n] = @ \cup {i}]
        BY ZenonT(60) DEF SpbLock
  <2>3. QED BY ZenonT(60), <2>1, <2>2
<1>3. InstancesSound'
  <2>1. \A a \in Node : locked'[a] \subseteq accepted'[a]
    <3>1. \A a \in Node : locked[a] \subseteq accepted[a]
          BY ZenonT(30) DEF AgreementInv, InstancesSound
    <3>2. QED BY <1>1, <1>2, <3>1
  <2>2. \A a \in Node \ Active : locked'[a] = {} /\ finished'[a] = {}
        BY ZenonT(30), <1>1, <1>2 DEF AgreementInv, InstancesSound
  <2>3. \A a \in Node : \A er \in finished'[a] : \A m \in Active : <<er, a>> \in locked'[m]
        BY ZenonT(60), <1>1, <1>2 DEF AgreementInv, InstancesSound, Active
  <2>4. QED BY ZenonT(60), <1>1, <2>1, <2>2, <2>3, SameCoin DEF AgreementInv, InstancesSound
<1>4. QED BY ZenonT(60), <1>1, <1>3, SameCommits, QuietAgreement DEF AgreementInv

\* A proposer finishes on 2f+1 locks, which are those of all running nodes.
LEMMA SpbFinishAgreement ==
    ASSUME FewestNodes, IInv, AgreementInv, NEW n \in Active, NEW er \in ER,
           SpbFinish(n, er) \/ SpbFinishSelf(n, er)
    PROVE  AgreementInv'
<1> DEFINE x == Signed("finish", er)
<1>1. /\ coin' = coin /\ Epoch' = Epoch /\ leaders' = leaders
      /\ finvotes' = finvotes /\ blockStore' = blockStore /\ commitor' = commitor
      /\ calls' = calls /\ accepted' = accepted /\ locked' = locked
      BY ZenonT(60) DEF SpbFinish, SpbFinishSelf, voteVars
<1>2. \A a \in Node : /\ finished[a] \subseteq finished'[a]
                      /\ \A r \in finished'[a] :
                            r \in finished[a] \/ (a = n /\ r = er /\ SpbFinish(n, er))
  <2>1. CASE SpbFinish(n, er)
    <3>1. finished' = [finished EXCEPT ![n] = finished[n] \cup {er}]
          BY ZenonT(60), <2>1 DEF SpbFinish
    <3>2. finished \in [Node -> SUBSET ER]
          BY DEF IInv, TypeOK
    <3>3. QED BY ZenonT(60), <2>1, <3>1, <3>2
  <2>2. CASE SpbFinishSelf(n, er)
        BY ZenonT(60), <2>2 DEF SpbFinishSelf
  <2>3. QED BY <2>1, <2>2
<1>3. ASSUME SpbFinish(n, er) PROVE \A m \in Active : <<er, n>> \in locked[m]
  <2> DEFINE L == {m \in Node : <<er, n>> \in locked[m]}
  <2>1. Cardinality(L) >= HightThreshold
        BY ZenonT(60), <1>3 DEF SpbFinish
  <2>2. L \in SUBSET Active
        BY DEF AgreementInv, InstancesSound
  <2>3. L = Active
    <3> HIDE DEF L
    <3>1. QED BY <2>1, <2>2, QuorumIsAll
  <2>4. QED BY <2>3
<1>4. InstancesSound'
  <2>1. \A a \in Node \ Active : locked'[a] = {} /\ finished'[a] = {}
        BY ZenonT(60), <1>1, <1>2 DEF AgreementInv, InstancesSound
  <2>2. \A a \in Node : \A r \in finished'[a] : \A m \in Active : <<r, a>> \in locked'[m]
        BY ZenonT(60), <1>1, <1>2, <1>3 DEF AgreementInv, InstancesSound
  <2>3. QED BY ZenonT(60), <1>1, <2>1, <2>2, SameCoin DEF AgreementInv, InstancesSound
<1>5. LinksSound'
  <2>1. \A a \in Node : Sound(a, x)
        BY DEF Sound, Signed
  <2>2. \A a \in Node : /\ log'[a] = log[a] \/ log'[a] = Append(log[a], x)
                        /\ self'[a] = self[a] \/ self'[a] = Append(self[a], x)
        BY ZenonT(60) DEF SpbFinish, SpbFinishSelf, IInv, TypeOK
  <2> HIDE DEF x
  <2>3. \A a \in Node : \A s \in Seq(Message) : AllSound(a, s) => AllSound(a, Append(s, x))
        BY <2>1 DEF AllSound
  <2>4. \A a \in Node : log[a] \in Seq(Message) /\ self[a] \in Seq(Message)
        BY DEF IInv, TypeOK
  <2>5. \A a \in Node : AllSound(a, log'[a]) /\ AllSound(a, self'[a])
        BY Zenon, <2>2, <2>3, <2>4 DEF AgreementInv, LinksSound
  <2>6. QED BY ZenonT(60), <1>1, <2>5, SameCoin DEF LinksSound, AllSound
<1>6. LeadersSound' /\ VotesSound' /\ CommitsSound'
      BY ZenonT(60), <1>1, <1>2, SameLeaders, SameVotes, SameCommits DEF AgreementInv
<1>7. QED BY ZenonT(60), <1>4, <1>5, <1>6 DEF AgreementInv

-----------------------------------------------------------------------------

\* At first every running node has sent the proposal of its first block.
LEMMA InitAgreement == Init => AgreementInv
<1> SUFFICES ASSUME Init PROVE AgreementInv
    OBVIOUS
<1>1. \A a \in Node : AllSound(a, log[a]) /\ self[a] = log[a]
  <2>1. \A a \in Node : log[a] = FirstProposal(a, 0) \/ log[a] = <<>>
        BY DEF Init
  <2>2. QED BY ZenonT(60), <2>1, FirstSound, NothingSound DEF Init
<1>2. LinksSound
      BY <1>1 DEF LinksSound
<1>3. InstancesSound
      BY ZenonT(60) DEF Init, InstancesSound
<1>4. LeadersSound
      BY ZenonT(60) DEF Init, LeadersSound
<1>5. VotesSound
      BY DEF Init, VotesSound
<1>6. CommitsSound
  <2>1. \A a \in Node : commitor[a].blocks = {} /\ commitor[a].out = <<>>
        BY DEF Init
  <2>2. QED BY <2>1 DEF CommitsSound
<1>7. QED BY ZenonT(60), <1>2, <1>3, <1>4, <1>5, <1>6 DEF AgreementInv

\* Every step keeps AgreementInv.
LEMMA NextAgreement ==
    ASSUME FewestNodes
    PROVE  IInv /\ CoinInv /\ AgreementInv /\ [Next]_vars => AgreementInv'
<1> SUFFICES ASSUME IInv, CoinInv, AgreementInv, [Next]_vars PROVE AgreementInv'
    OBVIOUS
<1>1. Active \subseteq Node
      BY DEF Active
<1>2. ASSUME NEW n \in Active, NEW m \in Active, Handle(n, m) PROVE AgreementInv'
      BY ZenonT(60), <1>1, <1>2, FinishAgreement, ProposalAgreement, DoneAgreement, ElectShareAgreement,
         PrevoteAgreement, FinvoteAgreement, HaltAgreement DEF Handle
<1>3. ASSUME NEW n \in Active, NEW b \in Block, PayloadArrives(n, b) \/ handleLoopBack(n, b)
      PROVE  AgreementInv'
      BY <1>3, PayloadAgreement, LoopBackAgreement
<1>4. ASSUME NEW n \in Active, NEW i \in ER \X Active, SpbAccept(n, i) \/ SpbLock(n, i)
      PROVE  AgreementInv'
      BY <1>4, AcceptAgreement, LockAgreement
<1>5. ASSUME NEW n \in Active, NEW er \in ER, SpbFinish(n, er) \/ SpbFinishSelf(n, er)
      PROVE  AgreementInv'
      BY <1>5, SpbFinishAgreement
<1>6. CASE UNCHANGED vars
  <2>1. /\ coin' = coin /\ log' = log /\ self' = self /\ Epoch' = Epoch /\ leaders' = leaders
        /\ finvotes' = finvotes /\ blockStore' = blockStore /\ commitor' = commitor
        /\ calls' = calls /\ accepted' = accepted /\ locked' = locked /\ finished' = finished
        BY <1>6 DEF vars, netVars, voteVars, spbVars
  <2>2. QED BY ZenonT(60), <2>1, SameInstances, SameCommits, QuietAgreement DEF AgreementInv
<1>7. QED BY ZenonT(60), <1>2, <1>3, <1>4, <1>5, <1>6 DEF Next

\* No two nodes commit different blocks for an epoch when f of the 3f+1 nodes are
\* faulty, node 0 among them: whether a block is committed by handleHalt, by a
\* proposal that comes after the Halt (handleSpbProposal) or when its payloads
\* come (handleLoopBack), it is the one decision of its epoch.
THEOREM CommitsAgree == ASSUME FewestNodes PROVE Spec => []Agreement
<1>1. IInv /\ AgreementInv => Agreement
  <2> SUFFICES ASSUME IInv, AgreementInv, NEW n \in Node, NEW m \in Node,
                      NEW k \in 1..Len(commitor[n].out), k <= Len(commitor[m].out)
               PROVE  commitor[n].out[k] = commitor[m].out[k]
      BY ZenonT(60) DEF Agreement
  <2>1. commitor \in [Node -> CommitorType]
        BY DEF IInv, TypeOK, CommitorType
  <2>2. commitor[n].out \in Seq(Block) /\ commitor[m].out \in Seq(Block)
        BY <2>1 DEF CommitorType
  <2>3. k \in 1..Len(commitor[m].out)
        BY <2>2
  <2>4. commitor[n].out[k].epoch = k - 1 /\ commitor[m].out[k].epoch = k - 1
        BY <2>3 DEF IInv, CommittedInOrder
  <2>5. Decision(commitor[n].out[k]) /\ Decision(commitor[m].out[k])
        BY <2>3 DEF AgreementInv, CommitsSound
  <2>6. QED BY ZenonT(60), <2>4, <2>5, OneDecision
<1>2. QED BY <1>1, Invariance, InitCoin, NextCoin, InitAgreement, NextAgreement, PTL DEF Spec

\* With the same nodes running, a committed block is one that 2f+1 nodes accepted
\* in a round whose coin selected its proposer, also when it is committed late.
THEOREM CommitsSupported == ASSUME FewestNodes PROVE Spec => []CommitSupported
<1>1. IInv /\ SupportInv /\ AgreementInv => CommitSupported
  <2> SUFFICES ASSUME IInv, SupportInv, AgreementInv, NEW n \in Node,
                      NEW k \in 1..Len(commitor[n].out)
               PROVE  \E r \in Rounds :
                         LET b == commitor[n].out[k] IN
                         /\ coin[<<b.epoch, r>>] = b.proposer
                         /\ AcceptQuorum(<<b.epoch, r>>, b.proposer)
      BY Zenon DEF CommitSupported, AcceptQuorum
  <2> DEFINE b == commitor[n].out[k]
  <2>1. Decision(b)
        BY DEF AgreementInv, CommitsSound
  <2> HIDE DEF b
  <2>2. PICK er \in ER : Fruitful(er) /\ FinishQuorum(er) /\ b = Selected(er)
        BY <2>1 DEF Decision
  <2>3. er = <<er[1], er[2]>> /\ er[2] \in Rounds
        BY DEF ER
  <2>4. b.epoch = er[1] /\ b.proposer = coin[er]
        BY <2>2 DEF Selected, generatorBlock
  <2>5. er \in finished[coin[er]]
        BY ZenonT(30), <2>2, AllFinished DEF AgreementInv, Fruitful
  <2>6. AcceptQuorum(er, coin[er])
        BY <2>2, <2>5 DEF SupportInv, FinishesSupported, Fruitful, Active
  <2>7. QED BY <2>3, <2>4, <2>6 DEF b
<1>2. QED BY <1>1, Invariance, InitCoin, NextCoin, InitSupport, NextSupport, InitAgreement,
             NextAgreement, PTL DEF Spec

=============================================================================
