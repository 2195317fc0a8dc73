--------------------------- MODULE CoreCoin_proofs ---------------------------
(***************************************************************************)
(* No leader is known before 2f+1 proposers have finished, for every       *)
(* committee, coin, number of epochs and rounds and set of late payloads. *)
(* The argument follows the messages: a Finish comes from a proposer that *)
(* has finished, and every later message of a round was sent on top of    *)
(* 2f+1 such Finish messages.                                              *)
(*                                                                         *)
(* The second theorem follows the yes votes down to the blocks that 2f+1  *)
(* nodes have accepted.                                                   *)
(*                                                                         *)
(* The last part finds for each message of a round what was sent and      *)
(* counted for it in that round and in the round before.                   *)
(***************************************************************************)
EXTENDS Core_proofs

Finishers(er) == {m \in Node : er \in finished[m]}

FinishQuorum(er) == Cardinality(Finishers(er)) >= HightThreshold

\* What message x from node a says about the round's finishers.
Justified(a, x) ==
    /\ x.type = "finish" => x.er \in finished[a]
    /\ x.type \notin {"proposal", "finish"} => FinishQuorum(x.er)

AllJustified(a, s) == \A k \in 1..Len(s) : Justified(a, s[k])

LinksJustified == \A a \in Node : AllJustified(a, log[a]) /\ AllJustified(a, self[a])

FinishesCounted == \A n \in Node, er \in ER : FinishFlags[n][er] \subseteq Finishers(er)

CoinInv == LinksJustified /\ FinishesCounted /\ CoinNeedsFinishQuorum

\* The messages a handler sends in answer to one of round er: proposals, or
\* messages of the same round that are not Finish.
Answers(out, er) ==
    \A k \in 1..Len(out) :
        out[k].type = "proposal" \/ (out[k].type # "finish" /\ out[k].er = er)

-----------------------------------------------------------------------------

\* The finishers of a round are finitely many.
LEMMA FinishersFinite ==
    \A er : IsFiniteSet(Finishers(er)) /\ Cardinality(Finishers(er)) \in Nat
<1> SUFFICES ASSUME NEW er
             PROVE  IsFiniteSet(Finishers(er)) /\ Cardinality(Finishers(er)) \in Nat
    OBVIOUS
<1>1. Finishers(er) \in SUBSET Node
      BY DEF Finishers
<1>2. QED BY <1>1, CommitteeAssumption, FS_Subset, FS_CardinalityType

\* A set of 2f+1 finishers makes a quorum.
LEMMA EnoughFinishers ==
    ASSUME NEW er, NEW S \in SUBSET Finishers(er), Cardinality(S) = HightThreshold
    PROVE  FinishQuorum(er)
<1>1. Cardinality(S) <= Cardinality(Finishers(er))
      BY FinishersFinite, FS_Subset
<1>2. QED BY <1>1, FinishersFinite, Thresholds DEF FinishQuorum

\* The next message on a link is justified.
LEMMA TakenJustified ==
    ASSUME IInv, LinksJustified, NEW n \in Node, NEW m \in Node, HasNext(n, m)
    PROVE  Justified(m, NextFrom(n, m))
<1>1. CASE m = n
  <2>1. self[n] \in Seq(Message) /\ self[n] # <<>>
        BY <1>1 DEF IInv, TypeOK, HasNext
  <2>2. 1 \in 1..Len(self[n]) /\ Head(self[n]) = self[n][1]
        BY <2>1
  <2>3. QED BY <1>1, <2>2 DEF LinksJustified, AllJustified, NextFrom
<1>2. CASE m # n
  <2>1. log[m] \in Seq(Message) /\ cur[n][m] \in Nat /\ cur[n][m] < Len(log[m])
        BY <1>2 DEF IInv, TypeOK, HasNext
  <2>2. cur[n][m] + 1 \in 1..Len(log[m])
        BY <2>1
  <2>3. QED BY <1>2, <2>2 DEF LinksJustified, AllJustified, NextFrom
<1>3. QED BY <1>1, <1>2

\* Sending justified messages keeps the links justified.
LEMMA SendJustified ==
    ASSUME IInv, LinksJustified, NEW n \in Node, NEW m \in Node, HasNext(n, m),
           NEW out \in Seq(Message), AllJustified(n, out),
           TakeAndSend(n, m, out), finished' = finished
    PROVE  LinksJustified'
<1> DEFINE rest == IF m = n THEN Tail(self[n]) ELSE self[n]
<1>1. log[n] \in Seq(Message) /\ self[n] \in Seq(Message)
      BY DEF IInv, TypeOK
<1>2. AllJustified(n, log[n] \o out)
  <2>1. /\ Len(log[n] \o out) = Len(log[n]) + Len(out)
        /\ \A i \in 1..(Len(log[n]) + Len(out)) :
              (log[n] \o out)[i] = IF i <= Len(log[n]) THEN log[n][i]
                                   ELSE out[i - Len(log[n])]
        BY <1>1, SeqConcat
  <2>2. Len(log[n]) \in Nat /\ Len(out) \in Nat
        BY <1>1, SeqLength
  <2>3. QED BY <2>1, <2>2 DEF LinksJustified, AllJustified
<1>3. rest \in Seq(Message) /\ AllJustified(n, rest)
  <2>1. CASE m = n
    <3>1. self[n] # <<>>
          BY <2>1 DEF HasNext
    <3>2. /\ Tail(self[n]) \in Seq(Message) /\ Len(Tail(self[n])) = Len(self[n]) - 1
          /\ \A i \in 1..Len(Tail(self[n])) : Tail(self[n])[i] = self[n][i + 1]
          BY <1>1, <3>1, SeqHeadTail
    <3>3. Len(self[n]) \in Nat
          BY <1>1, SeqLength
    <3>4. \A i \in 1..Len(Tail(self[n])) : i + 1 \in 1..Len(self[n])
          BY <3>2, <3>3
    <3>5. QED BY <2>1, <3>2, <3>4 DEF LinksJustified, AllJustified
  <2>2. CASE m # n
        BY <1>1, <2>2 DEF LinksJustified
  <2>3. QED BY <2>1, <2>2
<1>4. AllJustified(n, rest \o out)
  <2> HIDE DEF rest
  <2>1. /\ Len(rest \o out) = Len(rest) + Len(out)
        /\ \A i \in 1..(Len(rest) + Len(out)) :
              (rest \o out)[i] = IF i <= Len(rest) THEN rest[i] ELSE out[i - Len(rest)]
        BY <1>3, SeqConcat
  <2>2. Len(rest) \in Nat /\ Len(out) \in Nat
        BY <1>3, SeqLength
  <2>3. QED BY <1>3, <2>1, <2>2 DEF AllJustified
<1>5. /\ \A a \in Node : log'[a] = IF a = n THEN log[n] \o out ELSE log[a]
      /\ \A a \in Node : self'[a] = IF a = n THEN rest \o out ELSE self[a]
      BY DEF TakeAndSend, IInv, TypeOK
<1>6. \A a \in Node : AllJustified(a, log'[a]) /\ AllJustified(a, self'[a])
  <2> HIDE DEF rest
  <2>1. QED BY <1>2, <1>4, <1>5 DEF LinksJustified
<1>7. QED BY <1>6 DEF LinksJustified, AllJustified, Justified, FinishQuorum, Finishers

-----------------------------------------------------------------------------
(* What the handlers send. *)

\* Answers to a round with a quorum of finishers are justified.
LEMMA AnswersJustified ==
    ASSUME NEW n \in Node, NEW out \in Seq(Message), NEW er, Answers(out, er),
           FinishQuorum(er)
    PROVE  AllJustified(n, out)
BY DEF Answers, AllJustified, Justified

\* Sending nothing is justified.
LEMMA NothingJustified == \A n : AllJustified(n, <<>>)
BY DEF AllJustified

\* invokeDoneAndShare answers in the round it is called for.
LEMMA DoneAndShareAnswers ==
    ASSUME NEW n \in Node, NEW er \in ER
    PROVE  Answers(DoneAndShare(n, er), er)
BY DEF Answers, DoneAndShare, Signed

-----------------------------------------------------------------------------
(* The actions. *)

\* Steps that only move messages.
LEMMA OnlyLinks ==
    ASSUME CoinInv, LinksJustified', finished' = finished, FinishFlags' = FinishFlags,
           leaders' = leaders
    PROVE  CoinInv'
BY DEF CoinInv, FinishesCounted, Finishers, CoinNeedsFinishQuorum

\* Dropping a message of an epoch the node has left.
LEMMA DiscardCoin ==
    ASSUME IInv, CoinInv, NEW n \in Node, NEW m \in Node, Discard(n, m)
    PROVE  CoinInv'
<1>1. LinksJustified'
      BY Zenon, SendJustified, NothingJustified, EmptyIsSeq DEF Discard, CoinInv, spbVars
<1>2. QED BY <1>1, OnlyLinks DEF Discard, spbVars, voteVars

\* handleSpbProposal broadcasts nothing.
LEMMA ProposalCoin ==
    ASSUME IInv, CoinInv, NEW n \in Node, NEW m \in Node, handleSpbProposal(n, m)
    PROVE  CoinInv'
<1>1. HasNext(n, m) /\ TakeAndSend(n, m, <<>>)
      /\ finished' = finished /\ FinishFlags' = FinishFlags /\ leaders' = leaders
      BY DEF handleSpbProposal, voteVars
<1>2. LinksJustified'
      BY ZenonT(60), <1>1, SendJustified, NothingJustified, EmptyIsSeq DEF CoinInv
<1>3. QED BY <1>1, <1>2, OnlyLinks

\* The node that counts the 2f+1st Finish sends Done and its share.
LEMMA FinishCoin ==
    ASSUME IInv, CoinInv, NEW n \in Node, NEW m \in Node, handleFinish(n, m)
    PROVE  CoinInv'
<1> DEFINE er == NextFrom(n, m).er
           flag == Reached(FinishFlags[n][er], m, HightThreshold)
           out == IF flag THEN DoneAndShare(n, er) ELSE <<>>
<1>1. /\ HasNext(n, m) /\ TakeAndSend(n, m, out) /\ NextFrom(n, m).type = "finish"
      /\ finished' = finished /\ leaders' = leaders
      /\ FinishFlags' = [FinishFlags EXCEPT ![n][er] = FinishFlags[n][er] \cup {m}]
      BY DEF handleFinish, Receive, spbVars
<1>2. er \in ER /\ er \in finished[m]
      BY <1>1, NextFromType, MessageFields, TakenJustified DEF IInv, CoinInv, Justified
<1>3. FinishFlags[n][er] \cup {m} \in SUBSET Finishers(er)
      BY <1>2 DEF CoinInv, FinishesCounted, Finishers
<1>4. out \in Seq(Message)
      BY <1>2, DoneAndShareType, EmptyIsSeq
<1>5. AllJustified(n, out)
  <2>1. CASE flag
    <3>1. FinishQuorum(er)
          BY <1>3, <2>1, EnoughFinishers DEF Reached
    <3>2. QED BY <1>2, <1>4, <2>1, <3>1, DoneAndShareAnswers, AnswersJustified
  <2>2. CASE ~flag
        BY <2>2, NothingJustified
  <2>3. QED BY <2>1, <2>2
<1>6. LinksJustified'
      BY Zenon, <1>1, <1>4, <1>5, SendJustified DEF CoinInv
<1>7. FinishesCounted'
  <2> HIDE DEF er
  <2>1. FinishFlags \in [Node -> [ER -> SUBSET Node]]
        BY DEF IInv, TypeOK
  <2>2. \A a \in Node, x \in ER : FinishFlags'[a][x] =
            IF a = n /\ x = er THEN FinishFlags[n][er] \cup {m} ELSE FinishFlags[a][x]
        BY <1>1, <1>2, <2>1
  <2>3. \A a \in Node, x \in ER : FinishFlags'[a][x] \subseteq Finishers(x)
        BY <1>3, <2>2 DEF CoinInv, FinishesCounted
  <2>4. QED BY <1>1, <2>3 DEF FinishesCounted, Finishers
<1>8. CoinNeedsFinishQuorum'
      BY <1>1 DEF CoinInv, CoinNeedsFinishQuorum
<1>9. QED BY <1>6, <1>7, <1>8 DEF CoinInv

\* The handlers of all later messages: what they take was sent on top of 2f+1
\* Finish messages, and what they send and learn is about the same round.
LEMMA AnswerCoin ==
    ASSUME IInv, CoinInv, NEW n \in Node, NEW m \in Node, HasNext(n, m),
           NEW out \in Seq(Message), TakeAndSend(n, m, out),
           NextFrom(n, m).type \notin {"proposal", "finish"},
           Answers(out, NextFrom(n, m).er),
           finished' = finished, FinishFlags' = FinishFlags,
           \/ leaders' = leaders
           \/ \E v : leaders' = [leaders EXCEPT ![n][NextFrom(n, m).er] = v]
    PROVE  CoinInv'
<1> DEFINE er == NextFrom(n, m).er
<1>1. er \in ER /\ FinishQuorum(er)
      BY NextFromType, MessageFields, TakenJustified DEF IInv, CoinInv, Justified
<1>2. LinksJustified'
      BY <1>1, AnswersJustified, SendJustified DEF CoinInv
<1>3. FinishesCounted'
      BY DEF CoinInv, FinishesCounted, Finishers
<1>4. CoinNeedsFinishQuorum'
  <2> HIDE DEF er
  <2>1. \A a \in Node, x \in ER : ~(a = n /\ x = er) => leaders'[a][x] = leaders[a][x]
    <3>1. \/ leaders' = leaders
          \/ \E v : leaders' = [leaders EXCEPT ![n][er] = v]
          BY ZenonT(60) DEF er
    <3>2. leaders \in [Node -> [ER -> Node \cup {NONE}]]
          BY DEF IInv, TypeOK
    <3>3. QED BY <3>1, <3>2
  <2>2. QED BY ZenonT(60), <1>1, <2>1
               DEF CoinInv, CoinNeedsFinishQuorum, FinishQuorum, Finishers
<1>5. QED BY <1>2, <1>3, <1>4 DEF CoinInv

\* The handlers of the later messages.
LEMMA LaterCoin ==
    ASSUME IInv, CoinInv, NEW n \in Node, NEW m \in Node,
           \/ handleDone(n, m) \/ handleElectShare(n, m) \/ handlePrevote(n, m)
           \/ handleFinvote(n, m) \/ handleHalt(n, m)
    PROVE  CoinInv'
<1>1. PICK y : y = NextFrom(n, m)
      OBVIOUS
<1>2. Handle(n, m)
      BY Zenon DEF Handle
<1>3. PICK out \in Seq(Message) : TakeAndSend(n, m, out) /\ \A x \in On(out) : NewMessage(n, m, x)
      BY Zenon, <1>2, HandlerSends
<1>4. Answers(out, y.er)
  <2>1. \A k \in 1..Len(out) : out[k] \in On(out)
        BY Zenon DEF On
  <2>2. \A x \in On(out) : x.type = "proposal" \/ (x.type # "finish" /\ x.er = y.er)
        BY <1>1, <1>3, NewMessageKinds
  <2>3. QED BY Zenon, <2>1, <2>2 DEF Answers
<1>5. /\ HasNext(n, m) /\ finished' = finished /\ FinishFlags' = FinishFlags
      /\ y.type \in {"done", "share", "prevote", "finvote", "halt"}
  <2>1. /\ HasNext(n, m) /\ finished' = finished /\ FinishFlags' = FinishFlags
        BY ZenonT(60) DEF handleDone, handleElectShare, handlePrevote, handleFinvote, handleHalt,
           Receive, spbVars, voteVars
  <2>2. y.type \in {"done", "share", "prevote", "finvote", "halt"}
        BY ZenonT(60), <1>1 DEF handleDone, handleElectShare, handlePrevote, handleFinvote,
           handleHalt, Receive
  <2>3. QED BY Zenon, <2>1, <2>2
<1>6. leaders' = leaders \/ \E v : leaders' = [leaders EXCEPT ![n][y.er] = v]
      BY ZenonT(60), <1>1 DEF handleDone, handleElectShare, handlePrevote, handleFinvote,
         handleHalt, AddShareVote, SetLeader, voteVars
<1>7. y.type \notin {"proposal", "finish"}
      BY <1>5
<1>8. QED BY Zenon, <1>1, <1>3, <1>4, <1>5, <1>6, <1>7, AnswerCoin

\* An SPB instance finishes: the round gains a finisher and a Finish message.
LEMMA SpbFinishCoin ==
    ASSUME IInv, CoinInv, NEW n \in Node, NEW er \in ER, SpbFinish(n, er)
    PROVE  CoinInv'
<1>1. /\ finished' = [finished EXCEPT ![n] = @ \cup {er}]
      /\ log' = [log EXCEPT ![n] = Append(@, Signed("finish", er))]
      /\ self' = self /\ FinishFlags' = FinishFlags /\ leaders' = leaders
      BY DEF SpbFinish, voteVars
<1>2. \A a \in Node : finished'[a] = IF a = n THEN finished[a] \cup {er} ELSE finished[a]
      BY Zenon, <1>1 DEF IInv, TypeOK
<1>3. \A x : Finishers(x) \in SUBSET Finishers(x)'
      BY Zenon, <1>2 DEF Finishers
<1>4. \A x : FinishQuorum(x) => FinishQuorum(x)'
  <2> SUFFICES ASSUME NEW x, FinishQuorum(x) PROVE FinishQuorum(x)'
      OBVIOUS
  <2>1. Finishers(x)' \in SUBSET Node
        BY DEF Finishers
  <2>2. IsFiniteSet(Finishers(x)') /\ Cardinality(Finishers(x)') \in Nat
        BY <2>1, CommitteeAssumption, FS_Subset, FS_CardinalityType
  <2>3. Cardinality(Finishers(x)) <= Cardinality(Finishers(x)')
        BY <1>3, <2>2, FS_Subset
  <2>4. QED BY <2>2, <2>3, FinishersFinite, Thresholds DEF FinishQuorum
<1>5. \A a \in Node : \A x : Justified(a, x) => Justified(a, x)'
      BY Zenon, <1>2, <1>4 DEF Justified
<1>6. LinksJustified'
  <2>1. Justified(n, Signed("finish", er))'
        BY ZenonT(60), <1>2 DEF Justified, Signed
  <2>2. \A a \in Node : AllJustified(a, self[a])'
        BY <1>1, <1>5 DEF CoinInv, LinksJustified, AllJustified
  <2>3. ASSUME NEW a \in Node PROVE AllJustified(a, log[a])'
    <3>1. log[a] \in Seq(Message)
          BY DEF IInv, TypeOK
    <3>2. log'[a] = IF a = n THEN Append(log[a], Signed("finish", er)) ELSE log[a]
          BY <1>1 DEF IInv, TypeOK
    <3>3. \A k \in 1..Len(log[a]) : \A x : x = log[a][k] => Justified(a, x)'
          BY <1>5 DEF CoinInv, LinksJustified, AllJustified
    <3>4. \A k \in 1..Len(log'[a]) : \A x : x = log'[a][k] => Justified(a, x)'
      <4>1. CASE a = n
            BY <2>1, <3>1, <3>2, <3>3, <4>1
      <4>2. CASE a # n
            BY <3>2, <3>3, <4>2
      <4>3. QED BY <4>1, <4>2
    <3>5. QED BY <3>4 DEF AllJustified
  <2>4. QED BY <2>2, <2>3 DEF LinksJustified
<1>7. FinishesCounted'
      BY <1>1, <1>3 DEF CoinInv, FinishesCounted
<1>8. CoinNeedsFinishQuorum'
      BY ZenonT(60), <1>1, <1>4 DEF CoinInv, CoinNeedsFinishQuorum, FinishQuorum, Finishers
<1>9. QED BY <1>6, <1>7, <1>8 DEF CoinInv

\* ... and its Finish reaches the proposer itself.
LEMMA SpbFinishSelfCoin ==
    ASSUME IInv, CoinInv, NEW n \in Node, NEW er \in ER, SpbFinishSelf(n, er)
    PROVE  CoinInv'
<1>1. /\ er \in finished[n] /\ finished' = finished /\ log' = log
      /\ self' = [self EXCEPT ![n] = Append(@, Signed("finish", er))]
      /\ FinishFlags' = FinishFlags /\ leaders' = leaders
      BY DEF SpbFinishSelf, voteVars
<1>2. Justified(n, Signed("finish", er))
      BY <1>1 DEF Justified, Signed
<1>3. ASSUME NEW a \in Node PROVE AllJustified(a, log'[a]) /\ AllJustified(a, self'[a])
  <2>1. self[a] \in Seq(Message)
        BY DEF IInv, TypeOK
  <2>2. self'[a] = IF a = n THEN Append(self[a], Signed("finish", er)) ELSE self[a]
        BY <1>1 DEF IInv, TypeOK
  <2>3. \A k \in 1..Len(self[a]) : Justified(a, self[a][k])
        BY DEF CoinInv, LinksJustified, AllJustified
  <2>4. \A k \in 1..Len(self'[a]) : Justified(a, self'[a][k])
    <3>1. CASE a = n
          BY <1>2, <2>1, <2>2, <2>3, <3>1
    <3>2. CASE a # n
          BY <2>2, <2>3, <3>2
    <3>3. QED BY <3>1, <3>2
  <2>5. QED BY <1>1, <2>4 DEF CoinInv, LinksJustified, AllJustified
<1>4. \A a, x : Justified(a, x) => Justified(a, x)'
      BY <1>1 DEF Justified, FinishQuorum, Finishers
<1>5. LinksJustified'
      BY <1>3, <1>4 DEF LinksJustified, AllJustified
<1>6. QED BY <1>1, <1>5, OnlyLinks

\* Steps that touch neither links nor leaders nor finishers.
LEMMA QuietCoin ==
    ASSUME CoinInv, log' = log, self' = self, finished' = finished,
           FinishFlags' = FinishFlags, leaders' = leaders
    PROVE  CoinInv'
<1>1. LinksJustified'
      BY ZenonT(60)
         DEF CoinInv, LinksJustified, AllJustified, Justified, FinishQuorum, Finishers
<1>2. QED BY <1>1, OnlyLinks

-----------------------------------------------------------------------------

\* At first there are only proposals.
LEMMA InitCoin == Init => CoinInv
<1> SUFFICES ASSUME Init PROVE CoinInv
    OBVIOUS
<1>1. \A a \in Node : log[a] = <<>> \/ log[a] = <<Proposal(generatorBlock(a, 0), 0, 0)>>
      BY DEF Init, FirstProposal
<1>2. ASSUME NEW a \in Node PROVE AllJustified(a, log[a])
  <2> DEFINE p == Proposal(generatorBlock(a, 0), 0, 0)
  <2>1. Justified(a, p)
        BY DEF Justified, Proposal
  <2> HIDE DEF p
  <2>2. CASE log[a] = <<>>
        BY <2>2 DEF AllJustified
  <2>3. CASE log[a] = <<p>>
        BY <2>1, <2>3 DEF AllJustified
  <2>4. QED BY <1>1, <2>2, <2>3 DEF p
<1>3. LinksJustified
      BY <1>2 DEF LinksJustified, Init
<1>4. FinishesCounted /\ CoinNeedsFinishQuorum
      BY DEF Init, FinishesCounted, CoinNeedsFinishQuorum
<1>5. QED BY <1>3, <1>4 DEF CoinInv

\* Every step keeps CoinInv.
LEMMA NextCoin == IInv /\ CoinInv /\ [Next]_vars => CoinInv'
<1> SUFFICES ASSUME IInv, CoinInv, [Next]_vars PROVE CoinInv'
    OBVIOUS
<1>1. Active \subseteq Node
      BY DEF Active
<1>2. ASSUME NEW n \in Active, NEW m \in Active, Handle(n, m) PROVE CoinInv'
      BY ZenonT(60), <1>1, <1>2, DiscardCoin, ProposalCoin, FinishCoin, LaterCoin DEF Handle
<1>3. ASSUME NEW n \in Active, NEW b \in Block, PayloadArrives(n, b) \/ handleLoopBack(n, b)
      PROVE  CoinInv'
      BY <1>3, QuietCoin DEF PayloadArrives, handleLoopBack, netVars, voteVars, spbVars
<1>4. ASSUME NEW n \in Active, NEW i \in ER \X Active, SpbAccept(n, i) \/ SpbLock(n, i)
      PROVE  CoinInv'
      BY <1>4, QuietCoin DEF SpbAccept, SpbLock, netVars, voteVars
<1>5. ASSUME NEW n \in Active, NEW er \in ER, SpbFinish(n, er) \/ SpbFinishSelf(n, er)
      PROVE  CoinInv'
      BY <1>1, <1>5, SpbFinishCoin, SpbFinishSelfCoin
<1>6. CASE UNCHANGED vars
      BY <1>6, QuietCoin DEF vars, netVars, voteVars, spbVars
<1>7. QED BY <1>2, <1>3, <1>4, <1>5, <1>6 DEF Next

\* A leader is known, from coin shares or from a Halt, only after 2f+1 proposers
\* of the round have sent Finish (handleElectShare, handleHalt).
THEOREM CoinAfterFinishQuorum == Spec => []CoinNeedsFinishQuorum
<1>1. CoinInv => CoinNeedsFinishQuorum
      BY DEF CoinInv
<1>2. QED BY <1>1, Invariance, InitCoin, NextCoin, PTL DEF Spec
-----------------------------------------------------------------------------
(* Halts are supported: yes votes and Halts follow from locks and finishes,  *)
(* and those from acceptances of the same round.                             *)

\* What a yes vote or a Halt says about the nodes that have accepted its block.
Supported(x) ==
    x.type = "halt" \/ (x.type \in {"prevote", "finvote"} /\ x.flag = "yes") =>
        \E p \in Node : x.hash = generatorBlock(p, x.er[1]) /\ AcceptQuorum(x.er, p)

AllSupported(s) == \A k \in 1..Len(s) : Supported(s[k])

LinksSupported == \A a \in Node : AllSupported(log[a]) /\ AllSupported(self[a])

LocksSupported == \A n \in Node : \A i \in locked[n] : AcceptQuorum(i[1], i[2])

FinishesSupported == \A n \in Node, er \in ER : er \in finished[n] => AcceptQuorum(er, n)

SupportInv == LinksSupported /\ LocksSupported /\ FinishesSupported

\* Support is about acceptances only.
LEMMA SameSupport ==
    ASSUME accepted' = accepted
    PROVE  /\ \A x : Supported(x) => Supported(x)'
           /\ \A er, p : AcceptQuorum(er, p) => AcceptQuorum(er, p)'
<1>1. \A er, p : AcceptQuorum(er, p) => AcceptQuorum(er, p)'
      BY DEF AcceptQuorum
<1>2. QED BY <1>1 DEF Supported

\* The next message on a link is supported.
LEMMA TakenSupported ==
    ASSUME IInv, LinksSupported, NEW n \in Node, NEW m \in Node, HasNext(n, m)
    PROVE  Supported(NextFrom(n, m))
<1>1. CASE m = n
  <2>1. self[n] \in Seq(Message) /\ self[n] # <<>>
        BY <1>1 DEF IInv, TypeOK, HasNext
  <2>2. 1 \in 1..Len(self[n]) /\ Head(self[n]) = self[n][1]
        BY <2>1
  <2>3. QED BY <1>1, <2>2 DEF LinksSupported, AllSupported, NextFrom
<1>2. CASE m # n
  <2>1. log[m] \in Seq(Message) /\ cur[n][m] \in Nat /\ cur[n][m] < Len(log[m])
        BY <1>2 DEF IInv, TypeOK, HasNext
  <2>2. cur[n][m] + 1 \in 1..Len(log[m])
        BY <2>1
  <2>3. QED BY <1>2, <2>2 DEF LinksSupported, AllSupported, NextFrom
<1>3. QED BY <1>1, <1>2

\* Two supported sequences make a supported one.
LEMMA ConcatSupported ==
    ASSUME NEW s \in Seq(Message), NEW t \in Seq(Message), AllSupported(s), AllSupported(t)
    PROVE  AllSupported(s \o t)
<1>1. /\ Len(s \o t) = Len(s) + Len(t)
      /\ \A i \in 1..(Len(s) + Len(t)) :
            (s \o t)[i] = IF i <= Len(s) THEN s[i] ELSE t[i - Len(s)]
      BY SeqConcat
<1>2. Len(s) \in Nat /\ Len(t) \in Nat
      BY SeqLength
<1>3. QED BY <1>1, <1>2 DEF AllSupported

\* A handler that sends supported messages keeps everything supported.
LEMMA SendSupported ==
    ASSUME IInv, SupportInv, NEW n \in Node, NEW m \in Node, HasNext(n, m),
           NEW out \in Seq(Message), AllSupported(out), TakeAndSend(n, m, out),
           accepted' = accepted, locked' = locked, finished' = finished
    PROVE  SupportInv'
<1> DEFINE rest == IF m = n THEN Tail(self[n]) ELSE self[n]
<1>1. log[n] \in Seq(Message) /\ self[n] \in Seq(Message)
      BY DEF IInv, TypeOK
<1>2. rest \in Seq(Message) /\ AllSupported(rest)
  <2>1. CASE m = n
    <3>1. self[n] # <<>>
          BY <2>1 DEF HasNext
    <3>2. /\ Tail(self[n]) \in Seq(Message) /\ Len(Tail(self[n])) = Len(self[n]) - 1
          /\ \A i \in 1..Len(Tail(self[n])) : Tail(self[n])[i] = self[n][i + 1]
          BY <1>1, <3>1, SeqHeadTail
    <3>3. Len(self[n]) \in Nat
          BY <1>1, SeqLength
    <3>4. \A i \in 1..Len(Tail(self[n])) : i + 1 \in 1..Len(self[n])
          BY <3>2, <3>3
    <3>5. QED BY <2>1, <3>2, <3>4 DEF SupportInv, LinksSupported, AllSupported
  <2>2. CASE m # n
        BY <1>1, <2>2 DEF SupportInv, LinksSupported
  <2>3. QED BY <2>1, <2>2
<1>3. /\ \A a \in Node : log'[a] = IF a = n THEN log[n] \o out ELSE log[a]
      /\ \A a \in Node : self'[a] = IF a = n THEN rest \o out ELSE self[a]
      BY DEF TakeAndSend, IInv, TypeOK
<1> HIDE DEF rest
<1>4. AllSupported(log[n] \o out) /\ AllSupported(rest \o out)
      BY <1>1, <1>2, ConcatSupported DEF SupportInv, LinksSupported
<1>5. \A a \in Node : AllSupported(log'[a]) /\ AllSupported(self'[a])
      BY <1>3, <1>4 DEF SupportInv, LinksSupported
<1>6. LinksSupported'
      BY <1>5, SameSupport DEF LinksSupported, AllSupported
<1>7. LocksSupported' /\ FinishesSupported'
      BY DEF SupportInv, LocksSupported, FinishesSupported, AcceptQuorum
<1>8. QED BY <1>6, <1>7 DEF SupportInv

-----------------------------------------------------------------------------
(* What the handlers send. *)

\* Only votes and Halts need support.
LEMMA PlainSupported == \A x : x.type \notin {"halt", "prevote", "finvote"} => Supported(x)
BY DEF Supported

\* processLeader: the leader has finished, or the node has locked its block.
LEMMA LeaderSupported ==
    ASSUME CoinInv, SupportInv, NEW n \in Node, NEW er \in ER, NEW leader \in Node
    PROVE  Supported(LeaderMessage(n, er, leader))
<1>1. CASE leader \in FinishFlags[n][er]
  <2>1. AcceptQuorum(er, leader)
        BY ZenonT(60), <1>1
           DEF CoinInv, FinishesCounted, Finishers, SupportInv, FinishesSupported
  <2>2. QED BY <1>1, <2>1 DEF LeaderMessage, NewHalt, Supported
<1>2. CASE leader \notin FinishFlags[n][er] /\ <<er, leader>> \in locked[n]
  <2>1. AcceptQuorum(er, leader)
        BY ZenonT(60), <1>2 DEF SupportInv, LocksSupported
  <2>2. QED BY ZenonT(60), <1>2, <2>1 DEF LeaderMessage, NewPrevote, Supported
<1>3. CASE leader \notin FinishFlags[n][er] /\ <<er, leader>> \notin locked[n]
      BY <1>3 DEF LeaderMessage, NewPrevote, Supported
<1>4. QED BY <1>1, <1>2, <1>3

\* A yes FinVote answers a yes prevote, and a Halt a yes FinVote, the last of 2f+1.
LEMMA YesAnswersYes ==
    ASSUME NEW votes \in [Flag -> SUBSET Node], NEW m \in Node, NEW f \in Flag
    PROVE  /\ PrevoteAction(votes, m, f) = "yes" => f = "yes"
           /\ FinVoteAction(votes, m, f) = "commit" => f = "yes"
<1>1. PrevoteAction(votes, m, f) = "yes" => f = "yes"
      BY DEF PrevoteAction
<1>2. ASSUME FinVoteAction(votes, m, f) = "commit" PROVE f = "yes"
  <2>1. m \notin Voters(votes) /\ AddVote(votes, m, f)["no"] = {}
        BY <1>2 DEF FinVoteAction
  <2>2. QED BY <2>1 DEF AddVote, Flag
<1>3. QED BY <1>1, <1>2

\* What a handler sends is supported.
LEMMA NewSupported ==
    ASSUME IInv, CoinInv, SupportInv, NEW n \in Node, NEW m \in Node, HasNext(n, m),
           NEW x, NewMessage(n, m, x)
    PROVE  Supported(x)
<1>1. PICK y : y = NextFrom(n, m)
      OBVIOUS
<1>2. y \in Message /\ y.er \in ER /\ Supported(y)
      BY Zenon, <1>1, NextFromType, MessageFields, TakenSupported DEF IInv, SupportInv
<1>3. ASSUME y.type \in {"prevote", "finvote"}
      PROVE  /\ PrevoteAction(prevotes[n][y.er], m, y.flag) = "yes" => y.flag = "yes"
             /\ FinVoteAction(finvotes[n][y.er], m, y.flag) = "commit" => y.flag = "yes"
  <2>1. y.flag \in Flag
        BY Zenon, <1>2, <1>3, MessageFields
  <2>2. /\ prevotes \in [Node -> [ER -> [Flag -> SUBSET Node]]]
        /\ finvotes \in [Node -> [ER -> [Flag -> SUBSET Node]]]
        BY Zenon DEF IInv, TypeOK
  <2>3. prevotes[n][y.er] \in [Flag -> SUBSET Node] /\ finvotes[n][y.er] \in [Flag -> SUBSET Node]
        BY Zenon, <1>2, <2>2
  <2>4. QED BY Zenon, <2>1, <2>3, YesAnswersYes
<1>4. CASE \E l \in Node : x = LeaderMessage(n, y.er, l)
      BY Zenon, <1>2, <1>4, LeaderSupported
<1>5. ASSUME handlePrevote(n, m), NEW a, a = PrevoteAction(prevotes[n][y.er], m, y.flag),
             x = NewFinVote(y.leader, y.er, a, y.hash)
      PROVE  Supported(x)
  <2>1. y.type = "prevote"
        BY Zenon, <1>1, <1>5 DEF handlePrevote, Receive
  <2>2. a = "yes" => y.flag = "yes"
        BY Zenon, <1>3, <1>5, <2>1
  <2>3. x.type = "finvote" /\ x.er = y.er /\ x.flag = a /\ x.hash = y.hash
        BY <1>5 DEF NewFinVote
  <2>4. QED BY <1>2, <2>1, <2>2, <2>3 DEF Supported
<1>6. ASSUME handleFinvote(n, m), FinVoteAction(finvotes[n][y.er], m, y.flag) = "commit",
             x = NewHalt(y.leader, y.hash, y.er)
      PROVE  Supported(x)
  <2>1. y.type = "finvote"
        BY Zenon, <1>1, <1>6 DEF handleFinvote, Receive
  <2>2. y.flag = "yes"
        BY Zenon, <1>3, <1>6, <2>1
  <2>3. x.type = "halt" /\ x.er = y.er /\ x.hash = y.hash
        BY <1>6 DEF NewHalt
  <2>4. QED BY <1>2, <2>1, <2>2, <2>3 DEF Supported
<1>7. \/ x.type \in {"done", "share"} \/ x.type = "proposal"
      \/ \E l \in Node : x = LeaderMessage(n, y.er, l)
      \/ handlePrevote(n, m) /\ \E a : a = PrevoteAction(prevotes[n][y.er], m, y.flag)
                                     /\ x = NewFinVote(y.leader, y.er, a, y.hash)
      \/ /\ handleFinvote(n, m) /\ FinVoteAction(finvotes[n][y.er], m, y.flag) = "commit"
         /\ x = NewHalt(y.leader, y.hash, y.er)
      BY ZenonT(60), <1>1, NextRoundNew DEF NewMessage
<1>8. CASE x.type \in {"done", "share"} \/ x.type = "proposal"
  <2>1. x.type \notin {"halt", "prevote", "finvote"}
        BY <1>8
  <2>2. QED BY Zenon, <2>1, PlainSupported
<1>9. QED BY Zenon, <1>4, <1>5, <1>6, <1>7, <1>8

-----------------------------------------------------------------------------
(* The actions. *)

\* The handlers keep everything supported.
LEMMA HandlerSupport ==
    ASSUME IInv, CoinInv, SupportInv, NEW n \in Node, NEW m \in Node, Handle(n, m)
    PROVE  SupportInv'
<1>1. HasNext(n, m)
      BY Zenon, HandlerSends
<1>2. PICK out \in Seq(Message) : TakeAndSend(n, m, out) /\ \A x \in On(out) : NewMessage(n, m, x)
      BY Zenon, HandlerSends
<1>3. \A x \in On(out) : Supported(x)
      BY Zenon, <1>1, <1>2, NewSupported
<1>4. AllSupported(out)
      BY Zenon, <1>3 DEF AllSupported, On
<1>5. accepted' = accepted /\ locked' = locked /\ finished' = finished
      BY ZenonT(60) DEF Handle, Discard, handleSpbProposal, handleFinish, handleDone,
         handleElectShare, handlePrevote, handleFinvote, handleHalt, spbVars
<1>6. QED BY Zenon, <1>1, <1>2, <1>4, <1>5, SendSupported

\* An acceptance keeps every quorum of acceptances.
LEMMA AcceptSupport ==
    ASSUME IInv, SupportInv, NEW n \in Node, NEW i, SpbAccept(n, i)
    PROVE  SupportInv'
<1>1. /\ log' = log /\ self' = self /\ locked' = locked /\ finished' = finished
      /\ \A a \in Node : accepted[a] \subseteq accepted'[a]
      BY DEF SpbAccept, netVars, IInv, TypeOK
<1>2. \A er, p : AcceptQuorum(er, p) => AcceptQuorum(er, p)'
  <2> SUFFICES ASSUME NEW er, NEW p, AcceptQuorum(er, p) PROVE AcceptQuorum(er, p)'
      OBVIOUS
  <2> DEFINE S == {a \in Node : <<er, p>> \in accepted[a]}
             T == {a \in Node : <<er, p>> \in accepted'[a]}
  <2>1. S \subseteq T /\ T \subseteq Node
        BY ZenonT(60), <1>1
  <2>2. IsFiniteSet(T) /\ IsFiniteSet(S) /\ Cardinality(S) <= Cardinality(T)
        BY <2>1, CommitteeAssumption, FS_Subset
  <2>3. Cardinality(S) \in Nat /\ Cardinality(T) \in Nat
        BY <2>2, FS_CardinalityType
  <2>4. Cardinality(S) >= HightThreshold
        BY DEF AcceptQuorum
  <2> HIDE DEF S, T
  <2>5. Cardinality(T) >= HightThreshold
        BY <2>2, <2>3, <2>4, Thresholds
  <2>6. QED BY <2>5 DEF T, AcceptQuorum
<1>3. \A x : Supported(x) => Supported(x)'
      BY ZenonT(60), <1>2 DEF Supported
<1>4. LinksSupported'
      BY ZenonT(60), <1>1, <1>3 DEF SupportInv, LinksSupported, AllSupported
<1>5. LocksSupported' /\ FinishesSupported'
      BY <1>1, <1>2 DEF SupportInv, LocksSupported, FinishesSupported
<1>6. QED BY <1>4, <1>5 DEF SupportInv

\* A lock is taken on 2f+1 acceptances.
LEMMA LockSupport ==
    ASSUME IInv, SupportInv, NEW n \in Node, NEW i \in ER \X Node, SpbLock(n, i)
    PROVE  SupportInv'
<1>1. /\ log' = log /\ self' = self /\ accepted' = accepted /\ finished' = finished
      /\ \A a \in Node : locked'[a] \subseteq locked[a] \cup {i}
      BY DEF SpbLock, netVars, IInv, TypeOK
<1>2. AcceptQuorum(i[1], i[2])
  <2>1. i = <<i[1], i[2]>>
        OBVIOUS
  <2>2. QED BY ZenonT(60), <2>1 DEF SpbLock, AcceptQuorum
<1>3. LocksSupported'
      BY <1>1, <1>2 DEF SupportInv, LocksSupported, AcceptQuorum
<1>4. LinksSupported' /\ FinishesSupported'
      BY <1>1, SameSupport DEF SupportInv, LinksSupported, AllSupported, FinishesSupported
<1>5. QED BY <1>3, <1>4 DEF SupportInv

\* A proposer finishes on 2f+1 locks, each of which has its acceptances.
LEMMA FinishSupport ==
    ASSUME IInv, SupportInv, NEW n \in Node, NEW er \in ER,
           SpbFinish(n, er) \/ SpbFinishSelf(n, er)
    PROVE  SupportInv'
<1> DEFINE x == Signed("finish", er)
<1>1. /\ accepted' = accepted /\ locked' = locked
      /\ \A a \in Node : \A r \in finished'[a] :
            r \in finished[a] \/ (a = n /\ r = er /\ SpbFinish(n, er))
  <2>1. CASE SpbFinish(n, er)
    <3>1. /\ accepted' = accepted /\ locked' = locked
          /\ finished' = [finished EXCEPT ![n] = finished[n] \cup {er}]
          BY <2>1 DEF SpbFinish
    <3>2. finished \in [Node -> SUBSET ER]
          BY DEF IInv, TypeOK
    <3>3. QED BY <2>1, <3>1, <3>2
  <2>2. CASE SpbFinishSelf(n, er)
        BY ZenonT(60), <2>2 DEF SpbFinishSelf
  <2>3. QED BY <2>1, <2>2
<1>2. SpbFinish(n, er) => AcceptQuorum(er, n)
  <2> SUFFICES ASSUME SpbFinish(n, er) PROVE AcceptQuorum(er, n)
      OBVIOUS
  <2> DEFINE L == {m \in Node : <<er, n>> \in locked[m]}
  <2>1. Cardinality(L) >= HightThreshold
        BY DEF SpbFinish
  <2>2. HightThreshold \in Nat \ {0}
    <3>1. Size \in Nat /\ Size # 0
          BY ZenonT(60), CommitteeAssumption, FS_CardinalityType, FS_EmptySet DEF Size
    <3>2. QED BY <3>1 DEF HightThreshold, F
  <2>3. L # {}
    <3>1. SUFFICES ASSUME L = {} PROVE FALSE
          OBVIOUS
    <3>2. Cardinality(L) = 0
          BY <3>1, FS_EmptySet
    <3> HIDE DEF L
    <3>3. QED BY <2>1, <2>2, <3>2
  <2>4. QED BY <2>3 DEF SupportInv, LocksSupported
<1>3. Supported(x)
      BY DEF Supported, Signed
<1>4. \A a \in Node : /\ log'[a] = log[a] \/ log'[a] = Append(log[a], x)
                      /\ self'[a] = self[a] \/ self'[a] = Append(self[a], x)
      BY ZenonT(60) DEF SpbFinish, SpbFinishSelf, IInv, TypeOK
<1> HIDE DEF x
<1>5. \A s \in Seq(Message) : AllSupported(s) => AllSupported(Append(s, x))
      BY <1>3 DEF AllSupported
<1>6. \A a \in Node : log[a] \in Seq(Message) /\ self[a] \in Seq(Message)
      BY DEF IInv, TypeOK
<1>7. \A a \in Node : AllSupported(log'[a]) /\ AllSupported(self'[a])
      BY Zenon, <1>4, <1>5, <1>6 DEF SupportInv, LinksSupported
<1>8. LinksSupported'
      BY ZenonT(60), <1>1, <1>7, SameSupport DEF LinksSupported, AllSupported
<1>9. LocksSupported' /\ FinishesSupported'
      BY ZenonT(60), <1>1, <1>2
         DEF SupportInv, LocksSupported, FinishesSupported, AcceptQuorum
<1>10. QED BY <1>8, <1>9 DEF SupportInv

\* Steps that touch neither links nor SPB instances.
LEMMA QuietSupport ==
    ASSUME SupportInv, log' = log, self' = self, accepted' = accepted,
           locked' = locked, finished' = finished
    PROVE  SupportInv'
BY ZenonT(60), SameSupport
   DEF SupportInv, LinksSupported, AllSupported, LocksSupported, FinishesSupported

\* At first there are no votes, locks or finishes.
LEMMA InitSupport == Init => SupportInv
<1> SUFFICES ASSUME Init PROVE SupportInv
    OBVIOUS
<1>1. \A a \in Node : AllSupported(log[a]) /\ self[a] = log[a]
  <2>1. AllSupported(<<>>) /\ \A a : AllSupported(FirstProposal(a, 0))
        BY DEF AllSupported, Supported, FirstProposal, Proposal
  <2>2. QED BY Zenon, <2>1 DEF Init
<1>2. QED BY <1>1 DEF SupportInv, LinksSupported, LocksSupported, FinishesSupported, Init

\* Every step keeps SupportInv.
LEMMA NextSupport == IInv /\ CoinInv /\ SupportInv /\ [Next]_vars => SupportInv'
<1> SUFFICES ASSUME IInv, CoinInv, SupportInv, [Next]_vars PROVE SupportInv'
    OBVIOUS
<1>1. Active \subseteq Node
      BY DEF Active
<1>2. ASSUME NEW n \in Active, NEW m \in Active, Handle(n, m) PROVE SupportInv'
      BY Zenon, <1>1, <1>2, HandlerSupport
<1>3. ASSUME NEW n \in Active, NEW b \in Block, PayloadArrives(n, b) \/ handleLoopBack(n, b)
      PROVE  SupportInv'
      BY ZenonT(60), <1>3, QuietSupport DEF PayloadArrives, handleLoopBack, netVars, spbVars
<1>4. ASSUME NEW n \in Active, NEW i \in ER \X Active, SpbAccept(n, i) \/ SpbLock(n, i)
      PROVE  SupportInv'
      BY <1>1, <1>4, AcceptSupport, LockSupport
<1>5. ASSUME NEW n \in Active, NEW er \in ER, SpbFinish(n, er) \/ SpbFinishSelf(n, er)
      PROVE  SupportInv'
      BY <1>1, <1>5, FinishSupport
<1>6. CASE UNCHANGED vars
      BY <1>6, QuietSupport DEF vars, netVars, spbVars
<1>7. QED BY <1>2, <1>3, <1>4, <1>5, <1>6 DEF Next

\* Every Halt on the network, whichever path led to it (processLeader,
\* handleFinvote), names a block that 2f+1 nodes have accepted in its round.
THEOREM HaltsSupported == Spec => []HaltSupported
<1>1. SupportInv => HaltSupported
      BY DEF SupportInv, LinksSupported, AllSupported, Supported, HaltSupported
<1>2. QED BY <1>1, Invariance, InitCoin, NextCoin, InitSupport, NextSupport, PTL DEF Spec

-----------------------------------------------------------------------------
(* What stands behind the messages of a round in the rounds before. *)

LockQuorum(er, p) == Quorate({a \in Node : <<er, p>> \in locked[a]})

\* Hash h is the block of a node that was voted on as the leader of round er.
Voted(er, h) == \E y \in Sent("prevote") : y.er = er /\ h = generatorBlock(y.leader, er[1])

VotedNo(a, er) == \E y \in On(log[a]) : y.type = "prevote" /\ y.er = er /\ y.flag = "no"

\* Node p has proposed a block of its own in round er.
Proposed(er, p) ==
    \E y \in On(log[p]) : y.type = "proposal" /\ y.er = er /\ y.block.proposer = p

\* Why there is a Halt on block h in round er, and why node a proposes block b
\* in the round after er.
HaltCause(er, h) ==
    \/ \E p \in Node : h = generatorBlock(p, er[1]) /\ er \in finished[p]
    \/ \E a \in Node : Quorate(finvotes[a][er]["yes"])

Advanced(a, er, b) ==
    FinishQuorum(er) /\ (Quorate(finvotes[a][er]["no"]) \/ Voted(er, b))

Before(er) == <<er[1], er[2] - 1>>

\* What message x from node a says about earlier messages and counts.
Caused(a, x) ==
    /\ x.type = "halt" => HaltCause(x.er, x.hash)
    /\ x.type = "finvote" /\ x.flag = "no" => Quorate(prevotes[a][x.er]["no"])
    /\ x.type \in {"prevote", "finvote"} /\ x.hash # NoHash => Voted(x.er, x.hash)
    /\ x.type = "proposal" /\ x.er[2] > 0 => Advanced(a, Before(x.er), x.block)

LogCaused == \A a \in Node : \A x \in On(log[a]) : Caused(a, x)

NoCounted ==
    \A a, b \in Node, er \in ER : b \in prevotes[a][er]["no"] => VotedNo(b, er)

OwnProposed ==
    \A a \in Node : \A i \in calls[a] \cup accepted[a] : i[1][2] > 0 => Proposed(i[1], i[2])

Below ==
    \A p \in Node : \A er \in finished[p] :
        LockQuorum(er, p) /\ \A q \in Rounds : q < er[2] => FinishQuorum(<<er[1], q>>)

RoundInv == LogCaused /\ NoCounted /\ OwnProposed /\ Below

-----------------------------------------------------------------------------

\* The types of the vote tables.
LEMMA VoteTypes ==
    IInv => \A a \in Node, er \in ER, f \in Flag :
                prevotes[a][er][f] \in SUBSET Node /\ finvotes[a][er][f] \in SUBSET Node
<1> SUFFICES ASSUME IInv PROVE \A a \in Node, er \in ER, f \in Flag :
                prevotes[a][er][f] \in SUBSET Node /\ finvotes[a][er][f] \in SUBSET Node
    OBVIOUS
<1>1. /\ prevotes \in [Node -> [ER -> [Flag -> SUBSET Node]]]
      /\ finvotes \in [Node -> [ER -> [Flag -> SUBSET Node]]]
      BY Zenon DEF IInv, TypeOK
<1>2. QED BY <1>1

\* What a node has sent is on the links.
LEMMA NowSent ==
    ASSUME NEW a \in Node, NEW x \in On(log'[a])
    PROVE  x \in Sent(x.type)'
<1>1. x \in UNION {On(log'[b]) : b \in Node}
      BY Zenon
<1>2. QED BY Zenon, <1>1 DEF Sent, On

\* What holds of the past stays.
LEMMA PastKept ==
    ASSUME IInv, IInv', Grows
    PROVE  /\ \A er : FinishQuorum(er) => FinishQuorum(er)'
           /\ \A er, p : LockQuorum(er, p) => LockQuorum(er, p)'
           /\ \A a \in Node, er \in ER, f \in Flag :
                 /\ Quorate(prevotes[a][er][f]) => Quorate(prevotes'[a][er][f])
                 /\ Quorate(finvotes[a][er][f]) => Quorate(finvotes'[a][er][f])
           /\ \A er, h : Voted(er, h) => Voted(er, h)'
           /\ \A a \in Node : \A er : /\ VotedNo(a, er) => VotedNo(a, er)'
                                      /\ Proposed(er, a) => Proposed(er, a)'
<1>1. \A a \in Node : /\ On(log[a]) \subseteq On(log'[a])
                      /\ locked[a] \subseteq locked'[a]
                      /\ finished[a] \subseteq finished'[a]
      BY Zenon DEF Grows
<1>2. ASSUME NEW er, FinishQuorum(er) PROVE FinishQuorum(er)'
  <2>1. Finishers(er) \in SUBSET Finishers(er)' /\ Finishers(er)' \in SUBSET Node
        BY Zenon, <1>1 DEF Finishers
  <2>2. Quorate(Finishers(er)) => Quorate(Finishers(er)')
        BY Zenon, <2>1, QuorateGrows
  <2>3. QED BY Zenon, <1>2, <2>2 DEF FinishQuorum, Quorate
<1>3. ASSUME NEW er, NEW p, LockQuorum(er, p) PROVE LockQuorum(er, p)'
  <2> DEFINE S == {a \in Node : <<er, p>> \in locked[a]}
             T == {a \in Node : <<er, p>> \in locked'[a]}
  <2>1. T \in SUBSET Node /\ S \in SUBSET T
        BY Zenon, <1>1
  <2>2. Quorate(S)
        BY Zenon, <1>3 DEF LockQuorum
  <2> HIDE DEF S, T
  <2>3. Quorate(T)
        BY Zenon, <2>1, <2>2, QuorateGrows
  <2>4. QED BY Zenon, <2>3 DEF T, LockQuorum, Quorate
<1>4. ASSUME NEW a \in Node, NEW er \in ER, NEW f \in Flag
      PROVE  /\ Quorate(prevotes[a][er][f]) => Quorate(prevotes'[a][er][f])
             /\ Quorate(finvotes[a][er][f]) => Quorate(finvotes'[a][er][f])
  <2>1. /\ prevotes[a][er][f] \subseteq prevotes'[a][er][f]
        /\ finvotes[a][er][f] \subseteq finvotes'[a][er][f]
        BY Zenon DEF Grows, Within
  <2>2. prevotes'[a][er][f] \in SUBSET Node /\ finvotes'[a][er][f] \in SUBSET Node
    <3>1. /\ prevotes' \in [Node -> [ER -> [Flag -> SUBSET Node]]]
          /\ finvotes' \in [Node -> [ER -> [Flag -> SUBSET Node]]]
          BY Zenon DEF IInv, TypeOK
    <3>2. QED BY <3>1
  <2>3. QED BY Zenon, <2>1, <2>2, QuorateGrows
<1>5. ASSUME NEW er, NEW h, Voted(er, h) PROVE Voted(er, h)'
  <2>1. ASSUME NEW x \in Sent("prevote") PROVE x \in Sent("prevote")'
    <3>1. PICK a \in Node : x \in On(log[a])
          BY ZenonT(60) DEF Sent, On
    <3>2. x \in On(log'[a]) /\ x.type = "prevote"
          BY Zenon, <1>1, <3>1 DEF Sent
    <3>3. QED BY Zenon, <3>2, NowSent
  <2>2. QED BY Zenon, <1>5, <2>1 DEF Voted
<1>6. ASSUME NEW a \in Node, NEW er
      PROVE  /\ VotedNo(a, er) => VotedNo(a, er)'
             /\ Proposed(er, a) => Proposed(er, a)'
      BY Zenon, <1>1 DEF VotedNo, Proposed, On
<1>7. QED BY Zenon, <1>2, <1>3, <1>4, <1>5, <1>6

\* The round before a later round is a round.
LEMMA BeforeRound ==
    ASSUME NEW er \in ER
    PROVE  /\ er[1] \in Epochs /\ er[2] \in Rounds /\ er[2] \in Nat /\ er = <<er[1], er[2]>>
           /\ er[2] > 0 => Before(er) \in ER
<1>1. er[1] \in Epochs /\ er[2] \in 0..MaxRound /\ er = <<er[1], er[2]>>
      BY DEF ER, Rounds
<1>2. er[2] > 0 => er[2] - 1 \in 0..MaxRound
      BY <1>1, CoreAssumption
<1>3. er[2] \in Nat
      BY <1>1, CoreAssumption
<1>4. QED BY <1>1, <1>2, <1>3 DEF Before, ER, Rounds

\* The causes of a message stay.
LEMMA CausedKept ==
    ASSUME IInv, IInv', Grows, NEW a \in Node, NEW x \in Message, Caused(a, x)
    PROVE  Caused(a, x)'
<1>1. x.er \in ER
      BY Zenon, MessageFields
<1>2. x.type = "halt" => HaltCause(x.er, x.hash)'
  <2>1. SUFFICES ASSUME HaltCause(x.er, x.hash) PROVE HaltCause(x.er, x.hash)'
        BY Zenon DEF Caused
  <2>2. CASE \E p \in Node : x.hash = generatorBlock(p, x.er[1]) /\ x.er \in finished[p]
        BY Zenon, <2>2 DEF HaltCause, Grows
  <2>3. CASE \E b \in Node : Quorate(finvotes[b][x.er]["yes"])
    <3>1. PICK b \in Node : Quorate(finvotes[b][x.er]["yes"])
          BY Zenon, <2>3
    <3>2. Quorate(finvotes'[b][x.er]["yes"])
          BY Zenon, <1>1, <3>1, PastKept DEF Flag
    <3>3. QED BY Zenon, <3>2 DEF HaltCause, Quorate
  <2>4. QED BY Zenon, <2>1, <2>2, <2>3 DEF HaltCause
<1>3. x.type = "finvote" /\ x.flag = "no" => Quorate(prevotes'[a][x.er]["no"])
      BY Zenon, <1>1, PastKept DEF Caused, Flag
<1>4. x.type \in {"prevote", "finvote"} /\ x.hash # NoHash => Voted(x.er, x.hash)'
      BY Zenon, PastKept DEF Caused
<1>5. x.type = "proposal" /\ x.er[2] > 0 => Advanced(a, Before(x.er), x.block)'
  <2> SUFFICES ASSUME x.type = "proposal", x.er[2] > 0
               PROVE  Advanced(a, Before(x.er), x.block)'
      OBVIOUS
  <2> DEFINE er == Before(x.er)
  <2>1. er \in ER
        BY Zenon, <1>1, BeforeRound
  <2>2. FinishQuorum(er) /\ (Quorate(finvotes[a][er]["no"]) \/ Voted(er, x.block))
        BY Zenon DEF Caused, Advanced
  <2> HIDE DEF er
  <2>3. FinishQuorum(er)' /\ (Quorate(finvotes'[a][er]["no"]) \/ Voted(er, x.block)')
        BY Zenon, <2>1, <2>2, PastKept DEF Flag
  <2>4. Advanced(a, er, x.block)'
        BY Zenon, <2>3 DEF Advanced, Quorate
  <2>5. QED BY Zenon, <2>4 DEF er, Before
<1>6. QED BY Zenon, <1>2, <1>3, <1>4, <1>5 DEF Caused, Quorate, Before

\* processLeader: the leader has finished, or the vote is on its block.
LEMMA LeaderCaused ==
    ASSUME IInv, CoinInv, Grows, NEW n \in Node, NEW er \in ER, NEW l \in Node,
           NEW x \in On(log'[n]), x = LeaderMessage(n, er, l)
    PROVE  Caused(n, x)'
<1>1. CASE l \in FinishFlags[n][er]
  <2>1. er \in finished'[l]
        BY Zenon, <1>1 DEF CoinInv, FinishesCounted, Finishers, Grows
  <2>2. x = NewHalt(l, generatorBlock(l, er[1]), er)
        BY Zenon, <1>1 DEF LeaderMessage
  <2>3. x.type = "halt" /\ x.er = er /\ x.hash = generatorBlock(l, er[1])
        BY <2>2 DEF NewHalt
  <2>4. HaltCause(x.er, x.hash)'
        BY Zenon, <2>1, <2>3 DEF HaltCause
  <2>5. QED BY Zenon, <2>3, <2>4 DEF Caused
<1>2. CASE l \notin FinishFlags[n][er]
  <2>1. \/ x = NewPrevote(l, er, "yes", generatorBlock(l, er[1]))
        \/ x = NewPrevote(l, er, "no", NoHash)
        BY Zenon, <1>2 DEF LeaderMessage
  <2>2. /\ x.type = "prevote" /\ x.er = er /\ x.leader = l
        /\ x.hash # NoHash => x.hash = generatorBlock(l, er[1])
        BY <2>1 DEF NewPrevote
  <2>3. x \in Sent("prevote")'
        BY Zenon, <2>2, NowSent
  <2>4. x.hash # NoHash => Voted(x.er, x.hash)'
        BY Zenon, <2>2, <2>3 DEF Voted
  <2>5. QED BY Zenon, <2>2, <2>4 DEF Caused
<1>3. QED BY Zenon, <1>1, <1>2

\* handlePrevote: a no FinVote stands for 2f+1 no prevotes, and the hash is that
\* of a prevote.
LEMMA FinVoteCaused ==
    ASSUME IInv, IInv', Grows, NEW n \in Node, NEW m \in Node, handlePrevote(n, m),
           Caused(m, NextFrom(n, m)), NEW action, action # "none",
           action = PrevoteAction(prevotes[n][NextFrom(n, m).er], m, NextFrom(n, m).flag),
           NEW x, x = NewFinVote(NextFrom(n, m).leader, NextFrom(n, m).er, action,
                                 NextFrom(n, m).hash)
    PROVE  Caused(n, x)'
<1> DEFINE y == NextFrom(n, m)
<1>1. /\ y.type = "prevote" /\ y.er \in ER /\ y.flag \in Flag
      /\ prevotes'[n][y.er] = AddVote(prevotes[n][y.er], m, y.flag)
  <2>1. /\ y.type = "prevote" /\ y.er \in ER /\ y.flag \in Flag
        /\ OneVote(prevotes, prevotes', n, y.er, m, y.flag)
        BY Zenon, PrevoteAdds
  <2> HIDE DEF y
  <2>2. QED BY Zenon, <2>1 DEF OneVote
<1>2. x.type = "finvote" /\ x.er = y.er /\ x.flag = action /\ x.hash = y.hash
      BY DEF NewFinVote
<1>3. action = "no" => Quorate(AddVote(prevotes[n][y.er], m, y.flag)["no"])
      BY Zenon, ActionQuorums
<1>4. x.hash # NoHash => Voted(x.er, x.hash)'
      BY Zenon, <1>1, <1>2, PastKept DEF Caused
<1> HIDE DEF y
<1>5. x.flag = "no" => Quorate(prevotes'[n][x.er]["no"])
      BY Zenon, <1>1, <1>2, <1>3
<1>6. QED BY Zenon, <1>2, <1>4, <1>5 DEF Caused, Quorate

\* handleFinvote: a Halt stands for 2f+1 yes FinVotes.
LEMMA CommitCaused ==
    ASSUME IInv, IInv', Grows, NEW n \in Node, NEW m \in Node, handleFinvote(n, m),
           FinVoteAction(finvotes[n][NextFrom(n, m).er], m, NextFrom(n, m).flag) = "commit",
           NEW x, x = NewHalt(NextFrom(n, m).leader, NextFrom(n, m).hash, NextFrom(n, m).er)
    PROVE  Caused(n, x)'
<1> DEFINE y == NextFrom(n, m)
           new == AddVote(finvotes[n][y.er], m, y.flag)
<1>1. finvotes'[n][y.er] = new
  <2>1. y.er \in ER /\ OneVote(finvotes, finvotes', n, y.er, m, y.flag)
        BY ZenonT(30), FinvoteAdds
  <2> HIDE DEF y
  <2>2. QED BY Zenon, <2>1 DEF OneVote
<1>2. x.type = "halt" /\ x.er = y.er /\ x.hash = y.hash
      BY DEF NewHalt
<1>3. Quorate(new["yes"])
      BY Zenon, ActionQuorums
<1> HIDE DEF y, new
<1>4. HaltCause(x.er, x.hash)'
      BY Zenon, <1>1, <1>2, <1>3 DEF HaltCause, Quorate
<1>5. QED BY Zenon, <1>2, <1>4 DEF Caused

\* advanceNextRound: the own block after 2f+1 no FinVotes, else a block that was
\* voted on.
LEMMA NextRoundCaused ==
    ASSUME IInv, IInv', CoinInv, Grows, NEW n \in Node, NEW m \in Node, handleFinvote(n, m),
           NEW y, y = NextFrom(n, m), Caused(m, y), NEW action \in Flag,
           action = FinVoteAction(finvotes[n][y.er], m, y.flag),
           NEW x \in On(NextRound(n, y.er, action, y.hash))
    PROVE  Caused(n, x)'
<1> DEFINE new == AddVote(finvotes[n][y.er], m, y.flag)
           b == IF action = "yes" THEN y.hash
                ELSE IF <<y.er, n>> \in accepted[n] THEN generatorBlock(n, y.er[1]) ELSE NoHash
<1>1. HasNext(n, m) /\ y.type = "finvote" /\ y.er \in ER /\ finvotes'[n][y.er] = new
  <2>1. /\ HasNext(n, m) /\ y.type = "finvote" /\ y.er \in ER
        /\ OneVote(finvotes, finvotes', n, y.er, m, y.flag)
        BY Zenon, FinvoteAdds
  <2>2. QED BY Zenon, <2>1 DEF OneVote
<1>2. FinishQuorum(y.er)
  <2>1. Justified(m, y)
        BY Zenon, <1>1, TakenJustified DEF CoinInv
  <2>2. QED BY <1>1, <2>1 DEF Justified
<1>3. x = Proposal(b, y.er[1], y.er[2] + 1) /\ b \in blockStore[n]
  <2>1. NextRound(n, y.er, action, y.hash) \in {<<Proposal(b, y.er[1], y.er[2] + 1)>>, <<>>}
        /\ (b \notin blockStore[n] => NextRound(n, y.er, action, y.hash) = <<>>)
        BY Zenon DEF NextRound
  <2> DEFINE out == NextRound(n, y.er, action, y.hash)
             P == Proposal(b, y.er[1], y.er[2] + 1)
  <2>2. (out = <<P>> \/ out = <<>>) /\ (b \notin blockStore[n] => out = <<>>) /\ x \in On(out)
        BY Zenon, <2>1
  <2> HIDE DEF b, out, P
  <2>3. On(<<>>) = {} /\ On(<<P>>) = {P}
        BY Zenon, OnSmall
  <2>4. out # <<>>
        BY Zenon, <2>2, <2>3
  <2>5. x \in {P}
        BY Zenon, <2>2, <2>3, <2>4
  <2>6. QED BY Zenon, <2>2, <2>4, <2>5 DEF P
<1>4. action = "no" => Quorate(new["no"])
      BY Zenon, ActionQuorums
<1>5. b # NoHash
  <2>1. blockStore \in [Node -> SUBSET Block]
        BY Zenon DEF IInv, TypeOK
  <2>2. QED BY Zenon, <1>3, <2>1, CoreAssumption
<1>6. action = "yes" => b = y.hash /\ Voted(y.er, y.hash)'
  <2>1. action = "yes" => b = y.hash
        BY Zenon
  <2>2. y.hash # NoHash => Voted(y.er, y.hash)
        BY Zenon, <1>1 DEF Caused
  <2> HIDE DEF b
  <2>3. QED BY Zenon, <1>5, <2>1, <2>2, PastKept
<1> HIDE DEF b, new
<1>7. x.type = "proposal" /\ x.er = <<y.er[1], y.er[2] + 1>> /\ x.block = b /\ Before(x.er) = y.er
  <2>1. x.type = "proposal" /\ x.er = <<y.er[1], y.er[2] + 1>> /\ x.block = b
        BY <1>3 DEF Proposal
  <2>2. y.er = <<y.er[1], y.er[2]>> /\ y.er[2] \in Nat
        BY Zenon, <1>1, BeforeRound
  <2>3. Before(x.er) = <<y.er[1], (y.er[2] + 1) - 1>>
    <3>1. x.er[1] = y.er[1] /\ x.er[2] = y.er[2] + 1
          BY <2>1
    <3>2. QED BY ZenonT(30), <3>1 DEF Before
  <2>4. (y.er[2] + 1) - 1 = y.er[2]
        BY <2>2
  <2>5. QED BY ZenonT(30), <2>1, <2>2, <2>3, <2>4
<1>8. action = "no" => Quorate(finvotes'[n][y.er]["no"])
      BY Zenon, <1>1, <1>4
<1>9. FinishQuorum(y.er)'
      BY Zenon, <1>2, PastKept
<1>10. Advanced(n, y.er, x.block)'
      BY Zenon, <1>6, <1>7, <1>8, <1>9 DEF Advanced, Quorate, Flag
<1>11. QED BY Zenon, <1>7, <1>10 DEF Caused, Before

\* What a handler sends has its cause.
LEMMA NewCaused ==
    ASSUME IInv, IInv', CoinInv, LogInv, LogCaused, Grows, NEW n \in Node, NEW m \in Node,
           HasNext(n, m), NEW x \in On(log'[n]), NewMessage(n, m, x)
    PROVE  Caused(n, x)'
<1>1. PICK y : y = NextFrom(n, m)
      OBVIOUS
<1>2. y \in On(log[m]) /\ Caused(m, y)
      BY Zenon, <1>1, TakenSent DEF LogCaused
<1>3. CASE x.type \in {"done", "share"}
      BY <1>3 DEF Caused
<1>4. CASE x.type = "proposal" /\ x.er[2] = 0
      BY <1>4 DEF Caused
<1>5. CASE y.er \in ER /\ \E l \in Node : x = LeaderMessage(n, y.er, l)
      BY Zenon, <1>5, LeaderCaused
<1>6. CASE /\ handlePrevote(n, m)
           /\ PrevoteAction(prevotes[n][y.er], m, y.flag) # "none"
           /\ x = NewFinVote(y.leader, y.er, PrevoteAction(prevotes[n][y.er], m, y.flag), y.hash)
  <2>1. PICK action : action = PrevoteAction(prevotes[n][y.er], m, y.flag)
        OBVIOUS
  <2>2. QED BY ZenonT(30), <1>1, <1>2, <1>6, <2>1, FinVoteCaused
<1>7. CASE /\ handleFinvote(n, m)
           /\ FinVoteAction(finvotes[n][y.er], m, y.flag) = "commit"
           /\ x = NewHalt(y.leader, y.hash, y.er)
      BY Zenon, <1>1, <1>7, CommitCaused
<1>8. CASE /\ handleFinvote(n, m)
           /\ FinVoteAction(finvotes[n][y.er], m, y.flag) \in Flag
           /\ x \in On(NextRound(n, y.er, FinVoteAction(finvotes[n][y.er], m, y.flag), y.hash))
  <2>1. PICK action : action = FinVoteAction(finvotes[n][y.er], m, y.flag)
        OBVIOUS
  <2>2. QED BY Zenon, <1>1, <1>2, <1>8, <2>1, NextRoundCaused
<1>9. QED BY ZenonT(30), <1>1, <1>3, <1>4, <1>5, <1>6, <1>7, <1>8 DEF NewMessage

\* The messages of a log that was not changed, or by a message without a cause.
LEMMA LogsKept ==
    ASSUME IInv, IInv', LogCaused, Grows,
           \A a \in Node : \A x \in On(log'[a]) : x \in On(log[a]) \/ Caused(a, x)'
    PROVE  LogCaused'
<1>1. log \in [Node -> Seq(Message)]
      BY Zenon DEF IInv, TypeOK
<1>2. ASSUME NEW a \in Node, NEW x \in On(log[a]) PROVE Caused(a, x)'
  <2>1. x \in Message
    <3>1. log[a] \in Seq(Message)
          BY Zenon, <1>1
    <3>2. \A k \in 1..Len(log[a]) : log[a][k] \in Message
          BY <3>1
    <3>3. QED BY Zenon, <3>2 DEF On
  <2>2. Caused(a, x)
        BY Zenon DEF LogCaused
  <2>3. QED BY Zenon, <2>1, <2>2, CausedKept
<1>3. \A a \in Node : \A x \in On(log'[a]) : Caused(a, x)'
      BY Zenon, <1>2
<1>4. QED BY Zenon, <1>3 DEF LogCaused, On

\* A no prevote that is counted was sent.
LEMMA CountedSent ==
    ASSUME IInv, IInv', LogInv, NoCounted, Grows,
           \/ prevotes' = prevotes
           \/ \E n, m \in Node : handlePrevote(n, m)
    PROVE  NoCounted'
<1>1. ASSUME NEW a \in Node, NEW b \in Node, NEW er \in ER, b \in prevotes[a][er]["no"]
      PROVE  VotedNo(b, er)'
      BY Zenon, <1>1, PastKept DEF NoCounted
<1>2. ASSUME prevotes' = prevotes PROVE NoCounted'
  <2>1. ASSUME NEW a \in Node, NEW b \in Node, NEW er \in ER, b \in prevotes'[a][er]["no"]
        PROVE  VotedNo(b, er)'
    <3>1. b \in prevotes[a][er]["no"]
          BY Zenon, <1>2, <2>1
    <3>2. QED BY Zenon, <1>1, <3>1
  <2>2. QED BY Zenon, <2>1 DEF NoCounted, VotedNo
<1>3. ASSUME NEW n \in Node, NEW m \in Node, handlePrevote(n, m) PROVE NoCounted'
  <2>1. PICK y : y = NextFrom(n, m)
        OBVIOUS
  <2>2. /\ HasNext(n, m) /\ y.type = "prevote" /\ y.er \in ER /\ y.flag \in Flag
        /\ OneVote(prevotes, prevotes', n, y.er, m, y.flag)
        BY Zenon, <1>3, <2>1, PrevoteAdds
  <2>3. y \in On(log[m])
        BY Zenon, <2>1, <2>2, TakenSent
  <2>4. y.flag = "no" => VotedNo(m, y.er)'
    <3>1. y.flag = "no" => VotedNo(m, y.er)
          BY Zenon, <2>2, <2>3 DEF VotedNo
    <3>2. QED BY Zenon, <3>1, PastKept
  <2>5. prevotes \in [Node -> [ER -> [Flag -> SUBSET Node]]]
        BY Zenon DEF IInv, TypeOK
  <2>6. OnlyNew(prevotes, prevotes', n, y.er, m, y.flag)
        BY Zenon, <2>2, <2>5, VotesGrow
  <2>7. "no" \in Flag
        BY Zenon DEF Flag
  <2>8. ASSUME NEW a \in Node, NEW b \in Node, NEW er \in ER, b \in prevotes'[a][er]["no"]
        PROVE  VotedNo(b, er)'
    <3>1. b \in prevotes[a][er]["no"] \/ (a = n /\ er = y.er /\ "no" = y.flag /\ b = m)
          BY Zenon, <2>8, <2>6, <2>7 DEF OnlyNew
    <3>2. QED BY Zenon, <1>1, <2>4, <3>1
  <2>9. QED BY Zenon, <2>8 DEF NoCounted, VotedNo
<1>4. QED BY Zenon, <1>2, <1>3

\* An SPB instance of a later round works on a block its proposer has proposed.
LEMMA OwnKept ==
    ASSUME IInv, IInv', OwnProposed, Grows,
           \A a \in Node : \A i \in calls'[a] \cup accepted'[a] :
               \/ i \in calls[a] \cup accepted[a]
               \/ i[1][2] > 0 => i[2] \in Node /\ Proposed(i[1], i[2])
    PROVE  OwnProposed'
<1>1. calls \in [Node -> SUBSET (ER \X Node)] /\ accepted \in [Node -> SUBSET (ER \X Node)]
      BY Zenon DEF IInv, TypeOK
<1>2. ASSUME NEW a \in Node, NEW i \in calls'[a] \cup accepted'[a], i[1][2] > 0
      PROVE  Proposed(i[1], i[2])'
  <2>1. i[2] \in Node /\ Proposed(i[1], i[2])
    <3>1. CASE i \in calls[a] \cup accepted[a]
      <4>1. i \in ER \X Node
            BY Zenon, <1>1, <3>1
      <4>2. i[2] \in Node
            BY <4>1
      <4>3. QED BY Zenon, <1>2, <3>1, <4>2 DEF OwnProposed
    <3>2. QED BY Zenon, <1>2, <3>1
  <2>2. QED BY Zenon, <2>1, PastKept
<1>3. QED BY Zenon, <1>2 DEF OwnProposed, Proposed

\* Steps in which no proposer finishes.
LEMMA BelowKept ==
    ASSUME IInv, IInv', Below, Grows, finished' = finished
    PROVE  Below'
<1>1. ASSUME NEW p \in Node, NEW er \in finished'[p]
      PROVE  LockQuorum(er, p)' /\ \A q \in Rounds : q < er[2] => FinishQuorum(<<er[1], q>>)'
      BY Zenon, <1>1, PastKept DEF Below
<1>2. QED BY Zenon, <1>1 DEF Below, LockQuorum, FinishQuorum, Quorate, Finishers

\* The handlers keep RoundInv.
LEMMA HandlerRounds ==
    ASSUME IInv, IInv', CoinInv, LogInv, RoundInv, NEW n \in Node, NEW m \in Node, Handle(n, m)
    PROVE  RoundInv'
<1>1. Grows
      BY Zenon, HandlerGrows
<1>2. HasNext(n, m)
      BY Zenon, HandlerSends
<1>3. accepted' = accepted /\ finished' = finished
      BY ZenonT(60) DEF Handle, Discard, handleSpbProposal, handleFinish, handleDone,
         handleElectShare, handlePrevote, handleFinvote, handleHalt, spbVars
<1>4. prevotes' = prevotes \/ handlePrevote(n, m)
      BY ZenonT(60) DEF Handle, Discard, handleSpbProposal, handleFinish, handleDone,
         handleElectShare, handlePrevote, handleFinvote, handleHalt, voteVars
<1>5. calls' = calls \/ handleSpbProposal(n, m)
      BY ZenonT(60) DEF Handle, Discard, handleSpbProposal, handleFinish, handleDone,
         handleElectShare, handlePrevote, handleFinvote, handleHalt, spbVars
<1>6. LogCaused'
  <2>1. PICK out \in Seq(Message) :
            TakeAndSend(n, m, out) /\ \A x \in On(out) : NewMessage(n, m, x)
        BY Zenon, HandlerSends
  <2>2. \A a \in Node : On(log'[a]) = IF a = n THEN On(log[a]) \cup On(out) ELSE On(log[a])
        BY Zenon, <1>2, <2>1, LogsAfter
  <2>3. ASSUME NEW a \in Node, NEW x \in On(log'[a]) PROVE x \in On(log[a]) \/ Caused(a, x)'
    <3>1. x \in On(log[a]) \/ (a = n /\ x \in On(out))
          BY Zenon, <2>2
    <3>2. CASE a = n /\ x \in On(out)
      <4>1. x \in On(log'[n]) /\ NewMessage(n, m, x)
            BY Zenon, <2>1, <3>2
      <4>2. Caused(n, x)'
            BY Zenon, <1>1, <1>2, <4>1, NewCaused DEF RoundInv
      <4>3. QED BY Zenon, <3>2, <4>2
    <3>3. QED BY Zenon, <3>1, <3>2
  <2>4. QED BY Zenon, <1>1, <2>3, LogsKept DEF RoundInv
<1>7. NoCounted'
      BY Zenon, <1>1, <1>4, CountedSent DEF RoundInv
<1>8. OwnProposed'
  <2>1. ASSUME calls' = calls PROVE OwnProposed'
        BY Zenon, <1>1, <1>3, <2>1, OwnKept DEF RoundInv
  <2>2. ASSUME handleSpbProposal(n, m) PROVE OwnProposed'
    <3>1. PICK y : y = NextFrom(n, m)
          OBVIOUS
    <3>2. /\ y.type = "proposal"
          /\ \/ calls' = calls
             \/ /\ y.block.proposer = m
                /\ calls' = [calls EXCEPT ![n] = @ \cup {<<y.er, m>>}]
          BY Zenon, <2>2, <3>1 DEF handleSpbProposal
    <3>3. y \in On(log[m])
          BY Zenon, <1>2, <3>1, TakenSent
    <3>4. CASE y.block.proposer = m /\ calls' = [calls EXCEPT ![n] = @ \cup {<<y.er, m>>}]
      <4>1. Proposed(y.er, m)
            BY Zenon, <3>2, <3>3, <3>4 DEF Proposed
      <4>2. calls \in [Node -> SUBSET (ER \X Node)]
            BY Zenon DEF IInv, TypeOK
      <4>3. \A a \in Node : \A i \in calls'[a] : i \in calls[a] \/ i = <<y.er, m>>
            BY ZenonT(60), <3>4, <4>2
      <4>4. \A i : i = <<y.er, m>> => i[1] = y.er /\ i[2] = m
            OBVIOUS
      <4>5. ASSUME NEW a \in Node, NEW i \in calls'[a] \cup accepted'[a]
            PROVE  \/ i \in calls[a] \cup accepted[a]
                   \/ i[2] \in Node /\ Proposed(i[1], i[2])
            BY Zenon, <1>3, <4>1, <4>3, <4>4
      <4>6. QED BY Zenon, <1>1, <4>5, OwnKept DEF RoundInv
    <3>5. QED BY Zenon, <2>1, <3>2, <3>4
  <2>3. QED BY Zenon, <1>5, <2>1, <2>2
<1>9. Below'
      BY Zenon, <1>1, <1>3, BelowKept DEF RoundInv
<1>10. QED BY Zenon, <1>6, <1>7, <1>8, <1>9 DEF RoundInv

\* Steps that send and count nothing.
LEMMA QuietRounds ==
    ASSUME IInv, IInv', LogInv, RoundInv, Grows,
           log' = log, prevotes' = prevotes, finished' = finished,
           \A a \in Node : \A i \in calls'[a] \cup accepted'[a] :
               i \in calls[a] \cup accepted[a] \/ ~(i[1][2] > 0)
    PROVE  RoundInv'
<1>1. LogCaused'
      BY Zenon, LogsKept DEF RoundInv
<1>2. NoCounted'
      BY Zenon, CountedSent DEF RoundInv
<1>3. OwnProposed'
      BY Zenon, OwnKept DEF RoundInv
<1>4. Below'
      BY Zenon, BelowKept DEF RoundInv
<1>5. QED BY Zenon, <1>1, <1>2, <1>3, <1>4 DEF RoundInv

\* The mempool, its synchronizer and the SPB instances on the way.
LEMMA BesideRounds ==
    ASSUME IInv, IInv', LogInv, RoundInv, Grows, NEW n \in Node,
           \/ \E b \in Block : PayloadArrives(n, b) \/ handleLoopBack(n, b)
           \/ \E i \in ER \X Active : SpbAccept(n, i) \/ SpbLock(n, i)
           \/ \E er \in ER : SpbFinishSelf(n, er)
           \/ UNCHANGED vars
    PROVE  RoundInv'
<1>1. log' = log /\ prevotes' = prevotes /\ finished' = finished
      BY ZenonT(60) DEF PayloadArrives, handleLoopBack, SpbAccept, SpbLock, SpbFinishSelf,
         netVars, voteVars, spbVars, vars
<1>2. \/ calls' = calls /\ accepted' = accepted
      \/ \E b \in Block : /\ calls' = [calls EXCEPT ![n] = @ \cup {<<<<b.epoch, 0>>, b.proposer>>}]
                          /\ accepted' = accepted
      \/ \E i \in ER \X Active : SpbAccept(n, i)
      BY ZenonT(60) DEF PayloadArrives, handleLoopBack, SpbLock, SpbFinishSelf, spbVars, vars
<1>3. calls \in [Node -> SUBSET (ER \X Node)] /\ accepted \in [Node -> SUBSET (ER \X Node)]
      BY Zenon DEF IInv, TypeOK
<1>4. CASE calls' = calls /\ accepted' = accepted
      BY Zenon, <1>1, <1>4, QuietRounds
<1>5. ASSUME NEW b \in Block, accepted' = accepted,
             calls' = [calls EXCEPT ![n] = @ \cup {<<<<b.epoch, 0>>, b.proposer>>}]
      PROVE  RoundInv'
  <2>1. \A a \in Node : \A i \in calls'[a] : i \in calls[a] \/ i = <<<<b.epoch, 0>>, b.proposer>>
        BY ZenonT(60), <1>3, <1>5
  <2>2. \A i : i = <<<<b.epoch, 0>>, b.proposer>> => ~(i[1][2] > 0)
        OBVIOUS
  <2>3. \A a \in Node : \A i \in calls'[a] \cup accepted'[a] :
            i \in calls[a] \cup accepted[a] \/ ~(i[1][2] > 0)
        BY Zenon, <1>5, <2>1, <2>2
  <2>4. QED BY Zenon, <1>1, <2>3, QuietRounds
<1>6. ASSUME NEW i \in ER \X Active, SpbAccept(n, i) PROVE RoundInv'
  <2>1. /\ i \in calls[n] /\ calls' = [calls EXCEPT ![n] = @ \ {i}]
        /\ accepted' = [accepted EXCEPT ![n] = @ \cup {i}]
        BY Zenon, <1>6 DEF SpbAccept
  <2>2. \A a \in Node : \A j \in calls'[a] \cup accepted'[a] : j \in calls[a] \cup accepted[a]
        BY ZenonT(60), <1>3, <2>1
  <2>3. QED BY Zenon, <1>1, <2>2, QuietRounds
<1>7. QED BY Zenon, <1>2, <1>4, <1>5, <1>6

\* A block of a later round that 2f+1 nodes have locked was proposed by its maker.
LEMMA LockProposed ==
    ASSUME SupportInv, RoundInv, NEW n \in Node, NEW er \in ER, LockQuorum(er, n), er[2] > 0
    PROVE  Proposed(er, n)
<1>1. PICK a \in Node : <<er, n>> \in locked[a]
  <2>1. {a \in Node : <<er, n>> \in locked[a]} \in SUBSET Node
        OBVIOUS
  <2>2. QED BY Zenon, <2>1, QuorateHas DEF LockQuorum
<1>2. AcceptQuorum(er, n)
  <2>1. <<er, n>>[1] = er /\ <<er, n>>[2] = n
        OBVIOUS
  <2>2. QED BY Zenon, <1>1, <2>1 DEF SupportInv, LocksSupported
<1>3. PICK b \in Node : <<er, n>> \in accepted[b]
  <2>1. {b \in Node : <<er, n>> \in accepted[b]} \in SUBSET Node
        OBVIOUS
  <2>2. Quorate({b \in Node : <<er, n>> \in accepted[b]})
        BY Zenon, <1>2 DEF Quorate, AcceptQuorum
  <2>3. QED BY Zenon, <2>1, <2>2, QuorateHas
<1>4. QED
  <2>1. <<er, n>>[1] = er /\ <<er, n>>[2] = n /\ <<er, n>>[1][2] > 0
        OBVIOUS
  <2>2. <<er, n>> \in calls[b] \cup accepted[b]
        BY Zenon, <1>3
  <2>3. QED BY Zenon, <2>1, <2>2 DEF RoundInv, OwnProposed

\* A proposer of a later round has seen 2f+1 proposers finish in the round before.
LEMMA FinishBelow ==
    ASSUME SupportInv, RoundInv, NEW n \in Node, NEW er \in ER, LockQuorum(er, n),
           NEW q \in Rounds, q < er[2]
    PROVE  FinishQuorum(<<er[1], q>>)
<1>1. er[2] \in Nat /\ q \in Nat /\ (er[2] > 0 => Before(er) \in ER)
      BY BeforeRound, CoreAssumption DEF Rounds
<1>2. er[2] > 0 /\ (q = er[2] - 1 \/ q < er[2] - 1)
      BY <1>1
<1>3. Proposed(er, n)
      BY Zenon, <1>2, LockProposed
<1>4. FinishQuorum(Before(er))
      BY Zenon, <1>2, <1>3 DEF RoundInv, LogCaused, Proposed, Caused, Advanced
<1>5. CASE q = er[2] - 1
      BY Zenon, <1>4, <1>5 DEF Before
<1>6. CASE q < er[2] - 1
  <2>1. Finishers(Before(er)) \in SUBSET Node /\ Quorate(Finishers(Before(er)))
        BY Zenon, <1>4 DEF FinishQuorum, Quorate, Finishers
  <2>2. PICK p \in Node : Before(er) \in finished[p]
        BY Zenon, <2>1, QuorateHas DEF Finishers
  <2>3. Before(er)[1] = er[1] /\ Before(er)[2] = er[2] - 1
        BY DEF Before
  <2>4. QED BY Zenon, <1>6, <2>2, <2>3 DEF RoundInv, Below
<1>7. QED BY Zenon, <1>2, <1>5, <1>6

\* A proposer that finishes.
LEMMA FinishRounds ==
    ASSUME IInv, IInv', LogInv, SupportInv, RoundInv, Grows, NEW n \in Node, NEW er \in ER,
           SpbFinish(n, er)
    PROVE  RoundInv'
<1>1. /\ LockQuorum(er, n) /\ calls' = calls /\ accepted' = accepted /\ prevotes' = prevotes
      /\ finished' = [finished EXCEPT ![n] = @ \cup {er}]
      BY Zenon DEF SpbFinish, LockQuorum, Quorate, voteVars
<1>2. LogCaused'
  <2>1. \A a \in Node : On(log'[a]) = IF a = n THEN On(log[a]) \cup {Signed("finish", er)}
                                      ELSE On(log[a])
        BY Zenon, FinishLogs
  <2>2. \A a \in Node : Caused(a, Signed("finish", er))'
        BY DEF Caused, Signed
  <2>3. \A a \in Node : \A x \in On(log'[a]) : x \in On(log[a]) \/ Caused(a, x)'
        BY Zenon, <2>1, <2>2
  <2>4. QED BY Zenon, <2>3, LogsKept DEF RoundInv
<1>3. NoCounted'
      BY Zenon, <1>1, CountedSent DEF RoundInv
<1>4. OwnProposed'
      BY Zenon, <1>1, OwnKept DEF RoundInv
<1>5. Below'
  <2>1. finished \in [Node -> SUBSET ER]
        BY Zenon DEF IInv, TypeOK
  <2>2. \A p \in Node : \A r \in finished'[p] : r \in finished[p] \/ (p = n /\ r = er)
        BY <1>1, <2>1
  <2>3. ASSUME NEW p \in Node, NEW r \in finished'[p]
        PROVE  LockQuorum(r, p)' /\ \A q \in Rounds : q < r[2] => FinishQuorum(<<r[1], q>>)'
    <3>1. LockQuorum(r, p) /\ \A q \in Rounds : q < r[2] => FinishQuorum(<<r[1], q>>)
          BY Zenon, <1>1, <2>2, FinishBelow DEF RoundInv, Below
    <3>2. QED BY Zenon, <3>1, PastKept
  <2>4. QED BY Zenon, <2>3 DEF Below, LockQuorum, FinishQuorum, Quorate, Finishers
<1>6. QED BY Zenon, <1>2, <1>3, <1>4, <1>5 DEF RoundInv

\* At the start there are only proposals of round 0.
LEMMA InitRounds == Init => RoundInv
<1> SUFFICES ASSUME Init PROVE RoundInv
    OBVIOUS
<1>1. ASSUME NEW a \in Node, NEW x \in On(log[a]) PROVE Caused(a, x)
  <2> DEFINE P == Proposal(generatorBlock(a, 0), 0, 0)
  <2>1. log[a] = <<>> \/ log[a] = <<P>>
        BY DEF Init, FirstProposal
  <2>2. On(<<>>) = {} /\ On(<<P>>) = {P}
        BY Zenon, OnSmall
  <2> HIDE DEF P
  <2>3. x = P
        BY Zenon, <2>1, <2>2
  <2>4. x.type = "proposal" /\ x.er[2] = 0
        BY <2>3 DEF P, Proposal
  <2>5. QED BY <2>4 DEF Caused
<1>2. NoCounted
      BY DEF Init, NoCounted, Flag
<1>3. OwnProposed /\ Below
      BY Zenon DEF Init, OwnProposed, Below
<1>4. QED BY ZenonT(30), <1>1, <1>2, <1>3 DEF RoundInv, LogCaused

\* Every step keeps RoundInv.
LEMMA NextRounds ==
    /\ IInv /\ CoinInv /\ SupportInv /\ LogInv /\ RoundInv /\ [Next]_vars => RoundInv'
<1> SUFFICES ASSUME IInv, CoinInv, SupportInv, LogInv, RoundInv, [Next]_vars PROVE RoundInv'
    OBVIOUS
<1>1. Active \subseteq Node /\ Grows
      BY Zenon, NextGrows DEF Active
<1>2. IInv'
      BY Zenon, NextIInv
<1>3. PICK n \in Node : TRUE
      BY Zenon, CommitteeAssumption
<1>4. CASE UNCHANGED vars
      BY Zenon, <1>1, <1>2, <1>3, <1>4, BesideRounds
<1>5. QED BY ZenonT(30), <1>1, <1>2, <1>4, HandlerRounds, BesideRounds, FinishRounds DEF Next

=============================================================================
