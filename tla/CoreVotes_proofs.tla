-------------------------- MODULE CoreVotes_proofs --------------------------
(***************************************************************************)
(* All nodes count the same FinVote of an author, for every committee,    *)
(* coin, number of epochs and rounds and set of late payloads.  An author *)
(* may send a no and then a yes; links are FIFO, the aggregator keeps the *)
(* first vote, and a node that drops the first as too old drops the       *)
(* second as well, since its epoch never goes back.                        *)
(*                                                                         *)
(* From this and from what stands behind the messages of a round follows  *)
(* that the Halts of an epoch name one block, whatever their rounds.       *)
(***************************************************************************)
EXTENDS CoreCoin_proofs

IsVote(x, er, f) == x.type = "finvote" /\ x.er = er /\ x.flag = f

\* Sequence s has a FinVote of round er with flag f.
Cast(s, er, f) == \E k \in 1..Len(s) : IsVote(s[k], er, f)

\* In s the no FinVotes of a round come before the yes FinVotes.
NoFirst(s, er) ==
    \A j, k \in 1..Len(s) : IsVote(s[j], er, "no") /\ IsVote(s[k], er, "yes") => j < k

\* Links: cursors are within the logs, a no is sent before a yes, and what is
\* on RecvChannel has been sent to the others as well.
LinksInv ==
    /\ \A n, a \in Node : cur[n][a] <= Len(log[a])
    /\ \A a \in Node, er \in ER :
          /\ NoFirst(log[a], er) /\ NoFirst(self[a], er)
          /\ \A f \in Flag : Cast(self[a], er, f) => Cast(log[a], er, f)

\* A yes FinVote follows a yes prevote, after which no more no is sent.
YesHasPrevote ==
    \A a \in Node, er \in ER :
        Cast(log[a], er, "yes") => prevotes[a][er]["yes"] # {}

\* What a node has taken and not found too old, it has counted.
SeenCounted ==
    \A a \in Node, er \in ER :
        /\ er[1] >= Epoch[a] /\ Cast(log[a], er, "no") =>
              Cast(self[a], er, "no") \/ a \in Voters(finvotes[a][er])
        /\ \A n \in Node \ {a}, k \in 1..Len(log[a]), f \in Flag :
              k <= cur[n][a] /\ er[1] >= Epoch[n] /\ IsVote(log[a][k], er, f) =>
                  a \in Voters(finvotes[n][er])

\* What a node counts for an author is the first vote the author sent.
FirstCounted ==
    \A n, a \in Node, er \in ER :
        /\ a \in finvotes[n][er]["yes"] =>
              Cast(log[a], er, "yes") /\ ~Cast(log[a], er, "no")
        /\ a \in finvotes[n][er]["no"] => Cast(log[a], er, "no")

VotesInv == LinksInv /\ YesHasPrevote /\ SeenCounted /\ FirstCounted

-----------------------------------------------------------------------------
(* Votes in sequences. *)

\* The votes of a concatenation.
LEMMA CastConcat ==
    ASSUME NEW s \in Seq(Message), NEW t \in Seq(Message), NEW er, NEW f
    PROVE  Cast(s \o t, er, f) <=> Cast(s, er, f) \/ Cast(t, er, f)
<1>1. /\ Len(s) \in Nat /\ Len(t) \in Nat /\ Len(s \o t) = Len(s) + Len(t)
      /\ \A i \in 1..(Len(s) + Len(t)) :
            (s \o t)[i] = IF i <= Len(s) THEN s[i] ELSE t[i - Len(s)]
      BY SeqLength, SeqConcat
<1>2. \A i \in 1..Len(s) : i \in 1..(Len(s) + Len(t)) /\ (s \o t)[i] = s[i]
      BY <1>1
<1>3. \A i \in 1..Len(t) : Len(s) + i \in 1..(Len(s) + Len(t)) /\ (s \o t)[Len(s) + i] = t[i]
      BY <1>1
<1>4. \A i \in 1..(Len(s) + Len(t)) :
          (i \in 1..Len(s) /\ (s \o t)[i] = s[i])
          \/ (i - Len(s) \in 1..Len(t) /\ (s \o t)[i] = t[i - Len(s)])
      BY <1>1
<1>5. QED BY <1>1, <1>2, <1>3, <1>4 DEF Cast

\* The votes of a sequence are its first message and the rest.
LEMMA CastTail ==
    ASSUME NEW s \in Seq(Message), s # <<>>, NEW er, NEW f
    PROVE  Cast(s, er, f) <=> IsVote(Head(s), er, f) \/ Cast(Tail(s), er, f)
<1>1. /\ Len(s) \in Nat /\ Len(s) # 0 /\ Head(s) = s[1]
      /\ Len(Tail(s)) = Len(s) - 1 /\ \A i \in 1..Len(Tail(s)) : Tail(s)[i] = s[i + 1]
      BY SeqHeadTail, SeqLength, EmptyIsSeq
<1>2. \A i \in 1..Len(s) : i = 1 \/ (i - 1 \in 1..Len(Tail(s)) /\ Tail(s)[i - 1] = s[i])
      BY <1>1
<1>3. \A i \in 1..Len(Tail(s)) : i + 1 \in 1..Len(s) /\ Tail(s)[i] = s[i + 1]
      BY <1>1
<1>4. 1 \in 1..Len(s)
      BY <1>1
<1>5. QED BY <1>1, <1>2, <1>3, <1>4 DEF Cast

\* The order of votes in a concatenation.
LEMMA NoFirstConcat ==
    ASSUME NEW s \in Seq(Message), NEW t \in Seq(Message), NEW er,
           NoFirst(s, er), NoFirst(t, er), Cast(t, er, "no") => ~Cast(s, er, "yes")
    PROVE  NoFirst(s \o t, er)
<1>1. /\ Len(s) \in Nat /\ Len(t) \in Nat /\ Len(s \o t) = Len(s) + Len(t)
      /\ \A i \in 1..(Len(s) + Len(t)) :
            (s \o t)[i] = IF i <= Len(s) THEN s[i] ELSE t[i - Len(s)]
      BY SeqLength, SeqConcat
<1>2. \A i \in 1..(Len(s) + Len(t)) :
          (i \in 1..Len(s) /\ (s \o t)[i] = s[i])
          \/ (i - Len(s) \in 1..Len(t) /\ (s \o t)[i] = t[i - Len(s)])
      BY <1>1
<1> SUFFICES ASSUME NEW j \in 1..(Len(s) + Len(t)), NEW k \in 1..(Len(s) + Len(t)),
                    IsVote((s \o t)[j], er, "no"), IsVote((s \o t)[k], er, "yes")
             PROVE  j < k
    BY <1>1 DEF NoFirst
<1>3. CASE j \in 1..Len(s) /\ k \in 1..Len(s)
      BY <1>1, <1>3 DEF NoFirst
<1>4. CASE j \in 1..Len(s) /\ k \notin 1..Len(s)
      BY <1>1, <1>4
<1>5. CASE j \notin 1..Len(s) /\ k \in 1..Len(s)
  <2>1. j - Len(s) \in 1..Len(t) /\ IsVote(t[j - Len(s)], er, "no")
        BY <1>2, <1>5
  <2>2. IsVote(s[k], er, "yes")
        BY <1>1, <1>5
  <2>3. QED BY <1>5, <2>1, <2>2 DEF Cast
<1>6. CASE j \notin 1..Len(s) /\ k \notin 1..Len(s)
  <2>1. /\ j - Len(s) \in 1..Len(t) /\ IsVote(t[j - Len(s)], er, "no")
        /\ k - Len(s) \in 1..Len(t) /\ IsVote(t[k - Len(s)], er, "yes")
        BY <1>2, <1>6
  <2>2. j - Len(s) < k - Len(s)
        BY <2>1 DEF NoFirst
  <2>3. QED BY <1>1, <2>2
<1>7. QED BY <1>3, <1>4, <1>5, <1>6

\* ... and in the rest of a sequence.
LEMMA NoFirstTail ==
    ASSUME NEW s \in Seq(Message), s # <<>>, NEW er, NoFirst(s, er)
    PROVE  NoFirst(Tail(s), er)
<1>1. /\ Len(s) \in Nat /\ Len(Tail(s)) = Len(s) - 1
      /\ \A i \in 1..Len(Tail(s)) : Tail(s)[i] = s[i + 1]
      BY SeqHeadTail, SeqLength
<1>2. \A i \in 1..Len(Tail(s)) : i + 1 \in 1..Len(s) /\ Tail(s)[i] = s[i + 1]
      BY <1>1
<1> SUFFICES ASSUME NEW j \in 1..Len(Tail(s)), NEW k \in 1..Len(Tail(s)),
                    IsVote(Tail(s)[j], er, "no"), IsVote(Tail(s)[k], er, "yes")
             PROVE  j < k
    BY DEF NoFirst
<1>3. j + 1 < k + 1
      BY <1>2 DEF NoFirst
<1>4. QED BY <1>1, <1>3

-----------------------------------------------------------------------------
(* Taking a message and sending messages. *)

\* Cases of TakeAndSend.
LEMMA TakeAndSendValues ==
    ASSUME TypeOK, NEW n \in Node, NEW m \in Node, NEW out, TakeAndSend(n, m, out)
    PROVE  /\ \A a \in Node : log'[a] = IF a = n THEN log[n] \o out ELSE log[a]
           /\ \A a \in Node : self'[a] =
                 IF a = n THEN (IF m = n THEN Tail(self[n]) ELSE self[n]) \o out ELSE self[a]
           /\ \A a, b \in Node : cur'[a][b] =
                 IF a = n /\ b = m /\ m # n THEN cur[n][m] + 1 ELSE cur[a][b]
<1>1. /\ log \in [Node -> Seq(Message)] /\ self \in [Node -> Seq(Message)]
      /\ cur \in [Node -> [Node -> Nat]]
      BY DEF TypeOK
<1>2. QED BY Zenon, <1>1 DEF TakeAndSend

\* The next message of an author, if a vote, is one it has sent; and if it is
\* a yes that would be counted, the author has not sent a no.
LEMMA TakenVote ==
    ASSUME IInv, VotesInv, NEW n \in Node, NEW m \in Node, HasNext(n, m),
           NEW er \in ER, NEW f \in Flag, IsVote(NextFrom(n, m), er, f)
    PROVE  /\ Cast(log[m], er, f)
           /\ f = "yes" /\ er[1] >= Epoch[n] /\ m \notin Voters(finvotes[n][er]) =>
                 ~Cast(log[m], er, "no")
<1>1. CASE m = n
  <2>1. /\ self[n] \in Seq(Message) /\ self[n] # <<>> /\ Head(self[n]) = self[n][1]
        /\ 1 \in 1..Len(self[n]) /\ IsVote(self[n][1], er, f)
    <3>1. self[n] \in Seq(Message) /\ self[n] # <<>>
          BY <1>1 DEF IInv, TypeOK, HasNext
    <3>2. QED BY <1>1, <3>1 DEF NextFrom
  <2>2. Cast(self[n], er, f)
        BY <2>1 DEF Cast
  <2>3. Cast(log[n], er, f)
        BY <2>2 DEF VotesInv, LinksInv
  <2>4. ASSUME f = "yes" PROVE ~Cast(self[n], er, "no")
        BY <2>1, <2>4 DEF Cast, NoFirst, VotesInv, LinksInv
  <2>5. QED BY <1>1, <2>3, <2>4 DEF VotesInv, SeenCounted
<1>2. CASE m # n
  <2>1. /\ log[m] \in Seq(Message) /\ Len(log[m]) \in Nat /\ cur[n][m] \in Nat
        /\ cur[n][m] < Len(log[m]) /\ IsVote(log[m][cur[n][m] + 1], er, f)
        BY <1>2, SeqLength DEF IInv, TypeOK, HasNext, NextFrom
  <2>2. cur[n][m] + 1 \in 1..Len(log[m])
        BY <2>1
  <2>3. Cast(log[m], er, f)
        BY <2>1, <2>2 DEF Cast
  <2>4. ASSUME f = "yes", er[1] >= Epoch[n], m \notin Voters(finvotes[n][er]),
               NEW j \in 1..Len(log[m]), IsVote(log[m][j], er, "no")
        PROVE  FALSE
    <3>1. j < cur[n][m] + 1
          BY <2>1, <2>2, <2>4 DEF VotesInv, LinksInv, NoFirst
    <3>2. j <= cur[n][m]
          BY <2>1, <3>1
    <3>3. QED BY <1>2, <2>4, <3>2 DEF VotesInv, SeenCounted, Flag
  <2>5. QED BY <2>3, <2>4 DEF Cast
<1>3. QED BY <1>1, <1>2

\* What a handler may send: votes in order, and no no after a yes.
Sends(n, out) ==
    \A er \in ER : /\ NoFirst(out, er)
                   /\ Cast(out, er, "no") => ~Cast(log[n], er, "yes")

\* Votes in the logs and queues after a step.
LEMMA CastAfter ==
    ASSUME IInv, NEW n \in Node, NEW m \in Node, HasNext(n, m), NEW out \in Seq(Message),
           TakeAndSend(n, m, out), NEW er, NEW f
    PROVE  /\ \A a \in Node : Cast(log'[a], er, f) <=>
                  Cast(log[a], er, f) \/ (a = n /\ Cast(out, er, f))
           /\ \A a \in Node : Cast(self'[a], er, f) =>
                  Cast(self[a], er, f) \/ (a = n /\ Cast(out, er, f))
           /\ \A a \in Node : Cast(self[a], er, f) \/ (a = n /\ Cast(out, er, f)) =>
                  \/ Cast(self'[a], er, f)
                  \/ a = n /\ m = n /\ IsVote(NextFrom(n, n), er, f)
<1> DEFINE rest == IF m = n THEN Tail(self[n]) ELSE self[n]
<1>1. log[n] \in Seq(Message) /\ self[n] \in Seq(Message)
      BY DEF IInv, TypeOK
<1>2. /\ \A a \in Node : log'[a] = IF a = n THEN log[n] \o out ELSE log[a]
      /\ \A a \in Node : self'[a] = IF a = n THEN rest \o out ELSE self[a]
      BY TakeAndSendValues DEF IInv
<1>3. Cast(log[n] \o out, er, f) <=> Cast(log[n], er, f) \/ Cast(out, er, f)
      BY <1>1, CastConcat
<1>4. /\ rest \in Seq(Message)
      /\ Cast(rest, er, f) => Cast(self[n], er, f)
      /\ Cast(self[n], er, f) => Cast(rest, er, f) \/ (m = n /\ IsVote(NextFrom(n, n), er, f))
  <2>1. CASE m = n
    <3>1. self[n] # <<>> /\ NextFrom(n, n) = Head(self[n])
          BY <2>1 DEF HasNext, NextFrom
    <3>2. Tail(self[n]) \in Seq(Message)
          BY <1>1, <3>1, SeqHeadTail
    <3>3. QED BY <1>1, <2>1, <3>1, <3>2, CastTail
  <2>2. CASE m # n
        BY <1>1, <2>2
  <2>3. QED BY <2>1, <2>2
<1> HIDE DEF rest
<1>5. Cast(rest \o out, er, f) <=> Cast(rest, er, f) \/ Cast(out, er, f)
      BY <1>4, CastConcat
<1>6. QED BY <1>2, <1>3, <1>4, <1>5

\* The links after a step.
LEMMA LinksStep ==
    ASSUME IInv, LinksInv, NEW n \in Node, NEW m \in Node, HasNext(n, m),
           NEW out \in Seq(Message), TakeAndSend(n, m, out), Sends(n, out)
    PROVE  LinksInv'
<1> DEFINE rest == IF m = n THEN Tail(self[n]) ELSE self[n]
<1>1. log[n] \in Seq(Message) /\ self[n] \in Seq(Message)
      BY DEF IInv, TypeOK
<1>2. /\ \A a \in Node : log'[a] = IF a = n THEN log[n] \o out ELSE log[a]
      /\ \A a \in Node : self'[a] = IF a = n THEN rest \o out ELSE self[a]
      /\ \A a, b \in Node : cur'[a][b] =
            IF a = n /\ b = m /\ m # n THEN cur[n][m] + 1 ELSE cur[a][b]
  <2>1. TypeOK
        BY DEF IInv
  <2>2. QED BY <2>1, TakeAndSendValues, SMTT(20)
<1>3. ASSUME NEW a \in Node, NEW b \in Node PROVE cur'[a][b] <= Len(log'[b])
  <2>1. /\ Len(log[b]) \in Nat /\ Len(log[b]) <= Len(log'[b]) /\ Len(log'[b]) \in Nat
    <3>1. log[b] \in Seq(Message)
          BY DEF IInv, TypeOK
    <3>2. Len(log[b]) \in Nat /\ Len(out) \in Nat
          BY <3>1, SeqLength
    <3>3. Len(log'[b]) = IF b = n THEN Len(log[b]) + Len(out) ELSE Len(log[b])
      <4>1. Len(log[n] \o out) = Len(log[n]) + Len(out)
            BY <1>1, SeqConcat
      <4> HIDE DEF rest
      <4>2. QED BY Zenon, <1>2, <4>1
    <3>4. QED BY <3>2, <3>3
  <2>2. cur[a][b] \in Nat /\ cur[a][b] <= Len(log[b])
        BY DEF IInv, TypeOK, LinksInv
  <2>3. a = n /\ b = m /\ m # n => cur[n][m] < Len(log[m])
        BY DEF HasNext
  <2>4. QED BY <1>2, <2>1, <2>2, <2>3, SMTT(20)
<1>4. ASSUME NEW er \in ER
      PROVE  NoFirst(log[n] \o out, er) /\ NoFirst(rest \o out, er)
  <2>1. /\ NoFirst(out, er)
        /\ Cast(out, er, "no") => ~Cast(log[n], er, "yes")
        /\ NoFirst(log[n], er) /\ NoFirst(self[n], er)
        /\ Cast(self[n], er, "yes") => Cast(log[n], er, "yes")
        BY DEF Sends, LinksInv, Flag
  <2>2. /\ rest \in Seq(Message) /\ NoFirst(rest, er)
        /\ Cast(rest, er, "yes") => Cast(self[n], er, "yes")
    <3>1. CASE m = n
      <4>1. self[n] # <<>>
            BY <3>1 DEF HasNext
      <4>2. Tail(self[n]) \in Seq(Message)
            BY <1>1, <4>1, SeqHeadTail
      <4>3. QED BY ZenonT(60), <1>1, <2>1, <3>1, <4>1, <4>2, NoFirstTail, CastTail
    <3>2. CASE m # n
          BY <1>1, <2>1, <3>2
    <3>3. QED BY <3>1, <3>2
  <2> HIDE DEF rest
  <2>3. NoFirst(log[n] \o out, er)
        BY <1>1, <2>1, NoFirstConcat
  <2>4. NoFirst(rest \o out, er)
        BY <2>1, <2>2, NoFirstConcat
  <2>5. QED BY <2>3, <2>4
<1>5. ASSUME NEW a \in Node, NEW er \in ER
      PROVE  NoFirst(log'[a], er) /\ NoFirst(self'[a], er)
  <2> HIDE DEF rest
  <2>1. QED BY <1>2, <1>4 DEF LinksInv
<1>6. ASSUME NEW a \in Node, NEW er \in ER, NEW f \in Flag, Cast(self'[a], er, f)
      PROVE  Cast(log'[a], er, f)
      BY <1>6, CastAfter DEF LinksInv
<1>7. QED BY <1>3, <1>5, <1>6 DEF LinksInv, NoFirst, Cast

\* The counts of a step: at most the vote just taken is added, if its author
\* is new and its epoch is not over, and such a vote is added.
Counts(n, m) ==
    /\ \A a \in Node : Epoch[a] <= Epoch'[a]
    /\ \A a \in Node, er \in ER, f \in Flag : finvotes[a][er][f] \subseteq finvotes'[a][er][f]
    /\ \A a, b \in Node, er \in ER, f \in Flag :
          b \in finvotes'[a][er][f] /\ b \notin finvotes[a][er][f] =>
              /\ a = n /\ b = m /\ IsVote(NextFrom(n, m), er, f)
              /\ m \notin Voters(finvotes[n][er]) /\ er[1] >= Epoch[n]
    /\ \A er \in ER, f \in Flag :
          IsVote(NextFrom(n, m), er, f) /\ er[1] >= Epoch'[n] =>
              m \in Voters(finvotes'[n][er])

\* FirstCounted after a step.
LEMMA FirstStep ==
    ASSUME IInv, VotesInv, NEW n \in Node, NEW m \in Node, HasNext(n, m),
           NEW out \in Seq(Message), TakeAndSend(n, m, out), Sends(n, out), Counts(n, m)
    PROVE  FirstCounted'
<1> SUFFICES ASSUME NEW c \in Node, NEW a \in Node, NEW er \in ER
             PROVE  /\ a \in finvotes'[c][er]["yes"] =>
                          Cast(log'[a], er, "yes") /\ ~Cast(log'[a], er, "no")
                    /\ a \in finvotes'[c][er]["no"] => Cast(log'[a], er, "no")
    BY DEF FirstCounted, Cast
<1>1. ASSUME NEW f \in Flag
      PROVE  Cast(log'[a], er, f) <=> Cast(log[a], er, f) \/ (a = n /\ Cast(out, er, f))
      BY CastAfter
<1>2. a \in finvotes'[c][er]["no"] => Cast(log[a], er, "no")
  <2>1. CASE a \in finvotes[c][er]["no"]
        BY <2>1 DEF VotesInv, FirstCounted
  <2>2. CASE a \in finvotes'[c][er]["no"] /\ a \notin finvotes[c][er]["no"]
    <3>1. c = n /\ a = m /\ IsVote(NextFrom(n, m), er, "no")
          BY <2>2 DEF Counts, Flag
    <3>2. QED BY <3>1, TakenVote DEF Flag
  <2>3. QED BY <2>1, <2>2
<1>3. a \in finvotes'[c][er]["yes"] => Cast(log[a], er, "yes") /\ ~Cast(log[a], er, "no")
  <2>1. CASE a \in finvotes[c][er]["yes"]
        BY <2>1 DEF VotesInv, FirstCounted
  <2>2. CASE a \in finvotes'[c][er]["yes"] /\ a \notin finvotes[c][er]["yes"]
    <3>1. /\ c = n /\ a = m /\ IsVote(NextFrom(n, m), er, "yes")
          /\ m \notin Voters(finvotes[n][er]) /\ er[1] >= Epoch[n]
          BY <2>2 DEF Counts, Flag
    <3>2. QED BY <3>1, TakenVote DEF Flag
  <2>3. QED BY <2>1, <2>2
<1>4. QED BY <1>1, <1>2, <1>3 DEF Sends, Flag

\* SeenCounted after a step.
LEMMA SeenStep ==
    ASSUME IInv, VotesInv, NEW n \in Node, NEW m \in Node, HasNext(n, m),
           NEW out \in Seq(Message), TakeAndSend(n, m, out), Counts(n, m), TypeOK'
    PROVE  SeenCounted'
<1>1. \A c \in Node, er \in ER : Voters(finvotes[c][er]) \subseteq Voters(finvotes'[c][er])
      BY DEF Counts, Voters, Flag
<1>2. \A c \in Node, er \in ER : er[1] >= Epoch'[c] => er[1] >= Epoch[c]
  <2>1. \A c \in Node : Epoch[c] \in Int /\ Epoch'[c] \in Int /\ Epoch[c] <= Epoch'[c]
        BY CoreAssumption DEF IInv, TypeOK, Counts
  <2>2. \A er \in ER : er[1] \in Int
        BY CoreAssumption DEF ER, Epochs
  <2>3. QED BY <2>1, <2>2
<1>3. ASSUME NEW a \in Node, NEW er \in ER, er[1] >= Epoch'[a], Cast(log'[a], er, "no")
      PROVE  Cast(self'[a], er, "no") \/ a \in Voters(finvotes'[a][er])
  <2>1. Cast(log[a], er, "no") \/ (a = n /\ Cast(out, er, "no"))
        BY <1>3, CastAfter
  <2>2. \/ Cast(self[a], er, "no") \/ (a = n /\ Cast(out, er, "no"))
        \/ a \in Voters(finvotes[a][er])
        BY ZenonT(60), <1>2, <1>3, <2>1 DEF VotesInv, SeenCounted
  <2>3. CASE Cast(self[a], er, "no") \/ (a = n /\ Cast(out, er, "no"))
    <3>1. Cast(self'[a], er, "no") \/ (a = n /\ m = n /\ IsVote(NextFrom(n, n), er, "no"))
          BY <2>3, CastAfter
    <3>2. QED BY <1>3, <3>1 DEF Counts, Flag
  <2>4. CASE a \in Voters(finvotes[a][er])
        BY <1>1, <2>4
  <2>5. QED BY ZenonT(60), <2>2, <2>3, <2>4
<1>4. ASSUME NEW a \in Node, NEW er \in ER, NEW c \in Node \ {a},
             NEW k \in 1..Len(log'[a]), NEW f \in Flag,
             k <= cur'[c][a], er[1] >= Epoch'[c], IsVote(log'[a][k], er, f)
      PROVE  a \in Voters(finvotes'[c][er])
  <2>1. /\ log[a] \in Seq(Message) /\ Len(log[a]) \in Nat /\ cur[c][a] \in Nat
        /\ cur[c][a] <= Len(log[a]) /\ k \in Nat /\ k >= 1
    <3>1. log[a] \in Seq(Message) /\ log'[a] \in Seq(Message)
          BY DEF IInv, TypeOK
    <3>2. Len(log[a]) \in Nat /\ Len(log'[a]) \in Nat
          BY ZenonT(60), <3>1, SeqLength
    <3>3. cur[c][a] \in Nat /\ cur[c][a] <= Len(log[a])
          BY DEF IInv, TypeOK, VotesInv, LinksInv
    <3>4. QED BY <3>1, <3>2, <3>3
  <2>2. /\ log'[a] = IF a = n THEN log[n] \o out ELSE log[a]
        /\ cur'[c][a] = IF c = n /\ a = m /\ m # n THEN cur[n][m] + 1 ELSE cur[c][a]
        BY TakeAndSendValues DEF IInv
  <2>3. CASE k <= cur[c][a]
    <3>1. k \in 1..Len(log[a])
          BY <2>1, <2>3
    <3>2. log'[a][k] = log[a][k]
      <4>1. CASE a = n
        <5>1. /\ Len(out) \in Nat
              /\ \A i \in 1..(Len(log[n]) + Len(out)) :
                    (log[n] \o out)[i] =
                        IF i <= Len(log[n]) THEN log[n][i] ELSE out[i - Len(log[n])]
              BY <2>1, <4>1, SeqLength, SeqConcat
        <5>2. QED BY <2>1, <2>2, <3>1, <4>1, <5>1
      <4>2. CASE a # n
            BY <2>2, <4>2
      <4>3. QED BY <4>1, <4>2
    <3>3. a \in Voters(finvotes[c][er])
          BY ZenonT(60), <1>2, <1>4, <2>3, <3>1, <3>2 DEF VotesInv, SeenCounted
    <3>4. QED BY <1>1, <3>3
  <2>4. CASE ~(k <= cur[c][a])
    <3>1. c = n /\ a = m /\ m # n /\ k = cur[n][m] + 1
          BY <1>4, <2>1, <2>2, <2>4
    <3>2. log'[a][k] = NextFrom(n, m)
          BY <2>2, <3>1 DEF NextFrom
    <3>3. QED BY ZenonT(60), <1>4, <3>1, <3>2 DEF Counts
  <2>5. QED BY <2>3, <2>4
<1>5. QED BY <1>3, <1>4 DEF SeenCounted, Cast, IsVote, Voters

\* YesHasPrevote after a step.
LEMMA YesStep ==
    ASSUME IInv, VotesInv, NEW n \in Node, NEW m \in Node, HasNext(n, m),
           NEW out \in Seq(Message), TakeAndSend(n, m, out),
           \A er \in ER : Cast(out, er, "yes") => prevotes'[n][er]["yes"] # {},
           \A a \in Node, er \in ER :
               prevotes[a][er]["yes"] # {} => prevotes'[a][er]["yes"] # {}
    PROVE  YesHasPrevote'
<1>1. ASSUME NEW a \in Node, NEW er \in ER, Cast(log'[a], er, "yes")
      PROVE  prevotes'[a][er]["yes"] # {}
      BY <1>1, CastAfter, SMTT(20) DEF VotesInv, YesHasPrevote
<1>2. QED BY <1>1 DEF YesHasPrevote, Cast

NoVotes(out) == \A k \in 1..Len(out) : out[k].type # "finvote"

\* The handlers that neither send a FinVote nor count one.
LEMMA OtherStep ==
    ASSUME IInv, TypeOK', VotesInv, NEW n \in Node, NEW m \in Node, HasNext(n, m),
           NEW out \in Seq(Message), TakeAndSend(n, m, out),
           NoVotes(out),
           NextFrom(n, m).type # "finvote" \/ messgaeFilter(n, NextFrom(n, m).er[1]),
           prevotes' = prevotes, finvotes' = finvotes,
           \A a \in Node : Epoch[a] <= Epoch'[a]
    PROVE  VotesInv'
<1>1. \A er, f : ~Cast(out, er, f)
      BY SMTT(60) DEF Cast, IsVote, NoVotes
<1>2. Sends(n, out)
      BY ZenonT(60), <1>1 DEF Sends, NoFirst, Cast
<1>3. Counts(n, m)
  <2>1. ASSUME NEW er \in ER, NEW f \in Flag, IsVote(NextFrom(n, m), er, f),
               er[1] >= Epoch'[n]
        PROVE  FALSE
    <3>1. er[1] < Epoch[n]
          BY <2>1 DEF IsVote, messgaeFilter
    <3>2. er[1] \in Int /\ Epoch[n] \in Int /\ Epoch'[n] \in Int
      <4>1. er[1] \in Int
            BY SMTT(60), CoreAssumption DEF ER, Epochs
      <4>2. /\ Epoch \in [Node -> 0..(MaxEpoch + 1)]
            /\ Epoch' \in [Node -> 0..(MaxEpoch + 1)]
            BY ZenonT(60) DEF IInv, TypeOK
      <4>3. QED BY <4>1, <4>2
    <3>3. QED BY <2>1, <3>1, <3>2
  <2>2. QED BY ZenonT(60), <2>1 DEF Counts
<1>4. LinksInv'
      BY ZenonT(60), <1>2, LinksStep DEF VotesInv
<1>5. YesHasPrevote'
      BY <1>1, YesStep
<1>6. QED BY ZenonT(60), <1>2, <1>3, <1>4, <1>5, SeenStep, FirstStep DEF VotesInv

-----------------------------------------------------------------------------
(* The actions. *)

\* Only handlePrevote sends FinVotes.
LEMMA NoVotesSent ==
    ASSUME NEW n, NEW m, ~handlePrevote(n, m), NEW out \in Seq(Message),
           \A x \in On(out) : NewMessage(n, m, x)
    PROVE  NoVotes(out)
<1>1. \A k \in 1..Len(out) : out[k] \in On(out)
      BY Zenon DEF On
<1>2. QED BY Zenon, <1>1, NewMessageKinds DEF NoVotes

\* A node that does not change epoch keeps it.
LEMMA SameEpoch == TypeOK /\ Epoch' = Epoch => \A a \in Node : Epoch[a] <= Epoch'[a]
<1> SUFFICES ASSUME TypeOK, Epoch' = Epoch, NEW a \in Node PROVE Epoch[a] <= Epoch'[a]
    OBVIOUS
<1>1. Epoch[a] \in Int
      BY CoreAssumption DEF TypeOK
<1>2. QED BY <1>1

\* A node that does not change epoch keeps it, and one that takes a Halt moves on.
LEMMA EpochsKept ==
    ASSUME TypeOK, NEW n \in Node, NEW e \in Nat,
           Epoch' = Epoch \/ (~messgaeFilter(n, e) /\ Epoch' = [Epoch EXCEPT ![n] = e + 1])
    PROVE  \A a \in Node : Epoch[a] <= Epoch'[a]
<1>1. Epoch \in [Node -> 0..(MaxEpoch + 1)]
      BY Zenon DEF TypeOK
<1>2. Epoch \in [Node -> Nat]
      BY <1>1, CoreAssumption
<1>3. QED BY <1>2 DEF messgaeFilter

\* The handlers other than those of the votes.
LEMMA OtherVotes ==
    ASSUME IInv, IInv', VotesInv, NEW n \in Node, NEW m \in Node, Handle(n, m),
           ~handlePrevote(n, m), ~handleFinvote(n, m)
    PROVE  VotesInv'
<1>1. PICK y : y = NextFrom(n, m)
      OBVIOUS
<1>2. HasNext(n, m)
      BY Zenon, HandlerSends
<1>3. PICK out \in Seq(Message) : TakeAndSend(n, m, out) /\ \A x \in On(out) : NewMessage(n, m, x)
      BY Zenon, HandlerSends
<1>4. /\ prevotes' = prevotes /\ finvotes' = finvotes
      /\ y.type # "finvote" \/ messgaeFilter(n, y.er[1])
  <2>1. \/ messgaeFilter(n, y.er[1])
        \/ y.type \in {"proposal", "finish", "done", "share", "halt"}
        BY ZenonT(60), <1>1 DEF Handle, Discard, handleSpbProposal, handleFinish, handleDone,
           handleElectShare, handleHalt, Receive
  <2>2. prevotes' = prevotes /\ finvotes' = finvotes
        BY ZenonT(60) DEF Handle, Discard, handleSpbProposal, handleFinish, handleDone,
           handleElectShare, handleHalt, voteVars
  <2>3. QED BY <2>1, <2>2
<1>5. y.er[1] \in Nat
  <2>1. y.er[1] \in Epochs
        BY Zenon, <1>1, <1>2, NextFromType, MessageFields DEF IInv
  <2>2. QED BY <2>1, CoreAssumption DEF Epochs
<1>6. \/ Epoch' = Epoch
      \/ ~messgaeFilter(n, y.er[1]) /\ Epoch' = [Epoch EXCEPT ![n] = y.er[1] + 1]
      BY ZenonT(60), <1>1 DEF Handle, Discard, handleSpbProposal, handleFinish, handleDone,
         handleElectShare, handleHalt, Receive
<1>7. TypeOK /\ TypeOK' /\ \A a \in Node : Epoch[a] <= Epoch'[a]
      BY Zenon, <1>5, <1>6, EpochsKept DEF IInv
<1>8. QED BY ZenonT(30), <1>1, <1>2, <1>3, <1>4, <1>7, NoVotesSent, OtherStep

\* What AddVote does to an aggregator.
LEMMA AddVoteGrows ==
    ASSUME NEW votes \in [Flag -> SUBSET Node], NEW a \in Node, NEW g \in Flag
    PROVE  /\ \A f \in Flag : votes[f] \subseteq AddVote(votes, a, g)[f]
           /\ \A f \in Flag : \A b : b \in AddVote(votes, a, g)[f] /\ b \notin votes[f] =>
                 b = a /\ f = g /\ a \notin Voters(votes)
           /\ a \in Voters(AddVote(votes, a, g))
BY DEF AddVote, Voters, Flag

\* A prevote: a no FinVote is sent only while there is no yes prevote, a yes
\* FinVote with the first one.
LEMMA PrevoteVotes ==
    ASSUME IInv, VotesInv, NEW n \in Node, NEW m \in Node, handlePrevote(n, m)
    PROVE  VotesInv'
<1> DEFINE pv == NextFrom(n, m)
           action == PrevoteAction(prevotes[n][pv.er], m, pv.flag)
           new == AddVote(prevotes[n][pv.er], m, pv.flag)
           v == NewFinVote(pv.leader, pv.er, action, pv.hash)
           out == IF action = "none" THEN <<>> ELSE <<v>>
<1>1. /\ HasNext(n, m) /\ TakeAndSend(n, m, out) /\ pv.type = "prevote"
      /\ Epoch' = Epoch /\ finvotes' = finvotes
      /\ prevotes' = [prevotes EXCEPT ![n][pv.er] = new]
      BY DEF handlePrevote, Receive
<1>2. pv.er \in ER /\ pv.flag \in Flag /\ pv.leader \in Node /\ pv.hash \in Hash
      BY <1>1, NextFromType, MessageFields DEF IInv
<1>3. prevotes \in [Node -> [ER -> [Flag -> SUBSET Node]]]
      /\ prevotes[n][pv.er] \in [Flag -> SUBSET Node]
  <2>1. prevotes \in [Node -> [ER -> [Flag -> SUBSET Node]]]
        BY ZenonT(60) DEF IInv, TypeOK
  <2>2. QED BY <1>2, <2>1
<1>4. /\ action \in Flag \cup {"none"}
      /\ action = "yes" => new["yes"] # {}
      /\ action = "no" => prevotes[n][pv.er]["yes"] = {}
  <2> HIDE DEF pv
  <2>1. action \in Flag \cup {"none"}
        BY DEF PrevoteAction, Flag
  <2>2. action = "yes" => new["yes"] # {}
        BY ZenonT(60), <1>2, <1>3 DEF PrevoteAction, AddVote, Voters, Flag
  <2>3. action = "no" => new["yes"] = {}
        BY DEF PrevoteAction
  <2>4. prevotes[n][pv.er]["yes"] \subseteq new["yes"]
        BY ZenonT(60), <1>2, <1>3, AddVoteGrows DEF Flag
  <2>5. QED BY ZenonT(60), <2>1, <2>2, <2>3, <2>4
<1> HIDE DEF action, new
<1>5. out \in Seq(Message)
  <2>1. CASE action = "none"
        BY <2>1, EmptyIsSeq
  <2>2. CASE action # "none"
    <3>1. v \in Message
          BY ZenonT(60), <1>2, <1>4, <2>2, MessageTypes
    <3>2. QED BY <2>2, <3>1
  <2>3. QED BY <2>1, <2>2
<1>6. /\ Len(out) <= 1 /\ Len(out) \in Nat
      /\ \A er, f : Cast(out, er, f) => er = pv.er /\ f = action
  <2> HIDE DEF pv
  <2>1. QED BY DEF Cast, IsVote, NewFinVote
<1> HIDE DEF out
<1>7. \A a \in Node, er \in ER :
          prevotes'[a][er] = IF a = n /\ er = pv.er THEN new ELSE prevotes[a][er]
  <2> HIDE DEF pv
  <2>1. QED BY <1>1, <1>2, <1>3
<1>8. Sends(n, out)
  <2>1. \A er : NoFirst(out, er)
        BY <1>6 DEF NoFirst, IsVote
  <2>2. ASSUME NEW er \in ER, Cast(out, er, "no") PROVE ~Cast(log[n], er, "yes")
    <3>1. prevotes[n][er]["yes"] = {}
          BY <1>4, <1>6, <2>2
    <3>2. QED BY <3>1 DEF VotesInv, YesHasPrevote
  <2>3. QED BY <2>1, <2>2 DEF Sends
<1>9. Counts(n, m)
      BY <1>1, SameEpoch DEF Counts, IInv, IsVote
<1>10. YesHasPrevote'
  <2>1. \A er \in ER : Cast(out, er, "yes") => prevotes'[n][er]["yes"] # {}
        BY ZenonT(60), <1>4, <1>6, <1>7
  <2>2. new["yes"] # {} \/ prevotes[n][pv.er]["yes"] = {}
    <3>1. prevotes[n][pv.er]["yes"] \subseteq new["yes"]
          BY ZenonT(60), <1>2, <1>3, AddVoteGrows DEF new, Flag
    <3>2. QED BY <3>1
  <2>3. \A a \in Node, er \in ER :
            prevotes[a][er]["yes"] # {} => prevotes'[a][er]["yes"] # {}
        BY <1>7, <2>2
  <2>4. QED BY ZenonT(60), <1>1, <1>5, <2>1, <2>3, YesStep
<1>11. TypeOK'
      BY PrevoteIInv DEF IInv
<1>12. QED BY ZenonT(60), <1>1, <1>5, <1>8, <1>9, <1>10, <1>11, LinksStep, SeenStep, FirstStep
           DEF VotesInv

\* A FinVote of the node's epoch or a later one: counted if the first.
LEMMA FinvoteVotes ==
    ASSUME IInv, VotesInv, NEW n \in Node, NEW m \in Node, handleFinvote(n, m)
    PROVE  VotesInv'
<1> DEFINE fv == NextFrom(n, m)
           new == AddVote(finvotes[n][fv.er], m, fv.flag)
<1>1. /\ HasNext(n, m) /\ fv.type = "finvote"
      /\ ~messgaeFilter(n, fv.er[1]) /\ Epoch' = Epoch /\ prevotes' = prevotes
      /\ finvotes' = [finvotes EXCEPT ![n][fv.er] = new]
      BY Zenon DEF handleFinvote, Receive
<1>2. fv.er \in ER /\ fv.flag \in Flag /\ fv.leader \in Node /\ fv.hash \in Hash
  <2>1. fv \in Message
        BY Zenon, <1>1, NextFromType DEF IInv
  <2> HIDE DEF fv
  <2>2. QED BY Zenon, <1>1, <2>1, MessageFields
<1>3. PICK out \in Seq(Message) : TakeAndSend(n, m, out) /\ NoVotes(out)
  <2>1. ~handlePrevote(n, m) /\ Handle(n, m)
    <3>1. handlePrevote(n, m) => fv.type = "prevote"
          BY Zenon DEF handlePrevote, Receive
    <3>2. QED BY <1>1, <3>1 DEF Handle
  <2>2. QED BY Zenon, <2>1, HandlerSends, NoVotesSent
<1>4. \A er, f : ~Cast(out, er, f)
      BY <1>3 DEF Cast, IsVote, NoVotes
<1>5. Sends(n, out)
      BY Zenon, <1>4 DEF Sends, NoFirst, Cast
<1>6. finvotes \in [Node -> [ER -> [Flag -> SUBSET Node]]]
      /\ finvotes[n][fv.er] \in [Flag -> SUBSET Node]
  <2>1. finvotes \in [Node -> [ER -> [Flag -> SUBSET Node]]]
        BY ZenonT(60) DEF IInv, TypeOK
  <2>2. QED BY <1>2, <2>1
<1>7. /\ \A f \in Flag : finvotes[n][fv.er][f] \subseteq new[f]
      /\ \A f \in Flag : \A b : b \in new[f] /\ b \notin finvotes[n][fv.er][f] =>
            b = m /\ f = fv.flag /\ m \notin Voters(finvotes[n][fv.er])
      /\ m \in Voters(new)
  <2> HIDE DEF fv
  <2>1. QED BY ZenonT(60), <1>2, <1>6, AddVoteGrows
<1>8. \A a \in Node, er \in ER :
          finvotes'[a][er] = IF a = n /\ er = fv.er THEN new ELSE finvotes[a][er]
  <2> HIDE DEF fv, new
  <2>1. QED BY <1>1, <1>2, <1>6
<1>9. fv.er[1] >= Epoch[n]
  <2>1. fv.er[1] \in Int
        BY <1>1, NextFromType, MessageFields, CoreAssumption DEF IInv, Epochs
  <2>2. Epoch[n] \in Int
        BY SMTT(60), CoreAssumption DEF IInv, TypeOK
  <2>3. QED BY <1>1, <2>1, <2>2 DEF messgaeFilter
<1>10. Counts(n, m)
  <2> HIDE DEF new
  <2>1. \A a \in Node : Epoch[a] <= Epoch'[a]
        BY <1>1, SameEpoch DEF IInv
  <2>2. \A a \in Node, er \in ER, f \in Flag : finvotes[a][er][f] \subseteq finvotes'[a][er][f]
        BY <1>7, <1>8
  <2>3. ASSUME NEW a \in Node, NEW b \in Node, NEW er \in ER, NEW f \in Flag,
               b \in finvotes'[a][er][f], b \notin finvotes[a][er][f]
        PROVE  /\ a = n /\ b = m /\ IsVote(fv, er, f)
               /\ m \notin Voters(finvotes[n][er]) /\ er[1] >= Epoch[n]
    <3>1. a = n /\ er = fv.er
          BY ZenonT(60), <1>8, <2>3
    <3>2. QED BY SMTT(60), <1>1, <1>7, <1>8, <1>9, <2>3, <3>1 DEF IsVote
  <2>4. ASSUME NEW er \in ER, NEW f \in Flag, IsVote(fv, er, f)
        PROVE  m \in Voters(finvotes'[n][er])
    <3>1. finvotes'[n][er] = new
          BY <1>8, <2>4 DEF IsVote
    <3>2. QED BY <1>7, <3>1
  <2>5. QED BY ZenonT(60), <2>1, <2>2, <2>3, <2>4 DEF Counts
<1>11. YesHasPrevote'
      BY <1>1, <1>3, <1>4, YesStep
<1>12. TypeOK'
      BY FinvoteIInv DEF IInv
<1>13. QED BY ZenonT(60), <1>1, <1>3, <1>5, <1>10, <1>11, <1>12, LinksStep, SeenStep, FirstStep
           DEF VotesInv

\* A step that changes no vote and adds at most messages that are not votes.
LEMMA QuietVotes ==
    ASSUME IInv, VotesInv, NEW x, x.type # "finvote", NEW n \in Node,
           log' = log \/ log' = [log EXCEPT ![n] = Append(@, x)],
           self' = self \/ self' = [self EXCEPT ![n] = Append(@, x)],
           cur' = cur, Epoch' = Epoch, prevotes' = prevotes, finvotes' = finvotes
    PROVE  VotesInv'
<1>1. ASSUME NEW s \in Seq(Message), NEW t, t = s \/ t = Append(s, x)
      PROVE  /\ Len(s) \in Nat /\ Len(s) <= Len(t)
             /\ \A k \in 1..Len(s) : k \in 1..Len(t) /\ t[k] = s[k]
             /\ \A k \in 1..Len(t) : \A er, f : IsVote(t[k], er, f) => k \in 1..Len(s)
  <2>1. Len(s) \in Nat
        BY SeqLength
  <2>2. CASE t = s
        BY <2>1, <2>2
  <2>3. CASE t = Append(s, x)
    <3>1. /\ Len(t) = Len(s) + 1 /\ t[Len(s) + 1] = x
          /\ \A k \in 1..Len(s) : t[k] = s[k]
          BY <2>3
    <3>2. \A er, f : ~IsVote(t[Len(s) + 1], er, f)
          BY <3>1 DEF IsVote
    <3>3. \A k \in 1..Len(t) : k = Len(s) + 1 \/ k \in 1..Len(s)
          BY <2>1, <3>1
    <3>4. QED BY <2>1, <3>1, <3>2, <3>3
  <2>4. QED BY <1>1, <2>2, <2>3
<1>2. ASSUME NEW s \in Seq(Message), NEW t, t = s \/ t = Append(s, x), NEW er
      PROVE  /\ \A f : Cast(t, er, f) <=> Cast(s, er, f)
             /\ NoFirst(s, er) => NoFirst(t, er)
  <2>1. /\ \A k \in 1..Len(s) : k \in 1..Len(t) /\ t[k] = s[k]
        /\ \A k \in 1..Len(t) : \A f : IsVote(t[k], er, f) => k \in 1..Len(s)
        BY ZenonT(60), <1>1, <1>2
  <2>2. QED BY Zenon, <2>1 DEF Cast, NoFirst
<1>3. \A a \in Node : /\ log[a] \in Seq(Message) /\ self[a] \in Seq(Message)
                      /\ log'[a] = log[a] \/ log'[a] = Append(log[a], x)
                      /\ self'[a] = self[a] \/ self'[a] = Append(self[a], x)
  <2>1. log \in [Node -> Seq(Message)] /\ self \in [Node -> Seq(Message)]
        BY DEF IInv, TypeOK
  <2>2. \A a \in Node : log'[a] = log[a] \/ log'[a] = Append(log[a], x)
        BY <2>1
  <2>3. \A a \in Node : self'[a] = self[a] \/ self'[a] = Append(self[a], x)
        BY <2>1
  <2>4. QED BY ZenonT(60), <2>1, <2>2, <2>3
<1>4. \A a \in Node : \A er, f : /\ Cast(log'[a], er, f) <=> Cast(log[a], er, f)
                                 /\ Cast(self'[a], er, f) <=> Cast(self[a], er, f)
      BY ZenonT(60), <1>2, <1>3
<1>5. LinksInv'
  <2>1. ASSUME NEW c \in Node, NEW a \in Node PROVE cur'[c][a] <= Len(log'[a])
    <3>1. Len(log[a]) \in Nat /\ Len(log[a]) <= Len(log'[a])
          BY <1>1, <1>3
    <3>2. Len(log'[a]) \in Nat
          BY <1>3, <3>1
    <3>3. cur[c][a] \in Nat /\ cur[c][a] <= Len(log[a])
          BY SMTT(60) DEF IInv, TypeOK, VotesInv, LinksInv
    <3>4. QED BY <3>1, <3>2, <3>3
  <2>2. \A a \in Node, er \in ER : NoFirst(log'[a], er) /\ NoFirst(self'[a], er)
        BY Zenon, <1>2, <1>3 DEF VotesInv, LinksInv
  <2>3. \A a \in Node, er \in ER, f \in Flag : Cast(self'[a], er, f) => Cast(log'[a], er, f)
        BY ZenonT(60), <1>4 DEF VotesInv, LinksInv
  <2>4. QED BY ZenonT(60), <2>1, <2>2, <2>3 DEF LinksInv, Cast, NoFirst
<1>6. YesHasPrevote' /\ FirstCounted'
  <2>1. \A a \in Node, er \in ER : Cast(log'[a], er, "yes") => prevotes'[a][er]["yes"] # {}
        BY <1>4 DEF VotesInv, YesHasPrevote
  <2>2. \A c, a \in Node, er \in ER :
            /\ a \in finvotes'[c][er]["yes"] =>
                  Cast(log'[a], er, "yes") /\ ~Cast(log'[a], er, "no")
            /\ a \in finvotes'[c][er]["no"] => Cast(log'[a], er, "no")
        BY Zenon, <1>4 DEF VotesInv, FirstCounted
  <2>3. QED BY ZenonT(60), <2>1, <2>2 DEF YesHasPrevote, FirstCounted, Cast
<1>7. SeenCounted'
  <2>1. ASSUME NEW a \in Node, NEW er \in ER, er[1] >= Epoch'[a], Cast(log'[a], er, "no")
        PROVE  Cast(self'[a], er, "no") \/ a \in Voters(finvotes'[a][er])
        BY ZenonT(60), <1>4, <2>1 DEF VotesInv, SeenCounted
  <2>2. ASSUME NEW a \in Node, NEW er \in ER, NEW c \in Node \ {a},
               NEW k \in 1..Len(log'[a]), NEW f \in Flag,
               k <= cur'[c][a], er[1] >= Epoch'[c], IsVote(log'[a][k], er, f)
        PROVE  a \in Voters(finvotes'[c][er])
    <3>1. k \in 1..Len(log[a]) /\ log'[a][k] = log[a][k]
      <4>1. log[a] \in Seq(Message) /\ (log'[a] = log[a] \/ log'[a] = Append(log[a], x))
            BY <1>3
      <4>2. k \in 1..Len(log[a])
            BY ZenonT(60), <1>1, <2>2, <4>1
      <4>3. QED BY <1>1, <4>1, <4>2
    <3>2. QED BY <2>2, <3>1 DEF VotesInv, SeenCounted
  <2>3. QED BY Zenon, <2>1, <2>2 DEF SeenCounted
<1>8. QED BY <1>5, <1>6, <1>7 DEF VotesInv

-----------------------------------------------------------------------------

\* At first nothing is voted.
LEMMA InitVotes == Init => VotesInv
<1> SUFFICES ASSUME Init PROVE VotesInv
    OBVIOUS
<1>1. \A a \in Node : log[a] = <<>> \/ log[a] = <<Proposal(generatorBlock(a, 0), 0, 0)>>
      BY DEF Init, FirstProposal
<1>2. self = log /\ \A c, a \in Node : cur[c][a] = 0
      BY ZenonT(60) DEF Init
<1>3. ASSUME NEW a \in Node
      PROVE  Len(log[a]) >= 0 /\ \A k \in 1..Len(log[a]) : log[a][k].type = "proposal"
  <2> DEFINE p == Proposal(generatorBlock(a, 0), 0, 0)
  <2>1. p.type = "proposal"
        BY DEF Proposal
  <2> HIDE DEF p
  <2>2. CASE log[a] = <<>>
        BY <2>2
  <2>3. CASE log[a] = <<p>>
        BY <2>1, <2>3
  <2>4. QED BY <1>1, <2>2, <2>3 DEF p
<1>4. \A a \in Node : \A er, f : ~Cast(log[a], er, f)
      BY <1>3 DEF Cast, IsVote
<1>5. LinksInv
  <2>1. \A a \in Node : \A er : NoFirst(log[a], er)
        BY Zenon, <1>4 DEF NoFirst, Cast
  <2>2. QED BY <1>2, <1>3, <1>4, <2>1 DEF LinksInv
<1>6. YesHasPrevote
      BY <1>4 DEF YesHasPrevote
<1>7. SeenCounted
      BY ZenonT(60), <1>4 DEF SeenCounted, Cast
<1>8. FirstCounted
  <2>1. \A c \in Node, er \in ER, f \in Flag : finvotes[c][er][f] = {}
        BY DEF Init
  <2>2. QED BY <2>1 DEF FirstCounted, Flag
<1>9. QED BY <1>5, <1>6, <1>7, <1>8 DEF VotesInv

\* Every step keeps VotesInv.
LEMMA NextVotes == IInv /\ VotesInv /\ [Next]_vars => VotesInv'
<1> SUFFICES ASSUME IInv, VotesInv, [Next]_vars PROVE VotesInv'
    OBVIOUS
<1>1. Active \subseteq Node
      BY DEF Active
<1>2. ASSUME NEW n \in Active, NEW m \in Active, Handle(n, m) PROVE VotesInv'
      BY ZenonT(30), <1>1, <1>2, NextIInv, OtherVotes, PrevoteVotes, FinvoteVotes
<1> DEFINE x(er) == Signed("finish", er)
<1>3. \A er : x(er).type # "finvote"
      BY DEF Signed
<1>4. ASSUME cur' = cur, Epoch' = Epoch, prevotes' = prevotes, finvotes' = finvotes,
             log' = log, self' = self
      PROVE  VotesInv'
  <2>1. PICK n \in Node : TRUE
        BY ZenonT(60), CommitteeAssumption
  <2> HIDE DEF x
  <2>2. QED BY <1>3, <1>4, <2>1, QuietVotes
<1>5. ASSUME NEW n \in Active, NEW b \in Block, PayloadArrives(n, b) \/ handleLoopBack(n, b)
      PROVE  VotesInv'
      BY ZenonT(60), <1>4, <1>5 DEF PayloadArrives, handleLoopBack, netVars, voteVars
<1>6. ASSUME NEW n \in Active, NEW i \in ER \X Active, SpbAccept(n, i) \/ SpbLock(n, i)
      PROVE  VotesInv'
      BY <1>4, <1>6 DEF SpbAccept, SpbLock, netVars, voteVars
<1>7. ASSUME NEW n \in Active, NEW er \in ER, SpbFinish(n, er) \/ SpbFinishSelf(n, er)
      PROVE  VotesInv'
  <2>1. /\ log' = log \/ log' = [log EXCEPT ![n] = Append(@, x(er))]
        /\ self' = self \/ self' = [self EXCEPT ![n] = Append(@, x(er))]
        /\ cur' = cur /\ Epoch' = Epoch /\ prevotes' = prevotes /\ finvotes' = finvotes
        BY <1>7 DEF SpbFinish, SpbFinishSelf, voteVars
  <2> HIDE DEF x
  <2>2. QED BY ZenonT(60), <1>1, <1>3, <2>1, QuietVotes
<1>8. CASE UNCHANGED vars
      BY <1>4, <1>8 DEF vars, netVars, voteVars
<1>9. QED BY ZenonT(60), <1>2, <1>5, <1>6, <1>7, <1>8 DEF Next

\* The votes a node counts are what their authors sent first.
LEMMA VotesInvariance == Spec => [](IInv /\ VotesInv)
BY Invariance, InitVotes, NextVotes, PTL DEF Spec

\* An author counted with a yes has sent no no.
LEMMA SameVote == IInv /\ VotesInv => FinVoteConsistent
<1> SUFFICES ASSUME IInv, VotesInv, NEW n \in Node, NEW m \in Node, NEW er \in ER
             PROVE  finvotes[n][er]["yes"] \cap finvotes[m][er]["no"] = {}
    BY DEF FinVoteConsistent
<1>1. finvotes[n][er] \in [Flag -> SUBSET Node]
      BY DEF IInv, TypeOK
<1>2. finvotes[n][er]["yes"] \subseteq Node
      BY <1>1 DEF Flag
<1>3. ASSUME NEW a \in Node, a \in finvotes[n][er]["yes"], a \in finvotes[m][er]["no"]
      PROVE  FALSE
      BY <1>3 DEF VotesInv, FirstCounted
<1>4. QED BY <1>2, <1>3

\* No author is counted with a yes FinVote by one node and with a no FinVote by
\* another, for a round (handlePrevote, handleFinvote).
THEOREM FinVotesConsistent == Spec => []FinVoteConsistent
BY SameVote, VotesInvariance, PTL

\* The committees for which two sets of 2f+1 nodes always meet.
LEMMA QuorumsMeet ==
    ASSUME NEW f \in Nat, Size = 3 * f + 1
    PROVE  2 * HightThreshold > Size
BY DEF HightThreshold, F

\* Where two sets of 2f+1 nodes meet, which holds for the committees of 3f+1
\* nodes but not for those of 2, 3 or 6, one node's decision to halt on 2f+1
\* yes FinVotes excludes another's 2f+1 no FinVotes (FinVoteAggreator.Append).
THEOREM CommitExcludes ==
    ASSUME 2 * HightThreshold > Size
    PROVE  Spec => []CommitExcludesNo
<1>1. ASSUME IInv, VotesInv, NEW n \in Node, NEW m \in Node, NEW er \in ER,
             Cardinality(finvotes[n][er]["yes"]) >= HightThreshold,
             Cardinality(finvotes[m][er]["no"]) >= HightThreshold
      PROVE  FALSE
  <2> DEFINE yes == finvotes[n][er]["yes"]
             no == finvotes[m][er]["no"]
  <2>1. yes \in SUBSET Node /\ no \in SUBSET Node
    <3>1. finvotes \in [Node -> [ER -> [Flag -> SUBSET Node]]]
          BY <1>1 DEF IInv, TypeOK
    <3>2. "yes" \in Flag /\ "no" \in Flag
          BY DEF Flag
    <3>3. QED BY <3>1, <3>2
  <2>2. yes \cap no = {}
        BY <1>1, SameVote DEF FinVoteConsistent
  <2> HIDE DEF yes, no
  <2>3. Quorate(yes) /\ Quorate(no)
        BY Zenon, <1>1 DEF yes, no, Quorate
  <2>4. QED BY ZenonT(30), <2>1, <2>2, <2>3, QuoratesMeet
<1>2. IInv /\ VotesInv => CommitExcludesNo
      BY <1>1 DEF CommitExcludesNo
<1>3. QED BY <1>2, VotesInvariance, PTL

-----------------------------------------------------------------------------
(* The Halts of different rounds. *)

\* A Halt on the links: who sent it, and what stands behind it.
LEMMA HaltFacts ==
    ASSUME IInv, CoinInv, RoundInv, NEW g \in Sent("halt")
    PROVE  g.er \in ER /\ FinishQuorum(g.er) /\ HaltCause(g.er, g.hash)
<1>1. g.type = "halt" /\ g \in UNION {On(log[n]) : n \in Node}
      BY Zenon DEF Sent, On
<1>2. PICK a \in Node : g \in On(log[a])
      BY Zenon, <1>1
<1>3. HaltCause(g.er, g.hash)
      BY Zenon, <1>1, <1>2 DEF RoundInv, LogCaused, Caused
<1>4. Justified(a, g)
      BY Zenon, <1>2 DEF CoinInv, LinksJustified, AllJustified, On
<1>5. g \in Message
  <2>1. log[a] \in Seq(Message)
        BY Zenon DEF IInv, TypeOK
  <2>2. \A k \in 1..Len(log[a]) : log[a][k] \in Message
        BY <2>1
  <2>3. QED BY Zenon, <1>2, <2>2 DEF On
<1>6. FinishQuorum(g.er)
      BY <1>1, <1>4 DEF Justified
<1>7. QED BY Zenon, <1>3, <1>5, <1>6, MessageFields

\* 2f+1 proposers have finished in every round up to one in which 2f+1 have.
LEMMA FinishedUpTo ==
    ASSUME RoundInv, NEW er \in ER, FinishQuorum(er), NEW q \in Rounds, q <= er[2]
    PROVE  FinishQuorum(<<er[1], q>>)
<1>1. er = <<er[1], er[2]>> /\ er[2] \in Nat /\ q \in Nat
      BY BeforeRound, CoreAssumption DEF Rounds
<1>2. q = er[2] \/ q < er[2]
      BY <1>1
<1>3. CASE q = er[2]
      BY Zenon, <1>1, <1>3
<1>4. CASE q < er[2]
  <2>1. Finishers(er) \in SUBSET Node /\ Quorate(Finishers(er))
        BY Zenon DEF FinishQuorum, Quorate, Finishers
  <2>2. PICK p \in Node : er \in finished[p]
        BY Zenon, <2>1, QuorateHas DEF Finishers
  <2>3. QED BY Zenon, <1>4, <2>2 DEF RoundInv, Below
<1>5. QED BY ZenonT(30), <1>2, <1>3, <1>4

\* A proposer other than the leader that finishes in the next round has counted
\* 2f+1 no FinVotes.
LEMMA OtherFinisher ==
    ASSUME SupportInv, RoundInv, CoinFollowed, NEW er \in ER, NEW p \in Node,
           <<er[1], er[2] + 1>> \in ER, <<er[1], er[2] + 1>> \in finished[p], p # coin[er]
    PROVE  Quorate(finvotes[p][er]["no"])
<1> DEFINE next == <<er[1], er[2] + 1>>
<1>1. er[2] \in Nat /\ er = <<er[1], er[2]>>
      BY Zenon, BeforeRound
<1>2. next[2] > 0 /\ Before(next) = er
  <2>1. next[1] = er[1] /\ next[2] = er[2] + 1 /\ (er[2] + 1) - 1 = er[2]
        BY <1>1
  <2>2. QED BY <1>1, <2>1 DEF Before
<1> HIDE DEF next
<1>3. Proposed(next, p)
  <2>1. LockQuorum(next, p)
        BY Zenon DEF RoundInv, Below, next
  <2>2. QED BY Zenon, <1>2, <2>1, LockProposed DEF next
<1>4. PICK y \in On(log[p]) : y.type = "proposal" /\ y.er = next /\ y.block.proposer = p
      BY Zenon, <1>3 DEF Proposed
<1>5. Quorate(finvotes[p][er]["no"]) \/ Voted(er, y.block)
      BY Zenon, <1>2, <1>4 DEF RoundInv, LogCaused, Caused, Advanced
<1>6. ASSUME Voted(er, y.block) PROVE FALSE
  <2>1. PICK x \in Sent("prevote") : x.er = er /\ y.block = generatorBlock(x.leader, er[1])
        BY Zenon, <1>6 DEF Voted
  <2>2. y.block = generatorBlock(coin[er], er[1])
        BY Zenon, <2>1 DEF CoinFollowed
  <2>3. y.block.proposer = coin[er]
        BY <2>2 DEF generatorBlock
  <2>4. QED BY Zenon, <1>4, <2>3
<1>7. QED BY Zenon, <1>5, <1>6

\* 2f+1 no FinVotes of a round exclude a Halt of it.
LEMMA NoExcludesHalt ==
    ASSUME 2 * HightThreshold > Size, IInv, VotesInv, RoundInv, LocksBeforeVotes, CoinFollowed,
           NEW er \in ER, NEW p \in Node, Quorate(finvotes[p][er]["no"]),
           HaltCause(er, generatorBlock(coin[er], er[1]))
    PROVE  FALSE
<1>1. "yes" \in Flag /\ "no" \in Flag
      BY Zenon DEF Flag
<1>2. CASE \E q \in Node : /\ generatorBlock(coin[er], er[1]) = generatorBlock(q, er[1])
                           /\ er \in finished[q]
  <2>1. er \in finished[coin[er]] /\ coin[er] \in Node
    <3>1. PICK q \in Node : /\ generatorBlock(coin[er], er[1]) = generatorBlock(q, er[1])
                            /\ er \in finished[q]
          BY Zenon, <1>2
    <3>2. q = coin[er]
          BY <3>1 DEF generatorBlock
    <3>3. QED BY Zenon, <3>1, <3>2
  <2>2. LockQuorum(er, coin[er])
        BY Zenon, <2>1 DEF RoundInv, Below
  <2>3. PICK z \in Node : z \in finvotes[p][er]["no"]
        BY Zenon, <1>1, VoteTypes, QuorateHas
  <2>4. Quorate(prevotes[z][er]["no"])
    <3>1. Cast(log[z], er, "no")
          BY Zenon, <2>3 DEF VotesInv, FirstCounted
    <3>2. PICK x \in On(log[z]) : IsVote(x, er, "no")
          BY Zenon, <3>1 DEF Cast, On
    <3>3. QED BY Zenon, <3>2 DEF RoundInv, LogCaused, Caused, IsVote
  <2> DEFINE L == {w \in Node : <<er, coin[er]>> \in locked[w]}
  <2>5. L \in SUBSET Node /\ Quorate(L)
        BY Zenon, <2>2 DEF LockQuorum
  <2>6. prevotes[z][er]["no"] \in SUBSET Node
        BY Zenon, <1>1, VoteTypes
  <2>7. PICK w \in Node : w \in prevotes[z][er]["no"] /\ w \in L
    <3> HIDE DEF L
    <3>1. QED BY ZenonT(30), <2>4, <2>5, <2>6, QuoratesMeet
  <2>8. PICK x \in On(log[w]) : x.type = "prevote" /\ x.er = er /\ x.flag = "no"
        BY Zenon, <2>7 DEF RoundInv, NoCounted, VotedNo
  <2>9. PICK k \in 1..Len(log[w]) : x = log[w][k]
        BY Zenon DEF On
  <2>10. <<er, coin[er]>> \notin locked[w]
        BY Zenon, <2>8, <2>9 DEF LocksBeforeVotes
  <2>11. QED BY Zenon, <2>7, <2>10
<1>3. CASE \E b \in Node : Quorate(finvotes[b][er]["yes"])
  <2>1. PICK b \in Node : Quorate(finvotes[b][er]["yes"])
        BY Zenon, <1>3
  <2>2. finvotes[b][er]["yes"] \in SUBSET Node /\ finvotes[p][er]["no"] \in SUBSET Node
        BY Zenon, <1>1, VoteTypes
  <2>3. PICK a \in Node : a \in finvotes[b][er]["yes"] /\ a \in finvotes[p][er]["no"]
        BY Zenon, <2>1, <2>2, QuoratesMeet
  <2>4. QED BY Zenon, <2>3, SameVote DEF FinVoteConsistent
<1>4. QED BY Zenon, <1>2, <1>3 DEF HaltCause

\* Halts of an earlier and a later round of an epoch name one block.
LEMMA LaterHalt ==
    ASSUME 2 * HightThreshold > Size, IInv, CoinInv, SupportInv, VotesInv, RoundInv,
           LocksBeforeVotes, CoinFollowed,
           NEW g \in Sent("halt"), NEW h \in Sent("halt"), g.er[1] = h.er[1], g.er[2] < h.er[2]
    PROVE  g.hash = h.hash
<1> DEFINE er == g.er
           next == <<er[1], er[2] + 1>>
<1>1. /\ er \in ER /\ HaltCause(er, g.hash) /\ h.er \in ER /\ FinishQuorum(h.er)
      /\ g.hash = generatorBlock(coin[er], er[1]) /\ h.hash = generatorBlock(coin[h.er], er[1])
      BY Zenon, HaltFacts DEF CoinFollowed
<1>2. coin[er] \in Node /\ coin[h.er] \in Node
  <2>1. coin \in [ER -> Node]
        BY ZenonT(30) DEF IInv, TypeOK
  <2>2. QED BY Zenon, <1>1, <2>1
<1> HIDE DEF er
<1>3. er[2] + 1 \in Rounds /\ er[2] + 1 <= h.er[2] /\ er[1] \in Epochs
  <2>1. er[2] \in Rounds /\ h.er[2] \in Rounds /\ er[1] \in Epochs
        BY ZenonT(30), <1>1, BeforeRound
  <2>2. QED BY <2>1, CoreAssumption DEF Rounds, er
<1>4. next \in ER
      BY <1>3 DEF ER
<1>5. FinishQuorum(next)
  <2>1. h.er[1] = er[1]
        BY Zenon DEF er
  <2>2. QED BY Zenon, <1>1, <1>3, <2>1, FinishedUpTo
<1> HIDE DEF next
<1>6. Finishers(next) \in SUBSET Node /\ Quorate(Finishers(next))
      BY Zenon, <1>5 DEF FinishQuorum, Quorate, Finishers
<1>7. CASE \A p \in Finishers(next) : p = coin[er]
  <2>1. coin[h.er] = coin[er]
        BY ZenonT(30), <1>2, <1>6, <1>7, OneNode
  <2>2. QED BY Zenon, <1>1, <2>1
<1>8. ASSUME NEW p \in Finishers(next), p # coin[er] PROVE FALSE
  <2>1. p \in Node /\ next \in finished[p]
        BY Zenon DEF Finishers
  <2>2. Quorate(finvotes[p][er]["no"])
        BY ZenonT(30), <1>1, <1>4, <1>8, <2>1, OtherFinisher DEF next
  <2>3. QED BY ZenonT(30), <1>1, <2>1, <2>2, NoExcludesHalt
<1>9. QED BY Zenon, <1>7, <1>8

\* Where two sets of 2f+1 nodes meet, the Halts of an epoch name one block, in
\* whatever rounds they are made, as long as no node locks the leader's block after
\* it has voted no on it (processLeader, spbvoteCh) and none takes another node for
\* the leader.
THEOREM HaltsOfAnEpochAgree ==
    ASSUME 2 * HightThreshold > Size
    PROVE  Spec => []HaltsAgree
<1>1. ASSUME IInv, CoinInv, SupportInv, VotesInv, RoundInv, LocksBeforeVotes, CoinFollowed,
             NEW g \in Sent("halt"), NEW h \in Sent("halt"), g.er[1] = h.er[1]
      PROVE  g.hash = h.hash
  <2>1. g.er \in ER /\ h.er \in ER
        BY Zenon, <1>1, HaltFacts
  <2>2. /\ g.er[2] \in Nat /\ h.er[2] \in Nat
        /\ g.er = <<g.er[1], g.er[2]>> /\ h.er = <<h.er[1], h.er[2]>>
        BY ZenonT(30), <2>1, BeforeRound
  <2>3. g.er[2] < h.er[2] \/ h.er[2] < g.er[2] \/ g.er[2] = h.er[2]
        BY <2>2
  <2>4. CASE g.er[2] = h.er[2]
        BY Zenon, <1>1, <2>2, <2>4 DEF CoinFollowed
  <2>5. CASE g.er[2] < h.er[2]
        BY Zenon, <1>1, <2>5, LaterHalt
  <2>6. CASE h.er[2] < g.er[2]
        BY Zenon, <1>1, <2>6, LaterHalt
  <2>7. QED BY ZenonT(30), <2>3, <2>4, <2>5, <2>6
<1>2. IInv /\ CoinInv /\ SupportInv /\ VotesInv /\ RoundInv => HaltsAgree
      BY Zenon, <1>1 DEF HaltsAgree, OneBlockHalts
<1>3. QED BY <1>2, VotesInvariance, InitCoin, NextCoin, InitSupport, NextSupport,
             InitLog, NextLog, InitRounds, NextRounds, PTL DEF Spec

=============================================================================
