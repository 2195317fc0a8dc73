------------------------------- MODULE MCCore -------------------------------
(***************************************************************************)
(* Core on small committees.  With one faulty node of four, three nodes   *)
(* run and TLC can follow every schedule.  With four running nodes it     *)
(* follows the schedules of PromptSpec: a chosen set of messages and SPB  *)
(* instances is free to move at any time, the rest moves as soon as it    *)
(* can, in a fixed order.  Every behaviour of PromptSpec is one of Spec.  *)
(***************************************************************************)
EXTENDS Core, TLC

CONSTANTS
    Elected,    \* the running node a coin elects
    Slow,       \* the nodes the free messages are about
    Unhurried,  \* <<receiver, sender, type>> of the messages that are free
    SlowSpb,    \* proposers whose SPB instances are free
    HeldRounds  \* rounds that wait until a Halt has been sent

First(S) == CHOOSE x \in S : TRUE

AllCoins == [ER -> Node]

\* The round-0 leader is the proposer whose instances are free.
SlowLeader == {c \in [ER -> Node] : \A er \in ER : (er[2] = 0) <=> (c[er] \in SlowSpb)}

\* A node that runs is elected at last, after rounds with a faulty leader.
LastCoins == {c \in [ER -> Faulty \cup {Elected}] :
                \A e \in Epochs :
                    /\ c[<<e, MaxRound>>] = Elected
                    /\ \A r, q \in Rounds : r <= q /\ c[<<e, r>>] = Elected
                                               => c[<<e, q>>] = Elected}

NoneMissing == [n \in Node |-> {}]

\* Nodes in Slow lack the payloads of the elected node's blocks at first.
SlowPayloads == [n \in Node |-> IF n \in Slow THEN {b \in Block : b.proposer = Elected}
                               ELSE {}]

\* Round 0 elects a proposer whose instances are free, later rounds Elected.
ElectedNext == {[er \in ER |-> IF er[2] = 0 THEN First(SlowSpb) ELSE Elected]}

Perms == Permutations(Active)

\* Nodes in Slow are slow to hear from each other who the leader is and how it
\* is voted on, and slow to take FinVotes.
FreeVotes == (Slow \X Slow \X {"share", "prevote"}) \cup (Slow \X Node \X {"finvote"})

MessageType == {"proposal", "finish", "done", "share", "prevote", "finvote", "halt"}

\* Nodes in Slow are slow to take blocks and decisions.
LateNews == Slow \X Node \X {"proposal", "halt"}

\* The same, and every node may pause before it takes a coin share.
LateLeader == LateNews \cup (Node \X Node \X {"share"})

\* Nodes in Slow are slow to take and to deliver anything but proposals, and
\* every node may pause before it takes its own FinVote.
SlowLinks ==
    {x \in Node \X Node \X (MessageType \ {"proposal"}) :
        x[1] \in Slow \/ x[2] \in Slow \/ (x[1] = x[2] /\ x[3] = "finvote")}

-----------------------------------------------------------------------------

FinishPending == {x \in Active \X ER : x[2] \in finished[x[1]] \ selfFinish[x[1]]}

AcceptDue == {x \in Active \X (ER \X Active) : x[2] \in calls[x[1]]}

Accepted(i) == {n \in Node : i \in accepted[n]}
Locked(i)   == {n \in Node : i \in locked[n]}

LockDue == {x \in Active \X (ER \X (Active \ SlowSpb)) :
              /\ x[2] \in accepted[x[1]] \ locked[x[1]]
              /\ Cardinality(Accepted(x[2])) >= HightThreshold}

FinishDue == {x \in (Active \ SlowSpb) \X ER :
              /\ x[2] \notin finished[x[1]]
              /\ Cardinality(Locked(<<x[2], x[1]>>)) >= HightThreshold}

HaltSent == \E n \in Active : \E k \in 1..Len(log[n]) : log[n][k].type = "halt"

OnlyHaltsLeft == \A n, m \in Active : HasNext(n, m) => NextFrom(n, m).type = "halt"

\* With HeldRounds, those rounds go on when a Halt of an earlier one is on its
\* way, and Halts are taken last.
Waits(n, m) ==
    /\ HeldRounds # {}
    /\ IF NextFrom(n, m).type = "halt" THEN ~OnlyHaltsLeft
       ELSE NextFrom(n, m).er[2] \in HeldRounds /\ ~HaltSent

\* Messages of held rounds are never slow.
MessageDue == {x \in Active \X Active :
              /\ HasNext(x[1], x[2])
              /\ \/ <<x[1], x[2], NextFrom(x[1], x[2]).type>> \notin Unhurried
                 \/ NextFrom(x[1], x[2]).er[2] \in HeldRounds
              /\ ~Waits(x[1], x[2])}

\* What is free to move: messages, payloads and the instances of SlowSpb.
FreeNext ==
    \E n \in Active :
        \/ \E m \in Active : HasNext(n, m) /\ ~Waits(n, m) /\ Handle(n, m)
        \/ \E b \in Block : PayloadArrives(n, b) \/ handleLoopBack(n, b)
        \/ \E i \in ER \X SlowSpb : SpbLock(n, i)
        \/ \E er \in ER : n \in SlowSpb /\ SpbFinish(n, er)

PromptNext ==
    IF FinishPending # {}
    THEN LET x == First(FinishPending) IN SpbFinishSelf(x[1], x[2])
    ELSE IF AcceptDue # {}
    THEN LET x == First(AcceptDue) IN SpbAccept(x[1], x[2])
    ELSE IF LockDue # {}
    THEN LET x == First(LockDue) IN SpbLock(x[1], x[2])
    ELSE IF FinishDue # {}
    THEN LET x == First(FinishDue) IN SpbFinish(x[1], x[2])
    ELSE IF MessageDue # {}
    THEN LET x == First(MessageDue) IN Handle(x[1], x[2])
    ELSE FreeNext

PromptSpec == Init /\ [][PromptNext]_vars

\* As in FairSpec: something happens as long as something can.
FairPromptSpec == PromptSpec /\ WF_vars(PromptNext)

-----------------------------------------------------------------------------

\* Messages to nodes in Slow wait until the others have left epoch 0, messages
\* from them wait longer, and nobody locks a block in an epoch it has left.
SlowUnheard ==
    \A n \in Active :
        /\ \A m \in Slow \ {n} : cur'[n][m] # cur[n][m] => NextFrom(n, m).type = "proposal"
        /\ \A m \in Active :
             n \in Slow /\ HasNext(n, m) /\ NextFrom(n, m).type # "proposal"
             /\ (\E k \in Active \ Slow : Epoch[k] = 0)
             => /\ cur'[n][m] = cur[n][m]
                /\ m = n => Len(self'[n]) >= Len(self[n])
        /\ locked'[n] # locked[n] => Epoch[n] = 0

\* A lock that comes when the leader is known changes no vote, and is left out.
LockBeforeLeader ==
    \A n \in Active : \A i \in locked'[n] \ locked[n] : leaders[n][i[1]] = NONE

\* The coin is slower than the locks: every node that has accepted a block locks
\* it before anyone takes a coin share.
LocksFirst ==
    \A n \in Active :
        shareAuthors'[n] # shareAuthors[n] => \A m \in Active : accepted[m] = locked[m]

\* A node's own Finish is on its RecvChannel as soon as it is sent.
PromptSelf == FinishPending # {} => selfFinish' # selfFinish

\* Also, a phase-one call runs as soon as it is started.
PromptCalls ==
    /\ PromptSelf
    /\ FinishPending = {} /\ AcceptDue # {} => accepted' # accepted

=============================================================================
