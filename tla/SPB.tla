-------------------------------- MODULE SPB --------------------------------
(***************************************************************************)
(* One strong provable broadcast instance (epoch, round, Proposer) of     *)
(* src/core/smvba/consensus/spb.go, as it runs on every node.             *)
(*                                                                         *)
(* Core starts a goroutine for every proposal and every vote it receives, *)
(* so the calls of processProposal and processVote of one instance run    *)
(* concurrently.  A step of the model is what one such call does between  *)
(* two points where another call may come in: reading BlockHash, storing  *)
(* it, appending to a buffer, draining the buffers, counting a vote.  The *)
(* send that follows a store or a count is part of the same step: putting *)
(* a message on a channel that is not full neither blocks nor reads       *)
(* anything.  Delivering a message is part of the first step of the call  *)
(* it starts; a message that is lost, or dropped because the node has     *)
(* left the epoch, is one whose call never starts.                        *)
(***************************************************************************)
EXTENDS Committee

CONSTANTS
    Proposer,   \* the proposer of this instance
    Retry       \* the nodes on which handleLoopBack calls processProposal
                \* once more for the block

ASSUME SPBAssumption ==
    /\ Proposer \in Active
    /\ Retry \subseteq Active

\* The phase-one calls of processProposal: the proposal's own and handleLoopBack's.
One == {"proposal", "loopback"}

\* All calls, "two" being the phase-two one.  Each sends at most one vote, so a
\* vote is named by the node and the call that sent it.
Call == One \cup {"two"}

VARIABLES
    ownBlock,   \* whether the proposal carries a block of the proposer itself
    BlockHash,  \* BlockHash[n]: the atomic.Value on node n, "nil" or "hash"
    LockFlag,   \* LockFlag[n]: the atomic.Bool on node n
    prop,       \* prop[n][c]: where call c of processProposal on node n is
    vote,       \* vote[n][c]: where the vote sent by call c on node n is
    Votes,      \* Votes[p]: the proposer's counter of phase p
    finish      \* whether the proposer has sent Finish

vars == <<ownBlock, BlockHash, LockFlag, prop, vote, Votes, finish>>

\* A message is sent, its call has then seen BlockHash nil or set, and a call
\* that saw nil is parked in unHandleProposal / unHandleVote ("buffered").
\* "stored" is a phase-one call that has stored the hash and not yet drained.
Place == {"none", "sent", "nil", "buffered", "hash", "stored", "done"}

TypeOK ==
    /\ ownBlock \in BOOLEAN
    /\ BlockHash \in [Node -> {"nil", "hash"}]
    /\ LockFlag \in [Node -> BOOLEAN]
    /\ prop \in [Node -> [Call -> Place]]
    /\ vote \in [Node -> [Call -> Place \ {"stored"}]]
    /\ Votes \in [{1, 2} -> Nat]
    /\ Votes[1] <= 2 * Size /\ Votes[2] <= Size
    /\ finish \in BOOLEAN

-----------------------------------------------------------------------------

\* The proposer has broadcast its phase-one proposal (Core.Run,
\* advanceNextEpoch or advanceNextRound).  In rounds after the first it may
\* carry the block of an earlier leader instead of the proposer's own.
Init ==
    /\ ownBlock \in BOOLEAN
    /\ BlockHash = [n \in Node |-> "nil"]
    /\ LockFlag = [n \in Node |-> FALSE]
    /\ prop = [n \in Node |-> [c \in Call |->
                  IF \/ c = "proposal" /\ n \in Active
                     \/ c = "loopback" /\ n \in Retry
                  THEN "sent" ELSE "none"]]
    /\ vote = [n \in Node |-> [c \in Call |-> "none"]]
    /\ Votes = [p \in {1, 2} |-> 0]
    /\ finish = FALSE

\* processProposal, phase one: the test at the top.
OneLoad(n, c) ==
    /\ c \in One
    /\ prop[n][c] = "sent"
    /\ prop' = [prop EXCEPT ![n][c] =
                  IF BlockHash[n] # "nil" \/ ~ownBlock THEN "done" ELSE "nil"]
    /\ UNCHANGED <<ownBlock, BlockHash, LockFlag, vote, Votes, finish>>

\* BlockHash.Store and the phase-one vote to the proposer.
OneStore(n, c) ==
    /\ c \in One
    /\ prop[n][c] = "nil"
    /\ BlockHash' = [BlockHash EXCEPT ![n] = "hash"]
    /\ prop' = [prop EXCEPT ![n][c] = "stored"]
    /\ vote' = [vote EXCEPT ![n][c] = "sent"]
    /\ UNCHANGED <<ownBlock, LockFlag, Votes, finish>>

\* A variant of OneDrain that starts handled votes again as well.
DrainAgain(n, c) ==
    /\ c \in One
    /\ prop[n][c] = "stored"
    /\ prop' = [prop EXCEPT ![n][c] = "done"]
    /\ vote' = IF n = Proposer
               THEN [m \in Node |-> [d \in Call |->
                       IF vote[m][d] \in {"buffered", "done"} THEN "sent" ELSE vote[m][d]]]
               ELSE vote
    /\ UNCHANGED <<ownBlock, BlockHash, LockFlag, Votes, finish>>

\* Under uvm: every buffered call starts again, and the buffers are emptied.
OneDrain(n, c) ==
    /\ c \in One
    /\ prop[n][c] = "stored"
    /\ prop' = [prop EXCEPT ![n] = [d \in Call |->
                  IF d = c THEN "done"
                  ELSE IF d = "two" /\ prop[n][d] = "buffered" THEN "sent"
                  ELSE prop[n][d]]]
    /\ vote' = IF n = Proposer
               THEN [m \in Node |-> [d \in Call |->
                       IF vote[m][d] = "buffered" THEN "sent" ELSE vote[m][d]]]
               ELSE vote
    /\ UNCHANGED <<ownBlock, BlockHash, LockFlag, Votes, finish>>

\* A variant of TwoLoad that does not look at BlockHash.
TwoLoadBlind(n) ==
    /\ prop[n]["two"] = "sent"
    /\ prop' = [prop EXCEPT ![n]["two"] = "hash"]
    /\ UNCHANGED <<ownBlock, BlockHash, LockFlag, vote, Votes, finish>>

\* processProposal, phase two: the test of BlockHash, outside uvm.
TwoLoad(n) ==
    /\ prop[n]["two"] = "sent"
    /\ prop' = [prop EXCEPT ![n]["two"] = BlockHash[n]]
    /\ UNCHANGED <<ownBlock, BlockHash, LockFlag, vote, Votes, finish>>

\* Under uvm: append to unHandleProposal.
TwoBuffer(n) ==
    /\ prop[n]["two"] = "nil"
    /\ prop' = [prop EXCEPT ![n]["two"] = "buffered"]
    /\ UNCHANGED <<ownBlock, BlockHash, LockFlag, vote, Votes, finish>>

\* LockFlag.Store and the phase-two vote to the proposer.
TwoLock(n) ==
    /\ prop[n]["two"] = "hash"
    /\ LockFlag' = [LockFlag EXCEPT ![n] = TRUE]
    /\ prop' = [prop EXCEPT ![n]["two"] = "done"]
    /\ vote' = [vote EXCEPT ![n]["two"] = "sent"]
    /\ UNCHANGED <<ownBlock, BlockHash, Votes, finish>>

\* processVote on the proposer: the test of BlockHash, outside uvm.
VoteLoad(n, c) ==
    /\ vote[n][c] = "sent"
    /\ vote' = [vote EXCEPT ![n][c] = BlockHash[Proposer]]
    /\ UNCHANGED <<ownBlock, BlockHash, LockFlag, prop, Votes, finish>>

\* Under uvm: append to unHandleVote.
VoteBuffer(n, c) ==
    /\ vote[n][c] = "nil"
    /\ vote' = [vote EXCEPT ![n][c] = "buffered"]
    /\ UNCHANGED <<ownBlock, BlockHash, LockFlag, prop, Votes, finish>>

\* A variant of Phase: both phases in one counter.
PhaseShared(c) == 2

Phase(c) == IF c = "two" THEN 2 ELSE 1

\* A variant of QuorumMade, one vote late.
QuorumLate(num) == num = HightThreshold + 1

QuorumMade(num) == num = HightThreshold

\* Under vm the vote is counted, whoever sent it; the call that reaches the
\* threshold broadcasts the phase-two proposal, or Finish.
VoteCount(n, c) ==
    LET num == Votes[Phase(c)] + 1 IN
    /\ vote[n][c] = "hash"
    /\ vote' = [vote EXCEPT ![n][c] = "done"]
    /\ Votes' = [Votes EXCEPT ![Phase(c)] = num]
    /\ prop' = IF QuorumMade(num) /\ Phase(c) = 1
               THEN [m \in Node |-> [prop[m] EXCEPT !["two"] =
                       IF m \in Active THEN "sent" ELSE @]]
               ELSE prop
    /\ finish' = (finish \/ (QuorumMade(num) /\ Phase(c) = 2))
    /\ UNCHANGED <<ownBlock, BlockHash, LockFlag>>

ProposalStep(n) ==
    \/ \E c \in One : OneLoad(n, c) \/ OneStore(n, c) \/ OneDrain(n, c)
    \/ TwoLoad(n)
    \/ TwoBuffer(n)
    \/ TwoLock(n)

VoteStep(n, c) == VoteLoad(n, c) \/ VoteBuffer(n, c) \/ VoteCount(n, c)

Next ==
    \E n \in Active : ProposalStep(n) \/ \E c \in Call : VoteStep(n, c)

Spec == Init /\ [][Next]_vars

\* The Go scheduler runs every goroutine that can run, and the links deliver
\* what is sent: every call that has a step takes it.
Fairness ==
    \A n \in Active :
        /\ \A c \in One : /\ WF_vars(OneLoad(n, c))
                           /\ WF_vars(OneStore(n, c))
                           /\ WF_vars(OneDrain(n, c))
        /\ WF_vars(TwoLoad(n)) /\ WF_vars(TwoBuffer(n)) /\ WF_vars(TwoLock(n))
        /\ \A c \in Call : WF_vars(VoteStep(n, c))

FairSpec == Spec /\ Fairness

-----------------------------------------------------------------------------

\* A locked node knows the hash it locked: spb.go says of LockFlag "if lock
\* ensure SPB_ONE_PHASE has received", and processLeader panics otherwise.
LockImpliesHash == \A n \in Node : LockFlag[n] => BlockHash[n] = "hash"

\* A counter holds as many votes as have been handled, however often a vote was
\* parked in unHandleVote and started again: no vote is counted twice or lost.
VotesCountedOnce ==
    /\ Votes[1] = Cardinality({x \in Node \X One : vote[x[1]][x[2]] = "done"})
    /\ Votes[2] = Cardinality({n \in Node : vote[n]["two"] = "done"})

\* Finish is sent only when 2f+1 different nodes have locked the block, for
\* all that processVote counts votes without looking at their authors and a
\* phase-one call may run twice.
FinishImpliesLockQuorum ==
    finish => Cardinality({n \in Node : LockFlag[n]}) >= HightThreshold

\* A call that looked at BlockHash before it was stored and appended itself to
\* the buffer after the last drain: nothing will start it again.
Stranded(n, place) ==
    place = "buffered" /\ \A c \in One : prop[n][c] \in {"none", "done"}

\* The nodes whose part in the instance is lost that way.
LostNodes ==
    {n \in Active : \/ Stranded(n, prop[n]["two"])
                    \/ \E c \in Call : Stranded(Proposer, vote[n][c])}

\* The check-then-buffer race of processProposal and processVote is the only
\* thing that can stop an instance whose proposer proposes its own block: it
\* finishes unless the race has cost it so many nodes that fewer than 2f+1
\* are left.
FinishesUnlessLost ==
    ownBlock ~> (finish \/ Cardinality(Active \ LostNodes) < HightThreshold)

Quorum == {Q \in SUBSET Node : Cardinality(Q) >= HightThreshold}

\* The abstract provable broadcast this instance implements when every node
\* makes one phase-one call: no lock before 2f+1 nodes have the block, no
\* Finish before 2f+1 locks.
PB == INSTANCE ProvableBroadcast WITH
          accepted <- {n \in Node : BlockHash[n] = "hash"},
          locked   <- {n \in Node : LockFlag[n]},
          finished <- finish

ImplementsPB == PB!Spec

=============================================================================
