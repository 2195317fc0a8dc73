-------------------------------- MODULE Core --------------------------------
(***************************************************************************)
(* The agreement protocol of src/core/smvba/consensus: the handlers of    *)
(* core.go with the vote aggregators (aggreator.go), the leader election  *)
(* (elector.go) and the committor (commitor.go) they call, on every node  *)
(* of the committee.                                                      *)
(*                                                                         *)
(* One goroutine per node handles messages one at a time, so a handler is *)
(* one step.  The SPB instances run beside it; they take the steps of     *)
(* module ProvableBroadcast, which module SPB is shown to implement.      *)
(*                                                                         *)
(* A block is named by its proposer and epoch: a node makes one block per *)
(* epoch.  The block hash is the block itself.                            *)
(***************************************************************************)
EXTENDS Committee, Sequences

CONSTANTS
    Zero,       \* the node with NodeID 0, the zero value of a NodeID field
    NONE,       \* core.NONE
    NoHash,     \* crypto.Digest{}
    MaxEpoch,   \* bound: epochs after this one are entered and then idle
    MaxRound,   \* bound: rounds after this one are not proposed in
    Coins,      \* the outcomes of the common coin to consider
    Missing     \* Missing[n]: blocks whose payloads node n lacks at first

Epochs == 0..MaxEpoch
Rounds == 0..MaxRound
ER     == Epochs \X Rounds
Block  == [proposer : Node, epoch : Epochs]

ASSUME CoreAssumption ==
    /\ Zero \in Node
    /\ NONE \notin Node
    /\ NoHash \notin Block
    /\ MaxEpoch \in Nat
    /\ MaxRound \in Nat
    /\ Coins \subseteq [ER -> Node]
    /\ Missing \in [Node -> SUBSET Block]

VARIABLES
    coin,         \* the leader the threshold signature of <<e, r>> selects
    log,          \* log[n]: everything n has broadcast, in order
    cur,          \* cur[n][m]: how much of log[m] node n has handled
    self,         \* self[n]: n's own broadcasts waiting in its RecvChannel
    Epoch,        \* Core.Epoch
    HaltFlags,    \* Core.HaltFlags
    FinishFlags,  \* FinishFlags[n][er]: authors of the Finish messages
    DoneFlags,    \* Core.DoneFlags
    ReadyFlags,   \* Core.ReadyFlags
    doneAuthors,  \* DoneAggreator.Authors
    shareAuthors, \* ElectAggreator.authors
    leaders,      \* Elector.leaders
    prevotes,     \* PreVoteAggreator: authors of yes and of no votes
    finvotes,     \* FinVoteAggreator: authors of yes and of no votes
    blockStore,   \* the consensus blocks in Store
    commitor,     \* Committor: Blocks, and what it has committed (Index)
    missing,      \* blocks with payloads the mempool still lacks
    pending,      \* blocks the mempool's synchronizer is fetching
    calls,        \* phase-one calls of processProposal that are running
    accepted,     \* SPB instances with BlockHash set
    locked,       \* SPB instances with LockFlag set
    finished,     \* rounds whose own SPB instance has sent Finish to others
    selfFinish    \* ... and has put it on RecvChannel as well

netVars  == <<log, cur, self>>
voteVars == <<FinishFlags, DoneFlags, ReadyFlags, doneAuthors, shareAuthors,
              prevotes, finvotes>>
poolVars == <<missing, pending>>
spbVars  == <<calls, accepted, locked, finished, selfFinish>>
vars == <<coin, netVars, Epoch, HaltFlags, voteVars, leaders, blockStore,
          commitor, poolVars, spbVars>>

Flag == {"yes", "no"}
Hash == Block \cup {NoHash}

Message ==
    [type : {"proposal"}, er : ER, block : Block]
    \cup [type : {"finish", "done", "share"}, er : ER]
    \cup [type : {"prevote", "finvote"}, er : ER, leader : Node,
          flag : Flag, hash : Hash]
    \cup [type : {"halt"}, er : ER, leader : Node, hash : Hash]

TypeOK ==
    /\ coin \in [ER -> Node]
    /\ log \in [Node -> Seq(Message)]
    /\ cur \in [Node -> [Node -> Nat]]
    /\ self \in [Node -> Seq(Message)]
    /\ Epoch \in [Node -> 0..(MaxEpoch + 1)]
    /\ HaltFlags \in [Node -> SUBSET Epochs]
    /\ FinishFlags \in [Node -> [ER -> SUBSET Node]]
    /\ DoneFlags \in [Node -> SUBSET ER]
    /\ ReadyFlags \in [Node -> SUBSET ER]
    /\ doneAuthors \in [Node -> [ER -> SUBSET Node]]
    /\ shareAuthors \in [Node -> [ER -> SUBSET Node]]
    /\ leaders \in [Node -> [ER -> Node \cup {NONE}]]
    /\ prevotes \in [Node -> [ER -> [Flag -> SUBSET Node]]]
    /\ finvotes \in [Node -> [ER -> [Flag -> SUBSET Node]]]
    /\ blockStore \in [Node -> SUBSET Block]
    /\ commitor \in [Node -> [blocks : SUBSET Block, out : Seq(Block)]]
    /\ missing \in [Node -> SUBSET Block]
    /\ pending \in [Node -> SUBSET Block]
    /\ calls \in [Node -> SUBSET (ER \X Node)]
    /\ accepted \in [Node -> SUBSET (ER \X Node)]
    /\ locked \in [Node -> SUBSET (ER \X Node)]
    /\ finished \in [Node -> SUBSET ER]
    /\ selfFinish \in [Node -> SUBSET ER]

-----------------------------------------------------------------------------
(* Messages. *)

Proposal(b, e, r) == [type |-> "proposal", er |-> <<e, r>>, block |-> b]
Signed(type, er)  == [type |-> type, er |-> er]

NewPrevote(leader, er, flag, hash) ==
    [type |-> "prevote", er |-> er, leader |-> leader,
     flag |-> flag, hash |-> hash]

\* NewFinVote takes the leader and does not store it: the field keeps the zero
\* value, which is the NodeID of a member of the committee.
NewFinVote(leader, er, flag, hash) ==
    [type |-> "finvote", er |-> er, leader |-> Zero,
     flag |-> flag, hash |-> hash]

NewHalt(leader, hash, er) ==
    [type |-> "halt", er |-> er, leader |-> leader, hash |-> hash]

\* generatorBlock: the one block node n makes for epoch e.
generatorBlock(n, e) == [proposer |-> n, epoch |-> e]

\* The first proposal of epoch e, where the bound leaves room for it.
FirstProposal(n, e) ==
    IF e \in Epochs THEN <<Proposal(generatorBlock(n, e), e, 0)>> ELSE <<>>

\* The next message node n takes from m; its own come through RecvChannel.
HasNext(n, m) ==
    IF m = n THEN self[n] # <<>> ELSE cur[n][m] < Len(log[m])

NextFrom(n, m) == IF m = n THEN Head(self[n]) ELSE log[m][cur[n][m] + 1]

\* Node n has taken the next message of m and broadcasts the messages of out:
\* Transimtor.Send to the others, RecvChannel to itself.
TakeAndSend(n, m, out) ==
    /\ cur' = IF m = n THEN cur ELSE [cur EXCEPT ![n][m] = @ + 1]
    /\ self' = [self EXCEPT ![n] = (IF m = n THEN Tail(@) ELSE @) \o out]
    /\ log' = [log EXCEPT ![n] = @ \o out]

\* Core.messgaeFilter
messgaeFilter(n, epoch) == epoch < Epoch[n]

\* Node n takes a message of the given type that the filter lets through.
Receive(n, m, type) ==
    /\ HasNext(n, m)
    /\ NextFrom(n, m).type = type
    /\ ~messgaeFilter(n, NextFrom(n, m).er[1])

-----------------------------------------------------------------------------
(* The committor, the store and the mempool as the handlers use them. *)

Index(c) == Len(c.out)

\* A variant of Commit that hands the block over at once.
CommitAtOnce(c, b) == [c EXCEPT !.out = Append(@, b)]

\* Committor.Commit: keep the block, in place of one of the same epoch, then
\* hand over the blocks of all consecutive epochs from Index on.
Commit(c, b) ==
    LET blocks == {x \in c.blocks : x.epoch # b.epoch} \cup {b}
        next == {e \in Epochs : /\ Index(c) <= e
                                /\ \A d \in Index(c)..e : \E x \in blocks : x.epoch = d}
        handed == [k \in 1..Cardinality(next) |->
                      CHOOSE x \in blocks : x.epoch = Index(c) + k - 1]
    IN IF b.epoch < Index(c)
       THEN c
       ELSE [blocks |-> {x \in blocks : x.epoch \notin next}, out |-> c.out \o handed]

\* verifyConsensusBlock: all payloads are in the mempool; if not, its
\* synchronizer starts to fetch them.
verifyConsensusBlock(n, b) == b \notin missing[n]

\* A variant of Fetch that asks for nothing.
FetchNothing(n, b) == UNCHANGED pending

Fetch(n, b) == pending' = [pending EXCEPT ![n] =
                              IF verifyConsensusBlock(n, b) THEN @ ELSE @ \cup {b}]

-----------------------------------------------------------------------------
(* Core.Run: the first proposal, then the handlers. *)

Init ==
    /\ coin \in Coins
    /\ log = [n \in Node |-> IF n \in Active THEN FirstProposal(n, 0) ELSE <<>>]
    /\ cur = [n \in Node |-> [m \in Node |-> 0]]
    /\ self = log
    /\ Epoch = [n \in Node |-> 0]
    /\ HaltFlags = [n \in Node |-> {}]
    /\ FinishFlags = [n \in Node |-> [er \in ER |-> {}]]
    /\ DoneFlags = [n \in Node |-> {}]
    /\ ReadyFlags = [n \in Node |-> {}]
    /\ doneAuthors = [n \in Node |-> [er \in ER |-> {}]]
    /\ shareAuthors = [n \in Node |-> [er \in ER |-> {}]]
    /\ leaders = [n \in Node |-> [er \in ER |-> NONE]]
    /\ prevotes = [n \in Node |-> [er \in ER |-> [f \in Flag |-> {}]]]
    /\ finvotes = [n \in Node |-> [er \in ER |-> [f \in Flag |-> {}]]]
    /\ blockStore = [n \in Node |-> {}]
    /\ commitor = [n \in Node |-> [blocks |-> {}, out |-> <<>>]]
    /\ missing = Missing
    /\ pending = [n \in Node |-> {}]
    /\ calls = [n \in Node |-> {}]
    /\ accepted = [n \in Node |-> {}]
    /\ locked = [n \in Node |-> {}]
    /\ finished = [n \in Node |-> {}]
    /\ selfFinish = [n \in Node |-> {}]

\* A message of an epoch the node has left (all handlers but handleSpbProposal
\* start with this test).
Discard(n, m) ==
    /\ HasNext(n, m)
    /\ NextFrom(n, m).type # "proposal"
    /\ messgaeFilter(n, NextFrom(n, m).er[1])
    /\ TakeAndSend(n, m, <<>>)
    /\ UNCHANGED <<coin, Epoch, HaltFlags, voteVars, leaders, blockStore,
                   commitor, poolVars, spbVars>>

\* Phase-one proposals.  The block of a halted epoch's leader is committed
\* late; otherwise it is stored, and with all payloads present the SPB
\* instance of its author starts on it, which ignores a block made by another.
handleSpbProposal(n, m) ==
    LET p == NextFrom(n, m)
        e == p.er[1]
        late == e \in HaltFlags[n] /\ leaders[n][p.er] = m
        ok == verifyConsensusBlock(n, p.block)
    IN
    /\ HasNext(n, m)
    /\ p.type = "proposal"
    /\ TakeAndSend(n, m, <<>>)
    /\ commitor' = IF late /\ ok
                   THEN [commitor EXCEPT ![n] = Commit(@, p.block)] ELSE commitor
    /\ IF late \/ ~messgaeFilter(n, e) THEN Fetch(n, p.block) ELSE UNCHANGED pending
    /\ IF messgaeFilter(n, e)
       THEN UNCHANGED <<blockStore, calls>>
       ELSE /\ blockStore' = [blockStore EXCEPT ![n] = @ \cup {p.block}]
            /\ calls' = IF ok /\ p.block.proposer = m
                        THEN [calls EXCEPT ![n] = @ \cup {<<p.er, m>>}] ELSE calls
    /\ UNCHANGED <<coin, Epoch, HaltFlags, voteVars, leaders, missing,
                   accepted, locked, finished, selfFinish>>

\* invokeDoneAndShare: Done and the coin share, once per epoch and round.
DoneAndShare(n, er) ==
    IF er \in DoneFlags[n] THEN <<>> ELSE <<Signed("done", er), Signed("share", er)>>

\* A variant of Reached, one author early.
ReachedEarly(authors, author, threshold) ==
    author \notin authors /\ Cardinality(authors \cup {author}) = threshold - 1

\* A variant of Reached that counts before it adds the author.
ReachedLate(authors, author, threshold) ==
    author \notin authors /\ Cardinality(authors) = threshold

\* The counting aggregators: a new author whose message makes the threshold.
Reached(authors, author, threshold) ==
    author \notin authors /\ Cardinality(authors \cup {author}) = threshold

handleFinish(n, m) ==
    LET er == NextFrom(n, m).er
        flag == Reached(FinishFlags[n][er], m, HightThreshold)
    IN
    /\ Receive(n, m, "finish")
    /\ FinishFlags' = [FinishFlags EXCEPT ![n][er] = @ \cup {m}]
    /\ TakeAndSend(n, m, IF flag THEN DoneAndShare(n, er) ELSE <<>>)
    /\ DoneFlags' = [DoneFlags EXCEPT ![n] = IF flag THEN @ \cup {er} ELSE @]
    /\ UNCHANGED <<coin, Epoch, HaltFlags, ReadyFlags, doneAuthors, shareAuthors,
                   prevotes, finvotes, leaders, blockStore, commitor, poolVars, spbVars>>

\* A variant of LeaderMessage that takes the node's own SPB instance for the
\* leader's.
OwnMessage(n, er, leader) == NewHalt(leader, generatorBlock(n, er[1]), er)

\* processLeader, with the node ready and the leader known: Halt if the
\* leader's Finish is here, else a prevote for what the node has locked.
LeaderMessage(n, er, leader) ==
    LET e == er[1]
        block == generatorBlock(leader, e)
    IN IF leader \in FinishFlags[n][er] THEN NewHalt(leader, block, er)
       ELSE IF <<er, leader>> \in locked[n] THEN NewPrevote(leader, er, "yes", block)
       ELSE NewPrevote(leader, er, "no", NoHash)

\* A variant of processLeader that does not wait for the leader to be known.
LeaderUnchecked(n, er, ready, leader) ==
    IF er \in ready THEN <<LeaderMessage(n, er, leader)>> ELSE <<>>

processLeader(n, er, ready, leader) ==
    IF er \in ready /\ leader # NONE THEN <<LeaderMessage(n, er, leader)>> ELSE <<>>

\* DoneAggreator.Append tests the low threshold first.
handleDone(n, m) ==
    LET er == NextFrom(n, m).er
        low == Reached(doneAuthors[n][er], m, LowThreshold)
        high == ~low /\ Reached(doneAuthors[n][er], m, HightThreshold)
        ready == IF high THEN ReadyFlags[n] \cup {er} ELSE ReadyFlags[n]
    IN
    /\ Receive(n, m, "done")
    /\ doneAuthors' = [doneAuthors EXCEPT ![n][er] = @ \cup {m}]
    /\ DoneFlags' = [DoneFlags EXCEPT ![n] = IF low THEN @ \cup {er} ELSE @]
    /\ ReadyFlags' = [ReadyFlags EXCEPT ![n] = ready]
    /\ TakeAndSend(n, m, IF low THEN DoneAndShare(n, er)
                         ELSE IF high THEN processLeader(n, er, ready, leaders[n][er])
                         ELSE <<>>)
    /\ UNCHANGED <<coin, Epoch, HaltFlags, FinishFlags, shareAuthors, prevotes,
                   finvotes, leaders, blockStore, commitor, poolVars, spbVars>>

\* Elector.SetLeader
SetLeader(n, er, leader) == leaders' = [leaders EXCEPT ![n][er] = leader]

\* ElectAggreator.Append: the 2f+1st share reveals the coin.
ElectAppend(n, m, er) ==
    IF Reached(shareAuthors[n][er], m, HightThreshold) THEN coin[er] ELSE NONE

\* Elector.AddShareVote, node being what the aggregator answers.
AddShareVote(n, er, node) ==
    IF node # NONE THEN SetLeader(n, er, node) ELSE UNCHANGED leaders

handleElectShare(n, m) ==
    LET er == NextFrom(n, m).er
        node == ElectAppend(n, m, er)
    IN
    /\ Receive(n, m, "share")
    /\ shareAuthors' = [shareAuthors EXCEPT ![n][er] = @ \cup {m}]
    /\ AddShareVote(n, er, node)
    /\ TakeAndSend(n, m, IF node # NONE THEN processLeader(n, er, ReadyFlags[n], node)
                         ELSE <<>>)
    /\ UNCHANGED <<coin, Epoch, HaltFlags, FinishFlags, DoneFlags, ReadyFlags,
                   doneAuthors, prevotes, finvotes, blockStore, commitor,
                   poolVars, spbVars>>

\* A vote joins an aggregator unless its author is already there.
Voters(votes) == votes["yes"] \cup votes["no"]

\* A variant of AddVote that counts every vote of an author.
AddEveryVote(votes, author, flag) == [votes EXCEPT ![flag] = @ \cup {author}]

AddVote(votes, author, flag) ==
    IF author \in Voters(votes) THEN votes ELSE [votes EXCEPT ![flag] = @ \cup {author}]

\* A variant of PrevoteAction that answers the first vote with yes.
PrevoteAnyYes(votes, author, flag) == IF Voters(votes) = {} THEN "yes" ELSE "none"

\* PreVoteAggreator.Append: the first yes answers with a yes FinVote, 2f+1 no
\* votes before any yes with a no FinVote.  The no answer leaves the flag
\* alone, so a yes may still follow it.
PrevoteAction(votes, author, flag) ==
    LET new == AddVote(votes, author, flag) IN
    IF author \in Voters(votes) THEN "none"
    ELSE IF flag = "yes" /\ votes["yes"] = {} THEN "yes"
    ELSE IF Cardinality(new["no"]) = HightThreshold /\ new["yes"] = {} THEN "no"
    ELSE "none"

handlePrevote(n, m) ==
    LET pv == NextFrom(n, m)
        action == PrevoteAction(prevotes[n][pv.er], m, pv.flag)
    IN
    /\ Receive(n, m, "prevote")
    /\ prevotes' = [prevotes EXCEPT ![n][pv.er] = AddVote(@, m, pv.flag)]
    /\ TakeAndSend(n, m, IF action = "none" THEN <<>>
                         ELSE <<NewFinVote(pv.leader, pv.er, action, pv.hash)>>)
    /\ UNCHANGED <<coin, Epoch, HaltFlags, FinishFlags, DoneFlags, ReadyFlags,
                   doneAuthors, shareAuthors, finvotes, leaders, blockStore,
                   commitor, poolVars, spbVars>>

\* FinVoteAggreator.Append: the answer of the first 2f+1 FinVotes.
FinVoteAction(votes, author, flag) ==
    LET new == AddVote(votes, author, flag) IN
    IF author \in Voters(votes) \/ Cardinality(Voters(new)) # HightThreshold THEN "none"
    ELSE IF new["no"] = {} THEN "commit"
    ELSE IF new["yes"] = {} THEN "no"
    ELSE "yes"

\* A variant of NextRound that keeps the own block after "yes" as well.
NextRoundOwn(n, er, action, hash) ==
    LET own == generatorBlock(n, er[1])
    IN IF <<er, n>> \in accepted[n] /\ own \in blockStore[n] /\ er[2] < MaxRound
       THEN <<Proposal(own, er[1], er[2] + 1)>> ELSE <<>>

\* advanceNextRound: propose in the next round, the own block after "no", the
\* block of the last FinVote after "yes".  A block that is not in the store is
\* an error and there is no proposal.
NextRound(n, er, action, hash) ==
    LET own == generatorBlock(n, er[1])
        b == IF action = "yes" THEN hash
             ELSE IF <<er, n>> \in accepted[n] THEN own ELSE NoHash
    IN IF b \in blockStore[n] /\ er[2] < MaxRound
       THEN <<Proposal(b, er[1], er[2] + 1)>> ELSE <<>>

handleFinvote(n, m) ==
    LET fv == NextFrom(n, m)
        action == FinVoteAction(finvotes[n][fv.er], m, fv.flag)
    IN
    /\ Receive(n, m, "finvote")
    /\ finvotes' = [finvotes EXCEPT ![n][fv.er] = AddVote(@, m, fv.flag)]
    /\ TakeAndSend(n, m,
            CASE action = "none"   -> <<>>
              [] action = "commit" -> <<NewHalt(fv.leader, fv.hash, fv.er)>>
              [] OTHER             -> NextRound(n, fv.er, action, fv.hash))
    /\ UNCHANGED <<coin, Epoch, HaltFlags, FinishFlags, DoneFlags, ReadyFlags,
                   doneAuthors, shareAuthors, prevotes, leaders, blockStore,
                   commitor, poolVars, spbVars>>

\* handleHalt, handleOutput and advanceNextEpoch.  The leader is recorded
\* first; if the block is not in the store that is all that happens.
handleHalt(n, m) ==
    LET h == NextFrom(n, m)
        e == h.er[1]
        ok == verifyConsensusBlock(n, h.hash)
    IN
    /\ Receive(n, m, "halt")
    /\ e \notin HaltFlags[n]
    /\ SetLeader(n, h.er, h.leader)
    /\ IF h.hash \notin blockStore[n]
       THEN /\ TakeAndSend(n, m, <<>>)
            /\ UNCHANGED <<Epoch, HaltFlags, commitor, pending>>
       ELSE /\ commitor' = IF ok THEN [commitor EXCEPT ![n] = Commit(@, h.hash)]
                           ELSE commitor
            /\ Fetch(n, h.hash)
            /\ HaltFlags' = [HaltFlags EXCEPT ![n] = @ \cup {e}]
            /\ Epoch' = [Epoch EXCEPT ![n] = e + 1]
            /\ TakeAndSend(n, m, FirstProposal(n, e + 1))
    /\ UNCHANGED <<coin, voteVars, blockStore, missing, spbVars>>

-----------------------------------------------------------------------------
(* The mempool and the SPB instances, beside the handlers. *)

\* The payloads of a block reach the mempool.
PayloadArrives(n, b) ==
    /\ b \in missing[n]
    /\ missing' = [missing EXCEPT ![n] = @ \ {b}]
    /\ UNCHANGED <<coin, netVars, Epoch, HaltFlags, voteVars, leaders,
                   blockStore, commitor, pending, spbVars>>

\* The synchronizer reports a block whose payloads have come.  The proposal
\* is rebuilt for round 0 whatever round it was in.
handleLoopBack(n, b) ==
    LET er == <<b.epoch, 0>>
        late == b.epoch \in HaltFlags[n] /\ leaders[n][er] = b.proposer
        ok == verifyConsensusBlock(n, b)
    IN
    /\ b \in pending[n] /\ ok
    /\ pending' = [pending EXCEPT ![n] = @ \ {b}]
    /\ IF b \notin blockStore[n]
       THEN UNCHANGED <<commitor, calls>>
       ELSE /\ commitor' = IF late THEN [commitor EXCEPT ![n] = Commit(@, b)]
                           ELSE commitor
            /\ calls' = IF messgaeFilter(n, b.epoch) THEN calls
                        ELSE [calls EXCEPT ![n] = @ \cup {<<er, b.proposer>>}]
    /\ UNCHANGED <<coin, netVars, Epoch, HaltFlags, voteVars, leaders, blockStore,
                   missing, accepted, locked, finished, selfFinish>>

\* An SPB instance i = <<er, proposer>> accepts the block on node n.
SpbAccept(n, i) ==
    /\ i \in calls[n]
    /\ calls' = [calls EXCEPT ![n] = @ \ {i}]
    /\ accepted' = [accepted EXCEPT ![n] = @ \cup {i}]
    /\ UNCHANGED <<coin, netVars, Epoch, HaltFlags, voteVars, leaders,
                   blockStore, commitor, poolVars, locked, finished, selfFinish>>

SpbLock(n, i) ==
    /\ i \in accepted[n] \ locked[n]
    /\ Cardinality({m \in Node : i \in accepted[m]}) >= HightThreshold
    /\ locked' = [locked EXCEPT ![n] = @ \cup {i}]
    /\ UNCHANGED <<coin, netVars, Epoch, HaltFlags, voteVars, leaders,
                   blockStore, commitor, poolVars, calls, accepted, finished,
                   selfFinish>>

\* The proposer's processVote sends Finish to the others ...
SpbFinish(n, er) ==
    /\ er \notin finished[n]
    /\ Cardinality({m \in Node : <<er, n>> \in locked[m]}) >= HightThreshold
    /\ finished' = [finished EXCEPT ![n] = @ \cup {er}]
    /\ log' = [log EXCEPT ![n] = Append(@, Signed("finish", er))]
    /\ UNCHANGED <<coin, cur, self, Epoch, HaltFlags, voteVars, leaders, blockStore,
                   commitor, poolVars, calls, accepted, locked, selfFinish>>

\* ... and then to itself; the handlers may have sent something in between.
SpbFinishSelf(n, er) ==
    /\ er \in finished[n] \ selfFinish[n]
    /\ selfFinish' = [selfFinish EXCEPT ![n] = @ \cup {er}]
    /\ self' = [self EXCEPT ![n] = Append(@, Signed("finish", er))]
    /\ UNCHANGED <<coin, log, cur, Epoch, HaltFlags, voteVars, leaders, blockStore,
                   commitor, poolVars, calls, accepted, locked, finished>>

Handle(n, m) ==
    \/ Discard(n, m)
    \/ handleSpbProposal(n, m)
    \/ handleFinish(n, m)
    \/ handleDone(n, m)
    \/ handleElectShare(n, m)
    \/ handlePrevote(n, m)
    \/ handleFinvote(n, m)
    \/ handleHalt(n, m)

Next ==
    \E n \in Active :
        \/ \E m \in Active : Handle(n, m)
        \/ \E b \in Block : PayloadArrives(n, b) \/ handleLoopBack(n, b)
        \/ \E i \in ER \X Active : SpbAccept(n, i) \/ SpbLock(n, i)
        \/ \E er \in ER : SpbFinish(n, er) \/ SpbFinishSelf(n, er)

Spec == Init /\ [][Next]_vars

\* Every step takes a message off a link or moves an SPB instance on, and none
\* is ever undone, so a run in which something happens as long as something can
\* handles every message and completes every SPB instance that can complete.
FairSpec == Spec /\ WF_vars(Next)

-----------------------------------------------------------------------------
(* Core uses other parts by what they promise. *)

\* The SPB instance of proposer p in round er, as ProvableBroadcast has it.
Broadcast(er, p) == INSTANCE ProvableBroadcast WITH
    Quorum   <- {Q \in SUBSET Node : Cardinality(Q) >= HightThreshold},
    accepted <- {n \in Node : <<er, p>> \in accepted[n]},
    locked   <- {n \in Node : <<er, p>> \in locked[n]},
    finished <- er \in finished[p]

\* The mempools and their synchronizers, as PayloadFetch has them.
Payloads == INSTANCE PayloadFetch WITH owed <- pending

-----------------------------------------------------------------------------

\* The committed sequences of two nodes agree as far as both go: the check
\* benchmark/consistency.py makes of the nodes' logs after a run.
Agreement ==
    \A n, m \in Node :
        \A k \in 1..Len(commitor[n].out) :
            k <= Len(commitor[m].out) => commitor[n].out[k] = commitor[m].out[k]

\* A node learns the leader of a round, by 2f+1 coin shares or from a Halt, only
\* after 2f+1 proposers have sent Finish in that round.  Done messages are
\* amplified at f+1, so no node counts the Finish messages on all paths.
CoinNeedsFinishQuorum ==
    \A n \in Node, er \in ER :
        leaders[n][er] # NONE =>
            Cardinality({m \in Node : er \in finished[m]}) >= HightThreshold

\* Two nodes never count the FinVote of an author differently, although
\* PreVoteAggreator can make an author send a no and later a yes: links are
\* FIFO and the aggregators keep the first vote of an author.
FinVoteConsistent ==
    \A n, m \in Node, er \in ER :
        finvotes[n][er]["yes"] \cap finvotes[m][er]["no"] = {}

\* No node sees 2f+1 yes FinVotes of a round, and halts on its leader's block,
\* while another sees 2f+1 no FinVotes and goes on with its own block.
CommitExcludesNo ==
    \A n, m \in Node, er \in ER :
        ~ /\ Cardinality(finvotes[n][er]["yes"]) >= HightThreshold
          /\ Cardinality(finvotes[m][er]["no"]) >= HightThreshold

\* A node commits one block per epoch, in the order of the epochs, also when a
\* Halt of a later epoch overtakes that of an earlier one or a payload is late.
CommittedInOrder ==
    \A n \in Node : \A k \in 1..Len(commitor[n].out) : commitor[n].out[k].epoch = k - 1

\* A committed block is one that 2f+1 nodes accepted in some round whose coin
\* selected its proposer, whether a Finish or 2f+1 yes FinVotes led to the Halt.
CommitSupported ==
    \A n \in Node : \A k \in 1..Len(commitor[n].out) :
        LET b == commitor[n].out[k] IN
        \E r \in Rounds :
            /\ coin[<<b.epoch, r>>] = b.proposer
            /\ Cardinality({m \in Node : <<<<b.epoch, r>>, b.proposer>> \in accepted[m]})
                  >= HightThreshold

\* 2f+1 nodes have accepted the block of p in round er.
AcceptQuorum(er, p) ==
    Cardinality({m \in Node : <<er, p>> \in accepted[m]}) >= HightThreshold

\* Every Halt, made of a Finish by processLeader or of 2f+1 yes FinVotes by
\* handleFinvote, names the block of a proposer of its epoch, and 2f+1 nodes
\* have accepted that block in the very round of the Halt.
HaltSupported ==
    \A n \in Node : \A k \in 1..Len(log[n]) :
        log[n][k].type = "halt" =>
            \E p \in Node : /\ log[n][k].hash = generatorBlock(p, log[n][k].er[1])
                            /\ AcceptQuorum(log[n][k].er, p)

\* The messages of a type that are on the links.
Sent(type) ==
    {x \in UNION {{log[n][k] : k \in 1..Len(log[n])} : n \in Node} : x.type = type}

\* No node has locked a leader's block that it voted no on.
LocksBeforeVotes ==
    \A n \in Node : \A k \in 1..Len(log[n]) :
        LET x == log[n][k] IN
        x.type = "prevote" /\ x.flag = "no" => <<x.er, coin[x.er]>> \notin locked[n]

\* Prevotes and Halts are about the node the coin selected.
CoinFollowed ==
    /\ \A x \in Sent("prevote") : x.leader = coin[x.er]
    /\ \A x \in Sent("halt") : x.hash = generatorBlock(coin[x.er], x.er[1])

\* All Halts of an epoch name one block.
OneBlockHalts == \A g, h \in Sent("halt") : g.er[1] = h.er[1] => g.hash = h.hash

\* The Halts of an epoch, in whatever rounds they are made, name one block, unless
\* a node locks the leader's block after it has voted no on it, or takes another
\* node for the leader.  After a Halt, advanceNextRound leaves no more than one
\* node with a block of its own to propose in the next round.
HaltsAgree == LocksBeforeVotes /\ CoinFollowed => OneBlockHalts

\* Node n has sent a message of the given type in round er.
HasSent(n, type, er) ==
    \E k \in 1..Len(log[n]) : log[n][k].type = type /\ log[n][k].er = er

\* In whatever order the messages of a round come, a node takes each step of the
\* round: Done and its coin share after 2f+1 Finish or f+1 Done messages, a prevote
\* or a Halt when it has 2f+1 Done messages and 2f+1 coin shares, a FinVote after
\* 2f+1 prevotes.  Each aggregator answers only at the very message that makes its
\* threshold: an answer that its handler cannot use yet does not come again.
NoStepMissed ==
    \A n \in Node, er \in ER :
        /\ \/ Cardinality(FinishFlags[n][er]) >= HightThreshold
           \/ Cardinality(doneAuthors[n][er]) >= LowThreshold
           => HasSent(n, "done", er) /\ HasSent(n, "share", er)
        /\ /\ Cardinality(doneAuthors[n][er]) >= HightThreshold
           /\ Cardinality(shareAuthors[n][er]) >= HightThreshold
           => HasSent(n, "prevote", er) \/ HasSent(n, "halt", er)
        /\ Cardinality(Voters(prevotes[n][er])) >= HightThreshold
           => HasSent(n, "finvote", er)

\* Every node commits every epoch, through as many rounds as it takes for the
\* coin to select a node that runs.
EveryEpochCommitted ==
    (\A e \in Epochs : \E r \in Rounds : coin[<<e, r>>] \in Active)
        ~> (\A n \in Active : Index(commitor[n]) > MaxEpoch)

=============================================================================
