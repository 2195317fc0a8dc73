----------------------------- MODULE Committor -----------------------------
(***************************************************************************)
(* The Committor of src/core/smvba/consensus/commitor.go and the consumer *)
(* of its call-backs in src/node/node.go: the Core goroutine inside       *)
(* Commit, the goroutine run, and the one in AnalyzeBlock.  Commit and    *)
(* run meet on an unbuffered channel; run and AnalyzeBlock share a        *)
(* bounded one.                                                           *)
(***************************************************************************)
EXTENDS Integers, Sequences

CONSTANTS
    Proposer,   \* the nodes blocks come from
    MaxEpoch,   \* bound: the last epoch a block is of
    NoBlock,    \* no entry in the map Blocks
    CallBackCap \* the capacity of commitChannel

Epochs == 0..MaxEpoch
Block  == [proposer : Proposer, epoch : Epochs]

ASSUME CommittorAssumption ==
    /\ MaxEpoch \in Nat
    /\ NoBlock \notin Block
    /\ CallBackCap \in Nat \ {0}

VARIABLES
    Index,      \* Committor.Index
    Blocks,     \* Committor.Blocks
    core,       \* the Core goroutine: "away", or "loop" inside Commit
    run,        \* run's goroutine: "receive", "commit" or "callback"
    block,      \* the block run holds
    committed,  \* the blocks run has logged as committed
    callBack    \* the number of call-backs in commitChannel

commitVars == <<Index, Blocks, core, run, block, committed, callBack>>

CommitTypeOK ==
    /\ Index \in 0..(MaxEpoch + 1)
    /\ Blocks \in [Epochs -> Block \cup {NoBlock}]
    /\ core \in {"away", "loop"}
    /\ run \in {"receive", "commit", "callback"}
    /\ block \in Block \cup {NoBlock}
    /\ committed \in Seq(Block)
    /\ callBack \in 0..CallBackCap

CommitInit ==
    /\ Index = 0
    /\ Blocks = [e \in Epochs |-> NoBlock]
    /\ core = "away"
    /\ run = "receive"
    /\ block = NoBlock
    /\ committed = <<>>
    /\ callBack = 0

-----------------------------------------------------------------------------

\* Core calls Commit.  Blocks come in any order, and a second block of an epoch
\* replaces one that still waits.
Commit(b) ==
    /\ core = "away"
    /\ IF b.epoch < Index
       THEN UNCHANGED <<Blocks, core>>
       ELSE /\ Blocks' = [Blocks EXCEPT ![b.epoch] = b]
            /\ core' = "loop"
    /\ UNCHANGED <<Index, run, block, committed, callBack>>

\* The block of epoch Index is in the map.
HasNext == Index \in Epochs /\ Blocks[Index] # NoBlock

\* A variant of HandOver that does not move Index.
HandOverAgain ==
    /\ core = "loop"
    /\ HasNext
    /\ run = "receive"
    /\ block' = Blocks[Index]
    /\ run' = "commit"
    /\ Blocks' = [Blocks EXCEPT ![Index] = NoBlock]
    /\ UNCHANGED <<Index, core, committed, callBack>>

\* Commit's loop hands the next block to run, which must be waiting for it.
HandOver ==
    /\ core = "loop"
    /\ HasNext
    /\ run = "receive"
    /\ block' = Blocks[Index]
    /\ run' = "commit"
    /\ Blocks' = [Blocks EXCEPT ![Index] = NoBlock]
    /\ Index' = Index + 1
    /\ UNCHANGED <<core, committed, callBack>>

\* A variant of CommitReturns that leaves the loop at any time.
CommitReturnsEarly ==
    /\ core = "loop"
    /\ core' = "away"
    /\ UNCHANGED <<Index, Blocks, run, block, committed, callBack>>

CommitReturns ==
    /\ core = "loop"
    /\ ~HasNext
    /\ core' = "away"
    /\ UNCHANGED <<Index, Blocks, run, block, committed, callBack>>

\* run logs the block as committed.
LogCommit ==
    /\ run = "commit"
    /\ committed' = Append(committed, block)
    /\ run' = "callback"
    /\ UNCHANGED <<Index, Blocks, core, block, callBack>>

\* run sends on callBack, and blocks while the channel is full.
CallBack ==
    /\ run = "callback"
    /\ callBack < CallBackCap
    /\ callBack' = callBack + 1
    /\ run' = "receive"
    /\ UNCHANGED <<Index, Blocks, core, block, committed>>

\* Node.AnalyzeBlock takes a call-back off the channel.
AnalyzeBlock ==
    /\ callBack > 0
    /\ callBack' = callBack - 1
    /\ UNCHANGED <<Index, Blocks, core, run, block, committed>>

CommitNext ==
    \/ \E b \in Block : Commit(b)
    \/ HandOver
    \/ CommitReturns
    \/ LogCommit
    \/ CallBack
    \/ AnalyzeBlock

CommitSpec == CommitInit /\ [][CommitNext]_commitVars

\* The three goroutines run; nothing obliges Core to call Commit.
CommitFairSpec ==
    /\ CommitSpec
    /\ WF_commitVars(HandOver \/ CommitReturns)
    /\ WF_commitVars(LogCommit)
    /\ WF_commitVars(CallBack)
    /\ WF_commitVars(AnalyzeBlock)

-----------------------------------------------------------------------------

\* The committor promises an ordered log: whatever order Core passes blocks in,
\* each epoch is logged once, after the one before it, and never taken back.
Log == INSTANCE OrderedLog

ImplementsLog == Log!Spec

\* Commit and run never drift apart by more than the block run holds: with
\* Commit back, every block that could be handed over is logged or about to be.
HandedOverInStep ==
    /\ Index = Len(committed) + (IF run = "commit" THEN 1 ELSE 0)
    /\ core = "away" => ~HasNext

\* A block passed to Commit is logged, once blocks of all earlier epochs have
\* been passed too: no block is lost between the map, the hand-over and a full
\* call-back channel.
Ready(e) == \A d \in 0..e : d < Index \/ Blocks[d] # NoBlock

EveryReadyCommitted == \A e \in Epochs : Ready(e) ~> Len(committed) > e

=============================================================================
