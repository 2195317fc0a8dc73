# sMVBA in TLA+

A formal model of the Go implementation of sMVBA (asynchronous Byzantine
agreement with a common coin) in this repository. TLA+ modules model its
components. TLC checks them on small committees, and TLAPS proves the main
properties for every committee and every bound.

## The system

| Part | Source | State | Operations |
|---|---|---|---|
| committee | `core/config.go` | members, `Faults` | `Size`, `HightThreshold` (2f+1), `LowThreshold` (f+1) |
| SPB, strong provable broadcast | `core/smvba/consensus/spb.go` | `BlockHash`, `LockFlag`, `Votes`, `unHandleVote`, `unHandleProposal` | `processProposal` (two phases), `processVote`; one goroutine per call |
| core | `core.go`, `aggreator.go`, `elector.go` | `Epoch`, the flag maps, the aggregators, `leaders` | one handler per message type, `handleLoopBack`; one goroutine |
| committor | `commitor.go`, `node/node.go` | `Index`, `Blocks`, two channels | `Commit`, `run`, `AnalyzeBlock`; three goroutines |
| messages | `message.go` | | constructors, hashes, signatures |
| transport | `core/transmitor.go`, `mempool/transmit.go`, `network/` | channels, TCP connections | `Send`, `RecvChannel`, `Sender.Run`, `Receiver.Run` |
| mempool | `mempool/mempool.go` | `Queue`, store | own and other blocks, requests, block making, verify |
| synchronizer | `mempool/synchronizer.go` | `pending`, waiters | `Verify`, retry ticker, loop back |
| store | `store/` | key-value map, waiting reads | `Read`, `Write`, `NotifyRead` |
| transaction pool | `pool/pool.go` | ring buffer, batch channel | producer, `GetBatch`, `BatchChannel` |
| signature service | `crypto/crypto.go` | `reqCh` | `RequestSignature`, `RequestTsSugnature` |
| start-up | `node/node.go`, `consensus.go` | open ports | `NewNode`, `Consensus`: wait for all peers, twice |
| config, logger, main, benchmark | | | no protocol state |

An epoch decides one block. In round 0 every node broadcasts a block through
its SPB instance. Phase one collects 2f+1 votes, phase two locks, and 2f+1 locks
give a Finish message. 2f+1 Finish messages make a node send Done and a coin
share. Done is amplified at f+1 and makes a node ready at 2f+1; 2f+1 shares
reveal the leader. A ready node that has the leader's Finish sends Halt, the
others a prevote (yes if the leader's block is locked). The prevotes give
FinVotes, and 2f+1 FinVotes give Halt (all yes) or the next round. A Halt
outputs the block to the committor and starts the next epoch. Payloads travel
separately: a node that lacks payloads of a block asks for them and handles the
block again when they have come (loop back).

What makes it hard: the calls of one SPB instance race with each other; an
instance goes on after its round has been voted on; Done, shares, votes and
Halts of several rounds and epochs arrive in any order between links; payloads
come late; the committor gets epochs out of order and can be held up by its
consumer. Below the protocol, goroutines wait for each other on bounded
channels, requests are lost and repeated, and a lost wake-up or a message
dropped by a broken connection would stop a node for good. `PROJECT.json` lists
these hazards with their lines and properties.

## Modules

| Module | What it is |
|---|---|
| `Committee` | the nodes, the faulty ones and the thresholds |
| `ProvableBroadcast` | abstract: accept, lock after 2f+1 accepts, finish after 2f+1 locks |
| `SPB` | one instance of `spb.go` on all nodes, at the grain of its goroutines |
| `OrderedLog` | abstract: an append-only log with one block per epoch, in order |
| `Committor` | `commitor.go` and the consumer of the call-backs |
| `Core` | the handlers of `core.go` on all nodes, with aggregators, elector and committor |
| `Links` | abstract: FIFO links that may leave out some first messages and may stop |
| `Network` | `network.go` and the channels around it, with failing dials and connections |
| `Startup` | the ports and the two barriers of `NewNode` and `Consensus` |
| `PayloadFetch` | abstract: what `Core` relies on when its mempool answers `Wait` |
| `Mempool` | mempool and synchronizer of all nodes, over a network that loses messages |
| `PayloadDigest` | `Block.Hash` of `mempool/message.go`, by the digits it hashes |
| `Store` | the store's goroutine and its clients |
| `BatchStream` | abstract: all transactions in order, in numbered batches |
| `TxPool` | `pool.go` and the two consumers of its batches |
| `SigService` | the signature service of `crypto.go` and its callers |
| `Services` | `Store`, `TxPool`, `SigService`, `Network`, `Startup` and `PayloadDigest` side by side |
| `MCSPB`, `MCCore`, `MCMempool`, `MCServices` | what TLC needs: symmetry sets, coins, schedules, small instances |
| `SPB_proofs`, `Mempool_proofs`, `Network_proofs` | the theorems about one module each |
| `Core_proofs`, `CoreVotes_proofs`, `CoreCoin_proofs`, `CoreAgreement_proofs` | the theorems about `Core`: types, order and the steps of a round, FinVotes and Halts, what coin and Halt stand on, and agreement |
| `Services_proofs` | the theorems about `Committor`, `Store`, `TxPool`, `Startup`, `SigService` and `Services` |

`Core` uses the SPB instances by the abstract steps of `ProvableBroadcast`
(`SpbAccept`, `SpbLock`, `SpbFinish`), which `SPB` is shown to implement. It
uses the committor as one atomic operator; `Committor` is shown to implement
the ordered log that operator builds. Its logs and cursors are the links of
`Links` with nothing left out. `Network` implements `Links`, and only a failed
dial leaves a message out; `Startup` says why the first dials do not fail. The
`missing` and `pending` of `Core` take the steps of `PayloadFetch`, which `Mempool`
implements. That `Core` takes no steps but those `ProvableBroadcast` and
`PayloadFetch` allow is proved (`BroadcastUsed`, `FetchUsed`). `Mempool` in turn
takes the store as a set of keys on which a waiter waits (`Store`: no wake-up is
lost), its batches from the pool in order (`TxPool`), and a payload's author and
number for its digest (`PayloadDigest`: sound for four nodes, not for seven).

### SPB

A step is what a call of `processProposal` or `processVote` does between two
points where another call may interfere. Phase one is `OneLoad` (the test at
the top), `OneStore` (hash and vote), `OneDrain` (the buffers). Phase two is
`TwoLoad`, then `TwoBuffer` or `TwoLock`. A vote is `VoteLoad`, then
`VoteBuffer` or `VoteCount`. `prop` and `vote` say where each call is.
`Retry` is the set of nodes on which `handleLoopBack` makes a second phase-one
call. `ownBlock` is false for a later round's proposal that adopts another
node's block, which the instance ignores.

### Core

A handler is one action; it takes the next message of one link and makes all of
the handler's changes and sends. Links are FIFO, as TCP connections are: `log[n]`
is everything n has broadcast and `cur[n][m]` how far n has read `log[m]`. A
node's own messages come through `self[n]`, its `RecvChannel`. The coin is a
function `coin` fixed in the initial state, since the threshold signature is a
function of epoch and round; nodes see its value when `ElectAppend` reveals it.
A block is named by its proposer and epoch, because `generatorBlock` makes one
per epoch: the branch of `advanceNextRound` that would make another is never
taken, as nutsdb answers a missing key with an error of its own and not with
`ErrNotFoundKey`. For the same reason a Halt for an unknown block ends in an
error after the leader has been set. `missing[n]` are the blocks whose payloads
node n lacks, `pending[n]` those its synchronizer is fetching.

Abstractions of `Core`, and why they are sound for what is checked:

* Nodes in `Faulty` never start (`Name < Faults`); no node sends forged
  messages, so signature checks always succeed.
* Links lose nothing. A link that stops for good is covered by the safety checks
  (its messages are read arbitrarily late). A message lost with later ones of
  the same link delivered is not: `Network` shows that only a failed dial does
  this, before the first message of the link has arrived.
* An SPB instance may lock or finish on a node that has left the epoch, where
  the code drops the message. This only adds behaviours. `Core_agreement`
  forbids these steps by its action constraint, so its counterexample does not
  use them.
* An SPB instance does not lose calls in its buffers, and 2f+1 accepting nodes
  do lead to locks. This is an assumption of the liveness runs of `Core`;
  `SPB_refines` says exactly when it fails.
* A node that asks twice for the payloads of one block is in `pending` once. A
  second loop back of a block would find it handled; in `SPB` the second
  phase-one call it makes is `Retry`.

### Committor

The Core goroutine (`Commit`, `HandOver`, `CommitReturns`), `run` (`LogCommit`,
`CallBack`) and `AnalyzeBlock`. `commitCh` is unbuffered, so `HandOver` is a
rendezvous. The capacity of `commitChannel` is a constant.

### Network and Startup

The k-th message of a node is named k. `Send` puts it on `msgCh` with its
addresses, `Run` takes it off, and `Forward`, `Connect` and `ConnectFails` are
the three outcomes of `Sender.Run` at one address. `Write` is the goroutine of a
connection: on a broken one it drops the message and goes on. `serveConn` and
`Recv` are the other side. `Break` and `Restart` are the faults; what had been
written before a break may still arrive in part. Two channels with nothing but
a copying goroutine between them are one queue. `sent`, `failed` (messages whose
dial failed) and `delivered` are history and the variables of `Links`. Gob encoding is left out.

In `Startup` a node opens the port of a layer, dials every peer until it
answers, and goes on to the next layer. A dial that fails is no step, since it
is repeated.

### Mempool, Store and digests

In `Mempool` a handler is one action, since one goroutine handles a node's
messages and requests. The synchronizer (`SyncBlock`, `LoopBack`, `Retry`) and a
`waiter` for each block run beside it. A missing list is the set of positions of
its payloads in the block, because `waiter` and `HandleRequestBlock` go through
it in order. The network is a set: messages may overtake each other, which adds
behaviours, and equal messages in flight count once. `Lose` takes one message
away, `Break` all later ones of a link; `MaxFaults` bounds both together. `owed` is
history: the blocks answered with `Wait` and not looped back since. The queue is
a Go map, so `HandleMakeBlockMsg` takes any `MaxPayloadSize` payloads of it in any order.

In `Store` every client has one call open. An answer goes to a channel that has
room for it, so handling and answering a request are one step; `AskedOnce` is
what makes that sound. `PutFails` says whether `db.Put` may fail; nutsdb itself
is external.

`PayloadDigest` keeps of `Block.Hash` the digits it hashes and takes SHA-256 to
be injective. `txMaker` makes transactions of zero bytes only, so the
transactions tell no two batches apart.

### TxPool and SigService

`TxPool` numbers the transactions. `Enqueue` is one turn of `txQueue.run` with
`make()` up to its send, `SendBatch` the send, which waits while the channel is
full. `GetCheck` and `GetReceive` are the test and the receive of `get`, between
which `Generate` may come. The rate of `txMaker` is left out.

In `SigService` the service goroutine (`TakeRequest`, then `Sign` or `Go`), a
goroutine for each share (`SignShare`) and the callers (`RequestSignature`, `Return`)
share `reqCh` (`sigCh`).
What is signed is left out.

### Services

`NewNode` makes these parts one after the other; they share no state, and each is
reached by calls or messages that its own module makes at any time. `Services`
extends the modules of its parts, so their specifications have names of their
own (`StoreSpec`, `PoolSpec`, `NetSpec`, `StartSpec`, `SigSpec`). The initial state
chooses one part, and only that one moves. Interleaving them would multiply the
states and show nothing more.

## What TLC checks

| Run | Instance | Shows |
|---|---|---|
| `spb_refines` | 4 nodes, one call each, fair | `ImplementsPB`; `FinishesUnlessLost`: only the check-then-buffer race can stop an instance |
| `spb_loopback` | 4 nodes, a second phase-one call on one | `VotesCountedOnce`, `LockImpliesHash`, `FinishImpliesLockQuorum` |
| `committor_log` | 4 epochs, 2 proposers, channel of 2, fair | `ImplementsLog`, `HandedOverInStep`, `EveryReadyCommitted` |
| `core_crash` | 4 nodes, 1 faulty, 2 rounds, every coin | `Agreement`, `CommitSupported`, `CoinNeedsFinishQuorum`, `HaltSupported`, `NoStepMissed` |
| `core_votes` | 4 running nodes, 2 rounds | `FinVoteConsistent`, `CommitExcludesNo`, `HaltsAgree` |
| `core_epochs` | 4 running nodes, 2 epochs, a late node without payloads | `Agreement`, `CommittedInOrder` |
| `core_live` | 4 nodes, 1 faulty, 2 rounds, a node without payloads, fair | `EveryEpochCommitted` |
| `core_agreement` | 4 running nodes, 2 rounds | violated: `Agreement` |
| `core_late` | 4 running nodes, 1 round, a late node without payloads | violated: `Agreement` |
| `core_payload` | 4 running nodes, 2 rounds, fair | violated: `EveryEpochCommitted` |
| `mempool` | 3 nodes, 2 blocks, 2 payloads, 1 lost message or broken connection, fair | `ImplementsFetch`, `WaitWatched`, `DoneIsComplete`, `ProposedOnce`, `WaitLoopedBack` |
| `services` | the six parts, as below, fair | see the next table |

The types of `SPB` and `Committor` are left to the proofs (`TypeCorrect`,
`CommitTypes`). What `services` checks, part by part (`TypeOK` is the types of all
of them):

| Part | Instance | Shows |
|---|---|---|
| store | 3 clients, 2 keys, 4 calls, failing writes | `AskedOnce`, `NoLostWakeup`, `NotifyAnswered` |
| pool | batches of 3, buffer of 4, 15 transactions | `BufferInOrder`, `ImplementsStream`, `GetReturns` |
| transport | 3 nodes, one never reads, 4 messages, 1 failed dial, broken connection or restart | `ImplementsLinks`: only messages before the first successful dial are left out; `ReadersServed`: a peer that does not read holds up the others only when all on the way to it is full |
| start-up | 3 nodes | `PeersListen`, `AllRun` |
| signatures | 3 callers, 2 calls each, queue of 2 | `RequestInOnePlace`, `EveryCallReturns` |
| digests | 4 nodes, 6 batches each | `DistinctDigests` |

**Bounds.** Four nodes is the smallest committee with f = 1 and with 2f+1
different from the committee. Two rounds are enough to go on after a failed
leader, two epochs for messages of one epoch to meet a node in another.
`MaxEpoch` and `MaxRound` stop the proposals; an epoch after the last is
entered and idle, so runs of `Core` end and deadlock is not an error there, nor
in `SPB`, where an instance is complete at some point. The committor may be
called at any time and is checked for deadlock. The other modules stop when
their messages, batches or calls are used up; that nothing gets stuck before is
what their liveness properties say.

The channels of `Network` hold one message, so that every one of them fills up
and every goroutine has to wait, and the fourth message finds the way to the
peer that does not read full; three nodes are a sender, that peer and one that
must not notice. In `Mempool` one node makes a block of two payloads, of which
another may lack any; the queue of two payloads is full now and then, and turns
payloads away, asked for or not. The connection that may break (`Breakable`) is the
one on which the proposer answers, so that only the third node can help; the
action constraint `QueueFirst` leaves out blocks of the verifier made without a
payload from others. The buffer of `TxPool` is as small as `BatchSize` allows, with
enough transactions to wrap around three times. In `PayloadDigest` six batches
of four nodes give IDs of one to five digits. When the committee size is a power
of two, an ID ends in the node's own bits, which is why four nodes are safe.

**Schedules.** With one faulty node, three nodes run, and `core_crash` and `core_live`
explore every interleaving of their handlers and SPB steps (a node's own Finish reaches
its `RecvChannel` at once; in `core_live` a phase-one call also runs as soon as it
is started). All quorums are then unanimous among the running
nodes. The runs with four running nodes follow `PromptSpec` of `MCCore`: chosen
links and SPB instances are free, and everything else happens as soon as it can
in a fixed order. Every behaviour of `PromptSpec` is one of `Spec`, so the
violations are real behaviours of the model, and what passes there is checked
for those schedules only. In `core_votes` the first round is the free one; the
second (`HeldRounds`) goes on when a Halt of the first is on its way, in a fixed
order and before any Halt is taken, so that nodes halt in both rounds. An action constraint cuts further steps that cannot
matter (`LockBeforeLeader`) or do not lead to the case the run is about
(`SlowUnheard`, `LocksFirst`). In every instance of `MCCore` the set of nodes
that may be exchanged (`Perms`) contains only running nodes with the same role.

**Fairness.** `SPB`: every goroutine that can take a step takes it, and what is
sent is delivered. `Committor`: the three goroutines run; nothing obliges Core to
call `Commit`. `Core`: weak fairness of `Next` as a whole is enough, since every
step consumes a message or moves an SPB instance on for good, so a behaviour
that goes on while it can handles every message. This is the progress of the
Go scheduler and of TCP links that stay up. `Network`, `Startup`, `Store`,
`SigService`: weak fairness of every goroutine that can run; nobody has to send,
call or be started. As in `Core`, one condition for all goroutines of a part is
enough where every step moves something on for good. `Mempool`: weak fairness of
the goroutines taken together, of handling new payloads that have come, of
handling the requests for a block, and of the ticker for a block that stays
pending; this is less than each goroutine by itself, which the scheduler gives.
The pool, the core and the faults are free. `TxPool`: also strong fairness of the receive
in `get`, because Go serves the receivers that wait on a channel in their order.

### Disagreements between code and documentation

* `core_agreement`. SPB instances are not abandoned when a round is voted on.
  Three nodes vote no on the leader of round 0, go to round 1 and halt there;
  they have meanwhile locked the first leader's block, its Finish comes about
  and the first leader halts with its own block. `benchmark/consistency.py`
  requires the logs to agree.
* `core_late`. `NewFinVote` drops the leader, so a Halt made from FinVotes names
  node 0. A node that lacks payloads of the decided block then commits node 0's
  proposal when it arrives.
* `core_payload`. `handleLoopBack` treats every block as one of round 0. A block
  elected in a later round whose payloads came late is never committed.

### Other observations

These came up in modelling and have no run of their own.

* `Sender` keeps a connection for ever, and the goroutine behind it goes on after
  every write error (`network.go:32`, `66`): nothing reaches a peer whose receiver
  has been restarted. `network/test/network_test.go:126` restarts the receiver and
  expects the next message to arrive.
* `Block.Hash` puts the digits of two numbers next to each other
  (`mempool/message.go:50`). With seven nodes batch 22 of node 1 and batch 6 of
  node 6 both hash the digits 110110, and a node that has one of the two discards
  the other as known. `DistinctDigests` is violated for `N = 7`.
* The store wakes those who wait for a key even if writing it has failed
  (`store.go:62`). `WokenHasValue` is violated if `PutFails`, and proved otherwise.
* The comment on the synchronizer's ticker (`synchronizer.go:137`) says that nobody
  else is asked after a timeout; the code (line 150) asks all nodes, and
  `WaitLoopedBack` depends on it.

## What is proved

The proofs hold for every finite committee, every set of faulty nodes and every
value of the bounds. They rest on the named assumptions `CommitteeAssumption`,
`SPBAssumption`, `CommittorAssumption`, `CoreAssumption`, `MempoolAssumption`,
`NetworkAssumption`, `StoreAssumption`, `TxPoolAssumption` and `SigAssumption`,
which only say what kind of values the constants are. Where a theorem needs more,
it says so as its hypothesis: `Retry = {}`, `FewestNodes`, 2(2f+1) > n, n >= 4, `~PutFails`
and `BatchSize < MaxQueueSize`, each explained below. The instances of `spb_refines`,
`core_crash`, `core_votes` and `services` satisfy them, except `~PutFails`: there writes
may fail.

* `SPB_proofs`. The inductive invariant joins the types with
  `VotesCountedOnce`, `VotesFollowCalls` (a vote exists only if its call has
  passed the store or the lock), `KnownBefore` (a call past its test of
  `BlockHash` is on a node that knows the hash) and `PhasesInOrder` (phase two
  exists only after 2f+1 phase-one votes, Finish only after 2f+1 phase-two
  votes). Without the link from votes to calls the counters say nothing about
  nodes. From it follow `TypeCorrect`, `CountedOnce`, `LockHasHash` and
  `FinishHasLockQuorum`. `PBRefinement` needs `Retry = {}`: with a second
  phase-one call two votes of one node count towards phase two, and only the
  lock quorum, not the accept quorum, survives. So with loop backs
  `FinishHasLockQuorum` is what remains.
* `Core_proofs`. `TypeCorrect` and `CommitsInOrder`, from an invariant that is
  their conjunction; the work is in what `Commit` does to a committor. `CommitsKept`:
  no step takes back or replaces a committed block, although `Commit` is called several
  times for one epoch and with different blocks. With `CommitsInOrder` this is what
  `OrderedLog` says, except that a step of `Core` may hand over several blocks.
  `BroadcastUsed` and `FetchUsed`: the variables of one SPB instance in `Core` behave
  as `ProvableBroadcast`, and `missing` and `pending` take only steps of
  `PayloadFetch`. With `PBRefinement` and `FetchRefinement` this says on both sides
  that `Core` is checked against what its parts do. `StepsNotMissed` (`NoStepMissed`)
  is about the aggregators, which answer once, at the message that makes the
  threshold. Its invariant `StepInv` says what each answer has left behind: 2f+1 Finish
  or f+1 Done messages a Done and a share on the node's own link, 2f+1 Done messages the
  ready flag, 2f+1 shares the leader, both together a prevote or a Halt, a yes prevote
  or 2f+1 no prevotes a FinVote. Every handler is shown to keep this (`StepsOn`),
  the two orders in which a node gets ready and learns the leader included. The
  hypothesis n >= 4 is needed: with up to three nodes f+1 and 2f+1 are both 1, the
  Done aggregator answers with the low flag only, and no node gets ready.
* `CoreVotes_proofs`. `FinVotesConsistent` and `CommitExcludes`. The invariant
  says how much of an author's FinVotes each node has seen, and that what it has
  counted is the first one on the author's link. FIFO links and the aggregators'
  first-vote rule are both needed. `CommitExcludes` assumes that two sets of
  2f+1 nodes meet, 2(2f+1) > n. A lemma shows that n = 3f+1 is enough; the
  thresholds of `config.go` do not give it for n = 2, 3 and 6.
  `HaltsOfAnEpochAgree` (`HaltsAgree`), also for 2(2f+1) > n: all Halts of an
  epoch name one block, in whatever rounds they are made, with any number of nodes
  running and whatever payloads are missing. It excludes by name the two causes
  of disagreement that are violations above: a node that locks the leader's block after it
  has voted no on it (`LocksBeforeVotes` excludes `core_agreement`), and a prevote or
  Halt about another node than the coin's (`CoinFollowed` excludes `core_late`). The
  argument: after a Halt every 2f+1 FinVotes of the round contain a yes, so a node
  that goes on adopts the leader's block, which no SPB instance but the
  leader's own takes, or proposes nothing. The leader is then the only
  proposer that can finish in a later round, and with the same block. This rests on
  `RoundInv` of `CoreCoin_proofs`. The theorem is about Halts and not about commits
  for a reason TLC showed: a node that halts in round 1 without the payloads of
  the decided block still has the leader of round 0 on record, and commits the late
  proposal of that one, which is the case of `core_late` without the wrong leader.
* `CoreCoin_proofs`. `CoinAfterFinishQuorum`. `LinksJustified` says
  that every message on a link has its cause (a Finish was sent by its author's
  instance; a Done, a share, a vote or a Halt exists only when 2f+1 proposers of the
  round have finished); `FinishesCounted` says the counted Finish messages were sent.
  `HaltsSupported` adds `SupportInv`: a lock, a Finish, a yes vote and a Halt each
  stand on 2f+1 nodes that have accepted the block in that round. A Halt says
  nothing of this by itself; the argument has to go back through every message
  it may have been made of. `RoundInv` adds what ties the rounds together: a Halt
  stands on the leader's Finish or on 2f+1 yes FinVotes, a no FinVote on 2f+1 no
  prevotes, and a proposal of a later round on 2f+1 no FinVotes its sender has counted
  or on a prevote about the block it adopts (`LogCaused`); in a later round an instance
  takes only what its proposer has sent (`OwnProposed`); and a finished instance has 2f+1
  locks and 2f+1 finished instances in every earlier round (`Below`). It has no
  theorem of its own; `CoreVotes_proofs` builds on it.
* `CoreAgreement_proofs`. `CommitsAgree` (`Agreement`) and
  `CommitsSupported` (`CommitSupported`) under `FewestNodes`: at most 2f+1 nodes run,
  and node 0 is not one of them. This is the program with `Faults` = f and n = 3f+1,
  since `Core.Run` stops the nodes with `Name < Faults`; `core_crash` is such an
  instance. With more nodes running neither property holds in general
  (`core_agreement`, `core_late`), and with node 0 running the leader 0 that a Halt
  made from FinVotes carries may be a node that has proposed. `AgreementInv` adds
  to the invariants above: all running nodes have locked the block of a proposer
  that has finished (`InstancesSound`); a round whose coin selects a running node
  has only yes votes for its block and Halts for it, any other round only no votes
  and no Halts (`LinksSound`, `VotesSound`); nobody has messages of a round after a
  fruitful one; a recorded leader is the coin's or, on a node that has left the
  epoch, node 0 (`LeadersSound`); and what waits in the committor or has left it is
  the block of the first running node the coin selects (`CommitsSound`). It was
  model-checked on the instance of `core_crash` before it was proved.
* `Mempool_proofs`. `TypeCorrect`, `FetchKept` (`WaitWatched`) and `DoneWhenComplete`
  (`DoneIsComplete`): the invariant says that every request on `interChan` lists
  all payloads its node lacks (`Listed`), that what a waiter has still to wait for
  covers all that the node lacks of the block (`Covered`), and that an owed block is
  pending or requested (`Watched`). It holds since stores only grow, so a list made
  early is too long and never too short. `FetchRefinement` follows from it.
  `ProposedOnceKept` needs `Held` (what a node has queued or proposed is in its store,
  and what anybody has is in its author's) and `Fresh` (the batches that wait to be
  stored are in no store).
* `Network_proofs`. `TransportTypes` and `LinksRefinement` (`ImplementsLinks`), with any
  number of faults. For each pair of nodes the invariant follows the messages from
  `msgCh` over the address list of `Sender.Run`, the channel of the connection and
  the wire to the receiver: each place holds them in the order they were sent
  (`PlacesRise`), a place nearer to the peer holds earlier ones (`PlacesInOrder`), and
  while the connection stands the places together hold exactly those that are due
  (`NothingMissing`). After it has broken, what still arrives is a first part of what
  is due, without a gap; and nothing has been delivered before the first
  successful dial, which is why a failed dial can only leave out first messages.
* `Services_proofs`. Committor: the types and `HandedOverInStep`, with the fact that
  an entry of `Blocks` is of its own epoch and the block `run` holds is of epoch
  `Index - 1`, are inductive; `LogRefinement` follows step by step. Store: `CallsAskedOnce` and `WakeupsKept` are inductive together
  with the types; `WokenWithValue` assumes that writes do not fail. Pool:
  `BufferKept` and `StreamRefinement`, for `BatchSize` smaller than `MaxQueueSize`;
  the invariant adds `Pipeline`: the batches in the channel and in `make()` follow
  those taken, and the transactions of `txChannel` those in the buffer. With
  `BatchSize >= MaxQueueSize` the buffer fills up before a batch is due, and the pool
  hands out nothing any more. Start-up: `PeersAreUp` (`PeersListen`), where
  `PastBarrier` says which ports a node at each stage has found open; no port
  closes. Signatures: `RequestsKept` (`RequestInOnePlace`), by counting the places of
  a caller in the queue. Together: `ServicesAlone` says that each part keeps its own
  specification in `Services`, so that all these theorems hold there, and
  `ServicesTypes` that `TypeOK` does.

Only model-checked:

* all liveness properties, which are out of the prover's reach;
* `DistinctDigests`: the digits are defined by recursion over the number, and what
  they are for every number needs an induction the installed provers cannot do;
* that the logs and cursors of `Core` are the links of `Links`, which is by the reading
  of "Modules" above.

## Not modelled

* Signing, verifying, key generation and the recovery of threshold signatures:
  numerical code. In `Core` no message is forged and the coin is a function of
  epoch and round.
* The codec, configuration files, flags, logging and the benchmark scripts:
  encoding, input and output.
* `HandleCleanBlock` and the synchronizer's clean-up: nothing in the program makes
  the message that starts them. `ActualQueue` and `OwnPayLoadChannel` are written
  and never read.
* A node that crashes and comes back: opening an existing store panics
  (`NewBucket` in `nutsdb.go`), and no protocol state is kept. A node that stops is
  one whose links stop.
* Nodes that send wrong messages: the faulty nodes of the code (`Faults`) do not
  send at all.

## Further work

1. `Core` with four running nodes over more epochs and in every schedule, which
   is out of TLC's reach at present.
2. From `HaltsAgree` to `Agreement` with more than 2f+1 nodes running: the proof
   stops at the Halts, since a late proposal is committed by the leader on record.
3. A composition of `Core` with `Mempool` and `Network` in one module, in place of
   their abstract specifications.
