----------------------------- MODULE SPB_proofs -----------------------------
(***************************************************************************)
(* The safety of one SPB instance for every committee, every set of       *)
(* faulty nodes and every set of nodes on which the phase-one call runs   *)
(* twice, and that the instance implements ProvableBroadcast when it runs *)
(* once everywhere.                                                        *)
(***************************************************************************)
EXTENDS SPB, FiniteSetTheorems, TLAPS

Types ==
    /\ ownBlock \in BOOLEAN
    /\ BlockHash \in [Node -> {"nil", "hash"}]
    /\ LockFlag \in [Node -> BOOLEAN]
    /\ prop \in [Node -> [Call -> Place]]
    /\ vote \in [Node -> [Call -> Place \ {"stored"}]]
    /\ Votes \in [{1, 2} -> Nat]
    /\ finish \in BOOLEAN

\* The votes the proposer has handled, by phase.
DoneOne == {x \in Node \X One : vote[x[1]][x[2]] = "done"}
DoneTwo == {n \in Node : vote[n]["two"] = "done"}

\* A call has voted only if it has gone far enough.
VotesFollowCalls ==
    \A n \in Node :
        /\ \A c \in One : prop[n][c] \in {"none", "sent", "nil"} => vote[n][c] = "none"
        /\ prop[n]["two"] # "done" => vote[n]["two"] = "none"

\* What a node has done tells what it knows.
KnownBefore ==
    \A n \in Node :
        /\ prop[n]["two"] \in {"hash", "done"} => BlockHash[n] = "hash"
        /\ LockFlag[n] => BlockHash[n] = "hash"
        /\ vote[n]["two"] # "none" => LockFlag[n]
        /\ \A c \in One : vote[n][c] # "none" => BlockHash[n] = "hash"

\* A phase starts when the one before it has its 2f+1 votes.
PhasesInOrder ==
    /\ Votes[1] < HightThreshold => \A n \in Node : prop[n]["two"] = "none"
    /\ finish => Votes[2] >= HightThreshold

IInv ==
    /\ Types
    /\ VotesCountedOnce
    /\ VotesFollowCalls
    /\ KnownBefore
    /\ PhasesInOrder

-----------------------------------------------------------------------------

\* The committee's size and thresholds are natural numbers, and the threshold
\* is at least one vote.
LEMMA Thresholds ==
    /\ Size \in Nat \ {0}
    /\ F \in Nat
    /\ HightThreshold \in Nat \ {0}
<1>1. Size \in Nat
      BY CommitteeAssumption, FS_CardinalityType DEF Size
<1>2. Size # 0
      BY CommitteeAssumption, FS_EmptySet DEF Size
<1>3. QED BY <1>1, <1>2 DEF F, HightThreshold

\* The sets of handled votes are finite.
LEMMA DoneFinite ==
    /\ IsFiniteSet(Node \X One) /\ Cardinality(Node \X One) = 2 * Size
    /\ IsFiniteSet(DoneOne) /\ Cardinality(DoneOne) \in Nat
    /\ Cardinality(DoneOne) <= 2 * Size
    /\ IsFiniteSet(DoneTwo) /\ Cardinality(DoneTwo) \in Nat
    /\ Cardinality(DoneTwo) <= Size
<1>1. IsFiniteSet(One) /\ Cardinality(One) = 2
  <2>1. IsFiniteSet({"proposal"}) /\ Cardinality({"proposal"}) = 1
        BY Zenon, FS_Singleton
  <2>2. One = {"proposal"} \cup {"loopback"}
        BY DEF One
  <2>3. QED BY <2>1, <2>2, FS_AddElement
<1>2. IsFiniteSet(Node \X One) /\ Cardinality(Node \X One) = Size * 2
      BY <1>1, CommitteeAssumption, FS_Product DEF Size
<1>3. DoneOne \in SUBSET (Node \X One)
      BY DEF DoneOne
<1>4. IsFiniteSet(DoneOne) /\ Cardinality(DoneOne) <= Cardinality(Node \X One)
      BY <1>2, <1>3, FS_Subset
<1>5. DoneTwo \in SUBSET Node
      BY DEF DoneTwo
<1>6. IsFiniteSet(DoneTwo) /\ Cardinality(DoneTwo) <= Size
      BY <1>5, CommitteeAssumption, FS_Subset DEF Size
<1>7. Cardinality(DoneOne) \in Nat /\ Cardinality(DoneTwo) \in Nat
      BY <1>4, <1>6, FS_CardinalityType
<1>8. QED BY <1>2, <1>4, <1>6, <1>7, Thresholds

\* Handling one more phase-one vote.
LEMMA AddOne ==
    ASSUME NEW n \in Node, NEW c \in One, <<n, c>> \notin DoneOne,
           DoneOne' = DoneOne \cup {<<n, c>>}
    PROVE  Cardinality(DoneOne') = Cardinality(DoneOne) + 1
BY Zenon, DoneFinite, FS_AddElement

\* Handling one more phase-two vote.
LEMMA AddTwo ==
    ASSUME NEW n \in Node, n \notin DoneTwo, DoneTwo' = DoneTwo \cup {n}
    PROVE  Cardinality(DoneTwo') = Cardinality(DoneTwo) + 1
BY Zenon, DoneFinite, FS_AddElement

\* The initial state, with the phase-one proposals on their way.
LEMMA InitIInv == Init => IInv
<1> SUFFICES ASSUME Init PROVE IInv
    OBVIOUS
<1>1. Types
      BY Zenon DEF Init, Types, Place
<1>2. DoneOne = {} /\ DoneTwo = {}
      BY DEF Init, DoneOne, DoneTwo, Call, One
<1>3. VotesCountedOnce
      BY Zenon, <1>2, FS_EmptySet DEF Init, VotesCountedOnce, DoneOne, DoneTwo
<1>4. VotesFollowCalls /\ KnownBefore
      BY DEF Init, VotesFollowCalls, KnownBefore, Call, One
<1>5. PhasesInOrder
      BY Thresholds DEF Init, PhasesInOrder, Call, One
<1>6. QED BY <1>1, <1>3, <1>4, <1>5 DEF IInv

\* Steps that handle no vote leave the counters right.
LEMMA SameCounts ==
    ASSUME VotesCountedOnce, Votes' = Votes, DoneOne' = DoneOne, DoneTwo' = DoneTwo
    PROVE  VotesCountedOnce'
BY Zenon DEF VotesCountedOnce, DoneOne, DoneTwo

\* The test at the top of a phase-one call keeps the invariant.
LEMMA OneLoadIInv ==
    ASSUME IInv, NEW n \in Active, NEW c \in One, OneLoad(n, c)
    PROVE  IInv'
<1> USE DEF IInv, Active
<1>1. Types'
      BY DEF Types, OneLoad, Place, Call, One
<1>2. VotesCountedOnce'
      BY SameCounts DEF OneLoad, DoneOne, DoneTwo
<1>3. VotesFollowCalls'
      BY DEF Types, OneLoad, VotesFollowCalls, Call, One
<1>4. KnownBefore'
      BY DEF Types, OneLoad, KnownBefore, Call, One
<1>5. PhasesInOrder'
      BY DEF Types, OneLoad, PhasesInOrder, Call, One
<1>6. QED BY <1>1, <1>2, <1>3, <1>4, <1>5

\* Storing the hash and voting in phase one keeps the invariant: the call has
\* not voted before.
LEMMA OneStoreIInv ==
    ASSUME IInv, NEW n \in Active, NEW c \in One, OneStore(n, c)
    PROVE  IInv'
<1> USE DEF IInv, Active
<1>1. Types'
      BY DEF Types, OneStore, Place, Call, One
<1>2. VotesCountedOnce'
  <2>1. vote[n][c] = "none"
        BY DEF OneStore, VotesFollowCalls
  <2>2. DoneOne' = DoneOne /\ DoneTwo' = DoneTwo
        BY <2>1 DEF Types, OneStore, DoneOne, DoneTwo, Call, One
  <2>3. QED BY <2>2, SameCounts DEF OneStore
<1>3. VotesFollowCalls'
      BY DEF Types, OneStore, VotesFollowCalls, Call, One
<1>4. KnownBefore'
      BY DEF Types, OneStore, KnownBefore, Call, One
<1>5. PhasesInOrder'
      BY DEF Types, OneStore, PhasesInOrder, Call, One
<1>6. QED BY <1>1, <1>2, <1>3, <1>4, <1>5

\* Starting the buffered calls again keeps the invariant: it handles no vote.
LEMMA OneDrainIInv ==
    ASSUME IInv, NEW n \in Active, NEW c \in One, OneDrain(n, c)
    PROVE  IInv'
<1> USE DEF IInv, Active
<1>1. Types'
      BY DEF Types, OneDrain, Place, Call, One
<1>2. \A m \in Node, d \in Call :
          /\ vote'[m][d] = "done" <=> vote[m][d] = "done"
          /\ vote'[m][d] = "none" <=> vote[m][d] = "none"
      BY DEF Types, OneDrain
<1>3. VotesCountedOnce'
  <2>1. DoneOne' = DoneOne /\ DoneTwo' = DoneTwo
        BY <1>2 DEF DoneOne, DoneTwo, Call
  <2>2. QED BY <2>1, SameCounts DEF OneDrain
<1>4. \A m \in Node, d \in Call :
          \/ prop'[m][d] = prop[m][d]
          \/ m = n /\ d = c /\ prop[m][d] = "stored" /\ prop'[m][d] = "done"
          \/ d = "two" /\ prop[m][d] = "buffered" /\ prop'[m][d] = "sent"
      BY DEF Types, OneDrain
<1>5. VotesFollowCalls'
      BY <1>2, <1>4 DEF VotesFollowCalls, Call, One
<1>6. KnownBefore'
      BY <1>2, <1>4 DEF OneDrain, KnownBefore, Call, One
<1>7. PhasesInOrder'
      BY <1>4 DEF OneDrain, PhasesInOrder, Call, One
<1>8. QED BY <1>1, <1>3, <1>5, <1>6, <1>7

\* The test of BlockHash in a phase-two call keeps the invariant.
LEMMA TwoLoadIInv ==
    ASSUME IInv, NEW n \in Active, TwoLoad(n)
    PROVE  IInv'
<1> USE DEF IInv, Active
<1>1. Types'
      BY DEF Types, TwoLoad, Place, Call, One
<1>2. VotesCountedOnce'
  <2>1. DoneOne' = DoneOne /\ DoneTwo' = DoneTwo
        BY DEF Types, TwoLoad, DoneOne, DoneTwo, Call, One
  <2>2. QED BY <2>1, SameCounts DEF TwoLoad
<1>3. VotesFollowCalls'
      BY DEF Types, TwoLoad, VotesFollowCalls, Call, One
<1>4. KnownBefore'
      BY DEF Types, TwoLoad, KnownBefore, Call, One
<1>5. PhasesInOrder'
      BY DEF Types, TwoLoad, PhasesInOrder, Call, One
<1>6. QED BY <1>1, <1>2, <1>3, <1>4, <1>5

\* Parking a phase-two call keeps the invariant.
LEMMA TwoBufferIInv ==
    ASSUME IInv, NEW n \in Active, TwoBuffer(n)
    PROVE  IInv'
<1> USE DEF IInv, Active
<1>1. Types'
      BY DEF Types, TwoBuffer, Place, Call, One
<1>2. VotesCountedOnce'
  <2>1. DoneOne' = DoneOne /\ DoneTwo' = DoneTwo
        BY DEF Types, TwoBuffer, DoneOne, DoneTwo, Call, One
  <2>2. QED BY <2>1, SameCounts DEF TwoBuffer
<1>3. VotesFollowCalls'
      BY DEF Types, TwoBuffer, VotesFollowCalls, Call, One
<1>4. KnownBefore'
      BY DEF Types, TwoBuffer, KnownBefore, Call, One
<1>5. PhasesInOrder'
      BY DEF Types, TwoBuffer, PhasesInOrder, Call, One
<1>6. QED BY <1>1, <1>2, <1>3, <1>4, <1>5

\* Locking and voting in phase two keeps the invariant: the call that locks has
\* seen the hash and has not voted before.
LEMMA TwoLockIInv ==
    ASSUME IInv, NEW n \in Active, TwoLock(n)
    PROVE  IInv'
<1> USE DEF IInv, Active
<1>1. Types'
      BY DEF Types, TwoLock, Place, Call, One
<1>2. VotesCountedOnce'
  <2>1. DoneOne' = DoneOne /\ DoneTwo' = DoneTwo
        BY DEF VotesFollowCalls, Types, TwoLock, DoneOne, DoneTwo, Call, One
  <2>2. QED BY <2>1, SameCounts DEF TwoLock
<1>3. VotesFollowCalls'
      BY DEF Types, TwoLock, VotesFollowCalls, Call, One
<1>4. KnownBefore'
      BY DEF Types, TwoLock, KnownBefore, Call, One
<1>5. PhasesInOrder'
      BY DEF Types, TwoLock, PhasesInOrder, Call, One
<1>6. QED BY <1>1, <1>2, <1>3, <1>4, <1>5

\* The test of BlockHash in a call of processVote keeps the invariant.
LEMMA VoteLoadIInv ==
    ASSUME IInv, NEW n \in Active, NEW c \in Call, VoteLoad(n, c)
    PROVE  IInv'
<1> USE DEF IInv, Active
<1> BlockHash[Proposer] \in {"nil", "hash"}
    BY SPBAssumption DEF Types
<1>1. Types'
      BY DEF Types, VoteLoad, Place, Call, One
<1>2. VotesCountedOnce'
  <2>1. DoneOne' = DoneOne /\ DoneTwo' = DoneTwo
        BY DEF Types, VoteLoad, DoneOne, DoneTwo, Call, One
  <2>2. QED BY <2>1, SameCounts DEF VoteLoad
<1>3. VotesFollowCalls'
      BY DEF Types, VoteLoad, VotesFollowCalls, Call, One
<1>4. KnownBefore'
      BY DEF Types, VoteLoad, KnownBefore, Call, One
<1>5. PhasesInOrder'
      BY DEF Types, VoteLoad, PhasesInOrder, Call, One
<1>6. QED BY <1>1, <1>2, <1>3, <1>4, <1>5

\* Parking a call of processVote keeps the invariant.
LEMMA VoteBufferIInv ==
    ASSUME IInv, NEW n \in Active, NEW c \in Call, VoteBuffer(n, c)
    PROVE  IInv'
<1> USE DEF IInv, Active
<1>1. Types'
      BY DEF Types, VoteBuffer, Place, Call, One
<1>2. VotesCountedOnce'
  <2>1. DoneOne' = DoneOne /\ DoneTwo' = DoneTwo
        BY DEF Types, VoteBuffer, DoneOne, DoneTwo, Call, One
  <2>2. QED BY <2>1, SameCounts DEF VoteBuffer
<1>3. VotesFollowCalls'
      BY DEF Types, VoteBuffer, VotesFollowCalls, Call, One
<1>4. KnownBefore'
      BY DEF Types, VoteBuffer, KnownBefore, Call, One
<1>5. PhasesInOrder'
      BY DEF Types, VoteBuffer, PhasesInOrder, Call, One
<1>6. QED BY <1>1, <1>2, <1>3, <1>4, <1>5

\* Counting a vote keeps the invariant: the counter grows with the set of
\* handled votes, and the phase-two proposal goes out before any node is in
\* phase two.
LEMMA VoteCountIInv ==
    ASSUME IInv, NEW n \in Active, NEW c \in Call, VoteCount(n, c)
    PROVE  IInv'
<1> USE DEF IInv, Active
<1> DEFINE num == Votes[Phase(c)] + 1
<1>1. /\ n \in Node /\ Phase(c) \in {1, 2} /\ num \in Nat
      /\ HightThreshold \in Nat \ {0}
      BY Thresholds DEF Types, Phase
<1>2. Types'
      BY <1>1 DEF Types, VoteCount, QuorumMade, Place, Call, One
<1>3. \A m \in Node, d \in Call :
          vote'[m][d] = IF m = n /\ d = c THEN "done" ELSE vote[m][d]
      BY DEF Types, VoteCount
<1>4. vote[n][c] = "hash"
      BY DEF VoteCount
<1>5. VotesCountedOnce'
  <2> Votes[1] = Cardinality(DoneOne) /\ Votes[2] = Cardinality(DoneTwo)
      BY DEF VotesCountedOnce, DoneOne, DoneTwo
  <2>1. CASE c \in One
    <3>1. DoneOne' = DoneOne \cup {<<n, c>>} /\ <<n, c>> \notin DoneOne
          BY <1>1, <1>3, <1>4, <2>1 DEF DoneOne, Call
    <3>2. DoneTwo' = DoneTwo
          BY <1>3, <2>1 DEF DoneTwo, Call, One
    <3>3. Cardinality(DoneOne') = Cardinality(DoneOne) + 1
          BY Zenon, <1>1, <2>1, <3>1, AddOne
    <3>4. Votes' = [Votes EXCEPT ![1] = Votes[1] + 1]
          BY Zenon, <2>1 DEF VoteCount, Phase, One
    <3>5. Votes'[1] = Cardinality(DoneOne') /\ Votes'[2] = Cardinality(DoneTwo')
          BY <3>2, <3>3, <3>4 DEF Types
    <3>6. QED BY <3>5 DEF VotesCountedOnce, DoneOne, DoneTwo
  <2>2. CASE c = "two"
    <3>1. DoneTwo' = DoneTwo \cup {n} /\ n \notin DoneTwo
          BY <1>1, <1>3, <1>4, <2>2 DEF DoneTwo, Call
    <3>2. DoneOne' = DoneOne
          BY <1>3, <2>2 DEF DoneOne, Call, One
    <3>3. Cardinality(DoneTwo') = Cardinality(DoneTwo) + 1
          BY <1>1, <3>1, AddTwo
    <3>4. Votes' = [Votes EXCEPT ![2] = Votes[2] + 1]
          BY Zenon, <2>2 DEF VoteCount, Phase
    <3>5. Votes'[1] = Cardinality(DoneOne') /\ Votes'[2] = Cardinality(DoneTwo')
          BY <3>2, <3>3, <3>4 DEF Types
    <3>6. QED BY <3>5 DEF VotesCountedOnce, DoneOne, DoneTwo
  <2>3. QED BY <2>1, <2>2 DEF Call
<1>6. \/ prop' = prop
      \/ /\ Phase(c) = 1 /\ Votes[1] + 1 = HightThreshold
         /\ \A m \in Node : prop[m]["two"] = "none"
         /\ \A m \in Node : prop'[m]["two"] \in {"none", "sent"}
         /\ \A m \in Node, d \in One : prop'[m][d] = prop[m][d]
      BY <1>1 DEF Types, VoteCount, QuorumMade, PhasesInOrder, Call, One
<1>7. VotesFollowCalls'
      BY <1>1, <1>3, <1>4, <1>6 DEF VotesFollowCalls, Call, One
<1>8. KnownBefore'
  <2>1. BlockHash' = BlockHash /\ LockFlag' = LockFlag
        BY DEF VoteCount
  <2>2. QED BY <1>1, <1>3, <1>4, <1>6, <2>1 DEF KnownBefore, Call, One
<1>9. PhasesInOrder'
  <2>1. CASE Phase(c) = 1
        BY <1>1, <1>6, <2>1 DEF Types, VoteCount, QuorumMade, PhasesInOrder
  <2>2. CASE Phase(c) = 2
        BY <1>1, <1>6, <2>2 DEF Types, VoteCount, QuorumMade, PhasesInOrder
  <2>3. QED BY <1>1, <2>1, <2>2
<1>10. QED BY <1>2, <1>5, <1>7, <1>8, <1>9

-----------------------------------------------------------------------------

\* Every step of every call keeps the invariant.
LEMMA NextIInv == IInv /\ [Next]_vars => IInv'
<1> SUFFICES ASSUME IInv, [Next]_vars PROVE IInv'
    OBVIOUS
<1>1. ASSUME NEW n \in Active, ProposalStep(n) PROVE IInv'
      BY <1>1, OneLoadIInv, OneStoreIInv, OneDrainIInv, TwoLoadIInv, TwoBufferIInv,
         TwoLockIInv DEF ProposalStep
<1>2. ASSUME NEW n \in Active, NEW c \in Call, VoteStep(n, c) PROVE IInv'
      BY <1>2, VoteLoadIInv, VoteBufferIInv, VoteCountIInv DEF VoteStep
<1>3. CASE UNCHANGED vars
      BY <1>3 DEF vars, IInv, Types, VotesCountedOnce, VotesFollowCalls, KnownBefore,
                  PhasesInOrder
<1>4. QED BY <1>1, <1>2, <1>3 DEF Next

\* The invariant holds in every reachable state.
LEMMA Invariance == Spec => []IInv
BY InitIInv, NextIInv, PTL DEF Spec

\* The variables of an instance keep their types, and its vote counters never
\* pass the number of votes that can be sent.
THEOREM TypeCorrect == Spec => []TypeOK
<1>1. IInv => TypeOK
      BY DoneFinite DEF IInv, Types, TypeOK, VotesCountedOnce, DoneOne, DoneTwo
<1>2. QED BY <1>1, Invariance, PTL

\* processVote counts every vote once, through any number of drains.
THEOREM CountedOnce == Spec => []VotesCountedOnce
<1>1. IInv => VotesCountedOnce
      BY DEF IInv
<1>2. QED BY <1>1, Invariance, PTL

\* A node locks only what it knows the hash of, which is what processLeader
\* relies on when it builds a yes prevote.
THEOREM LockHasHash == Spec => []LockImpliesHash
<1>1. IInv => LockImpliesHash
      BY DEF IInv, KnownBefore, LockImpliesHash
<1>2. QED BY <1>1, Invariance, PTL

\* The phase-two votes that have been handled come from locked nodes.
LEMMA VotersLocked ==
    ASSUME Types, KnownBefore
    PROVE  Cardinality({n \in Node : LockFlag[n]}) \in Nat
           /\ Cardinality(DoneTwo) <= Cardinality({n \in Node : LockFlag[n]})
<1> DEFINE L == {n \in Node : LockFlag[n]}
<1>1. IsFiniteSet(L) /\ Cardinality(L) \in Nat
      BY CommitteeAssumption, FS_Subset, FS_CardinalityType
<1>2. DoneTwo \in SUBSET L
      BY DEF KnownBefore, DoneTwo
<1>3. QED BY <1>1, <1>2, FS_Subset

\* Finish means 2f+1 different locked nodes, also when phase-one calls run
\* twice and their votes are counted twice.
THEOREM FinishHasLockQuorum == Spec => []FinishImpliesLockQuorum
<1>1. IInv => FinishImpliesLockQuorum
      BY VotersLocked, DoneFinite, Thresholds
         DEF IInv, PhasesInOrder, VotesCountedOnce, DoneTwo, FinishImpliesLockQuorum
<1>2. QED BY <1>1, Invariance, PTL

-----------------------------------------------------------------------------
(* Refinement of ProvableBroadcast. *)

\* Only nodes in Retry have a second phase-one call.
OneCallEach == \A n \in Node : n \notin Retry => prop[n]["loopback"] = "none"

\* That no second call appears is an invariant of its own.
LEMMA OneCallInvariance == Spec => []OneCallEach
<1>1. Init => OneCallEach
      BY DEF Init, OneCallEach, Call, One
<1>2. IInv /\ OneCallEach /\ [Next]_vars => OneCallEach'
  <2> SUFFICES ASSUME IInv, OneCallEach, [Next]_vars PROVE OneCallEach'
      OBVIOUS
  <2> USE DEF IInv, Types, OneCallEach, Call, One, Active
  <2>1. ASSUME NEW n \in Active, ProposalStep(n) PROVE OneCallEach'
        BY <2>1 DEF ProposalStep, OneLoad, OneStore, OneDrain, TwoLoad, TwoBuffer, TwoLock
  <2>2. ASSUME NEW n \in Active, NEW c \in Call, VoteStep(n, c) PROVE OneCallEach'
        BY <2>2 DEF VoteStep, VoteLoad, VoteBuffer, VoteCount
  <2>3. CASE UNCHANGED vars
        BY <2>3 DEF vars
  <2>4. QED BY <2>1, <2>2, <2>3 DEF Next
<1>3. QED BY <1>1, <1>2, Invariance, PTL DEF Spec

Accepted == {n \in Node : BlockHash[n] = "hash"}

\* With one phase-one call per node, 2f+1 counted phase-one votes are the votes
\* of 2f+1 nodes that have accepted.
LEMMA VotersAccepted ==
    ASSUME IInv, OneCallEach, Retry = {}, Votes[1] >= HightThreshold
    PROVE  Cardinality(Accepted) >= HightThreshold
<1> DEFINE D == {n \in Node : vote[n]["proposal"] = "done"}
<1>1. IsFiniteSet(D) /\ IsFiniteSet(Accepted) /\ Cardinality(D) \in Nat
      /\ Cardinality(Accepted) \in Nat
      BY CommitteeAssumption, FS_Subset, FS_CardinalityType DEF Accepted
<1>2. DoneOne = D \X {"proposal"}
      BY DEF IInv, OneCallEach, VotesFollowCalls, DoneOne, One
<1>3. Cardinality(DoneOne) = Cardinality(D)
  <2>1. IsFiniteSet({"proposal"}) /\ Cardinality({"proposal"}) = 1
        BY Zenon, FS_Singleton
  <2>2. Cardinality(D \X {"proposal"}) = Cardinality(D) * 1
        BY Zenon, <1>1, <2>1, FS_Product
  <2>3. QED BY <1>1, <1>2, <2>2
<1>4. D \in SUBSET Accepted
      BY DEF IInv, KnownBefore, Accepted, One
<1>5. Cardinality(D) <= Cardinality(Accepted)
      BY <1>1, <1>4, FS_Subset
<1>6. Cardinality(D) >= HightThreshold
      BY <1>3 DEF IInv, VotesCountedOnce, DoneOne
<1>7. QED BY <1>1, <1>5, <1>6, Thresholds

\* Storing the hash is Accept, setting LockFlag is Lock, the vote that makes the
\* second threshold is Finish, and every other step is invisible.
LEMMA StepRefinement ==
    ASSUME IInv, OneCallEach, Retry = {}, [Next]_vars
    PROVE  [PB!Next]_(PB!vars)
<1> DEFINE L == {n \in Node : LockFlag[n]}
<1> USE DEF Active
<1>1. ASSUME NEW n \in Active, NEW c \in One, OneStore(n, c)
      PROVE  [PB!Next]_(PB!vars)
  <2>1. /\ {m \in Node : BlockHash'[m] = "hash"} = {m \in Node : BlockHash[m] = "hash"} \cup {n}
        /\ LockFlag' = LockFlag /\ finish' = finish
        BY <1>1 DEF IInv, Types, OneStore
  <2>2. PB!Accept(n)
        BY <2>1 DEF PB!Accept
  <2>3. QED BY <2>2 DEF PB!Next
<1>2. ASSUME NEW n \in Active, TwoLock(n)
      PROVE  [PB!Next]_(PB!vars)
  <2>1. prop[n]["two"] = "hash" /\ BlockHash[n] = "hash"
        BY <1>2 DEF IInv, KnownBefore, TwoLock
  <2>2. Votes[1] >= HightThreshold
        BY <2>1, Thresholds DEF IInv, Types, PhasesInOrder
  <2>3. {m \in Node : BlockHash[m] = "hash"} \in Quorum
        BY <2>2, VotersAccepted DEF Accepted, Quorum
  <2>4. /\ {m \in Node : LockFlag'[m]} = {m \in Node : LockFlag[m]} \cup {n}
        /\ BlockHash' = BlockHash /\ finish' = finish
        BY <1>2 DEF IInv, Types, TwoLock
  <2>5. PB!Lock(n)
        BY <2>1, <2>3, <2>4 DEF PB!Lock
  <2>6. QED BY <2>5 DEF PB!Next
<1>3. ASSUME NEW n \in Active, NEW c \in Call, VoteCount(n, c)
      PROVE  [PB!Next]_(PB!vars)
  <2>1. BlockHash' = BlockHash /\ LockFlag' = LockFlag
        BY <1>3 DEF VoteCount
  <2>2. CASE finish' = finish
        BY <2>1, <2>2 DEF PB!vars
  <2>3. CASE finish' # finish
    <3>1. finish' = TRUE /\ IInv'
          BY Zenon, <1>3, <2>3, VoteCountIInv DEF VoteCount, IInv, Types
    <3>2. Votes'[2] >= HightThreshold /\ Types' /\ KnownBefore'
          BY <3>1 DEF IInv, PhasesInOrder
    <3>3. Votes'[2] = Cardinality(DoneTwo')
          BY <3>1 DEF IInv, VotesCountedOnce, DoneTwo
    <3>4. Cardinality(L) \in Nat /\ Cardinality(DoneTwo') <= Cardinality(L)
      <4>1. IsFiniteSet(L) /\ Cardinality(L) \in Nat
            BY CommitteeAssumption, FS_Subset, FS_CardinalityType
      <4>2. DoneTwo' \in SUBSET L
            BY <2>1, <3>2 DEF KnownBefore, DoneTwo
      <4>3. QED BY <4>1, <4>2, FS_Subset
    <3>5. L \in Quorum
          BY <3>2, <3>3, <3>4, Thresholds DEF Types, Quorum
    <3>6. PB!Finish
          BY <2>1, <3>1, <3>5 DEF PB!Finish
    <3>7. QED BY <3>6 DEF PB!Next
  <2>4. QED BY <2>2, <2>3
<1>4. CASE /\ BlockHash' = BlockHash /\ LockFlag' = LockFlag /\ finish' = finish
      BY <1>4 DEF PB!vars
<1>5. QED BY <1>1, <1>2, <1>3, <1>4
          DEF Next, vars, ProposalStep, VoteStep, OneLoad, OneDrain, TwoLoad, TwoBuffer,
              VoteLoad, VoteBuffer

\* An instance whose phase-one call runs once on every node implements the
\* abstract provable broadcast.
THEOREM PBRefinement ==
    ASSUME Retry = {}
    PROVE  Spec => ImplementsPB
<1>1. Init => PB!Init
      BY DEF Init, PB!Init
<1>2. IInv /\ OneCallEach /\ [Next]_vars => [PB!Next]_(PB!vars)
      BY StepRefinement
<1>3. QED BY <1>1, <1>2, Invariance, OneCallInvariance, PTL DEF Spec, ImplementsPB, PB!Spec

=============================================================================
