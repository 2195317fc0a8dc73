------------------------- MODULE ProvableBroadcast -------------------------
(***************************************************************************)
(* What one strong provable broadcast (SPB) instance promises to the rest *)
(* of the protocol, without goroutines, messages or buffers.  A node      *)
(* first accepts the proposer's block, a node locks it only once 2f+1     *)
(* nodes have accepted it, and the proposer finishes only once 2f+1 nodes *)
(* have locked it.  Module SPB implements this specification.             *)
(***************************************************************************)
CONSTANTS
    Node,       \* the committee
    Quorum      \* the sets of nodes that make 2f+1

VARIABLES
    accepted,   \* the nodes that know the block's hash
    locked,     \* the nodes with LockFlag set
    finished    \* whether the proposer has sent Finish

vars == <<accepted, locked, finished>>

Init ==
    /\ accepted = {}
    /\ locked = {}
    /\ finished = FALSE

Accept(n) ==
    /\ accepted' = accepted \cup {n}
    /\ UNCHANGED <<locked, finished>>

Lock(n) ==
    /\ n \in accepted
    /\ accepted \in Quorum
    /\ locked' = locked \cup {n}
    /\ UNCHANGED <<accepted, finished>>

Finish ==
    /\ locked \in Quorum
    /\ finished' = TRUE
    /\ UNCHANGED <<accepted, locked>>

Next ==
    \/ \E n \in Node : Accept(n) \/ Lock(n)
    \/ Finish

Spec == Init /\ [][Next]_vars

=============================================================================
