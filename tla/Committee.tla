----------------------------- MODULE Committee -----------------------------
(***************************************************************************)
(* The committee of src/core/config.go: the nodes, the ones that never    *)
(* start, and the two vote thresholds every other part of the protocol    *)
(* is built on.                                                            *)
(***************************************************************************)
EXTENDS Integers, FiniteSets

CONSTANTS
    Node,       \* the keys of Committee.Authorities
    Faulty      \* the nodes whose Core.Run returns at once (Name < Faults)

ASSUME CommitteeAssumption ==
    /\ IsFiniteSet(Node)
    /\ Node # {}
    /\ Faulty \subseteq Node

Size == Cardinality(Node)

\* (n-1)/3, the number of faults the thresholds are meant for
F == (Size - 1) \div 3

HightThreshold == 2 * F + 1

LowThreshold == F + 1

\* The nodes that run the protocol.
Active == Node \ Faulty

=============================================================================
