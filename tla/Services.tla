------------------------------ MODULE Services ------------------------------
(***************************************************************************)
(* What the mempool and the core of a node stand on, in one place: the    *)
(* store, the transaction pool, the signature service, the transport, the *)
(* start-up of the nodes and the names of the payloads.                   *)
(*                                                                         *)
(* None of them shares a variable with another, so how their steps are    *)
(* interleaved makes no difference to any of them.  The initial state     *)
(* chooses one, and only that one moves.                                  *)
(***************************************************************************)
EXTENDS Store, TxPool, Network, Startup, SigService

CONSTANT MaxBatches

VARIABLES
    service,      \* the one that moves
    payloadCount

vars == <<service, storeVars, poolVars, netVars, startVars, sigVars, payloadCount>>

Digests == INSTANCE PayloadDigest WITH bcnt <- payloadCount

Init ==
    /\ service \in {"store", "pool", "network", "start-up", "signatures", "digests"}
    /\ StoreInit
    /\ PoolInit
    /\ NetInit
    /\ StartInit
    /\ SigInit
    /\ Digests!Init

Next ==
    /\ UNCHANGED service
    /\ \/ /\ service = "store" /\ StoreNext
          /\ UNCHANGED <<poolVars, netVars, startVars, sigVars, payloadCount>>
       \/ /\ service = "pool" /\ PoolNext
          /\ UNCHANGED <<storeVars, netVars, startVars, sigVars, payloadCount>>
       \/ /\ service = "network" /\ NetNext
          /\ UNCHANGED <<storeVars, poolVars, startVars, sigVars, payloadCount>>
       \/ /\ service = "start-up" /\ StartNext
          /\ UNCHANGED <<storeVars, poolVars, netVars, sigVars, payloadCount>>
       \/ /\ service = "signatures" /\ SigNext
          /\ UNCHANGED <<storeVars, poolVars, netVars, startVars, payloadCount>>
       \/ /\ service = "digests" /\ Digests!Next
          /\ UNCHANGED <<storeVars, poolVars, netVars, startVars, sigVars>>

Spec == Init /\ [][Next]_vars

\* The fairness of the one that moves, as its module states it.
FairSpec ==
    /\ Spec
    /\ WF_storeVars(service = "store" /\ ServeAny)
    /\ WF_poolVars(service = "pool" /\ MakeTx)
    /\ WF_poolVars(service = "pool" /\ Enqueue)
    /\ WF_poolVars(service = "pool" /\ SendBatch)
    /\ SF_poolVars(service = "pool" /\ GetReceive)
    /\ WF_netVars(service = "network" /\ Moves)
    /\ WF_startVars(service = "start-up" /\ Starting)
    /\ WF_sigVars(service = "signatures" /\ SignAny)

-----------------------------------------------------------------------------
(* The other properties of the services are in their modules. *)

\* The types of all services, the capacities of their channels, and what their
\* modules say with them.
TypeOK == StoreTypeOK /\ PoolTypeOK /\ NetTypeOK /\ StartTypeOK

\* Different payloads have different digests, for Block.Hash and N nodes.
DistinctDigests == Digests!DistinctDigests

=============================================================================
