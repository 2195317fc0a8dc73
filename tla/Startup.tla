------------------------------ MODULE Startup ------------------------------
(***************************************************************************)
(* How the nodes start (NewNode in src/node/node.go): the mempool of a    *)
(* node opens its port and waits until the ports of all peers answer      *)
(* (initmempooltransmit), then the consensus does the same with its own   *)
(* port (Consensus), and only then do mempool, core and pool run.         *)
(*                                                                         *)
(* Ports are opened by a goroutine of their own; one goroutine per peer   *)
(* dials until it gets through and closes the connection again.           *)
(***************************************************************************)
EXTENDS Naturals, FiniteSets

CONSTANT Peer

Layer == {"mempool", "consensus"}

VARIABLES
    stage,   \* stage[n]: "off", the layer that is starting, or "running"
    up,      \* ports that are open, as <<layer, node>>
    reached  \* reached[n]: peers that have answered in the stage n is in

startVars == <<stage, up, reached>>

\* The types, and: a peer counts as reached on the port of this stage only.
StartTypeOK ==
    /\ stage \in [Peer -> Layer \cup {"off", "running"}]
    /\ up \subseteq Layer \X Peer
    /\ reached \in [Peer -> SUBSET Peer]
    /\ \A n \in Peer : \A m \in reached[n] : <<stage[n], m>> \in up

StartInit ==
    /\ stage = [n \in Peer |-> "off"]
    /\ up = {}
    /\ reached = [n \in Peer |-> {}]

-----------------------------------------------------------------------------

\* The layers whose receiver.Run has been started.
Started(n) ==
    CASE stage[n] = "off"     -> {}
      [] stage[n] = "mempool" -> {"mempool"}
      [] OTHER                -> Layer

\* NewNode calls NewMempool.
NewNode(n) ==
    /\ stage[n] = "off"
    /\ stage' = [stage EXCEPT ![n] = "mempool"]
    /\ UNCHANGED <<up, reached>>

\* A variant of Listen that opens the port of the consensus with the core.
ListenLate(n, layer) ==
    /\ layer \in Started(n)
    /\ layer = "consensus" => stage[n] = "running"
    /\ <<layer, n>> \notin up
    /\ up' = up \cup {<<layer, n>>}
    /\ UNCHANGED <<stage, reached>>

\* Receiver.Run opens the port.
Listen(n, layer) ==
    /\ layer \in Started(n)
    /\ <<layer, n>> \notin up
    /\ up' = up \cup {<<layer, n>>}
    /\ UNCHANGED <<stage, reached>>

\* A goroutine of the barrier gets through to m.  (A dial that fails is
\* repeated after a pause: no step.)
Dial(n, m) ==
    /\ <<stage[n], m>> \in up
    /\ m \notin reached[n] \cup {n}
    /\ reached' = [reached EXCEPT ![n] = @ \cup {m}]
    /\ UNCHANGED <<stage, up>>

\* A variant of Wait that goes on without one peer.
WaitMost(n) ==
    /\ stage[n] \in Layer
    /\ Cardinality(reached[n]) + 2 >= Cardinality(Peer)
    /\ stage' = [stage EXCEPT ![n] = IF @ = "mempool" THEN "consensus" ELSE "running"]
    /\ reached' = [reached EXCEPT ![n] = {}]
    /\ UNCHANGED up

\* A variant of Wait that takes over the answers of the first barrier.
WaitOnce(n) ==
    /\ stage[n] \in Layer
    /\ reached[n] = Peer \ {n}
    /\ stage' = [stage EXCEPT ![n] = IF @ = "mempool" THEN "consensus" ELSE "running"]
    /\ UNCHANGED <<up, reached>>

\* wg.Wait returns: the mempool is made and Consensus called, or the core runs.
Wait(n) ==
    /\ stage[n] \in Layer
    /\ reached[n] = Peer \ {n}
    /\ stage' = [stage EXCEPT ![n] = IF @ = "mempool" THEN "consensus" ELSE "running"]
    /\ reached' = [reached EXCEPT ![n] = {}]
    /\ UNCHANGED up

Starting ==
    \E n \in Peer : \/ Wait(n)
                    \/ \E layer \in Layer : Listen(n, layer)
                    \/ \E m \in Peer : Dial(n, m)

StartNext == Starting \/ \E n \in Peer : NewNode(n)

StartSpec == StartInit /\ [][StartNext]_startVars

\* The goroutines go on while they can; when a node is started is up to its
\* operator.
StartFairSpec == StartSpec /\ WF_startVars(Starting)

-----------------------------------------------------------------------------
(* Properties. *)

\* When the core or the mempool of a node sends its first message, both ports
\* of every peer are open: Sender's first dial, which is not repeated for the
\* message it was made for, is not refused.  Module Network starts there.
PeersListen ==
    \A n \in Peer : \A m \in Peer \ {n} :
        stage[n] = "running" => Layer \X {m} \subseteq up

\* Once all nodes have been started all of them run, although each waits for
\* all others twice.  (With one node missing nobody ever runs.)
AllRun ==
    (\A n \in Peer : stage[n] # "off") ~> (\A n \in Peer : stage[n] = "running")

=============================================================================
