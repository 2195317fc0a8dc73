------------------------------ MODULE Network ------------------------------
(***************************************************************************)
(* The transport (src/network/network.go) with the channels in front of   *)
(* and behind it (src/core/transmitor.go, src/mempool/transmit.go have    *)
(* the same shape).                                                       *)
(*                                                                         *)
(* A node's Sender handles one message at a time and one address after    *)
(* the other; it dials a peer for the first message to it and keeps the   *)
(* connection for ever.  One goroutine per connection writes, one per     *)
(* accepted connection reads.  All of these run at once and block on full *)
(* channels.  Transmitor.msgCh and Sender.msgCh, one behind the other,    *)
(* are one queue here, and so are Receiver.msg and recvCh.                *)
(*                                                                         *)
(* The k-th message of a node is named k.  All nodes are listening: see   *)
(* module Startup.                                                        *)
(***************************************************************************)
EXTENDS Naturals, Sequences, FiniteSets, Functions

CONSTANTS
    Node,
    Deaf,       \* faulty nodes: their Core and Mempool never read
    MaxSent,    \* bound: MaxSent[n] messages are sent by n
    MsgCap,     \* capacity of msgCh (10_000)
    ConnCap,    \* capacity of a connection's channel (1000)
    WireCap,    \* bound: messages in the buffers of one TCP connection
    RecvCap,    \* capacity of Receiver.msg and recvCh (10_000 each)
    FaultKind,  \* the faults to consider, of "dial", "break" and "restart"
    MaxFaults   \* bound: faults

ASSUME NetworkAssumption ==
    /\ IsFiniteSet(Node) /\ Deaf \subseteq Node
    /\ MaxSent \in [Node -> Nat]
    /\ MsgCap \in Nat /\ RecvCap \in Nat /\ WireCap \in Nat
    /\ ConnCap \in Nat \ {0}
    /\ MaxFaults \in Nat

VARIABLES
    sent,       \* sent[n][m]: what n has sent to m so far
    failed,     \* failed[n][m]: messages to m whose dial has failed
    delivered,  \* delivered[n][m]: what m's reader has taken so far
    sentBy,     \* sentBy[n]: messages sent by n
    msgCh,      \* Sender.msgCh: messages with their addresses
    fan,        \* the message Sender.Run is at, with the addresses to come
    conns,      \* conns[n][m]: n's connection to m
    connCh,     \* connCh[n][m]: the channel in front of it
    wire,       \* wire[n][m]: written and not yet read
    recv,       \* recv[m]: Receiver.msg, messages with their senders
    faults      \* faults so far

history == <<sent, failed, delivered, sentBy>>
netVars == <<history, msgCh, fan, conns, connCh, wire, recv, faults>>

NetMessage == [msg : Nat, addr : Seq(Node)]
NoMessage  == [msg |-> 0, addr |-> <<>>]
Arrival    == [from : Node, msg : Nat]

\* The types of the variables, and the capacities of the channels.
NetTypeOK ==
    /\ sent \in [Node -> [Node -> Seq(Nat)]]
    /\ failed \in [Node -> [Node -> Nat]]
    /\ delivered \in [Node -> [Node -> Seq(Nat)]]
    /\ sentBy \in [Node -> Nat]
    /\ msgCh \in [Node -> Seq(NetMessage)]
    /\ fan \in [Node -> NetMessage]
    /\ conns \in [Node -> [Node -> {"none", "up", "broken"}]]
    /\ connCh \in [Node -> [Node -> Seq(Nat)]]
    /\ wire \in [Node -> [Node -> Seq(Nat)]]
    /\ recv \in [Node -> Seq(Arrival)]
    /\ faults \in 0..MaxFaults
    /\ \A n, m \in Node : /\ Len(msgCh[n]) <= MsgCap
                          /\ Len(connCh[n][m]) <= ConnCap
                          /\ Len(recv[n]) <= RecvCap
                          /\ conns[n][m] = "none" => connCh[n][m] = <<>>

Empty == [n \in Node |-> [m \in Node |-> <<>>]]

NetInit ==
    /\ sent = Empty
    /\ failed = [n \in Node |-> [m \in Node |-> 0]]
    /\ delivered = Empty
    /\ sentBy = [n \in Node |-> 0]
    /\ msgCh = [n \in Node |-> <<>>]
    /\ fan = [n \in Node |-> NoMessage]
    /\ conns = [n \in Node |-> [m \in Node |-> "none"]]
    /\ connCh = Empty
    /\ wire = Empty
    /\ recv = [n \in Node |-> <<>>]
    /\ faults = 0

-----------------------------------------------------------------------------
(* Sending. *)

\* Committee.BroadCast goes over a map: the addresses come in any order.
BroadCast(n) == Injection(1..Cardinality(Node \ {n}), Node \ {n})

\* Transmitor.Send: to one node, or to all others.
Send(n, addr) ==
    /\ sentBy[n] < MaxSent[n]
    /\ Len(msgCh[n]) < MsgCap
    /\ sentBy' = [sentBy EXCEPT ![n] = @ + 1]
    /\ msgCh' = [msgCh EXCEPT ![n] = Append(@, [msg |-> sentBy[n] + 1, addr |-> addr])]
    /\ sent' = [sent EXCEPT ![n] = [m \in Node |->
                   IF m \in Range(addr) THEN Append(@[m], sentBy[n] + 1) ELSE @[m]]]
    /\ UNCHANGED <<failed, delivered, fan, conns, connCh, wire, recv, faults>>

\* Sender.Run takes the next message when it is through with the last one.
Run(n) ==
    /\ fan[n].addr = <<>>
    /\ msgCh[n] # <<>>
    /\ fan' = [fan EXCEPT ![n] = Head(msgCh[n])]
    /\ msgCh' = [msgCh EXCEPT ![n] = Tail(@)]
    /\ UNCHANGED <<history, conns, connCh, wire, recv, faults>>

\* Sender.Run is at the address of m.
At(n, m) == fan[n].addr # <<>> /\ Head(fan[n].addr) = m

NextAddress(n) == fan' = [fan EXCEPT ![n].addr = Tail(@)]

\* A variant of Forward with an unbuffered channel, which waits for the goroutine
\* of the connection and so for the connection itself.
ForwardUnbuffered(n, m) ==
    /\ At(n, m)
    /\ conns[n][m] # "none"
    /\ connCh[n][m] = <<>>
    /\ conns[n][m] = "up" => Len(wire[n][m]) < WireCap
    /\ connCh' = [connCh EXCEPT ![n][m] = Append(@, fan[n].msg)]
    /\ NextAddress(n)
    /\ UNCHANGED <<history, msgCh, conns, wire, recv, faults>>

\* Run, with a connection: waits while its channel is full, and with it every
\* later address and message.
Forward(n, m) ==
    /\ At(n, m)
    /\ conns[n][m] # "none"
    /\ Len(connCh[n][m]) < ConnCap
    /\ connCh' = [connCh EXCEPT ![n][m] = Append(@, fan[n].msg)]
    /\ NextAddress(n)
    /\ UNCHANGED <<history, msgCh, conns, wire, recv, faults>>

\* A variant of Connect that does not keep the connection.
ConnectForgotten(n, m) ==
    /\ At(n, m)
    /\ conns[n][m] = "none"
    /\ connCh' = [connCh EXCEPT ![n][m] = <<fan[n].msg>>]
    /\ NextAddress(n)
    /\ UNCHANGED <<history, msgCh, conns, wire, recv, faults>>

\* Run, without one, and connect succeeds.
Connect(n, m) ==
    /\ At(n, m)
    /\ conns[n][m] = "none"
    /\ conns' = [conns EXCEPT ![n][m] = "up"]
    /\ connCh' = [connCh EXCEPT ![n][m] = <<fan[n].msg>>]
    /\ NextAddress(n)
    /\ UNCHANGED <<history, msgCh, wire, recv, faults>>

Fault(kind) ==
    /\ kind \in FaultKind
    /\ faults < MaxFaults
    /\ faults' = faults + 1

\* Run, and connect fails: the message is not sent to m, the next one dials again.
ConnectFails(n, m) ==
    /\ At(n, m)
    /\ conns[n][m] = "none"
    /\ Fault("dial")
    /\ NextAddress(n)
    /\ failed' = [failed EXCEPT ![n][m] = @ + 1]
    /\ UNCHANGED <<sent, delivered, sentBy, msgCh, conns, connCh, wire, recv>>

-----------------------------------------------------------------------------
(* Connections. *)

\* A variant of Write that dials again after an error.
WriteReconnects(n, m) ==
    /\ connCh[n][m] # <<>>
    /\ connCh' = [connCh EXCEPT ![n][m] = Tail(@)]
    /\ \/ /\ conns[n][m] = "up"
          /\ Len(wire[n][m]) < WireCap
          /\ wire' = [wire EXCEPT ![n][m] = Append(@, Head(connCh[n][m]))]
          /\ UNCHANGED conns
       \/ /\ conns[n][m] = "broken"
          /\ conns' = [conns EXCEPT ![n][m] = "up"]
          /\ UNCHANGED wire
    /\ UNCHANGED <<history, msgCh, fan, recv, faults>>

\* The goroutine of connect writes, or logs the error and goes on.
Write(n, m) ==
    /\ connCh[n][m] # <<>>
    /\ connCh' = [connCh EXCEPT ![n][m] = Tail(@)]
    /\ \/ /\ conns[n][m] = "up"
          /\ Len(wire[n][m]) < WireCap
          /\ wire' = [wire EXCEPT ![n][m] = Append(@, Head(connCh[n][m]))]
       \/ conns[n][m] = "broken" /\ UNCHANGED wire
    /\ UNCHANGED <<history, msgCh, fan, conns, recv, faults>>

\* The connection breaks: a part of what is on it still arrives.
Break(n, m) ==
    /\ conns[n][m] = "up"
    /\ Fault("break")
    /\ conns' = [conns EXCEPT ![n][m] = "broken"]
    /\ \E k \in 0..Len(wire[n][m]) :
          wire' = [wire EXCEPT ![n][m] = SubSeq(@, 1, k)]
    /\ UNCHANGED <<history, msgCh, fan, connCh, recv>>

\* serveConn: waits while the channel is full.
serveConn(n, m) ==
    /\ wire[n][m] # <<>>
    /\ Len(recv[m]) < RecvCap
    /\ wire' = [wire EXCEPT ![n][m] = Tail(@)]
    /\ recv' = [recv EXCEPT ![m] = Append(@, [from |-> n, msg |-> Head(wire[n][m])])]
    /\ UNCHANGED <<history, msgCh, fan, conns, connCh, faults>>

\* Core.Run or Mempool.Run takes the next message.
Recv(m) ==
    /\ m \notin Deaf
    /\ recv[m] # <<>>
    /\ LET x == Head(recv[m]) IN
          delivered' = [delivered EXCEPT ![x.from][m] = Append(@, x.msg)]
    /\ recv' = [recv EXCEPT ![m] = Tail(@)]
    /\ UNCHANGED <<sent, failed, sentBy, msgCh, fan, conns, connCh, wire, faults>>

\* The receiver of m is stopped and another one listens on its address: the
\* accepted connections are closed.
Restart(m) ==
    /\ Fault("restart")
    /\ conns' = [n \in Node |-> [conns[n] EXCEPT ![m] = IF @ = "up" THEN "broken" ELSE @]]
    /\ wire' = [n \in Node |-> [wire[n] EXCEPT ![m] = <<>>]]
    /\ recv' = [recv EXCEPT ![m] = <<>>]
    /\ UNCHANGED <<history, msgCh, fan, connCh>>

-----------------------------------------------------------------------------

Link(n, m) == Forward(n, m) \/ Connect(n, m) \/ Write(n, m) \/ serveConn(n, m)

NetNext ==
    \/ \E n \in Node : \/ \E addr \in BroadCast(n) : Send(n, addr)
                       \/ \E m \in Node \ {n} : Send(n, <<m>>)
                       \/ Run(n)
                       \/ Recv(n)
                       \/ Restart(n)
    \/ \E n, m \in Node : Link(n, m) \/ ConnectFails(n, m) \/ Break(n, m)

NetSpec == NetInit /\ [][NetNext]_netVars

\* The goroutines go on while they can; every step moves a message on, so no
\* goroutine is passed over for ever.  Nobody has to send.
Moves == \E n, m \in Node : Run(n) \/ Recv(n) \/ Link(n, m)

NetFairSpec == NetSpec /\ WF_netVars(Moves)

-----------------------------------------------------------------------------
(* Properties. *)

Abstract == INSTANCE Links WITH skipped <- failed

\* The transport is what module Links says: a peer takes the messages of a node
\* in order, and only those before the first successful dial are left out.  A
\* connection that breaks ends the link: it never skips a message and goes on,
\* although Sender and its goroutines go on to accept and drop messages.
ImplementsLinks ==
    /\ Abstract!Init
    /\ [][\E n, m \in Node : \/ Abstract!Deliver(n, m)
                             \/ Abstract!Skip(n, m)
                             \/ \E to \in SUBSET Node : Abstract!Send(n, sentBy'[n], to)
         ]_<<sent, failed, delivered>>

\* What n can send to a node that does not read before its Sender is stuck.
Room == ConnCap + WireCap + RecvCap

Stuck(n) == \E d \in Deaf : Len(sent[n][d]) > Room

\* Without faults everything sent to the nodes that read is taken in the end,
\* although Sender.Run serves the addresses in turn and waits at each, unless n
\* has sent more to a node that does not read than the channels and the
\* connection on the way to it hold.
ReadersServed ==
    \A n \in Node :
        []<>(\/ faults > 0
             \/ Stuck(n)
             \/ \A m \in Node \ Deaf : delivered[n][m] = sent[n][m])

=============================================================================
