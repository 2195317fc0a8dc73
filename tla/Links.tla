------------------------------- MODULE Links -------------------------------
(***************************************************************************)
(* What the transport gives the protocol: node m takes the messages of    *)
(* node n in the order n sent them.  Some of the first ones may be left   *)
(* out; after one has been taken none is.  A link may stop.  The logs and *)
(* cursors of module Core are links on which nothing is left out.         *)
(***************************************************************************)
EXTENDS Naturals, Sequences

CONSTANT Node

VARIABLES
    sent,      \* sent[n][m]: what n has sent to m
    skipped,   \* skipped[n][m]: how many of the first ones are left out
    delivered  \* delivered[n][m]: what m has taken

Empty == [n \in Node |-> [m \in Node |-> <<>>]]

Init ==
    /\ sent = Empty
    /\ skipped = [n \in Node |-> [m \in Node |-> 0]]
    /\ delivered = Empty

Send(n, msg, to) ==
    /\ sent' = [sent EXCEPT ![n] = [m \in Node |-> IF m \in to THEN Append(@[m], msg)
                                                               ELSE @[m]]]
    /\ UNCHANGED <<skipped, delivered>>

\* The next message of n to m.
Position(n, m) == skipped[n][m] + Len(delivered[n][m]) + 1

Skip(n, m) ==
    /\ delivered[n][m] = <<>>
    /\ Position(n, m) <= Len(sent[n][m])
    /\ skipped' = [skipped EXCEPT ![n][m] = @ + 1]
    /\ UNCHANGED <<sent, delivered>>

Deliver(n, m) ==
    /\ Position(n, m) <= Len(sent[n][m])
    /\ delivered' = [delivered EXCEPT
                        ![n][m] = Append(@, sent[n][m][Position(n, m)])]
    /\ UNCHANGED <<sent, skipped>>

=============================================================================
