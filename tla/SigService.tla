----------------------------- MODULE SigService -----------------------------
(***************************************************************************)
(* The signature service of a node (SigService in src/crypto/crypto.go).  *)
(* The core, the SPB instances and the mempool call it from goroutines of *)
(* their own; one goroutine takes the requests off reqCh, signs a SIG     *)
(* request itself and starts a goroutine for a SHARE request.  A caller   *)
(* waits on the channel its request carries.                              *)
(*                                                                         *)
(* A caller has one call open at a time: its request goes by its name.    *)
(***************************************************************************)
EXTENDS Naturals, Sequences, FiniteSets

CONSTANTS
    Caller,
    None,        \* no caller
    ReqCap,      \* capacity of reqCh (100)
    MaxRequests  \* bound: calls of one caller

ASSUME SigAssumption == None \notin Caller

VARIABLES
    sigCh,    \* SigService.reqCh: requests with their type
    req,      \* the loop variable of the service goroutine
    share,    \* the requests the SHARE goroutines have been started with
    done,     \* callers whose request is on its Done channel
    open,     \* callers that wait on Done
    requests  \* requests[c]: calls of c so far

sigVars == <<sigCh, req, share, done, open, requests>>

Type == {"SIG", "SHARE"}
Free == [by |-> None, typ |-> "SIG"]

SigInit ==
    /\ sigCh = <<>>
    /\ req = Free
    /\ share = {}
    /\ done = {}
    /\ open = {}
    /\ requests = [c \in Caller |-> 0]

-----------------------------------------------------------------------------

\* RequestSignature, RequestTsSugnature: waits while reqCh is full.
RequestSignature(c, typ) ==
    /\ c \notin open
    /\ requests[c] < MaxRequests
    /\ Len(sigCh) < ReqCap
    /\ sigCh' = Append(sigCh, [by |-> c, typ |-> typ])
    /\ open' = open \cup {c}
    /\ requests' = [requests EXCEPT ![c] = @ + 1]
    /\ UNCHANGED <<req, share, done>>

\* The service goroutine takes the next request.
TakeRequest ==
    /\ req.by = None
    /\ sigCh # <<>>
    /\ req' = Head(sigCh)
    /\ sigCh' = Tail(sigCh)
    /\ UNCHANGED <<share, done, open, requests>>

\* SIG: done does not wait, as Done holds one request and gets one.
Sign ==
    /\ req.by # None /\ req.typ = "SIG"
    /\ req.by \notin done
    /\ done' = done \cup {req.by}
    /\ req' = Free
    /\ UNCHANGED <<sigCh, share, open, requests>>

\* SHARE: go func(r *sigReq) {...}(req)
Go ==
    /\ req.by # None /\ req.typ = "SHARE"
    /\ share' = share \cup {req.by}
    /\ req' = Free
    /\ UNCHANGED <<sigCh, done, open, requests>>

\* A variant of Signed that reads the loop variable rather than the parameter.
SignedLast(c) == IF req.by # None THEN req.by ELSE c

\* The request the goroutine started with that of c signs: its parameter.
Signed(c) == c

\* A goroutine signs its share and puts the request on Done.
SignShare(c) ==
    /\ c \in share
    /\ Signed(c) \notin done
    /\ done' = done \cup {Signed(c)}
    /\ share' = share \ {c}
    /\ UNCHANGED <<sigCh, req, open, requests>>

\* The caller goes on.
Return(c) ==
    /\ c \in open \cap done
    /\ open' = open \ {c}
    /\ done' = done \ {c}
    /\ UNCHANGED <<sigCh, req, share, requests>>

SignAny == TakeRequest \/ Sign \/ Go \/ \E c \in Caller : SignShare(c) \/ Return(c)

SigNext == SignAny \/ \E c \in Caller, typ \in Type : RequestSignature(c, typ)

SigSpec == SigInit /\ [][SigNext]_sigVars

\* The goroutines go on while they can; nobody has to call.
SigFairSpec == SigSpec /\ WF_sigVars(SignAny)

-----------------------------------------------------------------------------
(* Properties. *)

\* How often the request of c is queued.
Queued(c) == Cardinality({k \in 1..Len(sigCh) : sigCh[k].by = c})

In(c, S) == IF c \in S THEN 1 ELSE 0

\* The request of a waiting caller is in one place, in the queue, with the
\* service, with a share goroutine or answered, and nobody else's is anywhere:
\* no request is lost, and no answer goes to Done twice, where it would block.
RequestInOnePlace ==
    \A c \in Caller :
        Queued(c) + In(c, {req.by}) + In(c, share) + In(c, done) = In(c, open)

\* Every call returns, with callers waiting for shares and signatures at once.
EveryCallReturns == \A c \in Caller : c \in open ~> c \notin open

=============================================================================
