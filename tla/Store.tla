------------------------------- MODULE Store -------------------------------
(***************************************************************************)
(* The store of one node (src/store/store.go): goroutines call Read,      *)
(* Write and NotifyRead, each of which puts a request on reqCh and waits  *)
(* for its answer; one goroutine takes the requests in order.  A          *)
(* NotifyRead of a missing key waits in pending until the key is written. *)
(*                                                                         *)
(* A key is the digest of its value, so only the keys are modelled.  Every *)
(* request has an answer channel of its own with room for the answer;     *)
(* an answer is therefore one step with the request's handling.           *)
(***************************************************************************)
EXTENDS Naturals, Sequences

CONSTANTS
    Client,     \* the goroutines that use the store
    Key,
    Idle,       \* no call
    PutFails,   \* whether db.Put may fail
    MaxCalls    \* bound: calls made

Request == [typ : {"READ", "WRITE", "NOTIFYREAD"}, key : Key]

ASSUME StoreAssumption ==
    /\ PutFails \in BOOLEAN
    /\ MaxCalls \in Nat
    /\ Idle \notin Request

VARIABLES
    db,       \* the keys in the database
    reqCh,    \* the clients whose requests are on reqCh, in order
    pending,  \* pending[k]: clients whose NotifyRead waits for k
    call,     \* call[c]: the request client c waits for, or Idle
    answer,   \* answer[c]: how the last call of c was answered
    calls     \* calls made

storeVars == <<db, reqCh, pending, call, answer, calls>>

Answer  == [req : Request, ok : BOOLEAN]

StoreTypeOK ==
    /\ db \in SUBSET Key
    /\ reqCh \in Seq(Client)
    /\ pending \in [Key -> SUBSET Client]
    /\ call \in [Client -> Request \cup {Idle}]
    /\ answer \in [Client -> Answer \cup {Idle}]
    /\ calls \in Nat

StoreInit ==
    /\ db = {}
    /\ reqCh = <<>>
    /\ pending = [k \in Key |-> {}]
    /\ call = [c \in Client |-> Idle]
    /\ answer = [c \in Client |-> Idle]
    /\ calls = 0

\* Store.Read, Write and NotifyRead up to the wait for the answer.
Call(c, req) ==
    /\ call[c] = Idle
    /\ calls < MaxCalls
    /\ call' = [call EXCEPT ![c] = req]
    /\ reqCh' = Append(reqCh, c)
    /\ calls' = calls + 1
    /\ UNCHANGED <<db, pending, answer>>

\* A variant of Reply that clears the call before it makes up the answer.
ReplyCleared(out) ==
    /\ call' = [c \in Client |-> IF c \in DOMAIN out THEN Idle ELSE call[c]]
    /\ answer' = [c \in Client |-> IF c \in DOMAIN out
                                   THEN [req |-> call'[c], ok |-> out[c]] ELSE answer[c]]

\* The answers in out, TRUE for no error, reach the clients in its domain.
Reply(out) ==
    /\ answer' = [c \in Client |-> IF c \in DOMAIN out
                                   THEN [req |-> call[c], ok |-> out[c]] ELSE answer[c]]
    /\ call' = [c \in Client |-> IF c \in DOMAIN out THEN Idle ELSE call[c]]

\* The goroutine of the store takes the request of c, which is of type typ.
Serve(c, typ) ==
    /\ reqCh # <<>>
    /\ c = Head(reqCh)
    /\ call[c].typ = typ
    /\ reqCh' = Tail(reqCh)
    /\ UNCHANGED calls

ServeRead(c) ==
    /\ Serve(c, "READ")
    /\ Reply([x \in {c} |-> call[c].key \in db])
    /\ UNCHANGED <<db, pending>>

\* A variant of Woken for a write that wakes the first waiter only.
WokenFirst(k) == IF pending[k] = {} THEN {} ELSE {CHOOSE c \in pending[k] : TRUE}

\* The clients a write of k wakes.
Woken(k) == pending[k]

\* The write, with its outcome, and then all clients that wait for the key:
\* these get the value of the request, whatever the outcome was.
ServeWrite(c, ok) ==
    LET k == call[c].key IN
    /\ Serve(c, "WRITE")
    /\ db' = IF ok THEN db \cup {k} ELSE db
    /\ Reply([x \in {c} \cup Woken(k) |-> x # c \/ ok])
    /\ pending' = [pending EXCEPT ![k] = {}]

\* A variant of ServeNotifyRead that queues the request without looking.
ServeNotifyBlind(c) ==
    /\ Serve(c, "NOTIFYREAD")
    /\ pending' = [pending EXCEPT ![call[c].key] = @ \cup {c}]
    /\ UNCHANGED <<db, call, answer>>

ServeNotifyRead(c) ==
    LET k == call[c].key IN
    /\ Serve(c, "NOTIFYREAD")
    /\ IF k \in db
       THEN Reply([x \in {c} |-> TRUE]) /\ UNCHANGED pending
       ELSE /\ pending' = [pending EXCEPT ![k] = @ \cup {c}]
            /\ UNCHANGED <<call, answer>>
    /\ UNCHANGED db

ServeAny ==
    \E c \in Client :
        \/ ServeRead(c)
        \/ ServeWrite(c, TRUE)
        \/ PutFails /\ ServeWrite(c, FALSE)
        \/ ServeNotifyRead(c)

StoreNext == ServeAny \/ \E c \in Client, req \in Request : Call(c, req)

StoreSpec == StoreInit /\ [][StoreNext]_storeVars

\* The goroutine of the store runs; nothing obliges a client to call.
StoreFairSpec == StoreSpec /\ WF_storeVars(ServeAny)

-----------------------------------------------------------------------------

Waits(c, k) == call[c] = [typ |-> "NOTIFYREAD", key |-> k]

\* A client that waits is on reqCh or in pending under its key, once: it is
\* answered, and answered only once, so that the send on its answer channel
\* does not stop the goroutine of the store.
AskedOnce ==
    /\ \A i, j \in 1..Len(reqCh) : reqCh[i] = reqCh[j] => i = j
    /\ \A c \in Client :
          LET queued == \E i \in 1..Len(reqCh) : reqCh[i] = c
              waiting == \E k \in Key : c \in pending[k]
          IN /\ call[c] # Idle <=> queued \/ waiting
             /\ ~(queued /\ waiting)
             /\ \A k \in Key : c \in pending[k] => Waits(c, k)

\* No wake-up is lost: a NotifyRead waits only for a key that is not there,
\* although other clients write between its call and its handling.
NoLostWakeup == \A k \in Key : pending[k] # {} => k \notin db

\* A NotifyRead returns only when its key is in the store: the synchronizer
\* loops a block back on the strength of it.
WokenHasValue ==
    \A c \in Client :
        answer[c] # Idle /\ answer[c].req.typ = "NOTIFYREAD" => answer[c].req.key \in db

\* A NotifyRead returns once its key is written, by whomever and whenever.
NotifyAnswered == \A c \in Client, k \in Key : Waits(c, k) /\ k \in db ~> ~Waits(c, k)

=============================================================================
