--------------------------- MODULE Services_proofs ---------------------------
(***************************************************************************)
(* What is proved of the committor and the services of a node, for any    *)
(* number of epochs, clients, keys, callers and peers and any sizes of    *)
(* the buffers and channels.                                              *)
(***************************************************************************)
EXTENDS Services, Committor, Network_proofs

-----------------------------------------------------------------------------
(* The committor implements an ordered log, for any set of proposers, any
   number of epochs and any capacity of the call-back channel. *)

\* A waiting block is filed under its epoch, and the block run is about to log
\* is the one of the next epoch.
Filed ==
    /\ \A e \in Epochs : Blocks[e] # NoBlock => Blocks[e].epoch = e
    /\ run = "commit" => block \in Block /\ block.epoch = Len(committed)

CommitInv == CommitTypeOK /\ HandedOverInStep /\ Filed

\* The initial state, an empty committor, satisfies the invariant.
LEMMA CommitInitInv == CommitInit => CommitInv
BY CommittorAssumption
   DEF CommitInit, CommitInv, CommitTypeOK, HandedOverInStep, Filed, HasNext, Epochs

\* Every step of Commit, run and AnalyzeBlock keeps the invariant.
LEMMA CommitNextInv == CommitInv /\ [CommitNext]_commitVars => CommitInv'
<1> SUFFICES ASSUME CommitInv, [CommitNext]_commitVars PROVE CommitInv'
    OBVIOUS
<1> USE CommittorAssumption DEF CommitInv, CommitTypeOK, HandedOverInStep, Filed, HasNext, Epochs
<1>1. ASSUME NEW b \in Block, Commit(b) PROVE CommitInv'
  <2>1. b.epoch \in 0..MaxEpoch /\ b # NoBlock
        BY DEF Block
  <2>2. CASE b.epoch < Index
        BY <1>1, <2>1, <2>2 DEF Commit
  <2>3. CASE ~(b.epoch < Index)
        BY ZenonT(60), <1>1, <2>1, <2>3 DEF Commit
  <2>4. QED BY <2>2, <2>3
<1>2. CASE HandOver
  <2>1. Blocks[Index] \in Block /\ Blocks[Index].epoch = Index
        BY <1>2 DEF HandOver
  <2>2. QED BY <1>2, <2>1 DEF HandOver
<1>3. CASE CommitReturns
      BY <1>3 DEF CommitReturns
<1>4. CASE LogCommit
  <2>1. /\ committed' \in Seq(Block)
        /\ Len(committed') = Len(committed) + 1
        BY <1>4 DEF LogCommit
  <2>2. QED BY <1>4, <2>1 DEF LogCommit
<1>5. CASE CallBack
      BY <1>5 DEF CallBack
<1>6. CASE AnalyzeBlock
      BY <1>6 DEF AnalyzeBlock
<1>7. CASE UNCHANGED commitVars
      BY <1>7 DEF commitVars
<1>8. QED BY <1>1, <1>2, <1>3, <1>4, <1>5, <1>6, <1>7 DEF CommitNext

\* The invariant holds in every reachable state.
LEMMA CommitInvariance == CommitSpec => []CommitInv
BY CommitInitInv, CommitNextInv, PTL DEF CommitSpec

\* The committor's variables keep their types; Index never passes the last
\* epoch by more than one and the call-back channel never overflows.
THEOREM CommitTypes == CommitSpec => []CommitTypeOK
<1>1. CommitInv => CommitTypeOK
      BY DEF CommitInv
<1>2. QED BY <1>1, CommitInvariance, PTL

\* Commit and run stay within one block of each other, and Commit does not
\* return while it still could hand a block over.
THEOREM InStep == CommitSpec => []HandedOverInStep
<1>1. CommitInv => HandedOverInStep
      BY DEF CommitInv
<1>2. QED BY <1>1, CommitInvariance, PTL

\* Every step of the committor either leaves the log alone or appends the block
\* of the next epoch: the committor implements OrderedLog.
THEOREM LogRefinement == CommitSpec => ImplementsLog
<1>1. CommitInit => Log!Init
      BY DEF CommitInit, Log!Init
<1>2. CommitInv /\ [CommitNext]_commitVars => [Log!Next]_committed
  <2> SUFFICES ASSUME CommitInv, [CommitNext]_commitVars PROVE [Log!Next]_committed
      OBVIOUS
  <2>1. CASE LogCommit
        BY <2>1 DEF LogCommit, CommitInv, Filed, Log!Next
  <2>2. CASE ~LogCommit
        BY <2>2 DEF CommitNext, commitVars, Commit, HandOver, CommitReturns, CallBack, AnalyzeBlock
  <2>3. QED BY <2>1, <2>2
<1>3. QED BY <1>1, <1>2, CommitInvariance, PTL DEF CommitSpec, ImplementsLog, Log!Spec

-----------------------------------------------------------------------------
(* The store: waiting reads are neither forgotten nor answered twice. *)

StoreInv == StoreTypeOK /\ AskedOnce /\ NoLostWakeup

\* What AskedOnce says of one client.
QueuedCall(c)  == \E i \in 1..Len(reqCh) : reqCh[i] = c
WaitingCall(c) == \E k \in Key : c \in pending[k]

LEMMA StoreInitInv == StoreInit => StoreInv
  <1> SUFFICES ASSUME StoreInit PROVE StoreInv
    OBVIOUS
  <1>1. StoreTypeOK
    BY DEF StoreInit, StoreTypeOK
  <1>2. AskedOnce
    BY DEF StoreInit, AskedOnce
  <1>3. NoLostWakeup
    BY DEF StoreInit, NoLostWakeup
  <1> QED
    BY <1>1, <1>2, <1>3 DEF StoreInv

LEMMA CallInv ==
    ASSUME StoreInv, NEW c \in Client, NEW rq \in Request, Call(c, rq)
    PROVE  StoreInv'
  <1>1. /\ reqCh \in Seq(Client) /\ Len(reqCh) \in Nat
        /\ call \in [Client -> Request \cup {Idle}] /\ call[c] = Idle
        /\ call' = [call EXCEPT ![c] = rq] /\ reqCh' = Append(reqCh, c)
        /\ UNCHANGED <<db, pending, answer>> /\ rq # Idle
    BY StoreAssumption DEF StoreInv, StoreTypeOK, Call
  <1>2. StoreTypeOK'
    <2>1. reqCh' \in Seq(Client) /\ call' \in [Client -> Request \cup {Idle}]
      BY <1>1
    <2> QED
      BY <1>1, <2>1 DEF StoreInv, StoreTypeOK, Call
  <1>3. /\ Len(reqCh') = Len(reqCh) + 1 /\ reqCh'[Len(reqCh) + 1] = c
        /\ \A i \in 1..Len(reqCh) : reqCh'[i] = reqCh[i]
    BY <1>1
  <1>4. ~QueuedCall(c) /\ ~WaitingCall(c)
    BY <1>1 DEF StoreInv, AskedOnce, QueuedCall, WaitingCall
  <1>5. AskedOnce'
    <2>1. ASSUME NEW i \in 1..Len(reqCh'), NEW j \in 1..Len(reqCh'), reqCh'[i] = reqCh'[j]
          PROVE  i = j
      BY <2>1, <1>1, <1>3, <1>4 DEF StoreInv, AskedOnce, QueuedCall
    <2>2. ASSUME NEW d \in Client
          PROVE  /\ call'[d] # Idle <=> QueuedCall(d)' \/ WaitingCall(d)'
                 /\ ~(QueuedCall(d)' /\ WaitingCall(d)')
                 /\ \A k \in Key : d \in pending'[k] => Waits(d, k)'
      <3>1. CASE d = c
        <4>1. QueuedCall(d)' /\ ~WaitingCall(d)' /\ call'[d] # Idle
          BY <3>1, <1>1, <1>3, <1>4 DEF QueuedCall, WaitingCall
        <4> QED
          BY <4>1 DEF WaitingCall
      <3>2. CASE d # c
        <4>1. QueuedCall(d)' <=> QueuedCall(d)
          BY <3>2, <1>1, <1>3 DEF QueuedCall
        <4>2. call'[d] = call[d] /\ pending' = pending
          BY <3>2, <1>1
        <4>3. WaitingCall(d)' <=> WaitingCall(d)
          BY <1>1 DEF WaitingCall
        <4>4. /\ call[d] # Idle <=> QueuedCall(d) \/ WaitingCall(d)
              /\ ~(QueuedCall(d) /\ WaitingCall(d))
              /\ \A k \in Key : d \in pending[k] => Waits(d, k)
          BY DEF StoreInv, AskedOnce, QueuedCall, WaitingCall
        <4> QED
          BY <4>1, <4>2, <4>3, <4>4 DEF Waits
      <3> QED
        BY <3>1, <3>2
    <2> QED
      BY <2>1, <2>2 DEF AskedOnce, QueuedCall, WaitingCall
  <1>6. NoLostWakeup'
    BY <1>1 DEF StoreInv, NoLostWakeup
  <1> QED
    BY <1>2, <1>5, <1>6 DEF StoreInv

\* The request of c leaves reqCh, and with it every trace of c there.
LEMMA ServeFacts ==
    ASSUME StoreInv, NEW c \in Client, NEW typ, Serve(c, typ)
    PROVE  /\ reqCh' \in Seq(Client)
           /\ \A i, j \in 1..Len(reqCh') : reqCh'[i] = reqCh'[j] => i = j
           /\ ~QueuedCall(c)' /\ ~WaitingCall(c)
           /\ call[c] \in Request
           /\ \A d \in Client : d # c => (QueuedCall(d)' <=> QueuedCall(d))
  <1>1. reqCh \in Seq(Client) /\ reqCh # <<>> /\ reqCh[1] = c /\ reqCh' = Tail(reqCh)
    BY DEF StoreInv, StoreTypeOK, Serve
  <1>2. /\ reqCh' \in Seq(Client) /\ Len(reqCh') = Len(reqCh) - 1
        /\ Len(reqCh) \in Nat /\ Len(reqCh) >= 1
        /\ \A i \in 1..Len(reqCh') : reqCh'[i] = reqCh[i + 1]
    BY <1>1, SMT
  <1>3. \A i, j \in 1..Len(reqCh) : reqCh[i] = reqCh[j] => i = j
    BY DEF StoreInv, AskedOnce
  <1>4. \A i, j \in 1..Len(reqCh') : reqCh'[i] = reqCh'[j] => i = j
    BY <1>2, <1>3
  <1>5. ~QueuedCall(c)'
    BY <1>1, <1>2, <1>3 DEF QueuedCall
  <1>6. QueuedCall(c)
    BY <1>1, <1>2 DEF QueuedCall
  <1>7. ~WaitingCall(c) /\ call[c] \in Request
    BY <1>6 DEF StoreInv, AskedOnce, StoreTypeOK, QueuedCall, WaitingCall
  <1>8. ASSUME NEW d \in Client, d # c PROVE QueuedCall(d)' <=> QueuedCall(d)
    <2>1. ASSUME NEW i \in 1..Len(reqCh'), reqCh'[i] = d PROVE QueuedCall(d)
      <3>1. i + 1 \in 1..Len(reqCh) /\ reqCh[i + 1] = d
        BY <2>1, <1>2
      <3> QED
        BY <3>1 DEF QueuedCall
    <2>2. ASSUME NEW i \in 1..Len(reqCh), reqCh[i] = d PROVE QueuedCall(d)'
      <3>1. i - 1 \in 1..Len(reqCh') /\ reqCh'[i - 1] = d
        BY <2>2, <1>8, <1>1, <1>2
      <3> QED
        BY <3>1 DEF QueuedCall
    <2> QED
      BY <2>1, <2>2 DEF QueuedCall
  <1> QED
    BY <1>2, <1>4, <1>5, <1>7, <1>8

\* AskedOnce in terms of QueuedCall and WaitingCall.
LEMMA AskedOnceAs ==
    AskedOnce <=> /\ \A i, j \in 1..Len(reqCh) : reqCh[i] = reqCh[j] => i = j
                  /\ \A c \in Client : /\ call[c] # Idle <=> QueuedCall(c) \/ WaitingCall(c)
                                       /\ ~(QueuedCall(c) /\ WaitingCall(c))
                                       /\ \A k \in Key : c \in pending[k] => Waits(c, k)
  BY DEF AskedOnce, QueuedCall, WaitingCall

LEMMA ReplyTypes ==
    ASSUME StoreTypeOK, NEW out, Reply(out), \A d \in DOMAIN out : out[d] \in BOOLEAN,
           \A d \in Client : d \in DOMAIN out => call[d] \in Request
    PROVE  /\ call' \in [Client -> Request \cup {Idle}]
           /\ answer' \in [Client -> Answer \cup {Idle}]
           /\ \A d \in Client : call'[d] = IF d \in DOMAIN out THEN Idle ELSE call[d]
  BY DEF StoreTypeOK, Reply, Answer

\* A request answered at once: c waits no more, nothing else changes.
LEMMA AnswerOne ==
    ASSUME StoreInv, NEW c \in Client, NEW typ, Serve(c, typ), NEW ok \in BOOLEAN,
           Reply([x \in {c} |-> ok]), UNCHANGED <<db, pending>>
    PROVE  StoreInv'
  <1>1. /\ reqCh' \in Seq(Client)
        /\ \A i, j \in 1..Len(reqCh') : reqCh'[i] = reqCh'[j] => i = j
        /\ ~QueuedCall(c)' /\ ~WaitingCall(c) /\ call[c] \in Request
        /\ \A d \in Client : d # c => (QueuedCall(d)' <=> QueuedCall(d))
    BY ServeFacts
  <1>2. /\ call' \in [Client -> Request \cup {Idle}]
        /\ answer' \in [Client -> Answer \cup {Idle}]
        /\ \A d \in Client : call'[d] = IF d = c THEN Idle ELSE call[d]
    BY <1>1, ReplyTypes DEF StoreInv
  <1>3. StoreTypeOK'
    BY <1>1, <1>2 DEF StoreInv, StoreTypeOK, Serve
  <1>4. AskedOnce'
    <2>1. ASSUME NEW d \in Client
          PROVE  /\ call'[d] # Idle <=> QueuedCall(d)' \/ WaitingCall(d)'
                 /\ ~(QueuedCall(d)' /\ WaitingCall(d)')
                 /\ \A k \in Key : d \in pending'[k] => Waits(d, k)'
      <3>1. WaitingCall(d)' <=> WaitingCall(d)
        BY DEF WaitingCall
      <3>2. CASE d = c
        BY ZenonT(60), <3>1, <3>2, <1>1, <1>2 DEF WaitingCall
      <3>3. CASE d # c
        <4>1. call'[d] = call[d] /\ (QueuedCall(d)' <=> QueuedCall(d))
          BY ZenonT(60), <3>3, <1>1, <1>2
        <4>2. /\ call[d] # Idle <=> QueuedCall(d) \/ WaitingCall(d)
              /\ ~(QueuedCall(d) /\ WaitingCall(d))
              /\ \A k \in Key : d \in pending[k] => Waits(d, k)
          BY AskedOnceAs DEF StoreInv
        <4> QED
          BY <3>1, <4>1, <4>2 DEF Waits
      <3> QED
        BY <3>2, <3>3
    <2> QED
      BY <2>1, <1>1 DEF AskedOnce, QueuedCall, WaitingCall
  <1>5. NoLostWakeup'
    BY DEF StoreInv, NoLostWakeup
  <1> QED
    BY <1>3, <1>4, <1>5 DEF StoreInv

LEMMA ServeWriteInv ==
    ASSUME StoreInv, NEW c \in Client, NEW ok \in BOOLEAN, ServeWrite(c, ok)
    PROVE  StoreInv'
  <1> DEFINE k == call[c].key
  <1>1. /\ reqCh' \in Seq(Client)
        /\ \A i, j \in 1..Len(reqCh') : reqCh'[i] = reqCh'[j] => i = j
        /\ ~QueuedCall(c)' /\ ~WaitingCall(c) /\ call[c] \in Request
        /\ \A d \in Client : d # c => (QueuedCall(d)' <=> QueuedCall(d))
    BY ServeFacts DEF ServeWrite
  <1>2. k \in Key /\ pending[k] \subseteq Client /\ pending \in [Key -> SUBSET Client]
    BY <1>1 DEF StoreInv, StoreTypeOK, Request
  <1>3. /\ db' = (IF ok THEN db \cup {k} ELSE db)
        /\ pending' = [pending EXCEPT ![k] = {}]
    BY DEF ServeWrite
  <1>4. \A d \in Client : /\ call[d] # Idle <=> QueuedCall(d) \/ WaitingCall(d)
                          /\ ~(QueuedCall(d) /\ WaitingCall(d))
                          /\ \A q \in Key : d \in pending[q] => Waits(d, q)
    BY AskedOnceAs DEF StoreInv
  <1>5. /\ call' \in [Client -> Request \cup {Idle}]
        /\ answer' \in [Client -> Answer \cup {Idle}]
        /\ \A d \in Client : call'[d] = IF d = c \/ d \in pending[k] THEN Idle ELSE call[d]
    <2> DEFINE out == [x \in {c} \cup pending[k] |-> x # c \/ ok]
    <2>1. Reply(out)
      BY DEF ServeWrite, Woken
    <2>2. DOMAIN out = {c} \cup pending[k] /\ \A d \in DOMAIN out : out[d] \in BOOLEAN
      BY Zenon
    <2>3. \A d \in Client : d \in DOMAIN out => call[d] \in Request
      <3>1. ASSUME NEW d \in Client, d \in pending[k] PROVE call[d] \in Request
        <4>1. call[d] = [typ |-> "NOTIFYREAD", key |-> k]
          BY ZenonT(60), <3>1, <1>2, <1>4 DEF Waits
        <4> QED
          BY <4>1, <1>2 DEF Request
      <3> QED
        BY <3>1, <1>1, <2>2
    <2> HIDE DEF out
    <2>4. /\ call' \in [Client -> Request \cup {Idle}]
          /\ answer' \in [Client -> Answer \cup {Idle}]
          /\ \A d \in Client : call'[d] = IF d \in DOMAIN out THEN Idle ELSE call[d]
      BY ZenonT(60), <2>1, <2>2, <2>3, ReplyTypes DEF StoreInv
    <2> QED
      BY <2>2, <2>4
  <1>6. StoreTypeOK'
    <2>1. db' \in SUBSET Key /\ pending' \in [Key -> SUBSET Client]
      BY ZenonT(60), <1>2, <1>3 DEF StoreInv, StoreTypeOK
    <2> QED
      BY <1>1, <1>5, <2>1 DEF StoreInv, StoreTypeOK, ServeWrite, Serve
  <1> HIDE DEF k
  <1>7. AskedOnce'
    <2>1. ASSUME NEW d \in Client
          PROVE  /\ call'[d] # Idle <=> QueuedCall(d)' \/ WaitingCall(d)'
                 /\ ~(QueuedCall(d)' /\ WaitingCall(d)')
                 /\ \A q \in Key : d \in pending'[q] => Waits(d, q)'
      <3>1. CASE d = c
        <4>1. ~WaitingCall(d)' /\ ~QueuedCall(d)' /\ call'[d] = Idle
          BY ZenonT(60), <3>1, <1>1, <1>2, <1>3, <1>5 DEF WaitingCall
        <4> QED
          BY <4>1 DEF WaitingCall
      <3>2. CASE d # c /\ d \in pending[k]
        <4>1. \A q \in Key : d \in pending[q] => q = k
          <5>1. ASSUME NEW q \in Key, d \in pending[q] PROVE q = k
            <6>1. Waits(d, q) /\ Waits(d, k)
              BY <5>1, <3>2, <1>2, <1>4
            <6>2. call[d].key = q /\ call[d].key = k
              BY <6>1 DEF Waits
            <6> QED
              BY <6>2
          <5> QED
            BY <5>1
        <4>2. ~WaitingCall(d)'
          BY <4>1, <1>2, <1>3 DEF WaitingCall
        <4>3. ~QueuedCall(d)' /\ call'[d] = Idle
          BY ZenonT(60), <3>2, <1>1, <1>2, <1>4, <1>5 DEF WaitingCall
        <4> QED
          BY <4>2, <4>3 DEF WaitingCall
      <3>3. CASE d # c /\ d \notin pending[k]
        <4>1. call'[d] = call[d] /\ (QueuedCall(d)' <=> QueuedCall(d))
          BY <3>3, <1>1, <1>5
        <4>2. \A q \in Key : d \in pending'[q] <=> d \in pending[q]
          BY ZenonT(60), <3>3, <1>2, <1>3
        <4>3. WaitingCall(d)' <=> WaitingCall(d)
          BY <4>2 DEF WaitingCall
        <4> QED
          BY ZenonT(60), <4>1, <4>2, <4>3, <1>4 DEF Waits
      <3> QED
        BY ZenonT(60), <3>1, <3>2, <3>3
    <2> QED
      BY ZenonT(60), <2>1, <1>1 DEF AskedOnce, QueuedCall, WaitingCall
  <1>8. NoLostWakeup'
    BY <1>2, <1>3 DEF StoreInv, NoLostWakeup
  <1> QED
    BY <1>6, <1>7, <1>8 DEF StoreInv

LEMMA ServeNotifyReadInv ==
    ASSUME StoreInv, NEW c \in Client, ServeNotifyRead(c)
    PROVE  StoreInv'
  <1> DEFINE k == call[c].key
  <1>1. CASE k \in db
    <2>1. Serve(c, "NOTIFYREAD") /\ Reply([x \in {c} |-> TRUE]) /\ UNCHANGED <<db, pending>>
      BY <1>1 DEF ServeNotifyRead
    <2> QED
      BY Zenon, <2>1, AnswerOne
  <1>2. CASE k \notin db
    <2>1. /\ reqCh' \in Seq(Client)
          /\ \A i, j \in 1..Len(reqCh') : reqCh'[i] = reqCh'[j] => i = j
          /\ ~QueuedCall(c)' /\ ~WaitingCall(c) /\ call[c] \in Request
          /\ \A d \in Client : d # c => (QueuedCall(d)' <=> QueuedCall(d))
      BY ZenonT(60), ServeFacts DEF ServeNotifyRead
    <2>2. /\ pending' = [pending EXCEPT ![k] = @ \cup {c}]
          /\ UNCHANGED <<db, call, answer, calls>> /\ call[c].typ = "NOTIFYREAD"
      BY <1>2 DEF ServeNotifyRead, Serve
    <2>3. k \in Key /\ pending \in [Key -> SUBSET Client]
      BY <2>1 DEF StoreInv, StoreTypeOK, Request
    <2>4. Waits(c, k) /\ call[c] # Idle
      BY <2>1, <2>2, StoreAssumption DEF Request, Waits
    <2>5. StoreTypeOK'
      <3>1. pending' \in [Key -> SUBSET Client]
        BY ZenonT(60), <2>2, <2>3
      <3> QED
        BY ZenonT(60), <3>1, <2>1, <2>2 DEF StoreInv, StoreTypeOK
    <2> HIDE DEF k
    <2>6. AskedOnce'
      <3>1. ASSUME NEW d \in Client
            PROVE  /\ call'[d] # Idle <=> QueuedCall(d)' \/ WaitingCall(d)'
                   /\ ~(QueuedCall(d)' /\ WaitingCall(d)')
                   /\ \A q \in Key : d \in pending'[q] => Waits(d, q)'
        <4>1. CASE d = c
          <5>1. WaitingCall(d)' /\ ~QueuedCall(d)'
            BY ZenonT(60), <4>1, <2>1, <2>2, <2>3 DEF WaitingCall
          <5>2. \A q \in Key : d \in pending'[q] => q = k
            BY ZenonT(60), <4>1, <2>1, <2>2, <2>3 DEF WaitingCall
          <5> QED
            BY ZenonT(60), <4>1, <5>1, <5>2, <2>2, <2>4 DEF Waits
        <4>2. CASE d # c
          <5>1. \A q \in Key : d \in pending'[q] <=> d \in pending[q]
            BY ZenonT(60), <4>2, <2>2, <2>3
          <5>2. WaitingCall(d)' <=> WaitingCall(d)
            BY <5>1 DEF WaitingCall
          <5>3. /\ call[d] # Idle <=> QueuedCall(d) \/ WaitingCall(d)
                /\ ~(QueuedCall(d) /\ WaitingCall(d))
                /\ \A q \in Key : d \in pending[q] => Waits(d, q)
            BY AskedOnceAs DEF StoreInv
          <5> QED
            BY ZenonT(60), <4>2, <5>1, <5>2, <5>3, <2>1, <2>2 DEF Waits
        <4> QED
          BY ZenonT(60), <4>1, <4>2
      <3> QED
        BY ZenonT(60), <3>1, <2>1 DEF AskedOnce, QueuedCall, WaitingCall
    <2>7. NoLostWakeup'
      BY <1>2, <2>2, <2>3 DEF StoreInv, NoLostWakeup, k
    <2> QED
      BY <2>5, <2>6, <2>7 DEF StoreInv
  <1> QED
    BY <1>1, <1>2

LEMMA StoreNextInv == StoreInv /\ [StoreNext]_storeVars => StoreInv'
  <1> SUFFICES ASSUME StoreInv, [StoreNext]_storeVars PROVE StoreInv'
    OBVIOUS
  <1>1. CASE UNCHANGED storeVars
    BY <1>1 DEF storeVars, StoreInv, StoreTypeOK, AskedOnce, NoLostWakeup, Waits
  <1>2. ASSUME NEW c \in Client, NEW rq \in Request, Call(c, rq) PROVE StoreInv'
    BY <1>2, CallInv
  <1>3. ASSUME NEW c \in Client, ServeRead(c) PROVE StoreInv'
    <2>1. (call[c].key \in db) \in BOOLEAN
      OBVIOUS
    <2>2. PICK ok \in BOOLEAN : ok = (call[c].key \in db)
      BY Zenon, <2>1
    <2>3. /\ Serve(c, "READ") /\ Reply([x \in {c} |-> ok])
          /\ UNCHANGED <<db, pending>>
      BY <1>3, <2>2, Zenon DEF ServeRead
    <2> QED
      BY Zenon, <2>3, AnswerOne
  <1>4. ASSUME NEW c \in Client, NEW ok \in BOOLEAN, ServeWrite(c, ok) PROVE StoreInv'
    BY <1>4, ServeWriteInv
  <1>5. ASSUME NEW c \in Client, ServeNotifyRead(c) PROVE StoreInv'
    BY ZenonT(60), <1>5, ServeNotifyReadInv
  <1> QED
    BY Zenon, <1>1, <1>2, <1>3, <1>4, <1>5 DEF StoreNext, ServeAny

LEMMA StoreInvariance == StoreSpec => []StoreInv
  BY StoreInitInv, StoreNextInv, PTL DEF StoreSpec

-----------------------------------------------------------------------------

\* Every waiting call is on reqCh or in pending exactly once, so the goroutine
\* of the store forgets none and answers none twice (NewStore of store.go).
THEOREM CallsAskedOnce == StoreSpec => []AskedOnce
  <1>1. StoreInv => AskedOnce
    BY DEF StoreInv
  <1> QED
    BY <1>1, StoreInvariance, PTL

\* A NotifyRead that waits waits for a key that is not in the database, whether
\* or not writes may fail.
THEOREM WakeupsKept == StoreSpec => [](StoreTypeOK /\ NoLostWakeup)
  <1>1. StoreInv => StoreTypeOK /\ NoLostWakeup
    BY DEF StoreInv
  <1> QED
    BY <1>1, StoreInvariance, PTL

\* If no write fails, a NotifyRead that has returned has its key in the
\* database; after a failed write it may not be.
THEOREM WokenWithValue == ASSUME ~PutFails PROVE StoreSpec => []WokenHasValue
  <1>1. StoreInit => WokenHasValue
    BY DEF StoreInit, WokenHasValue
  <1>2. StoreInv /\ WokenHasValue /\ [StoreNext]_storeVars => WokenHasValue'
    <2> SUFFICES ASSUME StoreInv, WokenHasValue, [StoreNext]_storeVars,
                        NEW d \in Client, answer'[d] # Idle,
                        answer'[d].req.typ = "NOTIFYREAD"
                 PROVE  answer'[d].req.key \in db'
      BY DEF WokenHasValue
    <2>1. CASE answer'[d] = answer[d] /\ db \subseteq db'
      BY <2>1 DEF WokenHasValue
    <2>2. CASE UNCHANGED storeVars \/ \E c \in Client, rq \in Request : Call(c, rq)
      BY <2>1, <2>2 DEF storeVars, Call
    <2>3. ASSUME NEW c \in Client, ServeRead(c) PROVE answer'[d].req.key \in db'
      <3>1. CASE d = c
        <4>1. answer'[d].req = call[c] /\ call[c].typ = "READ"
          BY ZenonT(60), <2>3, <3>1 DEF ServeRead, Reply, Serve
        <4> QED
          BY ZenonT(60), <4>1
      <3>2. CASE d # c
        BY <2>1, <2>3, <3>2 DEF ServeRead, Reply
      <3> QED
        BY <3>1, <3>2
    <2>4. ASSUME NEW c \in Client, ServeNotifyRead(c) PROVE answer'[d].req.key \in db'
      <3>1. CASE d = c /\ call[c].key \in db
        <4>1. answer'[d].req = call[c] /\ db' = db
          BY <2>4, <3>1 DEF ServeNotifyRead, Reply
        <4> QED
          BY <4>1, <3>1
      <3>2. CASE ~(d = c /\ call[c].key \in db)
        BY <2>1, <2>4, <3>2 DEF ServeNotifyRead, Reply
      <3> QED
        BY <3>1, <3>2
    <2>5. ASSUME NEW c \in Client, ServeWrite(c, TRUE) PROVE answer'[d].req.key \in db'
      <3>1. db' = db \cup {call[c].key} /\ call[c].typ = "WRITE" /\ call[c] \in Request
        BY <2>5, ServeFacts DEF ServeWrite, Serve
      <3>2. CASE d = c
        <4>1. answer'[d].req = call[c]
          BY <2>5, <3>2 DEF ServeWrite, Reply, Woken
        <4> QED
          BY ZenonT(60), <4>1, <3>1
      <3>3. CASE d # c /\ d \in pending[call[c].key]
        <4>1. answer'[d].req = call[d]
          BY ZenonT(60), <2>5, <3>3 DEF ServeWrite, Reply, Woken
        <4>2. call[d] = [typ |-> "NOTIFYREAD", key |-> call[c].key]
          BY ZenonT(60), <3>1, <3>3, AskedOnceAs DEF StoreInv, Waits, Request
        <4> QED
          BY <4>1, <4>2, <3>1
      <3>4. CASE d # c /\ d \notin pending[call[c].key]
        <4>1. answer'[d] = answer[d]
          BY <2>5, <3>4 DEF ServeWrite, Reply, Woken
        <4> QED
          BY ZenonT(60), <4>1, <2>1, <3>1
      <3> QED
        BY ZenonT(60), <3>2, <3>3, <3>4
    <2> QED
      BY Zenon, <2>2, <2>3, <2>4, <2>5 DEF StoreNext, ServeAny
  <1> QED
    BY <1>1, <1>2, StoreInvariance, PTL DEF StoreSpec

-----------------------------------------------------------------------------
(* The transaction pool implements the stream of batches, for every size of  *)
(* the ring buffer that is larger than a batch.                              *)

\* What is in the channels, counted from the batches taken: the batches of
\* batchChannel and of make() follow those taken, and the transactions of
\* txChannel those in the buffer.
Pipeline ==
    /\ bcnt = Len(taken) + Len(batchChannel)
    /\ \A j \in 1..Len(batchChannel) :
          batchChannel[j] = Stream!StreamBatch(Len(taken) + j - 1)
    /\ sending # <<>> => sending[1] = Stream!StreamBatch(bcnt)
    /\ made = Batched + nums + Len(txChannel)
    /\ \A j \in 1..Len(txChannel) : txChannel[j] = Batched + nums + j

PoolInv == PoolTypeOK /\ BufferInOrder /\ Pipeline

-----------------------------------------------------------------------------

\* An index that goes around once.
LEMMA ModOnce ==
    ASSUME NEW m \in Nat \ {0}, NEW a \in 0..(2 * m - 1)
    PROVE  a % m = IF a < m THEN a ELSE a - m
  BY SMTT(30)

LEMMA BatchedType == PoolTypeOK => Batched \in Nat /\ BatchSize * bcnt \in Nat
  <1> SUFFICES ASSUME PoolTypeOK PROVE Batched \in Nat /\ BatchSize * bcnt \in Nat
    OBVIOUS
  <1>1. BatchSize \in Nat /\ bcnt \in Nat /\ Len(sending) \in Nat
    BY TxPoolAssumption DEF PoolTypeOK
  <1> QED
    BY <1>1 DEF Batched

LEMMA StreamBatchType ==
    ASSUME NEW k \in Nat
    PROVE  Stream!StreamBatch(k) \in Batch
  <1>1. Id + N * k \in Nat
    BY TxPoolAssumption
  <1>2. ASSUME NEW i \in 1..BatchSize PROVE BatchSize * k + i \in Nat
    BY TxPoolAssumption
  <1> QED
    BY <1>1, <1>2 DEF Stream!StreamBatch, Batch

\* The slot i places after slot r.
Around(a) == IF a < MaxQueueSize THEN a ELSE a - MaxQueueSize

LEMMA SlotAfter ==
    ASSUME NEW r \in Slots \cup {-1}, NEW i \in 1..MaxQueueSize
    PROVE  /\ (r + i) % MaxQueueSize \in Slots
           /\ (r + i) % MaxQueueSize = Around(r + i)
  <1>1. PICK a : a = r + i
    OBVIOUS
  <1>2. a \in 0..(2 * MaxQueueSize - 1)
    BY <1>1, TxPoolAssumption DEF Slots
  <1>3. a % MaxQueueSize = IF a < MaxQueueSize THEN a ELSE a - MaxQueueSize
    BY Zenon, <1>2, ModOnce, TxPoolAssumption
  <1>4. (r + i) % MaxQueueSize = a % MaxQueueSize
    BY <1>1
  <1> QED
    BY <1>1, <1>2, <1>3, <1>4, TxPoolAssumption DEF Slots, Around

-----------------------------------------------------------------------------

LEMMA PoolInitInv == ASSUME BatchSize < MaxQueueSize PROVE PoolInit => PoolInv
  <1> SUFFICES ASSUME PoolInit PROVE PoolInv
    OBVIOUS
  <1>1. PoolTypeOK
    BY TxPoolAssumption DEF PoolInit, PoolTypeOK, Slots
  <1>2. Batched = 0
    BY TxPoolAssumption DEF PoolInit, Batched
  <1>3. BufferInOrder
    <2>1. (rind + nums + 1) % MaxQueueSize = 0
      BY TxPoolAssumption, ModOnce DEF PoolInit
    <2> QED
      BY <2>1 DEF PoolInit, BufferInOrder
  <1>4. Pipeline
    BY <1>2 DEF PoolInit, Pipeline
  <1> QED
    BY <1>1, <1>3, <1>4 DEF PoolInv

LEMMA MakeTxInv == PoolInv /\ MakeTx => PoolInv'
  <1> SUFFICES ASSUME PoolInv, MakeTx PROVE PoolInv'
    OBVIOUS
  <1> USE DEF PoolInv
  <1>1. PoolTypeOK'
    <2>1. made' \in Nat /\ txChannel' \in Seq(Nat)
      BY DEF MakeTx, PoolTypeOK
    <2> QED
      BY <2>1 DEF MakeTx, PoolTypeOK, ringVars
  <1>2. Batched' = Batched /\ Batched \in Nat
    BY BatchedType DEF MakeTx, Batched
  <1>3. BufferInOrder'
    BY <1>2 DEF MakeTx, BufferInOrder, ringVars, Slot
  <1>4. Pipeline'
    <2>1. made' = Batched' + nums' + Len(txChannel')
      BY <1>2 DEF MakeTx, Pipeline, PoolTypeOK, ringVars
    <2>2. ASSUME NEW j \in 1..Len(txChannel')
          PROVE  txChannel'[j] = Batched' + nums' + j
      <3>1. nums' = nums /\ nums \in Nat /\ txChannel \in Seq(Nat)
        BY TxPoolAssumption DEF MakeTx, ringVars, PoolTypeOK
      <3>2. CASE j \in 1..Len(txChannel)
        BY <3>1, <3>2, <1>2 DEF MakeTx, Pipeline
      <3>3. CASE j = Len(txChannel) + 1
        BY <3>1, <3>3, <1>2 DEF MakeTx, Pipeline
      <3> QED
        BY <3>1, <3>2, <3>3 DEF MakeTx
    <2> QED
      BY <2>1, <2>2 DEF MakeTx, Pipeline
  <1> QED
    BY <1>1, <1>3, <1>4

\* Where Enqueue writes, and what it leaves in the slots before.
LEMMA EnqueueSlots ==
    ASSUME PoolInv, Enqueue, BatchSize < MaxQueueSize
    PROVE  /\ wind # rind
           /\ Head(txChannel) = BatchSize * bcnt + nums + 1
           /\ queue' \in [Slots -> Nat]
           /\ wind = Slot(nums + 1)
           /\ wind = Around(rind + nums + 1)
           /\ \A i \in 1..(nums + 1) : queue'[Slot(i)] = BatchSize * bcnt + i
  <1> USE DEF PoolInv
  <1>1. wind # rind
    BY DEF BufferInOrder
  <1>2. Batched = BatchSize * bcnt /\ BatchSize * bcnt \in Nat
    <2>1. Len(sending) = 0 /\ bcnt \in Nat
      BY DEF Enqueue, PoolTypeOK
    <2>2. bcnt + Len(sending) = bcnt
      BY <2>1
    <2> QED
      BY <2>2, BatchedType DEF Batched
  <1>3. Head(txChannel) = BatchSize * bcnt + nums + 1 /\ Head(txChannel) \in Nat
    <2>1. txChannel \in Seq(Nat) /\ txChannel # <<>> /\ nums \in Nat
      BY TxPoolAssumption DEF Enqueue, PoolTypeOK
    <2>2. txChannel[1] = BatchSize * bcnt + nums + 1
      BY <2>1, <1>2 DEF Pipeline
    <2> QED
      BY <2>1, <2>2
  <1>4. queue' = [queue EXCEPT ![wind] = Head(txChannel)]
    BY <1>1 DEF Enqueue
  <1>5. wind = Slot(nums + 1)
    <2>1. nums \in Int /\ rind \in Int
      BY TxPoolAssumption DEF PoolTypeOK, Slots
    <2>2. rind + nums + 1 = rind + (nums + 1)
      BY <2>1
    <2> QED
      BY <2>2 DEF BufferInOrder, Slot
  <1>a. wind = Around(rind + nums + 1)
    <2>1. PICK k : k = nums + 1
      OBVIOUS
    <2>2. /\ k \in 1..MaxQueueSize /\ rind \in Slots \cup {-1}
          /\ rind + nums + 1 = rind + k
      BY <2>1, TxPoolAssumption DEF PoolTypeOK, Slots
    <2> QED
      BY <2>2, SlotAfter DEF BufferInOrder
  <1>6. queue' \in [Slots -> Nat]
    BY <1>3, <1>4 DEF PoolTypeOK
  <1>7. ASSUME NEW i \in 1..(nums + 1)
        PROVE  queue'[Slot(i)] = BatchSize * bcnt + i
    <2>1. CASE i = nums + 1
      <3>1. queue'[wind] = Head(txChannel)
        BY <1>4 DEF PoolTypeOK
      <3> QED
        BY <2>1, <3>1, <1>3, <1>5, TxPoolAssumption DEF PoolTypeOK
    <2>2. CASE i \in 1..nums
      <3>1. /\ nums + 1 \in 1..MaxQueueSize /\ i \in 1..MaxQueueSize
            /\ rind \in Slots \cup {-1} /\ i < nums + 1
            /\ rind \in Int /\ i \in Int /\ nums \in Int
        BY <2>2, TxPoolAssumption DEF PoolTypeOK, Slots
      <3>2. Slot(i) \in Slots /\ Slot(i) = Around(rind + i)
        BY <3>1, SlotAfter DEF Slot
      <3>4. Slot(i) # wind
        BY <3>1, <3>2, <1>a, TxPoolAssumption DEF Around
      <3>5. queue'[Slot(i)] = queue[Slot(i)]
        BY <3>2, <3>4, <1>4 DEF PoolTypeOK
      <3> QED
        BY <2>2, <3>5, <1>2 DEF BufferInOrder
    <2> QED
      BY <2>1, <2>2, TxPoolAssumption DEF PoolTypeOK
  <1> QED
    BY ZenonT(60), <1>1, <1>3, <1>5, <1>6, <1>7, <1>a

LEMMA EnqueueInv == ASSUME BatchSize < MaxQueueSize PROVE PoolInv /\ Enqueue => PoolInv'
  <1> SUFFICES ASSUME PoolInv, Enqueue PROVE PoolInv'
    OBVIOUS
  <1> DEFINE base == BatchSize * bcnt
  <1>1. /\ wind # rind
        /\ Head(txChannel) = base + nums + 1
        /\ queue' \in [Slots -> Nat]
        /\ wind = Slot(nums + 1)
        /\ wind = Around(rind + nums + 1)
        /\ \A i \in 1..(nums + 1) : queue'[Slot(i)] = base + i
    BY EnqueueSlots
  <1>2. /\ base \in Nat /\ nums \in Nat /\ nums < BatchSize /\ bcnt \in Nat
        /\ rind \in Slots \cup {-1} /\ wind \in Slots
        /\ rind \in Int /\ wind \in Int /\ BatchSize \in Nat
        /\ MaxQueueSize \in Nat /\ txChannel \in Seq(Nat)
    BY BatchedType, TxPoolAssumption DEF PoolInv, PoolTypeOK, Slots
  <1>3. Batched = base /\ Len(sending) = 0
    <2>1. Len(sending) = 0
      BY DEF Enqueue
    <2> QED
      BY <2>1, <1>2 DEF Batched
  <1>4. wind' \in Slots /\ wind' = Around(wind + 1)
    <2>1. wind' = (wind + 1) % MaxQueueSize
      BY <1>1 DEF Enqueue
    <2>2. 1 \in 1..MaxQueueSize
      BY TxPoolAssumption
    <2> QED
      BY ZenonT(60), <2>1, <2>2, <1>2, SlotAfter
  <1>5. /\ Len(txChannel') = Len(txChannel) - 1 /\ txChannel' \in Seq(Nat)
        /\ \A j \in 1..Len(txChannel') : txChannel'[j] = base + (nums + 1) + j
    <2>1. txChannel' = Tail(txChannel) /\ txChannel # <<>>
      BY DEF Enqueue
    <2>2. \A j \in 1..Len(txChannel) : txChannel[j] = base + nums + j
      BY <1>3 DEF PoolInv, Pipeline
    <2> QED
      BY <2>1, <2>2, <1>2
  <1>6. made' = base + (nums + 1) + Len(txChannel') /\ made' = made
    BY <1>2, <1>3, <1>5 DEF Enqueue, PoolInv, Pipeline
  <1> HIDE DEF base
  <1>7. CASE ~MakeDue(nums + 1)
    <2>1. nums' = nums + 1 /\ rind' = rind /\ sending' = sending /\ bcnt' = bcnt
      BY <1>1, <1>7 DEF Enqueue
    <2>2. nums + 1 < BatchSize
      BY <1>2, <1>7 DEF MakeDue
    <2>3. PoolTypeOK'
      <3>1. nums' \in 0..(BatchSize - 1)
        BY <1>2, <2>1, <2>2
      <3> QED
        BY ZenonT(60), <1>1, <1>2, <1>4, <1>5, <2>1, <3>1 DEF Enqueue, PoolInv, PoolTypeOK
    <2>4. Batched' = base
      BY <1>3, <2>1 DEF Batched
    <2>5. BufferInOrder'
      <3>1. PICK k : k = nums + 2
        OBVIOUS
      <3>2. k \in 1..MaxQueueSize /\ rind' + nums' + 1 = rind + k
        BY <3>1, <2>1, <2>2, <1>2
      <3>3. wind' = (rind' + nums' + 1) % MaxQueueSize
        <4>1. (rind + k) % MaxQueueSize = Around(rind + k)
          BY Zenon, <3>2, <1>2, SlotAfter
        <4>2. wind' = Around(rind + k)
          <5>1. wind = Around(rind + nums + 1) /\ wind # rind
            BY <1>1
          <5> QED
            BY <5>1, <3>1, <1>2, <1>4, <2>2 DEF Around, Slots
        <4> QED
          BY <4>1, <4>2, <3>2
      <3>4. wind' # rind'
        <4>1. wind = Around(rind + nums + 1) /\ wind # rind
          BY <1>1
        <4> QED
          BY <4>1, <1>2, <1>4, <2>1, <2>2 DEF Around, Slots
      <3>5. \A i \in 1..nums' : queue'[Slot(i)'] = Batched' + i
        BY ZenonT(60), <1>1, <2>1, <2>4 DEF Slot
      <3> QED
        BY <3>3, <3>4, <3>5 DEF BufferInOrder
    <2>6. Pipeline'
      <3>1. made' = Batched' + nums' + Len(txChannel')
        BY <1>6, <2>1, <2>4
      <3>2. \A j \in 1..Len(txChannel') : txChannel'[j] = Batched' + nums' + j
        BY ZenonT(60), <1>5, <2>1, <2>4
      <3> QED
        BY <3>1, <3>2, <2>1 DEF Enqueue, PoolInv, Pipeline
    <2> QED
      BY ZenonT(60), <2>3, <2>5, <2>6 DEF PoolInv
  <1>8. CASE MakeDue(nums + 1)
    <2>1. nums + 1 = BatchSize
      BY <1>2, <1>8 DEF MakeDue
    <2>2. /\ rind' = wind /\ nums' = 0 /\ bcnt' = bcnt
          /\ sending' = <<[ID |-> Id + N * bcnt,
                           Txs |-> [i \in 1..BatchSize |-> queue'[Slot(i)]]]>>
      BY <1>1, <1>2, <1>8, <2>1 DEF Enqueue, make
    <2>3. [ID |-> Id + N * bcnt, Txs |-> [i \in 1..BatchSize |-> queue'[Slot(i)]]]
             = Stream!StreamBatch(bcnt)
      BY Zenon, <1>1, <2>1 DEF Stream!StreamBatch, base
    <2>4. sending' = <<Stream!StreamBatch(bcnt)>> /\ Stream!StreamBatch(bcnt) \in Batch
      BY ZenonT(60), <2>2, <2>3, <1>2, StreamBatchType
    <2>5. PoolTypeOK'
      <3>1. nums' \in 0..(BatchSize - 1)
        BY <2>2, TxPoolAssumption
      <3>2. sending' \in Seq(Batch) /\ Len(sending') = 1
        BY <2>4
      <3> QED
        BY ZenonT(60), <1>1, <1>2, <1>4, <1>5, <2>2, <3>1, <3>2 DEF Enqueue, PoolInv, PoolTypeOK
    <2>6. Batched' = base + BatchSize
      <3>1. Len(sending') = 1
        BY <2>4
      <3>2. Batched' = BatchSize * (bcnt + 1)
        BY <3>1, <2>2 DEF Batched
      <3> QED
        BY <3>2, <1>2 DEF base
    <2>7. BufferInOrder'
      <3>1. wind' # rind'
        BY <2>2, <1>2, <1>4 DEF Around, Slots
      <3>2. rind' + nums' + 1 = wind + 1
        BY <2>2, <1>2
      <3>3. wind' = (wind + 1) % MaxQueueSize
        BY <1>1 DEF Enqueue
      <3>4. \A i \in 1..nums' : queue'[Slot(i)'] = Batched' + i
        <4>1. nums' = 0
          BY Zenon, <2>2
        <4>2. \A i : i \notin 1..0
          OBVIOUS
        <4> QED
          BY Zenon, <4>1, <4>2
      <3> QED
        BY ZenonT(60), <3>1, <3>2, <3>3, <3>4 DEF BufferInOrder
    <2>8. Pipeline'
      <3>0. \A x \in Nat : base + (nums + 1) + x = Batched' + nums' + x
        <4>1. nums' = 0 /\ base \in Nat /\ BatchSize \in Nat
          BY <1>2, <2>2
        <4> QED
          BY <4>1, <2>1, <2>6
      <3>1. made' = Batched' + nums' + Len(txChannel')
        BY <3>0, <1>5, <1>6
      <3>2. \A j \in 1..Len(txChannel') : txChannel'[j] = Batched' + nums' + j
        BY <3>0, <1>5
      <3>3. sending'[1] = Stream!StreamBatch(bcnt')
        <4>1. bcnt' = bcnt /\ sending' = <<Stream!StreamBatch(bcnt)>>
          BY Zenon, <2>2, <2>4
        <4>2. \A x : <<x>>[1] = x
          OBVIOUS
        <4> QED
          BY Zenon, <4>1, <4>2
      <3> QED
        BY ZenonT(60), <3>1, <3>2, <3>3, <2>2 DEF Enqueue, PoolInv, Pipeline
    <2> QED
      BY <2>5, <2>7, <2>8 DEF PoolInv
  <1> QED
    BY <1>7, <1>8

LEMMA Concatenated ==
    ASSUME NEW S, NEW s \in Seq(S), NEW t \in Seq(S)
    PROVE  /\ Len(s) \in Nat /\ Len(s \o t) = Len(s) + Len(t)
           /\ \A j \in 1..(Len(s) + Len(t)) :
                  (s \o t)[j] = IF j <= Len(s) THEN s[j] ELSE t[j - Len(s)]
  OBVIOUS

LEMMA OneMore ==
    ASSUME NEW S, NEW s \in Seq(S), NEW t \in Seq(S), Len(t) = 1
    PROVE  /\ Len(s \o t) = Len(s) + 1
           /\ \A j \in 1..Len(s) : (s \o t)[j] = s[j]
           /\ (s \o t)[Len(s) + 1] = t[1]
  <1>1. /\ Len(s) \in Nat /\ Len(s \o t) = Len(s) + 1
        /\ \A j \in 1..(Len(s) + 1) :
               (s \o t)[j] = IF j <= Len(s) THEN s[j] ELSE t[j - Len(s)]
    BY Concatenated, Zenon
  <1> QED
    BY <1>1

LEMMA SendBatchInv == PoolInv /\ SendBatch => PoolInv'
  <1> SUFFICES ASSUME PoolInv, SendBatch PROVE PoolInv'
    OBVIOUS
  <1>1. /\ Len(sending) = 1 /\ sending \in Seq(Batch) /\ batchChannel \in Seq(Batch)
        /\ taken \in Seq(Batch) /\ bcnt \in Nat
        /\ sending' = <<>> /\ bcnt' = bcnt + 1
        /\ batchChannel' = batchChannel \o sending
    BY DEF PoolInv, PoolTypeOK, SendBatch
  <1>2. Batched' = Batched
    <2>1. bcnt' + Len(sending') = bcnt + Len(sending)
      BY <1>1
    <2> QED
      BY <2>1 DEF Batched
  <1>3. PoolTypeOK'
    <2>1. batchChannel' \in Seq(Batch) /\ sending' \in Seq(Batch) /\ Len(sending') = 0
      BY <1>1
    <2> QED
      BY <1>1, <2>1 DEF PoolInv, PoolTypeOK, SendBatch, ringVars
  <1>4. BufferInOrder'
    BY ZenonT(60), <1>2 DEF PoolInv, BufferInOrder, SendBatch, ringVars, Slot
  <1>5. Pipeline'
    <2>0. /\ Len(batchChannel') = Len(batchChannel) + 1
          /\ \A j \in 1..Len(batchChannel) : batchChannel'[j] = batchChannel[j]
          /\ batchChannel'[Len(batchChannel) + 1] = sending[1]
          /\ Len(batchChannel) \in Nat /\ Len(taken) \in Nat /\ taken' = taken
      <3>1. taken' = taken /\ Len(taken) \in Nat /\ Len(batchChannel) \in Nat
        BY <1>1 DEF SendBatch
      <3> QED
        BY <1>1, <3>1, OneMore
    <2>a. bcnt = Len(taken) + Len(batchChannel)
      BY DEF PoolInv, Pipeline
    <2>1. bcnt' = Len(taken') + Len(batchChannel')
      <3>1. bcnt' = bcnt + 1
        BY <1>1
      <3> QED
        BY <3>1, <2>a, <2>0
    <2>2. ASSUME NEW j \in 1..Len(batchChannel')
          PROVE  batchChannel'[j] = Stream!StreamBatch(Len(taken') + j - 1)
      <3>1. CASE j \in 1..Len(batchChannel)
        BY ZenonT(60), <3>1, <2>0 DEF PoolInv, Pipeline
      <3>2. CASE j = Len(batchChannel) + 1
        <4>1. Len(taken') + j - 1 = bcnt
          BY <3>2, <2>0, <2>a
        <4>2. sending # <<>>
          BY ZenonT(60) DEF SendBatch
        <4> QED
          BY ZenonT(60), <4>1, <4>2, <3>2, <2>0 DEF PoolInv, Pipeline
      <3>3. j \in 1..Len(batchChannel) \/ j = Len(batchChannel) + 1
        BY <2>0
      <3> QED
        BY Zenon, <3>1, <3>2, <3>3
    <2> QED
      BY ZenonT(60), <2>1, <2>2, <1>1, <1>2 DEF PoolInv, Pipeline, SendBatch, ringVars
  <1> QED
    BY <1>3, <1>4, <1>5 DEF PoolInv

LEMMA GetCheckInv == PoolInv /\ GetCheck => PoolInv'
  BY DEF PoolInv, GetCheck, PoolTypeOK, BufferInOrder, Pipeline, ringVars, Slot, Batched

\* A receive takes the next batch of the stream.
LEMMA TakeNext ==
    ASSUME PoolInv, Take
    PROVE  Stream!Take
  <1>1. batchChannel \in Seq(Batch) /\ batchChannel # <<>> /\ taken \in Seq(Batch)
    BY DEF PoolInv, PoolTypeOK, Take
  <1>2. batchChannel[1] = Stream!StreamBatch(Len(taken))
    BY <1>1 DEF PoolInv, Pipeline
  <1> QED
    BY <1>1, <1>2 DEF Take, Stream!Take

LEMMA TakeInv ==
    ASSUME PoolInv, Take, getter' \in {"checked", "batch", "empty"}
    PROVE  PoolInv'
  <1>1. /\ batchChannel \in Seq(Batch) /\ batchChannel # <<>> /\ taken \in Seq(Batch)
        /\ batchChannel' = Tail(batchChannel)
        /\ taken' = Append(taken, Head(batchChannel))
        /\ UNCHANGED <<made, txChannel, queue, wind, rind, nums, bcnt, sending>>
    BY DEF PoolInv, PoolTypeOK, Take, ringVars
  <1>2. PoolTypeOK'
    <2>1. batchChannel' \in Seq(Batch) /\ taken' \in Seq(Batch)
      BY <1>1
    <2> QED
      BY <1>1, <2>1 DEF PoolInv, PoolTypeOK
  <1>3. BufferInOrder'
    BY <1>1 DEF PoolInv, BufferInOrder, Batched, Slot
  <1>4. Pipeline'
    <2>1. bcnt' = Len(taken') + Len(batchChannel')
      BY <1>1 DEF PoolInv, Pipeline
    <2>2. ASSUME NEW j \in 1..Len(batchChannel')
          PROVE  batchChannel'[j] = Stream!StreamBatch(Len(taken') + j - 1)
      <3>1. batchChannel'[j] = batchChannel[j + 1] /\ j + 1 \in 1..Len(batchChannel)
        BY <1>1
      <3>2. Len(taken') + j - 1 = Len(taken) + (j + 1) - 1
        BY <1>1
      <3> QED
        BY Zenon, <3>1, <3>2 DEF PoolInv, Pipeline
    <2> QED
      BY <2>1, <2>2, <1>1 DEF PoolInv, Pipeline, Batched
  <1> QED
    BY ZenonT(60), <1>2, <1>3, <1>4 DEF PoolInv

LEMMA PoolNextInv == ASSUME BatchSize < MaxQueueSize PROVE PoolInv /\ [PoolNext]_poolVars => PoolInv'
  <1> SUFFICES ASSUME PoolInv, [PoolNext]_poolVars PROVE PoolInv'
    OBVIOUS
  <1>1. CASE MakeTx
    BY <1>1, MakeTxInv
  <1>2. CASE Enqueue
    BY ZenonT(60), <1>2, EnqueueInv
  <1>3. CASE SendBatch
    BY <1>3, SendBatchInv
  <1>4. CASE GetCheck
    BY <1>4, GetCheckInv
  <1>5. CASE GetReceive
    BY ZenonT(60), <1>5, TakeInv DEF GetReceive
  <1>6. CASE Generate
    BY ZenonT(60), <1>6, TakeInv DEF Generate, PoolInv, PoolTypeOK
  <1>7. CASE UNCHANGED poolVars
    BY <1>7 DEF poolVars, ringVars, PoolInv, PoolTypeOK, BufferInOrder, Pipeline, Slot, Batched
  <1> QED
    BY ZenonT(60), <1>1, <1>2, <1>3, <1>4, <1>5, <1>6, <1>7 DEF PoolNext

LEMMA PoolInvariance == ASSUME BatchSize < MaxQueueSize PROVE PoolSpec => []PoolInv
  <1>1. PoolInit => PoolInv
    BY PoolInitInv
  <1>2. PoolInv /\ [PoolNext]_poolVars => PoolInv'
    BY PoolNextInv
  <1> QED
    BY <1>1, <1>2, PTL DEF PoolSpec

-----------------------------------------------------------------------------

\* A buffer larger than a batch never fills up, and holds the transactions not
\* yet batched in order (txQueue.run and make of pool.go).
THEOREM BufferKept ==
    ASSUME BatchSize < MaxQueueSize
    PROVE  PoolSpec => [](PoolTypeOK /\ BufferInOrder)
  <1>1. PoolInv => PoolTypeOK /\ BufferInOrder
    BY DEF PoolInv
  <1> QED
    BY <1>1, PoolInvariance, PTL

\* Then the two consumers of the pool take the stream of batches: every
\* transaction of the node once, in order, under the numbers Id, Id + N, ...
THEOREM StreamRefinement ==
    ASSUME BatchSize < MaxQueueSize
    PROVE  PoolSpec => ImplementsStream
  <1>1. PoolInit => Stream!Init
    BY DEF PoolInit, Stream!Init
  <1>2. PoolInv /\ [PoolNext]_poolVars => [Stream!Take]_taken
    <2> SUFFICES ASSUME PoolInv, [PoolNext]_poolVars PROVE [Stream!Take]_taken
      OBVIOUS
    <2>1. CASE Take
      BY ZenonT(60), <2>1, TakeNext
    <2>2. CASE MakeTx \/ Enqueue \/ SendBatch \/ GetCheck \/ UNCHANGED poolVars
      BY <2>2 DEF MakeTx, Enqueue, SendBatch, GetCheck, poolVars
    <2> QED
      BY <2>1, <2>2 DEF PoolNext, GetReceive, Generate
  <1> QED
    BY <1>1, <1>2, PoolInvariance, PTL DEF PoolSpec, ImplementsStream, Stream!Spec

-----------------------------------------------------------------------------
(* Starting: the first barrier is for the ports of the mempools, the second  *)
(* one for those of the consensus.                                           *)

\* The ports a node has found open when it is past a barrier.
PastBarrier ==
    \A n \in Peer : \A m \in Peer \ {n} :
        /\ stage[n] \in {"consensus", "running"} => <<"mempool", m>> \in up
        /\ stage[n] = "running" => <<"consensus", m>> \in up

StartInv == StartTypeOK /\ PastBarrier

LEMMA StartInitInv == StartInit => StartInv
  BY DEF StartInit, StartInv, StartTypeOK, PastBarrier, Layer

LEMMA WaitInv ==
    ASSUME StartInv, NEW n \in Peer, Wait(n)
    PROVE  StartInv'
  <1>1. /\ stage \in [Peer -> Layer \cup {"off", "running"}] /\ reached \in [Peer -> SUBSET Peer]
        /\ stage[n] \in Layer /\ reached[n] = Peer \ {n} /\ up' = up
    BY DEF StartInv, StartTypeOK, Wait
  <1> DEFINE s == IF stage[n] = "mempool" THEN "consensus" ELSE "running"
  <1>2. /\ stage' = [stage EXCEPT ![n] = s] /\ reached' = [reached EXCEPT ![n] = {}]
        /\ s \in Layer \cup {"off", "running"}
    BY DEF Wait, Layer
  <1> HIDE DEF s
  <1>3. /\ stage' \in [Peer -> Layer \cup {"off", "running"}] /\ reached' \in [Peer -> SUBSET Peer]
        /\ stage'[n] = s /\ reached'[n] = {}
        /\ \A a \in Peer : a # n => stage'[a] = stage[a] /\ reached'[a] = reached[a]
    BY ZenonT(60), <1>1, <1>2
  <1>4. \A m \in Peer \ {n} : <<stage[n], m>> \in up
    BY <1>1 DEF StartInv, StartTypeOK
  <1>5. ASSUME NEW m \in Peer \ {n}
        PROVE  /\ stage'[n] \in {"consensus", "running"} => <<"mempool", m>> \in up
               /\ stage'[n] = "running" => <<"consensus", m>> \in up
    <2>1. CASE stage[n] = "mempool"
      BY ZenonT(60), <2>1, <1>3, <1>4 DEF s
    <2>2. CASE stage[n] = "consensus"
      BY ZenonT(60), <2>2, <1>4 DEF StartInv, PastBarrier
    <2> QED
      BY ZenonT(60), <2>1, <2>2, <1>1 DEF Layer
  <1>6. StartTypeOK'
    BY <1>1, <1>3 DEF StartInv, StartTypeOK
  <1>7. PastBarrier'
    BY ZenonT(60), <1>1, <1>3, <1>5 DEF StartInv, PastBarrier
  <1> QED
    BY <1>6, <1>7 DEF StartInv

LEMMA StartNextInv == StartInv /\ [StartNext]_startVars => StartInv'
  <1> SUFFICES ASSUME StartInv, [StartNext]_startVars PROVE StartInv'
    OBVIOUS
  <1> USE DEF StartInv, StartTypeOK, PastBarrier
  <1>1. CASE UNCHANGED startVars
    BY <1>1 DEF startVars
  <1>2. ASSUME NEW n \in Peer, NewNode(n) PROVE StartInv'
    BY ZenonT(60), <1>2 DEF NewNode, Layer
  <1>3. ASSUME NEW n \in Peer, Wait(n) PROVE StartInv'
    BY <1>3, WaitInv
  <1>4. ASSUME NEW n \in Peer, NEW layer \in Layer, Listen(n, layer) PROVE StartInv'
    BY <1>4 DEF Listen
  <1>5. ASSUME NEW n \in Peer, NEW m \in Peer, Dial(n, m) PROVE StartInv'
    BY ZenonT(60), <1>5 DEF Dial
  <1> QED
    BY ZenonT(60), <1>1, <1>2, <1>3, <1>4, <1>5 DEF StartNext, Starting

LEMMA StartInvariance == StartSpec => []StartInv
  BY StartInitInv, StartNextInv, PTL DEF StartSpec

\* A running node finds both ports of every peer open: NewNode's two barriers.
THEOREM PeersAreUp == StartSpec => []PeersListen
  <1>1. StartInv => PeersListen
    <2> SUFFICES ASSUME StartInv, NEW n \in Peer, NEW m \in Peer \ {n}, stage[n] = "running",
                        NEW l \in Layer
                 PROVE  <<l, m>> \in up
      BY DEF PeersListen
    <2> QED
      BY ZenonT(60) DEF StartInv, PastBarrier, Layer
  <1> QED
    BY <1>1, StartInvariance, PTL

-----------------------------------------------------------------------------
(* Signatures: every request is in one place. *)

SigRequest == [by : Caller, typ : Type]

\* The types of the signature service.
SigTypes ==
    /\ sigCh \in Seq(SigRequest)
    /\ req \in [by : Caller \cup {None}, typ : Type]
    /\ share \subseteq Caller
    /\ done \subseteq Caller
    /\ open \subseteq Caller
    /\ requests \in [Caller -> Nat]

SigInv == SigTypes /\ RequestInOnePlace

\* Where the requests of c are in queue s.
Places(s, c) == {k \in 1..Len(s) : s[k].by = c}

LEMMA PlacesFinite ==
    ASSUME NEW s \in Seq(SigRequest), NEW c
    PROVE  IsFiniteSet(Places(s, c)) /\ Cardinality(Places(s, c)) \in Nat
  <1>1. Len(s) \in Nat
    OBVIOUS
  <1>2. IsFiniteSet(1..Len(s))
    BY <1>1, FS_Interval
  <1>3. IsFiniteSet(Places(s, c))
    BY <1>2, FS_Subset DEF Places
  <1> QED
    BY <1>3, FS_CardinalityType

LEMMA PlacesAppend ==
    ASSUME NEW s \in Seq(SigRequest), NEW r \in SigRequest, NEW c
    PROVE  Cardinality(Places(Append(s, r), c)) = Cardinality(Places(s, c)) + In(c, {r.by})
  <1>1. /\ Len(s) \in Nat /\ Len(Append(s, r)) = Len(s) + 1 /\ Append(s, r)[Len(s) + 1] = r
        /\ \A k \in 1..Len(s) : Append(s, r)[k] = s[k]
    OBVIOUS
  <1>2. IsFiniteSet(Places(s, c)) /\ Cardinality(Places(s, c)) \in Nat
    BY PlacesFinite
  <1>3. CASE r.by = c
    <2>1. Places(Append(s, r), c) = Places(s, c) \cup {Len(s) + 1} /\ Len(s) + 1 \notin Places(s, c)
      BY <1>1, <1>3 DEF Places
    <2>2. Cardinality(Places(s, c) \cup {Len(s) + 1}) = Cardinality(Places(s, c)) + 1
      BY ZenonT(60), <2>1, <1>2, FS_AddElement
    <2> QED
      BY ZenonT(60), <2>1, <2>2, <1>3 DEF In
  <1>4. CASE r.by # c
    <2>1. Places(Append(s, r), c) = Places(s, c)
      BY <1>1, <1>4 DEF Places
    <2> QED
      BY <2>1, <1>2, <1>4 DEF In
  <1> QED
    BY <1>3, <1>4

LEMMA PlacesTail ==
    ASSUME NEW s \in Seq(SigRequest), s # <<>>, NEW c
    PROVE  Cardinality(Places(s, c)) = Cardinality(Places(Tail(s), c)) + In(c, {Head(s).by})
  <1> DEFINE P == Places(Tail(s), c)
             Q == Places(s, c) \ {1}
             f == [k \in P |-> k + 1]
  <1>1. /\ Len(s) \in Nat \ {0} /\ Head(s) = s[1] /\ Tail(s) \in Seq(SigRequest)
        /\ Len(Tail(s)) = Len(s) - 1
        /\ \A k \in 1..(Len(s) - 1) : Tail(s)[k] = s[k + 1]
    OBVIOUS
  <1>2. /\ IsFiniteSet(P) /\ Cardinality(P) \in Nat
        /\ IsFiniteSet(Places(s, c)) /\ Cardinality(Places(s, c)) \in Nat
    BY ZenonT(60), <1>1, PlacesFinite
  <1>3. P \subseteq 1..(Len(s) - 1) /\ \A k \in P : k + 1 \in Q
    BY <1>1 DEF Places
  <1>4. ASSUME NEW k \in Q PROVE k - 1 \in P /\ (k - 1) + 1 = k
    <2>1. k \in 1..Len(s) /\ k # 1 /\ s[k].by = c
      BY DEF Places
    <2>2. k - 1 \in 1..(Len(s) - 1) /\ (k - 1) + 1 = k
      BY <2>1, <1>1
    <2> QED
      BY <2>1, <2>2, <1>1 DEF Places
  <1> HIDE DEF P, Q
  <1>5. f \in [P -> Q] /\ \A k \in P : f[k] = k + 1
    BY <1>3
  <1> HIDE DEF f
  <1>6. f \in Bijection(P, Q)
    <2>1. \A k \in Q : f[k - 1] = k /\ k - 1 \in P
      BY <1>4, <1>5
    <2>2. \A j, k \in P : f[j] = f[k] => j = k
      <3>1. \A k \in P : k \in Nat
        BY <1>1, <1>3
      <3> QED
        BY <3>1, <1>5
    <2>3. DOMAIN f = P
      BY <1>5
    <2> QED
      BY ZenonT(60), <2>1, <2>2, <2>3, <1>5 DEF Bijection, Injection, Surjection, IsInjective
  <1>7. Cardinality(Q) = Cardinality(P)
    BY ZenonT(60), <1>2, <1>6, FS_Bijection DEF ExistsBijection
  <1>8. Cardinality(Q) = IF 1 \in Places(s, c) THEN Cardinality(Places(s, c)) - 1
                                               ELSE Cardinality(Places(s, c))
    BY ZenonT(60), <1>2, FS_RemoveElement DEF Q
  <1>9. 1 \in Places(s, c) <=> Head(s).by = c
    BY <1>1 DEF Places
  <1> QED
    BY <1>2, <1>7, <1>8, <1>9 DEF In, P

LEMMA QueuedPlaces == \A c : Queued(c) = Cardinality(Places(sigCh, c))
  BY DEF Queued, Places

LEMMA InValues == \A c, S : In(c, S) \in {0, 1} /\ (In(c, S) = 1 <=> c \in S)
  BY DEF In

LEMMA SigInitInv == SigInit => SigInv
  <1> SUFFICES ASSUME SigInit PROVE SigInv
    OBVIOUS
  <1>1. SigTypes
    BY DEF SigInit, SigTypes, Free, Type
  <1>2. ASSUME NEW c \in Caller PROVE Places(sigCh, c) = {} /\ c # req.by
    BY SigAssumption DEF SigInit, Places, Free
  <1>3. ASSUME NEW c \in Caller
        PROVE  Queued(c) = 0 /\ In(c, {req.by}) = 0 /\ In(c, share) = 0 /\ In(c, done) = 0 /\ In(c, open) = 0
    BY ZenonT(60), <1>2, QueuedPlaces, FS_EmptySet DEF SigInit, In
  <1> QED
    BY <1>1, <1>3 DEF SigInv, RequestInOnePlace

LEMMA RequestInv ==
    ASSUME SigInv, NEW c \in Caller, NEW typ \in Type, RequestSignature(c, typ)
    PROVE  SigInv'
  <1> DEFINE r == [by |-> c, typ |-> typ]
  <1>1. /\ sigCh \in Seq(SigRequest) /\ r \in SigRequest /\ r.by = c /\ sigCh' = Append(sigCh, r)
        /\ UNCHANGED <<req, share, done>> /\ open' = open \cup {c} /\ c \notin open
    BY DEF SigInv, SigTypes, RequestSignature, SigRequest
  <1>2. SigTypes'
    <2>1. sigCh' \in Seq(SigRequest)
      BY <1>1
    <2>2. requests' \in [Caller -> Nat]
      BY DEF SigInv, SigTypes, RequestSignature
    <2> QED
      BY ZenonT(60), <2>1, <2>2, <1>1 DEF SigInv, SigTypes
  <1> HIDE DEF r
  <1>3. ASSUME NEW d \in Caller
        PROVE  Queued(d)' + In(d, {req'.by}) + In(d, share') + In(d, done') = In(d, open')
    <2>1. Queued(d) \in Nat /\ Queued(d)' = Queued(d) + In(d, {c})
      BY ZenonT(60), <1>1, QueuedPlaces, PlacesFinite, PlacesAppend DEF Queued, Places
    <2>2. In(d, open') = In(d, open) + In(d, {c})
      BY <1>1 DEF In
    <2>3. Queued(d) + In(d, {req.by}) + In(d, share) + In(d, done) = In(d, open)
      BY DEF SigInv, RequestInOnePlace
    <2>4. req' = req /\ share' = share /\ done' = done
      BY Zenon, <1>1
    <2> QED
      BY <2>1, <2>2, <2>3, <2>4, InValues
  <1> QED
    BY <1>2, <1>3 DEF SigInv, RequestInOnePlace

LEMMA SigTakeInv ==
    ASSUME SigInv, TakeRequest
    PROVE  SigInv'
  <1>1. /\ sigCh \in Seq(SigRequest) /\ sigCh # <<>> /\ req.by = None
        /\ req' = Head(sigCh) /\ sigCh' = Tail(sigCh) /\ UNCHANGED <<share, done, open, requests>>
    BY DEF SigInv, SigTypes, TakeRequest
  <1>2. Head(sigCh) \in SigRequest /\ Tail(sigCh) \in Seq(SigRequest)
    BY <1>1
  <1>3. SigTypes'
    BY ZenonT(60), <1>1, <1>2 DEF SigInv, SigTypes, SigRequest
  <1>4. ASSUME NEW d \in Caller
        PROVE  Queued(d)' + In(d, {req'.by}) + In(d, share') + In(d, done') = In(d, open')
    <2>1. /\ Queued(d) \in Nat /\ Queued(d)' \in Nat
          /\ Queued(d) = Queued(d)' + In(d, {req'.by})
      BY ZenonT(60), <1>1, <1>2, QueuedPlaces, PlacesFinite, PlacesTail DEF Queued, Places
    <2>2. In(d, {req.by}) = 0
      BY <1>1, SigAssumption DEF In
    <2>3. Queued(d) + In(d, {req.by}) + In(d, share) + In(d, done) = In(d, open)
      BY ZenonT(60) DEF SigInv, RequestInOnePlace
    <2>4. share' = share /\ done' = done /\ open' = open
      BY Zenon, <1>1
    <2> QED
      BY <2>1, <2>2, <2>3, <2>4, InValues
  <1> QED
    BY <1>3, <1>4 DEF SigInv, RequestInOnePlace

LEMMA ServeInv ==
    ASSUME SigInv, NEW c \in Caller, Sign \/ Go \/ SignShare(c) \/ Return(c)
    PROVE  SigInv'
  <1>1. UNCHANGED <<sigCh, requests>>
    BY DEF Sign, Go, SignShare, Return
  <1>2. /\ sigCh \in Seq(SigRequest) /\ req.by \in Caller \cup {None}
        /\ share \subseteq Caller /\ done \subseteq Caller /\ open \subseteq Caller
    BY DEF SigInv, SigTypes
  <1>3. SigTypes'
    <2>1. Free \in [by : Caller \cup {None}, typ : Type]
      BY DEF Free, Type
    <2> QED
      BY <2>1, <1>1, <1>2 DEF SigInv, SigTypes, Sign, Go, SignShare, Return, Signed
  <1>4. ASSUME NEW d \in Caller
        PROVE  Queued(d)' + In(d, {req'.by}) + In(d, share') + In(d, done') = In(d, open')
    <2>1. Queued(d) \in Nat /\ Queued(d)' = Queued(d)
      BY ZenonT(60), <1>1, <1>2, QueuedPlaces, PlacesFinite DEF Queued
    <2>2. Queued(d) + In(d, {req.by}) + In(d, share) + In(d, done) = In(d, open)
      BY DEF SigInv, RequestInOnePlace
    <2>3. Free.by = None /\ d # None
      BY ZenonT(60), SigAssumption DEF Free
    <2>4. CASE Sign
      <3>1. /\ req.by \notin done /\ done' = done \cup {req.by}
            /\ req' = Free /\ share' = share /\ open' = open
        BY Zenon, <2>4 DEF Sign
      <3> QED
        BY <2>1, <2>2, <2>3, <3>1 DEF In
    <2>5. CASE Go
      <3>1. /\ share' = share \cup {req.by}
            /\ req' = Free /\ done' = done /\ open' = open
        BY Zenon, <2>5 DEF Go
      <3> QED
        BY <2>1, <2>2, <2>3, <3>1 DEF In
    <2>6. CASE SignShare(c)
      <3>1. /\ c \in share /\ c \notin done
            /\ done' = done \cup {c} /\ share' = share \ {c}
            /\ req' = req /\ open' = open
        BY Zenon, <2>6 DEF SignShare, Signed
      <3> QED
        BY <2>1, <2>2, <3>1 DEF In
    <2>7. CASE Return(c)
      <3>1. /\ c \in open /\ c \in done /\ open' = open \ {c} /\ done' = done \ {c}
            /\ req' = req /\ share' = share
        BY Zenon, <2>7 DEF Return
      <3> QED
        BY <2>1, <2>2, <3>1 DEF In
    <2> QED
      BY ZenonT(60), <2>4, <2>5, <2>6, <2>7
  <1> QED
    BY ZenonT(60), <1>3, <1>4 DEF SigInv, RequestInOnePlace

LEMMA SigNextInv == SigInv /\ [SigNext]_sigVars => SigInv'
  <1> SUFFICES ASSUME SigInv, [SigNext]_sigVars PROVE SigInv'
    OBVIOUS
  <1>1. CASE UNCHANGED sigVars
    BY ZenonT(60), <1>1 DEF sigVars, SigInv, SigTypes, RequestInOnePlace, Queued
  <1>2. CASE TakeRequest
    BY <1>2, SigTakeInv
  <1>3. CASE Sign \/ Go
    <2>1. req.by \in Caller
      BY <1>3 DEF SigInv, SigTypes, Sign, Go
    <2> QED
      BY <1>3, <2>1, ServeInv
  <1>4. ASSUME NEW c \in Caller, SignShare(c) \/ Return(c) PROVE SigInv'
    BY <1>4, ServeInv
  <1>5. ASSUME NEW c \in Caller, NEW typ \in Type, RequestSignature(c, typ) PROVE SigInv'
    BY <1>5, RequestInv
  <1> QED
    BY ZenonT(60), <1>1, <1>2, <1>3, <1>4, <1>5 DEF SigNext, SignAny

\* No request for a signature is lost, and none is answered twice: with the
\* service goroutine and the goroutines it starts for the shares, a request is
\* in one place until its caller has it back.
THEOREM RequestsKept == SigSpec => []RequestInOnePlace
  <1>1. SigInv => RequestInOnePlace
    BY DEF SigInv
  <1> QED
    BY <1>1, SigInitInv, SigNextInv, PTL DEF SigSpec

-----------------------------------------------------------------------------
(* All services together. *)

\* Each service behaves in Services as it does alone, so that what is proved of
\* the five of them holds there.
THEOREM ServicesAlone == Spec => StoreSpec /\ PoolSpec /\ NetSpec /\ StartSpec /\ SigSpec
  <1>1. Init => StoreInit /\ PoolInit /\ NetInit /\ StartInit /\ SigInit
    BY DEF Init
  <1>2. [Next]_vars => /\ [StoreNext]_storeVars /\ [PoolNext]_poolVars
                       /\ [NetNext]_netVars /\ [StartNext]_startVars /\ [SigNext]_sigVars
    BY DEF Next, vars
  <1> QED
    BY <1>1, <1>2, PTL DEF Spec, StoreSpec, PoolSpec, NetSpec, StartSpec, SigSpec

\* The types of all services and the capacities of their channels, for a buffer
\* of transactions larger than a batch.
THEOREM ServicesTypes == ASSUME BatchSize < MaxQueueSize PROVE Spec => []TypeOK
  <1>1. StoreInv /\ PoolInv /\ NetInv /\ StartInv => TypeOK
    BY DEF StoreInv, PoolInv, NetInv, StartInv, TypeOK
  <1> QED
    BY <1>1, ServicesAlone, StoreInvariance, PoolInvariance, NetInvariance, StartInvariance, PTL

=============================================================================
