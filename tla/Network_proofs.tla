--------------------------- MODULE Network_proofs ---------------------------
(***************************************************************************)
(* The transport implements module Links, for any nodes, capacities and   *)
(* faults.                                                                *)
(***************************************************************************)
EXTENDS Network, FiniteSetTheorems, TLAPS

-----------------------------------------------------------------------------
(* Sequences of messages, which rise: the k-th message of a node is k. *)

Rising(s) == \A i, j \in 1..Len(s) : i < j => s[i] < s[j]

Below(S, T) == \A x \in S, y \in T : x < y

\* What follows the first k elements of s.
Rest(s, k) == {s[i] : i \in (k + 1)..Len(s)}

LEMMA AppendRange ==
    ASSUME NEW S, NEW s \in Seq(S), NEW x \in S
    PROVE  Range(Append(s, x)) = Range(s) \cup {x}
  <1>1. /\ Len(s) \in Nat /\ DOMAIN s = 1..Len(s)
        /\ DOMAIN Append(s, x) = 1..(Len(s) + 1)
        /\ Append(s, x)[Len(s) + 1] = x
        /\ \A i \in 1..Len(s) : Append(s, x)[i] = s[i]
    OBVIOUS
  <1>2. \A i \in 1..(Len(s) + 1) : i \in 1..Len(s) \/ i = Len(s) + 1
    BY <1>1
  <1>3. 1..Len(s) \subseteq 1..(Len(s) + 1) /\ Len(s) + 1 \in 1..(Len(s) + 1)
    BY <1>1
  <1>4. ASSUME NEW y PROVE y \in Range(Append(s, x)) <=> y \in Range(s) \/ y = x
    BY <1>1, <1>2, <1>3, Zenon DEF Range
  <1> QED
    BY <1>4

LEMMA AppendRising ==
    ASSUME NEW s \in Seq(Nat), NEW x \in Nat, Rising(s), Below(Range(s), {x})
    PROVE  Rising(Append(s, x))
  <1>1. /\ Len(s) \in Nat /\ DOMAIN s = 1..Len(s)
        /\ Len(Append(s, x)) = Len(s) + 1
        /\ Append(s, x)[Len(s) + 1] = x
        /\ \A i \in 1..Len(s) : Append(s, x)[i] = s[i]
    OBVIOUS
  <1>2. \A i \in 1..Len(s) : s[i] < x
    BY <1>1 DEF Below, Range
  <1> QED
    BY <1>1, <1>2 DEF Rising

LEMMA TailFacts ==
    ASSUME NEW S, NEW s \in Seq(S), s # <<>>
    PROVE  /\ Tail(s) \in Seq(S) /\ Head(s) \in S /\ Head(s) = s[1]
           /\ Len(s) \in Nat \ {0} /\ DOMAIN s = 1..Len(s)
           /\ Len(Tail(s)) = Len(s) - 1 /\ DOMAIN Tail(s) = 1..(Len(s) - 1)
           /\ \A i \in 1..(Len(s) - 1) : i + 1 \in 1..Len(s) /\ Tail(s)[i] = s[i + 1]
           /\ \A i \in 1..Len(s) : i = 1 \/ (i - 1 \in 1..(Len(s) - 1) /\ s[i] = Tail(s)[i - 1])
           /\ Range(s) = Range(Tail(s)) \cup {Head(s)}
  <1>1. /\ Tail(s) \in Seq(S) /\ Head(s) \in S /\ Head(s) = s[1]
        /\ Len(s) \in Nat \ {0} /\ DOMAIN s = 1..Len(s)
        /\ Len(Tail(s)) = Len(s) - 1 /\ DOMAIN Tail(s) = 1..(Len(s) - 1)
        /\ \A i \in 1..(Len(s) - 1) : i + 1 \in 1..Len(s) /\ Tail(s)[i] = s[i + 1]
    OBVIOUS
  <1>2. \A i \in 1..Len(s) : i = 1 \/ (i - 1 \in 1..(Len(s) - 1) /\ s[i] = Tail(s)[i - 1])
    <2> SUFFICES ASSUME NEW i \in 1..Len(s), i # 1
                 PROVE  i - 1 \in 1..(Len(s) - 1) /\ s[i] = Tail(s)[i - 1]
      OBVIOUS
    <2>1. i - 1 \in 1..(Len(s) - 1) /\ (i - 1) + 1 = i
      BY <1>1
    <2> QED
      BY <2>1, <1>1
  <1>3. ASSUME NEW y PROVE y \in Range(s) <=> y \in Range(Tail(s)) \/ y = Head(s)
    <2>1. 1 \in 1..Len(s)
      BY <1>1
    <2>2. ASSUME NEW i \in 1..Len(s), y = s[i] PROVE y \in Range(Tail(s)) \/ y = Head(s)
      BY ZenonT(60), <2>2, <1>1, <1>2 DEF Range
    <2>3. ASSUME NEW i \in 1..(Len(s) - 1), y = Tail(s)[i] PROVE y \in Range(s)
      BY <2>3, <1>1 DEF Range
    <2> QED
      BY <2>1, <2>2, <2>3, <1>1, Zenon DEF Range
  <1> QED
    BY <1>1, <1>2, <1>3

LEMMA TailRising ==
    ASSUME NEW s \in Seq(Nat), s # <<>>, Rising(s)
    PROVE  Rising(Tail(s)) /\ Below({Head(s)}, Range(Tail(s)))
  <1>1. \A i \in 1..(Len(s) - 1) : s[1] < s[i + 1] /\ 1 \in 1..Len(s)
    BY TailFacts DEF Rising
  <1>2. Below({Head(s)}, Range(Tail(s)))
    BY <1>1, TailFacts DEF Below, Range
  <1>3. Rising(Tail(s))
    BY TailFacts DEF Rising
  <1> QED
    BY <1>2, <1>3

\* A message leaves the queue of addresses of a node at once.
LEMMA TailInjective ==
    ASSUME NEW S, NEW s \in Seq(S), s # <<>>, IsInjective(s)
    PROVE  IsInjective(Tail(s)) /\ Range(Tail(s)) = Range(s) \ {Head(s)}
  <1>1. IsInjective(Tail(s))
    <2>1. ASSUME NEW i \in 1..(Len(s) - 1), NEW j \in 1..(Len(s) - 1), Tail(s)[i] = Tail(s)[j]
          PROVE  i = j
      <3>1. i + 1 = j + 1
        BY <2>1, TailFacts DEF IsInjective
      <3> QED
        BY <3>1
    <2> QED
      BY <2>1, TailFacts DEF IsInjective
  <1>2. ASSUME NEW i \in 1..(Len(s) - 1) PROVE Tail(s)[i] # Head(s)
    <2>1. 1 \in 1..Len(s) /\ i + 1 \in 1..Len(s) /\ i + 1 # 1
      BY TailFacts
    <2> QED
      BY <2>1, TailFacts DEF IsInjective
  <1>3. Head(s) \notin Range(Tail(s))
    BY <1>2, TailFacts DEF Range
  <1> QED
    BY <1>1, <1>3, TailFacts

LEMMA PrefixFacts ==
    ASSUME NEW s \in Seq(Nat), NEW k \in 0..Len(s), Rising(s)
    PROVE  /\ SubSeq(s, 1, k) \in Seq(Nat) /\ Rising(SubSeq(s, 1, k))
           /\ Range(SubSeq(s, 1, k)) \subseteq Range(s)
           /\ Below(Range(SubSeq(s, 1, k)), Range(s) \ Range(SubSeq(s, 1, k)))
  <1>1. /\ SubSeq(s, 1, k) \in Seq(Nat) /\ Len(SubSeq(s, 1, k)) = k
        /\ DOMAIN SubSeq(s, 1, k) = 1..k /\ DOMAIN s = 1..Len(s) /\ Len(s) \in Nat
        /\ \A i \in 1..k : SubSeq(s, 1, k)[i] = s[i] /\ i \in 1..Len(s)
    OBVIOUS
  <1>2. Rising(SubSeq(s, 1, k))
    BY <1>1 DEF Rising
  <1>3. Range(SubSeq(s, 1, k)) \subseteq Range(s)
    BY <1>1 DEF Range
  <1>4. ASSUME NEW i \in 1..k, NEW j \in 1..Len(s), s[j] \notin Range(SubSeq(s, 1, k))
        PROVE  s[i] < s[j]
    <2>1. j \notin 1..k
      BY ZenonT(60), <1>1, <1>4 DEF Range
    <2>2. i < j
      BY <2>1, <1>1
    <2> QED
      BY <2>2, <1>1 DEF Rising
  <1>5. Below(Range(SubSeq(s, 1, k)), Range(s) \ Range(SubSeq(s, 1, k)))
    BY ZenonT(60), <1>4, <1>1 DEF Below, Range
  <1> QED
    BY <1>1, <1>2, <1>3, <1>5

LEMMA RestAppend ==
    ASSUME NEW s \in Seq(Nat), NEW x \in Nat, NEW k \in Nat, k <= Len(s)
    PROVE  Rest(Append(s, x), k) = Rest(s, k) \cup {x}
  <1>1. /\ Len(s) \in Nat /\ Len(Append(s, x)) = Len(s) + 1
        /\ Append(s, x)[Len(s) + 1] = x
        /\ \A i \in 1..Len(s) : Append(s, x)[i] = s[i]
    OBVIOUS
  <1>2. /\ \A i \in (k + 1)..(Len(s) + 1) : i \in (k + 1)..Len(s) \/ i = Len(s) + 1
        /\ Len(s) + 1 \in (k + 1)..(Len(s) + 1)
        /\ \A i \in (k + 1)..Len(s) : i \in 1..Len(s) /\ i \in (k + 1)..(Len(s) + 1)
    BY <1>1
  <1>3. ASSUME NEW y PROVE y \in Rest(Append(s, x), k) <=> y \in Rest(s, k) \/ y = x
    BY <1>1, <1>2, Zenon DEF Rest
  <1> QED
    BY <1>3

LEMMA RestNext ==
    ASSUME NEW s \in Seq(Nat), Rising(s), NEW k \in Nat, k < Len(s)
    PROVE  Rest(s, k + 1) = Rest(s, k) \ {s[k + 1]} /\ s[k + 1] \in Rest(s, k)
  <1>1. /\ Len(s) \in Nat
        /\ \A i \in (k + 1)..Len(s) : i = k + 1 \/ i \in (k + 1 + 1)..Len(s)
        /\ \A i \in (k + 1 + 1)..Len(s) : i \in (k + 1)..Len(s)
        /\ k + 1 \in (k + 1)..Len(s)
    OBVIOUS
  <1>2. \A i \in (k + 1 + 1)..Len(s) : s[i] # s[k + 1]
    <2>1. ASSUME NEW i \in (k + 1 + 1)..Len(s) PROVE s[k + 1] < s[i] /\ s[i] \in Nat /\ s[k + 1] \in Nat
      BY DEF Rising
    <2> QED
      BY <2>1
  <1>3. ASSUME NEW y PROVE y \in Rest(s, k + 1) <=> y \in Rest(s, k) /\ y # s[k + 1]
    BY <1>1, <1>2, Zenon DEF Rest
  <1> QED
    BY <1>1, <1>3, Zenon DEF Rest

\* The least of the elements to come is the next one.
LEMMA RestFirst ==
    ASSUME NEW s \in Seq(Nat), Rising(s), NEW k \in Nat, NEW x \in Rest(s, k),
           \A y \in Rest(s, k) : ~(y < x)
    PROVE  k < Len(s) /\ x = s[k + 1]
  <1>1. PICK i \in (k + 1)..Len(s) : x = s[i]
    BY DEF Rest
  <1>2. k < Len(s) /\ k + 1 \in (k + 1)..Len(s) /\ k + 1 \in 1..Len(s) /\ i \in 1..Len(s) /\ k + 1 <= i
    BY <1>1
  <1>3. ~(s[k + 1] < s[i])
    BY <1>1, <1>2 DEF Rest
  <1>4. i = k + 1
    BY <1>2, <1>3, <1>1 DEF Rising
  <1> QED
    BY <1>1, <1>2, <1>4

-----------------------------------------------------------------------------
(* Types. *)

\* The capacities of the channels of a link.
LinkRoom(n, m) ==
    /\ Len(msgCh[n]) <= MsgCap
    /\ Len(connCh[n][m]) <= ConnCap
    /\ Len(recv[n]) <= RecvCap
    /\ conns[n][m] = "none" => connCh[n][m] = <<>>

LEMMA AddressTypes ==
    ASSUME NEW n \in Node,
           NEW addr, addr \in BroadCast(n) \/ \E m \in Node \ {n} : addr = <<m>>
    PROVE  addr \in Seq(Node) /\ IsInjective(addr) /\ Range(addr) \subseteq Node
  <1>1. CASE addr \in BroadCast(n)
    <2>1. IsFiniteSet(Node \ {n})
      BY NetworkAssumption, FS_RemoveElement
    <2>2. Cardinality(Node \ {n}) \in Nat
      BY <2>1, FS_CardinalityType
    <2>3. addr \in [1..Cardinality(Node \ {n}) -> Node \ {n}] /\ IsInjective(addr)
      BY ZenonT(60), <1>1 DEF BroadCast, Injection
    <2>4. addr \in Seq(Node)
      <3>1. PICK k \in Nat : k = Cardinality(Node \ {n})
        BY <2>2
      <3>2. addr \in [1..k -> Node]
        BY ZenonT(60), <2>3, <3>1
      <3> QED
        BY <3>2
    <2> QED
      BY ZenonT(60), <2>3, <2>4 DEF Range
  <1>2. CASE \E m \in Node \ {n} : addr = <<m>>
    <2>1. PICK m \in Node \ {n} : addr = <<m>>
      BY <1>2
    <2>2. addr \in Seq(Node) /\ DOMAIN addr = {1} /\ addr[1] = m
      BY <2>1
    <2> QED
      BY <2>2 DEF IsInjective, Range
  <1> QED
    BY <1>1, <1>2

LEMMA NextAddressTypes ==
    ASSUME NetTypeOK, NEW n \in Node, NEW m \in Node, At(n, m), NextAddress(n)
    PROVE  /\ fan' \in [Node -> NetMessage]
           /\ fan'[n].msg = fan[n].msg /\ fan'[n].addr = Tail(fan[n].addr)
           /\ \A a \in Node : a # n => fan'[a] = fan[a]
           /\ fan[n].msg \in Nat /\ fan[n].addr \in Seq(Node)
           /\ fan[n].addr # <<>> /\ Head(fan[n].addr) = m
  <1>1. fan \in [Node -> NetMessage] /\ fan[n].msg \in Nat /\ fan[n].addr \in Seq(Node)
    BY ZenonT(60) DEF NetTypeOK, NetMessage
  <1>2. fan[n].addr # <<>> /\ Head(fan[n].addr) = m
    BY DEF At
  <1>3. Tail(fan[n].addr) \in Seq(Node)
    BY <1>1, <1>2, TailFacts
  <1> QED
    BY ZenonT(60), <1>1, <1>2, <1>3 DEF NextAddress, NetMessage

LEMMA InitTypes == NetInit => NetTypeOK
  <1>1. ASSUME NetInit PROVE NetTypeOK
    <2>1. NoMessage \in NetMessage
      BY DEF NoMessage, NetMessage
    <2> QED
      BY <1>1, <2>1, NetworkAssumption DEF NetInit, NetTypeOK, Empty
  <1> QED
    BY <1>1

LEMMA SendTypes ==
    ASSUME NetTypeOK, NEW n \in Node, NEW addr \in Seq(Node), Send(n, addr)
    PROVE  /\ NetTypeOK'
           /\ sentBy[n] \in Nat /\ sentBy'[n] = sentBy[n] + 1
           /\ msgCh'[n] = Append(msgCh[n], [msg |-> sentBy[n] + 1, addr |-> addr])
           /\ [msg |-> sentBy[n] + 1, addr |-> addr] \in NetMessage
           /\ \A a \in Node : a # n => sentBy'[a] = sentBy[a] /\ msgCh'[a] = msgCh[a]
           /\ \A a, b \in Node : sent'[a][b] = IF a = n /\ b \in Range(addr)
                                                  THEN Append(sent[n][b], sentBy[n] + 1)
                                                  ELSE sent[a][b]
  <1> DEFINE x == [msg |-> sentBy[n] + 1, addr |-> addr]
  <1>1. /\ sentBy \in [Node -> Nat] /\ msgCh \in [Node -> Seq(NetMessage)]
        /\ sent \in [Node -> [Node -> Seq(Nat)]]
    BY DEF NetTypeOK
  <1>2. sentBy[n] \in Nat /\ x \in NetMessage
    BY <1>1 DEF NetMessage
  <1>3. /\ sentBy' \in [Node -> Nat] /\ sentBy'[n] = sentBy[n] + 1
        /\ \A a \in Node : a # n => sentBy'[a] = sentBy[a]
    BY <1>1, <1>2 DEF Send
  <1>4. /\ msgCh' \in [Node -> Seq(NetMessage)] /\ msgCh'[n] = Append(msgCh[n], x)
        /\ \A a \in Node : a # n => msgCh'[a] = msgCh[a]
    BY <1>1, <1>2 DEF Send
  <1>5. Len(msgCh'[n]) <= MsgCap
    BY <1>1, <1>2, <1>4, NetworkAssumption DEF Send
  <1>6. \A a, b \in Node : sent'[a][b] = IF a = n /\ b \in Range(addr)
                                            THEN Append(sent[n][b], sentBy[n] + 1)
                                            ELSE sent[a][b]
    BY ZenonT(60), <1>1 DEF Send
  <1>7. sent' \in [Node -> [Node -> Seq(Nat)]]
    <2>1. \A b \in Node : Append(sent[n][b], sentBy[n] + 1) \in Seq(Nat)
      BY <1>1, <1>2
    <2>2. [b \in Node |-> IF b \in Range(addr) THEN Append(sent[n][b], sentBy[n] + 1)
                                               ELSE sent[n][b]] \in [Node -> Seq(Nat)]
      BY <2>1, <1>1
    <2> QED
      BY <2>2, <1>1 DEF Send
  <1>8. NetTypeOK'
    <2>1. \A a \in Node : Len(msgCh'[a]) <= MsgCap
      BY ZenonT(60), <1>4, <1>5 DEF NetTypeOK
    <2> QED
      BY <2>1, <1>3, <1>4, <1>7 DEF NetTypeOK, Send
  <1> QED
    BY <1>2, <1>3, <1>4, <1>6, <1>8

LEMMA RunTypes ==
    ASSUME NetTypeOK, NEW n \in Node, Run(n)
    PROVE  /\ NetTypeOK'
           /\ msgCh[n] \in Seq(NetMessage) /\ msgCh[n] # <<>>
           /\ fan'[n] = Head(msgCh[n]) /\ msgCh'[n] = Tail(msgCh[n])
           /\ \A a \in Node : a # n => fan'[a] = fan[a] /\ msgCh'[a] = msgCh[a]
  <1>1. /\ msgCh \in [Node -> Seq(NetMessage)] /\ fan \in [Node -> NetMessage]
        /\ msgCh[n] \in Seq(NetMessage) /\ msgCh[n] # <<>> /\ Len(msgCh[n]) <= MsgCap
    BY DEF NetTypeOK, Run
  <1>2. /\ Tail(msgCh[n]) \in Seq(NetMessage) /\ Head(msgCh[n]) \in NetMessage
        /\ Len(Tail(msgCh[n])) <= MsgCap
    BY <1>1, TailFacts, NetworkAssumption
  <1>3. /\ fan'[n] = Head(msgCh[n]) /\ msgCh'[n] = Tail(msgCh[n])
        /\ \A a \in Node : a # n => fan'[a] = fan[a] /\ msgCh'[a] = msgCh[a]
        /\ fan' \in [Node -> NetMessage] /\ msgCh' \in [Node -> Seq(NetMessage)]
    BY <1>1, <1>2 DEF Run
  <1>4. \A a \in Node : Len(msgCh'[a]) <= MsgCap
    BY ZenonT(60), <1>2, <1>3 DEF NetTypeOK
  <1> QED
    BY ZenonT(60), <1>1, <1>3, <1>4 DEF NetTypeOK, Run, history

LEMMA ForwardTypes ==
    ASSUME NetTypeOK, NEW n \in Node, NEW m \in Node, Forward(n, m)
    PROVE  /\ NetTypeOK'
           /\ connCh'[n][m] = Append(connCh[n][m], fan[n].msg)
           /\ \A a, b \in Node : a # n \/ b # m => connCh'[a][b] = connCh[a][b]
  <1> DEFINE s == Append(connCh[n][m], fan[n].msg)
  <1>1. connCh \in [Node -> [Node -> Seq(Nat)]] /\ connCh[n][m] \in Seq(Nat)
    BY DEF NetTypeOK
  <1>2. fan' \in [Node -> NetMessage] /\ fan[n].msg \in Nat
    BY NextAddressTypes DEF Forward
  <1>3. s \in Seq(Nat) /\ Len(s) <= ConnCap
    BY <1>1, <1>2, NetworkAssumption DEF Forward
  <1>4. connCh' = [connCh EXCEPT ![n][m] = s] /\ conns[n][m] # "none"
    BY DEF Forward
  <1> HIDE DEF s
  <1>5. /\ connCh' \in [Node -> [Node -> Seq(Nat)]] /\ connCh'[n][m] = s
        /\ \A a, b \in Node : a # n \/ b # m => connCh'[a][b] = connCh[a][b]
    BY <1>1, <1>3, <1>4
  <1>6. ASSUME NEW a \in Node, NEW b \in Node PROVE LinkRoom(a, b)'
    <2>1. LinkRoom(a, b) /\ UNCHANGED <<msgCh, recv, conns>>
      BY DEF NetTypeOK, LinkRoom, Forward
    <2>2. CASE a = n /\ b = m
      BY <2>1, <2>2, <1>3, <1>4, <1>5 DEF LinkRoom
    <2>3. CASE a # n \/ b # m
      BY ZenonT(60), <2>1, <2>3, <1>5 DEF LinkRoom
    <2> QED
      BY <2>2, <2>3
  <1>7. NetTypeOK'
    BY ZenonT(60), <1>2, <1>5, <1>6 DEF NetTypeOK, LinkRoom, Forward, history
  <1> QED
    BY <1>5, <1>7 DEF s

LEMMA ConnectTypes ==
    ASSUME NetTypeOK, NEW n \in Node, NEW m \in Node, Connect(n, m)
    PROVE  /\ NetTypeOK'
           /\ connCh'[n][m] = <<fan[n].msg>> /\ conns'[n][m] = "up"
           /\ \A a, b \in Node : a # n \/ b # m =>
                  connCh'[a][b] = connCh[a][b] /\ conns'[a][b] = conns[a][b]
  <1> DEFINE s == <<fan[n].msg>>
  <1>1. /\ connCh \in [Node -> [Node -> Seq(Nat)]]
        /\ conns \in [Node -> [Node -> {"none", "up", "broken"}]]
    BY ZenonT(60) DEF NetTypeOK
  <1>2. fan' \in [Node -> NetMessage] /\ fan[n].msg \in Nat
    BY NextAddressTypes DEF Connect
  <1>3. s \in Seq(Nat) /\ Len(s) <= ConnCap
    BY <1>2, NetworkAssumption
  <1>4. connCh' = [connCh EXCEPT ![n][m] = s] /\ conns' = [conns EXCEPT ![n][m] = "up"]
    BY DEF Connect
  <1> HIDE DEF s
  <1>5. /\ connCh' \in [Node -> [Node -> Seq(Nat)]] /\ connCh'[n][m] = s
        /\ \A a, b \in Node : a # n \/ b # m => connCh'[a][b] = connCh[a][b]
    BY <1>1, <1>3, <1>4
  <1>6. /\ conns' \in [Node -> [Node -> {"none", "up", "broken"}]] /\ conns'[n][m] = "up"
        /\ \A a, b \in Node : a # n \/ b # m => conns'[a][b] = conns[a][b]
    BY <1>1, <1>4
  <1>7. ASSUME NEW a \in Node, NEW b \in Node PROVE LinkRoom(a, b)'
    <2>1. LinkRoom(a, b) /\ UNCHANGED <<msgCh, recv>>
      BY DEF NetTypeOK, LinkRoom, Connect
    <2>2. CASE a = n /\ b = m
      BY <2>1, <2>2, <1>3, <1>5, <1>6 DEF LinkRoom
    <2>3. CASE a # n \/ b # m
      BY ZenonT(60), <2>1, <2>3, <1>5, <1>6 DEF LinkRoom
    <2> QED
      BY <2>2, <2>3
  <1>8. NetTypeOK'
    BY ZenonT(60), <1>2, <1>5, <1>6, <1>7 DEF NetTypeOK, LinkRoom, Connect, history
  <1> QED
    BY <1>5, <1>6, <1>8 DEF s

LEMMA FaultTypes ==
    ASSUME NetTypeOK, NEW kind, Fault(kind)
    PROVE  faults' \in 0..MaxFaults
  BY NetworkAssumption DEF NetTypeOK, Fault

LEMMA ConnectFailsTypes ==
    ASSUME NetTypeOK, NEW n \in Node, NEW m \in Node, ConnectFails(n, m)
    PROVE  /\ NetTypeOK'
           /\ failed[n][m] \in Nat /\ failed'[n][m] = failed[n][m] + 1
           /\ \A a, b \in Node : a # n \/ b # m => failed'[a][b] = failed[a][b]
  <1>1. failed \in [Node -> [Node -> Nat]] /\ failed[n][m] \in Nat
    BY DEF NetTypeOK
  <1>2. failed[n][m] + 1 \in Nat /\ failed' = [failed EXCEPT ![n][m] = failed[n][m] + 1]
    BY <1>1 DEF ConnectFails
  <1>3. /\ failed' \in [Node -> [Node -> Nat]] /\ failed'[n][m] = failed[n][m] + 1
        /\ \A a, b \in Node : a # n \/ b # m => failed'[a][b] = failed[a][b]
    BY <1>1, <1>2
  <1>4. fan' \in [Node -> NetMessage]
    BY NextAddressTypes DEF ConnectFails
  <1>5. faults' \in 0..MaxFaults
    BY FaultTypes DEF ConnectFails
  <1>6. UNCHANGED <<sent, delivered, sentBy, msgCh, conns, connCh, wire, recv>>
    BY DEF ConnectFails
  <1>7. NetTypeOK'
    BY ZenonT(60), <1>3, <1>4, <1>5, <1>6 DEF NetTypeOK
  <1> QED
    BY <1>1, <1>3, <1>7

LEMMA WriteTypes ==
    ASSUME NetTypeOK, NEW n \in Node, NEW m \in Node, Write(n, m)
    PROVE  /\ NetTypeOK'
           /\ connCh[n][m] \in Seq(Nat) /\ wire[n][m] \in Seq(Nat) /\ connCh[n][m] # <<>>
           /\ connCh'[n][m] = Tail(connCh[n][m])
           /\ \/ conns[n][m] = "up" /\ wire'[n][m] = Append(wire[n][m], Head(connCh[n][m]))
              \/ conns[n][m] = "broken" /\ wire'[n][m] = wire[n][m]
           /\ \A a, b \in Node : a # n \/ b # m =>
                  connCh'[a][b] = connCh[a][b] /\ wire'[a][b] = wire[a][b]
  <1> DEFINE s == Tail(connCh[n][m])
             w == Append(wire[n][m], Head(connCh[n][m]))
  <1>1. /\ connCh \in [Node -> [Node -> Seq(Nat)]] /\ connCh[n][m] \in Seq(Nat)
        /\ wire \in [Node -> [Node -> Seq(Nat)]] /\ wire[n][m] \in Seq(Nat)
        /\ connCh[n][m] # <<>> /\ Len(connCh[n][m]) <= ConnCap
    BY ZenonT(60) DEF NetTypeOK, Write
  <1>2. s \in Seq(Nat) /\ Len(s) <= ConnCap /\ w \in Seq(Nat)
    BY <1>1, TailFacts, NetworkAssumption
  <1>3. /\ connCh' = [connCh EXCEPT ![n][m] = s]
        /\ \/ conns[n][m] = "up" /\ wire' = [wire EXCEPT ![n][m] = w]
           \/ conns[n][m] = "broken" /\ wire' = wire
    BY DEF Write
  <1> HIDE DEF s, w
  <1>4. /\ connCh' \in [Node -> [Node -> Seq(Nat)]] /\ connCh'[n][m] = s
        /\ \A a, b \in Node : a # n \/ b # m => connCh'[a][b] = connCh[a][b]
    BY <1>1, <1>2, <1>3
  <1>5. /\ wire' \in [Node -> [Node -> Seq(Nat)]]
        /\ \/ conns[n][m] = "up" /\ wire'[n][m] = w
           \/ conns[n][m] = "broken" /\ wire'[n][m] = wire[n][m]
        /\ \A a, b \in Node : a # n \/ b # m => wire'[a][b] = wire[a][b]
    <2>1. CASE conns[n][m] = "up" /\ wire' = [wire EXCEPT ![n][m] = w]
      BY <2>1, <1>1, <1>2
    <2>2. CASE conns[n][m] = "broken" /\ wire' = wire
      BY <2>2, <1>1
    <2> QED
      BY <2>1, <2>2, <1>3
  <1>6. UNCHANGED <<sent, failed, delivered, sentBy, msgCh, fan, conns, recv, faults>>
    BY DEF Write, history
  <1>7. ASSUME NEW a \in Node, NEW b \in Node PROVE LinkRoom(a, b)'
    <2>1. LinkRoom(a, b)
      BY DEF NetTypeOK, LinkRoom
    <2>2. CASE a = n /\ b = m
      BY <2>1, <2>2, <1>2, <1>3, <1>4, <1>6 DEF LinkRoom
    <2>3. CASE a # n \/ b # m
      BY ZenonT(60), <2>1, <2>3, <1>4, <1>6 DEF LinkRoom
    <2> QED
      BY <2>2, <2>3
  <1>8. NetTypeOK'
    BY ZenonT(60), <1>4, <1>5, <1>6, <1>7 DEF NetTypeOK, LinkRoom
  <1> QED
    BY ZenonT(60), <1>1, <1>4, <1>5, <1>8 DEF s, w

LEMMA BreakTypes ==
    ASSUME NetTypeOK, NEW n \in Node, NEW m \in Node, Break(n, m)
    PROVE  /\ NetTypeOK'
           /\ wire[n][m] \in Seq(Nat) /\ conns[n][m] = "up" /\ conns'[n][m] = "broken"
           /\ \E k \in 0..Len(wire[n][m]) : wire'[n][m] = SubSeq(wire[n][m], 1, k)
           /\ \A a, b \in Node : a # n \/ b # m =>
                  conns'[a][b] = conns[a][b] /\ wire'[a][b] = wire[a][b]
  <1>1. PICK k \in 0..Len(wire[n][m]) : wire' = [wire EXCEPT ![n][m] = SubSeq(@, 1, k)]
    BY ZenonT(60) DEF Break
  <1> DEFINE w == SubSeq(wire[n][m], 1, k)
  <1>2. /\ wire \in [Node -> [Node -> Seq(Nat)]] /\ wire[n][m] \in Seq(Nat)
        /\ conns \in [Node -> [Node -> {"none", "up", "broken"}]]
    BY ZenonT(60) DEF NetTypeOK
  <1>3. w \in Seq(Nat) /\ wire' = [wire EXCEPT ![n][m] = w]
    BY <1>1, <1>2
  <1>4. conns' = [conns EXCEPT ![n][m] = "broken"] /\ conns[n][m] = "up"
    BY DEF Break
  <1> HIDE DEF w
  <1>5. /\ wire' \in [Node -> [Node -> Seq(Nat)]] /\ wire'[n][m] = w
        /\ \A a, b \in Node : a # n \/ b # m => wire'[a][b] = wire[a][b]
    BY <1>2, <1>3
  <1>6. /\ conns' \in [Node -> [Node -> {"none", "up", "broken"}]] /\ conns'[n][m] = "broken"
        /\ \A a, b \in Node : a # n \/ b # m => conns'[a][b] = conns[a][b]
    BY <1>2, <1>4
  <1>7. UNCHANGED <<sent, failed, delivered, sentBy, msgCh, fan, connCh, recv>>
    BY DEF Break, history
  <1>8. faults' \in 0..MaxFaults
    BY FaultTypes DEF Break
  <1>9. ASSUME NEW a \in Node, NEW b \in Node PROVE LinkRoom(a, b)'
    <2>1. LinkRoom(a, b)
      BY DEF NetTypeOK, LinkRoom
    <2> QED
      BY <2>1, <1>6, <1>7 DEF LinkRoom
  <1>10. NetTypeOK'
    BY ZenonT(60), <1>5, <1>6, <1>7, <1>8, <1>9 DEF NetTypeOK, LinkRoom
  <1> QED
    BY <1>2, <1>4, <1>5, <1>6, <1>10 DEF w

LEMMA serveConnTypes ==
    ASSUME NetTypeOK, NEW n \in Node, NEW m \in Node, serveConn(n, m)
    PROVE  /\ NetTypeOK'
           /\ wire[n][m] \in Seq(Nat) /\ wire[n][m] # <<>>
           /\ wire'[n][m] = Tail(wire[n][m])
           /\ recv'[m] = Append(recv[m], [from |-> n, msg |-> Head(wire[n][m])])
           /\ \A b \in Node : b # m => recv'[b] = recv[b]
           /\ \A a, b \in Node : a # n \/ b # m => wire'[a][b] = wire[a][b]
  <1> DEFINE w == Tail(wire[n][m])
             x == [from |-> n, msg |-> Head(wire[n][m])]
  <1>1. /\ wire \in [Node -> [Node -> Seq(Nat)]] /\ wire[n][m] \in Seq(Nat) /\ wire[n][m] # <<>>
        /\ recv \in [Node -> Seq(Arrival)] /\ Len(recv[m]) < RecvCap
    BY ZenonT(60) DEF NetTypeOK, serveConn
  <1>2. w \in Seq(Nat) /\ x \in Arrival
    BY ZenonT(60), <1>1, TailFacts DEF Arrival
  <1>3. wire' = [wire EXCEPT ![n][m] = w] /\ recv' = [recv EXCEPT ![m] = Append(recv[m], x)]
    BY DEF serveConn
  <1> HIDE DEF w, x
  <1>4. /\ wire' \in [Node -> [Node -> Seq(Nat)]] /\ wire'[n][m] = w
        /\ \A a, b \in Node : a # n \/ b # m => wire'[a][b] = wire[a][b]
    BY <1>1, <1>2, <1>3
  <1>5. /\ recv' \in [Node -> Seq(Arrival)] /\ recv'[m] = Append(recv[m], x)
        /\ \A b \in Node : b # m => recv'[b] = recv[b]
    BY <1>1, <1>2, <1>3
  <1>6. Len(recv'[m]) <= RecvCap
    BY <1>1, <1>2, <1>5, NetworkAssumption
  <1>7. UNCHANGED <<sent, failed, delivered, sentBy, msgCh, fan, conns, connCh, faults>>
    BY DEF serveConn, history
  <1>8. ASSUME NEW a \in Node, NEW b \in Node PROVE LinkRoom(a, b)'
    <2>1. LinkRoom(a, b)
      BY DEF NetTypeOK, LinkRoom
    <2> QED
      BY <2>1, <1>5, <1>6, <1>7 DEF LinkRoom
  <1>9. NetTypeOK'
    BY ZenonT(60), <1>4, <1>5, <1>7, <1>8 DEF NetTypeOK, LinkRoom
  <1> QED
    BY <1>1, <1>4, <1>5, <1>9 DEF w, x

LEMMA RecvTypes ==
    ASSUME NetTypeOK, NEW m \in Node, Recv(m)
    PROVE  /\ NetTypeOK'
           /\ recv[m] \in Seq(Arrival) /\ recv[m] # <<>>
           /\ recv'[m] = Tail(recv[m])
           /\ \A b \in Node : b # m => recv'[b] = recv[b]
           /\ \E n \in Node, x \in Nat :
                 /\ n = Head(recv[m]).from /\ x = Head(recv[m]).msg
                 /\ delivered[n][m] \in Seq(Nat)
                 /\ delivered' = [delivered EXCEPT ![n][m] = Append(@, x)]
                 /\ delivered'[n][m] = Append(delivered[n][m], x)
                 /\ \A a, b \in Node : a # n \/ b # m => delivered'[a][b] = delivered[a][b]
  <1>1. /\ recv \in [Node -> Seq(Arrival)]
        /\ recv[m] \in Seq(Arrival) /\ recv[m] # <<>> /\ Len(recv[m]) <= RecvCap
        /\ delivered \in [Node -> [Node -> Seq(Nat)]]
    BY DEF NetTypeOK, Recv
  <1>2. /\ Tail(recv[m]) \in Seq(Arrival) /\ Len(Tail(recv[m])) <= RecvCap
        /\ Head(recv[m]) \in Arrival
    BY <1>1, TailFacts, NetworkAssumption
  <1>3. /\ recv' = [recv EXCEPT ![m] = Tail(recv[m])]
        /\ delivered' = [delivered EXCEPT ![Head(recv[m]).from][m] = Append(@, Head(recv[m]).msg)]
    BY DEF Recv
  <1>4. PICK n \in Node, x \in Nat : n = Head(recv[m]).from /\ x = Head(recv[m]).msg
    BY <1>2 DEF Arrival
  <1>5. delivered[n][m] \in Seq(Nat) /\ Append(delivered[n][m], x) \in Seq(Nat)
    BY <1>1
  <1>6. delivered' = [delivered EXCEPT ![n][m] = Append(delivered[n][m], x)]
    BY <1>3, <1>4
  <1>7. /\ delivered' \in [Node -> [Node -> Seq(Nat)]]
        /\ delivered'[n][m] = Append(delivered[n][m], x)
        /\ \A a, b \in Node : a # n \/ b # m => delivered'[a][b] = delivered[a][b]
    BY <1>1, <1>5, <1>6
  <1>8. /\ recv' \in [Node -> Seq(Arrival)] /\ recv'[m] = Tail(recv[m])
        /\ \A b \in Node : b # m => recv'[b] = recv[b]
    BY <1>1, <1>2, <1>3
  <1>9. UNCHANGED <<sent, failed, sentBy, msgCh, fan, conns, connCh, wire, faults>>
    BY DEF Recv
  <1>10. ASSUME NEW a \in Node, NEW b \in Node PROVE LinkRoom(a, b)'
    <2>1. LinkRoom(a, b)
      BY DEF NetTypeOK, LinkRoom
    <2> QED
      BY ZenonT(60), <2>1, <1>2, <1>8, <1>9 DEF LinkRoom
  <1>11. NetTypeOK'
    BY ZenonT(60), <1>7, <1>8, <1>9, <1>10 DEF NetTypeOK, LinkRoom
  <1> QED
    BY ZenonT(60), <1>1, <1>4, <1>5, <1>6, <1>7, <1>8, <1>11

LEMMA RestartTypes ==
    ASSUME NetTypeOK, NEW m \in Node, Restart(m)
    PROVE  /\ NetTypeOK'
           /\ recv'[m] = <<>>
           /\ \A a \in Node : /\ wire'[a][m] = <<>>
                              /\ conns'[a][m] = IF conns[a][m] = "up" THEN "broken" ELSE conns[a][m]
           /\ \A a, b \in Node : b # m => /\ wire'[a][b] = wire[a][b]
                                          /\ conns'[a][b] = conns[a][b]
                                          /\ recv'[b] = recv[b]
  <1>1. /\ wire \in [Node -> [Node -> Seq(Nat)]]
        /\ recv \in [Node -> Seq(Arrival)]
        /\ conns \in [Node -> [Node -> {"none", "up", "broken"}]]
    BY DEF NetTypeOK
  <1>2. /\ recv' \in [Node -> Seq(Arrival)] /\ recv'[m] = <<>>
        /\ \A b \in Node : b # m => recv'[b] = recv[b]
    BY <1>1 DEF Restart
  <1>3. /\ wire' \in [Node -> [Node -> Seq(Nat)]]
        /\ \A a \in Node : wire'[a][m] = <<>>
        /\ \A a, b \in Node : b # m => wire'[a][b] = wire[a][b]
    BY <1>1 DEF Restart
  <1>4. /\ conns' \in [Node -> [Node -> {"none", "up", "broken"}]]
        /\ \A a \in Node : conns'[a][m] = IF conns[a][m] = "up" THEN "broken" ELSE conns[a][m]
        /\ \A a, b \in Node : b # m => conns'[a][b] = conns[a][b]
    BY <1>1 DEF Restart
  <1>5. UNCHANGED <<sent, failed, delivered, sentBy, msgCh, fan, connCh>>
    BY DEF Restart, history
  <1>6. faults' \in 0..MaxFaults
    BY FaultTypes DEF Restart
  <1>7. ASSUME NEW a \in Node, NEW b \in Node PROVE LinkRoom(a, b)'
    <2>1. LinkRoom(a, b)
      BY DEF NetTypeOK, LinkRoom
    <2>2. Len(recv'[a]) <= RecvCap
      <3>1. CASE a = m
        <4>1. Len(recv'[a]) = 0
          BY <3>1, <1>2
        <4> QED
          BY <4>1, NetworkAssumption
      <3>2. CASE a # m
        BY <3>2, <2>1, <1>2 DEF LinkRoom
      <3> QED
        BY <3>1, <3>2
    <2>3. conns'[a][b] = "none" => conns[a][b] = "none"
      BY <1>4
    <2> QED
      BY <2>1, <2>2, <2>3, <1>5 DEF LinkRoom
  <1>8. NetTypeOK'
    BY <1>2, <1>3, <1>4, <1>5, <1>6, <1>7 DEF NetTypeOK, LinkRoom
  <1> QED
    BY <1>2, <1>3, <1>4, <1>8

\* The types and the capacities of the transport are kept.
LEMMA NextTypes == NetTypeOK /\ [NetNext]_netVars => NetTypeOK'
  <1> SUFFICES ASSUME NetTypeOK, [NetNext]_netVars PROVE NetTypeOK'
    OBVIOUS
  <1>1. CASE UNCHANGED netVars
    BY <1>1 DEF netVars, history, NetTypeOK
  <1>2. ASSUME NEW n \in Node, NEW addr \in BroadCast(n), Send(n, addr) PROVE NetTypeOK'
    BY ZenonT(60), <1>2, AddressTypes, SendTypes
  <1>3. ASSUME NEW n \in Node, NEW m \in Node \ {n}, Send(n, <<m>>) PROVE NetTypeOK'
    <2>1. <<m>> \in Seq(Node)
      OBVIOUS
    <2> QED
      BY ZenonT(60), <1>3, <2>1, SendTypes
  <1>4. ASSUME NEW n \in Node, Run(n) \/ Recv(n) \/ Restart(n) PROVE NetTypeOK'
    BY <1>4, RunTypes, RecvTypes, RestartTypes
  <1>5. ASSUME NEW n \in Node, NEW m \in Node, Link(n, m) PROVE NetTypeOK'
    BY ZenonT(60), <1>5, ForwardTypes, ConnectTypes, WriteTypes, serveConnTypes DEF Link
  <1>6. ASSUME NEW n \in Node, NEW m \in Node, ConnectFails(n, m) \/ Break(n, m)
        PROVE  NetTypeOK'
    BY <1>6, ConnectFailsTypes, BreakTypes
  <1> QED
    BY ZenonT(60), <1>1, <1>2, <1>3, <1>4, <1>5, <1>6 DEF NetNext

-----------------------------------------------------------------------------
(* The inductive invariant: what is on its way from n to m, in the places it *)
(* passes.                                                                    *)

\* The messages of n in Receiver.msg of m, by position and by name.
From(n, m)   == {k \in 1..Len(recv[m]) : recv[m][k].from = n}
InRecv(n, m) == {recv[m][k].msg : k \in From(n, m)}

\* On the connection, or behind it.
Arriving(n, m) == InRecv(n, m) \cup Range(wire[n][m])

\* In front of the connection: with Sender.Run, or in msgCh.
InFan(n, m)   == IF m \in Range(fan[n].addr) THEN {fan[n].msg} ELSE {}
ToSend(n, m)  == {k \in 1..Len(msgCh[n]) : m \in Range(msgCh[n][k].addr)}
InMsgCh(n, m) == {msgCh[n][k].msg : k \in ToSend(n, m)}
Waiting(n, m) == InFan(n, m) \cup InMsgCh(n, m)

\* The messages to m that m has neither taken nor missed.
Past(n, m) == failed[n][m] + Len(delivered[n][m])
Due(n, m)  == Rest(sent[n][m], Past(n, m))

\* Sender takes the messages in order, and no address twice.
SenderOK(n) ==
    /\ IsInjective(fan[n].addr)
    /\ fan[n].msg <= sentBy[n]
    /\ \A i \in 1..Len(msgCh[n]) : /\ IsInjective(msgCh[n][i].addr)
                                   /\ fan[n].msg < msgCh[n][i].msg
                                   /\ msgCh[n][i].msg <= sentBy[n]
    /\ \A i, j \in 1..Len(msgCh[n]) : i < j => msgCh[n][i].msg < msgCh[n][j].msg

RecvRising(n, m) == \A i, j \in From(n, m) : i < j => recv[m][i].msg < recv[m][j].msg

\* Every place holds the messages in order.
PlacesRise(n, m) ==
    /\ Rising(sent[n][m])
    /\ \A x \in Range(sent[n][m]) \cup Range(connCh[n][m]) : x <= sentBy[n]
    /\ Rising(wire[n][m])
    /\ Rising(connCh[n][m])
    /\ RecvRising(n, m)

\* What is nearer to m was sent before.
PlacesInOrder(n, m) ==
    /\ Below(InRecv(n, m), Range(wire[n][m]))
    /\ Below(Arriving(n, m), Range(connCh[n][m]))
    /\ Below(Arriving(n, m) \cup Range(connCh[n][m]), Waiting(n, m))

\* Until the connection breaks all messages that are due are on their way; what
\* still arrives then is the first part of them.
NothingMissing(n, m) ==
    /\ Past(n, m) <= Len(sent[n][m])
    /\ conns[n][m] = "none" => /\ delivered[n][m] = <<>>
                               /\ Arriving(n, m) = {}
                               /\ connCh[n][m] = <<>>
    /\ conns[n][m] # "broken" =>
          Arriving(n, m) \cup Range(connCh[n][m]) \cup Waiting(n, m) = Due(n, m)
    /\ Arriving(n, m) \subseteq Due(n, m)
    /\ \A x \in Arriving(n, m), y \in Due(n, m) : y < x => y \in Arriving(n, m)

LinkOK(n, m) == PlacesRise(n, m) /\ PlacesInOrder(n, m) /\ NothingMissing(n, m)

NetInv ==
    /\ NetTypeOK
    /\ \A n \in Node : SenderOK(n)
    /\ \A n, m \in Node : LinkOK(n, m)

LEMMA RangeType ==
    ASSUME NEW S, NEW s \in Seq(S)
    PROVE  Range(s) \subseteq S
  BY DEF Range

LEMMA LinkTypes ==
    ASSUME NetTypeOK, NEW n \in Node, NEW m \in Node
    PROVE  /\ sent[n][m] \in Seq(Nat) /\ failed[n][m] \in Nat /\ delivered[n][m] \in Seq(Nat)
           /\ sentBy[n] \in Nat /\ connCh[n][m] \in Seq(Nat) /\ wire[n][m] \in Seq(Nat)
           /\ conns[n][m] \in {"none", "up", "broken"}
           /\ fan[n].msg \in Nat /\ fan[n].addr \in Seq(Node)
           /\ Past(n, m) \in Nat
           /\ InRecv(n, m) \subseteq Nat /\ Range(wire[n][m]) \subseteq Nat
           /\ Arriving(n, m) \subseteq Nat /\ Range(connCh[n][m]) \subseteq Nat
           /\ Waiting(n, m) \subseteq Nat /\ Due(n, m) \subseteq Nat
  <1>1. /\ sent[n][m] \in Seq(Nat) /\ failed[n][m] \in Nat /\ delivered[n][m] \in Seq(Nat)
        /\ sentBy[n] \in Nat /\ connCh[n][m] \in Seq(Nat) /\ wire[n][m] \in Seq(Nat)
        /\ conns[n][m] \in {"none", "up", "broken"}
        /\ recv[m] \in Seq(Arrival) /\ msgCh[n] \in Seq(NetMessage)
    BY DEF NetTypeOK
  <1>2. fan[n].msg \in Nat /\ fan[n].addr \in Seq(Node)
    BY ZenonT(60) DEF NetTypeOK, NetMessage
  <1>3. Past(n, m) \in Nat
    BY <1>1 DEF Past
  <1>4. Range(wire[n][m]) \subseteq Nat /\ Range(connCh[n][m]) \subseteq Nat
    BY <1>1, RangeType
  <1>5. InRecv(n, m) \subseteq Nat
    <2>1. \A k \in 1..Len(recv[m]) : recv[m][k] \in Arrival
      BY <1>1
    <2> QED
      BY <2>1 DEF InRecv, From, Arrival
  <1>6. InMsgCh(n, m) \subseteq Nat
    <2>1. \A k \in 1..Len(msgCh[n]) : msgCh[n][k] \in NetMessage
      BY <1>1
    <2> QED
      BY <2>1 DEF InMsgCh, ToSend, NetMessage
  <1>7. Due(n, m) \subseteq Nat
    <2>1. \A i \in (Past(n, m) + 1)..Len(sent[n][m]) : i \in 1..Len(sent[n][m])
      <3>1. \A p, l \in Nat : \A i \in (p + 1)..l : i \in 1..l
        OBVIOUS
      <3>2. Len(sent[n][m]) \in Nat
        BY <1>1
      <3> QED
        BY Zenon, <1>3, <3>1, <3>2
    <2>2. \A i \in 1..Len(sent[n][m]) : sent[n][m][i] \in Nat
      <3>1. sent[n][m] \in Seq(Nat)
        BY Zenon, <1>1
      <3>2. \A s \in Seq(Nat) : \A i \in 1..Len(s) : s[i] \in Nat
        OBVIOUS
      <3> QED
        BY Zenon, <3>1, <3>2
    <2> QED
      BY <2>1, <2>2 DEF Due, Rest
  <1>8. Waiting(n, m) \subseteq Nat
    BY <1>2, <1>6 DEF Waiting, InFan
  <1> QED
    BY ZenonT(60), <1>1, <1>2, <1>3, <1>4, <1>5, <1>7, <1>8 DEF Arriving

LEMMA WaitingKept ==
    ASSUME NEW n \in Node, NEW m \in Node, fan'[n] = fan[n], msgCh'[n] = msgCh[n]
    PROVE  Waiting(n, m)' = Waiting(n, m)
  BY DEF Waiting, InFan, InMsgCh, ToSend

LEMMA SenderKept ==
    ASSUME NEW n \in Node, SenderOK(n),
           fan'[n] = fan[n], msgCh'[n] = msgCh[n], sentBy'[n] = sentBy[n]
    PROVE  SenderOK(n)'
  BY DEF SenderOK

LEMMA RecvKept ==
    ASSUME NEW n \in Node, NEW m \in Node, recv'[m] = recv[m]
    PROVE  InRecv(n, m)' = InRecv(n, m) /\ (RecvRising(n, m) => RecvRising(n, m)')
  BY DEF InRecv, From, RecvRising

\* A link nothing happens on.
LEMMA LinkKept ==
    ASSUME NetInv, NetTypeOK', NEW n \in Node, NEW m \in Node,
           sent'[n][m] = sent[n][m], failed'[n][m] = failed[n][m],
           delivered'[n][m] = delivered[n][m], conns'[n][m] = conns[n][m],
           connCh'[n][m] = connCh[n][m], wire'[n][m] = wire[n][m], sentBy[n] <= sentBy'[n],
           InRecv(n, m)' = InRecv(n, m), RecvRising(n, m)', Waiting(n, m)' = Waiting(n, m)
    PROVE  LinkOK(n, m)'
  <1> USE DEF NetInv
  <1>1. Past(n, m)' = Past(n, m) /\ Due(n, m)' = Due(n, m)
    BY DEF Past, Due
  <1>2. Arriving(n, m)' = Arriving(n, m)
    BY DEF Arriving
  <1>3. PlacesRise(n, m)'
    <2>1. \A x \in Range(sent[n][m]) \cup Range(connCh[n][m]) : x \in Nat
      BY LinkTypes, RangeType
    <2>2. sentBy[n] \in Nat /\ sentBy'[n] \in Nat
      BY DEF NetTypeOK
    <2>3. \A x \in Range(sent[n][m]) \cup Range(connCh[n][m]) : x <= sentBy'[n]
      <3>1. \A x \in Range(sent[n][m]) \cup Range(connCh[n][m]) : x <= sentBy[n]
        BY Zenon DEF LinkOK, PlacesRise
      <3>2. \A x, p, q \in Nat : x <= p /\ p <= q => x <= q
        OBVIOUS
      <3> QED
        BY Zenon, <2>1, <2>2, <3>1, <3>2
    <2> QED
      BY ZenonT(60), <2>3 DEF LinkOK, PlacesRise
  <1>4. PlacesInOrder(n, m)'
    BY ZenonT(60), <1>2 DEF LinkOK, PlacesInOrder
  <1>5. NothingMissing(n, m)'
    BY <1>1, <1>2 DEF LinkOK, NothingMissing
  <1> QED
    BY <1>3, <1>4, <1>5 DEF LinkOK

\* Sender goes on to the next address.
LEMMA AddressDone ==
    ASSUME NetInv, NEW n \in Node, NEW m \in Node, At(n, m), NextAddress(n),
           msgCh' = msgCh, sentBy' = sentBy
    PROVE  /\ \A a \in Node : SenderOK(a)'
           /\ \A a, b \in Node : a # n \/ b # m => Waiting(a, b)' = Waiting(a, b)
           /\ Waiting(n, m) = InMsgCh(n, m) \cup {fan[n].msg}
           /\ Waiting(n, m)' = InMsgCh(n, m)
           /\ Below({fan[n].msg}, InMsgCh(n, m))
  <1>1. NetTypeOK /\ SenderOK(n)
    BY DEF NetInv
  <1>2. /\ fan'[n].msg = fan[n].msg /\ fan'[n].addr = Tail(fan[n].addr)
        /\ \A a \in Node : a # n => fan'[a] = fan[a]
        /\ fan[n].addr \in Seq(Node) /\ fan[n].addr # <<>> /\ Head(fan[n].addr) = m
    BY <1>1, NextAddressTypes
  <1>3. /\ IsInjective(fan[n].addr)
        /\ IsInjective(fan'[n].addr) /\ Range(fan'[n].addr) = Range(fan[n].addr) \ {m}
        /\ m \in Range(fan[n].addr)
    BY <1>1, <1>2, TailInjective, TailFacts DEF SenderOK
  <1>4. SenderOK(n)'
    BY <1>1, <1>2, <1>3 DEF SenderOK
  <1>5. \A a \in Node : SenderOK(a)'
    BY <1>2, <1>4, SenderKept DEF NetInv
  <1>6. \A a, b \in Node : InMsgCh(a, b)' = InMsgCh(a, b)
    BY DEF InMsgCh, ToSend
  <1>7. ASSUME NEW a \in Node, NEW b \in Node, a # n \/ b # m
        PROVE  Waiting(a, b)' = Waiting(a, b)
    <2>1. InFan(a, b)' = InFan(a, b)
      BY ZenonT(60), <1>2, <1>3, <1>7 DEF InFan
    <2> QED
      BY <2>1, <1>6 DEF Waiting
  <1>8. InFan(n, m) = {fan[n].msg} /\ InFan(n, m)' = {}
    BY <1>3 DEF InFan
  <1>9. Below({fan[n].msg}, InMsgCh(n, m))
    BY <1>1 DEF SenderOK, Below, InMsgCh, ToSend
  <1> QED
    BY <1>5, <1>6, <1>7, <1>8, <1>9 DEF Waiting

-----------------------------------------------------------------------------
(* Every step keeps it, and is a step of module Links or none. *)

LEMMA InitInv == NetInit => NetInv
  <1> SUFFICES ASSUME NetInit PROVE NetInv
    OBVIOUS
  <1>1. NetTypeOK
    BY InitTypes
  <1>2. ASSUME NEW n \in Node PROVE SenderOK(n)
    BY DEF NetInit, SenderOK, NoMessage, IsInjective
  <1>3. ASSUME NEW n \in Node, NEW m \in Node PROVE LinkOK(n, m)
    <2>1. /\ sent[n][m] = <<>> /\ failed[n][m] = 0 /\ delivered[n][m] = <<>>
          /\ connCh[n][m] = <<>> /\ wire[n][m] = <<>> /\ recv[m] = <<>>
          /\ msgCh[n] = <<>> /\ fan[n].addr = <<>>
      BY DEF NetInit, Empty, NoMessage
    <2>2. /\ From(n, m) = {} /\ InRecv(n, m) = {} /\ ToSend(n, m) = {} /\ InMsgCh(n, m) = {}
      BY <2>1 DEF From, InRecv, ToSend, InMsgCh
    <2>3. Range(<<>>) = {}
      BY DEF Range
    <2>4. Waiting(n, m) = {} /\ Arriving(n, m) = {} /\ Range(connCh[n][m]) = {}
      BY <2>1, <2>2, <2>3 DEF Waiting, InFan, Arriving
    <2>5. Past(n, m) = 0 /\ Due(n, m) = {} /\ Len(sent[n][m]) = 0
      BY <2>1 DEF Past, Due, Rest
    <2>6. PlacesRise(n, m)
      BY <2>1, <2>2, <2>3 DEF PlacesRise, Rising, RecvRising
    <2>7. PlacesInOrder(n, m)
      BY <2>2, <2>4 DEF PlacesInOrder, Below
    <2>8. NothingMissing(n, m)
      BY <2>1, <2>4, <2>5 DEF NothingMissing
    <2> QED
      BY <2>6, <2>7, <2>8 DEF LinkOK
  <1> QED
    BY <1>1, <1>2, <1>3 DEF NetInv

LEMMA SendInv ==
    ASSUME NetInv, NEW n \in Node, NEW addr \in Seq(Node), IsInjective(addr), Send(n, addr)
    PROVE  NetInv'
  <1> DEFINE x == sentBy[n] + 1
             e == [msg |-> x, addr |-> addr]
  <1>1. NetTypeOK /\ SenderOK(n)
    BY ZenonT(60) DEF NetInv
  <1>2. /\ NetTypeOK'
        /\ sentBy[n] \in Nat /\ sentBy'[n] = x
        /\ msgCh'[n] = Append(msgCh[n], e) /\ e \in NetMessage
        /\ \A a \in Node : a # n => sentBy'[a] = sentBy[a] /\ msgCh'[a] = msgCh[a]
        /\ \A a, b \in Node : sent'[a][b] = IF a = n /\ b \in Range(addr)
                                               THEN Append(sent[n][b], x)
                                               ELSE sent[a][b]
    BY <1>1, SendTypes
  <1>3. UNCHANGED <<failed, delivered, fan, conns, connCh, wire, recv>>
    BY DEF Send
  <1>4. x \in Nat /\ e.msg = x /\ e.addr = addr
    BY <1>2
  <1> HIDE DEF e
  <1>5. msgCh[n] \in Seq(NetMessage) /\ fan[n].msg \in Nat
    BY ZenonT(60), <1>1, LinkTypes DEF NetTypeOK
  <1>6. /\ Len(msgCh[n]) \in Nat /\ Len(msgCh'[n]) = Len(msgCh[n]) + 1
        /\ msgCh'[n][Len(msgCh[n]) + 1] = e
        /\ \A i \in 1..Len(msgCh[n]) : msgCh'[n][i] = msgCh[n][i] /\ msgCh[n][i].msg \in Nat
        /\ \A i \in 1..(Len(msgCh[n]) + 1) : i \in 1..Len(msgCh[n]) \/ i = Len(msgCh[n]) + 1
        /\ \A i \in 1..Len(msgCh[n]) : i \in 1..(Len(msgCh[n]) + 1)
        /\ Len(msgCh[n]) + 1 \in 1..(Len(msgCh[n]) + 1)
    <2>1. \A i \in 1..Len(msgCh[n]) : msgCh[n][i] \in NetMessage
      BY <1>5
    <2>2. \A i \in 1..Len(msgCh[n]) : msgCh[n][i].msg \in Nat
      BY <2>1 DEF NetMessage
    <2> QED
      BY <2>2, <1>2, <1>5
  <1>7. SenderOK(n)'
    <2>1. IsInjective(fan'[n].addr) /\ fan'[n].msg <= sentBy'[n]
      BY <1>1, <1>2, <1>3, <1>5 DEF SenderOK
    <2>2. ASSUME NEW i \in 1..Len(msgCh'[n])
          PROVE  /\ IsInjective(msgCh'[n][i].addr)
                 /\ fan'[n].msg < msgCh'[n][i].msg
                 /\ msgCh'[n][i].msg <= sentBy'[n]
      <3>1. CASE i \in 1..Len(msgCh[n])
        BY <3>1, <1>1, <1>2, <1>3, <1>6 DEF SenderOK
      <3>2. CASE i = Len(msgCh[n]) + 1
        BY <3>2, <1>1, <1>2, <1>3, <1>4, <1>5, <1>6 DEF SenderOK
      <3> QED
        BY <3>1, <3>2, <1>6
    <2>3. ASSUME NEW i \in 1..Len(msgCh'[n]), NEW j \in 1..Len(msgCh'[n]), i < j
          PROVE  msgCh'[n][i].msg < msgCh'[n][j].msg
      <3>1. i \in 1..Len(msgCh[n])
        BY <2>3, <1>6
      <3>2. CASE j \in 1..Len(msgCh[n])
        BY ZenonT(60), <3>1, <3>2, <2>3, <1>1, <1>6 DEF SenderOK
      <3>3. CASE j = Len(msgCh[n]) + 1
        <4>1. msgCh[n][i].msg <= sentBy[n] /\ msgCh[n][i].msg \in Nat
          BY <3>1, <1>1, <1>6 DEF SenderOK
        <4>2. msgCh'[n][i].msg = msgCh[n][i].msg /\ msgCh'[n][j].msg = x
          BY <3>1, <3>3, <1>4, <1>6
        <4> QED
          BY <4>1, <4>2, <1>2
      <3> QED
        BY <3>2, <3>3, <1>6
    <2> QED
      BY ZenonT(60), <2>1, <2>2, <2>3 DEF SenderOK
  <1>8. \A a \in Node : SenderOK(a)'
    BY <1>2, <1>3, <1>7, SenderKept DEF NetInv
  <1>9. \A b \in Node : InMsgCh(n, b)' = IF b \in Range(addr) THEN InMsgCh(n, b) \cup {x}
                                                               ELSE InMsgCh(n, b)
    <2> SUFFICES ASSUME NEW b \in Node, NEW y
                 PROVE  y \in InMsgCh(n, b)' <=> y \in InMsgCh(n, b) \/ (b \in Range(addr) /\ y = x)
      OBVIOUS
    <2>1. \A i \in 1..(Len(msgCh[n]) + 1) :
              i \in ToSend(n, b)' <=> i \in ToSend(n, b) \/ (b \in Range(addr) /\ i = Len(msgCh[n]) + 1)
      BY <1>4, <1>6 DEF ToSend
    <2>2. ToSend(n, b) \subseteq 1..Len(msgCh[n]) /\ ToSend(n, b)' \subseteq 1..(Len(msgCh[n]) + 1)
      BY <1>6 DEF ToSend
    <2> QED
      BY <2>1, <2>2, <1>4, <1>6, Zenon DEF InMsgCh
  <1>10. \A b \in Node : Waiting(n, b)' = IF b \in Range(addr) THEN Waiting(n, b) \cup {x}
                                                               ELSE Waiting(n, b)
    <2>1. \A b \in Node : InFan(n, b)' = InFan(n, b)
      BY <1>3 DEF InFan
    <2> QED
      BY <2>1, <1>9 DEF Waiting
  <1>11. ASSUME NEW a \in Node, NEW b \in Node PROVE LinkOK(a, b)'
    <2>1. InRecv(a, b)' = InRecv(a, b) /\ RecvRising(a, b)'
      BY ZenonT(60), <1>3, RecvKept DEF NetInv, LinkOK, PlacesRise
    <2>2. CASE a # n
      <3>1. Waiting(a, b)' = Waiting(a, b) /\ sent'[a][b] = sent[a][b] /\ sentBy'[a] = sentBy[a]
        BY ZenonT(60), <2>2, <1>2, <1>3, WaitingKept
      <3>2. sentBy[a] <= sentBy'[a]
        BY <3>1, <1>1, LinkTypes
      <3> QED
        BY ZenonT(60), <2>1, <3>1, <3>2, <1>2, <1>3, LinkKept
    <2>3. CASE a = n /\ b \notin Range(addr)
      <3>1. Waiting(a, b)' = Waiting(a, b) /\ sent'[a][b] = sent[a][b]
        BY <2>3, <1>2, <1>10
      <3>2. sentBy[a] <= sentBy'[a]
        BY <2>3, <1>2
      <3> QED
        BY ZenonT(60), <2>1, <3>1, <3>2, <1>2, <1>3, LinkKept
    <2>4. CASE a = n /\ b \in Range(addr)
      <3>1. /\ sent'[n][b] = Append(sent[n][b], x) /\ Waiting(n, b)' = Waiting(n, b) \cup {x}
            /\ Past(n, b)' = Past(n, b) /\ Arriving(n, b)' = Arriving(n, b)
        BY ZenonT(60), <2>1, <2>4, <1>2, <1>3, <1>10 DEF Past, Arriving
      <3>2. LinkOK(n, b) /\ PlacesRise(n, b) /\ PlacesInOrder(n, b) /\ NothingMissing(n, b)
        BY DEF NetInv, LinkOK
      <3>3. /\ sent[n][b] \in Seq(Nat) /\ Past(n, b) \in Nat /\ Past(n, b) <= Len(sent[n][b])
            /\ Range(sent[n][b]) \subseteq Nat /\ Range(connCh[n][b]) \subseteq Nat
            /\ Arriving(n, b) \subseteq Nat /\ Due(n, b) \subseteq Nat
        BY ZenonT(60), <1>1, <3>2, LinkTypes, RangeType DEF NothingMissing
      <3>4. Below(Range(sent[n][b]) \cup Range(connCh[n][b]), {x})
        BY <3>2, <3>3, <1>2 DEF PlacesRise, Below
      <3>5. Due(n, b)' = Due(n, b) \cup {x}
        BY <3>1, <3>3, <1>4, RestAppend DEF Due
      <3>6. Due(n, b) \subseteq Range(sent[n][b])
        BY <3>3 DEF Due, Rest, Range
      <3>7. Below(Arriving(n, b), {x})
        BY ZenonT(60), <3>2, <3>4, <3>6 DEF NothingMissing, Below
      <3>8. PlacesRise(n, b)'
        <4>1. Rising(sent'[n][b])
          BY ZenonT(60), <3>1, <3>2, <3>3, <3>4, <1>4, AppendRising DEF PlacesRise, Below
        <4>2. Range(sent'[n][b]) = Range(sent[n][b]) \cup {x}
          BY <3>1, <3>3, <1>4, AppendRange
        <4>3. \A y \in Range(sent'[n][b]) \cup Range(connCh[n][b]) : y <= x
          BY <4>2, <3>3, <3>4, <1>4 DEF Below
        <4> QED
          BY ZenonT(60), <4>1, <4>3, <3>2, <2>1, <2>4, <1>2, <1>3 DEF PlacesRise
      <3>9. PlacesInOrder(n, b)'
        <4>1. Below(Arriving(n, b) \cup Range(connCh[n][b]), Waiting(n, b) \cup {x})
          BY ZenonT(60), <3>2, <3>4, <3>7 DEF PlacesInOrder, Below
        <4> QED
          BY ZenonT(60), <4>1, <3>1, <3>2, <2>1, <2>4, <1>3 DEF PlacesInOrder
      <3>10. NothingMissing(n, b)'
        <4>1. Past(n, b)' <= Len(sent'[n][b])
          BY <3>1, <3>3
        <4>2. \A z \in Arriving(n, b), y \in Due(n, b)' : y < z => y \in Arriving(n, b)
          <5>1. \A z \in Arriving(n, b) : z \in Nat /\ z < x /\ ~(x < z)
            BY <3>3, <3>7, <1>4 DEF Below
          <5> QED
            BY ZenonT(60), <5>1, <3>2, <3>5 DEF NothingMissing
        <4> QED
          BY <4>1, <4>2, <3>1, <3>2, <3>5, <1>3 DEF NothingMissing
      <3> QED
        BY ZenonT(60), <2>4, <3>8, <3>9, <3>10 DEF LinkOK
    <2> QED
      BY ZenonT(60), <2>2, <2>3, <2>4
  <1> QED
    BY <1>2, <1>8, <1>11 DEF NetInv

LEMMA RunInv ==
    ASSUME NetInv, NEW n \in Node, Run(n)
    PROVE  NetInv'
  <1>1. NetTypeOK /\ SenderOK(n)
    BY DEF NetInv
  <1>2. /\ NetTypeOK'
        /\ msgCh[n] \in Seq(NetMessage) /\ msgCh[n] # <<>>
        /\ fan'[n] = Head(msgCh[n]) /\ msgCh'[n] = Tail(msgCh[n])
        /\ \A a \in Node : a # n => fan'[a] = fan[a] /\ msgCh'[a] = msgCh[a]
    BY <1>1, RunTypes
  <1>3. UNCHANGED <<sent, failed, delivered, sentBy, conns, connCh, wire, recv>>
        /\ fan[n].addr = <<>>
    BY DEF Run, history
  <1> DEFINE L == Len(msgCh[n])
  <1>4. /\ L \in Nat \ {0} /\ Len(msgCh'[n]) = L - 1 /\ fan'[n] = msgCh[n][1]
        /\ \A i \in 1..(L - 1) : i + 1 \in 1..L /\ msgCh'[n][i] = msgCh[n][i + 1]
        /\ \A i \in 1..L : i = 1 \/ (i - 1 \in 1..(L - 1) /\ msgCh[n][i] = msgCh'[n][i - 1])
        /\ 1 \in 1..L
    BY <1>2, TailFacts
  <1>5. SenderOK(n)'
    <2>1. IsInjective(fan'[n].addr) /\ fan'[n].msg <= sentBy'[n]
      BY <1>1, <1>3, <1>4 DEF SenderOK
    <2>2. ASSUME NEW i \in 1..(L - 1)
          PROVE  /\ IsInjective(msgCh'[n][i].addr)
                 /\ fan'[n].msg < msgCh'[n][i].msg
                 /\ msgCh'[n][i].msg <= sentBy'[n]
      <3>1. i + 1 \in 1..L /\ 1 < i + 1 /\ msgCh'[n][i] = msgCh[n][i + 1]
        BY <1>4
      <3> QED
        BY <3>1, <1>1, <1>3, <1>4 DEF SenderOK
    <2>3. ASSUME NEW i \in 1..(L - 1), NEW j \in 1..(L - 1), i < j
          PROVE  msgCh'[n][i].msg < msgCh'[n][j].msg
      <3>1. i + 1 \in 1..L /\ j + 1 \in 1..L /\ i + 1 < j + 1
        BY <2>3, <1>4
      <3> QED
        BY ZenonT(60), <3>1, <1>1, <1>4 DEF SenderOK
    <2> QED
      BY ZenonT(60), <2>1, <2>2, <2>3, <1>4 DEF SenderOK
  <1>6. \A a \in Node : SenderOK(a)'
    BY <1>2, <1>3, <1>5, SenderKept DEF NetInv
  <1>7. ASSUME NEW b \in Node PROVE Waiting(n, b)' = Waiting(n, b)
    <2>1. InFan(n, b) = {}
      BY <1>3 DEF InFan, Range
    <2>2. InFan(n, b)' = IF b \in Range(msgCh[n][1].addr) THEN {msgCh[n][1].msg} ELSE {}
      BY <1>4 DEF InFan
    <2>3. ASSUME NEW y \in InMsgCh(n, b) PROVE y \in Waiting(n, b)'
      <3>1. PICK i \in 1..L : b \in Range(msgCh[n][i].addr) /\ y = msgCh[n][i].msg
        BY <2>3 DEF InMsgCh, ToSend
      <3>2. CASE i = 1
        BY ZenonT(60), <3>1, <3>2, <2>2 DEF Waiting
      <3>3. CASE i - 1 \in 1..(L - 1) /\ msgCh[n][i] = msgCh'[n][i - 1]
        BY ZenonT(60), <3>1, <3>3, <1>4 DEF Waiting, InMsgCh, ToSend
      <3> QED
        BY <3>2, <3>3, <1>4
    <2>4. ASSUME NEW y \in InMsgCh(n, b)' PROVE y \in InMsgCh(n, b)
      <3>1. PICK i \in 1..(L - 1) : b \in Range(msgCh'[n][i].addr) /\ y = msgCh'[n][i].msg
        BY <2>4, <1>4 DEF InMsgCh, ToSend
      <3> QED
        BY ZenonT(60), <3>1, <1>4 DEF InMsgCh, ToSend
    <2>5. ASSUME NEW y \in InFan(n, b)' PROVE y \in InMsgCh(n, b)
      BY ZenonT(60), <2>2, <1>4 DEF InMsgCh, ToSend
    <2> QED
      BY <2>1, <2>3, <2>4, <2>5 DEF Waiting
  <1>8. ASSUME NEW a \in Node, NEW b \in Node PROVE LinkOK(a, b)'
    <2>1. InRecv(a, b)' = InRecv(a, b) /\ RecvRising(a, b)'
      BY ZenonT(60), <1>3, RecvKept DEF NetInv, LinkOK, PlacesRise
    <2>2. Waiting(a, b)' = Waiting(a, b)
      BY <1>2, <1>7, WaitingKept
    <2>3. sentBy[a] <= sentBy'[a]
      BY <1>1, <1>3, LinkTypes
    <2> QED
      BY ZenonT(60), <2>1, <2>2, <2>3, <1>2, <1>3, LinkKept
  <1> QED
    BY <1>2, <1>6, <1>8 DEF NetInv

\* The links a step of one link leaves alone.
LEMMA OtherLinks ==
    ASSUME NetInv, NetTypeOK', UNCHANGED <<sent, sentBy, delivered, recv>>,
           NEW a \in Node, NEW b \in Node, Waiting(a, b)' = Waiting(a, b),
           failed'[a][b] = failed[a][b], conns'[a][b] = conns[a][b],
           connCh'[a][b] = connCh[a][b], wire'[a][b] = wire[a][b]
    PROVE  LinkOK(a, b)'
  <1>1. InRecv(a, b)' = InRecv(a, b) /\ RecvRising(a, b)'
    BY ZenonT(60), RecvKept DEF NetInv, LinkOK, PlacesRise
  <1>2. sentBy[a] <= sentBy'[a]
    BY LinkTypes DEF NetInv
  <1> QED
    BY ZenonT(60), <1>1, <1>2, LinkKept

LEMMA ForwardInv ==
    ASSUME NetInv, NEW n \in Node, NEW m \in Node, Forward(n, m)
    PROVE  NetInv'
  <1> DEFINE x == fan[n].msg
  <1>1. NetTypeOK /\ SenderOK(n) /\ PlacesRise(n, m) /\ PlacesInOrder(n, m) /\ NothingMissing(n, m)
    BY ZenonT(60) DEF NetInv, LinkOK
  <1>2. /\ NetTypeOK' /\ connCh'[n][m] = Append(connCh[n][m], x)
        /\ \A a, b \in Node : a # n \/ b # m => connCh'[a][b] = connCh[a][b]
    BY <1>1, ForwardTypes
  <1>3. /\ UNCHANGED <<sent, failed, delivered, sentBy, msgCh, conns, wire, recv>>
        /\ At(n, m) /\ NextAddress(n) /\ conns[n][m] # "none"
    BY ZenonT(60) DEF Forward, history
  <1>4. /\ \A a \in Node : SenderOK(a)'
        /\ \A a, b \in Node : a # n \/ b # m => Waiting(a, b)' = Waiting(a, b)
        /\ Waiting(n, m) = InMsgCh(n, m) \cup {x} /\ Waiting(n, m)' = InMsgCh(n, m)
        /\ Below({x}, InMsgCh(n, m))
    BY ZenonT(60), <1>3, AddressDone
  <1>5. /\ x \in Nat /\ connCh[n][m] \in Seq(Nat) /\ x <= sentBy[n]
        /\ Range(connCh[n][m]) \subseteq Nat
    BY <1>1, LinkTypes DEF SenderOK
  <1> HIDE DEF x
  <1>6. Range(connCh'[n][m]) = Range(connCh[n][m]) \cup {x}
    BY <1>2, <1>5, AppendRange
  <1>7. InRecv(n, m)' = InRecv(n, m) /\ RecvRising(n, m)'
    BY <1>1, <1>3, RecvKept DEF PlacesRise
  <1>8. Arriving(n, m)' = Arriving(n, m) /\ Past(n, m)' = Past(n, m) /\ Due(n, m)' = Due(n, m)
    BY ZenonT(60), <1>3, <1>7 DEF Arriving, Past, Due
  <1>9. PlacesRise(n, m)'
    <2>1. Below(Range(connCh[n][m]), {x})
      BY ZenonT(60), <1>1, <1>4 DEF PlacesInOrder, Below
    <2>2. Rising(connCh'[n][m])
      BY ZenonT(60), <2>1, <1>1, <1>2, <1>5, AppendRising DEF PlacesRise
    <2> QED
      BY ZenonT(60), <2>2, <1>1, <1>3, <1>5, <1>6, <1>7 DEF PlacesRise
  <1>10. PlacesInOrder(n, m)'
    <2>1. Below(Arriving(n, m), Range(connCh[n][m]) \cup {x})
      BY ZenonT(60), <1>1, <1>4 DEF PlacesInOrder, Below
    <2>2. Below(Arriving(n, m) \cup Range(connCh[n][m]) \cup {x}, InMsgCh(n, m))
      BY ZenonT(60), <1>1, <1>4 DEF PlacesInOrder, Below
    <2> QED
      BY ZenonT(60), <2>1, <2>2, <1>1, <1>3, <1>4, <1>6, <1>7, <1>8 DEF PlacesInOrder
  <1>11. NothingMissing(n, m)'
    BY ZenonT(60), <1>1, <1>3, <1>4, <1>6, <1>8 DEF NothingMissing
  <1>12. ASSUME NEW a \in Node, NEW b \in Node PROVE LinkOK(a, b)'
    <2>1. CASE a = n /\ b = m
      BY ZenonT(60), <2>1, <1>9, <1>10, <1>11 DEF LinkOK
    <2>2. CASE a # n \/ b # m
      BY ZenonT(60), <2>2, <1>2, <1>3, <1>4, OtherLinks
    <2> QED
      BY <2>1, <2>2
  <1> QED
    BY <1>2, <1>4, <1>12 DEF NetInv

LEMMA ConnectInv ==
    ASSUME NetInv, NEW n \in Node, NEW m \in Node, Connect(n, m)
    PROVE  NetInv'
  <1> DEFINE x == fan[n].msg
  <1>1. NetTypeOK /\ SenderOK(n) /\ PlacesRise(n, m) /\ PlacesInOrder(n, m) /\ NothingMissing(n, m)
    BY DEF NetInv, LinkOK
  <1>2. /\ NetTypeOK' /\ connCh'[n][m] = <<x>> /\ conns'[n][m] = "up"
        /\ \A a, b \in Node : a # n \/ b # m =>
               connCh'[a][b] = connCh[a][b] /\ conns'[a][b] = conns[a][b]
    BY <1>1, ConnectTypes
  <1>3. /\ UNCHANGED <<sent, failed, delivered, sentBy, msgCh, wire, recv>>
        /\ At(n, m) /\ NextAddress(n) /\ conns[n][m] = "none"
    BY ZenonT(60) DEF Connect, history
  <1>4. /\ \A a \in Node : SenderOK(a)'
        /\ \A a, b \in Node : a # n \/ b # m => Waiting(a, b)' = Waiting(a, b)
        /\ Waiting(n, m) = InMsgCh(n, m) \cup {x} /\ Waiting(n, m)' = InMsgCh(n, m)
        /\ Below({x}, InMsgCh(n, m))
    BY ZenonT(60), <1>3, AddressDone
  <1>5. x \in Nat /\ x <= sentBy[n]
    BY <1>1, LinkTypes DEF SenderOK
  <1> HIDE DEF x
  <1>6. Range(<<x>>) = {x} /\ Rising(<<x>>) /\ Range(<<>>) = {}
    BY DEF Range, Rising
  <1>7. InRecv(n, m)' = InRecv(n, m) /\ RecvRising(n, m)'
    BY <1>1, <1>3, RecvKept DEF PlacesRise
  <1>8. Arriving(n, m)' = Arriving(n, m) /\ Past(n, m)' = Past(n, m) /\ Due(n, m)' = Due(n, m)
    BY ZenonT(60), <1>3, <1>7 DEF Arriving, Past, Due
  <1>9. Arriving(n, m) = {} /\ Range(connCh[n][m]) = {} /\ InMsgCh(n, m) \cup {x} = Due(n, m)
    BY ZenonT(60), <1>1, <1>3, <1>4, <1>6 DEF NothingMissing
  <1>10. PlacesRise(n, m)'
    BY ZenonT(60), <1>1, <1>2, <1>3, <1>5, <1>6, <1>7, <1>9 DEF PlacesRise
  <1>11. PlacesInOrder(n, m)'
    BY ZenonT(60), <1>1, <1>2, <1>3, <1>4, <1>6, <1>7, <1>8, <1>9 DEF PlacesInOrder, Below
  <1>12. NothingMissing(n, m)'
    BY ZenonT(60), <1>1, <1>2, <1>3, <1>4, <1>6, <1>8, <1>9 DEF NothingMissing
  <1>13. ASSUME NEW a \in Node, NEW b \in Node PROVE LinkOK(a, b)'
    <2>1. CASE a = n /\ b = m
      BY <2>1, <1>10, <1>11, <1>12 DEF LinkOK
    <2>2. CASE a # n \/ b # m
      BY ZenonT(60), <2>2, <1>2, <1>3, <1>4, OtherLinks
    <2> QED
      BY <2>1, <2>2
  <1> QED
    BY ZenonT(60), <1>2, <1>4, <1>13 DEF NetInv

\* The message left out is the next one for m.
LEMMA ConnectFailsInv ==
    ASSUME NetInv, NEW n \in Node, NEW m \in Node, ConnectFails(n, m)
    PROVE  NetInv' /\ Abstract!Skip(n, m)
  <1> DEFINE x == fan[n].msg
  <1>1. NetTypeOK /\ SenderOK(n) /\ PlacesRise(n, m) /\ PlacesInOrder(n, m) /\ NothingMissing(n, m)
    BY DEF NetInv, LinkOK
  <1>2. /\ NetTypeOK' /\ failed[n][m] \in Nat /\ failed'[n][m] = failed[n][m] + 1
        /\ \A a, b \in Node : a # n \/ b # m => failed'[a][b] = failed[a][b]
    BY ZenonT(60), <1>1, ConnectFailsTypes
  <1>3. /\ UNCHANGED <<sent, delivered, sentBy, msgCh, conns, connCh, wire, recv>>
        /\ At(n, m) /\ NextAddress(n) /\ conns[n][m] = "none"
        /\ failed' = [failed EXCEPT ![n][m] = @ + 1]
    BY DEF ConnectFails
  <1>4. /\ \A a \in Node : SenderOK(a)'
        /\ \A a, b \in Node : a # n \/ b # m => Waiting(a, b)' = Waiting(a, b)
        /\ Waiting(n, m) = InMsgCh(n, m) \cup {x} /\ Waiting(n, m)' = InMsgCh(n, m)
        /\ Below({x}, InMsgCh(n, m))
    BY ZenonT(60), <1>3, AddressDone
  <1>5. /\ x \in Nat /\ sent[n][m] \in Seq(Nat) /\ Past(n, m) \in Nat /\ Due(n, m) \subseteq Nat
        /\ Len(delivered[n][m]) \in Nat
    BY <1>1, LinkTypes
  <1> HIDE DEF x
  <1>6. /\ Arriving(n, m) = {} /\ Range(connCh[n][m]) = {} /\ delivered[n][m] = <<>>
        /\ InMsgCh(n, m) \cup {x} = Due(n, m)
    <2>1. Range(<<>>) = {}
      BY DEF Range
    <2> QED
      BY <2>1, <1>1, <1>3, <1>4 DEF NothingMissing
  <1>7. Past(n, m) < Len(sent[n][m]) /\ x = sent[n][m][Past(n, m) + 1]
    <2>1. x \in Rest(sent[n][m], Past(n, m)) /\ Rising(sent[n][m])
      BY ZenonT(60), <1>1, <1>6 DEF Due, PlacesRise
    <2>2. \A y \in Due(n, m) : ~(y < x)
      BY <1>4, <1>5, <1>6 DEF Below
    <2> QED
      BY <2>1, <2>2, <1>5, RestFirst DEF Due
  <1>8. Past(n, m)' = Past(n, m) + 1
    <2>1. failed'[n][m] = failed[n][m] + 1 /\ delivered'[n][m] = delivered[n][m]
      BY <1>2, <1>3
    <2>2. failed[n][m] \in Nat /\ Len(delivered[n][m]) \in Nat
      BY ZenonT(60), <1>2, <1>5
    <2>3. Past(n, m)' = (failed[n][m] + 1) + Len(delivered[n][m])
      BY <2>1 DEF Past
    <2> QED
      BY <2>2, <2>3 DEF Past
  <1>9. Due(n, m)' = Due(n, m) \ {x}
    BY ZenonT(60), <1>1, <1>3, <1>5, <1>7, <1>8, RestNext DEF Due, PlacesRise
  <1>10. x \notin InMsgCh(n, m) /\ Due(n, m)' = InMsgCh(n, m)
    <2>1. x \notin InMsgCh(n, m)
      BY <1>4, <1>5 DEF Below
    <2> QED
      BY ZenonT(60), <2>1, <1>6, <1>9
  <1>11. InRecv(n, m)' = InRecv(n, m) /\ RecvRising(n, m)' /\ Arriving(n, m)' = Arriving(n, m)
    BY <1>1, <1>3, RecvKept DEF PlacesRise, Arriving
  <1>12. PlacesRise(n, m)'
    BY <1>1, <1>3, <1>11 DEF PlacesRise
  <1>13. PlacesInOrder(n, m)'
    BY ZenonT(60), <1>1, <1>3, <1>4, <1>6, <1>11 DEF PlacesInOrder, Below
  <1>14. NothingMissing(n, m)'
    <2>1. Past(n, m)' <= Len(sent'[n][m])
      BY <1>3, <1>5, <1>7, <1>8
    <2> QED
      BY <2>1, <1>1, <1>3, <1>4, <1>6, <1>10, <1>11 DEF NothingMissing
  <1>15. ASSUME NEW a \in Node, NEW b \in Node PROVE LinkOK(a, b)'
    <2>1. CASE a = n /\ b = m
      BY <2>1, <1>12, <1>13, <1>14 DEF LinkOK
    <2>2. CASE a # n \/ b # m
      BY ZenonT(60), <2>2, <1>2, <1>3, <1>4, OtherLinks
    <2> QED
      BY <2>1, <2>2
  <1>16. NetInv'
    BY <1>2, <1>4, <1>15 DEF NetInv
  <1>17. Abstract!Skip(n, m)
    <2>1. Abstract!Position(n, m) = Past(n, m) + 1
      BY DEF Abstract!Position, Past
    <2>2. Abstract!Position(n, m) <= Len(sent[n][m])
      BY <2>1, <1>5, <1>7
    <2> QED
      BY <2>2, <1>3, <1>6 DEF Abstract!Skip
  <1> QED
    BY ZenonT(60), <1>16, <1>17

\* What is written is next on the way, or dropped when nothing arrives any more.
LEMMA WriteInv ==
    ASSUME NetInv, NEW n \in Node, NEW m \in Node, Write(n, m)
    PROVE  NetInv'
  <1> DEFINE x == Head(connCh[n][m])
             C == Range(Tail(connCh[n][m]))
  <1>1. NetTypeOK /\ PlacesRise(n, m) /\ PlacesInOrder(n, m) /\ NothingMissing(n, m)
    BY ZenonT(60) DEF NetInv, LinkOK
  <1>2. /\ NetTypeOK'
        /\ connCh[n][m] \in Seq(Nat) /\ wire[n][m] \in Seq(Nat) /\ connCh[n][m] # <<>>
        /\ connCh'[n][m] = Tail(connCh[n][m])
        /\ \/ conns[n][m] = "up" /\ wire'[n][m] = Append(wire[n][m], x)
           \/ conns[n][m] = "broken" /\ wire'[n][m] = wire[n][m]
        /\ \A a, b \in Node : a # n \/ b # m =>
               connCh'[a][b] = connCh[a][b] /\ wire'[a][b] = wire[a][b]
    BY ZenonT(60), <1>1, WriteTypes
  <1>3. UNCHANGED <<sent, failed, delivered, sentBy, msgCh, fan, conns, recv>>
    BY DEF Write, history
  <1>4. /\ \A a \in Node : SenderOK(a)'
        /\ \A a, b \in Node : Waiting(a, b)' = Waiting(a, b)
    BY <1>3, SenderKept, WaitingKept DEF NetInv
  <1>5. /\ x \in Nat /\ Range(connCh[n][m]) = C \cup {x} /\ Range(connCh'[n][m]) = C
        /\ Rising(connCh'[n][m]) /\ Below({x}, C) /\ C \subseteq Nat
    <2>1. /\ x \in Nat /\ Range(connCh[n][m]) = C \cup {x} /\ Range(connCh'[n][m]) = C
          /\ connCh'[n][m] \in Seq(Nat)
      BY ZenonT(60), <1>2, TailFacts
    <2>2. Rising(connCh'[n][m]) /\ Below({x}, C)
      BY ZenonT(60), <1>1, <1>2, TailRising DEF PlacesRise
    <2> QED
      BY ZenonT(60), <2>1, <2>2, RangeType
  <1> HIDE DEF x, C
  <1>6. /\ Waiting(n, m) \subseteq Nat /\ Arriving(n, m) \subseteq Nat /\ Due(n, m) \subseteq Nat
        /\ InRecv(n, m) \subseteq Nat
    BY ZenonT(60), <1>1, LinkTypes
  <1>7. InRecv(n, m)' = InRecv(n, m) /\ RecvRising(n, m)'
    BY <1>1, <1>3, RecvKept DEF PlacesRise
  <1>8. Past(n, m)' = Past(n, m) /\ Due(n, m)' = Due(n, m)
    BY <1>3 DEF Past, Due
  <1>9. /\ Below(Arriving(n, m), C \cup {x}) /\ Below(Arriving(n, m) \cup C \cup {x}, Waiting(n, m))
        /\ Below(InRecv(n, m), Range(wire[n][m]))
    BY <1>1, <1>5 DEF PlacesInOrder
  <1>10. ASSUME conns[n][m] = "up", wire'[n][m] = Append(wire[n][m], x)
         PROVE  LinkOK(n, m)'
    <2>1. Range(wire'[n][m]) = Range(wire[n][m]) \cup {x}
      BY <1>2, <1>5, <1>10, AppendRange
    <2>2. Arriving(n, m)' = Arriving(n, m) \cup {x}
      BY <2>1, <1>7 DEF Arriving
    <2>3. Range(wire[n][m]) \subseteq Arriving(n, m) /\ InRecv(n, m) \subseteq Arriving(n, m)
      BY ZenonT(60) DEF Arriving
    <2>4. Rising(wire'[n][m])
      <3>1. Below(Range(wire[n][m]), {x})
        BY ZenonT(60), <2>3, <1>9 DEF Below
      <3> QED
        BY ZenonT(60), <3>1, <1>1, <1>2, <1>5, <1>10, AppendRising DEF PlacesRise
    <2>5. PlacesRise(n, m)'
      BY ZenonT(60), <2>4, <1>1, <1>3, <1>5, <1>7 DEF PlacesRise
    <2>6. PlacesInOrder(n, m)'
      <3>1. Below(InRecv(n, m), Range(wire[n][m]) \cup {x})
        BY <2>3, <1>9 DEF Below
      <3>2. Below(Arriving(n, m) \cup {x}, C)
        BY <1>5, <1>9 DEF Below
      <3>3. Below(Arriving(n, m) \cup {x} \cup C, Waiting(n, m))
        BY ZenonT(60), <1>9 DEF Below
      <3> QED
        BY ZenonT(60), <3>1, <3>2, <3>3, <2>1, <2>2, <1>4, <1>5, <1>7 DEF PlacesInOrder
    <2>7. NothingMissing(n, m)'
      <3>1. Arriving(n, m) \cup C \cup {x} \cup Waiting(n, m) = Due(n, m)
        BY ZenonT(60), <1>1, <1>5, <1>10 DEF NothingMissing
      <3>2. \A y \in Due(n, m) : y < x => y \in Arriving(n, m)
        <4>1. \A y \in C \cup {x} \cup Waiting(n, m) : ~(y < x)
          BY <1>5, <1>6, <1>9 DEF Below
        <4> QED
          BY ZenonT(60), <4>1, <3>1
      <3> QED
        BY ZenonT(60), <3>1, <3>2, <2>2, <1>1, <1>3, <1>4, <1>5, <1>8, <1>10 DEF NothingMissing
    <2> QED
      BY ZenonT(60), <2>5, <2>6, <2>7 DEF LinkOK
  <1>11. ASSUME conns[n][m] = "broken", wire'[n][m] = wire[n][m]
         PROVE  LinkOK(n, m)'
    <2>1. Arriving(n, m)' = Arriving(n, m)
      BY ZenonT(60), <1>7, <1>11 DEF Arriving
    <2>2. PlacesRise(n, m)'
      BY ZenonT(60), <1>1, <1>3, <1>5, <1>7, <1>11 DEF PlacesRise
    <2>3. PlacesInOrder(n, m)'
      BY ZenonT(60), <2>1, <1>4, <1>5, <1>7, <1>9, <1>11 DEF PlacesInOrder, Below
    <2>4. NothingMissing(n, m)'
      BY ZenonT(60), <2>1, <1>1, <1>3, <1>8, <1>11 DEF NothingMissing
    <2> QED
      BY <2>2, <2>3, <2>4 DEF LinkOK
  <1>12. ASSUME NEW a \in Node, NEW b \in Node PROVE LinkOK(a, b)'
    <2>1. CASE a = n /\ b = m
      BY ZenonT(60), <2>1, <1>2, <1>10, <1>11
    <2>2. CASE a # n \/ b # m
      BY ZenonT(60), <2>2, <1>2, <1>3, <1>4, OtherLinks
    <2> QED
      BY <2>1, <2>2
  <1> QED
    BY ZenonT(60), <1>2, <1>4, <1>12 DEF NetInv

\* A prefix of what is on the connection is the first part of what is due.
LEMMA BreakInv ==
    ASSUME NetInv, NEW n \in Node, NEW m \in Node, Break(n, m)
    PROVE  NetInv'
  <1>1. NetTypeOK /\ PlacesRise(n, m) /\ PlacesInOrder(n, m) /\ NothingMissing(n, m)
    BY DEF NetInv, LinkOK
  <1>2. /\ NetTypeOK' /\ wire[n][m] \in Seq(Nat) /\ conns'[n][m] = "broken"
        /\ \E k \in 0..Len(wire[n][m]) : wire'[n][m] = SubSeq(wire[n][m], 1, k)
        /\ \A a, b \in Node : a # n \/ b # m =>
               conns'[a][b] = conns[a][b] /\ wire'[a][b] = wire[a][b]
    BY <1>1, BreakTypes
  <1>3. UNCHANGED <<sent, failed, delivered, sentBy, msgCh, fan, connCh, recv>>
    BY ZenonT(60) DEF Break, history
  <1>4. /\ \A a \in Node : SenderOK(a)'
        /\ \A a, b \in Node : Waiting(a, b)' = Waiting(a, b)
    BY <1>3, SenderKept, WaitingKept DEF NetInv
  <1> DEFINE W == Range(wire[n][m])
             V == Range(wire'[n][m])
  <1>5. Rising(wire'[n][m]) /\ V \subseteq W /\ Below(V, W \ V)
    BY ZenonT(60), <1>1, <1>2, PrefixFacts DEF PlacesRise
  <1>6. InRecv(n, m)' = InRecv(n, m) /\ RecvRising(n, m)'
    BY ZenonT(60), <1>1, <1>3, RecvKept DEF PlacesRise
  <1>7. Arriving(n, m) = InRecv(n, m) \cup W /\ Arriving(n, m)' = InRecv(n, m) \cup V
    BY ZenonT(60), <1>6 DEF Arriving
  <1>8. W \subseteq Nat /\ InRecv(n, m) \subseteq Nat /\ Past(n, m)' = Past(n, m) /\ Due(n, m)' = Due(n, m)
    BY ZenonT(60), <1>1, <1>3, LinkTypes DEF Past, Due
  <1> HIDE DEF W, V
  <1>9. PlacesRise(n, m)'
    BY ZenonT(60), <1>1, <1>3, <1>5, <1>6 DEF PlacesRise
  <1>10. PlacesInOrder(n, m)'
    <2>1. Below(InRecv(n, m), V)
      BY <1>1, <1>5 DEF PlacesInOrder, Below, W
    <2>2. Below(InRecv(n, m) \cup V, Range(connCh[n][m]))
      BY ZenonT(60), <1>1, <1>5, <1>7 DEF PlacesInOrder, Below
    <2>3. Below(InRecv(n, m) \cup V \cup Range(connCh[n][m]), Waiting(n, m))
      BY ZenonT(60), <1>1, <1>5, <1>7 DEF PlacesInOrder, Below
    <2> QED
      BY ZenonT(60), <2>1, <2>2, <2>3, <1>3, <1>4, <1>6, <1>7 DEF PlacesInOrder, V
  <1>11. NothingMissing(n, m)'
    <2>1. ASSUME NEW x \in InRecv(n, m) \cup V, NEW y \in Due(n, m), y < x
          PROVE  y \in InRecv(n, m) \cup V
      <3>1. y \in InRecv(n, m) \cup W
        BY <2>1, <1>1, <1>5, <1>7 DEF NothingMissing
      <3>2. y \notin W \ V
        <4> SUFFICES ASSUME y \in W \ V PROVE FALSE
          OBVIOUS
        <4>1. x < y
          BY ZenonT(60), <1>1, <1>5 DEF PlacesInOrder, Below, W
        <4>2. x \in Nat /\ y \in Nat
          BY ZenonT(60), <1>5, <1>8
        <4> QED
          BY <4>1, <4>2, <2>1
      <3> QED
        BY <3>1, <3>2
    <2> QED
      BY ZenonT(60), <2>1, <1>1, <1>2, <1>3, <1>5, <1>7, <1>8 DEF NothingMissing
  <1>12. ASSUME NEW a \in Node, NEW b \in Node PROVE LinkOK(a, b)'
    <2>1. CASE a = n /\ b = m
      BY <2>1, <1>9, <1>10, <1>11 DEF LinkOK
    <2>2. CASE a # n \/ b # m
      BY ZenonT(60), <2>2, <1>2, <1>3, <1>4, OtherLinks
    <2> QED
      BY <2>1, <2>2
  <1> QED
    BY ZenonT(60), <1>2, <1>4, <1>12 DEF NetInv

LEMMA serveConnInv ==
    ASSUME NetInv, NEW n \in Node, NEW m \in Node, serveConn(n, m)
    PROVE  NetInv'
  <1> DEFINE x == Head(wire[n][m])
             e == [from |-> n, msg |-> x]
             W == Range(Tail(wire[n][m]))
             L == Len(recv[m])
  <1>1. NetTypeOK /\ PlacesRise(n, m) /\ PlacesInOrder(n, m) /\ NothingMissing(n, m)
    BY DEF NetInv, LinkOK
  <1>2. /\ NetTypeOK'
        /\ wire[n][m] \in Seq(Nat) /\ wire[n][m] # <<>>
        /\ wire'[n][m] = Tail(wire[n][m]) /\ recv'[m] = Append(recv[m], e)
        /\ \A b \in Node : b # m => recv'[b] = recv[b]
        /\ \A a, b \in Node : a # n \/ b # m => wire'[a][b] = wire[a][b]
    BY <1>1, serveConnTypes
  <1>3. UNCHANGED <<sent, failed, delivered, sentBy, msgCh, fan, conns, connCh>>
    BY ZenonT(60) DEF serveConn, history
  <1>4. /\ \A a \in Node : SenderOK(a)'
        /\ \A a, b \in Node : Waiting(a, b)' = Waiting(a, b)
    BY <1>3, SenderKept, WaitingKept DEF NetInv
  <1>5. /\ x \in Nat /\ Range(wire[n][m]) = W \cup {x} /\ Range(wire'[n][m]) = W
        /\ Rising(wire'[n][m]) /\ Below({x}, W)
    <2>1. x \in Nat /\ Range(wire[n][m]) = W \cup {x} /\ Range(wire'[n][m]) = W
      BY ZenonT(60), <1>2, TailFacts
    <2>2. Rising(wire'[n][m]) /\ Below({x}, W)
      BY ZenonT(60), <1>1, <1>2, TailRising DEF PlacesRise
    <2> QED
      BY ZenonT(60), <2>1, <2>2
  <1>6. e.from = n /\ e.msg = x /\ e \in Arrival
    BY <1>5 DEF Arrival
  <1> HIDE DEF x, e, W
  <1>7. /\ L \in Nat /\ Len(recv'[m]) = L + 1 /\ recv'[m][L + 1] = e
        /\ \A k \in 1..L : recv'[m][k] = recv[m][k] /\ k \in 1..(L + 1)
        /\ \A k \in 1..(L + 1) : k \in 1..L \/ k = L + 1
        /\ L + 1 \in 1..(L + 1)
    <2>1. recv[m] \in Seq(Arrival)
      BY <1>1 DEF NetTypeOK
    <2> QED
      BY <2>1, <1>2, <1>6
  <1> HIDE DEF L
  <1>8. ASSUME NEW a \in Node, NEW k
        PROVE  k \in From(a, m)' <=> k \in From(a, m) \/ (a = n /\ k = L + 1)
    BY <1>6, <1>7 DEF From, L
  <1>9. ASSUME NEW a \in Node, a # n
        PROVE  InRecv(a, m)' = InRecv(a, m) /\ RecvRising(a, m)'
    <2>1. From(a, m)' = From(a, m) /\ From(a, m) \subseteq 1..L
      BY <1>8, <1>9 DEF From, L
    <2>2. RecvRising(a, m)
      BY DEF NetInv, LinkOK, PlacesRise
    <2> QED
      BY <2>1, <2>2, <1>7 DEF InRecv, RecvRising
  <1>10. InRecv(n, m)' = InRecv(n, m) \cup {x}
    <2>1. From(n, m) \subseteq 1..L
      BY DEF From, L
    <2>2. ASSUME NEW y PROVE y \in InRecv(n, m)' <=> y \in InRecv(n, m) \/ y = x
      BY <2>1, <1>6, <1>7, <1>8, Zenon DEF InRecv
    <2> QED
      BY <2>2
  <1>11. RecvRising(n, m)'
    <2> SUFFICES ASSUME NEW i \in From(n, m)', NEW j \in From(n, m)', i < j
                 PROVE  recv'[m][i].msg < recv'[m][j].msg
      BY ZenonT(60) DEF RecvRising
    <2>1. i \in From(n, m) /\ i \in 1..L
      <3>1. i \in 1..(L + 1) /\ j \in 1..(L + 1)
        BY <1>7 DEF From
      <3>2. i # L + 1
        BY <3>1, <1>7
      <3> QED
        BY <3>2, <1>8 DEF From, L
    <2>2. CASE j \in From(n, m)
      <3>1. j \in 1..L
        BY <2>2 DEF From, L
      <3> QED
        BY ZenonT(60), <2>1, <2>2, <3>1, <1>1, <1>7 DEF PlacesRise, RecvRising
    <2>3. CASE j = L + 1
      <3>1. recv[m][i].msg < x
        BY ZenonT(60), <2>1, <1>1, <1>5 DEF PlacesInOrder, Below, InRecv
      <3> QED
        BY ZenonT(60), <3>1, <2>1, <2>3, <1>6, <1>7
    <2> QED
      BY <2>2, <2>3, <1>8
  <1>12. Arriving(n, m)' = Arriving(n, m)
    BY ZenonT(60), <1>5, <1>10 DEF Arriving
  <1>13. Past(n, m)' = Past(n, m) /\ Due(n, m)' = Due(n, m)
    BY <1>3 DEF Past, Due
  <1>14. PlacesRise(n, m)'
    BY ZenonT(60), <1>1, <1>3, <1>5, <1>11 DEF PlacesRise
  <1>15. PlacesInOrder(n, m)'
    <2>1. Below(InRecv(n, m) \cup {x}, W)
      BY ZenonT(60), <1>1, <1>5 DEF PlacesInOrder, Below
    <2> QED
      BY ZenonT(60), <2>1, <1>1, <1>3, <1>4, <1>5, <1>10, <1>12 DEF PlacesInOrder
  <1>16. NothingMissing(n, m)'
    BY ZenonT(60), <1>1, <1>3, <1>4, <1>12, <1>13 DEF NothingMissing
  <1>17. ASSUME NEW a \in Node, NEW b \in Node PROVE LinkOK(a, b)'
    <2>1. CASE a = n /\ b = m
      BY <2>1, <1>14, <1>15, <1>16 DEF LinkOK
    <2>2. CASE a # n \/ b # m
      <3>1. InRecv(a, b)' = InRecv(a, b) /\ RecvRising(a, b)'
        <4>1. CASE b = m
          BY ZenonT(60), <4>1, <2>2, <1>9
        <4>2. CASE b # m
          BY ZenonT(60), <4>2, <1>2, RecvKept DEF NetInv, LinkOK, PlacesRise
        <4> QED
          BY <4>1, <4>2
      <3>2. sentBy[a] <= sentBy'[a]
        BY <1>1, <1>3, LinkTypes
      <3> QED
        BY ZenonT(60), <3>1, <3>2, <2>2, <1>2, <1>3, <1>4, LinkKept
    <2> QED
      BY <2>1, <2>2
  <1> QED
    BY ZenonT(60), <1>2, <1>4, <1>17 DEF NetInv

LEMMA RestartInv ==
    ASSUME NetInv, NEW m \in Node, Restart(m)
    PROVE  NetInv'
  <1>1. NetTypeOK
    BY ZenonT(60) DEF NetInv
  <1>2. /\ NetTypeOK' /\ recv'[m] = <<>>
        /\ \A a \in Node : /\ wire'[a][m] = <<>>
                           /\ conns'[a][m] = IF conns[a][m] = "up" THEN "broken" ELSE conns[a][m]
        /\ \A a, b \in Node : b # m => /\ wire'[a][b] = wire[a][b]
                                       /\ conns'[a][b] = conns[a][b]
                                       /\ recv'[b] = recv[b]
    BY ZenonT(60), <1>1, RestartTypes
  <1>3. UNCHANGED <<sent, failed, delivered, sentBy, msgCh, fan, connCh>>
    BY DEF Restart, history
  <1>4. /\ \A a \in Node : SenderOK(a)'
        /\ \A a, b \in Node : Waiting(a, b)' = Waiting(a, b)
    BY ZenonT(60), <1>3, SenderKept, WaitingKept DEF NetInv
  <1>5. ASSUME NEW a \in Node, NEW b \in Node, b # m PROVE LinkOK(a, b)'
    <2>1. InRecv(a, b)' = InRecv(a, b) /\ RecvRising(a, b)'
      BY ZenonT(60), <1>2, <1>5, RecvKept DEF NetInv, LinkOK, PlacesRise
    <2>2. sentBy[a] <= sentBy'[a]
      BY <1>1, <1>3, LinkTypes
    <2> QED
      BY ZenonT(60), <2>1, <2>2, <1>2, <1>3, <1>4, <1>5, LinkKept
  <1>6. ASSUME NEW a \in Node PROVE LinkOK(a, m)'
    <2>1. PlacesRise(a, m) /\ PlacesInOrder(a, m) /\ NothingMissing(a, m)
      BY DEF NetInv, LinkOK
    <2>2. Range(<<>>) = {} /\ Rising(<<>>)
      BY DEF Range, Rising
    <2>3. From(a, m)' = {} /\ InRecv(a, m)' = {} /\ RecvRising(a, m)'
      BY <1>2 DEF From, InRecv, RecvRising
    <2>4. Range(wire'[a][m]) = {} /\ Rising(wire'[a][m]) /\ Arriving(a, m)' = {}
      BY ZenonT(60), <1>2, <2>2, <2>3 DEF Arriving
    <2>5. Past(a, m)' = Past(a, m) /\ Due(a, m)' = Due(a, m)
      BY ZenonT(60), <1>3 DEF Past, Due
    <2>6. PlacesRise(a, m)'
      BY ZenonT(60), <2>1, <2>3, <2>4, <1>3 DEF PlacesRise
    <2>7. PlacesInOrder(a, m)'
      BY ZenonT(60), <2>1, <2>3, <2>4, <1>3, <1>4 DEF PlacesInOrder, Below
    <2>8. NothingMissing(a, m)'
      <3>1. conns'[a][m] # "broken" => conns[a][m] = "none" /\ conns'[a][m] = "none"
        BY ZenonT(60), <1>1, <1>2, LinkTypes
      <3>2. conns'[a][m] = "none" => conns[a][m] = "none"
        BY <1>2
      <3> QED
        BY ZenonT(60), <3>1, <3>2, <2>1, <2>2, <2>4, <2>5, <1>3, <1>4 DEF NothingMissing
    <2> QED
      BY <2>6, <2>7, <2>8 DEF LinkOK
  <1>7. \A a, b \in Node : LinkOK(a, b)'
    BY <1>5, <1>6
  <1> QED
    BY <1>2, <1>4, <1>7 DEF NetInv

\* What m takes is the next message of its sender.
LEMMA RecvInv ==
    ASSUME NetInv, NEW m \in Node, Recv(m)
    PROVE  NetInv' /\ \E n \in Node : Abstract!Deliver(n, m)
  <1>1. NetTypeOK
    BY DEF NetInv
  <1>2. /\ NetTypeOK'
        /\ recv[m] \in Seq(Arrival) /\ recv[m] # <<>> /\ recv'[m] = Tail(recv[m])
        /\ \A b \in Node : b # m => recv'[b] = recv[b]
    BY <1>1, RecvTypes
  <1>3. PICK n \in Node, x \in Nat :
           /\ n = Head(recv[m]).from /\ x = Head(recv[m]).msg
           /\ delivered[n][m] \in Seq(Nat)
           /\ delivered' = [delivered EXCEPT ![n][m] = Append(@, x)]
           /\ delivered'[n][m] = Append(delivered[n][m], x)
           /\ \A a, b \in Node : a # n \/ b # m => delivered'[a][b] = delivered[a][b]
    BY ZenonT(60), <1>1, RecvTypes
  <1>4. UNCHANGED <<sent, failed, sentBy, msgCh, fan, conns, connCh, wire>>
    BY DEF Recv
  <1>5. /\ \A a \in Node : SenderOK(a)'
        /\ \A a, b \in Node : Waiting(a, b)' = Waiting(a, b)
    BY <1>4, SenderKept, WaitingKept DEF NetInv
  <1> DEFINE L == Len(recv[m])
  <1>6. /\ L \in Nat \ {0} /\ Len(recv'[m]) = L - 1 /\ 1 \in 1..L
        /\ recv[m][1].from = n /\ recv[m][1].msg = x
        /\ \A k \in 1..(L - 1) : k + 1 \in 1..L /\ recv'[m][k] = recv[m][k + 1]
        /\ \A k \in 1..L : k = 1 \/ (k - 1 \in 1..(L - 1) /\ recv[m][k] = recv'[m][k - 1])
    <2>1. /\ L \in Nat \ {0} /\ Len(recv'[m]) = L - 1 /\ Head(recv[m]) = recv[m][1]
          /\ \A k \in 1..(L - 1) : k + 1 \in 1..L /\ recv'[m][k] = recv[m][k + 1]
          /\ \A k \in 1..L : k = 1 \/ (k - 1 \in 1..(L - 1) /\ recv[m][k] = recv'[m][k - 1])
      BY <1>2, TailFacts
    <2>2. recv[m][1].from = n /\ recv[m][1].msg = x
      BY <2>1, <1>3, Zenon
    <2> QED
      BY <2>1, <2>2
  <1>7. ASSUME NEW a \in Node PROVE RecvRising(a, m)'
    <2>1. RecvRising(a, m)
      BY DEF NetInv, LinkOK, PlacesRise
    <2> SUFFICES ASSUME NEW i \in From(a, m)', NEW j \in From(a, m)', i < j
                 PROVE  recv'[m][i].msg < recv'[m][j].msg
      BY DEF RecvRising
    <2>2. i \in 1..(L - 1) /\ j \in 1..(L - 1) /\ recv'[m][i].from = a /\ recv'[m][j].from = a
      BY <1>6 DEF From
    <2>3. i + 1 \in From(a, m) /\ j + 1 \in From(a, m)
      BY ZenonT(60), <2>2, <1>6 DEF From
    <2>4. i + 1 < j + 1
      BY <2>2
    <2> QED
      BY ZenonT(60), <2>1, <2>2, <2>3, <2>4, <1>6 DEF RecvRising
  <1>8. ASSUME NEW a \in Node PROVE InRecv(a, m)' \subseteq InRecv(a, m)
    <2> SUFFICES ASSUME NEW y \in InRecv(a, m)' PROVE y \in InRecv(a, m)
      OBVIOUS
    <2>1. PICK k \in 1..(L - 1) : recv'[m][k].from = a /\ y = recv'[m][k].msg
      BY <1>6 DEF InRecv, From
    <2> QED
      BY ZenonT(60), <2>1, <1>6 DEF InRecv, From
  <1>9. ASSUME NEW a \in Node, NEW y \in InRecv(a, m) PROVE y \in InRecv(a, m)' \/ (a = n /\ y = x)
    <2>1. PICK k \in 1..L : recv[m][k].from = a /\ y = recv[m][k].msg
      BY <1>9 DEF InRecv, From
    <2>2. CASE k = 1
      BY ZenonT(60), <2>1, <2>2, <1>6
    <2>3. CASE k - 1 \in 1..(L - 1) /\ recv[m][k] = recv'[m][k - 1]
      BY ZenonT(60), <2>1, <2>3, <1>6 DEF InRecv, From
    <2> QED
      BY <2>2, <2>3, <1>6
  <1>10. x \in InRecv(n, m) /\ Below({x}, InRecv(n, m)')
    <2>1. 1 \in From(n, m)
      BY <1>6 DEF From
    <2>2. ASSUME NEW y \in InRecv(n, m)' PROVE x < y
      <3>1. PICK k \in 1..(L - 1) : recv'[m][k].from = n /\ y = recv'[m][k].msg
        BY <1>6 DEF InRecv, From
      <3>2. k + 1 \in From(n, m) /\ 1 < k + 1 /\ y = recv[m][k + 1].msg
        BY <3>1, <1>6 DEF From
      <3> QED
        BY <2>1, <3>2, <1>6 DEF NetInv, LinkOK, PlacesRise, RecvRising
    <2> QED
      BY <2>1, <2>2, <1>6 DEF InRecv, Below
  <1> HIDE DEF L
  <1>11. PlacesRise(n, m) /\ PlacesInOrder(n, m) /\ NothingMissing(n, m)
    BY ZenonT(60) DEF NetInv, LinkOK
  <1>12. /\ sent[n][m] \in Seq(Nat) /\ Past(n, m) \in Nat /\ Due(n, m) \subseteq Nat
         /\ failed[n][m] \in Nat
         /\ Arriving(n, m) \subseteq Nat /\ InRecv(n, m) \subseteq Nat /\ Range(wire[n][m]) \subseteq Nat
         /\ Range(connCh[n][m]) \subseteq Nat /\ Waiting(n, m) \subseteq Nat
    BY ZenonT(60), <1>1, LinkTypes
  <1>13. InRecv(n, m)' = InRecv(n, m) \ {x} /\ Arriving(n, m)' = Arriving(n, m) \ {x}
         /\ x \in Arriving(n, m)
    <2>1. x \notin InRecv(n, m)' /\ x \notin Range(wire[n][m])
      BY <1>10, <1>11 DEF PlacesInOrder, Below
    <2> QED
      BY ZenonT(60), <2>1, <1>4, <1>8, <1>9, <1>10 DEF Arriving
  <1>14. Past(n, m) < Len(sent[n][m]) /\ x = sent[n][m][Past(n, m) + 1]
    <2>1. x \in Due(n, m) /\ Rising(sent[n][m])
      BY ZenonT(60), <1>11, <1>13 DEF NothingMissing, PlacesRise
    <2>2. \A y \in Arriving(n, m) : ~(y < x)
      <3>1. \A y \in Arriving(n, m) : y = x \/ x < y
        BY ZenonT(60), <1>8, <1>9, <1>10, <1>11 DEF Arriving, PlacesInOrder, Below
      <3> QED
        BY <3>1, <1>12
    <2>3. \A y \in Due(n, m) : ~(y < x)
      BY <2>2, <1>11, <1>13 DEF NothingMissing
    <2> QED
      BY ZenonT(60), <2>1, <2>3, <1>12, RestFirst DEF Due
  <1>15. Past(n, m)' = Past(n, m) + 1
    <2>1. delivered[n][m] \in Seq(Nat) /\ delivered'[n][m] = Append(delivered[n][m], x)
      BY <1>3, Zenon
    <2>2. /\ Len(delivered[n][m]) \in Nat /\ Len(delivered'[n][m]) = Len(delivered[n][m]) + 1
          /\ failed[n][m] \in Nat
      BY <2>1, <1>12
    <2>3. Past(n, m)' = failed[n][m] + (Len(delivered[n][m]) + 1)
      BY ZenonT(60), <2>2, <1>4 DEF Past
    <2> QED
      BY <2>2, <2>3 DEF Past
  <1>16. Due(n, m)' = Due(n, m) \ {x}
    BY ZenonT(60), <1>4, <1>11, <1>12, <1>14, <1>15, RestNext DEF Due, PlacesRise
  <1>17. PlacesRise(n, m)'
    BY ZenonT(60), <1>4, <1>7, <1>11 DEF PlacesRise
  <1>18. PlacesInOrder(n, m)'
    BY ZenonT(60), <1>4, <1>5, <1>11, <1>13 DEF PlacesInOrder, Below
  <1>19. NothingMissing(n, m)'
    <2>1. Past(n, m)' <= Len(sent'[n][m])
      BY <1>4, <1>12, <1>14, <1>15
    <2>2. x \notin Range(connCh[n][m]) /\ x \notin Waiting(n, m)
      BY <1>11, <1>12, <1>13 DEF PlacesInOrder, Below
    <2>3. conns[n][m] # "none"
      BY <1>11, <1>13 DEF NothingMissing
    <2> QED
      BY ZenonT(60), <2>1, <2>2, <2>3, <1>4, <1>5, <1>11, <1>13, <1>16 DEF NothingMissing
  <1>20. ASSUME NEW a \in Node, NEW b \in Node PROVE LinkOK(a, b)'
    <2>1. CASE a = n /\ b = m
      BY ZenonT(60), <2>1, <1>17, <1>18, <1>19 DEF LinkOK
    <2>2. CASE a # n \/ b # m
      <3>1. InRecv(a, b)' = InRecv(a, b) /\ RecvRising(a, b)'
        <4>1. CASE b = m
          BY ZenonT(60), <4>1, <2>2, <1>7, <1>8, <1>9
        <4>2. CASE b # m
          BY ZenonT(60), <4>2, <1>2, RecvKept DEF NetInv, LinkOK, PlacesRise
        <4> QED
          BY <4>1, <4>2
      <3>2. sentBy[a] <= sentBy'[a]
        BY <1>1, <1>4, LinkTypes
      <3>3. delivered'[a][b] = delivered[a][b]
        BY ZenonT(60), <2>2, <1>3
      <3> QED
        BY <3>1, <3>2, <3>3, <1>2, <1>4, <1>5, LinkKept
    <2> QED
      BY <2>1, <2>2
  <1>21. NetInv'
    BY <1>2, <1>5, <1>20 DEF NetInv
  <1>22. Abstract!Deliver(n, m)
    <2>1. Abstract!Position(n, m) = Past(n, m) + 1
      BY DEF Abstract!Position, Past
    <2>2. Abstract!Position(n, m) <= Len(sent[n][m])
      BY <2>1, <1>12, <1>14
    <2>3. delivered' = [delivered EXCEPT ![n][m] = Append(@, sent[n][m][Abstract!Position(n, m)])]
      BY ZenonT(60), <2>1, <1>3, <1>14
    <2> QED
      BY <2>2, <2>3, <1>4 DEF Abstract!Deliver
  <1> QED
    BY <1>21, <1>22

-----------------------------------------------------------------------------
(* The theorems. *)

LinksStep ==
    \E n, m \in Node : \/ Abstract!Deliver(n, m)
                       \/ Abstract!Skip(n, m)
                       \/ \E to \in SUBSET Node : Abstract!Send(n, sentBy'[n], to)

LEMMA SendStep ==
    ASSUME NetInv, NEW n \in Node, NEW addr, Send(n, addr),
           addr \in BroadCast(n) \/ \E m \in Node \ {n} : addr = <<m>>
    PROVE  NetInv' /\ LinksStep
  <1>1. addr \in Seq(Node) /\ IsInjective(addr) /\ Range(addr) \subseteq Node
    BY AddressTypes
  <1>2. NetInv'
    BY <1>1, SendInv
  <1>3. sentBy'[n] = sentBy[n] + 1
    BY ZenonT(60), <1>1, SendTypes DEF NetInv
  <1>4. Abstract!Send(n, sentBy'[n], Range(addr))
    BY ZenonT(60), <1>3 DEF Send, Abstract!Send
  <1> QED
    BY ZenonT(60), <1>1, <1>2, <1>4 DEF LinksStep

LEMMA NextInv ==
    NetInv /\ [NetNext]_netVars => NetInv' /\ [LinksStep]_<<sent, failed, delivered>>
  <1> SUFFICES ASSUME NetInv, [NetNext]_netVars
               PROVE  NetInv' /\ [LinksStep]_<<sent, failed, delivered>>
    OBVIOUS
  <1>1. CASE UNCHANGED netVars
    <2>1. UNCHANGED <<sent, failed, delivered, sentBy, msgCh, fan, conns, connCh, wire, recv, faults>>
      BY <1>1 DEF netVars, history
    <2>2. NetTypeOK'
      BY <1>1, NextTypes DEF NetInv
    <2>3. \A n \in Node : SenderOK(n)'
      BY <2>1, SenderKept DEF NetInv
    <2>4. \A n, m \in Node : LinkOK(n, m)'
      BY <2>1, <2>2, WaitingKept, OtherLinks
    <2> QED
      BY <2>1, <2>2, <2>3, <2>4 DEF NetInv
  <1>2. ASSUME NEW n \in Node, NEW addr \in BroadCast(n), Send(n, addr) PROVE NetInv' /\ LinksStep
    BY <1>2, SendStep
  <1>3. ASSUME NEW n \in Node, NEW m \in Node \ {n}, Send(n, <<m>>) PROVE NetInv' /\ LinksStep
    BY <1>3, SendStep
  <1>4. ASSUME NEW n \in Node, Run(n) PROVE NetInv' /\ UNCHANGED <<sent, failed, delivered>>
    BY ZenonT(60), <1>4, RunInv DEF Run, history
  <1>5. ASSUME NEW n \in Node, Recv(n) PROVE NetInv' /\ LinksStep
    BY <1>5, RecvInv DEF LinksStep
  <1>6. ASSUME NEW n \in Node, Restart(n) PROVE NetInv' /\ UNCHANGED <<sent, failed, delivered>>
    BY ZenonT(60), <1>6, RestartInv DEF Restart, history
  <1>7. ASSUME NEW n \in Node, NEW m \in Node, Link(n, m)
        PROVE  NetInv' /\ UNCHANGED <<sent, failed, delivered>>
    <2>1. NetInv'
      BY <1>7, ForwardInv, ConnectInv, WriteInv, serveConnInv DEF Link
    <2> QED
      BY <2>1, <1>7 DEF Link, Forward, Connect, Write, serveConn, history
  <1>8. ASSUME NEW n \in Node, NEW m \in Node, ConnectFails(n, m) PROVE NetInv' /\ LinksStep
    BY <1>8, ConnectFailsInv DEF LinksStep
  <1>9. ASSUME NEW n \in Node, NEW m \in Node, Break(n, m)
        PROVE  NetInv' /\ UNCHANGED <<sent, failed, delivered>>
    BY ZenonT(60), <1>9, BreakInv DEF Break, history
  <1> QED
    BY ZenonT(60), <1>1, <1>2, <1>3, <1>4, <1>5, <1>6, <1>7, <1>8, <1>9 DEF NetNext

LEMMA NetInvariance == NetSpec => []NetInv
  <1>1. NetInit => NetInv
    BY InitInv
  <1>2. NetInv /\ [NetNext]_netVars => NetInv'
    BY NextInv
  <1> QED
    BY <1>1, <1>2, PTL DEF NetSpec

\* The types of the transport and the capacities of its channels (NetTypeOK).
THEOREM TransportTypes == NetSpec => []NetTypeOK
  <1>1. NetInv => NetTypeOK
    BY DEF NetInv
  <1> QED
    BY <1>1, NetInvariance, PTL

\* The transport is what module Links says.
THEOREM LinksRefinement == NetSpec => ImplementsLinks
  <1>1. NetInit => Abstract!Init
    BY DEF NetInit, Abstract!Init, Empty, Abstract!Empty
  <1>2. NetInv /\ [NetNext]_netVars => [LinksStep]_<<sent, failed, delivered>>
    BY NextInv
  <1> QED
    BY <1>1, <1>2, NetInvariance, PTL DEF NetSpec, ImplementsLinks, LinksStep

=============================================================================
