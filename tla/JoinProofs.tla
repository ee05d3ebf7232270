------------------------------ MODULE JoinProofs ------------------------------
(***************************************************************************)
(* The join of Join, for any operators, any workers of each and any number *)
(* of sockets and messages.  Three arguments, one over another: the        *)
(* messages in a socket are numbered upwards from what the join has of it  *)
(* (Numbers), for all; an operator whose sockets follow each other has a   *)
(* bind message only first in its one socket and an unbind message only    *)
(* last, so that they alternate for the join worker as they did for the    *)
(* sender (Shapes); and the places are those of operators connected, of    *)
(* all of them while that holds for all (Ordered).                         *)
(***************************************************************************)
EXTENDS Join, FiniteSetTheorems, SequenceTheorems, TLAPS

\* What a socket holds that is open (b), to a join that knows its operator (j) as
\* connected, when it is the operator's only one.
Formed(q, b, j) ==
    /\ \A i \in DOMAIN q : /\ q[i].kind = "bind" => i = 1
                           /\ q[i].kind = "unbind" => i = Len(q) /\ ~ b
    /\ q # <<>> => /\ q[1].kind = "bind" <=> ~ j
                   /\ b \/ q[Len(q)].kind = "unbind"
    /\ q = <<>> => (j <=> b)

JoinTypes ==
    /\ sockets \in [Feeder -> SUBSET Socket] /\ binds \in [Feeder -> 0..MaxBind]
    /\ wire \in [Feeder -> [Socket -> Seq(Message)]]
    /\ inConnections \in [Cid -> {"none", "true", "undefined"}]
    /\ inMessages \in [Cid -> 0..MaxMsg]
    /\ cbOrdering \in Seq(Cid)
    /\ joined \in Seq([op : Cid, n : 0..MaxMsg]) /\ joins \in Nat
    /\ made \in Seq(Feeder \X Socket) /\ Len(made) <= MaxMsg
    /\ given \subseteq 1..MaxMsg /\ crowded \subseteq Cid

\* A socket that was never bound is not open and holds nothing.
Unused ==
    \A f \in Feeder, k \in Socket :
        k > binds[f] => k \notin sockets[f] /\ wire[f][k] = <<>>

\* The messages of socket s in q are numbered upwards, behind those of it in got.
Numbered(q, s, ms, got) ==
    /\ \A i \in DOMAIN q : q[i].n # Missing =>
           /\ q[i].n \in 1..Len(ms) /\ ms[q[i].n] = s
           /\ \A m \in got : ms[m] = s => m < q[i].n
    /\ \A i, k \in DOMAIN q :
           (i < k /\ q[i].n # Missing /\ q[k].n # Missing) => q[i].n < q[k].n

\* What the join has or had.  What it has is newer than what it had of the socket.
Buffered == {inMessages[c] : c \in Cid} \ {Missing}
Got == given \cup Buffered
Numbers ==
    /\ Got \subseteq 1..Len(made)
    /\ \A n \in Buffered : \A m \in given : made[m] = made[n] => m < n
    /\ \A f \in Feeder, k \in Socket : Numbered(wire[f][k], <<f, k>>, made, Got)

\* An operator whose sockets follow each other.
ShapeOf(c) ==
    /\ \A f, g \in Feeder : \A k, l \in Socket :
           (OperatorOf[f] = c /\ OperatorOf[g] = c /\ Live(f, k) /\ Live(g, l)) => f = g /\ k = l
    /\ \A f \in Feeder, k \in Socket :
           (OperatorOf[f] = c /\ Live(f, k)) =>
               Formed(wire[f][k], k \in sockets[f], c \in Connected)
    /\ c \in Connected => Follows(c)
Shapes == \A c \in Cid \ crowded : ShapeOf(c)

Ordered ==
    /\ Range(cbOrdering) \subseteq Connected /\ IsInjective(cbOrdering)
    /\ crowded = {} => Connected \subseteq Range(cbOrdering)

JInv == JoinTypes /\ Unused /\ Numbers /\ Shapes /\ Ordered

-----------------------------------------------------------------------------
(* Sockets. *)

LEMMA Kinds ==
    /\ \A n : Data(n).kind = "data" /\ Data(n).n = n
    /\ \A s : SetUp(s).kind = s /\ SetUp(s).n = Missing
    /\ \A n \in 0..MaxMsg : Data(n) \in Message
    /\ SetUp("bind") \in Message /\ SetUp("unbind") \in Message
    /\ \A m \in Message : m.n \in 0..MaxMsg /\ m.kind \in {"data", "bind", "unbind"}
  BY JoinAssumption DEF Data, SetUp, Message, Missing

\* What an append does to the places.
LEMMA Appended ==
    ASSUME NEW S, NEW q \in Seq(S), NEW e \in S
    PROVE  /\ Append(q, e) \in Seq(S) /\ Append(q, e) # <<>>
           /\ Len(Append(q, e)) = Len(q) + 1 /\ Len(q) \in Nat
           /\ DOMAIN Append(q, e) = 1..(Len(q) + 1) /\ DOMAIN q = 1..Len(q)
           /\ Append(q, e)[Len(q) + 1] = e
           /\ \A i \in 1..(Len(q) + 1) : i # Len(q) + 1 => i \in 1..Len(q) /\ Append(q, e)[i] = q[i]
  <1>1. /\ Append(q, e) \in Seq(S) /\ Len(Append(q, e)) = Len(q) + 1 /\ Len(q) \in Nat
        /\ \A i \in 1..Len(q) : Append(q, e)[i] = q[i]
        /\ Append(q, e)[Len(q) + 1] = e
    BY AppendProperties
  <1>2. DOMAIN q = 1..Len(q) /\ DOMAIN Append(q, e) = 1..(Len(q) + 1)
    BY <1>1
  <1>3. \A i \in 1..(Len(q) + 1) : i # Len(q) + 1 => i \in 1..Len(q)
    BY <1>1
  <1>4. Append(q, e) # <<>>
    BY <1>1
  <1> QED BY <1>1, <1>2, <1>3, <1>4

\* What a tail does to them.
LEMMA Tailed ==
    ASSUME NEW S, NEW q \in Seq(S), q # <<>>
    PROVE  /\ Head(q) \in S /\ Head(q) = q[1] /\ Tail(q) \in Seq(S)
           /\ Len(q) \in Nat \ {0} /\ Len(Tail(q)) = Len(q) - 1
           /\ DOMAIN q = 1..Len(q) /\ DOMAIN Tail(q) = 1..(Len(q) - 1)
           /\ 1 \in DOMAIN q
           /\ \A i \in 1..(Len(q) - 1) : Tail(q)[i] = q[i + 1] /\ i + 1 \in DOMAIN q
           /\ Tail(q) = <<>> <=> Len(q) = 1
  <1>1. /\ Head(q) \in S /\ Head(q) = q[1] /\ Tail(q) \in Seq(S)
        /\ Len(q) \in Nat \ {0} /\ Len(Tail(q)) = Len(q) - 1
        /\ \A i \in 1..(Len(q) - 1) : Tail(q)[i] = q[i + 1]
    BY HeadTailProperties
  <1>2. DOMAIN q = 1..Len(q) /\ DOMAIN Tail(q) = 1..(Len(q) - 1)
    BY <1>1
  <1>3. 1 \in 1..Len(q) /\ \A i \in 1..(Len(q) - 1) : i + 1 \in 1..Len(q)
    BY <1>1
  <1>4. Tail(q) = <<>> <=> Len(q) = 1
    BY <1>1, EmptySeq
  <1> QED BY <1>1, <1>2, <1>3, <1>4

LEMMA FormedBind ==
    ASSUME NEW q \in Seq(Message), q = <<>>
    PROVE  Formed(Append(q, SetUp("bind")), TRUE, FALSE)
  <1> DEFINE r == Append(q, SetUp("bind"))
  <1>1. r # <<>> /\ DOMAIN r = 1..1 /\ r[1] = SetUp("bind") /\ Len(r) = 1
    <2>1. Len(q) = 0 /\ SetUp("bind") \in Message
      BY Kinds, EmptySeq
    <2> QED BY <2>1, Appended
  <1> HIDE DEF r
  <1>2. \A i \in DOMAIN r : i = 1 /\ r[i].kind = "bind"
    BY <1>1, Kinds
  <1> QED BY <1>1, <1>2 DEF Formed, r

\* A message goes into an open socket: it may be the unbind that closes it.
LEMMA FormedPut ==
    ASSUME NEW q \in Seq(Message), NEW b \in BOOLEAN, NEW j \in BOOLEAN, Formed(q, TRUE, j),
           NEW e \in Message, e.kind # "bind", e.kind = "unbind" <=> ~ b
    PROVE  Formed(Append(q, e), b, j)
  <1> DEFINE r == Append(q, e)
             n == Len(q)
  <1>1. /\ r # <<>> /\ Len(r) = n + 1 /\ n \in Nat /\ DOMAIN r = 1..(n + 1) /\ DOMAIN q = 1..n
        /\ r[n + 1] = e /\ \A i \in 1..(n + 1) : i # n + 1 => i \in 1..n /\ r[i] = q[i]
    BY Appended
  <1>2. n = 0 <=> q = <<>>
    BY EmptySeq
  <1> HIDE DEF r, n
  <1>3. \A i \in DOMAIN r : /\ r[i].kind = "bind" => i = 1
                            /\ r[i].kind = "unbind" => i = Len(r) /\ ~ b
    BY <1>1 DEF Formed
  <1>4. r[1].kind = "bind" <=> ~ j
    <2>1. CASE n = 0
      BY <1>1, <1>2, <2>1 DEF Formed
    <2>2. CASE n # 0
      <3>1. r[1] = q[1]
        BY <1>1, <2>2
      <3> QED BY <1>2, <2>2, <3>1 DEF Formed
    <2> QED BY <2>1, <2>2
  <1>5. b \/ r[Len(r)].kind = "unbind"
    BY <1>1
  <1> QED BY <1>1, <1>3, <1>4, <1>5 DEF Formed, r

\* The first is taken, and the join knows the operator unless that was its unbind.
LEMMA FormedRest ==
    ASSUME NEW q \in Seq(Message), q # <<>>, NEW b \in BOOLEAN, NEW j \in BOOLEAN,
           Formed(q, b, j), NEW g \in BOOLEAN, g <=> Head(q).kind # "unbind"
    PROVE  /\ Head(q).kind = "bind" <=> ~ j
           /\ Formed(Tail(q), b, g)
  <1> DEFINE t == Tail(q)
             n == Len(q)
  <1>1. /\ Head(q) \in Message /\ Head(q) = q[1] /\ n \in Nat \ {0} /\ Len(t) = n - 1
        /\ DOMAIN q = 1..n /\ DOMAIN t = 1..(n - 1) /\ 1 \in DOMAIN q
        /\ \A i \in 1..(n - 1) : t[i] = q[i + 1] /\ i + 1 \in DOMAIN q
        /\ t = <<>> <=> n = 1
    BY Tailed
  <1> HIDE DEF t, n
  <1>2. Head(q).kind = "bind" <=> ~ j
    BY <1>1 DEF Formed
  <1>3. Head(q).kind = "unbind" => ~ b /\ n = 1
    BY <1>1 DEF Formed, n
  <1>4. \A i \in DOMAIN t : /\ t[i].kind # "bind"
                            /\ t[i].kind = "unbind" => i = Len(t) /\ ~ b
    <2> SUFFICES ASSUME NEW i \in 1..(n - 1)
                 PROVE  t[i].kind # "bind" /\ (t[i].kind = "unbind" => i = n - 1 /\ ~ b)
      BY <1>1
    <2>1. t[i] = q[i + 1] /\ i + 1 \in DOMAIN q /\ i + 1 # 1 /\ i \in Nat
      BY <1>1
    <2>2. q[i + 1].kind = "bind" => i + 1 = 1
      BY <2>1 DEF Formed
    <2>3. q[i + 1].kind = "unbind" => i + 1 = n /\ ~ b
      BY <2>1 DEF Formed, n
    <2> QED BY <1>1, <2>1, <2>2, <2>3
  <1>5. t # <<>> => g /\ t[1].kind # "bind" /\ (b \/ t[Len(t)].kind = "unbind")
    <2> SUFFICES ASSUME t # <<>> PROVE g /\ t[1].kind # "bind" /\ (b \/ t[Len(t)].kind = "unbind")
      OBVIOUS
    <2>1. n # 1 /\ 1 \in 1..(n - 1) /\ n - 1 \in 1..(n - 1) /\ (n - 1) + 1 = n
      BY <1>1
    <2>2. t[Len(t)] = q[n]
      BY <1>1, <2>1
    <2>3. b \/ q[n].kind = "unbind"
      BY DEF Formed, n
    <2> QED BY <1>1, <1>3, <1>4, <2>1, <2>2, <2>3
  <1>6. t = <<>> => (g <=> b)
    <2> SUFFICES ASSUME n = 1 PROVE g <=> b
      BY <1>1
    <2>1. b \/ q[1].kind = "unbind"
      BY DEF Formed, n
    <2> QED BY <1>1, <1>3, <2>1
  <1> QED BY <1>1, <1>2, <1>4, <1>5, <1>6 DEF Formed, t

\* The numbers in a socket stay in order when one behind them is put in,
LEMMA NumberedPut ==
    ASSUME NEW q \in Seq(Message), NEW s, NEW ms, NEW got, Len(ms) \in Nat, Numbered(q, s, ms, got),
           NEW e \in Message,
           e.n # Missing => /\ e.n \in 1..Len(ms) /\ ms[e.n] = s
                            /\ \A m \in got : ms[m] = s => m < e.n
                            /\ \A i \in DOMAIN q : q[i].n < e.n
    PROVE  Numbered(Append(q, e), s, ms, got)
  <1> DEFINE r == Append(q, e)
             n == Len(q)
  <1>1. /\ r # <<>> /\ Len(r) = n + 1 /\ n \in Nat /\ DOMAIN r = 1..(n + 1) /\ DOMAIN q = 1..n
        /\ r[n + 1] = e /\ \A i \in 1..(n + 1) : i # n + 1 => i \in 1..n /\ r[i] = q[i]
    BY Appended
  <1> HIDE DEF r, n
  <1>2. ASSUME NEW i \in DOMAIN r, r[i].n # Missing
        PROVE  /\ r[i].n \in 1..Len(ms) /\ ms[r[i].n] = s
               /\ \A m \in got : ms[m] = s => m < r[i].n
    BY <1>1, <1>2 DEF Numbered
  <1>3. ASSUME NEW i \in 1..(n + 1), NEW k \in 1..(n + 1), i < k, r[i].n # Missing, r[k].n # Missing
        PROVE  r[i].n < r[k].n
    <2>1. i \in 1..n /\ r[i] = q[i]
      BY <1>1, <1>3
    <2>2. CASE k = n + 1
      BY <1>1, <1>3, <2>1, <2>2
    <2>3. CASE k # n + 1
      BY <1>1, <1>3, <2>1, <2>3 DEF Numbered
    <2> QED BY <2>2, <2>3
  <1> QED BY <1>1, <1>2, <1>3 DEF Numbered, r

\* when the first is taken, which comes before the rest,
LEMMA NumberedRest ==
    ASSUME NEW q \in Seq(Message), q # <<>>, NEW s, NEW ms, NEW got, Numbered(q, s, ms, got),
           NEW more, more \subseteq got \cup ({Head(q).n} \ {Missing})
    PROVE  Numbered(Tail(q), s, ms, more)
  <1> DEFINE t == Tail(q)
             n == Len(q)
  <1>1. /\ Head(q) = q[1] /\ n \in Nat \ {0}
        /\ DOMAIN q = 1..n /\ DOMAIN t = 1..(n - 1) /\ 1 \in DOMAIN q
        /\ \A i \in 1..(n - 1) : t[i] = q[i + 1] /\ i + 1 \in DOMAIN q
    BY Tailed
  <1> HIDE DEF t, n
  <1>2. ASSUME NEW i \in 1..(n - 1), t[i].n # Missing
        PROVE  /\ t[i].n \in 1..Len(ms) /\ ms[t[i].n] = s
               /\ \A m \in more : ms[m] = s => m < t[i].n
    <2>1. t[i] = q[i + 1] /\ i + 1 \in DOMAIN q /\ 1 < i + 1
      BY <1>1
    <2>2. /\ t[i].n \in 1..Len(ms) /\ ms[t[i].n] = s
          /\ \A m \in got : ms[m] = s => m < t[i].n
      BY <1>2, <2>1 DEF Numbered
    <2>3. q[1].n # Missing => q[1].n < t[i].n
      BY <1>1, <1>2, <2>1 DEF Numbered
    <2> QED BY <1>1, <2>2, <2>3
  <1>3. ASSUME NEW i \in 1..(n - 1), NEW k \in 1..(n - 1), i < k, t[i].n # Missing, t[k].n # Missing
        PROVE  t[i].n < t[k].n
    <2>1. /\ t[i] = q[i + 1] /\ i + 1 \in DOMAIN q /\ t[k] = q[k + 1] /\ k + 1 \in DOMAIN q
          /\ i + 1 < k + 1
      BY <1>1, <1>3
    <2> QED BY <1>3, <2>1 DEF Numbered
  <1> QED BY <1>1, <1>2, <1>3 DEF Numbered, t

\* when the join has more of another socket, and when more are made.
LEMMA NumberedOther ==
    ASSUME NEW q, NEW s, NEW ms, NEW got, Numbered(q, s, ms, got),
           NEW more, \A m \in more : m \in got \/ ms[m] # s
    PROVE  Numbered(q, s, ms, more)
  BY DEF Numbered

LEMMA NumberedMade ==
    ASSUME NEW q, NEW s, NEW S, NEW ms \in Seq(S), NEW x \in S, NEW got, got \subseteq 1..Len(ms),
           Numbered(q, s, ms, got)
    PROVE  Numbered(q, s, Append(ms, x), got)
  <1>1. /\ Len(ms) \in Nat /\ Len(Append(ms, x)) = Len(ms) + 1
        /\ \A i \in 1..Len(ms) : Append(ms, x)[i] = ms[i]
    BY AppendProperties
  <1>2. \A n \in 1..Len(ms) : n \in 1..(Len(ms) + 1)
    BY <1>1
  <1>3. PICK more : more = Append(ms, x)
    OBVIOUS
  <1>4. /\ Len(more) = Len(ms) + 1 /\ \A i \in 1..Len(ms) : more[i] = ms[i]
    BY <1>1, <1>3
  <1>5. Numbered(q, s, more, got)
    BY <1>2, <1>4 DEF Numbered
  <1> QED BY <1>3, <1>5

-----------------------------------------------------------------------------
(* What the actions do to the sockets. *)

LEMMA PutShape ==
    ASSUME JoinTypes, NEW f \in Feeder, NEW k \in Socket, NEW m \in Message, Put(f, k, m)
    PROVE  /\ wire' \in [Feeder -> [Socket -> Seq(Message)]]
           /\ wire'[f][k] = Append(wire[f][k], m) /\ wire[f][k] \in Seq(Message)
           /\ \A l \in Socket : l # k => wire'[f][l] = wire[f][l]
           /\ \A g \in Feeder : g # f => wire'[g] = wire[g]
  <1>1. wire \in [Feeder -> [Socket -> Seq(Message)]]
    BY DEF JoinTypes
  <1>2. wire[f] \in [Socket -> Seq(Message)] /\ wire[f][k] \in Seq(Message)
    BY <1>1
  <1>3. Append(wire[f][k], m) \in Seq(Message)
    BY <1>2, Appended
  <1>4. wire' = [wire EXCEPT ![f] = [wire[f] EXCEPT ![k] = Append(wire[f][k], m)]]
    BY <1>1 DEF Put
  <1>5. [wire[f] EXCEPT ![k] = Append(wire[f][k], m)] \in [Socket -> Seq(Message)]
    BY <1>2, <1>3
  <1> QED BY <1>1, <1>2, <1>4, <1>5

LEMMA TakenShape ==
    ASSUME JoinTypes, NEW f \in Feeder, NEW k \in Socket, NEW kind, Taken(f, k, kind)
    PROVE  /\ wire[f][k] \in Seq(Message) /\ wire[f][k] # <<>>
           /\ Head(wire[f][k]) \in Message /\ Head(wire[f][k]).kind = kind
           /\ wire' \in [Feeder -> [Socket -> Seq(Message)]]
           /\ wire'[f][k] = Tail(wire[f][k])
           /\ \A l \in Socket : l # k => wire'[f][l] = wire[f][l]
           /\ \A g \in Feeder : g # f => wire'[g] = wire[g]
           /\ UNCHANGED <<sockets, binds, made, crowded>>
  <1>1. wire \in [Feeder -> [Socket -> Seq(Message)]]
    BY DEF JoinTypes
  <1>2. wire[f] \in [Socket -> Seq(Message)] /\ wire[f][k] \in Seq(Message)
    BY <1>1
  <1>3. /\ wire[f][k] # <<>> /\ Head(wire[f][k]).kind = kind
        /\ wire' = [wire EXCEPT ![f][k] = Tail(@)] /\ UNCHANGED <<sockets, binds, made, crowded>>
    BY DEF Taken, feederVars
  <1>4. Head(wire[f][k]) \in Message /\ Tail(wire[f][k]) \in Seq(Message)
    BY <1>2, <1>3, Tailed
  <1>5. wire' = [wire EXCEPT ![f] = [wire[f] EXCEPT ![k] = Tail(wire[f][k])]]
    BY <1>1, <1>3
  <1>6. [wire[f] EXCEPT ![k] = Tail(wire[f][k])] \in [Socket -> Seq(Message)]
    BY <1>2, <1>4
  <1> QED BY <1>1, <1>2, <1>3, <1>4, <1>5, <1>6

LEMMA BindShape ==
    ASSUME JoinTypes, NEW f \in Feeder, BindNode(f)
    PROVE  \E k \in Socket :
              /\ k = binds[f] + 1 /\ binds[f] \in Nat
              /\ binds' = [binds EXCEPT ![f] = k] /\ binds' \in [Feeder -> 0..MaxBind]
              /\ sockets' = [sockets EXCEPT ![f] = @ \cup {k}]
              /\ sockets' \in [Feeder -> SUBSET Socket]
              /\ Put(f, k, SetUp("bind"))
              /\ crowded' = crowded \cup {c \in {OperatorOf[f]} : Follows(c)}
              /\ UNCHANGED <<made, joinVars>>
  <1>1. /\ binds[f] < MaxBind /\ binds' = [binds EXCEPT ![f] = @ + 1]
        /\ sockets' = [sockets EXCEPT ![f] = @ \cup {binds'[f]}]
        /\ Put(f, binds'[f], SetUp("bind"))
        /\ crowded' = crowded \cup {c \in {OperatorOf[f]} : Follows(c)}
        /\ UNCHANGED <<made, joinVars>>
    BY DEF BindNode
  <1>2. PICK k : k = binds'[f]
    OBVIOUS
  <1>3. k = binds[f] + 1 /\ k \in Socket /\ binds[f] \in Nat /\ k \in 0..MaxBind
    BY <1>1, <1>2, JoinAssumption DEF JoinTypes, Socket
  <1>4. /\ binds' = [binds EXCEPT ![f] = k] /\ binds' \in [Feeder -> 0..MaxBind]
        /\ sockets' = [sockets EXCEPT ![f] = @ \cup {k}]
        /\ sockets' \in [Feeder -> SUBSET Socket]
    BY <1>1, <1>2, <1>3 DEF JoinTypes
  <1>5. Put(f, k, SetUp("bind"))
    BY <1>1, <1>2
  <1> QED BY <1>1, <1>3, <1>4, <1>5

\* The first of several sockets is never passed over.
LEMMA UnbindShape ==
    ASSUME JoinTypes, NEW f \in Feeder, UnbindNode(f)
    PROVE  \E kept \in SUBSET sockets[f] :
              /\ sockets[f] # {} /\ \A k \in sockets[f] : sockets[f] = {k} => kept = {}
              /\ sockets' = [sockets EXCEPT ![f] = kept] /\ sockets' \in [Feeder -> SUBSET Socket]
              /\ wire' \in [Feeder -> [Socket -> Seq(Message)]]
              /\ \A k \in Socket :
                     wire'[f][k] = IF k \in sockets[f] \ kept
                                   THEN Append(wire[f][k], SetUp("unbind")) ELSE wire[f][k]
              /\ \A g \in Feeder : g # f => wire'[g] = wire[g]
              /\ UNCHANGED <<binds, made, crowded, joinVars>>
  <1>1. PICK kept \in PassedOver(f) :
           /\ sockets' = [sockets EXCEPT ![f] = kept]
           /\ wire' = [wire EXCEPT ![f] = [k \in Socket |->
                  IF k \in sockets[f] \ kept THEN Append(wire[f][k], SetUp("unbind"))
                  ELSE wire[f][k]]]
    BY DEF UnbindNode, JoinTypes
  <1>2. sockets[f] # {} /\ UNCHANGED <<binds, made, crowded, joinVars>>
    BY DEF UnbindNode
  <1>3. /\ kept \in SUBSET sockets[f]
        /\ \A k \in kept : \E j \in sockets[f] \ kept : j < k
    BY <1>1 DEF PassedOver
  <1>4. \A k \in sockets[f] : sockets[f] = {k} => kept = {}
    BY <1>3
  <1>5. sockets' \in [Feeder -> SUBSET Socket]
    BY <1>1, <1>3 DEF JoinTypes
  <1>6. wire \in [Feeder -> [Socket -> Seq(Message)]] /\ wire[f] \in [Socket -> Seq(Message)]
    BY DEF JoinTypes
  <1>7. \A k \in Socket : Append(wire[f][k], SetUp("unbind")) \in Seq(Message)
    BY <1>6, Kinds, Appended
  <1>8. PICK row \in [Socket -> Seq(Message)] :
           /\ \A k \in Socket : row[k] = IF k \in sockets[f] \ kept
                                         THEN Append(wire[f][k], SetUp("unbind")) ELSE wire[f][k]
           /\ wire' = [wire EXCEPT ![f] = row]
    <2> DEFINE row == [k \in Socket |->
                  IF k \in sockets[f] \ kept THEN Append(wire[f][k], SetUp("unbind"))
                  ELSE wire[f][k]]
    <2>1. row \in [Socket -> Seq(Message)]
      BY <1>6, <1>7
    <2>2. wire' = [wire EXCEPT ![f] = row]
      BY <1>1
    <2> QED BY <2>1, <2>2
  <1>9. /\ wire' \in [Feeder -> [Socket -> Seq(Message)]] /\ wire'[f] = row
        /\ \A g \in Feeder : g # f => wire'[g] = wire[g]
    BY <1>6, <1>8
  <1> QED BY <1>1, <1>2, <1>3, <1>4, <1>5, <1>8, <1>9

LEMMA SendShape ==
    ASSUME JoinTypes, NEW f \in Feeder, Send(f)
    PROVE  \E k \in sockets[f] : \E n \in {Missing, Len(made) + 1} :
              /\ k \in Socket /\ Len(made) \in Nat /\ Data(n) \in Message
              /\ made' = Append(made, <<f, k>>) /\ Len(made') = Len(made) + 1
              /\ made' \in Seq(Feeder \X Socket) /\ Len(made') <= MaxMsg
              /\ made'[Len(made) + 1] = <<f, k>>
              /\ \A i \in 1..Len(made) : made'[i] = made[i]
              /\ Put(f, k, Data(n))
              /\ UNCHANGED <<sockets, binds, crowded, joinVars>>
  <1>1. PICK k \in sockets[f] :
           /\ made' = Append(made, <<f, k>>)
           /\ \E n \in {Missing, Len(made')} : Put(f, k, Data(n))
    BY DEF Send
  <1>2. PICK n \in {Missing, Len(made')} : Put(f, k, Data(n))
    BY <1>1
  <1>3. Len(made) < MaxMsg /\ UNCHANGED <<sockets, binds, crowded, joinVars>>
    BY DEF Send
  <1>4. k \in Socket /\ made \in Seq(Feeder \X Socket) /\ <<f, k>> \in Feeder \X Socket
    BY DEF JoinTypes
  <1>5. /\ made' \in Seq(Feeder \X Socket) /\ Len(made') = Len(made) + 1 /\ Len(made) \in Nat
        /\ made'[Len(made) + 1] = <<f, k>> /\ \A i \in 1..Len(made) : made'[i] = made[i]
    BY <1>1, <1>4, AppendProperties
  <1>6. Len(made) + 1 \in 0..MaxMsg /\ Missing \in 0..MaxMsg
    BY <1>3, <1>5, JoinAssumption DEF Missing
  <1>7. Data(n) \in Message
    BY <1>2, <1>5, <1>6, Kinds
  <1> QED BY <1>1, <1>2, <1>3, <1>4, <1>5, <1>6, <1>7

\* An operator takes a place behind the others.
LEMMA AppendOrder ==
    ASSUME NEW S, NEW q \in Seq(S), IsInjective(q), NEW e \in S, e \notin Range(q)
    PROVE  /\ Append(q, e) \in Seq(S) /\ IsInjective(Append(q, e))
           /\ Range(Append(q, e)) = Range(q) \cup {e}
  <1> DEFINE r == Append(q, e)
             n == Len(q)
  <1>1. /\ r \in Seq(S) /\ n \in Nat /\ DOMAIN r = 1..(n + 1) /\ DOMAIN q = 1..n /\ r[n + 1] = e
        /\ \A i \in 1..(n + 1) : i # n + 1 => i \in 1..n /\ r[i] = q[i]
    BY Appended
  <1>2. \A i \in 1..n : i \in 1..(n + 1) /\ i # n + 1
    BY <1>1
  <1>3. n + 1 \in 1..(n + 1)
    BY <1>1
  <1> HIDE DEF r, n
  <1>4. \A i \in 1..n : q[i] # e
    BY <1>1 DEF Range
  <1>5. \A i, j \in 1..n : q[i] = q[j] => i = j
    BY <1>1 DEF IsInjective
  <1>6. IsInjective(r)
    BY <1>1, <1>4, <1>5 DEF IsInjective
  <1>7. Range(r) \subseteq Range(q) \cup {e}
    BY <1>1 DEF Range
  <1>8. Range(q) \cup {e} \subseteq Range(r)
    BY <1>1, <1>2, <1>3 DEF Range
  <1> QED BY <1>1, <1>6, <1>7, <1>8 DEF r

\* It leaves its place.
LEMMA RemoveAtOrder ==
    ASSUME NEW S, NEW q \in Seq(S), NEW p \in DOMAIN q, IsInjective(q)
    PROVE  /\ RemoveAt(q, p) \in Seq(S) /\ IsInjective(RemoveAt(q, p))
           /\ Range(RemoveAt(q, p)) = Range(q) \ {q[p]}
  <1>1. DOMAIN q = 1..Len(q) /\ Len(q) \in Nat /\ p \in 1..Len(q) /\ \A i \in 1..Len(q) : q[i] \in S
    BY LenProperties, ElementOfSeq
  <1> DEFINE a == SubSeq(q, 1, p - 1)
             b == SubSeq(q, p + 1, Len(q))
             r == a \o b
  <1>2. /\ a \in Seq(S) /\ Len(a) = p - 1
        /\ \A i \in 1..(p - 1) : a[i] = q[i]
    <2>1. 1 \in Int /\ p - 1 \in Int /\ \A i \in 1..(p - 1) : q[i] \in S
      BY <1>1
    <2>2. /\ a \in Seq(S) /\ Len(a) = IF 1 <= p - 1 THEN (p - 1) - 1 + 1 ELSE 0
          /\ \A i \in 1..((p - 1) - 1 + 1) : a[i] = q[1 + i - 1]
      BY <2>1, SubSeqProperties
    <2> QED BY <1>1, <2>2
  <1>3. /\ b \in Seq(S) /\ Len(b) = Len(q) - p
        /\ \A i \in 1..(Len(q) - p) : b[i] = q[p + i]
    <2>1. p + 1 \in Int /\ Len(q) \in Int /\ \A i \in (p + 1)..Len(q) : q[i] \in S
      BY <1>1
    <2>2. /\ b \in Seq(S) /\ Len(b) = IF p + 1 <= Len(q) THEN Len(q) - (p + 1) + 1 ELSE 0
          /\ \A i \in 1..(Len(q) - (p + 1) + 1) : b[i] = q[p + 1 + i - 1]
      BY <2>1, SubSeqProperties
    <2>3. Len(q) - (p + 1) + 1 = Len(q) - p /\ (~ (p + 1 <= Len(q)) => Len(q) - p = 0)
      BY <1>1
    <2>4. \A i \in 1..(Len(q) - p) : p + 1 + i - 1 = p + i
      BY <1>1
    <2> HIDE DEF b
    <2> QED BY <2>2, <2>3, <2>4
  <1> HIDE DEF a, b
  <1>4. /\ r \in Seq(S) /\ Len(r) = Len(q) - 1
        /\ \A i \in 1..(Len(q) - 1) : r[i] = IF i < p THEN q[i] ELSE q[i + 1]
    <2>1. /\ r \in Seq(S) /\ Len(r) = Len(a) + Len(b)
          /\ \A i \in 1..(Len(a) + Len(b)) : r[i] = IF i <= Len(a) THEN a[i] ELSE b[i - Len(a)]
      BY <1>2, <1>3, ConcatProperties
    <2>2. ASSUME NEW i \in 1..(Len(q) - 1) PROVE r[i] = IF i < p THEN q[i] ELSE q[i + 1]
      <3>1. CASE i < p
        BY <1>1, <1>2, <1>3, <2>1, <3>1
      <3>2. CASE ~ (i < p)
        <4>1. i - (p - 1) \in 1..(Len(q) - p) /\ p + (i - (p - 1)) = i + 1
          BY <1>1, <3>2
        <4>2. i \in 1..(Len(a) + Len(b)) /\ ~ (i <= Len(a)) /\ Len(a) = p - 1
          BY <1>1, <1>2, <1>3, <3>2
        <4>3. r[i] = b[i - (p - 1)]
          BY <2>1, <4>2
        <4> QED BY <1>3, <3>2, <4>1, <4>3
      <3> QED BY <3>1, <3>2
    <2>3. Len(a) + Len(b) = Len(q) - 1
      BY <1>1, <1>2, <1>3
    <2>4. r \in Seq(S) /\ Len(r) = Len(q) - 1
      BY <2>1, <2>3
    <2> QED BY <2>2, <2>4
  <1>5. RemoveAt(q, p) = r
    BY DEF RemoveAt, a, b
  <1> HIDE DEF r
  <1>6. DOMAIN r = 1..(Len(q) - 1)
    BY <1>4
  <1> DEFINE from(i) == IF i < p THEN i ELSE i + 1
  <1>7. \A i \in 1..(Len(q) - 1) : from(i) \in 1..Len(q) /\ r[i] = q[from(i)]
    BY <1>1, <1>4
  <1>8. \A i, j \in 1..(Len(q) - 1) : from(i) = from(j) => i = j
    BY <1>1
  <1>10. \A l \in 1..Len(q) : l # p => \E i \in 1..(Len(q) - 1) : from(i) = l
    <2> SUFFICES ASSUME NEW l \in 1..Len(q), l # p PROVE \E i \in 1..(Len(q) - 1) : from(i) = l
      OBVIOUS
    <2>1. CASE l < p
      <3>1. l \in 1..(Len(q) - 1) /\ from(l) = l
        BY <1>1, <2>1
      <3> QED BY <3>1
    <2>2. CASE p < l
      <3>1. l - 1 \in 1..(Len(q) - 1) /\ from(l - 1) = l
        BY <1>1, <2>2
      <3> QED BY <3>1
    <2> QED BY <1>1, <2>1, <2>2
  <1>11. \A i \in 1..(Len(q) - 1) : from(i) # p
    BY <1>1
  <1> HIDE DEF from
  <1>9. IsInjective(r)
    BY <1>1, <1>6, <1>7, <1>8 DEF IsInjective
  <1>12. \A l \in 1..Len(q) : q[l] = q[p] => l = p
    BY <1>1 DEF IsInjective
  <1>13. Range(r) = {q[l] : l \in 1..Len(q) \ {p}}
    <2>1. \A i \in 1..(Len(q) - 1) : r[i] \in {q[l] : l \in 1..Len(q) \ {p}}
      BY <1>7, <1>11
    <2>2. \A l \in 1..Len(q) \ {p} : \E i \in 1..(Len(q) - 1) : r[i] = q[l]
      BY <1>7, <1>10
    <2> QED BY <1>6, <2>1, <2>2 DEF Range
  <1>14. Range(q) = {q[l] : l \in 1..Len(q)}
    BY <1>1 DEF Range
  <1>15. Range(r) = Range(q) \ {q[p]}
    BY <1>12, <1>13, <1>14
  <1> QED BY <1>4, <1>5, <1>9, <1>15

\* The operator is taken out, if it is there.
LEMMA OrderLeftIs ==
    ASSUME JoinTypes, Ordered, NEW c \in Cid
    PROVE  /\ OrderLeft(c) \in Seq(Cid) /\ IsInjective(OrderLeft(c))
           /\ Range(OrderLeft(c)) \subseteq Range(cbOrdering) \ {c}
           /\ c \in Range(cbOrdering) => Range(OrderLeft(c)) = Range(cbOrdering) \ {c}
  <1>1. cbOrdering \in Seq(Cid) /\ IsInjective(cbOrdering)
    BY DEF JoinTypes, Ordered
  <1>2. c \in Range(cbOrdering) <=> \E i \in DOMAIN cbOrdering : cbOrdering[i] = c
    BY DEF Range
  <1>3. CASE cbOrdering = <<>>
    <2>1. OrderLeft(c) = cbOrdering /\ c \notin Range(cbOrdering)
      BY <1>2, <1>3 DEF OrderLeft
    <2> QED BY <1>1, <2>1
  <1>4. CASE cbOrdering # <<>>
    <2> DEFINE p == IF \E i \in DOMAIN cbOrdering : cbOrdering[i] = c
                    THEN CHOOSE i \in DOMAIN cbOrdering : cbOrdering[i] = c
                    ELSE Len(cbOrdering)
    <2>1. OrderLeft(c) = RemoveAt(cbOrdering, p)
      BY <1>4 DEF OrderLeft
    <2>2. p \in DOMAIN cbOrdering /\ (c \in Range(cbOrdering) => cbOrdering[p] = c)
      <3>1. Len(cbOrdering) \in DOMAIN cbOrdering
        BY <1>1, <1>4, EmptySeq, LenProperties
      <3> QED BY <1>2, <3>1
    <2> HIDE DEF p
    <2>3. /\ RemoveAt(cbOrdering, p) \in Seq(Cid) /\ IsInjective(RemoveAt(cbOrdering, p))
          /\ Range(RemoveAt(cbOrdering, p)) = Range(cbOrdering) \ {cbOrdering[p]}
      BY <1>1, <2>2, RemoveAtOrder
    <2> QED BY <2>1, <2>2, <2>3
  <1> QED BY <1>3, <1>4

-----------------------------------------------------------------------------
(* The array the script gets. *)

\* A finite set of naturals can be counted off: each member has a place of its own, and
\* each place a member.
LEMMA CountedOff ==
    ASSUME NEW F \in SUBSET Nat, IsFiniteSet(F)
    PROVE  /\ \A i \in F : Cardinality({j \in F : j <= i}) \in 1..Cardinality(F)
           /\ \A i, k \in F :
                  Cardinality({j \in F : j <= i}) = Cardinality({j \in F : j <= k}) => i = k
           /\ \A n \in 1..Cardinality(F) : \E i \in F : Cardinality({j \in F : j <= i}) = n
  <1> DEFINE upto(i) == {j \in F : j <= i}
             rank == [i \in F |-> Cardinality(upto(i))]
  <1>1. ASSUME NEW i \in F
        PROVE  /\ IsFiniteSet(upto(i)) /\ Cardinality(upto(i)) \in 1..Cardinality(F)
    <2>1. upto(i) \subseteq F /\ upto(i) # {}
      OBVIOUS
    <2>2. /\ IsFiniteSet(upto(i)) /\ Cardinality(upto(i)) <= Cardinality(F)
          /\ Cardinality(upto(i)) # 0
      BY <2>1, FS_Subset, FS_EmptySet
    <2>3. Cardinality(upto(i)) \in Nat /\ Cardinality(F) \in Nat
      BY <2>2, FS_CardinalityType
    <2> HIDE DEF upto
    <2> QED BY <2>2, <2>3
  <1>2. ASSUME NEW i \in F, NEW j \in F, i < j
        PROVE  Cardinality(upto(i)) # Cardinality(upto(j))
    <2>1. upto(i) \subseteq upto(j) /\ j \in upto(j) /\ j \notin upto(i)
      <3>1. i \in Nat /\ j \in Nat /\ \A k \in F : k \in Nat /\ (k <= i => k <= j)
        BY <1>2
      <3>2. j <= j /\ ~ (j <= i)
        BY <1>2, <3>1
      <3> QED BY <3>1, <3>2
    <2>2. upto(i) # upto(j)
      BY <2>1
    <2> QED BY <1>1, <2>1, <2>2, FS_Subset
  <1>3. \A i, j \in F : i # j => i < j \/ j < i
    OBVIOUS
  <1>4. \A i, j \in F : rank[i] = rank[j] => i = j
    BY <1>2, <1>3
  <1>5. rank \in [F -> 1..Cardinality(F)]
    BY <1>1
  <1>6. \A i \in F : rank[i] = Cardinality({j \in F : j <= i})
    OBVIOUS
  <1> HIDE DEF rank, upto
  <1>7. rank \in Injection(F, 1..Cardinality(F))
    BY <1>4, <1>5 DEF Injection, IsInjective
  <1>8. Cardinality(F) \in Nat
    BY FS_CardinalityType
  <1>9. IsFiniteSet(1..Cardinality(F)) /\ Cardinality(1..Cardinality(F)) = Cardinality(F)
    BY <1>8, FS_Interval
  <1>10. rank \in Surjection(F, 1..Cardinality(F))
    BY <1>7, <1>9, FS_Injection
  <1>11. \A n \in 1..Cardinality(F) : \E i \in F : rank[i] = n
    BY <1>10 DEF Surjection
  <1> QED BY <1>4, <1>5, <1>6, <1>11

\* Every entry is a key, and only they are.
LEMMA KeysAre ==
    /\ DOMAIN Keys = 1..Cardinality(Entries)
    /\ \A i \in DOMAIN Keys : Keys[i] \in Entries
    /\ \A c \in Entries : \E i \in DOMAIN Keys : Keys[i] = c
  <1>1. Entries \in SUBSET Nat /\ IsFiniteSet(Entries)
    BY JoinAssumption, FS_Subset DEF Entries
  <1> DEFINE rank(c) == Cardinality({d \in Entries : d <= c})
  <1>2. /\ \A c \in Entries : rank(c) \in 1..Cardinality(Entries)
        /\ \A c, d \in Entries : rank(c) = rank(d) => c = d
        /\ \A i \in 1..Cardinality(Entries) : \E c \in Entries : rank(c) = i
    BY <1>1, CountedOff
  <1>3. Keys = [i \in 1..Cardinality(Entries) |-> CHOOSE c \in Entries : rank(c) = i]
    BY DEF Keys
  <1> HIDE DEF rank
  <1>4. \A i \in 1..Cardinality(Entries) : Keys[i] \in Entries /\ rank(Keys[i]) = i
    BY <1>2, <1>3
  <1>5. \A c \in Entries : Keys[rank(c)] = c
    BY <1>2, <1>4
  <1> QED BY <1>2, <1>3, <1>4, <1>5

LEMMA FinalMsgIs ==
    ASSUME JoinTypes, NEW buffer \in [Cid -> 0..MaxMsg]
    PROVE  /\ FinalMsg(buffer) \in Seq([op : Cid, n : 0..MaxMsg])
           /\ \A i \in DOMAIN FinalMsg(buffer) :
                  FinalMsg(buffer)[i].n # Missing =>
                      FinalMsg(buffer)[i].n = buffer[FinalMsg(buffer)[i].op]
           /\ DOMAIN FinalMsg(buffer) = DOMAIN cbOrdering
  <1>1. cbOrdering \in Seq(Cid) /\ DOMAIN cbOrdering = 1..Len(cbOrdering) /\ Len(cbOrdering) \in Nat
    BY LenProperties DEF JoinTypes
  <1>2. \A i \in DOMAIN cbOrdering : cbOrdering[i] \in Cid
    BY <1>1, ElementOfSeq
  <1>3. \A i \in DOMAIN Keys : Keys[i] \in Cid
    BY KeysAre DEF Entries
  <1>4. ASSUME NEW i \in DOMAIN cbOrdering
        PROVE  /\ FinalMsg(buffer)[i] \in [op : Cid, n : 0..MaxMsg]
               /\ FinalMsg(buffer)[i].n # Missing =>
                      FinalMsg(buffer)[i].n = buffer[FinalMsg(buffer)[i].op]
    <2>1. CASE cbOrdering[i] + 1 \in DOMAIN Keys
      <3>1. PICK d : d = Keys[cbOrdering[i] + 1]
        OBVIOUS
      <3>2. d \in Cid
        BY <1>3, <2>1, <3>1
      <3>3. FinalMsg(buffer)[i] = [op |-> d, n |-> buffer[d]]
        BY <2>1, <3>1 DEF FinalMsg
      <3> QED BY <3>2, <3>3
    <2>2. CASE cbOrdering[i] + 1 \notin DOMAIN Keys
      <3>1. FinalMsg(buffer)[i] = [op |-> cbOrdering[i], n |-> Missing]
        BY <2>2 DEF FinalMsg
      <3>2. Missing \in 0..MaxMsg
        BY JoinAssumption DEF Missing
      <3> QED BY <1>2, <3>1, <3>2
    <2> QED BY <2>1, <2>2
  <1>5. DOMAIN FinalMsg(buffer) = DOMAIN cbOrdering
    BY DEF FinalMsg
  <1>6. FinalMsg(buffer) = [i \in 1..Len(cbOrdering) |-> FinalMsg(buffer)[i]]
    BY <1>1 DEF FinalMsg
  <1>7. FinalMsg(buffer) \in Seq([op : Cid, n : 0..MaxMsg])
    BY <1>1, <1>4, <1>6, IsASeq
  <1> QED BY <1>4, <1>5, <1>7

-----------------------------------------------------------------------------
(* Types. *)

\* What the join worker has when a message is in.
Buffer(f, k) == IF OperatorOf[f] \in Tagged
                THEN [inMessages EXCEPT ![OperatorOf[f]] = Head(wire[f][k]).n]
                ELSE inMessages

\* A message goes into the buffer of its operator, and the buffer to the script or not.
LEMMA MessageShape ==
    ASSUME JoinTypes, NEW f \in Feeder, NEW k \in Socket, ReceiveMessage(f, k)
    PROVE  \E b \in [Cid -> 0..MaxMsg] :
              /\ Taken(f, k, "data") /\ UNCHANGED <<inConnections, cbOrdering>>
              /\ \A c \in Cid : b[c] = inMessages[c] \/ b[c] = Head(wire[f][k]).n
              /\ inMessages' \in [Cid -> 0..MaxMsg]
              /\ \/ /\ AllReceived(b) /\ joined' = FinalMsg(b) /\ joins' = joins + 1
                    /\ joined' \in Seq([op : Cid, n : 0..MaxMsg])
                    /\ given' = given \cup ({m.n : m \in Range(joined')} \ {Missing})
                    /\ \A c \in Cid : inMessages'[c] = Missing
                 \/ inMessages' = b /\ UNCHANGED <<joined, joins, given>>
  <1>1. PICK b : b = Buffer(f, k)
    OBVIOUS
  <1>2. /\ Taken(f, k, "data") /\ UNCHANGED <<inConnections, cbOrdering>>
        /\ IF AllReceived(b)
           THEN /\ joined' = FinalMsg(b) /\ joins' = joins + 1
                /\ given' = given \cup ({m.n : m \in Range(joined')} \ {Missing})
                /\ inMessages' = Emptied(b)
           ELSE inMessages' = b /\ UNCHANGED <<joined, joins, given>>
    BY <1>1, Zenon DEF ReceiveMessage, Buffer
  <1>3. PICK n : n = Head(wire[f][k]).n
    OBVIOUS
  <1>4. n \in 0..MaxMsg
    <2>1. Head(wire[f][k]) \in Message
      BY <1>2, TakenShape
    <2> QED BY <1>3, <2>1, Kinds
  <1>5. inMessages \in [Cid -> 0..MaxMsg]
    BY DEF JoinTypes
  <1>6. b = IF OperatorOf[f] \in Tagged THEN [inMessages EXCEPT ![OperatorOf[f]] = n] ELSE inMessages
    BY <1>1, <1>3 DEF Buffer
  <1>7. b \in [Cid -> 0..MaxMsg] /\ \A c \in Cid : b[c] = inMessages[c] \/ b[c] = n
    BY <1>4, <1>5, <1>6
  <1>8. FinalMsg(b) \in Seq([op : Cid, n : 0..MaxMsg])
    BY <1>7, FinalMsgIs
  <1>9. Emptied(b) \in [Cid -> 0..MaxMsg] /\ \A c \in Cid : Emptied(b)[c] = Missing
    BY JoinAssumption DEF Emptied, Missing
  <1> QED BY <1>2, <1>3, <1>7, <1>8, <1>9

LEMMA TypesInit == Init => JoinTypes /\ Unused
  <1> SUFFICES ASSUME Init PROVE JoinTypes /\ Unused
    OBVIOUS
  <1>1. Missing = 0 /\ 0 \in 0..MaxMsg /\ 0 \in 0..MaxBind
    BY JoinAssumption DEF Missing
  <1>2. cbOrdering \in Seq(Cid) /\ joined \in Seq([op : Cid, n : 0..MaxMsg])
        /\ made \in Seq(Feeder \X Socket) /\ Len(made) <= MaxMsg
    BY JoinAssumption DEF Init
  <1>3. wire \in [Feeder -> [Socket -> Seq(Message)]]
    BY DEF Init
  <1>4. Unused
    BY DEF Init, Unused
  <1> QED BY <1>1, <1>2, <1>3, <1>4 DEF JoinTypes, Init

LEMMA TypesStep == JoinTypes /\ Ordered /\ [Next]_vars => JoinTypes'
  <1> SUFFICES ASSUME JoinTypes, Ordered, [Next]_vars PROVE JoinTypes'
    OBVIOUS
  <1>1. ASSUME NEW f \in Feeder, BindNode(f) PROVE JoinTypes'
    <2>1. PICK k \in Socket :
              /\ binds' \in [Feeder -> 0..MaxBind] /\ sockets' \in [Feeder -> SUBSET Socket]
              /\ Put(f, k, SetUp("bind"))
              /\ crowded' = crowded \cup {c \in {OperatorOf[f]} : Follows(c)}
              /\ UNCHANGED <<made, joinVars>>
      BY <1>1, BindShape
    <2>2. wire' \in [Feeder -> [Socket -> Seq(Message)]]
      BY <2>1, Kinds, PutShape
    <2>3. crowded' \subseteq Cid
      BY <2>1, JoinAssumption DEF JoinTypes
    <2> QED BY <2>1, <2>2, <2>3 DEF JoinTypes, joinVars
  <1>2. ASSUME NEW f \in Feeder, UnbindNode(f) PROVE JoinTypes'
    <2>1. /\ sockets' \in [Feeder -> SUBSET Socket]
          /\ wire' \in [Feeder -> [Socket -> Seq(Message)]]
          /\ UNCHANGED <<binds, made, crowded, joinVars>>
      BY <1>2, UnbindShape
    <2> QED BY <2>1 DEF JoinTypes, joinVars
  <1>3. ASSUME NEW f \in Feeder, Send(f) PROVE JoinTypes'
    <2>1. PICK k \in Socket, n \in Nat :
              /\ Data(n) \in Message /\ Put(f, k, Data(n))
              /\ made' \in Seq(Feeder \X Socket) /\ Len(made') <= MaxMsg
              /\ UNCHANGED <<sockets, binds, crowded, joinVars>>
      <3>1. PICK k \in sockets[f], n \in {Missing, Len(made) + 1} :
              /\ k \in Socket /\ Len(made) \in Nat /\ Data(n) \in Message /\ Put(f, k, Data(n))
              /\ made' \in Seq(Feeder \X Socket) /\ Len(made') <= MaxMsg
              /\ UNCHANGED <<sockets, binds, crowded, joinVars>>
        BY <1>3, SendShape
      <3>2. n \in Nat
        BY <3>1 DEF Missing
      <3> QED BY <3>1, <3>2
    <2>2. wire' \in [Feeder -> [Socket -> Seq(Message)]]
      BY <2>1, PutShape
    <2> QED BY <2>1, <2>2 DEF JoinTypes, joinVars
  <1>4. ASSUME NEW f \in Feeder, NEW k \in Socket, ReceiveBind(f, k) PROVE JoinTypes'
    <2>1. PICK c \in Cid : c = OperatorOf[f]
      BY JoinAssumption
    <2>2. /\ Taken(f, k, "bind") /\ inConnections' = [inConnections EXCEPT ![c] = "true"]
          /\ cbOrdering' = OrderJoined(c) /\ UNCHANGED <<inMessages, joined, joins, given>>
      BY <1>4, <2>1 DEF ReceiveBind
    <2>3. wire' \in [Feeder -> [Socket -> Seq(Message)]] /\ UNCHANGED <<sockets, binds, made, crowded>>
      BY <2>2, TakenShape
    <2>4. OrderJoined(c) \in Seq(Cid)
      BY AppendProperties DEF OrderJoined, JoinTypes
    <2> QED BY <2>2, <2>3, <2>4 DEF JoinTypes
  <1>5. ASSUME NEW f \in Feeder, NEW k \in Socket, ReceiveUnbind(f, k) PROVE JoinTypes'
    <2>1. PICK c \in Cid : c = OperatorOf[f]
      BY JoinAssumption
    <2>2. /\ Taken(f, k, "unbind") /\ inConnections' = [inConnections EXCEPT ![c] = "undefined"]
          /\ cbOrdering' = OrderLeft(c) /\ UNCHANGED <<inMessages, joined, joins, given>>
      BY <1>5, <2>1 DEF ReceiveUnbind, Disconnected
    <2>3. wire' \in [Feeder -> [Socket -> Seq(Message)]] /\ UNCHANGED <<sockets, binds, made, crowded>>
      BY <2>2, TakenShape
    <2>4. OrderLeft(c) \in Seq(Cid)
      BY <1>5, OrderLeftIs
    <2> QED BY <2>2, <2>3, <2>4 DEF JoinTypes
  <1>6. ASSUME NEW f \in Feeder, NEW k \in Socket, ReceiveMessage(f, k) PROVE JoinTypes'
    <2>1. PICK b \in [Cid -> 0..MaxMsg] :
              /\ Taken(f, k, "data") /\ UNCHANGED <<inConnections, cbOrdering>>
              /\ inMessages' \in [Cid -> 0..MaxMsg]
              /\ \/ /\ joins' = joins + 1 /\ joined' \in Seq([op : Cid, n : 0..MaxMsg])
                    /\ given' = given \cup ({m.n : m \in Range(joined')} \ {Missing})
                 \/ UNCHANGED <<joined, joins, given>>
      BY <1>6, MessageShape
    <2>2. wire' \in [Feeder -> [Socket -> Seq(Message)]] /\ UNCHANGED <<sockets, binds, made, crowded>>
      BY <2>1, TakenShape
    <2>3. joined' \in Seq([op : Cid, n : 0..MaxMsg]) =>
              {m.n : m \in Range(joined')} \ {Missing} \subseteq 1..MaxMsg
      <3> SUFFICES ASSUME joined' \in Seq([op : Cid, n : 0..MaxMsg]), NEW m \in Range(joined'),
                          m.n # Missing
                   PROVE  m.n \in 1..MaxMsg
        OBVIOUS
      <3>1. m \in [op : Cid, n : 0..MaxMsg]
        <4>1. PICK q \in Seq([op : Cid, n : 0..MaxMsg]) : q = joined'
          OBVIOUS
        <4>2. PICK i \in DOMAIN q : m = q[i]
          BY <4>1 DEF Range
        <4>3. i \in 1..Len(q)
          BY <4>1, <4>2, LenProperties
        <4> QED BY <4>1, <4>2, <4>3, ElementOfSeq
      <3> QED BY <3>1, JoinAssumption DEF Missing
    <2>4. joined' \in Seq([op : Cid, n : 0..MaxMsg]) /\ joins' \in Nat /\ given' \subseteq 1..MaxMsg
      <3>1. /\ joined \in Seq([op : Cid, n : 0..MaxMsg]) /\ joins \in Nat
            /\ given \subseteq 1..MaxMsg
        BY DEF JoinTypes
      <3>2. CASE UNCHANGED <<joined, joins, given>>
        BY <3>1, <3>2
      <3>3. CASE /\ joins' = joins + 1 /\ joined' \in Seq([op : Cid, n : 0..MaxMsg])
                 /\ given' = given \cup ({m.n : m \in Range(joined')} \ {Missing})
        <4>1. {m.n : m \in Range(joined')} \ {Missing} \subseteq 1..MaxMsg
          BY <2>3, <3>3
        <4>2. given' \subseteq 1..MaxMsg
          BY <3>1, <3>3, <4>1
        <4> QED BY <3>1, <3>3, <4>2
      <3> QED BY <2>1, <3>2, <3>3
    <2> QED BY <2>1, <2>2, <2>4 DEF JoinTypes
  <1>7. CASE UNCHANGED vars
    BY <1>7 DEF vars, feederVars, joinVars, JoinTypes
  <1> QED BY <1>1, <1>2, <1>3, <1>4, <1>5, <1>6, <1>7 DEF Next

\* Only a bind takes a socket into use.
LEMMA UnusedStep == JoinTypes /\ Unused /\ [Next]_vars => Unused'
  <1> SUFFICES ASSUME JoinTypes, Unused, [Next]_vars,
                      NEW g \in Feeder, NEW l \in Socket, l > binds'[g]
               PROVE  l \notin sockets'[g] /\ wire'[g][l] = <<>>
    BY DEF Unused
  <1> USE DEF Unused
  <1>1. ASSUME NEW f \in Feeder, BindNode(f) PROVE l \notin sockets'[g] /\ wire'[g][l] = <<>>
    <2>1. PICK k \in Socket :
              /\ k = binds[f] + 1 /\ binds[f] \in Nat
              /\ binds' = [binds EXCEPT ![f] = k] /\ sockets' = [sockets EXCEPT ![f] = @ \cup {k}]
              /\ Put(f, k, SetUp("bind"))
      BY <1>1, BindShape
    <2>2. /\ \A i \in Socket : i # k => wire'[f][i] = wire[f][i]
          /\ \A h \in Feeder : h # f => wire'[h] = wire[h]
      BY <2>1, Kinds, PutShape
    <2>3. l \in Nat /\ k \in Nat
      BY DEF Socket
    <2> QED BY <2>1, <2>2, <2>3 DEF JoinTypes
  <1>2. ASSUME NEW f \in Feeder, UnbindNode(f) PROVE l \notin sockets'[g] /\ wire'[g][l] = <<>>
    <2>1. PICK kept \in SUBSET sockets[f] :
              /\ sockets' = [sockets EXCEPT ![f] = kept]
              /\ \A k \in Socket :
                     wire'[f][k] = IF k \in sockets[f] \ kept
                                   THEN Append(wire[f][k], SetUp("unbind")) ELSE wire[f][k]
              /\ \A h \in Feeder : h # f => wire'[h] = wire[h]
              /\ UNCHANGED binds
      BY <1>2, UnbindShape
    <2> QED BY <2>1 DEF JoinTypes
  <1>3. ASSUME NEW f \in Feeder, Send(f) PROVE l \notin sockets'[g] /\ wire'[g][l] = <<>>
    <2>1. PICK k \in sockets[f], n \in {Missing, Len(made) + 1} :
              /\ k \in Socket /\ Data(n) \in Message /\ Put(f, k, Data(n))
              /\ UNCHANGED <<sockets, binds>>
      BY <1>3, SendShape
    <2>2. /\ \A i \in Socket : i # k => wire'[f][i] = wire[f][i]
          /\ \A h \in Feeder : h # f => wire'[h] = wire[h]
      BY <2>1, PutShape
    <2>3. g = f => l # k
      BY <2>1
    <2> QED BY <2>1, <2>2, <2>3
  <1>4. ASSUME NEW f \in Feeder, NEW k \in Socket, NEW kind, Taken(f, k, kind)
        PROVE  l \notin sockets'[g] /\ wire'[g][l] = <<>>
    <2>1. /\ wire[f][k] # <<>>
          /\ \A i \in Socket : i # k => wire'[f][i] = wire[f][i]
          /\ \A h \in Feeder : h # f => wire'[h] = wire[h]
          /\ UNCHANGED <<sockets, binds>>
      BY <1>4, TakenShape
    <2>2. g = f => l # k
      BY <2>1
    <2> QED BY <2>1, <2>2
  <1>5. CASE UNCHANGED vars
    BY <1>5 DEF vars, feederVars
  <1> QED BY <1>1, <1>2, <1>3, <1>4, <1>5 DEF Next, ReceiveBind, ReceiveUnbind, ReceiveMessage

-----------------------------------------------------------------------------
(* The numbers. *)

\* What the join has and had grows by what it takes.
LEMMA GotIs ==
    ASSUME JoinTypes, Numbers, NEW f \in Feeder, NEW k \in Socket, ReceiveMessage(f, k)
    PROVE  /\ Got' \subseteq Got \cup ({Head(wire[f][k]).n} \ {Missing})
           /\ \A n \in Buffered' : \A m \in given' : made[m] = made[n] => m < n
           /\ joins' # joins => \A i \in DOMAIN joined' : joined'[i].n # Missing =>
                  \A m \in given : made[m] = made[joined'[i].n] => m < joined'[i].n
  <1>1. PICK b \in [Cid -> 0..MaxMsg] :
              /\ Taken(f, k, "data")
              /\ \A c \in Cid : b[c] = inMessages[c] \/ b[c] = Head(wire[f][k]).n
              /\ \/ /\ joined' = FinalMsg(b)
                    /\ given' = given \cup ({m.n : m \in Range(joined')} \ {Missing})
                    /\ \A c \in Cid : inMessages'[c] = Missing
                 \/ inMessages' = b /\ UNCHANGED <<joined, joins, given>>
    BY MessageShape
  <1>2. PICK h : h = Head(wire[f][k]).n
    OBVIOUS
  <1>3. h # Missing => /\ made[h] = <<f, k>> /\ \A m \in Got : made[m] = <<f, k>> => m < h
    <2>1. /\ wire[f][k] \in Seq(Message) /\ wire[f][k] # <<>>
      BY <1>1, TakenShape
    <2>2. Numbered(wire[f][k], <<f, k>>, made, Got)
      BY DEF Numbers
    <2>3. wire[f][k][1] = Head(wire[f][k]) /\ 1 \in DOMAIN wire[f][k]
      BY <2>1, Tailed
    <2> QED BY <1>2, <2>2, <2>3 DEF Numbered
  <1>4. \A c \in Cid : inMessages[c] # Missing => inMessages[c] \in Buffered
    BY DEF Buffered
  <1>5. \A c \in Cid : b[c] # Missing =>
            /\ b[c] \in Got \cup ({h} \ {Missing})
            /\ \A m \in given : made[m] = made[b[c]] => m < b[c]
    BY <1>1, <1>2, <1>3, <1>4 DEF Got, Numbers
  <1>6. CASE inMessages' = b /\ UNCHANGED <<joined, joins, given>>
    <2>1. \A n \in Buffered' : \E c \in Cid : n = b[c] /\ b[c] # Missing
      BY <1>6 DEF Buffered
    <2>2. Got' \subseteq Got \cup ({h} \ {Missing})
      BY <1>5, <1>6, <2>1 DEF Got
    <2> QED BY <1>2, <1>5, <1>6, <2>1, <2>2
  <1>7. CASE /\ joined' = FinalMsg(b)
             /\ given' = given \cup ({m.n : m \in Range(joined')} \ {Missing})
             /\ \A c \in Cid : inMessages'[c] = Missing
    <2>1. Buffered' = {}
      BY <1>7 DEF Buffered
    <2>2. ASSUME NEW i \in DOMAIN joined', joined'[i].n # Missing
          PROVE  \E c \in Cid : b[c] = joined'[i].n
      <3>1. /\ FinalMsg(b) \in Seq([op : Cid, n : 0..MaxMsg])
            /\ \A j \in DOMAIN FinalMsg(b) :
                   FinalMsg(b)[j].n # Missing => FinalMsg(b)[j].n = b[FinalMsg(b)[j].op]
        BY FinalMsgIs
      <3>2. PICK q \in Seq([op : Cid, n : 0..MaxMsg]) : q = FinalMsg(b)
        BY <3>1
      <3>3. i \in DOMAIN q /\ q[i] = joined'[i]
        BY <1>7, <2>2, <3>2
      <3>4. q[i].n = b[q[i].op]
        BY <2>2, <3>1, <3>2, <3>3
      <3>5. q[i] \in [op : Cid, n : 0..MaxMsg]
        BY <3>3, ElementOfSeq, LenProperties
      <3> QED BY <3>3, <3>4, <3>5
    <2>3. \A m \in Range(joined') : m.n # Missing => \E c \in Cid : b[c] = m.n
      BY <2>2 DEF Range
    <2>4. given' \subseteq Got \cup ({h} \ {Missing})
      BY <1>5, <1>7, <2>3 DEF Got
    <2> QED BY <1>2, <1>5, <2>1, <2>2, <2>4 DEF Got
  <1> QED BY <1>1, <1>6, <1>7

\* One message is taken, and the join has no more than that.
LEMMA TakenNumbers ==
    ASSUME JoinTypes, Numbers, NEW f \in Feeder, NEW k \in Socket, NEW kind, Taken(f, k, kind),
           Got' \subseteq Got \cup ({Head(wire[f][k]).n} \ {Missing}),
           \A n \in Buffered' : \A m \in given' : made[m] = made[n] => m < n
    PROVE  Numbers'
  <1>1. /\ wire[f][k] \in Seq(Message) /\ wire[f][k] # <<>>
        /\ wire'[f][k] = Tail(wire[f][k])
        /\ \A l \in Socket : l # k => wire'[f][l] = wire[f][l]
        /\ \A g \in Feeder : g # f => wire'[g] = wire[g]
        /\ made' = made
    BY TakenShape
  <1>2. PICK q \in Seq(Message) : q = wire[f][k]
    BY <1>1
  <1>3. PICK h : h = Head(q).n
    OBVIOUS
  <1>4. PICK more : more = Got'
    OBVIOUS
  <1>5. more \subseteq Got \cup ({h} \ {Missing})
    BY <1>2, <1>3, <1>4
  <1>6. Numbered(q, <<f, k>>, made, Got)
    BY <1>2 DEF Numbers
  <1>7. h # Missing => h \in 1..Len(made) /\ made[h] = <<f, k>>
    <2>1. q[1] = Head(q) /\ 1 \in DOMAIN q
      BY <1>1, <1>2, Tailed
    <2> QED BY <1>3, <1>6, <2>1 DEF Numbered
  <1>8. more \subseteq 1..Len(made)
    BY <1>5, <1>7 DEF Numbers
  <1>9. ASSUME NEW g \in Feeder, NEW l \in Socket PROVE Numbered(wire'[g][l], <<g, l>>, made, more)
    <2>1. CASE g = f /\ l = k
      <3>1. Numbered(Tail(q), <<f, k>>, made, more)
        BY <1>1, <1>2, <1>3, <1>5, <1>6, NumberedRest
      <3> QED BY <1>1, <1>2, <2>1, <3>1
    <2>2. CASE ~ (g = f /\ l = k)
      <3>1. wire'[g][l] = wire[g][l] /\ <<g, l>> # <<f, k>>
        BY <1>1, <2>2
      <3>2. Numbered(wire[g][l], <<g, l>>, made, Got)
        BY DEF Numbers
      <3>3. \A m \in more : m \in Got \/ made[m] # <<g, l>>
        BY <1>5, <1>7, <3>1
      <3>4. Numbered(wire[g][l], <<g, l>>, made, more)
        BY <3>2, <3>3, NumberedOther
      <3> QED BY <3>1, <3>4
    <2> QED BY <2>1, <2>2
  <1> QED BY <1>1, <1>4, <1>8, <1>9 DEF Numbers

\* A set-up message has no number.
LEMMA SetUpNumbers ==
    ASSUME JoinTypes, Numbers, UNCHANGED <<made, given, inMessages>>,
           \A g \in Feeder, l \in Socket :
               wire'[g][l] \in {wire[g][l], Append(wire[g][l], SetUp("bind")),
                                Append(wire[g][l], SetUp("unbind"))}
    PROVE  Numbers'
  <1>1. Got' = Got /\ Buffered' = Buffered
    BY DEF Got, Buffered
  <1>2. ASSUME NEW g \in Feeder, NEW l \in Socket PROVE Numbered(wire'[g][l], <<g, l>>, made, Got)
    <2>1. PICK q \in Seq(Message) : q = wire[g][l]
      BY DEF JoinTypes
    <2>2. Numbered(q, <<g, l>>, made, Got)
      BY <2>1 DEF Numbers
    <2>3. Len(made) \in Nat
      BY LenProperties DEF JoinTypes
    <2>4. ASSUME NEW e \in Message, e.n = Missing PROVE Numbered(Append(q, e), <<g, l>>, made, Got)
      BY <2>2, <2>3, <2>4, NumberedPut
    <2>5. /\ Numbered(Append(q, SetUp("bind")), <<g, l>>, made, Got)
          /\ Numbered(Append(q, SetUp("unbind")), <<g, l>>, made, Got)
      BY <2>4, Kinds
    <2> QED BY <2>1, <2>2, <2>5
  <1> QED BY <1>1, <1>2 DEF Numbers

\* A new message has the next number.
LEMMA SendNumbers ==
    ASSUME JoinTypes, Numbers, NEW f \in Feeder, Send(f)
    PROVE  Numbers'
  <1>1. PICK k \in sockets[f], n \in {Missing, Len(made) + 1} :
              /\ k \in Socket /\ Len(made) \in Nat /\ Data(n) \in Message
              /\ made' = Append(made, <<f, k>>) /\ Len(made') = Len(made) + 1
              /\ made'[Len(made) + 1] = <<f, k>>
              /\ \A i \in 1..Len(made) : made'[i] = made[i]
              /\ Put(f, k, Data(n))
              /\ UNCHANGED joinVars
    BY SendShape
  <1>2. Got' = Got /\ Buffered' = Buffered /\ given' = given
    BY <1>1 DEF Got, Buffered, joinVars
  <1>3. /\ wire'[f][k] = Append(wire[f][k], Data(n)) /\ wire[f][k] \in Seq(Message)
        /\ \A l \in Socket : l # k => wire'[f][l] = wire[f][l]
        /\ \A g \in Feeder : g # f => wire'[g] = wire[g]
    BY <1>1, PutShape
  <1>4. Got \subseteq 1..Len(made)
    BY DEF Numbers
  <1>5. ASSUME NEW g \in Feeder, NEW l \in Socket
        PROVE  Numbered(wire[g][l], <<g, l>>, made', Got)
    <2>1. Numbered(wire[g][l], <<g, l>>, made, Got)
      BY DEF Numbers
    <2>2. made \in Seq(Feeder \X Socket) /\ <<f, k>> \in Feeder \X Socket
      BY <1>1 DEF JoinTypes
    <2>3. Numbered(wire[g][l], <<g, l>>, Append(made, <<f, k>>), Got)
      BY <1>4, <2>1, <2>2, NumberedMade
    <2> QED BY <1>1, <2>3
  <1>6. Numbered(wire'[f][k], <<f, k>>, made', Got)
    <2>1. PICK q \in Seq(Message) : q = wire[f][k]
      BY <1>3
    <2>2. PICK e \in Message : e = Data(n)
      BY <1>1
    <2>3. e.n = n
      BY <2>2, Kinds
    <2>4. \A i \in DOMAIN q : q[i].n \in 0..Len(made)
      <3>1. \A i \in DOMAIN q : q[i].n # Missing => q[i].n \in 1..Len(made)
        <4>1. Numbered(q, <<f, k>>, made, Got)
          BY <1>1, <2>1 DEF Numbers
        <4> QED BY <4>1 DEF Numbered
      <3> QED BY <1>1, <3>1 DEF Missing
    <2>5. Numbered(q, <<f, k>>, made', Got)
      BY <1>1, <1>5, <2>1
    <2>6. e.n # Missing => /\ e.n \in 1..Len(made') /\ made'[e.n] = <<f, k>>
                           /\ \A m \in Got : made'[m] = <<f, k>> => m < e.n
                           /\ \A i \in DOMAIN q : q[i].n < e.n
      BY <1>1, <1>4, <2>3, <2>4
    <2>7. PICK ms : ms = made'
      OBVIOUS
    <2>8. Len(ms) \in Nat
      BY <1>1, <2>7
    <2>9. Numbered(Append(q, e), <<f, k>>, ms, Got)
      BY <2>5, <2>6, <2>7, <2>8, NumberedPut
    <2> QED BY <1>3, <2>1, <2>2, <2>7, <2>9
  <1>7. ASSUME NEW g \in Feeder, NEW l \in Socket
        PROVE  Numbered(wire'[g][l], <<g, l>>, made', Got)
    BY <1>3, <1>5, <1>6
  <1>8. \A m \in Buffered : \A i \in given : made'[i] = made'[m] => i < m
    BY <1>1, <1>4 DEF Numbers, Got
  <1>9. Got \subseteq 1..Len(made')
    BY <1>1, <1>4
  <1> QED BY <1>2, <1>7, <1>8, <1>9 DEF Numbers

LEMMA NumbersInit == Init => Numbers
  <1> SUFFICES ASSUME Init PROVE Numbers
    OBVIOUS
  <1>1. Got = {} /\ Buffered = {}
    BY DEF Init, Got, Buffered, Missing
  <1>2. \A f \in Feeder, k \in Socket : wire[f][k] = <<>>
    BY DEF Init
  <1> QED BY <1>1, <1>2 DEF Numbers, Numbered

LEMMA NumbersStep == JoinTypes /\ Numbers /\ [Next]_vars => Numbers'
  <1> SUFFICES ASSUME JoinTypes, Numbers, [Next]_vars PROVE Numbers'
    OBVIOUS
  <1>1. ASSUME NEW f \in Feeder, BindNode(f) PROVE Numbers'
    <2>1. PICK k \in Socket : Put(f, k, SetUp("bind")) /\ UNCHANGED <<made, joinVars>>
      BY <1>1, BindShape
    <2>2. /\ wire'[f][k] = Append(wire[f][k], SetUp("bind"))
          /\ \A l \in Socket : l # k => wire'[f][l] = wire[f][l]
          /\ \A g \in Feeder : g # f => wire'[g] = wire[g]
      BY <2>1, Kinds, PutShape
    <2>3. \A g \in Feeder, l \in Socket :
              wire'[g][l] \in {wire[g][l], Append(wire[g][l], SetUp("bind")),
                               Append(wire[g][l], SetUp("unbind"))}
      BY <2>2
    <2> QED BY <2>1, <2>3, SetUpNumbers DEF joinVars
  <1>2. ASSUME NEW f \in Feeder, UnbindNode(f) PROVE Numbers'
    <2>1. PICK kept \in SUBSET sockets[f] :
              /\ \A k \in Socket :
                     wire'[f][k] = IF k \in sockets[f] \ kept
                                   THEN Append(wire[f][k], SetUp("unbind")) ELSE wire[f][k]
              /\ \A g \in Feeder : g # f => wire'[g] = wire[g]
              /\ UNCHANGED <<made, joinVars>>
      BY <1>2, UnbindShape
    <2>2. \A g \in Feeder, l \in Socket :
              wire'[g][l] \in {wire[g][l], Append(wire[g][l], SetUp("bind")),
                               Append(wire[g][l], SetUp("unbind"))}
      BY <2>1
    <2> QED BY <2>1, <2>2, SetUpNumbers DEF joinVars
  <1>3. ASSUME NEW f \in Feeder, Send(f) PROVE Numbers'
    BY <1>3, SendNumbers
  <1>4. ASSUME NEW f \in Feeder, NEW k \in Socket, NEW kind, Taken(f, k, kind),
               UNCHANGED <<inMessages, joined, joins, given>>
        PROVE  Numbers'
    <2>1. Got' = Got /\ Buffered' = Buffered
      BY <1>4 DEF Got, Buffered
    <2>2. \A n \in Buffered' : \A m \in given' : made[m] = made[n] => m < n
      BY <1>4, <2>1 DEF Numbers
    <2> QED BY <1>4, <2>1, <2>2, TakenNumbers
  <1>5. ASSUME NEW f \in Feeder, NEW k \in Socket, ReceiveMessage(f, k) PROVE Numbers'
    <2>1. Taken(f, k, "data")
      BY <1>5 DEF ReceiveMessage
    <2> QED BY <1>5, <2>1, GotIs, TakenNumbers
  <1>6. CASE UNCHANGED vars
    BY <1>6 DEF vars, feederVars, joinVars, Numbers, Got, Buffered
  <1> QED BY <1>1, <1>2, <1>3, <1>4, <1>5, <1>6 DEF Next, ReceiveBind, ReceiveUnbind

-----------------------------------------------------------------------------
(* The shape of sockets that follow each other. *)

\* An operator whose workers and place are not concerned.
LEMMA ShapeElsewhere ==
    ASSUME NEW c, ShapeOf(c), c \in Connected' <=> c \in Connected,
           \A g \in Feeder : OperatorOf[g] = c =>
               wire'[g] = wire[g] /\ sockets'[g] = sockets[g]
    PROVE  ShapeOf(c)'
  <1>1. \A g \in Feeder, l \in Socket : OperatorOf[g] = c => (Live(g, l)' <=> Live(g, l))
    BY DEF Live
  <1>2. Follows(c)' <=> Follows(c)
    BY <1>1 DEF Follows
  <1>3. ASSUME NEW g \in Feeder, NEW l \in Socket, OperatorOf[g] = c, Live(g, l)
        PROVE  Formed(wire'[g][l], l \in sockets'[g], c \in Connected')
    <2>1. Formed(wire[g][l], l \in sockets[g], c \in Connected)
      BY <1>3 DEF ShapeOf
    <2> QED BY <1>3, <2>1 DEF Formed
  <1> QED BY <1>1, <1>2, <1>3 DEF ShapeOf

\* An operator with one socket, of whatever state.
LEMMA ShapeOne ==
    ASSUME NEW f \in Feeder, NEW k \in Socket, NEW c, c = OperatorOf[f],
           \A g \in Feeder, l \in Socket :
               OperatorOf[g] = c /\ Live(g, l)' => g = f /\ l = k,
           Formed(wire'[f][k], k \in sockets'[f], c \in Connected')
    PROVE  ShapeOf(c)'
  <1>1. c \in Connected' => Live(f, k)'
    BY DEF Live, Formed
  <1> QED BY <1>1 DEF ShapeOf, Follows

\* The operator of a live socket has it alone.
LEMMA OnlySocket ==
    ASSUME Shapes, NEW f \in Feeder, NEW k \in Socket, NEW c, c = OperatorOf[f], Live(f, k),
           c \notin crowded
    PROVE  /\ \A g \in Feeder, l \in Socket : OperatorOf[g] = c /\ Live(g, l) => g = f /\ l = k
           /\ Formed(wire[f][k], k \in sockets[f], c \in Connected)
  <1>1. ShapeOf(c)
    BY JoinAssumption DEF Shapes
  <1> QED BY <1>1 DEF ShapeOf

LEMMA ShapesBind ==
    ASSUME JoinTypes, Unused, Shapes, NEW f \in Feeder, BindNode(f)
    PROVE  Shapes'
  <1>1. PICK k \in Socket :
              /\ k = binds[f] + 1 /\ binds[f] \in Nat
              /\ sockets' = [sockets EXCEPT ![f] = @ \cup {k}]
              /\ Put(f, k, SetUp("bind"))
              /\ crowded' = crowded \cup {c \in {OperatorOf[f]} : Follows(c)}
              /\ UNCHANGED <<made, joinVars>>
    BY BindShape
  <1>2. /\ wire'[f][k] = Append(wire[f][k], SetUp("bind")) /\ wire[f][k] \in Seq(Message)
        /\ \A l \in Socket : l # k => wire'[f][l] = wire[f][l]
        /\ \A g \in Feeder : g # f => wire'[g] = wire[g]
    BY <1>1, Kinds, PutShape
  <1>3. Connected' = Connected
    BY <1>1 DEF Connected, joinVars
  <1> SUFFICES ASSUME NEW c \in Cid \ crowded' PROVE ShapeOf(c)'
    BY DEF Shapes
  <1>4. c \notin crowded /\ ShapeOf(c)
    BY <1>1 DEF Shapes
  <1>5. CASE c # OperatorOf[f]
    <2>1. \A g \in Feeder : OperatorOf[g] = c => wire'[g] = wire[g] /\ sockets'[g] = sockets[g]
      BY <1>1, <1>2, <1>5 DEF JoinTypes
    <2> QED BY <1>3, <1>4, <2>1, ShapeElsewhere
  <1>6. CASE c = OperatorOf[f]
    <2>1. ~ Follows(c)
      BY <1>1, <1>6
    <2>2. c \notin Connected
      BY <1>4, <2>1 DEF ShapeOf
    <2>3. \A g \in Feeder, l \in Socket : OperatorOf[g] = c => ~ Live(g, l)
      BY <2>1 DEF Follows
    <2>4. wire[f][k] = <<>> /\ \A l \in Socket : l \notin sockets[f] /\ wire[f][l] = <<>>
      BY <1>6, <2>3 DEF Live
    <2>5. Formed(wire'[f][k], TRUE, FALSE)
      BY <1>2, <2>4, FormedBind
    <2>6. sockets'[f] = {k}
      BY <1>1, <2>4 DEF JoinTypes
    <2>7. Formed(wire'[f][k], k \in sockets'[f], c \in Connected')
      BY <1>3, <2>2, <2>5, <2>6 DEF Formed
    <2>8. ASSUME NEW g \in Feeder, NEW l \in Socket, OperatorOf[g] = c, Live(g, l)'
          PROVE  g = f /\ l = k
      <3>1. CASE g # f
        <4>1. Live(g, l)
          BY <1>1, <1>2, <2>8, <3>1 DEF Live, JoinTypes
        <4> QED BY <2>3, <2>8, <4>1
      <3>2. CASE g = f /\ l # k
        BY <1>2, <2>4, <2>6, <2>8, <3>2 DEF Live
      <3> QED BY <3>1, <3>2
    <2> QED BY <1>6, <2>7, <2>8, ShapeOne
  <1> QED BY <1>5, <1>6

LEMMA ShapesUnbind ==
    ASSUME JoinTypes, Shapes, NEW f \in Feeder, UnbindNode(f)
    PROVE  Shapes'
  <1>1. PICK kept \in SUBSET sockets[f] :
              /\ sockets[f] # {} /\ \A k \in sockets[f] : sockets[f] = {k} => kept = {}
              /\ sockets' = [sockets EXCEPT ![f] = kept]
              /\ \A k \in Socket :
                     wire'[f][k] = IF k \in sockets[f] \ kept
                                   THEN Append(wire[f][k], SetUp("unbind")) ELSE wire[f][k]
              /\ \A g \in Feeder : g # f => wire'[g] = wire[g]
              /\ UNCHANGED <<crowded, joinVars>>
    BY UnbindShape
  <1>2. Connected' = Connected
    BY <1>1 DEF Connected, joinVars
  <1> SUFFICES ASSUME NEW c \in Cid \ crowded' PROVE ShapeOf(c)'
    BY DEF Shapes
  <1>3. c \notin crowded /\ ShapeOf(c)
    BY <1>1 DEF Shapes
  <1>4. CASE c # OperatorOf[f]
    <2>1. \A g \in Feeder : OperatorOf[g] = c => wire'[g] = wire[g] /\ sockets'[g] = sockets[g]
      BY <1>1, <1>4 DEF JoinTypes
    <2> QED BY <1>2, <1>3, <2>1, ShapeElsewhere
  <1>5. CASE c = OperatorOf[f]
    <2>1. PICK k \in Socket : k \in sockets[f]
      BY <1>1 DEF JoinTypes
    <2>2. Live(f, k)
      BY <2>1 DEF Live
    <2>3. /\ \A g \in Feeder, l \in Socket : OperatorOf[g] = c /\ Live(g, l) => g = f /\ l = k
          /\ Formed(wire[f][k], k \in sockets[f], c \in Connected)
      BY <1>3, <1>5, <2>2, OnlySocket
    <2>4. sockets[f] = {k}
      BY <1>5, <2>1, <2>3 DEF Live, JoinTypes
    <2>5. kept = {} /\ sockets'[f] = {}
      BY <1>1, <2>1, <2>4 DEF JoinTypes
    <2>6. wire'[f][k] = Append(wire[f][k], SetUp("unbind"))
      BY <1>1, <2>1, <2>5
    <2>7. Formed(wire'[f][k], k \in sockets'[f], c \in Connected')
      <3>1. PICK q \in Seq(Message) : q = wire[f][k]
        BY DEF JoinTypes
      <3>2. \A j \in BOOLEAN : Formed(q, TRUE, j) =>
                Formed(Append(q, SetUp("unbind")), FALSE, j)
        BY Kinds, FormedPut
      <3>3. CASE c \in Connected
        <4>1. Formed(q, TRUE, TRUE)
          BY <2>1, <2>3, <3>1, <3>3 DEF Formed
        <4>2. Formed(wire'[f][k], FALSE, TRUE)
          BY <2>6, <3>1, <3>2, <4>1
        <4> QED BY <1>2, <2>5, <3>3, <4>2 DEF Formed
      <3>4. CASE c \notin Connected
        <4>1. Formed(q, TRUE, FALSE)
          BY <2>1, <2>3, <3>1, <3>4 DEF Formed
        <4>2. Formed(wire'[f][k], FALSE, FALSE)
          BY <2>6, <3>1, <3>2, <4>1
        <4> QED BY <1>2, <2>5, <3>4, <4>2 DEF Formed
      <3> QED BY <3>3, <3>4
    <2>8. ASSUME NEW g \in Feeder, NEW l \in Socket, OperatorOf[g] = c, Live(g, l)'
          PROVE  g = f /\ l = k
      <3>1. CASE g # f
        <4>1. Live(g, l)
          BY <1>1, <2>8, <3>1 DEF Live, JoinTypes
        <4> QED BY <2>3, <2>8, <4>1
      <3>2. CASE g = f /\ l # k
        <4>1. Live(g, l)
          BY <1>1, <2>4, <2>5, <2>8, <3>2 DEF Live
        <4> QED BY <2>3, <2>8, <4>1
      <3> QED BY <3>1, <3>2
    <2> QED BY <1>5, <2>7, <2>8, ShapeOne
  <1> QED BY <1>4, <1>5

LEMMA ShapesSend ==
    ASSUME JoinTypes, Shapes, NEW f \in Feeder, Send(f)
    PROVE  Shapes'
  <1>1. PICK k \in sockets[f], n \in {Missing, Len(made) + 1} :
              /\ k \in Socket /\ Data(n) \in Message /\ Put(f, k, Data(n))
              /\ UNCHANGED <<sockets, crowded, joinVars>>
    BY SendShape
  <1>2. /\ wire'[f][k] = Append(wire[f][k], Data(n)) /\ wire[f][k] \in Seq(Message)
        /\ \A l \in Socket : l # k => wire'[f][l] = wire[f][l]
        /\ \A g \in Feeder : g # f => wire'[g] = wire[g]
    BY <1>1, PutShape
  <1>3. Connected' = Connected
    BY <1>1 DEF Connected, joinVars
  <1> SUFFICES ASSUME NEW c \in Cid \ crowded' PROVE ShapeOf(c)'
    BY DEF Shapes
  <1>4. c \notin crowded /\ ShapeOf(c)
    BY <1>1 DEF Shapes
  <1>5. CASE c # OperatorOf[f]
    <2>1. \A g \in Feeder : OperatorOf[g] = c => wire'[g] = wire[g] /\ sockets'[g] = sockets[g]
      BY <1>1, <1>2, <1>5
    <2> QED BY <1>3, <1>4, <2>1, ShapeElsewhere
  <1>6. CASE c = OperatorOf[f]
    <2>1. Live(f, k)
      BY DEF Live
    <2>2. /\ \A g \in Feeder, l \in Socket : OperatorOf[g] = c /\ Live(g, l) => g = f /\ l = k
          /\ Formed(wire[f][k], k \in sockets[f], c \in Connected)
      BY <1>1, <1>4, <1>6, <2>1, OnlySocket
    <2>3. Formed(wire'[f][k], k \in sockets'[f], c \in Connected')
      <3>1. PICK q \in Seq(Message) : q = wire[f][k]
        BY <1>2
      <3>2. PICK e \in Message : e = Data(n)
        BY <1>1
      <3>3. e.kind = "data"
        BY <3>2, Kinds
      <3>4. \A j \in BOOLEAN : Formed(q, TRUE, j) => Formed(Append(q, e), TRUE, j)
        BY <3>3, FormedPut
      <3>5. CASE c \in Connected
        <4>1. Formed(q, TRUE, TRUE)
          BY <1>1, <2>2, <3>1, <3>5 DEF Formed
        <4>2. Formed(wire'[f][k], TRUE, TRUE)
          BY <1>2, <3>1, <3>2, <3>4, <4>1
        <4> QED BY <1>1, <1>3, <3>5, <4>2 DEF Formed
      <3>6. CASE c \notin Connected
        <4>1. Formed(q, TRUE, FALSE)
          BY <1>1, <2>2, <3>1, <3>6 DEF Formed
        <4>2. Formed(wire'[f][k], TRUE, FALSE)
          BY <1>2, <3>1, <3>2, <3>4, <4>1
        <4> QED BY <1>1, <1>3, <3>6, <4>2 DEF Formed
      <3> QED BY <3>5, <3>6
    <2>4. ASSUME NEW g \in Feeder, NEW l \in Socket, OperatorOf[g] = c, Live(g, l)'
          PROVE  g = f /\ l = k
      <3>1. CASE ~ (g = f /\ l = k)
        <4>1. Live(g, l)
          BY <1>1, <1>2, <2>4, <3>1 DEF Live
        <4> QED BY <2>2, <2>4, <4>1
      <3> QED BY <3>1
    <2> QED BY <1>1, <1>6, <2>3, <2>4, ShapeOne
  <1> QED BY <1>5, <1>6

\* A set-up message changes what the join knows of the one operator.
LEMMA ShapesTaken ==
    ASSUME JoinTypes, Shapes, NEW f \in Feeder, NEW k \in Socket, NEW kind, Taken(f, k, kind),
           \A c \in Cid : c # OperatorOf[f] => (c \in Connected' <=> c \in Connected),
           \/ kind = "bind" /\ OperatorOf[f] \in Connected'
           \/ kind = "unbind" /\ OperatorOf[f] \notin Connected'
           \/ kind = "data" /\ Connected' = Connected
    PROVE  Shapes'
  <1>1. /\ wire[f][k] \in Seq(Message) /\ wire[f][k] # <<>> /\ Head(wire[f][k]).kind = kind
        /\ wire'[f][k] = Tail(wire[f][k])
        /\ \A l \in Socket : l # k => wire'[f][l] = wire[f][l]
        /\ \A g \in Feeder : g # f => wire'[g] = wire[g]
        /\ UNCHANGED <<sockets, crowded>>
    BY TakenShape
  <1> SUFFICES ASSUME NEW c \in Cid \ crowded' PROVE ShapeOf(c)'
    BY DEF Shapes
  <1>2. c \notin crowded /\ ShapeOf(c)
    BY <1>1 DEF Shapes
  <1>3. CASE c # OperatorOf[f]
    <2>1. \A g \in Feeder : OperatorOf[g] = c => wire'[g] = wire[g] /\ sockets'[g] = sockets[g]
      BY <1>1, <1>3
    <2> QED BY <1>2, <1>3, <2>1, ShapeElsewhere
  <1>4. CASE c = OperatorOf[f]
    <2>1. Live(f, k)
      BY <1>1 DEF Live
    <2>2. /\ \A g \in Feeder, l \in Socket : OperatorOf[g] = c /\ Live(g, l) => g = f /\ l = k
          /\ Formed(wire[f][k], k \in sockets[f], c \in Connected)
      BY <1>2, <1>4, <2>1, OnlySocket
    <2>3. Formed(wire'[f][k], k \in sockets'[f], c \in Connected')
      <3>1. PICK q \in Seq(Message) : q = wire[f][k]
        BY <1>1
      <3>2. PICK b \in BOOLEAN : b <=> k \in sockets[f]
        OBVIOUS
      <3>3. PICK j \in BOOLEAN : j <=> c \in Connected
        OBVIOUS
      <3>4. PICK g \in BOOLEAN : g <=> c \in Connected'
        OBVIOUS
      <3>5. Formed(q, b, j)
        BY <2>2, <3>1, <3>2, <3>3 DEF Formed
      <3>6. Head(q).kind = "bind" <=> ~ j
        BY <1>1, <3>1, <3>5, FormedRest
      <3>7. g <=> Head(q).kind # "unbind"
        BY <1>1, <1>4, <3>1, <3>3, <3>4, <3>6
      <3>8. Formed(Tail(q), b, g)
        BY <1>1, <3>1, <3>5, <3>7, FormedRest
      <3> QED BY <1>1, <3>1, <3>2, <3>4, <3>8 DEF Formed
    <2>4. ASSUME NEW g \in Feeder, NEW l \in Socket, OperatorOf[g] = c, Live(g, l)'
          PROVE  g = f /\ l = k
      <3>1. CASE ~ (g = f /\ l = k)
        <4>1. Live(g, l)
          BY <1>1, <2>4, <3>1 DEF Live
        <4> QED BY <2>2, <2>4, <4>1
      <3> QED BY <3>1
    <2> QED BY <1>4, <2>3, <2>4, ShapeOne
  <1> QED BY <1>3, <1>4

-----------------------------------------------------------------------------
(* The join worker: what it knows, and the places. *)

\* An operator out of the crowd whose unbind is taken was connected.
LEMMA WasConnected ==
    ASSUME JoinTypes, Shapes, NEW f \in Feeder, NEW k \in Socket, Taken(f, k, "unbind"),
           OperatorOf[f] \notin crowded
    PROVE  OperatorOf[f] \in Connected
  <1>1. /\ wire[f][k] \in Seq(Message) /\ wire[f][k] # <<>> /\ Head(wire[f][k]).kind = "unbind"
    BY TakenShape
  <1>2. Live(f, k)
    BY <1>1 DEF Live
  <1>3. Formed(wire[f][k], k \in sockets[f], OperatorOf[f] \in Connected)
    BY <1>2, OnlySocket
  <1>4. Head(wire[f][k]) = wire[f][k][1]
    BY <1>1, Tailed
  <1> QED BY <1>1, <1>3, <1>4 DEF Formed

LEMMA KnownBind ==
    ASSUME JoinTypes, Shapes, Ordered, NEW f \in Feeder, NEW k \in Socket, ReceiveBind(f, k)
    PROVE  Shapes' /\ Ordered'
  <1>1. PICK c \in Cid : c = OperatorOf[f]
    BY JoinAssumption
  <1>2. /\ Taken(f, k, "bind") /\ inConnections' = [inConnections EXCEPT ![c] = "true"]
        /\ cbOrdering' = OrderJoined(c)
    BY <1>1 DEF ReceiveBind
  <1>3. Connected' = Connected \cup {c}
    BY <1>2 DEF JoinTypes, Connected
  <1>4. Shapes'
    BY <1>1, <1>2, <1>3, ShapesTaken
  <1>5. crowded' = crowded
    BY <1>2, TakenShape
  <1>6. CASE c \in Connected
    <2>1. cbOrdering' = cbOrdering /\ Connected' = Connected
      BY <1>2, <1>3, <1>6 DEF OrderJoined, Connected
    <2> QED BY <1>4, <1>5, <2>1 DEF Ordered
  <1>7. CASE c \notin Connected
    <2>1. cbOrdering' = Append(cbOrdering, c) /\ c \notin Range(cbOrdering)
      BY <1>2, <1>7 DEF OrderJoined, Connected, Ordered
    <2>2. IsInjective(cbOrdering') /\ Range(cbOrdering') = Range(cbOrdering) \cup {c}
      BY <2>1, AppendOrder DEF JoinTypes, Ordered
    <2> QED BY <1>3, <1>4, <1>5, <2>2 DEF Ordered
  <1> QED BY <1>6, <1>7

LEMMA KnownUnbind ==
    ASSUME JoinTypes, Shapes, Ordered, NEW f \in Feeder, NEW k \in Socket, ReceiveUnbind(f, k)
    PROVE  Shapes' /\ Ordered'
  <1>1. PICK c \in Cid : c = OperatorOf[f]
    BY JoinAssumption
  <1>2. /\ Taken(f, k, "unbind") /\ inConnections' = [inConnections EXCEPT ![c] = "undefined"]
        /\ cbOrdering' = OrderLeft(c)
    BY <1>1 DEF ReceiveUnbind, Disconnected
  <1>3. Connected' = Connected \ {c}
    BY <1>2 DEF JoinTypes, Connected
  <1>4. Shapes'
    BY <1>1, <1>2, <1>3, ShapesTaken
  <1>5. crowded' = crowded
    BY <1>2, TakenShape
  <1>6. /\ IsInjective(cbOrdering')
        /\ Range(cbOrdering') \subseteq Range(cbOrdering) \ {c}
        /\ c \in Range(cbOrdering) => Range(cbOrdering') = Range(cbOrdering) \ {c}
    BY <1>2, OrderLeftIs
  <1>7. crowded = {} => c \in Range(cbOrdering)
    BY <1>1, <1>2, WasConnected DEF Ordered
  <1> QED BY <1>3, <1>4, <1>5, <1>6, <1>7 DEF Ordered

LEMMA KnownInit == Init => Shapes /\ Ordered
  <1> SUFFICES ASSUME Init PROVE Shapes /\ Ordered
    OBVIOUS
  <1>1. cbOrdering = <<>> /\ inConnections = [c \in Cid |-> "none"]
    BY DEF Init
  <1>2. Connected = {} /\ Range(cbOrdering) = {} /\ IsInjective(cbOrdering)
    BY <1>1 DEF Connected, Range, IsInjective
  <1>3. \A f \in Feeder, k \in Socket : ~ Live(f, k)
    BY DEF Init, Live
  <1> QED BY <1>2, <1>3 DEF Shapes, ShapeOf, Ordered

LEMMA KnownStep == JoinTypes /\ Unused /\ Shapes /\ Ordered /\ [Next]_vars => Shapes' /\ Ordered'
  <1> SUFFICES ASSUME JoinTypes, Unused, Shapes, Ordered, [Next]_vars PROVE Shapes' /\ Ordered'
    OBVIOUS
  <1>1. ASSUME UNCHANGED <<inConnections, cbOrdering>>, crowded \subseteq crowded' PROVE Ordered'
    BY <1>1 DEF Ordered, Connected
  <1>2. ASSUME NEW f \in Feeder, BindNode(f) \/ UnbindNode(f) \/ Send(f) PROVE Shapes' /\ Ordered'
    <2>1. UNCHANGED <<inConnections, cbOrdering>> /\ crowded \subseteq crowded'
      BY <1>2 DEF BindNode, UnbindNode, Send, joinVars
    <2> QED BY <1>1, <1>2, <2>1, ShapesBind, ShapesUnbind, ShapesSend
  <1>3. ASSUME NEW f \in Feeder, NEW k \in Socket, ReceiveBind(f, k) PROVE Shapes' /\ Ordered'
    BY <1>3, KnownBind
  <1>4. ASSUME NEW f \in Feeder, NEW k \in Socket, ReceiveUnbind(f, k) PROVE Shapes' /\ Ordered'
    BY <1>4, KnownUnbind
  <1>5. ASSUME NEW f \in Feeder, NEW k \in Socket, ReceiveMessage(f, k) PROVE Shapes' /\ Ordered'
    <2>1. Taken(f, k, "data") /\ UNCHANGED <<inConnections, cbOrdering>>
      BY <1>5 DEF ReceiveMessage
    <2>2. Connected' = Connected /\ crowded' = crowded
      BY <2>1, TakenShape DEF Connected
    <2> QED BY <1>1, <2>1, <2>2, ShapesTaken
  <1>6. CASE UNCHANGED vars
    <2>1. Connected' = Connected
      BY <1>6 DEF vars, joinVars, Connected
    <2>2. UNCHANGED <<wire, sockets, crowded, inConnections, cbOrdering>>
      BY <1>6 DEF vars, joinVars, feederVars
    <2>3. \A c : ShapeOf(c) => ShapeOf(c)'
      BY <2>1, <2>2, ShapeElsewhere
    <2> QED BY <1>1, <2>2, <2>3 DEF Shapes
  <1> QED BY <1>2, <1>3, <1>4, <1>5, <1>6 DEF Next

-----------------------------------------------------------------------------
(* The theorems. *)

LEMMA JoinStep == JInv /\ [Next]_vars => JInv'
  BY TypesStep, UnusedStep, NumbersStep, KnownStep DEF JInv

\* The inductive invariant, for any operators, workers and sockets: the messages in a
\* socket are numbered upwards from what the join has of it, and an operator's only
\* socket holds a bind first and an unbind last.
THEOREM JoinInvariance == Spec => []JInv
  <1>1. Init => JInv
    BY TypesInit, NumbersInit, KnownInit DEF JInv
  <1> QED BY <1>1, JoinStep, PTL DEF Spec

\* When all that the workers of an operator sent is taken, the join waits for it if and
\* only if one of them is bound (bind, koala.js:183-191, and unbind, 194-199), as long as
\* its sockets followed each other.
THEOREM JoinKnows == Spec => []KnowsOperators
  <1>1. JInv => KnowsOperators
    <2> SUFFICES ASSUME JInv, NEW c \in Cid \ crowded,
                        \A f \in Feeder, k \in Socket : OperatorOf[f] = c => wire[f][k] = <<>>
                 PROVE  c \in Connected <=> \E f \in Feeder : OperatorOf[f] = c /\ sockets[f] # {}
      BY DEF KnowsOperators
    <2>1. ShapeOf(c) /\ JoinTypes
      BY DEF JInv, Shapes
    <2>2. ASSUME c \in Connected
          PROVE  \E f \in Feeder : OperatorOf[f] = c /\ sockets[f] # {}
      BY <2>1, <2>2 DEF ShapeOf, Follows, Live
    <2>3. ASSUME NEW f \in Feeder, OperatorOf[f] = c, sockets[f] # {}
          PROVE  c \in Connected
      <3>1. PICK k \in Socket : k \in sockets[f]
        BY <2>1, <2>3 DEF JoinTypes
      <3>2. Formed(wire[f][k], k \in sockets[f], c \in Connected) /\ wire[f][k] = <<>>
        BY <2>1, <2>3, <3>1 DEF ShapeOf, Live
      <3> QED BY <3>1, <3>2 DEF Formed
    <2> QED BY <2>2, <2>3
  <1> QED BY <1>1, JoinInvariance, PTL

\* Each place in the script's array is that of an operator connected and of no other
\* place (koala.js:188-198), whatever overtakes what; no operator connected is without
\* one while the sockets of each follow each other; and the join's state has its type.
THEOREM JoinOrder == Spec => []OrderIsConnected
  <1>1. JInv => OrderIsConnected
    <2> SUFFICES ASSUME JInv PROVE OrderIsConnected
      OBVIOUS
    <2>1. JoinTypes /\ Ordered
      BY DEF JInv
    <2>2. /\ cbOrdering \in Seq(Cid) /\ DOMAIN cbOrdering = 1..Len(cbOrdering)
          /\ Len(cbOrdering) \in Nat /\ cbOrdering \in [1..Len(cbOrdering) -> Cid]
      BY <2>1, LenProperties DEF JoinTypes
    <2>3. cbOrdering \in Injection(1..Len(cbOrdering), Cid)
      BY <2>1, <2>2 DEF Injection, IsInjective, Ordered
    <2>4. IsFiniteSet(1..Len(cbOrdering)) /\ Cardinality(1..Len(cbOrdering)) = Len(cbOrdering)
      BY <2>2, FS_Interval
    <2>5. Len(cbOrdering) <= Cardinality(Cid)
      BY <2>3, <2>4, FS_Injection, JoinAssumption
    <2>6. TypeOK
      BY <2>1, <2>5 DEF TypeOK, JoinTypes
    <2> QED BY <2>1, <2>6 DEF OrderIsConnected, IsInjective, Ordered
  <1> QED BY <1>1, JoinInvariance, PTL

\* Only a message makes the join give.
LEMMA JoinGives ==
    ASSUME JInv, [Next]_vars, joins' # joins
    PROVE  \E f \in Feeder, k \in Socket : ReceiveMessage(f, k)
  <1>1. ~ UNCHANGED vars
    BY DEF vars, joinVars
  <1> QED BY <1>1 DEF Next, BindNode, UnbindNode, Send, ReceiveBind, ReceiveUnbind, joinVars

\* No message is given to the script twice, nor after a later one of its socket
\* (koala.js:294-319), however many sockets there are and however binds, unbinds and
\* messages interleave.
THEOREM JoinNeverAgain == Spec => NeverAgain
  <1>1. JInv /\ [Next]_vars =>
            [joins' # joins =>
                \A i \in DOMAIN joined' : joined'[i].n # Missing =>
                    \A m \in given : made[m] = made[joined'[i].n] => m < joined'[i].n]_vars
    <2> SUFFICES ASSUME JInv, [Next]_vars, joins' # joins
                 PROVE  \A i \in DOMAIN joined' : joined'[i].n # Missing =>
                            \A m \in given : made[m] = made[joined'[i].n] => m < joined'[i].n
      OBVIOUS
    <2>1. PICK f \in Feeder, k \in Socket : ReceiveMessage(f, k)
      BY JoinGives
    <2> QED BY <2>1, GotIs DEF JInv
  <1> QED BY <1>1, JoinInvariance, PTL DEF Spec, NeverAgain

\* When the operators upstream are 0, 1, ... and the sockets of each follow each other,
\* each join gives the script a message of every operator connected ("check if all the
\* messages of the join have been received", koala.js:299).
THEOREM JoinWhole == Spec => JoinIsWhole
  <1>1. JInv /\ [Next]_vars =>
            [joins' # joins /\ FromZero /\ crowded = {} =>
                \A c \in Connected : \E i \in DOMAIN joined' :
                    joined'[i].op = c /\ joined'[i].n # Missing]_vars
    <2> SUFFICES ASSUME JInv, [Next]_vars, joins' # joins, FromZero, crowded = {},
                        NEW c \in Connected
                 PROVE  \E i \in DOMAIN joined' : joined'[i].op = c /\ joined'[i].n # Missing
      OBVIOUS
    <2>1. PICK b \in [Cid -> 0..MaxMsg] : AllReceived(b) /\ joined' = FinalMsg(b)
      <3>1. PICK f \in Feeder, k \in Socket : ReceiveMessage(f, k)
        BY JoinGives
      <3> QED BY <3>1, MessageShape DEF JInv
    <2>2. c \in Cid /\ c \in Nat /\ c \in Entries /\ b[c] # Missing
      BY <2>1, JoinAssumption DEF Connected, Entries, AllReceived
    <2>3. PICK i \in DOMAIN cbOrdering : cbOrdering[i] = c
      BY DEF JInv, Ordered, Range
    <2>4. PICK at \in DOMAIN Keys : Keys[at] = c
      BY <2>2, KeysAre
    <2>5. at = c + 1
      <3>1. at \in Nat /\ Keys[at] = at - 1
        BY KeysAre DEF FromZero
      <3> QED BY <2>2, <2>4, <3>1
    <2>6. FinalMsg(b)[i] = [op |-> c, n |-> b[c]]
      BY <2>3, <2>4, <2>5 DEF FinalMsg
    <2>7. i \in DOMAIN joined'
      BY <2>1, <2>3, FinalMsgIs DEF JInv
    <2> QED BY <2>1, <2>2, <2>6, <2>7
  <1> QED BY <1>1, JoinInvariance, PTL DEF Spec, JoinIsWhole
=============================================================================
