------------------------- MODULE TopologyStartProofs -------------------------
(***************************************************************************)
(* Two arguments, for any peers, operators and number of registrations and *)
(* losses.  Every channel of the root has an entry of its own in the list  *)
(* of nodes (RInv).  And the start of a topology is two counts (SInv): of  *)
(* the answers find_host counted and those still to come, which are no     *)
(* more than the nodes there were when it asked (Tally), so it calls back  *)
(* once; and of the operators that ran and whose reply is no longer to     *)
(* come, which nodes_run never exceeds (Counted), so the bindings wait for *)
(* all of them.                                                            *)
(***************************************************************************)
EXTENDS TopologyStart, FiniteSetTheorems, SequenceTheorems, TLAPS

RegistryTypes ==
    /\ node_uid \in Nat
    /\ live \subseteq Id
    /\ pending \in [Id -> Host \cup {Nobody}]
    /\ nodes \in [Id -> Peer \cup {Nobody}]

\* An id that was not handed out yet is of no one; a host has at most one
\* registration on its way, and none while a channel to it works.
Fresh == \A i \in Id : i >= node_uid => pending[i] = Nobody /\ nodes[i] = Nobody
OnePending ==
    \A i, j \in Id : (i # j /\ pending[i] # Nobody) => pending[j] # pending[i]
PendingIsNew ==
    \A i \in Id, j \in live : pending[i] # Nobody => nodes[j] # pending[i]

RInv == RegistryTypes /\ OneEntryEach /\ Fresh /\ OnePending /\ PendingIsNew

RegDefs == <<node_uid, pending, nodes, live>>

LEMMA RegistryInit == Init => RInv
  BY DEF Init, RInv, RegistryTypes, OneEntryEach, Fresh, OnePending, PendingIsNew

\* What the start of a topology does leaves the registry alone.
LEMMA StartLeaves ==
    ASSUME NEW i \in Id, Serve(i) \/ Exec
    PROVE  UNCHANGED RegDefs
  BY DEF Serve, Exec, PeerStep, Usage, Ran, BoundCb, registry, RegDefs

LEMMA RegisterStep ==
    ASSUME RInv, NEW h \in Host, RegisterNewNode(h)
    PROVE  RInv'
  <1> USE TopologyAssumption DEF RInv
  <1>1. /\ node_uid \in Id /\ node_uid' = node_uid + 1
        /\ pending' = [pending EXCEPT ![node_uid] = h] /\ h # Nobody
        /\ UNCHANGED <<nodes, live>>
    BY DEF RegisterNewNode, UidTaken, RegistryTypes, Id, Peer
  <1>2. /\ nodes[node_uid] = Nobody /\ pending[node_uid] = Nobody
    BY <1>1 DEF Fresh, RegistryTypes
  <1>3. /\ \A j \in Id : pending[j] # h
        /\ \A j \in live : nodes[j] # h
    BY DEF RegisterNewNode, Connected, RegistryTypes
  <1>4. RegistryTypes'
    BY <1>1 DEF RegistryTypes
  <1>5. OneEntryEach'
    BY <1>1, <1>2 DEF RegistryTypes, OneEntryEach
  <1>6. Fresh'
    BY <1>1 DEF RegistryTypes, Fresh, Id
  <1>7. OnePending'
    BY <1>1, <1>3 DEF RegistryTypes, OnePending
  <1>8. PendingIsNew'
    BY <1>1, <1>3 DEF RegistryTypes, PendingIsNew
  <1> QED BY <1>4, <1>5, <1>6, <1>7, <1>8

LEMMA ConnectBackStep ==
    ASSUME RInv, NEW i \in Id, ConnectBack(i)
    PROVE  RInv'
  <1> USE TopologyAssumption DEF RInv
  <1>1. /\ pending[i] \in Host /\ pending[i] # Nobody
        /\ pending' = [pending EXCEPT ![i] = Nobody]
        /\ nodes' = [nodes EXCEPT ![i] = pending[i]]
        /\ live' = live \cup {i} /\ node_uid' = node_uid
    BY DEF ConnectBack, List, RegistryTypes
  <1>2. nodes[i] = Nobody /\ i \notin live
    BY <1>1 DEF OneEntryEach
  <1>3. RegistryTypes'
    BY <1>1 DEF RegistryTypes, Peer
  <1>4. OneEntryEach'
    <2>1. \A j \in live' : nodes'[j] # Nobody
      BY <1>1 DEF RegistryTypes, OneEntryEach
    <2>2. \A j \in Id : pending'[j] # Nobody => nodes'[j] = Nobody
      BY <1>1 DEF RegistryTypes, OneEntryEach
    <2>3. \A j, k \in live' : j # k => nodes'[j] # nodes'[k]
      BY <1>1, <1>2 DEF RegistryTypes, OneEntryEach, PendingIsNew
    <2> QED BY <2>1, <2>2, <2>3 DEF OneEntryEach
  <1>5. Fresh'
    BY <1>1 DEF RegistryTypes, Fresh
  <1>6. OnePending'
    BY <1>1 DEF RegistryTypes, OnePending
  <1>7. PendingIsNew'
    BY <1>1 DEF RegistryTypes, PendingIsNew, OnePending
  <1> QED BY <1>3, <1>4, <1>5, <1>6, <1>7

LEMMA RegisterRemoteStep ==
    ASSUME RInv, NEW b \in Browser, RegisterNewRemoteNode(b)
    PROVE  RInv'
  <1> USE TopologyAssumption DEF RInv
  <1>1. /\ node_uid \in Id /\ node_uid' = node_uid + 1
        /\ nodes' = [nodes EXCEPT ![node_uid] = b] /\ b # Nobody /\ b \in Peer
        /\ live' = live \cup {node_uid} /\ pending' = pending
    BY DEF RegisterNewRemoteNode, List, RegistryTypes, Id, Peer
  <1>2. pending[node_uid] = Nobody
    BY <1>1 DEF Fresh, RegistryTypes
  <1>3. \A j \in live : nodes[j] # b
    BY DEF RegisterNewRemoteNode, Connected, RegistryTypes
  <1>4. \A j \in Id : pending[j] # b
    BY <1>1 DEF RegistryTypes
  <1>5. RegistryTypes'
    BY <1>1 DEF RegistryTypes
  <1>6. OneEntryEach'
    BY <1>1, <1>2, <1>3 DEF RegistryTypes, OneEntryEach
  <1>7. Fresh'
    BY <1>1 DEF RegistryTypes, Fresh, Id
  <1>8. OnePending'
    BY <1>1 DEF OnePending
  <1>9. PendingIsNew'
    BY <1>1, <1>4 DEF RegistryTypes, PendingIsNew
  <1> QED BY <1>5, <1>6, <1>7, <1>8, <1>9

LEMMA LossStep ==
    ASSUME RInv, NEW i \in Id, LoseHost(i) \/ NowjsLeave(i)
    PROVE  RInv'
  <1>1. /\ live' = live \ {i} /\ node_uid' = node_uid /\ pending' = pending
        /\ nodes' = nodes \/ nodes' = [nodes EXCEPT ![i] = Nobody]
    BY DEF LoseHost, NowjsLeave, Drop, registry
  <1> QED BY <1>1 DEF RInv, RegistryTypes, OneEntryEach, Fresh, OnePending, PendingIsNew

LEMMA RegistryUnchanged == RInv /\ UNCHANGED RegDefs => RInv'
  BY DEF RInv, RegistryTypes, OneEntryEach, Fresh, OnePending, PendingIsNew, RegDefs

LEMMA RegistryStep == RInv /\ [Next]_vars => RInv'
  <1> SUFFICES ASSUME RInv, [Next]_vars PROVE RInv'
    OBVIOUS
  <1>1. ASSUME NEW h \in Host, RegisterNewNode(h) PROVE RInv'
    BY <1>1, RegisterStep
  <1>2. ASSUME NEW b \in Browser, RegisterNewRemoteNode(b) PROVE RInv'
    BY <1>2, RegisterRemoteStep
  <1>3. ASSUME NEW i \in Id, ConnectBack(i) PROVE RInv'
    BY <1>3, ConnectBackStep
  <1>4. ASSUME NEW i \in Id, LoseHost(i) \/ NowjsLeave(i) PROVE RInv'
    BY <1>4, LossStep
  <1>5. ASSUME NEW i \in Id, Serve(i) PROVE RInv'
    BY <1>5, StartLeaves, RegistryUnchanged
  <1>6. CASE Exec
    <2>1. 0 \in Id
      BY TopologyAssumption DEF Id
    <2> QED BY <1>6, <2>1, StartLeaves, RegistryUnchanged
  <1>7. CASE UNCHANGED vars
    BY <1>7, RegistryUnchanged DEF vars, registry, RegDefs
  <1> QED BY <1>1, <1>2, <1>3, <1>4, <1>5, <1>6, <1>7 DEF Next

\* Whatever registrations overtake each other, and whatever connections are lost
\* and made again, every channel belongs to the one peer listed under its id
\* (koala_root.js 224-279, 752-780; koala_node.js 1955-1978).
THEOREM EntriesSafe == Spec => []OneEntryEach
  <1>1. RInv => OneEntryEach
    BY DEF RInv
  <1> QED BY RegistryInit, RegistryStep, <1>1, PTL DEF Spec

-----------------------------------------------------------------------------
(* The start of a topology: its inductive invariant. *)

UsageMsg(o) == [cmd |-> "cpu_usage", op |-> o]
RunMsg(c)   == [cmd |-> "run_cluster", cid |-> c]
Tracked     == {UsageMsg(o) : o \in Op} \cup {RunMsg(c) : c \in Cid}

NodeTypes ==
    /\ length \in Nat /\ length <= node_uid /\ node_uid <= MaxId
    /\ \A i \in Id : nodes[i] # Nobody => i < length
QueueTypes == calls \in [Id -> Seq(Call)] /\ replies \in [Id -> Seq(Call)]
FindTypes ==
    /\ execd \in BOOLEAN /\ asked.length \in Nat
    /\ find \in [Op -> [counter : Nat, node_index : Id \cup {Nobody}]]
OperatorTypes ==
    /\ cluster_id \in Nat /\ nodes_run \in Nat
    /\ clusters \in [Cid -> [alias : Op, node : Id] \cup {Nobody}]
    /\ ran \in [Peer -> SUBSET Cid] /\ collecting \subseteq Host
StartTypes == NodeTypes /\ QueueTypes /\ FindTypes /\ OperatorTypes

\* What is under way over the channel of i, and who has to answer find_host yet.
Sent(i) == Range(calls[i]) \cup Range(replies[i])
Open(o) == {i \in Id : UsageMsg(o) \in Sent(i)}

\* Nothing is under way where no channel works; only hosts collect.
Channels ==
    \A i \in Id : /\ i \notin live => calls[i] = <<>> /\ replies[i] = <<>>
                  /\ [cmd |-> "start_controller"] \in Range(calls[i]) => nodes[i] \in Host

\* A question of find_host is on its way once in a channel, an operator to run once
\* in all of them.
Once(q, m) == \A k, l \in DOMAIN q : (q[k] = m /\ q[l] = m) => k = l
OnceEach ==
    \A i \in Id, m \in Tracked : /\ Once(calls[i], m) /\ Once(replies[i], m)
                                 /\ m \in Range(calls[i]) => m \notin Range(replies[i])
RunOnce ==
    \A i, j \in Id, c \in Cid : (i # j /\ RunMsg(c) \in Sent(i)) => RunMsg(c) \notin Sent(j)

\* find_host counts every node once.
Before ==
    ~ execd => /\ cluster_id = 0 /\ \A o \in Op : find[o].counter = 0
               /\ \A i \in Id : calls[i] = <<>> /\ replies[i] = <<>>
Tally ==
    execd => /\ asked.length <= length
             /\ \A o \in Op : find[o].counter + Cardinality(Open(o)) <= asked.length

\* An operator that was given a cid is one whose find_host has heard of every node.
Heard == {o \in Op : find[o].counter = asked.length}
Starts ==
    /\ cluster_id <= Cardinality(Heard) \/ cluster_id = 0
    /\ \A c \in Cid : clusters[c] # Nobody => c < cluster_id /\ clusters[c].alias \in Heard

\* Only an operator with a cid is run, and the reply comes after.
HasRun(c) == \E p \in Peer : c \in ran[p]
Runs ==
    \A c \in Cid : /\ HasRun(c) \/ (\E i \in Id : RunMsg(c) \in Sent(i)) => c < cluster_id
                   /\ \A i \in Id : RunMsg(c) \in Range(replies[i]) => HasRun(c)

\* The operators that ran and will not be counted any more.
Over == {c \in Cid : HasRun(c) /\ \A i \in Id : RunMsg(c) \notin Sent(i)}
Counted == nodes_run <= Cardinality(Over)

SInv ==
    /\ RInv /\ StartTypes /\ Channels /\ OnceEach /\ RunOnce
    /\ Before /\ Tally /\ Starts /\ Runs /\ Counted /\ BoundAfterRun

-----------------------------------------------------------------------------
(* Queues. *)

\* The members of a queue that grows by one.
LEMMA RangeAppend ==
    ASSUME NEW S, NEW q \in Seq(S), NEW e \in S
    PROVE  Append(q, e) \in Seq(S) /\ Range(Append(q, e)) = Range(q) \cup {e}
  <1>1. /\ Append(q, e) \in Seq(S) /\ Len(Append(q, e)) = Len(q) + 1 /\ Len(q) \in Nat
        /\ \A i \in 1..Len(q) : Append(q, e)[i] = q[i]
        /\ Append(q, e)[Len(q) + 1] = e
    BY AppendProperties
  <1>2. DOMAIN q = 1..Len(q) /\ DOMAIN Append(q, e) = 1..(Len(q) + 1)
    BY <1>1
  <1>3. \A i \in 1..(Len(q) + 1) : i = Len(q) + 1 \/ i \in 1..Len(q)
    BY <1>1
  <1>4. Range(Append(q, e)) \subseteq Range(q) \cup {e}
    BY <1>1, <1>2, <1>3 DEF Range
  <1>5. \A i \in 1..Len(q) : i \in 1..(Len(q) + 1)
    BY <1>1
  <1>6. Len(q) + 1 \in 1..(Len(q) + 1)
    BY <1>1
  <1>7. Range(q) \cup {e} \subseteq Range(Append(q, e))
    BY <1>1, <1>2, <1>5, <1>6 DEF Range
  <1> QED BY <1>1, <1>4, <1>7

\* The members of a queue are its head and those of its tail.
LEMMA RangeHeadTail ==
    ASSUME NEW S, NEW q \in Seq(S), q # <<>>
    PROVE  /\ Head(q) \in S /\ Tail(q) \in Seq(S)
           /\ Range(q) = {Head(q)} \cup Range(Tail(q))
  <1>1. /\ Head(q) \in S /\ Head(q) = q[1] /\ Tail(q) \in Seq(S)
        /\ Len(q) \in Nat \ {0} /\ Len(Tail(q)) = Len(q) - 1
        /\ \A i \in 1..(Len(q) - 1) : Tail(q)[i] = q[i + 1]
    BY HeadTailProperties
  <1>2. DOMAIN q = 1..Len(q) /\ DOMAIN Tail(q) = 1..(Len(q) - 1)
    BY <1>1
  <1>3. \A i \in 1..Len(q) : i = 1 \/ (i - 1 \in 1..(Len(q) - 1) /\ (i - 1) + 1 = i)
    BY <1>1
  <1>4. \A i \in 1..(Len(q) - 1) : i + 1 \in 1..Len(q)
    BY <1>1
  <1>5. 1 \in 1..Len(q)
    BY <1>1
  <1>6. Range(q) \subseteq {Head(q)} \cup Range(Tail(q))
    <2> SUFFICES ASSUME NEW i \in 1..Len(q) PROVE q[i] \in {Head(q)} \cup Range(Tail(q))
      BY <1>2 DEF Range
    <2>1. CASE i = 1
      BY <1>1, <2>1
    <2>2. CASE i # 1
      <3>1. i - 1 \in DOMAIN Tail(q) /\ Tail(q)[i - 1] = q[i]
        BY <1>1, <1>2, <1>3, <2>2
      <3> QED BY <3>1 DEF Range
    <2> QED BY <2>1, <2>2
  <1>7. {Head(q)} \cup Range(Tail(q)) \subseteq Range(q)
    BY <1>1, <1>2, <1>4, <1>5 DEF Range
  <1> QED BY <1>1, <1>6, <1>7

\* A message that is not there may join a queue.
LEMMA OnceAppend ==
    ASSUME NEW S, NEW q \in Seq(S), NEW e \in S, NEW m, Once(q, m), e = m => m \notin Range(q)
    PROVE  Once(Append(q, e), m)
  <1>1. /\ Append(q, e) \in Seq(S) /\ Len(Append(q, e)) = Len(q) + 1 /\ Len(q) \in Nat
        /\ \A i \in 1..Len(q) : Append(q, e)[i] = q[i]
        /\ Append(q, e)[Len(q) + 1] = e
    BY AppendProperties
  <1>2. DOMAIN q = 1..Len(q) /\ DOMAIN Append(q, e) = 1..(Len(q) + 1)
    BY <1>1
  <1>3. \A i \in 1..(Len(q) + 1) : i = Len(q) + 1 \/ i \in 1..Len(q)
    BY <1>1
  <1>4. \A i \in 1..Len(q) : e = m => q[i] # m
    BY <1>2 DEF Range
  <1> QED BY <1>1, <1>2, <1>3, <1>4 DEF Once

\* A message that is there once is gone when it has been taken.
LEMMA OnceTail ==
    ASSUME NEW S, NEW q \in Seq(S), q # <<>>, NEW m, Once(q, m)
    PROVE  Once(Tail(q), m) /\ (Head(q) = m => m \notin Range(Tail(q)))
  <1>1. /\ Head(q) = q[1] /\ Tail(q) \in Seq(S)
        /\ Len(q) \in Nat \ {0} /\ Len(Tail(q)) = Len(q) - 1
        /\ \A i \in 1..(Len(q) - 1) : Tail(q)[i] = q[i + 1]
    BY HeadTailProperties
  <1>2. DOMAIN q = 1..Len(q) /\ DOMAIN Tail(q) = 1..(Len(q) - 1)
    BY <1>1
  <1>3. \A i \in 1..(Len(q) - 1) : i + 1 \in 1..Len(q) /\ i + 1 # 1 /\ 1 \in 1..Len(q)
    BY <1>1
  <1>4. \A i, j \in 1..(Len(q) - 1) : i + 1 = j + 1 => i = j
    OBVIOUS
  <1>5. Once(Tail(q), m)
    BY <1>1, <1>2, <1>3, <1>4 DEF Once
  <1>6. \A i \in 1..(Len(q) - 1) : Head(q) = m => Tail(q)[i] # m
    BY <1>1, <1>2, <1>3 DEF Once
  <1> QED BY <1>2, <1>5, <1>6 DEF Range

\* Other messages may follow it.
LEMMA OnceConcat ==
    ASSUME NEW S, NEW q \in Seq(S), NEW t \in Seq(S), NEW m, Once(q, m), m \notin Range(t)
    PROVE  Once(q \o t, m)
  <1>1. /\ q \o t \in Seq(S) /\ Len(q \o t) = Len(q) + Len(t) /\ Len(q) \in Nat /\ Len(t) \in Nat
        /\ \A i \in 1..(Len(q) + Len(t)) :
               (q \o t)[i] = IF i <= Len(q) THEN q[i] ELSE t[i - Len(q)]
    BY ConcatProperties
  <1>2. DOMAIN q = 1..Len(q) /\ DOMAIN t = 1..Len(t) /\ DOMAIN (q \o t) = 1..(Len(q) + Len(t))
    BY <1>1
  <1>3. \A i \in 1..(Len(q) + Len(t)) : (q \o t)[i] = m => i \in 1..Len(q) /\ q[i] = m
    <2> SUFFICES ASSUME NEW i \in 1..(Len(q) + Len(t)), (q \o t)[i] = m PROVE i \in 1..Len(q) /\ q[i] = m
      OBVIOUS
    <2>1. CASE i <= Len(q)
      BY <1>1, <2>1
    <2>2. CASE ~ (i <= Len(q))
      <3>1. i - Len(q) \in 1..Len(t) /\ t[i - Len(q)] = m
        BY <1>1, <2>2
      <3> QED BY <1>2, <3>1 DEF Range
    <2> QED BY <2>1, <2>2
  <1> QED BY <1>2, <1>3 DEF Once

\* The calls of each kind.
LEMMA CallForms ==
    /\ \A m \in Call : /\ m.cmd = "cpu_usage" => m.op \in Op /\ m = UsageMsg(m.op)
                       /\ m.cmd = "run_cluster" => m.cid \in Cid /\ m = RunMsg(m.cid)
                       /\ m.cmd \notin {"cpu_usage", "run_cluster"} => m \notin Tracked
    /\ \A m \in Tracked : m \in Call /\ m.cmd \in {"cpu_usage", "run_cluster"}
    /\ \A o, p : UsageMsg(o) = UsageMsg(p) => o = p
    /\ \A c, d : RunMsg(c) = RunMsg(d) => c = d
    /\ \A o, c : UsageMsg(o) # RunMsg(c)
    /\ \A o \in Op : UsageMsg(o) \in Tracked
    /\ \A c \in Cid : RunMsg(c) \in Tracked
  <1>1. \A o, p : UsageMsg(o).cmd = "cpu_usage" /\ UsageMsg(o).op = o
    BY DEF UsageMsg
  <1>2. \A c : RunMsg(c).cmd = "run_cluster" /\ RunMsg(c).cid = c
    BY DEF RunMsg
  <1>3. \A m \in Call : m.cmd = "cpu_usage" => m.op \in Op /\ m = UsageMsg(m.op)
    BY DEF Call, UsageMsg
  <1>4. \A m \in Call : m.cmd = "run_cluster" => m.cid \in Cid /\ m = RunMsg(m.cid)
    BY DEF Call, RunMsg
  <1>5. /\ \A o \in Op : UsageMsg(o) \in Tracked /\ UsageMsg(o) \in Call
        /\ \A c \in Cid : RunMsg(c) \in Tracked /\ RunMsg(c) \in Call
    BY DEF Tracked, UsageMsg, RunMsg, Call
  <1>6. \A m \in Tracked : m.cmd \in {"cpu_usage", "run_cluster"} /\ m \in Call
    BY <1>1, <1>2, <1>5 DEF Tracked
  <1> HIDE DEF UsageMsg, RunMsg
  <1> QED BY <1>1, <1>2, <1>3, <1>4, <1>5, <1>6

\* The sizes of what is counted.
LEMMA Sizes ==
    /\ IsFiniteSet(Id) /\ IsFiniteSet(Op) /\ IsFiniteSet(Cid)
    /\ Len(Operators) \in Nat
    /\ Cardinality(Op) = Len(Operators) /\ Cardinality(Cid) = Len(Operators)
  <1>1. IsFiniteSet(Id)
    BY TopologyAssumption, FS_Interval DEF Id
  <1>2. Operators \in Seq(Op) /\ Range(Operators) = Op /\ IsInjective(Operators)
    BY TopologyAssumption
  <1>3. Len(Operators) \in Nat /\ Operators \in [1..Len(Operators) -> Op] /\ DOMAIN Operators = 1..Len(Operators)
    BY <1>2, LenProperties
  <1>4. IsFiniteSet(Cid) /\ Cardinality(Cid) = Len(Operators)
    BY <1>3, FS_Interval DEF Cid
  <1>5. IsFiniteSet(1..Len(Operators)) /\ Cardinality(1..Len(Operators)) = Len(Operators)
    BY <1>3, FS_Interval
  <1>6. Operators \in Surjection(1..Len(Operators), Op) /\ Operators \in Injection(1..Len(Operators), Op)
    BY <1>2, <1>3 DEF Surjection, Injection, Range
  <1>7. IsFiniteSet(Op) /\ Cardinality(Op) = Len(Operators)
    BY <1>5, <1>6, FS_Surjection
  <1> QED BY <1>1, <1>3, <1>4, <1>7

-----------------------------------------------------------------------------
(* Initial states, and steps that send no question and no operator. *)

LEMMA StartInit == Init => SInv
  <1> SUFFICES ASSUME Init PROVE SInv
    OBVIOUS
  <1>1. RInv
    BY RegistryInit
  <1> USE DEF Init
  <1>2. \A i \in Id : calls[i] = <<>> /\ replies[i] = <<>> /\ Range(calls[i]) = {} /\ Range(replies[i]) = {}
    BY DEF Range
  <1>3. \A i \in Id : Sent(i) = {}
    BY <1>2 DEF Sent
  <1>4. StartTypes
    <2>1. <<>> \in Seq(Call)
      BY EmptySeq
    <2>2. QueueTypes
      BY <2>1 DEF QueueTypes
    <2>3. FindTypes /\ OperatorTypes
      BY DEF FindTypes, OperatorTypes
    <2>4. NodeTypes
      BY TopologyAssumption DEF NodeTypes
    <2> QED BY <2>2, <2>3, <2>4 DEF StartTypes
  <1>5. Channels /\ OnceEach
    BY <1>2 DEF Channels, OnceEach, Once
  <1>6. RunOnce
    BY <1>3 DEF RunOnce
  <1>7. Before /\ Tally
    BY <1>2 DEF Before, Tally
  <1>8. Starts
    BY DEF Starts
  <1>9. Runs
    <2>1. \A c \in Cid : ~ HasRun(c)
      BY DEF HasRun
    <2> QED BY <1>2, <1>3, <2>1 DEF Runs
  <1>10. Counted
    <2>1. Over \subseteq Cid
      BY DEF Over
    <2>2. Cardinality(Over) \in Nat
      BY <2>1, Sizes, FS_Subset, FS_CardinalityType
    <2> QED BY <2>2 DEF Counted
  <1>11. BoundAfterRun
    BY DEF BoundAfterRun, StartedOnce
  <1> QED BY <1>1, <1>4, <1>5, <1>6, <1>7, <1>8, <1>9, <1>10, <1>11 DEF SInv

\* What remains when no question and no operator to run is new on its way, and what
\* was counted stays.
LEMMA Remains ==
    ASSUME SInv,
           \A i \in Id : \A m \in Tracked : m \in Sent(i)' => m \in Sent(i),
           UNCHANGED <<execd, find, asked, cluster_id, nodes_run, bound>>,
           length \in Nat, length' \in Nat, length' >= length,
           \A c \in Cid : clusters'[c] = clusters[c] \/ clusters'[c] = Nobody,
           \A p \in Peer : ran[p] \subseteq ran'[p]
    PROVE  RunOnce' /\ Tally' /\ Starts' /\ Counted' /\ BoundAfterRun'
  <1> USE DEF SInv
  <1>1. RunOnce'
    BY CallForms DEF RunOnce
  <1>2. Tally'
    <2> SUFFICES ASSUME execd
                 PROVE  /\ asked.length <= length'
                        /\ \A o \in Op : find[o].counter + Cardinality(Open(o)') <= asked.length
      BY DEF Tally
    <2>1. asked.length \in Nat /\ \A o \in Op : find[o].counter \in Nat
      BY DEF StartTypes, FindTypes
    <2>2. asked.length <= length'
      BY <2>1 DEF Tally
    <2>3. ASSUME NEW o \in Op PROVE find[o].counter + Cardinality(Open(o)') <= asked.length
      <3>1. Open(o)' \subseteq Open(o) /\ Open(o) \subseteq Id
        BY CallForms DEF Open
      <3>2. IsFiniteSet(Open(o)) /\ Cardinality(Open(o)) \in Nat
        BY <3>1, Sizes, FS_Subset, FS_CardinalityType
      <3>3. Cardinality(Open(o)') <= Cardinality(Open(o)) /\ Cardinality(Open(o)') \in Nat
        BY <3>1, <3>2, FS_Subset, FS_CardinalityType
      <3>4. find[o].counter + Cardinality(Open(o)) <= asked.length
        BY DEF Tally
      <3> QED BY <2>1, <3>2, <3>3, <3>4
    <2> QED BY <2>2, <2>3
  <1>3. Heard' = Heard
    BY DEF Heard
  <1>4. Starts'
    BY <1>3 DEF Starts
  <1>5. \A c \in Cid : HasRun(c) => HasRun(c)'
    BY DEF HasRun
  <1>6. Counted'
    <2>1. Over \subseteq Over' /\ Over' \subseteq Cid
      BY <1>5, CallForms DEF Over
    <2>2. IsFiniteSet(Over') /\ Cardinality(Over') \in Nat
      BY <2>1, Sizes, FS_Subset, FS_CardinalityType
    <2>3. Cardinality(Over) <= Cardinality(Over') /\ Cardinality(Over) \in Nat
      BY <2>1, <2>2, FS_Subset, FS_CardinalityType
    <2> QED BY <2>2, <2>3 DEF Counted, StartTypes, OperatorTypes
  <1>7. StartedOnce'
    BY DEF BoundAfterRun, StartedOnce
  <1>8. BoundAfterRun'
    <2>1. bound' # <<>> => \A c \in Cid : HasRun(c)'
      BY <1>5 DEF BoundAfterRun, HasRun
    <2> QED BY <1>7, <2>1 DEF BoundAfterRun, HasRun
  <1> QED BY <1>1, <1>2, <1>4, <1>6, <1>8

\* The registry grows: no channel that works changes hands.
LEMMA RegistryGrows ==
    ASSUME SInv, RInv', NodeTypes', UNCHANGED <<calls, replies, start, ran, collecting>>,
           live \subseteq live', length' >= length, \A i \in live : nodes'[i] = nodes[i]
    PROVE  SInv'
  <1> USE DEF SInv
  <1>1. UNCHANGED <<execd, find, asked, cluster_id, clusters, nodes_run, bound>>
    BY DEF start
  <1>2. \A i : Sent(i)' = Sent(i)
    BY DEF Sent
  <1>3. StartTypes'
    BY <1>1 DEF StartTypes, QueueTypes, FindTypes, OperatorTypes
  <1>4. Channels'
    <2> SUFFICES ASSUME NEW i \in Id
                 PROVE  /\ i \notin live' => calls[i] = <<>> /\ replies[i] = <<>>
                        /\ [cmd |-> "start_controller"] \in Range(calls[i]) => nodes'[i] \in Host
      BY DEF Channels
    <2>1. Range(<<>>) = {}
      BY DEF Range
    <2> QED BY <2>1 DEF Channels
  <1>5. OnceEach' /\ Before'
    BY <1>1 DEF OnceEach, Before
  <1>6. RunOnce' /\ Tally' /\ Starts' /\ Counted' /\ BoundAfterRun'
    BY <1>1, <1>2, Remains DEF StartTypes, NodeTypes
  <1>7. Runs'
    BY <1>1, <1>2 DEF Runs, HasRun
  <1> QED BY <1>3, <1>4, <1>5, <1>6, <1>7

LEMMA RegistryGrowsStep ==
    ASSUME SInv, RInv',
           \/ \E h \in Host : RegisterNewNode(h)
           \/ \E b \in Browser : RegisterNewRemoteNode(b)
           \/ \E i \in Id : ConnectBack(i)
           \/ UNCHANGED vars
    PROVE  SInv'
  <1> USE DEF SInv
  <1>1. /\ node_uid \in Nat /\ length \in Nat /\ length <= node_uid /\ node_uid <= MaxId
        /\ pending \in [Id -> Host \cup {Nobody}] /\ nodes \in [Id -> Peer \cup {Nobody}]
        /\ live \subseteq Id /\ MaxId \in Nat
    BY TopologyAssumption DEF StartTypes, NodeTypes, RInv, RegistryTypes
  <1>2. ASSUME NEW h \in Host, RegisterNewNode(h) PROVE SInv'
    <2>1. /\ UNCHANGED <<calls, replies, start, ran, collecting, nodes, live, length>>
          /\ node_uid' = node_uid + 1 /\ node_uid < MaxId
      BY <1>2 DEF RegisterNewNode, UidTaken
    <2>2. NodeTypes'
      BY <1>1, <2>1 DEF StartTypes, NodeTypes
    <2> QED BY <1>1, <2>1, <2>2, RegistryGrows
  <1>3. ASSUME NEW b \in Browser, RegisterNewRemoteNode(b) PROVE SInv'
    <2>1. /\ UNCHANGED <<calls, replies, start, ran, collecting>> /\ live' = live \cup {node_uid}
          /\ node_uid' = node_uid + 1 /\ node_uid < MaxId /\ node_uid \in Id
          /\ nodes' = [nodes EXCEPT ![node_uid] = b] /\ length' = node_uid + 1
      BY <1>1, <1>3 DEF RegisterNewRemoteNode, List, Larger, Id
    <2>2. \A i \in live : i # node_uid
      BY <1>1 DEF RInv, Fresh, OneEntryEach
    <2>3. NodeTypes'
      <3>1. \A i \in Id : nodes'[i] # Nobody => i < length'
        BY <1>1, <2>1 DEF StartTypes, NodeTypes, Id
      <3> QED BY <1>1, <2>1, <3>1 DEF NodeTypes
    <2>4. \A i \in live : nodes'[i] = nodes[i]
      BY <1>1, <2>1, <2>2
    <2>5. live \subseteq live' /\ length' >= length
      BY <1>1, <2>1
    <2> QED BY <2>1, <2>3, <2>4, <2>5, RegistryGrows
  <1>4. ASSUME NEW k \in Id, ConnectBack(k) PROVE SInv'
    <2>1. /\ UNCHANGED <<calls, replies, start, ran, collecting, node_uid>> /\ live' = live \cup {k}
          /\ nodes' = [nodes EXCEPT ![k] = pending[k]] /\ length' = Larger(length, k + 1)
          /\ pending[k] # Nobody /\ k \in Nat
      BY <1>4 DEF ConnectBack, List, Id
    <2>2. k < node_uid /\ nodes[k] = Nobody /\ k \notin live
      BY <1>1, <2>1 DEF RInv, Fresh, OneEntryEach
    <2>3. length' \in Nat /\ length' >= length /\ k < length' /\ length' <= node_uid
      BY <1>1, <2>1, <2>2 DEF Larger
    <2>4. NodeTypes'
      <3>1. \A i \in Id : i \in Nat
        BY DEF Id
      <3>2. \A i \in Id : nodes'[i] # Nobody => i < length'
        BY <1>1, <2>1, <2>3, <3>1 DEF StartTypes, NodeTypes
      <3> QED BY <1>1, <2>1, <2>3, <3>2 DEF NodeTypes
    <2>5. \A i \in live : nodes'[i] = nodes[i]
      BY <1>1, <2>1, <2>2
    <2> QED BY <2>1, <2>3, <2>4, <2>5, RegistryGrows
  <1>5. CASE UNCHANGED vars
    <2>1. UNCHANGED <<calls, replies, start, ran, collecting, nodes, live, length, node_uid>>
      BY <1>5 DEF vars, registry
    <2>2. NodeTypes'
      BY <2>1 DEF StartTypes, NodeTypes
    <2> QED BY <1>1, <2>1, <2>2, RegistryGrows
  <1> QED BY <1>2, <1>3, <1>4, <1>5

\* A connection is lost with what was under way.
LEMMA LossKeeps ==
    ASSUME SInv, RInv', NEW i \in Id, LoseHost(i) \/ NowjsLeave(i)
    PROVE  SInv'
  <1> USE DEF SInv
  <1>1. /\ live' = live \ {i} /\ calls' = [calls EXCEPT ![i] = <<>>] /\ replies' = [replies EXCEPT ![i] = <<>>]
        /\ UNCHANGED <<node_uid, length, execd, find, asked, cluster_id, nodes_run, bound, ran, collecting>>
        /\ nodes' = nodes \/ nodes' = [nodes EXCEPT ![i] = Nobody]
        /\ \/ clusters' = clusters
           \/ clusters' = [c \in Cid |-> IF clusters[c] # Nobody /\ clusters[c].node = i
                                         THEN Nobody ELSE clusters[c]]
    BY DEF LoseHost, NowjsLeave, Drop, registry, start
  <1>2. /\ calls \in [Id -> Seq(Call)] /\ replies \in [Id -> Seq(Call)]
        /\ nodes \in [Id -> Peer \cup {Nobody}]
        /\ clusters \in [Cid -> [alias : Op, node : Id] \cup {Nobody}]
    BY DEF StartTypes, QueueTypes, OperatorTypes, RInv, RegistryTypes
  <1>3. /\ calls'[i] = <<>> /\ replies'[i] = <<>> /\ Range(calls'[i]) = {} /\ Range(replies'[i]) = {}
        /\ \A j \in Id : j # i => calls'[j] = calls[j] /\ replies'[j] = replies[j] /\ nodes'[j] = nodes[j]
    BY <1>1, <1>2 DEF Range
  <1>4. \A j \in Id : nodes'[j] = nodes[j] \/ nodes'[j] = Nobody
    BY <1>1, <1>2
  <1>5. \A j \in Id : \A m \in Tracked : m \in Sent(j)' => m \in Sent(j)
    BY <1>3 DEF Sent
  <1>6. \A c \in Cid : clusters'[c] = clusters[c] \/ clusters'[c] = Nobody
    BY <1>1, <1>2
  <1>7. StartTypes'
    <2>1. NodeTypes'
      BY <1>1, <1>4 DEF StartTypes, NodeTypes
    <2>2. QueueTypes'
      <3>1. <<>> \in Seq(Call)
        BY EmptySeq
      <3> QED BY <1>1, <3>1 DEF StartTypes, QueueTypes
    <2>3. FindTypes'
      BY <1>1 DEF StartTypes, FindTypes
    <2>4. OperatorTypes'
      <3>1. clusters' \in [Cid -> [alias : Op, node : Id] \cup {Nobody}]
        BY <1>1, <1>2
      <3> QED BY <1>1, <3>1 DEF StartTypes, OperatorTypes
    <2> QED BY <2>1, <2>2, <2>3, <2>4 DEF StartTypes
  <1>8. Channels'
    BY <1>1, <1>3 DEF Channels
  <1>9. OnceEach'
    <2> SUFFICES ASSUME NEW j \in Id, NEW m \in Tracked
                 PROVE  /\ Once(calls'[j], m) /\ Once(replies'[j], m)
                        /\ m \in Range(calls'[j]) => m \notin Range(replies'[j])
      BY DEF OnceEach
    <2>1. CASE j = i
      BY <1>3, <2>1 DEF Once
    <2>2. CASE j # i
      BY <1>3, <2>2 DEF OnceEach
    <2> QED BY <2>1, <2>2
  <1>10. Before'
    BY <1>1, <1>3 DEF Before
  <1>11. RunOnce' /\ Tally' /\ Starts' /\ Counted' /\ BoundAfterRun'
    <2>1. length \in Nat /\ length' = length
      BY <1>1 DEF StartTypes, NodeTypes
    <2> QED BY <1>1, <1>5, <1>6, <2>1, Remains
  <1>12. Runs'
    <2>1. \A c \in Cid : HasRun(c)' = HasRun(c)
      BY <1>1 DEF HasRun
    <2>2. \A j \in Id : Range(replies'[j]) \subseteq Range(replies[j])
      BY <1>3
    <2> QED BY <1>1, <1>5, <2>1, <2>2, CallForms DEF Runs
  <1> QED BY <1>7, <1>8, <1>9, <1>10, <1>11, <1>12

-----------------------------------------------------------------------------
(* Calls and replies. *)

\* A channel with something in it works, and its peer is listed.
LEMMA ChannelWorks ==
    ASSUME SInv, NEW i \in Id, calls[i] # <<>> \/ replies[i] # <<>>
    PROVE  i \in live /\ nodes[i] \in Peer
  BY DEF SInv, Channels, RInv, OneEntryEach, RegistryTypes

\* A reply is taken.
LEMMA ReplyTaken ==
    ASSUME SInv, NEW i \in Id, replies[i] # <<>>, replies' = [replies EXCEPT ![i] = Tail(@)]
    PROVE  /\ replies' \in [Id -> Seq(Call)] /\ Head(replies[i]) \in Call
           /\ Head(replies[i]) \in Range(replies[i])
           /\ \A j \in Id : Range(replies'[j]) \subseteq Range(replies[j])
           /\ \A j \in Id, m \in Tracked : Once(replies'[j], m)
           /\ Head(replies[i]) \in Tracked => Head(replies[i]) \notin Range(replies'[i])
           /\ \A m \in Range(replies[i]) : m = Head(replies[i]) \/ m \in Range(replies'[i])
           /\ \A j \in Id : j # i => replies'[j] = replies[j]
  <1>1. replies \in [Id -> Seq(Call)] /\ replies[i] \in Seq(Call)
    BY DEF SInv, StartTypes, QueueTypes
  <1>2. /\ Head(replies[i]) \in Call /\ Tail(replies[i]) \in Seq(Call)
        /\ Range(replies[i]) = {Head(replies[i])} \cup Range(Tail(replies[i]))
    BY <1>1, RangeHeadTail
  <1>3. replies'[i] = Tail(replies[i]) /\ \A j \in Id : j # i => replies'[j] = replies[j]
    BY <1>1
  <1>4. \A m \in Tracked : /\ Once(Tail(replies[i]), m)
                           /\ Head(replies[i]) = m => m \notin Range(Tail(replies[i]))
    BY <1>1, OnceTail DEF SInv, OnceEach
  <1>5. \A j \in Id, m \in Tracked : Once(replies'[j], m)
    BY <1>3, <1>4 DEF SInv, OnceEach
  <1>6. replies' \in [Id -> Seq(Call)]
    BY <1>1, <1>2
  <1> QED BY <1>2, <1>3, <1>4, <1>5, <1>6

LEMMA PeerKeeps == ASSUME SInv, NEW i \in Id, PeerStep(i) PROVE SInv'
  <1> USE DEF SInv
  <1>1. PICK m : m = Head(calls[i])
    OBVIOUS
  <1>2. /\ calls[i] # <<>> /\ calls' = [calls EXCEPT ![i] = Tail(@)]
        /\ replies' = IF m.cmd = "start_controller" THEN replies
                      ELSE [replies EXCEPT ![i] = Append(@, m)]
        /\ ran' = IF m.cmd = "run_cluster"
                  THEN [ran EXCEPT ![nodes[i]] = @ \cup {m.cid}] ELSE ran
        /\ collecting' = IF m.cmd = "start_controller" THEN collecting \cup {nodes[i]}
                         ELSE collecting
        /\ UNCHANGED <<registry, live, start, lost>>
    BY <1>1 DEF PeerStep
  <1>3. /\ UNCHANGED <<node_uid, pending, nodes, length, live>>
        /\ UNCHANGED <<execd, find, asked, cluster_id, clusters, nodes_run, bound>>
    BY <1>2 DEF registry, start
  <1>4. /\ calls \in [Id -> Seq(Call)] /\ replies \in [Id -> Seq(Call)]
        /\ calls[i] \in Seq(Call) /\ replies[i] \in Seq(Call) /\ ran \in [Peer -> SUBSET Cid]
    BY DEF StartTypes, QueueTypes, OperatorTypes
  <1>5. /\ m \in Call /\ Tail(calls[i]) \in Seq(Call) /\ Range(calls[i]) = {m} \cup Range(Tail(calls[i]))
    BY <1>1, <1>2, <1>4, RangeHeadTail
  <1>6. Append(replies[i], m) \in Seq(Call) /\ Range(Append(replies[i], m)) = Range(replies[i]) \cup {m}
    BY <1>4, <1>5, RangeAppend
  <1>7. /\ calls'[i] = Tail(calls[i])
        /\ replies'[i] = replies[i] \/ replies'[i] = Append(replies[i], m)
        /\ \A j \in Id : j # i => calls'[j] = calls[j] /\ replies'[j] = replies[j]
    BY <1>2, <1>4
  <1>8. i \in live /\ nodes[i] \in Peer
    BY <1>2, ChannelWorks
  <1>9. RInv'
    BY <1>3, RegistryUnchanged DEF RegDefs
  <1>10. StartTypes'
    <2>1. NodeTypes' /\ FindTypes'
      BY <1>3 DEF StartTypes, NodeTypes, FindTypes
    <2>2. QueueTypes'
      BY <1>2, <1>4, <1>5, <1>6 DEF QueueTypes
    <2>3. ran' \in [Peer -> SUBSET Cid]
      BY <1>2, <1>4, <1>5, <1>8, CallForms
    <2>4. collecting' \subseteq Host
      <3>1. m.cmd = "start_controller" => m = [cmd |-> "start_controller"]
        BY <1>5 DEF Call
      <3>2. m.cmd = "start_controller" => nodes[i] \in Host
        BY <1>5, <3>1 DEF Channels
      <3> QED BY <1>2, <3>2 DEF StartTypes, OperatorTypes
    <2>5. OperatorTypes'
      BY <1>3, <2>3, <2>4 DEF StartTypes, OperatorTypes
    <2> QED BY <2>1, <2>2, <2>5 DEF StartTypes
  <1>11. \A j \in Id : /\ Range(calls'[j]) \subseteq Range(calls[j])
                       /\ Sent(j)' \subseteq Sent(j)
    BY <1>5, <1>6, <1>7 DEF Sent
  <1>12. Channels'
    <2>1. \A j \in Id : j \notin live => j # i
      BY <1>8
    <2> QED BY <1>3, <1>7, <1>11, <2>1 DEF Channels
  <1>13. OnceEach'
    <2> SUFFICES ASSUME NEW j \in Id, NEW x \in Tracked
                 PROVE  /\ Once(calls'[j], x) /\ Once(replies'[j], x)
                        /\ x \in Range(calls'[j]) => x \notin Range(replies'[j])
      BY DEF OnceEach
    <2>1. CASE j = i
      <3>1. /\ Once(calls[i], x) /\ Once(replies[i], x)
            /\ x \in Range(calls[i]) => x \notin Range(replies[i])
        BY DEF OnceEach
      <3>2. Once(Tail(calls[i]), x) /\ (m = x => x \notin Range(Tail(calls[i])))
        BY <1>1, <1>2, <1>4, <3>1, OnceTail
      <3>3. Once(Append(replies[i], m), x)
        <4>1. m = x => x \notin Range(replies[i])
          BY <1>5, <3>1
        <4> QED BY <1>4, <1>5, <3>1, <4>1, OnceAppend
      <3> QED BY <1>5, <1>6, <1>7, <2>1, <3>1, <3>2, <3>3
    <2>2. CASE j # i
      BY <1>7, <2>2 DEF OnceEach
    <2> QED BY <2>1, <2>2
  <1>14. Before'
    BY <1>2, <1>3 DEF Before
  <1>15. \A p \in Peer : ran[p] \subseteq ran'[p]
    BY <1>2, <1>4
  <1>16. RunOnce' /\ Tally' /\ Starts' /\ Counted' /\ BoundAfterRun'
    <2>1. length \in Nat /\ length' = length
      BY <1>3 DEF StartTypes, NodeTypes
    <2> QED BY <1>3, <1>11, <1>15, <2>1, Remains
  <1>17. Runs'
    <2> SUFFICES ASSUME NEW c \in Cid
                 PROVE  /\ HasRun(c)' \/ (\E j \in Id : RunMsg(c) \in Sent(j)') => c < cluster_id
                        /\ \A j \in Id : RunMsg(c) \in Range(replies'[j]) => HasRun(c)'
      BY <1>3 DEF Runs
    <2>1. HasRun(c) => HasRun(c)'
      BY <1>15 DEF HasRun
    <2>2. RunMsg(c) = m => HasRun(c)'
      <3>1. RunMsg(c) = m => m.cmd = "run_cluster" /\ m.cid = c
        BY DEF RunMsg
      <3> QED BY <1>2, <1>4, <1>8, <3>1 DEF HasRun
    <2>3. HasRun(c)' => HasRun(c) \/ RunMsg(c) = m
      <3>1. m.cmd = "run_cluster" => m = RunMsg(m.cid)
        BY <1>5, CallForms
      <3> QED BY <1>2, <1>4, <3>1 DEF HasRun
    <2>4. HasRun(c)' \/ (\E j \in Id : RunMsg(c) \in Sent(j)') => c < cluster_id
      <3>1. m \in Sent(i)
        BY <1>5 DEF Sent
      <3> QED BY <1>11, <2>3, <3>1 DEF Runs
    <2>5. \A j \in Id : RunMsg(c) \in Range(replies'[j]) => HasRun(c)'
      BY <1>6, <1>7, <2>1, <2>2 DEF Runs
    <2> QED BY <2>4, <2>5
  <1> QED BY <1>9, <1>10, <1>12, <1>13, <1>14, <1>16, <1>17

LEMMA BoundCbKeeps == ASSUME SInv, NEW i \in Id, BoundCb(i) PROVE SInv'
  <1> USE DEF SInv
  <1> DEFINE go == [cmd |-> "start_controller"]
  <1>1. /\ replies[i] # <<>> /\ replies' = [replies EXCEPT ![i] = Tail(@)]
        /\ calls' = [k \in Id |-> IF k \in Reached \cap live /\ nodes[k] \in Host
                                  THEN Append(calls[k], go) ELSE calls[k]]
        /\ UNCHANGED <<registry, live, start, ran, collecting, lost>>
    BY DEF BoundCb
  <1>2. /\ UNCHANGED <<node_uid, pending, nodes, length, live, ran, collecting>>
        /\ UNCHANGED <<execd, find, asked, cluster_id, clusters, nodes_run, bound>>
    BY <1>1 DEF registry, start
  <1>3. calls \in [Id -> Seq(Call)] /\ go \in Call /\ go \notin Tracked
    BY CallForms DEF StartTypes, QueueTypes, Call
  <1> HIDE DEF go
  <1>4. ASSUME NEW k \in Id
        PROVE  /\ calls'[k] \in Seq(Call)
               /\ \A x \in Tracked : Once(calls'[k], x)
               /\ \A x \in Range(calls'[k]) : x \in Range(calls[k]) \/ x = go
               /\ calls'[k] # calls[k] => k \in live /\ nodes[k] \in Host
    <2>1. calls[k] \in Seq(Call) /\ \A x \in Tracked : Once(calls[k], x)
      BY <1>3 DEF OnceEach
    <2>2. Append(calls[k], go) \in Seq(Call) /\ Range(Append(calls[k], go)) = Range(calls[k]) \cup {go}
      BY <1>3, <2>1, RangeAppend
    <2>3. \A x \in Tracked : Once(Append(calls[k], go), x)
      BY <1>3, <2>1, OnceAppend
    <2> QED BY <1>1, <2>1, <2>2, <2>3
  <1>5. /\ replies' \in [Id -> Seq(Call)]
        /\ \A j \in Id : Range(replies'[j]) \subseteq Range(replies[j])
        /\ \A j \in Id, m \in Tracked : Once(replies'[j], m)
    BY <1>1, ReplyTaken
  <1>6. RInv'
    BY <1>2, RegistryUnchanged DEF RegDefs
  <1>7. StartTypes'
    <2>1. NodeTypes' /\ FindTypes' /\ OperatorTypes'
      BY <1>2 DEF StartTypes, NodeTypes, FindTypes, OperatorTypes
    <2>2. QueueTypes'
      BY <1>1, <1>4, <1>5 DEF QueueTypes
    <2> QED BY <2>1, <2>2 DEF StartTypes
  <1>8. Channels'
    <2> SUFFICES ASSUME NEW k \in Id
                 PROVE  /\ k \notin live => calls'[k] = <<>> /\ replies'[k] = <<>>
                        /\ go \in Range(calls'[k]) => nodes[k] \in Host
      BY <1>2 DEF Channels, go
    <2>1. i \in live
      BY <1>1, ChannelWorks
    <2>2. k \notin live => calls'[k] = <<>> /\ replies'[k] = <<>>
      BY <1>1, <1>4, <2>1, ReplyTaken DEF Channels
    <2>3. go \in Range(calls'[k]) => nodes[k] \in Host
      BY <1>4 DEF Channels, go
    <2> QED BY <2>2, <2>3
  <1>9. OnceEach'
    BY <1>3, <1>4, <1>5 DEF OnceEach
  <1>10. Before'
    BY <1>1, <1>2 DEF Before
  <1>11. \A j \in Id : \A x \in Tracked : x \in Sent(j)' => x \in Sent(j)
    BY <1>3, <1>4, <1>5 DEF Sent
  <1>12. RunOnce' /\ Tally' /\ Starts' /\ Counted' /\ BoundAfterRun'
    <2>1. length \in Nat /\ length' = length
      BY <1>2 DEF StartTypes, NodeTypes
    <2> QED BY <1>2, <1>11, <2>1, Remains
  <1>13. Runs'
    <2>1. \A c \in Cid : HasRun(c)' = HasRun(c)
      BY <1>2 DEF HasRun
    <2> QED BY <1>2, <1>5, <1>11, <2>1, CallForms DEF Runs
  <1> QED BY <1>6, <1>7, <1>8, <1>9, <1>10, <1>12, <1>13

-----------------------------------------------------------------------------
(* find_host. *)

LEMMA ExecKeeps == ASSUME SInv, Exec PROVE SInv'
  <1> USE DEF SInv
  <1> DEFINE ask == [k \in DOMAIN Operators |-> UsageMsg(Operators[k])]
             hosts == {i \in live : nodes[i] \in Host}
             others == {i \in 0..(length - 1) : nodes[i] \notin Host}
  <1>1. /\ ~ execd /\ execd' = TRUE
        /\ find' = [o \in Op |-> [counter |-> Skipped, node_index |-> Nobody]]
        /\ asked' = [length |-> length, nodes |-> nodes]
        /\ calls' = [i \in Id |-> IF i \in hosts THEN calls[i] \o ask ELSE calls[i]]
        /\ UNCHANGED <<registry, live, replies, cluster_id, clusters, nodes_run, bound, ran, collecting>>
    <2>1. [k \in DOMAIN Operators |-> [cmd |-> "cpu_usage", op |-> Operators[k]]] = ask
      BY DEF UsageMsg
    <2> QED BY <2>1 DEF Exec
  <1>2. UNCHANGED <<node_uid, pending, nodes, length>>
    BY <1>1 DEF registry
  <1>3. cluster_id = 0 /\ \A i \in Id : calls[i] = <<>> /\ replies[i] = <<>>
    BY <1>1 DEF Before
  <1>4. /\ Operators \in Seq(Op) /\ DOMAIN Operators = 1..Len(Operators) /\ Len(Operators) \in Nat
        /\ Range(Operators) = Op /\ IsInjective(Operators)
        /\ \A k \in DOMAIN Operators : Operators[k] \in Op
    BY TopologyAssumption, LenProperties, ElementOfSeq
  <1>5. ask \in Seq(Call) /\ Range(ask) = {UsageMsg(o) : o \in Op} /\ \A m : Once(ask, m)
    <2>1. \A k \in DOMAIN Operators : UsageMsg(Operators[k]) \in Call
      BY <1>4, CallForms
    <2>2. ask \in [1..Len(Operators) -> Call]
      BY <1>4, <2>1
    <2>3. ask \in Seq(Call)
      BY <1>4, <2>2
    <2>4. Range(ask) = {UsageMsg(o) : o \in Op}
      BY <1>4 DEF Range
    <2>5. \A m : Once(ask, m)
      BY <1>4, CallForms DEF Once, IsInjective
    <2> QED BY <2>3, <2>4, <2>5
  <1> HIDE DEF ask
  <1>6. \A i \in Id : calls'[i] = IF i \in hosts THEN ask ELSE <<>>
    <2>1. <<>> \o ask = ask
      BY <1>5, ConcatEmptySeq
    <2> QED BY <1>1, <1>3, <2>1
  <1>7. Range(<<>>) = {} /\ \A m : Once(<<>>, m)
    BY DEF Range, Once
  <1>8. /\ live \subseteq Id /\ length \in Nat /\ Id \subseteq Nat
        /\ \A i \in live : i < length
    BY DEF StartTypes, NodeTypes, RInv, RegistryTypes, OneEntryEach, Id
  <1>9. \A i \in Id : Sent(i)' = IF i \in hosts THEN {UsageMsg(o) : o \in Op} ELSE {}
    BY <1>1, <1>3, <1>5, <1>6, <1>7 DEF Sent
  <1>10. \A o \in Op : Open(o)' = hosts
    BY <1>8, <1>9 DEF Open
  <1>11. \A c : \A i \in Id : RunMsg(c) \notin Sent(i)'
    BY <1>9, CallForms
  <1>12. Skipped \in Nat /\ Skipped + Cardinality(hosts) <= length
    <2>1. others \subseteq 0..(length - 1) /\ hosts \subseteq 0..(length - 1) /\ others \cap hosts = {}
      <3>1. \A i \in live : i \in 0..(length - 1)
        BY <1>8
      <3> QED BY <3>1
    <2>2. IsFiniteSet(0..(length - 1)) /\ Cardinality(0..(length - 1)) = length
      BY <1>8, FS_Interval
    <2>3. IsFiniteSet(others) /\ IsFiniteSet(hosts) /\ others \cup hosts \subseteq 0..(length - 1)
      BY <2>1, <2>2, FS_Subset
    <2> HIDE DEF others, hosts
    <2>4. Cardinality(others \cup hosts) = Cardinality(others) + Cardinality(hosts) - 0
      BY <2>1, <2>3, FS_Union, FS_EmptySet
    <2>5. Cardinality(others \cup hosts) <= length
      BY <2>2, <2>3, FS_Subset
    <2>6. Cardinality(others) \in Nat /\ Cardinality(hosts) \in Nat
      BY <2>3, FS_CardinalityType
    <2>7. Skipped = Cardinality(others)
      BY DEF Skipped, others
    <2> QED BY <2>4, <2>5, <2>6, <2>7
  <1> HIDE DEF hosts
  <1>13. RInv'
    BY <1>1, <1>2, RegistryUnchanged DEF RegDefs
  <1>14. StartTypes'
    <2>1. NodeTypes' /\ OperatorTypes'
      BY <1>1, <1>2 DEF StartTypes, NodeTypes, OperatorTypes
    <2>2. QueueTypes'
      <3>1. <<>> \in Seq(Call)
        BY EmptySeq
      <3>2. \A i \in Id : calls'[i] \in Seq(Call)
        BY <1>5, <1>6, <3>1
      <3> QED BY <1>1, <3>2 DEF StartTypes, QueueTypes
    <2>3. FindTypes'
      BY <1>1, <1>8, <1>12 DEF FindTypes
    <2> QED BY <2>1, <2>2, <2>3 DEF StartTypes
  <1>15. Channels'
    <2>1. [cmd |-> "start_controller"] \notin Range(ask)
      <3>1. \A o \in Op : UsageMsg(o) # [cmd |-> "start_controller"]
        <4>1. \A o \in Op : UsageMsg(o).cmd # [cmd |-> "start_controller"].cmd
          BY DEF UsageMsg
        <4> QED BY <4>1
      <3> QED BY <1>5, <3>1
    <2>2. \A i \in Id : i \notin live => i \notin hosts
      BY DEF hosts
    <2> QED BY <1>1, <1>3, <1>6, <1>7, <2>1, <2>2 DEF Channels
  <1>16. OnceEach'
    BY <1>1, <1>3, <1>5, <1>6, <1>7 DEF OnceEach
  <1>17. RunOnce' /\ Before'
    BY <1>1, <1>11 DEF RunOnce, Before
  <1>18. Tally'
    BY <1>1, <1>2, <1>8, <1>10, <1>12 DEF Tally
  <1>19. \A c \in Cid : clusters[c] = Nobody
    BY <1>3 DEF Starts, Cid
  <1>20. Starts'
    BY <1>1, <1>3, <1>19 DEF Starts
  <1>21. \A c \in Cid : HasRun(c)' = HasRun(c)
    BY <1>1 DEF HasRun
  <1>22. Runs'
    <2>1. \A i \in Id : replies'[i] = <<>>
      BY <1>1, <1>3
    <2> QED BY <1>1, <1>7, <1>11, <1>21, <2>1 DEF Runs
  <1>23. Counted'
    <2>1. Over \subseteq Over' /\ Over' \subseteq Cid
      BY <1>11, <1>21 DEF Over
    <2>2. IsFiniteSet(Over') /\ Cardinality(Over') \in Nat
      BY <2>1, Sizes, FS_Subset, FS_CardinalityType
    <2>3. Cardinality(Over) <= Cardinality(Over') /\ Cardinality(Over) \in Nat
      BY <2>1, <2>2, FS_Subset, FS_CardinalityType
    <2> QED BY <1>1, <2>2, <2>3 DEF Counted, StartTypes, OperatorTypes
  <1>24. BoundAfterRun'
    BY <1>1 DEF BoundAfterRun, StartedOnce
  <1> QED BY <1>13, <1>14, <1>15, <1>16, <1>17, <1>18, <1>20, <1>22, <1>23, <1>24

\* What the answer to o does: it is counted, and it may be the last, when o is run
\* under a cid that is new.
LEMMA UsageShape ==
    ASSUME SInv, NEW i \in Id, Usage(i)
    PROVE  \E o \in Op :
           /\ execd /\ replies[i] # <<>> /\ Head(replies[i]) = UsageMsg(o)
           /\ replies' = [replies EXCEPT ![i] = Tail(@)]
           /\ find' \in [Op -> [counter : Nat, node_index : Id \cup {Nobody}]]
           /\ find'[o].counter = find[o].counter + 1
           /\ \A p \in Op : p # o => find'[p] = find[p]
           /\ UNCHANGED <<node_uid, pending, nodes, length, live, execd, asked, nodes_run, bound, ran, collecting>>
           /\ \/ UNCHANGED <<cluster_id, clusters, calls>>
              \/ /\ length = find[o].counter + 1 /\ cluster_id' = cluster_id + 1
                 /\ \/ UNCHANGED <<clusters, calls>>
                    \/ \E j \in Id :
                         /\ clusters' = [clusters EXCEPT ![cluster_id] = [alias |-> o, node |-> j]]
                         /\ calls' = IF j \in live THEN [calls EXCEPT ![j] = Append(@, RunMsg(cluster_id))]
                                                   ELSE calls
  <1>1. PICK o : o = Head(replies[i]).op
    OBVIOUS
  <1> DEFINE best == IF find[o].node_index = Nobody THEN i ELSE find[o].node_index
  <1>2. /\ replies[i] # <<>> /\ Head(replies[i]).cmd = "cpu_usage"
        /\ replies' = [replies EXCEPT ![i] = Tail(@)]
        /\ find' = [find EXCEPT ![o] = [counter |-> @.counter + 1, node_index |-> best]]
        /\ IF LastAnswer(o) THEN Found(o, best) ELSE UNCHANGED <<cluster_id, clusters, calls>>
        /\ UNCHANGED <<registry, live, execd, asked, nodes_run, bound, ran, collecting, lost>>
    BY <1>1 DEF Usage
  <1>3. Head(replies[i]) \in Call
    BY <1>2, RangeHeadTail DEF SInv, StartTypes, QueueTypes
  <1>4. o \in Op /\ Head(replies[i]) = UsageMsg(o)
    BY <1>1, <1>2, <1>3, CallForms
  <1>5. execd
    BY <1>2 DEF SInv, Before
  <1>6. find[o] \in [counter : Nat, node_index : Id \cup {Nobody}] /\ best \in Id
    BY <1>4 DEF SInv, StartTypes, FindTypes
  <1> HIDE DEF best
  <1>7. /\ find' \in [Op -> [counter : Nat, node_index : Id \cup {Nobody}]]
        /\ find'[o].counter = find[o].counter + 1
        /\ \A p \in Op : p # o => find'[p] = find[p]
    BY <1>2, <1>4, <1>6 DEF SInv, StartTypes, FindTypes
  <1>8. ASSUME NEW j \in Id, RunOperator(o, j)
        PROVE  /\ clusters' = [clusters EXCEPT ![cluster_id] = [alias |-> o, node |-> j]]
               /\ calls' = IF j \in live THEN [calls EXCEPT ![j] = Append(@, RunMsg(cluster_id))]
                                         ELSE calls
    BY <1>8 DEF RunOperator, Send, RunMsg
  <1>9. ASSUME Found(o, best)
        PROVE  /\ cluster_id' = cluster_id + 1
               /\ UNCHANGED <<clusters, calls>> \/ \E j \in Id : RunOperator(o, j)
    <2>1. \A j \in 1..(node_uid - 1) : j \in Id
      BY TopologyAssumption DEF SInv, RInv, RegistryTypes, StartTypes, NodeTypes, Id
    <2> QED BY <1>6, <1>9, <2>1 DEF Found
  <1>10. \/ UNCHANGED <<cluster_id, clusters, calls>>
         \/ /\ length = find[o].counter + 1 /\ cluster_id' = cluster_id + 1
            /\ \/ UNCHANGED <<clusters, calls>>
               \/ \E j \in Id :
                    /\ clusters' = [clusters EXCEPT ![cluster_id] = [alias |-> o, node |-> j]]
                    /\ calls' = IF j \in live THEN [calls EXCEPT ![j] = Append(@, RunMsg(cluster_id))]
                                              ELSE calls
    BY <1>2, <1>8, <1>9 DEF LastAnswer
  <1>11. UNCHANGED <<node_uid, pending, nodes, length, live, execd, asked, nodes_run, bound, ran, collecting>>
    BY <1>2 DEF registry
  <1> QED BY <1>2, <1>4, <1>5, <1>7, <1>10, <1>11

LEMMA UsageKeeps == ASSUME SInv, NEW i \in Id, Usage(i) PROVE SInv'
  <1> USE DEF SInv
  <1>1. PICK o \in Op :
           /\ execd /\ replies[i] # <<>> /\ Head(replies[i]) = UsageMsg(o)
           /\ replies' = [replies EXCEPT ![i] = Tail(@)]
           /\ find' \in [Op -> [counter : Nat, node_index : Id \cup {Nobody}]]
           /\ find'[o].counter = find[o].counter + 1
           /\ \A p \in Op : p # o => find'[p] = find[p]
           /\ UNCHANGED <<node_uid, pending, nodes, length, live, execd, asked, nodes_run, bound, ran, collecting>>
           /\ \/ UNCHANGED <<cluster_id, clusters, calls>>
              \/ /\ length = find[o].counter + 1 /\ cluster_id' = cluster_id + 1
                 /\ \/ UNCHANGED <<clusters, calls>>
                    \/ \E j \in Id :
                         /\ clusters' = [clusters EXCEPT ![cluster_id] = [alias |-> o, node |-> j]]
                         /\ calls' = IF j \in live THEN [calls EXCEPT ![j] = Append(@, RunMsg(cluster_id))]
                                                   ELSE calls
    BY UsageShape
  <1>2. PICK n \in Nat : n = cluster_id
    BY DEF StartTypes, OperatorTypes
  <1> DEFINE last == length = find[o].counter + 1 /\ cluster_id' = n + 1
  <1>3. /\ calls \in [Id -> Seq(Call)] /\ clusters \in [Cid -> [alias : Op, node : Id] \cup {Nobody}]
        /\ find[o].counter \in Nat /\ asked.length \in Nat /\ length \in Nat
    BY DEF StartTypes, QueueTypes, OperatorTypes, FindTypes, NodeTypes
  <1>4. /\ replies' \in [Id -> Seq(Call)] /\ UsageMsg(o) \in Range(replies[i])
        /\ \A j \in Id : Range(replies'[j]) \subseteq Range(replies[j])
        /\ \A j \in Id, m \in Tracked : Once(replies'[j], m)
        /\ UsageMsg(o) \notin Range(replies'[i])
    <2>1. replies[i] # <<>> /\ replies' = [replies EXCEPT ![i] = Tail(@)]
      BY <1>1
    <2>2. /\ replies' \in [Id -> Seq(Call)]
          /\ Head(replies[i]) \in Range(replies[i])
          /\ \A j \in Id : Range(replies'[j]) \subseteq Range(replies[j])
          /\ \A j \in Id, m \in Tracked : Once(replies'[j], m)
          /\ Head(replies[i]) \in Tracked => Head(replies[i]) \notin Range(replies'[i])
      BY <2>1, ReplyTaken
    <2>3. Head(replies[i]) = UsageMsg(o) /\ UsageMsg(o) \in Tracked
      BY <1>1, CallForms
    <2> QED BY <2>2, <2>3
  \* The tally of o.
  <1>5. i \in Open(o) /\ IsFiniteSet(Open(o)) /\ Cardinality(Open(o)) \in Nat \ {0}
    <2>1. i \in Open(o) /\ Open(o) \subseteq Id
      BY <1>4 DEF Open, Sent
    <2>2. IsFiniteSet(Open(o)) /\ Cardinality(Open(o)) \in Nat
      BY <2>1, Sizes, FS_Subset, FS_CardinalityType
    <2> QED BY <2>1, <2>2, FS_EmptySet
  <1>6. find[o].counter + Cardinality(Open(o)) <= asked.length /\ asked.length <= length
    BY <1>1 DEF Tally
  <1>7. find[o].counter < asked.length /\ o \notin Heard /\ (last => find'[o].counter = asked.length)
    BY <1>1, <1>3, <1>5, <1>6 DEF Heard
  <1>8. Heard \subseteq Heard' /\ Heard' \subseteq Op /\ (last => o \in Heard')
    BY <1>1, <1>7 DEF Heard
  <1>9. /\ IsFiniteSet(Heard') /\ Cardinality(Heard') \in Nat /\ Cardinality(Heard) \in Nat
        /\ Cardinality(Heard') <= Len(Operators) /\ Cardinality(Heard) <= Cardinality(Heard')
    BY <1>8, Sizes, FS_Subset, FS_CardinalityType
  <1>10. last => Cardinality(Heard) + 1 <= Cardinality(Heard')
    <2> SUFFICES ASSUME last PROVE Cardinality(Heard) + 1 <= Cardinality(Heard')
      OBVIOUS
    <2>1. Cardinality(Heard) # Cardinality(Heard')
      BY <1>7, <1>8, <1>9, FS_Subset
    <2> QED BY <1>9, <2>1
  <1>11. last => n + 1 <= Cardinality(Heard') /\ n \in Cid
    <2>1. n <= Cardinality(Heard) \/ n = 0
      BY <1>2 DEF Starts
    <2>2. last => n + 1 <= Cardinality(Heard')
      BY <1>9, <1>10, <2>1
    <2> QED BY <1>9, <2>2, Sizes DEF Cid
  <1> HIDE DEF last
  <1>12. \/ UNCHANGED <<cluster_id, clusters, calls>>
         \/ /\ last /\ cluster_id' = n + 1
            /\ \/ UNCHANGED <<clusters, calls>>
               \/ \E j \in Id : /\ clusters' = [clusters EXCEPT ![n] = [alias |-> o, node |-> j]]
                                /\ calls' = IF j \in live THEN [calls EXCEPT ![j] = Append(@, RunMsg(n))]
                                                          ELSE calls
    BY <1>1, <1>2 DEF last
  \* The channels.
  <1>13. \A j \in Id : RunMsg(n) \notin Sent(j)
    <2>1. last => n \in Cid
      BY <1>11
    <2>2. \A c \in Cid : (\E k \in Id : RunMsg(c) \in Sent(k)) => c < n
      BY <1>2 DEF Runs
    <2>3. n \in Cid => \A j \in Id : RunMsg(n) \notin Sent(j)
      BY <2>2
    <2>4. n \notin Cid => \A j \in Id : RunMsg(n) \notin Sent(j)
      <3> SUFFICES ASSUME NEW j \in Id, RunMsg(n) \in Sent(j) PROVE n \in Cid
        OBVIOUS
      <3>1. RunMsg(n) \in Call
        BY RangeOfSeq DEF StartTypes, QueueTypes, Sent
      <3>2. RunMsg(n).cmd = "run_cluster" /\ RunMsg(n).cid = n
        BY DEF RunMsg
      <3> QED BY <3>1, <3>2, CallForms
    <2> QED BY <2>3, <2>4
  <1>14. \/ calls' = calls
         \/ /\ last /\ cluster_id' = n + 1
            /\ \E j \in live : /\ calls' = [calls EXCEPT ![j] = Append(@, RunMsg(n))]
    BY <1>12
  <1>15. PICK j : \/ calls' = calls
                  \/ /\ last /\ cluster_id' = n + 1 /\ j \in live /\ j \in Id
                     /\ calls' = [calls EXCEPT ![j] = Append(calls[j], RunMsg(n))]
    <2>1. live \subseteq Id
      BY DEF RInv, RegistryTypes
    <2> QED BY <1>14, <2>1
  <1>16. ASSUME NEW k \in Id
         PROVE  /\ calls'[k] \in Seq(Call)
                /\ \A x \in Tracked : Once(calls'[k], x)
                /\ \A x \in Range(calls'[k]) : \/ x \in Range(calls[k])
                                               \/ last /\ x = RunMsg(n) /\ k = j
                /\ calls'[k] # calls[k] => k \in live /\ last
    <2>1. calls[k] \in Seq(Call) /\ \A x \in Tracked : Once(calls[k], x)
      BY <1>3 DEF OnceEach
    <2>2. CASE calls'[k] = calls[k]
      BY <2>1, <2>2
    <2>3. CASE calls'[k] # calls[k]
      <3>1. k = j /\ last /\ k \in live /\ calls'[k] = Append(calls[k], RunMsg(n))
        BY <1>3, <1>15, <2>3
      <3>2. RunMsg(n) \in Call
        BY <1>11, <3>1, CallForms
      <3>3. RunMsg(n) \notin Range(calls[k])
        BY <1>13 DEF Sent
      <3>4. calls'[k] \in Seq(Call) /\ Range(calls'[k]) = Range(calls[k]) \cup {RunMsg(n)}
        BY <2>1, <3>1, <3>2, RangeAppend
      <3>5. \A x \in Tracked : Once(calls'[k], x)
        BY <2>1, <3>1, <3>2, <3>3, OnceAppend
      <3> QED BY <3>1, <3>4, <3>5
    <2> QED BY <2>2, <2>3
  <1>17. \A k \in Id : \A x \in Sent(k)' : x \in Sent(k) \/ (last /\ x = RunMsg(n) /\ k = j)
    BY <1>4, <1>16 DEF Sent
  <1>18. UsageMsg(o) \notin Sent(i)'
    <2>1. UsageMsg(o) \notin Range(calls[i])
      BY <1>4, CallForms DEF OnceEach
    <2> QED BY <1>4, <1>16, <2>1, CallForms DEF Sent
  <1>19. RInv'
    BY <1>1, RegistryUnchanged DEF RegDefs
  <1>20. StartTypes'
    <2>1. NodeTypes' /\ FindTypes'
      BY <1>1 DEF StartTypes, NodeTypes, FindTypes
    <2>2. QueueTypes'
      <3>1. calls' \in [Id -> Seq(Call)]
        <4>1. calls' = [k \in Id |-> calls'[k]]
          BY <1>3, <1>15
        <4> QED BY <1>16, <4>1
      <3> QED BY <1>4, <3>1 DEF QueueTypes
    <2>3. clusters' \in [Cid -> [alias : Op, node : Id] \cup {Nobody}] /\ cluster_id' \in Nat
      <3>1. cluster_id' \in Nat
        BY <1>2, <1>12
      <3>2. CASE clusters' = clusters
        BY <1>3, <3>1, <3>2
      <3>3. ASSUME NEW k \in Id, clusters' = [clusters EXCEPT ![n] = [alias |-> o, node |-> k]]
            PROVE  clusters' \in [Cid -> [alias : Op, node : Id] \cup {Nobody}]
        <4>1. [alias |-> o, node |-> k] \in [alias : Op, node : Id] \cup {Nobody}
          OBVIOUS
        <4> QED BY <1>3, <3>3, <4>1
      <3> QED BY <1>12, <3>1, <3>2, <3>3
    <2>4. OperatorTypes'
      BY <1>1, <2>3 DEF StartTypes, OperatorTypes
    <2> QED BY <2>1, <2>2, <2>4 DEF StartTypes
  <1>21. Channels'
    <2> SUFFICES ASSUME NEW k \in Id
                 PROVE  /\ k \notin live => calls'[k] = <<>> /\ replies'[k] = <<>>
                        /\ [cmd |-> "start_controller"] \in Range(calls'[k]) => nodes[k] \in Host
      BY <1>1 DEF Channels
    <2>1. i \in live
      BY <1>1, ChannelWorks
    <2>2. k \notin live => calls'[k] = <<>> /\ replies'[k] = <<>>
      BY <1>1, <1>16, <2>1, ReplyTaken DEF Channels
    <2>3. RunMsg(n) # [cmd |-> "start_controller"]
      <3>1. RunMsg(n).cmd # [cmd |-> "start_controller"].cmd
        BY DEF RunMsg
      <3> QED BY <3>1
    <2> QED BY <1>16, <2>2, <2>3 DEF Channels
  <1>22. OnceEach'
    <2> SUFFICES ASSUME NEW k \in Id, NEW x \in Tracked, x \in Range(calls'[k]), x \in Range(replies'[k])
                 PROVE  FALSE
      BY <1>4, <1>16 DEF OnceEach
    <2>1. x \in Range(replies[k])
      BY <1>4
    <2>2. x # RunMsg(n)
      BY <1>13, <2>1 DEF Sent
    <2>3. x \in Range(calls[k])
      BY <1>16, <2>2
    <2> QED BY <2>1, <2>3 DEF OnceEach
  <1>23. RunOnce'
    <2> SUFFICES ASSUME NEW k \in Id, NEW l \in Id, NEW c \in Cid, k # l,
                        RunMsg(c) \in Sent(k)', RunMsg(c) \in Sent(l)'
                 PROVE  FALSE
      BY DEF RunOnce
    <2>1. CASE c = n
      BY <1>13, <1>17, <2>1
    <2>2. CASE c # n
      <3>1. RunMsg(c) # RunMsg(n)
        BY <2>2, CallForms
      <3> QED BY <1>17, <3>1 DEF RunOnce
    <2> QED BY <2>1, <2>2
  <1>24. Before'
    BY <1>1 DEF Before
  <1>25. Tally'
    <2> SUFFICES ASSUME NEW p \in Op
                 PROVE  find'[p].counter + Cardinality(Open(p)') <= asked.length
      BY <1>1, <1>6 DEF Tally
    <2>1. Open(p)' \subseteq Open(p) /\ Open(p) \subseteq Id
      BY <1>17, CallForms DEF Open
    <2>2. IsFiniteSet(Open(p)) /\ Cardinality(Open(p)) \in Nat
      BY <2>1, Sizes, FS_Subset, FS_CardinalityType
    <2>3. CASE p # o
      <3>1. Cardinality(Open(p)') <= Cardinality(Open(p)) /\ Cardinality(Open(p)') \in Nat
        BY <2>1, <2>2, FS_Subset, FS_CardinalityType
      <3>2. find'[p] = find[p] /\ find[p].counter \in Nat
        BY <1>1, <2>3 DEF StartTypes, FindTypes
      <3>3. find[p].counter + Cardinality(Open(p)) <= asked.length
        BY <1>1 DEF Tally
      <3> QED BY <1>3, <2>2, <3>1, <3>2, <3>3
    <2>4. CASE p = o
      <3>1. Open(o)' \subseteq Open(o) \ {i}
        BY <1>18, <2>1, <2>4 DEF Open
      <3>2. IsFiniteSet(Open(o) \ {i}) /\ Cardinality(Open(o) \ {i}) = Cardinality(Open(o)) - 1
        BY <1>5, FS_RemoveElement
      <3>3. Cardinality(Open(o)') <= Cardinality(Open(o)) - 1 /\ Cardinality(Open(o)') \in Nat
        BY <3>1, <3>2, FS_Subset, FS_CardinalityType
      <3> QED BY <1>1, <1>3, <1>5, <1>6, <2>4, <3>3
    <2> QED BY <2>3, <2>4
  <1>26. Starts' /\ StartedOnce'
    <2>1. cluster_id' <= Cardinality(Heard') \/ cluster_id' = 0
      BY <1>2, <1>9, <1>11, <1>12 DEF Starts
    <2>2. n <= cluster_id' /\ cluster_id' \in Nat
      BY <1>2, <1>12
    <2>3. \A c \in Cid : c \in Nat
      BY DEF Cid
    <2>4. ASSUME NEW c \in Cid, clusters'[c] # Nobody
          PROVE  /\ c < cluster_id' /\ clusters'[c].alias \in Heard'
                 /\ clusters'[c] = clusters[c] \/ (c = n /\ clusters'[c].alias = o)
      <3>1. CASE clusters'[c] = clusters[c]
        <4>1. c < n /\ clusters[c].alias \in Heard
          BY <1>2, <2>4, <3>1 DEF Starts
        <4> QED BY <1>8, <2>2, <2>3, <3>1, <4>1
      <3>2. CASE clusters'[c] # clusters[c]
        <4>1. last /\ cluster_id' = n + 1 /\ c = n /\ clusters'[c].alias = o
          BY <1>3, <1>12, <3>2
        <4> QED BY <1>8, <4>1
      <3> QED BY <3>1, <3>2
    <2>5. Starts'
      BY <2>1, <2>4 DEF Starts
    <2>6. StartedOnce'
      <3> SUFFICES ASSUME NEW c \in Cid, NEW d \in Cid, c # d, clusters'[c] # Nobody, clusters'[d] # Nobody
                   PROVE  clusters'[c].alias # clusters'[d].alias
        BY DEF StartedOnce
      <3>1. CASE clusters'[c] = clusters[c] /\ clusters'[d] = clusters[d]
        BY <3>1 DEF BoundAfterRun, StartedOnce
      <3>2. CASE clusters'[c] # clusters[c]
        BY <1>7, <2>4, <3>2 DEF Starts
      <3>3. CASE clusters'[d] # clusters[d]
        BY <1>7, <2>4, <3>3 DEF Starts
      <3> QED BY <3>1, <3>2, <3>3
    <2> QED BY <2>5, <2>6
  <1>27. \A c \in Cid : HasRun(c)' = HasRun(c)
    BY <1>1 DEF HasRun
  <1>28. Runs'
    <2> SUFFICES ASSUME NEW c \in Cid
                 PROVE  /\ HasRun(c) \/ (\E k \in Id : RunMsg(c) \in Sent(k)') => c < cluster_id'
                        /\ \A k \in Id : RunMsg(c) \in Range(replies'[k]) => HasRun(c)
      BY <1>27 DEF Runs
    <2>1. n <= cluster_id' /\ cluster_id' \in Nat /\ c \in Nat /\ (last => cluster_id' = n + 1)
      BY <1>2, <1>12 DEF Cid, last
    <2>2. ASSUME HasRun(c) \/ \E k \in Id : RunMsg(c) \in Sent(k)' PROVE c < cluster_id'
      <3>1. CASE HasRun(c) \/ \E k \in Id : RunMsg(c) \in Sent(k)
        <4>1. c < n
          BY <1>2, <3>1 DEF Runs
        <4> QED BY <2>1, <4>1
      <3>2. CASE last /\ RunMsg(c) = RunMsg(n)
        BY <2>1, <3>2, CallForms
      <3> QED BY <1>17, <2>2, <3>1, <3>2
    <2>3. \A k \in Id : RunMsg(c) \in Range(replies'[k]) => HasRun(c)
      BY <1>4 DEF Runs
    <2> QED BY <2>2, <2>3
  <1>29. Counted'
    <2>1. Over \subseteq Over' /\ Over' \subseteq Cid
      <3> SUFFICES ASSUME NEW c \in Over PROVE c \in Over'
        BY DEF Over
      <3>1. c \in Cid /\ HasRun(c) /\ \A k \in Id : RunMsg(c) \notin Sent(k)
        BY DEF Over
      <3>2. c < n /\ c \in Nat
        BY <1>2, <3>1 DEF Runs, Cid
      <3>3. RunMsg(c) # RunMsg(n)
        BY <3>2, CallForms
      <3> QED BY <1>17, <1>27, <3>1, <3>3 DEF Over
    <2>2. IsFiniteSet(Over') /\ Cardinality(Over') \in Nat
      BY <2>1, Sizes, FS_Subset, FS_CardinalityType
    <2>3. Cardinality(Over) <= Cardinality(Over') /\ Cardinality(Over) \in Nat
      BY <2>1, <2>2, FS_Subset, FS_CardinalityType
    <2> QED BY <1>1, <2>2, <2>3 DEF Counted, StartTypes, OperatorTypes
  <1>30. BoundAfterRun'
    BY <1>1, <1>26 DEF BoundAfterRun
  <1> QED BY <1>19, <1>20, <1>21, <1>22, <1>23, <1>24, <1>25, <1>26, <1>28, <1>29, <1>30

-----------------------------------------------------------------------------
(* bind_operators. *)

\* The calls that make the bindings are finitely many, and neither ask nor run.
LEMMA BindCallsAre ==
    ASSUME NEW i \in Id
    PROVE  /\ BindCalls(i) \in Seq(Call)
           /\ \A m \in Range(BindCalls(i)) : m = [cmd |-> "bind_cluster"]
  <1> DEFINE found == {n \in DOMAIN Bindings :
                          \A k \in 1..n : Running(Bindings[k].from) /\ Running(Bindings[k].to)}
             mine == {k \in DOMAIN Bound : Caller(Bound[k]) = i}
  <1>1. Bindings \in Seq([from : Op, to : Op])
    BY TopologyAssumption
  <1>2. /\ Len(Bindings) \in Nat /\ DOMAIN Bindings = 1..Len(Bindings)
        /\ \A k \in 1..Len(Bindings) : Bindings[k] \in [from : Op, to : Op]
    BY <1>1, LenProperties, ElementOfSeq
  <1>3. IsFiniteSet(DOMAIN Bindings) /\ Cardinality(DOMAIN Bindings) = Len(Bindings)
    BY <1>2, FS_Interval
  <1>4. found \subseteq DOMAIN Bindings
    OBVIOUS
  <1> HIDE DEF found
  <1>5. Cardinality(found) \in Nat /\ Cardinality(found) <= Len(Bindings)
    BY <1>3, <1>4, FS_Subset, FS_CardinalityType
  <1>6. Bound = SubSeq(Bindings, 1, Cardinality(found))
    BY DEF Bound, found
  <1>7. PICK n \in Nat : n = Cardinality(found)
    BY <1>5
  <1>8. \A k \in 1..n : Bindings[k] \in [from : Op, to : Op]
    BY <1>2, <1>5, <1>7
  <1>9. SubSeq(Bindings, 1, n) \in Seq([from : Op, to : Op])
    BY <1>8, SubSeqProperties
  <1>10. Bound \in Seq([from : Op, to : Op])
    BY <1>6, <1>7, <1>9
  <1>11. IsFiniteSet(DOMAIN Bound)
    <2>1. DOMAIN Bound = 1..Len(Bound) /\ Len(Bound) \in Nat
      BY <1>10, LenProperties
    <2> QED BY <2>1, FS_Interval
  <1>12. Cardinality(mine) \in Nat
    BY <1>11, FS_Subset, FS_CardinalityType
  <1> DEFINE count == Cardinality(mine)
             bind == [cmd |-> "bind_cluster"]
  <1>13. BindCalls(i) = [l \in 1..count |-> bind]
    BY DEF BindCalls
  <1>14. bind \in Call
    BY DEF Call
  <1>15. count \in Nat
    BY <1>12
  <1> HIDE DEF count, bind
  <1>16. BindCalls(i) \in Seq(Call)
    BY <1>13, <1>14, <1>15
  <1>17. \A m \in Range(BindCalls(i)) : m = bind
    BY <1>13 DEF Range
  <1> QED BY <1>16, <1>17 DEF bind

\* The operator whose reply is taken is one more that is over.
LEMMA RanKeeps == ASSUME SInv, NEW i \in Id, Ran(i) PROVE SInv'
  <1> USE DEF SInv
  <1>1. /\ replies[i] # <<>> /\ Head(replies[i]).cmd = "run_cluster"
        /\ replies' = [replies EXCEPT ![i] = Tail(@)]
        /\ nodes_run' = nodes_run + 1
        /\ bound' = IF AllRan THEN bound \o Bound ELSE bound
        /\ calls' = IF AllRan
                    THEN [k \in Id |-> IF k \in live THEN calls[k] \o BindCalls(k) ELSE calls[k]]
                    ELSE calls
        /\ UNCHANGED <<registry, live, execd, find, asked, cluster_id, clusters, ran, collecting, lost>>
    BY DEF Ran
  <1>2. UNCHANGED <<node_uid, pending, nodes, length, live, execd, find, asked, cluster_id, clusters, ran, collecting>>
    BY <1>1 DEF registry
  <1>3. /\ replies' \in [Id -> Seq(Call)] /\ Head(replies[i]) \in Call
        /\ Head(replies[i]) \in Range(replies[i])
        /\ \A j \in Id : Range(replies'[j]) \subseteq Range(replies[j])
        /\ \A j \in Id, m \in Tracked : Once(replies'[j], m)
        /\ Head(replies[i]) \in Tracked => Head(replies[i]) \notin Range(replies'[i])
    BY <1>1, ReplyTaken
  <1>4. PICK c \in Cid : Head(replies[i]) = RunMsg(c)
    BY <1>1, <1>3, CallForms
  <1>5. RunMsg(c) \in Tracked /\ RunMsg(c) \in Range(replies[i]) /\ RunMsg(c) \notin Range(replies'[i])
    BY <1>3, <1>4, CallForms
  <1>6. calls \in [Id -> Seq(Call)]
    BY DEF StartTypes, QueueTypes
  <1> DEFINE bind == [cmd |-> "bind_cluster"]
  <1>7. bind \notin Tracked
    <2>1. bind \in Call /\ bind.cmd = "bind_cluster"
      BY DEF Call
    <2> QED BY <2>1, CallForms
  <1>8. bind # [cmd |-> "start_controller"]
    <2>1. bind.cmd # [cmd |-> "start_controller"].cmd
      OBVIOUS
    <2> QED BY <2>1
  <1>9. \A k \in Id : BindCalls(k) \in Seq(Call) /\ \A m \in Range(BindCalls(k)) : m = bind
    BY BindCallsAre
  <1> HIDE DEF bind
  <1>10. ASSUME NEW k \in Id
         PROVE  /\ calls'[k] \in Seq(Call)
                /\ \A x \in Tracked : Once(calls'[k], x)
                /\ \A x \in Range(calls'[k]) : x \in Range(calls[k]) \/ x = bind
                /\ calls'[k] # calls[k] => k \in live
    <2>1. calls[k] \in Seq(Call) /\ \A x \in Tracked : Once(calls[k], x)
      BY <1>6 DEF OnceEach
    <2>2. /\ calls[k] \o BindCalls(k) \in Seq(Call)
          /\ Range(calls[k] \o BindCalls(k)) = Range(calls[k]) \cup Range(BindCalls(k))
      BY <1>9, <2>1, ConcatProperties, RangeConcatenation
    <2>3. \A x \in Tracked : Once(calls[k] \o BindCalls(k), x)
      BY <1>7, <1>9, <2>1, OnceConcat
    <2>4. calls'[k] = calls[k] \/ (k \in live /\ calls'[k] = calls[k] \o BindCalls(k))
      BY <1>1, <1>6
    <2> QED BY <1>9, <2>1, <2>2, <2>3, <2>4
  <1>11. RInv'
    BY <1>2, RegistryUnchanged DEF RegDefs
  <1>12. StartTypes'
    <2>1. NodeTypes' /\ FindTypes'
      BY <1>2 DEF StartTypes, NodeTypes, FindTypes
    <2>2. calls' = [k \in Id |-> calls'[k]]
      BY <1>1, <1>6
    <2>3. calls' \in [Id -> Seq(Call)]
      BY <1>10, <2>2
    <2>4. OperatorTypes'
      BY <1>1, <1>2 DEF StartTypes, OperatorTypes
    <2> QED BY <1>3, <2>1, <2>3, <2>4 DEF StartTypes, QueueTypes
  <1>13. Channels'
    <2> SUFFICES ASSUME NEW k \in Id
                 PROVE  /\ k \notin live => calls'[k] = <<>> /\ replies'[k] = <<>>
                        /\ [cmd |-> "start_controller"] \in Range(calls'[k]) => nodes[k] \in Host
      BY <1>2 DEF Channels
    <2>1. i \in live
      BY <1>1, ChannelWorks
    <2>2. k \notin live => replies'[k] = replies[k]
      BY <1>1, <2>1
    <2> QED BY <1>8, <1>10, <2>2 DEF Channels
  <1>14. OnceEach'
    BY <1>3, <1>7, <1>10 DEF OnceEach
  <1>15. \A j \in Id : \A x \in Tracked : x \in Sent(j)' => x \in Sent(j)
    BY <1>3, <1>7, <1>10 DEF Sent
  <1>16. RunOnce'
    BY <1>15, CallForms DEF RunOnce
  <1>17. execd
    BY <1>1 DEF Before
  <1>18. Before'
    BY <1>2, <1>17 DEF Before
  <1>19. Tally'
    <2> SUFFICES ASSUME NEW o \in Op
                 PROVE  find[o].counter + Cardinality(Open(o)') <= asked.length
      BY <1>2, <1>17 DEF Tally
    <2>1. Open(o)' \subseteq Open(o) /\ Open(o) \subseteq Id
      BY <1>15, CallForms DEF Open
    <2>2. IsFiniteSet(Open(o)) /\ Cardinality(Open(o)) \in Nat
      BY <2>1, Sizes, FS_Subset, FS_CardinalityType
    <2>3. Cardinality(Open(o)') <= Cardinality(Open(o)) /\ Cardinality(Open(o)') \in Nat
      BY <2>1, <2>2, FS_Subset, FS_CardinalityType
    <2>4. /\ asked.length \in Nat /\ find[o].counter \in Nat
          /\ find[o].counter + Cardinality(Open(o)) <= asked.length
      BY <1>17 DEF Tally, StartTypes, FindTypes
    <2> QED BY <2>2, <2>3, <2>4
  <1>20. Starts'
    <2>1. Heard' = Heard
      BY <1>2 DEF Heard
    <2> QED BY <1>2, <2>1 DEF Starts
  <1>21. \A d \in Cid : HasRun(d)' = HasRun(d)
    BY <1>2 DEF HasRun
  <1>22. Runs'
    BY <1>2, <1>3, <1>15, <1>21, CallForms DEF Runs
  \* What is over.
  <1>23. c \notin Over /\ c \in Over'
    <2>1. RunMsg(c) \in Sent(i)
      BY <1>5 DEF Sent
    <2>2. HasRun(c)
      BY <1>5 DEF Runs
    <2>3. \A j \in Id : RunMsg(c) \notin Sent(j)'
      <3> SUFFICES ASSUME NEW j \in Id, RunMsg(c) \in Sent(j)' PROVE FALSE
        OBVIOUS
      <3>1. j = i
        BY <1>5, <1>15, <2>1 DEF RunOnce
      <3>2. RunMsg(c) \in Range(calls'[i])
        BY <1>5, <3>1 DEF Sent
      <3>3. RunMsg(c) \in Range(calls[i])
        BY <1>5, <1>7, <1>10, <3>2
      <3> QED BY <1>5, <3>3 DEF OnceEach
    <2> QED BY <1>21, <2>1, <2>2, <2>3 DEF Over
  <1>24. Over \subseteq Over' /\ Over' \subseteq Cid
    BY <1>15, <1>21, CallForms DEF Over
  <1>25. IsFiniteSet(Over') /\ Cardinality(Over') \in Nat /\ Cardinality(Over) \in Nat
    BY <1>24, Sizes, FS_Subset, FS_CardinalityType
  <1>26. Cardinality(Over) + 1 <= Cardinality(Over')
    <2>1. Cardinality(Over) <= Cardinality(Over') /\ Cardinality(Over) # Cardinality(Over')
      BY <1>23, <1>24, <1>25, FS_Subset
    <2> QED BY <1>25, <2>1
  <1>27. Counted'
    BY <1>1, <1>25, <1>26 DEF Counted, StartTypes, OperatorTypes
  <1>28. AllRan => Over' = Cid
    <2> SUFFICES ASSUME nodes_run + 1 = Len(Operators) PROVE Over' = Cid
      BY DEF AllRan
    <2>1. nodes_run \in Nat /\ nodes_run <= Cardinality(Over)
      BY DEF Counted, StartTypes, OperatorTypes
    <2>2. Cardinality(Cid) = Len(Operators) /\ Len(Operators) \in Nat /\ IsFiniteSet(Cid)
      BY Sizes
    <2>3. Cardinality(Over') <= Cardinality(Cid)
      BY <1>24, <2>2, FS_Subset
    <2>4. Cardinality(Over') = Cardinality(Cid)
      BY <1>25, <1>26, <2>1, <2>2, <2>3
    <2> QED BY <1>24, <2>2, <2>4, FS_Subset
  <1>29. BoundAfterRun'
    <2>1. StartedOnce'
      BY <1>2 DEF BoundAfterRun, StartedOnce
    <2>2. bound' # <<>> => \A d \in Cid : HasRun(d)
      <3>1. CASE AllRan
        BY <1>21, <1>28, <3>1 DEF Over
      <3>2. CASE ~ AllRan
        BY <1>1, <3>2 DEF BoundAfterRun, HasRun
      <3> QED BY <3>1, <3>2
    <2> QED BY <1>2, <2>1, <2>2 DEF BoundAfterRun, HasRun
  <1> QED BY <1>11, <1>12, <1>13, <1>14, <1>16, <1>18, <1>19, <1>20, <1>22, <1>27, <1>29

-----------------------------------------------------------------------------

LEMMA StartStep == SInv /\ [Next]_vars => SInv'
  <1> SUFFICES ASSUME SInv, [Next]_vars PROVE SInv'
    OBVIOUS
  <1>1. RInv'
    BY RegistryStep DEF SInv
  <1>2. ASSUME NEW i \in Id, Serve(i) PROVE SInv'
    BY <1>2, PeerKeeps, UsageKeeps, RanKeeps, BoundCbKeeps DEF Serve
  <1>3. ASSUME NEW i \in Id, LoseHost(i) \/ NowjsLeave(i) PROVE SInv'
    BY <1>1, <1>3, LossKeeps
  <1>4. CASE Exec
    BY <1>4, ExecKeeps
  <1>5. CASE \/ \E h \in Host : RegisterNewNode(h)
             \/ \E b \in Browser : RegisterNewRemoteNode(b)
             \/ \E i \in Id : ConnectBack(i)
             \/ UNCHANGED vars
    BY <1>1, <1>5, RegistryGrowsStep
  <1> QED BY <1>2, <1>3, <1>4, <1>5 DEF Next

\* The two counts of the start of a topology hold at every step of it.
THEOREM StartInvariance == Spec => []SInv
  BY StartInit, StartStep, PTL DEF Spec

\* The state has its type: the counters of find_host stay within the list of nodes,
\* no more cids are given than the file has operators, and no more operators are
\* counted as running than have a cid.
THEOREM StartTypeCorrect == Spec => []TypeOK
  <1>1. SInv => TypeOK
    <2> SUFFICES ASSUME SInv PROVE TypeOK
      OBVIOUS
    <2> USE DEF SInv
    <2>1. /\ node_uid \in 0..MaxId /\ length \in 0..node_uid
          /\ pending \in [Id -> Host \cup {Nobody}] /\ nodes \in [Id -> Peer \cup {Nobody}]
      BY TopologyAssumption DEF RInv, RegistryTypes, StartTypes, NodeTypes
    <2>2. live \subseteq 0..(node_uid - 1)
      <3> SUFFICES ASSUME NEW i \in live PROVE i \in 0..(node_uid - 1)
        OBVIOUS
      <3>1. i \in Id /\ nodes[i] # Nobody /\ node_uid \in Nat
        BY DEF RInv, RegistryTypes, OneEntryEach
      <3>2. ~ (i >= node_uid)
        BY <3>1 DEF RInv, Fresh
      <3> QED BY <3>1, <3>2 DEF Id
    <2>3. calls \in [Id -> Seq(Call)] /\ replies \in [Id -> Seq(Call)]
      BY DEF StartTypes, QueueTypes
    <2>4. \A o \in Op : find[o].counter \in 0..length
      <3> SUFFICES ASSUME NEW o \in Op PROVE find[o].counter \in 0..length
        OBVIOUS
      <3>1. find[o].counter \in Nat /\ asked.length \in Nat /\ length \in Nat
        BY DEF StartTypes, FindTypes, NodeTypes
      <3>2. CASE ~ execd
        BY <3>1, <3>2 DEF Before
      <3>3. CASE execd
        <4>1. find[o].counter + Cardinality(Open(o)) <= asked.length /\ asked.length <= length
          BY <3>3 DEF Tally
        <4>2. Open(o) \subseteq Id
          BY DEF Open
        <4>3. Cardinality(Open(o)) \in Nat
          BY <4>2, Sizes, FS_Subset, FS_CardinalityType
        <4> QED BY <3>1, <4>1, <4>3
      <3> QED BY <3>2, <3>3
    <2>5. find \in [Op -> [counter : 0..length, node_index : Id \cup {Nobody}]]
      BY <2>4 DEF StartTypes, FindTypes
    <2>6. cluster_id \in 0..Cardinality(Cid)
      <3>1. cluster_id \in Nat /\ (cluster_id <= Cardinality(Heard) \/ cluster_id = 0)
        BY DEF StartTypes, OperatorTypes, Starts
      <3>2. Heard \subseteq Op
        BY DEF Heard
      <3>3. Cardinality(Heard) <= Cardinality(Op) /\ Cardinality(Heard) \in Nat
        BY <3>2, Sizes, FS_Subset, FS_CardinalityType
      <3> QED BY <3>1, <3>3, Sizes
    <2>7. nodes_run \in 0..cluster_id
      <3>1. nodes_run \in Nat /\ cluster_id \in Nat /\ nodes_run <= Cardinality(Over)
        BY DEF StartTypes, OperatorTypes, Counted
      <3>2. Over \subseteq 0..(cluster_id - 1)
        <4>1. \A c \in Over : c \in Nat /\ c < cluster_id
          BY DEF Over, Runs, Cid
        <4> QED BY <3>1, <4>1
      <3>3. IsFiniteSet(0..(cluster_id - 1)) /\ Cardinality(0..(cluster_id - 1)) = cluster_id
        BY <3>1, FS_Interval
      <3>4. Cardinality(Over) <= cluster_id /\ Cardinality(Over) \in Nat
        BY <3>2, <3>3, FS_Subset, FS_CardinalityType
      <3> QED BY <3>1, <3>4
    <2>8. /\ clusters \in [Cid -> [alias : Op, node : Id] \cup {Nobody}]
          /\ ran \in [Peer -> SUBSET Cid] /\ collecting \subseteq Host
      BY DEF StartTypes, OperatorTypes
    <2> QED BY <2>1, <2>2, <2>3, <2>5, <2>6, <2>7, <2>8 DEF TypeOK
  <1> QED BY StartInvariance, <1>1, PTL

\* However answers, registrations, departures and reconnections come, no operator is
\* started twice and no binding is made before every operator of the file has run at
\* its peer (k_root_commands.js: find_host, the callbacks of exec).
THEOREM StartsInOrder == Spec => []BoundAfterRun
  <1>1. SInv => BoundAfterRun
    BY DEF SInv
  <1> QED BY StartInvariance, <1>1, PTL

=============================================================================
