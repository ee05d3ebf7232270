------------------------------ MODULE HostProofs ------------------------------
(***************************************************************************)
(* Two parts of a host that do not meet: how the workers of an operator    *)
(* retire (GracefulKill), for any number of workers, upstream hosts and    *)
(* feeders, and the proxy (Proxy), for any workers and browsers.           *)
(*                                                                         *)
(* GracefulKill: a request travels from queue to queue (rpc, ipc, echo,    *)
(* cbtable, back) and each handler only moves it on, so everything in      *)
(* flight concerns a worker that asked and was heard                       *)
(* (OnlyRequestedInFlight).  What leaves the pool or a client list is      *)
(* taken from these queues, so only such a worker can leave.               *)
(*                                                                         *)
(* Proxy: a browser gets the setup of a worker once, and one that was kept *)
(* for its socket with the socket (SInv); the routes of a worker name each *)
(* browser once, and the place kept for it is behind that of its last      *)
(* message, so that the next goes to another one (TInv).                   *)
(***************************************************************************)
EXTENDS GracefulKill, Proxy, FiniteSetTheorems, SequenceTheorems, TLAPS

(* Queues. *)

\* Appending a message adds exactly that message to a queue.
LEMMA AppendInQueue ==
    ASSUME NEW S, NEW q \in Seq(S), NEW e \in S, NEW x
    PROVE  InQueue(Append(q, e), x) <=> InQueue(q, x) \/ x = e
  <1>1. /\ Append(q, e) \in Seq(S)
        /\ Len(Append(q, e)) = Len(q) + 1
        /\ \A i \in 1..Len(q) : Append(q, e)[i] = q[i]
        /\ Append(q, e)[Len(q) + 1] = e
    OBVIOUS
  <1>2. /\ DOMAIN q = 1..Len(q)
        /\ DOMAIN Append(q, e) = 1..(Len(q) + 1)
        /\ Len(q) \in Nat
    BY <1>1
  <1>3. ASSUME InQueue(Append(q, e), x) PROVE InQueue(q, x) \/ x = e
    BY <1>1, <1>2, <1>3 DEF InQueue
  <1>4. ASSUME InQueue(q, x) \/ x = e PROVE InQueue(Append(q, e), x)
    BY <1>1, <1>2, <1>4 DEF InQueue
  <1> QED BY <1>3, <1>4

\* A non-empty queue is its head followed by its tail.
LEMMA HeadTailInQueue ==
    ASSUME NEW S, NEW q \in Seq(S), q # <<>>, NEW x
    PROVE  /\ Head(q) \in S
           /\ Tail(q) \in Seq(S)
           /\ InQueue(q, x) <=> x = Head(q) \/ InQueue(Tail(q), x)
  <1>1. /\ Head(q) = q[1] /\ Head(q) \in S
        /\ Tail(q) \in Seq(S)
        /\ Len(q) \in Nat \ {0} /\ Len(Tail(q)) = Len(q) - 1
        /\ \A i \in 1..(Len(q) - 1) : Tail(q)[i] = q[i + 1]
    OBVIOUS
  <1>2. DOMAIN q = 1..Len(q) /\ DOMAIN Tail(q) = 1..(Len(q) - 1)
    BY <1>1
  <1>3. ASSUME InQueue(q, x) PROVE x = Head(q) \/ InQueue(Tail(q), x)
    <2>1. PICK i \in 1..Len(q) : q[i] = x
      BY <1>2, <1>3 DEF InQueue
    <2>2. CASE i = 1
      BY <1>1, <2>1, <2>2
    <2>3. CASE i # 1
      <3>1. i - 1 \in 1..(Len(q) - 1) /\ (i - 1) + 1 = i
        BY <1>1, <2>1, <2>3
      <3> QED BY <1>1, <1>2, <2>1, <3>1 DEF InQueue
    <2> QED BY <2>2, <2>3
  <1>4. ASSUME InQueue(Tail(q), x) PROVE InQueue(q, x)
    <2>1. PICK i \in 1..(Len(q) - 1) : Tail(q)[i] = x
      BY <1>2, <1>4 DEF InQueue
    <2>2. i + 1 \in 1..Len(q) /\ q[i + 1] = x
      BY <1>1, <2>1
    <2> QED BY <1>2, <2>2 DEF InQueue
  <1>5. ASSUME x = Head(q) PROVE InQueue(q, x)
    BY <1>1, <1>2, <1>5 DEF InQueue
  <1> QED BY <1>1, <1>3, <1>4, <1>5

\* The types of a head and a tail.
LEMMA HeadTailType ==
    ASSUME NEW S, NEW q \in Seq(S), q # <<>>
    PROVE  Head(q) \in S /\ Tail(q) \in Seq(S)
  OBVIOUS

\* A command names a worker.
LEMMA CommandUid ==
    ASSUME NEW c \in Command PROVE c.uid \in Worker
  BY DEF Command

\* Nothing is in an empty queue.
LEMMA EmptyInQueue ==
    ASSUME NEW x PROVE ~ InQueue(<<>>, x)
  BY DEF InQueue

\* A host has at least one feeder, so a call always advances cbid.
LEMMA SomeFeeder ==
    ASSUME NEW s \in SrcHost
    PROVE  Cardinality(Feeders(s)) \in Nat \ {0}
  <1>1. Feeders(s) \subseteq Feeder /\ Feeders(s) # {}
    BY FeederAssumption DEF Feeders
  <1>2. IsFiniteSet(Feeders(s))
    BY <1>1, FeederAssumption, FS_Subset
  <1> QED BY <1>1, <1>2, FS_CardinalityType, FS_EmptySet

-----------------------------------------------------------------------------
(* Types. *)

\* cbid starts at 0 and is advanced before it is used as a slot.
Slots == \A s \in SrcHost : DOMAIN cbtable[s] \subseteq Nat \ {0}

LEMMA TypeInit == Init => TypeOK /\ Slots
  <1> SUFFICES ASSUME Init PROVE TypeOK /\ Slots
    OBVIOUS
  <1>1. TypeOK
    BY PoolAssumption, FeederAssumption DEF Init, TypeOK
  <1>2. Slots
    BY DEF Init, Slots
  <1> QED BY <1>1, <1>2

LEMMA TypeStep == TypeOK /\ Slots /\ [Next]_vars => TypeOK' /\ Slots'
  <1> SUFFICES ASSUME TypeOK, Slots, [Next]_vars PROVE TypeOK' /\ Slots'
    OBVIOUS
  <1> USE FeederAssumption DEF TypeOK, Slots
  <1>1. ASSUME NEW w \in Worker, Spawn(w) PROVE TypeOK' /\ Slots'
    <2>1. Bind(w) \in Command
      BY DEF Bind, Command
    <2> QED BY <1>1, <2>1 DEF Spawn, sourceVars, feederVars
  <1>2. ASSUME NEW w \in Worker, Idle(w) PROVE TypeOK' /\ Slots'
    BY <1>2 DEF Idle, sourceVars, feederVars
  <1>3. ASSUME NEW w \in Worker, HandleGraceful(w) PROVE TypeOK' /\ Slots'
    <2>1. Unbind(w) \in Command
      BY DEF Unbind, Command
    <2> QED BY <1>3, <2>1 DEF HandleGraceful, sourceVars, feederVars
  <1>4. ASSUME NEW w \in Worker, BindDownstream(w) \/ UnbindDownstream(w)
        PROVE  TypeOK' /\ Slots'
    BY <1>4 DEF BindDownstream, UnbindDownstream, sourceVars, feederVars
  <1>5. ASSUME NEW s \in SrcHost, SourceCall(s) PROVE TypeOK' /\ Slots'
    <2> DEFINE call == Head(rpc[s])
    <2> DEFINE last == cbid[s] + Cardinality(Feeders(s))
    <2>1. call \in Command /\ call.uid \in Worker /\ Tail(rpc[s]) \in Seq(Command)
      <3>1. rpc[s] \in Seq(Command) /\ rpc[s] # <<>>
        BY <1>5 DEF SourceCall
      <3> QED BY <3>1, HeadTailType, CommandUid
    <2>2. last \in Nat \ {0}
      BY SomeFeeder
    <2>3. rpc' \in [SrcHost -> Seq(Command)] /\ ipc' \in [Feeder -> Seq(Command)]
      BY <1>5, <2>1 DEF SourceCall
    <2>4. cbid' \in [SrcHost -> Nat] /\ DOMAIN cbtable' = SrcHost
      <3> HIDE DEF call, last
      <3>1. CASE Registers(s)
        <4>1. cbid' = [cbid EXCEPT ![s] = last] /\ DOMAIN cbtable' = DOMAIN cbtable
          BY <1>5, <3>1 DEF SourceCall, call, last
        <4> QED BY <2>2, <4>1
      <3>2. CASE ~ Registers(s)
        BY <1>5, <3>2 DEF SourceCall, sourceVars
      <3> QED BY <3>1, <3>2
    <2>5. \A t \in SrcHost : /\ cbtable'[t] \in [DOMAIN cbtable'[t] -> Worker]
                              /\ DOMAIN cbtable'[t] \subseteq Nat \ {0}
      <3> HIDE DEF call, last
      <3>1. CASE Registers(s)
        <4>1. cbtable' = [cbtable EXCEPT ![s] =
                [k \in DOMAIN @ \cup {last} |-> IF k = last THEN call.uid ELSE @[k]]]
          BY <1>5, <3>1 DEF SourceCall, call, last
        <4> QED BY <2>1, <2>2, <4>1
      <3>2. CASE ~ Registers(s)
        BY <1>5, <3>2 DEF SourceCall, sourceVars
      <3> QED BY <3>1, <3>2
    <2> QED BY <1>5, <2>3, <2>4, <2>5 DEF SourceCall, hostVars, feederVars
  <1>6. ASSUME NEW s \in SrcHost, KillWorker(s) PROVE TypeOK' /\ Slots'
    BY <1>6 DEF KillWorker, sourceVars, feederVars
  <1>7. ASSUME NEW f \in Feeder, SourceReply(f) PROVE TypeOK' /\ Slots'
    <2> DEFINE s == HostOf[f]
    <2>1. s \in SrcHost
      OBVIOUS
    <2>2. echo' \in [Feeder -> Seq(Worker)]
      BY <1>7 DEF SourceReply
    <2>3. CASE cbid[s] \in DOMAIN cbtable[s]
      <3> HIDE DEF s
      <3>1. /\ back' = [back EXCEPT ![s] = Append(@, cbtable[s][cbid[s]])]
            /\ cbtable' = [cbtable EXCEPT ![s] =
                             [k \in DOMAIN cbtable[s] \ {cbid[s]} |-> cbtable[s][k]]]
            /\ cbid' = [cbid EXCEPT ![s] = cbid[s] - 1]
        BY <1>7, <2>3 DEF SourceReply, TableLeft, CbidLeft, Restrict, s
      <3>2. cbtable[s][cbid[s]] \in Worker
        BY <2>1, <2>3
      <3>3. cbid[s] - 1 \in Nat
        BY <2>1, <2>3
      <3>4. back' \in [SrcHost -> Seq(Worker)]
        BY <2>1, <3>1, <3>2
      <3>5. cbid' \in [SrcHost -> Nat] /\ DOMAIN cbtable' = SrcHost
        BY <2>1, <3>1, <3>3
      <3>6. \A t \in SrcHost : /\ cbtable'[t] \in [DOMAIN cbtable'[t] -> Worker]
                                /\ DOMAIN cbtable'[t] \subseteq Nat \ {0}
        <4> TAKE t \in SrcHost
        <4>1. CASE t = s
          <5>1. cbtable'[t] = [k \in DOMAIN cbtable[s] \ {cbid[s]} |-> cbtable[s][k]]
            BY <2>1, <3>1, <4>1
          <5> QED BY <2>1, <5>1
        <4>2. CASE t # s
          BY <3>1, <4>2
        <4> QED BY <4>1, <4>2
      <3> QED BY <1>7, <2>2, <3>4, <3>5, <3>6 DEF SourceReply, hostVars, feederVars
    <2>4. CASE cbid[s] \notin DOMAIN cbtable[s]
      BY <1>7, <2>2, <2>4 DEF SourceReply, hostVars, sourceVars, feederVars
    <2> QED BY <2>3, <2>4
  <1>8. ASSUME NEW f \in Feeder, BindNode(f) PROVE TypeOK' /\ Slots'
    <2>1. Head(ipc[f]) \in Command /\ Tail(ipc[f]) \in Seq(Command)
      <3>1. ipc[f] \in Seq(Command) /\ ipc[f] # <<>>
        BY <1>8 DEF BindNode
      <3> QED BY <3>1, HeadTailType
    <2>2. Head(ipc[f]).uid \in Worker
      BY <2>1, CommandUid
    <2> QED BY <1>8, <2>1, <2>2 DEF BindNode, hostVars, sourceVars
  <1>9. ASSUME NEW f \in Feeder, UnbindNode(f) PROVE TypeOK' /\ Slots'
    <2>1. Head(ipc[f]) \in Command /\ Tail(ipc[f]) \in Seq(Command)
      <3>1. ipc[f] \in Seq(Command) /\ ipc[f] # <<>>
        BY <1>9 DEF UnbindNode
      <3> QED BY <3>1, HeadTailType
    <2>2. Head(ipc[f]).uid \in Worker
      BY <2>1, CommandUid
    <2> QED BY <1>9, <2>1, <2>2 DEF UnbindNode, ClientsLeft, BindedLeft, hostVars, sourceVars
  <1>10. CASE UNCHANGED vars
    BY <1>10 DEF vars, hostVars, sourceVars, feederVars
  <1> QED BY <1>1, <1>2, <1>3, <1>4, <1>5, <1>6, <1>7, <1>8, <1>9, <1>10 DEF Next

\* Every variable keeps its type, for any workers, hosts and feeders: a uid in a
\* queue or in cbtable is one the root handed out, and cbid never goes negative.
THEOREM TypeCorrect == Spec => []TypeOK
  <1>1. Spec => [](TypeOK /\ Slots)
    BY TypeInit, TypeStep, PTL DEF Spec
  <1> QED BY <1>1, PTL

-----------------------------------------------------------------------------
(* Requests in flight. *)

\* A handled request stays handled: the interval that could repeat it is gone.
LEMMA RequestedStable ==
    ASSUME TypeOK, [Next]_vars, NEW w \in Worker, Requested(w)
    PROVE  Requested(w)'
  BY DEF TypeOK, Next, vars, hostVars, Requested, Spawn, Idle, HandleGraceful,
         BindDownstream, UnbindDownstream, SourceCall, KillWorker, SourceReply,
         BindNode, UnbindNode

\* A bind command is no unbind command.
LEMMA BindIsNoUnbind ==
    ASSUME NEW v, NEW w
    PROVE  /\ Bind(v) # Unbind(w)
           /\ Unbind(v) = Unbind(w) => v = w
           /\ Bind(v) = Bind(w) => v = w
           /\ Bind(v).cmd = "bind" /\ Bind(v).uid = v
           /\ Unbind(v).cmd = "unbind" /\ Unbind(v).uid = v
  <1>1. /\ Bind(v).cmd = "bind" /\ Bind(w).cmd = "bind"
        /\ Unbind(v).cmd = "unbind" /\ Unbind(w).cmd = "unbind"
        /\ Bind(v).uid = v /\ Bind(w).uid = w
        /\ Unbind(v).uid = v /\ Unbind(w).uid = w
    BY DEF Bind, Unbind
  <1> QED BY <1>1

\* A command is the bind or the unbind of the worker it names.
LEMMA BindOrUnbind ==
    ASSUME NEW c \in Command
    PROVE  /\ c.cmd = "bind" => c = Bind(c.uid)
           /\ c.cmd = "unbind" => c = Unbind(c.uid)
           /\ c.cmd \in {"bind", "unbind"}
  BY DEF Command, Bind, Unbind

LEMMA FlightInit == Init => OnlyRequestedInFlight
  <1> SUFFICES ASSUME Init PROVE OnlyRequestedInFlight
    OBVIOUS
  <1>1. RpcRequested /\ BackRequested /\ IpcRequested /\ EchoRequested
    BY EmptyInQueue, FeederAssumption
       DEF Init, RpcRequested, BackRequested, IpcRequested, EchoRequested
  <1>2. TableRequested
    BY DEF Init, TableRequested
  <1> QED BY <1>1, <1>2 DEF OnlyRequestedInFlight

LEMMA FlightStep ==
    TypeOK /\ OnlyRequestedInFlight /\ [Next]_vars => OnlyRequestedInFlight'
  <1> SUFFICES ASSUME TypeOK, OnlyRequestedInFlight, [Next]_vars
               PROVE  OnlyRequestedInFlight'
    OBVIOUS
  <1>r. \A w \in Worker : Requested(w) => Requested(w)'
    BY RequestedStable
  <1>t. \A s \in SrcHost : \A k \in DOMAIN cbtable[s] : cbtable[s][k] \in Worker
    BY DEF TypeOK
  <1> USE DEF OnlyRequestedInFlight
  <1>rpc. ASSUME UNCHANGED rpc PROVE RpcRequested'
    BY <1>r, <1>rpc DEF RpcRequested
  <1>back. ASSUME UNCHANGED back PROVE BackRequested'
    BY <1>r, <1>back DEF BackRequested
  <1>table. ASSUME UNCHANGED cbtable PROVE TableRequested'
    BY <1>r, <1>t, <1>table DEF TableRequested
  <1>ipc. ASSUME UNCHANGED ipc PROVE IpcRequested'
    BY <1>r, <1>ipc DEF IpcRequested
  <1>echo. ASSUME UNCHANGED echo PROVE EchoRequested'
    BY <1>r, <1>echo DEF EchoRequested
  <1>1. ASSUME NEW v \in Worker, Spawn(v) PROVE OnlyRequestedInFlight'
    <2>1. RpcRequested'
      <3> SUFFICES ASSUME NEW s \in SrcHost, NEW w \in Worker,
                          InQueue(rpc'[s], Unbind(w))
                   PROVE  Requested(w)
        BY <1>r DEF RpcRequested
      <3>1. rpc'[s] = Append(rpc[s], Bind(v)) /\ rpc[s] \in Seq(Command)
        BY <1>1 DEF Spawn, TypeOK
      <3>2. Bind(v) \in Command
        BY DEF Bind, Command
      <3>3. InQueue(rpc[s], Unbind(w))
        BY <3>1, <3>2, AppendInQueue, BindIsNoUnbind
      <3> QED BY <3>3 DEF RpcRequested
    <2> QED BY <1>1, <2>1, <1>back, <1>table, <1>ipc, <1>echo DEF Spawn, sourceVars
  <1>2. ASSUME NEW v \in Worker, Idle(v) \/ BindDownstream(v) \/ UnbindDownstream(v)
        PROVE  OnlyRequestedInFlight'
    BY <1>2, <1>rpc, <1>back, <1>table, <1>ipc, <1>echo
       DEF Idle, BindDownstream, UnbindDownstream, sourceVars
  <1>3. ASSUME NEW v \in Worker, HandleGraceful(v) PROVE OnlyRequestedInFlight'
    <2>1. RpcRequested'
      <3> SUFFICES ASSUME NEW s \in SrcHost, NEW w \in Worker,
                          InQueue(rpc'[s], Unbind(w))
                   PROVE  Requested(w)'
        BY DEF RpcRequested
      <3>1. CASE InQueue(rpc[s], Unbind(w))
        BY <1>r, <3>1 DEF RpcRequested
      <3>2. CASE ~ InQueue(rpc[s], Unbind(w))
        <4>1. rpc'[s] = Append(rpc[s], Unbind(v)) /\ rpc[s] \in Seq(Command)
          BY <1>3, <3>2 DEF HandleGraceful, TypeOK
        <4>2. Unbind(v) \in Command
          BY DEF Unbind, Command
        <4>3. w = v
          BY <3>2, <4>1, <4>2, AppendInQueue, BindIsNoUnbind
        <4> QED BY <1>3, <4>3 DEF HandleGraceful, Requested, TypeOK
      <3> QED BY <3>1, <3>2
    <2> QED BY <1>3, <2>1, <1>back, <1>table, <1>ipc, <1>echo
            DEF HandleGraceful, sourceVars
  <1>4. ASSUME NEW s \in SrcHost, SourceCall(s) PROVE OnlyRequestedInFlight'
    <2> DEFINE call == Head(rpc[s])
    <2>1. /\ rpc[s] \in Seq(Command) /\ rpc[s] # <<>>
          /\ call \in Command /\ call.uid \in Worker
          /\ \A x : InQueue(rpc[s], x) <=> x = call \/ InQueue(Tail(rpc[s]), x)
      <3>1. rpc[s] \in Seq(Command) /\ rpc[s] # <<>>
        BY <1>4 DEF SourceCall, TypeOK
      <3> QED BY <3>1, HeadTailInQueue, CommandUid
    <2>2. call.cmd = "unbind" => call = Unbind(call.uid) /\ Requested(call.uid)
      BY <2>1, BindOrUnbind DEF RpcRequested
    <2>3. RpcRequested'
      <3>1. rpc' = [rpc EXCEPT ![s] = Tail(rpc[s])]
        BY <1>4 DEF SourceCall
      <3> QED BY <1>r, <2>1, <3>1 DEF RpcRequested, TypeOK
    <2>4. IpcRequested'
      <3> SUFFICES ASSUME NEW f \in Feeder, NEW w \in Worker,
                          InQueue(ipc'[f], Unbind(w))
                   PROVE  Requested(w)
        BY <1>r DEF IpcRequested
      <3>1. ipc[f] \in Seq(Command)
        BY DEF TypeOK
      <3>2. ipc'[f] = ipc[f] \/ ipc'[f] = Append(ipc[f], call)
        BY <1>4 DEF SourceCall
      <3>3. CASE InQueue(ipc[f], Unbind(w))
        BY <3>3 DEF IpcRequested
      <3>4. CASE Unbind(w) = call
        BY <2>2, <3>4, BindIsNoUnbind
      <3> HIDE DEF call
      <3>5. InQueue(Append(ipc[f], call), Unbind(w))
                <=> InQueue(ipc[f], Unbind(w)) \/ Unbind(w) = call
        BY <2>1, <3>1, AppendInQueue
      <3> QED BY <3>2, <3>3, <3>4, <3>5
    <2>5. TableRequested'
      <3>1. CASE Registers(s)
        <4> DEFINE last == cbid[s] + Cardinality(Feeders(s))
        <4>1. Requested(call.uid)
          BY <2>2, <3>1 DEF Registers
        <4>2. cbtable' = [cbtable EXCEPT ![s] =
                [k \in DOMAIN cbtable[s] \cup {last} |->
                    IF k = last THEN call.uid ELSE cbtable[s][k]]]
          BY <1>4, <3>1 DEF SourceCall
        <4> HIDE DEF call, last
        <4> SUFFICES ASSUME NEW t \in SrcHost, NEW k \in DOMAIN cbtable'[t]
                     PROVE  /\ cbtable'[t][k] \in Worker
                            /\ Requested(cbtable'[t][k])
          BY <1>r DEF TableRequested
        <4>3. CASE t = s
          <5>1. cbtable'[t] = [i \in DOMAIN cbtable[s] \cup {last} |->
                    IF i = last THEN call.uid ELSE cbtable[s][i]]
            BY <4>2, <4>3 DEF TypeOK
          <5> QED BY <1>t, <2>1, <4>1, <5>1 DEF TableRequested
        <4>4. CASE t # s
          BY <1>t, <4>2, <4>4 DEF TableRequested
        <4> QED BY <4>3, <4>4
      <3>2. CASE ~ Registers(s)
        BY <1>4, <1>table, <3>2 DEF SourceCall, sourceVars
      <3> QED BY <3>1, <3>2
    <2> QED BY <1>4, <2>3, <2>4, <2>5, <1>back, <1>echo DEF SourceCall
  <1>5. ASSUME NEW s \in SrcHost, KillWorker(s) PROVE OnlyRequestedInFlight'
    <2>1. BackRequested'
      <3>1. back' = [back EXCEPT ![s] = Tail(back[s])]
        BY <1>5 DEF KillWorker
      <3>2. \A x : InQueue(Tail(back[s]), x) => InQueue(back[s], x)
        BY <1>5, HeadTailInQueue DEF KillWorker, TypeOK
      <3> QED BY <1>r, <3>1, <3>2 DEF BackRequested, TypeOK
    <2> QED BY <1>5, <2>1, <1>rpc, <1>table, <1>ipc, <1>echo DEF KillWorker, sourceVars
  <1>6. ASSUME NEW f \in Feeder, SourceReply(f) PROVE OnlyRequestedInFlight'
    <2> DEFINE s == HostOf[f]
    <2>1. s \in SrcHost
      BY FeederAssumption
    <2>2. EchoRequested'
      <3>1. echo' = [echo EXCEPT ![f] = Tail(echo[f])]
        BY <1>6 DEF SourceReply
      <3>2. \A x : InQueue(Tail(echo[f]), x) => InQueue(echo[f], x)
        BY <1>6, HeadTailInQueue DEF SourceReply, TypeOK
      <3> QED BY <1>r, <3>1, <3>2 DEF EchoRequested, TypeOK
    <2>3. BackRequested' /\ TableRequested'
      <3>1. CASE cbid[s] \in DOMAIN cbtable[s]
        <4>1. /\ back' = [back EXCEPT ![s] = Append(back[s], cbtable[s][cbid[s]])]
              /\ cbtable' = [cbtable EXCEPT ![s] =
                    [k \in DOMAIN cbtable[s] \ {cbid[s]} |-> cbtable[s][k]]]
          BY <1>6, <3>1 DEF SourceReply, TableLeft, Restrict
        <4> HIDE DEF s
        <4>2. Requested(cbtable[s][cbid[s]]) /\ cbtable[s][cbid[s]] \in Worker
          BY <1>t, <2>1, <3>1 DEF TableRequested
        <4>3. BackRequested'
          <5> SUFFICES ASSUME NEW t \in SrcHost, NEW w \in Worker, InQueue(back'[t], w)
                       PROVE  Requested(w)
            BY <1>r DEF BackRequested
          <5>1. CASE t = s
            <6>1. back'[t] = Append(back[s], cbtable[s][cbid[s]])
                  /\ back[s] \in Seq(Worker)
              BY <2>1, <4>1, <5>1 DEF TypeOK
            <6> QED BY <2>1, <4>2, <6>1, AppendInQueue DEF BackRequested
          <5>2. CASE t # s
            BY <4>1, <5>2 DEF BackRequested, TypeOK
          <5> QED BY <5>1, <5>2
        <4>4. TableRequested'
          <5> SUFFICES ASSUME NEW t \in SrcHost, NEW k \in DOMAIN cbtable'[t]
                       PROVE  /\ cbtable'[t][k] \in Worker
                              /\ Requested(cbtable'[t][k])
            BY <1>r DEF TableRequested
          <5>1. CASE t = s
            <6>1. cbtable'[t] = [i \in DOMAIN cbtable[s] \ {cbid[s]} |-> cbtable[s][i]]
              BY <2>1, <4>1, <5>1 DEF TypeOK
            <6> QED BY <1>t, <2>1, <6>1 DEF TableRequested
          <5>2. CASE t # s
            BY <1>t, <4>1, <5>2 DEF TableRequested
          <5> QED BY <5>1, <5>2
        <4> QED BY <4>3, <4>4
      <3>2. CASE cbid[s] \notin DOMAIN cbtable[s]
        BY <1>6, <1>back, <1>table, <3>2 DEF SourceReply, sourceVars
      <3> QED BY <3>1, <3>2
    <2> QED BY <1>6, <2>2, <2>3, <1>rpc, <1>ipc DEF SourceReply
  <1>7. ASSUME NEW f \in Feeder, BindNode(f) PROVE OnlyRequestedInFlight'
    <2>1. IpcRequested'
      <3>1. ipc' = [ipc EXCEPT ![f] = Tail(ipc[f])]
        BY <1>7 DEF BindNode
      <3>2. \A x : InQueue(Tail(ipc[f]), x) => InQueue(ipc[f], x)
        BY <1>7, HeadTailInQueue DEF BindNode, TypeOK
      <3> QED BY <1>r, <3>1, <3>2 DEF IpcRequested, TypeOK
    <2> QED BY <1>7, <2>1, <1>rpc, <1>back, <1>table, <1>echo DEF BindNode, sourceVars
  <1>8. ASSUME NEW f \in Feeder, UnbindNode(f) PROVE OnlyRequestedInFlight'
    <2> DEFINE v == Head(ipc[f]).uid
    <2>1. /\ ipc[f] \in Seq(Command) /\ v \in Worker
          /\ \A x : InQueue(ipc[f], x) <=> x = Head(ipc[f]) \/ InQueue(Tail(ipc[f]), x)
          /\ Head(ipc[f]) = Unbind(v)
      <3>1. ipc[f] \in Seq(Command) /\ ipc[f] # <<>> /\ Head(ipc[f]).cmd = "unbind"
        BY <1>8 DEF UnbindNode, TypeOK
      <3>2. Head(ipc[f]) \in Command
        BY <3>1, HeadTailType
      <3> QED BY <3>1, <3>2, HeadTailInQueue, CommandUid, BindOrUnbind
    <2>2. IpcRequested'
      <3>1. ipc' = [ipc EXCEPT ![f] = Tail(ipc[f])]
        BY <1>8 DEF UnbindNode
      <3> QED BY <1>r, <2>1, <3>1 DEF IpcRequested, TypeOK
    <2>3. EchoRequested'
      <3>1. echo' = [echo EXCEPT ![f] = Append(echo[f], v)]
        BY <1>8 DEF UnbindNode
      <3>2. Requested(v)
        BY <2>1 DEF IpcRequested
      <3> HIDE DEF v
      <3> SUFFICES ASSUME NEW g \in Feeder, NEW w \in Worker, InQueue(echo'[g], w)
                   PROVE  Requested(w)
        BY <1>r DEF EchoRequested
      <3>3. CASE g = f
        <4>1. echo'[g] = Append(echo[f], v) /\ echo[f] \in Seq(Worker)
          BY <3>1, <3>3 DEF TypeOK
        <4>2. InQueue(echo[f], w) \/ w = v
          BY <3>3, <4>1, <2>1, AppendInQueue
        <4> QED BY <3>2, <4>2 DEF EchoRequested
      <3>4. CASE g # f
        BY <3>1, <3>4 DEF EchoRequested, TypeOK
      <3> QED BY <3>3, <3>4
    <2> QED BY <1>8, <2>2, <2>3, <1>rpc, <1>back, <1>table DEF UnbindNode, sourceVars
  <1>9. CASE UNCHANGED vars
    BY <1>9, <1>rpc, <1>back, <1>table, <1>ipc, <1>echo DEF vars, sourceVars
  <1> QED BY <1>1, <1>2, <1>3, <1>4, <1>5, <1>6, <1>7, <1>8, <1>9 DEF Next

-----------------------------------------------------------------------------
(* The pool. *)

LEMMA PoolInit == Init => OnlyIdleLeave /\ RequesterInPool
  BY DEF Init, OnlyIdleLeave, RequesterInPool

LEMMA PoolStep ==
    TypeOK /\ OnlyRequestedInFlight /\ OnlyIdleLeave /\ RequesterInPool /\ [Next]_vars
        => OnlyIdleLeave' /\ RequesterInPool'
  <1> SUFFICES ASSUME TypeOK, OnlyRequestedInFlight, OnlyIdleLeave, RequesterInPool,
                      [Next]_vars
               PROVE  OnlyIdleLeave' /\ RequesterInPool'
    OBVIOUS
  <1> USE DEF OnlyIdleLeave, RequesterInPool
  <1>1. ASSUME NEW w \in Worker, Spawn(w) PROVE OnlyIdleLeave' /\ RequesterInPool'
    BY <1>1 DEF Spawn, TypeOK
  <1>2. ASSUME NEW w \in Worker, Idle(w) PROVE OnlyIdleLeave' /\ RequesterInPool'
    BY <1>2 DEF Idle, TypeOK
  <1>3. ASSUME NEW w \in Worker, HandleGraceful(w)
        PROVE  OnlyIdleLeave' /\ RequesterInPool'
    BY <1>3 DEF HandleGraceful, TypeOK
  <1>4. ASSUME NEW s \in SrcHost, KillWorker(s) PROVE OnlyIdleLeave' /\ RequesterInPool'
    <2>1. Victim(s) \in Worker /\ Requested(Victim(s))
      <3>1. back[s] \in Seq(Worker) /\ back[s] # <<>>
        BY <1>4 DEF KillWorker, TypeOK
      <3>2. Victim(s) \in Worker /\ InQueue(back[s], Victim(s))
        BY <3>1, HeadTailInQueue DEF Victim
      <3> QED BY <3>2 DEF OnlyRequestedInFlight, BackRequested
    <2>2. pool' = pool \ {Victim(s)} /\ UNCHANGED <<spawned, asked, pending>>
      BY <1>4 DEF KillWorker
    <2> QED BY <2>1, <2>2 DEF Requested
  <1>5. ASSUME UNCHANGED <<pool, spawned, asked, pending>>
        PROVE  OnlyIdleLeave' /\ RequesterInPool'
    BY <1>5
  <1>6. CASE \/ \E w \in Worker : BindDownstream(w) \/ UnbindDownstream(w)
             \/ \E s \in SrcHost : SourceCall(s)
             \/ \E f \in Feeder : SourceReply(f) \/ BindNode(f) \/ UnbindNode(f)
             \/ UNCHANGED vars
    BY <1>5, <1>6 DEF BindDownstream, UnbindDownstream, SourceCall, SourceReply,
                     BindNode, UnbindNode, vars, hostVars
  <1> QED BY <1>1, <1>2, <1>3, <1>4, <1>6 DEF Next

-----------------------------------------------------------------------------
(* The sockets. *)

\* A feeder has a socket to a worker, or a bind command for it is on its way.
Fed(w, f) == \/ w \in clients[f]
             \/ InQueue(ipc[f], Bind(w))
             \/ InQueue(rpc[HostOf[f]], Bind(w))

LEMMA FedInit == Init => BusyKeepSockets
  BY DEF Init, BusyKeepSockets

\* Only the unbinding of w itself can take its socket.
LEMMA FedStep ==
    TypeOK /\ OnlyRequestedInFlight /\ BusyKeepSockets /\ [Next]_vars => BusyKeepSockets'
  <1> SUFFICES ASSUME TypeOK, OnlyRequestedInFlight, BusyKeepSockets, [Next]_vars,
                      NEW w \in pool', w \notin asked', NEW f \in Feeder
               PROVE  Fed(w, f)'
    BY DEF BusyKeepSockets, Fed
  <1>h. HostOf[f] \in SrcHost /\ ipc[f] \in Seq(Command) /\ rpc[HostOf[f]] \in Seq(Command)
    BY FeederAssumption DEF TypeOK
  <1>w. w \in Worker
    BY DEF TypeOK, Next, vars, hostVars, Spawn, Idle, HandleGraceful, BindDownstream,
           UnbindDownstream, SourceCall, KillWorker, SourceReply, BindNode, UnbindNode
  <1>1. ASSUME NEW v \in Worker, Spawn(v) PROVE Fed(w, f)'
    <2>1. rpc'[HostOf[f]] = Append(rpc[HostOf[f]], Bind(v)) /\ Bind(v) \in Command
      BY <1>1, <1>h DEF Spawn, Bind, Command
    <2>2. InQueue(rpc[HostOf[f]], Bind(w)) \/ w = v
              => InQueue(rpc'[HostOf[f]], Bind(w))
      BY <1>h, <2>1, AppendInQueue
    <2>3. w = v \/ w \in pool \ asked
      BY <1>1 DEF Spawn
    <2> QED BY <1>1, <2>2, <2>3 DEF Spawn, feederVars, BusyKeepSockets, Fed
  <1>o. ASSUME w \in pool \ asked PROVE Fed(w, f)
    BY <1>o DEF BusyKeepSockets, Fed
  <1>2. ASSUME NEW v \in Worker, Idle(v) \/ BindDownstream(v) \/ UnbindDownstream(v)
        PROVE  Fed(w, f)'
    BY <1>2, <1>o DEF Idle, BindDownstream, UnbindDownstream, feederVars, Fed
  <1>3. ASSUME NEW v \in Worker, HandleGraceful(v) PROVE Fed(w, f)'
    <2>1. \/ rpc'[HostOf[f]] = rpc[HostOf[f]]
          \/ rpc'[HostOf[f]] = Append(rpc[HostOf[f]], Unbind(v)) /\ Unbind(v) \in Command
      BY <1>3, <1>h DEF HandleGraceful, Unbind, Command
    <2>2. InQueue(rpc[HostOf[f]], Bind(w)) => InQueue(rpc'[HostOf[f]], Bind(w))
      <3>1. Unbind(v) \in Command =>
              (InQueue(Append(rpc[HostOf[f]], Unbind(v)), Bind(w))
                 <=> InQueue(rpc[HostOf[f]], Bind(w)) \/ Bind(w) = Unbind(v))
        BY <1>h, AppendInQueue
      <3> QED BY <2>1, <3>1
    <2> QED BY <1>3, <1>o, <2>2 DEF HandleGraceful, feederVars, Fed
  <1>4. ASSUME NEW s \in SrcHost, SourceCall(s) PROVE Fed(w, f)'
    <2>0. Fed(w, f)
      BY <1>4, <1>o DEF SourceCall, hostVars
    <2>1. CASE HostOf[f] # s
      BY <1>4, <2>0, <2>1 DEF SourceCall, feederVars, Fed, Feeders, TypeOK
    <2>2. CASE HostOf[f] = s
      <3> DEFINE call == Head(rpc[s])
      <3>1. rpc[s] # <<>> /\ call \in Command
        BY <1>4, <1>h, <2>2, HeadTailType DEF SourceCall
      <3>2. rpc'[s] = Tail(rpc[s]) /\ ipc'[f] = Append(ipc[f], call)
        BY <1>4, <1>h, <2>2 DEF SourceCall, Feeders, TypeOK
      <3>3. InQueue(rpc[s], Bind(w)) => Bind(w) = call \/ InQueue(rpc'[s], Bind(w))
        BY <1>h, <2>2, <3>1, <3>2, HeadTailInQueue
      <3>4. InQueue(ipc[f], Bind(w)) \/ Bind(w) = call => InQueue(ipc'[f], Bind(w))
        <4> HIDE DEF call
        <4> QED BY <1>h, <3>1, <3>2, AppendInQueue
      <3> QED BY <1>4, <2>0, <2>2, <3>3, <3>4 DEF SourceCall, feederVars, Fed
    <2> QED BY <2>1, <2>2
  <1>5. ASSUME NEW s \in SrcHost, KillWorker(s) PROVE Fed(w, f)'
    BY <1>5, <1>o DEF KillWorker, feederVars, Fed
  <1>6. ASSUME NEW g \in Feeder, SourceReply(g) PROVE Fed(w, f)'
    BY <1>6, <1>o DEF SourceReply, hostVars, feederVars, Fed
  <1>7. ASSUME NEW g \in Feeder, BindNode(g) PROVE Fed(w, f)'
    <2>0. Fed(w, f)
      BY <1>7, <1>o DEF BindNode, hostVars
    <2>1. CASE g # f
      BY <1>7, <2>0, <2>1 DEF BindNode, Fed, TypeOK
    <2>2. CASE g = f
      <3>1. /\ ipc[f] # <<>> /\ ipc'[f] = Tail(ipc[f])
            /\ clients'[f] = clients[f] \cup {Head(ipc[f]).uid}
        BY <1>7, <2>2 DEF BindNode, TypeOK
      <3>2. InQueue(ipc[f], Bind(w)) => Bind(w) = Head(ipc[f]) \/ InQueue(ipc'[f], Bind(w))
        BY <1>h, <3>1, HeadTailInQueue
      <3>3. Bind(w) = Head(ipc[f]) => w \in clients'[f]
        BY <3>1, BindIsNoUnbind
      <3> QED BY <1>7, <2>0, <3>1, <3>2, <3>3 DEF BindNode, Fed
    <2> QED BY <2>1, <2>2
  <1>8. ASSUME NEW g \in Feeder, UnbindNode(g) PROVE Fed(w, f)'
    <2>0. Fed(w, f) /\ w \notin asked
      BY <1>8, <1>o DEF UnbindNode, hostVars, Fed
    <2>1. CASE g # f
      <3>1. clients'[f] = clients[f] /\ ipc'[f] = ipc[f] /\ UNCHANGED rpc
        BY <1>8, <2>1 DEF UnbindNode, TypeOK
      <3> QED BY <2>0, <3>1 DEF Fed
    <2>2. CASE g = f
      <3>1. /\ ipc[f] # <<>> /\ ipc'[f] = Tail(ipc[f]) /\ Head(ipc[f]).cmd = "unbind"
            /\ clients'[f] = clients[f] \ {Head(ipc[f]).uid}
        BY <1>8, <2>2 DEF UnbindNode, ClientsLeft, TypeOK
      <3>2. Head(ipc[f]) \in Command
        BY <1>h, <3>1, HeadTailType
      <3>3. Head(ipc[f]) = Unbind(Head(ipc[f]).uid) /\ Head(ipc[f]) # Bind(w)
        BY <3>1, <3>2, BindOrUnbind, BindIsNoUnbind
      <3>4. InQueue(ipc[f], Bind(w)) => InQueue(ipc'[f], Bind(w))
        BY <1>h, <3>1, <3>3, HeadTailInQueue
      <3>5. w # Head(ipc[f]).uid
        <4>1. InQueue(ipc[f], Head(ipc[f]))
          BY <1>h, <3>1, HeadTailInQueue
        <4>2. Requested(Head(ipc[f]).uid)
          BY <3>2, <3>3, <4>1, CommandUid DEF OnlyRequestedInFlight, IpcRequested
        <4> QED BY <2>0, <4>2 DEF Requested
      <3> QED BY <1>8, <2>0, <3>1, <3>4, <3>5 DEF UnbindNode, Fed
    <2> QED BY <2>1, <2>2
  <1>9. CASE UNCHANGED vars
    BY <1>9, <1>o DEF vars, hostVars, feederVars, Fed
  <1> QED BY <1>1, <1>2, <1>3, <1>4, <1>5, <1>6, <1>7, <1>8, <1>9 DEF Next

-----------------------------------------------------------------------------
(* The inductive invariant and what it implies. *)

IInv == /\ TypeOK /\ Slots
        /\ OnlyRequestedInFlight
        /\ OnlyIdleLeave /\ RequesterInPool
        /\ BusyKeepSockets

\* IInv holds initially, every step keeps it, so it always holds.
THEOREM Invariance == Spec => []IInv
  <1>1. Init => IInv
    BY TypeInit, FlightInit, PoolInit, FedInit DEF IInv
  <1>2. IInv /\ [Next]_vars => IInv'
    BY TypeStep, FlightStep, PoolStep, FedStep DEF IInv
  <1> QED BY <1>1, <1>2, PTL DEF Spec

\* No queue and no callback, however confused, ever carries the removal of a
\* worker that did not call graceful_kill.
THEOREM InFlightSafe == Spec => []OnlyRequestedInFlight
  <1>1. IInv => OnlyRequestedInFlight
    BY DEF IInv
  <1> QED BY <1>1, Invariance, PTL

\* kill_worker only ever removes a worker that asked to be removed.
THEOREM PoolSafe == Spec => []OnlyIdleLeave
  <1>1. IInv => OnlyIdleLeave
    BY DEF IInv
  <1> QED BY <1>1, Invariance, PTL

\* The graceful_kill handler always finds the operator of its sender.
THEOREM RequesterFound == Spec => []RequesterInPool
  <1>1. IInv => RequesterInPool
    BY DEF IInv
  <1> QED BY <1>1, Invariance, PTL

\* Every worker that did not ask keeps its sockets from the feeders, or is about to
\* have them (bind_cluster_worker, koala_node.js; unbind_node, koala.js 1636-1656).
THEOREM SocketsKept == Spec => []BusyKeepSockets
  <1>1. IInv => BusyKeepSockets
    BY DEF IInv
  <1> QED BY <1>1, Invariance, PTL

-----------------------------------------------------------------------------
(* A request is in one place. *)

Once(q, x) == \A i, j \in DOMAIN q : q[i] = x /\ q[j] = x => i = j

\* The request to unbind w is at most once called, registered or called back, and in
\* at most one of the three.
OnePlace(s, w) ==
    /\ Once(rpc[s], Unbind(w)) /\ Once(cbtable[s], w) /\ Once(back[s], w)
    /\ ~ (InQueue(rpc[s], Unbind(w)) /\ InQueue(cbtable[s], w))
    /\ ~ (InQueue(rpc[s], Unbind(w)) /\ InQueue(back[s], w))
    /\ ~ (InQueue(cbtable[s], w) /\ InQueue(back[s], w))
OnePlaceEach == \A s \in SrcHost, w \in Worker : OnePlace(s, w)

LEMMA AppendOnce ==
    ASSUME NEW S, NEW q \in Seq(S), NEW e \in S, NEW x, Once(q, x), x = e => ~ InQueue(q, x)
    PROVE  Once(Append(q, e), x)
  <1>1. /\ Append(q, e) \in Seq(S)
        /\ Len(Append(q, e)) = Len(q) + 1
        /\ \A i \in 1..Len(q) : Append(q, e)[i] = q[i]
        /\ Append(q, e)[Len(q) + 1] = e
    OBVIOUS
  <1>2. /\ DOMAIN q = 1..Len(q)
        /\ DOMAIN Append(q, e) = 1..(Len(q) + 1)
        /\ Len(q) \in Nat
    BY <1>1
  <1> DEFINE r == Append(q, e)
             n == Len(q)
  <1>3. \A i \in 1..(n + 1) : i # n + 1 => i \in 1..n
    BY <1>2
  <1>4. \A i \in 1..(n + 1) : r[i] = x => (i = n + 1 <=> x = e)
    BY <1>1, <1>2, <1>3 DEF InQueue
  <1> HIDE DEF r, n
  <1> QED BY <1>1, <1>2, <1>3, <1>4 DEF Once, r, n

LEMMA TailOnce ==
    ASSUME NEW S, NEW q \in Seq(S), q # <<>>, NEW x, Once(q, x)
    PROVE  Once(Tail(q), x) /\ (x = Head(q) => ~ InQueue(Tail(q), x))
  <1>1. /\ Head(q) = q[1] /\ Len(q) \in Nat \ {0} /\ Len(Tail(q)) = Len(q) - 1
        /\ Tail(q) \in Seq(S)
        /\ \A i \in 1..(Len(q) - 1) : Tail(q)[i] = q[i + 1]
    OBVIOUS
  <1>2. DOMAIN q = 1..Len(q) /\ DOMAIN Tail(q) = 1..(Len(q) - 1)
    BY <1>1
  <1>3. \A i \in 1..(Len(q) - 1) : i + 1 \in 1..Len(q) /\ i + 1 # 1 /\ i \in Nat
    BY <1>1
  <1>4. 1 \in 1..Len(q)
    BY <1>1
  <1>5. Once(Tail(q), x)
    BY <1>1, <1>2, <1>3 DEF Once
  <1>6. x = Head(q) => ~ InQueue(Tail(q), x)
    BY <1>1, <1>2, <1>3, <1>4 DEF Once, InQueue
  <1> QED BY <1>5, <1>6

LEMMA PlaceInit == Init => OnePlaceEach
  <1> SUFFICES ASSUME Init, NEW s \in SrcHost, NEW w \in Worker PROVE OnePlace(s, w)
    BY DEF OnePlaceEach
  <1>1. rpc[s] = <<>> /\ back[s] = <<>> /\ DOMAIN cbtable[s] = {}
    BY DEF Init
  <1>2. DOMAIN <<>> = {}
    OBVIOUS
  <1> QED BY <1>1, <1>2 DEF OnePlace, Once, InQueue

LEMMA PlaceStep == IInv /\ OnePlaceEach /\ [Next]_vars => OnePlaceEach'
  <1> SUFFICES ASSUME IInv, OnePlaceEach, [Next]_vars, NEW t \in SrcHost, NEW w \in Worker
               PROVE  OnePlace(t, w)'
    BY DEF OnePlaceEach
  <1>o. OnePlace(t, w)
    BY DEF OnePlaceEach
  <1>q. rpc[t] \in Seq(Command) /\ back[t] \in Seq(Worker)
    BY DEF IInv, TypeOK
  <1>same. ASSUME rpc'[t] = rpc[t], cbtable'[t] = cbtable[t], back'[t] = back[t]
           PROVE  OnePlace(t, w)'
    BY <1>o, <1>same DEF OnePlace
  <1>1. ASSUME NEW v \in Worker, Spawn(v) PROVE OnePlace(t, w)'
    <2>1. /\ rpc'[t] = Append(rpc[t], Bind(v)) /\ Bind(v) \in Command
          /\ UNCHANGED <<cbtable, back>>
      BY <1>1 DEF Spawn, sourceVars, Bind, Command
    <2>2. Unbind(w) # Bind(v)
      BY BindIsNoUnbind
    <2>3. InQueue(rpc'[t], Unbind(w)) <=> InQueue(rpc[t], Unbind(w))
      BY <1>q, <2>1, <2>2, AppendInQueue
    <2>4. Once(rpc'[t], Unbind(w))
      BY <1>o, <1>q, <2>1, <2>2, AppendOnce DEF OnePlace
    <2> QED BY <1>o, <2>1, <2>3, <2>4 DEF OnePlace
  <1>2. ASSUME NEW v \in Worker, Idle(v) \/ BindDownstream(v) \/ UnbindDownstream(v)
        PROVE  OnePlace(t, w)'
    BY <1>2, <1>same DEF Idle, BindDownstream, UnbindDownstream, sourceVars
  <1>3. ASSUME NEW v \in Worker, HandleGraceful(v) PROVE OnePlace(t, w)'
    <2>1. UNCHANGED <<cbtable, back>> /\ v \in pending
      BY <1>3 DEF HandleGraceful, sourceVars
    <2>2. CASE pool = {v}
      BY <1>3, <1>same, <2>2 DEF HandleGraceful, sourceVars
    <2>3. CASE pool # {v}
      <3>1. rpc'[t] = Append(rpc[t], Unbind(v)) /\ Unbind(v) \in Command
        BY <1>3, <2>3 DEF HandleGraceful, Unbind, Command
      <3>2. Unbind(w) = Unbind(v) <=> w = v
        BY BindIsNoUnbind
      <3>3. w = v => /\ ~ InQueue(rpc[t], Unbind(w)) /\ ~ InQueue(back[t], w)
                     /\ ~ InQueue(cbtable[t], w)
        BY <2>1 DEF IInv, OnlyRequestedInFlight, RpcRequested, BackRequested, TableRequested,
                    Requested, InQueue
      <3>4. InQueue(rpc'[t], Unbind(w)) <=> InQueue(rpc[t], Unbind(w)) \/ w = v
        BY <1>q, <3>1, <3>2, AppendInQueue
      <3>5. Once(rpc'[t], Unbind(w))
        BY <1>o, <1>q, <3>1, <3>2, <3>3, AppendOnce DEF OnePlace
      <3> QED BY <1>o, <2>1, <3>3, <3>4, <3>5 DEF OnePlace
    <2> QED BY <2>2, <2>3
  <1>4. ASSUME NEW s \in SrcHost, SourceCall(s) PROVE OnePlace(t, w)'
    <2>1. CASE t # s
      BY <1>4, <1>same, <2>1 DEF SourceCall, sourceVars, IInv, TypeOK
    <2>2. CASE t = s
      <3> DEFINE call == Head(rpc[s])
                 last == cbid[s] + Cardinality(Feeders(s))
      <3>1. /\ rpc[s] # <<>> /\ rpc'[s] = Tail(rpc[s]) /\ back' = back
        BY <1>4 DEF SourceCall, IInv, TypeOK
      <3>2. /\ Once(rpc'[s], Unbind(w)) /\ call \in Command
            /\ Unbind(w) = call => ~ InQueue(rpc'[s], Unbind(w))
            /\ InQueue(rpc[s], Unbind(w)) <=> Unbind(w) = call \/ InQueue(rpc'[s], Unbind(w))
        BY <1>o, <1>q, <2>2, <3>1, TailOnce, HeadTailInQueue DEF OnePlace
      <3>3. CASE Registers(s)
        <4>1. cbtable' = [cbtable EXCEPT ![s] =
                [k \in DOMAIN cbtable[s] \cup {last} |->
                    IF k = last THEN call.uid ELSE cbtable[s][k]]]
          BY <1>4, <3>3 DEF SourceCall
        <4>2. call = Unbind(call.uid)
          BY <3>2, <3>3, BindOrUnbind DEF Registers
        <4> HIDE DEF call, last
        <4>3. cbtable'[s] = [k \in DOMAIN cbtable[s] \cup {last} |->
                                 IF k = last THEN call.uid ELSE cbtable[s][k]]
          BY <4>1 DEF IInv, TypeOK
        <4>4. Unbind(w) = call <=> w = call.uid
          BY <4>2, BindIsNoUnbind
        <4>5. InQueue(cbtable'[s], w) => InQueue(cbtable[s], w) \/ w = call.uid
          BY <4>3 DEF InQueue
        <4>6. Once(cbtable'[s], w)
          <5>1. CASE w = call.uid
            <6>1. ~ InQueue(cbtable[s], w)
              BY <1>o, <2>2, <3>2, <4>4, <5>1 DEF OnePlace
            <6> QED BY <4>3, <5>1, <6>1 DEF Once, InQueue
          <5>2. CASE w # call.uid
            <6>1. Once(cbtable[s], w)
              BY <1>o, <2>2 DEF OnePlace
            <6> QED BY <4>3, <5>2, <6>1 DEF Once
          <5> QED BY <5>1, <5>2
        <4> QED BY <1>o, <2>2, <3>1, <3>2, <4>4, <4>5, <4>6 DEF OnePlace
      <3>4. CASE ~ Registers(s)
        <4>1. cbtable' = cbtable
          BY <1>4, <3>4 DEF SourceCall, sourceVars
        <4> QED BY <1>o, <2>2, <3>1, <3>2, <4>1 DEF OnePlace
      <3> QED BY <3>3, <3>4
    <2> QED BY <2>1, <2>2
  <1>5. ASSUME NEW s \in SrcHost, KillWorker(s) PROVE OnePlace(t, w)'
    <2>1. CASE t # s
      BY <1>5, <1>same, <2>1 DEF KillWorker, sourceVars, IInv, TypeOK
    <2>2. CASE t = s
      <3>1. back[s] # <<>> /\ back'[s] = Tail(back[s]) /\ UNCHANGED <<rpc, cbtable>>
        BY <1>5 DEF KillWorker, sourceVars, IInv, TypeOK
      <3>2. Once(back'[s], w) /\ (InQueue(back'[s], w) => InQueue(back[s], w))
        BY <1>o, <1>q, <2>2, <3>1, TailOnce, HeadTailInQueue DEF OnePlace
      <3> QED BY <1>o, <2>2, <3>1, <3>2 DEF OnePlace
    <2> QED BY <2>1, <2>2
  <1>6. ASSUME NEW f \in Feeder, SourceReply(f) PROVE OnePlace(t, w)'
    <2>1. PICK s : s = HostOf[f]
      OBVIOUS
    <2>2. s \in SrcHost
      BY <2>1, FeederAssumption
    <2>3. CASE cbid[s] \notin DOMAIN cbtable[s]
      BY <1>6, <1>same, <2>1, <2>3 DEF SourceReply, sourceVars
    <2>4. CASE cbid[s] \in DOMAIN cbtable[s]
      <3>1. PICK top : top = cbid[s] /\ top \in DOMAIN cbtable[s]
        BY <2>4
      <3>2. PICK v : v = cbtable[s][top]
        OBVIOUS
      <3>3. /\ back' = [back EXCEPT ![s] = Append(back[s], v)]
            /\ cbtable' = [cbtable EXCEPT ![s] = [k \in DOMAIN cbtable[s] \ {top} |-> cbtable[s][k]]]
            /\ rpc' = rpc
        BY <1>6, <2>1, <3>1, <3>2 DEF SourceReply, TableLeft, Restrict
      <3>4. CASE t # s
        BY <1>same, <3>3, <3>4 DEF IInv, TypeOK
      <3>5. CASE t = s
        <4>1. /\ back'[s] = Append(back[s], v) /\ v \in Worker
              /\ cbtable'[s] = [k \in DOMAIN cbtable[s] \ {top} |-> cbtable[s][k]]
          BY <2>2, <3>1, <3>2, <3>3 DEF IInv, TypeOK
        <4>2. Once(cbtable[s], w)
          BY <1>o, <3>5 DEF OnePlace
        <4>3. /\ InQueue(cbtable[s], w) <=> InQueue(cbtable'[s], w) \/ w = v
              /\ Once(cbtable'[s], w) /\ ~ (w = v /\ InQueue(cbtable'[s], w))
          BY <3>1, <3>2, <4>1, <4>2 DEF Once, InQueue
        <4>4. InQueue(back'[s], w) <=> InQueue(back[s], w) \/ w = v
          BY <1>q, <3>5, <4>1, AppendInQueue
        <4>5. Once(back'[s], w)
          BY <1>o, <1>q, <3>5, <4>1, <4>3, AppendOnce DEF OnePlace
        <4> QED BY <1>o, <3>3, <3>5, <4>3, <4>4, <4>5 DEF OnePlace
      <3> QED BY <3>4, <3>5
    <2> QED BY <2>3, <2>4
  <1>7. ASSUME NEW f \in Feeder, BindNode(f) \/ UnbindNode(f) PROVE OnePlace(t, w)'
    BY <1>7, <1>same DEF BindNode, UnbindNode, sourceVars
  <1>8. CASE UNCHANGED vars
    BY <1>8, <1>same DEF vars, sourceVars
  <1> QED BY <1>1, <1>2, <1>3, <1>4, <1>5, <1>6, <1>7, <1>8 DEF Next

\* A set of at most one.
LEMMA AtMostOne ==
    ASSUME NEW S, \A i, j \in S : i = j
    PROVE  IsFiniteSet(S) /\ Cardinality(S) \in {0, 1} /\ (S = {} => Cardinality(S) = 0)
  <1>1. CASE S = {}
    BY <1>1, FS_EmptySet
  <1>2. CASE S # {}
    <2>1. PICK i \in S : S = {i}
      BY <1>2
    <2> QED BY <2>1, FS_Singleton
  <1> QED BY <1>1, <1>2

\* A callback fires at most once per request, however the acknowledgements, which are
\* not matched with the requests they answer, interleave (koala_node.js:326-341).
THEOREM AnsweredOnce == Spec => []AnsweredAtMostOnce
  <1>1. Init => IInv /\ OnePlaceEach
    BY TypeInit, FlightInit, PoolInit, FedInit, PlaceInit DEF IInv
  <1>2. IInv /\ OnePlaceEach /\ [Next]_vars => (IInv /\ OnePlaceEach)'
    BY TypeStep, FlightStep, PoolStep, FedStep, PlaceStep DEF IInv
  <1>3. OnePlaceEach => AnsweredAtMostOnce
    <2> SUFFICES ASSUME NEW s \in SrcHost, NEW w \in Worker, OnePlace(s, w)
                 PROVE  Places(s, w) <= 1
      BY DEF OnePlaceEach, AnsweredAtMostOnce
    <2> DEFINE R == {i \in DOMAIN rpc[s] : rpc[s][i] = Unbind(w)}
               T == {k \in DOMAIN cbtable[s] : cbtable[s][k] = w}
               B == {i \in DOMAIN back[s] : back[s][i] = w}
    <2>1. /\ \A i, j \in R : i = j
          /\ \A i, j \in T : i = j
          /\ \A i, j \in B : i = j
          /\ R = {} \/ T = {}
          /\ R = {} \/ B = {}
          /\ T = {} \/ B = {}
      BY DEF OnePlace, Once, InQueue
    <2>2. Places(s, w) = Cardinality(R) + Cardinality(T) + Cardinality(B)
      BY DEF Places
    <2> HIDE DEF R, T, B
    <2>3. /\ Cardinality(R) \in {0, 1} /\ (R = {} => Cardinality(R) = 0)
          /\ Cardinality(T) \in {0, 1} /\ (T = {} => Cardinality(T) = 0)
          /\ Cardinality(B) \in {0, 1} /\ (B = {} => Cardinality(B) = 0)
      BY <2>1, AtMostOne
    <2> QED BY <2>1, <2>2, <2>3
  <1> QED BY <1>1, <1>2, <1>3, PTL DEF Spec

-----------------------------------------------------------------------------
(* The proxy: setups. *)

SetupTypes ==
    /\ met \subseteq Web /\ open \subseteq met
    /\ setupQueue \in [Web -> Seq(Sender)]
    /\ hello \in [Sender -> Web \cup {None}]
    /\ given \in [Sender \X Web -> {0, 1}]
    /\ early \subseteq Sender \X Web

\* A setup is in one place: not sent, kept for its receiver, or given to it.
Waits(w, r) == \E i \in DOMAIN setupQueue[r] : setupQueue[r][i] = w
KeptOnce ==
    \A r \in Web : \A i, j \in DOMAIN setupQueue[r] :
        setupQueue[r][i] = setupQueue[r][j] => i = j
SentFirst ==
    \A w \in Sender, r \in Web : (Waits(w, r) \/ given[<<w, r>>] = 1) => hello[w] # None
KeptOrGiven == \A w \in Sender, r \in Web : Waits(w, r) => given[<<w, r>>] = 0

\* One that came before the browser's is given with it, or still waits for it.
EarlyIsKept ==
    \A w \in Sender, r \in Web : <<w, r>> \in early =>
        IF r \in met THEN given[<<w, r>>] = 1 ELSE Waits(w, r)

SInv == SetupTypes /\ KeptOnce /\ SentFirst /\ KeptOrGiven /\ EarlyIsKept
setupVars == <<met, setupQueue, hello, given, early>>


LEMMA SetupInit == ProxyInit => SInv
  <1> SUFFICES ASSUME ProxyInit PROVE SInv
    OBVIOUS
  <1>1. /\ met = {} /\ open = {} /\ setupQueue = [r \in Web |-> <<>>]
        /\ hello = [w \in Sender |-> None]
        /\ given = [p \in Sender \X Web |-> 0] /\ early = {}
    BY DEF ProxyInit
  <1> QED BY <1>1 DEF SInv, SetupTypes, KeptOnce, SentFirst, KeptOrGiven, EarlyIsKept, Waits

LEMMA SetupUnchanged == SInv /\ UNCHANGED setupVars /\ open' \subseteq open => SInv'
  BY DEF SInv, SetupTypes, KeptOnce, SentFirst, KeptOrGiven, EarlyIsKept, Waits, setupVars

\* A worker that sent no setup has none kept or given; the first one goes behind
\* those of the others.
LEMMA SetupKeeps ==
    ASSUME SInv, NEW w \in Sender, NEW r \in Web, Setup(w, r)
    PROVE  SInv'
  <1> USE KeyAssumption DEF SInv
  <1>1. /\ hello[w] = None /\ hello' = [hello EXCEPT ![w] = r] /\ r # None
        /\ UNCHANGED <<met, given, open>>
    BY DEF Setup, Key
  <1>2. \A s \in Web : ~ Waits(w, s) /\ given[<<w, s>>] = 0
    BY <1>1 DEF SentFirst, SetupTypes
  <1>3. CASE UNCHANGED <<setupQueue, early>>
    <2>1. SetupTypes' /\ KeptOnce'
      BY <1>1, <1>3 DEF SetupTypes, KeptOnce
    <2>2. SentFirst' /\ KeptOrGiven' /\ EarlyIsKept'
      BY <1>1, <1>3 DEF SetupTypes, SentFirst, KeptOrGiven, EarlyIsKept, Waits
    <2> QED BY <2>1, <2>2
  <1>4. CASE /\ setupQueue' = [setupQueue EXCEPT ![r] = Kept(r, w)]
             /\ early' = IF r \notin met THEN early \cup {<<w, r>>} ELSE early
    <2> DEFINE q == setupQueue[r]
    <2>1. q \in Seq(Sender)
      BY DEF SetupTypes
    <2>2. /\ Append(q, w) \in Seq(Sender)
          /\ DOMAIN Append(q, w) = 1..(Len(q) + 1) /\ DOMAIN q = 1..Len(q) /\ Len(q) \in Nat
          /\ \A k \in 1..Len(q) : Append(q, w)[k] = q[k]
          /\ Append(q, w)[Len(q) + 1] = w
      BY <2>1, AppendProperties
    <2>3. setupQueue' = [setupQueue EXCEPT ![r] = Append(q, w)]
      BY <1>4 DEF Kept
    <2>4. setupQueue'[r] = Append(q, w) /\ \A s \in Web \ {r} : setupQueue'[s] = setupQueue[s]
      BY <2>3 DEF SetupTypes
    <2> HIDE DEF q
    <2>5. \A v \in Sender, s \in Web : Waits(v, s)' <=> Waits(v, s) \/ (v = w /\ s = r)
      <3>1. \A v \in Sender : Waits(v, r)' <=> \E k \in 1..(Len(q) + 1) : Append(q, w)[k] = v
        BY <2>2, <2>4 DEF Waits
      <3>2. \A v \in Sender : Waits(v, r) <=> \E k \in 1..Len(q) : q[k] = v
        BY <2>2 DEF Waits, q
      <3>3. \A v \in Sender : Waits(v, r)' <=> Waits(v, r) \/ v = w
        BY <3>1, <3>2, <2>2
      <3>4. \A v \in Sender, s \in Web \ {r} : Waits(v, s)' <=> Waits(v, s)
        BY <2>4 DEF Waits
      <3> QED BY <3>3, <3>4
    <2>6. SetupTypes'
      <3>1. setupQueue' \in [Web -> Seq(Sender)]
        BY <2>2, <2>3 DEF SetupTypes
      <3>2. early' \subseteq Sender \X Web
        BY <1>4 DEF SetupTypes
      <3>3. hello' \in [Sender -> Web \cup {None}]
        BY <1>1 DEF SetupTypes
      <3> QED BY <1>1, <3>1, <3>2, <3>3 DEF SetupTypes
    <2>7. KeptOnce'
      <3>1. \A k \in 1..Len(q) : q[k] # w
        BY <1>2, <2>2 DEF Waits, q
      <3>2. \A i, j \in 1..Len(q) : q[i] = q[j] => i = j
        BY <2>2 DEF KeptOnce, q
      <3>3. \A i, j \in 1..(Len(q) + 1) : Append(q, w)[i] = Append(q, w)[j] => i = j
        BY <3>1, <3>2, <2>2
      <3> QED BY <3>3, <2>2, <2>4 DEF KeptOnce
    <2>8. SentFirst'
      BY <1>1, <1>2, <2>5 DEF SetupTypes, SentFirst
    <2>9. KeptOrGiven'
      BY <1>1, <1>2, <2>5 DEF KeptOrGiven
    <2>10. EarlyIsKept'
      BY <1>1, <1>2, <1>4, <2>5 DEF EarlyIsKept, SetupTypes
    <2> QED BY <2>6, <2>7, <2>8, <2>9, <2>10
  <1> QED BY <1>3, <1>4 DEF Setup

\* Each setup kept for r is given once, because it was kept once.
LEMMA FlushGives ==
    ASSUME SInv, NEW r \in Web, Flush(r)
    PROVE  given' = [p \in Sender \X Web |->
                        IF p[2] = r /\ Waits(p[1], r) THEN 1 ELSE given[p]]
  <1> USE DEF SInv
  <1> DEFINE places(p) == {i \in DOMAIN setupQueue[r] : p = <<setupQueue[r][i], r>>}
  <1>1. given' = [p \in Sender \X Web |-> given[p] + Cardinality(places(p))]
    BY DEF Flush
  <1>2. ASSUME NEW p \in Sender \X Web
        PROVE  given[p] + Cardinality(places(p))
                   = IF p[2] = r /\ Waits(p[1], r) THEN 1 ELSE given[p]
    <2>0. p = <<p[1], p[2]>> /\ p[1] \in Sender /\ p[2] \in Web /\ given[p] \in {0, 1}
      BY DEF SetupTypes
    <2>1. CASE p[2] = r /\ Waits(p[1], r)
      <3>1. PICK i \in DOMAIN setupQueue[r] : setupQueue[r][i] = p[1]
        BY <2>1 DEF Waits
      <3>2. places(p) = {i}
        BY <2>0, <2>1, <3>1 DEF KeptOnce
      <3>3. Cardinality(places(p)) = 1
        BY <3>2, FS_Singleton
      <3>4. given[p] = 0
        BY <2>0, <2>1 DEF KeptOrGiven
      <3> QED BY <2>1, <3>3, <3>4
    <2>2. CASE ~ (p[2] = r /\ Waits(p[1], r))
      <3>1. places(p) = {}
        BY <2>0, <2>2 DEF Waits
      <3>2. Cardinality(places(p)) = 0
        BY <3>1, FS_EmptySet
      <3> QED BY <2>0, <2>2, <3>2
    <2> QED BY <2>1, <2>2
  <1> HIDE DEF places
  <1> QED BY <1>1, <1>2

\* The browser's messages give it what was kept; its setup lists it.
LEMMA FlushKeeps ==
    ASSUME SInv, NEW r \in Web, Flush(r), met' = met \cup {r}, open' \subseteq met',
           UNCHANGED <<hello, early>>
    PROVE  SInv'
  <1> USE DEF SInv
  <1>1. /\ given' = [p \in Sender \X Web |->
                        IF p[2] = r /\ Waits(p[1], r) THEN 1 ELSE given[p]]
        /\ setupQueue' = [setupQueue EXCEPT ![r] = <<>>]
    BY FlushGives DEF Flush
  <1>2. \A w \in Sender, s \in Web :
            given'[<<w, s>>] = IF s = r /\ Waits(w, r) THEN 1 ELSE given[<<w, s>>]
    BY <1>1
  <1>3. setupQueue'[r] = <<>> /\ \A s \in Web \ {r} : setupQueue'[s] = setupQueue[s]
    BY <1>1 DEF SetupTypes
  <1>4. \A w \in Sender, s \in Web : Waits(w, s)' <=> Waits(w, s) /\ s # r
    <2>1. \A w \in Sender : ~ Waits(w, r)'
      BY <1>3 DEF Waits
    <2>2. \A w \in Sender, s \in Web \ {r} : Waits(w, s)' <=> Waits(w, s)
      BY <1>3 DEF Waits
    <2> QED BY <2>1, <2>2
  <1>5. SetupTypes'
    BY <1>1 DEF SetupTypes
  <1>6. KeptOnce'
    BY <1>3 DEF KeptOnce
  <1>7. SentFirst' /\ KeptOrGiven'
    <2>1. ASSUME NEW w \in Sender, NEW s \in Web
          PROVE  /\ Waits(w, s)' \/ given'[<<w, s>>] = 1 => Waits(w, s) \/ given[<<w, s>>] = 1
                 /\ Waits(w, s)' => given'[<<w, s>>] = given[<<w, s>>]
      BY <1>2, <1>4
    <2> QED BY <1>4, <2>1 DEF SentFirst, KeptOrGiven
  <1>8. EarlyIsKept'
    <2> SUFFICES ASSUME NEW w \in Sender, NEW s \in Web, <<w, s>> \in early
                 PROVE  IF s \in met' THEN given'[<<w, s>>] = 1 ELSE Waits(w, s)'
      BY DEF EarlyIsKept
    <2>1. IF s \in met THEN given[<<w, s>>] = 1 ELSE Waits(w, s)
      BY DEF EarlyIsKept
    <2>2. CASE s = r
      BY <1>2, <2>1, <2>2
    <2>3. CASE s # r
      BY <1>2, <1>4, <2>1, <2>3
    <2> QED BY <2>2, <2>3
  <1> QED BY <1>5, <1>6, <1>7, <1>8

LEMMA SetupStep == SInv /\ [ProxyNext]_proxyVars => SInv'
  <1> SUFFICES ASSUME SInv, [ProxyNext]_proxyVars PROVE SInv'
    OBVIOUS
  <1>1. ASSUME NEW w \in Sender, NEW r \in Web, Setup(w, r) PROVE SInv'
    BY <1>1, SetupKeeps
  <1>2. ASSUME NEW w \in Sender, NEW r \in Web,
               NewRt(w, r) \/ NewRtBack(r, w) \/ DelRt(OpOf[w], r) \/ DelRt(r, OpOf[w])
        PROVE  SInv'
    BY <1>2, SetupUnchanged DEF NewRt, NewRtBack, Link, DelRt, stateVars, pastVars, setupVars
  <1>3. ASSUME NEW r \in Web, WsSetup(r) \/ WsMessage(r) PROVE SInv'
    <2>1. met' = met \cup {r} /\ open' \subseteq met' /\ Flush(r) /\ UNCHANGED <<hello, early>>
      BY <1>3 DEF WsSetup, WsMessage, SInv, SetupTypes
    <2> QED BY <2>1, FlushKeeps
  <1>4. ASSUME NEW r \in Web, SlowMode(r) \/ WsClose(r) PROVE SInv'
    BY <1>4, SetupUnchanged DEF SlowMode, WsClose, pastVars, setupVars
  <1>5. ASSUME NEW w \in Sender, NewConn(w) \/ Message(w) PROVE SInv'
    BY <1>5, SetupUnchanged DEF NewConn, Message, pastVars, setupVars
  <1>6. CASE UNCHANGED proxyVars
    BY <1>6, SetupUnchanged DEF proxyVars, stateVars, pastVars, setupVars
  <1> QED BY <1>1, <1>2, <1>3, <1>4, <1>5, <1>6 DEF ProxyNext

\* In whatever order setups, sockets and messages come, no browser gets the setup
\* of a worker twice, and one kept for its socket comes with the socket
\* (koala_proxy.js 98-149, 245-276, 294-301).
THEOREM SetupsSafe == ProxySpec => []SetupOnce
  <1>1. SInv => SetupOnce
    <2> SUFFICES ASSUME SInv PROVE SetupOnce
      OBVIOUS
    <2>1. \A p \in Sender \X Web : given[p] \in {0, 1}
      BY DEF SInv, SetupTypes
    <2>2. \A p \in early : p[2] \in met => given[p] = 1
      <3>1. TAKE p \in early
      <3>2. p = <<p[1], p[2]>> /\ p[1] \in Sender /\ p[2] \in Web
        BY DEF SInv, SetupTypes
      <3> QED BY <3>2 DEF SInv, EarlyIsKept
    <2> QED BY <2>1, <2>2 DEF SetupOnce
  <1> QED BY SetupInit, SetupStep, <1>1, PTL DEF ProxySpec

-----------------------------------------------------------------------------
(* The routes and the turns. *)

RouteTypes ==
    /\ table \in [Key -> Seq(Key)] /\ \A k \in Key : Len(table[k]) <= links
    /\ links \in 0..MaxLink
    /\ isSlowMode \in [Key -> BOOLEAN]
    /\ CT \in [Key -> {"none", "zmq", "ws"}] /\ connecting \subseteq Sender
    /\ lastSent \in [Sender -> 1..(MaxLink + 1)]

\* A worker's last message took a place of its pool, and left the next.
LastTurn ==
    /\ turn \in [Sender -> [at : Nat, pool : Seq(Key)]]
    /\ \A w \in Sender : Len(turn[w].pool) > 1 =>
          turn[w].at \in 1..Len(turn[w].pool) /\ lastSent[w] = turn[w].at + 1

TInv == SInv /\ RouteTypes /\ LastTurn

\* A finite set of naturals can be counted off: there is one member with n of them up
\* to it.
LEMMA CountedOff ==
    ASSUME NEW F \in SUBSET Nat, IsFiniteSet(F), NEW n \in 1..Cardinality(F)
    PROVE  \E i \in F : Cardinality({j \in F : j <= i}) = n
  <1> DEFINE upto(i) == {j \in F : j <= i}
             rank == [i \in F |-> Cardinality(upto(i))]
  <1>1. ASSUME NEW i \in F
        PROVE  /\ IsFiniteSet(upto(i)) /\ Cardinality(upto(i)) \in 1..Cardinality(F)
    <2>1. upto(i) \subseteq F /\ upto(i) # {}
      OBVIOUS
    <2>2. /\ IsFiniteSet(upto(i)) /\ Cardinality(upto(i)) <= Cardinality(F)
          /\ Cardinality(upto(i)) # 0
      BY <2>1, FS_Subset, FS_EmptySet
    <2>3. Cardinality(upto(i)) \in Nat /\ Cardinality(F) \in Nat
      BY <2>2, FS_CardinalityType
    <2> HIDE DEF upto
    <2> QED BY <2>2, <2>3
  <1>2. ASSUME NEW i \in F, NEW j \in F, i < j
        PROVE  Cardinality(upto(i)) # Cardinality(upto(j))
    <2>1. upto(i) \subseteq upto(j) /\ j \in upto(j) /\ j \notin upto(i)
      <3>1. i \in Nat /\ j \in Nat /\ \A k \in F : k \in Nat /\ (k <= i => k <= j)
        BY <1>2
      <3>2. j <= j /\ ~ (j <= i)
        BY <1>2, <3>1
      <3> QED BY <3>1, <3>2
    <2>2. upto(i) # upto(j)
      BY <2>1
    <2> QED BY <1>1, <2>1, <2>2, FS_Subset
  <1>3. \A i, j \in F : i # j => i < j \/ j < i
    OBVIOUS
  <1>4. \A i, j \in F : rank[i] = rank[j] => i = j
    BY <1>2, <1>3
  <1>5. rank \in [F -> 1..Cardinality(F)]
    BY <1>1
  <1> HIDE DEF rank
  <1>6. rank \in Injection(F, 1..Cardinality(F))
    BY <1>4, <1>5 DEF Injection, IsInjective
  <1>7. Cardinality(F) \in Nat
    BY FS_CardinalityType
  <1>8. IsFiniteSet(1..Cardinality(F)) /\ Cardinality(1..Cardinality(F)) = Cardinality(F)
    BY <1>7, FS_Interval
  <1>9. rank \in Surjection(F, 1..Cardinality(F))
    BY <1>6, <1>8, FS_Injection
  <1> QED BY <1>9 DEF Surjection, rank

\* What is listed of a sequence is a sequence no longer than it.
LEMMA ListedShape ==
    ASSUME NEW T, NEW q \in Seq(T), NEW F \in SUBSET DOMAIN q
    PROVE  /\ Listed(q, F) \in Seq(T) /\ Len(Listed(q, F)) \in Nat
           /\ Len(Listed(q, F)) <= Len(q)
           /\ DOMAIN Listed(q, F) = 1..Len(Listed(q, F))
  <1>1. /\ DOMAIN q = 1..Len(q) /\ Len(q) \in Nat /\ \A i \in DOMAIN q : q[i] \in T
    BY LenProperties, ElementOfSeq
  <1>2. /\ IsFiniteSet(F) /\ F \in SUBSET Nat
        /\ Cardinality(F) \in Nat /\ Cardinality(F) <= Len(q)
    <2>1. /\ IsFiniteSet(DOMAIN q) /\ DOMAIN q \subseteq Nat
          /\ Cardinality(DOMAIN q) = Len(q)
      BY <1>1, FS_Interval
    <2> QED BY <2>1, FS_Subset, FS_CardinalityType
  <1> DEFINE size == Cardinality(F)
             nth == [n \in 1..size |-> CHOOSE i \in F : Cardinality({j \in F : j <= i}) = n]
  <1>3. \A n \in 1..size : nth[n] \in F
    BY <1>2, CountedOff
  <1>4. Listed(q, F) = [n \in 1..size |-> q[nth[n]]]
    BY DEF Listed, Upto
  <1>5. size \in Nat /\ size <= Len(q)
    BY <1>2
  <1> HIDE DEF size, nth
  <1>6. Listed(q, F) \in [1..size -> T]
    BY <1>1, <1>3, <1>4
  <1>7. Listed(q, F) \in Seq(T) /\ Len(Listed(q, F)) = size /\ DOMAIN Listed(q, F) = 1..size
    BY <1>5, <1>6
  <1> QED BY <1>5, <1>7

\* The pool of a worker is part of its routes.
LEMMA PoolShape ==
    ASSUME TInv, NEW w \in Sender
    PROVE  /\ Pool(w) \in Seq(Key) /\ DOMAIN Pool(w) = 1..Len(Pool(w))
           /\ Len(Pool(w)) \in Nat /\ Len(Pool(w)) <= MaxLink
  <1>1. /\ table[w] \in Seq(Key) /\ Len(table[w]) \in Nat
        /\ Len(table[w]) <= links /\ links \in 0..MaxLink
    BY LenProperties DEF TInv, RouteTypes, Key
  <1>2. Free(w) \in SUBSET DOMAIN table[w]
    BY DEF Free
  <1>3. /\ Pool(w) \in Seq(Key) /\ DOMAIN Pool(w) = 1..Len(Pool(w))
        /\ Len(Pool(w)) \in Nat /\ Len(Pool(w)) <= Len(table[w])
    BY <1>1, <1>2, ListedShape DEF Pool
  <1>4. MaxLink \in Nat
    BY KeyAssumption
  <1> QED BY <1>1, <1>3, <1>4

LEMMA RoutesInit == ProxyInit => TInv
  <1> SUFFICES ASSUME ProxyInit PROVE TInv
    OBVIOUS
  <1>1. SInv
    BY SetupInit
  <1>2. <<>> \in Seq(Key) /\ Len(<<>>) = 0 /\ MaxLink \in Nat
    BY EmptySeq, KeyAssumption
  <1>3. RouteTypes
    BY <1>2 DEF ProxyInit, RouteTypes
  <1>4. LastTurn
    <2>1. turn = [w \in Sender |-> [at |-> 1, pool |-> <<>>]]
      BY DEF ProxyInit
    <2> QED BY <1>2, <2>1 DEF LastTurn
  <1> QED BY <1>1, <1>3, <1>4 DEF TInv

\* Links keep the lists of routes within their bound; unlinking takes out of them.
LEMMA RouteKeeps ==
    ASSUME TInv, SInv', NEW w \in Sender, NEW r \in Web,
           NewRt(w, r) \/ NewRtBack(r, w) \/ DelRt(OpOf[w], r) \/ DelRt(r, OpOf[w])
    PROVE  TInv'
  <1>1. UNCHANGED <<CT, lastSent, isSlowMode, turn>>
    BY DEF NewRt, NewRtBack, Link, DelRt, stateVars, pastVars
  <1>2. connecting' \subseteq Sender
    BY DEF NewRt, NewRtBack, DelRt, TInv, RouteTypes
  <1>3. /\ table \in [Key -> Seq(Key)] /\ \A k \in Key : Len(table[k]) <= links
        /\ links \in 0..MaxLink
    BY DEF TInv, RouteTypes
  <1>4. w \in Key /\ r \in Key /\ OpOf[w] \in Key /\ MaxLink \in Nat
    BY KeyAssumption DEF Key
  <1>5. ASSUME NEW k \in Key, NEW to \in Key, Link(k, to)
        PROVE  \E q \in Seq(Key) : table' = [table EXCEPT ![k] = q] /\ Len(q) <= links'
    <2>1. /\ Len(table[k]) <= links /\ Len(table[k]) \in Nat /\ links' = links + 1
          /\ table' = [table EXCEPT ![k] = Append(table[k], to)]
      BY <1>3, <1>5, LenProperties DEF Link
    <2>2. Append(table[k], to) \in Seq(Key) /\ Len(Append(table[k], to)) = Len(table[k]) + 1
      BY <1>3, AppendProperties
    <2> DEFINE q == Append(table[k], to)
    <2>3. q \in Seq(Key) /\ table' = [table EXCEPT ![k] = q] /\ Len(q) <= links'
      <3>1. Len(q) <= links'
        BY <1>3, <2>1, <2>2
      <3> QED BY <2>1, <2>2, <3>1
    <2> HIDE DEF q
    <2> QED BY <2>3
  <1>6. ASSUME NEW k \in Key, NEW to \in Key, DelRt(k, to)
        PROVE  \E q \in Seq(Key) : table' = [table EXCEPT ![k] = q] /\ Len(q) <= links'
    <2>1. table' = [table EXCEPT ![k] = Unlinked(table[k], to)] /\ links' = links
      BY <1>6 DEF DelRt
    <2>2. table[k] \in Seq(Key) /\ Len(table[k]) \in Nat /\ Len(table[k]) <= links
      BY <1>3, LenProperties
    <2>3. \E F \in SUBSET DOMAIN table[k] : Unlinked(table[k], to) = Listed(table[k], F)
      BY DEF Unlinked
    <2>4. /\ Unlinked(table[k], to) \in Seq(Key) /\ Len(Unlinked(table[k], to)) \in Nat
          /\ Len(Unlinked(table[k], to)) <= Len(table[k])
      BY <2>2, <2>3, ListedShape
    <2> DEFINE q == Unlinked(table[k], to)
    <2>5. q \in Seq(Key) /\ table' = [table EXCEPT ![k] = q] /\ Len(q) <= links'
      <3>1. Len(q) <= links'
        BY <1>3, <2>1, <2>2, <2>4
      <3> QED BY <2>1, <2>4, <3>1
    <2> HIDE DEF q
    <2> QED BY <2>5
  <1>7. \E k \in Key, q \in Seq(Key) : table' = [table EXCEPT ![k] = q] /\ Len(q) <= links'
    BY <1>4, <1>5, <1>6 DEF NewRt, NewRtBack
  <1>8. links' \in 0..MaxLink /\ links <= links'
    BY <1>3, <1>4 DEF NewRt, NewRtBack, Link, DelRt
  <1>9. table' \in [Key -> Seq(Key)]
    BY <1>3, <1>7
  <1>10. ASSUME NEW k \in Key PROVE Len(table'[k]) <= links'
    <2>1. PICK h \in Key, q \in Seq(Key) :
             table' = [table EXCEPT ![h] = q] /\ Len(q) <= links'
      BY <1>7
    <2>2. CASE k = h
      BY <1>3, <2>1, <2>2
    <2>3. CASE k # h
      <3>1. table'[k] = table[k] /\ Len(table[k]) \in Nat /\ Len(table[k]) <= links
        BY <1>3, <2>1, <2>3, LenProperties
      <3> QED BY <1>3, <1>8, <3>1
    <2> QED BY <2>2, <2>3
  <1> QED BY <1>1, <1>2, <1>8, <1>9, <1>10 DEF TInv, RouteTypes, LastTurn

\* A message takes the place kept for it and leaves the next.
LEMMA MessageTakes ==
    ASSUME TInv, NEW w \in Sender, Message(w)
    PROVE  /\ UNCHANGED <<table, links, connecting, CT, isSlowMode>>
           /\ \E place \in 1..MaxLink :
                 /\ place = (IF lastSent[w] > Len(Pool(w)) THEN 1 ELSE lastSent[w])
                 /\ lastSent' = [lastSent EXCEPT ![w] = place + 1]
                 /\ turn' = [turn EXCEPT ![w] = [at |-> place, pool |-> Pool(w)]]
  <1>1. PICK place : place = Place(w)
    OBVIOUS
  <1>2. /\ UNCHANGED <<table, links, connecting, CT, isSlowMode>>
        /\ lastSent' = [lastSent EXCEPT ![w] = place + 1]
        /\ turn' = [turn EXCEPT ![w] = [at |-> place, pool |-> Pool(w)]]
    BY <1>1 DEF Message, NextPlace, routeVars
  <1>3. Len(Pool(w)) \in Nat /\ Len(Pool(w)) <= MaxLink
    BY PoolShape
  <1>4. MaxLink \in Nat \ {0} /\ lastSent[w] \in 1..(MaxLink + 1)
    BY KeyAssumption DEF TInv, RouteTypes
  <1>5. place = IF lastSent[w] > Len(Pool(w)) THEN 1 ELSE lastSent[w]
    BY <1>1 DEF Place
  <1>6. place \in 1..MaxLink
    BY <1>3, <1>4, <1>5
  <1> QED BY <1>2, <1>5, <1>6

LEMMA MessageKeeps ==
    ASSUME TInv, SInv', NEW w \in Sender, Message(w)
    PROVE  TInv'
  <1>1. PICK ready : ready = Pool(w)
    OBVIOUS
  <1>2. PICK place \in 1..MaxLink :
           /\ place = (IF lastSent[w] > Len(ready) THEN 1 ELSE lastSent[w])
           /\ lastSent' = [lastSent EXCEPT ![w] = place + 1]
           /\ turn' = [turn EXCEPT ![w] = [at |-> place, pool |-> ready]]
    BY <1>1, MessageTakes
  <1>3. UNCHANGED <<table, links, connecting, CT, isSlowMode>>
    BY MessageTakes
  <1>4. ready \in Seq(Key) /\ Len(ready) \in Nat /\ MaxLink \in Nat
    BY <1>1, PoolShape, KeyAssumption
  <1>5. RouteTypes'
    <2>1. place + 1 \in 1..(MaxLink + 1)
      BY <1>4
    <2> QED BY <1>2, <1>3, <2>1 DEF TInv, RouteTypes
  <1>6. LastTurn'
    <2>1. turn \in [Sender -> [at : Nat, pool : Seq(Key)]]
      BY DEF TInv, LastTurn
    <2>2. turn' \in [Sender -> [at : Nat, pool : Seq(Key)]]
      BY <1>2, <1>4, <2>1
    <2> SUFFICES ASSUME NEW v \in Sender, Len(turn'[v].pool) > 1
                 PROVE  /\ turn'[v].at \in 1..Len(turn'[v].pool)
                        /\ lastSent'[v] = turn'[v].at + 1
      BY <2>2 DEF LastTurn
    <2>3. CASE v # w
      <3>1. turn'[v] = turn[v] /\ lastSent'[v] = lastSent[v]
        BY <1>2, <2>1, <2>3 DEF TInv, RouteTypes
      <3> QED BY <3>1 DEF TInv, LastTurn
    <2>4. CASE v = w
      <3>1. turn'[w].pool = ready /\ turn'[w].at = place /\ lastSent'[w] = place + 1
        BY <1>2, <2>1 DEF TInv, RouteTypes
      <3>2. lastSent[w] \in Nat
        BY DEF TInv, RouteTypes
      <3>3. Len(ready) > 1 => place \in 1..Len(ready)
        BY <1>2, <1>4, <3>2
      <3> QED BY <2>4, <3>1, <3>3
    <2> QED BY <2>3, <2>4
  <1> QED BY <1>5, <1>6 DEF TInv

LEMMA RoutesStep == TInv /\ [ProxyNext]_proxyVars => TInv'
  <1> SUFFICES ASSUME TInv, [ProxyNext]_proxyVars PROVE TInv'
    OBVIOUS
  <1>1. SInv'
    BY SetupStep DEF TInv
  <1>2. ASSUME NEW w \in Sender, NEW r \in Web,
               NewRt(w, r) \/ NewRtBack(r, w) \/ DelRt(OpOf[w], r) \/ DelRt(r, OpOf[w])
        PROVE  TInv'
    BY <1>1, <1>2, RouteKeeps
  <1>3. ASSUME NEW w \in Sender, Message(w) PROVE TInv'
    BY <1>1, <1>3, MessageKeeps
  <1>4. ASSUME UNCHANGED <<table, links, lastSent, turn>>, connecting' \subseteq connecting,
               isSlowMode' \in [Key -> BOOLEAN], CT' \in [Key -> {"none", "zmq", "ws"}]
        PROVE  TInv'
    BY <1>1, <1>4 DEF TInv, RouteTypes, LastTurn
  <1>5. isSlowMode \in [Key -> BOOLEAN] /\ CT \in [Key -> {"none", "zmq", "ws"}]
    BY DEF TInv, RouteTypes
  <1>6. ASSUME NEW w \in Sender, NewConn(w) PROVE TInv'
    BY <1>4, <1>5, <1>6 DEF NewConn, pastVars
  <1>7. ASSUME NEW w \in Sender, NEW r \in Web, Setup(w, r) PROVE TInv'
    BY <1>4, <1>5, <1>7 DEF Setup, routeVars
  <1>8. ASSUME NEW r \in Web, WsSetup(r) \/ WsMessage(r) \/ WsClose(r) PROVE TInv'
    BY <1>4, <1>5, <1>8 DEF WsSetup, WsMessage, WsClose, routeVars, pastVars
  <1>9. ASSUME NEW r \in Web, SlowMode(r) PROVE TInv'
    <2>1. r \in Key /\ isSlowMode' = [isSlowMode EXCEPT ![r] = ~ isSlowMode[r]]
          /\ UNCHANGED <<table, links, connecting, CT, lastSent, turn>>
      BY <1>9 DEF SlowMode, Key, routeVars, pastVars
    <2> QED BY <1>4, <1>5, <2>1
  <1>10. CASE UNCHANGED proxyVars
    BY <1>4, <1>5, <1>10 DEF proxyVars, routeVars, stateVars, pastVars
  <1> QED BY <1>2, <1>3, <1>6, <1>7, <1>8, <1>9, <1>10 DEF ProxyNext

\* Routes, places and turns keep to their bounds, with routes made twice, left behind
\* or taken for those of another (k_routing_table.js 8-44, koala_proxy.js 169-203).
THEOREM RoutesInvariance == ProxySpec => []TInv
  BY RoutesInit, RoutesStep, PTL DEF ProxySpec

\* The state has its type; the place kept for a worker's next message stays within
\* its routes, or one behind the last.
THEOREM ProxyTypeCorrect == ProxySpec => []ProxyTypeOK
  <1>1. TInv => ProxyTypeOK
    <2> SUFFICES ASSUME TInv PROVE ProxyTypeOK
      OBVIOUS
    <2>1. given \in [Sender \X Web -> Nat]
      BY DEF TInv, SInv, SetupTypes
    <2> QED BY <2>1 DEF TInv, SInv, SetupTypes, RouteTypes, ProxyTypeOK
  <1> QED BY RoutesInvariance, <1>1, PTL

\* Whoever linked, closed or went slow since a worker's last message, with the same
\* two or more receivers to choose from, each listed once, the next one goes to
\* another of them (koala_proxy.js 169-203).
THEOREM MessagesTakeTurns == ProxySpec => TakesTurns
  <1>1. TInv /\ [ProxyNext]_proxyVars =>
           [\A w \in Sender :
               (Message(w) /\ turn'[w].pool = turn[w].pool /\ Len(turn[w].pool) > 1
                   /\ IsInjective(turn[w].pool)) =>
                   turn'[w].pool[turn'[w].at] # turn[w].pool[turn[w].at]]_proxyVars
    <2> SUFFICES ASSUME TInv, NEW w \in Sender, Message(w),
                        turn'[w].pool = turn[w].pool, Len(turn[w].pool) > 1,
                        IsInjective(turn[w].pool)
                 PROVE  turn'[w].pool[turn'[w].at] # turn[w].pool[turn[w].at]
      OBVIOUS
    <2>1. PICK ready : ready = Pool(w)
      OBVIOUS
    <2>2. PICK place \in 1..MaxLink :
             /\ place = (IF lastSent[w] > Len(ready) THEN 1 ELSE lastSent[w])
             /\ turn' = [turn EXCEPT ![w] = [at |-> place, pool |-> ready]]
      BY <2>1, MessageTakes
    <2>3. turn'[w].pool = ready /\ turn'[w].at = place
      BY <2>2 DEF TInv, LastTurn
    <2>4. turn[w].pool = ready /\ Len(ready) > 1 /\ IsInjective(ready)
      BY <2>3
    <2>5. turn[w].at \in 1..Len(ready) /\ lastSent[w] = turn[w].at + 1
      BY <2>4 DEF TInv, LastTurn
    <2>6. Len(ready) \in Nat /\ DOMAIN ready = 1..Len(ready)
      BY <2>1, PoolShape
    <2>7. place \in 1..Len(ready) /\ place # turn[w].at
      BY <2>2, <2>4, <2>5, <2>6
    <2> QED BY <2>3, <2>4, <2>5, <2>6, <2>7 DEF IsInjective
  <1> QED BY RoutesInvariance, <1>1, PTL DEF ProxySpec, TakesTurns
=============================================================================
