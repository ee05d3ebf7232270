------------------------------- MODULE Mesh --------------------------------
(***************************************************************************)
(* How the workers of an operator A get sockets to the workers of an       *)
(* operator B on another host.  bind_cluster, on A's host, tells B's host  *)
(* of the binding and asks it for its workers, in two calls; both pools    *)
(* grow in the meantime (run_worker), and workers of B retire              *)
(* (graceful_kill).  The workers of A handle bind_node and unbind_node.    *)
(*                                                                         *)
(* Both hosts and every worker are single-threaded: an action is one       *)
(* handler, run to its end.  A host reaches the other through one ordered  *)
(* channel each way.  Which request kill_worker answers is the matter of   *)
(* GracefulKill; here it comes at any time once A's host was asked.        *)
(***************************************************************************)
EXTENDS Naturals, Sequences, FiniteSets, FiniteSetsExt, SequencesExt

CONSTANTS
    WorkerA,    \* uids the root can hand out to A
    WorkerB,    \* uids the root can hand out to B
    StartA,     \* the workers run_cluster started A with
    StartB,     \* and B, in order
    MaxBinds    \* bound: how often the root binds A to B

Cluster == "cluster"        \* bind_cluster itself asks, not a newborn worker

ASSUME PoolAssumption ==
    /\ StartA \subseteq WorkerA /\ IsFiniteSet(WorkerA) /\ IsFiniteSet(WorkerB)
    /\ Cluster \notin WorkerA
    /\ StartB \in Seq(WorkerB) /\ IsInjective(StartB)
ASSUME BoundAssumption == MaxBinds \in Nat

VARIABLES
    poolA,      \* clusters[A].workers
    poolB,      \* clusters[B].workers, in order
    retiring,   \* workers of B whose graceful_kill was handled
    to,         \* length of bindings[A].to[B] on A's host
    from,       \* length of bindings[B].from[A] on B's host
    call,       \* calls from A's host to B's host
    back,       \* calls and answers from B's host to A's host
    bound,      \* how often the callback of bind_cluster was called
    ipc,        \* commands to each worker of A
    clients,    \* the sockets of each worker of A, in order
    binded,     \* its binded flag
    met,        \* history: workers of A that were there when a bind was answered
    crossed     \* history: workers of B born between the two calls of bind_cluster, or
                \* retiring when they are given as the answer

hostVars == <<poolA, poolB, retiring, to, from>>
netVars  == <<call, back, bound>>
workerVars == <<clients, binded>>
history  == <<met, crossed>>
vars == <<hostVars, netVars, ipc, workerVars, history>>

BindNodeMsg(b) == [cmd |-> "bind_node", uid |-> b]
UnbindNodeMsg(b)  == [cmd |-> "unbind_node", uid |-> b]
Notify == [op |-> "notify_binding"]
Get(who) == [op |-> "get_workers", who |-> who]

Init ==
    /\ poolA = StartA /\ poolB = StartB /\ retiring = {}
    /\ to = 0 /\ from = 0
    /\ call = <<>> /\ back = <<>> /\ bound = 0
    /\ ipc = [a \in WorkerA |-> <<>>]
    /\ clients = [a \in WorkerA |-> <<>>]
    /\ binded = [a \in WorkerA |-> FALSE]
    /\ met = {} /\ crossed = {}

\* Every worker in clusters[A].workers gets the commands.
ToPoolA(commands) ==
    ipc' = [a \in WorkerA |-> IF a \in poolA THEN ipc[a] \o commands ELSE ipc[a]]

-----------------------------------------------------------------------------
(* A's host. *)

\* The two calls of bind_cluster, in order.  One faulty version asks first, the
\* other does it for every entry of bindings[A].to[B], not only for the new one.
AskThenTell == <<Get(Cluster), Notify>>
TellAllAgain == FlattenSeq([i \in 1..(to + 1) |-> <<Notify, Get(Cluster)>>])
TellThenAsk == <<Notify, Get(Cluster)>>

BindCluster ==
    /\ to < MaxBinds
    /\ to' = to + 1
    /\ call' = call \o TellThenAsk
    /\ UNCHANGED <<poolA, poolB, retiring, from, back, bound, ipc, workerVars, history>>

FromTo(op) == back # <<>> /\ Head(back).op = op /\ back' = Tail(back)

\* The callback of get_workers: one bind_node for each of B's workers to each of
\* A's, and the callback of bind_cluster at the last of B's.
GotWorkers ==
    /\ FromTo("workers") /\ Head(back).who = Cluster
    /\ ToPoolA([i \in DOMAIN Head(back).ws |-> BindNodeMsg(Head(back).ws[i])])
    /\ bound' = IF Head(back).ws = <<>> THEN bound ELSE bound + 1
    /\ met' = met \cup poolA
    /\ UNCHANGED <<hostVars, call, workerVars, crossed>>

\* The callback that run_worker gives to get_workers names from_cid and to_cid,
\* which it does not have: it throws at the first worker and binds none.
GotWorkersNewborn ==
    /\ FromTo("workers") /\ Head(back).who \in WorkerA
    /\ UNCHANGED <<hostVars, call, bound, ipc, workerVars, history>>

\* bind_cluster_worker; the sending protocol, which its message lacks, is left out.
BindClusterWorker ==
    /\ FromTo("bind_cluster_worker")
    /\ ToPoolA(<<BindNodeMsg(Head(back).uid)>>)
    /\ UNCHANGED <<hostVars, call, bound, workerVars, history>>

UnbindClusterProcess ==
    /\ FromTo("unbind_cluster_process")
    /\ ToPoolA(<<UnbindNodeMsg(Head(back).uid)>>)
    /\ UNCHANGED <<hostVars, call, bound, workerVars, history>>

\* run_worker for A: a worker that is not a producer asks for the workers of
\* every operator A is bound to.
RunWorkerA(a) ==
    /\ a \in WorkerA \ poolA
    /\ poolA' = poolA \cup {a}
    /\ call' = IF to > 0 THEN Append(call, Get(a)) ELSE call
    /\ UNCHANGED <<poolB, retiring, to, from, back, bound, ipc, workerVars, history>>

-----------------------------------------------------------------------------
(* B's host. *)

FromA(op) == call # <<>> /\ Head(call).op = op /\ call' = Tail(call)
Tell(op, b, n) == back' = back \o [i \in 1..n |-> [op |-> op, uid |-> b]]

\* notify_binding: the duplicate test reads the uid of an array and never holds.
NotifyBinding ==
    /\ FromA("notify_binding")
    /\ from' = from + 1
    /\ UNCHANGED <<poolA, poolB, retiring, to, back, bound, ipc, workerVars, history>>

GetWorkers ==
    /\ FromA("get_workers")
    /\ back' = Append(back, [op |-> "workers", who |-> Head(call).who, ws |-> poolB])
    /\ crossed' = IF Head(call).who = Cluster THEN crossed \cup (retiring \cap Range(poolB))
                  ELSE crossed
    /\ UNCHANGED <<hostVars, bound, ipc, workerVars, met>>

\* Between a notify_binding and its get_workers: both make the newborn known.
Between == call # <<>> /\ Head(call) = Get(Cluster)

\* run_worker for B: the hosts in bindings[B].from[A], one entry per binding, are
\* to bind A's workers to the newborn.  The faulty version asks none.
NoEntry == 0
EntriesToBind == from
RunWorkerB(b) ==
    /\ b \in WorkerB \ (Range(poolB) \cup retiring)
    /\ poolB' = Append(poolB, b)
    /\ Tell("bind_cluster_worker", b, EntriesToBind)
    /\ crossed' = IF Between THEN crossed \cup {b} ELSE crossed
    /\ UNCHANGED <<poolA, retiring, to, from, call, bound, ipc, workerVars, met>>

\* handle_ipc on graceful_kill, which a worker sends once: nothing for the last
\* of the pool, or when there is no binding yet, else the hosts in
\* bindings[B].from[A] are to unbind it.  The faulty version asks the first of them.
FirstEntry == 1
EntriesToUnbind == from
GracefulKill(b) ==
    /\ b \in Range(poolB) \ retiring /\ from > 0
    /\ Len(poolB) > 1
    /\ retiring' = retiring \cup {b}
    /\ Tell("unbind_cluster_process", b, EntriesToUnbind)
    /\ UNCHANGED <<poolA, poolB, to, from, call, bound, ipc, workerVars, history>>

\* The callback of unbind_cluster_process takes the worker out of the pool.
KillWorker(b) ==
    /\ b \in Range(poolB) \cap retiring
    /\ ~ \E i \in DOMAIN back : back[i] = [op |-> "unbind_cluster_process", uid |-> b]
    /\ \E i \in DOMAIN poolB : poolB[i] = b /\ poolB' = RemoveAt(poolB, i)
    /\ UNCHANGED <<poolA, retiring, to, from, netVars, ipc, workerVars, history>>

-----------------------------------------------------------------------------
(* A worker of A. *)

Command(a, cmd) ==
    /\ ipc[a] # <<>> /\ Head(ipc[a]).cmd = cmd
    /\ ipc' = [ipc EXCEPT ![a] = Tail(@)]

\* bind_node: a new socket, whether or not there is one.
BindNode(a) ==
    /\ Command(a, "bind_node")
    /\ clients' = [clients EXCEPT ![a] = Append(@, Head(ipc[a]).uid)]
    /\ binded' = [binded EXCEPT ![a] = TRUE]
    /\ UNCHANGED <<hostVars, netVars, history>>

\* unbind_node looks at every socket in turn, but takes one step too many after
\* each it removes: of those in a row it leaves every second.
InARow(list, b, i) == {j \in 1..i : \A k \in j..i : list[k] = b}
Passed(list, b) == {i \in DOMAIN list : Cardinality(InARow(list, b, i)) % 2 = 0}
Removed(list, b) ==
    LET left == Passed(list, b)
    IN  [n \in 1..Cardinality(left) |->
            list[CHOOSE i \in left : Cardinality({j \in left : j <= i}) = n]]

UnbindNode(a) ==
    LET b == Head(ipc[a]).uid
    IN  /\ Command(a, "unbind_node")
        /\ clients' = [clients EXCEPT ![a] = Removed(@, b)]
        /\ binded' = [binded EXCEPT ![a] = @ /\ ~ Contains(clients[a], b)]
        /\ UNCHANGED <<hostVars, netVars, history>>

-----------------------------------------------------------------------------
HostAStep == GotWorkers \/ GotWorkersNewborn \/ BindClusterWorker \/ UnbindClusterProcess
HostBStep == NotifyBinding \/ GetWorkers
WorkerStep(a) == BindNode(a) \/ UnbindNode(a)

Next ==
    \/ BindCluster \/ HostAStep \/ HostBStep
    \/ \E a \in WorkerA : RunWorkerA(a) \/ WorkerStep(a)
    \/ \E b \in WorkerB : RunWorkerB(b) \/ GracefulKill(b) \/ KillWorker(b)

Spec == Init /\ [][Next]_vars

\* Every event loop keeps taking its messages; nobody owes the system a binding,
\* a worker, or a message of the stream.
Fairness == WF_vars(HostAStep) /\ WF_vars(HostBStep) /\ \A a \in WorkerA : WF_vars(WorkerStep(a))
FairSpec == Spec /\ Fairness
-----------------------------------------------------------------------------
(* Properties. *)

Command2Worker == [cmd : {"bind_node", "unbind_node"}, uid : WorkerB]
TypeOK ==
    /\ poolA \subseteq WorkerA /\ poolB \in Seq(WorkerB) /\ IsInjective(poolB)
    /\ retiring \subseteq WorkerB /\ crossed \subseteq WorkerB /\ met \subseteq poolA
    /\ from <= to /\ bound <= from /\ to <= MaxBinds
    /\ ipc \in [WorkerA -> Seq(Command2Worker)]
    /\ clients \in [WorkerA -> Seq(WorkerB)]
    /\ binded \in [WorkerA -> BOOLEAN]

Settled == call = <<>> /\ back = <<>> /\ \A a \in WorkerA : ipc[a] = <<>>
Sockets(a, b) == Cardinality({i \in DOMAIN clients[a] : clients[a][i] = b})

\* Whatever births fall between notify_binding, get_workers and its answer, once
\* all messages are handled every worker of A that was there when a bind was
\* answered has a socket to every worker of B that does not retire (bind_cluster,
\* run_worker, bind_cluster_worker).
Fed == \A a \in met, b \in Range(poolB) \ retiring : Sockets(a, b) > 0
NoWorkerMissed == Settled => Fed

\* A binding made n times gives a worker n sockets to another, and one more when
\* the other was born between the two calls: from[A] grows with every binding, but
\* each entry makes one socket, by the answer of get_workers or by run_worker.
\* A worker takes itself for bound only if it has a socket.
SocketsPerBind ==
    /\ TypeOK
    /\ \A a \in WorkerA, b \in WorkerB : Sockets(a, b) <= to + 1
    /\ \A a \in WorkerA : binded[a] => clients[a] # <<>>

\* A worker of B that has left the pool has no socket left to it, unless a bind
\* crossed its birth or its retirement: unbind_node may leave one of the two
\* sockets of a birth, and a bind_node may come after the unbind_node.
DeadAreUnbound ==
    Settled => \A a \in WorkerA : Range(clients[a]) \subseteq Range(poolB) \cup crossed

\* ... and it comes to that, for good: no bind, birth or retirement leaves a worker
\* of B unfed for ever.
BornIsFed == <>[]Fed

-----------------------------------------------------------------------------
(* What the source says of itself, and does not do. *)

\* koala_node.js:1519-1521 "we also save the info here so that if a new worker has
\* to be added to the cluster, it knows where it has to be binded".
NewbornIsBound ==
    (Settled /\ bound > 0) => \A a \in poolA : \A b \in Range(poolB) \ retiring :
                                  Sockets(a, b) > 0
=============================================================================
