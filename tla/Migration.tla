----------------------------- MODULE Migration ------------------------------
(***************************************************************************)
(* The migrate command of the root (k_root_commands.js, migrate_cluster)   *)
(* and everything it makes the hosts and the workers do: the operator is   *)
(* started again under a new cid on the destination, the new cid is bound  *)
(* like the old one, the old one is unbound and then removed.              *)
(*                                                                         *)
(* Server hosts only; an operator runs on one node, with one worker, which *)
(* bears the cid of its operator.  The root and every host are single      *)
(* threaded: an action is one handler or callback, run to its end.  A      *)
(* handler that throws stops where it throws and never calls back.  A host *)
(* holds functions of another host only as the proxies the root gave it,   *)
(* so every call between hosts passes through the root.  Every call has a  *)
(* callback of its own: an answer names the pair of operators it is about. *)
(***************************************************************************)
EXTENDS Naturals, Sequences, FiniteSets, FiniteSetsExt, SequencesExt

CONSTANTS
    Op,         \* the cids of the topology the user started: 0 .. n-1
    Host,       \* the koala nodes
    Topology,   \* its bindings, a sequence of [from, to]
    Start,      \* the node of each operator
    MaxMig,     \* bound: how many migrations are asked for
    Overlap,    \* which migrations may go on at the same time: "none",
                \* "distinct" (of different operators) or "any"
    NoHost      \* clusters[cid] is undefined

Mig == 1..MaxMig
Cid == 0..(Cardinality(Op) + MaxMig - 1)

ASSUME OpAssumption ==
    /\ IsFiniteSet(Op) /\ Op = 0..(Cardinality(Op) - 1)
    /\ MaxMig \in Nat /\ Overlap \in {"none", "distinct", "any"} /\ NoHost \notin Host
    /\ Start \in [Op -> Host]
ASSUME TopologyAssumption ==
    /\ Topology \in Seq([from : Op, to : Op])
    /\ \A i \in DOMAIN Topology : Topology[i].from # Topology[i].to
    /\ \A i, j \in DOMAIN Topology : Topology[i] = Topology[j] => i = j

VARIABLES
    clusters,   \* root: clusters[cid].nodes[0], or NoHost
    bindings,   \* root: topologies.topologies[0].bindings, in order
    cluster_id, \* root: the next cid
    mig,        \* root: the variables its migrate callbacks close over
    origin,     \* history: the operator a cid is the last incarnation of
    hosted,     \* host: the cids in its clusters
    crew,       \* the cids that were started with a worker
    known,      \* host: the cids with an entry in its bindings
    from_nodes, \* host: its bindings[to].from[from], the nodes of from
    down,       \* calls and callbacks from the root to each host
    up,         \* calls and callbacks from each host to the root
    ipc,        \* commands from a host to its workers
    clients,    \* worker: the workers it has a socket to
    binded      \* worker: its binded flag

rootVars   == <<clusters, bindings, cluster_id, mig, origin>>
hostVars   == <<hosted, crew, known, from_nodes>>
workerVars == <<clients, binded>>
vars == <<rootVars, hostVars, down, up, ipc, workerVars>>

NoMig == [phase |-> "idle", old |-> 0, new |-> 0, src |-> NoHost, dest |-> NoHost,
          ins |-> <<>>, outs |-> <<>>, bindCounter |-> 0, unbindCounter |-> 0]
Busy(m) == mig[m].phase \notin {"idle", "done"}

Init ==
    /\ clusters = [c \in Cid |-> IF c \in Op THEN Start[c] ELSE NoHost]
    /\ bindings = Topology
    /\ cluster_id = Cardinality(Op)
    /\ mig = [m \in Mig |-> NoMig]
    /\ origin = [c \in Cid |-> c]
    /\ hosted = [h \in Host |-> {o \in Op : Start[o] = h}]
    /\ crew = Op
    /\ known = [h \in Host |-> UNION {{b.from, b.to} \cap hosted[h] : b \in Range(Topology)}]
    /\ from_nodes = [h \in Host |->
          {[to |-> b.to, from |-> b.from, node |-> Start[b.from]] :
               b \in {b \in Range(Topology) : Start[b.to] = h}}]
    /\ down = [h \in Host |-> <<>>]
    /\ up = [h \in Host |-> <<>>]
    /\ ipc = [c \in Cid |-> <<>>]
    /\ clients = [c \in Cid |-> {b.to : b \in {b \in Range(Topology) : b.from = c}}]
    /\ binded = [c \in Cid |-> \E b \in Range(Topology) : b.from = c]

-----------------------------------------------------------------------------
(* The root. *)

Present(c) == clusters[c] # NoHost
Call(h, msg) == down' = [down EXCEPT ![h] = Append(@, msg)]
Take(h) == up' = [up EXCEPT ![h] = Tail(@)]
FromHost(h, op) == up[h] # <<>> /\ Head(up[h]).op = op

\* migrate cid node: ask the old node for its clusters.
Migrate(m, c, h) ==
    /\ mig[m].phase = "idle"
    /\ \A n \in Mig : n < m => mig[n].phase # "idle"
    /\ \A n \in Mig : Busy(n) =>
          Overlap = "any" \/ (Overlap = "distinct" /\ mig[n].old # c)
    /\ Present(c)
    /\ mig' = [mig EXCEPT ![m].phase = "collect", ![m].old = c,
                          ![m].src = clusters[c], ![m].dest = h]
    /\ Call(clusters[c], [op |-> "get_clusters", m |-> m])
    /\ UNCHANGED <<clusters, bindings, cluster_id, origin, hostVars, up, ipc, workerVars>>

NextId == cluster_id + 1

\* The elements of s at the places I, in their order.
Picked(s, I) ==
    [k \in 1..Cardinality(I) |-> s[CHOOSE i \in I : Cardinality({j \in I : j <= i}) = k]]
Outs(s, c) == Picked(s, {i \in DOMAIN s : s[i].from = c})
Ins(s, c) == Picked(s, {i \in DOMAIN s : s[i].to = c})

\* The callback of get_clusters: a new cid, the bindings of the old one, and
\* run_operator on the destination.
Collected(h) ==
    LET m == Head(up[h]).m
        old == mig[m].old
        dest == mig[m].dest
    IN  /\ FromHost(h, "clusters") /\ Take(h)
        /\ cluster_id' = NextId
        /\ clusters' = [clusters EXCEPT ![cluster_id] = dest]
        /\ origin' = [origin EXCEPT ![cluster_id] = origin[old]]
        /\ mig' = [mig EXCEPT ![m].phase = "run", ![m].new = cluster_id,
              ![m].outs = Outs(bindings, old), ![m].ins = Ins(bindings, old)]
        /\ Call(dest, [op |-> "run_cluster", m |-> m, cid |-> cluster_id,
                       workers |-> Head(up[h]).workers])
        /\ UNCHANGED <<bindings, hostVars, ipc, workerVars>>

\* bind_operators, or unbind_clusters, for every pair in turn: they throw at the first
\* whose cluster is gone.
Gone(pairs) == {i \in DOMAIN pairs : ~ (Present(pairs[i].from) /\ Present(pairs[i].to))}
Handled(pairs) == IF Gone(pairs) = {} THEN pairs ELSE SubSeq(pairs, 1, Min(Gone(pairs)) - 1)
OnHost(h, pairs) == Picked(pairs, {i \in DOMAIN pairs : clusters[pairs[i].from] = h})
BindCalls(h, m, pairs) ==
    LET here == OnHost(h, Handled(pairs))
    IN  [i \in DOMAIN here |-> [op |-> "bind_cluster", m |-> m, from |-> here[i].from,
                                to |-> here[i].to, node |-> clusters[here[i].to]]]

\* splice(undefined, 1) takes the first element.  The faulty versions delete
\* nothing, or always the first.
DeleteNone(s, hits) == s
DeleteFirst(s, hits) == IF s = <<>> THEN s ELSE Tail(s)
DeleteAt(s, hits) == IF hits # {} THEN RemoveAt(s, Max(hits))
                     ELSE IF s = <<>> THEN s ELSE Tail(s)
Hits(s, from, to) == {i \in DOMAIN s : s[i].from = from /\ s[i].to = to}
Del(s, b) == DeleteAt(s, Hits(s, b.from, b.to))

DelAll(s, pairs) ==
    LET left[i \in 0..Len(pairs)] == IF i = 0 THEN s ELSE Del(left[i - 1], pairs[i])
    IN  left[Len(pairs)]

\* unbind_clusters for every pair in turn.  A missing source throws in del's
\* predicate; a missing target throws there when the source has bindings, else
\* only after del took the first binding of the list.
UnbindAll(pairs) ==
    LET done == Handled(pairs)
        left == DelAll(bindings, done)
        next == pairs[Len(done) + 1]
    IN  IF /\ Gone(pairs) # {} /\ Present(next.from)
           /\ \A i \in DOMAIN left : left[i].from # next.from
        THEN DeleteAt(left, {}) ELSE left
UnbindCalls(h, m, pairs) ==
    LET here == OnHost(h, Handled(pairs))
    IN  [i \in DOMAIN here |-> [op |-> "unbind_cluster", m |-> m,
                                from |-> here[i].from, to |-> here[i].to]]

Length(m) == Len(mig[m].ins) + Len(mig[m].outs)

\* The callback of run_cluster: bind the new operator to what the old one was
\* bound to, or, when that is nothing, go straight to the removal.
Ran(h) ==
    LET m == Head(up[h]).m
        new == mig[m].new
        pairs == [i \in DOMAIN mig[m].outs |-> [from |-> new, to |-> mig[m].outs[i].to]]
                 \o [i \in DOMAIN mig[m].ins |-> [from |-> mig[m].ins[i].from, to |-> new]]
    IN  /\ FromHost(h, "ran") /\ Take(h)
        /\ IF Length(m) = 0
           THEN /\ Call(mig[m].src, [op |-> "remove_cluster", m |-> m, cid |-> mig[m].old])
                /\ mig' = [mig EXCEPT ![m].phase = "remove"]
                /\ UNCHANGED bindings
           ELSE /\ down' = [g \in Host |-> down[g] \o BindCalls(g, m, pairs)]
                /\ mig' = [mig EXCEPT ![m].phase = "bind"]
                /\ bindings' = bindings \o Handled(pairs)
        /\ UNCHANGED <<clusters, cluster_id, origin, hostVars, ipc, workerVars>>

\* A faulty version, which starts to unbind at the first bind that is done.
FirstBound(m) == mig[m].bindCounter = 0
AllBound(m) == mig[m].bindCounter + 1 = Length(m)

\* bindCallback: once every bind is done, unbind the old operator.
Bound(h) ==
    LET m == Head(up[h]).m
        pairs == mig[m].ins \o mig[m].outs
    IN  /\ FromHost(h, "bound") /\ Take(h)
        /\ IF AllBound(m)
           THEN /\ mig' = [mig EXCEPT ![m].bindCounter = @ + 1, ![m].phase = "unbind"]
                /\ bindings' = UnbindAll(pairs)
                /\ down' = [g \in Host |-> down[g] \o UnbindCalls(g, m, pairs)]
           ELSE /\ mig' = [mig EXCEPT ![m].bindCounter = @ + 1]
                /\ UNCHANGED <<bindings, down>>
        /\ UNCHANGED <<clusters, cluster_id, origin, hostVars, ipc, workerVars>>

\* Faulty versions: one does not wait for all, one waits for one too many.
FirstUnbound(m) == mig[m].unbindCounter = 0
OneMoreUnbound(m) == mig[m].unbindCounter = Length(m)
AllUnbound(m) == mig[m].unbindCounter + 1 = Length(m)

\* unbindCallback: once every unbind is done, forget what is left of the old
\* bindings and have the old node remove the operator.
Forget(s, b) == IF Hits(s, b.from, b.to) = {} THEN s ELSE Del(s, b)
ForgetAll(s, pairs) ==
    LET left[i \in 0..Len(pairs)] == IF i = 0 THEN s ELSE Forget(left[i - 1], pairs[i])
    IN  left[Len(pairs)]
Unbound(h) ==
    LET m == Head(up[h]).m
    IN  /\ FromHost(h, "unbound") /\ Take(h)
        /\ IF AllUnbound(m)
           THEN /\ mig' = [mig EXCEPT ![m].unbindCounter = @ + 1, ![m].phase = "remove"]
                /\ bindings' = ForgetAll(bindings, mig[m].ins \o mig[m].outs)
                /\ Call(mig[m].src, [op |-> "remove_cluster", m |-> m, cid |-> mig[m].old])
           ELSE /\ mig' = [mig EXCEPT ![m].unbindCounter = @ + 1]
                /\ UNCHANGED <<bindings, down>>
        /\ UNCHANGED <<clusters, cluster_id, origin, hostVars, ipc, workerVars>>

\* The callback of remove_cluster: the migration is done.
Removed(h) ==
    LET m == Head(up[h]).m
    IN  /\ FromHost(h, "removed") /\ Take(h)
        /\ clusters' = [clusters EXCEPT ![mig[m].old] = NoHost]
        /\ mig' = [mig EXCEPT ![m].phase = "done"]
        /\ UNCHANGED <<bindings, cluster_id, origin, hostVars, down, ipc, workerVars>>

\* A call or a callback between two hosts goes through the root's proxies.
HostToHost == {"notify_binding", "get_workers", "workers", "unbind_cluster_process"}
Forward(h) ==
    /\ up[h] # <<>> /\ Head(up[h]).op \in HostToHost /\ Take(h)
    /\ Call(Head(up[h]).dst, Head(up[h]))
    /\ UNCHANGED <<rootVars, hostVars, ipc, workerVars>>

-----------------------------------------------------------------------------
(* A host. *)

FromRoot(h, op) == down[h] # <<>> /\ Head(down[h]).op = op
Pop(h) == down' = [down EXCEPT ![h] = Tail(@)]
Answer(h, msgs) == up' = [up EXCEPT ![h] = @ \o msgs]
ToWorker(c, command, uid) ==
    ipc' = IF c \in crew THEN [ipc EXCEPT ![c] = Append(@, [cmd |-> command, uid |-> uid])]
           ELSE ipc

\* get_clusters: whether the operator is still there, with its worker.
GetClusters(h) ==
    LET msg == Head(down[h])
    IN  /\ FromRoot(h, "get_clusters") /\ Pop(h)
        /\ Answer(h, <<[op |-> "clusters", m |-> msg.m,
                        workers |-> mig[msg.m].old \in hosted[h] \cap crew]>>)
        /\ UNCHANGED <<rootVars, hostVars, ipc, workerVars>>

\* run_cluster: as many workers as the old operator had.
RunCluster(h) ==
    LET msg == Head(down[h])
    IN  /\ FromRoot(h, "run_cluster") /\ Pop(h)
        /\ hosted' = [hosted EXCEPT ![h] = @ \cup {msg.cid}]
        /\ crew' = IF msg.workers THEN crew \cup {msg.cid} ELSE crew
        /\ Answer(h, <<[op |-> "ran", m |-> msg.m]>>)
        /\ UNCHANGED <<rootVars, known, from_nodes, ipc, workerVars>>

\* bind_cluster on the node of from: tell the node of to, and ask it for its
\* workers.
BindCluster(h) ==
    LET msg == Head(down[h])
        about(op) == [op |-> op, m |-> msg.m, from |-> msg.from, to |-> msg.to,
                      node |-> h, dst |-> msg.node]
    IN  /\ FromRoot(h, "bind_cluster") /\ Pop(h)
        /\ known' = [known EXCEPT ![h] = @ \cup {msg.from}]
        /\ Answer(h, <<about("notify_binding"), about("get_workers")>>)
        /\ UNCHANGED <<rootVars, hosted, crew, from_nodes, ipc, workerVars>>

NotifyBinding(h) ==
    LET msg == Head(down[h])
    IN  /\ FromRoot(h, "notify_binding") /\ Pop(h)
        /\ known' = [known EXCEPT ![h] = @ \cup {msg.to}]
        /\ from_nodes' = [from_nodes EXCEPT ![h] =
               @ \cup {[to |-> msg.to, from |-> msg.from, node |-> msg.node]}]
        /\ UNCHANGED <<rootVars, hosted, crew, up, ipc, workerVars>>

GetWorkers(h) ==
    LET msg == Head(down[h])
    IN  /\ FromRoot(h, "get_workers") /\ Pop(h)
        /\ Answer(h, <<[op |-> "workers", m |-> msg.m, from |-> msg.from, to |-> msg.to,
                        found |-> msg.to \in hosted[h] \cap crew, dst |-> msg.node]>>)
        /\ UNCHANGED <<rootVars, hostVars, ipc, workerVars>>

\* The callback of get_workers: with no worker to bind to, or no operator left
\* to bind, the callback of bind_cluster is never called.
GotWorkers(h) ==
    LET msg == Head(down[h])
    IN  /\ FromRoot(h, "workers") /\ Pop(h)
        /\ IF msg.found /\ msg.from \in hosted[h]
           THEN /\ ToWorker(msg.from, "bind", msg.to)
                /\ Answer(h, <<[op |-> "bound", m |-> msg.m, from |-> msg.from, to |-> msg.to]>>)
           ELSE UNCHANGED <<ipc, up>>
        /\ UNCHANGED <<rootVars, hostVars, workerVars>>

\* unbind_cluster runs on the node of from, but looks for to among its own
\* clusters and bindings: it throws when to lives on another node.  Its
\* callback does not wait for the nodes it calls.
Unbindable(h, c) == c \in hosted[h] /\ (c \in crew => c \in known[h])
UnbindCluster(h) ==
    LET msg == Head(down[h])
        nodes == IF msg.to \notin crew THEN {}
                 ELSE {e.node : e \in {e \in from_nodes[h] : e.to = msg.to /\ e.from = msg.from}}
        calls == [i \in 1..Cardinality(nodes) |->
                    [op |-> "unbind_cluster_process", m |-> msg.m, from |-> msg.from,
                     to |-> msg.to, dst |-> SetToSeq(nodes)[i]]]
    IN  /\ FromRoot(h, "unbind_cluster") /\ Pop(h)
        /\ IF Unbindable(h, msg.to)
           THEN Answer(h, calls \o <<[op |-> "unbound", m |-> msg.m, from |-> msg.from, to |-> msg.to]>>)
           ELSE UNCHANGED up
        /\ UNCHANGED <<rootVars, hostVars, ipc, workerVars>>

UnbindProcess(h) ==
    LET msg == Head(down[h])
    IN  /\ FromRoot(h, "unbind_cluster_process") /\ Pop(h)
        /\ IF msg.from \in hosted[h] THEN ToWorker(msg.from, "unbind", msg.to)
                                     ELSE UNCHANGED ipc
        /\ UNCHANGED <<rootVars, hostVars, up, workerVars>>

\* remove_cluster: the entry goes, the worker process stays.
RemoveCluster(h) ==
    LET msg == Head(down[h])
    IN  /\ FromRoot(h, "remove_cluster") /\ Pop(h)
        /\ hosted' = [hosted EXCEPT ![h] = @ \ {msg.cid}]
        /\ Answer(h, <<[op |-> "removed", m |-> msg.m]>>)
        /\ UNCHANGED <<rootVars, crew, known, from_nodes, ipc, workerVars>>

-----------------------------------------------------------------------------
(* A worker: the bind_node and unbind_node commands of koala.js. *)

FromParent(c, command) ==
    /\ ipc[c] # <<>> /\ Head(ipc[c]).cmd = command
    /\ ipc' = [ipc EXCEPT ![c] = Tail(@)]
    /\ UNCHANGED <<rootVars, hostVars, down, up>>

BindNode(c) ==
    /\ FromParent(c, "bind")
    /\ clients' = [clients EXCEPT ![c] = @ \cup {Head(ipc[c]).uid}]
    /\ binded' = [binded EXCEPT ![c] = TRUE]

UnbindNode(c) ==
    /\ FromParent(c, "unbind")
    /\ clients' = [clients EXCEPT ![c] = @ \ {Head(ipc[c]).uid}]
    /\ binded' = [binded EXCEPT ![c] = @ /\ Head(ipc[c]).uid \notin clients[c]]

-----------------------------------------------------------------------------
RootStep(h) == \/ Collected(h) \/ Ran(h) \/ Bound(h) \/ Unbound(h) \/ Removed(h)
               \/ Forward(h)
HostStep(h) == \/ GetClusters(h) \/ RunCluster(h) \/ BindCluster(h) \/ NotifyBinding(h)
               \/ GetWorkers(h) \/ GotWorkers(h) \/ UnbindCluster(h) \/ UnbindProcess(h)
               \/ RemoveCluster(h)
WorkerStep(c) == BindNode(c) \/ UnbindNode(c)

Next ==
    \/ \E m \in Mig, c \in Cid, h \in Host : Migrate(m, c, h)
    \/ \E h \in Host : RootStep(h) \/ HostStep(h)
    \/ \E c \in Cid : WorkerStep(c)

Spec == Init /\ [][Next]_vars

\* Every event loop keeps taking its messages; nobody owes a migration.
Fairness == /\ \A h \in Host : WF_vars(RootStep(h)) /\ WF_vars(HostStep(h))
            /\ \A c \in Cid : WF_vars(WorkerStep(c))
FairSpec == Spec /\ Fairness
-----------------------------------------------------------------------------
(* Properties. *)

Binding == [from : Cid, to : Cid]
TypeOK ==
    /\ clusters \in [Cid -> Host \cup {NoHost}]
    /\ bindings \in Seq(Binding)
    /\ cluster_id \in Nat /\ \A c \in Cid : c >= cluster_id => ~ Present(c)
    /\ \A m \in Mig : /\ mig[m].old \in Cid /\ mig[m].new \in Cid
                       /\ mig[m].bindCounter <= Length(m)
                       /\ mig[m].unbindCounter <= Length(m)
    /\ origin \in [Cid -> Cid]
    /\ hosted \in [Host -> SUBSET Cid] /\ crew \subseteq Cid
    /\ known \in [Host -> SUBSET Cid]
    /\ \A h \in Host : from_nodes[h] \subseteq [to : Cid, from : Cid, node : Host]
    /\ clients \in [Cid -> SUBSET Cid]
    /\ binded \in [Cid -> BOOLEAN]

\* Types, and a binding never names an operator that is gone: both bind_operators
\* and unbind_clusters throw on one, which loses the rest of a migration.
NoDanglingBinding ==
    TypeOK /\ \A b \in Range(bindings) : Present(b.from) /\ Present(b.to)

\* Whatever the migration of its successor has reached, the worker of a started
\* operator has a socket to an incarnation of every operator it is bound to:
\* bindCallback waits for all binds, so that every bind_node for the new one is
\* on its way before any unbind_node for the old one.  A worker started by a
\* migration has the socket or the bind_node for it.
Starting(c) == \E m \in Mig : mig[m].phase \in {"run", "bind"} /\ mig[m].new = c
BindQueued(c, e) == \E i \in DOMAIN ipc[c] : ipc[c][i] = [cmd |-> "bind", uid |-> e]
UpstreamNeverCut ==
    \A b \in Range(bindings) : ~ Starting(b.from) =>
        \E e \in Cid : /\ origin[e] = origin[b.to]
                       /\ e \in clients[b.from] \/ (b.from \notin Op /\ BindQueued(b.from, e))

\* When every migration is over and every message handled, the sockets of the
\* workers are the bindings of the root, no more (a removed operator that still
\* feeds a successor, a worker that still feeds a removed one) and no less.
Quiet == /\ \A m \in Mig : ~ Busy(m)
         /\ \A h \in Host : up[h] = <<>> /\ down[h] = <<>>
         /\ \A c \in Cid : ipc[c] = <<>>
SocketsAreBindings ==
    Quiet => \A c \in Cid :
        clients[c] = {b.to : b \in {b \in Range(bindings) : b.from = c}}

\* The topology the user built is kept, and an operator moves, in one step and
\* to where it was asked to, when its migration ends.
Incarnation(o) == Min({c \in Cid : origin[c] = o /\ Present(c)})
Edges == {<<origin[b.from], origin[b.to]>> : b \in Range(bindings)}
UserEdges == {<<b.from, b.to>> : b \in Range(Topology)}
Place == [o \in Op |-> clusters[Incarnation(o)]]
Going(o) == {mig[m].dest : m \in {m \in Mig : Busy(m) /\ origin[mig[m].old] = o}}
Wanted == [o \in Op |-> IF Going(o) = {} THEN NoHost ELSE CHOOSE h \in Going(o) : TRUE]
Graph == INSTANCE StreamGraph WITH Topology <- UserEdges, Nowhere <- NoHost,
                                   edges <- Edges, place <- Place, wanted <- Wanted
KeepsGraph == Graph!Spec

\* A migration ends when the neighbours of the operator live on its old node.
\* (unbind_cluster looks for both ends of a binding on one node.)
Near(m) == \A b \in Range(Topology) :
              origin[mig[m].old] \in {b.from, b.to} =>
                  Place[b.from] = mig[m].src /\ Place[b.to] = mig[m].src
NearMigrationEnds == \A m \in Mig : (Busy(m) /\ Near(m)) ~> mig[m].phase = "done"

-----------------------------------------------------------------------------
(* What the repository says of migrations, and the code does not do. *)

\* k_root_commands.js:2049 "bind the new cluster with the connections of the
\* previous": also when two operators are migrated at the same time.
TopologyKept == Edges = UserEdges
=============================================================================
