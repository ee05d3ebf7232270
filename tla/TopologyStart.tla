---------------------------- MODULE TopologyStart ----------------------------
(***************************************************************************)
(* The registry of the root (koala_root.js) and the start of a topology    *)
(* from a file (its exec command, with find_host, run_operator and         *)
(* bind_operators of k_root_commands.js).  Hosts register while the root   *)
(* connects back to them, lose the root and register again; browsers come  *)
(* and leave; meanwhile exec looks for a host for every operator, runs the *)
(* operators, and binds them when as many ran as there are.                *)
(*                                                                         *)
(* A channel is that of one registration: calls and replies over it come   *)
(* in order, and are lost with the connection.  The root is single-        *)
(* threaded: an action of it is one handler, run to its end.               *)
(***************************************************************************)
EXTENDS Naturals, Sequences, FiniteSets, SequencesExt

CONSTANTS
    Host, Browser,
    Op,             \* the operators of the file, by their ids
    Operators,      \* topology.operators: a sequence of them
    BrowserOnly,    \* those with browser.only
    Bindings,       \* topology.bindings: a sequence of [from, to]
    Nobody,         \* undefined
    MaxId,          \* bound: registrations
    MaxLost         \* bound: connections lost

Peer == Host \cup Browser
Id == 0..(MaxId - 1)
Cid == 0..(Len(Operators) - 1)

ASSUME TopologyAssumption ==
    /\ Operators \in Seq(Op) /\ Range(Operators) = Op /\ IsInjective(Operators) /\ BrowserOnly \subseteq Op
    /\ Bindings \in Seq([from : Op, to : Op])
    /\ Nobody \notin Peer \cup Id /\ Host \cap Browser = {}
    /\ MaxId \in Nat \ {0} /\ MaxLost \in Nat

VARIABLES
    node_uid,   \* G.node_uid
    pending,    \* id -> the host the root connects back to, or Nobody
    nodes,      \* N.nodes: id -> peer, or Nobody
    length,     \* N.nodes.length
    live,       \* the ids whose channel works
    calls,      \* id -> calls to the peer
    replies,    \* id -> replies and callbacks to the root
    execd,      \* exec was given
    find,       \* op -> [counter, node_index] of its find_host
    asked,      \* history: N.nodes and its length when find_host asked
    cluster_id, \* G.cluster_id
    clusters,   \* cid -> [alias, node], or Nobody
    ran,        \* peer -> the cids run_cluster made there
    collecting, \* the hosts whose controller has started
    nodes_run,  \* operators that ran
    bound,      \* topologies[0].bindings
    lost        \* connections lost so far

registry == <<node_uid, pending, nodes, length>>
start    == <<execd, find, asked, cluster_id, clusters, nodes_run, bound>>
vars == <<registry, live, calls, replies, start, ran, collecting, lost>>

Init ==
    /\ node_uid = 0 /\ length = 0 /\ live = {} /\ lost = 0
    /\ pending = [i \in Id |-> Nobody]
    /\ nodes = [i \in Id |-> Nobody]
    /\ calls = [i \in Id |-> <<>>]
    /\ replies = [i \in Id |-> <<>>]
    /\ execd = FALSE
    /\ find = [o \in Op |-> [counter |-> 0, node_index |-> Nobody]]
    /\ asked = [length |-> 0, nodes |-> nodes]
    /\ cluster_id = 0 /\ nodes_run = 0 /\ bound = <<>>
    /\ clusters = [c \in Cid |-> Nobody]
    /\ ran = [p \in Peer |-> {}]
    /\ collecting = {}

Connected(p) == \E i \in Id : pending[i] = p \/ (i \in live /\ nodes[i] = p)
Larger(m, n) == IF m > n THEN m ELSE n

-----------------------------------------------------------------------------
(* The registry. *)

\* G.node_uid++ comes before the root connects back; the faulty version leaves it
\* to the callback.
UidKept == node_uid
UidTaken == node_uid + 1

\* register_new_node: the id is taken, and the node is listed when the root's own
\* connection to the host is there, which other registrations may overtake.
RegisterNewNode(h) ==
    /\ ~ Connected(h) /\ node_uid < MaxId
    /\ pending' = [pending EXCEPT ![node_uid] = h]
    /\ node_uid' = UidTaken
    /\ UNCHANGED <<nodes, length, live, calls, replies, start, ran, collecting, lost>>

List(i, p) ==
    /\ nodes' = [nodes EXCEPT ![i] = p]
    /\ length' = Larger(length, i + 1)
    /\ live' = live \cup {i}

ConnectBack(i) ==
    /\ pending[i] # Nobody
    /\ pending' = [pending EXCEPT ![i] = Nobody]
    /\ List(i, pending[i])
    /\ UNCHANGED <<node_uid, calls, replies, start, ran, collecting, lost>>

RegisterNewRemoteNode(b) ==
    /\ ~ Connected(b) /\ node_uid < MaxId
    /\ node_uid' = node_uid + 1
    /\ List(node_uid, b)
    /\ UNCHANGED <<pending, calls, replies, start, ran, collecting, lost>>

Drop(i) ==
    /\ i \in live /\ lost < MaxLost
    /\ lost' = lost + 1
    /\ live' = live \ {i}
    /\ calls' = [calls EXCEPT ![i] = <<>>]
    /\ replies' = [replies EXCEPT ![i] = <<>>]

\* A host loses the root: handle_end has it register again, under another id, and
\* its old entry stays.
LoseHost(i) ==
    /\ nodes[i] \in Host
    /\ Drop(i)
    /\ UNCHANGED <<registry, start, ran, collecting>>

\* nowjs_leave: a browser's entry and its operators go, and the array keeps its length.
NowjsLeave(i) ==
    /\ nodes[i] \in Browser
    /\ Drop(i)
    /\ nodes' = [nodes EXCEPT ![i] = Nobody]
    /\ clusters' = [c \in Cid |-> IF clusters[c] # Nobody /\ clusters[c].node = i
                                  THEN Nobody ELSE clusters[c]]
    /\ UNCHANGED <<node_uid, pending, length, execd, find, asked, cluster_id, nodes_run, bound, ran,
                   collecting>>

-----------------------------------------------------------------------------
(* The start of a topology. *)

Send(queues, i, msg) ==
    IF i \in live THEN [queues EXCEPT ![i] = Append(@, msg)] ELSE queues

\* find_host counts the entries that are no hosts; the faulty version does not.
CountsHosts == 0
Skipped == Cardinality({i \in 0..(length - 1) : nodes[i] \notin Host})

\* exec, of operators that ask for no sensors: find_host asks every host, once per
\* operator.
Exec ==
    /\ ~ execd /\ execd' = TRUE
    /\ find' = [o \in Op |-> [counter |-> Skipped, node_index |-> Nobody]]
    /\ asked' = [length |-> length, nodes |-> nodes]
    /\ calls' = [i \in Id |->
           IF i \in live /\ nodes[i] \in Host
           THEN calls[i] \o [k \in DOMAIN Operators |-> [cmd |-> "cpu_usage", op |-> Operators[k]]]
           ELSE calls[i]]
    /\ UNCHANGED <<registry, live, replies, cluster_id, clusters, nodes_run, bound, ran, collecting, lost>>

\* A peer takes a call: cpu_usage answers 0, run_cluster makes the operator and
\* bind_cluster its sockets (see Mesh), and each replies; start_controller does not.
PeerStep(i) ==
    LET call == Head(calls[i])
    IN  /\ calls[i] # <<>>
        /\ calls' = [calls EXCEPT ![i] = Tail(@)]
        /\ replies' = IF call.cmd = "start_controller" THEN replies
                      ELSE [replies EXCEPT ![i] = Append(@, call)]
        /\ ran' = IF call.cmd = "run_cluster"
                  THEN [ran EXCEPT ![nodes[i]] = @ \cup {call.cid}] ELSE ran
        /\ collecting' = IF call.cmd = "start_controller" THEN collecting \cup {nodes[i]}
                         ELSE collecting
        /\ UNCHANGED <<registry, live, start, lost>>

\* run_operator at node i.
RunOperator(o, i) ==
    /\ clusters' = [clusters EXCEPT ![cluster_id] = [alias |-> o, node |-> i]]
    /\ calls' = Send(calls, i, [cmd |-> "run_cluster", cid |-> cluster_id])

\* The callback of find_host.  An operator for browsers goes to whom the controller
\* ranks first, which may be a peer that has left, or nobody: run_operator throws.
Found(o, node_index) ==
    /\ cluster_id' = cluster_id + 1
    /\ IF o \notin BrowserOnly
       THEN RunOperator(o, node_index)
       ELSE \/ \E i \in 1..(node_uid - 1) : nodes[i] # Nobody /\ RunOperator(o, i)
            \/ UNCHANGED <<clusters, calls>>

\* The test of find_host for the last answer; the faulty version calls back at each.
EachAnswer(o) == TRUE
LastAnswer(o) == length = find[o].counter + 1

\* find_host hears from host i that it uses 0: the first to answer is the least used.
Usage(i) ==
    LET o == Head(replies[i]).op
        best == IF find[o].node_index = Nobody THEN i ELSE find[o].node_index
    IN  /\ replies[i] # <<>> /\ Head(replies[i]).cmd = "cpu_usage"
        /\ replies' = [replies EXCEPT ![i] = Tail(@)]
        /\ find' = [find EXCEPT ![o] = [counter |-> @.counter + 1, node_index |-> best]]
        /\ IF LastAnswer(o) THEN Found(o, best) ELSE UNCHANGED <<cluster_id, clusters, calls>>
        /\ UNCHANGED <<registry, live, execd, asked, nodes_run, bound, ran, collecting, lost>>

\* bind_operators finds both operators by their aliases, or throws; the loop over
\* the bindings of the file ends there.
Running(o) == \E c \in Cid : clusters[c] # Nobody /\ clusters[c].alias = o
NodeOf(o) == clusters[CHOOSE c \in Cid : clusters[c] # Nobody /\ clusters[c].alias = o].node
Bound ==
    LET found == {n \in DOMAIN Bindings :
                     \A k \in 1..n : Running(Bindings[k].from) /\ Running(Bindings[k].to)}
    IN  SubSeq(Bindings, 1, Cardinality(found))

\* Who hears of a binding first: the browser if a host sends to it, else the sender.
Caller(b) == IF nodes[NodeOf(b.from)] \in Host /\ nodes[NodeOf(b.to)] \in Browser
             THEN NodeOf(b.to) ELSE NodeOf(b.from)
BindCalls(i) ==
    [n \in 1..Cardinality({k \in DOMAIN Bound : Caller(Bound[k]) = i}) |-> [cmd |-> "bind_cluster"]]

\* The barrier before the bindings; the faulty version is one early.
AllButOne == nodes_run + 2 = Len(Operators)
AllRan == nodes_run + 1 = Len(Operators)

\* The callback of run_operator.
Ran(i) ==
    /\ replies[i] # <<>> /\ Head(replies[i]).cmd = "run_cluster"
    /\ replies' = [replies EXCEPT ![i] = Tail(@)]
    /\ nodes_run' = nodes_run + 1
    /\ bound' = IF AllRan THEN bound \o Bound ELSE bound
    /\ calls' = IF AllRan
                THEN [k \in Id |-> IF k \in live THEN calls[k] \o BindCalls(k) ELSE calls[k]]
                ELSE calls
    /\ UNCHANGED <<registry, live, execd, find, asked, cluster_id, clusters, ran, collecting, lost>>

\* start_controller goes through the nodes as far as the first hole, where it throws;
\* the faulty version stops one short.
BeforeLast == {i \in Id : i + 1 < length /\ \A k \in 0..i : nodes[k] # Nobody}
Reached == {i \in 0..(length - 1) : \A k \in 0..i : nodes[k] # Nobody}

\* The callback of each bind_operators starts the controllers.
BoundCb(i) ==
    /\ replies[i] # <<>> /\ Head(replies[i]).cmd = "bind_cluster"
    /\ replies' = [replies EXCEPT ![i] = Tail(@)]
    /\ calls' = [k \in Id |->
           IF k \in Reached \cap live /\ nodes[k] \in Host
           THEN Append(calls[k], [cmd |-> "start_controller"]) ELSE calls[k]]
    /\ UNCHANGED <<registry, live, start, ran, collecting, lost>>

-----------------------------------------------------------------------------
Serve(i) == PeerStep(i) \/ Usage(i) \/ Ran(i) \/ BoundCb(i)
Next ==
    \/ \E h \in Host : RegisterNewNode(h)
    \/ \E b \in Browser : RegisterNewRemoteNode(b)
    \/ \E i \in Id : ConnectBack(i) \/ LoseHost(i) \/ NowjsLeave(i) \/ Serve(i)
    \/ Exec

Spec == Init /\ [][Next]_vars

\* Peers and root keep taking their calls.
FairSpec == Spec /\ \A i \in Id : WF_vars(Serve(i))
-----------------------------------------------------------------------------
(* Properties. *)

Call == [cmd : {"cpu_usage"}, op : Op] \cup [cmd : {"run_cluster"}, cid : Cid]
            \cup [cmd : {"bind_cluster", "start_controller"}]
TypeOK ==
    /\ node_uid \in 0..MaxId /\ length \in 0..node_uid /\ live \subseteq 0..(node_uid - 1)
    /\ pending \in [Id -> Host \cup {Nobody}] /\ nodes \in [Id -> Peer \cup {Nobody}]
    /\ calls \in [Id -> Seq(Call)] /\ replies \in [Id -> Seq(Call)]
    /\ find \in [Op -> [counter : 0..length, node_index : Id \cup {Nobody}]]
    /\ cluster_id \in 0..Cardinality(Cid)
    /\ clusters \in [Cid -> [alias : Op, node : Id] \cup {Nobody}]
    /\ ran \in [Peer -> SUBSET Cid] /\ collecting \subseteq Host /\ nodes_run \in 0..cluster_id

\* Registrations that overtake each other do not take each other's entry: every
\* channel that works belongs to the peer listed under its id, and to no other.
OneEntryEach ==
    /\ \A i \in live : nodes[i] # Nobody
    /\ \A i \in Id : pending[i] # Nobody => nodes[i] = Nobody
    /\ \A i, j \in live : i # j => nodes[i] # nodes[j]

\* However answers, registrations, departures and reconnections come, find_host
\* calls back at most once, so that no operator is started twice, and no binding
\* is made before each operator of the file has run at its peer, be it gone since.
StartedOnce ==
    \A c, d \in Cid : (c # d /\ clusters[c] # Nobody /\ clusters[d] # Nobody) =>
        clusters[c].alias # clusters[d].alias
BoundAfterRun ==
    /\ StartedOnce
    /\ bound # <<>> => \A c \in Cid : \E p \in Peer : c \in ran[p]

\* The start comes to its end: every binding is made, unless there was no host to
\* ask or the list of nodes grew while find_host asked, the entry of a host that lost
\* the root is still listed, or an operator for browsers found no one or lost its peer.
StartEnds ==
    execd ~> \/ bound = Bindings
             \/ Range(asked.nodes) \cap Host = {}
             \/ (length # asked.length /\ cluster_id < Len(Operators))
             \/ \E i \in Id : nodes[i] \in Host /\ i \notin live
             \/ \E c \in 0..(cluster_id - 1) : clusters[c] = Nobody

\* Once a topology is bound every host that was asked to run it collects data, unless
\* the list of nodes had a hole, left by a browser or by a registration that another
\* overtook, or has a dead entry.
HostsCollect ==
    (bound = Bindings) ~> \/ \A i \in Id : asked.nodes[i] \in Host => asked.nodes[i] \in collecting
                          \/ \E i \in 0..(asked.length - 1) : Nobody \in {nodes[i], asked.nodes[i]}
                          \/ \E i \in Id : nodes[i] \in Host /\ i \notin live
=============================================================================
