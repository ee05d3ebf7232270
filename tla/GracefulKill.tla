---------------------------- MODULE GracefulKill ----------------------------
(***************************************************************************)
(* How a host lets the worker pool of one of its operators grow and        *)
(* shrink: an idle worker asks to be killed (koala.js, graceful_kill), its *)
(* host asks every host of an upstream operator to unbind it               *)
(* (koala_node.js, graceful_kill message), those hosts tell their own      *)
(* workers, collect the acknowledgements through the shared callback table *)
(* cbtable, and call back; the callback removes the worker (kill_worker).  *)
(* A worker is named by its uid, which the root never hands out twice.     *)
(*                                                                         *)
(* One operator, on one host, is watched; SrcHost are the nodes found in   *)
(* its bindings[cid].from lists, a Feeder is a worker of the upstream      *)
(* operator on such a node.  Every process is single-threaded: an action   *)
(* is one message handler, run to its end.                                 *)
(***************************************************************************)
EXTENDS Naturals, Sequences, FiniteSets, Functions

CONSTANTS
    Worker,     \* uids the root can hand out to the watched operator
    InitPool,   \* the workers run_cluster started it with
    SrcHost,    \* hosts of upstream operators
    Feeder,     \* workers of the upstream operators
    HostOf      \* the host each feeder runs on

ASSUME PoolAssumption == InitPool \subseteq Worker /\ InitPool # {}
ASSUME FeederAssumption ==
    /\ IsFiniteSet(Feeder)
    /\ HostOf \in [Feeder -> SrcHost]
    /\ \A s \in SrcHost : \E f \in Feeder : HostOf[f] = s

VARIABLES
    pool,       \* clusters[cid].workers of the watched operator
    spawned,    \* the uids handed out so far (process_uid at the root)
    bound,      \* workers whose own binded flag is set (idleness is counted)
    asked,      \* workers that sent graceful_kill: their interval is cleared
    pending,    \* graceful_kill messages the host has not handled yet
    rpc,        \* calls from the watched host to each source host, in order
    cbid,       \* cbid of each source host
    cbtable,    \* cbtable of each source host: slot -> uid (its args)
    back,       \* callbacks on their way from each source host
    ipc,        \* commands from a source host to each of its feeders
    echo,       \* the feeder's {cbid: ...} acknowledgements, in order
    clients,    \* the worker sockets each feeder sends to
    binded      \* the binded flag of each feeder

hostVars   == <<pool, spawned, bound, asked, pending>>
sourceVars == <<cbid, cbtable>>
feederVars == <<clients, binded>>
vars == <<hostVars, rpc, sourceVars, back, ipc, echo, feederVars>>

Feeders(s) == {f \in Feeder : HostOf[f] = s}
Command == [cmd : {"bind", "unbind"}, uid : Worker]
Bind(w)   == [cmd |-> "bind", uid |-> w]
Unbind(w) == [cmd |-> "unbind", uid |-> w]

Init ==
    /\ pool = InitPool
    /\ spawned = InitPool
    /\ bound = InitPool
    /\ asked = {}
    /\ pending = {}
    /\ rpc = [s \in SrcHost |-> <<>>]
    /\ cbid = [s \in SrcHost |-> 0]
    /\ cbtable = [s \in SrcHost |-> [k \in {} |-> k]]
    /\ back = [s \in SrcHost |-> <<>>]
    /\ ipc = [f \in Feeder |-> <<>>]
    /\ echo = [f \in Feeder |-> <<>>]
    /\ clients = [f \in Feeder |-> InitPool]
    /\ binded = [f \in Feeder |-> TRUE]

-----------------------------------------------------------------------------
(* The watched host and its workers. *)

\* run_worker: the root allocated a fresh uid, the host forks the worker, adds
\* it to the pool and asks every upstream node to bind its workers to it.
Spawn(w) ==
    /\ w \notin spawned
    /\ spawned' = spawned \cup {w}
    /\ pool' = pool \cup {w}
    /\ rpc' = [s \in SrcHost |-> Append(rpc[s], Bind(w))]
    /\ UNCHANGED <<bound, asked, pending, sourceVars, back, ipc, echo, feederVars>>

\* A worker gets a bind_node for a downstream worker, or loses one (unbind_node):
\* its own binded flag, without which idleness is not counted.
BindDownstream(w) ==
    /\ w \in spawned
    /\ bound' = bound \cup {w}
    /\ UNCHANGED <<pool, spawned, asked, pending, rpc, sourceVars, back, ipc, echo,
                   feederVars>>

UnbindDownstream(w) ==
    /\ w \in bound
    /\ bound' = bound \ {w}
    /\ UNCHANGED <<pool, spawned, asked, pending, rpc, sourceVars, back, ipc, echo,
                   feederVars>>

\* A faulty Idle: graceful_kill without clearInterval.
IdleAgain(w) ==
    /\ w \in bound
    /\ pending' = pending \cup {w}
    /\ UNCHANGED <<pool, spawned, bound, asked, rpc, sourceVars, back, ipc, echo,
                   feederVars>>

\* compute_idleness finds five idle ticks in a bound worker: graceful_kill
\* clears the interval, so it is sent once.
Idle(w) ==
    /\ w \in bound \ asked
    /\ asked' = asked \cup {w}
    /\ pending' = pending \cup {w}
    /\ UNCHANGED <<pool, spawned, bound, rpc, sourceVars, back, ipc, echo, feederVars>>

\* The host handles graceful_kill: nothing for the last worker of the pool,
\* else one unbind_cluster_process call per upstream node.
HandleGraceful(w) ==
    /\ w \in pending
    /\ pending' = pending \ {w}
    /\ rpc' = IF pool = {w} THEN rpc
              ELSE [s \in SrcHost |-> Append(rpc[s], Unbind(w))]
    /\ UNCHANGED <<pool, spawned, bound, asked, sourceVars, back, ipc, echo, feederVars>>

\* The worker kill_worker looks for; a faulty search stops at the first.
FirstFound(s) == CHOOSE w \in pool : TRUE
Victim(s) == Head(back[s])

\* The callback of unbind_cluster_process: kill_worker(uid).  The worker
\* ignores the kill command; a uid that left the pool earlier is not found.
KillWorker(s) ==
    /\ back[s] # <<>>
    /\ back' = [back EXCEPT ![s] = Tail(@)]
    /\ pool' = pool \ {Victim(s)}
    /\ UNCHANGED <<spawned, bound, asked, pending, rpc, sourceVars, ipc, echo, feederVars>>

-----------------------------------------------------------------------------
(* A source host. *)

\* A faulty version, which registers a callback for a bind too.
RegisterAny(s) == rpc[s] # <<>>
Registers(s) == Head(rpc[s]).cmd = "unbind"

\* bind_cluster_worker or unbind_cluster_process: one command per feeder; the
\* unbind takes a cbid for each but registers one callback, at the last.
SourceCall(s) ==
    LET call == Head(rpc[s])
        last == cbid[s] + Cardinality(Feeders(s))
    IN  /\ rpc[s] # <<>>
        /\ rpc' = [rpc EXCEPT ![s] = Tail(@)]
        /\ ipc' = [f \in Feeder |-> IF f \in Feeders(s) THEN Append(ipc[f], call)
                                                        ELSE ipc[f]]
        /\ IF Registers(s)
           THEN /\ cbid' = [cbid EXCEPT ![s] = last]
                /\ cbtable' = [cbtable EXCEPT ![s] =
                      [k \in DOMAIN @ \cup {last} |-> IF k = last THEN call.uid ELSE @[k]]]
           ELSE UNCHANGED sourceVars
        /\ UNCHANGED <<hostVars, back, echo, feederVars>>

\* What handle_ipc leaves of cbtable and of cbid once it has called an entry;
\* the faulty ones forget the delete and the decrement.
TableKept(s) == cbtable[s]
TableLeft(s) == Restrict(cbtable[s], DOMAIN cbtable[s] \ {cbid[s]})
CbidKept(s) == cbid[s]
CbidLeft(s) == cbid[s] - 1

\* handle_ipc on an acknowledgement: whatever cbid the message carries, the
\* entry at the host's own cbid is called, deleted, and cbid decremented.
SourceReply(f) ==
    LET s == HostOf[f]
        top == cbid[s]
    IN  /\ echo[f] # <<>>
        /\ echo' = [echo EXCEPT ![f] = Tail(@)]
        /\ IF top \in DOMAIN cbtable[s]
           THEN /\ back' = [back EXCEPT ![s] = Append(@, cbtable[s][top])]
                /\ cbtable' = [cbtable EXCEPT ![s] = TableLeft(s)]
                /\ cbid' = [cbid EXCEPT ![s] = CbidLeft(s)]
           ELSE UNCHANGED <<back, sourceVars>>
        /\ UNCHANGED <<hostVars, rpc, ipc, feederVars>>

-----------------------------------------------------------------------------
(* A feeder: the bind_node and unbind_node commands of koala.js. *)

BindNode(f) ==
    /\ ipc[f] # <<>> /\ Head(ipc[f]).cmd = "bind"
    /\ ipc' = [ipc EXCEPT ![f] = Tail(@)]
    /\ clients' = [clients EXCEPT ![f] = @ \cup {Head(ipc[f]).uid}]
    /\ binded' = [binded EXCEPT ![f] = TRUE]
    /\ UNCHANGED <<hostVars, rpc, sourceVars, back, echo>>

\* The sockets left by unbind_node: the faulty ones delete every socket, or only
\* disconnect the one that goes.
NoneLeft(f, w) == {}
AllLeft(f, w) == clients[f]
ClientsLeft(f, w) == clients[f] \ {w}

\* Removing a client clears binded, whatever clients are left.
BindedLeft(f, w) == binded[f] /\ w \notin clients[f]

UnbindNode(f) ==
    LET w == Head(ipc[f]).uid
    IN  /\ ipc[f] # <<>> /\ Head(ipc[f]).cmd = "unbind"
        /\ ipc' = [ipc EXCEPT ![f] = Tail(@)]
        /\ clients' = [clients EXCEPT ![f] = ClientsLeft(f, w)]
        /\ binded' = [binded EXCEPT ![f] = BindedLeft(f, w)]
        /\ echo' = [echo EXCEPT ![f] = Append(@, w)]
        /\ UNCHANGED <<hostVars, rpc, sourceVars, back>>

-----------------------------------------------------------------------------
Next ==
    \/ \E w \in Worker : \/ Spawn(w) \/ Idle(w) \/ HandleGraceful(w)
                          \/ BindDownstream(w) \/ UnbindDownstream(w)
    \/ \E s \in SrcHost : SourceCall(s) \/ KillWorker(s)
    \/ \E f \in Feeder : SourceReply(f) \/ BindNode(f) \/ UnbindNode(f)

Spec == Init /\ [][Next]_vars

\* Every event loop keeps handling its messages; nobody owes the system an
\* idle worker, a new one or a new binding.
Fairness ==
    /\ \A w \in Worker : WF_vars(HandleGraceful(w))
    /\ \A s \in SrcHost : WF_vars(SourceCall(s)) /\ WF_vars(KillWorker(s))
    /\ \A f \in Feeder : /\ WF_vars(SourceReply(f))
                         /\ WF_vars(BindNode(f)) /\ WF_vars(UnbindNode(f))

FairSpec == Spec /\ Fairness
-----------------------------------------------------------------------------
(* Properties. *)

TypeOK ==
    /\ pool \subseteq spawned /\ bound \subseteq spawned /\ spawned \subseteq Worker
    /\ pending \subseteq asked /\ asked \subseteq spawned
    /\ rpc \in [SrcHost -> Seq(Command)]
    /\ cbid \in [SrcHost -> Nat]
    /\ \A s \in SrcHost : cbtable[s] \in [DOMAIN cbtable[s] -> Worker]
    /\ DOMAIN cbtable = SrcHost
    /\ back \in [SrcHost -> Seq(Worker)]
    /\ ipc \in [Feeder -> Seq(Command)]
    /\ echo \in [Feeder -> Seq(Worker)]
    /\ clients \in [Feeder -> SUBSET Worker]
    /\ binded \in [Feeder -> BOOLEAN]

InQueue(q, x) == \E i \in DOMAIN q : q[i] = x

\* Whatever is still on its way towards a removal, in any queue or in cbtable,
\* concerns a worker whose graceful_kill was handled: no handler, and no
\* confusion of callbacks, ever turns on a worker that did not ask.
Requested(w) == w \in asked \ pending
RpcRequested   == \A s \in SrcHost, w \in Worker :
                      InQueue(rpc[s], Unbind(w)) => Requested(w)
BackRequested  == \A s \in SrcHost, w \in Worker : InQueue(back[s], w) => Requested(w)
TableRequested == \A s \in SrcHost : \A k \in DOMAIN cbtable[s] : Requested(cbtable[s][k])
IpcRequested   == \A f \in Feeder, w \in Worker :
                      InQueue(ipc[f], Unbind(w)) => Requested(w)
EchoRequested  == \A f \in Feeder, w \in Worker : InQueue(echo[f], w) => Requested(w)
OnlyRequestedInFlight ==
    RpcRequested /\ BackRequested /\ TableRequested /\ IpcRequested /\ EchoRequested

\* A worker leaves the pool only on its own request, already handled: whatever
\* callback the shared cbtable fires, kill_worker never takes a worker that
\* did not call graceful_kill (koala_node.js 326-341, 697-699, 2182-2220).
OnlyIdleLeave == spawned \ pool \subseteq asked \ pending

\* The worker whose graceful_kill the host is about to handle is still in the
\* pool, so the handler's search always sets cid (koala_node.js 653-670; an
\* undefined cid would throw at clusters[cid].workers).
RequesterInPool == pending \subseteq pool

\* While some workers retire, a worker of the pool that did not ask keeps its
\* sockets: every feeder has one to it, or has the bind command for it on its way
\* (unbind_node, bind_node, bind_cluster_worker).  The stream through them may stop
\* all the same: unbind_node clears binded with the first client it removes (1654),
\* whatever clients are left, and send does nothing until the next bind (930).
BusyKeepSockets ==
    \A w \in pool \ asked, f \in Feeder :
        \/ w \in clients[f]
        \/ InQueue(ipc[f], Bind(w))
        \/ InQueue(rpc[HostOf[f]], Bind(w))

\* A request to a source host is in one place: called but not yet run,
\* registered in cbtable, or called back.  So a callback fires at most once
\* per request, however the acknowledgements interleave.
Places(s, w) ==
    Cardinality({i \in DOMAIN rpc[s] : rpc[s][i] = Unbind(w)})
    + Cardinality({k \in DOMAIN cbtable[s] : cbtable[s][k] = w})
    + Cardinality({i \in DOMAIN back[s] : back[s][i] = w})

AnsweredAtMostOnce == \A s \in SrcHost, w \in Worker : Places(s, w) <= 1

\* Once an accepted request reached a source host's queue, every feeder of
\* that host eventually drops its socket to the retiring worker.
Unfed(w) == \A f \in Feeder : w \notin clients[f]
RetiringIsUnfed ==
    \A w \in Worker : (\E s \in SrcHost : InQueue(rpc[s], Unbind(w))) ~> Unfed(w)

\* ... and the callback of a host with one feeder eventually takes it out of
\* the pool.  With more feeders on the host, the single entry per call and the
\* decremented cbid lose callbacks.
RetiringLeaves ==
    \A w \in Worker :
        (\E s \in SrcHost : Cardinality(Feeders(s)) = 1 /\ InQueue(rpc[s], Unbind(w)))
            ~> w \notin pool

-----------------------------------------------------------------------------
(* What the source says of itself, and does not do. *)

\* koala_node.js:669 "if only one we don't want to kill it".
PoolNeverEmpty == pool # {}
=============================================================================
