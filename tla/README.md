# A TLA+ model of Web Liquid Streams

Web Liquid Streams (WLS) runs streaming topologies over servers and browsers.
A *root* process knows every *peer* and every *operator*; a peer (a *host*, in
the code a koala node) runs operators as pools of *workers*; workers send
messages to the workers of the operators downstream. While the stream flows,
hosts add and remove workers, and the root moves operators between hosts.
These modules model how that is done, TLC checks them on small instances and
TLAPS proves their safety properties for every instance, some under a hypothesis named below.

## Inventory

Every process is a single-threaded JavaScript event loop. Root and hosts call
each other through dnode: functions passed as arguments become proxies, calls
on one connection arrive in order, and nothing is retried. A host never talks
to another host directly: it holds proxies the root forwards. A host and its
workers exchange `process.send` messages, in order. Workers talk to workers
over ZeroMQ, browsers over WebRTC or through a proxy.

| component | state | operations | hard part | correct when |
|---|---|---|---|---|
| **host, worker retirement** (`koala_node.js` 326-341, 644-705, 1038-1120, 1750-1847, 2182-2220; `koala.js` 1540-1660, 1766-1825) | `clusters[cid].workers`, `bindings`, `cbid`, `cbtable`; the worker's `clients`, `binded` | `run_worker`, graceful_kill, `unbind_cluster_process`, `bind_cluster_worker`, `kill_worker`, bind_node, unbind_node | one counter and one table for all callbacks, acknowledgements of several workers and several requests interleave, the pool is read long before it shrinks | only idle workers leave, the others keep their sockets and their stream, the pool is not emptied |
| **root, migration** (`k_root_commands.js` 857-940, 1350-1412, 1545-1588, 2020-2250, 3359-3373) | `clusters`, `topologies[0].bindings`, `cluster_id`, counters in closures | `migrate_cluster`, `run_operator`, `bind_operators`, `unbind_clusters`, `del` | a dozen calls to several hosts, each with its callback; bindings read before and used after; two migrations at a time | the graph the user built is kept, nothing upstream is cut, nothing stale is left |
| **host, binding mesh** (`koala_node.js` 1240-1245, 1524-1590, 1680-1870) | `bindings[cid].to/from` | `bind_cluster`, `notify_binding`, `get_workers`, `bind_cluster_worker`, `run_worker` | a worker born between `get_workers` and its answer, or retiring then | every worker of an operator is bound to every worker of its successors, and to no dead one |
| **root, registry and topology** (`k_root_commands.js` 120-330, 1200-1420, 2550-3374; `koala_root.js`) | node registry, `clusters`, uid and cid counters | register, `handle_end`, `nowjs_leave`, `add_*_callback`s | registrations overtake each other, a peer leaves in the middle of anything; ids taken by one party, counters advanced by another | every channel has one entry, no binding names what is gone |
| **worker, stream library** (`k_globals/koala.js` 103-106, 183-199, 292-322, 897-1480) | clients, balancing position, join buffer | `send`, bind and unbind set-up messages, joins, idleness | messages of several operators in any order, unbinding in the middle of a join | a join fires on one message of each operator and gives none twice |
| **host controller** (`controller/host_controller.js`, `PID.js`; `koala_node.js` 188-219, 2043-2166) | samples, `adding_workers`, rounds | `collect_data`, `data_collect_cb`, `check_add_worker`, `re_config` | rounds counted against a pool that changes; a timeout against late answers | a round ends once and when all have answered, only the late are taken for late |
| **root controller** (`controller/controller.js`, `local_controller.js`, `server_browser_controller.js`) | ranking of peers, measured values | rank, choose a peer, take over operators | measured values older than the decision | the chosen peer exists |
| **topology start** (`koala_root.js` 417-595, `k_root_commands.js` `find_host` 663-705, `run_operator`, `bind_operators`, `start_controller` 493-504) | counters of answers and of operators started | ask hosts, run, bind when all run, start the controllers | hosts come and leave while their answers are counted | each operator is started once, bound after all run, and the start ends |
| **proxy** (`koala_proxy.js`, `k_routing_table.js`) | routing table, connections, kept setups, place of the round robin | link, unlink, keep and give setups, route | a browser that is not connected yet, lists that change between two messages | a setup is given once and before the stream it announces, messages take turns among the receivers that are bound |
| **browser peers** (`public/js/koala_bootloader.js`, `koala_remote.js`, `koala_remote_controller.js`, `datachannel.js`) | pools of messages and Web Workers, slow mode | dispatch, slow mode, add and delete workers, remove the operator | asynchronous Web Workers, two limits, deletions that leave holes | no message waits while a worker is free, order is kept, the upstream operators are slow when and only when they must be |
| **shared state** (`cluster_storage.js`, `redis_storage.js`) | redis lists and maps | merged reads and writes | interleaved redis calls | sorted merge equals the sort of all |
| **REST API, console, launcher, CPU probe** | none of their own | translate requests to root commands | none | - |

`PROJECT.json` holds the same list with the status of each part, and the
hazards: the places where this code can go wrong and a unit test would hardly
reach, with the property that covers each.

## Modules

| module | models |
|---|---|
| `GracefulKill` | the worker pool of one operator on one host, while workers start, go idle and are removed, with the hosts and workers upstream |
| `MCGracefulKill` | finite instances of it |
| `HostProofs` | the safety of `GracefulKill` and of `Proxy`, two parts of a host that do not meet, proved |
| `StreamGraph` | abstract: the user's operator graph, and operators that move on request |
| `Migration` | `migrate_cluster` of the root and all it makes hosts and workers do; implements `StreamGraph` |
| `MigrationProofs` | the root, the hosts and the messages between them, and the refinement of `StreamGraph`, proved |
| `MigrationWorkerProofs` | the sockets and the commands of the workers during migrations, proved |
| `MCMigration` | finite instances of it |
| `RemoteOperator` | an operator on a browser peer: message pool, Web Workers, slow mode, the page's controller, removal |
| `RemoteOperatorProofs` | its safety, proved |
| `MCRemoteOperator` | finite instances of it |
| `Join` | a worker whose script called `createJoin`, and the workers upstream |
| `JoinProofs` | its safety, proved |
| `MCJoin` | finite instances of it |
| `Mesh` | two operators on two hosts: bindings made while both pools change |
| `MeshProofs` | its safety, proved |
| `MCMesh` | finite instances of it |
| `CollectRound` | the collection rounds of a host's controller, over pools that change |
| `CollectRoundProofs` | its safety, proved |
| `MCCollectRound` | a finite instance of it |
| `TopologyStart` | the registry of the root and the exec command |
| `MCTopologyStart` | a finite instance of it |
| `TopologyStartProofs` | its registry and the order of its start, proved |
| `Proxy` | the proxy of a host, between workers and browsers; `HostProofs` holds its proofs |
| `MCProxy` | finite instances of it |

### GracefulKill

`pool`, `spawned`, `bound`, `asked`, `pending` are the watched host and its
workers; `cbid` and `cbtable` belong to each upstream host; `clients` and
`binded` to each *feeder*, a worker of an upstream operator. The five queue
variables are the channels between them, in order except graceful_kill
messages, which come from different processes and are a set. The actions:
`Spawn` is `run_worker`; `Idle` is `compute_idleness` reaching `graceful_kill`;
`HandleGraceful` the host's handler; `SourceCall` runs
`unbind_cluster_process` or `bind_cluster_worker` on the upstream host;
`BindNode` and `UnbindNode` are the feeder's; `SourceReply` is `handle_ipc` on an
acknowledgement; `KillWorker` is the callback that runs `kill_worker`;
`BindDownstream`, `UnbindDownstream` turn on and off the worker's own `binded`,
without which idleness is not counted.

What the code makes worth knowing, and the model keeps: `cbid` is advanced once
per upstream worker and the callback is registered only at the last value; the
acknowledgement is matched with the host's current `cbid`, not with the one it
carries; the counter goes down after each callback; `unbind_node` clears
`binded` although clients are left; the worker ignores the kill command, so
that the process stays (it is only forgotten).

Left out: the feeders do not retire themselves; REST requests that go through
the same `cbtable` (1426-1450); browsers. (`done()` of koala.js:846, which sets
`binded`, has no effect: line 1104 redefines it as an empty function.)

### Migration

The root's closures (`indx`, the counters of the bind and unbind callbacks,
`cid_to_move`) are the record `mig[m]`. `down` and `up` are the connections of the
root with each host; a call from host to host is forwarded by the root
(`Forward`). An action per callback of the root (`Collected`, `Ran`, `Bound`,
`Unbound`, `Removed`), per function of the host and per command of the worker.
A handler that throws stops there: its callback is never called, which is how
`UnbindCluster` and `GotWorkers` can leave a migration half done. `Del` keeps
`splice(undefined, 1)`, which removes the first element. A loop of the code over a list of
bindings is one function of the list: `Picked` takes the elements at some places in their order,
`Handled` is the part of a list the loop gets through before it throws at a cluster that is
gone, `DelAll` and `ForgetAll` are the deletions one after another. Every call has a callback
of its own, so that an answer names the pair of operators it is about.

Abstracted: one node and one worker per operator, named by its cid; `from_nodes`
is a set, the code's list may repeat a node (`notify_binding`'s test never
finds one, koala_node.js:1863). The browser branches of `migrate_cluster` and
`migrate_cluster_options` are left out.

`StreamGraph` promises that the edges between the user's operators never
change and that an operator changes place only when it was asked to, to where it
was asked, in one step. `Migration` implements it (`KeepsGraph`, a refinement
through `origin`, which maps a cid to the operator it is an incarnation of),
when migrations do not overlap.

### RemoteOperator

A page is one thread, each Web Worker another. `worker_pool` and `message_pool`
are the code's; `slots` is `__workers`, in which a deletion leaves `undefined`
(`Hole`); `inbox` and `free` are the port of each worker, one counter for the
identical free messages. `Arrive` is `push_message`, `FreeMessage` the page's
handler of free; `Take`, `Callback` and `Timer` are the worker's handlers, each of
which ends in `done` or, when the script throws, does not. `Run` is the page's
controller, whose deletions (`SweepNext`) and those of `remove_cluster`
(`RemoveNext`, `RemoveEnds`) are one action each; nothing else happens on the
page between them, while the workers go on. What the model keeps: `delete_worker`
splices at -1 when the worker is not in the pool, so that an idle one is taken
out for good; `__workers.length` never shrinks; `remove_cluster` throws at a hole
and never calls back.

Abstracted: one operator on the page; its connections do not change; uids are
handed out in order and never again; terminating a Web Worker discards what is
on its way to and from it, as browsers do. Producers, joins (see `Join`), charts
and the move to another peer when all workers are busy (`onCPU`) are left out.

### Join

`inConnections`, `inMessages` and `cbOrdering` are the join worker's. Every bind of a worker upstream
makes a socket (`sockets`), numbered by `binds`, and `wire` is what each socket holds. `BindNode` and
`UnbindNode` are the halves of bind_node and unbind_node that send set-up messages: a worker may be bound
while it has a socket, unbound and bound again while the old socket still holds the unbind message, and
unbound with several sockets, of which the loop passes over the second of two in a row (`PassedOver`).
`Send` is a message of a balancing protocol (`send_LB` alone names its operator, see `Tagged`; a message
JavaScript takes for false is `Missing`), and `Receive*` are the branches of the join worker's
message handler, in which `JSON` is left out. No operator is limited to one worker.

What the model keeps: the join knows operators, not workers, so that the unbind of any socket makes it
forget the whole operator (koala.js:196), and the unbind message of an operator already forgotten splices
at -1 and takes the last operator out of `cbOrdering` (197), though it is connected and stays so. `crowded` remembers the operators
that were bound while another socket of theirs was open or not empty. For the others `KnowsOperators` holds; while
there are none, so do the second half of `OrderIsConnected` (an operator connected has a place) and `JoinIsWhole`. The first half of
`OrderIsConnected` (a place is that of an operator connected, and no two are) and `NeverAgain` need no such condition.

Abstracted: `Send` is possible whether `binded` is set or not, since the worker's other bindings,
which are not modelled, set and clear that flag too.

### Mesh

`Mesh` looks at the binding that `Migration` takes for one call. `BindCluster`
tells B's host of the binding (`notify_binding`) and asks for its workers
(`get_workers`), in this order and over one channel; `GotWorkers` is the callback,
which sends a bind_node for each pair. A worker born on A's side (`RunWorkerA`) asks
B's host itself, in a callback that throws (`GotWorkersNewborn`); one born on B's side
(`RunWorkerB`) has every entry of `from` bind it (`bind_cluster_worker`), and one
that retires has every entry unbind it (`GracefulKill`, `KillWorker`). `to` and `from` are the
lengths of the two lists of nodes, which name the same node several times.
`Removed` is unbind_node's loop, which leaves the second of two equal sockets in a row.

Abstracted: which request `kill_worker` answers is the matter of `GracefulKill`;
here it comes at any time after A's host was asked. The protocol of a binding,
which `bind_cluster_worker` forgets (koala_node.js:1689, koala.js:1556), is left out.

### CollectRound

`CollectData` is a round: `ipc` gets a data_collect for every worker, with its place in
its pool; `Answer` is the worker's, `DataCollectCb` the host's, which books an
answer under whoever has that place by then and counts it, unless the operator is
gone. `CheckAddWorker` is the timer, `RunWorker` the end of the add_worker calls it
makes, with a uid of the root; `KillWorker` and `RemoveCluster` change the pools
meanwhile. A killed worker goes on answering, because the body of the worker's kill command is
commented out (koala.js:1517). `shifted` and `lost` remember the rounds in
whose midst a pool shifted or an operator went.

Abstracted: the readings, since what `data_analysis` makes of them reaches
nobody; the luck and the room `add_worker` needs (any subset of the late).

### TopologyStart

`node_uid`, `nodes`, `length` are the root's list of nodes, `pending` the
registrations whose connection back is not open yet (`ConnectBack`). `Exec` asks
every host once per operator; `PeerStep` is a peer taking a call, `Usage` the callback of
`find_host`, `Ran` that of `run_operator` with the barrier, `BoundCb` that of
`bind_operators`, which starts the controllers. `LoseHost` is `handle_end`: the host registers again
and its old entry stays. `NowjsLeave` takes out a browser's entry, but not
its place in the array.

What the model keeps: `cpu_usage` always answers 0 (koala_node.js:814), so that the
first host to answer gets every operator; `find_host` compares its counter with the length the
list has by then; the loop over the bindings ends at the first operator that is
gone, because `bind_operators` throws; `start_controller`, whose comment says it comes "after all
the setup has been done" (`k_root_commands.js:488`), comes at the callback of
each binding, and throws at a hole of the list.

Abstracted: workers and sockets (see `Mesh`); operators that ask for sensors; the ranking,
which may name any peer but the first.

### Proxy

`table` is the routing table and `CT` the connections. Both are keyed by uids of workers and by cids of operators
in browsers alike; the root counts both from 0, and in the model a key may be both, as in the code. `setupQueue`
holds the setups kept for each browser. `NewRt`, `NewRtBack` with `NewConn`, and `DelRt` come from the host, `Setup` and
`Message` from the workers over ZeroMQ, `WsSetup`, `WsMessage`, `SlowMode` and `WsClose` from browsers.

What the model keeps: `link` adds a route that is there already; del_rt names the operators' cids, while a route is
keyed by the worker's uid, so that it seldom finds one, and a binding made again adds the route once more; `unlink`
passes over every second of several equal routes in a row (`Unlinked`). A message is sent only to a web
socket that is open: one whose turn is a ZeroMQ connection's, a closed socket's or nobody's is lost. No connection has the `.in`
that `Setup` looks for, so that a setup is kept even when the socket is open, and leaves when the browser sends
again; `Setup` takes the sender's cid for a key of the table, and throws for a
route whose receiver is not in `CT`; a closed socket stays in `CT`, and slow mode stays on.

Abstracted: a worker sends its setup once, at its first binding through the
proxy (it reuses the connection). What the proxy sends to workers, `sendTo`, and the forwarded
unbind messages are left out.

## Runs

| run | asks | result |
|---|---|---|
| `gk_pool` | three feeders, two on one upstream host, fair: who leaves, who keeps its sockets, one answer per request, and is a removal asked of a host with one feeder carried out | holds |
| `gk_empty` | "if only one we don't want to kill it" | two requests at once empty the pool |
| `mig_triangle` | two migrations in turn, any operator to any host, fair: graph, bindings, sockets, and the end of a migration whose neighbours are on the old node | holds |
| `mig_twice` | two migrations at a time keep the topology | a binding is lost |
| `remote_pool` | a browser operator, fair: order, no idle worker with a backlog, slow mode on both sides, removal, and does a queue of three move, with scripts that threw before it grew and with the last worker deleted | holds |
| `join_stream` | two operators bound, unbound, bound again, sockets in any number and order: does the join know them, give no message twice, and one of each when the cids are 0, 1, ... | holds |
| `mesh_pools` | two bindings, births on the downstream side, retirements, fair: who was there is fed, sockets are as many as calls explain, none is left to the dead | holds |
| `mesh_newborn` | a worker added upstream "knows where it has to be binded" | it is never bound |
| `collect_host` | two overlapping rounds, a birth and a kill or removal, fair: a round ends once and last, only who owes an answer is late | holds |
| `root_start` | two hosts and a browser that come, leave and come back, three operators, fair: one entry each, one start each, bound after all ran, the start ends, the hosts collect | holds |
| `proxy_pair` | two workers, two browsers, routes made, left, and made again: setups given once, those kept for a browser's setup with that, places within bounds, messages in turns | holds |
| `proxy_alive` | "check if the message for the in connection arrived yet..." | the check throws and the proxy ends |

Bounds, and why they are enough. Two workers are needed for two removals that
cross, a third for one that is born meanwhile; two feeders on one host for
acknowledgements that share a counter. A triangle is the smallest graph in which
an operator has predecessor and successor and the two are bound to each other;
two migrations make the second meet what the first left. Slow mode
needs two limits apart (4 and 0), the page's controller a queue of three. In `remote_pool` two deletions take both workers
there are at the start and two births replace them, the operator is removed, and a fourth message lets one be
handed out, to a script that throws, before three wait. A join needs two
operators, and a second bind to meet what an unbind left: two sockets of one worker, or one that is not empty yet. Two workers of one operator are to the join
what two sockets of one worker are. In `Mesh` a second
binding makes the lists repeat a node, and a worker of each operator is born. In
`CollectRound` an operator of two has a place to shift, a producer is never late,
and the second round starts while the first is open. In `TopologyStart` four
registrations let both hosts and the browser come and one come back, and three
operators make a line with a middle. In `Proxy` operator 0 has the workers 0 and 1, and operators 1 and 4 are in browsers: one worker has the number
of its operator, the other that of a browser's, and one browser's is of nobody else. `MaxLink` bounds the
routes made: with two, one worker has both browsers to choose from, or one of them twice, because an unbind in between found no
route. Three messages go twice round a list of one and run off the end of a list of two.

`CHECK_DEADLOCK FALSE` appears where the system may stop: everybody retired, no
worker left to start, all migrations over or blocked, every message handled, the proxy
gone. No run uses symmetry.

Fairness: every event loop keeps handling the messages it has, each handler of
its own queue, so weak fairness per queue. Nobody owes the system an idle
worker, a new worker, a binding, a message, a removal, a registration or a migration: those
actions have none. In `RemoteOperator` the page's one second interval (`Run`) keeps
firing, Web Workers run, and the root answers `add_workers`; a script's own
timers (`Timer`) owe nothing.

Some properties have exceptions, each of which is what the code does.
`RetiringLeaves` speaks of hosts with one feeder: with two, one
call registers one callback for two acknowledgements, requests overtake each
other in the table and callbacks are lost. `BacklogMoves` excepts a peer that runs
as many workers as it can and none of which will say free: `Stalled` is where
scripts that throw, and deletions that take an idle worker out of the pool, can
lead. `NearMigrationEnds` needs the
neighbours on the old node, because `unbind_cluster` looks for both operators
in the clusters of one host. `NoWorkerMissed` is about the workers of A that were there when a
binding was answered; a newborn is the matter of `NewbornIsBound`. `DeadAreUnbound` excepts the workers of
B whose birth or retirement a binding crossed. `LateOwes` excepts pools
that a kill shifted in the round, `RoundEnds` rounds that an operator left,
whose answers are not counted. `StartEnds` excepts the cases in which `find_host` never
calls back (no host, a list that grew, a dead entry that will not answer), and operators for browsers
that found no peer or lost it; `HostsCollect` holes and dead entries of the list. `KnowsOperators`, `JoinIsWhole` and half of `OrderIsConnected`
except the operators that are `crowded`, and `TakesTurns` a list in which a receiver is there twice: a
route made again after an unbind that did not find it gets two turns.

Where the code falls short of its own comments outside these runs, the models have what it does, and the properties
stop short of it:

- `unbind_node` clears `binded` with the first client it removes (koala.js:1654) and `send` then returns at once
  (930): when one of two workers downstream retires, the stream to the other stops until the next bind. `isBound` (513-517) is
  meant to say whether "there is a binding from this node to somebody else". `BusyKeepSockets` is therefore about sockets.
- The unbind message of one of two workers of an operator, or of one of two sockets of a worker, makes a join forget the
  operator, and a second one takes another's place (koala.js:196-197), for all the "check to avoid doing double the thing"
  (186): the exceptions called `crowded`.
- A setup for a browser whose own setup came already is kept, because no connection has the `.in` that
  koala_proxy.js:127 looks for, and stays until the browser sends again, while the stream it announces goes to the open
  socket; the check "with every message" (100-102) is there to keep messages from "never leaving the setupqueue array".
  `SetupOnce` speaks of the setups that come before the browser's own.
- Routes are made under uids and taken out by cids (koala_node.js:1668), and both are keys of one table: an unbound operator's
  workers keep routes to a browser, and a worker's messages may take turns to the receivers of an operator in a browser
  with its number. `TakesTurns` is about what is in the table.

## What is proved

`HostProofs` proves of `GracefulKill`, for any set of workers, any initial pool, any
hosts and any finite number of feeders on each: `TypeCorrect`, `InFlightSafe`,
`PoolSafe`, `RequesterFound` (the handler of graceful_kill always finds its sender in the pool, a consequence
of `OnlyIdleLeave`), `SocketsKept`. Assumptions: `PoolAssumption` (the pool
starts non-empty, of known workers) and `FeederAssumption` (feeders are finite,
each runs on an upstream host and each host has one).

`PoolSafe` says that `kill_worker` only takes workers that asked. It is not
inductive: the victim comes out of `back`, which was filled from `cbtable`, which
was filled from `rpc`. So the invariant follows the removal through all the
places it passes (`OnlyRequestedInFlight`: calls, table, callbacks, commands,
acknowledgements), each of which concerns a worker whose graceful_kill has been
handled. The table's matching may be wrong, but it only permutes requests, and
every request in it was asked for: this is why the confused counter cannot
remove a busy worker. `SocketsKept` rests on the same facts: an unbind on its way
to a feeder is never for a worker that did not ask, so it takes no socket of
one that works. It says nothing of the stream through those sockets, which does stop: see below. The inductive invariant is the conjunction of `TypeOK`, `Slots`
(what the entries of `cbtable` are), `OnlyRequestedInFlight`, `OnlyIdleLeave`,
`RequesterInPool` and `BusyKeepSockets`; one lemma per action and conjunct.

`RemoteOperatorProofs` proves every invariant that `remote_pool` checks,
for any number of workers and upstream operators, any limits and any number of
messages, from `WorkerAssumption` (uids are numbered from 1, the operator starts
with one) and `LimitAssumption` (some upstream operator; the two limits of slow
mode in their order). Types and `PoolIsAlive` need each other: a message goes to
the worker at the top of the pool, which must be live for `NothingFromDead` to
stay true, and a worker enters the pool when its free message comes, which only
a live worker has on its way. `SplicedPool` is what `splice(indexOf(w), 1)` does,
the case of -1 included. `RemovedLeavesNone` is strengthened by `Entered`: every
live worker has an entry in `__workers` the loop has yet to reach; holes can only
stop the loop, never make it pass a worker. The queue's invariants and those of
the upstream operators are inductive once the types are known.

`AnsweredOnce` proves `AnsweredAtMostOnce` in `HostProofs`: a request to retire is, for each
upstream host, in one place (`OnePlaceEach`: the call of `unbind_cluster_process`, the table, or the
callbacks on their way back).

`TopologyStartProofs` proves `OneEntryEach` (`EntriesSafe`) for any peers, from
`TopologyAssumption`. It needs that an id not handed out is of no one (`Fresh`),
that a host has at most one registration on its way (`OnePending`), and none
while a channel to it works (`PendingIsNew`): then the entry that `ConnectBack` fills is
empty and names nobody who is listed under a live id. The start of a topology leaves all of
this alone. It is two counts: the answers `find_host` has counted and those to come are no
more than the nodes it asked (`Tally`), so that it calls back at most once; the replies
of `run_operator` that were counted are those of operators that run and whose reply is no longer to come
(`Counted`), so that the barrier does not open before the last one runs. With them `StartInvariance`,
`StartTypeCorrect` (`TypeOK`) and `StartsInOrder` (`BoundAfterRun`) hold whatever peers come and
go in the meantime.

Of `Proxy`, `HostProofs` proves `SetupOnce` (`SetupsSafe`) for any workers and browsers, whatever uids and cids
coincide: `KeyAssumption` only says that `None` is no key and that the bounds are numbers. A setup is in one place: not sent (`SentFirst`), kept once (`KeptOnce`,
`KeptOrGiven`), or given; so that a flush, which gives one for every place a worker has in the
queue, gives one. `EarlyIsKept` says that an early one waits until the browser's own setup
comes, and is given from then on; it needs that open sockets are those of browsers that were met. `TInv` adds the
bound of the lists of routes, which `Unlinked` only shortens (`ListedShape`: what is listed of a sequence is a sequence no longer than it),
and that a worker's last message took the place before the one kept for it; hence `ProxyTypeCorrect`
(`ProxyTypeOK`) and the action property `TakesTurns` (`MessagesTakeTurns`). Routes may be there twice, and a pool in
which they are is what `TakesTurns` leaves out.

`CollectRoundProofs` proves `TypeOK`, `RoundEndsLast` and `LateOwes`, for any pools and any
number of rounds. A worker owes a round at most one answer, which is in one place (`OneAsk`); what
is counted and what is owed are together no more than the workers asked (`Counted`), so that the answer
that makes them equal is the last. As long as no kill shifts the pool, the place an answer names
is that of the worker who was asked (`Places`), so that the answer is booked under itself, and who is
not booked owes one.

`JoinProofs` proves `KnowsOperators`, `OrderIsConnected`, `NeverAgain` and `JoinIsWhole` for any
operators, any number of workers of each, and any number of binds and messages, from `JoinAssumption` (cids are numbers and finitely many, every worker has an operator).
The invariant `JInv` has two parts that hold whatever overlaps: a socket never bound is empty (`Unused`), and the messages of each socket are
numbered upwards, above the last one given (`Numbers`). Only for an operator that is not `crowded` does `Shapes` say more: at most one of its
sockets is live, with its bind message only in front and its unbind message only at the end, once it is closed, so that what the
join knows of the operator is what that socket has told. `Ordered` relates `cbOrdering` to what the join knows. Of a
crowded operator nothing of the kind is claimed, for it would be false.

`MeshProofs` proves `NoWorkerMissed`, `SocketsPerBind` and `DeadAreUnbound` for any workers and any number of
binds, by counting. A bind is told, asked, answered and called back (`Tally`, with `Together`: the two calls of
`bind_cluster` stay side by side). What is or will be a socket from one worker to another is in one of
three queues: the worker's sockets, its commands, the answers on their way (`Supply`), and no more than the binds there are (`Pairs`). A worker of B that works
and is not in an answer is told of behind it (`ToldIn`), so that nobody there at a bind is missed. What will remove
sockets (`Owed`) is as much as the supply when a worker retires, and comes behind it in every queue
(`InOrder`), so that when all is handled nothing is left to the dead.

`MigrationProofs` proves `NoDanglingBinding` (`NoDangling`) and the refinement of `StreamGraph`
(`GraphKept`) for any topology, any operators and hosts and any number of migrations, under the
hypothesis `Overlap = "none"`. The hypothesis is what the code needs: two migrations of
neighbours lose a binding (`mig_twice`), and nothing in `migrate_cluster` keeps them apart. The invariant
`CoreInv` (`MigrationInvariance`) has four parts. The root's own (`RootInv`): migrations go in turn and take one cid each
(`InTurn`), every operator of the user has one incarnation, or two while its migration has both (`Alive`),
bindings are there once, name operators that are there and are the user's edges (`Linked`), and in
each phase the lists `migrate_cluster` keeps are the bindings they are meant to be (`Recorded`). The
messages (`ChannelInv`): a call and its answers have one label, which is on its way once (`Once`), and
speak of the migration in its phase (`Addressed`); so the answers counted and those to come are
no more than the pairs to bind or to unbind (`BindsCounted`, `UnbindsCounted`), and the counter
reaches its number with the last answer, when nothing is on its way but unbinds of workers. The hosts (`Hosted`, `Entered`): an operator is on its host with
a worker from the answer of `run_cluster` to the call of `remove_cluster`, so that no host finds an operator
missing; a host's entry for a binding names the node where its source is. The order (`Asked`, `OneUnbind`):
a host is told of a binding before it is asked for its workers, and unbinds no pair twice. A step of
a host or worker leaves the graph as it is; of the root's, `Migrate` is `Ask`, `Removed` is `Move`, and the others stutter,
`Collected` because the new incarnation has the greater cid.

`MigrationWorkerProofs` proves the two promises about the workers, `UpstreamNeverCut` (`NeverCutOff`) and
`SocketsAreBindings` (`QuietSockets`), for any topology, operators, hosts and number of migrations, again
under `Overlap = "none"`. Neither is inductive: a command for a worker passes the root twice
and two hosts before it is in the worker's queue, and the unbind of a worker is waited for by nobody. The invariant
`WorkerInv` stands on `CoreInv` and has five parts (`WorkerInvariance`).

- `Fed`: no call, message or command on its way unbinds a pair of operators the root has bound;
  a binding has its socket or the `bind_node` for it from the moment its migration has left the
  phase "bind" on, and until then that, or a message of `bind_cluster`.
- `NeverCut`: after any number of the commands in its queue, the worker of an operator the user
  started has a socket to an incarnation of each operator it is bound to. When the unbind for an old one
  comes into the queue, `Fed` says that the bind for the new one is carried out or in
  front of it.
- `Told`: the node of `to` has noted every binding before the root unbinds one, so that
  `unbind_cluster` finds whom to call.
- `Ahead`: the unbind of a worker is on its way before the answer of its `unbind_cluster` and reaches the host
  before `remove_cluster`, so that the worker's host still has the operator.
- `NoMore`: a socket, or a bind on its way to the worker, that is no binding's has its unbind
  on its way, or its migration is in the phase "unbind". In that phase each of the dropped pairs is being unbound,
  unless an `unbind_cluster` threw: then the answers counted and those to come are fewer than the pairs (`Lost`)
  and the migration never ends. In the last unbind's answer the count shows that none was lost. In a worker's queue
  the unbind for an operator is behind its binds (`BindsFirst`).

`SocketsAreBindings` follows because a quiet state has no migration in a phase and no message: what `NoMore` leaves
are the bindings, and what `Fed` promises is there. A migration whose unbind threw stays busy, so that
such a state is not quiet: that it leaves a removed operator's sockets is no contradiction.

What the runs with findings refute is only model-checked.
Out of the prover's reach: the liveness properties (`RetiringLeaves`, `BornIsFed`, `BacklogMoves`,
`RetiringIsUnfed`, `NearMigrationEnds`, `RoundEnds`, `StartEnds`, `HostsCollect`).

## Not modelled

- `re_config` and the PID controller of the host: `buffer_check`, the interval that would call them, is
  commented out, so that the flag `adding_workers` and the numeric policy
  are never used. Scaling by `check_add_worker` is in `CollectRound`.
- Which client `send` chooses, and multicast: the models stop at the sockets.
- The ranking of peers by CPU, battery and ping, and the sensors `find_host` asks
  for: arithmetic on measurements. `TopologyStart` takes any peer.
- `add_operator` and the other calls of a worker's script, which chooses ids itself.
- The REST API's deletion of a peer, which takes an element out of the list of nodes
  and moves those behind it under other ids, and the restart of the root,
  which counts ids from 0 again: neither is followed by anything that could put it right, so
  that a property would only describe the damage.
- Redis, the console, file watching, the CPU probe, and the vendored libraries
  of the browser pages.
- The browser side of bindings: signalling and data channels are the browser's.

## Plan

Parts left out for good are listed above. Every safety invariant, every action property and the refinement
that a passing run checks has its theorem; the liveness properties stay with TLC.
