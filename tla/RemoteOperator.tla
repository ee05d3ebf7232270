--------------------------- MODULE RemoteOperator ---------------------------
(***************************************************************************)
(* An operator on a browser peer (public/js/koala_bootloader.js,           *)
(* koala_remote.js, koala_remote_controller.js): messages that come from   *)
(* upstream go to a free Web Worker or wait in __message_pool; a worker    *)
(* says free when it is done; every second the controller of the page adds *)
(* a worker or deletes those it did not hear of; too long a queue puts the *)
(* upstream operators in slow mode.                                        *)
(*                                                                         *)
(* The page is one thread and every Web Worker another.  An action is one  *)
(* handler of either, but for the two loops that call delete_worker, which *)
(* take one action per round and keep the page busy meanwhile.  Messages   *)
(* are numbered in the order they come.                                    *)
(***************************************************************************)
EXTENDS Naturals, Sequences, FiniteSets, Functions

CONSTANTS
    Worker,         \* uids, in the order the root hands them out
    InitWorkers,    \* how many the operator starts with
    Upstream,       \* its in connections
    Concurrency,    \* controller.concurrency
    Trigger,        \* controller.slowModeTriggering
    Deactivate,     \* controller.slowModeDeactivation
    MaxMsg,         \* bound: messages that come
    MaxDeleted,     \* bound: workers the controller deletes
    MaxRemove,      \* bound: calls of remove_cluster
    MaxAdding,      \* bound: add_workers calls on their way
    MaxFree         \* bound: free messages on their way from a worker

ASSUME WorkerAssumption ==
    /\ IsFiniteSet(Worker) /\ Worker = 1..Cardinality(Worker)
    /\ InitWorkers \in 1..Cardinality(Worker)
ASSUME LimitAssumption ==
    /\ Upstream # {}
    /\ Trigger \in Nat /\ Deactivate \in Nat /\ Deactivate < Trigger
    /\ {Concurrency, MaxMsg, MaxDeleted, MaxRemove, MaxAdding} \subseteq Nat /\ MaxFree \in Nat \ {0}

VARIABLES
    exists,         \* operators[cid] is defined
    slots,          \* __workers, with what a deletion leaves behind
    live,           \* the keys of __workersID (and of workers)
    spawned,        \* the uids that were handed out
    worker_pool,    \* __worker_pool: a stack of workers thought free
    message_pool,   \* __message_pool
    lastUsed,       \* the keys of __workersLastUsed
    isSlowMode,     \* __isSlowMode
    adding,         \* add_workers calls to the root
    sweep,          \* what the loop of controller.run still has to delete
    removing,       \* where the loop of remove_cluster is; 0 when none runs
    removals,       \* how often it was called
    inbox,          \* messages to each Web Worker
    active,         \* activeCallbacks of each Web Worker
    free,           \* free messages on their way from each Web Worker
    command,        \* slow mode messages on their way to each upstream operator
    slowed,         \* upstream: our connection is in slowOut, not in out
    arrived,        \* history: how many messages came
    sent            \* history: the last message given to a worker

poolVars  == <<worker_pool, message_pool, arrived, sent>>
crewVars  == <<slots, live, spawned, adding>>
loopVars  == <<exists, sweep, removing, removals>>
slowVars  == <<isSlowMode, command, slowed>>
workVars  == <<inbox, active, free>>
vars == <<poolVars, crewVars, loopVars, slowVars, workVars, lastUsed>>

Hole == 0
ForceFree == 0

Init ==
    /\ exists = TRUE /\ sweep = {} /\ removing = 0 /\ removals = 0
    /\ slots = [i \in 1..InitWorkers |-> i]
    /\ live = 1..InitWorkers /\ spawned = 1..InitWorkers
    /\ worker_pool = <<>> /\ message_pool = <<>>
    /\ lastUsed = {} /\ adding = 0
    /\ isSlowMode = FALSE
    /\ inbox = [w \in Worker |-> IF w <= InitWorkers THEN <<ForceFree>> ELSE <<>>]
    /\ active = [w \in Worker |-> 0]
    /\ free = [w \in Worker |-> 0]
    /\ command = [u \in Upstream |-> <<>>]
    /\ slowed = [u \in Upstream |-> FALSE]
    /\ arrived = 0 /\ sent = 0

\* The page can take its next event.
Ready == exists /\ sweep = {} /\ removing = 0

-----------------------------------------------------------------------------
(* Messages, and slow mode. *)

\* trigger_slow_mode and deactivate_slow_mode.  The faulty version tells nobody.
SetQuietly(on) == isSlowMode' = on /\ UNCHANGED <<command, slowed>>
SetSlowMode(on) ==
    /\ isSlowMode' = on
    /\ command' = [u \in Upstream |-> Append(command[u], on)]
    /\ UNCHANGED slowed

MustWait == worker_pool = <<>> \/ message_pool # <<>>

\* The faulty version is late by a message.
OverLimit(n) == ~ isSlowMode /\ n > Trigger
Overfull(n) == ~ isSlowMode /\ n >= Trigger

\* push_message: to the last worker that became free, or to the queue.
Arrive ==
    LET m == arrived + 1
    IN  /\ Ready /\ arrived < MaxMsg
        /\ arrived' = m
        /\ IF MustWait
           THEN /\ message_pool' = Append(message_pool, m)
                /\ IF Overfull(Len(message_pool) + 1) THEN SetSlowMode(TRUE)
                                                      ELSE UNCHANGED slowVars
                /\ UNCHANGED <<worker_pool, sent, inbox>>
           ELSE LET w == worker_pool[Len(worker_pool)]
                IN  /\ worker_pool' = SubSeq(worker_pool, 1, Len(worker_pool) - 1)
                    /\ inbox' = [inbox EXCEPT ![w] = Append(@, m)]
                    /\ sent' = m
                    /\ UNCHANGED <<message_pool, slowVars>>
        /\ UNCHANGED <<crewVars, loopVars, active, free, lastUsed>>

\* The upstream operator moves our connection to slowOut, or back.
SlowMode(u) ==
    /\ command[u] # <<>>
    /\ command' = [command EXCEPT ![u] = Tail(@)]
    /\ slowed' = [slowed EXCEPT ![u] = Head(command[u])]
    /\ UNCHANGED <<poolVars, crewVars, loopVars, workVars, isSlowMode, lastUsed>>

Listed(w) == \E i \in DOMAIN worker_pool : worker_pool[i] = w

\* A faulty version, which leaves a queue when a worker has become free.
Drained == TRUE
NothingWaits == message_pool = <<>>

\* shift; the faulty version is pop.
Newest == message_pool[Len(message_pool)]
Oldest == Head(message_pool)

\* The page gets a free message: the oldest waiting message goes to the worker,
\* or the worker to the pool, once.
FreeMessage(w) ==
    /\ Ready /\ free[w] > 0
    /\ free' = [free EXCEPT ![w] = @ - 1]
    /\ lastUsed' = lastUsed \cup {w}
    /\ IF NothingWaits
       THEN /\ worker_pool' = IF Listed(w) THEN worker_pool ELSE Append(worker_pool, w)
            /\ UNCHANGED <<message_pool, sent, inbox, slowVars>>
       ELSE /\ message_pool' = Tail(message_pool)
            /\ inbox' = [inbox EXCEPT ![w] = Append(@, Oldest)]
            /\ sent' = Oldest
            /\ IF isSlowMode /\ Len(message_pool) - 1 <= Deactivate
               THEN SetSlowMode(FALSE) ELSE UNCHANGED slowVars
            /\ UNCHANGED worker_pool
    /\ UNCHANGED <<crewVars, loopVars, active, arrived>>

-----------------------------------------------------------------------------
(* The Web Workers. *)

\* done: free, unless a callback of the script is still to come.
Done(w, callbacks) ==
    /\ active' = [active EXCEPT ![w] = callbacks]
    /\ free' = IF callbacks = 0 THEN [free EXCEPT ![w] = @ + 1] ELSE free

\* A worker takes its next message: forcefree, or one for the script, which
\* returns, returns with a callback pending, or throws and never calls done.
Take(w) ==
    /\ w \in live /\ inbox[w] # <<>> /\ free[w] < MaxFree
    /\ inbox' = [inbox EXCEPT ![w] = Tail(@)]
    /\ \/ Head(inbox[w]) = ForceFree
          /\ free' = [free EXCEPT ![w] = @ + 1] /\ UNCHANGED active
       \/ Head(inbox[w]) # ForceFree
          /\ \/ \E more \in {0, 1} : Done(w, active[w] + more)
             \/ UNCHANGED <<active, free>>
    /\ UNCHANGED <<poolVars, crewVars, loopVars, slowVars, lastUsed>>

\* A callback returns (returnFunction).
Callback(w) ==
    /\ w \in live /\ active[w] > 0 /\ free[w] < MaxFree
    /\ Done(w, active[w] - 1)
    /\ UNCHANGED <<poolVars, crewVars, loopVars, slowVars, lastUsed, inbox>>

\* A function the script wrapped in makeCallback runs, on a timer of its own:
\* done is called once more.
Timer(w) ==
    /\ w \in live /\ ForceFree \notin Range(inbox[w]) /\ free[w] < MaxFree
    /\ Done(w, active[w])
    /\ UNCHANGED <<poolVars, crewVars, loopVars, slowVars, lastUsed, inbox>>

-----------------------------------------------------------------------------
(* The controller of the page, and the removal of the operator. *)

\* The faulty version goes through the workers there have ever been.
EverUnused == {w \in spawned : w \notin lastUsed}
Unused == {w \in live : w \notin lastUsed}

\* controller.run, every second.  The length of __workers counts what deletions
\* left behind.  With all the workers it can run, it only notes the overload.
Run ==
    /\ Ready
    /\ lastUsed' = {}
    /\ IF Len(message_pool) > 2
       THEN /\ IF Cardinality(live) < Concurrency
               THEN adding < MaxAdding /\ adding' = adding + 1
               ELSE UNCHANGED adding
            /\ UNCHANGED sweep
       ELSE /\ sweep' = IF Len(slots) # 1 THEN Unused ELSE {}
            /\ Cardinality((spawned \ live) \cup sweep') <= MaxDeleted
            /\ UNCHANGED adding
    /\ UNCHANGED <<poolVars, slowVars, workVars, slots, live, spawned, exists, removing, removals>>

\* The answer of the root to add_workers: run_worker with a fresh uid.
AddWorker(w) ==
    /\ Ready /\ adding > 0
    /\ w = Cardinality(spawned) + 1 /\ w \in Worker
    /\ adding' = adding - 1
    /\ spawned' = spawned \cup {w} /\ live' = live \cup {w}
    /\ slots' = Append(slots, w)
    /\ inbox' = [inbox EXCEPT ![w] = <<ForceFree>>]
    /\ UNCHANGED <<poolVars, loopVars, slowVars, active, free, lastUsed>>

\* splice(indexOf(w), 1): the last one, when w is not in the pool.  The faulty
\* version takes nothing out.
Untouched(w) == worker_pool
Spliced(w) ==
    LET at == IF Listed(w) THEN CHOOSE i \in DOMAIN worker_pool : worker_pool[i] = w
                           ELSE Len(worker_pool)
    IN  SubSeq(worker_pool, 1, at - 1) \o SubSeq(worker_pool, at + 1, Len(worker_pool))

\* delete_worker: the thread is terminated with all that was on its way to it and
\* from it.
DeleteWorker(w) ==
    /\ live' = live \ {w}
    /\ slots' = [i \in DOMAIN slots |-> IF slots[i] = w THEN Hole ELSE slots[i]]
    /\ worker_pool' = IF worker_pool = <<>> THEN <<>> ELSE Spliced(w)
    /\ inbox' = [inbox EXCEPT ![w] = <<>>]
    /\ active' = [active EXCEPT ![w] = 0]
    /\ free' = [free EXCEPT ![w] = 0]
    /\ UNCHANGED <<message_pool, arrived, sent, spawned, adding, slowVars, lastUsed, exists>>

SweepNext(w) ==
    /\ w \in sweep /\ \A v \in sweep : w <= v
    /\ sweep' = sweep \ {w}
    /\ DeleteWorker(w)
    /\ UNCHANGED <<removing, removals>>

\* remove_cluster deletes every entry of __workers.
Remove ==
    /\ Ready /\ removals < MaxRemove
    /\ removing' = 1 /\ removals' = removals + 1
    /\ UNCHANGED <<poolVars, crewVars, slowVars, workVars, lastUsed, exists, sweep>>

\* The faulty version stops one short.
AtLast == removing = Len(slots)
Finished == removing = Len(slots) + 1

RemoveNext ==
    /\ removing # 0 /\ ~ Finished /\ slots[removing] # Hole
    /\ removing' = removing + 1
    /\ DeleteWorker(slots[removing])
    /\ UNCHANGED <<sweep, removals>>

\* At what an earlier deletion left, delete_worker throws after its splice and
\* nothing more happens; at the end, the operator goes.
RemoveEnds ==
    /\ removing # 0
    /\ \/ /\ ~ Finished /\ slots[removing] = Hole
          /\ worker_pool' = IF worker_pool = <<>> THEN <<>> ELSE Spliced(Hole)
          /\ UNCHANGED exists
       \/ /\ Finished
          /\ exists' = FALSE
          /\ UNCHANGED worker_pool
    /\ removing' = 0
    /\ UNCHANGED <<message_pool, arrived, sent, crewVars, slowVars, workVars, lastUsed, sweep,
                   removals>>

-----------------------------------------------------------------------------
Next ==
    \/ Arrive \/ Run \/ Remove \/ RemoveNext \/ RemoveEnds
    \/ \E w \in Worker : \/ FreeMessage(w) \/ Take(w) \/ Callback(w) \/ Timer(w)
                          \/ AddWorker(w) \/ SweepNext(w)
    \/ \E u \in Upstream : SlowMode(u)

Spec == Init /\ [][Next]_vars

\* The page and the workers keep handling what they have, the interval keeps
\* firing and the root answers; nobody owes a message or a removal.
Fairness ==
    /\ WF_vars(Run) /\ WF_vars(RemoveNext) /\ WF_vars(RemoveEnds)
    /\ \A w \in Worker : /\ WF_vars(FreeMessage(w)) /\ WF_vars(Take(w)) /\ WF_vars(Callback(w))
                         /\ WF_vars(AddWorker(w)) /\ WF_vars(SweepNext(w))
FairSpec == Spec /\ Fairness
-----------------------------------------------------------------------------
(* Properties. *)

Message == 1..MaxMsg
TypeOK ==
    /\ exists \in BOOLEAN /\ isSlowMode \in BOOLEAN
    /\ slots \in Seq(Worker \cup {Hole})
    /\ live \subseteq spawned /\ spawned \subseteq Worker
    /\ sweep \subseteq live /\ lastUsed \subseteq spawned
    /\ removing \in 0..(Len(slots) + 1) /\ removals \in 0..MaxRemove
    /\ worker_pool \in Seq(Worker) /\ message_pool \in Seq(Message)
    /\ arrived \in Nat /\ sent \in Nat /\ adding \in 0..MaxAdding
    /\ inbox \in [Worker -> Seq(Message \cup {ForceFree})]
    /\ active \in [Worker -> Nat] /\ free \in [Worker -> Nat]
    /\ command \in [Upstream -> Seq(BOOLEAN)] /\ slowed \in [Upstream -> BOOLEAN]

\* Messages only wait while no worker is known to be free: a queue and a pool
\* that are both non-empty would keep growing, since push_message then always
\* queues (450) and free (1333) is the only one to take from the queue.
NoIdleWithBacklog == message_pool # <<>> => worker_pool = <<>>

\* The pool never holds a terminated worker, nor one twice: push_message would
\* give a message to nobody (458), or two at once.  delete_worker (784) takes
\* out the right one, or one too many, but never leaves the one it terminates.
PoolIsAlive ==
    /\ Range(worker_pool) \subseteq live
    /\ \A i, j \in DOMAIN worker_pool : worker_pool[i] = worker_pool[j] => i = j

\* Workers get the messages in the order they came, none twice and none left
\* out, whichever way each took (450-461, 1348-1349).
InOrder ==
    /\ sent + Len(message_pool) = arrived
    /\ \A i \in DOMAIN message_pool : message_pool[i] = sent + i

\* Slow mode follows the queue with hysteresis: it is on whenever the queue has
\* reached slowModeTriggering, until it is down to slowModeDeactivation.
SlowModeTracksBacklog ==
    /\ ~ isSlowMode => Len(message_pool) < Trigger
    /\ isSlowMode => Len(message_pool) > Deactivate

\* What an upstream operator believes, once it has handled what is on its way,
\* is what the page believes (2121-2141, 482-508).
UpstreamFollows ==
    \A u \in Upstream :
        isSlowMode = IF command[u] = <<>> THEN slowed[u] ELSE command[u][Len(command[u])]

\* A removed operator leaves no Web Worker running on the peer: remove_cluster
\* never gets as far as deleting the operator without deleting every worker.
RemovedLeavesNone == ~ exists => live = {}

\* A queue of more than two messages moves: messages are handed out again and again,
\* or the queue gets short again and again, unless the operator is being
\* removed, or the peer runs all the workers it can and none of them will ever
\* say free: its script threw, or a deletion took it out of the pool while it was
\* idle (785).
WillNotFree(w) == inbox[w] = <<>> /\ active[w] = 0 /\ free[w] = 0 /\ ~ Listed(w)
Stalled == Cardinality(live) >= Concurrency /\ \A w \in live : WillNotFree(w)
BacklogMoves ==
    \/ []<><<sent' # sent>>_vars
    \/ []<>(Len(message_pool) <= 2 \/ removals > 0 \/ Stalled)
=============================================================================
