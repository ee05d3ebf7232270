---------------------------- MODULE CollectRound ----------------------------
(***************************************************************************)
(* The collection rounds of a host (koala_node.js).  Every four seconds    *)
(* collect_data asks all workers of the host for their counters; each      *)
(* answer names the operator and the place of the worker in its pool, and  *)
(* data_collect_cb books it under whoever has that place by then.  Five    *)
(* seconds after the round began check_add_worker adds workers to the      *)
(* operators of those still marked as late.  Meanwhile workers are added   *)
(* and killed, operators removed, and the next round begins.               *)
(*                                                                         *)
(* The host and each worker are single-threaded: an action is one handler  *)
(* or timer, run to its end.  What data_analysis computes from a finished  *)
(* round reaches no one (its reader, buffer_check, is commented out), so   *)
(* a finished round is only counted.                                       *)
(***************************************************************************)
EXTENDS Naturals, Sequences, FiniteSets, SequencesExt

CONSTANTS
    Cid,        \* indices of the host's clusters array, 0 .. n-1
    Start,      \* the pool of each operator, or Gone where the array has a hole
    Producer,   \* the operators that are producers
    Gone,       \* clusters[cid] is undefined
    MaxUid,     \* bound: uids the root hands out
    MaxRound,   \* bound: collection rounds
    MaxKill     \* bound: workers killed and operators removed

Uid == 1..MaxUid
Round == 1..MaxRound
StartUids == UNION {Range(Start[c]) : c \in {c \in Cid : Start[c] # Gone}}

ASSUME StartAssumption ==
    /\ Cid = 0..(Cardinality(Cid) - 1) /\ Producer \subseteq Cid /\ Gone \notin Seq(Uid)
    /\ Start \in [Cid -> Seq(Uid) \cup {Gone}]
    /\ \A c \in Cid : Start[c] # Gone => IsInjective(Start[c])
    /\ \A c, d \in Cid : (c # d /\ Start[c] # Gone /\ Start[d] # Gone) =>
                              Range(Start[c]) \cap Range(Start[d]) = {}
    /\ StartUids = 1..Cardinality(StartUids)
ASSUME BoundAssumption ==
    MaxUid \in Nat /\ MaxRound \in Nat /\ MaxKill \in Nat

VARIABLES
    clusters,       \* cid -> workers, or Gone
    process_uid,    \* the next uid of the root
    adding,         \* cid -> add_worker calls whose uid is not back yet
    collect_index,  \* the last round
    collect_times,  \* round -> uid -> "false", "true", or "undefined"
    rcvd_index,     \* round -> answers so far, but for the last
    counter_array,  \* round -> workers asked
    ended,          \* round -> calls of its controller_cb
    timers,         \* rounds whose check_add_worker is still to come
    ipc,            \* uid -> data_collect commands
    answers,        \* uid -> data_collect answers
    kills,          \* workers killed and operators removed so far
    shifted,        \* history: [ci, cid] of the rounds in whose midst a worker was
                    \* killed, or the operator removed
    lost            \* history: rounds in whose midst an operator was removed

poolVars  == <<clusters, process_uid, adding, kills>>
roundVars == <<collect_index, counter_array, timers>>
bookVars  == <<collect_times, rcvd_index, ended>>
vars == <<poolVars, roundVars, bookVars, ipc, answers, shifted, lost>>

Here(c) == clusters[c] # Gone
Pool(c) == IF Here(c) THEN Range(clusters[c]) ELSE {}
\* What a worker of c still owes round ci.
Owes(w, ci, c) ==
    \E q \in {ipc[w], answers[w]} : \E i \in DOMAIN q : q[i].ci = ci /\ q[i].cid = c
Midst(c) == {ci \in Round : \E w \in Uid : Owes(w, ci, c)}

Init ==
    /\ clusters = Start
    /\ process_uid = Cardinality(StartUids) + 1
    /\ adding = [c \in Cid |-> 0]
    /\ collect_index = 0
    /\ collect_times = [ci \in Round |-> [w \in Uid |-> "undefined"]]
    /\ rcvd_index = [ci \in Round |-> 0]
    /\ counter_array = [ci \in Round |-> 0]
    /\ ended = [ci \in Round |-> 0]
    /\ timers = {}
    /\ ipc = [w \in Uid |-> <<>>]
    /\ answers = [w \in Uid |-> <<>>]
    /\ kills = 0
    /\ shifted = {}
    /\ lost = {}

-----------------------------------------------------------------------------
(* Rounds. *)

PlaceOf(w, ci) ==
    LET c == CHOOSE c \in Cid : w \in Pool(c)
    IN  [ci |-> ci, cid |-> c, index |-> CHOOSE i \in DOMAIN clusters[c] : clusters[c][i] = w]

\* collect_data: every worker is asked; those of producers are never late.
CollectData ==
    LET ci == collect_index + 1
        asked == UNION {Pool(c) : c \in Cid}
        watched == UNION {Pool(c) : c \in Cid \ Producer}
    IN  /\ collect_index < MaxRound
        /\ collect_index' = ci
        /\ counter_array' = [counter_array EXCEPT ![ci] = Cardinality(asked)]
        /\ collect_times' = [collect_times EXCEPT ![ci] =
               [w \in Uid |-> IF w \in watched THEN "false" ELSE "undefined"]]
        /\ timers' = timers \cup {ci}
        /\ ipc' = [w \in Uid |-> IF w \in asked THEN Append(ipc[w], PlaceOf(w, ci)) ELSE ipc[w]]
        /\ UNCHANGED <<poolVars, rcvd_index, ended, answers, shifted, lost>>

\* A worker answers data_collect; its counters are left out.
Answer(w) ==
    /\ ipc[w] # <<>>
    /\ ipc' = [ipc EXCEPT ![w] = Tail(@)]
    /\ answers' = [answers EXCEPT ![w] = Append(@, Head(ipc[w]))]
    /\ UNCHANGED <<poolVars, roundVars, bookVars, shifted, lost>>

\* clusters[cluster].workers[index].
Place(a) == a.index

\* The test for the last answer of a round; the faulty versions are one off.
OneBefore(ci) == rcvd_index[ci] + 2 = counter_array[ci]
OneAfter(ci) == rcvd_index[ci] = counter_array[ci]
LastAnswer(ci) == rcvd_index[ci] + 1 = counter_array[ci]

\* data_collect_cb: an operator that is gone is not counted, a place that is gone is.
DataCollectCb(w) ==
    LET a == Head(answers[w])
        booked == IF Place(a) \in DOMAIN clusters[a.cid] THEN {clusters[a.cid][Place(a)]} ELSE {}
    IN  /\ answers[w] # <<>>
        /\ answers' = [answers EXCEPT ![w] = Tail(@)]
        /\ IF Here(a.cid)
           THEN /\ collect_times' = [collect_times EXCEPT ![a.ci] =
                       [u \in Uid |-> IF u \in booked THEN "true" ELSE @[u]]]
                /\ IF LastAnswer(a.ci)
                   THEN ended' = [ended EXCEPT ![a.ci] = @ + 1] /\ UNCHANGED rcvd_index
                   ELSE rcvd_index' = [rcvd_index EXCEPT ![a.ci] = @ + 1] /\ UNCHANGED ended
           ELSE UNCHANGED bookVars
        /\ UNCHANGED <<poolVars, roundVars, ipc, shifted, lost>>

\* collect_times == false; the faulty version takes undefined for it.
NotTrue(ci, c) == {w \in Pool(c) : collect_times[ci][w] # "true"}
Late(ci, c) == {w \in Pool(c) : collect_times[ci][w] = "false"}

\* check_add_worker: for each late worker, if there is room and luck, add_worker.
CheckAddWorker(ci) ==
    /\ ci \in timers
    /\ timers' = timers \ {ci}
    /\ \E lucky \in SUBSET UNION {Late(ci, c) : c \in Cid} :
          adding' = [c \in Cid |-> adding[c] + Cardinality(lucky \cap Late(ci, c))]
    /\ UNCHANGED <<clusters, process_uid, kills, collect_index, counter_array, bookVars,
                   ipc, answers, shifted, lost>>

-----------------------------------------------------------------------------
(* The pools. *)

\* run_worker, called back by the root with a fresh uid: it makes the operator
\* anew if it was removed in the meantime.
RunWorker(c) ==
    /\ adding[c] > 0 /\ process_uid <= MaxUid
    /\ process_uid' = process_uid + 1
    /\ adding' = [adding EXCEPT ![c] = @ - 1]
    /\ clusters' = [clusters EXCEPT ![c] =
           IF Here(c) THEN Append(@, process_uid) ELSE <<process_uid>>]
    /\ UNCHANGED <<kills, roundVars, bookVars, ipc, answers, shifted, lost>>

Shift(c) == shifted' = shifted \cup {[ci |-> ci, cid |-> c] : ci \in Midst(c)}

\* kill_worker: those behind move up; the worker's process goes on answering.
KillWorker(c, pos) ==
    /\ Here(c) /\ pos \in DOMAIN clusters[c] /\ kills < MaxKill
    /\ kills' = kills + 1
    /\ clusters' = [clusters EXCEPT ![c] = RemoveAt(@, pos)]
    /\ Shift(c)
    /\ UNCHANGED <<lost, process_uid, adding, roundVars, bookVars, ipc, answers>>

\* remove_cluster, at the end of a migration.
RemoveCluster(c) ==
    /\ Here(c) /\ kills < MaxKill
    /\ kills' = kills + 1
    /\ clusters' = [clusters EXCEPT ![c] = Gone]
    /\ Shift(c)
    /\ lost' = lost \cup Midst(c)
    /\ UNCHANGED <<process_uid, adding, roundVars, bookVars, ipc, answers>>

-----------------------------------------------------------------------------
WorkerStep(w) == Answer(w) \/ DataCollectCb(w)
Next ==
    \/ CollectData
    \/ \E w \in Uid : WorkerStep(w)
    \/ \E ci \in Round : CheckAddWorker(ci)
    \/ \E c \in Cid : RunWorker(c) \/ RemoveCluster(c) \/ \E pos \in 1..MaxUid : KillWorker(c, pos)

Spec == Init /\ [][Next]_vars

\* The workers and the host keep taking their messages.
Fairness == \A w \in Uid : WF_vars(WorkerStep(w))
FairSpec == Spec /\ Fairness
-----------------------------------------------------------------------------
(* Properties. *)

Ask == [ci : Round, cid : Cid, index : 1..MaxUid]
TypeOK ==
    /\ \A c \in Cid : Here(c) => clusters[c] \in Seq(1..(process_uid - 1))
    /\ \A c, d \in Cid : c # d => Pool(c) \cap Pool(d) = {}
    /\ adding \in [Cid -> Nat] /\ collect_index \in 0..MaxRound
    /\ collect_times \in [Round -> [Uid -> {"true", "false", "undefined"}]]
    /\ \A ci \in Round : rcvd_index[ci] < counter_array[ci] \/ rcvd_index[ci] = 0
    /\ timers \subseteq 1..collect_index
    /\ ipc \in [Uid -> Seq(Ask)] /\ answers \in [Uid -> Seq(Ask)]

\* A round calls its controller_cb at most once, and only when nobody that was
\* asked still owes an answer, however workers are added, killed and removed.
RoundEndsLast ==
    \A ci \in Round : ended[ci] > 0 =>
        ended[ci] = 1 /\ \A w \in Uid, c \in Cid : ~ Owes(w, ci, c)

\* A worker that check_add_worker will take for late still owes its answer: one
\* born after the round began is not late, nor one whose answer came in time.
\* The exception is a pool that a kill shifted in the midst of the round: the
\* answers of those that moved up are booked under others.
LateOwes ==
    \A ci \in timers, c \in Cid : [ci |-> ci, cid |-> c] \notin shifted =>
        \A w \in Late(ci, c) : Owes(w, ci, c)

\* Every round with somebody to ask ends, unless an operator was removed in its
\* midst, whose answers are not counted.
RoundEnds ==
    \A ci \in Round : (counter_array[ci] > 0) ~>
        (ended[ci] = 1 \/ ci \in lost)
=============================================================================
