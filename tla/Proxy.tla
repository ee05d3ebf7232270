-------------------------------- MODULE Proxy --------------------------------
(***************************************************************************)
(* The proxy of a host (koala_proxy.js, k_routing_table.js), between its   *)
(* workers, whose messages come over ZeroMQ, and browsers, which come over *)
(* web sockets.  The host links and unlinks the two over a third channel.  *)
(* The first binding of a worker through the proxy makes it send a setup   *)
(* message, which the proxy keeps for a browser whose socket is not set up *)
(* yet.                                                                    *)
(*                                                                         *)
(* The table of routes and the list of connections have one key for a      *)
(* worker, its uid, and for an operator in a browser, its cid.  The root   *)
(* counts both from 0, so that a key may be both.  The proxy is            *)
(* single-threaded: an action is the whole handler of one message, and the *)
(* messages of different channels come in any order.  What the proxy sends *)
(* to the workers, and messages to one alias (sendTo), are not modelled.   *)
(***************************************************************************)
EXTENDS Naturals, Sequences, FiniteSets, SequencesExt

CONSTANTS
    Sender,     \* workers of this host bound to browsers, by uid
    OpOf,       \* worker -> the cid of its operator
    Web,        \* operators in browsers, by cid
    None,       \* undefined
    MaxLink,    \* bound: routes made
    MaxMsg      \* bound: messages of the stream, of slow mode, and closed sockets

Key == Sender \cup {OpOf[w] : w \in Sender} \cup Web

ASSUME KeyAssumption == None \notin Key /\ MaxLink \in Nat \ {0} /\ MaxMsg \in Nat

VARIABLES
    table,      \* RT: key -> connections
    CT,         \* key -> its connection: "none", "zmq" to a worker, "ws" to a browser
    links,      \* how many routes were made
    connecting, \* workers whose new_conn follows their new_rt
    setupQueue, \* web -> setups kept, by their senders
    lastSent,   \* worker -> place in the pool
    isSlowMode, \* key -> BOOLEAN
    alive,      \* no handler threw: the proxy has no one to catch it
    hello,      \* worker -> the receiver its setup names, or None
    open,       \* browsers whose socket is open
    count,      \* messages so far
    met,        \* history: browsers whose own setup came
    given,      \* history: <<worker, web>> -> its setups given to the browser
    early,      \* history: the <<worker, web>> whose setup was kept before web was met
    turn        \* history: worker -> [at, pool] of its last message, which went to pool[at]

routeVars == <<table, links, connecting>>
stateVars == <<CT, setupQueue, lastSent, isSlowMode, alive, hello, open, count>>
pastVars == <<met, given, early, turn>>
proxyVars == <<routeVars, stateVars, pastVars>>

ProxyInit ==
    /\ table = [k \in Key |-> <<>>]
    /\ CT = [k \in Key |-> "none"] /\ connecting = {} /\ links = 0
    /\ setupQueue = [r \in Web |-> <<>>]
    /\ lastSent = [w \in Sender |-> 1]
    /\ isSlowMode = [k \in Key |-> FALSE]
    /\ alive = TRUE
    /\ hello = [w \in Sender |-> None]
    /\ open = {} /\ met = {}
    /\ count = 0
    /\ given = [p \in Sender \X Web |-> 0]
    /\ early = {}
    /\ turn = [w \in Sender |-> [at |-> 1, pool |-> <<>>]]

-----------------------------------------------------------------------------
(* From the host: routes. *)

\* Of q the places in S, in their order.
Upto(S, i) == {j \in S : j <= i}
Listed(q, S) ==
    [n \in 1..Cardinality(S) |-> q[CHOOSE i \in S : Cardinality(Upto(S, i)) = n]]

\* new_rt adds a route, also one that is there.
Link(from, to) ==
    /\ alive /\ links < MaxLink
    /\ links' = links + 1
    /\ table' = [table EXCEPT ![from] = Append(@, to)]
    /\ UNCHANGED <<stateVars, pastVars>>

\* bind_cluster: from a worker to an operator in a browser.
NewRt(w, r) == Link(w, r) /\ UNCHANGED connecting

\* incoming_connection_remote: from an operator in a browser to a worker, whose
\* connection is to follow.
NewRtBack(r, w) == Link(r, w) /\ connecting' = connecting \cup {w}

\* new_conn
NewConn(w) ==
    /\ alive /\ w \in connecting
    /\ connecting' = connecting \ {w}
    /\ CT' = [CT EXCEPT ![w] = "zmq"]
    /\ UNCHANGED <<table, links, setupQueue, lastSent, isSlowMode, alive, hello, open, count, pastVars>>

\* unlink counts on while it takes out: of routes to one receiver in a row it passes
\* over every second.
Unlinked(q, to) ==
    LET taken[i \in 0..Len(q)] == i # 0 /\ q[i] = to /\ ~ taken[i - 1]
    IN  Listed(q, {i \in DOMAIN q : ~ taken[i]})

\* del_rt names the two operators, though a route is that of a worker.
DelRt(from, to) ==
    /\ alive
    /\ table' = [table EXCEPT ![from] = Unlinked(@, to)]
    /\ UNCHANGED <<links, connecting, stateVars, pastVars>>

-----------------------------------------------------------------------------
(* From the workers. *)

\* The setups kept for r; the faulty version keeps the last.
KeptLast(r, w) == <<w>>
Kept(r, w) == Append(setupQueue[r], w)

\* A setup for r.  Its operator's cid is taken for a key of the table, and .in,
\* which no connection has, for that of a connection: where there is none the
\* handler throws.  One that finds an older setup is dropped, any other is kept.
Routed(w) == table[OpOf[w]]
Blocking(w) == SelectSeq(Routed(w), LAMBDA k : k \in Web /\ setupQueue[k] # <<>>)
Throws(w, r) ==
    IF Blocking(w) # <<>> THEN CT[Head(Blocking(w))] = "none"
    ELSE r \in Range(Routed(w)) /\ CT[r] = "none"

Setup(w, r) ==
    /\ alive /\ hello[w] = None
    /\ hello' = [hello EXCEPT ![w] = r]
    /\ alive' = ~ Throws(w, r)
    /\ IF Throws(w, r) \/ Blocking(w) # <<>>
       THEN UNCHANGED <<setupQueue, early>>
       ELSE /\ setupQueue' = [setupQueue EXCEPT ![r] = Kept(r, w)]
            /\ early' = IF r \notin met THEN early \cup {<<w, r>>} ELSE early
    /\ UNCHANGED <<routeVars, CT, lastSent, isSlowMode, open, count, met, given, turn>>

\* The faulty version stays.
SameNext(i) == i
NextPlace(i) == i + 1

\* A message of the stream goes to the next of its receivers that are not slow, or of
\* all when they all are.  Only an open web socket takes it.
Free(w) ==
    LET quick == {i \in DOMAIN table[w] : ~ isSlowMode[table[w][i]]}
    IN  IF quick = {} THEN DOMAIN table[w] ELSE quick
Pool(w) == Listed(table[w], Free(w))

\* The faulty version runs off the end.
Unwrapped(w) == lastSent[w]
Place(w) == IF lastSent[w] > Len(Pool(w)) THEN 1 ELSE lastSent[w]

Message(w) ==
    /\ alive /\ hello[w] # None /\ count < MaxMsg
    /\ count' = count + 1
    /\ lastSent' = [lastSent EXCEPT ![w] = NextPlace(Place(w))]
    /\ turn' = [turn EXCEPT ![w] = [at |-> Place(w), pool |-> Pool(w)]]
    /\ UNCHANGED <<routeVars, CT, setupQueue, isSlowMode, alive, hello, open, met, given, early>>

-----------------------------------------------------------------------------
(* From the browsers. *)

\* The setups kept for r go to its socket.
Flush(r) ==
    /\ given' = [p \in Sender \X Web |-> given[p] +
           Cardinality({i \in DOMAIN setupQueue[r] : p = <<setupQueue[r][i], r>>})]
    /\ setupQueue' = [setupQueue EXCEPT ![r] = <<>>]

\* setup, once per binding of the browser's operator and after the socket closed.
WsSetup(r) ==
    /\ alive
    /\ open' = open \cup {r}
    /\ CT' = [CT EXCEPT ![r] = "ws"]
    /\ met' = met \cup {r}
    /\ Flush(r)
    /\ UNCHANGED <<routeVars, lastSent, isSlowMode, alive, hello, count, early, turn>>

\* incoming_message; where it goes is not modelled.
WsMessage(r) ==
    /\ alive /\ r \in open
    /\ Flush(r)
    /\ UNCHANGED <<routeVars, CT, lastSent, isSlowMode, alive, hello, open, count, met, early, turn>>

SlowMode(r) ==
    /\ alive /\ r \in open /\ count < MaxMsg
    /\ count' = count + 1
    /\ isSlowMode' = [isSlowMode EXCEPT ![r] = ~ @]
    /\ UNCHANGED <<routeVars, CT, setupQueue, lastSent, alive, hello, open, pastVars>>

\* wsClose leaves the connection listed.
WsClose(r) ==
    /\ alive /\ r \in open /\ count < MaxMsg
    /\ count' = count + 1
    /\ open' = open \ {r}
    /\ UNCHANGED <<routeVars, CT, setupQueue, lastSent, isSlowMode, alive, hello, pastVars>>

-----------------------------------------------------------------------------
ProxyNext ==
    \/ \E w \in Sender, r \in Web :
          \/ NewRt(w, r) \/ NewRtBack(r, w) \/ Setup(w, r)
          \/ DelRt(OpOf[w], r) \/ DelRt(r, OpOf[w])
    \/ \E w \in Sender : NewConn(w) \/ Message(w)
    \/ \E r \in Web : WsSetup(r) \/ WsMessage(r) \/ SlowMode(r) \/ WsClose(r)

ProxySpec == ProxyInit /\ [][ProxyNext]_proxyVars
-----------------------------------------------------------------------------
(* Properties. *)

\* The state has its types; the place kept for a worker's next message is at most one
\* behind the longest list of routes there can be (lastSent, koala_proxy.js 188-202).
ProxyTypeOK ==
    /\ table \in [Key -> Seq(Key)] /\ isSlowMode \in [Key -> BOOLEAN]
    /\ CT \in [Key -> {"none", "zmq", "ws"}] /\ connecting \subseteq Sender
    /\ links \in 0..MaxLink
    /\ open \subseteq met /\ met \subseteq Web
    /\ setupQueue \in [Web -> Seq(Sender)]
    /\ lastSent \in [Sender -> 1..(MaxLink + 1)]
    /\ hello \in [Sender -> Web \cup {None}] /\ given \in [Sender \X Web -> Nat]

\* Whatever the order of setups, sockets and messages, no browser gets a worker's
\* setup twice, for a join would count the operator twice; and one kept for a browser
\* before the browser's own setup came has reached it since.
SetupOnce ==
    /\ \A p \in Sender \X Web : given[p] <= 1
    /\ \A p \in early : p[2] \in met => given[p] = 1

\* A worker's messages take turns: with the same two or more receivers to choose from
\* as before, each listed once, the next goes to another one, whoever linked, closed or
\* went slow since.
TakesTurns ==
    [][\A w \in Sender :
          (Message(w) /\ turn'[w].pool = turn[w].pool /\ Len(turn[w].pool) > 1
              /\ IsInjective(turn[w].pool)) =>
              turn'[w].pool[turn'[w].at] # turn[w].pool[turn[w].at]]_proxyVars

\* The proxy outlives the setups: one that comes before the browser's connection is
\* kept for it.
ProxyAlive == alive
=============================================================================
