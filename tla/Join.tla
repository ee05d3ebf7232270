-------------------------------- MODULE Join --------------------------------
(***************************************************************************)
(* A worker whose script called createJoin (k_globals/koala.js): it keeps  *)
(* the last message of every operator connected to it and gives the script *)
(* one of each.  It learns which operators are connected from the bind and *)
(* unbind set-up messages their workers send through their sockets.  Every *)
(* bind makes a socket of its own; each delivers in order, and the join    *)
(* worker takes from them in any order.                                    *)
(*                                                                         *)
(* A message is the number its sender gives it; Missing is an entry that   *)
(* is not there, or a message JavaScript takes for false, such as 0 or "". *)
(***************************************************************************)
EXTENDS Naturals, Sequences, FiniteSets, Functions, SequencesExt

CONSTANTS
    Cid,        \* the cids of the operators upstream
    Feeder,     \* their workers
    OperatorOf, \* the operator of each
    Tagged,     \* the operators whose protocol names the sender (send_LB)
    MaxMsg,     \* bound: messages made
    MaxBind     \* bound: how often a worker is bound

ASSUME JoinAssumption ==
    /\ Cid \subseteq Nat /\ IsFiniteSet(Cid) /\ Tagged \subseteq Cid
    /\ OperatorOf \in [Feeder -> Cid]
    /\ MaxMsg \in Nat /\ MaxBind \in Nat

VARIABLES
    sockets,        \* feeder -> those of its clients that go to the join worker
    binds,          \* how often each was bound
    wire,           \* what is in each socket
    inConnections,  \* cid -> true, undefined after an unbind, or no entry
    inMessages,     \* inMessagesReceived
    cbOrdering,     \* the operators, in the order the script gets them
    joined,         \* history: the last array the script got
    joins,          \* history: how many it got
    made,           \* history: message -> the feeder and the socket it went to
    given,          \* history: the messages the script got
    crowded         \* history: operators bound with an earlier socket still there
feederVars == <<sockets, binds, made, crowded>>
joinVars == <<inConnections, inMessages, cbOrdering, joined, joins, given>>
vars == <<feederVars, wire, joinVars>>

Socket == 1..MaxBind
Missing == 0
Data(n) == [kind |-> "data", n |-> n]
SetUp(kind) == [kind |-> kind, n |-> Missing]
Message == [kind : {"data", "bind", "unbind"}, n : 0..MaxMsg]

Init ==
    /\ sockets = [f \in Feeder |-> {}] /\ binds = [f \in Feeder |-> 0]
    /\ wire = [f \in Feeder |-> [k \in Socket |-> <<>>]]
    /\ inConnections = [c \in Cid |-> "none"]
    /\ inMessages = [c \in Cid |-> Missing]
    /\ cbOrdering = <<>>
    /\ joined = <<>> /\ joins = 0
    /\ made = <<>> /\ given = {} /\ crowded = {}

-----------------------------------------------------------------------------
(* A worker upstream. *)

Put(f, k, msg) == wire' = [wire EXCEPT ![f][k] = Append(@, msg)]

\* A socket that is open, or is closed with something left in it.
Live(f, k) == k \in sockets[f] \/ wire[f][k] # <<>>
Follows(c) == \E f \in Feeder, k \in Socket : OperatorOf[f] = c /\ Live(f, k)

\* bind_node: one more socket, whatever there is, and the bind message through it.
BindNode(f) ==
    /\ binds[f] < MaxBind
    /\ binds' = [binds EXCEPT ![f] = @ + 1]
    /\ sockets' = [sockets EXCEPT ![f] = @ \cup {binds'[f]}]
    /\ Put(f, binds'[f], SetUp("bind"))
    /\ crowded' = crowded \cup {c \in {OperatorOf[f]} : Follows(c)}
    /\ UNCHANGED <<made, joinVars>>

\* unbind_node's loop counts up while the array shrinks: a client right after one it
\* removed is passed over.  Between two sockets of one feeder there may be others.
PassedOver(f) ==
    {kept \in SUBSET sockets[f] :
        \A k \in kept : \E j \in sockets[f] \ kept :
            j < k /\ \A i \in sockets[f] : i <= j \/ k <= i}

\* unbind_node: an unbind message through each socket it finds, which is gone then;
\* what it holds is still delivered.
UnbindNode(f) ==
    /\ sockets[f] # {}
    /\ \E kept \in PassedOver(f) :
          /\ sockets' = [sockets EXCEPT ![f] = kept]
          /\ wire' = [wire EXCEPT ![f] = [k \in Socket |->
                 IF k \in sockets[f] \ kept THEN Append(@[k], SetUp("unbind")) ELSE @[k]]]
    /\ UNCHANGED <<binds, made, crowded, joinVars>>

\* send, to the client the protocol chooses.  JavaScript may take the message for
\* false.  Whether the worker is binded is open, for its other bindings set and clear
\* that too.
Send(f) ==
    /\ Len(made) < MaxMsg
    /\ \E k \in sockets[f] :
          /\ made' = Append(made, <<f, k>>)
          /\ \E n \in {Missing, Len(made')} : Put(f, k, Data(n))
    /\ UNCHANGED <<sockets, binds, crowded, joinVars>>

-----------------------------------------------------------------------------
(* The join worker. *)

Taken(f, k, kind) ==
    /\ wire[f][k] # <<>> /\ Head(wire[f][k]).kind = kind
    /\ wire' = [wire EXCEPT ![f][k] = Tail(@)]
    /\ UNCHANGED feederVars

\* The operator takes its place unless it has one: the check for a second worker.
OrderJoined(c) == IF inConnections[c] = "true" THEN cbOrdering ELSE Append(cbOrdering, c)

ReceiveBind(f, k) ==
    LET c == OperatorOf[f]
    IN  /\ Taken(f, k, "bind")
        /\ inConnections' = [inConnections EXCEPT ![c] = "true"]
        /\ cbOrdering' = OrderJoined(c)
        /\ UNCHANGED <<inMessages, joined, joins, given>>

\* splice(indexOf(c), 1): the last one, when c is not there.  The faulty version
\* leaves the order alone.
OrderKept(c) == cbOrdering
OrderLeft(c) ==
    LET at == IF \E i \in DOMAIN cbOrdering : cbOrdering[i] = c
              THEN CHOOSE i \in DOMAIN cbOrdering : cbOrdering[i] = c
              ELSE Len(cbOrdering)
    IN  IF cbOrdering = <<>> THEN <<>> ELSE RemoveAt(cbOrdering, at)

\* inConnections[w] = undefined.  The faulty version forgets it.
StillConnected(c) == inConnections
Disconnected(c) == [inConnections EXCEPT ![c] = "undefined"]

ReceiveUnbind(f, k) ==
    LET c == OperatorOf[f]
    IN  /\ Taken(f, k, "unbind")
        /\ inConnections' = Disconnected(c)
        /\ cbOrdering' = OrderLeft(c)
        /\ UNCHANGED <<inMessages, joined, joins, given>>

\* msgArray: one entry per key of inConnections, in the order of the keys;
\* finalMsg takes from it at the cids of cbOrdering.
Entries == {c \in Cid : inConnections[c] # "none"}
Keys == [i \in 1..Cardinality(Entries) |->
            CHOOSE c \in Entries : Cardinality({d \in Entries : d <= c}) = i]
FinalMsg(buffer) ==
    [i \in DOMAIN cbOrdering |->
        LET at == cbOrdering[i] + 1
        IN  IF at \in DOMAIN Keys THEN [op |-> Keys[at], n |-> buffer[Keys[at]]]
                                  ELSE [op |-> cbOrdering[i], n |-> Missing]]

\* The faulty versions take one message for all, and keep what the script has got.
OneReceived(buffer) == \E c \in Cid : inConnections[c] = "true" /\ buffer[c] # Missing
AllReceived(buffer) == \A c \in Cid : inConnections[c] = "true" => buffer[c] # Missing
Unemptied(buffer) == buffer
Emptied(buffer) == [c \in Cid |-> Missing]

\* A message goes into the buffer of its operator, over the one before it; when
\* all are there the script gets them.
ReceiveMessage(f, k) ==
    LET c == OperatorOf[f]
        buffer == IF c \in Tagged THEN [inMessages EXCEPT ![c] = Head(wire[f][k]).n]
                                  ELSE inMessages
    IN  /\ Taken(f, k, "data")
        /\ IF AllReceived(buffer)
           THEN /\ joined' = FinalMsg(buffer)
                /\ joins' = joins + 1
                /\ given' = given \cup ({m.n : m \in Range(joined')} \ {Missing})
                /\ inMessages' = Emptied(buffer)
           ELSE inMessages' = buffer /\ UNCHANGED <<joined, joins, given>>
        /\ UNCHANGED <<inConnections, cbOrdering>>

-----------------------------------------------------------------------------
Next == \E f \in Feeder : \/ BindNode(f) \/ UnbindNode(f) \/ Send(f)
                          \/ \E k \in Socket : \/ ReceiveBind(f, k) \/ ReceiveUnbind(f, k)
                                               \/ ReceiveMessage(f, k)
Spec == Init /\ [][Next]_vars
-----------------------------------------------------------------------------
(* Properties. *)

TypeOK ==
    /\ sockets \in [Feeder -> SUBSET Socket] /\ binds \in [Feeder -> 0..MaxBind]
    /\ \A f \in Feeder : wire[f] \in [Socket -> Seq(Message)]
    /\ inConnections \in [Cid -> {"none", "true", "undefined"}]
    /\ inMessages \in [Cid -> 0..MaxMsg]
    /\ cbOrdering \in Seq(Cid) /\ Len(cbOrdering) <= Cardinality(Cid)
    /\ joined \in Seq([op : Cid, n : 0..MaxMsg]) /\ joins \in Nat
    /\ made \in Seq(Feeder \X Socket) /\ Len(made) <= MaxMsg
    /\ given \subseteq 1..MaxMsg /\ crowded \subseteq Cid

Connected == {c \in Cid : inConnections[c] = "true"}

\* Whatever comes, overtakes and overwrites, the script never gets a message twice,
\* nor after a later one of its socket (294-319).
NeverAgain ==
    [][joins' # joins =>
        \A i \in DOMAIN joined' : joined'[i].n # Missing =>
            \A m \in given : made[m] = made[joined'[i].n] => m < joined'[i].n]_vars

\* When all that the workers of an operator sent is taken, the join waits for the
\* operator if one of them is bound, and only then, as long as its sockets follow each
\* other, with all sent through one taken before the next is bound (183-198, 1611-1655).
\* With two at a time it may not: the first unbind makes it forget the operator.
KnowsOperators ==
    \A c \in Cid \ crowded :
        LET Its == {f \in Feeder : OperatorOf[f] = c}
        IN  (\A f \in Its, k \in Socket : wire[f][k] = <<>>)
                => (c \in Connected <=> \E f \in Its : sockets[f] # {})

\* Types, and in whatever order binds and unbinds come each place in the array is that
\* of an operator connected, and of no other place (188-198).  As long as the sockets
\* of every operator follow each other no operator connected is without one; otherwise
\* the unbind of one that has no place takes out the last (197).
OrderIsConnected ==
    /\ TypeOK
    /\ Range(cbOrdering) \subseteq Connected
    /\ \A i, j \in DOMAIN cbOrdering : cbOrdering[i] = cbOrdering[j] => i = j
    /\ crowded = {} => Connected \subseteq Range(cbOrdering)

\* When the operators are 0, 1, ... the script gets a message of every connected
\* operator ("check if all the messages of the join have been received", 299), while
\* their sockets follow each other.  With other cids it does not: finalMsg takes at the
\* cid from an array that has the messages in the order of the cids.
FromZero == \A i \in DOMAIN Keys : Keys[i] = i - 1
JoinIsWhole ==
    [][joins' # joins /\ FromZero /\ crowded = {} =>
        \A c \in Connected : \E i \in DOMAIN joined' :
            joined'[i].op = c /\ joined'[i].n # Missing]_vars
=============================================================================
