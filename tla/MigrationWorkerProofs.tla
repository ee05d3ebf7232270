------------------------ MODULE MigrationWorkerProofs ------------------------
(***************************************************************************)
(* What Migration's workers are told, for any operators, hosts and         *)
(* topology, when one migration goes on at a time.  The root takes and     *)
(* drops bindings, the commands reach the workers later and by two ways:   *)
(* bind_node from the node of from, which the root's answers wait for, and *)
(* unbind_node through unbind_cluster_process, which no answer waits for.  *)
(* Fed and NeverCut say that no socket a binding needs goes, NoMore that   *)
(* each other socket does; Told and Ahead say why the unbind of a worker   *)
(* is sent and arrives before its operator is removed.                     *)
(***************************************************************************)
EXTENDS MigrationProofs

-----------------------------------------------------------------------------
(* The inductive invariant: workers. *)

\* A worker has the socket, or will have it when it has taken its commands; or its unbind
\* is under way, or its bind.
Given(c, e) == e \in clients[c] \/ BindQueued(c, e)
UnbindQueued(c, e) == \E i \in DOMAIN ipc[c] : ipc[c][i] = [cmd |-> "unbind", uid |-> e]
Of(op, c, e) == \E x \in Sent : x.op = op /\ x.from = c /\ x.to = e
Leaving(c, e) == UnbindQueued(c, e) \/ Of("unbind_cluster_process", c, e)
Unbinding(c, e) == Leaving(c, e) \/ Of("unbind_cluster", c, e)
Ungiven(c, e) ==
    Of("bind_cluster", c, e) \/ Of("get_workers", c, e) \/ Of("workers", c, e)

\* Nothing removes the socket of a binding, and every binding has one, or will as soon as
\* its bind is answered.
Settled(b) == \A m \in Mig : mig[m].phase = "bind" => mig[m].new \notin {b.from, b.to}
Fed ==
    /\ \A b \in Bindings : ~ Unbinding(b.from, b.to)
    /\ \A b \in Bindings : Settled(b) => Given(b.from, b.to)
    /\ \A m \in Mig : mig[m].phase = "bind" =>
           \A p \in NewPairs(m) : Given(p.from, p.to) \/ Ungiven(p.from, p.to)
    /\ \A c, e \in Cid : Unbinding(c, e) =>
           /\ c < cluster_id /\ e < cluster_id
           /\ \A m \in Mig : mig[m].phase = "run" => mig[m].new \notin {c, e}

\* A worker the user started has, whatever commands it has taken, a socket to an
\* incarnation of each operator it is bound to.
Stays(c, e, i) ==
    /\ e \in clients[c] \/ \E j \in 1..i : ipc[c][j] = [cmd |-> "bind", uid |-> e]
    /\ \A j \in 1..i : ipc[c][j] # [cmd |-> "unbind", uid |-> e]
NeverCut ==
    \A b \in Bindings : b.from \in Op =>
        \A i \in 0..Len(ipc[b.from]) :
            \E e \in Cid : e < cluster_id /\ origin[e] = origin[b.to] /\ Stays(b.from, e, i)

\* The node of to was told of every binding before its bind was answered.
Noted(b) == \E n \in from_nodes[clusters[b.to]] : n.to = b.to /\ n.from = b.from
Told ==
    /\ DOMAIN from_nodes = Host
    /\ \A b \in Bindings : \/ Noted(b) \/ Of("bind_cluster", b.from, b.to)
                           \/ Of("notify_binding", b.from, b.to)
    /\ \A m \in Mig : mig[m].phase = "unbind" => \A b \in OldPairs(m) : Noted(b)

\* The unbind of a worker is on its way before its unbind_cluster is answered, and
\* reaches its host before remove_cluster.
Ahead ==
    /\ \A h \in Host : \A x \in Range(up[h]) : x.op = "unbind_cluster_process" =>
           \E y \in Message : y.op = "unbound" /\ y.m = x.m /\ Follows(up[h], x, y)
    /\ \A h \in Host : \A x, y \in Range(down[h]) :
           x.op = "unbind_cluster_process" /\ y.op = "remove_cluster" /\ x.from = y.cid =>
               Follows(down[h], x, y)
    /\ \A x \in Sent : x.op = "unbind_cluster_process" => x.from \in hosted[x.dst] \cap crew

\* A socket that is not a binding's will be removed: its unbind is to come, and in the
\* worker's queue no bind follows it; unless an unbind_cluster threw, and then its
\* migration waits forever.
Lost(m) == mig[m].unbindCounter + 1 + Cardinality(UnbindsComing(m)) <= Length(m)
BindsFirst ==
    \A c \in Cid : \A i, j \in DOMAIN ipc[c] :
        ipc[c][i].cmd = "unbind" /\ ipc[c][j].cmd = "bind" /\ ipc[c][i].uid = ipc[c][j].uid
            => j < i
Dropping(p) == \E m \in Mig : mig[m].phase = "unbind" /\ p \in OldPairs(m)
NoMore ==
    /\ BindsFirst
    /\ \A c, e \in Cid : Given(c, e) =>
           LET p == [from |-> c, to |-> e]
           IN  p \in Bindings \/ Leaving(c, e) \/ Dropping(p)
    /\ \A m \in Mig : mig[m].phase = "unbind" =>
           Lost(m) \/ \A p \in OldPairs(m) : Given(p.from, p.to) => Unbinding(p.from, p.to)

WorkerInv == Fed /\ NeverCut /\ Told /\ Ahead /\ NoMore

-----------------------------------------------------------------------------
(* What a step does to the messages on their way. *)

\* Of the messages of q those that are left in r keep their order, and what is new in r
\* comes after them and is of N.
Shifts(q, r, N) ==
    \A g \in Host : \A x \in Range(r[g]) :
        \/ /\ x \in Range(q[g])
           /\ \A y : Follows(q[g], x, y) \/ (y \in Range(r[g]) /\ y \notin Range(q[g]))
                         => Follows(r[g], x, y)
        \/ x \in N

LEMMA ShiftsRests == ASSUME NEW q, NEW N PROVE Shifts(q, q, N)
  BY DEF Shifts

LEMMA ShiftsLoses ==
    ASSUME NEW q \in Queues, NEW h \in Host, Alone(q), NEW r, Loses(q, h, r), NEW N
    PROVE  Shifts(q, r, N)
  <1> SUFFICES ASSUME NEW g \in Host, NEW x \in Range(r[g])
               PROVE  /\ x \in Range(q[g])
                      /\ \A y : Follows(q[g], x, y) \/ (y \in Range(r[g]) /\ y \notin Range(q[g]))
                                    => Follows(r[g], x, y)
    BY DEF Shifts
  <1>1. Range(r[h]) = Range(q[h]) \ {Head(q[h])}
    BY Taken
  <1>2. \A f \in Host : f # h => r[f] = q[f]
    BY Taken
  <1>3. r[h] = Tail(q[h]) /\ q[h] # <<>>
    BY QueuesAre DEF Loses
  <1>4. CASE g # h
    BY <1>2, <1>4
  <1>5. CASE g = h
    <2>1. q[h] \in Seq(Message)
      BY QueuesAre
    <2>2. x \in Range(q[h]) /\ x # Head(q[h])
      BY <1>1, <1>5
    <2>3. \A y : Follows(q[h], x, y) => Follows(Tail(q[h]), x, y)
      BY <1>3, <2>1, <2>2, FollowsIs
    <2> QED BY <1>1, <1>3, <1>5, <2>2, <2>3
  <1> QED BY <1>4, <1>5

LEMMA ShiftsGets ==
    ASSUME NEW q \in Queues, NEW A \in Queues, NEW r, Gets(q, A, r)
    PROVE  Shifts(q, r, Carried(A)) /\ Carried(r) = Carried(q) \cup Carried(A)
  <1>1. ASSUME NEW g \in Host
        PROVE  /\ q[g] \in Seq(Message) /\ A[g] \in Seq(Message) /\ r[g] = q[g] \o A[g]
               /\ Range(r[g]) = Range(q[g]) \cup Range(A[g])
    <2>1. q[g] \in Seq(Message) /\ A[g] \in Seq(Message) /\ r[g] = q[g] \o A[g]
      BY QueuesAre DEF Gets
    <2>2. PICK s \in Seq(Message), t \in Seq(Message) : s = q[g] /\ t = A[g]
      BY <2>1
    <2>3. Range(s \o t) = Range(s) \cup Range(t)
      BY RangeConcatenation
    <2> QED BY <2>1, <2>2, <2>3
  <1>2. r \in Queues
    <2>1. \A g \in Host : q[g] \o A[g] \in Seq(Message)
      BY <1>1, ConcatProperties
    <2> QED BY <2>1 DEF Gets, Queues
  <1>3. Carried(r) = Carried(q) \cup Carried(A)
    <2>1. \A y : y \in Carried(r) <=> \E g \in Host : y \in Range(r[g])
      BY <1>2, QueuesAre
    <2>2. \A y : y \in Carried(q) <=> \E g \in Host : y \in Range(q[g])
      BY QueuesAre
    <2>3. \A y : y \in Carried(A) <=> \E g \in Host : y \in Range(A[g])
      BY QueuesAre
    <2>4. \A g \in Host : \A y : y \in Range(r[g]) <=> y \in Range(q[g]) \/ y \in Range(A[g])
      BY <1>1
    <2> QED BY <2>1, <2>2, <2>3, <2>4
  <1>4. ASSUME NEW g \in Host, NEW x \in Range(r[g]), x \notin Carried(A)
        PROVE  /\ x \in Range(q[g])
               /\ \A y : Follows(q[g], x, y) \/ (y \in Range(r[g]) /\ y \notin Range(q[g]))
                             => Follows(r[g], x, y)
    <2>1. x \in Range(q[g]) /\ \A y \in Range(r[g]) : y \notin Range(q[g]) => y \in Range(A[g])
      BY <1>1, <1>4, QueuesAre
    <2>2. \A y : Follows(q[g], x, y) => Follows(q[g] \o A[g], x, y)
      BY <1>1, FollowsIs
    <2>3. \A y : x \in Range(q[g]) /\ y \in Range(A[g]) => Follows(q[g] \o A[g], x, y)
      BY <1>1, FollowsIs
    <2> QED BY <1>1, <2>1, <2>2, <2>3
  <1> QED BY <1>3, <1>4 DEF Shifts

\* A step takes the message x from its channel and puts the messages N on their way.
Swaps(x, N) ==
    /\ Sent' = (Sent \ {x}) \cup N
    /\ Shifts(up, up', N) /\ Shifts(down, down', N)

LEMMA RootSwaps ==
    ASSUME CoreInv, NEW h \in Host, up[h] # <<>>, up' = [up EXCEPT ![h] = Tail(@)],
           NEW A \in Queues, down' = [g \in Host |-> down[g] \o A[g]]
    PROVE  Swaps(Head(up[h]), Carried(A))
  <1> PICK u : u = up'
    OBVIOUS
  <1> PICK d : d = down'
    OBVIOUS
  <1>1. /\ up \in Queues /\ down \in Queues /\ Alone(up) /\ Alone(down)
        /\ \A y \in Carried(up), z \in Carried(down) : Label(y) # Label(z)
    BY CoreIs DEF Once
  <1>2. Loses(up, h, u) /\ Gets(down, A, d)
    BY DEF Loses, Gets
  <1>3. Carried(u) = Carried(up) \ {Head(up[h])}
    BY <1>1, <1>2, Taken
  <1>4. Shifts(up, u, Carried(A))
    BY <1>1, <1>2, ShiftsLoses
  <1>5. Shifts(down, d, Carried(A)) /\ Carried(d) = Carried(down) \cup Carried(A)
    BY <1>1, <1>2, ShiftsGets
  <1>6. Head(up[h]) \in Carried(up)
    BY <1>1, QueuesAre
  <1>7. Head(up[h]) \notin Carried(down)
    BY <1>1, <1>6
  <1>8. Sent = Carried(up) \cup Carried(down) /\ Sent' = Carried(u) \cup Carried(d)
    BY DEF Sent
  <1>9. Sent' = (Sent \ {Head(up[h])}) \cup Carried(A)
    BY <1>3, <1>5, <1>7, <1>8
  <1> QED BY <1>4, <1>5, <1>9 DEF Swaps

LEMMA HostSwapsAll ==
    ASSUME CoreInv, NEW h \in Host, down[h] # <<>>, down' = [down EXCEPT ![h] = Tail(@)],
           NEW A \in Queues, up' = [g \in Host |-> up[g] \o A[g]]
    PROVE  Swaps(Head(down[h]), Carried(A))
  <1> PICK u : u = up'
    OBVIOUS
  <1> PICK d : d = down'
    OBVIOUS
  <1>1. /\ up \in Queues /\ down \in Queues /\ Alone(up) /\ Alone(down)
        /\ \A y \in Carried(up), z \in Carried(down) : Label(y) # Label(z)
    BY CoreIs DEF Once
  <1>2. Loses(down, h, d) /\ Gets(up, A, u)
    BY DEF Loses, Gets
  <1>3. Carried(d) = Carried(down) \ {Head(down[h])}
    BY <1>1, <1>2, Taken
  <1>4. Shifts(down, d, Carried(A))
    BY <1>1, <1>2, ShiftsLoses
  <1>5. Shifts(up, u, Carried(A)) /\ Carried(u) = Carried(up) \cup Carried(A)
    BY <1>1, <1>2, ShiftsGets
  <1>6. Head(down[h]) \in Carried(down)
    BY <1>1, QueuesAre
  <1>7. Head(down[h]) \notin Carried(up)
    BY <1>1, <1>6
  <1>8. Sent = Carried(up) \cup Carried(down) /\ Sent' = Carried(u) \cup Carried(d)
    BY DEF Sent
  <1>9. Sent' = (Sent \ {Head(down[h])}) \cup Carried(A)
    BY <1>3, <1>5, <1>7, <1>8
  <1> QED BY <1>4, <1>5, <1>9 DEF Swaps

LEMMA HostSwaps ==
    ASSUME CoreInv, NEW h \in Host, down[h] # <<>>, down' = [down EXCEPT ![h] = Tail(@)],
           NEW msgs \in Seq(Message), Distinct(msgs), up' = [up EXCEPT ![h] = @ \o msgs]
    PROVE  Swaps(Head(down[h]), Range(msgs))
  <1> PICK A : A = For(h, msgs)
    OBVIOUS
  <1>1. up \in Queues
    BY CoreIs
  <1>2. \A i, j \in DOMAIN msgs : Label(msgs[i]) = Label(msgs[j]) => i = j
    BY DEF Distinct
  <1>3. A \in Queues /\ Carried(A) = Range(msgs)
    BY <1>2, ForIs
  <1>4. \A q \in Queues : [q EXCEPT ![h] = @ \o msgs] = [g \in Host |-> q[g] \o For(h, msgs)[g]]
    BY <1>2, ForIs
  <1>5. up' = [g \in Host |-> up[g] \o A[g]]
    BY <1>1, <1>4
  <1> QED BY <1>3, <1>5, HostSwapsAll

LEMMA HostSwapsOne ==
    ASSUME CoreInv, NEW h \in Host, down[h] # <<>>, down' = [down EXCEPT ![h] = Tail(@)],
           NEW y \in Message, up' = [up EXCEPT ![h] = @ \o <<y>>]
    PROVE  Swaps(Head(down[h]), {y})
  <1>1. <<y>> \in Seq(Message) /\ Range(<<y>>) = {y} /\ Distinct(<<y>>)
    BY OneMessage DEF Distinct
  <1> QED BY <1>1, HostSwaps

LEMMA HostSwapsNone ==
    ASSUME CoreInv, NEW h \in Host, down[h] # <<>>, down' = [down EXCEPT ![h] = Tail(@)],
           UNCHANGED up
    PROVE  Swaps(Head(down[h]), {})
  <1>1. Nothing \in Queues /\ Carried(Nothing) = {}
    BY NothingIs
  <1>2. up' = [g \in Host |-> up[g] \o Nothing[g]]
    BY CoreIs, Unsaid
  <1> QED BY <1>1, <1>2, HostSwapsAll

LEMMA RootSwapsOne ==
    ASSUME CoreInv, NEW h \in Host, up[h] # <<>>, up' = [up EXCEPT ![h] = Tail(@)],
           NEW g \in Host, NEW y \in Message, down' = [down EXCEPT ![g] = Append(@, y)]
    PROVE  Swaps(Head(up[h]), {y})
  <1> PICK A : A = For(g, <<y>>)
    OBVIOUS
  <1>1. A \in Queues /\ Carried(A) = {y}
    BY OneCall
  <1>2. \A q \in Queues : [q EXCEPT ![g] = Append(@, y)] = [f \in Host |-> q[f] \o For(g, <<y>>)[f]]
    BY OneCall
  <1>3. down \in Queues
    BY CoreIs
  <1>4. down' = [f \in Host |-> down[f] \o A[f]]
    BY <1>2, <1>3
  <1> QED BY <1>1, <1>4, RootSwaps

LEMMA RootSwapsNone ==
    ASSUME CoreInv, NEW h \in Host, up[h] # <<>>, up' = [up EXCEPT ![h] = Tail(@)],
           UNCHANGED down
    PROVE  Swaps(Head(up[h]), {})
  <1>1. Nothing \in Queues /\ Carried(Nothing) = {}
    BY NothingIs
  <1>2. down' = [g \in Host |-> down[g] \o Nothing[g]]
    BY CoreIs, Unsaid
  <1> QED BY <1>1, <1>2, RootSwaps

LEMMA RootCallsFirst ==
    ASSUME CoreInv, UNCHANGED up,
           NEW g \in Host, NEW y \in Message, down' = [down EXCEPT ![g] = Append(@, y)]
    PROVE  Swaps(y, {y})
  <1> PICK A : A = For(g, <<y>>)
    OBVIOUS
  <1>1. A \in Queues /\ Carried(A) = {y}
    BY OneCall
  <1>2. PICK d : d = down'
    OBVIOUS
  <1>3. Gets(down, A, d) /\ down \in Queues
    <2>1. \A q \in Queues : [q EXCEPT ![g] = Append(@, y)] = [f \in Host |-> q[f] \o For(g, <<y>>)[f]]
      BY OneCall
    <2>2. down \in Queues
      BY CoreIs
    <2> QED BY <1>2, <2>1, <2>2 DEF Gets
  <1>4. Shifts(down, d, {y}) /\ Carried(d) = Carried(down) \cup {y}
    <2>1. Shifts(down, d, Carried(A)) /\ Carried(d) = Carried(down) \cup Carried(A)
      BY <1>1, <1>3, ShiftsGets
    <2> QED BY <1>1, <2>1
  <1>5. Shifts(up, up', {y})
    BY ShiftsRests
  <1>6. Sent = Carried(up) \cup Carried(down) /\ Sent' = Carried(up) \cup Carried(d)
    BY <1>2 DEF Sent
  <1>7. Sent' = (Sent \ {y}) \cup {y}
    BY <1>4, <1>6
  <1> QED BY <1>2, <1>4, <1>5, <1>7 DEF Swaps

-----------------------------------------------------------------------------
(* What steps keep of the invariant's parts. *)

\* What was on its way is, or is the message that was taken.
LEMMA OfIs ==
    ASSUME NEW x, NEW N, Swaps(x, N), NEW op, NEW c, NEW e
    PROVE  /\ Of(op, c, e)' => Of(op, c, e) \/ \E y \in N : y.op = op /\ y.from = c /\ y.to = e
           /\ Of(op, c, e) => Of(op, c, e)' \/ (x.op = op /\ x.from = c /\ x.to = e)
           /\ (\E y \in N : y.op = op /\ y.from = c /\ y.to = e) => Of(op, c, e)'
  BY DEF Swaps, Of

\* Nothing comes to be unbound; a worker has its sockets but those to be unbound; and a
\* bind under way goes on, or is carried out.
Flows ==
    \A c, e \in Cid :
        /\ Unbinding(c, e)' => Unbinding(c, e)
        /\ Given(c, e) => Given(c, e)' \/ Unbinding(c, e)
        /\ Ungiven(c, e) => Ungiven(c, e)' \/ Given(c, e)'

\* The bindings are the same, and the migration that binds them.
BindsAlike ==
    /\ Bindings' = Bindings /\ cluster_id' >= cluster_id
    /\ \A m \in Mig : mig'[m].phase = "bind" <=> mig[m].phase = "bind"
    /\ \A m \in Mig : mig[m].phase = "bind" => /\ mig'[m].new = mig[m].new /\ mig'[m].ins = mig[m].ins
                                               /\ mig'[m].outs = mig[m].outs
    /\ \A m \in Mig : mig'[m].phase = "run" =>
           (mig[m].phase = "run" /\ mig'[m].new = mig[m].new) \/ mig'[m].new = cluster_id

LEMMA FedKeeps ==
    ASSUME CoreInv, CoreInv', Fed, Flows, BindsAlike
    PROVE  Fed'
  <1>1. /\ \A b \in Bindings : b.from \in Cid /\ b.to \in Cid
        /\ \A m \in Mig : NewPairs(m) \subseteq Binding
        /\ \A m \in Mig : mig[m].phase = "bind" => NewPairs(m) \subseteq Bindings
    <2>1. \A b \in Bindings : b.from \in Cid /\ b.to \in Cid
      BY CoreIs, BindingsAre
    <2>2. \A m \in Mig : NewPairs(m) \subseteq Binding
      BY CoreIs, PairsAre
    <2>3. \A m \in Mig : mig[m].phase = "bind" => NewPairs(m) \subseteq Bindings
      BY CoreIs DEF Recorded
    <2> QED BY <2>1, <2>2, <2>3
  <1>2. \A b \in Bindings' : ~ Unbinding(b.from, b.to)'
    BY <1>1 DEF Fed, Flows, BindsAlike
  <1>3. ASSUME NEW b \in Bindings', Settled(b)' PROVE Given(b.from, b.to)'
    <2>1. b \in Bindings /\ Settled(b)
      BY <1>3 DEF BindsAlike, Settled
    <2> QED BY <1>1, <2>1 DEF Fed, Flows
  <1>4. ASSUME NEW m \in Mig, mig'[m].phase = "bind", NEW p \in NewPairs(m)'
        PROVE  Given(p.from, p.to)' \/ Ungiven(p.from, p.to)'
    <2>1. mig[m].phase = "bind" /\ p \in NewPairs(m)
      BY <1>4 DEF BindsAlike, NewPairs
    <2>2. p.from \in Cid /\ p.to \in Cid /\ p \in Bindings
      BY <1>1, <2>1
    <2> QED BY <2>1, <2>2 DEF Fed, Flows
  <1>5. ASSUME NEW c \in Cid, NEW e \in Cid, Unbinding(c, e)'
        PROVE  /\ c < cluster_id' /\ e < cluster_id'
               /\ \A m \in Mig : mig'[m].phase = "run" => mig'[m].new \notin {c, e}
    <2>1. Unbinding(c, e)
      BY <1>5 DEF Flows
    <2>2. /\ c < cluster_id /\ e < cluster_id
          /\ \A m \in Mig : mig[m].phase = "run" => mig[m].new \notin {c, e}
      BY <2>1 DEF Fed
    <2>3. cluster_id \in Nat /\ cluster_id' \in Nat /\ cluster_id' >= cluster_id /\ c \in Nat /\ e \in Nat
      BY CoreIs DEF RootTypes, BindsAlike, Cid, CoreInv, RootInv
    <2>4. c < cluster_id' /\ e < cluster_id' /\ c # cluster_id /\ e # cluster_id
      BY <2>2, <2>3
    <2> QED BY <2>2, <2>4 DEF BindsAlike
  <1> QED BY <1>2, <1>3, <1>4, <1>5 DEF Fed

\* A step that leaves the workers and their commands alone, and unbinds only what was to
\* be unbound, lets a bind go on to its next message.
Relays(x, N) ==
    /\ \A y \in N : y.op \in {"unbind_cluster", "unbind_cluster_process"} =>
           /\ x \in Sent /\ x.from = y.from /\ x.to = y.to
           /\ x.op = "unbind_cluster" \/ x = y
    /\ x.op \in {"bind_cluster", "get_workers", "workers"} =>
           \E y \in N : /\ y.op \in {"bind_cluster", "get_workers", "workers"}
                        /\ y.from = x.from /\ y.to = x.to

LEMMA RelaysFlow ==
    ASSUME NEW x, NEW N, Swaps(x, N), Relays(x, N), UNCHANGED <<ipc, clients>>
    PROVE  Flows
  <1> SUFFICES ASSUME NEW c \in Cid, NEW e \in Cid
               PROVE  /\ Unbinding(c, e)' => Unbinding(c, e)
                      /\ Given(c, e) => Given(c, e)' \/ Unbinding(c, e)
                      /\ Ungiven(c, e) => Ungiven(c, e)' \/ Given(c, e)'
    BY DEF Flows
  <1>1. UnbindQueued(c, e)' <=> UnbindQueued(c, e)
    BY DEF UnbindQueued
  <1>2. Given(c, e)' <=> Given(c, e)
    BY DEF Given, BindQueued
  <1>3. ASSUME NEW op \in {"unbind_cluster", "unbind_cluster_process"}, Of(op, c, e)'
        PROVE  Of(op, c, e) \/ Of("unbind_cluster", c, e)
    <2>1. CASE \E y \in N : y.op = op /\ y.from = c /\ y.to = e
      BY <2>1 DEF Relays, Of
    <2> QED BY <1>3, <2>1, OfIs
  <1>4. Unbinding(c, e)' => Unbinding(c, e)
    BY <1>1, <1>3 DEF Unbinding, Leaving
  <1>5. ASSUME NEW op \in {"bind_cluster", "get_workers", "workers"}, Of(op, c, e)
        PROVE  Ungiven(c, e)'
    <2>1. CASE x.op = op /\ x.from = c /\ x.to = e
      <3>1. \E y \in N : /\ y.op \in {"bind_cluster", "get_workers", "workers"}
                         /\ y.from = c /\ y.to = e
        BY <2>1 DEF Relays
      <3> QED BY <3>1, OfIs DEF Ungiven
    <2>2. CASE Of(op, c, e)'
      BY <2>2 DEF Ungiven
    <2> QED BY <1>5, <2>1, <2>2, OfIs
  <1>6. Ungiven(c, e) => Ungiven(c, e)'
    BY <1>5 DEF Ungiven
  <1> QED BY <1>2, <1>4, <1>6

LEMMA NeverCutKeeps ==
    ASSUME CoreInv, CoreInv', NeverCut, UNCHANGED <<ipc, clients>>,
           Bindings' \subseteq Bindings, cluster_id' >= cluster_id,
           \A e \in Cid : e < cluster_id => origin'[e] = origin[e]
    PROVE  NeverCut'
  <1> SUFFICES ASSUME NEW b \in Bindings', b.from \in Op, NEW i \in 0..Len(ipc[b.from])
               PROVE  \E e \in Cid : /\ e < cluster_id' /\ origin'[e] = origin'[b.to]
                                     /\ Stays(b.from, e, i)'
    BY DEF NeverCut
  <1>1. b \in Bindings
    OBVIOUS
  <1>2. PICK e \in Cid : e < cluster_id /\ origin[e] = origin[b.to] /\ Stays(b.from, e, i)
    BY <1>1 DEF NeverCut
  <1>3. b.to \in Cid /\ b.to < cluster_id
    <2>1. b.to \in Cid /\ Present(b.to) /\ cluster_id \in Nat
      BY <1>1, CoreIs, BindingsAre DEF Linked, RootTypes
    <2>2. ~ (b.to >= cluster_id)
      BY <2>1, CoreIs DEF Alive
    <2> QED BY <2>1, <2>2 DEF Cid
  <1>4. Stays(b.from, e, i)'
    BY <1>2 DEF Stays
  <1>5. e < cluster_id'
    <2>1. cluster_id \in Nat /\ cluster_id' \in Nat /\ e \in Nat
      BY CoreIs DEF CoreInv, RootInv, RootTypes, Cid
    <2> QED BY <1>2, <2>1
  <1> QED BY <1>2, <1>3, <1>4, <1>5

\* Hosts forget nothing they were told; and the bindings, and those that are dropped, are
\* among what they were, on the hosts on which they were.
HostsRemember ==
    /\ DOMAIN from_nodes' = DOMAIN from_nodes
    /\ \A h \in Host : from_nodes[h] \subseteq from_nodes'[h]
LEMMA NotedKeeps ==
    ASSUME HostsRemember, clusters \in [Cid -> Host \cup {NoHost}],
           NEW b, b.to \in Cid, Present(b.to), clusters'[b.to] = clusters[b.to], Noted(b)
    PROVE  Noted(b)'
  <1>1. clusters[b.to] \in Host
    BY DEF Present
  <1> QED BY <1>1 DEF HostsRemember, Noted

PairsAlike ==
    /\ Bindings' \subseteq Bindings
    /\ \A b \in Bindings' : clusters'[b.to] = clusters[b.to]
    /\ \A m \in Mig : mig'[m].phase = "unbind" =>
           /\ mig[m].phase = "unbind" /\ mig'[m].ins = mig[m].ins /\ mig'[m].outs = mig[m].outs
           /\ \A b \in OldPairs(m) : clusters'[b.to] = clusters[b.to]

\* A message that tells of a binding goes on to the host of to, and is noted there.
Notifies(x, N) ==
    x.op \in {"bind_cluster", "notify_binding"} =>
        \/ \E y \in N : /\ y.op \in {"bind_cluster", "notify_binding"}
                        /\ y.from = x.from /\ y.to = x.to
        \/ Noted(Pair(x))'
LEMMA ToldKeeps ==
    ASSUME CoreInv, Told, NEW x, NEW N, Swaps(x, N), HostsRemember, PairsAlike, Notifies(x, N)
    PROVE  Told'
  <1>1. clusters \in [Cid -> Host \cup {NoHost}]
    BY CoreIs DEF RootTypes
  <1>2. ASSUME NEW b \in Bindings'
        PROVE  \/ Noted(b)' \/ Of("bind_cluster", b.from, b.to)'
               \/ Of("notify_binding", b.from, b.to)'
    <2>1. b \in Bindings /\ b \in Binding /\ b.to \in Cid /\ Present(b.to) /\ clusters'[b.to] = clusters[b.to]
      BY CoreIs, BindingsAre DEF PairsAlike, Linked
    <2>2. CASE Noted(b)
      BY <1>1, <2>1, <2>2, NotedKeeps
    <2>3. ASSUME NEW op \in {"bind_cluster", "notify_binding"}, Of(op, b.from, b.to)
          PROVE  \/ Noted(b)' \/ Of("bind_cluster", b.from, b.to)'
                 \/ Of("notify_binding", b.from, b.to)'
      <3>1. CASE Of(op, b.from, b.to)'
        BY <3>1
      <3>2. CASE x.op = op /\ x.from = b.from /\ x.to = b.to
        <4>1. Pair(x) = b
          BY <2>1, <3>2 DEF Pair, Binding
        <4>2. \/ \E y \in N : /\ y.op \in {"bind_cluster", "notify_binding"}
                              /\ y.from = b.from /\ y.to = b.to
              \/ Noted(b)'
          BY <3>2, <4>1 DEF Notifies
        <4> QED BY <4>2, OfIs
      <3> QED BY <2>3, <3>1, <3>2, OfIs
    <2> QED BY <2>1, <2>2, <2>3 DEF Told
  <1>3. ASSUME NEW m \in Mig, mig'[m].phase = "unbind", NEW b \in OldPairs(m)'
        PROVE  Noted(b)'
    <2>1. mig[m].phase = "unbind" /\ b \in OldPairs(m) /\ clusters'[b.to] = clusters[b.to]
      BY <1>3 DEF PairsAlike, OldPairs
    <2>2. Noted(b)
      BY <2>1 DEF Told
    <2>3. Present(b.to)
      BY <2>1, CoreIs DEF Recorded
    <2>4. b.to \in Cid
      <3>1. OldPairs(m) \subseteq Binding
        BY CoreIs, PairsAre
      <3> QED BY <2>1, <3>1 DEF Binding
    <2> QED BY <1>1, <2>1, <2>2, <2>3, <2>4, NotedKeeps
  <1>4. DOMAIN from_nodes' = Host
    BY DEF Told, HostsRemember
  <1> QED BY <1>2, <1>3, <1>4 DEF Told

\* No unbind of a worker is sent, and no worker of one that is on its way goes.
LEMMA AheadKeeps ==
    ASSUME Ahead, NEW x, NEW N, Swaps(x, N), \A y \in N : y.op # "unbind_cluster_process",
           \A z \in Sent : z.op = "unbind_cluster_process" /\ z \in Sent' =>
               z.from \in hosted'[z.dst] \cap crew'
    PROVE  Ahead'
  <1>1. ASSUME NEW h \in Host, NEW z \in Range(up'[h]), z.op = "unbind_cluster_process"
        PROVE  \E y \in Message : y.op = "unbound" /\ y.m = z.m /\ Follows(up'[h], z, y)
    <2>1. z \in Range(up[h]) /\ \A y : Follows(up[h], z, y) => Follows(up'[h], z, y)
      BY <1>1 DEF Swaps, Shifts
    <2> QED BY <1>1, <2>1 DEF Ahead
  <1>2. ASSUME NEW h \in Host, NEW z \in Range(down'[h]), NEW y \in Range(down'[h]),
               z.op = "unbind_cluster_process", y.op = "remove_cluster", z.from = y.cid
        PROVE  Follows(down'[h], z, y)
    <2>1. /\ z \in Range(down[h])
          /\ Follows(down[h], z, y) \/ y \notin Range(down[h]) => Follows(down'[h], z, y)
      BY <1>2 DEF Swaps, Shifts
    <2> QED BY <1>2, <2>1 DEF Ahead
  <1>3. ASSUME NEW z \in Sent', z.op = "unbind_cluster_process"
        PROVE  z.from \in hosted'[z.dst] \cap crew'
    BY <1>3 DEF Swaps
  <1> QED BY <1>1, <1>2, <1>3 DEF Ahead

LEMMA AheadStays ==
    ASSUME CoreInv, Ahead, NEW x, NEW N, Swaps(x, N), \A y \in N : y.op # "unbind_cluster_process",
           \A h \in Host : hosted[h] \subseteq hosted'[h], crew \subseteq crew'
    PROVE  Ahead'
  <1>1. ASSUME NEW z \in Sent, z.op = "unbind_cluster_process"
        PROVE  z.from \in hosted'[z.dst] \cap crew'
    <2>1. z.dst \in Host
      <3>1. z \in Message
        BY CoreIs, SentIs
      <3> QED BY <1>1, <3>1, MessageIs DEF HostToHost
    <2>2. z.from \in hosted[z.dst] \cap crew
      BY <1>1 DEF Ahead
    <2> QED BY <2>1, <2>2
  <1> QED BY <1>1, AheadKeeps

\* The migrations that unbind are the same, and have lost no less.
DropsAlike ==
    /\ \A m \in Mig : mig'[m].phase = "unbind" <=> mig[m].phase = "unbind"
    /\ \A m \in Mig : mig[m].phase = "unbind" =>
           mig'[m].ins = mig[m].ins /\ mig'[m].outs = mig[m].outs
LEMMA LostKeeps ==
    ASSUME CoreInv, CoreInv', NEW x, NEW N, Swaps(x, N), \A y \in N : Kind(y.op) # "unbind",
           NEW m \in Mig, mig'[m].unbindCounter = mig[m].unbindCounter,
           mig'[m].ins = mig[m].ins, mig'[m].outs = mig[m].outs, Lost(m)
    PROVE  Lost(m)'
  <1> PICK C : C = UnbindsComing(m)
    OBVIOUS
  <1> PICK D : D = UnbindsComing(m)'
    OBVIOUS
  <1> PICK P : P = OldPairs(m)
    OBVIOUS
  <1>1. P = OldPairs(m)' /\ Length(m)' = Length(m)
    BY DEF OldPairs, Length
  <1>2. D \subseteq C /\ C \subseteq P
    BY <1>1 DEF UnbindsComing, Coming, Swaps
  <1>3. IsFiniteSet(P) /\ Length(m) \in Nat
    BY CoreIs, PairsAre
  <1>4. Cardinality(D) <= Cardinality(C) /\ Cardinality(D) \in Nat /\ Cardinality(C) \in Nat
    BY <1>2, <1>3, Fewer
  <1>5. mig[m].unbindCounter \in Nat
    BY CoreIs, GoesIs
  <1>6. mig[m].unbindCounter + 1 + Cardinality(C) <= Length(m)
    BY DEF Lost
  <1>7. mig[m].unbindCounter + 1 + Cardinality(D) <= Length(m)
    BY <1>3, <1>4, <1>5, <1>6
  <1> QED BY <1>1, <1>7 DEF Lost

LEMMA NoMoreKeeps ==
    ASSUME CoreInv, NoMore, NEW x, NEW N, Swaps(x, N), UNCHANGED <<ipc, clients>>,
           x.op = "unbind_cluster_process" => x \in N, x.op # "unbind_cluster",
           Bindings \subseteq Bindings', DropsAlike,
           \A m \in Mig : mig[m].phase = "unbind" /\ Lost(m) => Lost(m)'
    PROVE  NoMore'
  <1>1. \A c, e : Given(c, e)' <=> Given(c, e)
    BY DEF Given, BindQueued
  <1>2. \A c, e : Of("unbind_cluster_process", c, e) => Of("unbind_cluster_process", c, e)'
    BY OfIs
  <1>3. \A c, e : UnbindQueued(c, e)' <=> UnbindQueued(c, e)
    BY DEF UnbindQueued
  <1>4. \A c, e : Leaving(c, e) => Leaving(c, e)'
    BY <1>2, <1>3 DEF Leaving
  <1>5. \A c, e : Of("unbind_cluster", c, e) => Of("unbind_cluster", c, e)'
    BY OfIs
  <1>6. \A c, e : Unbinding(c, e) => Unbinding(c, e)'
    BY <1>4, <1>5 DEF Unbinding
  <1>7. \A p : Dropping(p) => Dropping(p)'
    BY DEF Dropping, DropsAlike, OldPairs
  <1>8. BindsFirst'
    BY DEF NoMore, BindsFirst
  <1>9. ASSUME NEW c \in Cid, NEW e \in Cid, Given(c, e)'
        PROVE  \/ [from |-> c, to |-> e] \in Bindings' \/ Leaving(c, e)'
               \/ Dropping([from |-> c, to |-> e])'
    BY <1>1, <1>4, <1>7, <1>9 DEF NoMore
  <1>10. ASSUME NEW m \in Mig, mig'[m].phase = "unbind", ~ Lost(m)', NEW p \in OldPairs(m)',
                Given(p.from, p.to)'
         PROVE  Unbinding(p.from, p.to)'
    <2>1. mig[m].phase = "unbind" /\ p \in OldPairs(m) /\ ~ Lost(m)
      BY <1>10 DEF DropsAlike, OldPairs
    <2> QED BY <1>1, <1>6, <1>10, <2>1 DEF NoMore
  <1> QED BY <1>8, <1>9, <1>10 DEF NoMore

-----------------------------------------------------------------------------
(* The steps of a host that neither bind nor unbind. *)

LEMMA WorkerIs ==
    WorkerInv <=> Fed /\ NeverCut /\ Told /\ Ahead /\ NoMore
  BY DEF WorkerInv

LEMMA RootAlike ==
    ASSUME CoreInv, UNCHANGED rootVars
    PROVE  /\ BindsAlike /\ PairsAlike /\ DropsAlike
           /\ Bindings' = Bindings /\ cluster_id' = cluster_id
  <1>1. Bindings' = Bindings /\ cluster_id' = cluster_id /\ mig' = mig /\ clusters' = clusters
    BY DEF Bindings, rootVars
  <1>2. cluster_id' >= cluster_id
    BY <1>1, CoreIs DEF RootTypes
  <1> QED BY <1>1, <1>2 DEF BindsAlike, PairsAlike, DropsAlike

LEMMA AllLostKept ==
    ASSUME CoreInv, CoreInv', UNCHANGED mig, NEW x, NEW N, Swaps(x, N),
           \A y \in N : Kind(y.op) # "unbind"
    PROVE  \A m \in Mig : mig[m].phase = "unbind" /\ Lost(m) => Lost(m)'
  BY LostKeeps

LEMMA WorkersRest ==
    ASSUME CoreInv, CoreInv', WorkerInv, UNCHANGED <<rootVars, ipc, clients>>,
           NEW x, NEW N, Swaps(x, N), Relays(x, N), Notifies(x, N), HostsRemember,
           \A y \in N : Kind(y.op) # "unbind",
           x.op # "unbind_cluster", x.op = "unbind_cluster_process" => x \in N,
           Ahead'
    PROVE  WorkerInv'
  <1>1. Fed /\ NeverCut /\ Told /\ NoMore
    BY WorkerIs
  <1>2. /\ BindsAlike /\ PairsAlike /\ DropsAlike
        /\ Bindings' = Bindings /\ cluster_id' = cluster_id
    BY RootAlike
  <1>3. Fed'
    BY <1>1, <1>2, RelaysFlow, FedKeeps
  <1>4. NeverCut'
    <2>1. cluster_id' >= cluster_id
      BY <1>2 DEF BindsAlike
    <2>2. origin' = origin
      BY DEF rootVars
    <2> QED BY <1>1, <1>2, <2>1, <2>2, NeverCutKeeps
  <1>5. Told'
    BY <1>1, <1>2, ToldKeeps
  <1>6. NoMore'
    <2>1. UNCHANGED mig
      BY DEF rootVars
    <2>2. \A m \in Mig : mig[m].phase = "unbind" /\ Lost(m) => Lost(m)'
      BY <2>1, AllLostKept
    <2> QED BY <1>1, <1>2, <2>2, NoMoreKeeps
  <1> QED BY <1>3, <1>4, <1>5, <1>6, WorkerIs DEF WorkerInv

\* An answer that is about no binding.
Aside(x, N) ==
    /\ x.op \notin {"bind_cluster", "get_workers", "workers", "notify_binding",
                    "unbind_cluster", "unbind_cluster_process"}
    /\ \A y \in N : y.op \notin PairOps
LEMMA AsideIs ==
    ASSUME NEW x, NEW N, Aside(x, N)
    PROVE  /\ Relays(x, N) /\ Notifies(x, N)
           /\ \A y \in N : y.op # "unbind_cluster_process"
  BY DEF Aside, Relays, Notifies, PairOps, UnbindOps

LEMMA PlainIs == \A o \in PlainOps : Kind(o) # "unbind" /\ o \notin PairOps
  BY DEF PlainOps, Kind, BindOps, UnbindOps, PairOps

LEMMA WorkersGetClusters ==
    ASSUME CoreInv, CoreInv', WorkerInv, NEW h \in Host, GetClusters(h)
    PROVE  WorkerInv'
  <1>1. PICK x : x = Head(down[h])
    OBVIOUS
  <1> PICK w \in BOOLEAN : w = (mig[x.m].old \in hosted[h] \cap crew)
    <2>1. (mig[x.m].old \in hosted[h] \cap crew) \in BOOLEAN
      OBVIOUS
    <2> QED BY <2>1
  <1>2. PICK y : y = [op |-> "clusters", m |-> x.m, workers |-> w]
    OBVIOUS
  <1>3. /\ down[h] # <<>> /\ x.op = "get_clusters" /\ down' = [down EXCEPT ![h] = Tail(@)]
        /\ up' = [up EXCEPT ![h] = @ \o <<y>>]
        /\ UNCHANGED <<rootVars, hostVars, ipc, clients>>
    BY <1>1, <1>2 DEF GetClusters, FromRoot, Pop, Answer, workerVars
  <1>4. x.m \in Mig
    BY <1>1, <1>3, CoreIs, Arrived
  <1>5. y \in Message /\ y.op = "clusters"
    BY <1>2, <1>4, MessagesAre
  <1>6. Swaps(x, {y})
    BY <1>1, <1>3, <1>5, HostSwapsOne
  <1>7. Kind(y.op) # "unbind" /\ y.op \notin PairOps
    BY <1>5, PlainIs DEF PlainOps
  <1>8. Aside(x, {y})
    BY <1>3, <1>7 DEF Aside
  <1>9. Ahead'
    BY <1>3, <1>6, <1>8, AsideIs, AheadStays, WorkerIs DEF hostVars
  <1>10. HostsRemember
    BY <1>3 DEF HostsRemember, hostVars
  <1> QED BY <1>3, <1>6, <1>7, <1>8, <1>9, <1>10, AsideIs, WorkersRest

LEMMA WorkersRunCluster ==
    ASSUME CoreInv, CoreInv', WorkerInv, NEW h \in Host, RunCluster(h)
    PROVE  WorkerInv'
  <1>1. PICK x : x = Head(down[h])
    OBVIOUS
  <1>2. PICK y : y = [op |-> "ran", m |-> x.m]
    OBVIOUS
  <1>3. /\ down[h] # <<>> /\ x.op = "run_cluster" /\ down' = [down EXCEPT ![h] = Tail(@)]
        /\ up' = [up EXCEPT ![h] = @ \o <<y>>]
        /\ hosted' = [hosted EXCEPT ![h] = @ \cup {x.cid}] /\ crew \subseteq crew'
        /\ UNCHANGED <<rootVars, from_nodes, ipc, clients>>
    BY <1>1, <1>2 DEF RunCluster, FromRoot, Pop, Answer, workerVars
  <1>4. x.m \in Mig
    BY <1>1, <1>3, CoreIs, Arrived
  <1>5. y \in Message /\ y.op = "ran"
    BY <1>2, <1>4, MessagesAre
  <1>6. Swaps(x, {y})
    BY <1>1, <1>3, <1>5, HostSwapsOne
  <1>7. Kind(y.op) # "unbind" /\ y.op \notin PairOps
    BY <1>5, PlainIs DEF PlainOps
  <1>8. Aside(x, {y})
    BY <1>3, <1>7 DEF Aside
  <1>9. Ahead'
    <2>1. \A g \in Host : hosted[g] \subseteq hosted'[g]
      BY <1>3, CoreIs DEF ChannelTypes
    <2> QED BY <1>3, <1>6, <1>8, <2>1, AsideIs, AheadStays, WorkerIs
  <1>10. HostsRemember
    BY <1>3 DEF HostsRemember
  <1> QED BY <1>3, <1>6, <1>7, <1>8, <1>9, <1>10, AsideIs, WorkersRest

\* A host that removes an operator has passed every unbind on to its worker.
LEMMA WorkersRemoveCluster ==
    ASSUME CoreInv, CoreInv', WorkerInv, NEW h \in Host, RemoveCluster(h)
    PROVE  WorkerInv'
  <1>1. PICK x : x = Head(down[h])
    OBVIOUS
  <1>2. PICK y : y = [op |-> "removed", m |-> x.m]
    OBVIOUS
  <1>3. /\ down[h] # <<>> /\ x.op = "remove_cluster" /\ down' = [down EXCEPT ![h] = Tail(@)]
        /\ up' = [up EXCEPT ![h] = @ \o <<y>>]
        /\ hosted' = [hosted EXCEPT ![h] = @ \ {x.cid}]
        /\ UNCHANGED <<rootVars, crew, from_nodes, ipc, clients>>
    BY <1>1, <1>2 DEF RemoveCluster, FromRoot, Pop, Answer, workerVars
  <1>4. x.m \in Mig /\ x \in Message /\ Timely(x)
    BY <1>1, <1>3, CoreIs, Arrived
  <1>5. y \in Message /\ y.op = "removed"
    BY <1>2, <1>4, MessagesAre
  <1>6. Swaps(x, {y})
    BY <1>1, <1>3, <1>5, HostSwapsOne
  <1>7. Kind(y.op) # "unbind" /\ y.op \notin PairOps
    BY <1>5, PlainIs DEF PlainOps
  <1>8. Aside(x, {y})
    BY <1>3, <1>7 DEF Aside
  <1>9. mig[x.m].phase = "remove" /\ Busy(x.m)
    BY <1>3, <1>4, KindIs DEF Timely, Busy
  <1>10. ASSUME NEW z \in Sent, z.op = "unbind_cluster_process", z.dst = h, z.from = x.cid
         PROVE  FALSE
    <2>1. up \in Queues /\ down \in Queues /\ Once /\ z \in Message
      BY CoreIs, SentIs
    <2>2. \E g \in Host : z \in Range(up[g]) \/ z \in Range(down[g])
      BY <2>1, QueuesAre DEF Sent
    <2>3. ASSUME NEW g \in Host, z \in Range(up[g]) PROVE FALSE
      <3>1. PICK u \in Message : u.op = "unbound" /\ Follows(up[g], z, u)
        BY <1>10, <2>3, WorkerIs DEF Ahead
      <3>2. u \in Sent
        <4>1. up[g] \in Seq(Message)
          BY <2>1, QueuesAre
        <4>2. u \in Range(up[g])
          BY <3>1, <4>1, FollowsIs
        <4> QED BY <2>1, <4>2, SentIs
      <3>3. mig[u.m].phase = "unbind" /\ u.m \in Mig
        BY <3>1, <3>2, CoreIs, KindIs, MessageIs DEF Addressed, Timely, UnbindOps
      <3> QED BY <1>4, <1>9, <3>3, CoreIs, OneBusy
    <2>4. ASSUME NEW g \in Host, z \in Range(down[g]) PROVE FALSE
      <3>1. g = h
        BY <1>10, <2>4, CoreIs DEF Addressed, Called
      <3>2. x \in Range(down[h]) /\ down[h] \in Seq(Message)
        BY <1>1, <1>3, <2>1, QueuesAre
      <3>3. Follows(down[h], z, x)
        BY <1>3, <1>10, <2>4, <3>1, <3>2, WorkerIs DEF Ahead
      <3>4. x \in Range(Tail(down[h]))
        BY <1>3, <3>2, <3>3, FollowsIs
      <3>5. Range(Tail(down[h])) = Range(down[h]) \ {x}
        <4>1. PICK d : d = down'
          OBVIOUS
        <4>2. Loses(down, h, d) /\ d[h] = Tail(down[h])
          BY <1>3, <2>1, <4>1, QueuesAre DEF Loses
        <4> QED BY <1>1, <2>1, <4>2, Taken DEF Once
      <3> QED BY <3>4, <3>5
    <2> QED BY <2>2, <2>3, <2>4
  <1>11. ASSUME NEW z \in Sent, z.op = "unbind_cluster_process"
         PROVE  z.from \in hosted'[z.dst] \cap crew'
    <2>1. z.from \in hosted[z.dst] \cap crew
      BY <1>11, WorkerIs DEF Ahead
    <2>2. z.dst \in Host
      <3>1. z \in Message
        BY CoreIs, SentIs
      <3> QED BY <1>11, <3>1, MessageIs DEF HostToHost
    <2>3. hosted \in [Host -> SUBSET Cid]
      BY CoreIs DEF ChannelTypes
    <2> QED BY <1>3, <1>10, <1>11, <2>1, <2>2, <2>3
  <1>12. Ahead'
    BY <1>6, <1>8, <1>11, AsideIs, AheadKeeps, WorkerIs
  <1>13. HostsRemember
    BY <1>3 DEF HostsRemember
  <1> QED BY <1>3, <1>6, <1>7, <1>8, <1>12, <1>13, AsideIs, WorkersRest

-----------------------------------------------------------------------------
(* The steps of a host that bind. *)

LEMMA WorkersBindCluster ==
    ASSUME CoreInv, CoreInv', WorkerInv, NEW h \in Host, BindCluster(h)
    PROVE  WorkerInv'
  <1>1. PICK x : x = Head(down[h])
    OBVIOUS
  <1>2. PICK a : a = [op |-> "notify_binding", m |-> x.m, from |-> x.from, to |-> x.to,
                      node |-> h, dst |-> x.node]
    OBVIOUS
  <1>3. PICK b : b = [op |-> "get_workers", m |-> x.m, from |-> x.from, to |-> x.to,
                      node |-> h, dst |-> x.node]
    OBVIOUS
  <1>4. /\ down[h] # <<>> /\ x.op = "bind_cluster" /\ down' = [down EXCEPT ![h] = Tail(@)]
        /\ up' = [up EXCEPT ![h] = @ \o <<a, b>>]
        /\ UNCHANGED <<rootVars, hosted, crew, from_nodes, ipc, clients>>
    BY <1>1, <1>2, <1>3 DEF BindCluster, FromRoot, Pop, Answer, workerVars
  <1>5. x \in Message /\ x.m \in Mig
    BY <1>1, <1>4, CoreIs, Arrived
  <1>6. x.from \in Cid /\ x.to \in Cid /\ x.node \in Host
    BY <1>4, <1>5, MessageIs DEF PairOps, BindOps
  <1>7. a \in Message /\ b \in Message
    BY <1>2, <1>3, <1>5, <1>6, MessagesAre
  <1>8. /\ a.op = "notify_binding" /\ a.from = x.from /\ a.to = x.to
        /\ b.op = "get_workers" /\ b.from = x.from /\ b.to = x.to
    BY <1>2, <1>3
  <1>9. Kind(a.op) = "notify_binding" /\ Kind(b.op) = "bind"
    BY <1>8, KindIs DEF BindOps
  <1>10. Label(a) # Label(b)
    BY <1>7, <1>9, LabelIs
  <1>11. PICK msgs \in Seq(Message) :
             Range(msgs) = {a, b} /\ Distinct(msgs) /\ up' = [up EXCEPT ![h] = @ \o msgs]
    BY <1>4, <1>7, <1>10, TwoMessages
  <1>12. Swaps(x, {a, b})
    <2>1. Swaps(Head(down[h]), Range(msgs))
      BY <1>4, <1>11, HostSwaps
    <2> QED BY <1>1, <1>11, <2>1
  <1>13. Relays(x, {a, b}) /\ Notifies(x, {a, b})
    BY <1>8 DEF Relays, Notifies
  <1>14. \A y \in {a, b} : Kind(y.op) # "unbind" /\ y.op # "unbind_cluster_process"
    BY <1>8, <1>9
  <1>15. Ahead'
    BY <1>4, <1>12, <1>14, AheadStays, WorkerIs
  <1>16. HostsRemember
    BY <1>4 DEF HostsRemember
  <1>17. x.op # "unbind_cluster" /\ x.op # "unbind_cluster_process"
    BY <1>4
  <1> QED BY <1>4, <1>12, <1>13, <1>14, <1>15, <1>16, <1>17, WorkersRest

LEMMA WorkersNotifyBinding ==
    ASSUME CoreInv, CoreInv', WorkerInv, NEW h \in Host, NotifyBinding(h)
    PROVE  WorkerInv'
  <1>1. PICK x : x = Head(down[h])
    OBVIOUS
  <1>2. PICK e : e = [to |-> x.to, from |-> x.from, node |-> x.node]
    OBVIOUS
  <1>3. /\ down[h] # <<>> /\ x.op = "notify_binding" /\ down' = [down EXCEPT ![h] = Tail(@)]
        /\ e \in from_nodes'[h] /\ e.to = x.to /\ e.from = x.from
        /\ \A g \in Host : from_nodes[g] \subseteq from_nodes'[g]
        /\ DOMAIN from_nodes' = DOMAIN from_nodes
        /\ UNCHANGED <<rootVars, hosted, crew, up, ipc, clients>>
    <2>1. e.to = x.to /\ e.from = x.from
      BY <1>2
    <2>2. /\ down[h] # <<>> /\ x.op = "notify_binding" /\ down' = [down EXCEPT ![h] = Tail(@)]
          /\ from_nodes' = [from_nodes EXCEPT ![h] = @ \cup {e}]
          /\ UNCHANGED <<rootVars, hosted, crew, up, ipc, clients>>
      BY <1>1, <1>2 DEF NotifyBinding, FromRoot, Pop, workerVars
    <2>3. DOMAIN from_nodes = Host
      BY WorkerIs DEF Told
    <2> QED BY <2>1, <2>2, <2>3
  <1>4. x \in Message /\ x.m \in Mig /\ Called(h, x)
    BY <1>1, <1>3, CoreIs, Arrived
  <1>5. h = clusters[x.to]
    BY <1>3, <1>4 DEF Called
  <1>6. Swaps(x, {})
    BY <1>1, <1>3, HostSwapsNone
  <1>7. Relays(x, {})
    BY <1>3 DEF Relays
  <1>8. Notifies(x, {})
    <2>1. clusters' = clusters
      BY <1>3 DEF rootVars
    <2>2. Noted(Pair(x))'
      BY <1>3, <1>5, <2>1 DEF Noted, Pair
    <2> QED BY <2>2 DEF Notifies
  <1>9. Ahead'
    BY <1>3, <1>6, AheadStays, WorkerIs
  <1>10. HostsRemember
    BY <1>3 DEF HostsRemember
  <1>11. x.op # "unbind_cluster" /\ x.op # "unbind_cluster_process"
    BY <1>3
  <1> QED BY <1>3, <1>6, <1>7, <1>8, <1>9, <1>10, <1>11, WorkersRest

LEMMA WorkersGetWorkers ==
    ASSUME CoreInv, CoreInv', WorkerInv, NEW h \in Host, GetWorkers(h)
    PROVE  WorkerInv'
  <1>1. PICK x : x = Head(down[h])
    OBVIOUS
  <1> PICK w \in BOOLEAN : w = (x.to \in hosted[h] \cap crew)
    <2>1. (x.to \in hosted[h] \cap crew) \in BOOLEAN
      OBVIOUS
    <2> QED BY <2>1
  <1>2. PICK y : y = [op |-> "workers", m |-> x.m, from |-> x.from, to |-> x.to,
                      found |-> w, dst |-> x.node]
    OBVIOUS
  <1>3. /\ down[h] # <<>> /\ x.op = "get_workers" /\ down' = [down EXCEPT ![h] = Tail(@)]
        /\ up' = [up EXCEPT ![h] = @ \o <<y>>]
        /\ UNCHANGED <<rootVars, hostVars, ipc, clients>>
    BY <1>1, <1>2 DEF GetWorkers, FromRoot, Pop, Answer, workerVars
  <1>4. x \in Message /\ x.m \in Mig
    BY <1>1, <1>3, CoreIs, Arrived
  <1>5. x.from \in Cid /\ x.to \in Cid /\ x.node \in Host
    BY <1>3, <1>4, MessageIs DEF PairOps, BindOps
  <1>6. y \in Message /\ y.op = "workers" /\ y.from = x.from /\ y.to = x.to
    <2>1. y.op = "workers" /\ y.from = x.from /\ y.to = x.to
      BY <1>2
    <2> QED BY <1>2, <1>4, <1>5, <2>1, MessagesAre
  <1>7. Swaps(x, {y})
    BY <1>1, <1>3, <1>6, HostSwapsOne
  <1>8. Relays(x, {y}) /\ Notifies(x, {y})
    BY <1>3, <1>6 DEF Relays, Notifies
  <1>9. \A z \in {y} : Kind(z.op) # "unbind" /\ z.op # "unbind_cluster_process"
    BY <1>6, KindIs DEF BindOps
  <1>10. Ahead'
    BY <1>3, <1>7, <1>9, AheadStays, WorkerIs DEF hostVars
  <1>11. HostsRemember
    BY <1>3 DEF HostsRemember, hostVars
  <1>12. x.op # "unbind_cluster" /\ x.op # "unbind_cluster_process"
    BY <1>3
  <1> QED BY <1>3, <1>7, <1>8, <1>9, <1>10, <1>11, <1>12, WorkersRest

-----------------------------------------------------------------------------
(* The commands of a worker. *)

\* A worker that has taken all of its commands has a socket to an incarnation of each
\* operator it is bound to, if it is not one that starts.
Sockets ==
    \A b \in Bindings : (\A m \in Mig : mig[m].phase = "bind" => mig[m].new # b.from) =>
        \E e \in Cid : /\ e < cluster_id /\ origin[e] = origin[b.to]
                       /\ Given(b.from, e) /\ Stays(b.from, e, Len(ipc[b.from]))
LEMMA FullyFed == CoreInv /\ Fed => Sockets
  <1> SUFFICES ASSUME CoreInv, Fed, NEW b \in Bindings,
                      \A m \in Mig : mig[m].phase = "bind" => mig[m].new # b.from
               PROVE  \E e \in Cid : /\ e < cluster_id /\ origin[e] = origin[b.to]
                                     /\ Given(b.from, e) /\ Stays(b.from, e, Len(ipc[b.from]))
    BY DEF Sockets
  <1>1. /\ RootTypes /\ InTurn /\ Alive /\ Linked /\ \A m \in Mig : Ends(m) /\ Recorded(m)
        /\ ipc \in [Cid -> Seq(Command)]
    BY CoreIs DEF ChannelTypes
  <1>2. \A a \in Bindings : a.from \in Cid /\ a.to \in Cid /\ a.to < cluster_id
    <2> TAKE a \in Bindings
    <2>1. a.from \in Cid /\ a.to \in Cid /\ Present(a.to)
      BY <1>1, BindingsAre DEF Linked
    <2>2. cluster_id \in Nat /\ a.to \in Nat /\ ~ (a.to >= cluster_id)
      BY <1>1, <2>1, IdsAreNumbers DEF Alive, RootTypes
    <2> QED BY <2>1, <2>2
  <1>3. ASSUME NEW a \in Bindings, Settled(a)
        PROVE  Given(a.from, a.to) /\ Stays(a.from, a.to, Len(ipc[a.from]))
    <2>1. Given(a.from, a.to) /\ ~ UnbindQueued(a.from, a.to)
      BY <1>3 DEF Fed, Unbinding, Leaving
    <2>2. DOMAIN ipc[a.from] = 1..Len(ipc[a.from])
      BY <1>1, <1>2
    <2> QED BY <2>1, <2>2 DEF Given, BindQueued, UnbindQueued, Stays
  <1>4. CASE Settled(b)
    BY <1>2, <1>3, <1>4
  <1>5. CASE ~ Settled(b)
    <2>1. PICK m \in Mig : mig[m].phase = "bind" /\ mig[m].new = b.to /\ mig[m].new # b.from
      BY <1>5 DEF Settled
    <2>2. b \in NewPairs(m) /\ Range(mig[m].ins) = {a \in Bindings : a.to = mig[m].old}
      BY <1>1, <2>1 DEF Recorded
    <2>3. PICK a \in Bindings : a.from = b.from /\ a.to = mig[m].old
      BY <2>1, <2>2 DEF NewPairs
    <2>4. Begun(m) /\ Busy(m)
      BY <2>1 DEF Begun, Busy
    <2>5. mig[m].old < mig[m].new /\ origin[mig[m].new] = origin[mig[m].old]
      BY <1>1, <2>4 DEF Ends
    <2>6. mig[m].old \in Nat /\ mig[m].new \in Nat
      BY <1>1, IdsAreNumbers DEF RootTypes, Migrating
    <2>7. mig[m].new \notin {a.from, a.to}
      BY <2>1, <2>3, <2>5, <2>6
    <2>8. Settled(a)
      <3> SUFFICES ASSUME NEW n \in Mig, mig[n].phase = "bind" PROVE mig[n].new \notin {a.from, a.to}
        BY DEF Settled
      <3>1. Busy(n)
        BY DEF Busy
      <3>2. n = m
        BY <1>1, <2>4, <3>1, OneBusy
      <3> QED BY <2>7, <3>2
    <2>9. Given(a.from, a.to) /\ Stays(a.from, a.to, Len(ipc[a.from]))
      BY <1>3, <2>8
    <2>10. a.to \in Cid /\ a.to < cluster_id
      BY <1>2
    <2> QED BY <2>1, <2>3, <2>5, <2>9, <2>10
  <1> QED BY <1>4, <1>5

\* A command goes to the end of its worker's queue.
LEMMA ToWorkerSends ==
    ASSUME ipc \in [Cid -> Seq(Command)], NEW c \in Cid, c \in crew,
           NEW command \in {"bind", "unbind"}, NEW uid \in Cid, ToWorker(c, command, uid)
    PROVE  /\ \A d \in Cid : d # c => ipc'[d] = ipc[d]
           /\ Len(ipc[c]) \in Nat /\ DOMAIN ipc[c] = 1..Len(ipc[c])
           /\ DOMAIN ipc'[c] = 1..(Len(ipc[c]) + 1) /\ Len(ipc'[c]) = Len(ipc[c]) + 1
           /\ \A i \in 1..Len(ipc[c]) : ipc'[c][i] = ipc[c][i]
           /\ ipc'[c][Len(ipc[c]) + 1] = [cmd |-> command, uid |-> uid]
  <1>1. PICK s \in Seq(Command) : s = ipc[c]
    OBVIOUS
  <1>2. PICK k \in Command : k = [cmd |-> command, uid |-> uid]
    BY DEF Command
  <1>3. ipc' = [ipc EXCEPT ![c] = Append(s, k)]
    BY <1>1, <1>2 DEF ToWorker
  <1>4. ipc'[c] = Append(s, k) /\ \A d \in Cid : d # c => ipc'[d] = ipc[d]
    BY <1>3
  <1>5. /\ Append(s, k) \in Seq(Command) /\ Len(Append(s, k)) = Len(s) + 1
        /\ \A i \in 1..Len(s) : Append(s, k)[i] = s[i]
        /\ Append(s, k)[Len(s) + 1] = k
    BY AppendProperties
  <1>6. Len(s) \in Nat /\ DOMAIN s = 1..Len(s) /\ DOMAIN Append(s, k) = 1..(Len(s) + 1)
    BY <1>5, LenProperties
  <1> QED BY <1>1, <1>2, <1>4, <1>5, <1>6

\* A bind, or an unbind, is one more in the queue it is sent to.
LEMMA CommandSent ==
    ASSUME ipc \in [Cid -> Seq(Command)], NEW c \in Cid, c \in crew,
           NEW command \in {"bind", "unbind"}, NEW uid \in Cid, ToWorker(c, command, uid),
           UNCHANGED clients
    PROVE  /\ \A d, e \in Cid : BindQueued(d, e)' <=>
                  BindQueued(d, e) \/ (command = "bind" /\ d = c /\ e = uid)
           /\ \A d, e \in Cid : UnbindQueued(d, e)' <=>
                  UnbindQueued(d, e) \/ (command = "unbind" /\ d = c /\ e = uid)
           /\ \A d, e \in Cid : \A i \in 0..Len(ipc[d]) : Stays(d, e, i) => Stays(d, e, i)'
           /\ \A d \in Cid : d # c => Len(ipc'[d]) = Len(ipc[d])
           /\ Len(ipc'[c]) = Len(ipc[c]) + 1 /\ Len(ipc[c]) \in Nat
  <1>1. /\ \A d \in Cid : d # c => ipc'[d] = ipc[d]
        /\ Len(ipc[c]) \in Nat /\ DOMAIN ipc[c] = 1..Len(ipc[c])
        /\ DOMAIN ipc'[c] = 1..(Len(ipc[c]) + 1) /\ Len(ipc'[c]) = Len(ipc[c]) + 1
        /\ \A i \in 1..Len(ipc[c]) : ipc'[c][i] = ipc[c][i]
        /\ ipc'[c][Len(ipc[c]) + 1] = [cmd |-> command, uid |-> uid]
    BY ToWorkerSends
  <1>2. \A i \in DOMAIN ipc'[c] : i \in DOMAIN ipc[c] \/ i = Len(ipc[c]) + 1
    BY <1>1
  <1>3. \A i \in DOMAIN ipc[c] : i \in DOMAIN ipc'[c] /\ ipc'[c][i] = ipc[c][i]
    BY <1>1
  <1>4. Len(ipc[c]) + 1 \in DOMAIN ipc'[c]
    BY <1>1
  <1>5. ASSUME NEW d \in Cid, NEW e \in Cid
        PROVE  BindQueued(d, e)' <=> BindQueued(d, e) \/ (command = "bind" /\ d = c /\ e = uid)
    <2>1. CASE d # c
      BY <1>1, <2>1 DEF BindQueued
    <2>2. CASE d = c
      <3>1. BindQueued(d, e)' => BindQueued(d, e) \/ [cmd |-> command, uid |-> uid] = [cmd |-> "bind", uid |-> e]
        BY <1>1, <1>2, <1>3, <2>2 DEF BindQueued
      <3>2. [cmd |-> command, uid |-> uid] = [cmd |-> "bind", uid |-> e] => BindQueued(d, e)'
        BY <1>1, <1>4, <2>2 DEF BindQueued
      <3>3. BindQueued(d, e) => BindQueued(d, e)'
        BY <1>3, <2>2 DEF BindQueued
      <3> QED BY <2>2, <3>1, <3>2, <3>3
    <2> QED BY <2>1, <2>2
  <1>6. ASSUME NEW d \in Cid, NEW e \in Cid
        PROVE  UnbindQueued(d, e)' <=> UnbindQueued(d, e) \/ (command = "unbind" /\ d = c /\ e = uid)
    <2>1. CASE d # c
      BY <1>1, <2>1 DEF UnbindQueued
    <2>2. CASE d = c
      <3>1. UnbindQueued(d, e)' => UnbindQueued(d, e) \/ [cmd |-> command, uid |-> uid] = [cmd |-> "unbind", uid |-> e]
        BY <1>1, <1>2, <1>3, <2>2 DEF UnbindQueued
      <3>2. [cmd |-> command, uid |-> uid] = [cmd |-> "unbind", uid |-> e] => UnbindQueued(d, e)'
        BY <1>1, <1>4, <2>2 DEF UnbindQueued
      <3>3. UnbindQueued(d, e) => UnbindQueued(d, e)'
        BY <1>3, <2>2 DEF UnbindQueued
      <3> QED BY <2>2, <3>1, <3>2, <3>3
    <2> QED BY <2>1, <2>2
  <1>7. ASSUME NEW d \in Cid, NEW e \in Cid, NEW i \in 0..Len(ipc[d]), Stays(d, e, i)
        PROVE  Stays(d, e, i)'
    <2>1. CASE d # c
      BY <1>1, <1>7, <2>1 DEF Stays
    <2>2. CASE d = c
      <3>1. \A j \in 1..i : ipc'[d][j] = ipc[d][j]
        BY <1>1, <2>2
      <3> QED BY <1>7, <3>1 DEF Stays
    <2> QED BY <2>1, <2>2
  <1> QED BY <1>1, <1>5, <1>6, <1>7

\* Binds stay before unbinds when a bind is sent that no unbind waits for.
LEMMA BindsFirstSent ==
    ASSUME ipc \in [Cid -> Seq(Command)], BindsFirst, NEW c \in Cid, c \in crew,
           NEW command \in {"bind", "unbind"}, NEW uid \in Cid, ToWorker(c, command, uid),
           command = "bind" => ~ UnbindQueued(c, uid)
    PROVE  BindsFirst'
  <1>1. /\ \A d \in Cid : d # c => ipc'[d] = ipc[d]
        /\ Len(ipc[c]) \in Nat /\ DOMAIN ipc[c] = 1..Len(ipc[c])
        /\ DOMAIN ipc'[c] = 1..(Len(ipc[c]) + 1) /\ Len(ipc'[c]) = Len(ipc[c]) + 1
        /\ \A i \in 1..Len(ipc[c]) : ipc'[c][i] = ipc[c][i]
        /\ ipc'[c][Len(ipc[c]) + 1] = [cmd |-> command, uid |-> uid]
    BY ToWorkerSends
  <1>2. PICK n \in Nat : n = Len(ipc[c])
    BY <1>1
  <1> SUFFICES ASSUME NEW d \in Cid, NEW i \in DOMAIN ipc'[d], NEW j \in DOMAIN ipc'[d],
                      ipc'[d][i].cmd = "unbind", ipc'[d][j].cmd = "bind",
                      ipc'[d][i].uid = ipc'[d][j].uid
               PROVE  j < i
    BY DEF BindsFirst
  <1>3. CASE d # c
    BY <1>1, <1>3 DEF BindsFirst
  <1>4. CASE d = c
    <2>1. i \in 1..(n + 1) /\ j \in 1..(n + 1)
      BY <1>1, <1>2, <1>4
    <2>2. CASE i = n + 1
      <3>1. command = "unbind"
        BY <1>1, <1>2, <1>4, <2>2
      <3>2. j # n + 1
        BY <1>1, <1>2, <1>4, <3>1
      <3> QED BY <2>1, <2>2, <3>2
    <2>3. CASE i # n + 1
      <3>1. i \in 1..n /\ ipc[c][i].cmd = "unbind" /\ i \in DOMAIN ipc[c]
            /\ ipc[c][i] = ipc'[c][i]
        BY <1>1, <1>2, <1>4, <2>1, <2>3
      <3>2. j # n + 1
        <4> SUFFICES ASSUME j = n + 1 PROVE FALSE
          OBVIOUS
        <4>1. command = "bind" /\ ipc[c][i].uid = uid
          BY <1>1, <1>2, <1>4, <3>1
        <4>2. ipc[c][i] \in Command
          BY <3>1
        <4>3. ipc[c][i] = [cmd |-> "unbind", uid |-> uid]
          BY <3>1, <4>1, <4>2 DEF Command
        <4> QED BY <3>1, <4>1, <4>3 DEF UnbindQueued
      <3>3. j \in DOMAIN ipc[c] /\ ipc[c][j] = ipc'[c][j]
        BY <1>1, <1>2, <2>1, <3>2
      <3> QED BY <1>4, <3>1, <3>3 DEF BindsFirst
    <2> QED BY <2>2, <2>3
  <1> QED BY <1>3, <1>4

\* NeverCut when a command was sent: before it as it was, after it by what the worker has
\* at the end.
LEMMA NeverCutSends ==
    ASSUME CoreInv, CoreInv', NeverCut, Fed', UNCHANGED <<rootVars, clients>>,
           NEW c \in Cid, c \in crew, NEW command \in {"bind", "unbind"}, NEW uid \in Cid,
           ToWorker(c, command, uid)
    PROVE  NeverCut'
  <1> SUFFICES ASSUME NEW b \in Bindings', b.from \in Op, NEW i \in 0..Len(ipc'[b.from])
               PROVE  \E e \in Cid : /\ e < cluster_id' /\ origin'[e] = origin'[b.to]
                                     /\ Stays(b.from, e, i)'
    BY DEF NeverCut
  <1>1. ipc \in [Cid -> Seq(Command)]
    BY CoreIs DEF ChannelTypes
  <1>2. b \in Bindings /\ b.from \in Cid /\ cluster_id' = cluster_id /\ origin' = origin
    <2>1. b \in Bindings
      BY DEF Bindings, rootVars
    <2> QED BY <2>1, CoreIs, BindingsAre DEF rootVars
  <1>3. /\ \A d, e \in Cid : \A j \in 0..Len(ipc[d]) : Stays(d, e, j) => Stays(d, e, j)'
        /\ \A d \in Cid : d # c => Len(ipc'[d]) = Len(ipc[d])
        /\ Len(ipc'[c]) = Len(ipc[c]) + 1 /\ Len(ipc[c]) \in Nat
    BY <1>1, CommandSent
  <1>4. CASE i \in 0..Len(ipc[b.from])
    <2>1. PICK e \in Cid : e < cluster_id /\ origin[e] = origin[b.to] /\ Stays(b.from, e, i)
      BY <1>2, <1>4 DEF NeverCut
    <2>2. Stays(b.from, e, i)'
      BY <1>2, <1>3, <1>4, <2>1
    <2> QED BY <1>2, <2>1, <2>2
  <1>5. CASE i \notin 0..Len(ipc[b.from])
    <2>1. i = Len(ipc'[b.from])
      BY <1>2, <1>3, <1>5
    <2>2. \A m \in Mig : mig'[m].phase = "bind" => mig'[m].new # b.from
      <3> SUFFICES ASSUME NEW m \in Mig, mig'[m].phase = "bind" PROVE mig'[m].new # b.from
        OBVIOUS
      <3>1. mig' = mig
        BY DEF rootVars
      <3>2. Begun(m)
        BY <3>1 DEF Begun
      <3>3. Ends(m)
        BY CoreIs
      <3> QED BY <3>1, <3>2, <3>3 DEF Ends
    <2>3. Sockets'
      BY FullyFed, PTL
    <2> QED BY <2>1, <2>2, <2>3 DEF Sockets
  <1> QED BY <1>4, <1>5

LEMMA WorkersGotWorkers ==
    ASSUME CoreInv, CoreInv', WorkerInv, NEW h \in Host, GotWorkers(h)
    PROVE  WorkerInv'
  <1>1. PICK x : x = Head(down[h])
    OBVIOUS
  <1>2. PICK y : y = [op |-> "bound", m |-> x.m, from |-> x.from, to |-> x.to]
    OBVIOUS
  <1>3. /\ down[h] # <<>> /\ x.op = "workers" /\ down' = [down EXCEPT ![h] = Tail(@)]
        /\ x.found /\ x.from \in hosted[h] =>
               ToWorker(x.from, "bind", x.to) /\ up' = [up EXCEPT ![h] = @ \o <<y>>]
        /\ UNCHANGED <<rootVars, hostVars, workerVars>>
    BY <1>1, <1>2 DEF GotWorkers, FromRoot, Pop, Answer
  <1>4. x \in Message /\ x \in Sent /\ x.m \in Mig /\ Timely(x) /\ Called(h, x)
    BY <1>1, <1>3, CoreIs, Arrived
  <1>5. x.from \in Cid /\ x.to \in Cid
    BY <1>3, <1>4, MessageIs DEF PairOps, BindOps
  <1>6. Kind(x.op) = "bind"
    BY <1>3, KindIs DEF BindOps
  <1>7. /\ mig[x.m].phase = "bind" /\ Pair(x) \in NewPairs(x.m) /\ x.found
        /\ h = clusters[x.from] /\ Busy(x.m)
    BY <1>3, <1>4, <1>6 DEF Timely, Called, Busy
  <1>8. Pair(x) \in Bindings /\ Pair(x).from = x.from /\ Pair(x).to = x.to
    BY <1>4, <1>7, CoreIs DEF Recorded, Pair
  <1>9. x.from \in hosted[h] /\ x.from \in crew
    <2>1. Present(x.from)
      BY <1>8, CoreIs DEF Linked
    <2> QED BY <1>4, <1>5, <1>7, <2>1, HostedAt
  <1>10. /\ ToWorker(x.from, "bind", x.to) /\ up' = [up EXCEPT ![h] = @ \o <<y>>]
         /\ UNCHANGED <<rootVars, hosted, crew, from_nodes, clients>>
    BY <1>3, <1>7, <1>9 DEF hostVars, workerVars
  <1>11. y \in Message /\ y.op = "bound"
    BY <1>2, <1>4, <1>5, MessagesAre
  <1>12. Swaps(x, {y})
    BY <1>1, <1>3, <1>10, <1>11, HostSwapsOne
  <1>13. ipc \in [Cid -> Seq(Command)]
    BY CoreIs DEF ChannelTypes
  <1>14. /\ \A d, e \in Cid : BindQueued(d, e)' <=> BindQueued(d, e) \/ (d = x.from /\ e = x.to)
         /\ \A d, e \in Cid : UnbindQueued(d, e)' <=> UnbindQueued(d, e)
    BY <1>5, <1>9, <1>10, <1>13, CommandSent
  <1>15. \A d, e \in Cid : Given(d, e)' <=> Given(d, e) \/ (d = x.from /\ e = x.to)
    BY <1>10, <1>14 DEF Given
  <1>16. \A op \in {"unbind_cluster", "unbind_cluster_process"} : \A d, e :
             Of(op, d, e)' <=> Of(op, d, e)
    BY <1>3, <1>11, <1>12, OfIs
  <1>17. \A d, e \in Cid : (Leaving(d, e)' <=> Leaving(d, e)) /\ (Unbinding(d, e)' <=> Unbinding(d, e))
    BY <1>14, <1>16 DEF Leaving, Unbinding
  <1>18. Flows
    <2> SUFFICES ASSUME NEW d \in Cid, NEW e \in Cid, Ungiven(d, e)
                 PROVE  Ungiven(d, e)' \/ Given(d, e)'
      BY <1>15, <1>17 DEF Flows
    <2>1. \A op : Of(op, d, e) => Of(op, d, e)' \/ (x.from = d /\ x.to = e)
      BY <1>12, OfIs
    <2>2. Ungiven(d, e)' \/ (x.from = d /\ x.to = e)
      BY <2>1 DEF Ungiven
    <2> QED BY <1>15, <2>2
  <1>19. /\ BindsAlike /\ PairsAlike /\ DropsAlike /\ Bindings' = Bindings
    BY <1>10, RootAlike
  <1>20. Fed'
    BY <1>18, <1>19, FedKeeps, WorkerIs
  <1>21. NeverCut'
    BY <1>5, <1>9, <1>10, <1>20, NeverCutSends, WorkerIs
  <1>22. Told'
    <2>1. HostsRemember /\ Notifies(x, {y})
      BY <1>3, <1>10 DEF HostsRemember, Notifies
    <2> QED BY <1>12, <1>19, <2>1, ToldKeeps, WorkerIs
  <1>23. Ahead'
    BY <1>10, <1>11, <1>12, AheadStays, WorkerIs
  <1>24. NoMore'
    <2>1. NoMore
      BY WorkerIs
    <2>2. BindsFirst'
      <3>1. ~ UnbindQueued(x.from, x.to)
        BY <1>8, WorkerIs DEF Fed, Unbinding, Leaving
      <3> QED BY <1>5, <1>9, <1>10, <1>13, <2>1, <3>1, BindsFirstSent DEF NoMore
    <2>3. mig' = mig /\ \A p : Dropping(p)' <=> Dropping(p)
      BY <1>10 DEF Dropping, OldPairs, rootVars
    <2>4. ASSUME NEW d \in Cid, NEW e \in Cid, Given(d, e)'
          PROVE  \/ [from |-> d, to |-> e] \in Bindings' \/ Leaving(d, e)'
                 \/ Dropping([from |-> d, to |-> e])'
      <3>1. CASE Given(d, e)
        BY <1>17, <1>19, <2>1, <2>3, <3>1 DEF NoMore
      <3>2. CASE d = x.from /\ e = x.to
        BY <1>8, <1>19, <3>2 DEF Pair
      <3> QED BY <1>15, <2>4, <3>1, <3>2
    <2>5. ASSUME NEW m \in Mig, mig'[m].phase = "unbind", ~ Lost(m)', NEW p \in OldPairs(m)',
                 Given(p.from, p.to)'
          PROVE  Unbinding(p.from, p.to)'
      <3>1. mig[m].phase = "unbind" /\ Busy(m)
        BY <2>3, <2>5 DEF Busy
      <3>2. m = x.m
        BY <1>4, <1>7, <3>1, CoreIs, OneBusy
      <3> QED BY <1>7, <3>1, <3>2
    <2> QED BY <2>2, <2>4, <2>5 DEF NoMore
  <1> QED BY <1>20, <1>21, <1>22, <1>23, <1>24, WorkerIs DEF WorkerInv

LEMMA NoMoreRests ==
    ASSUME CoreInv, NoMore, BindsFirst', Bindings \subseteq Bindings', DropsAlike,
           \A m \in Mig : mig[m].phase = "unbind" /\ Lost(m) => Lost(m)',
           \A c, e \in Cid : Given(c, e)' => /\ Given(c, e) /\ (Leaving(c, e) => Leaving(c, e)')
                                             /\ (Unbinding(c, e) => Unbinding(c, e)')
    PROVE  NoMore'
  <1>1. \A p : Dropping(p) => Dropping(p)'
    BY DEF Dropping, DropsAlike, OldPairs
  <1>2. ASSUME NEW c \in Cid, NEW e \in Cid, Given(c, e)'
        PROVE  \/ [from |-> c, to |-> e] \in Bindings' \/ Leaving(c, e)'
               \/ Dropping([from |-> c, to |-> e])'
    BY <1>1, <1>2 DEF NoMore
  <1>3. ASSUME NEW m \in Mig, mig'[m].phase = "unbind", ~ Lost(m)', NEW p \in OldPairs(m)',
               Given(p.from, p.to)'
        PROVE  Unbinding(p.from, p.to)'
    <2>1. mig[m].phase = "unbind" /\ p \in OldPairs(m) /\ ~ Lost(m)
      BY <1>3 DEF DropsAlike, OldPairs
    <2>2. p.from \in Cid /\ p.to \in Cid
      <3>1. OldPairs(m) \subseteq Binding
        BY CoreIs, PairsAre
      <3> QED BY <2>1, <3>1 DEF Binding
    <2> QED BY <1>3, <2>1, <2>2 DEF NoMore
  <1> QED BY <1>2, <1>3 DEF NoMore

LEMMA WorkersUnbindProcess ==
    ASSUME CoreInv, CoreInv', WorkerInv, NEW h \in Host, UnbindProcess(h)
    PROVE  WorkerInv'
  <1>1. PICK x : x = Head(down[h])
    OBVIOUS
  <1>2. /\ down[h] # <<>> /\ x.op = "unbind_cluster_process" /\ down' = [down EXCEPT ![h] = Tail(@)]
        /\ x.from \in hosted[h] => ToWorker(x.from, "unbind", x.to)
        /\ UNCHANGED <<rootVars, hosted, crew, from_nodes, up, clients>>
    BY <1>1 DEF UnbindProcess, FromRoot, Pop, hostVars, workerVars
  <1>3. x \in Message /\ x \in Sent /\ Called(h, x)
    BY <1>1, <1>2, CoreIs, Arrived
  <1>4. x.from \in Cid /\ x.to \in Cid
    BY <1>2, <1>3, MessageIs DEF PairOps
  <1>5. x.from \in hosted[h] /\ x.from \in crew
    BY <1>2, <1>3, WorkerIs DEF Ahead, Called
  <1>6. ToWorker(x.from, "unbind", x.to)
    BY <1>2, <1>5
  <1>7. Swaps(x, {})
    BY <1>1, <1>2, HostSwapsNone
  <1>8. ipc \in [Cid -> Seq(Command)]
    BY CoreIs DEF ChannelTypes
  <1>9. /\ \A d, e \in Cid : BindQueued(d, e)' <=> BindQueued(d, e)
        /\ \A d, e \in Cid : UnbindQueued(d, e)' <=> UnbindQueued(d, e) \/ (d = x.from /\ e = x.to)
    BY <1>2, <1>4, <1>5, <1>6, <1>8, CommandSent
  <1>10. \A d, e \in Cid : Given(d, e)' <=> Given(d, e)
    BY <1>2, <1>9 DEF Given
  <1>11. \A op, d, e : /\ Of(op, d, e)' => Of(op, d, e)
                       /\ Of(op, d, e) => \/ Of(op, d, e)'
                                          \/ op = "unbind_cluster_process" /\ d = x.from /\ e = x.to
    BY <1>2, <1>7, OfIs
  <1>12. Of("unbind_cluster_process", x.from, x.to)
    BY <1>2, <1>3 DEF Of
  <1>13. \A d, e \in Cid : Leaving(d, e)' <=> Leaving(d, e)
    BY <1>9, <1>11, <1>12 DEF Leaving
  <1>14. \A d, e \in Cid : Unbinding(d, e)' <=> Unbinding(d, e)
    BY <1>11, <1>13 DEF Unbinding
  <1>15. \A d, e \in Cid : Ungiven(d, e) => Ungiven(d, e)'
    BY <1>11 DEF Ungiven
  <1>16. Flows
    BY <1>10, <1>14, <1>15 DEF Flows
  <1>17. BindsAlike /\ PairsAlike /\ DropsAlike /\ Bindings' = Bindings
    BY <1>2, RootAlike
  <1>18. Fed'
    BY <1>16, <1>17, FedKeeps, WorkerIs
  <1>19. NeverCut'
    BY <1>2, <1>4, <1>5, <1>6, <1>18, NeverCutSends, WorkerIs
  <1>20. Told'
    <2>1. HostsRemember /\ Notifies(x, {})
      BY <1>2 DEF HostsRemember, Notifies
    <2> QED BY <1>7, <1>17, <2>1, ToldKeeps, WorkerIs
  <1>21. Ahead'
    BY <1>2, <1>7, AheadStays, WorkerIs
  <1>22. NoMore'
    <2>1. BindsFirst'
      BY <1>4, <1>5, <1>6, <1>8, BindsFirstSent, WorkerIs DEF NoMore
    <2>2. \A m \in Mig : mig[m].phase = "unbind" /\ Lost(m) => Lost(m)'
      <3>1. UNCHANGED mig
        BY <1>2 DEF rootVars
      <3> QED BY <1>7, <3>1, AllLostKept
    <2> QED BY <1>10, <1>13, <1>14, <1>17, <2>1, <2>2, NoMoreRests, WorkerIs
  <1> QED BY <1>18, <1>19, <1>20, <1>21, <1>22, WorkerIs DEF WorkerInv

-----------------------------------------------------------------------------
(* The steps of a worker. *)

LEMMA CommandTaken ==
    ASSUME ipc \in [Cid -> Seq(Command)], NEW c \in Cid, NEW command, FromParent(c, command)
    PROVE  /\ \A d \in Cid : d # c => ipc'[d] = ipc[d]
           /\ Len(ipc'[c]) \in Nat /\ Len(ipc[c]) = Len(ipc'[c]) + 1
           /\ DOMAIN ipc'[c] = 1..Len(ipc'[c]) /\ DOMAIN ipc[c] = 1..(Len(ipc'[c]) + 1)
           /\ \A i \in 1..Len(ipc'[c]) : ipc'[c][i] = ipc[c][i + 1]
           /\ ipc[c][1] = Head(ipc[c]) /\ Head(ipc[c]) = [cmd |-> command, uid |-> Head(ipc[c]).uid]
           /\ Head(ipc[c]).uid \in Cid
  <1>1. PICK s \in Seq(Command) : s = ipc[c]
    OBVIOUS
  <1>2. s # <<>> /\ Head(s).cmd = command /\ ipc' = [ipc EXCEPT ![c] = Tail(s)]
    BY <1>1 DEF FromParent
  <1>3. ipc'[c] = Tail(s) /\ \A d \in Cid : d # c => ipc'[d] = ipc[d]
    BY <1>2
  <1>4. /\ Tail(s) \in Seq(Command) /\ Len(Tail(s)) = Len(s) - 1 /\ Len(s) \in Nat /\ Len(s) > 0
        /\ \A i \in 1..(Len(s) - 1) : Tail(s)[i] = s[i + 1]
    BY <1>2, HeadTailProperties, LenProperties, EmptySeq
  <1>5. DOMAIN s = 1..Len(s) /\ DOMAIN Tail(s) = 1..(Len(s) - 1)
    BY <1>4, LenProperties
  <1>6. Head(s) = s[1] /\ s[1] \in Command
    BY <1>2, <1>4
  <1>7. s[1] = [cmd |-> command, uid |-> s[1].uid] /\ s[1].uid \in Cid
    BY <1>2, <1>6 DEF Command
  <1> QED BY <1>1, <1>3, <1>4, <1>5, <1>6, <1>7

LEMMA CommandGone ==
    ASSUME ipc \in [Cid -> Seq(Command)], NEW c \in Cid, NEW command, FromParent(c, command),
           NEW uid, uid = Head(ipc[c]).uid
    PROVE  /\ \A d, e \in Cid : /\ BindQueued(d, e)' => BindQueued(d, e)
                                /\ BindQueued(d, e) => \/ BindQueued(d, e)'
                                                       \/ command = "bind" /\ d = c /\ e = uid
           /\ \A d, e \in Cid : /\ UnbindQueued(d, e)' => UnbindQueued(d, e)
                                /\ UnbindQueued(d, e) => \/ UnbindQueued(d, e)'
                                                         \/ command = "unbind" /\ d = c /\ e = uid
           /\ command = "unbind" => UnbindQueued(c, uid)
  <1>1. /\ \A d \in Cid : d # c => ipc'[d] = ipc[d]
        /\ Len(ipc'[c]) \in Nat /\ Len(ipc[c]) = Len(ipc'[c]) + 1
        /\ DOMAIN ipc'[c] = 1..Len(ipc'[c]) /\ DOMAIN ipc[c] = 1..(Len(ipc'[c]) + 1)
        /\ \A i \in 1..Len(ipc'[c]) : ipc'[c][i] = ipc[c][i + 1]
        /\ ipc[c][1] = [cmd |-> command, uid |-> uid]
    BY CommandTaken
  <1>2. \A i \in DOMAIN ipc'[c] : i + 1 \in DOMAIN ipc[c] /\ ipc'[c][i] = ipc[c][i + 1]
    BY <1>1
  <1>3. \A i \in DOMAIN ipc[c] : i = 1 \/ \E j \in DOMAIN ipc'[c] : ipc'[c][j] = ipc[c][i]
    <2> TAKE i \in DOMAIN ipc[c]
    <2>1. i # 1 => i - 1 \in 1..Len(ipc'[c]) /\ (i - 1) + 1 = i
      BY <1>1
    <2> QED BY <1>1, <2>1
  <1>4. \A d \in Cid : d # c => \A e \in Cid : /\ BindQueued(d, e)' <=> BindQueued(d, e)
                                               /\ UnbindQueued(d, e)' <=> UnbindQueued(d, e)
    BY <1>1 DEF BindQueued, UnbindQueued
  <1>5. ASSUME NEW e \in Cid
        PROVE  /\ BindQueued(c, e)' => BindQueued(c, e)
               /\ BindQueued(c, e) =>
                      \/ BindQueued(c, e)'
                      \/ [cmd |-> command, uid |-> uid] = [cmd |-> "bind", uid |-> e]
    <2>1. BindQueued(c, e)' => BindQueued(c, e)
      BY <1>2 DEF BindQueued
    <2>2. ASSUME NEW i \in DOMAIN ipc[c], ipc[c][i] = [cmd |-> "bind", uid |-> e],
                 NEW j \in DOMAIN ipc'[c], ipc'[c][j] = ipc[c][i]
          PROVE  BindQueued(c, e)'
      BY <2>2 DEF BindQueued
    <2>3. BindQueued(c, e) => \E i \in DOMAIN ipc[c] : ipc[c][i] = [cmd |-> "bind", uid |-> e]
      BY DEF BindQueued
    <2> QED BY <1>1, <1>3, <2>1, <2>2, <2>3
  <1>6. ASSUME NEW e \in Cid
        PROVE  /\ UnbindQueued(c, e)' => UnbindQueued(c, e)
               /\ UnbindQueued(c, e) =>
                      \/ UnbindQueued(c, e)'
                      \/ [cmd |-> command, uid |-> uid] = [cmd |-> "unbind", uid |-> e]
    <2>1. UnbindQueued(c, e)' => UnbindQueued(c, e)
      BY <1>2 DEF UnbindQueued
    <2>2. ASSUME NEW i \in DOMAIN ipc[c], ipc[c][i] = [cmd |-> "unbind", uid |-> e],
                 NEW j \in DOMAIN ipc'[c], ipc'[c][j] = ipc[c][i]
          PROVE  UnbindQueued(c, e)'
      BY <2>2 DEF UnbindQueued
    <2>3. UnbindQueued(c, e) => \E i \in DOMAIN ipc[c] : ipc[c][i] = [cmd |-> "unbind", uid |-> e]
      BY DEF UnbindQueued
    <2> QED BY <1>1, <1>3, <2>1, <2>2, <2>3
  <1>7. \A a, b, d, e : [cmd |-> a, uid |-> b] = [cmd |-> d, uid |-> e] => a = d /\ b = e
    OBVIOUS
  <1>8. command = "unbind" => UnbindQueued(c, uid)
    <2>1. 1 \in DOMAIN ipc[c]
      BY <1>1
    <2> QED BY <1>1, <2>1 DEF UnbindQueued
  <1>9. ASSUME NEW d \in Cid, NEW e \in Cid
        PROVE  /\ BindQueued(d, e)' => BindQueued(d, e)
               /\ BindQueued(d, e) => \/ BindQueued(d, e)'
                                      \/ command = "bind" /\ d = c /\ e = uid
               /\ UnbindQueued(d, e)' => UnbindQueued(d, e)
               /\ UnbindQueued(d, e) => \/ UnbindQueued(d, e)'
                                        \/ command = "unbind" /\ d = c /\ e = uid
    <2>1. CASE d # c
      BY <1>4, <2>1
    <2>2. CASE d = c
      BY <1>5, <1>6, <1>7, <2>2
    <2> QED BY <2>1, <2>2
  <1> QED BY <1>8, <1>9

LEMMA BindsFirstTaken ==
    ASSUME ipc \in [Cid -> Seq(Command)], BindsFirst, NEW c \in Cid, NEW command,
           FromParent(c, command), NEW uid, uid = Head(ipc[c]).uid
    PROVE  /\ BindsFirst'
           /\ command = "unbind" => ~ BindQueued(c, uid)'
  <1>1. /\ \A d \in Cid : d # c => ipc'[d] = ipc[d]
        /\ Len(ipc'[c]) \in Nat /\ Len(ipc[c]) = Len(ipc'[c]) + 1
        /\ DOMAIN ipc'[c] = 1..Len(ipc'[c]) /\ DOMAIN ipc[c] = 1..(Len(ipc'[c]) + 1)
        /\ \A i \in 1..Len(ipc'[c]) : ipc'[c][i] = ipc[c][i + 1]
        /\ ipc[c][1] = [cmd |-> command, uid |-> uid]
    BY CommandTaken
  <1>2. \A i \in DOMAIN ipc'[c] : i \in Nat /\ i >= 1 /\ i + 1 \in DOMAIN ipc[c]
                                  /\ ipc'[c][i] = ipc[c][i + 1]
    BY <1>1
  <1>3. ASSUME NEW d \in Cid, NEW i \in DOMAIN ipc'[d], NEW j \in DOMAIN ipc'[d],
               ipc'[d][i].cmd = "unbind", ipc'[d][j].cmd = "bind",
               ipc'[d][i].uid = ipc'[d][j].uid
        PROVE  j < i
    <2>1. CASE d # c
      BY <1>1, <1>3, <2>1 DEF BindsFirst
    <2>2. CASE d = c
      <3>1. /\ i + 1 \in DOMAIN ipc[c] /\ j + 1 \in DOMAIN ipc[c] /\ i \in Nat /\ j \in Nat
            /\ ipc[c][i + 1] = ipc'[c][i] /\ ipc[c][j + 1] = ipc'[c][j]
        BY <1>2, <2>2
      <3>2. j + 1 < i + 1
        BY <1>3, <2>2, <3>1 DEF BindsFirst
      <3> QED BY <3>1, <3>2
    <2> QED BY <2>1, <2>2
  <1>4. ASSUME command = "unbind", BindQueued(c, uid)' PROVE FALSE
    <2>1. PICK i \in DOMAIN ipc'[c] : ipc'[c][i] = [cmd |-> "bind", uid |-> uid]
      BY <1>4 DEF BindQueued
    <2>2. /\ i \in Nat /\ i >= 1 /\ i + 1 \in DOMAIN ipc[c] /\ 1 \in DOMAIN ipc[c]
          /\ ipc[c][i + 1] = [cmd |-> "bind", uid |-> uid]
      BY <1>1, <1>2, <2>1
    <2>3. ipc[c][1].cmd = "unbind" /\ ipc[c][1].uid = uid
          /\ ipc[c][i + 1].cmd = "bind" /\ ipc[c][i + 1].uid = uid
      BY <1>1, <1>4, <2>2
    <2>4. i + 1 < 1
      BY <2>2, <2>3 DEF BindsFirst
    <2> QED BY <2>2, <2>4
  <1> QED BY <1>3, <1>4 DEF BindsFirst

\* What the messages and the root have to do with is as it was.
LEMMA WorkersTake ==
    ASSUME CoreInv, CoreInv', WorkerInv, UNCHANGED <<rootVars, hostVars, down, up>>,
           Flows, NeverCut', BindsFirst',
           \A c, e \in Cid : Given(c, e)' => /\ Given(c, e) /\ (Leaving(c, e) => Leaving(c, e)')
                                             /\ (Unbinding(c, e) => Unbinding(c, e)')
    PROVE  WorkerInv'
  <1>1. /\ BindsAlike /\ PairsAlike /\ DropsAlike /\ Bindings' = Bindings
    BY RootAlike
  <1>2. Sent' = Sent /\ up' = up /\ down' = down /\ mig' = mig /\ clusters' = clusters
        /\ hosted' = hosted /\ crew' = crew /\ from_nodes' = from_nodes
    BY DEF Sent, rootVars, hostVars
  <1>3. Fed'
    BY <1>1, FedKeeps, WorkerIs
  <1>4. Told'
    <2>1. Told
      BY WorkerIs
    <2>2. \A b : Noted(b)' <=> Noted(b)
      BY <1>2 DEF Noted
    <2>3. \A op, c, e : Of(op, c, e)' <=> Of(op, c, e)
      BY <1>2 DEF Of
    <2>4. \A m : OldPairs(m)' = OldPairs(m)
      BY <1>2 DEF OldPairs
    <2> QED BY <1>1, <1>2, <2>1, <2>2, <2>3, <2>4 DEF Told
  <1>5. Ahead'
    BY <1>2, WorkerIs DEF Ahead
  <1>6. \A m \in Mig : Lost(m) => Lost(m)'
    <2>1. \A m : UnbindsComing(m)' = UnbindsComing(m) /\ Length(m)' = Length(m)
      BY <1>2 DEF UnbindsComing, Coming, OldPairs, Length
    <2> QED BY <1>2, <2>1 DEF Lost
  <1>7. NoMore'
    <2>1. Bindings \subseteq Bindings'
      BY <1>1
    <2>2. NoMore
      BY WorkerIs
    <2> QED BY <1>1, <1>6, <2>1, <2>2, NoMoreRests
  <1> QED BY <1>3, <1>4, <1>5, <1>7, WorkerIs DEF WorkerInv

\* A socket that stays after one command more was there, or its bind, before it.
LEMMA NeverCutTakes ==
    ASSUME CoreInv, NeverCut, UNCHANGED rootVars, NEW c \in Cid, NEW command, FromParent(c, command),
           \A d \in Cid : d # c => clients'[d] = clients[d],
           \A e \in Cid : \A i \in 0..Len(ipc'[c]) : Stays(c, e, i + 1) => Stays(c, e, i)'
    PROVE  NeverCut'
  <1> SUFFICES ASSUME NEW b \in Bindings', b.from \in Op, NEW i \in 0..Len(ipc'[b.from])
               PROVE  \E e \in Cid : /\ e < cluster_id' /\ origin'[e] = origin'[b.to]
                                     /\ Stays(b.from, e, i)'
    BY DEF NeverCut
  <1>1. ipc \in [Cid -> Seq(Command)]
    BY CoreIs DEF ChannelTypes
  <1>2. b \in Bindings /\ b.from \in Cid /\ cluster_id' = cluster_id /\ origin' = origin
    <2>1. b \in Bindings
      BY DEF Bindings, rootVars
    <2> QED BY <2>1, CoreIs, BindingsAre DEF rootVars
  <1>3. /\ \A d \in Cid : d # c => ipc'[d] = ipc[d]
        /\ Len(ipc'[c]) \in Nat /\ Len(ipc[c]) = Len(ipc'[c]) + 1
    BY <1>1, CommandTaken
  <1>4. CASE b.from # c
    <2>1. i \in 0..Len(ipc[b.from])
      BY <1>2, <1>3, <1>4
    <2>2. PICK e \in Cid : e < cluster_id /\ origin[e] = origin[b.to] /\ Stays(b.from, e, i)
      BY <1>2, <2>1 DEF NeverCut
    <2>3. ipc'[b.from] = ipc[b.from] /\ clients'[b.from] = clients[b.from]
      BY <1>2, <1>3, <1>4
    <2>4. Stays(b.from, e, i)'
      BY <2>2, <2>3 DEF Stays
    <2> QED BY <1>2, <2>2, <2>4
  <1>5. CASE b.from = c
    <2>1. i + 1 \in 0..Len(ipc[b.from]) /\ i \in 0..Len(ipc'[c])
      BY <1>3, <1>5
    <2>2. PICK e \in Cid : e < cluster_id /\ origin[e] = origin[b.to] /\ Stays(b.from, e, i + 1)
      BY <1>2, <2>1 DEF NeverCut
    <2>3. Stays(b.from, e, i)'
      BY <1>5, <2>1, <2>2
    <2> QED BY <1>2, <2>2, <2>3
  <1> QED BY <1>4, <1>5

LEMMA WorkersBindNode ==
    ASSUME CoreInv, CoreInv', WorkerInv, NEW c \in Cid, BindNode(c)
    PROVE  WorkerInv'
  <1>1. PICK u : u = Head(ipc[c]).uid
    OBVIOUS
  <1>2. /\ FromParent(c, "bind") /\ clients' = [clients EXCEPT ![c] = @ \cup {u}]
        /\ UNCHANGED <<rootVars, hostVars, down, up>>
    BY <1>1 DEF BindNode, FromParent
  <1>3. ipc \in [Cid -> Seq(Command)] /\ clients \in [Cid -> SUBSET Cid]
    BY CoreIs DEF ChannelTypes
  <1>4. /\ clients'[c] = clients[c] \cup {u}
        /\ \A d \in Cid : d # c => clients'[d] = clients[d]
    BY <1>2, <1>3
  <1>5. /\ \A i \in 1..Len(ipc'[c]) : ipc'[c][i] = ipc[c][i + 1]
        /\ Len(ipc'[c]) \in Nat /\ Len(ipc[c]) = Len(ipc'[c]) + 1
        /\ DOMAIN ipc[c] = 1..(Len(ipc'[c]) + 1)
        /\ ipc[c][1] = [cmd |-> "bind", uid |-> u]
    BY <1>1, <1>2, <1>3, CommandTaken
  <1>6. /\ \A d, e \in Cid : /\ BindQueued(d, e)' => BindQueued(d, e)
                             /\ BindQueued(d, e) => BindQueued(d, e)' \/ (d = c /\ e = u)
        /\ \A d, e \in Cid : UnbindQueued(d, e)' <=> UnbindQueued(d, e)
    <2>1. /\ \A d, e \in Cid : /\ BindQueued(d, e)' => BindQueued(d, e)
                               /\ BindQueued(d, e) => \/ BindQueued(d, e)'
                                                      \/ "bind" = "bind" /\ d = c /\ e = u
          /\ \A d, e \in Cid : /\ UnbindQueued(d, e)' => UnbindQueued(d, e)
                               /\ UnbindQueued(d, e) => \/ UnbindQueued(d, e)'
                                                        \/ "bind" = "unbind" /\ d = c /\ e = u
      BY <1>1, <1>2, <1>3, CommandGone
    <2> QED BY <2>1
  <1>7. BindQueued(c, u)
    <2>1. 1 \in DOMAIN ipc[c]
      BY <1>5
    <2> QED BY <1>5, <2>1 DEF BindQueued
  <1>8. \A d, e \in Cid : Given(d, e)' <=> Given(d, e)
    BY <1>4, <1>6, <1>7 DEF Given
  <1>9. \A op, d, e : Of(op, d, e)' <=> Of(op, d, e)
    BY <1>2 DEF Of, Sent
  <1>10. \A d, e \in Cid : /\ Leaving(d, e)' <=> Leaving(d, e)
                           /\ Unbinding(d, e)' <=> Unbinding(d, e)
                           /\ Ungiven(d, e)' <=> Ungiven(d, e)
    BY <1>6, <1>9 DEF Leaving, Unbinding, Ungiven
  <1>11. Flows
    BY <1>8, <1>10 DEF Flows
  <1>12. BindsFirst'
    BY <1>1, <1>2, <1>3, BindsFirstTaken, WorkerIs DEF NoMore
  <1>13. ASSUME NEW e \in Cid, NEW i \in 0..Len(ipc'[c]), Stays(c, e, i + 1)
         PROVE  Stays(c, e, i)'
    <2>1. \A j \in 1..i : j + 1 \in 1..(i + 1) /\ ipc'[c][j] = ipc[c][j + 1]
      BY <1>5
    <2>2. \A j \in 1..i : ipc'[c][j] # [cmd |-> "unbind", uid |-> e]
      BY <1>13, <2>1 DEF Stays
    <2>3. CASE e \in clients[c]
      BY <1>4, <2>2, <2>3 DEF Stays
    <2>4. ASSUME NEW j \in 1..(i + 1), ipc[c][j] = [cmd |-> "bind", uid |-> e]
          PROVE  e \in clients'[c] \/ \E k \in 1..i : ipc'[c][k] = [cmd |-> "bind", uid |-> e]
      <3>1. CASE j = 1
        <4>1. [cmd |-> "bind", uid |-> e].uid = [cmd |-> "bind", uid |-> u].uid
          BY <1>5, <2>4, <3>1
        <4> QED BY <1>4, <4>1
      <3>2. CASE j # 1
        <4>1. j - 1 \in 1..i /\ (j - 1) + 1 = j /\ j - 1 \in 1..Len(ipc'[c])
          BY <1>5, <3>2
        <4>2. ipc'[c][j - 1] = ipc[c][j]
          BY <1>5, <4>1
        <4> QED BY <2>4, <4>1, <4>2
      <3> QED BY <3>1, <3>2
    <2> QED BY <1>13, <2>2, <2>3, <2>4 DEF Stays
  <1>14. NeverCut'
    <2>1. NeverCut
      BY WorkerIs
    <2> QED BY <1>2, <1>4, <1>13, <2>1, NeverCutTakes
  <1> QED BY <1>2, <1>8, <1>10, <1>11, <1>12, <1>14, WorkersTake

\* A socket that is removed is not one that a bind in the queue gives again.
LEMMA WorkersUnbindNode ==
    ASSUME CoreInv, CoreInv', WorkerInv, NEW c \in Cid, UnbindNode(c)
    PROVE  WorkerInv'
  <1>1. PICK u : u = Head(ipc[c]).uid
    OBVIOUS
  <1>2. /\ FromParent(c, "unbind") /\ clients' = [clients EXCEPT ![c] = @ \ {u}]
        /\ UNCHANGED <<rootVars, hostVars, down, up>>
    BY <1>1 DEF UnbindNode, FromParent
  <1>3. ipc \in [Cid -> Seq(Command)] /\ clients \in [Cid -> SUBSET Cid]
    BY CoreIs DEF ChannelTypes
  <1>4. /\ clients'[c] = clients[c] \ {u}
        /\ \A d \in Cid : d # c => clients'[d] = clients[d]
    BY <1>2, <1>3
  <1>5. /\ \A i \in 1..Len(ipc'[c]) : ipc'[c][i] = ipc[c][i + 1]
        /\ Len(ipc'[c]) \in Nat /\ Len(ipc[c]) = Len(ipc'[c]) + 1
        /\ DOMAIN ipc[c] = 1..(Len(ipc'[c]) + 1)
        /\ ipc[c][1] = [cmd |-> "unbind", uid |-> u]
    BY <1>1, <1>2, <1>3, CommandTaken
  <1>6. /\ \A d, e \in Cid : BindQueued(d, e)' <=> BindQueued(d, e)
        /\ \A d, e \in Cid : /\ UnbindQueued(d, e)' => UnbindQueued(d, e)
                             /\ UnbindQueued(d, e) => UnbindQueued(d, e)' \/ (d = c /\ e = u)
        /\ UnbindQueued(c, u)
    BY <1>1, <1>2, <1>3, CommandGone
  <1>7. BindsFirst' /\ ~ BindQueued(c, u)'
    BY <1>1, <1>2, <1>3, BindsFirstTaken, WorkerIs DEF NoMore
  <1>8. \A d, e \in Cid : /\ Given(d, e)' => Given(d, e) /\ ~ (d = c /\ e = u)
                          /\ Given(d, e) => Given(d, e)' \/ (d = c /\ e = u)
    BY <1>4, <1>6, <1>7 DEF Given
  <1>9. \A op, d, e : Of(op, d, e)' <=> Of(op, d, e)
    BY <1>2 DEF Of, Sent
  <1>10. \A d, e \in Cid : /\ Leaving(d, e)' => Leaving(d, e)
                           /\ Leaving(d, e) => Leaving(d, e)' \/ (d = c /\ e = u)
                           /\ Unbinding(d, e)' => Unbinding(d, e)
                           /\ Unbinding(d, e) => Unbinding(d, e)' \/ (d = c /\ e = u)
                           /\ Ungiven(d, e)' <=> Ungiven(d, e)
    BY <1>6, <1>9 DEF Leaving, Unbinding, Ungiven
  <1>11. Flows
    <2>1. Unbinding(c, u)
      BY <1>6 DEF Unbinding, Leaving
    <2> QED BY <1>8, <1>10, <2>1 DEF Flows
  <1>12. ASSUME NEW e \in Cid, NEW i \in 0..Len(ipc'[c]), Stays(c, e, i + 1)
         PROVE  Stays(c, e, i)'
    <2>1. \A j \in 1..i : j + 1 \in 1..(i + 1) /\ ipc'[c][j] = ipc[c][j + 1]
      BY <1>5
    <2>2. \A j \in 1..i : ipc'[c][j] # [cmd |-> "unbind", uid |-> e]
      BY <1>12, <2>1 DEF Stays
    <2>3. e # u
      <3>1. 1 \in 1..(i + 1)
        BY <1>5
      <3> QED BY <1>5, <1>12, <3>1 DEF Stays
    <2>4. CASE e \in clients[c]
      BY <1>4, <2>2, <2>3, <2>4 DEF Stays
    <2>5. ASSUME NEW j \in 1..(i + 1), ipc[c][j] = [cmd |-> "bind", uid |-> e]
          PROVE  \E k \in 1..i : ipc'[c][k] = [cmd |-> "bind", uid |-> e]
      <3>1. j # 1
        <4>1. [cmd |-> "bind", uid |-> e].cmd # [cmd |-> "unbind", uid |-> u].cmd
          OBVIOUS
        <4> QED BY <1>5, <2>5, <4>1
      <3>2. j - 1 \in 1..i /\ (j - 1) + 1 = j /\ j - 1 \in 1..Len(ipc'[c])
        BY <1>5, <3>1
      <3>3. ipc'[c][j - 1] = ipc[c][j]
        BY <1>5, <3>2
      <3> QED BY <2>5, <3>2, <3>3
    <2> QED BY <1>12, <2>2, <2>4, <2>5 DEF Stays
  <1>13. NeverCut'
    <2>1. NeverCut
      BY WorkerIs
    <2> QED BY <1>2, <1>4, <1>12, <2>1, NeverCutTakes
  <1>14. \A d, e \in Cid : Given(d, e)' => /\ Given(d, e) /\ (Leaving(d, e) => Leaving(d, e)')
                                           /\ (Unbinding(d, e) => Unbinding(d, e)')
    BY <1>8, <1>10
  <1> QED BY <1>2, <1>7, <1>11, <1>13, <1>14, WorkersTake

-----------------------------------------------------------------------------
(* unbind_cluster. *)

LEMMA UnbindIs ==
    ASSUME CoreInv, NEW h \in Host, down[h] # <<>>, NEW x, x = Head(down[h]),
           x.op = "unbind_cluster"
    PROVE  /\ x \in Message /\ x \in Sent /\ x.m \in Mig /\ x.from \in Cid /\ x.to \in Cid
           /\ Kind(x.op) = "unbind" /\ mig[x.m].phase = "unbind" /\ Busy(x.m)
           /\ Pair(x) \in OldPairs(x.m) /\ Pair(x).from = x.from /\ Pair(x).to = x.to
           /\ h = clusters[x.from] /\ Present(x.from) /\ Present(x.to)
           /\ x.from \in hosted[h] \cap crew /\ x.to \in crew
  <1>1. x \in Message /\ x \in Sent /\ x.m \in Mig /\ Timely(x) /\ Called(h, x)
    BY CoreIs, Arrived
  <1>2. x.from \in Cid /\ x.to \in Cid
    BY <1>1, MessageIs DEF PairOps, UnbindOps
  <1>3. Kind(x.op) = "unbind"
    BY KindIs DEF UnbindOps
  <1>4. mig[x.m].phase = "unbind" /\ Pair(x) \in OldPairs(x.m) /\ h = clusters[x.from]
    BY <1>1, <1>3 DEF Timely, Called
  <1>5. Pair(x).from = x.from /\ Pair(x).to = x.to
    BY DEF Pair
  <1>6. Present(x.from) /\ Present(x.to)
    <2>1. Recorded(x.m)
      BY <1>1, CoreIs
    <2> QED BY <1>4, <1>5, <2>1 DEF Recorded
  <1>7. Busy(x.m)
    BY <1>4 DEF Busy
  <1>8. x.from \in hosted[clusters[x.from]] /\ x.from \in crew /\ x.to \in crew
    BY <1>1, <1>2, <1>4, <1>6, <1>7, HostedAt
  <1> QED BY <1>1, <1>2, <1>3, <1>4, <1>5, <1>6, <1>7, <1>8

\* Where it does not throw, it finds the binding, and sends the unbind of the worker before
\* its answer.
LEMMA UnbindSends ==
    ASSUME CoreInv, Told, NEW h \in Host, UnbindCluster(h), Unbindable(h, Head(down[h]).to),
           NEW x, x = Head(down[h])
    PROVE  \E u, y \in Message :
               /\ u.op = "unbind_cluster_process" /\ u.m = x.m /\ u.from = x.from /\ u.to = x.to
               /\ y.op = "unbound" /\ y.m = x.m /\ y.from = x.from /\ y.to = x.to
               /\ u.dst = h /\ Swaps(x, {u, y}) /\ Follows(up'[h], u, y)
  <1> DEFINE nodes == IF x.to \notin crew THEN {}
                      ELSE {e.node : e \in {e \in from_nodes[h] : e.to = x.to /\ e.from = x.from}}
             calls == [i \in 1..Cardinality(nodes) |->
                         [op |-> "unbind_cluster_process", m |-> x.m, from |-> x.from,
                          to |-> x.to, dst |-> SetToSeq(nodes)[i]]]
  <1>2. PICK y : y = [op |-> "unbound", m |-> x.m, from |-> x.from, to |-> x.to]
    OBVIOUS
  <1>3. PICK u : u = [op |-> "unbind_cluster_process", m |-> x.m, from |-> x.from,
                      to |-> x.to, dst |-> h]
    OBVIOUS
  <1>4. /\ down[h] # <<>> /\ x.op = "unbind_cluster" /\ down' = [down EXCEPT ![h] = Tail(@)]
        /\ up' = [up EXCEPT ![h] = @ \o (calls \o <<y>>)]
    BY <1>2 DEF UnbindCluster, FromRoot, Pop, Answer
  <1>5. /\ x.m \in Mig /\ x.from \in Cid /\ x.to \in Cid
        /\ mig[x.m].phase = "unbind" /\ Pair(x) \in OldPairs(x.m)
        /\ Pair(x).from = x.from /\ Pair(x).to = x.to
        /\ h = clusters[x.from] /\ Present(x.from) /\ x.to \in crew
    BY <1>4, UnbindIs
  <1>6. clusters[x.to] = h
    <2>1. x.to \in hosted[h]
      BY DEF Unbindable
    <2> QED BY <2>1, CoreIs DEF Hosted
  <1>7. nodes = {h}
    <2>1. \A e \in from_nodes[h] : e.from = x.from => e.node = h
      BY <1>5, CoreIs DEF Entered
    <2>2. PICK e \in from_nodes[h] : e.to = x.to /\ e.from = x.from
      <3>1. Noted(Pair(x))
        BY <1>5 DEF Told
      <3> QED BY <1>5, <1>6, <3>1 DEF Noted
    <2> QED BY <1>5, <2>1, <2>2
  <1>8. y \in Message /\ u \in Message
    BY <1>2, <1>3, <1>5, MessagesAre
  <1>9. /\ y.op = "unbound" /\ y.m = x.m /\ y.from = x.from /\ y.to = x.to
        /\ u.op = "unbind_cluster_process" /\ u.m = x.m /\ u.from = x.from /\ u.to = x.to
        /\ u.dst = h
    BY <1>2, <1>3
  <1>10. Label(u) # Label(y)
    <2>1. Kind(y.op) = "unbind" /\ Kind(u.op) = "unbind_cluster_process"
      BY <1>9, KindIs DEF UnbindOps
    <2> QED BY <1>8, <2>1, LabelIs
  <1> HIDE DEF nodes
  <1>11. PICK f \in Seq(Message) : f = calls /\ DOMAIN f = {1} /\ f[1] = u
    <2>1. Cardinality(nodes) = 1 /\ SetToSeq(nodes)[1] = h
      BY <1>7, FirstOfOne
    <2>2. calls = [i \in 1..1 |-> u]
      BY <1>3, <2>1
    <2>3. PICK g : g = [i \in 1..1 |-> u]
      OBVIOUS
    <2>4. PICK n \in Nat : n = 1
      OBVIOUS
    <2>5. g \in [1..n -> Message]
      BY <1>8, <2>3, <2>4
    <2>6. g \in Seq(Message)
      BY <2>5
    <2>7. 1..1 = {1}
      OBVIOUS
    <2>8. calls = g /\ DOMAIN g = {1} /\ g[1] = u
      BY <2>2, <2>3, <2>7
    <2> HIDE DEF calls
    <2> QED BY <2>6, <2>8
  <1> HIDE DEF calls
  <1>12. PICK t \in Seq(Message) : t = <<y>> /\ Range(t) = {y}
    BY <1>8, OneMessage
  <1>13. PICK msgs \in Seq(Message) : msgs = f \o t /\ Distinct(msgs)
    <2>1. DOMAIN f \subseteq {1} /\ \A i \in DOMAIN f : f[i] = u
      BY <1>11
    <2>2. f \o <<y>> \in Seq(Message) /\ Distinct(f \o <<y>>)
      BY <1>8, <1>10, <2>1, CallAndAnswer
    <2> QED BY <1>12, <2>2
  <1>14. Range(f) = {u}
    BY <1>11 DEF Range
  <1>15. Range(msgs) = {u, y}
    <2>1. Range(f \o t) = Range(f) \cup Range(t)
      BY RangeConcatenation
    <2> QED BY <1>12, <1>13, <1>14, <2>1
  <1>16. Follows(msgs, u, y)
    BY <1>12, <1>13, <1>14, FollowsIs
  <1>17. up' = [up EXCEPT ![h] = @ \o msgs]
    BY <1>4, <1>11, <1>12, <1>13
  <1>18. Swaps(x, {u, y})
    <2>1. Swaps(Head(down[h]), Range(msgs))
      BY <1>4, <1>13, <1>17, HostSwaps
    <2> QED BY <1>15, <2>1
  <1>19. Follows(up'[h], u, y)
    <2>1. up \in Queues
      BY CoreIs
    <2>2. up'[h] = up[h] \o msgs /\ up[h] \in Seq(Message)
      BY <1>17, <2>1, QueuesAre
    <2>3. Follows(up[h] \o msgs, u, y)
      BY <1>16, <2>2, FollowsIs
    <2> QED BY <2>2, <2>3
  <1> QED BY <1>8, <1>9, <1>18, <1>19

LEMMA WorkersUnbindCluster ==
    ASSUME CoreInv, CoreInv', WorkerInv, NEW h \in Host, UnbindCluster(h),
           Unbindable(h, Head(down[h]).to)
    PROVE  WorkerInv'
  <1>1. PICK x : x = Head(down[h])
    OBVIOUS
  <1>2. /\ down[h] # <<>> /\ x.op = "unbind_cluster" /\ down' = [down EXCEPT ![h] = Tail(@)]
        /\ UNCHANGED <<rootVars, hosted, crew, from_nodes, ipc, clients>>
    BY <1>1 DEF UnbindCluster, FromRoot, Pop, hostVars, workerVars
  <1>3. /\ x \in Message /\ x \in Sent /\ x.m \in Mig /\ x.from \in Cid /\ x.to \in Cid
        /\ Kind(x.op) = "unbind" /\ Pair(x).from = x.from /\ Pair(x).to = x.to
        /\ x.from \in hosted[h] \cap crew
    BY <1>1, <1>2, UnbindIs
  <1>4. PICK u \in Message, y \in Message :
               /\ u.op = "unbind_cluster_process" /\ u.m = x.m /\ u.from = x.from /\ u.to = x.to
               /\ y.op = "unbound" /\ y.m = x.m /\ y.from = x.from /\ y.to = x.to
               /\ u.dst = h /\ Swaps(x, {u, y}) /\ Follows(up'[h], u, y)
    BY <1>1, UnbindSends, WorkerIs DEF Told
  <1>5. \A d, e : /\ UnbindQueued(d, e)' <=> UnbindQueued(d, e)
                  /\ Given(d, e)' <=> Given(d, e)
    BY <1>2 DEF UnbindQueued, BindQueued, Given
  <1>6. \A op, d, e : op \notin {"unbind_cluster", "unbind_cluster_process", "unbound"} =>
            (Of(op, d, e)' <=> Of(op, d, e))
    BY <1>2, <1>4, OfIs
  <1>7. \A d, e : /\ Of("unbind_cluster", d, e)' => Of("unbind_cluster", d, e)
                  /\ Of("unbind_cluster", d, e) => \/ Of("unbind_cluster", d, e)'
                                                   \/ d = x.from /\ e = x.to
                  /\ Of("unbind_cluster_process", d, e) => Of("unbind_cluster_process", d, e)'
                  /\ Of("unbind_cluster_process", d, e)' => \/ Of("unbind_cluster_process", d, e)
                                                            \/ d = x.from /\ e = x.to
    BY <1>2, <1>4, OfIs
  <1>8. Of("unbind_cluster", x.from, x.to) /\ Of("unbind_cluster_process", x.from, x.to)'
    <2>1. Of("unbind_cluster", x.from, x.to)
      BY <1>2, <1>3 DEF Of
    <2>2. \E z \in {u, y} : z.op = "unbind_cluster_process" /\ z.from = x.from /\ z.to = x.to
      BY <1>4
    <2> QED BY <1>4, <2>1, <2>2, OfIs
  <1>9. \A d, e : /\ Leaving(d, e) => Leaving(d, e)'
                  /\ Unbinding(d, e)' <=> Unbinding(d, e)
                  /\ Ungiven(d, e)' <=> Ungiven(d, e)
    BY <1>5, <1>6, <1>7, <1>8 DEF Leaving, Unbinding, Ungiven
  <1>10. Flows
    BY <1>5, <1>9 DEF Flows
  <1>11. /\ BindsAlike /\ PairsAlike /\ DropsAlike /\ Bindings' = Bindings
         /\ cluster_id' = cluster_id
    BY <1>2, RootAlike
  <1>12. Fed'
    BY <1>10, <1>11, FedKeeps, WorkerIs
  <1>13. NeverCut'
    <2>1. cluster_id' >= cluster_id
      BY <1>11 DEF BindsAlike
    <2>2. origin' = origin
      BY <1>2 DEF rootVars
    <2> QED BY <1>2, <1>11, <2>1, <2>2, NeverCutKeeps, WorkerIs
  <1>14. Told'
    <2>1. HostsRemember /\ Notifies(x, {u, y})
      BY <1>2 DEF HostsRemember, Notifies
    <2> QED BY <1>4, <1>11, <2>1, ToldKeeps, WorkerIs
  <1>15. Ahead'
    <2>1. Shifts(up, up', {u, y}) /\ Sent' = (Sent \ {x}) \cup {u, y}
      BY <1>4 DEF Swaps
    <2>2. \A g \in Host : Range(down'[g]) \subseteq Range(down[g]) /\ up \in Queues /\ down \in Queues
          /\ \A z, w : Follows(down[g], z, w) /\ z \in Range(down'[g]) => Follows(down'[g], z, w)
      <3>1. up \in Queues /\ down \in Queues /\ Alone(down)
        BY CoreIs DEF Once
      <3>2. PICK d : d = down'
        OBVIOUS
      <3>3. Loses(down, h, d)
        BY <1>2, <3>2 DEF Loses
      <3>4. /\ Range(d[h]) = Range(down[h]) \ {Head(down[h])}
            /\ \A g \in Host : g # h => d[g] = down[g]
        BY <3>1, <3>3, Taken
      <3>5. Shifts(down, d, {})
        BY <3>1, <3>3, ShiftsLoses
      <3> QED BY <3>1, <3>2, <3>4, <3>5 DEF Shifts
    <2>3. ASSUME NEW g \in Host, NEW z \in Range(up'[g]), z.op = "unbind_cluster_process"
          PROVE  \E w \in Message : w.op = "unbound" /\ w.m = z.m /\ Follows(up'[g], z, w)
      <3>1. CASE z \in Range(up[g]) /\ \A w : Follows(up[g], z, w) => Follows(up'[g], z, w)
        BY <2>3, <3>1, WorkerIs DEF Ahead
      <3>2. CASE z \in {u, y}
        <4>1. z = u
          BY <1>4, <2>3, <3>2
        <4>2. g = h
          <5>1. Answered(g, z)'
            BY DEF CoreInv, ChannelInv, Addressed
          <5> QED BY <1>4, <4>1, <5>1 DEF Answered
        <4> QED BY <1>4, <4>1, <4>2
      <3> QED BY <2>1, <3>1, <3>2 DEF Shifts
    <2>4. ASSUME NEW g \in Host, NEW z \in Range(down'[g]), NEW w \in Range(down'[g]),
                 z.op = "unbind_cluster_process", w.op = "remove_cluster", z.from = w.cid
          PROVE  Follows(down'[g], z, w)
      BY <2>2, <2>4, WorkerIs DEF Ahead
    <2>5. ASSUME NEW z \in Sent', z.op = "unbind_cluster_process"
          PROVE  z.from \in hosted'[z.dst] \cap crew'
      <3>1. z \in Sent \/ z = u
        BY <1>4, <2>1, <2>5
      <3> QED BY <1>2, <1>3, <1>4, <2>5, <3>1, WorkerIs DEF Ahead
    <2> QED BY <2>3, <2>4, <2>5 DEF Ahead
  <1>16. ASSUME NEW m \in Mig, Lost(m) PROVE Lost(m)'
    <2>1. up \in Queues /\ down \in Queues /\ RootTypes
      BY CoreIs
    <2>2. up' \in Queues /\ down' \in Queues
      BY DEF CoreInv, ChannelInv, ChannelTypes
    <2>3. ASSUME NEW z \in Sent', Kind(z.op) = "unbind" PROVE \E w \in Sent : Label(w) = Label(z)
      <3>1. CASE z \in Sent
        BY <3>1
      <3>2. z \notin Sent => z = y
        <4>1. Kind(u.op) # "unbind"
          BY <1>4, KindIs
        <4> QED BY <1>4, <2>3, <4>1 DEF Swaps
      <3>3. Label(x) = Label(y)
        <4>1. Kind(y.op) = "unbind" /\ x.op \in PairOps
          BY <1>2, <1>4, KindIs DEF UnbindOps, PairOps
        <4> QED BY <1>3, <1>4, <4>1, LabelIs
      <3> QED BY <1>3, <3>1, <3>2, <3>3
    <2>4. PICK P : P = OldPairs(m)
      OBVIOUS
    <2>5. P = OldPairs(m)' /\ Length(m)' = Length(m) /\ mig' = mig
      BY <1>2, <2>4 DEF OldPairs, Length, rootVars
    <2>6. Coming(m, P, "unbind")' \subseteq Coming(m, P, "unbind")
      BY <2>1, <2>2, <2>3, ComingRests
    <2>7. PICK C, D : C = UnbindsComing(m) /\ D = UnbindsComing(m)'
      OBVIOUS
    <2>8. C \subseteq P /\ D \subseteq C
      BY <2>4, <2>5, <2>6, <2>7 DEF UnbindsComing, Coming
    <2>9. IsFiniteSet(P) /\ Length(m) \in Nat /\ mig[m].unbindCounter \in Nat
      BY <2>1, <2>4, PairsAre, GoesIs
    <2>10. Cardinality(D) <= Cardinality(C) /\ Cardinality(D) \in Nat /\ Cardinality(C) \in Nat
      BY <2>8, <2>9, Fewer
    <2>11. mig[m].unbindCounter + 1 + Cardinality(C) <= Length(m)
      BY <1>16, <2>7 DEF Lost
    <2>12. mig[m].unbindCounter + 1 + Cardinality(D) <= Length(m)
      BY <2>9, <2>10, <2>11
    <2> QED BY <2>5, <2>7, <2>12 DEF Lost
  <1>17. NoMore'
    <2>1. NoMore /\ Bindings \subseteq Bindings'
      BY <1>11, WorkerIs
    <2>2. BindsFirst'
      BY <1>2, <2>1 DEF NoMore, BindsFirst
    <2>3. \A d, e \in Cid : Given(d, e)' => /\ Given(d, e) /\ (Leaving(d, e) => Leaving(d, e)')
                                            /\ (Unbinding(d, e) => Unbinding(d, e)')
      BY <1>5, <1>9
    <2> QED BY <1>11, <1>16, <2>1, <2>2, <2>3, NoMoreRests
  <1> QED BY <1>12, <1>13, <1>14, <1>15, <1>17, WorkerIs DEF WorkerInv

\* Where it throws, its migration loses an answer, and waits forever.
LEMMA WorkersUnbindThrows ==
    ASSUME CoreInv, CoreInv', WorkerInv, NEW h \in Host, UnbindCluster(h),
           ~ Unbindable(h, Head(down[h]).to)
    PROVE  WorkerInv'
  <1>1. PICK x : x = Head(down[h])
    OBVIOUS
  <1>2. /\ down[h] # <<>> /\ x.op = "unbind_cluster" /\ down' = [down EXCEPT ![h] = Tail(@)]
        /\ UNCHANGED <<rootVars, hosted, crew, from_nodes, up, ipc, clients>>
    BY <1>1 DEF UnbindCluster, FromRoot, Pop, hostVars, workerVars
  <1>3. /\ x \in Message /\ x \in Sent /\ x.m \in Mig /\ x.from \in Cid /\ x.to \in Cid
        /\ Kind(x.op) = "unbind" /\ mig[x.m].phase = "unbind" /\ Busy(x.m)
        /\ Pair(x) \in OldPairs(x.m)
    BY <1>1, <1>2, UnbindIs
  <1>4. Swaps(x, {})
    BY <1>1, <1>2, HostSwapsNone
  <1>5. \A d, e : /\ UnbindQueued(d, e)' <=> UnbindQueued(d, e)
                  /\ Given(d, e)' <=> Given(d, e)
    BY <1>2 DEF UnbindQueued, BindQueued, Given
  <1>6. \A op, d, e : /\ Of(op, d, e)' => Of(op, d, e)
                      /\ op # "unbind_cluster" => (Of(op, d, e) => Of(op, d, e)')
    BY <1>2, <1>4, OfIs
  <1>7. \A d, e : /\ Leaving(d, e) <=> Leaving(d, e)'
                  /\ Unbinding(d, e)' => Unbinding(d, e)
                  /\ Ungiven(d, e)' <=> Ungiven(d, e)
    BY <1>5, <1>6 DEF Leaving, Unbinding, Ungiven
  <1>8. Flows
    BY <1>5, <1>7 DEF Flows
  <1>9. /\ BindsAlike /\ PairsAlike /\ DropsAlike /\ Bindings' = Bindings
        /\ cluster_id' = cluster_id /\ mig' = mig
    BY <1>2, RootAlike DEF rootVars
  <1>10. Fed'
    BY <1>8, <1>9, FedKeeps, WorkerIs
  <1>11. NeverCut'
    <2>1. cluster_id' >= cluster_id
      BY <1>9 DEF BindsAlike
    <2>2. origin' = origin
      BY <1>2 DEF rootVars
    <2> QED BY <1>2, <1>9, <2>1, <2>2, NeverCutKeeps, WorkerIs
  <1>12. Told'
    <2>1. HostsRemember /\ Notifies(x, {})
      BY <1>2 DEF HostsRemember, Notifies
    <2> QED BY <1>4, <1>9, <2>1, ToldKeeps, WorkerIs
  <1>13. Ahead'
    BY <1>2, <1>4, AheadStays, WorkerIs
  <1>14. Lost(x.m)'
    <2>1. PICK m \in Mig : m = x.m
      BY <1>3
    <2> PICK P : P = OldPairs(m)
      OBVIOUS
    <2>2. PICK k, n : k = mig[m].unbindCounter /\ n = Length(m)
      OBVIOUS
    <2>3. IsFiniteSet(P) /\ n \in Nat /\ k \in Nat
      BY <2>1, <2>2, CoreIs, PairsAre, GoesIs
    <2>4. k + Cardinality(Coming(m, P, "unbind")) <= n
      BY <2>1, <2>2, CoreIs DEF UnbindsCounted, UnbindsComing
    <2>5. \A y \in Sent' : y \in Sent /\ y # x
      BY <1>4 DEF Swaps
    <2>6. up \in Queues /\ down \in Queues /\ Once
      BY CoreIs
    <2>7. (k + 1) + Cardinality(Coming(m, P, "unbind")') <= n
      BY <1>3, <2>1, <2>3, <2>4, <2>5, <2>6, OneLess
    <2>8. P' = P /\ OldPairs(m)' = P /\ Length(m)' = n /\ mig'[m].unbindCounter = k
      BY <1>9, <2>1, <2>2 DEF OldPairs, Length
    <2>9. UnbindsComing(m)' = Coming(m, P, "unbind")'
      BY <2>8 DEF UnbindsComing, Coming
    <2> QED BY <2>1, <2>7, <2>8, <2>9 DEF Lost
  <1>15. NoMore'
    <2>1. NoMore
      BY WorkerIs
    <2>2. BindsFirst'
      BY <1>2, <2>1 DEF NoMore, BindsFirst
    <2>3. \A p : Dropping(p)' <=> Dropping(p)
      BY <1>9 DEF Dropping, OldPairs
    <2>4. \A d, e \in Cid : Given(d, e)' =>
              \/ [from |-> d, to |-> e] \in Bindings' \/ Leaving(d, e)'
              \/ Dropping([from |-> d, to |-> e])'
      BY <1>5, <1>7, <1>9, <2>1, <2>3 DEF NoMore
    <2>5. ASSUME NEW m \in Mig, mig'[m].phase = "unbind" PROVE Lost(m)'
      <3>1. Busy(m)
        BY <1>9, <2>5 DEF Busy
      <3>2. m = x.m
        BY <1>3, <3>1, CoreIs, OneBusy
      <3> QED BY <1>14, <3>2
    <2> QED BY <2>2, <2>4, <2>5 DEF NoMore
  <1> QED BY <1>10, <1>11, <1>12, <1>13, <1>15, WorkerIs DEF WorkerInv

-----------------------------------------------------------------------------
(* The steps of the root that bind or unbind nothing. *)

LEMMA WorkersForward ==
    ASSUME CoreInv, CoreInv', WorkerInv, NEW h \in Host, Forward(h)
    PROVE  WorkerInv'
  <1>1. PICK x : x = Head(up[h])
    OBVIOUS
  <1>2. PICK k : k = x.dst
    OBVIOUS
  <1>3. /\ up[h] # <<>> /\ x.op \in HostToHost /\ up' = [up EXCEPT ![h] = Tail(@)]
        /\ down' = [down EXCEPT ![k] = Append(@, x)]
        /\ UNCHANGED <<rootVars, hostVars, ipc, clients>>
    BY <1>1, <1>2 DEF Forward, Take, Call, workerVars
  <1>4. x \in Message /\ x \in Sent
    BY <1>1, <1>3, CoreIs, Returned
  <1>5. k \in Host
    BY <1>2, <1>3, <1>4, MessageIs
  <1>6. Swaps(x, {x})
    BY <1>1, <1>3, <1>4, <1>5, RootSwapsOne
  <1>7. Relays(x, {x}) /\ Notifies(x, {x})
    BY <1>4 DEF Relays, Notifies
  <1>8. HostsRemember
    BY <1>3 DEF HostsRemember, hostVars
  <1>9. Kind(x.op) # "unbind" /\ x.op # "unbind_cluster"
    BY <1>3, KindIs DEF HostToHost, BindOps
  <1>10. Ahead'
    <2>1. up \in Queues /\ down \in Queues /\ Alone(up)
      BY CoreIs DEF Once
    <2>2. Shifts(up, up', {})
      <3>1. PICK u : u = up'
        OBVIOUS
      <3>2. Loses(up, h, u)
        BY <1>3, <3>1 DEF Loses
      <3>3. Shifts(up, u, {})
        BY <2>1, <3>2, ShiftsLoses
      <3> QED BY <3>1, <3>3
    <2>3. ASSUME NEW g \in Host, NEW z \in Range(up'[g]), z.op = "unbind_cluster_process"
          PROVE  \E y \in Message : y.op = "unbound" /\ y.m = z.m /\ Follows(up'[g], z, y)
      BY <2>2, <2>3, WorkerIs DEF Ahead, Shifts
    <2>4. ASSUME NEW g \in Host, NEW z \in Range(down'[g]), NEW y \in Range(down'[g]),
                 z.op = "unbind_cluster_process", y.op = "remove_cluster", z.from = y.cid
          PROVE  Follows(down'[g], z, y)
      <3>1. y \in Range(down[g])
        BY <1>3, <1>6, <2>4 DEF Swaps, Shifts, HostToHost
      <3>2. CASE /\ z \in Range(down[g])
                 /\ \A w : Follows(down[g], z, w) => Follows(down'[g], z, w)
        BY <2>4, <3>1, <3>2, WorkerIs DEF Ahead
      <3>3. CASE z = x
        <4>1. x \in Range(up[h])
          BY <1>1, <1>3, <2>1, QueuesAre
        <4>2. PICK w \in Message : w.op = "unbound" /\ Follows(up[h], x, w)
          BY <2>4, <3>3, <4>1, WorkerIs DEF Ahead
        <4>3. w \in Sent /\ y \in Sent
          <5>1. up[h] \in Seq(Message)
            BY <2>1, QueuesAre
          <5>2. w \in Range(up[h])
            BY <4>2, <5>1, FollowsIs
          <5> QED BY <2>1, <3>1, <5>2, SentIs
        <4>4. mig[w.m].phase = "unbind" /\ w.m \in Mig
          BY <4>2, <4>3, CoreIs, KindIs, MessageIs DEF Addressed, Timely, UnbindOps
        <4>5. mig[y.m].phase = "remove" /\ y.m \in Mig
          <5>1. y \in Message
            BY <2>1, <4>3, SentIs
          <5> QED BY <2>4, <4>3, <5>1, CoreIs, KindIs, MessageIs DEF Addressed, Timely
        <4>6. Busy(w.m) /\ Busy(y.m)
          BY <4>4, <4>5 DEF Busy
        <4>7. y.m = w.m
          BY <4>4, <4>5, <4>6, CoreIs, OneBusy
        <4> QED BY <4>4, <4>5, <4>7
      <3> QED BY <1>6, <3>2, <3>3 DEF Swaps, Shifts
    <2>5. ASSUME NEW z \in Sent', z.op = "unbind_cluster_process"
          PROVE  z.from \in hosted'[z.dst] \cap crew'
      <3>1. z \in Sent
        BY <1>4, <1>6, <2>5 DEF Swaps
      <3> QED BY <1>3, <2>5, <3>1, WorkerIs DEF Ahead, hostVars
    <2> QED BY <2>3, <2>4, <2>5 DEF Ahead
  <1> QED BY <1>3, <1>6, <1>7, <1>8, <1>9, <1>10, WorkersRest

LEMMA WorkersOn ==
    ASSUME CoreInv, CoreInv', WorkerInv, UNCHANGED <<hosted, crew, from_nodes, ipc, clients>>,
           NEW x, NEW N, Swaps(x, N), Aside(x, N), BindsAlike, PairsAlike,
           \A e \in Cid : e < cluster_id => origin'[e] = origin[e], NoMore'
    PROVE  WorkerInv'
  <1>1. Relays(x, N) /\ Notifies(x, N) /\ \A y \in N : y.op # "unbind_cluster_process"
    BY AsideIs
  <1>2. Fed'
    BY <1>1, RelaysFlow, FedKeeps, WorkerIs
  <1>3. NeverCut'
    BY NeverCutKeeps, WorkerIs DEF BindsAlike
  <1>4. Told'
    <2>1. HostsRemember
      BY DEF HostsRemember
    <2> QED BY <1>1, <2>1, ToldKeeps, WorkerIs
  <1>5. Ahead'
    BY <1>1, AheadStays, WorkerIs
  <1> QED BY <1>2, <1>3, <1>4, <1>5, WorkerIs DEF WorkerInv

\* Before a migration unbinds, nothing is lost and what is dropped is not its.
LEMMA NoMoreOn ==
    ASSUME CoreInv, CoreInv', NoMore, NEW x, NEW N, Swaps(x, N), Aside(x, N),
           \A y \in N : y.op \in PlainOps, UNCHANGED <<ipc, clients>>, Bindings' = Bindings,
           NEW m \in Mig, \A n \in Mig : n # m => mig'[n] = mig[n],
           mig[m].phase # "unbind", mig'[m].phase # "unbind"
    PROVE  NoMore'
  <1>1. DropsAlike
    BY DEF DropsAlike
  <1>2. \A y \in N : Kind(y.op) # "unbind"
    BY PlainIs
  <1>3. ASSUME NEW n \in Mig, mig[n].phase = "unbind", Lost(n) PROVE Lost(n)'
    <2>1. mig'[n] = mig[n]
      BY <1>3
    <2> QED BY <1>2, <1>3, <2>1, LostKeeps
  <1>4. x.op # "unbind_cluster_process" /\ x.op # "unbind_cluster"
    BY DEF Aside
  <1> QED BY <1>1, <1>3, <1>4, NoMoreKeeps

LEMMA AsidePlain ==
    ASSUME NEW x, x.op \in PlainOps \cup {"bound", "unbound"},
           NEW N, \A y \in N : y.op \in PlainOps
    PROVE  Aside(x, N)
  BY PlainIs DEF Aside, PlainOps

LEMMA BoundAre ==
    ASSUME CoreInv, NEW b \in Bindings
    PROVE  b \in Binding /\ b.from \in Cid /\ b.to \in Cid /\ Present(b.from) /\ Present(b.to)
  <1>1. RootTypes /\ Linked
    BY CoreIs
  <1> QED BY <1>1, BindingsAre DEF Linked

LEMMA WorkersMigrate ==
    ASSUME CoreInv, CoreInv', WorkerInv, Overlap = "none",
           NEW m \in Mig, NEW c \in Cid, NEW h \in Host, Migrate(m, c, h)
    PROVE  WorkerInv'
  <1>1. PICK g : g = clusters[c]
    OBVIOUS
  <1>2. PICK y : y = [op |-> "get_clusters", m |-> m]
    OBVIOUS
  <1>3. /\ mig[m].phase = "idle" /\ \A n \in Mig : ~ Busy(n)
        /\ Present(c)
        /\ mig' = [mig EXCEPT ![m].phase = "collect", ![m].old = c,
                              ![m].src = clusters[c], ![m].dest = h]
        /\ down' = [down EXCEPT ![g] = Append(@, y)]
        /\ UNCHANGED <<clusters, bindings, cluster_id, origin, up>>
        /\ UNCHANGED <<hosted, crew, from_nodes, ipc, clients>>
    BY <1>1, <1>2 DEF Migrate, Call, hostVars, workerVars
  <1>4. g \in Host
    BY <1>1, <1>3, CoreIs DEF RootTypes, Present
  <1>5. y \in Message /\ y.op = "get_clusters"
    BY <1>2, MessagesAre
  <1>6. Swaps(y, {y})
    BY <1>3, <1>4, <1>5, RootCallsFirst
  <1>7. y.op \in PlainOps
    BY <1>5 DEF PlainOps
  <1>8. Aside(y, {y})
    BY <1>7, AsidePlain
  <1>9. /\ mig'[m].phase = "collect" /\ \A n \in Mig : n # m => mig'[n] = mig[n]
        /\ Bindings' = Bindings /\ cluster_id' >= cluster_id
    BY <1>3, CoreIs DEF RootTypes, Migrating, Bindings
  <1>10. BindsAlike
    BY <1>3, <1>9 DEF BindsAlike
  <1>11. PairsAlike
    BY <1>3, <1>9 DEF PairsAlike
  <1>12. NoMore'
    BY <1>3, <1>6, <1>7, <1>8, <1>9, NoMoreOn, WorkerIs
  <1> QED BY <1>3, <1>6, <1>8, <1>10, <1>11, <1>12, WorkersOn

LEMMA WorkersCollected ==
    ASSUME CoreInv, CoreInv', WorkerInv, NEW h \in Host, Collected(h)
    PROVE  WorkerInv'
  <1>1. PICK x : x = Head(up[h])
    OBVIOUS
  <1>2. PICK m, w : m = x.m /\ w = x.workers
    OBVIOUS
  <1>3. PICK y : y = [op |-> "run_cluster", m |-> m, cid |-> cluster_id, workers |-> w]
    OBVIOUS
  <1>4. /\ up[h] # <<>> /\ x.op = "clusters" /\ up' = [up EXCEPT ![h] = Tail(@)]
        /\ cluster_id' = NextId
        /\ clusters' = [clusters EXCEPT ![cluster_id] = mig[m].dest]
        /\ origin' = [origin EXCEPT ![cluster_id] = origin[mig[m].old]]
        /\ mig' = [mig EXCEPT ![m].phase = "run", ![m].new = cluster_id,
                              ![m].outs = Outs(bindings, mig[m].old),
                              ![m].ins = Ins(bindings, mig[m].old)]
        /\ down' = [down EXCEPT ![mig[m].dest] = Append(@, y)]
        /\ UNCHANGED <<bindings, hosted, crew, from_nodes, ipc, clients>>
    BY <1>1, <1>2, <1>3 DEF Collected, FromHost, Take, Call, hostVars, workerVars
  <1>5. x \in Message /\ x \in Sent /\ m \in Mig
    BY <1>1, <1>2, <1>4, CoreIs, Returned
  <1>6. w \in BOOLEAN
    BY <1>2, <1>4, <1>5, MessageIs
  <1>7. mig[m].phase = "collect" /\ Busy(m)
    <2>1. mig[m].phase = Kind(x.op) /\ Busy(m)
      BY <1>1, <1>2, <1>4, AloneIs
    <2> QED BY <1>4, <2>1, KindIs
  <1>8. PICK g \in Host : g = mig[m].dest
    BY <1>5, <1>7, CoreIs DEF Ends
  <1>9. /\ cluster_id \in Cid /\ ~ Present(cluster_id)
        /\ cluster_id \in Nat /\ cluster_id' = cluster_id + 1
    BY <1>4, <1>5, <1>7, NextIdIs, CoreIs DEF RootTypes, NextId
  <1>10. y \in Message /\ y.op = "run_cluster"
    BY <1>3, <1>5, <1>6, <1>9, MessagesAre
  <1>11. y.op \in PlainOps /\ x.op \in PlainOps
    BY <1>4, <1>10 DEF PlainOps
  <1>12. Swaps(x, {y})
    BY <1>1, <1>4, <1>8, <1>10, RootSwapsOne
  <1>13. Aside(x, {y})
    BY <1>11, AsidePlain
  <1>14. /\ mig'[m].phase = "run" /\ mig'[m].new = cluster_id
         /\ \A n \in Mig : n # m => mig'[n] = mig[n]
    BY <1>4, <1>5, <1>7, CoreIs, RootCollected
  <1>15. Bindings' = Bindings /\ cluster_id' >= cluster_id
    BY <1>4, <1>9 DEF Bindings
  <1>16. BindsAlike
    BY <1>7, <1>14, <1>15 DEF BindsAlike
  <1>17. PairsAlike
    <2>1. ASSUME NEW b \in Bindings PROVE clusters'[b.to] = clusters[b.to]
      <3>1. b.to \in Cid /\ Present(b.to)
        BY BoundAre
      <3> QED BY <1>4, <1>9, <3>1, CoreIs DEF RootTypes
    <2>2. ASSUME NEW n \in Mig, mig'[n].phase = "unbind" PROVE FALSE
      <3>1. n # m /\ mig[n].phase = "unbind"
        BY <1>14, <2>2
      <3>2. Busy(n)
        BY <3>1 DEF Busy
      <3> QED BY <1>5, <1>7, <3>1, <3>2, CoreIs, OneBusy
    <2> QED BY <1>15, <2>1, <2>2 DEF PairsAlike
  <1>18. \A e \in Cid : e < cluster_id => origin'[e] = origin[e]
    BY <1>4, <1>9, CoreIs, IdsAreNumbers DEF RootTypes
  <1>19. NoMore'
    BY <1>4, <1>5, <1>7, <1>11, <1>12, <1>13, <1>14, <1>15, NoMoreOn, WorkerIs
  <1> QED BY <1>4, <1>12, <1>13, <1>16, <1>17, <1>18, <1>19, WorkersOn

LEMMA WorkersRanAlone ==
    ASSUME CoreInv, CoreInv', WorkerInv, NEW h \in Host, Ran(h), Length(Head(up[h]).m) = 0
    PROVE  WorkerInv'
  <1>1. PICK x : x = Head(up[h])
    OBVIOUS
  <1>2. PICK m : m = x.m
    OBVIOUS
  <1>3. PICK y : y = [op |-> "remove_cluster", m |-> m, cid |-> mig[m].old]
    OBVIOUS
  <1>4. /\ up[h] # <<>> /\ x.op = "ran" /\ up' = [up EXCEPT ![h] = Tail(@)]
        /\ mig' = [mig EXCEPT ![m].phase = "remove"]
        /\ down' = [down EXCEPT ![mig[m].src] = Append(@, y)]
        /\ UNCHANGED <<clusters, bindings, cluster_id, origin>>
        /\ UNCHANGED <<hosted, crew, from_nodes, ipc, clients>>
    BY <1>1, <1>2, <1>3 DEF Ran, FromHost, Take, Call, hostVars, workerVars
  <1>5. x \in Message /\ x \in Sent /\ m \in Mig
    BY <1>1, <1>2, <1>4, CoreIs, Returned
  <1>6. mig[m].phase = "run" /\ Busy(m)
    <2>1. mig[m].phase = Kind(x.op) /\ Busy(m)
      BY <1>1, <1>2, <1>4, AloneIs
    <2> QED BY <1>4, <2>1, KindIs
  <1>7. PICK g \in Host : g = mig[m].src
    BY <1>5, <1>6, CoreIs DEF Ends
  <1>8. mig[m].old \in Cid
    BY <1>5, CoreIs DEF RootTypes, Migrating
  <1>9. y \in Message /\ y.op = "remove_cluster"
    BY <1>3, <1>5, <1>8, MessagesAre
  <1>10. y.op \in PlainOps /\ x.op \in PlainOps
    BY <1>4, <1>9 DEF PlainOps
  <1>11. Swaps(x, {y})
    BY <1>1, <1>4, <1>7, <1>9, RootSwapsOne
  <1>12. Aside(x, {y})
    BY <1>10, AsidePlain
  <1>13. mig'[m].phase = "remove" /\ \A n \in Mig : n # m => mig'[n] = mig[n]
    BY <1>4, <1>5, CoreIs DEF RootTypes, Migrating
  <1>14. Bindings' = Bindings /\ cluster_id' >= cluster_id
    BY <1>4, CoreIs DEF Bindings, RootTypes
  <1>15. BindsAlike
    BY <1>6, <1>13, <1>14 DEF BindsAlike
  <1>16. PairsAlike
    BY <1>4, <1>13, <1>14 DEF PairsAlike
  <1>17. NoMore'
    BY <1>4, <1>5, <1>6, <1>10, <1>11, <1>12, <1>13, <1>14, NoMoreOn, WorkerIs
  <1> QED BY <1>4, <1>11, <1>12, <1>15, <1>16, <1>17, WorkersOn

LEMMA WorkersRemoved ==
    ASSUME CoreInv, CoreInv', WorkerInv, NEW h \in Host, Removed(h)
    PROVE  WorkerInv'
  <1>1. PICK x : x = Head(up[h])
    OBVIOUS
  <1>2. PICK m : m = x.m
    OBVIOUS
  <1>3. /\ up[h] # <<>> /\ x.op = "removed" /\ up' = [up EXCEPT ![h] = Tail(@)]
        /\ clusters' = [clusters EXCEPT ![mig[m].old] = NoHost]
        /\ mig' = [mig EXCEPT ![m].phase = "done"]
        /\ UNCHANGED <<bindings, cluster_id, origin, down>>
        /\ UNCHANGED <<hosted, crew, from_nodes, ipc, clients>>
    BY <1>1, <1>2 DEF Removed, FromHost, Take, hostVars, workerVars
  <1>4. x \in Message /\ x \in Sent /\ m \in Mig
    BY <1>1, <1>2, <1>3, CoreIs, Returned
  <1>5. mig[m].phase = "remove" /\ Busy(m)
    <2>1. mig[m].phase = Kind(x.op) /\ Busy(m)
      BY <1>1, <1>2, <1>3, AloneIs
    <2> QED BY <1>3, <2>1, KindIs
  <1>6. Swaps(x, {})
    BY <1>1, <1>3, RootSwapsNone
  <1>7. Aside(x, {})
    <2>1. x.op \in PlainOps
      BY <1>3 DEF PlainOps
    <2>2. \A y \in {} : y.op \in PlainOps
      OBVIOUS
    <2> QED BY <2>1, <2>2, AsidePlain
  <1>8. mig'[m].phase = "done" /\ \A n \in Mig : n # m => mig'[n] = mig[n]
    BY <1>3, <1>4, CoreIs DEF RootTypes, Migrating
  <1>9. Bindings' = Bindings /\ cluster_id' >= cluster_id
    BY <1>3, CoreIs DEF Bindings, RootTypes
  <1>10. BindsAlike
    BY <1>5, <1>8, <1>9 DEF BindsAlike
  <1>11. PairsAlike
    <2>1. ASSUME NEW b \in Bindings PROVE clusters'[b.to] = clusters[b.to]
      <3>1. b.to \in Cid /\ b.to # mig[m].old
        BY <1>4, <1>5, CoreIs, BoundAre DEF Recorded
      <3> QED BY <1>3, <3>1, CoreIs DEF RootTypes
    <2>2. ASSUME NEW n \in Mig, mig'[n].phase = "unbind" PROVE FALSE
      <3>1. n # m /\ mig[n].phase = "unbind"
        BY <1>8, <2>2
      <3>2. Busy(n)
        BY <3>1 DEF Busy
      <3> QED BY <1>4, <1>5, <3>1, <3>2, CoreIs, OneBusy
    <2> QED BY <1>9, <2>1, <2>2 DEF PairsAlike
  <1>12. NoMore'
    <2>1. \A y \in {} : y.op \in PlainOps
      OBVIOUS
    <2> QED BY <1>3, <1>4, <1>5, <1>6, <1>7, <1>8, <1>9, <2>1, NoMoreOn, WorkerIs
  <1> QED BY <1>3, <1>6, <1>7, <1>10, <1>11, <1>12, WorkersOn

LEMMA WorkersBoundOn ==
    ASSUME CoreInv, CoreInv', WorkerInv, NEW h \in Host, Bound(h), ~ AllBound(Head(up[h]).m)
    PROVE  WorkerInv'
  <1>1. PICK x : x = Head(up[h])
    OBVIOUS
  <1>2. PICK m : m = x.m
    OBVIOUS
  <1>3. /\ up[h] # <<>> /\ x.op = "bound" /\ up' = [up EXCEPT ![h] = Tail(@)]
        /\ mig' = [mig EXCEPT ![m].bindCounter = @ + 1]
        /\ UNCHANGED <<clusters, bindings, cluster_id, origin, down>>
        /\ UNCHANGED <<hosted, crew, from_nodes, ipc, clients>>
    BY <1>1, <1>2 DEF Bound, FromHost, Take, hostVars, workerVars
  <1>4. m \in Mig /\ mig[m].phase = "bind"
    BY <1>1, <1>2, <1>3, CountedIs
  <1>5. Swaps(x, {})
    BY <1>1, <1>3, RootSwapsNone
  <1>6. Aside(x, {})
    <2>1. \A y \in {} : y.op \in PlainOps
      OBVIOUS
    <2> QED BY <1>3, <2>1, AsidePlain
  <1>7. Goes(m, mig[m].phase, mig[m].bindCounter + 1, mig[m].unbindCounter)
    BY <1>3, <1>4, CoreIs, GoesIs
  <1>8. /\ mig'[m].phase = "bind" /\ mig'[m].new = mig[m].new /\ mig'[m].ins = mig[m].ins
        /\ mig'[m].outs = mig[m].outs /\ \A n \in Mig : n # m => mig'[n] = mig[n]
    BY <1>4, <1>7 DEF Goes
  <1>9. Bindings' = Bindings /\ cluster_id' >= cluster_id
    BY <1>3, CoreIs DEF Bindings, RootTypes
  <1>10. BindsAlike
    BY <1>4, <1>8, <1>9 DEF BindsAlike
  <1>11. PairsAlike
    BY <1>3, <1>8, <1>9 DEF PairsAlike
  <1>12. NoMore'
    <2>1. \A y \in {} : y.op \in PlainOps
      OBVIOUS
    <2> QED BY <1>3, <1>4, <1>5, <1>6, <1>8, <1>9, <2>1, NoMoreOn, WorkerIs
  <1> QED BY <1>3, <1>5, <1>6, <1>10, <1>11, <1>12, WorkersOn

\* An unbind is done, and others are not.
LEMMA WorkersUnboundOn ==
    ASSUME CoreInv, CoreInv', WorkerInv, NEW h \in Host, Unbound(h), ~ AllUnbound(Head(up[h]).m)
    PROVE  WorkerInv'
  <1>1. PICK x : x = Head(up[h])
    OBVIOUS
  <1>2. PICK m : m = x.m
    OBVIOUS
  <1>3. /\ up[h] # <<>> /\ x.op = "unbound" /\ up' = [up EXCEPT ![h] = Tail(@)]
        /\ mig' = [mig EXCEPT ![m].unbindCounter = @ + 1]
        /\ UNCHANGED <<clusters, bindings, cluster_id, origin, down>>
        /\ UNCHANGED <<hosted, crew, from_nodes, ipc, clients>>
    BY <1>1, <1>2 DEF Unbound, FromHost, Take, hostVars, workerVars
  <1>4. /\ x \in Sent /\ m \in Mig /\ Kind(x.op) = "unbind" /\ mig[m].phase = "unbind"
        /\ Pair(x) \in OldPairs(m)
    BY <1>1, <1>2, <1>3, CountedIs
  <1>5. Swaps(x, {})
    BY <1>1, <1>3, RootSwapsNone
  <1>6. Aside(x, {})
    <2>1. \A y \in {} : y.op \in PlainOps
      OBVIOUS
    <2> QED BY <1>3, <2>1, AsidePlain
  <1>7. PICK k, n, P : k = mig[m].unbindCounter /\ n = Length(m) /\ P = OldPairs(m)
    OBVIOUS
  <1>8. Goes(m, mig[m].phase, mig[m].bindCounter, k + 1)
    BY <1>3, <1>4, <1>7, CoreIs, GoesIs
  <1>9. /\ mig'[m].phase = "unbind" /\ mig'[m].unbindCounter = k + 1
        /\ mig'[m].ins = mig[m].ins /\ mig'[m].outs = mig[m].outs
        /\ \A i \in Mig : i # m => mig'[i] = mig[i]
    BY <1>4, <1>8 DEF Goes
  <1>10. Bindings' = Bindings /\ cluster_id' >= cluster_id
    BY <1>3, CoreIs DEF Bindings, RootTypes
  <1>11. BindsAlike
    BY <1>4, <1>9, <1>10 DEF BindsAlike
  <1>12. PairsAlike
    BY <1>3, <1>4, <1>9, <1>10 DEF PairsAlike
  <1>13. Lost(m) => Lost(m)'
    <2> SUFFICES ASSUME Lost(m) PROVE Lost(m)'
      OBVIOUS
    <2>1. IsFiniteSet(P) /\ n \in Nat /\ k \in Nat
      BY <1>4, <1>7, CoreIs, PairsAre, GoesIs
    <2>2. (k + 1) + Cardinality(Coming(m, P, "unbind")) <= n
      BY <1>7 DEF Lost, UnbindsComing
    <2>3. \A y \in Sent' : y \in Sent /\ y # x
      BY <1>5 DEF Swaps
    <2>4. up \in Queues /\ down \in Queues /\ Once
      BY CoreIs
    <2>5. PICK j \in Nat : j = k + 1
      BY <2>1
    <2>6. j + Cardinality(Coming(m, P, "unbind")) <= n
      BY <2>2, <2>5
    <2>7. (j + 1) + Cardinality(Coming(m, P, "unbind")') <= n
      BY <1>2, <1>4, <1>7, <2>1, <2>3, <2>4, <2>6, OneLess
    <2>8. OldPairs(m)' = P /\ Length(m)' = n
      BY <1>7, <1>9 DEF OldPairs, Length
    <2>9. UnbindsComing(m)' = Coming(m, P, "unbind")'
      BY <2>8 DEF UnbindsComing, Coming
    <2> QED BY <1>9, <2>5, <2>7, <2>8, <2>9 DEF Lost
  <1>14. NoMore'
    <2>1. DropsAlike
      BY <1>4, <1>9 DEF DropsAlike
    <2>2. ASSUME NEW i \in Mig, mig[i].phase = "unbind", Lost(i) PROVE Lost(i)'
      <3>1. CASE i = m
        BY <1>13, <2>2, <3>1
      <3>2. CASE i # m
        <4>1. \A y \in {} : Kind(y.op) # "unbind"
          OBVIOUS
        <4> QED BY <1>5, <1>9, <2>2, <3>2, <4>1, LostKeeps
      <3> QED BY <3>1, <3>2
    <2>3. x.op # "unbind_cluster_process" /\ x.op # "unbind_cluster"
      BY <1>3
    <2>4. Bindings \subseteq Bindings' /\ UNCHANGED <<ipc, clients>>
      BY <1>3, <1>10
    <2> QED BY <1>5, <2>1, <2>2, <2>3, <2>4, NoMoreKeeps, WorkerIs
  <1> QED BY <1>3, <1>5, <1>6, <1>11, <1>12, <1>14, WorkersOn

\* Every unbind is done: the unbind of each worker was sent, and none was lost.
LEMMA WorkersUnboundLast ==
    ASSUME CoreInv, CoreInv', WorkerInv, NEW h \in Host, Unbound(h), AllUnbound(Head(up[h]).m)
    PROVE  WorkerInv'
  <1>1. PICK x : x = Head(up[h])
    OBVIOUS
  <1>2. PICK m : m = x.m
    OBVIOUS
  <1>3. PICK y : y = [op |-> "remove_cluster", m |-> m, cid |-> mig[m].old]
    OBVIOUS
  <1>4. /\ up[h] # <<>> /\ x.op = "unbound" /\ up' = [up EXCEPT ![h] = Tail(@)]
        /\ mig' = [mig EXCEPT ![m].unbindCounter = @ + 1, ![m].phase = "remove"]
        /\ bindings' = ForgetAll(bindings, mig[m].ins \o mig[m].outs)
        /\ down' = [down EXCEPT ![mig[m].src] = Append(@, y)]
        /\ UNCHANGED <<clusters, cluster_id, origin>>
        /\ UNCHANGED <<hosted, crew, from_nodes, ipc, clients>>
    BY <1>1, <1>2, <1>3 DEF Unbound, FromHost, Take, Call, hostVars, workerVars
  <1>5. /\ x \in Sent /\ x \in Message /\ m \in Mig /\ Busy(m)
        /\ Kind(x.op) = "unbind" /\ mig[m].phase = "unbind" /\ Pair(x) \in OldPairs(m)
    BY <1>1, <1>2, <1>4, CountedIs
  <1>6. OnlyStrays(h)
    BY <1>1, <1>2, <1>4, LastIs
  <1>7. PICK g \in Host : g = mig[m].src
    BY <1>5, CoreIs DEF Ends
  <1>8. mig[m].old \in Cid
    BY <1>5, CoreIs DEF RootTypes, Migrating
  <1>9. y \in Message /\ y.op = "remove_cluster"
    BY <1>3, <1>5, <1>8, MessagesAre
  <1>10. y.op \in PlainOps
    BY <1>9 DEF PlainOps
  <1>11. Swaps(x, {y})
    BY <1>1, <1>4, <1>7, <1>9, RootSwapsOne
  <1>12. Aside(x, {y})
    BY <1>4, <1>10, AsidePlain
  <1>13. PICK k, n, P : k = mig[m].unbindCounter /\ n = Length(m) /\ P = OldPairs(m)
    OBVIOUS
  <1>14. Goes(m, "remove", mig[m].bindCounter, k + 1)
    <2>1. "remove" \in Phase
      BY DEF Phase
    <2> QED BY <1>4, <1>5, <1>13, <2>1, CoreIs, GoesIs
  <1>15. mig'[m].phase = "remove" /\ \A i \in Mig : i # m => mig'[i] = mig[i]
    BY <1>14 DEF Goes
  <1>16. Bindings' = Bindings /\ cluster_id' >= cluster_id
    <2>1. UNCHANGED bindings
      BY <1>4, <1>5, <1>14, CoreIs, RootUnbound
    <2> QED BY <1>4, <2>1, CoreIs DEF Bindings, RootTypes
  <1>17. BindsAlike
    BY <1>5, <1>15, <1>16 DEF BindsAlike
  <1>18. \A i \in Mig : mig[i].phase = "unbind" => i = m
    <2> SUFFICES ASSUME NEW i \in Mig, mig[i].phase = "unbind", i # m PROVE FALSE
      OBVIOUS
    <2>1. Busy(i)
      BY DEF Busy
    <2> QED BY <1>5, <2>1, CoreIs, OneBusy
  <1>19. \A i \in Mig : mig'[i].phase # "unbind"
    BY <1>15, <1>18
  <1>20. PairsAlike
    BY <1>4, <1>16, <1>19 DEF PairsAlike
  <1>21. ~ Lost(m)
    <2>1. IsFiniteSet(P) /\ n \in Nat /\ k \in Nat
      BY <1>5, <1>13, CoreIs, PairsAre, GoesIs
    <2>2. PICK C : C = Coming(m, P, "unbind")
      OBVIOUS
    <2>3. C \in SUBSET P /\ Pair(x) \in C /\ {} \in SUBSET C
      BY <1>2, <1>5, <1>13, <2>2 DEF Coming
    <2>4. Cardinality({}) + 1 <= Cardinality(C) /\ Cardinality({}) = 0 /\ Cardinality(C) \in Nat
      BY <2>1, <2>3, Fewer
    <2>5. k + 1 = n
      BY <1>1, <1>2, <1>13 DEF AllUnbound
    <2>6. UnbindsComing(m) = C
      BY <1>13, <2>2 DEF UnbindsComing
    <2> QED BY <1>13, <2>1, <2>4, <2>5, <2>6 DEF Lost
  <1>22. \A c, e : ~ Of("unbind_cluster", c, e)
    BY <1>1, <1>4, <1>6 DEF Of, OnlyStrays
  <1>23. \A c, e : /\ Given(c, e)' <=> Given(c, e)
                   /\ Leaving(c, e) => Leaving(c, e)'
    <2>1. \A c, e : Of("unbind_cluster_process", c, e) => Of("unbind_cluster_process", c, e)'
      BY <1>4, <1>11, OfIs
    <2> QED BY <1>4, <2>1 DEF Given, BindQueued, Leaving, UnbindQueued
  <1>24. NoMore'
    <2>1. NoMore
      BY WorkerIs
    <2>2. BindsFirst'
      BY <1>4, <2>1 DEF NoMore, BindsFirst
    <2>3. ASSUME NEW c \in Cid, NEW e \in Cid, Given(c, e)'
          PROVE  [from |-> c, to |-> e] \in Bindings' \/ Leaving(c, e)'
      <3>1. PICK p : p = [from |-> c, to |-> e]
        OBVIOUS
      <3>2. Given(c, e) /\ p.from = c /\ p.to = e
        BY <1>23, <2>3, <3>1
      <3>3. p \in Bindings \/ Leaving(c, e) \/ Dropping(p)
        BY <2>1, <3>1, <3>2 DEF NoMore
      <3>4. Dropping(p) => Leaving(c, e)
        <4> SUFFICES ASSUME Dropping(p) PROVE Leaving(c, e)
          OBVIOUS
        <4>1. p \in OldPairs(m)
          BY <1>18 DEF Dropping
        <4>2. Unbinding(c, e)
          BY <1>5, <1>21, <2>1, <3>2, <4>1 DEF NoMore
        <4> QED BY <1>22, <4>2 DEF Unbinding
      <3> QED BY <1>16, <1>23, <3>1, <3>3, <3>4
    <2> QED BY <1>19, <2>2, <2>3 DEF NoMore
  <1> QED BY <1>4, <1>11, <1>12, <1>17, <1>20, <1>24, WorkersOn

-----------------------------------------------------------------------------
(* The steps of the root that bind and unbind. *)

\* The root calls for the binds: for each new pair, whose cid no one was told to unbind.
LEMMA WorkersRanOn ==
    ASSUME CoreInv, CoreInv', WorkerInv, NEW h \in Host, Ran(h), Length(Head(up[h]).m) # 0
    PROVE  WorkerInv'
  <1>1. PICK x : x = Head(up[h])
    OBVIOUS
  <1>2. PICK m : m = x.m
    OBVIOUS
  <1>3. PICK A : A = [g \in Host |-> BindCalls(g, m, Fresh(m))]
    OBVIOUS
  <1>4. /\ up[h] # <<>> /\ x.op = "ran" /\ up' = [up EXCEPT ![h] = Tail(@)]
        /\ mig' = [mig EXCEPT ![m].phase = "bind"]
        /\ down' = [g \in Host |-> down[g] \o BindCalls(g, m, Fresh(m))]
        /\ bindings' = bindings \o Handled(Fresh(m))
        /\ UNCHANGED <<clusters, cluster_id, origin>>
        /\ UNCHANGED <<hosted, crew, from_nodes, ipc, clients>>
    BY <1>1, <1>2 DEF Ran, FromHost, Take, Fresh, hostVars, workerVars
  <1>5. m \in Mig
    BY <1>1, <1>2, <1>4, CoreIs, Returned
  <1>6. mig[m].phase = "run" /\ Busy(m) /\ Begun(m)
    <2>1. mig[m].phase = Kind(x.op) /\ Busy(m)
      BY <1>1, <1>2, <1>4, AloneIs
    <2> QED BY <1>4, <2>1, KindIs DEF Begun
  <1>7. /\ Fresh(m) \in Seq(Binding) /\ IsInjective(Fresh(m)) /\ Range(Fresh(m)) = NewPairs(m)
        /\ \A b \in Range(Fresh(m)) : Present(b.from) /\ Present(b.to)
    <2>1. /\ Fresh(m) \in Seq(Binding) /\ IsInjective(Fresh(m)) /\ Range(Fresh(m)) = NewPairs(m)
          /\ \A b \in NewPairs(m) : Present(b.from) /\ Present(b.to)
      BY <1>5, <1>6, CoreIs, NewPairsAre
    <2> QED BY <2>1
  <1>8. clusters \in [Cid -> Host \cup {NoHost}] /\ NewPairs(m) \subseteq Binding
    BY <1>5, CoreIs, PairsAre DEF RootTypes
  <1>9. ASSUME NEW g \in Host
        PROVE  /\ A[g] \in Seq(Message)
               /\ Range(A[g]) = {BindCall(m, b) : b \in {b \in NewPairs(m) : clusters[b.from] = g}}
    <2>1. A[g] = BindCalls(g, m, Fresh(m))
      BY <1>3
    <2>2. BindCalls(g, m, Fresh(m)) \in Seq(Message)
      BY <1>5, <1>7, <1>8, CallsAre
    <2>3. Range(BindCalls(g, m, Fresh(m)))
              = {BindCall(m, b) : b \in {b \in Range(Fresh(m)) : clusters[b.from] = g}}
      BY <1>5, <1>7, <1>8, CallsAre
    <2> QED BY <1>7, <2>1, <2>2, <2>3
  <1>10. A \in Queues
    BY <1>3, <1>9 DEF Queues
  <1>11. PICK N : N = Carried(A)
    OBVIOUS
  <1>12. Swaps(x, N)
    <2>1. down' = [g \in Host |-> down[g] \o A[g]]
      BY <1>3, <1>4
    <2> QED BY <1>1, <1>4, <1>10, <1>11, <2>1, RootSwaps
  <1>13. \A y \in N : y.op = "bind_cluster"
    <2> SUFFICES ASSUME NEW y \in N PROVE y.op = "bind_cluster"
      OBVIOUS
    <2>1. PICK g \in Host : y \in Range(A[g])
      BY <1>10, <1>11, QueuesAre
    <2>2. PICK b : y = BindCall(m, b)
      BY <1>9, <2>1
    <2> QED BY <2>2 DEF BindCall
  <1>14. \A p \in NewPairs(m) : Of("bind_cluster", p.from, p.to)'
    <2> SUFFICES ASSUME NEW p \in NewPairs(m) PROVE Of("bind_cluster", p.from, p.to)'
      OBVIOUS
    <2>1. PICK g \in Host : g = clusters[p.from]
      BY <1>7, <1>8 DEF Present, Binding
    <2>2. PICK y : y = BindCall(m, p)
      OBVIOUS
    <2>3. y \in Range(A[g])
      BY <1>9, <2>1, <2>2
    <2>4. y \in N /\ y.op = "bind_cluster" /\ y.from = p.from /\ y.to = p.to
      BY <1>10, <1>11, <2>2, <2>3, QueuesAre DEF BindCall
    <2> QED BY <1>12, <2>4, OfIs
  <1>15. PICK k, l : k = mig[m].bindCounter /\ l = mig[m].unbindCounter
    OBVIOUS
  <1>16. Goes(m, "bind", k, l)
    <2>1. "bind" \in Phase
      BY DEF Phase
    <2> QED BY <1>4, <1>5, <1>15, <2>1, CoreIs, GoesIs
  <1>17. /\ mig'[m].phase = "bind" /\ mig'[m].new = mig[m].new
         /\ \A n \in Mig : n # m => mig'[n] = mig[n]
    BY <1>16 DEF Goes
  <1>18. \A n \in Mig : n # m => mig[n].phase \notin {"run", "bind", "unbind"}
    BY <1>5, <1>6, CoreIs, OneBusy
  <1>19. Bindings' = Bindings \cup NewPairs(m) /\ NewPairs(m)' = NewPairs(m)
    BY <1>4, <1>5, <1>6, <1>15, <1>16, CoreIs, RootRan
  <1>20. \A p \in NewPairs(m) : mig[m].new \in {p.from, p.to} /\ p.from \in Cid /\ p.to \in Cid
    BY <1>5, <1>6, <1>8, CoreIs, NewPairsAre DEF Binding
  <1>21. \A c, e : (Given(c, e)' <=> Given(c, e)) /\ (Unbinding(c, e)' => Unbinding(c, e))
    <2>1. \A c, e : (Given(c, e)' <=> Given(c, e)) /\ (UnbindQueued(c, e)' <=> UnbindQueued(c, e))
      BY <1>4 DEF Given, BindQueued, UnbindQueued
    <2>2. \A op, c, e : op # "bind_cluster" => (Of(op, c, e)' => Of(op, c, e))
      BY <1>12, <1>13, OfIs
    <2> QED BY <2>1, <2>2 DEF Unbinding, Leaving
  <1>22. Fed'
    <2>1. Fed
      BY WorkerIs
    <2>2. ASSUME NEW b \in Bindings' PROVE ~ Unbinding(b.from, b.to)'
      <3>1. CASE b \in Bindings
        BY <1>21, <2>1, <3>1 DEF Fed
      <3>2. CASE b \in NewPairs(m)
        BY <1>5, <1>6, <1>20, <1>21, <2>1, <3>2 DEF Fed
      <3> QED BY <1>19, <2>2, <3>1, <3>2
    <2>3. ASSUME NEW b \in Bindings', Settled(b)' PROVE Given(b.from, b.to)'
      <3>1. mig'[m].new \notin {b.from, b.to}
        BY <1>5, <1>17, <2>3 DEF Settled
      <3>2. b \in Bindings
        BY <1>17, <1>19, <1>20, <3>1
      <3>3. Settled(b)
        BY <1>6, <1>18 DEF Settled
      <3> QED BY <1>21, <2>1, <3>2, <3>3 DEF Fed
    <2>4. ASSUME NEW n \in Mig, mig'[n].phase = "bind", NEW p \in NewPairs(n)'
          PROVE  Given(p.from, p.to)' \/ Ungiven(p.from, p.to)'
      <3>1. n = m
        BY <1>17, <1>18, <2>4
      <3>2. Of("bind_cluster", p.from, p.to)'
        BY <1>14, <1>19, <2>4, <3>1
      <3> QED BY <3>2 DEF Ungiven
    <2>5. ASSUME NEW c \in Cid, NEW e \in Cid, Unbinding(c, e)'
          PROVE  /\ c < cluster_id' /\ e < cluster_id'
                 /\ \A n \in Mig : mig'[n].phase = "run" => mig'[n].new \notin {c, e}
      <3>1. c < cluster_id /\ e < cluster_id
        BY <1>21, <2>1, <2>5 DEF Fed
      <3> QED BY <1>4, <1>17, <1>18, <3>1
    <2> QED BY <2>2, <2>3, <2>4, <2>5 DEF Fed
  <1>23. NeverCut'
    <2> SUFFICES ASSUME NEW b \in Bindings', b.from \in Op, NEW i \in 0..Len(ipc[b.from])
                 PROVE  \E e \in Cid : /\ e < cluster_id /\ origin[e] = origin[b.to]
                                       /\ Stays(b.from, e, i)'
      BY <1>4 DEF NeverCut
    <2>1. PICK a \in Bindings : a.from = b.from /\ origin[a.to] = origin[b.to]
      <3>1. CASE b \in Bindings
        BY <3>1
      <3>2. CASE b \in NewPairs(m)
        <4>1. mig[m].new \notin Op /\ origin[mig[m].new] = origin[mig[m].old]
          BY <1>5, <1>6, CoreIs DEF Ends
        <4>2. PICK a \in Range(mig[m].ins) : b = [from |-> a.from, to |-> mig[m].new]
          BY <3>2, <4>1 DEF NewPairs
        <4>3. a \in Bindings /\ a.to = mig[m].old
          BY <1>5, <1>6, CoreIs DEF Recorded
        <4> QED BY <4>1, <4>2, <4>3
      <3> QED BY <1>19, <3>1, <3>2
    <2>2. PICK e \in Cid : e < cluster_id /\ origin[e] = origin[a.to] /\ Stays(a.from, e, i)
      BY <2>1, WorkerIs DEF NeverCut
    <2>3. Stays(b.from, e, i)'
      BY <1>4, <2>1, <2>2 DEF Stays
    <2> QED BY <2>1, <2>2, <2>3
  <1>24. Told'
    <2>1. Told
      BY WorkerIs
    <2>2. \A b : Noted(b)' <=> Noted(b)
      BY <1>4 DEF Noted
    <2>3. \A op, c, e : op # "ran" => (Of(op, c, e) => Of(op, c, e)')
      BY <1>4, <1>12, OfIs
    <2>4. ASSUME NEW b \in Bindings'
          PROVE  \/ Noted(b)' \/ Of("bind_cluster", b.from, b.to)'
                 \/ Of("notify_binding", b.from, b.to)'
      BY <1>14, <1>19, <2>1, <2>2, <2>3 DEF Told
    <2>5. \A n \in Mig : mig'[n].phase # "unbind"
      BY <1>17, <1>18
    <2>6. DOMAIN from_nodes' = Host
      BY <1>4, <2>1 DEF Told
    <2> QED BY <2>4, <2>5, <2>6 DEF Told
  <1>25. Ahead'
    BY <1>4, <1>12, <1>13, AheadStays, WorkerIs
  <1>26. NoMore'
    <2>1. DropsAlike
      BY <1>6, <1>17, <1>18 DEF DropsAlike
    <2>2. \A n \in Mig : mig[n].phase # "unbind"
      BY <1>6, <1>18
    <2>3. x.op # "unbind_cluster_process" /\ x.op # "unbind_cluster"
      BY <1>4
    <2> QED BY <1>4, <1>12, <1>19, <2>1, <2>2, <2>3, NoMoreKeeps, WorkerIs
  <1> QED BY <1>22, <1>23, <1>24, <1>25, <1>26, WorkerIs DEF WorkerInv

\* The root drops the bindings of the old operator and calls for their unbinds: by then
\* every bind is carried out and every node of to was told.
LEMMA WorkersBoundLast ==
    ASSUME CoreInv, CoreInv', WorkerInv, NEW h \in Host, Bound(h), AllBound(Head(up[h]).m)
    PROVE  WorkerInv'
  <1>1. PICK x : x = Head(up[h])
    OBVIOUS
  <1>2. PICK m : m = x.m
    OBVIOUS
  <1>3. PICK pairs : pairs = mig[m].ins \o mig[m].outs
    OBVIOUS
  <1>4. /\ up[h] # <<>> /\ x.op = "bound" /\ up' = [up EXCEPT ![h] = Tail(@)]
        /\ mig' = [mig EXCEPT ![m].bindCounter = @ + 1, ![m].phase = "unbind"]
        /\ down' = [g \in Host |-> down[g] \o UnbindCalls(g, m, pairs)]
        /\ bindings' = UnbindAll(pairs)
        /\ UNCHANGED <<clusters, cluster_id, origin>>
        /\ UNCHANGED <<hosted, crew, from_nodes, ipc, clients>>
    BY <1>1, <1>2, <1>3 DEF Bound, FromHost, Take, hostVars, workerVars
  <1>5. m \in Mig /\ mig[m].phase = "bind" /\ Busy(m)
    BY <1>1, <1>2, <1>4, CountedIs
  <1>6. OnlyStrays(h)
    BY <1>1, <1>2, <1>4, LastIs
  <1>7. /\ pairs \in Seq(Binding) /\ IsInjective(pairs) /\ Range(pairs) = OldPairs(m)
        /\ OldPairs(m) \subseteq Bindings
    <2>1. /\ mig[m].ins \o mig[m].outs \in Seq(Binding)
          /\ IsInjective(mig[m].ins \o mig[m].outs)
          /\ Range(mig[m].ins \o mig[m].outs) = OldPairs(m)
          /\ OldPairs(m) = {b \in Bindings : mig[m].old \in {b.from, b.to}}
      BY <1>5, CoreIs, OldPairsAre
    <2> QED BY <1>3, <2>1
  <1>8. \A b \in Bindings : /\ b \in Binding /\ b.from \in Cid /\ b.to \in Cid
                            /\ Present(b.from) /\ Present(b.to)
    BY BoundAre
  <1>9. ASSUME NEW g \in Host
        PROVE  /\ UnbindCalls(g, m, pairs) \in Seq(Message)
               /\ Range(UnbindCalls(g, m, pairs))
                      = {UnbindCall(m, b) : b \in {b \in OldPairs(m) : clusters[b.from] = g}}
    <2>1. clusters \in [Cid -> Host \cup {NoHost}]
      BY CoreIs DEF RootTypes
    <2>2. \A b \in Range(pairs) : Present(b.from) /\ Present(b.to)
      BY <1>7, <1>8
    <2>3. UnbindCalls(g, m, pairs) \in Seq(Message)
      BY <1>5, <1>7, <2>1, <2>2, CallsAre
    <2>4. Range(UnbindCalls(g, m, pairs))
              = {UnbindCall(m, b) : b \in {b \in Range(pairs) : clusters[b.from] = g}}
      BY <1>5, <1>7, <2>1, <2>2, CallsAre
    <2> QED BY <1>7, <2>3, <2>4
  <1>10. PICK A : A = [g \in Host |-> UnbindCalls(g, m, pairs)]
    OBVIOUS
  <1>11. A \in Queues
    BY <1>9, <1>10 DEF Queues
  <1>12. PICK N : N = Carried(A)
    OBVIOUS
  <1>13. Swaps(x, N)
    <2>1. down' = [g \in Host |-> down[g] \o A[g]]
      BY <1>4, <1>10
    <2> QED BY <1>1, <1>4, <1>11, <1>12, <2>1, RootSwaps
  <1>14. ASSUME NEW y \in N
         PROVE  y.op = "unbind_cluster" /\ [from |-> y.from, to |-> y.to] \in OldPairs(m)
    <2>1. PICK g \in Host : y \in Range(A[g])
      BY <1>11, <1>12, QueuesAre
    <2>2. PICK b \in OldPairs(m) : y = UnbindCall(m, b)
      BY <1>9, <1>10, <2>1
    <2>3. b = [from |-> b.from, to |-> b.to]
      BY <1>7, <1>8 DEF Binding
    <2> QED BY <2>2, <2>3 DEF UnbindCall
  <1>15. \A p \in OldPairs(m) : Of("unbind_cluster", p.from, p.to)'
    <2> SUFFICES ASSUME NEW p \in OldPairs(m) PROVE Of("unbind_cluster", p.from, p.to)'
      OBVIOUS
    <2>1. PICK g \in Host : g = clusters[p.from]
      <3>1. p.from \in Cid /\ Present(p.from)
        BY <1>7, <1>8
      <3> QED BY <3>1, CoreIs DEF Present, RootTypes
    <2>2. PICK y : y = UnbindCall(m, p)
      OBVIOUS
    <2>3. y \in Range(A[g])
      BY <1>9, <1>10, <2>1, <2>2
    <2>4. y \in N /\ y.op = "unbind_cluster" /\ y.from = p.from /\ y.to = p.to
      BY <1>11, <1>12, <2>2, <2>3, QueuesAre DEF UnbindCall
    <2> QED BY <1>13, <2>4, OfIs
  <1>16. PICK k, l : k = mig[m].bindCounter /\ l = mig[m].unbindCounter
    OBVIOUS
  <1>17. Goes(m, "unbind", k + 1, l)
    <2>1. "unbind" \in Phase
      BY DEF Phase
    <2> QED BY <1>4, <1>5, <1>16, <2>1, CoreIs, GoesIs
  <1>18. mig'[m].phase = "unbind" /\ \A n \in Mig : n # m => mig'[n] = mig[n]
    BY <1>17 DEF Goes
  <1>19. \A n \in Mig : n # m => mig[n].phase \notin {"run", "bind", "unbind"}
    BY <1>5, CoreIs, OneBusy
  <1>20. Bindings' = Bindings \ OldPairs(m) /\ OldPairs(m)' = OldPairs(m)
    BY <1>3, <1>4, <1>5, <1>17, CoreIs, RootBound
  <1>21. \A op, c, e : /\ op # "unbind_cluster" => (Of(op, c, e)' => Of(op, c, e))
                       /\ op # "bound" => (Of(op, c, e) => Of(op, c, e)')
                       /\ op \notin {"bound", "unbind_cluster_process"} => ~ Of(op, c, e)
    <2>1. \A y \in N : y.op = "unbind_cluster"
      BY <1>14
    <2>2. \A op, c, e : op # "unbind_cluster" => (Of(op, c, e)' => Of(op, c, e))
      BY <1>13, <2>1, OfIs
    <2>3. \A op, c, e : op # "bound" => (Of(op, c, e) => Of(op, c, e)')
      BY <1>4, <1>13, OfIs
    <2>4. \A op, c, e : op \notin {"bound", "unbind_cluster_process"} => ~ Of(op, c, e)
      BY <1>1, <1>4, <1>6 DEF Of, OnlyStrays
    <2> QED BY <2>2, <2>3, <2>4
  <1>22. \A c, e : /\ Given(c, e)' <=> Given(c, e)
                   /\ UnbindQueued(c, e)' <=> UnbindQueued(c, e)
    BY <1>4 DEF Given, BindQueued, UnbindQueued
  <1>23. \A c, e : /\ Leaving(c, e)' <=> Leaving(c, e)
                   /\ Unbinding(c, e)' => Unbinding(c, e) \/ [from |-> c, to |-> e] \in OldPairs(m)
    <2>1. \A c, e : Leaving(c, e)' <=> Leaving(c, e)
      BY <1>21, <1>22 DEF Leaving
    <2>2. \A c, e : Of("unbind_cluster", c, e)' =>
              Of("unbind_cluster", c, e) \/ [from |-> c, to |-> e] \in OldPairs(m)
      BY <1>13, <1>14, OfIs
    <2> QED BY <2>1, <2>2 DEF Unbinding
  <1>24. Fed'
    <2>1. Fed
      BY WorkerIs
    <2>2. ASSUME NEW b \in Bindings' PROVE ~ Unbinding(b.from, b.to)'
      <3>1. b \in Bindings /\ b \notin OldPairs(m) /\ b = [from |-> b.from, to |-> b.to]
        BY <1>8, <1>20 DEF Binding
      <3> QED BY <1>23, <2>1, <3>1 DEF Fed
    <2>3. ASSUME NEW b \in Bindings' PROVE Given(b.from, b.to)'
      <3>1. b \in Bindings
        BY <1>20
      <3>2. CASE mig[m].new \in {b.from, b.to}
        <4>1. b \in NewPairs(m)
          BY <1>5, <3>1, <3>2, CoreIs DEF Recorded
        <4>2. Given(b.from, b.to) \/ Ungiven(b.from, b.to)
          BY <1>5, <2>1, <4>1 DEF Fed
        <4> QED BY <1>21, <1>22, <4>2 DEF Ungiven
      <3>3. CASE mig[m].new \notin {b.from, b.to}
        <4>1. Settled(b)
          BY <1>19, <3>3 DEF Settled
        <4> QED BY <1>22, <2>1, <3>1, <4>1 DEF Fed
      <3> QED BY <3>2, <3>3
    <2>4. \A n \in Mig : mig'[n].phase \notin {"run", "bind"}
      BY <1>18, <1>19
    <2>5. ASSUME NEW c \in Cid, NEW e \in Cid, Unbinding(c, e)'
          PROVE  c < cluster_id' /\ e < cluster_id'
      <3>1. CASE Unbinding(c, e)
        BY <1>4, <2>1, <3>1 DEF Fed
      <3>2. CASE [from |-> c, to |-> e] \in OldPairs(m)
        <4>1. PICK p \in Bindings : p = [from |-> c, to |-> e]
          BY <1>7, <3>2
        <4>2. Present(c) /\ Present(e)
          BY <1>8, <4>1
        <4>3. ~ (c >= cluster_id) /\ ~ (e >= cluster_id)
          BY <4>2, CoreIs DEF Alive
        <4>4. cluster_id \in Nat /\ c \in Nat /\ e \in Nat
          BY CoreIs, IdsAreNumbers DEF RootTypes
        <4> QED BY <1>4, <4>3, <4>4
      <3> QED BY <1>23, <2>5, <3>1, <3>2
    <2> QED BY <2>2, <2>3, <2>4, <2>5 DEF Fed
  <1>25. NeverCut'
    <2>1. Bindings' \subseteq Bindings /\ cluster_id' >= cluster_id
      BY <1>4, <1>20, CoreIs DEF RootTypes
    <2> QED BY <1>4, <2>1, NeverCutKeeps, WorkerIs
  <1>26. Told'
    <2>1. Told
      BY WorkerIs
    <2>2. \A b : Noted(b)' <=> Noted(b)
      BY <1>4 DEF Noted
    <2>3. \A b \in Bindings : Noted(b)'
      BY <1>21, <2>1, <2>2 DEF Told
    <2>4. \A n \in Mig : mig'[n].phase = "unbind" => \A b \in OldPairs(n)' : Noted(b)'
      BY <1>7, <1>18, <1>19, <1>20, <2>3
    <2>5. DOMAIN from_nodes' = Host
      BY <1>4, <2>1 DEF Told
    <2> QED BY <1>20, <2>3, <2>4, <2>5 DEF Told
  <1>27. Ahead'
    <2>1. \A y \in N : y.op # "unbind_cluster_process"
      BY <1>14
    <2> QED BY <1>4, <1>13, <2>1, AheadStays, WorkerIs
  <1>28. NoMore'
    <2>1. NoMore
      BY WorkerIs
    <2>2. BindsFirst'
      BY <1>4, <2>1 DEF NoMore, BindsFirst
    <2>3. ASSUME NEW c \in Cid, NEW e \in Cid, Given(c, e)', NEW p, p = [from |-> c, to |-> e]
          PROVE  p \in Bindings' \/ Leaving(c, e)' \/ Dropping(p)'
      <3>1. p \in Bindings \/ Leaving(c, e) \/ Dropping(p)
        BY <1>22, <2>1, <2>3 DEF NoMore
      <3>2. ~ Dropping(p)
        BY <1>5, <1>19 DEF Dropping
      <3>3. p \in OldPairs(m) => Dropping(p)'
        BY <1>5, <1>18, <1>20 DEF Dropping
      <3> QED BY <1>20, <1>23, <3>1, <3>2, <3>3
    <2>4. ASSUME NEW n \in Mig, mig'[n].phase = "unbind", NEW p \in OldPairs(n)'
          PROVE  Unbinding(p.from, p.to)'
      <3>1. n = m
        BY <1>18, <1>19, <2>4
      <3>2. Of("unbind_cluster", p.from, p.to)'
        BY <1>15, <1>20, <2>4, <3>1
      <3> QED BY <3>2 DEF Unbinding
    <2> QED BY <2>2, <2>3, <2>4 DEF NoMore
  <1> QED BY <1>24, <1>25, <1>26, <1>27, <1>28, WorkerIs DEF WorkerInv

-----------------------------------------------------------------------------
(* The sockets of the workers. *)

LEMMA StepKeepsWorkers ==
    ASSUME CoreInv, CoreInv', WorkerInv, Overlap = "none", [Next]_vars
    PROVE  WorkerInv'
  <1>1. CASE \E m \in Mig, c \in Cid, h \in Host : Migrate(m, c, h)
    BY <1>1, WorkersMigrate
  <1>2. ASSUME NEW h \in Host, RootStep(h) PROVE WorkerInv'
    <2>1. CASE Collected(h)
      BY <2>1, WorkersCollected
    <2>2. CASE Ran(h)
      <3>1. CASE Length(Head(up[h]).m) = 0
        BY <2>2, <3>1, WorkersRanAlone
      <3>2. CASE Length(Head(up[h]).m) # 0
        BY <2>2, <3>2, WorkersRanOn
      <3> QED BY <3>1, <3>2
    <2>3. CASE Bound(h)
      <3>1. CASE AllBound(Head(up[h]).m)
        BY <2>3, <3>1, WorkersBoundLast
      <3>2. CASE ~ AllBound(Head(up[h]).m)
        BY <2>3, <3>2, WorkersBoundOn
      <3> QED BY <3>1, <3>2
    <2>4. CASE Unbound(h)
      <3>1. CASE AllUnbound(Head(up[h]).m)
        BY <2>4, <3>1, WorkersUnboundLast
      <3>2. CASE ~ AllUnbound(Head(up[h]).m)
        BY <2>4, <3>2, WorkersUnboundOn
      <3> QED BY <3>1, <3>2
    <2>5. CASE Removed(h)
      BY <2>5, WorkersRemoved
    <2>6. CASE Forward(h)
      BY <2>6, WorkersForward
    <2> QED BY <1>2, <2>1, <2>2, <2>3, <2>4, <2>5, <2>6 DEF RootStep
  <1>3. ASSUME NEW h \in Host, HostStep(h) PROVE WorkerInv'
    <2>1. CASE GetClusters(h)
      BY <2>1, WorkersGetClusters
    <2>2. CASE RunCluster(h)
      BY <2>2, WorkersRunCluster
    <2>3. CASE BindCluster(h)
      BY <2>3, WorkersBindCluster
    <2>4. CASE NotifyBinding(h)
      BY <2>4, WorkersNotifyBinding
    <2>5. CASE GetWorkers(h)
      BY <2>5, WorkersGetWorkers
    <2>6. CASE GotWorkers(h)
      BY <2>6, WorkersGotWorkers
    <2>7. CASE UnbindCluster(h)
      <3>1. CASE Unbindable(h, Head(down[h]).to)
        BY <2>7, <3>1, WorkersUnbindCluster
      <3>2. CASE ~ Unbindable(h, Head(down[h]).to)
        BY <2>7, <3>2, WorkersUnbindThrows
      <3> QED BY <3>1, <3>2
    <2>8. CASE UnbindProcess(h)
      BY <2>8, WorkersUnbindProcess
    <2>9. CASE RemoveCluster(h)
      BY <2>9, WorkersRemoveCluster
    <2> QED BY <1>3, <2>1, <2>2, <2>3, <2>4, <2>5, <2>6, <2>7, <2>8, <2>9 DEF HostStep
  <1>4. ASSUME NEW c \in Cid, WorkerStep(c) PROVE WorkerInv'
    BY <1>4, WorkersBindNode, WorkersUnbindNode DEF WorkerStep
  <1>5. CASE UNCHANGED vars
    <2>1. UNCHANGED <<rootVars, hostVars, down, up, ipc, clients>>
      BY <1>5 DEF vars, workerVars
    <2>2. UNCHANGED Sent
      BY <2>1 DEF Sent, Carried
    <2>3. \A c, e : /\ Given(c, e)' <=> Given(c, e)
                    /\ Leaving(c, e)' <=> Leaving(c, e)
                    /\ Unbinding(c, e)' <=> Unbinding(c, e)
                    /\ Ungiven(c, e)' <=> Ungiven(c, e)
      <3>1. \A op, c, e : Of(op, c, e)' <=> Of(op, c, e)
        BY <2>2 DEF Of
      <3>2. \A c, e : /\ Given(c, e)' <=> Given(c, e)
                      /\ UnbindQueued(c, e)' <=> UnbindQueued(c, e)
        BY <2>1 DEF Given, BindQueued, UnbindQueued
      <3> QED BY <3>1, <3>2 DEF Leaving, Unbinding, Ungiven
    <2>4. Flows
      BY <2>3 DEF Flows
    <2>5. NeverCut'
      <3>1. /\ Bindings' \subseteq Bindings /\ cluster_id' >= cluster_id
            /\ UNCHANGED <<ipc, clients>> /\ origin' = origin
        BY <2>1, CoreIs DEF rootVars, Bindings, RootTypes
      <3> QED BY <3>1, NeverCutKeeps, WorkerIs
    <2>6. BindsFirst'
      BY <2>1, WorkerIs DEF NoMore, BindsFirst
    <2> QED BY <2>1, <2>3, <2>4, <2>5, <2>6, WorkersTake
  <1> QED BY <1>1, <1>2, <1>3, <1>4, <1>5 DEF Next

LEMMA WorkerAtStart == Init => WorkerInv
  <1> SUFFICES ASSUME Init PROVE WorkerInv
    OBVIOUS
  <1>1. CoreInv
    BY CoreAtStart
  <1>2. /\ bindings = Topology /\ cluster_id = Cardinality(Op) /\ mig = [m \in Mig |-> NoMig]
        /\ from_nodes = [h \in Host |->
               {[to |-> b.to, from |-> b.from, node |-> Start[b.from]] :
                   b \in {b \in Range(Topology) : Start[b.to] = h}}]
        /\ clusters = [c \in Cid |-> IF c \in Op THEN Start[c] ELSE NoHost]
        /\ down = Nothing /\ up = Nothing
        /\ ipc = [c \in Cid |-> <<>>]
        /\ clients = [c \in Cid |-> {b.to : b \in {b \in Range(Topology) : b.from = c}}]
    BY DEF Init, Nothing
  <1>3. \A h \in Host : Range(up[h]) = {} /\ Range(down[h]) = {}
    BY <1>2, NothingIs
  <1>4. Sent = {}
    BY <1>2, NothingIs DEF Sent
  <1>5. \A c \in Cid : ipc[c] = <<>> /\ Len(ipc[c]) = 0 /\ DOMAIN ipc[c] = {}
    <2>1. Len(<<>>) = 0 /\ DOMAIN <<>> = {}
      OBVIOUS
    <2> QED BY <1>2, <2>1
  <1>6. \A m \in Mig : mig[m].phase = "idle"
    BY <1>2 DEF NoMig
  <1>7. Bindings = Range(Topology)
    BY <1>2 DEF Bindings
  <1>8. \A b \in Bindings : /\ b \in Binding /\ b.from \in Cid /\ b.to \in Cid
                            /\ Present(b.from) /\ Present(b.to)
    BY <1>1, BoundAre
  <1>9. \A c, e \in Cid : ~ Unbinding(c, e) /\ ~ BindQueued(c, e)
    BY <1>4, <1>5 DEF Unbinding, Leaving, UnbindQueued, BindQueued, Of
  <1>10. \A b \in Bindings : b.to \in clients[b.from] /\ b.to < cluster_id
    <2>1. \A b \in Bindings : b.to \in clients[b.from]
      BY <1>2, <1>7, <1>8
    <2>2. ASSUME NEW b \in Bindings PROVE b.to < cluster_id
      <3>1. ~ (b.to >= cluster_id)
        BY <1>1, <1>8, CoreIs DEF Alive
      <3> QED BY <1>1, <1>8, <3>1, CoreIs, IdsAreNumbers DEF RootTypes
    <2> QED BY <2>1, <2>2
  <1>11. Fed
    BY <1>6, <1>8, <1>9, <1>10 DEF Fed, Given
  <1>12. NeverCut
    <2> SUFFICES ASSUME NEW b \in Bindings, NEW i \in 0..Len(ipc[b.from])
                 PROVE  \E e \in Cid : /\ e < cluster_id /\ origin[e] = origin[b.to]
                                       /\ Stays(b.from, e, i)
      BY DEF NeverCut
    <2>1. i = 0
      BY <1>5, <1>8
    <2>2. \A j \in 1..0 : FALSE
      OBVIOUS
    <2>3. Stays(b.from, b.to, i)
      BY <1>10, <2>1, <2>2 DEF Stays
    <2> QED BY <1>8, <1>10, <2>3
  <1>13. Told
    <2>1. ASSUME NEW b \in Bindings PROVE Noted(b)
      <3>1. b.to \in Op /\ clusters[b.to] = Start[b.to]
        BY <1>2, <1>8 DEF Present
      <3>2. Start[b.to] \in Host
        BY <3>1, OpAssumption
      <3>3. [to |-> b.to, from |-> b.from, node |-> Start[b.from]] \in from_nodes[clusters[b.to]]
        BY <1>2, <1>7, <3>1, <3>2
      <3> QED BY <3>3 DEF Noted
    <2>2. DOMAIN from_nodes = Host
      BY <1>2
    <2> QED BY <1>6, <2>1, <2>2 DEF Told
  <1>14. Ahead
    BY <1>3, <1>4 DEF Ahead
  <1>15. NoMore
    <2>1. BindsFirst
      BY <1>5 DEF BindsFirst
    <2>2. ASSUME NEW c \in Cid, NEW e \in Cid, Given(c, e) PROVE [from |-> c, to |-> e] \in Bindings
      <3>1. e \in clients[c]
        BY <1>9, <2>2 DEF Given
      <3>2. PICK b \in Bindings : b.from = c /\ b.to = e
        BY <1>2, <1>7, <3>1
      <3> QED BY <1>8, <3>2 DEF Binding
    <2> QED BY <1>6, <2>1, <2>2 DEF NoMore
  <1> QED BY <1>11, <1>12, <1>13, <1>14, <1>15, WorkerIs

\* What the workers are told is what the root's bindings need, for any operators, hosts and
\* topology, when one migration goes on at a time: also while unbind_cluster_process, which
\* no answer waits for, and the commands of a worker are still on their way.
THEOREM WorkerInvariance ==
    ASSUME Overlap = "none" PROVE Spec => [](CoreInv /\ WorkerInv)
  <1>1. Spec => []CoreInv
    BY MigrationInvariance
  <1>2. Init => WorkerInv
    BY WorkerAtStart
  <1>3. CoreInv /\ CoreInv' /\ WorkerInv /\ [Next]_vars => WorkerInv'
    BY StepKeepsWorkers
  <1> QED BY <1>1, <1>2, <1>3, PTL DEF Spec

\* The worker of a started operator has, at every moment of every migration, a socket to an
\* incarnation of each operator it is bound to.
THEOREM NeverCutOff ==
    ASSUME Overlap = "none" PROVE Spec => []UpstreamNeverCut
  <1>1. Spec => [](CoreInv /\ WorkerInv)
    BY WorkerInvariance
  <1>2. CoreInv /\ WorkerInv => UpstreamNeverCut
    <2> SUFFICES ASSUME CoreInv, WorkerInv, NEW b \in Bindings, ~ Starting(b.from)
                 PROVE  \E e \in Cid : /\ origin[e] = origin[b.to]
                                       /\ \/ e \in clients[b.from]
                                          \/ b.from \notin Op /\ BindQueued(b.from, e)
      BY DEF UpstreamNeverCut, Bindings
    <2>1. CASE b.from \in Op
      <3>1. PICK s \in Seq(Command) : s = ipc[b.from]
        BY BoundAre, CoreIs DEF ChannelTypes
      <3>2. 0 \in 0..Len(ipc[b.from])
        BY <3>1, LenProperties
      <3>3. PICK e \in Cid : origin[e] = origin[b.to] /\ Stays(b.from, e, 0)
        BY <2>1, <3>2, WorkerIs DEF NeverCut
      <3>4. \A j \in 1..0 : FALSE
        OBVIOUS
      <3>5. e \in clients[b.from]
        BY <3>3, <3>4 DEF Stays
      <3> QED BY <3>3, <3>5
    <2>2. CASE b.from \notin Op
      <3>1. \A m \in Mig : mig[m].phase = "bind" => mig[m].new # b.from
        BY DEF Starting
      <3>2. PICK e \in Cid : origin[e] = origin[b.to] /\ Given(b.from, e)
        BY <3>1, FullyFed, WorkerIs DEF Sockets
      <3> QED BY <2>2, <3>2 DEF Given
    <2> QED BY <2>1, <2>2
  <1> QED BY <1>1, <1>2, PTL

\* When every migration is over and every message handled, the sockets of the workers are
\* the bindings of the root: no unbind was lost, for the migration of one never ends.
THEOREM QuietSockets ==
    ASSUME Overlap = "none" PROVE Spec => []SocketsAreBindings
  <1>1. Spec => [](CoreInv /\ WorkerInv)
    BY WorkerInvariance
  <1>2. CoreInv /\ WorkerInv => SocketsAreBindings
    <2> SUFFICES ASSUME CoreInv, WorkerInv, Quiet, NEW c \in Cid
                 PROVE  clients[c] = {b.to : b \in {b \in Bindings : b.from = c}}
      BY DEF SocketsAreBindings, Bindings
    <2>1. \A m \in Mig : mig[m].phase \notin {"run", "bind", "unbind"}
      BY DEF Quiet, Busy
    <2>2. Sent = {}
      <3>1. up = Nothing /\ down = Nothing
        <4>1. up \in Queues /\ down \in Queues
          BY CoreIs
        <4> QED BY <4>1 DEF Quiet, Queues, Nothing
      <3> QED BY <3>1, NothingIs DEF Sent
    <2>3. \A d \in Cid : DOMAIN ipc[d] = {}
      <3>1. DOMAIN <<>> = {}
        OBVIOUS
      <3> QED BY <3>1 DEF Quiet
    <2>4. \A d, e \in Cid : ~ BindQueued(d, e) /\ ~ Leaving(d, e)
      BY <2>2, <2>3 DEF BindQueued, Leaving, UnbindQueued, Of
    <2>5. ASSUME NEW b \in Bindings, b.from = c PROVE b.to \in clients[c]
      <3>1. Settled(b)
        BY <2>1 DEF Settled
      <3>2. b.to \in Cid /\ Given(c, b.to)
        BY <2>5, <3>1, BoundAre, WorkerIs DEF Fed
      <3> QED BY <2>4, <3>2 DEF Given
    <2>6. ASSUME NEW e \in clients[c] PROVE [from |-> c, to |-> e] \in Bindings
      <3>1. e \in Cid
        BY CoreIs DEF ChannelTypes
      <3>2. Given(c, e)
        BY <2>6 DEF Given
      <3>3. \/ [from |-> c, to |-> e] \in Bindings \/ Leaving(c, e)
            \/ Dropping([from |-> c, to |-> e])
        BY <3>1, <3>2, WorkerIs DEF NoMore
      <3> QED BY <2>1, <2>4, <3>1, <3>3 DEF Dropping
    <2>7. ASSUME NEW e \in clients[c] PROVE e \in {b.to : b \in {b \in Bindings : b.from = c}}
      <3>1. PICK p \in Bindings : p = [from |-> c, to |-> e]
        BY <2>6
      <3>2. p.from = c /\ p.to = e
        BY <3>1
      <3> QED BY <3>2
    <2> QED BY <2>5, <2>7
  <1> QED BY <1>1, <1>2, PTL

=============================================================================
