--------------------------- MODULE MigrationProofs ---------------------------
(***************************************************************************)
(* The safety of Migration, for any operators, hosts and topology, when    *)
(* one migration goes on at a time: two of neighbours lose a binding.      *)
(* Every call and every answer to it bear one label, which is on its way   *)
(* once (Once), so that what the counters have counted and what is still   *)
(* to come are together no more than the binds and the unbinds there are   *)
(* (BindsCounted, UnbindsCounted).  Hence each phase of a migration ends   *)
(* when its last answer comes, and what the root does then rests on        *)
(* everything the hosts did before.                                        *)
(***************************************************************************)
EXTENDS Migration, FiniteSetTheorems, SequenceTheorems, TLAPS

-----------------------------------------------------------------------------
(* The inductive invariant: the root. *)

Phase == {"idle", "collect", "run", "bind", "unbind", "remove", "done"}
Migrating == [phase : Phase, old : Cid, new : Cid,
              src : Host \cup {NoHost}, dest : Host \cup {NoHost},
              ins : Seq(Binding), outs : Seq(Binding),
              bindCounter : Nat, unbindCounter : Nat]

RootTypes ==
    /\ clusters \in [Cid -> Host \cup {NoHost}]
    /\ bindings \in Seq(Binding)
    /\ cluster_id \in Nat /\ cluster_id >= Cardinality(Op)
    /\ mig \in [Mig -> Migrating]
    /\ origin \in [Cid -> Cid]

\* Migrations are carried out in their order, each takes one cid.
InTurn ==
    /\ \A n, m \in Mig : n < m /\ mig[m].phase # "idle" => mig[n].phase = "done"
    /\ \A m \in Mig : mig[m].phase \in {"idle", "collect"} =>
           cluster_id <= Cardinality(Op) + m - 1

\* The operators a migration is about.
Begun(m) == mig[m].phase \in {"run", "bind", "unbind", "remove"}
Ends(m) ==
    LET g == mig[m]
    IN  /\ Busy(m) => /\ g.old < cluster_id /\ g.src \in Host /\ g.dest \in Host
                      /\ clusters[g.old] = g.src
        /\ Begun(m) => /\ g.new < cluster_id /\ g.old < g.new /\ g.new \notin Op
                       /\ clusters[g.new] = g.dest /\ origin[g.new] = origin[g.old]
        /\ g.phase \in {"idle", "collect", "run"} => g.bindCounter = 0
        /\ g.phase \in {"idle", "collect", "run", "bind"} => g.unbindCounter = 0

\* Every operator of the user has one incarnation, two from the moment its
\* migration took a cid to the removal of the old one.
Alive ==
    /\ \A c \in Cid : c >= cluster_id => ~ Present(c)
    /\ \A c \in Cid : Present(c) => origin[c] \in Op
    /\ \A o \in Op : \E c \in Cid : Present(c) /\ origin[c] = o
    /\ \A c, d \in Cid : Present(c) /\ Present(d) /\ origin[c] = origin[d] /\ c < d =>
           \E m \in Mig : Begun(m) /\ mig[m].old = c /\ mig[m].new = d

\* The bindings: each is there once, names operators that are there and is one of
\* the user's; and what they are to the migration that is going on.
Bindings == Range(bindings)
OldPairs(m) == Range(mig[m].ins) \cup Range(mig[m].outs)
NewPairs(m) == {[from |-> mig[m].new, to |-> b.to] : b \in Range(mig[m].outs)}
               \cup {[from |-> b.from, to |-> mig[m].new] : b \in Range(mig[m].ins)}
Linked ==
    /\ IsInjective(bindings) /\ Edges = UserEdges
    /\ \A b \in Bindings : Present(b.from) /\ Present(b.to) /\ b.from # b.to
Recorded(m) ==
    LET g == mig[m]
    IN  /\ g.phase \in {"run", "bind"} =>
              /\ IsInjective(g.ins) /\ IsInjective(g.outs)
              /\ Range(g.ins) = {b \in Bindings : b.to = g.old}
              /\ Range(g.outs) = {b \in Bindings : b.from = g.old}
        /\ g.phase = "run" => \A b \in Bindings : g.new \notin {b.from, b.to}
        /\ g.phase = "bind" => {b \in Bindings : g.new \in {b.from, b.to}} = NewPairs(m)
        /\ g.phase = "unbind" =>
              /\ \A b \in OldPairs(m) : Present(b.from) /\ Present(b.to) /\ g.new \notin {b.from, b.to}
              /\ \A b \in Range(g.ins) : b.to = g.old
              /\ \A b \in Range(g.outs) : b.from = g.old
        /\ g.phase \in {"unbind", "remove"} => \A b \in Bindings : g.old \notin {b.from, b.to}

RootInv ==
    /\ RootTypes /\ InTurn /\ Alive /\ Linked
    /\ \A m \in Mig : Ends(m) /\ Recorded(m)

-----------------------------------------------------------------------------
(* The inductive invariant: calls and answers. *)

BindOps == {"bind_cluster", "get_workers", "workers", "bound"}
UnbindOps == {"unbind_cluster", "unbound"}
PairOps == BindOps \cup UnbindOps \cup {"notify_binding", "unbind_cluster_process"}
Message ==
    [op : {"get_clusters", "ran", "removed"}, m : Mig]
    \cup [op : {"clusters"}, m : Mig, workers : BOOLEAN]
    \cup [op : {"run_cluster"}, m : Mig, cid : Cid, workers : BOOLEAN]
    \cup [op : {"remove_cluster"}, m : Mig, cid : Cid]
    \cup [op : {"bind_cluster"}, m : Mig, from : Cid, to : Cid, node : Host]
    \cup [op : {"notify_binding", "get_workers"}, m : Mig, from : Cid, to : Cid,
          node : Host, dst : Host]
    \cup [op : {"workers"}, m : Mig, from : Cid, to : Cid, found : BOOLEAN, dst : Host]
    \cup [op : {"bound", "unbind_cluster", "unbound"}, m : Mig, from : Cid, to : Cid]
    \cup [op : {"unbind_cluster_process"}, m : Mig, from : Cid, to : Cid, dst : Host]
Queues == [Host -> Seq(Message)]
Command == [cmd : {"bind", "unbind"}, uid : Cid]

\* A call and its answers have one label.
Kind(op) ==
    IF op \in {"get_clusters", "clusters"} THEN "collect"
    ELSE IF op \in {"run_cluster", "ran"} THEN "run"
    ELSE IF op \in BindOps THEN "bind"
    ELSE IF op \in UnbindOps THEN "unbind"
    ELSE IF op \in {"remove_cluster", "removed"} THEN "remove" ELSE op
Label(x) == IF x.op \in PairOps THEN <<Kind(x.op), x.m, x.from, x.to>>
                                ELSE <<Kind(x.op), x.m, x.m, x.m>>

\* What is on its way between the root and the hosts; no two messages have one label.
Carried(Q) == UNION {Range(Q[k]) : k \in DOMAIN Q}
Alone(Q) ==
    \A k, l \in DOMAIN Q : \A i \in DOMAIN Q[k], j \in DOMAIN Q[l] :
        Label(Q[k][i]) = Label(Q[l][j]) => k = l /\ i = j
Sent == Carried(up) \cup Carried(down)
Once ==
    /\ Alone(up) /\ Alone(down)
    /\ \A x \in Carried(up), y \in Carried(down) : Label(x) # Label(y)

ChannelTypes ==
    /\ up \in Queues /\ down \in Queues
    /\ ipc \in [Cid -> Seq(Command)]
    /\ hosted \in [Host -> SUBSET Cid] /\ crew \subseteq Cid
    /\ known \in [Host -> SUBSET Cid]
    /\ \A h \in Host : from_nodes[h] \subseteq [to : Cid, from : Cid, node : Host]
    /\ clients \in [Cid -> SUBSET Cid] /\ binded \in [Cid -> BOOLEAN]

\* What a message is about is what its migration has reached.
Pair(x) == [from |-> x.from, to |-> x.to]
Timely(x) ==
    LET g == mig[x.m]
    IN  /\ Kind(x.op) = "collect" => g.phase = "collect"
        /\ Kind(x.op) = "run" => g.phase = "run"
        /\ Kind(x.op) \in {"bind", "notify_binding"} =>
               g.phase = "bind" /\ Pair(x) \in NewPairs(x.m)
        /\ Kind(x.op) = "unbind" => g.phase = "unbind" /\ Pair(x) \in OldPairs(x.m)
        /\ x.op = "unbind_cluster_process" => g.phase \in {"unbind", "remove", "done"}
        /\ Kind(x.op) = "remove" => g.phase = "remove"
        /\ x.op \in {"clusters", "run_cluster"} => x.workers
        /\ x.op = "run_cluster" => x.cid = g.new
        /\ x.op = "remove_cluster" => x.cid = g.old
        /\ x.op = "workers" => x.found

\* Messages go where their operators are.
Called(h, x) ==
    LET g == mig[x.m]
    IN  /\ x.op \in {"get_clusters", "remove_cluster"} => h = g.src
        /\ x.op = "run_cluster" => h = g.dest
        /\ x.op \in {"bind_cluster", "unbind_cluster", "workers"} => h = clusters[x.from]
        /\ x.op = "bind_cluster" => x.node = clusters[x.to]
        /\ x.op \in {"notify_binding", "get_workers"} =>
               h = clusters[x.to] /\ x.node = clusters[x.from]
        /\ x.op = "unbind_cluster_process" => x.dst = h
Answered(h, x) ==
    LET g == mig[x.m]
    IN  /\ x.op = "ran" => g.new \in hosted[g.dest] \cap crew
        /\ x.op = "removed" => g.old \notin hosted[g.src]
        /\ x.op \in {"notify_binding", "get_workers"} =>
               x.node = clusters[x.from] /\ x.dst = clusters[x.to]
        /\ x.op = "workers" => x.dst = clusters[x.from]
        /\ x.op = "unbind_cluster_process" => x.dst = h
Addressed ==
    /\ \A x \in Sent : Timely(x)
    /\ \A h \in Host : \A x \in Range(down[h]) : Called(h, x)
    /\ \A h \in Host : \A x \in Range(up[h]) : Answered(h, x)

\* The binds counted and those to come are no more than there are pairs; so the unbinds.
Coming(m, pairs, kind) ==
    {p \in pairs : \E x \in Sent : x.m = m /\ Kind(x.op) = kind /\ Pair(x) = p}
BindsComing(m) == Coming(m, NewPairs(m), "bind")
UnbindsComing(m) == Coming(m, OldPairs(m), "unbind")
BindsCounted ==
    \A m \in Mig : mig[m].bindCounter + Cardinality(BindsComing(m)) <= Length(m)
UnbindsCounted ==
    \A m \in Mig : mig[m].unbindCounter + Cardinality(UnbindsComing(m)) <= Length(m)

ChannelInv == ChannelTypes /\ Once /\ Addressed /\ BindsCounted /\ UnbindsCounted

-----------------------------------------------------------------------------
(* The inductive invariant: hosts. *)

\* An operator is on its host, with a worker, from the answer of run_cluster to the
\* call of remove_cluster.
Hosted ==
    /\ \A h \in Host : \A c \in hosted[h] : clusters[c] = h
    /\ \A c \in Cid : Present(c) =>
           \/ c \in hosted[clusters[c]] \cap crew
           \/ \E m \in Mig : mig[m].phase = "run" /\ mig[m].new = c
           \/ \E m \in Mig : mig[m].phase = "remove" /\ mig[m].old = c

\* A host's entry for a binding has the one node on which from is.
Entered ==
    \A h \in Host : \A n \in from_nodes[h] :
        n.from < cluster_id /\ (Present(n.from) => n.node = clusters[n.from])

\* A host is told of a binding before it is asked for its workers.
Follows(s, x, y) == \E i, j \in DOMAIN s : i < j /\ s[i] = x /\ s[j] = y
Asks(y, x) == y.op = "get_workers" /\ y.m = x.m /\ y.from = x.from /\ y.to = x.to
Asked ==
    /\ \A h \in Host : \A x \in Range(up[h]) : x.op = "notify_binding" =>
           \E y \in Message : Asks(y, x) /\ Follows(up[h], x, y)
    /\ \A h \in Host : \A x \in Range(down[h]) : x.op = "notify_binding" =>
           \E y \in Message : Asks(y, x) /\ (Follows(down[h], x, y) \/ y \in Carried(up))

\* A binding is not unbound twice.
OneUnbind ==
    \A x, y \in Sent : x.op = "unbind_cluster" /\ y.op = "unbind_cluster_process" =>
        ~ (x.m = y.m /\ x.from = y.from /\ x.to = y.to)

CoreInv == RootInv /\ ChannelInv /\ Hosted /\ Entered /\ Asked /\ OneUnbind

-----------------------------------------------------------------------------
(* Picking and deleting. *)

\* A finite set of naturals can be counted off: each member has a place of its own, and
\* each place a member.
LEMMA CountedOff ==
    ASSUME NEW F \in SUBSET Nat, IsFiniteSet(F)
    PROVE  /\ \A i \in F : Cardinality({j \in F : j <= i}) \in 1..Cardinality(F)
           /\ \A i, k \in F :
                  Cardinality({j \in F : j <= i}) = Cardinality({j \in F : j <= k}) => i = k
           /\ \A n \in 1..Cardinality(F) : \E i \in F : Cardinality({j \in F : j <= i}) = n
  <1> DEFINE upto(i) == {j \in F : j <= i}
             rank == [i \in F |-> Cardinality(upto(i))]
  <1>1. ASSUME NEW i \in F
        PROVE  /\ IsFiniteSet(upto(i)) /\ Cardinality(upto(i)) \in 1..Cardinality(F)
    <2>1. upto(i) \subseteq F /\ upto(i) # {}
      OBVIOUS
    <2>2. /\ IsFiniteSet(upto(i)) /\ Cardinality(upto(i)) <= Cardinality(F)
          /\ Cardinality(upto(i)) # 0
      BY <2>1, FS_Subset, FS_EmptySet
    <2>3. Cardinality(upto(i)) \in Nat /\ Cardinality(F) \in Nat
      BY <2>2, FS_CardinalityType
    <2> HIDE DEF upto
    <2> QED BY <2>2, <2>3
  <1>2. ASSUME NEW i \in F, NEW j \in F, i < j
        PROVE  Cardinality(upto(i)) # Cardinality(upto(j))
    <2>1. upto(i) \subseteq upto(j) /\ j \in upto(j) /\ j \notin upto(i)
      <3>1. i \in Nat /\ j \in Nat /\ \A k \in F : k \in Nat /\ (k <= i => k <= j)
        BY <1>2
      <3>2. j <= j /\ ~ (j <= i)
        BY <1>2, <3>1
      <3> QED BY <3>1, <3>2
    <2>2. upto(i) # upto(j)
      BY <2>1
    <2> QED BY <1>1, <2>1, <2>2, FS_Subset
  <1>3. \A i, j \in F : i # j => i < j \/ j < i
    OBVIOUS
  <1>4. \A i, j \in F : rank[i] = rank[j] => i = j
    BY <1>2, <1>3
  <1>5. rank \in [F -> 1..Cardinality(F)]
    BY <1>1
  <1>6. \A i \in F : rank[i] = Cardinality({j \in F : j <= i})
    OBVIOUS
  <1> HIDE DEF rank, upto
  <1>7. rank \in Injection(F, 1..Cardinality(F))
    BY <1>4, <1>5 DEF Injection, IsInjective
  <1>8. Cardinality(F) \in Nat
    BY FS_CardinalityType
  <1>9. IsFiniteSet(1..Cardinality(F)) /\ Cardinality(1..Cardinality(F)) = Cardinality(F)
    BY <1>8, FS_Interval
  <1>10. rank \in Surjection(F, 1..Cardinality(F))
    BY <1>7, <1>9, FS_Injection
  <1>11. \A n \in 1..Cardinality(F) : \E i \in F : rank[i] = n
    BY <1>10 DEF Surjection
  <1> QED BY <1>4, <1>5, <1>6, <1>11

LEMMA LeastOf == ASSUME NEW F \in SUBSET Nat, F # {} PROVE \E l \in F : \A i \in F : l <= i
  <1>1. PICK x \in F : TRUE
    OBVIOUS
  <1> DEFINE G == {i \in F : i <= x}
  <1>2. G \in SUBSET Nat /\ x \in G /\ G \subseteq 0..x
    <2>1. x \in Nat /\ \A i \in F : i \in Nat
      OBVIOUS
    <2>2. x <= x /\ \A i \in F : i <= x => i \in 0..x
      BY <2>1
    <2> QED BY <2>1, <2>2, Zenon
  <1>3. IsFiniteSet(G)
    <2>1. 0 \in Int /\ x \in Int
      OBVIOUS
    <2>2. IsFiniteSet(0..x)
      BY <2>1, FS_Interval
    <2> QED BY <1>2, <2>2, FS_Subset
  <1>4. Cardinality(G) \in Nat /\ Cardinality(G) # 0
    BY <1>2, <1>3, FS_CardinalityType, FS_EmptySet
  <1>5. \A i \in F : i \in G \/ x <= i
    OBVIOUS
  <1> HIDE DEF G
  <1>6. PICK l \in G : Cardinality({j \in G : j <= l}) = 1
    BY <1>2, <1>3, <1>4, CountedOff
  <1>7. ASSUME NEW i \in G, ~ (l <= i) PROVE FALSE
    <2>1. {i, l} \subseteq {j \in G : j <= l} /\ i # l
      BY <1>2, <1>7
    <2>2. IsFiniteSet({j \in G : j <= l})
      BY <1>3, FS_Subset
    <2>3. PICK y : {j \in G : j <= l} = {y}
      <3>1. Cardinality({j \in G : j <= l}) = 1
        BY <1>6
      <3> QED BY <2>2, <3>1, FS_Singleton
    <2> QED BY <2>1, <2>3
  <1>8. l \in F /\ l <= x
    BY <1>2, <1>7 DEF G
  <1> QED BY <1>2, <1>5, <1>7, <1>8

\* What holds at 0 and goes on from i to i + 1 holds up to n.
LEMMA StepByStep ==
    ASSUME NEW n \in Nat, NEW S, 0 \in S, \A i \in 0..(n - 1) : i \in S => i + 1 \in S
    PROVE  0..n \subseteq S
  <1> SUFFICES ASSUME 0..n \ S # {} PROVE FALSE
    OBVIOUS
  <1>1. PICK l \in 0..n \ S : \A i \in 0..n \ S : l <= i
    <2> DEFINE F == 0..n \ S
    <2>1. F \in SUBSET Nat /\ F # {}
      OBVIOUS
    <2> HIDE DEF F
    <2>2. \E l \in F : \A i \in F : l <= i
      BY <2>1, LeastOf
    <2> QED BY <2>2 DEF F
  <1>2. l # 0 /\ l - 1 \in 0..(n - 1) /\ l - 1 \in 0..n /\ ~ (l <= l - 1)
    BY <1>1
  <1>3. l - 1 \in S /\ (l - 1) + 1 = l
    BY <1>1, <1>2
  <1> QED BY <1>1, <1>2, <1>3

LEMMA PickedIs ==
    ASSUME NEW S, NEW s \in Seq(S), NEW I \in SUBSET DOMAIN s
    PROVE  /\ Picked(s, I) \in Seq(S) /\ Len(Picked(s, I)) = Cardinality(I)
           /\ Range(Picked(s, I)) = {s[i] : i \in I}
           /\ IsInjective(s) => IsInjective(Picked(s, I))
  <1> DEFINE n == Cardinality(I)
             at(k) == CHOOSE i \in I : Cardinality({j \in I : j <= i}) = k
             p == Picked(s, I)
  <1>1. DOMAIN s = 1..Len(s) /\ Len(s) \in Nat /\ \A i \in DOMAIN s : s[i] \in S
    BY LenProperties, ElementOfSeq
  <1>2. I \in SUBSET Nat /\ IsFiniteSet(I) /\ n \in Nat
    <2>1. I \in SUBSET Nat /\ I \subseteq 1..Len(s) /\ 1 \in Int /\ Len(s) \in Int
      BY <1>1
    <2>2. IsFiniteSet(1..Len(s))
      BY <2>1, FS_Interval
    <2>3. IsFiniteSet(I)
      BY <2>1, <2>2, FS_Subset
    <2> QED BY <2>1, <2>3, FS_CardinalityType
  <1>3. \A k \in 1..n : at(k) \in I /\ Cardinality({j \in I : j <= at(k)}) = k
    <2>1. \A k \in 1..n : \E i \in I : Cardinality({j \in I : j <= i}) = k
      BY <1>2, CountedOff
    <2> QED BY <2>1
  <1>4. \A i \in I : \E k \in 1..n : at(k) = i
    <2> SUFFICES ASSUME NEW i \in I PROVE \E k \in 1..n : at(k) = i
      OBVIOUS
    <2>1. PICK k : k = Cardinality({j \in I : j <= i})
      OBVIOUS
    <2>2. k \in 1..n
      BY <1>2, <2>1, CountedOff
    <2>3. at(k) \in I /\ Cardinality({j \in I : j <= at(k)}) = k
      BY <1>3, <2>2
    <2>4. at(k) = i
      BY <1>2, <2>1, <2>3, CountedOff
    <2> QED BY <2>2, <2>4
  <1>5. \A k, l \in 1..n : at(k) = at(l) => k = l
    BY <1>3
  <1>6. p = [k \in 1..n |-> s[at(k)]]
    BY DEF Picked
  <1> HIDE DEF at, p, n
  <1>7. p \in [1..n -> S]
    BY <1>1, <1>3, <1>6
  <1>8. p \in Seq(S) /\ Len(p) = n /\ DOMAIN p = 1..n
    BY <1>2, <1>7
  <1>9. Range(p) = {s[i] : i \in I}
    BY <1>3, <1>4, <1>6, <1>8 DEF Range
  <1>10. ASSUME IsInjective(s) PROVE IsInjective(p)
    BY <1>3, <1>5, <1>6, <1>8, <1>10 DEF IsInjective
  <1> QED BY <1>8, <1>9, <1>10 DEF p, n

LEMMA GreatestOfOne == \A i : Max({i}) = i
  BY DEF Max

\* del of a binding that is there, once, takes it out.
LEMMA DelIs ==
    ASSUME NEW s \in Seq(Binding), IsInjective(s), NEW b \in Range(s)
    PROVE  /\ Del(s, b) \in Seq(Binding) /\ IsInjective(Del(s, b))
           /\ Range(Del(s, b)) = Range(s) \ {b}
  <1>1. DOMAIN s = 1..Len(s) /\ Len(s) \in Nat /\ \A i \in DOMAIN s : s[i] \in Binding
    BY LenProperties, ElementOfSeq
  <1>2. PICK p \in 1..Len(s) : s[p] = b
    BY <1>1 DEF Range
  <1>3. \A i \in 1..Len(s) : s[i] = b => i = p
    BY <1>1, <1>2 DEF IsInjective
  <1>4. \A i \in DOMAIN s : s[i].from = b.from /\ s[i].to = b.to => s[i] = b
    BY <1>1, <1>2 DEF Binding
  <1>5. Hits(s, b.from, b.to) = {p}
    BY <1>1, <1>2, <1>3, <1>4 DEF Hits
  <1>6. Del(s, b) = RemoveAt(s, p)
    BY <1>5, GreatestOfOne DEF Del, DeleteAt
  <1> DEFINE front == SubSeq(s, 1, p - 1)
             back == SubSeq(s, p + 1, Len(s))
             r == front \o back
             place(i) == IF i < p THEN i ELSE i + 1
  <1>7. /\ front \in Seq(Binding) /\ Len(front) = p - 1
        /\ \A i \in 1..(p - 1) : front[i] = s[i]
    <2>1. 1 \in Int /\ p - 1 \in Int /\ \A i \in 1..(p - 1) : s[i] \in Binding
      BY <1>1
    <2>2. /\ front \in Seq(Binding) /\ Len(front) = IF 1 <= p - 1 THEN (p - 1) - 1 + 1 ELSE 0
          /\ \A i \in 1..((p - 1) - 1 + 1) : front[i] = s[1 + i - 1]
      BY <2>1, SubSeqProperties
    <2> QED BY <1>1, <2>2
  <1>8. /\ back \in Seq(Binding) /\ Len(back) = Len(s) - p
        /\ \A i \in 1..(Len(s) - p) : back[i] = s[p + i]
    <2>1. p + 1 \in Int /\ Len(s) \in Int /\ \A i \in (p + 1)..Len(s) : s[i] \in Binding
      BY <1>1
    <2>2. /\ back \in Seq(Binding) /\ Len(back) = IF p + 1 <= Len(s) THEN Len(s) - (p + 1) + 1 ELSE 0
          /\ \A i \in 1..(Len(s) - (p + 1) + 1) : back[i] = s[p + 1 + i - 1]
      BY <2>1, SubSeqProperties
    <2>3. Len(s) - (p + 1) + 1 = Len(s) - p /\ (~ (p + 1 <= Len(s)) => Len(s) - p = 0)
      <3>1. \A l \in Nat : \A k \in 1..l :
                l - (k + 1) + 1 = l - k /\ (~ (k + 1 <= l) => l - k = 0)
        OBVIOUS
      <3> QED BY <1>1, <3>1
    <2>4. \A i \in 1..(Len(s) - p) : p + 1 + i - 1 = p + i
      BY <1>1
    <2> HIDE DEF back
    <2> QED BY <2>2, <2>3, <2>4
  <1> HIDE DEF front, back
  <1>9. /\ r \in Seq(Binding) /\ Len(r) = Len(s) - 1
        /\ \A i \in 1..(Len(s) - 1) : r[i] = s[place(i)]
    <2>1. /\ r \in Seq(Binding) /\ Len(r) = Len(front) + Len(back)
          /\ \A i \in 1..(Len(front) + Len(back)) :
                 r[i] = IF i <= Len(front) THEN front[i] ELSE back[i - Len(front)]
      BY <1>7, <1>8, ConcatProperties
    <2>2. ASSUME NEW i \in 1..(Len(s) - 1) PROVE r[i] = s[place(i)]
      <3>1. CASE i < p
        BY <1>1, <1>7, <1>8, <2>1, <3>1
      <3>2. CASE ~ (i < p)
        <4>1. i - (p - 1) \in 1..(Len(s) - p) /\ p + (i - (p - 1)) = i + 1
          BY <1>1, <3>2
        <4>2. i \in 1..(Len(front) + Len(back)) /\ ~ (i <= Len(front)) /\ Len(front) = p - 1
          BY <1>1, <1>7, <1>8, <3>2
        <4>3. r[i] = back[i - (p - 1)]
          BY <2>1, <4>2
        <4> QED BY <1>8, <3>2, <4>1, <4>3
      <3> QED BY <3>1, <3>2
    <2>3. Len(front) + Len(back) = Len(s) - 1
      BY <1>1, <1>7, <1>8
    <2>4. r \in Seq(Binding) /\ Len(r) = Len(s) - 1
      BY <2>1, <2>3
    <2> QED BY <2>2, <2>4
  <1>10. Del(s, b) = r
    BY <1>6 DEF RemoveAt, front, back
  <1> HIDE DEF r
  <1>11. DOMAIN r = 1..(Len(s) - 1)
    BY <1>9
  <1>12. \A i \in 1..(Len(s) - 1) : place(i) \in 1..Len(s) /\ place(i) # p
    BY <1>1
  <1>13. \A i, j \in 1..(Len(s) - 1) : place(i) = place(j) => i = j
    BY <1>1
  <1>14. \A l \in 1..Len(s) : l # p => \E i \in 1..(Len(s) - 1) : place(i) = l
    <2> SUFFICES ASSUME NEW l \in 1..Len(s), l # p PROVE \E i \in 1..(Len(s) - 1) : place(i) = l
      OBVIOUS
    <2>1. CASE l < p
      <3>1. l \in 1..(Len(s) - 1) /\ place(l) = l
        BY <1>1, <2>1
      <3> QED BY <3>1
    <2>2. CASE p < l
      <3>1. l - 1 \in 1..(Len(s) - 1) /\ place(l - 1) = l
        BY <1>1, <2>2
      <3> QED BY <3>1
    <2> QED BY <1>1, <2>1, <2>2
  <1> HIDE DEF place
  <1>15. IsInjective(r)
    BY <1>1, <1>9, <1>11, <1>12, <1>13 DEF IsInjective
  <1>16. Range(r) = Range(s) \ {b}
    <2>1. \A i \in 1..(Len(s) - 1) : r[i] \in Range(s) /\ r[i] # b
      BY <1>1, <1>2, <1>3, <1>9, <1>12 DEF Range
    <2>2. \A l \in 1..Len(s) : s[l] # b => \E i \in 1..(Len(s) - 1) : r[i] = s[l]
      BY <1>2, <1>9, <1>14
    <2>3. Range(s) = {s[l] : l \in 1..Len(s)} /\ Range(r) = {r[i] : i \in 1..(Len(s) - 1)}
      BY <1>1, <1>11 DEF Range
    <2>4. \A x \in Range(r) : x \in Range(s) \ {b}
      BY <2>1, <2>3
    <2>5. \A x \in Range(s) \ {b} : x \in Range(r)
      <3> SUFFICES ASSUME NEW l \in 1..Len(s), s[l] # b PROVE s[l] \in Range(r)
        BY <2>3
      <3> QED BY <2>2, <2>3
    <2> QED BY <2>4, <2>5
  <1> QED BY <1>9, <1>10, <1>15, <1>16

\* A function that is defined step by step exists.
LEMMA DelAllIs ==
    ASSUME NEW s \in Seq(Binding), IsInjective(s),
           NEW pairs \in Seq(Binding), IsInjective(pairs), Range(pairs) \subseteq Range(s)
    PROVE  /\ DelAll(s, pairs) \in Seq(Binding) /\ IsInjective(DelAll(s, pairs))
           /\ Range(DelAll(s, pairs)) = Range(s) \ Range(pairs)
  <1> DEFINE n == Len(pairs)
             body(f, i) == IF i = 0 THEN s ELSE Del(f[i - 1], pairs[i])
             Upto(k, f) == f = [i \in 0..k |-> body(f, i)]
             gone(k) == {pairs[j] : j \in 1..k}
             Good(q, k) == /\ q \in Seq(Binding) /\ IsInjective(q)
                           /\ Range(q) = Range(s) \ gone(k)
             left == CHOOSE f : f = [i \in 0..n |-> body(f, i)]
  <1>1. n \in Nat /\ DOMAIN pairs = 1..n /\ \A i \in 1..n : pairs[i] \in Binding
    BY LenProperties, ElementOfSeq
  <1>2. DelAll(s, pairs) = left[n]
    BY DEF DelAll
  <1> DEFINE S == {k \in 0..n : \E f : Upto(k, f)}
  <1>4. \A j, k \in 1..n : pairs[j] = pairs[k] => j = k
    BY <1>1 DEF IsInjective
  <1>5. ASSUME NEW k \in 0..(n - 1), NEW q, Good(q, k) PROVE Good(Del(q, pairs[k + 1]), k + 1)
    <2>1. k + 1 \in 1..n /\ k + 1 \notin 1..k /\ 1..(k + 1) = 1..k \cup {k + 1}
      BY <1>1
    <2>2. pairs[k + 1] \in Range(s) /\ pairs[k + 1] \notin gone(k)
      <3>1. pairs[k + 1] \in Range(pairs) /\ 1..k \subseteq 1..n
        BY <1>1, <2>1 DEF Range
      <3>2. \A j \in 1..k : pairs[j] # pairs[k + 1]
        BY <1>4, <2>1, <3>1
      <3> QED BY <3>1, <3>2
    <2>3. gone(k + 1) = gone(k) \cup {pairs[k + 1]}
      BY <2>1
    <2> HIDE DEF gone
    <2>4. pairs[k + 1] \in Range(q)
      BY <1>5, <2>2
    <2>5. /\ Del(q, pairs[k + 1]) \in Seq(Binding) /\ IsInjective(Del(q, pairs[k + 1]))
          /\ Range(Del(q, pairs[k + 1])) = Range(q) \ {pairs[k + 1]}
      BY <1>5, <2>4, DelIs
    <2> QED BY <1>5, <2>3, <2>5
  <1>6. gone(0) = {} /\ gone(n) = Range(pairs)
    BY <1>1 DEF Range
  <1> HIDE DEF gone
  <1>7. Good(s, 0)
    BY <1>6
  <1> HIDE DEF Good
  <1>8. 0 \in S
    <2> DEFINE f == [i \in 0..0 |-> s]
    <2>1. \A i \in 0..0 : i = 0
      OBVIOUS
    <2>2. f = [i \in 0..0 |-> body(f, i)]
      BY <2>1
    <2>3. 0 \in 0..n
      BY <1>1
    <2> HIDE DEF f, body
    <2> QED BY <2>2, <2>3, Zenon
  <1>9. ASSUME NEW k \in 0..(n - 1), k \in S PROVE k + 1 \in S
    <2>1. PICK f : f = [i \in 0..k |-> body(f, i)]
      BY <1>9
    <2>2. /\ k + 1 \in 0..n /\ k + 1 \notin 0..k /\ 0..(k + 1) = 0..k \cup {k + 1} /\ k \in 0..k
          /\ k + 1 # 0 /\ (k + 1) - 1 = k /\ \A i \in 0..k : i # 0 => i - 1 \in 0..k
      BY <1>1
    <2> DEFINE g == [i \in 0..(k + 1) |-> IF i \in 0..k THEN f[i] ELSE Del(f[k], pairs[k + 1])]
    <2>3. g[k + 1] = Del(f[k], pairs[k + 1]) /\ \A i \in 0..k : g[i] = f[i]
      BY <2>2
    <2>4. \A i \in 0..k : f[i] = body(f, i)
      BY <2>1
    <2>5. \A i \in 0..k : body(g, i) = body(f, i)
      BY <2>2, <2>3
    <2>6. body(g, k + 1) = Del(f[k], pairs[k + 1])
      BY <2>2, <2>3
    <2>7. \A i \in 0..(k + 1) : g[i] = body(g, i)
      BY <2>2, <2>3, <2>4, <2>5, <2>6
    <2>8. g = [i \in 0..(k + 1) |-> g[i]]
      OBVIOUS
    <2> HIDE DEF g, body
    <2>9. g = [i \in 0..(k + 1) |-> body(g, i)]
      BY <2>7, <2>8
    <2> QED BY <2>2, <2>9
  <1> HIDE DEF S
  <1>10. n \in S
    <2>1. 0..n \subseteq S
      BY <1>1, <1>8, <1>9, StepByStep
    <2> QED BY <1>1, <2>1
  <1>11. \E f : f = [i \in 0..n |-> body(f, i)]
    BY <1>10 DEF S
  <1>12. left = [i \in 0..n |-> body(left, i)]
    BY <1>11
  <1>13. \A i \in 0..n : left[i] = body(left, i)
    BY <1>12
  <1> HIDE DEF left
  <1> DEFINE T == {k \in 0..n : Good(left[k], k)}
  <1>14. 0 \in T
    BY <1>1, <1>7, <1>13
  <1>15. ASSUME NEW k \in 0..(n - 1), k \in T PROVE k + 1 \in T
    <2>1. k + 1 \in 0..n /\ k + 1 # 0 /\ (k + 1) - 1 = k
      BY <1>1
    <2>2. left[k + 1] = Del(left[k], pairs[k + 1])
      BY <1>13, <2>1
    <2> QED BY <1>5, <1>15, <2>1, <2>2
  <1> HIDE DEF T
  <1>16. n \in T
    <2>1. 0..n \subseteq T
      BY <1>1, <1>14, <1>15, StepByStep
    <2> QED BY <1>1, <2>1
  <1>17. Good(left[n], n)
    BY <1>16 DEF T
  <1> QED BY <1>2, <1>6, <1>17 DEF Good

\* What forgets bindings that are not there changes nothing.
LEMMA ForgetAllIs ==
    ASSUME NEW s \in Seq(Binding), NEW pairs \in Seq(Binding), Range(s) \cap Range(pairs) = {}
    PROVE  ForgetAll(s, pairs) = s
  <1> DEFINE n == Len(pairs)
             body(f, i) == IF i = 0 THEN s ELSE Forget(f[i - 1], pairs[i])
             left == CHOOSE f : f = [i \in 0..n |-> body(f, i)]
             T == {k \in 0..n : left[k] = s}
             same == [i \in 0..n |-> s]
  <1>1. n \in Nat /\ DOMAIN pairs = 1..n /\ \A i \in 1..n : pairs[i] \in Binding
    BY LenProperties, ElementOfSeq
  <1>2. \A i \in 1..n : Forget(s, pairs[i]) = s
    <2> SUFFICES ASSUME NEW i \in 1..n PROVE Forget(s, pairs[i]) = s
      OBVIOUS
    <2>1. pairs[i] \in Range(pairs) /\ pairs[i] \in Binding
      BY <1>1 DEF Range
    <2>2. \A j \in DOMAIN s : s[j] \in Binding /\ s[j] # pairs[i]
      BY <2>1, ElementOfSeq, LenProperties DEF Range
    <2>3. \A j \in DOMAIN s : ~ (s[j].from = pairs[i].from /\ s[j].to = pairs[i].to)
      BY <2>1, <2>2 DEF Binding
    <2>4. Hits(s, pairs[i].from, pairs[i].to) = {}
      BY <2>3 DEF Hits
    <2> QED BY <2>4 DEF Forget
  <1>3. \A i \in 0..n : i # 0 => i \in 1..n /\ i - 1 \in 0..n
    BY <1>1
  <1>4. \A i \in 0..n : same[i] = s
    OBVIOUS
  <1>5. \A i \in 0..n : body(same, i) = s
    BY <1>2, <1>3, <1>4
  <1>6. same = [i \in 0..n |-> body(same, i)]
    BY <1>5
  <1>7. left = [i \in 0..n |-> body(left, i)]
    BY <1>6
  <1>8. \A i \in 0..n : left[i] = body(left, i)
    BY <1>7
  <1>9. ForgetAll(s, pairs) = left[n]
    BY DEF ForgetAll
  <1> HIDE DEF left
  <1>10. 0 \in T
    BY <1>1, <1>8
  <1>11. ASSUME NEW k \in 0..(n - 1), k \in T PROVE k + 1 \in T
    <2>1. k + 1 \in 1..n /\ k + 1 \in 0..n /\ k + 1 # 0 /\ (k + 1) - 1 = k
      BY <1>1
    <2>2. left[k + 1] = Forget(left[k], pairs[k + 1])
      BY <1>8, <2>1
    <2> QED BY <1>2, <1>11, <2>1, <2>2
  <1> HIDE DEF T
  <1>12. n \in T
    <2>1. 0..n \subseteq T
      BY <1>1, <1>10, <1>11, StepByStep
    <2> QED BY <1>1, <2>1
  <1> QED BY <1>9, <1>12 DEF T

LEMMA IdsAreNumbers ==
    /\ Cardinality(Op) \in Nat /\ MaxMig \in Nat /\ Op \subseteq Cid /\ Cid \subseteq Nat
    /\ Mig = 1..MaxMig /\ Op = 0..(Cardinality(Op) - 1)
    /\ Cid = 0..(Cardinality(Op) + MaxMig - 1) /\ Mig \subseteq Nat /\ NoHost \notin Host
  <1>1. Cardinality(Op) \in Nat /\ MaxMig \in Nat
    BY OpAssumption, FS_CardinalityType
  <1> QED BY <1>1, OpAssumption DEF Cid, Mig

\* The calls for pairs whose operators are all there.
BindCall(m, b) ==
    [op |-> "bind_cluster", m |-> m, from |-> b.from, to |-> b.to, node |-> clusters[b.to]]
UnbindCall(m, b) == [op |-> "unbind_cluster", m |-> m, from |-> b.from, to |-> b.to]
LEMMA CallsAre ==
    ASSUME clusters \in [Cid -> Host \cup {NoHost}],
           NEW pairs \in Seq(Binding), IsInjective(pairs),
           \A b \in Range(pairs) : Present(b.from) /\ Present(b.to),
           NEW h \in Host, NEW m \in Mig
    PROVE  /\ Handled(pairs) = pairs /\ Gone(pairs) = {}
           /\ BindCalls(h, m, pairs) \in Seq(Message)
           /\ UnbindCalls(h, m, pairs) \in Seq(Message)
           /\ Range(BindCalls(h, m, pairs)) =
                  {BindCall(m, b) : b \in {b \in Range(pairs) : clusters[b.from] = h}}
           /\ Range(UnbindCalls(h, m, pairs)) =
                  {UnbindCall(m, b) : b \in {b \in Range(pairs) : clusters[b.from] = h}}
           /\ \A i, j \in DOMAIN BindCalls(h, m, pairs) :
                  Pair(BindCalls(h, m, pairs)[i]) = Pair(BindCalls(h, m, pairs)[j]) => i = j
           /\ \A i, j \in DOMAIN UnbindCalls(h, m, pairs) :
                  Pair(UnbindCalls(h, m, pairs)[i]) = Pair(UnbindCalls(h, m, pairs)[j]) => i = j
  <1>1. \A i \in DOMAIN pairs : pairs[i] \in Binding /\ pairs[i] \in Range(pairs)
    BY LenProperties, ElementOfSeq DEF Range
  <1>2. Gone(pairs) = {}
    BY <1>1 DEF Gone
  <1>3. Handled(pairs) = pairs
    BY <1>2 DEF Handled
  <1> DEFINE I == {i \in DOMAIN pairs : clusters[pairs[i].from] = h}
             here == OnHost(h, pairs)
             bind == BindCalls(h, m, pairs)
             unbind == UnbindCalls(h, m, pairs)
  <1>4. here = Picked(pairs, I)
    BY DEF OnHost
  <1>5. I \in SUBSET DOMAIN pairs
    OBVIOUS
  <1>6. /\ here \in Seq(Binding) /\ IsInjective(here)
        /\ Range(here) = {pairs[i] : i \in I}
    BY <1>4, <1>5, PickedIs
  <1>7. Range(here) = {b \in Range(pairs) : clusters[b.from] = h}
    BY <1>6 DEF Range
  <1>8. /\ bind = [i \in DOMAIN here |-> BindCall(m, here[i])]
        /\ unbind = [i \in DOMAIN here |-> UnbindCall(m, here[i])]
    BY <1>3 DEF BindCalls, UnbindCalls, BindCall, UnbindCall
  <1> HIDE DEF here, bind, unbind, I
  <1>9. DOMAIN here = 1..Len(here) /\ Len(here) \in Nat /\ \A i \in DOMAIN here : here[i] \in Binding
    BY <1>6, LenProperties, ElementOfSeq
  <1>10. \A i \in DOMAIN here : here[i] \in Range(here)
    BY DEF Range
  <1>11. \A i \in DOMAIN here : Present(here[i].to)
    BY <1>7, <1>10
  <1>12. ASSUME NEW b \in Binding, Present(b.to) PROVE BindCall(m, b) \in Message
    <2>1. clusters[b.to] \in Host /\ b.from \in Cid /\ b.to \in Cid
      BY <1>12 DEF Present, Binding
    <2>2. BindCall(m, b) \in [op : {"bind_cluster"}, m : Mig, from : Cid, to : Cid, node : Host]
      BY <2>1 DEF BindCall
    <2> QED BY <2>2 DEF Message
  <1>13. ASSUME NEW b \in Binding PROVE UnbindCall(m, b) \in Message
    <2>1. b.from \in Cid /\ b.to \in Cid
      BY DEF Binding
    <2>2. UnbindCall(m, b) \in [op : {"bound", "unbind_cluster", "unbound"}, m : Mig,
                                from : Cid, to : Cid]
      BY <2>1 DEF UnbindCall
    <2> QED BY <2>2 DEF Message
  <1>14. \A i \in DOMAIN here :
             BindCall(m, here[i]) \in Message /\ UnbindCall(m, here[i]) \in Message
    <2> SUFFICES ASSUME NEW i \in DOMAIN here
                 PROVE  BindCall(m, here[i]) \in Message /\ UnbindCall(m, here[i]) \in Message
      OBVIOUS
    <2>1. here[i] \in Binding /\ Present(here[i].to)
      BY <1>9, <1>11
    <2>2. BindCall(m, here[i]) \in Message
      BY <1>12, <2>1
    <2> QED BY <1>13, <2>1, <2>2
  <1>22. bind \in [1..Len(here) -> Message]
    BY <1>8, <1>9, <1>14
  <1>23. unbind \in [1..Len(here) -> Message]
    <2>1. unbind = [i \in 1..Len(here) |-> UnbindCall(m, here[i])]
      BY <1>8, <1>9
    <2>2. \A i \in 1..Len(here) : UnbindCall(m, here[i]) \in Message
      BY <1>9, <1>14
    <2> QED BY <2>1, <2>2, Zenon
  <1>15. bind \in Seq(Message) /\ unbind \in Seq(Message)
    <2>1. Len(here) \in Nat
      BY <1>9
    <2>2. bind \in Seq(Message)
      BY <1>22, <2>1
    <2>3. unbind \in Seq(Message)
      BY <1>23, <2>1
    <2> QED BY <2>2, <2>3
  <1>16. Range(bind) = {BindCall(m, b) : b \in Range(here)}
    BY <1>8 DEF Range
  <1>17. Range(unbind) = {UnbindCall(m, b) : b \in Range(here)}
    BY <1>8 DEF Range
  <1>18. \A b \in Binding : Pair(BindCall(m, b)) = b /\ Pair(UnbindCall(m, b)) = b
    BY DEF Binding, Pair, BindCall, UnbindCall
  <1>19. DOMAIN bind = DOMAIN here /\ DOMAIN unbind = DOMAIN here
    BY <1>8
  <1>20. \A i \in DOMAIN here : Pair(bind[i]) = here[i] /\ Pair(unbind[i]) = here[i]
    BY <1>8, <1>9, <1>18
  <1>21. \A i, j \in DOMAIN here : here[i] = here[j] => i = j
    BY <1>6 DEF IsInjective
  <1> QED BY <1>2, <1>3, <1>7, <1>15, <1>16, <1>17, <1>19, <1>20, <1>21 DEF bind, unbind

-----------------------------------------------------------------------------
(* Messages on their way. *)

Nothing == [h \in Host |-> <<>>]

LEMMA NothingIs ==
    /\ Nothing \in Queues /\ Carried(Nothing) = {} /\ Alone(Nothing)
    /\ \A h \in Host : Nothing[h] = <<>> /\ Range(Nothing[h]) = {}
  <1>1. \A h \in Host : Nothing[h] = <<>> /\ Range(Nothing[h]) = {} /\ DOMAIN Nothing[h] = {}
    BY DEF Nothing, Range
  <1>2. Nothing \in Queues /\ DOMAIN Nothing = Host
    BY EmptySeq DEF Nothing, Queues
  <1> QED BY <1>1, <1>2 DEF Carried, Alone

LEMMA QueuesAre ==
    ASSUME NEW q \in Queues
    PROVE  /\ \A h \in Host : q[h] \in Seq(Message) /\ Range(q[h]) \subseteq Message
           /\ DOMAIN q = Host /\ Carried(q) \subseteq Message
           /\ \A x : x \in Carried(q) <=> \E h \in Host : x \in Range(q[h])
           /\ \A h \in Host : q[h] # <<>> =>
                  Head(q[h]) = q[h][1] /\ 1 \in DOMAIN q[h] /\ Head(q[h]) \in Range(q[h])
  <1>1. DOMAIN q = Host /\ \A h \in Host : q[h] \in Seq(Message)
    BY DEF Queues
  <1>2. \A h \in Host : Range(q[h]) \subseteq Message
    BY <1>1, RangeOfSeq
  <1>3. ASSUME NEW h \in Host, q[h] # <<>>
        PROVE  Head(q[h]) = q[h][1] /\ 1 \in DOMAIN q[h] /\ Head(q[h]) \in Range(q[h])
    <2>1. q[h] \in Seq(Message)
      BY <1>1
    <2>2. Len(q[h]) \in Nat /\ Len(q[h]) # 0 /\ DOMAIN q[h] = 1..Len(q[h])
      BY <1>3, <2>1, EmptySeq, LenProperties
    <2>3. 1 \in DOMAIN q[h] /\ Head(q[h]) = q[h][1]
      BY <2>1, <2>2
    <2> QED BY <2>3 DEF Range
  <1> QED BY <1>1, <1>2, <1>3 DEF Carried

\* A message whose label is the first one's is the first one.
LEMMA TheFirst ==
    ASSUME NEW q \in Queues, Alone(q), NEW h \in Host, q[h] # <<>>
    PROVE  \A x \in Carried(q) : Label(x) = Label(Head(q[h])) => x = Head(q[h])
  <1> SUFFICES ASSUME NEW k \in Host, NEW i \in DOMAIN q[k], Label(q[k][i]) = Label(Head(q[h]))
               PROVE  q[k][i] = Head(q[h])
    BY QueuesAre DEF Range
  <1>1. Head(q[h]) = q[h][1] /\ 1 \in DOMAIN q[h] /\ DOMAIN q = Host
    BY QueuesAre
  <1>2. k = h /\ i = 1
    BY <1>1 DEF Alone
  <1> QED BY <1>1, <1>2

\* Some channels lose their first message, and each gets messages at its end: those
\* whose labels are new, or were those of what was taken.
Moved(Q, R, A, P) ==
    /\ \A k \in P : Q[k] # <<>>
    /\ \A k \in Host : R[k] = (IF k \in P THEN Tail(Q[k]) ELSE Q[k]) \o A[k]
    /\ Alone(Q) /\ Alone(A)
    /\ \A y \in Carried(A) : \/ \E k \in P : Label(y) = Label(Head(Q[k]))
                             \/ \A x \in Carried(Q) : Label(x) # Label(y)
LEMMA Delivered ==
    ASSUME NEW Q \in Queues, NEW R \in Queues, NEW A \in Queues, NEW P \in SUBSET Host,
           Moved(Q, R, A, P)
    PROVE  /\ Alone(R)
           /\ \A k \in Host : \A x : x \in Range(R[k]) <=>
                  (x \in Range(Q[k]) /\ (k \in P => x # Head(Q[k]))) \/ x \in Range(A[k])
           /\ \A x : x \in Carried(R) <=>
                  (x \in Carried(Q) /\ \A k \in P : x # Head(Q[k])) \/ x \in Carried(A)
  <1> USE DEF Moved
  <1> DEFINE off(k) == IF k \in P THEN 1 ELSE 0
             left(k) == Len(Q[k]) - off(k)
  <1>1. ASSUME NEW k \in Host
        PROVE  /\ DOMAIN Q[k] = 1..Len(Q[k]) /\ Len(Q[k]) \in Nat
               /\ DOMAIN A[k] = 1..Len(A[k]) /\ Len(A[k]) \in Nat
               /\ left(k) \in Nat /\ off(k) \in {0, 1} /\ left(k) + off(k) = Len(Q[k])
               /\ DOMAIN R[k] = 1..(left(k) + Len(A[k]))
               /\ \A i \in 1..left(k) : R[k][i] = Q[k][i + off(k)] /\ i + off(k) \in DOMAIN Q[k]
               /\ \A i \in DOMAIN R[k] : ~ (i <= left(k)) =>
                      R[k][i] = A[k][i - left(k)] /\ i - left(k) \in DOMAIN A[k]
    <2> DEFINE q == Q[k]
               a == A[k]
               t == IF k \in P THEN Tail(q) ELSE q
    <2>1. q \in Seq(Message) /\ a \in Seq(Message)
      BY DEF Queues
    <2>2. DOMAIN q = 1..Len(q) /\ Len(q) \in Nat /\ DOMAIN a = 1..Len(a) /\ Len(a) \in Nat
      BY <2>1, LenProperties
    <2>3. /\ t \in Seq(Message) /\ Len(t) = left(k) /\ left(k) \in Nat
          /\ \A i \in 1..left(k) : t[i] = q[i + off(k)] /\ i + off(k) \in 1..Len(q)
      <3>1. CASE k \in P
        <4>1. q # <<>>
          BY <3>1
        <4>2. /\ Tail(q) \in Seq(Message) /\ Len(Tail(q)) = Len(q) - 1
              /\ \A i \in 1..Len(Tail(q)) : Tail(q)[i] = q[i + 1]
          BY <2>1, <4>1, HeadTailProperties
        <4>3. Len(Tail(q)) \in Nat
          BY <4>2, LenProperties
        <4>4. t = Tail(q) /\ off(k) = 1 /\ left(k) = Len(q) - 1
          BY <3>1
        <4> HIDE DEF t, off, left, q
        <4> QED BY <2>2, <4>2, <4>3, <4>4
      <3>2. CASE k \notin P
        <4>1. t = q /\ off(k) = 0 /\ left(k) = Len(q)
          BY <2>2, <3>2
        <4> HIDE DEF t, off, left, q
        <4> QED BY <2>1, <2>2, <4>1
      <3> QED BY <3>1, <3>2
    <2>4. R[k] = t \o a
      OBVIOUS
    <2>5. off(k) \in {0, 1} /\ left(k) + off(k) = Len(q)
      BY <2>2
    <2> HIDE DEF t, q, a, off, left
    <2>10. t \in Seq(Message)
      BY <2>3
    <2>11. /\ t \o a \in Seq(Message) /\ Len(t \o a) = Len(t) + Len(a)
           /\ \A i \in 1..(Len(t) + Len(a)) :
                 (t \o a)[i] = IF i <= Len(t) THEN t[i] ELSE a[i - Len(t)]
      BY <2>1, <2>10, ConcatProperties
    <2>6. /\ R[k] \in Seq(Message) /\ Len(R[k]) = Len(t) + Len(a)
          /\ \A i \in 1..(Len(t) + Len(a)) : R[k][i] = IF i <= Len(t) THEN t[i] ELSE a[i - Len(t)]
      BY <2>4, <2>11
    <2>7. DOMAIN R[k] = 1..(left(k) + Len(a))
      BY <2>3, <2>6, LenProperties
    <2>8. ASSUME NEW i \in 1..left(k)
          PROVE R[k][i] = q[i + off(k)] /\ i + off(k) \in DOMAIN q
      BY <2>2, <2>3, <2>6
    <2>9. ASSUME NEW i \in DOMAIN R[k], ~ (i <= left(k))
          PROVE R[k][i] = a[i - left(k)] /\ i - left(k) \in DOMAIN a
      BY <2>2, <2>3, <2>6, <2>7, <2>9
    <2> QED BY <2>2, <2>3, <2>5, <2>7, <2>8, <2>9 DEF q, a
  <1> HIDE DEF left
  <1>2. \A k \in Host : \A i \in DOMAIN R[k] : i \in 1..left(k) \/ ~ (i <= left(k))
    BY <1>1
  <1>3. ASSUME NEW k \in Host, k \in P
        PROVE  1 \in DOMAIN Q[k] /\ Head(Q[k]) = Q[k][1] /\ off(k) = 1
    <2>1. Q[k] \in Seq(Message) /\ Q[k] # <<>>
      BY <1>3 DEF Queues
    <2>2. Len(Q[k]) # 0
      BY <2>1, EmptySeq
    <2>3. 1 \in DOMAIN Q[k]
      BY <1>1, <2>2
    <2> QED BY <1>3, <2>1, <2>3
  <1>4. DOMAIN Q = Host /\ DOMAIN R = Host /\ DOMAIN A = Host
    BY DEF Queues
  <1> HIDE DEF off
  <1>5. \A k \in Host : \A i \in 1..left(k) : R[k][i] \in Carried(Q)
    BY <1>1, <1>4 DEF Carried, Range
  <1>6. \A k \in Host : \A i \in DOMAIN R[k] : ~ (i <= left(k)) => R[k][i] \in Carried(A)
    BY <1>1, <1>4 DEF Carried, Range
  <1>7. \A k, l \in Host : \A i \in DOMAIN Q[k], j \in DOMAIN Q[l] :
            Label(Q[k][i]) = Label(Q[l][j]) => k = l /\ i = j
    BY <1>4 DEF Alone
  <1>8. \A k, l \in Host : \A i \in DOMAIN A[k], j \in DOMAIN A[l] :
            Label(A[k][i]) = Label(A[l][j]) => k = l /\ i = j
    BY <1>4 DEF Alone
  \* What is left of the old messages has none of the labels taken, nor any of the new.
  <1>9. ASSUME NEW k \in Host, NEW i \in 1..left(k), NEW p \in P
        PROVE  Label(R[k][i]) # Label(Head(Q[p]))
    <2>1. R[k][i] = Q[k][i + off(k)] /\ i + off(k) \in DOMAIN Q[k] /\ i \in Nat /\ i >= 1
      BY <1>1
    <2>2. 1 \in DOMAIN Q[p] /\ Head(Q[p]) = Q[p][1] /\ off(p) = 1 /\ p \in Host
      BY <1>3
    <2>3. Label(R[k][i]) = Label(Head(Q[p])) => k = p /\ i + off(k) = 1
      BY <1>7, <2>1, <2>2
    <2> QED BY <2>1, <2>2, <2>3
  <1>10. ASSUME NEW k \in Host, NEW i \in 1..left(k),
                NEW l \in Host, NEW j \in DOMAIN R[l], ~ (j <= left(l))
         PROVE  Label(R[k][i]) # Label(R[l][j])
    <2>1. R[k][i] \in Carried(Q) /\ R[l][j] \in Carried(A)
      BY <1>5, <1>6, <1>10
    <2>2. CASE \E p \in P : Label(R[l][j]) = Label(Head(Q[p]))
      BY <1>9, <2>2
    <2>3. CASE \A x \in Carried(Q) : Label(x) # Label(R[l][j])
      BY <2>1, <2>3
    <2> QED BY <2>1, <2>2, <2>3
  <1>11. Alone(R)
    <2> SUFFICES ASSUME NEW k \in Host, NEW l \in Host, NEW i \in DOMAIN R[k], NEW j \in DOMAIN R[l],
                        Label(R[k][i]) = Label(R[l][j])
                 PROVE  k = l /\ i = j
      BY <1>4 DEF Alone
    <2>1. CASE i \in 1..left(k) /\ j \in 1..left(l)
      <3>1. k = l /\ i + off(k) = j + off(l)
        BY <1>1, <1>7, <2>1
      <3>2. off(k) = off(l) /\ off(k) \in Nat /\ i \in Nat /\ j \in Nat
        <4>1. off(k) \in {0, 1}
          BY <1>1
        <4>2. i \in Nat /\ j \in Nat
          BY <2>1
        <4> QED BY <3>1, <4>1, <4>2
      <3>3. \A a, b, c \in Nat : a + c = b + c => a = b
        OBVIOUS
      <3>4. i = j
        BY <3>1, <3>2, <3>3
      <3> QED BY <3>1, <3>4
    <2>2. CASE ~ (i <= left(k)) /\ ~ (j <= left(l))
      <3>4. /\ R[k][i] = A[k][i - left(k)] /\ i - left(k) \in DOMAIN A[k]
            /\ R[l][j] = A[l][j - left(l)] /\ j - left(l) \in DOMAIN A[l]
        BY <1>1, <2>2
      <3>1. k = l /\ i - left(k) = j - left(l)
        BY <1>8, <3>4
      <3>2. i \in Nat /\ j \in Nat /\ left(k) \in Nat
        <4>1. DOMAIN R[k] = 1..(left(k) + Len(A[k])) /\ DOMAIN R[l] = 1..(left(l) + Len(A[l]))
          BY <1>1
        <4>2. left(k) \in Nat
          BY <1>1
        <4> QED BY <4>1, <4>2
      <3> QED BY <3>1, <3>2
    <2> QED BY <1>2, <1>10, <2>1, <2>2
  <1>12. ASSUME NEW k \in Host
         PROVE  \A x : x \in Range(R[k]) <=>
                  (x \in Range(Q[k]) /\ (k \in P => x # Head(Q[k]))) \/ x \in Range(A[k])
    <2> DEFINE before == {x \in Range(Q[k]) : k \in P => x # Head(Q[k])}
    <2>1. ASSUME NEW i \in DOMAIN R[k] PROVE R[k][i] \in before \cup Range(A[k])
      <3>1. CASE i \in 1..left(k)
        <4>1. R[k][i] \in Range(Q[k])
          BY <1>1, <3>1 DEF Range
        <4>2. k \in P => R[k][i] # Head(Q[k])
          BY <1>9, <3>1
        <4> QED BY <4>1, <4>2
      <3>2. CASE ~ (i <= left(k))
        BY <1>1, <3>2 DEF Range
      <3> QED BY <1>2, <3>1, <3>2
    <2>2. ASSUME NEW i \in DOMAIN A[k] PROVE A[k][i] \in Range(R[k])
      <3>1. i + left(k) \in DOMAIN R[k] /\ ~ (i + left(k) <= left(k)) /\ (i + left(k)) - left(k) = i
        BY <1>1
      <3>2. R[k][i + left(k)] = A[k][i]
        BY <1>1, <3>1
      <3> QED BY <3>1, <3>2 DEF Range
    <2>3. ASSUME NEW i \in DOMAIN Q[k], ~ (k \in P /\ i = 1) PROVE Q[k][i] \in Range(R[k])
      <3>1. (k \in P => off(k) = 1) /\ (k \notin P => off(k) = 0)
        BY <1>3 DEF off
      <3>2. i - off(k) \in 1..left(k) /\ (i - off(k)) + off(k) = i /\ i - off(k) \in DOMAIN R[k]
        BY <1>1, <2>3, <3>1
      <3>3. R[k][i - off(k)] = Q[k][i]
        BY <1>1, <3>2
      <3> QED BY <3>2, <3>3 DEF Range
    <2>4. \A x \in before : x \in Range(R[k])
      <3> SUFFICES ASSUME NEW x \in before PROVE x \in Range(R[k])
        OBVIOUS
      <3>1. PICK i \in DOMAIN Q[k] : x = Q[k][i]
        BY DEF Range
      <3>2. ~ (k \in P /\ i = 1)
        BY <1>3, <3>1
      <3> QED BY <2>3, <3>1, <3>2
    <2> HIDE DEF before
    <2>5. \A x \in Range(A[k]) : x \in Range(R[k])
      BY <2>2 DEF Range
    <2>6. \A x \in Range(R[k]) : x \in before \cup Range(A[k])
      BY <2>1 DEF Range
    <2>7. Range(R[k]) = before \cup Range(A[k])
      BY <2>4, <2>5, <2>6
    <2> QED BY <2>7 DEF before
  <1>13. \A x : x \in Carried(R) <=>
                  (x \in Carried(Q) /\ \A k \in P : x # Head(Q[k])) \/ x \in Carried(A)
    <2> DEFINE heads == {Head(Q[k]) : k \in P}
    <2>1. \A k \in Host : \A x \in Range(Q[k]) : x \in heads => k \in P /\ x = Head(Q[k])
      <3> SUFFICES ASSUME NEW k \in Host, NEW i \in DOMAIN Q[k], NEW p \in P, Q[k][i] = Head(Q[p])
                   PROVE  k \in P /\ Q[k][i] = Head(Q[k])
        BY DEF Range
      <3>1. 1 \in DOMAIN Q[p] /\ Head(Q[p]) = Q[p][1] /\ p \in Host
        BY <1>3
      <3>2. Label(Q[k][i]) = Label(Q[p][1])
        BY <3>1
      <3>3. k = p
        BY <1>7, <3>1, <3>2
      <3> QED BY <3>3
    <2>2. \A k \in Host : \A x \in Range(R[k]) : x \in (Carried(Q) \ heads) \cup Carried(A)
      <3> SUFFICES ASSUME NEW k \in Host, NEW x \in Range(R[k]), x \notin Range(A[k])
                   PROVE  x \in Carried(Q) \ heads
        BY <1>4 DEF Carried
      <3>1. x \in Range(Q[k]) /\ (k \in P => x # Head(Q[k]))
        BY <1>12
      <3> QED BY <1>4, <2>1, <3>1 DEF Carried
    <2>3. \A k \in Host : \A x \in Range(Q[k]) : x \notin heads => x \in Carried(R)
      <3> SUFFICES ASSUME NEW k \in Host, NEW x \in Range(Q[k]), x \notin heads PROVE x \in Range(R[k])
        BY <1>4 DEF Carried
      <3> QED BY <1>12
    <2>4. \A k \in Host : \A x \in Range(A[k]) : x \in Carried(R)
      BY <1>4, <1>12 DEF Carried
    <2> HIDE DEF heads
    <2>5. \A x \in Carried(R) : x \in (Carried(Q) \ heads) \cup Carried(A)
      BY <1>4, <2>2 DEF Carried
    <2>6. \A x \in Carried(Q) : x \notin heads => x \in Carried(R)
      BY <1>4, <2>3 DEF Carried
    <2>7. \A x \in Carried(A) : x \in Carried(R)
      BY <1>4, <2>4 DEF Carried
    <2>8. Carried(R) = (Carried(Q) \ heads) \cup Carried(A)
      BY <2>5, <2>6, <2>7
    <2> QED BY <2>8 DEF heads
  <1> QED BY <1>11, <1>12, <1>13

\* The two things that happen to channels: one loses its first message, or each gets
\* messages at its end.
Loses(q, h, r) == q[h] # <<>> /\ r = [q EXCEPT ![h] = Tail(@)]
Gets(q, A, r) == r = [g \in Host |-> q[g] \o A[g]]
LEMMA Taken ==
    ASSUME NEW q \in Queues, NEW h \in Host, Alone(q), NEW r, Loses(q, h, r)
    PROVE  /\ r \in Queues /\ Alone(r) /\ Carried(r) = Carried(q) \ {Head(q[h])}
           /\ Range(r[h]) = Range(q[h]) \ {Head(q[h])}
           /\ \A g \in Host : g # h => r[g] = q[g]
  <1> USE DEF Loses
  <1> DEFINE P == {h}
  <1>1. \A g \in Host : q[g] \in Seq(Message)
    BY QueuesAre
  <1>2. Tail(q[h]) \in Seq(Message)
    BY <1>1, HeadTailProperties
  <1>3. r \in Queues /\ r[h] = Tail(q[h]) /\ \A g \in Host : g # h => r[g] = q[g]
    BY <1>1, <1>2 DEF Queues
  <1>4. \A g \in Host : r[g] \o Nothing[g] = r[g]
    <2> SUFFICES ASSUME NEW g \in Host PROVE r[g] \o Nothing[g] = r[g]
      OBVIOUS
    <2>1. r[g] \in Seq(Message) /\ Nothing[g] = <<>>
      BY <1>3, NothingIs, QueuesAre
    <2> QED BY <2>1, ConcatEmptySeq
  <1>5. \A g \in Host : r[g] = (IF g \in P THEN Tail(q[g]) ELSE q[g]) \o Nothing[g]
    BY <1>3, <1>4
  <1>7. /\ P \in SUBSET Host /\ (\A g \in P : q[g] # <<>>) /\ Alone(Nothing)
        /\ \A y \in Carried(Nothing) : \/ \E g \in P : Label(y) = Label(Head(q[g]))
                                       \/ \A x \in Carried(q) : Label(x) # Label(y)
    BY NothingIs
  <1> HIDE DEF P
  <1>8. /\ Alone(r)
        /\ \A g \in Host : \A x : x \in Range(r[g]) <=>
               (x \in Range(q[g]) /\ (g \in P => x # Head(q[g]))) \/ x \in Range(Nothing[g])
        /\ \A x : x \in Carried(r) <=>
               (x \in Carried(q) /\ \A g \in P : x # Head(q[g])) \/ x \in Carried(Nothing)
    <2> HIDE DEF Loses
    <2>1. Moved(q, r, Nothing, P)
      BY <1>5, <1>7 DEF Moved
    <2>2. P \in SUBSET Host /\ r \in Queues /\ Nothing \in Queues
      BY <1>3, <1>7, NothingIs
    <2>3. Alone(r)
      BY <2>1, <2>2, Delivered
    <2>4. \A g \in Host : \A x : x \in Range(r[g]) <=>
               (x \in Range(q[g]) /\ (g \in P => x # Head(q[g]))) \/ x \in Range(Nothing[g])
      BY <2>1, <2>2, Delivered
    <2>5. \A x : x \in Carried(r) <=>
               (x \in Carried(q) /\ \A g \in P : x # Head(q[g])) \/ x \in Carried(Nothing)
      BY <2>1, <2>2, Delivered
    <2> QED BY <2>3, <2>4, <2>5
  <1>9. Carried(r) = Carried(q) \ {Head(q[h])}
    BY <1>8, NothingIs DEF P
  <1>10. Range(r[h]) = Range(q[h]) \ {Head(q[h])}
    BY <1>8, NothingIs DEF P
  <1> QED BY <1>3, <1>8, <1>9, <1>10

LEMMA Put ==
    ASSUME NEW q \in Queues, NEW A \in Queues, Alone(q), Alone(A), NEW r, Gets(q, A, r),
           \A y \in Carried(A) : \A x \in Carried(q) : Label(x) # Label(y)
    PROVE  /\ r \in Queues /\ Alone(r) /\ Carried(r) = Carried(q) \cup Carried(A)
           /\ \A g \in Host : \A y : y \in Range(r[g]) <=> y \in Range(q[g]) \/ y \in Range(A[g])
  <1> USE DEF Gets
  <1> DEFINE P == {}
  <1>1. \A g \in Host : q[g] \in Seq(Message) /\ A[g] \in Seq(Message)
    BY QueuesAre
  <1>2. \A g \in Host : q[g] \o A[g] \in Seq(Message)
    BY <1>1, ConcatProperties
  <1>3. r \in Queues
    BY <1>2 DEF Queues
  <1>4. \A g \in Host : r[g] = (IF g \in P THEN Tail(q[g]) ELSE q[g]) \o A[g]
    OBVIOUS
  <1>6. /\ P \in SUBSET Host /\ (\A g \in P : q[g] # <<>>)
        /\ \A y \in Carried(A) : \/ \E g \in P : Label(y) = Label(Head(q[g]))
                                 \/ \A x \in Carried(q) : Label(x) # Label(y)
    OBVIOUS
  <1>7. \A g : g \notin P
    OBVIOUS
  <1> HIDE DEF P
  <1>8. /\ Alone(r)
        /\ \A g \in Host : \A x : x \in Range(r[g]) <=>
               (x \in Range(q[g]) /\ (g \in P => x # Head(q[g]))) \/ x \in Range(A[g])
        /\ \A x : x \in Carried(r) <=>
               (x \in Carried(q) /\ \A g \in P : x # Head(q[g])) \/ x \in Carried(A)
    <2> HIDE DEF Gets
    <2>1. Moved(q, r, A, P)
      BY <1>4, <1>6 DEF Moved
    <2>2. P \in SUBSET Host
      BY <1>6
    <2>3. Alone(r)
      BY <1>3, <2>2, <2>1, Delivered
    <2>4.  \A g \in Host : \A x : x \in Range(r[g]) <=>
               (x \in Range(q[g]) /\ (g \in P => x # Head(q[g]))) \/ x \in Range(A[g])
      BY <1>3, <2>2, <2>1, Delivered
    <2>5. \A x : x \in Carried(r) <=>
               (x \in Carried(q) /\ \A g \in P : x # Head(q[g])) \/ x \in Carried(A)
      BY <1>3, <2>2, <2>1, Delivered
    <2> QED BY <2>3, <2>4, <2>5
  <1>9. Carried(r) = Carried(q) \cup Carried(A)
    BY <1>7, <1>8
  <1> QED BY <1>3, <1>7, <1>8, <1>9

\* Messages for one host only.
For(h, msgs) == [g \in Host |-> IF g = h THEN msgs ELSE <<>>]
LEMMA ForIs ==
    ASSUME NEW h \in Host, NEW msgs \in Seq(Message),
           \A i, j \in DOMAIN msgs : Label(msgs[i]) = Label(msgs[j]) => i = j
    PROVE  /\ For(h, msgs) \in Queues /\ Alone(For(h, msgs)) /\ Carried(For(h, msgs)) = Range(msgs)
           /\ \A q \in Queues : [q EXCEPT ![h] = @ \o msgs] = [g \in Host |-> q[g] \o For(h, msgs)[g]]
           /\ Range(For(h, msgs)[h]) = Range(msgs) /\ For(h, msgs)[h] = msgs
           /\ \A g \in Host : g # h => For(h, msgs)[g] = <<>> /\ Range(For(h, msgs)[g]) = {}
  <1>1. <<>> \in Seq(Message) /\ Range(<<>>) = {} /\ DOMAIN <<>> = {}
    BY EmptySeq DEF Range
  <1>2. For(h, msgs) \in Queues /\ For(h, msgs)[h] = msgs /\ DOMAIN For(h, msgs) = Host
    BY <1>1 DEF For, Queues
  <1>3. \A g \in Host : g # h => For(h, msgs)[g] = <<>>
    BY DEF For
  <1>4. \A k \in Host : \A i \in DOMAIN For(h, msgs)[k] : k = h
    BY <1>1, <1>3
  <1>5. Alone(For(h, msgs))
    BY <1>2, <1>4 DEF Alone
  <1>6. Carried(For(h, msgs)) = Range(msgs)
    BY <1>1, <1>2, <1>3 DEF Carried
  <1>7. ASSUME NEW q \in Queues
        PROVE  [q EXCEPT ![h] = @ \o msgs] = [g \in Host |-> q[g] \o For(h, msgs)[g]]
    <2>1. \A g \in Host : g # h => q[g] \o For(h, msgs)[g] = q[g]
      <3> SUFFICES ASSUME NEW g \in Host, g # h PROVE q[g] \o For(h, msgs)[g] = q[g]
        OBVIOUS
      <3>1. q[g] \in Seq(Message)
        BY QueuesAre
      <3>2. q[g] \o <<>> = q[g]
        BY <3>1, ConcatEmptySeq
      <3> QED BY <1>3, <3>2
    <2>2. DOMAIN q = Host
      BY QueuesAre
    <2> QED BY <1>2, <2>1, <2>2
  <1> QED BY <1>1, <1>2, <1>3, <1>5, <1>6, <1>7

\* What the root does with an answer: it takes it and calls hosts.
LEMMA RootTakes ==
    ASSUME up \in Queues, down \in Queues, Once, NEW h \in Host, up[h] # <<>>,
           up' = [up EXCEPT ![h] = Tail(@)],
           NEW A \in Queues, Alone(A), down' = [g \in Host |-> down[g] \o A[g]],
           \A y \in Carried(A) :
               Label(y) = Label(Head(up[h])) \/ \A x \in Sent : Label(x) # Label(y)
    PROVE  /\ up' \in Queues /\ down' \in Queues /\ Once'
           /\ Head(up[h]) \in Sent
           /\ Sent' = (Sent \ {Head(up[h])}) \cup Carried(A)
           /\ Range(up'[h]) = Range(up[h]) \ {Head(up[h])}
           /\ \A g \in Host : g # h => up'[g] = up[g]
           /\ \A g \in Host : Range(down'[g]) = Range(down[g]) \cup Range(A[g])
  <1> DEFINE x == Head(up[h])
  <1>1. Alone(up) /\ Alone(down) /\ \A y \in Carried(up), z \in Carried(down) : Label(y) # Label(z)
    BY DEF Once
  <1>2. x \in Carried(up)
    BY QueuesAre
  <1>3. \A y \in Carried(up) : Label(y) = Label(x) => y = x
    BY <1>1, TheFirst
  <1>4. \A y \in Sent : y \in Carried(up) \/ y \in Carried(down)
    BY DEF Sent
  <1>5. \A y \in Carried(up) : y \in Sent
    BY DEF Sent
  <1>6. \A y \in Carried(down) : y \in Sent
    BY DEF Sent
  <1>7. \A y \in Carried(A) : \A z \in Carried(down) : Label(z) # Label(y)
    BY <1>1, <1>2, <1>6
  <1> PICK u : u = up'
    OBVIOUS
  <1> PICK d : d = down'
    OBVIOUS
  <1>8. Loses(up, h, u) /\ Gets(down, A, d)
    BY DEF Loses, Gets
  <1>9. /\ u \in Queues /\ Alone(u) /\ Carried(u) = Carried(up) \ {x}
        /\ Range(u[h]) = Range(up[h]) \ {x}
        /\ \A g \in Host : g # h => u[g] = up[g]
    <2>1. u \in Queues /\ Alone(u)
      BY <1>1, <1>8, Taken
    <2>2. Carried(u) = Carried(up) \ {x} /\ Range(u[h]) = Range(up[h]) \ {x}
      BY <1>1, <1>8, Taken
    <2>3. \A g \in Host : g # h => u[g] = up[g]
      BY <1>1, <1>8, Taken
    <2> QED BY <2>1, <2>2, <2>3
  <1>10. /\ d \in Queues /\ Alone(d) /\ Carried(d) = Carried(down) \cup Carried(A)
         /\ \A g \in Host : Range(d[g]) = Range(down[g]) \cup Range(A[g])
    <2>1. d \in Queues /\ Alone(d)
      BY <1>1, <1>7, <1>8, Put
    <2>4. \A y \in Carried(A) : \A z \in Carried(down) : Label(z) # Label(y)
      BY <1>7
    <2>2. Carried(d) = Carried(down) \cup Carried(A)
      BY <1>1, <1>8, <2>4, Put
    <2>3. ASSUME NEW g \in Host PROVE Range(d[g]) = Range(down[g]) \cup Range(A[g])
      <3>1. \A y : y \in Range(d[g]) <=> y \in Range(down[g]) \/ y \in Range(A[g])
        BY <1>1, <1>8, <2>4, Put
      <3> QED BY <3>1
    <2> QED BY <2>1, <2>2, <2>3
  <1>11. ASSUME NEW y \in Carried(u), NEW z \in Carried(d) PROVE Label(y) # Label(z)
    <2>1. y \in Carried(up) /\ y # x
      BY <1>9
    <2>2. CASE z \in Carried(down)
      BY <1>1, <2>1, <2>2
    <2>3. CASE z \in Carried(A)
      BY <1>3, <1>5, <2>1, <2>3
    <2> QED BY <1>10, <2>2, <2>3
  <1>12. Once'
    <2>1. Alone(u) /\ Alone(d) /\ \A y \in Carried(u), z \in Carried(d) : Label(y) # Label(z)
      BY <1>9, <1>10, <1>11
    <2> QED BY <2>1 DEF Once
  <1>13. Sent' = Carried(u) \cup Carried(d) /\ Sent = Carried(up) \cup Carried(down)
    BY DEF Sent
  <1>14. x \notin Carried(down)
    BY <1>1, <1>2
  <1>15. Sent' = (Sent \ {x}) \cup Carried(A)
    BY <1>9, <1>10, <1>13, <1>14
  <1> QED BY <1>2, <1>5, <1>9, <1>10, <1>12, <1>15

\* What a host does with a call: it takes it and answers.
LEMMA HostTakes ==
    ASSUME up \in Queues, down \in Queues, Once, NEW h \in Host, down[h] # <<>>,
           down' = [down EXCEPT ![h] = Tail(@)],
           NEW A \in Queues, Alone(A), up' = [g \in Host |-> up[g] \o A[g]],
           \A y \in Carried(A) :
               Label(y) = Label(Head(down[h])) \/ \A x \in Sent : Label(x) # Label(y)
    PROVE  /\ up' \in Queues /\ down' \in Queues /\ Once'
           /\ Head(down[h]) \in Sent
           /\ Sent' = (Sent \ {Head(down[h])}) \cup Carried(A)
           /\ Range(down'[h]) = Range(down[h]) \ {Head(down[h])}
           /\ \A g \in Host : g # h => down'[g] = down[g]
           /\ \A g \in Host : Range(up'[g]) = Range(up[g]) \cup Range(A[g])
  <1> DEFINE x == Head(down[h])
  <1>1. Alone(up) /\ Alone(down) /\ \A y \in Carried(up), z \in Carried(down) : Label(y) # Label(z)
    BY DEF Once
  <1>2. x \in Carried(down)
    BY QueuesAre
  <1>3. \A y \in Carried(down) : Label(y) = Label(x) => y = x
    BY <1>1, TheFirst
  <1>4. \A y \in Sent : y \in Carried(up) \/ y \in Carried(down)
    BY DEF Sent
  <1>5. \A y \in Carried(up) : y \in Sent
    BY DEF Sent
  <1>6. \A y \in Carried(down) : y \in Sent
    BY DEF Sent
  <1>7. \A y \in Carried(A) : \A z \in Carried(up) : Label(z) # Label(y)
    BY <1>1, <1>2, <1>5
  <1> PICK u : u = up'
    OBVIOUS
  <1> PICK d : d = down'
    OBVIOUS
  <1>8. Loses(down, h, d) /\ Gets(up, A, u)
    BY DEF Loses, Gets
  <1>9. /\ d \in Queues /\ Alone(d) /\ Carried(d) = Carried(down) \ {x}
        /\ Range(d[h]) = Range(down[h]) \ {x}
        /\ \A g \in Host : g # h => d[g] = down[g]
    <2>1. d \in Queues /\ Alone(d)
      BY <1>1, <1>8, Taken
    <2>2. Carried(d) = Carried(down) \ {x} /\ Range(d[h]) = Range(down[h]) \ {x}
      BY <1>1, <1>8, Taken
    <2>3. \A g \in Host : g # h => d[g] = down[g]
      BY <1>1, <1>8, Taken
    <2> QED BY <2>1, <2>2, <2>3
  <1>10. /\ u \in Queues /\ Alone(u) /\ Carried(u) = Carried(up) \cup Carried(A)
         /\ \A g \in Host : Range(u[g]) = Range(up[g]) \cup Range(A[g])
    <2>1. u \in Queues /\ Alone(u)
      BY <1>1, <1>7, <1>8, Put
    <2>4. \A y \in Carried(A) : \A z \in Carried(up) : Label(z) # Label(y)
      BY <1>7
    <2>2. Carried(u) = Carried(up) \cup Carried(A)
      BY <1>1, <1>8, <2>4, Put
    <2>3. ASSUME NEW g \in Host PROVE Range(u[g]) = Range(up[g]) \cup Range(A[g])
      <3>1. \A y : y \in Range(u[g]) <=> y \in Range(up[g]) \/ y \in Range(A[g])
        BY <1>1, <1>8, <2>4, Put
      <3> QED BY <3>1
    <2> QED BY <2>1, <2>2, <2>3
  <1>11. ASSUME NEW y \in Carried(u), NEW z \in Carried(d) PROVE Label(y) # Label(z)
    <2>1. z \in Carried(down) /\ z # x
      BY <1>9
    <2>2. CASE y \in Carried(up)
      BY <1>1, <2>1, <2>2
    <2>3. CASE y \in Carried(A)
      BY <1>3, <1>6, <2>1, <2>3
    <2> QED BY <1>10, <2>2, <2>3
  <1>12. Once'
    <2>1. Alone(u) /\ Alone(d) /\ \A y \in Carried(u), z \in Carried(d) : Label(y) # Label(z)
      BY <1>9, <1>10, <1>11
    <2> QED BY <2>1 DEF Once
  <1>13. Sent' = Carried(u) \cup Carried(d) /\ Sent = Carried(up) \cup Carried(down)
    BY DEF Sent
  <1>14. x \notin Carried(up)
    BY <1>1, <1>2
  <1>15. Sent' = (Sent \ {x}) \cup Carried(A)
    BY <1>9, <1>10, <1>13, <1>14
  <1> QED BY <1>2, <1>6, <1>9, <1>10, <1>12, <1>15

LEMMA OneMessage ==
    ASSUME NEW y \in Message
    PROVE  <<y>> \in Seq(Message) /\ Range(<<y>>) = {y} /\ \A i, j \in DOMAIN <<y>> : i = j
  <1>1. <<y>> \in Seq(Message) /\ DOMAIN <<y>> = {1} /\ <<y>>[1] = y
    OBVIOUS
  <1> QED BY <1>1 DEF Range

LEMMA OneCall ==
    ASSUME NEW g \in Host, NEW y \in Message
    PROVE  LET A == For(g, <<y>>)
           IN  /\ A \in Queues /\ Alone(A) /\ Carried(A) = {y} /\ Range(A[g]) = {y}
               /\ \A q \in Queues : [q EXCEPT ![g] = Append(@, y)] = [f \in Host |-> q[f] \o A[f]]
  <1> DEFINE Is(t) == t = <<y>>
  <1> PICK s : Is(s)
    OBVIOUS
  <1>6. s \in Seq(Message) /\ Range(s) = {y} /\ \A i, j \in DOMAIN s : i = j
    BY OneMessage
  <1> HIDE DEF Is
  <1>1. /\ s \in Seq(Message) /\ Range(s) = {y}
        /\ \A i, j \in DOMAIN s : Label(s[i]) = Label(s[j]) => i = j
    BY <1>6
  <1>2. For(g, s) \in Queues /\ Alone(For(g, s)) /\ Carried(For(g, s)) = Range(s)
    BY <1>1, ForIs
  <1>3. Range(For(g, s)[g]) = Range(s)
    BY <1>1, ForIs
  <1>4. \A q \in Queues : [q EXCEPT ![g] = @ \o s] = [f \in Host |-> q[f] \o For(g, s)[f]]
    BY <1>1, ForIs
  <1>5. ASSUME NEW q \in Queues
        PROVE  [q EXCEPT ![g] = Append(@, y)] = [f \in Host |-> q[f] \o For(g, s)[f]]
    <2>1. q[g] \in Seq(Message)
      BY QueuesAre
    <2>2. Append(q[g], y) = q[g] \o s
      BY <2>1, AppendIsConcat DEF Is
    <2>3. [q EXCEPT ![g] = Append(@, y)] = [q EXCEPT ![g] = @ \o s]
      BY <2>2
    <2> QED BY <1>4, <2>3
  <1>7. s = <<y>>
    BY DEF Is
  <1> QED BY <1>1, <1>2, <1>3, <1>5, <1>7

LEMMA RootCalls ==
    ASSUME up \in Queues, down \in Queues, Once, NEW h \in Host, up[h] # <<>>,
           up' = [up EXCEPT ![h] = Tail(@)],
           NEW g \in Host, NEW y \in Message, down' = [down EXCEPT ![g] = Append(@, y)],
           Label(y) = Label(Head(up[h])) \/ \A x \in Sent : Label(x) # Label(y)
    PROVE  /\ up' \in Queues /\ down' \in Queues /\ Once'
           /\ Head(up[h]) \in Sent
           /\ Sent' = (Sent \ {Head(up[h])}) \cup {y}
           /\ Range(up'[h]) = Range(up[h]) \ {Head(up[h])}
           /\ \A f \in Host : f # h => up'[f] = up[f]
           /\ Range(down'[g]) = Range(down[g]) \cup {y}
           /\ \A f \in Host : f # g => down'[f] = down[f]
  <1> DEFINE A == For(g, <<y>>)
  <1>2. /\ A \in Queues /\ Alone(A) /\ Carried(A) = {y} /\ Range(A[g]) = {y}
        /\ \A q \in Queues : [q EXCEPT ![g] = Append(@, y)] = [f \in Host |-> q[f] \o A[f]]
    BY OneCall
  <1>6. down' = [f \in Host |-> down[f] \o A[f]]
    BY <1>2
  <1>7. \A f \in Host : f # g => down'[f] = down[f]
    BY DEF Queues
  <1> HIDE DEF A
  <1>8. \A z \in Carried(A) : Label(z) = Label(Head(up[h])) \/ \A x \in Sent : Label(x) # Label(z)
    BY <1>2
  <1>9. /\ up' \in Queues /\ down' \in Queues /\ Once'
        /\ Head(up[h]) \in Sent
        /\ Sent' = (Sent \ {Head(up[h])}) \cup Carried(A)
        /\ Range(up'[h]) = Range(up[h]) \ {Head(up[h])}
        /\ \A f \in Host : f # h => up'[f] = up[f]
        /\ \A f \in Host : Range(down'[f]) = Range(down[f]) \cup Range(A[f])
    BY <1>2, <1>6, <1>8, RootTakes
  <1> QED BY <1>2, <1>7, <1>9

LEMMA Unsaid ==
    ASSUME NEW q \in Queues
    PROVE  q = [g \in Host |-> q[g] \o Nothing[g]]
  <1>1. \A g \in Host : q[g] \o Nothing[g] = q[g]
    <2> SUFFICES ASSUME NEW g \in Host PROVE q[g] \o Nothing[g] = q[g]
      OBVIOUS
    <2>1. q[g] \in Seq(Message) /\ Nothing[g] = <<>>
      BY QueuesAre, NothingIs
    <2> QED BY <2>1, ConcatEmptySeq
  <1> QED BY <1>1, QueuesAre DEF Queues

LEMMA RootHears ==
    ASSUME up \in Queues, down \in Queues, Once, NEW h \in Host, up[h] # <<>>,
           up' = [up EXCEPT ![h] = Tail(@)], UNCHANGED down
    PROVE  /\ up' \in Queues /\ down' \in Queues /\ Once'
           /\ Head(up[h]) \in Sent
           /\ Sent' = Sent \ {Head(up[h])}
           /\ Range(up'[h]) = Range(up[h]) \ {Head(up[h])}
           /\ \A f \in Host : f # h => up'[f] = up[f]
  <1>1. Nothing \in Queues /\ Alone(Nothing) /\ Carried(Nothing) = {}
    BY NothingIs
  <1>2. down' = [g \in Host |-> down[g] \o Nothing[g]]
    BY Unsaid
  <1>3. /\ up' \in Queues /\ down' \in Queues /\ Once'
        /\ Head(up[h]) \in Sent
        /\ Sent' = (Sent \ {Head(up[h])}) \cup Carried(Nothing)
        /\ Range(up'[h]) = Range(up[h]) \ {Head(up[h])}
        /\ \A f \in Host : f # h => up'[f] = up[f]
    BY <1>1, <1>2, RootTakes
  <1> QED BY <1>1, <1>3

LEMMA HostAnswers ==
    ASSUME up \in Queues, down \in Queues, Once, NEW h \in Host, down[h] # <<>>,
           down' = [down EXCEPT ![h] = Tail(@)],
           NEW msgs \in Seq(Message), up' = [up EXCEPT ![h] = @ \o msgs],
           \A i, j \in DOMAIN msgs : Label(msgs[i]) = Label(msgs[j]) => i = j,
           \A y \in Range(msgs) :
               Label(y) = Label(Head(down[h])) \/ \A x \in Sent : Label(x) # Label(y)
    PROVE  /\ up' \in Queues /\ down' \in Queues /\ Once'
           /\ Head(down[h]) \in Sent
           /\ Sent' = (Sent \ {Head(down[h])}) \cup Range(msgs)
           /\ Range(down'[h]) = Range(down[h]) \ {Head(down[h])}
           /\ \A f \in Host : f # h => down'[f] = down[f]
           /\ Range(up'[h]) = Range(up[h]) \cup Range(msgs)
           /\ \A f \in Host : f # h => up'[f] = up[f]
  <1> DEFINE A == For(h, msgs)
  <1>1. /\ A \in Queues /\ Alone(A) /\ Carried(A) = Range(msgs) /\ Range(A[h]) = Range(msgs)
        /\ \A q \in Queues : [q EXCEPT ![h] = @ \o msgs] = [f \in Host |-> q[f] \o A[f]]
    BY ForIs
  <1>2. up' = [f \in Host |-> up[f] \o A[f]]
    BY <1>1
  <1>3. \A f \in Host : f # h => up'[f] = up[f]
    BY DEF Queues
  <1> HIDE DEF A
  <1>4. \A z \in Carried(A) : Label(z) = Label(Head(down[h])) \/ \A x \in Sent : Label(x) # Label(z)
    BY <1>1
  <1>5. /\ up' \in Queues /\ down' \in Queues /\ Once'
        /\ Head(down[h]) \in Sent
        /\ Sent' = (Sent \ {Head(down[h])}) \cup Carried(A)
        /\ Range(down'[h]) = Range(down[h]) \ {Head(down[h])}
        /\ \A f \in Host : f # h => down'[f] = down[f]
        /\ \A f \in Host : Range(up'[f]) = Range(up[f]) \cup Range(A[f])
    BY <1>1, <1>2, <1>4, HostTakes
  <1> QED BY <1>1, <1>3, <1>5

LEMMA HostHears ==
    ASSUME up \in Queues, down \in Queues, Once, NEW h \in Host, down[h] # <<>>,
           down' = [down EXCEPT ![h] = Tail(@)], UNCHANGED up
    PROVE  /\ up' \in Queues /\ down' \in Queues /\ Once'
           /\ Head(down[h]) \in Sent
           /\ Sent' = Sent \ {Head(down[h])}
           /\ Range(down'[h]) = Range(down[h]) \ {Head(down[h])}
           /\ \A f \in Host : f # h => down'[f] = down[f]
  <1>1. Nothing \in Queues /\ Alone(Nothing) /\ Carried(Nothing) = {}
    BY NothingIs
  <1>2. up' = [g \in Host |-> up[g] \o Nothing[g]]
    BY Unsaid
  <1>3. /\ up' \in Queues /\ down' \in Queues /\ Once'
        /\ Head(down[h]) \in Sent
        /\ Sent' = (Sent \ {Head(down[h])}) \cup Carried(Nothing)
        /\ Range(down'[h]) = Range(down[h]) \ {Head(down[h])}
        /\ \A f \in Host : f # h => down'[f] = down[f]
    BY <1>1, <1>2, HostTakes
  <1> QED BY <1>1, <1>3

LEMMA RootSays ==
    ASSUME up \in Queues, down \in Queues, Once, UNCHANGED up,
           NEW A \in Queues, Alone(A), down' = [g \in Host |-> down[g] \o A[g]],
           \A y \in Carried(A) : \A x \in Sent : Label(x) # Label(y)
    PROVE  /\ up' \in Queues /\ down' \in Queues /\ Once'
           /\ Sent' = Sent \cup Carried(A)
           /\ \A g \in Host : Range(down'[g]) = Range(down[g]) \cup Range(A[g])
  <1>1. /\ Alone(up) /\ Alone(down)
        /\ \A x \in Carried(up), z \in Carried(down) : Label(x) # Label(z)
    BY DEF Once
  <1>2. \A x : x \in Carried(up) \/ x \in Carried(down) => x \in Sent
    BY DEF Sent
  <1>3. \A z \in Carried(A) : \A x \in Carried(down) : Label(x) # Label(z)
    BY <1>2
  <1> PICK d : d = down'
    OBVIOUS
  <1>4. Gets(down, A, d)
    BY DEF Gets
  <1>5. d \in Queues /\ Alone(d)
    BY <1>1, <1>3, <1>4, Put
  <1>6. Carried(d) = Carried(down) \cup Carried(A)
    BY <1>1, <1>3, <1>4, Put
  <1>7. ASSUME NEW g \in Host PROVE Range(d[g]) = Range(down[g]) \cup Range(A[g])
    <2>1. \A y : y \in Range(d[g]) <=> y \in Range(down[g]) \/ y \in Range(A[g])
      BY <1>1, <1>3, <1>4, Put
    <2> QED BY <2>1
  <1>8. \A x \in Carried(up), z \in Carried(d) : Label(x) # Label(z)
    BY <1>1, <1>2, <1>6
  <1>9. Once'
    BY <1>1, <1>5, <1>8 DEF Once
  <1>10. Sent' = Sent \cup Carried(A)
    BY <1>6 DEF Sent
  <1> QED BY <1>5, <1>7, <1>9, <1>10

LEMMA RootAsks ==
    ASSUME up \in Queues, down \in Queues, Once, UNCHANGED up,
           NEW g \in Host, NEW y \in Message, down' = [down EXCEPT ![g] = Append(@, y)],
           \A x \in Sent : Label(x) # Label(y)
    PROVE  /\ up' \in Queues /\ down' \in Queues /\ Once'
           /\ Sent' = Sent \cup {y}
           /\ Range(down'[g]) = Range(down[g]) \cup {y}
           /\ \A f \in Host : f # g => down'[f] = down[f]
  <1> DEFINE A == For(g, <<y>>)
  <1>1. /\ A \in Queues /\ Alone(A) /\ Carried(A) = {y} /\ Range(A[g]) = {y}
        /\ \A q \in Queues : [q EXCEPT ![g] = Append(@, y)] = [f \in Host |-> q[f] \o A[f]]
    BY OneCall
  <1>2. down' = [f \in Host |-> down[f] \o A[f]]
    BY <1>1
  <1>3. \A f \in Host : f # g => down'[f] = down[f]
    BY DEF Queues
  <1> HIDE DEF A
  <1>4. \A z \in Carried(A) : \A x \in Sent : Label(x) # Label(z)
    BY <1>1
  <1>5. /\ up' \in Queues /\ down' \in Queues /\ Once'
        /\ Sent' = Sent \cup Carried(A)
        /\ \A f \in Host : Range(down'[f]) = Range(down[f]) \cup Range(A[f])
    BY <1>1, <1>2, <1>4, RootSays
  <1> QED BY <1>1, <1>3, <1>5

-----------------------------------------------------------------------------
(* Messages. *)

PlainOps == {"get_clusters", "clusters", "run_cluster", "ran", "remove_cluster", "removed"}

LEMMA MessageIs ==
    ASSUME NEW x \in Message
    PROVE  /\ x.op \in PlainOps \cup PairOps /\ x.m \in Mig
           /\ x.op \in PairOps => x.from \in Cid /\ x.to \in Cid
           /\ x.op \in {"run_cluster", "remove_cluster"} => x.cid \in Cid
           /\ x.op \in {"bind_cluster", "notify_binding", "get_workers"} => x.node \in Host
           /\ x.op \in HostToHost => x.dst \in Host
           /\ x.op \in {"clusters", "run_cluster"} => x.workers \in BOOLEAN
           /\ x.op = "workers" => x.found \in BOOLEAN
  BY DEF Message, PlainOps, PairOps, BindOps, UnbindOps, HostToHost

LEMMA MessagesAre ==
    ASSUME NEW m \in Mig
    PROVE  /\ \A o \in {"get_clusters", "ran", "removed"} : [op |-> o, m |-> m] \in Message
           /\ \A w \in BOOLEAN : [op |-> "clusters", m |-> m, workers |-> w] \in Message
           /\ \A c \in Cid, w \in BOOLEAN :
                  [op |-> "run_cluster", m |-> m, cid |-> c, workers |-> w] \in Message
           /\ \A c \in Cid : [op |-> "remove_cluster", m |-> m, cid |-> c] \in Message
           /\ \A o \in {"notify_binding", "get_workers"}, c, e \in Cid, h, g \in Host :
                  [op |-> o, m |-> m, from |-> c, to |-> e, node |-> h, dst |-> g] \in Message
           /\ \A c, e \in Cid, w \in BOOLEAN, g \in Host :
                  [op |-> "workers", m |-> m, from |-> c, to |-> e, found |-> w, dst |-> g] \in Message
           /\ \A o \in {"bound", "unbind_cluster", "unbound"}, c, e \in Cid :
                  [op |-> o, m |-> m, from |-> c, to |-> e] \in Message
           /\ \A c, e \in Cid, g \in Host :
                  [op |-> "unbind_cluster_process", m |-> m, from |-> c, to |-> e, dst |-> g] \in Message
  BY DEF Message

LEMMA KindIs ==
    /\ \A o \in {"get_clusters", "clusters"} : Kind(o) = "collect"
    /\ \A o \in {"run_cluster", "ran"} : Kind(o) = "run"
    /\ \A o \in BindOps : Kind(o) = "bind"
    /\ \A o \in UnbindOps : Kind(o) = "unbind"
    /\ \A o \in {"remove_cluster", "removed"} : Kind(o) = "remove"
    /\ \A o \in {"notify_binding", "unbind_cluster_process"} : Kind(o) = o
  BY DEF Kind, BindOps, UnbindOps

\* The kinds, and the operations of each.
LEMMA OpsAre ==
    ASSUME NEW o \in PlainOps \cup PairOps
    PROVE  /\ Kind(o) = "collect" => o \in {"get_clusters", "clusters"}
           /\ Kind(o) = "run" => o \in {"run_cluster", "ran"}
           /\ Kind(o) = "bind" => o \in BindOps
           /\ Kind(o) = "unbind" => o \in UnbindOps
           /\ Kind(o) = "remove" => o \in {"remove_cluster", "removed"}
           /\ o \in PairOps <=>
                  Kind(o) \in {"bind", "unbind", "notify_binding", "unbind_cluster_process"}
           /\ Kind(o) = "notify_binding" => o = "notify_binding"
           /\ Kind(o) = "unbind_cluster_process" => o = "unbind_cluster_process"
           /\ Kind(o) \in {"collect", "run", "bind", "unbind", "remove", "notify_binding",
                           "unbind_cluster_process"}
  BY DEF Kind, BindOps, UnbindOps, PlainOps, PairOps

LEMMA PairIs ==
    ASSUME NEW x \in Message, NEW y \in Message, x.op \in PairOps, y.op \in PairOps
    PROVE  /\ Pair(x) \in Binding /\ Pair(x).from = x.from /\ Pair(x).to = x.to
           /\ Pair(x) = Pair(y) <=> x.from = y.from /\ x.to = y.to
  <1>1. x.from \in Cid /\ x.to \in Cid
    BY MessageIs
  <1> QED BY <1>1 DEF Pair, Binding

LEMMA LabelIs ==
    ASSUME NEW x \in Message, NEW y \in Message
    PROVE  Label(x) = Label(y) <=>
               /\ Kind(x.op) = Kind(y.op) /\ x.m = y.m
               /\ x.op \in PairOps => x.from = y.from /\ x.to = y.to
  <1>1. x.op \in PairOps <=> Kind(x.op) \in {"bind", "unbind", "notify_binding", "unbind_cluster_process"}
    BY MessageIs, OpsAre
  <1>2. y.op \in PairOps <=> Kind(y.op) \in {"bind", "unbind", "notify_binding", "unbind_cluster_process"}
    BY MessageIs, OpsAre
  <1>3. CASE x.op \in PairOps /\ y.op \in PairOps
    BY <1>3 DEF Label
  <1>4. CASE x.op \notin PairOps /\ y.op \notin PairOps
    BY <1>4 DEF Label
  <1>5. CASE ~ (x.op \in PairOps <=> y.op \in PairOps)
    <2>1. Kind(x.op) # Kind(y.op)
      BY <1>1, <1>2, <1>5
    <2>2. Label(x)[1] = Kind(x.op) /\ Label(y)[1] = Kind(y.op)
      BY DEF Label
    <2> QED BY <2>1, <2>2
  <1> QED BY <1>3, <1>4, <1>5

-----------------------------------------------------------------------------
(* The root. *)

LEMMA OneBusy ==
    ASSUME RootTypes, InTurn, NEW m \in Mig, Busy(m)
    PROVE  \A n \in Mig : n # m =>
               /\ ~ Busy(n) /\ ~ Begun(n) /\ mig[n].phase \in {"idle", "done"}
               /\ n < m => mig[n].phase = "done"
               /\ m < n => mig[n].phase = "idle"
  <1> SUFFICES ASSUME NEW n \in Mig, n # m
               PROVE  /\ mig[n].phase \in {"idle", "done"}
                      /\ n < m => mig[n].phase = "done"
                      /\ m < n => mig[n].phase = "idle"
    BY DEF Busy, Begun
  <1>1. n \in Nat /\ m \in Nat
    BY IdsAreNumbers
  <1>2. n < m \/ m < n
    BY <1>1
  <1>3. n < m => mig[n].phase = "done"
    BY DEF InTurn, Busy
  <1>4. m < n => mig[n].phase = "idle"
    BY DEF InTurn, Busy
  <1>5. ~ (n < m /\ m < n)
    BY <1>1
  <1> QED BY <1>2, <1>3, <1>4, <1>5

LEMMA PairsAre ==
    ASSUME RootTypes, NEW m \in Mig
    PROVE  /\ IsFiniteSet(OldPairs(m)) /\ Cardinality(OldPairs(m)) <= Length(m)
           /\ IsFiniteSet(NewPairs(m)) /\ Cardinality(NewPairs(m)) <= Length(m)
           /\ OldPairs(m) \subseteq Binding /\ NewPairs(m) \subseteq Binding
           /\ Length(m) \in Nat
           /\ Length(m) = 0 => OldPairs(m) = {} /\ NewPairs(m) = {}
  <1> DEFINE ins == mig[m].ins
             outs == mig[m].outs
             newouts == {[from |-> mig[m].new, to |-> b.to] : b \in Range(outs)}
             newins == {[from |-> b.from, to |-> mig[m].new] : b \in Range(ins)}
  <1>1. ins \in Seq(Binding) /\ outs \in Seq(Binding) /\ mig[m].new \in Cid
    BY DEF RootTypes, Migrating
  <1>2. /\ Range(ins) \subseteq Binding /\ Range(outs) \subseteq Binding
        /\ Len(ins) \in Nat /\ Len(outs) \in Nat
    BY <1>1, RangeOfSeq, LenProperties
  <1>3. ASSUME NEW q \in Seq(Binding)
        PROVE  /\ IsFiniteSet(Range(q)) /\ Cardinality(Range(q)) <= Len(q)
               /\ Cardinality(Range(q)) \in Nat
    <2>1. DOMAIN q = 1..Len(q) /\ Len(q) \in Nat
      BY LenProperties
    <2>2. 1 \in Int /\ Len(q) \in Int
      BY <2>1
    <2>3. IsFiniteSet(1..Len(q)) /\ Cardinality(1..Len(q)) = Len(q)
      BY <2>1, <2>2, FS_Interval
    <2>4. q \in Surjection(DOMAIN q, Range(q))
      BY <2>1, LenProperties DEF Surjection, Range
    <2> PICK S : S = Range(q)
      OBVIOUS
    <2>5. q \in Surjection(1..Len(q), S)
      BY <2>1, <2>4
    <2>6. IsFiniteSet(S) /\ Cardinality(S) <= Cardinality(1..Len(q))
      BY <2>3, <2>5, FS_Surjection
    <2> QED BY <2>3, <2>6, FS_CardinalityType
  <1>4. ASSUME NEW S \in SUBSET Binding, IsFiniteSet(S), NEW c \in Cid
        PROVE  /\ IsFiniteSet({[from |-> c, to |-> b.to] : b \in S})
               /\ Cardinality({[from |-> c, to |-> b.to] : b \in S}) <= Cardinality(S)
               /\ IsFiniteSet({[from |-> b.from, to |-> c] : b \in S})
               /\ Cardinality({[from |-> b.from, to |-> c] : b \in S}) <= Cardinality(S)
    <2> DEFINE f == [b \in S |-> [from |-> c, to |-> b.to]]
               F == {[from |-> c, to |-> b.to] : b \in S}
               g == [b \in S |-> [from |-> b.from, to |-> c]]
               G == {[from |-> b.from, to |-> c] : b \in S}
    <2>1. f \in Surjection(S, F) /\ g \in Surjection(S, G)
      BY DEF Surjection
    <2> HIDE DEF f, F, g, G
    <2>2. IsFiniteSet(F) /\ Cardinality(F) <= Cardinality(S)
      BY <1>4, <2>1, FS_Surjection
    <2>3. IsFiniteSet(G) /\ Cardinality(G) <= Cardinality(S)
      BY <1>4, <2>1, FS_Surjection
    <2> QED BY <2>2, <2>3 DEF F, G
  <1>5. ASSUME NEW S, NEW T, IsFiniteSet(S), IsFiniteSet(T), NEW a \in Nat, NEW b \in Nat,
               Cardinality(S) <= a, Cardinality(T) <= b
        PROVE  IsFiniteSet(S \cup T) /\ Cardinality(S \cup T) <= a + b
    <2>1. /\ IsFiniteSet(S \cup T) /\ IsFiniteSet(S \cap T)
          /\ Cardinality(S \cup T) = Cardinality(S) + Cardinality(T) - Cardinality(S \cap T)
      BY <1>5, FS_Union, FS_Intersection
    <2>2. Cardinality(S) \in Nat /\ Cardinality(T) \in Nat /\ Cardinality(S \cap T) \in Nat
      BY <1>5, <2>1, FS_CardinalityType
    <2> QED BY <1>5, <2>1, <2>2
  <1>6. /\ IsFiniteSet(newouts) /\ Cardinality(newouts) <= Len(outs)
        /\ IsFiniteSet(newins) /\ Cardinality(newins) <= Len(ins)
    <2> PICK S : S = Range(outs)
      OBVIOUS
    <2> PICK T : T = Range(ins)
      OBVIOUS
    <2>1. /\ S \in SUBSET Binding /\ IsFiniteSet(S) /\ Cardinality(S) \in Nat /\ Cardinality(S) <= Len(outs)
          /\ T \in SUBSET Binding /\ IsFiniteSet(T) /\ Cardinality(T) \in Nat /\ Cardinality(T) <= Len(ins)
      BY <1>1, <1>2, <1>3
    <2>2. IsFiniteSet(newouts) /\ Cardinality(newouts) <= Cardinality(S)
      BY <1>1, <1>4, <2>1
    <2>3. IsFiniteSet(newins) /\ Cardinality(newins) <= Cardinality(T)
      BY <1>1, <1>4, <2>1
    <2>4. Cardinality(newouts) \in Nat /\ Cardinality(newins) \in Nat
      BY <2>2, <2>3, FS_CardinalityType
    <2> HIDE DEF newouts, newins
    <2> QED BY <1>2, <2>1, <2>2, <2>3, <2>4
  <1>7. NewPairs(m) = newouts \cup newins /\ OldPairs(m) = Range(ins) \cup Range(outs)
    BY DEF NewPairs, OldPairs
  <1>8. newouts \subseteq Binding /\ newins \subseteq Binding
    BY <1>1, <1>2 DEF Binding
  <1>9. Length(m) = Len(ins) + Len(outs)
    BY DEF Length
  <1>12. Len(ins) = 0 => Range(ins) = {}
    BY <1>1, LenProperties DEF Range
  <1>13. Len(outs) = 0 => Range(outs) = {}
    BY <1>1, LenProperties DEF Range
  <1>14. Range(ins) = {} /\ Range(outs) = {} => newouts = {} /\ newins = {}
    OBVIOUS
  <1>15. /\ IsFiniteSet(Range(ins)) /\ Cardinality(Range(ins)) <= Len(ins)
         /\ IsFiniteSet(Range(outs)) /\ Cardinality(Range(outs)) <= Len(outs)
    BY <1>1, <1>3
  <1> HIDE DEF newouts, newins, ins, outs
  <1>10. IsFiniteSet(OldPairs(m)) /\ Cardinality(OldPairs(m)) <= Length(m)
    <2> PICK S : S = Range(ins)
      OBVIOUS
    <2> PICK T : T = Range(outs)
      OBVIOUS
    <2>1. IsFiniteSet(S \cup T) /\ Cardinality(S \cup T) <= Len(ins) + Len(outs)
      BY <1>2, <1>5, <1>15
    <2> QED BY <1>7, <1>9, <2>1
  <1>11. IsFiniteSet(NewPairs(m)) /\ Cardinality(NewPairs(m)) <= Length(m)
    <2>1. IsFiniteSet(newins \cup newouts) /\ Cardinality(newins \cup newouts) <= Len(ins) + Len(outs)
      BY <1>2, <1>5, <1>6
    <2>2. NewPairs(m) = newins \cup newouts
      BY <1>7
    <2> QED BY <1>9, <2>1, <2>2
  <1>16. Length(m) \in Nat
    BY <1>2, <1>9
  <1>17. OldPairs(m) \subseteq Binding /\ NewPairs(m) \subseteq Binding
    BY <1>2, <1>7, <1>8
  <1>18. Length(m) = 0 => Len(ins) = 0 /\ Len(outs) = 0
    BY <1>2, <1>9
  <1> QED BY <1>7, <1>10, <1>11, <1>12, <1>13, <1>14, <1>16, <1>17, <1>18

LEMMA JoinedIs ==
    ASSUME NEW s \in Seq(Binding), NEW t \in Seq(Binding), IsInjective(s), IsInjective(t),
           Range(s) \cap Range(t) = {}
    PROVE  /\ s \o t \in Seq(Binding) /\ IsInjective(s \o t)
           /\ Range(s \o t) = Range(s) \cup Range(t)
  <1> DEFINE n == Len(s)
             k == Len(t)
  <1>1. DOMAIN s = 1..n /\ n \in Nat /\ DOMAIN t = 1..k /\ k \in Nat
    BY LenProperties
  <1> PICK u : u = s \o t
    OBVIOUS
  <1>2. /\ u \in Seq(Binding) /\ Len(u) = n + k
        /\ \A i \in 1..(n + k) : u[i] = IF i <= n THEN s[i] ELSE t[i - n]
    BY ConcatProperties
  <1>3. DOMAIN u = 1..(n + k)
    BY <1>2, LenProperties
  <1>4. Range(s \o t) = Range(s) \cup Range(t)
    BY RangeConcatenation
  <1> HIDE DEF n, k
  <1>5. ASSUME NEW i \in DOMAIN u
        PROVE  \/ i \in 1..n /\ u[i] = s[i] /\ u[i] \in Range(s)
               \/ ~ (i <= n) /\ i - n \in 1..k /\ u[i] = t[i - n] /\ u[i] \in Range(t)
    <2>1. CASE i <= n
      <3>1. i \in 1..n /\ u[i] = s[i]
        BY <1>1, <1>2, <1>3, <2>1
      <3> QED BY <1>1, <3>1 DEF Range
    <2>2. CASE ~ (i <= n)
      <3>1. i - n \in 1..k /\ u[i] = t[i - n]
        BY <1>1, <1>2, <1>3, <2>2
      <3> QED BY <1>1, <2>2, <3>1 DEF Range
    <2> QED BY <2>1, <2>2
  <1>6. ASSUME NEW i \in DOMAIN u, NEW j \in DOMAIN u, u[i] = u[j] PROVE i = j
    <2>1. CASE i \in 1..n /\ u[i] = s[i] /\ u[i] \in Range(s)
      <3>1. j \in 1..n /\ u[j] = s[j]
        BY <1>5, <1>6, <2>1
      <3> QED BY <1>1, <1>6, <2>1, <3>1 DEF IsInjective
    <2>2. CASE ~ (i <= n) /\ i - n \in 1..k /\ u[i] = t[i - n] /\ u[i] \in Range(t)
      <3>1. ~ (j <= n) /\ j - n \in 1..k /\ u[j] = t[j - n]
        BY <1>5, <1>6, <2>2
      <3>2. i - n = j - n
        BY <1>1, <1>6, <2>2, <3>1 DEF IsInjective
      <3>3. i \in Nat /\ j \in Nat /\ n \in Nat
        BY <1>1, <1>3
      <3> QED BY <3>2, <3>3
    <2> QED BY <1>5, <2>1, <2>2
  <1>7. IsInjective(u)
    BY <1>6 DEF IsInjective
  <1> QED BY <1>2, <1>4, <1>7

\* The two halves of a migration's bindings do not overlap, and the new ones are new.
LEMMA OldPairsAre ==
    ASSUME RootTypes, Linked, NEW m \in Mig, Recorded(m), mig[m].phase \in {"run", "bind"}
    PROVE  /\ mig[m].ins \o mig[m].outs \in Seq(Binding)
           /\ IsInjective(mig[m].ins \o mig[m].outs)
           /\ Range(mig[m].ins \o mig[m].outs) = OldPairs(m)
           /\ OldPairs(m) = {b \in Bindings : mig[m].old \in {b.from, b.to}}
           /\ \A b \in Range(mig[m].ins) : b.to = mig[m].old /\ b.from # mig[m].old
           /\ \A b \in Range(mig[m].outs) : b.from = mig[m].old /\ b.to # mig[m].old
  <1>1. mig[m].ins \in Seq(Binding) /\ mig[m].outs \in Seq(Binding)
    BY DEF RootTypes, Migrating
  <1>2. /\ IsInjective(mig[m].ins) /\ IsInjective(mig[m].outs)
        /\ Range(mig[m].ins) = {b \in Bindings : b.to = mig[m].old}
        /\ Range(mig[m].outs) = {b \in Bindings : b.from = mig[m].old}
    BY DEF Recorded
  <1>3. \A b \in Bindings : b.from # b.to
    BY DEF Linked
  <1>4. Range(mig[m].ins) \cap Range(mig[m].outs) = {}
    BY <1>2, <1>3
  <1>5. /\ mig[m].ins \o mig[m].outs \in Seq(Binding)
        /\ IsInjective(mig[m].ins \o mig[m].outs)
        /\ Range(mig[m].ins \o mig[m].outs) = Range(mig[m].ins) \cup Range(mig[m].outs)
    BY <1>1, <1>2, <1>4, JoinedIs
  <1> QED BY <1>2, <1>3, <1>5 DEF OldPairs

Fresh(m) == [i \in DOMAIN mig[m].outs |-> [from |-> mig[m].new, to |-> mig[m].outs[i].to]]
            \o [i \in DOMAIN mig[m].ins |-> [from |-> mig[m].ins[i].from, to |-> mig[m].new]]
LEMMA NewPairsAre ==
    ASSUME RootTypes, Linked, NEW m \in Mig, Recorded(m), Ends(m), mig[m].phase = "run"
    PROVE  /\ Fresh(m) \in Seq(Binding) /\ IsInjective(Fresh(m)) /\ Range(Fresh(m)) = NewPairs(m)
           /\ \A b \in NewPairs(m) : /\ b \notin Bindings /\ b.from # b.to
                                     /\ Present(b.from) /\ Present(b.to)
                                     /\ mig[m].new \in {b.from, b.to}
                                     /\ mig[m].old \notin {b.from, b.to}
  <1> DEFINE ins == mig[m].ins
             outs == mig[m].outs
             new == mig[m].new
             old == mig[m].old
             s == [i \in DOMAIN outs |-> [from |-> new, to |-> outs[i].to]]
             t == [i \in DOMAIN ins |-> [from |-> ins[i].from, to |-> new]]
  <1>1. ins \in Seq(Binding) /\ outs \in Seq(Binding) /\ new \in Cid /\ old \in Cid
    BY DEF RootTypes, Migrating
  <1>2. /\ DOMAIN outs = 1..Len(outs) /\ Len(outs) \in Nat /\ \A i \in DOMAIN outs : outs[i] \in Binding
        /\ DOMAIN ins = 1..Len(ins) /\ Len(ins) \in Nat /\ \A i \in DOMAIN ins : ins[i] \in Binding
    BY <1>1, LenProperties, ElementOfSeq
  <1>3. /\ IsInjective(ins) /\ IsInjective(outs)
        /\ Range(ins) = {b \in Bindings : b.to = old}
        /\ Range(outs) = {b \in Bindings : b.from = old}
        /\ \A b \in Bindings : new \notin {b.from, b.to}
    BY DEF Recorded
  <1>4. \A b \in Bindings : Present(b.from) /\ Present(b.to) /\ b.from # b.to
    BY DEF Linked
  <1>5. Present(new) /\ old # new
    <2>1. old < new /\ clusters[new] = mig[m].dest /\ mig[m].dest \in Host
      BY DEF Ends, Begun, Busy
    <2>2. old \in Nat /\ new \in Nat /\ NoHost \notin Host
      BY <1>1, IdsAreNumbers
    <2> QED BY <2>1, <2>2 DEF Present
  <1>6. \A i \in DOMAIN outs : outs[i] \in Range(outs)
    BY DEF Range
  <1>7. \A i \in DOMAIN ins : ins[i] \in Range(ins)
    BY DEF Range
  <1>8. s \in Seq(Binding) /\ DOMAIN s = DOMAIN outs
    <2>1. \A i \in 1..Len(outs) : [from |-> new, to |-> outs[i].to] \in Binding
      BY <1>1, <1>2 DEF Binding
    <2>2. s \in [1..Len(outs) -> Binding]
      BY <1>2, <2>1
    <2> QED BY <1>2, <2>2
  <1>9. t \in Seq(Binding) /\ DOMAIN t = DOMAIN ins
    <2>1. \A i \in 1..Len(ins) : [from |-> ins[i].from, to |-> new] \in Binding
      BY <1>1, <1>2 DEF Binding
    <2>2. t \in [1..Len(ins) -> Binding]
      BY <1>2, <2>1
    <2> QED BY <1>2, <2>2
  <1>10. IsInjective(s)
    <2> SUFFICES ASSUME NEW i \in DOMAIN outs, NEW j \in DOMAIN outs, s[i] = s[j] PROVE i = j
      BY <1>8 DEF IsInjective
    <2>1. outs[i].to = outs[j].to /\ outs[i].from = old /\ outs[j].from = old
      BY <1>3, <1>6
    <2>2. outs[i] = outs[j]
      BY <1>2, <2>1 DEF Binding
    <2> QED BY <1>3, <2>2 DEF IsInjective
  <1>11. IsInjective(t)
    <2> SUFFICES ASSUME NEW i \in DOMAIN ins, NEW j \in DOMAIN ins, t[i] = t[j] PROVE i = j
      BY <1>9 DEF IsInjective
    <2>1. ins[i].from = ins[j].from /\ ins[i].to = old /\ ins[j].to = old
      BY <1>3, <1>7
    <2>2. ins[i] = ins[j]
      BY <1>2, <2>1 DEF Binding
    <2> QED BY <1>3, <2>2 DEF IsInjective
  <1>12. Range(s) = {[from |-> new, to |-> b.to] : b \in Range(outs)}
    BY DEF Range
  <1>13. Range(t) = {[from |-> b.from, to |-> new] : b \in Range(ins)}
    BY DEF Range
  <1>14. Range(s) \cap Range(t) = {}
    <2>1. \A b \in Range(s) : b.from = new
      BY <1>12
    <2>2. \A b \in Range(t) : b.from # new
      BY <1>3, <1>13
    <2> QED BY <2>1, <2>2
  <1>15. Fresh(m) = s \o t
    BY DEF Fresh
  <1>16. NewPairs(m) = Range(s) \cup Range(t)
    BY <1>12, <1>13 DEF NewPairs
  <1> HIDE DEF s, t
  <1>17. s \o t \in Seq(Binding) /\ IsInjective(s \o t) /\ Range(s \o t) = Range(s) \cup Range(t)
    BY <1>8, <1>9, <1>10, <1>11, <1>14, JoinedIs
  <1>18. ASSUME NEW b \in Range(outs)
         PROVE  LET p == [from |-> new, to |-> b.to]
                IN  /\ p \notin Bindings /\ p.from # p.to /\ Present(p.from) /\ Present(p.to)
                    /\ new \in {p.from, p.to} /\ old \notin {p.from, p.to}
    <2>1. b \in Bindings /\ b.from = old
      BY <1>3
    <2>2. b.to # new /\ b.to # old /\ Present(b.to)
      BY <1>3, <1>4, <2>1
    <2> QED BY <1>3, <1>5, <2>2
  <1>19. ASSUME NEW b \in Range(ins)
         PROVE  LET p == [from |-> b.from, to |-> new]
                IN  /\ p \notin Bindings /\ p.from # p.to /\ Present(p.from) /\ Present(p.to)
                    /\ new \in {p.from, p.to} /\ old \notin {p.from, p.to}
    <2>1. b \in Bindings /\ b.to = old
      BY <1>3
    <2>2. b.from # new /\ b.from # old /\ Present(b.from)
      BY <1>3, <1>4, <2>1
    <2> QED BY <1>3, <1>5, <2>2
  <1>20. ASSUME NEW p \in NewPairs(m)
         PROVE  /\ p \notin Bindings /\ p.from # p.to /\ Present(p.from) /\ Present(p.to)
                /\ new \in {p.from, p.to} /\ old \notin {p.from, p.to}
    <2>1. CASE p \in Range(s)
      <3>1. PICK b \in Range(outs) : p = [from |-> new, to |-> b.to]
        BY <1>12, <2>1
      <3> QED BY <1>18, <3>1
    <2>2. CASE p \in Range(t)
      <3>1. PICK b \in Range(ins) : p = [from |-> b.from, to |-> new]
        BY <1>13, <2>2
      <3> QED BY <1>19, <3>1
    <2> QED BY <1>16, <2>1, <2>2
  <1> QED BY <1>15, <1>16, <1>17, <1>20

LEMMA BindingsAre ==
    ASSUME RootTypes
    PROVE  Bindings \subseteq Binding /\ \A b \in Bindings : b.from \in Cid /\ b.to \in Cid
  <1>1. bindings \in Seq(Binding)
    BY DEF RootTypes
  <1>2. Bindings \subseteq Binding
    BY <1>1, RangeOfSeq DEF Bindings
  <1> QED BY <1>2 DEF Binding

\* One migration goes on to another phase, the others rest.
LEMMA OthersRest ==
    ASSUME RootTypes, InTurn, NEW m \in Mig, NEW n \in Mig, n # m,
           Busy(m) \/ \A k \in Mig : ~ Busy(k),
           mig'[n] = mig[n], Ends(n)
    PROVE  Ends(n)' /\ Recorded(n)'
  <1>1. mig[n].phase \in {"idle", "done"}
    BY OneBusy DEF Busy
  <1>2. mig'[n].phase \in {"idle", "done"}
    BY <1>1
  <1>3. /\ ~ Busy(n)' /\ ~ Begun(n)'
        /\ mig'[n].phase = "idle" => mig[n].bindCounter = 0 /\ mig[n].unbindCounter = 0
    BY <1>1 DEF Busy, Begun, Ends
  <1>4. Ends(n)'
    BY <1>2, <1>3 DEF Ends
  <1> QED BY <1>2, <1>4 DEF Recorded

LEMMA InTurnOn ==
    ASSUME RootTypes, InTurn, NEW m \in Mig, Busy(m), UNCHANGED cluster_id,
           mig'[m].phase \notin {"idle", "collect"},
           \A n \in Mig : n # m => mig'[n] = mig[n]
    PROVE  InTurn'
  <1>1. ASSUME NEW n \in Mig, NEW k \in Mig, n < k, mig'[k].phase # "idle"
        PROVE  mig'[n].phase = "done"
    <2>1. n # k /\ n \in Nat /\ k \in Nat /\ m \in Nat
      BY <1>1, IdsAreNumbers
    <2>2. CASE k = m
      BY <1>1, <2>1, <2>2, OneBusy
    <2>3. CASE k # m
      <3>1. mig[k].phase # "idle"
        BY <1>1, <2>3
      <3>2. n # m
        BY <1>1, <2>3, <3>1, OneBusy
      <3> QED BY <1>1, <3>1, <3>2 DEF InTurn
    <2> QED BY <2>2, <2>3
  <1>2. ASSUME NEW n \in Mig, mig'[n].phase \in {"idle", "collect"}
        PROVE  cluster_id' <= Cardinality(Op) + n - 1
    BY <1>2 DEF InTurn
  <1> QED BY <1>1, <1>2 DEF InTurn

LEMMA AliveOn ==
    ASSUME Alive, UNCHANGED <<clusters, origin, cluster_id>>,
           \A n \in Mig : Begun(n) => /\ Begun(n)' /\ mig'[n].old = mig[n].old
                                      /\ mig'[n].new = mig[n].new
    PROVE  Alive'
  <1>1. /\ \A c \in Cid : c >= cluster_id' => ~ Present(c)'
        /\ \A c \in Cid : Present(c)' => origin'[c] \in Op
        /\ \A o \in Op : \E c \in Cid : Present(c)' /\ origin'[c] = o
    BY DEF Alive, Present
  <1>2. ASSUME NEW c \in Cid, NEW d \in Cid, Present(c)', Present(d)', origin'[c] = origin'[d], c < d
        PROVE  \E n \in Mig : Begun(n)' /\ mig'[n].old = c /\ mig'[n].new = d
    <2>1. PICK n \in Mig : Begun(n) /\ mig[n].old = c /\ mig[n].new = d
      BY <1>2 DEF Alive, Present
    <2> QED BY <2>1
  <1> QED BY <1>1, <1>2 DEF Alive

LEMMA RootMigrates ==
    ASSUME RootInv, NEW m \in Mig, NEW c \in Cid, NEW h \in Host,
           mig[m].phase = "idle", \A n \in Mig : n < m => mig[n].phase # "idle",
           \A n \in Mig : ~ Busy(n), Present(c),
           mig' = [mig EXCEPT ![m].phase = "collect", ![m].old = c,
                              ![m].src = clusters[c], ![m].dest = h],
           UNCHANGED <<clusters, bindings, cluster_id, origin>>
    PROVE  RootInv'
  <1>1. RootTypes /\ InTurn /\ Alive /\ Linked /\ \A n \in Mig : Ends(n) /\ Recorded(n)
    BY DEF RootInv
  <1>2. clusters[c] \in Host
    BY <1>1 DEF RootTypes, Present
  <1>3. /\ mig' \in [Mig -> Migrating] /\ \A n \in Mig : n # m => mig'[n] = mig[n]
        /\ mig'[m].phase = "collect" /\ mig'[m].old = c /\ mig'[m].src = clusters[c]
        /\ mig'[m].dest = h
        /\ mig'[m].bindCounter = mig[m].bindCounter /\ mig'[m].unbindCounter = mig[m].unbindCounter
    <2> DEFINE g == [mig[m] EXCEPT !.phase = "collect", !.old = c,
                                   !.src = clusters[c], !.dest = h]
    <2>1. mig \in [Mig -> Migrating] /\ mig[m] \in Migrating
      BY <1>1 DEF RootTypes
    <2>2. /\ g \in Migrating /\ g.phase = "collect" /\ g.old = c /\ g.src = clusters[c] /\ g.dest = h
          /\ g.bindCounter = mig[m].bindCounter /\ g.unbindCounter = mig[m].unbindCounter
      BY <1>2, <2>1 DEF Migrating, Phase
    <2>3. mig'[m] = g /\ \A n \in Mig : n # m => mig'[n] = mig[n]
      BY <2>1
    <2>4. mig' = [n \in Mig |-> mig'[n]]
      BY <2>1
    <2> HIDE DEF g
    <2> QED BY <2>1, <2>2, <2>3, <2>4
  <1>4. RootTypes'
    BY <1>1, <1>3 DEF RootTypes
  <1>5. \A n \in Mig : ~ Begun(n)
    BY DEF Begun, Busy
  <1>6. InTurn'
    <2>1. ASSUME NEW n \in Mig, NEW k \in Mig, n < k, mig'[k].phase # "idle"
          PROVE  mig'[n].phase = "done"
      <3>1. n # k
        BY <2>1, IdsAreNumbers
      <3>2. CASE k = m
        <4>1. mig[n].phase # "idle" /\ ~ Busy(n)
          BY <2>1, <3>2
        <4> QED BY <1>3, <3>1, <3>2, <4>1 DEF Busy
      <3>3. CASE k # m
        <4>1. mig[k].phase # "idle"
          BY <1>3, <2>1, <3>3
        <4>2. mig[n].phase = "done"
          BY <1>1, <2>1, <4>1 DEF InTurn
        <4> QED BY <1>3, <4>2
      <3> QED BY <3>2, <3>3
    <2>2. ASSUME NEW n \in Mig, mig'[n].phase \in {"idle", "collect"}
          PROVE  cluster_id' <= Cardinality(Op) + n - 1
      <3>1. mig[n].phase \in {"idle", "collect"}
        BY <1>3, <2>2
      <3> QED BY <1>1, <3>1 DEF InTurn
    <2> QED BY <2>1, <2>2 DEF InTurn
  <1>7. Alive'
    BY <1>1, <1>5, AliveOn
  <1>8. Linked'
    BY <1>1 DEF Linked, Edges, Bindings, Present
  <1>9. Ends(m)' /\ Recorded(m)'
    <2>1. c < cluster_id
      <3>1. c \in Nat /\ cluster_id \in Nat
        BY <1>1, IdsAreNumbers DEF RootTypes
      <3>2. ~ (c >= cluster_id)
        BY <1>1 DEF Alive
      <3> QED BY <3>1, <3>2
    <2>2. mig[m].bindCounter = 0 /\ mig[m].unbindCounter = 0
      BY <1>1 DEF Ends
    <2>3. ~ Begun(m)'
      BY <1>3 DEF Begun
    <2>4. Ends(m)'
      BY <1>2, <1>3, <2>1, <2>2, <2>3 DEF Ends
    <2> QED BY <1>3, <2>4 DEF Recorded
  <1>10. \A n \in Mig : Ends(n)' /\ Recorded(n)'
    BY <1>1, <1>3, <1>9, OthersRest
  <1> QED BY <1>4, <1>6, <1>7, <1>8, <1>10 DEF RootInv

\* A migration goes on: its counters and its phase change, and what the root knows of it.
Goes(m, p, k, l) ==
    /\ mig' \in [Mig -> Migrating] /\ \A n \in Mig : n # m => mig'[n] = mig[n]
    /\ mig'[m].phase = p /\ mig'[m].bindCounter = k /\ mig'[m].unbindCounter = l
    /\ mig'[m].old = mig[m].old /\ mig'[m].new = mig[m].new
    /\ mig'[m].src = mig[m].src /\ mig'[m].dest = mig[m].dest
    /\ mig'[m].ins = mig[m].ins /\ mig'[m].outs = mig[m].outs
LEMMA GoesIs ==
    ASSUME RootTypes, NEW m \in Mig
    PROVE  /\ mig[m].bindCounter \in Nat /\ mig[m].unbindCounter \in Nat
           /\ \A p \in Phase : mig' = [mig EXCEPT ![m].phase = p] =>
                  Goes(m, p, mig[m].bindCounter, mig[m].unbindCounter)
           /\ mig' = [mig EXCEPT ![m].bindCounter = @ + 1] =>
                  Goes(m, mig[m].phase, mig[m].bindCounter + 1, mig[m].unbindCounter)
           /\ mig' = [mig EXCEPT ![m].unbindCounter = @ + 1] =>
                  Goes(m, mig[m].phase, mig[m].bindCounter, mig[m].unbindCounter + 1)
           /\ \A p \in Phase : mig' = [mig EXCEPT ![m].bindCounter = @ + 1, ![m].phase = p] =>
                  Goes(m, p, mig[m].bindCounter + 1, mig[m].unbindCounter)
           /\ \A p \in Phase : mig' = [mig EXCEPT ![m].unbindCounter = @ + 1, ![m].phase = p] =>
                  Goes(m, p, mig[m].bindCounter, mig[m].unbindCounter + 1)
  <1>1. mig \in [Mig -> Migrating] /\ mig[m] \in Migrating
    BY DEF RootTypes
  <1>2. PICK r \in Migrating : r = mig[m]
    BY <1>1
  <1>3. r.bindCounter \in Nat /\ r.unbindCounter \in Nat /\ r.phase \in Phase
    BY DEF Migrating
  <1>4. PICK k \in Nat : k = r.bindCounter + 1
    BY <1>3
  <1>5. PICK l \in Nat : l = r.unbindCounter + 1
    BY <1>3
  <1>6. ASSUME NEW g \in Migrating, mig' = [mig EXCEPT ![m] = g],
               g.old = r.old, g.new = r.new, g.src = r.src, g.dest = r.dest,
               g.ins = r.ins, g.outs = r.outs
        PROVE  Goes(m, g.phase, g.bindCounter, g.unbindCounter)
    <2>1. mig'[m] = g /\ \A n \in Mig : n # m => mig'[n] = mig[n]
      BY <1>1, <1>6
    <2>2. mig' \in [Mig -> Migrating]
      BY <1>1, <1>6
    <2> QED BY <1>2, <1>6, <2>1, <2>2 DEF Goes
  <1>7. ASSUME NEW p \in Phase, NEW i \in Nat, NEW j \in Nat,
               mig' = [mig EXCEPT ![m] =
                          [r EXCEPT !.phase = p, !.bindCounter = i, !.unbindCounter = j]]
        PROVE  Goes(m, p, i, j)
    <2> DEFINE g == [r EXCEPT !.phase = p, !.bindCounter = i, !.unbindCounter = j]
    <2>1. /\ g \in Migrating /\ g.phase = p /\ g.bindCounter = i /\ g.unbindCounter = j
          /\ g.old = r.old /\ g.new = r.new /\ g.src = r.src /\ g.dest = r.dest
          /\ g.ins = r.ins /\ g.outs = r.outs
      BY DEF Migrating
    <2>2. mig' = [mig EXCEPT ![m] = g]
      BY <1>7
    <2> HIDE DEF g
    <2> QED BY <1>6, <2>1, <2>2
  <1>8. ASSUME NEW p \in Phase, mig' = [mig EXCEPT ![m].phase = p]
        PROVE  Goes(m, p, r.bindCounter, r.unbindCounter)
    <2>1. [r EXCEPT !.phase = p]
              = [r EXCEPT !.phase = p, !.bindCounter = r.bindCounter, !.unbindCounter = r.unbindCounter]
      BY DEF Migrating
    <2>2. mig' = [mig EXCEPT ![m] = [r EXCEPT !.phase = p]]
      BY <1>1, <1>2, <1>8
    <2> QED BY <1>3, <1>7, <2>1, <2>2
  <1>9. ASSUME mig' = [mig EXCEPT ![m].bindCounter = @ + 1]
        PROVE  Goes(m, r.phase, k, r.unbindCounter)
    <2>1. [r EXCEPT !.bindCounter = k]
              = [r EXCEPT !.phase = r.phase, !.bindCounter = k, !.unbindCounter = r.unbindCounter]
      BY DEF Migrating
    <2>2. mig' = [mig EXCEPT ![m] = [r EXCEPT !.bindCounter = k]]
      BY <1>1, <1>2, <1>4, <1>9
    <2> QED BY <1>3, <1>7, <2>1, <2>2
  <1>10. ASSUME mig' = [mig EXCEPT ![m].unbindCounter = @ + 1]
         PROVE  Goes(m, r.phase, r.bindCounter, l)
    <2>1. [r EXCEPT !.unbindCounter = l]
              = [r EXCEPT !.phase = r.phase, !.bindCounter = r.bindCounter, !.unbindCounter = l]
      BY DEF Migrating
    <2>2. mig' = [mig EXCEPT ![m] = [r EXCEPT !.unbindCounter = l]]
      BY <1>1, <1>2, <1>5, <1>10
    <2> QED BY <1>3, <1>7, <2>1, <2>2
  <1>11. ASSUME NEW p \in Phase, mig' = [mig EXCEPT ![m].bindCounter = @ + 1, ![m].phase = p]
         PROVE  Goes(m, p, k, r.unbindCounter)
    <2>1. [r EXCEPT !.bindCounter = k, !.phase = p]
              = [r EXCEPT !.phase = p, !.bindCounter = k, !.unbindCounter = r.unbindCounter]
      BY DEF Migrating
    <2>2. mig' = [mig EXCEPT ![m] = [r EXCEPT !.bindCounter = k, !.phase = p]]
      BY <1>1, <1>2, <1>4, <1>11
    <2> QED BY <1>3, <1>7, <2>1, <2>2
  <1>12. ASSUME NEW p \in Phase, mig' = [mig EXCEPT ![m].unbindCounter = @ + 1, ![m].phase = p]
         PROVE  Goes(m, p, r.bindCounter, l)
    <2>1. [r EXCEPT !.unbindCounter = l, !.phase = p]
              = [r EXCEPT !.phase = p, !.bindCounter = r.bindCounter, !.unbindCounter = l]
      BY DEF Migrating
    <2>2. mig' = [mig EXCEPT ![m] = [r EXCEPT !.unbindCounter = l, !.phase = p]]
      BY <1>1, <1>2, <1>5, <1>12
    <2> QED BY <1>3, <1>7, <2>1, <2>2
  <1>13. /\ r.bindCounter = mig[m].bindCounter /\ r.unbindCounter = mig[m].unbindCounter
         /\ r.phase = mig[m].phase /\ k = mig[m].bindCounter + 1 /\ l = mig[m].unbindCounter + 1
    BY <1>2, <1>4, <1>5
  <1> QED BY <1>3, <1>8, <1>9, <1>10, <1>11, <1>12, <1>13

\* A migration goes on among the same operators.
LEMMA RootGoesOn ==
    ASSUME RootInv, NEW m \in Mig, Begun(m), NEW p, NEW k, NEW l, Goes(m, p, k, l),
           p \in {"bind", "unbind", "remove"}, p = "bind" => l = 0,
           UNCHANGED <<clusters, cluster_id, origin>>,
           bindings' \in Seq(Binding), Linked', Recorded(m)'
    PROVE  RootInv'
  <1>1. RootTypes /\ InTurn /\ Alive /\ Linked /\ \A n \in Mig : Ends(n) /\ Recorded(n)
    BY DEF RootInv
  <1>2. /\ mig' \in [Mig -> Migrating] /\ \A n \in Mig : n # m => mig'[n] = mig[n]
        /\ mig'[m].phase = p /\ mig'[m].unbindCounter = l
        /\ mig'[m].old = mig[m].old /\ mig'[m].new = mig[m].new
        /\ mig'[m].src = mig[m].src /\ mig'[m].dest = mig[m].dest
    BY DEF Goes
  <1>3. RootTypes'
    BY <1>1, <1>2 DEF RootTypes
  <1>4. Busy(m) /\ Busy(m)' /\ Begun(m)'
    BY <1>2 DEF Busy, Begun
  <1>5. InTurn'
    BY <1>1, <1>2, <1>4, InTurnOn
  <1>6. Alive'
    <2>1. \A n \in Mig : Begun(n) => /\ Begun(n)' /\ mig'[n].old = mig[n].old
                                     /\ mig'[n].new = mig[n].new
      BY <1>2, <1>4 DEF Begun
    <2> QED BY <1>1, <2>1, AliveOn
  <1>7. Ends(m)'
    BY <1>1, <1>2, <1>4 DEF Ends
  <1>8. \A n \in Mig : Ends(n)' /\ Recorded(n)'
    BY <1>1, <1>2, <1>4, <1>7, OthersRest
  <1> QED BY <1>3, <1>5, <1>6, <1>8 DEF RootInv

\* A counter goes up.
LEMMA RootCounts ==
    ASSUME RootInv, NEW m \in Mig, NEW k, NEW l, Goes(m, mig[m].phase, k, l),
           \/ mig[m].phase = "bind" /\ l = mig[m].unbindCounter
           \/ mig[m].phase = "unbind",
           UNCHANGED <<clusters, bindings, cluster_id, origin>>
    PROVE  RootInv'
  <1>1. RootTypes /\ Linked /\ Ends(m) /\ Recorded(m)
    BY DEF RootInv
  <1>2. PICK p : p = mig[m].phase
    OBVIOUS
  <1>3. Linked' /\ bindings' \in Seq(Binding)
    BY <1>1 DEF Linked, Edges, Bindings, Present, RootTypes
  <1>4. /\ mig'[m].phase = p /\ mig'[m].old = mig[m].old /\ mig'[m].new = mig[m].new
        /\ mig'[m].ins = mig[m].ins /\ mig'[m].outs = mig[m].outs
    BY <1>2 DEF Goes
  <1>5. Recorded(m)'
    <2>1. OldPairs(m)' = OldPairs(m) /\ NewPairs(m)' = NewPairs(m) /\ Bindings' = Bindings
      BY <1>4 DEF OldPairs, NewPairs, Bindings
    <2> QED BY <1>1, <1>2, <1>4, <2>1 DEF Recorded, Present
  <1>6. Begun(m) /\ p \in {"bind", "unbind"} /\ (p = "bind" => l = 0)
    BY <1>1, <1>2 DEF Begun, Ends
  <1>7. Goes(m, p, k, l)
    BY <1>2
  <1> QED BY <1>3, <1>5, <1>6, <1>7, RootGoesOn

LEMMA RootRemoved ==
    ASSUME RootInv, NEW m \in Mig, mig[m].phase = "remove",
           clusters' = [clusters EXCEPT ![mig[m].old] = NoHost],
           mig' = [mig EXCEPT ![m].phase = "done"],
           UNCHANGED <<bindings, cluster_id, origin>>
    PROVE  RootInv'
  <1>1. RootTypes /\ InTurn /\ Alive /\ Linked /\ \A n \in Mig : Ends(n) /\ Recorded(n)
    BY DEF RootInv
  <1>2. /\ mig' \in [Mig -> Migrating] /\ \A n \in Mig : n # m => mig'[n] = mig[n]
        /\ mig'[m].phase = "done"
    BY <1>1 DEF RootTypes, Migrating, Phase
  <1> DEFINE old == mig[m].old
             new == mig[m].new
  <1>3. old \in Cid /\ new \in Cid /\ Cid \subseteq Nat /\ NoHost \notin Host
    BY <1>1, IdsAreNumbers DEF RootTypes, Migrating
  <1>4. Busy(m) /\ Begun(m) /\ ~ Begun(m)'
    BY <1>2 DEF Busy, Begun
  <1>5. /\ old < new /\ clusters[new] \in Host /\ origin[new] = origin[old]
    BY <1>1, <1>4 DEF Ends
  <1>6. \A c \in Cid : Present(c)' <=> Present(c) /\ c # old
    BY <1>1, <1>3 DEF Present, RootTypes
  <1>7. \A b \in Bindings : old \notin {b.from, b.to}
    BY <1>1 DEF Recorded
  <1> HIDE DEF old, new
  <1>8. RootTypes'
    BY <1>1, <1>2 DEF RootTypes
  <1>9. InTurn'
    BY <1>1, <1>2, <1>4, InTurnOn
  <1>10. Alive'
    <2>1. \A c \in Cid : c >= cluster_id' => ~ Present(c)'
      BY <1>1, <1>6 DEF Alive
    <2>2. \A c \in Cid : Present(c)' => origin'[c] \in Op
      BY <1>1, <1>6 DEF Alive
    <2>3. ASSUME NEW o \in Op PROVE \E c \in Cid : Present(c)' /\ origin'[c] = o
      <3>1. PICK c \in Cid : Present(c) /\ origin[c] = o
        BY <1>1 DEF Alive
      <3>2. CASE c # old
        BY <1>6, <3>1, <3>2
      <3>3. CASE c = old
        <4>1. new # old /\ Present(new)
          BY <1>3, <1>5 DEF Present
        <4> QED BY <1>3, <1>5, <1>6, <3>1, <3>3, <4>1
      <3> QED BY <3>2, <3>3
    <2>4. ASSUME NEW c \in Cid, NEW d \in Cid, Present(c)', Present(d)', origin'[c] = origin'[d], c < d
          PROVE  FALSE
      <3>1. PICK n \in Mig : Begun(n) /\ mig[n].old = c /\ mig[n].new = d
        BY <1>1, <1>6, <2>4 DEF Alive
      <3>2. n = m
        BY <1>1, <1>4, <3>1, OneBusy
      <3> QED BY <1>6, <2>4, <3>1, <3>2 DEF old
    <2> QED BY <2>1, <2>2, <2>3, <2>4 DEF Alive
  <1>11. Linked'
    <2>1. Bindings' = Bindings /\ Edges' = Edges
      BY DEF Bindings, Edges
    <2>2. \A b \in Bindings : b.from \in Cid /\ b.to \in Cid
      BY <1>1, BindingsAre
    <2>3. \A b \in Bindings : Present(b.from)' /\ Present(b.to)' /\ b.from # b.to
      BY <1>1, <1>6, <1>7, <2>2 DEF Linked
    <2> QED BY <1>1, <2>1, <2>3 DEF Linked
  <1>12. Ends(m)' /\ Recorded(m)'
    BY <1>2, <1>4 DEF Ends, Recorded, Busy
  <1>13. \A n \in Mig : Ends(n)' /\ Recorded(n)'
    BY <1>1, <1>2, <1>4, <1>12, OthersRest
  <1> QED BY <1>8, <1>9, <1>10, <1>11, <1>13 DEF RootInv

LEMMA OutsAndInsAre ==
    ASSUME RootTypes, NEW c \in Cid
    PROVE  /\ Outs(bindings, c) \in Seq(Binding) /\ Ins(bindings, c) \in Seq(Binding)
           /\ Range(Outs(bindings, c)) = {b \in Bindings : b.from = c}
           /\ Range(Ins(bindings, c)) = {b \in Bindings : b.to = c}
           /\ IsInjective(bindings) =>
                  IsInjective(Outs(bindings, c)) /\ IsInjective(Ins(bindings, c))
  <1>1. bindings \in Seq(Binding)
    BY DEF RootTypes
  <1> DEFINE I == {i \in DOMAIN bindings : bindings[i].from = c}
             J == {i \in DOMAIN bindings : bindings[i].to = c}
  <1>2. I \in SUBSET DOMAIN bindings /\ J \in SUBSET DOMAIN bindings
    OBVIOUS
  <1>3. {bindings[i] : i \in I} = {b \in Bindings : b.from = c}
    BY DEF Bindings, Range
  <1>4. {bindings[i] : i \in J} = {b \in Bindings : b.to = c}
    BY DEF Bindings, Range
  <1>5. Outs(bindings, c) = Picked(bindings, I) /\ Ins(bindings, c) = Picked(bindings, J)
    BY DEF Outs, Ins
  <1> HIDE DEF I, J
  <1>6. /\ Picked(bindings, I) \in Seq(Binding)
        /\ Range(Picked(bindings, I)) = {bindings[i] : i \in I}
        /\ IsInjective(bindings) => IsInjective(Picked(bindings, I))
    BY <1>1, <1>2, PickedIs
  <1>7. /\ Picked(bindings, J) \in Seq(Binding)
        /\ Range(Picked(bindings, J)) = {bindings[i] : i \in J}
        /\ IsInjective(bindings) => IsInjective(Picked(bindings, J))
    BY <1>1, <1>2, PickedIs
  <1> QED BY <1>3, <1>4, <1>5, <1>6, <1>7

\* The next cid is nobody's yet.
LEMMA NextIdIs ==
    ASSUME RootTypes, InTurn, Alive, NEW m \in Mig, mig[m].phase = "collect"
    PROVE  /\ cluster_id \in Cid /\ cluster_id \notin Op /\ ~ Present(cluster_id)
           /\ \A c \in Cid : Present(c) => c < cluster_id
  <1>1. cluster_id \in Nat /\ cluster_id >= Cardinality(Op) /\ cluster_id <= Cardinality(Op) + m - 1
    BY DEF RootTypes, InTurn
  <1>2. m \in 1..MaxMig /\ MaxMig \in Nat /\ Cardinality(Op) \in Nat
    BY IdsAreNumbers
  <1>3. cluster_id \in 0..(Cardinality(Op) + MaxMig - 1) /\ ~ (cluster_id \in 0..(Cardinality(Op) - 1))
    BY <1>1, <1>2
  <1>4. cluster_id \in Cid /\ cluster_id \notin Op
    BY <1>3, IdsAreNumbers
  <1>5. ASSUME NEW c \in Cid, Present(c) PROVE c < cluster_id
    <2>1. c \in Nat
      BY IdsAreNumbers
    <2>2. ~ (c >= cluster_id)
      BY <1>5 DEF Alive
    <2> QED BY <1>1, <2>1, <2>2
  <1>6. ~ (cluster_id < cluster_id)
    BY <1>1
  <1> QED BY <1>4, <1>5, <1>6

LEMMA RootCollected ==
    ASSUME RootInv, NEW m \in Mig, mig[m].phase = "collect",
           cluster_id' = NextId,
           clusters' = [clusters EXCEPT ![cluster_id] = mig[m].dest],
           origin' = [origin EXCEPT ![cluster_id] = origin[mig[m].old]],
           mig' = [mig EXCEPT ![m].phase = "run", ![m].new = cluster_id,
                              ![m].outs = Outs(bindings, mig[m].old),
                              ![m].ins = Ins(bindings, mig[m].old)],
           UNCHANGED bindings
    PROVE  /\ RootInv'
           /\ mig'[m].phase = "run" /\ mig'[m].new = cluster_id /\ mig'[m].old = mig[m].old
           /\ mig'[m].dest = mig[m].dest /\ mig'[m].src = mig[m].src
           /\ mig'[m].bindCounter = 0 /\ mig'[m].unbindCounter = 0
           /\ \A n \in Mig : n # m => mig'[n] = mig[n]
  <1>1. RootTypes /\ InTurn /\ Alive /\ Linked /\ \A n \in Mig : Ends(n) /\ Recorded(n)
    BY DEF RootInv
  <1>2. PICK old : old = mig[m].old
    OBVIOUS
  <1>3. PICK new : new = cluster_id
    OBVIOUS
  <1>4. PICK outs : outs = Outs(bindings, old)
    OBVIOUS
  <1>5. PICK ins : ins = Ins(bindings, old)
    OBVIOUS
  <1>6. mig \in [Mig -> Migrating] /\ mig[m] \in Migrating /\ old \in Cid
    BY <1>1, <1>2 DEF RootTypes, Migrating
  <1>7. /\ new \in Cid /\ new \notin Op /\ ~ Present(new) /\ \A c \in Cid : Present(c) => c < new
    BY <1>1, <1>3, NextIdIs
  <1>8. /\ outs \in Seq(Binding) /\ ins \in Seq(Binding) /\ IsInjective(outs) /\ IsInjective(ins)
        /\ Range(outs) = {b \in Bindings : b.from = old} /\ Range(ins) = {b \in Bindings : b.to = old}
    BY <1>1, <1>4, <1>5, <1>6, OutsAndInsAre DEF Linked
  <1>9. /\ Busy(m) /\ ~ Begun(m)
        /\ old < new /\ mig[m].src \in Host /\ mig[m].dest \in Host /\ clusters[old] = mig[m].src
        /\ mig[m].bindCounter = 0 /\ mig[m].unbindCounter = 0
    BY <1>1, <1>2, <1>3 DEF Busy, Begun, Ends
  <1>10. /\ mig' \in [Mig -> Migrating] /\ \A n \in Mig : n # m => mig'[n] = mig[n]
         /\ mig'[m].phase = "run" /\ mig'[m].new = new /\ mig'[m].old = old
         /\ mig'[m].outs = outs /\ mig'[m].ins = ins
         /\ mig'[m].dest = mig[m].dest /\ mig'[m].src = mig[m].src
         /\ mig'[m].bindCounter = mig[m].bindCounter
         /\ mig'[m].unbindCounter = mig[m].unbindCounter
    <2> DEFINE g == [mig[m] EXCEPT !.phase = "run", !.new = new, !.outs = outs, !.ins = ins]
    <2>0. mig' = [mig EXCEPT ![m].phase = "run", ![m].new = new, ![m].outs = outs, ![m].ins = ins]
      BY <1>2, <1>3, <1>4, <1>5
    <2>1. /\ g \in Migrating /\ g.phase = "run" /\ g.new = new /\ g.old = mig[m].old
          /\ g.outs = outs /\ g.ins = ins
          /\ g.dest = mig[m].dest /\ g.src = mig[m].src
          /\ g.bindCounter = mig[m].bindCounter /\ g.unbindCounter = mig[m].unbindCounter
      BY <1>6, <1>7, <1>8 DEF Migrating, Phase
    <2>2. mig'[m] = g /\ \A n \in Mig : n # m => mig'[n] = mig[n]
      BY <1>6, <2>0
    <2>3. mig' = [n \in Mig |-> mig'[n]]
      BY <1>6, <2>0
    <2> HIDE DEF g
    <2> QED BY <1>2, <1>6, <2>1, <2>2, <2>3
  <1>11. /\ clusters' \in [Cid -> Host \cup {NoHost}] /\ clusters'[new] = mig[m].dest
         /\ \A c \in Cid : c # new => clusters'[c] = clusters[c]
    BY <1>1, <1>3, <1>7, <1>9 DEF RootTypes
  <1>12. /\ origin' \in [Cid -> Cid] /\ origin'[new] = origin[old]
         /\ \A c \in Cid : c # new => origin'[c] = origin[c]
    BY <1>1, <1>2, <1>3, <1>6, <1>7 DEF RootTypes
  <1>13. NoHost \notin Host /\ Cid \subseteq Nat
    BY IdsAreNumbers
  <1>14. /\ \A c \in Cid : Present(c)' <=> Present(c) \/ c = new
         /\ Present(old) /\ old # new
    BY <1>7, <1>9, <1>11, <1>13 DEF Present
  <1>15. new \in Nat /\ cluster_id' = new + 1 /\ Cardinality(Op) \in Nat /\ cluster_id >= Cardinality(Op)
    BY <1>1, <1>3, <1>7, <1>13, IdsAreNumbers DEF NextId, RootTypes
  <1>16. RootTypes'
    <2>1. cluster_id' \in Nat /\ cluster_id' >= Cardinality(Op)
      BY <1>3, <1>15
    <2> QED BY <1>1, <1>10, <1>11, <1>12, <2>1 DEF RootTypes
  <1>17. InTurn'
    <2>1. ASSUME NEW n \in Mig, NEW k \in Mig, n < k, mig'[k].phase # "idle"
          PROVE  mig'[n].phase = "done"
      <3>1. n # k /\ n \in Nat /\ k \in Nat /\ m \in Nat
        BY <2>1, IdsAreNumbers
      <3>2. CASE k = m
        BY <1>1, <1>9, <1>10, <2>1, <3>1, <3>2, OneBusy
      <3>3. CASE k # m
        <4>1. mig[k].phase # "idle"
          BY <1>10, <2>1, <3>3
        <4>2. n # m
          BY <1>1, <1>9, <2>1, <3>3, <4>1, OneBusy
        <4>3. mig[n].phase = "done"
          BY <1>1, <2>1, <4>1 DEF InTurn
        <4> QED BY <1>10, <4>2, <4>3
      <3> QED BY <3>2, <3>3
    <2>2. ASSUME NEW n \in Mig, mig'[n].phase \in {"idle", "collect"}
          PROVE  cluster_id' <= Cardinality(Op) + n - 1
      <3>1. n # m /\ mig[n].phase \in {"idle", "collect"}
        BY <1>10, <2>2
      <3>2. ~ (n < m)
        BY <1>1, <1>9, <3>1, OneBusy
      <3>3. cluster_id <= Cardinality(Op) + m - 1
        BY <1>1 DEF InTurn
      <3>4. n \in Nat /\ m \in Nat
        BY IdsAreNumbers
      <3> QED BY <1>3, <1>15, <3>1, <3>2, <3>3, <3>4
    <2> QED BY <2>1, <2>2 DEF InTurn
  <1>18. Alive'
    <2>1. \A c \in Cid : c >= cluster_id' => ~ Present(c)'
      <3> SUFFICES ASSUME NEW c \in Cid, c >= cluster_id', Present(c)' PROVE FALSE
        OBVIOUS
      <3>1. c \in Nat
        BY <1>13
      <3>2. c < new \/ c = new
        BY <1>7, <1>14
      <3> QED BY <1>15, <3>1, <3>2
    <2>2. origin[old] \in Op
      BY <1>1, <1>6, <1>14 DEF Alive
    <2>3. \A c \in Cid : Present(c)' => origin'[c] \in Op
      BY <1>1, <1>12, <1>14, <2>2 DEF Alive
    <2>4. ASSUME NEW o \in Op PROVE \E c \in Cid : Present(c)' /\ origin'[c] = o
      <3>1. PICK c \in Cid : Present(c) /\ origin[c] = o
        BY <1>1 DEF Alive
      <3> QED BY <1>7, <1>12, <1>14, <3>1
    <2>5. ASSUME NEW c \in Cid, NEW d \in Cid, Present(c)', Present(d)', origin'[c] = origin'[d], c < d
          PROVE  \E n \in Mig : Begun(n)' /\ mig'[n].old = c /\ mig'[n].new = d
      <3>1. c # d /\ c \in Nat /\ d \in Nat
        BY <1>13, <2>5
      <3>2. \A n \in Mig : ~ Begun(n)
        BY <1>1, <1>9, OneBusy
      <3>3. \A a, b \in Cid : Present(a) /\ Present(b) /\ origin[a] = origin[b] => ~ (a < b)
        BY <1>1, <3>2 DEF Alive
      <3>4. CASE d = new
        <4>1. Present(c) /\ origin[c] = origin[old]
          BY <1>12, <1>14, <2>5, <3>1, <3>4
        <4>2. ~ (c < old) /\ ~ (old < c)
          BY <1>6, <1>14, <3>3, <4>1
        <4>3. old \in Nat
          BY <1>6, <1>13
        <4>4. c = old
          BY <3>1, <4>2, <4>3
        <4>5. Begun(m)'
          BY <1>10 DEF Begun
        <4> QED BY <1>10, <3>4, <4>4, <4>5
      <3>5. CASE d # new
        <4>1. Present(d) /\ d < new
          BY <1>7, <1>14, <2>5, <3>5
        <4>2. c # new
          BY <1>15, <2>5, <3>1, <4>1
        <4>3. Present(c) /\ origin[c] = origin[d]
          BY <1>12, <1>14, <2>5, <3>5, <4>2
        <4> QED BY <2>5, <3>3, <4>1, <4>3
      <3> QED BY <3>4, <3>5
    <2>6. \A o \in Op : \E c \in Cid : Present(c)' /\ origin'[c] = o
      BY <2>4
    <2>7. \A c, d \in Cid : Present(c)' /\ Present(d)' /\ origin'[c] = origin'[d] /\ c < d =>
              \E n \in Mig : Begun(n)' /\ mig'[n].old = c /\ mig'[n].new = d
      BY <2>5
    <2> QED BY <2>1, <2>3, <2>6, <2>7, Zenon DEF Alive
  <1>19. \A b \in Bindings : b.from \in Cid /\ b.to \in Cid /\ Present(b.from) /\ Present(b.to)
    BY <1>1, BindingsAre DEF Linked
  <1>20. Bindings' = Bindings
    BY DEF Bindings
  <1>21. Linked'
    <2>1. \A b \in Bindings : origin'[b.from] = origin[b.from] /\ origin'[b.to] = origin[b.to]
      BY <1>7, <1>12, <1>19
    <2>2. Edges' = Edges
      BY <1>20, <2>1 DEF Edges, Bindings
    <2>3. \A b \in Bindings : Present(b.from)' /\ Present(b.to)' /\ b.from # b.to
      BY <1>1, <1>14, <1>19 DEF Linked
    <2> QED BY <1>1, <1>20, <2>2, <2>3 DEF Linked, UserEdges
  <1>22. Ends(m)'
    <2>1. Busy(m)' /\ Begun(m)'
      BY <1>10 DEF Busy, Begun
    <2>2. old < cluster_id' /\ new < cluster_id'
      <3>1. old \in Nat
        BY <1>6, <1>13
      <3> QED BY <1>9, <1>15, <3>1
    <2> QED BY <1>7, <1>9, <1>6, <1>10, <1>11, <1>12, <1>14, <2>1, <2>2 DEF Ends
  <1>23. Recorded(m)'
    <2>1. \A b \in Bindings : new \notin {b.from, b.to}
      BY <1>7, <1>19
    <2> QED BY <1>8, <1>10, <1>20, <2>1 DEF Recorded
  <1>24. \A n \in Mig : Ends(n)' /\ Recorded(n)'
    BY <1>1, <1>9, <1>10, <1>22, <1>23, OthersRest
  <1>25. RootInv'
    BY <1>16, <1>17, <1>18, <1>21, <1>24 DEF RootInv
  <1> QED BY <1>2, <1>3, <1>9, <1>10, <1>25

\* The operator was bound to nothing.
LEMMA RootRanAlone ==
    ASSUME RootInv, NEW m \in Mig, mig[m].phase = "run", Length(m) = 0, NEW k, NEW l,
           Goes(m, "remove", k, l), UNCHANGED <<clusters, bindings, cluster_id, origin>>
    PROVE  RootInv'
  <1>1. RootTypes /\ Linked /\ Ends(m) /\ Recorded(m)
    BY DEF RootInv
  <1>2. \A b \in Bindings : mig[m].old \notin {b.from, b.to}
    <2>1. OldPairs(m) = {b \in Bindings : mig[m].old \in {b.from, b.to}}
      BY <1>1, OldPairsAre
    <2>2. OldPairs(m) = {}
      BY <1>1, PairsAre
    <2> QED BY <2>1, <2>2
  <1>3. mig'[m].phase = "remove" /\ mig'[m].old = mig[m].old
    BY DEF Goes
  <1>4. Linked' /\ bindings' \in Seq(Binding)
    BY <1>1 DEF Linked, Edges, Bindings, Present, RootTypes
  <1>5. Recorded(m)'
    BY <1>2, <1>3 DEF Recorded, Bindings
  <1>6. Begun(m)
    BY DEF Begun
  <1> QED BY <1>4, <1>5, <1>6, RootGoesOn

\* The edges of the new operator are those of the old one.
LEMMA NewEdges ==
    ASSUME RootTypes, NEW m \in Mig, Ends(m), Begun(m), 
           \A b \in Range(mig[m].ins) : b.to = mig[m].old,
           \A b \in Range(mig[m].outs) : b.from = mig[m].old
    PROVE  /\ \A p \in NewPairs(m) : \E b \in OldPairs(m) :
                  origin[p.from] = origin[b.from] /\ origin[p.to] = origin[b.to]
           /\ \A b \in OldPairs(m) : \E p \in NewPairs(m) :
                  origin[p.from] = origin[b.from] /\ origin[p.to] = origin[b.to]
  <1>1. origin[mig[m].new] = origin[mig[m].old]
    BY DEF Ends
  <1> DEFINE out(b) == [from |-> mig[m].new, to |-> b.to]
             in(b) == [from |-> b.from, to |-> mig[m].new]
  <1>2. \A b \in Range(mig[m].outs) :
            /\ out(b) \in NewPairs(m) /\ b \in OldPairs(m)
            /\ origin[out(b).from] = origin[b.from] /\ origin[out(b).to] = origin[b.to]
    BY <1>1 DEF NewPairs, OldPairs
  <1>3. \A b \in Range(mig[m].ins) :
            /\ in(b) \in NewPairs(m) /\ b \in OldPairs(m)
            /\ origin[in(b).from] = origin[b.from] /\ origin[in(b).to] = origin[b.to]
    BY <1>1 DEF NewPairs, OldPairs
  <1>4. \A p \in NewPairs(m) : \/ \E b \in Range(mig[m].outs) : p = out(b)
                               \/ \E b \in Range(mig[m].ins) : p = in(b)
    BY DEF NewPairs
  <1>5. \A b \in OldPairs(m) : b \in Range(mig[m].outs) \/ b \in Range(mig[m].ins)
    BY DEF OldPairs
  <1> HIDE DEF out, in
  <1> QED BY <1>2, <1>3, <1>4, <1>5

LEMMA RootRan ==
    ASSUME RootInv, NEW m \in Mig, mig[m].phase = "run", NEW k, NEW l,
           Goes(m, "bind", k, l), l = mig[m].unbindCounter,
           bindings' = bindings \o Handled(Fresh(m)), UNCHANGED <<clusters, cluster_id, origin>>
    PROVE  RootInv' /\ Bindings' = Bindings \cup NewPairs(m) /\ NewPairs(m)' = NewPairs(m)
  <1>1. RootTypes /\ Linked /\ Ends(m) /\ Recorded(m)
    BY DEF RootInv
  <1>2. /\ Fresh(m) \in Seq(Binding) /\ IsInjective(Fresh(m)) /\ Range(Fresh(m)) = NewPairs(m)
        /\ \A b \in NewPairs(m) : /\ b \notin Bindings /\ b.from # b.to
                                  /\ Present(b.from) /\ Present(b.to)
                                  /\ mig[m].new \in {b.from, b.to}
                                  /\ mig[m].old \notin {b.from, b.to}
    BY <1>1, NewPairsAre
  <1>3. Busy(m) /\ Begun(m)
    BY DEF Busy, Begun
  <1>4. Handled(Fresh(m)) = Fresh(m)
    <2>1. mig[m].dest \in Host /\ clusters \in [Cid -> Host \cup {NoHost}]
      BY <1>1, <1>3 DEF Ends, RootTypes
    <2>2. \A b \in Range(Fresh(m)) : Present(b.from) /\ Present(b.to)
      BY <1>2
    <2> QED BY <1>2, <2>1, <2>2, CallsAre
  <1>5. /\ bindings' \in Seq(Binding) /\ IsInjective(bindings')
        /\ Range(bindings') = Bindings \cup NewPairs(m)
    <2>1. Range(bindings) \cap Range(Fresh(m)) = {}
      BY <1>2 DEF Bindings
    <2>2. bindings \in Seq(Binding) /\ IsInjective(bindings)
      BY <1>1 DEF RootTypes, Linked
    <2>3. /\ bindings \o Fresh(m) \in Seq(Binding) /\ IsInjective(bindings \o Fresh(m))
          /\ Range(bindings \o Fresh(m)) = Range(bindings) \cup Range(Fresh(m))
      BY <1>2, <2>1, <2>2, JoinedIs
    <2> QED BY <1>2, <1>4, <2>3 DEF Bindings
  <1>6. Bindings' = Bindings \cup NewPairs(m)
    BY <1>5 DEF Bindings
  <1>7. /\ OldPairs(m) = {b \in Bindings : mig[m].old \in {b.from, b.to}}
        /\ \A b \in Range(mig[m].ins) : b.to = mig[m].old /\ b.from # mig[m].old
        /\ \A b \in Range(mig[m].outs) : b.from = mig[m].old /\ b.to # mig[m].old
    BY <1>1, OldPairsAre
  <1>8. Linked'
    <2>1. \A p \in NewPairs(m) : \E b \in OldPairs(m) :
              origin[p.from] = origin[b.from] /\ origin[p.to] = origin[b.to]
      BY <1>1, <1>3, <1>7, NewEdges
    <2>2. \A p \in NewPairs(m) : \E b \in Bindings :
              <<origin[p.from], origin[p.to]>> = <<origin[b.from], origin[b.to]>>
      BY <1>7, <2>1
    <2>3. Edges = {<<origin[b.from], origin[b.to]>> : b \in Bindings}
      BY DEF Edges, Bindings
    <2>4. Edges' = {<<origin[b.from], origin[b.to]>> : b \in Bindings \cup NewPairs(m)}
      BY <1>6 DEF Edges, Bindings
    <2>5. Edges' = Edges
      BY <2>2, <2>3, <2>4
    <2>6. \A b \in Bindings' : Present(b.from)' /\ Present(b.to)' /\ b.from # b.to
      BY <1>1, <1>2, <1>6 DEF Linked, Present
    <2> QED BY <1>1, <1>5, <2>5, <2>6 DEF Linked, UserEdges
  <1>9. /\ mig'[m].phase = "bind" /\ mig'[m].old = mig[m].old /\ mig'[m].new = mig[m].new
        /\ mig'[m].ins = mig[m].ins /\ mig'[m].outs = mig[m].outs
    BY DEF Goes
  <1>10. NewPairs(m)' = NewPairs(m)
    BY <1>9 DEF NewPairs
  <1>11. Recorded(m)'
    <2>1. /\ IsInjective(mig[m].ins) /\ IsInjective(mig[m].outs)
          /\ Range(mig[m].ins) = {b \in Bindings : b.to = mig[m].old}
          /\ Range(mig[m].outs) = {b \in Bindings : b.from = mig[m].old}
          /\ \A b \in Bindings : mig[m].new \notin {b.from, b.to}
      BY <1>1 DEF Recorded
    <2>2. {b \in Bindings' : b.to = mig[m].old} = {b \in Bindings : b.to = mig[m].old}
      BY <1>2, <1>6
    <2>3. {b \in Bindings' : b.from = mig[m].old} = {b \in Bindings : b.from = mig[m].old}
      BY <1>2, <1>6
    <2>4. {b \in Bindings' : mig[m].new \in {b.from, b.to}} = NewPairs(m)
      BY <1>2, <1>6, <2>1
    <2> QED BY <1>9, <1>10, <2>1, <2>2, <2>3, <2>4 DEF Recorded
  <1>12. "bind" = "bind" => l = 0
    BY <1>1 DEF Ends
  <1>13. RootInv'
    BY <1>3, <1>5, <1>8, <1>11, <1>12, RootGoesOn
  <1> QED BY <1>6, <1>10, <1>13

\* Every bind is done: the bindings of the old operator go.
LEMMA RootBound ==
    ASSUME RootInv, NEW m \in Mig, mig[m].phase = "bind", NEW k, NEW l,
           Goes(m, "unbind", k, l),
           bindings' = UnbindAll(mig[m].ins \o mig[m].outs), UNCHANGED <<clusters, cluster_id, origin>>
    PROVE  RootInv' /\ Bindings' = Bindings \ OldPairs(m) /\ OldPairs(m)' = OldPairs(m)
  <1>1. RootTypes /\ Linked /\ Ends(m) /\ Recorded(m)
    BY DEF RootInv
  <1>2. Busy(m) /\ Begun(m)
    BY DEF Busy, Begun
  <1> DEFINE pairs == mig[m].ins \o mig[m].outs
             old == mig[m].old
             new == mig[m].new
  <1>3. /\ pairs \in Seq(Binding) /\ IsInjective(pairs) /\ Range(pairs) = OldPairs(m)
        /\ OldPairs(m) = {b \in Bindings : old \in {b.from, b.to}}
        /\ \A b \in Range(mig[m].ins) : b.to = old /\ b.from # old
        /\ \A b \in Range(mig[m].outs) : b.from = old /\ b.to # old
    BY <1>1, OldPairsAre
  <1>4. bindings' = UnbindAll(pairs)
    OBVIOUS
  <1>5. {b \in Bindings : new \in {b.from, b.to}} = NewPairs(m)
    BY <1>1 DEF Recorded
  <1>6. new # old /\ old \in Cid /\ new \in Cid
    <2>1. old \in Cid /\ new \in Cid
      BY <1>1 DEF RootTypes, Migrating
    <2>2. old < new /\ old \in Nat /\ new \in Nat
      BY <1>1, <1>2, <2>1, IdsAreNumbers DEF Ends
    <2> QED BY <2>1, <2>2
  <1>7. \A p \in NewPairs(m) : p \in Bindings /\ old \notin {p.from, p.to}
    <2>1. \A p \in NewPairs(m) : p \in Bindings
      BY <1>5
    <2>2. \A p \in NewPairs(m) :
              \/ \E b \in Range(mig[m].outs) : p = [from |-> new, to |-> b.to]
              \/ \E b \in Range(mig[m].ins) : p = [from |-> b.from, to |-> new]
      BY DEF NewPairs
    <2>3. \A p \in NewPairs(m) : p.from # old /\ p.to # old
      BY <1>3, <1>6, <2>2
    <2> QED BY <2>1, <2>3
  <1>8. /\ bindings' \in Seq(Binding) /\ IsInjective(bindings')
        /\ Range(bindings') = Bindings \ OldPairs(m)
    <2> HIDE DEF pairs
    <2>1. mig[m].dest \in Host /\ clusters \in [Cid -> Host \cup {NoHost}]
      BY <1>1, <1>2 DEF Ends, RootTypes
    <2>2. \A b \in Range(pairs) : Present(b.from) /\ Present(b.to)
      BY <1>1, <1>3 DEF Linked
    <2>3. Handled(pairs) = pairs /\ Gone(pairs) = {}
      BY <1>3, <2>1, <2>2, CallsAre
    <2>4. UnbindAll(pairs) = DelAll(bindings, pairs)
      BY <2>3 DEF UnbindAll
    <2>5. bindings \in Seq(Binding) /\ IsInjective(bindings) /\ Range(pairs) \subseteq Range(bindings)
      BY <1>1, <1>3 DEF RootTypes, Linked, Bindings
    <2>6. /\ DelAll(bindings, pairs) \in Seq(Binding) /\ IsInjective(DelAll(bindings, pairs))
          /\ Range(DelAll(bindings, pairs)) = Range(bindings) \ Range(pairs)
      BY <1>3, <2>5, DelAllIs
    <2> QED BY <1>3, <1>4, <2>4, <2>6 DEF Bindings
  <1> HIDE DEF pairs, old, new
  <1>9. Bindings' = Bindings \ OldPairs(m)
    BY <1>8 DEF Bindings
  <1>10. Linked'
    <2>1. \A b \in OldPairs(m) : \E p \in NewPairs(m) :
              origin[p.from] = origin[b.from] /\ origin[p.to] = origin[b.to]
      BY <1>1, <1>2, <1>3, NewEdges DEF old
    <2>2. NewPairs(m) \subseteq Bindings \ OldPairs(m)
      BY <1>3, <1>7
    <2>3. \A b \in OldPairs(m) : \E p \in Bindings \ OldPairs(m) :
              <<origin[b.from], origin[b.to]>> = <<origin[p.from], origin[p.to]>>
      BY <2>1, <2>2
    <2>4. Edges = {<<origin[b.from], origin[b.to]>> : b \in Bindings}
      BY DEF Edges, Bindings
    <2>5. Edges' = {<<origin[b.from], origin[b.to]>> : b \in Bindings \ OldPairs(m)}
      BY <1>9 DEF Edges, Bindings
    <2>6. Edges' = Edges
      BY <2>3, <2>4, <2>5
    <2>7. \A b \in Bindings' : Present(b.from)' /\ Present(b.to)' /\ b.from # b.to
      BY <1>1, <1>9 DEF Linked, Present
    <2> QED BY <1>1, <1>8, <2>6, <2>7 DEF Linked, UserEdges
  <1>11. /\ mig'[m].phase = "unbind" /\ mig'[m].old = old /\ mig'[m].new = new
         /\ mig'[m].ins = mig[m].ins /\ mig'[m].outs = mig[m].outs
    BY DEF Goes, old, new
  <1>12. OldPairs(m)' = OldPairs(m)
    BY <1>11 DEF OldPairs
  <1>13. Recorded(m)'
    <2>1. \A b \in OldPairs(m) : Present(b.from)' /\ Present(b.to)'
      BY <1>1, <1>3 DEF Linked, Present
    <2>2. \A b \in OldPairs(m) : new \notin {b.from, b.to}
      <3> SUFFICES ASSUME NEW b \in OldPairs(m), new \in {b.from, b.to} PROVE FALSE
        OBVIOUS
      <3>1. b \in NewPairs(m) /\ old \in {b.from, b.to}
        BY <1>3, <1>5
      <3> QED BY <1>7, <3>1
    <2>3. \A b \in Bindings' : old \notin {b.from, b.to}
      BY <1>3, <1>9
    <2> QED BY <1>3, <1>11, <1>12, <2>1, <2>2, <2>3 DEF Recorded
  <1>14. RootInv'
    BY <1>2, <1>8, <1>10, <1>13, RootGoesOn
  <1> QED BY <1>9, <1>12, <1>14

\* Every unbind is done: there is nothing left of the old operator to forget.
LEMMA RootUnbound ==
    ASSUME RootInv, NEW m \in Mig, mig[m].phase = "unbind", NEW k, NEW l,
           Goes(m, "remove", k, l),
           bindings' = ForgetAll(bindings, mig[m].ins \o mig[m].outs),
           UNCHANGED <<clusters, cluster_id, origin>>
    PROVE  RootInv' /\ UNCHANGED bindings
  <1>1. RootTypes /\ Linked /\ Ends(m) /\ Recorded(m)
    BY DEF RootInv
  <1>2. PICK ins \in Seq(Binding) : ins = mig[m].ins
    BY <1>1 DEF RootTypes, Migrating
  <1>3. PICK outs \in Seq(Binding) : outs = mig[m].outs
    BY <1>1 DEF RootTypes, Migrating
  <1>4. ins \o outs \in Seq(Binding) /\ Range(ins \o outs) = OldPairs(m)
    BY <1>2, <1>3, ConcatProperties, RangeConcatenation DEF OldPairs
  <1>5. /\ \A b \in OldPairs(m) : mig[m].old \in {b.from, b.to}
        /\ \A b \in Bindings : mig[m].old \notin {b.from, b.to}
    <2>1. \A b \in OldPairs(m) : b \in Range(mig[m].ins) \/ b \in Range(mig[m].outs)
      BY DEF OldPairs
    <2> QED BY <1>1, <2>1 DEF Recorded
  <1>6. Range(bindings) \cap Range(ins \o outs) = {}
    BY <1>4, <1>5 DEF Bindings
  <1>7. bindings \in Seq(Binding)
    BY <1>1 DEF RootTypes
  <1>8. ForgetAll(bindings, ins \o outs) = bindings
    BY <1>4, <1>6, <1>7, ForgetAllIs
  <1>9. bindings' = bindings
    BY <1>2, <1>3, <1>8
  <1>10. mig'[m].phase = "remove" /\ mig'[m].old = mig[m].old
    BY DEF Goes
  <1>11. Linked'
    BY <1>1, <1>9 DEF Linked, Edges, Bindings, Present
  <1>12. Recorded(m)'
    BY <1>5, <1>9, <1>10 DEF Recorded, Bindings
  <1>13. Begun(m)
    BY DEF Begun
  <1> QED BY <1>7, <1>9, <1>11, <1>12, <1>13, RootGoesOn

-----------------------------------------------------------------------------
(* The order of messages. *)

LEMMA FollowsIs ==
    ASSUME NEW s \in Seq(Message), NEW x, NEW y
    PROVE  /\ Follows(s, x, y) => x \in Range(s) /\ y \in Range(s)
           /\ \A a \in Seq(Message) : Follows(s, x, y) => Follows(s \o a, x, y)
           /\ \A a \in Seq(Message) : x \in Range(s) /\ y \in Range(a) => Follows(s \o a, x, y)
           /\ \A a \in Seq(Message) : Follows(a, x, y) => Follows(s \o a, x, y)
           /\ s # <<>> /\ Follows(s, x, y) /\ x # Head(s) => Follows(Tail(s), x, y)
           /\ s # <<>> /\ Follows(s, x, y) => y \in Range(Tail(s))
  <1>1. DOMAIN s = 1..Len(s) /\ Len(s) \in Nat
    BY LenProperties
  <1>2. Follows(s, x, y) => x \in Range(s) /\ y \in Range(s)
    BY DEF Follows, Range
  <1>3. ASSUME NEW a \in Seq(Message)
        PROVE  /\ Len(a) \in Nat /\ DOMAIN a = 1..Len(a) /\ DOMAIN (s \o a) = 1..(Len(s) + Len(a))
               /\ \A i \in 1..Len(s) : i \in DOMAIN (s \o a) /\ (s \o a)[i] = s[i]
               /\ \A i \in 1..Len(a) : Len(s) + i \in DOMAIN (s \o a) /\ (s \o a)[Len(s) + i] = a[i]
    <2>1. /\ s \o a \in Seq(Message) /\ Len(s \o a) = Len(s) + Len(a)
          /\ \A i \in 1..(Len(s) + Len(a)) :
                (s \o a)[i] = IF i <= Len(s) THEN s[i] ELSE a[i - Len(s)]
      BY ConcatProperties
    <2>2. Len(a) \in Nat /\ DOMAIN a = 1..Len(a) /\ DOMAIN (s \o a) = 1..(Len(s) + Len(a))
      BY <2>1, LenProperties
    <2>3. \A i \in 1..Len(s) : i \in 1..(Len(s) + Len(a)) /\ i <= Len(s)
      BY <1>1, <2>2
    <2>4. \A i \in 1..Len(a) : /\ Len(s) + i \in 1..(Len(s) + Len(a)) /\ ~ (Len(s) + i <= Len(s))
                               /\ (Len(s) + i) - Len(s) = i
      BY <1>1, <2>2
    <2> QED BY <2>1, <2>2, <2>3, <2>4
  <1>4. ASSUME NEW a \in Seq(Message), Follows(s, x, y) PROVE Follows(s \o a, x, y)
    BY <1>1, <1>3, <1>4 DEF Follows
  <1>5. ASSUME NEW a \in Seq(Message), x \in Range(s), y \in Range(a) PROVE Follows(s \o a, x, y)
    <2>1. PICK i \in 1..Len(s) : s[i] = x
      BY <1>1, <1>5 DEF Range
    <2>2. PICK j \in 1..Len(a) : a[j] = y
      BY <1>3, <1>5 DEF Range
    <2>3. i < Len(s) + j
      BY <1>1, <1>3
    <2>4. /\ i \in DOMAIN (s \o a) /\ (s \o a)[i] = x
          /\ Len(s) + j \in DOMAIN (s \o a) /\ (s \o a)[Len(s) + j] = y
      BY <1>3, <2>1, <2>2
    <2> QED BY <2>3, <2>4 DEF Follows
  <1>6. ASSUME NEW a \in Seq(Message), Follows(a, x, y) PROVE Follows(s \o a, x, y)
    <2>1. PICK i \in 1..Len(a), j \in 1..Len(a) : i < j /\ a[i] = x /\ a[j] = y
      BY <1>3, <1>6 DEF Follows
    <2>2. Len(s) + i < Len(s) + j
      BY <1>1, <1>3, <2>1
    <2>3. /\ Len(s) + i \in DOMAIN (s \o a) /\ (s \o a)[Len(s) + i] = x
          /\ Len(s) + j \in DOMAIN (s \o a) /\ (s \o a)[Len(s) + j] = y
      BY <1>3, <2>1
    <2> QED BY <2>2, <2>3 DEF Follows
  <1>7. ASSUME s # <<>>
        PROVE  /\ Head(s) = s[1] /\ DOMAIN Tail(s) = 1..(Len(s) - 1)
               /\ \A i \in 2..Len(s) : i - 1 \in DOMAIN Tail(s) /\ Tail(s)[i - 1] = s[i]
    <2>1. /\ Head(s) = s[1] /\ Tail(s) \in Seq(Message) /\ Len(Tail(s)) = Len(s) - 1
          /\ \A i \in 1..Len(Tail(s)) : Tail(s)[i] = s[i + 1]
      BY <1>7, HeadTailProperties
    <2>2. DOMAIN Tail(s) = 1..(Len(s) - 1)
      BY <2>1, LenProperties
    <2>3. \A i \in 2..Len(s) : i - 1 \in 1..(Len(s) - 1) /\ (i - 1) + 1 = i
      BY <1>1
    <2> QED BY <2>1, <2>2, <2>3
  <1>8. ASSUME s # <<>>, Follows(s, x, y) PROVE y \in Range(Tail(s))
    <2>1. PICK i \in 1..Len(s), j \in 1..Len(s) : i < j /\ s[i] = x /\ s[j] = y
      BY <1>1, <1>8 DEF Follows
    <2>2. j \in 2..Len(s)
      BY <1>1, <2>1
    <2>3. j - 1 \in DOMAIN Tail(s) /\ Tail(s)[j - 1] = y
      BY <1>7, <1>8, <2>1, <2>2
    <2> QED BY <2>3 DEF Range
  <1>9. ASSUME s # <<>>, Follows(s, x, y), x # Head(s) PROVE Follows(Tail(s), x, y)
    <2>1. PICK i \in 1..Len(s), j \in 1..Len(s) : i < j /\ s[i] = x /\ s[j] = y
      BY <1>1, <1>9 DEF Follows
    <2>2. i # 1
      BY <1>7, <1>9, <2>1
    <2>3. i \in 2..Len(s) /\ j \in 2..Len(s) /\ i - 1 < j - 1
      BY <1>1, <2>1, <2>2
    <2>4. /\ i - 1 \in DOMAIN Tail(s) /\ Tail(s)[i - 1] = x
          /\ j - 1 \in DOMAIN Tail(s) /\ Tail(s)[j - 1] = y
      BY <1>7, <1>9, <2>1, <2>3
    <2> QED BY <2>3, <2>4 DEF Follows
  <1> QED BY <1>2, <1>4, <1>5, <1>6, <1>8, <1>9

\* Queues that only get messages at their ends.
Grows(q, r) == \A h \in Host : \E a \in Seq(Message) : r[h] = q[h] \o a
LEMMA GrowsIs ==
    ASSUME NEW q \in Queues, NEW r
    PROVE  /\ r = q => Grows(q, r)
           /\ \A g \in Host, y \in Message : r = [q EXCEPT ![g] = Append(@, y)] => Grows(q, r)
           /\ \A g \in Host, a \in Seq(Message) : r = [q EXCEPT ![g] = @ \o a] => Grows(q, r)
           /\ \A A \in Queues : r = [g \in Host |-> q[g] \o A[g]] => Grows(q, r)
           /\ Grows(q, r) => \A h \in Host : \A x, y :
                  Follows(q[h], x, y) => Follows(r[h], x, y)
  <1>1. \A h \in Host : q[h] \in Seq(Message) /\ DOMAIN q = Host
    BY QueuesAre
  <1>2. <<>> \in Seq(Message) /\ \A h \in Host : q[h] \o <<>> = q[h]
    BY <1>1, ConcatEmptySeq
  <1>3. ASSUME NEW g \in Host, NEW y \in Message PROVE Append(q[g], y) = q[g] \o <<y>> /\ <<y>> \in Seq(Message)
    BY <1>1
  <1>4. r = q => Grows(q, r)
    BY <1>2 DEF Grows
  <1>5. ASSUME NEW g \in Host, NEW y \in Message, r = [q EXCEPT ![g] = Append(@, y)] PROVE Grows(q, r)
    <2>1. r[g] = q[g] \o <<y>> /\ <<y>> \in Seq(Message)
      BY <1>1, <1>3, <1>5
    <2>2. \A h \in Host : h # g => r[h] = q[h]
      BY <1>1, <1>5
    <2> QED BY <1>2, <2>1, <2>2 DEF Grows
  <1>6. ASSUME NEW g \in Host, NEW a \in Seq(Message), r = [q EXCEPT ![g] = @ \o a] PROVE Grows(q, r)
    <2>1. r[g] = q[g] \o a
      BY <1>1, <1>6
    <2>2. \A h \in Host : h # g => r[h] = q[h]
      BY <1>1, <1>6
    <2> QED BY <1>2, <2>1, <2>2 DEF Grows
  <1>7. ASSUME NEW A \in Queues, r = [g \in Host |-> q[g] \o A[g]] PROVE Grows(q, r)
    <2>1. \A h \in Host : A[h] \in Seq(Message) /\ r[h] = q[h] \o A[h]
      BY <1>7, QueuesAre
    <2> QED BY <2>1 DEF Grows
  <1>8. ASSUME Grows(q, r), NEW h \in Host, NEW x, NEW y, Follows(q[h], x, y)
        PROVE  Follows(r[h], x, y)
    <2>1. PICK a \in Seq(Message) : r[h] = q[h] \o a
      BY <1>8 DEF Grows
    <2> QED BY <1>1, <1>8, <2>1, FollowsIs
  <1> QED BY <1>4, <1>5, <1>6, <1>7, <1>8

LEMMA RangeAppend ==
    ASSUME NEW s \in Seq(Message), NEW z \in Message
    PROVE  Range(Append(s, z)) = Range(s) \cup {z}
  <1>1. DOMAIN s = 1..Len(s) /\ Len(s) \in Nat
    BY LenProperties
  <1>2. /\ Append(s, z) \in Seq(Message) /\ Len(Append(s, z)) = Len(s) + 1
        /\ \A i \in 1..Len(s) : Append(s, z)[i] = s[i]
        /\ Append(s, z)[Len(s) + 1] = z
    BY AppendProperties
  <1>3. DOMAIN Append(s, z) = 1..(Len(s) + 1)
    BY <1>2, LenProperties
  <1>4. \A i \in 1..(Len(s) + 1) : i \in 1..Len(s) \/ i = Len(s) + 1
    BY <1>1
  <1>5. (\A i \in 1..Len(s) : i \in 1..(Len(s) + 1)) /\ Len(s) + 1 \in 1..(Len(s) + 1)
    BY <1>1
  <1> QED BY <1>1, <1>2, <1>3, <1>4, <1>5 DEF Range

\* Whoever is told will be asked.
LEMMA ToldIsAsked ==
    ASSUME up \in Queues, down \in Queues, Asked, NEW x \in Sent, x.op = "notify_binding"
    PROVE  \E y \in Sent : Asks(y, x)
  <1>1. CASE x \in Carried(up)
    <2>1. PICK h \in Host : x \in Range(up[h])
      BY <1>1, QueuesAre
    <2>2. PICK y \in Message : Asks(y, x) /\ Follows(up[h], x, y)
      BY <2>1 DEF Asked
    <2>3. up[h] \in Seq(Message)
      BY QueuesAre
    <2>4. y \in Range(up[h])
      BY <2>2, <2>3, FollowsIs
    <2>5. y \in Carried(up)
      BY <2>4, QueuesAre
    <2> QED BY <2>2, <2>5 DEF Sent
  <1>2. CASE x \in Carried(down)
    <2>1. PICK h \in Host : x \in Range(down[h])
      BY <1>2, QueuesAre
    <2>2. PICK y \in Message : Asks(y, x) /\ (Follows(down[h], x, y) \/ y \in Carried(up))
      BY <2>1 DEF Asked
    <2>3. down[h] \in Seq(Message)
      BY QueuesAre
    <2>4. Follows(down[h], x, y) => y \in Range(down[h])
      BY <2>3, FollowsIs
    <2>5. y \in Carried(down) \/ y \in Carried(up)
      BY <2>2, <2>4, QueuesAre
    <2> QED BY <2>2, <2>5 DEF Sent
  <1> QED BY <1>1, <1>2 DEF Sent

\* The root takes an answer, and no host is told more.
LEMMA AskedAtRoot ==
    ASSUME up \in Queues, down \in Queues, up' \in Queues, down' \in Queues, Once, Asked,
           NEW h \in Host, up[h] # <<>>, up' = [up EXCEPT ![h] = Tail(@)],
           Head(up[h]).op \notin {"notify_binding", "get_workers"},
           Grows(down, down'),
           \A g \in Host : \A y \in Range(down'[g]) :
               y.op = "notify_binding" => y \in Range(down[g])
    PROVE  Asked'
  <1>1. Alone(up)
    BY DEF Once
  <1>2. Loses(up, h, up')
    BY DEF Loses
  <1>3. /\ Carried(up') = Carried(up) \ {Head(up[h])}
        /\ Range(up'[h]) = Range(up[h]) \ {Head(up[h])}
        /\ \A g \in Host : g # h => up'[g] = up[g]
    <2>1. Carried(up') = Carried(up) \ {Head(up[h])}
      BY <1>1, <1>2, Taken
    <2>2. Range(up'[h]) = Range(up[h]) \ {Head(up[h])}
      BY <1>1, <1>2, Taken
    <2>3. \A g \in Host : g # h => up'[g] = up[g]
      BY <1>1, <1>2, Taken
    <2> QED BY <2>1, <2>2, <2>3
  <1>4. \A g \in Host : up[g] \in Seq(Message)
    BY QueuesAre
  <1>5. up'[h] = Tail(up[h])
    BY QueuesAre
  <1>6. ASSUME NEW g \in Host, NEW x \in Range(up'[g]), x.op = "notify_binding"
        PROVE  \E y \in Message : Asks(y, x) /\ Follows(up'[g], x, y)
    <2>1. x \in Range(up[g]) /\ (g = h => x # Head(up[h]))
      BY <1>3, <1>6
    <2>2. PICK y \in Message : Asks(y, x) /\ Follows(up[g], x, y)
      BY <1>6, <2>1 DEF Asked
    <2>3. CASE g = h
      <3>1. Follows(Tail(up[h]), x, y)
        BY <1>4, <2>1, <2>2, <2>3, FollowsIs
      <3> QED BY <1>5, <2>2, <2>3, <3>1
    <2>4. CASE g # h
      BY <1>3, <2>2, <2>4
    <2> QED BY <2>3, <2>4
  <1>7. ASSUME NEW g \in Host, NEW x \in Range(down'[g]), x.op = "notify_binding"
        PROVE  \E y \in Message : Asks(y, x) /\ (Follows(down'[g], x, y) \/ y \in Carried(up'))
    <2>1. PICK y \in Message : Asks(y, x) /\ (Follows(down[g], x, y) \/ y \in Carried(up))
      BY <1>7 DEF Asked
    <2>2. y # Head(up[h])
      BY <2>1 DEF Asks
    <2>3. Follows(down[g], x, y) => Follows(down'[g], x, y)
      BY GrowsIs
    <2> QED BY <1>3, <2>1, <2>2, <2>3
  <1> QED BY <1>6, <1>7 DEF Asked

\* A host takes a call, and is asked after every binding it tells another of.
LEMMA AskedAtHost ==
    ASSUME up \in Queues, down \in Queues, up' \in Queues, down' \in Queues, Once, Asked,
           NEW h \in Host, down[h] # <<>>, down' = [down EXCEPT ![h] = Tail(@)],
           Grows(up, up'), Carried(up) \subseteq Carried(up'),
           \A g \in Host : \A y \in Range(up'[g]) : y.op = "notify_binding" =>
               y \in Range(up[g]) \/ \E z \in Message : Asks(z, y) /\ Follows(up'[g], y, z)
    PROVE  Asked'
  <1>1. Alone(down)
    BY DEF Once
  <1>2. Loses(down, h, down')
    BY DEF Loses
  <1>3. /\ Range(down'[h]) = Range(down[h]) \ {Head(down[h])}
        /\ \A g \in Host : g # h => down'[g] = down[g]
    <2>2. Range(down'[h]) = Range(down[h]) \ {Head(down[h])}
      BY <1>1, <1>2, Taken
    <2>3. \A g \in Host : g # h => down'[g] = down[g]
      BY <1>1, <1>2, Taken
    <2> QED BY <2>2, <2>3
  <1>4. \A g \in Host : down[g] \in Seq(Message)
    BY QueuesAre
  <1>5. down'[h] = Tail(down[h])
    BY QueuesAre
  <1>6. ASSUME NEW g \in Host, NEW x \in Range(up'[g]), x.op = "notify_binding"
        PROVE  \E y \in Message : Asks(y, x) /\ Follows(up'[g], x, y)
    <2>1. CASE x \in Range(up[g])
      <3>1. PICK y \in Message : Asks(y, x) /\ Follows(up[g], x, y)
        BY <1>6, <2>1 DEF Asked
      <3>2. Follows(up'[g], x, y)
        BY <3>1, GrowsIs
      <3> QED BY <3>1, <3>2
    <2> QED BY <1>6, <2>1
  <1>7. ASSUME NEW g \in Host, NEW x \in Range(down'[g]), x.op = "notify_binding"
        PROVE  \E y \in Message : Asks(y, x) /\ (Follows(down'[g], x, y) \/ y \in Carried(up'))
    <2>1. x \in Range(down[g]) /\ (g = h => x # Head(down[h]))
      BY <1>3, <1>7
    <2>2. PICK y \in Message : Asks(y, x) /\ (Follows(down[g], x, y) \/ y \in Carried(up))
      BY <1>7, <2>1 DEF Asked
    <2>3. ASSUME Follows(down[g], x, y) PROVE Follows(down'[g], x, y)
      <3>1. CASE g = h
        <4>1. Follows(Tail(down[h]), x, y)
          BY <1>4, <2>1, <2>3, <3>1, FollowsIs
        <4> QED BY <1>5, <3>1, <4>1
      <3>2. CASE g # h
        BY <1>3, <2>3, <3>2
      <3> QED BY <3>1, <3>2
    <2> QED BY <2>2, <2>3
  <1> QED BY <1>6, <1>7 DEF Asked

\* The root passes a message on.
LEMMA AskedForward ==
    ASSUME up \in Queues, down \in Queues, up' \in Queues, down' \in Queues, Once, Asked,
           NEW h \in Host, up[h] # <<>>, up' = [up EXCEPT ![h] = Tail(@)],
           NEW g \in Host, down' = [down EXCEPT ![g] = Append(@, Head(up[h]))],
           Head(up[h]).op \in HostToHost, Head(up[h]) \in Message,
           Head(up[h]).op = "get_workers" =>
               \A k \in Host : \A x \in Range(down[k]) :
                   x.op = "notify_binding" /\ Asks(Head(up[h]), x) => k = g
    PROVE  Asked'
  <1>1. Alone(up)
    BY DEF Once
  <1>2. Loses(up, h, up')
    BY DEF Loses
  <1>3. /\ Carried(up') = Carried(up) \ {Head(up[h])}
        /\ Range(up'[h]) = Range(up[h]) \ {Head(up[h])}
        /\ \A k \in Host : k # h => up'[k] = up[k]
    <2>1. Carried(up') = Carried(up) \ {Head(up[h])}
      BY <1>1, <1>2, Taken
    <2>2. Range(up'[h]) = Range(up[h]) \ {Head(up[h])}
      BY <1>1, <1>2, Taken
    <2>3. \A k \in Host : k # h => up'[k] = up[k]
      BY <1>1, <1>2, Taken
    <2> QED BY <2>1, <2>2, <2>3
  <1>4. \A k \in Host : up[k] \in Seq(Message) /\ down[k] \in Seq(Message)
    BY QueuesAre
  <1>5. up'[h] = Tail(up[h]) /\ Head(up[h]) \in Range(up[h])
    BY QueuesAre
  <1>6. PICK z \in Message : z = Head(up[h])
    OBVIOUS
  <1>7. /\ down'[g] = down[g] \o <<z>> /\ <<z>> \in Seq(Message) /\ Range(<<z>>) = {z}
        /\ \A k \in Host : k # g => down'[k] = down[k]
    <2>1. down \in [Host -> Seq(Message)]
      BY DEF Queues
    <2>2. Append(down[g], z) = down[g] \o <<z>>
      BY <2>1
    <2>3. down'[g] = Append(down[g], z) /\ \A k \in Host : k # g => down'[k] = down[k]
      BY <1>6, <2>1
    <2>4. <<z>> \in Seq(Message) /\ Range(<<z>>) = {z}
      BY OneMessage
    <2> QED BY <2>2, <2>3, <2>4
  <1>8. Grows(down, down')
    BY <1>6, GrowsIs
  <1>9. Range(down'[g]) = Range(down[g]) \cup {z}
    <2>1. down'[g] = Append(down[g], z)
      BY <1>6 DEF Queues
    <2> QED BY <1>4, <2>1, RangeAppend
  <1>10. ASSUME NEW k \in Host, NEW x \in Range(up'[k]), x.op = "notify_binding"
         PROVE  \E y \in Message : Asks(y, x) /\ Follows(up'[k], x, y)
    <2>1. x \in Range(up[k]) /\ (k = h => x # Head(up[h]))
      BY <1>3, <1>10
    <2>2. PICK y \in Message : Asks(y, x) /\ Follows(up[k], x, y)
      BY <1>10, <2>1 DEF Asked
    <2>3. CASE k = h
      <3>1. Follows(Tail(up[h]), x, y)
        BY <1>4, <2>1, <2>2, <2>3, FollowsIs
      <3> QED BY <1>5, <2>2, <2>3, <3>1
    <2>4. CASE k # h
      BY <1>3, <2>2, <2>4
    <2> QED BY <2>3, <2>4
  <1>11. ASSUME NEW k \in Host, NEW x \in Range(down'[k]), x.op = "notify_binding"
         PROVE  \E y \in Message : Asks(y, x) /\ (Follows(down'[k], x, y) \/ y \in Carried(up'))
    <2>1. CASE x \in Range(down[k])
      <3>1. PICK y \in Message : Asks(y, x) /\ (Follows(down[k], x, y) \/ y \in Carried(up))
        BY <1>11, <2>1 DEF Asked
      <3>2. Follows(down[k], x, y) => Follows(down'[k], x, y)
        BY <1>8, GrowsIs
      <3>3. CASE y = z
        <4>1. k = g
          BY <1>6, <1>11, <2>1, <3>1, <3>3 DEF Asks
        <4>2. Follows(down[g] \o <<z>>, x, z)
          BY <1>4, <1>7, <2>1, <4>1, FollowsIs
        <4> QED BY <1>7, <3>1, <3>3, <4>1, <4>2
      <3>4. CASE y # z
        BY <1>3, <1>6, <3>1, <3>2, <3>4
      <3> QED BY <3>3, <3>4
    <2>2. CASE x \notin Range(down[k])
      <3>1. x = Head(up[h])
        BY <1>6, <1>7, <1>9, <1>11, <2>2
      <3>2. PICK y \in Message : Asks(y, x) /\ Follows(up[h], x, y)
        BY <1>5, <1>11, <3>1 DEF Asked
      <3>3. y \in Range(Tail(up[h]))
        BY <1>4, <3>2, FollowsIs
      <3>4. y \in Carried(up')
        BY <1>5, <3>3, QueuesAre
      <3> QED BY <3>2, <3>4
    <2> QED BY <2>1, <2>2
  <1> QED BY <1>10, <1>11 DEF Asked

-----------------------------------------------------------------------------
(* What messages say of migrations, and what steps leave as it is. *)

LEMMA OneOfLabel ==
    ASSUME up \in Queues, down \in Queues, Once, NEW x \in Sent, NEW y \in Sent, Label(x) = Label(y)
    PROVE  x = y
  <1>1. ASSUME NEW q \in Queues, Alone(q), x \in Carried(q), y \in Carried(q) PROVE x = y
    <2>1. PICK k \in Host : x \in Range(q[k])
      BY <1>1, QueuesAre
    <2>2. PICK l \in Host : y \in Range(q[l])
      BY <1>1, QueuesAre
    <2>3. PICK i \in DOMAIN q[k] : q[k][i] = x
      BY <2>1 DEF Range
    <2>4. PICK j \in DOMAIN q[l] : q[l][j] = y
      BY <2>2 DEF Range
    <2>5. DOMAIN q = Host
      BY QueuesAre
    <2>6. k = l /\ i = j
      BY <1>1, <2>3, <2>4, <2>5 DEF Alone
    <2> QED BY <2>3, <2>4, <2>6
  <1>2. Alone(up) /\ Alone(down)
    BY DEF Once
  <1>3. \A z \in Carried(up), w \in Carried(down) : Label(z) # Label(w)
    BY DEF Once
  <1>4. CASE x \in Carried(up) /\ y \in Carried(up)
    BY <1>1, <1>2, <1>4
  <1>5. CASE x \in Carried(down) /\ y \in Carried(down)
    BY <1>1, <1>2, <1>5
  <1> QED BY <1>3, <1>4, <1>5 DEF Sent

LEMMA SentIs ==
    ASSUME up \in Queues, down \in Queues
    PROVE  /\ Sent \subseteq Message
           /\ \A h \in Host : Range(up[h]) \subseteq Sent /\ Range(down[h]) \subseteq Sent
  <1>1. Carried(up) \subseteq Message /\ Carried(down) \subseteq Message
    BY QueuesAre
  <1>2. \A h \in Host : \A x \in Range(up[h]) : x \in Carried(up)
    BY QueuesAre
  <1>3. \A h \in Host : \A x \in Range(down[h]) : x \in Carried(down)
    BY QueuesAre
  <1> QED BY <1>1, <1>2, <1>3 DEF Sent

\* The message a host, or the root, takes.
LEMMA Arrived ==
    ASSUME ChannelInv, NEW h \in Host, down[h] # <<>>
    PROVE  /\ Head(down[h]) \in Message /\ Head(down[h]) \in Sent
           /\ Head(down[h]).m \in Mig
           /\ Timely(Head(down[h])) /\ Called(h, Head(down[h]))
  <1>1. up \in Queues /\ down \in Queues /\ Addressed
    BY DEF ChannelInv, ChannelTypes
  <1>2. Head(down[h]) \in Range(down[h])
    BY <1>1, QueuesAre
  <1>3. Head(down[h]) \in Sent /\ Head(down[h]) \in Message
    BY <1>1, <1>2, SentIs
  <1>4. Head(down[h]).m \in Mig
    BY <1>3, MessageIs
  <1> QED BY <1>1, <1>2, <1>3, <1>4 DEF Addressed

LEMMA Returned ==
    ASSUME ChannelInv, NEW h \in Host, up[h] # <<>>
    PROVE  /\ Head(up[h]) \in Message /\ Head(up[h]) \in Sent
           /\ Head(up[h]).m \in Mig
           /\ Timely(Head(up[h])) /\ Answered(h, Head(up[h]))
  <1>1. up \in Queues /\ down \in Queues /\ Addressed
    BY DEF ChannelInv, ChannelTypes
  <1>2. Head(up[h]) \in Range(up[h])
    BY <1>1, QueuesAre
  <1>3. Head(up[h]) \in Sent /\ Head(up[h]) \in Message
    BY <1>1, <1>2, SentIs
  <1>4. Head(up[h]).m \in Mig
    BY <1>3, MessageIs
  <1> QED BY <1>1, <1>2, <1>3, <1>4 DEF Addressed

\* What is on its way is about the migration that goes on, in its phase; the unbinds of
\* workers alone may outlive it.
LEMMA Speaks ==
    ASSUME RootTypes, InTurn, NEW m \in Mig, Busy(m), NEW x \in Message, Timely(x)
    PROVE  /\ x.m = m \/ (x.op = "unbind_cluster_process" /\ mig[x.m].phase = "done")
           /\ x.m = m => \/ Kind(x.op) = mig[m].phase
                         \/ x.op = "notify_binding" /\ mig[m].phase = "bind"
                         \/ x.op = "unbind_cluster_process" /\ mig[m].phase \in {"unbind", "remove"}
           /\ x.op = "unbind_cluster_process" => mig[x.m].phase \in {"unbind", "remove", "done"}
  <1>1. x.m \in Mig /\ x.op \in PlainOps \cup PairOps
    BY MessageIs
  <1>2. x.m # m => mig[x.m].phase \in {"idle", "done"}
    BY <1>1, OneBusy
  <1>3. mig[m].phase \notin {"idle", "done"}
    BY DEF Busy
  <1>4. /\ Kind(x.op) \in {"collect", "run", "bind", "unbind", "remove", "notify_binding",
                           "unbind_cluster_process"}
        /\ Kind(x.op) = "notify_binding" => x.op = "notify_binding"
        /\ Kind(x.op) = "unbind_cluster_process" => x.op = "unbind_cluster_process"
    BY <1>1, OpsAre
  <1>5. /\ Kind(x.op) \in {"collect", "run", "bind", "unbind", "remove"} =>
               mig[x.m].phase = Kind(x.op)
        /\ Kind(x.op) = "notify_binding" => mig[x.m].phase = "bind"
        /\ x.op = "unbind_cluster_process" => mig[x.m].phase \in {"unbind", "remove", "done"}
    BY DEF Timely
  <1> QED BY <1>2, <1>3, <1>4, <1>5

LEMMA RootRests == RootInv /\ UNCHANGED rootVars => RootInv'
  BY DEF RootInv, rootVars, RootTypes, InTurn, Alive, Linked, Ends, Recorded, Busy, Begun, Present,
         Bindings, OldPairs, NewPairs, Edges, UserEdges

\* No pair comes anew.
LEMMA ComingRests ==
    ASSUME up \in Queues, down \in Queues, up' \in Queues, down' \in Queues,
           NEW n, NEW P, NEW kind \in {"bind", "unbind"},
           \A y \in Sent' : y.m = n /\ Kind(y.op) = kind => \E x \in Sent : Label(x) = Label(y)
    PROVE  Coming(n, P, kind)' \subseteq Coming(n, P, kind)
  <1> SUFFICES ASSUME NEW p \in P, NEW y \in Sent', y.m = n, Kind(y.op) = kind, Pair(y) = p
               PROVE  p \in Coming(n, P, kind)
    BY DEF Coming, Pair
  <1>1. PICK x \in Sent : Label(x) = Label(y)
    OBVIOUS
  <1>2. Sent \subseteq Message
    BY SentIs
  <1>3. Sent' \subseteq Message
    <2>1. Carried(up') \subseteq Message /\ Carried(down') \subseteq Message
      BY QueuesAre
    <2> QED BY <2>1 DEF Sent
  <1>4. x \in Message /\ y \in Message
    BY <1>2, <1>3
  <1>5. y.op \in PlainOps \cup PairOps
    BY <1>4, MessageIs
  <1>6. y.op \in PairOps
    BY <1>5, OpsAre
  <1>7. Kind(x.op) = Kind(y.op) /\ x.m = y.m /\ (y.op \in PairOps => y.from = x.from /\ y.to = x.to)
    BY <1>1, <1>4, LabelIs
  <1>8. Pair(x) = Pair(y)
    BY <1>6, <1>7 DEF Pair
  <1> QED BY <1>7, <1>8 DEF Coming

LEMMA Fewer ==
    ASSUME NEW P, IsFiniteSet(P), NEW C \in SUBSET P, NEW D \in SUBSET C
    PROVE  /\ Cardinality(C) \in Nat /\ Cardinality(D) \in Nat
           /\ Cardinality(D) <= Cardinality(C) /\ Cardinality(C) <= Cardinality(P)
           /\ D = {} => Cardinality(D) = 0
           /\ (\E p \in C : p \notin D) => Cardinality(D) + 1 <= Cardinality(C)
           /\ Cardinality(C) <= 1 => \A p, q \in C : p = q
  <1>1. /\ IsFiniteSet(C) /\ IsFiniteSet(D)
        /\ Cardinality(D) <= Cardinality(C) /\ Cardinality(C) <= Cardinality(P)
    BY FS_Subset
  <1>2. Cardinality(C) \in Nat /\ Cardinality(D) \in Nat
    BY <1>1, FS_CardinalityType
  <1>3. D = {} => Cardinality(D) = 0
    BY <1>1, FS_EmptySet
  <1>4. ASSUME NEW p \in C, p \notin D PROVE Cardinality(D) + 1 <= Cardinality(C)
    <2>1. D # C
      BY <1>4
    <2>2. Cardinality(D) # Cardinality(C)
      BY <1>1, <2>1, FS_Subset
    <2> QED BY <1>1, <1>2, <2>2
  <1>5. ASSUME Cardinality(C) <= 1, NEW p \in C, NEW q \in C PROVE p = q
    <2>1. Cardinality(C) # 0
      BY <1>1, <1>5, FS_EmptySet
    <2>2. Cardinality(C) = 1
      BY <1>2, <1>5, <2>1
    <2>3. \E z : C = {z}
      BY <1>1, <2>2, FS_Singleton
    <2> QED BY <2>3
  <1> QED BY <1>1, <1>2, <1>3, <1>4, <1>5

LEMMA ComingIs ==
    ASSUME RootTypes, NEW m \in Mig
    PROVE  /\ BindsComing(m) \subseteq NewPairs(m) /\ UnbindsComing(m) \subseteq OldPairs(m)
           /\ Cardinality(BindsComing(m)) \in Nat /\ Cardinality(UnbindsComing(m)) \in Nat
           /\ Cardinality(BindsComing(m)) <= Length(m)
           /\ Cardinality(UnbindsComing(m)) <= Length(m)
           /\ BindsComing(m) = {} => Cardinality(BindsComing(m)) = 0
           /\ UnbindsComing(m) = {} => Cardinality(UnbindsComing(m)) = 0
  <1>1. PICK N : N = NewPairs(m)
    OBVIOUS
  <1>2. PICK O : O = OldPairs(m)
    OBVIOUS
  <1>3. PICK C : C = BindsComing(m)
    OBVIOUS
  <1>4. PICK D : D = UnbindsComing(m)
    OBVIOUS
  <1>5. C \subseteq N /\ D \subseteq O
    BY <1>1, <1>2, <1>3, <1>4 DEF BindsComing, UnbindsComing, Coming
  <1>6. /\ IsFiniteSet(N) /\ IsFiniteSet(O) /\ Length(m) \in Nat
        /\ Cardinality(N) <= Length(m) /\ Cardinality(O) <= Length(m)
    BY <1>1, <1>2, PairsAre
  <1>7. Cardinality(N) \in Nat /\ Cardinality(O) \in Nat
    BY <1>6, FS_CardinalityType
  <1>8. Cardinality(C) \in Nat /\ Cardinality(C) <= Cardinality(N) /\ (C = {} => Cardinality(C) = 0)
    BY <1>5, <1>6, Fewer
  <1>9. Cardinality(D) \in Nat /\ Cardinality(D) <= Cardinality(O) /\ (D = {} => Cardinality(D) = 0)
    BY <1>5, <1>6, Fewer
  <1> QED BY <1>1, <1>2, <1>3, <1>4, <1>5, <1>6, <1>7, <1>8, <1>9

\* A migration whose binds and unbinds are the same counts the same.
LEMMA OwnRest ==
    ASSUME RootTypes, up \in Queues, down \in Queues, up' \in Queues, down' \in Queues,
           BindsCounted, UnbindsCounted, NEW n \in Mig,
           mig'[n].bindCounter = mig[n].bindCounter, mig'[n].unbindCounter = mig[n].unbindCounter,
           mig'[n].ins = mig[n].ins, mig'[n].outs = mig[n].outs, mig'[n].new = mig[n].new,
           \A y \in Sent' : y.m = n /\ Kind(y.op) \in {"bind", "unbind"} =>
               \E x \in Sent : Label(x) = Label(y)
    PROVE  /\ mig'[n].bindCounter + Cardinality(BindsComing(n)') <= Length(n)'
           /\ mig'[n].unbindCounter + Cardinality(UnbindsComing(n)') <= Length(n)'
  <1>1. PICK N : N = NewPairs(n)
    OBVIOUS
  <1>2. PICK O : O = OldPairs(n)
    OBVIOUS
  <1>3. NewPairs(n)' = N /\ OldPairs(n)' = O /\ Length(n)' = Length(n)
    BY <1>1, <1>2 DEF NewPairs, OldPairs, Length
  <1>4. Coming(n, N, "bind")' \subseteq Coming(n, N, "bind")
    BY ComingRests
  <1>5. Coming(n, O, "unbind")' \subseteq Coming(n, O, "unbind")
    BY ComingRests
  <1>6. BindsComing(n)' = Coming(n, N, "bind")' /\ BindsComing(n) = Coming(n, N, "bind")
    BY <1>1, <1>3 DEF BindsComing, Coming
  <1>7. UnbindsComing(n)' = Coming(n, O, "unbind")' /\ UnbindsComing(n) = Coming(n, O, "unbind")
    BY <1>2, <1>3 DEF UnbindsComing, Coming
  <1>8. PICK C, D : C = BindsComing(n) /\ D = BindsComing(n)'
    OBVIOUS
  <1>9. PICK E, F : E = UnbindsComing(n) /\ F = UnbindsComing(n)'
    OBVIOUS
  <1>10. D \subseteq C /\ C \subseteq N /\ F \subseteq E /\ E \subseteq O
    <2>1. C \subseteq N /\ E \subseteq O
      BY <1>1, <1>2, <1>8, <1>9, ComingIs
    <2> QED BY <1>4, <1>5, <1>6, <1>7, <1>8, <1>9, <2>1
  <1>11. IsFiniteSet(N) /\ IsFiniteSet(O) /\ Length(n) \in Nat
    BY <1>1, <1>2, PairsAre
  <1>12. Cardinality(C) \in Nat /\ Cardinality(D) \in Nat /\ Cardinality(D) <= Cardinality(C)
    BY <1>10, <1>11, Fewer
  <1>13. Cardinality(E) \in Nat /\ Cardinality(F) \in Nat /\ Cardinality(F) <= Cardinality(E)
    BY <1>10, <1>11, Fewer
  <1>14. /\ mig[n].bindCounter + Cardinality(C) <= Length(n)
         /\ mig[n].unbindCounter + Cardinality(E) <= Length(n)
    BY <1>8, <1>9 DEF BindsCounted, UnbindsCounted
  <1>15. mig[n].bindCounter \in Nat /\ mig[n].unbindCounter \in Nat
    BY DEF RootTypes, Migrating
  <1>16. PICK i, j : i = mig[n].bindCounter /\ j = mig[n].unbindCounter
    OBVIOUS
  <1>17. i + Cardinality(D) <= Length(n) /\ j + Cardinality(F) <= Length(n)
    BY <1>11, <1>12, <1>13, <1>14, <1>15, <1>16
  <1> QED BY <1>3, <1>8, <1>9, <1>16, <1>17

\* What one migration does leaves what the others count.
LEMMA CountsRest ==
    ASSUME RootTypes, up \in Queues, down \in Queues, up' \in Queues, down' \in Queues,
           BindsCounted, UnbindsCounted, NEW m \in Mig, \A n \in Mig : n # m => mig'[n] = mig[n],
           \A y \in Sent' : y.m # m /\ Kind(y.op) \in {"bind", "unbind"} =>
               \E x \in Sent : Label(x) = Label(y),
           mig'[m].bindCounter + Cardinality(BindsComing(m)') <= Length(m)',
           mig'[m].unbindCounter + Cardinality(UnbindsComing(m)') <= Length(m)'
    PROVE  BindsCounted' /\ UnbindsCounted'
  <1>1. ASSUME NEW n \in Mig
        PROVE  /\ mig'[n].bindCounter + Cardinality(BindsComing(n)') <= Length(n)'
               /\ mig'[n].unbindCounter + Cardinality(UnbindsComing(n)') <= Length(n)'
    <2>1. CASE n = m
      BY <2>1
    <2>2. CASE n # m
      <3>1. mig'[n] = mig[n]
        BY <2>2
      <3>2. \A y \in Sent' : y.m = n /\ Kind(y.op) \in {"bind", "unbind"} =>
                \E x \in Sent : Label(x) = Label(y)
        BY <2>2
      <3> QED BY <3>1, <3>2, OwnRest
    <2> QED BY <2>1, <2>2
  <1> QED BY <1>1 DEF BindsCounted, UnbindsCounted

\* With nothing of a kind on its way, nothing of it is to come.
LEMMA NothingComes ==
    ASSUME NEW m, \A y \in Sent' : y.m = m => Kind(y.op) # "bind" /\ Kind(y.op) # "unbind"
    PROVE  BindsComing(m)' = {} /\ UnbindsComing(m)' = {}
  BY DEF BindsComing, UnbindsComing, Coming

LEMMA CoreIs ==
    CoreInv => /\ RootTypes /\ InTurn /\ Alive /\ Linked /\ \A m \in Mig : Ends(m) /\ Recorded(m)
               /\ ChannelTypes /\ Once /\ Addressed /\ BindsCounted /\ UnbindsCounted
               /\ up \in Queues /\ down \in Queues
               /\ RootInv /\ ChannelInv /\ Hosted /\ Entered /\ Asked /\ OneUnbind
  BY DEF CoreInv, RootInv, ChannelInv, ChannelTypes

\* The channels when a host has taken a call and answered N.
Distinct(msgs) == \A i, j \in DOMAIN msgs : Label(msgs[i]) = Label(msgs[j]) => i = j
Novel(x, N) == \A y \in N : Label(y) = Label(x) \/ \A z \in Sent : Label(z) # Label(y)
Answers(h, N) ==
    /\ down[h] # <<>> /\ down' = [down EXCEPT ![h] = Tail(@)]
    /\ up' \in Queues /\ down' \in Queues /\ Once'
    /\ Sent' = (Sent \ {Head(down[h])}) \cup N
    /\ \A g \in Host : Range(down'[g]) \subseteq Range(down[g])
    /\ \A g \in Host : \A y \in Range(up'[g]) : y \in Range(up[g]) \/ (g = h /\ y \in N)
    /\ Grows(up, up') /\ Carried(up) \subseteq Carried(up')
LEMMA AnswersIs ==
    ASSUME up \in Queues, down \in Queues, Once, NEW h \in Host, down[h] # <<>>,
           down' = [down EXCEPT ![h] = Tail(@)],
           NEW msgs \in Seq(Message), up' = [up EXCEPT ![h] = @ \o msgs],
           Distinct(msgs), Novel(Head(down[h]), Range(msgs))
    PROVE  Answers(h, Range(msgs))
  <1>1. \A i, j \in DOMAIN msgs : Label(msgs[i]) = Label(msgs[j]) => i = j
    BY DEF Distinct
  <1>2. \A y \in Range(msgs) :
            Label(y) = Label(Head(down[h])) \/ \A x \in Sent : Label(x) # Label(y)
    BY DEF Novel
  <1>3. up' \in Queues /\ down' \in Queues /\ Once'
    BY <1>1, <1>2, HostAnswers
  <1>4. Sent' = (Sent \ {Head(down[h])}) \cup Range(msgs)
    BY <1>1, <1>2, HostAnswers
  <1>5. Range(down'[h]) = Range(down[h]) \ {Head(down[h])}
    BY <1>1, <1>2, HostAnswers
  <1>6. \A g \in Host : g # h => down'[g] = down[g]
    BY <1>1, <1>2, HostAnswers
  <1>7. Range(up'[h]) = Range(up[h]) \cup Range(msgs)
    BY <1>1, <1>2, HostAnswers
  <1>8. \A g \in Host : g # h => up'[g] = up[g]
    BY <1>1, <1>2, HostAnswers
  <1>9. \A g \in Host : Range(down'[g]) \subseteq Range(down[g])
    BY <1>5, <1>6
  <1>10. \A g \in Host : \A y \in Range(up'[g]) : y \in Range(up[g]) \/ (g = h /\ y \in Range(msgs))
    BY <1>7, <1>8
  <1>11. Grows(up, up')
    BY GrowsIs
  <1>12. Carried(up) \subseteq Carried(up')
    <2> SUFFICES ASSUME NEW z \in Carried(up) PROVE z \in Carried(up')
      OBVIOUS
    <2>1. PICK g \in Host : z \in Range(up[g])
      BY QueuesAre
    <2>2. z \in Range(up'[g])
      BY <1>7, <1>8, <2>1
    <2> QED BY <1>3, <2>2, QueuesAre
  <1> QED BY <1>3, <1>4, <1>9, <1>10, <1>11, <1>12 DEF Answers

LEMMA AnswersOne ==
    ASSUME up \in Queues, down \in Queues, Once, NEW h \in Host, down[h] # <<>>,
           down' = [down EXCEPT ![h] = Tail(@)],
           NEW y \in Message, up' = [up EXCEPT ![h] = @ \o <<y>>],
           Label(y) = Label(Head(down[h]))
    PROVE  Answers(h, {y})
  <1>1. <<y>> \in Seq(Message) /\ Range(<<y>>) = {y} /\ \A i, j \in DOMAIN <<y>> : i = j
    BY OneMessage
  <1>2. PICK msgs \in Seq(Message) :
            /\ Range(msgs) = {y} /\ \A i, j \in DOMAIN msgs : i = j
            /\ up' = [up EXCEPT ![h] = @ \o msgs]
    BY <1>1
  <1>3. Distinct(msgs) /\ Novel(Head(down[h]), Range(msgs))
    BY <1>2 DEF Distinct, Novel
  <1>4. Answers(h, Range(msgs))
    BY <1>2, <1>3, AnswersIs
  <1> QED BY <1>2, <1>4

LEMMA AnswersNone ==
    ASSUME up \in Queues, down \in Queues, Once, NEW h \in Host, down[h] # <<>>,
           down' = [down EXCEPT ![h] = Tail(@)], UNCHANGED up
    PROVE  Answers(h, {})
  <1>1. up' \in Queues /\ down' \in Queues /\ Once'
    BY HostHears
  <1>2. Sent' = Sent \ {Head(down[h])}
    BY HostHears
  <1>3. Range(down'[h]) = Range(down[h]) \ {Head(down[h])}
    BY HostHears
  <1>4. \A g \in Host : g # h => down'[g] = down[g]
    BY HostHears
  <1>5. Grows(up, up')
    BY GrowsIs
  <1>6. \A g \in Host : Range(down'[g]) \subseteq Range(down[g])
    BY <1>3, <1>4
  <1> QED BY <1>1, <1>2, <1>5, <1>6 DEF Answers

\* What a host answers is about the migration that goes on, and other answers stay true.
Fits(h, N) ==
    /\ \A y \in N : Timely(y) /\ Answered(h, y)'
    /\ \A y \in N : Kind(y.op) \in {"bind", "unbind"} => Label(y) = Label(Head(down[h]))
    /\ \A g \in Host : \A y \in Range(up[g]) : Timely(y) /\ Answered(g, y) => Answered(g, y)'
HostTypes ==
    /\ ipc \in [Cid -> Seq(Command)]
    /\ hosted \in [Host -> SUBSET Cid] /\ crew \subseteq Cid
    /\ known \in [Host -> SUBSET Cid]
    /\ \A h \in Host : from_nodes[h] \subseteq [to : Cid, from : Cid, node : Host]
    /\ clients \in [Cid -> SUBSET Cid] /\ binded \in [Cid -> BOOLEAN]
LEMMA HostTypesAre == ChannelTypes <=> up \in Queues /\ down \in Queues /\ HostTypes
  BY DEF ChannelTypes, HostTypes

LEMMA HostKeeps ==
    ASSUME CoreInv, UNCHANGED rootVars, NEW h \in Host, NEW N \in SUBSET Message,
           Answers(h, N), Fits(h, N), HostTypes'
    PROVE  RootInv' /\ ChannelInv'
  <1>1. /\ RootTypes /\ RootInv /\ up \in Queues /\ down \in Queues /\ ChannelInv
        /\ Addressed /\ BindsCounted /\ UnbindsCounted
    BY CoreIs
  <1>2. RootInv'
    BY <1>1, RootRests
  <1>3. UNCHANGED <<clusters, bindings, cluster_id, mig, origin>>
    BY DEF rootVars
  <1>4. \A y : Timely(y)' <=> Timely(y)
    BY <1>3 DEF Timely, NewPairs, OldPairs, Pair
  <1>5. \A g, y : Called(g, y)' <=> Called(g, y)
    BY <1>3 DEF Called
  <1>6. /\ down[h] # <<>> /\ up' \in Queues /\ down' \in Queues /\ Once'
        /\ Sent' = (Sent \ {Head(down[h])}) \cup N
        /\ \A g \in Host : Range(down'[g]) \subseteq Range(down[g])
        /\ \A g \in Host : \A y \in Range(up'[g]) : y \in Range(up[g]) \/ (g = h /\ y \in N)
    BY DEF Answers
  <1>7. /\ \A y \in N : Timely(y) /\ Answered(h, y)'
        /\ \A y \in N : Kind(y.op) \in {"bind", "unbind"} => Label(y) = Label(Head(down[h]))
        /\ \A g \in Host : \A y \in Range(up[g]) : Timely(y) /\ Answered(g, y) => Answered(g, y)'
    BY DEF Fits
  <1>8. Addressed'
    <2>1. \A y \in Sent' : Timely(y)'
      BY <1>1, <1>4, <1>6, <1>7 DEF Addressed
    <2>2. \A g \in Host : \A y \in Range(down'[g]) : Called(g, y)'
      BY <1>1, <1>5, <1>6 DEF Addressed
    <2>3. \A g \in Host : \A y \in Range(up'[g]) : Answered(g, y)'
      <3> SUFFICES ASSUME NEW g \in Host, NEW y \in Range(up'[g]) PROVE Answered(g, y)'
        OBVIOUS
      <3>1. CASE y \in Range(up[g])
        <4>1. y \in Sent
          BY <1>1, <3>1, SentIs
        <4>2. Timely(y) /\ Answered(g, y)
          BY <1>1, <3>1, <4>1 DEF Addressed
        <4> QED BY <1>7, <3>1, <4>2
      <3>2. CASE g = h /\ y \in N
        BY <1>7, <3>2
      <3> QED BY <1>6, <3>1, <3>2
    <2> QED BY <2>1, <2>2, <2>3 DEF Addressed
  <1>9. Head(down[h]) \in Sent
    BY <1>1, <1>6, Arrived
  <1>10. \A y \in Sent' : Kind(y.op) \in {"bind", "unbind"} => \E x \in Sent : Label(x) = Label(y)
    BY <1>6, <1>7, <1>9
  <1>11. BindsCounted' /\ UnbindsCounted'
    <2>1. ASSUME NEW n \in Mig
          PROVE  /\ mig'[n].bindCounter + Cardinality(BindsComing(n)') <= Length(n)'
                 /\ mig'[n].unbindCounter + Cardinality(UnbindsComing(n)') <= Length(n)'
      BY <1>1, <1>3, <1>6, <1>10, OwnRest
    <2> QED BY <2>1 DEF BindsCounted, UnbindsCounted
  <1>12. ChannelTypes'
    BY <1>6 DEF ChannelTypes, HostTypes
  <1> QED BY <1>2, <1>6, <1>8, <1>11, <1>12 DEF ChannelInv

LEMMA HostedRests == Hosted /\ UNCHANGED <<rootVars, hosted, crew>> => Hosted'
  BY DEF Hosted, rootVars, Present

LEMMA EnteredRests == Entered /\ UNCHANGED <<rootVars, from_nodes>> => Entered'
  BY DEF Entered, rootVars, Present

LEMMA OneUnbindRests ==
    ASSUME OneUnbind, \A y \in Sent' : y.op \in {"unbind_cluster", "unbind_cluster_process"} => y \in Sent
    PROVE  OneUnbind'
  BY DEF OneUnbind

\* A host answers nothing that is to be told, or is about unbinding.
LEMMA HostReplies ==
    ASSUME CoreInv, NEW h \in Host, NEW N, Answers(h, N),
           \A y \in N : y.op \notin {"unbind_cluster", "unbind_cluster_process", "notify_binding"}
    PROVE  Asked' /\ OneUnbind'
  <1>1. /\ up \in Queues /\ down \in Queues /\ Once /\ Asked /\ OneUnbind
    BY CoreIs
  <1>2. /\ down[h] # <<>> /\ down' = [down EXCEPT ![h] = Tail(@)]
        /\ up' \in Queues /\ down' \in Queues
        /\ Sent' = (Sent \ {Head(down[h])}) \cup N
        /\ \A g \in Host : \A y \in Range(up'[g]) : y \in Range(up[g]) \/ (g = h /\ y \in N)
        /\ Grows(up, up') /\ Carried(up) \subseteq Carried(up')
    BY DEF Answers
  <1>3. Asked'
    <2>1. \A g \in Host : \A z \in Range(up'[g]) : z.op = "notify_binding" =>
              z \in Range(up[g]) \/ \E w \in Message : Asks(w, z) /\ Follows(up'[g], z, w)
      BY <1>2
    <2> QED BY <1>1, <1>2, <2>1, AskedAtHost
  <1>4. OneUnbind'
    <2>1. \A z \in Sent' : z.op \in {"unbind_cluster", "unbind_cluster_process"} => z \in Sent
      BY <1>2
    <2> QED BY <1>1, <2>1, OneUnbindRests
  <1> QED BY <1>3, <1>4

-----------------------------------------------------------------------------
(* The steps of a host. *)

LEMMA HostedAt ==
    ASSUME CoreInv, NEW m \in Mig, Busy(m), NEW c \in Cid, Present(c),
           mig[m].phase = "run" => mig[m].new # c, mig[m].phase = "remove" => mig[m].old # c
    PROVE  c \in hosted[clusters[c]] /\ c \in crew /\ clusters[c] \in Host
  <1>1. RootTypes /\ InTurn /\ Hosted
    BY CoreIs
  <1>2. \A n \in Mig : mig[n].phase \in {"run", "remove"} => n = m
    <2>1. \A n \in Mig : mig[n].phase \in {"run", "remove"} => Busy(n)
      BY DEF Busy
    <2> QED BY <1>1, <2>1, OneBusy
  <1>3. clusters[c] \in Host
    BY <1>1 DEF RootTypes, Present
  <1> QED BY <1>1, <1>2, <1>3 DEF Hosted

LEMMA ToWorkerIs ==
    ASSUME HostTypes, NEW c \in Cid, NEW command \in {"bind", "unbind"}, NEW uid \in Cid,
           ToWorker(c, command, uid)
    PROVE  ipc' \in [Cid -> Seq(Command)]
  <1>1. ipc \in [Cid -> Seq(Command)]
    BY DEF HostTypes
  <1>2. PICK y \in Command : y = [cmd |-> command, uid |-> uid]
    BY DEF Command
  <1>3. Append(ipc[c], y) \in Seq(Command)
    BY <1>1
  <1>4. ipc' = ipc \/ ipc' = [ipc EXCEPT ![c] = Append(@, y)]
    BY <1>2 DEF ToWorker
  <1> QED BY <1>1, <1>3, <1>4

LEMMA CoreGetClusters ==
    ASSUME CoreInv, NEW h \in Host, GetClusters(h)
    PROVE  CoreInv'
  <1>1. PICK x : x = Head(down[h])
    OBVIOUS
  <1>2. PICK y : y = [op |-> "clusters", m |-> x.m, workers |-> mig[x.m].old \in hosted[h] \cap crew]
    OBVIOUS
  <1>3. /\ down[h] # <<>> /\ x.op = "get_clusters" /\ down' = [down EXCEPT ![h] = Tail(@)]
        /\ up' = [up EXCEPT ![h] = @ \o <<y>>]
        /\ UNCHANGED <<rootVars, hostVars, ipc, workerVars>>
    BY <1>1, <1>2 DEF GetClusters, FromRoot, Pop, Answer
  <1>4. /\ RootTypes /\ up \in Queues /\ down \in Queues /\ Once /\ ChannelInv /\ ChannelTypes
        /\ \A n \in Mig : Ends(n)
        /\ Hosted /\ Entered
    BY CoreIs
  <1>5. x \in Message /\ x.m \in Mig /\ Timely(x) /\ Called(h, x)
    BY <1>1, <1>3, <1>4, Arrived
  <1>6. PICK m \in Mig : m = x.m
    BY <1>5
  <1>7. mig[m].phase = "collect" /\ h = mig[m].src
    BY <1>3, <1>5, <1>6, KindIs DEF Timely, Called
  <1>8. Busy(m)
    BY <1>7 DEF Busy
  <1>9. mig[m].old \in Cid /\ clusters[mig[m].old] = h
    BY <1>4, <1>7, <1>8 DEF Ends, RootTypes, Migrating
  <1>10. mig[m].old \in hosted[h] \cap crew
    <2>1. Present(mig[m].old)
      BY <1>9, IdsAreNumbers DEF Present
    <2> QED BY <1>7, <1>8, <1>9, <2>1, HostedAt
  <1>11. y = [op |-> "clusters", m |-> m, workers |-> TRUE]
    BY <1>2, <1>6, <1>10
  <1>12. y \in Message
    BY <1>11, MessagesAre
  <1>13. y.op = "clusters" /\ y.m = m /\ y.workers
    BY <1>11
  <1>14. Kind(y.op) = "collect" /\ Kind(x.op) = "collect"
    BY <1>3, <1>13, KindIs
  <1>15. Label(y) = Label(x)
    BY <1>3, <1>6, <1>13, <1>14 DEF Label, PairOps, BindOps, UnbindOps
  <1>16. Answers(h, {y})
    BY <1>1, <1>3, <1>4, <1>12, <1>15, AnswersOne
  <1>17. Fits(h, {y})
    <2>1. Timely(y)
      BY <1>7, <1>13, <1>14 DEF Timely
    <2>2. Answered(h, y)'
      BY <1>13 DEF Answered
    <2>3. \A g, z : Answered(g, z)' <=> Answered(g, z)
      BY <1>3 DEF Answered, rootVars, hostVars
    <2> QED BY <1>14, <2>1, <2>2, <2>3 DEF Fits
  <1>18. HostTypes'
    BY <1>3, <1>4 DEF HostTypes, ChannelTypes, hostVars, workerVars
  <1>19. RootInv' /\ ChannelInv'
    BY <1>3, <1>12, <1>16, <1>17, <1>18, HostKeeps
  <1>20. Asked' /\ OneUnbind'
    BY <1>13, <1>16, HostReplies
  <1>21. Hosted' /\ Entered'
    BY <1>3, <1>4, HostedRests, EnteredRests DEF hostVars
  <1> QED BY <1>19, <1>20, <1>21 DEF CoreInv

LEMMA CoreRunCluster ==
    ASSUME CoreInv, NEW h \in Host, RunCluster(h)
    PROVE  CoreInv'
  <1>1. PICK x : x = Head(down[h])
    OBVIOUS
  <1>2. PICK y : y = [op |-> "ran", m |-> x.m]
    OBVIOUS
  <1>3. /\ down[h] # <<>> /\ x.op = "run_cluster" /\ down' = [down EXCEPT ![h] = Tail(@)]
        /\ up' = [up EXCEPT ![h] = @ \o <<y>>]
        /\ hosted' = [hosted EXCEPT ![h] = @ \cup {x.cid}]
        /\ crew' = IF x.workers THEN crew \cup {x.cid} ELSE crew
        /\ UNCHANGED <<rootVars, known, from_nodes, ipc, workerVars>>
    BY <1>1, <1>2 DEF RunCluster, FromRoot, Pop, Answer
  <1>4. /\ RootTypes /\ InTurn /\ up \in Queues /\ down \in Queues /\ Once /\ ChannelInv
        /\ ChannelTypes /\ \A n \in Mig : Ends(n)
        /\ Hosted /\ Entered
    BY CoreIs
  <1>5. x \in Message /\ x.m \in Mig /\ Timely(x) /\ Called(h, x)
    BY <1>1, <1>3, <1>4, Arrived
  <1>6. PICK m \in Mig : m = x.m
    BY <1>5
  <1>7. mig[m].phase = "run" /\ h = mig[m].dest /\ x.workers /\ x.cid = mig[m].new
    BY <1>3, <1>5, <1>6, KindIs DEF Timely, Called
  <1>8. Busy(m) /\ Begun(m)
    BY <1>7 DEF Busy, Begun
  <1>9. PICK new \in Cid : new = mig[m].new /\ clusters[new] = h
    BY <1>4, <1>7, <1>8 DEF Ends, RootTypes, Migrating
  <1>10. hosted \in [Host -> SUBSET Cid] /\ crew \subseteq Cid
    BY <1>4 DEF ChannelTypes
  <1>11. /\ hosted'[h] = hosted[h] \cup {new} /\ \A g \in Host : g # h => hosted'[g] = hosted[g]
         /\ crew' = crew \cup {new} /\ hosted' \in [Host -> SUBSET Cid]
    BY <1>3, <1>7, <1>9, <1>10
  <1>12. y \in Message
    BY <1>2, <1>6, MessagesAre
  <1>13. y.op = "ran" /\ y.m = m
    BY <1>2, <1>6
  <1>14. Kind(y.op) = "run" /\ Kind(x.op) = "run"
    BY <1>3, <1>13, KindIs
  <1>15. Label(y) = Label(x)
    BY <1>3, <1>6, <1>13, <1>14 DEF Label, PairOps, BindOps, UnbindOps
  <1>16. Answers(h, {y})
    BY <1>1, <1>3, <1>4, <1>12, <1>15, AnswersOne
  <1>17. Fits(h, {y})
    <2>1. Timely(y)
      BY <1>7, <1>13, <1>14 DEF Timely
    <2>2. Answered(h, y)'
      <3>1. mig'[y.m].new = new /\ mig'[y.m].dest = h
        BY <1>3, <1>7, <1>9, <1>13 DEF rootVars
      <3>2. new \in hosted'[h] \cap crew'
        BY <1>11
      <3> QED BY <1>13, <3>1, <3>2 DEF Answered
    <2>3. ASSUME NEW g \in Host, NEW z \in Range(up[g]), Timely(z), Answered(g, z)
          PROVE  Answered(g, z)'
      <3>1. z \in Message
        BY <1>4, SentIs
      <3>2. z.m = m => Kind(z.op) \in {"run", "notify_binding", "unbind_cluster_process"}
        BY <1>4, <1>7, <1>8, <2>3, <3>1, Speaks, KindIs
      <3>3. z.op # "removed"
        <4>1. z.op = "removed" => Kind(z.op) = "remove" /\ z.op # "unbind_cluster_process"
          BY KindIs
        <4>2. z.op = "removed" => z.m = m
          BY <1>4, <1>8, <2>3, <3>1, <4>1, Speaks
        <4> QED BY <3>2, <4>1, <4>2
      <3>4. z.op = "ran" => z.m \in Mig /\ mig[z.m].dest \in Host
        <4>1. z.op = "ran" => z.m = m
          BY <1>4, <1>8, <2>3, <3>1, Speaks
        <4> QED BY <1>7, <4>1
      <3>5. UNCHANGED <<mig, clusters>>
        BY <1>3 DEF rootVars
      <3>6. z.op = "ran" => mig[z.m].new \in hosted'[mig[z.m].dest] \cap crew'
        BY <1>11, <2>3, <3>4 DEF Answered
      <3> QED BY <2>3, <3>3, <3>5, <3>6 DEF Answered
    <2> QED BY <1>14, <1>1, <1>15, <2>1, <2>2, <2>3 DEF Fits
  <1>18. HostTypes'
    BY <1>3, <1>4, <1>10, <1>11 DEF HostTypes, ChannelTypes, workerVars
  <1>19. RootInv' /\ ChannelInv'
    BY <1>3, <1>12, <1>16, <1>17, <1>18, HostKeeps
  <1>20. Asked' /\ OneUnbind'
    BY <1>13, <1>16, HostReplies
  <1>21. Entered'
    BY <1>3, <1>4, EnteredRests
  <1>22. Hosted'
    <2>1. UNCHANGED <<mig, clusters>>
      BY <1>3 DEF rootVars
    <2>2. \A g \in Host : \A c \in hosted'[g] : clusters[c] = g
      BY <1>4, <1>9, <1>11 DEF Hosted
    <2>3. \A g \in Host : hosted[g] \subseteq hosted'[g]
      BY <1>11
    <2>4. \A c \in Cid : Present(c) => clusters[c] \in Host
      BY <1>4 DEF RootTypes, Present
    <2> QED BY <1>4, <1>11, <2>1, <2>2, <2>3, <2>4 DEF Hosted, Present
  <1> QED BY <1>19, <1>20, <1>21, <1>22 DEF CoreInv

LEMMA CoreRemoveCluster ==
    ASSUME CoreInv, NEW h \in Host, RemoveCluster(h)
    PROVE  CoreInv'
  <1>1. PICK x : x = Head(down[h])
    OBVIOUS
  <1>2. PICK y : y = [op |-> "removed", m |-> x.m]
    OBVIOUS
  <1>3. /\ down[h] # <<>> /\ x.op = "remove_cluster" /\ down' = [down EXCEPT ![h] = Tail(@)]
        /\ up' = [up EXCEPT ![h] = @ \o <<y>>]
        /\ hosted' = [hosted EXCEPT ![h] = @ \ {x.cid}]
        /\ UNCHANGED <<rootVars, crew, known, from_nodes, ipc, workerVars>>
    BY <1>1, <1>2 DEF RemoveCluster, FromRoot, Pop, Answer
  <1>4. /\ RootTypes /\ InTurn /\ up \in Queues /\ down \in Queues /\ Once /\ ChannelInv
        /\ ChannelTypes /\ \A n \in Mig : Ends(n)
        /\ Hosted /\ Entered
    BY CoreIs
  <1>5. x \in Message /\ x.m \in Mig /\ Timely(x) /\ Called(h, x)
    BY <1>1, <1>3, <1>4, Arrived
  <1>6. PICK m \in Mig : m = x.m
    BY <1>5
  <1>7. mig[m].phase = "remove" /\ h = mig[m].src /\ x.cid = mig[m].old
    BY <1>3, <1>5, <1>6, KindIs DEF Timely, Called
  <1>8. Busy(m) /\ Begun(m)
    BY <1>7 DEF Busy, Begun
  <1>9. PICK old \in Cid : old = mig[m].old
    BY <1>4 DEF RootTypes, Migrating
  <1>10. hosted \in [Host -> SUBSET Cid] /\ crew \subseteq Cid
    BY <1>4 DEF ChannelTypes
  <1>11. /\ hosted'[h] = hosted[h] \ {old} /\ \A g \in Host : g # h => hosted'[g] = hosted[g]
         /\ hosted' \in [Host -> SUBSET Cid]
    BY <1>3, <1>7, <1>9, <1>10
  <1>12. y \in Message
    BY <1>2, <1>6, MessagesAre
  <1>13. y.op = "removed" /\ y.m = m
    BY <1>2, <1>6
  <1>14. Kind(y.op) = "remove" /\ Kind(x.op) = "remove"
    BY <1>3, <1>13, KindIs
  <1>15. Label(y) = Label(x)
    BY <1>3, <1>6, <1>13, <1>14 DEF Label, PairOps, BindOps, UnbindOps
  <1>16. Answers(h, {y})
    BY <1>1, <1>3, <1>4, <1>12, <1>15, AnswersOne
  <1>17. Fits(h, {y})
    <2>1. Timely(y)
      BY <1>7, <1>13, <1>14 DEF Timely
    <2>2. Answered(h, y)'
      <3>1. mig'[y.m].old = old /\ mig'[y.m].src = h
        BY <1>3, <1>7, <1>9, <1>13 DEF rootVars
      <3>2. old \notin hosted'[h]
        BY <1>11
      <3> QED BY <1>13, <3>1, <3>2 DEF Answered
    <2>3. ASSUME NEW g \in Host, NEW z \in Range(up[g]), Timely(z), Answered(g, z)
          PROVE  Answered(g, z)'
      <3>1. z \in Message
        BY <1>4, SentIs
      <3>2. z.op # "ran"
        <4>1. z.op = "ran" => Kind(z.op) = "run" /\ z.op \notin {"unbind_cluster_process", "notify_binding"}
          BY KindIs
        <4>2. z.op = "ran" => z.m = m
          BY <1>4, <1>8, <2>3, <3>1, <4>1, Speaks
        <4>3. z.op = "ran" => Kind(z.op) = mig[m].phase
          BY <1>4, <1>8, <2>3, <3>1, <4>1, <4>2, Speaks
        <4> QED BY <1>7, <4>1, <4>3
      <3>3. z.op = "removed" => mig[z.m].old \notin hosted'[mig[z.m].src]
        <4>1. z.op = "removed" => z.m = m
          BY <1>4, <1>8, <2>3, <3>1, Speaks
        <4> QED BY <1>7, <1>9, <1>11, <4>1
      <3>4. UNCHANGED <<mig, clusters>>
        BY <1>3 DEF rootVars
      <3> QED BY <2>3, <3>2, <3>3, <3>4 DEF Answered
    <2> QED BY <1>14, <1>1, <1>15, <2>1, <2>2, <2>3 DEF Fits
  <1>18. HostTypes'
    BY <1>3, <1>4, <1>10, <1>11 DEF HostTypes, ChannelTypes, workerVars
  <1>19. RootInv' /\ ChannelInv'
    BY <1>3, <1>12, <1>16, <1>17, <1>18, HostKeeps
  <1>20. Asked' /\ OneUnbind'
    BY <1>13, <1>16, HostReplies
  <1>21. Entered'
    BY <1>3, <1>4, EnteredRests
  <1>22. Hosted'
    <2>1. UNCHANGED <<mig, clusters, crew>>
      BY <1>3 DEF rootVars
    <2>2. \A g \in Host : \A c \in hosted'[g] : clusters[c] = g
      BY <1>4, <1>11 DEF Hosted
    <2>3. ASSUME NEW c \in Cid, Present(c)
          PROVE  \/ c \in hosted'[clusters[c]] \cap crew
                 \/ \E n \in Mig : mig[n].phase = "run" /\ mig[n].new = c
                 \/ \E n \in Mig : mig[n].phase = "remove" /\ mig[n].old = c
      <3>1. CASE c = old
        BY <1>7, <1>9, <3>1
      <3>2. CASE c # old
        <4>1. c \in hosted[clusters[c]] => c \in hosted'[clusters[c]]
          <5>1. clusters[c] \in Host
            BY <1>4, <2>3 DEF RootTypes, Present
          <5> QED BY <1>11, <3>2, <5>1
        <4> QED BY <1>4, <2>3, <4>1 DEF Hosted
      <3> QED BY <3>1, <3>2
    <2> QED BY <2>1, <2>2, <2>3 DEF Hosted, Present
  <1> QED BY <1>19, <1>20, <1>21, <1>22 DEF CoreInv

LEMMA TwoMessages ==
    ASSUME NEW a \in Message, NEW b \in Message, Label(a) # Label(b)
    PROVE  /\ <<a, b>> \in Seq(Message) /\ Range(<<a, b>>) = {a, b}
           /\ Distinct(<<a, b>>) /\ Follows(<<a, b>>, a, b)
  <1>1. /\ <<a, b>> \in Seq(Message) /\ DOMAIN <<a, b>> = {1, 2}
        /\ <<a, b>>[1] = a /\ <<a, b>>[2] = b
    OBVIOUS
  <1>2. PICK s \in Seq(Message) : s = <<a, b>>
    BY <1>1
  <1>3. DOMAIN s = {1, 2} /\ s[1] = a /\ s[2] = b
    BY <1>1, <1>2
  <1>4. Range(s) = {a, b}
    BY <1>3 DEF Range
  <1>5. Distinct(s)
    BY <1>3 DEF Distinct
  <1>6. Follows(s, a, b)
    <2>1. 1 < 2
      OBVIOUS
    <2> QED BY <1>3, <2>1 DEF Follows
  <1> QED BY <1>1, <1>2, <1>4, <1>5, <1>6

LEMMA CoreBindCluster ==
    ASSUME CoreInv, NEW h \in Host, BindCluster(h)
    PROVE  CoreInv'
  <1>1. PICK x : x = Head(down[h])
    OBVIOUS
  <1>2. PICK a : a = [op |-> "notify_binding", m |-> x.m, from |-> x.from, to |-> x.to,
                      node |-> h, dst |-> x.node]
    OBVIOUS
  <1>3. PICK b : b = [op |-> "get_workers", m |-> x.m, from |-> x.from, to |-> x.to,
                      node |-> h, dst |-> x.node]
    OBVIOUS
  <1>4. /\ down[h] # <<>> /\ x.op = "bind_cluster" /\ down' = [down EXCEPT ![h] = Tail(@)]
        /\ up' = [up EXCEPT ![h] = @ \o <<a, b>>]
        /\ known' = [known EXCEPT ![h] = @ \cup {x.from}]
        /\ UNCHANGED <<rootVars, hosted, crew, from_nodes, ipc, workerVars>>
    BY <1>1, <1>2, <1>3 DEF BindCluster, FromRoot, Pop, Answer
  <1>5. /\ RootTypes /\ up \in Queues /\ down \in Queues /\ Once /\ ChannelInv /\ ChannelTypes
        /\ Hosted /\ Entered /\ Asked /\ OneUnbind
    BY CoreIs
  <1>6. x \in Message /\ x \in Sent /\ x.m \in Mig /\ Timely(x) /\ Called(h, x)
    BY <1>1, <1>4, <1>5, Arrived
  <1>7. x.from \in Cid /\ x.to \in Cid /\ x.node \in Host
    BY <1>4, <1>6, MessageIs DEF PairOps, BindOps
  <1>8. Kind(x.op) = "bind"
    BY <1>4, KindIs DEF BindOps
  <1>9. /\ mig[x.m].phase = "bind" /\ Pair(x) \in NewPairs(x.m)
        /\ h = clusters[x.from] /\ x.node = clusters[x.to]
    BY <1>4, <1>6, <1>8 DEF Timely, Called
  <1>10. a \in Message /\ b \in Message
    BY <1>2, <1>3, <1>6, <1>7, MessagesAre
  <1>11. /\ a.op = "notify_binding" /\ a.m = x.m /\ a.from = x.from /\ a.to = x.to /\ a.node = h
         /\ a.dst = x.node
         /\ b.op = "get_workers" /\ b.m = x.m /\ b.from = x.from /\ b.to = x.to /\ b.node = h
         /\ b.dst = x.node
    BY <1>2, <1>3
  <1>12. /\ Kind(a.op) = "notify_binding" /\ Kind(b.op) = "bind"
         /\ a.op \in PairOps /\ b.op \in PairOps /\ x.op \in PairOps
    BY <1>4, <1>11, KindIs DEF PairOps, BindOps
  <1>13. Label(b) = Label(x) /\ Label(a) # Label(b)
    BY <1>6, <1>8, <1>10, <1>11, <1>12, LabelIs
  <1>14. \A z \in Sent : Label(z) # Label(a)
    <2> SUFFICES ASSUME NEW z \in Sent, Label(z) = Label(a) PROVE FALSE
      OBVIOUS
    <2>1. z \in Message
      BY <1>5, SentIs
    <2>2. Kind(z.op) = "notify_binding" /\ z.m = x.m /\ z.from = x.from /\ z.to = x.to
      BY <1>10, <1>11, <1>12, <2>1, LabelIs
    <2>3. z.op = "notify_binding"
      BY <2>1, <2>2, MessageIs, OpsAre
    <2>4. PICK w \in Sent : Asks(w, z)
      BY <1>5, <2>3, ToldIsAsked
    <2>5. w \in Message /\ w.op = "get_workers" /\ w.m = x.m /\ w.from = x.from /\ w.to = x.to
      BY <1>5, <2>2, <2>4, SentIs DEF Asks
    <2>6. Kind(w.op) = "bind" /\ w.op \in PairOps
      BY <2>5, KindIs DEF PairOps, BindOps
    <2>7. Label(w) = Label(x)
      BY <1>6, <1>8, <2>5, <2>6, LabelIs
    <2>8. w = x
      BY <1>5, <1>6, <2>7, OneOfLabel
    <2> QED BY <1>4, <2>5, <2>8
  <1>15. PICK msgs \in Seq(Message) :
             /\ Range(msgs) = {a, b} /\ Distinct(msgs) /\ Follows(msgs, a, b)
             /\ up' = [up EXCEPT ![h] = @ \o msgs]
    BY <1>4, <1>10, <1>13, TwoMessages
  <1>16. Novel(Head(down[h]), Range(msgs))
    BY <1>1, <1>13, <1>14, <1>15 DEF Novel
  <1>17. Answers(h, {a, b})
    <2>1. Answers(h, Range(msgs))
      BY <1>4, <1>5, <1>15, <1>16, AnswersIs
    <2> QED BY <1>15, <2>1
  <1>18. Fits(h, {a, b})
    <2>1. Pair(a) = Pair(x) /\ Pair(b) = Pair(x)
      BY <1>11 DEF Pair
    <2>2. Timely(a) /\ Timely(b)
      BY <1>9, <1>11, <1>12, <2>1 DEF Timely
    <2>3. \A g, z : Answered(g, z)' <=> Answered(g, z)
      BY <1>4 DEF Answered, rootVars
    <2>4. Answered(h, a) /\ Answered(h, b)
      BY <1>9, <1>11 DEF Answered
    <2> QED BY <1>1, <1>12, <1>13, <2>2, <2>3, <2>4 DEF Fits
  <1>19. HostTypes'
    <2>1. known' \in [Host -> SUBSET Cid]
      BY <1>4, <1>5, <1>7 DEF ChannelTypes
    <2> QED BY <1>4, <1>5, <2>1 DEF HostTypes, ChannelTypes, workerVars
  <1>20. RootInv' /\ ChannelInv'
    BY <1>4, <1>10, <1>17, <1>18, <1>19, HostKeeps
  <1>21. Hosted' /\ Entered'
    BY <1>4, <1>5, HostedRests, EnteredRests
  <1>22. /\ down' = [down EXCEPT ![h] = Tail(@)]
         /\ up' \in Queues /\ down' \in Queues
         /\ Sent' = (Sent \ {Head(down[h])}) \cup {a, b}
         /\ \A g \in Host : \A y \in Range(up'[g]) : y \in Range(up[g]) \/ (g = h /\ y \in {a, b})
         /\ Grows(up, up') /\ Carried(up) \subseteq Carried(up')
    BY <1>17 DEF Answers
  <1>23. Asked'
    <2>1. Follows(up'[h], a, b)
      <3>1. up[h] \in Seq(Message) /\ up'[h] = up[h] \o msgs
        BY <1>5, <1>15 DEF Queues
      <3>2. Follows(up[h] \o msgs, a, b)
        BY <1>15, <3>1, FollowsIs
      <3> QED BY <3>1, <3>2
    <2>2. Asks(b, a)
      BY <1>11 DEF Asks
    <2>3. \A g \in Host : \A z \in Range(up'[g]) : z.op = "notify_binding" =>
              z \in Range(up[g]) \/ \E w \in Message : Asks(w, z) /\ Follows(up'[g], z, w)
      BY <1>10, <1>11, <1>22, <2>1, <2>2
    <2> QED BY <1>4, <1>5, <1>22, <2>3, AskedAtHost
  <1>24. OneUnbind'
    <2>1. \A z \in Sent' : z.op \in {"unbind_cluster", "unbind_cluster_process"} => z \in Sent
      BY <1>11, <1>22
    <2> QED BY <1>5, <2>1, OneUnbindRests
  <1> QED BY <1>20, <1>21, <1>23, <1>24 DEF CoreInv

LEMMA CoreNotifyBinding ==
    ASSUME CoreInv, NEW h \in Host, NotifyBinding(h)
    PROVE  CoreInv'
  <1>1. PICK x : x = Head(down[h])
    OBVIOUS
  <1>2. PICK e : e = [to |-> x.to, from |-> x.from, node |-> x.node]
    OBVIOUS
  <1>3. /\ down[h] # <<>> /\ x.op = "notify_binding" /\ down' = [down EXCEPT ![h] = Tail(@)]
        /\ known' = [known EXCEPT ![h] = @ \cup {x.to}]
        /\ from_nodes' = [from_nodes EXCEPT ![h] = @ \cup {e}]
        /\ UNCHANGED <<rootVars, hosted, crew, up, ipc, workerVars>>
    BY <1>1, <1>2 DEF NotifyBinding, FromRoot, Pop
  <1>4. /\ RootTypes /\ Alive /\ Linked /\ \A n \in Mig : Recorded(n)
        /\ up \in Queues /\ down \in Queues /\ Once /\ ChannelInv /\ ChannelTypes
        /\ Hosted /\ Entered
    BY CoreIs
  <1>5. x \in Message /\ x.m \in Mig /\ Timely(x) /\ Called(h, x)
    BY <1>1, <1>3, <1>4, Arrived
  <1>6. x.from \in Cid /\ x.to \in Cid /\ x.node \in Host
    BY <1>3, <1>5, MessageIs DEF PairOps
  <1>7. mig[x.m].phase = "bind" /\ Pair(x) \in NewPairs(x.m) /\ x.node = clusters[x.from]
    BY <1>3, <1>5, KindIs DEF Timely, Called
  <1>8. x.from < cluster_id
    <2>1. Pair(x) \in Bindings /\ Pair(x).from = x.from
      BY <1>4, <1>5, <1>7 DEF Recorded, Pair
    <2>2. Present(x.from)
      BY <1>4, <2>1 DEF Linked
    <2>3. ~ (x.from >= cluster_id) /\ x.from \in Nat /\ cluster_id \in Nat
      BY <1>4, <1>6, <2>2, IdsAreNumbers DEF Alive, RootTypes
    <2> QED BY <2>3
  <1>9. /\ known' \in [Host -> SUBSET Cid]
        /\ \A g \in Host : from_nodes'[g] \subseteq [to : Cid, from : Cid, node : Host]
        /\ \A g \in Host : \A n \in from_nodes'[g] : n \in from_nodes[g] \/ n = e
        /\ e.from = x.from /\ e.node = x.node
    <2>1. known' \in [Host -> SUBSET Cid]
      BY <1>3, <1>4, <1>6 DEF ChannelTypes
    <2>2. e \in [to : Cid, from : Cid, node : Host] /\ e.from = x.from /\ e.node = x.node
      BY <1>2, <1>6
    <2>3. \A g \in Host : \A n \in from_nodes'[g] : n \in from_nodes[g] \/ n = e
      BY <1>3
    <2>4. \A g \in Host : from_nodes[g] \subseteq [to : Cid, from : Cid, node : Host]
      BY <1>4 DEF ChannelTypes
    <2> QED BY <2>1, <2>2, <2>3, <2>4
  <1>10. HostTypes'
    BY <1>3, <1>4, <1>9 DEF HostTypes, ChannelTypes, workerVars
  <1>11. Answers(h, {}) /\ {} \in SUBSET Message
    BY <1>3, <1>4, AnswersNone
  <1>12. Fits(h, {})
    BY <1>3 DEF Fits, Answered, rootVars
  <1>13. RootInv' /\ ChannelInv'
    BY <1>3, <1>10, <1>11, <1>12, HostKeeps
  <1>14. Asked' /\ OneUnbind'
    BY <1>11, HostReplies
  <1>15. Hosted'
    BY <1>3, <1>4, HostedRests
  <1>16. Entered'
    BY <1>3, <1>4, <1>7, <1>8, <1>9 DEF Entered, Present, rootVars
  <1> QED BY <1>13, <1>14, <1>15, <1>16 DEF CoreInv

LEMMA CoreGetWorkers ==
    ASSUME CoreInv, NEW h \in Host, GetWorkers(h)
    PROVE  CoreInv'
  <1>1. PICK x : x = Head(down[h])
    OBVIOUS
  <1>2. PICK y : y = [op |-> "workers", m |-> x.m, from |-> x.from, to |-> x.to,
                      found |-> x.to \in hosted[h] \cap crew, dst |-> x.node]
    OBVIOUS
  <1>3. /\ down[h] # <<>> /\ x.op = "get_workers" /\ down' = [down EXCEPT ![h] = Tail(@)]
        /\ up' = [up EXCEPT ![h] = @ \o <<y>>]
        /\ UNCHANGED <<rootVars, hostVars, ipc, workerVars>>
    BY <1>1, <1>2 DEF GetWorkers, FromRoot, Pop, Answer
  <1>4. /\ RootTypes /\ Linked /\ \A n \in Mig : Recorded(n)
        /\ up \in Queues /\ down \in Queues /\ Once /\ ChannelInv /\ ChannelTypes
        /\ Hosted /\ Entered
    BY CoreIs
  <1>5. x \in Message /\ x.m \in Mig /\ Timely(x) /\ Called(h, x)
    BY <1>1, <1>3, <1>4, Arrived
  <1>6. x.from \in Cid /\ x.to \in Cid /\ x.node \in Host
    BY <1>3, <1>5, MessageIs DEF PairOps, BindOps
  <1>7. Kind(x.op) = "bind"
    BY <1>3, KindIs DEF BindOps
  <1>8. /\ mig[x.m].phase = "bind" /\ Pair(x) \in NewPairs(x.m)
        /\ h = clusters[x.to] /\ x.node = clusters[x.from]
    BY <1>3, <1>5, <1>7 DEF Timely, Called
  <1>9. x.to \in hosted[h] \cap crew
    <2>1. Pair(x) \in Bindings /\ Pair(x).to = x.to
      BY <1>4, <1>5, <1>8 DEF Recorded, Pair
    <2>2. Present(x.to)
      BY <1>4, <2>1 DEF Linked
    <2>3. Busy(x.m)
      BY <1>8 DEF Busy
    <2> QED BY <1>5, <1>6, <1>8, <2>2, <2>3, HostedAt
  <1>10. y = [op |-> "workers", m |-> x.m, from |-> x.from, to |-> x.to, found |-> TRUE,
              dst |-> x.node]
    BY <1>2, <1>9
  <1>11. y \in Message
    BY <1>5, <1>6, <1>10, MessagesAre
  <1>12. /\ y.op = "workers" /\ y.m = x.m /\ y.from = x.from /\ y.to = x.to /\ y.found
         /\ y.dst = x.node
    BY <1>10
  <1>13. Kind(y.op) = "bind" /\ y.op \in PairOps /\ x.op \in PairOps
    BY <1>3, <1>12, KindIs DEF PairOps, BindOps
  <1>14. Label(y) = Label(x)
    BY <1>5, <1>7, <1>11, <1>12, <1>13, LabelIs
  <1>15. Answers(h, {y})
    BY <1>1, <1>3, <1>4, <1>11, <1>14, AnswersOne
  <1>16. Fits(h, {y})
    <2>1. Pair(y) = Pair(x)
      BY <1>12 DEF Pair
    <2>2. Timely(y)
      BY <1>8, <1>12, <1>13, <2>1 DEF Timely
    <2>3. \A g, z : Answered(g, z)' <=> Answered(g, z)
      BY <1>3 DEF Answered, rootVars, hostVars
    <2>4. Answered(h, y)
      BY <1>8, <1>12 DEF Answered
    <2> QED BY <1>1, <1>14, <2>2, <2>3, <2>4 DEF Fits
  <1>17. HostTypes'
    BY <1>3, <1>4 DEF HostTypes, ChannelTypes, hostVars, workerVars
  <1>18. RootInv' /\ ChannelInv'
    BY <1>3, <1>11, <1>15, <1>16, <1>17, HostKeeps
  <1>19. Asked' /\ OneUnbind'
    BY <1>12, <1>15, HostReplies
  <1>20. Hosted' /\ Entered'
    BY <1>3, <1>4, HostedRests, EnteredRests DEF hostVars
  <1> QED BY <1>18, <1>19, <1>20 DEF CoreInv

LEMMA CoreGotWorkers ==
    ASSUME CoreInv, NEW h \in Host, GotWorkers(h)
    PROVE  CoreInv'
  <1>1. PICK x : x = Head(down[h])
    OBVIOUS
  <1>2. PICK y : y = [op |-> "bound", m |-> x.m, from |-> x.from, to |-> x.to]
    OBVIOUS
  <1>3. /\ down[h] # <<>> /\ x.op = "workers" /\ down' = [down EXCEPT ![h] = Tail(@)]
        /\ x.found /\ x.from \in hosted[h] =>
               ToWorker(x.from, "bind", x.to) /\ up' = [up EXCEPT ![h] = @ \o <<y>>]
        /\ UNCHANGED <<rootVars, hostVars, workerVars>>
    BY <1>1, <1>2 DEF GotWorkers, FromRoot, Pop, Answer
  <1>4. /\ RootTypes /\ Linked /\ \A n \in Mig : Recorded(n)
        /\ up \in Queues /\ down \in Queues /\ Once /\ ChannelInv /\ ChannelTypes
        /\ Hosted /\ Entered
    BY CoreIs
  <1>5. x \in Message /\ x.m \in Mig /\ Timely(x) /\ Called(h, x)
    BY <1>1, <1>3, <1>4, Arrived
  <1>6. x.from \in Cid /\ x.to \in Cid
    BY <1>3, <1>5, MessageIs DEF PairOps, BindOps
  <1>7. Kind(x.op) = "bind"
    BY <1>3, KindIs DEF BindOps
  <1>8. /\ mig[x.m].phase = "bind" /\ Pair(x) \in NewPairs(x.m) /\ x.found
        /\ h = clusters[x.from]
    BY <1>3, <1>5, <1>7 DEF Timely, Called
  <1>9. x.from \in hosted[h]
    <2>1. Pair(x) \in Bindings /\ Pair(x).from = x.from
      BY <1>4, <1>5, <1>8 DEF Recorded, Pair
    <2>2. Present(x.from)
      BY <1>4, <2>1 DEF Linked
    <2>3. Busy(x.m)
      BY <1>8 DEF Busy
    <2> QED BY <1>5, <1>6, <1>8, <2>2, <2>3, HostedAt
  <1>10. ToWorker(x.from, "bind", x.to) /\ up' = [up EXCEPT ![h] = @ \o <<y>>]
    BY <1>3, <1>8, <1>9
  <1>11. y \in Message
    BY <1>2, <1>5, <1>6, MessagesAre
  <1>12. y.op = "bound" /\ y.m = x.m /\ y.from = x.from /\ y.to = x.to
    BY <1>2
  <1>13. Kind(y.op) = "bind" /\ y.op \in PairOps /\ x.op \in PairOps
    BY <1>3, <1>12, KindIs DEF PairOps, BindOps
  <1>14. Label(y) = Label(x)
    BY <1>5, <1>7, <1>11, <1>12, <1>13, LabelIs
  <1>15. Answers(h, {y})
    BY <1>1, <1>3, <1>4, <1>10, <1>11, <1>14, AnswersOne
  <1>16. Fits(h, {y})
    <2>1. Pair(y) = Pair(x)
      BY <1>12 DEF Pair
    <2>2. Timely(y)
      BY <1>8, <1>12, <1>13, <2>1 DEF Timely
    <2>3. \A g, z : Answered(g, z)' <=> Answered(g, z)
      BY <1>3 DEF Answered, rootVars, hostVars
    <2>4. Answered(h, y)
      BY <1>12 DEF Answered
    <2> QED BY <1>1, <1>14, <2>2, <2>3, <2>4 DEF Fits
  <1>17. HostTypes'
    <2>1. HostTypes
      BY <1>4, HostTypesAre
    <2>2. ipc' \in [Cid -> Seq(Command)]
      BY <1>6, <1>10, <2>1, ToWorkerIs
    <2> QED BY <1>3, <2>1, <2>2 DEF HostTypes, hostVars, workerVars
  <1>18. RootInv' /\ ChannelInv'
    BY <1>3, <1>11, <1>15, <1>16, <1>17, HostKeeps
  <1>19. Asked' /\ OneUnbind'
    BY <1>12, <1>15, HostReplies
  <1>20. Hosted' /\ Entered'
    BY <1>3, <1>4, HostedRests, EnteredRests DEF hostVars
  <1> QED BY <1>18, <1>19, <1>20 DEF CoreInv

LEMMA CoreUnbindProcess ==
    ASSUME CoreInv, NEW h \in Host, UnbindProcess(h)
    PROVE  CoreInv'
  <1>1. PICK x : x = Head(down[h])
    OBVIOUS
  <1>2. /\ down[h] # <<>> /\ x.op = "unbind_cluster_process" /\ down' = [down EXCEPT ![h] = Tail(@)]
        /\ ToWorker(x.from, "unbind", x.to) \/ UNCHANGED ipc
        /\ UNCHANGED <<rootVars, hostVars, up, workerVars>>
    BY <1>1 DEF UnbindProcess, FromRoot, Pop
  <1>3. /\ up \in Queues /\ down \in Queues /\ Once /\ ChannelInv /\ ChannelTypes
        /\ Hosted /\ Entered
    BY CoreIs
  <1>4. x \in Message
    BY <1>1, <1>2, <1>3, Arrived
  <1>5. x.from \in Cid /\ x.to \in Cid
    BY <1>2, <1>4, MessageIs DEF PairOps
  <1>6. HostTypes'
    <2>1. HostTypes
      BY <1>3, HostTypesAre
    <2>2. ipc' \in [Cid -> Seq(Command)]
      BY <1>2, <1>5, <2>1, ToWorkerIs DEF HostTypes
    <2> QED BY <1>2, <2>1, <2>2 DEF HostTypes, hostVars, workerVars
  <1>7. Answers(h, {}) /\ {} \in SUBSET Message
    BY <1>2, <1>3, AnswersNone
  <1>8. Fits(h, {})
    BY <1>2 DEF Fits, Answered, rootVars, hostVars
  <1>9. RootInv' /\ ChannelInv'
    BY <1>2, <1>6, <1>7, <1>8, HostKeeps
  <1>10. Asked' /\ OneUnbind'
    BY <1>7, HostReplies
  <1>11. Hosted' /\ Entered'
    BY <1>2, <1>3, HostedRests, EnteredRests DEF hostVars
  <1> QED BY <1>9, <1>10, <1>11 DEF CoreInv

LEMMA FirstOfOne == \A g : Cardinality({g}) = 1 /\ SetToSeq({g})[1] = g
  <1> TAKE g
  <1>1. Cardinality({g}) = 1
    BY FS_Singleton
  <1>2. PICK f : f = [i \in 1..1 |-> g]
    OBVIOUS
  <1>3. f \in [1..1 -> {g}] /\ IsInjective(f)
    <2>1. \A i, j \in 1..1 : i = j
      OBVIOUS
    <2> QED BY <1>2, <2>1 DEF IsInjective
  <1>4. SetToSeq({g}) \in [1..1 -> {g}]
    BY <1>1, <1>3 DEF SetToSeq
  <1> QED BY <1>1, <1>4

\* An answer after at most one call.
LEMMA CallAndAnswer ==
    ASSUME NEW c \in Seq(Message), NEW u \in Message, NEW y \in Message,
           Label(u) # Label(y), DOMAIN c \subseteq {1}, \A i \in DOMAIN c : c[i] = u
    PROVE  /\ c \o <<y>> \in Seq(Message) /\ Distinct(c \o <<y>>)
           /\ y \in Range(c \o <<y>>) /\ Range(c \o <<y>>) \subseteq {u, y}
  <1>1. DOMAIN c = 1..Len(c) /\ Len(c) \in Nat
    BY LenProperties
  <1>2. Len(c) = 0 \/ Len(c) = 1
    BY <1>1
  <1>3. c \o <<y>> = Append(c, y)
    OBVIOUS
  <1>4. /\ Append(c, y) \in Seq(Message) /\ Len(Append(c, y)) = Len(c) + 1
        /\ \A i \in 1..Len(c) : Append(c, y)[i] = c[i]
        /\ Append(c, y)[Len(c) + 1] = y
    BY AppendProperties
  <1>5. PICK s \in Seq(Message) : s = Append(c, y)
    BY <1>4
  <1>6. DOMAIN s = 1..(Len(c) + 1)
    BY <1>4, <1>5, LenProperties
  <1>7. CASE Len(c) = 0
    <2>1. DOMAIN s = {1} /\ s[1] = y
      BY <1>4, <1>5, <1>6, <1>7
    <2>2. Distinct(s) /\ y \in Range(s) /\ Range(s) \subseteq {u, y}
      BY <2>1 DEF Distinct, Range
    <2> QED BY <1>3, <1>5, <2>2
  <1>8. CASE Len(c) = 1
    <2>1. DOMAIN s = {1, 2} /\ s[1] = u /\ s[2] = y
      BY <1>1, <1>4, <1>5, <1>6, <1>8
    <2>2. Distinct(s) /\ y \in Range(s) /\ Range(s) \subseteq {u, y}
      BY <2>1 DEF Distinct, Range
    <2> QED BY <1>3, <1>5, <2>2
  <1> QED BY <1>2, <1>7, <1>8

LEMMA CoreUnbindCluster ==
    ASSUME CoreInv, NEW h \in Host, UnbindCluster(h)
    PROVE  CoreInv'
  <1>1. PICK x : x = Head(down[h])
    OBVIOUS
  <1> DEFINE nodes == IF x.to \notin crew THEN {}
                      ELSE {e.node : e \in {e \in from_nodes[h] : e.to = x.to /\ e.from = x.from}}
             calls == [i \in 1..Cardinality(nodes) |->
                         [op |-> "unbind_cluster_process", m |-> x.m, from |-> x.from,
                          to |-> x.to, dst |-> SetToSeq(nodes)[i]]]
  <1>2. PICK y : y = [op |-> "unbound", m |-> x.m, from |-> x.from, to |-> x.to]
    OBVIOUS
  <1>3. PICK u : u = [op |-> "unbind_cluster_process", m |-> x.m, from |-> x.from,
                      to |-> x.to, dst |-> h]
    OBVIOUS
  <1>4. /\ down[h] # <<>> /\ x.op = "unbind_cluster" /\ down' = [down EXCEPT ![h] = Tail(@)]
        /\ up' = [up EXCEPT ![h] = @ \o (calls \o <<y>>)] \/ UNCHANGED up
        /\ UNCHANGED <<rootVars, hostVars, ipc, workerVars>>
    BY <1>1, <1>2 DEF UnbindCluster, FromRoot, Pop, Answer
  <1>5. /\ RootTypes /\ Linked /\ \A n \in Mig : Recorded(n)
        /\ up \in Queues /\ down \in Queues /\ Once /\ ChannelInv /\ ChannelTypes
        /\ Hosted /\ Entered /\ Asked /\ OneUnbind
    BY CoreIs
  <1>6. x \in Message /\ x \in Sent /\ x.m \in Mig /\ Timely(x) /\ Called(h, x)
    BY <1>1, <1>4, <1>5, Arrived
  <1>7. x.from \in Cid /\ x.to \in Cid
    BY <1>4, <1>6, MessageIs DEF PairOps, UnbindOps
  <1>8. Kind(x.op) = "unbind"
    BY <1>4, KindIs DEF UnbindOps
  <1>9. mig[x.m].phase = "unbind" /\ Pair(x) \in OldPairs(x.m) /\ h = clusters[x.from]
    BY <1>4, <1>6, <1>8 DEF Timely, Called
  <1>10. nodes \subseteq {h}
    <2>1. Present(x.from)
      BY <1>5, <1>6, <1>9 DEF Recorded, Pair
    <2>2. \A e \in from_nodes[h] : e.from = x.from => e.node = h
      BY <1>5, <1>9, <2>1 DEF Entered
    <2> QED BY <2>2
  <1>11. y \in Message /\ u \in Message
    BY <1>2, <1>3, <1>6, <1>7, MessagesAre
  <1>12. /\ y.op = "unbound" /\ y.m = x.m /\ y.from = x.from /\ y.to = x.to
         /\ u.op = "unbind_cluster_process" /\ u.m = x.m /\ u.from = x.from /\ u.to = x.to
         /\ u.dst = h
    BY <1>2, <1>3
  <1>13. /\ Kind(y.op) = "unbind" /\ Kind(u.op) = "unbind_cluster_process"
         /\ y.op \in PairOps /\ u.op \in PairOps /\ x.op \in PairOps
    BY <1>4, <1>12, KindIs DEF PairOps, UnbindOps
  <1>14. Label(y) = Label(x) /\ Label(u) # Label(y)
    BY <1>6, <1>8, <1>11, <1>12, <1>13, LabelIs
  <1>15. \A z \in Sent : Label(z) # Label(u)
    <2> SUFFICES ASSUME NEW z \in Sent, Label(z) = Label(u) PROVE FALSE
      OBVIOUS
    <2>1. z \in Message
      BY <1>5, SentIs
    <2>2. Kind(z.op) = "unbind_cluster_process" /\ z.m = x.m /\ z.from = x.from /\ z.to = x.to
      BY <1>11, <1>12, <1>13, <2>1, LabelIs
    <2>3. z.op = "unbind_cluster_process"
      BY <2>1, <2>2, MessageIs, OpsAre
    <2> QED BY <1>4, <1>5, <1>6, <2>2, <2>3 DEF OneUnbind
  <1>16. calls \in Seq(Message) /\ DOMAIN calls \subseteq {1} /\ \A i \in DOMAIN calls : calls[i] = u
    <2>1. CASE nodes = {}
      <3> HIDE DEF nodes
      <3>1. Cardinality(nodes) = 0
        BY <2>1, FS_EmptySet
      <3>2. 1..Cardinality(nodes) = {}
        BY <3>1
      <3>3. calls = <<>>
        BY <3>2
      <3> HIDE DEF calls
      <3>4. <<>> \in Seq(Message) /\ DOMAIN <<>> = {}
        BY EmptySeq
      <3> QED BY <3>3, <3>4
    <2>2. CASE nodes = {h}
      <3> HIDE DEF nodes
      <3>1. Cardinality(nodes) = 1 /\ SetToSeq(nodes)[1] = h
        BY <2>2, FirstOfOne
      <3>2. calls = [i \in 1..1 |-> u]
        BY <1>3, <3>1
      <3>3. PICK f : f = [i \in 1..1 |-> u]
        OBVIOUS
      <3>4. PICK n \in Nat : n = 1
        OBVIOUS
      <3>5. f \in [1..n -> Message]
        BY <1>11, <3>3, <3>4
      <3>6. f \in Seq(Message)
        BY <3>5
      <3>7. DOMAIN f = 1..1 /\ \A i \in 1..1 : f[i] = u
        BY <3>3
      <3>8. 1..1 = {1}
        OBVIOUS
      <3>9. calls = f
        BY <3>2, <3>3
      <3> HIDE DEF calls
      <3> QED BY <3>6, <3>7, <3>8, <3>9
    <2> QED BY <1>10, <2>1, <2>2
  <1> HIDE DEF calls, nodes
  <1>17. PICK c \in Seq(Message) : c = calls
    BY <1>16
  <1>18. PICK msgs : msgs = c \o <<y>>
    OBVIOUS
  <1>19. msgs \in Seq(Message) /\ Distinct(msgs) /\ y \in Range(msgs) /\ Range(msgs) \subseteq {u, y}
    <2>1. DOMAIN c \subseteq {1} /\ \A i \in DOMAIN c : c[i] = u
      BY <1>16, <1>17
    <2>2. c \o <<y>> \in Seq(Message) /\ Distinct(c \o <<y>>)
      BY <1>11, <1>14, <2>1, CallAndAnswer
    <2>3. y \in Range(c \o <<y>>) /\ Range(c \o <<y>>) \subseteq {u, y}
      BY <1>11, <1>14, <2>1, CallAndAnswer
    <2> QED BY <1>18, <2>2, <2>3
  <1>20. up' = [up EXCEPT ![h] = @ \o msgs] \/ UNCHANGED up
    BY <1>4, <1>17, <1>18
  <1>21. PICK N : Answers(h, N) /\ N \subseteq {u, y}
    <2>1. CASE up' = [up EXCEPT ![h] = @ \o msgs]
      <3>1. Novel(Head(down[h]), Range(msgs))
        BY <1>1, <1>14, <1>15, <1>19 DEF Novel
      <3>2. Answers(h, Range(msgs))
        BY <1>4, <1>5, <1>19, <2>1, <3>1, AnswersIs
      <3> QED BY <1>19, <3>2
    <2>2. CASE UNCHANGED up
      <3>1. Answers(h, {})
        BY <1>4, <1>5, <2>2, AnswersNone
      <3> QED BY <3>1
    <2> QED BY <1>20, <2>1, <2>2
  <1>22. Fits(h, N)
    <2>1. Pair(y) = Pair(x)
      BY <1>12 DEF Pair
    <2>2. Timely(y)
      BY <1>9, <1>12, <1>13, <2>1 DEF Timely
    <2>3. Timely(u)
      BY <1>9, <1>12, <1>13 DEF Timely
    <2>4. \A g, z : Answered(g, z)' <=> Answered(g, z)
      BY <1>4 DEF Answered, rootVars, hostVars
    <2>5. Answered(h, y) /\ Answered(h, u)
      BY <1>12 DEF Answered
    <2>6. \A z \in N : z = u \/ z = y
      BY <1>21
    <2>7. \A z \in N : Timely(z) /\ Answered(h, z)'
      BY <2>2, <2>3, <2>4, <2>5, <2>6
    <2>8. \A z \in N : Kind(z.op) \in {"bind", "unbind"} => Label(z) = Label(Head(down[h]))
      BY <1>1, <1>13, <1>14, <2>6
    <2> QED BY <2>4, <2>7, <2>8 DEF Fits
  <1>23. HostTypes'
    BY <1>4, <1>5 DEF HostTypes, ChannelTypes, hostVars, workerVars
  <1>24. RootInv' /\ ChannelInv'
    <2>1. N \in SUBSET Message
      BY <1>11, <1>21
    <2> QED BY <1>4, <1>21, <1>22, <1>23, <2>1, HostKeeps
  <1>25. /\ up' \in Queues /\ down' \in Queues
         /\ Sent' = (Sent \ {Head(down[h])}) \cup N
         /\ \A g \in Host : \A z \in Range(up'[g]) : z \in Range(up[g]) \/ (g = h /\ z \in N)
         /\ Grows(up, up') /\ Carried(up) \subseteq Carried(up')
    BY <1>21 DEF Answers
  <1>26. \A z \in N : z.op \in {"unbound", "unbind_cluster_process"} /\ (z.op = "unbind_cluster_process" => z = u)
    BY <1>12, <1>21
  <1>27. Asked'
    <2>1. \A g \in Host : \A z \in Range(up'[g]) : z.op = "notify_binding" =>
              z \in Range(up[g]) \/ \E w \in Message : Asks(w, z) /\ Follows(up'[g], z, w)
      BY <1>25, <1>26
    <2> QED BY <1>4, <1>5, <1>25, <2>1, AskedAtHost
  <1>28. OneUnbind'
    <2> SUFFICES ASSUME NEW v \in Sent', NEW w \in Sent',
                        v.op = "unbind_cluster", w.op = "unbind_cluster_process",
                        v.m = w.m, v.from = w.from, v.to = w.to
                 PROVE  FALSE
      BY DEF OneUnbind
    <2>1. v \in Sent /\ v # x
      BY <1>1, <1>25, <1>26
    <2>2. CASE w \in Sent
      BY <1>5, <2>1, <2>2 DEF OneUnbind
    <2>3. CASE w = u
      <3>1. v \in Message /\ Kind(v.op) = "unbind" /\ v.op \in PairOps
        BY <1>4, <1>5, <1>8, <1>13, <2>1, SentIs
      <3>2. Label(v) = Label(x)
        BY <1>6, <1>8, <1>12, <1>13, <2>3, <3>1, LabelIs
      <3> QED BY <1>5, <1>6, <2>1, <3>2, OneOfLabel
    <2> QED BY <1>25, <1>26, <2>2, <2>3
  <1>29. Hosted' /\ Entered'
    BY <1>4, <1>5, HostedRests, EnteredRests DEF hostVars
  <1> QED BY <1>24, <1>27, <1>28, <1>29 DEF CoreInv

\* The core does not look at what workers do.
LEMMA CoreRests ==
    ASSUME CoreInv, UNCHANGED <<rootVars, hostVars, down, up>>, HostTypes'
    PROVE  CoreInv'
  <1>1. /\ RootInv /\ ChannelTypes /\ Once /\ Addressed /\ BindsCounted /\ UnbindsCounted
        /\ Hosted /\ Entered /\ Asked /\ OneUnbind
    BY CoreIs
  <1>2. UNCHANGED <<clusters, bindings, cluster_id, mig, origin>> /\ UNCHANGED <<hosted, crew, from_nodes>>
    BY DEF rootVars, hostVars
  <1>3. RootInv'
    BY <1>1, RootRests
  <1>4. Hosted' /\ Entered'
    BY <1>1, <1>2, HostedRests, EnteredRests
  <1>5. Asked'
    BY <1>1 DEF Asked
  <1>6. Sent' = Sent
    BY DEF Sent
  <1>7. OneUnbind'
    BY <1>1, <1>6 DEF OneUnbind
  <1>8. Once'
    BY <1>1 DEF Once
  <1>9. Addressed'
    BY <1>1, <1>2, <1>6 DEF Addressed, Timely, Called, Answered, NewPairs, OldPairs
  <1>10. BindsCounted' /\ UnbindsCounted'
    BY <1>1, <1>2, <1>6 DEF BindsCounted, UnbindsCounted, BindsComing, UnbindsComing, Coming, Length,
                            NewPairs, OldPairs
  <1>11. ChannelTypes'
    BY <1>1 DEF ChannelTypes, HostTypes
  <1> QED BY <1>3, <1>4, <1>5, <1>7, <1>8, <1>9, <1>10, <1>11 DEF CoreInv, ChannelInv

LEMMA CoreWorkerStep ==
    ASSUME CoreInv, NEW c \in Cid, WorkerStep(c)
    PROVE  CoreInv'
  <1>1. HostTypes
    BY CoreIs, HostTypesAre
  <1>2. /\ ipc[c] # <<>> /\ ipc' = [ipc EXCEPT ![c] = Tail(@)]
        /\ UNCHANGED <<rootVars, hostVars, down, up>>
    BY DEF WorkerStep, BindNode, UnbindNode, FromParent
  <1>3. ipc \in [Cid -> Seq(Command)] /\ clients \in [Cid -> SUBSET Cid] /\ binded \in [Cid -> BOOLEAN]
    BY <1>1 DEF HostTypes
  <1>4. PICK q \in Seq(Command) : q = ipc[c]
    BY <1>3
  <1>5. Head(q) \in Command /\ Tail(q) \in Seq(Command)
    BY <1>2, <1>4, HeadTailProperties
  <1>6. Head(ipc[c]).uid \in Cid
    BY <1>4, <1>5 DEF Command
  <1>7. ipc' \in [Cid -> Seq(Command)]
    BY <1>2, <1>3, <1>4, <1>5
  <1>8. clients' \in [Cid -> SUBSET Cid] /\ binded' \in [Cid -> BOOLEAN]
    <2>1. CASE BindNode(c)
      BY <1>3, <1>6, <2>1 DEF BindNode
    <2>2. CASE UnbindNode(c)
      <3>1. clients' \in [Cid -> SUBSET Cid]
        BY <1>3, <2>2 DEF UnbindNode
      <3>2. PICK d \in BOOLEAN : d = (binded[c] /\ Head(ipc[c]).uid \notin clients[c])
        BY <1>3, Zenon
      <3>3. binded' = [binded EXCEPT ![c] = d]
        BY <2>2, <3>2 DEF UnbindNode
      <3> QED BY <1>3, <3>1, <3>3
    <2> QED BY <2>1, <2>2 DEF WorkerStep
  <1>9. HostTypes'
    BY <1>1, <1>2, <1>7, <1>8 DEF HostTypes, hostVars
  <1> QED BY <1>2, <1>9, CoreRests

-----------------------------------------------------------------------------
(* The steps of the root. *)

\* The channels when the root has taken an answer of h and told each host g N[g].
Tells(h, N) ==
    /\ up[h] # <<>> /\ up' = [up EXCEPT ![h] = Tail(@)]
    /\ up' \in Queues /\ down' \in Queues /\ Once'
    /\ \A y : y \in Sent' <=> (y \in Sent /\ y # Head(up[h])) \/ \E g \in Host : y \in N[g]
    /\ \A g \in Host : \A y \in Range(up'[g]) : y \in Range(up[g]) /\ y # Head(up[h])
    /\ \A g \in Host : \A y \in Range(down'[g]) : y \in Range(down[g]) \/ y \in N[g]
    /\ Grows(down, down')
OneTold(g, y) == [f \in Host |-> IF f = g THEN {y} ELSE {}]
NoneTold == [f \in Host |-> {}]

\* What was the first of its channel is in no channel any more.
LEMMA TakenAway ==
    ASSUME up \in Queues, Once, NEW h \in Host, up[h] # <<>>,
           Range(up'[h]) = Range(up[h]) \ {Head(up[h])}, \A g \in Host : g # h => up'[g] = up[g]
    PROVE  \A g \in Host : \A y \in Range(up'[g]) : y \in Range(up[g]) /\ y # Head(up[h])
  <1> SUFFICES ASSUME NEW g \in Host, NEW y \in Range(up'[g])
               PROVE  y \in Range(up[g]) /\ y # Head(up[h])
    OBVIOUS
  <1>1. CASE g = h
    BY <1>1
  <1>2. CASE g # h
    <2>1. PICK i \in DOMAIN up[g] : y = up[g][i]
      BY <1>2 DEF Range
    <2>2. Head(up[h]) = up[h][1] /\ 1 \in DOMAIN up[h] /\ DOMAIN up = Host
      BY QueuesAre
    <2>3. Alone(up)
      BY DEF Once
    <2>4. y # Head(up[h])
      <3>1. ASSUME y = Head(up[h]) PROVE FALSE
        <4>1. Label(up[g][i]) = Label(up[h][1])
          BY <2>1, <2>2, <3>1
        <4> QED BY <1>2, <2>2, <2>3, <4>1 DEF Alone
      <3> QED BY <3>1
    <2> QED BY <1>2, <2>4
  <1> QED BY <1>1, <1>2

LEMMA TellsOne ==
    ASSUME up \in Queues, down \in Queues, Once, NEW h \in Host, up[h] # <<>>,
           up' = [up EXCEPT ![h] = Tail(@)],
           NEW g \in Host, NEW y \in Message, down' = [down EXCEPT ![g] = Append(@, y)],
           Label(y) = Label(Head(up[h])) \/ \A x \in Sent : Label(x) # Label(y)
    PROVE  Tells(h, OneTold(g, y))
  <1>1. up' \in Queues /\ down' \in Queues /\ Once'
    BY RootCalls
  <1>2. Sent' = (Sent \ {Head(up[h])}) \cup {y}
    BY RootCalls
  <1>3. Range(up'[h]) = Range(up[h]) \ {Head(up[h])}
    BY RootCalls
  <1>4. \A f \in Host : f # h => up'[f] = up[f]
    BY RootCalls
  <1>5. Range(down'[g]) = Range(down[g]) \cup {y}
    BY RootCalls
  <1>6. \A f \in Host : f # g => down'[f] = down[f]
    BY RootCalls
  <1>7. Grows(down, down')
    BY GrowsIs
  <1>8. \A f \in Host : \A z \in Range(up'[f]) : z \in Range(up[f]) /\ z # Head(up[h])
    BY <1>3, <1>4, TakenAway
  <1>9. \A z : (\E f \in Host : z \in OneTold(g, y)[f]) <=> z = y
    BY DEF OneTold
  <1>10. y \in OneTold(g, y)[g]
    BY DEF OneTold
  <1>11. \A f \in Host : \A z \in Range(down'[f]) : z \in Range(down[f]) \/ z \in OneTold(g, y)[f]
    BY <1>5, <1>6, <1>10
  <1>12. \A z : z \in Sent' <=> (z \in Sent /\ z # Head(up[h])) \/ \E f \in Host : z \in OneTold(g, y)[f]
    BY <1>2, <1>9
  <1> QED BY <1>1, <1>7, <1>8, <1>11, <1>12 DEF Tells

LEMMA TellsNone ==
    ASSUME up \in Queues, down \in Queues, Once, NEW h \in Host, up[h] # <<>>,
           up' = [up EXCEPT ![h] = Tail(@)], UNCHANGED down
    PROVE  Tells(h, NoneTold)
  <1>1. up' \in Queues /\ down' \in Queues /\ Once'
    BY RootHears
  <1>2. Sent' = Sent \ {Head(up[h])}
    BY RootHears
  <1>3. Range(up'[h]) = Range(up[h]) \ {Head(up[h])}
    BY RootHears
  <1>4. \A f \in Host : f # h => up'[f] = up[f]
    BY RootHears
  <1>5. Grows(down, down')
    BY GrowsIs
  <1>6. \A f \in Host : \A z \in Range(up'[f]) : z \in Range(up[f]) /\ z # Head(up[h])
    BY <1>3, <1>4, TakenAway
  <1>7. \A f \in Host : NoneTold[f] = {}
    BY DEF NoneTold
  <1> QED BY <1>1, <1>2, <1>5, <1>6, <1>7 DEF Tells

LEMMA TellsAll ==
    ASSUME up \in Queues, down \in Queues, Once, NEW h \in Host, up[h] # <<>>,
           up' = [up EXCEPT ![h] = Tail(@)],
           NEW A \in Queues, Alone(A), down' = [g \in Host |-> down[g] \o A[g]],
           \A y \in Carried(A) :
               Label(y) = Label(Head(up[h])) \/ \A x \in Sent : Label(x) # Label(y)
    PROVE  Tells(h, [g \in Host |-> Range(A[g])])
  <1> DEFINE N == [g \in Host |-> Range(A[g])]
  <1>1. up' \in Queues /\ down' \in Queues /\ Once'
    BY RootTakes
  <1>2. Sent' = (Sent \ {Head(up[h])}) \cup Carried(A)
    BY RootTakes
  <1>3. Range(up'[h]) = Range(up[h]) \ {Head(up[h])}
    BY RootTakes
  <1>4. \A f \in Host : f # h => up'[f] = up[f]
    BY RootTakes
  <1>5. \A g \in Host : Range(down'[g]) = Range(down[g]) \cup Range(A[g])
    BY RootTakes
  <1>6. Grows(down, down')
    BY GrowsIs
  <1>7. \A f \in Host : \A z \in Range(up'[f]) : z \in Range(up[f]) /\ z # Head(up[h])
    BY <1>3, <1>4, TakenAway
  <1>8. \A z : z \in Carried(A) <=> \E g \in Host : z \in Range(A[g])
    BY QueuesAre
  <1>9. \A g \in Host : N[g] = Range(A[g])
    OBVIOUS
  <1> HIDE DEF N
  <1>10. \A z : z \in Sent' <=> (z \in Sent /\ z # Head(up[h])) \/ \E g \in Host : z \in N[g]
    BY <1>2, <1>8, <1>9
  <1>11. \A g \in Host : \A z \in Range(down'[g]) : z \in Range(down[g]) \/ z \in N[g]
    BY <1>5, <1>9
  <1>12. Tells(h, N)
    BY <1>1, <1>6, <1>7, <1>10, <1>11 DEF Tells
  <1> QED BY <1>12 DEF N

\* What the root says is about the migration m, and what was said stays true.
Suits(h, m, N) ==
    /\ \A g \in Host : \A y \in N[g] : y.m = m /\ Timely(y)' /\ Called(g, y)'
    /\ \A g \in Host : \A y \in N[g] : y.op \notin {"notify_binding", "unbind_cluster_process"}
    /\ \A g \in Host : \A y \in N[g] : y.op = "unbind_cluster" =>
           \A z \in Sent : z.op = "unbind_cluster_process" => z.m # m
    /\ \A y \in Sent : y # Head(up[h]) => Timely(y)'
    /\ \A g \in Host : \A y \in Range(down[g]) : y # Head(up[h]) => Called(g, y)'
    /\ \A g \in Host : \A y \in Range(up[g]) : y # Head(up[h]) => Answered(g, y)'
Owed(m) ==
    /\ mig[m].bindCounter + Cardinality(BindsComing(m)) <= Length(m)
    /\ mig[m].unbindCounter + Cardinality(UnbindsComing(m)) <= Length(m)

LEMMA RootKeeps ==
    ASSUME CoreInv, RootInv', NEW h \in Host, NEW m \in Mig, NEW N, Tells(h, N), Suits(h, m, N),
           Head(up[h]).op \notin {"notify_binding", "get_workers"},
           \A n \in Mig : n # m => mig'[n] = mig[n], Owed(m)',
           UNCHANGED <<hostVars, ipc, workerVars>>, Hosted', Entered'
    PROVE  CoreInv'
  <1>1. /\ RootTypes /\ up \in Queues /\ down \in Queues /\ ChannelTypes /\ Once
        /\ Addressed /\ BindsCounted /\ UnbindsCounted /\ Asked /\ OneUnbind /\ ChannelInv
    BY CoreIs
  <1>2. /\ up[h] # <<>> /\ up' = [up EXCEPT ![h] = Tail(@)]
        /\ up' \in Queues /\ down' \in Queues /\ Once'
        /\ \A y : y \in Sent' <=> (y \in Sent /\ y # Head(up[h])) \/ \E g \in Host : y \in N[g]
        /\ \A g \in Host : \A y \in Range(up'[g]) : y \in Range(up[g]) /\ y # Head(up[h])
        /\ \A g \in Host : \A y \in Range(down'[g]) : y \in Range(down[g]) \/ y \in N[g]
        /\ Grows(down, down')
    BY DEF Tells
  <1>3. /\ \A g \in Host : \A y \in N[g] : y.m = m /\ Timely(y)' /\ Called(g, y)'
        /\ \A g \in Host : \A y \in N[g] : y.op \notin {"notify_binding", "unbind_cluster_process"}
        /\ \A g \in Host : \A y \in N[g] : y.op = "unbind_cluster" =>
               \A z \in Sent : z.op = "unbind_cluster_process" => z.m # m
        /\ \A y \in Sent : y # Head(up[h]) => Timely(y)'
        /\ \A g \in Host : \A y \in Range(down[g]) : y # Head(up[h]) => Called(g, y)'
        /\ \A g \in Host : \A y \in Range(up[g]) : y # Head(up[h]) => Answered(g, y)'
    BY DEF Suits
  <1>4. Head(up[h]) \in Range(up[h])
    BY <1>1, <1>2, QueuesAre
  <1>5. \A g \in Host : \A y \in Range(down[g]) : y # Head(up[h])
    <2>1. Head(up[h]) \in Carried(up) /\ \A g \in Host : \A y \in Range(down[g]) : y \in Carried(down)
      BY <1>1, <1>4, QueuesAre
    <2> QED BY <1>1, <2>1 DEF Once
  <1>6. Addressed'
    <2>1. \A y \in Sent' : Timely(y)'
      BY <1>2, <1>3
    <2>2. \A g \in Host : \A y \in Range(down'[g]) : Called(g, y)'
      BY <1>2, <1>3, <1>5
    <2>3. \A g \in Host : \A y \in Range(up'[g]) : Answered(g, y)'
      BY <1>2, <1>3
    <2> QED BY <2>1, <2>2, <2>3 DEF Addressed
  <1>7. BindsCounted' /\ UnbindsCounted'
    <2>1. \A y \in Sent' : y.m # m /\ Kind(y.op) \in {"bind", "unbind"} =>
              \E x \in Sent : Label(x) = Label(y)
      BY <1>2, <1>3
    <2>2. /\ mig'[m].bindCounter + Cardinality(BindsComing(m)') <= Length(m)'
          /\ mig'[m].unbindCounter + Cardinality(UnbindsComing(m)') <= Length(m)'
      BY DEF Owed
    <2>3. up' \in Queues /\ down' \in Queues
      BY <1>2
    <2>4. RootTypes /\ up \in Queues /\ down \in Queues /\ BindsCounted /\ UnbindsCounted
      BY <1>1
    <2> QED BY <2>1, <2>2, <2>3, <2>4, CountsRest
  <1>8. ChannelTypes'
    BY <1>1, <1>2 DEF ChannelTypes, hostVars, workerVars
  <1>9. Asked'
    <2>1. \A g \in Host : \A y \in Range(down'[g]) : y.op = "notify_binding" => y \in Range(down[g])
      BY <1>2, <1>3
    <2> QED BY <1>1, <1>2, <2>1, AskedAtRoot
  <1>10. OneUnbind'
    <2> SUFFICES ASSUME NEW x \in Sent', NEW y \in Sent',
                        x.op = "unbind_cluster", y.op = "unbind_cluster_process",
                        x.m = y.m, x.from = y.from, x.to = y.to
                 PROVE  FALSE
      BY DEF OneUnbind
    <2>1. y \in Sent
      BY <1>2, <1>3
    <2>2. CASE x \in Sent
      BY <1>1, <2>1, <2>2 DEF OneUnbind
    <2>3. CASE \E g \in Host : x \in N[g]
      BY <1>3, <2>1, <2>3
    <2> QED BY <1>2, <2>2, <2>3
  <1>11. ChannelInv'
    BY <1>2, <1>6, <1>7, <1>8 DEF ChannelInv
  <1> QED BY <1>9, <1>10, <1>11 DEF CoreInv

LEMMA EnteredOn ==
    Entered /\ UNCHANGED <<clusters, cluster_id, from_nodes>> => Entered'
  BY DEF Entered, Present

\* A migration goes on, and the host of what it has started has it.
LEMMA HostedOn ==
    ASSUME Hosted, UNCHANGED <<clusters, hosted, crew>>, NEW m \in Mig,
           \A n \in Mig : n # m => mig'[n] = mig[n],
           mig[m].phase = "run" => mig[m].new \in hosted[clusters[mig[m].new]] \cap crew,
           mig[m].phase # "remove"
    PROVE  Hosted'
  <1>1. \A g \in Host : \A c \in hosted'[g] : clusters'[c] = g
    BY DEF Hosted
  <1>2. ASSUME NEW c \in Cid, Present(c)'
        PROVE  \/ c \in hosted[clusters[c]] \cap crew
               \/ \E n \in Mig : mig'[n].phase = "run" /\ mig'[n].new = c
               \/ \E n \in Mig : mig'[n].phase = "remove" /\ mig'[n].old = c
    <2>1. Present(c)
      BY <1>2 DEF Present
    <2>2. CASE c \in hosted[clusters[c]] \cap crew
      BY <2>2
    <2>3. CASE \E n \in Mig : mig[n].phase = "run" /\ mig[n].new = c
      <3>1. PICK n \in Mig : mig[n].phase = "run" /\ mig[n].new = c
        BY <2>3
      <3>2. CASE n = m
        BY <3>1, <3>2
      <3>3. CASE n # m
        BY <3>1, <3>3
      <3> QED BY <3>2, <3>3
    <2>4. CASE \E n \in Mig : mig[n].phase = "remove" /\ mig[n].old = c
      BY <2>4
    <2> QED BY <2>1, <2>2, <2>3, <2>4 DEF Hosted
  <1> QED BY <1>1, <1>2 DEF Hosted

\* When only unbinds of workers are left, they stay true.
LEMMA StraysStay ==
    ASSUME CoreInv, NEW m \in Mig, \A n \in Mig : n # m => mig'[n] = mig[n],
           mig[m].phase \in {"unbind", "remove", "done"} => mig'[m].phase \in {"unbind", "remove", "done"},
           NEW y \in Sent, y.op = "unbind_cluster_process"
    PROVE  /\ Timely(y)' /\ \A g \in Host : y \in Range(down[g]) => Called(g, y)'
           /\ \A g \in Host : y \in Range(up[g]) => Answered(g, y)'
  <1>1. up \in Queues /\ down \in Queues /\ Addressed
    BY CoreIs
  <1>2. y \in Message /\ y.m \in Mig /\ Timely(y) /\ Kind(y.op) = "unbind_cluster_process"
    BY <1>1, SentIs, MessageIs, KindIs DEF Addressed
  <1>3. mig'[y.m].phase \in {"unbind", "remove", "done"}
    <2>1. mig[y.m].phase \in {"unbind", "remove", "done"}
      BY <1>2 DEF Timely
    <2> QED BY <1>2, <2>1
  <1>4. Timely(y)'
    BY <1>2, <1>3 DEF Timely
  <1>5. ASSUME NEW g \in Host, y \in Range(down[g]) PROVE Called(g, y)'
    <2>1. Called(g, y)
      BY <1>1, <1>5 DEF Addressed
    <2> QED BY <2>1 DEF Called
  <1>6. ASSUME NEW g \in Host, y \in Range(up[g]) PROVE Answered(g, y)'
    <2>1. Answered(g, y)
      BY <1>1, <1>6 DEF Addressed
    <2> QED BY <2>1 DEF Answered
  <1> QED BY <1>4, <1>5, <1>6

OnlyStrays(h) == \A y \in Sent : y # Head(up[h]) => y.op = "unbind_cluster_process"

\* An answer that only one call can have is alone, but for unbinds of workers.
LEMMA AloneIs ==
    ASSUME CoreInv, NEW h \in Host, up[h] # <<>>, Head(up[h]).op \in {"clusters", "ran", "removed"}
    PROVE  /\ mig[Head(up[h]).m].phase = Kind(Head(up[h]).op) /\ Busy(Head(up[h]).m)
           /\ OnlyStrays(h)
  <1>1. PICK x : x = Head(up[h])
    OBVIOUS
  <1>2. /\ RootTypes /\ InTurn /\ up \in Queues /\ down \in Queues /\ Once /\ Addressed /\ ChannelInv
    BY CoreIs
  <1>3. x \in Message /\ x \in Sent /\ x.m \in Mig /\ Timely(x)
    BY <1>1, <1>2, Returned
  <1>4. x.op \in {"clusters", "ran", "removed"} /\ Kind(x.op) \in {"collect", "run", "remove"}
        /\ x.op \notin PairOps
    BY <1>1, KindIs DEF PairOps, BindOps, UnbindOps
  <1>5. mig[x.m].phase = Kind(x.op)
    BY <1>3, <1>4 DEF Timely
  <1>6. Busy(x.m)
    BY <1>4, <1>5 DEF Busy
  <1>7. ASSUME NEW y \in Sent, y # x PROVE y.op = "unbind_cluster_process"
    <2>1. y \in Message /\ Timely(y)
      BY <1>2, SentIs DEF Addressed
    <2>2. y.m = x.m \/ (y.op = "unbind_cluster_process" /\ mig[y.m].phase = "done")
      BY <1>2, <1>3, <1>6, <2>1, Speaks
    <2>3. y.m = x.m => \/ Kind(y.op) = mig[x.m].phase
                       \/ y.op = "notify_binding" /\ mig[x.m].phase = "bind"
                       \/ y.op = "unbind_cluster_process" /\ mig[x.m].phase \in {"unbind", "remove"}
      BY <1>2, <1>3, <1>6, <2>1, Speaks
    <2>4. ASSUME y.m = x.m, Kind(y.op) = mig[x.m].phase PROVE FALSE
      <3>1. Label(x) = Label(y)
        BY <1>3, <1>4, <1>5, <2>1, <2>4, LabelIs
      <3> QED BY <1>2, <1>3, <1>7, <3>1, OneOfLabel
    <2> QED BY <1>4, <1>5, <2>2, <2>3, <2>4
  <1> QED BY <1>1, <1>5, <1>6, <1>7 DEF OnlyStrays

LEMMA SuitsStrays ==
    ASSUME CoreInv, NEW h \in Host, NEW m \in Mig, OnlyStrays(h), NEW N,
           \A n \in Mig : n # m => mig'[n] = mig[n],
           mig[m].phase \in {"unbind", "remove", "done"} => mig'[m].phase \in {"unbind", "remove", "done"},
           \A g \in Host : \A y \in N[g] : y.m = m /\ Timely(y)' /\ Called(g, y)',
           \A g \in Host : \A y \in N[g] : y.op \notin {"notify_binding", "unbind_cluster_process"},
           \A g \in Host : \A y \in N[g] : y.op = "unbind_cluster" =>
               \A z \in Sent : z.op = "unbind_cluster_process" => z.m # m
    PROVE  Suits(h, m, N)
  <1>1. up \in Queues /\ down \in Queues
    BY CoreIs
  <1>2. \A g \in Host : Range(up[g]) \subseteq Sent /\ Range(down[g]) \subseteq Sent
    BY <1>1, SentIs
  <1>3. ASSUME NEW y \in Sent, y # Head(up[h])
        PROVE  /\ Timely(y)' /\ \A g \in Host : y \in Range(down[g]) => Called(g, y)'
               /\ \A g \in Host : y \in Range(up[g]) => Answered(g, y)'
    <2>1. y.op = "unbind_cluster_process"
      BY <1>3 DEF OnlyStrays
    <2>2. Timely(y)'
      BY <2>1, StraysStay
    <2>3. \A g \in Host : y \in Range(down[g]) => Called(g, y)'
      BY <2>1, StraysStay
    <2>4. \A g \in Host : y \in Range(up[g]) => Answered(g, y)'
      BY <2>1, StraysStay
    <2> QED BY <2>2, <2>3, <2>4
  <1>4. \A y \in Sent : y # Head(up[h]) => Timely(y)'
    BY <1>3
  <1>5. \A g \in Host : \A y \in Range(down[g]) : y # Head(up[h]) => Called(g, y)'
    BY <1>2, <1>3
  <1>6. \A g \in Host : \A y \in Range(up[g]) : y # Head(up[h]) => Answered(g, y)'
    BY <1>2, <1>3
  <1> QED BY <1>4, <1>5, <1>6 DEF Suits

LEMMA SuitsOne ==
    ASSUME CoreInv, NEW h \in Host, NEW m \in Mig, OnlyStrays(h),
           \A n \in Mig : n # m => mig'[n] = mig[n],
           mig[m].phase \in {"unbind", "remove", "done"} => mig'[m].phase \in {"unbind", "remove", "done"},
           NEW g \in Host, NEW y, y.m = m, Timely(y)', Called(g, y)',
           y.op \in {"run_cluster", "remove_cluster"}
    PROVE  Suits(h, m, OneTold(g, y))
  <1>1. \A f \in Host : \A z \in OneTold(g, y)[f] : f = g /\ z = y
    BY DEF OneTold
  <1>2. \A f \in Host : \A z \in OneTold(g, y)[f] : z.m = m /\ Timely(z)' /\ Called(f, z)'
    BY <1>1
  <1>3. \A f \in Host : \A z \in OneTold(g, y)[f] :
            z.op \notin {"notify_binding", "unbind_cluster_process"} /\ z.op # "unbind_cluster"
    BY <1>1
  <1> QED BY <1>2, <1>3, SuitsStrays

LEMMA SuitsNone ==
    ASSUME CoreInv, NEW h \in Host, NEW m \in Mig, OnlyStrays(h),
           \A n \in Mig : n # m => mig'[n] = mig[n],
           mig[m].phase \in {"unbind", "remove", "done"} => mig'[m].phase \in {"unbind", "remove", "done"}
    PROVE  Suits(h, m, NoneTold)
  <1>1. \A f \in Host : \A z \in NoneTold[f] : FALSE
    BY DEF NoneTold
  <1>2. \A f \in Host : \A z \in NoneTold[f] : z.m = m /\ Timely(z)' /\ Called(f, z)'
    BY <1>1
  <1>3. \A f \in Host : \A z \in NoneTold[f] :
            z.op \notin {"notify_binding", "unbind_cluster_process"} /\ z.op # "unbind_cluster"
    BY <1>1
  <1> QED BY <1>2, <1>3, SuitsStrays

\* With no bind and no unbind on their way, a migration owes none.
LEMMA OwedNothing ==
    ASSUME NEW m \in Mig, NEW k \in Nat, NEW l \in Nat, NEW n \in Nat,
           mig'[m].bindCounter = k, mig'[m].unbindCounter = l, Length(m)' = n, k <= n, l <= n,
           \A y \in Sent' : y.m = m => Kind(y.op) # "bind" /\ Kind(y.op) # "unbind"
    PROVE  Owed(m)'
  <1>1. BindsComing(m)' = {} /\ UnbindsComing(m)' = {}
    BY NothingComes
  <1>2. Cardinality({}) = 0
    BY FS_EmptySet
  <1>3. Cardinality(BindsComing(m)') = 0 /\ Cardinality(UnbindsComing(m)') = 0
    BY <1>1, <1>2
  <1>4. k + 0 <= n /\ l + 0 <= n
    OBVIOUS
  <1> QED BY <1>3, <1>4 DEF Owed

LEMMA LengthIs ==
    ASSUME NEW m \in Mig, mig' \in [Mig -> Migrating]
    PROVE  Length(m)' \in Nat
  <1>1. mig'[m].ins \in Seq(Binding) /\ mig'[m].outs \in Seq(Binding)
    BY DEF Migrating
  <1>2. Len(mig'[m].ins) \in Nat /\ Len(mig'[m].outs) \in Nat
    BY <1>1, LenProperties
  <1>3. Length(m)' = Len(mig'[m].ins) + Len(mig'[m].outs)
    BY DEF Length
  <1>4. \A i, j \in Nat : i + j \in Nat
    OBVIOUS
  <1> QED BY <1>2, <1>3, <1>4

LEMMA CoreCollected ==
    ASSUME CoreInv, NEW h \in Host, Collected(h)
    PROVE  CoreInv'
  <1>1. PICK x : x = Head(up[h])
    OBVIOUS
  <1>2. PICK m, w : m = x.m /\ w = x.workers
    OBVIOUS
  <1>3. PICK y : y = [op |-> "run_cluster", m |-> m, cid |-> cluster_id, workers |-> w]
    OBVIOUS
  <1>4. /\ up[h] # <<>> /\ x.op = "clusters" /\ up' = [up EXCEPT ![h] = Tail(@)]
        /\ cluster_id' = NextId
        /\ clusters' = [clusters EXCEPT ![cluster_id] = mig[m].dest]
        /\ origin' = [origin EXCEPT ![cluster_id] = origin[mig[m].old]]
        /\ mig' = [mig EXCEPT ![m].phase = "run", ![m].new = cluster_id,
                              ![m].outs = Outs(bindings, mig[m].old),
                              ![m].ins = Ins(bindings, mig[m].old)]
        /\ down' = [down EXCEPT ![mig[m].dest] = Append(@, y)]
        /\ UNCHANGED <<bindings, hostVars, ipc, workerVars>>
    BY <1>1, <1>2, <1>3 DEF Collected, FromHost, Take, Call
  <1>5. /\ RootTypes /\ InTurn /\ Alive /\ RootInv /\ \A n \in Mig : Ends(n)
        /\ up \in Queues /\ down \in Queues /\ Once /\ ChannelInv /\ ChannelTypes /\ Hosted /\ Entered
    BY CoreIs
  <1>6. x \in Message /\ x \in Sent /\ m \in Mig /\ Timely(x)
    BY <1>1, <1>2, <1>4, <1>5, Returned
  <1>7. w = TRUE
    <2>1. x.workers \in BOOLEAN
      BY <1>4, <1>6, MessageIs
    <2> QED BY <1>2, <1>4, <1>6, <2>1 DEF Timely
  <1>8. mig[m].phase = "collect" /\ Busy(m) /\ OnlyStrays(h)
    <2>1. mig[m].phase = Kind(x.op) /\ Busy(m)
      BY <1>1, <1>2, <1>4, AloneIs
    <2>2. OnlyStrays(h)
      BY <1>1, <1>4, AloneIs
    <2> QED BY <1>4, <2>1, <2>2, KindIs
  <1>9. PICK g \in Host : g = mig[m].dest
    BY <1>5, <1>6, <1>8 DEF Ends
  <1>10. cluster_id \in Cid /\ cluster_id \notin Op /\ ~ Present(cluster_id)
    BY <1>5, <1>6, <1>8, NextIdIs
  <1>11. y \in Message
    BY <1>3, <1>6, <1>7, <1>10, MessagesAre
  <1>12. /\ y.op = "run_cluster" /\ y.m = m /\ y.cid = cluster_id /\ y.workers = TRUE
         /\ Kind(y.op) = "run"
    BY <1>3, <1>7, KindIs
  <1>13. \A z \in Sent : Label(z) # Label(y)
    <2> SUFFICES ASSUME NEW z \in Sent, Label(z) = Label(y) PROVE FALSE
      OBVIOUS
    <2>1. z \in Message
      BY <1>5, SentIs
    <2>2. Kind(z.op) = "run"
      BY <1>11, <1>12, <2>1, LabelIs
    <2>3. z.op \in {"run_cluster", "ran"}
      BY <2>1, <2>2, MessageIs, OpsAre
    <2> QED BY <1>1, <1>4, <1>8, <2>3 DEF OnlyStrays
  <1>14. Tells(h, OneTold(g, y))
    <2>1. down' = [down EXCEPT ![g] = Append(@, y)]
      BY <1>4, <1>9
    <2> QED BY <1>4, <1>5, <1>11, <1>13, <2>1, TellsOne
  <1>15. RootInv'
    BY <1>4, <1>5, <1>6, <1>8, RootCollected
  <1>16. /\ mig'[m].phase = "run" /\ mig'[m].new = cluster_id /\ mig'[m].dest = g
         /\ mig'[m].bindCounter = 0 /\ mig'[m].unbindCounter = 0
    BY <1>4, <1>5, <1>6, <1>8, <1>9, RootCollected
  <1>17. \A n \in Mig : n # m => mig'[n] = mig[n]
    BY <1>4, <1>5, <1>6, <1>8, RootCollected
  <1>18. Timely(y)'
    BY <1>12, <1>16 DEF Timely
  <1>19. Called(g, y)'
    BY <1>12, <1>16 DEF Called
  <1>20. Suits(h, m, OneTold(g, y))
    BY <1>6, <1>8, <1>12, <1>17, <1>18, <1>19, SuitsOne
  <1>21. Owed(m)'
    <2>1. Length(m)' \in Nat
      BY <1>6, <1>15, LengthIs DEF RootInv, RootTypes
    <2>2. PICK n \in Nat : n = Length(m)'
      BY <2>1
    <2>3. 0 \in Nat /\ 0 <= n
      OBVIOUS
    <2>4. \A z \in Sent' : Kind(z.op) # "bind" /\ Kind(z.op) # "unbind"
      <3> SUFFICES ASSUME NEW z \in Sent' PROVE Kind(z.op) # "bind" /\ Kind(z.op) # "unbind"
        OBVIOUS
      <3>1. z.op = "unbind_cluster_process" \/ z = y
        BY <1>8, <1>14 DEF Tells, OneTold, OnlyStrays
      <3> QED BY <1>12, <3>1, KindIs
    <2> QED BY <1>6, <1>16, <2>2, <2>3, <2>4, OwedNothing
  <1>22. \A c \in Cid : Present(c) => clusters'[c] = clusters[c] /\ c # cluster_id
    BY <1>4, <1>5, <1>10 DEF RootTypes
  <1>23. /\ \A f \in Host : \A c \in hosted[f] : c \in Cid /\ Present(c)
    <2>1. hosted \in [Host -> SUBSET Cid] /\ NoHost \notin Host
      BY <1>5, OpAssumption DEF ChannelTypes
    <2> QED BY <1>5, <2>1 DEF Hosted, Present
  <1>24. Hosted'
    <2>1. hosted' = hosted /\ crew' = crew
      BY <1>4 DEF hostVars
    <2>2. \A f \in Host : \A c \in hosted[f] : clusters'[c] = f
      BY <1>5, <1>22, <1>23 DEF Hosted
    <2>3. ASSUME NEW c \in Cid, Present(c)'
          PROVE  \/ c \in hosted[clusters'[c]] \cap crew
                 \/ \E n \in Mig : mig'[n].phase = "run" /\ mig'[n].new = c
                 \/ \E n \in Mig : mig'[n].phase = "remove" /\ mig'[n].old = c
      <3>1. CASE c = cluster_id
        BY <1>6, <1>16, <3>1
      <3>2. CASE c # cluster_id
        <4>1. clusters'[c] = clusters[c] /\ Present(c)
          BY <1>4, <1>5, <2>3, <3>2 DEF RootTypes, Present
        <4>2. \A n \in Mig : mig[n].phase \in {"run", "remove"} => mig'[n] = mig[n]
          BY <1>8, <1>17
        <4> QED BY <1>5, <4>1, <4>2 DEF Hosted
      <3> QED BY <3>1, <3>2
    <2> QED BY <2>1, <2>2, <2>3 DEF Hosted
  <1>25. Entered'
    <2>1. cluster_id \in Nat /\ cluster_id' = cluster_id + 1
      BY <1>4, <1>5 DEF NextId, RootTypes
    <2>2. ASSUME NEW f \in Host, NEW n \in from_nodes[f]
          PROVE  n.from < cluster_id' /\ (Present(n.from)' => n.node = clusters'[n.from])
      <3>1. n.from \in Cid /\ n.from < cluster_id /\ (Present(n.from) => n.node = clusters[n.from])
        BY <1>5, <2>2 DEF ChannelTypes, Entered
      <3>2. n.from \in Nat
        BY <3>1, IdsAreNumbers
      <3>3. n.from # cluster_id /\ n.from < cluster_id'
        BY <2>1, <3>1, <3>2
      <3>4. clusters'[n.from] = clusters[n.from]
        BY <1>4, <1>5, <3>1, <3>3 DEF RootTypes
      <3> QED BY <3>1, <3>3, <3>4 DEF Present
    <2>3. from_nodes' = from_nodes
      BY <1>4 DEF hostVars
    <2> QED BY <2>2, <2>3 DEF Entered
  <1>26. Head(up[h]).op \notin {"notify_binding", "get_workers"}
    BY <1>1, <1>4
  <1> QED BY <1>4, <1>6, <1>14, <1>15, <1>17, <1>20, <1>21, <1>24, <1>25, <1>26, RootKeeps

\* Calls about different pairs, each to the node of its source.
LEMMA PairCalls ==
    ASSUME NEW A \in Queues, NEW o \in {"bind_cluster", "unbind_cluster"}, NEW m,
           \A g \in Host : \A y \in Range(A[g]) : y.op = o /\ y.m = m /\ clusters[y.from] = g,
           \A g \in Host : \A i, j \in DOMAIN A[g] : Pair(A[g][i]) = Pair(A[g][j]) => i = j
    PROVE  Alone(A)
  <1>1. DOMAIN A = Host /\ \A g \in Host : Range(A[g]) \subseteq Message
    BY QueuesAre
  <1> SUFFICES ASSUME NEW k \in Host, NEW l \in Host, NEW i \in DOMAIN A[k], NEW j \in DOMAIN A[l],
                      Label(A[k][i]) = Label(A[l][j])
               PROVE  k = l /\ i = j
    BY <1>1 DEF Alone
  <1>2. PICK x \in Range(A[k]) : x = A[k][i]
    BY DEF Range
  <1>3. PICK y \in Range(A[l]) : y = A[l][j]
    BY DEF Range
  <1>4. x \in Message /\ y \in Message /\ x.op = o /\ y.op = o
    BY <1>1
  <1>5. o \in PairOps
    BY DEF PairOps, BindOps, UnbindOps
  <1>6. x.from = y.from /\ x.to = y.to
    BY <1>2, <1>3, <1>4, <1>5, LabelIs
  <1>7. k = l
    BY <1>6
  <1>8. Pair(x) = Pair(y)
    BY <1>6 DEF Pair
  <1> QED BY <1>2, <1>3, <1>7, <1>8

LEMMA CoreRanAlone ==
    ASSUME CoreInv, NEW h \in Host, Ran(h), Length(Head(up[h]).m) = 0
    PROVE  CoreInv'
  <1>1. PICK x : x = Head(up[h])
    OBVIOUS
  <1>2. PICK m : m = x.m
    OBVIOUS
  <1>3. PICK y : y = [op |-> "remove_cluster", m |-> m, cid |-> mig[m].old]
    OBVIOUS
  <1>4. /\ up[h] # <<>> /\ x.op = "ran" /\ up' = [up EXCEPT ![h] = Tail(@)]
        /\ mig' = [mig EXCEPT ![m].phase = "remove"]
        /\ down' = [down EXCEPT ![mig[m].src] = Append(@, y)]
        /\ UNCHANGED bindings /\ Length(m) = 0
        /\ UNCHANGED <<clusters, cluster_id, origin, hostVars, ipc, workerVars>>
    BY <1>1, <1>2, <1>3 DEF Ran, FromHost, Take, Call
  <1>5. /\ RootTypes /\ RootInv /\ \A n \in Mig : Ends(n)
        /\ up \in Queues /\ down \in Queues /\ Once /\ ChannelInv /\ Hosted /\ Entered
    BY CoreIs
  <1>6. x \in Message /\ x \in Sent /\ m \in Mig /\ Answered(h, x)
    BY <1>1, <1>2, <1>4, <1>5, Returned
  <1>7. mig[m].phase = "run" /\ Busy(m) /\ OnlyStrays(h)
    <2>1. mig[m].phase = Kind(x.op) /\ Busy(m)
      BY <1>1, <1>2, <1>4, AloneIs
    <2>2. OnlyStrays(h)
      BY <1>1, <1>4, AloneIs
    <2> QED BY <1>4, <2>1, <2>2, KindIs
  <1>8. PICK g \in Host : g = mig[m].src
    BY <1>5, <1>6, <1>7 DEF Ends
  <1>9. mig[m].old \in Cid
    BY <1>5, <1>6 DEF RootTypes, Migrating
  <1>10. y \in Message
    BY <1>3, <1>6, <1>9, MessagesAre
  <1>11. y.op = "remove_cluster" /\ y.m = m /\ y.cid = mig[m].old /\ Kind(y.op) = "remove"
    BY <1>3, KindIs
  <1>12. \A z \in Sent : Label(z) # Label(y)
    <2> SUFFICES ASSUME NEW z \in Sent, Label(z) = Label(y) PROVE FALSE
      OBVIOUS
    <2>1. z \in Message
      BY <1>5, SentIs
    <2>2. Kind(z.op) = "remove"
      BY <1>10, <1>11, <2>1, LabelIs
    <2>3. z.op \in {"remove_cluster", "removed"}
      BY <2>1, <2>2, MessageIs, OpsAre
    <2> QED BY <1>1, <1>4, <1>7, <2>3 DEF OnlyStrays
  <1>13. Tells(h, OneTold(g, y))
    <2>1. down' = [down EXCEPT ![g] = Append(@, y)]
      BY <1>4, <1>8
    <2> QED BY <1>4, <1>5, <1>10, <1>12, <2>1, TellsOne
  <1>14. PICK k, l : k = mig[m].bindCounter /\ l = mig[m].unbindCounter
    OBVIOUS
  <1>15. Goes(m, "remove", k, l)
    <2>1. "remove" \in Phase
      BY DEF Phase
    <2> QED BY <1>4, <1>5, <1>6, <1>14, <2>1, GoesIs
  <1>16. RootInv'
    BY <1>4, <1>5, <1>6, <1>7, <1>15, RootRanAlone
  <1>17. /\ mig' \in [Mig -> Migrating] /\ \A n \in Mig : n # m => mig'[n] = mig[n]
         /\ mig'[m].phase = "remove" /\ mig'[m].bindCounter = k /\ mig'[m].unbindCounter = l
         /\ mig'[m].old = mig[m].old /\ mig'[m].src = g
    BY <1>8, <1>15 DEF Goes
  <1>18. Timely(y)'
    BY <1>11, <1>17 DEF Timely
  <1>19. Called(g, y)'
    BY <1>11, <1>17 DEF Called
  <1>20. Suits(h, m, OneTold(g, y))
    BY <1>6, <1>7, <1>11, <1>17, <1>18, <1>19, SuitsOne
  <1>21. Owed(m)'
    <2>1. PICK n \in Nat : n = Length(m)'
      BY <1>6, <1>17, LengthIs
    <2>2. k = 0 /\ l = 0
      BY <1>5, <1>6, <1>7, <1>14 DEF Ends
    <2>3. 0 \in Nat /\ 0 <= n
      OBVIOUS
    <2>4. \A z \in Sent' : Kind(z.op) # "bind" /\ Kind(z.op) # "unbind"
      <3> SUFFICES ASSUME NEW z \in Sent' PROVE Kind(z.op) # "bind" /\ Kind(z.op) # "unbind"
        OBVIOUS
      <3>1. z.op = "unbind_cluster_process" \/ z = y
        BY <1>7, <1>13 DEF Tells, OneTold, OnlyStrays
      <3> QED BY <1>11, <3>1, KindIs
    <2> QED BY <1>6, <1>17, <2>1, <2>2, <2>3, <2>4, OwedNothing
  <1>22. Hosted' /\ Entered'
    <2>1. mig[m].new \in hosted[clusters[mig[m].new]] \cap crew
      <3>1. clusters[mig[m].new] = mig[m].dest
        BY <1>5, <1>6, <1>7 DEF Ends, Begun
      <3> QED BY <1>2, <1>4, <1>6, <3>1 DEF Answered
    <2>2. UNCHANGED <<clusters, cluster_id, hosted, crew, from_nodes>>
      BY <1>4 DEF hostVars
    <2>3. mig[m].phase # "remove"
      BY <1>7
    <2>4. Hosted'
      BY <1>5, <1>6, <1>17, <2>1, <2>2, <2>3, HostedOn
    <2> QED BY <1>5, <2>2, <2>4, EnteredOn
  <1>23. Head(up[h]).op \notin {"notify_binding", "get_workers"}
    BY <1>1, <1>4
  <1> QED BY <1>4, <1>6, <1>13, <1>16, <1>17, <1>20, <1>21, <1>22, <1>23, RootKeeps

LEMMA CoreRanOn ==
    ASSUME CoreInv, NEW h \in Host, Ran(h), Length(Head(up[h]).m) # 0
    PROVE  CoreInv'
  <1>1. PICK x : x = Head(up[h])
    OBVIOUS
  <1>2. PICK m : m = x.m
    OBVIOUS
  <1>3. PICK A : A = [g \in Host |-> BindCalls(g, m, Fresh(m))]
    OBVIOUS
  <1>4. /\ up[h] # <<>> /\ x.op = "ran" /\ up' = [up EXCEPT ![h] = Tail(@)]
        /\ mig' = [mig EXCEPT ![m].phase = "bind"]
        /\ down' = [g \in Host |-> down[g] \o BindCalls(g, m, Fresh(m))]
        /\ bindings' = bindings \o Handled(Fresh(m))
        /\ UNCHANGED <<clusters, cluster_id, origin, hostVars, ipc, workerVars>>
    BY <1>1, <1>2 DEF Ran, FromHost, Take, Fresh
  <1>5. /\ RootTypes /\ RootInv /\ Linked /\ \A n \in Mig : Ends(n) /\ Recorded(n)
        /\ up \in Queues /\ down \in Queues /\ Once /\ ChannelInv /\ Hosted /\ Entered
    BY CoreIs
  <1>6. x \in Message /\ x \in Sent /\ m \in Mig /\ Answered(h, x)
    BY <1>1, <1>2, <1>4, <1>5, Returned
  <1>7. mig[m].phase = "run" /\ Busy(m) /\ OnlyStrays(h)
    <2>1. mig[m].phase = Kind(x.op) /\ Busy(m)
      BY <1>1, <1>2, <1>4, AloneIs
    <2>2. OnlyStrays(h)
      BY <1>1, <1>4, AloneIs
    <2> QED BY <1>4, <2>1, <2>2, KindIs
  <1>8. /\ Fresh(m) \in Seq(Binding) /\ IsInjective(Fresh(m)) /\ Range(Fresh(m)) = NewPairs(m)
        /\ \A b \in Range(Fresh(m)) : Present(b.from) /\ Present(b.to)
    <2>1. Fresh(m) \in Seq(Binding) /\ IsInjective(Fresh(m)) /\ Range(Fresh(m)) = NewPairs(m)
      BY <1>5, <1>6, <1>7, NewPairsAre
    <2>2. \A b \in NewPairs(m) : Present(b.from) /\ Present(b.to)
      BY <1>5, <1>6, <1>7, NewPairsAre
    <2> QED BY <2>1, <2>2
  <1>9. clusters \in [Cid -> Host \cup {NoHost}] /\ NewPairs(m) \subseteq Binding
    BY <1>5, <1>6, PairsAre DEF RootTypes
  <1>10. ASSUME NEW g \in Host
         PROVE  /\ A[g] \in Seq(Message)
                /\ Range(A[g]) = {BindCall(m, b) : b \in {b \in NewPairs(m) : clusters[b.from] = g}}
                /\ \A i, j \in DOMAIN A[g] : Pair(A[g][i]) = Pair(A[g][j]) => i = j
    <2>1. A[g] = BindCalls(g, m, Fresh(m))
      BY <1>3
    <2>2. BindCalls(g, m, Fresh(m)) \in Seq(Message)
      BY <1>6, <1>8, <1>9, CallsAre
    <2>3. Range(BindCalls(g, m, Fresh(m)))
              = {BindCall(m, b) : b \in {b \in Range(Fresh(m)) : clusters[b.from] = g}}
      BY <1>6, <1>8, <1>9, CallsAre
    <2>4. \A i, j \in DOMAIN BindCalls(g, m, Fresh(m)) :
              Pair(BindCalls(g, m, Fresh(m))[i]) = Pair(BindCalls(g, m, Fresh(m))[j]) => i = j
      BY <1>6, <1>8, <1>9, CallsAre
    <2> QED BY <1>8, <2>1, <2>2, <2>3, <2>4
  <1>11. A \in Queues
    BY <1>3, <1>10 DEF Queues
  <1>12. ASSUME NEW g \in Host, NEW y \in Range(A[g])
         PROVE  /\ y.op = "bind_cluster" /\ y.m = m /\ clusters[y.from] = g
                /\ y.node = clusters[y.to] /\ Pair(y) \in NewPairs(m) /\ Kind(y.op) = "bind"
    <2>1. PICK b \in NewPairs(m) : y = BindCall(m, b) /\ clusters[b.from] = g
      <3>1. Range(A[g]) = {BindCall(m, b) : b \in {b \in NewPairs(m) : clusters[b.from] = g}}
        BY <1>10
      <3>2. y \in {BindCall(m, b) : b \in {b \in NewPairs(m) : clusters[b.from] = g}}
        BY <3>1
      <3> QED BY <3>2
    <2>2. /\ y.op = "bind_cluster" /\ y.m = m /\ y.from = b.from /\ y.to = b.to
          /\ y.node = clusters[b.to]
      BY <2>1 DEF BindCall
    <2>3. Pair(y) = b
      <3>1. b \in Binding
        BY <1>9
      <3> QED BY <2>2, <3>1 DEF Pair, Binding
    <2> QED BY <2>1, <2>2, <2>3, KindIs DEF BindOps
  <1>13. Alone(A)
    <2>1. \A g \in Host : \A y \in Range(A[g]) : y.op = "bind_cluster" /\ y.m = m /\ clusters[y.from] = g
      BY <1>12
    <2>2. \A g \in Host : \A i, j \in DOMAIN A[g] : Pair(A[g][i]) = Pair(A[g][j]) => i = j
      BY <1>10
    <2> QED BY <1>11, <2>1, <2>2, PairCalls
  <1>14. \A y \in Carried(A) : \A z \in Sent : Label(z) # Label(y)
    <2> SUFFICES ASSUME NEW y \in Carried(A), NEW z \in Sent, Label(z) = Label(y) PROVE FALSE
      OBVIOUS
    <2>1. z \in Message /\ y \in Message /\ \E g \in Host : y \in Range(A[g])
      BY <1>5, <1>11, SentIs, QueuesAre
    <2>2. Kind(y.op) = "bind"
      BY <1>12, <2>1
    <2>3. Kind(z.op) = "bind"
      BY <2>1, <2>2, LabelIs
    <2>4. z.op \in BindOps
      BY <2>1, <2>3, MessageIs, OpsAre
    <2> QED BY <1>1, <1>4, <1>7, <2>4 DEF OnlyStrays, BindOps
  <1>15. PICK N : N = [g \in Host |-> Range(A[g])]
    OBVIOUS
  <1>16. Tells(h, N)
    <2>1. down' = [g \in Host |-> down[g] \o A[g]]
      BY <1>3, <1>4
    <2>2. Tells(h, [g \in Host |-> Range(A[g])])
      BY <1>4, <1>5, <1>11, <1>13, <1>14, <2>1, TellsAll
    <2> QED BY <1>15, <2>2
  <1>17. PICK k, l : k = mig[m].bindCounter /\ l = mig[m].unbindCounter
    OBVIOUS
  <1>18. k = 0 /\ l = 0
    BY <1>5, <1>6, <1>7, <1>17 DEF Ends
  <1>19. Goes(m, "bind", k, l)
    <2>1. "bind" \in Phase
      BY DEF Phase
    <2> QED BY <1>4, <1>5, <1>6, <1>17, <2>1, GoesIs
  <1>20. RootInv' /\ NewPairs(m)' = NewPairs(m)
    BY <1>4, <1>5, <1>6, <1>7, <1>17, <1>19, RootRan
  <1>21. /\ mig' \in [Mig -> Migrating] /\ \A n \in Mig : n # m => mig'[n] = mig[n]
         /\ mig'[m].phase = "bind" /\ mig'[m].bindCounter = 0 /\ mig'[m].unbindCounter = 0
         /\ mig'[m].ins = mig[m].ins /\ mig'[m].outs = mig[m].outs
    BY <1>18, <1>19 DEF Goes
  <1>22. ASSUME NEW g \in Host, NEW y \in N[g]
         PROVE  /\ y.m = m /\ Timely(y)' /\ Called(g, y)' /\ y.op = "bind_cluster"
    <2>1. y \in Range(A[g])
      BY <1>15
    <2>2. /\ y.op = "bind_cluster" /\ y.m = m /\ clusters[y.from] = g
          /\ y.node = clusters[y.to] /\ Pair(y) \in NewPairs(m) /\ Kind(y.op) = "bind"
      BY <1>12, <2>1
    <2>3. Timely(y)'
      BY <1>20, <1>21, <2>2 DEF Timely, Pair
    <2>4. Called(g, y)'
      BY <1>4, <2>2 DEF Called
    <2> QED BY <2>2, <2>3, <2>4
  <1>23. Suits(h, m, N)
    <2>1. \A g \in Host : \A y \in N[g] : y.m = m /\ Timely(y)' /\ Called(g, y)'
      BY <1>22
    <2>2. \A g \in Host : \A y \in N[g] :
              y.op \notin {"notify_binding", "unbind_cluster_process"} /\ y.op # "unbind_cluster"
      BY <1>22
    <2> QED BY <1>6, <1>7, <1>21, <2>1, <2>2, SuitsStrays
  <1>24. Owed(m)'
    <2>1. Length(m)' = Length(m)
      BY <1>21 DEF Length
    <2>2. Length(m) \in Nat /\ IsFiniteSet(NewPairs(m)) /\ Cardinality(NewPairs(m)) <= Length(m)
      BY <1>5, <1>6, PairsAre
    <2>3. PICK C : C = BindsComing(m)'
      OBVIOUS
    <2>4. C \subseteq NewPairs(m)
      BY <1>20, <2>3 DEF BindsComing, Coming
    <2>5. {} \subseteq C
      OBVIOUS
    <2>6. Cardinality(C) \in Nat /\ Cardinality(C) <= Cardinality(NewPairs(m))
      BY <2>2, <2>4, <2>5, Fewer
    <2>7. Cardinality(NewPairs(m)) \in Nat
      BY <2>2, FS_CardinalityType
    <2>8. 0 + Cardinality(C) <= Length(m)
      BY <2>2, <2>6, <2>7
    <2>9. UnbindsComing(m)' = {}
      <3>1. \A z \in Sent' : Kind(z.op) # "unbind"
        <4> SUFFICES ASSUME NEW z \in Sent' PROVE Kind(z.op) # "unbind"
          OBVIOUS
        <4>1. z.op = "unbind_cluster_process" \/ z.op = "bind_cluster"
          BY <1>7, <1>16, <1>22 DEF Tells, OnlyStrays
        <4> QED BY <4>1, KindIs DEF BindOps
      <3> QED BY <3>1 DEF UnbindsComing, Coming
    <2>10. Cardinality({}) = 0 /\ 0 + 0 <= Length(m)
      BY <2>2, FS_EmptySet
    <2> QED BY <1>21, <2>1, <2>3, <2>8, <2>9, <2>10 DEF Owed
  <1>25. Hosted' /\ Entered'
    <2>1. mig[m].new \in hosted[clusters[mig[m].new]] \cap crew
      <3>1. clusters[mig[m].new] = mig[m].dest
        BY <1>5, <1>6, <1>7 DEF Ends, Begun
      <3> QED BY <1>2, <1>4, <1>6, <3>1 DEF Answered
    <2>2. UNCHANGED <<clusters, cluster_id, hosted, crew, from_nodes>>
      BY <1>4 DEF hostVars
    <2>3. mig[m].phase # "remove"
      BY <1>7
    <2>4. Hosted'
      BY <1>5, <1>6, <1>21, <2>1, <2>2, <2>3, HostedOn
    <2> QED BY <1>5, <2>2, <2>4, EnteredOn
  <1>26. Head(up[h]).op \notin {"notify_binding", "get_workers"}
    BY <1>1, <1>4
  <1> QED BY <1>4, <1>6, <1>16, <1>20, <1>21, <1>23, <1>24, <1>25, <1>26, RootKeeps

\* No two binds, and no two unbinds, of a migration are about one pair.
LEMMA OneOfPair ==
    ASSUME up \in Queues, down \in Queues, Once, NEW x \in Sent, NEW y \in Sent,
           x.m = y.m, Kind(x.op) = Kind(y.op), Kind(x.op) \in {"bind", "unbind"}, Pair(x) = Pair(y)
    PROVE  x = y
  <1>1. x \in Message /\ y \in Message
    BY SentIs
  <1>2. x.op \in PairOps /\ y.op \in PairOps
    BY <1>1, MessageIs, OpsAre
  <1>3. x.from = y.from /\ x.to = y.to
    BY <1>1, <1>2, PairIs
  <1>4. Label(x) = Label(y)
    BY <1>1, <1>3, LabelIs
  <1> QED BY <1>4, OneOfLabel

\* When as many are counted as there are pairs but one, one message about them is left.
LEMMA OnlyOne ==
    ASSUME up \in Queues, down \in Queues, Once, NEW m, NEW kind \in {"bind", "unbind"},
           NEW x \in Sent, x.m = m, Kind(x.op) = kind, NEW P, IsFiniteSet(P), Pair(x) \in P,
           NEW k \in Nat, NEW n \in Nat, k + Cardinality(Coming(m, P, kind)) <= n, k + 1 = n,
           NEW y \in Sent, y.m = m, Kind(y.op) = kind, Pair(y) \in P
    PROVE  y = x
  <1>1. PICK C : C = Coming(m, P, kind)
    OBVIOUS
  <1>2. C \subseteq P /\ Pair(x) \in C /\ Pair(y) \in C /\ {} \subseteq C
    BY <1>1 DEF Coming
  <1>3. Cardinality(C) \in Nat
    BY <1>2, Fewer
  <1>4. Cardinality(C) <= 1
    BY <1>1, <1>3
  <1>5. Cardinality(C) <= 1 => \A p, q \in C : p = q
    BY <1>2, Fewer
  <1>6. Pair(x) = Pair(y)
    BY <1>2, <1>4, <1>5
  <1> QED BY <1>6, OneOfPair

\* The pairs to come when one message about them, x, is gone and nothing is new.
LEMMA OneLess ==
    ASSUME up \in Queues, down \in Queues, Once, NEW m, NEW kind \in {"bind", "unbind"},
           NEW x \in Sent, x.m = m, Kind(x.op) = kind, NEW P, IsFiniteSet(P), Pair(x) \in P,
           NEW k \in Nat, NEW n \in Nat, k + Cardinality(Coming(m, P, kind)) <= n,
           \A y \in Sent' : y \in Sent /\ y # x
    PROVE  k + 1 <= n /\ (k + 1) + Cardinality(Coming(m, P, kind)') <= n
  <1>1. PICK C : C = Coming(m, P, kind)
    OBVIOUS
  <1>2. PICK D : D = Coming(m, P, kind)'
    OBVIOUS
  <1>3. C \subseteq P /\ Pair(x) \in C
    BY <1>1 DEF Coming
  <1>4. ASSUME NEW p \in D PROVE p \in C /\ p # Pair(x)
    <2>1. p \in P /\ \E y \in Sent' : y.m = m /\ Kind(y.op) = kind /\ Pair(y) = p
      BY <1>2 DEF Coming, Pair
    <2>2. PICK y \in Sent' : y.m = m /\ Kind(y.op) = kind /\ Pair(y) = p
      BY <2>1
    <2>3. y \in Sent /\ y # x
      OBVIOUS
    <2>4. p # Pair(x)
      BY <2>2, <2>3, OneOfPair
    <2> QED BY <1>1, <2>1, <2>2, <2>3, <2>4 DEF Coming
  <1>5. D \subseteq C /\ \E p \in C : p \notin D
    BY <1>3, <1>4
  <1>6. /\ Cardinality(C) \in Nat /\ Cardinality(D) \in Nat
        /\ Cardinality(D) + 1 <= Cardinality(C)
    BY <1>3, <1>5, Fewer
  <1>7. k + 1 <= n /\ (k + 1) + Cardinality(D) <= n
    BY <1>1, <1>6
  <1> QED BY <1>2, <1>7

\* An answer to a bind or an unbind, and what its counter knows of it.
LEMMA CountedIs ==
    ASSUME CoreInv, NEW h \in Host, up[h] # <<>>, Head(up[h]).op \in {"bound", "unbound"},
           NEW m, m = Head(up[h]).m, NEW x, x = Head(up[h])
    PROVE  /\ x \in Sent /\ x \in Message /\ m \in Mig /\ Busy(m) /\ Begun(m)
           /\ x.op = "bound" => /\ Kind(x.op) = "bind" /\ mig[m].phase = "bind"
                                /\ Pair(x) \in NewPairs(m)
           /\ x.op = "unbound" => /\ Kind(x.op) = "unbind" /\ mig[m].phase = "unbind"
                                  /\ Pair(x) \in OldPairs(m)
  <1>1. ChannelInv
    BY CoreIs
  <1>2. x \in Message /\ x \in Sent /\ m \in Mig /\ Timely(x)
    BY <1>1, Returned
  <1>3. (x.op = "bound" => Kind(x.op) = "bind") /\ (x.op = "unbound" => Kind(x.op) = "unbind")
    BY KindIs DEF BindOps, UnbindOps
  <1>4. x.op = "bound" => mig[m].phase = "bind" /\ Pair(x) \in NewPairs(m)
    BY <1>2, <1>3 DEF Timely
  <1>5. x.op = "unbound" => mig[m].phase = "unbind" /\ Pair(x) \in OldPairs(m)
    BY <1>2, <1>3 DEF Timely
  <1> QED BY <1>2, <1>3, <1>4, <1>5 DEF Busy, Begun

\* The last answer of a phase is the last message of it.
LEMMA LastIs ==
    ASSUME CoreInv, NEW h \in Host, up[h] # <<>>, NEW m, m = Head(up[h]).m,
           \/ Head(up[h]).op = "bound" /\ AllBound(m)
           \/ Head(up[h]).op = "unbound" /\ AllUnbound(m)
    PROVE  OnlyStrays(h)
  <1>1. PICK x : x = Head(up[h])
    OBVIOUS
  <1>2. /\ RootTypes /\ InTurn /\ up \in Queues /\ down \in Queues /\ Once /\ Addressed
        /\ BindsCounted /\ UnbindsCounted /\ Asked
    BY CoreIs
  <1>3. /\ x \in Sent /\ x \in Message /\ m \in Mig /\ Busy(m)
        /\ x.op = "bound" => /\ Kind(x.op) = "bind" /\ mig[m].phase = "bind"
                             /\ Pair(x) \in NewPairs(m)
        /\ x.op = "unbound" => /\ Kind(x.op) = "unbind" /\ mig[m].phase = "unbind"
                               /\ Pair(x) \in OldPairs(m)
    BY <1>1, CountedIs
  <1>4. PICK k, l, n : k = mig[m].bindCounter /\ l = mig[m].unbindCounter /\ n = Length(m)
    OBVIOUS
  <1>5. k \in Nat /\ l \in Nat
    BY <1>2, <1>3, <1>4, GoesIs
  <1>6. n \in Nat /\ IsFiniteSet(NewPairs(m)) /\ IsFiniteSet(OldPairs(m))
    BY <1>2, <1>3, <1>4, PairsAre
  <1>7. ASSUME NEW y \in Sent, y.m = m, Kind(y.op) = mig[m].phase PROVE y = x
    <2>1. Timely(y)
      BY <1>2 DEF Addressed
    <2>2. CASE x.op = "bound"
      <3>1. k + Cardinality(Coming(m, NewPairs(m), "bind")) <= n
        BY <1>2, <1>3, <1>4 DEF BindsCounted, BindsComing
      <3>2. PICK P : P = NewPairs(m)
        OBVIOUS
      <3>3. k + Cardinality(Coming(m, P, "bind")) <= n
        BY <3>1, <3>2
      <3>4. IsFiniteSet(P) /\ Pair(x) \in P /\ x.m = m /\ Kind(x.op) = "bind"
        BY <1>1, <1>3, <1>6, <2>2, <3>2
      <3>5. k + 1 = n
        BY <1>1, <1>4, <2>2 DEF AllBound
      <3>6. Pair(y) \in P /\ Kind(y.op) = "bind"
        BY <1>3, <1>7, <2>1, <2>2, <3>2 DEF Timely
      <3> QED BY <1>2, <1>3, <1>5, <1>6, <1>7, <3>3, <3>4, <3>5, <3>6, OnlyOne
    <2>3. CASE x.op = "unbound"
      <3>1. l + Cardinality(Coming(m, OldPairs(m), "unbind")) <= n
        BY <1>2, <1>3, <1>4 DEF UnbindsCounted, UnbindsComing
      <3>2. PICK P : P = OldPairs(m)
        OBVIOUS
      <3>3. l + Cardinality(Coming(m, P, "unbind")) <= n
        BY <3>1, <3>2
      <3>4. IsFiniteSet(P) /\ Pair(x) \in P /\ x.m = m /\ Kind(x.op) = "unbind"
        BY <1>1, <1>3, <1>6, <2>3, <3>2
      <3>5. l + 1 = n
        BY <1>1, <1>4, <2>3 DEF AllUnbound
      <3>6. Pair(y) \in P /\ Kind(y.op) = "unbind"
        BY <1>3, <1>7, <2>1, <2>3, <3>2 DEF Timely
      <3> QED BY <1>2, <1>3, <1>5, <1>6, <1>7, <3>3, <3>4, <3>5, <3>6, OnlyOne
    <2> QED BY <1>1, <2>2, <2>3
  <1>8. ASSUME NEW y \in Sent, y # x PROVE y.op = "unbind_cluster_process"
    <2>1. y \in Message /\ Timely(y)
      BY <1>2, SentIs DEF Addressed
    <2>2. y.m = m \/ (y.op = "unbind_cluster_process" /\ mig[y.m].phase = "done")
      BY <1>2, <1>3, <2>1, Speaks
    <2>3. y.m = m => \/ Kind(y.op) = mig[m].phase
                     \/ y.op = "notify_binding" /\ mig[m].phase = "bind"
                     \/ y.op = "unbind_cluster_process" /\ mig[m].phase \in {"unbind", "remove"}
      BY <1>2, <1>3, <2>1, Speaks
    <2>4. ASSUME y.m = m, y.op = "notify_binding", mig[m].phase = "bind" PROVE FALSE
      <3>1. PICK z \in Sent : Asks(z, y)
        BY <1>2, <2>4, ToldIsAsked
      <3>2. z.op = "get_workers" /\ z.m = m
        BY <2>4, <3>1 DEF Asks
      <3>3. Kind(z.op) = "bind"
        BY <3>2, KindIs DEF BindOps
      <3>4. z = x
        BY <1>7, <2>4, <3>2, <3>3
      <3> QED BY <1>1, <3>2, <3>4
    <2> QED BY <1>7, <1>8, <2>2, <2>3, <2>4
  <1> QED BY <1>1, <1>8 DEF OnlyStrays

\* What was said stays true when only a counter goes up.
LEMMA SuitsSame ==
    ASSUME CoreInv, NEW h \in Host, NEW m \in Mig, NEW k, NEW l, Goes(m, mig[m].phase, k, l),
           UNCHANGED <<clusters, hosted, crew>>
    PROVE  Suits(h, m, NoneTold)
  <1>1. up \in Queues /\ down \in Queues /\ Addressed
    BY CoreIs
  <1>2. \A f \in Host : \A z \in NoneTold[f] : FALSE
    BY DEF NoneTold
  <1>3. ASSUME NEW n \in Mig
        PROVE  /\ mig'[n].phase = mig[n].phase /\ mig'[n].src = mig[n].src /\ mig'[n].dest = mig[n].dest
               /\ mig'[n].old = mig[n].old /\ mig'[n].new = mig[n].new
               /\ mig'[n].ins = mig[n].ins /\ mig'[n].outs = mig[n].outs
    BY DEF Goes
  <1>4. \A n \in Mig : NewPairs(n)' = NewPairs(n) /\ OldPairs(n)' = OldPairs(n)
    BY <1>3 DEF NewPairs, OldPairs
  <1>5. ASSUME NEW y \in Sent
        PROVE  /\ Timely(y)'
               /\ \A g \in Host : Called(g, y) => Called(g, y)'
               /\ \A g \in Host : Answered(g, y) => Answered(g, y)'
    <2>1. y \in Message /\ y.m \in Mig /\ Timely(y)
      BY <1>1, SentIs, MessageIs DEF Addressed
    <2>2. PICK n \in Mig : n = y.m
      BY <2>1
    <2>3. Timely(y)'
      BY <1>3, <1>4, <2>1 DEF Timely, Pair
    <2>4. \A g \in Host : Called(g, y) => Called(g, y)'
      BY <1>3, <2>1 DEF Called
    <2>5. \A g \in Host : Answered(g, y) => Answered(g, y)'
      BY <1>3, <2>1 DEF Answered
    <2> QED BY <2>3, <2>4, <2>5
  <1>6. \A g \in Host : \A y \in Range(down[g]) : y \in Sent /\ Called(g, y)
    BY <1>1, SentIs DEF Addressed
  <1>7. \A g \in Host : \A y \in Range(up[g]) : y \in Sent /\ Answered(g, y)
    BY <1>1, SentIs DEF Addressed
  <1>8. \A g \in Host : \A y \in Range(down[g]) : Called(g, y)'
    BY <1>5, <1>6
  <1>9. \A g \in Host : \A y \in Range(up[g]) : Answered(g, y)'
    BY <1>5, <1>7
  <1>10. \A y \in Sent : Timely(y)'
    BY <1>5
  <1> QED BY <1>2, <1>8, <1>9, <1>10 DEF Suits

\* A bind is done, and others are not.
LEMMA CoreBoundOn ==
    ASSUME CoreInv, NEW h \in Host, Bound(h), ~ AllBound(Head(up[h]).m)
    PROVE  CoreInv'
  <1>1. PICK x : x = Head(up[h])
    OBVIOUS
  <1>2. PICK m : m = x.m
    OBVIOUS
  <1>3. /\ up[h] # <<>> /\ x.op = "bound" /\ up' = [up EXCEPT ![h] = Tail(@)]
        /\ mig' = [mig EXCEPT ![m].bindCounter = @ + 1]
        /\ UNCHANGED <<bindings, down>>
        /\ UNCHANGED <<clusters, cluster_id, origin, hostVars, ipc, workerVars>>
    BY <1>1, <1>2 DEF Bound, FromHost, Take
  <1>4. /\ RootTypes /\ RootInv /\ \A n \in Mig : Ends(n)
        /\ up \in Queues /\ down \in Queues /\ Once /\ BindsCounted /\ UnbindsCounted
        /\ Hosted /\ Entered
    BY CoreIs
  <1>5. /\ x \in Sent /\ x \in Message /\ m \in Mig /\ Busy(m)
        /\ Kind(x.op) = "bind" /\ mig[m].phase = "bind" /\ Pair(x) \in NewPairs(m)
    BY <1>1, <1>2, <1>3, CountedIs
  <1>6. PICK k, l, n : k = mig[m].bindCounter /\ l = mig[m].unbindCounter /\ n = Length(m)
    OBVIOUS
  <1>7. k \in Nat /\ l \in Nat
    BY <1>4, <1>5, <1>6, GoesIs
  <1>8. n \in Nat /\ IsFiniteSet(NewPairs(m)) /\ IsFiniteSet(OldPairs(m))
    BY <1>4, <1>5, <1>6, PairsAre
  <1>9. Tells(h, NoneTold)
    BY <1>3, <1>4, TellsNone
  <1>10. Goes(m, mig[m].phase, k + 1, l)
    BY <1>3, <1>4, <1>5, <1>6, GoesIs
  <1>11. RootInv'
    BY <1>3, <1>4, <1>5, <1>6, <1>10, RootCounts
  <1>12. UNCHANGED <<clusters, cluster_id, hosted, crew, from_nodes>>
    BY <1>3 DEF hostVars
  <1>13. Suits(h, m, NoneTold)
    BY <1>5, <1>10, <1>12, SuitsSame
  <1>14. /\ \A i \in Mig : i # m => mig'[i] = mig[i]
         /\ mig'[m].bindCounter = k + 1 /\ mig'[m].unbindCounter = l
         /\ mig'[m].ins = mig[m].ins /\ mig'[m].outs = mig[m].outs /\ mig'[m].new = mig[m].new
    BY <1>10 DEF Goes
  <1>15. up' \in Queues /\ down' \in Queues /\ \A y \in Sent' : y \in Sent /\ y # x
    BY <1>1, <1>9 DEF Tells, NoneTold
  <1>16. PICK P, O : P = NewPairs(m) /\ O = OldPairs(m)
    OBVIOUS
  <1>17. Length(m)' = n /\ P = NewPairs(m)' /\ O = OldPairs(m)'
    BY <1>6, <1>14, <1>16 DEF Length, NewPairs, OldPairs
  <1>18. (k + 1) + Cardinality(Coming(m, P, "bind")') <= n
    <2>1. k + Cardinality(Coming(m, P, "bind")) <= n
      BY <1>4, <1>5, <1>6, <1>16 DEF BindsCounted, BindsComing
    <2>2. IsFiniteSet(P) /\ Pair(x) \in P /\ x.m = m /\ Kind(x.op) = "bind"
      BY <1>2, <1>5, <1>8, <1>16
    <2> QED BY <1>4, <1>5, <1>7, <1>8, <1>15, <2>1, <2>2, OneLess
  <1>19. l + Cardinality(Coming(m, O, "unbind")') <= n
    <2>1. Coming(m, O, "unbind")' \subseteq Coming(m, O, "unbind")
      BY <1>4, <1>15, ComingRests
    <2>2. PICK C : C = Coming(m, O, "unbind")
      OBVIOUS
    <2>3. PICK D : D = Coming(m, O, "unbind")'
      OBVIOUS
    <2>4. D \subseteq C /\ C \subseteq O /\ IsFiniteSet(O)
      BY <1>8, <1>16, <2>1, <2>2, <2>3 DEF Coming
    <2>5. Cardinality(C) \in Nat /\ Cardinality(D) \in Nat /\ Cardinality(D) <= Cardinality(C)
      BY <2>4, Fewer
    <2>6. l + Cardinality(C) <= n
      BY <1>4, <1>5, <1>6, <1>16, <2>2 DEF UnbindsCounted, UnbindsComing
    <2>7. l + Cardinality(D) <= n
      BY <1>7, <1>8, <2>5, <2>6
    <2> QED BY <2>3, <2>7
  <1>20. Owed(m)'
    <2>1. BindsComing(m)' = Coming(m, P, "bind")' /\ UnbindsComing(m)' = Coming(m, O, "unbind")'
      BY <1>17 DEF BindsComing, UnbindsComing, Coming
    <2> QED BY <1>14, <1>17, <1>18, <1>19, <2>1 DEF Owed
  <1>21. Hosted' /\ Entered'
    <2>1. mig[m].phase # "run" /\ mig[m].phase # "remove"
      BY <1>5
    <2>2. Hosted'
      BY <1>4, <1>5, <1>12, <1>14, <2>1, HostedOn
    <2> QED BY <1>4, <1>12, <2>2, EnteredOn
  <1>22. Head(up[h]).op \notin {"notify_binding", "get_workers"}
    BY <1>1, <1>3
  <1> QED BY <1>3, <1>5, <1>9, <1>11, <1>13, <1>14, <1>20, <1>21, <1>22, RootKeeps

LEMMA CoreUnboundOn ==
    ASSUME CoreInv, NEW h \in Host, Unbound(h), ~ AllUnbound(Head(up[h]).m)
    PROVE  CoreInv'
  <1>1. PICK x : x = Head(up[h])
    OBVIOUS
  <1>2. PICK m : m = x.m
    OBVIOUS
  <1>3. /\ up[h] # <<>> /\ x.op = "unbound" /\ up' = [up EXCEPT ![h] = Tail(@)]
        /\ mig' = [mig EXCEPT ![m].unbindCounter = @ + 1]
        /\ UNCHANGED <<bindings, down>>
        /\ UNCHANGED <<clusters, cluster_id, origin, hostVars, ipc, workerVars>>
    BY <1>1, <1>2 DEF Unbound, FromHost, Take
  <1>4. /\ RootTypes /\ RootInv /\ \A n \in Mig : Ends(n)
        /\ up \in Queues /\ down \in Queues /\ Once /\ BindsCounted /\ UnbindsCounted
        /\ Hosted /\ Entered
    BY CoreIs
  <1>5. /\ x \in Sent /\ x \in Message /\ m \in Mig /\ Busy(m)
        /\ Kind(x.op) = "unbind" /\ mig[m].phase = "unbind" /\ Pair(x) \in OldPairs(m)
    BY <1>1, <1>2, <1>3, CountedIs
  <1>6. PICK k, l, n : k = mig[m].bindCounter /\ l = mig[m].unbindCounter /\ n = Length(m)
    OBVIOUS
  <1>7. k \in Nat /\ l \in Nat
    BY <1>4, <1>5, <1>6, GoesIs
  <1>8. n \in Nat /\ IsFiniteSet(NewPairs(m)) /\ IsFiniteSet(OldPairs(m))
    BY <1>4, <1>5, <1>6, PairsAre
  <1>9. Tells(h, NoneTold)
    BY <1>3, <1>4, TellsNone
  <1>10. Goes(m, mig[m].phase, k, l + 1)
    BY <1>3, <1>4, <1>5, <1>6, GoesIs
  <1>11. RootInv'
    BY <1>3, <1>4, <1>5, <1>6, <1>10, RootCounts
  <1>12. UNCHANGED <<clusters, cluster_id, hosted, crew, from_nodes>>
    BY <1>3 DEF hostVars
  <1>13. Suits(h, m, NoneTold)
    BY <1>5, <1>10, <1>12, SuitsSame
  <1>14. /\ \A i \in Mig : i # m => mig'[i] = mig[i]
         /\ mig'[m].bindCounter = k /\ mig'[m].unbindCounter = l + 1
         /\ mig'[m].ins = mig[m].ins /\ mig'[m].outs = mig[m].outs /\ mig'[m].new = mig[m].new
    BY <1>10 DEF Goes
  <1>15. up' \in Queues /\ down' \in Queues /\ \A y \in Sent' : y \in Sent /\ y # x
    BY <1>1, <1>9 DEF Tells, NoneTold
  <1>16. PICK P, O : P = NewPairs(m) /\ O = OldPairs(m)
    OBVIOUS
  <1>17. Length(m)' = n /\ P = NewPairs(m)' /\ O = OldPairs(m)'
    BY <1>6, <1>14, <1>16 DEF Length, NewPairs, OldPairs
  <1>18. (l + 1) + Cardinality(Coming(m, O, "unbind")') <= n
    <2>1. l + Cardinality(Coming(m, O, "unbind")) <= n
      BY <1>4, <1>5, <1>6, <1>16 DEF UnbindsCounted, UnbindsComing
    <2>2. IsFiniteSet(O) /\ Pair(x) \in O /\ x.m = m /\ Kind(x.op) = "unbind"
      BY <1>2, <1>5, <1>8, <1>16
    <2> QED BY <1>4, <1>5, <1>7, <1>8, <1>15, <2>1, <2>2, OneLess
  <1>19. k + Cardinality(Coming(m, P, "bind")') <= n
    <2>1. Coming(m, P, "bind")' \subseteq Coming(m, P, "bind")
      BY <1>4, <1>15, ComingRests
    <2>2. PICK C : C = Coming(m, P, "bind")
      OBVIOUS
    <2>3. PICK D : D = Coming(m, P, "bind")'
      OBVIOUS
    <2>4. D \subseteq C /\ C \subseteq P /\ IsFiniteSet(P)
      BY <1>8, <1>16, <2>1, <2>2, <2>3 DEF Coming
    <2>5. Cardinality(C) \in Nat /\ Cardinality(D) \in Nat /\ Cardinality(D) <= Cardinality(C)
      BY <2>4, Fewer
    <2>6. k + Cardinality(C) <= n
      BY <1>4, <1>5, <1>6, <1>16, <2>2 DEF BindsCounted, BindsComing
    <2>7. k + Cardinality(D) <= n
      BY <1>7, <1>8, <2>5, <2>6
    <2> QED BY <2>3, <2>7
  <1>20. Owed(m)'
    <2>1. BindsComing(m)' = Coming(m, P, "bind")' /\ UnbindsComing(m)' = Coming(m, O, "unbind")'
      BY <1>17 DEF BindsComing, UnbindsComing, Coming
    <2> QED BY <1>14, <1>17, <1>18, <1>19, <2>1 DEF Owed
  <1>21. Hosted' /\ Entered'
    <2>1. mig[m].phase # "run" /\ mig[m].phase # "remove"
      BY <1>5
    <2>2. Hosted'
      BY <1>4, <1>5, <1>12, <1>14, <2>1, HostedOn
    <2> QED BY <1>4, <1>12, <2>2, EnteredOn
  <1>22. Head(up[h]).op \notin {"notify_binding", "get_workers"}
    BY <1>1, <1>3
  <1> QED BY <1>3, <1>5, <1>9, <1>11, <1>13, <1>14, <1>20, <1>21, <1>22, RootKeeps

\* Every bind is done: the root calls for the unbinds.
LEMMA CoreBoundLast ==
    ASSUME CoreInv, NEW h \in Host, Bound(h), AllBound(Head(up[h]).m)
    PROVE  CoreInv'
  <1>1. PICK x : x = Head(up[h])
    OBVIOUS
  <1>2. PICK m : m = x.m
    OBVIOUS
  <1>3. PICK pairs : pairs = mig[m].ins \o mig[m].outs
    OBVIOUS
  <1>4. /\ up[h] # <<>> /\ x.op = "bound" /\ up' = [up EXCEPT ![h] = Tail(@)]
        /\ mig' = [mig EXCEPT ![m].bindCounter = @ + 1, ![m].phase = "unbind"]
        /\ down' = [g \in Host |-> down[g] \o UnbindCalls(g, m, pairs)]
        /\ bindings' = UnbindAll(pairs)
        /\ UNCHANGED <<clusters, cluster_id, origin, hostVars, ipc, workerVars>>
    BY <1>1, <1>2, <1>3 DEF Bound, FromHost, Take
  <1>5. /\ RootTypes /\ RootInv /\ InTurn /\ Linked /\ \A n \in Mig : Ends(n) /\ Recorded(n)
        /\ up \in Queues /\ down \in Queues /\ Once /\ Addressed /\ BindsCounted
        /\ Hosted /\ Entered
    BY CoreIs
  <1>6. x \in Message /\ x \in Sent /\ m \in Mig /\ mig[m].phase = "bind" /\ Busy(m) /\ Begun(m)
    BY <1>1, <1>2, <1>4, CountedIs
  <1>7. OnlyStrays(h)
    BY <1>1, <1>2, <1>4, LastIs
  <1>8. /\ pairs \in Seq(Binding) /\ IsInjective(pairs) /\ Range(pairs) = OldPairs(m)
        /\ \A b \in Range(pairs) : Present(b.from) /\ Present(b.to)
    <2>1. /\ mig[m].ins \o mig[m].outs \in Seq(Binding)
          /\ IsInjective(mig[m].ins \o mig[m].outs)
          /\ Range(mig[m].ins \o mig[m].outs) = OldPairs(m)
          /\ OldPairs(m) = {b \in Bindings : mig[m].old \in {b.from, b.to}}
      BY <1>5, <1>6, OldPairsAre
    <2>2. \A b \in OldPairs(m) : Present(b.from) /\ Present(b.to)
      BY <1>5, <2>1 DEF Linked
    <2> QED BY <1>3, <2>1, <2>2
  <1>9. clusters \in [Cid -> Host \cup {NoHost}] /\ OldPairs(m) \subseteq Binding
    BY <1>5, <1>6, PairsAre DEF RootTypes
  <1>10. PICK A : A = [g \in Host |-> UnbindCalls(g, m, pairs)]
    OBVIOUS
  <1>11. ASSUME NEW g \in Host
         PROVE  /\ A[g] \in Seq(Message)
                /\ Range(A[g]) = {UnbindCall(m, b) : b \in {b \in OldPairs(m) : clusters[b.from] = g}}
                /\ \A i, j \in DOMAIN A[g] : Pair(A[g][i]) = Pair(A[g][j]) => i = j
    <2>1. A[g] = UnbindCalls(g, m, pairs)
      BY <1>10
    <2>2. UnbindCalls(g, m, pairs) \in Seq(Message)
      BY <1>6, <1>8, <1>9, CallsAre
    <2>3. Range(UnbindCalls(g, m, pairs))
              = {UnbindCall(m, b) : b \in {b \in Range(pairs) : clusters[b.from] = g}}
      BY <1>6, <1>8, <1>9, CallsAre
    <2>4. \A i, j \in DOMAIN UnbindCalls(g, m, pairs) :
              Pair(UnbindCalls(g, m, pairs)[i]) = Pair(UnbindCalls(g, m, pairs)[j]) => i = j
      BY <1>6, <1>8, <1>9, CallsAre
    <2> QED BY <1>8, <2>1, <2>2, <2>3, <2>4
  <1>12. A \in Queues
    BY <1>10, <1>11 DEF Queues
  <1>13. ASSUME NEW g \in Host, NEW y \in Range(A[g])
         PROVE  /\ y.op = "unbind_cluster" /\ y.m = m /\ clusters[y.from] = g
                /\ Pair(y) \in OldPairs(m) /\ Kind(y.op) = "unbind"
    <2>1. PICK b \in OldPairs(m) : y = UnbindCall(m, b) /\ clusters[b.from] = g
      <3>1. Range(A[g]) = {UnbindCall(m, b) : b \in {b \in OldPairs(m) : clusters[b.from] = g}}
        BY <1>11
      <3>2. y \in {UnbindCall(m, b) : b \in {b \in OldPairs(m) : clusters[b.from] = g}}
        BY <3>1
      <3> QED BY <3>2
    <2>2. y.op = "unbind_cluster" /\ y.m = m /\ y.from = b.from /\ y.to = b.to
      BY <2>1 DEF UnbindCall
    <2>3. Pair(y) = b
      <3>1. b \in Binding
        BY <1>9
      <3> QED BY <2>2, <3>1 DEF Pair, Binding
    <2> QED BY <2>1, <2>2, <2>3, KindIs DEF UnbindOps
  <1>14. Alone(A)
    <2>1. \A g \in Host : \A y \in Range(A[g]) : y.op = "unbind_cluster" /\ y.m = m /\ clusters[y.from] = g
      BY <1>13
    <2>2. \A g \in Host : \A i, j \in DOMAIN A[g] : Pair(A[g][i]) = Pair(A[g][j]) => i = j
      BY <1>11
    <2> QED BY <1>12, <2>1, <2>2, PairCalls
  <1>15. \A y \in Carried(A) : \A z \in Sent : Label(z) # Label(y)
    <2> SUFFICES ASSUME NEW y \in Carried(A), NEW z \in Sent, Label(z) = Label(y) PROVE FALSE
      OBVIOUS
    <2>1. z \in Message /\ y \in Message /\ \E g \in Host : y \in Range(A[g])
      BY <1>5, <1>12, SentIs, QueuesAre
    <2>2. Kind(y.op) = "unbind"
      BY <1>13, <2>1
    <2>3. Kind(z.op) = "unbind"
      BY <2>1, <2>2, LabelIs
    <2>4. z.op \in UnbindOps
      BY <2>1, <2>3, MessageIs, OpsAre
    <2> QED BY <1>1, <1>4, <1>7, <2>4 DEF OnlyStrays, UnbindOps
  <1>16. PICK N : N = [g \in Host |-> Range(A[g])]
    OBVIOUS
  <1>17. Tells(h, N)
    <2>1. down' = [g \in Host |-> down[g] \o A[g]]
      BY <1>4, <1>10
    <2>2. Tells(h, [g \in Host |-> Range(A[g])])
      BY <1>4, <1>5, <1>12, <1>14, <1>15, <2>1, TellsAll
    <2> QED BY <1>16, <2>2
  <1>18. PICK k, l : k = mig[m].bindCounter /\ l = mig[m].unbindCounter
    OBVIOUS
  <1>19. k \in Nat /\ l = 0
    BY <1>5, <1>6, <1>18, GoesIs DEF Ends
  <1>20. Goes(m, "unbind", k + 1, l)
    <2>1. "unbind" \in Phase
      BY DEF Phase
    <2> QED BY <1>4, <1>5, <1>6, <1>18, <2>1, GoesIs
  <1>21. RootInv' /\ OldPairs(m)' = OldPairs(m)
    <2>1. bindings' = UnbindAll(mig[m].ins \o mig[m].outs)
      BY <1>3, <1>4
    <2> QED BY <1>4, <1>5, <1>6, <1>20, <2>1, RootBound
  <1>22. /\ mig' \in [Mig -> Migrating] /\ \A n \in Mig : n # m => mig'[n] = mig[n]
         /\ mig'[m].phase = "unbind" /\ mig'[m].bindCounter = k + 1 /\ mig'[m].unbindCounter = 0
         /\ mig'[m].ins = mig[m].ins /\ mig'[m].outs = mig[m].outs
    BY <1>19, <1>20 DEF Goes
  <1>23. ASSUME NEW g \in Host, NEW y \in N[g]
         PROVE  y.m = m /\ Timely(y)' /\ Called(g, y)' /\ y.op = "unbind_cluster"
    <2>1. y \in Range(A[g])
      BY <1>16
    <2>2. /\ y.op = "unbind_cluster" /\ y.m = m /\ clusters[y.from] = g
          /\ Pair(y) \in OldPairs(m) /\ Kind(y.op) = "unbind"
      BY <1>13, <2>1
    <2>3. Timely(y)'
      BY <1>21, <1>22, <2>2 DEF Timely, Pair
    <2>4. Called(g, y)'
      BY <1>4, <2>2 DEF Called
    <2> QED BY <2>2, <2>3, <2>4
  <1>24. Suits(h, m, N)
    <2>1. \A g \in Host : \A y \in N[g] : y.m = m /\ Timely(y)' /\ Called(g, y)'
      BY <1>23
    <2>2. \A g \in Host : \A y \in N[g] : y.op \notin {"notify_binding", "unbind_cluster_process"}
      BY <1>23
    <2>3. \A z \in Sent : z.op = "unbind_cluster_process" => z.m # m
      BY <1>5, <1>6 DEF Addressed, Timely
    <2> QED BY <1>6, <1>7, <1>22, <2>1, <2>2, <2>3, SuitsStrays
  <1>25. Owed(m)'
    <2>1. Length(m)' = Length(m)
      BY <1>22 DEF Length
    <2>2. Length(m) \in Nat /\ IsFiniteSet(OldPairs(m)) /\ Cardinality(OldPairs(m)) <= Length(m)
      BY <1>5, <1>6, PairsAre
    <2>3. PICK C : C = UnbindsComing(m)'
      OBVIOUS
    <2>4. C \subseteq OldPairs(m)
      BY <1>21, <2>3 DEF UnbindsComing, Coming
    <2>5. {} \subseteq C
      OBVIOUS
    <2>6. Cardinality(C) \in Nat /\ Cardinality(C) <= Cardinality(OldPairs(m))
      BY <2>2, <2>4, <2>5, Fewer
    <2>7. Cardinality(OldPairs(m)) \in Nat
      BY <2>2, FS_CardinalityType
    <2>8. 0 + Cardinality(C) <= Length(m)
      BY <2>2, <2>6, <2>7
    <2>9. BindsComing(m)' = {}
      <3>1. \A z \in Sent' : Kind(z.op) # "bind"
        <4> SUFFICES ASSUME NEW z \in Sent' PROVE Kind(z.op) # "bind"
          OBVIOUS
        <4>1. z.op = "unbind_cluster_process" \/ z.op = "unbind_cluster"
          BY <1>7, <1>17, <1>23 DEF Tells, OnlyStrays
        <4> QED BY <4>1, KindIs DEF UnbindOps
      <3> QED BY <3>1 DEF BindsComing, Coming
    <2>10. k + 1 = Length(m)
      BY <1>1, <1>2, <1>18 DEF AllBound
    <2>11. Cardinality({}) = 0 /\ (k + 1) + 0 <= Length(m)
      BY <1>19, <2>2, <2>10, FS_EmptySet
    <2> QED BY <1>22, <2>1, <2>3, <2>8, <2>9, <2>11 DEF Owed
  <1>26. Hosted' /\ Entered'
    <2>1. UNCHANGED <<clusters, cluster_id, hosted, crew, from_nodes>>
      BY <1>4 DEF hostVars
    <2>2. mig[m].phase # "run" /\ mig[m].phase # "remove"
      BY <1>6
    <2>3. Hosted'
      BY <1>5, <1>6, <1>22, <2>1, <2>2, HostedOn
    <2> QED BY <1>5, <2>1, <2>3, EnteredOn
  <1>27. Head(up[h]).op \notin {"notify_binding", "get_workers"}
    BY <1>1, <1>4
  <1> QED BY <1>4, <1>6, <1>17, <1>21, <1>22, <1>24, <1>25, <1>26, <1>27, RootKeeps

\* The counters do not run ahead of what there was to do.
LEMMA CountersAre ==
    ASSUME CoreInv, NEW m \in Mig
    PROVE  /\ Length(m) \in Nat /\ mig[m].bindCounter \in Nat /\ mig[m].unbindCounter \in Nat
           /\ mig[m].bindCounter <= Length(m) /\ mig[m].unbindCounter <= Length(m)
  <1>1. RootTypes /\ BindsCounted /\ UnbindsCounted
    BY CoreIs
  <1>2. mig[m].bindCounter \in Nat /\ mig[m].unbindCounter \in Nat
    BY <1>1, GoesIs
  <1>3. /\ Length(m) \in Nat /\ Cardinality(BindsComing(m)) \in Nat
        /\ Cardinality(UnbindsComing(m)) \in Nat
    BY <1>1, PairsAre, ComingIs
  <1>4. /\ mig[m].bindCounter + Cardinality(BindsComing(m)) <= Length(m)
        /\ mig[m].unbindCounter + Cardinality(UnbindsComing(m)) <= Length(m)
    BY <1>1 DEF BindsCounted, UnbindsCounted
  <1>5. \A i, j, n \in Nat : i + j <= n => i <= n
    OBVIOUS
  <1> QED BY <1>2, <1>3, <1>4, <1>5

LEMMA CoreUnboundLast ==
    ASSUME CoreInv, NEW h \in Host, Unbound(h), AllUnbound(Head(up[h]).m)
    PROVE  CoreInv'
  <1>1. PICK x : x = Head(up[h])
    OBVIOUS
  <1>2. PICK m : m = x.m
    OBVIOUS
  <1>3. PICK y : y = [op |-> "remove_cluster", m |-> m, cid |-> mig[m].old]
    OBVIOUS
  <1>4. /\ up[h] # <<>> /\ x.op = "unbound" /\ up' = [up EXCEPT ![h] = Tail(@)]
        /\ mig' = [mig EXCEPT ![m].unbindCounter = @ + 1, ![m].phase = "remove"]
        /\ bindings' = ForgetAll(bindings, mig[m].ins \o mig[m].outs)
        /\ down' = [down EXCEPT ![mig[m].src] = Append(@, y)]
        /\ UNCHANGED <<clusters, cluster_id, origin, hostVars, ipc, workerVars>>
    BY <1>1, <1>2, <1>3 DEF Unbound, FromHost, Take, Call
  <1>5. /\ RootTypes /\ RootInv /\ \A n \in Mig : Ends(n)
        /\ up \in Queues /\ down \in Queues /\ Once /\ Hosted /\ Entered
    BY CoreIs
  <1>6. x \in Message /\ x \in Sent /\ m \in Mig /\ mig[m].phase = "unbind" /\ Busy(m)
    BY <1>1, <1>2, <1>4, CountedIs
  <1>7. OnlyStrays(h)
    BY <1>1, <1>2, <1>4, LastIs
  <1>8. PICK g \in Host : g = mig[m].src
    BY <1>5, <1>6 DEF Ends
  <1>9. mig[m].old \in Cid
    BY <1>5, <1>6 DEF RootTypes, Migrating
  <1>10. y \in Message
    BY <1>3, <1>6, <1>9, MessagesAre
  <1>11. y.op = "remove_cluster" /\ y.m = m /\ y.cid = mig[m].old /\ Kind(y.op) = "remove"
    BY <1>3, KindIs
  <1>12. \A z \in Sent : Label(z) # Label(y)
    <2> SUFFICES ASSUME NEW z \in Sent, Label(z) = Label(y) PROVE FALSE
      OBVIOUS
    <2>1. z \in Message
      BY <1>5, SentIs
    <2>2. Kind(z.op) = "remove"
      BY <1>10, <1>11, <2>1, LabelIs
    <2>3. z.op \in {"remove_cluster", "removed"}
      BY <2>1, <2>2, MessageIs, OpsAre
    <2> QED BY <1>1, <1>4, <1>7, <2>3 DEF OnlyStrays
  <1>13. Tells(h, OneTold(g, y))
    <2>1. down' = [down EXCEPT ![g] = Append(@, y)]
      BY <1>4, <1>8
    <2> QED BY <1>4, <1>5, <1>10, <1>12, <2>1, TellsOne
  <1>14. PICK k, l, n : k = mig[m].bindCounter /\ l = mig[m].unbindCounter /\ n = Length(m)
    OBVIOUS
  <1>15. k \in Nat /\ l \in Nat /\ n \in Nat /\ k <= n
    BY <1>6, <1>14, CountersAre
  <1>16. l + 1 = n
    BY <1>1, <1>2, <1>14 DEF AllUnbound
  <1>17. Goes(m, "remove", k, l + 1)
    <2>1. "remove" \in Phase
      BY DEF Phase
    <2> QED BY <1>4, <1>5, <1>6, <1>14, <2>1, GoesIs
  <1>18. RootInv'
    BY <1>4, <1>5, <1>6, <1>17, RootUnbound
  <1>19. /\ mig' \in [Mig -> Migrating] /\ \A i \in Mig : i # m => mig'[i] = mig[i]
         /\ mig'[m].phase = "remove" /\ mig'[m].bindCounter = k /\ mig'[m].unbindCounter = n
         /\ mig'[m].old = mig[m].old /\ mig'[m].src = g
         /\ mig'[m].ins = mig[m].ins /\ mig'[m].outs = mig[m].outs
    BY <1>8, <1>16, <1>17 DEF Goes
  <1>20. Timely(y)'
    BY <1>11, <1>19 DEF Timely
  <1>21. Called(g, y)'
    BY <1>11, <1>19 DEF Called
  <1>22. Suits(h, m, OneTold(g, y))
    BY <1>6, <1>7, <1>11, <1>19, <1>20, <1>21, SuitsOne
  <1>23. Owed(m)'
    <2>1. Length(m)' = n
      BY <1>14, <1>19 DEF Length
    <2>2. n <= n
      BY <1>15
    <2>3. \A z \in Sent' : Kind(z.op) # "bind" /\ Kind(z.op) # "unbind"
      <3> SUFFICES ASSUME NEW z \in Sent' PROVE Kind(z.op) # "bind" /\ Kind(z.op) # "unbind"
        OBVIOUS
      <3>1. z.op = "unbind_cluster_process" \/ z = y
        BY <1>7, <1>13 DEF Tells, OneTold, OnlyStrays
      <3> QED BY <1>11, <3>1, KindIs
    <2> QED BY <1>6, <1>15, <1>19, <2>1, <2>2, <2>3, OwedNothing
  <1>24. Hosted' /\ Entered'
    <2>1. UNCHANGED <<clusters, cluster_id, hosted, crew, from_nodes>>
      BY <1>4 DEF hostVars
    <2>2. mig[m].phase # "run" /\ mig[m].phase # "remove"
      BY <1>6
    <2>3. Hosted'
      BY <1>5, <1>6, <1>19, <2>1, <2>2, HostedOn
    <2> QED BY <1>5, <2>1, <2>3, EnteredOn
  <1>25. Head(up[h]).op \notin {"notify_binding", "get_workers"}
    BY <1>1, <1>4
  <1> QED BY <1>4, <1>6, <1>13, <1>18, <1>19, <1>22, <1>23, <1>24, <1>25, RootKeeps

LEMMA CoreRemoved ==
    ASSUME CoreInv, NEW h \in Host, Removed(h)
    PROVE  CoreInv'
  <1>1. PICK x : x = Head(up[h])
    OBVIOUS
  <1>2. PICK m : m = x.m
    OBVIOUS
  <1>3. /\ up[h] # <<>> /\ x.op = "removed" /\ up' = [up EXCEPT ![h] = Tail(@)]
        /\ clusters' = [clusters EXCEPT ![mig[m].old] = NoHost]
        /\ mig' = [mig EXCEPT ![m].phase = "done"]
        /\ UNCHANGED <<bindings, cluster_id, origin, hostVars, down, ipc, workerVars>>
    BY <1>1, <1>2 DEF Removed, FromHost, Take
  <1>4. /\ RootTypes /\ RootInv /\ \A n \in Mig : Ends(n)
        /\ up \in Queues /\ down \in Queues /\ Once /\ ChannelInv /\ ChannelTypes
        /\ Hosted /\ Entered
    BY CoreIs
  <1>5. x \in Message /\ x \in Sent /\ m \in Mig /\ Answered(h, x)
    BY <1>1, <1>2, <1>3, <1>4, Returned
  <1>6. mig[m].phase = "remove" /\ Busy(m) /\ OnlyStrays(h)
    <2>1. mig[m].phase = Kind(x.op) /\ Busy(m)
      BY <1>1, <1>2, <1>3, AloneIs
    <2>2. OnlyStrays(h)
      BY <1>1, <1>3, AloneIs
    <2> QED BY <1>3, <2>1, <2>2, KindIs
  <1>7. PICK old : old = mig[m].old
    OBVIOUS
  <1>8. old \in Cid
    BY <1>4, <1>5, <1>7 DEF RootTypes, Migrating
  <1>9. old \notin hosted[clusters[old]]
    <2>1. clusters[old] = mig[m].src
      BY <1>4, <1>5, <1>6, <1>7 DEF Ends
    <2> QED BY <1>2, <1>3, <1>5, <1>7, <2>1 DEF Answered
  <1>10. Tells(h, NoneTold)
    BY <1>3, <1>4, TellsNone
  <1>11. RootInv'
    BY <1>3, <1>4, <1>5, <1>6, RootRemoved
  <1>12. PICK k, l, n : k = mig[m].bindCounter /\ l = mig[m].unbindCounter /\ n = Length(m)
    OBVIOUS
  <1>13. k \in Nat /\ l \in Nat /\ n \in Nat /\ k <= n /\ l <= n
    BY <1>5, <1>12, CountersAre
  <1>14. Goes(m, "done", k, l)
    <2>1. "done" \in Phase
      BY DEF Phase
    <2> QED BY <1>3, <1>4, <1>5, <1>12, <2>1, GoesIs
  <1>15. /\ \A i \in Mig : i # m => mig'[i] = mig[i]
         /\ mig'[m].phase = "done" /\ mig'[m].bindCounter = k /\ mig'[m].unbindCounter = l
         /\ mig'[m].ins = mig[m].ins /\ mig'[m].outs = mig[m].outs
    BY <1>14 DEF Goes
  <1>16. Suits(h, m, NoneTold)
    BY <1>5, <1>6, <1>15, SuitsNone
  <1>17. Owed(m)'
    <2>1. Length(m)' = n
      BY <1>12, <1>15 DEF Length
    <2>2. \A z \in Sent' : Kind(z.op) # "bind" /\ Kind(z.op) # "unbind"
      <3> SUFFICES ASSUME NEW z \in Sent' PROVE Kind(z.op) # "bind" /\ Kind(z.op) # "unbind"
        OBVIOUS
      <3>1. z.op = "unbind_cluster_process"
        BY <1>6, <1>10 DEF Tells, NoneTold, OnlyStrays
      <3> QED BY <3>1, KindIs
    <2> QED BY <1>5, <1>13, <1>15, <2>1, <2>2, OwedNothing
  <1>18. clusters' = [clusters EXCEPT ![old] = NoHost] /\ clusters \in [Cid -> Host \cup {NoHost}]
    BY <1>3, <1>4, <1>7 DEF RootTypes
  <1>19. hosted' = hosted /\ crew' = crew /\ from_nodes' = from_nodes /\ cluster_id' = cluster_id
    BY <1>3 DEF hostVars
  <1>20. \A c \in Cid : Present(c)' => c # old /\ clusters'[c] = clusters[c] /\ Present(c)
    BY <1>8, <1>18 DEF Present
  <1>21. Hosted'
    <2>1. ASSUME NEW f \in Host, NEW c \in hosted[f] PROVE clusters'[c] = f
      <3>1. c \in Cid /\ clusters[c] = f
        BY <1>4 DEF ChannelTypes, Hosted
      <3>2. c # old
        BY <1>9, <2>1, <3>1
      <3> QED BY <1>18, <3>1, <3>2
    <2>2. ASSUME NEW c \in Cid, Present(c)'
          PROVE  \/ c \in hosted[clusters'[c]] \cap crew
                 \/ \E i \in Mig : mig'[i].phase = "run" /\ mig'[i].new = c
                 \/ \E i \in Mig : mig'[i].phase = "remove" /\ mig'[i].old = c
      <3>1. c # old /\ clusters'[c] = clusters[c] /\ Present(c)
        BY <1>20, <2>2
      <3>2. CASE c \in hosted[clusters[c]] \cap crew
        BY <3>1, <3>2
      <3>3. CASE \E i \in Mig : mig[i].phase = "run" /\ mig[i].new = c
        BY <1>6, <1>15, <3>3
      <3>4. CASE \E i \in Mig : mig[i].phase = "remove" /\ mig[i].old = c
        BY <1>7, <1>15, <3>1, <3>4
      <3> QED BY <1>4, <3>1, <3>2, <3>3, <3>4 DEF Hosted
    <2> QED BY <1>19, <2>1, <2>2 DEF Hosted
  <1>22. Entered'
    <2>1. ASSUME NEW f \in Host, NEW e \in from_nodes[f]
          PROVE  e.from < cluster_id /\ (Present(e.from)' => e.node = clusters'[e.from])
      <3>1. e.from \in Cid /\ e.from < cluster_id /\ (Present(e.from) => e.node = clusters[e.from])
        BY <1>4, <2>1 DEF ChannelTypes, Entered
      <3> QED BY <1>20, <3>1
    <2> QED BY <1>19, <2>1 DEF Entered
  <1>23. Head(up[h]).op \notin {"notify_binding", "get_workers"}
    BY <1>1, <1>3
  <1> QED BY <1>3, <1>5, <1>10, <1>11, <1>15, <1>16, <1>17, <1>21, <1>22, <1>23, RootKeeps

\* The root passes a message of one host on to another.
LEMMA CoreForward ==
    ASSUME CoreInv, NEW h \in Host, Forward(h)
    PROVE  CoreInv'
  <1>1. PICK x : x = Head(up[h])
    OBVIOUS
  <1>2. PICK g : g = x.dst
    OBVIOUS
  <1>3. /\ up[h] # <<>> /\ x.op \in HostToHost /\ up' = [up EXCEPT ![h] = Tail(@)]
        /\ down' = [down EXCEPT ![g] = Append(@, x)]
        /\ UNCHANGED <<rootVars, hostVars, ipc, workerVars>>
    BY <1>1, <1>2 DEF Forward, Take, Call
  <1>4. /\ RootTypes /\ RootInv /\ up \in Queues /\ down \in Queues /\ Once /\ ChannelInv
        /\ ChannelTypes /\ Addressed /\ BindsCounted /\ UnbindsCounted
        /\ Hosted /\ Entered /\ Asked /\ OneUnbind
    BY CoreIs
  <1>5. x \in Message /\ x \in Sent /\ x.m \in Mig /\ Timely(x) /\ Answered(h, x)
    BY <1>1, <1>3, <1>4, Returned
  <1>6. g \in Host
    BY <1>2, <1>3, <1>5, MessageIs
  <1>7. Tells(h, OneTold(g, x))
    BY <1>1, <1>3, <1>4, <1>5, <1>6, TellsOne
  <1>8. /\ up' \in Queues /\ down' \in Queues /\ Once'
        /\ \A f \in Host : \A y \in Range(up'[f]) : y \in Range(up[f])
        /\ \A f \in Host : \A y \in Range(down'[f]) : y \in Range(down[f]) \/ (f = g /\ y = x)
        /\ \A y : y \in Sent' <=> y \in Sent
    <2>1. \A f \in Host : \A y : y \in OneTold(g, x)[f] <=> f = g /\ y = x
      BY DEF OneTold
    <2>2. \A y : (\E f \in Host : y \in OneTold(g, x)[f]) <=> y = x
      BY <1>6, <2>1
    <2>3. \A y : y \in Sent' <=> (y \in Sent /\ y # x) \/ \E f \in Host : y \in OneTold(g, x)[f]
      BY <1>1, <1>7 DEF Tells
    <2>4. \A y : y \in Sent' <=> y \in Sent
      BY <1>5, <2>2, <2>3
    <2> QED BY <1>7, <2>1, <2>4 DEF Tells
  <1>9. UNCHANGED <<clusters, bindings, cluster_id, mig, origin>> /\ UNCHANGED <<hosted, crew, from_nodes>>
    BY <1>3 DEF rootVars, hostVars
  <1>10. RootInv'
    BY <1>3, <1>4, RootRests
  <1>11. Called(g, x)
    <2>1. /\ x.op \in {"notify_binding", "get_workers"} =>
                 x.node = clusters[x.from] /\ g = clusters[x.to]
          /\ x.op = "workers" => g = clusters[x.from]
      BY <1>2, <1>5 DEF Answered
    <2> QED BY <1>2, <1>3, <2>1 DEF Called, HostToHost
  <1>12. Addressed'
    <2>1. \A y \in Sent' : Timely(y)'
      <3>1. \A y : Timely(y)' <=> Timely(y)
        BY <1>9 DEF Timely, NewPairs, OldPairs, Pair
      <3> QED BY <1>4, <1>8, <3>1 DEF Addressed
    <2>2. \A f \in Host : \A y \in Range(down'[f]) : Called(f, y)
      BY <1>4, <1>8, <1>11 DEF Addressed
    <2>3. \A f \in Host : \A y \in Range(up'[f]) : Answered(f, y)
      BY <1>4, <1>8 DEF Addressed
    <2>4. \A f \in Host : \A y \in Range(down'[f]) : Called(f, y)'
      BY <1>9, <2>2 DEF Called
    <2>5. \A f \in Host : \A y \in Range(up'[f]) : Answered(f, y)'
      BY <1>9, <2>3 DEF Answered
    <2> QED BY <2>1, <2>4, <2>5 DEF Addressed
  <1>13. BindsCounted' /\ UnbindsCounted'
    <2>1. ASSUME NEW n \in Mig
          PROVE  /\ mig'[n].bindCounter + Cardinality(BindsComing(n)') <= Length(n)'
                 /\ mig'[n].unbindCounter + Cardinality(UnbindsComing(n)') <= Length(n)'
      BY <1>4, <1>8, <1>9, OwnRest
    <2> QED BY <2>1 DEF BindsCounted, UnbindsCounted
  <1>14. ChannelTypes'
    BY <1>3, <1>4, <1>8 DEF ChannelTypes, hostVars, workerVars
  <1>15. Asked'
    <2>1. ASSUME x.op = "get_workers", NEW k \in Host, NEW y \in Range(down[k]),
                 y.op = "notify_binding", Asks(x, y)
          PROVE  k = g
      <3>1. k = clusters[y.to]
        BY <1>4, <2>1 DEF Addressed, Called
      <3>2. g = clusters[x.to]
        BY <1>2, <1>5, <2>1 DEF Answered
      <3> QED BY <2>1, <3>1, <3>2 DEF Asks
    <2>2. up[h] # <<>> /\ Head(up[h]).op \in HostToHost /\ Head(up[h]) \in Message
      BY <1>1, <1>3, <1>5
    <2>3. down' = [down EXCEPT ![g] = Append(@, Head(up[h]))]
      BY <1>1, <1>3
    <2>4. Head(up[h]).op = "get_workers" =>
              \A k \in Host : \A y \in Range(down[k]) :
                  y.op = "notify_binding" /\ Asks(Head(up[h]), y) => k = g
      BY <1>1, <2>1
    <2>5. up' = [up EXCEPT ![h] = Tail(@)]
      BY <1>3
    <2> QED BY <1>4, <1>6, <1>8, <2>2, <2>3, <2>4, <2>5, AskedForward
  <1>16. OneUnbind'
    BY <1>4, <1>8, OneUnbindRests
  <1>17. Hosted' /\ Entered'
    BY <1>3, <1>4, <1>9, HostedRests, EnteredRests
  <1>18. ChannelInv'
    BY <1>8, <1>12, <1>13, <1>14 DEF ChannelInv
  <1> QED BY <1>10, <1>15, <1>16, <1>17, <1>18 DEF CoreInv

LEMMA CoreMigrate ==
    ASSUME CoreInv, Overlap = "none", NEW m \in Mig, NEW c \in Cid, NEW h \in Host, Migrate(m, c, h)
    PROVE  CoreInv'
  <1>1. PICK g : g = clusters[c]
    OBVIOUS
  <1>2. PICK x : x = [op |-> "get_clusters", m |-> m]
    OBVIOUS
  <1>3. /\ mig[m].phase = "idle" /\ \A n \in Mig : n < m => mig[n].phase # "idle"
        /\ \A n \in Mig : ~ Busy(n)
        /\ Present(c)
        /\ mig' = [mig EXCEPT ![m].phase = "collect", ![m].old = c,
                              ![m].src = clusters[c], ![m].dest = h]
        /\ down' = [down EXCEPT ![g] = Append(@, x)]
        /\ UNCHANGED <<clusters, bindings, cluster_id, origin, hostVars, up, ipc, workerVars>>
    BY <1>1, <1>2 DEF Migrate, Call
  <1>4. /\ RootTypes /\ RootInv /\ up \in Queues /\ down \in Queues /\ Once
        /\ ChannelTypes /\ Addressed /\ BindsCounted /\ UnbindsCounted /\ \A n \in Mig : Ends(n)
        /\ Hosted /\ Entered /\ Asked /\ OneUnbind
    BY CoreIs
  <1>5. g \in Host
    BY <1>1, <1>3, <1>4 DEF RootTypes, Present
  <1>6. x \in Message /\ x.op = "get_clusters" /\ x.m = m /\ Kind(x.op) = "collect"
    BY <1>2, MessagesAre, KindIs
  <1>7. ASSUME NEW y \in Sent PROVE y.op = "unbind_cluster_process"
    <2>1. y \in Message /\ Timely(y) /\ y.m \in Mig /\ ~ Busy(y.m) /\ y.op \in PlainOps \cup PairOps
      BY <1>3, <1>4, SentIs, MessageIs DEF Addressed
    <2>2. Kind(y.op) \notin {"collect", "run", "bind", "unbind", "remove", "notify_binding"}
      BY <2>1 DEF Timely, Busy
    <2>3. Kind(y.op) = "unbind_cluster_process"
      BY <2>1, <2>2, OpsAre
    <2> QED BY <2>1, <2>3, OpsAre
  <1>8. \A z \in Sent : Label(z) # Label(x)
    <2> SUFFICES ASSUME NEW z \in Sent, Label(z) = Label(x) PROVE FALSE
      OBVIOUS
    <2>1. z \in Message /\ z.op = "unbind_cluster_process"
      BY <1>4, <1>7, SentIs
    <2>2. Kind(z.op) = "collect"
      BY <1>6, <2>1, LabelIs
    <2> QED BY <2>1, <2>2, KindIs
  <1>9. up' \in Queues /\ down' \in Queues /\ Once'
    BY <1>3, <1>4, <1>5, <1>6, <1>8, RootAsks
  <1>10. Sent' = Sent \cup {x}
    BY <1>3, <1>4, <1>5, <1>6, <1>8, RootAsks
  <1>11. Range(down'[g]) = Range(down[g]) \cup {x}
    BY <1>3, <1>4, <1>5, <1>6, <1>8, RootAsks
  <1>12. \A f \in Host : f # g => down'[f] = down[f]
    BY <1>3, <1>4, <1>5, <1>6, <1>8, RootAsks
  <1>13. RootInv'
    BY <1>3, <1>4, RootMigrates
  <1>14. /\ \A n \in Mig : n # m => mig'[n] = mig[n]
         /\ mig'[m].phase = "collect" /\ mig'[m].src = g
         /\ mig'[m].bindCounter = 0 /\ mig'[m].unbindCounter = 0
    <2>1. mig \in [Mig -> Migrating] /\ mig[m] \in Migrating
      BY <1>4 DEF RootTypes
    <2>2. mig[m].bindCounter = 0 /\ mig[m].unbindCounter = 0
      BY <1>3, <1>4 DEF Ends
    <2>3. PICK r \in Migrating : r = mig[m]
      BY <2>1
    <2>4. mig' = [mig EXCEPT ![m] = [r EXCEPT !.phase = "collect", !.old = c, !.src = g, !.dest = h]]
      BY <1>1, <1>3, <2>1, <2>3
    <2>5. mig'[m] = [r EXCEPT !.phase = "collect", !.old = c, !.src = g, !.dest = h]
      BY <2>1, <2>4
    <2>6. r.bindCounter = 0 /\ r.unbindCounter = 0
      BY <2>2, <2>3
    <2>7. \A n \in Mig : n # m => mig'[n] = mig[n]
      BY <2>1, <2>4
    <2> QED BY <2>5, <2>6, <2>7 DEF Migrating
  <1>15. ASSUME NEW y \in Sent
         PROVE  /\ Timely(y)' /\ \A f \in Host : y \in Range(down[f]) => Called(f, y)'
                /\ \A f \in Host : y \in Range(up[f]) => Answered(f, y)'
    <2>1. y.op = "unbind_cluster_process" /\ mig[m].phase \notin {"unbind", "remove", "done"}
      BY <1>3, <1>7
    <2>2. Timely(y)'
      BY <1>14, <2>1, StraysStay
    <2>3. \A f \in Host : y \in Range(down[f]) => Called(f, y)'
      BY <1>14, <2>1, StraysStay
    <2>4. \A f \in Host : y \in Range(up[f]) => Answered(f, y)'
      BY <1>14, <2>1, StraysStay
    <2> QED BY <2>2, <2>3, <2>4
  <1>16. Timely(x)' /\ Called(g, x)'
    <2>1. Timely(x)'
      BY <1>6, <1>14 DEF Timely
    <2>2. Called(g, x)'
      BY <1>6, <1>14 DEF Called
    <2> QED BY <2>1, <2>2
  <1>17. Addressed'
    <2>1. \A y \in Sent' : Timely(y)'
      BY <1>10, <1>15, <1>16
    <2>2. ASSUME NEW f \in Host, NEW y \in Range(down'[f]) PROVE Called(f, y)'
      <3>1. y \in Range(down[f]) \/ (f = g /\ y = x)
        BY <1>11, <1>12
      <3>2. y \in Range(down[f]) => y \in Sent
        BY <1>4, SentIs
      <3> QED BY <1>15, <1>16, <3>1, <3>2
    <2>3. ASSUME NEW f \in Host, NEW y \in Range(up'[f]) PROVE Answered(f, y)'
      <3>1. y \in Range(up[f]) /\ y \in Sent
        BY <1>3, <1>4, SentIs
      <3> QED BY <1>15, <3>1
    <2> QED BY <2>1, <2>2, <2>3 DEF Addressed
  <1>18. BindsCounted' /\ UnbindsCounted'
    <2>1. \A y \in Sent' : Kind(y.op) # "bind" /\ Kind(y.op) # "unbind"
      <3>1. \A y \in Sent : Kind(y.op) = "unbind_cluster_process"
        BY <1>7, KindIs
      <3> QED BY <1>6, <1>10, <3>1
    <2>2. Owed(m)'
      <3>1. PICK n \in Nat : n = Length(m)'
        BY <1>13, LengthIs DEF RootInv, RootTypes
      <3>2. 0 \in Nat /\ 0 <= n
        OBVIOUS
      <3> QED BY <1>14, <2>1, <3>1, <3>2, OwedNothing
    <2>3. /\ mig'[m].bindCounter + Cardinality(BindsComing(m)') <= Length(m)'
          /\ mig'[m].unbindCounter + Cardinality(UnbindsComing(m)') <= Length(m)'
      BY <2>2 DEF Owed
    <2>4. \A y \in Sent' : y.m # m /\ Kind(y.op) \in {"bind", "unbind"} =>
              \E z \in Sent : Label(z) = Label(y)
      BY <2>1
    <2>5. \A n \in Mig : n # m => mig'[n] = mig[n]
      BY <1>14
    <2> QED BY <1>4, <1>9, <2>3, <2>4, <2>5, CountsRest
  <1>19. ChannelTypes'
    BY <1>3, <1>4, <1>9 DEF ChannelTypes, hostVars, workerVars
  <1>20. Asked'
    <2>1. \A y \in Sent' : y.op # "notify_binding"
      BY <1>6, <1>7, <1>10
    <2>2. \A f \in Host : Range(up'[f]) \subseteq Sent' /\ Range(down'[f]) \subseteq Sent'
      <3>1. \A f \in Host : Range(up[f]) \subseteq Sent /\ Range(down[f]) \subseteq Sent
        BY <1>4, SentIs
      <3> QED BY <1>3, <1>10, <1>11, <1>12, <3>1
    <2> QED BY <2>1, <2>2 DEF Asked
  <1>21. OneUnbind'
    <2>1. \A y \in Sent' : y.op \in {"unbind_cluster", "unbind_cluster_process"} => y \in Sent
      BY <1>6, <1>10
    <2> QED BY <1>4, <2>1, OneUnbindRests
  <1>22. Hosted' /\ Entered'
    <2>1. UNCHANGED <<clusters, cluster_id, hosted, crew, from_nodes>>
      BY <1>3 DEF hostVars
    <2>2. mig[m].phase # "run" /\ mig[m].phase # "remove"
      BY <1>3
    <2>3. Hosted'
      BY <1>4, <1>14, <2>1, <2>2, HostedOn
    <2> QED BY <1>4, <2>1, <2>3, EnteredOn
  <1>23. ChannelInv'
    BY <1>9, <1>17, <1>18, <1>19 DEF ChannelInv
  <1> QED BY <1>13, <1>20, <1>21, <1>22, <1>23 DEF CoreInv

-----------------------------------------------------------------------------
(* The core holds. *)

LEMMA StepKeepsCore ==
    ASSUME CoreInv, Overlap = "none", [Next]_vars
    PROVE  CoreInv'
  <1>1. CASE \E m \in Mig, c \in Cid, h \in Host : Migrate(m, c, h)
    BY <1>1, CoreMigrate
  <1>2. ASSUME NEW h \in Host, RootStep(h) PROVE CoreInv'
    <2>1. CASE Collected(h)
      BY <2>1, CoreCollected
    <2>2. CASE Ran(h)
      <3>1. CASE Length(Head(up[h]).m) = 0
        BY <2>2, <3>1, CoreRanAlone
      <3>2. CASE Length(Head(up[h]).m) # 0
        BY <2>2, <3>2, CoreRanOn
      <3> QED BY <3>1, <3>2
    <2>3. CASE Bound(h)
      <3>1. CASE AllBound(Head(up[h]).m)
        BY <2>3, <3>1, CoreBoundLast
      <3>2. CASE ~ AllBound(Head(up[h]).m)
        BY <2>3, <3>2, CoreBoundOn
      <3> QED BY <3>1, <3>2
    <2>4. CASE Unbound(h)
      <3>1. CASE AllUnbound(Head(up[h]).m)
        BY <2>4, <3>1, CoreUnboundLast
      <3>2. CASE ~ AllUnbound(Head(up[h]).m)
        BY <2>4, <3>2, CoreUnboundOn
      <3> QED BY <3>1, <3>2
    <2>5. CASE Removed(h)
      BY <2>5, CoreRemoved
    <2>6. CASE Forward(h)
      BY <2>6, CoreForward
    <2> QED BY <1>2, <2>1, <2>2, <2>3, <2>4, <2>5, <2>6 DEF RootStep
  <1>3. ASSUME NEW h \in Host, HostStep(h) PROVE CoreInv'
    <2>1. CASE GetClusters(h)
      BY <2>1, CoreGetClusters
    <2>2. CASE RunCluster(h)
      BY <2>2, CoreRunCluster
    <2>3. CASE BindCluster(h)
      BY <2>3, CoreBindCluster
    <2>4. CASE NotifyBinding(h)
      BY <2>4, CoreNotifyBinding
    <2>5. CASE GetWorkers(h)
      BY <2>5, CoreGetWorkers
    <2>6. CASE GotWorkers(h)
      BY <2>6, CoreGotWorkers
    <2>7. CASE UnbindCluster(h)
      BY <2>7, CoreUnbindCluster
    <2>8. CASE UnbindProcess(h)
      BY <2>8, CoreUnbindProcess
    <2>9. CASE RemoveCluster(h)
      BY <2>9, CoreRemoveCluster
    <2> QED BY <1>3, <2>1, <2>2, <2>3, <2>4, <2>5, <2>6, <2>7, <2>8, <2>9 DEF HostStep
  <1>4. CASE \E c \in Cid : WorkerStep(c)
    BY <1>4, CoreWorkerStep
  <1>5. CASE UNCHANGED vars
    <2>1. HostTypes
      BY CoreIs, HostTypesAre
    <2>2. UNCHANGED <<rootVars, hostVars, down, up, ipc, workerVars>>
      BY <1>5 DEF vars
    <2>3. HostTypes'
      BY <2>1, <2>2 DEF HostTypes, hostVars, workerVars
    <2> QED BY <2>2, <2>3, CoreRests
  <1> QED BY <1>1, <1>2, <1>3, <1>4, <1>5 DEF Next

LEMMA RootAtStart == Init => RootInv
  <1> SUFFICES ASSUME Init PROVE RootInv
    OBVIOUS
  <1>1. /\ clusters = [c \in Cid |-> IF c \in Op THEN Start[c] ELSE NoHost]
        /\ bindings = Topology /\ cluster_id = Cardinality(Op)
        /\ mig = [m \in Mig |-> NoMig] /\ origin = [c \in Cid |-> c]
    BY DEF Init
  <1>2. /\ Cardinality(Op) \in Nat /\ Op \subseteq Cid /\ Cid \subseteq Nat /\ Mig \subseteq Nat
        /\ Op = 0..(Cardinality(Op) - 1) /\ Mig = 1..MaxMig /\ NoHost \notin Host
        /\ Cid = 0..(Cardinality(Op) + MaxMig - 1) /\ MaxMig \in Nat
    BY IdsAreNumbers
  <1>3. \A c \in Cid : (Present(c) <=> c \in Op) /\ (c \in Op => clusters[c] = Start[c] /\ Start[c] \in Host)
    BY <1>1, <1>2, OpAssumption DEF Present
  <1>4. /\ Topology \in Seq(Binding)
        /\ \A b \in Range(Topology) : b.from \in Op /\ b.to \in Op /\ b.from # b.to
    <2>1. Topology \in Seq([from : Op, to : Op])
      BY TopologyAssumption
    <2>2. [from : Op, to : Op] \subseteq Binding
      BY <1>2 DEF Binding
    <2>3. /\ Len(Topology) \in Nat /\ DOMAIN Topology = 1..Len(Topology)
          /\ \A i \in 1..Len(Topology) : Topology[i] \in [from : Op, to : Op]
      BY <2>1, LenProperties, ElementOfSeq
    <2>4. Topology \in Seq(Binding)
      <3>1. \A i \in 1..Len(Topology) : Topology[i] \in Binding
        BY <2>2, <2>3
      <3>2. Topology \in [1..Len(Topology) -> Binding]
        <4>1. Topology = [i \in 1..Len(Topology) |-> Topology[i]]
          BY <2>1, LenProperties
        <4> QED BY <3>1, <4>1
      <3> QED BY <2>3, <3>2
    <2>5. \A i \in DOMAIN Topology : Topology[i].from # Topology[i].to
      BY TopologyAssumption
    <2> QED BY <2>3, <2>4, <2>5 DEF Range
  <1>5. /\ NoMig.phase = "idle" /\ NoMig.bindCounter = 0 /\ NoMig.unbindCounter = 0
        /\ mig \in [Mig -> Migrating]
    <2>1. \A m \in Mig : 0 \in Cid
      BY <1>2
    <2>2. <<>> \in Seq(Binding)
      BY EmptySeq
    <2>3. 0 \in Cid => NoMig \in Migrating
      BY <2>2 DEF NoMig, Migrating, Phase
    <2>4. NoMig.phase = "idle" /\ NoMig.bindCounter = 0 /\ NoMig.unbindCounter = 0
      BY DEF NoMig
    <2>5. \A m \in Mig : NoMig \in Migrating
      BY <2>1, <2>3
    <2> HIDE DEF NoMig
    <2> QED BY <1>1, <2>4, <2>5
  <1>6. \A m \in Mig : mig[m].phase = "idle" /\ mig[m].bindCounter = 0 /\ mig[m].unbindCounter = 0
    BY <1>1, <1>5
  <1>7. RootTypes
    <2>1. clusters \in [Cid -> Host \cup {NoHost}]
      <3>1. \A o \in Op : Start[o] \in Host
        BY OpAssumption
      <3> QED BY <1>1, <3>1
    <2>2. origin \in [Cid -> Cid]
      <3>1. origin = [c \in Cid |-> c]
        BY <1>1
      <3> QED BY <3>1
    <2>3. bindings \in Seq(Binding)
      BY <1>1, <1>4
    <2>4. cluster_id \in Nat /\ cluster_id >= Cardinality(Op)
      BY <1>1, <1>2
    <2>5. mig \in [Mig -> Migrating]
      BY <1>5
    <2> QED BY <2>1, <2>2, <2>3, <2>4, <2>5 DEF RootTypes
  <1>8. InTurn
    <2>1. \A m \in Mig : cluster_id <= Cardinality(Op) + m - 1
      BY <1>1, <1>2
    <2> QED BY <1>6, <2>1 DEF InTurn
  <1>9. Alive
    <2>1. \A c \in Cid : c >= cluster_id => ~ Present(c)
      <3>1. \A c \in Op : ~ (c >= cluster_id)
        BY <1>1, <1>2
      <3> QED BY <1>3, <3>1
    <2>2. \A c \in Cid : origin[c] = c
      BY <1>1
    <2>3. \A c \in Cid : Present(c) => origin[c] \in Op
      BY <1>3, <2>2
    <2>4. \A o \in Op : Present(o) /\ origin[o] = o /\ o \in Cid
      BY <1>2, <1>3, <2>2
    <2>5. \A c, d \in Cid : origin[c] = origin[d] => ~ (c < d)
      BY <1>2, <2>2
    <2> QED BY <2>1, <2>3, <2>4, <2>5 DEF Alive
  <1>10. Linked
    <2>1. IsInjective(bindings)
      BY <1>1, TopologyAssumption DEF IsInjective
    <2>2. \A b \in Range(bindings) : b.from \in Cid /\ b.to \in Cid /\ b.from \in Op /\ b.to \in Op /\ b.from # b.to
      BY <1>1, <1>2, <1>4
    <2>3. Edges = UserEdges
      <3>1. \A b \in Range(bindings) : <<origin[b.from], origin[b.to]>> = <<b.from, b.to>>
        BY <1>1, <2>2
      <3> QED BY <1>1, <3>1 DEF Edges, UserEdges
    <2> QED BY <1>3, <2>1, <2>2, <2>3 DEF Linked, Bindings
  <1>11. \A m \in Mig : Ends(m) /\ Recorded(m)
    BY <1>6 DEF Ends, Recorded, Busy, Begun
  <1> QED BY <1>7, <1>8, <1>9, <1>10, <1>11 DEF RootInv

LEMMA CoreAtStart == Init => CoreInv
  <1> SUFFICES ASSUME Init PROVE CoreInv
    OBVIOUS
  <1>1. /\ clusters = [c \in Cid |-> IF c \in Op THEN Start[c] ELSE NoHost]
        /\ bindings = Topology /\ cluster_id = Cardinality(Op)
        /\ mig = [m \in Mig |-> NoMig]
        /\ hosted = [h \in Host |-> {o \in Op : Start[o] = h}] /\ crew = Op
        /\ known = [h \in Host |-> UNION {{b.from, b.to} \cap hosted[h] : b \in Range(Topology)}]
        /\ from_nodes = [h \in Host |->
               {[to |-> b.to, from |-> b.from, node |-> Start[b.from]] :
                   b \in {b \in Range(Topology) : Start[b.to] = h}}]
        /\ down = Nothing /\ up = Nothing
        /\ ipc = [c \in Cid |-> <<>>]
        /\ clients = [c \in Cid |-> {b.to : b \in {b \in Range(Topology) : b.from = c}}]
        /\ binded = [c \in Cid |-> \E b \in Range(Topology) : b.from = c]
    BY DEF Init, Nothing
  <1>2. RootInv
    BY RootAtStart
  <1>3. /\ Cardinality(Op) \in Nat /\ Op \subseteq Cid /\ NoHost \notin Host
        /\ Op = 0..(Cardinality(Op) - 1)
    BY IdsAreNumbers
  <1>4. \A b \in Range(Topology) : b.from \in Op /\ b.to \in Op
    <2>1. Topology \in Seq([from : Op, to : Op])
      BY TopologyAssumption
    <2>2. \A i \in DOMAIN Topology : Topology[i] \in [from : Op, to : Op]
      BY <2>1, LenProperties, ElementOfSeq
    <2> QED BY <2>2 DEF Range
  <1>5. \A o \in Op : Start[o] \in Host /\ clusters[o] = Start[o] /\ o < cluster_id
    <2>1. \A o \in Op : Start[o] \in Host
      BY OpAssumption
    <2>2. \A o \in Op : o < cluster_id
      BY <1>1, <1>3
    <2> QED BY <1>1, <1>3, <2>1, <2>2
  <1>6. /\ Nothing \in Queues /\ Carried(Nothing) = {} /\ Alone(Nothing)
        /\ \A h \in Host : Nothing[h] = <<>> /\ Range(Nothing[h]) = {}
    BY NothingIs
  <1>7. Sent = {}
    BY <1>1, <1>6 DEF Sent
  <1>8. ChannelTypes
    <2>1. ipc \in [Cid -> Seq(Command)]
      BY <1>1, EmptySeq
    <2>2. hosted \in [Host -> SUBSET Cid] /\ crew \subseteq Cid
      BY <1>1, <1>3
    <2>3. known \in [Host -> SUBSET Cid]
      <3>1. ASSUME NEW h \in Host
            PROVE  UNION {{b.from, b.to} \cap hosted[h] : b \in Range(Topology)} \subseteq Cid
        BY <1>3, <1>4
      <3> QED BY <1>1, <3>1
    <2>4. \A h \in Host : from_nodes[h] \subseteq [to : Cid, from : Cid, node : Host]
      <3>1. ASSUME NEW h \in Host, NEW e \in from_nodes[h]
            PROVE  e \in [to : Cid, from : Cid, node : Host]
        <4>1. PICK b \in Range(Topology) : e = [to |-> b.to, from |-> b.from, node |-> Start[b.from]]
          BY <1>1, <3>1
        <4>2. b.to \in Cid /\ b.from \in Cid /\ Start[b.from] \in Host
          BY <1>3, <1>4, <1>5
        <4> QED BY <4>1, <4>2
      <3> QED BY <3>1
    <2>5. clients \in [Cid -> SUBSET Cid]
      <3>1. ASSUME NEW c \in Cid
            PROVE  {b.to : b \in {b \in Range(Topology) : b.from = c}} \subseteq Cid
        BY <1>3, <1>4
      <3> QED BY <1>1, <3>1
    <2>6. binded \in [Cid -> BOOLEAN]
      BY <1>1
    <2> QED BY <1>1, <1>6, <2>1, <2>2, <2>3, <2>4, <2>5, <2>6 DEF ChannelTypes
  <1>9. Once
    BY <1>1, <1>6 DEF Once
  <1>10. Addressed
    BY <1>1, <1>6, <1>7 DEF Addressed
  <1>11. BindsCounted /\ UnbindsCounted
    <2>1. ASSUME NEW m \in Mig
          PROVE  /\ mig[m].bindCounter + Cardinality(BindsComing(m)) <= Length(m)
                 /\ mig[m].unbindCounter + Cardinality(UnbindsComing(m)) <= Length(m)
      <3>1. BindsComing(m) = {} /\ UnbindsComing(m) = {}
        BY <1>7 DEF BindsComing, UnbindsComing, Coming
      <3>2. mig[m].bindCounter = 0 /\ mig[m].unbindCounter = 0
        BY <1>1 DEF NoMig
      <3>3. PICK n \in Nat : n = Length(m)
        BY <1>2, PairsAre DEF RootInv
      <3>4. Cardinality({}) = 0 /\ 0 + 0 <= n
        BY FS_EmptySet
      <3> QED BY <3>1, <3>2, <3>3, <3>4
    <2> QED BY <2>1 DEF BindsCounted, UnbindsCounted
  <1>12. Hosted
    <2>1. \A h \in Host : \A c \in hosted[h] : c \in Op /\ clusters[c] = h
      BY <1>1, <1>5
    <2>2. ASSUME NEW c \in Cid, Present(c) PROVE c \in hosted[clusters[c]] \cap crew
      <3>1. c \in Op
        BY <1>1, <2>2 DEF Present
      <3> QED BY <1>1, <1>5, <3>1
    <2> QED BY <2>1, <2>2 DEF Hosted
  <1>13. Entered
    <2>1. ASSUME NEW h \in Host, NEW e \in from_nodes[h]
          PROVE  e.from < cluster_id /\ (Present(e.from) => e.node = clusters[e.from])
      <3>1. PICK b \in Range(Topology) : e = [to |-> b.to, from |-> b.from, node |-> Start[b.from]]
        BY <1>1, <2>1
      <3>2. e.from = b.from /\ e.node = Start[b.from]
        BY <3>1
      <3> QED BY <1>4, <1>5, <3>2
    <2> QED BY <2>1 DEF Entered
  <1>14. Asked /\ OneUnbind
    BY <1>1, <1>6, <1>7 DEF Asked, OneUnbind
  <1>15. ChannelInv
    BY <1>8, <1>9, <1>10, <1>11 DEF ChannelInv
  <1> QED BY <1>2, <1>12, <1>13, <1>14, <1>15 DEF CoreInv

\* What the root, the hosts and the messages between them are to each other, for any
\* operators, hosts and topology, when one migration goes on at a time.
THEOREM MigrationInvariance ==
    ASSUME Overlap = "none" PROVE Spec => []CoreInv
  <1>1. Init => CoreInv
    BY CoreAtStart
  <1>2. CoreInv /\ [Next]_vars => CoreInv'
    BY StepKeepsCore
  <1> QED BY <1>1, <1>2, PTL DEF Spec

-----------------------------------------------------------------------------
(* No binding names an operator that is gone. *)

LEMMA CoreIsTyped == CoreInv => NoDanglingBinding
  <1> SUFFICES ASSUME CoreInv PROVE NoDanglingBinding
    OBVIOUS
  <1>1. RootTypes /\ Alive /\ Linked /\ ChannelTypes
    BY CoreIs
  <1>2. ASSUME NEW m \in Mig
        PROVE  /\ mig[m].old \in Cid /\ mig[m].new \in Cid
               /\ mig[m].bindCounter <= Length(m) /\ mig[m].unbindCounter <= Length(m)
    <2>1. mig[m].old \in Cid /\ mig[m].new \in Cid
      BY <1>1 DEF RootTypes, Migrating
    <2> QED BY <2>1, CountersAre
  <1>3. \A c \in Cid : c >= cluster_id => ~ Present(c)
    BY <1>1 DEF Alive
  <1>4. TypeOK
    BY <1>1, <1>2, <1>3 DEF TypeOK, RootTypes, ChannelTypes
  <1>5. \A b \in Range(bindings) : Present(b.from) /\ Present(b.to)
    BY <1>1 DEF Linked, Bindings
  <1> QED BY <1>4, <1>5 DEF NoDanglingBinding

\* The types, and that a binding of the root never names an operator that is gone: when one
\* migration goes on at a time, neither bind_operators nor unbind_clusters ever throws.
THEOREM NoDangling ==
    ASSUME Overlap = "none" PROVE Spec => []NoDanglingBinding
  <1>1. Spec => []CoreInv
    BY MigrationInvariance
  <1>2. CoreInv => NoDanglingBinding
    BY CoreIsTyped
  <1> QED BY <1>1, <1>2, PTL

-----------------------------------------------------------------------------
(* A migration implements the move of one operator in the graph of the user. *)

LEMMA TheLeast == ASSUME NEW S \in SUBSET Nat, NEW c \in S, \A d \in S : c <= d PROVE Min(S) = c
  <1>1. \A d \in S : d \in Nat
    OBVIOUS
  <1>2. ASSUME NEW x \in S, \A y \in S : x =< y PROVE x = c
    BY <1>1, <1>2
  <1>3. \E x \in S : \A y \in S : x =< y
    OBVIOUS
  <1>4. Min(S) \in S /\ \A y \in S : Min(S) =< y
    BY <1>3 DEF Min
  <1> QED BY <1>2, <1>4

\* The incarnations of an operator.
Living(o) == {c \in Cid : origin[c] = o /\ Present(c)}
LEMMA LivingIs ==
    ASSUME RootInv, NEW o \in Op
    PROVE  /\ Living(o) # {} /\ Living(o) \in SUBSET Nat /\ Living(o) \subseteq Cid
           /\ Incarnation(o) = Min(Living(o))
           /\ Incarnation(o) \in Living(o) /\ \A d \in Living(o) : Incarnation(o) <= d
  <1>1. Living(o) # {} /\ Living(o) \subseteq Cid
    BY DEF RootInv, Alive, Living
  <1>2. Living(o) \in SUBSET Nat
    BY <1>1, IdsAreNumbers
  <1>3. PICK c \in Living(o) : \A d \in Living(o) : c <= d
    BY <1>1, <1>2, LeastOf
  <1>4. Min(Living(o)) = c
    BY <1>2, <1>3, TheLeast
  <1>5. Incarnation(o) = Min(Living(o))
    BY DEF Incarnation, Living
  <1> QED BY <1>1, <1>2, <1>3, <1>4, <1>5

\* While one migration goes on, its operator alone is wanted elsewhere.
LEMMA WantedIs ==
    ASSUME RootTypes, InTurn, NEW m \in Mig, Busy(m)
    PROVE  Wanted = [o \in Op |-> IF o = origin[mig[m].old] THEN mig[m].dest ELSE NoHost]
  <1>1. \A n \in Mig : Busy(n) => n = m
    BY OneBusy
  <1>2. ASSUME NEW o \in Op
        PROVE  Going(o) = IF o = origin[mig[m].old] THEN {mig[m].dest} ELSE {}
    BY <1>1 DEF Going
  <1>3. \A d : (CHOOSE h \in {d} : TRUE) = d
    OBVIOUS
  <1>4. ASSUME NEW o \in Op
        PROVE  (IF Going(o) = {} THEN NoHost ELSE CHOOSE h \in Going(o) : TRUE)
                    = IF o = origin[mig[m].old] THEN mig[m].dest ELSE NoHost
    BY <1>2, <1>3
  <1> QED BY <1>4 DEF Wanted

LEMMA WantedRests ==
    ASSUME \A m \in Mig : Busy(m)' <=> Busy(m),
           \A m \in Mig : Busy(m) => /\ mig'[m].dest = mig[m].dest
                                     /\ origin'[mig'[m].old] = origin[mig[m].old]
    PROVE  Wanted' = Wanted
  <1>1. ASSUME NEW o \in Op PROVE Going(o)' = Going(o)
    <2>1. \A m \in Mig : (Busy(m)' /\ origin'[mig'[m].old] = o) <=> (Busy(m) /\ origin[mig[m].old] = o)
      OBVIOUS
    <2> QED BY <2>1 DEF Going
  <1> DEFINE To(S) == IF S = {} THEN NoHost ELSE CHOOSE h \in S : TRUE
  <1>2. Wanted = [o \in Op |-> To(Going(o))] /\ Wanted' = [o \in Op |-> To(Going(o)')]
    BY DEF Wanted
  <1> HIDE DEF To
  <1> QED BY <1>1, <1>2

LEMMA PlaceRests == ASSUME UNCHANGED <<clusters, origin>> PROVE Place' = Place
  <1>1. \A o \in Op : Incarnation(o)' = Incarnation(o)
    BY DEF Incarnation, Present
  <1> QED BY <1>1 DEF Place

\* An operator is wanted elsewhere when a migration of it begins, and until it ends.
LEMMA MigrateAsks ==
    ASSUME CoreInv, Overlap = "none", Edges' = Edges,
           NEW m \in Mig, NEW c \in Cid, NEW h \in Host, Migrate(m, c, h)
    PROVE  Graph!Next
  <1>1. RootTypes /\ Alive
    BY CoreIs
  <1>2. /\ mig[m].phase = "idle" /\ \A n \in Mig : ~ Busy(n)
        /\ Present(c)
        /\ mig' = [mig EXCEPT ![m].phase = "collect", ![m].old = c,
                              ![m].src = clusters[c], ![m].dest = h]
        /\ UNCHANGED <<clusters, origin>>
    BY DEF Migrate
  <1>3. PICK o \in Op : o = origin[c]
    BY <1>1, <1>2 DEF Alive
  <1>4. /\ mig'[m].phase = "collect" /\ mig'[m].old = c /\ mig'[m].dest = h
        /\ \A n \in Mig : n # m => mig'[n] = mig[n]
    BY <1>1, <1>2 DEF RootTypes, Migrating
  <1>5. \A n \in Mig : Busy(n)' <=> n = m
    BY <1>2, <1>4 DEF Busy
  <1>6. ASSUME NEW p \in Op PROVE Going(p) = {} /\ Going(p)' = IF p = o THEN {h} ELSE {}
    <2>1. Going(p) = {}
      BY <1>2 DEF Going
    <2>2. origin'[mig'[m].old] = o
      BY <1>2, <1>3, <1>4
    <2>3. Going(p)' = {mig'[n].dest : n \in {n \in Mig : Busy(n)' /\ origin'[mig'[n].old] = p}}
      BY DEF Going
    <2>4. {n \in Mig : Busy(n)' /\ origin'[mig'[n].old] = p} = IF p = o THEN {m} ELSE {}
      BY <1>5, <2>2
    <2> QED BY <1>4, <2>1, <2>3, <2>4
  <1> DEFINE To(S) == IF S = {} THEN NoHost ELSE CHOOSE g \in S : TRUE
  <1>7. Wanted = [p \in Op |-> To(Going(p))] /\ Wanted' = [p \in Op |-> To(Going(p)')]
    BY DEF Wanted
  <1>8. To({}) = NoHost /\ To({h}) = h
    OBVIOUS
  <1> HIDE DEF To
  <1>9. \A p \in Op : Wanted[p] = NoHost
    BY <1>6, <1>7, <1>8
  <1>10. Wanted' = [Wanted EXCEPT ![o] = h]
    <2>1. Wanted' = [p \in Op |-> IF p = o THEN h ELSE NoHost]
      BY <1>6, <1>7, <1>8
    <2>2. Wanted = [p \in Op |-> NoHost]
      BY <1>6, <1>7, <1>8
    <2> QED BY <2>1, <2>2
  <1>11. Place' = Place
    BY <1>2, PlaceRests
  <1>12. Graph!Ask(o, h)
    BY <1>9, <1>10, <1>11 DEF Graph!Ask
  <1> QED BY <1>12 DEF Graph!Next

\* The operator moves when the removal of its old incarnation is answered: the new one is on
\* the host that was asked for.
LEMMA RemovedMoves ==
    ASSUME CoreInv, RootInv', Edges' = Edges, NEW h \in Host, Removed(h)
    PROVE  Graph!Next
  <1>1. PICK m : m = Head(up[h]).m
    OBVIOUS
  <1>2. /\ up[h] # <<>> /\ Head(up[h]).op = "removed"
        /\ clusters' = [clusters EXCEPT ![mig[m].old] = NoHost]
        /\ mig' = [mig EXCEPT ![m].phase = "done"]
        /\ UNCHANGED <<origin, cluster_id>>
    BY <1>1 DEF Removed, FromHost
  <1>3. /\ RootTypes /\ InTurn /\ Alive /\ RootInv /\ ChannelInv /\ \A n \in Mig : Ends(n)
    BY CoreIs
  <1>4. m \in Mig /\ mig[m].phase = "remove" /\ Busy(m) /\ Begun(m)
    <2>1. mig[m].phase = Kind(Head(up[h]).op) /\ Busy(m)
      BY <1>1, <1>2, AloneIs
    <2>2. m \in Mig
      BY <1>1, <1>2, <1>3, Returned
    <2>3. mig[m].phase = "remove"
      BY <1>2, <2>1, KindIs
    <2> QED BY <2>1, <2>2, <2>3 DEF Begun
  <1>5. PICK old, new, dest : old = mig[m].old /\ new = mig[m].new /\ dest = mig[m].dest
    OBVIOUS
  <1>6. /\ old \in Cid /\ new \in Cid /\ old < new /\ clusters[old] # NoHost
        /\ clusters[new] = dest /\ dest \in Host /\ origin[new] = origin[old]
    BY <1>3, <1>4, <1>5, IdsAreNumbers DEF Ends, RootTypes, Migrating
  <1>7. PICK o \in Op : o = origin[old]
    BY <1>3, <1>6 DEF Alive, Present
  <1>8. Present(new) /\ Present(new)' /\ ~ Present(old)' /\ old # new
        /\ \A c \in Cid : c # old => clusters'[c] = clusters[c]
    BY <1>2, <1>3, <1>5, <1>6, IdsAreNumbers DEF Present, RootTypes
  <1>9. Place' = [Place EXCEPT ![o] = dest]
    <2>1. ASSUME NEW p \in Op, p # o PROVE Incarnation(p)' = Incarnation(p) /\ Incarnation(p) \in Cid
                                           /\ Incarnation(p) # old
      <3>1. \A c \in Cid : (origin'[c] = p /\ Present(c)') <=> (origin[c] = p /\ Present(c))
        BY <1>2, <1>7, <1>8, <2>1 DEF Present
      <3>2. Incarnation(p)' = Incarnation(p)
        BY <3>1 DEF Incarnation
      <3>3. Incarnation(p) \in Cid /\ origin[Incarnation(p)] = p
        BY <1>3, LivingIs DEF Living
      <3> QED BY <1>7, <2>1, <3>2, <3>3
    <2>2. Incarnation(o)' = new
      <3>1. Incarnation(o)' = Min({c \in Cid : origin'[c] = o /\ Present(c)'})
        BY DEF Incarnation
      <3>2. ASSUME NEW c \in Cid, origin'[c] = o, Present(c)' PROVE c = new
        <4>1. /\ c # old /\ Present(c) /\ origin[c] = o /\ origin[new] = o /\ origin[old] = o
              /\ Present(new) /\ Present(old)
          BY <1>2, <1>6, <1>7, <1>8, <3>2 DEF Present
        <4>2. c \in Nat /\ old \in Nat
          BY <1>6, IdsAreNumbers
        <4>3. c < old \/ old < c
          BY <4>1, <4>2
        <4>4. \A n \in Mig : Begun(n) => n = m
          <5>1. \A n \in Mig : n # m => ~ Begun(n)
            BY <1>3, <1>4, OneBusy
          <5> QED BY <5>1
        <4>5. CASE c < old
          <5>1. mig[m].old = c
            BY <1>3, <1>6, <4>1, <4>4, <4>5 DEF Alive
          <5> QED BY <1>5, <4>1, <5>1
        <4>6. CASE old < c
          <5>1. mig[m].new = c
            BY <1>3, <1>6, <4>1, <4>4, <4>6 DEF Alive
          <5> QED BY <1>5, <5>1
        <4> QED BY <4>3, <4>5, <4>6
      <3>3. new \in Cid /\ origin'[new] = o /\ Present(new)'
        BY <1>2, <1>6, <1>7, <1>8
      <3>4. PICK S : S = {c \in Cid : origin'[c] = o /\ Present(c)'}
        OBVIOUS
      <3>5. S = {new}
        BY <3>2, <3>3, <3>4
      <3>6. new \in Nat
        BY <1>6, IdsAreNumbers
      <3>7. S \in SUBSET Nat /\ new \in S /\ \A d \in S : new <= d
        BY <3>5, <3>6
      <3> QED BY <3>1, <3>4, <3>7, TheLeast
    <2>3. Place' = [p \in Op |-> clusters'[Incarnation(p)']] /\ Place = [p \in Op |-> clusters[Incarnation(p)]]
      BY DEF Place
    <2>4. clusters'[new] = dest
      BY <1>6, <1>8
    <2>5. \A p \in Op : p # o => clusters'[Incarnation(p)'] = clusters[Incarnation(p)]
      BY <1>8, <2>1
    <2>6. clusters'[Incarnation(o)'] = dest
      BY <2>2, <2>4
    <2> QED BY <2>3, <2>5, <2>6
  <1>10. Wanted = [p \in Op |-> IF p = o THEN dest ELSE NoHost]
    BY <1>3, <1>4, <1>5, <1>7, WantedIs
  <1>11. Wanted' = [p \in Op |-> NoHost]
    <2>1. \A n \in Mig : n # m => ~ Busy(n)
      BY <1>3, <1>4, OneBusy
    <2>2. mig'[m].phase = "done" /\ \A n \in Mig : n # m => mig'[n] = mig[n]
      BY <1>2, <1>3, <1>4 DEF RootTypes, Migrating
    <2>3. \A n \in Mig : ~ Busy(n)'
      BY <2>1, <2>2 DEF Busy
    <2>4. \A p \in Op : Going(p)' = {}
      BY <2>3 DEF Going
    <2> QED BY <2>4 DEF Wanted
  <1>12. Graph!Move(o)
    <2>1. Wanted[o] = dest /\ dest # NoHost
      BY <1>6, <1>10, IdsAreNumbers
    <2>2. Wanted' = [Wanted EXCEPT ![o] = NoHost]
      BY <1>10, <1>11
    <2>3. Place' = [Place EXCEPT ![o] = Wanted[o]]
      BY <1>9, <2>1
    <2> QED BY <2>1, <2>2, <2>3 DEF Graph!Move
  <1> QED BY <1>12 DEF Graph!Next

\* What a migration does between its beginning and its end is not seen in the graph.
Unseen == UNCHANGED <<Place, Wanted>>
LEMMA GoingOnIsUnseen ==
    ASSUME RootTypes, NEW m \in Mig, Busy(m), UNCHANGED <<clusters, origin>>,
           NEW p \in Phase, NEW k, NEW l, Goes(m, p, k, l), p \notin {"idle", "done"}
    PROVE  Unseen
  <1>1. /\ \A n \in Mig : n # m => mig'[n] = mig[n]
        /\ mig'[m].phase = p /\ mig'[m].old = mig[m].old /\ mig'[m].dest = mig[m].dest
    BY DEF Goes
  <1>2. \A n \in Mig : Busy(n)' <=> Busy(n)
    BY <1>1 DEF Busy
  <1>3. \A n \in Mig : Busy(n) => /\ mig'[n].dest = mig[n].dest
                                  /\ origin'[mig'[n].old] = origin[mig[n].old]
    BY <1>1
  <1> QED BY <1>2, <1>3, WantedRests, PlaceRests DEF Unseen

LEMMA RanIsUnseen == ASSUME CoreInv, NEW h \in Host, Ran(h) PROVE Unseen
  <1>1. PICK m : m = Head(up[h]).m
    OBVIOUS
  <1>2. /\ up[h] # <<>> /\ Head(up[h]).op = "ran" /\ UNCHANGED <<clusters, origin>>
        /\ \/ mig' = [mig EXCEPT ![m].phase = "remove"]
           \/ mig' = [mig EXCEPT ![m].phase = "bind"]
    BY <1>1 DEF Ran, FromHost
  <1>3. RootTypes /\ ChannelInv
    BY CoreIs
  <1>4. m \in Mig
    BY <1>1, <1>2, <1>3, Returned
  <1>5. Busy(m)
    BY <1>1, <1>2, AloneIs
  <1>6. "remove" \in Phase /\ "bind" \in Phase
    BY DEF Phase
  <1>7. \E p \in {"remove", "bind"} : Goes(m, p, mig[m].bindCounter, mig[m].unbindCounter)
    BY <1>2, <1>3, <1>4, <1>6, GoesIs
  <1> QED BY <1>2, <1>3, <1>4, <1>5, <1>6, <1>7, GoingOnIsUnseen

LEMMA CountIsUnseen == ASSUME CoreInv, NEW h \in Host, Bound(h) \/ Unbound(h) PROVE Unseen
  <1>1. PICK m : m = Head(up[h]).m
    OBVIOUS
  <1>2. /\ up[h] # <<>> /\ Head(up[h]).op \in {"bound", "unbound"} /\ UNCHANGED <<clusters, origin>>
        /\ \/ mig' = [mig EXCEPT ![m].bindCounter = @ + 1]
           \/ mig' = [mig EXCEPT ![m].bindCounter = @ + 1, ![m].phase = "unbind"]
           \/ mig' = [mig EXCEPT ![m].unbindCounter = @ + 1]
           \/ mig' = [mig EXCEPT ![m].unbindCounter = @ + 1, ![m].phase = "remove"]
    BY <1>1 DEF Bound, Unbound, FromHost
  <1>3. RootTypes
    BY CoreIs
  <1>4. m \in Mig /\ Busy(m)
    BY <1>1, <1>2, CountedIs
  <1>5. mig[m].phase \in Phase /\ mig[m].phase \notin {"idle", "done"}
    BY <1>3, <1>4 DEF RootTypes, Migrating, Busy
  <1>6. "unbind" \in Phase /\ "remove" \in Phase
    BY DEF Phase
  <1>7. \E p \in {mig[m].phase, "unbind", "remove"} : \E k, l : Goes(m, p, k, l)
    BY <1>2, <1>3, <1>4, <1>6, GoesIs
  <1> QED BY <1>2, <1>3, <1>4, <1>5, <1>6, <1>7, GoingOnIsUnseen

LEMMA CollectedIsUnseen ==
    ASSUME CoreInv, RootInv', NEW h \in Host, Collected(h)
    PROVE  Unseen
  <1>1. PICK m : m = Head(up[h]).m
    OBVIOUS
  <1>2. /\ up[h] # <<>> /\ Head(up[h]).op = "clusters"
        /\ clusters' = [clusters EXCEPT ![cluster_id] = mig[m].dest]
        /\ origin' = [origin EXCEPT ![cluster_id] = origin[mig[m].old]]
        /\ mig' = [mig EXCEPT ![m].phase = "run", ![m].new = cluster_id,
                              ![m].outs = Outs(bindings, mig[m].old),
                              ![m].ins = Ins(bindings, mig[m].old)]
    BY <1>1 DEF Collected, FromHost
  <1>3. /\ RootTypes /\ InTurn /\ Alive /\ RootInv /\ ChannelInv /\ \A n \in Mig : Ends(n)
    BY CoreIs
  <1>4. m \in Mig /\ mig[m].phase = "collect" /\ Busy(m)
    <2>1. mig[m].phase = Kind(Head(up[h]).op) /\ Busy(m)
      BY <1>1, <1>2, AloneIs
    <2>2. m \in Mig
      BY <1>1, <1>2, <1>3, Returned
    <2>3. mig[m].phase = "collect"
      BY <1>2, <2>1, KindIs
    <2> QED BY <2>1, <2>2, <2>3
  <1>5. PICK c \in Cid : c = cluster_id /\ c \notin Op /\ \A d \in Cid : Present(d) => d < c
    BY <1>3, <1>4, NextIdIs
  <1>6. /\ \A d \in Cid : d # c => clusters'[d] = clusters[d] /\ origin'[d] = origin[d]
        /\ origin'[c] = origin[mig[m].old]
    BY <1>2, <1>3, <1>5 DEF RootTypes
  <1>7. ASSUME NEW o \in Op PROVE Incarnation(o)' = Incarnation(o) /\ Incarnation(o) \in Cid
                                   /\ Incarnation(o) # c
    <2>1. PICK i : i = Incarnation(o)
      OBVIOUS
    <2>2. i \in Cid /\ origin[i] = o /\ Present(i)
      BY <1>3, <2>1, LivingIs DEF Living
    <2>3. ASSUME NEW d \in Cid, origin[d] = o, Present(d) PROVE i <= d
      <3>1. d \in Living(o)
        BY <2>3 DEF Living
      <3> QED BY <1>3, <2>1, <3>1, LivingIs
    <2>4. c \in Nat /\ i \in Nat /\ i < c
      BY <1>5, <2>2, IdsAreNumbers
    <2>5. Incarnation(o)' = Min({d \in Cid : origin'[d] = o /\ Present(d)'})
      BY DEF Incarnation
    <2>6. PICK S : S = {d \in Cid : origin'[d] = o /\ Present(d)'}
      OBVIOUS
    <2>7. i \in S
      BY <1>6, <2>2, <2>4, <2>6 DEF Present
    <2>8. ASSUME NEW d \in S PROVE d \in Nat /\ i <= d
      <3>1. d \in Nat
        BY <2>6, IdsAreNumbers
      <3>2. CASE d = c
        BY <2>4, <3>1, <3>2
      <3>3. CASE d # c
        <4>1. d \in Cid /\ origin[d] = o /\ Present(d)
          BY <1>6, <2>6, <3>3 DEF Present
        <4> QED BY <2>3, <3>1, <4>1
      <3> QED BY <3>2, <3>3
    <2>9. S \in SUBSET Nat
      BY <2>8
    <2>10. Min(S) = i
      BY <2>7, <2>8, <2>9, TheLeast
    <2> QED BY <2>1, <2>2, <2>4, <2>5, <2>6, <2>10
  <1>8. Place' = Place
    <2>1. \A o \in Op : clusters'[Incarnation(o)'] = clusters[Incarnation(o)]
      BY <1>6, <1>7
    <2>2. Place' = [o \in Op |-> clusters'[Incarnation(o)']] /\ Place = [o \in Op |-> clusters[Incarnation(o)]]
      BY DEF Place
    <2> QED BY <2>1, <2>2
  <1>9. /\ \A n \in Mig : n # m => mig'[n] = mig[n]
        /\ mig'[m].phase = "run" /\ mig'[m].old = mig[m].old /\ mig'[m].dest = mig[m].dest
    BY <1>2, <1>3, <1>4 DEF RootTypes, Migrating
  <1>10. \A n \in Mig : Busy(n)' <=> Busy(n)
    BY <1>4, <1>9 DEF Busy
  <1>11. \A n \in Mig : n # m => ~ Busy(n)
    BY <1>3, <1>4, OneBusy
  <1>12. origin'[mig[m].old] = origin[mig[m].old]
    <2>1. mig[m].old \in Cid /\ mig[m].old < cluster_id
      BY <1>3, <1>4 DEF RootTypes, Migrating, Ends
    <2> QED BY <1>5, <1>6, <2>1, IdsAreNumbers
  <1>13. \A n \in Mig : Busy(n) => /\ mig'[n].dest = mig[n].dest
                                   /\ origin'[mig'[n].old] = origin[mig[n].old]
    BY <1>9, <1>11, <1>12
  <1>14. Wanted' = Wanted
    BY <1>10, <1>13, WantedRests
  <1> QED BY <1>8, <1>14 DEF Unseen

LEMMA StepKeepsGraph ==
    ASSUME CoreInv, CoreInv', Overlap = "none", [Next]_vars
    PROVE  [Graph!Next]_(Graph!graphVars)
  <1>1. RootInv /\ RootInv' /\ Edges' = Edges
    <2>1. RootInv /\ RootInv'
      BY DEF CoreInv
    <2>2. Edges = UserEdges /\ Edges' = UserEdges'
      BY <2>1 DEF RootInv, Linked
    <2>3. UserEdges' = UserEdges
      BY DEF UserEdges
    <2> QED BY <2>1, <2>2, <2>3
  <1>2. Unseen => UNCHANGED Graph!graphVars
    BY <1>1 DEF Unseen, Graph!graphVars
  <1>3. ASSUME UNCHANGED rootVars PROVE Unseen
    <2>1. UNCHANGED <<clusters, origin, mig>>
      BY <1>3 DEF rootVars
    <2>2. \A m \in Mig : Busy(m)' <=> Busy(m)
      BY <2>1 DEF Busy
    <2> QED BY <2>1, <2>2, WantedRests, PlaceRests DEF Unseen
  <1>4. CASE \E m \in Mig, c \in Cid, h \in Host : Migrate(m, c, h)
    BY <1>1, <1>4, MigrateAsks
  <1>5. ASSUME NEW h \in Host, RootStep(h) PROVE Graph!Next \/ Unseen
    <2>1. CASE Collected(h)
      BY <1>1, <2>1, CollectedIsUnseen
    <2>2. CASE Ran(h)
      BY <2>2, RanIsUnseen
    <2>3. CASE Bound(h) \/ Unbound(h)
      BY <2>3, CountIsUnseen
    <2>4. CASE Removed(h)
      BY <1>1, <2>4, RemovedMoves
    <2>5. CASE Forward(h)
      BY <1>3, <2>5 DEF Forward
    <2> QED BY <1>5, <2>1, <2>2, <2>3, <2>4, <2>5 DEF RootStep
  <1>6. ASSUME NEW h \in Host, HostStep(h) PROVE UNCHANGED rootVars
    BY <1>6 DEF HostStep, GetClusters, RunCluster, BindCluster, NotifyBinding, GetWorkers,
                GotWorkers, UnbindCluster, UnbindProcess, RemoveCluster
  <1>7. ASSUME NEW c \in Cid, WorkerStep(c) PROVE UNCHANGED rootVars
    BY <1>7 DEF WorkerStep, BindNode, UnbindNode, FromParent
  <1>8. CASE UNCHANGED vars
    BY <1>2, <1>3, <1>8 DEF vars
  <1> QED BY <1>2, <1>3, <1>4, <1>5, <1>6, <1>7, <1>8 DEF Next

LEMMA GraphAtStart == Init => Graph!Init
  <1> SUFFICES ASSUME Init PROVE Graph!Init
    OBVIOUS
  <1>1. /\ clusters = [c \in Cid |-> IF c \in Op THEN Start[c] ELSE NoHost]
        /\ mig = [m \in Mig |-> NoMig] /\ origin = [c \in Cid |-> c]
    BY DEF Init
  <1>2. RootInv
    BY RootAtStart
  <1>3. Edges = UserEdges
    BY <1>2 DEF RootInv, Linked
  <1>4. \A o \in Op : Incarnation(o) = o
    <2>1. ASSUME NEW o \in Op PROVE Incarnation(o) \in Living(o) /\ \A c \in Living(o) : c = o
      <3>1. Incarnation(o) \in Living(o)
        BY <1>2, LivingIs
      <3> QED BY <1>1, <3>1 DEF Living
    <2> QED BY <2>1
  <1>5. Place = Start
    <2>1. Start = [o \in Op |-> Start[o]] /\ Op \subseteq Cid
      BY OpAssumption, IdsAreNumbers
    <2>2. \A o \in Op : clusters[Incarnation(o)] = Start[o]
      BY <1>1, <1>4, <2>1
    <2> QED BY <2>1, <2>2 DEF Place
  <1>6. Wanted = [o \in Op |-> NoHost]
    <2>1. NoMig.phase = "idle"
      BY DEF NoMig
    <2>2. \A m \in Mig : ~ Busy(m)
      BY <1>1, <2>1 DEF Busy
    <2>3. \A o \in Op : Going(o) = {}
      BY <2>2 DEF Going
    <2> QED BY <2>3 DEF Wanted
  <1> QED BY <1>3, <1>5, <1>6 DEF Graph!Init

\* Migration implements StreamGraph: with a dozen remote calls for each migration, the
\* topology of the user stays the same graph of operators, and an operator moves in one step
\* to where it was asked to, when its migration ends.
THEOREM GraphKept ==
    ASSUME Overlap = "none" PROVE Spec => KeepsGraph
  <1>1. Spec => []CoreInv
    BY MigrationInvariance
  <1>2. Init => Graph!Init
    BY GraphAtStart
  <1>3. CoreInv /\ CoreInv' /\ [Next]_vars => [Graph!Next]_(Graph!graphVars)
    BY StepKeepsGraph
  <1> QED BY <1>1, <1>2, <1>3, PTL DEF Spec, KeepsGraph, Graph!Spec

=============================================================================
