------------------------------ MODULE MeshProofs ------------------------------
(***************************************************************************)
(* The safety of Mesh for any workers and any number of binds.  The        *)
(* argument is by counting.  What will make a socket from a worker of A to *)
(* one of B is in one of three queues (Supply), and every entry of the     *)
(* binding adds at most one to it: either the worker of B is in the answer *)
(* of get_workers, or it is born later and the entry is in from.  What     *)
(* will remove one (Owed) is as much as the supply at the retirement, and  *)
(* comes behind it in every queue.                                         *)
(***************************************************************************)
EXTENDS Mesh, FiniteSetTheorems, SequenceTheorems, TLAPS

-----------------------------------------------------------------------------
(* Counting in a queue. *)

CountIn(q, T) == Cardinality({i \in DOMAIN q : q[i] \in T})

LEMMA CountType ==
    ASSUME NEW S, NEW q \in Seq(S), NEW T
    PROVE  IsFiniteSet({i \in DOMAIN q : q[i] \in T}) /\ CountIn(q, T) \in Nat
  <1>1. Len(q) \in Nat /\ DOMAIN q = 1..Len(q)
    BY LenProperties
  <1>2. IsFiniteSet(1..Len(q))
    BY <1>1, FS_Interval
  <1>3. {i \in DOMAIN q : q[i] \in T} \subseteq 1..Len(q)
    BY <1>1
  <1>4. IsFiniteSet({i \in DOMAIN q : q[i] \in T})
    BY <1>2, <1>3, FS_Subset
  <1> QED BY <1>4, FS_CardinalityType DEF CountIn

\* Nothing is counted when there is nothing, and only then.
LEMMA CountNone ==
    ASSUME NEW S, NEW q \in Seq(S), NEW T
    PROVE  CountIn(q, T) = 0 <=> \A i \in DOMAIN q : q[i] \notin T
  <1> DEFINE F == {i \in DOMAIN q : q[i] \in T}
  <1>1. IsFiniteSet(F) /\ CountIn(q, T) = Cardinality(F)
    BY CountType DEF CountIn
  <1>2. Cardinality(F) = 0 <=> F = {}
    BY <1>1, FS_EmptySet
  <1> QED BY <1>1, <1>2

LEMMA CountEmpty == \A T : CountIn(<<>>, T) = 0
  <1> TAKE T
  <1>1. {i \in DOMAIN <<>> : <<>>[i] \in T} = {}
    OBVIOUS
  <1> QED BY <1>1, FS_EmptySet DEF CountIn

\* Counts of two queues, one behind the other, add up.
LEMMA CountConcat ==
    ASSUME NEW S, NEW q \in Seq(S), NEW r \in Seq(S), NEW T
    PROVE  CountIn(q \o r, T) = CountIn(q, T) + CountIn(r, T)
  <1> DEFINE n == Len(q)
             F == {i \in DOMAIN q : q[i] \in T}
             G == {i \in DOMAIN r : r[i] \in T}
             H == {i \in DOMAIN (q \o r) : (q \o r)[i] \in T}
             M == H \ F
             shift == [i \in G |-> n + i]
  <1>1. /\ n \in Nat /\ Len(r) \in Nat /\ DOMAIN q = 1..n /\ DOMAIN r = 1..Len(r)
        /\ DOMAIN (q \o r) = 1..(n + Len(r))
        /\ \A i \in 1..(n + Len(r)) : (q \o r)[i] = IF i <= n THEN q[i] ELSE r[i - n]
    <2>1. q \o r \in Seq(S) /\ Len(q \o r) = Len(q) + Len(r)
          /\ \A i \in 1..(Len(q) + Len(r)) : (q \o r)[i] = IF i <= Len(q) THEN q[i] ELSE r[i - Len(q)]
      BY ConcatProperties
    <2> QED BY <2>1, LenProperties
  <1>2. /\ IsFiniteSet(F) /\ IsFiniteSet(G) /\ CountIn(q, T) = Cardinality(F)
        /\ CountIn(r, T) = Cardinality(G) /\ CountIn(q \o r, T) = Cardinality(H)
    BY CountType DEF CountIn
  <1>3. F \subseteq H /\ \A i \in F : i <= n
    <2>1. \A i \in 1..n : i \in 1..(n + Len(r)) /\ i <= n
      BY <1>1
    <2> HIDE DEF n
    <2> QED BY <1>1, <2>1
  <1>4. M = {i \in H : i > n}
    <2>1. \A i \in H : i \in 1..(n + Len(r)) /\ (q \o r)[i] \in T
      BY <1>1
    <2>2. \A i \in H : i <= n => i \in F
      <3> SUFFICES ASSUME NEW i \in H, i <= n PROVE i \in F
        OBVIOUS
      <3>1. i \in 1..n /\ (q \o r)[i] = q[i]
        BY <1>1, <2>1
      <3> QED BY <1>1, <2>1, <3>1
    <2>3. \A i \in H : i \in Int /\ n \in Int
      BY <1>1, <2>1
    <2> HIDE DEF F, H, n
    <2>4. \A i \in H : i \notin F <=> i > n
      BY <1>3, <2>2, <2>3
    <2> QED BY <2>4
  <1>5. shift \in Bijection(G, M)
    <2>1. \A i \in G : n + i \in M
      <3> SUFFICES ASSUME NEW i \in G PROVE n + i \in H /\ n + i > n
        BY <1>4
      <3>1. i \in 1..Len(r) /\ r[i] \in T
        BY <1>1
      <3>2. n + i \in 1..(n + Len(r)) /\ n + i > n /\ (n + i) - n = i /\ ~ (n + i <= n)
        BY <1>1, <3>1
      <3>3. (q \o r)[n + i] = r[i]
        BY <1>1, <3>2
      <3> HIDE DEF n
      <3> QED BY <1>1, <3>1, <3>2, <3>3
    <2>2. \A k \in M : \E i \in G : n + i = k
      <3> SUFFICES ASSUME NEW k \in H, k > n PROVE \E i \in G : n + i = k
        BY <1>4
      <3>1. k \in 1..(n + Len(r)) /\ (q \o r)[k] \in T
        BY <1>1
      <3>2. k - n \in 1..Len(r) /\ n + (k - n) = k /\ ~ (k <= n)
        BY <1>1, <3>1
      <3>3. r[k - n] \in T
        BY <1>1, <3>1, <3>2
      <3>4. k - n \in G
        BY <1>1, <3>2, <3>3
      <3> QED BY <3>2, <3>4
    <2>3. \A i, j \in G : n + i = n + j => i = j
      BY <1>1
    <2> HIDE DEF G, M, n
    <2>4. shift \in [G -> M]
      BY <2>1
    <2>5. shift \in Surjection(G, M)
      BY <2>2, <2>4 DEF Surjection
    <2>6. shift \in Injection(G, M)
      BY <2>3, <2>4 DEF Injection, IsInjective
    <2> QED BY <2>5, <2>6 DEF Bijection
  <1> HIDE DEF F, G, H, M, shift
  <1>6. IsFiniteSet(M) /\ Cardinality(M) = Cardinality(G)
    BY <1>2, <1>5, FS_Bijection DEF ExistsBijection
  <1>7. H = F \cup M /\ F \cap M = {}
    BY <1>3 DEF M
  <1>8. Cardinality(H) = Cardinality(F) + Cardinality(M) - Cardinality(F \cap M)
    BY <1>2, <1>6, <1>7, FS_Union
  <1>9. Cardinality(F \cap M) = 0
    BY <1>7, FS_EmptySet
  <1>10. Cardinality(F) \in Nat /\ Cardinality(G) \in Nat
    BY <1>2, FS_CardinalityType
  <1> QED BY <1>2, <1>6, <1>8, <1>9, <1>10

LEMMA CountOne ==
    ASSUME NEW e, NEW T
    PROVE  /\ e \in T => CountIn(<<e>>, T) = 1
           /\ e \notin T => CountIn(<<e>>, T) = 0
  <1>1. DOMAIN <<e>> = {1} /\ <<e>>[1] = e
    OBVIOUS
  <1>2. ASSUME e \in T PROVE CountIn(<<e>>, T) = 1
    <2>1. {i \in DOMAIN <<e>> : <<e>>[i] \in T} = {1}
      BY <1>1, <1>2
    <2> QED BY <2>1, FS_Singleton DEF CountIn
  <1>3. ASSUME e \notin T PROVE CountIn(<<e>>, T) = 0
    <2>1. {i \in DOMAIN <<e>> : <<e>>[i] \in T} = {}
      BY <1>1, <1>3
    <2> QED BY <2>1, FS_EmptySet DEF CountIn
  <1> QED BY <1>2, <1>3

LEMMA CountAppend ==
    ASSUME NEW S, NEW q \in Seq(S), NEW e \in S, NEW T
    PROVE  /\ Append(q, e) \in Seq(S)
           /\ e \in T => CountIn(Append(q, e), T) = CountIn(q, T) + 1
           /\ e \notin T => CountIn(Append(q, e), T) = CountIn(q, T)
  <1>1. Append(q, e) = q \o <<e>> /\ <<e>> \in Seq(S) /\ Append(q, e) \in Seq(S)
    BY AppendIsConcat
  <1>2. CountIn(q \o <<e>>, T) = CountIn(q, T) + CountIn(<<e>>, T) /\ CountIn(q, T) \in Nat
    BY <1>1, CountConcat, CountType
  <1> QED BY <1>1, <1>2, CountOne

LEMMA CountTail ==
    ASSUME NEW S, NEW q \in Seq(S), q # <<>>, NEW T
    PROVE  /\ Head(q) \in S /\ Tail(q) \in Seq(S)
           /\ Head(q) \in T => CountIn(q, T) = CountIn(Tail(q), T) + 1
           /\ Head(q) \notin T => CountIn(q, T) = CountIn(Tail(q), T)
  <1>1. /\ Head(q) \in S /\ Tail(q) \in Seq(S) /\ Len(q) \in Nat \ {0}
        /\ Len(Tail(q)) = Len(q) - 1 /\ Head(q) = q[1]
        /\ \A i \in 1..(Len(q) - 1) : Tail(q)[i] = q[i + 1]
    BY HeadTailProperties
  <1>2. q = <<Head(q)>> \o Tail(q)
    <2>1. <<Head(q)>> \in Seq(S) /\ Len(<<Head(q)>>) = 1 /\ <<Head(q)>>[1] = Head(q)
      BY <1>1
    <2> DEFINE o == <<Head(q)>>
    <2>2. /\ o \o Tail(q) \in Seq(S) /\ Len(o \o Tail(q)) = Len(q)
          /\ \A i \in 1..Len(q) : (o \o Tail(q))[i] = IF i <= 1 THEN o[i] ELSE Tail(q)[i - 1]
      <3> HIDE DEF o
      <3>1. /\ o \o Tail(q) \in Seq(S) /\ Len(o \o Tail(q)) = Len(o) + Len(Tail(q))
            /\ \A i \in 1..(Len(o) + Len(Tail(q))) :
                   (o \o Tail(q))[i] = IF i <= Len(o) THEN o[i] ELSE Tail(q)[i - Len(o)]
        BY <1>1, <2>1, ConcatProperties DEF o
      <3>2. Len(o) = 1
        BY <2>1 DEF o
      <3>3. Len(o) + Len(Tail(q)) = Len(q)
        BY <1>1, <3>2
      <3> QED BY <3>1, <3>2, <3>3
    <2>3. \A i \in 1..Len(q) : (o \o Tail(q))[i] = q[i]
      <3> SUFFICES ASSUME NEW i \in 1..Len(q) PROVE (o \o Tail(q))[i] = q[i]
        OBVIOUS
      <3>1. CASE i = 1
        <4>1. (o \o Tail(q))[i] = o[1]
          BY <2>2, <3>1
        <4> QED BY <1>1, <2>1, <3>1, <4>1
      <3>2. CASE i # 1
        <4>1. i - 1 \in 1..(Len(q) - 1) /\ (i - 1) + 1 = i /\ ~ (i <= 1)
          BY <1>1, <3>2
        <4>2. (o \o Tail(q))[i] = Tail(q)[i - 1]
          BY <2>2, <4>1
        <4> QED BY <1>1, <4>1, <4>2
      <3> QED BY <3>1, <3>2
    <2> HIDE DEF o
    <2>4. o \o Tail(q) = q
      BY <2>2, <2>3, SeqEqual
    <2> QED BY <2>4 DEF o
  <1>3. <<Head(q)>> \in Seq(S)
    BY <1>1
  <1>4. CountIn(q, T) = CountIn(<<Head(q)>>, T) + CountIn(Tail(q), T)
    <2>1. CountIn(<<Head(q)>> \o Tail(q), T) = CountIn(<<Head(q)>>, T) + CountIn(Tail(q), T)
      BY <1>1, <1>3, CountConcat
    <2> QED BY <1>2, <2>1
  <1>5. CountIn(Tail(q), T) \in Nat
    BY <1>1, CountType
  <1> QED BY <1>1, <1>4, <1>5, CountOne

\* A number of equal messages.
LEMMA CountConst ==
    ASSUME NEW S, NEW e \in S, NEW n \in Nat, NEW T
    PROVE  /\ [i \in 1..n |-> e] \in Seq(S)
           /\ e \in T => CountIn([i \in 1..n |-> e], T) = n
           /\ e \notin T => CountIn([i \in 1..n |-> e], T) = 0
  <1> DEFINE q == [i \in 1..n |-> e]
  <1>1. q \in Seq(S) /\ DOMAIN q = 1..n /\ \A i \in 1..n : q[i] = e
    OBVIOUS
  <1> HIDE DEF q
  <1>2. ASSUME e \in T PROVE CountIn(q, T) = n
    <2>1. {i \in DOMAIN q : q[i] \in T} = 1..n
      BY <1>1, <1>2
    <2>2. Cardinality(1..n) = n
      BY FS_Interval
    <2> QED BY <2>1, <2>2 DEF CountIn
  <1>3. ASSUME e \notin T PROVE CountIn(q, T) = 0
    <2>1. {i \in DOMAIN q : q[i] \in T} = {}
      BY <1>1, <1>3
    <2> QED BY <2>1, FS_EmptySet DEF CountIn
  <1> QED BY <1>1, <1>2, <1>3 DEF q

\* A member of an injective sequence is there once.
LEMMA CountInjective ==
    ASSUME NEW S, NEW q \in Seq(S), IsInjective(q), NEW x
    PROVE  /\ x \in Range(q) => CountIn(q, {x}) = 1
           /\ x \notin Range(q) => CountIn(q, {x}) = 0
  <1> DEFINE F == {i \in DOMAIN q : q[i] \in {x}}
  <1>1. ASSUME x \in Range(q) PROVE CountIn(q, {x}) = 1
    <2>1. PICK i \in DOMAIN q : q[i] = x
      BY <1>1 DEF Range
    <2>2. F = {i}
      BY <2>1 DEF IsInjective
    <2> QED BY <2>2, FS_Singleton DEF CountIn
  <1>2. ASSUME x \notin Range(q) PROVE CountIn(q, {x}) = 0
    <2>1. F = {}
      BY <1>2 DEF Range
    <2> QED BY <2>1, FS_EmptySet DEF CountIn
  <1> QED BY <1>1, <1>2

-----------------------------------------------------------------------------
(* The sockets unbind_node leaves. *)

\* A finite set of naturals can be counted off: each member has a place of its own, and
\* each place a member.
LEMMA CountedOff ==
    ASSUME NEW F \in SUBSET Nat, IsFiniteSet(F)
    PROVE  /\ \A i \in F : Cardinality({j \in F : j <= i}) \in 1..Cardinality(F)
           /\ \A i, k \in F :
                  Cardinality({j \in F : j <= i}) = Cardinality({j \in F : j <= k}) => i = k
           /\ \A n \in 1..Cardinality(F) : \E i \in F : Cardinality({j \in F : j <= i}) = n
  <1> DEFINE upto(i) == {j \in F : j <= i}
             rank == [i \in F |-> Cardinality(upto(i))]
  <1>1. ASSUME NEW i \in F
        PROVE  /\ IsFiniteSet(upto(i)) /\ Cardinality(upto(i)) \in 1..Cardinality(F)
    <2>1. upto(i) \subseteq F /\ upto(i) # {}
      OBVIOUS
    <2>2. /\ IsFiniteSet(upto(i)) /\ Cardinality(upto(i)) <= Cardinality(F)
          /\ Cardinality(upto(i)) # 0
      BY <2>1, FS_Subset, FS_EmptySet
    <2>3. Cardinality(upto(i)) \in Nat /\ Cardinality(F) \in Nat
      BY <2>2, FS_CardinalityType
    <2> HIDE DEF upto
    <2> QED BY <2>2, <2>3
  <1>2. ASSUME NEW i \in F, NEW j \in F, i < j
        PROVE  Cardinality(upto(i)) # Cardinality(upto(j))
    <2>1. upto(i) \subseteq upto(j) /\ j \in upto(j) /\ j \notin upto(i)
      <3>1. i \in Nat /\ j \in Nat /\ \A k \in F : k \in Nat /\ (k <= i => k <= j)
        BY <1>2
      <3>2. j <= j /\ ~ (j <= i)
        BY <1>2, <3>1
      <3> QED BY <3>1, <3>2
    <2>2. upto(i) # upto(j)
      BY <2>1
    <2> QED BY <1>1, <2>1, <2>2, FS_Subset
  <1>3. \A i, j \in F : i # j => i < j \/ j < i
    OBVIOUS
  <1>4. \A i, j \in F : rank[i] = rank[j] => i = j
    BY <1>2, <1>3
  <1>5. rank \in [F -> 1..Cardinality(F)]
    BY <1>1
  <1>6. \A i \in F : rank[i] = Cardinality({j \in F : j <= i})
    OBVIOUS
  <1> HIDE DEF rank, upto
  <1>7. rank \in Injection(F, 1..Cardinality(F))
    BY <1>4, <1>5 DEF Injection, IsInjective
  <1>8. Cardinality(F) \in Nat
    BY FS_CardinalityType
  <1>9. IsFiniteSet(1..Cardinality(F)) /\ Cardinality(1..Cardinality(F)) = Cardinality(F)
    BY <1>8, FS_Interval
  <1>10. rank \in Surjection(F, 1..Cardinality(F))
    BY <1>7, <1>9, FS_Injection
  <1>11. \A n \in 1..Cardinality(F) : \E i \in F : rank[i] = n
    BY <1>10 DEF Surjection
  <1> QED BY <1>4, <1>5, <1>6, <1>11

\* One place less in a row is one less to count.
LEMMA RowStep ==
    ASSUME NEW S, NEW q \in Seq(S), NEW b, NEW i \in DOMAIN q
    PROVE  /\ q[i] # b => Cardinality(InARow(q, b, i)) = 0
           /\ Cardinality(InARow(q, b, i)) \in Nat
           /\ q[i] = b /\ (i = 1 \/ q[i - 1] # b) => Cardinality(InARow(q, b, i)) = 1
           /\ q[i] = b /\ i # 1 /\ q[i - 1] = b =>
                  Cardinality(InARow(q, b, i)) = Cardinality(InARow(q, b, i - 1)) + 1
  <1>1. DOMAIN q = 1..Len(q) /\ Len(q) \in Nat /\ i \in Nat \ {0} /\ i \in i..i
    BY LenProperties
  <1>2. IsFiniteSet(InARow(q, b, i)) /\ IsFiniteSet(InARow(q, b, i - 1))
    <2>1. IsFiniteSet(1..i) /\ InARow(q, b, i) \subseteq 1..i
      BY <1>1, FS_Interval DEF InARow
    <2>2. i - 1 \in Int /\ 1 \in Int
      BY <1>1
    <2>3. IsFiniteSet(1..(i - 1))
      BY <2>2, FS_Interval
    <2>4. InARow(q, b, i - 1) \subseteq 1..(i - 1)
      BY DEF InARow
    <2> QED BY <2>1, <2>3, <2>4, FS_Subset
  <1>3. q[i] # b => InARow(q, b, i) = {}
    BY <1>1 DEF InARow
  <1>4. ASSUME q[i] = b, i = 1 \/ q[i - 1] # b PROVE InARow(q, b, i) = {i}
    <2>1. ASSUME NEW j \in 1..i, \A k \in j..i : q[k] = b PROVE j = i
      <3>1. CASE j = i
        BY <3>1
      <3>2. CASE j # i
        <4>1. i - 1 \in j..i /\ i # 1
          BY <1>1, <3>2
        <4> QED BY <1>4, <2>1, <4>1
      <3> QED BY <3>1, <3>2
    <2>2. i \in 1..i /\ \A k \in i..i : q[k] = b
      BY <1>1, <1>4
    <2> QED BY <2>1, <2>2 DEF InARow
  <1>5. ASSUME q[i] = b, i # 1, q[i - 1] = b
        PROVE  InARow(q, b, i) = InARow(q, b, i - 1) \cup {i} /\ i \notin InARow(q, b, i - 1)
    <2>1. \A j \in 1..i : j # i => j \in 1..(i - 1)
      BY <1>1
    <2>2. \A j \in 1..(i - 1) : j \in 1..i /\ j # i
      BY <1>1
    <2>3. \A j \in 1..(i - 1) : \A k \in j..(i - 1) : k \in j..i
      BY <1>1
    <2>4. \A j \in 1..(i - 1) : \A k \in j..i : k # i => k \in j..(i - 1)
      BY <1>1
    <2>5. i \in 1..i /\ \A k \in i..i : k = i
      BY <1>1
    <2>6. \A j \in 1..(i - 1) : (\A k \in j..i : q[k] = b) <=> (\A k \in j..(i - 1) : q[k] = b)
      BY <1>5, <2>3, <2>4
    <2> QED BY <1>5, <2>1, <2>2, <2>5, <2>6 DEF InARow
  <1>6. Cardinality(InARow(q, b, i)) \in Nat /\ Cardinality(InARow(q, b, i - 1)) \in Nat
    BY <1>2, FS_CardinalityType
  <1>7. q[i] # b => Cardinality(InARow(q, b, i)) = 0
    BY <1>3, FS_EmptySet
  <1>8. q[i] = b /\ (i = 1 \/ q[i - 1] # b) => Cardinality(InARow(q, b, i)) = 1
    BY <1>4, FS_Singleton
  <1>9. q[i] = b /\ i # 1 /\ q[i - 1] = b =>
            Cardinality(InARow(q, b, i)) = Cardinality(InARow(q, b, i - 1)) + 1
    BY <1>2, <1>5, <1>6, FS_AddElement
  <1> QED BY <1>6, <1>7, <1>8, <1>9

\* What stays: every socket to another worker, and fewer to b, if there were any.
LEMMA PassedIs ==
    ASSUME NEW S, NEW q \in Seq(S), NEW b
    PROVE  /\ Passed(q, b) \subseteq DOMAIN q
           /\ \A i \in DOMAIN q : q[i] # b => i \in Passed(q, b)
           /\ \A i \in DOMAIN q : q[i] = b => \E k \in DOMAIN q : q[k] = b /\ k \notin Passed(q, b)
  <1>1. DOMAIN q = 1..Len(q) /\ Len(q) \in Nat
    BY LenProperties
  <1>2. ASSUME NEW i \in DOMAIN q, q[i] # b PROVE i \in Passed(q, b)
    <2>1. Cardinality(InARow(q, b, i)) = 0
      BY <1>2, RowStep
    <2> QED BY <2>1 DEF Passed
  <1>3. ASSUME NEW i \in DOMAIN q, q[i] = b, i \in Passed(q, b)
        PROVE  \E k \in DOMAIN q : q[k] = b /\ k \notin Passed(q, b)
    <2> DEFINE c == Cardinality(InARow(q, b, i))
               d == Cardinality(InARow(q, b, i - 1))
    <2>1. c \in Nat /\ c % 2 = 0
      BY <1>3, RowStep DEF Passed
    <2>2. i # 1 /\ q[i - 1] = b
      <3>1. c # 1
        BY <2>1
      <3> QED BY <1>3, <3>1, RowStep
    <2>3. i - 1 \in DOMAIN q
      BY <1>1, <2>2
    <2>4. c = d + 1 /\ d \in Nat
      BY <1>3, <2>2, <2>3, RowStep
    <2> HIDE DEF c, d
    <2>5. d % 2 # 0
      BY <2>1, <2>4
    <2> QED BY <2>2, <2>3, <2>5 DEF Passed, d
  <1> QED BY <1>2, <1>3 DEF Passed

LEMMA RemovedIs ==
    ASSUME NEW S, NEW q \in Seq(S), NEW b
    PROVE  /\ Removed(q, b) \in Seq(S)
           /\ \A w : w # b => CountIn(Removed(q, b), {w}) = CountIn(q, {w})
           /\ CountIn(Removed(q, b), {b}) <= CountIn(q, {b})
           /\ CountIn(q, {b}) > 0 => CountIn(Removed(q, b), {b}) < CountIn(q, {b})
  <1>1. DOMAIN q = 1..Len(q) /\ Len(q) \in Nat /\ IsFiniteSet(DOMAIN q)
    BY LenProperties, FS_Interval
  <1> DEFINE left == Passed(q, b)
             rank(i) == Cardinality({j \in left : j <= i})
             at == [n \in 1..Cardinality(left) |-> CHOOSE i \in left : rank(i) = n]
             r == Removed(q, b)
  <1>2. left \in SUBSET Nat /\ left \subseteq DOMAIN q /\ IsFiniteSet(left)
    <2>1. left \subseteq DOMAIN q
      BY PassedIs
    <2> HIDE DEF left
    <2> QED BY <1>1, <2>1, FS_Subset
  <1>3. /\ \A i \in left : rank(i) \in 1..Cardinality(left)
        /\ \A i, k \in left : rank(i) = rank(k) => i = k
        /\ \A n \in 1..Cardinality(left) : \E i \in left : rank(i) = n
    <2> HIDE DEF left
    <2> QED BY <1>2, CountedOff
  <1>4. r = [n \in 1..Cardinality(left) |-> q[at[n]]]
    BY DEF Removed
  <1>5. Cardinality(left) \in Nat
    BY <1>2, FS_CardinalityType
  <1> HIDE DEF left, rank, r
  <1>6. \A n \in 1..Cardinality(left) : at[n] \in left /\ rank(at[n]) = n
    BY <1>3
  <1>7. \A i \in left : at[rank(i)] = i
    BY <1>3, <1>6
  <1> HIDE DEF at
  <1>8. \A n \in 1..Cardinality(left) : q[at[n]] \in S
    BY <1>1, <1>2, <1>6, ElementOfSeq
  <1>9. r \in Seq(S) /\ DOMAIN r = 1..Cardinality(left)
    <2>1. r = [n \in 1..Cardinality(left) |-> r[n]] /\ \A n \in 1..Cardinality(left) : r[n] \in S
      BY <1>4, <1>8
    <2> QED BY <1>5, <2>1
  <1>10. ASSUME NEW w
         PROVE  CountIn(r, {w}) = Cardinality({i \in left : q[i] = w})
    <2> DEFINE F == {n \in DOMAIN r : r[n] \in {w}}
               G == {i \in left : q[i] = w}
               f == [n \in F |-> at[n]]
    <2>1. IsFiniteSet(F) /\ CountIn(r, {w}) = Cardinality(F)
      BY <1>9, CountType DEF CountIn
    <2>2. \A n \in F : at[n] \in G
      BY <1>4, <1>6, <1>9
    <2>3. \A i \in G : \E n \in F : at[n] = i
      <3> SUFFICES ASSUME NEW i \in G PROVE \E n \in F : at[n] = i
        OBVIOUS
      <3>1. rank(i) \in 1..Cardinality(left) /\ at[rank(i)] = i
        BY <1>3, <1>7
      <3>2. r[rank(i)] = w
        BY <1>4, <3>1
      <3> QED BY <1>9, <3>1, <3>2
    <2>4. \A m, n \in F : at[m] = at[n] => m = n
      BY <1>6, <1>9
    <2> HIDE DEF F, G
    <2>5. f \in [F -> G]
      BY <2>2
    <2>6. f \in Surjection(F, G) /\ f \in Injection(F, G)
      BY <2>3, <2>4, <2>5 DEF Surjection, Injection, IsInjective
    <2>7. f \in Bijection(F, G)
      BY <2>6 DEF Bijection
    <2>8. Cardinality(G) = Cardinality(F)
      BY <2>1, <2>7, FS_Bijection DEF ExistsBijection
    <2> QED BY <2>1, <2>8 DEF G
  <1>11. ASSUME NEW w, w # b PROVE CountIn(r, {w}) = CountIn(q, {w})
    <2>1. {i \in left : q[i] = w} = {i \in DOMAIN q : q[i] \in {w}}
      BY <1>2, <1>11, PassedIs DEF left
    <2> QED BY <1>10, <2>1 DEF CountIn
  <1>12. {i \in left : q[i] = b} \subseteq {i \in DOMAIN q : q[i] \in {b}}
    BY <1>2
  <1>13. IsFiniteSet({i \in DOMAIN q : q[i] \in {b}}) /\ CountIn(q, {b}) \in Nat
    BY CountType
  <1>14. CountIn(r, {b}) <= CountIn(q, {b})
    BY <1>10, <1>12, <1>13, FS_Subset DEF CountIn
  <1>15. ASSUME CountIn(q, {b}) > 0 PROVE CountIn(r, {b}) # CountIn(q, {b})
    <2>1. PICK i \in DOMAIN q : q[i] = b
      BY <1>13, <1>15, CountNone
    <2>2. \E k \in DOMAIN q : q[k] = b /\ k \notin left
      BY <2>1, PassedIs DEF left
    <2>3. {i_1 \in left : q[i_1] = b} # {i_1 \in DOMAIN q : q[i_1] \in {b}}
      BY <2>2
    <2> QED BY <1>10, <1>12, <1>13, <2>3, FS_Subset DEF CountIn
  <1>16. CountIn(r, {b}) \in Nat
    BY <1>9, CountType
  <1> QED BY <1>9, <1>11, <1>13, <1>14, <1>15, <1>16 DEF r

-----------------------------------------------------------------------------
(* The order of a pool. *)

\* What an append does to the places.
LEMMA Appended ==
    ASSUME NEW S, NEW q \in Seq(S), NEW e \in S
    PROVE  /\ Append(q, e) \in Seq(S) /\ Append(q, e) # <<>>
           /\ Len(Append(q, e)) = Len(q) + 1 /\ Len(q) \in Nat
           /\ DOMAIN Append(q, e) = 1..(Len(q) + 1) /\ DOMAIN q = 1..Len(q)
           /\ Append(q, e)[Len(q) + 1] = e
           /\ \A i \in 1..(Len(q) + 1) : i # Len(q) + 1 => i \in 1..Len(q) /\ Append(q, e)[i] = q[i]
  <1>1. /\ Append(q, e) \in Seq(S) /\ Len(Append(q, e)) = Len(q) + 1 /\ Len(q) \in Nat
        /\ \A i \in 1..Len(q) : Append(q, e)[i] = q[i]
        /\ Append(q, e)[Len(q) + 1] = e
    BY AppendProperties
  <1>2. DOMAIN q = 1..Len(q) /\ DOMAIN Append(q, e) = 1..(Len(q) + 1)
    BY <1>1
  <1>3. \A i \in 1..(Len(q) + 1) : i # Len(q) + 1 => i \in 1..Len(q)
    BY <1>1
  <1>4. Append(q, e) # <<>>
    BY <1>1
  <1> QED BY <1>1, <1>2, <1>3, <1>4

\* A worker takes a place behind the others.
LEMMA AppendOrder ==
    ASSUME NEW S, NEW q \in Seq(S), IsInjective(q), NEW e \in S, e \notin Range(q)
    PROVE  /\ Append(q, e) \in Seq(S) /\ IsInjective(Append(q, e))
           /\ Range(Append(q, e)) = Range(q) \cup {e}
  <1> DEFINE r == Append(q, e)
             n == Len(q)
  <1>1. /\ r \in Seq(S) /\ n \in Nat /\ DOMAIN r = 1..(n + 1) /\ DOMAIN q = 1..n /\ r[n + 1] = e
        /\ \A i \in 1..(n + 1) : i # n + 1 => i \in 1..n /\ r[i] = q[i]
    BY Appended
  <1>2. \A i \in 1..n : i \in 1..(n + 1) /\ i # n + 1
    BY <1>1
  <1>3. n + 1 \in 1..(n + 1)
    BY <1>1
  <1> HIDE DEF r, n
  <1>4. \A i \in 1..n : q[i] # e
    BY <1>1 DEF Range
  <1>5. \A i, j \in 1..n : q[i] = q[j] => i = j
    BY <1>1 DEF IsInjective
  <1>6. IsInjective(r)
    BY <1>1, <1>4, <1>5 DEF IsInjective
  <1>7. Range(r) \subseteq Range(q) \cup {e}
    BY <1>1 DEF Range
  <1>8. Range(q) \cup {e} \subseteq Range(r)
    BY <1>1, <1>2, <1>3 DEF Range
  <1> QED BY <1>1, <1>6, <1>7, <1>8 DEF r

\* It leaves its place.
LEMMA RemoveAtOrder ==
    ASSUME NEW S, NEW q \in Seq(S), NEW p \in DOMAIN q, IsInjective(q)
    PROVE  /\ RemoveAt(q, p) \in Seq(S) /\ IsInjective(RemoveAt(q, p))
           /\ Range(RemoveAt(q, p)) = Range(q) \ {q[p]}
  <1>1. DOMAIN q = 1..Len(q) /\ Len(q) \in Nat /\ p \in 1..Len(q) /\ \A i \in 1..Len(q) : q[i] \in S
    BY LenProperties, ElementOfSeq
  <1> DEFINE a == SubSeq(q, 1, p - 1)
             b == SubSeq(q, p + 1, Len(q))
             r == a \o b
  <1>2. /\ a \in Seq(S) /\ Len(a) = p - 1
        /\ \A i \in 1..(p - 1) : a[i] = q[i]
    <2>1. 1 \in Int /\ p - 1 \in Int /\ \A i \in 1..(p - 1) : q[i] \in S
      BY <1>1
    <2>2. /\ a \in Seq(S) /\ Len(a) = IF 1 <= p - 1 THEN (p - 1) - 1 + 1 ELSE 0
          /\ \A i \in 1..((p - 1) - 1 + 1) : a[i] = q[1 + i - 1]
      BY <2>1, SubSeqProperties
    <2> QED BY <1>1, <2>2
  <1>3. /\ b \in Seq(S) /\ Len(b) = Len(q) - p
        /\ \A i \in 1..(Len(q) - p) : b[i] = q[p + i]
    <2>1. p + 1 \in Int /\ Len(q) \in Int /\ \A i \in (p + 1)..Len(q) : q[i] \in S
      BY <1>1
    <2>2. /\ b \in Seq(S) /\ Len(b) = IF p + 1 <= Len(q) THEN Len(q) - (p + 1) + 1 ELSE 0
          /\ \A i \in 1..(Len(q) - (p + 1) + 1) : b[i] = q[p + 1 + i - 1]
      BY <2>1, SubSeqProperties
    <2>3. Len(q) - (p + 1) + 1 = Len(q) - p /\ (~ (p + 1 <= Len(q)) => Len(q) - p = 0)
      BY <1>1
    <2>4. \A i \in 1..(Len(q) - p) : p + 1 + i - 1 = p + i
      BY <1>1
    <2> HIDE DEF b
    <2> QED BY <2>2, <2>3, <2>4
  <1> HIDE DEF a, b
  <1>4. /\ r \in Seq(S) /\ Len(r) = Len(q) - 1
        /\ \A i \in 1..(Len(q) - 1) : r[i] = IF i < p THEN q[i] ELSE q[i + 1]
    <2>1. /\ r \in Seq(S) /\ Len(r) = Len(a) + Len(b)
          /\ \A i \in 1..(Len(a) + Len(b)) : r[i] = IF i <= Len(a) THEN a[i] ELSE b[i - Len(a)]
      BY <1>2, <1>3, ConcatProperties
    <2>2. ASSUME NEW i \in 1..(Len(q) - 1) PROVE r[i] = IF i < p THEN q[i] ELSE q[i + 1]
      <3>1. CASE i < p
        BY <1>1, <1>2, <1>3, <2>1, <3>1
      <3>2. CASE ~ (i < p)
        <4>1. i - (p - 1) \in 1..(Len(q) - p) /\ p + (i - (p - 1)) = i + 1
          BY <1>1, <3>2
        <4>2. i \in 1..(Len(a) + Len(b)) /\ ~ (i <= Len(a)) /\ Len(a) = p - 1
          BY <1>1, <1>2, <1>3, <3>2
        <4>3. r[i] = b[i - (p - 1)]
          BY <2>1, <4>2
        <4> QED BY <1>3, <3>2, <4>1, <4>3
      <3> QED BY <3>1, <3>2
    <2> QED BY <1>1, <1>2, <1>3, <2>1, <2>2
  <1>5. RemoveAt(q, p) = r
    BY DEF RemoveAt, a, b
  <1> HIDE DEF r
  <1>6. DOMAIN r = 1..(Len(q) - 1)
    BY <1>4
  <1> DEFINE place(i) == IF i < p THEN i ELSE i + 1
  <1>7. \A i \in 1..(Len(q) - 1) : place(i) \in 1..Len(q) /\ r[i] = q[place(i)]
    BY <1>1, <1>4
  <1>8. \A i, j \in 1..(Len(q) - 1) : place(i) = place(j) => i = j
    BY <1>1
  <1>10. \A l \in 1..Len(q) : l # p => \E i \in 1..(Len(q) - 1) : place(i) = l
    <2> SUFFICES ASSUME NEW l \in 1..Len(q), l # p PROVE \E i \in 1..(Len(q) - 1) : place(i) = l
      OBVIOUS
    <2>1. CASE l < p
      <3>1. l \in 1..(Len(q) - 1) /\ place(l) = l
        BY <1>1, <2>1
      <3> QED BY <3>1
    <2>2. CASE p < l
      <3>1. l - 1 \in 1..(Len(q) - 1) /\ place(l - 1) = l
        BY <1>1, <2>2
      <3> QED BY <3>1
    <2> QED BY <1>1, <2>1, <2>2
  <1>11. \A i \in 1..(Len(q) - 1) : place(i) # p
    BY <1>1
  <1> HIDE DEF place
  <1>9. IsInjective(r)
    BY <1>1, <1>6, <1>7, <1>8 DEF IsInjective
  <1>12. \A l \in 1..Len(q) : q[l] = q[p] => l = p
    BY <1>1 DEF IsInjective
  <1>13. Range(r) = {q[l] : l \in 1..Len(q) \ {p}}
    <2>1. \A i \in 1..(Len(q) - 1) : r[i] \in {q[l] : l \in 1..Len(q) \ {p}}
      BY <1>7, <1>11
    <2>2. \A l \in 1..Len(q) \ {p} : \E i \in 1..(Len(q) - 1) : r[i] = q[l]
      BY <1>7, <1>10
    <2> QED BY <1>6, <2>1, <2>2 DEF Range
  <1>14. Range(q) = {q[l] : l \in 1..Len(q)}
    BY <1>1 DEF Range
  <1>15. Range(r) = Range(q) \ {q[p]}
    BY <1>12, <1>13, <1>14
  <1> QED BY <1>4, <1>5, <1>9, <1>15

-----------------------------------------------------------------------------
(* The order of a queue. *)

\* Nothing of Y comes behind something of X.
Behind(q, X, Y) == \A i, k \in DOMAIN q : i < k /\ q[i] \in X => q[k] \notin Y

LEMMA BehindTail ==
    ASSUME NEW S, NEW q \in Seq(S), q # <<>>, NEW X, NEW Y, Behind(q, X, Y)
    PROVE  /\ Behind(Tail(q), X, Y)
           /\ Head(q) \in X => CountIn(Tail(q), Y) = 0
  <1>1. /\ Tail(q) \in Seq(S) /\ Len(q) \in Nat \ {0}
        /\ DOMAIN q = 1..Len(q) /\ DOMAIN Tail(q) = 1..(Len(q) - 1) /\ Head(q) = q[1]
        /\ \A i \in 1..(Len(q) - 1) : Tail(q)[i] = q[i + 1]
    BY HeadTailProperties
  <1>2. \A i \in 1..(Len(q) - 1) : i + 1 \in 1..Len(q) /\ 1 < i + 1 /\ i \in Nat
    BY <1>1
  <1>3. 1 \in 1..Len(q)
    BY <1>1
  <1>4. \A i, k \in 1..(Len(q) - 1) : i < k => i + 1 < k + 1
    BY <1>2
  <1>5. Behind(Tail(q), X, Y)
    BY <1>1, <1>2, <1>4 DEF Behind
  <1>6. ASSUME Head(q) \in X PROVE \A i \in DOMAIN Tail(q) : Tail(q)[i] \notin Y
    BY <1>1, <1>2, <1>3, <1>6 DEF Behind
  <1> QED BY <1>1, <1>5, <1>6, CountNone

LEMMA BehindConcat ==
    ASSUME NEW S, NEW q \in Seq(S), NEW r \in Seq(S), NEW X, NEW Y,
           Behind(q, X, Y), Behind(r, X, Y), CountIn(q, X) = 0 \/ CountIn(r, Y) = 0
    PROVE  Behind(q \o r, X, Y)
  <1> DEFINE n == Len(q)
  <1>1. /\ n \in Nat /\ Len(r) \in Nat /\ DOMAIN q = 1..n /\ DOMAIN r = 1..Len(r)
        /\ DOMAIN (q \o r) = 1..(n + Len(r))
        /\ \A i \in 1..(n + Len(r)) : (q \o r)[i] = IF i <= n THEN q[i] ELSE r[i - n]
    <2>1. q \o r \in Seq(S) /\ Len(q \o r) = Len(q) + Len(r)
          /\ \A i \in 1..(Len(q) + Len(r)) : (q \o r)[i] = IF i <= Len(q) THEN q[i] ELSE r[i - Len(q)]
      BY ConcatProperties
    <2> QED BY <2>1, LenProperties
  <1>2. (\A i \in DOMAIN q : q[i] \notin X) \/ (\A i \in DOMAIN r : r[i] \notin Y)
    BY CountNone
  <1>3. \A i \in 1..(n + Len(r)) :
            /\ i <= n => i \in 1..n
            /\ ~ (i <= n) => i - n \in 1..Len(r)
    BY <1>1
  <1>4. \A i, k \in 1..(n + Len(r)) : i < k => (i - n < k - n /\ (k <= n => i <= n))
    BY <1>1
  <1> HIDE DEF n
  <1> SUFFICES ASSUME NEW i \in 1..(n + Len(r)), NEW k \in 1..(n + Len(r)), i < k,
                      (q \o r)[i] \in X
               PROVE  (q \o r)[k] \notin Y
    BY <1>1 DEF Behind
  <1>5. CASE k <= n
    <2>1. i <= n /\ i \in 1..n /\ k \in 1..n
      BY <1>3, <1>4, <1>5
    <2> QED BY <1>1, <1>5, <2>1 DEF Behind
  <1>6. CASE ~ (k <= n) /\ i <= n
    <2>1. i \in 1..n /\ k - n \in 1..Len(r)
      BY <1>3, <1>6
    <2> QED BY <1>1, <1>2, <1>6, <2>1
  <1>7. CASE ~ (k <= n) /\ ~ (i <= n)
    <2>1. i - n \in 1..Len(r) /\ k - n \in 1..Len(r) /\ i - n < k - n
      BY <1>3, <1>4, <1>7
    <2> QED BY <1>1, <1>7, <2>1 DEF Behind
  <1> QED BY <1>5, <1>6, <1>7

\* What is not there has nothing behind it.
LEMMA BehindNone ==
    ASSUME NEW S, NEW q \in Seq(S), NEW X, NEW Y, CountIn(q, X) = 0 \/ CountIn(q, Y) = 0
    PROVE  Behind(q, X, Y)
  BY CountNone DEF Behind

-----------------------------------------------------------------------------
(* The messages. *)

Bcw(b) == [op |-> "bind_cluster_worker", uid |-> b]
Ucp(b) == [op |-> "unbind_cluster_process", uid |-> b]
Workers(who, ws) == [op |-> "workers", who |-> who, ws |-> ws]
Asker == WorkerA \cup {Cluster}
Pools == {ws \in Seq(WorkerB) : IsInjective(ws)}
Call == {Notify} \cup {Get(who) : who \in Asker}
Answer == {Bcw(b) : b \in WorkerB} \cup {Ucp(b) : b \in WorkerB}
          \cup {Workers(p[1], p[2]) : p \in Asker \X Pools}

\* The answers to bind_cluster, and what makes a socket to b.
Lists == {Workers(Cluster, ws) : ws \in Pools}
Giving(b) == {Bcw(b)} \cup {Workers(Cluster, ws) : ws \in {l \in Pools : b \in Range(l)}}

LEMMA Messages ==
    /\ \A b, c : /\ Bcw(b) # Ucp(c) /\ (Bcw(b) = Bcw(c) <=> b = c) /\ (Ucp(b) = Ucp(c) <=> b = c)
                 /\ BindNodeMsg(b) # UnbindNodeMsg(c)
                 /\ (BindNodeMsg(b) = BindNodeMsg(c) <=> b = c)
                 /\ (UnbindNodeMsg(b) = UnbindNodeMsg(c) <=> b = c)
    /\ \A b, who, ws : Workers(who, ws) # Bcw(b) /\ Workers(who, ws) # Ucp(b)
    /\ \A who, ws, who2, ws2 : Workers(who, ws) = Workers(who2, ws2) <=> who = who2 /\ ws = ws2
    /\ \A who, who2 : Get(who) # Notify /\ (Get(who) = Get(who2) <=> who = who2)
    /\ \A b \in WorkerB : BindNodeMsg(b) \in Command2Worker /\ UnbindNodeMsg(b) \in Command2Worker
  <1>1. \A b : /\ Bcw(b).op = "bind_cluster_worker" /\ Bcw(b).uid = b
               /\ Ucp(b).op = "unbind_cluster_process" /\ Ucp(b).uid = b
               /\ BindNodeMsg(b).cmd = "bind_node" /\ BindNodeMsg(b).uid = b
               /\ UnbindNodeMsg(b).cmd = "unbind_node" /\ UnbindNodeMsg(b).uid = b
    BY DEF Bcw, Ucp, BindNodeMsg, UnbindNodeMsg
  <1>2. \A who, ws : /\ Workers(who, ws).op = "workers" /\ Workers(who, ws).who = who
                     /\ Workers(who, ws).ws = ws
    BY DEF Workers
  <1>3. Notify.op = "notify_binding" /\ \A who : Get(who).op = "get_workers" /\ Get(who).who = who
    BY DEF Notify, Get
  <1>4. \A b \in WorkerB : BindNodeMsg(b) \in Command2Worker /\ UnbindNodeMsg(b) \in Command2Worker
    BY DEF BindNodeMsg, UnbindNodeMsg, Command2Worker
  <1>5. \A b, c : Bcw(b) # Ucp(c) /\ BindNodeMsg(b) # UnbindNodeMsg(c)
    <2> TAKE b, c
    <2>1. Bcw(b).op # Ucp(c).op /\ BindNodeMsg(b).cmd # UnbindNodeMsg(c).cmd
      BY <1>1
    <2> QED BY <2>1
  <1>6. \A b, who, ws : Workers(who, ws) # Bcw(b) /\ Workers(who, ws) # Ucp(b)
    <2> TAKE b, who, ws
    <2>1. Workers(who, ws).op # Bcw(b).op /\ Workers(who, ws).op # Ucp(b).op
      BY <1>1, <1>2
    <2> QED BY <2>1
  <1>7. \A who : Get(who) # Notify
    <2> TAKE who
    <2>1. Get(who).op # Notify.op
      BY <1>3
    <2> QED BY <2>1
  <1>8. \A b, c : /\ (Bcw(b) = Bcw(c) <=> b = c) /\ (Ucp(b) = Ucp(c) <=> b = c)
                  /\ (BindNodeMsg(b) = BindNodeMsg(c) <=> b = c)
                  /\ (UnbindNodeMsg(b) = UnbindNodeMsg(c) <=> b = c)
    BY <1>1
  <1>9. \A who, ws, who2, ws2 : Workers(who, ws) = Workers(who2, ws2) <=> who = who2 /\ ws = ws2
    BY <1>2
  <1>10. \A who, who2 : Get(who) = Get(who2) <=> who = who2
    BY <1>3
  <1> QED BY <1>4, <1>5, <1>6, <1>7, <1>8, <1>9, <1>10

\* The kinds of answers, by what the host of A looks at.
LEMMA AnswerKinds ==
    ASSUME NEW m \in Answer
    PROVE  /\ m.op = "bind_cluster_worker" => m.uid \in WorkerB /\ m = Bcw(m.uid)
           /\ m.op = "unbind_cluster_process" => m.uid \in WorkerB /\ m = Ucp(m.uid)
           /\ m.op = "workers" => /\ m.who \in Asker /\ m.ws \in Pools
                                  /\ m = Workers(m.who, m.ws)
  <1>1. ASSUME NEW b \in WorkerB, m = Bcw(b)
        PROVE  m.op = "bind_cluster_worker" /\ m.uid = b
    BY <1>1 DEF Bcw
  <1>2. ASSUME NEW b \in WorkerB, m = Ucp(b)
        PROVE  m.op = "unbind_cluster_process" /\ m.uid = b
    BY <1>2 DEF Ucp
  <1>3. ASSUME NEW who \in Asker, NEW ws \in Pools, m = Workers(who, ws)
        PROVE  m.op = "workers" /\ m.who = who /\ m.ws = ws
    BY <1>3 DEF Workers
  <1>4. \/ \E b \in WorkerB : m = Bcw(b)
        \/ \E b \in WorkerB : m = Ucp(b)
        \/ \E who \in Asker, ws \in Pools : m = Workers(who, ws)
    BY DEF Answer
  <1> QED BY <1>1, <1>2, <1>3, <1>4

LEMMA AnswersAre ==
    /\ \A b \in WorkerB : Bcw(b) \in Answer /\ Ucp(b) \in Answer
    /\ \A who \in Asker, ws \in Pools : Workers(who, ws) \in Answer
    /\ \A b, c : /\ (Bcw(c) \in Giving(b) <=> b = c) /\ Ucp(c) \notin Giving(b)
                 /\ Bcw(c) \notin Lists /\ Ucp(c) \notin Lists
    /\ \A who, b : \A ws \in Pools :
           /\ Workers(who, ws) \in Lists <=> who = Cluster
           /\ Workers(who, ws) \in Giving(b) <=> who = Cluster /\ b \in Range(ws)
  <1>1. \A who \in Asker, ws \in Pools : Workers(who, ws) \in Answer
    <2> TAKE who \in Asker, ws \in Pools
    <2>1. <<who, ws>> \in Asker \X Pools /\ <<who, ws>>[1] = who /\ <<who, ws>>[2] = ws
      OBVIOUS
    <2> QED BY <2>1 DEF Answer
  <1>2. \A b \in WorkerB : Bcw(b) \in Answer /\ Ucp(b) \in Answer
    BY DEF Answer
  <1>3. \A b, c : /\ (Bcw(c) \in Giving(b) <=> b = c) /\ Ucp(c) \notin Giving(b)
                  /\ Bcw(c) \notin Lists /\ Ucp(c) \notin Lists
    BY Messages DEF Giving, Lists
  <1>4. \A who, b : \A ws \in Pools :
           /\ Workers(who, ws) \in Lists <=> who = Cluster
           /\ Workers(who, ws) \in Giving(b) <=> who = Cluster /\ b \in Range(ws)
    BY Messages DEF Giving, Lists
  <1> QED BY <1>1, <1>2, <1>3, <1>4

LEMMA CallKinds ==
    /\ Notify \in Call /\ \A who \in Asker : Get(who) \in Call
    /\ Cluster \in Asker /\ WorkerA \subseteq Asker
    /\ \A m \in Call : /\ m.op = "notify_binding" => m = Notify
                       /\ m.op = "get_workers" => m.who \in Asker /\ m = Get(m.who)
  <1>1. \A who : Get(who).op = "get_workers" /\ Get(who).who = who
    BY DEF Get
  <1>2. Notify.op = "notify_binding"
    BY DEF Notify
  <1> QED BY <1>1, <1>2 DEF Call, Asker

-----------------------------------------------------------------------------
(* The inductive invariant. *)

MeshTypes ==
    /\ poolA \subseteq WorkerA /\ poolB \in Seq(WorkerB) /\ IsInjective(poolB)
    /\ retiring \subseteq WorkerB /\ crossed \subseteq WorkerB /\ met \subseteq poolA
    /\ to \in 0..MaxBinds /\ from \in Nat /\ bound \in Nat
    /\ call \in Seq(Call) /\ back \in Seq(Answer)
    /\ ipc \in [WorkerA -> Seq(Command2Worker)]
    /\ clients \in [WorkerA -> Seq(WorkerB)]
    /\ binded \in [WorkerA -> BOOLEAN]

\* The two calls of bind_cluster stay together.
Together ==
    \A i \in DOMAIN call :
        /\ call[i] = Notify => i + 1 \in DOMAIN call /\ call[i + 1] = Get(Cluster)
        /\ call[i] = Get(Cluster) => i = 1 \/ call[i - 1] = Notify

Asks  == CountIn(call, {Get(Cluster)})
Tells == CountIn(call, {Notify})

\* A bind is told, then asked, then answered, then called back.
Tally ==
    /\ Between => Asks = Tells + 1
    /\ ~ Between => Asks = Tells
    /\ to = from + Tells
    /\ bound + CountIn(back, Lists) + Asks <= to

\* What is, or will be, a socket from a to b; what will remove one; and the sockets
\* that do not depend on an answer of get_workers.
Supply(a, b) == CountIn(clients[a], {b}) + CountIn(ipc[a], {BindNodeMsg(b)})
                + CountIn(back, Giving(b))
Owed(a, b) == CountIn(ipc[a], {UnbindNodeMsg(b)}) + CountIn(back, {Ucp(b)})
Near(a, b) == CountIn(clients[a], {b}) + CountIn(ipc[a], {BindNodeMsg(b)})
              + CountIn(back, {Bcw(b)})

Alive == Range(poolB) \ retiring
Known == Range(poolB) \cup retiring

\* No socket is made behind the messages that remove those there are.
InOrder(a, b) ==
    /\ Behind(ipc[a], {UnbindNodeMsg(b)}, {BindNodeMsg(b)})
    /\ Behind(back, {Ucp(b)}, Giving(b))
    /\ CountIn(ipc[a], {UnbindNodeMsg(b)}) > 0 => CountIn(back, Giving(b)) = 0

Pair(a, b) ==
    /\ Supply(a, b) + Asks <= to + 1
    /\ b \notin crossed => Supply(a, b) + Asks <= to
    /\ b \notin Known => Supply(a, b) = 0
    /\ b \notin retiring => Owed(a, b) = 0
    /\ b \in retiring \ crossed => Supply(a, b) <= Owed(a, b) /\ InOrder(a, b)
    /\ a \in met /\ b \in Alive => Near(a, b) > 0
Pairs == \A a \in WorkerA, b \in WorkerB : Pair(a, b)

\* Who is not in an answer is told of behind it.
ToldIn(q, P) ==
    \A j \in DOMAIN q, b \in P :
        q[j] \in Lists => b \in Range(q[j].ws) \/ \E k \in DOMAIN q : j < k /\ q[k] = Bcw(b)

Newcomers ==
    /\ \A a \in WorkerA \ poolA : clients[a] = <<>> /\ ipc[a] = <<>>
    /\ \A a \in WorkerA : binded[a] => clients[a] # <<>>
    /\ met # {} => from > 0

MeshInv == MeshTypes /\ Together /\ Tally /\ Pairs /\ ToldIn(back, Alive) /\ Newcomers

\* The amounts are numbers.
LEMMA Amounts ==
    ASSUME MeshTypes, NEW a \in WorkerA, NEW b
    PROVE  /\ CountIn(clients[a], {b}) \in Nat /\ CountIn(ipc[a], {BindNodeMsg(b)}) \in Nat
           /\ CountIn(ipc[a], {UnbindNodeMsg(b)}) \in Nat
           /\ CountIn(back, Giving(b)) \in Nat /\ CountIn(back, {Ucp(b)}) \in Nat
           /\ CountIn(back, {Bcw(b)}) \in Nat /\ CountIn(back, Lists) \in Nat
           /\ Asks \in Nat /\ Tells \in Nat /\ to \in Nat /\ from \in Nat /\ bound \in Nat
           /\ ipc[a] \in Seq(Command2Worker) /\ clients[a] \in Seq(WorkerB)
  <1>1. ipc[a] \in Seq(Command2Worker) /\ clients[a] \in Seq(WorkerB) /\ back \in Seq(Answer)
        /\ call \in Seq(Call)
    BY DEF MeshTypes
  <1>2. to \in Nat /\ from \in Nat /\ bound \in Nat
    BY BoundAssumption DEF MeshTypes
  <1> QED BY <1>1, <1>2, CountType DEF Asks, Tells

LEMMA SupplyType == ASSUME MeshTypes, NEW a \in WorkerA, NEW b PROVE Supply(a, b) \in Nat
  <1>1. /\ CountIn(clients[a], {b}) \in Nat /\ CountIn(ipc[a], {BindNodeMsg(b)}) \in Nat
        /\ CountIn(back, Giving(b)) \in Nat
    BY Amounts
  <1> QED BY <1>1 DEF Supply

\* An answer can only be there when from knows of the binding.
LEMMA ListHasEntry ==
    ASSUME MeshTypes, Tally, NEW j \in DOMAIN back, back[j] \in Lists PROVE from > 0
  <1>1. /\ CountIn(back, Lists) \in Nat /\ Asks \in Nat /\ Tells \in Nat /\ from \in Nat
        /\ bound \in Nat /\ back \in Seq(Answer)
    BY CountType DEF MeshTypes, Asks, Tells
  <1>2. CountIn(back, Lists) # 0
    BY <1>1, CountNone
  <1> QED BY <1>1, <1>2 DEF Tally

LEMMA ToldTail ==
    ASSUME NEW S, NEW q \in Seq(S), q # <<>>, NEW P, ToldIn(q, P)
    PROVE  /\ ToldIn(Tail(q), P)
           /\ Head(q) \in Lists =>
                  \A b \in P : b \in Range(Head(q).ws) \/ CountIn(Tail(q), {Bcw(b)}) # 0
  <1>1. /\ Tail(q) \in Seq(S) /\ Len(q) \in Nat \ {0}
        /\ DOMAIN q = 1..Len(q) /\ DOMAIN Tail(q) = 1..(Len(q) - 1) /\ Head(q) = q[1]
        /\ \A i \in 1..(Len(q) - 1) : Tail(q)[i] = q[i + 1]
    BY HeadTailProperties
  <1>2. \A i \in 1..(Len(q) - 1) : i + 1 \in 1..Len(q) /\ 1 < i + 1 /\ i \in Nat
    BY <1>1
  <1>3. \A j, k \in 1..Len(q) : j < k => /\ k - 1 \in 1..(Len(q) - 1) /\ (k - 1) + 1 = k
                                         /\ \A i \in 1..(Len(q) - 1) : i + 1 = j => i < k - 1
    BY <1>1
  <1>4. ToldIn(Tail(q), P)
    <2> SUFFICES ASSUME NEW j \in 1..(Len(q) - 1), NEW b \in P, Tail(q)[j] \in Lists,
                        b \notin Range(Tail(q)[j].ws)
                 PROVE  \E k \in DOMAIN Tail(q) : j < k /\ Tail(q)[k] = Bcw(b)
      BY <1>1 DEF ToldIn
    <2>1. Tail(q)[j] = q[j + 1] /\ j + 1 \in DOMAIN q
      BY <1>1, <1>2
    <2>2. PICK k \in DOMAIN q : j + 1 < k /\ q[k] = Bcw(b)
      BY <2>1 DEF ToldIn
    <2>3. k - 1 \in 1..(Len(q) - 1) /\ (k - 1) + 1 = k /\ j < k - 1
      BY <1>1, <1>2, <2>2
    <2>4. Tail(q)[k - 1] = Bcw(b)
      BY <1>1, <2>2, <2>3
    <2> QED BY <1>1, <2>3, <2>4
  <1>5. ASSUME Head(q) \in Lists, NEW b \in P, b \notin Range(Head(q).ws)
        PROVE  CountIn(Tail(q), {Bcw(b)}) # 0
    <2>1. 1 \in DOMAIN q
      BY <1>1
    <2>2. PICK k \in DOMAIN q : 1 < k /\ q[k] = Bcw(b)
      BY <1>1, <1>5, <2>1 DEF ToldIn
    <2>3. k - 1 \in DOMAIN Tail(q) /\ Tail(q)[k - 1] = Bcw(b)
      <3>1. k - 1 \in 1..(Len(q) - 1) /\ (k - 1) + 1 = k
        BY <1>1, <2>2
      <3> QED BY <1>1, <2>2, <3>1
    <2>4. ~ \A i \in DOMAIN Tail(q) : Tail(q)[i] \notin {Bcw(b)}
      BY <2>3
    <2> QED BY <1>1, <2>4, CountNone
  <1> QED BY <1>4, <1>5

\* What is told stays told when more comes, of whoever the rest tells.
LEMMA ToldMore ==
    ASSUME NEW S, NEW q \in Seq(S), NEW r \in Seq(S), NEW P, NEW R,
           \A i \in DOMAIN r : r[i] \in Lists => \A b \in R : b \in Range(r[i].ws),
           ToldIn(q, P),
           \A b \in R : \A j \in DOMAIN q :
               q[j] \in Lists => b \in P \/ \E i \in DOMAIN r : r[i] = Bcw(b)
    PROVE  ToldIn(q \o r, R)
  <1> DEFINE n == Len(q)
  <1>1. /\ n \in Nat /\ Len(r) \in Nat /\ DOMAIN q = 1..n /\ DOMAIN r = 1..Len(r)
        /\ DOMAIN (q \o r) = 1..(n + Len(r))
        /\ \A i \in 1..(n + Len(r)) : (q \o r)[i] = IF i <= n THEN q[i] ELSE r[i - n]
    <2>1. q \o r \in Seq(S) /\ Len(q \o r) = Len(q) + Len(r)
          /\ \A i \in 1..(Len(q) + Len(r)) : (q \o r)[i] = IF i <= Len(q) THEN q[i] ELSE r[i - Len(q)]
      BY ConcatProperties
    <2> QED BY <2>1, LenProperties
  <1>2. \A i \in 1..(n + Len(r)) :
            /\ i <= n => i \in 1..n
            /\ ~ (i <= n) => i - n \in 1..Len(r)
    BY <1>1
  <1>3. \A i \in 1..n : i \in 1..(n + Len(r)) /\ i <= n
    BY <1>1
  <1>4. \A i \in 1..Len(r) : n + i \in 1..(n + Len(r)) /\ ~ (n + i <= n) /\ (n + i) - n = i
    BY <1>1
  <1>5. \A j \in 1..n, i \in 1..Len(r) : j < n + i
    BY <1>1
  <1> HIDE DEF n
  <1> SUFFICES ASSUME NEW j \in 1..(n + Len(r)), NEW b \in R, (q \o r)[j] \in Lists,
                      b \notin Range((q \o r)[j].ws)
               PROVE  \E k \in DOMAIN (q \o r) : j < k /\ (q \o r)[k] = Bcw(b)
    BY <1>1 DEF ToldIn
  <1>6. CASE ~ (j <= n)
    BY <1>1, <1>2, <1>6
  <1>7. CASE j <= n
    <2>1. j \in 1..n /\ (q \o r)[j] = q[j]
      BY <1>1, <1>2, <1>7
    <2>2. CASE b \in P
      <3>1. PICK k \in 1..n : j < k /\ q[k] = Bcw(b)
        BY <1>1, <2>1, <2>2 DEF ToldIn
      <3>2. (q \o r)[k] = q[k] /\ k \in 1..(n + Len(r))
        BY <1>1, <1>3
      <3> QED BY <1>1, <3>1, <3>2
    <2>3. CASE b \notin P
      <3>1. PICK i \in 1..Len(r) : r[i] = Bcw(b)
        BY <1>1, <2>1, <2>3
      <3>2. (q \o r)[n + i] = r[i] /\ n + i \in 1..(n + Len(r)) /\ j < n + i
        BY <1>1, <1>4, <1>5, <2>1
      <3> QED BY <1>1, <3>1, <3>2
    <2> QED BY <2>2, <2>3
  <1> QED BY <1>6, <1>7

-----------------------------------------------------------------------------
(* The calls. *)

LEMMA TogetherTail ==
    ASSUME MeshTypes, Together, call # <<>>
    PROVE  /\ Tail(call) \in Seq(Call) /\ Head(call) \in Call
           /\ \A i \in DOMAIN Tail(call) :
                 /\ Tail(call)[i] = Notify =>
                        i + 1 \in DOMAIN Tail(call) /\ Tail(call)[i + 1] = Get(Cluster)
                 /\ Tail(call)[i] = Get(Cluster) => i = 1 \/ Tail(call)[i - 1] = Notify
           /\ Head(call) = Notify =>
                 Tail(call) # <<>> /\ Head(Tail(call)) = Get(Cluster)
           /\ Head(call) # Notify /\ Tail(call) # <<>> => Head(Tail(call)) # Get(Cluster)
  <1> DEFINE t == Tail(call)
             n == Len(call)
  <1>1. /\ t \in Seq(Call) /\ Head(call) \in Call /\ n \in Nat \ {0} /\ Len(t) = n - 1
        /\ DOMAIN call = 1..n /\ DOMAIN t = 1..(n - 1) /\ Head(call) = call[1]
        /\ \A i \in 1..(n - 1) : t[i] = call[i + 1]
    BY HeadTailProperties DEF MeshTypes
  <1> HIDE DEF t, n
  <1>2. t # <<>> => Len(t) # 0 /\ Head(t) = t[1]
    BY <1>1, EmptySeq, HeadTailProperties
  <1>3. Len(<<>>) = 0
    OBVIOUS
  <1>4. ASSUME NEW i \in 1..(n - 1), t[i] = Notify
        PROVE  i + 1 \in 1..(n - 1) /\ t[i + 1] = Get(Cluster)
    <2>1. i + 1 \in 1..n /\ call[i + 1] = Notify
      BY <1>1, <1>4
    <2>2. (i + 1) + 1 \in 1..n /\ call[(i + 1) + 1] = Get(Cluster)
      BY <1>1, <2>1 DEF Together
    <2>3. i + 1 \in 1..(n - 1)
      BY <1>1, <2>2
    <2> QED BY <1>1, <2>2, <2>3
  <1>5. ASSUME NEW i \in 1..(n - 1), t[i] = Get(Cluster), i # 1
        PROVE  t[i - 1] = Notify
    <2>1. i + 1 \in 1..n /\ call[i + 1] = Get(Cluster) /\ i + 1 # 1 /\ (i + 1) - 1 = i
      BY <1>1, <1>5
    <2>2. call[i] = Notify
      BY <1>1, <2>1 DEF Together
    <2>3. i - 1 \in 1..(n - 1) /\ (i - 1) + 1 = i
      BY <1>1, <1>5
    <2> QED BY <1>1, <2>2, <2>3
  <1>6. ASSUME Head(call) = Notify PROVE t # <<>> /\ Head(t) = Get(Cluster)
    <2>1. 1 \in 1..n /\ call[1] = Notify
      BY <1>1, <1>6
    <2>2. 1 + 1 \in 1..n /\ call[1 + 1] = Get(Cluster)
      BY <1>1, <2>1 DEF Together
    <2>3. 1 \in 1..(n - 1)
      BY <1>1, <2>2
    <2>4. t[1] = Get(Cluster) /\ Len(t) # 0
      BY <1>1, <2>2, <2>3
    <2> QED BY <1>2, <1>3, <2>4
  <1>7. ASSUME Head(call) # Notify, t # <<>> PROVE Head(t) # Get(Cluster)
    <2>1. 1 \in 1..(n - 1) /\ 1 + 1 \in 1..n /\ 1 + 1 # 1 /\ (1 + 1) - 1 = 1
      BY <1>1, <1>2, <1>7
    <2>2. t[1] = call[1 + 1]
      BY <1>1, <2>1
    <2>3. call[1 + 1] = Get(Cluster) => call[1] = Notify
      BY <1>1, <2>1 DEF Together
    <2> QED BY <1>1, <1>2, <1>7, <2>2, <2>3
  <1> QED BY <1>1, <1>4, <1>5, <1>6, <1>7 DEF t

\* A newborn worker's question goes behind the others.
LEMMA TogetherAppend ==
    ASSUME NEW q \in Seq(Call), NEW m \in Call, m # Notify, m # Get(Cluster),
           \A i \in DOMAIN q :
              /\ q[i] = Notify => i + 1 \in DOMAIN q /\ q[i + 1] = Get(Cluster)
              /\ q[i] = Get(Cluster) => i = 1 \/ q[i - 1] = Notify
    PROVE  \A i \in DOMAIN Append(q, m) :
              /\ Append(q, m)[i] = Notify =>
                     i + 1 \in DOMAIN Append(q, m) /\ Append(q, m)[i + 1] = Get(Cluster)
              /\ Append(q, m)[i] = Get(Cluster) => i = 1 \/ Append(q, m)[i - 1] = Notify
  <1> DEFINE r == Append(q, m)
             n == Len(q)
  <1>1. /\ n \in Nat /\ DOMAIN r = 1..(n + 1) /\ DOMAIN q = 1..n /\ r[n + 1] = m
        /\ \A i \in 1..(n + 1) : i # n + 1 => i \in 1..n /\ r[i] = q[i]
    BY Appended
  <1>2. \A i \in 1..n : i \in 1..(n + 1) /\ i # n + 1
    BY <1>1
  <1>3. \A i \in 1..n : i # 1 => i - 1 \in 1..n
    BY <1>1
  <1> HIDE DEF r, n
  <1>4. \A i \in 1..n : r[i] = q[i]
    BY <1>1, <1>2
  <1> SUFFICES ASSUME NEW i \in 1..(n + 1)
               PROVE  /\ r[i] = Notify => i + 1 \in 1..(n + 1) /\ r[i + 1] = Get(Cluster)
                      /\ r[i] = Get(Cluster) => i = 1 \/ r[i - 1] = Notify
    BY <1>1 DEF r
  <1>5. CASE i = n + 1
    BY <1>1, <1>5
  <1>6. CASE i # n + 1
    <2>1. i \in 1..n /\ r[i] = q[i]
      BY <1>1, <1>6
    <2>2. r[i] = Notify => i + 1 \in 1..n /\ q[i + 1] = Get(Cluster)
      BY <1>1, <2>1
    <2>3. r[i] = Get(Cluster) /\ i # 1 => i - 1 \in 1..n /\ q[i - 1] = Notify
      BY <1>1, <1>3, <2>1
    <2> QED BY <1>2, <1>4, <2>2, <2>3
  <1> QED BY <1>5, <1>6

\* The two calls of bind_cluster too.
LEMMA TogetherBind ==
    ASSUME NEW q \in Seq(Call),
           \A i \in DOMAIN q :
              /\ q[i] = Notify => i + 1 \in DOMAIN q /\ q[i + 1] = Get(Cluster)
              /\ q[i] = Get(Cluster) => i = 1 \/ q[i - 1] = Notify
    PROVE  LET r == Append(Append(q, Notify), Get(Cluster))
           IN  \A i \in DOMAIN r :
                 /\ r[i] = Notify => i + 1 \in DOMAIN r /\ r[i + 1] = Get(Cluster)
                 /\ r[i] = Get(Cluster) => i = 1 \/ r[i - 1] = Notify
  <1> DEFINE p == Append(q, Notify)
             r == Append(p, Get(Cluster))
             n == Len(q)
  <1>1. /\ n \in Nat /\ p \in Seq(Call) /\ Len(p) = n + 1 /\ DOMAIN q = 1..n
        /\ p[n + 1] = Notify
        /\ \A i \in 1..(n + 1) : i # n + 1 => i \in 1..n /\ p[i] = q[i]
    BY Appended, CallKinds
  <1> HIDE DEF p
  <1>2. /\ DOMAIN r = 1..(Len(p) + 1) /\ r[Len(p) + 1] = Get(Cluster)
        /\ \A i \in 1..(Len(p) + 1) : i # Len(p) + 1 => i \in 1..Len(p) /\ r[i] = p[i]
    BY <1>1, Appended, CallKinds
  <1> HIDE DEF r, n
  <1>3. /\ DOMAIN r = 1..(n + 2) /\ r[n + 2] = Get(Cluster) /\ r[n + 1] = Notify
        /\ \A i \in 1..(n + 2) : i # n + 2 /\ i # n + 1 => i \in 1..n
        /\ \A i \in 1..n : r[i] = q[i]
    <2>1. Len(p) + 1 = n + 2
      BY <1>1
    <2>2. n + 1 \in 1..(n + 2) /\ n + 1 # n + 2
      BY <1>1
    <2>3. \A i \in 1..n : i \in 1..(n + 2) /\ i # n + 2 /\ i \in 1..(n + 1) /\ i # n + 1
      BY <1>1
    <2>4. \A i \in 1..(n + 2) : i # n + 2 /\ i # n + 1 => i \in 1..n
      BY <1>1
    <2> QED BY <1>1, <1>2, <2>1, <2>2, <2>3, <2>4
  <1>4. \A i \in 1..n : i \in 1..(n + 2) /\ (i # 1 => i - 1 \in 1..n)
    BY <1>1
  <1>5. n + 2 \in 1..(n + 2) /\ (n + 2) - 1 = n + 1 /\ (n + 1) + 1 = n + 2
    BY <1>1
  <1> SUFFICES ASSUME NEW i \in 1..(n + 2)
               PROVE  /\ r[i] = Notify => i + 1 \in 1..(n + 2) /\ r[i + 1] = Get(Cluster)
                      /\ r[i] = Get(Cluster) => i = 1 \/ r[i - 1] = Notify
    BY <1>3 DEF r, p
  <1>6. CASE i = n + 2
    BY <1>3, <1>5, <1>6, Messages
  <1>7. CASE i = n + 1
    BY <1>3, <1>5, <1>7, Messages
  <1>8. CASE i # n + 2 /\ i # n + 1
    <2>1. i \in 1..n /\ r[i] = q[i]
      BY <1>3, <1>8
    <2>2. r[i] = Notify => i + 1 \in 1..n /\ q[i + 1] = Get(Cluster)
      BY <1>1, <2>1
    <2>3. r[i] = Get(Cluster) /\ i # 1 => i - 1 \in 1..n /\ q[i - 1] = Notify
      BY <1>1, <1>4, <2>1
    <2> QED BY <1>3, <1>4, <2>2, <2>3
  <1> QED BY <1>6, <1>7, <1>8

-----------------------------------------------------------------------------
(* The host of A. *)

LEMMA ToPoolAIs ==
    ASSUME MeshTypes, NEW cs \in Seq(Command2Worker), ToPoolA(cs)
    PROVE  /\ ipc' \in [WorkerA -> Seq(Command2Worker)]
           /\ \A a \in poolA : ipc'[a] = ipc[a] \o cs
           /\ \A a \in WorkerA \ poolA : ipc'[a] = ipc[a]
  <1>1. ipc \in [WorkerA -> Seq(Command2Worker)] /\ poolA \subseteq WorkerA
    BY DEF MeshTypes
  <1>2. \A a \in WorkerA : ipc[a] \o cs \in Seq(Command2Worker)
    BY <1>1, ConcatProperties
  <1> QED BY <1>1, <1>2 DEF ToPoolA

LEMMA BackTail ==
    ASSUME MeshInv, back # <<>>, back' = Tail(back)
    PROVE  /\ Head(back) \in Answer /\ back' \in Seq(Answer) /\ ToldIn(back', Alive)
           /\ \A T : /\ Head(back) \in T => CountIn(back, T) = CountIn(back', T) + 1
                     /\ Head(back) \notin T => CountIn(back, T) = CountIn(back', T)
                     /\ CountIn(back', T) \in Nat
           /\ \A X, Y : Behind(back, X, Y) =>
                  Behind(back', X, Y) /\ (Head(back) \in X => CountIn(back', Y) = 0)
           /\ Head(back) \in Lists =>
                  \A b \in Alive : b \in Range(Head(back).ws) \/ CountIn(back', {Bcw(b)}) # 0
  <1>1. back \in Seq(Answer) /\ ToldIn(back, Alive)
    BY DEF MeshInv, MeshTypes
  <1>2. \A T : /\ Head(back) \in Answer /\ back' \in Seq(Answer)
               /\ Head(back) \in T => CountIn(back, T) = CountIn(back', T) + 1
               /\ Head(back) \notin T => CountIn(back, T) = CountIn(back', T)
    BY <1>1, CountTail
  <1>3. Head(back) \in Answer /\ back' \in Seq(Answer)
    BY <1>2
  <1>4. \A T : CountIn(back', T) \in Nat
    BY <1>3, CountType
  <1>5. \A X, Y : Behind(back, X, Y) =>
            Behind(back', X, Y) /\ (Head(back) \in X => CountIn(back', Y) = 0)
    BY <1>1, BehindTail
  <1>6. /\ ToldIn(back', Alive)
        /\ Head(back) \in Lists =>
               \A b \in Alive : b \in Range(Head(back).ws) \/ CountIn(back', {Bcw(b)}) # 0
    BY <1>1, ToldTail
  <1> QED BY <1>2, <1>3, <1>4, <1>5, <1>6

\* A's host takes an answer and gives the commands cs to its workers.
LEMMA PassedOn ==
    ASSUME MeshInv, back # <<>>, back' = Tail(back), NEW cs \in Seq(Command2Worker), ToPoolA(cs),
           UNCHANGED <<hostVars, call, workerVars, crossed>>, met' \subseteq poolA, bound' \in Nat,
           bound' + CountIn(back', Lists) <= bound + CountIn(back, Lists),
           \A b : CountIn(cs, {UnbindNodeMsg(b)}) > 0 =>
                      /\ Head(back) = Ucp(b) /\ CountIn(cs, {UnbindNodeMsg(b)}) = 1
                      /\ CountIn(cs, {BindNodeMsg(b)}) = 0,
           \A b : Head(back) = Ucp(b) => CountIn(cs, {UnbindNodeMsg(b)}) = 1,
           \A b : CountIn(cs, {BindNodeMsg(b)}) > 0 =>
                      Head(back) \in Giving(b) /\ CountIn(cs, {BindNodeMsg(b)}) = 1,
           \A b : Head(back) = Bcw(b) => CountIn(cs, {BindNodeMsg(b)}) = 1,
           \A b \in Alive, a \in met' :
               a \in met \/ CountIn(cs, {BindNodeMsg(b)}) > 0 \/ CountIn(back', {Bcw(b)}) > 0,
           met' # {} => from > 0
    PROVE  MeshInv'
  <1>1. /\ Head(back) \in Answer /\ back' \in Seq(Answer) /\ ToldIn(back', Alive)
        /\ \A T : /\ Head(back) \in T => CountIn(back, T) = CountIn(back', T) + 1
                  /\ Head(back) \notin T => CountIn(back, T) = CountIn(back', T)
                  /\ CountIn(back', T) \in Nat
        /\ \A X, Y : Behind(back, X, Y) =>
               Behind(back', X, Y) /\ (Head(back) \in X => CountIn(back', Y) = 0)
    BY BackTail
  <1>2. /\ ipc' \in [WorkerA -> Seq(Command2Worker)]
        /\ \A a \in poolA : ipc'[a] = ipc[a] \o cs
        /\ \A a \in WorkerA \ poolA : ipc'[a] = ipc[a]
    BY ToPoolAIs DEF MeshInv
  <1>3. MeshTypes /\ Together /\ Tally /\ Pairs /\ Newcomers
    BY DEF MeshInv
  <1>4. /\ UNCHANGED <<poolA, poolB, retiring, to, from, call, clients, binded, crossed>>
        /\ Alive' = Alive /\ Known' = Known /\ Asks' = Asks /\ Tells' = Tells
        /\ Between' = Between
    BY DEF hostVars, workerVars, Alive, Known, Asks, Tells, Between
  <1>5. MeshTypes'
    BY <1>1, <1>2, <1>3, <1>4 DEF MeshTypes
  <1>6. Together'
    BY <1>3, <1>4 DEF Together
  <1>7. Tally'
    <2>1. bound \in Nat /\ CountIn(back, Lists) \in Nat /\ CountIn(back', Lists) \in Nat
          /\ Asks \in Nat /\ to \in Nat
      <3>1. call \in Seq(Call) /\ back \in Seq(Answer) /\ bound \in Nat /\ to \in Nat
        BY <1>3, BoundAssumption DEF MeshTypes
      <3> QED BY <1>1, <3>1, CountType DEF Asks
    <2>2. bound' + CountIn(back', Lists) + Asks <= to
      BY <1>3, <2>1 DEF Tally
    <2> QED BY <1>3, <1>4, <2>2 DEF Tally
  <1>8. Newcomers'
    BY <1>2, <1>3, <1>4 DEF Newcomers
  <1>9. ASSUME NEW a \in WorkerA, NEW b \in WorkerB PROVE Pair(a, b)'
    <2> DEFINE x == CountIn(clients[a], {b})
               y == CountIn(ipc[a], {BindNodeMsg(b)})
               u == CountIn(ipc[a], {UnbindNodeMsg(b)})
               z == CountIn(back, Giving(b))
               v == CountIn(back, {Ucp(b)})
               n == CountIn(back, {Bcw(b)})
               cy == CountIn(cs, {BindNodeMsg(b)})
               cu == CountIn(cs, {UnbindNodeMsg(b)})
               yy == CountIn(ipc'[a], {BindNodeMsg(b)})
               uu == CountIn(ipc'[a], {UnbindNodeMsg(b)})
               zz == CountIn(back', Giving(b))
               vv == CountIn(back', {Ucp(b)})
               nn == CountIn(back', {Bcw(b)})
    <2>1. /\ x \in Nat /\ y \in Nat /\ u \in Nat /\ z \in Nat /\ v \in Nat /\ n \in Nat
          /\ Asks \in Nat /\ to \in Nat /\ ipc[a] \in Seq(Command2Worker)
          /\ zz \in Nat /\ vv \in Nat /\ nn \in Nat /\ cy \in Nat /\ cu \in Nat
      BY <1>1, <1>3, Amounts, CountType
    <2>2. a \in poolA => yy = y + cy /\ uu = u + cu
      <3>1. PICK q \in Seq(Command2Worker) : q = ipc[a]
        BY <2>1
      <3>2. \A T : CountIn(q \o cs, T) = CountIn(q, T) + CountIn(cs, T)
        BY CountConcat
      <3>3. a \in poolA => ipc'[a] = q \o cs
        BY <1>2, <3>1
      <3> QED BY <3>1, <3>2, <3>3
    <2>3. a \notin poolA => yy = 0 /\ uu = 0 /\ y = 0 /\ u = 0 /\ x = 0
      BY <1>2, <1>3, CountEmpty DEF Newcomers
    <2>4. /\ Head(back) \in Giving(b) => z = zz + 1
          /\ Head(back) \notin Giving(b) => z = zz
          /\ Head(back) = Ucp(b) => v = vv + 1
          /\ Head(back) # Ucp(b) => v = vv
          /\ Head(back) = Bcw(b) => n = nn + 1
          /\ Head(back) # Bcw(b) => n = nn
      BY <1>1
    <2>5. Ucp(b) \notin Giving(b) /\ Bcw(b) \in Giving(b) /\ Ucp(b) # Bcw(b)
      BY AnswersAre, Messages
    <2>6. /\ cu > 0 => Head(back) = Ucp(b) /\ cu = 1 /\ cy = 0
          /\ Head(back) = Ucp(b) => cu = 1
          /\ cy > 0 => Head(back) \in Giving(b) /\ cy = 1
          /\ Head(back) = Bcw(b) => cy = 1
      OBVIOUS
    <2>7. Pair(a, b)
      BY <1>3 DEF Pairs
    <2>8. b \in retiring \ crossed => InOrder(a, b)
      BY <2>7 DEF Pair
    <2>9. b \in retiring \ crossed => (Head(back) = Ucp(b) => zz = 0) /\ (u > 0 => z = 0)
      BY <1>1, <2>8 DEF InOrder
    <2>10. b \in retiring \ crossed => InOrder(a, b)'
      <3> SUFFICES ASSUME b \in retiring \ crossed PROVE InOrder(a, b)'
        OBVIOUS
      <3>1. Behind(back', {Ucp(b)}, Giving(b))
        BY <1>1, <2>8 DEF InOrder
      <3>2. Behind(ipc'[a], {UnbindNodeMsg(b)}, {BindNodeMsg(b)})
        <4>1. CASE a \in poolA
          <5>1. u = 0 \/ cy = 0
            BY <2>1, <2>4, <2>6, <2>9
          <5>2. Behind(cs, {UnbindNodeMsg(b)}, {BindNodeMsg(b)})
            <6>1. cu = 0 \/ cy = 0
              BY <2>1, <2>6
            <6> QED BY <6>1, BehindNone
          <5>3. Behind(ipc[a], {UnbindNodeMsg(b)}, {BindNodeMsg(b)})
            BY <2>8 DEF InOrder
          <5>4. PICK q \in Seq(Command2Worker) : q = ipc[a]
            BY <2>1
          <5>5. CountIn(q, {UnbindNodeMsg(b)}) = 0 \/ CountIn(cs, {BindNodeMsg(b)}) = 0
            BY <5>1, <5>4
          <5>6. Behind(q, {UnbindNodeMsg(b)}, {BindNodeMsg(b)})
            BY <5>3, <5>4
          <5>7. Behind(q \o cs, {UnbindNodeMsg(b)}, {BindNodeMsg(b)})
            BY <5>2, <5>5, <5>6, BehindConcat
          <5>8. ipc'[a] = q \o cs
            BY <1>2, <4>1, <5>4
          <5> QED BY <5>7, <5>8
        <4>2. CASE a \notin poolA
          <5>1. ipc'[a] = ipc[a]
            BY <1>2, <4>2
          <5> QED BY <2>8, <5>1 DEF InOrder
        <4> QED BY <4>1, <4>2
      <3>3. uu > 0 => zz = 0
        <4> HIDE DEF x, y, u, z, v, n, cy, cu, yy, uu, zz, vv, nn
        <4> QED BY <2>1, <2>2, <2>3, <2>4, <2>6, <2>9
      <3> QED BY <3>1, <3>2, <3>3 DEF InOrder
    <2>11. /\ x + y + z + Asks <= to + 1
           /\ b \notin crossed => x + y + z + Asks <= to
           /\ b \notin Known => x + y + z = 0
           /\ b \notin retiring => u + v = 0
           /\ b \in retiring \ crossed => x + y + z <= u + v
           /\ a \in met /\ b \in Alive => x + y + n > 0
      BY <2>7 DEF Pair, Supply, Owed, Near
    <2>12. a \in met' /\ b \in Alive => /\ a \in poolA
                                        /\ a \in met \/ cy > 0 \/ nn > 0
      OBVIOUS
    <2> HIDE DEF x, y, u, z, v, n, cy, cu, yy, uu, zz, vv, nn
    <2>13. x + yy + zz <= x + y + z /\ yy \in Nat /\ uu \in Nat
      BY <2>1, <2>2, <2>3, <2>4, <2>5, <2>6
    <2>14. /\ x + yy + zz + Asks <= to + 1
           /\ b \notin crossed => x + yy + zz + Asks <= to
           /\ b \notin Known => x + yy + zz = 0
      BY <2>1, <2>11, <2>13
    <2>15. b \notin retiring => uu + vv = 0
      BY <2>1, <2>2, <2>3, <2>4, <2>6, <2>11
    <2>16. b \in retiring \ crossed => x + yy + zz <= uu + vv
      <3> SUFFICES ASSUME b \in retiring \ crossed PROVE x + yy + zz <= uu + vv
        OBVIOUS
      <3>1. CASE a \in poolA
        <4>1. CASE Head(back) = Ucp(b)
          BY <2>1, <2>2, <2>4, <2>5, <2>6, <2>11, <3>1, <4>1
        <4>2. CASE Head(back) # Ucp(b)
          BY <2>1, <2>2, <2>4, <2>6, <2>11, <2>13, <3>1, <4>2
        <4> QED BY <4>1, <4>2
      <3>2. CASE a \notin poolA
        <4>1. CASE Head(back) = Ucp(b)
          BY <2>1, <2>3, <2>9, <3>2, <4>1
        <4>2. CASE Head(back) # Ucp(b)
          BY <2>1, <2>3, <2>4, <2>11, <2>13, <3>2, <4>2
        <4> QED BY <4>1, <4>2
      <3> QED BY <3>1, <3>2
    <2>17. a \in met' /\ b \in Alive => x + yy + nn > 0
      BY <2>1, <2>2, <2>4, <2>6, <2>11, <2>12
    <2> QED BY <1>4, <2>10, <2>14, <2>15, <2>16, <2>17
            DEF Pair, Supply, Owed, Near, x, yy, uu, zz, vv, nn
  <1> QED BY <1>1, <1>4, <1>5, <1>6, <1>7, <1>8, <1>9 DEF MeshInv, Pairs

\* One command to a worker counts once, for its uid.
LEMMA OneCommand ==
    ASSUME NEW u, NEW b
    PROVE  /\ CountIn(<<BindNodeMsg(u)>>, {UnbindNodeMsg(b)}) = 0
           /\ CountIn(<<UnbindNodeMsg(u)>>, {BindNodeMsg(b)}) = 0
           /\ b = u => /\ CountIn(<<BindNodeMsg(u)>>, {BindNodeMsg(b)}) = 1
                       /\ CountIn(<<UnbindNodeMsg(u)>>, {UnbindNodeMsg(b)}) = 1
           /\ b # u => /\ CountIn(<<BindNodeMsg(u)>>, {BindNodeMsg(b)}) = 0
                       /\ CountIn(<<UnbindNodeMsg(u)>>, {UnbindNodeMsg(b)}) = 0
  <1>1. /\ BindNodeMsg(u) \notin {UnbindNodeMsg(b)} /\ UnbindNodeMsg(u) \notin {BindNodeMsg(b)}
        /\ BindNodeMsg(u) \in {BindNodeMsg(b)} <=> u = b
        /\ UnbindNodeMsg(u) \in {UnbindNodeMsg(b)} <=> u = b
    BY Messages
  <1>2. CountIn(<<BindNodeMsg(u)>>, {UnbindNodeMsg(b)}) = 0
    BY <1>1, CountOne
  <1>3. CountIn(<<UnbindNodeMsg(u)>>, {BindNodeMsg(b)}) = 0
    BY <1>1, CountOne
  <1>4. /\ b = u => CountIn(<<BindNodeMsg(u)>>, {BindNodeMsg(b)}) = 1
        /\ b # u => CountIn(<<BindNodeMsg(u)>>, {BindNodeMsg(b)}) = 0
    BY <1>1, CountOne
  <1>5. /\ b = u => CountIn(<<UnbindNodeMsg(u)>>, {UnbindNodeMsg(b)}) = 1
        /\ b # u => CountIn(<<UnbindNodeMsg(u)>>, {UnbindNodeMsg(b)}) = 0
    BY <1>1, CountOne
  <1> QED BY <1>2, <1>3, <1>4, <1>5

LEMMA BindClusterWorkerKeeps == ASSUME MeshInv, BindClusterWorker PROVE MeshInv'
  <1>1. /\ back # <<>> /\ back' = Tail(back) /\ Head(back).op = "bind_cluster_worker"
        /\ ToPoolA(<<BindNodeMsg(Head(back).uid)>>)
        /\ UNCHANGED <<hostVars, call, workerVars, crossed>> /\ met' = met /\ bound' = bound
    BY DEF BindClusterWorker, FromTo, history
  <1>2. MeshTypes /\ Newcomers
    BY DEF MeshInv
  <1>3. Head(back) \in Answer /\ CountIn(back', Lists) \in Nat /\ CountIn(back, Lists) \in Nat
        /\ (\/ CountIn(back, Lists) = CountIn(back', Lists) + 1
            \/ CountIn(back, Lists) = CountIn(back', Lists))
    <2>1. back \in Seq(Answer)
      BY <1>2 DEF MeshTypes
    <2> QED BY <1>1, <2>1, BackTail, CountType
  <1>4. PICK u \in WorkerB : u = Head(back).uid /\ Head(back) = Bcw(u)
    BY <1>1, <1>3, AnswerKinds
  <1> DEFINE cs == <<BindNodeMsg(u)>>
  <1>5. BindNodeMsg(u) \in Command2Worker
    BY Messages
  <1>6. cs \in Seq(Command2Worker) /\ ToPoolA(cs)
    BY <1>1, <1>4, <1>5
  <1>7. \A b : CountIn(cs, {UnbindNodeMsg(b)}) = 0
    BY OneCommand
  <1>8. \A b : /\ b = u => CountIn(cs, {BindNodeMsg(b)}) = 1
               /\ b # u => CountIn(cs, {BindNodeMsg(b)}) = 0
    BY OneCommand
  <1>9. /\ Head(back) \in Giving(u)
        /\ \A b : Head(back) # Ucp(b) /\ (Head(back) = Bcw(b) => b = u)
    BY <1>4, AnswersAre, Messages
  <1>10. bound \in Nat /\ bound + CountIn(back', Lists) <= bound + CountIn(back, Lists)
    BY <1>2, <1>3 DEF MeshTypes
  <1>11. met \subseteq poolA /\ (met # {} => from > 0)
    BY <1>2 DEF MeshTypes, Newcomers
  <1> HIDE DEF cs
  <1>12. \A b : CountIn(cs, {UnbindNodeMsg(b)}) > 0 =>
                  /\ Head(back) = Ucp(b) /\ CountIn(cs, {UnbindNodeMsg(b)}) = 1
                  /\ CountIn(cs, {BindNodeMsg(b)}) = 0
    BY <1>7
  <1>13. \A b : Head(back) = Ucp(b) => CountIn(cs, {UnbindNodeMsg(b)}) = 1
    BY <1>9
  <1>14. \A b : CountIn(cs, {BindNodeMsg(b)}) > 0 =>
                  Head(back) \in Giving(b) /\ CountIn(cs, {BindNodeMsg(b)}) = 1
    BY <1>8, <1>9
  <1>15. \A b : Head(back) = Bcw(b) => CountIn(cs, {BindNodeMsg(b)}) = 1
    BY <1>8, <1>9
  <1>16. \A b \in Alive, a \in met' :
           a \in met \/ CountIn(cs, {BindNodeMsg(b)}) > 0 \/ CountIn(back', {Bcw(b)}) > 0
    BY <1>1
  <1> QED BY <1>1, <1>6, <1>10, <1>11, <1>12, <1>13, <1>14, <1>15, <1>16, PassedOn

LEMMA UnbindClusterProcessKeeps == ASSUME MeshInv, UnbindClusterProcess PROVE MeshInv'
  <1>1. /\ back # <<>> /\ back' = Tail(back) /\ Head(back).op = "unbind_cluster_process"
        /\ ToPoolA(<<UnbindNodeMsg(Head(back).uid)>>)
        /\ UNCHANGED <<hostVars, call, workerVars, crossed>> /\ met' = met /\ bound' = bound
    BY DEF UnbindClusterProcess, FromTo, history
  <1>2. MeshTypes /\ Newcomers
    BY DEF MeshInv
  <1>3. Head(back) \in Answer /\ CountIn(back', Lists) \in Nat /\ CountIn(back, Lists) \in Nat
        /\ (\/ CountIn(back, Lists) = CountIn(back', Lists) + 1
            \/ CountIn(back, Lists) = CountIn(back', Lists))
    <2>1. back \in Seq(Answer)
      BY <1>2 DEF MeshTypes
    <2> QED BY <1>1, <2>1, BackTail, CountType
  <1>4. PICK u \in WorkerB : u = Head(back).uid /\ Head(back) = Ucp(u)
    BY <1>1, <1>3, AnswerKinds
  <1> DEFINE cs == <<UnbindNodeMsg(u)>>
  <1>5. UnbindNodeMsg(u) \in Command2Worker
    BY Messages
  <1>6. cs \in Seq(Command2Worker) /\ ToPoolA(cs)
    BY <1>1, <1>4, <1>5
  <1>7. \A b : CountIn(cs, {BindNodeMsg(b)}) = 0
    BY OneCommand
  <1>8. \A b : /\ b = u => CountIn(cs, {UnbindNodeMsg(b)}) = 1
               /\ b # u => CountIn(cs, {UnbindNodeMsg(b)}) = 0
    BY OneCommand
  <1>9. \A b : Head(back) # Bcw(b) /\ (Head(back) = Ucp(b) <=> b = u)
    BY <1>4, Messages
  <1>10. bound \in Nat /\ bound + CountIn(back', Lists) <= bound + CountIn(back, Lists)
    BY <1>2, <1>3 DEF MeshTypes
  <1>11. met \subseteq poolA /\ (met # {} => from > 0)
    BY <1>2 DEF MeshTypes, Newcomers
  <1> HIDE DEF cs
  <1>12. \A b : CountIn(cs, {UnbindNodeMsg(b)}) > 0 =>
                  /\ Head(back) = Ucp(b) /\ CountIn(cs, {UnbindNodeMsg(b)}) = 1
                  /\ CountIn(cs, {BindNodeMsg(b)}) = 0
    BY <1>7, <1>8, <1>9
  <1>13. \A b : Head(back) = Ucp(b) => CountIn(cs, {UnbindNodeMsg(b)}) = 1
    BY <1>8, <1>9
  <1>14. \A b : CountIn(cs, {BindNodeMsg(b)}) > 0 =>
                  Head(back) \in Giving(b) /\ CountIn(cs, {BindNodeMsg(b)}) = 1
    BY <1>7
  <1>15. \A b : Head(back) = Bcw(b) => CountIn(cs, {BindNodeMsg(b)}) = 1
    BY <1>9
  <1>16. \A b \in Alive, a \in met' :
           a \in met \/ CountIn(cs, {BindNodeMsg(b)}) > 0 \/ CountIn(back', {Bcw(b)}) > 0
    BY <1>1
  <1> QED BY <1>1, <1>6, <1>10, <1>11, <1>12, <1>13, <1>14, <1>15, <1>16, PassedOn

\* Each of the given workers once, and no other, is what the answer makes commands of.
LEMMA BindsOf ==
    ASSUME NEW ws \in Pools
    PROVE  /\ [i \in DOMAIN ws |-> BindNodeMsg(ws[i])] \in Seq(Command2Worker)
           /\ \A b : CountIn([i \in DOMAIN ws |-> BindNodeMsg(ws[i])], {UnbindNodeMsg(b)}) = 0
           /\ \A b : /\ b \in Range(ws) =>
                            CountIn([i \in DOMAIN ws |-> BindNodeMsg(ws[i])], {BindNodeMsg(b)}) = 1
                     /\ b \notin Range(ws) =>
                            CountIn([i \in DOMAIN ws |-> BindNodeMsg(ws[i])], {BindNodeMsg(b)}) = 0
  <1> DEFINE cs == [i \in DOMAIN ws |-> BindNodeMsg(ws[i])]
  <1>1. ws \in Seq(WorkerB) /\ IsInjective(ws)
    BY DEF Pools
  <1>2. /\ DOMAIN ws = 1..Len(ws) /\ Len(ws) \in Nat
        /\ \A i \in DOMAIN ws : ws[i] \in WorkerB
    BY <1>1, LenProperties, ElementOfSeq
  <1>3. /\ DOMAIN cs = DOMAIN ws /\ \A i \in DOMAIN ws : cs[i] = BindNodeMsg(ws[i])
        /\ \A i \in DOMAIN ws : BindNodeMsg(ws[i]) \in Command2Worker
    BY <1>2, Messages
  <1>4. cs \in Seq(Command2Worker)
    BY <1>2, <1>3
  <1> HIDE DEF cs
  <1>5. ASSUME NEW b PROVE CountIn(cs, {UnbindNodeMsg(b)}) = 0
    <2>1. \A i \in DOMAIN cs : cs[i] \notin {UnbindNodeMsg(b)}
      BY <1>3, Messages
    <2> QED BY <1>4, <2>1, CountNone
  <1>6. ASSUME NEW b PROVE CountIn(cs, {BindNodeMsg(b)}) = CountIn(ws, {b})
    <2>1. \A i \in DOMAIN ws : cs[i] \in {BindNodeMsg(b)} <=> ws[i] \in {b}
      BY <1>3, Messages
    <2>2. {i \in DOMAIN cs : cs[i] \in {BindNodeMsg(b)}} = {i \in DOMAIN ws : ws[i] \in {b}}
      BY <1>3, <2>1
    <2> QED BY <2>2 DEF CountIn
  <1>7. \A b : /\ b \in Range(ws) => CountIn(ws, {b}) = 1
               /\ b \notin Range(ws) => CountIn(ws, {b}) = 0
    BY <1>1, CountInjective
  <1> QED BY <1>4, <1>5, <1>6, <1>7 DEF cs

LEMMA GotWorkersKeeps == ASSUME MeshInv, GotWorkers PROVE MeshInv'
  <1>1. /\ back # <<>> /\ back' = Tail(back) /\ Head(back).op = "workers"
        /\ Head(back).who = Cluster
        /\ ToPoolA([i \in DOMAIN Head(back).ws |-> BindNodeMsg(Head(back).ws[i])])
        /\ UNCHANGED <<hostVars, call, workerVars, crossed>> /\ met' = met \cup poolA
        /\ (bound' = bound \/ bound' = bound + 1)
    BY DEF GotWorkers, FromTo
  <1>2. MeshTypes /\ Tally
    BY DEF MeshInv
  <1>3. Head(back) \in Answer /\ back' \in Seq(Answer)
    BY <1>1, BackTail
  <1>4. PICK ws \in Pools : ws = Head(back).ws /\ Head(back) = Workers(Cluster, ws)
    BY <1>1, <1>3, AnswerKinds
  <1> DEFINE cs == [i \in DOMAIN ws |-> BindNodeMsg(ws[i])]
  <1>5. Head(back) \in Lists
    BY <1>4 DEF Lists
  <1>6. /\ CountIn(back', Lists) \in Nat /\ CountIn(back, Lists) = CountIn(back', Lists) + 1
        /\ \A b \in Alive : b \in Range(ws) \/ CountIn(back', {Bcw(b)}) # 0
        /\ \A b : CountIn(back', {Bcw(b)}) \in Nat
    BY <1>1, <1>4, <1>5, BackTail
  <1>7. cs \in Seq(Command2Worker) /\ ToPoolA(cs)
    BY <1>1, <1>4, BindsOf
  <1>8. /\ \A b : CountIn(cs, {UnbindNodeMsg(b)}) = 0
        /\ \A b : /\ b \in Range(ws) => CountIn(cs, {BindNodeMsg(b)}) = 1
                  /\ b \notin Range(ws) => CountIn(cs, {BindNodeMsg(b)}) = 0
    BY BindsOf
  <1>9. \A b : /\ Head(back) # Bcw(b) /\ Head(back) # Ucp(b)
               /\ b \in Range(ws) => Head(back) \in Giving(b)
    BY <1>4, Messages DEF Giving
  <1>10. bound' \in Nat /\ bound' + CountIn(back', Lists) <= bound + CountIn(back, Lists)
    <2>1. bound \in Nat
      BY <1>2 DEF MeshTypes
    <2> QED BY <1>1, <1>6, <2>1
  <1>11. met' \subseteq poolA /\ from > 0
    <2>1. back \in Seq(Answer) /\ met \subseteq poolA
      BY <1>2 DEF MeshTypes
    <2>2. 1 \in DOMAIN back /\ back[1] = Head(back)
      <3>1. Len(back) \in Nat \ {0} /\ Head(back) = back[1] /\ DOMAIN back = 1..Len(back)
        BY <1>1, <2>1, HeadTailProperties, LenProperties
      <3> QED BY <3>1
    <2>3. from > 0
      BY <1>2, <1>5, <2>2, ListHasEntry
    <2> QED BY <1>1, <2>1, <2>3
  <1> HIDE DEF cs
  <1>12. \A b : CountIn(cs, {UnbindNodeMsg(b)}) > 0 =>
                  /\ Head(back) = Ucp(b) /\ CountIn(cs, {UnbindNodeMsg(b)}) = 1
                  /\ CountIn(cs, {BindNodeMsg(b)}) = 0
    BY <1>8
  <1>13. \A b : Head(back) = Ucp(b) => CountIn(cs, {UnbindNodeMsg(b)}) = 1
    BY <1>9
  <1>14. \A b : CountIn(cs, {BindNodeMsg(b)}) > 0 =>
                  Head(back) \in Giving(b) /\ CountIn(cs, {BindNodeMsg(b)}) = 1
    BY <1>8, <1>9
  <1>15. \A b : Head(back) = Bcw(b) => CountIn(cs, {BindNodeMsg(b)}) = 1
    BY <1>9
  <1>16. \A b \in Alive, a \in met' :
           a \in met \/ CountIn(cs, {BindNodeMsg(b)}) > 0 \/ CountIn(back', {Bcw(b)}) > 0
    BY <1>6, <1>8
  <1> QED BY <1>1, <1>7, <1>10, <1>11, <1>12, <1>13, <1>14, <1>15, <1>16, PassedOn

LEMMA GotWorkersNewbornKeeps == ASSUME MeshInv, GotWorkersNewborn PROVE MeshInv'
  <1>1. /\ back # <<>> /\ back' = Tail(back) /\ Head(back).op = "workers"
        /\ Head(back).who \in WorkerA
        /\ UNCHANGED <<poolA, poolB, retiring, to, from, call, bound, ipc, clients, binded, met, crossed>>
    BY DEF GotWorkersNewborn, FromTo, hostVars, workerVars, history
  <1>2. MeshTypes /\ Together /\ Tally /\ Pairs /\ Newcomers
    BY DEF MeshInv
  <1>3. /\ Head(back) \in Answer /\ back' \in Seq(Answer) /\ ToldIn(back', Alive)
        /\ \A T : Head(back) \notin T => CountIn(back, T) = CountIn(back', T)
        /\ \A X, Y : Behind(back, X, Y) => Behind(back', X, Y)
    BY <1>1, BackTail
  <1>4. PICK who \in WorkerA, ws \in Pools : Head(back) = Workers(who, ws)
    BY <1>1, <1>3, AnswerKinds
  <1>5. who # Cluster
    BY PoolAssumption
  <1>6. /\ Head(back) \notin Lists
        /\ \A b : /\ Head(back) \notin Giving(b) /\ Head(back) \notin {Ucp(b)}
                  /\ Head(back) \notin {Bcw(b)}
    BY <1>4, <1>5, Messages DEF Lists, Giving
  <1>7. /\ Alive' = Alive /\ Known' = Known /\ Asks' = Asks /\ Tells' = Tells
        /\ Between' = Between
    BY <1>1 DEF Alive, Known, Asks, Tells, Between
  <1>8. MeshTypes' /\ Together' /\ Newcomers'
    BY <1>1, <1>2, <1>3 DEF MeshTypes, Together, Newcomers
  <1>9. Tally'
    BY <1>1, <1>2, <1>3, <1>6, <1>7 DEF Tally
  <1>10. ASSUME NEW a \in WorkerA, NEW b \in WorkerB PROVE Pair(a, b)'
    <2>1. Pair(a, b)
      BY <1>2 DEF Pairs
    <2>2. /\ CountIn(back', Giving(b)) = CountIn(back, Giving(b))
          /\ CountIn(back', {Ucp(b)}) = CountIn(back, {Ucp(b)})
          /\ CountIn(back', {Bcw(b)}) = CountIn(back, {Bcw(b)})
      BY <1>3, <1>6
    <2>3. Supply(a, b)' = Supply(a, b) /\ Owed(a, b)' = Owed(a, b) /\ Near(a, b)' = Near(a, b)
      BY <1>1, <2>2 DEF Supply, Owed, Near
    <2>4. InOrder(a, b) => InOrder(a, b)'
      BY <1>1, <1>3, <2>2 DEF InOrder
    <2> QED BY <1>1, <1>7, <2>1, <2>3, <2>4 DEF Pair
  <1> QED BY <1>3, <1>7, <1>8, <1>9, <1>10 DEF MeshInv, Pairs

-----------------------------------------------------------------------------
(* The calls of the host of A. *)

\* A call that is appended leaves the head, unless there was none.
LEMMA HeadAppend ==
    ASSUME NEW S, NEW q \in Seq(S), NEW e \in S
    PROVE  /\ Append(q, e) # <<>>
           /\ q # <<>> => Head(Append(q, e)) = Head(q)
           /\ q = <<>> => Head(Append(q, e)) = e
  <1> DEFINE r == Append(q, e)
  <1>1. /\ r \in Seq(S) /\ r # <<>> /\ Len(q) \in Nat /\ r[Len(q) + 1] = e
        /\ \A i \in 1..(Len(q) + 1) : i # Len(q) + 1 => i \in 1..Len(q) /\ r[i] = q[i]
    BY Appended
  <1> HIDE DEF r
  <1>2. Head(r) = r[1]
    BY <1>1, HeadTailProperties
  <1>3. q = <<>> => Len(q) = 0
    OBVIOUS
  <1>4. ASSUME q # <<>> PROVE Head(r) = Head(q)
    <2>1. Len(q) \in Nat \ {0} /\ Head(q) = q[1]
      BY <1>4, HeadTailProperties
    <2>2. 1 \in 1..(Len(q) + 1) /\ 1 # Len(q) + 1
      BY <2>1
    <2> QED BY <1>1, <1>2, <2>1, <2>2
  <1> QED BY <1>1, <1>2, <1>3, <1>4 DEF r

LEMMA BindClusterKeeps == ASSUME MeshInv, BindCluster PROVE MeshInv'
  <1>1. /\ to < MaxBinds /\ to' = to + 1 /\ call' = call \o <<Notify, Get(Cluster)>>
        /\ UNCHANGED <<poolA, poolB, retiring, from, back, bound, ipc, clients, binded, met, crossed>>
    BY DEF BindCluster, TellThenAsk, workerVars, history
  <1>2. MeshTypes /\ Together /\ Tally /\ Pairs /\ Newcomers /\ ToldIn(back, Alive)
    BY DEF MeshInv
  <1>3. Notify \in Call /\ Get(Cluster) \in Call /\ Get(Cluster) # Notify
    BY CallKinds, Messages
  <1>4. PICK q \in Seq(Call) : q = call
    BY <1>2 DEF MeshTypes
  <1> DEFINE p == Append(q, Notify)
             r == Append(p, Get(Cluster))
  <1>5. p \in Seq(Call) /\ r \in Seq(Call)
    BY <1>3, Appended
  <1>6. call' = r
    BY <1>1, <1>3, <1>4
  <1>7. /\ CountIn(q, {Get(Cluster)}) \in Nat /\ CountIn(q, {Notify}) \in Nat
        /\ CountIn(r, {Get(Cluster)}) = CountIn(q, {Get(Cluster)}) + 1
        /\ CountIn(r, {Notify}) = CountIn(q, {Notify}) + 1
    <2>1. /\ CountIn(p, {Get(Cluster)}) = CountIn(q, {Get(Cluster)})
          /\ CountIn(p, {Notify}) = CountIn(q, {Notify}) + 1
      BY <1>3, CountAppend
    <2> HIDE DEF p
    <2>2. /\ CountIn(r, {Get(Cluster)}) = CountIn(p, {Get(Cluster)}) + 1
          /\ CountIn(r, {Notify}) = CountIn(p, {Notify})
      BY <1>3, <1>5, CountAppend
    <2>3. CountIn(q, {Get(Cluster)}) \in Nat /\ CountIn(q, {Notify}) \in Nat
      BY CountType
    <2> QED BY <2>1, <2>2, <2>3
  <1>8. /\ r # <<>>
        /\ q # <<>> => Head(r) = Head(q)
        /\ q = <<>> => Head(r) = Notify
    <2>1. /\ p # <<>>
          /\ q # <<>> => Head(p) = Head(q)
          /\ q = <<>> => Head(p) = Notify
      BY <1>3, HeadAppend
    <2> HIDE DEF p
    <2>2. r # <<>> /\ Head(r) = Head(p)
      BY <1>3, <1>5, <2>1, HeadAppend
    <2> QED BY <2>1, <2>2
  <1>9. \A i \in DOMAIN r :
           /\ r[i] = Notify => i + 1 \in DOMAIN r /\ r[i + 1] = Get(Cluster)
           /\ r[i] = Get(Cluster) => i = 1 \/ r[i - 1] = Notify
    <2>1. \A i \in DOMAIN q :
             /\ q[i] = Notify => i + 1 \in DOMAIN q /\ q[i + 1] = Get(Cluster)
             /\ q[i] = Get(Cluster) => i = 1 \/ q[i - 1] = Notify
      BY <1>2, <1>4 DEF Together
    <2> QED BY <2>1, TogetherBind
  <1> HIDE DEF p, r
  <1>10. Together'
    BY <1>6, <1>9 DEF Together
  <1>11. to \in Nat /\ to + 1 \in 0..MaxBinds
    BY <1>1, <1>2, BoundAssumption DEF MeshTypes
  <1>12. MeshTypes'
    BY <1>1, <1>2, <1>5, <1>6, <1>11 DEF MeshTypes
  <1>13. /\ Asks \in Nat /\ Tells \in Nat /\ Asks' = Asks + 1 /\ Tells' = Tells + 1
         /\ Between' <=> Between
    BY <1>3, <1>4, <1>6, <1>7, <1>8 DEF Asks, Tells, Between
  <1>14. Tally'
    <2>1. from \in Nat /\ bound \in Nat /\ CountIn(back, Lists) \in Nat /\ back' = back
          /\ from' = from /\ bound' = bound
      BY <1>1, <1>2, CountType DEF MeshTypes
    <2> QED BY <1>1, <1>2, <1>11, <1>13, <2>1 DEF Tally
  <1>15. Alive' = Alive /\ Known' = Known
    BY <1>1 DEF Alive, Known
  <1>16. ASSUME NEW a \in WorkerA, NEW b \in WorkerB PROVE Pair(a, b)'
    <2>1. Pair(a, b)
      BY <1>2 DEF Pairs
    <2>2. Supply(a, b)' = Supply(a, b) /\ Owed(a, b)' = Owed(a, b) /\ Near(a, b)' = Near(a, b)
      BY <1>1 DEF Supply, Owed, Near
    <2>3. InOrder(a, b) => InOrder(a, b)'
      BY <1>1 DEF InOrder
    <2>4. Supply(a, b) \in Nat
      BY <1>2, SupplyType
    <2>5. /\ Supply(a, b) + Asks <= to + 1 => Supply(a, b) + Asks' <= to' + 1
          /\ Supply(a, b) + Asks <= to => Supply(a, b) + Asks' <= to'
      BY <1>1, <1>11, <1>13, <2>4
    <2> QED BY <1>1, <1>15, <2>1, <2>2, <2>3, <2>5 DEF Pair
  <1>17. Newcomers' /\ ToldIn(back, Alive)'
    BY <1>1, <1>2, <1>15 DEF Newcomers
  <1> QED BY <1>10, <1>12, <1>14, <1>16, <1>17 DEF MeshInv, Pairs

LEMMA RunWorkerAKeeps == ASSUME MeshInv, NEW w \in WorkerA, RunWorkerA(w) PROVE MeshInv'
  <1>1. /\ w \in WorkerA \ poolA /\ poolA' = poolA \cup {w}
        /\ (call' = call \/ call' = Append(call, Get(w)))
        /\ UNCHANGED <<poolB, retiring, to, from, back, bound, ipc, clients, binded, met, crossed>>
    BY DEF RunWorkerA, workerVars, history
  <1>2. MeshTypes /\ Together /\ Tally /\ Pairs /\ Newcomers /\ ToldIn(back, Alive)
    BY DEF MeshInv
  <1>3. Get(w) \in Call /\ Get(w) # Notify /\ Get(w) # Get(Cluster)
    BY CallKinds, Messages, PoolAssumption
  <1>4. /\ call' \in Seq(Call) /\ Together' /\ Asks' = Asks /\ Tells' = Tells
        /\ Between' <=> Between
    <2>1. CASE call' = call
      <3>1. call' \in Seq(Call) /\ Together'
        BY <1>2, <2>1 DEF MeshTypes, Together
      <3>2. Asks' = Asks /\ Tells' = Tells /\ (Between' <=> Between)
        BY <2>1 DEF Asks, Tells, Between
      <3> QED BY <3>1, <3>2
    <2>2. CASE call' = Append(call, Get(w))
      <3>1. PICK q \in Seq(Call) : q = call
        BY <1>2 DEF MeshTypes
      <3>2. \A i \in DOMAIN q :
               /\ q[i] = Notify => i + 1 \in DOMAIN q /\ q[i + 1] = Get(Cluster)
               /\ q[i] = Get(Cluster) => i = 1 \/ q[i - 1] = Notify
        BY <1>2, <3>1 DEF Together
      <3> DEFINE r == Append(q, Get(w))
      <3>3. \A i \in DOMAIN r :
               /\ r[i] = Notify => i + 1 \in DOMAIN r /\ r[i + 1] = Get(Cluster)
               /\ r[i] = Get(Cluster) => i = 1 \/ r[i - 1] = Notify
        BY <1>3, <3>2, TogetherAppend
      <3>4. /\ r \in Seq(Call) /\ CountIn(r, {Get(Cluster)}) = CountIn(q, {Get(Cluster)})
            /\ CountIn(r, {Notify}) = CountIn(q, {Notify})
        BY <1>3, CountAppend
      <3>5. r # <<>> /\ (q # <<>> => Head(r) = Head(q)) /\ (q = <<>> => Head(r) = Get(w))
        BY <1>3, HeadAppend
      <3>6. call' = r
        BY <2>2, <3>1
      <3> HIDE DEF r
      <3> QED BY <1>3, <3>1, <3>3, <3>4, <3>5, <3>6 DEF Together, Asks, Tells, Between
    <2> QED BY <1>1, <2>1, <2>2
  <1>5. MeshTypes' /\ Newcomers' /\ Alive' = Alive /\ Known' = Known
    BY <1>1, <1>2, <1>4 DEF MeshTypes, Newcomers, Alive, Known
  <1>6. Tally'
    BY <1>1, <1>2, <1>4 DEF Tally
  <1>7. ASSUME NEW a \in WorkerA, NEW b \in WorkerB PROVE Pair(a, b)'
    <2>1. Pair(a, b)
      BY <1>2 DEF Pairs
    <2>2. Supply(a, b)' = Supply(a, b) /\ Owed(a, b)' = Owed(a, b) /\ Near(a, b)' = Near(a, b)
      BY <1>1 DEF Supply, Owed, Near
    <2>3. InOrder(a, b) => InOrder(a, b)'
      BY <1>1 DEF InOrder
    <2> QED BY <1>1, <1>4, <1>5, <2>1, <2>2, <2>3 DEF Pair
  <1> QED BY <1>1, <1>2, <1>4, <1>5, <1>6, <1>7 DEF MeshInv, Pairs

-----------------------------------------------------------------------------
(* The host of B. *)

LEMMA NotifyBindingKeeps == ASSUME MeshInv, NotifyBinding PROVE MeshInv'
  <1>1. /\ call # <<>> /\ Head(call).op = "notify_binding" /\ call' = Tail(call)
        /\ from' = from + 1
        /\ UNCHANGED <<poolA, poolB, retiring, to, back, bound, ipc, clients, binded, met, crossed>>
    BY DEF NotifyBinding, FromA, workerVars, history
  <1>2. MeshTypes /\ Together /\ Tally /\ Pairs /\ Newcomers /\ ToldIn(back, Alive)
    BY DEF MeshInv
  <1>3. call \in Seq(Call) /\ call' \in Seq(Call)
    BY <1>1, <1>2, TogetherTail DEF MeshTypes
  <1>4. Head(call) = Notify
    BY <1>1, <1>2, CallKinds, TogetherTail
  <1>5. Together' /\ Between' /\ ~ Between
    BY <1>1, <1>2, <1>4, TogetherTail, Messages DEF Together, Between
  <1>6. Asks \in Nat /\ Tells \in Nat /\ Asks' = Asks /\ Tells' \in Nat /\ Tells = Tells' + 1
    <2>1. Notify \in {Notify} /\ Notify \notin {Get(Cluster)}
      BY Messages
    <2>2. /\ CountIn(call, {Notify}) = CountIn(Tail(call), {Notify}) + 1
          /\ CountIn(call, {Get(Cluster)}) = CountIn(Tail(call), {Get(Cluster)})
      BY <1>1, <1>3, <1>4, <2>1, CountTail
    <2> QED BY <1>1, <1>3, <2>2, CountType DEF Asks, Tells
  <1>7. from \in Nat
    BY <1>2 DEF MeshTypes
  <1>8. MeshTypes' /\ Newcomers' /\ Alive' = Alive /\ Known' = Known
    BY <1>1, <1>2, <1>3, <1>7 DEF MeshTypes, Newcomers, Alive, Known
  <1>9. Tally'
    BY <1>1, <1>2, <1>5, <1>6, <1>7 DEF Tally
  <1>10. ASSUME NEW a \in WorkerA, NEW b \in WorkerB PROVE Pair(a, b)'
    <2>1. Pair(a, b)
      BY <1>2 DEF Pairs
    <2>2. Supply(a, b)' = Supply(a, b) /\ Owed(a, b)' = Owed(a, b) /\ Near(a, b)' = Near(a, b)
      BY <1>1 DEF Supply, Owed, Near
    <2>3. InOrder(a, b) => InOrder(a, b)'
      BY <1>1 DEF InOrder
    <2> QED BY <1>1, <1>6, <1>8, <2>1, <2>2, <2>3 DEF Pair
  <1> QED BY <1>1, <1>2, <1>5, <1>8, <1>9, <1>10 DEF MeshInv, Pairs

LEMMA GetWorkersKeeps == ASSUME MeshInv, GetWorkers PROVE MeshInv'
  <1> DEFINE who == Head(call).who
             m == Workers(who, poolB)
  <1>1. /\ call # <<>> /\ Head(call).op = "get_workers" /\ call' = Tail(call)
        /\ back' = Append(back, m)
        /\ who = Cluster => crossed' = crossed \cup (retiring \cap Range(poolB))
        /\ who # Cluster => crossed' = crossed
        /\ UNCHANGED <<poolA, poolB, retiring, to, from, bound, ipc, clients, binded, met>>
    BY DEF GetWorkers, FromA, workerVars, hostVars, Workers
  <1>2. MeshTypes /\ Together /\ Tally /\ Pairs /\ Newcomers /\ ToldIn(back, Alive)
    BY DEF MeshInv
  <1>3. call \in Seq(Call) /\ call' \in Seq(Call) /\ back \in Seq(Answer) /\ poolB \in Pools
    BY <1>1, <1>2, TogetherTail DEF MeshTypes, Pools
  <1>4. Head(call) = Get(who) /\ who \in Asker /\ m \in Answer
    <2>1. Head(call) \in Call
      BY <1>1, <1>2, TogetherTail
    <2>2. Head(call) = Get(who) /\ who \in Asker
      BY <1>1, <2>1, CallKinds
    <2> QED BY <1>3, <2>2, AnswersAre
  <1>5. Together' /\ ~ Between' /\ (Between <=> who = Cluster)
    <2>1. Head(call) # Notify /\ (Head(call) = Get(Cluster) <=> who = Cluster)
      BY <1>4, Messages
    <2> QED BY <1>1, <1>2, <2>1, TogetherTail DEF Together, Between
  <1>6. /\ Asks \in Nat /\ Tells \in Nat /\ Asks' \in Nat /\ Tells' = Tells
        /\ who = Cluster => Asks = Asks' + 1
        /\ who # Cluster => Asks = Asks'
    <2>1. Head(call) \notin {Notify} /\ (Head(call) \in {Get(Cluster)} <=> who = Cluster)
      BY <1>4, Messages
    <2>2. /\ CountIn(call, {Notify}) = CountIn(Tail(call), {Notify})
          /\ who = Cluster => CountIn(call, {Get(Cluster)}) = CountIn(Tail(call), {Get(Cluster)}) + 1
          /\ who # Cluster => CountIn(call, {Get(Cluster)}) = CountIn(Tail(call), {Get(Cluster)})
      BY <1>1, <1>3, <2>1, CountTail
    <2> QED BY <1>1, <1>3, <2>2, CountType DEF Asks, Tells
  <1>7. /\ m \in Lists <=> who = Cluster
        /\ \A b : /\ m \in Giving(b) <=> who = Cluster /\ b \in Range(poolB)
                  /\ m \notin {Ucp(b)} /\ m \notin {Bcw(b)}
    <2>1. \A b : m \notin {Ucp(b)} /\ m \notin {Bcw(b)}
      BY Messages
    <2>2. m \in Lists <=> who = Cluster
      BY <1>3, Messages DEF Lists
    <2>3. \A b : m \in Giving(b) <=> who = Cluster /\ b \in Range(poolB)
      BY <1>3, Messages DEF Giving
    <2> QED BY <2>1, <2>2, <2>3
  <1>8. /\ back' \in Seq(Answer)
        /\ \A T : /\ m \in T => CountIn(back', T) = CountIn(back, T) + 1
                  /\ m \notin T => CountIn(back', T) = CountIn(back, T)
    BY <1>1, <1>3, <1>4, CountAppend
  <1>9. back' = back \o <<m>> /\ <<m>> \in Seq(Answer)
    BY <1>1, <1>3, <1>4, AppendIsConcat
  <1>10. m.ws = poolB
    BY DEF Workers
  <1>11. Alive' = Alive /\ Known' = Known
    BY <1>1 DEF Alive, Known
  <1> HIDE DEF m, who
  <1>12. MeshTypes' /\ Newcomers'
    <2>1. crossed' \subseteq WorkerB
      BY <1>1, <1>2 DEF MeshTypes
    <2> QED BY <1>1, <1>2, <1>3, <1>8, <2>1 DEF MeshTypes, Newcomers
  <1>13. Tally'
    <2>1. CountIn(back, Lists) \in Nat
      BY <1>3, CountType
    <2>2. bound \in Nat /\ to \in Nat
      BY <1>2, BoundAssumption DEF MeshTypes
    <2>3. /\ Between => Asks = Tells + 1
          /\ ~ Between => Asks = Tells
          /\ to = from + Tells
          /\ bound + CountIn(back, Lists) + Asks <= to
      BY <1>2 DEF Tally
    <2>4. bound' = bound /\ to' = to /\ from' = from
      BY <1>1
    <2>5. /\ CountIn(back', Lists) \in Nat
          /\ who = Cluster => CountIn(back', Lists) = CountIn(back, Lists) + 1
          /\ who # Cluster => CountIn(back', Lists) = CountIn(back, Lists)
      BY <1>7, <1>8, CountType
    <2>6. CountIn(back', Lists) + Asks' = CountIn(back, Lists) + Asks
      <3>1. CASE who = Cluster
        BY <1>6, <2>1, <2>5, <3>1
      <3>2. CASE who # Cluster
        BY <1>6, <2>1, <2>5, <3>2
      <3> QED BY <3>1, <3>2
    <2>7. bound' + CountIn(back', Lists) + Asks' <= to'
      <3>1. bound + CountIn(back', Lists) + Asks' = bound + CountIn(back, Lists) + Asks
        BY <1>6, <2>1, <2>2, <2>5, <2>6
      <3> QED BY <2>3, <2>4, <3>1
    <2>8. Asks' = Tells'
      <3>1. CASE who = Cluster
        <4>1. Asks = Tells + 1
          BY <1>5, <2>3, <3>1
        <4>2. Asks = Asks' + 1 /\ Asks' \in Nat /\ Tells \in Nat
          BY <1>6, <3>1
        <4>3. Asks' = Tells
          <5>1. \A i, j \in Nat : i + 1 = j + 1 => i = j
            OBVIOUS
          <5> QED BY <4>1, <4>2, <5>1
        <4> QED BY <1>6, <4>3
      <3>2. CASE who # Cluster
        BY <1>5, <1>6, <2>3, <3>2
      <3> QED BY <3>1, <3>2
    <2> QED BY <1>5, <1>6, <2>3, <2>4, <2>7, <2>8 DEF Tally
  <1>14. ToldIn(back', Alive)
    <2>1. DOMAIN <<m>> = {1} /\ <<m>>[1] = m
      OBVIOUS
    <2>2. \A b \in Alive : b \in Range(<<m>>[1].ws)
      BY <1>10, <2>1 DEF Alive
    <2>3. \A i \in DOMAIN <<m>> :
              <<m>>[i] \in Lists => \A b \in Alive : b \in Range(<<m>>[i].ws)
      BY <2>1, <2>2
    <2>4. PICK q, r \in Seq(Answer) : q = back /\ r = <<m>>
      BY <1>3, <1>9
    <2>5. /\ ToldIn(q, Alive)
          /\ \A i \in DOMAIN r : r[i] \in Lists => \A b \in Alive : b \in Range(r[i].ws)
      BY <1>2, <2>3, <2>4
    <2>6. \A b \in Alive : \A j \in DOMAIN q :
              q[j] \in Lists => b \in Alive \/ \E i \in DOMAIN r : r[i] = Bcw(b)
      OBVIOUS
    <2>7. ToldIn(q \o r, Alive)
      <3>1. PICK P : P = Alive
        OBVIOUS
      <3>2. /\ \A i \in DOMAIN r : r[i] \in Lists => \A b \in P : b \in Range(r[i].ws)
            /\ ToldIn(q, P)
            /\ \A b \in P : \A j \in DOMAIN q :
                   q[j] \in Lists => b \in P \/ \E i \in DOMAIN r : r[i] = Bcw(b)
        BY <2>5, <3>1
      <3>3. ToldIn(q \o r, P)
        BY <3>2, ToldMore
      <3> QED BY <3>1, <3>3
    <2> QED BY <1>9, <2>4, <2>7
  <1>15. ASSUME NEW a \in WorkerA, NEW b \in WorkerB PROVE Pair(a, b)'
    <2>1. Pair(a, b)
      BY <1>2 DEF Pairs
    <2> DEFINE z == CountIn(back, Giving(b))
               zz == CountIn(back', Giving(b))
    <2>2. /\ who = Cluster /\ b \in Range(poolB) => zz = z + 1
          /\ ~ (who = Cluster /\ b \in Range(poolB)) => zz = z
          /\ CountIn(back', {Ucp(b)}) = CountIn(back, {Ucp(b)})
          /\ CountIn(back', {Bcw(b)}) = CountIn(back, {Bcw(b)})
      BY <1>7, <1>8
    <2>3. Owed(a, b)' = Owed(a, b) /\ Near(a, b)' = Near(a, b)
      BY <1>1, <2>2 DEF Owed, Near
    <2>4. /\ who = Cluster /\ b \in Range(poolB) => Supply(a, b)' = Supply(a, b) + 1
          /\ ~ (who = Cluster /\ b \in Range(poolB)) => Supply(a, b)' = Supply(a, b)
          /\ Supply(a, b) \in Nat /\ to \in Nat
      <3>1. /\ CountIn(clients[a], {b}) \in Nat /\ CountIn(ipc[a], {BindNodeMsg(b)}) \in Nat
            /\ z \in Nat /\ to \in Nat
        BY <1>2, Amounts
      <3>2. Supply(a, b) = CountIn(clients[a], {b}) + CountIn(ipc[a], {BindNodeMsg(b)}) + z
        BY DEF Supply
      <3>3. Supply(a, b)' = CountIn(clients[a], {b}) + CountIn(ipc[a], {BindNodeMsg(b)}) + zz
        BY <1>1 DEF Supply
      <3> HIDE DEF z, zz
      <3> QED BY <2>2, <3>1, <3>2, <3>3
    <2>5. /\ Supply(a, b) + Asks <= to + 1 => Supply(a, b)' + Asks' <= to + 1
          /\ Supply(a, b) + Asks <= to => Supply(a, b)' + Asks' <= to
      <3>1. /\ Supply(a, b)' \in Nat
            /\ Supply(a, b)' + Asks' <= Supply(a, b) + Asks
        <4>1. CASE who = Cluster
          BY <1>6, <2>4, <4>1
        <4>2. CASE who # Cluster
          BY <1>6, <2>4, <4>2
        <4> QED BY <4>1, <4>2
      <3> QED BY <1>6, <2>4, <3>1
    <2>6. /\ b \notin crossed' => b \notin crossed
          /\ b \in retiring \ crossed' => ~ (who = Cluster /\ b \in Range(poolB))
          /\ b \notin Known => b \notin Range(poolB)
      BY <1>1 DEF Known
    <2>7. ASSUME b \in retiring \ crossed', InOrder(a, b) PROVE InOrder(a, b)'
      <3>1. CountIn(<<m>>, Giving(b)) = 0
        BY <1>7, <2>6, <2>7, CountOne
      <3>2. PICK q, r \in Seq(Answer) : q = back /\ r = <<m>>
        BY <1>3, <1>9
      <3>3. Behind(r, {Ucp(b)}, Giving(b)) /\ Behind(q, {Ucp(b)}, Giving(b))
        BY <2>7, <3>1, <3>2, BehindNone DEF InOrder
      <3>4. CountIn(q, {Ucp(b)}) = 0 \/ CountIn(r, Giving(b)) = 0
        BY <3>1, <3>2
      <3>5. Behind(q \o r, {Ucp(b)}, Giving(b))
        BY <3>3, <3>4, BehindConcat
      <3>6. Behind(back', {Ucp(b)}, Giving(b))
        BY <1>9, <3>2, <3>5
      <3>7. CountIn(back', Giving(b)) = CountIn(back, Giving(b))
        BY <2>2, <2>6, <2>7
      <3> QED BY <1>1, <2>7, <3>6, <3>7 DEF InOrder
    <2> QED BY <1>1, <1>11, <2>1, <2>3, <2>4, <2>5, <2>6, <2>7 DEF Pair
  <1> QED BY <1>5, <1>11, <1>12, <1>13, <1>14, <1>15 DEF MeshInv, Pairs

\* The host of B tells every entry of from, of one worker.
LEMMA TellIs ==
    ASSUME MeshTypes, NEW m \in Answer, back' = back \o [i \in 1..from |-> m]
    PROVE  /\ [i \in 1..from |-> m] \in Seq(Answer) /\ back' \in Seq(Answer)
           /\ \A T : /\ m \in T => CountIn(back', T) = CountIn(back, T) + from
                     /\ m \notin T => CountIn(back', T) = CountIn(back, T)
           /\ \A X, Y : Behind(back, X, Y) /\ m \notin Y => Behind(back', X, Y)
  <1>1. from \in Nat /\ back \in Seq(Answer)
    BY DEF MeshTypes
  <1>2. PICK q \in Seq(Answer), n \in Nat : q = back /\ n = from
    BY <1>1
  <1> DEFINE r == [i \in 1..n |-> m]
  <1>3. /\ r \in Seq(Answer)
        /\ \A T : /\ m \in T => CountIn(r, T) = n
                  /\ m \notin T => CountIn(r, T) = 0
    BY <1>2, CountConst
  <1>4. back' = q \o r /\ r = [i \in 1..from |-> m]
    BY <1>2
  <1> HIDE DEF r
  <1>5. q \o r \in Seq(Answer)
    BY <1>3, ConcatProperties
  <1>6. ASSUME NEW T PROVE CountIn(q \o r, T) = CountIn(q, T) + CountIn(r, T)
    BY <1>3, CountConcat
  <1>7. ASSUME NEW X, NEW Y, Behind(q, X, Y), m \notin Y PROVE Behind(q \o r, X, Y)
    <2>1. CountIn(r, Y) = 0
      BY <1>3, <1>7
    <2>2. Behind(r, X, Y)
      BY <1>3, <2>1, BehindNone
    <2> QED BY <1>3, <1>7, <2>1, <2>2, BehindConcat
  <1>8. \A T : /\ m \in T => CountIn(back', T) = CountIn(back, T) + from
               /\ m \notin T => CountIn(back', T) = CountIn(back, T)
    <2> TAKE T
    <2>1. CountIn(q, T) \in Nat
      BY CountType
    <2>2. CountIn(back', T) = CountIn(back, T) + CountIn(r, T) /\ CountIn(back, T) \in Nat
      BY <1>2, <1>4, <1>6, <2>1
    <2> QED BY <1>2, <1>3, <2>2
  <1> QED BY <1>2, <1>3, <1>4, <1>5, <1>7, <1>8

LEMMA RunWorkerBKeeps == ASSUME MeshInv, NEW w \in WorkerB, RunWorkerB(w) PROVE MeshInv'
  <1>1. /\ w \notin Range(poolB) /\ w \notin retiring /\ poolB' = Append(poolB, w)
        /\ back' = back \o [i \in 1..from |-> Bcw(w)]
        /\ Between => crossed' = crossed \cup {w}
        /\ ~ Between => crossed' = crossed
        /\ UNCHANGED <<poolA, retiring, to, from, call, bound, ipc, clients, binded, met>>
    BY DEF RunWorkerB, Tell, EntriesToBind, Bcw, workerVars
  <1>2. MeshTypes /\ Together /\ Tally /\ Pairs /\ Newcomers /\ ToldIn(back, Alive)
    BY DEF MeshInv
  <1>3. Bcw(w) \in Answer /\ Bcw(w) \notin Lists
    BY AnswersAre
  <1>4. /\ [i \in 1..from |-> Bcw(w)] \in Seq(Answer) /\ back' \in Seq(Answer)
        /\ \A T : /\ Bcw(w) \in T => CountIn(back', T) = CountIn(back, T) + from
                  /\ Bcw(w) \notin T => CountIn(back', T) = CountIn(back, T)
        /\ \A X, Y : Behind(back, X, Y) /\ Bcw(w) \notin Y => Behind(back', X, Y)
    BY <1>1, <1>2, <1>3, TellIs
  <1>5. poolB' \in Seq(WorkerB) /\ IsInjective(poolB') /\ Range(poolB') = Range(poolB) \cup {w}
    BY <1>1, <1>2, AppendOrder DEF MeshTypes
  <1>6. /\ Alive' = Alive \cup {w} /\ Known' = Known \cup {w} /\ w \notin Known
        /\ Asks' = Asks /\ Tells' = Tells /\ Between' = Between
    BY <1>1, <1>5 DEF Alive, Known, Asks, Tells, Between
  <1>7. MeshTypes' /\ Together' /\ Newcomers'
    <2>1. crossed' \subseteq WorkerB
      BY <1>1, <1>2 DEF MeshTypes
    <2>2. MeshTypes'
      BY <1>1, <1>2, <1>4, <1>5, <2>1 DEF MeshTypes
    <2> QED BY <1>1, <1>2, <2>2 DEF Together, Newcomers
  <1>8. Tally'
    BY <1>1, <1>2, <1>3, <1>4, <1>6 DEF Tally
  <1>9. ToldIn(back', Alive')
    <2>0. PICK q \in Seq(Answer), r \in Seq(Answer) :
              q = back /\ r = [i \in 1..from |-> Bcw(w)]
      BY <1>2, <1>4 DEF MeshTypes
    <2>1. PICK P, R : /\ P = Alive /\ R = Alive \cup {w}
                      /\ q = back /\ r = [i \in 1..from |-> Bcw(w)]
      BY <2>0
    <2>2. \A i \in DOMAIN r : r[i] = Bcw(w)
      BY <2>1
    <2>3. \A i \in DOMAIN r : r[i] \in Lists => \A b \in R : b \in Range(r[i].ws)
      BY <1>3, <2>2
    <2>4. \A b \in R : \A j \in DOMAIN q :
              q[j] \in Lists => b \in P \/ \E i \in DOMAIN r : r[i] = Bcw(b)
      <3> SUFFICES ASSUME NEW j \in DOMAIN q, q[j] \in Lists
                   PROVE  \E i \in DOMAIN r : r[i] = Bcw(w)
        BY <2>1
      <3>1. from > 0 /\ from \in Nat
        BY <1>2, <2>1, ListHasEntry DEF MeshTypes
      <3>2. 1 \in DOMAIN r
        BY <2>1, <3>1
      <3> QED BY <2>2, <3>2
    <2>5. ToldIn(q, P)
      BY <1>2, <2>1
    <2>6. ToldIn(q \o r, R)
      BY <2>3, <2>4, <2>5, ToldMore
    <2> QED BY <1>1, <1>6, <2>1, <2>6
  <1>10. ASSUME NEW a \in WorkerA, NEW b \in WorkerB PROVE Pair(a, b)'
    <2>1. Pair(a, b)
      BY <1>2 DEF Pairs
    <2>2. Bcw(w) \notin {Ucp(b)} /\ (Bcw(w) \in Giving(b) <=> b = w) /\ (Bcw(w) \in {Bcw(b)} <=> b = w)
      BY AnswersAre, Messages
    <2>3. Owed(a, b)' = Owed(a, b)
      BY <1>1, <1>4, <2>2 DEF Owed
    <2>4. CASE b # w
      <3>1. Supply(a, b)' = Supply(a, b) /\ Near(a, b)' = Near(a, b)
        BY <1>1, <1>4, <2>2, <2>4 DEF Supply, Near
      <3>2. InOrder(a, b) => InOrder(a, b)'
        BY <1>1, <1>4, <2>2, <2>4 DEF InOrder
      <3>3. /\ b \in crossed' <=> b \in crossed
            /\ b \in Known' <=> b \in Known
            /\ b \in Alive' <=> b \in Alive
        BY <1>1, <1>6, <2>4
      <3> QED BY <1>1, <1>6, <2>1, <2>3, <3>1, <3>2, <3>3 DEF Pair
    <2>5. CASE b = w
      <3> DEFINE x == CountIn(clients[a], {b})
                 y == CountIn(ipc[a], {BindNodeMsg(b)})
                 z == CountIn(back, Giving(b))
                 n == CountIn(back, {Bcw(b)})
      <3>1. /\ x \in Nat /\ y \in Nat /\ z \in Nat /\ n \in Nat /\ from \in Nat /\ to \in Nat
            /\ Asks \in Nat /\ Tells \in Nat
        BY <1>2, Amounts
      <3>2. x + y + z = 0 /\ Owed(a, b) = 0
        BY <1>1, <1>6, <2>1, <2>5 DEF Pair, Supply
      <3>3. Supply(a, b)' = x + y + (z + from) /\ Near(a, b)' = x + y + (n + from)
        BY <1>1, <1>4, <2>2, <2>5 DEF Supply, Near
      <3>4. /\ to = from + Tells /\ (Between => Asks = Tells + 1) /\ (~ Between => Asks = Tells)
        BY <1>2 DEF Tally
      <3> HIDE DEF x, y, z, n
      <3>5. Supply(a, b)' = from
        BY <3>1, <3>2, <3>3
      <3>6. from + Asks <= to + 1 /\ (~ Between => from + Asks <= to)
        BY <3>1, <3>4
      <3>7. b \notin crossed' => ~ Between
        BY <1>1, <2>5
      <3>8. b \in Known' /\ b \notin retiring'
        BY <1>1, <1>6, <2>5
      <3>9. a \in met' => Near(a, b)' > 0
        <4>1. a \in met => from > 0
          BY <1>2 DEF Newcomers
        <4> QED BY <1>1, <3>1, <3>3, <4>1
      <3> QED BY <1>1, <1>6, <2>3, <3>2, <3>5, <3>6, <3>7, <3>8, <3>9 DEF Pair
    <2> QED BY <2>4, <2>5
  <1> QED BY <1>7, <1>8, <1>9, <1>10 DEF MeshInv, Pairs

LEMMA GracefulKillKeeps == ASSUME MeshInv, NEW w \in WorkerB, GracefulKill(w) PROVE MeshInv'
  <1>1. /\ w \in Range(poolB) /\ w \notin retiring /\ retiring' = retiring \cup {w}
        /\ back' = back \o [i \in 1..from |-> Ucp(w)]
        /\ UNCHANGED <<poolA, poolB, to, from, call, bound, ipc, clients, binded, met, crossed>>
    BY DEF GracefulKill, Tell, EntriesToUnbind, Ucp, workerVars, history
  <1>2. MeshTypes /\ Together /\ Tally /\ Pairs /\ Newcomers /\ ToldIn(back, Alive)
    BY DEF MeshInv
  <1>3. Ucp(w) \in Answer /\ Ucp(w) \notin Lists
    BY AnswersAre
  <1>4. /\ [i \in 1..from |-> Ucp(w)] \in Seq(Answer) /\ back' \in Seq(Answer)
        /\ \A T : /\ Ucp(w) \in T => CountIn(back', T) = CountIn(back, T) + from
                  /\ Ucp(w) \notin T => CountIn(back', T) = CountIn(back, T)
        /\ \A X, Y : Behind(back, X, Y) /\ Ucp(w) \notin Y => Behind(back', X, Y)
    BY <1>1, <1>2, <1>3, TellIs
  <1>5. /\ Alive' = Alive \ {w} /\ Known' = Known
        /\ Asks' = Asks /\ Tells' = Tells /\ Between' = Between
    BY <1>1 DEF Alive, Known, Asks, Tells, Between
  <1>6. MeshTypes' /\ Together' /\ Newcomers'
    <2>1. retiring' \subseteq WorkerB
      BY <1>1, <1>2 DEF MeshTypes
    <2>2. MeshTypes'
      BY <1>1, <1>2, <1>4, <2>1 DEF MeshTypes
    <2> QED BY <1>1, <1>2, <2>2 DEF Together, Newcomers
  <1>7. Tally'
    BY <1>1, <1>2, <1>3, <1>4, <1>5 DEF Tally
  <1>8. ToldIn(back', Alive')
    <2>0. PICK q \in Seq(Answer), r \in Seq(Answer) :
              q = back /\ r = [i \in 1..from |-> Ucp(w)]
      BY <1>2, <1>4 DEF MeshTypes
    <2>1. PICK P, R : /\ P = Alive /\ R = Alive \ {w}
                      /\ q = back /\ r = [i \in 1..from |-> Ucp(w)]
      BY <2>0
    <2>2. \A i \in DOMAIN r : r[i] = Ucp(w)
      BY <2>1
    <2>3. \A i \in DOMAIN r : r[i] \in Lists => \A b \in R : b \in Range(r[i].ws)
      BY <1>3, <2>2
    <2>4. \A b \in R : \A j \in DOMAIN q :
              q[j] \in Lists => b \in P \/ \E i \in DOMAIN r : r[i] = Bcw(b)
      BY <2>1
    <2>5. ToldIn(q, P)
      BY <1>2, <2>1
    <2>6. ToldIn(q \o r, R)
      BY <2>3, <2>4, <2>5, ToldMore
    <2> QED BY <1>1, <1>5, <2>1, <2>6
  <1>9. ASSUME NEW a \in WorkerA, NEW b \in WorkerB PROVE Pair(a, b)'
    <2>1. Pair(a, b)
      BY <1>2 DEF Pairs
    <2>2. Ucp(w) \notin Giving(b) /\ Ucp(w) \notin {Bcw(b)} /\ (Ucp(w) \in {Ucp(b)} <=> b = w)
      BY AnswersAre, Messages
    <2>3. Supply(a, b)' = Supply(a, b) /\ Near(a, b)' = Near(a, b)
      BY <1>1, <1>4, <2>2 DEF Supply, Near
    <2>4. /\ Behind(back, {Ucp(b)}, Giving(b)) => Behind(back', {Ucp(b)}, Giving(b))
          /\ CountIn(back', Giving(b)) = CountIn(back, Giving(b))
      BY <1>4, <2>2
    <2>5. CASE b # w
      <3>1. Owed(a, b)' = Owed(a, b)
        BY <1>1, <1>4, <2>2, <2>5 DEF Owed
      <3>2. InOrder(a, b) => InOrder(a, b)'
        BY <1>1, <2>4 DEF InOrder
      <3>3. /\ b \in retiring' <=> b \in retiring
            /\ b \in Alive' <=> b \in Alive
        BY <1>1, <1>5, <2>5
      <3> QED BY <1>1, <1>5, <2>1, <2>3, <3>1, <3>2, <3>3 DEF Pair
    <2>6. CASE b = w
      <3> DEFINE u == CountIn(ipc[a], {UnbindNodeMsg(b)})
                 v == CountIn(back, {Ucp(b)})
      <3>1. /\ u \in Nat /\ v \in Nat /\ from \in Nat /\ to \in Nat /\ Asks \in Nat /\ Tells \in Nat
            /\ ipc[a] \in Seq(Command2Worker) /\ back \in Seq(Answer)
        BY <1>2, Amounts DEF MeshTypes
      <3>2. u + v = 0
        BY <1>1, <2>1, <2>6 DEF Pair, Owed
      <3>3. u = 0 /\ v = 0
        <4> HIDE DEF u, v
        <4> QED BY <3>1, <3>2
      <3>4. Owed(a, b)' = u + (v + from)
        BY <1>1, <1>4, <2>2, <2>6 DEF Owed
      <3>5. to = from + Tells /\ (Asks = Tells + 1 \/ Asks = Tells)
        <4>1. to = from + Tells
          BY <1>2 DEF Tally
        <4>2. Asks = Tells + 1 \/ Asks = Tells
          BY <1>2 DEF Tally
        <4> QED BY <4>1, <4>2
      <3>6. Supply(a, b) \in Nat
        BY <1>2, SupplyType
      <3>7. InOrder(a, b)'
        <4>1. Behind(ipc[a], {UnbindNodeMsg(b)}, {BindNodeMsg(b)}) /\ Behind(back, {Ucp(b)}, Giving(b))
          BY <3>1, <3>3, BehindNone
        <4> QED BY <1>1, <2>4, <3>3, <4>1 DEF InOrder
      <3> HIDE DEF u, v
      <3>8. Owed(a, b)' = from
        BY <3>1, <3>3, <3>4
      <3>9. Supply(a, b) + Asks <= to => Supply(a, b) <= from
        BY <3>1, <3>5, <3>6
      <3>10. b \in retiring' /\ b \notin Alive'
        BY <1>1, <1>5, <2>6
      <3> QED BY <1>1, <1>5, <2>1, <2>3, <3>7, <3>8, <3>9, <3>10 DEF Pair
    <2> QED BY <2>5, <2>6
  <1> QED BY <1>6, <1>7, <1>8, <1>9 DEF MeshInv, Pairs

LEMMA KillWorkerKeeps == ASSUME MeshInv, NEW w \in WorkerB, KillWorker(w) PROVE MeshInv'
  <1>1. /\ w \in retiring
        /\ UNCHANGED <<poolA, retiring, to, from, call, back, bound, ipc, clients, binded, met, crossed>>
    BY DEF KillWorker, netVars, workerVars, history
  <1>2. PICK i \in DOMAIN poolB : poolB[i] = w /\ poolB' = RemoveAt(poolB, i)
    BY DEF KillWorker
  <1>3. MeshTypes /\ Together /\ Tally /\ Pairs /\ Newcomers /\ ToldIn(back, Alive)
    BY DEF MeshInv
  <1>4. poolB' \in Seq(WorkerB) /\ IsInjective(poolB') /\ Range(poolB') = Range(poolB) \ {w}
    <2>1. PICK q \in Seq(WorkerB) : q = poolB /\ IsInjective(q)
      BY <1>3 DEF MeshTypes
    <2>2. /\ RemoveAt(q, i) \in Seq(WorkerB) /\ IsInjective(RemoveAt(q, i))
          /\ Range(RemoveAt(q, i)) = Range(q) \ {q[i]}
      BY <1>2, <2>1, RemoveAtOrder
    <2> QED BY <1>2, <2>1, <2>2
  <1>5. /\ Alive' = Alive /\ Known' = Known
        /\ Asks' = Asks /\ Tells' = Tells /\ Between' = Between
    BY <1>1, <1>2, <1>4 DEF Alive, Known, Asks, Tells, Between
  <1>6. MeshTypes' /\ Together' /\ Newcomers' /\ Tally'
    BY <1>1, <1>3, <1>4, <1>5 DEF MeshTypes, Together, Newcomers, Tally
  <1>7. ASSUME NEW a \in WorkerA, NEW b \in WorkerB PROVE Pair(a, b)'
    <2>1. Pair(a, b)
      BY <1>3 DEF Pairs
    <2>2. Supply(a, b)' = Supply(a, b) /\ Owed(a, b)' = Owed(a, b) /\ Near(a, b)' = Near(a, b)
      BY <1>1 DEF Supply, Owed, Near
    <2>3. InOrder(a, b) => InOrder(a, b)'
      BY <1>1 DEF InOrder
    <2> QED BY <1>1, <1>5, <2>1, <2>2, <2>3 DEF Pair
  <1> QED BY <1>1, <1>3, <1>5, <1>6, <1>7 DEF MeshInv, Pairs

-----------------------------------------------------------------------------
(* A worker of A. *)

\* A worker takes a command: what is counted of its queue, and in which order the rest is.
LEMMA CommandIs ==
    ASSUME MeshInv, NEW w \in WorkerA, NEW cmd, Command(w, cmd)
    PROVE  /\ \E u \in WorkerB : /\ Head(ipc[w]).uid = u
                                 /\ cmd = "bind_node" => Head(ipc[w]) = BindNodeMsg(u)
                                 /\ cmd = "unbind_node" => Head(ipc[w]) = UnbindNodeMsg(u)
           /\ ipc' \in [WorkerA -> Seq(Command2Worker)] /\ w \in poolA
           /\ \A a \in WorkerA \ {w} : ipc'[a] = ipc[a]
           /\ \A T : /\ Head(ipc[w]) \in T => CountIn(ipc[w], T) = CountIn(ipc'[w], T) + 1
                     /\ Head(ipc[w]) \notin T => CountIn(ipc[w], T) = CountIn(ipc'[w], T)
                     /\ CountIn(ipc'[w], T) \in Nat
           /\ \A X, Y : Behind(ipc[w], X, Y) =>
                  Behind(ipc'[w], X, Y) /\ (Head(ipc[w]) \in X => CountIn(ipc'[w], Y) = 0)
  <1>1. /\ ipc[w] # <<>> /\ Head(ipc[w]).cmd = cmd
        /\ ipc' = [ipc EXCEPT ![w] = Tail(ipc[w])]
    BY DEF Command
  <1>2. ipc \in [WorkerA -> Seq(Command2Worker)] /\ Newcomers
    BY DEF MeshInv, MeshTypes
  <1>3. PICK q \in Seq(Command2Worker) : q = ipc[w] /\ q # <<>>
    BY <1>1, <1>2
  <1>4. Head(q) \in Command2Worker /\ Tail(q) \in Seq(Command2Worker)
    BY <1>3, HeadTailProperties
  <1>5. /\ ipc' \in [WorkerA -> Seq(Command2Worker)] /\ ipc'[w] = Tail(q)
        /\ \A a \in WorkerA \ {w} : ipc'[a] = ipc[a]
    BY <1>1, <1>2, <1>3, <1>4
  <1>6. w \in poolA
    BY <1>1, <1>2 DEF Newcomers
  <1>7. \A T : /\ Head(q) \in T => CountIn(q, T) = CountIn(Tail(q), T) + 1
               /\ Head(q) \notin T => CountIn(q, T) = CountIn(Tail(q), T)
    BY <1>3, CountTail
  <1>8. \A T : CountIn(Tail(q), T) \in Nat
    BY <1>4, CountType
  <1>9. \A X, Y : Behind(q, X, Y) =>
            Behind(Tail(q), X, Y) /\ (Head(q) \in X => CountIn(Tail(q), Y) = 0)
    BY <1>3, BehindTail
  <1>10. \E u \in WorkerB : /\ Head(q).uid = u
                            /\ cmd = "bind_node" => Head(q) = BindNodeMsg(u)
                            /\ cmd = "unbind_node" => Head(q) = UnbindNodeMsg(u)
    BY <1>1, <1>3, <1>4 DEF Command2Worker, BindNodeMsg, UnbindNodeMsg
  <1> QED BY <1>3, <1>5, <1>6, <1>7, <1>8, <1>9, <1>10

LEMMA BindNodeKeeps == ASSUME MeshInv, NEW w \in WorkerA, BindNode(w) PROVE MeshInv'
  <1>1. /\ Command(w, "bind_node")
        /\ clients' = [clients EXCEPT ![w] = Append(clients[w], Head(ipc[w]).uid)]
        /\ binded' = [binded EXCEPT ![w] = TRUE]
        /\ UNCHANGED <<poolA, poolB, retiring, to, from, call, back, bound, met, crossed>>
    BY DEF BindNode, hostVars, netVars, history
  <1>2. MeshTypes /\ Together /\ Tally /\ Pairs /\ Newcomers /\ ToldIn(back, Alive)
    BY DEF MeshInv
  <1>3. PICK u \in WorkerB : Head(ipc[w]).uid = u /\ Head(ipc[w]) = BindNodeMsg(u)
    BY <1>1, CommandIs
  <1>4. /\ ipc' \in [WorkerA -> Seq(Command2Worker)] /\ w \in poolA
        /\ \A a \in WorkerA \ {w} : ipc'[a] = ipc[a]
        /\ \A T : /\ Head(ipc[w]) \in T => CountIn(ipc[w], T) = CountIn(ipc'[w], T) + 1
                  /\ Head(ipc[w]) \notin T => CountIn(ipc[w], T) = CountIn(ipc'[w], T)
                  /\ CountIn(ipc'[w], T) \in Nat
        /\ \A X, Y : Behind(ipc[w], X, Y) => Behind(ipc'[w], X, Y)
    BY <1>1, CommandIs
  <1>5. clients \in [WorkerA -> Seq(WorkerB)] /\ binded \in [WorkerA -> BOOLEAN]
    BY <1>2 DEF MeshTypes
  <1>6. PICK q \in Seq(WorkerB) : q = clients[w]
    BY <1>5
  <1>7. /\ Append(q, u) \in Seq(WorkerB) /\ Append(q, u) # <<>>
        /\ \A T : /\ u \in T => CountIn(Append(q, u), T) = CountIn(q, T) + 1
                  /\ u \notin T => CountIn(Append(q, u), T) = CountIn(q, T)
    BY Appended, CountAppend
  <1>8. /\ clients' \in [WorkerA -> Seq(WorkerB)] /\ clients'[w] = Append(q, u)
        /\ \A a \in WorkerA \ {w} : clients'[a] = clients[a]
        /\ binded' \in [WorkerA -> BOOLEAN] /\ \A a \in WorkerA \ {w} : binded'[a] = binded[a]
    BY <1>1, <1>3, <1>5, <1>6, <1>7
  <1>9. /\ Alive' = Alive /\ Known' = Known
        /\ Asks' = Asks /\ Tells' = Tells /\ Between' = Between
    BY <1>1 DEF Alive, Known, Asks, Tells, Between
  <1>10. MeshTypes' /\ Together' /\ Tally'
    BY <1>1, <1>2, <1>4, <1>8, <1>9 DEF MeshTypes, Together, Tally
  <1>11. Newcomers'
    <2>1. \A a \in WorkerA \ poolA : clients'[a] = <<>> /\ ipc'[a] = <<>>
      BY <1>2, <1>4, <1>8 DEF Newcomers
    <2>2. \A a \in WorkerA : binded'[a] => clients'[a] # <<>>
      BY <1>2, <1>7, <1>8 DEF Newcomers
    <2> QED BY <1>1, <1>2, <2>1, <2>2 DEF Newcomers
  <1>12. ASSUME NEW a \in WorkerA, NEW b \in WorkerB PROVE Pair(a, b)'
    <2>1. Pair(a, b)
      BY <1>2 DEF Pairs
    <2>2. CASE a # w
      <3>1. ipc'[a] = ipc[a] /\ clients'[a] = clients[a]
        BY <1>4, <1>8, <2>2
      <3>2. Supply(a, b)' = Supply(a, b) /\ Owed(a, b)' = Owed(a, b) /\ Near(a, b)' = Near(a, b)
        BY <1>1, <3>1 DEF Supply, Owed, Near
      <3>3. InOrder(a, b) => InOrder(a, b)'
        BY <1>1, <3>1 DEF InOrder
      <3> QED BY <1>1, <1>9, <2>1, <3>2, <3>3 DEF Pair
    <2>3. CASE a = w
      <3> DEFINE x == CountIn(clients[a], {b})
                 y == CountIn(ipc[a], {BindNodeMsg(b)})
                 xx == CountIn(clients'[a], {b})
                 yy == CountIn(ipc'[a], {BindNodeMsg(b)})
      <3>1. x \in Nat /\ y \in Nat /\ yy \in Nat
        BY <1>2, <1>4, <2>3, Amounts
      <3>2. /\ b = u => xx = x + 1 /\ y = yy + 1
            /\ b # u => xx = x /\ y = yy
        <4>1. BindNodeMsg(u) \in {BindNodeMsg(b)} <=> b = u
          BY Messages
        <4>2. /\ b = u => xx = x + 1
              /\ b # u => xx = x
          BY <1>6, <1>7, <1>8, <2>3
        <4>3. /\ b = u => y = yy + 1
              /\ b # u => y = yy
          BY <1>3, <1>4, <2>3, <4>1
        <4> QED BY <4>2, <4>3
      <3>3. CountIn(ipc'[a], {UnbindNodeMsg(b)}) = CountIn(ipc[a], {UnbindNodeMsg(b)})
        <4>1. Head(ipc[w]) \notin {UnbindNodeMsg(b)}
          <5>1. BindNodeMsg(u) # UnbindNodeMsg(b)
            BY Messages
          <5> QED BY <1>3, <5>1
        <4> QED BY <1>4, <2>3, <4>1
      <3>4. InOrder(a, b) => InOrder(a, b)'
        BY <1>1, <1>4, <2>3, <3>3 DEF InOrder
      <3>5. Owed(a, b)' = Owed(a, b)
        BY <1>1, <3>3 DEF Owed
      <3>6. xx + yy = x + y
        <4> HIDE DEF x, y, xx, yy
        <4> QED BY <3>1, <3>2
      <3>7. Supply(a, b)' = Supply(a, b) /\ Near(a, b)' = Near(a, b)
        <4>1. Supply(a, b)' = (xx + yy) + CountIn(back, Giving(b))
          BY <1>1 DEF Supply
        <4>2. Near(a, b)' = (xx + yy) + CountIn(back, {Bcw(b)})
          BY <1>1 DEF Near
        <4>3. /\ Supply(a, b) = (x + y) + CountIn(back, Giving(b))
              /\ Near(a, b) = (x + y) + CountIn(back, {Bcw(b)})
          BY DEF Supply, Near
        <4> HIDE DEF x, y, xx, yy
        <4> QED BY <3>6, <4>1, <4>2, <4>3
      <3> QED BY <1>1, <1>9, <2>1, <3>4, <3>5, <3>7 DEF Pair
    <2> QED BY <2>2, <2>3
  <1> QED BY <1>1, <1>2, <1>9, <1>10, <1>11, <1>12 DEF MeshInv, Pairs

LEMMA UnbindNodeKeeps == ASSUME MeshInv, NEW w \in WorkerA, UnbindNode(w) PROVE MeshInv'
  <1>1. /\ Command(w, "unbind_node")
        /\ clients' = [clients EXCEPT ![w] = Removed(clients[w], Head(ipc[w]).uid)]
        /\ binded' = [binded EXCEPT ![w] =
                          binded[w] /\ ~ Contains(clients[w], Head(ipc[w]).uid)]
        /\ UNCHANGED <<poolA, poolB, retiring, to, from, call, back, bound, met, crossed>>
    BY DEF UnbindNode, hostVars, netVars, history
  <1>2. MeshTypes /\ Together /\ Tally /\ Pairs /\ Newcomers /\ ToldIn(back, Alive)
    BY DEF MeshInv
  <1>3. PICK u \in WorkerB : Head(ipc[w]).uid = u /\ Head(ipc[w]) = UnbindNodeMsg(u)
    BY <1>1, CommandIs
  <1>4. /\ ipc' \in [WorkerA -> Seq(Command2Worker)] /\ w \in poolA
        /\ \A a \in WorkerA \ {w} : ipc'[a] = ipc[a]
        /\ \A T : /\ Head(ipc[w]) \in T => CountIn(ipc[w], T) = CountIn(ipc'[w], T) + 1
                  /\ Head(ipc[w]) \notin T => CountIn(ipc[w], T) = CountIn(ipc'[w], T)
                  /\ CountIn(ipc'[w], T) \in Nat
        /\ \A X, Y : Behind(ipc[w], X, Y) =>
               Behind(ipc'[w], X, Y) /\ (Head(ipc[w]) \in X => CountIn(ipc'[w], Y) = 0)
    BY <1>1, CommandIs
  <1>5. clients \in [WorkerA -> Seq(WorkerB)] /\ binded \in [WorkerA -> BOOLEAN]
    BY <1>2 DEF MeshTypes
  <1>6. PICK q \in Seq(WorkerB) : q = clients[w]
    BY <1>5
  <1>7. PICK r : r = Removed(q, u)
    OBVIOUS
  <1>8. /\ r \in Seq(WorkerB)
        /\ \A b : b # u => CountIn(r, {b}) = CountIn(q, {b})
        /\ CountIn(r, {u}) <= CountIn(q, {u})
        /\ CountIn(q, {u}) > 0 => CountIn(r, {u}) < CountIn(q, {u})
    BY <1>7, RemovedIs
  <1>9. /\ clients' \in [WorkerA -> Seq(WorkerB)] /\ clients'[w] = r
        /\ \A a \in WorkerA \ {w} : clients'[a] = clients[a]
    BY <1>1, <1>3, <1>5, <1>6, <1>7, <1>8
  <1>10. /\ binded' \in [WorkerA -> BOOLEAN]
         /\ binded'[w] => binded[w] /\ ~ Contains(q, u)
         /\ \A a \in WorkerA \ {w} : binded'[a] = binded[a]
    <2>1. (binded[w] /\ ~ Contains(clients[w], Head(ipc[w]).uid)) \in BOOLEAN
      OBVIOUS
    <2>2. PICK c \in BOOLEAN :
              /\ c = (binded[w] /\ ~ Contains(clients[w], Head(ipc[w]).uid))
              /\ binded' = [binded EXCEPT ![w] = c]
      BY <1>1, <2>1
    <2>3. c => binded[w] /\ ~ Contains(q, u)
      BY <1>3, <1>6, <2>2
    <2>4. binded' \in [WorkerA -> BOOLEAN]
      BY <1>5, <2>2
    <2>5. binded'[w] = c /\ \A a \in WorkerA \ {w} : binded'[a] = binded[a]
      BY <1>5, <2>2
    <2> QED BY <2>3, <2>4, <2>5
  <1>11. /\ Alive' = Alive /\ Known' = Known
         /\ Asks' = Asks /\ Tells' = Tells /\ Between' = Between
    BY <1>1 DEF Alive, Known, Asks, Tells, Between
  <1>12. MeshTypes' /\ Together' /\ Tally'
    BY <1>1, <1>2, <1>4, <1>9, <1>10, <1>11 DEF MeshTypes, Together, Tally
  <1>13. Newcomers'
    <2>1. \A a \in WorkerA \ poolA : clients'[a] = <<>> /\ ipc'[a] = <<>>
      BY <1>2, <1>4, <1>9 DEF Newcomers
    <2>2. ASSUME binded'[w] PROVE clients'[w] # <<>>
      <3>1. q # <<>> /\ ~ Contains(q, u)
        BY <1>2, <1>6, <1>10, <2>2 DEF Newcomers
      <3>2. /\ DOMAIN q = 1..Len(q) /\ 1 \in DOMAIN q
        <4>1. Len(q) \in Nat \ {0} /\ DOMAIN q = 1..Len(q)
          BY <3>1, HeadTailProperties, LenProperties
        <4> QED BY <4>1
      <3>3. PICK c : c = q[1] /\ c # u
        BY <3>1, <3>2 DEF Contains
      <3>4. ~ \A i \in DOMAIN q : q[i] \notin {c}
        BY <3>2, <3>3
      <3>5. CountIn(q, {c}) # 0
        BY <3>4, CountNone
      <3>6. CountIn(r, {c}) # 0
        BY <1>8, <3>3, <3>5
      <3> QED BY <1>9, <3>6, CountEmpty
    <2>3. \A a \in WorkerA : binded'[a] => clients'[a] # <<>>
      <3> TAKE a \in WorkerA
      <3>1. CASE a = w
        BY <2>2, <3>1
      <3>2. CASE a # w
        BY <1>2, <1>9, <1>10, <3>2 DEF Newcomers
      <3> QED BY <3>1, <3>2
    <2> QED BY <1>1, <1>2, <2>1, <2>3 DEF Newcomers
  <1>14. ASSUME NEW a \in WorkerA, NEW b \in WorkerB PROVE Pair(a, b)'
    <2>1. Pair(a, b)
      BY <1>2 DEF Pairs
    <2>2. CASE a # w
      <3>1. ipc'[a] = ipc[a] /\ clients'[a] = clients[a]
        BY <1>4, <1>9, <2>2
      <3>2. Supply(a, b)' = Supply(a, b) /\ Owed(a, b)' = Owed(a, b) /\ Near(a, b)' = Near(a, b)
        BY <1>1, <3>1 DEF Supply, Owed, Near
      <3>3. InOrder(a, b) => InOrder(a, b)'
        BY <1>1, <3>1 DEF InOrder
      <3> QED BY <1>1, <1>11, <2>1, <3>2, <3>3 DEF Pair
    <2>3. CASE a = w
      <3> DEFINE x == CountIn(clients[a], {b})
                 y == CountIn(ipc[a], {BindNodeMsg(b)})
                 z == CountIn(back, Giving(b))
                 u1 == CountIn(ipc[a], {UnbindNodeMsg(b)})
                 v == CountIn(back, {Ucp(b)})
                 xx == CountIn(clients'[a], {b})
                 yy == CountIn(ipc'[a], {BindNodeMsg(b)})
                 uu == CountIn(ipc'[a], {UnbindNodeMsg(b)})
      <3>1. /\ x \in Nat /\ y \in Nat /\ z \in Nat /\ u1 \in Nat /\ v \in Nat
            /\ to \in Nat /\ Asks \in Nat
        BY <1>2, Amounts
      <3>2. xx \in Nat /\ uu \in Nat
        <4>1. CountIn(r, {b}) \in Nat
          BY <1>8, CountType
        <4> QED BY <1>4, <1>9, <2>3, <4>1
      <3>3. yy = y
        <4>1. Head(ipc[w]) \notin {BindNodeMsg(b)}
          <5>1. BindNodeMsg(b) # UnbindNodeMsg(u)
            BY Messages
          <5> QED BY <1>3, <5>1
        <4> QED BY <1>4, <2>3, <4>1
      <3>4. /\ b = u => u1 = uu + 1
            /\ b # u => u1 = uu
        <4>1. Head(ipc[w]) \in {UnbindNodeMsg(b)} <=> b = u
          <5>1. UnbindNodeMsg(b) = UnbindNodeMsg(u) <=> b = u
            BY Messages
          <5> QED BY <1>3, <5>1
        <4> QED BY <1>4, <2>3, <4>1
      <3>5. /\ b # u => xx = x
            /\ xx <= x
            /\ b = u /\ x > 0 => xx < x
        <4>1. CASE b = u
          BY <1>6, <1>8, <1>9, <2>3, <4>1
        <4>2. CASE b # u
          <5>1. xx = x
            BY <1>6, <1>8, <1>9, <2>3, <4>2
          <5> QED BY <3>1, <4>2, <5>1
        <4> QED BY <4>1, <4>2
      <3>6. InOrder(a, b) => InOrder(a, b)'
        <4> SUFFICES ASSUME InOrder(a, b) PROVE InOrder(a, b)'
          OBVIOUS
        <4>1. Behind(ipc'[a], {UnbindNodeMsg(b)}, {BindNodeMsg(b)})
          BY <1>4, <2>3 DEF InOrder
        <4>2. Behind(back', {Ucp(b)}, Giving(b)) /\ (u1 > 0 => z = 0)
          BY <1>1 DEF InOrder
        <4>3. uu > 0 => z = 0
          <5> HIDE DEF x, y, z, u1, v, xx, yy, uu
          <5>1. uu > 0 => u1 > 0
            BY <3>1, <3>2, <3>4
          <5> QED BY <4>2, <5>1
        <4> QED BY <1>1, <4>1, <4>2, <4>3 DEF InOrder
      <3>7. b = u /\ InOrder(a, b) => y = 0 /\ z = 0
        <4> SUFFICES ASSUME b = u, InOrder(a, b) PROVE y = 0 /\ z = 0
          OBVIOUS
        <4>1. yy = 0
          BY <1>3, <1>4, <2>3 DEF InOrder
        <4>2. u1 > 0 => z = 0
          BY DEF InOrder
        <4> HIDE DEF x, y, z, u1, v, xx, yy, uu
        <4>3. u1 > 0
          BY <3>2, <3>4
        <4> QED BY <3>3, <4>1, <4>2, <4>3
      <3>8. /\ x + y + z + Asks <= to + 1
            /\ b \notin crossed => x + y + z + Asks <= to
            /\ b \notin Known => x + y + z = 0
            /\ b \notin retiring => u1 + v = 0
            /\ b \in retiring \ crossed => x + y + z <= u1 + v /\ InOrder(a, b)
        BY <2>1 DEF Pair, Supply, Owed
      <3> DEFINE n == CountIn(back, {Bcw(b)})
      <3>9. /\ a \in met /\ b \in Alive => x + y + n > 0
            /\ b \in Alive => b \notin retiring
        BY <2>1 DEF Pair, Near, Alive
      <3>10. /\ Supply(a, b)' = xx + yy + z /\ Owed(a, b)' = uu + v /\ Near(a, b)' = xx + yy + n
        BY <1>1 DEF Supply, Owed, Near
      <3> HIDE DEF x, y, z, u1, v, n, xx, yy, uu
      <3>11. xx + yy + z <= x + y + z
        BY <3>1, <3>2, <3>3, <3>5
      <3>12. /\ xx + yy + z + Asks <= to + 1
             /\ b \notin crossed => xx + yy + z + Asks <= to
             /\ b \notin Known => xx + yy + z = 0
        BY <3>1, <3>2, <3>3, <3>8, <3>11
      <3>13. b \notin retiring => b # u /\ uu + v = 0
        BY <3>1, <3>2, <3>4, <3>8
      <3>14. b \in retiring \ crossed => xx + yy + z <= uu + v
        <4> SUFFICES ASSUME b \in retiring \ crossed PROVE xx + yy + z <= uu + v
          OBVIOUS
        <4>1. CASE b # u
          BY <3>1, <3>2, <3>3, <3>4, <3>5, <3>8, <4>1
        <4>2. CASE b = u
          <5>1. y = 0 /\ z = 0 /\ yy = 0 /\ x <= u1 + v /\ u1 = uu + 1
            BY <3>1, <3>3, <3>4, <3>7, <3>8, <4>2
          <5>2. xx <= uu + v
            BY <3>1, <3>2, <3>5, <4>2, <5>1
          <5> QED BY <3>1, <3>2, <5>1, <5>2
        <4> QED BY <4>1, <4>2
      <3>15. a \in met /\ b \in Alive => xx + yy + n > 0
        BY <3>3, <3>5, <3>9, <3>13
      <3> QED BY <1>1, <1>11, <3>6, <3>8, <3>10, <3>12, <3>13, <3>14, <3>15 DEF Pair
    <2> QED BY <2>2, <2>3
  <1> QED BY <1>1, <1>2, <1>11, <1>12, <1>13, <1>14 DEF MeshInv, Pairs

-----------------------------------------------------------------------------
LEMMA MeshInit == Init => MeshInv
  <1> SUFFICES ASSUME Init PROVE MeshInv
    OBVIOUS
  <1>1. /\ poolA = StartA /\ poolB = StartB /\ retiring = {} /\ to = 0 /\ from = 0
        /\ call = <<>> /\ back = <<>> /\ bound = 0 /\ met = {} /\ crossed = {}
        /\ ipc = [a \in WorkerA |-> <<>>] /\ clients = [a \in WorkerA |-> <<>>]
        /\ binded = [a \in WorkerA |-> FALSE]
    BY DEF Init
  <1>2. MeshTypes
    <2>1. 0 \in 0..MaxBinds /\ 0 \in Nat
      BY BoundAssumption
    <2>2. StartA \subseteq WorkerA /\ StartB \in Seq(WorkerB) /\ IsInjective(StartB)
      BY PoolAssumption
    <2>3. /\ ipc \in [WorkerA -> Seq(Command2Worker)] /\ clients \in [WorkerA -> Seq(WorkerB)]
          /\ binded \in [WorkerA -> BOOLEAN] /\ call \in Seq(Call) /\ back \in Seq(Answer)
      BY <1>1
    <2> QED BY <1>1, <2>1, <2>2, <2>3 DEF MeshTypes
  <1>3. Together /\ ToldIn(back, Alive)
    <2>1. DOMAIN call = {} /\ DOMAIN back = {}
      BY <1>1
    <2> QED BY <2>1 DEF Together, ToldIn
  <1>4. Asks = 0 /\ Tells = 0 /\ ~ Between /\ \A T : CountIn(back, T) = 0
    BY <1>1, CountEmpty DEF Asks, Tells, Between
  <1>5. Tally
    <2>1. CountIn(back, Lists) = 0
      BY <1>4
    <2> QED BY <1>1, <1>4, <2>1 DEF Tally
  <1>6. ASSUME NEW a \in WorkerA, NEW b \in WorkerB PROVE Pair(a, b)
    <2>1. /\ CountIn(clients[a], {b}) = 0 /\ CountIn(ipc[a], {BindNodeMsg(b)}) = 0
          /\ CountIn(ipc[a], {UnbindNodeMsg(b)}) = 0
      BY <1>1, CountEmpty
    <2>2. CountIn(back, Giving(b)) = 0 /\ CountIn(back, {Ucp(b)}) = 0
      BY <1>4
    <2>3. Supply(a, b) = 0 /\ Owed(a, b) = 0
      BY <2>1, <2>2 DEF Supply, Owed
    <2> QED BY <1>1, <1>4, <2>3 DEF Pair
  <1>7. Newcomers
    BY <1>1 DEF Newcomers
  <1> QED BY <1>2, <1>3, <1>5, <1>6, <1>7 DEF MeshInv, Pairs

LEMMA MeshStep == MeshInv /\ [Next]_vars => MeshInv'
  <1> SUFFICES ASSUME MeshInv, [Next]_vars PROVE MeshInv'
    OBVIOUS
  <1>1. CASE BindCluster
    BY <1>1, BindClusterKeeps
  <1>2. CASE HostAStep
    BY <1>2, GotWorkersKeeps, GotWorkersNewbornKeeps, BindClusterWorkerKeeps,
       UnbindClusterProcessKeeps DEF HostAStep
  <1>3. CASE HostBStep
    BY <1>3, NotifyBindingKeeps, GetWorkersKeeps DEF HostBStep
  <1>4. CASE \E a \in WorkerA : RunWorkerA(a) \/ WorkerStep(a)
    <2>1. PICK a \in WorkerA : RunWorkerA(a) \/ BindNode(a) \/ UnbindNode(a)
      BY <1>4 DEF WorkerStep
    <2> QED BY <2>1, RunWorkerAKeeps, BindNodeKeeps, UnbindNodeKeeps
  <1>5. CASE \E b \in WorkerB : RunWorkerB(b) \/ GracefulKill(b) \/ KillWorker(b)
    <2>1. PICK b \in WorkerB : RunWorkerB(b) \/ GracefulKill(b) \/ KillWorker(b)
      BY <1>5
    <2> QED BY <2>1, RunWorkerBKeeps, GracefulKillKeeps, KillWorkerKeeps
  <1>6. CASE UNCHANGED vars
    <2>1. UNCHANGED <<poolA, poolB, retiring, to, from, call, back, bound, ipc, clients,
                      binded, met, crossed>>
      BY <1>6 DEF vars, hostVars, netVars, workerVars, history
    <2>2. MeshTypes /\ Together /\ Tally /\ Pairs /\ Newcomers /\ ToldIn(back, Alive)
      BY DEF MeshInv
    <2>3. /\ Alive' = Alive /\ Known' = Known
          /\ Asks' = Asks /\ Tells' = Tells /\ Between' = Between
      BY <2>1 DEF Alive, Known, Asks, Tells, Between
    <2>4. MeshTypes' /\ Together' /\ Newcomers' /\ Tally'
      BY <2>1, <2>2, <2>3 DEF MeshTypes, Together, Newcomers, Tally
    <2>5. ASSUME NEW a \in WorkerA, NEW b \in WorkerB PROVE Pair(a, b)'
      <3>1. Pair(a, b)
        BY <2>2 DEF Pairs
      <3>2. Supply(a, b)' = Supply(a, b) /\ Owed(a, b)' = Owed(a, b) /\ Near(a, b)' = Near(a, b)
        BY <2>1 DEF Supply, Owed, Near
      <3>3. InOrder(a, b) => InOrder(a, b)'
        BY <2>1 DEF InOrder
      <3> QED BY <2>1, <2>3, <3>1, <3>2, <3>3 DEF Pair
    <2> QED BY <2>1, <2>2, <2>3, <2>4, <2>5 DEF MeshInv, Pairs
  <1> QED BY <1>1, <1>2, <1>3, <1>4, <1>5, <1>6 DEF Next

\* What is counted, ordered and told of the messages between the hosts and the workers
\* holds at every step, whatever births and retirements come between.
THEOREM MeshInvariance == Spec => []MeshInv
  <1> QED BY MeshInit, MeshStep, PTL DEF Spec

\* The sockets are those that are counted.
LEMMA SocketsAre ==
    ASSUME NEW a, NEW b PROVE Sockets(a, b) = CountIn(clients[a], {b})
  <1>1. {i \in DOMAIN clients[a] : clients[a][i] = b}
            = {i \in DOMAIN clients[a] : clients[a][i] \in {b}}
    OBVIOUS
  <1> QED BY <1>1 DEF Sockets, CountIn

\* When nothing is under way, every worker of A that was there when a bind was answered
\* has a socket to every worker of B that does not retire: births between the two calls
\* of bind_cluster, or behind them, are never lost (bind_cluster, get_workers, run_worker).
THEOREM NoneMissed == Spec => []NoWorkerMissed
  <1>1. ASSUME MeshInv PROVE NoWorkerMissed
    <2> SUFFICES ASSUME Settled, NEW a \in met, NEW b \in Range(poolB) \ retiring
                 PROVE  Sockets(a, b) > 0
      BY DEF NoWorkerMissed, Fed
    <2>1. MeshTypes /\ Pairs
      BY <1>1 DEF MeshInv
    <2>2. a \in WorkerA /\ b \in WorkerB
      <3>1. poolB \in Seq(WorkerB) /\ met \subseteq WorkerA
        BY <2>1 DEF MeshTypes
      <3>2. PICK i \in DOMAIN poolB : poolB[i] = b
        BY DEF Range
      <3> QED BY <3>1, <3>2, ElementOfSeq
    <2>3. Near(a, b) > 0
      BY <2>1, <2>2 DEF Pairs, Pair, Alive
    <2>4. CountIn(ipc[a], {BindNodeMsg(b)}) = 0 /\ CountIn(back, {Bcw(b)}) = 0
      BY <2>2, CountEmpty DEF Settled
    <2>5. CountIn(clients[a], {b}) \in Nat
      BY <2>1, <2>2, Amounts
    <2>6. Near(a, b) = CountIn(clients[a], {b})
      BY <2>4, <2>5 DEF Near
    <2>7. Sockets(a, b) = CountIn(clients[a], {b})
      BY SocketsAre
    <2> QED BY <2>3, <2>6, <2>7
  <1> QED BY <1>1, MeshInvariance, PTL

\* A worker has no more sockets to another than the operators are bound times, and one
\* for a birth between the calls; and it takes itself for bound only if it has one
\* (notify_binding, run_worker, bind_node, unbind_node).
THEOREM SocketsBounded == Spec => []SocketsPerBind
  <1>1. ASSUME MeshInv PROVE SocketsPerBind
    <2>1. MeshTypes /\ Pairs /\ Tally /\ Newcomers
      BY <1>1 DEF MeshInv
    <2>2. TypeOK
      <3>1. to \in Nat /\ from \in Nat /\ bound \in Nat /\ to <= MaxBinds
        BY <2>1, BoundAssumption DEF MeshTypes
      <3>2. Asks \in Nat /\ Tells \in Nat /\ CountIn(back, Lists) \in Nat
        <4>1. call \in Seq(Call) /\ back \in Seq(Answer)
          BY <2>1 DEF MeshTypes
        <4>2. CountIn(back, Lists) \in Nat
          BY <4>1, CountType
        <4> QED BY <4>1, <4>2, CountType DEF Asks, Tells
      <3>3. to = from + Tells /\ (Asks = Tells + 1 \/ Asks = Tells)
        BY <2>1 DEF Tally
      <3>4. bound + CountIn(back, Lists) + Asks <= to
        BY <2>1 DEF Tally
      <3>5. from <= to /\ bound <= from
        BY <3>1, <3>2, <3>3, <3>4
      <3> QED BY <2>1, <3>1, <3>5 DEF MeshTypes, TypeOK
    <2>3. ASSUME NEW a \in WorkerA, NEW b \in WorkerB PROVE Sockets(a, b) <= to + 1
      <3>1. /\ CountIn(clients[a], {b}) \in Nat /\ CountIn(ipc[a], {BindNodeMsg(b)}) \in Nat
            /\ CountIn(back, Giving(b)) \in Nat /\ Asks \in Nat /\ to \in Nat
        BY <2>1, Amounts
      <3>2. Supply(a, b) + Asks <= to + 1
        BY <2>1 DEF Pairs, Pair
      <3>3. CountIn(clients[a], {b}) <= to + 1
        BY <3>1, <3>2 DEF Supply
      <3> QED BY <3>3, SocketsAre
    <2>4. \A a \in WorkerA : binded[a] => clients[a] # <<>>
      BY <2>1 DEF Newcomers
    <2> QED BY <2>2, <2>3, <2>4 DEF SocketsPerBind
  <1> QED BY <1>1, MeshInvariance, PTL

\* When nothing is under way, no socket leads to a worker of B that is gone, unless a bind
\* crossed its birth or its retirement (graceful_kill, unbind_cluster_process, unbind_node).
THEOREM DeadUnbound == Spec => []DeadAreUnbound
  <1>1. ASSUME MeshInv PROVE DeadAreUnbound
    <2> SUFFICES ASSUME Settled, NEW a \in WorkerA, NEW b \in Range(clients[a]),
                        b \notin Range(poolB), b \notin crossed
                 PROVE  FALSE
      BY DEF DeadAreUnbound
    <2>1. MeshTypes /\ Pairs
      BY <1>1 DEF MeshInv
    <2>2. PICK q \in Seq(WorkerB) : q = clients[a]
      BY <2>1 DEF MeshTypes
    <2>3. PICK i \in DOMAIN q : q[i] = b
      BY <2>2 DEF Range
    <2>4. b \in WorkerB
      BY <2>2, <2>3, ElementOfSeq
    <2>5. ~ \A j \in DOMAIN q : q[j] \notin {b}
      BY <2>3
    <2>6. CountIn(q, {b}) # 0 /\ CountIn(q, {b}) \in Nat
      BY <2>5, CountNone, CountType
    <2>7. /\ CountIn(ipc[a], {BindNodeMsg(b)}) = 0 /\ CountIn(ipc[a], {UnbindNodeMsg(b)}) = 0
          /\ CountIn(back, Giving(b)) = 0 /\ CountIn(back, {Ucp(b)}) = 0
      BY CountEmpty DEF Settled
    <2>8. Supply(a, b) = CountIn(q, {b}) /\ Owed(a, b) = 0
      BY <2>2, <2>6, <2>7 DEF Supply, Owed
    <2>9. Pair(a, b)
      BY <2>1, <2>4 DEF Pairs
    <2>10. b \in retiring
      <3>1. b \in Known
        BY <2>6, <2>8, <2>9 DEF Pair
      <3> QED BY <3>1 DEF Known
    <2>11. Supply(a, b) <= Owed(a, b)
      BY <2>9, <2>10 DEF Pair
    <2> QED BY <2>6, <2>8, <2>11
  <1> QED BY <1>1, MeshInvariance, PTL

=============================================================================
