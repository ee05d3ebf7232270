------------------------- MODULE CollectRoundProofs -------------------------
(***************************************************************************)
(* The safety of CollectRound for any pools, rounds, additions and kills.  *)
(* A round is a count: a worker owes a round at most one answer (OneAsk),  *)
(* and the answers counted and those still owed are together no more than  *)
(* the workers asked (Counted), so the answer that makes them equal is the *)
(* last one.  An answer names a place; as long as no kill moves the pool   *)
(* the place is that of the worker who was asked (Places), so its answer   *)
(* is booked under itself.                                                 *)
(***************************************************************************)
EXTENDS CollectRound, FiniteSetTheorems, SequenceTheorems, TLAPS

(* The inductive invariant, by groups of variables. *)

PoolType ==
    /\ process_uid \in 1..(MaxUid + 1)
    /\ clusters \in [Cid -> Seq(1..(process_uid - 1)) \cup {Gone}]
    /\ \A c \in Cid : Here(c) => IsInjective(clusters[c])
    /\ \A c, d \in Cid : c # d => Pool(c) \cap Pool(d) = {}
    /\ adding \in [Cid -> Nat]
RoundType ==
    /\ collect_index \in 0..MaxRound
    /\ counter_array \in [Round -> Nat]
    /\ timers \subseteq 1..collect_index
BookType ==
    /\ collect_times \in [Round -> [Uid -> {"true", "false", "undefined"}]]
    /\ rcvd_index \in [Round -> Nat]
    /\ ended \in [Round -> Nat]
QueueType ==
    /\ ipc \in [Uid -> Seq(Ask)]
    /\ answers \in [Uid -> Seq(Ask)]

\* What a worker was asked and has not answered, and who owes a round.
Asks(w) == Range(ipc[w]) \cup Range(answers[w])
Owing(ci) == {w \in Uid : \E a \in Asks(w) : a.ci = ci}

\* Nothing of a round is there before it begins.
Ahead ==
    /\ \A w \in Uid : \A a \in Asks(w) : a.ci <= collect_index
    /\ \A ci \in Round : ci > collect_index => rcvd_index[ci] = 0 /\ ended[ci] = 0

\* A worker is asked once a round.
Apart(q) == \A i, j \in DOMAIN q : q[i].ci = q[j].ci => i = j
OneAsk ==
    \A w \in Uid :
        /\ Apart(ipc[w]) /\ Apart(answers[w])
        /\ \A a \in Range(ipc[w]), b \in Range(answers[w]) : a.ci # b.ci

Counted ==
    \A ci \in Round :
        /\ rcvd_index[ci] + Cardinality(Owing(ci)) <= counter_array[ci]
        /\ rcvd_index[ci] < counter_array[ci] \/ rcvd_index[ci] = 0
Done == \A ci \in Round : ended[ci] > 0 => ended[ci] = 1 /\ Owing(ci) = {}

\* The place in an answer is still that of the worker, unless the pool shifted.
Places ==
    \A w \in Uid : \A a \in Asks(w) : [ci |-> a.ci, cid |-> a.cid] \notin shifted =>
        Here(a.cid) /\ a.index \in DOMAIN clusters[a.cid] /\ clusters[a.cid][a.index] = w

\* A uid that was not handed out is not late.
Unborn == \A ci \in Round, u \in Uid : u >= process_uid => collect_times[ci][u] # "false"

IInv ==
    /\ PoolType /\ RoundType /\ BookType /\ QueueType
    /\ Ahead /\ OneAsk /\ Counted /\ Done /\ Places /\ Unborn /\ LateOwes

-----------------------------------------------------------------------------
(* Queues. *)

\* The members of a queue that grows by one.
LEMMA RangeAppend ==
    ASSUME NEW S, NEW q \in Seq(S), NEW e \in S
    PROVE  Append(q, e) \in Seq(S) /\ Range(Append(q, e)) = Range(q) \cup {e}
  <1>1. /\ Append(q, e) \in Seq(S) /\ Len(Append(q, e)) = Len(q) + 1 /\ Len(q) \in Nat
        /\ \A i \in 1..Len(q) : Append(q, e)[i] = q[i]
        /\ Append(q, e)[Len(q) + 1] = e
    BY AppendProperties
  <1>2. DOMAIN q = 1..Len(q) /\ DOMAIN Append(q, e) = 1..(Len(q) + 1)
    BY <1>1
  <1>3. \A i \in 1..(Len(q) + 1) : i = Len(q) + 1 \/ i \in 1..Len(q)
    BY <1>1
  <1>4. Range(Append(q, e)) \subseteq Range(q) \cup {e}
    BY <1>1, <1>2, <1>3 DEF Range
  <1>5. \A i \in 1..Len(q) : i \in 1..(Len(q) + 1)
    BY <1>1
  <1>6. Len(q) + 1 \in 1..(Len(q) + 1)
    BY <1>1
  <1>7. Range(q) \cup {e} \subseteq Range(Append(q, e))
    BY <1>1, <1>2, <1>5, <1>6 DEF Range
  <1> QED BY <1>1, <1>4, <1>7

\* The members of a queue are its head and those of its tail.
LEMMA RangeHeadTail ==
    ASSUME NEW S, NEW q \in Seq(S), q # <<>>
    PROVE  /\ Head(q) \in S /\ Tail(q) \in Seq(S)
           /\ Range(q) = {Head(q)} \cup Range(Tail(q))
  <1>1. /\ Head(q) \in S /\ Head(q) = q[1] /\ Tail(q) \in Seq(S)
        /\ Len(q) \in Nat \ {0} /\ Len(Tail(q)) = Len(q) - 1
        /\ \A i \in 1..(Len(q) - 1) : Tail(q)[i] = q[i + 1]
    BY HeadTailProperties
  <1>2. DOMAIN q = 1..Len(q) /\ DOMAIN Tail(q) = 1..(Len(q) - 1)
    BY <1>1
  <1>3. \A i \in 1..Len(q) : i = 1 \/ (i - 1 \in 1..(Len(q) - 1) /\ (i - 1) + 1 = i)
    BY <1>1
  <1>4. \A i \in 1..(Len(q) - 1) : i + 1 \in 1..Len(q)
    BY <1>1
  <1>5. 1 \in 1..Len(q)
    BY <1>1
  <1>6. Range(q) \subseteq {Head(q)} \cup Range(Tail(q))
    <2> SUFFICES ASSUME NEW i \in 1..Len(q) PROVE q[i] \in {Head(q)} \cup Range(Tail(q))
      BY <1>2 DEF Range
    <2>1. CASE i = 1
      BY <1>1, <2>1
    <2>2. CASE i # 1
      <3>1. i - 1 \in DOMAIN Tail(q) /\ Tail(q)[i - 1] = q[i]
        BY <1>1, <1>2, <1>3, <2>2
      <3> QED BY <3>1 DEF Range
    <2> QED BY <2>1, <2>2
  <1>7. {Head(q)} \cup Range(Tail(q)) \subseteq Range(q)
    BY <1>1, <1>2, <1>4, <1>5 DEF Range
  <1> QED BY <1>1, <1>6, <1>7

\* One that asks for another round may join the queue.
LEMMA ApartAppend ==
    ASSUME NEW S, NEW q \in Seq(S), NEW e \in S, Apart(q), \A a \in Range(q) : a.ci # e.ci
    PROVE  Apart(Append(q, e))
  <1>1. /\ Append(q, e) \in Seq(S) /\ Len(Append(q, e)) = Len(q) + 1 /\ Len(q) \in Nat
        /\ \A i \in 1..Len(q) : Append(q, e)[i] = q[i]
        /\ Append(q, e)[Len(q) + 1] = e
    BY AppendProperties
  <1>2. DOMAIN q = 1..Len(q) /\ DOMAIN Append(q, e) = 1..(Len(q) + 1)
    BY <1>1
  <1>3. \A i \in 1..Len(q) : q[i].ci # e.ci
    BY <1>2 DEF Range
  <1>4. \A i \in 1..(Len(q) + 1) : i = Len(q) + 1 \/ i \in 1..Len(q)
    BY <1>1
  <1> QED BY <1>1, <1>2, <1>3, <1>4 DEF Apart

\* The head's round is not asked for again in the tail.
LEMMA ApartTail ==
    ASSUME NEW S, NEW q \in Seq(S), q # <<>>, Apart(q)
    PROVE  Apart(Tail(q)) /\ \A a \in Range(Tail(q)) : a.ci # Head(q).ci
  <1>1. /\ Head(q) = q[1] /\ Tail(q) \in Seq(S)
        /\ Len(q) \in Nat \ {0} /\ Len(Tail(q)) = Len(q) - 1
        /\ \A i \in 1..(Len(q) - 1) : Tail(q)[i] = q[i + 1]
    BY HeadTailProperties
  <1>2. DOMAIN q = 1..Len(q) /\ DOMAIN Tail(q) = 1..(Len(q) - 1)
    BY <1>1
  <1>3. \A i \in 1..(Len(q) - 1) : i + 1 \in 1..Len(q) /\ i + 1 # 1 /\ 1 \in 1..Len(q)
    BY <1>1
  <1>4. \A i, j \in 1..(Len(q) - 1) : i + 1 = j + 1 => i = j
    OBVIOUS
  <1>5. Apart(Tail(q))
    BY <1>1, <1>2, <1>3, <1>4 DEF Apart
  <1>6. \A i \in 1..(Len(q) - 1) : Tail(q)[i].ci # Head(q).ci
    BY <1>1, <1>2, <1>3 DEF Apart
  <1> QED BY <1>2, <1>5, <1>6 DEF Range

\* A pool without one of its places: nobody is new in it or in it twice.
LEMMA RemoveAtPool ==
    ASSUME NEW S, NEW q \in Seq(S), NEW p \in DOMAIN q, IsInjective(q)
    PROVE  /\ RemoveAt(q, p) \in Seq(S)
           /\ Range(RemoveAt(q, p)) \subseteq Range(q)
           /\ IsInjective(RemoveAt(q, p))
  <1>1. DOMAIN q = 1..Len(q) /\ Len(q) \in Nat /\ p \in 1..Len(q) /\ \A i \in 1..Len(q) : q[i] \in S
    BY LenProperties, ElementOfSeq
  <1> DEFINE a == SubSeq(q, 1, p - 1)
             b == SubSeq(q, p + 1, Len(q))
             r == a \o b
  <1>2. /\ a \in Seq(S) /\ Len(a) = p - 1
        /\ \A i \in 1..(p - 1) : a[i] = q[i]
    <2>1. 1 \in Int /\ p - 1 \in Int /\ \A i \in 1..(p - 1) : q[i] \in S
      BY <1>1
    <2>2. /\ a \in Seq(S) /\ Len(a) = IF 1 <= p - 1 THEN (p - 1) - 1 + 1 ELSE 0
          /\ \A i \in 1..((p - 1) - 1 + 1) : a[i] = q[1 + i - 1]
      BY <2>1, SubSeqProperties
    <2> QED BY <1>1, <2>2
  <1>3. /\ b \in Seq(S) /\ Len(b) = Len(q) - p
        /\ \A i \in 1..(Len(q) - p) : b[i] = q[p + i]
    <2>1. p + 1 \in Int /\ Len(q) \in Int /\ \A i \in (p + 1)..Len(q) : q[i] \in S
      BY <1>1
    <2>2. /\ b \in Seq(S) /\ Len(b) = IF p + 1 <= Len(q) THEN Len(q) - (p + 1) + 1 ELSE 0
          /\ \A i \in 1..(Len(q) - (p + 1) + 1) : b[i] = q[p + 1 + i - 1]
      BY <2>1, SubSeqProperties
    <2>3. Len(q) - (p + 1) + 1 = Len(q) - p /\ (~ (p + 1 <= Len(q)) => Len(q) - p = 0)
      BY <1>1
    <2>4. \A i \in 1..(Len(q) - p) : p + 1 + i - 1 = p + i
      BY <1>1
    <2> HIDE DEF b
    <2> QED BY <2>2, <2>3, <2>4
  <1> HIDE DEF a, b
  <1>4. /\ r \in Seq(S) /\ Len(r) = Len(q) - 1
        /\ \A i \in 1..(Len(q) - 1) : r[i] = IF i < p THEN q[i] ELSE q[i + 1]
    <2>1. /\ r \in Seq(S) /\ Len(r) = Len(a) + Len(b)
          /\ \A i \in 1..(Len(a) + Len(b)) : r[i] = IF i <= Len(a) THEN a[i] ELSE b[i - Len(a)]
      BY <1>2, <1>3, ConcatProperties
    <2>2. ASSUME NEW i \in 1..(Len(q) - 1) PROVE r[i] = IF i < p THEN q[i] ELSE q[i + 1]
      <3>1. CASE i < p
        BY <1>1, <1>2, <1>3, <2>1, <3>1
      <3>2. CASE ~ (i < p)
        <4>1. i - (p - 1) \in 1..(Len(q) - p) /\ p + (i - (p - 1)) = i + 1
          BY <1>1, <3>2
        <4>2. r[i] = b[i - (p - 1)]
          BY <1>1, <1>2, <1>3, <2>1, <3>2
        <4> QED BY <1>3, <3>2, <4>1, <4>2
      <3> QED BY <3>1, <3>2
    <2> QED BY <1>1, <1>2, <1>3, <2>1, <2>2
  <1>5. RemoveAt(q, p) = r
    BY DEF RemoveAt, a, b
  <1> HIDE DEF r
  <1>6. DOMAIN r = 1..(Len(q) - 1)
    BY <1>4
  <1> DEFINE from(i) == IF i < p THEN i ELSE i + 1
  <1>7. \A i \in 1..(Len(q) - 1) : from(i) \in 1..Len(q) /\ r[i] = q[from(i)]
    BY <1>1, <1>4
  <1>8. \A i, j \in 1..(Len(q) - 1) : from(i) = from(j) => i = j
    BY <1>1
  <1> HIDE DEF from
  <1>9. Range(r) \subseteq Range(q)
    BY <1>1, <1>6, <1>7 DEF Range
  <1>10. IsInjective(r)
    BY <1>1, <1>6, <1>7, <1>8 DEF IsInjective
  <1> QED BY <1>4, <1>5, <1>9, <1>10

-----------------------------------------------------------------------------
(* Pools and places. *)

\* A pool that is there consists of uids that were handed out.
LEMMA PoolMembers ==
    ASSUME PoolType, NEW c \in Cid
    PROVE  /\ Pool(c) \subseteq 1..(process_uid - 1) /\ Pool(c) \subseteq Uid
           /\ Here(c) => /\ clusters[c] \in Seq(1..(process_uid - 1))
                         /\ Pool(c) = Range(clusters[c])
  <1>1. 1..(process_uid - 1) \subseteq Uid
    BY BoundAssumption DEF PoolType, Uid
  <1>2. CASE Here(c)
    <2>1. clusters[c] \in Seq(1..(process_uid - 1)) /\ Pool(c) = Range(clusters[c])
      BY <1>2 DEF PoolType, Here, Pool
    <2>2. Range(clusters[c]) \subseteq 1..(process_uid - 1)
      BY <2>1, RangeOfSeq
    <2> QED BY <1>1, <2>1, <2>2
  <1>3. CASE ~ Here(c)
    BY <1>3 DEF Pool
  <1> QED BY <1>2, <1>3

\* The place collect_data names in what it asks of a worker.
LEMMA PlaceNamed ==
    ASSUME PoolType, NEW c \in Cid, NEW w \in Pool(c), NEW ci \in Round
    PROVE  /\ PlaceOf(w, ci) \in Ask
           /\ PlaceOf(w, ci).ci = ci /\ PlaceOf(w, ci).cid = c
           /\ Here(c) /\ PlaceOf(w, ci).index \in DOMAIN clusters[c]
           /\ clusters[c][PlaceOf(w, ci).index] = w
  <1>1. Here(c) /\ w \in Range(clusters[c])
    BY DEF Pool
  <1>2. (CHOOSE d \in Cid : w \in Pool(d)) = c
    BY DEF PoolType
  <1> DEFINE k == CHOOSE i \in DOMAIN clusters[c] : clusters[c][i] = w
  <1>3. k \in DOMAIN clusters[c] /\ clusters[c][k] = w
    BY <1>1 DEF Range
  <1>4. PlaceOf(w, ci) = [ci |-> ci, cid |-> c, index |-> k]
    BY <1>2 DEF PlaceOf
  <1> HIDE DEF k
  <1>5. k \in 1..MaxUid
    <2> DEFINE n == Len(clusters[c])
    <2>1. /\ clusters[c] \in Seq(1..(process_uid - 1)) /\ IsInjective(clusters[c])
      BY <1>1, PoolMembers DEF PoolType
    <2>2. n \in Nat /\ DOMAIN clusters[c] = 1..n /\ clusters[c] \in [1..n -> 1..(process_uid - 1)]
      BY <2>1, LenProperties
    <2>3. clusters[c] \in Injection(1..n, 1..(process_uid - 1))
      BY <2>1, <2>2 DEF Injection
    <2>4. process_uid - 1 \in Nat /\ process_uid - 1 <= MaxUid
      BY BoundAssumption DEF PoolType
    <2> HIDE DEF n
    <2>5. IsFiniteSet(1..(process_uid - 1)) /\ Cardinality(1..(process_uid - 1)) = process_uid - 1
      BY <2>4, FS_Interval
    <2>6. Cardinality(1..n) = n
      BY <2>2, FS_Interval
    <2>7. Cardinality(1..n) <= Cardinality(1..(process_uid - 1))
      BY <2>3, <2>5, FS_Injection
    <2> QED BY <1>3, <2>2, <2>4, <2>5, <2>6, <2>7, BoundAssumption
  <1> QED BY <1>1, <1>3, <1>4, <1>5 DEF Ask

\* An answer owed is one of the asks of the worker, before and after a step.
LEMMA OwesAsks ==
    \A w, ci, c : /\ Owes(w, ci, c) <=> \E a \in Asks(w) : a.ci = ci /\ a.cid = c
                  /\ Owes(w, ci, c)' <=> \E a \in Asks(w)' : a.ci = ci /\ a.cid = c
  BY DEF Owes, Asks, Range

\* What LateOwes says after a step.
LEMMA LateOwesNext ==
    ASSUME \A ci \in timers', c \in Cid : [ci |-> ci, cid |-> c] \notin shifted' =>
               \A w \in Pool(c)' : collect_times'[ci][w] = "false" =>
                   \E a \in Asks(w)' : a.ci = ci /\ a.cid = c
    PROVE  LateOwes'
  <1> SUFFICES ASSUME NEW ci \in timers', NEW c \in Cid, [ci |-> ci, cid |-> c] \notin shifted',
                      NEW w \in Late(ci, c)'
               PROVE  Owes(w, ci, c)'
    BY DEF LateOwes
  <1>1. w \in Pool(c)' /\ collect_times'[ci][w] = "false"
    BY DEF Late
  <1>2. \E a \in Asks(w)' : a.ci = ci /\ a.cid = c
    BY <1>1
  <1> QED BY <1>2, OwesAsks

\* A timer is that of a round.
LEMMA TimersRounds == ASSUME RoundType PROVE timers \subseteq Round
  <1>1. \A k \in timers : k \in 1..collect_index /\ collect_index \in 0..MaxRound
    BY DEF RoundType
  <1> QED BY <1>1, BoundAssumption DEF Round

\* Every ask has its fields.
LEMMA AskFields ==
    ASSUME QueueType, NEW w \in Uid, NEW a \in Asks(w)
    PROVE  a \in Ask /\ a.ci \in Round /\ a.cid \in Cid
  <1>1. Range(ipc[w]) \subseteq Ask /\ Range(answers[w]) \subseteq Ask
    BY RangeOfSeq DEF QueueType
  <1>2. a \in Ask
    BY <1>1 DEF Asks
  <1> QED BY <1>2 DEF Ask

\* Those who owe a round are finitely many.
LEMMA OwingFinite ==
    ASSUME NEW ci PROVE IsFiniteSet(Owing(ci)) /\ Cardinality(Owing(ci)) \in Nat
  <1>1. IsFiniteSet(Uid)
    BY BoundAssumption, FS_Interval DEF Uid
  <1>2. Owing(ci) \subseteq Uid
    BY DEF Owing
  <1> QED BY <1>1, <1>2, FS_Subset, FS_CardinalityType

\* What a step on the pools or timers leaves alone.
LEMMA SameQueues ==
    ASSUME UNCHANGED <<ipc, answers>>
    PROVE  /\ \A w : Asks(w)' = Asks(w)
           /\ \A ci : Owing(ci)' = Owing(ci)
           /\ QueueType => QueueType'
           /\ OneAsk => OneAsk'
  BY DEF Asks, Owing, QueueType, OneAsk

LEMMA SameBooks ==
    ASSUME IInv, UNCHANGED <<ipc, answers, bookVars, collect_index, counter_array>>
    PROVE  BookType' /\ QueueType' /\ Ahead' /\ OneAsk' /\ Counted' /\ Done'
  <1> USE SameQueues DEF IInv, bookVars
  <1>1. BookType' /\ QueueType' /\ OneAsk'
    BY DEF BookType
  <1>2. Ahead'
    BY DEF Ahead
  <1>3. Counted'
    BY DEF Counted
  <1>4. Done'
    BY DEF Done
  <1> QED BY <1>1, <1>2, <1>3, <1>4

-----------------------------------------------------------------------------
(* Initial states. *)

LEMMA IInvInit == Init => IInv
  <1> SUFFICES ASSUME Init PROVE IInv
    OBVIOUS
  <1> USE DEF Init
  <1>1. IsFiniteSet(Uid) /\ Cardinality(Uid) = MaxUid
    BY BoundAssumption, FS_Interval DEF Uid
  <1>2. StartUids \subseteq Uid
    <2> SUFFICES ASSUME NEW c \in Cid, Start[c] # Gone PROVE Range(Start[c]) \subseteq Uid
      BY DEF StartUids
    <2>1. Start[c] \in Seq(Uid)
      BY StartAssumption
    <2> QED BY <2>1, RangeOfSeq
  <1>3. Cardinality(StartUids) \in Nat /\ Cardinality(StartUids) <= MaxUid
    BY <1>1, <1>2, FS_Subset, FS_CardinalityType
  <1>4. process_uid - 1 = Cardinality(StartUids) /\ process_uid \in 1..(MaxUid + 1)
    BY <1>3, BoundAssumption
  <1>5. PoolType
    <2>1. ASSUME NEW c \in Cid, Start[c] # Gone PROVE Start[c] \in Seq(1..(process_uid - 1))
      <3>1. Start[c] \in Seq(Uid) /\ Range(Start[c]) \subseteq StartUids
        BY <2>1, StartAssumption DEF StartUids
      <3>2. Start[c] \in Seq(Range(Start[c]))
        BY <3>1, SeqOfRange
      <3>3. StartUids = 1..(process_uid - 1)
        BY <1>4, StartAssumption
      <3> QED BY <3>1, <3>2, <3>3, SeqMonotonic
    <2>2. clusters \in [Cid -> Seq(1..(process_uid - 1)) \cup {Gone}]
      BY <2>1, StartAssumption
    <2>3. \A c, d \in Cid : c # d => Pool(c) \cap Pool(d) = {}
      BY StartAssumption DEF Pool, Here
    <2> QED BY <1>4, <2>2, <2>3, StartAssumption DEF PoolType, Here
  <1>6. RoundType /\ BookType
    BY BoundAssumption DEF RoundType, BookType
  <1>7. QueueType
    <2>1. <<>> \in Seq(Ask)
      BY EmptySeq
    <2> QED BY <2>1 DEF QueueType
  <1>8. \A w \in Uid : Range(ipc[w]) = {} /\ Range(answers[w]) = {}
    BY DEF Range
  <1>9. \A w \in Uid : Asks(w) = {}
    BY <1>8 DEF Asks
  <1>10. \A ci \in Round : Owing(ci) = {} /\ Cardinality(Owing(ci)) = 0
    BY <1>9, FS_EmptySet DEF Owing
  <1>11. Ahead
    BY <1>9 DEF Ahead
  <1>12. OneAsk
    BY <1>8 DEF OneAsk, Apart
  <1>13. Counted /\ Done
    BY <1>10 DEF Counted, Done
  <1>14. Places /\ Unborn /\ LateOwes
    BY <1>9 DEF Places, Unborn, LateOwes
  <1> QED BY <1>5, <1>6, <1>7, <1>11, <1>12, <1>13, <1>14 DEF IInv

-----------------------------------------------------------------------------
(* Rounds. *)

LEMMA CollectDataStep == ASSUME IInv, CollectData PROVE IInv'
  <1> DEFINE asked == UNION {Pool(c) : c \in Cid}
             watched == UNION {Pool(c) : c \in Cid \ Producer}
  <1> USE DEF IInv
  <1>1. PICK ci \in Round : ci = collect_index + 1 /\ ci \in Nat /\ collect_index \in Nat
    BY BoundAssumption DEF RoundType, Round, CollectData
  <1>2. /\ collect_index < MaxRound /\ collect_index' = ci
        /\ counter_array' = [counter_array EXCEPT ![ci] = Cardinality(asked)]
        /\ collect_times' = [collect_times EXCEPT ![ci] =
               [w \in Uid |-> IF w \in watched THEN "false" ELSE "undefined"]]
        /\ timers' = timers \cup {ci}
        /\ ipc' = [w \in Uid |-> IF w \in asked THEN Append(ipc[w], PlaceOf(w, ci)) ELSE ipc[w]]
        /\ UNCHANGED <<poolVars, rcvd_index, ended, answers, shifted, lost>>
    BY <1>1 DEF CollectData
  <1>3. UNCHANGED <<clusters, process_uid, adding>> /\ \A c : Pool(c)' = Pool(c) /\ Here(c)' = Here(c)
    BY <1>2 DEF poolVars, Pool, Here
  <1>4. asked \subseteq Uid /\ watched \subseteq asked
    BY PoolMembers
  <1>5. \A w \in asked : /\ PlaceOf(w, ci) \in Ask /\ PlaceOf(w, ci).ci = ci
                         /\ \A c \in Cid : w \in Pool(c) => PlaceOf(w, ci).cid = c
    BY <1>1, PlaceNamed
  <1>6. \A w \in Uid : ipc[w] \in Seq(Ask)
    BY DEF QueueType
  <1>7. ASSUME NEW w \in Uid
        PROVE  /\ w \in asked => /\ ipc[w]' \in Seq(Ask) /\ Range(ipc[w])' = Range(ipc[w]) \cup {PlaceOf(w, ci)}
                                 /\ Asks(w)' = Asks(w) \cup {PlaceOf(w, ci)}
               /\ w \notin asked => ipc[w]' = ipc[w] /\ Asks(w)' = Asks(w)
               /\ answers[w]' = answers[w]
    <2>1. CASE w \in asked
      <3>1. ipc'[w] = Append(ipc[w], PlaceOf(w, ci))
        BY <1>2, <2>1
      <3>2. ipc'[w] \in Seq(Ask) /\ Range(ipc'[w]) = Range(ipc[w]) \cup {PlaceOf(w, ci)}
        BY <1>5, <1>6, <2>1, <3>1, RangeAppend
      <3> QED BY <1>2, <2>1, <3>2 DEF Asks
    <2>2. CASE w \notin asked
      BY <1>2, <2>2 DEF Asks
    <2> QED BY <2>1, <2>2
  <1> HIDE DEF asked, watched
  <1>8. \A w \in Uid, k \in Round : k # ci => (\E a \in Asks(w)' : a.ci = k) = (\E a \in Asks(w) : a.ci = k)
    BY <1>5, <1>7
  <1>9. \A w \in Uid : \A a \in Asks(w) : a.ci # ci
    BY <1>1, AskFields DEF Ahead, Round
  <1>10. \A k \in Round : k # ci => Owing(k)' = Owing(k)
    BY <1>8 DEF Owing
  <1>11. Owing(ci)' = asked
    <2>1. \A w \in Uid : (\E a \in Asks(w)' : a.ci = ci) <=> w \in asked
      BY <1>5, <1>7, <1>9
    <2> QED BY <1>4, <2>1 DEF Owing
  <1>12. PoolType'
    BY <1>3 DEF PoolType
  <1>13. RoundType'
    <2>1. IsFiniteSet(Uid)
      BY BoundAssumption, FS_Interval DEF Uid
    <2>2. Cardinality(asked) \in Nat
      BY <1>4, <2>1, FS_Subset, FS_CardinalityType
    <2>3. collect_index' \in 0..MaxRound
      BY <1>2, <1>1 DEF Round
    <2>4. timers' \subseteq 1..collect_index'
      BY <1>2, <1>1 DEF RoundType, Round
    <2> QED BY <1>2, <2>2, <2>3, <2>4 DEF RoundType
  <1>14. BookType'
    BY <1>2 DEF BookType
  <1>15. QueueType'
    <2>1. \A w \in Uid : ipc'[w] \in Seq(Ask)
      BY <1>6, <1>7
    <2> QED BY <1>2, <2>1 DEF QueueType
  <1>16. Ahead'
    <2>1. \A w \in Uid : \A a \in Asks(w)' : a.ci <= ci
      BY <1>1, <1>5, <1>7, AskFields DEF Ahead, Round
    <2>2. \A k \in Round : k > ci => k > collect_index
      BY <1>1 DEF Round
    <2> QED BY <1>2, <2>1, <2>2 DEF Ahead
  <1>17. OneAsk'
    <2> SUFFICES ASSUME NEW w \in Uid
                 PROVE  /\ Apart(ipc'[w]) /\ Apart(answers'[w])
                        /\ \A a \in Range(ipc'[w]), b \in Range(answers'[w]) : a.ci # b.ci
      BY DEF OneAsk
    <2>1. CASE w \in asked
      <3>1. Apart(ipc'[w])
        <4>1. \A a \in Range(ipc[w]) : a.ci # PlaceOf(w, ci).ci
          BY <1>5, <1>9, <2>1 DEF Asks
        <4>2. ipc'[w] = Append(ipc[w], PlaceOf(w, ci))
          BY <1>2, <2>1
        <4> QED BY <1>5, <1>6, <2>1, <4>1, <4>2, ApartAppend DEF OneAsk
      <3> QED BY <1>5, <1>7, <1>9, <2>1, <3>1 DEF OneAsk, Asks
    <2>2. CASE w \notin asked
      BY <1>7, <2>2 DEF OneAsk
    <2> QED BY <2>1, <2>2
  <1>18. Counted' /\ Done'
    <2>1. ASSUME NEW k \in Round, k # ci
          PROVE  /\ rcvd_index'[k] + Cardinality(Owing(k)') <= counter_array'[k]
                 /\ rcvd_index'[k] < counter_array'[k] \/ rcvd_index'[k] = 0
                 /\ ended'[k] > 0 => ended'[k] = 1 /\ Owing(k)' = {}
      BY <1>2, <1>10, <2>1 DEF Counted, Done, RoundType
    <2>2. /\ rcvd_index'[ci] + Cardinality(Owing(ci)') <= counter_array'[ci]
          /\ rcvd_index'[ci] = 0 /\ ~ (ended'[ci] > 0)
      <3>1. rcvd_index'[ci] = 0 /\ ended'[ci] = 0
        BY <1>2, <1>1 DEF Ahead
      <3>2. counter_array'[ci] = Cardinality(Owing(ci)')
        BY <1>2, <1>1, <1>11 DEF RoundType
      <3>3. Cardinality(Owing(ci)') \in Nat
        BY <3>2, <1>13, <1>1 DEF RoundType
      <3> QED BY <3>1, <3>2, <3>3
    <2>3. ASSUME NEW k \in Round
          PROVE  /\ rcvd_index'[k] + Cardinality(Owing(k)') <= counter_array'[k]
                 /\ rcvd_index'[k] < counter_array'[k] \/ rcvd_index'[k] = 0
                 /\ ended'[k] > 0 => ended'[k] = 1 /\ Owing(k)' = {}
      BY <2>1, <2>2
    <2> QED BY <2>3 DEF Counted, Done
  <1>19. Places'
    <2> SUFFICES ASSUME NEW w \in Uid, NEW a \in Asks(w)', [ci |-> a.ci, cid |-> a.cid] \notin shifted
                 PROVE  Here(a.cid) /\ a.index \in DOMAIN clusters[a.cid] /\ clusters[a.cid][a.index] = w
      BY <1>2, <1>3 DEF Places
    <2>1. CASE a \in Asks(w)
      BY <2>1 DEF Places
    <2>2. CASE a \notin Asks(w)
      <3>1. w \in asked /\ a = PlaceOf(w, ci)
        BY <1>7, <2>2
      <3>2. PICK c \in Cid : w \in Pool(c)
        BY <3>1 DEF asked
      <3> QED BY <1>1, <3>1, <3>2, PlaceNamed
    <2> QED BY <2>1, <2>2
  <1>20. Unborn'
    <2>1. \A u \in Uid : u >= process_uid => u \notin watched
      <3> SUFFICES ASSUME NEW u \in Uid, u >= process_uid, NEW c \in Cid, u \in Pool(c) PROVE FALSE
        BY DEF watched
      <3>1. u \in 1..(process_uid - 1)
        BY PoolMembers
      <3> QED BY <3>1 DEF PoolType
    <2> QED BY <1>2, <1>1, <1>3, <2>1 DEF Unborn, BookType
  <1>21. LateOwes'
    <2> SUFFICES ASSUME NEW k \in timers', NEW c \in Cid, [ci |-> k, cid |-> c] \notin shifted,
                        NEW w \in Pool(c), collect_times'[k][w] = "false"
                 PROVE  \E a \in Asks(w)' : a.ci = k /\ a.cid = c
      BY <1>2, <1>3, LateOwesNext
    <2>1. w \in Uid
      BY PoolMembers
    <2>2. CASE k = ci
      <3>1. w \in watched
        BY <1>2, <1>1, <2>1, <2>2 DEF BookType
      <3>2. w \in asked
        BY <1>4, <3>1
      <3> QED BY <1>5, <1>7, <2>1, <2>2, <3>2
    <2>3. CASE k # ci
      <3>1. k \in timers /\ k \in Round /\ collect_times[k][w] = "false"
        BY <1>2, <2>3, BoundAssumption DEF RoundType, BookType, Round
      <3>2. Owes(w, k, c)
        BY <3>1 DEF LateOwes, Late
      <3> QED BY <1>7, <2>1, <3>2, OwesAsks
    <2> QED BY <2>2, <2>3
  <1> QED BY <1>12, <1>13, <1>14, <1>15, <1>16, <1>17, <1>18, <1>19, <1>20, <1>21

\* A worker's answer moves from one of its queues to the other.
LEMMA AnswerStep == ASSUME IInv, NEW w \in Uid, Answer(w) PROVE IInv'
  <1> USE DEF IInv
  <1>1. /\ ipc[w] # <<>> /\ ipc' = [ipc EXCEPT ![w] = Tail(ipc[w])]
        /\ answers' = [answers EXCEPT ![w] = Append(answers[w], Head(ipc[w]))]
        /\ UNCHANGED <<poolVars, roundVars, bookVars, shifted, lost>>
    BY DEF Answer
  <1>2. /\ UNCHANGED <<clusters, process_uid, adding, collect_index, counter_array, timers>>
        /\ UNCHANGED <<collect_times, rcvd_index, ended>>
        /\ \A c : Pool(c)' = Pool(c) /\ Here(c)' = Here(c)
    BY <1>1 DEF poolVars, roundVars, bookVars, Pool, Here
  <1>3. ipc[w] \in Seq(Ask) /\ answers[w] \in Seq(Ask) /\ ipc'[w] = Tail(ipc[w])
        /\ answers'[w] = Append(answers[w], Head(ipc[w]))
    BY <1>1 DEF QueueType
  <1>4. /\ Head(ipc[w]) \in Ask /\ Tail(ipc[w]) \in Seq(Ask)
        /\ Range(ipc[w]) = {Head(ipc[w])} \cup Range(Tail(ipc[w]))
    BY <1>1, <1>3, RangeHeadTail
  <1>5. /\ Append(answers[w], Head(ipc[w])) \in Seq(Ask)
        /\ Range(Append(answers[w], Head(ipc[w]))) = Range(answers[w]) \cup {Head(ipc[w])}
    BY <1>3, <1>4, RangeAppend
  <1>6. \A u \in Uid : u # w => ipc'[u] = ipc[u] /\ answers'[u] = answers[u]
    BY <1>1 DEF QueueType
  <1>7. \A u \in Uid : Asks(u)' = Asks(u)
    BY <1>3, <1>4, <1>5, <1>6 DEF Asks
  <1>8. \A ci : Owing(ci)' = Owing(ci)
    BY <1>7 DEF Owing
  <1>9. PoolType' /\ RoundType' /\ BookType'
    BY <1>2 DEF PoolType, RoundType, BookType
  <1>10. QueueType'
    BY <1>1, <1>4, <1>5 DEF QueueType
  <1>11. Ahead'
    BY <1>2, <1>7 DEF Ahead
  <1>12. OneAsk'
    <2> SUFFICES ASSUME NEW u \in Uid
                 PROVE  /\ Apart(ipc'[u]) /\ Apart(answers'[u])
                        /\ \A a \in Range(ipc'[u]), b \in Range(answers'[u]) : a.ci # b.ci
      BY DEF OneAsk
    <2>1. CASE u = w
      <3>1. Apart(Tail(ipc[w])) /\ \A a \in Range(Tail(ipc[w])) : a.ci # Head(ipc[w]).ci
        BY <1>1, <1>3, ApartTail DEF OneAsk
      <3>2. \A b \in Range(answers[w]) : b.ci # Head(ipc[w]).ci
        BY <1>4 DEF OneAsk
      <3>3. Apart(Append(answers[w], Head(ipc[w])))
        BY <1>3, <1>4, <3>2, ApartAppend DEF OneAsk
      <3>4. \A a \in Range(Tail(ipc[w])), b \in Range(answers[w]) : a.ci # b.ci
        BY <1>4 DEF OneAsk
      <3> QED BY <1>3, <1>5, <2>1, <3>1, <3>3, <3>4
    <2>2. CASE u # w
      BY <1>6, <2>2 DEF OneAsk
    <2> QED BY <2>1, <2>2
  <1>13. Counted' /\ Done'
    BY <1>2, <1>8 DEF Counted, Done
  <1>14. Places' /\ Unborn'
    BY <1>1, <1>2, <1>7 DEF Places, Unborn
  <1>15. LateOwes'
    <2> SUFFICES ASSUME NEW ci \in timers, NEW c \in Cid, [ci |-> ci, cid |-> c] \notin shifted,
                        NEW u \in Pool(c), collect_times[ci][u] = "false"
                 PROVE  \E a \in Asks(u)' : a.ci = ci /\ a.cid = c
      BY <1>1, <1>2, LateOwesNext
    <2>1. u \in Uid
      BY PoolMembers
    <2>2. Owes(u, ci, c)
      BY DEF LateOwes, Late
    <2> QED BY <1>7, <2>1, <2>2, OwesAsks
  <1> QED BY <1>9, <1>10, <1>11, <1>12, <1>13, <1>14, <1>15

\* An answer that arrives is taken off what the worker owes, and it is the only
\* one of its round.
LEMMA AnswerTaken ==
    ASSUME IInv, NEW w \in Uid, DataCollectCb(w)
    PROVE  LET a == Head(answers[w]) IN
           /\ a \in Ask /\ a \in Asks(w) /\ a \notin Asks(w)'
           /\ Asks(w) = {a} \cup Asks(w)' /\ \A b \in Asks(w)' : b.ci # a.ci
           /\ \A u \in Uid : u # w => Asks(u)' = Asks(u)
           /\ QueueType' /\ OneAsk'
  <1> DEFINE a == Head(answers[w])
  <1>1. /\ answers[w] # <<>> /\ answers' = [answers EXCEPT ![w] = Tail(answers[w])] /\ ipc' = ipc
    BY DEF DataCollectCb
  <1>2. QueueType /\ OneAsk
    BY DEF IInv
  <1>3. ipc[w] \in Seq(Ask) /\ answers[w] \in Seq(Ask) /\ answers'[w] = Tail(answers[w])
    BY <1>1, <1>2 DEF QueueType
  <1>4. /\ a \in Ask /\ Tail(answers[w]) \in Seq(Ask)
        /\ Range(answers[w]) = {a} \cup Range(Tail(answers[w]))
    BY <1>1, <1>3, RangeHeadTail
  <1>5. Apart(Tail(answers[w])) /\ \A b \in Range(Tail(answers[w])) : b.ci # a.ci
    BY <1>1, <1>2, <1>3, ApartTail DEF OneAsk
  <1>6. \A b \in Range(ipc[w]) : b.ci # a.ci
    BY <1>2, <1>4 DEF OneAsk
  <1> HIDE DEF a
  <1>7. \A u \in Uid : u # w => answers'[u] = answers[u]
    BY <1>1, <1>2 DEF QueueType
  <1>8. QueueType'
    BY <1>1, <1>2, <1>4 DEF QueueType
  <1>9. OneAsk'
    BY <1>1, <1>2, <1>3, <1>4, <1>5, <1>7 DEF OneAsk
  <1>10. /\ a \in Asks(w) /\ Asks(w)' = Range(ipc[w]) \cup Range(Tail(answers[w]))
         /\ \A u \in Uid : u # w => Asks(u)' = Asks(u)
    BY <1>1, <1>3, <1>4, <1>7 DEF Asks
  <1>11. Asks(w) = {a} \cup Asks(w)' /\ \A b \in Asks(w)' : b.ci # a.ci
    BY <1>4, <1>5, <1>6, <1>10 DEF Asks
  <1> QED BY <1>4, <1>8, <1>9, <1>10, <1>11 DEF a

LEMMA DataCollectCbStep == ASSUME IInv, NEW w \in Uid, DataCollectCb(w) PROVE IInv'
  <1> DEFINE booked(b) == IF Place(b) \in DOMAIN clusters[b.cid] THEN {clusters[b.cid][Place(b)]} ELSE {}
  <1> USE DEF IInv
  <1>1. PICK a : a = Head(answers[w])
    OBVIOUS
  <1>2. /\ a \in Ask /\ a \in Asks(w) /\ Asks(w) = {a} \cup Asks(w)' /\ \A b \in Asks(w)' : b.ci # a.ci
        /\ \A u \in Uid : u # w => Asks(u)' = Asks(u)
        /\ QueueType' /\ OneAsk'
    BY <1>1, AnswerTaken
  <1>3. /\ IF Here(a.cid)
           THEN /\ collect_times' = [collect_times EXCEPT ![a.ci] =
                       [u \in Uid |-> IF u \in booked(a) THEN "true" ELSE collect_times[a.ci][u]]]
                /\ IF LastAnswer(a.ci)
                   THEN ended' = [ended EXCEPT ![a.ci] = @ + 1] /\ UNCHANGED rcvd_index
                   ELSE rcvd_index' = [rcvd_index EXCEPT ![a.ci] = @ + 1] /\ UNCHANGED ended
           ELSE UNCHANGED bookVars
        /\ UNCHANGED <<poolVars, roundVars, ipc, shifted, lost>>
    <2>1. collect_times \in [Round -> [Uid -> {"true", "false", "undefined"}]]
      BY DEF BookType
    <2> QED BY <1>1, <2>1 DEF DataCollectCb
  <1> HIDE DEF booked
  <1>4. /\ UNCHANGED <<clusters, process_uid, adding, collect_index, counter_array, timers, shifted>>
        /\ \A c : Pool(c)' = Pool(c) /\ Here(c)' = Here(c)
    BY <1>3 DEF poolVars, roundVars, Pool, Here
  <1>5. a.ci \in Round /\ a.cid \in Cid /\ a.ci \in Nat
    BY <1>2 DEF Ask, Round
  <1>6. \A u \in Uid : \A b \in Asks(u)' : b \in Asks(u)
    BY <1>2
  <1>7. \A ci \in Round : ci # a.ci => Owing(ci)' = Owing(ci)
    <2>1. \A u \in Uid, ci \in Round : ci # a.ci => (\E b \in Asks(u)' : b.ci = ci) = (\E b \in Asks(u) : b.ci = ci)
      BY <1>2
    <2> QED BY <2>1 DEF Owing
  <1>8. Owing(a.ci) = {w} \cup Owing(a.ci)' /\ w \notin Owing(a.ci)'
    <2>1. \A u \in Uid : u # w => (\E b \in Asks(u)' : b.ci = a.ci) = (\E b \in Asks(u) : b.ci = a.ci)
      BY <1>2
    <2>2. ~ (\E b \in Asks(w)' : b.ci = a.ci) /\ \E b \in Asks(w) : b.ci = a.ci
      BY <1>2
    <2> QED BY <2>1, <2>2 DEF Owing
  <1>9. /\ Cardinality(Owing(a.ci)') \in Nat /\ IsFiniteSet(Owing(a.ci)')
        /\ Cardinality(Owing(a.ci)) = Cardinality(Owing(a.ci)') + 1
    <2>1. IsFiniteSet(Owing(a.ci)) /\ Owing(a.ci)' = Owing(a.ci) \ {w} /\ w \in Owing(a.ci)
      BY <1>8, OwingFinite
    <2>2. IsFiniteSet(Owing(a.ci)') /\ Cardinality(Owing(a.ci)') = Cardinality(Owing(a.ci)) - 1
      BY <2>1, FS_RemoveElement
    <2>3. Cardinality(Owing(a.ci)') \in Nat /\ Cardinality(Owing(a.ci)) \in Nat
      BY <2>2, OwingFinite, FS_CardinalityType
    <2> QED BY <2>2, <2>3
  <1>10. PoolType' /\ RoundType'
    BY <1>4 DEF PoolType, RoundType
  <1>11. BookType'
    BY <1>3, <1>5 DEF BookType, bookVars
  <1>12. Ahead'
    <2>1. a.ci <= collect_index
      BY <1>2 DEF Ahead
    <2>2. \A u \in Uid : \A b \in Asks(u)' : b.ci <= collect_index
      BY <1>6 DEF Ahead
    <2>3. \A ci \in Round : ci > collect_index => rcvd_index'[ci] = 0 /\ ended'[ci] = 0
      <3> SUFFICES ASSUME NEW ci \in Round, ci > collect_index PROVE rcvd_index'[ci] = 0 /\ ended'[ci] = 0
        OBVIOUS
      <3>1. ci # a.ci /\ rcvd_index[ci] = 0 /\ ended[ci] = 0
        BY <1>5, <2>1 DEF Ahead, Round, RoundType
      <3> QED BY <1>3, <3>1 DEF BookType, bookVars
    <2> QED BY <1>4, <2>2, <2>3 DEF Ahead
  <1>13. Counted'
    <2> SUFFICES ASSUME NEW ci \in Round
                 PROVE  /\ rcvd_index'[ci] + Cardinality(Owing(ci)') <= counter_array[ci]
                        /\ rcvd_index'[ci] < counter_array[ci] \/ rcvd_index'[ci] = 0
      BY <1>4 DEF Counted
    <2>1. /\ rcvd_index[ci] + Cardinality(Owing(ci)) <= counter_array[ci]
          /\ rcvd_index[ci] < counter_array[ci] \/ rcvd_index[ci] = 0
          /\ rcvd_index[ci] \in Nat /\ counter_array[ci] \in Nat
      BY DEF Counted, BookType, RoundType
    <2>2. CASE ci # a.ci
      <3>1. rcvd_index'[ci] = rcvd_index[ci]
        BY <1>3, <2>2 DEF BookType, bookVars
      <3> QED BY <1>7, <2>1, <2>2, <3>1
    <2>3. CASE ci = a.ci /\ Here(a.cid) /\ ~ LastAnswer(a.ci)
      <3>1. rcvd_index'[ci] = rcvd_index[ci] + 1 /\ rcvd_index[ci] + 1 # counter_array[ci]
        BY <1>3, <2>3 DEF BookType, LastAnswer
      <3> QED BY <1>9, <2>1, <2>3, <3>1
    <2>4. CASE ci = a.ci /\ (~ Here(a.cid) \/ LastAnswer(a.ci))
      <3>1. rcvd_index'[ci] = rcvd_index[ci]
        BY <1>3, <2>4 DEF bookVars
      <3> QED BY <1>9, <2>1, <2>4, <3>1
    <2> QED BY <2>2, <2>3, <2>4
  <1>14. Done'
    <2> SUFFICES ASSUME NEW ci \in Round, ended'[ci] > 0
                 PROVE  ended'[ci] = 1 /\ Owing(ci)' = {}
      BY DEF Done
    <2>1. CASE ci # a.ci
      <3>1. ended'[ci] = ended[ci]
        BY <1>3, <2>1 DEF BookType, bookVars
      <3> QED BY <1>7, <2>1, <3>1 DEF Done
    <2>2. CASE ci = a.ci
      <3>1. ended[ci] = 0
        BY <1>8, <2>2 DEF Done, BookType
      <3>2. Here(a.cid) /\ LastAnswer(a.ci) /\ ended'[ci] = 1
        BY <1>3, <2>2, <3>1 DEF BookType, bookVars
      <3>3. Cardinality(Owing(ci)') = 0
        BY <1>9, <2>2, <3>2 DEF LastAnswer, Counted, BookType, RoundType
      <3> QED BY <1>9, <2>2, <3>2, <3>3, FS_EmptySet
    <2> QED BY <2>1, <2>2
  <1>15. Places'
    BY <1>4, <1>6 DEF Places
  <1>16. \A ci \in Round, u \in Uid : collect_times'[ci][u] = "false" => collect_times[ci][u] = "false"
    BY <1>3, <1>5 DEF BookType, bookVars
  <1>17. Unborn'
    BY <1>4, <1>16 DEF Unborn
  <1>18. LateOwes'
    <2> SUFFICES ASSUME NEW ci \in timers, NEW c \in Cid, [ci |-> ci, cid |-> c] \notin shifted,
                        NEW u \in Pool(c), collect_times'[ci][u] = "false"
                 PROVE  \E b \in Asks(u)' : b.ci = ci /\ b.cid = c
      BY <1>4, LateOwesNext
    <2>1. u \in Uid /\ ci \in Round
      BY PoolMembers, TimersRounds
    <2>2. Owes(u, ci, c)
      BY <1>16, <2>1 DEF LateOwes, Late
    <2>3. PICK b \in Asks(u) : b.ci = ci /\ b.cid = c
      BY <2>2, OwesAsks
    <2>4. CASE u = w /\ b = a
      <3>1. Here(c) /\ a.index \in DOMAIN clusters[c] /\ clusters[c][a.index] = w
        BY <2>1, <2>3, <2>4 DEF Places
      <3>2. booked(a) = {w}
        BY <2>3, <2>4, <3>1 DEF booked, Place
      <3>3. collect_times'[ci][u] = "true"
        BY <1>3, <1>5, <2>1, <2>3, <2>4, <3>1, <3>2 DEF BookType
      <3> QED BY <3>3
    <2>5. CASE ~ (u = w /\ b = a)
      BY <1>2, <2>1, <2>3, <2>5
    <2> QED BY <2>4, <2>5
  <1> QED BY <1>2, <1>10, <1>11, <1>12, <1>13, <1>14, <1>15, <1>17, <1>18

\* A timer only orders workers.
LEMMA CheckAddWorkerStep == ASSUME IInv, NEW ci \in Round, CheckAddWorker(ci) PROVE IInv'
  <1> USE DEF IInv
  <1>1. /\ timers' = timers \ {ci}
        /\ UNCHANGED <<clusters, process_uid, kills, collect_index, counter_array, bookVars,
                       ipc, answers, shifted, lost>>
    BY DEF CheckAddWorker
  <1>2. /\ UNCHANGED <<collect_times, rcvd_index, ended>>
        /\ \A c : Pool(c)' = Pool(c) /\ Here(c)' = Here(c)
    BY <1>1 DEF bookVars, Pool, Here
  <1>3. PICK lucky : adding' = [c \in Cid |-> adding[c] + Cardinality(lucky \cap Late(ci, c))]
    BY DEF CheckAddWorker
  <1>4. PoolType'
    <2>1. ASSUME NEW c \in Cid PROVE Cardinality(lucky \cap Late(ci, c)) \in Nat
      <3>1. IsFiniteSet(Uid)
        BY BoundAssumption, FS_Interval DEF Uid
      <3>2. lucky \cap Late(ci, c) \subseteq Uid
        BY PoolMembers DEF Late
      <3> QED BY <3>1, <3>2, FS_Subset, FS_CardinalityType
    <2>2. adding' \in [Cid -> Nat]
      BY <1>3, <2>1 DEF PoolType
    <2> QED BY <1>1, <1>2, <2>2 DEF PoolType
  <1>5. RoundType'
    BY <1>1 DEF RoundType
  <1>6. BookType' /\ QueueType' /\ Ahead' /\ OneAsk' /\ Counted' /\ Done'
    BY <1>1, SameBooks
  <1>7. \A w : Asks(w)' = Asks(w)
    BY <1>1, SameQueues
  <1>8. Places' /\ Unborn'
    BY <1>1, <1>2, <1>7 DEF Places, Unborn
  <1>9. LateOwes'
    <2> SUFFICES ASSUME NEW k \in timers, NEW c \in Cid, [ci |-> k, cid |-> c] \notin shifted,
                        NEW u \in Pool(c), collect_times[k][u] = "false"
                 PROVE  \E a \in Asks(u) : a.ci = k /\ a.cid = c
      BY <1>1, <1>2, <1>7, LateOwesNext
    <2>1. Owes(u, k, c)
      BY DEF LateOwes, Late
    <2> QED BY <2>1, OwesAsks
  <1> QED BY <1>4, <1>5, <1>6, <1>8, <1>9

-----------------------------------------------------------------------------
(* The pools. *)

\* A new worker comes last in its pool, and was in no pool before.
LEMMA RunWorkerStep == ASSUME IInv, NEW c \in Cid, RunWorker(c) PROVE IInv'
  <1> USE DEF IInv
  <1>1. /\ adding[c] > 0 /\ process_uid <= MaxUid /\ process_uid' = process_uid + 1
        /\ adding' = [adding EXCEPT ![c] = @ - 1]
        /\ clusters' = [clusters EXCEPT ![c] =
               IF Here(c) THEN Append(clusters[c], process_uid) ELSE <<process_uid>>]
        /\ UNCHANGED <<kills, roundVars, bookVars, ipc, answers, shifted, lost>>
    BY DEF RunWorker, Here
  <1>2. UNCHANGED <<collect_index, counter_array, timers, collect_times, rcvd_index, ended>>
    BY <1>1 DEF roundVars, bookVars
  <1>3. PICK n \in Nat \ {0} : n = process_uid /\ n <= MaxUid /\ n \in Uid
    BY <1>1, BoundAssumption DEF PoolType, Uid
  <1>4. \A d \in Cid : d # c => /\ clusters'[d] = clusters[d]
                                /\ Pool(d)' = Pool(d) /\ Here(d)' = Here(d)
    BY <1>1 DEF PoolType, Pool, Here
  <1>5. /\ clusters'[c] \in Seq(1..n) /\ IsInjective(clusters'[c]) /\ Range(clusters'[c]) = Pool(c) \cup {n}
        /\ Here(c) => \A i \in DOMAIN clusters[c] : i \in DOMAIN clusters'[c] /\ clusters'[c][i] = clusters[c][i]
    <2>1. CASE Here(c)
      <3> DEFINE q == clusters[c]
      <3>1. q \in Seq(1..(n - 1)) /\ IsInjective(q) /\ Pool(c) = Range(q) /\ Range(q) \subseteq 1..(n - 1)
        BY <1>3, <2>1, PoolMembers DEF PoolType
      <3>2. q \in Seq(1..n) /\ n \in 1..n /\ n \notin 1..(n - 1)
        <4>1. 1..(n - 1) \subseteq 1..n
          OBVIOUS
        <4> QED BY <1>3, <3>1, <4>1, SeqMonotonic
      <3>3. clusters'[c] = Append(q, n)
        BY <1>1, <1>3, <2>1 DEF PoolType
      <3> HIDE DEF q
      <3>4. /\ Append(q, n) \in Seq(1..n) /\ Range(Append(q, n)) = Range(q) \cup {n}
        BY <3>2, RangeAppend
      <3>5. /\ Len(Append(q, n)) = Len(q) + 1 /\ Len(q) \in Nat
            /\ \A i \in 1..Len(q) : Append(q, n)[i] = q[i]
            /\ Append(q, n)[Len(q) + 1] = n
            /\ DOMAIN q = 1..Len(q) /\ DOMAIN Append(q, n) = 1..(Len(q) + 1)
        BY <3>2, <3>4, AppendProperties, LenProperties
      <3>6. \A i \in 1..(Len(q) + 1) : i = Len(q) + 1 \/ i \in 1..Len(q)
        BY <3>5
      <3>7. \A i \in 1..Len(q) : q[i] # n /\ i \in 1..(Len(q) + 1)
        BY <3>1, <3>2, <3>5 DEF Range
      <3>8. IsInjective(Append(q, n))
        BY <3>1, <3>5, <3>6, <3>7 DEF IsInjective
      <3> QED BY <3>1, <3>3, <3>4, <3>5, <3>7, <3>8 DEF q
    <2>2. CASE ~ Here(c)
      <3>1. clusters'[c] = <<n>> /\ Pool(c) = {}
        BY <1>1, <1>3, <2>2 DEF PoolType, Pool
      <3>2. <<n>> \in Seq(1..n) /\ IsInjective(<<n>>) /\ Range(<<n>>) = {n}
        BY <1>3 DEF IsInjective, Range
      <3> QED BY <2>2, <3>1, <3>2
    <2> QED BY <2>1, <2>2
  <1>6. Here(c)' /\ Pool(c)' = Pool(c) \cup {n}
    <2>1. 1..n \subseteq Uid
      BY <1>3, BoundAssumption DEF Uid
    <2>2. clusters'[c] \in Seq(Uid)
      BY <1>5, <2>1, SeqMonotonic
    <2> QED BY <1>5, <2>2, StartAssumption DEF Here, Pool
  <1>7. \A d \in Cid : Pool(d) \subseteq 1..(n - 1) /\ n \notin Pool(d)
    BY <1>3, PoolMembers
  <1>8. PoolType'
    <2>1. process_uid' = n + 1 /\ process_uid' - 1 = n /\ process_uid' \in 1..(MaxUid + 1)
      BY <1>1, <1>3, BoundAssumption
    <2>2. \A d \in Cid : clusters'[d] \in Seq(1..n) \cup {Gone}
      <3> SUFFICES ASSUME NEW d \in Cid, d # c, clusters[d] # Gone PROVE clusters[d] \in Seq(1..n)
        BY <1>4, <1>5
      <3>1. clusters[d] \in Seq(1..(n - 1)) /\ 1..(n - 1) \subseteq 1..n
        BY <1>3 DEF PoolType
      <3> QED BY <3>1, SeqMonotonic
    <2>3. clusters' \in [Cid -> Seq(1..n) \cup {Gone}]
      <3>1. clusters' = [d \in Cid |-> clusters'[d]]
        BY <1>1 DEF PoolType
      <3> QED BY <2>2, <3>1
    <2>4. \A d \in Cid : Here(d)' => IsInjective(clusters'[d])
      BY <1>4, <1>5 DEF PoolType
    <2>5. \A d, e \in Cid : d # e => Pool(d)' \cap Pool(e)' = {}
      BY <1>4, <1>6, <1>7 DEF PoolType
    <2>6. adding' \in [Cid -> Nat]
      BY <1>1 DEF PoolType
    <2> QED BY <2>1, <2>3, <2>4, <2>5, <2>6 DEF PoolType
  <1>9. RoundType'
    BY <1>2 DEF RoundType
  <1>10. BookType' /\ QueueType' /\ Ahead' /\ OneAsk' /\ Counted' /\ Done'
    BY <1>1, <1>2, SameBooks
  <1>11. \A w : Asks(w)' = Asks(w)
    BY <1>1, SameQueues
  <1>12. Places'
    <2> SUFFICES ASSUME NEW w \in Uid, NEW a \in Asks(w), [ci |-> a.ci, cid |-> a.cid] \notin shifted
                 PROVE  Here(a.cid)' /\ a.index \in DOMAIN clusters'[a.cid] /\ clusters'[a.cid][a.index] = w
      BY <1>1, <1>11 DEF Places
    <2>1. a.cid \in Cid /\ Here(a.cid) /\ a.index \in DOMAIN clusters[a.cid] /\ clusters[a.cid][a.index] = w
      BY AskFields DEF Places
    <2> QED BY <1>4, <1>5, <1>6, <2>1
  <1>13. Unborn'
    BY <1>1, <1>2, <1>3 DEF Unborn, Uid
  <1>14. LateOwes'
    <2> SUFFICES ASSUME NEW k \in timers, NEW d \in Cid, [ci |-> k, cid |-> d] \notin shifted,
                        NEW u \in Pool(d)', collect_times[k][u] = "false"
                 PROVE  \E a \in Asks(u) : a.ci = k /\ a.cid = d
      BY <1>1, <1>2, <1>11, LateOwesNext
    <2>1. k \in Round
      BY TimersRounds
    <2>2. u # n
      BY <1>3, <2>1 DEF Unborn
    <2>3. u \in Pool(d)
      BY <1>4, <1>6, <2>2
    <2>4. Owes(u, k, d)
      BY <2>3 DEF LateOwes, Late
    <2> QED BY <2>4, OwesAsks
  <1> QED BY <1>8, <1>9, <1>10, <1>12, <1>13, <1>14

\* What is left when the pool of c shrinks: the rounds in whose midst it did are
\* noted, and what is asked of other pools stays in place.
LEMMA ShrinkStep ==
    ASSUME IInv, NEW c \in Cid, Shift(c), UNCHANGED <<process_uid, adding, roundVars, bookVars, ipc, answers>>,
           NEW pool, clusters' = [clusters EXCEPT ![c] = pool],
           pool # Gone => /\ pool \in Seq(1..(process_uid - 1)) /\ IsInjective(pool)
                          /\ Range(pool) \subseteq Pool(c)
    PROVE  IInv'
  <1> USE DEF IInv
  <1>1. UNCHANGED <<collect_index, counter_array, timers, collect_times, rcvd_index, ended>>
    BY DEF roundVars, bookVars
  <1>2. \A d \in Cid : d # c => /\ clusters'[d] = clusters[d]
                                /\ Pool(d)' = Pool(d) /\ Here(d)' = Here(d)
    BY DEF PoolType, Pool, Here
  <1>3. clusters'[c] = pool /\ Pool(c)' \subseteq Pool(c) /\ (Here(c)' => pool # Gone)
    BY DEF PoolType, Pool, Here
  <1>4. PoolType'
    <2>1. clusters' \in [Cid -> Seq(1..(process_uid - 1)) \cup {Gone}]
      BY DEF PoolType
    <2>2. \A d \in Cid : Here(d)' => IsInjective(clusters'[d])
      BY <1>2, <1>3 DEF PoolType
    <2>3. \A d, e \in Cid : d # e => Pool(d)' \cap Pool(e)' = {}
      <3>1. \A d \in Cid : Pool(d)' \subseteq Pool(d)
        BY <1>2, <1>3
      <3> QED BY <3>1 DEF PoolType
    <2> QED BY <2>1, <2>2, <2>3 DEF PoolType
  <1>5. RoundType'
    BY <1>1 DEF RoundType
  <1>6. BookType' /\ QueueType' /\ Ahead' /\ OneAsk' /\ Counted' /\ Done'
    BY <1>1, SameBooks DEF bookVars
  <1>7. \A w : Asks(w)' = Asks(w)
    BY SameQueues
  <1>8. \A ci, d : [ci |-> ci, cid |-> d] \notin shifted' => [ci |-> ci, cid |-> d] \notin shifted
    BY DEF Shift
  <1>9. ASSUME NEW w \in Uid, NEW a \in Asks(w), a.cid = c
        PROVE  [ci |-> a.ci, cid |-> a.cid] \in shifted'
    <2>1. Owes(w, a.ci, c) /\ a.ci \in Round
      BY <1>9, OwesAsks, AskFields
    <2>2. a.ci \in Midst(c)
      BY <2>1 DEF Midst
    <2> QED BY <1>9, <2>2 DEF Shift
  <1>10. Places'
    <2> SUFFICES ASSUME NEW w \in Uid, NEW a \in Asks(w), [ci |-> a.ci, cid |-> a.cid] \notin shifted'
                 PROVE  Here(a.cid)' /\ a.index \in DOMAIN clusters'[a.cid] /\ clusters'[a.cid][a.index] = w
      BY <1>7 DEF Places
    <2>1. a.cid \in Cid /\ a.cid # c
      BY <1>9, AskFields
    <2> QED BY <1>2, <1>8, <2>1 DEF Places
  <1>11. Unborn'
    BY <1>1 DEF Unborn
  <1>12. LateOwes'
    <2> SUFFICES ASSUME NEW k \in timers, NEW d \in Cid, [ci |-> k, cid |-> d] \notin shifted',
                        NEW u \in Pool(d)', collect_times[k][u] = "false"
                 PROVE  \E a \in Asks(u) : a.ci = k /\ a.cid = d
      BY <1>1, <1>7, LateOwesNext
    <2>1. u \in Pool(d) /\ [ci |-> k, cid |-> d] \notin shifted
      BY <1>2, <1>3, <1>8
    <2>2. Owes(u, k, d)
      BY <2>1 DEF LateOwes, Late
    <2> QED BY <2>2, OwesAsks
  <1> QED BY <1>4, <1>5, <1>6, <1>10, <1>11, <1>12

LEMMA KillWorkerStep == ASSUME IInv, NEW c \in Cid, NEW pos, KillWorker(c, pos) PROVE IInv'
  <1>1. /\ Here(c) /\ pos \in DOMAIN clusters[c] /\ Shift(c)
        /\ clusters' = [clusters EXCEPT ![c] = RemoveAt(clusters[c], pos)]
        /\ UNCHANGED <<process_uid, adding, roundVars, bookVars, ipc, answers>>
    BY DEF KillWorker
  <1>2. /\ clusters[c] \in Seq(1..(process_uid - 1)) /\ IsInjective(clusters[c])
        /\ Pool(c) = Range(clusters[c])
    BY <1>1, PoolMembers DEF IInv, PoolType
  <1>3. /\ RemoveAt(clusters[c], pos) \in Seq(1..(process_uid - 1))
        /\ IsInjective(RemoveAt(clusters[c], pos))
        /\ Range(RemoveAt(clusters[c], pos)) \subseteq Pool(c)
    BY <1>1, <1>2, RemoveAtPool
  <1> QED BY <1>1, <1>3, ShrinkStep

LEMMA RemoveClusterStep == ASSUME IInv, NEW c \in Cid, RemoveCluster(c) PROVE IInv'
  <1>1. /\ Shift(c) /\ clusters' = [clusters EXCEPT ![c] = Gone]
        /\ UNCHANGED <<process_uid, adding, roundVars, bookVars, ipc, answers>>
    BY DEF RemoveCluster
  <1> QED BY <1>1, ShrinkStep

-----------------------------------------------------------------------------
(* The theorems. *)

\* The invariant the others follow from.
THEOREM RoundInvariance == Spec => []IInv
  <1>1. IInv /\ [Next]_vars => IInv'
    <2> SUFFICES ASSUME IInv, [Next]_vars PROVE IInv'
      OBVIOUS
    <2>1. CASE CollectData
      BY <2>1, CollectDataStep
    <2>2. ASSUME NEW w \in Uid, WorkerStep(w) PROVE IInv'
      BY <2>2, AnswerStep, DataCollectCbStep DEF WorkerStep
    <2>3. ASSUME NEW ci \in Round, CheckAddWorker(ci) PROVE IInv'
      BY <2>3, CheckAddWorkerStep
    <2>4. ASSUME NEW c \in Cid, RunWorker(c) PROVE IInv'
      BY <2>4, RunWorkerStep
    <2>5. ASSUME NEW c \in Cid, NEW pos \in 1..MaxUid, KillWorker(c, pos) PROVE IInv'
      BY <2>5, KillWorkerStep
    <2>6. ASSUME NEW c \in Cid, RemoveCluster(c) PROVE IInv'
      BY <2>6, RemoveClusterStep
    <2>7. CASE UNCHANGED vars
      <3>1. /\ UNCHANGED <<ipc, answers, bookVars, collect_index, counter_array>>
            /\ UNCHANGED <<clusters, process_uid, adding, timers, collect_times, shifted>>
        BY <2>7 DEF vars, poolVars, roundVars, bookVars
      <3>2. \A w : Asks(w)' = Asks(w)
        BY <3>1, SameQueues
      <3>3. \A c : Pool(c)' = Pool(c) /\ Here(c)' = Here(c)
        BY <3>1 DEF Pool, Here
      <3>4. PoolType' /\ RoundType'
        BY <3>1, <3>3 DEF IInv, PoolType, RoundType
      <3>5. BookType' /\ QueueType' /\ Ahead' /\ OneAsk' /\ Counted' /\ Done'
        BY <3>1, SameBooks
      <3>6. Places' /\ Unborn'
        BY <3>1, <3>2, <3>3 DEF IInv, Places, Unborn
      <3>7. LateOwes'
        <4> SUFFICES ASSUME NEW k \in timers, NEW c \in Cid, [ci |-> k, cid |-> c] \notin shifted,
                            NEW u \in Pool(c), collect_times[k][u] = "false"
                     PROVE  \E a \in Asks(u) : a.ci = k /\ a.cid = c
          BY <3>1, <3>2, <3>3, LateOwesNext
        <4>1. Owes(u, k, c)
          BY DEF IInv, LateOwes, Late
        <4> QED BY <4>1, OwesAsks
      <3> QED BY <3>4, <3>5, <3>6, <3>7 DEF IInv
    <2> QED BY <2>1, <2>2, <2>3, <2>4, <2>5, <2>6, <2>7 DEF Next
  <1> QED BY <1>1, IInvInit, PTL DEF Spec

\* Type correctness, with the pools kept apart and no round counted past its end.
THEOREM RoundTypeCorrect == Spec => []TypeOK
  <1>1. IInv => TypeOK
    <2> SUFFICES ASSUME IInv PROVE TypeOK
      OBVIOUS
    <2>1. \A c \in Cid : Here(c) => clusters[c] \in Seq(1..(process_uid - 1))
      BY PoolMembers DEF IInv
    <2>2. \A ci \in Round : rcvd_index[ci] < counter_array[ci] \/ rcvd_index[ci] = 0
      BY DEF IInv, Counted
    <2> QED BY <2>1, <2>2 DEF IInv, TypeOK, PoolType, RoundType, BookType, QueueType
  <1> QED BY <1>1, RoundInvariance, PTL

\* controller_cb is called at most once a round, by the last answer owed to it,
\* whatever is added, killed and removed in its midst.
THEOREM RoundEndsOnce == Spec => []RoundEndsLast
  <1>1. IInv => RoundEndsLast
    <2> SUFFICES ASSUME IInv, NEW ci \in Round, ended[ci] > 0
                 PROVE  ended[ci] = 1 /\ \A w \in Uid, c \in Cid : ~ Owes(w, ci, c)
      BY DEF RoundEndsLast
    <2>1. ended[ci] = 1 /\ Owing(ci) = {}
      BY DEF IInv, Done
    <2>2. ASSUME NEW w \in Uid, NEW c \in Cid, Owes(w, ci, c) PROVE FALSE
      BY <2>1, <2>2, OwesAsks DEF Owing
    <2> QED BY <2>1, <2>2
  <1> QED BY <1>1, RoundInvariance, PTL

\* A worker that check_add_worker takes for late has not answered, as long as no
\* kill shifted its pool in the midst of the round.
THEOREM LateIsLate == Spec => []LateOwes
  <1>1. IInv => LateOwes
    BY DEF IInv
  <1> QED BY <1>1, RoundInvariance, PTL

=============================================================================
