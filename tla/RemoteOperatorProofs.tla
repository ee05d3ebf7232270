------------------------ MODULE RemoteOperatorProofs ------------------------
(***************************************************************************)
(* The safety of RemoteOperator for any number of workers, messages and    *)
(* limits.  Types rest on what a terminated worker leaves (NothingFromDead)*)
(* and on the two loops excluding each other (OneLoop); the removal, on    *)
(* every live worker having an entry the loop has yet to reach (Entered).  *)
(* Order, slow mode and the upstream operators need nothing else.          *)
(***************************************************************************)
EXTENDS RemoteOperator, FiniteSetTheorems, SequenceTheorems, TLAPS

\* Nothing is on its way to a worker that is not live, or from it.
NothingFromDead == \A w \in Worker \ live : inbox[w] = <<>> /\ active[w] = 0 /\ free[w] = 0

\* The page runs one of its two loops at a time.
OneLoop == removing # 0 => sweep = {}

\* Every live worker has an entry in __workers, which the loop of remove_cluster
\* has not passed.
Entered == \A w \in live : \E i \in DOMAIN slots : slots[i] = w /\ removing <= i

-----------------------------------------------------------------------------
(* splice. *)

\* Spliced leaves all but one of a pool, in order: w itself when it is there.
LEMMA SplicedPool ==
    ASSUME NEW w, worker_pool \in Seq(Worker), worker_pool # <<>>
    PROVE  \E at \in 1..Len(worker_pool) :
              /\ Spliced(w) \in Seq(Worker)
              /\ Len(Spliced(w)) = Len(worker_pool) - 1
              /\ \A i \in 1..(Len(worker_pool) - 1) :
                    Spliced(w)[i] = IF i < at THEN worker_pool[i] ELSE worker_pool[i + 1]
              /\ Listed(w) => worker_pool[at] = w
  <1> DEFINE n == Len(worker_pool)
             at == IF Listed(w) THEN CHOOSE i \in DOMAIN worker_pool : worker_pool[i] = w
                                ELSE n
             before == SubSeq(worker_pool, 1, at - 1)
             after == SubSeq(worker_pool, at + 1, n)
  <1>1. n \in Nat \ {0} /\ DOMAIN worker_pool = 1..n
    OBVIOUS
  <1>2. at \in 1..n /\ (Listed(w) => worker_pool[at] = w)
    BY <1>1 DEF Listed
  <1> HIDE DEF n, at
  <1>3. /\ before \in Seq(Worker) /\ Len(before) = at - 1
        /\ \A i \in 1..(at - 1) : before[i] = worker_pool[i]
    <2>1. \A i \in 1..(at - 1) : worker_pool[i] \in Worker
      BY <1>1, <1>2
    <2> QED BY <1>1, <1>2, <2>1, SubSeqProperties
  <1>4. /\ after \in Seq(Worker) /\ Len(after) = n - at
        /\ \A i \in 1..(n - at) : after[i] = worker_pool[at + i]
    <2>1. \A i \in (at + 1)..n : worker_pool[i] \in Worker
      BY <1>1, <1>2
    <2>2. /\ after \in Seq(Worker)
          /\ Len(after) = IF at + 1 <= n THEN n - (at + 1) + 1 ELSE 0
          /\ \A i \in 1..(n - (at + 1) + 1) : after[i] = worker_pool[(at + 1) + i - 1]
      BY <1>1, <1>2, <2>1, SubSeqProperties
    <2> HIDE DEF after
    <2>3. n - (at + 1) + 1 = n - at /\ Len(after) = n - at
      BY <1>1, <1>2, <2>2
    <2>4. ASSUME NEW i \in 1..(n - at) PROVE after[i] = worker_pool[at + i]
      <3>1. (at + 1) + i - 1 = at + i
        BY <1>1, <1>2
      <3> QED BY <2>2, <2>3, <3>1
    <2> QED BY <2>2, <2>3, <2>4
  <1>5. Spliced(w) = before \o after
    BY DEF Spliced, n, at
  <1> HIDE DEF before, after
  <1>6. /\ before \o after \in Seq(Worker) /\ Len(before \o after) = n - 1
        /\ \A i \in 1..(n - 1) :
              (before \o after)[i] = IF i < at THEN before[i] ELSE after[i - (at - 1)]
    <2>1. Len(before) + Len(after) = n - 1
      BY <1>1, <1>2, <1>3, <1>4
    <2>2. /\ before \o after \in Seq(Worker)
          /\ Len(before \o after) = Len(before) + Len(after)
          /\ \A i \in 1..(Len(before) + Len(after)) :
                (before \o after)[i] = IF i <= Len(before) THEN before[i]
                                       ELSE after[i - Len(before)]
      BY <1>3, <1>4, ConcatProperties
    <2> QED BY <1>1, <1>2, <1>3, <2>1, <2>2
  <1>7. ASSUME NEW i \in 1..(n - 1)
        PROVE  Spliced(w)[i] = IF i < at THEN worker_pool[i] ELSE worker_pool[i + 1]
    <2>1. CASE i < at
      BY <1>1, <1>2, <1>3, <1>5, <1>6, <2>1
    <2>2. CASE ~ (i < at)
      <3>1. i - (at - 1) \in 1..(n - at) /\ at + (i - (at - 1)) = i + 1
        BY <1>1, <1>2, <2>2
      <3> QED BY <1>4, <1>5, <1>6, <2>2, <3>1
    <2> QED BY <2>1, <2>2
  <1> QED BY <1>1, <1>2, <1>5, <1>6, <1>7 DEF n

\* A pool of live workers, each once, keeps no trace of the one spliced out.
LEMMA SplicedAlive ==
    ASSUME NEW w, worker_pool \in Seq(Worker), worker_pool # <<>>, PoolIsAlive
    PROVE  /\ Range(Spliced(w)) \subseteq live \ {w}
           /\ \A i, j \in DOMAIN Spliced(w) : Spliced(w)[i] = Spliced(w)[j] => i = j
  <1> DEFINE n == Len(worker_pool)
             p == Spliced(w)
  <1>1. PICK at \in 1..n :
           /\ p \in Seq(Worker) /\ Len(p) = n - 1
           /\ \A i \in 1..(n - 1) : p[i] = IF i < at THEN worker_pool[i] ELSE worker_pool[i + 1]
           /\ Listed(w) => worker_pool[at] = w
    BY SplicedPool
  <1>2. n \in Nat \ {0} /\ DOMAIN worker_pool = 1..n /\ DOMAIN p = 1..(n - 1)
    BY <1>1
  <1>3. /\ \A i \in 1..n : worker_pool[i] \in live
        /\ \A i, j \in 1..n : worker_pool[i] = worker_pool[j] => i = j
    BY <1>2 DEF PoolIsAlive, Range
  <1> DEFINE was(i) == IF i < at THEN i ELSE i + 1
  <1> HIDE DEF n, p
  <1>4. ASSUME NEW i \in 1..(n - 1)
        PROVE  was(i) \in 1..n /\ was(i) # at /\ p[i] = worker_pool[was(i)]
    BY <1>1, <1>2
  <1>5. ASSUME NEW i \in 1..(n - 1) PROVE p[i] \in live \ {w}
    <2>1. p[i] \in live
      BY <1>3, <1>4
    <2>2. CASE Listed(w)
      BY <1>1, <1>3, <1>4, <2>1, <2>2
    <2>3. CASE ~ Listed(w)
      BY <1>2, <1>4, <2>1, <2>3 DEF Listed
    <2> QED BY <2>2, <2>3
  <1>6. ASSUME NEW i \in 1..(n - 1), NEW j \in 1..(n - 1), p[i] = p[j] PROVE i = j
    <2>1. was(i) = was(j)
      BY <1>3, <1>4, <1>6
    <2> QED BY <1>1, <1>2, <2>1
  <1> QED BY <1>2, <1>5, <1>6 DEF Range, p

-----------------------------------------------------------------------------
(* Types. *)

\* TypeOK in parts, one for each group of variables.
PoolTypes ==
    /\ worker_pool \in Seq(Worker) /\ message_pool \in Seq(Message)
    /\ arrived \in Nat /\ sent \in Nat
CrewTypes ==
    /\ slots \in Seq(Worker \cup {Hole}) /\ adding \in 0..MaxAdding
    /\ live \subseteq spawned /\ spawned \subseteq Worker /\ lastUsed \subseteq spawned
LoopTypes ==
    /\ exists \in BOOLEAN /\ sweep \subseteq live
    /\ removing \in 0..(Len(slots) + 1) /\ removals \in 0..MaxRemove
SlowTypes ==
    /\ isSlowMode \in BOOLEAN
    /\ command \in [Upstream -> Seq(BOOLEAN)] /\ slowed \in [Upstream -> BOOLEAN]
WorkTypes ==
    /\ inbox \in [Worker -> Seq(Message \cup {ForceFree})]
    /\ active \in [Worker -> Nat] /\ free \in [Worker -> Nat]

Types ==
    PoolTypes /\ CrewTypes /\ LoopTypes /\ SlowTypes /\ WorkTypes /\ NothingFromDead /\ OneLoop

LEMMA TypesGiveTypeOK == Types => TypeOK
  BY DEF Types, TypeOK, PoolTypes, CrewTypes, LoopTypes, SlowTypes, WorkTypes

LEMMA WorkersAreNumbers ==
    Cardinality(Worker) \in Nat \ {0} /\ Worker = 1..Cardinality(Worker) /\ Hole \notin Worker
  <1>1. Cardinality(Worker) \in Nat
    BY FS_CardinalityType, WorkerAssumption
  <1> QED BY <1>1, WorkerAssumption DEF Hole

LEMMA BoundsAreNumbers ==
    /\ MaxMsg \in Nat /\ MaxAdding \in Nat /\ MaxRemove \in Nat
    /\ Trigger \in Nat /\ Deactivate \in Nat /\ Deactivate < Trigger
  BY LimitAssumption

LEMMA TypesInit == Init => Types
  <1> SUFFICES ASSUME Init PROVE Types
    OBVIOUS
  <1>1. 1..InitWorkers \subseteq Worker
    BY WorkersAreNumbers, WorkerAssumption
  <1>2. slots \in Seq(Worker \cup {Hole})
    BY <1>1, WorkerAssumption DEF Init
  <1>3. inbox \in [Worker -> Seq(Message \cup {ForceFree})]
    <2>1. <<ForceFree>> \in Seq(Message \cup {ForceFree}) /\ <<>> \in Seq(Message \cup {ForceFree})
      OBVIOUS
    <2> QED BY <2>1 DEF Init
  <1>4. PoolTypes
    BY DEF Init, PoolTypes
  <1>5. CrewTypes
    BY <1>1, <1>2, BoundsAreNumbers DEF Init, CrewTypes
  <1>6. LoopTypes
    <2>1. removing \in 0..(Len(slots) + 1)
      <3>1. Len(slots) \in Nat
        BY <1>2
      <3>2. removing = 0
        BY DEF Init
      <3> QED BY <3>1, <3>2
    <2>2. exists \in BOOLEAN /\ sweep \subseteq live
      BY DEF Init
    <2>3. removals \in 0..MaxRemove
      BY BoundsAreNumbers DEF Init
    <2> QED BY <2>1, <2>2, <2>3 DEF LoopTypes
  <1>7. SlowTypes
    <2>1. isSlowMode \in BOOLEAN
      BY DEF Init
    <2>2. command \in [Upstream -> Seq(BOOLEAN)] /\ slowed \in [Upstream -> BOOLEAN]
      BY DEF Init
    <2> QED BY <2>1, <2>2 DEF SlowTypes
  <1>8. WorkTypes
    BY <1>3 DEF Init, WorkTypes
  <1>9. NothingFromDead /\ OneLoop
    BY WorkersAreNumbers, WorkerAssumption DEF Init, NothingFromDead, OneLoop
  <1> QED BY <1>4, <1>5, <1>6, <1>7, <1>8, <1>9 DEF Types

\* Both kinds of slow mode message keep the types of what slow mode is made of.
LEMMA SlowModeTypes ==
    ASSUME NEW on \in BOOLEAN, SetSlowMode(on), SlowTypes
    PROVE  SlowTypes'
  <1>1. command \in [Upstream -> Seq(BOOLEAN)] /\ slowed \in [Upstream -> BOOLEAN]
    BY DEF SlowTypes
  <1>2. ASSUME NEW u \in Upstream PROVE Append(command[u], on) \in Seq(BOOLEAN)
    BY <1>1, AppendProperties
  <1>3. command' = [u \in Upstream |-> Append(command[u], on)]
    BY DEF SetSlowMode
  <1>4. command' \in [Upstream -> Seq(BOOLEAN)]
    BY <1>2, <1>3
  <1>5. isSlowMode' = on /\ slowed' = slowed
    BY DEF SetSlowMode
  <1> QED BY <1>1, <1>4, <1>5 DEF SlowTypes

LEMMA ArriveTypes == Types /\ PoolIsAlive /\ Arrive => Types'
  <1> SUFFICES ASSUME Types, PoolIsAlive, Arrive PROVE Types'
    OBVIOUS
  <1>1. arrived + 1 \in Message /\ arrived' = arrived + 1 /\ arrived' \in Nat
    BY BoundsAreNumbers DEF Arrive, Message, Types, PoolTypes
  <1>2. UNCHANGED <<crewVars, loopVars, active, free, lastUsed>>
    BY DEF Arrive
  <1>3. CrewTypes' /\ LoopTypes' /\ OneLoop'
    BY <1>2 DEF Types, CrewTypes, LoopTypes, OneLoop, crewVars, loopVars
  <1>4. CASE MustWait
    <2>1. /\ message_pool' = Append(message_pool, arrived + 1)
          /\ UNCHANGED <<worker_pool, sent, inbox>>
          /\ SetSlowMode(TRUE) \/ UNCHANGED slowVars
      BY <1>4 DEF Arrive
    <2>2. SlowTypes'
      <3>1. CASE SetSlowMode(TRUE)
        BY <3>1, SlowModeTypes DEF Types
      <3>2. CASE UNCHANGED slowVars
        BY <3>2 DEF slowVars, Types, SlowTypes
      <3> QED BY <2>1, <3>1, <3>2
    <2>3. PoolTypes'
      BY <1>1, <2>1 DEF Types, PoolTypes
    <2>4. WorkTypes' /\ NothingFromDead'
      BY <1>2, <2>1 DEF Types, WorkTypes, NothingFromDead, crewVars
    <2> QED BY <1>3, <2>2, <2>3, <2>4 DEF Types
  <1>5. CASE ~ MustWait
    <2> DEFINE n == Len(worker_pool)
               w == worker_pool[n]
    <2>1. /\ worker_pool' = SubSeq(worker_pool, 1, n - 1)
          /\ inbox' = [inbox EXCEPT ![w] = Append(@, arrived + 1)]
          /\ sent' = arrived + 1
          /\ UNCHANGED <<message_pool, slowVars>>
      BY <1>5 DEF Arrive
    <2>2. n \in Nat \ {0} /\ DOMAIN worker_pool = 1..n /\ \A i \in 1..n : worker_pool[i] \in Worker
      BY <1>5 DEF MustWait, Types, PoolTypes
    <2>3. w \in live /\ w \in Worker
      BY <2>2 DEF PoolIsAlive, Range
    <2> HIDE DEF w, n
    <2>4. worker_pool' \in Seq(Worker)
      <3>1. n - 1 \in Int /\ \A i \in 1..(n - 1) : worker_pool[i] \in Worker
        BY <2>2
      <3>2. SubSeq(worker_pool, 1, n - 1) \in Seq(Worker)
        BY <3>1, SubSeqProperties
      <3> QED BY <2>1, <3>2
    <2>5. PoolTypes'
      BY <1>1, <2>1, <2>4 DEF Types, PoolTypes
    <2>6. WorkTypes'
      BY <1>1, <1>2, <2>1, <2>3 DEF Types, WorkTypes
    <2>7. NothingFromDead'
      BY <1>2, <2>1, <2>3 DEF Types, WorkTypes, NothingFromDead, crewVars
    <2>8. SlowTypes'
      BY <2>1 DEF Types, SlowTypes, slowVars
    <2> QED BY <1>3, <2>5, <2>6, <2>7, <2>8 DEF Types
  <1> QED BY <1>4, <1>5

LEMMA FreeMessageTypes == ASSUME NEW w \in Worker, Types, FreeMessage(w) PROVE Types'
  <1>1. /\ free[w] > 0 /\ w \in live
        /\ free' = [free EXCEPT ![w] = @ - 1] /\ lastUsed' = lastUsed \cup {w}
        /\ UNCHANGED <<crewVars, loopVars, active, arrived>>
    BY DEF FreeMessage, Types, WorkTypes, NothingFromDead
  <1>2. CrewTypes' /\ LoopTypes' /\ OneLoop'
    BY <1>1 DEF Types, CrewTypes, LoopTypes, OneLoop, crewVars, loopVars
  <1>3. free' \in [Worker -> Nat]
    BY <1>1 DEF Types, WorkTypes
  <1>4. CASE NothingWaits
    <2>1. /\ worker_pool' = IF Listed(w) THEN worker_pool ELSE Append(worker_pool, w)
          /\ UNCHANGED <<message_pool, sent, inbox, slowVars>>
      BY <1>4 DEF FreeMessage
    <2>2. PoolTypes'
      BY <1>1, <2>1 DEF Types, PoolTypes
    <2>3. WorkTypes' /\ NothingFromDead'
      BY <1>1, <1>3, <2>1 DEF Types, WorkTypes, NothingFromDead, crewVars
    <2>4. SlowTypes'
      BY <2>1 DEF Types, SlowTypes, slowVars
    <2> QED BY <1>2, <2>2, <2>3, <2>4 DEF Types
  <1>5. CASE ~ NothingWaits
    <2>1. /\ message_pool' = Tail(message_pool)
          /\ inbox' = [inbox EXCEPT ![w] = Append(@, Oldest)]
          /\ sent' = Oldest
          /\ SetSlowMode(FALSE) \/ UNCHANGED slowVars
          /\ UNCHANGED worker_pool
      BY <1>5 DEF FreeMessage
    <2>2. Oldest \in Message /\ Tail(message_pool) \in Seq(Message)
      BY <1>5, HeadTailProperties DEF NothingWaits, Oldest, Types, PoolTypes
    <2>3. PoolTypes'
      BY <1>1, <2>1, <2>2, BoundsAreNumbers DEF Types, PoolTypes, Message
    <2>4. WorkTypes'
      BY <1>1, <1>3, <2>1, <2>2 DEF Types, WorkTypes
    <2>5. NothingFromDead'
      BY <1>1, <2>1 DEF Types, WorkTypes, NothingFromDead, crewVars
    <2>6. SlowTypes'
      <3>1. CASE SetSlowMode(FALSE)
        BY <3>1, SlowModeTypes DEF Types
      <3>2. CASE UNCHANGED slowVars
        BY <3>2 DEF slowVars, Types, SlowTypes
      <3> QED BY <2>1, <3>1, <3>2
    <2> QED BY <1>2, <2>3, <2>4, <2>5, <2>6 DEF Types
  <1> QED BY <1>4, <1>5

LEMMA WorkerTypes ==
    ASSUME NEW w \in Worker, Types, Take(w) \/ Callback(w) \/ Timer(w)
    PROVE  Types'
  <1>1. UNCHANGED <<poolVars, crewVars, loopVars, slowVars, lastUsed>>
    BY DEF Take, Callback, Timer
  <1>2. PoolTypes' /\ CrewTypes' /\ LoopTypes' /\ SlowTypes' /\ OneLoop'
    BY <1>1 DEF Types, PoolTypes, CrewTypes, LoopTypes, SlowTypes, OneLoop, poolVars, crewVars,
                loopVars, slowVars
  <1>3. w \in live
    BY DEF Take, Callback, Timer
  <1>4. inbox' = inbox \/ (inbox[w] # <<>> /\ inbox' = [inbox EXCEPT ![w] = Tail(@)])
    BY DEF Take, Callback, Timer
  <1>5. free' = free \/ free' = [free EXCEPT ![w] = @ + 1]
    BY DEF Take, Callback, Timer, Done
  <1>6. active' = active \/ \E n \in Nat : active' = [active EXCEPT ![w] = n]
    <2>1. active[w] \in Nat
      BY DEF Types, WorkTypes
    <2>2. CASE Take(w)
      BY <2>1, <2>2 DEF Take, Done
    <2>3. CASE Callback(w)
      <3>1. active[w] - 1 \in Nat /\ active' = [active EXCEPT ![w] = active[w] - 1]
        BY <2>1, <2>3 DEF Callback, Done
      <3> QED BY <3>1
    <2>4. CASE Timer(w)
      BY <2>1, <2>4 DEF Timer, Done
    <2> QED BY <2>2, <2>3, <2>4
  <1>7. WorkTypes'
    <2>1. inbox' \in [Worker -> Seq(Message \cup {ForceFree})]
      <3>1. inbox[w] # <<>> => Tail(inbox[w]) \in Seq(Message \cup {ForceFree})
        BY HeadTailProperties DEF Types, WorkTypes
      <3> QED BY <1>4, <3>1 DEF Types, WorkTypes
    <2>2. active' \in [Worker -> Nat]
      <3>1. active \in [Worker -> Nat]
        BY DEF Types, WorkTypes
      <3>2. CASE active' = active
        BY <3>1, <3>2
      <3>3. ASSUME NEW n \in Nat, active' = [active EXCEPT ![w] = n]
            PROVE  active' \in [Worker -> Nat]
        BY <3>1, <3>3
      <3> QED BY <1>6, <3>2, <3>3
    <2>3. free' \in [Worker -> Nat]
      <3>1. free \in [Worker -> Nat]
        BY DEF Types, WorkTypes
      <3> QED BY <1>5, <3>1
    <2> QED BY <2>1, <2>2, <2>3 DEF WorkTypes
  <1>8. NothingFromDead'
    BY <1>1, <1>3, <1>4, <1>5, <1>6 DEF Types, NothingFromDead, WorkTypes, crewVars
  <1> QED BY <1>2, <1>7, <1>8 DEF Types

LEMMA DeleteWorkerTypes ==
    ASSUME NEW w \in Worker, Types, DeleteWorker(w)
    PROVE  /\ PoolTypes' /\ CrewTypes' /\ SlowTypes' /\ WorkTypes' /\ NothingFromDead'
           /\ Len(slots') = Len(slots)
  <1>1. /\ live' = live \ {w}
        /\ slots' = [i \in DOMAIN slots |-> IF slots[i] = w THEN Hole ELSE slots[i]]
        /\ worker_pool' = IF worker_pool = <<>> THEN <<>> ELSE Spliced(w)
        /\ inbox' = [inbox EXCEPT ![w] = <<>>]
        /\ active' = [active EXCEPT ![w] = 0]
        /\ free' = [free EXCEPT ![w] = 0]
        /\ UNCHANGED <<message_pool, arrived, sent, spawned, adding, slowVars, lastUsed, exists>>
    BY DEF DeleteWorker
  <1>2. PoolTypes'
    <2>1. worker_pool' \in Seq(Worker)
      BY <1>1, SplicedPool DEF Types, PoolTypes
    <2> QED BY <1>1, <2>1 DEF Types, PoolTypes
  <1>3. slots' \in Seq(Worker \cup {Hole}) /\ Len(slots') = Len(slots)
    <2> DEFINE n == Len(slots)
    <2>1. n \in Nat /\ DOMAIN slots = 1..n /\ \A i \in 1..n : slots[i] \in Worker \cup {Hole}
      BY DEF Types, CrewTypes
    <2> HIDE DEF n
    <2>2. slots' \in [1..n -> Worker \cup {Hole}]
      BY <1>1, <2>1
    <2> QED BY <2>1, <2>2 DEF n
  <1>4. CrewTypes'
    BY <1>1, <1>3 DEF Types, CrewTypes
  <1>5. SlowTypes'
    BY <1>1 DEF Types, SlowTypes, slowVars
  <1>6. WorkTypes' /\ NothingFromDead'
    BY <1>1 DEF Types, WorkTypes, NothingFromDead
  <1> QED BY <1>2, <1>3, <1>4, <1>5, <1>6

LEMMA LoopStepTypes ==
    ASSUME Types, RemoveNext \/ RemoveEnds \/ Remove \/ \E w \in Worker : SweepNext(w)
    PROVE  Types'
  <1>1. ASSUME NEW w \in Worker, SweepNext(w) PROVE Types'
    <2>1. DeleteWorker(w) /\ w \in sweep /\ sweep' = sweep \ {w} /\ UNCHANGED <<removing, removals>>
      BY <1>1 DEF SweepNext
    <2>2. exists' = exists /\ live' = live \ {w}
      BY <2>1 DEF DeleteWorker
    <2>3. /\ PoolTypes' /\ CrewTypes' /\ SlowTypes' /\ WorkTypes' /\ NothingFromDead'
          /\ Len(slots') = Len(slots)
      BY <2>1, DeleteWorkerTypes
    <2>4. LoopTypes' /\ OneLoop'
      BY <2>1, <2>2, <2>3 DEF Types, LoopTypes, OneLoop
    <2> QED BY <2>3, <2>4 DEF Types
  <1>2. CASE RemoveNext
    <2> DEFINE w == slots[removing]
    <2>1. /\ removing # 0 /\ removing # Len(slots) + 1 /\ w # Hole
          /\ DeleteWorker(w) /\ removing' = removing + 1 /\ UNCHANGED <<sweep, removals>>
      BY <1>2 DEF RemoveNext, Finished
    <2>2. /\ Len(slots) \in Nat /\ removing \in 1..Len(slots)
      BY <2>1 DEF Types, LoopTypes, CrewTypes
    <2>3. w \in Worker
      BY <2>1, <2>2 DEF Types, CrewTypes
    <2> HIDE DEF w
    <2>4. exists' = exists /\ live' = live \ {w}
      BY <2>1 DEF DeleteWorker
    <2>5. /\ PoolTypes' /\ CrewTypes' /\ SlowTypes' /\ WorkTypes' /\ NothingFromDead'
          /\ Len(slots') = Len(slots)
      BY <2>1, <2>3, DeleteWorkerTypes
    <2>6. sweep = {}
      BY <2>1 DEF Types, OneLoop
    <2>7. LoopTypes' /\ OneLoop'
      BY <2>1, <2>2, <2>4, <2>5, <2>6 DEF Types, LoopTypes, OneLoop
    <2> QED BY <2>5, <2>7 DEF Types
  <1>3. CASE RemoveEnds
    <2>1. /\ removing' = 0 /\ exists' \in {exists, FALSE}
          /\ worker_pool' = worker_pool
             \/ worker_pool' = IF worker_pool = <<>> THEN <<>> ELSE Spliced(Hole)
          /\ UNCHANGED <<message_pool, arrived, sent, crewVars, slowVars, workVars, lastUsed, sweep,
                         removals>>
      BY <1>3 DEF RemoveEnds
    <2>2. worker_pool' \in Seq(Worker)
      BY <2>1, SplicedPool DEF Types, PoolTypes
    <2>3. PoolTypes'
      BY <2>1, <2>2 DEF Types, PoolTypes
    <2>4. CrewTypes' /\ SlowTypes' /\ WorkTypes' /\ NothingFromDead'
      BY <2>1 DEF Types, CrewTypes, SlowTypes, WorkTypes, NothingFromDead, crewVars, slowVars,
                  workVars
    <2>5. LoopTypes' /\ OneLoop'
      <3>1. Len(slots') \in Nat
        BY <2>4 DEF CrewTypes
      <3>2. removing' \in 0..(Len(slots') + 1)
        BY <2>1, <3>1
      <3>3. exists' \in BOOLEAN
        BY <2>1 DEF Types, LoopTypes
      <3> QED BY <2>1, <3>2, <3>3 DEF Types, LoopTypes, OneLoop, crewVars
    <2> QED BY <2>3, <2>4, <2>5 DEF Types
  <1>4. CASE Remove
    <2>1. /\ removing' = 1 /\ removals < MaxRemove /\ removals' = removals + 1 /\ sweep = {}
          /\ UNCHANGED <<poolVars, crewVars, slowVars, workVars, lastUsed, exists, sweep>>
      BY <1>4 DEF Remove, Ready
    <2>2. PoolTypes' /\ CrewTypes' /\ SlowTypes' /\ WorkTypes' /\ NothingFromDead'
      BY <2>1 DEF Types, PoolTypes, CrewTypes, SlowTypes, WorkTypes, NothingFromDead, poolVars,
                  crewVars, slowVars, workVars
    <2>3. Len(slots') \in Nat
      BY <2>2 DEF CrewTypes
    <2>4. LoopTypes' /\ OneLoop'
      BY <2>1, <2>3, BoundsAreNumbers DEF Types, LoopTypes, OneLoop, crewVars
    <2> QED BY <2>2, <2>4 DEF Types
  <1> QED BY <1>1, <1>2, <1>3, <1>4

LEMMA RunTypes == Types /\ Run => Types'
  <1> SUFFICES ASSUME Types, Run PROVE Types'
    OBVIOUS
  <1>1. /\ removing = 0 /\ lastUsed' = {}
        /\ sweep' = sweep \/ sweep' = Unused \/ sweep' = {}
        /\ adding' = adding \/ (adding < MaxAdding /\ adding' = adding + 1)
        /\ UNCHANGED <<poolVars, slowVars, workVars, slots, live, spawned, exists, removing,
                       removals>>
    BY DEF Run, Ready
  <1>2. PoolTypes' /\ SlowTypes' /\ WorkTypes' /\ NothingFromDead'
    BY <1>1 DEF Types, PoolTypes, SlowTypes, WorkTypes, NothingFromDead, poolVars, slowVars, workVars
  <1>3. CrewTypes'
    BY <1>1, BoundsAreNumbers DEF Types, CrewTypes
  <1>4. LoopTypes' /\ OneLoop'
    BY <1>1 DEF Types, LoopTypes, OneLoop, Unused
  <1> QED BY <1>2, <1>3, <1>4 DEF Types

LEMMA AddWorkerTypes == ASSUME NEW w \in Worker, Types, AddWorker(w) PROVE Types'
  <1>1. /\ removing = 0 /\ sweep = {} /\ adding > 0 /\ adding' = adding - 1
        /\ spawned' = spawned \cup {w} /\ live' = live \cup {w}
        /\ slots' = Append(slots, w)
        /\ inbox' = [inbox EXCEPT ![w] = <<ForceFree>>]
        /\ UNCHANGED <<poolVars, loopVars, slowVars, active, free, lastUsed>>
    BY DEF AddWorker, Ready
  <1>2. PoolTypes' /\ SlowTypes' /\ OneLoop'
    BY <1>1 DEF Types, PoolTypes, SlowTypes, OneLoop, poolVars, slowVars, loopVars
  <1>3. slots' \in Seq(Worker \cup {Hole}) /\ Len(slots') \in Nat
    BY <1>1 DEF Types, CrewTypes
  <1>4. CrewTypes'
    BY <1>1, <1>3, BoundsAreNumbers DEF Types, CrewTypes
  <1>5. LoopTypes'
    BY <1>1, <1>3 DEF Types, LoopTypes, loopVars
  <1>6. WorkTypes'
    <2>1. <<ForceFree>> \in Seq(Message \cup {ForceFree})
      OBVIOUS
    <2> QED BY <1>1, <2>1 DEF Types, WorkTypes
  <1>7. NothingFromDead'
    BY <1>1 DEF Types, WorkTypes, NothingFromDead
  <1> QED BY <1>2, <1>4, <1>5, <1>6, <1>7 DEF Types

LEMMA SlowModeStepTypes == ASSUME NEW u \in Upstream, Types, SlowMode(u) PROVE Types'
  <1>1. /\ command[u] # <<>>
        /\ command' = [command EXCEPT ![u] = Tail(@)]
        /\ slowed' = [slowed EXCEPT ![u] = Head(command[u])]
        /\ UNCHANGED <<poolVars, crewVars, loopVars, workVars, isSlowMode, lastUsed>>
    BY DEF SlowMode
  <1>2. PoolTypes' /\ CrewTypes' /\ LoopTypes' /\ WorkTypes' /\ NothingFromDead' /\ OneLoop'
    BY <1>1 DEF Types, PoolTypes, CrewTypes, LoopTypes, WorkTypes, NothingFromDead, OneLoop,
                poolVars, crewVars, loopVars, workVars
  <1>3. command[u] \in Seq(BOOLEAN) /\ command \in [Upstream -> Seq(BOOLEAN)]
        /\ slowed \in [Upstream -> BOOLEAN] /\ isSlowMode \in BOOLEAN
    BY DEF Types, SlowTypes
  <1>4. Head(command[u]) \in BOOLEAN /\ Tail(command[u]) \in Seq(BOOLEAN)
    BY <1>1, <1>3, HeadTailProperties
  <1>5. command' \in [Upstream -> Seq(BOOLEAN)]
    BY <1>1, <1>3, <1>4
  <1>6. slowed' \in [Upstream -> BOOLEAN]
    BY <1>1, <1>3, <1>4
  <1> QED BY <1>1, <1>2, <1>3, <1>5, <1>6 DEF Types, SlowTypes

LEMMA TypesStep == Types /\ PoolIsAlive /\ [Next]_vars => Types'
  <1> SUFFICES ASSUME Types, PoolIsAlive, [Next]_vars PROVE Types'
    OBVIOUS
  <1>1. CASE UNCHANGED vars
    <2>1. UNCHANGED <<poolVars, crewVars, loopVars, slowVars, workVars, lastUsed>>
      BY <1>1 DEF vars
    <2>2. PoolTypes' /\ CrewTypes' /\ LoopTypes' /\ SlowTypes' /\ WorkTypes'
      BY <2>1 DEF Types, PoolTypes, CrewTypes, LoopTypes, SlowTypes, WorkTypes, poolVars, crewVars,
                  loopVars, slowVars, workVars
    <2>3. NothingFromDead' /\ OneLoop'
      BY <2>1 DEF Types, NothingFromDead, OneLoop, crewVars, loopVars, workVars
    <2> QED BY <2>2, <2>3 DEF Types
  <1> QED BY <1>1, ArriveTypes, RunTypes, LoopStepTypes, FreeMessageTypes, WorkerTypes,
             AddWorkerTypes, SlowModeStepTypes DEF Next

-----------------------------------------------------------------------------
(* The pool. *)

LEMMA PoolStep == Types /\ PoolIsAlive /\ [Next]_vars => PoolIsAlive'
  <1> SUFFICES ASSUME Types, PoolIsAlive, [Next]_vars PROVE PoolIsAlive'
    OBVIOUS
  <1> DEFINE n == Len(worker_pool)
  <1>1. /\ n \in Nat /\ DOMAIN worker_pool = 1..n /\ worker_pool \in Seq(Worker)
        /\ \A i \in 1..n : worker_pool[i] \in live
        /\ \A i, j \in 1..n : worker_pool[i] = worker_pool[j] => i = j
    BY DEF Types, PoolTypes, PoolIsAlive, Range
  <1>2. CASE UNCHANGED worker_pool /\ live \subseteq live'
    BY <1>2 DEF PoolIsAlive
  <1>3. CASE Arrive
    <2>1. CASE MustWait
      BY <1>2, <1>3, <2>1 DEF Arrive, crewVars
    <2>2. CASE ~ MustWait
      <3>1. worker_pool' = SubSeq(worker_pool, 1, n - 1) /\ live' = live /\ n \in Nat \ {0}
        BY <1>1, <1>3, <2>2 DEF Arrive, MustWait, crewVars
      <3> HIDE DEF n
      <3>2. n - 1 \in Int /\ \A i \in 1..(n - 1) : worker_pool[i] \in Worker
        BY <1>1, <3>1
      <3>3. /\ worker_pool' \in Seq(Worker) /\ Len(worker_pool') = n - 1
            /\ \A i \in 1..(n - 1) : worker_pool'[i] = worker_pool[i]
        <4>1. /\ SubSeq(worker_pool, 1, n - 1) \in Seq(Worker)
              /\ Len(SubSeq(worker_pool, 1, n - 1)) = IF 1 <= n - 1 THEN n - 1 - 1 + 1 ELSE 0
              /\ \A i \in 1..(n - 1 - 1 + 1) :
                    SubSeq(worker_pool, 1, n - 1)[i] = worker_pool[1 + i - 1]
          BY <3>2, SubSeqProperties
        <4> QED BY <3>1, <4>1
      <3>4. DOMAIN worker_pool' = 1..(n - 1)
        BY <3>3
      <3>5. \A i \in 1..(n - 1) : i \in 1..n
        BY <3>1
      <3> QED BY <1>1, <3>1, <3>3, <3>4, <3>5 DEF PoolIsAlive, Range
    <2> QED BY <2>1, <2>2
  <1>4. ASSUME NEW w \in Worker, FreeMessage(w) PROVE PoolIsAlive'
    <2>1. w \in live /\ live' = live
      BY <1>4 DEF FreeMessage, Types, WorkTypes, NothingFromDead, crewVars
    <2>2. CASE ~ NothingWaits \/ Listed(w)
      BY <1>2, <1>4, <2>1, <2>2 DEF FreeMessage
    <2>3. CASE NothingWaits /\ ~ Listed(w)
      <3>1. worker_pool' = Append(worker_pool, w)
        BY <1>4, <2>3 DEF FreeMessage
      <3>2. /\ DOMAIN worker_pool' = 1..(n + 1) /\ worker_pool'[n + 1] = w
            /\ \A i \in 1..n : worker_pool'[i] = worker_pool[i]
        BY <1>1, <3>1
      <3>3. \A i \in 1..n : worker_pool[i] # w
        BY <1>1, <2>3 DEF Listed
      <3> HIDE DEF n
      <3>4. \A i \in 1..(n + 1) : i \in 1..n \/ i = n + 1
        BY <1>1
      <3> QED BY <1>1, <2>1, <3>2, <3>3, <3>4 DEF PoolIsAlive, Range
    <2> QED BY <2>2, <2>3
  <1>5. ASSUME NEW w \in Worker, DeleteWorker(w) PROVE PoolIsAlive'
    <2>1. /\ live' = live \ {w}
          /\ worker_pool' = IF worker_pool = <<>> THEN <<>> ELSE Spliced(w)
      BY <1>5 DEF DeleteWorker
    <2>2. CASE worker_pool = <<>>
      BY <2>1, <2>2 DEF PoolIsAlive, Range
    <2>3. CASE worker_pool # <<>>
      BY <1>1, <2>1, <2>3, SplicedAlive DEF PoolIsAlive
    <2> QED BY <2>2, <2>3
  <1>6. CASE RemoveNext
    <2>1. slots[removing] \in Worker /\ DeleteWorker(slots[removing])
      BY <1>6 DEF RemoveNext, Finished, Types, LoopTypes, CrewTypes
    <2> QED BY <1>5, <2>1
  <1>7. CASE RemoveEnds
    <2>1. /\ live' = live
          /\ \/ worker_pool' = worker_pool
             \/ worker_pool' = IF worker_pool = <<>> THEN <<>> ELSE Spliced(Hole)
      BY <1>7 DEF RemoveEnds, crewVars
    <2>2. CASE worker_pool = <<>>
      BY <1>2, <2>1, <2>2
    <2>3. CASE worker_pool # <<>> /\ worker_pool' = Spliced(Hole)
      BY <1>1, <2>1, <2>3, SplicedAlive DEF PoolIsAlive
    <2> QED BY <1>2, <2>1, <2>2, <2>3
  <1>8. CASE Run \/ Remove
    BY <1>2, <1>8 DEF Run, Remove, poolVars, crewVars
  <1>9. ASSUME NEW w \in Worker, Take(w) \/ Callback(w) \/ Timer(w) PROVE PoolIsAlive'
    BY <1>2, <1>9 DEF Take, Callback, Timer, poolVars, crewVars
  <1>10. ASSUME NEW w \in Worker, AddWorker(w) PROVE PoolIsAlive'
    BY <1>2, <1>10 DEF AddWorker, poolVars
  <1>11. ASSUME NEW w \in Worker, SweepNext(w) PROVE PoolIsAlive'
    BY <1>5, <1>11 DEF SweepNext
  <1>12. ASSUME NEW u \in Upstream, SlowMode(u) PROVE PoolIsAlive'
    BY <1>2, <1>12 DEF SlowMode, poolVars, crewVars
  <1>13. CASE UNCHANGED vars
    BY <1>2, <1>13 DEF vars, poolVars, crewVars
  <1> QED BY <1>3, <1>4, <1>6, <1>7, <1>8, <1>9, <1>10, <1>11, <1>12, <1>13 DEF Next

-----------------------------------------------------------------------------
(* The queue, and slow mode. *)

Queue == NoIdleWithBacklog /\ InOrder /\ SlowModeTracksBacklog

LEMMA SetSlowModeSets ==
    ASSUME NEW on, SetSlowMode(on) PROVE isSlowMode' = on
  BY DEF SetSlowMode

LEMMA QueueStep == Types /\ Queue /\ [Next]_vars => Queue'
  <1> SUFFICES ASSUME Types, Queue, [Next]_vars PROVE Queue'
    OBVIOUS
  <1> DEFINE n == Len(message_pool)
  <1>1. /\ n \in Nat /\ DOMAIN message_pool = 1..n /\ message_pool \in Seq(Message)
        /\ sent \in Nat /\ arrived \in Nat /\ isSlowMode \in BOOLEAN /\ worker_pool \in Seq(Worker)
    BY DEF Types, PoolTypes, SlowTypes
  <1>2. /\ message_pool # <<>> => worker_pool = <<>>
        /\ sent + n = arrived /\ \A i \in 1..n : message_pool[i] = sent + i
        /\ (~ isSlowMode => n < Trigger) /\ (isSlowMode => n > Deactivate)
    BY <1>1 DEF Queue, NoIdleWithBacklog, InOrder, SlowModeTracksBacklog
  <1>3. CASE UNCHANGED <<message_pool, sent, arrived, isSlowMode>>
             /\ (worker_pool = <<>> => worker_pool' = <<>>)
    BY <1>3 DEF Queue, NoIdleWithBacklog, InOrder, SlowModeTracksBacklog
  <1>4. CASE Arrive
    <2>1. arrived' = arrived + 1
      BY <1>4 DEF Arrive
    <2>2. CASE MustWait
      <3>1. /\ message_pool' = Append(message_pool, arrived + 1)
            /\ UNCHANGED <<worker_pool, sent>>
            /\ IF Overfull(n + 1) THEN SetSlowMode(TRUE) ELSE UNCHANGED slowVars
        BY <1>4, <2>2 DEF Arrive
      <3>2. /\ Len(message_pool') = n + 1 /\ DOMAIN message_pool' = 1..(n + 1)
            /\ message_pool'[n + 1] = arrived + 1
            /\ \A i \in 1..n : message_pool'[i] = message_pool[i]
        BY <1>1, <3>1
      <3> HIDE DEF n
      <3>3. worker_pool' = <<>>
        BY <1>2, <2>2, <3>1 DEF MustWait
      <3>4. InOrder'
        <4>0. sent + (n + 1) = arrived + 1
          BY <1>1, <1>2
        <4>1. ASSUME NEW i \in 1..(n + 1) PROVE message_pool'[i] = sent + i
          <5>1. CASE i = n + 1
            BY <3>2, <4>0, <5>1
          <5>2. CASE i # n + 1
            <6>1. i \in 1..n
              BY <1>1, <5>2
            <6> QED BY <1>2, <3>2, <6>1
          <5> QED BY <5>1, <5>2
        <4>2. sent' + Len(message_pool') = arrived'
          BY <2>1, <3>1, <3>2, <4>0
        <4> QED BY <3>1, <3>2, <4>1, <4>2 DEF InOrder
      <3>5. SlowModeTracksBacklog'
        <4>1. CASE Overfull(n + 1)
          <5>1. isSlowMode' = TRUE
            BY <3>1, <4>1, SetSlowModeSets
          <5>2. Len(message_pool') > Deactivate
            BY <1>1, <3>2, <4>1, BoundsAreNumbers DEF Overfull
          <5> QED BY <5>1, <5>2 DEF SlowModeTracksBacklog
        <4>2. CASE ~ Overfull(n + 1)
          <5>1. isSlowMode' = isSlowMode
            BY <3>1, <4>2 DEF slowVars
          <5>2. isSlowMode => n + 1 > Deactivate
            BY <1>1, <1>2, BoundsAreNumbers
          <5>3. ~ isSlowMode => n + 1 < Trigger
            BY <1>1, <4>2, BoundsAreNumbers DEF Overfull
          <5> QED BY <3>2, <5>1, <5>2, <5>3 DEF SlowModeTracksBacklog
        <4> QED BY <4>1, <4>2
      <3> QED BY <3>3, <3>4, <3>5 DEF Queue, NoIdleWithBacklog
    <2>3. CASE ~ MustWait
      <3>1. /\ message_pool' = message_pool /\ isSlowMode' = isSlowMode /\ sent' = arrived + 1
            /\ message_pool = <<>>
        BY <1>4, <2>3 DEF Arrive, MustWait, slowVars
      <3>2. n = 0
        BY <3>1
      <3> QED BY <1>1, <1>2, <2>1, <3>1, <3>2
              DEF Queue, NoIdleWithBacklog, InOrder, SlowModeTracksBacklog
    <2> QED BY <2>2, <2>3
  <1>5. ASSUME NEW w \in Worker, FreeMessage(w) PROVE Queue'
    <2>1. arrived' = arrived
      BY <1>5 DEF FreeMessage
    <2>2. CASE NothingWaits
      <3>1. UNCHANGED <<message_pool, sent, isSlowMode>> /\ message_pool = <<>>
        BY <1>5, <2>2 DEF FreeMessage, NothingWaits, slowVars
      <3> QED BY <1>2, <2>1, <3>1
              DEF Queue, NoIdleWithBacklog, InOrder, SlowModeTracksBacklog
    <2>3. CASE ~ NothingWaits
      <3>1. /\ message_pool' = Tail(message_pool) /\ sent' = Head(message_pool)
            /\ worker_pool' = worker_pool /\ message_pool # <<>>
            /\ IF isSlowMode /\ n - 1 <= Deactivate THEN SetSlowMode(FALSE) ELSE UNCHANGED slowVars
        BY <1>5, <2>3 DEF FreeMessage, NothingWaits, Oldest
      <3>2. /\ n \in Nat \ {0} /\ Head(message_pool) = message_pool[1]
            /\ Len(message_pool') = n - 1 /\ DOMAIN message_pool' = 1..(n - 1)
            /\ \A i \in 1..(n - 1) : message_pool'[i] = message_pool[i + 1]
        BY <1>1, <3>1
      <3> HIDE DEF n
      <3>3. sent' = sent + 1
        BY <1>2, <3>1, <3>2
      <3>4. InOrder'
        <4>1. ASSUME NEW i \in 1..(n - 1) PROVE message_pool'[i] = sent' + i
          <5>1. i + 1 \in 1..n
            BY <1>1
          <5> QED BY <1>1, <1>2, <3>2, <3>3, <5>1
        <4> QED BY <1>1, <1>2, <2>1, <3>2, <3>3, <4>1 DEF InOrder
      <3>5. SlowModeTracksBacklog'
        <4>1. CASE isSlowMode /\ n - 1 <= Deactivate
          <5>1. isSlowMode' = FALSE
            BY <3>1, <4>1, SetSlowModeSets
          <5>2. Len(message_pool') < Trigger
            BY <1>1, <3>2, <4>1, BoundsAreNumbers
          <5> QED BY <5>1, <5>2 DEF SlowModeTracksBacklog
        <4>2. CASE ~ (isSlowMode /\ n - 1 <= Deactivate)
          <5>1. isSlowMode' = isSlowMode
            BY <3>1, <4>2 DEF slowVars
          <5>2. CASE isSlowMode
            BY <1>1, <3>2, <4>2, <5>1, <5>2, BoundsAreNumbers DEF SlowModeTracksBacklog
          <5>3. CASE ~ isSlowMode
            BY <1>1, <1>2, <3>2, <5>1, <5>3, BoundsAreNumbers DEF SlowModeTracksBacklog
          <5> QED BY <5>2, <5>3
        <4> QED BY <4>1, <4>2
      <3>6. worker_pool' = <<>>
        BY <1>2, <3>1
      <3> QED BY <3>4, <3>5, <3>6 DEF Queue, NoIdleWithBacklog
    <2> QED BY <2>2, <2>3
  <1>6. ASSUME NEW w, DeleteWorker(w) PROVE Queue'
    BY <1>3, <1>6 DEF DeleteWorker, slowVars
  <1>7. CASE RemoveNext
    BY <1>6, <1>7 DEF RemoveNext
  <1>8. CASE RemoveEnds
    BY <1>3, <1>8 DEF RemoveEnds, slowVars
  <1>9. CASE Run \/ Remove
    BY <1>3, <1>9 DEF Run, Remove, poolVars, slowVars
  <1>10. ASSUME NEW w \in Worker, Take(w) \/ Callback(w) \/ Timer(w) PROVE Queue'
    BY <1>3, <1>10 DEF Take, Callback, Timer, poolVars, slowVars
  <1>11. ASSUME NEW w \in Worker, AddWorker(w) PROVE Queue'
    BY <1>3, <1>11 DEF AddWorker, poolVars, slowVars
  <1>12. ASSUME NEW w \in Worker, SweepNext(w) PROVE Queue'
    BY <1>6, <1>12 DEF SweepNext
  <1>13. ASSUME NEW u \in Upstream, SlowMode(u) PROVE Queue'
    BY <1>3, <1>13 DEF SlowMode, poolVars
  <1>14. CASE UNCHANGED vars
    BY <1>3, <1>14 DEF vars, poolVars, slowVars
  <1> QED BY <1>4, <1>5, <1>7, <1>8, <1>9, <1>10, <1>11, <1>12, <1>13, <1>14 DEF Next

-----------------------------------------------------------------------------
(* The upstream operators. *)

LEMMA LastOfAppend ==
    ASSUME NEW S, NEW q \in Seq(S), NEW e \in S
    PROVE  Append(q, e) # <<>> /\ Append(q, e)[Len(Append(q, e))] = e
  BY AppendProperties

LEMMA LastOfTail ==
    ASSUME NEW S, NEW q \in Seq(S), q # <<>>
    PROVE  /\ Tail(q) = <<>> => Head(q) = q[Len(q)]
           /\ Tail(q) # <<>> => Tail(q)[Len(Tail(q))] = q[Len(q)]
  <1> DEFINE n == Len(q)
             t == Tail(q)
  <1>1. n \in Nat \ {0} /\ Head(q) = q[1]
    OBVIOUS
  <1>2. t \in Seq(S) /\ Len(t) = n - 1 /\ \A i \in 1..(n - 1) : t[i] = q[i + 1]
    OBVIOUS
  <1> HIDE DEF n, t
  <1>3. t = <<>> => n = 1
    BY <1>1, <1>2
  <1>4. t # <<>> => t[n - 1] = q[n]
    <2>1. t # <<>> => n - 1 # 0
      BY <1>1, <1>2
    <2>2. n - 1 # 0 => n - 1 \in 1..(n - 1) /\ (n - 1) + 1 = n
      BY <1>1
    <2> QED BY <1>2, <2>1, <2>2
  <1> QED BY <1>1, <1>2, <1>3, <1>4 DEF n, t

Follows(u) ==
    isSlowMode = IF command[u] = <<>> THEN slowed[u] ELSE command[u][Len(command[u])]

LEMMA SetSlowModeFollows ==
    ASSUME SlowTypes, NEW on \in BOOLEAN, SetSlowMode(on) PROVE UpstreamFollows'
  <1>1. /\ isSlowMode' = on
        /\ command' = [u \in Upstream |-> Append(command[u], on)]
    BY DEF SetSlowMode
  <1>2. ASSUME NEW u \in Upstream PROVE Follows(u)'
    <2>1. command'[u] = Append(command[u], on)
      BY <1>1
    <2>2. command[u] \in Seq(BOOLEAN)
      BY DEF SlowTypes
    <2>3. command'[u] # <<>> /\ command'[u][Len(command'[u])] = on
      BY <2>1, <2>2, LastOfAppend
    <2> QED BY <1>1, <2>3, Zenon DEF Follows
  <1> QED BY <1>2, Zenon DEF Follows, UpstreamFollows

LEMMA FollowStep == Types /\ UpstreamFollows /\ [Next]_vars => UpstreamFollows'
  <1> SUFFICES ASSUME Types, UpstreamFollows, [Next]_vars PROVE UpstreamFollows'
    OBVIOUS
  <1>1. CASE UNCHANGED slowVars
    BY <1>1, Zenon DEF slowVars, UpstreamFollows
  <1>2. ASSUME NEW on \in BOOLEAN, SetSlowMode(on) PROVE UpstreamFollows'
    BY <1>2, SetSlowModeFollows DEF Types
  <1>3. CASE Arrive
    <2>1. SetSlowMode(TRUE) \/ UNCHANGED slowVars
      BY <1>3 DEF Arrive
    <2> QED BY <1>1, <1>2, <2>1
  <1>4. ASSUME NEW w \in Worker, FreeMessage(w) PROVE UpstreamFollows'
    <2>1. SetSlowMode(FALSE) \/ UNCHANGED slowVars
      BY <1>4 DEF FreeMessage
    <2> QED BY <1>1, <1>2, <2>1
  <1>5. ASSUME NEW u \in Upstream, SlowMode(u) PROVE UpstreamFollows'
    <2>1. /\ command[u] # <<>> /\ isSlowMode' = isSlowMode
          /\ command' = [command EXCEPT ![u] = Tail(@)]
          /\ slowed' = [slowed EXCEPT ![u] = Head(command[u])]
      BY <1>5 DEF SlowMode
    <2>2. /\ command \in [Upstream -> Seq(BOOLEAN)] /\ slowed \in [Upstream -> BOOLEAN]
          /\ command[u] \in Seq(BOOLEAN)
      BY DEF Types, SlowTypes
    <2>3. ASSUME NEW v \in Upstream PROVE Follows(v)'
      <3>1. Follows(v)
        BY Zenon DEF Follows, UpstreamFollows
      <3>2. CASE v # u
        <4>1. command'[v] = command[v] /\ slowed'[v] = slowed[v]
          BY <2>1, <2>2, <3>2
        <4> QED BY <2>1, <3>1, <4>1, Zenon DEF Follows
      <3>3. CASE v = u
        <4>1. command'[v] = Tail(command[v]) /\ slowed'[v] = Head(command[v])
          BY <2>1, <2>2, <3>3
        <4>2. isSlowMode = command[v][Len(command[v])]
          BY <2>1, <3>1, <3>3, Zenon DEF Follows
        <4>3. /\ Tail(command[v]) = <<>> => Head(command[v]) = command[v][Len(command[v])]
              /\ Tail(command[v]) # <<>> =>
                    Tail(command[v])[Len(Tail(command[v]))] = command[v][Len(command[v])]
          BY <2>1, <2>2, <3>3, LastOfTail
        <4> QED BY <2>1, <4>1, <4>2, <4>3, Zenon DEF Follows
      <3> QED BY <3>2, <3>3
    <2> QED BY <2>3, Zenon DEF Follows, UpstreamFollows
  <1>6. ASSUME NEW w, DeleteWorker(w) PROVE UpstreamFollows'
    BY <1>1, <1>6 DEF DeleteWorker
  <1>7. CASE RemoveNext
    BY <1>6, <1>7 DEF RemoveNext
  <1>8. CASE Run \/ Remove \/ RemoveEnds
    BY <1>1, <1>8 DEF Run, Remove, RemoveEnds
  <1>9. ASSUME NEW w \in Worker, Take(w) \/ Callback(w) \/ Timer(w) \/ AddWorker(w)
        PROVE  UpstreamFollows'
    BY <1>1, <1>9 DEF Take, Callback, Timer, AddWorker
  <1>10. ASSUME NEW w \in Worker, SweepNext(w) PROVE UpstreamFollows'
    BY <1>6, <1>10 DEF SweepNext
  <1>11. CASE UNCHANGED vars
    BY <1>1, <1>11 DEF vars
  <1> QED BY <1>3, <1>4, <1>5, <1>7, <1>8, <1>9, <1>10, <1>11 DEF Next

-----------------------------------------------------------------------------
(* The removal of the operator. *)

Removal == Entered /\ RemovedLeavesNone

LEMMA RemovalStep == Types /\ Removal /\ [Next]_vars => Removal'
  <1> SUFFICES ASSUME Types, Removal, [Next]_vars PROVE Removal'
    OBVIOUS
  <1> USE DEF Removal
  <1>1. /\ Len(slots) \in Nat /\ DOMAIN slots = 1..Len(slots)
        /\ removing \in 0..(Len(slots) + 1) /\ removing \in Nat
    BY DEF Types, CrewTypes, LoopTypes
  <1>2. CASE UNCHANGED <<slots, live, exists, removing>>
    BY <1>2 DEF Entered, RemovedLeavesNone
  <1>3. ASSUME NEW w, DeleteWorker(w), NEW v \in live', NEW i \in DOMAIN slots, slots[i] = v
        PROVE  v \in live /\ v # w /\ i \in DOMAIN slots' /\ slots'[i] = v
    BY <1>3 DEF DeleteWorker
  <1>4. ASSUME NEW w, DeleteWorker(w) PROVE RemovedLeavesNone'
    BY <1>4 DEF DeleteWorker, RemovedLeavesNone
  <1>5. ASSUME NEW w \in Worker, SweepNext(w) PROVE Removal'
    <2>1. DeleteWorker(w) /\ removing' = removing
      BY <1>5 DEF SweepNext
    <2>2. live' \subseteq live
      BY <2>1 DEF DeleteWorker
    <2>3. Entered'
      BY <1>3, <2>1, <2>2 DEF Entered
    <2> QED BY <1>4, <2>1, <2>3
  <1>6. CASE RemoveNext
    <2> DEFINE w == slots[removing]
    <2>1. DeleteWorker(w) /\ removing' = removing + 1
      BY <1>6 DEF RemoveNext
    <2>2. live' \subseteq live
      BY <2>1 DEF DeleteWorker
    <2>3. ASSUME NEW v \in live' PROVE \E i \in DOMAIN slots' : slots'[i] = v /\ removing' <= i
      <3>1. PICK i \in DOMAIN slots : slots[i] = v /\ removing <= i
        BY <2>2 DEF Entered
      <3>2. v # w /\ i \in DOMAIN slots' /\ slots'[i] = v
        BY <1>3, <2>1, <3>1
      <3>3. i # removing
        BY <3>1, <3>2
      <3>4. removing + 1 <= i
        BY <1>1, <3>1, <3>3
      <3> QED BY <2>1, <3>2, <3>4
    <2> QED BY <1>4, <2>1, <2>3 DEF Entered
  <1>7. CASE RemoveEnds
    <2>1. /\ removing' = 0 /\ UNCHANGED <<slots, live>>
          /\ exists' = exists \/ (exists' = FALSE /\ Finished)
      BY <1>7 DEF RemoveEnds, crewVars
    <2>2. Entered'
      BY <1>1, <2>1 DEF Entered
    <2>3. RemovedLeavesNone'
      <3>1. CASE exists' = exists
        BY <2>1, <3>1 DEF RemovedLeavesNone
      <3>2. CASE Finished
        <4>1. ASSUME NEW v \in live PROVE FALSE
          <5>1. PICK i \in 1..Len(slots) : removing <= i
            BY <1>1 DEF Entered
          <5> QED BY <1>1, <3>2, <5>1 DEF Finished
        <4> QED BY <2>1, <4>1 DEF RemovedLeavesNone
      <3> QED BY <2>1, <3>1, <3>2
    <2> QED BY <2>2, <2>3
  <1>8. CASE Remove
    <2>1. removing' = 1 /\ UNCHANGED <<slots, live, exists>>
      BY <1>8 DEF Remove, crewVars
    <2>2. \A i \in DOMAIN slots : 1 <= i
      BY <1>1
    <2> QED BY <2>1, <2>2 DEF Entered, RemovedLeavesNone
  <1>9. ASSUME NEW w \in Worker, AddWorker(w) PROVE Removal'
    <2>1. /\ exists /\ exists' = exists /\ removing = 0 /\ removing' = removing
          /\ live' = live \cup {w} /\ slots' = Append(slots, w)
      BY <1>9 DEF AddWorker, Ready, loopVars
    <2>2. slots \in Seq(Worker \cup {Hole})
      BY DEF Types, CrewTypes
    <2>3. /\ DOMAIN slots' = 1..(Len(slots) + 1) /\ slots'[Len(slots) + 1] = w
          /\ \A i \in 1..Len(slots) : slots'[i] = slots[i]
      BY <2>1, <2>2
    <2>4. ASSUME NEW v \in live' PROVE \E i \in DOMAIN slots' : slots'[i] = v /\ removing' <= i
      <3>1. CASE v = w
        <4>1. Len(slots) + 1 \in DOMAIN slots' /\ removing' <= Len(slots) + 1
          BY <1>1, <2>1, <2>3
        <4> QED BY <2>3, <3>1, <4>1
      <3>2. CASE v # w
        <4>1. PICK i \in 1..Len(slots) : slots[i] = v /\ removing <= i
          BY <1>1, <2>1, <3>2 DEF Entered
        <4>2. i \in DOMAIN slots'
          BY <1>1, <2>3
        <4> QED BY <2>1, <2>3, <4>1, <4>2
      <3> QED BY <3>1, <3>2
    <2> QED BY <2>1, <2>4 DEF Entered, RemovedLeavesNone
  <1>10. CASE Arrive \/ Run
    BY <1>2, <1>10 DEF Arrive, Run, crewVars, loopVars
  <1>11. ASSUME NEW w \in Worker, FreeMessage(w) \/ Take(w) \/ Callback(w) \/ Timer(w)
         PROVE  Removal'
    BY <1>2, <1>11 DEF FreeMessage, Take, Callback, Timer, crewVars, loopVars
  <1>12. ASSUME NEW u \in Upstream, SlowMode(u) PROVE Removal'
    BY <1>2, <1>12 DEF SlowMode, crewVars, loopVars
  <1>13. CASE UNCHANGED vars
    BY <1>2, <1>13 DEF vars, crewVars, loopVars
  <1> QED BY <1>5, <1>6, <1>7, <1>8, <1>9, <1>10, <1>11, <1>12, <1>13 DEF Next

-----------------------------------------------------------------------------
(* The theorems. *)

IInv == Types /\ PoolIsAlive /\ Queue /\ UpstreamFollows /\ Removal

LEMMA InitIInv == Init => IInv
  <1> SUFFICES ASSUME Init PROVE IInv
    OBVIOUS
  <1>1. Types
    BY TypesInit
  <1>2. worker_pool = <<>> /\ message_pool = <<>> /\ sent = 0 /\ arrived = 0 /\ isSlowMode = FALSE
    BY DEF Init
  <1>3. PoolIsAlive
    BY <1>2 DEF PoolIsAlive, Range
  <1>4. Queue
    BY <1>2, BoundsAreNumbers DEF Queue, NoIdleWithBacklog, InOrder, SlowModeTracksBacklog
  <1>5. UpstreamFollows
    <2>1. \A u \in Upstream : command[u] = <<>> /\ slowed[u] = FALSE
      BY DEF Init
    <2> QED BY <1>2, <2>1, Zenon DEF UpstreamFollows
  <1>6. Removal
    <2>1. /\ exists = TRUE /\ removing = 0 /\ live = 1..InitWorkers
          /\ slots = [i \in 1..InitWorkers |-> i]
      BY DEF Init
    <2>2. \A i \in 1..InitWorkers : slots[i] = i /\ removing <= i /\ i \in DOMAIN slots
      BY <2>1, WorkerAssumption, WorkersAreNumbers
    <2> QED BY <2>1, <2>2 DEF Removal, Entered, RemovedLeavesNone
  <1> QED BY <1>1, <1>3, <1>4, <1>5, <1>6 DEF IInv

\* The inductive invariant.
THEOREM RemoteInvariance == Spec => []IInv
  <1>1. IInv /\ [Next]_vars => IInv'
    BY TypesStep, PoolStep, QueueStep, FollowStep, RemovalStep DEF IInv
  <1> QED BY InitIInv, <1>1, PTL DEF Spec

\* Every variable keeps its type.
THEOREM RemoteTypeCorrect == Spec => []TypeOK
  <1>1. IInv => TypeOK
    BY TypesGiveTypeOK DEF IInv
  <1> QED BY RemoteInvariance, <1>1, PTL

\* push_message only gives messages to workers that run, however the pool is
\* spliced (458, 784).
THEOREM PoolAlive == Spec => []PoolIsAlive
  <1>1. IInv => PoolIsAlive
    BY DEF IInv
  <1> QED BY RemoteInvariance, <1>1, PTL

\* No message waits while a worker is in the pool (450-461, 1333-1349).
THEOREM NoneWaitsForNothing == Spec => []NoIdleWithBacklog
  <1>1. IInv => NoIdleWithBacklog
    BY DEF IInv, Queue
  <1> QED BY RemoteInvariance, <1>1, PTL

\* Workers get the messages in the order they came, each once (450-461, 1333-1349).
THEOREM QueueSafe == Spec => []InOrder
  <1>1. IInv => InOrder
    BY DEF IInv, Queue
  <1> QED BY RemoteInvariance, <1>1, PTL

\* Slow mode is on when the queue is too long and off when it is short (453,
\* 482-508, 1351).
THEOREM SlowModeFollows == Spec => []SlowModeTracksBacklog
  <1>1. IInv => SlowModeTracksBacklog
    BY DEF IInv, Queue
  <1> QED BY RemoteInvariance, <1>1, PTL

\* What an upstream operator was last told says whether slow mode is on (2121-2141).
THEOREM UpstreamSafe == Spec => []UpstreamFollows
  <1>1. IInv => UpstreamFollows
    BY DEF IInv, Queue
  <1> QED BY RemoteInvariance, <1>1, PTL

\* When remove_cluster deletes the operator, no Web Worker of it runs any more
\* (2654-2670).
THEOREM RemovalSafe == Spec => []RemovedLeavesNone
  <1>1. IInv => RemovedLeavesNone
    BY DEF IInv, Removal
  <1> QED BY RemoteInvariance, <1>1, PTL
=============================================================================
