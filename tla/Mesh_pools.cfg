\* Of both operators one worker from the start, and one to come; two bindings.
SPECIFICATION FairSpec
CONSTANTS
    a1 = a1  a2 = a2  b1 = b1  b2 = b2  b3 = b3
    WorkerA = {a1, a2}
    StartA = {a1}
    WorkerB = {b1, b2}
    StartB <- Lone
    MaxBinds = 2
INVARIANTS NoWorkerMissed SocketsPerBind DeadAreUnbound
PROPERTIES BornIsFed
\* With every message handled there is nothing left to do.
CHECK_DEADLOCK FALSE
