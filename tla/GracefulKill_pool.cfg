\* Two upstream hosts, one of them with two workers, whose acknowledgements share
\* cbtable; the pool starts with one worker.
SPECIFICATION FairSpec
CONSTANTS
    w1 = w1  w2 = w2
    s1 = s1  s2 = s2
    f1 = f1  f2 = f2  f3 = f3
    Worker <- TwoWorkers
    InitPool <- LoneWorker
    SrcHost = {s1, s2}
    Feeder = {f1, f2, f3}
    HostOf <- TwoAndOne
INVARIANTS TypeOK OnlyRequestedInFlight OnlyIdleLeave BusyKeepSockets AnsweredAtMostOnce
PROPERTIES RetiringIsUnfed RetiringLeaves
\* With every request served there is nothing left to do.
CHECK_DEADLOCK FALSE
