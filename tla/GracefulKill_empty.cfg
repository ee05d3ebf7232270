\* Both workers of the pool ask to be killed before either is removed.
SPECIFICATION Spec
CONSTANTS
    w1 = w1  w2 = w2
    s1 = s1  s2 = s2
    f1 = f1  f2 = f2  f3 = f3
    Worker <- TwoWorkers
    InitPool <- StartPool
    SrcHost = {s1}
    Feeder = {f1, f2}
    HostOf <- BothOnS1
INVARIANTS PoolNeverEmpty
CHECK_DEADLOCK FALSE
