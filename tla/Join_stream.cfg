\* Two operators with a worker each, bound up to twice, at a time or in turn.
SPECIFICATION Spec
CONSTANTS
    f1 = f1  f2 = f2
    Cid = {0, 1}
    Feeder = {f1, f2}
    OperatorOf <- OneEach
    Tagged = {0, 1}
    MaxMsg = 3
    MaxBind = 2
INVARIANTS KnowsOperators OrderIsConnected
PROPERTIES NeverAgain JoinIsWhole
\* Once every message is taken there is nothing left to do.
CHECK_DEADLOCK FALSE
