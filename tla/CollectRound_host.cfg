\* Two rounds on a host with a producer and another operator.
SPECIFICATION FairSpec
CONSTANTS
    Gone = Gone
    Cid = {0, 1}
    Start <- TwoPools
    Producer = {0}
    MaxUid = 4
    MaxRound = 2
    MaxKill = 1
INVARIANTS TypeOK RoundEndsLast LateOwes
PROPERTY RoundEnds
\* With every round over there is nothing left to do.
CHECK_DEADLOCK FALSE
