\* Two workers at the start, which a deletion or a throw may both take, and two more
\* to come; four messages, so that a queue of three, at which the controller adds a
\* worker, may follow one handed out.  Slow mode from four until none waits.
SPECIFICATION FairSpec
CONSTANTS
    Worker <- FourWorkers
    InitWorkers = 2
    Upstream = {u1}
    Concurrency = 2
    Trigger = 4
    Deactivate = 0
    MaxMsg = 4
    MaxDeleted = 2
    MaxRemove = 1
    MaxAdding = 1
    MaxFree = 1
INVARIANTS TypeOK NoIdleWithBacklog PoolIsAlive InOrder SlowModeTracksBacklog UpstreamFollows RemovedLeavesNone
PROPERTY BacklogMoves
\* With no message on its way there is nothing left to do once the operator is gone.
CHECK_DEADLOCK FALSE
