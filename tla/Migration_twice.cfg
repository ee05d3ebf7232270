\* Two migrations at the same time.
SPECIFICATION Spec
CONSTANTS
    h1 = h1  h2 = h2  NoHost = NoHost
    Host = {h1, h2}
    Op <- Three
    Topology <- Chain
    Start <- Together
    MaxMig = 2
    Overlap = "distinct"
INVARIANTS TopologyKept
\* Once the last migration is over, or stuck, nothing is left to do.
CHECK_DEADLOCK FALSE
