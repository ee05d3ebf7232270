\* One migration after the other in a triangle that starts on one host.
SPECIFICATION FairSpec
CONSTANTS
    h1 = h1  h2 = h2  NoHost = NoHost
    Host = {h1, h2}
    Op <- Three
    Topology <- Triangle
    Start <- Together
    MaxMig = 2
    Overlap = "none"
INVARIANTS NoDanglingBinding UpstreamNeverCut SocketsAreBindings
PROPERTIES KeepsGraph NearMigrationEnds
\* Once the last migration is over, or stuck, nothing is left to do.
CHECK_DEADLOCK FALSE
