\* Two hosts and a browser register, leave and come back around the start of a
\* topology of three operators.
SPECIFICATION FairSpec
CONSTANTS
    h1 = h1
    h2 = h2
    b1 = b1
    producer = producer
    filter = filter
    consumer = consumer
    Host = {h1, h2}
    Browser = {b1}
    Op = {producer, filter, consumer}
    BrowserOnly = {consumer}
    Operators <- Three
    Bindings <- Line
    Nobody = Nobody
    MaxId = 4
    MaxLost = 2
INVARIANTS TypeOK OneEntryEach BoundAfterRun
PROPERTIES StartEnds HostsCollect
\* With the topology started there is nothing left to do.
CHECK_DEADLOCK FALSE
