\* Two workers, two browsers, with every order of their routes, setups and sockets.
\* Two routes may be to one browser, and three messages run off the end of a list.
SPECIFICATION ProxySpec
CONSTANTS
    Sender = {0, 1}
    OpOf <- AllOfZero
    Web = {1, 4}
    None = None
    MaxLink = 2
    MaxMsg = 3
INVARIANTS ProxyTypeOK SetupOnce
PROPERTY TakesTurns
\* A handler that throws takes the proxy with it.
CHECK_DEADLOCK FALSE
