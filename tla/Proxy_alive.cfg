\* A setup message may end the proxy.
SPECIFICATION ProxySpec
CONSTANTS
    Sender = {0, 1}
    OpOf <- AllOfZero
    Web = {1, 4}
    None = None
    MaxLink = 2
    MaxMsg = 3
INVARIANT ProxyAlive
\* A handler that throws takes the proxy with it.
CHECK_DEADLOCK FALSE
