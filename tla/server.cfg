SPECIFICATION FairSpec
CONSTANTS
    Conns = {c1, c2}
    Addrs = {a1, a2}
    Kinds = {"HTTP", "TUN"}
    MaxInbounds = 2
    MaxAddrs = 2
INVARIANTS
    TypeOK
    BindsInOrder
    OneDownAllDown
    CleanExit
PROPERTIES
    ConnectionEnds
    ServerEnds
\* the process may end, and a client may stay silent
CHECK_DEADLOCK FALSE
