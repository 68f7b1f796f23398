SPECIFICATION Spec
CONSTANTS
    Commands = {1, 2, 3}
    NameLens = {1}
    DomainLens = {255}
    MaxPayload = 3
    BufCap = 3
    EarlyPeers = {TRUE}
INVARIANT StreamIntact
CHECK_DEADLOCK FALSE
