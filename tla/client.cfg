SPECIFICATION FairSpec
CONSTANTS
    Commands = {1, 2, 3}
    NameLens = {0, 1, 255, 256}
    DomainLens = {255, 256}
    MaxPayload = 3
    BufCap = 3
    EarlyPeers = {TRUE, FALSE}
INVARIANTS
    TypeOK
    Authorised
    FramesFit
    SuccessIsGranted
    OnlyPrefixLost
PROPERTIES
    ImplementsTunnel
    CallReturns
\* a call that has returned, and a proxy that waits, have nothing left to do
CHECK_DEADLOCK FALSE
