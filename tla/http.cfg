SPECIFICATION FairSpec
CONSTANTS
    Threads = {t1, t2}
    Lines = {"plaintext", "json", "other", "baduri", "malformed"}
    Versions = {0, 1}
    HeaderBlocks <- Blocks
    MaxRequests = 2
    MaxTime = 5
INVARIANTS
    TypeOK
    RequestsAsSent
    BufferInStep
    DateWithinClock
PROPERTY TaskEnds
\* the loop ends, and a client may stay silent
CHECK_DEADLOCK FALSE
