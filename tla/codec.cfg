SPECIFICATION FairSpec
CONSTANTS
    Ip4 <- OneIp4
    Ip6 <- OneIp6
    Names <- NamesAtLimits
    Ports = {258}
    MethodLists <- ListsAtLimits
    Methods = {0, 2, 255}
    Replies = {0, 5, 9}
    Frags = {0, 1}
    Payload <- LikeAMessage
    Noise = {0, 3, 5, 200}
    Places = {1, 2, 3, 4, 5, 6}
    Cuts = {0, 1, 2}
INVARIANTS
    TypeOK
    InSync
    PayloadUntouched
    ReadStandsForBytes
    BuffersSuffice
PROPERTY ReaderDecides
\* a reader without bytes waits; a stream that was read is done
CHECK_DEADLOCK FALSE
