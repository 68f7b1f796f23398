SPECIFICATION Spec
CONSTANTS
    DomainLens = {1}
    PayloadLens = {1, 2}
    BufLens = {1, 2}
    MaxIds = 1
INVARIANT RecvLikeUdp
