SPECIFICATION Spec
CONSTANTS
    DomainLens = {0, 255, 256}
    PayloadLens = {0, 1, 254, 300}
    BufLens = {1, 300}
    MaxIds = 2
INVARIANTS
    TypeOK
    DeliveredIntact
    HeaderAsDocumented
