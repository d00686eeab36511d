SPECIFICATION FairSpec
CONSTANTS
    Clients = {c1, c2}
    Ids = {l1}
    NoId = NoId
    Never = Never
    Second = 2
    DefaultTTL = 2
    MaxTTL = 2
    TTLs <- RequestedTTLs
    MaxNow = 3
    MaxFailures = 1
INVARIANTS
    TypeOK
    ExpiryWithinMaxTTL
    RevocationNotInFuture
    EarlyRevocationOnlyByCall
PROPERTIES
    RevokedForever
    DueIsRevoked
