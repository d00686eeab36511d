SPECIFICATION FairSpec
CONSTANTS
    Calls = {c1, c2, c3, c4}
    NoCall = NoCall
    MaxAttempts = 3
    MaxConns = 2
    Nanos <- MicrosecondClock
INVARIANTS
    TypeOK
    ChainLinked
    AckedIsStored
    ExhaustedByContention
PROPERTIES
    RefinesLog
    EveryRecordReturns
