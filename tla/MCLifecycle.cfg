SPECIFICATION Spec
CONSTANTS
    HttpCalls = {h1, h2}
    GrpcCalls = {g1}
    Loop = loop
    MaxConnections = 2
CHECK_DEADLOCK FALSE
INVARIANTS
    TypeOK
    GrpcNotCut
    HttpCutOnlyAfterTimeout
PROPERTIES
    ShutdownCompletes
