SPECIFICATION Spec
CONSTANTS
    Characters = {"/", "a", "b", "crypto"}
    Clients = {c1, c2}
    Namespaces = {n1, n2}
    Identities = {"alice"}
    Ips = {"office"}
    RawPaths <- ThreePaths
    Inputs <- ThreeInputs
    Names = {p1}
    Ids = {i1, i2}
    NoName = NoName
    NoId = NoId
SYMMETRY Symmetry
INVARIANTS
    TypeOK
    ActedWithinGrant
    DeletesAnotherOnlyIfGone
    DeletedGrantsNothing
    AuditedAreGone
    InheritsBySegments
