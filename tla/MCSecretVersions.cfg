SPECIFICATION Spec
CONSTANTS
    Clients = {c1, c2}
    Values = {x1, x2}
    Types = {kv, dynamic}
    NoValue = NoValue
    NoType = NoType
    MaxVersion = 3
SYMMETRY Symmetry
INVARIANTS
    TypeOK
    NamespaceBeforeSecret
    CurrentExists
    AckedValueStored
    DeadlineIffDeleted
PROPERTIES
    MonotoneWithoutRollback
    RefinesVersionedSecret
