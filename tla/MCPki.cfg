SPECIFICATION Spec
CONSTANTS
    Clients = {c1, c2}
    CAs = {a1, a2}
    Serials = {s1, s2}
    Reasons = {r1}
    NoCA = NoCA
    NoSerial = NoSerial
    NoReason = NoReason
SYMMETRY Symmetry
INVARIANTS
    TypeOK
    ChainsToRoot
    ListedIsRevoked
    CrlComplete
    OcspNeverForgets
