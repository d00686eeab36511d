SPECIFICATION Spec
CONSTANTS
    Clients = {c1, c2}
    CAs = {a1}
    Serials = {s1, s2}
    Reasons = {r1, r2}
    NoCA = NoCA
    NoSerial = NoSerial
    NoReason = NoReason
SYMMETRY Symmetry
INVARIANT ReasonRecorded
