SPECIFICATION Spec
CONSTANTS
    Addresses = {a1, a2, a3}
    NoHeader = NoHeader
    RatePerSecond = 1
    RateBurst = 0
    Second = 3
    Minute = 4
    Limit = 1
    MaxNow = 12
SYMMETRY Symmetry
INVARIANTS
    TypeOK
    TwiceBurst
    DeniedForBurst
    MapBounded
