SPECIFICATION GaugeSpec
CONSTANTS
    Clients = {c1}
    Ids = {l1}
    NoId = NoId
    Never = Never
    Second = 2
    DefaultTTL = 2
    MaxTTL = 2
    TTLs = {0, 1, 3}
    MaxNow = 3
    MaxFailures = 1
INVARIANT GaugeCountsActive
