SPECIFICATION FaultFreeSpec
CONSTANTS
    Clients = {c1}
    Values = {x1}
    Types = {kv}
    NoValue = NoValue
    NoType = NoType
    MaxVersion = 3
PROPERTY DestroyedForever
