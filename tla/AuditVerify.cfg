SPECIFICATION Spec
CONSTANTS
    Calls = {c1, c2, c3}
    NoCall = NoCall
    MaxAttempts = 3
    MaxConns = 2
    Nanos <- NanosecondClock
INVARIANT VerifyValid
