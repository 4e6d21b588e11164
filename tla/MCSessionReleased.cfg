CONSTANTS
    Protocols = {p1, p2}
    NoOne = NoOne
SPECIFICATION Spec
INVARIANT NoLeak
CHECK_DEADLOCK FALSE
