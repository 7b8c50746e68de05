SPECIFICATION Spec
CONSTANTS
    Callers = {p1, p2}
    Conns = {c1, c2}
    Acts = {}
    MAX_RECONNECT_ATTEMPTS = 1
    MaxEvents = 1
    Ops = {"connect", "disconnect", "reconnect"}
    Capacity = 1
    IgnoreSelf = TRUE
    Receiver = NoOne
    NoOne = NoOne
SYMMETRY Symmetry
INVARIANTS OneConnectAtATime
