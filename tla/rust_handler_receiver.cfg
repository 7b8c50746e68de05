SPECIFICATION FairSpec
CONSTANTS
    Callers = {p1}
    Conns = {c1}
    Acts = {a1}
    MAX_RECONNECT_ATTEMPTS = 1
    MaxEvents = 1
    Ops = {"connect", "disconnect"}
    Capacity = 1
    IgnoreSelf = TRUE
    Receiver = p1
    NoOne = NoOne
PROPERTIES CallsReturn
CHECK_DEADLOCK FALSE
