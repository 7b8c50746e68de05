SPECIFICATION Spec
CONSTANTS
    Clients = {k1}
    Devices = {d1, d2, d3, f1}
    Foreign = {f1}
    NoDevice = NoDevice
    EmptyUrl = EmptyUrl
    Cap = 3
SYMMETRY Symmetry
INVARIANTS TypeOK ForeignKept RegisteredExists OneOwnDevice
