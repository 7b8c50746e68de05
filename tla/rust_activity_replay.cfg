SPECIFICATION Spec
CONSTANTS
    Tasks = {t1, t2}
    NoTask = NoTask
    Uris = {"u1", "u2"}
    NoUri = "none"
    People = {"alice", "bot"}
    Bot = "bot"
    NoPerson = "nobody"
    Ids = {1, 2}
    Groups = {"all"}
    GroupKey <- MCGroupKey
    Bodies <- FewBodies
    Limit = 0
    Capacity = 1
    MaxDeliveries = 2
INVARIANTS ReportedOnce
CHECK_DEADLOCK FALSE
