SPECIFICATION Spec
CONSTANTS
    Tasks = {t1, t2}
    Uris = {u1, u2, u3}
    ReqIds = {r1, r2, r3, r4}
    NoTask = NoTask
    NoUri = NoUri
    NoReq = NoReq
    NoResp = NoResp
    KMS_ATTEMPTS = 2
    MAX_PENDING_REQUESTS = 3
    MAX_KEY_CACHE_SIZE = 1
    CB_FAILURE_THRESHOLD = 3
    MaxFailures = 4
    LateAnswers = TRUE
SYMMETRY Symmetry
INVARIANT KeyMatchesUri
