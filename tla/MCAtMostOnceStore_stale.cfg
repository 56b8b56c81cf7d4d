\* Two session threads: a stale clock reading readmits an expired request.
SPECIFICATION Spec
CONSTANTS
    k1 = k1
    k2 = k2
    k3 = k3
    a1 = a1
    a2 = a2
    NoAnswer = NoAnswer
    NoThread = NoThread
    Threads = {t1, t2}
    Keys = {k1, k2}
    UuidV7 = {k1, k2}
    ReqTime <- MCReqTime
    Hashes = {h1}
    Answers = {a1}
    LargeAnswers = {}
    MaxTombstones = 2
    MaxCached = 1
    MaxClock = 3
    MaxAdjustments = 0
    MaxAge = 1
    FutureSkew = 1
INVARIANTS
    AtMostOnce
