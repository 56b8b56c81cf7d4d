\* One session thread, both tables full, a response too large to keep, a clock set back once.
SPECIFICATION Spec
CONSTANTS
    k1 = k1
    k2 = k2
    k3 = k3
    a1 = a1
    a2 = a2
    NoAnswer = NoAnswer
    NoThread = NoThread
    Threads = {t1}
    Keys = {k1, k2, k3}
    UuidV7 = {k1, k2, k3}
    ReqTime <- MCReqTime
    Hashes = {h1}
    Answers = {a1, a2}
    LargeAnswers = {a2}
    MaxTombstones = 2
    MaxCached = 1
    MaxClock = 3
    MaxAdjustments = 1
    MaxAge = 1
    FutureSkew = 1
INVARIANTS
    TypeOK
    LruConsistent
    TombstonesBounded
