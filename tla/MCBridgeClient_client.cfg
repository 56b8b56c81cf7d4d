\* Two calls over connections that take one request at a time; one outside event.
CONSTANTS
    r1 = r1
    r2 = r2
    d1 = d1
    d2 = d2
    Requests = {r1, r2}
    Descriptors = {d1, d2}
    NoDescriptor = NoDescriptor
    NoConn = NoConn
    FirstDescriptor = d1
    InFlightLimit = 1
    MaxEvents = 1
SPECIFICATION FairSpec
CHECK_DEADLOCK FALSE
INVARIANTS
    TypeOK
    ConnectionFitsDescriptor
    NoLiveConnectionLost
    WaitersAreTracked
    CallsDoNotDisturbEachOther
PROPERTIES
    BusyOnlyAfterGivingUp
    EveryCallEnds
