\* An edit and a read, each sent on two connections; one request in flight per connection, one command in the gate.
SPECIFICATION Spec
CONSTANTS
    s1 = s1
    s2 = s2
    w1 = w1
    r1 = r1
    c1 = c1
    NoAnswer = NoAnswer
    NoCommand = NoCommand
    Sessions = {s1, s2}
    ClientOf <- OneClient
    Requests = {w1, r1}
    Edits = {w1}
    Submissions <- EverythingTwice
    Cancels <- OneEdit
    InFlightLimit = 1
    MaxDepth = 1
INVARIANTS
    TypeOK
    EditedOnceAtMost
    ResendsAgree
    CancelledNeverEdits
    TooLateIsNotCancelled
    RegistryMatchesActive
    InFlightHasOwner
    StopLeavesNothing
PROPERTIES
    FollowsLedger
