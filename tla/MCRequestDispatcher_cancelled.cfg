\* A Cancel comes while a finished request is on its way out.
SPECIFICATION Spec
CONSTANTS
    s1 = s1
    s2 = s2
    w1 = w1
    r1 = r1
    c1 = c1
    NoAnswer = NoAnswer
    NoCommand = NoCommand
    Sessions = {s1, s2}
    ClientOf <- OneClient
    Requests = {w1, r1}
    Edits = {w1}
    Submissions <- OneEdit
    Cancels <- OneEdit
    InFlightLimit = 2
    MaxDepth = 2
INVARIANTS
    CancelledAckMeansCancelled
