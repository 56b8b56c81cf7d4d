\* A resend overtakes the request it attaches to.
SPECIFICATION Spec
CONSTANTS
    s1 = s1
    s2 = s2
    w1 = w1
    r1 = r1
    c1 = c1
    NoAnswer = NoAnswer
    NoCommand = NoCommand
    Sessions = {s1, s2}
    ClientOf <- OneClient
    Requests = {w1, r1}
    Edits = {w1}
    Submissions <- Resends
    Cancels <- OneEdit
    InFlightLimit = 2
    MaxDepth = 2
INVARIANTS
    AttachedResendGetsAnswer
