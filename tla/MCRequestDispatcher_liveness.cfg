\* A resend and a read, one request in flight per connection, one command in the gate.
SPECIFICATION FairSpec
CONSTANTS
    s1 = s1
    s2 = s2
    w1 = w1
    r1 = r1
    c1 = c1
    NoAnswer = NoAnswer
    NoCommand = NoCommand
    Sessions = {s1, s2}
    ClientOf <- OneClient
    Requests = {w1, r1}
    Edits = {w1}
    Submissions <- ResendAndRead
    Cancels <- NoCancels
    InFlightLimit = 1
    MaxDepth = 1
PROPERTIES
    EveryRequestAnswered
    StopReturns
