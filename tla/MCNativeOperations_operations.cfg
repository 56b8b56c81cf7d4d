SPECIFICATION FairSpec
CONSTANTS
    h1 = h1
    h2 = h2
    h3 = h3
    h4 = h4
    h5 = h5
    h6 = h6
    h7 = h7
    Handles = {h1, h2, h3, h4, h5, h6, h7}
    Scenes = {1, 2, 3}
    Layers = {1, 2, 3}
    Frames = {1, 2}
    Labels = {"a", "b", "long", "setup", "psd", "psdNamed", "psdLong", "audio", "voice", "voiceCharacter", "subtitle"}
    LongLabels = {"long", "psdLong"}
    UserLabels = {"psdLong"}
    Paths = {"p", "q"}
    Opened <- TwoObjects
    Commands <- AllCommands
    MaxRequests = 2
    MaxUserEvents = 1
INVARIANTS
    TypeOK
    PlanPredictsTheBatch
    EveryChangeIsRecorded
    AnswersTellWhatHappened
    SavedIsSaved
PROPERTIES
    LateDropIsAnnounced
    EveryRequestIsAnswered
CHECK_DEADLOCK FALSE
