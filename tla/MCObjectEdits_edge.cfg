SPECIFICATION Spec
CONSTANTS
    h1 = h1
    h2 = h2
    h3 = h3
    c1 = c1
    c2 = c2
    Clients = {c1}
    Handles = {h1, h2, h3}
    Scenes = {1, 2}
    Layers = {1, 2}
    Labels = {"a", "b", "long"}
    LongLabels = {}
    FrameMax = 4
    Projects <- OneProject
    Commands <- SomeCommands
    MaxLoads = 1
    MaxUserEdits = 1
    MaxEdits = 2
INVARIANTS
    FailedEditIsPartial
CHECK_DEADLOCK FALSE
