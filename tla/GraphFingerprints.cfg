SPECIFICATION MCSpec
CONSTANTS
    Writers = {w1}
    Readers = {r1}
    None = None
    MaxFailures = 0
    MaxClock = 1
    Worlds <- MCWorlds
    NoContract <- MCNoContract
    NodeKinds <- MCNodeKinds
    MaxStarts = 2
    MaxRecords = 10
    MaxDepth = 2
    Questions <- MCQuestions
INVARIANTS
    FingerprintsSurvive
CHECK_DEADLOCK FALSE
