SPECIFICATION MCSpec
CONSTANTS
    Writers = {w1, w2}
    Readers = {r1}
    None = None
    MaxFailures = 1
    MaxClock = 2
    Worlds <- MCWorlds
    NoContract <- MCNoContract
    NodeKinds <- MCNodeKinds
    MaxStarts = 2
    MaxRecords = 10
    MaxDepth = 2
    Questions <- MCQuestions
INVARIANTS
    AnswersAreTrue
    InvalidationCovers
    EdgesEndAtNodes
PROPERTIES
    Implements
CHECK_DEADLOCK FALSE
