SPECIFICATION MCSpec
CONSTANTS
    Doctors = {d1, d2}
    Reviews = {r1}
    Problems = {p1, p2}
    Candidates = {c1, c2}
    Signals = {x1}
    MaxKnown = 2
    MaxCandidates = 1
    MaxRecent = 1
    NoRun = NoRun
    NoFile = NoFile
    NoSignal = NoSignal
SYMMETRY Symmetry
INVARIANTS ListedIsFound RecentIsRecorded CountsAreEarned DecisionsKept MatchedStaysKnown
CHECK_DEADLOCK FALSE
