SPECIFICATION Spec
CONSTANTS
    Sessions = {s1, s2}
    Stops = {}
    Apps = {a1}
    Pids = {p1, p2}
    Foreign = foreign
    NoSession = NoSession
    NoFile = NoFile
    NoRecord = NoRecord
    PidReuse = FALSE
    UsesCompose = FALSE
    ProbeOutlastsWrites = TRUE
    Troubles = {}
    Serial = FALSE
    MaxMishaps = 3
SYMMETRY Symmetry
CHECK_DEADLOCK FALSE
INVARIANTS LatestIsRecorded RecordsAreOwned
PROPERTIES SignalsOnlyTheSession NoSpawnAfterErrors
