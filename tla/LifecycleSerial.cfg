SPECIFICATION Spec
CONSTANTS
    Sessions = {s1, s2}
    Stops = {k1}
    Apps = {a1}
    Pids = {p1, p2}
    Foreign = foreign
    NoSession = NoSession
    NoFile = NoFile
    NoRecord = NoRecord
    PidReuse = TRUE
    UsesCompose = TRUE
    ProbeOutlastsWrites = TRUE
    Troubles = {"warnings", "ports", "health"}
    Serial = TRUE
    MaxMishaps = 1
SYMMETRY Symmetry
INVARIANTS TypeOK RunningIsOnRecord Tracked CleanupComplete StoppedIsDown StopIsReported
CONSTRAINT FewMishaps
CHECK_DEADLOCK FALSE
