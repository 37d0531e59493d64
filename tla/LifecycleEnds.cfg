SPECIFICATION FairSpec
CONSTANTS
    Sessions = {s1}
    Stops = {k1}
    Apps = {a1}
    Pids = {p1}
    Foreign = foreign
    NoSession = NoSession
    NoFile = NoFile
    NoRecord = NoRecord
    PidReuse = FALSE
    UsesCompose = TRUE
    ProbeOutlastsWrites = TRUE
    Troubles = {}
    Serial = FALSE
    MaxMishaps = 3
PROPERTIES CommandsEnd
CHECK_DEADLOCK FALSE
