SPECIFICATION MCSpec
CONSTANTS
    Absent = Absent
    MaxRecent = 2
    MaxChanges = 2
    Covers <- MCCovers
    Throwing = {"**/*.sql"}
    Ignored = {"dist/app.js"}
    Includes <- MCIncludes
    Worlds <- MCWorlds
    Edits <- MCEdits
    Options <- MCOptions
    NewRuns <- MCNewRuns
    Documented = {"pnpm"}
    Variables = {"DATABASE_URL", "DEBUG"}
    ComposeNames = {"postgres", "redis"}
    SessionNames = {"s3"}
    Ports = {9090}
    Failures <- MCFailures
INVARIANTS
    RulesAgree
    EvidenceWasSo
    LastingTroubleIsReported
CHECK_DEADLOCK FALSE
