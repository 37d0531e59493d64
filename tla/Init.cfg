CONSTANTS
    Absent = Absent
    Inits = {i1, i2}
    ProperNames <- MCProperNames
    SecretNames <- MCSecretNames
    ExternalNames = {"API_URL"}
    Checks = {"test"}
    Trees <- MCTrees
    Drafts <- MCDrafts
    MayFail = {"candidate-aggregator", "compose", "environment", "example", "framework", "manifest", "worker"}
    MaxFailed = 1
    MaxEdits = 1
SPECIFICATION MCSpec
SYMMETRY Symmetry
INVARIANTS FilesAreSound GeneratedIsClosed SettledAfterWrite
PROPERTIES WorkIsKept ExistingIsKept
CHECK_DEADLOCK FALSE
