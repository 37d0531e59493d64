CONSTANTS
    Absent = Absent
    Inits = {i1}
    ProperNames <- MCProperNames
    SecretNames <- MCSecretNames
    ExternalNames = {"API_URL"}
    Checks = {"test"}
    Trees <- MCTrees
    Drafts <- MCDrafts
    MayFail = {}
    MaxFailed = 0
    MaxEdits = 0
SPECIFICATION Spec
PROPERTY OptionalIsKept
CHECK_DEADLOCK FALSE
