SPECIFICATION MCSpec
CONSTANTS
    NumSetup = 2
    NumServices = 2
    NumApplications = 2
    NumChecks = 1
INVARIANTS NothingStartsAfterFailedSetup FinalStatusIsHonest CutNamesAStep
PROPERTIES CutKeepsOutcomes
CHECK_DEADLOCK FALSE
