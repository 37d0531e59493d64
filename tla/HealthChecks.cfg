SPECIFICATION FairSpec
CONSTANTS
    NumSteps = 2
    Retries = 2
INVARIANTS StepsInTurn OutcomesAreEarned
PROPERTIES Implements ChecksGoOn
CHECK_DEADLOCK FALSE
