SPECIFICATION FairSpec
CONSTANTS
    RetrySteps = 2
    EarlyRecord = FALSE
    MayPend = TRUE
    Budget <- LiveBudget
PROPERTIES
    DeletionCompletes
    Converges
CHECK_DEADLOCK FALSE
