SPECIFICATION Spec
CONSTANTS
    RetrySteps = 2
    EarlyRecord = TRUE
    MayPend = FALSE
    Budget <- SafetyBudget
INVARIANTS
    TypeOK
    NoDuplicate
    GuardedWhileWorking
    ReportedIsRecorded
    FailingNeverReady
PROPERTIES
    RemovalIsSafe
    ImplementsManagedResource
CHECK_DEADLOCK FALSE
