SPECIFICATION HistorySpec
CONSTANTS
    RetrySteps = 5
    EarlyRecord = TRUE
    MayPend = FALSE
    Budget <- LostRecordBudget
INVARIANT RecordedIsCleanedUp
CHECK_DEADLOCK FALSE
