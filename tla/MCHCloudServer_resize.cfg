SPECIFICATION FairSpec
CONSTANTS
    NumTypes = 3
    NumNets = 0
    NumPGs = 0
    Reverts = FALSE
    ExternalOps = {"delete", "rebuild", "glitch"}
    Budget <- ResizeBudget
INVARIANTS
    TypeOK
    AppliedTypeRan
    NeverStrandedOff
PROPERTIES
    TypeConverges
