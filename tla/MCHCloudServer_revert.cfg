SPECIFICATION FairSpec
CONSTANTS
    NumTypes = 2
    NumNets = 0
    NumPGs = 0
    Reverts = TRUE
    ExternalOps = {}
    Budget <- RevertBudget
PROPERTIES
    TypeConverges
