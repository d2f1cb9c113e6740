SPECIFICATION FairSpec
CONSTANTS
    NumTypes = 1
    NumNets = 2
    NumPGs = 1
    Reverts = FALSE
    ExternalOps = {}
    Budget <- ReferencesBudget
PROPERTIES
    NetworkConverges
    ReadyConverges
