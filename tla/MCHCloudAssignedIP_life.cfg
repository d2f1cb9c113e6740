SPECIFICATION FairSpec
CONSTANTS
    InitSpecs <- LifeSpecs
    NumServers = 2
    MaxLabels = 1
    AutoDeletes = {"unset", "off", "on"}
    ExternalOps = {"delete", "assign", "unassign"}
    Budget <- LifeBudget
INVARIANT TypeOK
PROPERTIES
    IPConverges
    DeletionCompletes
CHECK_DEADLOCK FALSE
