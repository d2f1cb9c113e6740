SPECIFICATION FairSpec
CONSTANTS
    NumServers = 2
    InitRefs = {0, 1}
    MaxSize = 2
    ExternalOps = {"delete", "detach", "grow"}
    Budget <- LifeBudget
INVARIANT TypeOK
PROPERTIES
    VolumeConverges
    DeletionCompletes
    KeepsManagedResource
CHECK_DEADLOCK FALSE
