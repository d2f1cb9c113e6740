SPECIFICATION FairSpec
CONSTANTS
    NumServers = 2
    FirewallSpecs <- SomeSpecs
    ExternalOps = {"delete", "attach", "detach", "rules"}
    Budget <- LifeBudget
INVARIANT TypeOK
PROPERTIES
    FirewallConverges
    DeletionCompletes
    KeepsManagedResource
CHECK_DEADLOCK FALSE
