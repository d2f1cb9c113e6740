SPECIFICATION FairSpec
CONSTANTS
    NumZones = 2
    ZoneLists <- SomeZoneLists
    ExternalOps = {"delete", "addSubnet", "removeSubnet"}
    Budget <- LifeBudget
INVARIANTS
    TypeOK
    OneSubnetPerZone
PROPERTIES
    ZonesConverge
    DeletionCompletes
CHECK_DEADLOCK FALSE
