SPECIFICATION FairSpec
CONSTANTS
    NumServers = 2
    InitReady = {1}
    NumPorts = 2
    LBSpecs <- SomeSpecs
    ExternalOps = {"delete", "target", "service"}
    Budget <- LifeBudget
INVARIANTS TypeOK ServicesUsable
PROPERTIES
    LBConverges
    DeletionCompletes
    KeepsCertificateRef
    CertificateFreed
CHECK_DEADLOCK FALSE
