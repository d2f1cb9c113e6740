SPECIFICATION FairSpec
CONSTANTS
    ExternalOps = {"delete", "relabel"}
    Budget <- LifeBudget
INVARIANT TypeOK
PROPERTIES
    CertificateConverges
    DeletionCompletes
    ImplementsCertificateRef
CHECK_DEADLOCK FALSE
