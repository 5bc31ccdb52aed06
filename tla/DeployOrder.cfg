SPECIFICATION FairSpec
CONSTANTS
    Targets <- TwoTargets
    System = "pgopr-system"
    Nowhere = "nowhere"
    Granted <- ByHand
INVARIANTS
    TypeOK
    Grounded
    Swept
PROPERTIES
    Served
    UninstallFinishes
    Cleared
