SPECIFICATION FairSpec
CONSTANTS
    Clusters <- Apart
    Self <- First
    MaxReplicas = 1
    MaxOrdinal = 99
    Specs <- TwoSpecs
    MaxFaults = 1
INVARIANTS TypeOK Owned
PROPERTIES
    AsIfAlone
    KeepsToItsOwn
    Undisturbed
    Released
CHECK_DEADLOCK FALSE
