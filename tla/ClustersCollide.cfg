SPECIFICATION BoundedSpec
CONSTANTS
    Clusters <- Namesakes
    Self <- First
    MaxReplicas = 1
    MaxOrdinal = 99
    Specs <- TwoSpecs
    MaxFaults = 0
PROPERTY KeepsToItsOwn
CHECK_DEADLOCK FALSE
