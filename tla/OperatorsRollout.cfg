SPECIFICATION FairSpec
CONSTANTS
    MaxReplicas = 0
    MaxConfig = 0
    Specs <- PrimarySpecs
    MaxBirths = 1
    MaxEdits = 0
    MaxFaults = 0
INVARIANTS
    TypeOK
PROPERTIES
    Converges
    DeletionFinishes
    ChildrenCollected
\* Users may leave a deleted resource deleted, and then nothing runs.
CHECK_DEADLOCK FALSE
