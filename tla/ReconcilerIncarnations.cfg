SPECIFICATION FairSpec
CONSTANTS
    MaxReplicas = 1
    MaxConfig = 0
    Specs <- OneSpec
    MaxBirths = 2
    MaxEdits = 0
    MaxFaults = 2
INVARIANTS
    FinalizerGuard
    PassInv
PROPERTIES
    CreatedUnderFinalizer
    Converges
    DeletionFinishes
    NothingLeft
\* Users may leave a deleted resource deleted, and then nothing runs.
CHECK_DEADLOCK FALSE
