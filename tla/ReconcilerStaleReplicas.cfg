SPECIFICATION FairSpec
CONSTANTS
    MaxReplicas = 2
    MaxConfig = 0
    Specs <- ScalingSpecs
    MaxBirths = 1
    MaxEdits = 1
    MaxFaults = 1
PROPERTIES
    StaleReplicasRemoved
\* Users may leave a deleted resource deleted, and then nothing runs.
CHECK_DEADLOCK FALSE
