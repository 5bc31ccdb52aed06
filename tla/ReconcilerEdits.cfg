SPECIFICATION FairSpec
CONSTANTS
    MaxReplicas = 2
    MaxConfig = 2
    Specs <- EditSpecs
    MaxBirths = 1
    MaxEdits = 1
    MaxFaults = 1
INVARIANTS
    TypeOK
    StorageBeneathWorkload
    ConfigMounted
    PassInv
PROPERTIES
    WantedKept
    FinalizerProtocolHolds
    Converges
    Retires
    StatusFollows
\* Users may leave a deleted resource deleted, and then nothing runs.
CHECK_DEADLOCK FALSE
