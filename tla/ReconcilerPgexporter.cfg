SPECIFICATION FairSpec
CONSTANTS
    MaxReplicas = 0
    MaxConfig = 0
    Specs <- MonitoredSpecs
    MaxBirths = 1
    MaxEdits = 1
    MaxFaults = 0
PROPERTIES
    PgexporterRetired
\* Users may leave a deleted resource deleted, and then nothing runs.
CHECK_DEADLOCK FALSE
