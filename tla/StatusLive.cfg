SPECIFICATION FairSpec
CONSTANTS
    MaxReplicas = 1
    MaxConfig = 0
    Specs <- StatusSpecs
    Stamps = 2
    MaxEvents = 2
INVARIANTS
    TypeOK
    WitnessInv
PROPERTIES
    ReportsWitnessed
    StatusConverges
    StatusQuiesces
