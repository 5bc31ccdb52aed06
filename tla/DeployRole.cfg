SPECIFICATION FairSpec
CONSTANTS
    Targets <- TwoTargets
    System = "pgopr-system"
    Nowhere = "nowhere"
    Granted <- NoOthers
PROPERTIES
    DeployedServes
