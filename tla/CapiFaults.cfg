CONSTANTS
    Machines = {"m1"}
    Cluster = "cluster"
    MaxVms = 2
    MaxClusters = 3
    MaxFaults = 1
    MaxAttempts = 2
    Docs = {"peer", "advert"}
SPECIFICATION FairSpec
INVARIANTS
    NoOrphans
PROPERTIES
    AnswerMeansRunning
    DeletionEnds
    FailureSurfaces
    BgpApplied
ACTION_CONSTRAINT Prompt
