CONSTANTS
    Machines = {"m1"}
    Cluster = "cluster"
    MaxVms = 2
    MaxClusters = 3
    MaxFaults = 1
    MaxAttempts = 2
    Docs = {"peer", "advert"}
SPECIFICATION Spec
PROPERTY EndpointStable
ACTION_CONSTRAINT Prompt
