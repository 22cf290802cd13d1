SPECIFICATION FairSpec
CONSTANTS
    MaxBoxes = 1
    MinReplicas = 1
    MaxReplicas = 1
    WorkerConcurrency = 1
    MaxTotalSandboxes = 1
    MaxScaleUpPerRun = 1
    ProvisioningConcurrency = 1
    MaxLost = 0
    MaxQueued = 1
    Orphans = "terminate"
PROPERTY WorkersComeBack
CHECK_DEADLOCK FALSE
