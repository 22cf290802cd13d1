SPECIFICATION ReconcilerSpec
CONSTANTS
    MaxBoxes = 2
    MinReplicas = 0
    MaxReplicas = 2
    WorkerConcurrency = 1
    MaxTotalSandboxes = 1
    MaxScaleUpPerRun = 1
    ProvisioningConcurrency = 1
    MaxLost = 1
    MaxQueued = 2
    Orphans = "terminate"
INVARIANTS
    FleetBound
    FleetSound
PROPERTY StraysAreResolved
CHECK_DEADLOCK FALSE
