SPECIFICATION FairSpec
CONSTANTS
    Policies = {"none", "checkpoint", "rebuild"}
    Expiring = {"none"}
    Timed = {"rebuild"}
    Stubborn = {2}
    MaxAttempts = 1
    MaxEpoch = 3
    MaxRestarts = 1
    Requests = {"acknowledge", "fail"}
INVARIANTS
    RecoverySound
    AttemptLimit
PROPERTIES
    RebuiltBeforeActive
    RecoveryEnds
CHECK_DEADLOCK FALSE
