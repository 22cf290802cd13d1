SPECIFICATION RuntimeSpec
CONSTANTS
    a = a
    b = b
    w1 = w1
    NoSession = NoSession
    Jobs = {a}
    Workers = {w1}
    Sessions = {}
    SessionOf <- AllLoose
    DependsOn <- NoDeps
    IdempotencyKey <- OwnKeys
    MaxAttempts <- ThreeEach
    TimeoutAt <- Deadlines
    RetryUntil <- NoLimit
    MaxConcurrency <- TwoSlots
    LeaseDuration = 5
    RetryDelays = {0}
    MaxDelay = 0
    MaxTime = 6
    Self = w1
    HeartbeatEvery = 1
    ClaimWait = 2
    MaxLost = 1
INVARIANTS
    RuntimeTypeOK
    RunsWithinLimit
    LeaseIsKept
    CancellationArrives
PROPERTY
    ImplementsStore
CHECK_DEADLOCK FALSE
