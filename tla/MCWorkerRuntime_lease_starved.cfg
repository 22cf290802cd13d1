SPECIFICATION RuntimeSpec
CONSTANTS
    a = a
    b = b
    w1 = w1
    NoSession = NoSession
    Jobs = {a, b}
    Workers = {w1}
    Sessions = {}
    SessionOf <- AllLoose
    DependsOn <- NoDeps
    IdempotencyKey <- OwnKeys
    MaxAttempts <- OneEach
    TimeoutAt <- NoDeadlines
    RetryUntil <- NoLimit
    MaxConcurrency <- ThreeSlots
    LeaseDuration = 6
    RetryDelays = {0}
    MaxDelay = 0
    MaxTime = 6
    Self = w1
    HeartbeatEvery = 2
    ClaimWait = 4
    MaxLost = 0
INVARIANT
    LeaseIsKept
CHECK_DEADLOCK FALSE
