SPECIFICATION Spec
CONSTANTS
    a = a
    b = b
    c = c
    w1 = w1
    w2 = w2
    NoSession = NoSession
    s1 = s1
    Jobs = {a, b}
    Workers = {w1}
    Sessions = {}
    SessionOf <- AllLoose
    DependsOn <- AfterA
    IdempotencyKey <- OwnKeys
    MaxAttempts <- TwoEach
    TimeoutAt <- NoLimit
    RetryUntil <- NoLimit
    MaxConcurrency <- OneEach
    LeaseDuration = 1
    RetryDelays = {0, 1}
    MaxDelay = 1
    MaxTime = 3
INVARIANT
    NeverStranded
