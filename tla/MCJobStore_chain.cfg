SPECIFICATION FairSpec
CONSTANTS
    a = a
    b = b
    c = c
    w1 = w1
    w2 = w2
    NoSession = NoSession
    s1 = s1
    Jobs = {a, b, c}
    Workers = {w1}
    Sessions = {s1}
    SessionOf <- InSession
    DependsOn <- Chain
    IdempotencyKey <- OwnKeys
    MaxAttempts <- TwoEach
    TimeoutAt <- Deadlines
    RetryUntil <- NoLimit
    MaxConcurrency <- OneEach
    LeaseDuration = 1
    RetryDelays = {0, 1}
    MaxDelay = 1
    MaxTime = 3
INVARIANTS
    LeaseDiscipline
    SuccessIsUnique
    DependenciesFirst
    NoWorkInEndedSession
    SecondNoticeIsTimeout
    Consistent
PROPERTIES
    FinishedIsFinal
    NoStepStrands
    ImplementsLifecycle
    DeadlineIsEnforced
    ExpiredLeaseIsReaped
