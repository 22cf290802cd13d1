SPECIFICATION Spec
SYMMETRY WorkersAlike
CONSTANTS
    a = a
    b = b
    c = c
    w1 = w1
    w2 = w2
    NoSession = NoSession
    s1 = s1
    Jobs = {a, b, c}
    Workers = {w1, w2}
    Sessions = {}
    SessionOf <- AllLoose
    DependsOn <- NoDeps
    IdempotencyKey <- SharedKey
    MaxAttempts <- TwoEach
    TimeoutAt <- NoLimit
    RetryUntil <- RetryWindow
    MaxConcurrency <- OneEach
    LeaseDuration = 1
    RetryDelays = {0}
    MaxDelay = 0
    MaxTime = 1
INVARIANTS
    OneJobPerKey
    ConcurrencyBound
