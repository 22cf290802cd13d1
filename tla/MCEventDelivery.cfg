SPECIFICATION FairSpec
CONSTANTS
    MaxAttempts = 2
    MaxEvents <- ThreeThenOne
    MaxPending = 1
    Page = 2
INVARIANTS
    DeliverySound
    InOrderOnce
    OnlyRefusedMissing
    ReaderIsExact
PROPERTIES
    AcceptedIsRead
    ImplementsStream
CHECK_DEADLOCK FALSE
