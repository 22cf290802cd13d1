SPECIFICATION Spec
CONSTANTS
    Policies = {"none", "checkpoint"}
    Expiring = {"none"}
    Timed = {"none", "checkpoint"}
    Stubborn = {}
    MaxAttempts = 2
    MaxEpoch = 2
    MaxRestarts = 0
    Requests = {"heartbeat", "complete", "acknowledge", "fail"}
PROPERTIES
    ImplementsSession
    OneOwnerPerEpoch
CHECK_DEADLOCK FALSE
