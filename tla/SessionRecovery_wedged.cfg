SPECIFICATION Spec
CONSTANTS
    Policies = {"checkpoint"}
    Expiring = {}
    Timed = {"checkpoint"}
    Stubborn = {}
    MaxAttempts = 2
    MaxEpoch = 3
    MaxRestarts = 0
    Requests = {"acknowledge", "fail"}
INVARIANT
    NeverWedged
CHECK_DEADLOCK FALSE
