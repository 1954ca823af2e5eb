SPECIFICATION Spec
CONSTANTS
    MaxGeneration = 2
    MaxSessions = 1
    MaxChanges = 1
    MaxInitialAttempts = 2
INVARIANT
    NoSessionLeft
CHECK_DEADLOCK FALSE
