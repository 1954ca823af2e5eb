SPECIFICATION SumSpec
INVARIANTS
    MacClean
    OneHelper
    PumpHeld
PROPERTIES
    StopsEnd
    Follows
CHECK_DEADLOCK FALSE
