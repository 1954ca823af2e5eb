SPECIFICATION SumSpec
INVARIANTS
    OneSession
    ServiceHeld
PROPERTIES
    StatusKept
    NativeReacts
    ServiceSettles
CHECK_DEADLOCK FALSE
