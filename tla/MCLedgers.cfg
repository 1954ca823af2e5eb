SPECIFICATION SumSpec
CONSTANTS
    WordBits = 2
    WindowWords = 2
    MaxSequence = 12
INVARIANTS
    BitmapExact
    PathExact
    HandshakeBounded
    TimersRight
    TrafficConserved
PROPERTIES
    SetModel
CHECK_DEADLOCK FALSE
