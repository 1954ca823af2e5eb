SPECIFICATION SumSpec
CONSTANTS
    Network = {wifi, cable}
    wifi = wifi
    Home = wifi
    Param = {p1, p2}
    AppRouting = {"exclude", "include"}
    MaxFaults = 2
    MaxRoams = 1
INVARIANTS
    FencedWhileRouted
    JournalCovers
    SplitTogether
PROPERTIES
    FenceKept
    Settles
