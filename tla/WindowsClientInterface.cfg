CONSTANTS
    Network = {wifi}
    wifi = wifi
    Home = wifi
    Param = {p1, p2}
    AppRouting = {"exclude"}
    MaxFaults = 1
    MaxRoams = 0
SPECIFICATION Spec
INVARIANT InterfaceFollowsSession
