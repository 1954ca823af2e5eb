SPECIFICATION SumSpec
CONSTANTS
    s1 = s1
    s2 = s2
    g1 = g1
    g2 = g2
    Helper = {1, 2}
    Server = {s1, s2}
    Gateway = {g1, g2}
    Home = g1
    MaxMishaps = 2
INVARIANTS
    FenceLifted
    ClientConfirmed
PROPERTIES
    FenceKept
    DesktopSettles
    ClientReacts
CHECK_DEADLOCK FALSE
