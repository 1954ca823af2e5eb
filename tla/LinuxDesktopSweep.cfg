SPECIFICATION Spec
CONSTANTS
    Helper = {1, 2}
    Server = {s1, s2}
    Gateway = {g1, g2}
    Home = g1
    MaxMishaps = 2
INVARIANT WatchdogSweeps
