SPECIFICATION Spec
CONSTANTS
    Network = {n, m}
    MaxSessions = 4
    MaxFailures = 1
    MaxBatch = 2
PROPERTY TurnEnds
