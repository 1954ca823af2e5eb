SPECIFICATION SumSpec
CONSTANTS
    k1 = k1
    k2 = k2
    k3 = k3
    s1 = s1
    s2 = s2
    p1 = p1
    p2 = p2
    a = a
    b = b
    c = c
    PublicKey = {k1, k2, k3}
    Address = {1, 2}
    Seeds <- MCSeeds
    MaxBoot = 2
    SessionId = {s1, s2}
    InitMsg <- MCInitMsg
    Peer = {p1, p2}
    MaxSerial = 2
    MaxBatch = 1
INVARIANTS
    ThreadsAgree
    RegistryDurable
    GrantsBounded
    RevokedKeepsNothing
PROPERTIES
    RevokedNotServed
    LiveCounterKept
SYMMETRY Symmetry
CHECK_DEADLOCK FALSE
