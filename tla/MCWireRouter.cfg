SPECIFICATION Spec
CONSTANTS
    k1 = k1
    k2 = k2
    k3 = k3
    PublicKey = {k1, k2, k3}
    Registered = {k1, k3}
    WeakKey = {k3}
    EpochSeconds <- MCEpochSeconds
    RoutingTag <- MCRoutingTag
    LegacyTag <- MCLegacyTag
    StartTime = 7
    MaxTime = 9
INVARIANTS
    TablesExact
    RoutesCurrent
