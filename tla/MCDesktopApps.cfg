SPECIFICATION SumSpec
INVARIANTS
    FlowsRouted
    ShownAsIs
    SettingsKept
    TotalsExact
PROPERTIES
    DisconnectHolds
    ChoiceFollowed
CHECK_DEADLOCK FALSE
