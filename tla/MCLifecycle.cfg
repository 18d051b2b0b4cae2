CONSTANTS
    MaxOutput = 2
    MaxInput = 2
    Environments <- MCEnvironments
    Garbage = Garbage
    Millisecond = 4
    HalfRange = 32768
SPECIFICATION LifeFairSpec
INVARIANT TypeOK
INVARIANT ConnectionsAccountedFor
INVARIANT ResourcesOutlastHandlers
INVARIANT OnlyABadIntervalPanics
PROPERTY DeadlineOnlyForLateOrBlocked
PROPERTY LastOutputShown
PROPERTY SessionEnds
PROPERTY SignalEndsProcess
CHECK_DEADLOCK FALSE
