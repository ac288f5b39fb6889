SPECIFICATION Spec
CONSTANTS
    Wrap = 12
    OfflineTime = 6
    DeadTime = 10
    MaxPeriod = 1
    MaxCommands = 1
    SteadyGap = 5
INVARIANTS PollingKeepsOnline
