SPECIFICATION Spec
CONSTANTS
    Wrap = 12
    OfflineTime = 6
    DeadTime = 10
    MaxPeriod = 1
    MaxCommands = 1
    SteadyGap = 4
INVARIANTS TypeOK DeadOncePerAlive DetectsSilence SteadyPollingNeverAlarms
