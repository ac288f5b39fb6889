SPECIFICATION WiFiSpec
CONSTANTS
    Parts = {"station"}
    \* scanning
    MaxNets = 2
    MaxScans = 3
    \* looking names up
    Callers = {"sketch", "other"}
    MaxCalls = 3
    \* the station, and a sketch that waits for it
    Network = {"home", "roaster"}
    MaxEvents = 3
    UserDisconnects = TRUE
    APlist = {"roaster"}
    MaxAttempts = 2
    \* the handlers of events
    Callback = {"f", "g"}
    Event = {"connected", "lost"}
    MaxId = 3
    \* the modes
    Config <- Configs
    TooShort = {"1234567"}
    MaxQueue = 3
INVARIANT
    ConnectedIsLinked
