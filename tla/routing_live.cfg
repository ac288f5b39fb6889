SPECIFICATION FairSpec
CONSTANTS
    vs = vs
    ac = ac
    NoDevice = NoDevice
    MaxClients = 2
    Device <- MCDevice
    Sends <- MCSendsOne
    DeviceName = {"audiocrack"}
PROPERTIES FramesAreRead
