SPECIFICATION Spec
CONSTANTS
    vs = vs
    ac = ac
    NoDevice = NoDevice
    MaxClients = 2
    Device <- MCDevice
    Sends <- MCSends
    DeviceName = {"audiocrack"}
INVARIANTS TypeOK VisualScopeAlwaysServed AudioCrackLostOnlyToStaleId RepliesReturnToSender RefusedForHalfOpen RegistrationMatchesMode
