SPECIFICATION FirmwareSpec
CONSTANTS
    Parts = {"ssid", "credentials", "main loop", "serial"}
    d1 = d1
    d2 = d2
    letter = 12
    \* the renaming
    NameSize = 8
    MaxScan = 4
    Names <- SsidNames
    \* the main loop
    Wrap = 8
    OfflineTime = 2
    DeadTime = 3
    MaxPeriod = 1
    MaxCommands = 1
    SteadyGap = 0
    PairTime = 4
    \* the serial port
    Size = 6
    MaxRx = 2
    Byte = {"P", "S", ",", "nul", "eol"}
    Nul = "nul"
    Eol = "eol"
    Comma = ","
    Keys <- Commands
    Fields <- Arguments
    \* the credentials
    Device = {d1, d2}
    Request <- Requests
    Missing = Missing
    Absent = Absent
    Unknown = Unknown
    ShortPass = {"short"}
    Renamed <- RenamedTo
SYMMETRY Devices
INVARIANTS
    RenamesSafely TokenizedOnce LineDecides OpenOnlyAfterTornSave InformedDevicesFollow
    DetectsAfterPairing
PROPERTIES
    ImplementsStore GraceAfterPairing
