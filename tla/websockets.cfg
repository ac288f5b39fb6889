SPECIFICATION WebSocketsSpec
CONSTANTS
    Parts = {"base64", "long base64", "handshake", "frames", "broadcast", "server ping", "client ping", "client", "socketio", "messages", "careless"}
    \* the calls to the server
    MaxClients = 3
    Nums = {1}
    MaxCalls = 1
    MaxConnections = 3
    \* its heartbeat
    Wrap = 16
    Server = TRUE
    pingInterval = 8
    pongTimeout = 6
    disconnectTimeoutCount = 2
    Margin = 1
    MaxPeriod = 2
    AnswerTime = 1
    \* frames
    Small = 2
    Base = 3
    MaskBit = 8
    MaxData = 9
    Frames <- SomeFrames
    MaskKeys <- SomeKeys
    MaxFrames = 2
    \* the headers of a request
    Mandatory = {"session", "device"}
    Rejected = {"old"}
    MaxCount = 4
    \* the coder
    Byte = {0, 91, 254}
    MaxBytes = 6
    MaxPiece = 3
    CHARS_PER_LINE = 4
    PastTable = 5
INVARIANTS
    CodesAgree HandshakeAgrees DeliveredAsSent BroadcastsAgree
    KeepsAnsweringPeers DropsSilentPeers PartsAgree
