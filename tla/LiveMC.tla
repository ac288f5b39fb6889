------------------------------- MODULE LiveMC --------------------------------
(* What must happen in the end: the parts of the libraries that go on by   *)
(* themselves, side by side as in WiFiMC, with the fairness that the tasks *)
(* and the loop of the program give them.                                  *)
EXTENDS Integers, Sequences

CONSTANT Parts     \* the parts that this run lets run

VARIABLES
    part,     \* the part that runs; the others rest where they start
    DNS_IDLE, DNS_DONE, dnsPc, dnsCall, aResult, asked, told, calls, found,
    overdue, astray, conf, link, stationQueue, handling, stationStatus, staBits, autoReconnect, left,
    errno, errnoOf, handle, _connected, rx, peer, sockSent, taken, sockGot, flushed,
    flushing, writing, sockWire, errors,
    listening, sockfd, accepted, serverQueue, serverArrived, starts, open,
    handed, dropped, gone, tidy,
    frameWire, up, phase, hdr, need, payload, frameStatus, events, answers,
    frameSent, short,
    slots, stack, castArrived, called, outside, castGot, announced,
    now, tcp, clientStatus, head, lastConnectionFail, lastHeaderSent,
    clientWire, request, good, spent, event, since, outcome, soon, waited,
    clientGot

\* A full upgrade; a refusal that upgrades; one that breaks off.
UpgradeAnswers ==
    { <<"101", "upgrade", "websocket", "accept", "end">>,
      <<"403", "upgrade", "websocket", "end">>,
      <<"101", "upgrade">> }

\* Of every length, one that is too long, a close, one that there is not.
SomeFrames ==
    {[op |-> 1, fin |-> TRUE, data |-> [k \in 1 .. n |-> 1]] : n \in {0, 2, 8, 10}}
    \cup {[op |-> o, fin |-> TRUE, data |-> <<1, 0>>] : o \in {8, 3}}

\* Two tasks.
Lookup == INSTANCE HostByName WITH
    Callers <- {"sketch", "other"}, MaxCalls <- 3

\* The sketch never disconnects, and none waits.
Station == INSTANCE WiFiStation WITH
    queue <- stationQueue, status <- stationStatus,
    Network <- {"home", "roaster"}, MaxEvents <- 3,
    UserDisconnects <- FALSE, APlist <- {}, MaxAttempts <- 0,
    step <- "idle", seen <- "DISCONNECTED", result <- "none", attempts <- 0,
    ended <- FALSE

Socket == INSTANCE WiFiClient WITH
    sent <- sockSent, got <- sockGot, wire <- sockWire, Clients <- {"c1"},
    Size <- 2, FlushSize <- 2, MaxRetry <- 2, MaxBytes <- 2, MaxWrite <- 2,
    MaxErrors <- 1

Server == INSTANCE WiFiServer WITH
    queue <- serverQueue, arrived <- serverArrived, Connections <- 4,
    Starts <- 3, Backlog <- 2

Framing == INSTANCE WebSocketsFrame WITH
    wire <- frameWire, connected <- frameStatus, sent <- frameSent, Small <- 2,
    Base <- 3, MaskBit <- 8, MaxData <- 9, Frames <- SomeFrames,
    MaskKeys <- {<<0, 1, 1, 0>>}, MaxFrames <- 2

Broadcasts == INSTANCE Broadcast WITH
    arrived <- castArrived, got <- castGot, MaxClients <- 2, Nums <- {1},
    MaxCalls <- 1, MaxConnections <- 2

Client == INSTANCE WebSocketsClient WITH
    status <- clientStatus, wire <- clientWire, got <- clientGot, Wrap <- 10,
    isSocketIO <- FALSE, SocketIOLoop <- FALSE, reconnectInterval <- 2,
    TcpTimeout <- 5, HeartbeatInterval <- 8, MaxPeriod <- 1,
    Answers <- UpgradeAnswers

dnsVars == <<DNS_IDLE, DNS_DONE, dnsPc, dnsCall, aResult, asked, told, calls, found,
    overdue, astray>>
stationVars == <<conf, link, stationQueue, handling, stationStatus,
    staBits, autoReconnect, left>>
sockVars == <<errno, errnoOf, handle, _connected, rx, peer, sockSent, taken, sockGot,
    flushed, flushing, writing, sockWire, errors>>
serverVars == <<listening, sockfd, accepted, serverQueue, serverArrived,
    starts, open, handed, dropped, gone, tidy>>
frameVars == <<frameWire, up, phase, hdr, need, payload, frameStatus, events,
    answers, frameSent, short>>
castVars == <<slots, stack, castArrived, called, outside, castGot, announced>>
clientVars == <<now, tcp, clientStatus, head, lastConnectionFail,
    lastHeaderSent, clientWire, request, good, spent, event, since, outcome,
    soon, waited, clientGot>>

vars ==
    <<part, dnsVars, stationVars, sockVars, serverVars, frameVars, castVars,
    clientVars>>

Init ==
    /\ part \in Parts
    /\ Lookup!LookupInit
    /\ Station!StationInit
    /\ Socket!Init
    /\ Server!Init
    /\ Framing!FrameInit
    /\ Broadcasts!Init
    /\ Client!Init

\* What is bounded by its constants alone may stop there.
Next ==
    /\ part' = part
    /\ IF part = "lookup" THEN Lookup!LookupNext \/ UNCHANGED dnsVars ELSE UNCHANGED dnsVars
    /\ IF part = "station" THEN Station!StationNext ELSE UNCHANGED stationVars
    /\ IF part = "socket" THEN Socket!Next ELSE UNCHANGED sockVars
    /\ IF part = "server" THEN Server!Next \/ UNCHANGED serverVars ELSE UNCHANGED serverVars
    /\ IF part = "frames" THEN Framing!FrameNext \/ UNCHANGED frameVars ELSE UNCHANGED frameVars
    /\ IF part = "broadcast" THEN Broadcasts!Next \/ UNCHANGED castVars ELSE UNCHANGED castVars
    /\ IF part = "client" THEN Client!Next ELSE UNCHANGED clientVars

ASSUME LiveAssumption ==
    /\ Lookup!LookupAssumption
    /\ Station!StationAssumption
    /\ Server!ServerAssumption
    /\ Framing!FrameAssumption
    /\ Broadcasts!BroadcastAssumption
    /\ Client!ClientAssumption

\* A task in hostByName(), the event task, a write() that has begun, the sketch
\* that polls its server, the loop that reads a frame, a call under way, and the
\* loop of the client, over which time passes.
FairSpec ==
    /\ Init /\ [][Next]_vars
    /\ \A t \in {"sketch", "other"} : WF_dnsVars(part = "lookup" /\ Lookup!Step(t))
    /\ WF_stationVars(part = "station" /\ Station!_eventCallback)
    /\ WF_sockVars(part = "socket" /\ Socket!WriteTurn("c1"))
    /\ WF_serverVars(part = "server" /\ Server!available)
    /\ WF_frameVars(part = "frames" /\ Framing!Receive)
    /\ WF_castVars(part = "broadcast" /\ Broadcasts!Step)
    /\ WF_clientVars(part = "client" /\ Client!loop)
    /\ WF_clientVars(part = "client" /\ \E d \in 1 .. 1 : Client!Advance(d))
    /\ WF_clientVars(part = "client" /\ good /\ Client!Answer)
-----------------------------------------------------------------------------
\* Whatever was begun comes to its end: every call of hostByName() returns, a
\* connection lost to a silent access point is tried again, a write() ends,
\* a connection that arrives is handed over unless a call fails, a frame that ends
\* early does not hold the loop and an orderly stream is read to its end, every
\* call to the server returns, and once the server does its part the client
\* becomes connected.
WorkEnds ==
    /\ Lookup!Returns
    /\ Station!Recovers
    /\ Socket!WriteEnds
    /\ Server!Served
    /\ Framing!ReadsEnd
    /\ Framing!StreamIsDrained
    /\ Broadcasts!Returns
    /\ Client!Reconnects
==============================================================================
