------------------------------- MODULE WiFiMC --------------------------------
(* The parts of the WiFi library side by side.  They do not interact in     *)
(* what is checked here, so a behaviour lets one of them run while the      *)
(* others rest where they start: TLC explores the sum of the parts, not     *)
(* their product.  Two instances of one module share its variables.         *)
EXTENDS WiFiScan, WiFiMode, HostByName, WiFiEvents, WiFiStation

CONSTANT Parts     \* the parts that this run lets run

VARIABLES
    part,     \* the part that runs; the others rest where they start
    _smartConfigStarted, _smartConfigDone, sdk, stage, sketch, received,
    crossed, rounds,
    multiList, multiScan, multiI, best, multiPc,
    errno, errnoOf, handle, _connected, rx, peer, sent, taken, got, flushed, flushing,
    writing, wire, clientErrors,
    udp_server, multicast_ip, server_port, remote, tx_buffer, rx_buffer,
    udpQueue, sockets, members, buffers, addressed, parsed, lastFrom, packets,
    written, onwire, udpErrors,
    listening, sockfd, accepted, serverQueue, arrived, starts, open, handed,
    dropped, gone, tidy

\* Two that differ in the channel alone, one with a short password, and one
\* without a name.
Configs == { [ssid |-> "roaster", password |-> "12345678", channel |-> 1],
             [ssid |-> "roaster", password |-> "12345678", channel |-> 6],
             [ssid |-> "roaster", password |-> "1234567", channel |-> 1],
             [ssid |-> "", password |-> "", channel |-> 0] }

\* With a sketch that waits, and never disconnects.
Connecting == INSTANCE WiFiStation WITH
    UserDisconnects <- FALSE, MaxEvents <- 2

Smart == INSTANCE SmartConfig WITH
    MaxRounds <- 3

Multi == INSTANCE WiFiMulti WITH
    APlist <- multiList, scan <- multiScan, i <- multiI, pc <- multiPc,
    Name <- {"roaster", "other"}, Strength <- {0, 1}, Half <- 4,
    MaxEntries <- 2, MaxFound <- 4

Client == INSTANCE WiFiClient WITH
    errors <- clientErrors, Clients <- {"c1"}, Size <- 3, FlushSize <- 2,
    MaxRetry <- 2, MaxBytes <- 4, MaxWrite <- 2, MaxErrors <- 1

\* Two connections of one task, which read only.
Pair == INSTANCE WiFiClient WITH
    errors <- clientErrors, Clients <- {"c1", "c2"}, Size <- 1, FlushSize <- 1,
    MaxRetry <- 1, MaxBytes <- 1, MaxWrite <- 0, MaxErrors <- 0

Udp == INSTANCE WiFiUdp WITH
    queue <- udpQueue, errors <- udpErrors, Hosts <- {"h1", "h2"},
    Group <- "group", Limit <- 2, MaxLength <- 3, MaxQueue <- 1,
    MaxPackets <- 2, MaxErrors <- 1

Server == INSTANCE WiFiServer WITH
    queue <- serverQueue, Connections <- 4, Starts <- 3, Backlog <- 2

smartVars == <<_smartConfigStarted, _smartConfigDone, sdk, stage, sketch,
    received, crossed, rounds>>
multiVars == <<multiList, multiScan, multiI, best, multiPc>>
clientVars == <<errno, errnoOf, handle, _connected, rx, peer, sent, taken, got,
    flushed, flushing, writing, wire, clientErrors>>
udpVars == <<udp_server, multicast_ip, server_port, remote, tx_buffer,
    rx_buffer, udpQueue, sockets, members, buffers, addressed, parsed, lastFrom,
    packets, written, onwire, udpErrors>>
serverVars == <<listening, sockfd, accepted, serverQueue, arrived, starts,
    open, handed, dropped, gone, tidy>>

allVars ==
    <<part, scanVars, lookupVars, connectVars, modeVars, eventVars, smartVars,
    multiVars, clientVars, udpVars, serverVars>>

WiFiInit ==
    /\ part \in Parts
    /\ ScanInit
    /\ LookupInit
    /\ ConnectInit
    /\ ModeInit
    /\ EventsInit
    /\ Smart!Init
    /\ Multi!Init
    /\ IF part = "pair" THEN Pair!Init ELSE Client!Init
    /\ Udp!Init
    /\ Server!Init

\* What is bounded by its constants alone may stop there.
WiFiNext ==
    /\ part' = part
    /\ IF part = "scan" THEN ScanNext ELSE UNCHANGED scanVars
    /\ IF part = "lookup" THEN LookupNext \/ UNCHANGED lookupVars ELSE UNCHANGED lookupVars
    /\ CASE part = "station" -> StationNext /\ UNCHANGED waiter
         [] part = "connecting" -> Connecting!ConnectNext
         [] OTHER -> UNCHANGED connectVars
    /\ IF part = "mode" THEN ModeNext ELSE UNCHANGED modeVars
    /\ IF part = "events" THEN EventsNext ELSE UNCHANGED eventVars
    /\ IF part = "smartconfig" THEN Smart!Next ELSE UNCHANGED smartVars
    /\ IF part = "multi" THEN Multi!Next ELSE UNCHANGED multiVars
    /\ CASE part = "client" -> Client!Next
         [] part = "pair" -> Pair!Next
         [] OTHER -> UNCHANGED clientVars
    /\ IF part = "udp" THEN Udp!Next ELSE UNCHANGED udpVars
    /\ IF part = "server" THEN Server!Next \/ UNCHANGED serverVars ELSE UNCHANGED serverVars

ASSUME WiFiAssumption ==
    /\ ScanAssumption
    /\ LookupAssumption
    /\ StationAssumption
    /\ ConnectingAssumption
    /\ ModeAssumption
    /\ EventsAssumption
    /\ Multi!MultiAssumption
    /\ Client!ClientAssumption
    /\ Udp!UdpAssumption
    /\ Server!ServerAssumption

WiFiSpec == WiFiInit /\ [][WiFiNext]_allVars
-----------------------------------------------------------------------------
\* SmartConfig's flags belong to this round; WiFiMulti joins the strongest
\* network that it can join and passes none over.  TCP: bytes are read and written
\* in order, without a gap, none twice, and only a peer that left is lost; UDP: a
\* datagram holds bytes of one packet and only receiving redirects it; nothing
\* open or allocated is forgotten; connections are handed over once, in order, and
\* none is overlooked.
ServicesAgree ==
    /\ Smart!FlagFollowsService
    /\ Smart!DoneOfThisRound
    /\ Multi!JoinsStrongest
    /\ Multi!NothingPassedOver
    /\ part = "client" => /\ Client!ReadsTheStream
                          /\ Client!AvailableIsReadable
                          /\ Client!WriteCountsSent
    /\ part = "pair" => Pair!ReadsTheStream
    /\ Udp!NothingLeaks /\ Udp!PiecesOfOnePacket
    /\ Udp!SentWhereDue /\ Udp!RemoteIsSender
    /\ Server!NothingOverlooked /\ Server!NoSocketLeft /\ Server!HandedInOrder

==============================================================================
