---------------------------- MODULE WebSocketsMC -----------------------------
(* The parts of the WebSockets library side by side, as in WiFiMC: a       *)
(* behaviour lets one of them run.  Those of Broadcast, PingPong,          *)
(* WebSocketsFrame, ServerHandshake and Base64, which have theorems, keep  *)
(* their names; the PingPong is the server's.                              *)
EXTENDS Broadcast, PingPong, WebSocketsFrame, ServerHandshake, Base64

CONSTANT Parts     \* the parts that this run lets run

VARIABLES
    part,     \* the part that runs; the others rest where they start
    longPlain, longState, longCode, longEnded, longRead, longDecoder, longText,
    backNow, backStatus, backLastPing, backReceived, backCount, backSpent,
    backAsked, backPong, backLate, backSilent, backDropped,
    clientNow, tcp, clientStatus, head, lastConnectionFail, lastHeaderSent,
    clientWire, request, good, clientSpent, event, since, outcome, soon,
    waited, clientGot,
    ioStatus, ioUp, looked, ioWire, told, ioSent, ioArrived, cut

\* A full upgrade; one without its Upgrade line; one with a wrong key; a
\* refusal that upgrades; a session; an answer that breaks off.
UpgradeAnswers ==
    { <<"101", "upgrade", "websocket", "accept", "end">>,
      <<"101", "upgrade", "accept", "end">>,
      <<"101", "upgrade", "websocket", "wrong", "end">>,
      <<"403", "upgrade", "websocket", "end">>,
      <<"200", "cookie", "end">>,
      <<"101", "upgrade">>,
      <<"accept", "end">> }

SessionAnswers ==
    { <<"101", "upgrade", "websocket", "accept", "end">>,
      <<"200", "cookie", "end">>,
      <<"200", "cookie", "upgrade", "websocket", "wrong", "end">> }

Text(data) == [op |-> "text", fin |-> TRUE, data |-> data]

\* What the server of a SocketIOclient sends.
ServerFrames ==
    { Text(<<>>), Text(<<"2">>), Text(<<"2", "p">>), Text(<<"3">>), Text(<<"4">>),
      Text(<<"4", "0">>), Text(<<"4", "2", "a">>),
      [op |-> "text", fin |-> FALSE, data |-> <<"4", "2">>],
      [op |-> "continuation", fin |-> TRUE, data |-> <<"a">>],
      [op |-> "binary", fin |-> TRUE, data |-> <<"2">>],
      [op |-> "ping", fin |-> TRUE, data |-> <<"2">>] }

Data(n) == [k \in 1 .. n |-> IF k % 3 = 1 THEN 1 ELSE 0]

\* Text frames around the limits of the three lengths, and of the largest
\* payload; fragments; control frames; an operation that there is not.  Without
\* a key and with one.
SomeFrames ==
    {[op |-> 1, fin |-> TRUE, data |-> Data(n)] : n \in {0, 1, 2, 3, 7, 8, 9, 10}}
    \cup {[op |-> o, fin |-> FALSE, data |-> Data(1)] : o \in {0, 2}}
    \cup {[op |-> o, fin |-> TRUE, data |-> Data(2)] : o \in {8, 9, 10, 3}}

SomeKeys == {<<>>, <<0, 1, 1, 0>>}

\* One letter, and long texts: for the size of the buffer.
LongCode == INSTANCE Base64 WITH
    plain <- longPlain, state_in <- longState, code <- longCode,
    ended <- longEnded, read <- longRead, decoder <- longDecoder, text <- longText,
    Byte <- {91}, MaxBytes <- 40, MaxPiece <- 7, CHARS_PER_LINE <- 20

\* The client, whose server is slower.
ClientPing == INSTANCE PingPong WITH
    now <- backNow, status <- backStatus, lastPing <- backLastPing,
    pongReceived <- backReceived, pongTimeoutCount <- backCount,
    spent <- backSpent, asked <- backAsked, pong <- backPong,
    late <- backLate, silent <- backSilent, dropped <- backDropped,
    Wrap <- 16, Server <- FALSE, pingInterval <- 8, pongTimeout <- 5,
    disconnectTimeoutCount <- 2, Margin <- 1, MaxPeriod <- 2, AnswerTime <- 3

Client == INSTANCE WebSocketsClient WITH
    now <- clientNow, status <- clientStatus, wire <- clientWire,
    spent <- clientSpent, got <- clientGot, Wrap <- 14, isSocketIO <- FALSE,
    SocketIOLoop <- FALSE, reconnectInterval <- 3, TcpTimeout <- 5,
    HeartbeatInterval <- 8, MaxPeriod <- 1, Answers <- UpgradeAnswers

\* A SocketIOclient.
SocketIO == INSTANCE WebSocketsClient WITH
    now <- clientNow, status <- clientStatus, wire <- clientWire,
    spent <- clientSpent, got <- clientGot, Wrap <- 12, isSocketIO <- TRUE,
    SocketIOLoop <- TRUE, reconnectInterval <- 3, TcpTimeout <- 5,
    HeartbeatInterval <- 6, MaxPeriod <- 1, Answers <- SessionAnswers

Messages == INSTANCE SocketIOMessages WITH
    status <- ioStatus, up <- ioUp, wire <- ioWire, sent <- ioSent,
    arrived <- ioArrived, Careful <- TRUE, OneWrite <- FALSE,
    Payload <- {<<>>, <<"a">>}, Frames <- ServerFrames, MaxSent <- 1,
    MaxArrived <- 2

\* A program that does not wait, and frames that are packed into one write.
Careless == INSTANCE SocketIOMessages WITH
    status <- ioStatus, up <- ioUp, wire <- ioWire, sent <- ioSent,
    arrived <- ioArrived, Careful <- FALSE, OneWrite <- TRUE,
    Payload <- {<<"a", "b">>}, Frames <- {Text(<<"2">>)}, MaxSent <- 1,
    MaxArrived <- 1

longVars == <<longPlain, longState, longCode, longEnded, longRead, longDecoder, longText>>
backVars == <<backNow, backStatus, backLastPing, backReceived, backCount,
    backSpent, backAsked, backPong, backLate, backSilent, backDropped>>
clientVars == <<clientNow, tcp, clientStatus, head, lastConnectionFail,
    lastHeaderSent, clientWire, request, good, clientSpent, event, since,
    outcome, soon, waited, clientGot>>
ioVars == <<ioStatus, ioUp, looked, ioWire, told, ioSent, ioArrived, cut>>

allVars ==
    <<part, codeVars, longVars, shakeVars, frameVars, vars, pingVars, backVars,
    clientVars, ioVars>>

WebSocketsInit ==
    /\ Init
    /\ part \in Parts
    /\ CodeInit
    /\ LongCode!CodeInit
    /\ ShakeInit
    /\ FrameInit
    /\ PingInit
    /\ ClientPing!PingInit
    /\ Client!Init
    /\ Messages!Init

\* What is bounded by its constants alone may stop there.
WebSocketsNext ==
    /\ part' = part
    /\ IF part = "base64" THEN CodeNext \/ UNCHANGED codeVars ELSE UNCHANGED codeVars
    /\ IF part = "long base64"
         THEN LongCode!CodeNext \/ UNCHANGED longVars
         ELSE UNCHANGED longVars
    /\ IF part = "handshake" THEN ShakeNext ELSE UNCHANGED shakeVars
    /\ IF part = "frames" THEN FrameNext \/ UNCHANGED frameVars ELSE UNCHANGED frameVars
    /\ IF part = "broadcast" THEN Next \/ UNCHANGED vars ELSE UNCHANGED vars
    /\ IF part = "server ping" THEN PingNext ELSE UNCHANGED pingVars
    /\ IF part = "client ping" THEN ClientPing!PingNext ELSE UNCHANGED backVars
    /\ CASE part = "client" -> Client!Next
         [] part = "socketio" -> SocketIO!Next
         [] OTHER -> UNCHANGED clientVars
    /\ CASE part = "messages" -> Messages!Next \/ UNCHANGED ioVars
         [] part = "careless" -> Careless!Next \/ UNCHANGED ioVars
         [] OTHER -> UNCHANGED ioVars

ASSUME WebSocketsAssumption ==
    /\ CodeAssumption
    /\ LongCode!CodeAssumption
    /\ HeadersAssumption
    /\ FrameAssumption
    /\ BroadcastAssumption
    /\ HeartbeatAssumption
    /\ ClientPing!HeartbeatAssumption
    /\ Client!ClientAssumption
    /\ SocketIO!ClientAssumption

WebSocketsSpec == WebSocketsInit /\ [][WebSocketsNext]_allVars
-----------------------------------------------------------------------------
\* The client is connected only after this server answered its last request, waits
\* for the reconnect interval after a failure, gives up a request without answer in
\* time and drops a server that fell silent.  Over Socket.IO the server hears of the
\* upgrade first, every ping is answered with what it carried, and the program is
\* told everything that came whole, in order.  The code of a long text, too, is as
\* CodesAgree says.
PartsAgree ==
    /\ part = "client" => /\ Client!UpgradedByThisServer
                          /\ Client!RefusedWaits
                          /\ Client!HeaderWaitBounded
    /\ part = "socketio" => /\ SocketIO!UpgradedByThisServer
                            /\ SocketIO!RefusedWaits
    /\ part = "client ping" => ClientPing!DropsSilentPeers
    /\ part = "messages" => /\ Messages!UpgradeFirst
                            /\ Messages!PingsAnswered
                            /\ Messages!ToldInOrder
    /\ part = "careless" => Careless!PingsAnswered
    /\ LongCode!CodesAgree
==============================================================================
