-------------------------- MODULE WebSocketsClient --------------------------
(***************************************************************************)
(* The connection of the WebSockets library's client: loop() connects,     *)
(* waits between attempts, sends the upgrade request, reads one line of    *)
(* the answer a turn and gives the request up when the answer is late.     *)
(* With isSocketIO the first answer brings a session and no upgrade, and   *)
(* SocketIOclient::loop() adds a ping of its own.                          *)
(*                                                                         *)
(* The server may refuse the connection, stay silent, answer any lines,    *)
(* or lose the connection, until it turns good.                            *)
(***************************************************************************)
EXTENDS Temporizador, Sequences

CONSTANTS
    isSocketIO,
    SocketIOLoop,          \* the client is driven by SocketIOclient::loop()
    reconnectInterval,     \* _reconnectInterval
    TcpTimeout,            \* WEBSOCKETS_TCP_TIMEOUT
    HeartbeatInterval,     \* EIO_HEARTBEAT_INTERVAL
    MaxPeriod,             \* a turn of loop() comes at least this often
    Answers                \* the answers a server may give: sequences of lines

ClientAssumption ==
    /\ isSocketIO \in BOOLEAN /\ SocketIOLoop \in BOOLEAN
    /\ reconnectInterval \in Nat /\ TcpTimeout \in Nat /\ HeartbeatInterval \in Nat
    /\ MaxPeriod \in Nat \ {0}
    /\ TcpTimeout + MaxPeriod < Wrap /\ reconnectInterval + MaxPeriod < Wrap

VARIABLES
    now,                   \* millis()
    tcp,                   \* "null", "open", or "lost": not connected any more
    status,                \* "not", "header" or "connected"
    head,                  \* cCode, cIsUpgrade, cIsWebsocket, cAccept, cSessionId
    lastConnectionFail, lastHeaderSent,
    wire,                  \* lines of the answer that wait to be read
    request,               \* a request the server has not answered
    good,                  \* the server accepts and answers as it should
    spent,                 \* time since the last turn
    \* history
    event,                 \* the last event the program was told
    since,                 \* time since the last attempt began or was refused
    outcome,               \* of that attempt: how far it came
    soon,                  \* the outcome of one that was repeated too soon
    waited,                \* age of the request that waits for its answer
    got                    \* lines read from this server, its key for this request

vars == <<now, tcp, status, head, lastConnectionFail, lastHeaderSent, wire,
          request, good, spent, event, since, outcome, soon, waited, got>>

None == -1
Cap == TcpTimeout + 2 * MaxPeriod
UpTo(cap, n) == IF n < cap THEN n ELSE cap

\* begin() presets cIsWebsocket; clientDisconnect() clears it.
Blank(websocket) == [code |-> 0, upgrade |-> FALSE, websocket |-> websocket,
                     accept |-> "none", session |-> FALSE]

Lines == {"101", "200", "403", "upgrade", "websocket", "accept", "wrong",
          "cookie", "end"}

\* What a server that does its part sends: the upgrade, or the session first.
GoodAnswer == IF isSocketIO /\ ~ head.session
                THEN <<"200", "cookie", "end">>
                ELSE <<"101", "upgrade", "websocket", "accept", "end">>

begin ==
    /\ now = 0 /\ tcp = "null" /\ status = "not" /\ head = Blank(TRUE)
    /\ lastConnectionFail = 0 /\ lastHeaderSent = 0
    /\ wire = <<>> /\ request = FALSE /\ good = FALSE /\ spent = 0
    /\ event = "none" /\ since = None /\ waited = None /\ got = {}
    /\ outcome = "none" /\ soon = "no"

Init == begin
-----------------------------------------------------------------------------
\* The client as loop() and its handlers pass it on.
Client == [tcp |-> tcp, status |-> status, head |-> head,
           fail |-> lastConnectionFail, sent |-> lastHeaderSent, wire |-> wire,
           request |-> request, event |-> event, outcome |-> outcome,
           waited |-> waited, got |-> got]

Become(c) ==
    /\ tcp' = c.tcp /\ status' = c.status /\ head' = c.head
    /\ lastConnectionFail' = c.fail /\ lastHeaderSent' = c.sent
    /\ wire' = c.wire /\ request' = c.request
    /\ event' = c.event /\ outcome' = c.outcome /\ waited' = c.waited
    /\ got' = c.got

\* The program is told whenever there was a socket, connected or not.
clientDisconnect(c) ==
    [c EXCEPT !.tcp = "null", !.status = "not", !.head = Blank(FALSE),
              !.wire = <<>>, !.request = FALSE, !.waited = None,
              !.event = IF c.tcp = "null" THEN @ ELSE "disconnected"]

clientIsConnected(c) == c.tcp = "open" /\ c.status # "not"

\* clientIsConnected() cleans up what is not connected.
Looked(c) ==
    IF clientIsConnected(c) \/ c.tcp = "null" THEN c ELSE clientDisconnect(c)

\* A new key makes any answer to the key before wrong.
sendHeader(c) ==
    [c EXCEPT !.head.accept = IF @ = "right" THEN "wrong" ELSE @,
              !.got = @ \ {"accept"}, !.request = TRUE, !.sent = now, !.waited = 0]

connectedCb(c) == sendHeader([c EXCEPT !.status = "header", !.got = {}])

\* A line of the answer ...
Took(c, line) ==
    CASE line = "101" -> [c EXCEPT !.head.code = 101]
      [] line = "200" -> [c EXCEPT !.head.code = 200]
      [] line = "403" -> [c EXCEPT !.head.code = 403]
      [] line = "upgrade" -> [c EXCEPT !.head.upgrade = TRUE]
      [] line = "websocket" -> [c EXCEPT !.head.websocket = TRUE]
      [] line = "accept" -> [c EXCEPT !.head.accept = "right"]
      [] line = "wrong" -> [c EXCEPT !.head.accept = "wrong"]
      [] line = "cookie" -> [c EXCEPT !.head.session = TRUE]

Accepted(h) ==
    /\ h.upgrade /\ h.websocket
    /\ h.code = 101 \/ (h.code = 200 /\ isSocketIO)
    /\ h.accept = "right"

Refused(c) == clientDisconnect([c EXCEPT !.fail = now, !.outcome = "refused"])

\* ... and the empty line that ends it.  A code that is none of the good ones
\* disconnects before the session is looked at.
Ended(c) ==
    LET bad == c.head.upgrade /\ c.head.websocket
               /\ ~ (c.head.code = 101 \/ (c.head.code = 200 /\ isSocketIO))
    IN  IF Accepted(c.head)
          THEN [c EXCEPT !.status = "connected", !.event = "connected", !.waited = None,
                              !.outcome = "connected"]
        ELSE IF ~ bad /\ clientIsConnected(c) /\ isSocketIO /\ c.head.session
          THEN sendHeader([c EXCEPT !.wire = <<>>])
        ELSE Refused(IF bad THEN clientDisconnect(c) ELSE c)

handleHeader(c, line) == IF line = "end" THEN Ended(c) ELSE [Took(c, line) EXCEPT !.got = @ \cup {line}]

\* The comparison is a sum, not a difference: it fails when the sum wraps.
HeaderLate(c) == c.status = "header" /\ (c.sent + TcpTimeout) % Wrap < now

handleClientData(c) ==
    IF HeaderLate(c) THEN clientDisconnect(c)
    ELSE IF c.wire = <<>> THEN c
    ELSE LET rest == [c EXCEPT !.wire = Tail(@)]
         IN  IF c.status = "header" THEN handleHeader(rest, Head(c.wire)) ELSE rest

\* A socket that is gone still gives what has come before.
Connect(c, accepted) ==
    IF accepted
      THEN [connectedCb([c EXCEPT !.tcp = "open", !.outcome = "unanswered"]) EXCEPT !.fail = 0]
      ELSE [c EXCEPT !.tcp = "lost", !.fail = now, !.outcome = "refused"]

\* do not flood the server
Floods(c) == Elapsed(now, c.fail) < reconnectInterval

\* SocketIOclient::loop() keeps the time of its ping in _lastConnectionFail;
\* outside a connection the ping is not sent, and the time is set all the same.
IOTurn(c) ==
    IF SocketIOLoop /\ Elapsed(now, c.fail) > HeartbeatInterval
      THEN [Looked(c) EXCEPT !.fail = now] ELSE c

loop ==
    /\ spent > 0 \/ wire # <<>>
    /\ spent' = 0
    /\ LET c == Looked(Client)
       IN  IF clientIsConnected(Client)
             THEN /\ Become(IOTurn(handleClientData(Client)))
                  /\ since' = IF outcome' = "refused" THEN 0 ELSE since
                  /\ soon' = soon
           ELSE IF Floods(c) THEN Become(IOTurn(c)) /\ UNCHANGED <<since, soon>>
           ELSE \E accepted \in IF good THEN {TRUE} ELSE BOOLEAN :
                    /\ Become(IOTurn(Connect(c, accepted)))
                    /\ since' = 0
                    /\ soon' = IF since # None /\ since < reconnectInterval
                                THEN outcome ELSE "no"
    /\ UNCHANGED <<now, good>>

\* The program ends the connection; loop() connects again.
disconnect ==
    /\ ~ good
    /\ Become(IF clientIsConnected(Client)
                THEN [clientDisconnect(Client) EXCEPT !.outcome = "closed"]
                ELSE Looked(Client))
    /\ UNCHANGED <<now, good, spent, since, soon>>
-----------------------------------------------------------------------------
\* A good server answers at once.
Advance(d) ==
    /\ ~ (good /\ request)
    /\ spent + d <= MaxPeriod
    /\ spent' = spent + d /\ now' = Tick(now, d)
    /\ since' = IF since = None THEN None ELSE UpTo(Cap, since + d)
    /\ waited' = IF waited = None THEN None ELSE UpTo(Cap, waited + d)
    /\ UNCHANGED <<tcp, status, head, lastConnectionFail, lastHeaderSent, wire,
                   request, good, event, outcome, soon, got>>

\* The server answers the request, in one piece.
Answer ==
    /\ request /\ tcp = "open"
    /\ request' = FALSE
    /\ \E a \in IF good THEN {GoodAnswer} ELSE Answers : wire' = wire \o a
    /\ UNCHANGED <<now, tcp, status, head, lastConnectionFail, lastHeaderSent,
                   good, spent, event, since, outcome, soon, waited, got>>

\* The connection is lost with what is on its way.
Lose ==
    /\ tcp = "open" /\ ~ good
    /\ tcp' = "lost" /\ wire' = <<>> /\ request' = FALSE
    /\ UNCHANGED <<now, status, head, lastConnectionFail, lastHeaderSent,
                   good, spent, event, since, outcome, soon, waited, got>>

\* The server is mended: it answers what is asked from now on.
Mend ==
    /\ ~ good /\ good' = TRUE
    /\ tcp' = IF tcp = "open" THEN "lost" ELSE tcp
    /\ wire' = <<>> /\ request' = FALSE
    /\ UNCHANGED <<now, status, head, lastConnectionFail, lastHeaderSent,
                   spent, event, since, outcome, soon, waited, got>>

Next == loop \/ disconnect \/ Answer \/ Lose \/ Mend
        \/ \E d \in 1 .. MaxPeriod : Advance(d)

Spec == Init /\ [][Next]_vars

-----------------------------------------------------------------------------
\* The client is connected only after this server, on this connection, has
\* answered the key of the last request and sent the upgrade with its code.
UpgradedByThisServer ==
    status = "connected" =>
        /\ {"accept", "upgrade"} \subseteq got
        /\ "101" \in got \/ (isSocketIO /\ "200" \in got)

\* An attempt that could not connect, or was answered with a refusal, is not
\* repeated within the reconnect interval.
RefusedWaits == soon # "refused"

\* A request that is not answered is given up in time, unless the clock wraps
\* while it waits.
HeaderWaitBounded ==
    waited > TcpTimeout + MaxPeriod =>
        lastHeaderSent + TcpTimeout + MaxPeriod >= Wrap - 1

\* Once the server does its part the client becomes connected, whatever has
\* been before and wherever the clock stands.
Reconnects == good ~> status = "connected"
=============================================================================
