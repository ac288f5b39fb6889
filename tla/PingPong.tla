------------------------------ MODULE PingPong ------------------------------
(***************************************************************************)
(* The ping/pong heartbeat of the WebSockets library: handleHBPing(),      *)
(* handleHBTimeout() and sendPing(), on the side of WebSocketsServer (a    *)
(* slot) or of WebSocketsClient, over many connections of the same slot.   *)
(*                                                                         *)
(* One turn of loop() reads a pong that waits, then sends a ping when it   *)
(* is due, then looks for a missing pong.  Time passes between two turns,  *)
(* at most MaxPeriod.  The peer answers, answers late, or stops answering  *)
(* while TCP still takes what is written to it.                            *)
(***************************************************************************)
EXTENDS Temporizador

CONSTANTS
    Server,                  \* TRUE: a slot of the server; FALSE: the client
    pingInterval, pongTimeout, disconnectTimeoutCount,
    Margin,                  \* the 500 ms by which a ping is forced
    MaxPeriod,
    AnswerTime               \* a peer answers, and upgrades, this fast

HeartbeatAssumption ==
    /\ Server \in BOOLEAN
    /\ pingInterval \in Nat \ {0} /\ pongTimeout \in Nat \ {0}
    /\ disconnectTimeoutCount \in Nat \ {0}
    /\ Margin \in Nat /\ MaxPeriod \in Nat \ {0} /\ AnswerTime \in Nat
    /\ pingInterval + Margin + MaxPeriod < Wrap
    /\ pongTimeout + MaxPeriod < Wrap

VARIABLES
    now,                \* millis()
    status,             \* client->status
    lastPing, pongReceived, pongTimeoutCount,
    spent,              \* time since the last turn
    asked,              \* age of the oldest ping without answer, or None
    pong,               \* a pong waits to be read
    \* history
    late,               \* in this connection the peer has been slow
    silent,             \* time since the connection began or a pong was read
    dropped             \* how the last connection ended

pingVars == <<now, status, lastPing, pongReceived, pongTimeoutCount, spent,
              asked, pong, late, silent, dropped>>

None == -1

\* A silent peer is noticed after the interval to the next ping and as many
\* time-outs as are allowed, each followed by a new ping in the next turn.
Bound == pingInterval + MaxPeriod
         + disconnectTimeoutCount * (pongTimeout + 2 * MaxPeriod)

UpTo(cap, n) == IF n < cap THEN n ELSE cap

PingInit ==
    /\ now = 0 /\ status = "down"
    /\ lastPing = 0 /\ pongReceived = FALSE /\ pongTimeoutCount = 0
    /\ spent = 0 /\ asked = None /\ pong = FALSE
    /\ late = FALSE /\ silent = 0 /\ dropped = "no"

\* Mutant: a new connection in a slot goes on with the ping times of the last.
newClientStale ==
    /\ status = "down"
    /\ status' = "header"
    /\ asked' = 0 /\ pong' = FALSE
    /\ late' = FALSE /\ silent' = 0 /\ dropped' = "no"
    /\ UNCHANGED <<now, lastPing, pongReceived, pongTimeoutCount, spent>>

\* The server's newClient() sets lastPing and pongReceived anew; the client
\* goes on with the values it had.  Neither touches pongTimeoutCount.
newClient ==
    /\ status = "down"
    /\ status' = "header"
    /\ IF Server THEN lastPing' = now /\ pongReceived' = FALSE
                 ELSE UNCHANGED <<lastPing, pongReceived>>
    /\ asked' = 0 /\ pong' = FALSE
    /\ late' = FALSE /\ silent' = 0 /\ dropped' = "no"
    /\ UNCHANGED <<now, pongTimeoutCount, spent>>

\* The handshake is complete: the server sends a first ping.
handleHeader ==
    /\ status = "header"
    /\ status' = "up"
    /\ asked' = IF Server THEN 0 ELSE None
    /\ silent' = 0
    /\ UNCHANGED <<now, lastPing, pongReceived, pongTimeoutCount, spent, pong,
                   late, dropped>>

Advance(d) ==
    /\ spent + d <= MaxPeriod
    /\ spent' = spent + d
    /\ now' = Tick(now, d)
    /\ asked' = IF asked = None THEN None ELSE UpTo(AnswerTime + 1, asked + d)
    /\ late' = (late \/ asked' > AnswerTime)
    /\ silent' = UpTo(Bound + 1, silent + d)
    /\ UNCHANGED <<status, lastPing, pongReceived, pongTimeoutCount, pong,
                   dropped>>

Answer ==
    /\ status = "up" /\ asked # None
    /\ asked' = None
    /\ pong' = TRUE
    /\ UNCHANGED <<now, status, lastPing, pongReceived, pongTimeoutCount,
                   spent, late, silent, dropped>>

\* The connection ends for another reason.
Lost ==
    /\ status # "down"
    /\ status' = "down" /\ asked' = None /\ pong' = FALSE
    /\ dropped' = "lost"
    /\ UNCHANGED <<now, lastPing, pongReceived, pongTimeoutCount, spent,
                   late, silent>>
-----------------------------------------------------------------------------
\* Mutant: a ping that is sent does not clear the pong of the one before.
PingedKeep(s) ==
    IF Elapsed(now, s.lastPing) > pingInterval /\ status = "up"
      THEN [s EXCEPT !.lastPing = now, !.asked = IF @ = None THEN 0 ELSE @]
      ELSE s

\* sendPing(): only over an upgraded connection.
sendPing(s) ==
    IF status = "up" THEN [s EXCEPT !.lastPing = now, !.asked = IF @ = None THEN 0 ELSE @]
    ELSE s

\* handleHBPing(): when the interval is over; the pong of the last ping no
\* longer counts.
Pinged(s) ==
    IF Elapsed(now, s.lastPing) > pingInterval /\ status = "up"
      THEN [sendPing(s) EXCEPT !.got = FALSE]
      ELSE s

\* handleHBTimeout() finds that the pong has not come in time ...
Missing(s) == ~ s.got /\ Elapsed(now, s.lastPing) > pongTimeout

\* ... counts it, and forces a ping in the next turn.
Back(n) == IF n <= now THEN now - n ELSE now + Wrap - n

TimedOut(s) ==
    IF s.got THEN [s EXCEPT !.count = 0]
    ELSE IF Missing(s)
      THEN [s EXCEPT !.count = @ + 1, !.lastPing = Back(pingInterval + Margin)]
      ELSE s

\* One turn.  The client looks at its heartbeat only when it is upgraded.
Turn ==
    /\ status # "down"
    /\ spent > 0
    /\ LET read == [lastPing |-> lastPing, got |-> pongReceived \/ pong,
                    count |-> pongTimeoutCount, asked |-> asked]
           s    == IF Server \/ status = "up" THEN TimedOut(Pinged(read)) ELSE read
           miss == s.count > read.count
           drop == miss /\ s.count >= disconnectTimeoutCount
       IN  /\ lastPing' = s.lastPing
           /\ pongReceived' = s.got
           /\ pongTimeoutCount' = UpTo(disconnectTimeoutCount, s.count)
           /\ status' = IF drop THEN "down" ELSE status
           /\ asked' = IF drop THEN None ELSE s.asked
           /\ dropped' = CASE ~ drop -> dropped
                           [] drop /\ late -> "silent"
                           [] OTHER -> "answering"
    /\ pong' = FALSE
    /\ silent' = IF pong THEN 0 ELSE silent
    /\ spent' = 0
    /\ UNCHANGED <<now, late>>

PingNext == newClient \/ handleHeader \/ Answer \/ Lost \/ Turn
        \/ \E d \in 1 .. MaxPeriod : Advance(d)

PingSpec == PingInit /\ [][PingNext]_pingVars
-----------------------------------------------------------------------------
\* A peer that upgrades and answers every ping in AnswerTime is not dropped by
\* the heartbeat, whatever the connections before it left in the slot.
KeepsAnsweringPeers == dropped # "answering"

\* A peer that stops answering is dropped in bounded time, although TCP goes
\* on taking what is written to it.
DropsSilentPeers == status = "up" => silent <= Bound
=============================================================================
