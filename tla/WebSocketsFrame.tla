-------------------------- MODULE WebSocketsFrame ---------------------------
(***************************************************************************)
(* One direction of a WebSocket connection, byte by byte: the sender's     *)
(* sendFrame() and createHeader(), the TCP stream, and the receiver's      *)
(* handleWebsocket*() and readCb() of WebSockets.cpp, with its answers.    *)
(*                                                                         *)
(* The first byte of a frame is fin * 128 + opcode; of the other numbers   *)
(* only the proportions matter, so the 7-bit length with its two markers,  *)
(* the byte and the largest payload are parameters.  Payload bits are      *)
(* 0 or 1.                                                                 *)
(*                                                                         *)
(* write() gives up when the peer takes nothing for WEBSOCKETS_TCP_TIMEOUT *)
(* and sendFrame() then says so, but nobody closes the connection: the     *)
(* next frame follows the part that was written.                           *)
(***************************************************************************)
EXTENDS Integers, SequencesExt

CONSTANTS
    Small,      \* lengths below it fit the second byte (126)
    Base,       \* values of a byte of an extended length (256)
    MaskBit,    \* the mask bit of the second byte (128)
    MaxData,    \* WEBSOCKETS_MAX_DATA_SIZE
    Frames,     \* the frames the sender may send: [op, fin, data]
    MaskKeys,   \* the keys it may draw; << >> is the server's side, no mask
    MaxFrames   \* frames sent in a behaviour

Mid == Base * Base - 1        \* 0xFFFF

\* A size_t has four bytes.
FrameAssumption ==
    /\ {Small, MaskBit, MaxData, MaxFrames} \subseteq Nat /\ Base \in Nat \ {0}
    /\ Small + 1 < MaskBit /\ Small < Mid
    /\ Frames \subseteq [op : 0 .. 15, fin : BOOLEAN, data : Seq({0, 1})]
    /\ \A f \in Frames : Len(f.data) < Base * Base * Base * Base
    /\ MaskKeys \subseteq {<< >>} \cup [1 .. 4 -> {0, 1}]

VARIABLES
    wire,      \* bytes written and not yet read
    up,        \* the TCP connection stands
    phase,     \* what the receiver does: idle, or readCb() of header or payload
    hdr,       \* cWsHeader up to cWsRXsize
    need,      \* bytes the current readCb() waits for
    payload,   \* payload read so far
    connected, \* the receiver's client->status is WSC_CONNECTED
    events,    \* messageReceived() calls: [op, fin, data]
    answers,   \* frames the receiver sent: pongs and closes
    \* history
    sent,      \* frames given to sendFrame()
    short      \* a frame was written in part

frameVars == <<wire, up, phase, hdr, need, payload, connected, events, answers,
               sent, short>>

WSop_continuation == 0
WSop_text == 1
WSop_binary == 2
WSop_close == 8
WSop_ping == 9
WSop_pong == 10
Handled == {WSop_continuation, WSop_text, WSop_binary, WSop_ping, WSop_pong}

-----------------------------------------------------------------------------
\* The sender.

\* Mutant: the largest short length is the first marker.
CreateHeaderMarker(f, key) ==
    LET len == Len(f.data)
        m   == IF key = << >> THEN 0 ELSE MaskBit
    IN  <<(IF f.fin THEN 128 ELSE 0) + f.op>>
        \o (IF len <= Small THEN <<m + len>>
            ELSE <<m + Small, len \div Base, (len % Base)>>)
        \o key

\* The header of a frame: two bytes, the extended length, the key.  Of the
\* eight bytes of the longest form the code fills the lower four.
createHeader(f, key) ==
    LET len == Len(f.data)
        m   == IF key = << >> THEN 0 ELSE MaskBit
        q1  == len \div Base
        q2  == q1 \div Base
        q3  == q2 \div Base
    IN  <<(IF f.fin THEN 128 ELSE 0) + f.op>>
        \o (IF len < Small    THEN <<m + len>>
            ELSE IF len < Mid THEN <<m + Small, q1 % Base, len % Base>>
            ELSE <<m + Small + 1, 0, 0, 0, 0,
                   q3 % Base, q2 % Base, q1 % Base, len % Base>>)
        \o key

\* x ^ key[i % 4] on every byte, with i counted from 0.
Unmasked(s, key) ==
    [i \in DOMAIN s |-> IF key = << >> \/ key[1 + ((i - 1) % 4)] = 0
                          THEN s[i] ELSE 1 - s[i]]

\* The sender masks with the key it puts in the header.
Masked(s, key) == Unmasked(s, key)

Encoded(f, key) == createHeader(f, key) \o Masked(f.data, key)

\* write(): all bytes, or some of them when the connection takes no more
\* until the time-out.
write(bytes) == {bytes} \cup {SubSeq(bytes, 1, n) : n \in {0, 1, Len(bytes) - 1}}

sendFrame(f) ==
    /\ up
    /\ Len(sent) < MaxFrames
    /\ sent' = Append(sent, f)
    /\ \E key \in MaskKeys :
         LET bytes == Encoded(f, key)
         IN  \E written \in write(bytes) :
                /\ wire' = wire \o written
                /\ short' = (short \/ written # bytes)
    /\ UNCHANGED <<up, phase, hdr, need, payload, connected, events, answers>>

ConnectionLost ==
    /\ up
    /\ up' = FALSE
    /\ wire' = << >>
    /\ UNCHANGED <<phase, hdr, need, payload, connected, events, answers,
                   sent, short>>
-----------------------------------------------------------------------------
\* The receiver.

\* The length field, once the header has all its bytes.
ExtLen(h) == CASE h[2] % MaskBit = Small     -> 2
               [] h[2] % MaskBit = Small + 1 -> 8
               [] OTHER                      -> 0

Length(h) ==
    CASE ExtLen(h) = 0 -> h[2] % MaskBit
      [] ExtLen(h) = 2 -> h[3] * Base + h[4]
      [] OTHER -> IF \E i \in 3 .. 6 : h[i] # 0 THEN MaxData + 1
                  ELSE ((h[7] * Base + h[8]) * Base + h[9]) * Base + h[10]

MaskLen(h) == IF h[2] >= MaskBit THEN 4 ELSE 0

KeyOf(h) == SubSeq(h, Len(h) - MaskLen(h) + 1, Len(h))

\* clientDisconnect(client, code): a close frame first, if it can be sent.
Disconnect(code) ==
    /\ answers' = IF up /\ connected THEN Append(answers, [op |-> WSop_close, code |-> code])
                  ELSE answers
    /\ up' = FALSE
    /\ connected' = FALSE
    /\ wire' = << >>
    /\ phase' = "idle"
    /\ hdr' = << >>
    /\ payload' = << >>
    /\ need' = 0

\* The server's loop calls handleWebsocket() when bytes are waiting.
handleWebsocket ==
    /\ phase = "idle" /\ connected /\ up /\ wire # << >>
    /\ phase' = "header"
    /\ need' = 2
    /\ UNCHANGED <<wire, up, hdr, payload, connected, events, answers, sent, short>>

\* One turn of readCb(): some of the bytes that are waiting.
Piece(have) == {1, need - Len(have)} \cap 1 .. Len(wire)

readHeader ==
    /\ phase = "header" /\ Len(hdr) < need
    /\ \E k \in Piece(hdr) :
         /\ hdr' = hdr \o SubSeq(wire, 1, k)
         /\ wire' = SubSeq(wire, k + 1, Len(wire))
    /\ UNCHANGED <<up, phase, need, payload, connected, events, answers, sent, short>>

readPayload ==
    /\ phase = "payload" /\ Len(payload) < need
    /\ \E k \in Piece(payload) :
         /\ payload' = payload \o SubSeq(wire, 1, k)
         /\ wire' = SubSeq(wire, k + 1, Len(wire))
    /\ UNCHANGED <<up, phase, hdr, need, connected, events, answers, sent, short>>

\* readCb() gives up: the connection is gone, or nothing came for too long.
readFailed ==
    /\ phase # "idle"
    /\ IF phase = "header" THEN Len(hdr) < need ELSE Len(payload) < need
    /\ ~ up \/ wire = << >>
    /\ Disconnect(1002)
    /\ UNCHANGED <<events, sent, short>>

\* handleWebsocketCb(), run again from its start each time bytes it waited for
\* are there: it asks for the length, then for the key, then for the payload.
handleWebsocketCb ==
    /\ phase = "header" /\ Len(hdr) = need
    /\ LET want == 2 + ExtLen(hdr)
           all  == want + MaskLen(hdr)
       IN  IF Len(hdr) < want
             THEN /\ need' = want
                  /\ UNCHANGED <<phase, hdr, payload, wire, up, connected, answers>>
           ELSE IF Length(hdr) > MaxData
             THEN Disconnect(1009)
           ELSE IF Len(hdr) < all
             THEN /\ need' = all
                  /\ UNCHANGED <<phase, hdr, payload, wire, up, connected, answers>>
           ELSE \/ /\ phase' = "payload"
                   /\ need' = Length(hdr)
                   /\ UNCHANGED <<hdr, payload, wire, up, connected, answers>>
                \/ Length(hdr) > 0 /\ Disconnect(1011)   \* malloc failed
    /\ UNCHANGED <<events, sent, short>>

\* handleWebsocketPayloadCb(): the frame is complete.
handleWebsocketPayloadCb ==
    /\ phase = "payload" /\ Len(payload) = need
    /\ LET op == hdr[1] % 128
           f  == [op |-> op, fin |-> hdr[1] >= 128,
                  data |-> Unmasked(payload, KeyOf(hdr))]
       IN  IF op \in Handled
             THEN /\ events' = Append(events, f)
                  /\ answers' = IF op = WSop_ping /\ up
                       THEN Append(answers, [op |-> WSop_pong, data |-> f.data])
                       ELSE answers
                  /\ phase' = "idle" /\ need' = 0
                  /\ hdr' = << >> /\ payload' = << >>
                  /\ UNCHANGED <<wire, up, connected>>
             ELSE /\ Disconnect(IF op = WSop_close THEN 1000 ELSE 1002)
                  /\ UNCHANGED events
    /\ UNCHANGED <<sent, short>>

FrameInit ==
    /\ wire = << >> /\ up = TRUE
    /\ phase = "idle" /\ hdr = << >> /\ need = 0 /\ payload = << >>
    /\ connected = TRUE
    /\ events = << >> /\ answers = << >>
    /\ sent = << >> /\ short = FALSE

Receive == handleWebsocket \/ readHeader \/ readPayload \/ readFailed
           \/ handleWebsocketCb \/ handleWebsocketPayloadCb

FrameNext == Receive \/ ConnectionLost \/ \E f \in Frames : sendFrame(f)

FrameSpec == FrameInit /\ [][FrameNext]_frameVars
-----------------------------------------------------------------------------
\* What the receiver reports is what was sent: the frames in order, whole and
\* unmasked, up to one that ends the connection, however TCP cuts the stream;
\* unless a write timed out, after which the rest is out of step.
DeliveredAsSent == ~ short => IsPrefix(events, sent)

\* A frame that ends early does not hold the loop that reads it: readCb()
\* returns, with the frame or with the end of the connection.
ReadsEnd == phase # "idle" ~> phase = "idle"

\* An orderly stream is read to its end: with the connection standing all
\* bytes are taken, and every complete frame is reported or ends it.
StreamIsDrained == <>[](wire = << >> \/ ~ connected)
=============================================================================
