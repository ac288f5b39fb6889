-------------------------- MODULE SocketIOMessages --------------------------
(***************************************************************************)
(* What SocketIOclient says over one WebSocket connection, and what it     *)
(* tells the program: Engine.IO types in the first character, Socket.IO    *)
(* types in the second.  sendTXT() goes through sendFrame(); send() writes *)
(* the frame's header, the two characters and the payload one by one.      *)
(* The connection itself is WebSocketsClient's, bytes are WebSocketsFrame's*)
(* business; it may be lost at any moment, and whoever looks next finds it *)
(* lost.  A handler that sends does it last, as the program would.         *)
(***************************************************************************)
EXTENDS Naturals, Sequences, SequencesExt

CONSTANTS
  Careful,     \* the program sends only when isConnected()
  OneWrite,    \* sendFrame() packs header and payload into one write()
  Payload,     \* what the program sends: sequences of characters
  Frames,      \* what the server sends: [op, fin, data]
  MaxSent,     \* bound: calls of the program, and turns that ping
  MaxArrived   \* bound: frames of the server

VARIABLES
  status,      \* "not", "header" or "connected"
  up,          \* the TCP connection stands
  looked,      \* loop() has found it standing, and now handles what came
  wire,        \* written on it: headers, torn ones, and characters
  told,        \* the Socket.IO events of this connection
  sent,        \* calls so far
  arrived,     \* history: frames the server has sent
  cut          \* history: a frame was not written whole

vars == <<status, up, looked, wire, told, sent, arrived, cut>>

eIOtype == [PING |-> "2", PONG |-> "3", MESSAGE |-> "4", UPGRADE |-> "5"]
sIOtype == [CONNECT |-> "0", DISCONNECT |-> "1", EVENT |-> "2"]

Init ==
  /\ status = "header" /\ up = TRUE /\ looked = FALSE
  /\ wire = <<>> /\ told = <<>> /\ sent = 0 /\ arrived = <<>>
  /\ cut = FALSE

isConnected == status = "connected"

clientIsConnected == up /\ status # "not"

Header(n) == <<"header", n>>
Torn == <<"torn", 0>>
Bytes(chars) == [i \in DOMAIN chars |-> <<chars[i], 0>>]
Frame(chars) == <<Header(Len(chars))>> \o Bytes(chars)

(* What write() has written when it returns: it may be cut off anywhere.   *)
write(bytes) == {SubSeq(bytes, 1, n) : n \in 0..Len(bytes)}

writeHeader(n) == {<<>>, <<Torn>>, <<Header(n)>>}

(* sendFrame(): in one piece, or the payload whatever became of the header.*)
Framed(chars) ==
  IF OneWrite THEN {<<Torn>>} \cup write(Frame(chars))
  ELSE {a \o b : a \in writeHeader(Len(chars)), b \in write(Bytes(chars))}

Says(written, chars) ==
  /\ wire' = wire \o written
  /\ cut' = (cut \/ written # Frame(chars))

Silent == UNCHANGED <<wire, cut>>

(* Whoever looks for the connection, and finds it lost, ends it and tells. *)
clientDisconnect ==
  /\ status' = "not"
  /\ told' = Append(told, sIOtype.DISCONNECT)
  /\ Silent

FindsItGone ==
  IF status = "not" THEN Silent /\ UNCHANGED <<status, told>>
  ELSE clientDisconnect

(* sendTXT() looks whether there is a connection, sendFrame() at its state.*)
sendTXT(chars) ==
  IF clientIsConnected
  THEN /\ IF status = "connected"
          THEN \E written \in Framed(chars) : Says(written, chars)
          ELSE Silent
       /\ UNCHANGED <<status, told>>
  ELSE FindsItGone

----------------------------------------------------------------------------
(* send(): each write() that wrote something counts as a success, so the   *)
(* next one follows whatever is missing.                                   *)
Pieces(type, payload) ==
  LET n   == Len(payload) + 2
      two == write(Bytes(<<eIOtype.MESSAGE, type>>)) \ {<<>>}
  IN writeHeader(n)
     \cup {<<Header(n)>> \o a \o b : a \in two, b \in write(Bytes(payload))}

Allowed == isConnected \/ ~Careful

send(type, payload) ==
  /\ Allowed /\ ~looked /\ sent < MaxSent
  /\ sent' = sent + 1
  /\ IF clientIsConnected
     THEN /\ \E p \in Pieces(type, payload) :
               Says(p, <<eIOtype.MESSAGE, type>> \o payload)
          /\ UNCHANGED <<status, told>>
     ELSE FindsItGone
  /\ UNCHANGED <<up, looked, arrived>>

(* The ping of loop(). *)
loopPing ==
  /\ ~looked /\ sent < MaxSent
  /\ sent' = sent + 1
  /\ sendTXT(<<eIOtype.PING>>)
  /\ UNCHANGED <<up, looked, arrived>>

----------------------------------------------------------------------------
(* loop() looks first, and handles what came only if the connection stands.*)
loop ==
  /\ ~looked /\ status # "not"
  /\ IF clientIsConnected
     THEN looked' = TRUE /\ Silent /\ UNCHANGED <<status, told>>
     ELSE looked' = FALSE /\ clientDisconnect
  /\ UNCHANGED <<up, sent, arrived>>

NothingCame ==
  /\ looked /\ looked' = FALSE
  /\ UNCHANGED <<status, up, wire, told, sent, arrived, cut>>

(* The upgrade has been answered: the server hears of it first, and then   *)
(* the program, even if that message has found the connection lost.        *)
connected ==
  /\ looked /\ status = "header"
  /\ looked' = FALSE
  /\ IF up
     THEN /\ status' = "connected"
          /\ \E written \in Framed(<<eIOtype.UPGRADE>>) :
               Says(written, <<eIOtype.UPGRADE>>)
          /\ told' = Append(told, sIOtype.CONNECT)
     ELSE /\ status' = "not"
          /\ Silent
          /\ told' = told \o <<sIOtype.DISCONNECT, sIOtype.CONNECT>>
  /\ UNCHANGED <<up, sent, arrived>>

(* The connection is lost: nobody is told of it. *)
Lose ==
  /\ up /\ up' = FALSE
  /\ UNCHANGED <<status, looked, wire, told, sent, arrived, cut>>

(* messageReceived(). *)
Type(f) ==
  CASE f.op = "text" /\ f.fin -> "TEXT"
    [] f.op = "text" /\ ~f.fin -> "FRAGMENT_TEXT_START"
    [] f.op = "binary" -> IF f.fin THEN "BIN" ELSE "FRAGMENT_BIN_START"
    [] f.op = "continuation" -> IF f.fin THEN "FRAGMENT_FIN" ELSE "FRAGMENT"
    [] OTHER -> "control"

Pong(data) == <<eIOtype.PONG>> \o Tail(data)

Starts(f, type) == Type(f) = "TEXT" /\ f.data # <<>> /\ f.data[1] = type

IsPing(f) == Starts(f, eIOtype.PING)

\* Mutant: a message without a type is told as well.
IsMessageShort(f) == Starts(f, eIOtype.MESSAGE)

IsMessage(f) == Starts(f, eIOtype.MESSAGE) /\ Len(f.data) >= 2

TypeOf(data) == IF Len(data) < 2 THEN "none" ELSE data[2]

(* handleCbEvent() of a text: everything that is no ping and no message is *)
(* passed over, and every frame that is no whole text.                     *)
handleCbEvent(f) ==
  /\ looked /\ isConnected /\ Len(arrived) < MaxArrived
  /\ looked' = FALSE
  /\ arrived' = Append(arrived, f)
  /\ IF IsPing(f) THEN sendTXT(Pong(f.data))
     ELSE /\ told' = IF IsMessage(f) THEN Append(told, TypeOf(f.data)) ELSE told
          /\ Silent
          /\ UNCHANGED status
  /\ UNCHANGED <<up, sent>>

Next ==
  \/ loop \/ NothingCame \/ connected \/ Lose \/ loopPing
  \/ \E type \in {sIOtype.EVENT}, payload \in Payload : send(type, payload)
  \/ \E f \in Frames : handleCbEvent(f)

Spec == Init /\ [][Next]_vars

----------------------------------------------------------------------------
(* The server's side: whole frames in the order of the wire.               *)
Read ==
  LET at == SelectSeq([i \in DOMAIN wire |-> i], LAMBDA i : wire[i][1] = "header")
  IN [k \in DOMAIN at |-> [i \in 1..wire[at[k]][2] |-> wire[at[k] + i][1]]]

(* The server hears of the upgrade before anything else, whatever the      *)
(* program sends from its handlers (SocketIOclient::handleCbEvent).        *)
UpgradeFirst == ~cut /\ Read # <<>> => Read[1] = <<eIOtype.UPGRADE>>

(* Every ping of the server is answered with what it carried, in order, and*)
(* between the messages of the program; only the last one may find that the*)
(* connection was lost.                                                    *)
PingsAnswered ==
  LET pings == SelectSeq(arrived, IsPing)
      asked == [i \in DOMAIN pings |-> Tail(pings[i].data)]
      pongs == SelectSeq(Read, LAMBDA m : m[1] = eIOtype.PONG)
      answered == [i \in DOMAIN pongs |-> Tail(pongs[i])]
  IN ~cut => \/ answered = asked
             \/ ~up /\ asked # <<>> /\ answered = Front(asked)

(* The program is told of the connection, of every message that came whole *)
(* in one text frame, and of the end once, in that order, with one         *)
(* exception that the code makes: when the upgrade message itself finds the*)
(* connection lost, the program is told of the end first and of the        *)
(* connection afterwards, and of nothing more.  Of an upgrade that was not *)
(* answered it is told the end alone.                                      *)
ToldInOrder ==
  LET messages == SelectSeq(arrived, LAMBDA f : Type(f) = "TEXT" /\ Len(f.data) >= 2
                                                 /\ f.data[1] = eIOtype.MESSAGE)
      types == [i \in DOMAIN messages |-> messages[i].data[2]]
  IN /\ status = "header" => told = <<>>
     /\ isConnected => told = <<sIOtype.CONNECT>> \o types
     /\ status = "not" =>
          \/ told = <<sIOtype.CONNECT>> \o types \o <<sIOtype.DISCONNECT>>
          \/ ~up /\ arrived = <<>> /\ told \in {<<sIOtype.DISCONNECT>>,
                                                <<sIOtype.DISCONNECT, sIOtype.CONNECT>>}
=============================================================================
