--------------------------- MODULE ClientRouting ----------------------------
(***************************************************************************)
(* How frames get from the socket slots to the logical clients and how     *)
(* messages get back: WebsocketClientHandler.cpp, GenericClient.cpp, the   *)
(* client handlers and serial commands of Manager.cpp that send over the   *)
(* socket, the restarts of WebsocketManager.cpp and PairingManager.cpp,    *)
(* on top of the slot table of the WebSocketsServer library: connections   *)
(* are accepted into the first slot that is not connected, and lost ones   *)
(* are cleaned up when they are noticed.                                   *)
(*                                                                         *)
(* One thread runs everything.  turn walks through webSocket.loop():       *)
(* Accepting, then one slot after another, then App, which stands for the  *)
(* rest of Manager::run() (mode "run") or for the check of the search      *)
(* timer in PairingManager (mode "pairing").  Devices act at any time.     *)
(***************************************************************************)
EXTENDS Integers, Sequences, FiniteSets

CONSTANTS
    MaxClients,   \* WEBSOCKETS_SERVER_CLIENT_MAX
    Device,       \* the devices that can join the access point
    NoDevice,
    Sends,      \* Sends[d]: the messages device d may send
    DeviceName  \* the values of the "device" field of a message

ASSUME SlotsAssumption ==
    /\ MaxClients \in Nat \ {0}
    /\ NoDevice \notin Device

ASSUME SendsAssumption == Sends \in [Device -> SUBSET
    [roasterID : BOOLEAN, device : DeviceName \cup {"none"},
     command : {"getData", "oncharge", "getinitial", "attach", "none"}]]

VARIABLES
    slot,        \* _clients
    running,     \* WebSocketsServer::_runnning
    ap,          \* the access point is up
    dialing,     \* devices whose connection waits in the listen backlog
    registered,  \* WebsocketClientHandler::websocketClients
    idCounter,   \* WebsocketClientHandler::m_idCounter
    m_id,        \* GenericClient::m_id of each client
    clientNames, \* names that were given credentials (RAM only)
    mode,        \* "run" or "pairing"
    turn,        \* where webSocket.loop() is
    \* what an observer of the last step sees
    read,        \* the text frame handled: the client it was dispatched to
                 \* and the client whose command handler ran
    sent,        \* the messages that reached a device
    refused      \* a connection was turned away

net  == <<slot, running, ap, dialing>>
app  == <<registered, idCounter, m_id, clientNames>>
seen == <<read, sent, refused>>
vars == <<net, app, mode, turn, seen>>

Slots == 0 .. MaxClients - 1

FreeSlot == [status |-> "free", tcp |-> "none", dev |-> NoDevice,
             rx |-> << >>, said |-> {}]

\* clientIsConnected(): its answer ...
IsConnected(s) == s.status # "free" /\ s.tcp \in {"up", "half"}

\* Mutant: nothing is cleaned up.
CheckedOnly(s) == s

\* ... and its side effect: a slot whose connection was lost is cleaned up.
Checked(s) == IF IsConnected(s) THEN s ELSE FreeSlot

\* newClient(): the first slot that is not connected takes the connection.
FirstFree(tbl) ==
    CHOOSE i \in Slots : /\ ~IsConnected(tbl[i])
                         /\ \A j \in 0 .. i - 1 : IsConnected(tbl[j])

\* Mutant: only a slot that was closed in order is given away again.
HasRoomClosed(tbl) == \E i \in Slots : tbl[i].status = "free"

HasRoom(tbl) == \E i \in Slots : ~IsConnected(tbl[i])

NewClient(tbl, d) ==
    IF HasRoom(tbl)
      THEN [tbl EXCEPT ![FirstFree(tbl)] =
              [FreeSlot EXCEPT !.status = "header", !.tcp = "up", !.dev = d]]
      ELSE tbl

\* sendTXT() to every slot of a set: it reaches a device through a slot
\* whose handshake is over; a lost connection is noticed and cleaned up.
SendTXT(tbl, nums) ==
    [i \in Slots |-> IF i \in nums THEN Checked(tbl[i]) ELSE tbl[i]]

Reaches(tbl, num) ==
    /\ num \in Slots
    /\ IsConnected(tbl[num])
    /\ tbl[num].status = "connected"
    /\ tbl[num].tcp = "up"

\* disconnect(): every slot is closed or cleaned up.
DisconnectAll(tbl) == [i \in Slots |-> FreeSlot]
-----------------------------------------------------------------------------
Client == {"visualscope", "audiocrack", "generic"}

\* Mutant: the other order.
UserClientsSwapped == <<"audiocrack", "visualscope">>

\* registerWebSocketHandler(): in this order.
UserClients == <<"visualscope", "audiocrack">>

Accepting == -1
App == MaxClients

NoRead == [slot |-> -1, to |-> "none", by |-> "none"]

Frame == [op : {"upgrade", "plain", "close"}]
         \cup [op : {"text"}, msg : UNION {Sends[d] : d \in Device}]

SlotType == [status : {"free", "header", "connected"},
             tcp : {"none", "up", "half", "lost"},
             dev : Device \cup {NoDevice},
             rx : {<< >>} \cup {<<f>> : f \in Frame},
             said : SUBSET Client]

TypeOK ==
    /\ slot \in [Slots -> SlotType]
    /\ running \in BOOLEAN /\ ap \in BOOLEAN
    /\ dialing \subseteq Device
    /\ registered \in Seq(Client)
    /\ idCounter \in Nat
    /\ m_id \in [Client -> -1 .. MaxClients - 1]
    /\ clientNames \subseteq DeviceName
    /\ mode \in {"run", "pairing"}
    /\ turn \in -1 .. MaxClients
    /\ refused \in BOOLEAN
-----------------------------------------------------------------------------
\* What the handler, the clients and the message classes compute.

\* isValid() of the three message classes: the fields a message must have.
isValidVisualScope(m) == m.roasterID

isValidAudioCrack(m) == m.device # "none" /\ m.command # "none"

isValidGeneric(m) == m.command # "none" /\ m.device # "none"

\* getDocument() of the message class of each client.
Valid(c, m) ==
    CASE c = "visualscope" -> isValidVisualScope(m)
      [] c = "audiocrack"  -> isValidAudioCrack(m)
      [] c = "generic"     -> isValidGeneric(m)

\* Mutant: the device name is not looked at.
ClaimsUnnamed(c, m) == Valid(c, m) /\ (m.roasterID \/ m.command = "attach")

\* setId(): the conditions under which a client takes the slot as its own.
Claims(c, m) ==
    /\ Valid(c, m)
    /\ m.device = c \/ m.roasterID \/ m.command = "attach"

\* The commands each client has a handler for; oncharge stands for all the
\* commands of VisualScope that only write to the serial port.
Commands(c) == CASE c = "visualscope" -> {"getData", "oncharge"}
                 [] c = "audiocrack"  -> {"getinitial"}
                 [] c = "generic"     -> {"attach"}

Registered == {registered[k] : k \in DOMAIN registered}

\* Mutant: slots are numbered from one.
SetIdsFromOne(num, m) ==
    [c \in Client |->
        IF c \in Registered /\ Claims(c, m) THEN num + 1 ELSE m_id[c]]

\* First loop of onWebSocketEvent(): every registered client sees the message.
SetIds(num, m) ==
    [c \in Client |->
        IF c \in Registered /\ Claims(c, m) THEN num ELSE m_id[c]]

\* Second loop: the first registered client that holds the slot, if any.
Holders(ids, num) == {k \in DOMAIN registered : ids[registered[k]] = num}

Target(ids, num) ==
    IF Holders(ids, num) = {} THEN "none"
      ELSE registered[CHOOSE k \in Holders(ids, num) :
                        \A l \in Holders(ids, num) : k <= l]

\* processEvent(): the client whose handler runs, or "none".
Runs(c, m) ==
    IF c # "none" /\ Valid(c, m) /\ m.command \in Commands(c) THEN c ELSE "none"

\* sendEvent() to each client of a set: nothing is sent without an id.
Events(ids, clients) ==
    {[to |-> ids[c], for |-> c] : c \in {x \in clients : ids[x] # -1}}

\* Mutant: getinitial is answered on the slot audiocrack held before it.
RepliesStale(by, ids, num, m) ==
    CASE by = "visualscope" /\ m.command = "getData" ->
           {[to |-> num, for |-> "reply"]} \cup Events(ids, {"audiocrack"})
      [] by = "audiocrack" -> {[to |-> m_id["audiocrack"], for |-> "reply"]}
      [] by = "generic" /\ m.device \notin clientNames ->
           {[to |-> ids["generic"], for |-> "reply"]}
      [] OTHER -> {}

\* The messages a handler sends: a reply to the slot that asked, and pushes.
Replies(by, ids, num, m) ==
    CASE by = "visualscope" /\ m.command = "getData" ->
           {[to |-> num, for |-> "reply"]} \cup Events(ids, {"audiocrack"})
      [] by = "audiocrack" -> {[to |-> num, for |-> "reply"]}
      [] by = "generic" /\ m.device \notin clientNames ->
           {[to |-> ids["generic"], for |-> "reply"]}
      [] OTHER -> {}

\* The handler of attach: the names it remembers.
Attached(by, m) == IF by = "generic" THEN {m.device} ELSE {}

\* What the devices get of a set of messages.
Delivered(msgs) ==
    {[dev |-> slot[x.to].dev, num |-> x.to, for |-> x.for] :
        x \in {y \in msgs : Reaches(slot, y.to)}}

\* send() of the output messages: sendTXT() to the slot of each.
AfterSending(msgs) == SendTXT(slot, {x.to : x \in msgs})
-----------------------------------------------------------------------------
\* Manager::initialize(): the access point is not started at boot.
Init ==
    /\ slot = [i \in Slots |-> FreeSlot]
    /\ running = FALSE
    /\ ap = FALSE
    /\ dialing = {}
    /\ registered = UserClients
    /\ idCounter = Len(UserClients)
    /\ m_id = [c \in Client |-> -1]
    /\ clientNames = {}
    /\ mode = "run"
    /\ turn = Accepting
    /\ read = NoRead
    /\ sent = {}
    /\ refused = FALSE

Quiet == read' = NoRead /\ sent' = {} /\ refused' = FALSE

(* The devices. *)

\* A device without a connection of its own opens one.
Dial(d) ==
    /\ ap /\ running
    /\ d \notin dialing
    /\ \A i \in Slots : ~(slot[i].dev = d /\ slot[i].tcp = "up")
    /\ dialing' = dialing \cup {d}
    /\ Quiet
    /\ UNCHANGED <<slot, running, ap, app, mode, turn>>

Put(i, f) ==
    /\ slot[i].tcp = "up"
    /\ slot[i].rx = << >>
    /\ slot' = [slot EXCEPT ![i].rx = <<f>>]
    /\ Quiet
    /\ UNCHANGED <<running, ap, dialing, app, mode, turn>>

\* The header of an HTTP request arrives: an upgrade or something else.
SendHeader(i) ==
    /\ slot[i].status = "header"
    /\ \E op \in {"upgrade", "plain"} : Put(i, [op |-> op])

SendText(i) ==
    /\ slot[i].status = "connected"
    /\ \E m \in Sends[slot[i].dev] : Put(i, [op |-> "text", msg |-> m])

\* A close frame, or one the server answers by closing (truncated, too big).
SendClose(i) ==
    /\ slot[i].status = "connected"
    /\ Put(i, [op |-> "close"])

\* The device leaves without a word, or the connection is seen to be lost.
LoseTcp(i, tcp) ==
    /\ \/ slot[i].tcp = "up" /\ tcp = "half"
       \/ slot[i].tcp \in {"up", "half"} /\ tcp = "lost"
    /\ slot' = [slot EXCEPT ![i].tcp = tcp]
    /\ Quiet
    /\ UNCHANGED <<running, ap, dialing, app, mode, turn>>

(* webSocket.loop() *)

\* handleNewClients(): one turn of its loop.
Accept(d) ==
    /\ turn = Accepting /\ running
    /\ d \in dialing
    /\ dialing' = dialing \ {d}
    /\ slot' = NewClient(slot, d)
    /\ refused' = ~HasRoom(slot)
    /\ read' = NoRead /\ sent' = {}
    /\ UNCHANGED <<running, ap, app, mode, turn>>

\* Its end; a server that is not running does nothing at all.
AcceptDone ==
    /\ turn = Accepting
    /\ running => dialing = {}
    /\ turn' = IF running THEN 0 ELSE App
    /\ Quiet
    /\ UNCHANGED <<net, app, mode>>

\* handleClientData() for a slot with nothing to read.
Skip ==
    /\ turn \in Slots
    /\ ~IsConnected(slot[turn]) \/ slot[turn].rx = << >>
    /\ slot' = [slot EXCEPT ![turn] = Checked(@)]
    /\ turn' = turn + 1
    /\ Quiet
    /\ UNCHANGED <<running, ap, dialing, app, mode>>

\* The end of a request header completes the handshake or ends the
\* connection; a close frame ends it.
ReadControl ==
    /\ turn \in Slots
    /\ IsConnected(slot[turn]) /\ slot[turn].rx # << >>
    /\ LET op == slot[turn].rx[1].op
       IN  /\ op # "text"
           /\ slot' = [slot EXCEPT ![turn] =
                         IF op = "upgrade"
                           THEN [@ EXCEPT !.status = "connected", !.rx = << >>]
                           ELSE FreeSlot]
    /\ turn' = turn + 1
    /\ Quiet
    /\ UNCHANGED <<running, ap, dialing, app, mode>>

\* onWebSocketEvent(WStype_TEXT) and the handler it calls.
ReadText ==
    /\ turn \in Slots
    /\ IsConnected(slot[turn]) /\ slot[turn].rx # << >>
    /\ slot[turn].rx[1].op = "text"
    /\ LET m    == slot[turn].rx[1].msg
           ids  == SetIds(turn, m)
           to   == Target(ids, turn)
           by   == Runs(to, m)
           msgs == Replies(by, ids, turn, m)
       IN  /\ m_id' = ids
           /\ clientNames' = clientNames \cup Attached(by, m)
           /\ read' = [slot |-> turn, msg |-> m, to |-> to, by |-> by]
           /\ sent' = Delivered(msgs)
           /\ slot' = [AfterSending(msgs) EXCEPT
                         ![turn].rx = << >>,
                         ![turn].said = @ \cup
                            {c \in Registered : Claims(c, m)}]
    /\ turn' = turn + 1
    /\ refused' = FALSE
    /\ UNCHANGED <<running, ap, dialing, registered, idCounter, mode>>

(* The rest of an iteration of Manager::run(). *)

Idle ==
    /\ turn = App
    /\ turn' = Accepting
    /\ Quiet
    /\ UNCHANGED <<net, app, mode>>

\* MCA, MDR and MFC push to both clients, IN to audiocrack only.
Push(clients) ==
    /\ turn = App /\ mode = "run"
    /\ LET msgs == Events(m_id, clients)
       IN  sent' = Delivered(msgs) /\ slot' = AfterSending(msgs)
    /\ read' = NoRead /\ refused' = FALSE
    /\ turn' = Accepting
    /\ UNCHANGED <<running, ap, dialing, app, mode>>

\* turnOffWebSocket(): close() ends every connection and the listener.
TurnOff == slot' = DisconnectAll(slot) /\ dialing' = {}

\* turnOnWebSocket() closes first; begin() runs even when softAP() failed.
TurnOn(ok) == TurnOff /\ running' = TRUE /\ ap' = ok

Stop ==
    /\ turn = App /\ mode = "run"
    /\ TurnOff /\ running' = FALSE /\ ap' = FALSE
    /\ turn' = Accepting
    /\ Quiet
    /\ UNCHANGED <<app, mode>>

\* The S command: clients hear of credentials that changed, then restart.
Configure(changed, ok) ==
    /\ turn = App /\ mode = "run"
    /\ sent' = Delivered(IF changed THEN Events(m_id, Registered) ELSE {})
    /\ TurnOn(ok)
    /\ read' = NoRead /\ refused' = FALSE
    /\ turn' = Accepting
    /\ UNCHANGED <<app, mode>>

\* Mutant: the client stays in the list.
UnregisterNot(list, c) == list

\* unregisterWebsocketClient(): std::find and erase.
Unregister(list, c) ==
    IF \E k \in DOMAIN list : list[k] = c
      THEN LET first == CHOOSE k \in DOMAIN list :
                          list[k] = c /\ \A j \in 1 .. k - 1 : list[j] # c
           IN  [j \in 1 .. Len(list) - 1 |->
                  IF j < first THEN list[j] ELSE list[j + 1]]
      ELSE list

\* The clients in list replace those that are left of registered.
Reregister(left, list) ==
    /\ registered' = left \o list
    /\ idCounter' = idCounter - (Len(registered) - Len(left)) + Len(list)

\* The PAIR command: executePairing() returns at once when the pairing access
\* point cannot be started; otherwise it searches.
Pair(ok) ==
    /\ turn = App /\ mode = "run"
    /\ TurnOn(ok)
    /\ Reregister(Unregister(Unregister(registered, "visualscope"),
                             "audiocrack"),
                  IF ok THEN <<"generic">> ELSE UserClients)
    /\ mode' = IF ok THEN "pairing" ELSE "run"
    /\ turn' = Accepting
    /\ Quiet
    /\ UNCHANGED <<m_id, clientNames>>

\* The search timer fired: back to the user's access point and clients.
PairEnd(ok) ==
    /\ turn = App /\ mode = "pairing"
    /\ TurnOn(ok)
    /\ Reregister(Unregister(registered, "generic"), UserClients)
    /\ mode' = "run"
    /\ turn' = Accepting
    /\ Quiet
    /\ UNCHANGED <<m_id, clientNames>>

Environment ==
    \/ \E d \in Device : Dial(d)
    \/ \E i \in Slots : \/ SendHeader(i) \/ SendText(i) \/ SendClose(i)
                        \/ \E tcp \in {"half", "lost"} : LoseTcp(i, tcp)

SocketLoop ==
    \/ \E d \in Device : Accept(d)
    \/ AcceptDone
    \/ Skip
    \/ ReadControl
    \/ ReadText

AppStep ==
    \/ Idle
    \/ Push({"visualscope", "audiocrack"})
    \/ Push({"audiocrack"})
    \/ Stop
    \/ \E ok \in BOOLEAN : \/ \E changed \in BOOLEAN : Configure(changed, ok)
                           \/ Pair(ok)
                           \/ PairEnd(ok)

Next == Environment \/ SocketLoop \/ AppStep

Spec == Init /\ [][Next]_vars

\* Arduino's loop() is called again for ever and no step of it waits.
Fairness ==
    /\ WF_vars(\E d \in Device : Accept(d))
    /\ WF_vars(AcceptDone)
    /\ WF_vars(Skip \/ ReadControl \/ ReadText)
    /\ WF_vars(AppStep)

FairSpec == Spec /\ Fairness
-----------------------------------------------------------------------------
TextRead == read.slot # -1

\* While the firmware is not pairing, a VisualScope command is executed by
\* the visualscope client whatever ids are left over from earlier
\* connections, restarts and pairing rounds: visualscope is registered first
\* and takes the id before the frame is dispatched.
VisualScopeAlwaysServed ==
    TextRead /\ mode = "run" /\ read.msg.roasterID
        /\ read.msg.command \in Commands("visualscope")
      => read.by = "visualscope"

\* The device that sends commands to audiocrack is not the VisualScope
\* application: the field roasterID is that application's alone.
OwnMessages ==
    \A d \in Device : \A m \in Sends[d] :
        m.device = "audiocrack" /\ m.command \in Commands("audiocrack") =>
            \A n \in Sends[d] : ~n.roasterID

\* A command of the AudioCrack device is lost for one reason only: its slot
\* used to belong to VisualScope, whose id still names it, although
\* VisualScope never spoke on this connection.
AudioCrackLostOnlyToStaleId ==
    TextRead /\ mode = "run" /\ read.msg.device = "audiocrack"
        /\ read.msg.command \in Commands("audiocrack")
        /\ read.by # "audiocrack"
      => /\ m_id["visualscope"] = read.slot
         /\ "visualscope" \notin slot[read.slot].said

\* A reply goes to the connection that asked, never to another client, in
\* every mode and across every reuse of slots.
RepliesReturnToSender ==
    \A x \in sent : x.for = "reply" =>
        TextRead /\ x.num = read.slot /\ x.dev = slot[read.slot].dev

\* As long as there are no more devices than slots, a connection is turned
\* away only because of a device that left without a word, so that its old
\* connection still looks alive: one that TCP has given up, or that ended in
\* any other way, never costs a place, noticed by the server or not.
RefusedForHalfOpen ==
    refused /\ Cardinality(Device) <= MaxClients =>
        \E i \in Slots : slot[i].tcp = "half"

\* The clients registered are those of the mode, each once and in order,
\* after any number of pairing rounds, failed ones included; the counter
\* agrees with the list.
RegistrationMatchesMode ==
    /\ registered = IF mode = "run" THEN UserClients ELSE <<"generic">>
    /\ idCounter = Len(registered)

\* "Procesar evento solo para el cliente correspondiente"
\* (WebsocketClientHandler.cpp:83): a frame is dispatched only to a client
\* whose message it is.
DispatchedToItsClient == read.to # "none" => Valid(read.to, read.msg)

\* Whatever a device has sent is read, or its connection ends, provided new
\* connections do not arrive for ever faster than handleNewClients() accepts
\* them: its loop has no bound of its own.
FramesAreRead ==
    []<>(turn # Accepting) =>
        \A i \in Slots : slot[i].rx # << >> ~> slot[i].rx = << >>
=============================================================================
