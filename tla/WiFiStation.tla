----------------------------- MODULE WiFiStation -----------------------------
(***************************************************************************)
(* The station side of the WiFi library.  The sketch connects and          *)
(* disconnects; the driver reports what became of it as events, which wait *)
(* in a queue for the network event task; that task keeps the status and   *)
(* the status bits, and connects again by itself.  The station interface   *)
(* stays enabled here: WiFiMode has the modes.  The second part adds a     *)
(* sketch that waits for its connection.                                   *)
(***************************************************************************)
EXTENDS Integers, Sequences

CONSTANTS
    Network,          \* the networks the sketch has the names of
    MaxEvents,        \* bound on the events that wait (32 in the code)
    UserDisconnects,  \* the sketch disconnects
    APlist,           \* the networks of WiFiMulti
    MaxAttempts       \* bound on the begin() calls of the sketch that waits

StationAssumption ==
    MaxEvents \in Nat \ {0} /\ UserDisconnects \in BOOLEAN

ConnectingAssumption == APlist \subseteq Network /\ MaxAttempts \in Nat

VARIABLES
    conf,             \* the driver's configuration
    link,             \* the driver: "down", "connecting", "linked", "ip"
    queue,            \* _network_event_queue
    status,           \* _sta_status_group
    staBits,          \* STA_CONNECTED_BIT and STA_HAS_IP_BIT
    autoReconnect,
    handling,         \* the event task: the "status", the "bits", the "disconnect" or
                      \* the "begin" that comes next, or "none" between two events
    \* the sketch that waits
    step,             \* "idle"; in waitForConnectResult() "waiting", "again" and
                      \* "return"; in run() "named", "leave", "delay", "scan" and
                      \* "connecting"
    seen,             \* the local status of run()
    result,           \* what the last wait or run() returned
    \* history
    left,             \* the sketch has disconnected, and not connected since
    attempts,         \* begin() calls of the sketch that waits
    ended             \* the driver has come to an end with the last of them

stationVars == <<conf, link, queue, status, staBits, autoReconnect, handling, left>>

NoNetwork == "none"

Disconnected(reason) == [event |-> "DISCONNECTED", reason |-> reason]
Plain(event) == [event |-> event, reason |-> "none"]

\* What an attempt can fail for, and what a connection can be lost for.
FailReasons == {"NO_AP_FOUND", "AUTH_FAIL", "ASSOC_FAIL", "HANDSHAKE_TIMEOUT", "AUTH_EXPIRE"}
LossReasons == {"BEACON_TIMEOUT", "AUTH_LEAVE", "AUTH_EXPIRE"}

StationInit ==
    /\ conf = NoNetwork /\ link = "down" /\ queue = <<>>
    /\ status = "DISCONNECTED" /\ staBits = {}
    /\ autoReconnect = TRUE /\ handling = "none" /\ left = FALSE
-----------------------------------------------------------------------------
\* The driver as a call leaves it: the link, the configuration and the queue.
Driver == [link |-> link, conf |-> conf, queue |-> queue]

Drive(d) == link' = d.link /\ conf' = d.conf /\ queue' = d.queue

esp_wifi_disconnect(d) ==
    IF d.link = "down" THEN d
    ELSE [d EXCEPT !.link = "down",
                   !.queue = Append(@, Disconnected("ASSOC_LEAVE"))]

esp_wifi_connect(d) ==
    IF d.link = "down" /\ d.conf # NoNetwork THEN [d EXCEPT !.link = "connecting"] ELSE d

\* begin(ssid): another network is configured only after a disconnect.
beginWith(d, ssid) ==
    IF d.conf = ssid /\ status = "CONNECTED" THEN d
    ELSE esp_wifi_connect([(IF d.conf = ssid THEN d ELSE esp_wifi_disconnect(d))
                             EXCEPT !.conf = ssid])

Room == Len(queue) < MaxEvents

begin(ssid) ==
    /\ Room /\ Drive(beginWith(Driver, ssid))
    /\ left' = FALSE
    /\ UNCHANGED <<status, staBits, autoReconnect, handling>>

disconnect ==
    /\ UserDisconnects /\ Room
    /\ Drive(esp_wifi_disconnect(Driver))
    /\ left' = TRUE
    /\ UNCHANGED <<status, staBits, autoReconnect, handling>>

\* reconnect(): disconnect and connect, whatever the status.
reconnect ==
    /\ Room /\ Drive(esp_wifi_connect(esp_wifi_disconnect(Driver)))
    /\ left' = FALSE
    /\ UNCHANGED <<status, staBits, autoReconnect, handling>>

setAutoReconnect ==
    /\ UserDisconnects
    /\ autoReconnect' = ~ autoReconnect
    /\ UNCHANGED <<conf, link, queue, status, staBits, handling, left>>
-----------------------------------------------------------------------------
\* The driver.
Linked(from, to, event) ==
    /\ Room /\ link = from /\ link' = to /\ queue' = Append(queue, event)
    /\ UNCHANGED <<conf, status, staBits, autoReconnect, handling, left>>

Associate == Linked("connecting", "linked", Plain("CONNECTED"))
GotIP     == Linked("linked", "ip", Plain("GOT_IP"))
LostIP    == Linked("ip", "linked", Plain("LOST_IP"))
Fail      == \E r \in FailReasons : Linked("connecting", "down", Disconnected(r))
Lose      == \E r \in LossReasons, from \in {"linked", "ip"} :
                 Linked(from, "down", Disconnected(r))
-----------------------------------------------------------------------------
\* _eventCallback(): the status that an event leaves, unless it leaves it
\* alone ...
SetsStatus(e) == e.reason # "AUTH_EXPIRE"

StatusAfter(e) ==
    CASE e.event = "CONNECTED" -> "IDLE"
      [] e.event = "GOT_IP"    -> "CONNECTED"
      [] e.event = "LOST_IP"   -> "IDLE"
      [] e.event = "DISCONNECTED" ->
           CASE e.reason = "NO_AP_FOUND" -> "NO_SSID_AVAIL"
             [] e.reason \in {"AUTH_FAIL", "ASSOC_FAIL"} -> "CONNECT_FAILED"
             [] e.reason \in {"BEACON_TIMEOUT", "HANDSHAKE_TIMEOUT"} -> "CONNECTION_LOST"
             [] OTHER -> "DISCONNECTED"

\* Mutant: the address stays known when the connection is lost.
BitsKept(e) ==
    CASE e.event = "CONNECTED" -> staBits \cup {"CONNECTED"}
      [] e.event = "GOT_IP"    -> staBits \cup {"CONNECTED", "HAS_IP"}
      [] OTHER                 -> staBits \ {"CONNECTED"}

\* ... the bits ...
BitsAfter(e) ==
    CASE e.event = "CONNECTED" -> staBits \cup {"CONNECTED"}
      [] e.event = "GOT_IP"    -> staBits \cup {"CONNECTED", "HAS_IP"}
      [] e.event = "LOST_IP"   -> staBits \ {"HAS_IP"}
      [] OTHER                 -> staBits \ {"CONNECTED", "HAS_IP"}

\* ... and whether it makes the task connect again.
Retries(e) ==
    /\ autoReconnect /\ e.event = "DISCONNECTED"
    /\ e.reason \in {"AUTH_EXPIRE", "BEACON_TIMEOUT", "NO_AP_FOUND",
                     "ASSOC_FAIL", "HANDSHAKE_TIMEOUT"}

\* The task takes the event from the queue with the last access to the status
\* and the bits.  _setStatus() clears the group, which reads as "IDLE", before
\* it sets it.
ClearStatus ==
    /\ handling = "none" /\ queue # <<>> /\ SetsStatus(Head(queue))
    /\ status' = "IDLE" /\ handling' = "status"
    /\ UNCHANGED <<conf, link, queue, staBits, autoReconnect, left>>

SetStatus ==
    /\ handling = "status" /\ queue # <<>>
    /\ status' = StatusAfter(Head(queue)) /\ handling' = "bits"
    /\ UNCHANGED <<conf, link, queue, staBits, autoReconnect, left>>

SetBits ==
    /\ queue # <<>>
    /\ handling = IF SetsStatus(Head(queue)) THEN "bits" ELSE "none"
    /\ staBits' = BitsAfter(Head(queue))
    /\ queue' = Tail(queue)
    /\ handling' = IF Retries(Head(queue)) THEN "disconnect" ELSE "none"
    /\ UNCHANGED <<conf, link, status, autoReconnect, left>>

\* WiFi.disconnect() and WiFi.begin() of the task, which connects only when the
\* status is another than connected.
RetryDisconnect ==
    /\ handling = "disconnect"
    /\ Drive(esp_wifi_disconnect(Driver)) /\ handling' = "begin"
    /\ UNCHANGED <<status, staBits, autoReconnect, left>>

RetryBegin ==
    /\ handling = "begin"
    /\ Drive(IF status # "CONNECTED" THEN esp_wifi_connect(Driver) ELSE Driver)
    /\ handling' = "none"
    /\ UNCHANGED <<status, staBits, autoReconnect, left>>

_eventCallback == ClearStatus \/ SetStatus \/ SetBits \/ RetryDisconnect \/ RetryBegin

StationNext ==
    \/ \E ssid \in Network : begin(ssid)
    \/ disconnect \/ reconnect \/ setAutoReconnect
    \/ Associate \/ GotIP \/ LostIP \/ Fail \/ Lose
    \/ _eventCallback

StationSpec == StationInit /\ [][StationNext]_stationVars

-----------------------------------------------------------------------------
(* A sketch that waits for its connection: begin() and                     *)
(* waitForConnectResult(), or WiFiMulti::run(), over the driver and the    *)
(* event task.  They look at the status, which says what the last event    *)
(* left.  The choice of a network from a scan is WiFiMulti's; here run()   *)
(* finds any of the listed ones, or none.                                  *)
waiter == <<step, seen, result, attempts, ended>>
connectVars == <<stationVars, waiter>>

ConnectInit ==
    /\ StationInit /\ step = "idle" /\ seen = "DISCONNECTED"
    /\ result = "none" /\ attempts = 0 /\ ended = FALSE

\* An attempt has its result when the driver has an address or gives up.
Outcome == link' # link /\ link' \in {"ip", "down"}

Attempt(ssid) ==
    /\ attempts < MaxAttempts
    /\ begin(ssid)
    /\ attempts' = attempts + 1
    /\ ended' = (link' = "ip")

\* begin(ssid); waitForConnectResult()
Connect ==
    /\ step = "idle"
    /\ \E ssid \in Network : Attempt(ssid)
    /\ step' = "waiting"
    /\ UNCHANGED <<seen, result>>

Undecided(s) == s \in {"IDLE", "DISCONNECTED"}

\* The loop reads the status twice, and once more for its result: three times
\* between which the event task runs.
WaitReads ==
    /\ step = "waiting" /\ status # "IDLE"
    /\ step' = "again"
    /\ UNCHANGED <<stationVars, seen, result, attempts, ended>>

WaitReadsAgain ==
    /\ step = "again"
    /\ step' = IF status = "DISCONNECTED" THEN "waiting" ELSE "return"
    /\ UNCHANGED <<stationVars, seen, result, attempts, ended>>

\* 100 turns of 100 ms are over.
WaitGivesUp ==
    /\ step \in {"waiting", "again"} /\ Undecided(status)
    /\ step' = "return"
    /\ UNCHANGED <<stationVars, seen, result, attempts, ended>>

waitForConnectResult ==
    /\ step = "return"
    /\ step' = "idle"
    /\ result' = status
    /\ UNCHANGED <<stationVars, seen, attempts, ended>>

Listed(ssid) == ssid \in APlist

\* run() while connected: WiFi.SSID() is what the driver is linked to.
RunConnected ==
    /\ step = "idle" /\ status = "CONNECTED"
    /\ step' = "named"
    /\ UNCHANGED <<stationVars, seen, result, attempts, ended>>

RunCompares ==
    /\ step = "named"
    /\ IF link \in {"linked", "ip"} /\ Listed(conf)
       THEN step' = "idle" /\ result' = "CONNECTED"
       ELSE step' = "leave" /\ result' = result
    /\ UNCHANGED <<stationVars, seen, attempts, ended>>

RunLeaves ==
    /\ step = "leave" /\ Room
    /\ Drive(esp_wifi_disconnect(Driver))
    /\ UNCHANGED <<status, staBits, autoReconnect, handling, left>>
    /\ step' = "delay"
    /\ UNCHANGED <<seen, result, attempts, ended>>

\* The status is read before the scan: 10 ms after disconnect(), or at
\* once when there was no connection.
Run ==
    /\ \/ step = "delay"
       \/ step = "idle" /\ status # "CONNECTED"
    /\ step' = "scan"
    /\ seen' = status
    /\ UNCHANGED <<stationVars, result, attempts, ended>>

ScanFound ==
    /\ step = "scan"
    /\ \E ssid \in APlist : Attempt(ssid)
    /\ step' = "connecting"
    /\ UNCHANGED <<seen, result>>

ScanNothing ==
    /\ step = "scan"
    /\ step' = "idle"
    /\ result' = seen
    /\ UNCHANGED <<stationVars, seen, attempts, ended>>

\* The scan failed: disconnect() and another one, in the background.
ScanFailed ==
    /\ step = "scan" /\ Room
    /\ Drive(esp_wifi_disconnect(Driver))
    /\ UNCHANGED <<status, staBits, autoReconnect, handling, left>>
    /\ step' = "idle"
    /\ result' = seen
    /\ UNCHANGED <<seen, attempts, ended>>

\* The network answered, or connectTimeout is over.
RunEnds ==
    /\ step = "connecting"
    /\ step' = "idle"
    /\ result' = status
    /\ UNCHANGED <<stationVars, seen, attempts, ended>>

Others ==
    /\ Associate \/ GotIP \/ LostIP \/ Fail \/ Lose \/ _eventCallback
    /\ ended' = (ended \/ Outcome)
    /\ UNCHANGED <<step, seen, result, attempts>>

ConnectNext ==
    \/ Connect \/ WaitReads \/ WaitReadsAgain \/ WaitGivesUp \/ waitForConnectResult
    \/ RunConnected \/ RunCompares \/ RunLeaves
    \/ Run \/ ScanFound \/ ScanNothing \/ ScanFailed \/ RunEnds
    \/ Others

ConnectSpec == ConnectInit /\ [][ConnectNext]_connectVars
-----------------------------------------------------------------------------
\* When every event has been handled the bits say what the driver has, and so
\* does the status while the station is linked.
StatusAgrees ==
    queue = <<>> /\ handling = "none" =>
        /\ ("HAS_IP" \in staBits) <=> (link = "ip")
        /\ ("CONNECTED" \in staBits) <=> (link \in {"linked", "ip"})
        /\ link = "ip" => status = "CONNECTED"
        /\ link = "linked" => status = "IDLE"

\* isConnected(), "true if STA is connected to an AD": when every event has been
\* handled a station that says so has an access point.
ConnectedIsLinked ==
    queue = <<>> /\ handling = "none" /\ status = "CONNECTED" =>
        link \in {"linked", "ip"}

\* A connection that is lost to a silent access point, or an attempt that fails
\* for want of one, is tried again without the sketch.
Recovers ==
    \A r \in {"BEACON_TIMEOUT", "NO_AP_FOUND", "ASSOC_FAIL", "HANDSHAKE_TIMEOUT"} :
        (queue # <<>> /\ queue[Len(queue)] = Disconnected(r)) ~> link # "down"

\* Nothing that the event task does, or retries, is taken for the result of the
\* first attempt before it has one: until then only "IDLE" and "DISCONNECTED" are
\* returned.
FirstResult ==
    [][waitForConnectResult /\ attempts = 1 /\ ~Undecided(result') => ended]_connectVars

\* When run() says CONNECTED the station is configured for a listed
\* network: what the status has left from another one is never taken.
RunMeansListed ==
    [][(RunCompares \/ RunEnds) /\ step' = "idle" /\ result' = "CONNECTED" =>
         conf' \in APlist]_connectVars
=============================================================================
