------------------------------ MODULE WiFiMode ------------------------------
(***************************************************************************)
(* The modes of the WiFi library: mode(), enableSTA(), enableAP() and the  *)
(* calls of the access point that go through them, over a driver whose     *)
(* calls may fail.  What the driver starts and stops comes back as events. *)
(***************************************************************************)
EXTENDS Integers, Sequences

CONSTANTS
    Config,           \* access point configurations: SSID, password, channel
    TooShort,         \* passwords of 1 to 7 characters
    MaxQueue          \* bound on the events that wait

ModeAssumption ==
    /\ MaxQueue \in Nat
    \* a configuration has these three fields
    /\ \A c \in Config :
         c = [ssid |-> c.ssid, password |-> c.password, channel |-> c.channel]

VARIABLES
    started,          \* _esp_wifi_started
    driver,           \* [on, mode, ap]: running, its mode, its AP configuration
    modeQueue,        \* _network_event_queue
    bits,             \* STA_STARTED_BIT and AP_STARTED_BIT
    last              \* the last call: its name, argument and result

modeVars == <<started, driver, modeQueue, bits, last>>

Interface == {"STA", "AP"}
Mode == SUBSET Interface
NoConfig == [ssid |-> "", password |-> "", channel |-> 0]

\* The interfaces that run.
Running(d) == IF d.on THEN d.mode ELSE {}

ModeInit ==
    /\ started = FALSE /\ bits = {} /\ modeQueue = <<>>
    /\ driver = [on |-> FALSE, mode |-> {"STA"}, ap |-> NoConfig]
    /\ last = [call |-> "none", arg |-> {}, ok |-> TRUE]
-----------------------------------------------------------------------------
\* A call is worked out on a state s = [started, driver, ok]; fails is the set
\* of driver calls that fail during it.
State == [started |-> started, driver |-> driver, ok |-> TRUE]
Told(s, ok) == [s EXCEPT !.ok = ok]

getMode(s) == IF s.started THEN s.driver.mode ELSE {}

\* Mutant: the flag is set before the driver is asked.
espWiFiStartEarly(s, fails) ==
    IF s.started THEN s
    ELSE IF "start" \in fails THEN Told([s EXCEPT !.started = TRUE], FALSE)
    ELSE [s EXCEPT !.started = TRUE, !.driver.on = TRUE]

\* The driver starts with the mode it had; "start" fails when the low level
\* cannot be initialised or the driver not be started.
espWiFiStart(s, fails) ==
    IF s.started THEN s
    ELSE IF "start" \in fails THEN Told(s, FALSE)
    ELSE [s EXCEPT !.started = TRUE, !.driver.on = TRUE]

espWiFiStop(s, fails) ==
    IF ~ s.started THEN s
    ELSE IF "stop" \in fails THEN Told(s, FALSE)
    ELSE [s EXCEPT !.started = FALSE, !.driver.on = FALSE]

setMode(s, m, fails) ==
    IF "mode" \in fails THEN Told(s, FALSE) ELSE [s EXCEPT !.driver.mode = m]

mode(s, m, fails) ==
    LET cm == getMode(s)
    IN  IF cm = m THEN s
        ELSE IF m = {} THEN espWiFiStop(s, fails)
        ELSE LET on == IF cm = {} THEN espWiFiStart(s, fails) ELSE s
             IN  IF on.ok THEN setMode(on, m, fails) ELSE on


\* enableSTA(), enableAP()
enable(s, i, en, fails) ==
    IF (i \in getMode(s)) = en THEN s
    ELSE mode(s, IF en THEN getMode(s) \cup {i} ELSE getMode(s) \ {i}, fails)

softap_config_equal(a, b) ==
    a.ssid = b.ssid /\ a.password = b.password /\ a.channel = b.channel

\* esp_wifi_start() is called again, and its result ignored; the configuration
\* is set when it is another.
softAP(s, conf, fails) ==
    LET ap == enable(s, "AP", TRUE, fails)
    IN  IF ~ ap.ok \/ conf.ssid = "" \/ conf.password \in TooShort THEN Told(ap, FALSE)
        ELSE IF softap_config_equal(conf, ap.driver.ap) THEN ap
        ELSE IF "config" \in fails THEN Told(ap, FALSE)
        ELSE [ap EXCEPT !.driver.ap = conf]

\* The result of enableAP() is compared with ESP_OK, which is 0: it is inverted.
\* Without a mode an error code, which is true, is returned.
softAPdisconnect(s, wifioff, fails) ==
    IF getMode(s) = {} THEN s
    ELSE LET bare == IF "config" \in fails THEN Told(s, FALSE)
                     ELSE [s EXCEPT !.driver.ap = NoConfig]
             off  == enable([bare EXCEPT !.ok = TRUE], "AP", FALSE, fails)
         IN  IF wifioff THEN Told(off, ~ off.ok) ELSE bare
-----------------------------------------------------------------------------
\* What the driver reports when it ran the interfaces old and now runs new.
Events(old, new) ==
    [i \in {"STA", "AP"} |-> IF i \in new \ old THEN <<<<i, TRUE>>>>
                             ELSE IF i \in old \ new THEN <<<<i, FALSE>>>> ELSE <<>>]

Done(s, call, arg) ==
    LET e == Events(Running(driver), Running(s.driver))
    IN  /\ modeQueue' = modeQueue \o e["STA"] \o e["AP"]
        /\ Len(modeQueue') <= MaxQueue
        /\ started' = s.started /\ driver' = s.driver
        /\ last' = [call |-> call, arg |-> arg, ok |-> s.ok]
        /\ UNCHANGED bits

Fails == SUBSET {"start", "stop", "mode", "config"}

Mode_(fails) == \E m \in Mode : Done(mode(State, m, fails), "mode", m)
Enable(fails) ==
    \E i \in Interface, en \in BOOLEAN :
        Done(enable(State, i, en, fails), IF en THEN "enable" ELSE "disable", {i})
SoftAP(fails) == \E c \in Config : Done(softAP(State, c, fails), "softAP", c)
SoftAPdisconnect(fails) ==
    \E off \in BOOLEAN : Done(softAPdisconnect(State, off, fails), "softAPdisconnect", off)

\* _eventCallback(): the interface has started or stopped.
eventCallback ==
    /\ modeQueue # <<>>
    /\ modeQueue' = Tail(modeQueue)
    /\ bits' = IF Head(modeQueue)[2] THEN bits \cup {Head(modeQueue)[1]}
               ELSE bits \ {Head(modeQueue)[1]}
    /\ UNCHANGED <<started, driver, last>>

ModeNext == eventCallback
        \/ \E fails \in Fails : Mode_(fails) \/ Enable(fails) \/ SoftAP(fails)
                                \/ SoftAPdisconnect(fails)

ModeSpec == ModeInit /\ [][ModeNext]_modeVars
-----------------------------------------------------------------------------
\* The flag agrees with the driver, whichever of its calls have failed.
FlagAgrees == started = driver.on

\* When the events have been handled the bits, by which setTxPower() decides,
\* say what runs.
BitsAgree == modeQueue = <<>> => bits = Running(driver)

\* softAP() that succeeds leaves an access point with the configuration asked for.
SoftAPStands ==
    last.call = "softAP" /\ last.ok => "AP" \in getMode(State) /\ driver.ap = last.arg

\* The flag, the bits and what softAP() says agree with the driver.
ModesAgree == FlagAgrees /\ BitsAgree /\ SoftAPStands

\* To enable or disable one interface does not touch the other, when it succeeds.
OtherInterfaceKept ==
    [][last'.call \in {"enable", "disable"} /\ last'.ok =>
         getMode(State)' \ last'.arg = getMode(State) \ last'.arg]_<<driver, last>>
=============================================================================
