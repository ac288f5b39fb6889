---------------------------- MODULE Credentials -----------------------------
(***************************************************************************)
(* The Wi-Fi credentials from the serial command that changes them to the  *)
(* devices that use them: the S, handler of Manager.cpp, parse to reply;   *)
(* CredentialNotification, WebsocketManager, PairingManager; save() and    *)
(* read() of CrossSectionalData.cpp over the key-value store of the chip.  *)
(*                                                                         *)
(* The power may fail between any two steps.  Devices associate, identify  *)
(* themselves and leave at any time the radio allows; a message to one of  *)
(* them may be lost.  A device is remembered under its own name.           *)
(*                                                                         *)
(* The last part is the pass of CheckSSID.hpp that renames the network,    *)
(* which the first part leaves to the constant Renamed: it has a           *)
(* specification of its own.                                               *)
(***************************************************************************)
EXTENDS Integers, SequencesExt

CONSTANTS
    Device,     \* the devices that may connect
    Request,    \* arguments of S, commands; a field may be Missing
    Missing,
    Absent,     \* a key the store does not hold
    Unknown,    \* what a device in its factory state knows
    ShortPass,  \* passphrases of 1 to 7 characters, which softAP() refuses
    Renamed(_)  \* names validateSSID() may make of a name that is taken

VARIABLES
    command,     \* the step of the command that is executing
    newdata,     \* the credentials of the command, until they are eepromdata
    eepromdata,  \* Manager::eepromdata
    nvs,         \* the "config" namespace of the store
    ap,          \* the access point: mode, and the configuration it has
    conn,        \* the network each device is associated with
    id,          \* devices that hold a logical client (m_id is not -1)
    clientNames, \* names given credentials by a pairing; RAM only
    knows,       \* the credentials each device has
    \* history
    torn,        \* the last save was interrupted by a power failure
    missed       \* devices that had no chance to learn of the last change

commandVars == <<command, newdata, eepromdata, nvs, ap, conn, id,
                 clientNames, knows, torn, missed>>
flash == <<newdata, eepromdata, nvs, torn>>
radio == <<ap, conn, id>>

Saving == {"save ssid", "save pass", "save channel"}

Empty    == "empty"      \* the string of length zero
Pairing  == [ssid |-> "PAIRING", pass |-> "Clave123", channel |-> 1]
Cleared  == [ssid |-> Empty, pass |-> Empty, channel |-> 0]

\* The members of CrossSectionalDataEEPROM as constructed.
Constructed == [ssid |-> "ROASTER", pass |-> "Clave123*", channel |-> 1]

\* read() clears the strings first, so a key that is absent gives "".
Default == [ssid |-> Empty, pass |-> Empty, channel |-> 1]

read(s) == [f \in DOMAIN s |-> IF s[f] = Absent THEN Default[f] ELSE s[f]]

\* Mutant: a missing passphrase is an empty one.
ParseEmpty(r) ==
    [ssid    |-> IF r.ssid = Missing THEN Constructed.ssid ELSE r.ssid,
     pass    |-> IF r.pass = Missing THEN Empty ELSE r.pass,
     channel |-> IF r.channel = Missing THEN 0 ELSE r.channel]

\* A field that is missing keeps what the constructor put there, except the
\* channel, which str2int() makes zero.
Parse(r) ==
    [ssid    |-> IF r.ssid = Missing THEN Constructed.ssid ELSE r.ssid,
     pass    |-> IF r.pass = Missing THEN Constructed.pass ELSE r.pass,
     channel |-> IF r.channel = Missing THEN 0 ELSE r.channel]

Ssids    == LET asked == {Parse(r).ssid : r \in Request}
            IN asked \cup UNION {Renamed(s) : s \in asked}
Passes   == {Parse(r).pass : r \in Request}
Channels == {Parse(r).channel : r \in Request}

\* strtok() gives no empty argument, and what the store says of a key that it
\* has not is no value.
CredentialsAssumption ==
    /\ \A r \in Request : r.pass # Empty
    /\ Absent \notin Ssids /\ Absent \notin Passes /\ Absent \notin Channels

-----------------------------------------------------------------------------
Off == [on |-> FALSE, cfg |-> Cleared]

CommandInit ==
    /\ command = "idle"
    /\ newdata = Constructed
    /\ nvs = [f \in DOMAIN Default |-> Absent]
    /\ eepromdata = read(nvs)
    /\ ap = Off
    /\ conn = [d \in Device |-> "none"]
    /\ id = {}
    /\ clientNames = {}
    /\ knows = [d \in Device |-> Unknown]
    /\ torn = FALSE
    /\ missed = Device

\* softAP() may succeed on these, and fails on all others.
Startable(c) == c.ssid # Empty /\ c.pass \notin ShortPass

\* turnOnWebSocket(c): the old network goes away with all connections; then
\* the new one is up or, if softAP() fails, the radio is in access point mode
\* without it (or not even that).
turnOnOk(c) ==
    /\ Startable(c)
    /\ ap' = [on |-> TRUE, cfg |-> c]

turnOnFail == ap' \in {Off, [on |-> TRUE, cfg |-> Cleared]}

Dropped == conn' = [d \in Device |-> "none"]

\* The devices a message to all clients can reach: id holds for those whose
\* connection ended too, and what is sent to them is lost.
Reachable == {d \in id : conn[d] = "user"}

\* S, up to validateSSID(), which may rename the network.
SCommand(r) ==
    /\ command = "idle"
    /\ LET p == Parse(r) IN
         \E s \in {p.ssid} \cup Renamed(p.ssid) :
            newdata' = [p EXCEPT !.ssid = s]
    /\ command' = "notify"
    /\ UNCHANGED <<eepromdata, nvs, torn, radio, clientNames, knows, missed>>

\* Mutant: the clients are told the credentials they have.
MessageOld == eepromdata

\* What CredentialMessage holds.
Message == newdata

\* notifyOnChange(): before the network is touched.
notifyOnChange ==
    /\ command = "notify"
    /\ command' = "start"
    /\ IF eepromdata = newdata
         THEN UNCHANGED <<knows, missed>>
         ELSE \E got \in SUBSET Reachable :
                /\ knows' = [d \in Device |->
                               IF d \in got THEN Message ELSE knows[d]]
                /\ missed' = Device \ got
    /\ UNCHANGED <<flash, radio, clientNames>>

\* turnOnWebSocket() with the new credentials; the old ones are given up only
\* when it succeeds.  When it fails nothing more is done.
SStart ==
    /\ command = "start"
    /\ Dropped
    /\ \/ /\ turnOnOk(newdata)
          /\ eepromdata' = newdata
          /\ command' = "save ssid"
          /\ UNCHANGED missed
       \/ /\ turnOnFail
          /\ command' = "idle"
          /\ missed' = IF eepromdata = newdata THEN missed ELSE Device
          /\ UNCHANGED eepromdata
    /\ newdata' = Constructed
    /\ UNCHANGED <<nvs, torn, id, clientNames, knows>>

\* Mutant: the channel is written only when it is not the default.
SavedUnlessDefault(f) ==
    IF eepromdata[f] = Default[f]
      THEN nvs ELSE [nvs EXCEPT ![f] = eepromdata[f]]

\* save(): a key is written if its value differs from the stored one, where an
\* absent key counts as its default.
Saved(f) ==
    IF read(nvs)[f] = eepromdata[f]
      THEN nvs ELSE [nvs EXCEPT ![f] = eepromdata[f]]

SaveKey(f, here, next) ==
    /\ command = here
    /\ nvs' = Saved(f)
    /\ command' = next
    /\ UNCHANGED <<newdata, eepromdata, torn, radio, clientNames, knows, missed>>

save ==
    \/ SaveKey("ssid", "save ssid", "save pass")
    \/ SaveKey("pass", "save pass", "save channel")
    \/ SaveKey("channel", "save channel", "reply")

\* CSO, IPS and SID on the serial line: the change is confirmed.
Reply ==
    /\ command = "reply"
    /\ command' = "idle"
    /\ torn' = FALSE
    /\ UNCHANGED <<newdata, eepromdata, nvs, radio, clientNames, knows, missed>>
-----------------------------------------------------------------------------
\* PAIR: without the pairing network the round is over, and nothing brings the
\* user's network back.
setupDefaultCredentials ==
    /\ command = "idle"
    /\ Dropped
    /\ \/ turnOnOk(Pairing) /\ command' = "pairing"
       \/ turnOnFail /\ command' = "idle"
    /\ UNCHANGED <<flash, id, clientNames, knows, missed>>

\* A new name is remembered and its credentials sent; a known one gets nothing.
attach(d) ==
    /\ command = "pairing"
    /\ conn[d] = "pairing"
    /\ d \notin clientNames
    /\ clientNames' = clientNames \cup {d}
    /\ \/ /\ knows' = [knows EXCEPT ![d] = eepromdata]
          /\ missed' = missed \ {d}
       \/ UNCHANGED <<knows, missed>>
    /\ UNCHANGED <<command, flash, radio>>

\* The search is over; softAP() failing is only traced.
setupUserCredentials ==
    /\ command = "pairing"
    /\ command' = "idle"
    /\ Dropped
    /\ turnOnOk(eepromdata) \/ turnOnFail
    /\ UNCHANGED <<flash, id, clientNames, knows, missed>>

\* STOPWS.
turnOffWebSocket ==
    /\ command = "idle"
    /\ Dropped
    /\ ap' = Off
    /\ UNCHANGED <<command, flash, id, clientNames, knows, missed>>

\* The power fails and comes back: initialize() reads the store; no network
\* is started before a command asks for it.
PowerCycle ==
    /\ command' = "idle"
    /\ newdata' = Constructed
    /\ eepromdata' = read(nvs)
    /\ ap' = Off
    /\ Dropped
    /\ id' = {}
    /\ clientNames' = {}
    /\ torn' = (torn \/ command \in Saving)
    /\ missed' = IF command \in {"idle", "reply", "pairing"} THEN missed
                 ELSE Device
    /\ UNCHANGED <<nvs, knows>>
-----------------------------------------------------------------------------
\* A device in its factory state finds the pairing network, a paired one the
\* network whose credentials it has.
Associate(d) ==
    /\ ap.on /\ conn[d] = "none"
    /\ \/ /\ command = "pairing"
          /\ conn' = [conn EXCEPT ![d] = "pairing"]
       \/ /\ command = "idle" /\ ap.cfg \notin {Pairing, Cleared}
          /\ knows[d] # Unknown
          /\ knows[d].ssid = ap.cfg.ssid /\ knows[d].pass = ap.cfg.pass
          /\ conn' = [conn EXCEPT ![d] = "user"]
    /\ UNCHANGED <<command, flash, ap, id, clientNames, knows, missed>>

Leave(d) ==
    /\ conn[d] # "none"
    /\ conn' = [conn EXCEPT ![d] = "none"]
    /\ UNCHANGED <<command, flash, ap, id, clientNames, knows, missed>>

\* A message with the device's name is handled: its client has an id.
Identify(d) ==
    /\ command = "idle" /\ conn[d] = "user" /\ d \notin id
    /\ id' = id \cup {d}
    /\ UNCHANGED <<command, flash, ap, conn, clientNames, knows, missed>>

CommandNext ==
    \/ \E r \in Request : SCommand(r)
    \/ notifyOnChange \/ SStart \/ save \/ Reply
    \/ setupDefaultCredentials \/ setupUserCredentials \/ turnOffWebSocket
    \/ PowerCycle
    \/ \E d \in Device : attach(d) \/ Associate(d) \/ Leave(d) \/ Identify(d)

CommandSpec == CommandInit /\ [][CommandNext]_commandVars
-----------------------------------------------------------------------------
\* The user's network is open (no passphrase) only after a power failure in
\* the middle of a save: then the store may have the SSID and not yet the
\* passphrase, and the network is started with an empty one.
OpenOnlyAfterTornSave ==
    ap.on /\ ap.cfg.ssid # Empty /\ ap.cfg.pass = Empty => torn

\* Between commands a device has the credentials the roaster runs on, across
\* power failures and pairing rounds, unless it had no chance to learn them:
\* it was not reachable or the message was lost, the network it was told of
\* could not be started, or the power failed before they were saved.
InformedDevicesFollow ==
    command = "idle" =>
        \A d \in Device \ missed : knows[d] = eepromdata

\* A confirmed change survives: the code implements the store that finishes a
\* change only when a restart brings it back, and that mixes two values only
\* if a restart interrupts it.
Store == INSTANCE CredentialStore WITH
    stored <- nvs, current <- eepromdata,
    busy <- command \in Saving \cup {"reply"},
    Default <- Default,
    Acceptable <- [ssid : Ssids \ {Empty}, pass : Passes \ ShortPass,
                   channel : Channels]

ImplementsStore == Store!Spec

-----------------------------------------------------------------------------
(***************************************************************************)
(* utilities/CheckSSID.hpp: before the access point is started, one pass   *)
(* over the networks on the air renames the SSID each time it meets one    *)
(* that has its current name.  A name is a sequence of characters: the     *)
(* digits are 0 .. 9, Colon is what the code makes of '9' + 1, Underscore  *)
(* starts a suffix and anything above is a letter.  The buffer for the name*)
(* has NameSize bytes, the terminator included; the handler of S fills it  *)
(* with strcpy(), which does not look: a longer name goes on in the bytes  *)
(* behind it, those of the passphrase, and is what strlen() finds there.   *)
(*                                                                         *)
(* A scan that fails has an empty list: its negative count is taken for    *)
(* tens of thousands of networks, all of them with the empty name.         *)
(***************************************************************************)
CONSTANTS
    NameSize,  \* sizeof(ssidSocket), 20 in the code
    Names,     \* names asked for and found on the air, of any length
    MaxScan    \* the longest list of networks

Digit      == 0 .. 9
Colon      == 10
Underscore == 11

NamesAssumption ==
    /\ NameSize \in Nat /\ NameSize >= 6
    /\ MaxScan \in Nat
    /\ Names \subseteq Seq(Nat)
    /\ \A n \in Names : n # <<>>

VARIABLES
    ssidSocket,   \* the name of newdata
    scan,         \* the networks, in the order scanNetworks() lists them
    next,         \* the index of the next one
    held,         \* every name ssidSocket has had, in order
    last          \* the index of the network that caused the last change

ssidVars == <<ssidSocket, scan, next, held, last>>

isNumericChar(c) == c \in Digit

\* Two more characters would not fit, so the last two make room for them.
TooLong(n) == Len(n) + 2 >= NameSize - 1

\* Mutant: the old digit is written back.
AssignSameDigit(n) ==
    IF TooLong(n) THEN {SubSeq(n, 1, Len(n) - 2) \o <<Underscore, 1>>}
    ELSE IF isNumericChar(Last(n)) /\ Len(n) >= 2 /\ n[Len(n) - 1] = Underscore
      THEN {n}
      ELSE {n \o <<Underscore, 1>>}

\* The names that may follow n.  A cut leaves the terminator where the code
\* looks for the underscore, so a long name always gets the suffix _1.  In a
\* name of one character it looks in front of the buffer, at any byte.
assignAnotherSSID(n) ==
    LET len       == Len(n)
        suffixed  == n \o <<Underscore, 1>>
        increased == [n EXCEPT ![len] = @ + 1]
    IN  IF TooLong(n)
          THEN {SubSeq(n, 1, len - 2) \o <<Underscore, 1>>}
        ELSE IF ~ isNumericChar(Last(n))
          THEN {suffixed}
        ELSE IF len = 1
          THEN {suffixed, increased}
        ELSE {IF n[len - 1] = Underscore THEN increased ELSE suffixed}

-----------------------------------------------------------------------------
SsidInit ==
    /\ ssidSocket \in Names
    /\ scan \in BoundedSeq(Names, MaxScan)
    /\ next = 1
    /\ held = <<ssidSocket>>
    /\ last = 0

\* Copied anew for each network.
currentSSID == ssidSocket

\* One turn of the loop of validateSSID().
validateSSID ==
    /\ next <= Len(scan)
    /\ next' = next + 1
    /\ \/ /\ currentSSID = scan[next]
          /\ ssidSocket' \in assignAnotherSSID(ssidSocket)
          /\ held' = Append(held, ssidSocket')
          /\ last' = next
       \/ /\ currentSSID # scan[next]
          /\ UNCHANGED <<ssidSocket, held, last>>
    /\ UNCHANGED scan

SsidNext == validateSSID

SsidSpec == SsidInit /\ [][SsidNext]_ssidVars
-----------------------------------------------------------------------------
\* The pass is over.
Done == next > Len(scan)

\* The suffix and the cut together never write behind the last byte of the buffer,
\* nor, when the name asked for has gone beyond it, behind the last byte of that
\* name; and they leave a name softAP() accepts: not empty.
NeverBeyond ==
    /\ ssidSocket # <<>>
    /\ Len(ssidSocket) <= NameSize - 1 \/ Len(ssidSocket) = Len(held[1])

\* A name given up because it is taken is never taken up again, so that the
\* pass does not go round in circles.  Long names are the exception: the cut
\* takes the old suffix off and the same one is put on again.
NeverBack ==
    \A j, k \in DOMAIN held :
        j < k /\ held[j] = held[k] => \E m \in j .. k - 1 : TooLong(held[m])

\* A pass that ends on the name of a network on the air has met that network
\* before it took the name, or has met it and could not change a long name:
\* a network listed after the last change never has the final name.
TakenOnlyIfSeenEarlier ==
    Done => \A j \in DOMAIN scan :
        scan[j] = ssidSocket =>
            j < last \/ (j = last /\ ssidSocket \in assignAnotherSSID(ssidSocket))

\* The renaming never writes further than the buffer, or than strcpy() has written,
\* and never gives back a name that was taken before; a network listed after the
\* last change never has the final name.
RenamesSafely == NeverBeyond /\ NeverBack /\ TakenOnlyIfSeenEarlier
=============================================================================
