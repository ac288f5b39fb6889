----------------------------- MODULE FirmwareMC ------------------------------
(* The program of this repository, beside the routing of messages, which   *)
(* has runs of its own: the parts side by side, as in WiFiMC.  A part that *)
(* does not run rests where it starts.                                     *)
EXTENDS MainLoop, Credentials, SerialPort, TLC

CONSTANTS
    Parts,     \* the parts that this run lets run
    d1, d2,    \* the two devices
    letter     \* the letters, which the renaming does not tell apart

VARIABLES
    part       \* the part that runs

\* A plain name with the suffixes on both sides of 9, names at and just below the
\* length that is cut, one that does not fit the buffer, and names of one character.
Suffixed(k) == <<letter, 11, k>>
SsidNames ==
    { <<letter>>, Suffixed(1), Suffixed(2), Suffixed(9), Suffixed(10), <<9>>,
      Suffixed(10) \o <<11, 1>>, [k \in 1 .. 7 |-> letter], [k \in 1 .. 9 |-> letter] }

\* Commands with every field, with every field missing, and with a passphrase
\* that is too short.
Requests == { [ssid |-> "A", pass |-> "long", channel |-> 1],
              [ssid |-> Missing, pass |-> Missing, channel |-> Missing],
              [ssid |-> "B", pass |-> "short", channel |-> 1] }

RenamedTo(n) == IF n = "B" THEN {"B_1"} ELSE {}

Devices == Permutations({d1, d2})

\* A command without arguments (like MCA or PAIR) and one that tokenizes (like S).
Commands == {<<"P", "S">>, <<"S", ",">>}
Arguments == [k \in Commands |-> IF k = <<"S", ",">> THEN 2 ELSE 0]

allVars == <<part, ssidVars, serialVars, commandVars, mainVars>>

FirmwareInit ==
    /\ part \in Parts
    /\ SsidInit /\ (part # "ssid" => ssidSocket = <<letter>> /\ scan = <<>>)
    /\ SerialInit
    /\ CommandInit
    /\ MainInit

\* What is bounded by its constants alone may stop there.
FirmwareNext ==
    /\ part' = part
    /\ IF part = "ssid" THEN SsidNext \/ UNCHANGED ssidVars ELSE UNCHANGED ssidVars
    /\ IF part = "serial" THEN SerialNext ELSE UNCHANGED serialVars
    /\ IF part = "credentials" THEN CommandNext ELSE UNCHANGED commandVars
    /\ IF part = "main loop" THEN MainNext ELSE UNCHANGED mainVars

ASSUME FirmwareAssumption ==
    /\ NamesAssumption
    /\ SerialAssumption
    /\ CredentialsAssumption
    /\ PairAssumption

FirmwareSpec == FirmwareInit /\ [][FirmwareNext]_allVars
==============================================================================
