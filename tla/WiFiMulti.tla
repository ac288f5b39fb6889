----------------------------- MODULE WiFiMulti -----------------------------
(***************************************************************************)
(* WiFiMulti: the list of the networks that the sketch knows, and the loop *)
(* of run() that picks one of them from a scan.  WiFiConnecting has what   *)
(* happens around the loop.                                                *)
(***************************************************************************)
EXTENDS Integers, Sequences, SequencesExt

CONSTANTS
  Name,
  Strength,      \* the values of rssi: only their order counts
  Half,          \* scanResult and i are in -Half..Half-1: 128 in the code
  MaxEntries,    \* bound on addAP() calls
  MaxFound       \* bound on the networks that a scan finds

MultiAssumption ==
  /\ Strength \subseteq Int
  /\ Half \in Nat \ {0} /\ MaxEntries \in Nat /\ MaxFound \in Nat

VARIABLES
  APlist,        \* <<[ssid, secret], ...>>, secret: it has a passphrase
  scan,          \* what the last scan found, in the order of the driver
  i, best,       \* the loop of run(): best is a number of scan, 0 is none
  pc             \* "idle", "loop", "begin", "none", "running", "failed"

vars == <<APlist, scan, i, best, pc>>

Entry == [ssid : Name, secret : BOOLEAN]
Found == [ssid : Name, rssi : Strength, open : BOOLEAN]

Init == APlist = <<>> /\ scan = <<>> /\ i = 0 /\ best = 0 /\ pc = "idle"

(* addAP(): names and passphrases that are too long never get here.  The   *)
(* copies are made first: without memory the list stays as it was.         *)
addAP ==
  /\ pc = "idle" /\ Len(APlist) < MaxEntries
  /\ \E e \in Entry : APlist' \in {APlist, Append(APlist, e)}
  /\ UNCHANGED <<scan, i, best, pc>>

(* int8_t scanResult = scanNetworks(), which counts in 16 bits. *)
Narrow(n) == ((n + Half) % (2 * Half)) - Half

ScanRunning == -1

run ==
  /\ pc = "idle"
  /\ \E found \in SeqOf(Found, MaxFound) :
       LET scanResult == Narrow(Len(found)) IN
       /\ scan' = found
       /\ pc' = CASE scanResult >= 0 -> "loop"
                  [] scanResult = ScanRunning -> "running"
                  [] OTHER -> "failed"
  /\ i' = 0 /\ best' = 0
  /\ UNCHANGED APlist

(* The entry for a network: the first of its name, 0 when there is none. *)
EntryOf(f) == SelectInSeq(APlist, LAMBDA e : e.ssid = f.ssid)

(* A network can be joined that is open, or that has a passphrase. *)
Usable(f) == EntryOf(f) # 0 /\ (f.open \/ APlist[EntryOf(f)].secret)

Stronger(f) == best = 0 \/ f.rssi > scan[best].rssi

Look ==
  /\ pc = "loop" /\ i < Narrow(Len(scan))
  /\ i' = i + 1
  /\ best' = IF Usable(scan[i + 1]) /\ Stronger(scan[i + 1]) THEN i + 1 ELSE best
  /\ UNCHANGED <<APlist, scan, pc>>

Decide ==
  /\ pc = "loop" /\ i = Narrow(Len(scan))
  /\ pc' = IF best # 0 THEN "begin" ELSE "none"
  /\ UNCHANGED <<APlist, scan, i, best>>

Return ==
  /\ pc \in {"begin", "none", "running", "failed"}
  /\ pc' = "idle" /\ scan' = <<>> /\ i' = 0 /\ best' = 0
  /\ UNCHANGED APlist

Next == addAP \/ run \/ Look \/ Decide \/ Return

Spec == Init /\ [][Next]_vars
-----------------------------------------------------------------------------
(* The number of networks fits scanResult. *)
Fits == Len(scan) < Half

(* The first entry that the sketch gave for a name decides, and of what    *)
(* can be joined the strongest is taken, the first of the equally strong.  *)
JoinsStrongest ==
  Fits /\ pc = "begin" =>
    LET first(name) == CHOOSE n \in DOMAIN APlist :
                         /\ APlist[n].ssid = name
                         /\ \A m \in 1..(n - 1) : APlist[m].ssid # name
        known  == {APlist[n].ssid : n \in DOMAIN APlist}
        usable == {n \in DOMAIN scan :
                     scan[n].ssid \in known /\ (scan[n].open \/ APlist[first(scan[n].ssid)].secret)}
    IN  /\ best \in usable
        /\ \A n \in usable : \/ scan[n].rssi < scan[best].rssi
                             \/ scan[n].rssi = scan[best].rssi /\ n >= best

(* What is said of a scan is true of it while its number fits: it is not   *)
(* taken for one that runs or failed, and nothing is passed over.          *)
NothingPassedOver ==
  Fits =>
    /\ pc \notin {"running", "failed"}
    /\ pc = "none" => \A n \in DOMAIN scan : \A e \in DOMAIN APlist :
         APlist[e].ssid = scan[n].ssid =>
           ~scan[n].open /\ \E m \in 1..e : APlist[m].ssid = scan[n].ssid /\ ~APlist[m].secret
=============================================================================
