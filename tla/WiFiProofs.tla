----------------------------- MODULE WiFiProofs ------------------------------
(***************************************************************************)
(* Proofs about WiFiScan, for any number of networks and of scans, about   *)
(* WiFiMode, for any set of access point configurations, about HostByName, *)
(* for any number of calls, about WiFiEvents, for any handlers, and about  *)
(* WiFiStation, for any networks and any bound on the queue; and, with     *)
(* variables of their own, about SmartConfig, WiFiMulti and WiFiUdp.       *)
(***************************************************************************)
EXTENDS WiFiScan, WiFiMode, HostByName, WiFiEvents, WiFiStation,
        FiniteSetTheorems, FunctionTheorems, SequenceTheorems, WellFoundedInduction, TLAPS

-----------------------------------------------------------------------------
(* Scanning: the sketch against the event task. *)

\* The types the argument needs.
ScanTypeOK ==
    /\ pc \in {"idle", "delete", "start", "stamp", "clear", "set", "wait"}
    /\ scan \in Nat /\ scanCount \in Nat /\ radio \in Nat
    /\ scanQueue \in Seq(Nat)
    /\ task \in [at : {"idle", "store", "fill", "unstamp", "done", "clear"},
             of : Nat]
    /\ scanResult \in [size : Int, of : Nat]
    /\ returned \in [size : Int, of : Nat]

\* The last scan, and no other, is on its way and has stored nothing yet ...
NotStored ==
    /\ scan # 0
    /\ \/ radio = scan /\ scanQueue = <<>> /\ task.at = "idle"
       \/ radio = 0 /\ scanQueue = <<scan>> /\ task.at = "idle"
       \/ /\ radio = 0 /\ scanQueue = <<>>
          /\ task.at = "store" /\ task.of = scan

\* ... or it has stored its records and not told the sketch everything.
Stored ==
    /\ radio = 0 /\ scanQueue = <<>>
    /\ task.at \in {"fill", "unstamp", "done", "clear"} /\ task.of = scan

\* Until a scan is given up, the bits keep the sketch and the event task apart:
\* one scan at a time, which finds no array, and whose count fits its array.
ScanInv ==
    /\ NothingRuns \/ NotStored \/ Stored
    /\ pc \in {"delete", "start"} => NothingRuns /\ returned = None
    /\ pc \in {"idle", "wait"} /\ ~ SCANNING => NothingRuns
    /\ pc = "start" \/ NotStored => scanResult = None
    /\ scanResult # None /\ pc # "delete" => scanResult.of = scan
    /\ pc \in {"set", "wait"} /\ DONE => ~ NotStored
    /\ returned.size > 0 => returned.of = scan
    /\ task.at = "fill" => ~ leaked

\* Outside the moment in which a new count waits for its array, the count fits
\* the array, whatever was given up.
CountFits ==
    /\ scanResult = None \/ scanResult.size > 0
    /\ task.at # "store" =>
          scanCount <= IF scanResult = None THEN 0 ELSE scanResult.size

\* They are kept.
LEMMA ScanTypes ==
  ASSUME ScanAssumption
  PROVE  ScanSpec => []ScanTypeOK
<1>1. ScanInit => ScanTypeOK
  BY DEF ScanInit, ScanTypeOK, None
<1>2. ASSUME ScanTypeOK, [ScanNext]_scanVars
      PROVE  ScanTypeOK'
  <2> USE <1>2 DEF ScanTypeOK, Sketch, Task
  <2>1. CASE scanNetworks \/ DeleteFirst
    BY <2>1, SMTT(30) DEF scanNetworks, DeleteFirst, Drop, None
  <2>2. CASE Start \/ Stamp \/ ClearDone \/ SetScanning
    BY <2>2 DEF Start, Stamp, ClearDone, SetScanning
  <2>3. CASE Waited \/ scanComplete \/ scanDelete
    BY <2>3, SMTT(30) DEF Waited, scanComplete, scanDelete, Drop, None, Array
  <2>4. CASE RadioDone
    BY <2>4 DEF RadioDone
  <2>5. CASE scanDone
    <3>1. scanCount' \in Nat
      BY <2>5, ScanAssumption DEF scanDone, ScanAssumption
    <3>2. Head(scanQueue) \in Nat /\ scanQueue' \in Seq(Nat)
      BY <2>5 DEF scanDone
    <3>3. QED
      BY <2>5, <3>1, <3>2 DEF scanDone
  <2>6. CASE Store \/ Fill \/ Unstamp \/ SetDone \/ ClearScanning
    BY <2>6 DEF Store, Fill, Unstamp, SetDone, ClearScanning, Clear, Array
  <2>7. CASE UNCHANGED scanVars
    BY <2>7 DEF scanVars
  <2>8. QED
    BY <1>2, <2>1, <2>2, <2>3, <2>4, <2>5, <2>6, <2>7 DEF ScanNext
<1>3. QED
  BY <1>1, <1>2, PTL DEF ScanSpec

LEMMA CountFitsAlways ==
  ASSUME ScanAssumption
  PROVE  ScanSpec => []CountFits
<1>1. ScanInit => CountFits
  BY DEF ScanInit, CountFits, None
<1>2. ASSUME ScanTypeOK, CountFits, [ScanNext]_scanVars
      PROVE  CountFits'
  <2> USE <1>2 DEF ScanTypeOK, CountFits, Sketch, Task
  <2>1. CASE \/ scanNetworks \/ Start \/ Stamp \/ ClearDone \/ SetScanning
             \/ Waited \/ scanComplete \/ RadioDone
    BY <2>1 DEF scanNetworks, Start, Stamp, ClearDone, SetScanning, Waited,
                scanComplete, RadioDone
  <2>2. CASE DeleteFirst \/ scanDelete
    BY <2>2 DEF DeleteFirst, scanDelete, Drop, None
  <2>3. CASE scanDone
    BY <2>3 DEF scanDone
  <2>4. CASE Store
    <3>1. task'.at = "fill" /\ scanCount' = scanCount
      BY <2>4 DEF Store
    <3>2. CASE scanCount = 0
      BY <2>4, <3>1, <3>2 DEF Store
    <3>3. CASE scanCount # 0
      BY <2>4, <3>1, <3>3 DEF Store, Array, None
    <3>4. QED
      BY <3>2, <3>3
  <2>5. CASE Fill \/ Unstamp \/ SetDone \/ ClearScanning
    BY <2>5 DEF Fill, Unstamp, SetDone, ClearScanning, Clear
  <2>6. CASE UNCHANGED scanVars
    BY <2>6 DEF scanVars
  <2>7. QED
    BY <1>2, <2>1, <2>2, <2>3, <2>4, <2>5, <2>6 DEF ScanNext
<1>3. QED
  BY <1>1, <1>2, ScanTypes, PTL DEF ScanSpec

\* No interleaving of the two tasks breaks the invariant, however quick the radio
\* is; and a scan that is started with nothing left of one that was given up
\* restores it.
LEMMA ScanInvariant ==
  ASSUME ScanAssumption
  PROVE  ScanSpec => [](~ late => ScanInv)
<1>1. ScanInit => ScanInv
  BY DEF ScanInit, ScanInv, NothingRuns, NotStored, None
<1>2. ASSUME ScanTypeOK, ScanTypeOK', CountFits, ~ late => ScanInv,
             [ScanNext]_scanVars, ~ late'
      PROVE  ScanInv'
  <2>a. CASE scanNetworks
    <3>1. NothingRuns
      BY <1>2, <2>a DEF scanNetworks, Ready, ScanInv
    <3>2. NothingRuns' /\ ~ NotStored'
      BY <1>2, <2>a, <3>1
         DEF scanNetworks, NothingRuns, NotStored, ScanTypeOK
    <3>3. pc' = "delete" /\ returned' = None /\ task'.at = "idle"
      BY <2>a, <3>2 DEF scanNetworks, NothingRuns
    <3>4. QED
      BY <3>2, <3>3 DEF ScanInv, None
  <2>b. CASE ~ scanNetworks
    <3>0. ~ late /\ ScanInv
      BY <1>2, <2>b DEF ScanNext, scanVars, Sketch, Task, DeleteFirst,
                  Start, Stamp, ClearDone, SetScanning, Waited, scanComplete,
                  scanDelete, RadioDone, scanDone, Store, Fill, Unstamp, SetDone,
                  ClearScanning
    <3> USE <1>2, <3>0
        DEF ScanTypeOK, ScanInv, NothingRuns, NotStored, Stored, Sketch, Task
    <3>2. CASE DeleteFirst
      BY <3>2 DEF DeleteFirst, Drop, None
    <3>3. CASE Start
      BY <3>3 DEF Start, None
    <3>4. CASE Stamp
      BY <3>4 DEF Stamp
    <3>14. CASE ClearDone
      BY <3>14 DEF ClearDone
    <3>15. CASE SetScanning
      BY <3>15 DEF SetScanning
    <3>5. CASE Waited
      <4>1. CASE DONE
        <5>1. scanCount <= IF scanResult = None THEN 0 ELSE scanResult.size
          BY <3>5, <4>1 DEF Waited, CountFits
        <5>2. returned' = [size |-> scanCount, of |-> scanResult.of]
          BY <3>5, <4>1 DEF Waited, Array
        <5>3. returned'.size > 0 => returned'.of = scan
          BY <3>5, <5>1, <5>2 DEF Waited
        <5>4. QED
          BY <3>5, <5>3 DEF Waited
      <4>2. QED
        BY <3>5, <4>1 DEF Waited
    <3>6. CASE scanComplete
      BY <3>6 DEF scanComplete
    <3>7. CASE scanDelete
      BY <3>7 DEF scanDelete, Drop, None
    <3>8. CASE RadioDone
      <4>0. scanQueue = <<>> /\ radio = scan
        BY <3>8 DEF RadioDone
      <4>1. scanQueue' = <<scan>> /\ radio' = 0
        BY <3>8, <4>0 DEF RadioDone
      <4>2. NotStored'
        BY <3>8, <4>1 DEF RadioDone
      <4>3. QED
        BY <3>8, <4>1, <4>2 DEF RadioDone
    <3>9. CASE scanDone
      <4>1. scanQueue = <<scan>> /\ radio = 0
        BY <3>9 DEF scanDone
      <4>2. scanQueue' = <<>> /\ task' = [at |-> "store", of |-> scan]
        BY <3>9, <4>1 DEF scanDone
      <4>3. NotStored
        BY <3>9, <4>1 DEF scanDone
      <4>4. NotStored'
        BY <3>9, <4>1, <4>2 DEF scanDone
      <4>5. /\ UNCHANGED <<pc, SCANNING, DONE, scanResult, returned, leaked, scan>>
            /\ pc \notin {"delete", "start"}
            /\ pc \in {"idle", "wait"} => SCANNING
            /\ pc \in {"set", "wait"} => ~ DONE
            /\ scanResult = None
        BY <3>9, <4>1, <4>3 DEF scanDone
      <4>6. QED
        BY <4>2, <4>4, <4>5
    <3>10. CASE Store
      <4>1. NotStored /\ scanResult = None /\ task.of = scan
        BY <3>10 DEF Store
      <4>2. /\ task' = [at |-> "fill", of |-> scan]
            /\ UNCHANGED <<pc, SCANNING, DONE, radio, scanQueue, scan, returned>>
            /\ radio = 0 /\ scanQueue = <<>>
        BY <3>10, <4>1 DEF Store
      <4>3. ~ leaked'
        BY <3>10, <4>1 DEF Store
      <4>4. CASE scanCount = 0
        <5>1. scanResult' = None
          BY <3>10, <4>1, <4>4 DEF Store
        <5>2. QED
          BY <4>1, <4>2, <4>3, <5>1
      <4>5. CASE scanCount # 0
        <5>1. scanResult' = [size |-> scanCount, of |-> scan]
          BY <3>10, <4>1, <4>5 DEF Store, Array
        <5>2. scanResult' # None
          BY <5>1 DEF None
        <5>3. QED
          BY <4>1, <4>2, <4>3, <5>1, <5>2
      <4>6. QED
        BY <4>4, <4>5
    <3>11. CASE Fill \/ Unstamp \/ SetDone
      BY <3>11 DEF Fill, Unstamp, SetDone
    <3>12. CASE ClearScanning
      BY <3>12 DEF ClearScanning, Clear
    <3>13. CASE UNCHANGED scanVars
      BY <3>13 DEF scanVars
    <3>16. QED
      BY <2>b, <3>14, <3>15, <3>2, <3>3, <3>4, <3>5, <3>6, <3>7, <3>8, <3>9, <3>10, <3>11,
         <3>12, <3>13 DEF ScanNext
  <2>c. QED
    BY <2>a, <2>b
<1>3. QED
  BY <1>1, <1>2, ScanTypes, CountFitsAlways, PTL DEF ScanSpec

\* Without a lock, and however quick the radio is: what getters read is inside the
\* array, and as long as nothing is left of a scan that was given up no array is
\* lost, and a count that scanNetworks() returns belongs to its records.
LEMMA ScanRecordsSafe ==
  ASSUME ScanAssumption
  PROVE  ScanSpec => [](RecordsInBounds /\ NoArrayLost /\ ResultsOfThisScan)
<1>1. ASSUME ScanTypeOK, CountFits, ~ late => ScanInv
      PROVE  RecordsInBounds /\ NoArrayLost /\ ResultsOfThisScan
  <2>1. RecordsInBounds
    <3> SUFFICES ASSUME task.at = "store" => ~ late,
                        NEW i \in ReadBy(0 .. MaxNets)
                 PROVE  i < scanResult.size
      BY DEF RecordsInBounds
    <3>1. i \in Nat /\ scanResult # None /\ i < scanCount
      BY ScanAssumption, <1>1
         DEF ScanTypeOK, ReadBy, getScanInfoByIndex, ScanAssumption
    <3>2. task.at # "store"
      BY <1>1, <3>1 DEF ScanInv, Stored, NotStored, NothingRuns
    <3>3. scanCount <= scanResult.size
      BY <1>1, <3>1, <3>2 DEF CountFits
    <3>4. scanCount \in Nat /\ scanResult.size \in Int
      BY <1>1 DEF ScanTypeOK
    <3>5. QED
      BY <3>1, <3>3, <3>4
  <2>2. NoArrayLost /\ ResultsOfThisScan
    BY <1>1 DEF ScanInv, NoArrayLost, ResultsOfThisScan
  <2>3. QED
    BY <2>1, <2>2
<1>2. QED
  BY <1>1, ScanTypes, CountFitsAlways, ScanInvariant, PTL

\* The scanning bit is set, or about to be, for a scan that is on its way, or for
\* one whose end has overtaken the call that started it.
ScanningInv ==
    SCANNING \/ pc \in {"stamp", "clear", "set"} => ~ NothingRuns \/ overtaken

\* Whatever order the radio and the two tasks take, the four say of the scan what
\* is true of it.
THEOREM ScanCorrect ==
  ASSUME ScanAssumption
  PROVE  ScanSpec => []ScanAgrees
<1>1. ScanInit => ScanningInv
  BY DEF ScanInit, ScanningInv
<1>2. ASSUME ScanTypeOK, ScanningInv, [ScanNext]_scanVars
      PROVE  ScanningInv'
  <2> USE <1>2 DEF ScanTypeOK, ScanningInv, NothingRuns, Sketch, Task
  <2>1. CASE scanNetworks \/ DeleteFirst
    BY <2>1 DEF scanNetworks, Ready, DeleteFirst
  <2>2. CASE Start \/ Stamp \/ ClearDone \/ SetScanning
    BY <2>2 DEF Start, Stamp, ClearDone, SetScanning
  <2>3. CASE Waited \/ scanComplete \/ scanDelete
    BY <2>3 DEF Waited, scanComplete, scanDelete
  <2>4. CASE RadioDone
    BY <2>4, SMTT(30) DEF RadioDone
  <2>5. CASE scanDone \/ Store \/ Fill \/ Unstamp \/ SetDone
    BY <2>5, SMTT(30) DEF scanDone, Store, Fill, Unstamp, SetDone
  <2>6. CASE ClearScanning
    BY <2>6 DEF ClearScanning, Clear
  <2>7. CASE UNCHANGED scanVars
    BY <2>7 DEF scanVars
  <2>8. QED
    BY <1>2, <2>1, <2>2, <2>3, <2>4, <2>5, <2>6, <2>7 DEF ScanNext
<1>3. ScanningInv => RunningMeansRunning
  BY DEF ScanningInv, RunningMeansRunning
<1>4. QED
  BY <1>1, <1>2, <1>3, ScanTypes, ScanRecordsSafe, PTL DEF ScanSpec, ScanAgrees

-----------------------------------------------------------------------------
(* The modes: what a call makes of the flag and of the driver. *)

DriverType == [on : BOOLEAN, mode : Mode, ap : Config \cup {NoConfig}]
StateType == [started : BOOLEAN, driver : DriverType, ok : BOOLEAN]

\* The flag of the library says whether the driver runs.
Flagged(s) == s \in StateType /\ s.started = s.driver.on

\* The driver is started, or it is not and the call fails.
LEMMA StartKeeps ==
  ASSUME NEW s, Flagged(s), NEW fails
  PROVE  LET r == espWiFiStart(s, fails)
         IN  /\ Flagged(r) /\ r.driver.ap = s.driver.ap
             /\ r.ok => r.started = TRUE /\ s.ok
BY DEF Flagged, StateType, DriverType, espWiFiStart, Told

\* It is stopped, or it is not and the call fails.
LEMMA StopKeeps ==
  ASSUME NEW s, Flagged(s), NEW fails
  PROVE  LET r == espWiFiStop(s, fails)
         IN  /\ Flagged(r) /\ r.driver.ap = s.driver.ap
             /\ r.ok => r.started = FALSE /\ s.ok
BY DEF Flagged, StateType, DriverType, espWiFiStop, Told

\* The mode is set, or it is not and the call fails.
LEMMA SetModeKeeps ==
  ASSUME NEW s, Flagged(s), NEW fails, NEW m \in Mode
  PROVE  LET r == setMode(s, m, fails)
         IN  /\ Flagged(r) /\ r.driver.ap = s.driver.ap
             /\ r.started = s.started
             /\ r.ok => r.driver.mode = m /\ s.ok
BY DEF Flagged, StateType, DriverType, setMode, Told

\* mode() that succeeds leaves the mode it was given.
LEMMA ModeKeeps ==
  ASSUME NEW s, Flagged(s), NEW fails, NEW m \in Mode
  PROVE  LET r == mode(s, m, fails)
         IN  /\ Flagged(r) /\ r.driver.ap = s.driver.ap
             /\ r.ok => getMode(r) = m /\ s.ok
<1>1. CASE getMode(s) = m
  BY <1>1 DEF mode
<1>2. CASE getMode(s) # m /\ m = {}
  BY <1>2, StopKeeps DEF mode, getMode, Flagged, StateType
<1>3. CASE getMode(s) # m /\ m # {}
  <2> DEFINE on == IF getMode(s) = {} THEN espWiFiStart(s, fails) ELSE s
  <2>1. mode(s, m, fails) = IF on.ok THEN setMode(on, m, fails) ELSE on
    BY <1>3 DEF mode
  <2>2. /\ Flagged(on) /\ on.driver.ap = s.driver.ap
        /\ on.ok => on.started = TRUE /\ s.ok
    BY StartKeeps DEF getMode, Flagged, StateType
  <2> HIDE DEF on
  <2>3. QED
    BY <2>1, <2>2, SetModeKeeps DEF getMode, Flagged, StateType
<1>4. QED
  BY <1>1, <1>2, <1>3

\* enableSTA() and enableAP() that succeed change the one interface.
LEMMA EnableKeeps ==
  ASSUME NEW s, Flagged(s), NEW fails, NEW i \in Interface, NEW en \in BOOLEAN
  PROVE  LET r == enable(s, i, en, fails)
         IN  /\ Flagged(r) /\ r.driver.ap = s.driver.ap
             /\ r.ok => /\ getMode(r) \ {i} = getMode(s) \ {i}
                        /\ en => i \in getMode(r)
                        /\ s.ok
<1>0. getMode(s) \in Mode
  BY DEF getMode, Flagged, StateType, DriverType, Mode
<1>1. CASE (i \in getMode(s)) = en
  BY <1>1 DEF enable
<1>2. CASE ~ ((i \in getMode(s)) = en)
  <2> DEFINE m == IF en THEN getMode(s) \cup {i} ELSE getMode(s) \ {i}
  <2>1. enable(s, i, en, fails) = mode(s, m, fails)
    BY <1>2 DEF enable
  <2>2. m \in Mode /\ m \ {i} = getMode(s) \ {i} /\ (en => i \in m)
    BY <1>0 DEF Mode
  <2> HIDE DEF m
  <2>3. QED
    BY <2>1, <2>2, ModeKeeps
<1>3. QED
  BY <1>1, <1>2

\* softAP() that succeeds leaves the access point that was asked for.
LEMMA SoftAPKeeps ==
  ASSUME ModeAssumption, NEW s, Flagged(s), NEW fails, NEW cfg \in Config
  PROVE  LET r == softAP(s, cfg, fails)
         IN  /\ Flagged(r)
             /\ r.ok => "AP" \in getMode(r) /\ r.driver.ap = cfg
<1> DEFINE ap == enable(s, "AP", TRUE, fails)
           r  == softAP(s, cfg, fails)
<1>1. Flagged(ap) /\ (ap.ok => "AP" \in getMode(ap))
  BY EnableKeeps DEF Interface
<1>2. r = IF ~ ap.ok \/ cfg.ssid = "" \/ cfg.password \in TooShort
            THEN Told(ap, FALSE)
          ELSE IF softap_config_equal(cfg, ap.driver.ap) THEN ap
          ELSE IF "config" \in fails THEN Told(ap, FALSE)
          ELSE [ap EXCEPT !.driver.ap = cfg]
  BY DEF softAP
<1>3. softap_config_equal(cfg, ap.driver.ap) => ap.driver.ap = cfg
  <2>1. \A c \in Config \cup {NoConfig} :
          c = [ssid |-> c.ssid, password |-> c.password, channel |-> c.channel]
    <3>1. NoConfig = [ssid |-> NoConfig.ssid, password |-> NoConfig.password,
                      channel |-> NoConfig.channel]
      BY DEF NoConfig
    <3>2. QED
      BY <3>1 DEF ModeAssumption
  <2>2. ap.driver.ap \in Config \cup {NoConfig}
    BY <1>1 DEF Flagged, StateType, DriverType
  <2> HIDE DEF ap
  <2>3. QED
    BY <2>1, <2>2 DEF softap_config_equal
<1> HIDE DEF ap, r
<1>4. QED
  <2>1. CASE r = Told(ap, FALSE)
    BY <1>1, <2>1 DEF Flagged, StateType, Told, r
  <2>2. CASE r = ap /\ ap.ok /\ ap.driver.ap = cfg
    BY <1>1, <2>2 DEF r
  <2>3. CASE r = [ap EXCEPT !.driver.ap = cfg] /\ ap.ok
    BY <1>1, <2>3 DEF Flagged, StateType, DriverType, getMode, r
  <2>4. QED
    BY <1>2, <1>3, <2>1, <2>2, <2>3

\* softAPdisconnect() keeps the flag, whatever it answers.
LEMMA SoftAPdisconnectKeeps ==
  ASSUME NEW s, Flagged(s), NEW fails, NEW off \in BOOLEAN
  PROVE  Flagged(softAPdisconnect(s, off, fails))
<1> DEFINE bare == IF "config" \in fails THEN Told(s, FALSE)
                   ELSE [s EXCEPT !.driver.ap = NoConfig]
           quit == enable([bare EXCEPT !.ok = TRUE], "AP", FALSE, fails)
<1>1. Flagged(bare) /\ Flagged([bare EXCEPT !.ok = TRUE])
  BY DEF Flagged, StateType, DriverType, Told
<1>2. Flagged(quit)
  BY <1>1, EnableKeeps DEF Interface
<1>3. softAPdisconnect(s, off, fails) \in {s, bare, Told(quit, ~ quit.ok)}
  BY DEF softAPdisconnect
<1> HIDE DEF bare, quit
<1>4. Flagged(Told(quit, ~ quit.ok))
  BY <1>2 DEF Flagged, StateType, Told
<1>5. QED
  BY <1>1, <1>3, <1>4

-----------------------------------------------------------------------------
(* The modes: what the calls promise, step by step. *)

\* A driver that is what a call leaves.
ModeTypeOK == Flagged(State)

\* A step is a call, worked out on the state, or the handling of an event.
ModeCall(r, call, arg) ==
    /\ Flagged(r)
    /\ call = "softAP" /\ r.ok => "AP" \in getMode(r) /\ r.driver.ap = arg
    /\ call \in {"enable", "disable"} /\ r.ok =>
         getMode(r) \ arg = getMode(State) \ arg

\* Every call has what it promises.
LEMMA CallsKeep ==
  ASSUME ModeAssumption, ModeTypeOK, ModeNext
  PROVE  \/ eventCallback
         \/ \E r, call, arg : ModeCall(r, call, arg) /\ Done(r, call, arg)
<1> USE DEF ModeTypeOK
<1>1. ASSUME NEW fails, Mode_(fails)
      PROVE  \E r, call, arg : ModeCall(r, call, arg) /\ Done(r, call, arg)
  <2>1. PICK m \in Mode : Done(mode(State, m, fails), "mode", m)
    BY <1>1 DEF Mode_
  <2>2. ModeCall(mode(State, m, fails), "mode", m)
    BY ModeKeeps DEF ModeCall
  <2>3. QED
    BY <2>1, <2>2
<1>2. ASSUME NEW fails, Enable(fails)
      PROVE  \E r, call, arg : ModeCall(r, call, arg) /\ Done(r, call, arg)
  <2>1. PICK i \in Interface, en \in BOOLEAN :
          Done(enable(State, i, en, fails), IF en THEN "enable" ELSE "disable",
               {i})
    BY <1>2 DEF Enable
  <2>2. ModeCall(enable(State, i, en, fails),
                 IF en THEN "enable" ELSE "disable", {i})
    BY EnableKeeps DEF ModeCall
  <2>3. QED
    BY <2>1, <2>2
<1>3. ASSUME NEW fails, SoftAP(fails)
      PROVE  \E r, call, arg : ModeCall(r, call, arg) /\ Done(r, call, arg)
  <2>1. PICK c \in Config : Done(softAP(State, c, fails), "softAP", c)
    BY <1>3 DEF SoftAP
  <2>2. ModeCall(softAP(State, c, fails), "softAP", c)
    BY SoftAPKeeps DEF ModeCall
  <2>3. QED
    BY <2>1, <2>2
<1>4. ASSUME NEW fails, SoftAPdisconnect(fails)
      PROVE  \E r, call, arg : ModeCall(r, call, arg) /\ Done(r, call, arg)
  <2>1. PICK off \in BOOLEAN :
          Done(softAPdisconnect(State, off, fails), "softAPdisconnect", off)
    BY <1>4 DEF SoftAPdisconnect
  <2>2. ModeCall(softAPdisconnect(State, off, fails), "softAPdisconnect", off)
    BY SoftAPdisconnectKeeps DEF ModeCall
  <2>3. QED
    BY <2>1, <2>2
<1>5. QED
  BY <1>1, <1>2, <1>3, <1>4 DEF ModeNext

\* The state after a call is the one that was worked out.
LEMMA CallDone ==
  ASSUME NEW r, NEW call, NEW arg, Flagged(r), Done(r, call, arg)
  PROVE  /\ started' = r.started /\ driver' = r.driver
         /\ last' = [call |-> call, arg |-> arg, ok |-> r.ok]
         /\ ModeTypeOK' /\ getMode(State)' = getMode(r)
BY DEF Done, ModeTypeOK, Flagged, State, StateType, getMode

\* The flag never disagrees with the driver.
THEOREM ModeFlagCorrect ==
  ASSUME ModeAssumption
  PROVE  ModeSpec => [](ModeTypeOK /\ FlagAgrees)
<1>1. ModeInit => ModeTypeOK
  <2> DEFINE d == [on |-> FALSE, mode |-> {"STA"}, ap |-> NoConfig]
  <2>1. d \in DriverType /\ d.on = FALSE
    BY DEF DriverType, Mode, Interface
  <2>2. ModeInit => State = [started |-> FALSE, driver |-> d, ok |-> TRUE]
    BY DEF ModeInit, State
  <2> HIDE DEF d
  <2>3. [started |-> FALSE, driver |-> d, ok |-> TRUE] \in StateType
    BY <2>1 DEF StateType
  <2>4. /\ [started |-> FALSE, driver |-> d, ok |-> TRUE].started = FALSE
        /\ [started |-> FALSE, driver |-> d, ok |-> TRUE].driver = d
    OBVIOUS
  <2>5. QED
    BY <2>1, <2>2, <2>3, <2>4 DEF ModeTypeOK, Flagged
<1>2. ASSUME ModeTypeOK, [ModeNext]_modeVars
      PROVE  ModeTypeOK'
  <2>1. CASE UNCHANGED <<started, driver>>
    BY <1>2, <2>1 DEF ModeTypeOK, State
  <2>2. ASSUME NEW r, NEW call, NEW arg,
               ModeCall(r, call, arg), Done(r, call, arg)
        PROVE  ModeTypeOK'
    BY <2>2, CallDone DEF ModeCall
  <2>3. QED
    BY <1>2, <2>1, <2>2, CallsKeep DEF eventCallback, modeVars
<1>3. ModeTypeOK => FlagAgrees
  BY DEF ModeTypeOK, Flagged, State, FlagAgrees
<1>4. QED
  BY <1>1, <1>2, <1>3, PTL DEF ModeSpec

\* What softAP() answers holds until another call is made.
LEMMA SoftAPCorrect ==
  ASSUME ModeAssumption
  PROVE  ModeSpec => []SoftAPStands
<1>1. ModeInit => SoftAPStands
  BY DEF ModeInit, SoftAPStands
<1>2. ASSUME ModeTypeOK, SoftAPStands, [ModeNext]_modeVars
      PROVE  SoftAPStands'
  <2>1. CASE UNCHANGED <<started, driver, last>>
    BY <1>2, <2>1 DEF SoftAPStands, State
  <2>2. ASSUME NEW r, NEW call, NEW arg,
               ModeCall(r, call, arg), Done(r, call, arg)
        PROVE  SoftAPStands'
    BY <2>2, CallDone DEF ModeCall, SoftAPStands
  <2>3. QED
    BY <1>2, <2>1, <2>2, CallsKeep DEF eventCallback, modeVars
<1>3. QED
  BY <1>1, <1>2, ModeFlagCorrect, PTL DEF ModeSpec

\* enableSTA() and enableAP() that succeed leave the other interface alone,
\* whatever the driver did before.
THEOREM InterfacesIndependent ==
  ASSUME ModeAssumption
  PROVE  ModeSpec => OtherInterfaceKept
<1> DEFINE Kept == last'.call \in {"enable", "disable"} /\ last'.ok =>
                     getMode(State)' \ last'.arg = getMode(State) \ last'.arg
<1>1. ASSUME ModeTypeOK, [ModeNext]_modeVars
      PROVE  Kept \/ UNCHANGED <<driver, last>>
  <2>1. ASSUME NEW r, NEW call, NEW arg,
               ModeCall(r, call, arg), Done(r, call, arg)
        PROVE  Kept
    BY <2>1, CallDone DEF ModeCall
  <2>2. QED
    BY <1>1, <2>1, CallsKeep DEF eventCallback, modeVars
<1>2. QED
  BY <1>1, ModeFlagCorrect, PTL DEF ModeSpec, OtherInterfaceKept

-----------------------------------------------------------------------------
(* The modes: the events that wait against the bits. *)

ModeEvent == Interface \X BOOLEAN

\* The last event of an interface in a queue says whether it is among those
\* that run; if there is none, its bit says so.
Settles(q, i, run) ==
    \/ (\A k \in 1 .. Len(q) : q[k][1] # i) /\ (i \in bits <=> i \in run)
    \/ \E k \in 1 .. Len(q) :
         /\ q[k][1] = i /\ (q[k][2] = TRUE <=> i \in run)
         /\ \A l \in k + 1 .. Len(q) : q[l][1] # i

\* When the events that wait are handled, the bits say what runs.
BitsInv ==
    /\ modeQueue \in Seq(ModeEvent) /\ bits \subseteq Interface
    /\ \A i \in Interface : Settles(modeQueue, i, Running(driver))

\* An event decides for its own interface and changes nothing for another.
LEMMA EventAppended ==
  ASSUME NEW q \in Seq(ModeEvent), NEW i, NEW j \in Interface, NEW v \in BOOLEAN,
         NEW old, NEW new, i # j => Settles(q, i, old),
         v = TRUE <=> j \in new
  PROVE  LET r == q \o <<<<j, v>>>>
         IN  /\ r \in Seq(ModeEvent)
             /\ IF i = j THEN Settles(r, i, new) ELSE Settles(r, i, old)
<1> DEFINE r == q \o <<<<j, v>>>>
<1>0. <<j, v>> \in ModeEvent
  BY DEF ModeEvent
<1>1. /\ r \in Seq(ModeEvent) /\ Len(r) = Len(q) + 1 /\ Len(q) \in Nat
      /\ r[Len(q) + 1] = <<j, v>>
      /\ \A k \in 1 .. Len(q) : r[k] = q[k]
  BY <1>0
<1> HIDE DEF r
<1>2. CASE i = j
  <2>1. Len(q) + 1 \in 1 .. Len(r)
    BY <1>1
  <2>2. r[Len(q) + 1][1] = i /\ r[Len(q) + 1][2] = v
    BY <1>1, <1>2
  <2>3. \A l \in (Len(q) + 1) + 1 .. Len(r) : r[l][1] # i
    BY <1>1
  <2>4. Settles(r, i, new)
    BY <1>2, <2>1, <2>2, <2>3 DEF Settles
  <2>5. QED
    BY <1>1, <1>2, <2>4 DEF r
<1>3. CASE i # j
  <2>1. CASE /\ \A k \in 1 .. Len(q) : q[k][1] # i
             /\ i \in bits <=> i \in old
    <3>1. \A k \in 1 .. Len(r) : r[k][1] # i
      BY <1>1, <1>3, <2>1
    <3>2. QED
      BY <1>1, <1>3, <2>1, <3>1 DEF Settles, r
  <2>2. ASSUME NEW k \in 1 .. Len(q), q[k][1] = i,
               q[k][2] = TRUE <=> i \in old,
               \A l \in k + 1 .. Len(q) : q[l][1] # i
        PROVE  Settles(r, i, old)
    <3>1. k \in 1 .. Len(r) /\ r[k] = q[k]
      BY <1>1, <2>2
    <3>2. \A l \in k + 1 .. Len(r) : r[l][1] # i
      <4> SUFFICES ASSUME NEW l \in k + 1 .. Len(r)
                   PROVE  r[l][1] # i
        OBVIOUS
      <4>1. CASE l = Len(q) + 1
        BY <1>1, <1>3, <4>1
      <4>2. CASE l # Len(q) + 1
        BY <1>1, <2>2, <4>2
      <4>3. QED
        BY <4>1, <4>2
    <3>3. QED
      BY <2>2, <3>1, <3>2 DEF Settles
  <2>3. QED
    BY <1>1, <1>3, <2>1, <2>2 DEF Settles, r
<1>4. QED
  BY <1>2, <1>3

\* What a call appends for the interfaces, one after the other.
LEMMA EventsSettle ==
  ASSUME NEW old \in Mode, NEW new \in Mode, NEW q \in Seq(ModeEvent),
         \A i \in Interface : Settles(q, i, old)
  PROVE  LET e == Events(old, new)
             r == q \o e["STA"] \o e["AP"]
         IN  /\ r \in Seq(ModeEvent)
             /\ \A i \in Interface : Settles(r, i, new)
<1> DEFINE e == Events(old, new)
           s == q \o e["STA"]
           r == s \o e["AP"]
<1>1. ASSUME NEW p \in Seq(ModeEvent), NEW j \in Interface, NEW i \in Interface,
             NEW run, Settles(p, i, run), i = j => run = old
      PROVE  LET w == p \o e[j]
             IN  /\ w \in Seq(ModeEvent)
                 /\ IF i = j THEN Settles(w, i, new) ELSE Settles(w, i, run)
  <2>1. CASE j \in new \ old
    <3>1. e[j] = <<<<j, TRUE>>>>
      BY <2>1 DEF Events, Interface
    <3> HIDE DEF e
    <3>2. QED
      BY <1>1, <2>1, <3>1, EventAppended
  <2>2. CASE j \in old \ new
    <3>1. e[j] = <<<<j, FALSE>>>>
      BY <2>2 DEF Events, Interface
    <3> HIDE DEF e
    <3>2. QED
      BY <1>1, <2>2, <3>1, EventAppended
  <2>3. CASE j \in old <=> j \in new
    <3>1. e[j] = <<>>
      BY <2>3 DEF Events, Interface
    <3>2. p \o e[j] = p
      BY <3>1
    <3>3. QED
      BY <1>1, <2>3, <3>2 DEF Settles
  <2>4. QED
    BY <2>1, <2>2, <2>3
<1>2. "STA" \in Interface /\ "AP" \in Interface /\ "STA" # "AP"
  BY DEF Interface
<1> HIDE DEF e
<1>3. s \in Seq(ModeEvent) /\ Settles(s, "STA", new) /\ Settles(s, "AP", old)
  BY <1>1, <1>2
<1> HIDE DEF s
<1>4. r \in Seq(ModeEvent) /\ Settles(r, "STA", new) /\ Settles(r, "AP", new)
  BY <1>1, <1>2, <1>3
<1>5. QED
  BY <1>4 DEF e, s, Interface

\* The bits agree with the driver whenever no event waits.
LEMMA BitsCorrect ==
  ASSUME ModeAssumption
  PROVE  ModeSpec => []BitsAgree
<1>1. ModeInit => BitsInv
  BY DEF ModeInit, BitsInv, Settles, Running
<1>2. ASSUME ModeTypeOK, BitsInv, [ModeNext]_modeVars
      PROVE  BitsInv'
  <2>1. CASE UNCHANGED modeVars
    BY <1>2, <2>1 DEF BitsInv, modeVars, Settles
  <2>2. ASSUME NEW r, NEW call, NEW arg,
               ModeCall(r, call, arg), Done(r, call, arg)
        PROVE  BitsInv'
    <3> DEFINE e == Events(Running(driver), Running(r.driver))
    <3>1. Running(driver) \in Mode /\ Running(r.driver) \in Mode
      BY <1>2, <2>2 DEF ModeTypeOK, ModeCall, Flagged, State, StateType,
                        DriverType, Running, Mode
    <3>2. /\ modeQueue' = modeQueue \o e["STA"] \o e["AP"]
          /\ bits' = bits /\ driver' = r.driver
      BY <2>2 DEF Done
    <3> HIDE DEF e
    <3>3. /\ modeQueue' \in Seq(ModeEvent)
          /\ \A i \in Interface : Settles(modeQueue', i, Running(r.driver))
      BY <1>2, <3>1, <3>2, EventsSettle DEF BitsInv, e
    <3>4. \A i \in Interface : Settles(modeQueue, i, Running(driver))'
      <4> SUFFICES ASSUME NEW i \in Interface
                   PROVE  Settles(modeQueue, i, Running(driver))'
        OBVIOUS
      <4> DEFINE run == Running(r.driver)
                 q   == modeQueue'
      <4>1. Settles(q, i, run)
        BY <3>3
      <4>2. i \in Running(driver)' <=> i \in run
        BY <3>2 DEF Running
      <4> HIDE DEF run
      <4>3. \/ /\ \A k \in 1 .. Len(q) : q[k][1] # i
               /\ i \in bits' <=> i \in run
            \/ \E k \in 1 .. Len(q) :
                 /\ q[k][1] = i /\ (q[k][2] = TRUE <=> i \in run)
                 /\ \A l \in k + 1 .. Len(q) : q[l][1] # i
        BY <3>2, <4>1 DEF Settles
      <4>4. QED
        BY <4>2, <4>3 DEF Settles
    <3>5. QED
      BY <1>2, <3>2, <3>3, <3>4 DEF BitsInv
  <2>3. CASE eventCallback
    <3> DEFINE i == Head(modeQueue)[1]
               v == Head(modeQueue)[2]
               q == Tail(modeQueue)
    <3>1. /\ modeQueue # <<>> /\ modeQueue' = q /\ driver' = driver
          /\ bits' = IF v THEN bits \cup {i} ELSE bits \ {i}
      BY <2>3 DEF eventCallback
    <3>2. /\ i = modeQueue[1][1] /\ v = modeQueue[1][2]
          /\ i \in Interface /\ v \in BOOLEAN
          /\ q \in Seq(ModeEvent) /\ Len(q) = Len(modeQueue) - 1
          /\ Len(modeQueue) \in Nat \ {0}
          /\ \A k \in 1 .. Len(q) : q[k] = modeQueue[k + 1]
      BY <1>2, <3>1 DEF BitsInv, ModeEvent
    <3> HIDE DEF i, v, q
    <3>3. bits' \subseteq Interface
      BY <1>2, <3>1, <3>2 DEF BitsInv
    <3>a. bits' = IF v = TRUE THEN bits \cup {i} ELSE bits \ {i}
      BY <3>1, <3>2
    <3>4. ASSUME NEW j \in Interface
          PROVE  Settles(modeQueue, j, Running(driver))'
      <4> DEFINE run == Running(driver)
      <4>1. Settles(modeQueue, j, run)
        BY <1>2 DEF BitsInv
      <4>2. SUFFICES \/ /\ \A k \in 1 .. Len(q) : q[k][1] # j
                        /\ j \in bits' <=> j \in run
                     \/ \E k \in 1 .. Len(q) :
                          /\ q[k][1] = j /\ (q[k][2] = TRUE <=> j \in run)
                          /\ \A l \in k + 1 .. Len(q) : q[l][1] # j
        BY <3>1 DEF Settles
      <4> HIDE DEF run
      <4>3. CASE /\ \A k \in 1 .. Len(modeQueue) : modeQueue[k][1] # j
                 /\ j \in bits <=> j \in run
        <5>1. \A k \in 1 .. Len(q) : q[k][1] # j
          BY <3>2, <4>3
        <5>2. j # i
          BY <3>2, <4>3
        <5>3. j \in bits' <=> j \in run
          BY <3>a, <4>3, <5>2
        <5>4. QED
          BY <5>1, <5>3
      <4>4. ASSUME NEW k \in 1 .. Len(modeQueue), modeQueue[k][1] = j,
                   modeQueue[k][2] = TRUE <=> j \in run,
                   \A l \in k + 1 .. Len(modeQueue) : modeQueue[l][1] # j
            PROVE  \/ /\ \A n \in 1 .. Len(q) : q[n][1] # j
                      /\ j \in bits' <=> j \in run
                   \/ \E n \in 1 .. Len(q) :
                        /\ q[n][1] = j /\ (q[n][2] = TRUE <=> j \in run)
                        /\ \A l \in n + 1 .. Len(q) : q[l][1] # j
        <5>1. CASE k = 1
          <6>1. \A n \in 1 .. Len(q) : q[n][1] # j
            BY <3>2, <4>4, <5>1
          <6>2. i = j /\ (v = TRUE <=> j \in run)
            BY <3>2, <4>4, <5>1
          <6>3. j \in bits' <=> j \in run
            BY <3>a, <6>2
          <6>4. QED
            BY <6>1, <6>3
        <5>2. CASE k # 1
          <6>1. k - 1 \in 1 .. Len(q) /\ q[k - 1] = modeQueue[k]
            BY <3>2, <5>2
          <6>2. \A l \in (k - 1) + 1 .. Len(q) : q[l][1] # j
            <7> SUFFICES ASSUME NEW l \in (k - 1) + 1 .. Len(q)
                         PROVE  q[l][1] # j
              OBVIOUS
            <7>1. l + 1 \in k + 1 .. Len(modeQueue) /\ l \in 1 .. Len(q)
              BY <3>2
            <7>2. QED
              BY <3>2, <4>4, <7>1
          <6>3. QED
            BY <4>4, <6>1, <6>2
        <5>3. QED
          BY <5>1, <5>2
      <4>5. QED
        BY <4>1, <4>3, <4>4 DEF Settles
    <3>5. QED
      BY <3>1, <3>2, <3>3, <3>4 DEF BitsInv
  <2>4. QED
    BY <1>2, <2>1, <2>2, <2>3, CallsKeep
<1>3. ASSUME ModeTypeOK, BitsInv
      PROVE  BitsAgree
  <2> SUFFICES ASSUME modeQueue = <<>>
               PROVE  bits = Running(driver)
    BY DEF BitsAgree
  <2>1. Running(driver) \subseteq Interface
    BY <1>3 DEF ModeTypeOK, Flagged, State, StateType, DriverType, Running,
                Mode
  <2>2. \A i \in Interface : i \in bits <=> i \in Running(driver)
    BY <1>3 DEF BitsInv, Settles
  <2>3. QED
    BY <1>3, <2>1, <2>2 DEF BitsInv
<1>4. QED
  BY <1>1, <1>2, <1>3, ModeFlagCorrect, PTL DEF ModeSpec

\* The flag, the bits and what softAP() answers agree with the driver, whichever
\* of its calls have failed.
THEOREM ModesCorrect ==
  ASSUME ModeAssumption
  PROVE  ModeSpec => []ModesAgree
BY ModeFlagCorrect, SoftAPCorrect, BitsCorrect, PTL DEF ModesAgree
-----------------------------------------------------------------------------
(* Looking names up: any tasks, and answers in time or long after it. *)

LookupTypeOK ==
    /\ calls \in Nat
    /\ dnsPc \in [Callers ->
                    {"idle", "entry", "clear", "ask", "wait", "take", "leave"}]
    /\ dnsCall \in [Callers -> 0 .. calls]
    /\ aResult \in [Callers -> Nat]
    /\ told \in [Callers -> [call : 0 .. calls, address : Nat]]
    /\ found \subseteq 1 .. calls
    /\ asked \subseteq Callers \X (1 .. calls)

\* A call belongs to one task, and what that was told is of an earlier call until
\* the call returns.
Owned ==
    /\ \A t \in Callers : dnsPc[t] # "idle" => dnsCall[t] # 0
    /\ \A t, u \in Callers :
          /\ dnsCall[t] # 0 /\ dnsCall[t] = dnsCall[u] => t = u
          /\ told[u].call # 0 /\ told[u].call = dnsCall[t] =>
                t = u /\ dnsPc[t] = "idle"

\* A lookup that is not answered yet is of a call that waits, or is overdue; the
\* variable of a call holds its own address or that of an overdue one.
Written ==
    /\ \A t \in Callers, c \in Nat : <<t, c>> \in asked =>
          \/ <<t, c>> \in overdue
          \/ dnsCall[t] = c /\ dnsPc[t] \in {"wait", "take", "leave"}
    /\ \A t \in Callers :
          /\ aResult[t] \in {0, dnsCall[t]} \/ <<t, aResult[t]>> \in overdue
          /\ dnsCall[t] \in found => aResult[t] # 0

\* With nothing left of other lookups, one task is past the idle bit, the resolver
\* has at most its lookup, and the done bit is set for it.
Apart ==
    /\ \A t, u \in Callers : Inside(t) /\ Inside(u) => t = u
    /\ \A l \in asked : \E t \in Callers :
          l = <<t, dnsCall[t]>> /\ dnsPc[t] = "wait"
    /\ DNS_DONE => asked = {} /\ \E t \in Callers : dnsPc[t] \in {"wait", "take"}

LookupInv == Owned /\ Written /\ RightAddress /\ FoundIsReturned

LEMMA LookupTypes ==
  ASSUME LookupAssumption, LookupTypeOK, Owned, [LookupNext]_lookupVars
  PROVE  LookupTypeOK'
<1> USE DEF LookupTypeOK
<1>1. ASSUME NEW t \in Callers, hostByName(t)
      PROVE  LookupTypeOK'
  <2>1. calls' = calls + 1 /\ UNCHANGED <<asked, told, found>>
    BY <1>1 DEF hostByName
  <2>2. asked' \subseteq Callers \X (1 .. calls')
    BY <2>1
  <2>3. /\ dnsPc' = [dnsPc EXCEPT ![t] = "entry"]
        /\ dnsCall' = [dnsCall EXCEPT ![t] = calls + 1]
        /\ aResult' = [aResult EXCEPT ![t] = 0]
    BY <1>1 DEF hostByName, At
  <2>4. /\ dnsCall' \in [Callers -> 0 .. calls']
        /\ aResult' \in [Callers -> Nat]
        /\ dnsPc' \in [Callers ->
                    {"idle", "entry", "clear", "ask", "wait", "take", "leave"}]
    BY <2>1, <2>3
  <2>5. told' \in [Callers -> [call : 0 .. calls', address : Nat]]
    BY <2>1
  <2>6. QED
    BY <2>1, <2>2, <2>4, <2>5
<1>2. ASSUME NEW t \in Callers, Step(t)
      PROVE  LookupTypeOK'
  <2>1. CASE Enter(t) \/ ClearIdle(t) \/ Answered(t) \/ Take(t)
    BY <2>1 DEF Enter, ClearIdle, Answered, Take, At
  <2>2. CASE Ask(t)
    <3>1. /\ dnsPc[t] = "ask" /\ UNCHANGED <<dnsCall, told, calls>>
          /\ \/ dnsPc' = [dnsPc EXCEPT ![t] = "leave"]
             \/ dnsPc' = [dnsPc EXCEPT ![t] = "wait"]
          /\ aResult' \in {aResult, [aResult EXCEPT ![t] = dnsCall[t]]}
          /\ found' \in {found, found \cup {dnsCall[t]}}
          /\ asked' \in {asked, asked \cup {<<t, dnsCall[t]>>}}
      BY <2>2 DEF Ask, At, Cached
    <3>2. dnsCall[t] \in 1 .. calls
      BY <3>1 DEF Owned
    <3>3. found' \subseteq 1 .. calls /\ asked' \subseteq Callers \X (1 .. calls)
      BY <3>1, <3>2
    <3>4. aResult' \in [Callers -> Nat]
      BY <3>1, <3>2
    <3>5. QED
      BY <3>1, <3>3, <3>4
  <2>3. CASE Return(t)
    BY <2>3 DEF Return, At, Leave
  <2>4. QED
    BY <1>2, <2>1, <2>2, <2>3 DEF Step
<1>3. ASSUME NEW t \in Callers, NEW c \in 1 .. MaxCalls, Answer(t, c)
      PROVE  LookupTypeOK'
  <2>1. /\ <<t, c>> \in asked /\ asked' \subseteq asked
        /\ UNCHANGED <<dnsPc, dnsCall, told, calls>>
        /\ aResult' \in {aResult, [aResult EXCEPT ![t] = c]}
        /\ found' \in {found, found \cup {c}}
    BY <1>3 DEF Answer
  <2>2. c \in 1 .. calls
    BY <2>1
  <2>3. QED
    BY <2>1, <2>2
<1>4. CASE UNCHANGED lookupVars
  BY <1>4 DEF lookupVars
<1>5. QED
  BY <1>1, <1>2, <1>3, <1>4 DEF LookupNext

\* Steps that give out no call and tell nothing keep the owners.
LEMMA OwnedStep ==
  ASSUME LookupTypeOK, Owned, [LookupNext]_lookupVars
  PROVE  Owned'
<1>1. ASSUME NEW t \in Callers, hostByName(t)
      PROVE  Owned'
  <2>1. /\ dnsPc[t] = "idle" /\ dnsPc' = [dnsPc EXCEPT ![t] = "entry"]
        /\ dnsCall' = [dnsCall EXCEPT ![t] = calls + 1] /\ told' = told
    BY <1>1 DEF hostByName, At
  <2>2. \A u \in Callers : /\ dnsCall[u] \in 0 .. calls
                           /\ told[u].call \in 0 .. calls
    BY DEF LookupTypeOK
  <2>3. \A u \in Callers : /\ dnsCall'[u] = IF u = t THEN calls + 1 ELSE dnsCall[u]
                           /\ dnsPc'[u] = IF u = t THEN "entry" ELSE dnsPc[u]
    BY <2>1 DEF LookupTypeOK
  <2>4. calls \in Nat
    BY DEF LookupTypeOK
  <2>5. QED
    BY <2>1, <2>2, <2>3, <2>4 DEF Owned
<1>2. ASSUME NEW t \in Callers,
             Enter(t) \/ ClearIdle(t) \/ Ask(t) \/ Answered(t) \/ Take(t)
      PROVE  Owned'
  <2>1. dnsPc[t] # "idle" /\ UNCHANGED <<dnsCall, told>>
    BY <1>2 DEF Enter, ClearIdle, Ask, Answered, Take, At
  <2>2. \A u \in Callers \ {t} : dnsPc'[u] = dnsPc[u]
    BY <1>2 DEF Enter, ClearIdle, Ask, Answered, Take, At, LookupTypeOK
  <2>3. QED
    BY <2>1, <2>2 DEF Owned
<1>3. ASSUME NEW t \in Callers, Return(t)
      PROVE  Owned'
  <2>1. /\ dnsPc[t] = "leave" /\ dnsCall' = dnsCall
        /\ \A u \in Callers : /\ told'[u].call = IF u = t THEN dnsCall[t]
                                                 ELSE told[u].call
                              /\ dnsPc'[u] = IF u = t THEN "idle" ELSE dnsPc[u]
    BY <1>3 DEF Return, At, LookupTypeOK
  <2>2. QED
    BY <2>1 DEF Owned
<1>4. ASSUME NEW t \in Callers, NEW c \in 1 .. MaxCalls, Answer(t, c)
      PROVE  Owned'
  BY <1>4 DEF Answer, Owned
<1>5. CASE UNCHANGED lookupVars
  BY <1>5 DEF lookupVars, Owned
<1>6. QED
  BY <1>1, <1>2, <1>3, <1>4, <1>5 DEF LookupNext, Step

\* What is written is the caller's own, now or from an overdue call.
LEMMA WrittenStep ==
  ASSUME LookupTypeOK, LookupInv, [LookupNext]_lookupVars
  PROVE  Written' /\ RightAddress' /\ FoundIsReturned'
<1> USE DEF LookupTypeOK, LookupInv
<1>1. ASSUME NEW t \in Callers, hostByName(t)
      PROVE  Written' /\ RightAddress' /\ FoundIsReturned'
  <2>1. /\ dnsPc[t] = "idle"
        /\ UNCHANGED <<asked, overdue, told, found>>
        /\ \A u \in Callers :
             /\ dnsCall'[u] = IF u = t THEN calls + 1 ELSE dnsCall[u]
             /\ aResult'[u] = IF u = t THEN 0 ELSE aResult[u]
             /\ dnsPc'[u] = IF u = t THEN "entry" ELSE dnsPc[u]
    BY <1>1 DEF hostByName, At
  <2>2. calls + 1 \notin found
    OBVIOUS
  <2>3. QED
    BY <2>1, <2>2 DEF Written, RightAddress, FoundIsReturned
<1>2. ASSUME NEW t \in Callers, Enter(t) \/ ClearIdle(t) \/ Answered(t) \/ Take(t)
      PROVE  Written' /\ RightAddress' /\ FoundIsReturned'
  <2>1. /\ UNCHANGED <<asked, overdue, told, found, dnsCall, aResult>>
        /\ \A u \in Callers :
             dnsPc[u] \in {"wait", "take", "leave"}
               => dnsPc'[u] \in {"wait", "take", "leave"}
    BY <1>2 DEF Enter, ClearIdle, Answered, Take, At
  <2>2. QED
    BY <2>1 DEF Written, RightAddress, FoundIsReturned
<1>3. ASSUME NEW t \in Callers, Ask(t)
      PROVE  Written' /\ RightAddress' /\ FoundIsReturned'
  <2>1. /\ dnsPc[t] = "ask" /\ dnsPc'[t] \in {"wait", "leave"}
        /\ UNCHANGED <<dnsCall, told, overdue>>
        /\ \A u \in Callers \ {t} : /\ dnsPc'[u] = dnsPc[u]
                                    /\ aResult'[u] = aResult[u]
    BY <1>3 DEF Ask, At, Cached
  <2>2. \/ asked' = asked
        \/ asked' = asked \cup {<<t, dnsCall[t]>>} /\ dnsPc'[t] = "wait"
    BY <1>3 DEF Ask, At
  <2>3. \/ aResult'[t] = dnsCall[t] /\ found' = found \cup {dnsCall[t]}
        \/ aResult' = aResult /\ found' = found
    BY <1>3 DEF Ask, Cached
  <2>4. /\ dnsCall[t] # 0
        /\ \A u \in Callers : /\ dnsCall[u] = dnsCall[t] => u = t
                              /\ told[u].call # dnsCall[t]
    BY <2>1 DEF Owned
  <2>5. Written'
    BY <2>1, <2>2, <2>3, <2>4 DEF Written
  <2>6. RightAddress' /\ FoundIsReturned'
    BY <2>1, <2>3, <2>4 DEF RightAddress, FoundIsReturned
  <2>7. QED
    BY <2>5, <2>6
<1>4. ASSUME NEW t \in Callers, Return(t)
      PROVE  Written' /\ RightAddress' /\ FoundIsReturned'
  <2>1. /\ dnsPc[t] = "leave" /\ overdue \subseteq overdue'
        /\ <<t, dnsCall[t]>> \in asked => <<t, dnsCall[t]>> \in overdue'
        /\ UNCHANGED <<dnsCall, aResult, asked, found>>
        /\ \A u \in Callers :
             /\ dnsPc'[u] = IF u = t THEN "idle" ELSE dnsPc[u]
             /\ told'[u] = IF u = t THEN [call |-> dnsCall[t], address |-> aResult[t]]
                           ELSE told[u]
    BY <1>4 DEF Return, At
  <2>2. Written'
    BY <2>1 DEF Written
  <2>3. RightAddress'
    <3> SUFFICES ASSUME NEW u \in Callers
                 PROVE  \/ told'[u].address \in {0, told'[u].call}
                        \/ <<u, told'[u].address>> \in overdue'
      BY DEF RightAddress
    <3>1. CASE u = t
      <4>1. told'[u].address = aResult[t] /\ told'[u].call = dnsCall[t]
        BY <2>1, <3>1
      <4>2. aResult[t] \in {0, dnsCall[t]} \/ <<t, aResult[t]>> \in overdue
        BY DEF Written
      <4>3. QED
        BY <2>1, <3>1, <4>1, <4>2
    <3>2. CASE u # t
      BY <2>1, <3>2 DEF RightAddress
    <3>3. QED
      BY <3>1, <3>2
  <2>4. FoundIsReturned'
    <3> SUFFICES ASSUME NEW u \in Callers, told'[u].call \in found
                 PROVE  told'[u].address # 0
      BY <2>1 DEF FoundIsReturned
    <3>1. CASE u = t
      <4>1. told'[u].address = aResult[t] /\ told'[u].call = dnsCall[t]
        BY <2>1, <3>1
      <4>2. dnsCall[t] \in found => aResult[t] # 0
        BY DEF Written
      <4>3. QED
        BY <4>1, <4>2
    <3>2. CASE u # t
      BY <2>1, <3>2 DEF FoundIsReturned
    <3>3. QED
      BY <3>1, <3>2
  <2>5. QED
    BY <2>2, <2>3, <2>4
<1>5. ASSUME NEW t \in Callers, NEW c \in 1 .. MaxCalls, Answer(t, c)
      PROVE  Written' /\ RightAddress' /\ FoundIsReturned'
  <2>1. /\ <<t, c>> \in asked /\ asked' \subseteq asked
        /\ UNCHANGED <<dnsPc, dnsCall, told, overdue>>
        /\ \A u \in Callers \ {t} : aResult'[u] = aResult[u]
        /\ aResult'[t] \in {aResult[t], c}
    BY <1>5 DEF Answer
  <2>2. CASE <<t, c>> \in overdue
    <3>1. found' = found /\ c # 0
      BY <1>5, <2>2 DEF Answer
    <3>2. QED
      BY <2>1, <2>2, <3>1 DEF Written, RightAddress, FoundIsReturned
  <2>3. CASE <<t, c>> \notin overdue
    <3>1. dnsCall[t] = c /\ dnsPc[t] # "idle" /\ c # 0
      BY <2>1, <2>3 DEF Written
    <3>2. \A u \in Callers : /\ dnsCall[u] = c => u = t
                             /\ told[u].call # c
      BY <3>1 DEF Owned
    <3>3. \/ aResult'[t] = c /\ found' = found \cup {c}
          \/ aResult' = aResult /\ found' = found
      BY <1>5, <2>3 DEF Answer
    <3>4. QED
      BY <2>1, <3>1, <3>2, <3>3 DEF Written, RightAddress, FoundIsReturned
  <2>4. QED
    BY <2>2, <2>3
<1>6. CASE UNCHANGED lookupVars
  BY <1>6 DEF lookupVars, Written, RightAddress, FoundIsReturned
<1>7. QED
  BY <1>1, <1>2, <1>3, <1>4, <1>5, <1>6 DEF LookupNext, Step

\* The bits keep the tasks apart until a lookup is given up or two tasks pass the
\* idle bit at once, and again after everything of those has come to its end.
LEMMA ApartStep ==
  ASSUME LookupTypeOK, ~ astray => Apart, [LookupNext]_lookupVars, ~ astray'
  PROVE  Apart'
<1> USE DEF LookupTypeOK
<1>1. ASSUME NEW t \in Callers, hostByName(t)
      PROVE  Apart'
  <2>1. Apart /\ UNCHANGED asked /\ (DNS_DONE' <=> DNS_DONE)
    BY <1>1 DEF hostByName
  <2>2. \A u \in Callers :
           /\ Inside(u)' => Inside(u)
           /\ Inside(u) => dnsPc'[u] = dnsPc[u] /\ dnsCall'[u] = dnsCall[u]
    BY <1>1 DEF hostByName, At, Inside
  <2>3. \A u \in Callers : dnsPc[u] \in {"wait", "take"} => Inside(u)
    BY DEF Inside
  <2>4. QED
    BY <2>1, <2>2, <2>3 DEF Apart
<1>2. ASSUME NEW t \in Callers, Enter(t)
      PROVE  Apart'
  <2>1. /\ dnsPc[t] = "entry" /\ UNCHANGED <<asked, dnsCall>>
        /\ (DNS_DONE' <=> DNS_DONE)
        /\ \A u \in Callers : dnsPc'[u] = IF u = t THEN "clear" ELSE dnsPc[u]
    BY <1>2 DEF Enter, At
  <2>2. ~ \E u \in Callers \ {t} : Inside(u)
    BY <1>2 DEF Enter
  <2>3. ~ astray \/ (asked = {} /\ ~ DNS_DONE)
    BY <1>2, <2>2 DEF Enter
  <2>4. ~ \E u \in Callers : dnsPc[u] \in {"wait", "take"}
    BY <2>1, <2>2 DEF Inside
  <2>5. asked = {} /\ ~ DNS_DONE
    BY <2>3, <2>4 DEF Apart
  <2>6. \A u \in Callers : Inside(u)' => u = t
    BY <2>1, <2>2 DEF Inside
  <2>7. QED
    BY <2>1, <2>5, <2>6 DEF Apart
<1>3. ASSUME NEW t \in Callers, ClearIdle(t) \/ Ask(t) \/ Answered(t) \/ Take(t)
             \/ Return(t)
      PROVE  Apart'
  <2>0. ~ astray
    BY <1>3, Zenon DEF ClearIdle, Ask, Answered, Take, Return
  <2>a. dnsCall' = dnsCall
    BY <1>3, Zenon DEF ClearIdle, Ask, Answered, Take, Return
  <2>b. \E a \in {"clear", "ask", "wait", "take", "leave"},
             b \in {"idle", "ask", "wait", "take", "leave"} : At(t, a, b)
    BY <1>3 DEF ClearIdle, Ask, Answered, Take, Return
  <2>1. /\ ~ astray /\ Inside(t) /\ dnsCall' = dnsCall
        /\ \A u \in Callers \ {t} : dnsPc'[u] = dnsPc[u]
    BY <2>0, <2>a, <2>b DEF At, Inside
  <2>2. \A u \in Callers \ {t} : ~ Inside(u) /\ ~ Inside(u)'
    BY <2>1 DEF Apart, Inside
  <2>3. dnsPc[t] # "wait" => asked = {}
    BY <2>1, <2>2 DEF Apart, Inside
  <2>4. dnsPc[t] \notin {"wait", "take"} => ~ DNS_DONE
    BY <2>1, <2>2 DEF Apart, Inside
  <2>5. CASE ClearIdle(t) \/ Return(t)
    <3>1. /\ dnsPc[t] \in {"clear", "leave"} /\ UNCHANGED asked
          /\ (DNS_DONE' <=> DNS_DONE)
      BY <2>5 DEF ClearIdle, Return, At
    <3>2. QED
      BY <2>2, <2>3, <2>4, <3>1 DEF Apart
  <2>6. CASE Ask(t)
    <3>1. /\ dnsPc[t] = "ask" /\ (DNS_DONE' <=> DNS_DONE)
          /\ \/ asked' = asked
             \/ asked' = asked \cup {<<t, dnsCall[t]>>} /\ dnsPc'[t] = "wait"
      BY <2>6 DEF Ask, At
    <3>2. QED
      BY <2>1, <2>2, <2>3, <2>4, <3>1 DEF Apart
  <2>7. CASE Answered(t)
    <3>1. /\ dnsPc'[t] = "take" /\ UNCHANGED asked /\ (DNS_DONE' <=> DNS_DONE)
          /\ DNS_DONE
      BY <2>7 DEF Answered, At
    <3>2. asked = {}
      BY <2>1, <3>1 DEF Apart
    <3>3. QED
      BY <2>2, <3>1, <3>2 DEF Apart
  <2>8. CASE Take(t)
    <3>1. dnsPc[t] = "take" /\ UNCHANGED asked /\ ~ DNS_DONE'
      BY <2>8 DEF Take, At, DoneTaken
    <3>2. QED
      BY <2>2, <2>3, <3>1 DEF Apart
  <2>9. QED
    BY <1>3, <2>5, <2>6, <2>7, <2>8
<1>4. ASSUME NEW t \in Callers, NEW c \in 1 .. MaxCalls, Answer(t, c)
      PROVE  Apart'
  <2>1. /\ ~ astray /\ <<t, c>> \in asked /\ asked' = asked \ {<<t, c>>}
        /\ UNCHANGED <<dnsPc, dnsCall>>
    BY <1>4 DEF Answer
  <2>2. PICK u \in Callers : <<t, c>> = <<u, dnsCall[u]>> /\ dnsPc[u] = "wait"
    BY <2>1 DEF Apart
  <2>3. \A l \in asked : l = <<t, c>>
    <3> SUFFICES ASSUME NEW l \in asked
                 PROVE  l = <<t, c>>
      OBVIOUS
    <3>1. PICK v \in Callers : l = <<v, dnsCall[v]>> /\ dnsPc[v] = "wait"
      BY <2>1 DEF Apart
    <3>2. v = u
      BY <2>1, <2>2, <3>1 DEF Apart, Inside
    <3>3. QED
      BY <2>2, <3>1, <3>2
  <2>4. asked' = {}
    BY <2>1, <2>3
  <2>5. \A v, w \in Callers : Inside(v)' /\ Inside(w)' => v = w
    BY <2>1 DEF Apart, Inside
  <2>6. QED
    BY <2>1, <2>2, <2>4, <2>5 DEF Apart
<1>5. CASE UNCHANGED lookupVars
  BY <1>5 DEF lookupVars, Apart, Inside
<1>6. QED
  BY <1>1, <1>2, <1>3, <1>4, <1>5 DEF LookupNext, Step

\* For any tasks and any number of calls, however late the answers: hostByName()
\* returns nothing that another task asked for, and what was found in time; and with
\* nothing left of earlier lookups no call returns unanswered.
THEOREM LookupsCorrect ==
  ASSUME LookupAssumption
  PROVE  LookupSpec => []LookupsAgree
<1> DEFINE Inv == LookupTypeOK /\ LookupInv /\ (~ astray => Apart)
<1>1. LookupInit => Inv
  <2> SUFFICES ASSUME LookupInit
               PROVE  Inv
    OBVIOUS
  <2>1. LookupTypeOK
    BY DEF LookupInit, LookupTypeOK
  <2>2. Owned /\ Written
    BY DEF LookupInit, Owned, Written
  <2>3. RightAddress /\ FoundIsReturned /\ Apart
    BY DEF LookupInit, RightAddress, FoundIsReturned, Apart, Inside
  <2>4. QED
    BY <2>1, <2>2, <2>3 DEF LookupInv
<1>2. Inv /\ [LookupNext]_lookupVars => Inv'
  <2> SUFFICES ASSUME Inv, [LookupNext]_lookupVars
               PROVE  Inv'
    OBVIOUS
  <2>1. LookupTypeOK' /\ Owned'
    BY LookupTypes, OwnedStep DEF LookupInv
  <2>2. Written' /\ RightAddress' /\ FoundIsReturned'
    BY WrittenStep
  <2>3. ~ astray' => Apart'
    BY ApartStep
  <2>4. QED
    BY <2>1, <2>2, <2>3 DEF LookupInv
<1>3. Inv => LookupsAgree
  <2> SUFFICES ASSUME Inv
               PROVE  LookupsAgree
    OBVIOUS
  <2>1. AnswerFindsCall
    BY DEF AnswerFindsCall, Apart
  <2>2. QED
    BY <2>1 DEF LookupInv, LookupsAgree
<1>4. QED
  BY <1>1, <1>2, <1>3, PTL DEF LookupSpec

-----------------------------------------------------------------------------
(* The handlers: the loop over the list against those who change it.       *)

LEMMA Least ==
  ASSUME NEW S \in SUBSET Nat, S # {}
  PROVE  \E m \in S : \A n \in S : m <= n
<1> DEFINE R == OpToRel(<, Nat)
<1>1. IsWellFoundedOn(R, Nat)
  BY NatLessThanWellFounded
<1>2. R = {ss \in Nat \X Nat : ss[1] < ss[2]}
  BY Zenon DEF OpToRel
<1>3. \A x \in Nat, y \in Nat : <<x, y>> \in R <=> x < y
  BY <1>2
<1> HIDE DEF R
<1>4. PICK x \in S : \A y \in S : ~ (<<y, x>> \in R)
  BY <1>1, WFMin
<1>5. \A y \in S : ~ (y < x)
  BY <1>3, <1>4
<1>6. \A y \in S : x <= y
  BY <1>5
<1>7. QED
  BY <1>6

\* f gives the place that an entry of r has in l: r is in the order of l.
Shifted(f, l, r) ==
    /\ \A k \in DOMAIN r : f[k] \in DOMAIN l /\ k <= f[k] /\ r[k] = l[f[k]]
    /\ \A j, k \in DOMAIN r : j < k => f[j] < f[k]

\* What is kept of a sequence, and nothing else, is in the order it was, and no
\* further back.
LEMMA Sifted ==
  ASSUME NEW S, NEW l \in Seq(S), NEW kept \in SUBSET DOMAIN l
  PROVE  LET r == Entries(l, kept)
         IN  /\ r \in Seq(S) /\ Len(r) <= Len(l) /\ \E f : Shifted(f, l, r)
             /\ \A k \in DOMAIN r : \E m \in kept : r[k] = l[m]
             /\ \A m \in kept : \E k \in DOMAIN r : r[k] = l[m]
<1> DEFINE Below(m) == {n \in kept : n <= m}
           C(m) == Cardinality(Below(m))
           f == [k \in 1 .. Cardinality(kept) |-> CHOOSE m \in kept : C(m) = k]
           r == [k \in 1 .. Cardinality(kept) |-> l[f[k]]]
<1>1. kept \subseteq 1 .. Len(l) /\ Len(l) \in Nat /\ DOMAIN l = 1 .. Len(l)
  OBVIOUS
<1>2. /\ IsFiniteSet(kept) /\ Cardinality(kept) \in Nat
      /\ Cardinality(kept) <= Len(l)
  <2>1. \A n \in Nat : IsFiniteSet(1 .. n) /\ Cardinality(1 .. n) = n
    BY FS_Interval
  <2>2. kept \in SUBSET (1 .. Len(l))
    BY <1>1
  <2>3. QED
    BY <1>1, <2>1, <2>2, FS_Subset, FS_CardinalityType
<1>3. ASSUME NEW m \in Nat
      PROVE  IsFiniteSet(Below(m)) /\ C(m) \in Nat /\ C(m) <= m
  <2>1. Below(m) \in SUBSET (1 .. m) /\ Below(m) \in SUBSET kept
    BY <1>1
  <2>2. IsFiniteSet(1 .. m) /\ Cardinality(1 .. m) = m
    BY FS_Interval
  <2>3. QED
    BY <2>1, <2>2, FS_Subset, FS_CardinalityType
<1>4. ASSUME NEW m \in Nat, NEW n \in Nat, m <= n
      PROVE  C(m) <= C(n)
  <2>1. Below(m) \in SUBSET Below(n)
    BY <1>1, <1>4
  <2>2. QED
    BY <1>3, <2>1, FS_Subset
<1>5. ASSUME NEW k \in 1 .. Cardinality(kept)
      PROVE  \E m \in kept : C(m) = k
  <2> DEFINE T == {m \in Nat : k <= C(m)}
  <2>1. T # {}
    <3>1. Below(Len(l)) = kept
      BY <1>1
    <3>2. QED
      BY <1>1, <3>1
  <2>2. PICK m \in Nat : k <= C(m) /\ \A n \in Nat : k <= C(n) => m <= n
    BY <2>1, Least
  <2>3. Below(0) = {} /\ C(0) = 0
    <3>1. Below(0) = {}
      BY <1>1
    <3>2. QED
      BY <3>1, FS_EmptySet
  <2>4. m \in Nat \ {0} /\ m - 1 \in Nat
    <3> HIDE DEF C, Below
    <3> QED
      BY <2>2, <2>3
  <2>5. C(m - 1) \in Nat /\ C(m - 1) < k
    <3> HIDE DEF C, Below
    <3>1. ~ (k <= C(m - 1))
      BY <2>2, <2>4
    <3> QED
      BY <1>3, <2>4, <3>1
  <2>6. CASE m \notin kept
    <3>1. Below(m) = Below(m - 1)
      BY <1>1, <2>4, <2>6
    <3>2. C(m) = C(m - 1)
      BY <3>1
    <3> HIDE DEF C, Below
    <3>3. QED
      BY <2>2, <2>5, <3>2
  <2>7. CASE m \in kept
    <3>1. Below(m) = Below(m - 1) \cup {m} /\ m \notin Below(m - 1)
      BY <1>1, <2>4, <2>7
    <3>2. IsFiniteSet(Below(m - 1)) /\ C(m - 1) \in Nat
      BY <1>3, <2>4
    <3>3. C(m) = C(m - 1) + 1
      BY <3>1, <3>2, FS_AddElement
    <3>4. k <= C(m)
      BY <2>2
    <3>5. C(m) = k
      <4> HIDE DEF C, Below
      <4> QED
        BY <2>5, <3>2, <3>3, <3>4
    <3>6. QED
      BY <2>7, <3>5
  <2>8. QED
    BY <2>6, <2>7
<1>13. ASSUME NEW m \in kept
       PROVE  C(m) \in 1 .. Cardinality(kept)
  <2>1. m \in Nat /\ Below(m) \in SUBSET kept /\ m \in Below(m)
    BY <1>1
  <2>2. Cardinality(Below(m)) <= Cardinality(kept)
    BY <1>2, <2>1, FS_Subset
  <2>3. C(m) # 0
    BY <1>3, <2>1, FS_EmptySet
  <2>4. C(m) <= Cardinality(kept) /\ C(m) \in Nat
    BY <1>3, <2>1, <2>2
  <2> HIDE DEF C, Below
  <2> QED
    BY <1>2, <2>3, <2>4
<1>14. ASSUME NEW m \in kept, NEW n \in kept, m < n
       PROVE  C(m) < C(n)
  <2>1. m \in Nat /\ n \in Nat
    BY <1>1
  <2>2. Below(m) \cup {n} \in SUBSET Below(n) /\ n \notin Below(m)
    BY <1>14, <2>1
  <2>3. IsFiniteSet(Below(m) \cup {n}) /\ Cardinality(Below(m) \cup {n}) = C(m) + 1
    BY <1>3, <2>1, <2>2, FS_AddElement
  <2>4. C(m) + 1 <= C(n)
    BY <1>3, <2>1, <2>2, <2>3, FS_Subset
  <2>5. C(m) \in Nat /\ C(n) \in Nat
    BY <1>3, <2>1
  <2> HIDE DEF C, Below
  <2> QED
    BY <2>4, <2>5
<1> HIDE DEF Below, C
<1>6. ASSUME NEW k \in 1 .. Cardinality(kept)
      PROVE  f[k] \in kept /\ C(f[k]) = k
  BY <1>5
<1> HIDE DEF f
<1>7. ASSUME NEW k \in 1 .. Cardinality(kept)
      PROVE  f[k] \in DOMAIN l /\ k <= f[k] /\ l[f[k]] \in S
  BY <1>1, <1>3, <1>6, SMTT(30)
<1>8. ASSUME NEW j \in 1 .. Cardinality(kept), NEW k \in 1 .. Cardinality(kept), j < k
      PROVE  f[j] < f[k]
  BY <1>1, <1>4, <1>6, <1>8
<1>9. r \in Seq(S) /\ Len(r) = Cardinality(kept) /\ DOMAIN r = 1 .. Cardinality(kept)
  BY <1>2, <1>7, IsASeq
<1>15. ASSUME NEW m \in kept
       PROVE  \E k \in DOMAIN r : r[k] = l[m]
  <2>1. PICK k \in 1 .. Cardinality(kept) : k = C(m)
    BY <1>13
  <2>2. f[k] \in kept /\ C(f[k]) = C(m)
    BY <1>6, <2>1
  <2>3. ~ (f[k] < m) /\ ~ (m < f[k])
    <3>1. C(m) \in Nat
      BY <1>13
    <3> QED
      BY <1>14, <2>2, <3>1
  <2>4. m \in Nat /\ f[k] \in Nat
    BY <1>1, <2>2
  <2>5. f[k] = m
    BY <2>3, <2>4
  <2> QED
    BY <1>9, <2>5
<1>16. \A k \in DOMAIN r : f[k] \in kept /\ r[k] = l[f[k]]
  BY <1>6, <1>9
<1>10. Shifted(f, l, r)
  BY <1>7, <1>8, <1>9 DEF Shifted
<1>11. r = Entries(l, kept)
  BY DEF f, C, Below, Entries
<1>12. QED
  <2> HIDE DEF r
  <2>1. Len(r) <= Len(l)
    BY <1>2, <1>9
  <2>2. QED
    BY <1>9, <1>10, <1>11, <1>15, <1>16, <2>1

Handler == [id : Nat, cb : Callback, event : Event \cup {All}]

\* removeEvent() shifts entries towards the front and keeps their order.
LEMMA Erased ==
  ASSUME NEW l \in Seq(Handler), NEW matching, NEW r, r = Erase(l, matching)
  PROVE  r \in Seq(Handler) /\ Len(r) <= Len(l) /\ \E f : Shifted(f, l, r)
<1>1. PICK kept \in SUBSET DOMAIN l : Erase(l, matching) = Entries(l, kept)
  BY DEF Erase
<1>2. QED
  BY <1>1, Sifted

LEMMA HandlerIds ==
  ASSUME NEW l \in Seq(Handler)
  PROVE  /\ DOMAIN l = 1 .. Len(l) /\ Len(l) \in Nat
         /\ \A k \in DOMAIN l : l[k].id \in Nat
<1>1. \A h \in Handler : h.id \in Nat
  BY DEF Handler
<1>2. DOMAIN l = 1 .. Len(l) /\ Len(l) \in Nat /\ \A k \in DOMAIN l : l[k] \in Handler
  BY LenProperties, ElementOfSeq
<1>3. QED
  BY <1>1, <1>2

\* The ids are given in ascending order, and those called come before those that
\* the loop has yet to take.
EventsInv ==
    /\ list \in Seq(Handler) /\ currentId \in Nat /\ eventI \in Nat \ {0}
    /\ called \in Seq(Nat)
    /\ \A j, k \in DOMAIN list : j < k => list[j].id < list[k].id
    /\ \A k \in DOMAIN list : list[k].id < currentId
    /\ CalledOnceInOrder
    /\ event # NoEvent =>
         /\ \A c \in DOMAIN called :
               /\ called[c] < currentId
               /\ \A k \in DOMAIN list : eventI <= k => called[c] < list[k].id
         /\ ~ shifted =>
               /\ eventI <= Len(list) + 1
               /\ \A k \in DOMAIN list :
                     k < eventI /\ Matches(list[k], event)
                         => \E c \in DOMAIN called : called[c] = list[k].id

LEMMA RemovesKeeps ==
  ASSUME EventsInv, NEW matching, Removes(matching)
  PROVE  EventsInv'
<1>1. /\ list \in Seq(Handler) /\ list' = Erase(list, matching)
      /\ UNCHANGED <<currentId, event, eventI, called>>
      /\ eventI \in Nat \ {0} /\ called \in Seq(Nat) /\ currentId \in Nat
  BY DEF Removes, EventsInv
<1>2. PICK f : /\ \A k \in DOMAIN list' :
                     f[k] \in DOMAIN list /\ k <= f[k] /\ list'[k] = list[f[k]]
               /\ \A j, k \in DOMAIN list' : j < k => f[j] < f[k]
  <2>1. \E f : Shifted(f, list, list')
    BY <1>1, Erased
  <2>2. QED
    BY <2>1 DEF Shifted
<1>3. list' \in Seq(Handler) /\ Len(list') <= Len(list)
  BY <1>1, Erased
<1>4. /\ DOMAIN list = 1 .. Len(list) /\ DOMAIN list' = 1 .. Len(list')
      /\ Len(list) \in Nat /\ Len(list') \in Nat
      /\ \A k \in DOMAIN list : list[k].id \in Nat
  BY <1>1, <1>3, HandlerIds
<1>5. /\ \A j, k \in DOMAIN list' : j < k => list'[j].id < list'[k].id
      /\ \A k \in DOMAIN list' : list'[k].id < currentId
  BY <1>2 DEF EventsInv
<1>6. ASSUME event # NoEvent, NEW c \in DOMAIN called, NEW k \in DOMAIN list', eventI <= k
      PROVE  called[c] < list'[k].id
  <2>1. f[k] \in DOMAIN list /\ eventI <= f[k] /\ list'[k] = list[f[k]]
    BY <1>1, <1>2, <1>4, <1>6
  <2>2. QED
    BY <1>6, <2>1 DEF EventsInv
<1>7. ASSUME event # NoEvent, ~ shifted'
      PROVE  /\ eventI <= Len(list') + 1
             /\ \A k \in DOMAIN list' :
                   k < eventI /\ Matches(list'[k], event)
                       => \E c \in DOMAIN called : called[c] = list'[k].id
  <2>1. /\ ~ shifted
        /\ \A m \in DOMAIN list : m < eventI => list[m].id \in Ids(list')
    BY <1>7 DEF Removes
  <2>2. \A m \in DOMAIN list : m < eventI => \E j \in DOMAIN list' : f[j] = m
    <3>1. ASSUME NEW m \in DOMAIN list, m < eventI
          PROVE  \E j \in DOMAIN list' : f[j] = m
      <4>1. PICK j \in DOMAIN list' : list'[j].id = list[m].id
        BY <2>1, <3>1 DEF Ids
      <4>2. f[j] \in DOMAIN list /\ list[f[j]].id = list[m].id
        BY <1>2, <4>1
      <4>3. ~ (f[j] < m) /\ ~ (m < f[j])
        BY <1>4, <4>2 DEF EventsInv
      <4>4. QED
        BY <1>4, <4>2, <4>3
    <3>2. QED
      BY <3>1
  <2> DEFINE T == {m \in DOMAIN list' : m < eventI /\ f[m] # m}
  <2>3. T = {}
    <3>1. SUFFICES ASSUME T # {} PROVE FALSE
      OBVIOUS
    <3>2. T \in SUBSET Nat
      BY <1>4
    <3>3. PICK m \in T : \A n \in T : m <= n
      BY <3>1, <3>2, Least
    <3>4. m \in DOMAIN list /\ m < f[m] /\ m < eventI
      BY <1>2, <1>3, <1>4, <3>3
    <3>5. PICK j \in DOMAIN list' : f[j] = m
      BY <2>2, <3>4
    <3>6. j < m
      BY <1>2, <1>4, <3>3, <3>4, <3>5
    <3>7. j \notin T
      BY <1>4, <3>3, <3>6
    <3>8. f[j] = j
      BY <1>1, <1>4, <3>4, <3>6, <3>7
    <3>9. QED
      BY <1>4, <3>5, <3>6, <3>8
  <2>4. ASSUME NEW k \in DOMAIN list', k < eventI, Matches(list'[k], event)
        PROVE  \E c \in DOMAIN called : called[c] = list'[k].id
    <3>1. f[k] = k /\ k \in DOMAIN list /\ list'[k] = list[k]
      BY <1>2, <2>3, <2>4
    <3>2. QED
      BY <1>7, <2>1, <2>4, <3>1 DEF EventsInv
  <2>5. eventI <= Len(list) + 1
    BY <1>7, <2>1 DEF EventsInv
  <2>6. CASE eventI = 1
    BY <1>4, <2>6
  <2>7. CASE eventI # 1
    <3>1. eventI - 1 \in DOMAIN list /\ eventI - 1 < eventI
      BY <1>1, <1>4, <2>5, <2>7
    <3>2. PICK j \in DOMAIN list' : f[j] = eventI - 1
      BY <2>2, <3>1
    <3>3. j <= eventI - 1
      BY <1>2, <3>2
    <3>4. f[j] = j
      BY <1>1, <1>4, <2>3, <3>3
    <3>5. QED
      BY <1>1, <1>4, <2>4, <3>2, <3>4
  <2>8. QED
    BY <1>4, <2>4, <2>6, <2>7
<1>8. CalledOnceInOrder'
  BY <1>1 DEF EventsInv, CalledOnceInOrder
<1>9. \A c \in DOMAIN called : event # NoEvent => called[c] < currentId
  BY DEF EventsInv
<1>10. QED
  BY <1>1, <1>3, <1>5, <1>6, <1>7, <1>8, <1>9 DEF EventsInv

LEMMA EventsStep ==
  ASSUME EventsInv, [EventsNext]_eventVars
  PROVE  EventsInv'
<1>1. ASSUME NEW cb \in Callback, NEW filter \in Event \cup {All}, onEvent(cb, filter)
      PROVE  EventsInv'
  <2> DEFINE h == [id |-> currentId, cb |-> cb, event |-> filter]
  <2>1. /\ list \in Seq(Handler) /\ h \in Handler /\ h.id = currentId
        /\ currentId \in Nat
    BY DEF EventsInv, Handler
  <2>2. /\ list' = Append(list, h) /\ currentId' = currentId + 1
        /\ UNCHANGED <<event, eventI, called>> /\ (shifted' <=> shifted)
    BY <1>1 DEF onEvent
  <2> HIDE DEF h
  <2>3. /\ list' \in Seq(Handler) /\ Len(list') = Len(list) + 1
        /\ DOMAIN list = 1 .. Len(list) /\ DOMAIN list' = 1 .. Len(list')
        /\ Len(list) \in Nat /\ list'[Len(list')] = h
        /\ \A k \in DOMAIN list : list'[k] = list[k] /\ list[k].id \in Nat
    BY <2>1, <2>2, AppendProperties, HandlerIds
  <2>4. /\ \A j, k \in DOMAIN list' : j < k => list'[j].id < list'[k].id
        /\ \A k \in DOMAIN list' : list'[k].id < currentId'
    BY <2>1, <2>2, <2>3 DEF EventsInv
  <2>5. CalledOnceInOrder'
    BY <2>2 DEF EventsInv, CalledOnceInOrder
  <2>6. ASSUME event # NoEvent, NEW c \in DOMAIN called
        PROVE  /\ called[c] \in Nat /\ called[c] < currentId
               /\ \A k \in DOMAIN list' : eventI <= k => called[c] < list'[k].id
    BY <2>1, <2>3, <2>6, SMTT(30) DEF EventsInv
  <2>7. ASSUME event # NoEvent, ~ shifted
        PROVE  /\ eventI <= Len(list') + 1
               /\ \A k \in DOMAIN list' :
                     k < eventI /\ Matches(list'[k], event)
                         => \E c \in DOMAIN called : called[c] = list'[k].id
    <3>1. eventI \in Nat /\ eventI <= Len(list) + 1
      BY <2>7 DEF EventsInv
    <3>2. \A k \in DOMAIN list' : k < eventI => k \in DOMAIN list /\ list'[k] = list[k]
      BY <2>3, <3>1
    <3>3. \A k \in DOMAIN list : k < eventI /\ Matches(list[k], event)
                         => \E c \in DOMAIN called : called[c] = list[k].id
      BY <2>7 DEF EventsInv
    <3>4. QED
      BY <2>3, <3>1, <3>2, <3>3
  <2>8. QED
    BY <2>1, <2>2, <2>3, <2>4, <2>5, <2>6, <2>7, SMTT(30) DEF EventsInv
<1>2. ASSUME NEW cb, NEW filter, removeEvent(cb, filter)
      PROVE  EventsInv'
  BY <1>2, RemovesKeeps DEF removeEvent
<1>3. ASSUME NEW id, removeId(id)
      PROVE  EventsInv'
  BY <1>3, RemovesKeeps DEF removeId
<1>4. ASSUME NEW e \in Event, Happens(e)
      PROVE  EventsInv'
  BY <1>4 DEF Happens, EventsInv, CalledOnceInOrder
<1>5. CASE CallsHandler
  <2>1. /\ list \in Seq(Handler) /\ called \in Seq(Nat) /\ eventI \in Nat \ {0}
        /\ event # NoEvent /\ eventI <= Len(list)
    BY <1>5 DEF CallsHandler, EventsInv
  <2>2. /\ DOMAIN list = 1 .. Len(list) /\ Len(list) \in Nat /\ eventI \in DOMAIN list
        /\ \A k \in DOMAIN list : list[k].id \in Nat
    BY <2>1, HandlerIds
  <2>3. /\ eventI' = eventI + 1 /\ UNCHANGED <<list, currentId, event>>
        /\ shifted' <=> shifted
    BY <1>5 DEF CallsHandler
  <2> DEFINE x == list[eventI].id
  <2>4. /\ x \in Nat
        /\ \/ called' = Append(called, x)
           \/ called' = called /\ ~ Matches(list[eventI], event)
    BY <1>5, <2>2 DEF CallsHandler
  <2> HIDE DEF x
  <2>5. /\ called' \in Seq(Nat)
        /\ DOMAIN called = 1 .. Len(called) /\ Len(called) \in Nat
        /\ DOMAIN called \subseteq DOMAIN called' /\ DOMAIN called' \subseteq Nat
        /\ \A c \in DOMAIN called : called'[c] = called[c]
        /\ \A c \in DOMAIN called' :
              c \in DOMAIN called \/ (c = Len(called) + 1 /\ called'[c] = x)
    <3>1. DOMAIN called = 1 .. Len(called) /\ Len(called) \in Nat
      BY <2>1, LenProperties
    <3>2. CASE called' = called
      BY <2>1, <3>1, <3>2
    <3>3. CASE called' = Append(called, x)
      <4>1. /\ called' \in Seq(Nat) /\ Len(called') = Len(called) + 1
            /\ called'[Len(called) + 1] = x
            /\ \A c \in 1 .. Len(called) : called'[c] = called[c]
        BY <2>1, <2>4, <3>3, AppendProperties
      <4>2. DOMAIN called' = 1 .. Len(called) + 1
        BY <4>1, LenProperties
      <4>3. QED
        BY <3>1, <4>1, <4>2
    <3>4. QED
      BY <2>4, <3>2, <3>3
  <2>6. ASSUME Matches(list[eventI], event)
        PROVE  \E c \in DOMAIN called' : called'[c] = x
    <3>1. called' = Append(called, x)
      BY <2>4, <2>6
    <3>2. Len(called) + 1 \in DOMAIN called' /\ called'[Len(called) + 1] = x
      BY <2>1, <2>4, <3>1, AppendProperties
    <3>3. QED
      BY <3>2
  <2>7. \A c \in DOMAIN called :
           /\ called[c] \in Nat /\ called[c] < x /\ called[c] < currentId
           /\ \A k \in DOMAIN list : eventI <= k => called[c] < list[k].id
    BY <2>1, <2>2 DEF EventsInv, x
  <2>8. x < currentId /\ \A k \in DOMAIN list : eventI < k => x < list[k].id
    BY <2>2 DEF EventsInv, x
  <2>9. CalledOnceInOrder'
    <3>1. ASSUME NEW c \in DOMAIN called', NEW d \in DOMAIN called', c < d
          PROVE  called'[c] < called'[d]
      <4>1. c \in DOMAIN called
        BY <2>5, <3>1
      <4>2. QED
        BY <2>7, <2>5, <3>1, <4>1 DEF EventsInv, CalledOnceInOrder
    <3>2. QED
      BY <3>1 DEF CalledOnceInOrder
  <2>10. ASSUME NEW c \in DOMAIN called'
         PROVE  /\ called'[c] < currentId
                /\ \A k \in DOMAIN list : eventI + 1 <= k => called'[c] < list[k].id
    <3>1. \A k \in DOMAIN list : eventI + 1 <= k => eventI < k /\ eventI <= k
      BY <2>1, <2>2
    <3>2. QED
      BY <2>7, <2>8, <2>5, <3>1
  <2>11. ASSUME ~ shifted
         PROVE  /\ eventI + 1 <= Len(list) + 1
                /\ \A k \in DOMAIN list :
                      k < eventI + 1 /\ Matches(list[k], event)
                          => \E c \in DOMAIN called' : called'[c] = list[k].id
    <3>1. ASSUME NEW k \in DOMAIN list, k < eventI + 1, Matches(list[k], event)
          PROVE  \E c \in DOMAIN called' : called'[c] = list[k].id
      <4>1. CASE k = eventI
        BY <2>6, <3>1, <4>1 DEF x
      <4>2. CASE k # eventI
        <5>1. k < eventI
          BY <2>1, <2>2, <3>1, <4>2
        <5>2. PICK c \in DOMAIN called : called[c] = list[k].id
          BY <2>1, <2>11, <3>1, <5>1 DEF EventsInv
        <5>3. QED
          BY <2>5, <5>2
      <4>3. QED
        BY <4>1, <4>2
    <3>2. QED
      BY <2>1, <2>2, <3>1
  <2>12. QED
    BY <2>1, <2>3, <2>9, <2>10, <2>11, <2>5 DEF EventsInv
<1>6. CASE HandlerReturns
  BY <1>6 DEF HandlerReturns, EventsInv, CalledOnceInOrder
<1>7. CASE Ends
  BY <1>7 DEF Ends, EventsInv, CalledOnceInOrder
<1>8. CASE UNCHANGED eventVars
  BY <1>8 DEF eventVars, EventsInv, CalledOnceInOrder
<1>9. QED
  BY <1>1, <1>2, <1>3, <1>4, <1>5, <1>6, <1>7, <1>8 DEF EventsNext

\* For any functions and events of the sketch, and whatever handlers add and remove
\* while they run: _eventCallback() calls none twice and each in its turn, and
\* leaves none out unless an entry that it had passed was removed.
THEOREM HandlersCorrect == EventsSpec => []HandlersCalled
<1>1. EventsInit => EventsInv
  BY DEF EventsInit, EventsInv, CalledOnceInOrder
<1>2. EventsInv /\ [EventsNext]_eventVars => EventsInv'
  BY EventsStep
<1>3. EventsInv => HandlersCalled
  BY DEF EventsInv, HandlersCalled, EveryHandlerCalled, Over
<1>4. QED
  BY <1>1, <1>2, <1>3, PTL DEF EventsSpec

\* What one call erases of a list, place by place, as Erase() counts it.
Going(g, n, matching) ==
    g = [k \in 0 .. n |-> IF k = 0 THEN {}
                          ELSE IF k \in matching /\ k - 1 \notin g[k - 1]
                               THEN g[k - 1] \cup {k} ELSE g[k - 1]]

\* A match that has no neighbour goes, and nothing else does.
LEMMA GoingAlone ==
  ASSUME NEW n \in Nat, NEW matching \in SUBSET (1 .. n),
         \A k \in matching : k - 1 \notin matching
  PROVE  /\ \E g : Going(g, n, matching)
         /\ \A g : Going(g, n, matching) => g[n] = matching
<1>0. \A j \in matching : j \in Nat /\ 1 <= j /\ j <= n
  OBVIOUS
<1> DEFINE h == [k \in 0 .. n |-> {j \in matching : j <= k}]
<1>1. \A k \in 0 .. n : k \in Nat /\ \A j : j \in h[k] <=> j \in matching /\ j <= k
  OBVIOUS
<1>7. h = [k \in 0 .. n |-> h[k]]
  OBVIOUS
<1> HIDE DEF h
<1>2. ASSUME NEW k \in 0 .. n
      PROVE  h[k] = IF k = 0 THEN {}
                    ELSE IF k \in matching /\ k - 1 \notin h[k - 1]
                         THEN h[k - 1] \cup {k} ELSE h[k - 1]
  <2>1. CASE k = 0
    <3>1. ASSUME NEW j, j \in h[k]
          PROVE  FALSE
      <4>1. j \in matching /\ j <= k
        BY <1>1, <3>1
      <4> QED
        BY <1>0, <2>1, <4>1
    <3>2. h[k] = {}
      BY <3>1
    <3> QED
      BY <2>1, <3>2, Zenon
  <2>2. CASE k # 0
    <3>1. k \in Nat /\ k - 1 \in 0 .. n
      BY <2>2
    <3>2. k \in matching => k - 1 \notin h[k - 1]
      BY <1>1, <3>1
    <3>3. \A j \in matching : j <= k <=> j <= k - 1 \/ j = k
      BY <1>0, <3>1
    <3>4. ASSUME k \in matching
          PROVE  h[k] = h[k - 1] \cup {k}
      <4>1. \A j : j \in h[k] <=> j \in h[k - 1] \cup {k}
        BY <1>1, <3>1, <3>3, <3>4
      <4> QED
        BY <4>1
    <3>5. ASSUME k \notin matching
          PROVE  h[k] = h[k - 1]
      <4>1. \A j : j \in h[k] <=> j \in h[k - 1]
        BY <1>1, <3>1, <3>3, <3>5
      <4> QED
        BY <4>1
    <3> QED
      BY <2>2, <3>2, <3>4, <3>5, Zenon
  <2> QED
    BY <2>1, <2>2
<1>6. n \in 0 .. n
  OBVIOUS
<1>3. h[n] = matching
  <2>1. \A j : j \in h[n] <=> j \in matching
    BY <1>0, <1>1, <1>6
  <2> QED
    BY <2>1
<1>4. Going(h, n, matching)
  BY <1>2, <1>7 DEF Going
<1>5. ASSUME NEW g, Going(g, n, matching)
      PROVE  \A k \in 0 .. n : g[k] = h[k]
  <2> DEFINE D == {k \in Nat : k <= n /\ g[k] # h[k]}
  <2>1. SUFFICES ASSUME D # {} PROVE FALSE
    BY <1>1
  <2>2. PICK k \in D : \A j \in D : k <= j
    BY <2>1, Least
  <2>3. k \in 0 .. n /\ g[k] # h[k]
    OBVIOUS
  <2>4. g[k] = IF k = 0 THEN {}
               ELSE IF k \in matching /\ k - 1 \notin g[k - 1]
                    THEN g[k - 1] \cup {k} ELSE g[k - 1]
    BY <1>5, <2>3 DEF Going
  <2>5. k # 0
    BY <1>2, <2>3, <2>4
  <2>6. k - 1 \in Nat /\ k - 1 <= n /\ ~ (k <= k - 1)
    BY <2>3, <2>5
  <2>7. g[k - 1] = h[k - 1]
    BY <2>2, <2>6
  <2> QED
    BY <1>2, <2>3, <2>4, <2>7, Zenon
<1> QED
  BY <1>3, <1>4, <1>5, <1>6

LEMMA ErasesAlone ==
  ASSUME NEW S, NEW l \in Seq(S), NEW matching \in SUBSET DOMAIN l,
         \A k \in matching : k - 1 \notin matching
  PROVE  Erase(l, matching) = Entries(l, DOMAIN l \ matching)
<1>1. Len(l) \in Nat /\ DOMAIN l = 1 .. Len(l)
  OBVIOUS
<1>2. PICK g : g = CHOOSE h : h = [k \in 0 .. Len(l) |->
                       IF k = 0 THEN {}
                       ELSE IF k \in matching /\ k - 1 \notin h[k - 1]
                            THEN h[k - 1] \cup {k} ELSE h[k - 1]]
  OBVIOUS
<1>3. \E h : Going(h, Len(l), matching)
  BY <1>1, GoingAlone
<1>4. Going(g, Len(l), matching)
  BY <1>2, <1>3, Zenon DEF Going
<1>5. g[Len(l)] = matching
  BY <1>1, <1>4, GoingAlone
<1>6. Erase(l, matching) = Entries(l, {k \in DOMAIN l : k \notin g[Len(l)]})
  BY <1>2, Zenon DEF Erase
<1>7. {k \in DOMAIN l : k \notin matching} = DOMAIN l \ matching
  OBVIOUS
<1> QED
  BY <1>5, <1>6, <1>7, Zenon

\* As many entries as ids.
LEMMA IdsCount ==
  ASSUME NEW l \in Seq(Handler), \A j, k \in DOMAIN l : j < k => l[j].id < l[k].id
  PROVE  Len(l) = Cardinality(Ids(l))
<1> DEFINE F == [k \in 1 .. Len(l) |-> l[k].id]
<1>1. DOMAIN l = 1 .. Len(l) /\ Len(l) \in Nat /\ \A k \in DOMAIN l : l[k].id \in Nat
  BY HandlerIds
<1>2. F \in [1 .. Len(l) -> Ids(l)]
  BY <1>1 DEF Ids
<1>3. ASSUME NEW a \in 1 .. Len(l), NEW b \in 1 .. Len(l), F[a] = F[b]
      PROVE  a = b
  <2>1. l[a].id = l[b].id
    BY <1>3
  <2>2. ~ (a < b) /\ ~ (b < a)
    BY <1>1, <2>1
  <2> QED
    BY <2>2
<1>4. \A t \in Ids(l) : \E k \in 1 .. Len(l) : F[k] = t
  BY <1>1 DEF Ids
<1> HIDE DEF F
<1>5. F \in Bijection(1 .. Len(l), Ids(l))
  BY <1>2, <1>3, <1>4, Fun_IsBij
<1> QED
  BY <1>1, <1>5, FS_CountingElements DEF ExistsBijection

\* For any functions and events: removeEvent(id) takes the handler of that id
\* away, and no other, wherever it stands.
THEOREM RemovalCorrect == EventsSpec => RemovesThatOne
<1>1. EventsInit => EventsInv
  BY DEF EventsInit, EventsInv, CalledOnceInOrder
<1>2. EventsInv /\ [EventsNext]_eventVars => EventsInv'
  BY EventsStep
<1>3. ASSUME EventsInv, EventsInv', NEW id \in 1 .. MaxId, removeId(id)
      PROVE  Ids(list') = Ids(list) \ {id} /\ Len(list') = Cardinality(Ids(list'))
  <2> DEFINE matching == {k \in DOMAIN list : list[k].id = id}
  <2>1. /\ list \in Seq(Handler) /\ list' \in Seq(Handler)
        /\ \A j, k \in DOMAIN list : j < k => list[j].id < list[k].id
        /\ \A j, k \in DOMAIN list' : j < k => list'[j].id < list'[k].id
    BY <1>3 DEF EventsInv
  <2>2. DOMAIN list = 1 .. Len(list) /\ \A k \in DOMAIN list : list[k].id \in Nat
    BY <2>1, HandlerIds
  <2>3. ASSUME NEW k \in matching
        PROVE  k - 1 \notin matching
    <3>1. SUFFICES ASSUME k - 1 \in matching PROVE FALSE
      OBVIOUS
    <3>2. list[k - 1].id < list[k].id /\ list[k - 1].id = list[k].id
      BY <2>1, <2>2, <3>1
    <3> QED
      BY <2>2, <3>2
  <2>4. matching \in SUBSET DOMAIN list
    OBVIOUS
  <2>5. list' = Erase(list, matching)
    BY <1>3 DEF removeId, Removes
  <2>6. PICK kept \in SUBSET DOMAIN list : kept = DOMAIN list \ matching
    OBVIOUS
  <2> HIDE DEF matching
  <2>7. list' = Entries(list, kept)
    BY <2>1, <2>3, <2>4, <2>5, <2>6, ErasesAlone
  <2>8. /\ \A k \in DOMAIN list' : \E m \in kept : list'[k] = list[m]
        /\ \A m \in kept : \E k \in DOMAIN list' : list'[k] = list[m]
    BY <2>1, <2>7, Sifted
  <2>9. \A m \in DOMAIN list : m \in kept <=> list[m].id # id
    BY <2>6 DEF matching
  <2>10. Ids(list') = Ids(list) \ {id}
    <3>1. ASSUME NEW x
          PROVE  x \in Ids(list') <=> x \in Ids(list) \ {id}
      BY <2>8, <2>9 DEF Ids
    <3> QED
      BY <3>1
  <2> QED
    BY <2>1, <2>10, IdsCount
<1>4. EventsInv /\ EventsInv' /\ [EventsNext]_eventVars
        => [\A id \in 1 .. MaxId : removeId(id) =>
              /\ Ids(list') = Ids(list) \ {id}
              /\ Len(list') = Cardinality(Ids(list'))]_eventVars
  BY <1>3
<1> QED
  BY <1>1, <1>2, <1>4, PTL DEF EventsSpec, RemovesThatOne
-----------------------------------------------------------------------------
(* The station, for any networks and any bound on the queue.               *)

StaEvent == [event : {"CONNECTED", "GOT_IP", "LOST_IP", "DISCONNECTED"},
             reason : FailReasons \cup LossReasons \cup {"ASSOC_LEAVE", "none"}]

Links == {"down", "connecting", "linked", "ip"}

\* What the driver had when it reported an event, what it has, and what the
\* bits say it has.
What(e) == CASE e.event \in {"CONNECTED", "LOST_IP"} -> "linked"
             [] e.event = "GOT_IP" -> "ip"
             [] OTHER -> "off"

OfLink(l) == IF l \in {"linked", "ip"} THEN l ELSE "off"

OfBits(b) == IF "HAS_IP" \in b THEN "ip" ELSE IF "CONNECTED" \in b THEN "linked" ELSE "off"

\* An event and what it leaves behind: only the end of a connection may leave the
\* status alone.
Follows(e, was) ==
    /\ e.event = "CONNECTED" => was = "off"
    /\ e.event = "GOT_IP" => was = "linked"
    /\ e.event = "LOST_IP" => was = "ip"
    /\ e.event # "DISCONNECTED" => SetsStatus(e)

\* The events of q lead from one state to another.
Leads(q, was, is) ==
    /\ q \in Seq(StaEvent)
    /\ \A k \in 1 .. Len(q) : Follows(q[k], IF k = 1 THEN was ELSE What(q[k - 1]))
    /\ is = IF Len(q) = 0 THEN was ELSE What(q[Len(q)])

\* The driver d has added nothing but to the end of the queue q.
Longer(d, q) == q # << >> => d.queue # << >> /\ d.queue[1] = q[1]

Sound(d, was, q) ==
    /\ d \in [link : Links, conf : Network \cup {NoNetwork}, queue : Seq(StaEvent)]
    /\ Leads(d.queue, was, OfLink(d.link))
    /\ Longer(d, q)

\* The stages between which the status is what the last event has left.
Settled == {"none", "disconnect", "begin"}

\* The events that wait lead from what the bits say to what the driver has, and
\* the status is never short of what the bits say, or of what they will.
StationInv ==
    /\ Sound(Driver, OfBits(staBits), queue)
    /\ "HAS_IP" \in staBits => "CONNECTED" \in staBits
    /\ handling \in Settled \cup {"status", "bits"}
    /\ handling \in Settled =>
         /\ OfBits(staBits) = "ip" => status = "CONNECTED"
         /\ OfBits(staBits) = "linked" => status = "IDLE"
    /\ handling = "status" => queue # << >>
    /\ handling = "bits" => queue # << >> /\ status = StatusAfter(queue[1])

LEMMA LeadsOn ==
  ASSUME NEW q, NEW was, NEW is, Leads(q, was, is),
         NEW e \in StaEvent, Follows(e, is)
  PROVE  Leads(Append(q, e), was, What(e))
<1>1. /\ q \in Seq(StaEvent)
      /\ \A k \in 1 .. Len(q) : Follows(q[k], IF k = 1 THEN was ELSE What(q[k - 1]))
      /\ is = IF Len(q) = 0 THEN was ELSE What(q[Len(q)])
  BY DEF Leads
<1>2. PICK r : r = Append(q, e)
  OBVIOUS
<1>3. /\ r \in Seq(StaEvent) /\ Len(r) = Len(q) + 1 /\ Len(q) \in Nat
      /\ \A k \in 1 .. Len(q) : r[k] = q[k]
      /\ r[Len(q) + 1] = e
  BY <1>1, <1>2, AppendProperties, LenProperties
<1>4. ASSUME NEW k \in 1 .. Len(r)
      PROVE  Follows(r[k], IF k = 1 THEN was ELSE What(r[k - 1]))
  <2>1. CASE k = Len(q) + 1
    <3>1. (IF k = 1 THEN was ELSE What(r[k - 1])) = is
      BY <1>1, <1>3, <2>1
    <3>2. QED
      BY <1>3, <2>1, <3>1
  <2>2. CASE k \in 1 .. Len(q)
    BY <1>1, <1>3, <2>2
  <2>3. QED
    BY <1>3, <2>1, <2>2
<1>5. What(e) = IF Len(r) = 0 THEN was ELSE What(r[Len(r)])
  BY <1>3
<1>6. QED
  BY <1>2, <1>3, <1>4, <1>5 DEF Leads

LEMMA LeadsFrom ==
  ASSUME NEW q, NEW was, NEW is, Leads(q, was, is), q # << >>
  PROVE  /\ Head(q) \in StaEvent /\ Follows(Head(q), was)
         /\ Leads(Tail(q), What(Head(q)), is)
<1>1. /\ q \in Seq(StaEvent)
      /\ \A k \in 1 .. Len(q) : Follows(q[k], IF k = 1 THEN was ELSE What(q[k - 1]))
      /\ is = IF Len(q) = 0 THEN was ELSE What(q[Len(q)])
  BY DEF Leads
<1>2. PICK e, r : e = Head(q) /\ r = Tail(q)
  OBVIOUS
<1>3. /\ Len(q) \in Nat /\ Len(q) >= 1 /\ e = q[1] /\ e \in StaEvent
      /\ r \in Seq(StaEvent) /\ Len(r) = Len(q) - 1
      /\ \A k \in 1 .. Len(r) : r[k] = q[k + 1]
  BY <1>1, <1>2, HeadTailProperties, EmptySeq, LenProperties
<1>4. Follows(e, was)
  BY <1>1, <1>3
<1>5. ASSUME NEW k \in 1 .. Len(r)
      PROVE  Follows(r[k], IF k = 1 THEN What(e) ELSE What(r[k - 1]))
  <2>1. k + 1 \in 1 .. Len(q) /\ k + 1 # 1 /\ r[k] = q[k + 1]
    BY <1>3
  <2>2. (IF k = 1 THEN What(e) ELSE What(r[k - 1])) = What(q[k])
    BY <1>3
  <2>3. Follows(q[k + 1], What(q[(k + 1) - 1]))
    BY <1>1, <2>1
  <2>4. QED
    BY <2>1, <2>2, <2>3
<1>6. is = IF Len(r) = 0 THEN What(e) ELSE What(r[Len(r)])
  BY <1>1, <1>3
<1>7. QED
  BY <1>2, <1>3, <1>4, <1>5, <1>6 DEF Leads

LEMMA AppendKeepsFirst ==
  ASSUME NEW p \in Seq(StaEvent), NEW e \in StaEvent
  PROVE  /\ Append(p, e) # << >>
         /\ p # << >> => Append(p, e)[1] = p[1]
BY AppendProperties, LenProperties, EmptySeq

LEMMA DriverDisconnects ==
  ASSUME NEW d, NEW was, NEW q, Sound(d, was, q)
  PROVE  /\ Sound(esp_wifi_disconnect(d), was, q)
         /\ esp_wifi_disconnect(d).link = "down"
<1>1. CASE d.link = "down"
  BY <1>1 DEF esp_wifi_disconnect
<1>2. CASE d.link # "down"
  <2>1. PICK e : e = Disconnected("ASSOC_LEAVE")
    OBVIOUS
  <2>2. e \in StaEvent /\ e.event = "DISCONNECTED" /\ e.reason = "ASSOC_LEAVE"
    BY <2>1 DEF StaEvent, Disconnected
  <2>3. Leads(Append(d.queue, e), was, "off")
    <3>1. Follows(e, OfLink(d.link)) /\ What(e) = "off"
      BY <2>2 DEF Follows, What
    <3>2. QED
      BY <2>2, <3>1, LeadsOn DEF Sound
  <2>4. esp_wifi_disconnect(d) = [d EXCEPT !.link = "down", !.queue = Append(d.queue, e)]
    BY <1>2, <2>1 DEF esp_wifi_disconnect, Sound
  <2>5. Append(d.queue, e) \in Seq(StaEvent)
    BY <2>3 DEF Leads
  <2>6. q # << >> => Append(d.queue, e) # << >> /\ Append(d.queue, e)[1] = q[1]
    BY <2>2, AppendKeepsFirst DEF Sound, Longer
  <2>7. QED
    BY <2>3, <2>4, <2>5, <2>6 DEF Sound, Longer, Links, OfLink
<1>3. QED
  BY <1>1, <1>2

LEMMA DriverConnects ==
  ASSUME NEW d, NEW was, NEW q, Sound(d, was, q)
  PROVE  Sound(esp_wifi_connect(d), was, q)
BY DEF Sound, Longer, esp_wifi_connect, Links, OfLink

LEMMA DriverBegins ==
  ASSUME NEW d, NEW was, NEW q, Sound(d, was, q), NEW ssid \in Network
  PROVE  Sound(beginWith(d, ssid), was, q)
<1>1. PICK g : g = IF d.conf = ssid THEN d ELSE esp_wifi_disconnect(d)
  OBVIOUS
<1>2. Sound(g, was, q)
  BY <1>1, DriverDisconnects
<1>3. PICK c : c = [g EXCEPT !.conf = ssid]
  OBVIOUS
<1>4. Sound(c, was, q)
  BY <1>2, <1>3 DEF Sound, Longer
<1>5. Sound(esp_wifi_connect(c), was, q)
  BY <1>4, DriverConnects
<1>6. QED
  BY <1>1, <1>3, <1>5 DEF beginWith

\* A step of the sketch, after which nothing else is said than before.
LEMMA DrivenOn ==
  ASSUME StationInv, NEW d, Sound(d, OfBits(staBits), queue), Drive(d),
         status' = status, staBits' = staBits,
         handling' = handling \/ (handling \in Settled /\ handling' \in Settled)
  PROVE  StationInv'
<1>1. d = [link |-> d.link, conf |-> d.conf, queue |-> d.queue]
  BY DEF Sound
<1>2. Driver' = d /\ queue' = d.queue
  BY <1>1 DEF Driver, Drive
<1>3. Sound(d, OfBits(staBits'), d.queue)
  BY DEF Sound, Longer
<1>4. handling' = handling \/ handling \in Settled
  OBVIOUS
<1>5. handling' = "status" => queue' # << >>
  BY <1>2, <1>4 DEF StationInv, Sound, Longer, Settled
<1>6. handling' = "bits" => queue' # << >> /\ status' = StatusAfter(queue'[1])
  BY <1>2, <1>4 DEF StationInv, Sound, Longer, Settled, StatusAfter
<1>7. Sound(Driver', OfBits(staBits'), queue')
  BY <1>2, <1>3
<1>8. QED
  BY <1>5, <1>6, <1>7 DEF StationInv, Settled

LEMMA DrivenSound ==
  ASSUME StationInv, NEW d, Sound(d, OfBits(staBits), queue), Drive(d),
         status' = status, staBits' = staBits, handling' = handling
  PROVE  StationInv'
<1>1. handling' = handling \/ (handling \in Settled /\ handling' \in Settled)
  OBVIOUS
<1>2. QED
  BY <1>1, DrivenOn, Zenon

\* The driver reports an event of its own.
LEMMA ReportedSound ==
  ASSUME StationInv, NEW from, NEW to \in Links, NEW e \in StaEvent,
         Linked(from, to, e), Follows(e, OfLink(from)), What(e) = OfLink(to)
  PROVE  StationInv'
<1>1. /\ link = from /\ link' = to /\ queue' = Append(queue, e) /\ conf' = conf
      /\ status' = status /\ staBits' = staBits /\ handling' = handling
  BY DEF Linked
<1>2. PICK d : d = [link |-> to, conf |-> conf, queue |-> Append(queue, e)]
  OBVIOUS
<1>3. /\ Leads(queue, OfBits(staBits), OfLink(from))
      /\ conf \in Network \cup {NoNetwork} /\ queue \in Seq(StaEvent)
  BY <1>1 DEF StationInv, Sound, Driver
<1>4. Leads(Append(queue, e), OfBits(staBits), OfLink(to))
  BY <1>3, LeadsOn
<1>5. Append(queue, e) \in Seq(StaEvent)
  BY <1>4 DEF Leads
<1>6. Sound(d, OfBits(staBits), queue)
  <2>1. Longer(d, queue)
    BY <1>2, <1>3, AppendKeepsFirst DEF Longer
  <2>2. QED
    BY <1>2, <1>3, <1>4, <1>5, <2>1 DEF Sound
<1>7. Drive(d)
  BY <1>1, <1>2 DEF Drive
<1>8. QED
  BY <1>1, <1>6, <1>7, DrivenSound

LEMMA DriverSound ==
  ASSUME StationAssumption, StationInv,
         Associate \/ GotIP \/ LostIP \/ Fail \/ Lose
  PROVE  StationInv'
<1>1. CASE Associate
  <2>1. PICK e : e = Plain("CONNECTED")
    OBVIOUS
  <2>2. e \in StaEvent /\ e.event = "CONNECTED" /\ e.reason = "none"
    BY <2>1 DEF StaEvent, Plain
  <2>3. Follows(e, OfLink("connecting")) /\ What(e) = OfLink("linked")
    BY <2>2 DEF Follows, What, OfLink, SetsStatus
  <2>4. Linked("connecting", "linked", e) /\ "linked" \in Links
    BY <1>1, <2>1 DEF Associate, Links
  <2>5. QED
    BY <2>2, <2>3, <2>4, ReportedSound
<1>2. CASE GotIP
  <2>1. PICK e : e = Plain("GOT_IP")
    OBVIOUS
  <2>2. e \in StaEvent /\ e.event = "GOT_IP" /\ e.reason = "none"
    BY <2>1 DEF StaEvent, Plain
  <2>3. Follows(e, OfLink("linked")) /\ What(e) = OfLink("ip")
    BY <2>2 DEF Follows, What, OfLink, SetsStatus
  <2>4. Linked("linked", "ip", e) /\ "ip" \in Links
    BY <1>2, <2>1 DEF GotIP, Links
  <2>5. QED
    BY <2>2, <2>3, <2>4, ReportedSound
<1>3. CASE LostIP
  <2>1. PICK e : e = Plain("LOST_IP")
    OBVIOUS
  <2>2. e \in StaEvent /\ e.event = "LOST_IP" /\ e.reason = "none"
    BY <2>1 DEF StaEvent, Plain
  <2>3. Follows(e, OfLink("ip")) /\ What(e) = OfLink("linked")
    BY <2>2 DEF Follows, What, OfLink, SetsStatus
  <2>4. Linked("ip", "linked", e) /\ "linked" \in Links
    BY <1>3, <2>1 DEF LostIP, Links
  <2>5. QED
    BY <2>2, <2>3, <2>4, ReportedSound
<1>4. CASE Fail
  <2>1. PICK r \in FailReasons : Linked("connecting", "down", Disconnected(r))
    BY <1>4 DEF Fail
  <2>2. PICK e : e = Disconnected(r)
    OBVIOUS
  <2>3. e \in StaEvent /\ e.event = "DISCONNECTED"
    BY <2>2 DEF StaEvent, Disconnected
  <2>4. Follows(e, OfLink("connecting")) /\ What(e) = OfLink("down")
    BY <2>3 DEF Follows, What, OfLink, SetsStatus
  <2>5. QED
    BY <2>1, <2>2, <2>3, <2>4, ReportedSound DEF Links
<1>5. CASE Lose
  <2>1. PICK r \in LossReasons, from \in {"linked", "ip"} :
          Linked(from, "down", Disconnected(r))
    BY <1>5 DEF Lose
  <2>2. PICK e : e = Disconnected(r)
    OBVIOUS
  <2>3. e \in StaEvent /\ e.event = "DISCONNECTED"
    BY <2>2 DEF StaEvent, Disconnected, LossReasons
  <2>4. Follows(e, OfLink(from)) /\ What(e) = OfLink("down")
    BY <2>3 DEF Follows, What, OfLink, SetsStatus
  <2>5. QED
    BY <2>1, <2>2, <2>3, <2>4, ReportedSound DEF Links
<1>6. QED
  BY <1>1, <1>2, <1>3, <1>4, <1>5

\* The event task, with the access that takes the event from the queue: what the
\* event says, it leaves in the bits, and in the status unless it is the end of a
\* connection.
LEMMA TakenSound ==
  ASSUME StationInv, SetBits
  PROVE  StationInv'
<1>1. PICK e, rest : e = Head(queue) /\ rest = Tail(queue)
  OBVIOUS
<1>2. /\ queue # << >> /\ Leads(queue, OfBits(staBits), OfLink(link))
      /\ link \in Links /\ conf \in Network \cup {NoNetwork}
      /\ queue \in Seq(StaEvent)
  BY DEF SetBits, StationInv, Sound, Driver
<1>3. /\ e \in StaEvent /\ Follows(e, OfBits(staBits))
      /\ Leads(rest, What(e), OfLink(link))
  BY <1>1, <1>2, LeadsFrom
<1>4. /\ status' = status /\ staBits' = BitsAfter(e)
      /\ link' = link /\ conf' = conf /\ queue' = rest
  BY <1>1 DEF SetBits
<1>5. handling' \in {"disconnect", "none"}
  BY DEF SetBits
<1>6. e = queue[1]
  BY <1>1, <1>2, HeadTailProperties
<1>7. ASSUME e.event # "DISCONNECTED"
      PROVE  status = StatusAfter(e)
  <2>1. SetsStatus(e)
    BY <1>3, <1>7 DEF Follows
  <2>2. handling = "bits"
    BY <1>1, <2>1 DEF SetBits
  <2>3. status = StatusAfter(queue[1])
    BY <2>2 DEF StationInv
  <2>4. QED
    BY <1>6, <2>3
<1>8. /\ OfBits(staBits') = What(e)
      /\ "HAS_IP" \in staBits' => "CONNECTED" \in staBits'
  <2>1. "HAS_IP" \in staBits => "CONNECTED" \in staBits
    BY DEF StationInv
  <2>2. CASE e.event = "CONNECTED"
    BY <1>3, <1>4, <2>1, <2>2 DEF BitsAfter, What, OfBits, Follows
  <2>3. CASE e.event = "GOT_IP"
    BY <1>3, <1>4, <2>1, <2>3 DEF BitsAfter, What, OfBits, Follows
  <2>4. CASE e.event = "LOST_IP"
    BY <1>3, <1>4, <2>1, <2>4 DEF BitsAfter, What, OfBits, Follows
  <2>5. CASE e.event = "DISCONNECTED"
    BY <1>3, <1>4, <2>1, <2>5 DEF BitsAfter, What, OfBits, Follows
  <2>6. QED
    BY <1>3, <2>2, <2>3, <2>4, <2>5 DEF StaEvent
<1>9. /\ What(e) = "ip" => status = "CONNECTED"
      /\ What(e) = "linked" => status = "IDLE"
  BY <1>7 DEF What, StatusAfter
<1>10. Sound(Driver', OfBits(staBits'), queue')
  <2>1. Driver' = [link |-> link, conf |-> conf, queue |-> rest]
    BY <1>4 DEF Driver
  <2>2. rest \in Seq(StaEvent)
    BY <1>3 DEF Leads
  <2>3. PICK d : d = [link |-> link, conf |-> conf, queue |-> rest]
    OBVIOUS
  <2>4. Sound(d, What(e), rest)
    BY <1>2, <1>3, <2>2, <2>3 DEF Sound, Longer
  <2>5. QED
    BY <1>4, <1>8, <2>1, <2>3, <2>4
<1>11. /\ OfBits(staBits') = "ip" => status' = "CONNECTED"
       /\ OfBits(staBits') = "linked" => status' = "IDLE"
  BY <1>4, <1>8, <1>9
<1>12. QED
  BY <1>5, <1>8, <1>10, <1>11 DEF StationInv, Settled

LEMMA HandledSound ==
  ASSUME StationInv, _eventCallback
  PROVE  StationInv'
<1>1. Sound(Driver, OfBits(staBits), queue)
  BY DEF StationInv
<1>2. CASE ClearStatus
  <2>1. /\ Driver' = Driver /\ queue' = queue /\ staBits' = staBits
        /\ handling' = "status" /\ queue # << >>
    BY <1>2 DEF ClearStatus, Driver
  <2>2. QED
    BY <1>1, <2>1 DEF StationInv, Settled
<1>3. CASE SetStatus
  <2>1. /\ Driver' = Driver /\ queue' = queue /\ staBits' = staBits
        /\ handling' = "bits" /\ queue # << >>
    BY <1>3 DEF SetStatus, Driver
  <2>2. status' = StatusAfter(queue'[1])
    <3>1. Head(queue) = queue[1]
      BY <2>1, <1>1, HeadTailProperties DEF Sound, Driver
    <3>2. status' = StatusAfter(Head(queue))
      BY <1>3 DEF SetStatus
    <3>3. QED
      BY <2>1, <3>1, <3>2 DEF StatusAfter
  <2>3. QED
    BY <1>1, <2>1, <2>2 DEF StationInv, Settled
<1>4. CASE SetBits
  BY <1>4, TakenSound
<1>5. CASE RetryDisconnect
  <2>1. /\ Drive(esp_wifi_disconnect(Driver))
        /\ status' = status /\ staBits' = staBits
    BY <1>5 DEF RetryDisconnect
  <2>2. handling' = handling \/ (handling \in Settled /\ handling' \in Settled)
    BY <1>5 DEF RetryDisconnect, Settled
  <2>3. Sound(esp_wifi_disconnect(Driver), OfBits(staBits), queue)
    BY <1>1, DriverDisconnects
  <2>4. QED
    BY <2>1, <2>2, <2>3, DrivenOn, Zenon
<1>6. CASE RetryBegin
  <2>1. PICK d : d = IF status # "CONNECTED" THEN esp_wifi_connect(Driver) ELSE Driver
    OBVIOUS
  <2>2. /\ Drive(d)
        /\ status' = status /\ staBits' = staBits
    BY <1>6, <2>1 DEF RetryBegin
  <2>3. handling' = handling \/ (handling \in Settled /\ handling' \in Settled)
    BY <1>6 DEF RetryBegin, Settled
  <2>4. Sound(d, OfBits(staBits), queue)
    BY <1>1, <2>1, DriverConnects
  <2>5. QED
    BY <2>2, <2>3, <2>4, DrivenOn, Zenon
<1>7. QED
  BY <1>2, <1>3, <1>4, <1>5, <1>6 DEF _eventCallback

LEMMA SketchSound ==
  ASSUME StationInv,
         (\E ssid \in Network : begin(ssid)) \/ disconnect \/ reconnect \/ setAutoReconnect
  PROVE  StationInv'
<1>1. Sound(Driver, OfBits(staBits), queue)
  BY DEF StationInv
<1>2. ASSUME NEW ssid \in Network, begin(ssid)
      PROVE  StationInv'
  <2>1. /\ Drive(beginWith(Driver, ssid))
        /\ status' = status /\ staBits' = staBits /\ handling' = handling
    BY <1>2 DEF begin
  <2>2. QED
    BY <1>1, <2>1, DriverBegins, DrivenSound
<1>3. CASE disconnect
  <2>1. /\ Drive(esp_wifi_disconnect(Driver))
        /\ status' = status /\ staBits' = staBits /\ handling' = handling
    BY <1>3 DEF disconnect
  <2>2. QED
    BY <1>1, <2>1, DriverDisconnects, DrivenSound
<1>4. CASE reconnect
  <2>1. /\ Drive(esp_wifi_connect(esp_wifi_disconnect(Driver)))
        /\ status' = status /\ staBits' = staBits /\ handling' = handling
    BY <1>4 DEF reconnect
  <2>2. QED
    BY <1>1, <2>1, DriverDisconnects, DriverConnects, DrivenSound
<1>5. CASE setAutoReconnect
  BY <1>5 DEF setAutoReconnect, StationInv, Driver, Settled
<1>6. QED
  BY <1>2, <1>3, <1>4, <1>5

LEMMA StationStarts == StationInit => StationInv
<1>1. SUFFICES ASSUME StationInit PROVE StationInv
  OBVIOUS
<1>2. /\ conf = NoNetwork /\ link = "down" /\ queue = << >>
      /\ status = "DISCONNECTED" /\ staBits = {} /\ handling = "none"
  BY <1>1 DEF StationInit
<1>3. queue \in Seq(StaEvent) /\ Len(queue) = 0
  BY <1>2
<1>4. Leads(queue, "off", "off")
  BY <1>3 DEF Leads
<1>5. QED
  BY <1>2, <1>3, <1>4
     DEF StationInv, Sound, Longer, Driver, Links, OfLink, OfBits, Settled

LEMMA StationAgrees == StationInv => StatusAgrees
<1>1. SUFFICES ASSUME StationInv, queue = << >>, handling = "none"
               PROVE  /\ ("HAS_IP" \in staBits) <=> (link = "ip")
                      /\ ("CONNECTED" \in staBits) <=> (link \in {"linked", "ip"})
                      /\ link = "ip" => status = "CONNECTED"
                      /\ link = "linked" => status = "IDLE"
  BY DEF StatusAgrees
<1>2. Leads(queue, OfBits(staBits), OfLink(link)) /\ link \in Links
  BY <1>1 DEF StationInv, Sound, Driver
<1>3. OfBits(staBits) = OfLink(link)
  BY <1>1, <1>2 DEF Leads
<1>4. /\ OfBits(staBits) = "ip" => status = "CONNECTED"
      /\ OfBits(staBits) = "linked" => status = "IDLE"
      /\ "HAS_IP" \in staBits => "CONNECTED" \in staBits
  BY <1>1 DEF StationInv, Settled
<1>5. QED
  BY <1>2, <1>3, <1>4 DEF Links, OfBits, OfLink

\* When every event is handled, the bits say what the driver has, and so does the
\* status while the station is linked, whatever the sketch and the network do: for
\* any networks and any queue.
THEOREM StatusCorrect ==
  ASSUME StationAssumption
  PROVE  StationSpec => []StatusAgrees
<1>1. StationInv /\ [StationNext]_stationVars => StationInv'
  <2>1. SUFFICES ASSUME StationInv, [StationNext]_stationVars PROVE StationInv'
    OBVIOUS
  <2>2. CASE StationNext
    <3>1. CASE (\E ssid \in Network : begin(ssid)) \/ disconnect \/ reconnect
               \/ setAutoReconnect
      BY <2>1, <3>1, SketchSound
    <3>2. CASE Associate \/ GotIP \/ LostIP \/ Fail \/ Lose
      BY <2>1, <3>2, DriverSound
    <3>3. CASE _eventCallback
      BY <2>1, <3>3, HandledSound
    <3>4. QED
      BY <2>2, <3>1, <3>2, <3>3 DEF StationNext
  <2>3. CASE UNCHANGED stationVars
    <3>1. /\ conf' = conf /\ link' = link /\ queue' = queue /\ status' = status
          /\ staBits' = staBits /\ handling' = handling
      BY <2>3, Zenon DEF stationVars
    <3>2. QED
      BY <2>1, <3>1 DEF StationInv, Driver
  <2>4. QED
    BY <2>1, <2>2, <2>3
<1>2. QED
  BY <1>1, StationStarts, StationAgrees, PTL DEF StationSpec

\* The sketch that waits leaves the driver and the status to the same steps.
LEMMA WaiterSound ==
  ASSUME StationAssumption, ConnectingAssumption, StationInv, ConnectNext
  PROVE  StationInv'
<1>1. Sound(Driver, OfBits(staBits), queue)
  BY DEF StationInv
<1>2. ASSUME NEW ssid \in Network, begin(ssid)
      PROVE  StationInv'
  BY <1>2, SketchSound
<1>3. ASSUME Drive(esp_wifi_disconnect(Driver)), status' = status, staBits' = staBits,
             handling' = handling
      PROVE  StationInv'
  BY <1>1, <1>3, DriverDisconnects, DrivenSound
<1>4. ASSUME UNCHANGED stationVars
      PROVE  StationInv'
  <2>1. /\ conf' = conf /\ link' = link /\ queue' = queue /\ status' = status
        /\ staBits' = staBits /\ handling' = handling
    BY <1>4 DEF stationVars
  <2>2. QED
    BY <2>1 DEF StationInv, Driver
<1>5. CASE Connect
  BY <1>2, <1>5 DEF Connect, Attempt
<1>6. CASE ScanFound
  BY <1>2, <1>6 DEF ScanFound, Attempt, ConnectingAssumption
<1>7. CASE RunLeaves
  BY <1>3, <1>7 DEF RunLeaves
<1>8. CASE ScanFailed
  BY <1>3, <1>8 DEF ScanFailed
<1>9. CASE \/ WaitReads \/ WaitReadsAgain \/ WaitGivesUp \/ waitForConnectResult
           \/ RunConnected \/ RunCompares \/ Run \/ ScanNothing \/ RunEnds
  BY <1>4, <1>9 DEF WaitReads, WaitReadsAgain, WaitGivesUp, waitForConnectResult,
                    RunConnected, RunCompares, Run, ScanNothing, RunEnds
<1>10. CASE Others
  BY <1>10, DriverSound, HandledSound DEF Others
<1>11. QED
  BY <1>5, <1>6, <1>7, <1>8, <1>9, <1>10 DEF ConnectNext

\* The same while a sketch waits for its connection, or WiFiMulti makes it.
THEOREM WaitersStatusCorrect ==
  ASSUME StationAssumption, ConnectingAssumption
  PROVE  ConnectSpec => []StatusAgrees
<1>1. ConnectInit => StationInv
  BY StationStarts DEF ConnectInit
<1>2. StationInv /\ [ConnectNext]_connectVars => StationInv'
  <2>1. SUFFICES ASSUME StationInv, [ConnectNext]_connectVars PROVE StationInv'
    OBVIOUS
  <2>2. CASE ConnectNext
    BY <2>1, <2>2, WaiterSound
  <2>3. CASE UNCHANGED connectVars
    <3>1. /\ conf' = conf /\ link' = link /\ queue' = queue /\ status' = status
          /\ staBits' = staBits /\ handling' = handling
      BY <2>3 DEF connectVars, stationVars
    <3>2. QED
      BY <2>1, <3>1 DEF StationInv, Driver
  <2>4. QED
    BY <2>1, <2>2, <2>3
<1>3. QED
  BY <1>1, <1>2, StationAgrees, PTL DEF ConnectSpec

\* Events that leave a status which waitForConnectResult() does not return, and
\* that connect nothing again.
QuietEvent == {e \in StaEvent :
                 \/ e.event = "CONNECTED"
                 \/ e.event = "DISCONNECTED" /\ e.reason = "ASSOC_LEAVE"}

\* Until the first attempt has its result there is nothing to take for it.
WaitInv ==
    /\ attempts \in Nat
    /\ attempts = 0 =>
         /\ link = "down" /\ queue = << >> /\ status = "DISCONNECTED"
         /\ handling = "none"
    /\ attempts <= 1 /\ ~ ended =>
         /\ link # "ip" /\ Undecided(status) /\ queue \in Seq(QuietEvent)
         /\ handling \in {"none", "status", "bits"}

LEMMA QuietSteps ==
  ASSUME NEW q \in Seq(QuietEvent)
  PROVE  /\ \A e \in QuietEvent : Append(q, e) \in Seq(QuietEvent)
         /\ q # << >> => Head(q) \in QuietEvent /\ Tail(q) \in Seq(QuietEvent)
BY AppendProperties, HeadTailProperties

LEMMA WaitSteps ==
  ASSUME WaitInv, ConnectNext
  PROVE  WaitInv'
<1>1. CASE \E ssid \in Network \cup APlist : Attempt(ssid)
  <2>1. PICK ssid \in Network \cup APlist : Attempt(ssid)
    BY <1>1
  <2>2. /\ Drive(beginWith(Driver, ssid)) /\ status' = status
        /\ attempts' = attempts + 1 /\ handling' = handling
    BY <2>1 DEF Attempt, begin
  <2>3. CASE attempts = 0
    <3>1. link = "down" /\ queue = << >> /\ status = "DISCONNECTED" /\ handling = "none"
      BY <2>3 DEF WaitInv
    <3>2. link' \in {"down", "connecting"} /\ queue' = << >>
      BY <2>2, <3>1 DEF Drive, beginWith, esp_wifi_disconnect, esp_wifi_connect, Driver
    <3>3. queue' \in Seq(QuietEvent)
      BY <3>2
    <3>4. QED
      BY <2>2, <2>3, <3>1, <3>2, <3>3 DEF WaitInv, Undecided
  <2>4. CASE attempts # 0
    BY <2>2, <2>4 DEF WaitInv
  <2>5. QED
    BY <2>3, <2>4
<1>2. CASE /\ Drive(esp_wifi_disconnect(Driver)) /\ status' = status
           /\ handling' = handling /\ attempts' = attempts /\ (ended' <=> ended)
  <2>1. CASE link = "down"
    <3>1. link' = link /\ queue' = queue
      BY <1>2, <2>1 DEF Drive, esp_wifi_disconnect, Driver
    <3>2. QED
      BY <1>2, <3>1 DEF WaitInv
  <2>2. CASE link # "down"
    <3>1. PICK e : e = Disconnected("ASSOC_LEAVE")
      OBVIOUS
    <3>2. e \in QuietEvent
      BY <3>1 DEF QuietEvent, StaEvent, Disconnected
    <3>3. link' = "down" /\ queue' = Append(queue, e)
      BY <1>2, <2>2, <3>1 DEF Drive, esp_wifi_disconnect, Driver
    <3>4. queue \in Seq(QuietEvent) => queue' \in Seq(QuietEvent)
      BY <3>2, <3>3, QuietSteps
    <3>5. QED
      BY <1>2, <2>2, <3>3, <3>4 DEF WaitInv
  <2>3. QED
    BY <2>1, <2>2
<1>3. CASE /\ link' = link /\ queue' = queue /\ status' = status
           /\ handling' = handling /\ attempts' = attempts /\ (ended' <=> ended)
  BY <1>3 DEF WaitInv
<1>4. CASE Others
  <2>1. /\ attempts' = attempts /\ (ended' <=> (ended \/ Outcome))
        /\ Associate \/ GotIP \/ LostIP \/ Fail \/ Lose \/ _eventCallback
    BY <1>4 DEF Others
  <2>2. attempts # 0
    BY <2>1 DEF WaitInv, Associate, GotIP, LostIP, Fail, Lose, Linked, _eventCallback,
                ClearStatus, SetStatus, SetBits, RetryDisconnect, RetryBegin
  <2>3. SUFFICES ASSUME attempts <= 1, ~ ended, ~ Outcome
                 PROVE  /\ link' # "ip" /\ Undecided(status') /\ queue' \in Seq(QuietEvent)
                        /\ handling' \in {"none", "status", "bits"}
    BY <2>1, <2>2 DEF WaitInv
  <2>4. /\ link # "ip" /\ Undecided(status) /\ queue \in Seq(QuietEvent)
        /\ handling \in {"none", "status", "bits"}
    BY <2>3 DEF WaitInv
  <2>5. CASE Associate
    <3>1. PICK e : e = Plain("CONNECTED")
      OBVIOUS
    <3>2. e \in QuietEvent
      BY <3>1 DEF QuietEvent, StaEvent, Plain
    <3>3. /\ link' = "linked" /\ status' = status /\ handling' = handling
          /\ queue' = Append(queue, e)
      BY <2>5, <3>1 DEF Associate, Linked
    <3>4. QED
      BY <2>4, <3>2, <3>3, QuietSteps
  <2>6. CASE GotIP \/ LostIP \/ Fail \/ Lose
    BY <2>3, <2>4, <2>6 DEF GotIP, LostIP, Fail, Lose, Linked, Outcome
  <2>7. CASE ClearStatus \/ SetStatus \/ SetBits
    <3>1. PICK e, rest : e = Head(queue) /\ rest = Tail(queue)
      OBVIOUS
    <3>2. /\ e \in QuietEvent /\ rest \in Seq(QuietEvent)
          /\ link' = link
      BY <2>4, <2>7, <3>1, QuietSteps DEF ClearStatus, SetStatus, SetBits
    <3>3. Undecided(StatusAfter(e)) /\ ~ Retries(e)
      BY <3>2 DEF QuietEvent, StatusAfter, Undecided, Retries
    <3>4. CASE ClearStatus
      BY <2>4, <3>2, <3>4 DEF ClearStatus, Undecided
    <3>5. CASE SetStatus
      <4>1. status' = StatusAfter(e)
        BY <3>1, <3>5 DEF SetStatus
      <4>2. queue' = queue /\ handling' = "bits"
        BY <3>5 DEF SetStatus
      <4>3. QED
        BY <2>4, <3>2, <3>3, <4>1, <4>2
    <3>6. CASE SetBits
      <4>1. handling' = (IF Retries(e) THEN "disconnect" ELSE "none")
        BY <3>1, <3>6 DEF SetBits
      <4>2. queue' = rest /\ status' = status
        BY <3>1, <3>6 DEF SetBits
      <4>3. QED
        BY <2>4, <3>2, <3>3, <4>1, <4>2
    <3>7. QED
      BY <2>7, <3>4, <3>5, <3>6
  <2>8. CASE RetryDisconnect \/ RetryBegin
    BY <2>4, <2>8 DEF RetryDisconnect, RetryBegin
  <2>9. QED
    BY <2>1, <2>5, <2>6, <2>7, <2>8 DEF _eventCallback
<1>5. CASE Connect \/ ScanFound
  BY <1>1, <1>5 DEF Connect, ScanFound
<1>6. CASE RunLeaves
  BY <1>2, <1>6 DEF RunLeaves
<1>7. CASE ScanFailed
  BY <1>2, <1>7 DEF ScanFailed
<1>8. CASE \/ WaitReads \/ WaitReadsAgain \/ WaitGivesUp \/ waitForConnectResult
           \/ RunConnected \/ RunCompares \/ Run \/ ScanNothing \/ RunEnds
  BY <1>3, <1>8 DEF WaitReads, WaitReadsAgain, WaitGivesUp, waitForConnectResult,
                    RunConnected, RunCompares, Run, ScanNothing, RunEnds, stationVars
<1>9. QED
  BY <1>4, <1>5, <1>6, <1>7, <1>8 DEF ConnectNext

\* waitForConnectResult() returns no decided result of the first attempt before the
\* driver has an address or has given up, however many events and retries come
\* between its reads of the status.
THEOREM FirstResultCorrect == ConnectSpec => FirstResult
<1>1. ConnectInit => WaitInv
  <2>1. SUFFICES ASSUME ConnectInit PROVE WaitInv
    OBVIOUS
  <2>2. /\ attempts = 0 /\ link = "down" /\ queue = << >> /\ status = "DISCONNECTED"
        /\ handling = "none"
    BY <2>1 DEF ConnectInit, StationInit
  <2>3. queue \in Seq(QuietEvent)
    BY <2>2
  <2>4. QED
    BY <2>2, <2>3 DEF WaitInv, Undecided
<1>2. WaitInv /\ [ConnectNext]_connectVars => WaitInv'
  <2>1. SUFFICES ASSUME WaitInv, [ConnectNext]_connectVars PROVE WaitInv'
    OBVIOUS
  <2>2. CASE ConnectNext
    BY <2>1, <2>2, WaitSteps
  <2>3. CASE UNCHANGED connectVars
    <3>1. /\ link' = link /\ queue' = queue /\ status' = status
          /\ handling' = handling /\ attempts' = attempts /\ (ended' <=> ended)
      BY <2>3 DEF connectVars, stationVars, waiter
    <3>2. QED
      BY <2>1, <3>1 DEF WaitInv
  <2>4. QED
    BY <2>1, <2>2, <2>3
<1>3. WaitInv /\ [ConnectNext]_connectVars
        => [waitForConnectResult /\ attempts = 1 /\ ~ Undecided(result') => ended]_connectVars
  BY DEF WaitInv, waitForConnectResult
<1>4. QED
  BY <1>1, <1>2, <1>3, PTL DEF ConnectSpec, FirstResult

\* run() waits for a network of its list.
JoinInv == step = "connecting" => conf \in APlist

LEMMA BeginConfigures ==
  ASSUME NEW ssid, Drive(beginWith(Driver, ssid))
  PROVE  conf' = ssid
<1>1. PICK g : g = IF Driver.conf = ssid THEN Driver ELSE esp_wifi_disconnect(Driver)
  OBVIOUS
<1>2. CASE Driver.conf = ssid /\ status = "CONNECTED"
  BY <1>2 DEF Drive, beginWith, Driver
<1>3. CASE ~ (Driver.conf = ssid /\ status = "CONNECTED")
  <2>1. beginWith(Driver, ssid) = esp_wifi_connect([g EXCEPT !.conf = ssid])
    BY <1>1, <1>3 DEF beginWith
  <2>2. \E l, q : g = [link |-> l, conf |-> conf, queue |-> q]
    BY <1>1 DEF Driver, esp_wifi_disconnect
  <2>3. PICK l, q : g = [link |-> l, conf |-> conf, queue |-> q]
    BY <2>2
  <2>4. esp_wifi_connect([g EXCEPT !.conf = ssid]).conf = ssid
    BY <2>3 DEF esp_wifi_connect
  <2>5. QED
    BY <2>1, <2>4 DEF Drive
<1>4. QED
  BY <1>2, <1>3

LEMMA HandlerConfigures ==
  ASSUME _eventCallback
  PROVE  conf' = conf
<1>1. esp_wifi_disconnect(Driver).conf = conf /\ esp_wifi_connect(Driver).conf = conf
  BY DEF Driver, esp_wifi_disconnect, esp_wifi_connect
<1>2. Driver.conf = conf
  BY DEF Driver
<1>3. QED
  BY <1>1, <1>2 DEF _eventCallback, ClearStatus, SetStatus, SetBits, RetryDisconnect,
                    RetryBegin, Drive

\* WiFiMulti's run() says CONNECTED only of a network of its list.
THEOREM RunCorrect == ConnectSpec => RunMeansListed
<1>1. ConnectInit => JoinInv
  BY DEF ConnectInit, JoinInv
<1>2. ASSUME JoinInv, ConnectNext
      PROVE  /\ JoinInv'
             /\ (RunCompares \/ RunEnds) /\ step' = "idle" /\ result' = "CONNECTED"
                  => conf' \in APlist
  <2>1. CASE Connect
    BY <2>1 DEF Connect, JoinInv, RunCompares, RunEnds
  <2>2. CASE ScanFound
    <3>1. PICK ssid \in APlist : Drive(beginWith(Driver, ssid))
      BY <2>2 DEF ScanFound, Attempt, begin
    <3>2. QED
      BY <3>1, BeginConfigures DEF JoinInv
  <2>3. CASE RunCompares
    BY <2>3 DEF RunCompares, RunEnds, JoinInv, Listed, stationVars
  <2>4. CASE RunEnds
    BY <1>2, <2>4 DEF RunCompares, RunEnds, JoinInv, stationVars
  <2>5. CASE \/ WaitReads \/ WaitReadsAgain \/ WaitGivesUp \/ waitForConnectResult
             \/ RunConnected \/ RunLeaves \/ Run \/ ScanNothing \/ ScanFailed
    BY <2>5 DEF WaitReads, WaitReadsAgain, WaitGivesUp, waitForConnectResult,
                RunConnected, RunLeaves, Run, ScanNothing, ScanFailed,
                JoinInv, RunCompares, RunEnds
  <2>6. CASE Others
    <3>1. conf' = conf
      BY <2>6, HandlerConfigures
         DEF Others, Associate, GotIP, LostIP, Fail, Lose, Linked
    <3>2. step' = step
      BY <2>6 DEF Others
    <3>3. QED
      BY <1>2, <3>1, <3>2 DEF JoinInv, RunCompares, RunEnds, Listed
  <2>7. QED
    BY <1>2, <2>1, <2>2, <2>3, <2>4, <2>5, <2>6 DEF ConnectNext
<1>3. JoinInv /\ [ConnectNext]_connectVars => JoinInv'
  BY <1>2 DEF connectVars, stationVars, waiter, JoinInv
<1>4. JoinInv /\ [ConnectNext]_connectVars
        => [(RunCompares \/ RunEnds) /\ step' = "idle" /\ result' = "CONNECTED"
              => conf' \in APlist]_connectVars
  BY <1>2
<1>5. QED
  BY <1>1, <1>3, <1>4, PTL DEF ConnectSpec, RunMeansListed
-----------------------------------------------------------------------------
(* SmartConfig: the sketch against the SDK's task, both of which may be     *)
(* inside stopSmartConfig().                                                *)

CONSTANT MaxRounds
VARIABLES _smartConfigStarted, _smartConfigDone, sdk, stage, sketch, received,
          crossed, rounds

Smart == INSTANCE SmartConfig

SmartTypeOK ==
    /\ _smartConfigStarted \in BOOLEAN
    /\ sdk \in {"off", "listening", "link", "over"}
    /\ stage \in {"idle", "linked", "stopping", "stop", "stopped"}
    /\ sketch \in {"idle", "starting", "started", "clearing", "polling", "asking",
                   "seen", "stopping", "stop", "stopped"}

\* The flag is down while the sketch starts.  In a round that began after the
\* last callback nobody is about to stop the service before the flag is up, what
\* runs has its flag, and a flag without a service is about to be cleared; a
\* flag that says done, once it was cleared, was set in this round.
SmartInv ==
    /\ sketch \in {"starting", "started"} => ~ _smartConfigStarted
    /\ sketch = "started" /\ ~ crossed =>
         sdk # "off" /\ stage \notin {"stop", "stopped"}
    /\ sdk # "off" /\ ~ crossed => _smartConfigStarted \/ sketch = "started"
    /\ _smartConfigStarted /\ ~ crossed =>
         sdk # "off" \/ stage = "stopped" \/ sketch = "stopped"
    /\ stage = "stopped" /\ ~ crossed => sdk = "off"
    /\ sketch = "stopped" => sdk = "off"
    /\ stage = "linked" /\ ~ crossed => received
    /\ sketch \notin {"started", "clearing"} /\ ~ crossed =>
         (_smartConfigDone => received)
    /\ sketch = "seen" /\ ~ crossed => received

LEMMA SmartStep ==
  ASSUME SmartTypeOK, SmartInv, [Smart!Next]_(Smart!vars)
  PROVE  SmartTypeOK' /\ SmartInv'
<1> USE DEF SmartTypeOK, SmartInv, Smart!flags, Smart!history
<1>1. CASE Smart!beginSmartConfig
  BY <1>1 DEF Smart!beginSmartConfig
<1>2. CASE Smart!esp_smartconfig_start
  BY <1>2 DEF Smart!esp_smartconfig_start
<1>3. CASE Smart!BeginFails
  BY <1>3 DEF Smart!BeginFails
<1>4. CASE Smart!SetStarted
  BY <1>4 DEF Smart!SetStarted
<1>5. CASE Smart!ClearDone
  BY <1>5 DEF Smart!ClearDone
<1>6. CASE Smart!Poll \/ Smart!smartConfigDone
  BY <1>6 DEF Smart!Poll, Smart!smartConfigDone
<1>7. CASE Smart!Leave \/ Smart!SketchStops
  BY <1>7 DEF Smart!Leave, Smart!SketchStops
<1>8. CASE Smart!Link
  BY <1>8 DEF Smart!Link
<1>9. CASE Smart!SetDone
  BY <1>9 DEF Smart!SetDone
<1>10. CASE Smart!LinkOver
  BY <1>10 DEF Smart!LinkOver
<1>11. ASSUME NEW t \in Smart!Tasks, Smart!stopSmartConfig(t)
       PROVE  SmartTypeOK' /\ SmartInv'
  BY <1>11 DEF Smart!stopSmartConfig, Smart!Tasks, Smart!In, Smart!At
<1>12. ASSUME NEW t \in Smart!Tasks, Smart!esp_smartconfig_stop(t)
       PROVE  SmartTypeOK' /\ SmartInv'
  BY <1>12 DEF Smart!esp_smartconfig_stop, Smart!Tasks, Smart!In, Smart!At
<1>13. ASSUME NEW t \in Smart!Tasks, Smart!Stopped(t)
       PROVE  SmartTypeOK' /\ SmartInv'
  BY <1>13 DEF Smart!Stopped, Smart!Tasks, Smart!In, Smart!At
<1>14. CASE UNCHANGED Smart!vars
  BY <1>14 DEF Smart!vars
<1> QED
  BY <1>1, <1>2, <1>3, <1>4, <1>5, <1>6, <1>7, <1>8, <1>9, <1>10, <1>11, <1>12,
     <1>13, <1>14
  DEF Smart!Next

\* Whoever stops it and however the two tasks interleave, the flag says whether
\* the service runs, and what the sketch sees done was done in its own round,
\* unless that round began inside a callback of the one before.
THEOREM SmartConfigCorrect ==
  Smart!Spec => [](Smart!FlagFollowsService /\ Smart!DoneOfThisRound)
<1>1. Smart!Init => SmartTypeOK /\ SmartInv
  BY DEF Smart!Init, SmartTypeOK, SmartInv
<1>2. SmartTypeOK /\ SmartInv /\ [Smart!Next]_(Smart!vars) => SmartTypeOK' /\ SmartInv'
  BY SmartStep
<1>3. SmartTypeOK /\ SmartInv => Smart!FlagFollowsService /\ Smart!DoneOfThisRound
  BY DEF SmartTypeOK, SmartInv, Smart!FlagFollowsService, Smart!DoneOfThisRound
<1> QED
  BY <1>1, <1>2, <1>3, PTL DEF Smart!Spec
-----------------------------------------------------------------------------
(* WiFiMulti: the loop of run() over the networks that were found.          *)

CONSTANTS Name, Strength, Half, MaxEntries, MaxFound
VARIABLES multiList, multiScan, multiI, best, multiPc

Multi == INSTANCE WiFiMulti WITH
    APlist <- multiList, scan <- multiScan, i <- multiI, pc <- multiPc

MultiTypeOK ==
    /\ multiList \in Seq(Multi!Entry) /\ multiScan \in Seq(Multi!Found)
    /\ multiI \in Nat /\ best \in Nat
    /\ multiPc \in {"idle", "loop", "begin", "none", "running", "failed"}

\* e is the first entry of the list l for the name of the network f.
FirstFor(l, e, f) ==
    /\ e \in DOMAIN l /\ l[e].ssid = f.ssid
    /\ \A m \in 1 .. e - 1 : l[m].ssid # f.ssid

Joinable(l, s) ==
    {n \in DOMAIN s : \E e \in DOMAIN l : FirstFor(l, e, s[n]) /\ (s[n].open \/ l[e].secret)}

\* b is the best of the first k networks, or 0 when none of them can be joined.
BestOf(l, s, k, b) ==
    IF b = 0 THEN \A n \in 1 .. k : n \notin Joinable(l, s)
    ELSE /\ b \in Joinable(l, s) /\ b <= k
         /\ \A n \in 1 .. k : n \in Joinable(l, s) =>
               \/ s[n].rssi < s[b].rssi
               \/ s[n].rssi = s[b].rssi /\ n >= b

MultiInv ==
    Multi!Fits =>
      /\ multiPc \notin {"running", "failed"}
      /\ multiPc \in {"loop", "begin", "none"} =>
           /\ multiI <= Len(multiScan)
           /\ BestOf(multiList, multiScan, multiI, best)
      /\ multiPc \in {"begin", "none"} =>
           multiI = Len(multiScan) /\ (multiPc = "begin" <=> best # 0)

LEMMA NarrowFits ==
  ASSUME Half \in Nat \ {0}, NEW n \in Nat, n < Half
  PROVE  Multi!Narrow(n) = n
<1>1. PICK c, a : c = 2 * Half /\ a = n + Half
  OBVIOUS
<1>2. c \in Nat \ {0} /\ a \in Nat /\ a < c
  BY <1>1
<1>3. PICK q, s : q = a \div c /\ s = a % c
  OBVIOUS
<1>4. q \in Nat /\ s \in Nat /\ s < c /\ a = q * c + s
  BY <1>2, <1>3
<1>5. q = 0
  <2>1. CASE q >= 1
    <3>1. PICK d \in Nat : q = 1 + d
      BY <1>4, <2>1
    <3>2. d * c \in Nat /\ q * c = c + d * c
      BY <1>2, <3>1
    <3> QED
      BY <1>2, <1>4, <3>2
  <2> QED
    BY <1>4, <2>1
<1>6. a = s
  BY <1>2, <1>4, <1>5
<1>7. (n + Half) % (2 * Half) = n + Half
  BY <1>1, <1>3, <1>6
<1> QED
  BY <1>7 DEF Multi!Narrow

LEMMA EntryFirst ==
  ASSUME MultiTypeOK, NEW f
  PROVE  \/ /\ Multi!EntryOf(f) = 0
            /\ \A n \in DOMAIN multiList : multiList[n].ssid # f.ssid
         \/ FirstFor(multiList, Multi!EntryOf(f), f) /\ Multi!EntryOf(f) # 0
<1> DEFINE I == {n \in 1 .. Len(multiList) : multiList[n].ssid = f.ssid}
<1>1. DOMAIN multiList = 1 .. Len(multiList) /\ Len(multiList) \in Nat
  BY DEF MultiTypeOK
<1>2. Multi!EntryOf(f) = IF I # {} THEN Multi!Min(I) ELSE 0
  BY DEF Multi!EntryOf, Multi!SelectInSeq
<1>3. CASE I = {}
  BY <1>1, <1>2, <1>3
<1>4. CASE I # {}
  <2>1. I \in SUBSET Nat
    BY <1>1
  <2>2. \E m \in I : \A n \in I : m <= n
    BY <1>4, <2>1, Least
  <2>3. Multi!Min(I) \in I /\ \A n \in I : Multi!Min(I) <= n
    BY <2>2 DEF Multi!Min
  <2>4. ASSUME NEW m \in 1 .. Multi!Min(I) - 1
        PROVE  multiList[m].ssid # f.ssid
    BY <1>1, <2>1, <2>3
  <2> QED
    BY <1>1, <1>2, <1>4, <2>3, <2>4 DEF FirstFor
<1> QED
  BY <1>3, <1>4

LEMMA FirstIsOne ==
  ASSUME NEW S, NEW l \in Seq(S), NEW f,
         NEW e, FirstFor(l, e, f), NEW g, FirstFor(l, g, f)
  PROVE  e = g
<1>1. e \in Nat /\ g \in Nat /\ e >= 1 /\ g >= 1
  BY DEF FirstFor
<1>2. ~ (e < g) /\ ~ (g < e)
  BY <1>1 DEF FirstFor
<1> QED
  BY <1>1, <1>2

LEMMA UsableMeans ==
  ASSUME MultiTypeOK, NEW n \in DOMAIN multiScan
  PROVE  Multi!Usable(multiScan[n]) <=> n \in Joinable(multiList, multiScan)
<1>1. PICK f, g : f = multiScan[n] /\ g = Multi!EntryOf(f)
  OBVIOUS
<1>2. \/ g = 0 /\ \A m \in DOMAIN multiList : multiList[m].ssid # f.ssid
      \/ FirstFor(multiList, g, f) /\ g # 0
  BY <1>1, EntryFirst
<1>3. Multi!Usable(f) <=> g # 0 /\ (f.open \/ multiList[g].secret)
  BY <1>1 DEF Multi!Usable
<1>4. n \in Joinable(multiList, multiScan)
        <=> \E e \in DOMAIN multiList : FirstFor(multiList, e, f) /\ (f.open \/ multiList[e].secret)
  BY <1>1 DEF Joinable
<1>5. CASE g = 0
  BY <1>1, <1>2, <1>3, <1>4, <1>5 DEF FirstFor
<1>6. CASE FirstFor(multiList, g, f) /\ g # 0
  <2>1. \A e : FirstFor(multiList, e, f) => e = g
    BY <1>6, FirstIsOne DEF MultiTypeOK
  <2>2. g \in DOMAIN multiList
    BY <1>6 DEF FirstFor
  <2> QED
    BY <1>1, <1>3, <1>4, <1>6, <2>1, <2>2, Zenon
<1> QED
  BY <1>2, <1>5, <1>6

\* One network more.
LEMMA BestNext ==
  ASSUME Multi!MultiAssumption, MultiTypeOK,
         multiI < Len(multiScan), BestOf(multiList, multiScan, multiI, best),
         NEW k, k = multiI + 1
  PROVE  BestOf(multiList, multiScan, k,
                IF Multi!Usable(multiScan[k]) /\ Multi!Stronger(multiScan[k]) THEN k ELSE best)
<1> DEFINE J == Joinable(multiList, multiScan)
<1>a. /\ multiI \in Nat /\ best \in Nat
      /\ DOMAIN multiScan = 1 .. Len(multiScan) /\ Len(multiScan) \in Nat
  BY DEF MultiTypeOK
<1>1. /\ k \in Nat /\ k >= 1 /\ k \in DOMAIN multiScan /\ multiI \in Nat /\ best \in Nat
      /\ DOMAIN multiScan = 1 .. Len(multiScan) /\ Len(multiScan) \in Nat
      /\ \A n \in 1 .. k : n \in 1 .. multiI \/ n = k
      /\ \A n \in 1 .. multiI : n < k
  BY <1>a
<1>2. \A n \in DOMAIN multiScan : multiScan[n].rssi \in Int
  <2>1. ASSUME NEW n \in DOMAIN multiScan
        PROVE  multiScan[n] \in Multi!Found
    BY <2>1 DEF MultiTypeOK
  <2>2. \A f \in Multi!Found : f.rssi \in Int
    BY DEF Multi!Found, Multi!MultiAssumption
  <2> QED
    BY <2>1, <2>2
<1>3. J \subseteq DOMAIN multiScan
  BY DEF Joinable
<1>4. Multi!Usable(multiScan[k]) <=> k \in J
  BY <1>1, UsableMeans
<1>5. Multi!Stronger(multiScan[k])
        <=> best = 0 \/ multiScan[k].rssi > multiScan[best].rssi
  BY DEF Multi!Stronger
<1> HIDE DEF J
<1>6. IF best = 0 THEN \A n \in 1 .. multiI : n \notin J
      ELSE /\ best \in J /\ best <= multiI
           /\ \A n \in 1 .. multiI : n \in J =>
                \/ multiScan[n].rssi < multiScan[best].rssi
                \/ multiScan[n].rssi = multiScan[best].rssi /\ n >= best
  BY DEF BestOf, J
<1>7. CASE k \in J /\ Multi!Stronger(multiScan[k])
  <2>1. \A n \in 1 .. k : n \in J =>
          \/ multiScan[n].rssi < multiScan[k].rssi
          \/ multiScan[n].rssi = multiScan[k].rssi /\ n >= k
    BY <1>1, <1>2, <1>3, <1>5, <1>6, <1>7
  <2>2. BestOf(multiList, multiScan, k, k)
    BY <1>1, <1>7, <2>1 DEF BestOf, J
  <2> QED
    BY <1>4, <1>7, <2>2
<1>8. CASE ~ (k \in J /\ Multi!Stronger(multiScan[k]))
  <2>1. BestOf(multiList, multiScan, k, best)
    <3>1. CASE best = 0
      <4>1. \A n \in 1 .. k : n \notin J
        BY <1>1, <1>5, <1>6, <1>8, <3>1
      <4> QED
        BY <3>1, <4>1 DEF BestOf, J
    <3>2. CASE best # 0
      <4>1. best \in J /\ best <= k
        BY <1>1, <1>6, <3>2
      <4>2. ASSUME NEW n \in 1 .. k, n \in J
            PROVE  \/ multiScan[n].rssi < multiScan[best].rssi
                   \/ multiScan[n].rssi = multiScan[best].rssi /\ n >= best
        <5>1. CASE n \in 1 .. multiI
          BY <1>6, <3>2, <4>2, <5>1
        <5>2. CASE n = k
          BY <1>1, <1>2, <1>3, <1>5, <1>8, <4>1, <4>2, <5>2
        <5> QED
          BY <1>1, <5>1, <5>2
      <4> QED
        BY <3>2, <4>1, <4>2 DEF BestOf, J
    <3> QED
      BY <3>1, <3>2
  <2> QED
    BY <1>4, <1>8, <2>1
<1> QED
  BY <1>7, <1>8

LEMMA MultiTypes ==
  ASSUME MultiTypeOK, [Multi!Next]_(Multi!vars)
  PROVE  MultiTypeOK'
<1> USE DEF MultiTypeOK
<1>1. CASE Multi!addAP
  <2>1. multiList' \in Seq(Multi!Entry)
    BY <1>1 DEF Multi!addAP
  <2> QED
    BY <1>1, <2>1 DEF Multi!addAP
<1>2. CASE Multi!run
  <2>1. multiScan' \in Seq(Multi!Found)
    <3>1. PICK nets \in Multi!SeqOf(Multi!Found, MaxFound) : multiScan' = nets
      BY <1>2 DEF Multi!run
    <3>2. PICK m \in 0 .. MaxFound : nets \in [1 .. m -> Multi!Found]
      BY <3>1 DEF Multi!SeqOf
    <3>3. m \in Nat
      BY <3>2
    <3> QED
      BY <3>1, <3>2, <3>3, SeqDef
  <2>2. multiPc' \in {"loop", "running", "failed"} /\ multiI' = 0 /\ best' = 0
    BY <1>2 DEF Multi!run
  <2> QED
    BY <1>2, <2>1, <2>2 DEF Multi!run
<1>3. CASE Multi!Look
  BY <1>3 DEF Multi!Look
<1>4. CASE Multi!Decide
  BY <1>4 DEF Multi!Decide
<1>5. CASE Multi!Return
  BY <1>5 DEF Multi!Return
<1>6. CASE UNCHANGED Multi!vars
  BY <1>6 DEF Multi!vars
<1> QED
  BY <1>1, <1>2, <1>3, <1>4, <1>5, <1>6 DEF Multi!Next

LEMMA MultiStep ==
  ASSUME Multi!MultiAssumption, MultiTypeOK, MultiTypeOK', MultiInv, [Multi!Next]_(Multi!vars)
  PROVE  MultiInv'
<1>0. Len(multiScan) \in Nat /\ Len(multiScan') \in Nat
  BY DEF MultiTypeOK
<1>1. CASE Multi!addAP
  BY <1>1 DEF Multi!addAP, MultiInv
<1>2. CASE Multi!run
  <2>1. ASSUME Multi!Fits'
        PROVE  /\ multiPc' = "loop" /\ multiI' = 0 /\ best' = 0
    <3>1. PICK nets : /\ multiScan' = nets
                       /\ multiPc' = CASE Multi!Narrow(Len(nets)) >= 0 -> "loop"
                                       [] Multi!Narrow(Len(nets)) = Multi!ScanRunning -> "running"
                                       [] OTHER -> "failed"
      BY <1>2, Zenon DEF Multi!run
    <3>2. Multi!Narrow(Len(nets)) = Len(nets) /\ Len(nets) >= 0
      BY <1>0, <2>1, <3>1, NarrowFits DEF Multi!Fits, Multi!MultiAssumption
    <3>3. multiPc' = "loop"
      BY <3>1, <3>2 DEF Multi!ScanRunning
    <3> QED
      BY <1>2, <3>3 DEF Multi!run
  <2>2. BestOf(multiList', multiScan', 0, 0)
    BY DEF BestOf
  <2> QED
    BY <1>0, <2>1, <2>2 DEF MultiInv
<1>3. CASE Multi!Look
  <2>1. /\ multiPc = "loop" /\ multiPc' = "loop" /\ multiI' = multiI + 1
        /\ best' = IF Multi!Usable(multiScan[multiI + 1]) /\ Multi!Stronger(multiScan[multiI + 1])
                     THEN multiI + 1 ELSE best
        /\ multiList' = multiList /\ multiScan' = multiScan
        /\ multiI < Multi!Narrow(Len(multiScan))
    BY <1>3 DEF Multi!Look
  <2>2. ASSUME Multi!Fits
        PROVE  multiI' <= Len(multiScan) /\ BestOf(multiList, multiScan, multiI', best')
    <3>1. multiI < Len(multiScan) /\ multiI \in Nat
      BY <1>0, <2>1, <2>2, NarrowFits DEF Multi!Fits, Multi!MultiAssumption, MultiTypeOK
    <3>2. BestOf(multiList, multiScan, multiI, best)
      BY <2>1, <2>2 DEF MultiInv
    <3>3. PICK k : k = multiI + 1
      OBVIOUS
    <3>4. BestOf(multiList, multiScan, k,
                 IF Multi!Usable(multiScan[k]) /\ Multi!Stronger(multiScan[k]) THEN k ELSE best)
      BY <3>1, <3>2, <3>3, BestNext
    <3>5. multiI' <= Len(multiScan)
      BY <1>0, <2>1, <3>1
    <3>6. BestOf(multiList, multiScan, multiI', best')
      BY <2>1, <3>3, <3>4, Zenon
    <3> QED
      BY <3>5, <3>6
  <2> QED
    BY <2>1, <2>2 DEF MultiInv, Multi!Fits
<1>4. CASE Multi!Decide
  <2>1. /\ multiPc = "loop" /\ multiI = Multi!Narrow(Len(multiScan))
        /\ multiPc' = IF best # 0 THEN "begin" ELSE "none"
        /\ multiList' = multiList /\ multiScan' = multiScan
        /\ multiI' = multiI /\ best' = best
    BY <1>4 DEF Multi!Decide
  <2>2. Multi!Fits => multiI = Len(multiScan)
    BY <1>0, <2>1, NarrowFits DEF Multi!Fits, Multi!MultiAssumption
  <2> QED
    BY <2>1, <2>2 DEF MultiInv, Multi!Fits
<1>5. CASE Multi!Return
  BY <1>5 DEF Multi!Return, MultiInv
<1>6. CASE UNCHANGED Multi!vars
  BY <1>6 DEF Multi!vars, MultiInv, Multi!Fits
<1> QED
  BY <1>1, <1>2, <1>3, <1>4, <1>5, <1>6 DEF Multi!Next

LEMMA MultiChooses ==
  ASSUME MultiTypeOK, MultiInv
  PROVE  Multi!JoinsStrongest /\ Multi!NothingPassedOver
<1>0. /\ DOMAIN multiScan = 1 .. Len(multiScan)
      /\ DOMAIN multiList = 1 .. Len(multiList)
  BY DEF MultiTypeOK
<1>1. ASSUME Multi!Fits, multiPc = "begin"
      PROVE  Multi!JoinsStrongest
  <2> DEFINE first(name) == CHOOSE n \in DOMAIN multiList :
                              /\ multiList[n].ssid = name
                              /\ \A m \in 1 .. (n - 1) : multiList[m].ssid # name
             known == {multiList[n].ssid : n \in DOMAIN multiList}
             usable == {n \in DOMAIN multiScan :
                          /\ multiScan[n].ssid \in known
                          /\ multiScan[n].open \/ multiList[first(multiScan[n].ssid)].secret}
  <2>1. ASSUME NEW n \in DOMAIN multiScan
        PROVE  n \in usable <=> n \in Joinable(multiList, multiScan)
    <3>1. PICK f : f = multiScan[n]
      OBVIOUS
    <3>2. \/ \A m \in DOMAIN multiList : multiList[m].ssid # f.ssid
          \/ \E e : FirstFor(multiList, e, f)
      BY EntryFirst
    <3>3. CASE \A m \in DOMAIN multiList : multiList[m].ssid # f.ssid
      BY <3>1, <3>3 DEF Joinable, FirstFor
    <3>4. ASSUME NEW e, FirstFor(multiList, e, f)
          PROVE  n \in usable <=> n \in Joinable(multiList, multiScan)
      <4>1. f.ssid \in known /\ e \in DOMAIN multiList
        BY <3>4 DEF FirstFor
      <4>2. FirstFor(multiList, first(f.ssid), f)
        BY <3>4 DEF FirstFor
      <4>3. first(f.ssid) = e
        BY <3>4, <4>2, FirstIsOne DEF MultiTypeOK
      <4>4. \A g : FirstFor(multiList, g, f) => g = e
        BY <3>4, FirstIsOne DEF MultiTypeOK
      <4> HIDE DEF first, known
      <4>5. n \in usable <=> f.open \/ multiList[e].secret
        BY <3>1, <4>1, <4>3
      <4>6. n \in Joinable(multiList, multiScan) <=> f.open \/ multiList[e].secret
        BY <3>1, <3>4, <4>1, <4>4, Zenon DEF Joinable
      <4> QED
        BY <4>5, <4>6
    <3> QED
      BY <3>2, <3>3, <3>4
  <2>2. usable = Joinable(multiList, multiScan)
    <3>1. Joinable(multiList, multiScan) \subseteq DOMAIN multiScan
      BY DEF Joinable
    <3>2. usable \subseteq DOMAIN multiScan
      OBVIOUS
    <3> HIDE DEF usable
    <3> QED
      BY <2>1, <3>1, <3>2
  <2>3. /\ best \in usable
        /\ \A n \in usable : \/ multiScan[n].rssi < multiScan[best].rssi
                             \/ multiScan[n].rssi = multiScan[best].rssi /\ n >= best
    <3>1. BestOf(multiList, multiScan, Len(multiScan), best) /\ best # 0
      BY <1>1 DEF MultiInv
    <3>2. \A n \in usable : n \in 1 .. Len(multiScan)
      BY <1>0
    <3> HIDE DEF usable
    <3> QED
      BY <2>2, <3>1, <3>2 DEF BestOf
  <2> QED
    BY <2>3, Zenon DEF Multi!JoinsStrongest
<1>2. ASSUME Multi!Fits, multiPc = "none",
             NEW n \in DOMAIN multiScan, NEW e \in DOMAIN multiList,
             multiList[e].ssid = multiScan[n].ssid
      PROVE  /\ ~ multiScan[n].open
             /\ \E m \in 1 .. e : multiList[m].ssid = multiScan[n].ssid /\ ~ multiList[m].secret
  <2>1. n \notin Joinable(multiList, multiScan)
    BY <1>0, <1>2 DEF MultiInv, BestOf
  <2>2. PICK f : f = multiScan[n]
    OBVIOUS
  <2>3. PICK g : FirstFor(multiList, g, f)
    BY <1>2, <2>2, EntryFirst
  <2>4. ~ f.open /\ ~ multiList[g].secret
    BY <2>1, <2>2, <2>3 DEF Joinable, FirstFor
  <2>5. g \in 1 .. e
    BY <1>0, <1>2, <2>2, <2>3 DEF FirstFor
  <2> QED
    BY <2>2, <2>3, <2>4, <2>5 DEF FirstFor
<1>3. Multi!NothingPassedOver
  BY <1>2 DEF Multi!NothingPassedOver, MultiInv
<1> QED
  BY <1>1, <1>3 DEF Multi!JoinsStrongest

\* While the number of networks fits, run() says of a scan what it found, takes
\* the strongest network that can be joined and passes none over, whatever the
\* list and whatever was found.
THEOREM StrongestJoined ==
  ASSUME Multi!MultiAssumption
  PROVE  Multi!Spec => [](Multi!JoinsStrongest /\ Multi!NothingPassedOver)
<1>1. Multi!Init => MultiTypeOK /\ MultiInv
  BY DEF Multi!Init, MultiTypeOK, MultiInv
<1>2. MultiTypeOK /\ MultiInv /\ [Multi!Next]_(Multi!vars) => MultiTypeOK' /\ MultiInv'
  BY MultiTypes, MultiStep
<1>3. MultiTypeOK /\ MultiInv => Multi!JoinsStrongest /\ Multi!NothingPassedOver
  BY MultiChooses
<1> QED
  BY <1>1, <1>2, <1>3, PTL DEF Multi!Spec
-----------------------------------------------------------------------------
(* UDP: one socket that sends and receives.                                 *)

CONSTANTS Hosts, Group, Limit, MaxLength, MaxDatagrams, MaxPackets, MaxErrors
VARIABLES udp_server, multicast_ip, server_port, remote, tx_buffer, rx_buffer,
          datagrams, sockets, members, buffers, addressed, parsed, lastFrom,
          packets, written, onwire, udpErrors

Udp == INSTANCE WiFiUdp WITH
    MaxQueue <- MaxDatagrams, queue <- datagrams, errors <- udpErrors

Numbered == Nat \X Nat

UdpTypeOK ==
    /\ udp_server \in BOOLEAN /\ multicast_ip \in BOOLEAN /\ parsed \in BOOLEAN
    /\ tx_buffer \in [has : BOOLEAN, bytes : Seq(Numbered)]
    /\ \E has \in BOOLEAN : \E from, rest :
         rx_buffer = [has |-> has, from |-> from, left |-> rest]
    /\ \E to, due : \E bytes \in Seq(Numbered) :
         onwire = [to |-> to, due |-> due, bytes |-> bytes]
    /\ packets \in Nat /\ written \in Nat

\* Bytes of one packet without a gap, which fit a buffer.
Piece(b) ==
    /\ Len(b) <= Limit
    /\ \A i \in 1 .. Len(b) - 1 : b[i + 1] = <<b[i][1], b[i][2] + 1>>

\* Bytes of the packet p, up to the byte w of it.
Built(b, p, w) ==
    /\ Piece(b)
    /\ \A i \in 1 .. Len(b) : b[i][1] = p
    /\ b # <<>> => b[Len(b)] = <<p, w>>

\* What is built is of the packet begun last, up to the byte written last; the
\* address is where it is due.
UdpInv ==
    /\ Built(tx_buffer.bytes, packets, written)
    /\ Piece(onwire.bytes)
    /\ remote = Udp!Due
    /\ onwire.to = onwire.due
    /\ rx_buffer.has /\ parsed => remote = rx_buffer.from

LEMMA BuiltAppend ==
  ASSUME NEW b \in Seq(Numbered), NEW p \in Nat, NEW w \in Nat, NEW n,
         n = <<p, w + 1>>, Limit \in Nat, Built(b, p, w), Len(b) < Limit
  PROVE  Append(b, n) \in Seq(Numbered) /\ Built(Append(b, n), p, w + 1)
<1>1. n \in Numbered /\ n[1] = p
  BY DEF Numbered
<1>2. /\ Append(b, n) \in Seq(Numbered)
      /\ Len(b) \in Nat /\ Len(Append(b, n)) = Len(b) + 1
      /\ \A i \in 1 .. Len(b) : Append(b, n)[i] = b[i]
      /\ Append(b, n)[Len(b) + 1] = n
  BY <1>1
<1>3. Len(Append(b, n)) <= Limit
  BY <1>2
<1>4. ASSUME NEW i \in 1 .. Len(Append(b, n)) - 1
      PROVE  Append(b, n)[i + 1] = <<Append(b, n)[i][1], Append(b, n)[i][2] + 1>>
  <2>1. i \in 1 .. Len(b) /\ Append(b, n)[i] = b[i]
    BY <1>2
  <2>2. CASE i = Len(b)
    <3>1. b[i] = <<p, w>>
      BY <2>1, <2>2, <1>2 DEF Built
    <3>2. Append(b, n)[i + 1] = n
      BY <2>2, <1>2
    <3> QED
      BY <2>1, <3>1, <3>2
  <2>3. CASE i # Len(b)
    <3>1. i \in 1 .. Len(b) - 1 /\ i + 1 \in 1 .. Len(b)
      BY <2>1, <2>3, <1>2
    <3>2. b[i + 1] = <<b[i][1], b[i][2] + 1>>
      BY <3>1 DEF Built, Piece
    <3>3. Append(b, n)[i + 1] = b[i + 1]
      BY <3>1, <1>2
    <3> QED
      BY <2>1, <3>2, <3>3
  <2> QED
    BY <2>2, <2>3
<1>5. ASSUME NEW i \in 1 .. Len(Append(b, n))
      PROVE  Append(b, n)[i][1] = p
  <2>1. CASE i = Len(b) + 1
    BY <2>1, <1>1, <1>2
  <2>2. CASE i # Len(b) + 1
    <3>1. i \in 1 .. Len(b) /\ Append(b, n)[i] = b[i]
      BY <2>2, <1>2
    <3> QED
      BY <3>1 DEF Built
  <2> QED
    BY <2>1, <2>2
<1>6. Append(b, n)[Len(Append(b, n))] = <<p, w + 1>>
  BY <1>2
<1> QED
  BY <1>2, <1>3, <1>4, <1>5, <1>6 DEF Built, Piece

LEMMA BuiltNew ==
  ASSUME NEW p \in Nat, NEW w \in Nat, NEW n, n = <<p, w>>, Limit \in Nat \ {0}
  PROVE  /\ <<n>> \in Seq(Numbered) /\ Built(<<n>>, p, w)
         /\ <<>> \in Seq(Numbered) /\ Built(<<>>, p, w)
<1>1. n \in Numbered /\ n[1] = p
  BY DEF Numbered
<1>2. <<n>> \in Seq(Numbered) /\ Len(<<n>>) = 1 /\ <<n>>[1] = n
  BY <1>1
<1>3. Built(<<n>>, p, w)
  BY <1>1, <1>2 DEF Built, Piece
<1>4. <<>> \in Seq(Numbered) /\ Len(<<>>) = 0
  OBVIOUS
<1>5. Built(<<>>, p, w)
  BY <1>4 DEF Built, Piece
<1> QED
  BY <1>2, <1>3, <1>4, <1>5

LEMMA UdpTypes ==
  ASSUME Udp!UdpAssumption, UdpTypeOK, [Udp!Next]_(Udp!vars)
  PROVE  UdpTypeOK'
<1> USE DEF UdpTypeOK, Udp!UdpAssumption
<1>a. Udp!EmptyTx \in [has : BOOLEAN, bytes : Seq(Numbered)]
  BY DEF Udp!EmptyTx
<1>b. Udp!NoTx \in [has : BOOLEAN, bytes : Seq(Numbered)]
  BY DEF Udp!NoTx
<1>c. \E has \in BOOLEAN : \E from, rest :
        Udp!NoRx = [has |-> has, from |-> from, left |-> rest]
  BY DEF Udp!NoRx
<1>1. ASSUME NEW o \in BOOLEAN, NEW j \in BOOLEAN, NEW tx \in BOOLEAN,
             Udp!stopThen(o, j, tx),
             UNCHANGED <<packets, written, parsed, onwire>>
      PROVE  UdpTypeOK'
  <2>1. /\ udp_server' = o /\ multicast_ip' = j
        /\ tx_buffer' \in {Udp!EmptyTx, Udp!NoTx} /\ rx_buffer' = Udp!NoRx
    BY <1>1 DEF Udp!stopThen
  <2> QED
    BY <1>a, <1>b, <1>c, <1>1, <2>1
<1>2. CASE Udp!stop \/ Udp!begin \/ Udp!beginMulticast \/ Udp!BeginFails
  BY <1>1, <1>2 DEF Udp!stop, Udp!begin, Udp!beginMulticast, Udp!BeginFails, Udp!addresses
<1>3. ASSUME NEW a, Udp!Begin(a)
      PROVE  UdpTypeOK'
  <2>1. /\ tx_buffer' = Udp!EmptyTx /\ udp_server' = TRUE /\ packets' = packets + 1
        /\ written' = 0 /\ parsed' = FALSE
        /\ UNCHANGED <<rx_buffer, multicast_ip, onwire>>
    BY <1>3 DEF Udp!Begin, Udp!rxVars
  <2>2. packets' \in Nat /\ written' \in Nat
    BY <2>1
  <2>3. udp_server' \in BOOLEAN /\ multicast_ip' \in BOOLEAN /\ parsed' \in BOOLEAN
    BY <2>1, Zenon
  <2>4. /\ rx_buffer' = rx_buffer /\ onwire' = onwire
        /\ tx_buffer' \in [has : BOOLEAN, bytes : Seq(Numbered)]
    BY <1>a, <2>1, Zenon
  <2> QED
    BY <2>2, <2>3, <2>4, Zenon
<1>4. CASE Udp!write
  <2>1. PICK byte : byte = <<packets, written + 1>>
    OBVIOUS
  <2>2. byte \in Numbered
    BY <2>1 DEF Numbered
  <2>3. /\ \/ tx_buffer' = [tx_buffer EXCEPT !.bytes = Append(tx_buffer.bytes, byte)] /\ onwire' = onwire
           \/ /\ tx_buffer' = [tx_buffer EXCEPT !.bytes = <<byte>>]
              /\ \/ onwire' = onwire
                 \/ onwire' = [to |-> remote, due |-> Udp!Due, bytes |-> tx_buffer.bytes]
        /\ written' = written + 1
        /\ UNCHANGED <<rx_buffer, udp_server, multicast_ip, packets, parsed>>
    BY <1>4, <2>1 DEF Udp!write, Udp!Destination, Udp!Sent, Udp!rxVars, Udp!sockVars,
                      Udp!addresses
  <2>4. tx_buffer' \in [has : BOOLEAN, bytes : Seq(Numbered)]
    <3>1. Append(tx_buffer.bytes, byte) \in Seq(Numbered) /\ <<byte>> \in Seq(Numbered)
      BY <2>2
    <3> QED
      BY <2>3, <3>1
  <2>5. \E to, due : \E bytes \in Seq(Numbered) :
          onwire' = [to |-> to, due |-> due, bytes |-> bytes]
    BY <2>3
  <2>6. packets' \in Nat /\ written' \in Nat
    BY <2>3
  <2>7. /\ udp_server' \in BOOLEAN /\ multicast_ip' \in BOOLEAN /\ parsed' \in BOOLEAN
        /\ rx_buffer' = rx_buffer
    BY <2>3, Zenon
  <2> QED
    BY <2>4, <2>5, <2>6, <2>7, Zenon
<1>5. CASE Udp!endPacket
  <2>1. onwire' = [to |-> remote, due |-> Udp!Due, bytes |-> tx_buffer.bytes]
    BY <1>5 DEF Udp!endPacket, Udp!Sent
  <2> QED
    BY <1>5, <2>1 DEF Udp!endPacket, Udp!rxVars, Udp!sockVars, Udp!addresses
<1>6. CASE Udp!Arrive
  BY <1>6 DEF Udp!Arrive, Udp!txVars, Udp!addresses, Udp!sockVars
<1>7. CASE Udp!parsePacket
  <2>1. \E has \in BOOLEAN : \E from, rest :
          rx_buffer' = [has |-> has, from |-> from, left |-> rest]
    BY <1>7, <1>c DEF Udp!parsePacket
  <2> QED
    BY <1>7, <2>1 DEF Udp!parsePacket, Udp!sockVars
<1>8. CASE Udp!read
  <2>1. \E has \in BOOLEAN : \E from, rest :
          rx_buffer' = [has |-> has, from |-> from, left |-> rest]
    <3>1. CASE rx_buffer' = Udp!NoRx
      BY <3>1, <1>c
    <3>2. ASSUME NEW k, rx_buffer' = [rx_buffer EXCEPT !.left = rx_buffer.left - k]
          PROVE  \E has \in BOOLEAN : \E from, rest :
                   rx_buffer' = [has |-> has, from |-> from, left |-> rest]
      <4>1. PICK has \in BOOLEAN :
              \E from, rest : rx_buffer = [has |-> has, from |-> from, left |-> rest]
        OBVIOUS
      <4>2. PICK from, rest : rx_buffer = [has |-> has, from |-> from, left |-> rest]
        BY <4>1
      <4>3. rx_buffer' = [has |-> has, from |-> from, left |-> rx_buffer.left - k]
        BY <3>2, <4>2
      <4> QED
        BY <4>2, <4>3
    <3> QED
      BY <1>8, <3>1, <3>2 DEF Udp!read
  <2> QED
    BY <1>8, <2>1 DEF Udp!read, Udp!txVars, Udp!addresses, Udp!sockVars
<1>9. CASE UNCHANGED Udp!vars
  BY <1>9 DEF Udp!vars, Udp!txVars, Udp!addresses, Udp!rxVars, Udp!sockVars
<1> QED
  BY <1>2, <1>3, <1>4, <1>5, <1>6, <1>7, <1>8, <1>9
  DEF Udp!Next, Udp!beginPacketTo, Udp!beginPacket, Udp!beginMulticastPacket

\* What is open, joined or allocated is known; a group is joined on a socket.
UdpHolds == Udp!NothingLeaks /\ (multicast_ip => udp_server)

LEMMA UdpKeeps ==
  ASSUME UdpTypeOK, UdpTypeOK', UdpHolds, [Udp!Next]_(Udp!vars)
  PROVE  UdpHolds'
<1> USE DEF UdpHolds, Udp!NothingLeaks, Udp!Count, Udp!Held
<1>0. /\ udp_server \in BOOLEAN /\ multicast_ip \in BOOLEAN
      /\ tx_buffer.has \in BOOLEAN /\ rx_buffer.has \in BOOLEAN
      /\ Udp!EmptyTx.has = TRUE /\ Udp!NoTx.has = FALSE /\ Udp!NoRx.has = FALSE
  BY DEF UdpTypeOK, Udp!EmptyTx, Udp!NoTx, Udp!NoRx
<1>1. ASSUME NEW o \in BOOLEAN, NEW j \in BOOLEAN, NEW tx \in BOOLEAN,
             Udp!stopThen(o, j, tx), j => o
      PROVE  UdpHolds'
  BY <1>0, <1>1 DEF Udp!stopThen
<1>2. CASE Udp!stop \/ Udp!begin \/ Udp!beginMulticast \/ Udp!BeginFails
  BY <1>1, <1>2 DEF Udp!stop, Udp!begin, Udp!beginMulticast, Udp!BeginFails, Udp!addresses
<1>3. ASSUME NEW a, Udp!Begin(a)
      PROVE  UdpHolds'
  BY <1>0, <1>3 DEF Udp!Begin, Udp!rxVars
<1>4. CASE Udp!write
  <2>1. /\ tx_buffer'.has = tx_buffer.has
        /\ UNCHANGED <<rx_buffer, udp_server, multicast_ip, sockets, members, buffers>>
    BY <1>4 DEF Udp!write, Udp!rxVars, Udp!sockVars, UdpTypeOK
  <2> QED
    BY <2>1
<1>5. CASE Udp!endPacket
  BY <1>5 DEF Udp!endPacket, Udp!rxVars, Udp!sockVars
<1>6. CASE Udp!Arrive
  BY <1>6 DEF Udp!Arrive, Udp!txVars, Udp!addresses, Udp!sockVars
<1>7. CASE Udp!parsePacket
  <2>1. /\ rx_buffer.has = FALSE
        /\ buffers' = buffers + Udp!Count(rx_buffer'.has)
        /\ UNCHANGED <<tx_buffer, udp_server, multicast_ip, sockets, members>>
    BY <1>0, <1>7 DEF Udp!parsePacket, Udp!NothingUnread, Udp!sockVars
  <2> QED
    BY <1>0, <2>1
<1>8. CASE Udp!read
  <2>1. /\ rx_buffer.has = TRUE
        /\ \/ rx_buffer'.has = FALSE /\ buffers' = buffers - 1
           \/ rx_buffer'.has = TRUE /\ buffers' = buffers
        /\ UNCHANGED <<tx_buffer, udp_server, multicast_ip, sockets, members>>
    BY <1>0, <1>8 DEF Udp!read, Udp!txVars, Udp!addresses, Udp!sockVars, UdpTypeOK
  <2> QED
    BY <1>0, <2>1
<1>9. CASE UNCHANGED Udp!vars
  BY <1>9 DEF Udp!vars, Udp!txVars, Udp!addresses, Udp!rxVars, Udp!sockVars
<1> QED
  BY <1>2, <1>3, <1>4, <1>5, <1>6, <1>7, <1>8, <1>9
  DEF Udp!Next, Udp!beginPacketTo, Udp!beginPacket, Udp!beginMulticastPacket

LEMMA UdpStep ==
  ASSUME Udp!UdpAssumption, UdpTypeOK, UdpTypeOK', UdpInv, [Udp!Next]_(Udp!vars)
  PROVE  UdpInv'
<1> USE DEF Udp!UdpAssumption
<1>0. /\ packets \in Nat /\ written \in Nat /\ Limit \in Nat \ {0}
      /\ tx_buffer.bytes \in Seq(Numbered)
      /\ Built(<<>>, packets, written) /\ Built(<<>>, packets + 1, 0)
      /\ Udp!EmptyTx.bytes = <<>> /\ Udp!NoTx.bytes = <<>> /\ Udp!NoRx.has = FALSE
  <2>1. packets \in Nat /\ written \in Nat /\ packets + 1 \in Nat
    BY DEF UdpTypeOK
  <2>2. Built(<<>>, packets, written) /\ Built(<<>>, packets + 1, 0)
    BY <2>1, BuiltNew
  <2> QED
    BY <2>1, <2>2 DEF UdpTypeOK, Udp!EmptyTx, Udp!NoTx, Udp!NoRx
<1>1. ASSUME NEW o, NEW j, NEW tx, Udp!stopThen(o, j, tx),
             UNCHANGED <<remote, packets, written, addressed, parsed, lastFrom, onwire>>
      PROVE  UdpInv'
  <2>1. tx_buffer'.bytes = <<>> /\ rx_buffer'.has = FALSE
    BY <1>0, <1>1 DEF Udp!stopThen
  <2> QED
    BY <1>0, <1>1, <2>1 DEF UdpInv, Udp!Due
<1>2. CASE Udp!stop \/ Udp!begin \/ Udp!beginMulticast \/ Udp!BeginFails
  BY <1>1, <1>2 DEF Udp!stop, Udp!begin, Udp!beginMulticast, Udp!BeginFails, Udp!addresses
<1>3. ASSUME NEW a, Udp!Begin(a)
      PROVE  UdpInv'
  <2>1. /\ tx_buffer'.bytes = <<>> /\ packets' = packets + 1 /\ written' = 0
        /\ parsed' = FALSE /\ remote' = a /\ addressed' = a
        /\ UNCHANGED <<rx_buffer, onwire>>
    BY <1>0, <1>3 DEF Udp!Begin, Udp!rxVars
  <2> QED
    BY <1>0, <2>1 DEF UdpInv, Udp!Due
<1>4. CASE Udp!write
  <2>1. PICK byte : byte = <<packets, written + 1>>
    OBVIOUS
  <2>2. /\ written' = written + 1
        /\ UNCHANGED <<rx_buffer, remote, packets, addressed, parsed, lastFrom>>
    BY <1>4 DEF Udp!write, Udp!rxVars, Udp!addresses
  <2>3. CASE Len(tx_buffer.bytes) < Limit
    <3>1. tx_buffer'.bytes = Append(tx_buffer.bytes, byte) /\ onwire' = onwire
      BY <1>4, <2>1, <2>3 DEF Udp!write, Udp!Room, UdpTypeOK
    <3>2. Built(Append(tx_buffer.bytes, byte), packets, written + 1)
      BY <1>0, <2>1, <2>3, BuiltAppend DEF UdpInv
    <3> QED
      BY <2>2, <3>1, <3>2 DEF UdpInv, Udp!Due
  <2>4. CASE ~ (Len(tx_buffer.bytes) < Limit)
    <3>1. /\ tx_buffer'.bytes = <<byte>>
          /\ \/ onwire' = onwire
             \/ onwire' = [to |-> remote, due |-> Udp!Due, bytes |-> tx_buffer.bytes]
      BY <1>4, <2>1, <2>4 DEF Udp!write, Udp!Room, Udp!Destination, Udp!Sent, UdpTypeOK
    <3>2. Built(<<byte>>, packets, written + 1)
      <4>1. written + 1 \in Nat
        BY <1>0
      <4> QED
        BY <1>0, <2>1, <4>1, BuiltNew
    <3>3. CASE onwire' = onwire
      BY <2>2, <3>1, <3>2, <3>3 DEF UdpInv, Udp!Due
    <3>4. CASE onwire' = [to |-> remote, due |-> Udp!Due, bytes |-> tx_buffer.bytes]
      <4>1. onwire'.to = remote /\ onwire'.due = Udp!Due /\ onwire'.bytes = tx_buffer.bytes
        BY <3>4
      <4>2. remote' = Udp!Due' /\ Piece(onwire'.bytes)
        BY <2>2, <4>1 DEF UdpInv, Built, Udp!Due
      <4> QED
        BY <2>2, <3>1, <3>2, <4>1, <4>2 DEF UdpInv
    <3> QED
      BY <3>1, <3>3, <3>4
  <2> QED
    BY <2>3, <2>4
<1>5. CASE Udp!endPacket
  <2>1. /\ onwire'.to = remote /\ onwire'.due = Udp!Due /\ onwire'.bytes = tx_buffer.bytes
        /\ UNCHANGED <<tx_buffer, rx_buffer, remote, packets, written, addressed, parsed,
                       lastFrom>>
    BY <1>5 DEF Udp!endPacket, Udp!Sent, Udp!rxVars, Udp!addresses
  <2> QED
    BY <2>1 DEF UdpInv, Udp!Due, Built
<1>6. CASE Udp!Arrive
  BY <1>6 DEF Udp!Arrive, Udp!txVars, Udp!addresses, UdpInv, Udp!Due
<1>7. CASE Udp!parsePacket
  <2>1. /\ parsed' = TRUE /\ remote' = Head(datagrams).from /\ lastFrom' = remote'
        /\ rx_buffer'.has => rx_buffer'.from = Head(datagrams).from
        /\ UNCHANGED <<tx_buffer, packets, written, addressed, onwire>>
    BY <1>0, <1>7 DEF Udp!parsePacket, Udp!Sender
  <2> QED
    BY <2>1 DEF UdpInv, Udp!Due
<1>8. CASE Udp!read
  <2>1. /\ rx_buffer'.has => rx_buffer.has /\ rx_buffer'.from = rx_buffer.from
        /\ UNCHANGED <<tx_buffer, packets, written, addressed, parsed, lastFrom,
                       onwire, remote>>
    BY <1>0, <1>8 DEF Udp!read, Udp!txVars, Udp!addresses, UdpTypeOK
  <2> QED
    BY <2>1 DEF UdpInv, Udp!Due
<1>9. CASE UNCHANGED Udp!vars
  BY <1>9 DEF Udp!vars, Udp!txVars, Udp!addresses, Udp!rxVars, UdpInv, Udp!Due
<1> QED
  BY <1>2, <1>3, <1>4, <1>5, <1>6, <1>7, <1>8, <1>9
  DEF Udp!Next, Udp!beginPacketTo, Udp!beginPacket, Udp!beginMulticastPacket

\* Whatever the order of begin, packets, datagrams, errors and stop: nothing that
\* is open or allocated is forgotten, a datagram has bytes of one packet without a
\* gap and goes where it is due, and remoteIP() is the sender of what is read.
THEOREM DatagramsCorrect ==
  ASSUME Udp!UdpAssumption
  PROVE  Udp!Spec => [](/\ Udp!NothingLeaks /\ Udp!PiecesOfOnePacket
                        /\ Udp!SentWhereDue /\ Udp!RemoteIsSender)
<1>1. ASSUME Udp!Init
      PROVE  UdpTypeOK /\ UdpHolds /\ UdpInv
  <2>1. /\ <<>> \in Seq(Numbered) /\ Built(<<>>, 0, 0)
    BY BuiltNew DEF Udp!UdpAssumption
  <2>2. /\ Udp!NoTx = [has |-> FALSE, bytes |-> <<>>]
        /\ Udp!NoRx = [has |-> FALSE, from |-> Udp!Nowhere, left |-> 0]
    BY DEF Udp!NoTx, Udp!NoRx
  <2>3. UdpTypeOK
    <3>1. tx_buffer \in [has : BOOLEAN, bytes : Seq(Numbered)]
      BY <1>1, <2>1, <2>2 DEF Udp!Init
    <3>2. \E has \in BOOLEAN : \E from, rest :
            rx_buffer = [has |-> has, from |-> from, left |-> rest]
      BY <1>1, <2>2 DEF Udp!Init
    <3>3. \E to, due : \E bytes \in Seq(Numbered) :
            onwire = [to |-> to, due |-> due, bytes |-> bytes]
      BY <1>1, <2>1 DEF Udp!Init
    <3>4. /\ packets \in Nat /\ written \in Nat
          /\ udp_server \in BOOLEAN /\ multicast_ip \in BOOLEAN /\ parsed \in BOOLEAN
      BY <1>1 DEF Udp!Init
    <3> QED
      BY <3>1, <3>2, <3>3, <3>4, Zenon DEF UdpTypeOK
  <2>4. UdpHolds
    BY <1>1, <2>2 DEF Udp!Init, UdpHolds, Udp!NothingLeaks, Udp!Count, Udp!Held
  <2>5. UdpInv
    BY <1>1, <2>1, <2>2 DEF Udp!Init, UdpInv, Udp!Due, Built
  <2> QED
    BY <2>3, <2>4, <2>5
<1>2. UdpTypeOK /\ UdpHolds /\ UdpInv /\ [Udp!Next]_(Udp!vars)
        => UdpTypeOK' /\ UdpHolds' /\ UdpInv'
  BY UdpTypes, UdpKeeps, UdpStep
<1>3. UdpHolds /\ UdpInv => /\ Udp!NothingLeaks /\ Udp!PiecesOfOnePacket
                            /\ Udp!SentWhereDue /\ Udp!RemoteIsSender
  BY DEF UdpHolds, UdpInv, Piece, Udp!PiecesOfOnePacket,
         Udp!SentWhereDue, Udp!RemoteIsSender
<1> QED
  BY <1>1, <1>2, <1>3, PTL DEF Udp!Spec
=============================================================================
