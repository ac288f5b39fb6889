------------------------------ MODULE WiFiScan ------------------------------
(***************************************************************************)
(* Scanning for networks: the sketch starts a scan, waits for it or asks   *)
(* for its state, and deletes its results; the network event task stores   *)
(* the results when the radio is done.  The two share the status bits and  *)
(* the static fields of WiFiScanClass, without a lock.                     *)
(*                                                                         *)
(* The radio is done at any time after it was started: before              *)
(* scanNetworks() has set its bits, or when its wait of 10 s or the        *)
(* time-out of an asynchronous scan is long over.                          *)
(***************************************************************************)
EXTENDS Integers, Sequences

CONSTANTS
    MaxNets,      \* networks a scan may find
    MaxScans      \* bound on the scans of a behaviour

ScanAssumption == MaxNets \in Nat /\ MaxScans \in Nat

VARIABLES
    pc,                     \* where the sketch is in scanNetworks()
    async,                  \* _scanAsync
    SCANNING, DONE,         \* WIFI_SCANNING_BIT, WIFI_SCAN_DONE_BIT
    scanCount, scanResult,  \* _scanCount; the array behind _scanResult, or None
    scanStarted,            \* _scanStarted is not 0
    radio,                  \* the scan the radio does, or 0
    scanQueue,              \* SYSTEM_EVENT_SCAN_DONE of these scans are queued
    task,                   \* where the event task is in _scanDone()
    \* history
    scan,                   \* number of the last scan
    late,                   \* a scan was given up, and from then on no scan
                            \* was started with nothing left of earlier ones
    overtaken,              \* the end of a scan was told while scanNetworks()
                            \* had still to set its bits
    leaked,                 \* the last array replaced one not deleted
    returned                \* what scanNetworks() returned: count and array, or None

scanVars == <<pc, async, SCANNING, DONE, scanCount, scanResult, scanStarted,
              radio, scanQueue, task, scan, late, overtaken, leaked, returned>>

None == [size |-> -1, of |-> 0]
Array(n, of) == [size |-> n, of |-> of]

Sketch == <<pc, async, scan, late, returned>>
Task == <<task, scanQueue, overtaken, leaked>>

\* No scan is anywhere between the radio and the end of _scanDone().
NothingRuns == radio = 0 /\ scanQueue = <<>> /\ task.at = "idle"

ScanInit ==
    /\ pc = "idle" /\ async = FALSE /\ SCANNING = FALSE /\ DONE = FALSE
    /\ scanCount = 0 /\ scanResult = None /\ scanStarted = FALSE
    /\ radio = 0 /\ scanQueue = <<>> /\ task = [at |-> "idle", of |-> 0]
    /\ scan = 0 /\ returned = None
    /\ late = FALSE /\ overtaken = FALSE /\ leaked = FALSE
-----------------------------------------------------------------------------
\* scanNetworks(), one statement that another task can see after the other.

Ready == ~ SCANNING

scanNetworks ==
    /\ pc = "idle" /\ scan < MaxScans /\ Ready
    /\ pc' = "delete" /\ async' \in BOOLEAN /\ returned' = None
    /\ late' = (late /\ ~ NothingRuns) /\ overtaken' = FALSE
    /\ UNCHANGED <<SCANNING, DONE, scanCount, scanResult, scanStarted, radio,
                   task, scanQueue, leaked, scan>>

\* scanDelete()
Drop ==
    /\ DONE' = FALSE
    /\ scanResult' = None
    /\ scanCount' = IF scanResult = None THEN scanCount ELSE 0

DeleteFirst ==
    /\ pc = "delete" /\ Drop
    /\ pc' = "start"
    /\ UNCHANGED <<async, SCANNING, scanStarted, radio, Task, scan, late, returned>>

\* esp_wifi_scan_start() refuses while the radio scans, and may fail.
Start ==
    /\ pc = "start"
    /\ \/ radio = 0 /\ radio' = scan + 1 /\ scan' = scan + 1 /\ pc' = "stamp"
       \/ pc' = "idle" /\ UNCHANGED <<radio, scan>>
    /\ UNCHANGED <<async, SCANNING, DONE, scanCount, scanResult, scanStarted,
                   Task, late, returned>>

Stamp ==
    /\ pc = "stamp" /\ pc' = "clear" /\ scanStarted' = TRUE
    /\ UNCHANGED <<async, SCANNING, DONE, scanCount, scanResult, radio, Task,
                   scan, late, returned>>

ClearDone ==
    /\ pc = "clear" /\ pc' = "set" /\ DONE' = FALSE
    /\ UNCHANGED <<async, SCANNING, scanCount, scanResult, scanStarted, radio,
                   Task, scan, late, returned>>

SetScanning ==
    /\ pc = "set" /\ pc' = IF async THEN "idle" ELSE "wait"
    /\ SCANNING' = TRUE
    /\ UNCHANGED <<async, DONE, scanCount, scanResult, scanStarted, radio, Task,
                   scan, late, returned>>

\* The wait of a synchronous scan ends with the count, or after 10 s.
Waited ==
    /\ pc = "wait" /\ pc' = "idle"
    /\ \/ DONE /\ returned' = Array(scanCount, scanResult.of) /\ UNCHANGED late
       \/ ~ DONE /\ late' = TRUE /\ UNCHANGED returned
    /\ UNCHANGED <<async, SCANNING, DONE, scanCount, scanResult, scanStarted,
                   radio, Task, scan>>

\* scanComplete() gives up a scan that is over its time.
scanComplete ==
    /\ pc = "idle" /\ scanStarted
    /\ SCANNING' = FALSE /\ late' = TRUE
    /\ UNCHANGED <<pc, async, DONE, scanCount, scanResult, scanStarted, radio,
                   Task, scan, returned>>

scanDelete ==
    /\ pc = "idle" /\ Drop /\ returned' = None
    /\ UNCHANGED <<pc, async, SCANNING, scanStarted, radio, Task, scan, late>>
\* _getScanInfoByIndex(): the record that a getter reads, if it reads one.
getScanInfoByIndex(i) ==
    IF scanResult = None \/ i >= scanCount THEN {} ELSE {i}

\* The getters of a record: SSID(), RSSI(), BSSID() and the others read its
\* fields, or answer with a default.
ReadBy(getters) == UNION {getScanInfoByIndex(i) : i \in getters}
-----------------------------------------------------------------------------
\* The radio is done, and the event is queued.
RadioDone ==
    /\ radio # 0
    /\ radio' = 0 /\ scanQueue' = Append(scanQueue, radio)
    /\ UNCHANGED <<Sketch, SCANNING, DONE, scanCount, scanResult, scanStarted,
                   task, overtaken, leaked>>

\* _scanDone(): the number of networks, the array, and its records.
scanDone ==
    /\ task.at = "idle" /\ scanQueue # <<>>
    /\ task' = [at |-> "store", of |-> Head(scanQueue)] /\ scanQueue' = Tail(scanQueue)
    /\ scanCount' \in 0 .. MaxNets
    /\ UNCHANGED <<Sketch, SCANNING, DONE, scanResult, scanStarted, radio,
                   overtaken, leaked>>

Store ==
    /\ task.at = "store" /\ task' = [task EXCEPT !.at = "fill"]
    /\ leaked' = (scanCount # 0 /\ scanResult # None)
    /\ scanResult' = IF scanCount = 0 THEN scanResult ELSE Array(scanCount, task.of)
    /\ UNCHANGED <<Sketch, SCANNING, DONE, scanCount, scanStarted, radio,
                   scanQueue, overtaken>>

\* The records are read into the array, unless it is gone or the driver refuses.
Fill ==
    /\ task.at = "fill" /\ task' = [task EXCEPT !.at = "unstamp"]
    /\ scanCount' \in IF scanResult = None THEN {0} ELSE {scanCount, 0}
    /\ UNCHANGED <<Sketch, SCANNING, DONE, scanResult, scanStarted, radio,
                   scanQueue, overtaken, leaked>>

Unstamp ==
    /\ task.at = "unstamp" /\ task' = [task EXCEPT !.at = "done"]
    /\ scanStarted' = FALSE
    /\ UNCHANGED <<Sketch, SCANNING, DONE, scanCount, scanResult, radio,
                   scanQueue, overtaken, leaked>>

SetDone ==
    /\ task.at = "done" /\ task' = [task EXCEPT !.at = "clear"]
    /\ DONE' = TRUE
    /\ UNCHANGED <<Sketch, SCANNING, scanCount, scanResult, scanStarted, radio,
                   scanQueue, overtaken, leaked>>

\* Mutant: the end of the scan is not told to scanNetworks().
ClearForgotten == UNCHANGED SCANNING

Clear == SCANNING' = FALSE

ClearScanning ==
    /\ task.at = "clear" /\ task' = [at |-> "idle", of |-> 0]
    /\ Clear
    /\ overtaken' = (overtaken \/ pc \in {"stamp", "clear", "set"})
    /\ UNCHANGED <<Sketch, DONE, scanCount, scanResult, scanStarted, radio,
                   scanQueue, leaked>>

ScanNext ==
    \/ scanNetworks \/ DeleteFirst \/ Start \/ Stamp \/ ClearDone \/ SetScanning
    \/ Waited \/ scanComplete \/ scanDelete
    \/ RadioDone \/ scanDone \/ Store \/ Fill \/ Unstamp \/ SetDone \/ ClearScanning

ScanSpec == ScanInit /\ [][ScanNext]_scanVars
-----------------------------------------------------------------------------
\* No getter reads a record behind the end of the array; but for the moment in
\* which _scanDone() has a new count and the array of a scan is still there that
\* was stored after its call had given it up.
RecordsInBounds ==
    pc = "idle" /\ (task.at = "store" => ~ late) =>
        \A i \in ReadBy(0 .. MaxNets) : i < scanResult.size

\* A scan that was given up goes on in the radio.  Unless something is left of
\* such a one, no array is replaced before it is deleted ...
NoArrayLost == task.at = "fill" /\ ~ late => ~ leaked

\* ... and a count that scanNetworks() returns belongs to the records of its scan.
ResultsOfThisScan ==
    ~ late /\ returned.size > 0 => returned.of = scan

\* The comment on scanComplete(), "-1 if scan not fin": the scanning bit is set
\* only while a scan, or its event, is on its way, or because the end of the scan
\* was told before scanNetworks() had set the bit.
RunningMeansRunning ==
    SCANNING /\ pc = "idle" => ~ NothingRuns \/ overtaken

\* The count, the array and the bits agree with the scan they belong to, as the
\* four of them say.
ScanAgrees == RecordsInBounds /\ NoArrayLost /\ ResultsOfThisScan /\ RunningMeansRunning
=============================================================================
