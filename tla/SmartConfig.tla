---------------------------- MODULE SmartConfig -----------------------------
(***************************************************************************)
(* SmartConfig of WiFiSTA.cpp: a phone gives the station its network.  The *)
(* SDK listens and calls _smartConfigCallback() in a task of its own; the  *)
(* sketch starts, polls smartConfigDone() and may stop.  Both tasks read   *)
(* and write the two flags, one access to a step, and both can be inside   *)
(* stopSmartConfig() at once.                                              *)
(***************************************************************************)
EXTENDS Integers

CONSTANT MaxRounds     \* how often the sketch starts

VARIABLES
  _smartConfigStarted, _smartConfigDone,
  sdk,        \* what the SDK's service does: "off", "listening", "link", "over"
  stage,      \* where the SDK's task is in the callback
  sketch,     \* where the sketch is
  received,   \* a network of this round was given to the driver
  crossed,    \* this round began with the SDK's task still inside the callback
  rounds

flags == <<_smartConfigStarted, _smartConfigDone>>
history == <<received, crossed>>
vars == <<flags, sdk, stage, sketch, history, rounds>>

Tasks == {"sketch", "service"}
In(t) == IF t = "sketch" THEN sketch ELSE stage

Init ==
  /\ _smartConfigStarted = FALSE
  /\ _smartConfigDone = FALSE
  /\ sdk = "off"
  /\ stage = "idle"
  /\ sketch = "idle"
  /\ received = FALSE
  /\ crossed = FALSE
  /\ rounds = 0

----------------------------------------------------------------------------
(* beginSmartConfig(): the flags come after esp_smartconfig_start().       *)
beginSmartConfig ==
  /\ sketch = "idle" /\ rounds < MaxRounds
  /\ sketch' = IF _smartConfigStarted THEN "idle" ELSE "starting"
  /\ rounds' = rounds + 1
  /\ UNCHANGED <<flags, sdk, stage, history>>

esp_smartconfig_start ==
  /\ sketch = "starting" /\ sdk = "off"
  /\ sdk' = "listening"
  /\ sketch' = "started"
  /\ received' = FALSE
  /\ crossed' = (stage # "idle")
  /\ UNCHANGED <<flags, stage, rounds>>

(* mode(), or esp_smartconfig_start(), fails. *)
BeginFails ==
  /\ sketch = "starting"
  /\ sketch' = "idle"
  /\ UNCHANGED <<flags, sdk, stage, history, rounds>>

SetStarted ==
  /\ sketch = "started"
  /\ _smartConfigStarted' = TRUE
  /\ sketch' = "clearing"
  /\ UNCHANGED <<_smartConfigDone, sdk, stage, history, rounds>>

ClearDone ==
  /\ sketch = "clearing"
  /\ _smartConfigDone' = FALSE
  /\ sketch' = "polling"
  /\ UNCHANGED <<_smartConfigStarted, sdk, stage, history, rounds>>

(* smartConfigDone() in the loop of the example: poll until it is done. *)
Poll ==
  /\ sketch = "polling" /\ _smartConfigStarted
  /\ sketch' = "asking"
  /\ UNCHANGED <<flags, sdk, stage, history, rounds>>

smartConfigDone ==
  /\ sketch = "asking"
  /\ sketch' = IF _smartConfigDone THEN "seen" ELSE "polling"
  /\ UNCHANGED <<flags, sdk, stage, history, rounds>>

Leave ==
  /\ sketch = "seen"
  /\ sketch' = "idle"
  /\ UNCHANGED <<flags, sdk, stage, history, rounds>>

----------------------------------------------------------------------------
(* stopSmartConfig(): the test of the flag, the call, the flag.            *)

At(t, s) ==
  IF t = "sketch" THEN sketch' = s /\ UNCHANGED stage ELSE stage' = s /\ UNCHANGED sketch

stopSmartConfig(t) ==
  /\ In(t) = "stopping"
  /\ At(t, IF _smartConfigStarted THEN "stop" ELSE "idle")
  /\ UNCHANGED <<flags, sdk, history, rounds>>

(* The SDK may refuse; what does not run it may stop, too. *)
esp_smartconfig_stop(t) ==
  /\ In(t) = "stop"
  /\ \/ sdk' = "off" /\ At(t, "stopped")
     \/ At(t, "idle") /\ UNCHANGED sdk
  /\ UNCHANGED <<flags, history, rounds>>

Stopped(t) ==
  /\ In(t) = "stopped"
  /\ _smartConfigStarted' = FALSE
  /\ At(t, "idle")
  /\ UNCHANGED <<_smartConfigDone, sdk, history, rounds>>

SketchStops ==
  /\ sketch \in {"idle", "polling", "seen"}
  /\ sketch' = "stopping"
  /\ UNCHANGED <<flags, sdk, stage, history, rounds>>

----------------------------------------------------------------------------
(* _smartConfigCallback(), in the SDK's task: the driver gets the network, *)
(* then the flag is set.                                                   *)

Link ==
  /\ sdk = "listening" /\ stage = "idle"
  /\ sdk' = "link"
  /\ received' = TRUE
  /\ stage' = "linked"
  /\ UNCHANGED <<flags, sketch, crossed, rounds>>

SetDone ==
  /\ stage = "linked"
  /\ _smartConfigDone' = TRUE
  /\ stage' = "idle"
  /\ UNCHANGED <<_smartConfigStarted, sdk, sketch, history, rounds>>

LinkOver ==
  /\ sdk = "link" /\ stage = "idle"
  /\ sdk' = "over"
  /\ stage' = "stopping"
  /\ UNCHANGED <<flags, sketch, history, rounds>>

Next ==
  \/ beginSmartConfig \/ esp_smartconfig_start \/ BeginFails \/ SetStarted \/ ClearDone
  \/ Poll \/ smartConfigDone \/ Leave \/ SketchStops
  \/ Link \/ SetDone \/ LinkOver
  \/ \E t \in Tasks : stopSmartConfig(t) \/ esp_smartconfig_stop(t) \/ Stopped(t)

Spec == Init /\ [][Next]_vars

----------------------------------------------------------------------------
(* With nobody inside begin or stop, the flag says whether the SDK's       *)
(* service runs: it can always be stopped, and started again.  A round     *)
(* that begins before the SDK's task has left the callback of the one      *)
(* before is the exception: that task may still stop it, clear its flag    *)
(* or set it done.                                                         *)
FlagFollowsService ==
  stage \in {"idle", "linked"} /\ sketch \in {"idle", "polling", "asking", "seen"} =>
    (_smartConfigStarted <=> sdk # "off") \/ crossed

(* What the sketch is told was done was done in this round: a network was  *)
(* given to the driver.                                                    *)
DoneOfThisRound == sketch = "seen" => received \/ crossed
=============================================================================
