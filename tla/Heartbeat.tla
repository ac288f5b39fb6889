----------------------------- MODULE Heartbeat ------------------------------
(***************************************************************************)
(* The watchdog over the VisualScope client: utilities/Heartbeat.hpp, the  *)
(* handlers of Manager.cpp that feed it (getData and the commands that     *)
(* change the roasting step) and send_data(), which reports the alert to   *)
(* the roaster as HEARBEAT-DEAD.                                           *)
(*                                                                         *)
(* Manager::run() is one loop of one thread.  An iteration dispatches at   *)
(* most MaxCommands commands of the client (webSocket.loop() reads one     *)
(* frame per socket slot), then calls beat.loop(), then send_data().  Time *)
(* passes anywhere between two calls of beat.loop(), at most MaxPeriod in  *)
(* all.                                                                    *)
(***************************************************************************)
EXTENDS Temporizador

CONSTANTS
    OfflineTime,   \* period of t_setoffline (3000 ms in the code)
    DeadTime,      \* time of t_isoffline (5000 ms in the code)
    MaxPeriod,     \* longest time between two calls of beat.loop()
    MaxCommands,   \* commands of the client in one iteration
    SteadyGap      \* longest silence of a client that polls steadily

ASSUME TimesAssumption ==
    /\ OfflineTime \in Nat \ {0}
    /\ DeadTime \in Nat \ {0}
    /\ MaxPeriod \in Nat \ {0}
    /\ MaxCommands \in Nat \ {0}
    /\ SteadyGap \in Nat
    \* the clock does not overtake a timer between two polls of it
    /\ OfflineTime + MaxPeriod <= Wrap
    /\ DeadTime + MaxPeriod <= Wrap

VARIABLES
    now,            \* ESPadapter::millisec()
    state,          \* Heartbeat::state
    step,           \* Heartbeat::step
    alert,          \* Heartbeat::alert
    t_setoffline,   \* marks the client offline every OfflineTime
    t_isoffline,    \* measures how long it has stayed offline
    heartbeatonce,  \* Manager::heartbeatonce
    pc,             \* the part of Manager::run() that is executing
    cmds,           \* commands handled in this iteration
    spent,          \* time spent since the last beat.loop()
    \* what an observer of the serial line and of the client sees
    deads,          \* HEARBEAT-DEAD printed since the last ALIVE
    mute,           \* how long an armed step has been without getData
    silence,        \* time since the last getData
    steady          \* silence has never exceeded SteadyGap

code == <<now, state, step, alert, t_setoffline, t_isoffline, heartbeatonce>>
loop == <<pc, cmds, spent>>
seen == <<deads, mute, silence, steady>>
vars == <<code, loop, seen>>

Status == {"online", "offline"}
Step   == {"ready", "roasting", "endroasting", "noready"}

\* A client silent for this long in an armed step has been reported.
DetectBound == OfflineTime + DeadTime + 3 * MaxPeriod - 1

\* The observer's clocks stop where no property tells them apart.
UpTo(cap, n) == IF n < cap THEN n ELSE cap

TypeOK ==
    /\ now \in Millis
    /\ state \in Status
    /\ step \in Step
    /\ alert \in BOOLEAN
    /\ t_setoffline \in Timer
    /\ t_isoffline \in Timer
    /\ heartbeatonce \in BOOLEAN
    /\ pc \in {"handlers", "send_data"}
    /\ cmds \in 0 .. MaxCommands
    /\ spent \in 0 .. MaxPeriod
    /\ deads \in 0 .. 2
    /\ mute \in 0 .. DetectBound
    /\ silence \in 0 .. SteadyGap + 1
    /\ steady \in BOOLEAN
-----------------------------------------------------------------------------
Init ==
    /\ now = 0
    /\ state = "offline"
    /\ step = "noready"
    /\ alert = FALSE
    /\ t_setoffline = NewTimer(FALSE, TRUE)
    /\ t_isoffline = NewTimer(FALSE, FALSE)
    /\ heartbeatonce = FALSE
    /\ pc = "handlers"
    /\ cmds = 0
    /\ spent = 0
    /\ deads = 0
    /\ mute = 0
    /\ silence = 0
    /\ steady = TRUE

\* The clock advances while the iteration runs.
Pass(d) ==
    /\ pc = "handlers"
    /\ spent + d <= MaxPeriod
    /\ now' = Tick(now, d)
    /\ spent' = spent + d
    /\ mute' = IF step = "noready" THEN 0 ELSE UpTo(DetectBound, mute + d)
    /\ silence' = UpTo(SteadyGap + 1, silence + d)
    /\ steady' = (steady /\ silence + d <= SteadyGap)
    /\ UNCHANGED <<state, step, alert, t_setoffline, t_isoffline,
                   heartbeatonce, pc, cmds, deads>>

\* The handler of getData: beat.set_status(online), ALIVE, alarm rearmed.
GetData ==
    /\ pc = "handlers"
    /\ cmds < MaxCommands
    /\ state' = "online"
    /\ heartbeatonce' = FALSE
    /\ alert' = FALSE
    /\ cmds' = cmds + 1
    /\ deads' = 0
    /\ mute' = 0
    /\ silence' = 0
    /\ UNCHANGED <<now, step, t_setoffline, t_isoffline, pc, spent, steady>>

\* The handlers of ready, oncharge, endRoasting and noready.
SetStep(stp) ==
    /\ pc = "handlers"
    /\ cmds < MaxCommands
    /\ step' = stp
    /\ cmds' = cmds + 1
    /\ mute' = IF stp = "noready" THEN 0 ELSE mute
    /\ UNCHANGED <<now, state, alert, t_setoffline, t_isoffline,
                   heartbeatonce, pc, spent, deads, silence, steady>>

\* Mutant: only the roasting steps are watched.
WatchedRoasting(stp, sta, t) ==
    IF stp \in {"roasting", "endroasting"} /\ sta = "offline"
      THEN Alive(t) ELSE Kill(t)

\* The eight conditions of Heartbeat::loop() on step and state: after them
\* t_isoffline is enabled when an armed step is offline or noready is
\* online, and killed in the two other cases.
Watched(stp, sta, t) ==
    IF (stp = "noready") = (sta = "online") THEN Alive(t) ELSE Kill(t)

BeatLoop ==
    /\ pc = "handlers"
    /\ pc' = "send_data"
    /\ spent' = 0
    /\ t_setoffline' = Tiempo(t_setoffline, now, OfflineTime)
    /\ state' = IF Fires(t_setoffline, now, OfflineTime)
                  THEN "offline" ELSE state
    /\ LET t == Watched(step, state', t_isoffline)
       IN  /\ alert' = (alert \/ Fires(t, now, DeadTime))
           /\ t_isoffline' = IF Fires(t, now, DeadTime)
                               THEN Kill(Tiempo(t, now, DeadTime))
                               ELSE Tiempo(t, now, DeadTime)
    /\ UNCHANGED <<now, step, heartbeatonce, cmds, deads, mute, silence,
                   steady>>

\* Mutant: heartbeatonce is forgotten.
SendDataAgain ==
    /\ pc = "send_data"
    /\ pc' = "handlers"
    /\ cmds' = 0
    /\ IF alert THEN deads' = UpTo(2, deads + 1) /\ alert' = FALSE
                ELSE UNCHANGED <<deads, alert>>
    /\ UNCHANGED <<now, state, step, t_setoffline, t_isoffline, heartbeatonce,
                   spent, mute, silence, steady>>

\* The heartbeat part of Manager::send_data().
SendData ==
    /\ pc = "send_data"
    /\ pc' = "handlers"
    /\ cmds' = 0
    /\ IF alert /\ ~heartbeatonce
         THEN /\ deads' = UpTo(2, deads + 1)
              /\ alert' = FALSE
              /\ heartbeatonce' = TRUE
         ELSE UNCHANGED <<deads, alert, heartbeatonce>>
    /\ UNCHANGED <<now, state, step, t_setoffline, t_isoffline, spent, mute,
                   silence, steady>>

Next ==
    \/ \E d \in 1 .. MaxPeriod : Pass(d)
    \/ GetData
    \/ \E stp \in Step : SetStep(stp)
    \/ BeatLoop
    \/ SendData

Spec == Init /\ [][Next]_vars
-----------------------------------------------------------------------------
\* HEARBEAT-DEAD is reported at most once between two ALIVE.
DeadOncePerAlive == deads <= 1

\* In an armed step (ready, roasting, endroasting) a client that has been
\* silent for DetectBound has been reported to the roaster.  The watchdog
\* can be late but it is never lost, whatever step changes happened before
\* and wherever the clock wraps.
DetectsSilence == pc = "handlers" /\ mute >= DetectBound => deads >= 1

\* "Cada 3 segundos poner offline (visualScope debera poner online)"
\* (Heartbeat.hpp:23): a client that polls within each OfflineTime stays
\* online, so the roaster is never told that it is dead.
PollingKeepsOnline == steady => deads = 0

\* A client that polls without ever being silent longer than SteadyGap is
\* never reported, whatever steps it goes through.
SteadyPollingNeverAlarms == steady => ~alert /\ deads = 0
=============================================================================
