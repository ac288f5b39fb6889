------------------------------ MODULE MainLoop ------------------------------
(***************************************************************************)
(* Manager::run() with the one command that keeps it: PAIR.  For PairTime  *)
(* the loop is inside PairingManager::executePairing(): VisualScope is not *)
(* registered, its frames reach nobody, and neither beat.loop() nor        *)
(* send_data() is called.  The watchdog is Heartbeat's; processEvent(),    *)
(* which runs PAIR, stands between the handlers of the clients and         *)
(* beat.loop().                                                            *)
(***************************************************************************)
EXTENDS Heartbeat

CONSTANT
    PairTime       \* maxTimeSearch (30000 ms) and the two softAP() around it

PairAssumption ==
    /\ PairTime \in Nat \ {0}
    /\ OfflineTime + MaxPeriod + PairTime <= Wrap
    /\ DeadTime + MaxPeriod + PairTime <= Wrap

VARIABLES
    served,    \* webSocket.loop() of this iteration is over
    since,     \* time since the end of the last round, outside of rounds
    counting   \* t_isoffline was running when that round began

round == <<since, counting>>
mainVars == <<vars, served, round>>

MainTypeOK ==
    /\ TypeOK
    /\ served \in BOOLEAN
    /\ since \in 0 .. DetectBound
    /\ counting \in BOOLEAN

MainInit == Init /\ served = FALSE /\ since = DetectBound /\ counting = FALSE

webSocketLoop ==
    /\ ~served
    /\ GetData \/ \E stp \in Step : SetStep(stp)
    /\ UNCHANGED <<served, since, counting>>

PassTime(d) ==
    /\ Pass(d)
    /\ since' = UpTo(DetectBound, since + d)
    /\ UNCHANGED <<served, counting>>

\* Mutant: both timers are stopped for the round.
executePairingKills ==
    /\ now' = Tick(now, PairTime)
    /\ t_setoffline' = Kill(t_setoffline)
    /\ t_isoffline' = Kill(t_isoffline)
    /\ UNCHANGED <<state, step>>

\* Mutant: the watchdog's second timer is restarted for the round.
executePairingRestarts ==
    /\ now' = Tick(now, PairTime)
    /\ t_isoffline' = [Alive(t_isoffline) EXCEPT !.running = TRUE, !.contador = now]
    /\ UNCHANGED <<state, step, t_setoffline>>

\* What a round changes of what the watchdog sees: only the time.
executePairing ==
    /\ now' = Tick(now, PairTime)
    /\ UNCHANGED <<state, step, t_setoffline, t_isoffline>>

\* The handler of PAIR, the last thing processEvent() does.
PAIR ==
    /\ pc = "handlers"
    /\ ~served
    /\ served' = TRUE
    /\ executePairing
    /\ mute' = IF step = "noready" THEN 0 ELSE UpTo(DetectBound, mute + PairTime)
    /\ silence' = UpTo(SteadyGap + 1, silence + PairTime)
    /\ steady' = (steady /\ silence + PairTime <= SteadyGap)
    /\ since' = 0
    /\ counting' = t_isoffline.running
    /\ UNCHANGED <<alert, heartbeatonce, loop, deads>>

beatLoop == BeatLoop /\ UNCHANGED <<served, round>>

send_data == SendData /\ served' = FALSE /\ UNCHANGED round

MainNext ==
    \/ \E d \in 1 .. MaxPeriod : PassTime(d)
    \/ webSocketLoop
    \/ PAIR
    \/ beatLoop
    \/ send_data

MainSpec == MainInit /\ [][MainNext]_mainVars
-----------------------------------------------------------------------------
\* A round does not lose the watchdog: a client that is still silent once
\* the loop has run for DetectBound again has been reported, whatever the
\* timers held when the round began and wherever the clock wrapped in it.
DetectsAfterPairing ==
    pc = "handlers" /\ mute >= DetectBound /\ since >= DetectBound => deads >= 1

\* A round alone is no alarm: a client whose silence was not being counted
\* when PAIR came has DeadTime after it to come back.
GraceAfterPairing ==
    [][alert' /\ ~alert /\ ~counting => since >= DeadTime]_mainVars
=============================================================================
