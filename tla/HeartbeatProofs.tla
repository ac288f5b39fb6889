-------------------------- MODULE HeartbeatProofs ---------------------------
(***************************************************************************)
(* Proofs about Heartbeat, for every clock width, every timer setting and  *)
(* every loop period that TimesAssumption admits, and about MainLoop, for  *)
(* every length of a pairing round that PairAssumption admits.             *)
(***************************************************************************)
EXTENDS MainLoop, TLAPS

-----------------------------------------------------------------------------
\* The unsigned difference of two clock readings is a clock reading, and it
\* is zero only for the same reading.
LEMMA ElapsedType ==
  ASSUME NEW n \in Millis, NEW m \in Millis
  PROVE  Elapsed(n, m) \in Millis /\ Elapsed(n, m) \in Nat /\ Elapsed(n, n) = 0
BY WrapAssumption DEF Elapsed, Millis

\* The difference grows with the clock, across its wrap to zero too, as long
\* as it stays below Wrap.
LEMMA ElapsedTick ==
  ASSUME NEW n \in Millis, NEW m \in Millis, NEW d \in Nat,
         Elapsed(n, m) + d < Wrap
  PROVE  /\ Tick(n, d) \in Millis
         /\ Elapsed(Tick(n, d), m) = Elapsed(n, m) + d
BY WrapAssumption DEF Elapsed, Tick, Millis

\* What a call of tiempo() does to a timer, in terms of its fields: a timer
\* just armed cannot fire in the same call.
LEMMA TiempoFacts ==
  ASSUME NEW t \in Timer, NEW n \in Millis, NEW time \in Nat \ {0}
  PROVE  /\ Fires(t, n, time) \in BOOLEAN
         /\ Fires(t, n, time) <=>
              t.enable /\ t.running /\ Elapsed(n, t.contador) >= time
         /\ Tiempo(t, n, time) \in Timer
         /\ Tiempo(t, n, time).enable = t.enable
         /\ Tiempo(t, n, time).running
              <=> (t.running \/ t.enable) /\ ~Fires(t, n, time)
         /\ Tiempo(t, n, time).contador =
              IF t.enable /\ ~t.running THEN n ELSE t.contador
<1> DEFINE a == Armed(t, n)
           f == Fires(t, n, time)
<1>1. Elapsed(n, n) = 0 /\ Elapsed(n, t.contador) \in Millis
  BY ElapsedType DEF Timer
<1>2. /\ a \in Timer
      /\ a.enable = t.enable
      /\ a.running <=> (t.running \/ t.enable)
      /\ a.contador = IF t.enable /\ ~t.running THEN n ELSE t.contador
  BY DEF Timer, Armed
<1>3. f <=> a.enable /\ a.running /\ Elapsed(n, a.contador) >= time
  BY DEF Fires
<1>4. f \in BOOLEAN
  BY <1>2, <1>3 DEF Fires, Timer
<1>5. f <=> t.enable /\ t.running /\ Elapsed(n, t.contador) >= time
  BY <1>1, <1>2, <1>3 DEF Timer, Millis
<1>6. Tiempo(t, n, time) = [a EXCEPT !.running = a.running /\ ~f]
  BY DEF Tiempo
<1> HIDE DEF a, f
<1>7. /\ Tiempo(t, n, time) \in Timer
      /\ Tiempo(t, n, time).enable = a.enable
      /\ Tiempo(t, n, time).running <=> a.running /\ ~f
      /\ Tiempo(t, n, time).contador = a.contador
  BY <1>2, <1>4, <1>6 DEF Timer
<1>8. QED
  BY <1>2, <1>4, <1>5, <1>7 DEF f

\* Heartbeat::loop() enables or kills t_isoffline before it polls it.
LEMMA WatchedFacts ==
  ASSUME NEW t \in Timer, NEW stp, NEW sta
  PROVE  /\ Watched(stp, sta, t) \in Timer
         /\ Kill(t) \in Timer /\ ~Kill(t).running /\ ~Kill(t).enable
         /\ Watched(stp, sta, t).enable <=>
              ((stp = "noready") = (sta = "online"))
         /\ Watched(stp, sta, t).running <=>
              t.running /\ ((stp = "noready") = (sta = "online"))
         /\ Watched(stp, sta, t).contador = t.contador
BY DEF Timer, Watched, Alive, Kill

-----------------------------------------------------------------------------
\* The watchdog starts with its types, and every step keeps them.
LEMMA TypeInit == Init => TypeOK
<1>1. /\ 0 \in Millis /\ 0 \in 0 .. MaxCommands /\ 0 \in 0 .. MaxPeriod
      /\ 0 \in 0 .. 2 /\ 0 \in 0 .. DetectBound /\ 0 \in 0 .. SteadyGap + 1
  BY TimesAssumption, WrapAssumption DEF Millis, DetectBound
<1>2. NewTimer(FALSE, TRUE) \in Timer /\ NewTimer(FALSE, FALSE) \in Timer
  BY <1>1 DEF NewTimer, Timer
<1>3. QED
  BY <1>1, <1>2 DEF Init, TypeOK, Status, Step

LEMMA TypeStep ==
  ASSUME TypeOK, [Next]_vars
  PROVE  TypeOK'
<1> USE TimesAssumption, WrapAssumption
<1>1. ASSUME NEW d \in 1 .. MaxPeriod, Pass(d)
      PROVE  TypeOK'
  <2>1. Tick(now, d) \in Millis
    BY DEF Tick, Millis, TypeOK
  <2>2. spent + d \in 0 .. MaxPeriod
    BY <1>1 DEF Pass, TypeOK
  <2>3. UpTo(DetectBound, mute + d) \in 0 .. DetectBound
    BY DEF TypeOK, UpTo, DetectBound
  <2>4. UpTo(SteadyGap + 1, silence + d) \in 0 .. SteadyGap + 1
    BY DEF TypeOK, UpTo
  <2>5. 0 \in 0 .. DetectBound
    BY DEF DetectBound
  <2>6. QED
    BY <1>1, <2>1, <2>2, <2>3, <2>4, <2>5 DEF Pass, TypeOK
<1>2. CASE GetData
  <2>1. 0 \in 0 .. DetectBound /\ 0 \in 0 .. 2 /\ 0 \in 0 .. SteadyGap + 1
    BY DEF DetectBound
  <2>2. cmds + 1 \in 0 .. MaxCommands
    BY <1>2 DEF GetData, TypeOK
  <2>3. QED
    BY <1>2, <2>1, <2>2 DEF GetData, TypeOK, Status
<1>3. ASSUME NEW stp \in Step, SetStep(stp)
      PROVE  TypeOK'
  BY <1>3 DEF SetStep, TypeOK, DetectBound
<1>4. CASE BeatLoop
  <2> DEFINE t == Watched(step, state', t_isoffline)
  <2>1. t_setoffline' \in Timer /\ state' \in Status
    BY <1>4, TiempoFacts DEF BeatLoop, TypeOK, Status
  <2>2. t \in Timer /\ now \in Millis
    BY WatchedFacts DEF TypeOK
  <2>3. Tiempo(t, now, DeadTime) \in Timer /\ Fires(t, now, DeadTime) \in BOOLEAN
    BY <2>2, TiempoFacts
  <2>4. t_isoffline' \in Timer
    BY <1>4, <2>3, WatchedFacts DEF BeatLoop
  <2>5. alert' \in BOOLEAN
    BY <1>4, <2>3 DEF BeatLoop, TypeOK
  <2>6. QED
    BY <1>4, <2>1, <2>4, <2>5 DEF BeatLoop, TypeOK
<1>5. CASE SendData
  <2>1. UpTo(2, deads + 1) \in 0 .. 2
    BY DEF TypeOK, UpTo
  <2>2. 0 \in 0 .. MaxCommands
    OBVIOUS
  <2>3. QED
    BY <1>5, <2>1, <2>2 DEF SendData, TypeOK
<1>6. CASE UNCHANGED vars
  BY <1>6 DEF vars, code, loop, seen, TypeOK
<1>7. QED
  BY <1>1, <1>2, <1>3, <1>4, <1>5, <1>6 DEF Next

\* Type correctness of the watchdog.
THEOREM TypeCorrect == Spec => []TypeOK
BY TypeInit, TypeStep, PTL DEF Spec
-----------------------------------------------------------------------------
\* The inductive invariants of the watchdog.

SetElapsed == Elapsed(now, t_setoffline.contador)
IsElapsed  == Elapsed(now, t_isoffline.contador)

\* A running timer was polled by the last beat.loop() and had not fired, so
\* it overshoots its time by less than the time spent since.  This is what
\* keeps the unsigned differences below Wrap.
TimersInv ==
    /\ t_setoffline.enable
    /\ pc = "send_data" => spent = 0
    /\ t_setoffline.running =>
         spent <= SetElapsed /\ SetElapsed < OfflineTime + spent
    /\ t_isoffline.running =>
         /\ t_isoffline.enable
         /\ spent <= IsElapsed /\ IsElapsed < DeadTime + spent

\* heartbeatonce remembers the report, and an alert that survives send_data
\* has been reported already.
ReportInv ==
    /\ deads = IF heartbeatonce THEN 1 ELSE 0
    /\ pc = "handlers" /\ alert => heartbeatonce

\* How long an armed step can have been without getData: while online it is
\* what t_setoffline has counted, while offline what t_isoffline has.
DetectInv ==
    /\ step = "noready" => mute = 0
    /\ state = "online" =>
         mute <= IF t_setoffline.running THEN SetElapsed + MaxPeriod
                                         ELSE spent
    /\ state = "offline" /\ ~alert /\ deads = 0 =>
         mute <= IF t_isoffline.running
                   THEN IsElapsed + OfflineTime + 2 * MaxPeriod - 1
                   ELSE spent
-----------------------------------------------------------------------------
\* Passing time adds to both timers, across the wrap of the clock, as long as
\* it does not overtake them.
LEMMA ClockFacts ==
  ASSUME TypeOK, NEW d \in Nat, now' = Tick(now, d),
         UNCHANGED <<t_setoffline, t_isoffline>>,
         t_setoffline.running => SetElapsed + d < Wrap,
         t_isoffline.running => IsElapsed + d < Wrap
  PROVE  /\ t_setoffline.running =>
              SetElapsed \in Nat /\ SetElapsed' = SetElapsed + d
         /\ t_isoffline.running =>
              IsElapsed \in Nat /\ IsElapsed' = IsElapsed + d
<1>1. /\ now \in Millis
      /\ t_setoffline.contador \in Millis /\ t_isoffline.contador \in Millis
  BY DEF TypeOK, Timer
<1>2. SetElapsed \in Nat /\ IsElapsed \in Nat
  BY <1>1, ElapsedType DEF SetElapsed, IsElapsed
<1>3. t_setoffline.running => SetElapsed' = SetElapsed + d
  BY <1>1, ElapsedTick DEF SetElapsed
<1>4. t_isoffline.running => IsElapsed' = IsElapsed + d
  BY <1>1, ElapsedTick DEF IsElapsed
<1>5. QED
  BY <1>2, <1>3, <1>4

LEMMA PassFacts ==
  ASSUME TypeOK, TimersInv, NEW d \in 1 .. MaxPeriod, Pass(d)
  PROVE  /\ spent \in Nat /\ spent + d <= MaxPeriod /\ spent' = spent + d
         /\ t_setoffline.running =>
              SetElapsed \in Nat /\ SetElapsed' = SetElapsed + d
         /\ t_isoffline.running =>
              IsElapsed \in Nat /\ IsElapsed' = IsElapsed + d
<1>1. /\ spent \in Nat /\ d \in Nat /\ spent + d <= MaxPeriod
      /\ spent' = spent + d /\ now' = Tick(now, d)
      /\ t_setoffline' = t_setoffline /\ t_isoffline' = t_isoffline
  BY DEF Pass, TypeOK
<1>2. SetElapsed \in Nat /\ IsElapsed \in Nat
  BY ElapsedType DEF TypeOK, Timer, SetElapsed, IsElapsed
<1>3. /\ t_setoffline.running => SetElapsed + d < Wrap
      /\ t_isoffline.running => IsElapsed + d < Wrap
  BY <1>1, <1>2, TimesAssumption, WrapAssumption DEF TimersInv
<1>4. QED
  BY <1>1, <1>3, ClockFacts

\* One call of beat.loop(), in terms of what the two timers have counted.
LEMMA BeatLoopFacts ==
  ASSUME TypeOK, t_setoffline.enable, BeatLoop
  PROVE  LET fire    == t_setoffline.running /\ SetElapsed >= OfflineTime
             watched == (step = "noready") = (state' = "online")
             dead    == /\ watched
                        /\ t_isoffline.running
                        /\ IsElapsed >= DeadTime
         IN  /\ SetElapsed \in Nat /\ IsElapsed \in Nat
             /\ state' = IF fire THEN "offline" ELSE state
             /\ t_setoffline'.enable
             /\ t_setoffline'.running <=> ~fire
             /\ t_setoffline'.running =>
                  SetElapsed' = IF t_setoffline.running THEN SetElapsed ELSE 0
             /\ alert' <=> alert \/ dead
             /\ t_isoffline'.running <=> watched /\ ~dead
             /\ t_isoffline'.running =>
                  /\ t_isoffline'.enable
                  /\ IsElapsed' = IF t_isoffline.running THEN IsElapsed ELSE 0
<1> DEFINE fire    == t_setoffline.running /\ SetElapsed >= OfflineTime
           watched == (step = "noready") = (state' = "online")
           dead    == watched /\ t_isoffline.running /\ IsElapsed >= DeadTime
           t       == Watched(step, state', t_isoffline)
           u       == Tiempo(t, now, DeadTime)
<1>1. /\ now \in Millis /\ now' = now
      /\ t_setoffline \in Timer /\ t_isoffline \in Timer
      /\ t_setoffline.contador \in Millis /\ t_isoffline.contador \in Millis
  BY DEF TypeOK, Timer, BeatLoop
<1>2. SetElapsed \in Nat /\ IsElapsed \in Nat /\ Elapsed(now, now) = 0
  BY <1>1, ElapsedType DEF SetElapsed, IsElapsed
<1>3. OfflineTime \in Nat \ {0} /\ DeadTime \in Nat \ {0}
  BY TimesAssumption
<1>4. Fires(t_setoffline, now, OfflineTime) <=> fire
  BY <1>1, <1>3, TiempoFacts DEF SetElapsed
<1>5. state' = IF fire THEN "offline" ELSE state
  BY <1>4 DEF BeatLoop
<1>6. /\ t_setoffline'.enable
      /\ t_setoffline'.running <=> ~fire
      /\ t_setoffline'.contador =
           IF t_setoffline.running THEN t_setoffline.contador ELSE now
  BY <1>1, <1>3, <1>4, TiempoFacts DEF BeatLoop
<1>7. SetElapsed' = IF t_setoffline.running THEN SetElapsed ELSE 0
  BY <1>1, <1>2, <1>6 DEF SetElapsed
<1>8. /\ t \in Timer
      /\ t.enable <=> watched
      /\ t.running <=> t_isoffline.running /\ watched
      /\ t.contador = t_isoffline.contador
  BY <1>1, WatchedFacts
<1>9. Fires(t, now, DeadTime) <=> dead
  BY <1>1, <1>3, <1>8, TiempoFacts DEF IsElapsed
<1>10. /\ u \in Timer
       /\ u.enable <=> watched
       /\ u.running <=> watched /\ ~dead
       /\ watched => u.contador = IF t_isoffline.running
                                    THEN t_isoffline.contador ELSE now
  BY <1>1, <1>3, <1>8, <1>9, TiempoFacts
<1>11. /\ alert' <=> alert \/ dead
       /\ t_isoffline' = IF dead THEN Kill(u) ELSE u
  BY <1>9 DEF BeatLoop
<1>12. /\ t_isoffline'.running <=> watched /\ ~dead
       /\ t_isoffline'.running => t_isoffline'.enable
       /\ t_isoffline'.running => t_isoffline'.contador = u.contador
  BY <1>10, <1>11, WatchedFacts
<1>13. t_isoffline'.running =>
         IsElapsed' = IF t_isoffline.running THEN IsElapsed ELSE 0
  BY <1>1, <1>2, <1>10, <1>12 DEF IsElapsed
<1>14. QED
  BY <1>2, <1>5, <1>6, <1>7, <1>11, <1>12, <1>13
-----------------------------------------------------------------------------
\* The timers never overshoot by more than the time of one iteration, so the
\* wrap of the millisecond clock is never mistaken for a short time.
THEOREM TimersCorrect == Spec => []TimersInv
<1>1. Init => TimersInv
  BY DEF Init, TimersInv, NewTimer
<1>2. ASSUME TypeOK, TimersInv, [Next]_vars
      PROVE  TimersInv'
  <2> USE <1>2
  <2>8. t_setoffline.enable
    BY DEF TimersInv
  <2> USE <2>8
  <2>0. spent \in Nat /\ OfflineTime \in Nat \ {0} /\ DeadTime \in Nat \ {0}
    BY TimesAssumption DEF TypeOK
  <2>1. ASSUME NEW d \in 1 .. MaxPeriod, Pass(d)
        PROVE  TimersInv'
    <3>1. /\ t_setoffline' = t_setoffline /\ t_isoffline' = t_isoffline
          /\ pc = "handlers" /\ pc' = pc
      BY <2>1 DEF Pass
    <3>2. QED
      BY <2>0, <2>1, <3>1, PassFacts DEF TimersInv
  <2>2. CASE GetData
    BY <2>2 DEF GetData, TimersInv, SetElapsed, IsElapsed
  <2>3. ASSUME NEW stp \in Step, SetStep(stp)
        PROVE  TimersInv'
    BY <2>3 DEF SetStep, TimersInv, SetElapsed, IsElapsed
  <2>4. CASE BeatLoop
    <3>1. spent' = 0 /\ t_setoffline'.enable
      BY <2>4, BeatLoopFacts DEF BeatLoop
    <3>2. t_setoffline'.running =>
            spent' <= SetElapsed' /\ SetElapsed' < OfflineTime + spent'
      BY <2>0, <2>4, <3>1, BeatLoopFacts
    <3>3. t_isoffline'.running =>
            /\ t_isoffline'.enable
            /\ spent' <= IsElapsed' /\ IsElapsed' < DeadTime + spent'
      BY <2>0, <2>4, <3>1, BeatLoopFacts
    <3>4. QED
      BY <3>1, <3>2, <3>3 DEF TimersInv
  <2>5. CASE SendData
    BY <2>5 DEF SendData, TimersInv, SetElapsed, IsElapsed
  <2>6. CASE UNCHANGED vars
    BY <2>6 DEF vars, code, loop, TimersInv, SetElapsed, IsElapsed
  <2>7. QED
    BY <2>1, <2>2, <2>3, <2>4, <2>5, <2>6 DEF Next
<1>3. QED
  BY <1>1, <1>2, TypeCorrect, PTL DEF Spec

\* heartbeatonce and the alarms since the last ALIVE agree: the roaster was
\* told at most once, and when it was told the flag is set.
LEMMA ReportStep ==
  ASSUME TypeOK, ReportInv, [Next]_vars
  PROVE  ReportInv'
<1> USE DEF ReportInv
<1>1. ASSUME NEW d \in 1 .. MaxPeriod, Pass(d)
      PROVE  ReportInv'
  BY <1>1 DEF Pass
<1>2. CASE GetData
  BY <1>2 DEF GetData
<1>3. ASSUME NEW stp \in Step, SetStep(stp)
      PROVE  ReportInv'
  BY <1>3 DEF SetStep
<1>4. CASE BeatLoop
  BY <1>4 DEF BeatLoop
<1>5. CASE SendData
  BY <1>5 DEF SendData, UpTo
<1>6. CASE UNCHANGED vars
  BY <1>6 DEF vars, code, loop, seen
<1>7. QED
  BY <1>1, <1>2, <1>3, <1>4, <1>5, <1>6 DEF Next

\* What the roaster has been told and heartbeatonce always agree.
THEOREM ReportCorrect == Spec => []ReportInv
<1>1. Init => ReportInv
  BY DEF Init, ReportInv
<1>2. QED
  BY <1>1, ReportStep, TypeCorrect, PTL DEF Spec

\* The roaster gets at most one HEARBEAT-DEAD between two ALIVE.
THEOREM DeadReportedOnce == Spec => []DeadOncePerAlive
<1>1. ReportInv => DeadOncePerAlive
  BY DEF ReportInv, DeadOncePerAlive
<1>2. QED
  BY <1>1, ReportCorrect, PTL

\* Where the two timers stand bounds how long the client has been silent: the
\* inductive invariant behind SilenceDetected.
THEOREM DetectInvariant == Spec => []DetectInv
<1>1. Init => DetectInv
  BY TimesAssumption DEF Init, DetectInv, NewTimer
<1>2. ASSUME TypeOK, TimersInv, ReportInv, DetectInv, [Next]_vars
      PROVE  DetectInv'
  <2> USE <1>2
  <2>8. t_setoffline.enable
    BY DEF TimersInv
  <2> USE <2>8
  <2>0. /\ spent \in Nat /\ spent <= MaxPeriod /\ mute \in Nat
        /\ OfflineTime \in Nat \ {0} /\ MaxPeriod \in Nat \ {0}
        /\ DetectBound \in Nat /\ state \in {"online", "offline"}
        /\ t_setoffline.running \in BOOLEAN /\ t_isoffline.running \in BOOLEAN
    BY TimesAssumption DEF TypeOK, DetectBound, Status, Timer
  <2>1. ASSUME NEW d \in 1 .. MaxPeriod, Pass(d)
        PROVE  DetectInv'
    <3>1. /\ t_setoffline' = t_setoffline /\ t_isoffline' = t_isoffline
          /\ state' = state /\ step' = step /\ alert' = alert /\ deads' = deads
      BY <2>1 DEF Pass
    <3>2. mute' <= mute + d /\ mute' \in Nat /\ (step = "noready" => mute' = 0)
      BY <2>0, <2>1 DEF Pass, UpTo
    <3>3. QED
      BY <2>0, <2>1, <3>1, <3>2, PassFacts DEF DetectInv
  <2>2. CASE GetData
    <3>1. /\ mute' = 0 /\ state' = "online" /\ spent' = spent
          /\ t_setoffline' = t_setoffline /\ SetElapsed' = SetElapsed
      BY <2>2 DEF GetData, SetElapsed
    <3>2. t_setoffline.running => SetElapsed \in Nat
      BY <2>0, ElapsedType DEF TypeOK, SetElapsed, Timer
    <3>3. QED
      BY <2>0, <3>1, <3>2 DEF DetectInv
  <2>3. ASSUME NEW stp \in Step, SetStep(stp)
        PROVE  DetectInv'
    <3>1. /\ step' = stp /\ mute' = IF stp = "noready" THEN 0 ELSE mute
          /\ state' = state /\ alert' = alert /\ deads' = deads
          /\ t_setoffline' = t_setoffline /\ SetElapsed' = SetElapsed
          /\ t_isoffline' = t_isoffline /\ IsElapsed' = IsElapsed
          /\ spent' = spent
      BY <2>3 DEF SetStep, SetElapsed, IsElapsed
    <3>2. SetElapsed \in Nat /\ IsElapsed \in Nat
      BY ElapsedType DEF TypeOK, SetElapsed, IsElapsed, Timer
    <3>3. mute = 0 \/ step # "noready"
      BY DEF DetectInv
    <3>4. QED
      BY <2>0, <3>1, <3>2, <3>3 DEF DetectInv
  <2>4. CASE BeatLoop
    <3>1. /\ step' = step /\ mute' = mute /\ deads' = deads /\ spent' = 0
      BY <2>4 DEF BeatLoop
    <3>2. step = "noready" => mute' = 0
      BY <3>1 DEF DetectInv
    <3>3. ASSUME state' = "online"
          PROVE  mute' <= IF t_setoffline'.running
                            THEN SetElapsed' + MaxPeriod ELSE spent'
      BY <2>0, <2>4, <3>1, <3>3, BeatLoopFacts DEF DetectInv
    <3>4. ASSUME state' = "offline", ~alert', deads' = 0
          PROVE  mute' <= IF t_isoffline'.running
                   THEN IsElapsed' + OfflineTime + 2 * MaxPeriod - 1
                   ELSE spent'
      <4>1. CASE step = "noready"
        BY <2>0, <2>4, <3>1, <3>2, <4>1, BeatLoopFacts
      <4>2. CASE step # "noready"
        <5>1. t_isoffline'.running
          BY <2>4, <3>4, <4>2, BeatLoopFacts
        <5>2. /\ IsElapsed' = IF t_isoffline.running THEN IsElapsed ELSE 0
              /\ IsElapsed \in Nat /\ SetElapsed \in Nat
          BY <2>4, <5>1, BeatLoopFacts
        <5>3. CASE state = "offline"
          BY <2>0, <2>4, <3>1, <3>4, <5>1, <5>2, <5>3, BeatLoopFacts
             DEF DetectInv
        <5>4. CASE state = "online"
          <6>1. t_setoffline.running /\ SetElapsed < OfflineTime + spent
            BY <2>4, <3>4, <5>4, BeatLoopFacts DEF TimersInv
          <6>2. mute <= SetElapsed + MaxPeriod
            BY <5>4, <6>1 DEF DetectInv
          <6>3. QED
            BY <2>0, <3>1, <5>1, <5>2, <6>1, <6>2
        <5>5. QED
          BY <2>0, <5>3, <5>4
      <4>3. QED
        BY <4>1, <4>2
    <3>5. QED
      BY <3>1, <3>2, <3>3, <3>4 DEF DetectInv
  <2>5. CASE SendData
    <3>1. /\ state' = state /\ step' = step /\ mute' = mute /\ spent' = spent
          /\ t_setoffline' = t_setoffline /\ SetElapsed' = SetElapsed
          /\ t_isoffline' = t_isoffline /\ IsElapsed' = IsElapsed
      BY <2>5 DEF SendData, SetElapsed, IsElapsed
    <3>2. ~alert' /\ deads' = 0 => ~alert /\ deads = 0
      BY <2>5 DEF SendData, ReportInv, UpTo
    <3>3. QED
      BY <3>1, <3>2 DEF DetectInv
  <2>6. CASE UNCHANGED vars
    BY <2>6 DEF vars, code, loop, seen, DetectInv, SetElapsed, IsElapsed
  <2>7. QED
    BY <2>1, <2>2, <2>3, <2>4, <2>5, <2>6 DEF Next
<1>3. QED
  BY <1>1, <1>2, TypeCorrect, TimersCorrect, ReportCorrect, PTL DEF Spec

\* A client that stays silent for DetectBound in an armed step is reported,
\* for every choice of the times.
THEOREM SilenceDetected == Spec => []DetectsSilence
<1>1. TypeOK /\ TimersInv /\ ReportInv /\ DetectInv => DetectsSilence
  <2> SUFFICES ASSUME TypeOK, TimersInv, ReportInv, DetectInv,
                      pc = "handlers", mute >= DetectBound, deads = 0
               PROVE  FALSE
    BY DEF DetectsSilence, TypeOK
  <2>1. ~alert
    BY DEF ReportInv
  <2>2. /\ spent \in Nat /\ spent <= MaxPeriod /\ mute \in Nat
        /\ OfflineTime \in Nat \ {0} /\ DeadTime \in Nat \ {0}
        /\ MaxPeriod \in Nat \ {0} /\ state \in {"online", "offline"}
    BY TimesAssumption DEF TypeOK, Status
  <2>3. SetElapsed \in Nat /\ IsElapsed \in Nat
    BY ElapsedType DEF TypeOK, SetElapsed, IsElapsed, Timer
  <2>4. CASE state = "online"
    BY <2>2, <2>3, <2>4 DEF DetectInv, TimersInv, DetectBound
  <2>5. CASE state = "offline"
    BY <2>1, <2>2, <2>3, <2>5 DEF DetectInv, TimersInv, DetectBound
  <2>6. QED
    BY <2>2, <2>4, <2>5
<1>2. QED
  BY <1>1, TypeCorrect, TimersCorrect, ReportCorrect, DetectInvariant, PTL
-----------------------------------------------------------------------------
\* Why a steady client is never reported.  t_isoffline can only count on
\* while the client is online if the step is noready (and then no longer than
\* t_setoffline), or in the one iteration between a command and the next
\* beat.loop().
SteadyInv ==
    steady =>
    /\ silence <= SteadyGap
    /\ ~alert /\ deads = 0
    /\ cmds = 0 => spent <= silence
    /\ state = "offline" /\ t_setoffline.running => SetElapsed <= silence
    /\ t_isoffline.running =>
         /\ state = "online" /\ step = "noready" =>
              t_setoffline.running /\ IsElapsed <= SetElapsed
         /\ state = "online" /\ step # "noready" =>
              /\ cmds = 1 /\ pc = "handlers"
              /\ \/ /\ t_setoffline.running
                    /\ IsElapsed <= SetElapsed
                    /\ spent <= silence
                 \/ t_setoffline.running => SetElapsed <= SteadyGap + spent
         /\ state = "offline" /\ step = "noready" =>
              cmds = 1 /\ pc = "handlers"
         /\ state = "offline" /\ step # "noready" =>
              IsElapsed < OfflineTime + silence

\* One connection delivers one command per iteration, and the client polls
\* often enough.
SteadyClient ==
    /\ MaxCommands = 1
    /\ SteadyGap + MaxPeriod < OfflineTime
    /\ OfflineTime + SteadyGap <= DeadTime

\* A steadily polling client with one connection is never reported.
THEOREM SteadyClientNeverReported ==
  ASSUME SteadyClient
  PROVE  Spec => []SteadyPollingNeverAlarms
<1>1. Init => SteadyInv
  BY TimesAssumption DEF Init, SteadyInv, NewTimer
<1>2. ASSUME TypeOK, TimersInv, SteadyInv, [Next]_vars
      PROVE  SteadyInv'
  <2> SUFFICES ASSUME steady'
               PROVE  SteadyInv'
    BY DEF SteadyInv
  <2> USE <1>2
  <2>8. t_setoffline.enable
    BY DEF TimersInv
  <2> USE <2>8
  <2>0. /\ spent \in Nat /\ spent <= MaxPeriod /\ silence \in Nat
        /\ OfflineTime \in Nat \ {0} /\ MaxPeriod \in Nat \ {0}
        /\ DeadTime \in Nat \ {0} /\ SteadyGap \in Nat
        /\ cmds \in 0 .. 1 /\ state \in {"online", "offline"}
        /\ SetElapsed \in Nat /\ IsElapsed \in Nat
    BY SteadyClient, TimesAssumption, ElapsedType
       DEF TypeOK, Status, Timer, SteadyClient, SetElapsed, IsElapsed
  <2>1. ASSUME NEW d \in 1 .. MaxPeriod, Pass(d)
        PROVE  SteadyInv'
    <3>1. /\ t_setoffline' = t_setoffline /\ t_isoffline' = t_isoffline
          /\ state' = state /\ step' = step /\ alert' = alert
          /\ deads' = deads /\ cmds' = cmds
          /\ pc = "handlers" /\ pc' = pc
          /\ steady /\ silence + d <= SteadyGap
      BY <2>1 DEF Pass
    <3>2. silence' = silence + d
      BY <2>0, <2>1, <3>1 DEF Pass, UpTo
    <3>3. QED
      BY <2>0, <2>1, <3>1, <3>2, PassFacts DEF SteadyInv
  <2>2. CASE GetData
    <3>1. /\ t_setoffline' = t_setoffline /\ t_isoffline' = t_isoffline
          /\ state' = "online" /\ step' = step /\ ~alert'
          /\ deads' = 0 /\ cmds = 0 /\ cmds' = 1 /\ silence' = 0
          /\ pc = "handlers" /\ pc' = pc
          /\ SetElapsed' = SetElapsed /\ IsElapsed' = IsElapsed
          /\ spent' = spent /\ steady
      BY <2>0, <2>2, SteadyClient
         DEF GetData, SetElapsed, IsElapsed, SteadyClient
    <3>2. QED
      BY <2>0, <3>1 DEF SteadyInv
  <2>3. ASSUME NEW stp \in Step, SetStep(stp)
        PROVE  SteadyInv'
    <3>1. /\ t_setoffline' = t_setoffline /\ t_isoffline' = t_isoffline
          /\ state' = state /\ step' = stp /\ alert' = alert
          /\ deads' = deads /\ cmds = 0 /\ cmds' = 1 /\ silence' = silence
          /\ pc = "handlers" /\ pc' = pc
          /\ SetElapsed' = SetElapsed /\ IsElapsed' = IsElapsed
          /\ spent' = spent /\ steady
      BY <2>0, <2>3, SteadyClient
         DEF SetStep, SetElapsed, IsElapsed, SteadyClient
    <3>2. QED
      BY <2>0, <3>1 DEF SteadyInv
  <2>4. CASE BeatLoop
    <3>1. /\ step' = step /\ deads' = deads /\ spent' = 0 /\ steady
          /\ silence' = silence /\ cmds' = cmds
      BY <2>4 DEF BeatLoop
    <3>2. /\ SteadyGap + MaxPeriod < OfflineTime
          /\ OfflineTime + SteadyGap <= DeadTime
      BY SteadyClient DEF SteadyClient
    <3>3. ASSUME t_isoffline.running,
                 (step = "noready") = (state' = "online")
          PROVE  IF state' = "online"
                   THEN t_setoffline'.running /\ IsElapsed <= SetElapsed'
                   ELSE IsElapsed < OfflineTime + silence
      <4>1. CASE state' = "online"
        BY <2>0, <2>4, <3>1, <3>3, <4>1, BeatLoopFacts DEF SteadyInv
      <4>2. CASE state' # "online" /\ state = "offline"
        BY <2>0, <2>4, <3>1, <3>3, <4>2 DEF SteadyInv
      <4>3. CASE state' # "online" /\ state = "online"
        <5>1. /\ t_setoffline.running /\ SetElapsed >= OfflineTime
              /\ SetElapsed < OfflineTime + spent
          BY <2>4, <4>3, BeatLoopFacts DEF TimersInv
        <5>2. IsElapsed <= SetElapsed /\ spent <= silence
          BY <2>0, <3>1, <3>2, <3>3, <4>3, <5>1 DEF SteadyInv
        <5>3. QED
          BY <2>0, <4>3, <5>1, <5>2
      <4>4. QED
        BY <2>0, <4>1, <4>2, <4>3
    <3>4. ~alert'
      <4>1. SUFFICES ASSUME (step = "noready") = (state' = "online"),
                            t_isoffline.running, IsElapsed >= DeadTime
                     PROVE  FALSE
        BY <2>4, <3>1, BeatLoopFacts DEF SteadyInv
      <4>2. CASE state' = "online"
        BY <2>0, <2>4, <3>2, <3>3, <4>1, <4>2, BeatLoopFacts DEF TimersInv
      <4>3. CASE state' # "online"
        BY <2>0, <3>1, <3>2, <3>3, <4>1, <4>3 DEF SteadyInv
      <4>4. QED
        BY <4>2, <4>3
    <3>5. ASSUME state' = "offline", t_setoffline'.running
          PROVE  SetElapsed' <= silence'
      BY <2>0, <2>4, <3>1, <3>5, BeatLoopFacts DEF SteadyInv
    <3>6. ASSUME t_isoffline'.running
          PROVE  /\ (step = "noready") = (state' = "online")
                 /\ state' = "online" =>
                      t_setoffline'.running /\ IsElapsed' <= SetElapsed'
                 /\ state' # "online" => IsElapsed' < OfflineTime + silence'
      <4>1. (step = "noready") = (state' = "online")
        BY <2>4, <3>6, BeatLoopFacts
      <4>2. IsElapsed' = IF t_isoffline.running THEN IsElapsed ELSE 0
        BY <2>4, <3>6, BeatLoopFacts
      <4>3. state' = "online" => t_setoffline'.running /\ SetElapsed' \in Nat
        BY <2>0, <2>4, BeatLoopFacts
      <4>4. QED
        BY <2>0, <3>1, <3>3, <4>1, <4>2, <4>3
    <3>7. state' \in {"online", "offline"}
      BY <2>0, <2>4, BeatLoopFacts
    <3>8. QED
      BY <2>0, <3>1, <3>4, <3>5, <3>6, <3>7 DEF SteadyInv
  <2>5. CASE SendData
    <3>1. /\ state' = state /\ step' = step /\ spent' = 0 /\ spent = 0
          /\ t_setoffline' = t_setoffline /\ SetElapsed' = SetElapsed
          /\ t_isoffline' = t_isoffline /\ IsElapsed' = IsElapsed
          /\ silence' = silence /\ steady /\ cmds' = 0
          /\ pc = "send_data" /\ pc' = "handlers"
      BY <2>5 DEF SendData, SetElapsed, IsElapsed, TimersInv
    <3>2. alert' = alert /\ deads' = deads
      BY <2>5, <3>1 DEF SendData, SteadyInv
    <3>3. QED
      BY <2>0, <3>1, <3>2 DEF SteadyInv
  <2>6. CASE UNCHANGED vars
    BY <2>6 DEF vars, code, loop, seen, SteadyInv, SetElapsed, IsElapsed
  <2>7. QED
    BY <2>1, <2>2, <2>3, <2>4, <2>5, <2>6 DEF Next
<1>3. SteadyInv => SteadyPollingNeverAlarms
  BY DEF SteadyInv, SteadyPollingNeverAlarms
<1>4. QED
  BY <1>1, <1>2, <1>3, TypeCorrect, TimersCorrect, PTL DEF Spec
-----------------------------------------------------------------------------
(***************************************************************************)
(* MainLoop: the same watchdog around a pairing round.  A round advances   *)
(* the clock by PairTime with no call of beat.loop(), so the timers        *)
(* overshoot by more, the bound on mute holds for the silence or for the   *)
(* time since the round, and a timer that was idle when the round began    *)
(* has counted nothing of it.                                              *)
(***************************************************************************)

\* The clock's advance since the last beat.loop().
Lag == spent + (IF served /\ pc = "handlers" THEN PairTime ELSE 0)

MainTimersInv ==
    /\ t_setoffline.enable
    /\ pc = "send_data" => spent = 0
    /\ t_setoffline.running =>
         Lag <= SetElapsed /\ SetElapsed < OfflineTime + Lag
    /\ t_isoffline.running =>
         /\ t_isoffline.enable
         /\ Lag <= IsElapsed /\ IsElapsed < DeadTime + Lag

\* How long the client has been mute with the loop back from its round.
MuteSince == IF mute <= since THEN mute ELSE since

\* The bound on it that the timers keep, online and offline.
OnlineCount  == IF t_setoffline.running THEN SetElapsed + MaxPeriod ELSE spent
OfflineCount == IF t_isoffline.running
                  THEN IsElapsed + OfflineTime + 2 * MaxPeriod - 1 ELSE spent

MainDetectInv ==
    /\ served /\ pc = "handlers" => since <= spent
    /\ step = "noready" => mute = 0
    /\ state = "online" => MuteSince <= OnlineCount
    /\ state = "offline" /\ ~alert /\ deads = 0 => MuteSince <= OfflineCount

GraceInv ==
    ~counting /\ t_isoffline.running => IsElapsed <= since \/ since = DetectBound

\* Outside of PAIR, the main loop takes the watchdog's steps.
LEMMA MainSteps ==
  ASSUME [MainNext]_mainVars
  PROVE  PAIR \/ [Next]_vars
<1>1. ASSUME NEW d \in 1 .. MaxPeriod, PassTime(d)
      PROVE  Next
  BY <1>1 DEF PassTime, Next
<1>2. webSocketLoop => Next
  BY DEF webSocketLoop, Next
<1>3. beatLoop \/ send_data => Next
  BY DEF beatLoop, send_data, Next
<1>4. UNCHANGED mainVars => UNCHANGED vars
  BY DEF mainVars
<1>5. QED
  BY <1>1, <1>2, <1>3, <1>4 DEF MainNext

\* Every step of the main loop, a round too, keeps the types and the report's
\* bookkeeping.
LEMMA MainTypeStep ==
  ASSUME PairAssumption, MainTypeOK, ReportInv, [MainNext]_mainVars
  PROVE  MainTypeOK' /\ ReportInv'
<1> USE TimesAssumption, WrapAssumption
<1>0. DetectBound \in Nat
  BY DEF DetectBound
<1>1. CASE PAIR
  <2>1. Tick(now, PairTime) \in Millis
    BY DEF MainTypeOK, TypeOK, Tick, Millis, PairAssumption
  <2>2. /\ 0 \in 0 .. DetectBound
        /\ UpTo(DetectBound, mute + PairTime) \in 0 .. DetectBound
        /\ UpTo(SteadyGap + 1, silence + PairTime) \in 0 .. SteadyGap + 1
    BY <1>0 DEF MainTypeOK, TypeOK, UpTo, PairAssumption
  <2>3. t_isoffline.running \in BOOLEAN
    BY DEF MainTypeOK, TypeOK, Timer
  <2>4. TypeOK'
    BY <1>1, <2>1, <2>2 DEF PAIR, executePairing, loop, MainTypeOK, TypeOK
  <2>5. MainTypeOK'
    BY <1>1, <2>2, <2>3, <2>4 DEF PAIR, MainTypeOK
  <2>6. ReportInv'
    BY <1>1 DEF PAIR, loop, ReportInv
  <2>7. QED
    BY <2>5, <2>6
<1>2. CASE ~PAIR
  <2>1. TypeOK' /\ ReportInv'
    BY <1>2, MainSteps, TypeStep, ReportStep DEF MainTypeOK
  <2>2. ASSUME NEW d \in 1 .. MaxPeriod, PassTime(d)
        PROVE  MainTypeOK'
    BY <1>0, <2>1, <2>2 DEF PassTime, MainTypeOK, UpTo
  <2>3. CASE webSocketLoop \/ beatLoop \/ send_data \/ UNCHANGED mainVars
    BY <2>1, <2>3
       DEF webSocketLoop, beatLoop, send_data, mainVars, round, MainTypeOK
  <2>4. QED
    BY <1>2, <2>1, <2>2, <2>3 DEF MainNext
<1>3. QED
  BY <1>1, <1>2

\* The types, and the report's bookkeeping, survive a round too.
THEOREM MainTypeCorrect ==
  ASSUME PairAssumption
  PROVE  MainSpec => [](MainTypeOK /\ ReportInv)
<1> USE PairAssumption, TimesAssumption, WrapAssumption
<1>0. DetectBound \in Nat
  BY DEF DetectBound
<1>1. MainInit => MainTypeOK /\ ReportInv
  <2>1. MainInit => MainTypeOK
    <3>1. DetectBound \in 0 .. DetectBound
      BY <1>0
    <3>2. QED
      BY <3>1, TypeInit, Zenon DEF MainInit, MainTypeOK
  <2>2. MainInit => ReportInv
    BY DEF MainInit, Init, ReportInv
  <2>3. QED
    BY <2>1, <2>2
<1>2. QED
  BY <1>1, MainTypeStep, PTL DEF MainSpec

\* Pairing rounds do not make the roaster hear of a dead client twice.
THEOREM MainDeadReportedOnce ==
  ASSUME PairAssumption
  PROVE  MainSpec => []DeadOncePerAlive
<1>1. ReportInv => DeadOncePerAlive
  BY DEF ReportInv, DeadOncePerAlive
<1>2. QED
  BY <1>1, MainTypeCorrect, PTL
-----------------------------------------------------------------------------
\* What a round does to the two counts: the clock advances by PairTime and
\* overtakes no timer.
LEMMA PairFacts ==
  ASSUME PairAssumption, MainTypeOK, MainTimersInv, PAIR
  PROVE  /\ pc = "handlers" /\ pc' = pc /\ ~served /\ served' /\ spent' = spent
         /\ t_setoffline' = t_setoffline /\ t_isoffline' = t_isoffline
         /\ t_setoffline.running => SetElapsed' = SetElapsed + PairTime
         /\ t_isoffline.running => IsElapsed' = IsElapsed + PairTime
<1>1. /\ pc = "handlers" /\ pc' = pc /\ ~served /\ served' /\ spent' = spent
      /\ t_setoffline' = t_setoffline /\ t_isoffline' = t_isoffline
      /\ now' = Tick(now, PairTime)
  BY DEF PAIR, executePairing, loop
<1>2. PairTime \in Nat /\ spent \in Nat /\ spent <= MaxPeriod /\ Lag = spent
  BY <1>1 DEF PairAssumption, MainTypeOK, TypeOK, Lag
<1>3. SetElapsed \in Nat /\ IsElapsed \in Nat
  BY ElapsedType DEF MainTypeOK, TypeOK, Timer, SetElapsed, IsElapsed
<1>4. /\ t_setoffline.running => SetElapsed + PairTime < Wrap
      /\ t_isoffline.running => IsElapsed + PairTime < Wrap
  BY <1>2, <1>3, TimesAssumption, WrapAssumption
     DEF MainTimersInv, PairAssumption
<1>5. QED
  BY <1>1, <1>2, <1>4, ClockFacts DEF MainTypeOK

LEMMA MainPassFacts ==
  ASSUME PairAssumption, MainTypeOK, MainTimersInv,
         NEW d \in 1 .. MaxPeriod, PassTime(d)
  PROVE  /\ pc = "handlers" /\ pc' = pc /\ served' = served
         /\ spent + d <= MaxPeriod /\ spent' = spent + d
         /\ t_setoffline' = t_setoffline /\ t_isoffline' = t_isoffline
         /\ t_setoffline.running => SetElapsed' = SetElapsed + d
         /\ t_isoffline.running => IsElapsed' = IsElapsed + d
<1>1. /\ pc = "handlers" /\ pc' = pc /\ served' = served /\ spent' = spent + d
      /\ spent + d <= MaxPeriod /\ d \in Nat /\ now' = Tick(now, d)
      /\ t_setoffline' = t_setoffline /\ t_isoffline' = t_isoffline
  BY DEF PassTime, Pass
<1>2. /\ PairTime \in Nat /\ spent \in Nat
      /\ Lag \in Nat /\ Lag + d <= MaxPeriod + PairTime
  BY <1>1, TimesAssumption DEF PairAssumption, MainTypeOK, TypeOK, Lag
<1>3. SetElapsed \in Nat /\ IsElapsed \in Nat
  BY ElapsedType DEF MainTypeOK, TypeOK, Timer, SetElapsed, IsElapsed
<1>4. /\ t_setoffline.running => SetElapsed + d < Wrap
      /\ t_isoffline.running => IsElapsed + d < Wrap
  BY <1>1, <1>2, <1>3, TimesAssumption, WrapAssumption
     DEF MainTimersInv, PairAssumption
<1>5. QED
  BY <1>1, <1>4, ClockFacts DEF MainTypeOK

\* The remaining steps of the main loop leave the counts to beat.loop().
LEMMA CommandFacts ==
  ASSUME webSocketLoop \/ send_data \/ UNCHANGED mainVars
  PROVE  /\ t_setoffline' = t_setoffline /\ t_isoffline' = t_isoffline
         /\ SetElapsed' = SetElapsed /\ IsElapsed' = IsElapsed
         /\ since' = since /\ counting' = counting /\ spent' = spent
BY DEF webSocketLoop, send_data, mainVars, vars, code, loop, round, GetData,
       SetStep, SendData, SetElapsed, IsElapsed

\* A round is never mistaken for a short time, wherever the clock wraps in it.
THEOREM MainTimersCorrect ==
  ASSUME PairAssumption
  PROVE  MainSpec => []MainTimersInv
<1> USE PairAssumption
<1>1. MainInit => MainTimersInv
  BY DEF MainInit, Init, MainTimersInv, NewTimer
<1>2. ASSUME MainTypeOK, MainTimersInv, [MainNext]_mainVars
      PROVE  MainTimersInv'
  <2> USE <1>2
  <2>0. /\ spent \in Nat /\ OfflineTime \in Nat \ {0} /\ DeadTime \in Nat \ {0}
        /\ PairTime \in Nat \ {0} /\ SetElapsed \in Nat /\ IsElapsed \in Nat
    BY TimesAssumption, ElapsedType
       DEF MainTypeOK, TypeOK, Timer, PairAssumption, SetElapsed, IsElapsed
  <2>1. ASSUME NEW d \in 1 .. MaxPeriod, PassTime(d)
        PROVE  MainTimersInv'
    <3>1. Lag \in Nat /\ Lag' = Lag + d
      BY <2>0, <2>1, MainPassFacts DEF Lag
    <3>2. QED
      BY <2>0, <2>1, <3>1, MainPassFacts DEF MainTimersInv
  <2>2. CASE webSocketLoop
    <3>1. Lag' = Lag /\ pc' = pc
      BY <2>2 DEF webSocketLoop, GetData, SetStep, Lag
    <3>2. QED
      BY <2>2, <3>1, CommandFacts DEF MainTimersInv
  <2>3. CASE PAIR
    <3>1. Lag = spent /\ Lag' = spent + PairTime
      BY <2>0, <2>3, PairFacts DEF Lag
    <3>2. QED
      BY <2>0, <2>3, <3>1, PairFacts DEF MainTimersInv
  <2>4. CASE beatLoop
    <3>1. BeatLoop /\ TypeOK /\ t_setoffline.enable
      BY <2>4 DEF beatLoop, MainTypeOK, MainTimersInv
    <3>2. spent' = 0 /\ Lag' = 0 /\ t_setoffline'.enable
      BY <3>1, BeatLoopFacts DEF BeatLoop, Lag
    <3>3. t_setoffline'.running =>
            Lag' <= SetElapsed' /\ SetElapsed' < OfflineTime + Lag'
      BY <2>0, <3>1, <3>2, BeatLoopFacts
    <3>4. t_isoffline'.running =>
            /\ t_isoffline'.enable
            /\ Lag' <= IsElapsed' /\ IsElapsed' < DeadTime + Lag'
      BY <2>0, <3>1, <3>2, BeatLoopFacts
    <3>5. QED
      BY <3>2, <3>3, <3>4 DEF MainTimersInv
  <2>5. CASE send_data
    <3>1. Lag = spent /\ Lag' = spent /\ pc' = "handlers"
      BY <2>0, <2>5, CommandFacts DEF send_data, SendData, Lag
    <3>2. QED
      BY <2>5, <3>1, CommandFacts DEF MainTimersInv
  <2>6. CASE UNCHANGED mainVars
    <3>1. Lag' = Lag /\ pc' = pc
      BY <2>6 DEF mainVars, vars, loop, Lag
    <3>2. QED
      BY <2>6, <3>1, CommandFacts DEF MainTimersInv
  <2>7. QED
    BY <2>1, <2>2, <2>3, <2>4, <2>5, <2>6 DEF MainNext
<1>3. QED
  BY <1>1, <1>2, MainTypeCorrect, PTL DEF MainSpec

\* The silence a timer has counted, or the time since the round.
THEOREM MainDetectInvariant ==
  ASSUME PairAssumption
  PROVE  MainSpec => []MainDetectInv
<1> USE PairAssumption
<1>1. MainInit => MainDetectInv
  BY TimesAssumption
     DEF MainInit, Init, MainDetectInv, MuteSince, OnlineCount, OfflineCount,
         NewTimer, DetectBound
<1>2. ASSUME MainTypeOK, ReportInv, MainTimersInv, MainDetectInv,
             [MainNext]_mainVars
      PROVE  MainDetectInv'
  <2> USE <1>2
  <2>0. /\ spent \in Nat /\ spent <= MaxPeriod /\ mute \in Nat /\ since \in Nat
        /\ OfflineTime \in Nat \ {0} /\ MaxPeriod \in Nat \ {0}
        /\ DetectBound \in Nat /\ PairTime \in Nat \ {0}
        /\ state \in {"online", "offline"}
        /\ t_setoffline.running \in BOOLEAN /\ t_isoffline.running \in BOOLEAN
        /\ SetElapsed \in Nat /\ IsElapsed \in Nat
    BY TimesAssumption, ElapsedType
       DEF MainTypeOK, TypeOK, DetectBound, Status, Timer, PairAssumption,
           SetElapsed, IsElapsed
  <2>1. ASSUME NEW d \in 1 .. MaxPeriod, PassTime(d)
        PROVE  MainDetectInv'
    <3>1. /\ state' = state /\ step' = step /\ alert' = alert /\ deads' = deads
      BY <2>1 DEF PassTime, Pass
    <3>2. /\ mute' <= mute + d /\ mute' \in Nat /\ (step = "noready" => mute' = 0)
          /\ since' <= since + d /\ since' \in Nat
      BY <2>0, <2>1 DEF PassTime, Pass, UpTo
    <3>3. served /\ pc = "handlers" => since <= spent
      BY DEF MainDetectInv
    <3>4. served' /\ pc' = "handlers" => since' <= spent'
      <4>1. served' = served /\ pc' = pc /\ spent' = spent + d
        BY <2>1, MainPassFacts
      <4>2. QED
        BY <2>0, <3>2, <3>3, <4>1
    <3>5. state' = "online" => MuteSince' <= OnlineCount'
      BY <2>0, <2>1, <3>1, <3>2, MainPassFacts
         DEF MainDetectInv, MuteSince, OnlineCount, OfflineCount
    <3>6. state' = "offline" /\ ~alert' /\ deads' = 0 =>
            MuteSince' <= OfflineCount'
      BY <2>0, <2>1, <3>1, <3>2, MainPassFacts
         DEF MainDetectInv, MuteSince, OnlineCount, OfflineCount
    <3>7. QED
      BY <3>1, <3>2, <3>4, <3>5, <3>6 DEF MainDetectInv
  <2>2. CASE webSocketLoop
    <3>1. /\ ~served /\ served' = served /\ since' = since /\ spent' = spent
          /\ t_setoffline' = t_setoffline /\ SetElapsed' = SetElapsed
          /\ t_isoffline' = t_isoffline /\ IsElapsed' = IsElapsed
      BY <2>2, CommandFacts DEF webSocketLoop
    <3>2. CASE GetData
      <4>1. mute' = 0 /\ state' = "online"
        BY <3>2 DEF GetData
      <4>2. QED
        BY <2>0, <3>1, <4>1
           DEF MainDetectInv, MuteSince, OnlineCount, OfflineCount
    <3>3. ASSUME NEW stp \in Step, SetStep(stp)
          PROVE  MainDetectInv'
      <4>1. /\ step' = stp /\ mute' = IF stp = "noready" THEN 0 ELSE mute
            /\ state' = state /\ alert' = alert /\ deads' = deads
        BY <3>3 DEF SetStep
      <4>2. mute = 0 \/ step # "noready"
        BY DEF MainDetectInv
      <4>3. QED
        BY <2>0, <3>1, <4>1, <4>2
           DEF MainDetectInv, MuteSince, OnlineCount, OfflineCount
    <3>4. QED
      BY <2>2, <3>2, <3>3 DEF webSocketLoop
  <2>3. CASE PAIR
    <3>1. /\ since' = 0 /\ spent' = spent
          /\ mute' = IF step = "noready" THEN 0
                     ELSE UpTo(DetectBound, mute + PairTime)
          /\ state' = state /\ step' = step
          /\ t_setoffline' = t_setoffline /\ t_isoffline' = t_isoffline
      BY <2>3 DEF PAIR, executePairing, loop
    <3>2. SetElapsed' \in Nat /\ IsElapsed' \in Nat
      <4>1. MainTypeOK'
        BY <2>3, MainTypeStep
      <4>2. QED
        BY <4>1, ElapsedType
           DEF MainTypeOK, TypeOK, Timer, SetElapsed, IsElapsed
    <3>3. MuteSince' <= OnlineCount'
      BY <2>0, <3>1, <3>2 DEF MuteSince, OnlineCount, OfflineCount
    <3>4. MuteSince' <= OfflineCount'
      BY <2>0, <3>1, <3>2 DEF MuteSince, OnlineCount, OfflineCount
    <3>5. since' <= spent' /\ (step' = "noready" => mute' = 0)
      BY <2>0, <3>1
    <3>6. QED
      BY <3>3, <3>4, <3>5 DEF MainDetectInv
  <2>4. CASE beatLoop
    <3>0. BeatLoop /\ TypeOK /\ t_setoffline.enable
      BY <2>4 DEF beatLoop, MainTypeOK, MainTimersInv
    <3>1. /\ step' = step /\ mute' = mute /\ deads' = deads /\ spent' = 0
          /\ since' = since /\ pc = "handlers" /\ pc' = "send_data"
      BY <2>4 DEF beatLoop, round, BeatLoop
    <3>2. step = "noready" => mute' = 0
      BY <3>1 DEF MainDetectInv
    <3>3. ASSUME state' = "online"
          PROVE  MuteSince' <= OnlineCount'
      BY <2>0, <3>0, <3>1, <3>3, BeatLoopFacts
         DEF MainDetectInv, MuteSince, OnlineCount, OfflineCount
    <3>4. ASSUME state' = "offline", ~alert', deads' = 0
          PROVE  MuteSince' <= OfflineCount'
      <4>1. CASE step = "noready"
        <5>1. ~t_isoffline'.running
          BY <3>0, <3>4, <4>1, BeatLoopFacts
        <5>2. QED
          BY <2>0, <3>1, <3>2, <4>1, <5>1
             DEF MuteSince, OnlineCount, OfflineCount
      <4>2. CASE step # "noready"
        <5>1. t_isoffline'.running
          BY <3>0, <3>4, <4>2, BeatLoopFacts
        <5>2. IsElapsed' = IF t_isoffline.running THEN IsElapsed ELSE 0
          BY <3>0, <5>1, BeatLoopFacts
        <5>3. ~alert
          BY <3>0, <3>4, BeatLoopFacts
        <5>4. CASE state = "offline"
          BY <2>0, <3>1, <3>4, <5>1, <5>2, <5>3, <5>4
             DEF MainDetectInv, MuteSince, OnlineCount, OfflineCount
        <5>5. CASE state = "online"
          <6>1. t_setoffline.running /\ SetElapsed < OfflineTime + Lag
            BY <3>0, <3>4, <5>5, BeatLoopFacts DEF MainTimersInv
          <6>2. MuteSince <= SetElapsed + MaxPeriod
            BY <5>5, <6>1 DEF MainDetectInv, OnlineCount
          <6>3. served => since <= spent
            BY <3>1 DEF MainDetectInv
          <6>4. ~served => Lag = spent
            BY <2>0 DEF Lag
          <6>5. QED
            BY <2>0, <3>1, <5>1, <5>2, <6>1, <6>2, <6>3, <6>4
               DEF MuteSince, OnlineCount, OfflineCount
        <5>6. QED
          BY <2>0, <5>4, <5>5
      <4>3. QED
        BY <4>1, <4>2
    <3>5. QED
      BY <3>1, <3>2, <3>3, <3>4 DEF MainDetectInv
  <2>5. CASE send_data
    <3>1. /\ state' = state /\ step' = step /\ mute' = mute /\ ~served'
          /\ since' = since /\ spent' = spent
          /\ t_setoffline' = t_setoffline /\ SetElapsed' = SetElapsed
          /\ t_isoffline' = t_isoffline /\ IsElapsed' = IsElapsed
      BY <2>5, CommandFacts DEF send_data, SendData
    <3>2. ~alert' /\ deads' = 0 => ~alert /\ deads = 0
      BY <2>5 DEF send_data, SendData, ReportInv, UpTo
    <3>3. QED
      BY <3>1, <3>2 DEF MainDetectInv, MuteSince, OnlineCount, OfflineCount
  <2>6. CASE UNCHANGED mainVars
    BY <2>6
       DEF mainVars, vars, code, loop, seen, round, MainDetectInv, MuteSince,
           OnlineCount, OfflineCount, SetElapsed, IsElapsed
  <2>7. QED
    BY <2>1, <2>2, <2>3, <2>4, <2>5, <2>6 DEF MainNext
<1>3. QED
  BY <1>1, <1>2, MainTypeCorrect, MainTimersCorrect, PTL DEF MainSpec

\* No pairing round loses the watchdog: once the loop has run for DetectBound
\* after it, a client silent for DetectBound has been reported.
THEOREM SilenceDetectedAfterPairing ==
  ASSUME PairAssumption
  PROVE  MainSpec => []DetectsAfterPairing
<1>1. ASSUME MainTypeOK, ReportInv, MainTimersInv, MainDetectInv
      PROVE  DetectsAfterPairing
  <2> SUFFICES ASSUME pc = "handlers", mute >= DetectBound,
                      since >= DetectBound, deads = 0
               PROVE  FALSE
    BY <1>1 DEF DetectsAfterPairing, MainTypeOK, TypeOK
  <2> USE <1>1
  <2>1. ~alert
    BY DEF ReportInv
  <2>2. /\ spent \in Nat /\ spent <= MaxPeriod /\ mute \in Nat /\ since \in Nat
        /\ OfflineTime \in Nat \ {0} /\ DeadTime \in Nat \ {0}
        /\ MaxPeriod \in Nat \ {0} /\ state \in {"online", "offline"}
        /\ SetElapsed \in Nat /\ IsElapsed \in Nat
    BY TimesAssumption, ElapsedType
       DEF MainTypeOK, TypeOK, Status, Timer, SetElapsed, IsElapsed
  <2>3. ~served
    BY <2>2 DEF MainDetectInv, DetectBound
  <2>4. Lag = spent
    BY <2>2, <2>3 DEF Lag
  <2>5. CASE state = "online"
    BY <2>2, <2>4, <2>5
       DEF MainDetectInv, MainTimersInv, DetectBound, MuteSince, OnlineCount,
           OfflineCount
  <2>6. CASE state = "offline"
    BY <2>1, <2>2, <2>4, <2>6
       DEF MainDetectInv, MainTimersInv, DetectBound, MuteSince, OnlineCount,
           OfflineCount
  <2>7. QED
    BY <2>2, <2>5, <2>6
<1>2. QED
  BY <1>1, MainTypeCorrect, MainTimersCorrect, MainDetectInvariant, PTL

\* A round alone is no alarm: the step that raises one without the silence
\* having been counted before the round comes DeadTime after it.
THEOREM GraceKept ==
  ASSUME PairAssumption
  PROVE  MainSpec => GraceAfterPairing
<1> USE PairAssumption
<1>1. MainInit => GraceInv
  BY DEF MainInit, Init, GraceInv, NewTimer
<1>2. ASSUME MainTypeOK, MainTimersInv, GraceInv, [MainNext]_mainVars
      PROVE  GraceInv'
  <2> USE <1>2
  <2>0. /\ SetElapsed \in Nat /\ IsElapsed \in Nat
        /\ since \in Nat /\ DetectBound \in Nat
    BY TimesAssumption, ElapsedType
       DEF MainTypeOK, TypeOK, Timer, SetElapsed, IsElapsed, DetectBound
  <2>1. ASSUME NEW d \in 1 .. MaxPeriod, PassTime(d)
        PROVE  GraceInv'
    <3>1. counting' = counting /\ since' = UpTo(DetectBound, since + d)
      BY <2>1 DEF PassTime
    <3>2. since' = DetectBound \/ since' = since + d
      BY <3>1 DEF UpTo
    <3>3. since = DetectBound => since' = DetectBound
      BY <2>0, <3>1 DEF UpTo
    <3>4. QED
      BY <2>0, <2>1, <3>1, <3>2, <3>3, MainPassFacts DEF GraceInv
  <2>2. CASE PAIR
    <3>1. counting' = t_isoffline.running /\ t_isoffline' = t_isoffline
      BY <2>2 DEF PAIR, executePairing
    <3>2. QED
      BY <3>1 DEF GraceInv
  <2>3. CASE beatLoop
    <3>1. BeatLoop /\ TypeOK /\ t_setoffline.enable
      BY <2>3 DEF beatLoop, MainTypeOK, MainTimersInv
    <3>2. since' = since /\ counting' = counting
      BY <2>3 DEF beatLoop, round
    <3>3. t_isoffline'.running =>
            IsElapsed' = IF t_isoffline.running THEN IsElapsed ELSE 0
      BY <3>1, BeatLoopFacts
    <3>4. QED
      BY <2>0, <3>2, <3>3 DEF GraceInv
  <2>4. CASE webSocketLoop \/ send_data \/ UNCHANGED mainVars
    BY <2>4, CommandFacts DEF GraceInv
  <2>5. QED
    BY <2>1, <2>2, <2>3, <2>4 DEF MainNext
<1>3. ASSUME MainTypeOK, MainTimersInv, GraceInv, [MainNext]_mainVars
      PROVE  [alert' /\ ~alert /\ ~counting => since >= DeadTime]_mainVars
  <2> SUFFICES ASSUME alert', ~alert, ~counting
               PROVE  since >= DeadTime
    OBVIOUS
  <2> USE <1>3
  <2>1. CASE beatLoop
    <3>1. BeatLoop /\ TypeOK /\ t_setoffline.enable
      BY <2>1 DEF beatLoop, MainTypeOK, MainTimersInv
    <3>2. t_isoffline.running /\ IsElapsed >= DeadTime /\ IsElapsed \in Nat
      BY <3>1, BeatLoopFacts
    <3>3. DetectBound >= DeadTime /\ DeadTime \in Nat
      BY TimesAssumption DEF DetectBound
    <3>4. since \in Nat
      BY TimesAssumption DEF MainTypeOK, DetectBound
    <3>5. QED
      BY <3>2, <3>3, <3>4 DEF GraceInv
  <2>2. ~beatLoop => (alert' => alert)
    BY DEF MainNext, PassTime, Pass, webSocketLoop, GetData, SetStep, PAIR,
           send_data, SendData, mainVars, vars, code
  <2>3. QED
    BY <2>1, <2>2
<1>4. QED
  BY <1>1, <1>2, <1>3, MainTypeCorrect, MainTimersCorrect, PTL
     DEF MainSpec, GraceAfterPairing
=============================================================================
