---------------------------- MODULE Temporizador ----------------------------
(***************************************************************************)
(* The polled software timer of utilities/Temporizador.hpp.  A timer never *)
(* runs by itself: every call of tiempo() arms it when it is enabled and   *)
(* idle, compares it with the millisecond clock and says whether it fired. *)
(* The clock is an unsigned counter that wraps to zero at Wrap (2^32 on    *)
(* the device), and all arithmetic on it is modulo Wrap.                   *)
(***************************************************************************)
EXTENDS Integers

CONSTANT Wrap          \* the clock counts 0, 1, ..., Wrap - 1, 0, 1, ...

ASSUME WrapAssumption == Wrap \in Nat \ {0}

Millis == 0 .. Wrap - 1

Timer == [running : BOOLEAN, enable : BOOLEAN, contador : Millis]

NewTimer(run, en) == [running |-> run, enable |-> en, contador |-> 0]

\* Mutant: a clock that does not wrap.
TickWide(now, d) == now + d

\* millis() after d < Wrap further units of time.
Tick(now, d) == IF now + d < Wrap THEN now + d ELSE now + d - Wrap

\* The unsigned difference  now - since.
Elapsed(now, since) ==
    IF since <= now THEN now - since ELSE now - since + Wrap

Alive(t) == [t EXCEPT !.enable = TRUE]

\* Mutant: kill() that leaves the timer running from its old start.
KillDisable(t) == [t EXCEPT !.enable = FALSE]

Kill(t) == [t EXCEPT !.enable = FALSE, !.running = FALSE]

\* First half of tiempo(): an enabled timer that is idle starts now.
Armed(t, now) ==
    IF t.enable /\ ~t.running
      THEN [t EXCEPT !.contador = now, !.running = TRUE]
      ELSE t

\* The value tiempo(time) returns ...
Fires(t, now, time) ==
    LET a == Armed(t, now)
    IN  a.enable /\ a.running /\ Elapsed(now, a.contador) >= time

\* ... and the timer it leaves behind: one that fired is idle again.
Tiempo(t, now, time) ==
    [Armed(t, now) EXCEPT !.running = @ /\ ~Fires(t, now, time)]
=============================================================================
