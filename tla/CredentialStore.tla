-------------------------- MODULE CredentialStore ---------------------------
(***************************************************************************)
(* What the persistence of the credentials promises, without saying when   *)
(* or in which order anything is written: the device runs on a current     *)
(* value; an accepted change is written field by field; it is finished     *)
(* only when a restart would bring the same value back; a restart in the   *)
(* middle may leave some fields old and some new, and nothing else.        *)
(***************************************************************************)
CONSTANTS Absent, Default, Acceptable

VARIABLES
    stored,    \* field by field what survives a restart, or Absent
    current,   \* what the device runs on
    busy       \* a change has been accepted and is not finished

vars == <<stored, current, busy>>

Field == DOMAIN Default

\* What a restart makes of the stored fields.
Load(s) == [f \in Field |-> IF s[f] = Absent THEN Default[f] ELSE s[f]]

Init ==
    /\ stored = [f \in Field |-> Absent]
    /\ current = Load(stored)
    /\ busy = FALSE

Accept ==
    /\ ~ busy
    /\ current' \in Acceptable
    /\ busy' = TRUE
    /\ UNCHANGED stored

Write(f) ==
    /\ busy
    /\ stored' = [stored EXCEPT ![f] = current[f]]
    /\ UNCHANGED <<current, busy>>

Finish ==
    /\ busy
    /\ Load(stored) = current
    /\ busy' = FALSE
    /\ UNCHANGED <<stored, current>>

Restart ==
    /\ current' = Load(stored)
    /\ busy' = FALSE
    /\ UNCHANGED stored

Next == Accept \/ Finish \/ Restart \/ \E f \in Field : Write(f)

Spec == Init /\ [][Next]_vars
=============================================================================
