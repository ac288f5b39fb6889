-------------------------- MODULE ClientRoutingMC ---------------------------
(***************************************************************************)
(* Values for the constants of ClientRouting: a VisualScope application    *)
(* and an AudioCrack device.                                               *)
(***************************************************************************)
EXTENDS ClientRouting

CONSTANTS vs, ac

MCDevice == {vs, ac}

Message(r, d, c) == [roasterID |-> r, device |-> d, command |-> c]

MCSends ==
    [d \in MCDevice |->
       IF d = vs THEN {Message(TRUE, "none", "getData"),
                       Message(TRUE, "none", "oncharge")}
                 ELSE {Message(FALSE, "audiocrack", "getinitial"),
                       Message(FALSE, "audiocrack", "attach")}]

\* One message per device, for the liveness run.
MCSendsOne ==
    [d \in MCDevice |->
       IF d = vs THEN {Message(TRUE, "none", "getData")}
                 ELSE {Message(FALSE, "audiocrack", "getinitial")}]

ASSUME MCOwnMessages == OwnMessages
=============================================================================
