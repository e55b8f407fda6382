---------------------------- MODULE MCInspection ----------------------------
(***************************************************************************)
(* A queue and a development team, three groups, two users.                *)
(***************************************************************************)
EXTENDS Inspection

CONSTANTS dev, queueTeam, alice, bob, g1, g2, g3

MCKindOf == [t \in {dev, queueTeam} |->
               IF t = dev THEN "DEV" ELSE "CONSULT_QUEUE"]

=============================================================================
