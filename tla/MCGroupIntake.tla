---------------------------- MODULE MCGroupIntake ----------------------------
(***************************************************************************)
(* The first message, a confirmation, and one that adds text to it.        *)
(***************************************************************************)
EXTENDS GroupIntake

CONSTANTS first, confirm, both

=============================================================================
