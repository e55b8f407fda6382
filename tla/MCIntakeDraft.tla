---------------------------- MODULE MCIntakeDraft ----------------------------
(***************************************************************************)
(* One private message and two submissions of the form, each of which may  *)
(* carry the message or a pasted text.                                     *)
(***************************************************************************)
EXTENDS IntakeDraft

CONSTANTS message, d1, d2, i1, i2

=============================================================================
