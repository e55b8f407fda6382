----------------------------- MODULE MCCaseDesk -----------------------------
(***************************************************************************)
(* Two development teams; a consultant, an administrator of the queue, and *)
(* a developer of the first team.                                          *)
(***************************************************************************)
EXTENDS CaseDesk, TLC

CONSTANTS t1, t2, ann, bea, dev

MCMemberOf == (ann :> {Queue}) @@ (bea :> {Queue}) @@ (dev :> {t1})

=============================================================================
