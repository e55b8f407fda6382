---------------------------- MODULE MCCaseDeskTwo ----------------------------
(***************************************************************************)
(* Two cases and two open pages, so that messages can be moved from one    *)
(* case to the other.                                                      *)
(***************************************************************************)
EXTENDS CaseDesk, TLC

CONSTANTS t1, ann, c1, c2, p1, p2

MCMemberOfAnn == ann :> {Queue}

Swaps == Permutations({c1, c2}) \cup Permutations({p1, p2})

=============================================================================
