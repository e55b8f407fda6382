---------------------------- MODULE MCStatusJobs ----------------------------
(***************************************************************************)
(* Two worker processes and an issue with up to four timeline entries.     *)
(***************************************************************************)
EXTENDS StatusJobs

=============================================================================
