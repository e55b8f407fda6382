-------------------------------- MODULE Turn --------------------------------
(***************************************************************************)
(* Whose turn it is: the contract behind the waiting_on column of a case.  *)
(*                                                                         *)
(* At any time at most one handoff of a case is under way, the latest one; *)
(* the turn passes when it settles, and otherwise only when the case is    *)
(* opened, closed or reopened.  A closed case waits for nobody.  A handoff *)
(* made before the case was closed stays under way, and still passes the   *)
(* turn when it settles after the case was reopened.                       *)
(***************************************************************************)
CONSTANTS
    Cases,
    Sides         \* the two sides that can hold the turn

NoSide == "NONE"

(***************************************************************************)
(* waiting[c]   the side whose turn it is, NoSide when c is not open       *)
(* passing[c]   the side the handoff under way would give the turn to      *)
(***************************************************************************)
VARIABLES waiting, passing

vars == <<waiting, passing>>

Init ==
    /\ waiting = [c \in Cases |-> NoSide]
    /\ passing = [c \in Cases |-> NoSide]

\* The case is opened, or reopened, by the side that decides whose turn it is.
Open(c, s) ==
    /\ waiting[c] = NoSide
    /\ waiting' = [waiting EXCEPT ![c] = s]
    /\ passing' \in {passing, [passing EXCEPT ![c] = CHOOSE t \in Sides : t # s]}

\* A new handoff supersedes the one under way.
HandOff(c, s) ==
    /\ waiting[c] # NoSide
    /\ passing' = [passing EXCEPT ![c] = s]
    /\ UNCHANGED waiting

\* It settles: the turn passes, unless the case is closed or it was lost.
Settle(c) ==
    /\ passing[c] # NoSide
    /\ passing' = [passing EXCEPT ![c] = NoSide]
    /\ waiting' \in {waiting,
                     [waiting EXCEPT ![c] = IF @ = NoSide THEN NoSide ELSE passing[c]]}

Close(c) ==
    /\ waiting[c] # NoSide
    /\ waiting' = [waiting EXCEPT ![c] = NoSide]
    /\ UNCHANGED passing

Next ==
    \E c \in Cases :
        \/ \E s \in Sides : Open(c, s) \/ HandOff(c, s)
        \/ Settle(c)
        \/ Close(c)

Spec == Init /\ [][Next]_vars

=============================================================================
