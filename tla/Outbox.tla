------------------------------- MODULE Outbox -------------------------------
(***************************************************************************)
(* What the delivery machinery promises to the case desk, with the queue,  *)
(* the workers and the leases left out.                                    *)
(*                                                                         *)
(* A delivery is one bundle of items for one address.  Its items reach the *)
(* address in order, each at least once; the bundle is decided once, SENT  *)
(* only when every item has arrived, or FAILED; and it is always decided.  *)
(* An item may still arrive after the decision: a send that raised on this *)
(* side can reach the platform, and a worker that lost its lease may still *)
(* be sending.                                                             *)
(***************************************************************************)
EXTENDS Naturals

CONSTANTS
    Deliveries,   \* the bundles in the queue
    Items         \* Items[d]: the number of items of bundle d

(***************************************************************************)
(* outcome[d]   what the delivery row says of bundle d                     *)
(* arrived[d]   the positions of bundle d that reached the address         *)
(***************************************************************************)
VARIABLES outcome, arrived

vars == <<outcome, arrived>>

Positions(d) == 1..Items[d]

TypeOK ==
    /\ outcome \in [Deliveries -> {"PENDING", "SENT", "FAILED"}]
    /\ arrived \in [Deliveries -> SUBSET Nat]

Init ==
    /\ outcome = [d \in Deliveries |-> "PENDING"]
    /\ arrived = [d \in Deliveries |-> {}]

\* Item i arrives; everything before it in the bundle already has.
Arrive(d, i) ==
    /\ i \in Positions(d)
    /\ \A j \in 1..(i - 1) : j \in arrived[d]
    /\ arrived' = [arrived EXCEPT ![d] = @ \cup {i}]
    /\ UNCHANGED outcome

Decide(d) ==
    /\ outcome[d] = "PENDING"
    /\ \/ /\ Positions(d) \subseteq arrived[d]
          /\ outcome' = [outcome EXCEPT ![d] = "SENT"]
       \/ outcome' = [outcome EXCEPT ![d] = "FAILED"]
    /\ UNCHANGED arrived

Next ==
    \E d \in Deliveries :
        \/ \E i \in Positions(d) : Arrive(d, i)
        \/ Decide(d)

Safety == Init /\ [][Next]_vars

Spec == Safety /\ \A d \in Deliveries : WF_vars(Decide(d))

=============================================================================
