--------------------------- MODULE MCDeliveryQueue ---------------------------
(***************************************************************************)
(* Two worker processes, a bundle of two items and a bundle of one.        *)
(***************************************************************************)
EXTENDS DeliveryQueue, TLC

CONSTANTS d1, d2

MCItems == (d1 :> 2) @@ (d2 :> 1)

=============================================================================
