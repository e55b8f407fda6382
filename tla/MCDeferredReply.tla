--------------------------- MODULE MCDeferredReply ---------------------------
(***************************************************************************)
(* Two messages that quote the case, one from each side, the developers'   *)
(* with an image, and a developer's message without a quote.               *)
(***************************************************************************)
EXTENDS DeferredReply

CONSTANTS c1, d1, d2

MCSide == [m \in Messages |-> IF m = c1 THEN "CONSULT" ELSE "DEV"]

=============================================================================
