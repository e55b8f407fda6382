----------------------------- MODULE MCBotWorker -----------------------------
(***************************************************************************)
(* Two workers, one message, one frame, which cannot be decoded.           *)
(***************************************************************************)
EXTENDS BotWorker

CONSTANTS w1, w2, m1, f1

=============================================================================
