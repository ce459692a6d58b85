---------------------------- MODULE MCWebhookLog ----------------------------
(***************************************************************************)
(* Small instances of WebhookLog for TLC.                                  *)
(***************************************************************************)
EXTENDS WebhookLog, TLC

Symmetry == Permutations(Worker)
=============================================================================
