--------------------------- MODULE MCWebhookServer ---------------------------
(* Small instances of WebhookServer for TLC. *)
EXTENDS WebhookServer, TLC

CONSTANTS r1, r2

Symmetry == Permutations({r1, r2})
==============================================================================
