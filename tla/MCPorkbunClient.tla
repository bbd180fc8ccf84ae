--------------------------- MODULE MCPorkbunClient ---------------------------
(* Small instances of PorkbunClient for TLC. *)
EXTENDS PorkbunClient, TLC

CONSTANTS c1, c2

Symmetry == Permutations({c1, c2})
==============================================================================
