--------------------------- MODULE MCAlertHandling ---------------------------
(* Small instances of AlertHandling for TLC. *)
EXTENDS AlertHandling

CONSTANTS k1, k2

TwoCollectors == {k1, k2}
=============================================================================
