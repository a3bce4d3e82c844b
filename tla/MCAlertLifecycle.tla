--------------------------- MODULE MCAlertLifecycle ---------------------------
(* Small instances of AlertLifecycle for TLC. *)
EXTENDS AlertLifecycle

CONSTANT e1

OneCollector == {e1}

=============================================================================
