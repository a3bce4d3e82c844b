-------------------------- MODULE MCSyntheticChecks --------------------------
(* Small instances of SyntheticChecks for TLC. *)
EXTENDS SyntheticChecks

CONSTANTS c1, c2, a, b

OneCollector == {c1}
TwoCollectors == {c1, c2}
TwoTargets == {a, b}
=============================================================================
