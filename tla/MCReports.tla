------------------------------ MODULE MCReports ------------------------------
(* Small instances of Reports for TLC. *)
EXTENDS Reports

CONSTANTS s1, s2, q1, q2, a1, a2

TwoSweepers == {s1, s2}
TwoRequesters == {q1, q2}
TwoRecipients == {a1, a2}
=============================================================================
