-------------------------- MODULE MCCollectorLeader --------------------------
(* Small instances of CollectorLeader for TLC. *)
EXTENDS CollectorLeader

CONSTANTS w1, w2, c1, c2, c3, g1, g2

TwoWorkers == {w1, w2}
ThreeConns == {c1, c2, c3}
TwoGens == {g1, g2}
NoLoops == {}
Discovery == {"discovery"}

=============================================================================
