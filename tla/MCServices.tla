------------------------------ MODULE MCServices ------------------------------
(* Small instances of Services for TLC. *)
EXTENDS Services, TLC

CONSTANTS p1, disk

\* Nothing tells the two collectors of the incidents apart.
Alike == Permutations(Collector)

\* Email rules: two alerts of one resource, one of which is silenced when it resolves, a rule
\* for both events and one for what opens.
OnOneDisk == [o \in Object |-> disk]
TwoRules == << {"alert_opened", "alert_resolved"}, {"alert_opened"} >>

\* Rollup cache: the threads of one process.
OneProcess == {p1}
OneHome == [t \in Thread |-> p1]
=============================================================================
