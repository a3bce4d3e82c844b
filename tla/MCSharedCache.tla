---------------------------- MODULE MCSharedCache ----------------------------
(* Small instances of SharedCache for TLC. *)
EXTENDS SharedCache

CONSTANTS p1, p2, a1, a2, b1

TwoProcesses == {p1, p2}
ThreeThreads == {a1, a2, b1}
Threads == [c \in ThreeThreads |-> IF c = b1 THEN p2 ELSE p1]
=============================================================================
