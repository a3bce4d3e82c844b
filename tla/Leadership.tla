------------------------------ MODULE Leadership ------------------------------
(***************************************************************************)
(* What leader.py promises of the collector: one leading generation at a   *)
(* time; a generation that lost the lock is never led again, and it may go *)
(* on running for a while before it stops; the one that leads is not       *)
(* stopped while it leads.                                                 *)
(***************************************************************************)
CONSTANTS Gen, NoGen

VARIABLES
  leader,    \* the generation that leads
  running,   \* those some of whose loops may still act
  led        \* those that have led

Init == leader = NoGen /\ running = {} /\ led = {}

\* A generation that never led takes over from nobody.
Start(g) ==
  /\ leader = NoGen
  /\ g \notin led
  /\ leader' = g
  /\ running' = running \cup {g}
  /\ led' = led \cup {g}

\* The lock is lost; some generations may stop in the same step (a crash).
Lose ==
  /\ leader # NoGen
  /\ leader' = NoGen
  /\ running' \subseteq running
  /\ UNCHANGED led

\* Generations that do not lead stop.
Stop ==
  /\ running' \subseteq running
  /\ leader \in running' \cup {NoGen}
  /\ UNCHANGED <<leader, led>>

Next == Lose \/ Stop \/ \E g \in Gen : Start(g)

Spec == Init /\ [][Next]_<<leader, running, led>>

=============================================================================
