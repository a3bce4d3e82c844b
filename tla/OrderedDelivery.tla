---------------------------- MODULE OrderedDelivery ----------------------------
(***************************************************************************)
(* What a host's readings may look like on the hub: of the payloads offered *)
(* so far some are missing, the others are written in the order they were   *)
(* offered, and one may be written again directly after itself.  With each  *)
(* enrollment of the host the order begins anew.                            *)
(***************************************************************************)
EXTENDS Naturals, Sequences

VARIABLES
  offered,   \* payloads 1..offered have been produced
  written,   \* the payloads written, in order
  base       \* how many of them before the last enrollment

\* The last one written since.
Last == IF Len(written) = base THEN 0 ELSE written[Len(written)]

Init == offered = 0 /\ written = <<>> /\ base = 0

Offer == offered' = offered + 1 /\ UNCHANGED <<written, base>>

Write ==
  /\ \E n \in 1..offered : n >= Last /\ written' = Append(written, n)
  /\ UNCHANGED <<offered, base>>

Enroll == base' = Len(written) /\ UNCHANGED <<offered, written>>

Spec == Init /\ [][Offer \/ Write \/ Enroll]_<<offered, written, base>>

=============================================================================
