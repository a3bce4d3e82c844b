---------------------------- MODULE MCHostAgent ----------------------------
(* Small instances of HostAgent for TLC. *)
EXTENDS HostAgent

CONSTANTS web, db

TwoServices == {web, db}
=============================================================================
