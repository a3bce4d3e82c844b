------------------------------- MODULE HostAgent -------------------------------
(***************************************************************************)
(* A host's agent as a whole: it delivers numbered payloads (AgentDelivery)  *)
(* and takes its configuration from the answers to its reports (HostConfig). *)
(* What they share is the hub's row: its status, its token and last_seq,     *)
(* which a revocation or an enrollment changes.  Each side has both actions  *)
(* with their effect on it (last_seq here, what counts as stale there), so   *)
(* in each behaviour one side acts and the other stays as it begins.         *)
(***************************************************************************)
EXTENDS AgentDelivery

CONSTANTS
  Service,     \* services of the host
  MaxChanges   \* bound on edits, revocations and enrollments

ASSUME ChangesAssumption == MaxChanges \in Nat

VARIABLES
  part,                                                            \* the side that acts
  watch, active, token, issued, rows, file, state, run, net, answer,   \* HostConfig
  changes, configFaults

ofConfig ==
  <<watch, active, token, issued, rows, file, state, run, net, answer, changes, configFaults>>
agentAndHub == <<part, vars, ofConfig>>

Config == INSTANCE HostConfig WITH faults <- configFaults

HostAgentInit ==
  /\ part \in {"delivery", "config"} /\ Init /\ Config!Init
  /\ part = "config" => ~frail

HostAgentNext ==
  /\ \/ part = "delivery" /\ Next /\ UNCHANGED ofConfig
     \/ part = "config" /\ Config!Next /\ UNCHANGED vars
  /\ UNCHANGED part

HostAgentSpec == HostAgentInit /\ [][HostAgentNext]_agentAndHub

\* The agent reports every interval, is restarted by its unit, and requests end.
HostAgentFair ==
  /\ HostAgentSpec
  /\ WF_agentAndHub(part = "config" /\ Config!Agent /\ UNCHANGED <<part, vars>>)
  /\ WF_agentAndHub(part = "config" /\ Config!Ingest /\ UNCHANGED <<part, vars>>)

-----------------------------------------------------------------------------
(* Properties.                                                               *)

\* An agent that names the version in force, to which the hub pushes nothing, has that
\* version's configuration.
AgreementMeansSame == Config!AgreementMeansSame

\* Once nothing changes or fails, agent and hub agree, unless the token is not valid.
ConfigConverges == part = "config" => Config!ConfigConverges

=============================================================================
