------------------------------ MODULE HostConfig ------------------------------
(***************************************************************************)
(* The configuration of one enrolled host.  A user edits the watch list      *)
(* (api/host_agents.py), each edit being a config_version; the hub pushes   *)
(* the configuration in the answer to a report of another version           *)
(* (hostagents/ingest.py); the agent adopts and persists it                 *)
(* (agent/internal/runner), and the hub keeps the services it reports.  A   *)
(* report is authenticated in one transaction and handled in another.       *)
(* Answers are lost, the agent dies, and the host is revoked and enrolled   *)
(* again, which replaces its token.                                         *)
(***************************************************************************)
EXTENDS Naturals, Sequences

CONSTANTS
  Service,     \* services of the host
  MaxChanges,  \* bound on edits, revocations and enrollments
  MaxFaults    \* bound on lost answers, timeouts and deaths

VARIABLES
  watch,    \* the watch list of each config_version; the last is in force
  active,   \* host_agents.status is active
  token,    \* the token that is not revoked, 0 for none
  issued,   \* tokens issued so far
  rows,     \* services in host_agent_services
  file,     \* agent.json: the token, and the configuration at enrollment
  state,    \* state.json: the configuration last pushed, version 0 for none
  run,      \* the agent's process
  net,      \* reports on their way or being handled
  answer,   \* the answer on its way to the agent
  changes, faults

hub == <<watch, active, token, issued, rows>>
host == <<file, state>>
bounds == <<changes, faults>>
vars == <<hub, host, run, net, answer, bounds>>

Version == Len(watch)
Current == watch[Version]
Versions == 1..(MaxChanges + 1)
Tokens == 0..(MaxChanges + 1)

NoAnswer == [kind |-> "none", ver |-> 0, cfg |-> {}]
NoState == [ver |-> 0, cfg |-> {}]

ReportType == [tok: Tokens, ver: Versions, cfg: SUBSET Service, beat: BOOLEAN,
               live: BOOLEAN, stale: BOOLEAN, seen: {0} \cup Versions]

TypeOK ==
  /\ watch \in Seq(SUBSET Service) /\ Version \in Versions
  /\ active \in BOOLEAN
  /\ token \in 0..issued /\ issued \in Tokens
  /\ rows \subseteq Service
  /\ file \in [token: 1..issued, cfg: SUBSET Service]
  /\ state \in [ver: 0..Version, cfg: SUBSET Service]
  /\ run \in [pc: {"off", "ready", "waiting", "refused"}, tok: 0..issued, ver: 1..Version,
              cfg: SUBSET Service]
  /\ net \subseteq ReportType
  /\ answer \in [kind: {"none", "ok", "config", "refused"}, ver: 0..Version, cfg: SUBSET Service]
  /\ changes \in 0..MaxChanges /\ faults \in 0..MaxFaults

Init ==
  /\ watch \in {<<w>> : w \in SUBSET Service}
  /\ active = TRUE /\ token = 1 /\ issued = 1
  /\ rows = {}
  /\ file = [token |-> 1, cfg |-> Current]
  /\ state = NoState
  /\ run = [pc |-> "off", tok |-> 0, ver |-> 1, cfg |-> {}]
  /\ net = {} /\ answer = NoAnswer
  /\ changes = 0 /\ faults = 0

Change == changes < MaxChanges /\ changes' = changes + 1 /\ UNCHANGED faults
Fault == faults < MaxFaults /\ faults' = faults + 1 /\ UNCHANGED changes

\* Nobody waits for the answer to these any more.
Abandoned == {[q EXCEPT !.live = FALSE] : q \in net}

-----------------------------------------------------------------------------
(* The agent.                                                                *)

\* Mutant: the pushed version with the configuration of the enrollment.
StartsMixed ==
  /\ run.pc = "off" \/ (run.pc = "refused" /\ file.token # run.tok)
  /\ run' = [pc |-> "ready", tok |-> file.token, ver |-> IF state.ver # 0 THEN state.ver ELSE 1,
             cfg |-> file.cfg]
  /\ UNCHANGED <<hub, host, net, answer, bounds>>

\* runner.New: a configuration once pushed wins over the one of the enrollment, which
\* counts as version 1.  An agent that was refused is started after an enrollment.
Starts ==
  /\ run.pc = "off" \/ (run.pc = "refused" /\ file.token # run.tok)
  /\ run' = [pc |-> "ready", tok |-> file.token,
             ver |-> IF state.ver # 0 THEN state.ver ELSE 1,
             cfg |-> IF state.ver # 0 THEN state.cfg ELSE file.cfg]
  /\ UNCHANGED <<hub, host, net, answer, bounds>>

\* tick: a report of every watched service, with or without metrics.
Reports ==
  /\ run.pc = "ready"
  /\ \E beat \in BOOLEAN :
       net' = net \cup {[tok |-> run.tok, ver |-> run.ver, cfg |-> run.cfg, beat |-> beat,
                         live |-> TRUE, stale |-> FALSE, seen |-> 0]}
  /\ run' = [run EXCEPT !.pc = "waiting"]
  /\ UNCHANGED <<hub, host, answer, bounds>>

\* A pushed configuration is adopted and written to state.json.
GetsConfig ==
  /\ run.pc = "waiting" /\ answer.kind = "config"
  /\ run' = [run EXCEPT !.pc = "ready", !.ver = answer.ver, !.cfg = answer.cfg]
  /\ answer' = NoAnswer
  /\ \/ state' = [ver |-> answer.ver, cfg |-> answer.cfg] /\ UNCHANGED bounds
     \/ Fault /\ UNCHANGED state
  /\ UNCHANGED <<hub, file, net>>

GetsAnswer ==
  /\ run.pc = "waiting" /\ answer.kind \in {"ok", "refused"}
  /\ run' = [run EXCEPT !.pc = IF answer.kind = "ok" THEN "ready" ELSE "refused"]
  /\ answer' = NoAnswer
  /\ UNCHANGED <<hub, host, net, bounds>>

\* The report or its answer is lost, or comes too late.
TimesOut ==
  /\ run.pc = "waiting" /\ Fault
  /\ run' = [run EXCEPT !.pc = "ready"]
  /\ net' \in {Abandoned, {q \in net : ~q.live}}
  /\ answer' = NoAnswer
  /\ UNCHANGED <<hub, host>>

AgentDies ==
  /\ run.pc \in {"ready", "waiting"} /\ Fault
  /\ run' = [run EXCEPT !.pc = "off"]
  /\ net' = Abandoned /\ answer' = NoAnswer
  /\ UNCHANGED <<hub, host>>

-----------------------------------------------------------------------------
(* POST /api/host-agents/ingest.                                             *)

\* authenticate_agent, in a transaction of its own; the version is remembered.
Authenticates(q) ==
  /\ q \in net /\ q.seen = 0
  /\ IF q.tok = token /\ active
     THEN net' = (net \ {q}) \cup {[q EXCEPT !.seen = Version]} /\ UNCHANGED answer
     ELSE /\ net' = net \ {q}
          /\ answer' = IF q.live THEN [NoAnswer EXCEPT !.kind = "refused"] ELSE answer
  /\ UNCHANGED <<hub, host, run, bounds>>

\* Mutant: what is not in the report is left alone.
ReportedKeeps(q) ==
  IF q.cfg # {} /\ q.ver = q.seen /\ (q.beat \/ (active /\ ~q.stale)) THEN rows \cup q.cfg ELSE rows

\* _write_services: the complete set, from a report of the version seen.  With metrics
\* only if its number could be claimed; a heartbeat's is not claimed.
Reported(q) ==
  IF q.cfg # {} /\ q.ver = q.seen /\ (q.beat \/ (active /\ ~q.stale)) THEN q.cfg ELSE rows

\* The configuration is pushed when the report's version is neither the one seen nor
\* the one in force.
AnswerTo(q) ==
  IF q.ver # q.seen /\ q.ver # Version
  THEN [kind |-> "config", ver |-> Version, cfg |-> Current] ELSE [NoAnswer EXCEPT !.kind = "ok"]

\* _transact.  What it handles after a newer report counts as a duplicate.
Handles(q) ==
  /\ q \in net /\ q.seen # 0
  /\ rows' = Reported(q)
  /\ net' = IF q.live THEN {[r EXCEPT !.stale = TRUE] : r \in net \ {q}} ELSE net \ {q}
  /\ answer' = IF q.live THEN AnswerTo(q) ELSE answer
  /\ UNCHANGED <<watch, active, token, issued, host, run, bounds>>

-----------------------------------------------------------------------------
(* Users.                                                                    *)

\* patch_host_agent_config: the next version; names no longer watched are deleted.
Patches(w) ==
  /\ Change /\ active
  /\ watch' = Append(watch, w)
  /\ rows' = rows \cap w
  /\ UNCHANGED <<active, token, issued, host, run, net, answer>>

Revokes ==
  /\ Change
  /\ active' = FALSE /\ token' = 0
  /\ UNCHANGED <<watch, issued, rows, host, run, net, answer>>

\* enroll --force: every earlier token is revoked and a new one issued, and last_seq is 0
\* again, so that a report handled from now on is no duplicate.  When the answer is lost
\* agent.json stays as it was.
Enrolls ==
  /\ Change
  /\ active' = TRUE
  /\ issued' = issued + 1 /\ token' = issued'
  /\ \/ file' = [token |-> token', cfg |-> Current]
     \/ UNCHANGED file
  /\ net' = {[q EXCEPT !.stale = FALSE] : q \in net}
  /\ UNCHANGED <<watch, rows, state, run, answer>>

-----------------------------------------------------------------------------
Agent == Starts \/ Reports \/ GetsConfig \/ GetsAnswer
Ingest == \E q \in net : Authenticates(q) \/ Handles(q)

Next ==
  \/ Agent \/ TimesOut \/ AgentDies
  \/ Ingest
  \/ (\E w \in SUBSET Service : Patches(w)) \/ Revokes \/ Enrolls

Spec == Init /\ [][Next]_vars

\* The agent reports every interval, is restarted by its unit, and requests end.
FairSpec ==
  /\ Spec
  /\ WF_vars(Agent)
  /\ WF_vars(Ingest)

-----------------------------------------------------------------------------
(* Properties.                                                               *)

Agrees(v, cfg) == v = Version => cfg = Current

\* The hub believes an agent that names the version in force: nothing is pushed to
\* it.  Such an agent, running or to be restarted from state.json, has that very
\* configuration, although the one of an enrollment always counts as version 1.
AgreementMeansSame ==
  /\ run.pc # "off" => Agrees(run.ver, run.cfg)
  /\ Agrees(state.ver, state.cfg)

\* Once nothing changes or fails, the agent runs the configuration in force and its
\* services are the ones shown, unless its token is not valid.  (An empty report
\* deletes nothing: names brought back after the list was emptied stay.)
ConfigConverges ==
  \/ []<>(~active \/ token # file.token)
  \/ <>[](/\ run.ver = Version /\ run.cfg = Current
          /\ Current # {} => rows = Current)

=============================================================================
