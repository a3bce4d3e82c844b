------------------------------ MODULE Incidents ------------------------------
(***************************************************************************)
(* collector/correlate.py for one account: alerts that began near each other  *)
(* on connected resources are grouped into incidents.  A pass is one          *)
(* transaction: its queries see what was committed when it began and what it  *)
(* wrote itself, its last UPDATE sees what is committed by then.  Meanwhile   *)
(* the evaluator and users open, acknowledge and close alerts.                *)
(***************************************************************************)
EXTENDS Integers, Sequences, FiniteSets

CONSTANTS
  Collector,  \* collecting processes
  Alert,      \* ids of alerts
  Critical,   \* the CRITICAL ones among them, the others are warnings
  Connected,  \* the pairs {a, b} of alerts whose resources share a relationship
  Span,       \* CORRELATION_WINDOW_MINUTES
  MaxTime,    \* bound on time
  MaxAcks,    \* bound on acknowledgements
  MaxFaults   \* bound on failed passes and passes that overlap another

VARIABLES
  now,
  alert,     \* status and triggered_at of each alert
  incident,  \* the committed incidents with their members, by id
  pass,      \* the transaction of each collector
  acks, faults

vars == <<now, alert, incident, pass, acks, faults>>

Alerts == [status: {"none", "active", "acknowledged", "resolved"}, at: 0..MaxTime]
IncidentRows == [status: {"active", "resolved"}, start: 0..MaxTime, critical: BOOLEAN,
                 members: SUBSET Alert]
Idle == [on |-> FALSE, todo |-> {}, seen |-> <<>>, rows |-> <<>>, old |-> 0, joined |-> {}]

TypeOK ==
  /\ now \in 0..MaxTime
  /\ alert \in [Alert -> Alerts]
  /\ incident \in Seq(IncidentRows)
  /\ \A c \in Collector :
       \/ pass[c] = Idle
       \/ /\ pass[c].on /\ pass[c].todo \subseteq Alert
          /\ pass[c].seen \in [Alert -> Alerts] /\ pass[c].rows \in Seq(IncidentRows)
          /\ pass[c].old \in 0..Len(incident) /\ pass[c].joined \subseteq 1..pass[c].old
  /\ acks \in 0..MaxAcks /\ faults \in 0..MaxFaults

Init ==
  /\ now = 0
  /\ alert = [a \in Alert |-> [status |-> "none", at |-> 0]]
  /\ incident = <<>>
  /\ pass = [c \in Collector |-> Idle]
  /\ acks = 0 /\ faults = 0

Fault == faults < MaxFaults /\ faults' = faults + 1
Near(t, u) == t - u <= Span /\ u - t <= Span
Written(c) == pass[c].joined # {} \/ Len(pass[c].rows) > pass[c].old
Others(c) == Collector \ {c}
World == <<now, alert, acks>>

-----------------------------------------------------------------------------
(* correlate_alerts_into_incidents.                                          *)

Loose == {a \in Alert : /\ alert[a].status = "active"
                        /\ \A i \in DOMAIN incident :
                             a \in incident[i].members => incident[i].status # "active"}

\* The first SELECT.  A pass beside another comes with a change of leader.
Begins(c) ==
  /\ ~pass[c].on
  /\ IF \E d \in Others(c) : pass[d].on THEN Fault ELSE UNCHANGED faults
  /\ pass' = [pass EXCEPT ![c] = [Idle EXCEPT !.on = TRUE, !.todo = Loose, !.seen = alert,
                                              !.rows = incident, !.old = Len(incident)]]
  /\ UNCHANGED <<World, incident>>

\* The active incidents with a connected alert that began near the alert.
Joinable(c, a) ==
  LET rows == pass[c].rows IN
  {i \in DOMAIN rows : /\ rows[i].status = "active"
                       /\ Near(rows[i].start, pass[c].seen[a].at)
                       /\ \E m \in rows[i].members : {a, m} \in Connected}

\* The connected active alerts near it that have never been in an incident.
Partners(c, a) ==
  {b \in Alert : /\ {a, b} \in Connected
                 /\ pass[c].seen[b].status = "active"
                 /\ Near(pass[c].seen[b].at, pass[c].seen[a].at)
                 /\ \A i \in DOMAIN pass[c].rows : b \notin pass[c].rows[i].members}

\* Mutant: a member that joins does not raise the severity.
GrownUnrated(row, a) == [row EXCEPT !.members = @ \cup {a}]

\* A member more, which may raise the severity.
Grown(row, a) == [row EXCEPT !.members = @ \cup {a}, !.critical = @ \/ a \in Critical]

\* The pass q with a as a member of its incident i.
Joined(q, a, i) ==
  [q EXCEPT !.todo = q.todo \ {a},
            !.rows = [q.rows EXCEPT ![i] = Grown(q.rows[i], a)],
            !.joined = IF i <= q.old THEN q.joined \cup {i} ELSE q.joined]

\* LIMIT 1 takes any; the row stays locked until the commit.
Joins(c, a) ==
  /\ pass[c].on /\ a \in pass[c].todo
  /\ \E i \in Joinable(c, a) :
       /\ \A d \in Others(c) : i > pass[c].old \/ i \notin pass[d].joined
       /\ pass' = [pass EXCEPT ![c] = Joined(@, a, i)]
  /\ UNCHANGED <<World, incident, faults>>

\* The earlier of the two starts it (pick_root), the worse of the two rates it.
Seed(a, b, seen) ==
  [status |-> "active", start |-> IF seen[a].at <= seen[b].at THEN seen[a].at ELSE seen[b].at,
   critical |-> {a, b} \cap Critical # {}, members |-> {a, b}]

\* The pass q with an incident of a and b more.
Seeded(q, a, b) ==
  [q EXCEPT !.todo = q.todo \ {a}, !.rows = Append(q.rows, Seed(a, b, q.seen))]

Seeds(c, a) ==
  /\ pass[c].on /\ a \in pass[c].todo /\ Joinable(c, a) = {}
  /\ \E b \in Partners(c, a) :
       pass' = [pass EXCEPT ![c] = Seeded(@, a, b)]
  /\ UNCHANGED <<World, incident, faults>>

StandsAlone(c, a) ==
  /\ pass[c].on /\ a \in pass[c].todo /\ Joinable(c, a) = {} /\ Partners(c, a) = {}
  /\ pass' = [pass EXCEPT ![c].todo = @ \ {a}]
  /\ UNCHANGED <<World, incident, faults>>

\* A row with what a pass added to its copy.
Both(row, copy) == [row EXCEPT !.members = row.members \cup copy.members,
                               !.critical = row.critical \/ copy.critical]

\* What the pass wrote, beside what was committed since it began.
Merged(c) ==
  LET mine == pass[c].rows
      old == pass[c].old
      kept == [i \in DOMAIN incident |->
                 IF i <= old THEN Both(incident[i], mine[i]) ELSE incident[i]]
  IN kept \o SubSeq(mine, old + 1, Len(mine))

\* Mutant: an acknowledged alert does not keep its incident.
ResolvedIfNoneActive(row) ==
  IF \A a \in row.members : alert[a].status # "active"
  THEN [row EXCEPT !.status = "resolved"] ELSE row

\* The last UPDATE, for each active incident.
Resolved(row) ==
  IF \A a \in row.members : alert[a].status \notin {"active", "acknowledged"}
  THEN [row EXCEPT !.status = "resolved"] ELSE row

\* It waits for the rows another pass has written, then the commit.
Commits(c) ==
  /\ pass[c].on /\ pass[c].todo = {}
  /\ \A d \in Others(c) : ~Written(d)
  /\ LET rows == Merged(c) IN incident' = [i \in DOMAIN rows |-> Resolved(rows[i])]
  /\ pass' = [pass EXCEPT ![c] = Idle]
  /\ UNCHANGED <<World, faults>>

\* Two passes that wait for each other: one is rolled back.
Deadlocks(c) ==
  /\ Written(c) /\ \E d \in Others(c) : Written(d)
  /\ pass' = [pass EXCEPT ![c] = Idle]
  /\ UNCHANGED <<World, incident, faults>>

Fails(c) ==
  /\ pass[c].on /\ Fault
  /\ pass' = [pass EXCEPT ![c] = Idle]
  /\ UNCHANGED <<World, incident>>

-----------------------------------------------------------------------------
(* The evaluator, users and time.                                            *)

Rest == UNCHANGED <<now, incident, pass, faults>>

Opens(a) ==
  /\ alert[a].status = "none"
  /\ alert' = [alert EXCEPT ![a] = [status |-> "active", at |-> now]]
  /\ UNCHANGED acks /\ Rest

Acknowledges(a) ==
  /\ alert[a].status = "active" /\ acks < MaxAcks
  /\ alert' = [alert EXCEPT ![a].status = "acknowledged"]
  /\ acks' = acks + 1 /\ Rest

\* It has become worse.
Withdraws(a) ==
  /\ alert[a].status = "acknowledged"
  /\ alert' = [alert EXCEPT ![a].status = "active"]
  /\ UNCHANGED acks /\ Rest

Closes(a) ==
  /\ alert[a].status \in {"active", "acknowledged"}
  /\ alert' = [alert EXCEPT ![a].status = "resolved"]
  /\ UNCHANGED acks /\ Rest

Passes == now < MaxTime /\ now' = now + 1 /\ UNCHANGED <<alert, acks, incident, pass, faults>>

-----------------------------------------------------------------------------
Works(c) ==
  \/ \E a \in Alert : Joins(c, a) \/ Seeds(c, a) \/ StandsAlone(c, a)
  \/ Commits(c) \/ Deadlocks(c)

Next ==
  \/ \E c \in Collector : Begins(c) \/ Works(c) \/ Fails(c)
  \/ \E a \in Alert : Opens(a) \/ Acknowledges(a) \/ Withdraws(a) \/ Closes(a)
  \/ Passes

Spec == Init /\ [][Next]_vars

-----------------------------------------------------------------------------
(* Properties.                                                               *)

\* An incident is a cascade: every member is connected to another one and began near the
\* start of the incident, also when two passes grew it.
IncidentsAreCascades ==
  \A i \in DOMAIN incident :
    \A a \in incident[i].members :
      /\ Near(incident[i].start, alert[a].at)
      /\ \E b \in incident[i].members : {a, b} \in Connected

\* "Worst of the two seeding alerts", and of those that joined: an incident is CRITICAL
\* exactly when a member is, also when two passes grew it.
SeverityIsTheWorst ==
  \A i \in DOMAIN incident : incident[i].critical <=> incident[i].members \cap Critical # {}

\* "'acknowledged' is still OPEN": no incident is resolved while a member is open, be it
\* one that was attached or withdrawn from an acknowledgement during the pass.
ResolvedWhenAllAre ==
  [][\A i \in DOMAIN incident :
       incident[i].status = "active" /\ incident'[i].status = "resolved"
       => \A a \in incident'[i].members : alert[a].status = "resolved"]_vars

=============================================================================
