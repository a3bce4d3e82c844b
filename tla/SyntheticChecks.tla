---------------------------- MODULE SyntheticChecks ----------------------------
(***************************************************************************)
(* One check of collector/synthetic.py: the collectors' probes, its row in    *)
(* synthetic_checks, its open outage alerts, the notices, and the users who   *)
(* edit, pause and delete it or resolve its alerts.  A collector reads the    *)
(* due checks, probes for up to a minute, and then writes from what it read,  *)
(* holding the row's lock.  Everything up to its commit is one transaction,   *)
(* so it may see the alerts as they were when it read the checks.             *)
(***************************************************************************)
EXTENDS Naturals

CONSTANTS
  Collector,   \* collecting processes; more than one only around a change of leader
  Target, nothing,   \* what can be probed, and no target
  Threshold,   \* consecutive_failure_threshold
  MaxEvents,   \* bound on changes of the targets and acts of users
  MaxFaults    \* bound on exceptions and crashes

ASSUME SyntheticAssumption ==
  /\ Threshold \in Nat \ {0} /\ nothing \notin Target
  /\ MaxEvents \in Nat /\ MaxFaults \in Nat

VARIABLES
  check,    \* the row in synthetic_checks
  open,     \* the number of its open outage alerts
  up,       \* which targets answer
  probe,    \* what each collector has read, and where it is
  failed,   \* how often in a row each target has failed, as recorded (up to Threshold)
  told,     \* outages and recoveries its contacts were told of
  edits,    \* edits of what is probed
  split,    \* two collectors have been under way at once
  lost,     \* a notice was lost in a crash
  events, faults

vars == <<check, open, up, probe, failed, told, edits, split, lost, events, faults>>
ghosts == <<failed, edits, split, lost>>

Status == {"unknown", "up", "down"}
Rows == [exists: BOOLEAN, on: BOOLEAN, due: BOOLEAN, target: Target,
         fails: 0..Threshold, status: Status]
Probes == [pc: {"idle", "probing", "answered", "telling"}, target: Target \cup {nothing},
           fails: 0..Threshold, status: Status, seen: Nat, edits: 0..MaxEvents,
           ok: BOOLEAN, news: {"none", "down", "recovered"}]

Idle == [pc |-> "idle", target |-> nothing, fails |-> 0, status |-> "unknown", seen |-> 0,
         edits |-> 0, ok |-> FALSE, news |-> "none"]

TypeOK ==
  /\ check \in Rows
  /\ open \in Nat
  /\ up \in [Target -> BOOLEAN]
  /\ probe \in [Collector -> Probes]
  /\ failed \in [Target -> 0..Threshold]
  /\ told \in [down: Nat, recovered: Nat]
  /\ edits \in 0..events
  /\ split \in BOOLEAN /\ lost \in BOOLEAN
  /\ events \in 0..MaxEvents /\ faults \in 0..MaxFaults

Init ==
  /\ \E t \in Target :
       check = [exists |-> TRUE, on |-> TRUE, due |-> TRUE, target |-> t,
                fails |-> 0, status |-> "unknown"]
  /\ open = 0
  /\ up \in [Target -> BOOLEAN]
  /\ probe = [c \in Collector |-> Idle]
  /\ failed = [t \in Target |-> 0]
  /\ told = [down |-> 0, recovered |-> 0]
  /\ edits = 0 /\ split = FALSE /\ lost = FALSE
  /\ events = 0 /\ faults = 0

Event == events < MaxEvents /\ events' = events + 1 /\ UNCHANGED faults
Fault == faults < MaxFaults /\ faults' = faults + 1 /\ UNCHANGED events
NoEvent == UNCHANGED <<events, faults>>

Counted(n) == IF n < Threshold THEN n + 1 ELSE n
Under(c) == probe[c].pc # "idle"

-----------------------------------------------------------------------------
(* run_due_checks.                                                           *)

\* The due checks are selected; this begins the transaction's view of the alerts.
Reads(c) ==
  /\ ~Under(c)
  /\ check.exists /\ check.on /\ check.due
  /\ probe' = [probe EXCEPT ![c] =
       [Idle EXCEPT !.pc = "probing", !.target = check.target, !.fails = check.fails,
                    !.status = check.status, !.seen = open, !.edits = edits]]
  /\ split' = (split \/ \E d \in Collector \ {c} : Under(d))
  /\ UNCHANGED <<check, open, up, failed, told, edits, lost>> /\ NoEvent

Answers(c) ==
  /\ probe[c].pc = "probing"
  /\ probe' = [probe EXCEPT ![c].pc = "answered", ![c].ok = up[probe[c].target]]
  /\ UNCHANGED <<check, open, up, told, ghosts>> /\ NoEvent

\* Mutant: only that the row is still there and enabled is confirmed.
StillEnabled(c) == check.exists /\ check.on

\* _check_unchanged_since_read.
Confirmed(c) ==
  /\ check.exists /\ check.on
  /\ check.target = probe[c].target

\* The streak and the status come from the row as it was read.
NewFails(c) == IF probe[c].ok THEN 0 ELSE Counted(probe[c].fails)
NewStatus(c) ==
  IF probe[c].ok THEN "up"
  ELSE IF NewFails(c) = Threshold THEN "down"
  ELSE probe[c].status

\* Mutant: every failing probe of an outage is news.
NewsEachTime(c) ==
  IF NewStatus(c) = "down" THEN "down"
  ELSE IF probe[c].ok /\ probe[c].status = "down" THEN "recovered"
  ELSE "none"

News(c) ==
  IF NewStatus(c) = "down" /\ probe[c].status # "down" THEN "down"
  ELSE IF probe[c].ok /\ probe[c].status = "down" THEN "recovered"
  ELSE "none"

\* Mutant: a recovery is one that ends a streak.
ResolvesStreaks(c, seen) ==
  IF NewStatus(c) = "down" /\ seen = 0 THEN open + 1
  ELSE IF probe[c].ok /\ probe[c].fails = Threshold THEN 0
  ELSE open

\* _write_or_update_alert and _resolve_alert: an alert is opened unless one is seen.
NewOpen(c, seen) ==
  IF NewStatus(c) = "down" /\ seen = 0 THEN open + 1
  ELSE IF probe[c].ok /\ probe[c].status = "down" THEN 0
  ELSE open

\* The row is locked and confirmed, the result, the row and the alerts are written and
\* committed; a probe of what has been edited, paused or deleted is discarded.  The
\* first check of a batch sees the alerts as of the SELECT, the others as they are.
Records(c) ==
  /\ probe[c].pc = "answered"
  /\ IF Confirmed(c)
     THEN /\ check' = [check EXCEPT !.fails = NewFails(c), !.status = NewStatus(c), !.due = FALSE]
          /\ \E seen \in {probe[c].seen, open} : open' = NewOpen(c, seen)
          /\ failed' = [failed EXCEPT ![check.target] = IF probe[c].ok THEN 0 ELSE Counted(@)]
          /\ probe' = [probe EXCEPT ![c] = [Idle EXCEPT !.pc = "telling", !.news = News(c)]]
     ELSE /\ probe' = [probe EXCEPT ![c] = Idle]
          /\ UNCHANGED <<check, open, failed>>
  /\ UNCHANGED <<up, told, edits, split, lost>> /\ NoEvent

\* _notify_after_probe.
Tells(c) ==
  /\ probe[c].pc = "telling"
  /\ told' = [n \in {"down", "recovered"} |-> IF probe[c].news = n THEN told[n] + 1 ELSE told[n]]
  /\ probe' = [probe EXCEPT ![c] = Idle]
  /\ UNCHANGED <<check, open, up, ghosts>> /\ NoEvent

\* An exception before the commit rolls back; a crash after it loses the notice.
Breaks(c) ==
  /\ Under(c) /\ Fault
  /\ probe' = [probe EXCEPT ![c] = Idle]
  /\ lost' = (lost \/ (probe[c].pc = "telling" /\ probe[c].news # "none"))
  /\ UNCHANGED <<check, open, up, told, failed, edits, split>>

-----------------------------------------------------------------------------
(* Users, targets and time.                                                  *)

\* PATCH of what is probed; the value sent may be the one that is stored.
Edits(t) ==
  /\ check.exists /\ Event
  /\ check' = [check EXCEPT !.target = t, !.fails = 0, !.due = TRUE]
  /\ edits' = edits + 1
  /\ UNCHANGED <<open, up, probe, told, failed, split, lost>>

\* PATCH of enabled.
Pauses(on) ==
  /\ check.exists /\ check.on # on /\ Event
  /\ check' = [check EXCEPT !.on = on]
  /\ UNCHANGED <<open, up, probe, told, ghosts>>

Deletes ==
  /\ check.exists /\ Event
  /\ check' = [check EXCEPT !.exists = FALSE]
  /\ open' = 0
  /\ UNCHANGED <<up, probe, told, ghosts>>

\* A user resolves an alert on the Alerts page.
Resolves ==
  /\ open > 0 /\ Event
  /\ open' = open - 1
  /\ UNCHANGED <<check, up, probe, told, ghosts>>

TargetChanges(t) ==
  /\ Event
  /\ up' = [up EXCEPT ![t] = ~@]
  /\ UNCHANGED <<check, open, probe, told, ghosts>>

\* next_check_at passes.
FallsDue ==
  /\ ~check.due
  /\ check' = [check EXCEPT !.due = TRUE]
  /\ UNCHANGED <<open, up, probe, told, ghosts>> /\ NoEvent

-----------------------------------------------------------------------------
Goes(c) == Answers(c) \/ Records(c) \/ Tells(c)

Next ==
  \/ \E c \in Collector : Reads(c) \/ Goes(c) \/ Breaks(c)
  \/ \E t \in Target : Edits(t) \/ TargetChanges(t)
  \/ \E on \in BOOLEAN : Pauses(on)
  \/ Deletes \/ Resolves \/ FallsDue

Spec == Init /\ [][Next]_vars

\* Some process collects, a probe has a timeout, and time passes.
FairSpec ==
  /\ Spec
  /\ WF_vars(\E c \in Collector : Reads(c))
  /\ \A c \in Collector : WF_vars(Goes(c))
  /\ WF_vars(FallsDue)

-----------------------------------------------------------------------------
(* Properties.                                                               *)

\* A deleted check has no open alert, whatever probe was under way.  While collectors do
\* not overlap, the check has at most one, and only while it is down: the recovery that
\* will close it is still to come.
AlertFollowsCheck ==
  /\ ~check.exists => open = 0
  /\ ~split /\ open > 0 => open = 1 /\ check.status = "down"

\* A check goes down only on as many failures in a row, recorded of the target it has
\* then, as its threshold says, unless collectors have overlapped.
OutageIsConfirmed ==
  [][check.status # "down" /\ check'.status = "down" =>
       split \/ failed'[check'.target] = Threshold]_vars

\* When no probe is under way its contacts know how it is: they were told once of each
\* outage and once of each recovery, unless collectors overlapped or one crashed just
\* after its commit.
NoticesTellTheStatus ==
  ~split /\ ~lost /\ (\A c \in Collector : ~Under(c)) =>
    told.down = told.recovered + (IF check.status = "down" THEN 1 ELSE 0)

\* Alert, status and notices tell of the same outages.
OutageIsTold == AlertFollowsCheck /\ NoticesTellTheStatus

Watched == check.exists /\ check.on

\* A target that stays unreachable has an open alert in the end, also after users
\* resolved it or edited the check.
OutageIsAlerted ==
  <>[](Watched /\ ~up[check.target]) => <>[](open > 0)

\* A target that stays reachable has none in the end, unless collectors overlapped.
RecoveryCloses ==
  []~split /\ <>[](Watched /\ up[check.target]) => <>[](open = 0)

\* A lasting state of the target is what its alert shows in the end.
AlertTracksTarget == OutageIsAlerted /\ RecoveryCloses

=============================================================================
