---------------------------- MODULE AlertLifecycle ----------------------------
(***************************************************************************)
(* The alerts of one (account, resource, metric): alert_evaluator.py, which *)
(* opens, escalates and resolves them from readings, and the user actions   *)
(* of app/api/alerts.py that run against the same rows at the same time.    *)
(*                                                                         *)
(* The metric is a P1 metric, so it is evaluated on every 2-minute tick     *)
(* (evaluate_alerts(p1_only=True)) and again by the full evaluation of the  *)
(* 5-minute tier, which first sweeps stale alerts.  A row is evaluated in   *)
(* one REPEATABLE READ transaction: it reads the open alert, then writes.   *)
(* The time unit is the 2-minute tick; ages saturate where they stop        *)
(* mattering.                                                              *)
(***************************************************************************)
EXTENDS Naturals, Sequences

CONSTANTS
  Evaluator,      \* processes that run the tier loop (two of them only while leadership is split)
  Required,       \* _required_cycles(evaluation_period)
  CycleGap,       \* MIN_CYCLE_SECONDS in ticks
  SweepEvery,     \* a running collector completes a full evaluation this often
  PendingExpiry,  \* PENDING_EXPIRY_MINUTES
  Grace,          \* ORPHAN_GRACE_MINUTES
  HardExpiry,     \* hard_expiry_hours
  MayStop,        \* whether a collector may be down for a while
  MaxEvents       \* bound on user actions, changes of the signal, failures

ASSUME TimingAssumption ==
  /\ Required \in Nat \ {0} /\ CycleGap \in Nat \ {0} /\ SweepEvery \in Nat \ {0}
  /\ PendingExpiry \in Nat /\ Grace \in Nat /\ HardExpiry \in Nat /\ Grace <= HardExpiry
  /\ MaxEvents \in Nat /\ MayStop \in BOOLEAN

VARIABLES
  signal,    \* what the sweep and the row query find of the metric
  level,     \* where its latest reading lies
  pend,      \* its alert_pending row, or NoPending
  alerts,    \* its rows of alerts, by id
  ev,        \* ev[e]: the evaluation e is in the middle of
  up,        \* up[e]: e's collector runs
  p1Done,    \* p1Done[e]: e evaluated the P1 metrics in this tick
  sweepAge,  \* ticks since a full evaluation ran
  breach,    \* breaching evaluations since the last healthy one (history)
  calm,      \* healthy evaluations since the last breaching one (history)
  events

dbVars == <<pend, alerts>>
worldVars == <<signal, level>>
paceVars == <<up, p1Done, sweepAge>>
history == <<breach, calm>>
vars == <<worldVars, dbVars, ev, paceVars, history, events>>

Severity == {"low", "CRITICAL"}   \* low: WARNING in production, INFO elsewhere
Open == {"active", "acknowledged"}
Signal == {"live", "silent", "ungoverned", "gone"}
Reason == {"none", "recovered", "swept", "manual", "bulk_clear"}

AtMost(n, cap) == IF n < cap THEN n ELSE cap

NoPending == [cycles |-> 0, sev |-> "low", cycleAge |-> 0, seenAge |-> 0]
PendingCap == PendingExpiry + SweepEvery

NewAlert(s) == [sev |-> s, status |-> "active", reason |-> "none", streak |-> 0,
                cycleAge |-> 0, seenAge |-> 0]

Idle == [pc |-> "idle", doomed |-> {}, level |-> "healthy", id |-> 0,
         sev |-> "low", status |-> "active"]

PendingType == [cycles: 0..(Required - 1), sev: Severity, cycleAge: 0..CycleGap, seenAge: 0..PendingCap]
AlertType == [sev: Severity, status: Open \cup {"resolved"}, reason: Reason,
              streak: 0..Required, cycleAge: 0..CycleGap, seenAge: 0..HardExpiry]
EvType == [pc: {"idle", "sweep", "row", "selected"}, doomed: SUBSET Nat,
           level: Severity \cup {"healthy"}, id: Nat, sev: Severity, status: Open]

TypeOK ==
  /\ signal \in Signal
  /\ level \in Severity \cup {"healthy"}
  /\ pend \in PendingType
  /\ alerts \in Seq(AlertType)
  /\ ev \in [Evaluator -> EvType]
  /\ \A e \in Evaluator : ev[e].id \in {0} \cup DOMAIN alerts /\ ev[e].doomed \subseteq DOMAIN alerts
  /\ up \in [Evaluator -> BOOLEAN]
  /\ p1Done \in [Evaluator -> BOOLEAN]
  /\ sweepAge \in 0..SweepEvery
  /\ breach \in [count: 0..Required, age: 0..(Required * CycleGap)]
  /\ calm \in [count: 0..Required, age: 0..(Required * CycleGap)]
  /\ events \in 0..MaxEvents

Init ==
  /\ signal = "live"
  /\ level = "healthy"
  /\ pend = NoPending
  /\ alerts = <<>>
  /\ ev = [e \in Evaluator |-> Idle]
  /\ up = [e \in Evaluator |-> TRUE]
  /\ p1Done = [e \in Evaluator |-> FALSE]
  /\ sweepAge = 0
  /\ breach = [count |-> 0, age |-> 0]
  /\ calm = [count |-> 0, age |-> 0]
  /\ events = 0

OpenIds == {i \in DOMAIN alerts : alerts[i].status \in Open}

\* Mutant: acknowledged alerts are not looked up (before the 2026-09 audit).
NewestActive ==
  LET ids == {i \in OpenIds : alerts[i].status = "active"}
  IN IF ids = {} THEN 0 ELSE CHOOSE i \in ids : \A j \in ids : j <= i

\* SELECT ... ORDER BY id DESC LIMIT 1; 0 when there is none.
Newest == IF OpenIds = {} THEN 0 ELSE CHOOSE i \in OpenIds : \A j \in OpenIds : j <= i

Event == events < MaxEvents /\ events' = events + 1

-----------------------------------------------------------------------------
(* One evaluation by process e.                                              *)

\* The row query returns this metric only with a fresh reading, an active account
\* and an enabled threshold.  (A stopped instance counts as gone once its last
\* reading has left the freshness window.)
Fetch(e) ==
  ev' = [ev EXCEPT ![e] = IF signal = "live" THEN [Idle EXCEPT !.pc = "row"] ELSE Idle]

\* evaluate_alerts(p1_only=True) on the critical tick: no sweep.
StartP1(e) ==
  /\ up[e] /\ ev[e].pc = "idle" /\ ~p1Done[e]
  /\ p1Done' = [p1Done EXCEPT ![e] = TRUE]
  /\ Fetch(e)
  /\ UNCHANGED <<worldVars, dbVars, up, sweepAge, history, events>>

\* The open alerts the sweep's queries select.
Doomed ==
  {i \in OpenIds : \/ signal = "gone"
                   \/ signal = "ungoverned" /\ alerts[i].seenAge >= Grace
                   \/ alerts[i].seenAge >= HardExpiry}

\* evaluate_alerts() after a standard run: _auto_resolve_stale_alerts reads...
StartFull(e) ==
  /\ up[e] /\ ev[e].pc = "idle" /\ p1Done[e] /\ sweepAge >= 1
  /\ ev' = [ev EXCEPT ![e] = [Idle EXCEPT !.pc = "sweep", !.doomed = Doomed]]
  /\ UNCHANGED <<worldVars, dbVars, paceVars, history, events>>

\* Mutant: _resolve_ids updates by id alone.
ResolveIdsUnguarded(ids) ==
  [i \in DOMAIN alerts |->
     IF i \in ids THEN [alerts[i] EXCEPT !.status = "resolved", !.reason = "swept"] ELSE alerts[i]]

\* _resolve_ids: only rows that are still open.
ResolveIds(ids) ==
  [i \in DOMAIN alerts |->
     IF i \in ids /\ alerts[i].status \in Open
     THEN [alerts[i] EXCEPT !.status = "resolved", !.reason = "swept"] ELSE alerts[i]]

ExpirePending == IF pend.seenAge >= PendingExpiry THEN NoPending ELSE pend

\* ... resolves what it read, expires the candidate, commits, fetches the rows.
Sweep(e) ==
  /\ ev[e].pc = "sweep"
  /\ alerts' = ResolveIds(ev[e].doomed)
  /\ pend' = ExpirePending
  /\ sweepAge' = 0
  /\ Fetch(e)
  /\ UNCHANGED <<worldVars, up, p1Done, history, events>>

\* _evaluate_row: classify the reading and read the newest open alert.
SelectOpen(e) ==
  /\ ev[e].pc = "row"
  /\ ev' = [ev EXCEPT ![e] =
              [pc |-> "selected", doomed |-> {}, level |-> level, id |-> Newest,
               sev |-> IF Newest = 0 THEN "low" ELSE alerts[Newest].sev,
               status |-> IF Newest = 0 THEN "active" ELSE alerts[Newest].status]]
  /\ UNCHANGED <<worldVars, dbVars, paceVars, history, events>>

\* Mutant: every evaluation counts as a cycle.
AlwaysDue(r) == TRUE

\* MIN_CYCLE_SECONDS have passed since the last counted cycle.
Due(r) == r.cycleAge >= CycleGap

\* The UPDATE of a healthy cycle, and the resolution it may lead to.
Healthier(a) ==
  LET counted == IF Due(a) THEN [a EXCEPT !.streak = AtMost(@ + 1, Required), !.cycleAge = 0] ELSE a
      seen == [counted EXCEPT !.seenAge = 0]
  IN IF seen.streak >= Required /\ seen.status \in Open
     THEN [seen EXCEPT !.status = "resolved", !.reason = "recovered"] ELSE seen

Note(healthy) ==
  IF healthy
  THEN /\ breach' = [count |-> 0, age |-> 0]
       /\ calm' = [calm EXCEPT !.count = AtMost(@ + 1, Required)]
  ELSE /\ calm' = [count |-> 0, age |-> 0]
       /\ breach' = [count |-> AtMost(breach.count + 1, Required),
                     age |-> IF breach.count = 0 THEN 0 ELSE breach.age]

\* Not breaching: forget the candidate, count a healthy cycle of the open alert.
Recover(e) ==
  /\ ev[e].pc = "selected" /\ ev[e].level = "healthy"
  /\ pend' = NoPending
  /\ alerts' = IF ev[e].id = 0 THEN alerts ELSE [alerts EXCEPT ![ev[e].id] = Healthier(@)]
  /\ Note(TRUE)
  /\ ev' = [ev EXCEPT ![e] = Idle]
  /\ UNCHANGED <<worldVars, paceVars, events>>

\* Mutant: every breaching evaluation reopens an acknowledged alert.
ConfirmedReopening(a, seen, s) ==
  [a EXCEPT !.streak = 0, !.cycleAge = 0, !.seenAge = 0, !.sev = s,
            !.status = IF seen.status = "acknowledged" THEN "active" ELSE @]

\* The UPDATE of a breaching cycle, by id alone: severity follows the reading
\* down as well as up, and an escalation withdraws the acknowledgement it read.
Confirmed(a, seen, s) ==
  LET escalated == seen.sev # s /\ s = "CRITICAL"
  IN [a EXCEPT !.streak = 0, !.cycleAge = 0, !.seenAge = 0,
               !.sev = IF seen.sev # s THEN s ELSE @,
               !.status = IF escalated /\ seen.status = "acknowledged" THEN "active" ELSE @]

\* Breaching with an alert already open.
Confirm(e) ==
  /\ ev[e].pc = "selected" /\ ev[e].level # "healthy" /\ ev[e].id # 0
  /\ alerts' = [alerts EXCEPT ![ev[e].id] = Confirmed(@, ev[e], ev[e].level)]
  /\ Note(FALSE)
  /\ ev' = [ev EXCEPT ![e] = Idle]
  /\ UNCHANGED <<worldVars, pend, paceVars, events>>

\* Mutant: every touch moves the clock of the gate.
TouchedMovingClock(s) ==
  IF pend = NoPending THEN [cycles |-> 1, sev |-> s, cycleAge |-> 0, seenAge |-> 0]
  ELSE [cycles |-> IF Due(pend) THEN pend.cycles + 1 ELSE pend.cycles,
        sev |-> s, cycleAge |-> 0, seenAge |-> 0]

\* _touch_pending: the unique key makes it one row, a cycle counts when due,
\* and CRITICAL sticks.
Touched(s) ==
  IF pend = NoPending THEN [cycles |-> 1, sev |-> s, cycleAge |-> 0, seenAge |-> 0]
  ELSE [cycles |-> IF Due(pend) THEN pend.cycles + 1 ELSE pend.cycles,
        sev |-> IF s = "CRITICAL" THEN s ELSE pend.sev,
        cycleAge |-> IF Due(pend) THEN 0 ELSE pend.cycleAge,
        seenAge |-> 0]

\* Breaching with no alert open: touch the candidate, promote it when due.
Accumulate(e) ==
  /\ ev[e].pc = "selected" /\ ev[e].level # "healthy" /\ ev[e].id = 0
  /\ LET t == Touched(ev[e].level)
     IN IF t.cycles < Required
        THEN pend' = t /\ UNCHANGED alerts
        ELSE pend' = NoPending /\ alerts' = Append(alerts, NewAlert(t.sev))
  /\ Note(FALSE)
  /\ ev' = [ev EXCEPT ![e] = Idle]
  /\ UNCHANGED <<worldVars, paceVars, events>>

\* The row's transaction fails (deadlock, bad data) and is rolled back.
RowFails(e) ==
  /\ Event
  /\ ev[e].pc = "selected"
  /\ ev' = [ev EXCEPT ![e] = Idle]
  /\ UNCHANGED <<worldVars, dbVars, paceVars, history>>

Evaluate(e) ==
  \/ StartP1(e) \/ StartFull(e) \/ Sweep(e) \/ SelectOpen(e)
  \/ Recover(e) \/ Confirm(e) \/ Accumulate(e)

-----------------------------------------------------------------------------
(* Users, and the world.                                                     *)

\* Every user action is one guarded UPDATE.
Human(ids, status, reason) ==
  /\ Event
  /\ ids # {}
  /\ alerts' = [i \in DOMAIN alerts |->
                  IF i \in ids THEN [alerts[i] EXCEPT !.status = status,
                                       !.reason = IF reason = "none" THEN @ ELSE reason]
                               ELSE alerts[i]]
  /\ UNCHANGED <<worldVars, pend, ev, paceVars, history>>

Active == {i \in DOMAIN alerts : alerts[i].status = "active"}

AckAlert(i) == i \in Active /\ Human({i}, "acknowledged", "none")
AckGroup == Human(Active, "acknowledged", "none")
ResolveAlert(i) == i \in OpenIds /\ Human({i}, "resolved", "manual")
ClearAlerts == Human(Active, "resolved", "bulk_clear")

\* The reading, or what is known of the resource and its threshold, changes.
WorldChanges ==
  /\ Event
  /\ \/ \E s \in Signal \ {signal} : signal' = s /\ UNCHANGED level
     \/ \E l \in (Severity \cup {"healthy"}) \ {level} : level' = l /\ UNCHANGED signal
  /\ UNCHANGED <<dbVars, ev, paceVars, history>>

\* The collector stops, whatever it was doing, and starts again later.
CollectorStops(e) ==
  /\ MayStop
  /\ Event
  /\ up[e]
  /\ up' = [up EXCEPT ![e] = FALSE]
  /\ ev' = [ev EXCEPT ![e] = Idle]
  /\ UNCHANGED <<worldVars, dbVars, p1Done, sweepAge, history>>

\* The critical tier always runs at once on a restart.
CollectorStarts(e) ==
  /\ ~up[e]
  /\ up' = [up EXCEPT ![e] = TRUE]
  /\ p1Done' = [p1Done EXCEPT ![e] = FALSE]
  /\ UNCHANGED <<worldVars, dbVars, ev, sweepAge, history, events>>

Aged(r) == [r EXCEPT !.cycleAge = AtMost(@ + 1, CycleGap), !.seenAge = AtMost(@ + 1, HardExpiry)]

\* Two minutes pass, also in the middle of an evaluation; a running collector
\* does not miss its full evaluation.
Tick ==
  /\ sweepAge < SweepEvery \/ \A e \in Evaluator : ~up[e]
  /\ sweepAge' = AtMost(sweepAge + 1, SweepEvery)
  /\ p1Done' = [e \in Evaluator |-> FALSE]
  /\ pend' = IF pend = NoPending THEN pend
             ELSE [pend EXCEPT !.cycleAge = AtMost(@ + 1, CycleGap),
                               !.seenAge = AtMost(@ + 1, PendingCap)]
  /\ alerts' = [i \in DOMAIN alerts |-> IF i \in OpenIds THEN Aged(alerts[i]) ELSE alerts[i]]
  /\ breach' = IF breach.count = 0 THEN breach
               ELSE [breach EXCEPT !.age = AtMost(@ + 1, Required * CycleGap)]
  /\ calm' = [calm EXCEPT !.age = AtMost(@ + 1, Required * CycleGap)]
  /\ UNCHANGED <<worldVars, ev, up, events>>

Next ==
  \/ Tick
  \/ \E e \in Evaluator : Evaluate(e) \/ RowFails(e) \/ CollectorStops(e) \/ CollectorStarts(e)
  \/ \E i \in DOMAIN alerts : AckAlert(i) \/ ResolveAlert(i)
  \/ AckGroup \/ ClearAlerts \/ WorldChanges

Spec == Init /\ [][Next]_vars

\* Time passes, and a collector goes through its evaluations and is restarted.
Fairness ==
  /\ WF_vars(Tick)
  /\ \A e \in Evaluator : WF_vars(Evaluate(e)) /\ WF_vars(CollectorStarts(e))

FairSpec == Spec /\ Fairness

-----------------------------------------------------------------------------
(* Properties.                                                               *)

\* With one collector there is never a second open alert for the metric, however
\* user actions fall between the SELECT and the INSERT of an evaluation.
OneOpenAlert == \A i, j \in OpenIds : i = j

\* Evaluations every two minutes never count double: an alert opens only after
\* Required breaching evaluations with no healthy one between, spread over at
\* least Required - 1 cycles (MIN_CYCLE_SECONDS, alert_pending).
OpensOnlyWhenSustained ==
  [][Len(alerts') > Len(alerts) => /\ breach'.count >= Required
                                   /\ breach'.age >= (Required - 1) * CycleGap]_vars

\* The evaluator resolves an alert as recovered only after Required healthy
\* evaluations and Required full cycles without a breaching one.
RecoversOnlyWhenSustained ==
  [][\A i \in OpenIds : alerts'[i].status = "resolved" /\ alerts'[i].reason = "recovered"
       => calm'.count >= Required /\ calm'.age >= Required * CycleGap]_vars

\* "A concurrent human action is never overwritten": what a user resolved is not
\* resolved again by the sweep or the evaluator under another reason.
HumanResolutionKept ==
  [][\A i \in DOMAIN alerts : alerts[i].status = "resolved" /\ alerts[i].reason \in {"manual", "bulk_clear"}
       => alerts'[i].reason = alerts[i].reason]_vars

\* An acknowledgement is withdrawn only when the alert gets worse.
AckWithdrawnOnlyWhenWorse ==
  [][\A i \in DOMAIN alerts : alerts[i].status = "acknowledged" /\ alerts'[i].status = "active"
       => alerts[i].sev = "low" /\ alerts'[i].sev = "CRITICAL"]_vars

\* _auto_resolve_stale_alerts, alert_evaluator.py:516: candidates "never
\* re-confirmed must not be able to combine with a LATER, unrelated blip".  While
\* full evaluations keep to their period, no candidate is there to combine with that
\* nothing touched for its expiry and one sweep period.
StaleCandidateIsDropped == [](sweepAge < SweepEvery => pend.seenAge < PendingCap)

\* Alerts open and recover on a sustained state of the metric, whatever sweeps, silences
\* and extra evaluations fall in between.
OnlyWhenSustained == OpensOnlyWhenSustained /\ RecoversOnlyWhenSustained /\ StaleCandidateIsDropped

\* When the metric stays healthy, every alert of it closes, evaluations on every
\* tick and failures notwithstanding (the P1 alerts that never closed, 074).
RecoveryCloses ==
  <>[](signal = "live" /\ level = "healthy") => <>[](OpenIds = {})

\* When it stays critical, a CRITICAL alert is open in the end.
BreachAlerts ==
  <>[](signal = "live" /\ level = "CRITICAL")
    => <>[](\E i \in OpenIds : alerts[i].sev = "CRITICAL")

\* A state of the metric that lasts is what its alerts say in the end.
AlertsFollowTheMetric == RecoveryCloses /\ BreachAlerts

\* alerts.py:755: "a resolved alert can no longer be "acknowledged" back into
\* existence".  No action takes a resolved alert back to an open status.
ResolutionStands ==
  [][\A i \in DOMAIN alerts : alerts[i].status = "resolved" => alerts'[i].status = "resolved"]_vars

=============================================================================
