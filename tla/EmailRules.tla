------------------------------ MODULE EmailRules ------------------------------
(***************************************************************************)
(* email/rule_dispatch.py for one recipient: hooks and the five-minute sweep  *)
(* put jobs on a bounded queue of their process, and the process's worker     *)
(* decides and mails them, rule after rule.  email_rule_sends is its memory:  *)
(* once per event, a throttle for each resource and event, an hourly cap.     *)
(* An opened (or escalated) alert comes by a hook, and is mailed if its job   *)
(* is; the rest is found by a sweep, in the periods in which one is asked for. *)
(* The worker reads it in the transaction that began after its last commit.   *)
(***************************************************************************)
EXTENDS Naturals, Sequences, FiniteSets

CONSTANTS
  Process,    \* collecting processes; more than one only around a change of leader
  Object,     \* ids of alerts and incidents
  Resource, none,   \* the resources, and what an incident has instead
  Res,        \* the resource of each object
  Quiet,      \* the alerts that are silenced when they resolve
  Wants,      \* the events each rule that lists the recipient asks for, in the order of rules
  QueueMax, SweepLimit, Window, Throttle, Hour, Cap,   \* the limits, times in sweep periods
  MaxTime,    \* bound on time
  MaxFaults   \* bound on failed mails, crashes and slow workers

Event == {"alert_opened", "alert_resolved", "incident_opened", "incident_resolved"}
OfIncident == {"incident_opened", "incident_resolved"}
Swept == Event \ {"alert_opened"}
Rule == DOMAIN Wants

ASSUME EmailAssumption ==
  /\ Object \subseteq Nat /\ IsFiniteSet(Object)
  /\ Res \in [Object -> Resource \cup {none}] /\ Quiet \subseteq Object
  /\ Wants \in Seq(SUBSET Event) /\ Len(Wants) > 0
  /\ {QueueMax, SweepLimit, Window, Throttle, Hour, Cap, MaxTime, MaxFaults} \subseteq Nat
  /\ Window > 0   \* EMAIL_RULE_SWEEP_MINUTES is five at least, the period of the sweeps

VARIABLES
  now,
  opened,     \* alerts that have opened
  happened,   \* what a sweep looks for: resolutions, incidents opened, with their times
  queue,      \* _Worker._q of each process
  pending,    \* _Worker._sweep_pending
  worker,     \* the job of each worker
  sends,      \* email_rule_sends
  mails,      \* how often each event was mailed
  posted,     \* the mails by rule and time (history)
  asked,      \* the periods in which a sweep was asked for (history)
  split,      \* two workers have been busy at once
  unrecorded, \* a mail went out and was not recorded
  troubled,   \* a mail, a job or a worker failed, or was late
  crowded,    \* a sweep's query found more than it takes
  faults

world == <<now, opened, happened, asked>>
memory == <<sends, mails, posted>>
ghosts == <<split, unrecorded, troubled, crowded>>
vars == <<world, memory, ghosts, queue, pending, worker, faults>>

Item == [event: Event, object: Object]
Row == [rule: Rule, event: Event, object: Object, at: 0..MaxTime]
Job == [kind: {"sweep"}] \cup [kind: {"event"}, item: Item]
SweepJob == [kind |-> "sweep"]
Idle == [pc |-> "idle", sweep |-> FALSE, todo |-> {}, rule |-> 1, view |-> {}]

TypeOK ==
  /\ now \in 0..MaxTime
  /\ opened \subseteq Object
  /\ happened \subseteq [event: Swept, object: Object, at: 0..MaxTime]
  /\ queue \in [Process -> Seq(Job)] /\ \A p \in Process : Len(queue[p]) <= QueueMax
  /\ pending \in [Process -> BOOLEAN]
  /\ worker \in [Process -> [pc: {"idle", "deciding", "sending", "recording"}, sweep: BOOLEAN,
                             todo: SUBSET Item, rule: Rule, view: SUBSET Row]]
  /\ sends \subseteq Row
  /\ mails \in [Item -> Nat] /\ posted \subseteq Row
  /\ asked \subseteq 0..MaxTime
  /\ {split, unrecorded, troubled, crowded} \subseteq BOOLEAN
  /\ faults \in 0..MaxFaults

Init ==
  /\ now = 0 /\ opened = {} /\ happened = {} /\ asked = {}
  /\ queue = [p \in Process |-> <<>>]
  /\ pending = [p \in Process |-> FALSE]
  /\ worker = [p \in Process |-> Idle]
  /\ sends = {} /\ mails = [i \in Item |-> 0] /\ posted = {}
  /\ split = FALSE /\ unrecorded = FALSE /\ troubled = FALSE /\ crowded = FALSE
  /\ faults = 0

Fault == faults < MaxFaults /\ faults' = faults + 1

Busy(p) == worker[p].pc # "idle"
IsIncident(o) == Res[o] = none

-----------------------------------------------------------------------------
(* The hooks.                                                                *)

\* submit: a full queue drops the job.
Submits(p, job) ==
  IF Len(queue[p]) < QueueMax
  THEN queue' = [queue EXCEPT ![p] = Append(@, job)] /\ UNCHANGED troubled
  ELSE UNCHANGED queue /\ troubled' = TRUE

\* enqueue_alert_event.
Opens(p, o) ==
  /\ o \notin opened /\ ~IsIncident(o)
  /\ opened' = opened \cup {o}
  /\ Submits(p, [kind |-> "event", item |-> [event |-> "alert_opened", object |-> o]])
  /\ UNCHANGED <<now, happened, asked, memory, split, unrecorded, crowded, pending, worker, faults>>

\* An alert or an incident is resolved, by whatever path, or an incident is opened.
Happens(e, o) ==
  /\ e \in OfIncident <=> IsIncident(o)
  /\ \A h \in happened : h.object = o => h.event # e
  /\ e = "incident_resolved" => \E h \in happened : h.object = o
  /\ happened' = happened \cup {[event |-> e, object |-> o, at |-> now]}
  /\ UNCHANGED <<now, opened, asked, memory, ghosts, queue, pending, worker, faults>>

\* request_sweep, in a standard cycle that gets there: not while one is queued or running.
RequestsSweep(p) ==
  /\ asked' = asked \cup {now}
  /\ IF pending[p] THEN UNCHANGED <<queue, troubled, pending>>
     ELSE /\ Submits(p, SweepJob)
          /\ pending' = [pending EXCEPT ![p] = Len(queue[p]) < QueueMax]
  /\ UNCHANGED <<now, opened, happened, memory, split, unrecorded, crowded, worker, faults>>

-----------------------------------------------------------------------------
(* The worker.                                                               *)

\* Silenced alerts are left out.
Silent(h) == h.event = "alert_resolved" /\ h.object \in Quiet

\* A query of the sweep, one for each event that a rule wants: the first SweepLimit rows
\* by id of what is in its window.
Due(e) == {h.object : h \in {g \in happened : g.event = e /\ now - g.at <= Window /\ ~Silent(g)}}
Query(S) == {o \in S : Cardinality({x \in S : x < o}) < SweepLimit}

Wanted(e) == \E r \in Rule : e \in Wants[r]
SweepItems ==
  {i \in Item : i.event \in Swept /\ Wanted(i.event) /\ i.object \in Query(Due(i.event))}
Overfull == \E e \in Swept : Wanted(e) /\ Cardinality(Due(e)) > SweepLimit

\* What the worker turns to: event after event, by id.
Turn == [alert_opened |-> 0, alert_resolved |-> 1, incident_opened |-> 2, incident_resolved |-> 3]
Before(i, j) ==
  \/ Turn[i.event] < Turn[j.event]
  \/ i.event = j.event /\ i.object <= j.object
First(S) == CHOOSE i \in S : \A j \in S : Before(i, j)
Current(p) == First(worker[p].todo)

\* The job is taken, the sweep queried, the rules loaded: the transaction begins.
Takes(p) ==
  /\ ~Busy(p) /\ queue[p] # <<>>
  /\ LET job == Head(queue[p])
         todo == IF job.kind = "sweep" THEN SweepItems ELSE {job.item}
     IN /\ queue' = [queue EXCEPT ![p] = Tail(@)]
        /\ worker' = [worker EXCEPT ![p] =
             IF todo = {} THEN Idle
             ELSE [pc |-> "deciding", sweep |-> job.kind = "sweep", todo |-> todo,
                   rule |-> 1, view |-> sends]]
        /\ pending' = [pending EXCEPT ![p] = @ /\ (job.kind = "sweep" => todo # {})]
        /\ split' = (split \/ (todo # {} /\ \E q \in Process \ {p} : Busy(q)))
        /\ crowded' = (crowded \/ (job.kind = "sweep" /\ Overfull))
  /\ UNCHANGED <<world, memory, unrecorded, troubled, faults>>

\* The next rule, else the next item, else the next job.
GoesOn(p, nextItem, view) ==
  LET w == worker[p]
      rest == w.todo \ {Current(p)}
      done == rest = {} /\ (nextItem \/ w.rule = Len(Wants))
  IN /\ worker' = [worker EXCEPT ![p] =
          IF ~nextItem /\ w.rule < Len(Wants)
          THEN [w EXCEPT !.pc = "deciding", !.rule = w.rule + 1, !.view = view]
          ELSE IF done THEN Idle
          ELSE [w EXCEPT !.pc = "deciding", !.rule = 1, !.todo = rest, !.view = view]]
     /\ pending' = [pending EXCEPT ![p] = @ /\ ~(done /\ w.sweep)]

\* Mutant: a rule looks at its own mails only.
AlreadyByRule(rows, r, i) ==
  \E s \in rows : s.rule = r /\ s.event = i.event /\ s.object = i.object

\* _already_sent, whatever rule sent it.
Already(rows, r, i) == \E s \in rows : s.event = i.event /\ s.object = i.object

\* _recent_sends: what the rule mailed in the hour.
InHour(rows, r, t) == {s \in rows : s.rule = r /\ s.at + Hour > t}

\* Mutant: an opened mail swallows the resolved mail.
RecentOfAnyEvent(rows, r, i, t) ==
  {s \in InHour(rows, r, t) : Res[s.object] = Res[i.object]
                              /\ ~IsIncident(i.object) /\ s.at + Throttle > t}

\* The mails of the hour that are about the resource and event, inside the throttle.
Recent(rows, r, i, t) ==
  {s \in InHour(rows, r, t) : s.event = i.event /\ Res[s.object] = Res[i.object]
                              /\ ~IsIncident(i.object) /\ s.at + Throttle > t}

\* Mutant: the throttle is not looked at.
DecideUnthrottled(rows, r, i) ==
  ~Already(rows, r, i) /\ Cardinality(InHour(rows, r, now)) < Cap

\* decide.
Decide(rows, r, i) ==
  /\ ~Already(rows, r, i)
  /\ Cardinality(InHour(rows, r, now)) < Cap
  /\ Recent(rows, r, i, now) = {}

Decides(p) ==
  LET w == worker[p] IN
  /\ w.pc = "deciding"
  /\ IF Current(p).event \in Wants[w.rule] /\ Decide(w.view, w.rule, Current(p))
     THEN worker' = [worker EXCEPT ![p].pc = "sending"] /\ UNCHANGED pending
     ELSE GoesOn(p, FALSE, w.view)
  /\ UNCHANGED <<world, memory, ghosts, queue, faults>>

\* What a worker mails now, or the row of it, which the unique key keeps single.
NewRow(p) ==
  [rule |-> worker[p].rule, event |-> Current(p).event, object |-> Current(p).object, at |-> now]

Sends(p) ==
  /\ worker[p].pc = "sending"
  /\ worker' = [worker EXCEPT ![p].pc = "recording"]
  /\ mails' = [mails EXCEPT ![Current(p)] = @ + 1]
  /\ posted' = posted \cup {NewRow(p)}
  /\ UNCHANGED <<world, sends, ghosts, queue, pending, faults>>

\* The mail server refuses it.
Refused(p) ==
  /\ worker[p].pc = "sending" /\ Fault
  /\ troubled' = TRUE
  /\ GoesOn(p, FALSE, worker[p].view)
  /\ UNCHANGED <<world, memory, split, unrecorded, crowded, queue>>

\* _record_send: INSERT IGNORE and commit; the next read begins a new transaction.
Records(p) ==
  /\ worker[p].pc = "recording"
  /\ sends' = IF Already(sends, worker[p].rule, Current(p)) THEN sends ELSE sends \cup {NewRow(p)}
  /\ GoesOn(p, FALSE, sends')
  /\ UNCHANGED <<world, mails, posted, ghosts, queue, faults>>

\* The insert raises: the item is given up.
NotRecorded(p) ==
  /\ worker[p].pc = "recording" /\ Fault
  /\ unrecorded' = TRUE /\ troubled' = TRUE
  /\ GoesOn(p, TRUE, worker[p].view)
  /\ UNCHANGED <<world, memory, split, crowded, queue>>

\* The process restarts: its queue is memory.
Crashes(p) ==
  /\ Fault
  /\ unrecorded' = (unrecorded \/ worker[p].pc = "recording")
  /\ troubled' = TRUE
  /\ queue' = [queue EXCEPT ![p] = <<>>]
  /\ pending' = [pending EXCEPT ![p] = FALSE]
  /\ worker' = [worker EXCEPT ![p] = Idle]
  /\ UNCHANGED <<world, memory, split, crowded>>

\* A sweep period passes, with a sweep or without: the standard cycle raises before it asks
\* for one, its slot is skipped, or nobody leads.  It is a fault of the mail server when a
\* worker is not done.
Passes ==
  /\ now < MaxTime
  /\ now' = now + 1
  /\ IF \E p \in Process : Busy(p) \/ queue[p] # <<>>
     THEN Fault /\ troubled' = TRUE
     ELSE UNCHANGED <<faults, troubled>>
  /\ UNCHANGED <<opened, happened, asked, memory, split, unrecorded, crowded, queue, pending, worker>>

-----------------------------------------------------------------------------
Works(p) == Takes(p) \/ Decides(p) \/ Sends(p) \/ Records(p)

Next ==
  \/ \E p \in Process :
       \/ RequestsSweep(p) \/ Works(p)
       \/ Refused(p) \/ NotRecorded(p) \/ Crashes(p)
       \/ \E o \in Object : Opens(p, o)
  \/ \E e \in Swept, o \in Object : Happens(e, o)
  \/ Passes

Spec == Init /\ [][Next]_vars

-----------------------------------------------------------------------------
(* Properties.                                                               *)

\* "Never the same person twice for the same alert/incident event", whatever sweeps
\* overlap and however many rules match, unless two workers were busy at once or a mail
\* went out and was not recorded.
MailedOnce == split \/ unrecorded \/ \A i \in Item : mails[i] <= 1

\* No rule mails its recipient more than Cap times in an hour, or twice about a resource
\* and event inside the throttle as far as the hour it looks at goes.  What counts is when
\* the mails went out, not their rows.  Two workers that were busy at once are excepted,
\* and a mail that went out and was not recorded (rule_dispatch.py:212-215): the next
\* decision, of the same worker too, does not know of it.
RuleKeepsItsLimits ==
  split \/ unrecorded \/
  \A m \in posted :
    /\ \A n \in posted \ {m} :
         m.rule = n.rule /\ m.event = n.event /\ Res[m.object] = Res[n.object] /\ Res[m.object] # none
         /\ m.at <= n.at => m.at + Throttle <= n.at \/ m.at + Hour <= n.at
    /\ Cardinality({n \in posted : n.rule = m.rule /\ n.at <= m.at /\ n.at + Hour > m.at}) <= Cap

\* A sweep is marked as pending exactly while it is queued or running, so that none is
\* queued beside another and no sweep is refused for ever.
PendingIsTrue ==
  \A p \in Process :
    LET waiting == {n \in 1..Len(queue[p]) : queue[p][n].kind = "sweep"}
        running == IF Busy(p) /\ worker[p].sweep THEN 1 ELSE 0
    IN Cardinality(waiting) + running = IF pending[p] THEN 1 ELSE 0

\* The limits of the rules, with the bookkeeping they rest on: what is queued and logged is
\* well formed, and no process has two sweeps or marks one it does not have.
RulesKeepTheirLimits == TypeOK /\ PendingIsTrue /\ RuleKeepsItsLimits

\* No mail of it went out, and it has left the window of the sweeps...
ItemOf(h) == [event |-> h.event, object |-> h.object]
Missed(h) == now > h.at + Window /\ mails[ItemOf(h)] = 0

\* ...in which a sweep was asked for once at least, in a later period...
SweepAsked(h) == \E t \in asked : h.at < t /\ t <= h.at + Window

\* ...and not because each rule that wants it had mailed of the resource and event, or up
\* to its cap, so shortly before, or since.
Held(h) ==
  \A r \in Rule : h.event \in Wants[r] =>
    \/ \E s \in sends : /\ s.rule = r /\ s.event = h.event /\ s.at + Throttle > h.at
                       /\ Res[s.object] = Res[h.object] /\ Res[h.object] # none
    \/ Cardinality({s \in sends : s.rule = r /\ s.at + Hour > h.at}) >= Cap

\* What a sweep looks for and a rule wants is mailed before it leaves the window of the
\* sweeps, be it that some of its periods have no sweep, if one has.  After an outage as
\* long as the window nothing is promised, nor for a silenced alert, nor once a mail, a job
\* or a worker failed, or more was in a window than a sweep takes.
SweptIsMailed ==
  \A h \in happened :
    Missed(h) /\ SweepAsked(h) /\ Wanted(h.event) /\ ~Silent(h) => Held(h) \/ troubled \/ crowded

=============================================================================
