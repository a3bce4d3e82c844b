# Monitoring hub: a TLA+ development

The monitoring hub is a FastAPI application (`app/`) that collects metrics from AWS, Azure and Google accounts and from its
own host agents (`agent/`, Go), evaluates them against thresholds, opens alerts, groups them into incidents, mails people and
renders reports. It runs as several uvicorn worker processes over one MySQL database and, if present, one Redis. This
directory models the parts whose correctness depends on the order in which processes, threads and messages act.

`PROJECT.json` lists every component, run, mutant, hazard and theorem, and maps each definition to the lines it stands for.
Paths below are relative to the repository.

## 1. The system

### 1.1 Components that keep state others depend on

| Component | State | Operations | Correct when |
|---|---|---|---|
| Leader election (`app/collector/leader.py`, `app/main.py`) | the named lock of MySQL (per session), per process `started`, `leader_event`, the connection | poll: connect, GET_LOCK, start threads; re-confirm; give up | never two processes believe they lead over live sessions; an ex-leader's loops stop; collection resumes |
| Tier loop (`app/collector/scheduler.py`) | last-run time of each tier, persisted in `op_events` | one iteration runs the due tiers in a fixed order | a step begins only while leading; every tier runs at its rate without bursts |
| Alert evaluation (`app/collector/alert_evaluator.py`) | `alerts`, `alert_pending` | P1 evaluation, full evaluation with a sweep of stale alerts | one open alert per metric; opens and recovers only when sustained; user actions respected |
| Alert actions (`app/api/alerts.py`) | the same rows | acknowledge, resolve, group acknowledge, clear | a user's decision stands |
| Host agent (`agent/internal/runner`, `queue`, `state`, `sender`) | counter and config in `state.json`, disk queue, back-off | tick, drain, retry, flush, start | payloads in order, none stuck, bounded disk |
| Hub ingest (`app/hostagents/ingest.py`) | `host_agents.last_seq`, `last_seen_at`, samples, service rows | authenticate, claim a number, write | written once, in order; a 200 means written |
| Agent enrollment and configuration (`app/api/host_agents.py`) | keys, tokens, `config_version` | enroll, rotate, revoke, push a watch list | a key is spent at most `max_uses` times; states shown belong to the current list |
| Report jobs (`app/reports/worker.py`) | `report_jobs`, `reports` | claim, complete, fail, sweep | one runner; the status tells the truth; every job ends |
| Report requests and schedules (`app/api/reports.py`, `app/reports/scheduler.py`) | named lock, `report_schedules` | check-then-insert, claim of a period | no duplicate job; each period once |
| Escalation, maintenance, watchdog (`app/collector/escalation.py`, `maintenance.py`, `host_agent_watchdog.py`) | `alerts.escalated_at`, `silenced`, agent alerts | claim then mail; reconcile silences; open and close `agent_silent` | paged once; silences follow the windows; a host that is heard has no alert |
| Email rules (`app/email/rule_dispatch.py`) | bounded queue in memory, log of mails sent | enqueue, dispatch, sweep | each event at most once to each recipient; nothing is missed but in a burst or an outage as long as the window |
| Incidents (`app/collector/correlate.py`) | `incidents`, `incident_alerts` | attach, seed, resolve | an incident is a connected cascade, as severe as its worst member, resolved when all members are |
| Synthetic checks (`app/collector/synthetic.py`) | streak and status of a check, its alert | probe, apply, tell, edit, delete | a result is applied to the check that was probed; alert, status and notices tell of the same outages |
| Shared cache, rollup cache (`app/utils/shared_cache.py`, `app/alert_cache.py`) | process copy, Redis copy, flights, fingerprint | load, store, invalidate | one loader; nothing that was invalidated is found again; every call ends |
| Database pool (`app/db.py`) | pooled connections | get, close, backstop | no connection is lost |
| Live updates (`app/ws/manager.py`, `pusher.py`) | the list of sockets, their scopes | connect, disconnect, broadcast | each message once, in order, within the scope, to every browser |
| Rate limit (`app/auth/rate_limit.py`) | counter and expiry in Redis | INCR, EXPIRE | nobody is locked out for good |

The rest is listed in `PROJECT.json` with the reason it is not modelled: clients of cloud APIs, discovery upserts,
classification tables, statistics, report layout, cost, retention, posture checks, CRUD, audit inserts, language model calls,
frontend, deployment. They are input and output, pure functions of data, or single transactions.

### 1.2 How they interact

- **Through leadership.** Whoever holds the lock runs the tier loop, the loops it spawns, the report sweeper and the schedule
  runner. Everything those threads assume about being alone rests on the election.
- **Through rows.** The evaluator, users, the watchdog, maintenance and escalation write the same `alerts`; the request's
  background task and the sweepers write the same `report_jobs`. Reads and writes of one handler are separate statements,
  and most updates are by id.
- **Through messages.** The agent posts numbered payloads; the answer may be lost, and a request may be handled after the
  agent stopped waiting for it.
- **Through caches** invalidated by time, by key or by a fingerprint.

### 1.3 What is hard

A lock that the server may take away silently; read-then-update-by-id against users; evaluations every two minutes that must
not count as five-minute cycles; a sequence number that also has to survive a lost counter; a timeout that declares a slow
run dead; and crashes between any two of these steps. The hazards in `PROJECT.json` name the lines and the
properties about them; a note says what a property leaves open.

## 2. The modules

| Module | Role |
|---|---|
| `CollectorLeader` | election, faults of MySQL sessions, the loops of each leadership generation |
| `Leadership` | what the election promises; implemented by `CollectorLeader` |
| `AlertLifecycle` | the alerts of one metric, its evaluator and the users |
| `AlertHandling` | the alerts of one host: watchdog, maintenance windows, escalation and users |
| `AgentDelivery` | one host agent, the network, the ingest endpoint |
| `OrderedDelivery` | what delivery promises; implemented by `AgentDelivery` |
| `HostConfig` | the watch list of one host: edits, push, adoption, tokens, enrollment |
| `ReportJobs` | one report job, its background task and the sweepers |
| `ReportRequests`, `ReportSchedule` | the two ways a job is created; both extend `ReportJobs` |
| `Reports` | their composition, from the request or the period owed to the end |
| `SharedCache` | one key of the shared cache, processes, threads and Redis |
| `SyntheticChecks` | one synthetic check, its probes, alert and notices |
| `EmailRules` | the rules of one recipient: queue, worker, sweep and log of mails |
| `Incidents` | the grouping of one account's alerts, overlapping passes included |
| `TierSchedule` | when the tiers of the loop run, through late runs and restarts |
| `RollupCache` | one process's cache of the open alerts and its fingerprint |
| `DbPool` | the pool, the wrappers it hands out and the garbage collector |
| `LiveUpdates` | one channel's sockets and its broadcast |
| `HostAgent` | composes `AgentDelivery` and `HostConfig`, the two sides of a host's agent |
| `Services` | composes the six that share no state: `EmailRules`, `Incidents`, `TierSchedule`, `RollupCache`, `DbPool`, `LiveUpdates` |
| `MC...` | model values and small sets for TLC |
| `..._proofs` | theorems on `CollectorLeader`, `AlertLifecycle`, `AlertHandling`, `HostAgent`, `Reports`, `SharedCache`, `SyntheticChecks`, `Services` |

`Services` composes parts that share no state: in each behaviour one part, chosen at the start, acts and the others stay as
they begin. So a property of a part is one of the whole. `HostAgent` does the same with the two sides of an agent, which do share
the hub's row of the host: its status, its valid token and `last_seq`. Revocation and enrollment change these, so both sides have
both actions, each with the effect on what it looks at: `AgentDelivery` keeps `last_seq` and the token, `HostConfig` keeps the
token and, for `last_seq`, whether a report would be a duplicate.
`Reports` is a composition of another kind: the request or the schedule and the job act on the same row.

Definitions whose comment begins with "Mutant:" are plausible errors of the definition after them; no specification uses
them. Each property of a passing run is violated when the mutant that `PROJECT.json` pairs with it takes the place of the
original.

### 2.1 CollectorLeader

`conn[w]`, `started[w]`, `event[w]` are the locals of `run_when_leader._loop` in process `w`. `phase` separates the GET_LOCK
from `start_fn`, which starts threads one by one and may raise in between. A generation `g` is one `threading.Event`; `flag`
is its state, `pc[g][l]` the position of loop `l` that was started with it.

MySQL is external: `session[c]` says what the two ends of a connection know of each other. `halfopen` is a session the server
keeps although the client cannot use it, `lost` one the server dropped unnoticed. Closing a half-open connection does not
release the lock; the server's reaping does. `Connect`, `Acquire`, `StartFn`, `StartFnRaises`, `PollFails` are the statements
of the poll loop; `GiveUp` is its `except` block. A query on a connection that is not `up` raises; that it might hang first
is a longer wait before `PollFails`.

`run_loop` starts two threads of its own (`TierBoot`). When one cannot be started (`TierBootRaises`) `run_loop` raises, `_run_collector`
logs it and ends, and the loops started before it go on; see section 4.

`Follows` is the order of `run_loop`'s steps; skipping a tier that is not due is a choice. `_require_leader` guards most
steps (`TierProceeds`, `TierExits`); `Ungated` are the two after which the code goes on without a look. `extra` counts steps
begun after the event was cleared: it is history, and nothing reads it.

### 2.2 AlertLifecycle

One (account, resource, metric). A tick is the two-minute critical tick. `signal` is what the queries find (`live`: a fresh
reading, an active account and an enabled threshold; `silent`: no fresh reading; `ungoverned`: no enabled threshold; `gone`:
the resource is), `level` where the reading lies. An evaluation is split where the code's transactions are: `StartP1` or
`StartFull`, `Sweep` (the guarded updates of what `StartFull` read), `SelectOpen` (the SELECT of the newest open alert), then
`Recover`, `Confirm` or `Accumulate` (the writes). Users act between any two. `Due` is the `MIN_CYCLE_SECONDS` gate of
migration 074, kept as an age since the last counted cycle. `breach` and `calm` are history.
`sweepAge` is the time since the last full evaluation, which `StartFull` resets; `StaleCandidateIsDropped` says that while it
is below the period no candidate is as old as its expiry and one period.

Two severities stand for the code's: `CRITICAL`, and `low` for the other one of an environment (WARNING in production, INFO
elsewhere), since the code only tells escalation to CRITICAL apart. Silences, muting, notes, false positives and mails change
none of the columns here. Each is a guarded update or a read of other columns.

### 2.3 AgentDelivery

The agent is one goroutine, so its actions follow `runner.go`'s select loop: `TickSends`, `TickQueues`, `DrainSends`,
`DrainEnds`, `RetryTimer` and one action for each class of answer. `flight` is the request being waited for and `wire` how
far it got. `late` holds requests the agent gave up on; the hub may handle them in any order, before and after later ones.
`Terminate` is SIGTERM with its flush, `Crash` a kill. The queue's byte budget is a number of payloads; a file that cannot be
written loses its payload after the oldest made room for it. `frail` is chosen once: whether `state.json` may be lost or
fail to be written. With a frail disk nothing is claimed about order and repetition at the hub, only that the queue stays
ordered and everything settles.

The hub's `Ingest` is `_transact`: `Claims` is the WHERE clause of `SQL_CLAIM_SEQ`, and a number that is not claimed still
moves `last_seen_at`, as `SQL_TOUCH` does. Looking up the token is a transaction of its own, so a revocation or an enrollment may
come in between; `void` holds the payloads answered 200 although the row was revoked in that gap. What the samples are, the
service rows and the inventory are left out.

`Enroll` is the hub's upsert at `enroll --force`: the row is active again, `last_seq` is 0, every earlier token is revoked, and
`agent.json` gets the new one unless the answer is lost. Queue and counter of the agent stay as they are. `keys` says who holds the
valid token: the process reads it from `agent.json` when it starts. An agent that stopped on a 401 is started again by its user
once it is enrolled (`StartAgain`); its unit on Linux does not restart it (`agent/install.sh:114`), and other service managers
are left out. `before` is the length of the log at the last enrollment: what the properties promise holds from one
enrollment to the next.

### 2.4 ReportJobs

One row of `report_jobs`, the background task of the request and one sweeper per process. `held` is the value of `attempts` a
caller has read. Claim, completion and failure are the three transactions of `run_job`; a sweep is its SELECT and its UPDATE
as two steps. `stalled` is history: a run has outlasted the stuck timeout, or a sweep outlived its leadership.

### 2.5 ReportRequests, ReportSchedule, Reports

Both extend `ReportJobs` and so run the job they create with its own actions. A request waits for the named lock (`Arrives`),
looks for a job to share with the lock or, when GET_LOCK timed out, without it (`Looks`), inserts and releases the lock
(`InsertsAndReleases`), and only then commits (`Commits`): that is the order of `generate_report`'s `with` and `finally`.
`rows` counts committed jobs; the row of the first is `ReportJobs`'s, and of a second one only its existence matters, since
the question is whether there is one. `raced` is history: somebody looked without the lock or while an insert was
uncommitted. `Reusable` is the WHERE clause of `_find_duplicate_job`, whose times are ages since creation (`created_at`, for
completed jobs too, although the comment at `api/reports.py:206` says "finished within").

A schedule thread is in each process and works while its process leads; `ThreadOnly` steps go on after leadership is lost,
as the code's loop over the schedules does. `Claims` is the UPDATE that compares `last_period_end`. The thread calls
`run_job` itself, so it is the job's first caller, and it polls only when that call has returned; a call that raises
because not even the failure could be recorded ends the schedule as FAILED. Each mail is a step, and may be refused.
`lost` is history: the run died, or its outcome could not be written. `Reports` chooses once who creates the job.

### 2.6 AlertHandling

All alerts of one host. A collector's pass is sync, watchdog and, when the standard tier is due, escalation; each is read
and write of a REPEATABLE READ transaction, so what `SyncReads` and `WatchReads` find is one snapshot and the writes are by
id later. Two collectors may be under way (a change of leadership); `split` is history of that. `SilencedBy` is both
UPDATEs of the sync. `WatchReads` takes the oldest open alert, or for a host that is gone the id its state row has saved.
A watchdog whose query for the windows fails logs it and goes on as if there were none (`WatchReadsBlind`); `missed` marks the
alert it then opens, until a sync silences it.
`Claims` is the guarded UPDATE and commit per alert, `Pages` the mail afterwards; `Stops` is a death, a lost leadership or
an exception in between. Whether the SLA has passed is a flag of the alert (`SlaPasses`). Alerts of other metrics, which
the sync silences in the same way, are in no other relation to the watchdog's.

### 2.7 HostConfig

`watch` is the sequence of watch lists, one for each `config_version`. `file` is `agent.json` (token and the configuration
of the enrollment, always version 1), `state` what `state.json` holds of a pushed configuration, `run` the process. A report
is an element of `net` with the version and services it names; `Authenticates` is the token's transaction, which notes the
version of that moment in `seen`, `Handles` the later transaction that writes the services and answers. `stale` marks a
report handled after a newer one, whose number the ingest does not claim; `live`, that somebody still waits for the answer.
An enrollment sets `last_seq` to 0, so no report is stale after it (`Enrolls`). Sequence numbers themselves are
`AgentDelivery`'s.

### 2.8 SharedCache

One key. A value is the generation in which its loader began, and an invalidation begins a generation. `shared` is the entry
in Redis and `copy[p]` that of process `p`, which is read only while the process skips Redis (`skips`). `flight[p]` is the
thread that leads the process's flight. `Leads`, `RereadsLocked`, `Polls` and `Finishes` are the parts of `_lead`; every
wait (the flight's 60 s, the lock's 8 s, its 30 s of life, the 15 s without Redis) is a step that may come at any moment.
`late` marks a load that the code itself let past another; `excused` is history of what an invalidation cannot reach: a load
already under way, or a process that skips Redis.

### 2.9 SyntheticChecks

One check. `Reads` is the SELECT of the due checks, `Answers` the probe, which knows only the target it was given, `Records` the
transaction that locks the row, confirms that what was probed is still asked for (`Confirmed`), and writes streak, status,
next time and alert; `Tells` is the notice after the commit. `probe[c]` is what collector `c` has read and found. Users
edit, pause, resume and delete the check and resolve its alert at any moment. `failed` counts the recorded failures in a row of
each target, `told` the notices, both history; `split` and `lost` are history of overlapping collectors and of an exception
between commit and notice.

### 2.10 EmailRules

One recipient. `queue` and `pending` are the bounded queue of each process and its mark that a sweep is waiting, `worker` where
the single consumer is, with the rows it can see: `view` is set when its transaction begins, at the start of a job and after
each commit. An opened alert comes as a job of its own (`Opens`); `happened` is what the sweeps look for: alerts resolved, incidents
opened and resolved, each with its time. `Takes` loads the rules and, for a sweep, makes its three queries, each of them
limited and of what happened within the window; `Silent` leaves out silenced alerts, as the query does. `Decides` is one
rule for one item, `Sends` the mail and `Records` the row of the log, whose unique key ignores a second one. The times are
sweep periods, and a period may pass without a sweep (`Passes`): the standard cycle asks for one only when collection and evaluation
did not raise (`scheduler.py:170`, `:317`), its slot may be skipped, or nobody leads. A sweep whose query fails is such a period
too. `asked` is history of the periods with one, `posted` of the mails as they went out, recorded or not. `troubled`, `crowded`, `split` and `unrecorded` are history of what may excuse a mail that is missing or
repeated.

### 2.11 Incidents

A pass is one REPEATABLE READ transaction: `seen` and `rows` are its snapshot with its own writes, `old` and `joined` which of the
rows it read and which it has locked by writing. `Joins`, `Seeds` and `StandsAlone` are one turn of the loop over the loose
alerts, `Commits` the UPDATE that resolves (which reads the latest rows, waits for locks and so is one step with the commit),
`Deadlocks` and `Fails` the rollbacks. The evaluator and users act in between (`Opens`, `Acknowledges`, `Withdraws`, `Closes`).

### 2.12 TierSchedule

`run_loop` in steps: `Wakes` with the critical tick, the standard tier, the extended tier, the daily one with the refresh of the
language model after it (`SlowEnds`), `Sleeps`. `loop.until` is when the
step under way ends; `Passes` lets time jump there. `DueAt` and `NextAnchor` are the functions of the code. The extended tier
and the daily one are judged by `now0`, the time at which the iteration began, as in the code. `saved` is `op_events`; `Seeds` is what a new process makes of
it. `StandardIsOnTime` bounds how late the standard tier can be: the longest wait (for its next point of the grid, or for the
end of its own run when that takes longer), and four times the longest step: one iteration may run the extended tier, the daily
tier and the refresh before the loop looks at the standard tier again, and the critical tick is before it in the next. Each fault
adds two, for what a restart cut short and the start itself. TLC refutes the bound with three instead of four. Failed attempts
move the anchor in memory and are not persisted. The clock never steps. `starts` is history, and drops what no process could have known.

### 2.13 RollupCache

`Fingerprint` is `_FP_SQL` over the open alerts, without the columns that nothing here changes. A request reads the fingerprint
(`Asks`), is answered from the cache (`Hits`) or computes and stores under the fingerprint it read (`Misses`, `Computes`,
`Stores`). `since` is history of the fingerprints during a request, `recurred` of those that came back.

### 2.14 DbPool

A wrapper is one object handed out by `get_connection`: its raw connection, whether it was closed, who holds it and whether
its finalizer is attached. `Closes` is `_guarded_close`, `LetsGo` the end of the caller's frame, `Collects` the garbage
collector. `KeptByFinalizer` says that the finalizer's callback refers to the wrapper; see section 4. After its first close a wrapper may
be about while another task uses the same connection.

### 2.15 LiveUpdates

The list of sockets and the loop of `broadcast` as an index into it, as Python's list iterator is. The list is written as the
set of its sockets with, for each, those in front of it; a socket's `Place` is one more than their number, so that a removal
moves up exactly those behind it. Everything runs in one event
loop, so a step ends where the code awaits: `Sends` is one send, with the sockets passed over before it. `Disconnects` may
come between any two. `there` and `left` are history of the broadcast under way.

## 3. The runs

Deadlock is checked in the alert, handling and cache runs. The others may stop: a leader whose run_loop could not start its
threads (nothing of it that the run has goes on), the agent for good (a 401), a report
job at its end, a check once deleted, and the parts of `services` at their bounds on time, changes and messages; a pool with
nothing idle only lets tasks end.

| Run | Bounds | What it shows |
|---|---|---|
| `leader` | 2 processes, 3 connections, 2 generations, 1 fault, the tier and discovery loops | no two confirmed leaders; an ex-leader begins at most one more step; the election implements `Leadership`; a silent loss is noticed; someone leads for good with every loop running that run_loop could start |
| `alert` | 1 evaluator, 2 cycles required, 4 events, outages | one open alert; opening and recovering need sustained readings; users' resolutions and acknowledgements are respected; a stale candidate is dropped; what stays healthy closes, what stays critical has a CRITICAL alert |
| `alert_resurrection` | 4 events | finding: a resolved alert becomes active again |
| `handling` | 2 collectors, 3 events | paged once; a window silences what is open and what opens, but for what a watchdog opens that could not read the windows; no silence outlives its window; a host heard again has no open alert |
| `agent` | 3 payloads, 3 faults, a queue of 2, window of 1 tick, sound and frail disk | between two enrollments written in order, a repeat only directly after its original and only after the window; accepted means written, but for a payload a revocation fell into; the queue stays ordered; nothing is stuck for ever |
| `agent_restart` | 4 payloads, 4 faults | finding: a restarted agent is acknowledged and not written |
| `config` | 2 services, 2 changes, 2 faults | an agent that names the version in force has its configuration; agent and hub agree in the end |
| `reports` | 2 processes, 2 requests or 1 schedule with 2 recipients, 3 attempts, 3 faults | one runner and a truthful status unless something stalls; requests share a job unless they race; attempts bounded; nobody mailed twice; every job ends and every outcome is recorded |
| `reports_slow` | 2 faults | finding: a COMPLETE job is queued again |
| `cache` | 2 processes, 3 threads, 1 invalidation, 1 fault | one load at a time unless a limit let a second past; an invalidated value is not found again; every call ends |
| `synthetic` | 2 collectors, 2 targets, threshold 2, 2 events, 1 fault | a check goes down only on its own target's failures; alert, status and notices tell of the same outages; a lasting outage has an alert, a lasting recovery none |
| `services` | one part acts in each behaviour, 1 fault; its bounds are below | nobody mailed twice, limits kept, what sweeps look for mailed; incidents sound and resolved with their members; tiers spaced and on time; a cached answer had its counts during the request; no connection shared or missing; broadcasts once, in order, in scope |

**Why the bounds are enough.** Two processes and one failure give a takeover with the old generation still running; three
connections let both processes hold one while an old one is half-open. (Two failures and three generations change nothing in
the safety properties, which are proved for any number.) Two required cycles are the smallest number for which "sustained"
means something, and the cycle gap (two ticks, 240 s) and the sweep period (three ticks, the five-minute tier on two-minute
ticks) are the real ones. The expiries (30 minutes and hours in the code) are cut to four ticks so that they happen: what
matters is that they are longer than a sweep period and a gap, and the grace shorter than the hard expiry. A queue of two is
full, evicts and reorders; of three payloads two can be queued, the third evicts one of them or is in flight, and one in flight can be
late. A revocation, an enrollment and a lost answer are three faults. Three events
let a window begin and end around a pass that another collector overlaps, or a host fall silent, worsen and recover. Two
changes are an edit while a report of the one before is under way, or a revocation and an enrollment; the run's versions then
go past the 1 that every enrollment starts with. Three attempts are all used up by three faults; a wait of four ticks is
longer than the stuck timeout of three, as 40 minutes are than 15. The cache has two threads in one process, which share a
flight, and one in another, which meets them at the lock. In `services` the rules have two alerts of one resource, one of them silenced when it resolves, two rules, a window and a throttle
of one period, an hour of two and two periods of time, so that a mail meets the throttle and leaves it, and a resolution leaves the
window with and without a sweep in it, and one worker (with more, `split` would excuse both properties about repetition).
Incidents' mails, longer windows and any number of workers are in the theorems, which hold for all of them. Incidents have two collectors, told apart by nothing (the run's symmetry), and three alerts along a
path, over three moments with a span of one, so that a chain can outgrow the window. The tiers count tens of seconds with the real
intervals, phase and gap of the critical and standard tier (120, 300, 190 and 150 s); the extended and the daily interval are cut to 450 s to
recur within fifteen minutes, together as they do each day, and a tier takes 10 or 170 s, more than the standard tier can be late without consequence. One alert that opens, is silenced
and resolved is enough for fingerprints to come back. Two connections, three tasks, four wrappers and a leak let a wrapper be
closed again after its connection was handed on; three sockets and two messages let one leave before, at and behind the loop's
place. A target's threshold of two is the smallest for which a streak means something.
Counters that grow are bounded by guards, never by a state
constraint, so the liveness properties see complete behaviours.

**Fairness.** Weak fairness everywhere, on what the code runs in endless loops: the poll loop (`while True` with a sleep),
collector loops, the evaluator's ticks, the agent's select loop, the sweeper; on MySQL reaping a dead session
(`wait_timeout`), on the service manager restarting the agent (`Restart=always` in `agent/install.sh`; not after a 401), on a run of a job ending, and on time. No fault,
no user action and no network failure is fair. For synthetic checks some process collects, a probe
has a timeout, and time passes. `services` checks safety only. In the cache a thread goes on until its call is answered, unless its own
loader hangs; in `HostConfig` the agent reports again and again and requests end. The hub answers what reaches it (a request handler ends), with a
refusal as one of the answers. The agent's own timeout is a fault that may or may not happen, and a request it gave up on
need never be handled.

## 4. What the code does otherwise than it says

Three are runs that must find their property violated.

1. **`alert_resurrection`**: the evaluator's UPDATE is by id and sets `status='active'` from what it read. A user who
   resolves the alert between the SELECT and the UPDATE sees it come back. In the other direction, an
   alert read as active and acknowledged in the same window stays acknowledged although it has just become CRITICAL.
2. **`agent_restart`**: a number that is not claimed still moves `last_seen_at`, so the window after which a lower number is
   taken as a restart never passes while the agent keeps sending.
3. **`reports_slow`**: the sweeper updates by id what it found earlier, and can requeue a job that has completed.

Noted while modelling, without a run of their own; the models behave like the code, and the properties leave these cases out:

- Watch lists (`ingest.py:366`): the version a report is compared with was read in the transaction that checked the token. An
  edit in between lets the old list's services be written again, against `docs/HOST_AGENT.md:54`; with an empty new list they
  stay for good, because a report without services deletes nothing (`ingest.py:364`). `ConfigConverges` says so in its
  condition on the list.
- Requests (`api/reports.py:232`): the named lock is released before the insert is committed, so two simultaneous requests can
  both miss, against the comment at `:207`; that GET_LOCK timed out is not noticed either. `raced` in `RequestsShare`.
- Synthetic checks (`synthetic.py:1090`): the confirmation compares values, so an edit that sends the stored target again and resets the
  streak (`api/synthetic.py:440`) is overwritten by the probe under way, against `synthetic.py:1075`. Two overlapping
  collectors may open two alerts, or leave one open until the next outage ends (`split`).
- Leaders without a tier loop (`scheduler.py:614`): when `run_loop` cannot start one of its two threads it raises, `_run_collector` logs
  "Collector crashed" and ends (`main.py:73`), and the process goes on leading without critical, standard and extended tier:
  no alert is evaluated until that leadership ends. `Needed` in `CollectionResumes` asks for the other loops then.
- Enrollments (`api/host_agents.py:201`): `enroll --force` sets `last_seq` to 0 while the agent keeps its queue and its counter, so a
  payload whose answer was lost before is written once more when it is replayed, inside the window, and an older reading can
  follow newer ones. `WrittenOnceWithinWindow` and `OrderedDelivery` speak of what lies between two enrollments.
- Revocations (`ingest.py:176`): a payload whose request a revocation falls into is answered 200 and written nowhere; `void` in
  `AcceptedIsWritten`.
- Windows that cannot be read (`host_agent_watchdog.py:417`): the watchdog takes a failed query for "no window" and opens its alert
  loud inside one, until the next sync silences it; `missed` in `SilencedInWindow`. The evaluator does the same
  (`alert_evaluator.py:586`); its silences are left out of `AlertLifecycle`.
- Escalations (`escalation.py:192`): the claim looks at `escalated_at` only, so an alert acknowledged after the SELECT is still paged;
  a crash between the claim's commit and the mail loses the page. `PagedOnce` is about paging twice.
- Caches (`shared_cache.py:234`): a load in flight at an invalidation stores what it read before it; `excused` in `InvalidationSeen`.
- Mail after an outage (`rule_dispatch.py:253`): a sweep looks back over its window, while a standard cycle whose collection or evaluation
  raises asks for none (`scheduler.py:175`, `:321`). When that, skipped slots or the lack of a leader last as long as the window,
  what was resolved meanwhile is never mailed. `SweptIsMailed` asks for one later period of the window with a sweep.
- Unrecorded mail (`rule_dispatch.py:214`): a mail that went out and whose row could not be written is decided upon again, by the same
  worker too, inside the throttle and beyond the cap. `unrecorded` in `MailedOnce` and `RuleKeepsItsLimits`. So is a mail that two
  workers decide upon at once (`split`).
- Silenced alerts (`rule_dispatch.py:271`) are not swept, so an alert whose opening was mailed and that is silenced when it resolves has no
  mail of its end.
- Mail bursts (`rule_dispatch.py:271`): the sweep takes the first rows by id, those already mailed included, so the rest of a burst is
  not "picked up by the next sweep" (`:43`) and leaves the window unmailed. `crowded` in `SweptIsMailed`.
- Mail throttle (`rule_dispatch.py:178`): the log is read for an hour, while the throttle may be a day (`alert_rules.py:27`): a longer
  throttle ends with the hour, against `alert_rules.py:10`. `RuleKeepsItsLimits` claims what the hour can see.
- Incidents (`correlate.py:110`): loose alerts are read once; one that was taken as a partner is looked at again and may join a second
  active incident, against `:81`. No property catches it: `IncidentsAreSound` is about each incident by itself. A partner must never have been in any incident, a resolved one included, so two alerts that
  were once grouped are not grouped again. A member that worsens later does not raise the severity.
- Tiers (`scheduler.py:542`): a standard run that begins more than 150 s late is followed by the point after the next, against "no
  skipped slot" (`:536`); `StandardIsOnTime` allows for it. With the daily tier and the model's refresh in one iteration the standard tier
  can be late by all of them. A step of the clock is not modelled.
- Rollup (`alert_cache.py:30`): the fingerprint is made of counts and sums, so changes that cancel out, or that are undone while
  a value is computed, leave it equal, against `:16`; the value is served until its 5 s end. `recurred` in `CountsAreCurrent`, which speaks of counts only.
- Pool (`db.py:94`): `weakref.finalize` keeps its callback, which keeps `original_close`, a method bound to the wrapper. The
  wrapper is therefore never reclaimed and the backstop promised at `db.py:55` never runs. `OnlyLeaksAreMissing` allows for it.
- Live updates (`ws/manager.py:59`): the list is iterated across awaits while `disconnect` removes from it, so the next browser is
  passed over, against `api/alerts.py:139`. `SkipsAreBounded` says how many at most. Only `WebSocketDisconnect` is caught
  (`main.py:372`): another error leaves the socket listed; a send that stalls holds up the broadcast.
- `scheduler.py:560` says leadership is "Checked before every step now". After the critical tier
  `evaluate_alerts(p1_only=True)` begins without a check (`:650`), and so does the upkeep after the slowest tier (`:771`).
  One step at most (`TailBoundedByOneStep`, `Ungated`).
- `alert_evaluator.py:516` says expired candidates cannot combine with a later blip. They expire only in the full
  evaluation's sweep; after an outage the P1 evaluation may come first (`StaleCandidateIsDropped` is stated while the full
  evaluations keep to their period).
- `enroll.go:81` tells the operator that after `--force` "the old token stays valid until revoked on the hub"; the hub
  revokes every earlier token at that very enrollment (`api/host_agents.py:210`).
- `api/reports.py:206` speaks of a job that "finished within" a minute; the query compares `created_at` (`:119`).
- `runner.go:103` lets any configuration once pushed win over the one of a later enrollment. For the same host row that is
  repaired by the next push. A host enrolled as another row, whose version happens to be the same number, would be believed
  to agree; `HostConfig` has one host row and does not show this.

## 5. The proofs

Checked by TLAPS for every value of the constants that satisfies the named assumptions.

**CollectorLeader_proofs.** `TypeCorrect` (`TypeOK`), `LeadershipSafe` (the inductive `LeaderInv`), `OneLeader`
(`OneConfirmedLeader`), `TailBounded` (`TailBoundedByOneStep`), `Implements` (`ImplementsLeadership`). Any number of
processes, connections, generations, loops and faults. `LeaderInv` is inductive with `TypeOK`: besides that no set event is
orphaned, it says that two processes never keep the same connection, that the lock's holder is a live session, and that a
leader whose session is alive holds the lock. Mutual exclusion alone is not inductive: without the clause about live sessions
a standby could acquire the lock of a leader that still has its session. `TailBounded` needs `TailInv`, which says where a
loop can be once it has begun its extra step. `Implements` is the refinement: the leading generation is that of the worker
that has started and whose connection holds the lock, of which `LeaderInv` allows one; a won election is a `Start` of a
generation that never led: the abstract `led` is every event that was handed to `start_fn` (`LedGens`), and a new one was not
(`TailInv`). So no generation leads twice, and every other step only takes leadership or running generations away (`Retreats`),
so it is a `Lose`, a `Stop` or a stutter.

**AlertLifecycle_proofs.** `TypeCorrect` and `HumanResolutionKeptAlways` hold for any number of evaluators: the sweep's
updates are guarded, and `Confirm` and `Recover` leave the reason of a resolved alert alone. `OneOpenAlertAlways` and
`AckWithdrawnOnlyWhenWorseAlways` assume `SingleEvaluator`. The assumption is what the leader lock is for; while a silent
loss is unnoticed two evaluators overlap for at most a step (`TailBoundedByOneStep`), and two overlapping evaluations can
open the same alert twice, because `alerts` has no unique key on the metric. The inductive invariant is `TypeOK /\
OneOpenAlert /\ ReadHolds`. `ReadHolds` says that an evaluation that has selected holds the truth up to user actions: the
open alerts are at most the one it read, and that one has the severity it read. User actions only close alerts or acknowledge
them, so they preserve it; another evaluator's insert would not. `OnlyWhenSustainedAlways`, under the same assumption, adds
what the cycles stand for (`SInv`): each counted cycle of a candidate is a breaching evaluation of the run that still goes
on, a gap apart from the next (`Candidate`), the same of the healthy cycles of every open alert (`Healing`), and a sweep
leaves no candidate older than its expiry (`Expiring`). Reaching `Required` then means as many evaluations over as many gaps.

**Reports_proofs.** `OneRunnerAlways`, `StatusTellsTruthAlways`, `JobsAreSoundAlways`, `RequestsShareAlways`,
`SentOnceAlways`, of the whole flow, for any number of sweepers, requests and recipients, any timeouts and any number of
faults. That COMPLETE means there is a report holds unconditionally. The rest of the job's part is `Undisturbed`, claimed
only while nothing has stalled: a runner holds the row (it is PROCESSING, has not timed out, and `attempts` is what the
runner read), and a sweep that found the row stuck leads and the row is still as it was found. From these no two callers can
hold the row, and an attempt is only queued while one is left. `reports_slow` shows that the condition cannot be dropped: a
run that outlasts the timeout and a change of leader in the middle of a sweep are exactly what breaks it. `RequestInv` says,
while nobody raced and nothing stalled, that whoever is to insert holds the named lock, that one request at most is between
its look and its commit, and only while no job is in flight. `SendInv` follows the period: one thread acts on it, after
claiming it; until that thread sends nobody was mailed; whoever is still to be mailed was not. `JobStep` is what requests and
schedules do to the job besides its own steps, so that the job's proof is done once for both.

**AlertHandling_proofs.** `TypeCorrect`, `PagedOnceAlways` and `SilencedInWindowAlways`, for any number of collectors and
events. Paged once (`ClaimInv`) follows from what a page costs: an alert that was claimed is marked, a claim is in the hands
of one collector, and an alert with a claim outstanding has not been paged. For silences the invariant (`QuietInv`) says what
the one collector under way has read: in a window that some sync has completed it knows the window, so it un-silences nothing
and opens silenced; a second collector, with an older snapshot, could do both, which is why `split` is in the property. A watchdog that could not read the windows
does not know the window; `Hushed` is silenced, or opened by such a watchdog and not synced since.

**HostAgent_proofs.** Delivery, for any queue budget, window and bounds: `QueueHoldsAlways`, `AcceptedIsWrittenAlways`,
`WrittenOnceAlways` (`WrittenOnceWithinWindow`) and `Implements`, the refinement of `OrderedDelivery`. The queue's order
(`OrderInv`) needs no sound disk: numbers in the queue rise, and neither they nor the one in flight are ahead of the counter.
Everything else is `DeliveryInv`, which claims nothing of a frail disk: the n-th payload has number n (`Counted`, `Owned`),
the log rises up to `last_seq` from the last enrollment on (`LogAscends`), what is still to be sent is behind neither the hub nor what was sent before
it, and a request given up on is behind the hub only within the window (`AheadOfHub`); a 200 is for a payload in the log
or one that a revocation fell into (`Told`). The clause about late requests is what lets a number be claimed twice only directly after its original. Under the
refinement an ingest that claims a number is a `Write` of the abstract specification, a tick an `Offer`, an enrollment an
`Enroll`, with which the abstract order begins anew, and every other step a stutter. Configuration: `ConfigTypeCorrect` and `AgreementAlways`. `ConfigTypeInv` says besides the types that each version
and token costs a change; `Named` extends the agreement from the process and `state.json` to the answer on its way, and says
that version 1 is the configuration of the enrollment as long as there is no other version. Versions only grow, so what
agreed with an old version says nothing of the new one.

**SharedCache_proofs.** `TypeCorrect`, `LoadsOnceAlways`, `InvalidationSeenAlways`. The first rests on `Locked`: who loads
without having been let past others is the holder of the lock, of which there is one; a lapse marks the holder late, and a
release takes nobody else's lock. The second rests on `Fresh`: while Redis is in use and no load is older than the last
invalidation, every load under way and the entry are of the present generation.

**SyntheticChecks_proofs.** `TypeCorrect`, `AlertFollowsAlways`, `ConfirmedAlways` and `OutageIsToldAlways`, for any
collectors, targets, threshold and bounds. `TypeInv` adds to the types that an idle probe holds nothing. `AlertInv` says that
while collectors do not overlap a probe's read still holds up to users' actions (`ReadHolds`), that the streak is made of
recorded failures of the present target (`StreakRecorded`), that an open alert belongs to a check that is down (`AlertTrue`)
and that a deleted one has none (`DeletedQuiet`). `NoticeInv` counts the news still in a collector's hands.

**Services_proofs.** Nine theorems, one for each property of the `services` run.
- Email rules. `MailedOnceAlways`: `Alone` says that without `split` one worker at most is busy and sees the whole log,
  `Counts` that an event was mailed as often as it is logged or in that worker's hands. `RulesKeepTheirLimitsAlways`: `Marks`
  relates the mark of a waiting sweep to the queue and the worker, `Settled` says that what a lone worker is about to mail is
  still allowed by the rows of the log, by throttle and the hour's cap. `Logged` carries that from rows to mails: each mail that
  went out has a row of its own, written no earlier, or is about to get it; so what the rows allow the mails do (`FreeByRows`,
  an injection from mails to rows). The item a worker turns to is the
  CHOOSE of a minimum; that there is one is proved from the well-foundedness of the naturals. `SweptIsMailedAlways`: once a sweep
  was asked for in a later period of its window, what happened was told, or a sweep that is queued or running still comes to
  it (`Covered`); and while nothing failed no sweep is left over from one period to the next (`FreshPeriod`).
- `IncidentsAreSoundAlways`, `ResolvedWhenAllAreAlways`: `GroupInv` says of committed incidents and of every pass's own
  copies that they are connected, near their start and as severe as their worst member (`Sound`), and that a pass's snapshot
  of an alert that had opened is right about when it did (`PassSound`): that is why a merge with rows another pass has
  committed stays sound.
- `TiersAreSpacedAlways`: `Kept` bounds where the loop can be by the last start of the standard tier and its recorded
  completion, counted in longest steps, with what the iteration has still to run (`Rungs`); `Anchored` relates the last two starts of
  the extended and of the daily tier to their anchors; lemmas on the grid say that the next
  point is at most a gap and a standard interval after a completion, at least a gap after the last start, and in a later slot
  (`DueSpaced`).
- `CountsAreCurrentAlways`: what is stored under a fingerprint had it when the rows were read, or the fingerprint has come
  back since (`CacheIsFresh`).
- `PoolIsWholeAlways`: a wrapper has a finalizer exactly until its first close (`FinalizerUntilClosed`), so none that holds a
  connection is collected and none gives one back twice.
- `BroadcastIsOrderedAlways`: while the loop runs, whoever is listed at or behind its place has not been sent the present
  message, and of those who should have been and now stand before its place (`Skipped`) there are at most as many as left
  during the loop: each departure moves at most one other past the loop (`InStep`).

`TypeOK` of the modules with a `TypeCorrect` is proved and not checked again by the runs; the type invariants of the other
modules are conjuncts of `QueueHolds`, `JobsAreSound`, `RulesKeepTheirLimits` and the properties of `services`, and proved with them.

**Only model-checked.** Every safety property of a passing run is a theorem. What TLC alone checks is liveness, since
fairness and ENABLED are outside what the prover supports here: `LeadershipMoves`, `AlertsFollowTheMetric`,
`EverythingSettles`, `FlowEnds`, `AlertsSettle`, `ConfigConverges`, `EveryCallEnds`, `AlertTracksTarget`. So are the three
violations of section 4, which are facts about one instance. No module uses RECURSIVE, and no theorem needs an induction over
data: counts are kept as sets and functions whose cardinality changes by one step at a time.

## 6. Not modelled in the modelled components

- **CollectorLeader**: thread start order beyond "a subset was started", what a step does, the polling interval.
- **AlertLifecycle**: several metrics (a row is its own transaction), silences and the failed lookup of windows, muting and mails, anomaly bands, two
  evaluators at once (the action set allows it; the runs use one).
- **AlertHandling**: muting, downstream resources of a window, several hosts on one resource, texts and channels, policies
  being edited, the e-mail rules' own queue, the evaluator's alerts (their open-and-close is `AlertLifecycle`).
- **AgentDelivery**: the content of payloads, several hosts (each has its own row), the rate limit other than as a refusal.
- **AgentDelivery** and **HostConfig** side by side: a behaviour has the one or the other, so a push that is answered to a payload being
  replayed is in neither.
- **HostConfig**: the keys' expiry and number of uses, the interval, the inventory of services, a second host row.
- **ReportJobs, ReportRequests, ReportSchedule**: what a report contains, S3, the calendar (which period is owed when, and
  the 36 hours after which it is given up), the run-now button, a second job's own run, lists of recipients.
- **SharedCache**: ranges of hours and their trimming, invalidation by prefix, the limit of the process copy and its
  eviction, statistics; the process copy and Redis are written in one step.
- **SyntheticChecks**: certificate alerts and notices, silences, edits of the threshold, the batch's limit, results, rollups,
  status pages and objectives.
- **EmailRules**: what a sweep's failed query loses of a period (it counts as one without a sweep), severities, accounts and exclusions of rules, the escalated event, editing rules and lists, channels.
- **Incidents**: several accounts, the ranking of causes, health scores, summaries, hidden metrics, deleted relationships.
- **TierSchedule**: the low tier's thread (a plain wait), steps of the clock, failures of the critical tick (nothing here depends on
  them); leadership is `CollectorLeader`'s.
- **RollupCache**: muting, false positives, several accounts, the derived state of an alert, columns that nothing changes.
- **DbPool**: what a failed reset does inside the connector.
- **LiveUpdates**: what Redis loses while the listener reconnects, closing of sessions that have ended, contents.

Of the components that `PROJECT.json` lists as not modelled, most are input and output or pure functions of data. The
stateful ones that remain are in the plan.

## 7. Plan

1. `RateLimit`: INCR and EXPIRE are two commands, and a crash in between must lock nobody out for good. Certificate notices of synthetic checks, the
   keys of enrollment (`max_uses`, expiry).
2. Liveness of the parts of `services`: a worker gets free, connected alerts that stay are grouped, closed incidents resolve, the
   pool refills, the listener gets through; and runs for the notes of section 4.
3. Theorems: what of `AlertLifecycle` still holds while two evaluators overlap for a step, `AlertHandling` for several hosts,
   and those of the modules in 1.
