------------------------------ MODULE ReportJobs ------------------------------
(***************************************************************************)
(* One row of report_jobs and the callers of run_job (app/reports/worker):  *)
(* the background task of the request, and the sweepers that requeue a job  *)
(* stuck in PROCESSING and run a job left in QUEUED.  A sweeper belongs to  *)
(* a process and works while that process leads; leadership moves.  The row *)
(* is the only thing the callers share.                                     *)
(***************************************************************************)
EXTENDS Naturals

CONSTANTS
  Request,      \* the background task
  Sweeper,      \* sweeper threads, one per process
  MaxAttempts,  \* report_jobs.max_attempts
  StuckAfter,   \* _STUCK_TIMEOUT_MINUTES, in ticks
  QueuedAfter,  \* _QUEUED_TIMEOUT_MINUTES, in ticks
  MaxFaults     \* bound on failed, killed and stalled runs and leader changes

Caller == {Request} \cup Sweeper

ASSUME ReportAssumption ==
  /\ Request \notin Sweeper /\ Sweeper # {}
  /\ MaxAttempts \in Nat \ {0}
  /\ StuckAfter \in Nat \ {0} /\ QueuedAfter \in Nat /\ QueuedAfter <= StuckAfter
  /\ MaxFaults \in Nat

VARIABLES
  status,    \* report_jobs.status
  attempts,  \* report_jobs.attempts
  age,       \* ticks since the row was claimed or its status changed
  report,    \* whether the job has its row in reports
  pc,        \* what each caller is doing
  held,      \* the attempts value each caller has read
  leader,    \* the process whose sweeper works
  stalled,   \* a run has outlasted StuckAfter, or a sweep the change of leader (history)
  faults

row == <<status, attempts, age, report>>
vars == <<row, pc, held, leader, stalled, faults>>

Status == {"QUEUED", "PROCESSING", "COMPLETE", "FAILED"}

TypeOK ==
  /\ status \in Status
  /\ attempts \in Nat
  /\ age \in 0..StuckAfter
  /\ report \in BOOLEAN
  /\ pc \in [Caller -> {"idle", "found", "called", "running"}]
  /\ pc[Request] # "found"
  /\ held \in [Caller -> Nat]
  /\ leader \in Sweeper
  /\ stalled \in BOOLEAN
  /\ faults \in 0..MaxFaults

\* generate_report has committed the job and added the background task.
Init ==
  /\ status = "QUEUED" /\ attempts = 0 /\ age = 0
  /\ report = FALSE
  /\ pc = [c \in Caller |-> IF c = Request THEN "called" ELSE "idle"]
  /\ held = [c \in Caller |-> 0]
  /\ leader \in Sweeper
  /\ stalled = FALSE
  /\ faults = 0

Fault == faults < MaxFaults /\ faults' = faults + 1

\* Mutant: one attempt too many.
RequeuedOneMore(n) == IF n <= MaxAttempts THEN "QUEUED" ELSE "FAILED"

\* A retry is queued until the attempts are used up.
Requeued(n) == IF n < MaxAttempts THEN "QUEUED" ELSE "FAILED"

-----------------------------------------------------------------------------
(* run_job.                                                                  *)

\* Mutant: a job in PROCESSING can be claimed too.
ClaimableInProcess == status \in {"QUEUED", "PROCESSING"}

Claimable == status = "QUEUED"

\* _claim: the conditional UPDATE, and the row as it then is.
Claim(c) ==
  /\ pc[c] = "called"
  /\ Claimable
  /\ status' = "PROCESSING" /\ age' = 0
  /\ attempts' = attempts + 1
  /\ held' = [held EXCEPT ![c] = attempts + 1]
  /\ pc' = [pc EXCEPT ![c] = "running"]
  /\ UNCHANGED <<report, leader, stalled, faults>>

\* _claim matched no row.
ClaimLost(c) ==
  /\ pc[c] = "called"
  /\ ~Claimable
  /\ pc' = [pc EXCEPT ![c] = "idle"]
  /\ UNCHANGED <<row, held, leader, stalled, faults>>

\* Mutant: the report's row is committed before the status is written.
CompletesInTwo(c) ==
  /\ pc[c] = "running" /\ ~report
  /\ report' = TRUE
  /\ UNCHANGED <<status, attempts, age, pc, held, leader, stalled, faults>>

\* _mark_complete: the report's row and the status, in one transaction.
Completes(c) ==
  /\ pc[c] = "running" /\ ~report
  /\ report' = TRUE
  /\ status' = "COMPLETE" /\ age' = 0
  /\ pc' = [pc EXCEPT ![c] = "idle"]
  /\ UNCHANGED <<attempts, held, leader, stalled, faults>>

\* _mark_failed: by id alone, with the attempts read by the claim.
MarkFailed(c) ==
  /\ status' = Requeued(held[c]) /\ age' = 0
  /\ pc' = [pc EXCEPT ![c] = "idle"]

\* Gathering, rendering or storing the report raises.
RunFails(c) ==
  /\ pc[c] = "running" /\ Fault
  /\ MarkFailed(c)
  /\ UNCHANGED <<attempts, report, held, leader, stalled>>

\* The report exists already: reports.job_id is unique.
DuplicateReport(c) ==
  /\ pc[c] = "running" /\ report
  /\ MarkFailed(c)
  /\ UNCHANGED <<attempts, report, held, leader, stalled, faults>>

\* The process dies, or the database is away when the failure is to be recorded.
RunDies(c) ==
  /\ pc[c] # "idle" /\ Fault
  /\ pc' = [pc EXCEPT ![c] = "idle"]
  /\ UNCHANGED <<row, held, leader, stalled>>

-----------------------------------------------------------------------------
(* sweep_stuck_jobs.                                                         *)

\* The first SELECT finds the job stuck.
SweepFindsStuck(s) ==
  /\ leader = s /\ pc[s] = "idle"
  /\ status = "PROCESSING" /\ age = StuckAfter
  /\ pc' = [pc EXCEPT ![s] = "found"]
  /\ held' = [held EXCEPT ![s] = attempts]
  /\ UNCHANGED <<row, leader, stalled, faults>>

\* The UPDATE by id of what was found, committed; a requeued job is then run.
SweepRequeues(s) ==
  /\ pc[s] = "found"
  /\ status' = Requeued(held[s]) /\ age' = 0
  /\ pc' = [pc EXCEPT ![s] = IF status' = "QUEUED" THEN "called" ELSE "idle"]
  /\ UNCHANGED <<attempts, report, held, leader, stalled, faults>>

\* Mutant: a job left in QUEUED is not looked for.
SweepIgnoresQueued(s) == FALSE /\ UNCHANGED vars

\* The second SELECT finds the job left in QUEUED.
SweepFindsQueued(s) ==
  /\ leader = s /\ pc[s] = "idle"
  /\ status = "QUEUED" /\ age >= QueuedAfter
  /\ pc' = [pc EXCEPT ![s] = "called"]
  /\ UNCHANGED <<row, held, leader, stalled, faults>>

Sweeping == \E s \in Sweeper : pc[s] = "found"

\* Another process takes the lead; a sweep under way goes on.
LeaderChanges ==
  /\ Fault
  /\ leader' \in Sweeper \ {leader}
  /\ stalled' = (stalled \/ Sweeping)
  /\ UNCHANGED <<row, pc, held>>

\* Time passes, and may pass a run that is still under way.
Tick ==
  /\ age < StuckAfter /\ ~Sweeping
  /\ age' = age + 1
  /\ IF age' = StuckAfter /\ \E c \in Caller : pc[c] = "running"
     THEN Fault /\ stalled' = TRUE
     ELSE UNCHANGED <<stalled, faults>>
  /\ UNCHANGED <<status, attempts, report, pc, held, leader>>

-----------------------------------------------------------------------------
Run(c) == \/ Claim(c) \/ ClaimLost(c) \/ Completes(c) \/ RunFails(c)
          \/ DuplicateReport(c)

Sweep(s) == SweepFindsStuck(s) \/ SweepRequeues(s) \/ SweepFindsQueued(s)

Next ==
  \/ \E c \in Caller : Run(c) \/ RunDies(c)
  \/ \E s \in Sweeper : Sweep(s)
  \/ LeaderChanges \/ Tick

Spec == Init /\ [][Next]_vars

-----------------------------------------------------------------------------
(* Properties.                                                               *)

\* While runs end in time, the job is rendered and stored by one caller at a time,
\* whoever dies, retries or takes the lead.
OneRunner ==
  stalled \/ \A c, d \in Caller : pc[c] = "running" /\ pc[d] = "running" => c = d

\* Who polls the status is told the truth: a COMPLETE job has its report, and while
\* runs end in time a report is never behind any other status.
StatusTellsTruth ==
  /\ status = "COMPLETE" => report
  /\ stalled \/ (report => status = "COMPLETE")

\* While runs end in time, no job is tried more often than max_attempts.
AttemptsBounded == stalled \/ attempts <= MaxAttempts

\* worker.py:192: "makes it safe to call run_job() speculatively even on a job that
\* turns out to have already finished": a finished job stays finished.
FinishedStays == [][status = "COMPLETE" => status' = "COMPLETE"]_vars

=============================================================================
