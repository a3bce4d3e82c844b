---------------------------- MODULE Reports_proofs ----------------------------
(* Proofs about reports, from request or schedule to the end of the job, for  *)
(* any number of requests, sweepers, recipients, attempts and faults and any  *)
(* timeouts: types; while nothing stalls a job has one runner, a truthful     *)
(* status and no more attempts than it may have; requests share a job; a      *)
(* period is mailed once.                                                     *)
EXTENDS Reports, TLAPS

-----------------------------------------------------------------------------
(* What the row and its callers know of each other while nothing has stalled. *)

\* A caller that runs the job holds it: the row says so, has not timed out, and
\* has the attempts the caller read.
RunnerHolds ==
  \A c \in Caller : pc[c] = "running" => /\ status = "PROCESSING"
                                         /\ age < StuckAfter
                                         /\ held[c] = attempts

\* A sweep that found the job stuck leads, and the row is still as it was found.
SweepHolds ==
  \A s \in Sweeper : pc[s] = "found" => /\ leader = s
                                        /\ status = "PROCESSING"
                                        /\ age = StuckAfter
                                        /\ held[s] = attempts

\* The attempts are not used up while the job waits to be run.
AttemptsLeft ==
  /\ attempts <= MaxAttempts
  /\ status = "QUEUED" => attempts < MaxAttempts

\* The parts of the invariant that a stall breaks.
Undisturbed ==
  /\ RunnerHolds
  /\ SweepHolds
  /\ AttemptsLeft
  /\ \A c, d \in Caller : pc[c] = "running" /\ pc[d] = "running" => c = d
  /\ report => status = "COMPLETE"

\* The job's part.
IInv ==
  /\ TypeOK
  /\ status = "COMPLETE" => report
  /\ stalled \/ Undisturbed

-----------------------------------------------------------------------------
(* Types.                                                                     *)

\* A retry is a status, COMPLETE never, and QUEUED only with attempts left.
LEMMA RequeuedTyped ==
  ASSUME NEW n \in Nat
  PROVE  /\ Requeued(n) \in {"QUEUED", "FAILED"}
         /\ Requeued(n) = "QUEUED" => n < MaxAttempts
BY DEF Requeued

\* Every sweeper is a caller, the request is one that does not sweep.
LEMMA CallersApart ==
  /\ Sweeper \subseteq Caller /\ Request \in Caller
  /\ \A s \in Sweeper : s # Request
BY ReportAssumption DEF Caller, ReportAssumption

\* A job is created with the right types.
LEMMA TypeInit == Init => TypeOK
<1> SUFFICES ASSUME Init PROVE TypeOK
  OBVIOUS
<1>1. 0 \in 0..StuckAfter /\ 0 \in 0..MaxFaults
  BY ReportAssumption DEF ReportAssumption
<1>2. pc \in [Caller -> {"idle", "found", "called", "running"}] /\ pc[Request] # "found"
  BY CallersApart DEF Init
<1> QED  BY <1>1, <1>2 DEF Init, TypeOK, Status

\* Another fault stays within the bound.
LEMMA FaultTyped ==
  ASSUME faults \in 0..MaxFaults, Fault
  PROVE  faults' \in 0..MaxFaults
BY ReportAssumption DEF Fault, ReportAssumption

\* Every step keeps the types.
LEMMA TypeNext == TypeOK /\ [Next]_vars => TypeOK'
<1> SUFFICES ASSUME TypeOK, [Next]_vars PROVE TypeOK'
  OBVIOUS
<1> USE CallersApart
<1>0. 0 \in 0..StuckAfter
  BY ReportAssumption DEF ReportAssumption
<1>1. ASSUME NEW c \in Caller, Claim(c) PROVE TypeOK'
  <2>1. attempts + 1 \in Nat
    BY DEF TypeOK
  <2> QED  BY <1>0, <1>1, <2>1 DEF Claim, TypeOK, Status
<1>2. ASSUME NEW c \in Caller, ClaimLost(c) PROVE TypeOK'
  BY <1>2 DEF ClaimLost, TypeOK, row
<1>3. ASSUME NEW c \in Caller, Completes(c) PROVE TypeOK'
  BY <1>0, <1>3 DEF Completes, TypeOK, Status
<1>4. ASSUME NEW c \in Caller, RunFails(c) PROVE TypeOK'
  <2>1. Requeued(held[c]) \in Status
    BY RequeuedTyped DEF TypeOK, Status
  <2>2. faults' \in 0..MaxFaults
    BY <1>4, FaultTyped DEF RunFails, TypeOK
  <2> QED  BY <1>0, <1>4, <2>1, <2>2 DEF RunFails, MarkFailed, TypeOK
<1>5. ASSUME NEW c \in Caller, DuplicateReport(c) PROVE TypeOK'
  <2>1. Requeued(held[c]) \in Status
    BY RequeuedTyped DEF TypeOK, Status
  <2> QED  BY <1>0, <1>5, <2>1 DEF DuplicateReport, MarkFailed, TypeOK
<1>6. ASSUME NEW c \in Caller, RunDies(c) PROVE TypeOK'
  <2>1. faults' \in 0..MaxFaults
    BY <1>6, FaultTyped DEF RunDies, TypeOK
  <2> QED  BY <1>6, <2>1 DEF RunDies, TypeOK, row
<1>7. ASSUME NEW s \in Sweeper, SweepFindsStuck(s) PROVE TypeOK'
  BY <1>7 DEF SweepFindsStuck, TypeOK, row
<1>8. ASSUME NEW s \in Sweeper, SweepRequeues(s) PROVE TypeOK'
  <2>1. Requeued(held[s]) \in Status
    BY RequeuedTyped DEF TypeOK, Status
  <2> QED  BY <1>0, <1>8, <2>1 DEF SweepRequeues, TypeOK
<1>9. ASSUME NEW s \in Sweeper, SweepFindsQueued(s) PROVE TypeOK'
  BY <1>9 DEF SweepFindsQueued, TypeOK, row
<1>10. ASSUME LeaderChanges PROVE TypeOK'
  <2>1. faults' \in 0..MaxFaults
    BY <1>10, FaultTyped DEF LeaderChanges, TypeOK
  <2>2. stalled' \in BOOLEAN
    BY <1>10 DEF LeaderChanges, Sweeping, TypeOK
  <2> QED  BY <1>10, <2>1, <2>2 DEF LeaderChanges, TypeOK, row
<1>11. ASSUME Tick PROVE TypeOK'
  <2>1. age' \in 0..StuckAfter
    BY <1>11, ReportAssumption DEF Tick, TypeOK, ReportAssumption
  <2>2. faults' \in 0..MaxFaults /\ stalled' \in BOOLEAN
    BY <1>11, FaultTyped DEF Tick, TypeOK
  <2> QED  BY <1>11, <2>1, <2>2 DEF Tick, TypeOK
<1>12. CASE UNCHANGED vars
  BY <1>12 DEF vars, row, TypeOK
<1> QED
  BY <1>1, <1>2, <1>3, <1>4, <1>5, <1>6, <1>7, <1>8, <1>9, <1>10, <1>11, <1>12
     DEF Next, Run, Sweep

-----------------------------------------------------------------------------
(* The invariant.                                                             *)

\* A new job has no report and all its attempts.
LEMMA InitHolds == Init => IInv
<1> SUFFICES ASSUME Init PROVE IInv
  OBVIOUS
<1>1. TypeOK
  BY TypeInit
<1>2. \A c \in Caller : pc[c] \in {"called", "idle"}
  BY DEF Init
<1>3. RunnerHolds /\ SweepHolds
  BY <1>2, CallersApart DEF RunnerHolds, SweepHolds
<1>4. AttemptsLeft
  BY ReportAssumption DEF Init, AttemptsLeft, ReportAssumption
<1> QED  BY <1>1, <1>2, <1>3, <1>4 DEF IInv, Undisturbed, Init

\* A stall is never forgotten.
LEMMA StalledStays == TypeOK /\ [Next]_vars /\ stalled => stalled'
<1> SUFFICES ASSUME TypeOK, [Next]_vars, stalled PROVE stalled'
  OBVIOUS
<1>1. ASSUME NEW c \in Caller, Run(c) \/ RunDies(c) PROVE stalled'
  BY <1>1 DEF Run, Claim, ClaimLost, Completes, RunFails, DuplicateReport, RunDies
<1>2. ASSUME NEW s \in Sweeper, Sweep(s) PROVE stalled'
  BY <1>2 DEF Sweep, SweepFindsStuck, SweepRequeues, SweepFindsQueued
<1>3. ASSUME LeaderChanges \/ Tick PROVE stalled'
  BY <1>3 DEF LeaderChanges, Tick
<1> QED  BY <1>1, <1>2, <1>3 DEF Next, vars

\* A COMPLETE job has its report, stall or no stall: only the transaction that
\* inserts the report writes COMPLETE, and no action deletes a report.
LEMMA CompleteHasReport ==
  TypeOK /\ (status = "COMPLETE" => report) /\ [Next]_vars => (status' = "COMPLETE" => report')
<1> SUFFICES ASSUME TypeOK, status = "COMPLETE" => report, [Next]_vars
             PROVE  status' = "COMPLETE" => report'
  OBVIOUS
<1> USE CallersApart
<1>1. \A c \in Caller : Requeued(held[c]) # "COMPLETE"
  BY RequeuedTyped DEF TypeOK
<1>2. ASSUME NEW c \in Caller, Run(c) \/ RunDies(c) PROVE status' = "COMPLETE" => report'
  BY <1>1, <1>2 DEF Run, Claim, ClaimLost, Completes, RunFails, DuplicateReport, RunDies,
                    MarkFailed, row
<1>3. ASSUME NEW s \in Sweeper, Sweep(s) PROVE status' = "COMPLETE" => report'
  BY <1>1, <1>3 DEF Sweep, SweepFindsStuck, SweepRequeues, SweepFindsQueued, row
<1>4. ASSUME LeaderChanges \/ Tick PROVE status' = "COMPLETE" => report'
  BY <1>4 DEF LeaderChanges, Tick, row
<1> QED  BY <1>2, <1>3, <1>4 DEF Next, vars, row

\* A caller takes, loses or ends the job without disturbing the others: whoever
\* runs it is alone, so whoever ends it leaves nobody running.
LEMMA RunKeeps ==
  ASSUME TypeOK, Undisturbed, NEW c \in Caller, Run(c) \/ RunDies(c)
  PROVE  Undisturbed'
<1> USE CallersApart
<1>s. /\ attempts \in Nat /\ held[c] \in Nat
      /\ pc \in [Caller -> {"idle", "found", "called", "running"}]
      /\ held \in [Caller -> Nat]
  BY DEF TypeOK
<1>1. CASE Claim(c)
  <2>1. \A d \in Caller : pc[d] # "running"
    BY <1>1 DEF Claim, Claimable, Undisturbed, RunnerHolds
  <2>2. \A s \in Sweeper : pc[s] # "found"
    BY <1>1 DEF Claim, Claimable, Undisturbed, SweepHolds
  <2>3. attempts < MaxAttempts
    BY <1>1 DEF Claim, Claimable, Undisturbed, AttemptsLeft
  <2>4. RunnerHolds'
    BY <1>1, <1>s, <2>1, ReportAssumption DEF Claim, RunnerHolds, ReportAssumption
  <2>5. SweepHolds'
    BY <1>1, <1>s, <2>2 DEF Claim, SweepHolds
  <2>6. AttemptsLeft'
    BY <1>1, <1>s, <2>3, ReportAssumption DEF Claim, AttemptsLeft, ReportAssumption
  <2>7. \A d \in Caller : pc'[d] = "running" => d = c
    BY <1>1, <1>s, <2>1 DEF Claim
  <2>8. ~report'
    BY <1>1 DEF Claim, Claimable, Undisturbed
  <2> QED  BY <2>4, <2>5, <2>6, <2>7, <2>8 DEF Undisturbed
<1>2. CASE ClaimLost(c) \/ RunDies(c)
  <2>1. UNCHANGED <<row, held, leader, stalled>> /\ pc' = [pc EXCEPT ![c] = "idle"]
    BY <1>2 DEF ClaimLost, RunDies
  <2>2. \A d \in Caller : pc'[d] # "idle" => pc'[d] = pc[d]
    BY <1>s, <2>1
  <2> QED
    BY <2>1, <2>2 DEF Undisturbed, RunnerHolds, SweepHolds, AttemptsLeft, row
<1>3. CASE Completes(c) \/ RunFails(c) \/ DuplicateReport(c)
  <2>1. pc[c] = "running" /\ pc' = [pc EXCEPT ![c] = "idle"]
        /\ attempts' = attempts /\ held' = held
    BY <1>3 DEF Completes, RunFails, DuplicateReport, MarkFailed
  <2>2. status = "PROCESSING" /\ age < StuckAfter /\ held[c] = attempts /\ ~report
    BY <2>1 DEF Undisturbed, RunnerHolds
  <2>3. \A d \in Caller : pc'[d] # "running"
    BY <1>s, <2>1 DEF Undisturbed
  <2>4. \A s \in Sweeper : pc[s] # "found"
    BY <2>2, ReportAssumption DEF Undisturbed, SweepHolds, ReportAssumption
  <2>5. \A s \in Sweeper : pc'[s] # "found"
    BY <1>s, <2>1, <2>4
  <2>6. CASE Completes(c)
    BY <1>s, <2>1, <2>3, <2>5, <2>6
       DEF Completes, Undisturbed, RunnerHolds, SweepHolds, AttemptsLeft
  <2>7. CASE RunFails(c) \/ DuplicateReport(c)
    <3>1. status' = Requeued(held[c]) /\ report' = report
      BY <2>7 DEF RunFails, DuplicateReport, MarkFailed
    <3>2. AttemptsLeft'
      BY <1>s, <2>1, <2>2, <3>1, RequeuedTyped DEF Undisturbed, AttemptsLeft
    <3> QED
      BY <2>2, <2>3, <2>5, <3>1, <3>2 DEF Undisturbed, RunnerHolds, SweepHolds
  <2> QED  BY <1>3, <2>6, <2>7
<1> QED  BY <1>1, <1>2, <1>3 DEF Run

\* A sweep requeues the row as it found it; it finds nothing while the job runs.
LEMMA SweepKeeps ==
  ASSUME TypeOK, Undisturbed, NEW s \in Sweeper, Sweep(s)
  PROVE  Undisturbed'
<1> USE CallersApart
<1>s. /\ attempts \in Nat /\ held[s] \in Nat
      /\ pc \in [Caller -> {"idle", "found", "called", "running"}]
      /\ held \in [Caller -> Nat]
  BY DEF TypeOK
<1>1. CASE SweepFindsStuck(s)
  <2>1. \A d \in Caller : pc[d] # "running"
    BY <1>1, ReportAssumption DEF SweepFindsStuck, Undisturbed, RunnerHolds, ReportAssumption
  <2>2. \A d \in Caller : pc'[d] # "running"
    BY <1>1, <1>s, <2>1 DEF SweepFindsStuck
  <2>3. SweepHolds'
    BY <1>1, <1>s DEF SweepFindsStuck, Undisturbed, SweepHolds, row
  <2> QED
    BY <1>1, <2>2, <2>3 DEF SweepFindsStuck, Undisturbed, RunnerHolds, AttemptsLeft, row
<1>2. CASE SweepRequeues(s)
  <2>1. leader = s /\ status = "PROCESSING" /\ age = StuckAfter /\ held[s] = attempts
    BY <1>2 DEF SweepRequeues, Undisturbed, SweepHolds
  <2>2. \A d \in Caller : pc[d] # "running"
    BY <2>1, ReportAssumption DEF Undisturbed, RunnerHolds, ReportAssumption
  <2>3. \A d \in Caller : pc'[d] # "running"
    BY <1>2, <1>s, <2>2 DEF SweepRequeues
  <2>4. \A z \in Sweeper : pc'[z] # "found"
    BY <1>2, <1>s, <2>1 DEF SweepRequeues, Undisturbed, SweepHolds
  <2>5. AttemptsLeft'
    BY <1>2, <1>s, <2>1, RequeuedTyped DEF SweepRequeues, Undisturbed, AttemptsLeft
  <2>6. ~report'
    BY <1>2, <2>1 DEF SweepRequeues, Undisturbed
  <2> QED  BY <2>3, <2>4, <2>5, <2>6 DEF Undisturbed, RunnerHolds, SweepHolds
<1>3. CASE SweepFindsQueued(s)
  <2>1. \A d \in Caller : pc'[d] # "called" => pc'[d] = pc[d]
    BY <1>3, <1>s DEF SweepFindsQueued
  <2> QED
    BY <1>3, <2>1 DEF SweepFindsQueued, Undisturbed, RunnerHolds, SweepHolds, AttemptsLeft, row
<1> QED  BY <1>1, <1>2, <1>3 DEF Sweep

\* What disturbs the job is recorded as a stall: a run that outlasts the timeout,
\* a change of leader in the middle of a sweep.
LEMMA WorldKeeps ==
  ASSUME TypeOK, Undisturbed, LeaderChanges \/ Tick, ~stalled'
  PROVE  Undisturbed'
<1> USE CallersApart
<1>1. CASE LeaderChanges
  <2>1. \A s \in Sweeper : pc[s] # "found"
    BY <1>1 DEF LeaderChanges, Sweeping
  <2> QED
    BY <1>1, <2>1 DEF LeaderChanges, Undisturbed, RunnerHolds, SweepHolds, AttemptsLeft, row
<1>2. CASE Tick
  <2>1. \A s \in Sweeper : pc[s] # "found"
    BY <1>2 DEF Tick, Sweeping
  <2>2. (\E c \in Caller : pc[c] = "running") => age' < StuckAfter
    <3>1. age' # StuckAfter \/ \A c \in Caller : pc[c] # "running"
      BY <1>2 DEF Tick
    <3>2. age' <= StuckAfter /\ age' \in Nat
      BY <1>2, ReportAssumption DEF Tick, TypeOK, ReportAssumption
    <3> QED  BY <3>1, <3>2, ReportAssumption DEF ReportAssumption
  <2> QED
    BY <1>2, <2>1, <2>2 DEF Tick, Undisturbed, RunnerHolds, SweepHolds, AttemptsLeft
<1> QED  BY <1>1, <1>2

\* The invariant is inductive.
LEMMA StepHolds == IInv /\ [Next]_vars => IInv'
<1> SUFFICES ASSUME IInv, [Next]_vars PROVE IInv'
  OBVIOUS
<1>1. TypeOK /\ TypeOK'
  BY TypeNext DEF IInv
<1>2. status' = "COMPLETE" => report'
  BY CompleteHasReport DEF IInv
<1>3. ASSUME ~stalled' PROVE Undisturbed'
  <2>1. Undisturbed
    BY <1>1, <1>3, StalledStays DEF IInv
  <2>2. CASE UNCHANGED vars
    BY <2>1, <2>2
       DEF Undisturbed, RunnerHolds, SweepHolds, AttemptsLeft, vars, row
  <2> QED
    BY <1>1, <1>3, <2>1, <2>2, RunKeeps, SweepKeeps, WorldKeeps DEF Next
<1> QED  BY <1>1, <1>2, <1>3 DEF IInv

\* What requests and schedules do to the job besides its own steps: callers are
\* interrupted, which may count as a fault.
Interrupted ==
  /\ UNCHANGED <<row, held, leader, stalled>>
  /\ faults' \in 0..MaxFaults
  /\ pc' \in [Caller -> {"idle", "found", "called", "running"}]
  /\ \A c \in Caller : pc'[c] \in {pc[c], "idle"}

\* Any step of the whole, as the job sees it.
JobStep == [Next]_vars \/ Interrupted

\* A caller that is interrupted only lets go of the job.
LEMMA InterruptedHolds == IInv /\ Interrupted => IInv'
<1> SUFFICES ASSUME IInv, Interrupted PROVE IInv'
  OBVIOUS
<1> USE CallersApart
<1>1. TypeOK'
  BY DEF IInv, TypeOK, Interrupted, row
<1>2. Undisturbed => Undisturbed'
  <2>1. \A c \in Caller : pc'[c] \in {"running", "found"} => pc'[c] = pc[c]
    BY DEF Interrupted
  <2> QED
    BY <2>1 DEF Interrupted, Undisturbed, RunnerHolds, SweepHolds, AttemptsLeft, row
<1> QED  BY <1>1, <1>2 DEF IInv, Interrupted, row

\* Every step of the job keeps the invariant.
LEMMA JobHolds == IInv /\ JobStep => IInv'
BY StepHolds, InterruptedHolds DEF JobStep

\* While nothing stalls, a job that is over stays over: nobody runs it, and no
\* sweep has found it stuck.
LEMMA OverStays ==
  ASSUME IInv, JobStep, ~stalled', status \in {"COMPLETE", "FAILED"}
  PROVE  status' = status /\ ~stalled
<1> USE CallersApart
<1>1. ~stalled
  BY StalledStays DEF IInv, JobStep, Interrupted
<1>2. \A c \in Caller : pc[c] # "running"
  BY <1>1 DEF IInv, Undisturbed, RunnerHolds
<1>3. \A s \in Sweeper : pc[s] # "found"
  BY <1>1 DEF IInv, Undisturbed, SweepHolds
<1>4. ASSUME NEW c \in Caller, Run(c) \/ RunDies(c) PROVE status' = status
  BY <1>2, <1>4 DEF Run, Claim, Claimable, ClaimLost, Completes, RunFails, DuplicateReport,
                    RunDies, row
<1>5. ASSUME NEW s \in Sweeper, Sweep(s) PROVE status' = status
  BY <1>3, <1>5 DEF Sweep, SweepFindsStuck, SweepRequeues, SweepFindsQueued, row
<1>6. ASSUME LeaderChanges \/ Tick \/ Interrupted \/ UNCHANGED vars PROVE status' = status
  BY <1>6 DEF LeaderChanges, Tick, Interrupted, row, vars
<1> QED  BY <1>1, <1>4, <1>5, <1>6 DEF JobStep, Next

-----------------------------------------------------------------------------
(* The requests and the schedule, step by step.                               *)

\* A fault outside the job leaves the job as it is.
LEMMA FaultInterrupts ==
  ASSUME TypeOK, Fault \/ UNCHANGED faults, UNCHANGED <<row, pc, held, leader, stalled>>
  PROVE  Interrupted
<1>1. faults' \in 0..MaxFaults
  BY FaultTyped DEF TypeOK
<1> QED  BY <1>1 DEF Interrupted, TypeOK

\* What a request does to the job.
LEMMA RequestIsJobStep == TypeOK /\ RequestNext => JobStep
<1> SUFFICES ASSUME TypeOK, RequestNext PROVE JobStep
  OBVIOUS
<1>1. ASSUME NEW r \in Requester, Arrives(r) \/ InsertsAndReleases(r) \/ Commits(r)
      PROVE  UNCHANGED vars
  BY <1>1 DEF Arrives, InsertsAndReleases, Commits
<1>2. ASSUME NEW r \in Requester, Looks(r, TRUE) \/ Looks(r, FALSE) \/ HandlerDies(r)
      PROVE  Interrupted
  <2>1. UNCHANGED <<row, pc, held, leader, stalled>>
    BY <1>2 DEF Looks, HandlerDies
  <2>2. Fault \/ UNCHANGED faults
    BY <1>2 DEF Looks, HandlerDies
  <2> QED  BY <2>1, <2>2, FaultInterrupts
<1>3. ASSUME RequestedJob \/ RequestTime PROVE [Next]_vars
  BY <1>3 DEF RequestedJob, RequestTime, Next
<1> QED  BY <1>1, <1>2, <1>3 DEF RequestNext, Handles, JobStep

\* What the scheduler does to the job.
LEMMA ScheduleIsJobStep == TypeOK /\ ScheduleNext => JobStep
<1> SUFFICES ASSUME TypeOK, ScheduleNext PROVE JobStep
  OBVIOUS
<1> USE CallersApart
<1>1. ASSUME NEW p \in Sweeper, TickReads(p) \/ Claims(p) \/ CannotSend(p) \/ CreatesJob(p)
                                \/ Polls(p) \/ SendingEnds(p) \/ Finishes(p)
      PROVE  UNCHANGED vars
  BY <1>1 DEF TickReads, Claims, CannotSend, CreatesJob, Polls, SendingEnds, Finishes
<1>2. ASSUME NEW p \in Sweeper, FinishFails(p) \/ \E a \in Recipient : Sends(p, a)
      PROVE  Interrupted
  <2>1. UNCHANGED <<row, pc, held, leader, stalled>>
    BY <1>2 DEF FinishFails, Sends
  <2>2. Fault \/ UNCHANGED faults
    BY <1>2 DEF FinishFails, Sends
  <2> QED  BY <2>1, <2>2, FaultInterrupts
<1>3. ASSUME NEW p \in Sweeper, Raises(p) \/ ProcessDies(p) PROVE Interrupted
  <2>1. UNCHANGED <<row, held, leader, stalled>> /\ Fault
    BY <1>3 DEF Raises, ProcessDies
  <2>2. faults' \in 0..MaxFaults
    BY <2>1, FaultTyped DEF TypeOK
  <2>3. pc' \in [Caller -> {"idle", "found", "called", "running"}]
    BY <1>3 DEF Raises, ProcessDies, TypeOK
  <2>4. \A c \in Caller : pc'[c] \in {pc[c], "idle"}
    BY <1>3 DEF Raises, ProcessDies, TypeOK
  <2> QED  BY <2>1, <2>2, <2>3, <2>4 DEF Interrupted
<1>4. ASSUME ScheduledJob \/ ScheduleTime PROVE [Next]_vars
  BY <1>4 DEF ScheduledJob, ScheduleTime, Next
<1>5. ASSUME Toggles PROVE Interrupted
  BY <1>5, FaultInterrupts DEF Toggles
<1> QED  BY <1>1, <1>2, <1>3, <1>4, <1>5 DEF ScheduleNext, Works, JobStep

\* Every step of the whole is one of the job.
LEMMA ReportsStep == TypeOK /\ [ReportsNext]_allVars => JobStep
BY RequestIsJobStep, ScheduleIsJobStep DEF ReportsNext, allVars, JobStep

\* The job's part of the invariant holds throughout.
LEMMA JobInvariant == ReportsSpec => []IInv
<1>1. ReportsInit => IInv
  BY InitHolds DEF ReportsInit
<1>2. IInv /\ [ReportsNext]_allVars => IInv'
  BY ReportsStep, JobHolds DEF IInv
<1> QED  BY <1>1, <1>2, PTL DEF ReportsSpec

-----------------------------------------------------------------------------
(* The job.                                                                   *)

\* One caller at a time gathers, renders and stores the report while runs end
\* within the stuck timeout (run_job, sweep_stuck_jobs), whether a user or a
\* schedule asked for it.
THEOREM OneRunnerAlways == ReportsSpec => []OneRunner
<1>1. IInv => OneRunner
  BY DEF IInv, Undisturbed, OneRunner
<1> QED  BY <1>1, JobInvariant, PTL

\* COMPLETE means the report is there; while runs end in time the report being
\* there means COMPLETE (_mark_complete, _mark_failed, the sweep).
THEOREM StatusTellsTruthAlways == ReportsSpec => []StatusTellsTruth
<1>1. IInv => StatusTellsTruth
  BY DEF IInv, Undisturbed, StatusTellsTruth
<1> QED  BY <1>1, JobInvariant, PTL

-----------------------------------------------------------------------------
(* The requests.                                                              *)

\* What the requests keep is typed.
LEMMA RequestTypeInit == RequestInit => RequestTypeOK
<1>1. 0 \in 0..InflightAfter /\ 0 \in Nat
  BY RequestAssumption DEF RequestAssumption
<1> QED  BY <1>1 DEF RequestInit, RequestTypeOK

\* Every step of the requests keeps the types.
LEMMA RequestTypeNext == RequestTypeOK /\ (RequestNext \/ UNCHANGED requestVars) => RequestTypeOK'
<1> SUFFICES ASSUME RequestTypeOK, RequestNext \/ UNCHANGED requestVars PROVE RequestTypeOK'
  OBVIOUS
<1>1. ASSUME NEW r \in Requester, Arrives(r) \/ InsertsAndReleases(r) \/ Commits(r) \/ HandlerDies(r)
      PROVE  RequestTypeOK'
  BY <1>1 DEF Arrives, InsertsAndReleases, Commits, HandlerDies, RqGoto, RequestTypeOK
<1>2. ASSUME NEW r \in Requester, NEW got \in BOOLEAN, Looks(r, got) PROVE RequestTypeOK'
  <2>1. rq' \in [Requester -> {"idle", "lock", "insert", "commit", "answered"}]
    BY <1>2 DEF Looks, RqGoto, RequestTypeOK
  <2>2. raced' \in BOOLEAN
    BY <1>2, Zenon DEF Looks, RequestTypeOK
  <2> QED  BY <1>2, <2>1, <2>2 DEF Looks, RequestTypeOK
<1>3. ASSUME RequestedJob \/ UNCHANGED requestVars PROVE RequestTypeOK'
  BY <1>3 DEF RequestedJob, requestVars, RequestTypeOK
<1>4. ASSUME RequestTime PROVE RequestTypeOK'
  BY <1>4, RequestAssumption DEF RequestTime, RequestTypeOK, RequestAssumption
<1> QED  BY <1>1, <1>2, <1>3, <1>4 DEF RequestNext, Handles

\* A request that found no job to share, and has not committed its own.
Pending(r) == rq[r] \in {"insert", "commit"}

\* While nobody races: who is to insert holds the lock, one request at most is
\* pending, and only when no job is in flight; of those in flight there is one.
RequestInv ==
  raced \/ stalled \/
    /\ \A r \in Requester : rq[r] = "insert" => lock = r
    /\ \A q, r \in Requester : Pending(q) /\ Pending(r) => q = r
    /\ InFlight => rows = 1 /\ \A r \in Requester : ~Pending(r)

\* Time and the job itself bring no other job in flight.
LEMMA InFlightFades ==
  ASSUME IInv, RequestTypeOK, JobStep, ~stalled', rows' = rows,
         born' \in {born, born + 1}, InFlight'
  PROVE  InFlight
<1>1. status \in {"QUEUED", "PROCESSING"}
  BY OverStays DEF InFlight, IInv, TypeOK, Status
<1>2. born < InflightAfter
  BY RequestAssumption DEF InFlight, RequestTypeOK, RequestAssumption
<1> QED  BY <1>1, <1>2 DEF InFlight

\* Every step of the requests keeps the invariant.
LEMMA RequestKeeps ==
  ASSUME IInv, RequestTypeOK, RequestInv, RequestNext
  PROVE  RequestInv'
<1>1. JobStep
  BY RequestIsJobStep DEF IInv
<1> SUFFICES ASSUME ~raced', ~stalled' PROVE RequestInv'
  BY DEF RequestInv
<1>2. ~stalled
  BY <1>1, StalledStays DEF JobStep, Interrupted, IInv
<1>3. ~raced
  BY DEF RequestNext, Arrives, Handles, Looks, InsertsAndReleases, Commits, HandlerDies,
         RequestedJob, RequestTime, requestVars
<1>4. /\ \A r \in Requester : rq[r] = "insert" => lock = r
      /\ \A q, r \in Requester : Pending(q) /\ Pending(r) => q = r
      /\ InFlight => rows = 1 /\ \A r \in Requester : ~Pending(r)
  BY <1>2, <1>3 DEF RequestInv
<1>t. rq \in [Requester -> {"idle", "lock", "insert", "commit", "answered"}] /\ rows \in Nat
  BY DEF RequestTypeOK
<1>5. ASSUME NEW r \in Requester, Arrives(r) PROVE RequestInv'
  <2>1. \A q \in Requester : rq'[q] = rq[q] \/ (q = r /\ rq'[q] = "lock")
    BY <1>5, <1>t DEF Arrives, RqGoto
  <2>2. UNCHANGED <<lock, rows, born, status>>
    BY <1>5 DEF Arrives, vars, row
  <2> QED  BY <1>4, <2>1, <2>2 DEF RequestInv, Pending, InFlight
<1>6. ASSUME NEW r \in Requester, HandlerDies(r) PROVE RequestInv'
  <2>1. \A q \in Requester : rq'[q] = rq[q] \/ (q = r /\ rq'[q] = "idle")
    BY <1>6, <1>t DEF HandlerDies, RqGoto
  <2>2. UNCHANGED <<rows, born, status>> /\ rq'[r] = "idle" /\ (lock' = lock \/ lock = r)
    BY <1>6, <1>t DEF HandlerDies, RqGoto, row
  <2> QED  BY <1>4, <2>1, <2>2 DEF RequestInv, Pending, InFlight
<1>7. ASSUME NEW r \in Requester, InsertsAndReleases(r) PROVE RequestInv'
  <2>1. /\ rq[r] = "insert" /\ rq'[r] = "commit"
        /\ \A q \in Requester : q # r => rq'[q] = rq[q]
    BY <1>7, <1>t DEF InsertsAndReleases, RqGoto
  <2>2. UNCHANGED <<rows, born, status>>
    BY <1>7 DEF InsertsAndReleases, vars, row
  <2>3. \A q \in Requester : Pending(q)' <=> Pending(q)
    BY <2>1 DEF Pending
  <2>4. \A q \in Requester : rq'[q] # "insert"
    BY <1>4, <2>1 DEF Pending
  <2> QED  BY <1>4, <2>2, <2>3, <2>4 DEF RequestInv, InFlight
<1>8. ASSUME NEW r \in Requester, Commits(r) PROVE RequestInv'
  <2>1. /\ rq[r] = "commit" /\ rq'[r] = "answered"
        /\ \A q \in Requester : q # r => rq'[q] = rq[q]
    BY <1>8, <1>t DEF Commits, RqGoto
  <2>2. rows' = rows + 1 /\ UNCHANGED <<lock, born, status>>
    BY <1>8 DEF Commits, vars, row
  <2>3. \A q \in Requester : ~Pending(q)'
    BY <1>4, <2>1 DEF Pending
  <2>4. InFlight' => rows = 0
    BY <1>4, <1>t, <2>1, <2>2 DEF InFlight, Pending
  <2> QED  BY <1>t, <2>2, <2>3, <2>4 DEF RequestInv, Pending
<1>9. ASSUME NEW r \in Requester, Looks(r, FALSE) PROVE RequestInv'
  BY <1>9 DEF Looks
<1>10. ASSUME NEW r \in Requester, Looks(r, TRUE) PROVE RequestInv'
  <2>1. UNCHANGED <<rows, born, status>> /\ lock = NoOne
    BY <1>10 DEF Looks, row
  <2>2. \A q \in Requester : ~Pending(q)
    BY <1>4, <1>10, <2>1, NoOneAssumption DEF Looks, Pending, NoOneAssumption
  <2>3. \A q \in Requester : q # r => rq'[q] = rq[q]
    BY <1>10, <1>t DEF Looks, RqGoto
  <2>4. CASE Reusable
    <3>1. rq'[r] = "answered" /\ lock' = lock
      BY <1>10, <1>t, <2>4 DEF Looks, RqGoto
    <3> QED  BY <1>4, <2>1, <2>2, <2>3, <3>1 DEF RequestInv, Pending, InFlight
  <2>5. CASE ~Reusable
    <3>1. rq'[r] = "insert" /\ lock' = r
      BY <1>10, <1>t, <2>5 DEF Looks, RqGoto
    <3>2. ~InFlight'
      BY <2>1, <2>5 DEF InFlight, Reusable
    <3> QED  BY <2>2, <2>3, <3>1, <3>2 DEF RequestInv, Pending
  <2> QED  BY <2>4, <2>5
<1>11. ASSUME RequestedJob \/ RequestTime PROVE RequestInv'
  <2>1. UNCHANGED <<rq, lock, rows>> /\ born' \in {born, born + 1}
    BY <1>11 DEF RequestedJob, RequestTime, requestVars
  <2>2. InFlight' => InFlight
    BY <1>1, <2>1, InFlightFades
  <2> QED  BY <1>4, <2>1, <2>2 DEF RequestInv, Pending
<1> QED  BY <1>5, <1>6, <1>7, <1>8, <1>9, <1>10, <1>11 DEF RequestNext, Handles

-----------------------------------------------------------------------------
(* The schedule.                                                              *)

\* What the scheduler keeps is typed.
LEMMA ScheduleTypeInit == ScheduleInit => ScheduleTypeOK
<1>1. 0 \in 0..WaitFor /\ 0 \in Nat
  BY ScheduleAssumption DEF ScheduleAssumption
<1> QED  BY <1>1 DEF ScheduleInit, ScheduleTypeOK, Final

\* Every step of the scheduler keeps the types.
LEMMA ScheduleTypeNext == ScheduleTypeOK /\ (ScheduleNext \/ UNCHANGED scheduleVars) => ScheduleTypeOK'
<1> SUFFICES ASSUME ScheduleTypeOK, ScheduleNext \/ UNCHANGED scheduleVars PROVE ScheduleTypeOK'
  OBVIOUS
<1>1. ASSUME NEW p \in Sweeper, TickReads(p) \/ Claims(p) \/ CannotSend(p) \/ CreatesJob(p)
      PROVE  ScheduleTypeOK'
  BY <1>1 DEF TickReads, Claims, CannotSend, CreatesJob, ThreadOnly, ThGoto, ScheduleTypeOK, Final
<1>2. ASSUME NEW p \in Sweeper, Polls(p) \/ SendingEnds(p) \/ Raises(p)
      PROVE  ScheduleTypeOK'
  BY <1>2 DEF Polls, SendingEnds, Raises, ThreadOnly, ThGoto, ScheduleTypeOK, Final
<1>3. ASSUME NEW p \in Sweeper, Finishes(p) \/ FinishFails(p) PROVE ScheduleTypeOK'
  BY <1>3 DEF Finishes, FinishFails, ThGoto, ScheduleTypeOK
<1>4. ASSUME NEW p \in Sweeper, ProcessDies(p) PROVE ScheduleTypeOK'
  <2>1. lost' \in BOOLEAN
    BY <1>4, Zenon DEF ProcessDies, ScheduleTypeOK
  <2> QED  BY <1>4, <2>1 DEF ProcessDies, ThGoto, ScheduleTypeOK
<1>5. ASSUME NEW p \in Sweeper, NEW a \in Recipient, Sends(p, a) PROVE ScheduleTypeOK'
  BY <1>5 DEF Sends, ScheduleTypeOK
<1>6. ASSUME Toggles PROVE ScheduleTypeOK'
  BY <1>6 DEF Toggles, ScheduleTypeOK
<1>7. ASSUME ScheduledJob PROVE ScheduleTypeOK'
  <2>1. th' \in [Sweeper -> {"idle", "due", "claimed", "waiting", "sending"} \cup Final]
    BY <1>7 DEF ScheduledJob, ScheduleTypeOK, Final
  <2> QED  BY <1>7, <2>1 DEF ScheduledJob, ThreadOnly, ScheduleTypeOK
<1>8. ASSUME ScheduleTime PROVE ScheduleTypeOK'
  <2>1. waited' \in 0..WaitFor
    BY <1>8, ScheduleAssumption DEF ScheduleTime, ScheduleTypeOK, ScheduleAssumption
  <2> QED  BY <1>8, <2>1 DEF ScheduleTime, ScheduleTypeOK
<1>9. CASE UNCHANGED scheduleVars
  BY <1>9 DEF scheduleVars, ScheduleTypeOK
<1> QED  BY <1>1, <1>2, <1>3, <1>4, <1>5, <1>6, <1>7, <1>8, <1>9 DEF ScheduleNext, Works

\* A thread that has claimed the period and not yet come to its end.
Acting(p) == th[p] \notin {"idle", "due"}

\* Nobody was mailed, and nobody is about to be.
Unsent == failed = {} /\ todo = {} /\ \A a \in Recipient : mails[a] = 0

\* One thread acts on the period, after it was claimed; until it sends nobody was
\* mailed; whoever is still to be mailed was not.
SendInv ==
  /\ \A p \in Sweeper : Acting(p) => taken
  /\ \A p, q \in Sweeper : Acting(p) /\ Acting(q) => p = q
  /\ (~taken \/ \E p \in Sweeper : th[p] \in {"claimed", "waiting"}) => Unsent
  /\ \A a \in Recipient : mails[a] \in {0, 1} /\ (a \in todo => mails[a] = 0)
  /\ (\E p \in Sweeper : th[p] = "sending") =>
       report /\ \A a \in Recipient : a \in todo \/ a \in failed \/ mails[a] = 1
  /\ (outcome = "SENT" \/ \E p \in Sweeper : th[p] = "SENT") =>
       report /\ \A a \in Recipient : mails[a] = 1

\* A schedule whose period is owed has sent nothing.
LEMMA SendInit == ScheduleInit => SendInv
BY DEF ScheduleInit, SendInv, Acting, Unsent

\* No report is taken back.
LEMMA ReportStays == JobStep /\ report => report'
<1> SUFFICES ASSUME JobStep, report PROVE report'
  OBVIOUS
<1>1. ASSUME NEW c \in Caller, Run(c) \/ RunDies(c) PROVE report'
  BY <1>1 DEF Run, Claim, ClaimLost, Completes, RunFails, DuplicateReport, RunDies, row
<1>2. ASSUME NEW s \in Sweeper, Sweep(s) PROVE report'
  BY <1>2 DEF Sweep, SweepFindsStuck, SweepRequeues, SweepFindsQueued, row
<1>3. ASSUME LeaderChanges \/ Tick \/ Interrupted \/ UNCHANGED vars PROVE report'
  BY <1>3 DEF LeaderChanges, Tick, Interrupted, row, vars
<1> QED  BY <1>1, <1>2, <1>3 DEF JobStep, Next

\* A thread that goes on to another state than "sending" or "SENT", the period being claimed
\* already if it acts, leaves the mails as they are.
LEMMA SendMoves ==
  ASSUME SendInv, report => report',
         UNCHANGED <<taken, todo, failed, mails, outcome>>,
         \A p \in Sweeper : \/ th'[p] = th[p] \/ th'[p] \in {"idle", "due"}
                            \/ (Acting(p) /\ th'[p] \in {"FAILED", "SKIPPED", "PARTIAL"})
                            \/ (th[p] = "claimed" /\ th'[p] = "waiting")
  PROVE  SendInv'
<1>1. \A p \in Sweeper : Acting(p)' => Acting(p)
  BY DEF Acting
<1>2. \A p \in Sweeper : th'[p] \in {"claimed", "waiting"} => th[p] \in {"claimed", "waiting"}
  OBVIOUS
<1>3. \A p \in Sweeper : th'[p] \in {"sending", "SENT"} => th'[p] = th[p]
  OBVIOUS
<1> QED  BY <1>1, <1>2, <1>3 DEF SendInv, Unsent

\* Every step of the scheduler keeps the invariant.
LEMMA SendKeeps ==
  ASSUME IInv, ScheduleTypeOK, SendInv, ScheduleNext
  PROVE  SendInv'
<1>r. JobStep /\ (report => report')
  BY ScheduleIsJobStep, ReportStays DEF IInv
<1>t. /\ th \in [Sweeper -> {"idle", "due", "claimed", "waiting", "sending"} \cup Final]
      /\ Final = {"SENT", "PARTIAL", "FAILED", "SKIPPED"}
  BY DEF ScheduleTypeOK, Final
<1>1. ASSUME NEW p \in Sweeper, TickReads(p) \/ CannotSend(p) \/ CreatesJob(p) \/ Raises(p)
                                \/ FinishFails(p) \/ ProcessDies(p)
      PROVE  SendInv'
  <2>1. UNCHANGED <<taken, todo, failed, mails, outcome>>
    BY <1>1 DEF TickReads, CannotSend, CreatesJob, Raises, FinishFails, ProcessDies, ThreadOnly
  <2>2. \A q \in Sweeper : \/ th'[q] = th[q] \/ th'[q] \in {"idle", "due"}
                            \/ (Acting(q) /\ th'[q] \in {"FAILED", "SKIPPED", "PARTIAL"})
                            \/ (th[q] = "claimed" /\ th'[q] = "waiting")
    BY <1>1, <1>t DEF TickReads, CannotSend, CreatesJob, Raises, FinishFails, ProcessDies,
                      ThGoto, Acting
  <2> QED  BY <1>r, <1>t, <2>1, <2>2, SendMoves
<1>2. ASSUME NEW p \in Sweeper, Claims(p) PROVE SendInv'
  <2>1. CASE taken
    <3>1. UNCHANGED <<taken, todo, failed, mails, outcome>> /\ th' = [th EXCEPT ![p] = "idle"]
      BY <1>2, <2>1 DEF Claims, ThGoto
    <3> QED  BY <1>r, <1>t, <3>1, SendMoves
  <2>2. CASE ~taken
    <3>1. /\ th' = [th EXCEPT ![p] = "claimed"] /\ taken' /\ outcome' = "RUNNING"
          /\ UNCHANGED <<todo, failed, mails>>
      BY <1>2, <2>2 DEF Claims, ThGoto
    <3>2. \A q \in Sweeper : ~Acting(q)
      BY <2>2 DEF SendInv
    <3>3. \A q \in Sweeper : Acting(q)' => q = p /\ th'[q] = "claimed"
      BY <1>t, <3>1, <3>2 DEF Acting
    <3>4. \A q \in Sweeper : th'[q] # "sending" /\ th'[q] # "SENT"
      BY <3>3 DEF Acting
    <3>5. Unsent'
      BY <2>2, <3>1 DEF SendInv, Unsent
    <3> QED  BY <3>1, <3>3, <3>4, <3>5 DEF SendInv, Unsent
  <2> QED  BY <2>1, <2>2
<1>3. ASSUME NEW p \in Sweeper, Polls(p) PROVE SendInv'
  <2>1. CASE th' = [th EXCEPT ![p] = "FAILED"] /\ UNCHANGED todo
    <3>1. UNCHANGED <<taken, todo, failed, mails, outcome>> /\ th[p] = "waiting"
      BY <1>3, <2>1 DEF Polls
    <3>2. \A q \in Sweeper : th'[q] = th[q] \/ (Acting(q) /\ th'[q] = "FAILED")
      BY <1>t, <2>1, <3>1 DEF Acting
    <3> QED  BY <1>r, <1>t, <3>1, <3>2, SendMoves
  <2>2. CASE status = "COMPLETE" /\ th' = [th EXCEPT ![p] = "sending"] /\ todo' = Recipient
    <3>1. th[p] = "waiting" /\ UNCHANGED <<taken, failed, mails, outcome>>
      BY <1>3 DEF Polls
    <3>2. report'
      BY <1>r, <2>2 DEF IInv
    <3>3. Unsent /\ taken /\ \A q \in Sweeper : Acting(q) => q = p
      BY <3>1 DEF SendInv, Acting
    <3>4. \A q \in Sweeper : Acting(q)' => q = p /\ th'[q] = "sending"
      BY <1>t, <2>2, <3>3 DEF Acting
    <3>5. \A q \in Sweeper : th'[q] \notin {"claimed", "waiting", "SENT"}
      BY <3>4 DEF Acting
    <3>6. \A a \in Recipient : mails'[a] = 0 /\ a \in todo'
      BY <2>2, <3>1, <3>3 DEF Unsent
    <3> QED  BY <3>1, <3>2, <3>3, <3>4, <3>5, <3>6 DEF SendInv
  <2> QED  BY <1>3, <2>1, <2>2 DEF Polls, ThGoto
<1>4. ASSUME NEW p \in Sweeper, NEW a \in Recipient, Sends(p, a) PROVE SendInv'
  <2>1. /\ th[p] = "sending" /\ a \in todo /\ todo' = todo \ {a}
        /\ UNCHANGED <<th, taken, outcome, report>>
    BY <1>4 DEF Sends, row
  <2>2. /\ report /\ taken /\ mails[a] = 0
        /\ \A b \in Recipient : b \in todo \/ b \in failed \/ mails[b] = 1
        /\ \A q \in Sweeper : th[q] # "idle" /\ th[q] # "due" => q = p
    BY <2>1 DEF SendInv, Acting
  <2>3. /\ \A b \in Recipient : b # a => mails'[b] = mails[b]
        /\ \/ mails'[a] = 1 /\ failed' = failed
           \/ mails' = mails /\ failed' = failed \cup {a}
    BY <1>4, <2>2 DEF Sends, ScheduleTypeOK
  <2>4. outcome # "SENT"
    BY <2>2 DEF SendInv
  <2>5. \A q \in Sweeper : th[q] \notin {"claimed", "waiting", "SENT"}
    BY <2>1, <2>2
  <2>6. \A b \in Recipient : mails'[b] \in {0, 1} /\ (b \in todo' => mails'[b] = 0)
    BY <2>1, <2>2, <2>3 DEF SendInv
  <2>7. \A b \in Recipient : b \in todo' \/ b \in failed' \/ mails'[b] = 1
    BY <2>1, <2>2, <2>3
  <2>8. \A q, z \in Sweeper : /\ Acting(q)' => taken'
                              /\ Acting(q)' /\ Acting(z)' => q = z
    BY <2>1, <2>2 DEF Acting
  <2> QED  BY <2>1, <2>2, <2>4, <2>5, <2>6, <2>7, <2>8 DEF SendInv
<1>5. ASSUME NEW p \in Sweeper, SendingEnds(p) PROVE SendInv'
  <2>1. /\ th[p] = "sending" /\ todo = {}
        /\ UNCHANGED <<taken, todo, failed, mails, outcome, report>>
    BY <1>5 DEF SendingEnds, ThreadOnly, vars, row
  <2>2. CASE th' = [th EXCEPT ![p] = "SENT"] /\ failed = {}
    <3>1. report /\ \A a \in Recipient : mails[a] = 1
      BY <2>1, <2>2 DEF SendInv
    <3>2. \A q \in Sweeper : /\ Acting(q)' <=> Acting(q)
                             /\ th'[q] \in {"claimed", "waiting", "sending"} => th'[q] = th[q]
      BY <1>t, <2>1, <2>2 DEF Acting
    <3> QED  BY <2>1, <3>1, <3>2 DEF SendInv, Unsent
  <2>3. CASE \E o \in {"FAILED", "PARTIAL"} : th' = [th EXCEPT ![p] = o]
    <3>1. \A q \in Sweeper : th'[q] = th[q] \/ (Acting(q) /\ th'[q] \in {"FAILED", "PARTIAL"})
      BY <1>t, <2>1, <2>3 DEF Acting
    <3> QED  BY <1>r, <1>t, <2>1, <3>1, SendMoves
  <2> QED  BY <1>5, <2>2, <2>3 DEF SendingEnds, ThGoto
<1>6. ASSUME NEW p \in Sweeper, Finishes(p) PROVE SendInv'
  <2>1. /\ th[p] \in Final /\ th' = [th EXCEPT ![p] = "idle"] /\ outcome' = th[p]
        /\ UNCHANGED <<taken, todo, failed, mails, report>>
    BY <1>6 DEF Finishes, ThGoto, vars, row
  <2>2. \A q \in Sweeper : /\ Acting(q)' => Acting(q)
                           /\ th'[q] # "idle" => th'[q] = th[q]
    BY <1>t, <2>1 DEF Acting
  <2>3. outcome' = "SENT" => report /\ \A a \in Recipient : mails[a] = 1
    BY <2>1 DEF SendInv
  <2> QED  BY <2>1, <2>2, <2>3 DEF SendInv, Unsent
<1>7. ASSUME Toggles \/ ScheduleTime PROVE SendInv'
  BY <1>7, <1>r, <1>t, SendMoves DEF Toggles, ScheduleTime
<1>8. ASSUME ScheduledJob PROVE SendInv'
  <2>1. UNCHANGED <<taken, todo, failed, mails, outcome>>
    BY <1>8 DEF ScheduledJob, ThreadOnly
  <2>2. \A q \in Sweeper : th'[q] = th[q] \/ (Acting(q) /\ th'[q] = "FAILED")
    BY <1>8, <1>t DEF ScheduledJob, Acting
  <2> QED  BY <1>r, <1>t, <2>1, <2>2, SendMoves
<1> QED  BY <1>1, <1>2, <1>3, <1>4, <1>5, <1>6, <1>7, <1>8 DEF ScheduleNext, Works

-----------------------------------------------------------------------------
(* The whole.                                                                 *)

\* The inductive invariant of job, requests and schedule together.
ReportsInv == IInv /\ ReportsTypeOK /\ RequestInv /\ SendInv

\* Whoever creates the job, it begins with nothing done.
LEMMA ReportsInvInit == ReportsInit => ReportsInv
<1> SUFFICES ASSUME ReportsInit PROVE ReportsInv
  OBVIOUS
<1>1. IInv /\ RequestTypeOK /\ ScheduleTypeOK /\ SendInv
  BY InitHolds, RequestTypeInit, ScheduleTypeInit, SendInit DEF ReportsInit
<1>2. RequestInv
  BY DEF ReportsInit, RequestInit, RequestInv, InFlight, Pending
<1> QED  BY <1>1, <1>2 DEF ReportsInv, ReportsTypeOK, IInv, ReportsInit

\* Requests do not touch the schedule's part, nor the scheduler the requests'.
LEMMA ReportsInvNext == ReportsInv /\ [ReportsNext]_allVars => ReportsInv'
<1> SUFFICES ASSUME ReportsInv, [ReportsNext]_allVars PROVE ReportsInv'
  OBVIOUS
<1>1. JobStep /\ IInv'
  BY ReportsStep, JobHolds DEF ReportsInv, IInv
<1>2. origin' \in {"user", "schedule"}
  BY DEF ReportsInv, ReportsTypeOK, ReportsNext, allVars
<1>3. ASSUME RequestNext, UNCHANGED scheduleVars
      PROVE  RequestTypeOK' /\ ScheduleTypeOK' /\ RequestInv' /\ SendInv'
  <2>1. RequestTypeOK' /\ ScheduleTypeOK' /\ RequestInv'
    BY <1>3, RequestTypeNext, ScheduleTypeNext, RequestKeeps DEF ReportsInv, ReportsTypeOK
  <2>2. report => report'
    BY <1>1, ReportStays
  <2> QED  BY <1>3, <2>1, <2>2 DEF scheduleVars, ReportsInv, SendInv, Acting, Unsent
<1>4. ASSUME ScheduleNext, UNCHANGED requestVars
      PROVE  RequestTypeOK' /\ ScheduleTypeOK' /\ RequestInv' /\ SendInv'
  <2>1. RequestTypeOK' /\ ScheduleTypeOK' /\ SendInv'
    BY <1>4, RequestTypeNext, ScheduleTypeNext, SendKeeps DEF ReportsInv, ReportsTypeOK
  <2>2. stalled => stalled'
    BY <1>1, StalledStays DEF JobStep, Interrupted, ReportsInv, IInv
  <2>3. ~stalled' /\ InFlight' => InFlight
    BY <1>1, <1>4, InFlightFades DEF requestVars, ReportsInv, ReportsTypeOK
  <2> QED  BY <1>4, <2>1, <2>2, <2>3 DEF requestVars, ReportsInv, RequestInv, Pending
<1>5. ASSUME UNCHANGED allVars
      PROVE  RequestTypeOK' /\ ScheduleTypeOK' /\ RequestInv' /\ SendInv'
  <2>1. UNCHANGED requestVars /\ UNCHANGED scheduleVars /\ UNCHANGED <<status, report, stalled>>
    BY <1>5 DEF allVars, vars, row
  <2>2. RequestTypeOK' /\ ScheduleTypeOK'
    BY <2>1, RequestTypeNext, ScheduleTypeNext DEF ReportsInv, ReportsTypeOK
  <2>3. RequestInv'
    BY <2>1 DEF requestVars, ReportsInv, RequestInv, InFlight, Pending
  <2>4. SendInv'
    BY <2>1 DEF scheduleVars, ReportsInv, SendInv, Acting, Unsent
  <2> QED  BY <2>2, <2>3, <2>4
<1>6. RequestTypeOK' /\ ScheduleTypeOK' /\ RequestInv' /\ SendInv'
  BY <1>3, <1>4, <1>5 DEF ReportsNext
<1> QED  BY <1>1, <1>2, <1>6 DEF ReportsInv, ReportsTypeOK, IInv

\* The invariant holds throughout.
LEMMA ReportsInvariant == ReportsSpec => []ReportsInv
BY ReportsInvInit, ReportsInvNext, PTL DEF ReportsSpec

\* The parts keep their types, and a job that is requeued by failures and sweeps
\* is claimed at most max_attempts times while runs end in time.
THEOREM JobsAreSoundAlways == ReportsSpec => []JobsAreSound
<1>1. ReportsInv => JobsAreSound
  BY DEF ReportsInv, IInv, Undisturbed, AttemptsLeft, AttemptsBounded, JobsAreSound
<1> QED  BY <1>1, ReportsInvariant, PTL

\* Requests that arrive together share one job: as long as the lock is waited for
\* and a job is looked for only when no insert is uncommitted (generate_report), no
\* second job is in flight, however many requests there are and whatever fails.
THEOREM RequestsShareAlways == ReportsSpec => []RequestsShare
<1>1. ReportsInv => RequestsShare
  BY DEF ReportsInv, RequestInv, RequestsShare
<1> QED  BY <1>1, ReportsInvariant, PTL

\* Nobody is mailed a period twice and SENT means that everybody was mailed its
\* report, however many processes' schedulers overlap, die or lose the lead.
THEOREM SentOnceAlways == ReportsSpec => []SentOnce
<1>1. ReportsInv => SentOnce
  BY DEF ReportsInv, SendInv, SentOnce
<1> QED  BY <1>1, ReportsInvariant, PTL

=============================================================================
