---------------------------- MODULE ReportSchedule ----------------------------
(***************************************************************************)
(* The report scheduler (app/reports/scheduler.py) and one schedule whose   *)
(* period is owed.  The thread of the leading process reads the schedules,  *)
(* claims the period, creates the job and runs it as its first caller, waits *)
(* for a final status, and mails the report to each recipient.  Leadership  *)
(* moves while a pass is under way, and the old thread goes on.             *)
(***************************************************************************)
EXTENDS ReportJobs, FiniteSets

CONSTANTS
  Recipient,  \* addresses of the schedule's list
  WaitFor     \* _WAIT_MINUTES, in ticks

ASSUME ScheduleAssumption == IsFiniteSet(Recipient) /\ Recipient # {} /\ WaitFor \in Nat \ {0}

VARIABLES
  enabled,  \* report_schedules.enabled
  taken,    \* last_period_end covers the period
  outcome,  \* last_status
  made,     \* the job exists
  th,       \* what each process's scheduler thread is doing
  todo,     \* recipients the report is still to be mailed to
  failed,   \* recipients whose mail was refused
  mails,    \* mails each recipient was sent
  waited,   \* ticks of waiting for the job
  lost      \* the run died, or its outcome could not be recorded (history)

scheduleVars == <<enabled, taken, outcome, made, th, todo, failed, mails, waited, lost>>

Final == {"SENT", "PARTIAL", "FAILED", "SKIPPED"}

ScheduleTypeOK ==
  /\ enabled \in BOOLEAN /\ taken \in BOOLEAN /\ made \in BOOLEAN /\ lost \in BOOLEAN
  /\ outcome \in {"none", "RUNNING"} \cup Final
  /\ th \in [Sweeper -> {"idle", "due", "claimed", "waiting", "sending"} \cup Final]
  /\ todo \subseteq Recipient /\ failed \subseteq Recipient
  /\ mails \in [Recipient -> Nat]
  /\ waited \in 0..WaitFor

ScheduleInit ==
  /\ enabled \in BOOLEAN
  /\ taken = FALSE /\ outcome = "none" /\ made = FALSE
  /\ th = [p \in Sweeper |-> "idle"]
  /\ todo = {} /\ failed = {}
  /\ mails = [a \in Recipient |-> 0]
  /\ waited = 0 /\ lost = FALSE

ThGoto(p, to) == th' = [th EXCEPT ![p] = to]
ThreadOnly == UNCHANGED <<enabled, taken, outcome, made, todo, failed, mails, waited, lost>>

\* tick: the enabled schedules are read, and due() finds the period owed.
TickReads(p) ==
  /\ leader = p /\ th[p] = "idle"
  /\ enabled /\ ~taken
  /\ ThGoto(p, "due")
  /\ ThreadOnly /\ UNCHANGED vars

\* Mutant: the claim does not compare last_period_end with what was read.
ClaimsAnyway(p) ==
  /\ th[p] = "due"
  /\ taken' = TRUE /\ outcome' = "RUNNING"
  /\ ThGoto(p, "claimed")
  /\ UNCHANGED <<enabled, made, todo, failed, mails, waited, lost, vars>>

\* _claim: where last_period_end is still what was read.
Claims(p) ==
  /\ th[p] = "due"
  /\ IF taken THEN ThGoto(p, "idle") /\ UNCHANGED <<taken, outcome>>
     ELSE ThGoto(p, "claimed") /\ taken' = TRUE /\ outcome' = "RUNNING"
  /\ UNCHANGED <<enabled, made, todo, failed, mails, waited, lost, vars>>

\* execute: nobody to send to, or reports or mail are switched off.
CannotSend(p) ==
  /\ th[p] = "claimed"
  /\ \E o \in {"FAILED", "SKIPPED"} : ThGoto(p, o)
  /\ ThreadOnly /\ UNCHANGED vars

\* The job is created, and run_job called in this thread.  The claim lets only one
\* thread come here.
CreatesJob(p) ==
  /\ th[p] = "claimed"
  /\ made' = TRUE
  /\ ThGoto(p, "waiting")
  /\ UNCHANGED <<enabled, taken, outcome, todo, failed, mails, waited, lost, vars>>

\* run_job has returned, and _wait_for_report finds the job at an end or the wait
\* too long.
Polls(p) ==
  /\ th[p] = "waiting" /\ pc[Request] = "idle"
  /\ \/ status = "COMPLETE" /\ ThGoto(p, "sending") /\ todo' = Recipient
     \/ /\ status # "COMPLETE" /\ (status = "FAILED" \/ waited = WaitFor)
        /\ ThGoto(p, "FAILED") /\ UNCHANGED todo
  /\ UNCHANGED <<enabled, taken, outcome, made, failed, mails, waited, lost, vars>>

\* The report cannot be read back, or anything else raises before the first mail.
Raises(p) ==
  /\ th[p] \in {"claimed", "waiting"} /\ pc[Request] # "running" /\ Fault
  /\ ThGoto(p, "FAILED")
  /\ pc' = [pc EXCEPT ![Request] = IF made THEN "idle" ELSE @]
  /\ ThreadOnly /\ UNCHANGED <<row, held, leader, stalled>>

\* One message to each recipient; the server may refuse it.
Sends(p, a) ==
  /\ th[p] = "sending" /\ a \in todo
  /\ todo' = todo \ {a}
  /\ \/ mails' = [mails EXCEPT ![a] = @ + 1] /\ UNCHANGED <<failed, faults>>
     \/ Fault /\ failed' = failed \cup {a} /\ UNCHANGED mails
  /\ UNCHANGED <<th, enabled, taken, outcome, made, waited, lost, row, pc, held, leader, stalled>>

SendingEnds(p) ==
  /\ th[p] = "sending" /\ todo = {}
  /\ ThGoto(p, IF failed = {} THEN "SENT" ELSE IF failed = Recipient THEN "FAILED" ELSE "PARTIAL")
  /\ ThreadOnly /\ UNCHANGED vars

\* _finish, which never raises.
Finishes(p) ==
  /\ th[p] \in Final
  /\ ThGoto(p, "idle")
  /\ outcome' = th[p]
  /\ UNCHANGED <<enabled, taken, made, todo, failed, mails, waited, lost, vars>>

FinishFails(p) ==
  /\ th[p] \in Final /\ Fault
  /\ ThGoto(p, "idle")
  /\ lost' = TRUE
  /\ UNCHANGED <<enabled, taken, outcome, made, todo, failed, mails, waited, row, pc, held, leader, stalled>>

\* The process dies, and with it the run it may be in.
ProcessDies(p) ==
  /\ th[p] # "idle" /\ Fault
  /\ ThGoto(p, "idle")
  /\ lost' = (lost \/ th[p] # "due")
  /\ pc' = [pc EXCEPT ![p] = "idle", ![Request] = IF th[p] = "waiting" THEN "idle" ELSE @]
  /\ UNCHANGED <<enabled, taken, outcome, made, todo, failed, mails, waited, row, held, leader, stalled>>

\* A user switches the schedule on or off.
Toggles ==
  /\ Fault
  /\ enabled' = ~enabled
  /\ UNCHANGED <<taken, outcome, made, th, todo, failed, mails, waited, lost, row, pc, held, leader, stalled>>

\* What happens to the job; run_job raises when the failure cannot be recorded.
ScheduledJob ==
  /\ \/ /\ made
        /\ \/ \E c \in Caller : Run(c)
           \/ \E s \in Sweeper : RunDies(s) \/ Sweep(s)
        /\ UNCHANGED th
     \/ /\ made /\ RunDies(Request)
        /\ th' = [p \in Sweeper |-> IF th[p] = "waiting" THEN "FAILED" ELSE th[p]]
     \/ LeaderChanges /\ UNCHANGED th
  /\ ThreadOnly

ScheduleTime ==
  /\ made
  /\ \/ Tick
     \/ age = StuckAfter /\ waited < WaitFor /\ ~Sweeping /\ UNCHANGED vars
  /\ waited' = IF waited < WaitFor /\ pc[Request] = "idle" THEN waited + 1 ELSE waited
  /\ UNCHANGED <<enabled, taken, outcome, made, th, todo, failed, mails, lost>>

Works(p) ==
  \/ TickReads(p) \/ Claims(p) \/ CannotSend(p) \/ CreatesJob(p) \/ Polls(p)
  \/ SendingEnds(p) \/ Finishes(p) \/ \E a \in Recipient : Sends(p, a)

ScheduleNext ==
  \/ \E p \in Sweeper : Works(p) \/ Raises(p) \/ FinishFails(p) \/ ProcessDies(p)
  \/ Toggles \/ ScheduledJob \/ ScheduleTime

-----------------------------------------------------------------------------
(* Properties.                                                               *)

\* scheduler.py:8: "so a period is sent once even if two instances ever raced".
\* Nobody is mailed the period twice, and SENT means that everybody was mailed.
SentOnce ==
  /\ \A a \in Recipient : mails[a] <= 1
  /\ outcome = "SENT" => report /\ \A a \in Recipient : mails[a] = 1

=============================================================================
