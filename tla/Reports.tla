------------------------------- MODULE Reports -------------------------------
(***************************************************************************)
(* The life of a report from its request to its end: a job is created       *)
(* either by users' requests (ReportRequests) or by a schedule              *)
(* (ReportSchedule), and is then run, retried and swept like any other       *)
(* (ReportJobs).  The requester of a scheduled job is the scheduler itself, *)
(* so the two ways never meet in one job.                                   *)
(***************************************************************************)
EXTENDS ReportRequests, ReportSchedule

VARIABLE origin  \* who creates the job

allVars == <<vars, requestVars, scheduleVars, origin>>

ReportsTypeOK ==
  TypeOK /\ RequestTypeOK /\ ScheduleTypeOK /\ origin \in {"user", "schedule"}

ReportsInit ==
  /\ Init /\ RequestInit /\ ScheduleInit
  /\ origin \in {"user", "schedule"}
  /\ origin = "user" => ~enabled

ReportsNext ==
  /\ \/ origin = "user" /\ RequestNext /\ UNCHANGED scheduleVars
     \/ origin = "schedule" /\ ScheduleNext /\ UNCHANGED requestVars
  /\ UNCHANGED origin

ReportsSpec == ReportsInit /\ [][ReportsNext]_allVars

Created == IF origin = "user" THEN rows > 0 ELSE made

\* Handlers, runs, the leader's sweeper and scheduler and time go on; a run that
\* nobody disturbs ends.
ReportsFair ==
  /\ ReportsSpec
  /\ \A r \in Requester : WF_allVars(origin = "user" /\ Handles(r) /\ UNCHANGED <<scheduleVars, origin>>)
  /\ \A p \in Sweeper : WF_allVars(origin = "schedule" /\ Works(p) /\ UNCHANGED <<requestVars, origin>>)
  /\ \A c \in Caller : WF_allVars(Created /\ Run(c) /\ UNCHANGED <<requestVars, scheduleVars, origin>>)
  /\ \A s \in Sweeper : WF_allVars(Created /\ Sweep(s) /\ UNCHANGED <<requestVars, scheduleVars, origin>>)
  /\ WF_allVars(/\ \/ origin = "user" /\ RequestTime /\ UNCHANGED scheduleVars
                   \/ origin = "schedule" /\ ScheduleTime /\ UNCHANGED requestVars
                /\ UNCHANGED origin)

-----------------------------------------------------------------------------
(* Properties.                                                               *)

\* The parts keep their shapes, and no job is tried more often than it may be.
JobsAreSound == ReportsTypeOK /\ AttemptsBounded

\* Every job ends in a report or a recorded failure, whoever dies or stalls; every
\* period of a schedule left enabled is taken, and unless its run died or the
\* database was away at its end, the outcome is recorded although the job may
\* outlast the wait.
FlowEnds ==
  /\ <>[](Created => status \in {"COMPLETE", "FAILED"})
  /\ <>[](origin = "schedule" /\ enabled => taken)
  /\ <>[](taken /\ ~lost => outcome \in Final)

=============================================================================
