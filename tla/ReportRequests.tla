---------------------------- MODULE ReportRequests ----------------------------
(***************************************************************************)
(* POST /api/reports/generate (app/api/reports.py): identical requests of   *)
(* one user arrive together, and are to share one job.  A named lock is     *)
(* meant to serialise looking for a job and inserting one; the insert is    *)
(* committed after the lock is released.  ReportJobs is the first job's     *)
(* row; of a second one only its existence matters.                         *)
(***************************************************************************)
EXTENDS ReportJobs

CONSTANTS
  Requester,      \* requests under way
  InflightAfter,  \* _INFLIGHT_MAX_MINUTES, in ticks
  RecentAfter     \* _RECENT_COMPLETE_SECONDS, in ticks

ASSUME RequestAssumption ==
  /\ InflightAfter \in Nat \ {0}
  /\ RecentAfter \in 0..InflightAfter

NoOne == "no one"

ASSUME NoOneAssumption == NoOne \notin Requester

VARIABLES
  rq,     \* what each request is doing
  lock,   \* who holds the named lock
  rows,   \* committed jobs for these requests
  born,   \* ticks since the first was created
  raced   \* a job was looked for past the lock, or before an insert was committed (history)

requestVars == <<rq, lock, rows, born, raced>>

RequestTypeOK ==
  /\ rq \in [Requester -> {"idle", "lock", "insert", "commit", "answered"}]
  /\ lock \in Requester \cup {NoOne}
  /\ rows \in Nat
  /\ born \in 0..InflightAfter
  /\ raced \in BOOLEAN

RequestInit ==
  /\ rq = [r \in Requester |-> "idle"]
  /\ lock = NoOne /\ rows = 0 /\ born = 0
  /\ raced = FALSE

RqGoto(r, to) == rq' = [rq EXCEPT ![r] = to]

\* The request arrives, and waits for the lock.
Arrives(r) ==
  /\ rq[r] = "idle"
  /\ RqGoto(r, "lock")
  /\ UNCHANGED <<lock, rows, born, raced, vars>>

\* Mutant: jobs that wait to be run are not looked for.
ReusableIfProcessing ==
  /\ rows > 0
  /\ \/ status = "PROCESSING" /\ born < InflightAfter
     \/ status = "COMPLETE" /\ born < RecentAfter

\* _find_duplicate_job: under way and not too old, or completed and young.
Reusable ==
  /\ rows > 0
  /\ \/ status \in {"QUEUED", "PROCESSING"} /\ born < InflightAfter
     \/ status = "COMPLETE" /\ born < RecentAfter

\* GET_LOCK(name, 3), whose result is read and ignored: the lock is free, or the
\* wait times out.  With it or without it a job is looked for; one that is found is
\* the answer.
Looks(r, got) ==
  /\ rq[r] = "lock"
  /\ IF got THEN lock = NoOne ELSE lock # NoOne /\ Fault
  /\ RqGoto(r, IF Reusable THEN "answered" ELSE "insert")
  /\ lock' = IF got /\ ~Reusable THEN r ELSE lock
  /\ raced' = (raced \/ ~got \/ \E q \in Requester : rq[q] = "commit")
  /\ UNCHANGED <<rows, born, row, pc, held, leader, stalled>>
  /\ got => UNCHANGED faults

\* INSERT, and RELEASE_LOCK in the finally block.
InsertsAndReleases(r) ==
  /\ rq[r] = "insert"
  /\ RqGoto(r, "commit")
  /\ lock' = IF lock = r THEN NoOne ELSE lock
  /\ UNCHANGED <<rows, born, raced, vars>>

\* The with block ends: the insert is committed, and the background task added.
Commits(r) ==
  /\ rq[r] = "commit"
  /\ RqGoto(r, "answered")
  /\ rows' = rows + 1
  /\ UNCHANGED <<lock, born, raced, vars>>

\* The handler fails or its process dies: rolled back, the lock freed.
HandlerDies(r) ==
  /\ rq[r] \in {"lock", "insert", "commit"} /\ Fault
  /\ RqGoto(r, "idle")
  /\ lock' = IF lock = r THEN NoOne ELSE lock
  /\ UNCHANGED <<rows, born, raced, row, pc, held, leader, stalled>>

\* What happens to a job that exists.
RequestedJob ==
  /\ rows > 0
  /\ \/ \E c \in Caller : Run(c) \/ RunDies(c)
     \/ \E s \in Sweeper : Sweep(s)
     \/ LeaderChanges
  /\ UNCHANGED requestVars

RequestTime ==
  /\ rows > 0
  /\ \/ Tick
     \/ age = StuckAfter /\ born < InflightAfter /\ ~Sweeping /\ UNCHANGED vars
  /\ born' = IF born < InflightAfter THEN born + 1 ELSE born
  /\ UNCHANGED <<rq, lock, rows, raced>>

Handles(r) == Looks(r, TRUE) \/ InsertsAndReleases(r) \/ Commits(r)

RequestNext ==
  \/ \E r \in Requester : Arrives(r) \/ Handles(r) \/ Looks(r, FALSE) \/ HandlerDies(r)
  \/ RequestedJob \/ RequestTime

-----------------------------------------------------------------------------
(* Properties.                                                               *)

InFlight == rows > 0 /\ status \in {"QUEUED", "PROCESSING"} /\ born < InflightAfter

\* Requests that do not race, and a run that ends in time: while a job is in
\* flight no second one exists, whatever handler, run or leader fails.
RequestsShare == raced \/ stalled \/ (InFlight => rows = 1)

=============================================================================
