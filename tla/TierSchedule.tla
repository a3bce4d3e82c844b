----------------------------- MODULE TierSchedule -----------------------------
(***************************************************************************)
(* When the tiers of collector/scheduler.py run.  run_loop wakes for the      *)
(* critical tick or the next point of the standard tier's grid, and runs what *)
(* is due: the critical tier, the standard tier on its grid, the extended     *)
(* tier and, once a day, the slow-extended one with the refresh of the model  *)
(* on their anchors.  A new process starts from the completions the old ones  *)
(* recorded.                                                                  *)
(***************************************************************************)
EXTENDS Naturals, Sequences

CONSTANTS
  Critical, Standard, Extended, SlowExtended,  \* the tiers' intervals
  Phase, Gap,  \* STANDARD_PHASE_SECONDS, less than Standard, and STANDARD_MIN_GAP_SECONDS
  Duration,    \* how long a tier, the refresh, or a start of the process may take
  Start,       \* when the first process starts: time is counted from an epoch long ago
  MaxTime,     \* bound on time
  MaxFaults    \* bound on failed runs, failed queries and restarts

VARIABLES
  now,
  loop,    \* run_loop: where it is, until when, and its locals
  saved,   \* the last completion of each tier in op_events, 0 for none
  starts,  \* history: up to three starts of each tier that no restart has lost sight of
  faults

vars == <<now, loop, saved, starts, faults>>

Tier == {"standard", "extended", "slow_extended"}
LoopPc == {"sleeping", "standard", "collecting", "extended", "extending", "slow", "slowing",
           "ending"}

TypeOK ==
  /\ now \in Start..MaxTime
  /\ loop \in [pc: LoopPc, until: Nat, now0: 0..now, started: 0..now,
               lastStandard: 0..now, lastExtended: 0..now, lastSlow: 0..now,
               nextCritical: 0..now + Critical]
  /\ saved \in [Tier -> 0..now]
  /\ \A t \in Tier : starts[t] \in Seq(0..now) /\ Len(starts[t]) <= 3
  /\ faults \in 0..MaxFaults

\* A process that has just been started, with the seeds of its tiers.
LoopFrom(seed, at) ==
  [pc |-> "sleeping", until |-> at, now0 |-> 0, started |-> 0, nextCritical |-> 0,
   lastStandard |-> seed["standard"], lastExtended |-> seed["extended"],
   lastSlow |-> seed["slow_extended"]]

Init ==
  /\ now = Start
  /\ saved = [t \in Tier |-> 0]
  /\ loop = LoopFrom(saved, Start)
  /\ starts = [t \in Tier |-> <<>>]
  /\ faults = 0

Fault == faults < MaxFaults /\ faults' = faults + 1

-----------------------------------------------------------------------------
(* The times.                                                                *)

\* _standard_due_at
DueAt(last) ==
  IF last = 0 THEN 0
  ELSE LET earliest == last + Gap
           point == (earliest \div Standard) * Standard + Phase
       IN IF point >= earliest THEN point ELSE point + Standard

\* Mutant: always one interval on, however far behind.
AnchorNeverJumps(last, t, interval) == last + interval

\* _next_anchor, for a tier that is due
NextAnchor(last, t, interval) ==
  IF t - (last + interval) < interval THEN last + interval ELSE t

Ran(t, at) == [starts EXCEPT ![t] = IF Len(@) < 3 THEN Append(@, at) ELSE Append(Tail(@), at)]

-----------------------------------------------------------------------------
(* run_loop.                                                                 *)

At(pc) == loop.pc = pc /\ loop.until <= now

\* The critical tick comes with the evaluation, the probes and the watchdog.
Wakes ==
  /\ At("sleeping")
  /\ IF now >= loop.nextCritical
     THEN \E d \in Duration :
            loop' = [loop EXCEPT !.pc = "standard", !.now0 = now, !.until = now + d,
                                 !.nextCritical = now + Critical]
     ELSE loop' = [loop EXCEPT !.pc = "standard", !.now0 = now]
  /\ UNCHANGED <<now, saved, starts, faults>>

StandardStarts ==
  /\ At("standard") /\ now >= DueAt(loop.lastStandard)
  /\ \E d \in Duration :
       loop' = [loop EXCEPT !.pc = "collecting", !.started = now, !.until = now + d]
  /\ starts' = Ran("standard", now)
  /\ UNCHANGED <<now, saved, faults>>

StandardNotDue ==
  /\ At("standard") /\ now < DueAt(loop.lastStandard)
  /\ loop' = [loop EXCEPT !.pc = "extended"]
  /\ UNCHANGED <<now, saved, starts, faults>>

\* Only a success is recorded.
Recorded(t) == \/ saved' = [saved EXCEPT ![t] = now] /\ UNCHANGED faults
               \/ Fault /\ UNCHANGED saved

StandardEnds ==
  /\ At("collecting")
  /\ Recorded("standard")
  /\ loop' = [loop EXCEPT !.pc = "extended", !.lastStandard = loop.started, !.started = 0]
  /\ UNCHANGED <<now, starts>>

\* now is the time at which the iteration began.
ExtendedStarts ==
  /\ At("extended") /\ loop.now0 >= loop.lastExtended + Extended
  /\ \E d \in Duration : loop' = [loop EXCEPT !.pc = "extending", !.until = now + d]
  /\ starts' = Ran("extended", loop.now0)
  /\ UNCHANGED <<now, saved, faults>>

ExtendedNotDue ==
  /\ At("extended") /\ loop.now0 < loop.lastExtended + Extended
  /\ loop' = [loop EXCEPT !.pc = "slow"]
  /\ UNCHANGED <<now, saved, starts, faults>>

ExtendedEnds ==
  /\ At("extending")
  /\ Recorded("extended")
  /\ loop' = [loop EXCEPT !.pc = "slow",
                          !.lastExtended = NextAnchor(@, loop.now0, Extended)]
  /\ UNCHANGED <<now, starts>>

SlowStarts ==
  /\ At("slow") /\ loop.now0 >= loop.lastSlow + SlowExtended
  /\ \E d \in Duration : loop' = [loop EXCEPT !.pc = "slowing", !.until = now + d]
  /\ starts' = Ran("slow_extended", loop.now0)
  /\ UNCHANGED <<now, saved, faults>>

SlowNotDue ==
  /\ At("slow") /\ loop.now0 < loop.lastSlow + SlowExtended
  /\ loop' = [loop EXCEPT !.pc = "ending"]
  /\ UNCHANGED <<now, saved, starts, faults>>

\* refresh_ollama_model, whose failure changes nothing, comes before the end of the iteration.
SlowEnds ==
  /\ At("slowing")
  /\ Recorded("slow_extended")
  /\ \E d \in Duration :
       loop' = [loop EXCEPT !.pc = "ending", !.until = now + d,
                            !.lastSlow = NextAnchor(@, loop.now0, SlowExtended)]
  /\ UNCHANGED <<now, starts>>

\* Whichever comes first, the critical tick or the grid point.
Sleeps ==
  /\ At("ending")
  /\ LET due == DueAt(loop.lastStandard)
         first == IF due < loop.nextCritical THEN due ELSE loop.nextCritical
     IN loop' = [loop EXCEPT !.pc = "sleeping", !.now0 = 0,
                             !.until = IF first > now THEN first ELSE now]
  /\ UNCHANGED <<now, saved, starts, faults>>

-----------------------------------------------------------------------------
(* Restarts, changes of leader and time.                                     *)

\* Every tier counts as never run.
NothingKnown == [t \in Tier |-> 0]

\* _load_last_run_times
Seeds == [t \in Tier |-> IF saved[t] > now THEN now ELSE saved[t]]

\* What the new process cannot know of: a run that was not recorded.
Unseen(t) == starts[t] # <<>> /\ saved[t] < starts[t][Len(starts[t])]

Restarts ==
  /\ Fault
  /\ \E d \in Duration : loop' = LoopFrom(Seeds, now + d)
  /\ starts' = [t \in Tier |-> IF Unseen(t) THEN <<>> ELSE starts[t]]
  /\ UNCHANGED <<now, saved>>

\* The query fails: every tier counts as never run.
RestartsBlind ==
  /\ Fault
  /\ \E d \in Duration : loop' = LoopFrom(NothingKnown, now + d)
  /\ starts' = [t \in Tier |-> <<>>]
  /\ UNCHANGED <<now, saved>>

\* To the moment at which the loop goes on.
Passes ==
  /\ loop.until \in now + 1..MaxTime
  /\ now' = loop.until
  /\ UNCHANGED <<loop, saved, starts, faults>>

-----------------------------------------------------------------------------
Next ==
  \/ Wakes \/ StandardStarts \/ StandardNotDue \/ StandardEnds
  \/ ExtendedStarts \/ ExtendedNotDue \/ ExtendedEnds
  \/ SlowStarts \/ SlowNotDue \/ SlowEnds \/ Sleeps
  \/ Restarts \/ RestartsBlind \/ Passes

Spec == Init /\ [][Next]_vars

-----------------------------------------------------------------------------
(* Properties.                                                               *)

\* The slot of the grid a time lies in.
Slot(t) == (t + Standard - Phase) \div Standard

\* "At most one run per grid slot", and never sooner than the gap after the one before,
\* whatever fails or is restarted in between.
StandardIsSpaced ==
  \A i \in DOMAIN starts["standard"] \ {1} :
    LET a == starts["standard"][i - 1]  b == starts["standard"][i]
    IN b >= a + Gap /\ Slot(b) > Slot(a)

\* "the tier never fires a catch-up burst": a late run of an anchored tier may be followed
\* early by one, and then a whole interval has passed since.
Interval(t) == IF t = "extended" THEN Extended ELSE SlowExtended
OneCatchUp ==
  \A t \in Tier \ {"standard"} : Len(starts[t]) = 3 => starts[t][3] >= starts[t][1] + Interval(t)

Longest == CHOOSE d \in Duration : \A e \in Duration : e <= d

\* The standard tier waits for its next grid point or for its own end, whichever is later, and
\* for what one iteration may run before it looks again: the extended tier, the daily one, the
\* refresh and the critical tick; a restart costs its start and what it cut short.
Wait == IF Longest > Gap + Standard THEN Longest ELSE Gap + Standard
StandardIsOnTime ==
  starts["standard"] # <<>> =>
    now <= starts["standard"][Len(starts["standard"])] + Wait + (4 + 2 * faults) * Longest

=============================================================================
