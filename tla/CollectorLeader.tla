---------------------------- MODULE CollectorLeader ----------------------------
(***************************************************************************)
(* Leader election for the collector threads: app/collector/leader.py, the *)
(* loops that app/main.py starts under it, and the leadership checks of    *)
(* app/collector/scheduler.py.                                             *)
(*                                                                         *)
(* Every uvicorn worker polls for one MySQL named lock.  The lock belongs  *)
(* to a session, so it is released whenever the server drops the session,  *)
(* whether or not the client has noticed.  The worker that wins creates a  *)
(* fresh threading.Event (a generation), starts the collector loops with   *)
(* it, and from then on re-confirms at every poll that its own connection  *)
(* is the holder.                                                          *)
(***************************************************************************)
EXTENDS Naturals

CONSTANTS
  Worker,       \* uvicorn worker processes
  Conn,         \* connections to MySQL, reused once both ends have forgotten them
  Gen,          \* threading.Event objects: one per leadership generation
  DirectLoop,   \* loops start_fn starts besides the tier loop (describe, sweeper...)
  SpawnedLoop,  \* loops run_loop itself starts (discovery, low tier)
  MaxFaults,    \* bound on failures of links, sessions, processes and thread starts
  NoConn, NoGen, NoWorker

ASSUME FaultsAssumption == MaxFaults \in Nat
ASSUME NullAssumption == NoConn \notin Conn /\ NoGen \notin Gen /\ NoWorker \notin Worker
ASSUME LoopAssumption == "tier" \notin DirectLoop \cup SpawnedLoop

VARIABLES
  conn,     \* conn[w]: the connection the poll loop of w keeps
  started,  \* started[w]
  event,    \* event[w]: leader_event
  phase,    \* phase[w]: "poll", or "starting" while start_fn runs
  session,  \* session[c]: what the two ends of c know of each other
  holder,   \* the connection that holds the named lock
  flag,     \* flag[g]: "new", then "set", then "clear"
  owner,    \* owner[g]: the process generation g lives in
  pc,       \* pc[g][l]: where loop l of generation g is
  extra,    \* extra[g][l]: steps l began after its event was cleared (history)
  faults

lockVars == <<session, holder>>
workerVars == <<conn, started, event, phase>>
genVars == <<flag, owner>>
loopVars == <<pc, extra>>
vars == <<workerVars, lockVars, genVars, loopVars, faults>>

Loop == {"tier"} \cup DirectLoop \cup SpawnedLoop

TierStep == {"critical", "p1_alerts", "synthetic", "maintenance", "watchdog",
             "cost_jump", "standard", "extended", "slow_extended", "upkeep"}

\* What one iteration of run_loop may do next: the two-minute block is skipped
\* when it is not due, and so is each of the three slower tiers.
Follows == [s \in TierStep \cup {"top"} |->
  CASE s = "top"         -> {"critical", "standard", "extended", "slow_extended", "upkeep"}
    [] s = "critical"    -> {"p1_alerts"}
    [] s = "p1_alerts"   -> {"synthetic"}
    [] s = "synthetic"   -> {"maintenance"}
    [] s = "maintenance" -> {"watchdog"}
    [] s = "watchdog"    -> {"cost_jump"}
    [] s = "cost_jump"   -> {"standard", "extended", "slow_extended", "upkeep"}
    [] s = "standard"    -> {"extended", "slow_extended", "upkeep"}
    [] s = "extended"    -> {"slow_extended", "upkeep"}
    [] s = "slow_extended" -> {"upkeep"}
    [] s = "upkeep"      -> {"top"}]

\* The steps after which run_loop does not look at the event again before it
\* goes on: run_once("critical") is followed at once by evaluate_alerts, and the
\* slow tier by the flush of the usage counters and the cost refresh.
Ungated == {"critical", "slow_extended"}

Working == TierStep \cup {"step"}

Places == {"none", "boot", "top", "exited", "crashed"} \cup Working

TypeOK ==
  /\ conn \in [Worker -> Conn \cup {NoConn}]
  /\ started \in [Worker -> BOOLEAN]
  /\ event \in [Worker -> Gen \cup {NoGen}]
  /\ phase \in [Worker -> {"poll", "starting"}]
  /\ session \in [Conn -> {"free", "up", "halfopen", "lost"}]
  /\ holder \in Conn \cup {NoConn}
  /\ flag \in [Gen -> {"new", "set", "clear"}]
  /\ owner \in [Gen -> Worker \cup {NoWorker}]
  /\ pc \in [Gen -> [Loop -> Places]]
  /\ extra \in [Gen -> [Loop -> Nat]]
  /\ faults \in 0..MaxFaults

Init ==
  /\ conn = [w \in Worker |-> NoConn]
  /\ started = [w \in Worker |-> FALSE]
  /\ event = [w \in Worker |-> NoGen]
  /\ phase = [w \in Worker |-> "poll"]
  /\ session = [c \in Conn |-> "free"]
  /\ holder = NoConn
  /\ flag = [g \in Gen |-> "new"]
  /\ owner = [g \in Gen |-> NoWorker]
  /\ pc = [g \in Gen |-> [l \in Loop |-> "none"]]
  /\ extra = [g \in Gen |-> [l \in Loop |-> 0]]
  /\ faults = 0

-----------------------------------------------------------------------------
(* MySQL sessions (external): GET_LOCK is released with its session.         *)

Alive(c) == session[c] \in {"up", "halfopen"}

\* conn.close() on the pooled connection: the session reset releases the lock
\* when it reaches the server; a half-open session lives on until it is reaped.
Close(c) ==
  /\ session' = [session EXCEPT ![c] = IF @ = "halfopen" THEN @ ELSE "free"]
  /\ holder' = IF session[c] # "halfopen" /\ holder = c THEN NoConn ELSE holder

Fault == faults < MaxFaults /\ faults' = faults + 1

\* The link goes silent: the server keeps the session, the client cannot use it.
LinkBreaks(c) ==
  /\ Fault
  /\ session[c] = "up"
  /\ session' = [session EXCEPT ![c] = "halfopen"]
  /\ UNCHANGED <<workerVars, holder, genVars, loopVars>>

\* The server drops a session the client believes in (wait_timeout, a KILL).
ServerDrops(c) ==
  /\ Fault
  /\ session[c] = "up"
  /\ session' = [session EXCEPT ![c] = "lost"]
  /\ holder' = IF holder = c THEN NoConn ELSE holder
  /\ UNCHANGED <<workerVars, genVars, loopVars>>

\* The server gives up on a half-open session.
ServerReaps(c) ==
  /\ session[c] = "halfopen"
  /\ session' = [session EXCEPT ![c] = IF \E w \in Worker : conn[w] = c
                                       THEN "lost" ELSE "free"]
  /\ holder' = IF holder = c THEN NoConn ELSE holder
  /\ UNCHANGED <<workerVars, genVars, loopVars, faults>>

-----------------------------------------------------------------------------
(* The poll loop of run_when_leader.                                         *)

\* get_connection() hands out a live connection (the pool replaces dead ones).
Connect(w) ==
  /\ conn[w] = NoConn
  /\ \E c \in Conn :
       /\ session[c] = "free"
       /\ session' = [session EXCEPT ![c] = "up"]
       /\ conn' = [conn EXCEPT ![w] = c]
  /\ UNCHANGED <<started, event, phase, holder, genVars, loopVars, faults>>

\* Mutant: the Event is created once per process and used again.
AcquireWithOldEvent(w) ==
  /\ conn[w] # NoConn /\ ~started[w] /\ session[conn[w]] = "up" /\ holder = NoConn
  /\ \E g \in Gen :
       /\ flag[g] = "new" \/ owner[g] = w
       /\ flag' = [flag EXCEPT ![g] = "set"]
       /\ owner' = [owner EXCEPT ![g] = w]
       /\ event' = [event EXCEPT ![w] = g]
  /\ holder' = conn[w]
  /\ started' = [started EXCEPT ![w] = TRUE]
  /\ phase' = [phase EXCEPT ![w] = "starting"]
  /\ UNCHANGED <<conn, session, loopVars, faults>>

\* GET_LOCK(name, 0) returned 1: a fresh Event, already set.
Acquire(w) ==
  /\ conn[w] # NoConn
  /\ ~started[w]
  /\ session[conn[w]] = "up"
  /\ holder = NoConn
  /\ \E g \in Gen :
       /\ flag[g] = "new"
       /\ flag' = [flag EXCEPT ![g] = "set"]
       /\ owner' = [owner EXCEPT ![g] = w]
       /\ event' = [event EXCEPT ![w] = g]
  /\ holder' = conn[w]
  /\ started' = [started EXCEPT ![w] = TRUE]
  /\ phase' = [phase EXCEPT ![w] = "starting"]
  /\ UNCHANGED <<conn, session, loopVars, faults>>

\* start_fn is between thread starts; LS of its loops are running.
Launch(g, LS) ==
  pc' = [pc EXCEPT ![g] = [l \in Loop |->
           IF l \notin LS THEN @[l] ELSE IF l = "tier" THEN "boot" ELSE "top"]]

StartFn(w) ==
  /\ phase[w] = "starting"
  /\ Launch(event[w], {"tier"} \cup DirectLoop)
  /\ phase' = [phase EXCEPT ![w] = "poll"]
  /\ UNCHANGED <<conn, started, event, lockVars, genVars, extra, faults>>

\* Mutant: the event is not cleared (before 2026-09-12).
GiveUpWithoutClear(w) ==
  /\ event' = [event EXCEPT ![w] = NoGen]
  /\ Close(conn[w])
  /\ conn' = [conn EXCEPT ![w] = NoConn]
  /\ started' = [started EXCEPT ![w] = FALSE]
  /\ phase' = [phase EXCEPT ![w] = "poll"]
  /\ UNCHANGED <<flag, owner, extra>>

\* The except block: clear the event, close the connection, start over.
GiveUp(w) ==
  /\ flag' = IF event[w] = NoGen THEN flag ELSE [flag EXCEPT ![event[w]] = "clear"]
  /\ event' = [event EXCEPT ![w] = NoGen]
  /\ Close(conn[w])
  /\ conn' = [conn EXCEPT ![w] = NoConn]
  /\ started' = [started EXCEPT ![w] = FALSE]
  /\ phase' = [phase EXCEPT ![w] = "poll"]
  /\ UNCHANGED <<owner, extra>>

\* start_fn raises part of the way through (a thread cannot be started).
StartFnRaises(w) ==
  /\ Fault
  /\ phase[w] = "starting"
  /\ \E LS \in SUBSET ({"tier"} \cup DirectLoop) : Launch(event[w], LS)
  /\ GiveUp(w)

\* The poll's query raises, or IS_USED_LOCK names another connection.
PollFails(w) ==
  /\ phase[w] = "poll"
  /\ conn[w] # NoConn
  /\ \/ session[conn[w]] # "up"
     \/ started[w] /\ holder # conn[w]
  /\ GiveUp(w)
  /\ UNCHANGED <<pc, faults>>

\* The process dies with all its threads, and uvicorn starts it again.  The
\* server learns of it at once, or (the host is gone) only when it reaps.
WorkerDies(w) ==
  /\ Fault
  /\ pc' = [g \in Gen |-> IF owner[g] = w THEN [l \in Loop |-> "exited"] ELSE pc[g]]
  /\ flag' = [g \in Gen |-> IF owner[g] = w THEN "clear" ELSE flag[g]]
  /\ event' = [event EXCEPT ![w] = NoGen]
  /\ started' = [started EXCEPT ![w] = FALSE]
  /\ phase' = [phase EXCEPT ![w] = "poll"]
  /\ conn' = [conn EXCEPT ![w] = NoConn]
  /\ \/ conn[w] = NoConn /\ UNCHANGED lockVars
     \/ conn[w] # NoConn /\ Close(conn[w])
     \/ /\ conn[w] # NoConn
        /\ session[conn[w]] = "up"
        /\ session' = [session EXCEPT ![conn[w]] = "halfopen"]
        /\ UNCHANGED holder
  /\ UNCHANGED <<owner, extra>>

-----------------------------------------------------------------------------
(* The loops of one generation.                                              *)

IsSet(g) == flag[g] = "set"

\* Loop l of g enters s; a step it begins with the event cleared is counted.
Goto(g, l, s) ==
  /\ pc' = [pc EXCEPT ![g][l] = s]
  /\ extra' = IF s \in Working /\ ~IsSet(g)
              THEN [extra EXCEPT ![g][l] = @ + 1] ELSE extra
  /\ UNCHANGED <<workerVars, lockVars, genVars, faults>>

\* run_loop starts the discovery and low-tier threads before its first check.
TierBoot(g) ==
  /\ pc[g]["tier"] = "boot"
  /\ pc' = [pc EXCEPT ![g] = [l \in Loop |->
              IF l \in {"tier"} \cup SpawnedLoop THEN "top" ELSE @[l]]]
  /\ UNCHANGED <<workerVars, lockVars, genVars, extra, faults>>

\* One of the two threads cannot be started: run_loop raises, and _run_collector logs it
\* and ends.  What was started goes on.
TierBootRaises(g) ==
  /\ Fault
  /\ pc[g]["tier"] = "boot"
  /\ \E LS \in SUBSET SpawnedLoop :
       pc' = [pc EXCEPT ![g] = [l \in Loop |-> IF l = "tier" THEN "crashed"
                                             ELSE IF l \in LS THEN "top" ELSE @[l]]]
  /\ UNCHANGED <<workerVars, lockVars, genVars, extra>>

\* Mutant: leadership is only looked at where an iteration starts (before B14).
TierProceedsCheckedAtTop(g) ==
  \E s \in TierStep \cup {"top"} :
    /\ pc[g]["tier"] = s
    /\ s # "top" \/ IsSet(g)
    /\ \E t \in Follows[s] : Goto(g, "tier", t)

\* Go on to a step that is due: through _require_leader, unless nothing checks.
TierProceeds(g) ==
  \E s \in TierStep \cup {"top"} :
    /\ pc[g]["tier"] = s
    /\ s \in Ungated \/ s = "upkeep" \/ IsSet(g)
    /\ \E t \in Follows[s] : Goto(g, "tier", t)

\* The check at the top, or _LeadershipLost between two steps.
TierExits(g) ==
  /\ pc[g]["tier"] \in (TierStep \cup {"top"}) \ (Ungated \cup {"upkeep"})
  /\ ~IsSet(g)
  /\ Goto(g, "tier", "exited")

\* Mutant: a loop ends after its first step.
LoopRunsOnce(g, l) ==
  /\ l # "tier"
  /\ \/ pc[g][l] = "top" /\ IsSet(g) /\ Goto(g, l, "step")
     \/ pc[g][l] = "top" /\ ~IsSet(g) /\ Goto(g, l, "exited")
     \/ pc[g][l] = "step" /\ Goto(g, l, "exited")

\* Every other loop checks once, at the top of each iteration.
LoopIterates(g, l) ==
  /\ l # "tier"
  /\ \/ pc[g][l] = "top" /\ IsSet(g) /\ Goto(g, l, "step")
     \/ pc[g][l] = "top" /\ ~IsSet(g) /\ Goto(g, l, "exited")
     \/ pc[g][l] = "step" /\ Goto(g, l, "top")

-----------------------------------------------------------------------------
Poll(w) == Connect(w) \/ Acquire(w) \/ StartFn(w) \/ PollFails(w)

TierRuns(g) == TierBoot(g) \/ TierProceeds(g) \/ TierExits(g)

Next ==
  \/ \E w \in Worker : Poll(w) \/ StartFnRaises(w) \/ WorkerDies(w)
  \/ \E c \in Conn : LinkBreaks(c) \/ ServerDrops(c) \/ ServerReaps(c)
  \/ \E g \in Gen : TierRuns(g) \/ TierBootRaises(g) \/ \E l \in Loop : LoopIterates(g, l)

Spec == Init /\ [][Next]_vars

\* Every poll loop and collector loop keeps being scheduled, and the server
\* reaps a half-open session in the end.
Fairness ==
  /\ \A w \in Worker : WF_vars(Poll(w))
  /\ \A c \in Conn : WF_vars(ServerReaps(c))
  /\ \A g \in Gen : WF_vars(TierRuns(g)) /\ \A l \in Loop : WF_vars(LoopIterates(g, l))

FairSpec == Spec /\ Fairness

-----------------------------------------------------------------------------
(* Properties.                                                               *)

\* Generation g believes it leads and its session is still alive on the server.
Confirmed(g) ==
  IsSet(g) /\ conn[owner[g]] # NoConn /\ Alive(conn[owner[g]])

\* At most one generation at a time runs with its event set over a session the
\* server still honours: two collectors overlap only while one of them has lost
\* its session and has not polled yet (leader.py, the 2026-09-12 and 2026-09-17
\* incidents).
OneConfirmedLeader == \A g, h \in Gen : Confirmed(g) /\ Confirmed(h) => g = h

\* No event is left set behind its owner's back: a set event is the one its
\* worker's poll loop will clear, so no generation can be orphaned by the
\* handler, by start_fn raising half way or by a second acquisition.
NoOrphanedGeneration ==
  \A g \in Gen : IsSet(g) => /\ owner[g] \in Worker
                             /\ event[owner[g]] = g
                             /\ started[owner[g]]

\* The inductive invariant behind the two.
LeaderInv ==
  /\ NoOrphanedGeneration
  /\ \A w \in Worker : started[w] => /\ conn[w] # NoConn
                                     /\ event[w] # NoGen
  /\ \A w \in Worker : event[w] # NoGen => /\ started[w]
                                           /\ IsSet(event[w])
                                           /\ owner[event[w]] = w
  /\ \A w \in Worker : phase[w] = "starting" => started[w]
  /\ \A w, v \in Worker : conn[w] = conn[v] /\ conn[w] # NoConn => w = v
  /\ \A w \in Worker : conn[w] # NoConn => session[conn[w]] # "free"
  /\ holder # NoConn => Alive(holder)
  /\ \A w \in Worker : started[w] /\ Alive(conn[w]) => holder = conn[w]

\* An ex-leader's loop begins at most one more step once its event is cleared,
\* however the clearing falls between the checks of run_loop.  (scheduler.py:560 says
\* "Checked before every step now"; the P1 evaluation and the upkeep are not.)
TailBoundedByOneStep == \A g \in Gen, l \in Loop : extra[g][l] <= 1

\* Why it is at most one: the step an ex-leader's tier loop still begins is the
\* P1 evaluation or the upkeep, and after either the event is looked at.
TailInv ==
  \A g \in Gen, l \in Loop :
    /\ flag[g] = "new" => pc[g][l] = "none" /\ extra[g][l] = 0 /\ owner[g] = NoWorker
    /\ IsSet(g) => extra[g][l] = 0
    /\ extra[g][l] # 0 => /\ extra[g][l] = 1
                          /\ l = "tier"
                          /\ pc[g][l] \in {"p1_alerts", "upkeep", "top", "exited"}

\* A worker that lost its session stops claiming to lead, silent loss included.
LossIsNoticed ==
  \A w \in Worker : started[w] /\ ~Alive(conn[w]) ~> ~(started[w] /\ ~Alive(conn[w]))

\* Loops of g that cannot be missing: all of them, unless run_loop ended because a thread
\* could not be started; then those of start_fn, and the leader stays without the others.
Needed(g) == IF pc[g]["tier"] = "crashed" THEN DirectLoop ELSE Loop

\* Faults being bounded, in the end one worker leads for good and the loops it needs run.
CollectionResumes ==
  <>[](\E w \in Worker : /\ started[w] /\ holder = conn[w]
                         /\ \A l \in Needed(event[w]) : pc[event[w]][l] \in {"top"} \cup Working)

\* Leadership is given up by whoever lost it, and taken up again for good.
LeadershipMoves == LossIsNoticed /\ CollectionResumes

-----------------------------------------------------------------------------
(* What the election promises, see Leadership.                               *)

LeadingGen ==
  IF \E w \in Worker : started[w] /\ holder = conn[w]
  THEN event[CHOOSE w \in Worker : started[w] /\ holder = conn[w]]
  ELSE NoGen

RunningGens ==
  {g \in Gen : IsSet(g) \/ \E l \in Loop : pc[g][l] \in {"boot", "top"} \cup Working}

\* Events that were handed to start_fn.
LedGens == {g \in Gen : flag[g] # "new"}

Abstract ==
  INSTANCE Leadership WITH leader <- LeadingGen, running <- RunningGens, led <- LedGens

ImplementsLeadership == Abstract!Spec

=============================================================================
