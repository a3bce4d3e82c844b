------------------------------ MODULE SharedCache ------------------------------
(***************************************************************************)
(* utils/shared_cache.py for one key: entries in Redis shared by the          *)
(* processes, a copy in each process that is read only while Redis is         *)
(* skipped, one flight per process that its threads share, and a lock in      *)
(* Redis between the processes.  A value is the generation, counted by the    *)
(* invalidations, in which its loader began.  Times to live and waits are     *)
(* steps that may be taken at any moment.                                     *)
(***************************************************************************)
EXTENDS Naturals

CONSTANTS
  Process, Caller,   \* worker processes, and the threads that call get_or_load_ex
  Home,              \* the process of each thread
  nobody, gone,      \* no holder of the lock, and one whose process has died
  MaxGen,            \* bound on invalidations
  MaxFaults          \* bound on Redis errors, deaths and loaders that never return

ASSUME CacheAssumption ==
  /\ Home \in [Caller -> Process] /\ {nobody, gone} \cap Caller = {}
  /\ MaxGen \in Nat /\ MaxFaults \in Nat

VARIABLES
  gen,      \* 1 + the invalidations so far
  shared,   \* the entry in Redis, 0 for none
  lock,     \* who holds the lock in Redis
  copy,     \* _l1 of each process, 0 for none
  skips,    \* the process skips Redis (_redis_down_until)
  flight,   \* the leader of the flight in _flights of each process
  call,     \* each thread's call
  excused,  \* a load was under way at the last invalidation, or Redis was skipped since
  faults

vars == <<gen, shared, lock, copy, skips, flight, call, excused, faults>>
entries == <<shared, copy>>

Leading == {"leading", "locked", "polling", "loading", "finishing", "setting"}

\* val: the generation of what is being loaded.  late: the code lets it load beside
\* another: it gave up waiting, its lock lapsed, or Redis is skipped.
Idle == [pc |-> "idle", val |-> 0, bypass |-> FALSE, late |-> FALSE, hung |-> FALSE]

TypeOK ==
  /\ gen \in 1..(MaxGen + 1)
  /\ shared \in 0..gen
  /\ lock \in Caller \cup {nobody, gone}
  /\ copy \in [Process -> 0..gen]
  /\ skips \in [Process -> BOOLEAN]
  /\ flight \in [Process -> Caller \cup {nobody}]
  /\ call \in [Caller -> [pc: {"idle", "missed", "waiting", "alone"} \cup Leading,
                          val: 0..gen, bypass: BOOLEAN, late: BOOLEAN, hung: BOOLEAN]]
  /\ \A c \in Caller : call[c].pc \in Leading <=> flight[Home[c]] = c
  /\ excused \in BOOLEAN /\ faults \in 0..MaxFaults

Init ==
  /\ gen = 1 /\ shared = 0 /\ lock = nobody
  /\ copy = [p \in Process |-> 0]
  /\ skips = [p \in Process |-> FALSE]
  /\ flight = [p \in Process |-> nobody]
  /\ call = [c \in Caller |-> Idle]
  /\ excused = FALSE /\ faults = 0

Loading(c) == call[c].pc \in {"loading", "alone"}
To(c, pc) == call' = [call EXCEPT ![c].pc = pc]
StartsLoad(c, pc, late) ==
  call' = [call EXCEPT ![c] = [Idle EXCEPT !.pc = pc, !.val = gen, !.late = late \/ call[c].late]]
Ends(c) == call' = [call EXCEPT ![c] = [Idle EXCEPT !.pc = "finishing", !.late = call[c].late]]

Fault == faults < MaxFaults /\ faults' = faults + 1

\* Mutant: the process's own copy is read first.
ReadsOwnFirst(p) == IF copy[p] # 0 THEN copy[p] ELSE IF skips[p] THEN 0 ELSE shared

\* _read: the copy counts only while Redis is skipped.
Reads(p) == IF skips[p] THEN copy[p] ELSE shared

Usable(c) == Reads(Home[c]) # 0 /\ ~call[c].bypass

-----------------------------------------------------------------------------
(* get_or_load_ex.                                                           *)

\* A hit is answered at once and changes nothing.  bypass stands for a call that
\* refuses what is stored, by bypass or by its validate.
Calls(c, bypass) ==
  /\ call[c].pc = "idle"
  /\ Reads(Home[c]) = 0 \/ bypass
  /\ call' = [call EXCEPT ![c] = [Idle EXCEPT !.pc = "missed", !.bypass = bypass]]
  /\ UNCHANGED <<gen, entries, lock, skips, flight, excused, faults>>

\* The flight of the process is joined, or begun.  It stays registered for a moment
\* after its end: who joins then is answered at once.
Joins(c) ==
  LET leader == flight[Home[c]] IN
  /\ call[c].pc = "missed"
  /\ IF leader = nobody
     THEN flight' = [flight EXCEPT ![Home[c]] = c] /\ To(c, "leading")
     ELSE /\ UNCHANGED flight
          /\ call' = [call EXCEPT ![c] = IF call[leader].pc = "setting" THEN Idle
                                         ELSE [Idle EXCEPT !.pc = "waiting"]]
  /\ UNCHANGED <<gen, entries, lock, skips, excused, faults>>

\* Mutant: Event.wait() without its limit.
WaitsForever(c) == FALSE /\ UNCHANGED vars

\* FLIGHT_WAIT_SECONDS are over: the thread loads on its own.
GivesUpWaiting(c) ==
  /\ call[c].pc = "waiting"
  /\ StartsLoad(c, "alone", TRUE)
  /\ UNCHANGED <<gen, entries, lock, skips, flight, excused, faults>>

-----------------------------------------------------------------------------
(* _lead and _load.                                                          *)

Leads(c) ==
  /\ call[c].pc = "leading"
  /\ IF skips[Home[c]]
     THEN StartsLoad(c, "loading", TRUE) /\ UNCHANGED lock
     ELSE IF lock = nobody
          THEN lock' = c /\ To(c, "locked")
          ELSE UNCHANGED lock /\ To(c, "polling")
  /\ UNCHANGED <<gen, entries, skips, flight, excused, faults>>

\* What was stored between the first read and the lock is used.
RereadsLocked(c) ==
  /\ call[c].pc = "locked"
  /\ IF Usable(c)
     THEN Ends(c)
     ELSE StartsLoad(c, "loading", FALSE)
  /\ UNCHANGED <<gen, entries, lock, skips, flight, excused, faults>>

\* Another process loads: its result is looked for, and after LOCK_WAIT_SECONDS it is
\* loaded here too.
Polls(c) ==
  /\ call[c].pc = "polling"
  /\ IF Usable(c)
     THEN Ends(c)
     ELSE StartsLoad(c, "loading", TRUE)
  /\ UNCHANGED <<gen, entries, lock, skips, flight, excused, faults>>

\* The loader returns; the value is stored unless it raised, a call in it failed, or
\* it is not cacheable.  Both stores are written (Redis only when it is not skipped).
Loads(c, clean) ==
  LET p == Home[c] IN
  /\ Loading(c) /\ ~call[c].hung
  /\ copy' = IF clean THEN [copy EXCEPT ![p] = call[c].val] ELSE copy
  /\ shared' = IF clean /\ ~skips[p] THEN call[c].val ELSE shared
  /\ IF call[c].pc = "alone" THEN call' = [call EXCEPT ![c] = Idle] ELSE Ends(c)
  /\ UNCHANGED <<gen, lock, skips, flight, excused, faults>>

\* Mutant: DEL whoever's lock it is.
ReleasedAnyway(c) == IF skips[Home[c]] THEN lock ELSE nobody

\* _RELEASE_LOCK: the lock this call took, if it is still there, and Redis is not skipped.
Released(c) == IF lock = c /\ ~call[c].late /\ ~skips[Home[c]] THEN nobody ELSE lock

\* The lock is released and the waiters are given the result.
Finishes(c) ==
  /\ call[c].pc = "finishing"
  /\ lock' = Released(c)
  /\ call' = [d \in Caller |->
       IF d = c THEN [Idle EXCEPT !.pc = "setting"]
       ELSE IF Home[d] = Home[c] /\ call[d].pc = "waiting" THEN Idle ELSE call[d]]
  /\ UNCHANGED <<gen, entries, skips, flight, excused, faults>>

Unregisters(c) ==
  /\ call[c].pc = "setting"
  /\ flight' = [flight EXCEPT ![Home[c]] = nobody]
  /\ call' = [call EXCEPT ![c] = Idle]
  /\ UNCHANGED <<gen, entries, lock, skips, excused, faults>>

-----------------------------------------------------------------------------
(* Invalidation, time and faults.                                            *)

\* invalidate(key) in process p.
Invalidates(p) ==
  /\ gen <= MaxGen /\ gen' = gen + 1
  /\ copy' = [copy EXCEPT ![p] = 0]
  /\ shared' = IF skips[p] THEN shared ELSE 0
  /\ excused' = \/ \E c \in Caller : Loading(c)
                \/ \E q \in Process : skips[q]
  /\ UNCHANGED <<lock, skips, flight, call, faults>>

Expires ==
  /\ \/ shared' = 0 /\ UNCHANGED copy
     \/ \E p \in Process : copy' = [copy EXCEPT ![p] = 0] /\ UNCHANGED shared
  /\ UNCHANGED <<gen, lock, skips, flight, call, excused, faults>>

\* LOCK_TTL_SECONDS are over.
LockLapses ==
  /\ lock # nobody /\ lock' = nobody
  /\ call' = [c \in Caller |->
       IF c = lock /\ call[c].pc \in {"locked", "loading", "finishing"}
       THEN [call[c] EXCEPT !.late = TRUE] ELSE call[c]]
  /\ UNCHANGED <<gen, entries, skips, flight, excused, faults>>

\* An error on Redis (_redis_failed), and the end of REDIS_RETRY_SECONDS.
RedisFails(p) ==
  /\ ~skips[p] /\ Fault
  /\ skips' = [skips EXCEPT ![p] = TRUE] /\ excused' = TRUE
  /\ UNCHANGED <<gen, entries, lock, flight, call>>

Reconnects(p) ==
  /\ skips[p]
  /\ skips' = [skips EXCEPT ![p] = FALSE]
  /\ UNCHANGED <<gen, entries, lock, flight, call, excused, faults>>

Hangs(c) ==
  /\ Loading(c) /\ ~call[c].hung /\ Fault
  /\ call' = [call EXCEPT ![c].hung = TRUE]
  /\ UNCHANGED <<gen, entries, lock, skips, flight, excused>>

\* A process is restarted: its threads, flights and copy are gone, its lock is not.
Dies(p) ==
  /\ Fault
  /\ call' = [c \in Caller |-> IF Home[c] = p THEN Idle ELSE call[c]]
  /\ copy' = [copy EXCEPT ![p] = 0]
  /\ flight' = [flight EXCEPT ![p] = nobody]
  /\ skips' = [skips EXCEPT ![p] = FALSE]
  /\ lock' = IF \E c \in Caller : lock = c /\ Home[c] = p THEN gone ELSE lock
  /\ UNCHANGED <<gen, shared, excused>>

-----------------------------------------------------------------------------
Runs(c) ==
  \/ Joins(c) \/ GivesUpWaiting(c)
  \/ Leads(c) \/ RereadsLocked(c) \/ Polls(c)
  \/ (\E clean \in BOOLEAN : Loads(c, clean)) \/ Finishes(c) \/ Unregisters(c)

Next ==
  \/ \E c \in Caller : (\E bypass \in BOOLEAN : Calls(c, bypass)) \/ Runs(c) \/ Hangs(c)
  \/ \E p \in Process : Invalidates(p) \/ RedisFails(p) \/ Reconnects(p) \/ Dies(p)
  \/ Expires \/ LockLapses

Spec == Init /\ [][Next]_vars

\* A thread that can run does: loaders return unless they hang, waits have limits.
FairSpec == Spec /\ \A c \in Caller : WF_vars(Runs(c))

-----------------------------------------------------------------------------
(* Properties.                                                               *)

\* "N simultaneous viewers of one key cause ONE load": two threads load the key at the
\* same time only when one of them was let past: it gave up waiting, its lock lapsed,
\* or Redis was skipped.
LoadsOnce ==
  \A c, d \in Caller :
    c # d /\ Loading(c) /\ Loading(d) => call[c].late \/ call[d].late

\* "invalidate() in one process is seen by all of them": in no process does a call find
\* what was loaded before the last invalidation, unless a load was under way then or
\* Redis was skipped since.
InvalidationSeen == excused \/ \A p \in Process : Reads(p) \in {0, gen}

\* Every call is answered, whatever became of the leader it waits for, unless its own
\* loader never returns.
EveryCallEnds == \A c \in Caller : []<>(call[c].pc = "idle" \/ call[c].hung)

=============================================================================
