-------------------------- MODULE SharedCache_proofs --------------------------
(* Proofs about SharedCache for any processes and threads and any number of   *)
(* invalidations and faults: type correctness, one load at a time, and that   *)
(* an invalidation is seen.                                                   *)
EXTENDS SharedCache, TLAPS

-----------------------------------------------------------------------------
(* Types.                                                                    *)

Pcs == {"idle", "missed", "waiting", "alone"} \cup Leading
CallType == [pc: Pcs, val: 0..gen, bypass: BOOLEAN, late: BOOLEAN, hung: BOOLEAN]
Flights == \A c \in Caller : call[c].pc \in Leading <=> flight[Home[c]] = c

\* No thread has the name of an absent holder, and each is at home in a process.
LEMMA Homes == /\ nobody \notin Caller /\ gone \notin Caller
               /\ \A c \in Caller : Home[c] \in Process
               /\ MaxGen \in Nat /\ MaxFaults \in Nat
BY CacheAssumption DEF CacheAssumption

\* The counters and stores begin in their ranges.
LEMMA TypeInit == Init => TypeOK
<1> SUFFICES ASSUME Init PROVE TypeOK
  OBVIOUS
<1>1. Idle \in CallType
  BY DEF Init, Idle, CallType, Pcs
<1>2. call \in [Caller -> CallType] /\ Flights
  BY <1>1, Homes DEF Init, Flights, Idle, Leading
<1>3. gen \in 1..(MaxGen + 1) /\ shared \in 0..gen /\ faults \in 0..MaxFaults
  BY Homes DEF Init
<1>4. copy \in [Process -> 0..gen] /\ skips \in [Process -> BOOLEAN]
      /\ flight \in [Process -> Caller \cup {nobody}]
  BY DEF Init
<1> QED  BY <1>2, <1>3, <1>4 DEF Init, TypeOK, CallType, Pcs, Flights

\* Starting a load keeps the calls typed.
LEMMA StartTyped ==
  ASSUME TypeOK, NEW c \in Caller, NEW pc \in Pcs, NEW late \in BOOLEAN, StartsLoad(c, pc, late)
  PROVE  call' \in [Caller -> CallType]
<1>1. call[c].late \in BOOLEAN /\ gen \in 0..gen
  BY DEF TypeOK
<1>2. [Idle EXCEPT !.pc = pc, !.val = gen, !.late = late \/ call[c].late] \in CallType
  BY <1>1 DEF Idle, CallType
<1> QED  BY <1>2 DEF StartsLoad, TypeOK, CallType, Pcs

\* Moving to another stage keeps the calls typed.
LEMMA ToTyped ==
  ASSUME TypeOK, NEW c \in Caller, NEW pc \in Pcs, To(c, pc)
  PROVE  call' \in [Caller -> CallType]
<1>1. call[c] \in CallType
  BY DEF TypeOK, CallType, Pcs
<1>2. [call[c] EXCEPT !.pc = pc] \in CallType
  BY <1>1 DEF CallType
<1> QED  BY <1>2 DEF To, TypeOK, CallType, Pcs

\* So does ending a call.
LEMMA EndsTyped ==
  ASSUME TypeOK, NEW c \in Caller, Ends(c)
  PROVE  call' \in [Caller -> CallType]
<1>1. call[c].late \in BOOLEAN /\ 0 \in 0..gen
  BY DEF TypeOK
<1>2. [Idle EXCEPT !.pc = "finishing", !.late = call[c].late] \in CallType
  BY <1>1 DEF Idle, CallType, Pcs, Leading
<1> QED  BY <1>2 DEF Ends, TypeOK, CallType, Pcs

\* An idle, missed or waiting call is a call.
LEMMA FreshTyped ==
  ASSUME TypeOK, NEW pc \in Pcs, NEW bypass \in BOOLEAN
  PROVE  [Idle EXCEPT !.pc = pc, !.bypass = bypass] \in CallType /\ Idle \in CallType
         /\ [Idle EXCEPT !.pc = pc] \in CallType
<1>1. 0 \in 0..gen
  BY DEF TypeOK
<1> QED  BY <1>1 DEF Idle, CallType, Pcs

\* What a step has to keep: each part typed, and the flights those of their leaders.
LEMMA TypeParts ==
  ASSUME TypeOK, gen' = gen, shared' \in 0..gen, lock' \in Caller \cup {nobody, gone},
         copy' \in [Process -> 0..gen], skips' \in [Process -> BOOLEAN],
         flight' \in [Process -> Caller \cup {nobody}],
         call' \in [Caller -> CallType], Flights', excused' \in BOOLEAN,
         faults' \in 0..MaxFaults
  PROVE  TypeOK'
BY DEF TypeOK, CallType, Pcs, Flights

\* A miss, and what the thread does about the flight of its process.
LEMMA TypeCalls == ASSUME TypeOK, NEW c \in Caller,
                          (\E bypass \in BOOLEAN : Calls(c, bypass)) \/ Joins(c) \/ GivesUpWaiting(c)
                   PROVE  TypeOK'
<1>0. /\ gen' = gen /\ shared' \in 0..gen /\ lock' \in Caller \cup {nobody, gone}
      /\ copy' \in [Process -> 0..gen] /\ skips' \in [Process -> BOOLEAN]
      /\ excused' \in BOOLEAN /\ faults' \in 0..MaxFaults
  BY DEF Calls, Joins, GivesUpWaiting, entries, TypeOK
<1>a. Flights /\ call \in [Caller -> CallType] /\ flight \in [Process -> Caller \cup {nobody}]
  BY DEF TypeOK, Flights, CallType, Pcs
<1>1. CASE \E bypass \in BOOLEAN : Calls(c, bypass)
  <2>1. PICK bypass \in BOOLEAN : Calls(c, bypass)
    BY <1>1
  <2>2. [Idle EXCEPT !.pc = "missed", !.bypass = bypass] \in CallType
    BY FreshTyped DEF Pcs
  <2>3. call' \in [Caller -> CallType]
    BY <2>1, <2>2, <1>a DEF Calls
  <2>4. Flights' /\ flight' = flight
    BY <2>1, <1>a, Homes DEF Calls, Flights, Idle, Leading, CallType
  <2> QED  BY <1>0, <1>a, <2>3, <2>4, TypeParts
<1>2. CASE Joins(c) /\ flight[Home[c]] = nobody
  <2>1. To(c, "leading") /\ flight' = [flight EXCEPT ![Home[c]] = c] /\ call[c].pc = "missed"
    BY <1>2 DEF Joins
  <2>2. call' \in [Caller -> CallType]
    BY <2>1, ToTyped DEF Pcs, Leading
  <2>3. flight' \in [Process -> Caller \cup {nobody}]
    BY <2>1, <1>a, Homes
  <2>4. Flights'
    BY <2>1, <1>2, <1>a, Homes DEF Flights, To, Leading, CallType
  <2> QED  BY <1>0, <2>2, <2>3, <2>4, TypeParts
<1>3. CASE Joins(c) /\ flight[Home[c]] # nobody
  <2>1. /\ flight' = flight /\ call[c].pc = "missed"
        /\ \/ call' = [call EXCEPT ![c] = Idle]
           \/ call' = [call EXCEPT ![c] = [Idle EXCEPT !.pc = "waiting"]]
    BY <1>3 DEF Joins
  <2>2. Idle \in CallType /\ [Idle EXCEPT !.pc = "waiting"] \in CallType
    BY FreshTyped DEF Pcs
  <2>3. call' \in [Caller -> CallType]
    BY <2>1, <2>2, <1>a
  <2>4. Flights'
    BY <2>1, <1>a DEF Flights, Leading, Idle, CallType
  <2> QED  BY <1>0, <1>a, <2>1, <2>3, <2>4, TypeParts
<1>4. CASE GivesUpWaiting(c)
  <2>1. call' \in [Caller -> CallType]
    BY <1>4, StartTyped DEF GivesUpWaiting, Pcs
  <2>2. Flights' /\ flight' = flight
    BY <1>4, <1>a DEF GivesUpWaiting, StartsLoad, Flights, Leading, Idle, CallType
  <2> QED  BY <1>0, <1>a, <2>1, <2>2, TypeParts
<1> QED  BY <1>1, <1>2, <1>3, <1>4

\* The leader of a flight up to the start of its load.
LEMMA TypeLeads == ASSUME TypeOK, NEW c \in Caller, Leads(c) \/ RereadsLocked(c) \/ Polls(c)
                   PROVE  TypeOK'
<1>0. /\ gen' = gen /\ shared' \in 0..gen /\ lock' \in Caller \cup {nobody, gone}
      /\ copy' \in [Process -> 0..gen] /\ skips' \in [Process -> BOOLEAN]
      /\ excused' \in BOOLEAN /\ faults' \in 0..MaxFaults /\ flight' = flight
  BY DEF Leads, RereadsLocked, Polls, entries, TypeOK
<1>a. Flights /\ call \in [Caller -> CallType] /\ flight \in [Process -> Caller \cup {nobody}]
  BY DEF TypeOK, Flights, CallType, Pcs
<1>1. call[c].pc \in Leading
  BY DEF Leads, RereadsLocked, Polls, Leading
<1>2. \/ StartsLoad(c, "loading", TRUE) \/ StartsLoad(c, "loading", FALSE)
      \/ To(c, "locked") \/ To(c, "polling") \/ Ends(c)
  BY DEF Leads, RereadsLocked, Polls
<1>3. call' \in [Caller -> CallType]
  BY <1>2, StartTyped, ToTyped, EndsTyped DEF Pcs, Leading
<1>5. call'[c].pc \in Leading /\ \A d \in Caller : d # c => call'[d] = call[d]
  <2>1. CASE StartsLoad(c, "loading", TRUE) \/ StartsLoad(c, "loading", FALSE)
    BY <2>1, <1>a DEF StartsLoad, Idle, Leading
  <2>2. CASE To(c, "locked") \/ To(c, "polling")
    BY <2>2, <1>a DEF To, Leading, CallType
  <2>3. CASE Ends(c)
    BY <2>3, <1>a DEF Ends, Idle, Leading
  <2> QED  BY <1>2, <2>1, <2>2, <2>3
<1>4. Flights'
  BY <1>0, <1>1, <1>5, <1>a DEF Flights
<1> QED  BY <1>0, <1>a, <1>3, <1>4, TypeParts

\* A load returns, the waiters are answered, and the flight is no longer registered.
LEMMA TypeEnds == ASSUME TypeOK, NEW c \in Caller,
                         (\E clean \in BOOLEAN : Loads(c, clean)) \/ Finishes(c) \/ Unregisters(c)
                  PROVE  TypeOK'
<1>a. Flights /\ call \in [Caller -> CallType] /\ flight \in [Process -> Caller \cup {nobody}]
  BY DEF TypeOK, Flights, CallType, Pcs
<1>b. Idle \in CallType /\ [Idle EXCEPT !.pc = "setting"] \in CallType
  BY FreshTyped DEF Pcs, Leading
<1>1. CASE \E clean \in BOOLEAN : Loads(c, clean)
  <2>1. PICK clean \in BOOLEAN : Loads(c, clean)
    BY <1>1
  <2>2. call[c].val \in 0..gen /\ Home[c] \in Process
    BY <1>a, Homes DEF CallType
  <2>3. copy' \in [Process -> 0..gen] /\ shared' \in 0..gen
    BY <2>1, <2>2 DEF Loads, TypeOK
  <2>4. CASE call[c].pc = "alone"
    <3>1. call' = [call EXCEPT ![c] = Idle] /\ flight' = flight
      BY <2>1, <2>4 DEF Loads
    <3>2. Flights' /\ call' \in [Caller -> CallType]
      BY <3>1, <2>4, <1>a, <1>b DEF Flights, Idle, Leading
    <3> QED  BY <2>1, <2>3, <3>1, <3>2, <1>a, TypeParts DEF Loads, TypeOK
  <2>5. CASE call[c].pc = "loading"
    <3>1. Ends(c) /\ flight' = flight
      BY <2>1, <2>5 DEF Loads
    <3>2. call' \in [Caller -> CallType]
      BY <3>1, EndsTyped
    <3>3. Flights'
      BY <3>1, <2>5, <1>a DEF Ends, Flights, Idle, Leading
    <3> QED  BY <2>1, <2>3, <3>1, <3>2, <3>3, <1>a, TypeParts DEF Loads, TypeOK
  <2> QED  BY <2>1, <2>4, <2>5 DEF Loads, Loading
<1>2. CASE Finishes(c)
  <2>1. lock' \in Caller \cup {nobody, gone} /\ flight' = flight
    BY <1>2 DEF Finishes, Released, TypeOK
  <2>2. call' \in [Caller -> CallType]
    BY <1>2, <1>a, <1>b DEF Finishes
  <2>3. \A d \in Caller : call'[d].pc \in Leading <=> call[d].pc \in Leading
    BY <1>2 DEF Finishes, Idle, Leading
  <2>4. Flights'
    BY <2>1, <2>3, <1>a DEF Flights
  <2> QED  BY <1>2, <2>1, <2>2, <2>4, <1>a, TypeParts DEF Finishes, entries, TypeOK
<1>3. CASE Unregisters(c)
  <2>1. call' = [call EXCEPT ![c] = Idle] /\ flight' = [flight EXCEPT ![Home[c]] = nobody]
        /\ flight[Home[c]] = c
    BY <1>3, <1>a DEF Unregisters, Flights, Leading
  <2>2. call' \in [Caller -> CallType] /\ flight' \in [Process -> Caller \cup {nobody}]
    BY <2>1, <1>a, <1>b
  <2>3. Flights'
    BY <2>1, <1>a, Homes DEF Flights, Idle, Leading
  <2> QED  BY <1>3, <2>2, <2>3, TypeParts DEF Unregisters, entries, TypeOK
<1> QED  BY <1>1, <1>2, <1>3

\* An invalidation, the end of a time to live, and Redis away or back.
LEMMA TypeTime == ASSUME TypeOK,
                         \/ \E p \in Process : Invalidates(p) \/ RedisFails(p) \/ Reconnects(p)
                         \/ Expires \/ LockLapses
                  PROVE  TypeOK'
<1>a. Flights /\ call \in [Caller -> CallType]
  BY DEF TypeOK, Flights, CallType, Pcs
<1>1. ASSUME NEW p \in Process, Invalidates(p) PROVE TypeOK'
  <2>1. gen' \in 1..(MaxGen + 1) /\ 0..gen \subseteq 0..gen' /\ 0 \in 0..gen'
    BY <1>1, Homes DEF Invalidates, TypeOK
  <2>2. shared' \in 0..gen'
    BY <1>1, <2>1 DEF Invalidates, TypeOK
  <2>3. copy' \in [Process -> 0..gen']
    BY <1>1, <2>1 DEF Invalidates, TypeOK
  <2>4. call' = call
    BY <1>1 DEF Invalidates
  <2>5. call' \in [Caller -> [pc: Pcs, val: 0..gen', bypass: BOOLEAN, late: BOOLEAN, hung: BOOLEAN]]
    BY <2>1, <2>4, <1>a DEF CallType
  <2> QED  BY <1>1, <2>1, <2>2, <2>3, <2>5 DEF Invalidates, TypeOK, Pcs
<1>2. ASSUME NEW p \in Process, RedisFails(p) \/ Reconnects(p) PROVE TypeOK'
  <2>1. skips' \in [Process -> BOOLEAN] /\ excused' \in BOOLEAN /\ faults' \in 0..MaxFaults
    <3>1. skips' \in [Process -> BOOLEAN]
      BY <1>2 DEF RedisFails, Reconnects, TypeOK
    <3>2. CASE RedisFails(p)
      BY <3>1, <3>2, Homes DEF RedisFails, Fault, TypeOK
    <3>3. CASE Reconnects(p)
      BY <3>1, <3>3 DEF Reconnects, TypeOK
    <3> QED  BY <1>2, <3>2, <3>3
  <2> QED  BY <1>2, <2>1 DEF RedisFails, Reconnects, entries, TypeOK
<1>3. CASE Expires
  <2>1. 0 \in 0..gen
    BY DEF TypeOK
  <2>2. shared' \in 0..gen /\ copy' \in [Process -> 0..gen]
    BY <1>3, <2>1 DEF Expires, TypeOK
  <2> QED  BY <1>3, <2>2 DEF Expires, TypeOK
<1>4. CASE LockLapses
  <2>1. \A c \in Caller : [call[c] EXCEPT !.late = TRUE] \in CallType
                         /\ [call[c] EXCEPT !.late = TRUE].pc = call[c].pc
    BY <1>a DEF CallType
  <2>2. call' \in [Caller -> CallType] /\ \A c \in Caller : call'[c].pc = call[c].pc
    BY <1>4, <2>1, <1>a DEF LockLapses
  <2>3. Flights' /\ flight' = flight
    BY <1>4, <2>2, <1>a DEF LockLapses, Flights
  <2> QED  BY <1>4, <2>2, <2>3, TypeParts DEF LockLapses, entries, TypeOK
<1> QED  BY <1>1, <1>2, <1>3, <1>4

\* A loader that never returns, and a process that is restarted.
LEMMA TypeFaults == ASSUME TypeOK,
                           (\E c \in Caller : Hangs(c)) \/ (\E p \in Process : Dies(p))
                    PROVE  TypeOK'
<1>a. Flights /\ call \in [Caller -> CallType] /\ flight \in [Process -> Caller \cup {nobody}]
  BY DEF TypeOK, Flights, CallType, Pcs
<1>b. Idle \in CallType
  BY FreshTyped DEF Pcs
<1>1. ASSUME NEW c \in Caller, Hangs(c) PROVE TypeOK'
  <2>1. [call[c] EXCEPT !.hung = TRUE] \in CallType /\ [call[c] EXCEPT !.hung = TRUE].pc = call[c].pc
    BY <1>a DEF CallType
  <2>2. call' = [call EXCEPT ![c] = [call[c] EXCEPT !.hung = TRUE]] /\ flight' = flight
    BY <1>1 DEF Hangs
  <2>3. call' \in [Caller -> CallType] /\ Flights'
    BY <2>1, <2>2, <1>a DEF Flights
  <2>4. faults' \in 0..MaxFaults
    BY <1>1, Homes DEF Hangs, Fault, TypeOK
  <2> QED  BY <1>1, <2>2, <2>3, <2>4, TypeParts DEF Hangs, entries, TypeOK
<1>2. ASSUME NEW p \in Process, Dies(p) PROVE TypeOK'
  <2>1. call' \in [Caller -> CallType]
    BY <1>2, <1>a, <1>b DEF Dies
  <2>2. flight' \in [Process -> Caller \cup {nobody}] /\ skips' \in [Process -> BOOLEAN]
    BY <1>2 DEF Dies, TypeOK
  <2>3. copy' \in [Process -> 0..gen]
    BY <1>2 DEF Dies, TypeOK
  <2>4. Flights'
    BY <1>2, <1>a, Homes DEF Dies, Flights, Idle, Leading
  <2>5. faults' \in 0..MaxFaults /\ lock' \in Caller \cup {nobody, gone}
    BY <1>2, Homes DEF Dies, Fault, TypeOK
  <2> QED  BY <1>2, <2>1, <2>2, <2>3, <2>4, <2>5, TypeParts DEF Dies, TypeOK
<1> QED  BY <1>1, <1>2

\* Stuttering changes no type.
LEMMA TypeStutter == TypeOK /\ UNCHANGED vars => TypeOK'
BY DEF TypeOK, vars

\* Type correctness of the entries, the lock, the flights and the calls, for any
\* number of processes, threads, invalidations and faults.
THEOREM TypeCorrect == Spec => []TypeOK
<1>1. TypeOK /\ [Next]_vars => TypeOK'
  <2> SUFFICES ASSUME TypeOK, [Next]_vars PROVE TypeOK'
    OBVIOUS
  <2>1. ASSUME NEW c \in Caller, (\E bypass \in BOOLEAN : Calls(c, bypass)) \/ Runs(c) \/ Hangs(c)
        PROVE  TypeOK'
    BY <2>1, TypeCalls, TypeLeads, TypeEnds, TypeFaults DEF Runs
  <2>2. ASSUME NEW p \in Process, Invalidates(p) \/ RedisFails(p) \/ Reconnects(p) \/ Dies(p)
        PROVE  TypeOK'
    BY <2>2, TypeTime, TypeFaults
  <2> QED  BY <2>1, <2>2, TypeTime, TypeStutter DEF Next
<1> QED  BY TypeInit, <1>1, PTL DEF Spec

-----------------------------------------------------------------------------
(* One load at a time.                                                       *)

\* Who was not let past others has the lock while it loads.
Locked == \A c \in Caller :
  /\ call[c].pc = "alone" => call[c].late
  /\ call[c].pc \in {"locked", "loading"} /\ ~call[c].late => lock = c

\* Every step of one thread.
LEMMA LockedRuns == ASSUME TypeOK, Locked, NEW c \in Caller,
                           (\E bypass \in BOOLEAN : Calls(c, bypass)) \/ Runs(c) \/ Hangs(c)
                    PROVE  Locked'
<1>a. call \in [Caller -> CallType]
  BY DEF TypeOK, CallType, Pcs
<1>b. \A d \in Caller : d # nobody
  BY Homes
<1>1. ASSUME NEW bypass \in BOOLEAN, Calls(c, bypass) PROVE Locked'
  BY <1>1, <1>a DEF Calls, Locked, Idle
<1>2. CASE Joins(c)
  <2>1. lock' = lock /\ \A d \in Caller : d # c => call'[d] = call[d]
    BY <1>2, <1>a DEF Joins, To
  <2>2. call'[c].pc \in {"leading", "idle", "waiting"}
    BY <1>2, <1>a DEF Joins, To, Idle, CallType
  <2> QED  BY <2>1, <2>2 DEF Locked
<1>3. CASE GivesUpWaiting(c)
  <2>1. lock' = lock /\ \A d \in Caller : d # c => call'[d] = call[d]
    BY <1>3, <1>a DEF GivesUpWaiting, StartsLoad
  <2>2. call'[c].pc = "alone" /\ call'[c].late
    BY <1>3, <1>a DEF GivesUpWaiting, StartsLoad, Idle
  <2> QED  BY <2>1, <2>2 DEF Locked
<1>4. CASE Leads(c)
  <2>0. \A d \in Caller : d # c => call'[d] = call[d]
    BY <1>4, <1>a DEF Leads, StartsLoad, To
  <2>1. \/ lock' = lock /\ call'[c].pc = "loading" /\ call'[c].late
        \/ lock = nobody /\ lock' = c /\ call'[c].pc = "locked"
        \/ lock' = lock /\ call'[c].pc = "polling"
    <3>1. \/ lock' = lock /\ StartsLoad(c, "loading", TRUE)
          \/ lock = nobody /\ lock' = c /\ To(c, "locked")
          \/ lock' = lock /\ To(c, "polling")
      BY <1>4 DEF Leads
    <3>2. StartsLoad(c, "loading", TRUE) => call'[c].pc = "loading" /\ call'[c].late
      BY <1>a DEF StartsLoad, Idle
    <3>3. /\ To(c, "locked") => call'[c].pc = "locked"
          /\ To(c, "polling") => call'[c].pc = "polling"
      BY <1>a DEF To, CallType
    <3> QED  BY <3>1, <3>2, <3>3
  <2> QED  BY <2>0, <2>1, <1>b DEF Locked
<1>5. CASE RereadsLocked(c)
  <2>0. lock' = lock /\ \A d \in Caller : d # c => call'[d] = call[d]
    BY <1>5, <1>a DEF RereadsLocked, StartsLoad, Ends
  <2>1. \/ call'[c].pc = "finishing"
        \/ call'[c].pc = "loading" /\ call'[c].late = call[c].late
    BY ZenonT(30), <1>5, <1>a DEF RereadsLocked, StartsLoad, Ends, Idle, CallType
  <2> QED  BY <2>0, <2>1, <1>5 DEF Locked, RereadsLocked
<1>6. CASE Polls(c)
  <2>0. lock' = lock /\ \A d \in Caller : d # c => call'[d] = call[d]
    BY <1>6, <1>a DEF Polls, StartsLoad, Ends
  <2>1. call'[c].pc = "finishing" \/ (call'[c].pc = "loading" /\ call'[c].late)
    BY <1>6, <1>a DEF Polls, StartsLoad, Ends, Idle
  <2> QED  BY <2>0, <2>1 DEF Locked
<1>7. ASSUME NEW clean \in BOOLEAN, Loads(c, clean) PROVE Locked'
  <2>0. lock' = lock /\ \A d \in Caller : d # c => call'[d] = call[d]
    BY <1>7, <1>a DEF Loads, Ends
  <2>1. call'[c].pc \in {"idle", "finishing"}
    <3>1. \/ call' = [call EXCEPT ![c] = Idle]
          \/ call' = [call EXCEPT ![c] = [Idle EXCEPT !.pc = "finishing", !.late = call[c].late]]
      BY <1>7 DEF Loads, Ends
    <3>2. Idle.pc = "idle" /\ [Idle EXCEPT !.pc = "finishing", !.late = call[c].late].pc = "finishing"
      BY DEF Idle
    <3> QED  BY <3>1, <3>2, <1>a
  <2> QED  BY <2>0, <2>1 DEF Locked
<1>8. CASE Finishes(c)
  <2>0. \A d \in Caller : call'[d].pc \in {"idle", "setting"} \/ (d # c /\ call'[d] = call[d])
    BY <1>8 DEF Finishes, Idle
  <2>1. call[c].pc = "finishing" /\ (lock' = lock \/ lock = c)
    BY <1>8 DEF Finishes, Released
  <2> QED  BY <2>0, <2>1 DEF Locked
<1>9. CASE Unregisters(c)
  BY <1>9, <1>a DEF Unregisters, Locked, Idle
<1>10. CASE Hangs(c)
  <2>0. lock' = lock /\ \A d \in Caller : call'[d].pc = call[d].pc /\ call'[d].late = call[d].late
    BY <1>10, <1>a DEF Hangs, CallType
  <2> QED  BY <2>0 DEF Locked
<1> QED  BY <1>1, <1>2, <1>3, <1>4, <1>5, <1>6, <1>7, <1>8, <1>9, <1>10 DEF Runs

\* A lock that lapses lets its holder be overtaken; one whose holder died is nobody's.
LEMMA LockedElse == ASSUME TypeOK, Locked,
                           \/ \E p \in Process : \/ Invalidates(p) \/ RedisFails(p)
                                                 \/ Reconnects(p) \/ Dies(p)
                           \/ Expires \/ LockLapses \/ UNCHANGED vars
                    PROVE  Locked'
<1>a. call \in [Caller -> CallType]
  BY DEF TypeOK, CallType, Pcs
<1>1. CASE \/ \E p \in Process : Invalidates(p) \/ RedisFails(p) \/ Reconnects(p)
           \/ Expires \/ UNCHANGED vars
  BY <1>1 DEF Invalidates, RedisFails, Reconnects, Expires, vars, Locked
<1>2. ASSUME NEW p \in Process, Dies(p) PROVE Locked'
  <2>1. \A c \in Caller : call'[c].pc = "idle" \/ (Home[c] # p /\ call'[c] = call[c])
    BY <1>2 DEF Dies, Idle
  <2>2. \A c \in Caller : Home[c] # p /\ lock = c => lock' = c
    BY <1>2 DEF Dies
  <2> QED  BY <2>1, <2>2 DEF Locked
<1>3. CASE LockLapses
  <2>1. ASSUME NEW c \in Caller
        PROVE  \/ call'[c] = call[c] /\ ~(c = lock /\ call[c].pc \in {"locked", "loading", "finishing"})
               \/ call'[c] = [call[c] EXCEPT !.late = TRUE]
    BY <1>3 DEF LockLapses
  <2>2. ASSUME NEW c \in Caller
        PROVE  /\ call'[c].pc = "alone" => call'[c].late
               /\ call'[c].pc \in {"locked", "loading"} /\ ~call'[c].late => lock' = c
    <3>1. CASE call'[c] = call[c] /\ ~(c = lock /\ call[c].pc \in {"locked", "loading", "finishing"})
      BY <3>1 DEF Locked
    <3>2. CASE call'[c] = [call[c] EXCEPT !.late = TRUE]
      <4>1. call'[c].late = TRUE
        BY <3>2, <1>a DEF CallType
      <4> QED  BY <4>1
    <3> QED  BY <2>1, <3>1, <3>2
  <2> QED  BY <2>2 DEF Locked
<1> QED  BY <1>1, <1>2, <1>3

\* The holder of the lock is not let past anyone, and there is one lock.
LEMMA LockedSuffices == Locked => LoadsOnce
BY DEF Locked, LoadsOnce, Loading

\* Two threads load the key at the same time only when one of them was let past: it
\* gave up waiting, its lock lapsed, or Redis was skipped.
THEOREM LoadsOnceAlways == Spec => []LoadsOnce
<1>1. Init => Locked
  BY DEF Init, Locked, Idle
<1>2. TypeOK /\ Locked /\ [Next]_vars => Locked'
  BY LockedRuns, LockedElse DEF Next
<1> QED  BY TypeCorrect, LockedSuffices, <1>1, <1>2, PTL DEF Spec

-----------------------------------------------------------------------------
(* Invalidation.                                                             *)

\* While Redis is in use and no load is older than the last invalidation, the entry
\* and every load are of the present generation.
Fresh == \/ excused
         \/ /\ \A p \in Process : ~skips[p]
            /\ \A c \in Caller : Loading(c) => call[c].val = gen
            /\ shared \in {0, gen}

\* A step that moves one thread leaves it loading in the present generation, or not
\* loading.
LEMMA Begun ==
  ASSUME NEW c \in Caller, \A d \in Caller : d # c => call'[d] = call[d], call'[c].val = gen
  PROVE  \A d \in Caller :
           Loading(d)' => call'[d].val = gen \/ (Loading(d) /\ call'[d].val = call[d].val)
BY DEF Loading

\* Every step of one thread: a load begins in the present generation.
LEMMA FreshRuns == ASSUME TypeOK, Fresh, NEW c \in Caller,
                          (\E bypass \in BOOLEAN : Calls(c, bypass)) \/ Runs(c) \/ Hangs(c)
                   PROVE  Fresh'
<1>a. call \in [Caller -> CallType]
  BY DEF TypeOK, CallType, Pcs
<1>1. gen' = gen /\ skips' = skips /\ excused' = excused
  BY DEF Calls, Runs, Hangs, Joins, GivesUpWaiting, Leads, RereadsLocked, Polls, Loads, Finishes,
         Unregisters
<1>2. \A d \in Caller :
        Loading(d)' => call'[d].val = gen \/ (Loading(d) /\ call'[d].val = call[d].val)
  <2>1. ASSUME NEW bypass \in BOOLEAN, Calls(c, bypass)
        PROVE  \A d \in Caller : Loading(d)' => Loading(d) /\ call'[d].val = call[d].val
    BY <2>1, <1>a DEF Calls, Idle, Loading
  <2>2. CASE Joins(c)
    <3>1. \A d \in Caller : d # c => call'[d] = call[d]
      BY <2>2, <1>a DEF Joins, To
    <3>2. call'[c].pc \in {"leading", "idle", "waiting"}
      BY <2>2, <1>a DEF Joins, To, Idle, CallType
    <3> QED  BY <3>1, <3>2 DEF Loading
  <2>4. CASE Finishes(c)
    <3>1. \A d \in Caller : call'[d].pc \in {"idle", "setting"} \/ call'[d] = call[d]
      BY <2>4 DEF Finishes, Idle
    <3> QED  BY <3>1 DEF Loading
  <2>5. CASE Unregisters(c)
    BY <2>5, <1>a DEF Unregisters, Idle, Loading
  <2>6. ASSUME NEW clean \in BOOLEAN, Loads(c, clean)
        PROVE  \A d \in Caller : Loading(d)' => Loading(d) /\ call'[d].val = call[d].val
    <3>1. \/ call' = [call EXCEPT ![c] = Idle]
          \/ call' = [call EXCEPT ![c] = [Idle EXCEPT !.pc = "finishing", !.late = call[c].late]]
      BY <2>6 DEF Loads, Ends
    <3>2. Idle.pc = "idle" /\ [Idle EXCEPT !.pc = "finishing", !.late = call[c].late].pc = "finishing"
      BY DEF Idle
    <3>3. call'[c].pc \in {"idle", "finishing"} /\ \A d \in Caller : d # c => call'[d] = call[d]
      BY <3>1, <3>2, <1>a
    <3> QED  BY <3>3 DEF Loading
  <2>7. CASE GivesUpWaiting(c)
    <3>1. \A d \in Caller : d # c => call'[d] = call[d]
      BY <2>7, <1>a DEF GivesUpWaiting, StartsLoad
    <3>2. call'[c].val = gen
      BY <2>7, <1>a DEF GivesUpWaiting, StartsLoad, Idle
    <3> QED  BY <3>1, <3>2, Begun
  <2>8. CASE Leads(c) \/ RereadsLocked(c) \/ Polls(c)
    <3>1. \/ StartsLoad(c, "loading", TRUE) \/ StartsLoad(c, "loading", FALSE)
          \/ To(c, "locked") \/ To(c, "polling") \/ Ends(c)
      BY <2>8 DEF Leads, RereadsLocked, Polls
    <3>2. \A d \in Caller : d # c => call'[d] = call[d]
      BY <3>1, <1>a DEF StartsLoad, To, Ends
    <3>3. CASE StartsLoad(c, "loading", TRUE) \/ StartsLoad(c, "loading", FALSE)
      <4>1. call'[c].val = gen
        BY <3>3, <1>a DEF StartsLoad, Idle
      <4> QED  BY <3>2, <4>1, Begun
    <3>4. CASE To(c, "locked") \/ To(c, "polling") \/ Ends(c)
      <4>1. call'[c].pc \in {"locked", "polling", "finishing"}
        BY <3>4, <1>a DEF To, Ends, Idle, CallType
      <4> QED  BY <3>2, <4>1 DEF Loading
    <3> QED  BY <3>1, <3>3, <3>4
  <2>3. CASE Hangs(c)
    BY <2>3, <1>a DEF Hangs, Loading, CallType
  <2> QED  BY <2>1, <2>2, <2>3, <2>4, <2>5, <2>6, <2>7, <2>8 DEF Runs
<1>3. shared' = shared \/ (Loading(c) /\ shared' = call[c].val)
  BY DEF Calls, Runs, Hangs, Joins, GivesUpWaiting, Leads, RereadsLocked, Polls, Loads, Finishes,
         Unregisters, entries
<1> QED  BY <1>1, <1>2, <1>3 DEF Fresh

\* An invalidation empties the entry; where that is not enough, it is excused.
LEMMA FreshElse == ASSUME TypeOK, Fresh,
                          \/ \E p \in Process : \/ Invalidates(p) \/ RedisFails(p)
                                                \/ Reconnects(p) \/ Dies(p)
                          \/ Expires \/ LockLapses \/ UNCHANGED vars
                   PROVE  Fresh'
<1>a. call \in [Caller -> CallType] /\ skips \in [Process -> BOOLEAN]
  BY DEF TypeOK, CallType, Pcs
<1>1. ASSUME NEW p \in Process, Invalidates(p) PROVE Fresh'
  <2>1. CASE excused'
    BY <2>1 DEF Fresh
  <2>2. CASE ~excused'
    <3>1. (\A c \in Caller : ~Loading(c)) /\ \A q \in Process : ~skips[q]
      BY <1>1, <2>2 DEF Invalidates
    <3>2. call' = call /\ skips' = skips /\ shared' = 0
      BY <1>1, <3>1 DEF Invalidates
    <3> QED  BY <3>1, <3>2 DEF Fresh, Loading
  <2> QED  BY <2>1, <2>2
<1>2. ASSUME NEW p \in Process, RedisFails(p) PROVE Fresh'
  BY <1>2 DEF RedisFails, Fresh
<1>3. ASSUME NEW p \in Process, Reconnects(p) PROVE Fresh'
  BY <1>3, <1>a DEF Reconnects, entries, Fresh, Loading
<1>4. ASSUME NEW p \in Process, Dies(p) PROVE Fresh'
  BY <1>4, <1>a DEF Dies, Fresh, Loading, Idle
<1>5. CASE Expires \/ UNCHANGED vars
  BY <1>5 DEF Expires, vars, Fresh, Loading
<1>6. CASE LockLapses
  <2>1. \A c \in Caller : call'[c].pc = call[c].pc /\ call'[c].val = call[c].val
    BY <1>6, <1>a DEF LockLapses, CallType
  <2> QED  BY <1>6, <2>1 DEF LockLapses, entries, Fresh, Loading
<1> QED  BY <1>1, <1>2, <1>3, <1>4, <1>5, <1>6

\* In no process does a call find what was loaded before the last invalidation, unless
\* a load was under way then or Redis was skipped since.
THEOREM InvalidationSeenAlways == Spec => []InvalidationSeen
<1>1. Init => Fresh
  BY DEF Init, Fresh, Loading, Idle
<1>2. TypeOK /\ Fresh /\ [Next]_vars => Fresh'
  BY FreshRuns, FreshElse DEF Next
<1>3. Fresh => InvalidationSeen
  BY DEF Fresh, InvalidationSeen, Reads
<1> QED  BY TypeCorrect, <1>1, <1>2, <1>3, PTL DEF Spec

=============================================================================
