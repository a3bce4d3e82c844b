----------------------------- MODULE RollupCache -----------------------------
(***************************************************************************)
(* alert_cache.py: each process caches the rollup of the open alerts and      *)
(* validates it, request by request, against a fingerprint of counts and sums *)
(* read from the database.  The time to live ends at any moment.              *)
(***************************************************************************)
EXTENDS Naturals, FiniteSets, FiniteSetsExt

CONSTANTS
  Process,   \* web workers, each with its FingerprintCache
  Thread,    \* their request threads
  Home,      \* the process of each thread
  Alert,     \* ids of alerts
  unknown,   \* the fingerprint could not be read
  MaxWrites, \* bound on changes of alerts
  MaxFaults  \* bound on failed queries

VARIABLES
  alert,     \* the rows
  cache,     \* _data, _fp and the age of each process
  request,   \* each thread's request; since: history, the fingerprints since it asked
  recurred,  \* history: fingerprints that went and came back
  seen,      \* history: fingerprints so far
  writes, faults

vars == <<alert, cache, request, recurred, seen, writes, faults>>
db == <<alert, recurred, seen, writes>>

Rows == [Alert -> [status: {"none", "active", "acknowledged", "resolved"},
                   critical: BOOLEAN, silenced: BOOLEAN]]

\* The open alerts as the rollup sees them: a resolved one is no different from none.
OpenRows(rows) ==
  [a \in {b \in Alert : rows[b].status \in {"active", "acknowledged"}} |-> rows[a]]

\* _FP_SQL, without the columns that nothing here changes
Fingerprint(rows) ==
  LET acked == {a \in DOMAIN rows : rows[a].status = "acknowledged"} IN
  [n |-> Cardinality(DOMAIN rows),
   maxId |-> IF DOMAIN rows = {} THEN 0 ELSE Max(DOMAIN rows),
   acked |-> Cardinality(acked), ackedIds |-> SumSet(acked),
   critical |-> Cardinality({a \in DOMAIN rows : rows[a].critical}),
   silenced |-> Cardinality({a \in DOMAIN rows : rows[a].silenced})]

Now == Fingerprint(OpenRows(alert))

Empty == [data |-> unknown, fp |-> unknown, young |-> FALSE]
Idle == [pc |-> "idle", fp |-> unknown, since |-> {}, data |-> unknown]

Init ==
  /\ alert \in [Alert -> {[status |-> st, critical |-> FALSE, silenced |-> si] :
                           st \in {"none", "active"}, si \in BOOLEAN}]
  /\ \A a \in Alert : alert[a].status = "none" => ~alert[a].silenced
  /\ cache = [p \in Process |-> Empty]
  /\ request = [t \in Thread |-> Idle]
  /\ recurred = {} /\ seen = {Now}
  /\ writes = 0 /\ faults = 0

TypeOK ==
  /\ alert \in Rows
  /\ \A p \in Process :
       \/ cache[p] = Empty
       \/ /\ cache[p].data # unknown /\ Fingerprint(cache[p].data) \in seen
          /\ cache[p].fp \in seen \cup {unknown} /\ cache[p].young \in BOOLEAN
  /\ \A t \in Thread :
       /\ request[t].pc \in {"idle", "asked", "computing", "storing"}
       /\ request[t].fp \in seen \cup {unknown} /\ request[t].since \subseteq seen
       /\ request[t].data # unknown <=> request[t].pc = "storing"
  /\ recurred \subseteq seen /\ Now \in seen
  /\ writes \in 0..MaxWrites /\ faults \in 0..MaxFaults

Fault == faults < MaxFaults /\ faults' = faults + 1

-----------------------------------------------------------------------------
(* FingerprintCache.get                                                      *)

Asks(t) ==
  /\ request[t].pc = "idle"
  /\ \/ request' = [request EXCEPT ![t] = [Idle EXCEPT !.pc = "asked", !.fp = Now,
                                                       !.since = {Now}]]
        /\ UNCHANGED faults
     \/ request' = [request EXCEPT ![t] = [Idle EXCEPT !.pc = "asked"]] /\ Fault
  /\ UNCHANGED <<db, cache>>

Entry(t) == cache[Home[t]]

Valid(t) ==
  /\ Entry(t).data # unknown /\ Entry(t).young
  /\ request[t].fp = unknown \/ request[t].fp = Entry(t).fp

Hits(t) ==
  /\ request[t].pc = "asked" /\ Valid(t)
  /\ request' = [request EXCEPT ![t] = Idle]
  /\ UNCHANGED <<db, cache, faults>>

Misses(t) ==
  /\ request[t].pc = "asked" /\ ~Valid(t)
  /\ request' = [request EXCEPT ![t].pc = "computing", ![t].since = {}]
  /\ UNCHANGED <<db, cache, faults>>

Computes(t) ==
  /\ request[t].pc = "computing"
  /\ request' = [request EXCEPT ![t].pc = "storing", ![t].data = OpenRows(alert)]
  /\ UNCHANGED <<db, cache, faults>>

ComputeFails(t) ==
  /\ request[t].pc = "computing" /\ Fault
  /\ request' = [request EXCEPT ![t] = Idle]
  /\ UNCHANGED <<db, cache>>

\* Mutant: stored under the fingerprint of that moment.
StoresUnderLatest(t) ==
  /\ request[t].pc = "storing"
  /\ cache' = [cache EXCEPT ![Home[t]] = [data |-> request[t].data, fp |-> Now, young |-> TRUE]]
  /\ request' = [request EXCEPT ![t] = Idle]
  /\ UNCHANGED <<db, faults>>

\* Whatever another thread stored, or clear removed, meanwhile.
Stores(t) ==
  /\ request[t].pc = "storing"
  /\ cache' = [cache EXCEPT ![Home[t]] =
                 [data |-> request[t].data, fp |-> request[t].fp, young |-> TRUE]]
  /\ request' = [request EXCEPT ![t] = Idle]
  /\ UNCHANGED <<db, faults>>

\* invalidate_rollup, after a user's action in the process
Clears(p) ==
  /\ cache[p] # Empty /\ cache' = [cache EXCEPT ![p] = Empty]
  /\ UNCHANGED <<db, request, faults>>

Expires(p) ==
  /\ cache[p].young /\ cache' = [cache EXCEPT ![p].young = FALSE]
  /\ UNCHANGED <<db, request, faults>>

-----------------------------------------------------------------------------
(* The evaluator, the maintenance sync and users.                            *)

\* What the histories make of a change of the rows.
Committed ==
  LET fp == Fingerprint(OpenRows(alert')) IN
  /\ writes < MaxWrites /\ writes' = writes + 1
  /\ recurred' = IF fp # Now /\ fp \in seen THEN recurred \cup {fp} ELSE recurred
  /\ seen' = seen \cup {fp}
  /\ request' = [t \in Thread |->
                   IF request[t].pc = "asked" THEN [request[t] EXCEPT !.since = @ \cup {fp}]
                   ELSE request[t]]
  /\ UNCHANGED <<cache, faults>>

Opens(a) ==
  /\ alert[a].status = "none"
  /\ \E s, c \in BOOLEAN :
       alert' = [alert EXCEPT ![a] = [status |-> "active", critical |-> c, silenced |-> s]]
  /\ Committed

\* An acknowledgement is withdrawn by it.
Worsens(a) ==
  /\ alert[a].status \in {"active", "acknowledged"} /\ ~alert[a].critical
  /\ alert' = [alert EXCEPT ![a].status = "active", ![a].critical = TRUE]
  /\ Committed

Acknowledges(a) ==
  /\ alert[a].status = "active"
  /\ alert' = [alert EXCEPT ![a].status = "acknowledged"]
  /\ Committed

Resolves(a) ==
  /\ alert[a].status \in {"active", "acknowledged"}
  /\ alert' = [alert EXCEPT ![a].status = "resolved"]
  /\ Committed

\* sync_maintenance_silencing commits all its changes at once.
Syncs ==
  /\ \E covered \in SUBSET Alert :
       alert' = [a \in Alert |->
                  IF alert[a].status \in {"active", "acknowledged"}
                  THEN [alert[a] EXCEPT !.silenced = (a \in covered)] ELSE alert[a]]
  /\ alert' # alert
  /\ Committed

-----------------------------------------------------------------------------
Next ==
  \/ \E t \in Thread : Asks(t) \/ Hits(t) \/ Misses(t) \/ Computes(t) \/ ComputeFails(t) \/ Stores(t)
  \/ \E p \in Process : Clears(p) \/ Expires(p)
  \/ \E a \in Alert : Opens(a) \/ Worsens(a) \/ Acknowledges(a) \/ Resolves(a)
  \/ Syncs

Spec == Init /\ [][Next]_vars

-----------------------------------------------------------------------------
(* Properties.                                                               *)

\* "A write that lands mid-compute makes the next request recompute", in any process: what
\* is answered from the cache has the counts the alerts had at some moment of that request,
\* whatever other threads store late, unless its fingerprint went and came back meanwhile.
CountsAreCurrent ==
  [][\A t \in Thread :
       Hits(t) /\ request[t].fp # unknown /\ request[t].fp \notin recurred
       => Fingerprint(Entry(t).data) \in request[t].since]_vars

=============================================================================
