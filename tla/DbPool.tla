-------------------------------- MODULE DbPool --------------------------------
(***************************************************************************)
(* db.py: a pool of connections, each handed out in a wrapper of its own with *)
(* a guarded close and a finalizer as a backstop for callers that lose it     *)
(* without closing.  The finalizer runs when the garbage collector finds that *)
(* nothing refers to the wrapper any more.                                    *)
(***************************************************************************)
EXTENDS Naturals, FiniteSets

CONSTANTS
  Connection, \* _POOL_SIZE of them
  Wrapper,    \* identities of wrappers, used again once collected
  Task,       \* requests and collector steps
  none,
  MaxLeaks    \* bound on tasks that end without closing

VARIABLES
  idle,    \* the pool's queue
  wrapper, \* each wrapper in memory, and who refers to it
  leaks

vars == <<idle, wrapper, leaks>>

Absent == [cnx |-> none, closed |-> FALSE, holder |-> none, finalizer |-> FALSE]

TypeOK ==
  /\ idle \subseteq Connection
  /\ wrapper \in [Wrapper -> [cnx: Connection \cup {none}, closed: BOOLEAN,
                              holder: Task \cup {none}, finalizer: BOOLEAN]]
  /\ \A w \in Wrapper : wrapper[w].cnx = none => wrapper[w] = Absent
  /\ leaks \in 0..MaxLeaks

Init ==
  /\ idle = Connection
  /\ wrapper = [w \in Wrapper |-> Absent]
  /\ leaks = 0

Present(w) == wrapper[w].cnx # none
Holds(t, w) == Present(w) /\ wrapper[w].holder = t

-----------------------------------------------------------------------------
(* A task's use of a connection.                                             *)

\* With the pool empty it raises, and the task fails.
Gets(t) ==
  /\ \A w \in Wrapper : ~Holds(t, w)
  /\ \E c \in idle, w \in {v \in Wrapper : ~Present(v)} :
       /\ idle' = idle \ {c}
       /\ wrapper' = [wrapper EXCEPT ![w] = [cnx |-> c, closed |-> FALSE, holder |-> t,
                                             finalizer |-> TRUE]]
  /\ UNCHANGED leaks

\* Mutant: whoever closes returns the connection.
GivesBackEachTime(w) == idle' = idle \cup {wrapper[w].cnx}

\* Only the first close returns it.
GivesBack(w) == idle' = IF wrapper[w].closed THEN idle ELSE idle \cup {wrapper[w].cnx}

\* _guarded_close; a task may close again, in a finally clause.
Closes(t, w) ==
  /\ Holds(t, w)
  /\ GivesBack(w)
  /\ wrapper' = [wrapper EXCEPT ![w].closed = TRUE, ![w].finalizer = FALSE]
  /\ UNCHANGED leaks

\* The task's last reference goes; unclosed only where a path forgets it.
LetsGo(t, w) ==
  /\ Holds(t, w)
  /\ IF wrapper[w].closed THEN UNCHANGED leaks ELSE leaks < MaxLeaks /\ leaks' = leaks + 1
  /\ wrapper' = [wrapper EXCEPT ![w].holder = none]
  /\ UNCHANGED idle

-----------------------------------------------------------------------------
(* The garbage collector.                                                    *)

\* weakref.finalize keeps _finalize, which keeps original_close, which is bound to the wrapper.
KeptByFinalizer(w) == wrapper[w].finalizer

Reachable(w) == wrapper[w].holder # none \/ KeptByFinalizer(w)

\* A wrapper goes, and a finalizer that is still attached runs: _finalize.
Collects(w) ==
  /\ Present(w) /\ ~Reachable(w)
  /\ idle' = IF wrapper[w].finalizer /\ ~wrapper[w].closed
             THEN idle \cup {wrapper[w].cnx} ELSE idle
  /\ wrapper' = [wrapper EXCEPT ![w] = Absent]
  /\ UNCHANGED leaks

-----------------------------------------------------------------------------
Next ==
  \/ \E t \in Task : Gets(t) \/ \E w \in Wrapper : Closes(t, w) \/ LetsGo(t, w)
  \/ \E w \in Wrapper : Collects(w)

Spec == Init /\ [][Next]_vars

-----------------------------------------------------------------------------
(* Properties.                                                               *)

\* "The connection is guaranteed to return to the pool exactly once": a connection in the
\* pool is in nobody's hands, and nobody shares one, however often it is closed and whatever
\* wrapper of an earlier use is still about.
NeverShared ==
  \A v, w \in Wrapper :
    Present(v) /\ ~wrapper[v].closed
    => /\ wrapper[v].cnx \notin idle
       /\ Present(w) /\ ~wrapper[w].closed /\ wrapper[w].cnx = wrapper[v].cnx => v = w

\* A connection is missing for no other reason than a caller that lost it.
OnlyLeaksAreMissing ==
  \A c \in Connection \ idle : \E w \in Wrapper : wrapper[w].cnx = c /\ ~wrapper[w].closed

=============================================================================
