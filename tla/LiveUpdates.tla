------------------------------ MODULE LiveUpdates ------------------------------
(***************************************************************************)
(* ws/manager.py for one channel of one process: browsers connect and         *)
(* disconnect while the Redis listener sends one message after the other to   *)
(* the sockets in the list.  Everything runs in one event loop, so only an    *)
(* await lets another step in between; the loop of broadcast is an index into *)
(* the list, as Python's iterator is.  The list is written as its sockets,    *)
(* with those in front of each: a socket is appended once, and only removals  *)
(* move it, so they are its index.                                           *)
(***************************************************************************)
EXTENDS Naturals, Sequences, FiniteSets

CONSTANTS
  Socket,      \* connections, each made once
  Limited,     \* those whose user may not see the account of an account's message
  MaxMessages, \* bound on messages
  MaxFaults    \* bound on connections that break

VARIABLES
  list,   \* active_connections of the channel: list[s] are the sockets in front of s
  scopes, \* the sockets with a limiting entry in _scopes
  state,  \* of each socket
  queue,  \* what Redis has for the listener: TRUE for a message of an account
  cast,   \* the broadcast under way
  got,    \* history: the numbers of the messages each socket was sent
  sent,   \* the messages so far
  faults

vars == <<list, scopes, state, queue, cast, got, sent, faults>>

\* next: the index the loop looks at next.  there, left: history, the sockets listed at its
\* start, and how many were removed since.
Idle == [on |-> FALSE, private |-> FALSE, next |-> 1, dead |-> {}, there |-> {}, left |-> 0]

Listed == DOMAIN list

Place(s) == Cardinality(list[s]) + 1

TypeOK ==
  /\ Listed \subseteq Socket /\ IsFiniteSet(Listed) /\ list \in [Listed -> SUBSET Listed]
  /\ \A r, s \in Listed : /\ r \in list[s] <=> r # s /\ s \notin list[r]
                          /\ r \in list[s] => list[r] \subseteq list[s]
  /\ scopes \subseteq Limited /\ Limited \cap Listed \subseteq scopes
  /\ state \in [Socket -> {"new", "open", "broken", "gone"}]
  /\ \A s \in Socket : state[s] \in {"new", "gone"} => s \notin Listed \cup scopes
  /\ queue \in Seq(BOOLEAN) /\ Len(queue) <= sent
  /\ cast \in [on: BOOLEAN, private: BOOLEAN, next: Nat \ {0}, dead: SUBSET Socket,
               there: SUBSET Socket, left: Nat]
  /\ got \in [Socket -> Seq(1..MaxMessages)]
  /\ sent \in 0..MaxMessages /\ faults \in 0..MaxFaults

Init ==
  /\ list = [s \in {} |-> {}] /\ scopes = {}
  /\ state = [s \in Socket |-> "new"]
  /\ queue = <<>> /\ cast = Idle
  /\ got = [s \in Socket |-> <<>>]
  /\ sent = 0 /\ faults = 0

Number == sent - Len(queue)
Casting == UNCHANGED <<queue, got, sent>>

Appended(s) == [r \in Listed \cup {s} |-> IF r = s THEN Listed ELSE list[r]]
Without(R) == [s \in Listed \ R |-> list[s] \ R]

-----------------------------------------------------------------------------
(* connect and disconnect.                                                   *)

\* The scope is set before the socket is listed.
Connects(s) ==
  /\ state[s] = "new"
  /\ state' = [state EXCEPT ![s] = "open"]
  /\ scopes' = scopes \cup ({s} \cap Limited)
  /\ list' = Appended(s)
  /\ UNCHANGED <<cast, faults>> /\ Casting

Breaks(s) ==
  /\ state[s] = "open" /\ faults < MaxFaults /\ faults' = faults + 1
  /\ state' = [state EXCEPT ![s] = "broken"]
  /\ UNCHANGED <<list, scopes, cast>> /\ Casting

\* The endpoint's receive ends, with the browser's close or an error.
Disconnects(s) ==
  /\ state[s] \in {"open", "broken"}
  /\ state' = [state EXCEPT ![s] = "gone"]
  /\ scopes' = scopes \ {s}
  /\ list' = Without({s})
  /\ cast' = IF cast.on /\ s \in Listed THEN [cast EXCEPT !.left = @ + 1] ELSE cast
  /\ UNCHANGED faults /\ Casting

-----------------------------------------------------------------------------
(* redis_listener and broadcast.                                             *)

Publishes ==
  /\ sent < MaxMessages /\ sent' = sent + 1
  /\ \E private \in BOOLEAN : queue' = Append(queue, private)
  /\ UNCHANGED <<list, scopes, state, cast, got, faults>>

Starts ==
  /\ ~cast.on /\ queue # <<>>
  /\ cast' = [Idle EXCEPT !.on = TRUE, !.private = Head(queue), !.there = Listed]
  /\ queue' = Tail(queue)
  /\ UNCHANGED <<list, scopes, state, got, sent, faults>>

\* The sockets the loop still comes to: one whose scope hides the message is passed over
\* without an await.
Ahead == {s \in Listed : Place(s) >= cast.next /\ ~(cast.private /\ s \in scopes)}

\* Mutant: the loop starts again when the list has changed.
SendsFromStart ==
  /\ cast.on
  /\ \E s \in Ahead :
       /\ \A r \in Ahead \ {s} : s \in list[r]
       /\ cast' = [cast EXCEPT !.next = IF cast.left > 0 THEN 1 ELSE Place(s) + 1, !.left = 0]
       /\ got' = IF state[s] = "broken" THEN got ELSE [got EXCEPT ![s] = Append(@, Number)]
  /\ UNCHANGED <<list, scopes, state, queue, sent, faults>>

\* The next send, which is taken or raises; others run while it is awaited.
Sends ==
  /\ cast.on
  /\ \E s \in Ahead :
       /\ \A r \in Ahead \ {s} : s \in list[r]
       /\ cast' = [cast EXCEPT !.next = Place(s) + 1,
                               !.dead = IF state[s] = "broken" THEN @ \cup {s} ELSE @]
       /\ got' = IF state[s] = "broken" THEN got ELSE [got EXCEPT ![s] = Append(@, Number)]
  /\ UNCHANGED <<list, scopes, state, queue, sent, faults>>

\* The loop ends at the list's end of that moment, and the dead are removed.
Ends ==
  /\ cast.on /\ Ahead = {}
  /\ list' = Without(cast.dead)
  /\ cast' = Idle
  /\ UNCHANGED <<scopes, state, faults>> /\ Casting

-----------------------------------------------------------------------------
Listens == Starts \/ Sends \/ Ends

Next ==
  \/ \E s \in Socket : Connects(s) \/ Breaks(s) \/ Disconnects(s)
  \/ Publishes \/ Listens

Spec == Init /\ [][Next]_vars

-----------------------------------------------------------------------------
(* Properties.                                                               *)

\* Nobody is sent a message twice, or an older one after a newer one, however the list
\* moves under the loop.
SentOnceInOrder ==
  \A s \in Socket : \A i, j \in DOMAIN got[s] : i < j => got[s][i] < got[s][j]

\* "Payloads that carry an account_id are only delivered to sockets whose scope includes it",
\* although a socket without an entry counts as unlimited.
ScopeIsKept ==
  [][\A s \in Limited : cast.private => got'[s] = got[s]]_vars

\* The sockets listed all along that should have been told of a message, and were not.
Missed ==
  {s \in cast.there \cap Listed :
     /\ state[s] = "open" /\ ~(cast.private /\ s \in Limited)
     /\ \A i \in DOMAIN got[s] : got[s][i] # Number}

\* The removal of a socket shifts the list under the loop, but never hides more than one
\* other for each that left.
SkipsAreBounded == cast.on /\ Ahead = {} => Cardinality(Missed) <= cast.left

=============================================================================
