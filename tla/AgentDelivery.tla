----------------------------- MODULE AgentDelivery -----------------------------
(***************************************************************************)
(* One host agent and the hub's ingest endpoint: agent/internal/runner,    *)
(* queue, state and sender on one side, app/hostagents/ingest.py on the    *)
(* other, HTTP between them.                                               *)
(*                                                                         *)
(* The agent is one goroutine.  A collection tick numbers a payload and     *)
(* either sends it at once (hub healthy, nothing queued) or appends it to   *)
(* the disk queue, which is replayed oldest first.  The hub claims each     *)
(* number by an UPDATE of last_seq; a number it does not accept is answered *)
(* like an accepted one and written nowhere.  A host may be revoked and     *)
(* enrolled again, which starts the hub's count anew but not the agent's.   *)
(***************************************************************************)
EXTENDS Naturals, Sequences

CONSTANTS
  QueueMax,      \* payloads that fit the queue's byte budget
  Window,        \* DUP_WINDOW_SECONDS, in ticks of the clock
  MaxPayloads,   \* bound on payloads followed
  MaxFaults,     \* bound on failures of network, hub, agent and disk
  NoFlight

ASSUME DeliveryAssumption ==
  /\ QueueMax \in Nat \ {0} /\ Window \in Nat
  /\ MaxPayloads \in Nat /\ MaxFaults \in Nat

VARIABLES
  frail,     \* whether state.json may be lost or fail to be written (never changes)
  agent,     \* "up", "exiting" while SIGTERM flushes, "down", "stopped" after a 401
  counter,   \* Store.s.Seq in memory
  saved,     \* Seq in state.json
  queue,     \* the files of queue/, oldest first
  backing,   \* backingOff()
  draining,  \* drain is running
  flight,    \* the payload attempt is sending, and whether it came off the queue
  wire,      \* how far the request of that attempt has got
  late,      \* requests the agent gave up on that the hub may still handle
  lastSeq, seenAge, revoked,  \* the hub's row of host_agents
  keys,      \* who holds the valid token: "none", agent.json ("file"), the process too ("both")
  log,       \* payloads whose samples the hub wrote, in order
  before,    \* how many of them before the last enrollment (history)
  void,      \* payloads answered although the host had just been revoked (history)
  made,      \* payloads numbered so far
  acked,     \* payloads the agent was told were accepted (history)
  lostAge,   \* ticks since the counter was lost (history)
  faults

diskVars == <<saved, queue>>
agentVars == <<agent, counter, backing, draining>>
netVars == <<flight, wire, late>>
hubVars == <<lastSeq, seenAge, revoked, keys, log, before, void>>
history == <<acked, lostAge>>
vars == <<frail, agentVars, diskVars, netVars, hubVars, made, history, faults>>

Payload == [id: Nat, seq: Nat]
Flight == [p: Payload, queued: BOOLEAN]

ASSUME NoFlightAssumption == NoFlight \notin Flight

TypeOK ==
  /\ frail \in BOOLEAN
  /\ agent \in {"up", "exiting", "down", "stopped"}
  /\ counter \in Nat /\ saved \in Nat /\ made \in 0..MaxPayloads
  /\ queue \in Seq(Payload) /\ Len(queue) <= QueueMax
  /\ backing \in BOOLEAN /\ draining \in BOOLEAN /\ revoked \in BOOLEAN
  /\ flight \in Flight \cup {NoFlight}
  /\ wire \in {"none", "out", "in", "ok", "bad", "busy", "unauthorized"}
  /\ (wire = "none") <=> (flight = NoFlight)
  /\ late \subseteq Payload
  /\ lastSeq \in Nat /\ seenAge \in 0..(Window + 1)
  /\ keys \in {"none", "file", "both"}
  /\ log \in Seq(Payload) /\ before \in 0..Len(log)
  /\ void \subseteq Payload
  /\ acked \subseteq Payload
  /\ lostAge \in 0..(Window + 1)
  /\ faults \in 0..MaxFaults

Init ==
  /\ frail \in BOOLEAN
  /\ agent = "down"
  /\ counter = 0 /\ saved = 0
  /\ queue = <<>>
  /\ backing = FALSE /\ draining = FALSE
  /\ flight = NoFlight /\ wire = "none" /\ late = {}
  /\ lastSeq = 0 /\ seenAge = Window + 1 /\ revoked = FALSE /\ keys = "file"
  /\ log = <<>> /\ before = 0 /\ void = {}
  /\ made = 0
  /\ acked = {} /\ lostAge = 0
  /\ faults = 0

Fault == faults < MaxFaults /\ faults' = faults + 1

-----------------------------------------------------------------------------
(* The disk queue.                                                           *)

\* removeSeqLocked: the entry of a number, if there is one; the queue is ascending.
Without(q, n) ==
  IF \E i \in DOMAIN q : q[i].seq = n
  THEN [i \in 1..(Len(q) - 1) |-> IF q[i].seq < n THEN q[i] ELSE q[i + 1]]
  ELSE q

\* evictLocked: the oldest makes room.
Room(q) == IF Len(q) < QueueMax THEN q ELSE Tail(q)

\* sort.Search and the shift: before the first entry of a higher number.
Inserted(q, p) ==
  [i \in 1..(Len(q) + 1) |->
     IF i <= Len(q) /\ q[i].seq <= p.seq THEN q[i]
     ELSE IF i = 1 \/ q[i - 1].seq <= p.seq THEN p ELSE q[i - 1]]

\* Queue.Push: the same number is replaced, the oldest makes room, order is kept.
Push(q, p) == Inserted(Room(Without(q, p.seq)), p)

\* Queue.Push when the file cannot be written: room was made for nothing.
PushFails(q, p) == Room(Without(q, p.seq))

\* Queue.Ack.
Remove(q, p) == Without(q, p.seq)

MaxSeq(q) == IF q = <<>> THEN 0 ELSE q[Len(q)].seq

\* enqueue: the sample is lost if the disk refuses it.
Enqueue(p) == queue' \in {Push(queue, p), PushFails(queue, p)}

-----------------------------------------------------------------------------
(* The runner.                                                               *)

\* Mutant: the counter is not raised to what is queued.
BootUnraised ==
  /\ agent' = "up"
  /\ keys' = IF keys = "none" THEN "none" ELSE "both"
  /\ \/ counter' = saved /\ UNCHANGED <<saved, lostAge, faults>>
     \/ frail /\ Fault /\ counter' = 0 /\ saved' = 0 /\ lostAge' = 0
  /\ backing' = FALSE /\ draining' = FALSE
  /\ UNCHANGED <<frail, queue, netVars, lastSeq, seenAge, revoked, log, before, void, made, acked>>

\* A new process: the token from agent.json, the counter from state.json, raised to
\* what is queued.
Boot ==
  /\ agent' = "up"
  /\ keys' = IF keys = "none" THEN "none" ELSE "both"
  /\ \/ /\ counter' = (IF saved > MaxSeq(queue) THEN saved ELSE MaxSeq(queue))
        /\ UNCHANGED <<saved, lostAge, faults>>
     \/ /\ frail /\ Fault
        /\ counter' = MaxSeq(queue)
        /\ saved' = 0
        /\ lostAge' = 0
  /\ backing' = FALSE /\ draining' = FALSE
  /\ UNCHANGED <<frail, queue, netVars, lastSeq, seenAge, revoked, log, before, void, made, acked>>

Start == agent = "down" /\ Boot

\* After an enrollment its user starts the agent that a 401 had stopped.
StartAgain == agent = "stopped" /\ keys = "file" /\ Boot

\* NextSeq: counted in memory, and written to disk unless that fails.
NextSeq ==
  /\ counter' = counter + 1
  /\ \/ saved' = counter + 1
     \/ frail /\ UNCHANGED saved

Send(p, queued) == flight' = [p |-> p, queued |-> queued] /\ wire' = "out"

Quiet == agent = "up" /\ flight = NoFlight /\ ~draining

\* Mutant: a healthy hub is enough to send directly.
TickSendsAhead ==
  /\ Quiet /\ made < MaxPayloads
  /\ ~backing
  /\ NextSeq
  /\ made' = made + 1
  /\ Send([id |-> made + 1, seq |-> counter + 1], FALSE)
  /\ UNCHANGED <<frail, agent, backing, draining, queue, late, hubVars, history, faults>>

\* submit, hub healthy and nothing queued.
TickSends ==
  /\ Quiet /\ made < MaxPayloads
  /\ queue = <<>> /\ ~backing
  /\ NextSeq
  /\ made' = made + 1
  /\ Send([id |-> made + 1, seq |-> counter + 1], FALSE)
  /\ UNCHANGED <<frail, agent, backing, draining, queue, late, hubVars, history, faults>>

\* submit otherwise: append, and drain unless backing off.
TickQueues ==
  /\ Quiet /\ made < MaxPayloads
  /\ queue # <<>> \/ backing
  /\ NextSeq
  /\ Enqueue([id |-> made + 1, seq |-> counter + 1])
  /\ made' = made + 1
  /\ draining' = ~backing
  /\ UNCHANGED <<frail, agent, backing, netVars, hubVars, history, faults>>

\* Beyond the bound: a later tick, whose own payload is not followed.
TickUnfollowed ==
  /\ Quiet /\ made = MaxPayloads /\ queue # <<>> /\ ~backing
  /\ draining' = TRUE
  /\ UNCHANGED <<frail, agent, counter, backing, diskVars, netVars, hubVars, made, history, faults>>

\* The back-off is over: onRetry drains, unless a tick comes first.
RetryTimer ==
  /\ Quiet /\ backing
  /\ backing' = FALSE
  /\ draining' \in {FALSE, queue # <<>>}
  /\ UNCHANGED <<frail, agent, counter, diskVars, netVars, hubVars, made, history, faults>>

\* drain: Peek and attempt the oldest.
DrainSends ==
  /\ draining /\ flight = NoFlight /\ queue # <<>>
  /\ Send(Head(queue), TRUE)
  /\ UNCHANGED <<frail, agentVars, diskVars, late, hubVars, made, history, faults>>

\* Peek discards an expired or unreadable entry.
PeekDiscards ==
  /\ Fault
  /\ draining /\ flight = NoFlight /\ queue # <<>>
  /\ queue' = Tail(queue)
  /\ UNCHANGED <<frail, agentVars, saved, netVars, hubVars, made, history>>

\* drain returns: nothing left, or the budget of a pass is used up.  A flush
\* ends the process.
DrainEnds ==
  /\ draining /\ flight = NoFlight
  /\ \/ queue = <<>> /\ UNCHANGED <<backing, faults>>
     \/ queue # <<>> /\ Fault /\ backing' = TRUE
  /\ draining' = FALSE
  /\ agent' = IF agent = "exiting" THEN "down" ELSE agent
  /\ UNCHANGED <<frail, counter, diskVars, netVars, hubVars, made, history>>

\* attempt failed and is retried later: buffer a direct payload; the entry of a
\* drain is still in the queue.
Retry ==
  /\ flight' = NoFlight /\ wire' = "none"
  /\ IF flight.queued THEN UNCHANGED queue ELSE Enqueue(flight.p)

\* attempt backs off and drain returns; during a flush, that is the end.
BackOff ==
  /\ Retry
  /\ backing' = TRUE /\ draining' = FALSE
  /\ agent' = IF agent = "exiting" THEN "down" ELSE agent

\* The hub answered 429, 5xx, 404...
ReplyBusy ==
  /\ wire = "busy"
  /\ BackOff
  /\ UNCHANGED <<frail, counter, saved, late, hubVars, made, history, faults>>

\* The agent stops waiting for a request, which the hub may or may not see.
Abandon == \/ late' = late \cup (IF wire \in {"out", "in"} THEN {flight.p} ELSE {})
           \/ UNCHANGED late

\* RequestTimeout, or the connection breaks.
TimesOut ==
  /\ Fault
  /\ wire \in {"out", "in", "ok"}
  /\ Abandon
  /\ BackOff
  /\ UNCHANGED <<frail, counter, saved, hubVars, made, history>>

\* Mutant: an entry that was delivered stays queued.
DeliveredUnacked ==
  /\ flight' = NoFlight /\ wire' = "none"
  /\ UNCHANGED queue

\* Ack, when the payload came off the queue.
Delivered ==
  /\ flight' = NoFlight /\ wire' = "none"
  /\ queue' = IF flight.queued THEN Remove(queue, flight.p) ELSE queue

\* 200: onSuccess, and Ack.  A config in the answer is saved with the counter.
ReplyOK ==
  /\ wire = "ok"
  /\ Delivered
  /\ acked' = acked \cup {flight.p}
  /\ backing' = FALSE
  /\ saved' \in {saved, counter}
  /\ UNCHANGED <<frail, agent, counter, draining, late, hubVars, made, lostAge, faults>>

\* 400, 413, 422: the payload is dropped.
ReplyBad ==
  /\ wire = "bad"
  /\ Delivered
  /\ UNCHANGED <<frail, agentVars, saved, late, hubVars, made, history, faults>>

\* 401: Run returns and the service does not restart; a flush ignores it.
ReplyUnauthorized ==
  /\ wire = "unauthorized"
  /\ flight' = NoFlight /\ wire' = "none"
  /\ agent' = (IF agent = "exiting" THEN "down" ELSE "stopped") /\ draining' = FALSE
  /\ UNCHANGED <<frail, counter, backing, diskVars, late, hubVars, made, history, faults>>

\* SIGTERM: the attempt under way is cancelled, then flush drains the queue.
Terminate ==
  /\ Fault
  /\ agent = "up"
  /\ agent' = "exiting"
  /\ IF flight = NoFlight THEN UNCHANGED <<queue, netVars>> ELSE Abandon /\ Retry
  /\ draining' = TRUE
  /\ UNCHANGED <<frail, counter, saved, backing, hubVars, made, history>>

\* The process is killed: what was in memory is gone.
Crash ==
  /\ Fault
  /\ agent \in {"up", "exiting"}
  /\ agent' = "down"
  /\ flight' = NoFlight /\ wire' = "none" /\ draining' = FALSE
  /\ IF flight = NoFlight THEN UNCHANGED late ELSE Abandon
  /\ UNCHANGED <<frail, counter, backing, diskVars, hubVars, made, history>>

-----------------------------------------------------------------------------
(* The hub.                                                                  *)

\* Mutant: a number equal to the last one is claimed again.
ClaimsEqual(p) == p.seq >= lastSeq \/ seenAge > Window

\* Mutant: every request that is not the last number again is written.
ClaimsAnyOther(p) == p.seq # lastSeq \/ seenAge > Window

\* SQL_CLAIM_SEQ: newer than the last, or nothing heard for the window.
Claims(p) == p.seq > lastSeq \/ seenAge > Window

\* _transact: a claimed number is written; any other only touches the row.  A
\* heartbeat moves last_seq by the same rule (SQL_HEARTBEAT).
Ingest(p) ==
  /\ IF Claims(p) THEN lastSeq' = p.seq /\ log' = Append(log, p)
                  ELSE UNCHANGED <<lastSeq, log>>
  /\ seenAge' = 0
  /\ UNCHANGED <<revoked, keys, before, void>>

\* The token is looked up, in a transaction of its own.
HubAuthenticates ==
  /\ wire = "out"
  /\ wire' = IF keys = "both" THEN "in" ELSE "unauthorized"
  /\ UNCHANGED <<frail, agentVars, diskVars, flight, late, hubVars, made, history, faults>>

\* The request of the current attempt is handled, or turned away: a payload that
\* does not validate, a rate limit, a failed transaction.  A host revoked since
\* its token was looked up matches no UPDATE and is answered like the others.
HubHandles ==
  /\ wire = "in"
  /\ \/ /\ revoked /\ wire' = "ok" /\ void' = void \cup {flight.p}
        /\ UNCHANGED <<lastSeq, seenAge, revoked, keys, log, before, faults>>
     \/ ~revoked /\ Ingest(flight.p) /\ wire' = "ok" /\ UNCHANGED faults
     \/ Fault /\ wire' \in {"bad", "busy"} /\ UNCHANGED hubVars
  /\ UNCHANGED <<frail, agentVars, diskVars, flight, late, made, history>>

\* A request the agent gave up on reaches its end, or dies.
LateHandled(p) ==
  /\ p \in late
  /\ late' = late \ {p}
  /\ \/ ~revoked /\ Ingest(p)
     \/ UNCHANGED hubVars
  /\ UNCHANGED <<frail, agentVars, diskVars, flight, wire, made, history, faults>>

Revoke ==
  /\ Fault
  /\ ~revoked /\ revoked' = TRUE /\ keys' = "none"
  /\ UNCHANGED <<frail, agentVars, diskVars, netVars, lastSeq, seenAge, log, before, void, made,
                 history>>

\* enroll --force: the row is active and counts from 0 again, every earlier token is
\* revoked, and agent.json gets the new one unless the answer is lost.  The agent keeps
\* its counter and its queue.
Enroll ==
  /\ Fault
  /\ revoked' = FALSE /\ lastSeq' = 0
  /\ keys' \in {"file", "none"}
  /\ before' = Len(log)
  /\ UNCHANGED <<frail, agentVars, diskVars, netVars, seenAge, log, void, made, history>>

\* Time passes.  A request is over, one way or the other, well within a tick.
ClockTicks ==
  /\ flight = NoFlight /\ late = {}
  /\ seenAge <= Window \/ lostAge <= Window
  /\ seenAge' = IF seenAge <= Window THEN seenAge + 1 ELSE seenAge
  /\ lostAge' = IF lostAge <= Window THEN lostAge + 1 ELSE lostAge
  /\ UNCHANGED <<frail, agentVars, diskVars, netVars, lastSeq, revoked, keys, log, before,
                 void, made, acked, faults>>

-----------------------------------------------------------------------------
Runs == \/ TickSends \/ TickQueues \/ TickUnfollowed \/ RetryTimer
        \/ DrainSends \/ DrainEnds
        \/ ReplyOK \/ ReplyBad \/ ReplyBusy \/ ReplyUnauthorized

Next ==
  \/ Start \/ Runs \/ HubAuthenticates \/ HubHandles
  \/ PeekDiscards \/ TimesOut \/ Terminate \/ Crash
  \/ Revoke \/ Enroll \/ StartAgain \/ ClockTicks
  \/ \E p \in late : LateHandled(p)

Spec == Init /\ [][Next]_vars

\* The service manager restarts the agent, the agent keeps running, the hub
\* answers what reaches it.
Fairness == WF_vars(Start) /\ WF_vars(Runs) /\ WF_vars(HubAuthenticates \/ HubHandles)

FairSpec == Spec /\ Fairness

-----------------------------------------------------------------------------
(* Properties.                                                               *)

\* The queue is replayed in the order of the numbers, whatever was evicted,
\* replaced or left by an earlier process, and no process hands out a number
\* that is still queued.
QueueOrdered ==
  /\ \A i, j \in DOMAIN queue : i < j => queue[i].seq < queue[j].seq
  /\ agent = "up" => \A i \in DOMAIN queue : queue[i].seq <= counter

\* The queue is within its limits and in order.
QueueHolds == TypeOK /\ QueueOrdered

\* What the agent was told is accepted was written by the hub, unless the host had been
\* revoked between the look at its token and the transaction, and as long as state.json
\* is kept: a 200 for a number that is not claimed is only ever the answer to a replay,
\* revocations and enrollments in between included.
AcceptedIsWritten ==
  ~frail => \A p \in acked \ void : \E i \in DOMAIN log : log[i] = p

\* Of what was written since the last enrollment, a payload is written a second time
\* only when the hub had heard nothing for the duplicate window, as long as state.json
\* is kept.  (An enrollment sets last_seq to 0, so what is replayed after it is written
\* once more, whatever was written before.)
WrittenOnceWithinWindow ==
  [][~frail /\ Len(log') > Len(log)
       /\ (\E i \in DOMAIN log : i > before /\ log[i] = log'[Len(log')])
       => seenAge > Window]_vars

\* In the end nothing is left waiting: a queued payload is delivered, dropped,
\* evicted or expired, unless the agent was revoked.
EverythingSettles == <>[](agent = "stopped" \/ (queue = <<>> /\ flight = NoFlight))


-----------------------------------------------------------------------------
\* As long as state.json is kept, samples are written in the order they were
\* collected between two enrollments, so the last-value table does not go back, and a
\* payload is written again only right after itself or after an enrollment.
Abstract == INSTANCE OrderedDelivery WITH
  written <- IF frail THEN <<>> ELSE [i \in DOMAIN log |-> log[i].id],
  offered <- IF frail THEN 0 ELSE made,
  base <- IF frail THEN 0 ELSE before

ImplementsDelivery == Abstract!Spec

=============================================================================
