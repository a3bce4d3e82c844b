---------------------------- MODULE HostAgent_proofs ----------------------------
(* Proofs about the host agent, for any queue budget, duplicate window and     *)
(* bounds on what is followed: the disk queue is in order, what is accepted is *)
(* written, a payload is written once per window, and the whole implements the *)
(* ordered delivery (AgentDelivery); and an agent which names the version of   *)
(* its configuration in force has that very configuration (HostConfig).        *)
EXTENDS HostAgent, SequenceTheorems, TLAPS

-----------------------------------------------------------------------------
(* The disk queue.                                                           *)

\* Oldest first, and no number twice.
Ascending(q) == \A i, j \in DOMAIN q : i < j => q[i].seq < q[j].seq

\* What is in a queue comes from another one, in that order.
From(r, q) ==
  /\ r \in Seq(Payload) /\ Ascending(r) /\ Len(r) <= Len(q)
  /\ \A i \in DOMAIN r : \E j \in DOMAIN q : r[i] = q[j]

\* A function from 1..n is a sequence of n.
LEMMA ListIsSequence ==
  ASSUME NEW S, NEW n \in Nat, NEW f \in [1..n -> S]
  PROVE  f \in Seq(S) /\ Len(f) = n
<1>1. f \in Seq(S)
  BY SeqDef
<1>2. Len(f) \in Nat /\ 1..Len(f) = 1..n
  BY <1>1, LenProperties
<1> QED  BY <1>1, <1>2

\* Every entry of a queue is a payload with a number.
LEMMA QueueTyped ==
  ASSUME NEW q \in Seq(Payload), NEW i \in DOMAIN q
  PROVE  q[i] \in Payload /\ q[i].seq \in Nat /\ q[i].id \in Nat
<1>1. q[i] \in Payload
  BY LenProperties, ElementOfSeq
<1> QED  BY <1>1 DEF Payload

\* The numbers of an ascending queue rise with the position.
LEMMA QueueNumbers ==
  ASSUME NEW q \in Seq(Payload), Ascending(q), NEW i \in 1..Len(q), NEW j \in 1..Len(q), i <= j
  PROVE  /\ q[i].seq \in Nat /\ q[j].seq \in Nat
         /\ q[i].seq <= q[j].seq /\ (i < j => q[i].seq < q[j].seq)
<1>1. DOMAIN q = 1..Len(q) /\ q[i] \in Payload /\ q[j] \in Payload /\ Len(q) \in Nat
  BY LenProperties, ElementOfSeq
<1>2. q[i].seq \in Nat /\ q[j].seq \in Nat
  BY <1>1 DEF Payload
<1>3. i < j => q[i].seq < q[j].seq
  BY <1>1 DEF Ascending
<1>4. i < j \/ i = j
  BY <1>1
<1> QED  BY <1>2, <1>3, <1>4

\* The eviction of the oldest, and the discard of Peek, keep the order.
LEMMA QueueTail ==
  ASSUME NEW q \in Seq(Payload), Ascending(q), q # <<>>
  PROVE  From(Tail(q), q) /\ Len(Tail(q)) = Len(q) - 1
<1>1. /\ Tail(q) \in Seq(Payload) /\ Len(Tail(q)) = Len(q) - 1
      /\ \A i \in 1..Len(Tail(q)) : Tail(q)[i] = q[i + 1]
  BY HeadTailProperties
<1>2. DOMAIN q = 1..Len(q) /\ Len(q) \in Nat \ {0} /\ DOMAIN Tail(q) = 1..(Len(q) - 1)
  BY <1>1, LenProperties, EmptySeq
<1> QED  BY <1>1, <1>2 DEF From, Ascending

\* A queue that is left alone.
LEMMA QueueSame ==
  ASSUME NEW q \in Seq(Payload), Ascending(q)
  PROVE  From(q, q)
BY LenProperties DEF From

\* removeSeqLocked takes the entry of a number out and keeps the order of the rest.
LEMMA QueueWithout ==
  ASSUME NEW q \in Seq(Payload), Ascending(q), NEW n \in Nat
  PROVE  /\ From(Without(q, n), q)
         /\ \A i \in DOMAIN Without(q, n) : Without(q, n)[i].seq # n
<1>0. Len(q) \in Nat /\ DOMAIN q = 1..Len(q) /\ q \in [1..Len(q) -> Payload]
  BY LenProperties
<1>1. CASE \E i \in DOMAIN q : q[i].seq = n
  <2> DEFINE r == [i \in 1..(Len(q) - 1) |-> IF q[i].seq < n THEN q[i] ELSE q[i + 1]]
  <2>0. PICK k \in 1..Len(q) : q[k].seq = n
    BY <1>1, <1>0
  <2>1. Without(q, n) = r
    BY <1>1 DEF Without
  <2>2. Len(q) - 1 \in Nat
    BY <1>0, <2>0
  <2>3. r \in [1..(Len(q) - 1) -> Payload]
    BY <1>0
  <2>4. r \in Seq(Payload) /\ Len(r) = Len(q) - 1 /\ DOMAIN r = 1..(Len(q) - 1)
    BY <2>2, <2>3, ListIsSequence
  <2>5. \A i \in 1..Len(q) : q[i].seq \in Nat
    BY <1>0 DEF Payload
  <2>6. \A i \in 1..(Len(q) - 1) : r[i] = IF i < k THEN q[i] ELSE q[i + 1]
    BY <1>0, <2>0, <2>5 DEF Ascending
  <2> HIDE DEF r
  <2>7. Ascending(r)
    <3> SUFFICES ASSUME NEW i \in 1..(Len(q) - 1), NEW j \in 1..(Len(q) - 1), i < j
                 PROVE  r[i].seq < r[j].seq
      BY <2>4 DEF Ascending
    <3>1. \A a, b \in 1..Len(q) : a < b => q[a].seq < q[b].seq
      BY <1>0 DEF Ascending
    <3>2. i \in 1..Len(q) /\ i + 1 \in 1..Len(q) /\ j \in 1..Len(q) /\ j + 1 \in 1..Len(q)
      BY <1>0
    <3> QED  BY SMTT(30), <2>0, <2>6, <3>1, <3>2
  <2>8. ASSUME NEW i \in 1..(Len(q) - 1)
        PROVE  r[i].seq # n /\ \E j \in 1..Len(q) : r[i] = q[j]
    <3>1. \A a, b \in 1..Len(q) : a < b => q[a].seq < q[b].seq
      BY <1>0 DEF Ascending
    <3>2. i \in 1..Len(q) /\ i + 1 \in 1..Len(q)
      BY <1>0
    <3>3. CASE i < k
      BY <2>0, <2>5, <2>6, <3>1, <3>2, <3>3
    <3>4. CASE ~(i < k)
      BY <2>0, <2>5, <2>6, <3>1, <3>2, <3>4
    <3> QED  BY <3>3, <3>4
  <2> QED  BY SMTT(30), <1>0, <2>1, <2>2, <2>4, <2>7, <2>8 DEF From
<1>2. CASE ~\E i \in DOMAIN q : q[i].seq = n
  BY <1>2, QueueSame DEF Without
<1> QED  BY <1>1, <1>2

\* evictLocked leaves room for one more entry and keeps the order of the rest.
LEMMA QueueRoom ==
  ASSUME NEW q \in Seq(Payload), Ascending(q), Len(q) <= QueueMax
  PROVE  From(Room(q), q) /\ Len(Room(q)) < QueueMax
<1>0. Len(q) \in Nat /\ QueueMax \in Nat \ {0}
  BY LenProperties, DeliveryAssumption DEF DeliveryAssumption
<1>1. CASE Len(q) < QueueMax
  BY <1>1, QueueSame DEF Room
<1>2. CASE ~(Len(q) < QueueMax)
  <2>1. q # <<>>
    BY <1>0, <1>2, EmptySeq
  <2> QED  BY <1>0, <1>2, <2>1, QueueTail DEF Room
<1> QED  BY <1>1, <1>2

\* sort.Search finds the one place where a new number keeps the queue ascending.
LEMMA QueueInserted ==
  ASSUME NEW q \in Seq(Payload), Ascending(q), NEW p \in Payload,
         \A i \in DOMAIN q : q[i].seq # p.seq
  PROVE  /\ Inserted(q, p) \in Seq(Payload) /\ Len(Inserted(q, p)) = Len(q) + 1
         /\ Ascending(Inserted(q, p))
         /\ \A i \in DOMAIN Inserted(q, p) :
              Inserted(q, p)[i] = p \/ \E j \in DOMAIN q : Inserted(q, p)[i] = q[j]
<1>0. Len(q) \in Nat /\ DOMAIN q = 1..Len(q) /\ q \in [1..Len(q) -> Payload]
  BY LenProperties
<1> DEFINE r == Inserted(q, p)
<1>1. r \in [1..(Len(q) + 1) -> Payload]
  <2> SUFFICES ASSUME NEW i \in 1..(Len(q) + 1) 
               PROVE (IF i <= Len(q) /\ q[i].seq <= p.seq THEN q[i]
                      ELSE IF i = 1 \/ q[i - 1].seq <= p.seq THEN p ELSE q[i - 1]) \in Payload
    BY DEF Inserted
  <2>1. CASE i <= Len(q) /\ q[i].seq <= p.seq
    BY <1>0, <2>1
  <2>2. CASE i # 1
    BY <1>0, <2>2
  <2>3. CASE i = 1
    BY <1>0, <2>3
  <2> QED  BY <2>1, <2>2, <2>3
<1>2. r \in Seq(Payload) /\ Len(r) = Len(q) + 1 /\ DOMAIN r = 1..(Len(q) + 1)
  BY <1>0, <1>1, ListIsSequence
<1>3. p.seq \in Nat /\ \A i \in 1..Len(q) : q[i].seq \in Nat
  BY <1>0 DEF Payload
<1>4. \A i \in 1..(Len(q) + 1) :
        \/ i \in 1..Len(q) /\ r[i] = q[i] /\ q[i].seq < p.seq
        \/ r[i] = p /\ (i = 1 \/ q[i - 1].seq < p.seq) /\ (i = Len(q) + 1 \/ p.seq < q[i].seq)
        \/ i - 1 \in 1..Len(q) /\ r[i] = q[i - 1] /\ p.seq < q[i - 1].seq
  BY <1>0, <1>3 DEF Inserted
<1> HIDE DEF r
<1>5. Ascending(r)
  <2> SUFFICES ASSUME NEW i \in 1..(Len(q) + 1), NEW j \in 1..(Len(q) + 1), i < j
               PROVE  r[i].seq < r[j].seq
    BY <1>2 DEF Ascending
  <2>1. i \in 1..Len(q) /\ j - 1 \in 1..Len(q) /\ i <= j - 1
    BY <1>0
  <2>2. /\ q[i].seq \in Nat /\ q[j - 1].seq \in Nat
        /\ q[i].seq <= q[j - 1].seq
    BY <2>1, QueueNumbers
  <2>3. j # Len(q) + 1 => j \in 1..Len(q) /\ j - 1 <= j /\ j - 1 < j
    BY <1>0
  <2>4. j # Len(q) + 1 => q[j].seq \in Nat /\ q[j - 1].seq < q[j].seq
    BY <2>1, <2>3, QueueNumbers
  <2>5. i # 1 => q[i - 1].seq \in Nat /\ q[i - 1].seq < q[j - 1].seq
    <3> SUFFICES ASSUME i # 1 PROVE q[i - 1].seq \in Nat /\ q[i - 1].seq < q[j - 1].seq
      OBVIOUS
    <3>1. i - 1 \in 1..Len(q) /\ i - 1 <= j - 1 /\ i - 1 < j - 1
      BY <1>0
    <3> QED  BY <2>1, <3>1, QueueNumbers
  <2>6. \/ r[i] = q[i] /\ q[i].seq < p.seq
        \/ r[i] = p /\ p.seq < q[i].seq
        \/ i # 1 /\ r[i] = q[i - 1] /\ p.seq < q[i - 1].seq
    BY <1>0, <1>4, <2>1
  <2>7. \/ j # Len(q) + 1 /\ r[j] = q[j] /\ q[j].seq < p.seq
        \/ r[j] = p /\ q[j - 1].seq < p.seq
        \/ r[j] = q[j - 1] /\ p.seq < q[j - 1].seq
    BY <1>0, <1>4, <2>1
  <2> DEFINE x == r[i].seq
             y == r[j].seq
             s == p.seq
             u == q[i].seq
             v == q[j - 1].seq
             w == q[j].seq
             z == q[i - 1].seq
  <2>8. \/ x = u /\ u < s
        \/ x = s /\ s < u
        \/ i # 1 /\ x = z /\ s < z
    BY <2>6
  <2>9. \/ j # Len(q) + 1 /\ y = w /\ w < s
        \/ y = s /\ v < s
        \/ y = v /\ s < v
    BY <2>7
  <2>10. /\ s \in Nat /\ u \in Nat /\ v \in Nat /\ u <= v
         /\ j # Len(q) + 1 => w \in Nat /\ v < w
         /\ i # 1 => z \in Nat /\ z < v
    BY <1>3, <2>2, <2>4, <2>5
  <2> HIDE DEF x, y, s, u, v, w, z
  <2>11. x < y
    BY <2>8, <2>9, <2>10
  <2> QED  BY <2>11 DEF x, y
<1>6. \A i \in DOMAIN r : r[i] = p \/ \E j \in DOMAIN q : r[i] = q[j]
  BY <1>0, <1>2, <1>4
<1> QED  BY <1>2, <1>5, <1>6 DEF r

\* Queue.Push, whether or not the disk takes the file, leaves an ascending queue
\* within the budget, whose entries were there before or are the payload pushed.
LEMMA QueueEnqueued ==
  ASSUME NEW q \in Seq(Payload), Ascending(q), Len(q) <= QueueMax, NEW p \in Payload,
         NEW r \in {Push(q, p), PushFails(q, p)}
  PROVE  /\ r \in Seq(Payload) /\ Len(r) <= QueueMax /\ Ascending(r)
         /\ \A i \in DOMAIN r : r[i] = p \/ \E j \in DOMAIN q : r[i] = q[j]
<1> DEFINE w == Without(q, p.seq)
<1> DEFINE room == Room(w)
<1>0. p.seq \in Nat /\ Len(q) \in Nat /\ QueueMax \in Nat
  BY LenProperties, DeliveryAssumption DEF Payload, DeliveryAssumption
<1>1. From(w, q) /\ \A i \in DOMAIN w : w[i].seq # p.seq
  BY <1>0, QueueWithout
<1>2. w \in Seq(Payload) /\ Ascending(w) /\ Len(w) \in Nat /\ Len(w) <= QueueMax
  BY <1>0, <1>1, LenProperties DEF From
<1> HIDE DEF w
<1>3. From(room, w) /\ Len(room) < QueueMax
  BY <1>2, QueueRoom
<1> HIDE DEF room
<1>4. /\ room \in Seq(Payload) /\ Ascending(room) /\ Len(room) \in Nat
      /\ \A i \in DOMAIN room : room[i].seq # p.seq /\ \E j \in DOMAIN q : room[i] = q[j]
  BY <1>1, <1>3, LenProperties DEF From
<1>5. CASE r = Inserted(room, p)
  BY <1>0, <1>3, <1>4, <1>5, QueueInserted
<1>6. CASE r = room
  BY <1>0, <1>3, <1>4, <1>6
<1> QED  BY <1>5, <1>6 DEF Push, PushFails, room, w

\* MaxSeq of an ascending queue, read off its last entry, is its highest number.
LEMMA QueueMaxSeq ==
  ASSUME NEW q \in Seq(Payload), Ascending(q)
  PROVE  MaxSeq(q) \in Nat /\ \A i \in DOMAIN q : q[i].seq <= MaxSeq(q)
<1>0. Len(q) \in Nat /\ DOMAIN q = 1..Len(q)
  BY LenProperties
<1>1. CASE q = <<>>
  BY <1>1 DEF MaxSeq
<1>2. CASE q # <<>>
  <2>1. Len(q) \in 1..Len(q)
    BY <1>0, <1>2, EmptySeq
  <2>2. ASSUME NEW i \in 1..Len(q) PROVE q[Len(q)].seq \in Nat /\ q[i].seq <= q[Len(q)].seq
    BY <1>0, <2>1, QueueNumbers
  <2> QED  BY <1>0, <1>2, <2>1, <2>2 DEF MaxSeq
<1> QED  BY <1>1, <1>2

-----------------------------------------------------------------------------
(* Types, and the order of the queue.                                        *)

\* Nothing queued has a higher number.
Upto(n) == \A i \in DOMAIN queue : queue[i].seq <= n

\* An attempt is under way.
Busy == flight # NoFlight

\* The inductive invariant: types, order, and a counter no queued or sent number is ahead of.
OrderInv ==
  /\ TypeOK
  /\ Ascending(queue)
  /\ agent = "up" => Upto(counter)
  /\ Busy => (agent = "up" => flight.p.seq <= counter)
  /\ Busy \/ draining => agent \in {"up", "exiting"}

\* What is assumed of the constants.
LEMMA Bounds ==
  /\ QueueMax \in Nat \ {0} /\ Window \in Nat /\ MaxPayloads \in Nat /\ MaxFaults \in Nat
  /\ NoFlight \notin Flight
BY DeliveryAssumption, NoFlightAssumption DEF DeliveryAssumption

\* A fault is counted.
LEMMA FaultTyped == TypeOK /\ Fault => faults' \in 0..MaxFaults
BY Bounds DEF TypeOK, Fault

\* An attempt carries a payload, and is not the absence of one.
LEMMA FlightTyped ==
  ASSUME NEW x \in Payload, NEW b \in BOOLEAN
  PROVE  /\ [p |-> x, queued |-> b] \in Flight /\ [p |-> x, queued |-> b] # NoFlight
         /\ [p |-> x, queued |-> b].p = x /\ [p |-> x, queued |-> b].queued = b
<1>1. [p |-> x, queued |-> b] \in Flight
  BY DEF Flight
<1> QED  BY <1>1, Bounds

\* A first process finds an empty queue.
LEMMA OrderInit == Init => OrderInv
<1> SUFFICES ASSUME Init PROVE OrderInv
  OBVIOUS
<1>1. /\ queue \in Seq(Payload) /\ Len(queue) = 0 /\ DOMAIN queue = {}
      /\ log \in Seq(Payload) /\ Len(log) = 0
  BY EmptySeq DEF Init
<1>2. TypeOK
  <2>0. frail \in BOOLEAN /\ backing \in BOOLEAN /\ draining \in BOOLEAN /\ revoked \in BOOLEAN
    BY Zenon DEF Init
  <2>1. /\ agent \in {"up", "exiting", "down", "stopped"}
        /\ counter \in Nat /\ saved \in Nat /\ made \in 0..MaxPayloads
    BY Bounds DEF Init
  <2>2. /\ flight \in Flight \cup {NoFlight}
        /\ wire \in {"none", "out", "in", "ok", "bad", "busy", "unauthorized"}
        /\ (wire = "none") <=> (flight = NoFlight)
        /\ late \subseteq Payload /\ acked \subseteq Payload
    BY DEF Init
  <2>3. /\ Len(queue) <= QueueMax 
        /\ lastSeq \in Nat /\ seenAge \in 0..(Window + 1) /\ faults \in 0..MaxFaults
        /\ lostAge \in 0..(Window + 1)
        /\ keys \in {"none", "file", "both"} /\ before \in 0..Len(log) /\ void \subseteq Payload
    BY <1>1, Bounds DEF Init
  <2> QED  BY <1>1, <2>0, <2>1, <2>2, <2>3 DEF TypeOK
<1> QED  BY <1>1, <1>2 DEF Init, OrderInv, Ascending, Busy

\* A new process raises its counter over all that an earlier one left queued.
LEMMA OrderStart == OrderInv /\ (Start \/ StartAgain) => OrderInv'
<1> SUFFICES ASSUME OrderInv, Boot, agent \in {"down", "stopped"} PROVE OrderInv'
  BY DEF Start, StartAgain
<1>1. MaxSeq(queue) \in Nat /\ Upto(MaxSeq(queue))
  BY QueueMaxSeq DEF OrderInv, TypeOK, Upto
<1>2. counter' \in Nat /\ MaxSeq(queue) <= counter' /\ queue' = queue
  BY <1>1 DEF Boot, OrderInv, TypeOK
<1>3. \A i \in DOMAIN queue : queue[i].seq \in Nat
  BY QueueTyped DEF OrderInv, TypeOK
<1>4. Upto(counter)'
  BY <1>1, <1>2, <1>3 DEF Upto
<1>5. ~Busy' /\ flight' = flight
  BY DEF Boot, OrderInv, Busy, netVars
<1>6. TypeOK'
  <2>1. /\ saved' \in Nat /\ lostAge' \in 0..(Window + 1) /\ faults' \in 0..MaxFaults
        /\ keys' \in {"none", "file", "both"}
    BY Bounds, FaultTyped DEF Boot, OrderInv, TypeOK
  <2> QED  BY <1>2, <2>1 DEF Boot, OrderInv, TypeOK, netVars
<1> QED  BY <1>2, <1>4, <1>5, <1>6 DEF Boot, OrderInv, Ascending

\* What is handed out is typed, and the number on disk too.
LEMMA NextSeqTyped ==
  TypeOK /\ NextSeq => /\ counter' \in Nat /\ counter' = counter + 1 /\ saved' \in Nat
                       /\ (made < MaxPayloads => made + 1 \in 0..MaxPayloads)
                       /\ [id |-> made + 1, seq |-> counter + 1] \in Payload
BY Bounds DEF TypeOK, NextSeq, Payload

\* A tick that sends at once takes the next number.
LEMMA OrderTickSends == OrderInv /\ TickSends => OrderInv'
<1> SUFFICES ASSUME OrderInv, TickSends PROVE OrderInv'
  OBVIOUS
<1> DEFINE p == [id |-> made + 1, seq |-> counter + 1]
<1>1. counter' = counter + 1 /\ counter' \in Nat /\ saved' \in Nat /\ made' \in 0..MaxPayloads
      /\ p \in Payload /\ p.seq = counter'
  BY NextSeqTyped DEF TickSends, OrderInv
<1>2. flight' = [p |-> p, queued |-> FALSE] /\ wire' = "out"
  BY DEF TickSends, Send
<1> HIDE DEF p
<1>3. flight' \in Flight /\ flight' # NoFlight /\ flight'.p = p
  BY <1>1, <1>2, FlightTyped
<1>4. TypeOK'
  BY <1>1, <1>2, <1>3 DEF TickSends, OrderInv, TypeOK, hubVars, history
<1>5. queue' = <<>> /\ DOMAIN queue' = {} /\ agent' = "up"
  BY DEF TickSends, Quiet
<1> QED  BY <1>1, <1>3, <1>4, <1>5 DEF OrderInv, Ascending, Upto

\* A tick that queues hands the queue a number above all that is in it.
LEMMA OrderTickQueues == OrderInv /\ TickQueues => OrderInv'
<1> SUFFICES ASSUME OrderInv, TickQueues PROVE OrderInv'
  OBVIOUS
<1> DEFINE p == [id |-> made + 1, seq |-> counter + 1]
<1>1. counter' = counter + 1 /\ counter' \in Nat /\ saved' \in Nat /\ made' \in 0..MaxPayloads
      /\ p \in Payload /\ p.seq = counter'
  BY NextSeqTyped DEF TickQueues, OrderInv
<1>2. queue' \in {Push(queue, p), PushFails(queue, p)}
  BY DEF TickQueues, Enqueue
<1> HIDE DEF p
<1>3. /\ queue' \in Seq(Payload) /\ Len(queue') <= QueueMax /\ Ascending(queue')
      /\ \A i \in DOMAIN queue' : queue'[i] = p \/ \E j \in DOMAIN queue : queue'[i] = queue[j]
  BY <1>1, <1>2, QueueEnqueued DEF OrderInv, TypeOK
<1>4. TypeOK'
  BY <1>1, <1>3 DEF TickQueues, OrderInv, TypeOK, netVars, hubVars, history
<1>5. \A j \in DOMAIN queue : queue[j].seq \in Nat /\ queue[j].seq <= counter
  BY QueueTyped DEF OrderInv, TypeOK, Upto, TickQueues, Quiet
<1>6. Upto(counter)'
  BY SMTT(30), <1>1, <1>3, <1>5 DEF Upto, OrderInv, TypeOK
<1>7. ~Busy'
  BY DEF TickQueues, Quiet, Busy, netVars
<1> QED  BY <1>3, <1>4, <1>6, <1>7 DEF TickQueues, Quiet, OrderInv, Ascending

\* What a step may make of the queue: entries it had, and the payload just sent.
QueueKept ==
  /\ queue' \in Seq(Payload) /\ Len(queue') <= QueueMax /\ Ascending(queue')
  /\ \A i \in DOMAIN queue' : \/ Busy /\ queue'[i] = flight.p
                              \/ \E j \in DOMAIN queue : queue'[i] = queue[j]

\* A step that leaves the queue alone.
LEMMA QueueUnchanged == OrderInv /\ UNCHANGED queue => QueueKept
BY DEF OrderInv, TypeOK, QueueKept, Ascending

\* What is under way is a payload.
LEMMA SentTyped == OrderInv /\ Busy => flight \in Flight /\ flight.p \in Payload /\ flight.queued \in BOOLEAN
                                       /\ flight.p.seq \in Nat /\ flight.p.id \in Nat
<1> SUFFICES ASSUME OrderInv, Busy
             PROVE  flight \in Flight /\ flight.p \in Payload /\ flight.queued \in BOOLEAN
                    /\ flight.p.seq \in Nat /\ flight.p.id \in Nat
  OBVIOUS
<1>1. flight \in Flight
  BY DEF OrderInv, TypeOK, Busy
<1>2. flight.p \in Payload /\ flight.queued \in BOOLEAN
  BY <1>1 DEF Flight
<1> QED  BY <1>1, <1>2 DEF Payload

\* A failed attempt puts a direct payload back in its place.
LEMMA QueueRetry == OrderInv /\ Busy /\ Retry => QueueKept
<1> SUFFICES ASSUME OrderInv, Busy, Retry PROVE QueueKept
  OBVIOUS
<1>1. CASE flight.queued
  BY <1>1, QueueUnchanged DEF Retry
<1>2. CASE ~flight.queued
  <2>1. queue' \in {Push(queue, flight.p), PushFails(queue, flight.p)}
    BY <1>2 DEF Retry, Enqueue
  <2> QED  BY <2>1, SentTyped, QueueEnqueued DEF OrderInv, TypeOK, QueueKept
<1> QED  BY <1>1, <1>2

\* An attempt that succeeds takes a queued payload out.
LEMMA QueueDelivered == OrderInv /\ Busy /\ Delivered => QueueKept
<1> SUFFICES ASSUME OrderInv, Busy, Delivered PROVE QueueKept
  OBVIOUS
<1>1. CASE flight.queued
  <2>1. From(queue', queue)
    BY <1>1, SentTyped, QueueWithout DEF Delivered, Remove, OrderInv, TypeOK
  <2>2. Len(queue') \in Nat /\ Len(queue) \in Nat /\ QueueMax \in Nat
    BY <2>1, LenProperties, Bounds DEF From, OrderInv, TypeOK
  <2> QED  BY <2>1, <2>2 DEF From, QueueKept, OrderInv, TypeOK
<1>2. CASE ~flight.queued
  BY <1>2, QueueUnchanged DEF Delivered
<1> QED  BY <1>1, <1>2

\* Whatever the queue keeps has a number handed out.
LEMMA KeptUpto == OrderInv /\ QueueKept /\ agent = "up" /\ UNCHANGED counter => Upto(counter)'
<1> SUFFICES ASSUME OrderInv, QueueKept, agent = "up", UNCHANGED counter, NEW i \in DOMAIN queue'
             PROVE  queue'[i].seq <= counter
  BY DEF Upto
<1>1. CASE Busy /\ queue'[i] = flight.p
  BY <1>1 DEF OrderInv
<1>2. CASE \E j \in DOMAIN queue : queue'[i] = queue[j]
  BY <1>2 DEF OrderInv, Upto
<1> QED  BY <1>1, <1>2 DEF QueueKept

\* An attempt ends: nothing is under way.
LEMMA OrderEnds ==
  ASSUME OrderInv, TypeOK', QueueKept, ~Busy', UNCHANGED counter, agent' = "up" => agent = "up",
         draining' => agent' \in {"up", "exiting"}
  PROVE  OrderInv'
<1>1. agent' = "up" => Upto(counter)'
  BY KeptUpto
<1> QED  BY <1>1 DEF OrderInv, QueueKept

\* Or nothing changes about it.
LEMMA OrderSame ==
  ASSUME OrderInv, TypeOK', UNCHANGED <<queue, flight, counter>>, agent' = agent,
         draining' => draining \/ agent = "up"
  PROVE  OrderInv'
BY DEF OrderInv, Ascending, Upto, Busy

\* The steps that touch neither queue nor attempt.
LEMMA OrderEasy ==
  OrderInv /\ (TickUnfollowed \/ RetryTimer \/ HubAuthenticates \/ Revoke \/ Enroll \/ ClockTicks)
    => OrderInv'
<1> SUFFICES ASSUME OrderInv, TickUnfollowed \/ RetryTimer \/ HubAuthenticates \/ Revoke \/ Enroll \/ ClockTicks
             PROVE  OrderInv'
  OBVIOUS
<1>1. CASE TickUnfollowed
  <2>1. TypeOK'
    BY <1>1 DEF TickUnfollowed, OrderInv, TypeOK, diskVars, netVars, hubVars, history
  <2> QED  BY <1>1, <2>1, OrderSame DEF TickUnfollowed, Quiet, diskVars, netVars
<1>2. CASE RetryTimer
  <2>0. draining' \in BOOLEAN /\ backing' \in BOOLEAN
    BY <1>2, Zenon DEF RetryTimer
  <2>1. TypeOK'
    BY <1>2, <2>0 DEF RetryTimer, OrderInv, TypeOK, diskVars, netVars, hubVars, history
  <2> QED  BY <1>2, <2>1, OrderSame DEF RetryTimer, Quiet, diskVars, netVars
<1>3. CASE HubAuthenticates
  <2>1. TypeOK'
    BY <1>3 DEF HubAuthenticates, OrderInv, TypeOK, agentVars, diskVars, hubVars, history
  <2> QED  BY <1>3, <2>1, OrderSame DEF HubAuthenticates, agentVars, diskVars
<1>4. CASE Revoke
  <2>1. TypeOK'
    BY <1>4, FaultTyped DEF Revoke, OrderInv, TypeOK, agentVars, diskVars, netVars, history
  <2> QED  BY <1>4, <2>1, OrderSame DEF Revoke, agentVars, diskVars, netVars
<1>6. CASE Enroll
  <2>0. Len(log) \in Nat
    BY LenProperties DEF OrderInv, TypeOK
  <2>1. TypeOK'
    <3>1. /\ UNCHANGED <<frail, agentVars, diskVars, netVars, seenAge, log, void, made, history>>
          /\ revoked' = FALSE /\ lastSeq' = 0 /\ keys' \in {"file", "none"}
      BY <1>6 DEF Enroll
    <3>2. before' \in 0..Len(log) /\ faults' \in 0..MaxFaults
      BY <1>6, <2>0, FaultTyped DEF Enroll, OrderInv
    <3> QED  BY <3>1, <3>2 DEF OrderInv, TypeOK, agentVars, diskVars, netVars, history
  <2> QED  BY <1>6, <2>1, OrderSame DEF Enroll, agentVars, diskVars, netVars
<1>5. CASE ClockTicks
  <2>0. seenAge' \in 0..(Window + 1) /\ lostAge' \in 0..(Window + 1)
    BY <1>5, Bounds DEF ClockTicks, OrderInv, TypeOK
  <2>1. TypeOK'
    BY <1>5, <2>0 DEF ClockTicks, OrderInv, TypeOK, agentVars, diskVars, netVars
  <2> QED  BY <1>5, <2>1, OrderSame DEF ClockTicks, agentVars, diskVars, netVars
<1> QED  BY <1>1, <1>2, <1>3, <1>4, <1>5, <1>6

\* The hub's row and its log stay typed, whether a number is claimed or not.
LEMMA IngestTyped ==
  ASSUME TypeOK, NEW p \in Payload, Ingest(p)
  PROVE  /\ lastSeq' \in Nat /\ log' \in Seq(Payload) /\ seenAge' \in 0..(Window + 1)
         /\ before' \in 0..Len(log') /\ UNCHANGED <<revoked, keys, before, void>>
<1>1. p.seq \in Nat /\ Append(log, p) \in Seq(Payload) /\ Len(Append(log, p)) = Len(log) + 1
      /\ Len(log) \in Nat
  BY AppendProperties, LenProperties DEF Payload, TypeOK
<1> QED  BY SMTT(30), <1>1, Bounds DEF Ingest, TypeOK

\* What is given up on is a payload.
LEMMA AbandonTyped == OrderInv /\ Busy /\ Abandon => late' \subseteq Payload
BY SentTyped DEF Abandon, OrderInv, TypeOK

\* A drain sends the oldest, and only a process that runs drains.
LEMMA OrderDrain == OrderInv /\ (DrainSends \/ PeekDiscards \/ DrainEnds) => OrderInv'
<1> SUFFICES ASSUME OrderInv, DrainSends \/ PeekDiscards \/ DrainEnds PROVE OrderInv'
  OBVIOUS
<1>1. CASE DrainSends
  <2> DEFINE p == Head(queue)
  <2>1. 1 \in DOMAIN queue /\ p = queue[1]
    <3>1. Len(queue) \in Nat \ {0} /\ DOMAIN queue = 1..Len(queue)
      BY <1>1, EmptySeq, LenProperties DEF DrainSends, OrderInv, TypeOK
    <3> QED  BY <3>1
  <2>2. p \in Payload
    BY <2>1, QueueTyped DEF OrderInv, TypeOK
  <2>3. flight' = [p |-> p, queued |-> TRUE] /\ wire' = "out"
    BY <1>1 DEF DrainSends, Send
  <2>4. agent = "up" => p.seq <= counter
    BY <2>1 DEF OrderInv, Upto
  <2> HIDE DEF p
  <2>5. flight' \in Flight /\ flight' # NoFlight /\ flight'.p = p
    BY <2>2, <2>3, FlightTyped
  <2>6. TypeOK'
    BY <1>1, <2>3, <2>5 DEF DrainSends, OrderInv, TypeOK, agentVars, diskVars, hubVars, history
  <2>7. agent \in {"up", "exiting"}
    BY <1>1 DEF DrainSends, OrderInv
  <2> QED  BY <1>1, <2>4, <2>5, <2>6, <2>7
           DEF DrainSends, OrderInv, Ascending, Upto, agentVars, diskVars
<1>2. CASE PeekDiscards
  <2>1. From(queue', queue) /\ Len(queue') = Len(queue) - 1
    BY <1>2, QueueTail DEF PeekDiscards, OrderInv, TypeOK
  <2>2. Len(queue) \in Nat /\ QueueMax \in Nat
    BY LenProperties, Bounds DEF OrderInv, TypeOK
  <2>3. QueueKept
    BY <2>1, <2>2 DEF From, QueueKept, OrderInv, TypeOK
  <2>4. TypeOK'
    BY <1>2, <2>3, FaultTyped
    DEF PeekDiscards, QueueKept, OrderInv, TypeOK, agentVars, netVars, hubVars, history
  <2> QED  BY <1>2, <2>3, <2>4, OrderEnds DEF PeekDiscards, Busy, OrderInv, agentVars, netVars
<1>3. CASE DrainEnds
  <2>0. backing' \in BOOLEAN /\ draining' \in BOOLEAN
    BY <1>3 DEF DrainEnds, OrderInv, TypeOK
  <2>1. faults' \in 0..MaxFaults /\ agent' \in {"up", "exiting", "down", "stopped"}
    BY <1>3, FaultTyped DEF DrainEnds, OrderInv, TypeOK
  <2>2. TypeOK'
    BY <1>3, <2>0, <2>1 DEF DrainEnds, OrderInv, TypeOK, diskVars, netVars, hubVars, history
  <2> QED  BY <1>3, <2>2, OrderEnds, QueueUnchanged DEF DrainEnds, Busy, diskVars, netVars
<1> QED  BY <1>1, <1>2, <1>3

\* A wire that is not silent carries the payload of an attempt.
LEMMA WireBusy == OrderInv /\ wire # "none" => Busy
BY DEF OrderInv, TypeOK, Busy

\* An attempt that is to be retried leaves the queue ascending.
LEMMA OrderBacksOff == OrderInv /\ (ReplyBusy \/ TimesOut) => OrderInv'
<1> SUFFICES ASSUME OrderInv, ReplyBusy \/ TimesOut PROVE OrderInv'
  OBVIOUS
<1>1. Busy /\ BackOff
  BY WireBusy DEF ReplyBusy, TimesOut
<1>2. QueueKept /\ flight' = NoFlight /\ wire' = "none"
  BY <1>1, QueueRetry DEF BackOff, Retry
<1>3. late' \subseteq Payload /\ faults' \in 0..MaxFaults
  BY <1>1, AbandonTyped, FaultTyped DEF ReplyBusy, TimesOut, OrderInv, TypeOK
<1>4. agent' \in {"up", "exiting", "down", "stopped"} /\ (agent' = "up" => agent = "up")
  BY <1>1 DEF BackOff, OrderInv, TypeOK
<1>5. TypeOK'
  BY <1>1, <1>2, <1>3, <1>4
  DEF BackOff, QueueKept, ReplyBusy, TimesOut, OrderInv, TypeOK, hubVars, history
<1>6. counter' = counter
  BY DEF ReplyBusy, TimesOut
<1> QED  BY <1>1, <1>2, <1>4, <1>5, <1>6, OrderEnds DEF BackOff, Busy

\* SIGTERM, a kill and a 401 leave the queue ascending.
LEMMA OrderStops == OrderInv /\ (Terminate \/ Crash \/ ReplyUnauthorized) => OrderInv'
<1> SUFFICES ASSUME OrderInv, Terminate \/ Crash \/ ReplyUnauthorized PROVE OrderInv'
  OBVIOUS
<1>1. CASE Terminate
  <2>1. QueueKept /\ flight' = NoFlight /\ wire' = "none" /\ late' \subseteq Payload
    <3>1. CASE Busy
      BY <1>1, <3>1, QueueRetry, AbandonTyped DEF Terminate, Retry, Busy
    <3>2. CASE ~Busy
      BY <1>1, <3>2, QueueUnchanged DEF Terminate, Busy, netVars, OrderInv, TypeOK
    <3> QED  BY <3>1, <3>2
  <2>2. TypeOK'
    BY <1>1, <2>1, FaultTyped DEF Terminate, QueueKept, OrderInv, TypeOK, hubVars, history
  <2> QED  BY <1>1, <2>1, <2>2, OrderEnds DEF Terminate, Busy
<1>2. CASE Crash
  <2>1. late' \subseteq Payload
    BY <1>2, AbandonTyped DEF Crash, OrderInv, TypeOK, Busy
  <2>2. TypeOK'
    BY <1>2, <2>1, FaultTyped DEF Crash, OrderInv, TypeOK, diskVars, hubVars, history
  <2> QED  BY <1>2, <2>2, OrderEnds, QueueUnchanged DEF Crash, Busy, diskVars
<1>3. CASE ReplyUnauthorized
  <2>1. TypeOK'
    BY <1>3 DEF ReplyUnauthorized, OrderInv, TypeOK, diskVars, hubVars, history
  <2> QED  BY <1>3, <2>1, OrderEnds, QueueUnchanged DEF ReplyUnauthorized, Busy, diskVars
<1> QED  BY <1>1, <1>2, <1>3

\* A payload delivered or refused for good leaves the queue ascending.
LEMMA OrderDelivers == OrderInv /\ (ReplyOK \/ ReplyBad) => OrderInv'
<1> SUFFICES ASSUME OrderInv, ReplyOK \/ ReplyBad PROVE OrderInv'
  OBVIOUS
<1>1. Busy /\ Delivered
  BY WireBusy DEF ReplyOK, ReplyBad
<1>2. QueueKept /\ flight' = NoFlight /\ wire' = "none"
  BY <1>1, QueueDelivered DEF Delivered
<1>3. acked' \subseteq Payload /\ saved' \in Nat
  BY <1>1, SentTyped DEF ReplyOK, ReplyBad, OrderInv, TypeOK, history
<1>4. TypeOK'
  BY <1>2, <1>3 DEF ReplyOK, ReplyBad, QueueKept, OrderInv, TypeOK, agentVars, hubVars, history
<1>5. counter' = counter /\ agent' = agent /\ draining' = draining
  BY DEF ReplyOK, ReplyBad, agentVars
<1> QED  BY <1>2, <1>4, <1>5, OrderEnds DEF Busy, OrderInv

\* The hub touches neither queue nor counter.
LEMMA OrderHub == OrderInv /\ (HubHandles \/ \E p \in late : LateHandled(p)) => OrderInv'
<1> SUFFICES ASSUME OrderInv, HubHandles \/ \E p \in late : LateHandled(p) PROVE OrderInv'
  OBVIOUS
<1>1. CASE HubHandles
  <2>1. Busy /\ flight.p \in Payload
    BY <1>1, WireBusy, SentTyped DEF HubHandles
  <2>2. /\ lastSeq' \in Nat /\ log' \in Seq(Payload) /\ seenAge' \in 0..(Window + 1)
        /\ before' \in 0..Len(log') /\ UNCHANGED <<revoked, keys>> /\ void' \subseteq Payload
    <3>1. CASE Ingest(flight.p)
      BY <2>1, <3>1, IngestTyped DEF OrderInv, TypeOK
    <3>2. CASE ~Ingest(flight.p)
      BY <1>1, <2>1, <3>2 DEF HubHandles, hubVars, OrderInv, TypeOK
    <3> QED  BY <3>1, <3>2
  <2>3. wire' \in {"ok", "bad", "busy"} /\ faults' \in 0..MaxFaults
    BY <1>1, FaultTyped DEF HubHandles, OrderInv, TypeOK
  <2>4. TypeOK'
    BY <1>1, <2>1, <2>2, <2>3 DEF HubHandles, OrderInv, TypeOK, Busy, agentVars, diskVars, history
  <2> QED  BY <1>1, <2>4, OrderSame DEF HubHandles, agentVars, diskVars
<1>2. ASSUME NEW p \in late, LateHandled(p) PROVE OrderInv'
  <2>1. p \in Payload
    BY DEF OrderInv, TypeOK
  <2>2. /\ lastSeq' \in Nat /\ log' \in Seq(Payload) /\ seenAge' \in 0..(Window + 1)
        /\ before' \in 0..Len(log') /\ UNCHANGED <<revoked, keys, void>>
    BY <1>2, <2>1, IngestTyped DEF LateHandled, hubVars, OrderInv, TypeOK
  <2>3. TypeOK'
    BY <1>2, <2>2 DEF LateHandled, OrderInv, TypeOK, agentVars, diskVars, history
  <2> QED  BY <1>2, <2>3, OrderSame DEF LateHandled, agentVars, diskVars
<1> QED  BY <1>1, <1>2

\* Every step keeps types and order.
LEMMA OrderStep == OrderInv /\ [Next]_vars => OrderInv'
<1> SUFFICES ASSUME OrderInv, [Next]_vars PROVE OrderInv'
  OBVIOUS
<1>1. CASE UNCHANGED vars
  <2>1. TypeOK'
    BY <1>1 DEF vars, agentVars, diskVars, netVars, hubVars, history, OrderInv, TypeOK
  <2> QED  BY <1>1, <2>1, OrderSame DEF vars, agentVars, diskVars, netVars
<1>2. CASE Next
  BY <1>2, OrderStart, OrderTickSends, OrderTickQueues, OrderEasy, OrderDrain, OrderBacksOff,
     OrderStops, OrderDelivers, OrderHub DEF Next, Runs
<1> QED  BY <1>1, <1>2

\* Types and order hold throughout.
LEMMA Ordered == Spec => []OrderInv
<1> QED  BY OrderInit, OrderStep, PTL DEF Spec

\* The disk queue stays within its budget and ascending, and no process hands out a
\* number that is still queued: through evictions, replacements, retries, kills
\* and the loss of state.json, for any budget, window and number of payloads.
THEOREM QueueHoldsAlways == Spec => []QueueHolds
<1>1. OrderInv => QueueHolds
  BY DEF OrderInv, QueueHolds, QueueOrdered, Ascending, Upto
<1> QED  BY <1>1, Ordered, PTL

-----------------------------------------------------------------------------
(* Delivery, as long as state.json is kept.                                  *)

\* Every number was handed out once, in order: the n-th payload has number n.
Own(p) == p.id = p.seq /\ p.seq \in 1..made

Counted == counter = made /\ saved = made

Owned ==
  /\ \A i \in DOMAIN queue : Own(queue[i])
  /\ \A i \in DOMAIN log : Own(log[i])
  /\ \A x \in late : Own(x)
  /\ Busy => Own(flight.p)

\* Since the last enrollment the hub has written in order up to last_seq.
LogAscends ==
  /\ \A i, j \in DOMAIN log : before < i /\ i < j => log[i].seq <= log[j].seq
  /\ IF Len(log) = before THEN lastSeq = 0 ELSE lastSeq = log[Len(log)].seq

\* What is still to be sent is not behind the hub, nor behind what was sent before it.
\* A request given up on is behind the hub only within the window.
AheadOfHub ==
  /\ \A i \in DOMAIN queue : lastSeq <= queue[i].seq /\ \A x \in late : x.seq <= queue[i].seq
  /\ Busy => /\ lastSeq <= flight.p.seq
             /\ \A i \in DOMAIN queue : flight.p.seq <= queue[i].seq
             /\ \A x \in late : x.seq <= flight.p.seq
  /\ seenAge > Window => \A x \in late : lastSeq <= x.seq

Written(p) == \E i \in DOMAIN log : log[i] = p

\* A 200 is for a payload the hub has written, or that a revocation has voided.
Told ==
  /\ wire = "ok" => Written(flight.p) \/ flight.p \in void
  /\ \A p \in acked : Written(p) \/ p \in void

\* What holds between agent and hub as long as state.json is kept.
Kept == Counted /\ Owned /\ LogAscends /\ AheadOfHub /\ Told

DeliveryInv == ~frail => Kept

\* When something was written since the last enrollment, the log has a last entry.
LEMMA LogTyped ==
  OrderInv => /\ log \in Seq(Payload) /\ Len(log) \in Nat /\ DOMAIN log = 1..Len(log)
              /\ before \in Nat /\ before <= Len(log)
              /\ Len(log) # before => log # <<>> /\ before < Len(log) /\ Len(log) \in DOMAIN log
<1> SUFFICES ASSUME OrderInv
             PROVE  /\ log \in Seq(Payload) /\ Len(log) \in Nat /\ DOMAIN log = 1..Len(log)
                    /\ before \in Nat /\ before <= Len(log)
                    /\ Len(log) # before =>
                         log # <<>> /\ before < Len(log) /\ Len(log) \in DOMAIN log
  OBVIOUS
<1>1. log \in Seq(Payload) /\ before \in 0..Len(log)
  BY DEF OrderInv, TypeOK
<1>2. Len(log) \in Nat /\ DOMAIN log = 1..Len(log)
  BY <1>1, LenProperties
<1> DEFINE n == Len(log)
<1>3. n \in Nat /\ before \in 0..n
  BY <1>1, <1>2
<1> HIDE DEF n
<1>4. before \in Nat /\ before <= n /\ (n # before => before < n /\ n \in 1..n /\ n # 0)
  BY <1>3
<1> QED  BY <1>1, <1>2, <1>4, EmptySeq DEF n

\* Nothing was sent, and nothing written.
LEMMA KeptInit == Init => Kept
<1> SUFFICES ASSUME Init PROVE Kept
  OBVIOUS
<1>1. DOMAIN queue = {} /\ DOMAIN log = {}
  BY EmptySeq DEF Init
<1> QED  BY <1>1 DEF Init, Kept, Counted, Owned, LogAscends, AheadOfHub, Told, Busy

\* An attempt ends, or nothing was under way.
LEMMA KeptEnds ==
  ASSUME OrderInv, Kept, QueueKept, ~Busy', wire' # "ok",
         late' \subseteq late \cup (IF Busy THEN {flight.p} ELSE {}),
         acked' \subseteq acked \cup (IF wire = "ok" THEN {flight.p} ELSE {}),
         saved' \in {saved, counter},
         UNCHANGED <<counter, made, lastSeq, seenAge, log, before, void>>
  PROVE  Kept'
<1>1. Counted' /\ LogAscends'
  BY DEF Kept, Counted, LogAscends
<1>2. \A x \in late' : x \in late \/ (Busy /\ x = flight.p)
  OBVIOUS
<1>3. Busy => flight.p.seq \in Nat
  BY SentTyped
<1>4. Owned'
  BY <1>2 DEF Kept, Owned, Own, QueueKept
<1>5. AheadOfHub'
  <2>1. ASSUME NEW i \in DOMAIN queue'
        PROVE  lastSeq <= queue'[i].seq /\ \A x \in late' : x.seq <= queue'[i].seq
    <3>1. CASE Busy /\ queue'[i] = flight.p
      BY <1>2, <1>3, <3>1 DEF Kept, AheadOfHub
    <3>2. CASE \E j \in DOMAIN queue : queue'[i] = queue[j]
      BY <1>2, <3>2 DEF Kept, AheadOfHub
    <3> QED  BY <3>1, <3>2 DEF QueueKept
  <2>2. seenAge > Window => \A x \in late' : lastSeq <= x.seq
    BY <1>2 DEF Kept, AheadOfHub
  <2> QED  BY <2>1, <2>2 DEF AheadOfHub
<1>6. Told'
  BY DEF Kept, Told, Written
<1> QED  BY <1>1, <1>4, <1>5, <1>6 DEF Kept

\* Nothing of it changes.
LEMMA KeptSame ==
  ASSUME Kept,
         UNCHANGED <<counter, saved, made, queue, flight, late, lastSeq, seenAge, log, before, void, acked>>,
         wire' = "ok" => wire = "ok"
  PROVE  Kept'
BY DEF Kept, Counted, Owned, Own, LogAscends, AheadOfHub, Told, Written, Busy

\* A restart does not go behind a number that was handed out.
LEMMA KeptStart == OrderInv /\ Kept /\ ~frail /\ (Start \/ StartAgain) => Kept'
<1> SUFFICES ASSUME OrderInv, Kept, ~frail, Boot PROVE Kept'
  BY DEF Start, StartAgain
<1>1. MaxSeq(queue) \in Nat /\ made \in Nat
  BY QueueMaxSeq, Bounds DEF OrderInv, TypeOK
<1>2. MaxSeq(queue) <= made
  <2>1. CASE queue = <<>>
    BY <1>1, <2>1 DEF MaxSeq
  <2>2. CASE queue # <<>>
    <3>1. Len(queue) \in DOMAIN queue
      BY <2>2, EmptySeq, LenProperties DEF OrderInv, TypeOK
    <3> QED  BY <1>1, <2>2, <3>1 DEF MaxSeq, Kept, Owned, Own
  <2> QED  BY <2>1, <2>2
<1>3. counter' = counter /\ saved' = saved
  BY <1>1, <1>2 DEF Boot, Kept, Counted
<1> QED  BY <1>3, KeptSame DEF Boot, netVars

\* The hub is not ahead of the agent.
LEMMA HubBehind == OrderInv /\ Kept => lastSeq <= made /\ lastSeq \in Nat /\ made \in Nat
<1> SUFFICES ASSUME OrderInv, Kept PROVE lastSeq <= made /\ lastSeq \in Nat /\ made \in Nat
  OBVIOUS
<1>1. Len(log) \in Nat /\ DOMAIN log = 1..Len(log) /\ made \in Nat
  BY LenProperties, Bounds DEF OrderInv, TypeOK
<1>2. Len(log) # before => Len(log) \in DOMAIN log
  BY LogTyped
<1> QED  BY <1>1, <1>2 DEF Kept, LogAscends, Owned, Own

\* A direct payload is ahead of the hub: nothing is queued.
LEMMA KeptTickSends == OrderInv /\ Kept /\ ~frail /\ TickSends => Kept'
<1> SUFFICES ASSUME OrderInv, Kept, ~frail, TickSends PROVE Kept'
  OBVIOUS
<1> DEFINE p == [id |-> made + 1, seq |-> counter + 1]
<1>1. made \in Nat /\ made' = made + 1 /\ p \in Payload /\ p.id = made' /\ p.seq = made'
  BY NextSeqTyped DEF TickSends, OrderInv, TypeOK, Kept, Counted
<1>2. flight' = [p |-> p, queued |-> FALSE] /\ wire' = "out"
  BY DEF TickSends, Send
<1> HIDE DEF p
<1>3. Busy' /\ flight'.p = p
  BY <1>1, <1>2, FlightTyped DEF Busy
<1>4. Counted'
  BY <1>1 DEF TickSends, NextSeq, Kept, Counted
<1>5. DOMAIN queue = {} /\ queue' = queue
  BY DEF TickSends
<1>6. Owned'
  BY <1>1, <1>3, <1>5 DEF TickSends, hubVars, Kept, Owned, Own
<1>7. LogAscends' /\ Told'
  BY <1>2 DEF TickSends, hubVars, history, Kept, LogAscends, Told, Written
<1>8. lastSeq <= made /\ lastSeq' = lastSeq
  BY HubBehind DEF TickSends, hubVars
<1>9. \A x \in late : x.seq <= made /\ x.seq \in Nat
  BY <1>1 DEF Kept, Owned, Own
<1>10. AheadOfHub'
  <2>1. lastSeq' <= flight'.p.seq /\ \A x \in late' : x.seq <= flight'.p.seq
    BY <1>1, <1>3, <1>8, <1>9 DEF TickSends, OrderInv, TypeOK
  <2> QED  BY <1>5, <2>1 DEF Kept, AheadOfHub, TickSends, hubVars
<1> QED  BY <1>4, <1>6, <1>7, <1>10 DEF Kept

\* A queued payload comes after all that is queued and under way.
LEMMA KeptTickQueues == OrderInv /\ Kept /\ ~frail /\ TickQueues => Kept'
<1> SUFFICES ASSUME OrderInv, Kept, ~frail, TickQueues PROVE Kept'
  OBVIOUS
<1> DEFINE p == [id |-> made + 1, seq |-> counter + 1]
<1>1. made \in Nat /\ made' = made + 1 /\ p \in Payload /\ p.id = made' /\ p.seq = made'
  BY NextSeqTyped DEF TickQueues, OrderInv, TypeOK, Kept, Counted
<1>2. queue' \in {Push(queue, p), PushFails(queue, p)}
  BY DEF TickQueues, Enqueue
<1> HIDE DEF p
<1>3. \A i \in DOMAIN queue' : queue'[i] = p \/ \E j \in DOMAIN queue : queue'[i] = queue[j]
  BY <1>1, <1>2, QueueEnqueued DEF OrderInv, TypeOK
<1>4. Counted'
  BY <1>1 DEF TickQueues, NextSeq, Kept, Counted
<1>5. ~Busy /\ ~Busy' /\ wire' # "ok"
  BY DEF TickQueues, Quiet, Busy, netVars, OrderInv, TypeOK
<1>6. Owned'
  BY <1>1, <1>3, <1>5 DEF TickQueues, netVars, hubVars, Kept, Owned, Own
<1>7. LogAscends' /\ Told'
  BY <1>5 DEF TickQueues, hubVars, history, Kept, LogAscends, Told, Written
<1>8. lastSeq <= made /\ lastSeq \in Nat /\ \A x \in late : x.seq <= made /\ x.seq \in Nat
  BY <1>1, HubBehind DEF Kept, Owned, Own
<1>9. AheadOfHub'
  <2>1. ASSUME NEW i \in DOMAIN queue'
        PROVE  lastSeq <= queue'[i].seq /\ \A x \in late : x.seq <= queue'[i].seq
    <3>1. CASE queue'[i] = p
      BY <1>1, <1>8, <3>1
    <3>2. CASE \E j \in DOMAIN queue : queue'[i] = queue[j]
      BY <3>2 DEF Kept, AheadOfHub
    <3> QED  BY <1>3, <3>1, <3>2
  <2> QED  BY <1>5, <2>1 DEF Kept, AheadOfHub, TickQueues, netVars, hubVars
<1> QED  BY <1>4, <1>6, <1>7, <1>9 DEF Kept

\* The oldest of the queue is ahead of the hub and not ahead of the rest.
LEMMA KeptDrainSends == OrderInv /\ Kept /\ DrainSends => Kept'
<1> SUFFICES ASSUME OrderInv, Kept, DrainSends PROVE Kept'
  OBVIOUS
<1> DEFINE p == Head(queue)
<1>1. Len(queue) \in Nat \ {0} /\ DOMAIN queue = 1..Len(queue) /\ 1 \in DOMAIN queue
  BY EmptySeq, LenProperties DEF DrainSends, OrderInv, TypeOK
<1>2. p = queue[1] /\ p \in Payload
  BY <1>1, QueueTyped DEF OrderInv, TypeOK
<1>3. flight' = [p |-> p, queued |-> TRUE] /\ wire' = "out"
  BY DEF DrainSends, Send
<1> HIDE DEF p
<1>4. Busy' /\ flight'.p = p
  BY <1>2, <1>3, FlightTyped DEF Busy
<1>5. \A i \in DOMAIN queue : p.seq <= queue[i].seq
  <2> SUFFICES ASSUME NEW i \in 1..Len(queue) PROVE queue[1].seq <= queue[i].seq
    BY <1>1, <1>2
  <2>1. 1 \in 1..Len(queue) /\ 1 <= i
    BY <1>1
  <2> QED  BY <2>1, QueueNumbers DEF OrderInv, TypeOK
<1>6. Counted' /\ LogAscends' /\ Told'
  BY <1>3 DEF DrainSends, agentVars, diskVars, hubVars, history, Kept, Counted, LogAscends, Told,
              Written
<1>7. Owned'
  BY <1>1, <1>2, <1>4 DEF DrainSends, diskVars, hubVars, Kept, Owned, Own
<1>8. AheadOfHub'
  BY <1>1, <1>2, <1>4, <1>5 DEF DrainSends, diskVars, hubVars, Kept, AheadOfHub
<1> QED  BY <1>6, <1>7, <1>8 DEF Kept

\* Two payloads with one number are the same.
LEMMA OwnSame ==
  ASSUME NEW p \in Payload, NEW q \in Payload, Own(p), Own(q), p.seq = q.seq
  PROVE  p = q
BY DEF Own, Payload

\* What the hub does with a payload that is not behind it, except as a duplicate.
LEMMA KeptIngest ==
  ASSUME OrderInv, Kept, NEW p \in Payload, Own(p), Ingest(p), Claims(p) => lastSeq <= p.seq
  PROVE  /\ LogAscends'
         /\ \A i \in DOMAIN log' : log'[i] = p \/ Written(log'[i])
         /\ \A q : Written(q) => Written(q)'
         /\ lastSeq' = (IF Claims(p) THEN p.seq ELSE lastSeq)
         /\ lastSeq <= p.seq => Written(p)'
<1>0. /\ Len(log) \in Nat /\ DOMAIN log = 1..Len(log) /\ log \in Seq(Payload)
  BY LogTyped
<1>a. /\ before \in Nat /\ before <= Len(log)
      /\ Len(log) # before => Len(log) \in DOMAIN log
  BY LogTyped
<1>1. p.seq \in Nat /\ lastSeq \in Nat /\ p.seq # 0
  BY DEF Payload, OrderInv, TypeOK, Own
<1>2. CASE Claims(p)
  <2>1. lastSeq' = p.seq /\ log' = Append(log, p) /\ before' = before
    BY <1>2 DEF Ingest
  <2>2. /\ Len(log') = Len(log) + 1 /\ DOMAIN log' = 1..(Len(log) + 1) /\ log' # <<>>
        /\ \A i \in 1..Len(log) : log'[i] = log[i]
        /\ log'[Len(log) + 1] = p
    BY <1>0, <2>1, AppendProperties, LenProperties
  <2>3. \A i \in 1..Len(log) : before < i => log[i].seq \in Nat /\ log[i].seq <= lastSeq
    <3> SUFFICES ASSUME NEW i \in 1..Len(log), before < i
                 PROVE  log[i].seq \in Nat /\ log[i].seq <= lastSeq
      OBVIOUS
    <3>0. Len(log) # before
      <4> DEFINE n == Len(log)
      <4>1. n \in Nat /\ before \in Nat /\ i \in 1..n /\ before < i
        BY <1>0, <1>a
      <4> HIDE DEF n
      <4>2. n # before
        BY <4>1
      <4> QED  BY <4>2 DEF n
    <3>1. log[i].seq \in Nat /\ lastSeq = log[Len(log)].seq
      BY <1>0, <3>0, QueueTyped DEF Kept, LogAscends
    <3>2. CASE i = Len(log)
      BY <3>1, <3>2
    <3>3. CASE i # Len(log)
      <4>1. i \in DOMAIN log /\ Len(log) \in DOMAIN log /\ i < Len(log)
        <5>1. Len(log) \in Nat
          BY <1>0
        <5>2. i < Len(log) /\ Len(log) \in 1..Len(log)
          BY <3>3, <5>1
        <5> QED  BY <1>0, <5>2
      <4>2. log[i].seq <= log[Len(log)].seq
        BY <4>1 DEF Kept, LogAscends
      <4> QED  BY <3>1, <4>2
    <3> QED  BY <3>2, <3>3
  <2>4. LogAscends'
    <3>1. ASSUME NEW i \in 1..(Len(log) + 1), NEW j \in 1..(Len(log) + 1), before < i, i < j
          PROVE  log'[i].seq <= log'[j].seq
      <4>1. i \in 1..Len(log) /\ log'[i] = log[i]
        <5>1. i \in 1..Len(log)
          BY <1>0, <3>1
        <5> QED  BY <2>2, <5>1
      <4>2. CASE j = Len(log) + 1
        BY <1>1, <1>2, <2>2, <2>3, <3>1, <4>1, <4>2
      <4>3. CASE j # Len(log) + 1
        <5>1. j \in 1..Len(log) /\ log'[j] = log[j]
          BY <1>0, <2>2, <4>3
        <5> QED  BY <1>0, <3>1, <4>1, <5>1 DEF Kept, LogAscends
      <4> QED  BY <4>2, <4>3
    <3>2. Len(log') # before' /\ lastSeq' = log'[Len(log')].seq
      <4> DEFINE n == Len(log)
      <4>1. n \in Nat /\ before \in Nat /\ before <= n /\ Len(log') = n + 1 /\ before' = before
        BY <1>0, <1>a, <2>1, <2>2
      <4> HIDE DEF n
      <4>2. Len(log') # before'
        BY <4>1
      <4> QED  BY <2>1, <2>2, <4>2
    <3> QED  BY <2>1, <2>2, <3>1, <3>2 DEF LogAscends
  <2>5. \A q : Written(q) => Written(q)'
    BY <1>0, <2>2 DEF Written
  <2>6. Written(p)'
    BY <1>0, <2>2 DEF Written
  <2>7. \A i \in DOMAIN log' : log'[i] = p \/ Written(log'[i])
    BY <1>0, <2>2 DEF Written
  <2> QED  BY <1>2, <2>1, <2>4, <2>5, <2>6, <2>7
<1>3. CASE ~Claims(p)
  <2>1. lastSeq' = lastSeq /\ log' = log /\ before' = before
    BY <1>3 DEF Ingest
  <2>2. p.seq <= lastSeq
    BY <1>1, <1>3 DEF Claims
  <2>3. lastSeq <= p.seq => Written(p)
    <3> SUFFICES ASSUME lastSeq <= p.seq PROVE Written(p)
      OBVIOUS
    <3>1. Len(log) # before /\ log[Len(log)].seq = p.seq
      BY <1>1, <2>2 DEF Kept, LogAscends
    <3>2. Len(log) \in DOMAIN log /\ log[Len(log)] \in Payload /\ Own(log[Len(log)])
      BY <1>0, <1>a, <3>1, QueueTyped DEF Kept, Owned
    <3> QED  BY <3>1, <3>2, OwnSame DEF Written
  <2>4. LogAscends' /\ (\A q : Written(q) => Written(q)')
    BY <2>1 DEF Kept, LogAscends, Written
  <2>5. \A i \in DOMAIN log' : Written(log'[i])
    BY <2>1 DEF Written
  <2>6. Written(p)' <=> Written(p)
    BY <2>1 DEF Written
  <2> QED  BY <1>3, <2>1, <2>3, <2>4, <2>5, <2>6
<1> QED  BY <1>2, <1>3

\* The hub handles the attempt under way.
LEMMA KeptHubHandles == OrderInv /\ Kept /\ HubHandles => Kept'
<1> SUFFICES ASSUME OrderInv, Kept, HubHandles PROVE Kept'
  OBVIOUS
<1>1. Busy /\ flight.p \in Payload /\ Own(flight.p) /\ lastSeq <= flight.p.seq
  BY WireBusy, SentTyped DEF HubHandles, Kept, Owned, AheadOfHub
<1>2. UNCHANGED <<counter, saved, made, queue, flight, late, acked>> /\ Busy' = Busy
  BY DEF HubHandles, agentVars, diskVars, history, Busy
<1>3. CASE revoked /\ wire' = "ok" /\ void' = void \cup {flight.p}
           /\ UNCHANGED <<lastSeq, seenAge, revoked, keys, log, before, faults>>
  BY <1>2, <1>3 DEF Kept, Counted, Owned, Own, LogAscends, AheadOfHub, Told, Written
<1>4. CASE ~revoked /\ Ingest(flight.p) /\ wire' = "ok"
  <2>1. /\ LogAscends'
        /\ \A i \in DOMAIN log' : log'[i] = flight.p \/ Written(log'[i])
        /\ \A q : Written(q) => Written(q)'
        /\ lastSeq' = (IF Claims(flight.p) THEN flight.p.seq ELSE lastSeq)
        /\ Written(flight.p)'
    <3> DEFINE p == flight.p
    <3>1. p \in Payload /\ Own(p) /\ Ingest(p) /\ lastSeq <= p.seq
      BY <1>1, <1>4
    <3>2. p = flight'.p
      BY <1>2
    <3> HIDE DEF p
    <3>3. /\ LogAscends'
          /\ \A i \in DOMAIN log' : log'[i] = p \/ Written(log'[i])
          /\ \A q : Written(q) => Written(q)'
          /\ lastSeq' = (IF Claims(p) THEN p.seq ELSE lastSeq)
          /\ \E i \in DOMAIN log' : log'[i] = p
      BY <3>1, KeptIngest DEF Written
    <3> QED  BY <3>2, <3>3 DEF p, Written
  <2>2. Owned'
    BY <1>1, <1>2, <2>1 DEF Kept, Owned, Own, Written
  <2>3. ~(seenAge' > Window) /\ void' = void
    BY <1>4, Bounds DEF Ingest
  <2>4. AheadOfHub'
    BY <1>1, <1>2, <2>1, <2>3, SentTyped DEF Kept, AheadOfHub
  <2>5. Told'
    BY <1>2, <1>4, <2>1, <2>3 DEF Kept, Told
  <2> QED  BY <1>2, <2>1, <2>2, <2>4, <2>5 DEF Kept, Counted
<1>5. CASE wire' \in {"bad", "busy"} /\ UNCHANGED hubVars
  BY <1>2, <1>5, KeptSame DEF hubVars
<1> QED  BY <1>3, <1>4, <1>5 DEF HubHandles

\* The hub handles a request that was given up on.
LEMMA KeptLate == OrderInv /\ Kept /\ (\E p \in late : LateHandled(p)) => Kept'
<1> SUFFICES ASSUME OrderInv, Kept, NEW p \in late, LateHandled(p) PROVE Kept'
  OBVIOUS
<1>1. p \in Payload /\ Own(p) /\ p.seq \in Nat /\ lastSeq \in Nat
  BY DEF OrderInv, TypeOK, Kept, Owned, Payload
<1>2. /\ UNCHANGED <<counter, saved, made, queue, flight, wire, acked>> /\ Busy' = Busy
      /\ late' = late \ {p}
  BY DEF LateHandled, agentVars, diskVars, history, Busy
<1>3. CASE ~revoked /\ Ingest(p)
  <2>1. Claims(p) => lastSeq <= p.seq
    BY <1>1 DEF Claims, Kept, AheadOfHub
  <2>2. /\ LogAscends'
        /\ \A i \in DOMAIN log' : log'[i] = p \/ Written(log'[i])
        /\ \A q : Written(q) => Written(q)'
        /\ lastSeq' = (IF Claims(p) THEN p.seq ELSE lastSeq)
    BY <1>1, <1>3, <2>1, KeptIngest
  <2>3. Owned'
    BY <1>1, <1>2, <2>2 DEF Kept, Owned, Own, Written
  <2>4. ~(seenAge' > Window) /\ void' = void
    BY <1>3, Bounds DEF Ingest
  <2>5. AheadOfHub'
    BY <1>2, <2>2, <2>4 DEF Kept, AheadOfHub
  <2>6. Told'
    BY <1>2, <2>2, <2>4 DEF Kept, Told
  <2> QED  BY <1>2, <2>2, <2>3, <2>5, <2>6 DEF Kept, Counted
<1>4. CASE UNCHANGED hubVars
  BY <1>2, <1>4 DEF hubVars, Kept, Counted, Owned, Own, LogAscends, AheadOfHub, Told, Written
<1> QED  BY <1>3, <1>4 DEF LateHandled

\* Given up on: what was under way may still arrive.
LEMMA KeptAttemptEnds ==
  OrderInv /\ Kept /\ (ReplyBusy \/ TimesOut \/ Terminate \/ Crash \/ ReplyUnauthorized \/ ReplyOK
                       \/ ReplyBad \/ PeekDiscards) => Kept'
<1> SUFFICES ASSUME OrderInv, Kept,
                    ReplyBusy \/ TimesOut \/ Terminate \/ Crash \/ ReplyUnauthorized \/ ReplyOK
                    \/ ReplyBad \/ PeekDiscards
             PROVE  Kept'
  OBVIOUS
<1>0. wire # "none" => Busy
  BY WireBusy
<1>1. CASE ReplyBusy
  BY <1>0, <1>1, QueueRetry, KeptEnds DEF ReplyBusy, BackOff, Retry, Busy, hubVars, history
<1>2. CASE TimesOut
  BY <1>0, <1>2, QueueRetry, KeptEnds DEF TimesOut, BackOff, Retry, Abandon, Busy, hubVars,
                                          history
<1>3. CASE Terminate
  <2>1. CASE Busy
    BY <1>3, <2>1, QueueRetry, KeptEnds DEF Terminate, Retry, Abandon, Busy, hubVars, history
  <2>2. CASE ~Busy
    BY <1>3, <2>2, QueueUnchanged, KeptEnds
    DEF Terminate, Busy, netVars, hubVars, history, OrderInv, TypeOK
  <2> QED  BY <2>1, <2>2
<1>4. CASE Crash
  BY <1>4, QueueUnchanged, KeptEnds DEF Crash, Abandon, Busy, diskVars, hubVars, history
<1>5. CASE ReplyUnauthorized
  BY <1>5, QueueUnchanged, KeptEnds DEF ReplyUnauthorized, Busy, diskVars, hubVars, history
<1>6. CASE ReplyOK
  BY <1>0, <1>6, QueueDelivered, KeptEnds DEF ReplyOK, Delivered, Busy, hubVars
<1>7. CASE ReplyBad
  BY <1>0, <1>7, QueueDelivered, KeptEnds DEF ReplyBad, Delivered, Busy, agentVars, hubVars,
                                              history
<1>8. CASE PeekDiscards
  <2>1. From(queue', queue) /\ Len(queue') = Len(queue) - 1
    BY <1>8, QueueTail DEF PeekDiscards, OrderInv, TypeOK
  <2>2. Len(queue) \in Nat /\ QueueMax \in Nat
    BY LenProperties, Bounds DEF OrderInv, TypeOK
  <2>3. QueueKept
    BY <2>1, <2>2 DEF From, QueueKept, OrderInv, TypeOK
  <2> QED  BY <1>8, <2>3, KeptEnds
           DEF PeekDiscards, Busy, agentVars, netVars, hubVars, history, OrderInv, TypeOK
<1> QED  BY <1>1, <1>2, <1>3, <1>4, <1>5, <1>6, <1>7, <1>8

\* The steps that only end, stop or age something.
LEMMA KeptElse ==
  OrderInv /\ Kept /\ (TickUnfollowed \/ RetryTimer \/ DrainEnds \/ HubAuthenticates \/ Revoke \/ Enroll
                       \/ ClockTicks \/ UNCHANGED vars) => Kept'
<1> SUFFICES ASSUME OrderInv, Kept,
                    TickUnfollowed \/ RetryTimer \/ DrainEnds \/ HubAuthenticates \/ Revoke \/ Enroll
                    \/ ClockTicks \/ UNCHANGED vars
             PROVE  Kept'
  OBVIOUS
<1>1. CASE TickUnfollowed
  BY <1>1, KeptSame DEF TickUnfollowed, diskVars, netVars, hubVars, history
<1>2. CASE RetryTimer
  BY <1>2, KeptSame DEF RetryTimer, diskVars, netVars, hubVars, history
<1>3. CASE DrainEnds
  BY <1>3, KeptSame DEF DrainEnds, diskVars, netVars, hubVars, history
<1>4. CASE HubAuthenticates
  BY <1>4, KeptSame DEF HubAuthenticates, agentVars, diskVars, hubVars, history
<1>5. CASE Revoke
  BY <1>5, KeptSame DEF Revoke, agentVars, diskVars, netVars, history
<1>8. CASE Enroll
  <2>1. /\ UNCHANGED <<counter, saved, made, queue, flight, late, log, acked, wire, void>> /\ Busy' = Busy
        /\ lastSeq' = 0 /\ before' = Len(log)
    BY <1>8 DEF Enroll, agentVars, diskVars, netVars, history, Busy
  <2>2. Len(log) \in Nat /\ DOMAIN log = 1..Len(log)
    BY LenProperties DEF OrderInv, TypeOK
  <2>3. LogAscends'
    BY <2>1, <2>2 DEF LogAscends
  <2>4. /\ \A i \in DOMAIN queue : queue[i].seq \in Nat
        /\ \A x \in late : x.seq \in Nat
        /\ Busy => flight.p.seq \in Nat
    BY QueueTyped, SentTyped DEF OrderInv, TypeOK, Payload
  <2>5. AheadOfHub'
    BY <2>1, <2>4 DEF Kept, AheadOfHub
  <2> QED  BY <2>1, <2>3, <2>5 DEF Kept, Counted, Owned, Own, Told, Written
<1>6. CASE ClockTicks
  <2>1. late = {} /\ late' = {} /\ ~Busy /\ ~Busy'
    BY <1>6 DEF ClockTicks, Busy, netVars
  <2> QED  BY <1>6, <2>1 DEF ClockTicks, agentVars, diskVars, netVars,
                             Kept, Counted, Owned, Own, LogAscends, AheadOfHub, Told, Written, Busy
<1>7. CASE UNCHANGED vars
  BY <1>7, KeptSame DEF vars, agentVars, diskVars, netVars, hubVars, history
<1> QED  BY <1>1, <1>2, <1>3, <1>4, <1>5, <1>6, <1>7, <1>8

\* Whether state.json can be lost does not change.
LEMMA FrailSame == [Next]_vars => frail' = frail
BY DEF Next, Runs, vars, Start, TickSends, TickQueues, TickUnfollowed, RetryTimer, DrainSends,
       DrainEnds,
       ReplyOK, ReplyBad, ReplyBusy, ReplyUnauthorized, HubAuthenticates, HubHandles, PeekDiscards,
       TimesOut, Terminate, Crash, Revoke, Enroll, StartAgain, Boot, ClockTicks, LateHandled

\* Every step keeps what is known of the delivery.
LEMMA DeliveryStep == OrderInv /\ DeliveryInv /\ [Next]_vars => DeliveryInv'
<1> SUFFICES ASSUME OrderInv, Kept, ~frail, [Next]_vars PROVE Kept'
  BY FrailSame DEF DeliveryInv
<1> QED  BY KeptStart, KeptTickSends, KeptTickQueues, KeptDrainSends, KeptHubHandles, KeptLate,
            KeptAttemptEnds, KeptElse DEF Next, Runs

\* The invariant holds throughout.
LEMMA Delivers == Spec => [](OrderInv /\ DeliveryInv)
<1>1. Init => DeliveryInv
  BY KeptInit DEF DeliveryInv
<1> QED  BY <1>1, OrderInit, OrderStep, DeliveryStep, PTL DEF Spec

\* A payload the agent was told is accepted was written by the hub, as long as
\* state.json is kept, unless a revocation fell between the look at its token and its
\* transaction, although a number that is not claimed is answered with the same 200:
\* for any window, budget, faults, revocations and enrollments.
THEOREM AcceptedIsWrittenAlways == Spec => []AcceptedIsWritten
<1>1. DeliveryInv => AcceptedIsWritten
  BY DEF DeliveryInv, Kept, Told, Written, AcceptedIsWritten
<1> QED  BY <1>1, Delivers, PTL

-----------------------------------------------------------------------------
(* The log, step by step, and the abstract delivery.                         *)

\* A payload the hub may still be sent.
Sendable(p) == p \in late \/ (Busy /\ p = flight.p)

\* A payload is numbered, or one that was sent is written, or neither.
LEMMA LogMoves ==
  OrderInv /\ [Next]_vars =>
    \/ made' = made + 1 /\ log' = log /\ before' = before
    \/ made' = made /\ log' = log /\ before' \in {before, Len(log)}
    \/ made' = made /\ before' = before
       /\ \E p \in Payload : Sendable(p) /\ Claims(p) /\ log' = Append(log, p)
<1> SUFFICES ASSUME OrderInv, [Next]_vars
             PROVE  \/ made' = made + 1 /\ log' = log /\ before' = before
                    \/ made' = made /\ log' = log /\ before' \in {before, Len(log)}
                    \/ made' = made /\ before' = before
                       /\ \E p \in Payload : Sendable(p) /\ Claims(p) /\ log' = Append(log, p)
  OBVIOUS
<1>1. CASE HubHandles
  <2>1. Busy /\ flight.p \in Payload /\ made' = made
    BY <1>1, WireBusy, SentTyped DEF HubHandles
  <2> QED  BY <1>1, <2>1 DEF HubHandles, hubVars, Ingest, Sendable
<1>2. CASE \E p \in late : LateHandled(p)
  BY <1>2 DEF LateHandled, hubVars, Ingest, Sendable, OrderInv, TypeOK
<1>3. CASE Start \/ StartAgain \/ Runs \/ HubAuthenticates \/ UNCHANGED vars
  BY <1>3 DEF Runs, Start, StartAgain, Boot, TickSends, TickQueues, TickUnfollowed, RetryTimer, DrainSends,
              DrainEnds,
              ReplyOK, ReplyBad, ReplyBusy, ReplyUnauthorized, HubAuthenticates, hubVars, vars
<1>4. CASE PeekDiscards \/ TimesOut \/ Terminate \/ Crash \/ Revoke \/ Enroll \/ ClockTicks
  BY <1>4 DEF PeekDiscards, TimesOut, Terminate, Crash, Revoke, Enroll, ClockTicks, hubVars
<1> QED  BY <1>1, <1>2, <1>3, <1>4 DEF Next

\* What may be sent is neither unknown nor, when it is claimed, behind the hub.
LEMMA SendableAhead ==
  OrderInv /\ Kept => \A p \in Payload : Sendable(p) => Own(p) /\ (Claims(p) => lastSeq <= p.seq)
<1> SUFFICES ASSUME OrderInv, Kept, NEW p \in Payload, Sendable(p)
             PROVE  Own(p) /\ (Claims(p) => lastSeq <= p.seq)
  OBVIOUS
<1>1. p.seq \in Nat /\ lastSeq \in Nat
  BY DEF Payload, OrderInv, TypeOK
<1>2. CASE p \in late
  BY <1>1, <1>2 DEF Kept, Owned, AheadOfHub, Claims
<1>3. CASE Busy /\ p = flight.p
  BY <1>3 DEF Kept, Owned, AheadOfHub
<1> QED  BY <1>2, <1>3 DEF Sendable

\* Since the last enrollment the hub wrote nothing later than last_seq.
LEMMA LogUpto ==
  OrderInv /\ Kept => \A i \in DOMAIN log : i > before => log[i].seq \in Nat /\ log[i].seq <= lastSeq
<1> SUFFICES ASSUME OrderInv, Kept, NEW i \in DOMAIN log, i > before
             PROVE  log[i].seq \in Nat /\ log[i].seq <= lastSeq
  OBVIOUS
<1>1. log \in Seq(Payload) /\ Len(log) \in Nat /\ DOMAIN log = 1..Len(log)
  BY LenProperties DEF OrderInv, TypeOK
<1>2. Len(log) # before /\ i \in Nat /\ i <= Len(log)
  BY <1>1, LogTyped
<1>a. before < Len(log) /\ Len(log) \in DOMAIN log
  BY <1>2, LogTyped
<1>3. log[i].seq \in Nat /\ log[Len(log)].seq \in Nat /\ lastSeq = log[Len(log)].seq
  BY <1>1, <1>2, <1>a, QueueTyped DEF Kept, LogAscends
<1>4. CASE i = Len(log)
  BY <1>3, <1>4
<1>5. CASE i # Len(log)
  <2>1. i < Len(log)
    BY <1>1, <1>2, <1>5
  <2>2. log[i].seq <= log[Len(log)].seq
    BY <1>a, <2>1 DEF Kept, LogAscends
  <2> QED  BY <1>3, <2>2
<1> QED  BY <1>4, <1>5

\* Between two enrollments the claim by last_seq writes a payload a second time only
\* when the hub had heard nothing for the duplicate window, whatever was retried or
\* arrived late.
THEOREM WrittenOnceAlways == Spec => WrittenOnceWithinWindow
<1>1. OrderInv /\ DeliveryInv /\ [Next]_vars =>
        (~frail /\ Len(log') > Len(log)
           /\ (\E i \in DOMAIN log : i > before /\ log[i] = log'[Len(log')])
           => seenAge > Window)
  <2> SUFFICES ASSUME OrderInv, Kept, [Next]_vars, Len(log') > Len(log),
                      NEW i \in DOMAIN log, i > before, log[i] = log'[Len(log')]
               PROVE  seenAge > Window
    BY DEF DeliveryInv
  <2>1. log \in Seq(Payload) /\ Len(log) \in Nat
    BY LenProperties DEF OrderInv, TypeOK
  <2>2. PICK p \in Payload : Claims(p) /\ log' = Append(log, p)
    BY <2>1, LogMoves
  <2>3. log'[Len(log')] = p
    BY <2>1, <2>2, AppendProperties
  <2>4. p.seq \in Nat /\ lastSeq \in Nat /\ p.seq <= lastSeq
    BY <2>3, LogUpto DEF OrderInv, TypeOK
  <2> QED  BY <2>2, <2>4 DEF Claims
<1>2. OrderInv /\ DeliveryInv /\ [Next]_vars =>
        [~frail /\ Len(log') > Len(log)
           /\ (\E i \in DOMAIN log : i > before /\ log[i] = log'[Len(log')])
           => seenAge > Window]_vars
  BY <1>1
<1> QED  BY <1>2, Delivers, PTL DEF Spec, WrittenOnceWithinWindow

\* The ids of a log.
Ids(l) == [i \in DOMAIN l |-> l[i].id]

\* The payloads written, by their number of collection.
LEMMA IdsTyped ==
  ASSUME NEW l \in Seq(Payload)
  PROVE  /\ Ids(l) \in Seq(Nat) /\ Len(Ids(l)) = Len(l) /\ DOMAIN Ids(l) = 1..Len(l)
         /\ \A i \in 1..Len(l) : Ids(l)[i] = l[i].id
<1>1. Len(l) \in Nat /\ DOMAIN l = 1..Len(l) /\ \A i \in DOMAIN l : l[i].id \in Nat
  BY LenProperties, QueueTyped
<1>2. Ids(l) \in [1..Len(l) -> Nat]
  BY <1>1 DEF Ids
<1> QED  BY <1>1, <1>2, ListIsSequence DEF Ids

\* One more is written.
LEMMA IdsAppend ==
  ASSUME NEW l \in Seq(Payload), NEW p \in Payload
  PROVE  Ids(Append(l, p)) = Append(Ids(l), p.id)
<1> DEFINE m == Append(l, p)
<1> DEFINE n == Append(Ids(l), p.id)
<1>0. Len(l) \in Nat /\ p.id \in Nat
  BY LenProperties DEF Payload
<1>1. /\ m \in Seq(Payload) /\ Len(m) = Len(l) + 1
      /\ \A i \in 1..Len(l) : m[i] = l[i]
      /\ m[Len(l) + 1] = p
  BY AppendProperties
<1>2. /\ n \in Seq(Nat) /\ Len(n) = Len(l) + 1
      /\ \A i \in 1..Len(l) : n[i] = l[i].id
      /\ n[Len(l) + 1] = p.id
  BY <1>0, IdsTyped, AppendProperties
<1> HIDE DEF m, n
<1>3. /\ Ids(m) \in Seq(Nat) /\ Len(Ids(m)) = Len(l) + 1
      /\ \A i \in 1..(Len(l) + 1) : Ids(m)[i] = m[i].id
  BY <1>1, IdsTyped
<1>4. ASSUME NEW i \in 1..(Len(l) + 1) PROVE Ids(m)[i] = n[i]
  <2>1. Ids(m)[i] = m[i].id
    BY <1>3
  <2>2. CASE i = Len(l) + 1
    BY <1>1, <1>2, <2>1, <2>2
  <2>3. CASE i # Len(l) + 1
    <3>1. i \in 1..Len(l)
      BY <1>0, <2>3
    <3> QED  BY <1>1, <1>2, <2>1, <3>1
  <2> QED  BY <2>2, <2>3
<1>5. Ids(m) = n
  BY <1>2, <1>3, <1>4, SeqEqual
<1> QED  BY <1>5 DEF m, n

\* The agent and the ingest endpoint implement the ordered delivery: between two
\* enrollments samples are written in the order in which they were collected, and again
\* only right after themselves.  Every step offers a payload, writes one, begins the
\* order anew or changes nothing.
THEOREM Implements == Spec => ImplementsDelivery
<1>1. Init => Abstract!Init
  <2> SUFFICES ASSUME Init PROVE Ids(log) = <<>>
    BY DEF Init, Abstract!Init, Ids
  <2>1. <<>> \in Seq(Payload) /\ Len(<<>>) = 0
    BY EmptySeq
  <2>2. Ids(<<>>) \in Seq(Nat) /\ Len(Ids(<<>>)) = 0
    BY <2>1, IdsTyped
  <2> QED  BY <2>2, EmptySeq DEF Init
<1>2. OrderInv /\ DeliveryInv /\ [Next]_vars =>
        [Abstract!Offer \/ Abstract!Write \/ Abstract!Enroll]_<<
            IF frail THEN 0 ELSE made,
            IF frail THEN <<>> ELSE [i \in DOMAIN log |-> log[i].id],
            IF frail THEN 0 ELSE before>>
  <2> SUFFICES ASSUME OrderInv, DeliveryInv, [Next]_vars
               PROVE  [Abstract!Offer \/ Abstract!Write \/ Abstract!Enroll]_<<
                          IF frail THEN 0 ELSE made,
                          IF frail THEN <<>> ELSE [i \in DOMAIN log |-> log[i].id],
                          IF frail THEN 0 ELSE before>>
    OBVIOUS
  <2>0. frail' = frail
    BY FrailSame
  <2>1. CASE frail
    BY <2>0, <2>1
  <2>2. CASE ~frail
    <3>0. /\ log \in Seq(Payload) /\ made \in Nat /\ Len(log) \in Nat /\ before \in 0..Len(log)
          /\ Ids(log) \in Seq(Nat) /\ Len(Ids(log)) = Len(log) /\ DOMAIN log = 1..Len(log)
          /\ \A i \in 1..Len(log) : Ids(log)[i] = log[i].id
      BY Bounds, IdsTyped, LenProperties DEF OrderInv, TypeOK
    <3>1. Kept
      BY <2>2 DEF DeliveryInv
    <3>2. CASE made' = made + 1 /\ log' = log /\ before' = before
      BY <2>0, <2>2, <3>2 DEF Abstract!Offer
    <3>3. CASE made' = made /\ log' = log /\ before' = before
      BY <2>0, <3>3
    <3>5. CASE made' = made /\ log' = log /\ before' = Len(log)
      <4>1. before' = Len([i \in DOMAIN log |-> log[i].id])
        BY <3>0, <3>5 DEF Ids
      <4> QED  BY <2>0, <2>2, <3>5, <4>1 DEF Abstract!Enroll
    <3>4. ASSUME made' = made, before' = before,
                 NEW p \in Payload, Sendable(p), Claims(p), log' = Append(log, p)
          PROVE  Abstract!Write
      <4>2. Ids(log') = Append(Ids(log), p.id)
        BY <3>0, <3>4, IdsAppend
      <4>3. p.id \in 1..made /\ lastSeq <= p.id /\ lastSeq \in Nat
        BY <3>1, <3>4, SendableAhead DEF Own, OrderInv, TypeOK
      <4>4. (IF Len(Ids(log)) = before THEN 0 ELSE Ids(log)[Len(Ids(log))]) <= p.id
        <5>1. CASE Len(Ids(log)) = before
          BY <3>0, <4>3, <5>1
        <5>2. CASE Len(Ids(log)) # before
          <6>1. Len(log) \in 1..Len(log) /\ Len(log) # before
            BY <3>0, <5>2
          <6>2. Ids(log)[Len(log)] = lastSeq
            BY <3>0, <3>1, <6>1 DEF Kept, Owned, Own, LogAscends
          <6> QED  BY <3>0, <4>3, <5>2, <6>2
        <5> QED  BY <5>1, <5>2
      <4> QED  BY <2>0, <2>2, <3>4, <4>2, <4>3, <4>4 DEF Abstract!Write, Abstract!Last, Ids
    <3> QED  BY <3>2, <3>3, <3>4, <3>5, LogMoves
  <2> QED  BY <2>1, <2>2
<1> QED  BY <1>1, <1>2, Delivers, PTL DEF Spec, ImplementsDelivery, Abstract!Spec

-----------------------------------------------------------------------------
(* The configuration: types.                                                 *)

\* Every version and every token cost a change.
Costed == Config!Version <= changes + 1 /\ issued <= changes + 1

\* A pushed configuration has a version.
Pushed == answer.kind = "config" => answer.ver # 0

\* The inductive invariant of the configuration.
ConfigTypeInv == Config!TypeOK /\ Costed /\ Pushed /\ MaxChanges \in Nat

\* A step of the whole is a step of the configuration, or leaves it alone.
LEMMA ConfigSteps == [HostAgentNext]_agentAndHub => [Config!Next]_(Config!vars)
BY DEF HostAgentNext, agentAndHub, ofConfig, Config!vars, Config!hub, Config!host, Config!bounds

\* The version in force is a list of services.
LEMMA CurrentTyped ==
  ASSUME MaxChanges \in Nat, watch \in Seq(SUBSET Service), Config!Version \in Config!Versions
  PROVE  Config!Current \in SUBSET Service /\ Config!Version \in Nat /\ Config!Version >= 1
BY Bounds DEF Config!Current, Config!Version, Config!Versions

\* The configuration starts as version 1.
LEMMA TypeInit == MaxChanges \in Nat /\ Config!Init => ConfigTypeInv
<1> SUFFICES ASSUME MaxChanges \in Nat, Config!Init PROVE ConfigTypeInv
  OBVIOUS
<1>0. PICK w \in SUBSET Service : watch = <<w>>
  BY DEF Config!Init
<1>1. /\ watch \in Seq(SUBSET Service) /\ Len(watch) = 1 /\ watch[1] \in SUBSET Service
  BY <1>0
<1>2. Config!Version = 1 /\ Config!Current \in SUBSET Service
  BY <1>1 DEF Config!Version, Config!Current
<1>3. 1 \in Config!Versions /\ 1 \in Config!Tokens /\ 0 \in 0..MaxChanges /\ 0 \in 0..MaxFaults
  BY Bounds DEF Config!Versions, Config!Tokens
<1> QED  BY <1>1, <1>2, <1>3 DEF Config!Init, ConfigTypeInv, Config!TypeOK, Costed, Pushed,
                                 Config!NoState, Config!NoAnswer

\* What a step of the agent, the network or the ingest leaves of the types.
HubTyped ==
  /\ watch \in Seq(SUBSET Service) /\ Config!Version \in Config!Versions
  /\ active \in BOOLEAN
  /\ token \in 0..issued /\ issued \in Config!Tokens

\* The parts that do not change are as well typed as before.
LEMMA HubSame == ConfigTypeInv /\ UNCHANGED <<watch, active, token, issued>> => HubTyped' /\ Config!Version' = Config!Version
                                                                        /\ Config!Current' = Config!Current
BY DEF ConfigTypeInv, Config!TypeOK, HubTyped, Config!Version, Config!Versions, Config!Tokens,
       Config!Current

\* Another fault, another change.
LEMMA ConfigFaultTyped == ConfigTypeInv /\ Config!Fault => configFaults' \in 0..MaxFaults /\ changes' = changes
BY Bounds DEF Config!Fault, ConfigTypeInv, Config!TypeOK

\* A change is counted.
LEMMA ChangeTyped == ConfigTypeInv /\ Config!Change => /\ changes' \in 0..MaxChanges /\ changes' = changes + 1
                                          /\ configFaults' = configFaults
BY Bounds DEF Config!Change, ConfigTypeInv, Config!TypeOK

\* Reports that nobody waits for are reports.
LEMMA AbandonedTyped == net \subseteq Config!ReportType => Config!Abandoned \subseteq Config!ReportType
<1> SUFFICES ASSUME net \subseteq Config!ReportType, NEW q \in net
             PROVE  [q EXCEPT !.live = FALSE] \in Config!ReportType
  BY DEF Config!Abandoned
<1>1. q \in Config!ReportType
  OBVIOUS
<1> QED  BY <1>1 DEF Config!ReportType

\* The configuration an agent starts with is typed.
LEMMA TypeStarts == ConfigTypeInv /\ Config!Starts => ConfigTypeInv'
<1> SUFFICES ASSUME ConfigTypeInv, Config!Starts PROVE ConfigTypeInv'
  OBVIOUS
<1>1. HubTyped' /\ Config!Version' = Config!Version /\ Config!Current' = Config!Current
  BY HubSame DEF Config!Starts, Config!hub
<1>2. Config!Version >= 1 /\ Config!Version \in Nat
  BY CurrentTyped DEF ConfigTypeInv, Config!TypeOK
<1>3. file.token \in 0..issued /\ file.cfg \in SUBSET Service
      /\ state.ver \in 0..Config!Version /\ state.cfg \in SUBSET Service
  BY <1>2, Bounds DEF ConfigTypeInv, Config!TypeOK, Config!Tokens
<1>4. (IF state.ver # 0 THEN state.ver ELSE 1) \in 1..Config!Version
      /\ (IF state.ver # 0 THEN state.cfg ELSE file.cfg) \in SUBSET Service
  BY <1>2, <1>3
<1>5. run' \in [pc: {"off", "ready", "waiting", "refused"}, tok: 0..issued, ver: 1..Config!Version,
                cfg: SUBSET Service]
  BY <1>3, <1>4 DEF Config!Starts
<1> QED  BY <1>1, <1>5 DEF Config!Starts, Config!hub, Config!host, Config!bounds, ConfigTypeInv,
                           Config!TypeOK, HubTyped, Costed, Pushed

\* A report names the agent's token and version.
LEMMA TypeReports == ConfigTypeInv /\ Config!Reports => ConfigTypeInv'
<1> SUFFICES ASSUME ConfigTypeInv, Config!Reports PROVE ConfigTypeInv'
  OBVIOUS
<1>1. HubTyped' /\ Config!Version' = Config!Version /\ Config!Current' = Config!Current
  BY HubSame DEF Config!Reports, Config!hub
<1>2. run.tok \in Config!Tokens /\ run.ver \in Config!Versions /\ run.cfg \in SUBSET Service
  BY Bounds DEF ConfigTypeInv, Config!TypeOK, Config!Tokens, Config!Versions
<1>3. net' \subseteq Config!ReportType
  <2>1. PICK beat \in BOOLEAN :
          net' = net \cup {[tok |-> run.tok, ver |-> run.ver, cfg |-> run.cfg, beat |-> beat,
                            live |-> TRUE, stale |-> FALSE, seen |-> 0]}
    BY DEF Config!Reports
  <2>2. [tok |-> run.tok, ver |-> run.ver, cfg |-> run.cfg, beat |-> beat,
         live |-> TRUE, stale |-> FALSE, seen |-> 0] \in Config!ReportType
    BY <1>2 DEF Config!ReportType
  <2> QED  BY <2>1, <2>2 DEF ConfigTypeInv, Config!TypeOK
<1>4. run' \in [pc: {"off", "ready", "waiting", "refused"}, tok: 0..issued, ver: 1..Config!Version,
                cfg: SUBSET Service]
  BY DEF Config!Reports, ConfigTypeInv, Config!TypeOK
<1> QED  BY <1>1, <1>3, <1>4 DEF Config!Reports, Config!hub, Config!host, Config!bounds,
                                 ConfigTypeInv, Config!TypeOK, HubTyped, Costed, Pushed

\* What is adopted is what was pushed.
LEMMA TypeGetsConfig == ConfigTypeInv /\ Config!GetsConfig => ConfigTypeInv'
<1> SUFFICES ASSUME ConfigTypeInv, Config!GetsConfig PROVE ConfigTypeInv'
  OBVIOUS
<1>1. HubTyped' /\ Config!Version' = Config!Version /\ Config!Current' = Config!Current
  BY HubSame DEF Config!GetsConfig, Config!hub
<1>2. answer.ver \in 1..Config!Version /\ answer.cfg \in SUBSET Service
  BY Bounds DEF Config!GetsConfig, ConfigTypeInv, Config!TypeOK, Pushed, Config!Versions
<1>3. run' \in [pc: {"off", "ready", "waiting", "refused"}, tok: 0..issued, ver: 1..Config!Version,
                cfg: SUBSET Service]
  BY <1>2 DEF Config!GetsConfig, ConfigTypeInv, Config!TypeOK
<1>4. state' \in [ver: 0..Config!Version, cfg: SUBSET Service]
  BY <1>2 DEF Config!GetsConfig, ConfigTypeInv, Config!TypeOK
<1>5. configFaults' \in 0..MaxFaults /\ changes' = changes
  BY ConfigFaultTyped DEF Config!GetsConfig, Config!bounds, ConfigTypeInv, Config!TypeOK
<1>6. answer' \in [kind: {"none", "ok", "config", "refused"}, ver: 0..Config!Version, cfg: SUBSET Service]
      /\ Pushed'
  BY CurrentTyped DEF Config!GetsConfig, Config!NoAnswer, Pushed, ConfigTypeInv, Config!TypeOK
<1> QED  BY <1>1, <1>3, <1>4, <1>5, <1>6 DEF Config!GetsConfig, Config!hub, ConfigTypeInv,
                                             Config!TypeOK, HubTyped, Costed

\* The agent goes on, is refused, times out or dies.
LEMMA TypeAgentElse == ConfigTypeInv /\ (Config!GetsAnswer \/ Config!TimesOut \/ Config!AgentDies) => ConfigTypeInv'
<1> SUFFICES ASSUME ConfigTypeInv, Config!GetsAnswer \/ Config!TimesOut \/ Config!AgentDies PROVE ConfigTypeInv'
  OBVIOUS
<1>1. HubTyped' /\ Config!Version' = Config!Version /\ Config!Current' = Config!Current
  BY HubSame DEF Config!GetsAnswer, Config!TimesOut, Config!AgentDies, Config!hub
<1>2. run' \in [pc: {"off", "ready", "waiting", "refused"}, tok: 0..issued, ver: 1..Config!Version,
                cfg: SUBSET Service]
  BY DEF Config!GetsAnswer, Config!TimesOut, Config!AgentDies, ConfigTypeInv, Config!TypeOK
<1>3. net' \subseteq Config!ReportType
  BY AbandonedTyped DEF Config!GetsAnswer, Config!TimesOut, Config!AgentDies, ConfigTypeInv,
                        Config!TypeOK
<1>4. configFaults' \in 0..MaxFaults /\ changes' = changes
  BY ConfigFaultTyped DEF Config!GetsAnswer, Config!TimesOut, Config!AgentDies, Config!bounds,
                          ConfigTypeInv, Config!TypeOK
<1>5. answer' \in [kind: {"none", "ok", "config", "refused"}, ver: 0..Config!Version, cfg: SUBSET Service]
      /\ Pushed'
  BY CurrentTyped DEF Config!GetsAnswer, Config!TimesOut, Config!AgentDies, Config!NoAnswer,
                      Pushed, ConfigTypeInv, Config!TypeOK
<1> QED  BY <1>1, <1>2, <1>3, <1>4, <1>5
         DEF Config!GetsAnswer, Config!TimesOut, Config!AgentDies, Config!hub, Config!host,
             ConfigTypeInv, Config!TypeOK, HubTyped, Costed

\* The version read with the token is a version.
LEMMA TypeAuthenticates ==
  ASSUME ConfigTypeInv, NEW q \in net, Config!Authenticates(q) PROVE ConfigTypeInv'
<1>1. HubTyped' /\ Config!Version' = Config!Version /\ Config!Current' = Config!Current
  BY HubSame DEF Config!Authenticates, Config!hub
<1>2. q \in Config!ReportType
  BY DEF ConfigTypeInv, Config!TypeOK
<1>3. [q EXCEPT !.seen = Config!Version] \in Config!ReportType
  BY <1>2 DEF Config!ReportType, ConfigTypeInv, Config!TypeOK
<1>4. net' \subseteq Config!ReportType
  BY <1>3 DEF Config!Authenticates, ConfigTypeInv, Config!TypeOK
<1>5. answer' \in [kind: {"none", "ok", "config", "refused"}, ver: 0..Config!Version, cfg: SUBSET Service]
      /\ Pushed'
  BY CurrentTyped DEF Config!Authenticates, Config!NoAnswer, Pushed, ConfigTypeInv, Config!TypeOK
<1> QED  BY <1>1, <1>4, <1>5
         DEF Config!Authenticates, Config!hub, Config!host, Config!bounds, ConfigTypeInv,
             Config!TypeOK, HubTyped, Costed

\* The services kept are services, and what is pushed is the version in force.
LEMMA TypeHandles ==
  ASSUME ConfigTypeInv, NEW q \in net, Config!Handles(q) PROVE ConfigTypeInv'
<1>1. HubTyped' /\ Config!Version' = Config!Version /\ Config!Current' = Config!Current
  BY HubSame DEF Config!Handles
<1>2. q \in Config!ReportType /\ Config!Current \in SUBSET Service /\ Config!Version \in Nat /\ Config!Version >= 1
  BY CurrentTyped DEF ConfigTypeInv, Config!TypeOK
<1>3. q.cfg \in SUBSET Service
  BY <1>2 DEF Config!ReportType
<1>4. rows' \subseteq Service
  BY <1>3 DEF Config!Handles, Config!Reported, ConfigTypeInv, Config!TypeOK
<1>5. \A r \in net : [r EXCEPT !.stale = TRUE] \in Config!ReportType
  <2> SUFFICES ASSUME NEW r \in net PROVE [r EXCEPT !.stale = TRUE] \in Config!ReportType
    OBVIOUS
  <2>1. r \in Config!ReportType
    BY DEF ConfigTypeInv, Config!TypeOK
  <2> QED  BY <2>1 DEF Config!ReportType
<1>6. net' \subseteq Config!ReportType
  BY <1>5 DEF Config!Handles, ConfigTypeInv, Config!TypeOK
<1>7. Config!AnswerTo(q) \in [kind: {"none", "ok", "config", "refused"}, ver: 0..Config!Version, cfg: SUBSET Service]
      /\ (Config!AnswerTo(q).kind = "config" => Config!AnswerTo(q).ver # 0)
  BY <1>2 DEF Config!AnswerTo, Config!NoAnswer
<1>8. answer' \in [kind: {"none", "ok", "config", "refused"}, ver: 0..Config!Version, cfg: SUBSET Service]
      /\ Pushed'
  BY <1>7 DEF Config!Handles, Pushed, ConfigTypeInv, Config!TypeOK
<1> QED  BY <1>1, <1>4, <1>6, <1>8
         DEF Config!Handles, Config!host, Config!bounds, ConfigTypeInv, Config!TypeOK, HubTyped,
             Costed

\* An edit is one more version.
LEMMA TypePatches ==
  ASSUME ConfigTypeInv, NEW w \in SUBSET Service, Config!Patches(w) PROVE ConfigTypeInv'
<1>1. changes' \in 0..MaxChanges /\ changes' = changes + 1 /\ configFaults' = configFaults
  BY ChangeTyped DEF Config!Patches
<1>2. watch' \in Seq(SUBSET Service) /\ Config!Version' = Config!Version + 1
  BY DEF Config!Patches, Config!Version, ConfigTypeInv, Config!TypeOK
<1>3. Config!Version \in Nat /\ Config!Version >= 1
  BY CurrentTyped DEF ConfigTypeInv, Config!TypeOK
<1>4. Config!Version' \in Config!Versions /\ Costed'
  BY <1>1, <1>2, <1>3, Bounds DEF Config!Versions, ConfigTypeInv, Config!TypeOK, Costed,
                                  Config!Patches, Config!Tokens
<1>5. run' \in [pc: {"off", "ready", "waiting", "refused"}, tok: 0..issued, ver: 1..Config!Version',
                cfg: SUBSET Service]
  <2>1. 1..Config!Version \subseteq 1..Config!Version'
    BY <1>2, <1>3
  <2> QED  BY <2>1 DEF Config!Patches, ConfigTypeInv, Config!TypeOK
<1>6. state' \in [ver: 0..Config!Version', cfg: SUBSET Service]
      /\ answer' \in [kind: {"none", "ok", "config", "refused"}, ver: 0..Config!Version', cfg: SUBSET Service]
  <2>1. 0..Config!Version \subseteq 0..Config!Version'
    BY <1>2, <1>3
  <2> QED  BY <2>1 DEF Config!Patches, Config!host, ConfigTypeInv, Config!TypeOK
<1>7. rows' \subseteq Service /\ Pushed'
  BY DEF Config!Patches, Pushed, ConfigTypeInv, Config!TypeOK
<1> QED  BY <1>1, <1>2, <1>4, <1>5, <1>6, <1>7 DEF Config!Patches, Config!host, ConfigTypeInv,
                                                   Config!TypeOK

\* A revocation takes the token away.
LEMMA TypeRevokes == ConfigTypeInv /\ Config!Revokes => ConfigTypeInv'
<1> SUFFICES ASSUME ConfigTypeInv, Config!Revokes PROVE ConfigTypeInv'
  OBVIOUS
<1>1. changes' \in 0..MaxChanges /\ changes' = changes + 1 /\ configFaults' = configFaults
  BY ChangeTyped DEF Config!Revokes
<1>2. Config!Version' = Config!Version /\ Config!Version \in Nat /\ 0 \in 0..issued /\ issued \in Nat
  BY CurrentTyped, Bounds DEF Config!Revokes, Config!Version, ConfigTypeInv, Config!TypeOK,
                              Config!Tokens
<1>3. Costed'
  BY <1>1, <1>2 DEF Costed, ConfigTypeInv, Config!TypeOK, Config!Revokes
<1> QED  BY <1>1, <1>2, <1>3 DEF Config!Revokes, Config!host, ConfigTypeInv, Config!TypeOK,
                                 Pushed, Config!Versions, Config!Tokens

\* An enrollment is one more token.
LEMMA TypeEnrolls == ConfigTypeInv /\ Config!Enrolls => ConfigTypeInv'
<1> SUFFICES ASSUME ConfigTypeInv, Config!Enrolls PROVE ConfigTypeInv'
  OBVIOUS
<1>1. changes' \in 0..MaxChanges /\ changes' = changes + 1 /\ configFaults' = configFaults
  BY ChangeTyped DEF Config!Enrolls
<1>2. Config!Version' = Config!Version /\ Config!Current \in SUBSET Service /\ issued \in Nat /\ Config!Version \in Nat
  BY CurrentTyped, Bounds DEF Config!Enrolls, Config!Version, ConfigTypeInv, Config!TypeOK,
                              Config!Tokens
<1>3. issued' = issued + 1 /\ issued' \in Config!Tokens /\ Costed'
  BY <1>1, <1>2, Bounds DEF Config!Enrolls, Config!Tokens, Costed, ConfigTypeInv, Config!TypeOK
<1>4. 0..issued \subseteq 0..issued' /\ 1..issued \subseteq 1..issued' /\ issued' \in 1..issued'
  BY <1>2, <1>3
<1>5. file' \in [token: 1..issued', cfg: SUBSET Service]
  BY <1>2, <1>4 DEF Config!Enrolls, ConfigTypeInv, Config!TypeOK
<1>6. run' \in [pc: {"off", "ready", "waiting", "refused"}, tok: 0..issued', ver: 1..Config!Version,
                cfg: SUBSET Service]
  BY <1>4 DEF Config!Enrolls, ConfigTypeInv, Config!TypeOK
<1>7. token' \in 0..issued'
  BY <1>4, <1>2, <1>3 DEF Config!Enrolls
<1>8. net' \subseteq Config!ReportType
  <2> SUFFICES ASSUME NEW q \in net PROVE [q EXCEPT !.stale = FALSE] \in Config!ReportType
    BY DEF Config!Enrolls
  <2>1. q \in Config!ReportType
    BY DEF ConfigTypeInv, Config!TypeOK
  <2> QED  BY <2>1 DEF Config!ReportType
<1> QED  BY <1>1, <1>2, <1>3, <1>5, <1>6, <1>7, <1>8 DEF Config!Enrolls, ConfigTypeInv, Config!TypeOK,
                                                   Pushed, Config!Versions

\* Every step keeps the types.
LEMMA TypeNext == ConfigTypeInv /\ [Config!Next]_(Config!vars) => ConfigTypeInv'
<1> SUFFICES ASSUME ConfigTypeInv, [Config!Next]_(Config!vars) PROVE ConfigTypeInv'
  OBVIOUS
<1>1. CASE Config!Agent \/ Config!TimesOut \/ Config!AgentDies
  BY <1>1, TypeStarts, TypeReports, TypeGetsConfig, TypeAgentElse DEF Config!Agent
<1>2. CASE Config!Ingest
  BY <1>2, TypeAuthenticates, TypeHandles DEF Config!Ingest
<1>3. CASE (\E w \in SUBSET Service : Config!Patches(w)) \/ Config!Revokes \/ Config!Enrolls
  BY <1>3, TypePatches, TypeRevokes, TypeEnrolls
<1>4. CASE UNCHANGED Config!vars
  BY <1>4 DEF Config!vars, Config!hub, Config!host, Config!bounds, ConfigTypeInv, Config!TypeOK,
              Costed, Pushed, Config!Version, Config!Versions, Config!Tokens
<1> QED  BY <1>1, <1>2, <1>3, <1>4 DEF Config!Next

\* Every variable keeps its type, for any services and any number of changes and
\* faults.
THEOREM ConfigTypeCorrect == HostAgentSpec => []Config!TypeOK
<1>1. HostAgentInit => ConfigTypeInv
  BY TypeInit, ChangesAssumption DEF HostAgentInit
<1>2. ConfigTypeInv /\ [HostAgentNext]_agentAndHub => ConfigTypeInv'
  BY TypeNext, ConfigSteps
<1>3. ConfigTypeInv => Config!TypeOK
  BY DEF ConfigTypeInv
<1> QED  BY <1>1, <1>2, <1>3, PTL DEF HostAgentSpec

-----------------------------------------------------------------------------
(* The configuration: a version names one.                                   *)

\* Whatever is, or will become, the agent's configuration under the version in
\* force is the one in force.  The one of an enrollment will count as version 1.
Named ==
  /\ Config!AgreementMeansSame
  /\ Config!Agrees(1, file.cfg)
  /\ answer.kind = "config" => Config!Agrees(answer.ver, answer.cfg)

\* The configuration of the first enrollment is version 1.
LEMMA NamedInit == Config!Init => Named
BY DEF Config!Init, Named, Config!AgreementMeansSame, Config!Agrees, Config!Version,
       Config!Current, Config!NoState, Config!NoAnswer

\* Every step keeps the names right.
LEMMA NamedNext == ConfigTypeInv /\ Named /\ [Config!Next]_(Config!vars) => Named'
<1> SUFFICES ASSUME ConfigTypeInv, Named, [Config!Next]_(Config!vars) PROVE Named'
  OBVIOUS
<1>0. Config!Version \in Nat /\ Config!Version >= 1 /\ run.ver <= Config!Version /\ state.ver <= Config!Version
      /\ answer.ver <= Config!Version /\ run.ver \in Nat /\ state.ver \in Nat /\ answer.ver \in Nat
  BY CurrentTyped DEF ConfigTypeInv, Config!TypeOK
<1>1. ASSUME Config!Starts PROVE Named'
  <2>1. watch' = watch /\ file' = file /\ state' = state /\ answer' = answer
    BY <1>1 DEF Config!Starts, Config!hub, Config!host
  <2>2. run'.ver = Config!Version => run'.cfg = Config!Current
    BY <1>1, <1>0 DEF Config!Starts, Named, Config!AgreementMeansSame, Config!Agrees
  <2> QED  BY <2>1, <2>2 DEF Named, Config!AgreementMeansSame, Config!Agrees, Config!Version,
                             Config!Current
<1>2. ASSUME Config!Reports \/ Config!GetsAnswer \/ Config!TimesOut \/ Config!AgentDies PROVE Named'
  <2>1. watch' = watch /\ file' = file /\ state' = state
    BY <1>2 DEF Config!Reports, Config!GetsAnswer, Config!TimesOut, Config!AgentDies, Config!hub,
                Config!host
  <2>2. answer'.kind = "config" => answer' = answer
    BY <1>2 DEF Config!Reports, Config!GetsAnswer, Config!TimesOut, Config!AgentDies,
                Config!NoAnswer
  <2>3. run'.pc # "off" => run.pc # "off" /\ run'.ver = run.ver /\ run'.cfg = run.cfg
    BY <1>2 DEF Config!Reports, Config!GetsAnswer, Config!TimesOut, Config!AgentDies,
                ConfigTypeInv, Config!TypeOK
  <2> QED  BY <2>1, <2>2, <2>3 DEF Named, Config!AgreementMeansSame, Config!Agrees,
                                   Config!Version, Config!Current
<1>3. ASSUME Config!GetsConfig PROVE Named'
  <2>1. watch' = watch /\ file' = file /\ answer'.kind # "config"
    BY <1>3 DEF Config!GetsConfig, Config!hub, Config!NoAnswer
  <2>2. run'.ver = answer.ver /\ run'.cfg = answer.cfg
    BY <1>3 DEF Config!GetsConfig, ConfigTypeInv, Config!TypeOK
  <2>3. state' = state \/ (state'.ver = answer.ver /\ state'.cfg = answer.cfg)
    BY <1>3 DEF Config!GetsConfig
  <2>4. Config!Agrees(answer.ver, answer.cfg)
    BY <1>3 DEF Config!GetsConfig, Named
  <2> QED  BY <2>1, <2>2, <2>3, <2>4 DEF Named, Config!AgreementMeansSame, Config!Agrees,
                                         Config!Version, Config!Current
<1>4. ASSUME Config!Ingest PROVE Named'
  <2>1. watch' = watch /\ file' = file /\ state' = state /\ run' = run
    BY <1>4 DEF Config!Ingest, Config!Authenticates, Config!Handles, Config!hub, Config!host
  <2>2. PICK q \in net : Config!Authenticates(q) \/ Config!Handles(q)
    BY <1>4 DEF Config!Ingest
  <2>3. answer' = answer \/ answer'.kind # "config" \/ answer' = Config!AnswerTo(q)
    BY <2>2 DEF Config!Authenticates, Config!Handles, Config!NoAnswer
  <2>4. Config!AnswerTo(q).kind = "config" => Config!AnswerTo(q).cfg = Config!Current
    BY DEF Config!AnswerTo, Config!NoAnswer
  <2> QED  BY <2>1, <2>3, <2>4 DEF Named, Config!AgreementMeansSame, Config!Agrees,
                                   Config!Version, Config!Current
<1>5. ASSUME NEW w \in SUBSET Service, Config!Patches(w) PROVE Named'
  <2>1. Config!Version' = Config!Version + 1
    BY <1>5 DEF Config!Patches, Config!Version, ConfigTypeInv, Config!TypeOK
  <2>2. file' = file /\ state' = state /\ run' = run /\ answer' = answer
    BY <1>5 DEF Config!Patches, Config!host
  <2> QED  BY <1>0, <2>1, <2>2 DEF Named, Config!AgreementMeansSame, Config!Agrees
<1>6. ASSUME Config!Revokes \/ Config!Enrolls PROVE Named'
  <2>1. watch' = watch /\ state' = state /\ run' = run /\ answer' = answer
    BY <1>6 DEF Config!Revokes, Config!Enrolls, Config!host
  <2>2. file'.cfg = file.cfg \/ file'.cfg = Config!Current
    BY <1>6 DEF Config!Revokes, Config!Enrolls, Config!host
  <2> QED  BY <2>1, <2>2 DEF Named, Config!AgreementMeansSame, Config!Agrees, Config!Version,
                             Config!Current
<1>7. CASE UNCHANGED Config!vars
  BY <1>7 DEF Config!vars, Config!hub, Config!host, Config!bounds, Named,
              Config!AgreementMeansSame, Config!Agrees, Config!Version, Config!Current
<1> QED  BY <1>1, <1>2, <1>3, <1>4, <1>5, <1>6, <1>7 DEF Config!Next, Config!Agent

\* An agent that names the version in force, and is therefore pushed nothing, has the
\* configuration in force, through enrollments, lost answers and restarts.
THEOREM AgreementAlways == HostAgentSpec => []AgreementMeansSame
<1>1. HostAgentInit => ConfigTypeInv /\ Named
  BY TypeInit, NamedInit, ChangesAssumption DEF HostAgentInit
<1>2. ConfigTypeInv /\ Named /\ [HostAgentNext]_agentAndHub => (ConfigTypeInv /\ Named)'
  BY TypeNext, NamedNext, ConfigSteps
<1>3. Named => AgreementMeansSame
  BY DEF Named, AgreementMeansSame
<1> QED  BY <1>1, <1>2, <1>3, PTL DEF HostAgentSpec

=============================================================================
