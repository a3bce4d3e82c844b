------------------------ MODULE SyntheticChecks_proofs ------------------------
(* Proofs about SyntheticChecks for any number of collectors, targets, events *)
(* and faults: type correctness, and its three safety properties.             *)
EXTENDS SyntheticChecks, TLAPS

Running(c) == probe[c].pc \in {"probing", "answered"}

\* A probe has a target.
TypeInv == TypeOK /\ \A c \in Collector : Running(c) => probe[c].target \in Target

LEMMA Bounds == /\ Threshold \in Nat /\ Threshold >= 1 /\ MaxEvents \in Nat /\ MaxFaults \in Nat
                /\ nothing \notin Target
BY SyntheticAssumption DEF SyntheticAssumption

\* A streak is counted up to the threshold, and a longer one counts as longer.
LEMMA CountedUp ==
  ASSUME NEW n \in 0..Threshold
  PROVE  /\ Counted(n) \in 0..Threshold
         /\ \A k \in 0..Threshold : k <= n => Counted(k) <= Counted(n)
BY Bounds DEF Counted

LEMMA IdleTyped == Idle \in Probes /\ Idle.pc = "idle"
BY Bounds DEF Idle, Probes, Status

LEMMA TypeInit == Init => TypeInv
<1> SUFFICES ASSUME Init PROVE TypeInv
  OBVIOUS
<1>1. PICK t \in Target :
        check = [exists |-> TRUE, on |-> TRUE, due |-> TRUE, target |-> t,
                 fails |-> 0, status |-> "unknown"]
  BY DEF Init
<1>2. check \in Rows
  BY <1>1, Bounds DEF Rows, Status
<1>3. probe \in [Collector -> Probes] /\ \A c \in Collector : ~Running(c)
  BY IdleTyped DEF Init, Running
<1>4. /\ open \in Nat /\ failed \in [Target -> 0..Threshold] /\ told \in [down: Nat, recovered: Nat]
      /\ edits \in 0..events /\ events \in 0..MaxEvents /\ faults \in 0..MaxFaults
  BY Bounds DEF Init
<1> QED  BY <1>2, <1>3, <1>4 DEF Init, TypeInv, TypeOK

\* Another event, another fault.
LEMMA EventTyped == TypeInv /\ Event => events \in Nat /\ events' = events + 1 /\ events' \in 0..MaxEvents /\ faults' = faults
BY Bounds DEF Event, TypeInv, TypeOK

LEMMA FaultTyped == TypeInv /\ Fault => faults' \in 0..MaxFaults /\ events' = events
BY Bounds DEF Fault, TypeInv, TypeOK

\* A collector reads the row as it is.
LEMMA TypeReads == ASSUME TypeInv, NEW c \in Collector, Reads(c) PROVE TypeInv'
<1>1. check \in Rows /\ open \in Nat /\ edits \in 0..MaxEvents
  BY Bounds DEF TypeInv, TypeOK
<1> DEFINE new == [Idle EXCEPT !.pc = "probing", !.target = check.target, !.fails = check.fails,
                               !.status = check.status, !.seen = open, !.edits = edits]
<1>2. new \in Probes /\ new.target \in Target /\ new.pc = "probing"
  BY <1>1, Bounds DEF Rows, Probes, Idle, Status
<1>3. probe' = [probe EXCEPT ![c] = new]
  BY DEF Reads
<1>4. probe' \in [Collector -> Probes] /\ \A d \in Collector : Running(d)' => probe'[d].target \in Target
  BY <1>2, <1>3 DEF TypeInv, TypeOK, Running
<1>5. split' \in BOOLEAN
  BY DEF Reads
<1> QED  BY <1>4, <1>5 DEF Reads, TypeInv, TypeOK, NoEvent

LEMMA TypeAnswers == ASSUME TypeInv, NEW c \in Collector, Answers(c) PROVE TypeInv'
<1>1. probe[c] \in Probes /\ probe[c].target \in Target
  BY DEF TypeInv, TypeOK, Answers, Running
<1>2. up[probe[c].target] \in BOOLEAN
  BY <1>1 DEF TypeInv, TypeOK
<1> DEFINE new == [probe[c] EXCEPT !.pc = "answered", !.ok = up[probe[c].target]]
<1>3. new \in Probes /\ new.target \in Target
  BY <1>1, <1>2 DEF Probes
<1>4. probe' = [probe EXCEPT ![c] = new]
  BY DEF Answers
<1>5. probe' \in [Collector -> Probes] /\ \A d \in Collector : Running(d)' => probe'[d].target \in Target
  BY <1>3, <1>4 DEF TypeInv, TypeOK, Running
<1> QED  BY <1>5 DEF Answers, TypeInv, TypeOK, NoEvent, ghosts

\* What a probe makes of the row it read.
LEMMA NewTyped ==
  ASSUME TypeInv, NEW c \in Collector
  PROVE  /\ NewFails(c) \in 0..Threshold /\ NewStatus(c) \in Status
         /\ News(c) \in {"none", "down", "recovered"}
         /\ \A seen \in Nat : NewOpen(c, seen) \in Nat
<1>1. probe[c] \in Probes /\ open \in Nat
  BY DEF TypeInv, TypeOK
<1>2. probe[c].fails \in 0..Threshold /\ probe[c].status \in Status
  BY <1>1 DEF Probes
<1>3. NewFails(c) \in 0..Threshold
  BY <1>2, CountedUp, Bounds DEF NewFails
<1>4. NewStatus(c) \in Status
  BY <1>2 DEF NewStatus, Status
<1>5. News(c) \in {"none", "down", "recovered"}
  BY DEF News
<1>6. \A seen \in Nat : NewOpen(c, seen) \in Nat
  BY <1>1 DEF NewOpen
<1> QED  BY <1>3, <1>4, <1>5, <1>6

LEMMA TypeRecords == ASSUME TypeInv, NEW c \in Collector, Records(c) PROVE TypeInv'
<1>1. CASE Confirmed(c)
  <2>1. check' \in Rows
    <3>1. check' = [check EXCEPT !.fails = NewFails(c), !.status = NewStatus(c), !.due = FALSE]
      BY <1>1 DEF Records
    <3> QED  BY <3>1, NewTyped DEF TypeInv, TypeOK, Rows
  <2>2. open' \in Nat
    <3>1. PICK seen \in {probe[c].seen, open} : open' = NewOpen(c, seen)
      BY <1>1 DEF Records
    <3>2. seen \in Nat
      BY DEF TypeInv, TypeOK, Probes
    <3> QED  BY <3>1, <3>2, NewTyped
  <2>3. failed' \in [Target -> 0..Threshold]
    <3>1. check.target \in Target
      BY DEF TypeInv, TypeOK, Rows
    <3>2. failed[check.target] \in 0..Threshold
      BY <3>1 DEF TypeInv, TypeOK
    <3>3. failed' = [failed EXCEPT ![check.target] = IF probe[c].ok THEN 0 ELSE Counted(failed[check.target])]
      BY <1>1 DEF Records
    <3>4. (IF probe[c].ok THEN 0 ELSE Counted(failed[check.target])) \in 0..Threshold
      BY <3>2, CountedUp, Bounds
    <3> QED  BY <3>3, <3>4 DEF TypeInv, TypeOK
  <2> DEFINE new == [Idle EXCEPT !.pc = "telling", !.news = News(c)]
  <2>4. new \in Probes /\ new.pc = "telling"
    BY IdleTyped, NewTyped, Bounds DEF Idle, Probes, Status
  <2>5. probe' = [probe EXCEPT ![c] = new]
    BY <1>1 DEF Records
  <2>6. probe' \in [Collector -> Probes] /\ \A d \in Collector : Running(d)' => probe'[d].target \in Target
    BY <2>4, <2>5 DEF TypeInv, TypeOK, Running
  <2> QED  BY <2>1, <2>2, <2>3, <2>6 DEF Records, TypeInv, TypeOK, NoEvent
<1>2. CASE ~Confirmed(c)
  <2>1. probe' = [probe EXCEPT ![c] = Idle]
    BY <1>2 DEF Records
  <2>2. probe' \in [Collector -> Probes] /\ \A d \in Collector : Running(d)' => probe'[d].target \in Target
    BY <2>1, IdleTyped DEF TypeInv, TypeOK, Running
  <2> QED  BY <1>2, <2>2 DEF Records, TypeInv, TypeOK, NoEvent
<1> QED  BY <1>1, <1>2

LEMMA TypeTells == ASSUME TypeInv, NEW c \in Collector, Tells(c) PROVE TypeInv'
<1>1. probe' = [probe EXCEPT ![c] = Idle]
  BY DEF Tells
<1>2. probe' \in [Collector -> Probes] /\ \A d \in Collector : Running(d)' => probe'[d].target \in Target
  BY <1>1, IdleTyped DEF TypeInv, TypeOK, Running
<1>3. told' \in [down: Nat, recovered: Nat]
  <2>1. told.down \in Nat /\ told.recovered \in Nat /\ told["down"] = told.down /\ told["recovered"] = told.recovered
    BY DEF TypeInv, TypeOK
  <2>2. told' = [down |-> IF probe[c].news = "down" THEN told.down + 1 ELSE told.down,
                 recovered |-> IF probe[c].news = "recovered" THEN told.recovered + 1 ELSE told.recovered]
    BY DEF Tells
  <2> QED  BY <2>1, <2>2
<1> QED  BY <1>2, <1>3 DEF Tells, TypeInv, TypeOK, NoEvent, ghosts

LEMMA TypeBreaks == ASSUME TypeInv, NEW c \in Collector, Breaks(c) PROVE TypeInv'
<1>1. probe' = [probe EXCEPT ![c] = Idle]
  BY DEF Breaks
<1>2. probe' \in [Collector -> Probes] /\ \A d \in Collector : Running(d)' => probe'[d].target \in Target
  BY <1>1, IdleTyped DEF TypeInv, TypeOK, Running
<1>3. lost' \in BOOLEAN
  BY DEF Breaks, TypeInv, TypeOK
<1> QED  BY <1>2, <1>3, FaultTyped DEF Breaks, TypeInv, TypeOK

\* Users, targets and time leave the probes alone.
LEMMA TypeWorld ==
  ASSUME TypeInv,
         \/ \E t \in Target : Edits(t) \/ TargetChanges(t)
         \/ \E on \in BOOLEAN : Pauses(on)
         \/ Deletes \/ Resolves \/ FallsDue
  PROVE  TypeInv'
<1>1. ASSUME NEW t \in Target, Edits(t) PROVE TypeInv'
  <2>1. check' \in Rows
    <3>1. check' = [check EXCEPT !.target = t, !.fails = 0, !.due = TRUE]
      BY <1>1 DEF Edits
    <3>2. 0 \in 0..Threshold
      BY Bounds
    <3> QED  BY <3>1, <3>2 DEF TypeInv, TypeOK, Rows
  <2>2. edits' \in 0..events' /\ events' \in 0..MaxEvents /\ faults' = faults
    <3>1. edits \in 0..events /\ edits' = edits + 1 /\ Event
      BY <1>1 DEF Edits, TypeInv, TypeOK
    <3>2. events \in Nat /\ events' = events + 1 /\ events' \in 0..MaxEvents /\ faults' = faults
      BY <3>1, EventTyped
    <3> QED  BY <3>1, <3>2
  <2> QED  BY <1>1, <2>1, <2>2 DEF Edits, TypeInv, TypeOK, Running
<1>2. ASSUME NEW t \in Target, TargetChanges(t) PROVE TypeInv'
  <2>1. up' \in [Target -> BOOLEAN]
    BY <1>2 DEF TargetChanges, TypeInv, TypeOK
  <2> QED  BY <1>2, <2>1, EventTyped DEF TargetChanges, TypeInv, TypeOK, Running, ghosts
<1>3. ASSUME NEW on \in BOOLEAN, Pauses(on) PROVE TypeInv'
  <2>1. check' \in Rows
    BY <1>3 DEF Pauses, TypeInv, TypeOK, Rows
  <2> QED  BY <1>3, <2>1, EventTyped DEF Pauses, TypeInv, TypeOK, Running, ghosts
<1>4. CASE Deletes
  <2>1. check' \in Rows
    BY <1>4 DEF Deletes, TypeInv, TypeOK, Rows
  <2> QED  BY <1>4, <2>1, EventTyped DEF Deletes, TypeInv, TypeOK, Running, ghosts
<1>5. CASE Resolves
  BY <1>5, EventTyped DEF Resolves, TypeInv, TypeOK, Running, ghosts
<1>6. CASE FallsDue
  <2>1. check' \in Rows
    BY <1>6 DEF FallsDue, TypeInv, TypeOK, Rows
  <2> QED  BY <1>6, <2>1 DEF FallsDue, TypeInv, TypeOK, Running, ghosts, NoEvent
<1> QED  BY <1>1, <1>2, <1>3, <1>4, <1>5, <1>6

LEMMA TypeStep == TypeInv /\ [Next]_vars => TypeInv'
<1> SUFFICES ASSUME TypeInv, [Next]_vars PROVE TypeInv'
  OBVIOUS
<1>1. CASE UNCHANGED vars
  BY <1>1 DEF vars, ghosts, TypeInv, TypeOK, Running
<1>2. CASE Next
  BY <1>2, TypeReads, TypeAnswers, TypeRecords, TypeTells, TypeBreaks, TypeWorld DEF Next, Goes
<1> QED  BY <1>1, <1>2

\* Type correctness: whatever collectors, users and targets do, rows, probes and counts
\* stay within their ranges.
THEOREM TypeCorrect == Spec => []TypeOK
<1>1. TypeInv => TypeOK
  BY DEF TypeInv
<1> QED  BY <1>1, TypeInit, TypeStep, PTL DEF Spec

-----------------------------------------------------------------------------
(* What holds while collectors have not overlapped.                          *)

\* Who is under way is alone, and what it read still holds: nobody else moves the
\* status, opens an alert or records a failure.
ReadHolds ==
  \A c \in Collector :
    /\ Under(c) => \A d \in Collector : Under(d) => d = c
    /\ Running(c) => /\ probe[c].status = check.status
                     /\ open <= probe[c].seen
                     /\ probe[c].fails <= failed[probe[c].target]

\* The streak of the row is one that was recorded of its target.
StreakRecorded == check.fails <= failed[check.target]

AlertTrue == open > 0 => open = 1 /\ check.status = "down"

DeletedQuiet == ~check.exists => open = 0

AlertInv == DeletedQuiet /\ (~split => ReadHolds /\ StreakRecorded /\ AlertTrue)

LEMMA AlertInit == Init => AlertInv
BY DEF Init, AlertInv, DeletedQuiet, ReadHolds, StreakRecorded, AlertTrue, Under, Running, Idle

LEMMA AlertReads == ASSUME TypeInv, AlertInv, NEW c \in Collector, Reads(c) PROVE AlertInv'
<1>1. open \in Nat /\ check \in Rows /\ probe \in [Collector -> Probes] /\ split \in BOOLEAN
  BY DEF TypeInv, TypeOK
<1>2. UNCHANGED <<check, open, failed>>
  BY DEF Reads
<1>3. ASSUME ~split' PROVE ReadHolds'
  <2>1. ~split /\ \A d \in Collector : d # c => ~Under(d)
    BY <1>3 DEF Reads
  <2>2. \A d \in Collector : d # c => probe'[d] = probe[d]
    BY <1>1 DEF Reads
  <2>3. /\ probe'[c].pc = "probing" /\ probe'[c].status = check.status
        /\ probe'[c].seen = open /\ probe'[c].fails = check.fails /\ probe'[c].target = check.target
    BY <1>1 DEF Reads, Idle
  <2>4. \A d \in Collector : d # c => ~Under(d)' /\ ~Running(d)'
    BY <2>1, <2>2 DEF Under, Running
  <2>5. check.fails <= failed[check.target]
    BY <2>1 DEF AlertInv, StreakRecorded
  <2> QED  BY <1>1, <1>2, <2>3, <2>4, <2>5 DEF ReadHolds, Under, Running
<1>4. split => split'
  BY DEF Reads
<1> QED  BY <1>2, <1>3, <1>4 DEF AlertInv, DeletedQuiet, StreakRecorded, AlertTrue

LEMMA AlertAnswers == ASSUME TypeInv, AlertInv, NEW c \in Collector, Answers(c) PROVE AlertInv'
<1>1. probe \in [Collector -> Probes]
  BY DEF TypeInv, TypeOK
<1>2. UNCHANGED <<check, open, failed, split>>
  BY DEF Answers, ghosts
<1>3. \A d \in Collector :
        /\ Under(d)' <=> Under(d)
        /\ Running(d)' <=> Running(d)
        /\ probe'[d].status = probe[d].status /\ probe'[d].seen = probe[d].seen
        /\ probe'[d].fails = probe[d].fails /\ probe'[d].target = probe[d].target
  BY <1>1 DEF Answers, Under, Running, Probes
<1>4. ReadHolds => ReadHolds'
  BY <1>2, <1>3 DEF ReadHolds
<1> QED  BY <1>2, <1>4 DEF AlertInv, DeletedQuiet, StreakRecorded, AlertTrue

\* A collector that ends leaves the others as they are.
LEMMA Ended ==
  ASSUME TypeInv, AlertInv, ~split, NEW c \in Collector, Under(c),
         probe'[c].pc \in {"idle", "telling"}, \A d \in Collector \ {c} : probe'[d] = probe[d]
  PROVE  ReadHolds'
<1>1. probe \in [Collector -> Probes]
  BY DEF TypeInv, TypeOK
<1>2. \A d \in Collector : d # c => ~Under(d)
  BY DEF AlertInv, ReadHolds
<1>3. \A d \in Collector : d # c => ~Under(d)' /\ ~Running(d)'
  BY <1>1, <1>2 DEF Under, Running
<1>4. ~Running(c)'
  BY <1>1 DEF Running
<1> QED  BY <1>3, <1>4 DEF ReadHolds

\* What is recorded of a target bears out the row and its alerts.
LEMMA AlertRecords == ASSUME TypeInv, AlertInv, NEW c \in Collector, Records(c) PROVE AlertInv'
<1>0. /\ open \in Nat /\ check \in Rows /\ probe \in [Collector -> Probes]
      /\ failed \in [Target -> 0..Threshold] /\ check.target \in Target
      /\ probe[c] \in Probes /\ Under(c) /\ Running(c) /\ UNCHANGED split
  BY DEF TypeInv, TypeOK, Rows, Records, Under, Running
<1>1. CASE Confirmed(c)
  <2> DEFINE new == [Idle EXCEPT !.pc = "telling", !.news = News(c)]
  <2>1. /\ probe' = [probe EXCEPT ![c] = new] /\ new.pc = "telling"
        /\ check' = [check EXCEPT !.fails = NewFails(c), !.status = NewStatus(c), !.due = FALSE]
        /\ failed' = [failed EXCEPT ![check.target] = IF probe[c].ok THEN 0 ELSE Counted(failed[check.target])]
        /\ check.exists
    BY <1>1 DEF Records, Confirmed, Idle
  <2>2. /\ check'.exists /\ check'.fails = NewFails(c) /\ check'.status = NewStatus(c)
        /\ check'.target = check.target
    BY <1>0, <2>1 DEF Rows
  <2>3. ASSUME ~split PROVE StreakRecorded'
    <3>1. probe[c].fails <= failed[check.target] /\ probe[c].fails \in 0..Threshold
          /\ failed[check.target] \in 0..Threshold
      BY <1>0, <1>1, <2>3 DEF AlertInv, ReadHolds, Confirmed, Probes
    <3>2. failed'[check.target] = IF probe[c].ok THEN 0 ELSE Counted(failed[check.target])
      BY <1>0, <2>1
    <3>3. Counted(probe[c].fails) <= Counted(failed[check.target])
      BY <3>1, CountedUp
    <3> QED  BY <2>2, <3>2, <3>3 DEF StreakRecorded, NewFails
  <2>4. ASSUME ~split PROVE AlertTrue'
    <3>1. PICK seen \in {probe[c].seen, open} : open' = NewOpen(c, seen)
      BY <1>1 DEF Records
    <3>2. open <= probe[c].seen /\ probe[c].status = check.status /\ probe[c].seen \in Nat
      BY <1>0, <2>4 DEF AlertInv, ReadHolds, Probes
    <3>3. seen = 0 => open = 0
      BY <1>0, <3>1, <3>2
    <3>4. open > 0 => open = 1 /\ check.status = "down"
      BY <2>4 DEF AlertInv, AlertTrue
    <3>5. CASE NewStatus(c) = "down"
      <4>1. open' = IF seen = 0 THEN open + 1 ELSE open
        BY <3>1, <3>5 DEF NewOpen, NewStatus
      <4> QED  BY <1>0, <2>2, <3>3, <3>4, <3>5, <4>1 DEF AlertTrue
    <3>6. CASE NewStatus(c) # "down" /\ probe[c].ok
      <4>1. open' = IF check.status = "down" THEN 0 ELSE open
        BY <3>1, <3>2, <3>6 DEF NewOpen
      <4> QED  BY <1>0, <3>4, <4>1 DEF AlertTrue
    <3>7. CASE NewStatus(c) # "down" /\ ~probe[c].ok
      <4>1. open' = open /\ check.status # "down"
        BY <3>1, <3>2, <3>7 DEF NewOpen, NewStatus
      <4> QED  BY <1>0, <3>4, <4>1 DEF AlertTrue
    <3> QED  BY <3>5, <3>6, <3>7
  <2>5. ~split => ReadHolds'
    <3>1. probe'[c].pc = "telling" /\ \A d \in Collector \ {c} : probe'[d] = probe[d]
      BY <1>0, <2>1
    <3> QED  BY <1>0, <3>1, Ended
  <2> QED  BY <1>0, <2>2, <2>3, <2>4, <2>5 DEF AlertInv, DeletedQuiet
<1>2. CASE ~Confirmed(c)
  <2>1. probe' = [probe EXCEPT ![c] = Idle] /\ UNCHANGED <<check, open, failed>>
    BY <1>2 DEF Records
  <2>2. ~split => ReadHolds'
    <3>1. probe'[c].pc = "idle" /\ \A d \in Collector \ {c} : probe'[d] = probe[d]
      BY <1>0, <2>1, IdleTyped
    <3> QED  BY <1>0, <3>1, Ended
  <2> QED  BY <1>0, <2>1, <2>2 DEF AlertInv, DeletedQuiet, StreakRecorded, AlertTrue
<1> QED  BY <1>1, <1>2

LEMMA AlertEnds == ASSUME TypeInv, AlertInv, NEW c \in Collector, Tells(c) \/ Breaks(c) PROVE AlertInv'
<1>1. probe' = [probe EXCEPT ![c] = Idle] /\ Under(c) /\ UNCHANGED <<check, open, failed, split>>
  BY DEF Tells, Breaks, ghosts, Under
<1>2. ~split => ReadHolds'
  <2>1. probe'[c].pc = "idle" /\ \A d \in Collector \ {c} : probe'[d] = probe[d]
    BY <1>1, IdleTyped DEF TypeInv, TypeOK
  <2> QED  BY <1>1, <2>1, Ended
<1> QED  BY <1>1, <1>2 DEF AlertInv, DeletedQuiet, StreakRecorded, AlertTrue

\* Users only close alerts and restart the streak; nobody but a collector moves the status.
LEMMA AlertWorld ==
  ASSUME TypeInv, AlertInv,
         \/ \E t \in Target : Edits(t) \/ TargetChanges(t)
         \/ \E on \in BOOLEAN : Pauses(on)
         \/ Deletes \/ Resolves \/ FallsDue
  PROVE  AlertInv'
<1>0. /\ open \in Nat /\ check \in Rows /\ failed \in [Target -> 0..Threshold]
      /\ probe \in [Collector -> Probes]
  BY DEF TypeInv, TypeOK
<1>1. UNCHANGED <<probe, failed, split>> /\ check'.status = check.status
  BY <1>0 DEF Edits, TargetChanges, Pauses, Deletes, Resolves, FallsDue, ghosts, Rows
<1>2. open' \in Nat /\ open' <= open
  <2>1. CASE Resolves
    BY <1>0, <2>1 DEF Resolves
  <2>2. CASE ~Resolves
    <3>1. open' = open \/ open' = 0
      BY <2>2 DEF Edits, TargetChanges, Pauses, Deletes, FallsDue
    <3> QED  BY <1>0, <3>1
  <2> QED  BY <2>1, <2>2
<1>3. StreakRecorded => StreakRecorded'
  <2>1. ASSUME NEW t \in Target, Edits(t) PROVE StreakRecorded'
    <3>1. check'.fails = 0 /\ check'.target = t /\ failed[t] \in 0..Threshold
      BY <1>0, <2>1 DEF Edits, Rows
    <3> QED  BY <1>1, <3>1, Bounds DEF StreakRecorded
  <2>2. ASSUME \/ \E t \in Target : TargetChanges(t)
               \/ \E on \in BOOLEAN : Pauses(on)
               \/ Deletes \/ Resolves \/ FallsDue
        PROVE  check'.fails = check.fails /\ check'.target = check.target
    BY <1>0, <2>2 DEF TargetChanges, Pauses, Deletes, Resolves, FallsDue, Rows
  <2> QED  BY <1>1, <2>1, <2>2 DEF StreakRecorded
<1>4. AlertTrue => AlertTrue'
  BY <1>0, <1>1, <1>2 DEF AlertTrue
<1>5. DeletedQuiet'
  <2>1. CASE Deletes
    BY <2>1 DEF Deletes, DeletedQuiet
  <2>2. CASE ~Deletes
    <3>1. check'.exists = check.exists
      BY <1>0, <2>2 DEF Edits, TargetChanges, Pauses, Resolves, FallsDue, Rows
    <3> QED  BY <1>0, <1>2, <3>1 DEF AlertInv, DeletedQuiet
  <2> QED  BY <2>1, <2>2
<1>6. ReadHolds => ReadHolds'
  <2>1. \A c \in Collector : probe[c].seen \in Nat
    BY <1>0 DEF Probes
  <2> QED  BY <1>0, <1>1, <1>2, <2>1 DEF ReadHolds, Under, Running
<1> QED  BY <1>1, <1>3, <1>4, <1>5, <1>6 DEF AlertInv

LEMMA AlertStep == TypeInv /\ AlertInv /\ [Next]_vars => AlertInv'
<1> SUFFICES ASSUME TypeInv, AlertInv, [Next]_vars PROVE AlertInv'
  OBVIOUS
<1>1. CASE UNCHANGED vars
  BY <1>1 DEF vars, ghosts, AlertInv, DeletedQuiet, ReadHolds, StreakRecorded, AlertTrue, Under, Running
<1>2. CASE Next
  BY <1>2, AlertReads, AlertAnswers, AlertRecords, AlertEnds, AlertWorld DEF Next, Goes
<1> QED  BY <1>1, <1>2

\* A deleted check keeps no alert; an open one is the only one and the check is down
\* while collectors have not overlapped.
THEOREM AlertFollowsAlways == Spec => []AlertFollowsCheck
<1>1. AlertInv => AlertFollowsCheck
  BY DEF AlertInv, DeletedQuiet, AlertTrue, AlertFollowsCheck
<1> QED  BY <1>1, TypeInit, TypeStep, AlertInit, AlertStep, PTL DEF Spec

\* Only a record of the last of the failures takes a check down.
LEMMA ConfirmedStep ==
  ASSUME TypeInv, AlertInv, [Next]_vars, ~split,
         check.status # "down", check'.status = "down"
  PROVE  failed'[check'.target] = Threshold
<1>0. check \in Rows /\ check.target \in Target /\ failed \in [Target -> 0..Threshold]
  BY DEF TypeInv, TypeOK, Rows
<1>1. PICK c \in Collector : Records(c) /\ Confirmed(c)
  <2>1. Next /\ check' # check
    BY DEF vars
  <2>2. ASSUME ~\E c \in Collector : Records(c) PROVE check'.status = check.status
    BY <1>0, <2>1, <2>2 DEF Next, Goes, Reads, Answers, Tells, Breaks, Edits, TargetChanges, Pauses,
                            Deletes, Resolves, FallsDue, Rows
  <2>3. PICK c \in Collector : Records(c)
    BY <2>2
  <2> QED  BY <2>1, <2>3 DEF Records
<1>2. /\ check' = [check EXCEPT !.fails = NewFails(c), !.status = NewStatus(c), !.due = FALSE]
      /\ failed' = [failed EXCEPT ![check.target] = IF probe[c].ok THEN 0 ELSE Counted(failed[check.target])]
  BY <1>1 DEF Records
<1>3. /\ probe[c].status = check.status /\ probe[c].fails <= failed[check.target]
      /\ probe[c].fails \in 0..Threshold /\ failed[check.target] \in 0..Threshold
  BY <1>0, <1>1 DEF AlertInv, ReadHolds, Running, Records, Confirmed, TypeInv, TypeOK, Probes
<1>4. ~probe[c].ok /\ Counted(probe[c].fails) = Threshold
  BY <1>0, <1>2, <1>3 DEF NewStatus, NewFails, Rows
<1>5. Counted(failed[check.target]) = Threshold
  BY <1>3, <1>4, CountedUp, Bounds
<1> QED  BY <1>0, <1>2, <1>4, <1>5 DEF Rows

\* An outage is confirmed by as many recorded failures of the target as the threshold
\* says, unless collectors overlapped.
THEOREM ConfirmedAlways == Spec => OutageIsConfirmed
<1>1. TypeInv /\ AlertInv /\ [Next]_vars =>
        [check.status # "down" /\ check'.status = "down" =>
           split \/ failed'[check'.target] = Threshold]_vars
  BY ConfirmedStep
<1> QED  BY <1>1, TypeInit, TypeStep, AlertInit, AlertStep, PTL DEF Spec, OutageIsConfirmed

-----------------------------------------------------------------------------
(* The notices.                                                              *)

Telling(c, news) == probe[c].pc = "telling" /\ probe[c].news = news

Balanced == told.down = told.recovered + (IF check.status = "down" THEN 1 ELSE 0)

\* The contacts know the status, but for the news that is just being told.
NewsInHand ==
  /\ \A c \in Collector : Telling(c, "down") => check.status = "down" /\ told.down = told.recovered
  /\ \A c \in Collector : Telling(c, "recovered") => check.status = "up" /\ told.down = told.recovered + 1
  /\ (\A c \in Collector : ~Telling(c, "down") /\ ~Telling(c, "recovered")) => Balanced

NoticeInv == ~split /\ ~lost => NewsInHand

LEMMA NoticeInit == Init => NoticeInv
BY DEF Init, NoticeInv, NewsInHand, Telling, Balanced, Idle

\* Steps that tell nothing and move no status.
LEMMA NoticeSame ==
  ASSUME NoticeInv, split => split', lost => lost', told' = told, check'.status = check.status,
         \A c \in Collector, n \in {"down", "recovered"} : Telling(c, n)' <=> Telling(c, n)
  PROVE  NoticeInv'
<1>1. NewsInHand => NewsInHand'
  BY DEF NewsInHand, Balanced
<1> QED  BY <1>1 DEF NoticeInv

LEMMA NoticeReads == ASSUME TypeInv, NoticeInv, NEW c \in Collector, Reads(c) \/ Answers(c) PROVE NoticeInv'
<1>1. probe \in [Collector -> Probes]
  BY DEF TypeInv, TypeOK
<1>2. probe[c].pc # "telling" /\ probe'[c].pc # "telling"
      /\ \A d \in Collector \ {c} : probe'[d] = probe[d]
  <2>1. CASE Reads(c)
    BY <1>1, <2>1 DEF Reads, Under, Idle
  <2>2. CASE Answers(c)
    BY <1>1, <2>2 DEF Answers, Probes
  <2> QED  BY <2>1, <2>2
<1>3. \A d \in Collector, n \in {"down", "recovered"} : Telling(d, n)' <=> Telling(d, n)
  BY <1>2 DEF Telling
<1>4. check' = check /\ told' = told /\ lost' = lost /\ (split => split')
  <2>1. CASE Reads(c)
    BY <2>1 DEF Reads
  <2>2. CASE Answers(c)
    BY <2>2 DEF Answers, ghosts
  <2> QED  BY <2>1, <2>2
<1> QED  BY <1>3, <1>4, NoticeSame

LEMMA NoticeRecords ==
  ASSUME TypeInv, AlertInv, NoticeInv, NEW c \in Collector, Records(c)
  PROVE  NoticeInv'
<1>0. /\ probe \in [Collector -> Probes] /\ check \in Rows /\ UNCHANGED <<told, split, lost>>
      /\ told.down \in Nat /\ told.recovered \in Nat
  BY DEF TypeInv, TypeOK, Records
<1> SUFFICES ASSUME ~split, ~lost PROVE NewsInHand'
  BY <1>0 DEF NoticeInv
<1>1. /\ probe[c].status = check.status
      /\ \A d \in Collector \ {c} : ~Under(d)
  BY DEF AlertInv, ReadHolds, Records, Under, Running
<1>2. Balanced
  BY <1>1 DEF NoticeInv, NewsInHand, Telling, Records, Under
<1>3. CASE Confirmed(c)
  <2> DEFINE new == [Idle EXCEPT !.pc = "telling", !.news = News(c)]
  <2>1. /\ probe' = [probe EXCEPT ![c] = new]
        /\ new.pc = "telling" /\ new.news = News(c)
        /\ check' = [check EXCEPT !.fails = NewFails(c), !.status = NewStatus(c), !.due = FALSE]
    BY <1>3 DEF Records, Idle
  <2>2. /\ \A d \in Collector \ {c} : probe'[d] = probe[d]
        /\ probe'[c].pc = "telling" /\ probe'[c].news = News(c) /\ check'.status = NewStatus(c)
    BY <1>0, <2>1 DEF Rows
  <2>3. \A d \in Collector, n \in {"down", "recovered"} : Telling(d, n)' <=> d = c /\ n = News(c)
    BY <1>1, <2>2 DEF Telling, Under
  <2>4. CASE News(c) = "down"
    <3>1. NewStatus(c) = "down" /\ check.status # "down"
      BY <1>1, <2>4 DEF News
    <3> QED  BY <1>0, <1>2, <2>2, <2>3, <2>4, <3>1 DEF NewsInHand, Balanced
  <2>5. CASE News(c) = "recovered"
    <3>1. NewStatus(c) = "up" /\ check.status = "down"
      BY <1>1, <2>5 DEF News, NewStatus
    <3> QED  BY <1>0, <1>2, <2>2, <2>3, <2>5, <3>1 DEF NewsInHand, Balanced
  <2>6. CASE News(c) = "none"
    <3>1. NewStatus(c) = "down" <=> check.status = "down"
      BY <1>1, <2>6 DEF News, NewStatus
    <3> QED  BY <1>0, <1>2, <2>2, <2>3, <2>6, <3>1 DEF NewsInHand, Balanced
  <2> QED  BY <2>4, <2>5, <2>6, NewTyped
<1>4. CASE ~Confirmed(c)
  <2>1. probe' = [probe EXCEPT ![c] = Idle] /\ check' = check
    BY <1>4 DEF Records
  <2>2. \A d \in Collector : probe'[d].pc # "telling"
    BY <1>0, <1>1, <2>1, IdleTyped DEF Under
  <2> QED  BY <1>0, <1>2, <2>1, <2>2 DEF NewsInHand, Balanced, Telling
<1> QED  BY <1>3, <1>4

LEMMA NoticeTells ==
  ASSUME TypeInv, AlertInv, NoticeInv, NEW c \in Collector, Tells(c)
  PROVE  NoticeInv'
<1>0. /\ probe \in [Collector -> Probes] /\ UNCHANGED <<check, split, lost>>
      /\ told.down \in Nat /\ told.recovered \in Nat
      /\ probe[c].news \in {"none", "down", "recovered"}
  BY DEF TypeInv, TypeOK, Tells, ghosts, Probes
<1> SUFFICES ASSUME ~split, ~lost PROVE NewsInHand'
  BY <1>0 DEF NoticeInv
<1>1. \A d \in Collector \ {c} : ~Under(d)
  BY DEF AlertInv, ReadHolds, Tells, Under
<1>2. probe' = [probe EXCEPT ![c] = Idle] /\ probe[c].pc = "telling"
  BY DEF Tells
<1>3. \A d \in Collector : probe'[d].pc # "telling"
  BY <1>0, <1>1, <1>2, IdleTyped DEF Under
<1>4. /\ told'.down = IF probe[c].news = "down" THEN told.down + 1 ELSE told.down
      /\ told'.recovered = IF probe[c].news = "recovered" THEN told.recovered + 1 ELSE told.recovered
  <2>1. told["down"] = told.down /\ told["recovered"] = told.recovered
    OBVIOUS
  <2> QED  BY <2>1 DEF Tells
<1>5. \A d \in Collector, n \in {"down", "recovered"} : Telling(d, n) <=> d = c /\ n = probe[c].news
  BY <1>1, <1>2 DEF Telling, Under
<1>6. NewsInHand
  BY DEF NoticeInv
<1>7. Balanced'
  BY <1>0, <1>4, <1>5, <1>6 DEF NewsInHand, Balanced
<1> QED  BY <1>3, <1>7 DEF NewsInHand, Telling

LEMMA NoticeBreaks ==
  ASSUME TypeInv, NoticeInv, NEW c \in Collector, Breaks(c)
  PROVE  NoticeInv'
<1>1. CASE lost'
  BY <1>1 DEF NoticeInv
<1>2. CASE ~lost'
  <2>1. probe' = [probe EXCEPT ![c] = Idle] /\ ~Telling(c, "down") /\ ~Telling(c, "recovered") /\ ~lost
    BY <1>2 DEF Breaks, Telling
  <2>2. \A d \in Collector, n \in {"down", "recovered"} : Telling(d, n)' <=> Telling(d, n)
    BY <2>1, IdleTyped DEF Telling, TypeInv, TypeOK
  <2> QED  BY <2>1, <2>2, NoticeSame DEF Breaks
<1> QED  BY <1>1, <1>2

LEMMA NoticeWorld ==
  ASSUME TypeInv, NoticeInv,
         \/ \E t \in Target : Edits(t) \/ TargetChanges(t)
         \/ \E on \in BOOLEAN : Pauses(on)
         \/ Deletes \/ Resolves \/ FallsDue
  PROVE  NoticeInv'
<1>1. check'.status = check.status /\ UNCHANGED <<probe, told, split, lost>>
  BY DEF Edits, TargetChanges, Pauses, Deletes, Resolves, FallsDue, ghosts, TypeInv, TypeOK, Rows
<1> QED  BY <1>1, NoticeSame DEF Telling

LEMMA NoticeStep == TypeInv /\ AlertInv /\ NoticeInv /\ [Next]_vars => NoticeInv'
<1> SUFFICES ASSUME TypeInv, AlertInv, NoticeInv, [Next]_vars PROVE NoticeInv'
  OBVIOUS
<1>1. CASE UNCHANGED vars
  BY <1>1, NoticeSame DEF vars, ghosts, Telling
<1>2. CASE Next
  BY <1>2, NoticeReads, NoticeRecords, NoticeTells, NoticeBreaks, NoticeWorld DEF Next, Goes
<1> QED  BY <1>1, <1>2

\* The contacts are told once of each outage and once of each recovery, unless collectors
\* overlapped or a notice was lost in a crash.
THEOREM NoticesAlways == Spec => []NoticesTellTheStatus
<1>1. NoticeInv => NoticesTellTheStatus
  BY DEF NoticeInv, NewsInHand, Balanced, NoticesTellTheStatus, Telling, Under
<1> QED  BY <1>1, TypeInit, TypeStep, AlertInit, AlertStep, NoticeInit, NoticeStep, PTL DEF Spec

\* Alert, status and notices tell of the same outages.
THEOREM OutageIsToldAlways == Spec => []OutageIsTold
<1>1. AlertFollowsCheck /\ NoticesTellTheStatus => OutageIsTold
  BY DEF OutageIsTold
<1> QED  BY <1>1, AlertFollowsAlways, NoticesAlways, PTL

=============================================================================
