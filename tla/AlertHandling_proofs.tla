------------------------- MODULE AlertHandling_proofs -------------------------
(* Proofs about AlertHandling for any number of collectors and events: type   *)
(* correctness, one page for each alert, and silences that hold throughout a  *)
(* window.                                                                    *)
EXTENDS AlertHandling, WellFoundedInduction, TLAPS

-----------------------------------------------------------------------------
(* Types.                                                                    *)

\* Changing rows one by one leaves a sequence of alerts with the same ids.
LEMMA MapTyped ==
  ASSUME NEW s \in Seq(AlertType), NEW t,
         t = [i \in DOMAIN s |-> t[i]],
         \A i \in DOMAIN s : t[i] \in AlertType
  PROVE  t \in Seq(AlertType) /\ DOMAIN t = DOMAIN s /\ Len(t) = Len(s)
<1>1. DOMAIN t = 1..Len(s)
  OBVIOUS
<1>2. t \in [1..Len(s) -> AlertType]
  BY <1>1
<1> QED  BY <1>1, <1>2

\* A new row gets the next id, and the others keep theirs.
LEMMA AppendTyped ==
  ASSUME NEW s \in Seq(AlertType), NEW a \in AlertType
  PROVE  /\ Append(s, a) \in Seq(AlertType)
         /\ DOMAIN Append(s, a) = DOMAIN s \cup {Len(s) + 1}
         /\ \A i \in DOMAIN s : Append(s, a)[i] = s[i]
         /\ Append(s, a)[Len(s) + 1] = a
         /\ Len(s) + 1 \notin DOMAIN s
OBVIOUS

LEMMA NewAlertTyped ==
  ASSUME NEW s \in {"WARNING", "CRITICAL"}, NEW q \in BOOLEAN, NEW b \in BOOLEAN
  PROVE  NewAlert(s, q, b) \in AlertType
BY DEF NewAlert, AlertType, Open

LEMMA IdleTyped == Idle \in ColType
BY DEF Idle, ColType, Beat, Open

\* One of the open alerts is the oldest.
LEMMA OldestTyped ==
  ASSUME alerts \in Seq(AlertType), OpenIds # {}
  PROVE  Oldest \in OpenIds
<1> DEFINE less == {p \in Nat \X Nat : p[1] < p[2]}
<1>1. OpenIds \subseteq Nat
  BY DEF OpenIds, Ids
<1>2. IsWellFoundedOn(less, Nat)
  BY NatLessThanWellFounded DEF OpToRel
<1>3. PICK k \in OpenIds : \A m \in OpenIds : ~(<<m, k>> \in less)
  <2> HIDE DEF less
  <2> QED  BY <1>1, <1>2, WFMin
<1>4. ASSUME NEW m \in OpenIds PROVE k <= m
  <2>1. m \in Nat /\ k \in Nat
    BY <1>1
  <2>2. <<m, k>> \in Nat \X Nat /\ <<m, k>>[1] = m /\ <<m, k>>[2] = k
    BY <2>1
  <2>3. ~(m < k)
    BY <2>2, <1>3
  <2> QED  BY <2>1, <2>3
<1> DEFINE P(i) == i \in OpenIds /\ \A j \in OpenIds : i <= j
<1>5. P(k)
  BY <1>4
<1>6. Oldest = CHOOSE i : P(i)
  BY Zenon DEF Oldest
<1>7. P(CHOOSE i : P(i))
  <2> HIDE DEF P
  <2> QED  BY <1>5, Zenon
<1> QED  BY <1>6, <1>7

-----------------------------------------------------------------------------
(* Type correctness.                                                         *)

\* The collectors, as far as they refer to alerts.
ColOK ==
  /\ col \in [Collector -> ColType]
  /\ \A c \in Collector : /\ col[c].ids \subseteq Ids /\ col[c].claimed \subseteq Ids
                          /\ col[c].id \in {0} \cup Ids

\* One collector changes, and alerts are only ever added.
LEMMA ColStep ==
  ASSUME ColOK, NEW c \in Collector, NEW r \in ColType,
         col' = [col EXCEPT ![c] = r], Ids \subseteq Ids',
         r.ids \subseteq Ids', r.claimed \subseteq Ids', r.id \in {0} \cup Ids'
  PROVE  ColOK'
BY DEF ColOK

\* No collector changes.
LEMMA ColSame ==
  ASSUME ColOK, UNCHANGED col, Ids \subseteq Ids'
  PROVE  ColOK'
BY DEF ColOK

\* A collector starts another step.
LEMMA GotoTyped ==
  ASSUME ColOK, NEW c \in Collector,
         NEW pc \in {"idle", "sync", "synced", "watch", "watched", "escalate"},
         Goto(c, pc), Ids \subseteq Ids'
  PROVE  ColOK'
<1> DEFINE r == [Idle EXCEPT !.pc = pc]
<1>1. r \in ColType /\ r.ids = {} /\ r.claimed = {} /\ r.id = 0
  BY IdleTyped DEF ColType, Idle
<1>2. col' = [col EXCEPT ![c] = r]
  BY DEF Goto
<1> HIDE DEF r
<1> QED  BY <1>1, <1>2, ColStep

\* TypeOK from the parts a step may disturb.
LEMMA TypeFrom ==
  ASSUME beat \in Beat, window \in BOOLEAN, synced \in BOOLEAN, split \in BOOLEAN,
         events \in 0..MaxEvents, alerts \in Seq(AlertType), saved \in {0} \cup Ids, ColOK
  PROVE  TypeOK
BY DEF TypeOK, ColOK

LEMMA TypeInit == Init => TypeOK
<1> SUFFICES ASSUME Init PROVE TypeOK
  OBVIOUS
<1>1. ColOK
  BY IdleTyped DEF Init, ColOK, Idle
<1>2. 0 \in 0..MaxEvents /\ "online" \in Beat /\ <<>> \in Seq(AlertType)
  BY HandlingAssumption DEF HandlingAssumption, Beat
<1> QED  BY <1>1, <1>2, TypeFrom DEF Init

\* An alert that is changed in place.
LEMMA ExceptTyped ==
  ASSUME NEW s \in Seq(AlertType), NEW i \in DOMAIN s, NEW a \in AlertType
  PROVE  [s EXCEPT ![i] = a] \in Seq(AlertType) /\ DOMAIN [s EXCEPT ![i] = a] = DOMAIN s
OBVIOUS

\* What a step does to the rows: they stay rows, and none is deleted.
RowsKept == alerts' \in Seq(AlertType) /\ Ids \subseteq Ids' /\ saved' \in {0} \cup Ids'

LEMMA RowsSame ==
  ASSUME TypeOK, UNCHANGED rows
  PROVE  RowsKept /\ Ids' = Ids
BY DEF TypeOK, rows, RowsKept, Ids

LEMMA SyncWritesRows ==
  ASSUME TypeOK, NEW c \in Collector, SyncWrites(c)
  PROVE  RowsKept /\ Ids' = Ids
<1>1. alerts \in Seq(AlertType) /\ alerts' = SilencedBy(col[c].win, col[c].ids) /\ saved' = saved
  BY DEF SyncWrites, TypeOK
<1>2. \A i \in Ids : alerts[i] \in AlertType
  BY <1>1 DEF Ids
<1>3. ASSUME NEW i \in Ids PROVE alerts'[i] \in AlertType
  <2>1. /\ [alerts[i] EXCEPT !.silenced = TRUE, !.missed = FALSE] \in AlertType
        /\ [alerts[i] EXCEPT !.silenced = FALSE] \in AlertType
    BY <1>2 DEF AlertType
  <2> QED  BY <1>1, <1>2, <2>1 DEF SilencedBy
<1>4. alerts' = [i \in DOMAIN alerts |-> alerts'[i]]
  BY <1>1 DEF SilencedBy, Ids
<1>5. alerts' \in Seq(AlertType) /\ DOMAIN alerts' = DOMAIN alerts
  BY <1>1, <1>3, <1>4, MapTyped DEF Ids
<1> QED  BY <1>1, <1>5 DEF RowsKept, Ids, TypeOK

LEMMA WatchClearsRows ==
  ASSUME TypeOK, NEW c \in Collector, WatchClears(c)
  PROVE  RowsKept /\ Ids' = Ids
<1>1. /\ alerts \in Seq(AlertType) /\ saved' = 0
      /\ alerts' = [i \in Ids |-> IF i = col[c].id /\ i \in OpenIds
                                  THEN [alerts[i] EXCEPT !.status = "resolved"] ELSE alerts[i]]
  BY DEF WatchClears, TypeOK
<1>2. \A i \in Ids : alerts[i] \in AlertType
  BY <1>1 DEF Ids
<1>3. ASSUME NEW i \in Ids PROVE alerts'[i] \in AlertType
  <2>1. [alerts[i] EXCEPT !.status = "resolved"] \in AlertType
    BY <1>2 DEF AlertType
  <2> QED  BY <1>1, <1>2, <2>1
<1>4. alerts' = [i \in DOMAIN alerts |-> alerts'[i]]
  BY <1>1 DEF Ids
<1>5. alerts' \in Seq(AlertType) /\ DOMAIN alerts' = DOMAIN alerts
  BY <1>1, <1>3, <1>4, MapTyped DEF Ids
<1> QED  BY <1>1, <1>5 DEF RowsKept, Ids

LEMMA SeverityTyped == ASSUME NEW b PROVE Severity(b) \in {"WARNING", "CRITICAL"}
BY DEF Severity

\* The row a silent host's alert becomes.
Updated(a, c) ==
  [a EXCEPT !.sev = IF col[c].sev # Severity(col[c].beat) THEN Severity(col[c].beat) ELSE @,
            !.status = IF /\ col[c].sev # Severity(col[c].beat) /\ Severity(col[c].beat) = "CRITICAL"
                          /\ col[c].status = "acknowledged"
                       THEN "active" ELSE @]

LEMMA WatchUpdatesRows ==
  ASSUME TypeOK, NEW c \in Collector, WatchUpdates(c)
  PROVE  /\ RowsKept /\ Ids' = Ids /\ col[c].id \in Ids
         /\ alerts' = [alerts EXCEPT ![col[c].id] = Updated(alerts[col[c].id], c)]
<1> DEFINE n == col[c].id
<1>1. alerts \in Seq(AlertType) /\ n \in Ids /\ saved' = n
  BY DEF WatchUpdates, TypeOK
<1>2. alerts[n] \in AlertType
  BY <1>1 DEF Ids
<1>3. Updated(alerts[n], c) \in AlertType
  BY <1>2, SeverityTyped DEF Updated, AlertType, Open
<1>4. alerts' = [alerts EXCEPT ![n] = Updated(alerts[n], c)]
  BY <1>1, <1>2 DEF WatchUpdates, Updated, AlertType, Ids
<1>5. alerts' \in Seq(AlertType) /\ DOMAIN alerts' = DOMAIN alerts
  BY <1>1, <1>3, <1>4, ExceptTyped DEF Ids
<1> QED  BY <1>1, <1>4, <1>5 DEF RowsKept, Ids

LEMMA WatchOpensRows ==
  ASSUME TypeOK, NEW c \in Collector, WatchOpens(c)
  PROVE  /\ RowsKept /\ Ids' = Ids \cup {Len(alerts) + 1} /\ Len(alerts) + 1 \notin Ids
         /\ \A i \in Ids : alerts'[i] = alerts[i]
         /\ alerts'[Len(alerts) + 1] = NewAlert(Severity(col[c].beat), col[c].win, col[c].blind)
<1> DEFINE a == NewAlert(Severity(col[c].beat), col[c].win, col[c].blind)
<1>1. alerts \in Seq(AlertType) /\ alerts' = Append(alerts, a) /\ saved' = Len(alerts) + 1
  BY DEF WatchOpens, TypeOK
<1>2. col[c].win \in BOOLEAN /\ col[c].blind \in BOOLEAN
  BY DEF TypeOK, ColType
<1>3. a \in AlertType
  BY <1>2, NewAlertTyped, SeverityTyped
<1> HIDE DEF a
<1>4. /\ alerts' \in Seq(AlertType) /\ DOMAIN alerts' = DOMAIN alerts \cup {Len(alerts) + 1}
      /\ \A i \in DOMAIN alerts : alerts'[i] = alerts[i]
      /\ alerts'[Len(alerts) + 1] = a /\ Len(alerts) + 1 \notin DOMAIN alerts
  BY <1>1, <1>3, AppendTyped
<1> USE DEF a
<1> QED  BY <1>1, <1>4 DEF RowsKept, Ids

\* A step that sets fields of one alert, and nothing else of the rows.
Sets(i, a) == i \in Ids /\ alerts' = [alerts EXCEPT ![i] = a] /\ saved' = saved

LEMMA SetsRows ==
  ASSUME TypeOK, NEW i, NEW a \in AlertType, Sets(i, a)
  PROVE  RowsKept /\ Ids' = Ids
<1>1. alerts \in Seq(AlertType) /\ i \in DOMAIN alerts
  BY DEF Sets, TypeOK, Ids
<1>2. alerts' \in Seq(AlertType) /\ DOMAIN alerts' = DOMAIN alerts
  BY <1>1, ExceptTyped DEF Sets
<1> QED  BY <1>2 DEF RowsKept, Ids, Sets, TypeOK

\* The steps that do.
LEMMA SingleSets ==
  ASSUME TypeOK, NEW i \in Ids
  PROVE  /\ alerts[i] \in AlertType
         /\ \A c \in Collector :
              /\ Claims(c, i) => Sets(i, [alerts[i] EXCEPT !.escalated = TRUE])
              /\ Pages(c, i) => Sets(i, [alerts[i] EXCEPT !.pages = @ + 1])
         /\ Ack(i) => Sets(i, [alerts[i] EXCEPT !.status = "acknowledged"])
         /\ Resolve(i) => Sets(i, [alerts[i] EXCEPT !.status = "resolved"])
         /\ SlaPasses(i) => Sets(i, [alerts[i] EXCEPT !.overdue = TRUE])
         /\ [alerts[i] EXCEPT !.escalated = TRUE] \in AlertType
         /\ [alerts[i] EXCEPT !.pages = @ + 1] \in AlertType
         /\ [alerts[i] EXCEPT !.status = "acknowledged"] \in AlertType
         /\ [alerts[i] EXCEPT !.status = "resolved"] \in AlertType
         /\ [alerts[i] EXCEPT !.overdue = TRUE] \in AlertType
<1>1. alerts \in Seq(AlertType)
  BY DEF TypeOK
<1>2. alerts[i] \in AlertType
  BY <1>1 DEF Ids
<1>3. alerts[i].pages + 1 \in Nat
  BY <1>2 DEF AlertType
<1>4. /\ [alerts[i] EXCEPT !.escalated = TRUE] \in AlertType
      /\ [alerts[i] EXCEPT !.pages = @ + 1] \in AlertType
      /\ [alerts[i] EXCEPT !.status = "acknowledged"] \in AlertType
      /\ [alerts[i] EXCEPT !.status = "resolved"] \in AlertType
      /\ [alerts[i] EXCEPT !.overdue = TRUE] \in AlertType
  BY <1>2, <1>3 DEF AlertType, Open
<1>5. \A c \in Collector :
        /\ Claims(c, i) => Sets(i, [alerts[i] EXCEPT !.escalated = TRUE])
        /\ Pages(c, i) => Sets(i, [alerts[i] EXCEPT !.pages = @ + 1])
  BY DEF Claims, Pages, Sets
<1>6. /\ Ack(i) => Sets(i, [alerts[i] EXCEPT !.status = "acknowledged"])
      /\ Resolve(i) => Sets(i, [alerts[i] EXCEPT !.status = "resolved"])
      /\ SlaPasses(i) => Sets(i, [alerts[i] EXCEPT !.overdue = TRUE])
  BY DEF Ack, Resolve, SlaPasses, Sets
<1> QED  BY <1>2, <1>4, <1>5, <1>6

LEMMA TypeStep == TypeOK /\ [Next]_vars => TypeOK'
<1> SUFFICES ASSUME TypeOK, [Next]_vars PROVE TypeOK'
  OBVIOUS
<1>0. ColOK /\ alerts \in Seq(AlertType) /\ events \in 0..MaxEvents /\ MaxEvents \in Nat
  BY HandlingAssumption DEF TypeOK, ColOK, HandlingAssumption
<1>1. RowsKept /\ ColOK' => (alerts' \in Seq(AlertType) /\ saved' \in {0} \cup Ids' /\ ColOK')
  BY DEF RowsKept
<1>e. Event => events' \in 0..MaxEvents
  BY <1>0 DEF Event
<1>2. ASSUME NEW c \in Collector, Pass(c) \/ WatchReadsBlind(c) \/ StepRaises(c) \/ Stops(c)
      PROVE  RowsKept /\ ColOK'
  <2>0. col[c] \in ColType /\ col[c].ids \subseteq Ids /\ col[c].claimed \subseteq Ids
        /\ col[c].id \in {0} \cup Ids
    BY <1>0 DEF ColOK
  <2>1. CASE SyncReads(c)
    <3> DEFINE r == [Idle EXCEPT !.pc = "sync", !.win = window,
                     !.ids = IF window THEN {} ELSE {i \in OpenIds : alerts[i].silenced}]
    <3>1. RowsKept /\ Ids' = Ids
      BY <2>1, RowsSame DEF SyncReads
    <3>2. OpenIds \subseteq Ids /\ Ids \subseteq Nat
      BY <1>0 DEF OpenIds, Ids
    <3>3. r \in ColType /\ r.ids \subseteq Ids /\ r.claimed = {} /\ r.id = 0
      BY <3>2, IdleTyped DEF ColType, Idle, TypeOK
    <3>4. col' = [col EXCEPT ![c] = r]
      BY <2>1 DEF SyncReads
    <3> HIDE DEF r
    <3> QED  BY <1>0, <3>1, <3>3, <3>4, ColStep
  <2>2. CASE SyncWrites(c)
    BY <1>0, <2>2, SyncWritesRows, GotoTyped DEF SyncWrites
  <2>3. CASE WatchReads(c) \/ WatchReadsBlind(c)
    <3>0. PICK blind \in BOOLEAN : Reads(c, blind)
      BY <2>3 DEF WatchReads, WatchReadsBlind
    <3> DEFINE n == IF beat = "revoked" THEN saved ELSE Oldest
               seen == IF n \in OpenIds THEN alerts[n] ELSE NewAlert("WARNING", FALSE, FALSE)
               r == [Idle EXCEPT !.pc = "watch", !.win = window /\ ~blind, !.blind = blind,
                                 !.beat = beat, !.id = n, !.sev = seen.sev, !.status = seen.status]
    <3>1. RowsKept /\ Ids' = Ids
      BY <3>0, RowsSame DEF Reads
    <3>2. OpenIds \subseteq Ids /\ Ids \subseteq Nat
      BY <1>0 DEF OpenIds, Ids
    <3>3. n \in {0} \cup Ids
      <4>1. OpenIds = {} => Oldest = 0
        BY DEF Oldest
      <4> QED  BY <1>0, <3>2, <4>1, OldestTyped DEF TypeOK
    <3>4. seen.sev \in {"WARNING", "CRITICAL"} /\ seen.status \in Open
      <4> HIDE DEF n
      <4>1. n \in OpenIds => alerts[n] \in AlertType /\ alerts[n].status \in Open
        BY <1>0 DEF OpenIds, Ids
      <4> QED  BY <4>1 DEF NewAlert, AlertType, Open
    <3>5. col' = [col EXCEPT ![c] = r]
      BY <3>0 DEF Reads
    <3> HIDE DEF n, seen
    <3>6. n \in Nat
      BY <3>2, <3>3
    <3>7. r \in ColType /\ r.ids = {} /\ r.claimed = {} /\ r.id = n
      BY <3>4, <3>6, IdleTyped DEF ColType, Idle, TypeOK
    <3> HIDE DEF r
    <3> QED  BY <1>0, <3>1, <3>3, <3>5, <3>7, ColStep
  <2>4. CASE WatchClears(c)
    BY <1>0, <2>4, WatchClearsRows, GotoTyped DEF WatchClears
  <2>5. CASE WatchUpdates(c)
    BY <1>0, <2>5, WatchUpdatesRows, GotoTyped DEF WatchUpdates
  <2>6. CASE WatchOpens(c)
    BY <1>0, <2>6, WatchOpensRows, GotoTyped DEF WatchOpens, RowsKept
  <2>7. CASE EscalationReads(c)
    <3> DEFINE r == [Idle EXCEPT !.pc = "escalate", !.ids = Overdue]
    <3>1. RowsKept /\ Ids' = Ids
      BY <2>7, RowsSame DEF EscalationReads
    <3>2. CASE Goto(c, "idle")
      BY <1>0, <3>1, <3>2, GotoTyped
    <3>3. CASE col' = [col EXCEPT ![c] = r]
      <4>1. Overdue \subseteq Ids /\ Overdue \subseteq Nat
        BY <1>0 DEF Overdue, Ids
      <4>2. r \in ColType /\ r.ids = Overdue /\ r.claimed = {} /\ r.id = 0
        BY <4>1, IdleTyped DEF ColType, Idle
      <4> HIDE DEF r
      <4> QED  BY <1>0, <3>1, <3>3, <4>1, <4>2, ColStep
    <3> QED  BY <2>7, <3>2, <3>3 DEF EscalationReads
  <2>8. CASE StandardNotDue(c)
    BY <1>0, <2>8, RowsSame, GotoTyped DEF StandardNotDue
  <2>9. CASE EscalationEnds(c)
    BY <1>0, <2>9, RowsSame, GotoTyped DEF EscalationEnds
  <2>10. ASSUME NEW i \in Ids, Claims(c, i) \/ Pages(c, i)
         PROVE  RowsKept /\ ColOK'
    <3>1. RowsKept /\ Ids' = Ids
      BY <2>10, SingleSets, SetsRows
    <3>2. i \in Nat
      BY <1>0 DEF Ids
    <3> DEFINE r == [col[c] EXCEPT !.ids = @ \ {i},
                       !.claimed = IF alerts[i].escalated THEN @ ELSE @ \cup {i}]
               q == [col[c] EXCEPT !.claimed = @ \ {i}]
    <3>3. /\ r \in ColType /\ r.ids \subseteq Ids /\ r.claimed \subseteq Ids /\ r.id = col[c].id
          /\ q \in ColType /\ q.ids \subseteq Ids /\ q.claimed \subseteq Ids /\ q.id = col[c].id
      BY <2>0, <3>2 DEF ColType
    <3>4. (col' = [col EXCEPT ![c] = r]) \/ (col' = [col EXCEPT ![c] = q])
      BY <1>0, <2>0, <2>10 DEF Claims, Pages, ColOK, ColType
    <3> HIDE DEF r, q
    <3>5. CASE col' = [col EXCEPT ![c] = r]
      BY <1>0, <2>0, <3>1, <3>3, <3>5, ColStep
    <3>6. CASE col' = [col EXCEPT ![c] = q]
      BY <1>0, <2>0, <3>1, <3>3, <3>6, ColStep
    <3> QED  BY <3>1, <3>4, <3>5, <3>6
  <2>11. CASE StepRaises(c)
    BY <1>0, <2>11, RowsSame, GotoTyped DEF StepRaises
  <2>12. CASE Stops(c)
    BY <1>0, <2>12, RowsSame, GotoTyped DEF Stops
  <2> QED  BY <1>2, <2>1, <2>2, <2>3, <2>4, <2>5, <2>6, <2>7, <2>8, <2>9, <2>10, <2>11, <2>12 DEF Pass
<1>3. ASSUME NEW i \in Ids, Ack(i) \/ Resolve(i) \/ SlaPasses(i)
      PROVE  RowsKept /\ ColOK'
  <2>1. RowsKept /\ Ids' = Ids
    BY <1>3, SingleSets, SetsRows
  <2> QED  BY <1>0, <1>3, <2>1, ColSame DEF Ack, Resolve, SlaPasses
<1>4. CASE WindowChanges \/ BeatChanges \/ UNCHANGED vars
  <2>1. RowsKept /\ Ids' = Ids /\ UNCHANGED col
    BY <1>4, RowsSame DEF WindowChanges, BeatChanges, vars, rows
  <2>2. ColOK'
    BY <1>0, <2>1, ColSame
  <2>3. beat' \in Beat /\ window' \in BOOLEAN /\ synced' \in BOOLEAN /\ split' \in BOOLEAN
        /\ events' \in 0..MaxEvents
    BY <1>0, <1>4, <1>e DEF WindowChanges, BeatChanges, vars, world, TypeOK
  <2> QED  BY <1>1, <2>1, <2>2, <2>3, TypeFrom DEF TypeOK, ColOK
<1>5. ASSUME NEW c \in Collector, Pass(c) \/ WatchReadsBlind(c) \/ StepRaises(c) \/ Stops(c)
      PROVE  TypeOK'
  <2>1. beat' = beat /\ window' = window /\ (events' = events \/ Event)
    BY <1>5 DEF Pass, StepRaises, Stops, SyncReads, SyncWrites, WatchReads, WatchReadsBlind, Reads, WatchClears, WatchUpdates,
       WatchOpens, EscalationReads, StandardNotDue, EscalationEnds, Claims, Pages, world
  <2>2. synced' \in BOOLEAN /\ split' \in BOOLEAN
    BY <1>5 DEF Pass, StepRaises, Stops, SyncReads, SyncWrites, WatchReads, WatchReadsBlind, Reads, WatchClears, WatchUpdates,
       WatchOpens, EscalationReads, StandardNotDue, EscalationEnds, Claims, Pages, TypeOK
  <2> QED  BY <1>0, <1>1, <1>2, <1>5, <1>e, <2>1, <2>2 DEF TypeOK, ColOK
<1>6. ASSUME NEW i \in Ids, Ack(i) \/ Resolve(i) \/ SlaPasses(i)
      PROVE  TypeOK'
  <2>1. beat' = beat /\ window' = window /\ synced' = synced /\ split' = split
        /\ (events' = events \/ Event)
    BY <1>6 DEF Ack, Resolve, SlaPasses, world
  <2> QED  BY <1>0, <1>1, <1>3, <1>6, <1>e, <2>1 DEF TypeOK, ColOK
<1> QED  BY <1>4, <1>5, <1>6 DEF Next

\* Type correctness for any number of collectors and events.
THEOREM TypeCorrect == Spec => []TypeOK
BY TypeInit, TypeStep, PTL DEF Spec

-----------------------------------------------------------------------------
(* One page for each alert.                                                  *)

\* An alert that a collector has claimed is marked, has not been paged for, and
\* is claimed by no other; an alert that was paged for is marked.
ClaimInv ==
  \A i \in Ids :
    /\ alerts[i].pages <= 1
    /\ alerts[i].pages # 0 => alerts[i].escalated
    /\ \A c \in Collector : i \in col[c].claimed => alerts[i].escalated /\ alerts[i].pages = 0
    /\ \A c, d \in Collector : i \in col[c].claimed /\ i \in col[d].claimed => c = d

\* A step that claims nothing and pages nobody.
NoClaim ==
  /\ Ids \subseteq Ids'
  /\ \A i \in Ids : alerts'[i].escalated = alerts[i].escalated /\ alerts'[i].pages = alerts[i].pages
  /\ \A i \in Ids' \ Ids : alerts'[i].pages = 0
  /\ \A c \in Collector : col'[c].claimed \subseteq col[c].claimed

LEMMA NoClaimKeeps ==
  ASSUME TypeOK, ClaimInv, NoClaim
  PROVE  ClaimInv'
<1>1. \A c \in Collector : col[c].claimed \subseteq Ids
  BY DEF TypeOK
<1>2. ASSUME NEW i \in Ids'
      PROVE  /\ alerts'[i].pages <= 1
             /\ alerts'[i].pages # 0 => alerts'[i].escalated
             /\ \A c \in Collector : i \in col'[c].claimed => alerts'[i].escalated /\ alerts'[i].pages = 0
             /\ \A c, d \in Collector : i \in col'[c].claimed /\ i \in col'[d].claimed => c = d
  <2>1. CASE i \in Ids
    BY <2>1 DEF ClaimInv, NoClaim
  <2>2. CASE i \notin Ids
    BY <1>1, <1>2, <2>2 DEF NoClaim
  <2> QED  BY <2>1, <2>2
<1> QED  BY <1>2 DEF ClaimInv

\* Starting another step forgets what was claimed.
LEMMA GotoForgets ==
  ASSUME TypeOK, NEW c \in Collector, NEW pc, Goto(c, pc)
  PROVE  /\ \A d \in Collector : col'[d].claimed \subseteq col[d].claimed
         /\ \A d \in Collector \ {c} : col'[d] = col[d]
         /\ col'[c] = [Idle EXCEPT !.pc = pc]
<1>1. /\ \A d \in Collector \ {c} : col'[d] = col[d]
      /\ col'[c] = [Idle EXCEPT !.pc = pc]
  BY DEF Goto, TypeOK
<1>2. col'[c].claimed = {}
  BY <1>1 DEF Idle
<1> QED  BY <1>1, <1>2

LEMMA ClaimStep == TypeOK /\ ClaimInv /\ [Next]_vars => ClaimInv'
<1> SUFFICES ASSUME TypeOK, ClaimInv, [Next]_vars PROVE ClaimInv'
  OBVIOUS
<1>0. /\ alerts \in Seq(AlertType) /\ \A i \in Ids : alerts[i] \in AlertType
      /\ \A c \in Collector : col[c] \in ColType
  BY DEF TypeOK, Ids
<1>1. ASSUME NEW c \in Collector, SyncReads(c) \/ WatchReads(c) \/ WatchReadsBlind(c) \/ EscalationReads(c)
                                    \/ StandardNotDue(c) \/ EscalationEnds(c)
                                    \/ StepRaises(c) \/ Stops(c)
      PROVE  ClaimInv'
  <2>1. alerts' = alerts
    BY <1>1 DEF SyncReads, WatchReads, WatchReadsBlind, Reads, EscalationReads, StandardNotDue,
                EscalationEnds, StepRaises, Stops, rows
  <2>2. \A d \in Collector : col'[d].claimed \subseteq col[d].claimed
    <3>1. CASE \E pc : Goto(c, pc)
      BY <3>1, GotoForgets
    <3>2. CASE SyncReads(c) \/ WatchReads(c) \/ WatchReadsBlind(c)
      <4>1. CASE SyncReads(c)
        BY <4>1 DEF SyncReads, TypeOK, Idle
      <4>2. ASSUME NEW b, Reads(c, b)
            PROVE  \A d \in Collector : col'[d].claimed \subseteq col[d].claimed
        BY ZenonT(30), <4>2 DEF Reads, TypeOK, Idle
      <4> QED  BY <3>2, <4>1, <4>2 DEF WatchReads, WatchReadsBlind
    <3>3. CASE EscalationReads(c) /\ ~\E pc : Goto(c, pc)
      BY <3>3 DEF EscalationReads, TypeOK, Idle
    <3> QED  BY <1>1, <3>1, <3>2, <3>3 DEF StandardNotDue, EscalationEnds, StepRaises, Stops
  <2>3. NoClaim
    BY <2>1, <2>2 DEF NoClaim, Ids
  <2> QED  BY <2>3, NoClaimKeeps
<1>2. ASSUME NEW c \in Collector, SyncWrites(c) \/ WatchClears(c)
      PROVE  ClaimInv'
  <2>1. Ids' = Ids
    BY <1>2, SyncWritesRows, WatchClearsRows
  <2>2. \A i \in Ids : alerts'[i].escalated = alerts[i].escalated /\ alerts'[i].pages = alerts[i].pages
    <3>1. CASE SyncWrites(c)
      BY <1>0, <3>1 DEF SyncWrites, SilencedBy, AlertType
    <3>2. CASE WatchClears(c)
      BY <1>0, <3>2 DEF WatchClears, AlertType
    <3> QED  BY <1>2, <3>1, <3>2
  <2>3. NoClaim
    BY <1>2, <2>1, <2>2, GotoForgets DEF NoClaim, SyncWrites, WatchClears
  <2> QED  BY <2>3, NoClaimKeeps
<1>3. ASSUME NEW c \in Collector, WatchUpdates(c)
      PROVE  ClaimInv'
  <2>1. /\ Ids' = Ids /\ col[c].id \in Ids
        /\ alerts' = [alerts EXCEPT ![col[c].id] = Updated(alerts[col[c].id], c)]
    BY <1>3, WatchUpdatesRows
  <2>2. ASSUME NEW i \in Ids
        PROVE  alerts'[i].escalated = alerts[i].escalated /\ alerts'[i].pages = alerts[i].pages
    <3>1. alerts'[i] = IF i = col[c].id THEN Updated(alerts[i], c) ELSE alerts[i]
      BY <1>0, <2>1 DEF Ids
    <3>2. alerts[i] \in AlertType
      BY <1>0
    <3> QED  BY <3>1, <3>2 DEF Updated, AlertType
  <2>3. NoClaim
    BY <1>3, <2>1, <2>2, GotoForgets DEF NoClaim, WatchUpdates
  <2> QED  BY <2>3, NoClaimKeeps
<1>4. ASSUME NEW c \in Collector, WatchOpens(c)
      PROVE  ClaimInv'
  <2>1. /\ Ids' = Ids \cup {Len(alerts) + 1} /\ \A i \in Ids : alerts'[i] = alerts[i]
        /\ alerts'[Len(alerts) + 1] = NewAlert(Severity(col[c].beat), col[c].win, col[c].blind)
    BY <1>4, WatchOpensRows
  <2>2. alerts'[Len(alerts) + 1].pages = 0
    BY <2>1 DEF NewAlert
  <2>3. NoClaim
    BY <1>4, <2>1, <2>2, GotoForgets DEF NoClaim, WatchOpens
  <2> QED  BY <2>3, NoClaimKeeps
<1>5. ASSUME NEW i \in Ids, Ack(i) \/ Resolve(i) \/ SlaPasses(i)
      PROVE  ClaimInv'
  <2>1. alerts[i] \in AlertType /\ col' = col
    BY <1>0, <1>5 DEF Ack, Resolve, SlaPasses
  <2>2. Ids' = Ids
    BY <1>5, SingleSets, SetsRows
  <2>3. PICK a : /\ alerts' = [alerts EXCEPT ![i] = a]
                 /\ a \in {[alerts[i] EXCEPT !.status = "acknowledged"],
                          [alerts[i] EXCEPT !.status = "resolved"],
                          [alerts[i] EXCEPT !.overdue = TRUE]}
    BY <1>5, SingleSets DEF Sets
  <2>5. a.escalated = alerts[i].escalated /\ a.pages = alerts[i].pages
    BY <2>1, <2>3 DEF AlertType
  <2>6. \A j \in Ids : alerts'[j] = IF j = i THEN a ELSE alerts[j]
    BY <1>0, <2>3 DEF Ids
  <2>4. NoClaim
    BY <2>1, <2>2, <2>5, <2>6 DEF NoClaim
  <2> QED  BY <2>4, NoClaimKeeps
<1>6. CASE WindowChanges \/ BeatChanges \/ UNCHANGED vars
  <2>1. alerts' = alerts /\ col' = col
    BY <1>6 DEF WindowChanges, BeatChanges, vars, rows
  <2>2. NoClaim
    BY <2>1 DEF NoClaim, Ids
  <2> QED  BY <2>2, NoClaimKeeps
<1>7. ASSUME NEW c \in Collector, NEW i \in Ids, Claims(c, i)
      PROVE  ClaimInv'
  <2>1. Ids' = Ids
    BY <1>7, SingleSets, SetsRows
  <2>2. /\ alerts'[i] = [alerts[i] EXCEPT !.escalated = TRUE]
        /\ \A j \in Ids \ {i} : alerts'[j] = alerts[j]
    BY <1>0, <1>7 DEF Claims, Ids
  <2>3. /\ \A d \in Collector \ {c} : col'[d] = col[d]
        /\ col'[c].claimed = IF alerts[i].escalated THEN col[c].claimed ELSE col[c].claimed \cup {i}
    BY <1>0, <1>7 DEF Claims, TypeOK, ColType
  <2>4. /\ alerts'[i].escalated /\ alerts'[i].pages = alerts[i].pages
    BY <1>0, <2>2 DEF AlertType
  <2>5. ASSUME NEW j \in Ids, j # i
        PROVE  alerts'[j] = alerts[j] /\ \A d \in Collector : j \in col'[d].claimed => j \in col[d].claimed
    BY <2>2, <2>3, <2>5
  <2>6. ~alerts[i].escalated => /\ alerts[i].pages = 0 
                                /\ \A d \in Collector : i \notin col[d].claimed
    BY DEF ClaimInv
  <2>7. \A d \in Collector : i \in col'[d].claimed =>
          \/ alerts[i].escalated /\ i \in col[d].claimed
          \/ ~alerts[i].escalated /\ d = c
    BY <2>3, <2>6
  <2>8. ASSUME NEW j \in Ids
        PROVE  /\ alerts'[j].pages <= 1
               /\ alerts'[j].pages # 0 => alerts'[j].escalated
               /\ \A b \in Collector : j \in col'[b].claimed => alerts'[j].escalated /\ alerts'[j].pages = 0
               /\ \A b, d \in Collector : j \in col'[b].claimed /\ j \in col'[d].claimed => b = d
    <3>1. CASE j = i
      BY <2>4, <2>6, <2>7, <3>1 DEF ClaimInv
    <3>2. CASE j # i
      BY <2>5, <3>2 DEF ClaimInv
    <3> QED  BY <3>1, <3>2
  <2> QED  BY <2>1, <2>8 DEF ClaimInv
<1>8. ASSUME NEW c \in Collector, NEW i \in Ids, Pages(c, i)
      PROVE  ClaimInv'
  <2>1. Ids' = Ids
    BY <1>8, SingleSets, SetsRows
  <2>2. /\ alerts'[i] = [alerts[i] EXCEPT !.pages = @ + 1]
        /\ \A j \in Ids \ {i} : alerts'[j] = alerts[j]
    BY <1>0, <1>8 DEF Pages, Ids
  <2>3. /\ \A d \in Collector \ {c} : col'[d] = col[d]
        /\ col'[c].claimed = col[c].claimed \ {i}
        /\ i \in col[c].claimed
    BY <1>0, <1>8 DEF Pages, TypeOK, ColType
  <2>4. alerts[i].escalated /\ alerts[i].pages = 0 /\ \A d \in Collector : i \in col[d].claimed => d = c
    BY <2>3 DEF ClaimInv
  <2>5. alerts'[i].escalated /\ alerts'[i].pages = 1
    BY <1>0, <2>2, <2>4 DEF AlertType
  <2>6. \A d \in Collector : i \notin col'[d].claimed
    BY <2>3, <2>4
  <2>7. ASSUME NEW j \in Ids
        PROVE  /\ alerts'[j].pages <= 1
               /\ alerts'[j].pages # 0 => alerts'[j].escalated
               /\ \A b \in Collector : j \in col'[b].claimed => alerts'[j].escalated /\ alerts'[j].pages = 0
               /\ \A b, d \in Collector : j \in col'[b].claimed /\ j \in col'[d].claimed => b = d
    <3>1. CASE j = i
      BY <2>5, <2>6, <3>1
    <3>2. CASE j # i
      <4>1. alerts'[j] = alerts[j] /\ \A d \in Collector : j \in col'[d].claimed => j \in col[d].claimed
        BY <2>2, <2>3, <3>2
      <4> QED  BY <4>1 DEF ClaimInv
    <3> QED  BY <3>1, <3>2
  <2> QED  BY <2>1, <2>7 DEF ClaimInv
<1> QED  BY <1>1, <1>2, <1>3, <1>4, <1>5, <1>6, <1>7, <1>8 DEF Next, Pass

\* No alert is ever paged for twice, however many collectors overlap or die half
\* way: the claim of evaluate_escalations decides alone.
THEOREM PagedOnceAlways == Spec => []PagedOnce
<1>1. Init => ClaimInv
  BY DEF Init, ClaimInv, Ids
<1>2. TypeOK /\ ClaimInv /\ [Next]_vars => ClaimInv'
  BY ClaimStep
<1>3. ClaimInv => PagedOnce
  BY DEF ClaimInv, PagedOnce
<1> QED  BY <1>1, <1>2, <1>3, TypeCorrect, PTL DEF Spec

-----------------------------------------------------------------------------
(* Silence throughout a window.                                              *)

\* Silenced, or excused until the next sync.
Hushed(a) == a.silenced \/ a.missed

\* What a collector has read agrees with a window that has been synced.
Quiet(c) ==
  /\ At(c, "sync") => col[c].win
  /\ At(c, "watch") => /\ col[c].win \/ col[c].blind
                       /\ col[c].beat \in {"stale", "offline"} /\ col[c].id # 0
                            => Hushed(alerts[col[c].id])

\* One collector at a time; and in a synced window all is quiet.
QuietInv ==
  ~split => /\ \A c, d \in Collector : ~At(c, "idle") /\ ~At(d, "idle") => c = d
            /\ window /\ synced => /\ \A i \in OpenIds : Hushed(alerts[i])
                                   /\ \A c \in Collector : Quiet(c)

\* A step that reads nothing and un-silences nothing.
NoNoise ==
  /\ split' = split
  /\ window' /\ synced' => window /\ synced
  /\ Ids \subseteq Ids'
  /\ ~split /\ window /\ synced =>
       /\ \A i \in Ids : Hushed(alerts[i]) => Hushed(alerts'[i])
       /\ \A i \in OpenIds' \ OpenIds : Hushed(alerts'[i])
  /\ \A c \in Collector : \/ col'[c] = col[c]
                          \/ /\ col'[c].pc \notin {"sync", "watch"}
                             /\ col'[c].pc # "idle" => col[c].pc # "idle"

LEMMA NoNoiseKeeps ==
  ASSUME TypeOK, QuietInv, NoNoise
  PROVE  QuietInv'
<1> SUFFICES ASSUME ~split'
             PROVE  /\ \A c, d \in Collector : ~At(c, "idle")' /\ ~At(d, "idle")' => c = d
                    /\ window' /\ synced' => /\ \A i \in OpenIds' : Hushed(alerts'[i])
                                             /\ \A c \in Collector : Quiet(c)'
  BY DEF QuietInv
<1>1. ~split
  BY DEF NoNoise
<1>2. \A c \in Collector : ~At(c, "idle")' => ~At(c, "idle")
  BY DEF NoNoise, At
<1>3. \A c, d \in Collector : ~At(c, "idle")' /\ ~At(d, "idle")' => c = d
  BY <1>1, <1>2 DEF QuietInv
<1>4. ASSUME window', synced'
      PROVE  /\ \A i \in OpenIds' : Hushed(alerts'[i])
             /\ \A c \in Collector : Quiet(c)'
  <2>1. /\ window /\ synced /\ \A i \in OpenIds : Hushed(alerts[i])
        /\ \A c \in Collector : Quiet(c)
        /\ \A i \in Ids : Hushed(alerts[i]) => Hushed(alerts'[i])
        /\ \A i \in OpenIds' \ OpenIds : Hushed(alerts'[i])
    BY <1>1, <1>4 DEF NoNoise, QuietInv
  <2>2. \A i \in OpenIds' : Hushed(alerts'[i])
    BY <2>1 DEF OpenIds
  <2>3. ASSUME NEW c \in Collector
        PROVE  Quiet(c)'
    <3>1. CASE col'[c].pc \notin {"sync", "watch"}
      BY <3>1 DEF Quiet, At
    <3>2. CASE col'[c] = col[c]
      <4>1. col[c].id \in {0} \cup Ids
        BY DEF TypeOK
      <4>2. Quiet(c)
        BY <2>1
      <4>3. col[c].id # 0 /\ Hushed(alerts[col[c].id]) => Hushed(alerts'[col[c].id])
        BY <2>1, <4>1
      <4> QED  BY <3>2, <4>2, <4>3 DEF Quiet, At
    <3> QED  BY <3>1, <3>2 DEF NoNoise
  <2> QED  BY <2>2, <2>3
<1> QED  BY <1>3, <1>4

\* The pcs after another step was started.
LEMMA GotoPc ==
  ASSUME TypeOK, NEW c \in Collector,
         NEW pc \in {"idle", "sync", "synced", "watch", "watched", "escalate"}, Goto(c, pc)
  PROVE  col'[c].pc = pc /\ \A d \in Collector \ {c} : col'[d] = col[d]
<1>1. [Idle EXCEPT !.pc = pc].pc = pc
  BY DEF Idle
<1> QED  BY <1>1, GotoForgets

LEMMA QuietStep == TypeOK /\ QuietInv /\ [Next]_vars => QuietInv'
<1> SUFFICES ASSUME TypeOK, QuietInv, [Next]_vars PROVE QuietInv'
  OBVIOUS
<1>0. /\ alerts \in Seq(AlertType) /\ \A i \in Ids : alerts[i] \in AlertType
      /\ \A c \in Collector : col[c] \in ColType /\ col[c].id \in {0} \cup Ids
      /\ window \in BOOLEAN
  BY DEF TypeOK, Ids
<1>1. ASSUME NEW c \in Collector, EscalationReads(c) \/ StandardNotDue(c) \/ EscalationEnds(c)
                                    \/ StepRaises(c) \/ Stops(c)
      PROVE  QuietInv'
  <2>1. alerts' = alerts /\ UNCHANGED <<window, synced, split>> /\ ~At(c, "idle")
    BY <1>1 DEF EscalationReads, StandardNotDue, EscalationEnds, StepRaises, Stops, rows, world, At
  <2>2. /\ \A d \in Collector \ {c} : col'[d] = col[d]
        /\ col'[c].pc \notin {"sync", "watch"}
    <3>1. CASE \E pc \in {"idle", "synced", "watched"} : Goto(c, pc)
      BY <3>1, GotoPc
    <3>2. CASE EscalationReads(c) /\ ~Goto(c, "idle")
      BY <3>2 DEF EscalationReads, TypeOK, Idle
    <3> QED  BY <1>1, <3>1, <3>2 DEF StandardNotDue, EscalationEnds, StepRaises, Stops
  <2>3. NoNoise
    BY <2>1, <2>2 DEF NoNoise, Ids, OpenIds, At
  <2> QED  BY <2>3, NoNoiseKeeps
<1>2. ASSUME NEW c \in Collector, WatchClears(c)
      PROVE  QuietInv'
  <2>1. Ids' = Ids
    BY <1>2, WatchClearsRows
  <2>2. ASSUME NEW i \in Ids
        PROVE  /\ Hushed(alerts'[i]) = Hushed(alerts[i])
               /\ alerts'[i].status \in Open => alerts[i].status \in Open
    <3>1. alerts'[i] = [alerts[i] EXCEPT !.status = "resolved"] \/ alerts'[i] = alerts[i]
      BY <1>2 DEF WatchClears
    <3>2. alerts[i] \in AlertType
      BY <1>0
    <3> QED  BY <3>1, <3>2 DEF AlertType, Open, Hushed
  <2>3. OpenIds' \subseteq OpenIds
    BY <2>1, <2>2 DEF OpenIds
  <2>4. col'[c].pc = "watched" /\ \A d \in Collector \ {c} : col'[d] = col[d]
    BY <1>2, GotoPc DEF WatchClears
  <2>5. NoNoise
    BY <1>2, <2>1, <2>2, <2>3, <2>4 DEF NoNoise, WatchClears, world, At
  <2> QED  BY <2>5, NoNoiseKeeps
<1>3. ASSUME NEW c \in Collector, WatchUpdates(c)
      PROVE  QuietInv'
  <2>1. /\ Ids' = Ids /\ col[c].id \in Ids
        /\ alerts' = [alerts EXCEPT ![col[c].id] = Updated(alerts[col[c].id], c)]
    BY <1>3, WatchUpdatesRows
  <2>2. ASSUME NEW i \in Ids
        PROVE  /\ Hushed(alerts'[i]) = Hushed(alerts[i])
               /\ i # col[c].id => alerts'[i] = alerts[i]
    <3>1. alerts'[i] = IF i = col[c].id THEN Updated(alerts[i], c) ELSE alerts[i]
      BY <1>0, <2>1 DEF Ids
    <3>2. alerts[i] \in AlertType
      BY <1>0
    <3> QED  BY <3>1, <3>2 DEF Updated, AlertType, Hushed
  <2>3. ~split /\ window /\ synced => Hushed(alerts[col[c].id])
    BY <1>3 DEF QuietInv, Quiet, WatchUpdates
  <2>4. OpenIds' \subseteq OpenIds \cup {col[c].id}
    BY <2>1, <2>2 DEF OpenIds
  <2>5. col'[c].pc = "watched" /\ \A d \in Collector \ {c} : col'[d] = col[d]
    BY <1>3, GotoPc DEF WatchUpdates
  <2>6. ~split /\ window /\ synced => \A i \in OpenIds' \ OpenIds : Hushed(alerts'[i])
    BY <2>1, <2>2, <2>3, <2>4
  <2>7. NoNoise
    BY <1>3, <2>1, <2>2, <2>5, <2>6 DEF NoNoise, WatchUpdates, world, At
  <2> QED  BY <2>7, NoNoiseKeeps
<1>4. ASSUME NEW c \in Collector, WatchOpens(c)
      PROVE  QuietInv'
  <2>1. /\ Ids' = Ids \cup {Len(alerts) + 1} /\ \A i \in Ids : alerts'[i] = alerts[i]
        /\ alerts'[Len(alerts) + 1] = NewAlert(Severity(col[c].beat), col[c].win, col[c].blind)
    BY <1>4, WatchOpensRows
  <2>2. /\ alerts'[Len(alerts) + 1].silenced = col[c].win
        /\ alerts'[Len(alerts) + 1].missed = col[c].blind
    BY <2>1 DEF NewAlert
  <2>3. ~split /\ window /\ synced => col[c].win \/ col[c].blind
    BY <1>4 DEF QuietInv, Quiet, WatchOpens
  <2>4. OpenIds' \subseteq OpenIds \cup {Len(alerts) + 1}
    BY <2>1 DEF OpenIds
  <2>5. col'[c].pc = "watched" /\ \A d \in Collector \ {c} : col'[d] = col[d]
    BY <1>4, GotoPc DEF WatchOpens
  <2>6. ~split /\ window /\ synced => \A i \in OpenIds' \ OpenIds : Hushed(alerts'[i])
    BY <2>2, <2>3, <2>4 DEF Hushed
  <2>7. NoNoise
    BY <1>4, <2>1, <2>5, <2>6 DEF NoNoise, WatchOpens, world, At
  <2> QED  BY <2>7, NoNoiseKeeps
<1>5. ASSUME NEW i \in Ids, Ack(i) \/ Resolve(i) \/ SlaPasses(i) \/ \E c \in Collector : Claims(c, i) \/ Pages(c, i)
      PROVE  QuietInv'
  <2>1. alerts[i] \in AlertType
    BY <1>0
  <2>2. Ids' = Ids
    BY <1>5, SingleSets, SetsRows
  <2>3. \/ alerts' = [alerts EXCEPT ![i] = [alerts[i] EXCEPT !.status = "acknowledged"]] /\ i \in OpenIds
        \/ alerts' = [alerts EXCEPT ![i] = [alerts[i] EXCEPT !.status = "resolved"]]
        \/ alerts' = [alerts EXCEPT ![i] = [alerts[i] EXCEPT !.overdue = TRUE]]
        \/ alerts' = [alerts EXCEPT ![i] = [alerts[i] EXCEPT !.escalated = TRUE]]
        \/ alerts' = [alerts EXCEPT ![i] = [alerts[i] EXCEPT !.pages = @ + 1]]
    <3>1. CASE Ack(i)
      BY <3>1, SingleSets DEF Sets, Ack
    <3>2. CASE Resolve(i) \/ SlaPasses(i)
      BY <3>2, SingleSets DEF Sets
    <3>3. CASE \E c \in Collector : Claims(c, i) \/ Pages(c, i)
      BY <3>3, SingleSets DEF Sets
    <3> QED  BY <1>5, <3>1, <3>2, <3>3
  <2>4. /\ Hushed(alerts'[i]) = Hushed(alerts[i])
        /\ alerts'[i].status \in Open => alerts[i].status \in Open
    BY <1>0, <2>1, <2>3 DEF AlertType, Open, OpenIds, Ids, Hushed
  <2>5. \A j \in Ids \ {i} : alerts'[j] = alerts[j]
    BY <1>0, <2>3 DEF Ids
  <2>6. OpenIds' \subseteq OpenIds
    BY <2>2, <2>4, <2>5 DEF OpenIds
  <2>7. /\ UNCHANGED <<window, synced, split>>
        /\ \A d \in Collector : col'[d] = col[d] \/ (col'[d].pc = "escalate" /\ col[d].pc = "escalate")
    <3>1. CASE Ack(i) \/ Resolve(i) \/ SlaPasses(i)
      BY <3>1 DEF Ack, Resolve, SlaPasses, world
    <3>2. ASSUME NEW c \in Collector, Claims(c, i) \/ Pages(c, i)
          PROVE  /\ UNCHANGED <<window, synced, split>>
                 /\ \A d \in Collector : col'[d] = col[d] \/ (col'[d].pc = "escalate" /\ col[d].pc = "escalate")
      <4>1. UNCHANGED <<window, synced, split>> /\ \A d \in Collector \ {c} : col'[d] = col[d]
        BY <3>2 DEF Claims, Pages, world, TypeOK
      <4>2. col'[c].pc = "escalate" /\ col[c].pc = "escalate"
        BY <1>0, <3>2 DEF Claims, Pages, At, TypeOK, ColType
      <4> QED  BY <4>1, <4>2
    <3> QED  BY <1>5, <3>1, <3>2
  <2>8. NoNoise
    BY <2>2, <2>4, <2>5, <2>6, <2>7 DEF NoNoise
  <2> QED  BY <2>8, NoNoiseKeeps
<1>6. CASE WindowChanges \/ BeatChanges \/ UNCHANGED vars
  <2>1. alerts' = alerts /\ col' = col /\ split' = split /\ (window' /\ synced' => window /\ synced)
    BY <1>6 DEF WindowChanges, BeatChanges, vars, rows, world
  <2>2. NoNoise
    BY <2>1 DEF NoNoise, Ids, OpenIds
  <2> QED  BY <2>2, NoNoiseKeeps
<1>7. ASSUME NEW c \in Collector, SyncReads(c)
      PROVE  QuietInv'
  <2>1. /\ alerts' = alerts /\ window' = window /\ synced' = synced
        /\ split' = (split \/ \E d \in Collector : ~At(d, "idle"))
        /\ \A d \in Collector \ {c} : col'[d] = col[d]
        /\ col'[c].pc = "sync" /\ col'[c].win = window
    BY <1>7 DEF SyncReads, rows, world, TypeOK, Idle
  <2>2. SUFFICES ASSUME ~split', ~split, \A d \in Collector : At(d, "idle")
                 PROVE  QuietInv'
    BY <2>1 DEF QuietInv
  <2>3. \A d \in Collector \ {c} : At(d, "idle")'
    BY <2>1, <2>2 DEF At
  <2>4. \A d \in Collector : window' => Quiet(d)'
    <3>1. window' => Quiet(c)'
      BY <2>1 DEF Quiet, At
    <3>2. \A d \in Collector \ {c} : Quiet(d)'
      BY <2>3 DEF Quiet, At
    <3> QED  BY <3>1, <3>2
  <2>5. OpenIds' = OpenIds
    BY <2>1 DEF OpenIds, Ids
  <2> QED  BY <2>1, <2>2, <2>3, <2>4, <2>5 DEF QuietInv
<1>8. ASSUME NEW c \in Collector, SyncWrites(c)
      PROVE  QuietInv'
  <2>1. Ids' = Ids
    BY <1>8, SyncWritesRows
  <2>2. /\ window' = window /\ split' = split /\ synced' = (synced \/ (col[c].win /\ window))
        /\ col'[c].pc = "synced" /\ \A d \in Collector \ {c} : col'[d] = col[d]
        /\ At(c, "sync") /\ alerts' = SilencedBy(col[c].win, col[c].ids)
    BY <1>8, GotoPc DEF SyncWrites, world
  <2>3. SUFFICES ASSUME ~split', ~split
                 PROVE  QuietInv'
    BY <2>2 DEF QuietInv
  <2>4. \A d \in Collector \ {c} : At(d, "idle") /\ At(d, "idle")'
    BY <2>2, <2>3 DEF QuietInv, At
  <2>5. \A d \in Collector : Quiet(d)'
    BY <2>2, <2>4 DEF Quiet, At
  <2>6. window' /\ synced' => col[c].win
    BY <2>2, <2>3 DEF QuietInv, Quiet
  <2>7. ASSUME col[c].win, NEW i \in OpenIds'
        PROVE  Hushed(alerts'[i])
    <3>1. /\ i \in Ids /\ alerts'[i].status \in Open /\ alerts[i] \in AlertType
      BY <1>0, <2>1 DEF OpenIds
    <3>2. CASE i \in OpenIds
      BY <2>2, <2>7, <3>1, <3>2 DEF SilencedBy, AlertType, Hushed
    <3>3. CASE i \notin OpenIds
      <4>1. alerts'[i].status = alerts[i].status
        BY <2>2, <3>1 DEF SilencedBy, AlertType
      <4> QED  BY <3>1, <3>3, <4>1 DEF OpenIds
    <3> QED  BY <3>2, <3>3
  <2> QED  BY <2>2, <2>4, <2>5, <2>6, <2>7 DEF QuietInv, At
<1>9. ASSUME NEW c \in Collector, WatchReads(c) \/ WatchReadsBlind(c)
      PROVE  QuietInv'
  <2>0. PICK blind \in BOOLEAN : Reads(c, blind)
    BY <1>9 DEF WatchReads, WatchReadsBlind
  <2> DEFINE n == IF beat = "revoked" THEN saved ELSE Oldest
  <2>1. /\ alerts' = alerts /\ window' = window /\ synced' = synced /\ split' = split
        /\ \A d \in Collector \ {c} : col'[d] = col[d]
        /\ col'[c].pc = "watch" /\ col'[c].win = (window /\ ~blind) /\ col'[c].blind = blind
        /\ col'[c].beat = beat /\ col'[c].id = n
        /\ At(c, "synced")
    BY <2>0 DEF Reads, rows, world, TypeOK, Idle
  <2>2. SUFFICES ASSUME ~split', ~split
                 PROVE  QuietInv'
    BY <2>1 DEF QuietInv
  <2>3. \A d \in Collector \ {c} : At(d, "idle")'
    BY <2>1, <2>2 DEF QuietInv, At
  <2>4. OpenIds' = OpenIds
    BY <2>1 DEF OpenIds, Ids
  <2>5. beat # "revoked" /\ n # 0 => n \in OpenIds
    <3>1. OpenIds = {} => Oldest = 0
      BY DEF Oldest
    <3> QED  BY <1>0, <3>1, OldestTyped
  <2> HIDE DEF n
  <2>6. window' /\ synced' => Quiet(c)'
    BY <2>1, <2>2, <2>5 DEF Quiet, At, QuietInv
  <2>7. \A d \in Collector \ {c} : Quiet(d)'
    BY <2>3 DEF Quiet, At
  <2> QED  BY <2>1, <2>2, <2>3, <2>4, <2>6, <2>7 DEF QuietInv, At
<1> QED  BY <1>1, <1>2, <1>3, <1>4, <1>5, <1>6, <1>7, <1>8, <1>9 DEF Next, Pass

\* Once a sync has run in a window no alert of the host makes a noise, whatever
\* opens, escalates or is acknowledged meanwhile, while collectors do not overlap:
\* but for what a watchdog opened that could not read the windows, and that until
\* the next sync.
THEOREM SilencedInWindowAlways == Spec => []SilencedInWindow
<1>1. Init => QuietInv
  BY DEF Init, QuietInv, At, Idle
<1>2. TypeOK /\ QuietInv /\ [Next]_vars => QuietInv'
  BY QuietStep
<1>3. QuietInv => SilencedInWindow
  BY DEF QuietInv, SilencedInWindow, Hushed
<1> QED  BY <1>1, <1>2, <1>3, TypeCorrect, PTL DEF Spec

=============================================================================
