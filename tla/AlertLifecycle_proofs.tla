------------------------- MODULE AlertLifecycle_proofs -------------------------
(* Proofs about AlertLifecycle for every value of its constants: type         *)
(* correctness and the safety of a user's resolution for any number of        *)
(* evaluators; for a single evaluator, that at most one alert is open, that   *)
(* an acknowledgement is withdrawn only for an escalation, and that alerts    *)
(* open and recover only on a state of the metric that lasts.                 *)
EXTENDS AlertLifecycle, WellFoundedInduction, TLAPS

-----------------------------------------------------------------------------
(* Types of the operators.                                                   *)

\* Counters saturate at their cap.
LEMMA AtMostTyped ==
  ASSUME NEW n \in Nat, NEW cap \in Nat
  PROVE  AtMost(n, cap) \in 0..cap
BY DEF AtMost

\* The bounds the types mention are natural numbers.
LEMMA BoundsTyped ==
  /\ PendingCap \in Nat /\ PendingCap >= 0
  /\ Required * CycleGap \in Nat
BY TimingAssumption, SMT DEF TimingAssumption, PendingCap

\* An alert that is replaced by an alert leaves the rows a sequence of alerts.
LEMMA UpdateTyped ==
  ASSUME NEW s \in Seq(AlertType), NEW i \in DOMAIN s, NEW a \in AlertType
  PROVE  /\ [s EXCEPT ![i] = a] \in Seq(AlertType)
         /\ DOMAIN [s EXCEPT ![i] = a] = DOMAIN s
OBVIOUS

\* So does changing every row.
LEMMA MapTyped ==
  ASSUME NEW s \in Seq(AlertType), NEW t,
         t = [i \in DOMAIN s |-> t[i]],
         \A i \in DOMAIN s : t[i] \in AlertType
  PROVE  t \in Seq(AlertType) /\ DOMAIN t = DOMAIN s /\ Len(t) = Len(s)
<1>1. DOMAIN t = 1..Len(s)
  OBVIOUS
<1>2. t \in [1..Len(s) -> AlertType]
  BY <1>1
<1> QED  BY <1>1, <1>2

\* A healthy cycle keeps the severity, and touches status and reason only to
\* resolve an open alert.
LEMMA HealthierTyped ==
  ASSUME NEW a \in AlertType
  PROVE  /\ Healthier(a) \in AlertType
         /\ Healthier(a).sev = a.sev
         /\ Healthier(a).status \in {a.status, "resolved"}
         /\ a.status = "resolved" => Healthier(a).reason = a.reason
<1>0. a.streak + 1 \in Nat /\ Required \in Nat
  BY TimingAssumption DEF AlertType, TimingAssumption
<1>1. AtMost(a.streak + 1, Required) \in 0..Required
  BY <1>0, AtMostTyped
<1>2. 0 \in 0..CycleGap /\ 0 \in 0..HardExpiry
  BY TimingAssumption DEF TimingAssumption
<1> QED  BY <1>1, <1>2 DEF Healthier, AlertType, Open, Reason

\* A breaching cycle keeps the reason and makes the alert as severe as the
\* reading; it reopens only what it read as acknowledged, on an escalation.
LEMMA ConfirmedTyped ==
  ASSUME NEW a \in AlertType, NEW seen \in EvType, NEW s \in Severity
  PROVE  /\ Confirmed(a, seen, s) \in AlertType
         /\ Confirmed(a, seen, s).reason = a.reason
         /\ seen.sev = a.sev => Confirmed(a, seen, s).sev = s
         /\ Confirmed(a, seen, s).status # a.status
              => seen.sev = "low" /\ s = "CRITICAL"
<1>1. 0 \in 0..CycleGap /\ 0 \in 0..HardExpiry /\ 0 \in 0..Required
  BY TimingAssumption DEF TimingAssumption
<1> QED  BY <1>1 DEF Confirmed, AlertType, EvType, Open, Severity

\* Time changes nothing but the ages.
LEMMA AgedTyped ==
  ASSUME NEW a \in AlertType
  PROVE  /\ Aged(a) \in AlertType
         /\ Aged(a).sev = a.sev /\ Aged(a).status = a.status /\ Aged(a).reason = a.reason
<1>0. /\ a.cycleAge + 1 \in Nat /\ CycleGap \in Nat
      /\ a.seenAge + 1 \in Nat /\ HardExpiry \in Nat
  BY TimingAssumption DEF AlertType, TimingAssumption
<1>1. AtMost(a.cycleAge + 1, CycleGap) \in 0..CycleGap
  BY <1>0, AtMostTyped
<1>2. AtMost(a.seenAge + 1, HardExpiry) \in 0..HardExpiry
  BY <1>0, AtMostTyped
<1> QED  BY <1>1, <1>2 DEF Aged, AlertType

\* A touched candidate has counted at most one cycle more.
LEMMA TouchedTyped ==
  ASSUME pend \in PendingType, NEW s \in Severity
  PROVE  /\ Touched(s).sev \in Severity
         /\ Touched(s).cycles < Required => Touched(s) \in PendingType
<1>1. 0 \in 0..CycleGap /\ 0 \in 0..PendingCap
  BY TimingAssumption, BoundsTyped DEF TimingAssumption
<1>2. CASE pend = NoPending
  BY <1>1, <1>2, TimingAssumption DEF Touched, PendingType, Severity, TimingAssumption
<1>3. CASE pend # NoPending
  BY <1>1, <1>3, TimingAssumption DEF Touched, PendingType, Severity, TimingAssumption
<1> QED  BY <1>2, <1>3

\* No candidate, a new alert and an idle evaluation are what they should be.
LEMMA InitialsTyped ==
  /\ NoPending \in PendingType
  /\ Idle \in EvType
  /\ \A s \in Severity : NewAlert(s) \in AlertType
<1>1. /\ 0 \in 0..CycleGap /\ 0 \in 0..PendingCap /\ 0 \in 0..HardExpiry
      /\ 0 \in 0..Required /\ 0 \in 0..(Required - 1)
  BY TimingAssumption, BoundsTyped DEF TimingAssumption
<1> QED  BY <1>1 DEF NoPending, PendingType, Idle, EvType, NewAlert, AlertType, Open, Severity,
                     Reason

\* Among finitely many alerts one is the newest.
LEMMA NewestExists ==
  ASSUME NEW n \in Nat, NEW ids, ids \subseteq 1..n, ids # {}
  PROVE  \E i \in ids : \A j \in ids : j <= i
<1> DEFINE left == {m \in Nat : \E i \in ids : m = n - i}
<1>1. \A i \in ids : n - i \in Nat /\ i \in Int
  OBVIOUS
<1>2. left \subseteq Nat /\ left # {}
  BY <1>1
<1>3. \A i \in ids : n - i \in left
  BY <1>1
<1> DEFINE less == {p \in Nat \X Nat : p[1] < p[2]}
<1>l. IsWellFoundedOn(less, Nat)
  BY NatLessThanWellFounded DEF OpToRel
<1> HIDE DEF left
<1>m. PICK k \in left : \A m \in left : ~(<<m, k>> \in less)
  <2> HIDE DEF less
  <2> QED  BY <1>2, <1>l, WFMin
<1>4. ASSUME NEW m \in left PROVE k <= m
  <2>1. m \in Nat /\ k \in Nat
    BY <1>2
  <2>2. <<m, k>> \in Nat \X Nat /\ <<m, k>>[1] = m /\ <<m, k>>[2] = k
    BY <2>1
  <2>3. ~(<<m, k>> \in less)
    BY <1>m
  <2>4. ~(m < k)
    BY <2>2, <2>3
  <2> QED  BY <2>1, <2>4
<1> USE DEF left
<1>5. PICK i \in ids : k = n - i
  BY <1>4
<1> HIDE DEF left
<1>6. ASSUME NEW j \in ids PROVE j <= i
  <2>1. n - i <= n - j
    BY <1>3, <1>4, <1>5
  <2> QED  BY <1>1, <2>1
<1> QED  BY <1>6

\* The newest open alert is an open alert, when there is one.
LEMMA NewestOpen ==
  ASSUME alerts \in Seq(AlertType)
  PROVE  Newest \in {0} \cup OpenIds /\ (OpenIds # {} => Newest \in OpenIds)
<1>1. OpenIds \subseteq 1..Len(alerts) /\ Len(alerts) \in Nat
  BY DEF OpenIds
<1>2. CASE OpenIds = {}
  BY <1>2 DEF Newest
<1>3. CASE OpenIds # {}
  <2>1. \E i \in OpenIds : \A j \in OpenIds : j <= i
    BY <1>1, <1>3, NewestExists
  <2> QED  BY <1>3, <2>1 DEF Newest
<1> QED  BY <1>2, <1>3

-----------------------------------------------------------------------------
(* Type correctness.                                                         *)

\* The evaluations, as far as they refer to alerts.
EvOK ==
  /\ ev \in [Evaluator -> EvType]
  /\ \A e \in Evaluator : ev[e].id \in {0} \cup DOMAIN alerts /\ ev[e].doomed \subseteq DOMAIN alerts

\* One evaluation changes, and alerts are only ever added.
LEMMA EvStep ==
  ASSUME EvOK, NEW e \in Evaluator, NEW r \in EvType,
         ev' = [ev EXCEPT ![e] = r],
         DOMAIN alerts \subseteq DOMAIN alerts',
         r.id \in {0} \cup DOMAIN alerts', r.doomed \subseteq DOMAIN alerts'
  PROVE  EvOK'
BY DEF EvOK

\* No evaluation changes.
LEMMA EvKept ==
  ASSUME EvOK, ev' = ev, DOMAIN alerts \subseteq DOMAIN alerts'
  PROVE  EvOK'
BY DEF EvOK

\* An evaluation that ends is idle.
LEMMA EvIdle ==
  ASSUME EvOK, NEW e \in Evaluator, ev' = [ev EXCEPT ![e] = Idle],
         DOMAIN alerts \subseteq DOMAIN alerts'
  PROVE  EvOK'
<1>1. Idle \in EvType /\ Idle.id = 0 /\ Idle.doomed = {}
  BY InitialsTyped DEF Idle
<1> QED  BY <1>1, EvStep

\* So is one that has fetched nothing, and one that has fetched the row reads next.
LEMMA EvFetch ==
  ASSUME EvOK, NEW e \in Evaluator, Fetch(e), DOMAIN alerts \subseteq DOMAIN alerts'
  PROVE  EvOK'
<1>1. Idle \in EvType /\ Idle.id = 0 /\ Idle.doomed = {}
  BY InitialsTyped DEF Idle
<1>2. /\ [Idle EXCEPT !.pc = "row"] \in EvType
      /\ [Idle EXCEPT !.pc = "row"].id = 0 /\ [Idle EXCEPT !.pc = "row"].doomed = {}
  BY <1>1 DEF EvType, Idle
<1>3. CASE signal = "live"
  BY <1>2, <1>3, EvStep DEF Fetch
<1>4. CASE signal # "live"
  BY <1>1, <1>4, EvStep DEF Fetch
<1> QED  BY <1>3, <1>4

\* The histories of the reading stay within their bounds.
LEMMA NoteTyped ==
  ASSUME TypeOK, NEW healthy \in BOOLEAN, Note(healthy)
  PROVE  /\ breach' \in [count: 0..Required, age: 0..(Required * CycleGap)]
         /\ calm' \in [count: 0..Required, age: 0..(Required * CycleGap)]
<1> DEFINE B == Required * CycleGap
<1>1. Required \in Nat /\ B \in Nat /\ 0 \in 0..Required /\ 0 \in 0..B
  BY BoundsTyped, TimingAssumption DEF TimingAssumption
<1> HIDE DEF B
<1>2. breach \in [count: 0..Required, age: 0..B] /\ calm \in [count: 0..Required, age: 0..B]
  BY DEF TypeOK, B
<1>3. breach.count + 1 \in Nat /\ calm.count + 1 \in Nat
  BY <1>1, <1>2
<1>4. AtMost(breach.count + 1, Required) \in 0..Required /\ AtMost(calm.count + 1, Required) \in 0..Required
  BY <1>1, <1>3, AtMostTyped
<1>5. CASE healthy
  BY <1>1, <1>2, <1>4, <1>5 DEF Note, B
<1>6. CASE ~healthy
  BY <1>1, <1>2, <1>4, <1>6 DEF Note, B
<1> QED  BY <1>5, <1>6

\* What a user writes keeps the severities; the status is the one asked for.
LEMMA HumanTyped ==
  ASSUME alerts \in Seq(AlertType), NEW ids, NEW status \in Open \cup {"resolved"},
         NEW reason \in Reason, Human(ids, status, reason)
  PROVE  /\ alerts' \in Seq(AlertType) /\ DOMAIN alerts' = DOMAIN alerts /\ Len(alerts') = Len(alerts)
         /\ \A i \in DOMAIN alerts : /\ alerts'[i].sev = alerts[i].sev
                                     /\ i \notin ids => alerts'[i] = alerts[i]
                                     /\ i \in ids => alerts'[i].status = status
<1>1. \A i \in DOMAIN alerts : alerts[i] \in AlertType
  OBVIOUS
<1>2. alerts' = [i \in DOMAIN alerts |-> alerts'[i]]
  BY DEF Human
<1>3. ASSUME NEW i \in DOMAIN alerts
      PROVE  /\ alerts'[i] \in AlertType /\ alerts'[i].sev = alerts[i].sev
             /\ i \notin ids => alerts'[i] = alerts[i]
             /\ i \in ids => alerts'[i].status = status
  <2>1. CASE i \in ids
    BY <1>1, <2>1 DEF Human, AlertType
  <2>2. CASE i \notin ids
    BY <1>1, <2>2 DEF Human
  <2> QED  BY <2>1, <2>2
<1>4. alerts' \in Seq(AlertType) /\ DOMAIN alerts' = DOMAIN alerts /\ Len(alerts') = Len(alerts)
  BY <1>2, <1>3, MapTyped
<1> QED  BY <1>3, <1>4

\* What the sweep resolves keeps its severity, and only open alerts change.
LEMMA ResolveIdsTyped ==
  ASSUME alerts \in Seq(AlertType), NEW ids, alerts' = ResolveIds(ids)
  PROVE  /\ alerts' \in Seq(AlertType) /\ DOMAIN alerts' = DOMAIN alerts /\ Len(alerts') = Len(alerts)
         /\ \A i \in DOMAIN alerts : /\ alerts'[i].sev = alerts[i].sev
                                     /\ alerts'[i].status \in {alerts[i].status, "resolved"}
                                     /\ alerts[i].status = "resolved" => alerts'[i] = alerts[i]
<1>1. \A i \in DOMAIN alerts : alerts[i] \in AlertType
  OBVIOUS
<1>2. alerts' = [i \in DOMAIN alerts |-> alerts'[i]]
  BY DEF ResolveIds
<1>3. ASSUME NEW i \in DOMAIN alerts
      PROVE  /\ alerts'[i] \in AlertType /\ alerts'[i].sev = alerts[i].sev
             /\ alerts'[i].status \in {alerts[i].status, "resolved"}
             /\ alerts[i].status = "resolved" => alerts'[i] = alerts[i]
  <2>1. CASE i \in ids /\ alerts[i].status \in Open
    BY <1>1, <2>1 DEF ResolveIds, AlertType, Open, Reason
  <2>2. CASE ~(i \in ids /\ alerts[i].status \in Open)
    BY <1>1, <2>2 DEF ResolveIds
  <2> QED  BY <2>1, <2>2
<1>4. alerts' \in Seq(AlertType) /\ DOMAIN alerts' = DOMAIN alerts /\ Len(alerts') = Len(alerts)
  BY <1>2, <1>3, MapTyped
<1> QED  BY <1>3, <1>4

\* A tick changes only the ages of the alerts.
LEMMA TickTyped ==
  ASSUME alerts \in Seq(AlertType), Tick
  PROVE  /\ alerts' \in Seq(AlertType) /\ DOMAIN alerts' = DOMAIN alerts /\ Len(alerts') = Len(alerts)
         /\ \A i \in DOMAIN alerts : /\ alerts'[i].sev = alerts[i].sev
                                     /\ alerts'[i].status = alerts[i].status
                                     /\ alerts'[i].reason = alerts[i].reason
<1>1. \A i \in DOMAIN alerts : alerts[i] \in AlertType
  OBVIOUS
<1>2. alerts' = [i \in DOMAIN alerts |-> alerts'[i]]
  BY DEF Tick
<1>3. ASSUME NEW i \in DOMAIN alerts
      PROVE  /\ alerts'[i] \in AlertType /\ alerts'[i].sev = alerts[i].sev
             /\ alerts'[i].status = alerts[i].status /\ alerts'[i].reason = alerts[i].reason
  <2>1. CASE i \in OpenIds
    BY <1>1, <2>1, AgedTyped DEF Tick
  <2>2. CASE i \notin OpenIds
    BY <1>1, <2>2 DEF Tick
  <2> QED  BY <2>1, <2>2
<1>4. alerts' \in Seq(AlertType) /\ DOMAIN alerts' = DOMAIN alerts /\ Len(alerts') = Len(alerts)
  BY <1>2, <1>3, MapTyped
<1> QED  BY <1>3, <1>4

\* The rest of the state: the candidate, the pace and the bounds.
PaceOK ==
  /\ up \in [Evaluator -> BOOLEAN] /\ p1Done \in [Evaluator -> BOOLEAN]
  /\ sweepAge \in 0..SweepEvery
NoteOK ==
  /\ breach \in [count: 0..Required, age: 0..(Required * CycleGap)]
  /\ calm \in [count: 0..Required, age: 0..(Required * CycleGap)]

\* TypeOK in the parts that the actions disturb one by one.
LEMMA TypeParts ==
  TypeOK <=> /\ signal \in Signal /\ level \in Severity \cup {"healthy"}
             /\ pend \in PendingType
             /\ alerts \in Seq(AlertType)
             /\ EvOK /\ PaceOK /\ NoteOK
             /\ events \in 0..MaxEvents
BY DEF TypeOK, EvOK, PaceOK, NoteOK

\* The parts again, to conclude with after a step.
LEMMA TypePartsNext ==
  ASSUME signal' \in Signal, level' \in Severity \cup {"healthy"},
         pend' \in PendingType, alerts' \in Seq(AlertType),
         EvOK', PaceOK', NoteOK', events' \in 0..MaxEvents
  PROVE  TypeOK'
BY DEF TypeOK, EvOK, PaceOK, NoteOK

\* The initial state has the types.
LEMMA TypeInit == Init => TypeOK
<1> SUFFICES ASSUME Init PROVE TypeOK
  OBVIOUS
<1>1. /\ 0 \in 0..Required /\ 0 \in 0..(Required * CycleGap) /\ 0 \in 0..SweepEvery
      /\ 0 \in 0..MaxEvents
  BY BoundsTyped, TimingAssumption DEF TimingAssumption
<1>2. NoteOK
  BY <1>1 DEF Init, NoteOK
<1>3. EvOK
  BY InitialsTyped DEF Init, EvOK, Idle
<1>4. PaceOK
  BY <1>1 DEF Init, PaceOK
<1>5. /\ signal \in Signal /\ level \in Severity \cup {"healthy"} /\ pend \in PendingType
      /\ alerts \in Seq(AlertType) /\ events \in 0..MaxEvents
  BY <1>1, InitialsTyped DEF Init, Signal
<1> QED  BY <1>2, <1>3, <1>4, <1>5, TypeParts

\* Counting an event stays within the bound.
LEMMA EventTyped ==
  ASSUME events \in 0..MaxEvents, Event
  PROVE  events' \in 0..MaxEvents
BY TimingAssumption DEF Event, TimingAssumption

\* The types are kept by the evaluation's steps that write no alert.
LEMMA TypeReads ==
  ASSUME TypeOK, NEW e \in Evaluator,
         StartP1(e) \/ StartFull(e) \/ SelectOpen(e) \/ RowFails(e)
  PROVE  TypeOK'
<1> USE TypeParts
<1>0. \A i \in DOMAIN alerts : alerts[i] \in AlertType
  OBVIOUS
<1>1. CASE StartP1(e)
  <2>1. EvOK'
    BY <1>1, EvFetch DEF StartP1, dbVars
  <2>2. PaceOK'
    BY <1>1 DEF StartP1, PaceOK
  <2>3. NoteOK'
    BY <1>1 DEF StartP1, NoteOK, history
  <2> QED  BY <1>1, <2>1, <2>2, <2>3, TypePartsNext DEF StartP1, worldVars, dbVars
<1>2. CASE StartFull(e)
  <2>1. Doomed \subseteq DOMAIN alerts /\ Doomed \subseteq Nat
    BY DEF Doomed, OpenIds
  <2>2. Idle \in EvType /\ Idle.id = 0
    BY InitialsTyped DEF Idle
  <2> DEFINE r == [Idle EXCEPT !.pc = "sweep", !.doomed = Doomed]
  <2>3. r \in EvType /\ r.id = 0 /\ r.doomed = Doomed
    BY <2>1, <2>2 DEF EvType
  <2>4. ev' = [ev EXCEPT ![e] = r] /\ alerts' = alerts
    BY <1>2 DEF StartFull, dbVars
  <2> HIDE DEF r
  <2>5. EvOK'
    BY <2>1, <2>3, <2>4, EvStep
  <2>6. PaceOK' /\ NoteOK'
    BY <1>2 DEF StartFull, PaceOK, NoteOK, history, paceVars
  <2> QED  BY <1>2, <2>5, <2>6, TypePartsNext DEF StartFull, worldVars, dbVars
<1>3. CASE SelectOpen(e)
  <2> DEFINE r == [pc |-> "selected", doomed |-> {}, level |-> level, id |-> Newest,
                   sev |-> IF Newest = 0 THEN "low" ELSE alerts[Newest].sev,
                   status |-> IF Newest = 0 THEN "active" ELSE alerts[Newest].status]
  <2>1. Newest = 0 \/ Newest \in OpenIds
    BY NewestOpen
  <2>2. Newest \in {0} \cup DOMAIN alerts /\ Newest \in Nat
    BY <2>1 DEF OpenIds
  <2>3. Newest # 0 => alerts[Newest].sev \in Severity /\ alerts[Newest].status \in Open
    BY <1>0, <2>1 DEF OpenIds, AlertType
  <2>4. r \in EvType
    <3>1. level \in Severity \cup {"healthy"}
      OBVIOUS
    <3>2. r.sev \in Severity /\ r.status \in Open
      BY <2>3 DEF Severity, Open
    <3>3. r \in [pc: {"selected"}, doomed: {{}}, level: {level}, id: {Newest},
                 sev: {r.sev}, status: {r.status}]
      OBVIOUS
    <3> HIDE DEF r
    <3> QED  BY <2>2, <3>1, <3>2, <3>3 DEF EvType
  <2>5. r.id = Newest /\ r.doomed = {} /\ ev' = [ev EXCEPT ![e] = r] /\ alerts' = alerts
    BY <1>3 DEF SelectOpen, dbVars
  <2> HIDE DEF r
  <2>6. EvOK'
    BY <2>2, <2>4, <2>5, EvStep
  <2>7. PaceOK' /\ NoteOK'
    BY <1>3 DEF SelectOpen, PaceOK, NoteOK, history, paceVars
  <2> QED  BY <1>3, <2>6, <2>7, TypePartsNext DEF SelectOpen, worldVars, dbVars
<1>4. CASE RowFails(e)
  <2>1. EvOK'
    BY <1>4, EvIdle DEF RowFails, dbVars
  <2>2. PaceOK' /\ NoteOK'
    BY <1>4 DEF RowFails, PaceOK, NoteOK, history, paceVars
  <2>3. events' \in 0..MaxEvents
    BY <1>4, EventTyped DEF RowFails
  <2> QED  BY <1>4, <2>1, <2>2, <2>3, TypePartsNext DEF RowFails, worldVars, dbVars
<1> QED  BY <1>1, <1>2, <1>3, <1>4

\* The types are kept by the evaluation's steps that write.
LEMMA TypeWrites ==
  ASSUME TypeOK, NEW e \in Evaluator,
         Sweep(e) \/ Recover(e) \/ Confirm(e) \/ Accumulate(e)
  PROVE  TypeOK'
<1> USE TypeParts
<1>0. \A i \in DOMAIN alerts : alerts[i] \in AlertType
  OBVIOUS
<1>e. ev[e] \in EvType /\ ev[e].id \in {0} \cup DOMAIN alerts
  BY DEF EvOK
<1>1. CASE Sweep(e)
  <2>1. alerts' \in Seq(AlertType) /\ DOMAIN alerts' = DOMAIN alerts
    BY <1>1, ResolveIdsTyped DEF Sweep
  <2>2. EvOK'
    BY <1>1, <2>1, EvFetch DEF Sweep
  <2>3. PaceOK' /\ NoteOK'
    BY <1>1, TimingAssumption DEF Sweep, PaceOK, NoteOK, history, TimingAssumption
  <2>4. pend' \in PendingType
    BY <1>1, InitialsTyped DEF Sweep, ExpirePending
  <2> QED  BY <1>1, <2>1, <2>2, <2>3, <2>4, TypePartsNext DEF Sweep, worldVars
<1>2. CASE Recover(e)
  <2>1. alerts' \in Seq(AlertType) /\ DOMAIN alerts' = DOMAIN alerts
    <3>1. CASE ev[e].id = 0
      BY <1>2, <3>1 DEF Recover
    <3>2. CASE ev[e].id # 0
      BY <1>0, <1>e, <1>2, <3>2, HealthierTyped, UpdateTyped DEF Recover
    <3> QED  BY <3>1, <3>2
  <2>2. EvOK'
    BY <1>2, <2>1, EvIdle DEF Recover
  <2>3. NoteOK'
    BY <1>2, NoteTyped DEF Recover, NoteOK
  <2>4. PaceOK' /\ pend' \in PendingType
    BY <1>2, InitialsTyped DEF Recover, PaceOK, paceVars
  <2> QED  BY <1>2, <2>1, <2>2, <2>3, <2>4, TypePartsNext DEF Recover, worldVars
<1>3. CASE Confirm(e)
  <2>1. ev[e].level \in Severity /\ ev[e].id \in DOMAIN alerts
    BY <1>e, <1>3 DEF Confirm, EvType
  <2>2. alerts' \in Seq(AlertType) /\ DOMAIN alerts' = DOMAIN alerts
    BY <1>0, <1>e, <1>3, <2>1, ConfirmedTyped, UpdateTyped DEF Confirm
  <2>3. EvOK'
    BY <1>3, <2>2, EvIdle DEF Confirm
  <2>4. NoteOK'
    BY <1>3, NoteTyped DEF Confirm, NoteOK
  <2>5. PaceOK'
    BY <1>3 DEF Confirm, PaceOK, paceVars
  <2> QED  BY <1>3, <2>2, <2>3, <2>4, <2>5, TypePartsNext DEF Confirm, worldVars
<1>4. CASE Accumulate(e)
  <2> DEFINE t == Touched(ev[e].level)
  <2>1. ev[e].level \in Severity
    BY <1>e, <1>4 DEF Accumulate, EvType
  <2>2. t.sev \in Severity /\ (t.cycles < Required => t \in PendingType)
    BY <2>1, TouchedTyped
  <2> HIDE DEF t
  <2>3. /\ pend' \in PendingType /\ alerts' \in Seq(AlertType)
        /\ DOMAIN alerts \subseteq DOMAIN alerts'
    <3>1. CASE t.cycles < Required
      BY <1>4, <2>2, <3>1 DEF Accumulate, t
    <3>2. CASE ~(t.cycles < Required)
      <4>1. pend' = NoPending /\ alerts' = Append(alerts, NewAlert(t.sev))
        BY <1>4, <3>2 DEF Accumulate, t
      <4>2. NewAlert(t.sev) \in AlertType
        BY <2>2, InitialsTyped
      <4> QED  BY <4>1, <4>2, InitialsTyped
    <3> QED  BY <3>1, <3>2
  <2>4. EvOK'
    BY <1>4, <2>3, EvIdle DEF Accumulate
  <2>5. NoteOK'
    BY <1>4, NoteTyped DEF Accumulate, NoteOK
  <2>6. PaceOK'
    BY <1>4 DEF Accumulate, PaceOK, paceVars
  <2> QED  BY <1>4, <2>3, <2>4, <2>5, <2>6, TypePartsNext DEF Accumulate, worldVars
<1> QED  BY <1>1, <1>2, <1>3, <1>4

\* The types are kept by time, by the users and by the world.
LEMMA TypeOthers ==
  ASSUME TypeOK,
         \/ Tick \/ AckGroup \/ ClearAlerts \/ WorldChanges
         \/ \E i \in DOMAIN alerts : AckAlert(i) \/ ResolveAlert(i)
         \/ \E e \in Evaluator : CollectorStops(e) \/ CollectorStarts(e)
         \/ UNCHANGED vars
  PROVE  TypeOK'
<1> USE TypeParts
<1>1. CASE Tick
  <2>1. alerts' \in Seq(AlertType) /\ DOMAIN alerts' = DOMAIN alerts
    BY <1>1, TickTyped
  <2>2. EvOK'
    BY <1>1, <2>1, EvKept DEF Tick
  <2>3. PaceOK'
    <3>1. sweepAge + 1 \in Nat /\ SweepEvery \in Nat
      BY TimingAssumption DEF PaceOK, TimingAssumption
    <3>2. AtMost(sweepAge + 1, SweepEvery) \in 0..SweepEvery
      BY <3>1, AtMostTyped
    <3> QED  BY <1>1, <3>2 DEF Tick, PaceOK
  <2>4. NoteOK'
    <3> DEFINE B == Required * CycleGap
    <3>1. B \in Nat
      BY BoundsTyped
    <3> HIDE DEF B
    <3>2. breach \in [count: 0..Required, age: 0..B] /\ calm \in [count: 0..Required, age: 0..B]
      BY DEF NoteOK, B
    <3>3. breach.age + 1 \in Nat /\ calm.age + 1 \in Nat
      BY <3>1, <3>2
    <3>4. AtMost(breach.age + 1, B) \in 0..B /\ AtMost(calm.age + 1, B) \in 0..B
      BY <3>1, <3>3, AtMostTyped
    <3>5. /\ breach' = IF breach.count = 0 THEN breach ELSE [breach EXCEPT !.age = AtMost(@ + 1, B)]
          /\ calm' = [calm EXCEPT !.age = AtMost(@ + 1, B)]
      BY <1>1 DEF Tick, B
    <3>6. /\ breach' \in [count: 0..Required, age: 0..B]
          /\ calm' \in [count: 0..Required, age: 0..B]
      BY <3>2, <3>4, <3>5
    <3> QED  BY <3>6 DEF NoteOK, B
  <2>5. pend' \in PendingType
    <3>1. /\ pend.cycleAge + 1 \in Nat /\ CycleGap \in Nat
          /\ pend.seenAge + 1 \in Nat /\ PendingCap \in Nat
      BY BoundsTyped, TimingAssumption DEF PendingType, TimingAssumption
    <3>2. /\ AtMost(pend.cycleAge + 1, CycleGap) \in 0..CycleGap
          /\ AtMost(pend.seenAge + 1, PendingCap) \in 0..PendingCap
      BY <3>1, AtMostTyped
    <3> QED  BY <1>1, <3>2 DEF Tick, PendingType
  <2> QED  BY <1>1, <2>1, <2>2, <2>3, <2>4, <2>5, TypePartsNext DEF Tick, worldVars
<1>2. ASSUME NEW ids, NEW status \in Open \cup {"resolved"}, NEW reason \in Reason,
             Human(ids, status, reason)
      PROVE  TypeOK'
  <2>1. alerts' \in Seq(AlertType) /\ DOMAIN alerts' = DOMAIN alerts
    BY <1>2, HumanTyped
  <2>2. EvOK'
    BY <1>2, <2>1, EvKept DEF Human
  <2>3. PaceOK' /\ NoteOK'
    BY <1>2 DEF Human, PaceOK, NoteOK, history, paceVars
  <2>4. events' \in 0..MaxEvents
    BY <1>2, EventTyped DEF Human
  <2> QED  BY <1>2, <2>1, <2>2, <2>3, <2>4, TypePartsNext DEF Human, worldVars
<1>3. CASE AckGroup \/ ClearAlerts \/ \E i \in DOMAIN alerts : AckAlert(i) \/ ResolveAlert(i)
  BY <1>2, <1>3 DEF AckGroup, ClearAlerts, AckAlert, ResolveAlert, Open, Reason
<1>4. CASE WorldChanges
  <2>1. EvOK' /\ PaceOK' /\ NoteOK'
    BY <1>4, EvKept DEF WorldChanges, PaceOK, NoteOK, history, paceVars, dbVars
  <2>2. events' \in 0..MaxEvents
    BY <1>4, EventTyped DEF WorldChanges
  <2>3. signal' \in Signal /\ level' \in Severity \cup {"healthy"}
    BY <1>4 DEF WorldChanges
  <2> QED  BY <1>4, <2>1, <2>2, <2>3, TypePartsNext DEF WorldChanges, dbVars
<1>5. ASSUME NEW e \in Evaluator, CollectorStops(e)
      PROVE  TypeOK'
  <2>1. EvOK'
    BY <1>5, EvIdle DEF CollectorStops, dbVars
  <2>2. PaceOK' /\ NoteOK'
    BY <1>5 DEF CollectorStops, PaceOK, NoteOK, history
  <2>3. events' \in 0..MaxEvents
    BY <1>5, EventTyped DEF CollectorStops
  <2> QED  BY <1>5, <2>1, <2>2, <2>3, TypePartsNext DEF CollectorStops, worldVars, dbVars
<1>6. ASSUME NEW e \in Evaluator, CollectorStarts(e)
      PROVE  TypeOK'
  <2>1. EvOK'
    BY <1>6, EvKept DEF CollectorStarts, dbVars
  <2>2. PaceOK' /\ NoteOK'
    BY <1>6 DEF CollectorStarts, PaceOK, NoteOK, history
  <2> QED  BY <1>6, <2>1, <2>2, TypePartsNext DEF CollectorStarts, worldVars, dbVars
<1>7. CASE UNCHANGED vars
  <2>1. EvOK' /\ PaceOK' /\ NoteOK'
    BY <1>7, EvKept DEF vars, PaceOK, NoteOK, history, paceVars, dbVars
  <2> QED  BY <1>7, <2>1, TypePartsNext DEF vars, worldVars, dbVars
<1> QED  BY <1>1, <1>3, <1>4, <1>5, <1>6, <1>7

\* Every step keeps the types.
LEMMA TypeStep == TypeOK /\ [Next]_vars => TypeOK'
BY TypeReads, TypeWrites, TypeOthers DEF Next, Evaluate

\* The rows, the candidate, the evaluations and the counters keep their types,
\* whatever evaluators, users, failures and time do, for all periods and bounds.
THEOREM TypeCorrect == Spec => []TypeOK
BY TypeInit, TypeStep, PTL DEF Spec

-----------------------------------------------------------------------------
(* What a step may do to the alerts.                                         *)

\* Alerts keep their severity; none is opened, reopened or resolved again.
Closing ==
  /\ DOMAIN alerts' = DOMAIN alerts
  /\ \A i \in DOMAIN alerts :
       /\ alerts'[i].sev = alerts[i].sev
       /\ alerts'[i].status \in Open => alerts[i].status \in Open
       /\ alerts[i].status = "acknowledged" => alerts'[i].status # "active"
       /\ alerts[i].status = "resolved" => alerts'[i].reason = alerts[i].reason

\* Everything but a breaching evaluation is closing.
LEMMA OthersClose ==
  ASSUME TypeOK, [Next]_vars,
         \A e \in Evaluator : ~Confirm(e) /\ ~Accumulate(e)
  PROVE  Closing
<1>0. alerts \in Seq(AlertType) /\ EvOK /\ \A i \in DOMAIN alerts : alerts[i] \in AlertType
  BY TypeParts
<1>1. CASE alerts' = alerts
  BY <1>1 DEF Closing
<1>2. ASSUME NEW e \in Evaluator, Sweep(e)
      PROVE  Closing
  <2>1. alerts' = ResolveIds(ev[e].doomed)
    BY <1>2 DEF Sweep
  <2>2. /\ DOMAIN alerts' = DOMAIN alerts
        /\ \A i \in DOMAIN alerts : /\ alerts'[i].sev = alerts[i].sev
                                    /\ alerts'[i].status \in {alerts[i].status, "resolved"}
                                    /\ alerts[i].status = "resolved" => alerts'[i] = alerts[i]
    BY <1>0, <2>1, ResolveIdsTyped
  <2>3. ASSUME NEW i \in DOMAIN alerts
        PROVE  /\ alerts'[i].status \in Open => alerts[i].status \in Open
               /\ alerts[i].status = "acknowledged" => alerts'[i].status # "active"
               /\ alerts[i].status = "resolved" => alerts'[i].reason = alerts[i].reason
    <3>1. /\ alerts'[i].status = alerts[i].status \/ alerts'[i].status = "resolved"
          /\ alerts[i].status = "resolved" => alerts'[i] = alerts[i]
      BY <2>2
    <3>2. "resolved" \notin Open /\ "resolved" # "active" /\ "acknowledged" # "active"
      BY DEF Open
    <3>3. CASE alerts'[i].status = alerts[i].status
      BY <3>1, <3>2, <3>3
    <3>4. CASE alerts'[i].status = "resolved"
      BY <3>1, <3>2, <3>4
    <3> QED  BY <3>1, <3>3, <3>4
  <2>4. \A i \in DOMAIN alerts : alerts'[i].sev = alerts[i].sev
    BY <2>2
  <2> QED  BY <2>2, <2>3, <2>4 DEF Closing
<1>3. ASSUME NEW e \in Evaluator, Recover(e), ev[e].id # 0
      PROVE  Closing
  <2> DEFINE n == ev[e].id
  <2>1. n \in DOMAIN alerts /\ alerts' = [alerts EXCEPT ![n] = Healthier(alerts[n])]
    BY <1>0, <1>3 DEF Recover, EvOK
  <2>2. /\ Healthier(alerts[n]).sev = alerts[n].sev
        /\ Healthier(alerts[n]).status \in {alerts[n].status, "resolved"}
        /\ alerts[n].status = "resolved" => Healthier(alerts[n]).reason = alerts[n].reason
    BY <1>0, <2>1, HealthierTyped
  <2> HIDE DEF n
  <2>3. DOMAIN alerts' = DOMAIN alerts
    BY <1>0, <2>1
  <2>4. \A i \in DOMAIN alerts : alerts'[i] = IF i = n THEN Healthier(alerts[n]) ELSE alerts[i]
    BY <1>0, <2>1
  <2> QED  BY <2>2, <2>3, <2>4 DEF Closing, Open
<1>4. CASE Tick
  BY <1>0, <1>4, TickTyped DEF Closing
<1>5. ASSUME NEW ids, ids \subseteq OpenIds, NEW status \in {"acknowledged", "resolved"},
             NEW reason \in Reason, Human(ids, status, reason)
      PROVE  Closing
  <2>1. /\ DOMAIN alerts' = DOMAIN alerts
        /\ \A i \in DOMAIN alerts : /\ alerts'[i].sev = alerts[i].sev
                                    /\ i \notin ids => alerts'[i] = alerts[i]
                                    /\ i \in ids => alerts'[i].status = status
    BY <1>0, <1>5, HumanTyped DEF Open
  <2>2. \A i \in ids : alerts[i].status \in Open
    BY <1>5 DEF OpenIds
  <2>3. ASSUME NEW i \in DOMAIN alerts
        PROVE  /\ alerts'[i].status \in Open => alerts[i].status \in Open
               /\ alerts[i].status = "acknowledged" => alerts'[i].status # "active"
               /\ alerts[i].status = "resolved" => alerts'[i].reason = alerts[i].reason
    <3>1. "resolved" \notin Open /\ "resolved" # "active" /\ "acknowledged" # "active"
      BY DEF Open
    <3>2. CASE i \in ids
      <4>1. alerts[i].status \in Open /\ alerts'[i].status = status
        BY <2>1, <2>2, <3>2
      <4> QED  BY <1>5, <3>1, <4>1
    <3>3. CASE i \notin ids
      <4>1. alerts'[i] = alerts[i]
        BY <2>1, <3>3
      <4> QED  BY <3>1, <4>1
    <3> QED  BY <3>2, <3>3
  <2>4. \A i \in DOMAIN alerts : alerts'[i].sev = alerts[i].sev
    BY <2>1
  <2> QED  BY <2>1, <2>3, <2>4 DEF Closing
<1>6. Active \subseteq OpenIds
  BY DEF Active, OpenIds, Open
<1>7. CASE AckGroup \/ ClearAlerts \/ \E i \in DOMAIN alerts : AckAlert(i) \/ ResolveAlert(i)
  BY <1>5, <1>6, <1>7 DEF AckGroup, ClearAlerts, AckAlert, ResolveAlert, Reason
<1>8. ASSUME NEW e \in Evaluator,
             StartP1(e) \/ StartFull(e) \/ SelectOpen(e) \/ RowFails(e)
               \/ CollectorStops(e) \/ CollectorStarts(e)
      PROVE  alerts' = alerts
  BY <1>8 DEF StartP1, StartFull, SelectOpen, RowFails, CollectorStops, CollectorStarts, dbVars
<1>9. ASSUME NEW e \in Evaluator, Recover(e), ev[e].id = 0
      PROVE  alerts' = alerts
  BY <1>9 DEF Recover
<1>10. CASE WorldChanges \/ UNCHANGED vars
  BY <1>1, <1>10 DEF WorldChanges, vars, dbVars
<1>11. ASSUME NEW e \in Evaluator, Evaluate(e) \/ RowFails(e) \/ CollectorStops(e) \/ CollectorStarts(e)
       PROVE  Closing
  BY <1>1, <1>2, <1>3, <1>8, <1>9, <1>11 DEF Evaluate
<1> QED  BY <1>4, <1>7, <1>10, <1>11 DEF Next

\* A breaching evaluation of an open alert changes that row alone.
LEMMA ConfirmWrites ==
  ASSUME TypeOK, NEW e \in Evaluator, Confirm(e)
  PROVE  /\ ev[e].id \in DOMAIN alerts /\ DOMAIN alerts' = DOMAIN alerts
         /\ ev[e] \in EvType /\ ev[e].level \in Severity /\ alerts[ev[e].id] \in AlertType
         /\ alerts'[ev[e].id] = Confirmed(alerts[ev[e].id], ev[e], ev[e].level)
         /\ \A i \in DOMAIN alerts : i # ev[e].id => alerts'[i] = alerts[i]
<1>1. alerts \in Seq(AlertType) /\ EvOK
  BY TypeParts
<1>2. ev[e].id \in DOMAIN alerts /\ ev[e] \in EvType
  BY <1>1 DEF Confirm, EvOK
<1>3. ev[e].level \in Severity
  BY <1>2 DEF Confirm, EvType
<1>4. alerts' = [alerts EXCEPT ![ev[e].id] = Confirmed(alerts[ev[e].id], ev[e], ev[e].level)]
  BY DEF Confirm
<1>5. alerts[ev[e].id] \in AlertType
  BY <1>1, <1>2
<1>6. \A i \in DOMAIN alerts : i # ev[e].id => alerts'[i] = alerts[i]
  BY <1>4
<1>7. DOMAIN alerts' = DOMAIN alerts
  BY <1>1, <1>2, <1>4
<1>8. alerts'[ev[e].id] = Confirmed(alerts[ev[e].id], ev[e], ev[e].level)
  BY <1>2, <1>4
<1> QED  BY <1>2, <1>3, <1>5, <1>6, <1>7, <1>8

\* A breaching evaluation with no open alert adds at most one row.
LEMMA AccumulateWrites ==
  ASSUME TypeOK, NEW e \in Evaluator, Accumulate(e)
  PROVE  \/ alerts' = alerts
         \/ \E s : alerts' = Append(alerts, NewAlert(s))
BY DEF Accumulate

\* What a user resolved keeps the reason it was resolved for.
LEMMA ReasonKept ==
  ASSUME TypeOK, [Next]_vars, NEW i \in DOMAIN alerts, alerts[i].status = "resolved"
  PROVE  alerts'[i].reason = alerts[i].reason
<1>1. CASE \A e \in Evaluator : ~Confirm(e) /\ ~Accumulate(e)
  BY <1>1, OthersClose DEF Closing
<1>2. ASSUME NEW e \in Evaluator, Confirm(e)
      PROVE  alerts'[i].reason = alerts[i].reason
  <2>1. CASE i = ev[e].id
    <3>1. Confirmed(alerts[i], ev[e], ev[e].level).reason = alerts[i].reason
      BY <1>2, <2>1, ConfirmWrites, ConfirmedTyped
    <3> QED  BY <1>2, <2>1, <3>1, ConfirmWrites
  <2>2. CASE i # ev[e].id
    BY <1>2, <2>2, ConfirmWrites
  <2> QED  BY <2>1, <2>2
<1>3. ASSUME NEW e \in Evaluator, Accumulate(e)
      PROVE  alerts'[i].reason = alerts[i].reason
  <2>1. alerts \in Seq(AlertType)
    BY TypeParts
  <2> QED  BY <1>3, <2>1, AccumulateWrites
<1> QED  BY <1>1, <1>2, <1>3

\* The evaluator and the sweep never take over a resolution of a user (the
\* guarded UPDATE of _resolve_ids, the UPDATEs by id that leave the reason alone),
\* for any number of evaluators.
THEOREM HumanResolutionKeptAlways == Spec => HumanResolutionKept
<1>1. TypeOK /\ [Next]_vars
        => [\A i \in DOMAIN alerts :
              alerts[i].status = "resolved" /\ alerts[i].reason \in {"manual", "bulk_clear"}
                => alerts'[i].reason = alerts[i].reason]_vars
  BY ReasonKept
<1> QED  BY <1>1, TypeCorrect, PTL DEF Spec, HumanResolutionKept

-----------------------------------------------------------------------------
(* One evaluator: the leader's.                                              *)

\* The leader's lock makes the evaluator the only one (CollectorLeader).
SingleEvaluator == \A e, f \in Evaluator : e = f

\* What the evaluation read is still so when it writes, as far as no user made
\* it smaller: no other open alert has appeared, and the severity is the same.
ReadHolds ==
  \A e \in Evaluator : ev[e].pc = "selected" =>
    /\ OpenIds \subseteq {ev[e].id}
    /\ ev[e].id # 0 => alerts[ev[e].id].sev = ev[e].sev

IInv == TypeOK /\ OneOpenAlert /\ ReadHolds

\* A step that closes alerts at most and starts no write keeps the invariant.
LEMMA ClosingKeeps ==
  ASSUME IInv, Closing,
         \A e \in Evaluator : ev'[e].pc = "selected" => ev'[e] = ev[e]
  PROVE  OneOpenAlert' /\ ReadHolds'
<1>1. OpenIds' \subseteq OpenIds
  BY DEF OpenIds, Closing
<1>2. OneOpenAlert'
  BY <1>1 DEF IInv, OneOpenAlert
<1>3. ASSUME NEW e \in Evaluator, ev'[e].pc = "selected"
      PROVE  OpenIds' \subseteq {ev'[e].id} /\ (ev'[e].id # 0 => alerts'[ev'[e].id].sev = ev'[e].sev)
  <2>1. ev'[e] = ev[e] /\ ev[e].pc = "selected"
    BY <1>3
  <2>2. OpenIds' \subseteq {ev'[e].id}
    BY <1>1, <2>1 DEF IInv, ReadHolds
  <2>3. ASSUME ev[e].id # 0 PROVE alerts'[ev[e].id].sev = ev[e].sev
    <3>1. EvOK
      BY TypeParts DEF IInv
    <3>2. ev[e].id \in DOMAIN alerts /\ alerts[ev[e].id].sev = ev[e].sev
      BY <2>1, <2>3, <3>1 DEF IInv, ReadHolds, EvOK
    <3> QED  BY <3>2 DEF Closing
  <2> QED  BY <2>1, <2>2, <2>3
<1>4. ReadHolds'
  BY <1>3 DEF ReadHolds
<1> QED  BY <1>2, <1>4

\* A step of the only evaluator after which it is idle again.
LEMMA NotSelected ==
  ASSUME SingleEvaluator, TypeOK, NEW e \in Evaluator, ev' = [ev EXCEPT ![e] = Idle]
  PROVE  ReadHolds'
<1>1. ev'[e] = Idle
  BY TypeParts DEF EvOK
<1> QED  BY <1>1 DEF ReadHolds, SingleEvaluator, Idle

\* Only SelectOpen begins a write.
LEMMA SelectedBefore ==
  ASSUME TypeOK, [Next]_vars, \A e \in Evaluator : ~SelectOpen(e), NEW f \in Evaluator,
         ev'[f].pc = "selected"
  PROVE  ev'[f] = ev[f]
<1>0. ev \in [Evaluator -> EvType]
  BY TypeParts DEF EvOK
<1>1. CASE ev' = ev
  BY <1>1
<1>2. ASSUME NEW e \in Evaluator, NEW r, ev' = [ev EXCEPT ![e] = r], r.pc # "selected"
      PROVE  ev'[f] = ev[f]
  BY <1>0, <1>2
<1>3. /\ Idle.pc # "selected"
      /\ [Idle EXCEPT !.pc = "row"].pc # "selected"
      /\ [Idle EXCEPT !.pc = "sweep", !.doomed = Doomed].pc # "selected"
  BY DEF Idle
<1>4. ASSUME NEW e \in Evaluator, Fetch(e)
      PROVE  ev'[f] = ev[f]
  <2>1. CASE signal = "live"
    BY <1>2, <1>3, <1>4, <2>1 DEF Fetch
  <2>2. CASE signal # "live"
    BY <1>2, <1>3, <1>4, <2>2 DEF Fetch
  <2> QED  BY <2>1, <2>2
<1>5. ASSUME NEW e \in Evaluator, StartP1(e) \/ Sweep(e)
      PROVE  ev'[f] = ev[f]
  BY <1>4, <1>5 DEF StartP1, Sweep
<1>6. ASSUME NEW e \in Evaluator, StartFull(e)
      PROVE  ev'[f] = ev[f]
  BY <1>2, <1>3, <1>6 DEF StartFull
<1>7. ASSUME NEW e \in Evaluator,
             Recover(e) \/ Confirm(e) \/ Accumulate(e) \/ RowFails(e) \/ CollectorStops(e)
      PROVE  ev'[f] = ev[f]
  BY <1>2, <1>3, <1>7 DEF Recover, Confirm, Accumulate, RowFails, CollectorStops
<1>8. ASSUME NEW e \in Evaluator, CollectorStarts(e)
      PROVE  ev'[f] = ev[f]
  BY <1>8 DEF CollectorStarts
<1>9. CASE \/ Tick \/ AckGroup \/ ClearAlerts \/ WorldChanges \/ UNCHANGED vars
           \/ \E i \in DOMAIN alerts : AckAlert(i) \/ ResolveAlert(i)
  BY <1>1, <1>9 DEF Tick, AckGroup, ClearAlerts, WorldChanges, vars, AckAlert, ResolveAlert, Human
<1> QED  BY <1>5, <1>6, <1>7, <1>8, <1>9 DEF Next, Evaluate

\* The read of the newest open alert establishes what the write relies on.
LEMMA SelectKeeps ==
  ASSUME SingleEvaluator, IInv, NEW e \in Evaluator, SelectOpen(e)
  PROVE  OneOpenAlert' /\ ReadHolds'
<1>1. alerts' = alerts /\ alerts \in Seq(AlertType) /\ ev \in [Evaluator -> EvType]
  BY TypeParts DEF SelectOpen, dbVars, IInv, EvOK
<1>2. OpenIds' = OpenIds
  BY <1>1 DEF OpenIds
<1>3. OneOpenAlert'
  BY <1>2 DEF IInv, OneOpenAlert
<1>4. /\ ev'[e].id = Newest
      /\ ev'[e].sev = IF Newest = 0 THEN "low" ELSE alerts[Newest].sev
  BY <1>1 DEF SelectOpen
<1>5. Newest \in {0} \cup OpenIds /\ (OpenIds # {} => Newest \in OpenIds)
  BY <1>1, NewestOpen
<1>6. OpenIds \subseteq {Newest}
  BY <1>5 DEF IInv, OneOpenAlert
<1>7. ReadHolds'
  BY <1>1, <1>2, <1>4, <1>6 DEF ReadHolds, SingleEvaluator
<1> QED  BY <1>3, <1>7

\* A breaching evaluation writes the row it read; if a user resolved that row
\* in between it may be open again, but it is the only one.
LEMMA ConfirmKeeps ==
  ASSUME SingleEvaluator, IInv, NEW e \in Evaluator, Confirm(e)
  PROVE  OneOpenAlert' /\ ReadHolds'
<1>1. ReadHolds'
  BY NotSelected DEF Confirm, IInv
<1>2. OpenIds \subseteq {ev[e].id}
  BY DEF Confirm, IInv, ReadHolds
<1>3. ASSUME NEW i \in OpenIds' PROVE i = ev[e].id
  <2>1. i \in DOMAIN alerts /\ alerts'[i].status \in Open
    BY <1>3, ConfirmWrites DEF IInv, OpenIds
  <2>2. CASE i # ev[e].id
    <3>1. alerts'[i] = alerts[i]
      BY <2>1, <2>2, ConfirmWrites DEF IInv
    <3>2. i \in OpenIds
      BY <2>1, <3>1 DEF OpenIds
    <3> QED  BY <1>2, <3>2
  <2> QED  BY <2>2
<1>4. OneOpenAlert'
  BY <1>3 DEF OneOpenAlert
<1> QED  BY <1>1, <1>4

\* A new alert is opened only when the evaluation read that none is open.
LEMMA AccumulateKeeps ==
  ASSUME SingleEvaluator, IInv, NEW e \in Evaluator, Accumulate(e)
  PROVE  OneOpenAlert' /\ ReadHolds'
<1>1. ReadHolds'
  BY NotSelected DEF Accumulate, IInv
<1>2. OpenIds \subseteq {0}
  BY DEF Accumulate, IInv, ReadHolds
<1>3. alerts \in Seq(AlertType) /\ Len(alerts) \in Nat /\ DOMAIN alerts = 1..Len(alerts)
  BY TypeParts DEF IInv
<1>4. OpenIds = {}
  BY <1>2, <1>3 DEF OpenIds
<1>5. ASSUME alerts' = alerts
      PROVE  OneOpenAlert'
  BY <1>4, <1>5 DEF OneOpenAlert, OpenIds
<1>6. ASSUME NEW s, alerts' = Append(alerts, NewAlert(s))
      PROVE  OneOpenAlert'
  <2>1. \A i \in DOMAIN alerts' : (i \in DOMAIN alerts /\ alerts'[i] = alerts[i]) \/ i = Len(alerts) + 1
    BY <1>3, <1>6
  <2>2. \A i \in OpenIds' : i = Len(alerts) + 1
    BY <1>4, <2>1 DEF OpenIds
  <2> QED  BY <2>2 DEF OneOpenAlert
<1>7. OneOpenAlert'
  BY <1>5, <1>6, AccumulateWrites DEF IInv
<1> QED  BY <1>1, <1>7

\* The invariant is inductive.
LEMMA InvariantStep ==
  ASSUME SingleEvaluator, IInv, [Next]_vars
  PROVE  IInv'
<1>1. TypeOK'
  BY TypeStep DEF IInv
<1>2. ASSUME \A e \in Evaluator : ~Confirm(e) /\ ~Accumulate(e) /\ ~SelectOpen(e)
      PROVE  OneOpenAlert' /\ ReadHolds'
  <2>1. Closing
    BY <1>2, OthersClose DEF IInv
  <2>2. \A f \in Evaluator : ev'[f].pc = "selected" => ev'[f] = ev[f]
    BY <1>2, SelectedBefore DEF IInv
  <2> QED  BY <2>1, <2>2, ClosingKeeps
<1>3. OneOpenAlert' /\ ReadHolds'
  BY <1>2, SelectKeeps, ConfirmKeeps, AccumulateKeeps
<1> QED  BY <1>1, <1>3 DEF IInv

\* It holds at the start.
LEMMA InvariantInit == Init => IInv
<1> SUFFICES ASSUME Init PROVE IInv
  OBVIOUS
<1>1. OneOpenAlert
  BY DEF Init, OneOpenAlert, OpenIds
<1>2. ReadHolds
  BY DEF Init, ReadHolds, Idle
<1> QED  BY <1>1, <1>2, TypeInit DEF IInv

\* With one evaluator a metric never has two open alerts, wherever the actions
\* of users fall between an evaluation's SELECT and its write.
THEOREM OneOpenAlertAlways ==
  ASSUME SingleEvaluator
  PROVE  Spec => []OneOpenAlert
<1>1. IInv /\ [Next]_vars => IInv'
  BY InvariantStep
<1>2. IInv => OneOpenAlert
  BY DEF IInv
<1> QED  BY <1>1, <1>2, InvariantInit, PTL DEF Spec

\* With one evaluator an acknowledgement is withdrawn only by an evaluation
\* that makes a lesser alert CRITICAL.
THEOREM AckWithdrawnOnlyWhenWorseAlways ==
  ASSUME SingleEvaluator
  PROVE  Spec => AckWithdrawnOnlyWhenWorse
<1> DEFINE Worse ==
      \A i \in DOMAIN alerts : alerts[i].status = "acknowledged" /\ alerts'[i].status = "active"
        => alerts[i].sev = "low" /\ alerts'[i].sev = "CRITICAL"
<1>1. ASSUME IInv, [Next]_vars
      PROVE  Worse
  <2> SUFFICES ASSUME NEW i \in DOMAIN alerts,
                      alerts[i].status = "acknowledged", alerts'[i].status = "active"
               PROVE  alerts[i].sev = "low" /\ alerts'[i].sev = "CRITICAL"
    OBVIOUS
  <2>1. CASE \A e \in Evaluator : ~Confirm(e) /\ ~Accumulate(e)
    BY <1>1, <2>1, OthersClose DEF IInv, Closing
  <2>2. ASSUME NEW e \in Evaluator, Confirm(e)
        PROVE  alerts[i].sev = "low" /\ alerts'[i].sev = "CRITICAL"
    <3>1. i = ev[e].id
      BY <1>1, <2>2, ConfirmWrites DEF IInv
    <3>2. /\ alerts'[i] = Confirmed(alerts[i], ev[e], ev[e].level)
          /\ alerts[i] \in AlertType /\ ev[e] \in EvType /\ ev[e].level \in Severity
      BY <1>1, <2>2, <3>1, ConfirmWrites DEF IInv
    <3>3. EvOK /\ DOMAIN alerts \subseteq Nat \ {0}
      BY <1>1, TypeParts DEF IInv
    <3>4. ev[e].sev = alerts[i].sev
      BY <1>1, <2>2, <3>1, <3>3 DEF IInv, ReadHolds, Confirm
    <3> QED  BY <3>2, <3>4, ConfirmedTyped
  <2>3. ASSUME NEW e \in Evaluator, Accumulate(e)
        PROVE  alerts'[i] = alerts[i]
    <3>1. alerts \in Seq(AlertType)
      BY <1>1, TypeParts DEF IInv
    <3> QED  BY <1>1, <2>3, <3>1, AccumulateWrites DEF IInv
  <2>4. "acknowledged" # "active"
    OBVIOUS
  <2> QED  BY <2>1, <2>2, <2>3, <2>4
<1>2. IInv /\ [Next]_vars => [Worse]_vars
  BY <1>1
<1>3. IInv /\ [Next]_vars => IInv'
  BY InvariantStep
<1> QED  BY <1>2, <1>3, InvariantInit, PTL DEF Spec, AckWithdrawnOnlyWhenWorse

-----------------------------------------------------------------------------
(* One evaluator: alerts open and recover on a sustained state.              *)

\* Of the candidate's counted cycles, each was a breaching evaluation of the run that still
\* goes on, and the cycles are a gap apart.
Candidate ==
  pend # NoPending => /\ pend.cycles >= 1 /\ breach.count >= pend.cycles
                      /\ breach.age >= (pend.cycles - 1) * CycleGap + pend.cycleAge

\* The same of the healthy cycles of every open alert; the one that reaches the number
\* resolves it.
Healing ==
  \A i \in OpenIds :
    /\ alerts[i].streak < Required /\ calm.count >= alerts[i].streak
    /\ calm.age >= alerts[i].streak * CycleGap + alerts[i].cycleAge

\* A sweep leaves no candidate older than its expiry.
Expiring == pend.seenAge <= PendingExpiry + sweepAge

SInv == IInv /\ Candidate /\ Healing /\ Expiring

\* Cycles that were counted, and the gap after them, fit below a later count.
LEMMA Gaps ==
  ASSUME NEW x \in Nat, NEW y \in Nat, x < y
  PROVE  /\ x * CycleGap \in Nat /\ y * CycleGap \in Nat
         /\ x * CycleGap + CycleGap <= y * CycleGap
         /\ (x + 1) * CycleGap = x * CycleGap + CycleGap
<1>1. CycleGap \in Nat
  BY TimingAssumption
<1> DEFINE g == CycleGap
           d == y - (x + 1)
<1>2. d \in Nat /\ y = x + 1 + d
  OBVIOUS
<1> HIDE DEF d, g
<1>3. g \in Nat
  BY <1>1 DEF g
<1>4. x * g \in Nat /\ d * g \in Nat /\ (x + 1 + d) * g = x * g + g + d * g
      /\ (x + 1) * g = x * g + g
  BY <1>2, <1>3
<1>5. y * g = x * g + g + d * g
  BY <1>2, <1>4
<1> QED  BY <1>3, <1>4, <1>5 DEF g

\* Ages that saturate keep their distance below the bound.
LEMMA AgesTogether ==
  ASSUME NEW a \in Nat, NEW m \in Nat, NEW c \in Nat, NEW b \in Nat,
         a >= m + c, m + CycleGap <= b
  PROVE  AtMost(a + 1, b) >= m + AtMost(c + 1, CycleGap)
<1>1. CycleGap \in Nat
  BY TimingAssumption
<1> QED  BY <1>1 DEF AtMost

LEMMA Numbers ==
  ASSUME TypeOK
  PROVE  /\ Required \in Nat \ {0} /\ CycleGap \in Nat \ {0} /\ Required * CycleGap \in Nat
         /\ breach.count \in Nat /\ breach.age \in Nat /\ calm.count \in Nat /\ calm.age \in Nat
         /\ breach = [count |-> breach.count, age |-> breach.age]
         /\ calm = [count |-> calm.count, age |-> calm.age]
         /\ pend.cycles \in Nat /\ pend.cycles < Required /\ pend.cycleAge \in Nat
         /\ pend.cycleAge <= CycleGap /\ pend.seenAge \in Nat /\ pend.seenAge <= PendingCap
         /\ pend = [cycles |-> pend.cycles, sev |-> pend.sev,
                    cycleAge |-> pend.cycleAge, seenAge |-> pend.seenAge]
         /\ sweepAge \in Nat /\ sweepAge <= SweepEvery /\ SweepEvery \in Nat \ {0}
         /\ PendingExpiry \in Nat /\ PendingCap = PendingExpiry + SweepEvery
         /\ breach.count <= Required /\ calm.count <= Required
         /\ alerts \in Seq(AlertType)
         /\ \A i \in DOMAIN alerts : /\ alerts[i].streak \in Nat /\ alerts[i].cycleAge \in Nat
                                     /\ alerts[i].cycleAge <= CycleGap /\ alerts[i] \in AlertType
<1>1. /\ Required \in Nat \ {0} /\ CycleGap \in Nat \ {0} /\ SweepEvery \in Nat \ {0}
      /\ PendingExpiry \in Nat /\ Required * CycleGap \in Nat
      /\ PendingCap = PendingExpiry + SweepEvery
  BY TimingAssumption, BoundsTyped DEF TimingAssumption, PendingCap
<1> DEFINE B == Required * CycleGap
<1>2. /\ breach \in [count: 0..Required, age: 0..B] /\ calm \in [count: 0..Required, age: 0..B]
      /\ B \in Nat
  BY <1>1 DEF TypeOK
<1> HIDE DEF B
<1>3. /\ breach.count \in Nat /\ breach.age \in Nat /\ calm.count \in Nat /\ calm.age \in Nat
      /\ breach = [count |-> breach.count, age |-> breach.age]
      /\ calm = [count |-> calm.count, age |-> calm.age]
      /\ breach.count <= Required /\ calm.count <= Required
  BY <1>1, <1>2
<1>4. /\ pend.cycles \in 0..(Required - 1) /\ pend.cycleAge \in 0..CycleGap
      /\ pend.seenAge \in 0..PendingCap
      /\ pend = [cycles |-> pend.cycles, sev |-> pend.sev,
                 cycleAge |-> pend.cycleAge, seenAge |-> pend.seenAge]
  BY DEF TypeOK, PendingType
<1>5. /\ pend.cycles \in Nat /\ pend.cycles < Required /\ pend.cycleAge \in Nat
      /\ pend.cycleAge <= CycleGap /\ pend.seenAge \in Nat /\ pend.seenAge <= PendingCap
  BY <1>1, <1>4
<1>6. sweepAge \in Nat /\ sweepAge <= SweepEvery
  BY <1>1 DEF TypeOK
<1>7. alerts \in Seq(AlertType)
  BY DEF TypeOK
<1>8. \A i \in DOMAIN alerts : /\ alerts[i].streak \in Nat /\ alerts[i].cycleAge \in Nat
                               /\ alerts[i].cycleAge <= CycleGap /\ alerts[i] \in AlertType
  <2> SUFFICES ASSUME NEW i \in DOMAIN alerts
               PROVE  /\ alerts[i].streak \in Nat /\ alerts[i].cycleAge \in Nat
                      /\ alerts[i].cycleAge <= CycleGap /\ alerts[i] \in AlertType
    OBVIOUS
  <2>1. alerts[i] \in AlertType
    BY <1>7
  <2>2. alerts[i].streak \in 0..Required /\ alerts[i].cycleAge \in 0..CycleGap
    BY <2>1 DEF AlertType
  <2> QED  BY <1>1, <2>1, <2>2
<1> QED  BY <1>1, <1>3, <1>4, <1>5, <1>6, <1>7, <1>8

\* No alert gets nearer to its recovery, and none opens.
Untouched ==
  \A i \in OpenIds' : /\ i \in OpenIds /\ alerts'[i].streak = alerts[i].streak
                      /\ alerts'[i].cycleAge = alerts[i].cycleAge

LEMMA HealingKept ==
  ASSUME Healing, Untouched, calm' = calm
  PROVE  Healing'
BY DEF Healing, Untouched

\* Nothing recovers in the step.
NoRecovery ==
  \A i \in OpenIds : ~(alerts'[i].status = "resolved" /\ alerts'[i].reason = "recovered")

LEMMA UserUntouched ==
  ASSUME TypeOK, NEW ids \in SUBSET OpenIds, NEW status \in {"acknowledged", "resolved"},
         NEW reason \in {"none", "manual", "bulk_clear"},
         reason = "none" => status = "acknowledged", Human(ids, status, reason)
  PROVE  Untouched /\ NoRecovery /\ Len(alerts') = Len(alerts)
         /\ UNCHANGED <<pend, breach, calm, sweepAge>>
<1>1. /\ alerts' = [i \in DOMAIN alerts |->
                      IF i \in ids THEN [alerts[i] EXCEPT !.status = status,
                                           !.reason = IF reason = "none" THEN @ ELSE reason]
                                   ELSE alerts[i]]
      /\ \A i \in DOMAIN alerts : alerts[i] \in AlertType
  BY Numbers DEF Human
<1>2. \A i \in DOMAIN alerts : /\ alerts'[i].streak = alerts[i].streak
                               /\ alerts'[i].cycleAge = alerts[i].cycleAge
                               /\ i \notin ids => alerts'[i] = alerts[i]
                               /\ i \in ids => /\ alerts'[i].status = status
                                               /\ alerts'[i].reason = IF reason = "none"
                                                    THEN alerts[i].reason ELSE reason
  BY <1>1 DEF AlertType
<1>3. DOMAIN alerts' = DOMAIN alerts
  BY <1>1
<1>4. Untouched
  BY <1>2, <1>3 DEF Untouched, OpenIds
<1>5. NoRecovery
  BY <1>2 DEF NoRecovery, OpenIds, Open
<1>6. Len(alerts') = Len(alerts)
  <2>1. alerts \in Seq(AlertType)
    BY Numbers
  <2>2. reason \in Reason /\ status \in Open \cup {"resolved"}
    BY DEF Reason, Open
  <2> QED  BY <2>1, <2>2, HumanTyped
<1> QED  BY <1>4, <1>5, <1>6 DEF Human, paceVars, history

\* Everything but the sweep, the writes of an evaluation and time leaves all of it alone.
LEMMA OthersUntouched ==
  ASSUME TypeOK, [Next]_vars, ~Tick,
         \A e \in Evaluator : ~Sweep(e) /\ ~Recover(e) /\ ~Confirm(e) /\ ~Accumulate(e)
  PROVE  Untouched /\ NoRecovery /\ Len(alerts') = Len(alerts)
         /\ UNCHANGED <<pend, breach, calm, sweepAge>>
<1>1. Active \subseteq OpenIds
  BY DEF Active, OpenIds, Open
<1>2. CASE AckGroup \/ ClearAlerts \/ \E i \in DOMAIN alerts : AckAlert(i) \/ ResolveAlert(i)
  <2>1. CASE AckGroup
    BY <1>1, <2>1, UserUntouched DEF AckGroup
  <2>2. CASE ClearAlerts
    BY <1>1, <2>2, UserUntouched DEF ClearAlerts
  <2>3. ASSUME NEW i \in DOMAIN alerts, AckAlert(i)
        PROVE  Untouched /\ NoRecovery /\ Len(alerts') = Len(alerts)
               /\ UNCHANGED <<pend, breach, calm, sweepAge>>
    BY <1>1, <2>3, UserUntouched DEF AckAlert
  <2>4. ASSUME NEW i \in DOMAIN alerts, ResolveAlert(i)
        PROVE  Untouched /\ NoRecovery /\ Len(alerts') = Len(alerts)
               /\ UNCHANGED <<pend, breach, calm, sweepAge>>
    BY <1>1, <2>4, UserUntouched DEF ResolveAlert
  <2> QED  BY <1>2, <2>1, <2>2, <2>3, <2>4
<1>3. CASE UNCHANGED <<alerts, pend, breach, calm, sweepAge>>
  BY <1>3 DEF Untouched, NoRecovery, OpenIds, Open
<1>4. ASSUME NEW e \in Evaluator,
             StartP1(e) \/ StartFull(e) \/ SelectOpen(e) \/ RowFails(e)
               \/ CollectorStops(e) \/ CollectorStarts(e)
      PROVE  UNCHANGED <<alerts, pend, breach, calm, sweepAge>>
  BY <1>4 DEF StartP1, StartFull, SelectOpen, RowFails, CollectorStops, CollectorStarts,
              dbVars, history, paceVars
<1>5. WorldChanges \/ UNCHANGED vars => UNCHANGED <<alerts, pend, breach, calm, sweepAge>>
  BY DEF WorldChanges, vars, dbVars, history, paceVars
<1> QED  BY <1>2, <1>3, <1>4, <1>5 DEF Next, Evaluate

\* The sweep takes alerts and the candidate away.
LEMMA SweepSustains ==
  ASSUME TypeOK, Candidate, Healing, NEW e \in Evaluator, Sweep(e)
  PROVE  Candidate' /\ Healing' /\ Expiring' /\ NoRecovery /\ Len(alerts') = Len(alerts)
<1>1. /\ alerts' = ResolveIds(ev[e].doomed) /\ pend' = ExpirePending /\ sweepAge' = 0
      /\ UNCHANGED <<breach, calm>>
  BY DEF Sweep, history
<1>2. Candidate'
  BY <1>1 DEF Candidate, ExpirePending
<1>3. Expiring'
  <2>1. /\ pend.seenAge \in Nat /\ PendingExpiry \in Nat
    BY Numbers
  <2>2. NoPending.seenAge = 0
    BY DEF NoPending
  <2> QED  BY <1>1, <2>1, <2>2 DEF Expiring, ExpirePending
<1>4. /\ DOMAIN alerts' = DOMAIN alerts /\ Len(alerts') = Len(alerts)
      /\ \A i \in DOMAIN alerts : alerts[i].status = "resolved" => alerts'[i] = alerts[i]
  BY <1>1, Numbers, ResolveIdsTyped
<1>5. \A i \in DOMAIN alerts :
        \/ alerts'[i] = alerts[i]
        \/ alerts'[i].status = "resolved" /\ alerts'[i].reason = "swept"
  <2> SUFFICES ASSUME NEW i \in DOMAIN alerts
               PROVE  \/ alerts'[i] = alerts[i]
                      \/ alerts'[i].status = "resolved" /\ alerts'[i].reason = "swept"
    OBVIOUS
  <2>1. alerts[i] \in AlertType
    BY Numbers
  <2> QED  BY <1>1, <2>1 DEF ResolveIds, AlertType
<1>6. Untouched /\ NoRecovery
  BY <1>4, <1>5 DEF Untouched, NoRecovery, OpenIds, Open
<1> QED  BY <1>1, <1>2, <1>3, <1>4, <1>6, HealingKept

\* Two minutes more, for the candidate, its cycles and the alerts alike.
LEMMA TickSustains ==
  ASSUME TypeOK, Candidate, Healing, Expiring, Tick
  PROVE  Candidate' /\ Healing' /\ Expiring' /\ NoRecovery /\ Len(alerts') = Len(alerts)
<1>0. /\ Required \in Nat \ {0} /\ CycleGap \in Nat \ {0} /\ Required * CycleGap \in Nat
      /\ breach.age \in Nat /\ calm.age \in Nat
      /\ pend.cycles \in Nat /\ pend.cycles < Required /\ pend.cycleAge \in Nat
      /\ pend.seenAge \in Nat /\ pend.seenAge <= PendingCap
      /\ sweepAge \in Nat /\ sweepAge <= SweepEvery /\ SweepEvery \in Nat \ {0}
      /\ PendingExpiry \in Nat /\ PendingCap = PendingExpiry + SweepEvery
  BY Numbers
<1>1. /\ pend' = IF pend = NoPending THEN pend
                 ELSE [pend EXCEPT !.cycleAge = AtMost(@ + 1, CycleGap),
                                   !.seenAge = AtMost(@ + 1, PendingCap)]
      /\ breach' = IF breach.count = 0 THEN breach
                   ELSE [breach EXCEPT !.age = AtMost(@ + 1, Required * CycleGap)]
      /\ calm' = [calm EXCEPT !.age = AtMost(@ + 1, Required * CycleGap)]
      /\ sweepAge' = AtMost(sweepAge + 1, SweepEvery)
      /\ alerts' = [i \in DOMAIN alerts |-> IF i \in OpenIds THEN Aged(alerts[i]) ELSE alerts[i]]
  BY DEF Tick
<1>2. /\ pend # NoPending => /\ pend'.cycles = pend.cycles
                             /\ pend'.cycleAge = AtMost(pend.cycleAge + 1, CycleGap)
                             /\ pend'.seenAge = AtMost(pend.seenAge + 1, PendingCap)
      /\ pend = NoPending => pend' = NoPending
      /\ breach'.count = breach.count /\ calm'.count = calm.count
      /\ breach.count # 0 => breach'.age = AtMost(breach.age + 1, Required * CycleGap)
      /\ calm'.age = AtMost(calm.age + 1, Required * CycleGap)
  <2>1. /\ breach = [count |-> breach.count, age |-> breach.age]
        /\ calm = [count |-> calm.count, age |-> calm.age]
        /\ pend = [cycles |-> pend.cycles, sev |-> pend.sev,
                   cycleAge |-> pend.cycleAge, seenAge |-> pend.seenAge]
    BY Numbers
  <2> DEFINE B == Required * CycleGap
  <2> HIDE DEF B
  <2> QED  BY <1>1, <2>1 DEF B
<1>3. Candidate'
  <2> SUFFICES ASSUME pend' # NoPending
               PROVE  /\ pend'.cycles >= 1 /\ breach'.count >= pend'.cycles
                      /\ breach'.age >= (pend'.cycles - 1) * CycleGap + pend'.cycleAge
    BY DEF Candidate
  <2>1. /\ pend # NoPending /\ pend.cycles >= 1 /\ breach.count >= pend.cycles
        /\ breach.age >= (pend.cycles - 1) * CycleGap + pend.cycleAge
    BY <1>2 DEF Candidate
  <2>2. breach.count # 0 /\ pend.cycles - 1 \in Nat /\ pend.cycles - 1 < Required
    <3>1. breach.count \in Nat
      BY Numbers
    <3> QED  BY <1>0, <2>1, <3>1
  <2>3. /\ (pend.cycles - 1) * CycleGap \in Nat
        /\ (pend.cycles - 1) * CycleGap + CycleGap <= Required * CycleGap
    BY <1>0, <2>2, Gaps
  <2> DEFINE m == (pend.cycles - 1) * CycleGap
             B == Required * CycleGap
  <2> HIDE DEF m, B
  <2>4. AtMost(breach.age + 1, B) >= m + AtMost(pend.cycleAge + 1, CycleGap)
    BY <1>0, <2>1, <2>3, AgesTogether DEF m, B
  <2> QED  BY <1>2, <2>1, <2>2, <2>4 DEF m, B
<1>4. /\ DOMAIN alerts' = DOMAIN alerts /\ Len(alerts') = Len(alerts)
      /\ \A i \in DOMAIN alerts : alerts'[i].status = alerts[i].status
  BY Numbers, TickTyped
<1>5. Healing'
  <2> SUFFICES ASSUME NEW i \in OpenIds'
               PROVE  /\ alerts'[i].streak < Required /\ calm'.count >= alerts'[i].streak
                      /\ calm'.age >= alerts'[i].streak * CycleGap + alerts'[i].cycleAge
    BY DEF Healing
  <2>1. i \in OpenIds /\ i \in DOMAIN alerts
    BY <1>4 DEF OpenIds
  <2>2. /\ alerts'[i].streak = alerts[i].streak
        /\ alerts'[i].cycleAge = AtMost(alerts[i].cycleAge + 1, CycleGap)
    <3>1. alerts[i] \in AlertType
      BY <2>1, Numbers
    <3> QED  BY <1>1, <2>1, <3>1 DEF Aged, AlertType
  <2>3. /\ alerts[i].streak < Required /\ calm.count >= alerts[i].streak
        /\ calm.age >= alerts[i].streak * CycleGap + alerts[i].cycleAge
    BY <2>1 DEF Healing
  <2>4. alerts[i].streak \in Nat /\ alerts[i].cycleAge \in Nat
    BY <2>1, Numbers
  <2>5. /\ alerts[i].streak * CycleGap \in Nat
        /\ alerts[i].streak * CycleGap + CycleGap <= Required * CycleGap
    BY <1>0, <2>3, <2>4, Gaps
  <2> DEFINE m == alerts[i].streak * CycleGap
             B == Required * CycleGap
  <2> HIDE DEF m, B
  <2>6. AtMost(calm.age + 1, B) >= m + AtMost(alerts[i].cycleAge + 1, CycleGap)
    BY <1>0, <2>3, <2>4, <2>5, AgesTogether DEF m, B
  <2> QED  BY <1>2, <2>2, <2>3, <2>6 DEF m, B
<1>6. Expiring'
  <2>1. CASE pend = NoPending
    <3>1. pend'.seenAge = 0 /\ sweepAge' \in Nat
      BY <1>0, <1>1, <1>2, <2>1 DEF NoPending, AtMost
    <3> DEFINE y == sweepAge'
    <3>2. y \in Nat /\ PendingExpiry \in Nat
      BY <1>0, <3>1
    <3> HIDE DEF y
    <3>3. 0 <= PendingExpiry + y
      BY <3>2
    <3> QED  BY <3>1, <3>3 DEF Expiring, y
  <2>2. CASE pend # NoPending
    <3>1. /\ pend'.seenAge = AtMost(pend.seenAge + 1, PendingExpiry + SweepEvery)
          /\ sweepAge' = AtMost(sweepAge + 1, SweepEvery)
          /\ pend.seenAge <= PendingExpiry + sweepAge
      BY <1>0, <1>1, <1>2, <2>2 DEF Expiring
    <3>2. AtMost(pend.seenAge + 1, PendingExpiry + SweepEvery)
            <= PendingExpiry + AtMost(sweepAge + 1, SweepEvery)
      <4> DEFINE x == pend.seenAge
      <4>1. /\ x \in Nat /\ sweepAge \in Nat /\ PendingExpiry \in Nat /\ SweepEvery \in Nat
            /\ x <= PendingExpiry + sweepAge
        BY <1>0, <3>1
      <4> HIDE DEF x
      <4>2. AtMost(x + 1, PendingExpiry + SweepEvery)
              <= PendingExpiry + AtMost(sweepAge + 1, SweepEvery)
        BY <4>1 DEF AtMost
      <4> QED  BY <4>2 DEF x
    <3> QED  BY <3>1, <3>2 DEF Expiring
  <2> QED  BY <2>1, <2>2
<1>7. NoRecovery
  BY <1>4 DEF NoRecovery, OpenIds, Open
<1> QED  BY <1>3, <1>4, <1>5, <1>6, <1>7

\* A healthy cycle counts at most once per gap, and the one that completes the number resolves.
LEMMA HealthierIs ==
  ASSUME NEW a \in AlertType, a.streak < Required
  PROVE  LET b == Healthier(a)
         IN /\ b.streak = IF Due(a) THEN a.streak + 1 ELSE a.streak
            /\ b.cycleAge = IF Due(a) THEN 0 ELSE a.cycleAge
            /\ b.status \in {a.status, "resolved"}
            /\ b.status \in Open => b.streak < Required
            /\ a.status \in Open /\ b.status = "resolved" => Due(a) /\ a.streak + 1 = Required
<1> DEFINE c == IF Due(a) THEN [a EXCEPT !.streak = AtMost(a.streak + 1, Required), !.cycleAge = 0]
                ELSE a
           d == [c EXCEPT !.seenAge = 0]
<1>1. a.streak \in 0..Required /\ Required \in Nat \ {0} /\ a.streak \in Nat
  <2>1. a.streak \in 0..Required /\ Required \in Nat \ {0}
    BY TimingAssumption DEF AlertType, TimingAssumption
  <2> QED  BY <2>1
<1>2. AtMost(a.streak + 1, Required) = a.streak + 1
  BY <1>1 DEF AtMost
<1>3. /\ d.streak = IF Due(a) THEN a.streak + 1 ELSE a.streak
      /\ d.cycleAge = IF Due(a) THEN 0 ELSE a.cycleAge
      /\ d.status = a.status
      /\ d = [sev |-> d.sev, status |-> d.status, reason |-> d.reason, streak |-> d.streak,
              cycleAge |-> d.cycleAge, seenAge |-> d.seenAge]
  <2>1. a = [sev |-> a.sev, status |-> a.status, reason |-> a.reason, streak |-> a.streak,
             cycleAge |-> a.cycleAge, seenAge |-> a.seenAge]
    BY DEF AlertType
  <2>2. CASE Due(a)
    <3>1. c = [a EXCEPT !.streak = a.streak + 1, !.cycleAge = 0]
      BY <1>2, <2>2
    <3> HIDE DEF c
    <3>2. c = [sev |-> a.sev, status |-> a.status, reason |-> a.reason,
               streak |-> a.streak + 1, cycleAge |-> 0, seenAge |-> a.seenAge]
      BY <2>1, <3>1
    <3>3. d = [sev |-> a.sev, status |-> a.status, reason |-> a.reason,
               streak |-> a.streak + 1, cycleAge |-> 0, seenAge |-> 0]
      BY <3>2
    <3> HIDE DEF d
    <3> QED  BY <2>2, <3>3
  <2>3. CASE ~Due(a)
    <3>1. c = a
      BY <2>3
    <3> HIDE DEF c
    <3>2. d = [sev |-> a.sev, status |-> a.status, reason |-> a.reason,
               streak |-> a.streak, cycleAge |-> a.cycleAge, seenAge |-> 0]
      BY <2>1, <3>1
    <3> HIDE DEF d
    <3> QED  BY <2>3, <3>2
  <2> QED  BY <2>2, <2>3
<1>4. Healthier(a) = IF d.streak >= Required /\ d.status \in Open
                     THEN [d EXCEPT !.status = "resolved", !.reason = "recovered"] ELSE d
  BY DEF Healthier
<1> HIDE DEF d
<1>5. "resolved" \notin Open
  BY DEF Open
<1>6. CASE d.streak >= Required /\ d.status \in Open
  <2>1. /\ Healthier(a).streak = d.streak /\ Healthier(a).cycleAge = d.cycleAge
        /\ Healthier(a).status = "resolved"
    BY <1>3, <1>4, <1>6
  <2>2. Due(a) /\ a.streak + 1 = Required
    BY <1>1, <1>3, <1>6
  <2> QED  BY <1>3, <1>5, <2>1, <2>2
<1>7. CASE ~(d.streak >= Required /\ d.status \in Open)
  <2>1. Healthier(a) = d
    BY <1>4, <1>7
  <2>2. d.streak \in Nat
    BY <1>1, <1>3
  <2> QED  BY <1>1, <1>3, <1>5, <1>7, <2>1, <2>2
<1> QED  BY <1>6, <1>7

\* Another healthy evaluation.
LEMMA RecoverSustains ==
  ASSUME TypeOK, Healing, Expiring, NEW e \in Evaluator, Recover(e)
  PROVE  /\ Candidate' /\ Healing' /\ Expiring' /\ Len(alerts') = Len(alerts)
         /\ \A i \in OpenIds : alerts'[i].status = "resolved"
              => calm'.count >= Required /\ calm'.age >= Required * CycleGap
<1> DEFINE n == ev[e].id
<1>0. /\ Required \in Nat \ {0} /\ CycleGap \in Nat \ {0}
      /\ calm.count \in Nat /\ calm.age \in Nat /\ calm.count <= Required
      /\ calm = [count |-> calm.count, age |-> calm.age]
      /\ alerts \in Seq(AlertType) /\ PendingExpiry \in Nat /\ sweepAge \in Nat
  BY Numbers
<1>1. /\ pend' = NoPending /\ sweepAge' = sweepAge
      /\ alerts' = IF n = 0 THEN alerts ELSE [alerts EXCEPT ![n] = Healthier(alerts[n])]
      /\ calm' = [calm EXCEPT !.count = AtMost(@ + 1, Required)]
  BY DEF Recover, Note, paceVars
<1>2. calm'.count = AtMost(calm.count + 1, Required) /\ calm'.age = calm.age
  BY <1>0, <1>1
<1>3. calm'.count \in Nat /\ calm'.count >= calm.count
      /\ \A k \in Nat : k <= Required /\ k <= calm.count + 1 => calm'.count >= k
  BY <1>0, <1>2 DEF AtMost
<1>4. Candidate'
  BY <1>1 DEF Candidate
<1>5. Expiring'
  BY <1>0, <1>1 DEF Expiring, NoPending
<1>6. n = 0 \/ n \in DOMAIN alerts
  BY TypeParts DEF EvOK
<1> HIDE DEF n
<1>7. /\ DOMAIN alerts' = DOMAIN alerts /\ Len(alerts') = Len(alerts)
      /\ \A i \in DOMAIN alerts :
           alerts'[i] = IF i = n THEN Healthier(alerts[i]) ELSE alerts[i]
  <2>1. CASE n = 0
    <3>1. 0 \notin DOMAIN alerts
      BY <1>0
    <3> QED  BY <1>1, <2>1, <3>1
  <2>2. CASE n # 0
    BY <1>0, <1>1, <1>6, <2>2
  <2> QED  BY <2>1, <2>2
<1>8. ASSUME NEW i \in DOMAIN alerts, alerts[i].status \in Open
      PROVE  /\ alerts'[i].status \in Open =>
                  /\ alerts'[i].streak < Required /\ calm'.count >= alerts'[i].streak
                  /\ calm'.age >= alerts'[i].streak * CycleGap + alerts'[i].cycleAge
             /\ alerts'[i].status = "resolved"
                  => calm'.count >= Required /\ calm'.age >= Required * CycleGap
  <2> DEFINE a == alerts[i]
             b == alerts'[i]
             s == a.streak
  <2>1. /\ s \in Nat /\ a.cycleAge \in Nat /\ a.cycleAge <= CycleGap /\ a \in AlertType
    BY <1>8, Numbers
  <2>2. /\ s < Required /\ calm.count >= s /\ calm.age >= s * CycleGap + a.cycleAge
    BY <1>8 DEF Healing, OpenIds
  <2>3. s * CycleGap \in Nat /\ (s + 1) * CycleGap = s * CycleGap + CycleGap
    BY <1>0, <2>1, <2>2, Gaps
  <2>4. CASE i # n
    <3>1. b = a
      BY <1>7, <2>4
    <3>2. calm'.count >= s
      BY <1>0, <1>3, <2>1, <2>2
    <3> QED  BY <1>2, <1>8, <2>2, <3>1, <3>2 DEF Open
  <2>5. CASE i = n
    <3>1. b = Healthier(a)
      BY <1>7, <2>5
    <3>2. /\ b.streak = IF Due(a) THEN s + 1 ELSE s
          /\ b.cycleAge = IF Due(a) THEN 0 ELSE a.cycleAge
          /\ b.status \in Open => b.streak < Required
          /\ b.status = "resolved" => Due(a) /\ s + 1 = Required
      BY <1>8, <2>1, <2>2, <3>1, HealthierIs
    <3>3. Due(a) => a.cycleAge >= CycleGap
      BY DEF Due
    <3> HIDE DEF a, b, s
    <3>4. calm'.age >= b.streak * CycleGap + b.cycleAge
      <4>1. CASE Due(a)
        <5>1. b.streak * CycleGap + b.cycleAge = s * CycleGap + CycleGap
          BY <1>0, <2>3, <3>2, <4>1
        <5> QED  BY <1>0, <1>2, <2>1, <2>2, <2>3, <3>3, <4>1, <5>1
      <4>2. CASE ~Due(a)
        BY <1>2, <2>2, <3>2, <4>2
      <4> QED  BY <4>1, <4>2
    <3>5. b.status \in Open => calm'.count >= b.streak
      <4>1. CASE Due(a)
        BY SMTT(30), <1>0, <1>3, <2>1, <2>2, <3>2, <4>1
      <4>2. CASE ~Due(a)
        BY <1>0, <1>3, <2>1, <2>2, <3>2, <4>2
      <4> QED  BY <4>1, <4>2
    <3>6. b.status = "resolved" => calm'.count >= Required /\ calm'.age >= Required * CycleGap
      <4> SUFFICES ASSUME b.status = "resolved"
                   PROVE  calm'.count >= Required /\ calm'.age >= Required * CycleGap
        OBVIOUS
      <4>1. Due(a) /\ s + 1 = Required
        BY <3>2
      <4>2. Required * CycleGap = s * CycleGap + CycleGap
        BY <2>3, <4>1
      <4>3. calm.count + 1 >= Required
        BY <1>0, <2>1, <2>2, <4>1
      <4>4. calm'.count >= Required
        BY <1>0, <1>3, <4>3
      <4>5. calm'.age >= Required * CycleGap
        BY <1>0, <1>2, <2>1, <2>2, <2>3, <3>3, <4>1, <4>2
      <4> QED  BY <4>4, <4>5
    <3> QED  BY <3>2, <3>4, <3>5, <3>6 DEF b
  <2> QED  BY <2>4, <2>5
<1>9. \A i \in DOMAIN alerts : alerts[i].status \notin Open => alerts'[i].status \notin Open
  <2> SUFFICES ASSUME NEW i \in DOMAIN alerts, alerts[i].status \notin Open
               PROVE  alerts'[i].status \notin Open
    OBVIOUS
  <2>1. alerts[i] \in AlertType
    BY Numbers
  <2>2. Healthier(alerts[i]).status \in {alerts[i].status, "resolved"}
    BY <2>1, HealthierTyped
  <2> QED  BY <1>7, <2>2 DEF Open
<1>10. Healing'
  BY <1>7, <1>8, <1>9 DEF Healing, OpenIds
<1> QED  BY <1>4, <1>5, <1>7, <1>8, <1>10 DEF OpenIds

\* A breaching evaluation ends every recovery; the one open alert begins anew.
LEMMA ConfirmSustains ==
  ASSUME SingleEvaluator, SInv, NEW e \in Evaluator, Confirm(e)
  PROVE  Candidate' /\ Healing' /\ Expiring' /\ NoRecovery /\ Len(alerts') = Len(alerts)
<1> DEFINE n == ev[e].id
<1>0. /\ TypeOK /\ Required \in Nat \ {0} /\ CycleGap \in Nat \ {0}
      /\ breach.count \in Nat /\ breach.age \in Nat /\ breach.count <= Required
      /\ pend.cycles \in Nat /\ pend.cycles < Required /\ alerts \in Seq(AlertType)
  BY Numbers DEF SInv, IInv
<1>1. /\ breach' = [count |-> AtMost(breach.count + 1, Required),
                    age |-> IF breach.count = 0 THEN 0 ELSE breach.age]
      /\ calm' = [count |-> 0, age |-> 0] /\ UNCHANGED <<pend, sweepAge>>
  BY DEF Confirm, Note, paceVars
<1>2. breach'.count = AtMost(breach.count + 1, Required)
      /\ breach'.age = IF breach.count = 0 THEN 0 ELSE breach.age
  BY <1>1
<1>3. Candidate'
  <2> SUFFICES ASSUME pend # NoPending
               PROVE  /\ pend.cycles >= 1 /\ breach'.count >= pend.cycles
                      /\ breach'.age >= (pend.cycles - 1) * CycleGap + pend.cycleAge
    BY <1>1 DEF Candidate
  <2>1. /\ pend.cycles >= 1 /\ breach.count >= pend.cycles
        /\ breach.age >= (pend.cycles - 1) * CycleGap + pend.cycleAge
    BY DEF SInv, Candidate
  <2>2. breach.count # 0 /\ breach'.age = breach.age
    BY <1>0, <1>2, <2>1
  <2>3. breach'.count >= pend.cycles
    BY <1>0, <1>2, <2>1 DEF AtMost
  <2> QED  BY <2>1, <2>2, <2>3
<1>4. Expiring'
  BY <1>1 DEF SInv, Expiring
<1>5. /\ n \in DOMAIN alerts /\ DOMAIN alerts' = DOMAIN alerts
      /\ alerts[n] \in AlertType
      /\ alerts'[n] = Confirmed(alerts[n], ev[e], ev[e].level)
      /\ \A i \in DOMAIN alerts : i # n => alerts'[i] = alerts[i]
  BY <1>0, ConfirmWrites
<1>6. Len(alerts') = Len(alerts)
  BY <1>0, <1>5 DEF Confirm
<1>7. OpenIds \subseteq {n}
  BY DEF Confirm, SInv, IInv, ReadHolds
<1> HIDE DEF n
<1>8. /\ alerts'[n].streak = 0 /\ alerts'[n].cycleAge = 0
      /\ alerts'[n].reason = alerts[n].reason
      /\ alerts'[n].status \in {alerts[n].status, "active"}
  BY <1>5 DEF Confirmed, AlertType
<1>9. Healing'
  <2> SUFFICES ASSUME NEW i \in OpenIds'
               PROVE  /\ alerts'[i].streak < Required /\ calm'.count >= alerts'[i].streak
                      /\ calm'.age >= alerts'[i].streak * CycleGap + alerts'[i].cycleAge
    BY DEF Healing
  <2>1. i = n
    BY <1>5, <1>7 DEF OpenIds
  <2>2. 0 * CycleGap + 0 = 0
    BY <1>0
  <2> QED  BY <1>0, <1>1, <1>8, <2>1, <2>2
<1>10. NoRecovery
  BY <1>5, <1>8 DEF NoRecovery, OpenIds, Open
<1> QED  BY <1>3, <1>4, <1>6, <1>9, <1>10

\* A breaching evaluation counts at most one cycle per gap of the candidate.
LEMMA AccumulateSustains ==
  ASSUME SingleEvaluator, SInv, NEW e \in Evaluator, Accumulate(e)
  PROVE  /\ Candidate' /\ Healing' /\ Expiring' /\ NoRecovery
         /\ Len(alerts') > Len(alerts) => /\ breach'.count >= Required
                                          /\ breach'.age >= (Required - 1) * CycleGap
<1> DEFINE t == Touched(ev[e].level)
           g == CycleGap
<1>0. /\ TypeOK /\ Required \in Nat \ {0} /\ g \in Nat \ {0}
      /\ breach.count \in Nat /\ breach.age \in Nat /\ breach.count <= Required
      /\ pend.cycles \in Nat /\ pend.cycles < Required /\ alerts \in Seq(AlertType)
      /\ pend.cycleAge \in Nat /\ pend.cycleAge <= g /\ PendingExpiry \in Nat /\ sweepAge \in Nat
  BY Numbers DEF SInv, IInv
<1>1. /\ breach' = [count |-> AtMost(breach.count + 1, Required),
                    age |-> IF breach.count = 0 THEN 0 ELSE breach.age]
      /\ calm' = [count |-> 0, age |-> 0] /\ sweepAge' = sweepAge
      /\ IF t.cycles < Required THEN pend' = t /\ alerts' = alerts
         ELSE pend' = NoPending /\ alerts' = Append(alerts, NewAlert(t.sev))
  BY DEF Accumulate, Note, paceVars
<1>2. breach'.count = AtMost(breach.count + 1, Required)
      /\ breach'.age = IF breach.count = 0 THEN 0 ELSE breach.age
  BY <1>1
<1>3. OpenIds \subseteq {0}
  BY DEF Accumulate, SInv, IInv, ReadHolds
<1>4. OpenIds = {}
  BY <1>0, <1>3 DEF OpenIds
<1>5. /\ pend = NoPending => t.cycles = 1 /\ t.cycleAge = 0
      /\ pend # NoPending => /\ t.cycles = IF pend.cycleAge >= g THEN pend.cycles + 1 ELSE pend.cycles
                             /\ t.cycleAge = IF pend.cycleAge >= g THEN 0 ELSE pend.cycleAge
      /\ t.seenAge = 0
  BY DEF Touched, Due
<1> HIDE DEF t
<1>6. /\ t.cycles \in Nat /\ t.cycles >= 1 /\ t.cycles <= Required /\ t.cycleAge \in Nat
      /\ breach'.count >= t.cycles
      /\ breach'.age >= (t.cycles - 1) * CycleGap + t.cycleAge
  <2> DEFINE k == pend.cycles - 1
  <2>1. CASE pend = NoPending
    <3>1. t.cycles = 1 /\ t.cycleAge = 0 /\ (1 - 1) * g + 0 = 0
      BY <1>0, <1>5, <2>1
    <3>2. breach'.count >= 1 /\ breach'.age >= 0
      BY <1>0, <1>2 DEF AtMost
    <3> QED  BY <1>0, <3>1, <3>2
  <2>2. CASE pend # NoPending
    <3>1. /\ pend.cycles >= 1 /\ breach.count >= pend.cycles
          /\ breach.age >= k * g + pend.cycleAge
      BY <2>2 DEF SInv, Candidate
    <3>2. k \in Nat /\ k < Required /\ pend.cycles = k + 1
      BY <1>0, <3>1
    <3> HIDE DEF g, k
    <3>3. k * g \in Nat /\ (k + 1) * g = k * g + g
      BY <1>0, <3>2, Gaps DEF g
    <3>4. breach.count # 0 /\ breach'.age = breach.age
      BY <1>0, <1>2, <3>1
    <3>5. breach'.count >= pend.cycles /\ (pend.cycles + 1 <= Required => breach'.count >= pend.cycles + 1)
      BY <1>0, <1>2, <3>1 DEF AtMost
    <3>6. CASE pend.cycleAge >= g
      <4>1. t.cycles = k + 2 /\ t.cycleAge = 0 /\ t.cycles = pend.cycles + 1
        BY <1>5, <2>2, <3>2, <3>6
      <4>2. (t.cycles - 1) * g + t.cycleAge = k * g + g
        <5>1. t.cycles - 1 = k + 1
          BY <3>2, <4>1
        <5>2. (t.cycles - 1) * g = k * g + g
          BY <3>3, <5>1
        <5>3. k * g + g \in Nat
          BY <1>0, <3>3
        <5> QED  BY <4>1, <5>2, <5>3
      <4>3. breach'.age >= k * g + g
        BY <1>0, <3>1, <3>3, <3>4, <3>6
      <4>4. t.cycles \in Nat /\ t.cycles >= 1 /\ t.cycles <= Required /\ breach'.count >= t.cycles
        BY <1>0, <3>2, <3>5, <4>1
      <4>5. t.cycleAge \in Nat
        BY <4>1
      <4> QED  BY <4>2, <4>3, <4>4, <4>5 DEF g
    <3>7. CASE ~(pend.cycleAge >= g)
      <4>1. t.cycles = pend.cycles /\ t.cycleAge = pend.cycleAge
        BY <1>5, <2>2, <3>7
      <4>2. (t.cycles - 1) * g = k * g
        BY <4>1 DEF k
      <4>3. t.cycles \in Nat /\ t.cycles >= 1 /\ t.cycles <= Required /\ breach'.count >= t.cycles
        BY <1>0, <3>1, <3>5, <4>1
      <4> QED  BY <1>0, <3>1, <3>4, <4>1, <4>2, <4>3 DEF g
    <3> QED  BY <3>6, <3>7
  <2> QED  BY <2>1, <2>2
<1> HIDE DEF g
<1>7. Candidate'
  <2>1. CASE t.cycles < Required
    <3>1. pend' = t
      BY <1>1, <2>1
    <3> QED  BY <1>6, <3>1 DEF Candidate
  <2>2. CASE ~(t.cycles < Required)
    BY <1>1, <2>2 DEF Candidate
  <2> QED  BY <2>1, <2>2
<1>8. Expiring'
  <2>1. pend'.seenAge = 0
    BY <1>1, <1>5 DEF NoPending
  <2> QED  BY <1>0, <1>1, <2>1 DEF Expiring
<1>9. alerts' = alerts \/ \E s : alerts' = Append(alerts, NewAlert(s))
  BY <1>1
<1>10. \A i \in DOMAIN alerts : i \in DOMAIN alerts' /\ alerts'[i] = alerts[i]
  BY SMTT(30), <1>0, <1>9
<1>11. NoRecovery
  BY <1>4 DEF NoRecovery
<1>12. Healing'
  <2> SUFFICES ASSUME NEW i \in OpenIds'
               PROVE  /\ alerts'[i].streak < Required /\ calm'.count >= alerts'[i].streak
                      /\ calm'.age >= alerts'[i].streak * CycleGap + alerts'[i].cycleAge
    BY DEF Healing
  <2>1. alerts' # alerts
    BY <1>4 DEF OpenIds
  <2>2. PICK s : alerts' = Append(alerts, NewAlert(s))
    BY <1>9, <2>1
  <2>3. i \in DOMAIN alerts \/ i = Len(alerts) + 1
    BY <1>0, <2>2 DEF OpenIds
  <2>4. i \notin DOMAIN alerts
    BY <1>4, <1>10 DEF OpenIds
  <2>5. alerts'[i] = NewAlert(s)
    BY <1>0, <2>2, <2>3, <2>4
  <2>6. alerts'[i].streak = 0 /\ alerts'[i].cycleAge = 0
    BY <2>5 DEF NewAlert
  <2>7. 0 * CycleGap + 0 = 0
    BY <1>0 DEF g
  <2> QED  BY <1>0, <1>1, <2>6, <2>7
<1>13. ASSUME Len(alerts') > Len(alerts)
       PROVE  breach'.count >= Required /\ breach'.age >= (Required - 1) * CycleGap
  <2>1. ~(t.cycles < Required)
    <3>1. Len(alerts) \in Nat
      BY <1>0
    <3> QED  BY <1>1, <1>13, <3>1
  <2>2. t.cycles = Required
    BY <1>0, <1>6, <2>1
  <2>3. (Required - 1) * CycleGap \in Nat /\ breach'.age \in Nat
    <3>1. (Required - 1) \in Nat /\ Required - 1 < Required
      BY <1>0
    <3>2. (Required - 1) * CycleGap \in Nat
      BY <1>0, <3>1, Gaps
    <3>3. breach'.age \in Nat
      BY <1>0, <1>2
    <3> QED  BY <3>2, <3>3
  <2>4. t.cycleAge \in Nat
    BY <1>6
  <2> DEFINE m == (Required - 1) * CycleGap
  <2>5. breach'.age >= m + t.cycleAge /\ m \in Nat
    BY <1>6, <2>2, <2>3
  <2> HIDE DEF m
  <2>6. breach'.age >= m
    BY <2>3, <2>4, <2>5
  <2> QED  BY <1>6, <2>2, <2>6 DEF m
<1> QED  BY <1>7, <1>8, <1>11, <1>12, <1>13

LEMMA SustainedInit == Init => SInv
<1> SUFFICES ASSUME Init
             PROVE  SInv
  OBVIOUS
<1>1. IInv
  BY InvariantInit
<1>2. Candidate
  BY DEF Init, Candidate
<1>3. Healing
  BY DEF Init, Healing, OpenIds
<1>4. Expiring
  BY BoundsTyped, TimingAssumption DEF Init, Expiring, NoPending, TimingAssumption
<1> QED  BY <1>1, <1>2, <1>3, <1>4 DEF SInv

LEMMA SustainedStep ==
  ASSUME SingleEvaluator, SInv, [Next]_vars
  PROVE  SInv'
<1>1. TypeOK /\ Candidate /\ Healing /\ Expiring
  BY DEF SInv, IInv
<1>2. IInv'
  BY InvariantStep DEF SInv
<1>3. CASE Tick
  BY <1>1, <1>2, <1>3, TickSustains DEF SInv
<1>4. ASSUME NEW e \in Evaluator, Sweep(e)
      PROVE  SInv'
  BY <1>1, <1>2, <1>4, SweepSustains DEF SInv
<1>5. ASSUME NEW e \in Evaluator, Recover(e)
      PROVE  SInv'
  BY <1>1, <1>2, <1>5, RecoverSustains DEF SInv
<1>6. ASSUME NEW e \in Evaluator, Confirm(e)
      PROVE  SInv'
  BY <1>2, <1>6, ConfirmSustains DEF SInv
<1>7. ASSUME NEW e \in Evaluator, Accumulate(e)
      PROVE  SInv'
  BY <1>2, <1>7, AccumulateSustains DEF SInv
<1>8. CASE /\ ~Tick
           /\ \A e \in Evaluator : ~Sweep(e) /\ ~Recover(e) /\ ~Confirm(e) /\ ~Accumulate(e)
  <2>1. Untouched /\ pend' = pend /\ breach' = breach /\ calm' = calm /\ sweepAge' = sweepAge
    BY <1>1, <1>8, OthersUntouched
  <2>2. Healing'
    BY <1>1, <2>1, HealingKept
  <2>3. Candidate' /\ Expiring'
    BY <1>1, <2>1 DEF Candidate, Expiring
  <2> QED  BY <1>2, <2>2, <2>3 DEF SInv
<1> QED  BY <1>3, <1>4, <1>5, <1>6, <1>7, <1>8

\* With one collector, the evaluator opens an alert only after Required breaching evaluations
\* over at least Required - 1 cycles, calls one recovered only after Required healthy ones
\* over Required cycles, and keeps no candidate that nothing touched for its expiry and a
\* sweep period: _touch_pending, the healthy streak and the sweep, for every gap and number.
THEOREM OnlyWhenSustainedAlways ==
  ASSUME SingleEvaluator
  PROVE  Spec => OnlyWhenSustained
<1> DEFINE Opens == Len(alerts') > Len(alerts) => /\ breach'.count >= Required
                                                 /\ breach'.age >= (Required - 1) * CycleGap
           Recovers == \A i \in OpenIds :
                         alerts'[i].status = "resolved" /\ alerts'[i].reason = "recovered"
                           => calm'.count >= Required /\ calm'.age >= Required * CycleGap
           Dropped == sweepAge < SweepEvery => pend.seenAge < PendingCap
<1>1. ASSUME SInv, [Next]_vars
      PROVE  Opens /\ Recovers
  <2>1. TypeOK /\ Candidate /\ Healing /\ Expiring
    BY <1>1 DEF SInv, IInv
  <2>2. ASSUME NoRecovery, Len(alerts') = Len(alerts)
        PROVE  Opens /\ Recovers
    <3>1. Len(alerts) \in Nat
      BY <2>1, Numbers
    <3>2. ~(Len(alerts') > Len(alerts))
      BY <2>2, <3>1
    <3>3. Opens
      BY <3>2
    <3>4. Recovers
      BY <2>2 DEF NoRecovery
    <3> QED  BY <3>3, <3>4
  <2> HIDE DEF Opens
  <2>3. CASE Tick
    BY <2>1, <2>2, <2>3, TickSustains
  <2>4. ASSUME NEW e \in Evaluator, Sweep(e)
        PROVE  Opens /\ Recovers
    BY <2>1, <2>2, <2>4, SweepSustains
  <2>5. ASSUME NEW e \in Evaluator, Recover(e)
        PROVE  Opens /\ Recovers
    <3>1. Len(alerts) \in Nat /\ Len(alerts') = Len(alerts)
      BY <2>1, <2>5, Numbers, RecoverSustains
    <3>2. ~(Len(alerts') > Len(alerts))
      BY <3>1
    <3>3. Opens
      BY <3>2 DEF Opens
    <3>4. Recovers
      BY <2>1, <2>5, RecoverSustains
    <3> QED  BY <3>3, <3>4
  <2>6. ASSUME NEW e \in Evaluator, Confirm(e)
        PROVE  Opens /\ Recovers
    BY <1>1, <2>2, <2>6, ConfirmSustains
  <2>7. ASSUME NEW e \in Evaluator, Accumulate(e)
        PROVE  Opens /\ Recovers
    <3>1. Opens
      BY <1>1, <2>7, AccumulateSustains DEF Opens
    <3>2. Recovers
      BY <1>1, <2>7, AccumulateSustains DEF NoRecovery
    <3> QED  BY <3>1, <3>2
  <2>8. CASE /\ ~Tick
             /\ \A e \in Evaluator : ~Sweep(e) /\ ~Recover(e) /\ ~Confirm(e) /\ ~Accumulate(e)
    BY <1>1, <2>1, <2>2, <2>8, OthersUntouched
  <2> QED  BY <2>3, <2>4, <2>5, <2>6, <2>7, <2>8
<1>2. SInv => Dropped
  <2> SUFFICES ASSUME SInv, sweepAge < SweepEvery
               PROVE  pend.seenAge < PendingCap
    OBVIOUS
  <2>1. TypeOK /\ pend.seenAge <= PendingExpiry + sweepAge
    BY DEF SInv, IInv, Expiring
  <2>2. /\ sweepAge \in Nat /\ SweepEvery \in Nat /\ PendingExpiry \in Nat /\ pend.seenAge \in Nat
        /\ PendingCap = PendingExpiry + SweepEvery
    BY <2>1, Numbers
  <2> QED  BY <2>1, <2>2
<1>3. SInv /\ [Next]_vars => SInv'
  BY SustainedStep
<1>4. SInv /\ [Next]_vars => [Opens]_vars /\ [Recovers]_vars
  BY <1>1
<1> HIDE DEF SInv
<1> QED  BY <1>2, <1>3, <1>4, SustainedInit, PTL
         DEF Spec, OnlyWhenSustained, OpensOnlyWhenSustained, RecoversOnlyWhenSustained,
             StaleCandidateIsDropped

=============================================================================
