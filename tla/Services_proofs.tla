---------------------------- MODULE Services_proofs ----------------------------
(* Theorems about the components that Services puts side by side, for any      *)
(* number of processes, threads, tasks, objects, connections and faults.       *)
EXTENDS Services, FiniteSetTheorems, SequenceTheorems, WellFoundedInduction, TLAPS

-----------------------------------------------------------------------------
(* One component's step is a stutter of every other; only faults are shared.  *)

LEMMA RulesSteps ==
  [ServicesNext]_servicesVars => [Next]_vars \/ UNCHANGED ofRules
BY DEF ServicesNext, servicesVars, ofRules, vars

LEMMA PoolSteps == [ServicesNext]_servicesVars => [Pool!Next]_(Pool!vars)
BY DEF ServicesNext, servicesVars, ofPool, Pool!vars

LEMMA RollupSteps ==
  [ServicesNext]_servicesVars => [Rollup!Next]_(Rollup!vars) \/ UNCHANGED ofRollup
BY DEF ServicesNext, servicesVars, ofRollup, Rollup!vars

LEMMA GroupSteps ==
  [ServicesNext]_servicesVars => [Group!Next]_(Group!vars) \/ UNCHANGED ofIncidents
BY DEF ServicesNext, servicesVars, ofIncidents, Group!vars

LEMMA TiersSteps ==
  [ServicesNext]_servicesVars => [Tiers!Next]_(Tiers!vars) \/ UNCHANGED ofTiers
BY DEF ServicesNext, servicesVars, ofTiers, Tiers!vars

LEMMA LiveSteps ==
  [ServicesNext]_servicesVars => [Live!Next]_(Live!vars) \/ UNCHANGED ofLive
BY DEF ServicesNext, servicesVars, ofLive, Live!vars

-----------------------------------------------------------------------------
(* Email rules: nobody is mailed twice.                                       *)

\* The parts of the state the argument rests on.
Shape ==
  /\ worker = [p \in Process |-> [pc |-> worker[p].pc, sweep |-> worker[p].sweep,
                                  todo |-> worker[p].todo, rule |-> worker[p].rule,
                                  view |-> worker[p].view]]
  /\ mails \in [Item -> Nat]
  /\ split \in BOOLEAN /\ unrecorded \in BOOLEAN

Mailed(i) == \E s \in sends : s.event = i.event /\ s.object = i.object

\* One worker is busy, it sees every mail, and what it is about to mail is not mailed.
Alone ==
  /\ \A p, q \in Process : Busy(p) /\ Busy(q) => p = q
  /\ \A p \in Process : Busy(p) => worker[p].view = sends
  /\ \A p \in Process : worker[p].pc \in {"sending", "recording"} => ~Mailed(Current(p))

\* An event is mailed once, and in the log unless its row is still to be written.
Counts ==
  /\ \A i \in Item : mails[i] <= 1
  /\ \A i \in Item : mails[i] # 0 =>
       Mailed(i) \/ \E p \in Process : worker[p].pc = "recording" /\ Current(p) = i

MailInv == split \/ unrecorded \/ (Alone /\ Counts)

-----------------------------------------------------------------------------
\* The step to the next rule, item or job touches one worker, which is no longer mailing
\* and sees what the step gives it.
LEMMA GoesOnStep ==
  ASSUME Shape, NEW p \in Process, NEW n, NEW v, GoesOn(p, n, v)
  PROVE /\ worker' = [q \in Process |-> [pc |-> worker'[q].pc, sweep |-> worker'[q].sweep,
                                         todo |-> worker'[q].todo, rule |-> worker'[q].rule,
                                         view |-> worker'[q].view]]
        /\ \A q \in Process \ {p} : worker'[q] = worker[q]
        /\ worker'[p].pc = "idle" \/ (worker'[p].pc = "deciding" /\ worker'[p].view = v)
<1> DEFINE w == worker[p]
           rest == w.todo \ {Current(p)}
           done == rest = {} /\ (n \/ w.rule = Len(Wants))
           new == IF ~n /\ w.rule < Len(Wants)
                  THEN [w EXCEPT !.pc = "deciding", !.rule = w.rule + 1, !.view = v]
                  ELSE IF done THEN Idle
                  ELSE [w EXCEPT !.pc = "deciding", !.rule = 1, !.todo = rest, !.view = v]
<1>1. worker' = [worker EXCEPT ![p] = new]
  BY DEF GoesOn
<1>2. w = [pc |-> w.pc, sweep |-> w.sweep, todo |-> w.todo, rule |-> w.rule, view |-> w.view]
  BY DEF Shape
<1>3. /\ new = [pc |-> new.pc, sweep |-> new.sweep, todo |-> new.todo, rule |-> new.rule,
               view |-> new.view]
      /\ new.pc = "idle" \/ (new.pc = "deciding" /\ new.view = v)
  <2> HIDE DEF w, rest, done
  <2>1. CASE ~n /\ w.rule < Len(Wants)
    BY <1>2, <2>1
  <2>2. CASE ~(~n /\ w.rule < Len(Wants)) /\ done
    BY <2>2 DEF Idle
  <2>3. CASE ~(~n /\ w.rule < Len(Wants)) /\ ~done
    BY <1>2, <2>3
  <2> QED BY <2>1, <2>2, <2>3
<1> HIDE DEF new
<1>4. worker'[p] = new /\ \A q \in Process \ {p} : worker'[q] = worker[q]
  BY <1>1 DEF Shape
<1>5. worker' = [q \in Process |-> worker'[q]]
  BY <1>1 DEF Shape
<1>6. \A q \in Process :
        worker'[q] = [pc |-> worker'[q].pc, sweep |-> worker'[q].sweep, todo |-> worker'[q].todo,
                      rule |-> worker'[q].rule, view |-> worker'[q].view]
  BY <1>3, <1>4 DEF Shape
<1> QED BY <1>3, <1>4, <1>5, <1>6

\* A worker that goes on, with the log and the mails as they were, keeps the invariant.
LEMMA GoesOnKeeps ==
  ASSUME Shape, MailInv, NEW p \in Process, NEW n, Busy(p), worker[p].pc # "recording",
         GoesOn(p, n, worker[p].view), UNCHANGED <<sends, mails, split, unrecorded>>
  PROVE Shape' /\ MailInv'
<1>1. Shape'
  BY GoesOnStep DEF Shape
<1>2. /\ \A q \in Process \ {p} : worker'[q] = worker[q]
      /\ worker'[p].pc = "idle" \/ (worker'[p].pc = "deciding" /\ worker'[p].view = worker[p].view)
  BY GoesOnStep
<1>3. MailInv'
  <2> SUFFICES ASSUME ~split, ~unrecorded PROVE Alone' /\ Counts'
    BY DEF MailInv
  <2>1. Alone /\ Counts
    BY DEF MailInv
  <2>2. \A i : Mailed(i)' <=> Mailed(i)
    BY DEF Mailed
  <2>3. \A q \in Process \ {p} : Current(q)' = Current(q)
    BY <1>2 DEF Current
  <2>4. Alone'
    BY <1>2, <2>1, <2>2, <2>3 DEF Alone, Busy
  <2>5. Counts'
    BY <1>2, <2>1, <2>2, <2>3 DEF Counts
  <2> QED BY <2>4, <2>5
<1> QED BY <1>1, <1>3

-----------------------------------------------------------------------------
\* The first state has no worker that is busy and no mail.
LEMMA InitMail == Init => Shape /\ MailInv
<1> SUFFICES ASSUME Init PROVE Shape /\ MailInv
  OBVIOUS
<1>1. /\ worker = [p \in Process |-> Idle] /\ sends = {} /\ mails = [i \in Item |-> 0]
      /\ split = FALSE /\ unrecorded = FALSE
  BY DEF Init
<1>2. \A p \in Process : worker[p].pc = "idle"
  BY <1>1 DEF Idle
<1>3. \A p \in Process :
        worker[p] = [pc |-> worker[p].pc, sweep |-> worker[p].sweep, todo |-> worker[p].todo,
                     rule |-> worker[p].rule, view |-> worker[p].view]
  BY <1>1 DEF Idle
<1>4. worker = [p \in Process |-> worker[p]]
  BY <1>1
<1>5. Shape
  <2>1. mails \in [Item -> Nat]
    BY <1>1
  <2> QED BY <1>1, <1>3, <1>4, <2>1 DEF Shape
<1>6. Alone
  BY <1>2 DEF Alone, Busy
<1>7. Counts
  BY <1>1 DEF Counts
<1> QED BY <1>5, <1>6, <1>7 DEF MailInv

\* What the steps of time, users, hooks and requests leave alone is all that is needed.
LEMMA Untouched ==
  ASSUME Shape, MailInv, UNCHANGED <<worker, sends, mails, split, unrecorded>>
  PROVE Shape' /\ MailInv'
BY DEF Shape, MailInv, Alone, Counts, Busy, Current, Mailed

LEMMA TakesMail ==
  ASSUME Shape, MailInv, NEW p \in Process, Takes(p)
  PROVE Shape' /\ MailInv'
<1> DEFINE job == Head(queue[p])
           todo == IF job.kind = "sweep" THEN SweepItems ELSE {job.item}
           new == IF todo = {} THEN Idle
                  ELSE [pc |-> "deciding", sweep |-> job.kind = "sweep", todo |-> todo,
                        rule |-> 1, view |-> sends]
<1>1. /\ worker' = [worker EXCEPT ![p] = new]
      /\ split' = (split \/ (todo # {} /\ \E q \in Process \ {p} : Busy(q)))
      /\ UNCHANGED <<sends, mails, unrecorded>>
      /\ ~Busy(p)
  BY DEF Takes, memory
<1>2. /\ new = [pc |-> new.pc, sweep |-> new.sweep, todo |-> new.todo, rule |-> new.rule,
               view |-> new.view]
      /\ (todo = {} /\ new.pc = "idle") \/ (todo # {} /\ new.pc = "deciding" /\ new.view = sends)
  <2> HIDE DEF todo
  <2> QED BY DEF Idle
<1> HIDE DEF new, todo
<1>3. worker'[p] = new /\ \A q \in Process \ {p} : worker'[q] = worker[q]
  BY <1>1 DEF Shape
<1>4. worker' = [q \in Process |-> worker'[q]]
  BY <1>1 DEF Shape
<1>5. Shape'
  <2>1. \A q \in Process :
          worker'[q] = [pc |-> worker'[q].pc, sweep |-> worker'[q].sweep, todo |-> worker'[q].todo,
                        rule |-> worker'[q].rule, view |-> worker'[q].view]
    BY <1>2, <1>3 DEF Shape
  <2> QED BY <1>1, <1>4, <2>1 DEF Shape
<1>6. MailInv'
  <2> SUFFICES ASSUME ~split', ~unrecorded' PROVE Alone' /\ Counts'
    BY DEF MailInv
  <2>1. Alone /\ Counts /\ (todo = {} \/ \A q \in Process \ {p} : ~Busy(q))
    BY <1>1 DEF MailInv, Shape
  <2>2. \A i : Mailed(i)' <=> Mailed(i)
    BY <1>1 DEF Mailed
  <2>3. \A q \in Process \ {p} : Current(q)' = Current(q)
    BY <1>3 DEF Current
  <2>4. Alone'
    BY <1>1, <1>2, <1>3, <2>1, <2>2, <2>3 DEF Alone, Busy
  <2>5. Counts'
    BY <1>1, <1>2, <1>3, <2>1, <2>2, <2>3 DEF Counts, Busy
  <2> QED BY <2>4, <2>5
<1> QED BY <1>5, <1>6

LEMMA DecidesMail ==
  ASSUME Shape, MailInv, NEW p \in Process, Decides(p)
  PROVE Shape' /\ MailInv'
<1>1. worker[p].pc = "deciding" /\ UNCHANGED <<sends, mails, split, unrecorded>>
  BY DEF Decides, memory, ghosts
<1>2. CASE GoesOn(p, FALSE, worker[p].view)
  BY <1>1, <1>2, GoesOnKeeps DEF Busy
<1>3. CASE /\ Decide(worker[p].view, worker[p].rule, Current(p))
           /\ worker' = [worker EXCEPT ![p].pc = "sending"]
  <2>1. Shape'
    BY SMTT(30), <1>1, <1>3 DEF Shape
  <2>2. \A q \in Process : /\ worker'[q].todo = worker[q].todo
                           /\ worker'[q].view = worker[q].view
                           /\ worker'[q].pc = IF q = p THEN "sending" ELSE worker[q].pc
    BY <1>3 DEF Shape
  <2>3. MailInv'
    <3> SUFFICES ASSUME ~split, ~unrecorded PROVE Alone' /\ Counts'
      BY <1>1 DEF MailInv
    <3>1. Alone /\ Counts
      BY DEF MailInv
    <3>2. \A i : Mailed(i)' <=> Mailed(i)
      BY <1>1 DEF Mailed
    <3>3. \A q \in Process : Current(q)' = Current(q)
      BY <2>2 DEF Current
    <3>4. ~Mailed(Current(p))
      BY <1>1, <1>3, <3>1 DEF Decide, Already, Mailed, Alone, Busy
    <3>5. Alone'
      BY <1>1, <2>2, <3>1, <3>2, <3>3, <3>4 DEF Alone, Busy
    <3>6. Counts'
      BY <1>1, <2>2, <3>1, <3>2, <3>3 DEF Counts
    <3> QED BY <3>5, <3>6
  <2> QED BY <2>1, <2>3
<1> QED BY <1>2, <1>3 DEF Decides

LEMMA SendsMail ==
  ASSUME Shape, MailInv, NEW p \in Process, Sends(p)
  PROVE Shape' /\ MailInv'
<1>1. /\ worker[p].pc = "sending" /\ UNCHANGED <<sends, split, unrecorded>>
      /\ worker' = [worker EXCEPT ![p].pc = "recording"]
      /\ mails' = [mails EXCEPT ![Current(p)] = @ + 1]
  BY DEF Sends, ghosts
<1>2. Shape'
  <2>1. mails' \in [Item -> Nat]
    <3>1. mails = [i \in Item |-> mails[i]] /\ \A i \in Item : mails[i] \in Nat
      BY DEF Shape
    <3> DEFINE c == Current(p)
    <3>2. mails' = [mails EXCEPT ![c] = @ + 1]
      BY <1>1
    <3> HIDE DEF c
    <3>3. mails' = [i \in Item |-> IF i = c THEN mails[i] + 1 ELSE mails[i]]
      BY <3>1, <3>2
    <3> QED BY <3>1, <3>3
  <2>2. worker' = [q \in Process |->
                     [pc |-> worker'[q].pc, sweep |-> worker'[q].sweep, todo |-> worker'[q].todo,
                      rule |-> worker'[q].rule, view |-> worker'[q].view]]
    BY SMTT(30), <1>1 DEF Shape
  <2> QED BY <1>1, <2>1, <2>2 DEF Shape
<1>3. \A q \in Process : /\ worker'[q].todo = worker[q].todo
                         /\ worker'[q].view = worker[q].view
                         /\ worker'[q].pc = IF q = p THEN "recording" ELSE worker[q].pc
  BY <1>1 DEF Shape
<1>4. MailInv'
  <2> SUFFICES ASSUME ~split, ~unrecorded PROVE Alone' /\ Counts'
    BY <1>1 DEF MailInv
  <2>1. Alone /\ Counts
    BY DEF MailInv
  <2>2. \A i : Mailed(i)' <=> Mailed(i)
    BY <1>1 DEF Mailed
  <2>3. \A q \in Process : Current(q)' = Current(q)
    BY <1>3 DEF Current
  <2>4. Alone'
    BY <1>1, <1>3, <2>1, <2>2, <2>3 DEF Alone, Busy
  <2>5. \A q \in Process : worker[q].pc # "recording"
    BY <1>1, <2>1 DEF Alone, Busy
  <2>6. \A i \in Item : mails[i] # 0 => Mailed(i)
    BY <2>1, <2>5 DEF Counts
  <2>7. ~Mailed(Current(p))
    BY <1>1, <2>1 DEF Alone
  <2>8. \A i \in Item : mails'[i] = IF i = Current(p) THEN mails[i] + 1 ELSE mails[i]
    BY <1>1 DEF Shape
  <2>9. \A i \in Item : mails'[i] <= 1
    BY <2>1, <2>6, <2>7, <2>8 DEF Counts
  <2>10. \A i \in Item : mails'[i] # 0 =>
           Mailed(i)' \/ \E q \in Process : worker'[q].pc = "recording" /\ Current(q)' = i
    BY <1>3, <2>2, <2>3, <2>6, <2>8
  <2> QED BY <2>4, <2>9, <2>10 DEF Counts
<1> QED BY <1>2, <1>4

LEMMA RecordsMail ==
  ASSUME Shape, MailInv, NEW p \in Process, Records(p)
  PROVE Shape' /\ MailInv'
<1>1. /\ worker[p].pc = "recording" /\ UNCHANGED <<mails, split, unrecorded>>
      /\ sends' = IF Already(sends, worker[p].rule, Current(p)) THEN sends ELSE sends \cup {NewRow(p)}
      /\ GoesOn(p, FALSE, sends')
  BY DEF Records, ghosts
<1>2. Shape'
  BY <1>1, GoesOnStep DEF Shape
<1>3. /\ \A q \in Process \ {p} : worker'[q] = worker[q]
      /\ worker'[p].pc = "idle" \/ (worker'[p].pc = "deciding" /\ worker'[p].view = sends')
  BY <1>1, GoesOnStep
<1>4. MailInv'
  <2> SUFFICES ASSUME ~split, ~unrecorded PROVE Alone' /\ Counts'
    BY <1>1 DEF MailInv
  <2>1. Alone /\ Counts
    BY DEF MailInv
  <2>2. \A q \in Process \ {p} : worker[q].pc = "idle"
    BY <1>1, <2>1 DEF Alone, Busy
  <2>3. \A q \in Process \ {p} : worker'[q].pc = "idle"
    BY <1>3, <2>2
  <2>4. \A i : Mailed(i) => Mailed(i)'
    BY <1>1 DEF Mailed
  <2>5. \A i : i = Current(p) => Mailed(i)'
    <3>1. \E s \in sends' : s.event = Current(p).event /\ s.object = Current(p).object
      <4>1. CASE Already(sends, worker[p].rule, Current(p))
        BY <1>1, <4>1 DEF Already
      <4>2. CASE ~Already(sends, worker[p].rule, Current(p))
        <5>1. NewRow(p) \in sends'
          BY <1>1, <4>2
        <5>2. NewRow(p).event = Current(p).event /\ NewRow(p).object = Current(p).object
          BY DEF NewRow
        <5> QED BY <5>1, <5>2
      <4> QED BY <4>1, <4>2
    <3> QED BY <3>1 DEF Mailed
  <2>6. \A q \in Process : worker'[q].pc \notin {"sending", "recording"}
    BY <1>3, <2>3
  <2>7. Alone'
    BY <1>3, <2>3, <2>6 DEF Alone, Busy
  <2>8. \A i \in Item : mails[i] # 0 => Mailed(i)'
    <3>1. \A i \in Item : mails[i] # 0 => Mailed(i) \/ Current(p) = i
      BY <2>1, <2>2 DEF Counts
    <3> QED BY <3>1, <2>4, <2>5
  <2>9. Counts'
    BY <1>1, <2>1, <2>8 DEF Counts
  <2> QED BY <2>7, <2>9
<1> QED BY <1>2, <1>4

\* A mail that is not recorded is what the property excuses.
LEMMA NotRecordedMail ==
  ASSUME Shape, MailInv, NEW p \in Process, NotRecorded(p)
  PROVE Shape' /\ MailInv'
<1>1. /\ unrecorded' = TRUE /\ UNCHANGED <<mails, split>>
      /\ GoesOn(p, TRUE, worker[p].view)
  BY DEF NotRecorded, memory
<1>2. Shape'
  BY <1>1, GoesOnStep DEF Shape
<1> QED BY <1>1, <1>2 DEF MailInv

LEMMA RefusedMail ==
  ASSUME Shape, MailInv, NEW p \in Process, Refused(p)
  PROVE Shape' /\ MailInv'
<1>1. /\ worker[p].pc = "sending" /\ UNCHANGED <<sends, mails, split, unrecorded>>
      /\ GoesOn(p, FALSE, worker[p].view)
  BY DEF Refused, memory
<1> QED BY <1>1, GoesOnKeeps DEF Busy

LEMMA CrashesMail ==
  ASSUME Shape, MailInv, NEW p \in Process, Crashes(p)
  PROVE Shape' /\ MailInv'
<1>1. /\ unrecorded' = (unrecorded \/ worker[p].pc = "recording")
      /\ worker' = [worker EXCEPT ![p] = Idle]
      /\ UNCHANGED <<sends, mails, split>>
  BY DEF Crashes, memory
<1>2. /\ worker'[p] = Idle /\ \A q \in Process \ {p} : worker'[q] = worker[q]
      /\ worker' = [q \in Process |-> worker'[q]]
  BY <1>1 DEF Shape
<1>3. Shape'
  <2>1. \A q \in Process :
          worker'[q] = [pc |-> worker'[q].pc, sweep |-> worker'[q].sweep, todo |-> worker'[q].todo,
                        rule |-> worker'[q].rule, view |-> worker'[q].view]
    BY <1>2 DEF Shape, Idle
  <2> QED BY <1>1, <1>2, <2>1 DEF Shape
<1>4. MailInv'
  <2> SUFFICES ASSUME ~split', ~unrecorded' PROVE Alone' /\ Counts'
    BY DEF MailInv
  <2>1. Alone /\ Counts /\ worker[p].pc # "recording"
    BY <1>1 DEF MailInv, Shape
  <2>2. \A i : Mailed(i)' <=> Mailed(i)
    BY <1>1 DEF Mailed
  <2>3. \A q \in Process \ {p} : Current(q)' = Current(q)
    BY <1>2 DEF Current
  <2>4. Alone'
    BY <1>1, <1>2, <2>1, <2>2, <2>3 DEF Alone, Busy, Idle
  <2>5. Counts'
    BY <1>1, <1>2, <2>1, <2>2, <2>3 DEF Counts, Idle
  <2> QED BY <2>4, <2>5
<1> QED BY <1>3, <1>4

-----------------------------------------------------------------------------
LEMMA StepMail == Shape /\ MailInv /\ [Next]_vars => Shape' /\ MailInv'
<1> SUFFICES ASSUME Shape, MailInv, [Next]_vars PROVE Shape' /\ MailInv'
  OBVIOUS
<1>1. CASE \E p \in Process : Works(p)
  BY <1>1, TakesMail, DecidesMail, SendsMail, RecordsMail DEF Works
<1>2. CASE \E p \in Process : Refused(p) \/ NotRecorded(p) \/ Crashes(p)
  BY <1>2, RefusedMail, NotRecordedMail, CrashesMail
<1>3. CASE \E p \in Process : RequestsSweep(p)
  <2>1. UNCHANGED <<worker, sends, mails, split, unrecorded>>
    BY <1>3 DEF RequestsSweep, memory
  <2> QED BY <2>1, Untouched
<1>4. CASE \E p \in Process : \E o \in Object : Opens(p, o)
  <2>1. UNCHANGED <<worker, sends, mails, split, unrecorded>>
    BY <1>4 DEF Opens, memory
  <2> QED BY <2>1, Untouched
<1>5. CASE \E e \in Swept, o \in Object : Happens(e, o)
  <2>1. UNCHANGED <<worker, sends, mails, split, unrecorded>>
    BY <1>5 DEF Happens, memory, ghosts
  <2> QED BY <2>1, Untouched
<1>6. CASE Passes
  <2>1. UNCHANGED <<worker, sends, mails, split, unrecorded>>
    BY <1>6 DEF Passes, memory
  <2> QED BY <2>1, Untouched
<1>7. CASE UNCHANGED vars
  <2>1. UNCHANGED <<worker, sends, mails, split, unrecorded>>
    BY <1>7 DEF vars, memory, ghosts
  <2> QED BY <2>1, Untouched
<1> QED BY <1>1, <1>2, <1>3, <1>4, <1>5, <1>6, <1>7 DEF Next

\* _already_sent and the row written after the mail: nobody is mailed twice about an event,
\* whatever rules match and sweeps overlap, as long as one worker is busy at a time and
\* every mail is recorded.
THEOREM MailedOnceAlways == ServicesSpec => []MailedOnce
<1>1. ServicesInit => Shape /\ MailInv
  BY InitMail DEF ServicesInit
<1>2. Shape /\ MailInv /\ [ServicesNext]_servicesVars => (Shape /\ MailInv)'
  <2>1. ASSUME Shape, MailInv, UNCHANGED ofRules PROVE Shape' /\ MailInv'
    BY <2>1, Untouched DEF ofRules, memory, ghosts
  <2> QED BY <2>1, RulesSteps, StepMail
<1>3. MailInv => MailedOnce
  BY DEF MailInv, MailedOnce, Counts
<1> QED BY <1>1, <1>2, <1>3, PTL DEF ServicesSpec

-----------------------------------------------------------------------------
(* The pool: a wrapper has a finalizer until it is closed.                    *)

\* Once handed out, a wrapper keeps its finalizer until the first close, so that the garbage
\* collector never has an open one to run.
FinalizerUntilClosed ==
  \A w \in Wrapper : Pool!Present(w) => (wrapper[w].finalizer <=> ~wrapper[w].closed)

PoolInv == PoolIsWhole /\ FinalizerUntilClosed

LEMMA PoolInit == Pool!Init => PoolInv
BY PoolAssumption, BoundsAssumption
   DEF Pool!Init, Pool!Absent, PoolInv, PoolIsWhole, FinalizerUntilClosed, Pool!TypeOK,
       Pool!NeverShared, Pool!OnlyLeaksAreMissing, Pool!Present

\* What the argument about one wrapper rests on: the others, and the connections of all.
LEMMA OthersStay ==
  ASSUME PoolInv, NEW w \in Wrapper, NEW r, wrapper' = [wrapper EXCEPT ![w] = r]
  PROVE  wrapper'[w] = r /\ \A v \in Wrapper \ {w} : wrapper'[v] = wrapper[v]
BY DEF PoolInv, PoolIsWhole, Pool!TypeOK

\* _acquire: the connection leaves the pool as the wrapper takes it.
LEMMA PoolGets ==
  ASSUME PoolInv, NEW t \in Task, Pool!Gets(t)
  PROVE  PoolInv'
<1>1. PICK c \in idle, w \in Wrapper :
        /\ ~Pool!Present(w) /\ idle' = idle \ {c}
        /\ wrapper' = [wrapper EXCEPT ![w] = [cnx |-> c, closed |-> FALSE, holder |-> t,
                                              finalizer |-> TRUE]]
  BY DEF Pool!Gets
<1>2. /\ wrapper'[w] = [cnx |-> c, closed |-> FALSE, holder |-> t, finalizer |-> TRUE]
      /\ \A v \in Wrapper \ {w} : wrapper'[v] = wrapper[v]
  BY <1>1, OthersStay
<1>3. c \in Connection /\ c # none
  BY PoolAssumption DEF PoolInv, PoolIsWhole, Pool!TypeOK
<1>4. Pool!TypeOK'
  BY <1>1, <1>2, <1>3 DEF PoolInv, PoolIsWhole, Pool!TypeOK, Pool!Gets
<1>5. Pool!NeverShared'
  BY <1>1, <1>2, <1>3 DEF PoolInv, PoolIsWhole, Pool!NeverShared, Pool!Present
<1>6. Pool!OnlyLeaksAreMissing'
  <2> SUFFICES ASSUME NEW d \in Connection \ idle'
               PROVE  \E v \in Wrapper : wrapper'[v].cnx = d /\ ~wrapper'[v].closed
    BY DEF Pool!OnlyLeaksAreMissing
  <2>1. CASE d = c
    BY <1>2, <2>1
  <2>2. CASE d # c
    <3>1. PICK v \in Wrapper : wrapper[v].cnx = d /\ ~wrapper[v].closed
      BY <1>1, <2>2 DEF PoolInv, PoolIsWhole, Pool!OnlyLeaksAreMissing
    <3>2. v # w
      BY <1>1, <3>1, PoolAssumption DEF Pool!Present
    <3> QED  BY <1>2, <3>1, <3>2
  <2> QED  BY <2>1, <2>2
<1>7. FinalizerUntilClosed'
  BY <1>1, <1>2 DEF PoolInv, FinalizerUntilClosed, Pool!Present
<1> QED  BY <1>4, <1>5, <1>6, <1>7 DEF PoolInv, PoolIsWhole

\* _guarded_close: only the first close returns the connection.
LEMMA PoolCloses ==
  ASSUME PoolInv, NEW t \in Task, NEW w \in Wrapper, Pool!Closes(t, w)
  PROVE  PoolInv'
<1>1. /\ Pool!Present(w) /\ leaks' = leaks
      /\ idle' = IF wrapper[w].closed THEN idle ELSE idle \cup {wrapper[w].cnx}
      /\ wrapper' = [wrapper EXCEPT ![w] = [wrapper[w] EXCEPT !.closed = TRUE, !.finalizer = FALSE]]
  BY DEF Pool!Closes, Pool!Holds, Pool!GivesBack, PoolInv, PoolIsWhole, Pool!TypeOK
<1>2. /\ wrapper'[w] = [wrapper[w] EXCEPT !.closed = TRUE, !.finalizer = FALSE]
      /\ \A v \in Wrapper \ {w} : wrapper'[v] = wrapper[v]
  BY <1>1, OthersStay
<1>3. /\ wrapper'[w].cnx = wrapper[w].cnx /\ wrapper'[w].closed = TRUE
      /\ wrapper'[w].finalizer = FALSE /\ wrapper[w].cnx \in Connection
  BY <1>1, <1>2 DEF Pool!Present, PoolInv, PoolIsWhole, Pool!TypeOK
<1>4. Pool!TypeOK'
  BY ZenonT(30), <1>1, <1>2, <1>3 DEF Pool!Present, PoolInv, PoolIsWhole, Pool!TypeOK
<1>5. Pool!NeverShared'
  BY <1>1, <1>2, <1>3 DEF PoolInv, PoolIsWhole, Pool!NeverShared, Pool!Present
<1>6. Pool!OnlyLeaksAreMissing'
  BY <1>1, <1>2, <1>3 DEF PoolInv, PoolIsWhole, Pool!OnlyLeaksAreMissing
<1>7. FinalizerUntilClosed'
  BY <1>2, <1>3 DEF PoolInv, FinalizerUntilClosed, Pool!Present
<1> QED  BY <1>4, <1>5, <1>6, <1>7 DEF PoolInv, PoolIsWhole

\* A task that loses its wrapper changes neither connections nor closings.
LEMMA PoolLetsGo ==
  ASSUME PoolInv, NEW t \in Task, NEW w \in Wrapper, Pool!LetsGo(t, w)
  PROVE  PoolInv'
<1>1. /\ Pool!Present(w) /\ idle' = idle /\ leaks' \in 0..MaxLeaks
      /\ wrapper' = [wrapper EXCEPT ![w] = [wrapper[w] EXCEPT !.holder = none]]
  BY BoundsAssumption DEF Pool!LetsGo, Pool!Holds, PoolInv, PoolIsWhole, Pool!TypeOK
<1>2. /\ wrapper'[w] = [wrapper[w] EXCEPT !.holder = none]
      /\ \A v \in Wrapper \ {w} : wrapper'[v] = wrapper[v]
  BY <1>1, OthersStay
<1>3. \A v \in Wrapper : /\ wrapper'[v].cnx = wrapper[v].cnx
                         /\ wrapper'[v].closed = wrapper[v].closed
                         /\ wrapper'[v].finalizer = wrapper[v].finalizer
  BY <1>2 DEF PoolInv, PoolIsWhole, Pool!TypeOK
<1>4. Pool!TypeOK'
  BY <1>1, <1>2, <1>3 DEF Pool!Present, PoolInv, PoolIsWhole, Pool!TypeOK
<1>5. Pool!NeverShared' /\ Pool!OnlyLeaksAreMissing' /\ FinalizerUntilClosed'
  BY <1>1, <1>3 DEF PoolInv, PoolIsWhole, Pool!NeverShared, Pool!OnlyLeaksAreMissing,
                    FinalizerUntilClosed, Pool!Present
<1> QED  BY <1>4, <1>5 DEF PoolInv, PoolIsWhole

\* Nothing refers to the wrapper, its finalizer included, so it has been closed before it goes.
LEMMA PoolCollects ==
  ASSUME PoolInv, NEW w \in Wrapper, Pool!Collects(w)
  PROVE  PoolInv'
<1>1. /\ Pool!Present(w) /\ ~wrapper[w].finalizer /\ idle' = idle /\ leaks' = leaks
      /\ wrapper' = [wrapper EXCEPT ![w] = Pool!Absent]
  BY DEF Pool!Collects, Pool!Reachable, Pool!KeptByFinalizer
<1>2. wrapper[w].closed
  BY <1>1 DEF PoolInv, FinalizerUntilClosed
<1>3. /\ wrapper'[w] = Pool!Absent
      /\ \A v \in Wrapper \ {w} : wrapper'[v] = wrapper[v]
  BY <1>1, OthersStay
<1>4. Pool!TypeOK'
  BY <1>1, <1>3 DEF Pool!Absent, PoolInv, PoolIsWhole, Pool!TypeOK
<1>5. Pool!NeverShared' /\ FinalizerUntilClosed'
  BY <1>1, <1>3 DEF PoolInv, PoolIsWhole, Pool!NeverShared, FinalizerUntilClosed,
                    Pool!Present, Pool!Absent
<1>6. Pool!OnlyLeaksAreMissing'
  BY <1>1, <1>2, <1>3 DEF PoolInv, PoolIsWhole, Pool!OnlyLeaksAreMissing
<1> QED  BY <1>4, <1>5, <1>6 DEF PoolInv, PoolIsWhole

LEMMA PoolNext == PoolInv /\ [Pool!Next]_(Pool!vars) => PoolInv'
<1> SUFFICES ASSUME PoolInv, [Pool!Next]_(Pool!vars) PROVE PoolInv'
  OBVIOUS
<1>1. CASE Pool!Next
  BY <1>1, PoolGets, PoolCloses, PoolLetsGo, PoolCollects DEF Pool!Next
<1>2. CASE UNCHANGED Pool!vars
  BY <1>2 DEF Pool!vars, PoolInv, PoolIsWhole, FinalizerUntilClosed, Pool!TypeOK,
              Pool!NeverShared, Pool!OnlyLeaksAreMissing, Pool!Present, Pool!Absent
<1> QED  BY <1>1, <1>2

\* "The connection is guaranteed to return to the pool exactly once": no connection is in the
\* pool and in a task's hands or in the hands of two, and none is missing but for a wrapper
\* that nobody closed, however often and by whom the others are closed.
THEOREM PoolIsWholeAlways == ServicesSpec => []PoolIsWhole
<1>1. ServicesInit => PoolInv
  BY PoolInit DEF ServicesInit
<1>2. PoolInv /\ [ServicesNext]_servicesVars => PoolInv'
  BY PoolNext, PoolSteps
<1>3. PoolInv => PoolIsWhole
  BY DEF PoolInv
<1> QED  BY <1>1, <1>2, <1>3, PTL DEF ServicesSpec

-----------------------------------------------------------------------------
(* The rollup cache: what is stored under a fingerprint.                      *)

\* The fields of a request and of an entry.
IsRequest(r) == r = [pc |-> r.pc, fp |-> r.fp, since |-> r.since, data |-> r.data]
IsEntry(e) == e = [data |-> e.data, fp |-> e.fp, young |-> e.young]

RollupShape ==
  /\ request = [t \in Thread |-> request[t]] /\ \A t \in Thread : IsRequest(request[t])
  /\ cache = [p \in Process |-> cache[p]] /\ \A p \in Process : IsEntry(cache[p])

\* What every request that came with the fingerprint f has seen the counts of; were it
\* the fingerprint of this moment, it would be that of d, unless f went and came back.
Fresh(d, f) ==
  f \in recurred \/
    /\ \A u \in Thread : request[u].pc = "asked" /\ request[u].fp = f
                         => Rollup!Fingerprint(d) \in request[u].since
    /\ Rollup!Fingerprint(d) = f \/ Rollup!Now # f

\* Cached entries are fresh, and so is what a request is about to store, in its own words
\* of before the rows were read.
CacheIsFresh ==
  /\ \A p \in Process :
       cache[p].data # unknown /\ cache[p].fp # unknown => Fresh(cache[p].data, cache[p].fp)
  /\ \A t \in Thread :
       /\ request[t].pc = "storing" => Rollup!Fingerprint(request[t].data) \in seen
       /\ request[t].pc = "storing" /\ request[t].fp # unknown
          => Fresh(request[t].data, request[t].fp)
       /\ request[t].pc = "asked" /\ request[t].fp # unknown => Rollup!Now \in request[t].since

RollupInv == RollupShape /\ Rollup!TypeOK /\ CacheIsFresh

\* The number of faults is the one thing the components share.
LEMMA FaultsStay ==
  ASSUME faults \in 0..MaxFaults, [ServicesNext]_servicesVars
  PROVE  faults' \in 0..MaxFaults /\ faults' \in {faults, faults + 1}
<1>1. MaxFaults \in Nat
  BY EmailAssumption
<1>2. CASE Next
  <2>1. faults' = faults \/ Fault
    <3>1. ASSUME NEW p \in Process, Works(p) PROVE faults' = faults
      BY <3>1 DEF Works, Takes, Decides, Sends, Records
    <3>2. ASSUME NEW p \in Process, Refused(p) \/ NotRecorded(p) \/ Crashes(p) PROVE Fault
      BY <3>2 DEF Refused, NotRecorded, Crashes
    <3>3. ASSUME NEW p \in Process, RequestsSweep(p) \/ \E o \in Object : Opens(p, o)
          PROVE  faults' = faults
      BY <3>3 DEF RequestsSweep, Opens
    <3>4. ASSUME NEW e \in Swept, NEW o \in Object, Happens(e, o) PROVE faults' = faults
      BY <3>4 DEF Happens
    <3>5. Passes => faults' = faults \/ Fault
      BY DEF Passes
    <3> QED  BY <1>2, <3>1, <3>2, <3>3, <3>4, <3>5 DEF Next
  <2> QED  BY <1>1, <2>1 DEF Fault
<1>3. CASE Group!Next
  <2>1. faults' = faults \/ Group!Fault
    <3>1. ASSUME NEW c \in Collector, Group!Begins(c) \/ Group!Fails(c)
          PROVE  faults' = faults \/ Group!Fault
      BY <3>1 DEF Group!Begins, Group!Fails
    <3>2. ASSUME NEW c \in Collector, NEW a \in Alert,
                 Group!Joins(c, a) \/ Group!Seeds(c, a) \/ Group!StandsAlone(c, a)
          PROVE  faults' = faults
      BY <3>2 DEF Group!Joins, Group!Seeds, Group!StandsAlone
    <3>3. ASSUME NEW c \in Collector, Group!Commits(c) \/ Group!Deadlocks(c)
          PROVE  faults' = faults
      BY <3>3 DEF Group!Commits, Group!Deadlocks
    <3>4. ASSUME NEW a \in Alert, \/ Group!Opens(a) \/ Group!Acknowledges(a)
                                 \/ Group!Withdraws(a) \/ Group!Closes(a)
          PROVE  faults' = faults
      BY <3>4 DEF Group!Opens, Group!Acknowledges, Group!Withdraws, Group!Closes, Group!Rest
    <3>5. Group!Passes => faults' = faults
      BY DEF Group!Passes
    <3> QED  BY <1>3, <3>1, <3>2, <3>3, <3>4, <3>5 DEF Group!Next, Group!Works
  <2> QED  BY <1>1, <2>1 DEF Group!Fault
<1>4. CASE Tiers!Next
  <2>1. faults' = faults \/ Tiers!Fault
    <3>1. ASSUME \/ Tiers!Wakes \/ Tiers!StandardStarts \/ Tiers!StandardNotDue
                 \/ Tiers!Sleeps \/ Tiers!Passes
          PROVE  faults' = faults
      BY <3>1 DEF Tiers!Wakes, Tiers!StandardStarts, Tiers!StandardNotDue, Tiers!Sleeps,
           Tiers!Passes
    <3>2. ASSUME \/ Tiers!ExtendedStarts \/ Tiers!ExtendedNotDue
                 \/ Tiers!SlowStarts \/ Tiers!SlowNotDue
          PROVE  faults' = faults
      BY <3>2 DEF Tiers!ExtendedStarts, Tiers!ExtendedNotDue, Tiers!SlowStarts, Tiers!SlowNotDue
    <3>3. ASSUME Tiers!StandardEnds \/ Tiers!ExtendedEnds \/ Tiers!SlowEnds
          PROVE  faults' = faults \/ Tiers!Fault
      BY <3>3 DEF Tiers!StandardEnds, Tiers!ExtendedEnds, Tiers!SlowEnds, Tiers!Recorded
    <3>4. Tiers!Restarts \/ Tiers!RestartsBlind => Tiers!Fault
      BY DEF Tiers!Restarts, Tiers!RestartsBlind
    <3> QED  BY <1>4, <3>1, <3>2, <3>3, <3>4 DEF Tiers!Next
  <2> QED  BY <1>1, <2>1 DEF Tiers!Fault
<1>5. CASE Rollup!Next
  <2>1. faults' = faults \/ Rollup!Fault
    BY <1>5 DEF Rollup!Next, Rollup!Asks, Rollup!Hits, Rollup!Misses, Rollup!Computes,
         Rollup!ComputeFails, Rollup!Stores, Rollup!Clears, Rollup!Expires, Rollup!Opens,
         Rollup!Worsens, Rollup!Acknowledges, Rollup!Resolves, Rollup!Syncs, Rollup!Committed
  <2> QED  BY <1>1, <2>1 DEF Rollup!Fault
<1>6. CASE Live!Next
  <2>1. ASSUME NEW s \in Socket, Live!Breaks(s) PROVE faults' = faults + 1 /\ faults < MaxFaults
    BY <2>1 DEF Live!Breaks
  <2>2. ASSUME NEW s \in Socket, Live!Connects(s) \/ Live!Disconnects(s) PROVE faults' = faults
    BY <2>2 DEF Live!Connects, Live!Disconnects
  <2>3. Live!Publishes \/ Live!Listens => faults' = faults
    BY DEF Live!Publishes, Live!Listens, Live!Starts, Live!Sends, Live!Ends
  <2> QED  BY <1>1, <1>6, <2>1, <2>2, <2>3 DEF Live!Next
<1>7. CASE UNCHANGED faults
  BY <1>7
<1> QED  BY <1>2, <1>3, <1>4, <1>5, <1>6, <1>7 DEF ServicesNext, servicesVars, vars

LEMMA RollupInit == ServicesInit => RollupInv
<1> SUFFICES ASSUME ServicesInit PROVE RollupInv
  OBVIOUS
<1>1. Rollup!Init
  BY DEF ServicesInit
<1>2. /\ cache = [p \in Process |-> Rollup!Empty] /\ request = [t \in Thread |-> Rollup!Idle]
      /\ recurred = {} /\ seen = {Rollup!Now} /\ writes = 0 /\ faults = 0
  BY <1>1 DEF Rollup!Init
<1>3. RollupShape
  BY <1>2 DEF RollupShape, Rollup!Empty, Rollup!Idle, IsRequest, IsEntry
<1>4. rows \in Rollup!Rows
  <2> DEFINE Asked == {[status |-> st, critical |-> FALSE, silenced |-> si] :
                       st \in {"none", "active"}, si \in BOOLEAN}
             One == [status: {"none", "active", "acknowledged", "resolved"},
                     critical: BOOLEAN, silenced: BOOLEAN]
  <2>1. rows \in [Counted -> Asked]
    BY <1>1 DEF Rollup!Init
  <2>2. ASSUME NEW r \in Asked PROVE r \in One
    <3>1. r.status \in {"none", "active"}
      OBVIOUS
    <3>2. r.silenced \in BOOLEAN
      OBVIOUS
    <3>3. r = [status |-> r.status, critical |-> r.critical, silenced |-> r.silenced]
      OBVIOUS
    <3>4. r.critical \in BOOLEAN
      <4>1. r.critical = FALSE
        OBVIOUS
      <4> HIDE DEF Asked
      <4> QED  BY <4>1
    <3> HIDE DEF Asked
    <3> QED  BY <3>1, <3>2, <3>3, <3>4
  <2> HIDE DEF Asked, One
  <2>3. rows \in [Counted -> One]
    BY <2>1, <2>2
  <2> QED  BY <2>3 DEF Rollup!Rows, One
<1>5. 0 \in 0..MaxWrites /\ 0 \in 0..MaxFaults
  BY EmailAssumption, BoundsAssumption
<1>6. Rollup!TypeOK
  BY <1>2, <1>4, <1>5 DEF Rollup!TypeOK, Rollup!Idle
<1>7. CacheIsFresh
  BY <1>2 DEF CacheIsFresh, Rollup!Empty, Rollup!Idle
<1> QED  BY <1>3, <1>6, <1>7 DEF RollupInv

\* A thread's step changes its own request.
LEMMA OneRequest ==
  ASSUME RollupShape, NEW t \in Thread, NEW r, IsRequest(r), request' = [request EXCEPT ![t] = r]
  PROVE  /\ request'[t] = r /\ \A u \in Thread \ {t} : request'[u] = request[u]
         /\ cache' = cache => RollupShape'
BY DEF RollupShape

\* What a step that writes no alert leaves as it is.
RowsStay ==
  /\ rows' = rows /\ recurred' = recurred /\ seen' = seen /\ writes' = writes
  /\ Rollup!Now' = Rollup!Now

LEMMA RowsStaySo == UNCHANGED Rollup!db => RowsStay
BY DEF RowsStay, Rollup!Now, Rollup!db

\* The request that Asks makes of a fingerprint it could read.
LEMMA AskedWith ==
  ASSUME NEW n, NEW S, NEW r, r = [Rollup!Idle EXCEPT !.pc = "asked", !.fp = n, !.since = S]
  PROVE  r.pc = "asked" /\ r.fp = n /\ r.since = S /\ r.data = unknown /\ IsRequest(r)
BY DEF Rollup!Idle, IsRequest

LEMMA RollupAsks ==
  ASSUME RollupInv, NEW t \in Thread, Rollup!Asks(t), faults' \in 0..MaxFaults
  PROVE  RollupInv'
<1>1. RowsStay /\ cache' = cache
  BY RowsStaySo DEF Rollup!Asks
<1>2. PICK r : /\ request' = [request EXCEPT ![t] = r] /\ IsRequest(r)
               /\ r.pc = "asked" /\ r.data = unknown
               /\ \/ r.fp = unknown /\ r.since = {}
                  \/ r.fp = Rollup!Now /\ r.since = {Rollup!Now}
  <2> DEFINE r1 == [Rollup!Idle EXCEPT !.pc = "asked", !.fp = Rollup!Now, !.since = {Rollup!Now}]
             r2 == [Rollup!Idle EXCEPT !.pc = "asked"]
  <2>1. /\ r1.pc = "asked" /\ r1.fp = Rollup!Now /\ r1.since = {Rollup!Now} /\ r1.data = unknown
        /\ IsRequest(r1)
    BY AskedWith
  <2>2. /\ r2.pc = "asked" /\ r2.fp = unknown /\ r2.since = {} /\ r2.data = unknown
        /\ IsRequest(r2)
    BY DEF Rollup!Idle, IsRequest
  <2>3. request' = [request EXCEPT ![t] = r1] \/ request' = [request EXCEPT ![t] = r2]
    BY DEF Rollup!Asks
  <2> HIDE DEF r1, r2
  <2> QED  BY <2>1, <2>2, <2>3
<1>3. /\ request'[t] = r /\ \A u \in Thread \ {t} : request'[u] = request[u]
      /\ RollupShape'
  BY <1>1, <1>2, OneRequest DEF RollupInv
<1>4. Rollup!Now \in seen
  BY DEF RollupInv, Rollup!TypeOK
<1>5. Rollup!TypeOK'
  BY <1>1, <1>2, <1>3, <1>4 DEF RollupInv, Rollup!TypeOK, RowsStay
<1>6. ASSUME NEW d, NEW g, g # unknown, Fresh(d, g) PROVE Fresh(d, g)'
  BY <1>1, <1>2, <1>3, <1>6 DEF Fresh, RowsStay
<1>7. CacheIsFresh'
  BY <1>1, <1>2, <1>3, <1>6 DEF RollupInv, CacheIsFresh, RowsStay
<1> QED  BY <1>3, <1>5, <1>7 DEF RollupInv

\* A request that ends, or goes on to compute, has nothing to say about fingerprints.
LEMMA RequestLeaves ==
  ASSUME RollupInv, NEW t \in Thread, NEW r, IsRequest(r), request' = [request EXCEPT ![t] = r],
         r.pc \in {"idle", "computing"}, r.fp \in seen \cup {unknown}, r.since = {},
         r.data = unknown, RowsStay, cache' = cache, faults' \in 0..MaxFaults
  PROVE  RollupInv'
<1>1. /\ request'[t] = r /\ \A u \in Thread \ {t} : request'[u] = request[u]
      /\ RollupShape'
  BY OneRequest DEF RollupInv
<1>2. Rollup!TypeOK'
  BY <1>1 DEF RollupInv, Rollup!TypeOK, RowsStay
<1>3. ASSUME NEW d, NEW g, Fresh(d, g) PROVE Fresh(d, g)'
  BY <1>1, <1>3 DEF Fresh, RowsStay
<1>4. CacheIsFresh'
  BY <1>1, <1>3 DEF RollupInv, CacheIsFresh, RowsStay
<1> QED  BY <1>1, <1>2, <1>4 DEF RollupInv

LEMMA RollupHits ==
  ASSUME RollupInv, NEW t \in Thread, Rollup!Hits(t) \/ Rollup!ComputeFails(t),
         faults' \in 0..MaxFaults
  PROVE  RollupInv'
<1>1. RowsStay /\ cache' = cache /\ request' = [request EXCEPT ![t] = Rollup!Idle]
  BY RowsStaySo DEF Rollup!Hits, Rollup!ComputeFails
<1>2. /\ IsRequest(Rollup!Idle) /\ Rollup!Idle.pc = "idle" /\ Rollup!Idle.fp = unknown
      /\ Rollup!Idle.since = {} /\ Rollup!Idle.data = unknown
  BY DEF Rollup!Idle, IsRequest
<1> QED  BY <1>1, <1>2, RequestLeaves

LEMMA RollupMisses ==
  ASSUME RollupInv, NEW t \in Thread, Rollup!Misses(t), faults' \in 0..MaxFaults
  PROVE  RollupInv'
<1> DEFINE r == [request[t] EXCEPT !.pc = "computing", !.since = {}]
<1>1. RowsStay /\ cache' = cache /\ request[t].pc = "asked"
  BY RowsStaySo DEF Rollup!Misses
<1>2. request' = [request EXCEPT ![t] = r]
  BY DEF Rollup!Misses, RollupInv, RollupShape
<1>3. IsRequest(request[t])
  BY DEF RollupInv, RollupShape
<1>r. r = [request[t] EXCEPT !.pc = "computing", !.since = {}]
  OBVIOUS
<1> HIDE DEF r
<1>4. /\ IsRequest(r) /\ r.pc = "computing" /\ r.fp = request[t].fp /\ r.since = {}
      /\ r.data = request[t].data
  <2> DEFINE q == request[t]
  <2>1. IsRequest(q)
    BY <1>3
  <2>2. r = [q EXCEPT !.pc = "computing", !.since = {}]
    BY <1>r
  <2> HIDE DEF q
  <2>3. IsRequest(r) /\ r.pc = "computing" /\ r.fp = q.fp /\ r.since = {} /\ r.data = q.data
    BY <2>1, <2>2 DEF IsRequest
  <2> QED  BY <2>3 DEF q
<1>5. request[t].data = unknown /\ request[t].fp \in seen \cup {unknown}
  BY <1>1 DEF RollupInv, Rollup!TypeOK
<1> QED  BY <1>1, <1>2, <1>4, <1>5, RequestLeaves

\* The rows are read after the fingerprint: whoever asked with it since has been told of
\* the rows of this moment.
LEMMA RollupComputes ==
  ASSUME RollupInv, NEW t \in Thread, Rollup!Computes(t), faults' \in 0..MaxFaults
  PROVE  RollupInv'
<1> DEFINE r == [request[t] EXCEPT !.pc = "storing", !.data = Rollup!OpenRows(rows)]
<1>1. RowsStay /\ cache' = cache /\ request[t].pc = "computing"
  BY RowsStaySo DEF Rollup!Computes
<1>2. request' = [request EXCEPT ![t] = r]
  BY DEF Rollup!Computes, RollupInv, RollupShape
<1>3. IsRequest(request[t])
  BY DEF RollupInv, RollupShape
<1>r. r = [request[t] EXCEPT !.pc = "storing", !.data = Rollup!OpenRows(rows)]
  OBVIOUS
<1> HIDE DEF r
<1>4. /\ IsRequest(r) /\ r.pc = "storing" /\ r.fp = request[t].fp /\ r.since = request[t].since
      /\ r.data = Rollup!OpenRows(rows)
  <2> DEFINE q == request[t]
  <2>1. IsRequest(q)
    BY <1>3
  <2>2. r = [q EXCEPT !.pc = "storing", !.data = Rollup!OpenRows(rows)]
    BY <1>r
  <2> HIDE DEF q
  <2>3. /\ IsRequest(r) /\ r.pc = "storing" /\ r.fp = q.fp /\ r.since = q.since
        /\ r.data = Rollup!OpenRows(rows)
    BY <2>1, <2>2 DEF IsRequest
  <2> QED  BY <2>3 DEF q
<1>5. /\ request'[t] = r /\ \A u \in Thread \ {t} : request'[u] = request[u]
      /\ RollupShape'
  BY <1>1, <1>2, <1>4, OneRequest DEF RollupInv
<1>6. r.data # unknown /\ Rollup!Fingerprint(r.data) = Rollup!Now
  BY <1>4, RollupAssumption DEF RollupInv, Rollup!TypeOK, Rollup!Now
<1>7. Rollup!Now \in seen /\ r.fp \in seen \cup {unknown} /\ r.since \subseteq seen
  BY <1>4 DEF RollupInv, Rollup!TypeOK
<1>8. Rollup!TypeOK'
  BY <1>1, <1>4, <1>5, <1>6, <1>7 DEF RollupInv, Rollup!TypeOK, RowsStay
<1>9. ASSUME NEW d, NEW g, Fresh(d, g) PROVE Fresh(d, g)'
  BY <1>1, <1>4, <1>5, <1>9 DEF Fresh, RowsStay
<1>10. r.fp # unknown => Fresh(r.data, r.fp)
  BY <1>6 DEF Fresh, RollupInv, CacheIsFresh
<1>11. CacheIsFresh'
  BY <1>1, <1>4, <1>5, <1>6, <1>7, <1>9, <1>10 DEF RollupInv, CacheIsFresh, RowsStay
<1> QED  BY <1>5, <1>8, <1>11 DEF RollupInv

LEMMA RollupStores ==
  ASSUME RollupInv, NEW t \in Thread, Rollup!Stores(t), faults' \in 0..MaxFaults
  PROVE  RollupInv'
<1> DEFINE e == [data |-> request[t].data, fp |-> request[t].fp, young |-> TRUE]
<1>1. RowsStay /\ request[t].pc = "storing" /\ request' = [request EXCEPT ![t] = Rollup!Idle]
  BY RowsStaySo DEF Rollup!Stores, Rollup!db, RowsStay, Rollup!Now
<1>2. /\ IsRequest(Rollup!Idle) /\ Rollup!Idle.pc = "idle" /\ Rollup!Idle.fp = unknown
      /\ Rollup!Idle.since = {} /\ Rollup!Idle.data = unknown
  BY DEF Rollup!Idle, IsRequest
<1>3. request'[t] = Rollup!Idle /\ \A u \in Thread \ {t} : request'[u] = request[u]
  BY <1>1, <1>2, OneRequest DEF RollupInv
<1>4. Home[t] \in Process
  BY RollupAssumption
<1>5. /\ cache'[Home[t]] = e /\ \A p \in Process \ {Home[t]} : cache'[p] = cache[p]
      /\ cache' = [p \in Process |-> cache'[p]]
  BY <1>4 DEF Rollup!Stores, RollupInv, RollupShape
<1>6. /\ IsEntry(e) /\ e.data = request[t].data /\ e.fp = request[t].fp /\ e.young = TRUE
  BY DEF IsEntry
<1> HIDE DEF e
<1>7. RollupShape'
  BY <1>1, <1>2, <1>3, <1>5, <1>6 DEF RollupInv, RollupShape
<1>8. /\ e.data # unknown /\ Rollup!Fingerprint(e.data) \in seen /\ e.fp \in seen \cup {unknown}
  BY <1>1, <1>6 DEF RollupInv, Rollup!TypeOK, CacheIsFresh
<1>9. e.young \in BOOLEAN
  BY <1>6
<1>10. Rollup!TypeOK'
  BY <1>1, <1>2, <1>3, <1>5, <1>8, <1>9 DEF RollupInv, Rollup!TypeOK, RowsStay
<1>11. ASSUME NEW d, NEW g, Fresh(d, g) PROVE Fresh(d, g)'
  BY <1>1, <1>2, <1>3, <1>11 DEF Fresh, RowsStay
<1>12. e.fp # unknown => Fresh(e.data, e.fp)
  BY <1>1, <1>6 DEF RollupInv, CacheIsFresh
<1>13. CacheIsFresh'
  BY <1>1, <1>2, <1>3, <1>5, <1>11, <1>12 DEF RollupInv, CacheIsFresh, RowsStay
<1> QED  BY <1>7, <1>10, <1>13 DEF RollupInv

LEMMA RollupClears ==
  ASSUME RollupInv, NEW p \in Process, Rollup!Clears(p) \/ Rollup!Expires(p),
         faults' \in 0..MaxFaults
  PROVE  RollupInv'
<1>1. RowsStay /\ request' = request
  BY RowsStaySo DEF Rollup!Clears, Rollup!Expires
<1>2. PICK e : /\ cache' = [cache EXCEPT ![p] = e] /\ IsEntry(e)
               /\ e = Rollup!Empty \/ (e = [cache[p] EXCEPT !.young = FALSE] /\ cache[p].young)
  BY DEF Rollup!Clears, Rollup!Expires, Rollup!Empty, RollupInv, RollupShape, IsEntry
<1>3. /\ cache'[p] = e /\ \A q \in Process \ {p} : cache'[q] = cache[q]
      /\ cache' = [q \in Process |-> cache'[q]]
  BY <1>2 DEF RollupInv, RollupShape
<1>4. RollupShape'
  BY <1>1, <1>2, <1>3 DEF RollupInv, RollupShape
<1>5. CASE e = Rollup!Empty
  <2>1. Rollup!Empty.data = unknown
    BY DEF Rollup!Empty
  <2>2. Rollup!TypeOK'
    BY <1>1, <1>3, <1>5 DEF RollupInv, Rollup!TypeOK, RowsStay, Rollup!Empty
  <2>3. CacheIsFresh'
    BY <1>1, <1>3, <1>5, <2>1 DEF RollupInv, CacheIsFresh, Fresh, RowsStay
  <2> QED  BY <1>4, <2>2, <2>3 DEF RollupInv
<1>6. CASE e = [cache[p] EXCEPT !.young = FALSE] /\ cache[p].young
  <2>1. cache[p] # Rollup!Empty
    BY <1>6 DEF Rollup!Empty
  <2>2. e.data = cache[p].data /\ e.fp = cache[p].fp
    BY <1>6 DEF RollupInv, RollupShape, IsEntry
  <2>3. e.young = FALSE
    BY <1>6 DEF RollupInv, RollupShape, IsEntry
  <2>4. e.young \in BOOLEAN
    BY <2>3
  <2>5. Rollup!TypeOK'
    BY <1>1, <1>3, <2>1, <2>2, <2>4 DEF RollupInv, Rollup!TypeOK, RowsStay
  <2>6. CacheIsFresh'
    BY <1>1, <1>3, <2>2 DEF RollupInv, CacheIsFresh, Fresh, RowsStay
  <2> QED  BY <1>4, <2>5, <2>6 DEF RollupInv
<1> QED  BY <1>2, <1>5, <1>6

\* A request that has asked is told of a fingerprint.
LEMMA TellsOf ==
  ASSUME NEW q, IsRequest(q), NEW S, NEW r, r = [q EXCEPT !.since = S]
  PROVE  /\ IsRequest(r) /\ r.pc = q.pc /\ r.since = S /\ r.fp = q.fp /\ r.data = q.data
BY DEF IsRequest

\* A commit moves the fingerprint: to one that has been before, and then it is no longer
\* told apart, or to a new one, which no entry bears.
LEMMA RollupCommits ==
  ASSUME RollupInv, Rollup!Committed, rows' \in Rollup!Rows
  PROVE  RollupInv'
<1> DEFINE fp == Rollup!Fingerprint(Rollup!OpenRows(rows'))
<1>1. /\ writes < MaxWrites /\ writes' = writes + 1
      /\ recurred' = IF fp # Rollup!Now /\ fp \in seen THEN recurred \cup {fp} ELSE recurred
      /\ seen' = seen \cup {fp}
      /\ cache' = cache /\ faults' = faults
      /\ request' = [t \in Thread |->
                       IF request[t].pc = "asked" THEN [request[t] EXCEPT !.since = @ \cup {fp}]
                       ELSE request[t]]
  BY DEF Rollup!Committed
<1>2. Rollup!Now' = fp
  BY DEF Rollup!Now
<1> HIDE DEF fp
<1>3. \A t \in Thread : /\ IsRequest(request'[t]) /\ request'[t].pc = request[t].pc
                        /\ request'[t].fp = request[t].fp /\ request'[t].data = request[t].data
                        /\ request'[t].since = IF request[t].pc = "asked"
                                               THEN request[t].since \cup {fp}
                                               ELSE request[t].since
  <2> SUFFICES ASSUME NEW t \in Thread
               PROVE  /\ IsRequest(request'[t]) /\ request'[t].pc = request[t].pc
                      /\ request'[t].fp = request[t].fp /\ request'[t].data = request[t].data
                      /\ request'[t].since = IF request[t].pc = "asked"
                                             THEN request[t].since \cup {fp}
                                             ELSE request[t].since
    OBVIOUS
  <2>1. IsRequest(request[t])
    BY DEF RollupInv, RollupShape
  <2>2. request'[t] = IF request[t].pc = "asked"
                      THEN [request[t] EXCEPT !.since = request[t].since \cup {fp}]
                      ELSE request[t]
    BY <1>1
  <2> QED  BY <2>1, <2>2, TellsOf
<1>4. RollupShape'
  BY <1>1, <1>3 DEF RollupInv, RollupShape
<1>5. writes' \in 0..MaxWrites
  BY <1>1, BoundsAssumption DEF RollupInv, Rollup!TypeOK
<1>6. Rollup!TypeOK'
  BY <1>1, <1>2, <1>3, <1>5 DEF RollupInv, Rollup!TypeOK
<1>7. ASSUME NEW d, NEW g \in seen, Fresh(d, g) PROVE Fresh(d, g)'
  BY <1>1, <1>2, <1>3, <1>7 DEF Fresh
<1>8. CacheIsFresh'
  <2>1. \A p \in Process : cache[p].data # unknown /\ cache[p].fp # unknown => cache[p].fp \in seen
    BY DEF RollupInv, Rollup!TypeOK, Rollup!Empty
  <2>2. \A t \in Thread : request[t].fp # unknown => request[t].fp \in seen
    BY DEF RollupInv, Rollup!TypeOK
  <2> QED  BY <1>1, <1>2, <1>3, <1>7, <2>1, <2>2 DEF RollupInv, CacheIsFresh
<1> QED  BY <1>4, <1>6, <1>8 DEF RollupInv

\* What the evaluator, users and the maintenance sync write are rows.
LEMMA RollupWrites ==
  ASSUME RollupInv, \/ \E a \in Counted : \/ Rollup!Opens(a) \/ Rollup!Worsens(a)
                                           \/ Rollup!Acknowledges(a) \/ Rollup!Resolves(a)
                    \/ Rollup!Syncs
  PROVE  RollupInv'
<1> DEFINE One == [status: {"none", "active", "acknowledged", "resolved"},
                   critical: BOOLEAN, silenced: BOOLEAN]
<1>1. rows \in [Counted -> One]
  BY DEF RollupInv, Rollup!TypeOK, Rollup!Rows
<1>2. ASSUME NEW a \in Counted, Rollup!Opens(a) PROVE rows' \in [Counted -> One]
  <2>1. PICK v \in BOOLEAN, c \in BOOLEAN :
          rows' = [rows EXCEPT ![a] = [status |-> "active", critical |-> c, silenced |-> v]]
    BY <1>2 DEF Rollup!Opens
  <2> QED  BY <1>1, <2>1
<1>3. ASSUME NEW a \in Counted, Rollup!Worsens(a) PROVE rows' \in [Counted -> One]
  BY <1>1, <1>3 DEF Rollup!Worsens
<1>4. ASSUME NEW a \in Counted, Rollup!Acknowledges(a) \/ Rollup!Resolves(a)
      PROVE  rows' \in [Counted -> One]
  BY <1>1, <1>4 DEF Rollup!Acknowledges, Rollup!Resolves
<1>5. ASSUME Rollup!Syncs PROVE rows' \in [Counted -> One]
  <2>1. PICK covered \in SUBSET Counted :
          rows' = [a \in Counted |->
                    IF rows[a].status \in {"active", "acknowledged"}
                    THEN [rows[a] EXCEPT !.silenced = (a \in covered)] ELSE rows[a]]
    BY <1>5 DEF Rollup!Syncs
  <2>2. ASSUME NEW a \in Counted, NEW r \in One, NEW b \in BOOLEAN
        PROVE  [r EXCEPT !.silenced = b] \in One
    BY <2>2
  <2>3. \A a \in Counted : (a \in covered) \in BOOLEAN /\ rows[a] \in One
    BY <1>1
  <2> HIDE DEF One
  <2> QED  BY <2>1, <2>2, <2>3
<1>6. rows' \in Rollup!Rows
  BY <1>2, <1>3, <1>4, <1>5 DEF Rollup!Rows
<1>7. Rollup!Committed
  BY DEF Rollup!Opens, Rollup!Worsens, Rollup!Acknowledges, Rollup!Resolves, Rollup!Syncs
<1> QED  BY <1>6, <1>7, RollupCommits

LEMMA RollupNext ==
  ASSUME RollupInv, [ServicesNext]_servicesVars
  PROVE  RollupInv'
<1>1. faults' \in 0..MaxFaults
  BY FaultsStay DEF RollupInv, Rollup!TypeOK
<1>2. CASE Rollup!Next
  BY <1>1, <1>2, RollupAsks, RollupHits, RollupMisses, RollupComputes, RollupStores, RollupClears,
     RollupWrites DEF Rollup!Next
<1>3. CASE UNCHANGED ofRollup
  <2>1. RowsStay /\ cache' = cache /\ request' = request
    BY <1>3 DEF ofRollup, RowsStay, Rollup!Now
  <2>2. Rollup!TypeOK'
    BY <1>1, <2>1 DEF RollupInv, Rollup!TypeOK, RowsStay
  <2>3. RollupShape' /\ CacheIsFresh'
    BY <2>1 DEF RollupInv, RollupShape, CacheIsFresh, Fresh, RowsStay
  <2> QED  BY <2>2, <2>3 DEF RollupInv
<1> QED  BY <1>2, <1>3, RollupSteps DEF Rollup!vars, ofRollup

\* "A write that lands mid-compute makes the next request recompute": whatever is answered
\* from a process's cache has the counts the alerts had at some moment of that request, for
\* any number of processes, threads and writes, unless the fingerprint went and came back.
THEOREM CountsAreCurrentAlways == ServicesSpec => CountsAreCurrent
<1>1. ASSUME RollupInv, [ServicesNext]_servicesVars
      PROVE  [\A t \in Thread :
                Rollup!Hits(t) /\ request[t].fp # unknown /\ request[t].fp \notin recurred
                => Rollup!Fingerprint(Rollup!Entry(t).data) \in request[t].since]_(Rollup!vars)
  <2> SUFFICES ASSUME NEW t \in Thread, Rollup!Hits(t), request[t].fp # unknown,
                      request[t].fp \notin recurred
               PROVE  Rollup!Fingerprint(Rollup!Entry(t).data) \in request[t].since
    OBVIOUS
  <2>1. Home[t] \in Process
    BY RollupAssumption
  <2>2. /\ request[t].pc = "asked" /\ Rollup!Entry(t) = cache[Home[t]]
        /\ cache[Home[t]].data # unknown /\ request[t].fp = cache[Home[t]].fp
    BY DEF Rollup!Hits, Rollup!Valid, Rollup!Entry
  <2> QED  BY <1>1, <2>1, <2>2 DEF RollupInv, CacheIsFresh, Fresh
<1>2. RollupInv => Rollup!TypeOK
  BY DEF RollupInv
<1> QED  BY RollupInit, RollupNext, <1>1, <1>2, PTL
         DEF ServicesSpec, CountsAreCurrent, Rollup!CountsAreCurrent

-----------------------------------------------------------------------------
(* Incidents: what a pass works with agrees with what is committed.           *)

\* With the alerts as they are in t, an incident is a cascade as severe as its worst member,
\* all of whose members have opened.
Sound(row, t) ==
  /\ \A a \in row.members :
       /\ t[a].status # "none" /\ Group!Near(row.start, t[a].at)
       /\ \E b \in row.members : {a, b} \in Connected
  /\ row.critical <=> row.members \cap CriticalAlert # {}

\* A pass sees alerts that have opened as they opened, works on active ones, and its copies
\* of incidents start when the incidents do.
PassSound(q, t, rs) ==
  /\ \A i \in DOMAIN q.rows : Sound(q.rows[i], t)
  /\ q.old <= Len(q.rows)
  /\ \A i \in 1..q.old : q.rows[i].start = rs[i].start
  /\ \A a \in Alert : q.seen[a].status # "none" => t[a].status # "none" /\ t[a].at = q.seen[a].at
  /\ \A a \in q.todo : q.seen[a].status = "active"

PassTyped(q, rs) ==
  /\ q.on /\ q.todo \subseteq Alert
  /\ q.seen \in [Alert -> Group!Alerts] /\ q.rows \in Seq(Group!IncidentRows)
  /\ q.old \in 0..Len(rs) /\ q.joined \subseteq 1..q.old

\* A record of a pass, field by field.
IsPass(q) ==
  q = [on |-> q.on, todo |-> q.todo, seen |-> q.seen, rows |-> q.rows, old |-> q.old,
       joined |-> q.joined]

\* A pass is idle, or at work in good order.
PassOK(q, t, rs) ==
  /\ IsPass(q)
  /\ q = Group!Idle \/ (PassTyped(q, rs) /\ PassSound(q, t, rs))

GroupInv ==
  /\ Group!TypeOK
  /\ \A i \in DOMAIN incident : Sound(incident[i], alert)
  /\ pass = [c \in Collector |-> pass[c]]
  /\ \A c \in Collector : PassOK(pass[c], alert, incident)

LEMMA GroupInit == ServicesInit => GroupInv
<1> SUFFICES ASSUME Group!Init PROVE GroupInv
  BY DEF ServicesInit
<1>1. /\ clock = 0 /\ incident = <<>> /\ acks = 0 /\ faults = 0
      /\ alert = [a \in Alert |-> [status |-> "none", at |-> 0]]
      /\ pass = [c \in Collector |-> Group!Idle]
  BY DEF Group!Init
<1>2. 0 \in 0..MaxClock /\ 0 \in 0..MaxAcks /\ 0 \in 0..MaxFaults
  BY EmailAssumption, BoundsAssumption
<1>3. alert \in [Alert -> Group!Alerts]
  BY <1>1, <1>2 DEF Group!Alerts
<1>4. Group!TypeOK
  BY <1>1, <1>2, <1>3 DEF Group!TypeOK
<1>5. PassOK(Group!Idle, alert, incident)
  BY DEF PassOK, IsPass, Group!Idle
<1> QED  BY <1>1, <1>4, <1>5 DEF GroupInv

\* An alert opens once: what has opened stays so, and began when it did.
Later(t, u) ==
  \A a \in Alert : t[a].status # "none" => u[a].status # "none" /\ u[a].at = t[a].at

LEMMA SoundLater ==
  ASSUME NEW t, NEW u, Later(t, u), NEW row \in Group!IncidentRows, Sound(row, t)
  PROVE  Sound(row, u)
BY DEF Later, Sound, Group!IncidentRows

LEMMA PassLater ==
  ASSUME NEW t, NEW u, Later(t, u), NEW rs, NEW q, PassOK(q, t, rs)
  PROVE  PassOK(q, u, rs)
<1> SUFFICES ASSUME PassTyped(q, rs), PassSound(q, t, rs) PROVE PassSound(q, u, rs)
  BY DEF PassOK
<1>1. \A i \in DOMAIN q.rows : q.rows[i] \in Group!IncidentRows
  BY DEF PassTyped
<1>2. \A i \in DOMAIN q.rows : Sound(q.rows[i], u)
  BY <1>1, SoundLater DEF PassSound
<1>3. \A a \in Alert : q.seen[a].status # "none" => u[a].status # "none" /\ u[a].at = q.seen[a].at
  BY DEF PassSound, Later
<1> QED  BY <1>2, <1>3 DEF PassSound

\* The evaluator, users and time.
LEMMA GroupWorld ==
  ASSUME GroupInv, alert' \in [Alert -> Group!Alerts], Later(alert, alert'),
         incident' = incident, pass' = pass,
         clock' \in 0..MaxClock, acks' \in 0..MaxAcks, faults' \in 0..MaxFaults
  PROVE  GroupInv'
<1>1. \A c \in Collector : PassOK(pass[c], alert', incident)
  BY PassLater DEF GroupInv
<1>2. Group!TypeOK'
  BY DEF GroupInv, Group!TypeOK
<1>3. \A i \in DOMAIN incident : incident[i] \in Group!IncidentRows
  BY DEF GroupInv, Group!TypeOK
<1>4. \A i \in DOMAIN incident : Sound(incident[i], alert')
  BY <1>3, SoundLater DEF GroupInv
<1> QED  BY <1>1, <1>2, <1>4 DEF GroupInv

\* A step of one pass, short of its commit.
LEMMA GroupPass ==
  ASSUME GroupInv, NEW c \in Collector, PassOK(pass'[c], alert, incident),
         \A d \in Collector \ {c} : pass'[d] = pass[d], pass' = [d \in Collector |-> pass'[d]],
         UNCHANGED <<clock, alert, acks, incident>>, faults' \in 0..MaxFaults
  PROVE  GroupInv'
<1>1. \A d \in Collector : PassOK(pass'[d], alert, incident)
  BY DEF GroupInv
<1>2. \A d \in Collector : \/ pass'[d] = Group!Idle
                          \/ PassTyped(pass'[d], incident)
  BY <1>1 DEF PassOK
<1>3. Group!TypeOK'
  BY <1>2 DEF GroupInv, Group!TypeOK, PassTyped
<1> QED  BY <1>1, <1>3 DEF GroupInv

LEMMA GroupIdle ==
  ASSUME GroupInv, NEW c \in Collector, pass' = [pass EXCEPT ![c] = Group!Idle],
         UNCHANGED <<clock, alert, acks, incident>>, faults' \in 0..MaxFaults
  PROVE  GroupInv'
<1>1. PassOK(Group!Idle, alert, incident)
  BY DEF PassOK, IsPass, Group!Idle
<1>2. /\ pass'[c] = Group!Idle /\ pass' = [d \in Collector |-> pass'[d]]
      /\ \A d \in Collector \ {c} : pass'[d] = pass[d]
  BY DEF GroupInv
<1> QED  BY <1>1, <1>2, GroupPass

\* The first SELECT of a pass.
LEMMA GroupBegins ==
  ASSUME GroupInv, NEW c \in Collector, Group!Begins(c), faults' \in 0..MaxFaults
  PROVE  GroupInv'
<1> DEFINE q == [Group!Idle EXCEPT !.on = TRUE, !.todo = Group!Loose, !.seen = alert,
                                   !.rows = incident, !.old = Len(incident)]
<1>1. pass' = [pass EXCEPT ![c] = q] /\ UNCHANGED <<clock, alert, acks, incident>>
  BY DEF Group!Begins, Group!World
<1>2. /\ IsPass(q)
      /\ q.on /\ q.todo = Group!Loose /\ q.seen = alert /\ q.rows = incident
      /\ q.old = Len(incident) /\ q.joined = {}
  <2> DEFINE todo == Group!Loose
             n == Len(incident)
  <2>1. q = [Group!Idle EXCEPT !.on = TRUE, !.todo = todo, !.seen = alert, !.rows = incident,
                               !.old = n]
    OBVIOUS
  <2> HIDE DEF q, todo, n
  <2>2. /\ IsPass(q)
        /\ q.on /\ q.todo = todo /\ q.seen = alert /\ q.rows = incident
        /\ q.old = n /\ q.joined = {}
    BY <2>1 DEF Group!Idle, IsPass
  <2> QED  BY <2>2 DEF todo, n
<1> HIDE DEF q
<1>3. /\ alert \in [Alert -> Group!Alerts] /\ incident \in Seq(Group!IncidentRows)
  BY DEF GroupInv, Group!TypeOK
<1>4. Group!Loose \subseteq Alert /\ \A a \in Group!Loose : alert[a].status = "active"
  BY DEF Group!Loose
<1>5. PassTyped(q, incident)
  BY <1>2, <1>3, <1>4 DEF PassTyped
<1>6. PassSound(q, alert, incident)
  BY <1>2, <1>3, <1>4 DEF PassSound, GroupInv
<1>7. PassOK(q, alert, incident)
  BY <1>2, <1>5, <1>6 DEF PassOK
<1>8. /\ pass'[c] = q /\ pass' = [d \in Collector |-> pass'[d]]
      /\ \A d \in Collector \ {c} : pass'[d] = pass[d]
  BY <1>1 DEF GroupInv
<1> QED  BY <1>1, <1>7, <1>8, GroupPass

\* A pass at work.
LEMMA AtWork ==
  ASSUME GroupInv, NEW c \in Collector, pass[c].on
  PROVE  PassTyped(pass[c], incident) /\ PassSound(pass[c], alert, incident)
BY DEF GroupInv, PassOK, Group!Idle

LEMMA GroupStandsAlone ==
  ASSUME GroupInv, NEW c \in Collector, NEW a \in Alert, Group!StandsAlone(c, a)
  PROVE  GroupInv'
<1> DEFINE q == pass[c]
<1>1. PassTyped(q, incident) /\ PassSound(q, alert, incident) /\ a \in q.todo
  BY AtWork DEF Group!StandsAlone
<1>2. /\ pass' = [pass EXCEPT ![c].todo = @ \ {a}]
      /\ UNCHANGED <<clock, alert, acks, incident, faults>>
  BY DEF Group!StandsAlone, Group!World
<1>3. /\ pass'[c] = [on |-> q.on, todo |-> pass'[c].todo, seen |-> q.seen, rows |-> q.rows,
                     old |-> q.old, joined |-> q.joined]
      /\ pass'[c].todo = q.todo \ {a}
      /\ pass' = [d \in Collector |-> pass'[d]] /\ \A d \in Collector \ {c} : pass'[d] = pass[d]
  <2> DEFINE new == [q EXCEPT !.todo = q.todo \ {a}]
  <2>1. pass' = [pass EXCEPT ![c] = new]
    BY <1>2 DEF GroupInv
  <2>2. q = [on |-> q.on, todo |-> q.todo, seen |-> q.seen, rows |-> q.rows, old |-> q.old,
            joined |-> q.joined]
    BY DEF GroupInv, PassOK, IsPass
  <2> HIDE DEF q
  <2>3. /\ new = [on |-> new.on, todo |-> new.todo, seen |-> new.seen, rows |-> new.rows,
                  old |-> new.old, joined |-> new.joined]
        /\ new.on = q.on /\ new.todo = q.todo \ {a} /\ new.seen = q.seen /\ new.rows = q.rows
        /\ new.old = q.old /\ new.joined = q.joined
    BY <2>2
  <2> HIDE DEF new
  <2>4. /\ pass'[c] = new /\ pass' = [d \in Collector |-> pass'[d]]
        /\ \A d \in Collector \ {c} : pass'[d] = pass[d]
    BY <2>1 DEF GroupInv
  <2> QED  BY <2>3, <2>4, <1>1 DEF PassTyped
<1> HIDE DEF q
<1>4. PassTyped(pass'[c], incident) /\ PassSound(pass'[c], alert, incident)
  BY <1>1, <1>3 DEF PassTyped, PassSound
<1>5. PassOK(pass'[c], alert, incident)
  BY <1>3, <1>4 DEF PassOK, IsPass
<1> QED  BY <1>2, <1>3, <1>5, GroupPass DEF GroupInv, Group!TypeOK

\* What a pass changes when it joins an alert to an incident, and when it starts one.
HasJoined(r, q, a, i) ==
  /\ IsPass(r)
  /\ r.on = q.on /\ r.seen = q.seen /\ r.old = q.old
  /\ r.todo = q.todo \ {a} /\ r.rows = [q.rows EXCEPT ![i] = Group!Grown(q.rows[i], a)]
  /\ r.joined = IF i <= q.old THEN q.joined \cup {i} ELSE q.joined

HasSeeded(r, q, a, b) ==
  /\ IsPass(r)
  /\ r.on = q.on /\ r.seen = q.seen /\ r.old = q.old /\ r.joined = q.joined
  /\ r.todo = q.todo \ {a} /\ r.rows = Append(q.rows, Group!Seed(a, b, q.seen))

LEMMA JoinedIs ==
  ASSUME NEW q, IsPass(q), NEW a, NEW i
  PROVE  HasJoined(Group!Joined(q, a, i), q, a, i)
<1> DEFINE T == q.todo \ {a}
           R == [q.rows EXCEPT ![i] = Group!Grown(q.rows[i], a)]
           J == IF i <= q.old THEN q.joined \cup {i} ELSE q.joined
           r == Group!Joined(q, a, i)
<1>1. r = [q EXCEPT !.todo = T, !.rows = R, !.joined = J]
  BY DEF Group!Joined
<1> HIDE DEF T, R, J, r
<1>2. /\ IsPass(r) /\ r.on = q.on /\ r.seen = q.seen /\ r.old = q.old
      /\ r.todo = T /\ r.rows = R /\ r.joined = J
  BY <1>1 DEF IsPass
<1> QED  BY <1>2 DEF T, R, J, r, HasJoined

LEMMA SeededIs ==
  ASSUME NEW q, IsPass(q), NEW a, NEW b
  PROVE  HasSeeded(Group!Seeded(q, a, b), q, a, b)
<1> DEFINE T == q.todo \ {a}
           R == Append(q.rows, Group!Seed(a, b, q.seen))
           r == Group!Seeded(q, a, b)
<1>1. r = [q EXCEPT !.todo = T, !.rows = R]
  BY DEF Group!Seeded
<1> HIDE DEF T, R, r
<1>2. /\ IsPass(r) /\ r.on = q.on /\ r.seen = q.seen /\ r.old = q.old /\ r.joined = q.joined
      /\ r.todo = T /\ r.rows = R
  BY <1>1 DEF IsPass
<1> QED  BY <1>2 DEF T, R, r, HasSeeded

\* A step of a pass at work.
LEMMA Worked ==
  ASSUME GroupInv, NEW c \in Collector, NEW r, pass' = [pass EXCEPT ![c] = r],
         IsPass(r), PassTyped(r, incident), PassSound(r, alert, incident),
         UNCHANGED <<clock, alert, acks, incident, faults>>
  PROVE  GroupInv'
<1>1. /\ pass'[c] = r /\ pass' = [d \in Collector |-> pass'[d]]
      /\ \A d \in Collector \ {c} : pass'[d] = pass[d]
  BY DEF GroupInv
<1>2. PassOK(r, alert, incident) /\ faults' \in 0..MaxFaults
  BY DEF PassOK, GroupInv, Group!TypeOK
<1> QED  BY <1>1, <1>2, GroupPass

\* A connected alert that began near the start may join a cascade.
LEMMA GrownSound ==
  ASSUME NEW t, NEW row \in Group!IncidentRows, Sound(row, t), NEW a \in Alert, t[a].status # "none",
         Group!Near(row.start, t[a].at), \E m \in row.members : {a, m} \in Connected
  PROVE  /\ Group!Grown(row, a) \in Group!IncidentRows /\ Sound(Group!Grown(row, a), t)
         /\ Group!Grown(row, a).start = row.start
<1> DEFINE g == Group!Grown(row, a)
           C == row.critical \/ a \in CriticalAlert
           M == row.members \cup {a}
<1>1. C \in BOOLEAN /\ M \subseteq Alert
  BY DEF Group!IncidentRows
<1>2. /\ g = [row EXCEPT !.members = M, !.critical = C]
      /\ row = [status |-> row.status, start |-> row.start, critical |-> row.critical,
                members |-> row.members]
      /\ row.status \in {"active", "resolved"} /\ row.start \in 0..MaxClock
  BY DEF Group!Grown, Group!IncidentRows
<1>a. M = row.members \cup {a} /\ (C <=> row.critical \/ a \in CriticalAlert)
  OBVIOUS
<1> HIDE DEF g, C, M
<1>3. /\ g.members = M /\ g.start = row.start /\ g.status = row.status /\ g.critical = C
      /\ g = [status |-> g.status, start |-> g.start, critical |-> g.critical, members |-> g.members]
  BY <1>2
<1>4. g \in Group!IncidentRows
  BY <1>1, <1>2, <1>3 DEF Group!IncidentRows
<1>5. \A b \in g.members : /\ t[b].status # "none" /\ Group!Near(g.start, t[b].at)
                           /\ \E m \in g.members : {b, m} \in Connected
  BY <1>a, <1>3 DEF Sound
<1>6. g.critical <=> g.members \cap CriticalAlert # {}
  BY <1>a, <1>3 DEF Sound
<1> QED  BY <1>3, <1>4, <1>5, <1>6 DEF Sound, g

LEMMA GroupJoins ==
  ASSUME GroupInv, NEW c \in Collector, NEW a \in Alert, Group!Joins(c, a)
  PROVE  GroupInv'
<1> DEFINE q == pass[c]
<1>1. PICK i \in Group!Joinable(c, a) : pass' = [pass EXCEPT ![c] = Group!Joined(q, a, i)]
  BY DEF Group!Joins
<1>2. /\ a \in q.todo /\ UNCHANGED <<clock, alert, acks, incident, faults>>
      /\ IsPass(q) /\ PassTyped(q, incident) /\ PassSound(q, alert, incident)
  BY AtWork DEF Group!Joins, Group!World, GroupInv, PassOK
<1>3. /\ i \in DOMAIN q.rows /\ Group!Near(q.rows[i].start, q.seen[a].at)
      /\ \E m \in q.rows[i].members : {a, m} \in Connected
  BY DEF Group!Joinable
<1> DEFINE r == Group!Joined(q, a, i)
           g == Group!Grown(q.rows[i], a)
<1>4. /\ IsPass(r) /\ r.on = q.on /\ r.seen = q.seen /\ r.old = q.old
      /\ r.todo = q.todo \ {a} /\ r.rows = [q.rows EXCEPT ![i] = g]
      /\ r.joined = IF i <= q.old THEN q.joined \cup {i} ELSE q.joined
  <2>1. HasJoined(r, q, a, i)
    BY <1>2, JoinedIs
  <2> HIDE DEF q, r
  <2> QED  BY <2>1 DEF HasJoined
<1> HIDE DEF q, r, g
<1>5. q.rows \in Seq(Group!IncidentRows) /\ q.rows[i] \in Group!IncidentRows /\ i \in 1..Len(q.rows)
  BY <1>2, <1>3 DEF PassTyped
<1>6. alert[a].status # "none" /\ alert[a].at = q.seen[a].at
  BY <1>2 DEF PassSound
<1>7. g \in Group!IncidentRows /\ Sound(g, alert) /\ g.start = q.rows[i].start
  BY <1>2, <1>3, <1>5, <1>6, GrownSound DEF PassSound, g
<1>8. /\ r.rows \in Seq(Group!IncidentRows) /\ Len(r.rows) = Len(q.rows)
      /\ DOMAIN r.rows = DOMAIN q.rows
      /\ r.rows[i] = g /\ \A j \in DOMAIN q.rows \ {i} : r.rows[j] = q.rows[j]
  BY <1>3, <1>4, <1>5, <1>7
<1>9. r.joined \subseteq 1..r.old
  BY <1>2, <1>4, <1>5 DEF PassTyped
<1>10. PassTyped(r, incident)
  BY <1>2, <1>4, <1>8, <1>9 DEF PassTyped
<1>11. \A j \in 1..q.old : j \in DOMAIN q.rows
  BY <1>2, <1>5 DEF PassSound, PassTyped
<1>12. PassSound(r, alert, incident)
  BY <1>2, <1>4, <1>7, <1>8, <1>11 DEF PassSound
<1> QED  BY <1>1, <1>2, <1>4, <1>10, <1>12, Worked DEF r, q

\* The two alerts of a seed began near each other, so the earlier one is near both.
LEMMA SeedSound ==
  ASSUME NEW t \in [Alert -> Group!Alerts], NEW z \in [Alert -> Group!Alerts],
         NEW a \in Alert, NEW b \in Alert, {a, b} \in Connected, Group!Near(z[b].at, z[a].at),
         t[a].status # "none", t[a].at = z[a].at, t[b].status # "none", t[b].at = z[b].at
  PROVE  Group!Seed(a, b, z) \in Group!IncidentRows /\ Sound(Group!Seed(a, b, z), t)
<1> DEFINE s == Group!Seed(a, b, z)
           from == IF z[a].at <= z[b].at THEN z[a].at ELSE z[b].at
<1>1. z[a].at \in 0..MaxClock /\ z[b].at \in 0..MaxClock
  BY DEF Group!Alerts
<1>2. Span \in Nat /\ MaxClock \in Nat
  BY BoundsAssumption
<1>3. from \in 0..MaxClock /\ Group!Near(from, t[a].at) /\ Group!Near(from, t[b].at)
  BY <1>1, <1>2 DEF Group!Near
<1>4. ({a, b} \cap CriticalAlert # {}) \in BOOLEAN
  OBVIOUS
<1>5. s = [status |-> "active", start |-> from, critical |-> ({a, b} \cap CriticalAlert # {}),
           members |-> {a, b}]
  BY DEF Group!Seed
<1> HIDE DEF s, from
<1>6. s \in Group!IncidentRows
  BY <1>3, <1>4, <1>5 DEF Group!IncidentRows
<1>7. {b, a} = {a, b}
  OBVIOUS
<1>8. Sound(s, t)
  BY <1>3, <1>5, <1>7 DEF Sound
<1> QED  BY <1>6, <1>8 DEF s

LEMMA GroupSeeds ==
  ASSUME GroupInv, NEW c \in Collector, NEW a \in Alert, Group!Seeds(c, a)
  PROVE  GroupInv'
<1> DEFINE q == pass[c]
<1>1. PICK b \in Group!Partners(c, a) : pass' = [pass EXCEPT ![c] = Group!Seeded(q, a, b)]
  BY DEF Group!Seeds
<1>2. /\ a \in q.todo /\ UNCHANGED <<clock, alert, acks, incident, faults>>
      /\ IsPass(q) /\ PassTyped(q, incident) /\ PassSound(q, alert, incident)
  BY AtWork DEF Group!Seeds, Group!World, GroupInv, PassOK
<1>3. /\ b \in Alert /\ {a, b} \in Connected /\ q.seen[b].status = "active"
      /\ Group!Near(q.seen[b].at, q.seen[a].at)
  BY DEF Group!Partners
<1> DEFINE r == Group!Seeded(q, a, b)
           s == Group!Seed(a, b, q.seen)
<1>4. HasSeeded(r, q, a, b)
  BY <1>2, SeededIs
<1> HIDE DEF q, r
<1>5. /\ IsPass(r) /\ r.on = q.on /\ r.seen = q.seen /\ r.old = q.old /\ r.joined = q.joined
      /\ r.todo = q.todo \ {a} /\ r.rows = Append(q.rows, s)
  BY <1>4 DEF HasSeeded
<1>6. /\ alert \in [Alert -> Group!Alerts] /\ q.seen \in [Alert -> Group!Alerts]
      /\ q.rows \in Seq(Group!IncidentRows) /\ q.old \in Nat
  BY <1>2 DEF GroupInv, Group!TypeOK, PassTyped
<1>7. /\ alert[a].status # "none" /\ alert[a].at = q.seen[a].at
      /\ alert[b].status # "none" /\ alert[b].at = q.seen[b].at
  BY <1>2, <1>3 DEF PassSound
<1>8. s \in Group!IncidentRows /\ Sound(s, alert)
  BY <1>3, <1>6, <1>7, SeedSound
<1> HIDE DEF s
<1>9. /\ r.rows \in Seq(Group!IncidentRows) /\ Len(r.rows) = Len(q.rows) + 1
      /\ \A j \in 1..Len(q.rows) : r.rows[j] = q.rows[j]
      /\ r.rows[Len(q.rows) + 1] = s
  BY <1>5, <1>6, <1>8, AppendProperties
<1>10. PassTyped(r, incident)
  BY <1>2, <1>5, <1>9 DEF PassTyped
<1>11. \A j \in DOMAIN r.rows : Sound(r.rows[j], alert)
  <2>1. DOMAIN r.rows = 1..(Len(q.rows) + 1) /\ DOMAIN q.rows = 1..Len(q.rows)
        /\ Len(q.rows) \in Nat
    BY <1>6, <1>9
  <2>2. \A j \in 1..Len(q.rows) : Sound(r.rows[j], alert)
    BY <1>2, <1>9, <2>1 DEF PassSound
  <2>3. Sound(r.rows[Len(q.rows) + 1], alert)
    BY <1>8, <1>9
  <2>4. \A j \in DOMAIN r.rows : j \in 1..Len(q.rows) \/ j = Len(q.rows) + 1
    BY <2>1
  <2> QED  BY <2>2, <2>3, <2>4
<1>12. q.old <= Len(r.rows) /\ \A j \in 1..q.old : r.rows[j].start = incident[j].start
  <2>1. \A j \in 1..q.old : j \in 1..Len(q.rows)
    BY <1>2, <1>6 DEF PassSound
  <2>2. q.old <= Len(q.rows) /\ Len(q.rows) \in Nat
    BY <1>2, <1>6 DEF PassSound
  <2> QED  BY <1>2, <1>6, <1>9, <2>1, <2>2 DEF PassSound
<1>13. PassSound(r, alert, incident)
  BY <1>2, <1>5, <1>11, <1>12 DEF PassSound
<1> QED  BY <1>1, <1>2, <1>5, <1>10, <1>13, Worked DEF r, q

\* Two cascades with one start are one cascade.
LEMMA BothSound ==
  ASSUME NEW t, NEW row \in Group!IncidentRows, NEW copy \in Group!IncidentRows,
         Sound(row, t), Sound(copy, t), copy.start = row.start
  PROVE  /\ Group!Both(row, copy) \in Group!IncidentRows /\ Sound(Group!Both(row, copy), t)
         /\ Group!Both(row, copy).start = row.start /\ Group!Both(row, copy).status = row.status
<1> DEFINE g == Group!Both(row, copy)
           C == row.critical \/ copy.critical
           M == row.members \cup copy.members
<1>1. C \in BOOLEAN /\ M \subseteq Alert
  BY DEF Group!IncidentRows
<1>2. /\ g = [row EXCEPT !.members = M, !.critical = C]
      /\ row = [status |-> row.status, start |-> row.start, critical |-> row.critical,
                members |-> row.members]
      /\ row.status \in {"active", "resolved"} /\ row.start \in 0..MaxClock
  BY DEF Group!Both, Group!IncidentRows
<1>3. M = row.members \cup copy.members /\ (C <=> row.critical \/ copy.critical)
  OBVIOUS
<1> HIDE DEF g, C, M
<1>4. /\ g.members = M /\ g.start = row.start /\ g.status = row.status /\ g.critical = C
      /\ g = [status |-> g.status, start |-> g.start, critical |-> g.critical, members |-> g.members]
  BY <1>2
<1>5. g \in Group!IncidentRows
  BY <1>1, <1>2, <1>4 DEF Group!IncidentRows
<1>6. \A b \in g.members : /\ t[b].status # "none" /\ Group!Near(g.start, t[b].at)
                           /\ \E m \in g.members : {b, m} \in Connected
  BY <1>3, <1>4 DEF Sound
<1>7. g.critical <=> g.members \cap CriticalAlert # {}
  BY <1>3, <1>4 DEF Sound
<1> QED  BY <1>4, <1>5, <1>6, <1>7 DEF Sound, g

\* The last UPDATE changes a status at most.
LEMMA ResolvedSound ==
  ASSUME NEW t, NEW row \in Group!IncidentRows, Sound(row, t)
  PROVE  /\ Group!Resolved(row) \in Group!IncidentRows /\ Sound(Group!Resolved(row), t)
         /\ Group!Resolved(row).start = row.start /\ Group!Resolved(row).members = row.members
<1> DEFINE g == Group!Resolved(row)
<1>1. CASE g = row
  BY <1>1
<1>2. CASE g = [row EXCEPT !.status = "resolved"]
  <2>1. /\ row = [status |-> row.status, start |-> row.start, critical |-> row.critical,
                  members |-> row.members]
        /\ row.start \in 0..MaxClock /\ row.critical \in BOOLEAN /\ row.members \subseteq Alert
    BY DEF Group!IncidentRows
  <2> HIDE DEF g
  <2>2. /\ g.members = row.members /\ g.start = row.start /\ g.critical = row.critical
        /\ g = [status |-> "resolved", start |-> g.start, critical |-> g.critical,
                members |-> g.members]
    BY <1>2, <2>1
  <2>3. g \in Group!IncidentRows
    BY <2>1, <2>2 DEF Group!IncidentRows
  <2> QED  BY <2>2, <2>3 DEF Sound, g
<1> QED  BY <1>1, <1>2 DEF Group!Resolved

\* What a commit leaves: cascades, the earlier ones with their start and status.
LEMMA MergedIs ==
  ASSUME GroupInv, NEW c \in Collector, pass[c].on
  PROVE  /\ Group!Merged(c) \in Seq(Group!IncidentRows)
         /\ Len(incident) <= Len(Group!Merged(c))
         /\ \A i \in DOMAIN Group!Merged(c) : Sound(Group!Merged(c)[i], alert)
         /\ \A i \in DOMAIN incident : /\ Group!Merged(c)[i].start = incident[i].start
                                       /\ Group!Merged(c)[i].status = incident[i].status
<1> DEFINE mine == pass[c].rows
           old == pass[c].old
           R == Group!IncidentRows
           kept == [i \in DOMAIN incident |->
                      IF i <= old THEN Group!Both(incident[i], mine[i]) ELSE incident[i]]
           tail == SubSeq(mine, old + 1, Len(mine))
           all == Group!Merged(c)
<1>1. PassTyped(pass[c], incident) /\ PassSound(pass[c], alert, incident)
  BY AtWork
<1>2. /\ incident \in Seq(R) /\ mine \in Seq(R) /\ old \in 0..Len(incident) /\ old <= Len(mine)
      /\ DOMAIN incident = 1..Len(incident) /\ DOMAIN mine = 1..Len(mine)
      /\ Len(incident) \in Nat /\ Len(mine) \in Nat /\ old \in Nat
  <2>1. incident \in Seq(R) /\ mine \in Seq(R) /\ old \in 0..Len(incident) /\ old <= Len(mine)
    BY <1>1 DEF PassTyped, PassSound, GroupInv, Group!TypeOK
  <2> HIDE DEF mine, old, R
  <2> QED  BY <2>1
<1>3. /\ \A i \in DOMAIN incident : Sound(incident[i], alert)
      /\ \A i \in DOMAIN mine : Sound(mine[i], alert)
      /\ \A i \in 1..old : mine[i].start = incident[i].start
  BY <1>1 DEF GroupInv, PassSound
<1>4. all = kept \o tail
  BY DEF Group!Merged
<1>5. \A i \in DOMAIN incident : kept[i] = IF i <= old THEN Group!Both(incident[i], mine[i])
                                                        ELSE incident[i]
  OBVIOUS
<1>6. DOMAIN kept = DOMAIN incident
  OBVIOUS
<1>7. kept = [i \in 1..Len(incident) |-> kept[i]]
  BY <1>2
<1> HIDE DEF mine, old, R, kept, all
<1>8. \A i \in DOMAIN incident : /\ kept[i] \in R /\ Sound(kept[i], alert)
                                 /\ kept[i].start = incident[i].start
                                 /\ kept[i].status = incident[i].status
  <2> SUFFICES ASSUME NEW i \in DOMAIN incident
               PROVE  /\ kept[i] \in R /\ Sound(kept[i], alert)
                      /\ kept[i].start = incident[i].start
                      /\ kept[i].status = incident[i].status
    OBVIOUS
  <2>1. CASE i <= old
    <3>1. i \in 1..old /\ i \in DOMAIN mine
      BY <1>2, <2>1
    <3>2. incident[i] \in R /\ mine[i] \in R
      BY <1>2, <3>1
    <3>3. kept[i] = Group!Both(incident[i], mine[i])
      BY <1>5, <2>1
    <3> QED  BY <1>3, <3>1, <3>2, <3>3, BothSound DEF R
  <2>2. CASE ~(i <= old)
    BY <1>2, <1>3, <1>5, <2>2
  <2> QED  BY <2>1, <2>2
<1>9. kept \in Seq(R) /\ Len(kept) = Len(incident)
  BY <1>2, <1>6, <1>7, <1>8
<1>10. /\ tail \in Seq(R)
       /\ Len(tail) = Len(mine) - old
       /\ \A i \in 1..(Len(mine) - old) : tail[i] = mine[old + i]
  <2> DEFINE m == old + 1
             n == Len(mine)
  <2>1. m \in Int /\ n \in Int /\ \A i \in m..n : mine[i] \in R
    BY <1>2
  <2>2. /\ SubSeq(mine, m, n) \in Seq(R)
        /\ Len(SubSeq(mine, m, n)) = IF m <= n THEN n - m + 1 ELSE 0
        /\ \A i \in 1..(n - m + 1) : SubSeq(mine, m, n)[i] = mine[m + i - 1]
    <3> HIDE DEF m, n
    <3> QED  BY <2>1, SubSeqProperties
  <2>3. tail = SubSeq(mine, m, n)
    OBVIOUS
  <2> HIDE DEF tail
  <2>4. n - m + 1 = Len(mine) - old
    BY <1>2
  <2>5. Len(tail) = Len(mine) - old
    <3>1. n \in Nat /\ old \in Nat /\ old <= n
      BY <1>2
    <3> HIDE DEF n
    <3>2. ~(m <= n) => n - old = 0
      BY <3>1
    <3> HIDE DEF m
    <3>3. Len(tail) = n - old
      BY <2>2, <2>3, <2>4, <3>2 DEF n
    <3> QED  BY <3>3 DEF n
  <2>6. ASSUME NEW i \in 1..(Len(mine) - old) PROVE tail[i] = mine[old + i]
    <3>1. m + i - 1 = old + i
      BY <1>2
    <3> QED  BY <2>2, <2>3, <2>4, <3>1
  <2> QED  BY <2>2, <2>3, <2>5, <2>6
<1> HIDE DEF tail
<1>11. \A i \in 1..Len(tail) : Sound(tail[i], alert)
  <2> SUFFICES ASSUME NEW i \in 1..Len(tail) PROVE Sound(tail[i], alert)
    OBVIOUS
  <2>1. old + i \in DOMAIN mine /\ tail[i] = mine[old + i]
    BY <1>2, <1>10
  <2> QED  BY <1>3, <2>1
<1>12. /\ all \in Seq(R) /\ Len(all) = Len(kept) + Len(tail)
       /\ \A i \in 1..Len(kept) + Len(tail) :
            all[i] = IF i <= Len(kept) THEN kept[i] ELSE tail[i - Len(kept)]
  BY <1>4, <1>9, <1>10, ConcatProperties
<1>13. DOMAIN all = 1..Len(all) /\ Len(tail) \in Nat
  BY <1>10, <1>12
<1>14. ASSUME NEW i \in DOMAIN all PROVE Sound(all[i], alert)
  <2>1. CASE i <= Len(kept)
    <3>1. i \in DOMAIN incident /\ all[i] = kept[i]
      BY <1>2, <1>9, <1>12, <1>13, <2>1
    <3> QED  BY <1>8, <3>1
  <2>2. CASE ~(i <= Len(kept))
    <3>1. all[i] = tail[i - Len(kept)] /\ i - Len(kept) \in 1..Len(tail)
      BY <1>2, <1>9, <1>12, <1>13, <2>2
    <3> QED  BY <1>11, <3>1
  <2> QED  BY <2>1, <2>2
<1>15. \A i \in DOMAIN incident : all[i] = kept[i]
  BY <1>2, <1>9, <1>12, <1>13
<1> QED  BY <1>2, <1>8, <1>9, <1>12, <1>13, <1>14, <1>15 DEF R, all

\* The commit keeps every other pass in good order: its copies still start when they did.
LEMMA GroupCommits ==
  ASSUME GroupInv, NEW c \in Collector, Group!Commits(c), faults' \in 0..MaxFaults
  PROVE  GroupInv'
<1> DEFINE all == Group!Merged(c)
           R == Group!IncidentRows
<1>1. /\ all \in Seq(R) /\ Len(incident) <= Len(all)
      /\ \A i \in DOMAIN all : Sound(all[i], alert)
      /\ \A i \in DOMAIN incident : all[i].start = incident[i].start
  BY MergedIs DEF Group!Commits
<1>2. /\ incident' = [i \in DOMAIN all |-> Group!Resolved(all[i])]
      /\ pass' = [pass EXCEPT ![c] = Group!Idle] /\ UNCHANGED <<clock, alert, acks>>
  BY DEF Group!Commits, Group!World
<1> HIDE DEF all
<1>3. DOMAIN all = 1..Len(all) /\ Len(all) \in Nat /\ \A i \in DOMAIN all : all[i] \in R
  <2> HIDE DEF R
  <2> QED  BY <1>1
<1>4. \A i \in DOMAIN all : /\ incident'[i] \in R /\ Sound(incident'[i], alert)
                            /\ incident'[i].start = all[i].start
  BY <1>1, <1>2, <1>3, ResolvedSound
<1> HIDE DEF R
<1>5. incident \in Seq(R) /\ DOMAIN incident = 1..Len(incident) /\ Len(incident) \in Nat
  <2>1. incident \in Seq(R)
    BY DEF GroupInv, Group!TypeOK, R
  <2> QED  BY <2>1
<1>6. incident' \in Seq(R) /\ Len(incident') = Len(all) /\ DOMAIN incident' = DOMAIN all
  <2>1. DOMAIN incident' = 1..Len(all)
    BY <1>2, <1>3
  <2>2. incident' = [i \in 1..Len(all) |-> incident'[i]]
    BY <1>2, <1>3
  <2> QED  BY <1>3, <1>4, <2>1, <2>2
<1>7. \A i \in 1..Len(incident) : incident'[i].start = incident[i].start
  BY <1>1, <1>3, <1>4, <1>5
<1>8. ASSUME NEW q, PassOK(q, alert, incident) PROVE PassOK(q, alert, incident')
  <2> SUFFICES ASSUME PassTyped(q, incident), PassSound(q, alert, incident)
               PROVE  PassTyped(q, incident') /\ PassSound(q, alert, incident')
    BY <1>8 DEF PassOK
  <2>1. q.old \in 0..Len(incident)
    BY DEF PassTyped
  <2>2. q.old \in 0..Len(incident')
    BY <1>1, <1>3, <1>5, <1>6, <2>1
  <2>3. \A i \in 1..q.old : i \in 1..Len(incident)
    BY <1>5, <2>1
  <2>4. \A i \in 1..q.old : q.rows[i].start = incident'[i].start
    BY <1>7, <2>3 DEF PassSound
  <2> QED  BY <2>2, <2>4 DEF PassTyped, PassSound
<1>9. PassOK(Group!Idle, alert, incident')
  BY DEF PassOK, IsPass, Group!Idle
<1>10. \A d \in Collector : PassOK(pass'[d], alert, incident')
  BY <1>2, <1>8, <1>9 DEF GroupInv
<1>11. pass' = [d \in Collector |-> pass'[d]]
  BY <1>2 DEF GroupInv
<1>12. \A i \in DOMAIN incident' : Sound(incident'[i], alert')
  BY <1>2, <1>4, <1>6
<1>13. \A d \in Collector : pass'[d] = Group!Idle \/ PassTyped(pass'[d], incident')
  BY <1>10 DEF PassOK
<1>14. Group!TypeOK'
  BY <1>2, <1>6, <1>13 DEF GroupInv, Group!TypeOK, PassTyped, R
<1> QED  BY <1>2, <1>10, <1>11, <1>12, <1>14 DEF GroupInv

LEMMA GroupOpens ==
  ASSUME GroupInv, NEW a \in Alert,
         Group!Opens(a) \/ Group!Acknowledges(a) \/ Group!Withdraws(a) \/ Group!Closes(a),
         faults' \in 0..MaxFaults
  PROVE  GroupInv'
<1>1. /\ alert \in [Alert -> Group!Alerts] /\ clock \in 0..MaxClock /\ acks \in 0..MaxAcks
  BY DEF GroupInv, Group!TypeOK
<1>2. /\ alert[a] = [status |-> alert[a].status, at |-> alert[a].at] /\ alert[a].at \in 0..MaxClock
  BY <1>1 DEF Group!Alerts
<1>3. PICK s \in {"active", "acknowledged", "resolved"}, n \in 0..MaxClock :
        /\ alert' = [alert EXCEPT ![a] = [status |-> s, at |-> n]]
        /\ alert[a].status # "none" => n = alert[a].at
  <2>1. CASE Group!Opens(a)
    BY <1>1, <2>1 DEF Group!Opens
  <2>2. ASSUME NEW s \in {"active", "acknowledged", "resolved"},
               alert' = [alert EXCEPT ![a].status = s]
        PROVE  alert' = [alert EXCEPT ![a] = [status |-> s, at |-> alert[a].at]]
    <3>1. [alert[a] EXCEPT !.status = s] = [status |-> s, at |-> alert[a].at]
      BY <1>2
    <3> QED  BY <2>2, <3>1
  <2>3. CASE Group!Acknowledges(a)
    BY <1>2, <2>2, <2>3 DEF Group!Acknowledges
  <2>4. CASE Group!Withdraws(a)
    BY <1>2, <2>2, <2>4 DEF Group!Withdraws
  <2>5. CASE Group!Closes(a)
    BY <1>2, <2>2, <2>5 DEF Group!Closes
  <2> QED  BY <2>1, <2>3, <2>4, <2>5
<1>4. alert' \in [Alert -> Group!Alerts]
  BY <1>1, <1>3 DEF Group!Alerts
<1>5. Later(alert, alert')
  BY <1>1, <1>3 DEF Later
<1>6. clock' = clock /\ incident' = incident /\ pass' = pass
  BY DEF Group!Opens, Group!Acknowledges, Group!Withdraws, Group!Closes, Group!Rest
<1>7. acks' \in 0..MaxAcks
  <2>1. MaxAcks \in Nat
    BY BoundsAssumption
  <2> QED  BY <1>1, <2>1 DEF Group!Opens, Group!Acknowledges, Group!Withdraws, Group!Closes
<1> QED  BY <1>1, <1>4, <1>5, <1>6, <1>7, GroupWorld

LEMMA GroupNext ==
  ASSUME GroupInv, [ServicesNext]_servicesVars
  PROVE  GroupInv'
<1>1. faults' \in 0..MaxFaults
  BY FaultsStay DEF GroupInv, Group!TypeOK
<1>2. ASSUME NEW c \in Collector, Group!Begins(c) PROVE GroupInv'
  BY <1>1, <1>2, GroupBegins
<1>3. ASSUME NEW c \in Collector, NEW a \in Alert,
             Group!Joins(c, a) \/ Group!Seeds(c, a) \/ Group!StandsAlone(c, a)
      PROVE  GroupInv'
  BY <1>3, GroupJoins, GroupSeeds, GroupStandsAlone
<1>4. ASSUME NEW c \in Collector, Group!Commits(c) PROVE GroupInv'
  BY <1>1, <1>4, GroupCommits
<1>5. ASSUME NEW c \in Collector, Group!Deadlocks(c) \/ Group!Fails(c) PROVE GroupInv'
  <2>1. pass' = [pass EXCEPT ![c] = Group!Idle] /\ UNCHANGED <<clock, alert, acks, incident>>
    BY <1>5 DEF Group!Deadlocks, Group!Fails, Group!World
  <2> QED  BY <1>1, <2>1, GroupIdle
<1>6. ASSUME NEW a \in Alert,
             Group!Opens(a) \/ Group!Acknowledges(a) \/ Group!Withdraws(a) \/ Group!Closes(a)
      PROVE  GroupInv'
  BY <1>1, <1>6, GroupOpens
<1>7. /\ alert \in [Alert -> Group!Alerts] /\ clock \in 0..MaxClock /\ acks \in 0..MaxAcks
      /\ MaxClock \in Nat
  BY BoundsAssumption DEF GroupInv, Group!TypeOK
<1>8. Later(alert, alert)
  BY DEF Later
<1>9. CASE Group!Passes
  <2>1. clock' \in 0..MaxClock /\ UNCHANGED <<alert, acks, incident, pass>>
    BY <1>7, <1>9 DEF Group!Passes
  <2> QED  BY <1>1, <1>7, <1>8, <2>1, GroupWorld
<1>10. CASE UNCHANGED ofIncidents
  BY <1>1, <1>7, <1>8, <1>10, GroupWorld DEF ofIncidents
<1>11. CASE Group!Next
  BY <1>2, <1>3, <1>4, <1>5, <1>6, <1>9, <1>11 DEF Group!Next, Group!Works
<1> QED  BY <1>10, <1>11, GroupSteps DEF Group!vars, ofIncidents

\* Whichever collectors group the alerts at once, for any alerts and relationships, every
\* incident is a cascade near its start and exactly as severe as its worst member.
THEOREM IncidentsAreSoundAlways == ServicesSpec => []IncidentsAreSound
<1>1. ASSUME GroupInv PROVE IncidentsAreSound
  <2>1. Group!IncidentsAreCascades
    BY <1>1 DEF GroupInv, Sound, Group!IncidentsAreCascades
  <2>2. Group!SeverityIsTheWorst
    BY <1>1 DEF GroupInv, Sound, Group!SeverityIsTheWorst
  <2> QED  BY <1>1, <2>1, <2>2 DEF GroupInv, IncidentsAreSound
<1> QED  BY <1>1, GroupInit, GroupNext, PTL DEF ServicesSpec

\* "'acknowledged' is still OPEN": an incident is resolved only when each member is, those
\* that another pass attached since this one began included.
THEOREM ResolvedWhenAllAreAlways == ServicesSpec => ResolvedWhenAllAre
<1> DEFINE A == \A i \in DOMAIN incident :
                  incident[i].status = "active" /\ incident'[i].status = "resolved"
                  => \A a \in incident'[i].members : alert[a].status = "resolved"
<1>1. ASSUME GroupInv, [ServicesNext]_servicesVars PROVE [A]_(Group!vars)
  <2>1. incident' = incident \/ \E c \in Collector : Group!Commits(c)
    BY <1>1, GroupSteps DEF Group!Next, Group!Works, Group!Begins, Group!Joins, Group!Seeds,
       Group!StandsAlone, Group!Deadlocks, Group!Fails, Group!Opens, Group!Acknowledges,
       Group!Withdraws, Group!Closes, Group!Passes, Group!Rest, Group!vars, ofIncidents
  <2>2. CASE incident' = incident
    BY <2>2
  <2>3. ASSUME NEW c \in Collector, Group!Commits(c), NEW i \in DOMAIN incident,
               incident[i].status = "active", incident'[i].status = "resolved",
               NEW a \in incident'[i].members
        PROVE  alert[a].status = "resolved"
    <3> DEFINE all == Group!Merged(c)
               R == Group!IncidentRows
    <3>1. /\ all \in Seq(R) /\ Len(incident) <= Len(all)
          /\ \A j \in DOMAIN all : Sound(all[j], alert)
          /\ \A j \in DOMAIN incident : all[j].status = incident[j].status
      BY <1>1, <2>3, MergedIs DEF Group!Commits
    <3>2. incident' = [j \in DOMAIN all |-> Group!Resolved(all[j])]
      BY <2>3 DEF Group!Commits
    <3>3. incident \in Seq(R) /\ alert \in [Alert -> Group!Alerts]
      BY <1>1 DEF GroupInv, Group!TypeOK
    <3> HIDE DEF all, R
    <3>4. i \in DOMAIN all /\ all[i] \in R
      BY <3>1, <3>3
    <3>5. incident'[i] = Group!Resolved(all[i]) /\ all[i].status = "active"
      BY <2>3, <3>1, <3>2, <3>4
    <3>6. /\ Sound(all[i], alert) /\ a \in all[i].members /\ a \in Alert
      BY <2>3, <3>1, <3>4, <3>5, ResolvedSound DEF R, Group!IncidentRows
    <3>7. \A m \in all[i].members : alert[m].status \notin {"active", "acknowledged"}
      BY <2>3, <3>5 DEF Group!Resolved
    <3> QED  BY <3>3, <3>6, <3>7 DEF Sound, Group!Alerts
  <2> QED  BY <2>1, <2>2, <2>3
<1> QED  BY <1>1, GroupInit, GroupNext, PTL
         DEF ServicesSpec, ResolvedWhenAllAre, Group!ResolvedWhenAllAre

-----------------------------------------------------------------------------
(* Email rules: what is queued and logged is well formed.                     *)

LEMMA Least ==
  ASSUME NEW T, T \subseteq Nat, T # {}
  PROVE  \E x \in T : \A y \in T : x <= y
<1> DEFINE R == OpToRel(<, Nat)
<1>1. IsWellFoundedOn(R, Nat)
  BY NatLessThanWellFounded
<1>2. \A x, y \in Nat : <<y, x>> \in R <=> y < x
  BY DEF OpToRel
<1> HIDE DEF R
<1>3. \E x \in T : \A y \in T : ~(<<y, x>> \in R)
  BY <1>1, WFMin
<1>4. PICK x \in T : \A y \in T : ~(<<y, x>> \in R)
  BY <1>3
<1>5. ASSUME NEW y \in T PROVE x <= y
  <2>1. x \in Nat /\ y \in Nat
    OBVIOUS
  <2>2. ~(y < x)
    BY <1>2, <1>4, <2>1
  <2> QED  BY <2>1, <2>2
<1> QED  BY <1>5

\* The worker turns to one of the items it was given.
LEMMA FirstIn ==
  ASSUME NEW S \in SUBSET Item, S # {}
  PROVE  First(S) \in S
<1> DEFINE turn(i) == Turn[i.event]
<1>1. \A i \in S : i.object \in Nat /\ turn(i) \in Nat
  BY EmailAssumption DEF Item, Event, Turn
<1>2. \E i \in S : \A j \in S : Before(i, j)
  <2> HIDE DEF turn
  <2> DEFINE T == {turn(i) : i \in S}
  <2>1. PICK t \in T : \A u \in T : t <= u
    <3>1. T \subseteq Nat /\ T # {}
      BY <1>1
    <3> HIDE DEF T
    <3> QED  BY <3>1, Least
  <2> DEFINE O == {i.object : i \in {j \in S : turn(j) = t}}
  <2>2. PICK o \in O : \A p \in O : o <= p
    <3>1. O \subseteq Nat /\ O # {}
      BY <1>1
    <3> HIDE DEF O
    <3> QED  BY <3>1, Least
  <2>3. PICK i \in S : turn(i) = t /\ i.object = o
    OBVIOUS
  <2>4. ASSUME NEW j \in S PROVE Before(i, j)
    <3>1. CASE turn(j) = t
      <4>1. o <= j.object
        BY <2>2, <3>1
      <4>2. i.event = j.event
        BY <2>3, <3>1 DEF turn, Turn, Item, Event
      <4> QED  BY <2>3, <4>1, <4>2 DEF Before
    <3>2. CASE turn(j) # t
      <4>1. t <= turn(j) /\ t \in Nat /\ turn(j) \in Nat
        BY <1>1, <2>1
      <4>2. t < turn(j)
        BY <3>2, <4>1
      <4> QED  BY <2>3, <4>2 DEF Before, turn
    <3> QED  BY <3>1, <3>2
  <2> QED  BY <2>3, <2>4
<1> QED  BY <1>2 DEF First

Workers == [pc: {"idle", "deciding", "sending", "recording"}, sweep: BOOLEAN,
            todo: SUBSET Item, rule: Rule, view: SUBSET Row]

LEMMA WorkerIs ==
  ASSUME NEW w \in Workers
  PROVE  /\ w = [pc |-> w.pc, sweep |-> w.sweep, todo |-> w.todo, rule |-> w.rule, view |-> w.view]
         /\ w.pc \in {"idle", "deciding", "sending", "recording"} /\ w.sweep \in BOOLEAN
         /\ w.todo \subseteq Item /\ w.rule \in Rule /\ w.view \subseteq Row
BY DEF Workers

LEMMA IsAWorker ==
  ASSUME NEW w,
         w = [pc |-> w.pc, sweep |-> w.sweep, todo |-> w.todo, rule |-> w.rule, view |-> w.view],
         w.pc \in {"idle", "deciding", "sending", "recording"}, w.sweep \in BOOLEAN,
         w.todo \subseteq Item, w.rule \in Rule, w.view \subseteq Row
  PROVE  w \in Workers
<1> DEFINE pc == w.pc  sweep == w.sweep  todo == w.todo  rule == w.rule  view == w.view
<1>1. /\ w = [pc |-> pc, sweep |-> sweep, todo |-> todo, rule |-> rule, view |-> view]
      /\ pc \in {"idle", "deciding", "sending", "recording"} /\ sweep \in BOOLEAN
      /\ todo \in SUBSET Item /\ rule \in Rule /\ view \in SUBSET Row
  OBVIOUS
<1> HIDE DEF pc, sweep, todo, rule, view
<1> QED  BY <1>1 DEF Workers

LEMMA IdleWorker == Idle \in Workers /\ Idle.pc = "idle" /\ Idle.sweep = FALSE
<1> DEFINE i == Idle
<1>1. /\ i = [pc |-> i.pc, sweep |-> i.sweep, todo |-> i.todo, rule |-> i.rule, view |-> i.view]
      /\ i.pc = "idle" /\ i.sweep = FALSE /\ i.todo = {} /\ i.rule = 1 /\ i.view = {}
  BY DEF Idle
<1>2. 1 \in Rule
  BY EmailAssumption DEF Rule
<1> HIDE DEF i
<1>3. i.sweep \in BOOLEAN /\ i.todo \subseteq Item /\ i.view \subseteq Row
  BY <1>1
<1>4. i \in Workers
  BY <1>1, <1>2, <1>3, IsAWorker
<1> QED  BY <1>1, <1>4 DEF i

RulesTyped ==
  /\ now \in 0..MaxTime /\ opened \subseteq Object
  /\ happened \subseteq [event: Swept, object: Object, at: 0..MaxTime]
  /\ queue \in [Process -> Seq(Job)] /\ \A p \in Process : Len(queue[p]) <= QueueMax
  /\ pending \in [Process -> BOOLEAN]
  /\ worker \in [Process -> Workers] /\ \A p \in Process : Busy(p) => worker[p].todo # {}
  /\ sends \subseteq Row
  /\ mails \in [Item -> Nat] /\ posted \subseteq Row
  /\ asked \subseteq 0..MaxTime /\ split \in BOOLEAN /\ unrecorded \in BOOLEAN
  /\ troubled \in BOOLEAN /\ crowded \in BOOLEAN
  /\ faults \in 0..MaxFaults

LEMMA RulesTypeOK == RulesTyped => TypeOK
<1> SUFFICES ASSUME RulesTyped PROVE TypeOK
  OBVIOUS
<1>1. {split, unrecorded, troubled, crowded} \subseteq BOOLEAN
  BY DEF RulesTyped
<1> QED  BY <1>1 DEF RulesTyped, TypeOK, Workers

\* To the next rule, item or job: the mark of a sweep goes with its last item.
LEMMA GoesOnTyped ==
  ASSUME RulesTyped, NEW p \in Process, Busy(p), NEW n \in BOOLEAN, NEW v \in SUBSET Row,
         GoesOn(p, n, v)
  PROVE  \E new \in Workers :
           /\ worker' = [worker EXCEPT ![p] = new] /\ new.pc \in {"idle", "deciding"}
           /\ new.pc = "deciding" => new.todo # {} /\ new.view = v /\ new.sweep = worker[p].sweep
           /\ pending' = IF new.pc = "idle" /\ worker[p].sweep
                         THEN [pending EXCEPT ![p] = FALSE] ELSE pending
           /\ new.pc = "idle" => worker[p].todo \ {Current(p)} = {}
                                 /\ (n \/ worker[p].rule = Len(Wants))
           /\ new.pc = "deciding" =>
                \/ /\ ~n /\ worker[p].rule < Len(Wants)
                   /\ new.todo = worker[p].todo /\ new.rule = worker[p].rule + 1
                \/ /\ n \/ worker[p].rule = Len(Wants)
                   /\ new.todo = worker[p].todo \ {Current(p)} /\ new.rule = 1
<1> DEFINE w == worker[p]
           rest == w.todo \ {Current(p)}
           done == rest = {} /\ (n \/ w.rule = Len(Wants))
           new == IF ~n /\ w.rule < Len(Wants)
                  THEN [w EXCEPT !.pc = "deciding", !.rule = w.rule + 1, !.view = v]
                  ELSE IF done THEN Idle
                  ELSE [w EXCEPT !.pc = "deciding", !.rule = 1, !.todo = rest, !.view = v]
           drop == done /\ w.sweep
<1>1. /\ worker' = [worker EXCEPT ![p] = new]
      /\ pending' = [pending EXCEPT ![p] = @ /\ ~drop]
  BY DEF GoesOn
<1>2. /\ w = [pc |-> w.pc, sweep |-> w.sweep, todo |-> w.todo, rule |-> w.rule, view |-> w.view]
      /\ w \in Workers /\ w.sweep \in BOOLEAN /\ w.todo \subseteq Item /\ w.rule \in Rule
      /\ w.todo # {}
  <2>1. w \in Workers /\ w.todo # {}
    BY DEF RulesTyped
  <2> QED  BY <2>1, WorkerIs
<1>3. /\ w.rule \in 1..Len(Wants) /\ Len(Wants) \in Nat /\ Rule = 1..Len(Wants) /\ 1 \in Rule
  BY <1>2, EmailAssumption DEF Rule
<1>4. rest \subseteq Item
  BY <1>2
<1> HIDE DEF w, rest, drop
<1>5. CASE ~n /\ w.rule < Len(Wants)
  <2>1. new = [w EXCEPT !.pc = "deciding", !.rule = w.rule + 1, !.view = v]
    BY <1>5
  <2> HIDE DEF new
  <2>2. /\ new = [pc |-> new.pc, sweep |-> new.sweep, todo |-> new.todo, rule |-> new.rule,
                  view |-> new.view]
        /\ new.pc = "deciding" /\ new.sweep = w.sweep /\ new.todo = w.todo
        /\ new.rule = w.rule + 1 /\ new.view = v
    BY <1>2, <2>1
  <2>3. new.rule \in Rule
    BY <1>3, <1>5, <2>2
  <2>4. new \in Workers
    BY <1>2, <2>2, <2>3, IsAWorker
  <2>5. ~drop
    BY <1>3, <1>5 DEF drop
  <2>6. pending' = pending
    BY <1>1, <2>5 DEF RulesTyped
  <2> QED  BY <1>1, <1>2, <1>5, <2>2, <2>4, <2>6 DEF w
<1>6. CASE ~(~n /\ w.rule < Len(Wants)) /\ done
  <2>1. new = Idle
    BY <1>6
  <2>2. drop <=> w.sweep
    BY <1>6 DEF drop
  <2> HIDE DEF new
  <2>3. pending' = IF w.sweep THEN [pending EXCEPT ![p] = FALSE] ELSE pending
    <3>1. CASE w.sweep
      BY <1>1, <2>2, <3>1 DEF RulesTyped
    <3>2. CASE ~w.sweep
      BY <1>1, <2>2, <3>2 DEF RulesTyped
    <3> QED  BY <3>1, <3>2
  <2>4. rest = {} /\ (n \/ w.rule = Len(Wants))
    BY <1>6 DEF done
  <2> QED  BY <1>1, <2>1, <2>3, <2>4, IdleWorker DEF w, rest
<1>7. CASE ~(~n /\ w.rule < Len(Wants)) /\ ~done
  <2>1. new = [w EXCEPT !.pc = "deciding", !.rule = 1, !.todo = rest, !.view = v]
    BY <1>7
  <2>2. ~drop
    BY <1>7 DEF drop
  <2>3. rest # {}
    <3>1. n \/ w.rule = Len(Wants)
      BY <1>3, <1>7
    <3> QED  BY <1>7, <3>1
  <2> HIDE DEF new, done
  <2>4. /\ new = [pc |-> new.pc, sweep |-> new.sweep, todo |-> new.todo, rule |-> new.rule,
                  view |-> new.view]
        /\ new.pc = "deciding" /\ new.sweep = w.sweep /\ new.todo = rest
        /\ new.rule = 1 /\ new.view = v
    BY <1>2, <2>1
  <2>5. new \in Workers
    BY <1>2, <1>3, <1>4, <2>4, IsAWorker
  <2>6. pending' = pending
    BY <1>1, <2>2 DEF RulesTyped
  <2>7. n \/ w.rule = Len(Wants)
    BY <1>3, <1>7
  <2> QED  BY <1>1, <2>3, <2>4, <2>5, <2>6, <2>7 DEF w, rest
<1> QED  BY <1>5, <1>6, <1>7

-----------------------------------------------------------------------------
\* The places of the sweeps in a queue, and what the mark of a process should say of them.
Waiting(q) == {n \in 1..Len(q) : q[n].kind = "sweep"}

Marked(q, mark, running) ==
  IF mark THEN IF running THEN Waiting(q) = {} ELSE \E n : Waiting(q) = {n}
          ELSE ~running /\ Waiting(q) = {}

Marks == \A p \in Process : Marked(queue[p], pending[p], Busy(p) /\ worker[p].sweep)

LEMMA MarksTrue == RulesTyped /\ Marks => PendingIsTrue
<1> SUFFICES ASSUME RulesTyped, Marks, NEW p \in Process
             PROVE  LET waiting == {n \in 1..Len(queue[p]) : queue[p][n].kind = "sweep"}
                        running == IF Busy(p) /\ worker[p].sweep THEN 1 ELSE 0
                    IN Cardinality(waiting) + running = IF pending[p] THEN 1 ELSE 0
  BY DEF PendingIsTrue
<1> DEFINE W == Waiting(queue[p])
           on == Busy(p) /\ worker[p].sweep
           mark == pending[p]
<1>1. IF mark THEN IF on THEN W = {} ELSE \E n : W = {n} ELSE ~on /\ W = {}
  BY DEF Marks, Marked
<1>2. W = {n \in 1..Len(queue[p]) : queue[p][n].kind = "sweep"}
  BY DEF Waiting
<1> HIDE DEF W, on, mark
<1>3. Cardinality({}) = 0 /\ \A n : Cardinality({n}) = 1
  BY FS_EmptySet, FS_Singleton
<1>4. Cardinality(W) + (IF on THEN 1 ELSE 0) = IF mark THEN 1 ELSE 0
  <2>a. W = {} => Cardinality(W) = 0
    BY <1>3, Zenon
  <2>b. (\E n : W = {n}) => Cardinality(W) = 1
    BY <1>3, Zenon
  <2> DEFINE k == Cardinality(W)
  <2>c. /\ mark /\ on => k = 0
        /\ mark /\ ~on => k = 1
        /\ ~mark => k = 0 /\ ~on
    BY <1>1, <2>a, <2>b, Zenon
  <2> HIDE DEF k
  <2>1. CASE mark /\ on
    BY <2>1, <2>c DEF k
  <2>2. CASE mark /\ ~on
    BY <2>2, <2>c DEF k
  <2>3. CASE ~mark
    BY <2>3, <2>c DEF k
  <2> QED  BY <2>1, <2>2, <2>3
<1> QED  BY <1>2, <1>4 DEF on, mark

LEMMA JobTakes ==
  ASSUME NEW q \in Seq(Job), q # <<>>
  PROVE  /\ Head(q) \in Job /\ Tail(q) \in Seq(Job) /\ Len(Tail(q)) = Len(q) - 1 /\ Len(q) \in Nat
         /\ \A on \in BOOLEAN : Marked(q, on, FALSE) =>
              IF Head(q).kind = "sweep" THEN on /\ Waiting(Tail(q)) = {}
                                        ELSE Marked(Tail(q), on, FALSE)
<1>1. /\ Head(q) = q[1] /\ Tail(q) \in Seq(Job) /\ Len(Tail(q)) = Len(q) - 1 /\ Len(q) \in Nat \ {0}
      /\ \A n \in 1..(Len(q) - 1) : Tail(q)[n] = q[n + 1]
  OBVIOUS
<1>2. Head(q) \in Job
  OBVIOUS
<1>3. \A n \in Waiting(Tail(q)) : n + 1 \in Waiting(q) /\ n \in Nat \ {0}
  BY <1>1 DEF Waiting
<1>4. \A n \in Waiting(q) : n # 1 => n - 1 \in Waiting(Tail(q))
  <2> SUFFICES ASSUME NEW n \in Waiting(q), n # 1 PROVE n - 1 \in Waiting(Tail(q))
    OBVIOUS
  <2>1. n - 1 \in 1..(Len(q) - 1) /\ (n - 1) + 1 = n /\ q[n].kind = "sweep"
    BY <1>1 DEF Waiting
  <2> QED  BY <1>1, <2>1 DEF Waiting
<1>5. Waiting(q) \subseteq 1..Len(q)
  BY DEF Waiting
<1>6. 1 \in Waiting(q) <=> Head(q).kind = "sweep"
  BY <1>1 DEF Waiting
<1>7. ASSUME NEW on \in BOOLEAN, Marked(q, on, FALSE), Head(q).kind = "sweep"
      PROVE  on /\ Waiting(Tail(q)) = {}
  <2>1. on /\ \E n : Waiting(q) = {n}
    BY <1>6, <1>7 DEF Marked
  <2>2. Waiting(q) = {1}
    BY <1>6, <1>7, <2>1
  <2> QED  BY <1>3, <2>1, <2>2
<1>8. ASSUME NEW on \in BOOLEAN, Marked(q, on, FALSE), Head(q).kind # "sweep"
      PROVE  Marked(Tail(q), on, FALSE)
  <2>1. CASE on
    <3>1. PICK n : Waiting(q) = {n}
      BY <1>8, <2>1 DEF Marked
    <3>2. n - 1 \in Waiting(Tail(q)) /\ n \in Nat
      BY <1>4, <1>5, <1>6, <1>8, <3>1
    <3>3. \A m \in Waiting(Tail(q)) : m = n - 1
      BY <1>3, <3>1, <3>2
    <3>4. Waiting(Tail(q)) = {n - 1}
      BY <3>2, <3>3
    <3> QED  BY <2>1, <3>4 DEF Marked
  <2>2. CASE ~on
    <3>1. Waiting(q) = {}
      BY <1>8, <2>2 DEF Marked
    <3>2. Waiting(Tail(q)) = {}
      BY <1>3, <3>1
    <3> QED  BY <2>2, <3>2 DEF Marked
  <2> QED  BY <2>1, <2>2
<1> QED  BY <1>1, <1>2, <1>7, <1>8

LEMMA JobAdds ==
  ASSUME NEW q \in Seq(Job), NEW j \in Job
  PROVE  /\ Append(q, j) \in Seq(Job) /\ Len(Append(q, j)) = Len(q) + 1 /\ Len(q) \in Nat
         /\ j.kind # "sweep" => Waiting(Append(q, j)) = Waiting(q)
         /\ j.kind = "sweep" => Waiting(Append(q, j)) = Waiting(q) \cup {Len(q) + 1}
<1> DEFINE a == Append(q, j)
<1>1. /\ a \in Seq(Job) /\ Len(a) = Len(q) + 1 /\ Len(q) \in Nat
      /\ \A n \in 1..Len(q) : a[n] = q[n]
      /\ a[Len(q) + 1] = j
  OBVIOUS
<1> HIDE DEF a
<1>2. \A n : n \in 1..(Len(q) + 1) <=> n \in 1..Len(q) \/ n = Len(q) + 1
  BY <1>1
<1>3. \A n : n \in Waiting(a) <=> n \in Waiting(q) \/ (n = Len(q) + 1 /\ j.kind = "sweep")
  BY <1>1, <1>2 DEF Waiting
<1> QED  BY <1>1, <1>3 DEF a

-----------------------------------------------------------------------------
\* The limits for one log of mails.
UpTo(S, s) == {t \in S : t.rule = s.rule /\ t.at <= s.at /\ t.at + Hour > s.at}

Limits(S) ==
  \A s \in S :
    /\ \A t \in S \ {s} :
         s.rule = t.rule /\ s.event = t.event /\ Res[s.object] = Res[t.object] /\ Res[s.object] # none
         /\ s.at <= t.at => s.at + Throttle <= t.at \/ s.at + Hour <= t.at
    /\ Cardinality(UpTo(S, s)) <= Cap

LEMMA LimitsKept == RuleKeepsItsLimits <=> split \/ unrecorded \/ Limits(posted)
BY DEF RuleKeepsItsLimits, Limits, UpTo

\* What a rule may still mail at time t by the log S.
Free(S, r, i, t) == Cardinality(InHour(S, r, t)) < Cap /\ Recent(S, r, i, t) = {}

\* One worker is busy and sees the whole log; what it is about to mail is still allowed.
Settled ==
  split \/
  /\ \A p, q \in Process : Busy(p) /\ Busy(q) => p = q
  /\ \A p \in Process : Busy(p) => worker[p].view = sends
  /\ \A p \in Process : worker[p].pc \in {"sending", "recording"} =>
       Free(sends, worker[p].rule, Current(p), now)
  /\ \A s \in sends : s.at <= now
  /\ Limits(sends)

RulesInv == RulesTyped /\ IsFiniteSet(sends) /\ Marks /\ Settled

\* Time only frees.
LEMMA FreeLater ==
  ASSUME NEW S \in SUBSET Row, IsFiniteSet(S), NEW r, NEW i, NEW t \in Nat, NEW u \in Nat, t <= u,
         Free(S, r, i, t)
  PROVE  Free(S, r, i, u)
<1>1. Hour \in Nat /\ Throttle \in Nat /\ Cap \in Nat /\ MaxTime \in Nat
  BY EmailAssumption
<1>2. \A s \in S : s.at \in Nat
  BY <1>1 DEF Row
<1>3. InHour(S, r, u) \subseteq InHour(S, r, t)
  BY <1>1, <1>2 DEF InHour
<1>4. Recent(S, r, i, u) \subseteq Recent(S, r, i, t)
  BY <1>1, <1>2, <1>3 DEF Recent, InHour
<1>5. IsFiniteSet(InHour(S, r, t))
  BY FS_Subset DEF InHour
<1>6. /\ Cardinality(InHour(S, r, u)) <= Cardinality(InHour(S, r, t))
      /\ Cardinality(InHour(S, r, t)) \in Nat /\ Cardinality(InHour(S, r, u)) \in Nat
  BY <1>3, <1>5, FS_Subset, FS_CardinalityType
<1> QED  BY <1>1, <1>4, <1>6 DEF Free

\* A mail that is allowed now, and follows all others, keeps the limits.
LEMMA LimitsGrow ==
  ASSUME NEW S \in SUBSET Row, IsFiniteSet(S), Limits(S), NEW n \in Row, \A s \in S : s.at <= n.at,
         NEW i, n.event = i.event, n.object = i.object, Free(S, n.rule, i, n.at), n \notin S
  PROVE  Limits(S \cup {n})
<1> DEFINE B == InHour(S, n.rule, n.at)
           T == S \cup {n}
<1>1. Hour \in Nat /\ Throttle \in Nat /\ Cap \in Nat /\ MaxTime \in Nat
  BY EmailAssumption
<1>2. \A s \in T : s.at \in Nat /\ s.at <= n.at
  BY <1>1 DEF Row
<1>3. /\ IsFiniteSet(B \cup {n}) /\ Cardinality(B \cup {n}) <= Cap
      /\ Cardinality(B \cup {n}) \in Nat
  <2>1. IsFiniteSet(B)
    BY FS_Subset DEF InHour
  <2>2. Cardinality(B) < Cap /\ Cardinality(B) \in Nat
    BY <2>1, FS_CardinalityType DEF Free
  <2> HIDE DEF B
  <2>3. /\ IsFiniteSet(B \cup {n})
        /\ Cardinality(B \cup {n}) = IF n \in B THEN Cardinality(B) ELSE Cardinality(B) + 1
    BY <2>1, FS_AddElement, Zenon
  <2> QED  BY <1>1, <2>2, <2>3
<1>4. ASSUME NEW U \in SUBSET (B \cup {n}) PROVE Cardinality(U) <= Cap
  <2> HIDE DEF B
  <2>1. Cardinality(U) <= Cardinality(B \cup {n}) /\ Cardinality(U) \in Nat
    BY <1>3, FS_Subset, FS_CardinalityType
  <2> QED  BY <1>1, <1>3, <2>1
<1>5. ASSUME NEW s \in T PROVE Cardinality(UpTo(T, s)) <= Cap
  <2>1. CASE n \in UpTo(T, s)
    <3>1. s.at = n.at /\ s.rule = n.rule
      BY <1>2, <2>1 DEF UpTo
    <3>2. UpTo(T, s) \subseteq B \cup {n}
      BY <3>1 DEF UpTo, InHour
    <3> QED  BY <1>4, <3>2
  <2>2. CASE n \notin UpTo(T, s) /\ s \in S
    <3>1. UpTo(T, s) = UpTo(S, s)
      BY <2>2 DEF UpTo
    <3> QED  BY <2>2, <3>1 DEF Limits
  <2>3. CASE s = n
    <3>1. UpTo(T, s) \subseteq B \cup {n}
      BY <2>3 DEF UpTo, InHour
    <3> QED  BY <1>4, <3>1
  <2> QED  BY <2>1, <2>2, <2>3
<1>6. ASSUME NEW s \in S, s.rule = n.rule, s.event = n.event, Res[s.object] = Res[n.object],
             Res[n.object] # none
      PROVE  s.at + Throttle <= n.at \/ s.at + Hour <= n.at
  <2>1. s \notin Recent(S, n.rule, i, n.at) /\ ~IsIncident(i.object)
    BY <1>6 DEF Free, IsIncident
  <2>2. ~(s.at + Hour > n.at) \/ ~(s.at + Throttle > n.at)
    BY <1>6, <2>1 DEF Recent, InHour
  <2> QED  BY <1>1, <1>2, <2>2
<1>7. ASSUME NEW s \in T, NEW t \in T \ {s}, s.rule = t.rule, s.event = t.event,
             Res[s.object] = Res[t.object], Res[s.object] # none, s.at <= t.at
      PROVE  s.at + Throttle <= t.at \/ s.at + Hour <= t.at
  <2>1. CASE s \in S /\ t \in S
    BY <1>7, <2>1 DEF Limits
  <2>2. CASE s \in S /\ t = n
    BY <1>6, <1>7, <2>2
  <2>3. CASE s = n /\ t \in S
    <3>1. t.at = s.at
      BY <1>2, <1>7, <2>3
    <3>2. t.at + Throttle <= n.at \/ t.at + Hour <= n.at
      BY <1>6, <1>7, <2>3
    <3> QED  BY <2>3, <3>1, <3>2
  <2> QED  BY <1>7, <2>1, <2>2, <2>3
<1> HIDE DEF T
<1>8. Limits(T)
  BY <1>5, <1>7 DEF Limits
<1> QED  BY <1>8 DEF T

\* A worker that stops mailing or goes on with the whole log before it.
LEMMA SettledStays ==
  ASSUME Settled, NEW p \in Process, \A q \in Process \ {p} : worker'[q] = worker[q],
         worker'[p].pc \in {"idle", "deciding"}, UNCHANGED <<now, sends>>,
         ~split' => /\ ~split
                    /\ worker'[p].pc = "deciding" =>
                         worker'[p].view = sends /\ \A q \in Process \ {p} : ~Busy(q)
  PROVE  Settled'
<1> SUFFICES ASSUME ~split'
             PROVE  /\ \A x, y \in Process : Busy(x)' /\ Busy(y)' => x = y
                    /\ \A x \in Process : Busy(x)' => worker'[x].view = sends
                    /\ \A x \in Process : worker'[x].pc \in {"sending", "recording"} =>
                         Free(sends, worker'[x].rule, Current(x)', now)
                    /\ \A s \in sends : s.at <= now
                    /\ Limits(sends)
  BY DEF Settled, Limits, Free, InHour, Recent, UpTo
<1>1. \A q \in Process \ {p} : Current(q)' = Current(q)
  BY DEF Current
<1> QED  BY <1>1 DEF Settled, Busy

-----------------------------------------------------------------------------
\* The first state.
LEMMA RulesInit == Init => RulesInv
<1> SUFFICES ASSUME Init PROVE RulesInv
  OBVIOUS
<1>1. /\ now = 0 /\ opened = {} /\ happened = {} /\ asked = {} /\ faults = 0
      /\ queue = [p \in Process |-> <<>>] /\ pending = [p \in Process |-> FALSE]
      /\ worker = [p \in Process |-> Idle] /\ sends = {} /\ mails = [i \in Item |-> 0]
      /\ posted = {}
      /\ split = FALSE /\ unrecorded = FALSE /\ troubled = FALSE /\ crowded = FALSE
  BY DEF Init
<1>2. 0 \in 0..MaxTime /\ 0 \in 0..MaxFaults /\ QueueMax \in Nat
  BY EmailAssumption
<1>3. <<>> \in Seq(Job) /\ Len(<<>>) = 0 /\ Waiting(<<>>) = {}
  BY DEF Waiting
<1>4. \A p \in Process : worker[p] = Idle /\ ~Busy(p)
  BY <1>1, IdleWorker DEF Busy
<1>5. RulesTyped
  <2>1. queue \in [Process -> Seq(Job)] /\ \A p \in Process : Len(queue[p]) <= QueueMax
    BY <1>1, <1>2, <1>3
  <2>2. pending \in [Process -> BOOLEAN] /\ mails \in [Item -> Nat]
    BY <1>1
  <2>3. worker \in [Process -> Workers]
    BY <1>1, IdleWorker
  <2> QED  BY <1>1, <1>2, <1>4, <2>1, <2>2, <2>3 DEF RulesTyped
<1>6. Marks
  BY <1>1, <1>3, <1>4 DEF Marks, Marked
<1>7. Settled
  BY <1>1, <1>4 DEF Settled, Limits, Busy
<1> QED  BY <1>1, <1>5, <1>6, <1>7, FS_EmptySet DEF RulesInv

\* A job is put on a queue, or dropped.
LEMMA SubmitsTyped ==
  ASSUME RulesTyped, NEW p \in Process, NEW j \in Job, Submits(p, j)
  PROVE  /\ queue' \in [Process -> Seq(Job)] /\ \A q \in Process : Len(queue'[q]) <= QueueMax
         /\ troubled' \in BOOLEAN
         /\ queue' = [queue EXCEPT ![p] = queue'[p]]
         /\ queue'[p] = IF Len(queue[p]) < QueueMax THEN Append(queue[p], j) ELSE queue[p]
<1>1. /\ queue \in [Process -> Seq(Job)] /\ \A q \in Process : Len(queue[q]) <= QueueMax
      /\ troubled \in BOOLEAN /\ QueueMax \in Nat
  BY EmailAssumption DEF RulesTyped
<1>2. CASE Len(queue[p]) < QueueMax
  <2> DEFINE a == Append(queue[p], j)
  <2>1. a \in Seq(Job) /\ Len(a) = Len(queue[p]) + 1 /\ Len(queue[p]) \in Nat
    BY <1>1, JobAdds
  <2>2. queue' = [queue EXCEPT ![p] = a] /\ troubled' = troubled
    BY <1>2 DEF Submits
  <2>3. a = Append(queue[p], j)
    OBVIOUS
  <2> HIDE DEF a
  <2> QED  BY <1>1, <1>2, <2>1, <2>2, <2>3
<1>3. CASE ~(Len(queue[p]) < QueueMax)
  <2>1. queue' = queue /\ troubled' = TRUE
    BY <1>3 DEF Submits
  <2> QED  BY <1>1, <1>3, <2>1
<1> QED  BY <1>2, <1>3

\* The workers, the log and the time are as they were.
LEMMA SettledKept ==
  ASSUME Settled, UNCHANGED <<worker, sends, now, split>>
  PROVE  Settled'
BY DEF Settled, Limits, Free, InHour, Recent, UpTo, Busy, Current

\* The hooks put a sweep on a queue and take none off.
LEMMA WaitingOpens ==
  ASSUME RulesTyped, NEW p \in Process, NEW o \in Object, Opens(p, o), NEW q \in Process
  PROVE  Waiting(queue'[q]) = Waiting(queue[q]) /\ (~troubled' => ~troubled)
<1> DEFINE item == [event |-> "alert_opened", object |-> o]
           j == [kind |-> "event", item |-> item]
<1>1. Submits(p, j)
  BY DEF Opens
<1>2. j \in Job /\ j.kind # "sweep"
  <2>1. item \in Item
    BY DEF Item, Event
  <2> HIDE DEF item
  <2> QED  BY <2>1 DEF Job
<1> HIDE DEF j
<1>3. /\ queue' = [queue EXCEPT ![p] = queue'[p]]
      /\ queue'[p] = IF Len(queue[p]) < QueueMax THEN Append(queue[p], j) ELSE queue[p]
  BY <1>1, <1>2, SubmitsTyped
<1>4. queue[p] \in Seq(Job) /\ queue \in [Process -> Seq(Job)]
  BY DEF RulesTyped
<1>5. Waiting(queue'[p]) = Waiting(queue[p])
  BY <1>2, <1>3, <1>4, JobAdds
<1>6. ~troubled' => ~troubled
  BY <1>1 DEF Submits
<1> QED  BY <1>3, <1>4, <1>5, <1>6

LEMMA RulesOpens ==
  ASSUME RulesInv, NEW p \in Process, NEW o \in Object, Opens(p, o)
  PROVE  RulesInv'
<1> DEFINE item == [event |-> "alert_opened", object |-> o]
           j == [kind |-> "event", item |-> item]
<1>1. /\ opened' = opened \cup {o} /\ Submits(p, j)
      /\ UNCHANGED <<now, happened, asked, sends, mails, posted, split, unrecorded, crowded, pending,
                     worker, faults>>
  BY DEF Opens, memory
<1>2. j \in Job /\ j.kind # "sweep"
  <2>1. item \in Item
    BY DEF Item, Event
  <2> HIDE DEF item
  <2> QED  BY <2>1 DEF Job
<1> HIDE DEF j
<1>3. RulesTyped
  BY DEF RulesInv
<1>4. /\ queue' \in [Process -> Seq(Job)] /\ \A q \in Process : Len(queue'[q]) <= QueueMax
      /\ troubled' \in BOOLEAN
      /\ queue' = [queue EXCEPT ![p] = queue'[p]]
      /\ queue'[p] = IF Len(queue[p]) < QueueMax THEN Append(queue[p], j) ELSE queue[p]
  BY <1>1, <1>2, <1>3, SubmitsTyped
<1>5. RulesTyped'
  BY <1>1, <1>3, <1>4 DEF RulesTyped, Busy
<1>6. \A q \in Process : Waiting(queue'[q]) = Waiting(queue[q])
  BY <1>3, WaitingOpens
<1>7. Marks'
  BY <1>1, <1>6 DEF RulesInv, Marks, Marked, Busy
<1>8. Settled'
  BY <1>1, SettledKept DEF RulesInv
<1> QED  BY <1>1, <1>5, <1>7, <1>8 DEF RulesInv

LEMMA RulesSweeps ==
  ASSUME RulesInv, NEW p \in Process, RequestsSweep(p)
  PROVE  RulesInv'
<1>1. /\ asked' = asked \cup {now}
      /\ UNCHANGED <<now, opened, happened, sends, mails, posted, split, unrecorded, crowded, worker, faults>>
  BY DEF RequestsSweep, memory
<1>2. RulesTyped /\ pending \in [Process -> BOOLEAN] /\ queue \in [Process -> Seq(Job)]
  BY DEF RulesInv, RulesTyped
<1>3. Settled'
  BY <1>1, SettledKept DEF RulesInv
<1>4. CASE pending[p]
  <2>1. UNCHANGED <<queue, troubled, pending>>
    BY <1>4 DEF RequestsSweep
  <2> QED  BY <1>1, <1>3, <2>1 DEF RulesInv, RulesTyped, Marks, Busy
<1>5. CASE ~pending[p]
  <2> DEFINE room == Len(queue[p]) < QueueMax
  <2>1. Submits(p, SweepJob) /\ pending' = [pending EXCEPT ![p] = room]
    BY <1>5 DEF RequestsSweep
  <2>2. SweepJob \in Job /\ SweepJob.kind = "sweep"
    BY DEF Job, SweepJob
  <2>3. /\ queue' \in [Process -> Seq(Job)] /\ \A q \in Process : Len(queue'[q]) <= QueueMax
        /\ troubled' \in BOOLEAN
        /\ queue' = [queue EXCEPT ![p] = queue'[p]]
        /\ queue'[p] = IF room THEN Append(queue[p], SweepJob) ELSE queue[p]
    BY <1>2, <2>1, <2>2, SubmitsTyped
  <2>4. room \in BOOLEAN
    OBVIOUS
  <2> HIDE DEF room
  <2>5. pending' \in [Process -> BOOLEAN]
    BY <1>2, <2>1, <2>4
  <2>6. RulesTyped'
    BY <1>1, <1>2, <2>3, <2>5 DEF RulesTyped, Busy
  <2>7. Marked(queue[p], pending[p], Busy(p) /\ worker[p].sweep)
    BY DEF RulesInv, Marks
  <2>8. Waiting(queue[p]) = {} /\ ~(Busy(p) /\ worker[p].sweep)
    BY <1>5, <2>7 DEF Marked
  <2>9. room => \E n : Waiting(queue'[p]) = {n}
    <3> SUFFICES ASSUME room PROVE \E n : Waiting(queue'[p]) = {n}
      OBVIOUS
    <3>1. Waiting(queue'[p]) = Waiting(queue[p]) \cup {Len(queue[p]) + 1}
      BY <1>2, <2>2, <2>3, JobAdds
    <3>2. Waiting(queue'[p]) = {Len(queue[p]) + 1}
      BY <2>8, <3>1
    <3> QED  BY <3>2
  <2>10. pending'[p] = room /\ \A q \in Process \ {p} : pending'[q] = pending[q]
    BY <1>2, <2>1
  <2>11. \A q \in Process \ {p} : queue'[q] = queue[q]
    BY <1>2, <2>3
  <2>12. Marked(queue'[p], room, Busy(p) /\ worker[p].sweep)
    <3>1. CASE room
      BY <2>8, <2>9, <3>1 DEF Marked
    <3>2. CASE ~room
      BY <2>3, <2>8, <3>2 DEF Marked
    <3> QED  BY <3>1, <3>2
  <2>13. \A q \in Process : Marked(queue'[q], pending'[q], Busy(q) /\ worker[q].sweep)
    BY <2>10, <2>11, <2>12 DEF RulesInv, Marks
  <2>14. Marks'
    BY <1>1, <2>13 DEF Marks, Marked, Waiting, Busy
  <2> QED  BY <1>1, <1>3, <2>6, <2>14 DEF RulesInv
<1> QED  BY <1>4, <1>5

-----------------------------------------------------------------------------
\* The steps of a worker.
LEMMA WorkerChanges ==
  ASSUME RulesTyped, NEW p \in Process, NEW new \in Workers, worker' = [worker EXCEPT ![p] = new]
  PROVE  /\ worker' \in [Process -> Workers] /\ worker'[p] = new
         /\ \A q \in Process \ {p} : worker'[q] = worker[q]
BY DEF RulesTyped

LEMMA GoesOnMarks ==
  ASSUME RulesTyped, Marks, NEW p \in Process, Busy(p), NEW n \in BOOLEAN, NEW v \in SUBSET Row,
         GoesOn(p, n, v), queue' = queue
  PROVE  /\ worker' \in [Process -> Workers] /\ \A q \in Process : Busy(q)' => worker'[q].todo # {}
         /\ \A q \in Process \ {p} : worker'[q] = worker[q]
         /\ worker'[p].pc \in {"idle", "deciding"}
         /\ worker'[p].pc = "deciding" => worker'[p].view = v
         /\ pending' \in [Process -> BOOLEAN]
         /\ Marks'
<1>1. PICK new \in Workers :
           /\ worker' = [worker EXCEPT ![p] = new] /\ new.pc \in {"idle", "deciding"}
           /\ new.pc = "deciding" => new.todo # {} /\ new.view = v /\ new.sweep = worker[p].sweep
           /\ pending' = IF new.pc = "idle" /\ worker[p].sweep
                         THEN [pending EXCEPT ![p] = FALSE] ELSE pending
  BY GoesOnTyped
<1>2. /\ worker' \in [Process -> Workers] /\ worker'[p] = new
      /\ \A q \in Process \ {p} : worker'[q] = worker[q]
  BY <1>1, WorkerChanges
<1>3. \A q \in Process : Busy(q)' => worker'[q].todo # {}
  BY <1>1, <1>2 DEF RulesTyped, Busy
<1>4. pending \in [Process -> BOOLEAN]
  BY DEF RulesTyped
<1>5. /\ pending' \in [Process -> BOOLEAN] /\ \A q \in Process \ {p} : pending'[q] = pending[q]
      /\ new.pc = "idle" /\ worker[p].sweep => pending'[p] = FALSE
      /\ ~(new.pc = "idle" /\ worker[p].sweep) => pending'[p] = pending[p]
  <2>1. CASE new.pc = "idle" /\ worker[p].sweep
    BY <1>1, <1>4, <2>1
  <2>2. CASE ~(new.pc = "idle" /\ worker[p].sweep)
    BY <1>1, <1>4, <2>2
  <2> QED  BY <2>1, <2>2
<1>6. Marked(queue[p], pending[p], worker[p].sweep)
  <2>1. Marked(queue[p], pending[p], Busy(p) /\ worker[p].sweep)
    BY DEF Marks
  <2> QED  BY <2>1 DEF Marked
<1>7. Marked(queue[p], pending'[p], new.pc # "idle" /\ new.sweep)
  <2>1. CASE new.pc = "idle" /\ worker[p].sweep
    BY <1>5, <1>6, <2>1 DEF Marked
  <2>2. CASE new.pc = "idle" /\ ~worker[p].sweep
    BY <1>5, <1>6, <2>2 DEF Marked
  <2>3. CASE new.pc # "idle"
    BY <1>1, <1>5, <1>6, <2>3 DEF Marked
  <2> QED  BY <2>1, <2>2, <2>3
<1>8. \A q \in Process : Marked(queue[q], pending'[q], worker'[q].pc # "idle" /\ worker'[q].sweep)
  BY <1>2, <1>5, <1>7 DEF Marks, Busy
<1>9. Marks'
  BY <1>8 DEF Marks, Marked, Waiting, Busy
<1> QED  BY <1>1, <1>2, <1>3, <1>5, <1>9

LEMMA RulesGoesOn ==
  ASSUME RulesInv, NEW p \in Process, Busy(p), NEW n \in BOOLEAN,
         GoesOn(p, n, worker[p].view), UNCHANGED <<world, sends, mails, posted, split, crowded, queue>>,
         unrecorded' \in BOOLEAN, troubled' \in BOOLEAN, faults' \in 0..MaxFaults
  PROVE  RulesInv'
<1>1. RulesTyped /\ Marks /\ Settled /\ IsFiniteSet(sends)
  BY DEF RulesInv
<1>2. worker[p].view \subseteq Row
  BY <1>1, WorkerIs DEF RulesTyped
<1>3. /\ worker' \in [Process -> Workers] /\ \A q \in Process : Busy(q)' => worker'[q].todo # {}
      /\ \A q \in Process \ {p} : worker'[q] = worker[q]
      /\ worker'[p].pc \in {"idle", "deciding"}
      /\ worker'[p].pc = "deciding" => worker'[p].view = worker[p].view
      /\ pending' \in [Process -> BOOLEAN]
      /\ Marks'
  BY <1>1, <1>2, GoesOnMarks
<1>4. RulesTyped'
  BY <1>1, <1>3 DEF RulesTyped, world
<1>5. ~split' => /\ ~split
                 /\ worker'[p].pc = "deciding" =>
                      worker'[p].view = sends /\ \A q \in Process \ {p} : ~Busy(q)
  BY <1>1, <1>3 DEF Settled
<1>6. UNCHANGED <<now, sends>>
  BY DEF world
<1>7. Settled'
  BY <1>1, <1>3, <1>5, <1>6, SettledStays
<1> QED  BY <1>1, <1>3, <1>4, <1>7 DEF RulesInv

LEMMA RulesRefused ==
  ASSUME RulesInv, NEW p \in Process, Refused(p) \/ NotRecorded(p), faults' \in 0..MaxFaults
  PROVE  RulesInv'
<1>1. CASE Refused(p)
  <2>1. /\ Busy(p) /\ GoesOn(p, FALSE, worker[p].view) /\ troubled' = TRUE
        /\ UNCHANGED <<world, sends, mails, posted, split, unrecorded, crowded, queue>>
    BY <1>1 DEF Refused, Busy, memory
  <2>2. unrecorded' \in BOOLEAN /\ troubled' \in BOOLEAN
    BY <2>1 DEF RulesInv, RulesTyped
  <2> QED  BY <2>1, <2>2, RulesGoesOn
<1>2. CASE NotRecorded(p)
  <2>1. /\ Busy(p) /\ GoesOn(p, TRUE, worker[p].view) /\ troubled' = TRUE /\ unrecorded' = TRUE
        /\ UNCHANGED <<world, sends, mails, posted, split, crowded, queue>>
    BY <1>2 DEF NotRecorded, Busy, memory
  <2> QED  BY <2>1, RulesGoesOn
<1> QED  BY <1>1, <1>2

\* What a sweep or an event gives the worker to do.
LEMMA TodoTyped ==
  ASSUME RulesTyped, NEW j \in Job
  PROVE  (IF j.kind = "sweep" THEN SweepItems ELSE {j.item}) \subseteq Item
<1>1. SweepItems \subseteq Item
  BY DEF RulesTyped, SweepItems
<1>2. j.kind # "sweep" => j.item \in Item
  BY DEF Job
<1> QED  BY <1>1, <1>2

LEMMA RulesTakes ==
  ASSUME RulesInv, NEW p \in Process, Takes(p)
  PROVE  RulesInv'
<1> DEFINE job == Head(queue[p])
           sweep == job.kind = "sweep"
           todo == IF sweep THEN SweepItems ELSE {job.item}
           new == IF todo = {} THEN Idle
                  ELSE [pc |-> "deciding", sweep |-> sweep, todo |-> todo, rule |-> 1, view |-> sends]
           keep == sweep => todo # {}
<1>1. /\ ~Busy(p) /\ queue[p] # <<>> /\ queue' = [queue EXCEPT ![p] = Tail(@)]
      /\ worker' = [worker EXCEPT ![p] = new]
      /\ pending' = [pending EXCEPT ![p] = @ /\ keep]
      /\ split' = (split \/ (todo # {} /\ \E q \in Process \ {p} : Busy(q)))
      /\ crowded' = (crowded \/ (sweep /\ Overfull))
      /\ UNCHANGED <<world, sends, mails, posted, unrecorded, troubled, faults>>
  BY DEF Takes, memory
<1>2. /\ RulesTyped /\ Marks /\ Settled /\ queue \in [Process -> Seq(Job)] /\ queue[p] \in Seq(Job)
      /\ pending \in [Process -> BOOLEAN] /\ sends \subseteq Row
  BY DEF RulesInv, RulesTyped
<1>3. /\ job \in Job /\ Tail(queue[p]) \in Seq(Job)
      /\ Len(Tail(queue[p])) = Len(queue[p]) - 1 /\ Len(queue[p]) \in Nat
      /\ \A on \in BOOLEAN : Marked(queue[p], on, FALSE) =>
              IF sweep THEN on /\ Waiting(Tail(queue[p])) = {}
                       ELSE Marked(Tail(queue[p]), on, FALSE)
  BY <1>1, <1>2, JobTakes
<1>4. todo \subseteq Item /\ sweep \in BOOLEAN /\ (~sweep => todo # {})
  BY <1>2, <1>3, TodoTyped
<1>5. /\ new \in Workers
      /\ todo = {} => new.pc = "idle"
      /\ todo # {} => new.pc = "deciding" /\ new.todo = todo /\ new.view = sends /\ new.sweep = sweep
  <2> HIDE DEF todo, sweep
  <2>1. CASE todo = {}
    BY <2>1, IdleWorker
  <2>2. CASE todo # {}
    <3>1. new = [pc |-> "deciding", sweep |-> sweep, todo |-> todo, rule |-> 1, view |-> sends]
      BY <2>2
    <3> HIDE DEF new
    <3>2. /\ new = [pc |-> new.pc, sweep |-> new.sweep, todo |-> new.todo, rule |-> new.rule,
                    view |-> new.view]
          /\ new.pc = "deciding" /\ new.todo = todo /\ new.view = sends /\ new.sweep = sweep
          /\ new.rule = 1
      BY <3>1
    <3>3. 1 \in Rule
      BY EmailAssumption DEF Rule
    <3>4. new \in Workers
      BY <1>2, <1>4, <3>2, <3>3, IsAWorker
    <3> QED  BY <2>2, <3>2, <3>4
  <2> QED  BY <2>1, <2>2
<1> HIDE DEF new
<1>6. /\ worker' \in [Process -> Workers] /\ worker'[p] = new
      /\ \A q \in Process \ {p} : worker'[q] = worker[q]
  BY <1>1, <1>2, <1>5, WorkerChanges
<1>7. /\ queue' \in [Process -> Seq(Job)] /\ queue'[p] = Tail(queue[p])
      /\ \A q \in Process \ {p} : queue'[q] = queue[q]
  BY <1>1, <1>2, <1>3
<1>8. \A q \in Process : Len(queue'[q]) <= QueueMax
  <2>1. QueueMax \in Nat /\ \A q \in Process : Len(queue[q]) <= QueueMax
    BY <1>2, EmailAssumption DEF RulesTyped
  <2>2. Len(queue'[p]) <= QueueMax
    <3> HIDE DEF job, sweep
    <3> QED  BY <1>3, <1>7, <2>1
  <2> QED  BY <1>7, <2>1, <2>2
<1>9. Marked(queue[p], pending[p], FALSE) /\ pending[p] \in BOOLEAN
  <2>1. Marked(queue[p], pending[p], Busy(p) /\ worker[p].sweep)
    BY <1>2 DEF Marks
  <2> QED  BY <1>1, <1>2, <2>1 DEF Marked
<1>10. pending' \in [Process -> BOOLEAN] /\ pending'[p] = (pending[p] /\ keep)
       /\ \A q \in Process \ {p} : pending'[q] = pending[q]
  <2>1. keep \in BOOLEAN
    OBVIOUS
  <2> HIDE DEF keep
  <2>2. (pending[p] /\ keep) \in BOOLEAN
    BY <1>9, <2>1
  <2> QED  BY <1>1, <1>2, <2>2
<1> HIDE DEF job, sweep, todo
<1>11. Marked(queue'[p], pending'[p], new.pc # "idle" /\ new.sweep)
  <2>1. IF sweep THEN pending[p] /\ Waiting(queue'[p]) = {}
                 ELSE Marked(queue'[p], pending[p], FALSE)
    BY <1>3, <1>7, <1>9
  <2>2. CASE sweep /\ todo = {}
    <3>1. pending'[p] = FALSE /\ new.pc = "idle" /\ Waiting(queue'[p]) = {}
      BY <1>5, <1>10, <2>1, <2>2
    <3> QED  BY <3>1 DEF Marked
  <2>3. CASE sweep /\ todo # {}
    <3>1. pending'[p] = TRUE /\ new.pc = "deciding" /\ new.sweep /\ Waiting(queue'[p]) = {}
      BY <1>5, <1>10, <2>1, <2>3
    <3> QED  BY <3>1 DEF Marked
  <2>4. CASE ~sweep
    <3>1. pending'[p] = pending[p] /\ new.pc = "deciding" /\ ~new.sweep
      BY <1>4, <1>5, <1>9, <1>10, <2>4
    <3>2. Marked(queue'[p], pending[p], FALSE)
      BY <2>1, <2>4
    <3> QED  BY <3>1, <3>2 DEF Marked
  <2> QED  BY <2>2, <2>3, <2>4
<1>12. Marks'
  <2>1. \A q \in Process : Marked(queue'[q], pending'[q], worker'[q].pc # "idle" /\ worker'[q].sweep)
    BY <1>2, <1>6, <1>7, <1>10, <1>11 DEF Marks, Busy
  <2> QED  BY <2>1 DEF Marks, Marked, Waiting, Busy
<1>13. \A q \in Process : Busy(q)' => worker'[q].todo # {}
  BY <1>2, <1>5, <1>6 DEF RulesTyped, Busy
<1>14. split' \in BOOLEAN /\ crowded' \in BOOLEAN
  BY <1>1
<1>15. RulesTyped'
  BY <1>1, <1>2, <1>6, <1>7, <1>8, <1>10, <1>13, <1>14 DEF RulesTyped, world
<1>16. Settled'
  <2>1. ~split' => /\ ~split
                   /\ worker'[p].pc = "deciding" =>
                        worker'[p].view = sends /\ \A q \in Process \ {p} : ~Busy(q)
    <3>1. split \in BOOLEAN
      BY <1>2 DEF RulesTyped
    <3> QED  BY <1>1, <1>5, <1>6, <3>1
  <2>2. worker'[p].pc \in {"idle", "deciding"} /\ UNCHANGED <<now, sends>>
    BY <1>1, <1>5, <1>6 DEF world
  <2> QED  BY <1>2, <1>6, <2>1, <2>2, SettledStays
<1> QED  BY <1>1, <1>12, <1>15, <1>16 DEF RulesInv

\* A worker that begins to mail, or has mailed.
LEMMA PcChanges ==
  ASSUME RulesTyped, Marks, NEW p \in Process, Busy(p), NEW s \in {"sending", "recording"},
         worker' = [worker EXCEPT ![p].pc = s], UNCHANGED <<queue, pending>>
  PROVE  /\ worker' \in [Process -> Workers] /\ \A q \in Process : Busy(q)' => worker'[q].todo # {}
         /\ \A q \in Process : /\ worker'[q].pc = IF q = p THEN s ELSE worker[q].pc
                               /\ worker'[q].todo = worker[q].todo
                               /\ worker'[q].rule = worker[q].rule
                               /\ worker'[q].view = worker[q].view
                               /\ worker'[q].sweep = worker[q].sweep
         /\ Marks'
<1> DEFINE w == worker[p]
           new == [w EXCEPT !.pc = s]
<1>1. worker' = [worker EXCEPT ![p] = new] /\ w \in Workers
  BY DEF RulesTyped
<1>2. /\ w = [pc |-> w.pc, sweep |-> w.sweep, todo |-> w.todo, rule |-> w.rule, view |-> w.view]
      /\ w.sweep \in BOOLEAN /\ w.todo \subseteq Item /\ w.rule \in Rule /\ w.view \subseteq Row
  BY <1>1, WorkerIs
<1> HIDE DEF w
<1>3. /\ new = [pc |-> new.pc, sweep |-> new.sweep, todo |-> new.todo, rule |-> new.rule,
                view |-> new.view]
      /\ new.pc = s /\ new.sweep = w.sweep /\ new.todo = w.todo /\ new.rule = w.rule
      /\ new.view = w.view
  BY <1>2
<1>4. new \in Workers
  <2> HIDE DEF new
  <2> QED  BY <1>2, <1>3, IsAWorker
<1> HIDE DEF new
<1>5. /\ worker' \in [Process -> Workers] /\ worker'[p] = new
      /\ \A q \in Process \ {p} : worker'[q] = worker[q]
  BY <1>1, <1>4, WorkerChanges
<1>6. \A q \in Process : /\ worker'[q].pc = IF q = p THEN s ELSE worker[q].pc
                         /\ worker'[q].todo = worker[q].todo
                         /\ worker'[q].rule = worker[q].rule
                         /\ worker'[q].view = worker[q].view
                         /\ worker'[q].sweep = worker[q].sweep
  BY <1>3, <1>5 DEF w
<1>7. \A q \in Process : Busy(q)' <=> Busy(q)
  BY <1>6 DEF Busy
<1>8. \A q \in Process : Busy(q)' => worker'[q].todo # {}
  BY <1>6, <1>7 DEF RulesTyped
<1>9. Marks'
  <2>1. \A q \in Process : Marked(queue[q], pending[q], Busy(q)' /\ worker'[q].sweep)
    BY <1>6, <1>7 DEF Marks
  <2> QED  BY <2>1 DEF Marks, Marked, Waiting
<1> QED  BY <1>5, <1>6, <1>8, <1>9

LEMMA CurrentIn ==
  ASSUME RulesTyped, NEW p \in Process, Busy(p)
  PROVE  Current(p) \in worker[p].todo /\ Current(p) \in Item
<1>1. worker[p].todo \subseteq Item /\ worker[p].todo # {}
  BY WorkerIs DEF RulesTyped
<1> QED  BY <1>1, FirstIn DEF Current

LEMMA RulesDecides ==
  ASSUME RulesInv, NEW p \in Process, Decides(p)
  PROVE  RulesInv'
<1>1. /\ worker[p].pc = "deciding" /\ Busy(p)
      /\ UNCHANGED <<world, sends, mails, posted, split, unrecorded, troubled, crowded, queue, faults>>
  BY DEF Decides, Busy, memory, ghosts
<1>2. RulesTyped /\ Marks /\ Settled
  BY DEF RulesInv
<1>3. CASE GoesOn(p, FALSE, worker[p].view)
  <2>1. unrecorded' \in BOOLEAN /\ troubled' \in BOOLEAN /\ faults' \in 0..MaxFaults
    BY <1>1, <1>2 DEF RulesTyped
  <2> QED  BY <1>1, <1>3, <2>1, RulesGoesOn
<1>4. CASE /\ Decide(worker[p].view, worker[p].rule, Current(p))
           /\ worker' = [worker EXCEPT ![p].pc = "sending"] /\ UNCHANGED pending
  <2>1. /\ worker' \in [Process -> Workers] /\ \A q \in Process : Busy(q)' => worker'[q].todo # {}
        /\ \A q \in Process : /\ worker'[q].pc = IF q = p THEN "sending" ELSE worker[q].pc
                              /\ worker'[q].todo = worker[q].todo
                              /\ worker'[q].rule = worker[q].rule
                              /\ worker'[q].view = worker[q].view
        /\ Marks'
    BY <1>1, <1>2, <1>4, PcChanges
  <2>2. RulesTyped'
    BY <1>1, <1>2, <1>4, <2>1 DEF RulesTyped, world
  <2>3. \A q \in Process : Current(q)' = Current(q)
    BY <2>1 DEF Current
  <2>4. Free(worker[p].view, worker[p].rule, Current(p), now)
    BY <1>4 DEF Decide, Free
  <2>5. Settled'
    <3> SUFFICES ASSUME ~split
                 PROVE  /\ \A x, y \in Process : Busy(x)' /\ Busy(y)' => x = y
                        /\ \A x \in Process : Busy(x)' => worker'[x].view = sends
                        /\ \A x \in Process : worker'[x].pc \in {"sending", "recording"} =>
                             Free(sends, worker'[x].rule, Current(x)', now)
                        /\ \A s \in sends : s.at <= now
                        /\ Limits(sends)
      BY <1>1 DEF world, Settled, Limits, Free, InHour, Recent, UpTo
    <3>1. \A q \in Process : Busy(q)' <=> Busy(q)
      BY <1>1, <2>1 DEF Busy
    <3>2. worker[p].view = sends
      BY <1>1, <1>2 DEF Settled
    <3> QED  BY <1>2, <2>1, <2>3, <2>4, <3>1, <3>2 DEF Settled
  <2> QED  BY <1>1, <2>1, <2>2, <2>5 DEF RulesInv
<1> QED  BY <1>3, <1>4 DEF Decides

\* What is mailed, or its row.
LEMMA NewRowIs ==
  ASSUME RulesTyped, NEW p \in Process, Busy(p)
  PROVE  /\ NewRow(p) \in Row /\ NewRow(p).rule = worker[p].rule /\ NewRow(p).at = now
         /\ NewRow(p).event = Current(p).event /\ NewRow(p).object = Current(p).object
<1> DEFINE i == Current(p)  r == worker[p].rule  n == NewRow(p)
<1>1. i \in Item /\ r \in Rule /\ now \in 0..MaxTime
  BY CurrentIn, WorkerIs DEF RulesTyped
<1>2. n = [rule |-> r, event |-> i.event, object |-> i.object, at |-> now]
  BY DEF NewRow
<1> HIDE DEF i, r, n
<1>3. n \in Row /\ n.rule = r /\ n.event = i.event /\ n.object = i.object /\ n.at = now
  BY <1>1, <1>2 DEF Row, Item
<1> QED  BY <1>3 DEF i, r, n

LEMMA RulesSends ==
  ASSUME RulesInv, NEW p \in Process, Sends(p)
  PROVE  RulesInv'
<1>1. /\ worker[p].pc = "sending" /\ Busy(p)
      /\ worker' = [worker EXCEPT ![p].pc = "recording"]
      /\ mails' = [mails EXCEPT ![Current(p)] = @ + 1]
      /\ posted' = posted \cup {NewRow(p)}
      /\ UNCHANGED <<world, sends, split, unrecorded, troubled, crowded, queue, pending, faults>>
  BY DEF Sends, Busy, ghosts
<1>2. RulesTyped /\ Marks /\ Settled
  BY DEF RulesInv
<1>3. /\ worker' \in [Process -> Workers] /\ \A q \in Process : Busy(q)' => worker'[q].todo # {}
      /\ \A q \in Process : /\ worker'[q].pc = IF q = p THEN "recording" ELSE worker[q].pc
                            /\ worker'[q].todo = worker[q].todo
                            /\ worker'[q].rule = worker[q].rule
                            /\ worker'[q].view = worker[q].view
      /\ Marks'
  BY <1>1, <1>2, PcChanges
<1>4. mails' \in [Item -> Nat]
  <2> DEFINE c == Current(p)
  <2>1. c \in Item /\ mails' = [mails EXCEPT ![c] = @ + 1] /\ mails \in [Item -> Nat]
    BY <1>1, <1>2, CurrentIn DEF RulesTyped
  <2> HIDE DEF c
  <2> QED  BY <2>1
<1>5. RulesTyped'
  <2>1. NewRow(p) \in Row
    BY <1>1, <1>2, NewRowIs
  <2>2. posted' \subseteq Row
    BY <1>1, <1>2, <2>1 DEF RulesTyped
  <2> QED  BY <1>1, <1>2, <1>3, <1>4, <2>2 DEF RulesTyped, world
<1>6. \A q \in Process : Current(q)' = Current(q)
  BY <1>3 DEF Current
<1>7. Settled'
  <2> SUFFICES ASSUME ~split
               PROVE  /\ \A x, y \in Process : Busy(x)' /\ Busy(y)' => x = y
                      /\ \A x \in Process : Busy(x)' => worker'[x].view = sends
                      /\ \A x \in Process : worker'[x].pc \in {"sending", "recording"} =>
                           Free(sends, worker'[x].rule, Current(x)', now)
                      /\ \A s \in sends : s.at <= now
                      /\ Limits(sends)
    BY <1>1 DEF world, Settled, Limits, Free, InHour, Recent, UpTo
  <2>1. \A q \in Process : Busy(q)' <=> Busy(q)
    BY <1>1, <1>3 DEF Busy
  <2> QED  BY <1>1, <1>2, <1>3, <1>6, <2>1 DEF Settled
<1> QED  BY <1>1, <1>3, <1>5, <1>7 DEF RulesInv

LEMMA RulesRecords ==
  ASSUME RulesInv, NEW p \in Process, Records(p)
  PROVE  RulesInv'
<1> DEFINE r == worker[p].rule
           i == Current(p)
           n == NewRow(p)
<1>1. /\ worker[p].pc = "recording" /\ Busy(p) /\ GoesOn(p, FALSE, sends')
      /\ sends' = IF Already(sends, r, i) THEN sends ELSE sends \cup {n}
      /\ UNCHANGED <<world, mails, posted, split, unrecorded, troubled, crowded, queue, faults>>
  BY DEF Records, Busy, ghosts
<1>2. RulesTyped /\ Marks /\ Settled /\ IsFiniteSet(sends) /\ sends \subseteq Row
  BY DEF RulesInv, RulesTyped
<1>3. now \in 0..MaxTime
  BY <1>2 DEF RulesTyped
<1>5. n \in Row /\ n.rule = r /\ n.event = i.event /\ n.object = i.object /\ n.at = now
  BY <1>1, <1>2, NewRowIs
<1> HIDE DEF n
<1>6. sends' \subseteq Row /\ IsFiniteSet(sends')
  BY <1>1, <1>2, <1>5, FS_AddElement
<1>7. /\ worker' \in [Process -> Workers] /\ \A q \in Process : Busy(q)' => worker'[q].todo # {}
      /\ \A q \in Process \ {p} : worker'[q] = worker[q]
      /\ worker'[p].pc \in {"idle", "deciding"}
      /\ worker'[p].pc = "deciding" => worker'[p].view = sends'
      /\ pending' \in [Process -> BOOLEAN]
      /\ Marks'
  BY <1>1, <1>2, <1>6, GoesOnMarks
<1>8. RulesTyped'
  BY <1>1, <1>2, <1>6, <1>7 DEF RulesTyped, world
<1>9. Settled'
  <2> SUFFICES ASSUME ~split
               PROVE  /\ \A x, y \in Process : Busy(x)' /\ Busy(y)' => x = y
                      /\ \A x \in Process : Busy(x)' => worker'[x].view = sends'
                      /\ \A x \in Process : worker'[x].pc \notin {"sending", "recording"}
                      /\ \A s \in sends' : s.at <= now
                      /\ Limits(sends')
    BY <1>1 DEF world, Settled, Limits, UpTo
  <2>1. \A q \in Process \ {p} : worker[q].pc = "idle"
    BY <1>1, <1>2 DEF Settled, Busy
  <2>2. /\ \A x, y \in Process : Busy(x)' /\ Busy(y)' => x = y
        /\ \A x \in Process : Busy(x)' => worker'[x].view = sends'
        /\ \A x \in Process : worker'[x].pc \notin {"sending", "recording"}
    BY <1>7, <2>1 DEF Busy
  <2>3. Limits(sends) /\ Free(sends, r, i, now) /\ \A s \in sends : s.at <= now
    BY <1>1, <1>2 DEF Settled
  <2>4. CASE Already(sends, r, i)
    BY <1>1, <2>2, <2>3, <2>4
  <2>5. CASE ~Already(sends, r, i)
    <3>1. n \notin sends
      BY <1>5, <2>5 DEF Already
    <3> HIDE DEF r, i
    <3>2. Limits(sends \cup {n})
      BY <1>2, <1>5, <2>3, <3>1, LimitsGrow
    <3>3. sends' = sends \cup {n}
      BY <1>1, <2>5
    <3>4. \A s \in sends' : s.at <= now
      BY <1>3, <1>5, <2>3, <3>3
    <3> QED  BY <2>2, <3>2, <3>3, <3>4
  <2> QED  BY <2>4, <2>5
<1> QED  BY <1>6, <1>7, <1>8, <1>9 DEF RulesInv

LEMMA RulesCrashes ==
  ASSUME RulesInv, NEW p \in Process, Crashes(p), faults' \in 0..MaxFaults
  PROVE  RulesInv'
<1>1. /\ unrecorded' = (unrecorded \/ worker[p].pc = "recording") /\ troubled' = TRUE
      /\ queue' = [queue EXCEPT ![p] = <<>>] /\ pending' = [pending EXCEPT ![p] = FALSE]
      /\ worker' = [worker EXCEPT ![p] = Idle]
      /\ UNCHANGED <<world, sends, mails, posted, split, crowded>>
  BY DEF Crashes, memory
<1>2. /\ RulesTyped /\ Marks /\ Settled /\ IsFiniteSet(sends)
      /\ queue \in [Process -> Seq(Job)] /\ pending \in [Process -> BOOLEAN]
      /\ \A q \in Process : Len(queue[q]) <= QueueMax
      /\ QueueMax \in Nat
  BY EmailAssumption DEF RulesInv, RulesTyped
<1>3. /\ worker' \in [Process -> Workers] /\ worker'[p] = Idle
      /\ \A q \in Process \ {p} : worker'[q] = worker[q]
  BY <1>1, <1>2, IdleWorker, WorkerChanges
<1>4. /\ queue' \in [Process -> Seq(Job)] /\ queue'[p] = <<>>
      /\ \A q \in Process \ {p} : queue'[q] = queue[q]
      /\ pending' \in [Process -> BOOLEAN] /\ pending'[p] = FALSE
      /\ \A q \in Process \ {p} : pending'[q] = pending[q]
  BY <1>1, <1>2
<1>5. \A q \in Process : Len(queue'[q]) <= QueueMax
  <2>1. Len(queue'[p]) = 0 /\ 0 <= QueueMax
    BY <1>2, <1>4
  <2> QED  BY <1>2, <1>4, <2>1
<1>6. \A q \in Process : Busy(q)' => worker'[q].todo # {}
  BY <1>2, <1>3, IdleWorker DEF RulesTyped, Busy
<1>7. unrecorded' \in BOOLEAN
  BY <1>1
<1>8. RulesTyped'
  BY <1>1, <1>2, <1>3, <1>4, <1>5, <1>6, <1>7 DEF RulesTyped, world
<1>9. Waiting(<<>>) = {}
  BY DEF Waiting
<1>10. Marked(queue'[p], FALSE, FALSE)
  BY <1>4, <1>9 DEF Marked
<1>11. Marks'
  <2>1. ~(worker'[p].pc # "idle" /\ worker'[p].sweep)
    BY <1>3, IdleWorker
  <2>2. Marked(queue'[p], pending'[p], worker'[p].pc # "idle" /\ worker'[p].sweep)
    BY <1>4, <1>10, <2>1 DEF Marked
  <2>3. \A q \in Process : Marked(queue'[q], pending'[q], worker'[q].pc # "idle" /\ worker'[q].sweep)
    BY <1>2, <1>3, <1>4, <2>2 DEF Marks, Busy
  <2> QED  BY <2>3 DEF Marks, Marked, Waiting, Busy
<1>12. Settled'
  <2>1. worker'[p].pc = "idle" /\ (~split' => ~split) /\ UNCHANGED <<now, sends>>
    BY <1>1, <1>3, IdleWorker DEF world
  <2> QED  BY <1>2, <1>3, <2>1, SettledStays
<1> QED  BY <1>1, <1>2, <1>8, <1>11, <1>12 DEF RulesInv

-----------------------------------------------------------------------------
\* What happens, and time.
LEMMA RulesHappens ==
  ASSUME RulesInv, NEW e \in Swept, NEW o \in Object, Happens(e, o)
  PROVE  RulesInv'
<1> DEFINE x == [event |-> e, object |-> o, at |-> now]
<1>1. /\ happened' = happened \cup {x}
      /\ UNCHANGED <<now, opened, asked, sends, mails, posted, split, unrecorded, troubled, crowded, queue,
                     pending, worker, faults>>
  BY DEF Happens, memory, ghosts
<1>2. x \in [event: Swept, object: Object, at: 0..MaxTime]
  BY DEF RulesInv, RulesTyped
<1> HIDE DEF x
<1>3. RulesTyped'
  BY <1>1, <1>2 DEF RulesInv, RulesTyped, Busy
<1>4. Marks'
  BY <1>1 DEF RulesInv, Marks, Busy
<1>5. Settled'
  BY <1>1, SettledKept DEF RulesInv
<1> QED  BY <1>1, <1>3, <1>4, <1>5 DEF RulesInv

LEMMA RulesPass ==
  ASSUME RulesInv, Passes, faults' \in 0..MaxFaults
  PROVE  RulesInv'
<1>1. /\ now < MaxTime /\ now' = now + 1 /\ asked' = asked /\ (troubled' = TRUE \/ troubled' = troubled)
      /\ UNCHANGED <<opened, happened, sends, mails, posted, split, unrecorded, crowded, queue, pending, worker>>
  BY DEF Passes, memory
<1>2. RulesTyped /\ Settled /\ IsFiniteSet(sends) /\ now \in 0..MaxTime /\ MaxTime \in Nat
  BY EmailAssumption DEF RulesInv, RulesTyped
<1>3. now' \in 0..MaxTime /\ now \in Nat /\ now + 1 \in Nat /\ troubled' \in BOOLEAN
  <2>1. troubled' \in BOOLEAN
    BY <1>1, <1>2, Zenon DEF RulesTyped
  <2> QED  BY <1>1, <1>2, <2>1
<1>4. RulesTyped'
  BY <1>1, <1>2, <1>3 DEF RulesTyped, Busy
<1>5. Marks'
  BY <1>1 DEF RulesInv, Marks, Busy
<1>6. Settled'
  <2> SUFFICES ASSUME ~split
               PROVE  /\ \A x, y \in Process : Busy(x) /\ Busy(y) => x = y
                      /\ \A x \in Process : Busy(x) => worker[x].view = sends
                      /\ \A x \in Process : worker[x].pc \in {"sending", "recording"} =>
                           Free(sends, worker[x].rule, Current(x), now + 1)
                      /\ \A s \in sends : s.at <= now + 1
                      /\ Limits(sends)
    BY <1>1 DEF Settled, Limits, Free, InHour, Recent, UpTo, Busy, Current
  <2>1. ASSUME NEW x \in Process, worker[x].pc \in {"sending", "recording"}
        PROVE  Free(sends, worker[x].rule, Current(x), now + 1)
    <3> DEFINE r == worker[x].rule
               i == Current(x)
    <3>1. Free(sends, r, i, now) /\ sends \subseteq Row /\ now <= now + 1
      BY <1>2, <1>3, <2>1 DEF Settled, RulesTyped
    <3> HIDE DEF r, i
    <3>2. Free(sends, r, i, now + 1)
      BY <1>2, <1>3, <3>1, FreeLater
    <3> QED  BY <3>2 DEF r, i
  <2>2. \A s \in sends : s.at <= now + 1
    <3>1. \A s \in sends : s.at \in Nat /\ s.at <= now
      BY <1>2 DEF Settled, RulesTyped, Row
    <3> QED  BY <1>3, <3>1
  <2> QED  BY <1>2, <2>1, <2>2 DEF Settled
<1> QED  BY <1>1, <1>2, <1>4, <1>5, <1>6 DEF RulesInv

LEMMA RulesNext ==
  ASSUME RulesInv, [ServicesNext]_servicesVars
  PROVE  RulesInv'
<1>1. faults' \in 0..MaxFaults
  BY FaultsStay DEF RulesInv, RulesTyped
<1>2. CASE Next
  BY <1>1, <1>2, RulesTakes, RulesDecides, RulesSends, RulesRecords, RulesRefused, RulesCrashes,
     RulesSweeps, RulesOpens, RulesHappens, RulesPass DEF Next, Works
<1>3. CASE UNCHANGED ofRules
  <2>1. UNCHANGED <<now, opened, happened, asked, sends, mails, posted, split, unrecorded, troubled, crowded,
                    queue, pending, worker>>
    BY <1>3 DEF ofRules, memory, ghosts
  <2>2. RulesTyped'
    BY <1>1, <2>1 DEF RulesInv, RulesTyped, Busy
  <2>3. Marks'
    BY <2>1 DEF RulesInv, Marks, Busy
  <2>4. Settled'
    BY <2>1, SettledKept DEF RulesInv
  <2> QED  BY <2>1, <2>2, <2>3, <2>4 DEF RulesInv
<1> QED  BY <1>2, <1>3, RulesSteps DEF vars, ofRules, world

-----------------------------------------------------------------------------
(* Email rules: the mails themselves keep the limits, and not only their rows. *)

SameItem(m, n) == m.event = n.event /\ m.object = n.object

\* Each mail went out once and has its row, written with it or later, or is about to have it.
Logged ==
  /\ \A m, n \in posted : SameItem(m, n) => m = n
  /\ \A m \in posted :
       \/ \E s \in sends : s.rule = m.rule /\ SameItem(s, m) /\ m.at <= s.at
       \/ \E p \in Process : /\ worker[p].pc = "recording" /\ worker[p].rule = m.rule
                             /\ SameItem(Current(p), m)
  /\ \A m \in posted : m.at <= now

PostedInv == IsFiniteSet(posted) /\ (split \/ unrecorded \/ (Logged /\ Limits(posted)))

LimitsInv == RulesInv /\ Shape /\ MailInv /\ PostedInv

\* What the rows allow, the mails allow.
LEMMA FreeByRows ==
  ASSUME NEW S \in SUBSET Row, IsFiniteSet(S), NEW P \in SUBSET Row,
         \A m, n \in P : SameItem(m, n) => m = n,
         \A m \in P : \E s \in S : s.rule = m.rule /\ SameItem(s, m) /\ m.at <= s.at,
         NEW r, NEW i, NEW t \in Nat, Free(S, r, i, t)
  PROVE  Free(P, r, i, t)
<1>1. Hour \in Nat /\ Throttle \in Nat /\ Cap \in Nat /\ MaxTime \in Nat
  BY EmailAssumption
<1>2. \A s \in S \cup P : s.at \in Nat
  BY <1>1 DEF Row
<1> DEFINE A == InHour(P, r, t)
           B == InHour(S, r, t)
           f == [m \in A |-> CHOOSE s \in S : s.rule = m.rule /\ SameItem(s, m) /\ m.at <= s.at]
<1>3. ASSUME NEW m \in A
      PROVE  f[m] \in S /\ f[m].rule = m.rule /\ SameItem(f[m], m) /\ m.at <= f[m].at
  BY DEF InHour
<1>4. f \in Injection(A, B)
  <2>1. f \in [A -> B]
    <3>1. ASSUME NEW m \in A PROVE f[m] \in B
      <4>1. m.rule = r /\ m.at + Hour > t /\ m \in P
        BY DEF InHour
      <4>2. f[m] \in S /\ f[m].rule = r /\ f[m].at + Hour > t
        <5> HIDE DEF f, A, B
        <5> QED  BY <1>1, <1>2, <1>3, <4>1
      <4> QED  BY <4>2 DEF InHour
    <3> QED  BY <3>1
  <2>2. ASSUME NEW m \in A, NEW n \in A, f[m] = f[n] PROVE m = n
    <3>1. m \in P /\ n \in P
      BY DEF InHour
    <3>2. SameItem(f[m], m) /\ SameItem(f[n], n)
      BY <1>3
    <3> HIDE DEF f, A, B
    <3> QED  BY <2>2, <3>1, <3>2 DEF SameItem
  <2> HIDE DEF f, A, B
  <2> QED  BY <2>1, <2>2 DEF Injection, IsInjective
<1>5. Cardinality(A) < Cap
  <2>1. IsFiniteSet(B) /\ Cardinality(B) < Cap
    BY FS_Subset DEF InHour, Free
  <2> HIDE DEF f, A, B
  <2>2. IsFiniteSet(A) /\ Cardinality(A) <= Cardinality(B)
    BY <1>4, <2>1, FS_Injection
  <2>3. Cardinality(A) \in Nat /\ Cardinality(B) \in Nat
    BY <2>1, <2>2, FS_CardinalityType
  <2> QED  BY <1>1, <2>1, <2>2, <2>3
<1>6. Recent(P, r, i, t) = {}
  <2> SUFFICES ASSUME NEW m \in Recent(P, r, i, t) PROVE FALSE
    OBVIOUS
  <2>1. m \in P /\ m.rule = r /\ m.at + Hour > t /\ m.event = i.event /\ Res[m.object] = Res[i.object]
        /\ ~IsIncident(i.object) /\ m.at + Throttle > t
    BY DEF Recent, InHour
  <2>2. PICK s \in S : s.rule = m.rule /\ SameItem(s, m) /\ m.at <= s.at
    BY <2>1
  <2>3. s.at + Hour > t /\ s.at + Throttle > t
    BY <1>1, <1>2, <2>1, <2>2
  <2>4. s \in Recent(S, r, i, t)
    BY <2>1, <2>2, <2>3 DEF Recent, InHour, SameItem
  <2> QED  BY <2>4 DEF Free
<1> QED  BY <1>5, <1>6 DEF Free

\* Nothing is mailed or written, and who is recording goes on with that.
LEMMA PostedStays ==
  ASSUME RulesInv, PostedInv, UNCHANGED <<posted, sends>>, now' \in Nat, now <= now',
         ~split' => ~split, ~unrecorded' => ~unrecorded,
         ~unrecorded' => \A q \in Process : worker[q].pc = "recording" => worker'[q] = worker[q]
  PROVE  PostedInv'
<1> SUFFICES ASSUME ~split', ~unrecorded' PROVE Logged' /\ Limits(posted)'
  BY DEF PostedInv
<1>1. Logged /\ Limits(posted)
  BY DEF PostedInv
<1>2. now \in Nat /\ \A m \in posted : m.at \in Nat
  BY EmailAssumption DEF RulesInv, RulesTyped, Row
<1>3. \A q \in Process : worker[q].pc = "recording" =>
        /\ worker'[q].pc = "recording" /\ worker'[q].rule = worker[q].rule
        /\ Current(q)' = Current(q)
  BY DEF Current
<1>4. Logged'
  <2>1. \A m \in posted : m.at <= now'
    BY <1>1, <1>2 DEF Logged
  <2> QED  BY <1>1, <1>3, <2>1 DEF Logged, SameItem
<1>5. Limits(posted)'
  BY <1>1 DEF Limits, UpTo
<1> QED  BY <1>4, <1>5

LEMMA PostedSends ==
  ASSUME LimitsInv, RulesInv', NEW p \in Process, Sends(p)
  PROVE  PostedInv'
<1> DEFINE n == NewRow(p)
           r == worker[p].rule
           i == Current(p)
<1>1. /\ worker[p].pc = "sending" /\ Busy(p) /\ worker' = [worker EXCEPT ![p].pc = "recording"]
      /\ posted' = posted \cup {n} /\ UNCHANGED <<now, sends, split, unrecorded, queue, pending>>
  BY DEF Sends, Busy, world, ghosts
<1>2. RulesTyped /\ Marks /\ Settled /\ IsFiniteSet(posted) /\ IsFiniteSet(sends)
      /\ posted \in SUBSET Row /\ sends \in SUBSET Row /\ now \in Nat
  <2>1. RulesTyped /\ Marks /\ Settled /\ IsFiniteSet(posted) /\ IsFiniteSet(sends)
    BY DEF LimitsInv, RulesInv, PostedInv
  <2>2. posted \in SUBSET Row /\ sends \in SUBSET Row /\ now \in Nat
    BY <2>1, EmailAssumption DEF RulesTyped
  <2> QED  BY <2>1, <2>2
<1>3. n \in Row /\ n.rule = r /\ n.at = now /\ n.event = i.event /\ n.object = i.object
  BY <1>1, <1>2, NewRowIs
<1>4. worker'[p].pc = "recording" /\ worker'[p].rule = r /\ Current(p)' = i
  <2>1. /\ worker'[p].pc = "recording" /\ worker'[p].rule = worker[p].rule
        /\ worker'[p].todo = worker[p].todo
    BY ZenonT(30), <1>1, <1>2, PcChanges
  <2> QED  BY <2>1 DEF Current
<1> HIDE DEF n, r, i
<1>5. IsFiniteSet(posted')
  BY <1>1, <1>2, FS_AddElement
<1> SUFFICES ASSUME ~split, ~unrecorded PROVE Logged' /\ Limits(posted')
  BY <1>1, <1>5 DEF PostedInv, Limits, UpTo
<1>6. Logged /\ Limits(posted) /\ Alone
  BY DEF LimitsInv, PostedInv, MailInv
<1>7. \A q \in Process : worker[q].pc # "recording"
  BY <1>1, <1>6 DEF Alone, Busy
<1>8. \A m \in posted : \E s \in sends : s.rule = m.rule /\ SameItem(s, m) /\ m.at <= s.at
  BY <1>6, <1>7 DEF Logged
<1>9. ~\E s \in sends : s.event = i.event /\ s.object = i.object
  BY <1>1, <1>6 DEF Alone, Mailed, i
<1>10. \A m \in posted : ~SameItem(m, n) /\ ~SameItem(n, m)
  BY <1>3, <1>8, <1>9 DEF SameItem
<1>11. Free(sends, r, i, now)
  BY <1>1, <1>2 DEF Settled, r, i
<1>12. \A m, l \in posted : SameItem(m, l) => m = l
  BY <1>6 DEF Logged
<1>13. Free(posted, r, i, now)
  BY <1>2, <1>8, <1>11, <1>12, FreeByRows
<1>14. n \notin posted /\ \A m \in posted : m.at <= n.at
  BY <1>3, <1>6, <1>10 DEF Logged, SameItem
<1>15. Limits(posted \cup {n})
  BY <1>2, <1>3, <1>6, <1>13, <1>14, LimitsGrow
<1>16. Logged'
  <2>1. \A m, l \in posted' : SameItem(m, l) => m = l
    BY <1>1, <1>10, <1>12
  <2>2. \A m \in posted' : m.at <= now'
    BY <1>1, <1>2, <1>3, <1>14
  <2>3. worker'[p].rule = n.rule /\ SameItem(Current(p)', n)
    BY <1>3, <1>4 DEF SameItem
  <2>4. \A m \in posted' :
          \/ \E s \in sends' : s.rule = m.rule /\ SameItem(s, m) /\ m.at <= s.at
          \/ \E q \in Process : /\ worker'[q].pc = "recording" /\ worker'[q].rule = m.rule
                                /\ SameItem(Current(q)', m)
    BY <1>1, <1>4, <1>8, <2>3
  <2> QED  BY <2>1, <2>2, <2>4 DEF Logged, SameItem
<1> QED  BY <1>1, <1>15, <1>16

LEMMA PostedRecords ==
  ASSUME LimitsInv, RulesInv', NEW p \in Process, Records(p)
  PROVE  PostedInv'
<1> DEFINE n == NewRow(p)
<1>1. /\ worker[p].pc = "recording" /\ Busy(p)
      /\ sends' = IF Already(sends, worker[p].rule, Current(p)) THEN sends ELSE sends \cup {n}
      /\ UNCHANGED <<now, posted, split, unrecorded>>
  BY DEF Records, Busy, world, ghosts
<1>2. RulesTyped
  BY DEF LimitsInv, RulesInv
<1>3. n.rule = worker[p].rule /\ n.at = now /\ SameItem(n, Current(p))
  BY <1>1, <1>2, NewRowIs DEF SameItem
<1> HIDE DEF n
<1> SUFFICES ASSUME ~split, ~unrecorded PROVE Logged' /\ Limits(posted)'
  BY <1>1 DEF LimitsInv, PostedInv
<1>4. Logged /\ Limits(posted) /\ Alone
  BY DEF LimitsInv, PostedInv, MailInv
<1>5. sends' = sends \cup {n}
  BY <1>1, <1>4 DEF Alone, Mailed, Already
<1>6. \A q \in Process : worker[q].pc = "recording" => q = p
  BY <1>1, <1>4 DEF Alone, Busy
<1>7. \A m \in posted : \E s \in sends' : s.rule = m.rule /\ SameItem(s, m) /\ m.at <= s.at
  BY <1>3, <1>4, <1>5, <1>6 DEF Logged, SameItem
<1>8. Logged'
  BY <1>1, <1>4, <1>7 DEF Logged
<1>9. Limits(posted)'
  BY <1>1, <1>4 DEF Limits, UpTo
<1> QED  BY <1>8, <1>9

\* The other steps mail nothing, and who gives up recording says so.
LEMMA PostedNext ==
  ASSUME LimitsInv, RulesInv', [ServicesNext]_servicesVars
  PROVE  PostedInv'
<1>1. RulesInv /\ PostedInv /\ RulesTyped /\ now \in Nat /\ split \in BOOLEAN /\ unrecorded \in BOOLEAN
  <2>1. RulesInv /\ PostedInv /\ RulesTyped
    BY DEF LimitsInv, RulesInv
  <2>2. now \in Nat /\ split \in BOOLEAN /\ unrecorded \in BOOLEAN
    BY <2>1, EmailAssumption DEF RulesTyped
  <2> QED  BY <2>1, <2>2
<1>2. ASSUME UNCHANGED <<now, posted, sends, split, unrecorded, worker>> PROVE PostedInv'
  BY <1>1, <1>2, PostedStays
<1>3. ASSUME NEW p \in Process, NEW n \in BOOLEAN, Busy(p), GoesOn(p, n, worker[p].view),
             UNCHANGED <<now, posted, sends, split, queue>>, ~unrecorded' => ~unrecorded,
             worker[p].pc = "recording" => unrecorded'
      PROVE  PostedInv'
  <2>1. worker[p].view \in SUBSET Row
    BY <1>1, WorkerIs DEF RulesTyped
  <2>2. \A q \in Process \ {p} : worker'[q] = worker[q]
    BY <1>1, <1>3, <2>1, GoesOnMarks DEF RulesInv
  <2> QED  BY <1>1, <1>3, <2>2, PostedStays
<1>4. ASSUME NEW p \in Process, Takes(p) PROVE PostedInv'
  <2>1. /\ ~Busy(p) /\ (~split' => ~split) /\ UNCHANGED <<now, posted, sends, unrecorded>>
        /\ \A q \in Process \ {p} : worker'[q] = worker[q]
    <3>1. /\ ~Busy(p) /\ (~split' => ~split) /\ UNCHANGED <<now, posted, sends, unrecorded>>
      BY <1>1, <1>4 DEF Takes, world, memory
    <3>2. \A q \in Process \ {p} : worker'[q] = worker[q]
      BY <1>1, <1>4 DEF Takes, RulesTyped
    <3> QED  BY <3>1, <3>2
  <2> QED  BY <1>1, <2>1, PostedStays DEF Busy
<1>5. ASSUME NEW p \in Process, Decides(p) PROVE PostedInv'
  <2>1. /\ worker[p].pc = "deciding" /\ Busy(p)
        /\ UNCHANGED <<now, posted, sends, split, unrecorded, queue>>
    BY <1>5 DEF Decides, Busy, world, memory, ghosts
  <2>2. CASE GoesOn(p, FALSE, worker[p].view)
    BY <1>3, <2>1, <2>2
  <2>3. CASE worker' = [worker EXCEPT ![p].pc = "sending"]
    <3>1. \A q \in Process \ {p} : worker'[q] = worker[q]
      BY <1>1, <2>3 DEF RulesTyped
    <3> QED  BY <1>1, <2>1, <3>1, PostedStays
  <2> QED  BY <1>5, <2>2, <2>3 DEF Decides
<1>6. ASSUME NEW p \in Process, Refused(p) PROVE PostedInv'
  <2>1. /\ worker[p].pc = "sending" /\ Busy(p) /\ GoesOn(p, FALSE, worker[p].view)
        /\ UNCHANGED <<now, posted, sends, split, unrecorded, queue>>
    BY <1>6 DEF Refused, Busy, world, memory
  <2> QED  BY <1>3, <2>1
<1>7. ASSUME NEW p \in Process, NotRecorded(p) PROVE PostedInv'
  <2>1. /\ Busy(p) /\ GoesOn(p, TRUE, worker[p].view) /\ unrecorded' = TRUE
        /\ UNCHANGED <<now, posted, sends, split, queue>>
    BY <1>7 DEF NotRecorded, Busy, world, memory
  <2> QED  BY <1>3, <2>1
<1>8. ASSUME NEW p \in Process, Crashes(p) PROVE PostedInv'
  <2>1. /\ unrecorded' = (unrecorded \/ worker[p].pc = "recording")
        /\ UNCHANGED <<now, posted, sends, split>>
        /\ worker' = [worker EXCEPT ![p] = Idle]
    BY <1>8 DEF Crashes, world, memory
  <2>2. \A q \in Process \ {p} : worker'[q] = worker[q]
    BY <1>1, <2>1 DEF RulesTyped
  <2>3. /\ ~unrecorded' => ~unrecorded /\ worker[p].pc # "recording"
        /\ now' \in Nat /\ now <= now' /\ (~split' => ~split)
    <3>1. ~unrecorded' => ~unrecorded /\ worker[p].pc # "recording"
      BY <2>1, Zenon
    <3>2. now' \in Nat /\ now <= now' /\ (~split' => ~split)
      BY <1>1, <2>1
    <3> QED  BY <3>1, <3>2
  <2>4. ~unrecorded' => \A q \in Process : worker[q].pc = "recording" => worker'[q] = worker[q]
    BY <2>2, <2>3
  <2> QED  BY <1>1, <2>1, <2>3, <2>4, PostedStays
<1>9. ASSUME Passes PROVE PostedInv'
  <2>1. now' = now + 1 /\ UNCHANGED <<posted, sends, split, unrecorded, worker>>
    BY <1>9 DEF Passes, memory
  <2>2. now' \in Nat /\ now <= now'
    BY <1>1, <2>1
  <2> QED  BY <1>1, <2>1, <2>2, PostedStays
<1>10. CASE \/ \E p \in Process : RequestsSweep(p) \/ \E o \in Object : Opens(p, o)
            \/ \E e \in Swept, o \in Object : Happens(e, o)
            \/ UNCHANGED ofRules
  <2>1. UNCHANGED <<now, posted, sends, split, unrecorded, worker>>
    BY <1>10 DEF RequestsSweep, Opens, Happens, ofRules, memory, ghosts
  <2> QED  BY <1>2, <2>1
<1>11. CASE Next
  BY <1>4, <1>5, <1>6, <1>7, <1>8, <1>9, <1>10, <1>11, PostedSends, PostedRecords DEF Next, Works
<1>12. CASE UNCHANGED vars
  <2>1. UNCHANGED <<now, posted, sends, split, unrecorded, worker>>
    BY <1>12 DEF vars, world, memory, ghosts
  <2> QED  BY <1>2, <2>1
<1> QED  BY <1>10, <1>11, <1>12, RulesSteps

LEMMA LimitsNext ==
  ASSUME LimitsInv, [ServicesNext]_servicesVars
  PROVE  LimitsInv'
<1>1. RulesInv'
  BY RulesNext DEF LimitsInv
<1>2. PostedInv'
  BY <1>1, PostedNext
<1>3. Shape' /\ MailInv'
  <2>1. ASSUME UNCHANGED ofRules PROVE Shape' /\ MailInv'
    BY <2>1, Untouched DEF LimitsInv, ofRules, memory, ghosts
  <2> QED  BY <2>1, RulesSteps, StepMail DEF LimitsInv
<1> QED  BY <1>1, <1>2, <1>3 DEF LimitsInv

\* decide, _recent_sends and _sweep_pending: for any rules, limits, events and processes no
\* rule mails more than its cap in an hour or inside its throttle, as far as the hour shows it,
\* counted by the mails that went out; and a process marks exactly the sweep it has.  Two
\* workers that were busy at once, and a mail that went out and was not recorded, are excepted.
THEOREM RulesKeepTheirLimitsAlways == ServicesSpec => []RulesKeepTheirLimits
<1>1. ServicesInit => LimitsInv
  <2>1. Init => posted = {}
    BY DEF Init
  <2>2. posted = {} => PostedInv
    BY FS_EmptySet DEF PostedInv, Logged, Limits
  <2> QED  BY <2>1, <2>2, RulesInit, InitMail DEF ServicesInit, LimitsInv
<1>2. LimitsInv => RulesKeepTheirLimits
  BY RulesTypeOK, MarksTrue, LimitsKept DEF LimitsInv, RulesInv, PostedInv, RulesKeepTheirLimits
<1> QED  BY <1>1, <1>2, LimitsNext, PTL DEF ServicesSpec

-----------------------------------------------------------------------------
(* Email rules: what a sweep found has been decided before the next period.  *)

\* A rule has mailed of the resource, or up to its cap, since shortly before x.
Near(S, r, x) ==
  {s \in S : /\ s.rule = r /\ s.event = x.event /\ s.at + Throttle > x.at
             /\ Res[s.object] = Res[x.object] /\ Res[x.object] # none}
Since(S, r, x) == {s \in S : s.rule = r /\ s.at + Hour > x.at}
HeldBy(S, r, x) == Near(S, r, x) # {} \/ Cardinality(Since(S, r, x)) >= Cap

Mails(x) == mails[ItemOf(x)] # 0
Holds(x) == \A r \in Rule : x.event \in Wants[r] => HeldBy(sends, r, x)
Told(x) == Mails(x) \/ Holds(x)

\* The rules before the one at work hold the resolution, if the worker is at it.
UpToHere(w, S, x) ==
  First(w.todo) = ItemOf(x) =>
    \A r \in Rule : r < w.rule /\ x.event \in Wants[r] => HeldBy(S, r, x)

\* A sweep that is queued or running still comes to the resolution.
Coming(q, w, S, x) ==
  \/ Waiting(q) # {}
  \/ w.pc # "idle" /\ w.sweep /\ ItemOf(x) \in w.todo /\ UpToHere(w, S, x)

Fine == ~troubled /\ ~crowded

\* What a sweep finds, if one is asked for in its window.
Sought(x) == ~Silent(x) /\ Wanted(x.event)
InTime(x, t) == x.at < t /\ t <= x.at + Window

Once ==
  /\ \A x \in happened : x.at <= now
  /\ \A t \in asked : t <= now

LogTrue ==
  /\ \A s \in sends : mails[[event |-> s.event, object |-> s.object]] # 0
  /\ \A p \in Process : Busy(p) => worker[p].view \subseteq sends
  /\ \A p \in Process : worker[p].pc = "recording" => mails[Current(p)] # 0

FreshPeriod == ~troubled /\ now \notin asked => \A p \in Process : ~pending[p]

Covered ==
  Fine => \A x \in happened : Sought(x) =>
    /\ (\E t \in asked : t < now /\ InTime(x, t)) => Told(x)
    /\ now \in asked /\ InTime(x, now) =>
         Told(x) \/ \E p \in Process : Coming(queue[p], worker[p], sends, x)

SweptInv == RulesInv /\ Once /\ LogTrue /\ FreshPeriod /\ Covered

LEMMA SweptInit == Init => SweptInv
<1> SUFFICES ASSUME Init PROVE SweptInv
  OBVIOUS
<1>1. /\ happened = {} /\ asked = {} /\ sends = {} /\ pending = [p \in Process |-> FALSE]
      /\ worker = [p \in Process |-> Idle]
  BY DEF Init
<1>2. RulesInv
  BY RulesInit
<1>3. \A p \in Process : worker[p].pc = "idle"
  BY <1>1, IdleWorker
<1>4. Once /\ Covered
  BY <1>1 DEF Once, Covered
<1>5. LogTrue
  BY <1>1, <1>3 DEF LogTrue, Busy
<1>6. FreshPeriod
  BY <1>1 DEF FreshPeriod
<1> QED  BY <1>2, <1>4, <1>5, <1>6 DEF SweptInv

\* More mails hold more.
LEMMA HeldMore ==
  ASSUME NEW S, NEW T, IsFiniteSet(T), S \subseteq T, NEW r, NEW x, HeldBy(S, r, x)
  PROVE  HeldBy(T, r, x)
<1>1. CASE Near(S, r, x) # {}
  BY <1>1 DEF HeldBy, Near
<1>2. CASE Cardinality(Since(S, r, x)) >= Cap
  <2>1. IsFiniteSet(Since(T, r, x)) /\ Since(S, r, x) \subseteq Since(T, r, x)
    BY FS_Subset DEF Since
  <2>2. /\ Cardinality(Since(S, r, x)) <= Cardinality(Since(T, r, x))
        /\ Cardinality(Since(S, r, x)) \in Nat /\ Cardinality(Since(T, r, x)) \in Nat
    BY <2>1, FS_Subset, FS_CardinalityType
  <2>3. Cap \in Nat
    BY EmailAssumption
  <2> QED  BY <1>2, <2>2, <2>3 DEF HeldBy
<1> QED  BY <1>1, <1>2 DEF HeldBy

\* A rule that does not mail the resolution has mailed it, or holds it.
LEMMA NotDecided ==
  ASSUME NEW V \in SUBSET Row, NEW S, IsFiniteSet(S), V \subseteq S, NEW r, NEW x, x.at \in Nat,
         now \in Nat, x.at <= now, ~Decide(V, r, ItemOf(x))
  PROVE  \/ \E s \in S : s.event = x.event /\ s.object = x.object
         \/ HeldBy(S, r, x)
<1>1. ItemOf(x).event = x.event /\ ItemOf(x).object = x.object
  BY DEF ItemOf
<1>2. Hour \in Nat /\ Throttle \in Nat /\ Cap \in Nat /\ MaxTime \in Nat
  BY EmailAssumption
<1>3. \A s \in V : s.at \in Nat
  BY <1>2 DEF Row
<1>4. CASE Already(V, r, ItemOf(x))
  BY <1>1, <1>4 DEF Already
<1>5. CASE ~(Cardinality(InHour(V, r, now)) < Cap)
  <2>1. InHour(V, r, now) \subseteq Since(S, r, x)
    BY <1>2, <1>3 DEF InHour, Since
  <2>2. IsFiniteSet(Since(S, r, x))
    BY FS_Subset DEF Since
  <2>3. /\ Cardinality(InHour(V, r, now)) <= Cardinality(Since(S, r, x))
        /\ Cardinality(InHour(V, r, now)) \in Nat /\ Cardinality(Since(S, r, x)) \in Nat
    BY <2>1, <2>2, FS_Subset, FS_CardinalityType
  <2> QED  BY <1>2, <1>5, <2>3 DEF HeldBy
<1>6. CASE Recent(V, r, ItemOf(x), now) # {}
  <2>1. PICK s \in V : /\ s.rule = r /\ s.event = x.event /\ Res[s.object] = Res[x.object]
                       /\ ~IsIncident(x.object) /\ s.at + Throttle > now
    BY <1>1, <1>6 DEF Recent, InHour
  <2>2. s \in Near(S, r, x)
    BY <1>2, <1>3, <2>1 DEF Near, IsIncident
  <2> QED  BY <2>2 DEF HeldBy
<1> QED  BY <1>4, <1>5, <1>6 DEF Decide

-----------------------------------------------------------------------------
\* What was told stays so.
LEMMA ToldStays ==
  ASSUME NEW x, Told(x), sends \subseteq sends', IsFiniteSet(sends'), Mails(x) => Mails(x)'
  PROVE  Told(x)'
<1>1. CASE Mails(x)
  BY <1>1 DEF Told
<1>2. CASE Holds(x)
  <2>1. ASSUME NEW r \in Rule, x.event \in Wants[r] PROVE HeldBy(sends', r, x)
    BY <1>2, <2>1, HeldMore DEF Holds
  <2>2. Holds(x)'
    BY <2>1 DEF Holds, HeldBy, Near, Since
  <2> QED  BY <2>2 DEF Told
<1> QED  BY <1>1, <1>2 DEF Told

LEMMA HappenedTyped ==
  ASSUME RulesInv, NEW x \in happened
  PROVE  x.object \in Object /\ x.at \in 0..MaxTime /\ x.at \in Nat /\ ItemOf(x) \in Item
BY EmailAssumption DEF RulesInv, RulesTyped, ItemOf, Item, Swept

\* Within a period, as long as what was coming still comes or has come.
LEMMA SweptStays ==
  ASSUME SweptInv, RulesInv', UNCHANGED <<now, asked, happened>>, sends \subseteq sends',
         \A i \in Item : mails[i] # 0 => mails'[i] # 0,
         ~troubled' => ~troubled, ~crowded' => ~crowded,
         Fine' => \A x \in happened, p \in Process :
           Sought(x) /\ InTime(x, now) /\ Coming(queue[p], worker[p], sends, x)
           => Told(x)' \/ Coming(queue'[p], worker'[p], sends', x)
  PROVE  Covered'
<1> SUFFICES ASSUME Fine', NEW x \in happened, Sought(x)
             PROVE  /\ (\E t \in asked : t < now /\ InTime(x, t)) => Told(x)'
                    /\ now \in asked /\ InTime(x, now) =>
                         Told(x)' \/ \E p \in Process : Coming(queue'[p], worker'[p], sends', x)
  BY DEF Covered, Told, Mails, Holds, HeldBy, Near, Since, Coming, UpToHere, Waiting
<1>1. Fine
  BY DEF Fine
<1>2. ItemOf(x) \in Item
  BY HappenedTyped DEF SweptInv
<1>3. Told(x) => Told(x)'
  BY <1>2, ToldStays DEF RulesInv, Mails
<1> QED  BY <1>1, <1>3 DEF SweptInv, Covered

LEMMA LogStays ==
  ASSUME LogTrue, NEW p \in Process, \A q \in Process \ {p} : worker'[q] = worker[q],
         worker'[p].pc \in {"idle", "deciding"},
         worker'[p].pc = "deciding" => worker'[p].view \subseteq sends',
         mails' = mails, sends \subseteq sends',
         \A s \in sends' : mails[[event |-> s.event, object |-> s.object]] # 0
  PROVE  LogTrue'
<1>1. \A q \in Process \ {p} : Current(q)' = Current(q)
  BY DEF Current
<1>2. \A q \in Process : Busy(q)' => worker'[q].view \subseteq sends'
  BY DEF LogTrue, Busy
<1>3. \A q \in Process : worker'[q].pc = "recording" => mails'[Current(q)'] # 0
  BY <1>1 DEF LogTrue
<1> QED  BY <1>2, <1>3 DEF LogTrue

\* A worker comes closer to what was coming.
LEMMA UpToMore ==
  ASSUME NEW S, NEW T, IsFiniteSet(T), S \subseteq T, NEW x, NEW q, NEW w, Coming(q, w, S, x)
  PROVE  Coming(q, w, T, x)
<1>1. UpToHere(w, S, x) => UpToHere(w, T, x)
  BY HeldMore DEF UpToHere
<1> QED  BY <1>1 DEF Coming

LEMMA SweptGoesOn ==
  ASSUME SweptInv, RulesInv', NEW p \in Process, Busy(p), NEW v \in SUBSET Row, v \subseteq sends',
         GoesOn(p, FALSE, v), UNCHANGED <<now, asked, happened, mails, troubled, crowded, queue>>,
         sends \subseteq sends',
         \A s \in sends' : mails[[event |-> s.event, object |-> s.object]] # 0,
         \A x \in happened : Current(p) = ItemOf(x) =>
           \/ Mails(x) \/ x.event \notin Wants[worker[p].rule]
           \/ HeldBy(sends', worker[p].rule, x)
  PROVE  SweptInv'
<1>1. RulesInv /\ RulesTyped /\ Once /\ LogTrue /\ FreshPeriod /\ IsFiniteSet(sends')
  BY DEF SweptInv, RulesInv
<1>2. PICK new \in Workers :
           /\ worker' = [worker EXCEPT ![p] = new] /\ new.pc \in {"idle", "deciding"}
           /\ new.pc = "deciding" => new.todo # {} /\ new.view = v /\ new.sweep = worker[p].sweep
           /\ pending' = IF new.pc = "idle" /\ worker[p].sweep
                         THEN [pending EXCEPT ![p] = FALSE] ELSE pending
           /\ new.pc = "idle" => worker[p].todo \ {Current(p)} = {}
                                 /\ worker[p].rule = Len(Wants)
           /\ new.pc = "deciding" =>
                \/ /\ worker[p].rule < Len(Wants)
                   /\ new.todo = worker[p].todo /\ new.rule = worker[p].rule + 1
                \/ /\ worker[p].rule = Len(Wants)
                   /\ new.todo = worker[p].todo \ {Current(p)} /\ new.rule = 1
  <2> DEFINE n == FALSE
  <2>1. n \in BOOLEAN /\ ~n /\ GoesOn(p, n, v)
    OBVIOUS
  <2> HIDE DEF n
  <2>2. PICK new \in Workers :
           /\ worker' = [worker EXCEPT ![p] = new] /\ new.pc \in {"idle", "deciding"}
           /\ new.pc = "deciding" => new.todo # {} /\ new.view = v /\ new.sweep = worker[p].sweep
           /\ pending' = IF new.pc = "idle" /\ worker[p].sweep
                         THEN [pending EXCEPT ![p] = FALSE] ELSE pending
           /\ new.pc = "idle" => worker[p].todo \ {Current(p)} = {}
                                 /\ (n \/ worker[p].rule = Len(Wants))
           /\ new.pc = "deciding" =>
                \/ /\ ~n /\ worker[p].rule < Len(Wants)
                   /\ new.todo = worker[p].todo /\ new.rule = worker[p].rule + 1
                \/ /\ n \/ worker[p].rule = Len(Wants)
                   /\ new.todo = worker[p].todo \ {Current(p)} /\ new.rule = 1
    BY <1>1, <2>1, GoesOnTyped
  <2>3. new \in Workers
    OBVIOUS
  <2> QED  BY <2>1, <2>2, <2>3
<1>3. worker'[p] = new /\ \A q \in Process \ {p} : worker'[q] = worker[q]
  BY <1>1, <1>2, WorkerChanges
<1>4. Once'
  BY <1>1 DEF Once
<1>5. FreshPeriod'
  <2>1. \A q \in Process : ~pending[q] => ~pending'[q]
    BY <1>1, <1>2 DEF RulesTyped
  <2> QED  BY <1>1, <2>1 DEF FreshPeriod
<1>6. LogTrue'
  BY <1>1, <1>2, <1>3, LogStays
<1>7. worker[p].rule \in 1..Len(Wants) /\ Rule = 1..Len(Wants) /\ Len(Wants) \in Nat
  BY <1>1, WorkerIs, EmailAssumption DEF RulesTyped, Rule
<1>8. ASSUME NEW x \in happened, Coming(queue[p], worker[p], sends, x)
      PROVE  Told(x)' \/ Coming(queue[p], new, sends', x)
  <2>1. CASE Waiting(queue[p]) # {}
    BY <2>1 DEF Coming
  <2>2. CASE Waiting(queue[p]) = {}
    <3>1. worker[p].sweep /\ ItemOf(x) \in worker[p].todo /\ UpToHere(worker[p], sends', x)
      BY <1>1, <1>8, <2>2, UpToMore DEF Coming
    <3>2. CASE Current(p) = ItemOf(x) /\ Mails(x)
      BY <3>2 DEF Told, Mails
    <3>3. CASE Current(p) = ItemOf(x) /\ ~Mails(x)
      <4>1. \A r \in Rule : r < worker[p].rule /\ x.event \in Wants[r] => HeldBy(sends', r, x)
        BY <3>1, <3>3 DEF UpToHere, Current
      <4>2. x.event \in Wants[worker[p].rule] => HeldBy(sends', worker[p].rule, x)
        BY <3>3
      <4>3. \A r \in Rule : r <= worker[p].rule /\ x.event \in Wants[r] => HeldBy(sends', r, x)
        <5>1. \A r \in Rule : r <= worker[p].rule => r < worker[p].rule \/ r = worker[p].rule
          BY <1>7
        <5> QED  BY <4>1, <4>2, <5>1
      <4>4. CASE worker[p].rule = Len(Wants)
        <5>1. \A r \in Rule : x.event \in Wants[r] => HeldBy(sends', r, x)
          BY <1>7, <4>3, <4>4
        <5>2. Holds(x)'
          BY <5>1 DEF Holds, HeldBy, Near, Since
        <5> QED  BY <5>2 DEF Told
      <4>5. CASE worker[p].rule # Len(Wants)
        <5>1. /\ new.pc = "deciding" /\ new.todo = worker[p].todo /\ new.rule = worker[p].rule + 1
              /\ new.sweep
          BY <1>2, <3>1, <4>5
        <5>2. \A r \in Rule : r < new.rule => r <= worker[p].rule
          BY <1>7, <5>1
        <5>3. UpToHere(new, sends', x)
          BY <4>3, <5>2 DEF UpToHere
        <5> QED  BY <3>1, <5>1, <5>3 DEF Coming
      <4> QED  BY <4>4, <4>5
    <3>4. CASE Current(p) # ItemOf(x)
      <4>1. new.pc = "deciding" /\ new.sweep /\ ItemOf(x) \in new.todo
        BY <1>2, <3>1, <3>4
      <4>2. UpToHere(new, sends', x)
        <5>1. CASE new.todo = worker[p].todo
          BY <3>4, <5>1 DEF UpToHere, Current
        <5>2. CASE new.rule = 1
          <6>1. \A r \in Rule : ~(r < 1)
            BY <1>7
          <6> QED  BY <5>2, <6>1 DEF UpToHere
        <5> QED  BY <1>2, <4>1, <5>1, <5>2
      <4> QED  BY <4>1, <4>2 DEF Coming
    <3> QED  BY <3>2, <3>3, <3>4
  <2> QED  BY <2>1, <2>2
<1>9. ASSUME NEW x \in happened, NEW q \in Process, Coming(queue[q], worker[q], sends, x)
      PROVE  Told(x)' \/ Coming(queue'[q], worker'[q], sends', x)
  <2>1. CASE q = p
    BY <1>3, <1>8, <1>9, <2>1
  <2>2. CASE q # p
    BY <1>1, <1>3, <1>9, <2>2, UpToMore
  <2> QED  BY <2>1, <2>2
<1>10. Covered'
  BY <1>9, SweptStays
<1> QED  BY <1>4, <1>5, <1>6, <1>10 DEF SweptInv

-----------------------------------------------------------------------------
\* The hooks keep what is coming, and a sweep that is asked for comes.
LEMMA SweptOpens ==
  ASSUME SweptInv, RulesInv', NEW p \in Process, NEW o \in Object, Opens(p, o)
  PROVE  SweptInv'
<1>1. UNCHANGED <<now, happened, asked, sends, mails, crowded, pending, worker>>
  BY DEF Opens, memory
<1>2. RulesTyped /\ Once /\ LogTrue /\ FreshPeriod
  BY DEF SweptInv, RulesInv
<1>3. \A q \in Process : Waiting(queue'[q]) = Waiting(queue[q])
  BY <1>2, WaitingOpens
<1>4. ~troubled' => ~troubled
  BY <1>2, WaitingOpens
<1>5. \A x \in happened, q \in Process :
        Coming(queue[q], worker[q], sends, x) => Coming(queue'[q], worker'[q], sends', x)
  BY <1>1, <1>3 DEF Coming
<1>6. Covered'
  BY <1>1, <1>4, <1>5, SweptStays
<1>7. Once' /\ LogTrue'
  BY <1>1, <1>2 DEF Once, LogTrue, Busy, Current
<1>8. FreshPeriod'
  BY <1>1, <1>2, <1>4 DEF FreshPeriod
<1> QED  BY <1>6, <1>7, <1>8 DEF SweptInv

LEMMA SweptSweeps ==
  ASSUME SweptInv, RulesInv', NEW p \in Process, RequestsSweep(p)
  PROVE  SweptInv'
<1>1. asked' = asked \cup {now} /\ UNCHANGED <<now, happened, sends, mails, crowded, worker>>
  BY DEF RequestsSweep, memory
<1>2. RulesTyped /\ Once /\ LogTrue /\ FreshPeriod /\ queue \in [Process -> Seq(Job)]
  BY DEF SweptInv, RulesInv, RulesTyped
<1>3. Once' /\ LogTrue' /\ FreshPeriod'
  <2>1. now <= now
    BY <1>2, EmailAssumption DEF RulesTyped
  <2>2. Once'
    BY <1>1, <1>2, <2>1 DEF Once
  <2>3. LogTrue'
    BY <1>1, <1>2 DEF LogTrue, Busy, Current
  <2>4. FreshPeriod'
    BY <1>1 DEF FreshPeriod
  <2> QED  BY <2>2, <2>3, <2>4
<1>4. CASE pending[p]
  <2>1. UNCHANGED <<queue, troubled>>
    BY <1>4 DEF RequestsSweep
  <2>2. ~troubled => asked' = asked
    BY <1>1, <1>2, <1>4 DEF FreshPeriod
  <2>3. Covered'
    BY <1>1, <2>1, <2>2 DEF SweptInv, Covered, Fine, Told, Mails, Holds, HeldBy, Near, Since
  <2> QED  BY <1>3, <2>3 DEF SweptInv
<1>5. CASE ~pending[p]
  <2>1. Submits(p, SweepJob)
    BY <1>5 DEF RequestsSweep
  <2>2. SweepJob \in Job /\ SweepJob.kind = "sweep"
    BY DEF Job, SweepJob
  <2>3. queue'[p] = IF Len(queue[p]) < QueueMax THEN Append(queue[p], SweepJob) ELSE queue[p]
    BY <1>2, <2>1, <2>2, SubmitsTyped
  <2>4. ~troubled' => ~troubled /\ Len(queue[p]) < QueueMax
    BY <2>1 DEF Submits
  <2>5. Len(queue[p]) < QueueMax => Waiting(queue'[p]) # {}
    <3> SUFFICES ASSUME Len(queue[p]) < QueueMax PROVE Waiting(queue'[p]) # {}
      OBVIOUS
    <3>1. Waiting(queue'[p]) = Waiting(queue[p]) \cup {Len(queue[p]) + 1}
      BY <1>2, <2>2, <2>3, JobAdds
    <3> QED  BY <3>1
  <2>6. ~troubled' => \A x \in happened : Coming(queue'[p], worker'[p], sends', x)
    BY <2>4, <2>5 DEF Coming
  <2>7. ASSUME Fine', NEW x \in happened, Sought(x), NEW t \in asked', t < now, InTime(x, t)
        PROVE  Told(x)'
    <3>1. t \in asked
      BY <1>1, <1>2, <2>7, EmailAssumption DEF RulesTyped
    <3>2. Told(x)
      BY <1>1, <2>4, <2>7, <3>1 DEF SweptInv, Covered, Fine
    <3> QED  BY <1>1, <3>2 DEF Told, Mails, Holds, HeldBy, Near, Since
  <2>8. Covered'
    <3> SUFFICES ASSUME Fine', NEW x \in happened, Sought(x)
                 PROVE  /\ (\E t \in asked' : t < now /\ InTime(x, t)) => Told(x)'
                        /\ \E q \in Process : Coming(queue'[q], worker'[q], sends', x)
      BY <1>1 DEF Covered, Told, Mails, Holds, HeldBy, Near, Since, Coming, UpToHere, Waiting
    <3> QED  BY <2>6, <2>7 DEF Fine
  <2> QED  BY <1>3, <2>8 DEF SweptInv
<1> QED  BY <1>4, <1>5

-----------------------------------------------------------------------------
\* A sweep that takes no more than it may finds all that the window holds.
LEMMA QueryAll ==
  ASSUME NEW S \in SUBSET Object, ~(Cardinality(S) > SweepLimit)
  PROVE  S \subseteq Query(S)
<1> SUFFICES ASSUME NEW o \in S PROVE Cardinality({x \in S : x < o}) < SweepLimit
  BY DEF Query
<1>1. IsFiniteSet(S) /\ S \subseteq Nat /\ SweepLimit \in Nat
  BY EmailAssumption, FS_Subset
<1>2. IsFiniteSet(S \ {o}) /\ Cardinality(S \ {o}) = Cardinality(S) - 1
  BY <1>1, FS_RemoveElement
<1>3. {x \in S : x < o} \subseteq S \ {o}
  BY <1>1
<1>4. /\ Cardinality({x \in S : x < o}) <= Cardinality(S \ {o})
      /\ Cardinality({x \in S : x < o}) \in Nat /\ Cardinality(S) \in Nat
  BY <1>1, <1>2, <1>3, FS_Subset, FS_CardinalityType
<1> QED  BY <1>1, <1>2, <1>4

LEMMA SweepFinds ==
  ASSUME RulesTyped, ~Overfull, NEW x \in happened, Sought(x), InTime(x, now)
  PROVE  ItemOf(x) \in SweepItems
<1>1. /\ x.at \in Nat /\ now \in Nat /\ Window \in Nat /\ x.object \in Object /\ x.event \in Swept
      /\ ItemOf(x) \in Item
  BY EmailAssumption DEF RulesTyped, ItemOf, Item, Swept
<1>2. now - x.at <= Window
  BY <1>1 DEF InTime
<1> DEFINE D == Due(x.event)
<1>3. x.object \in D /\ D \subseteq Object
  BY <1>2 DEF Due, Sought, RulesTyped
<1>4. ~(Cardinality(D) > SweepLimit)
  BY <1>1 DEF Overfull, Sought
<1> HIDE DEF D
<1>5. x.object \in Query(D)
  BY <1>3, <1>4, QueryAll
<1> QED  BY <1>1, <1>5 DEF SweepItems, Sought, ItemOf, D

TodoOf(job) == IF job.kind = "sweep" THEN SweepItems ELSE {job.item}

LEMMA TakesShape ==
  ASSUME RulesTyped, NEW p \in Process, Takes(p)
  PROVE  /\ queue'[p] = Tail(queue[p])
         /\ \A q \in Process \ {p} : /\ worker'[q] = worker[q] /\ queue'[q] = queue[q]
                                     /\ pending'[q] = pending[q]
         /\ pending'[p] => pending[p]
         /\ worker'[p].pc \in {"idle", "deciding"}
         /\ worker'[p].pc = "deciding" => worker'[p].view = sends
         /\ TodoOf(Head(queue[p])) # {} =>
              /\ worker'[p].pc = "deciding" /\ worker'[p].rule = 1
              /\ worker'[p].todo = TodoOf(Head(queue[p]))
              /\ worker'[p].sweep = (Head(queue[p]).kind = "sweep")
<1> DEFINE job == Head(queue[p])
           sweep == job.kind = "sweep"
           todo == TodoOf(job)
           keep == sweep => todo # {}
           tail == Tail(queue[p])
           new == IF todo = {} THEN Idle
                  ELSE [pc |-> "deciding", sweep |-> sweep, todo |-> todo, rule |-> 1, view |-> sends]
<1>1. /\ queue' = [queue EXCEPT ![p] = tail]
      /\ worker' = [worker EXCEPT ![p] = new]
      /\ pending' = [pending EXCEPT ![p] = @ /\ keep]
  BY DEF Takes, TodoOf
<1>2. queue \in [Process -> Seq(Job)] /\ pending \in [Process -> BOOLEAN]
      /\ worker \in [Process -> Workers]
  BY DEF RulesTyped
<1>3. keep \in BOOLEAN
  OBVIOUS
<1> HIDE DEF keep, tail
<1>4. /\ todo = {} => new.pc = "idle"
      /\ todo # {} => /\ new.pc = "deciding" /\ new.rule = 1 /\ new.todo = todo
                      /\ new.sweep = sweep /\ new.view = sends
  <2> HIDE DEF todo, sweep
  <2>1. CASE todo = {}
    BY <2>1, IdleWorker
  <2>2. CASE todo # {}
    BY <2>2
  <2> QED  BY <2>1, <2>2
<1> HIDE DEF new
<1>5. /\ worker'[p] = new /\ queue'[p] = tail /\ (pending'[p] => pending[p])
      /\ \A q \in Process \ {p} : /\ worker'[q] = worker[q] /\ queue'[q] = queue[q]
                                  /\ pending'[q] = pending[q]
  BY <1>1, <1>2, <1>3
<1> QED  BY <1>4, <1>5 DEF tail

LEMMA SweptTakes ==
  ASSUME SweptInv, RulesInv', NEW p \in Process, Takes(p)
  PROVE  SweptInv'
<1> DEFINE job == Head(queue[p])
           sweep == job.kind = "sweep"
           todo == TodoOf(job)
<1>1. /\ ~Busy(p) /\ queue[p] # <<>> /\ UNCHANGED <<now, asked, happened, sends, mails, troubled>>
      /\ crowded' = (crowded \/ (sweep /\ Overfull))
  BY DEF Takes, world, memory
<1>2. RulesTyped /\ Marks /\ Once /\ LogTrue /\ FreshPeriod /\ queue[p] \in Seq(Job)
      /\ pending[p] \in BOOLEAN
  BY DEF SweptInv, RulesInv, RulesTyped
<1>3. /\ queue'[p] = Tail(queue[p])
      /\ \A q \in Process \ {p} : /\ worker'[q] = worker[q] /\ queue'[q] = queue[q]
                                  /\ pending'[q] = pending[q]
      /\ pending'[p] => pending[p]
      /\ worker'[p].pc \in {"idle", "deciding"}
      /\ worker'[p].pc = "deciding" => worker'[p].view = sends
      /\ todo # {} => /\ worker'[p].pc = "deciding" /\ worker'[p].rule = 1
                      /\ worker'[p].todo = todo /\ worker'[p].sweep = sweep
  BY <1>2, TakesShape
<1>4. Marked(queue[p], pending[p], FALSE)
  <2>1. Marked(queue[p], pending[p], Busy(p) /\ worker[p].sweep)
    BY <1>2 DEF Marks
  <2> QED  BY <1>1, <2>1 DEF Marked
<1>5. Once' /\ FreshPeriod'
  <2>1. \A q \in Process : ~pending[q] => ~pending'[q]
    BY <1>3
  <2> QED  BY <1>1, <1>2, <2>1 DEF Once, FreshPeriod
<1>6. LogTrue'
  <2>1. /\ mails' = mails /\ sends \subseteq sends'
        /\ worker'[p].pc = "deciding" => worker'[p].view \subseteq sends'
        /\ \A s \in sends' : mails[[event |-> s.event, object |-> s.object]] # 0
        /\ \A q \in Process \ {p} : worker'[q] = worker[q]
    BY <1>1, <1>2, <1>3 DEF LogTrue
  <2> QED  BY <1>2, <1>3, <2>1, LogStays
<1>7. ASSUME Fine', NEW x \in happened, Sought(x), InTime(x, now),
             Coming(queue[p], worker[p], sends, x)
      PROVE  Coming(queue'[p], worker'[p], sends, x)
  <2>1. Waiting(queue[p]) # {}
    BY <1>1, <1>7 DEF Coming, Busy
  <2>2. pending[p]
    BY <1>4, <2>1 DEF Marked
  <2>3. CASE sweep
    <3>1. ~Overfull
      BY <1>1, <1>7, <2>3 DEF Fine
    <3>2. ItemOf(x) \in todo
      BY <1>2, <1>7, <2>3, <3>1, SweepFinds DEF TodoOf, Fine
    <3>3. /\ worker'[p].pc = "deciding" /\ worker'[p].rule = 1 /\ worker'[p].todo = todo
          /\ worker'[p].sweep
      BY <1>3, <2>3, <3>2
    <3>4. \A r \in Rule : ~(r < 1)
      BY EmailAssumption DEF Rule
    <3>5. UpToHere(worker'[p], sends, x)
      BY <3>3, <3>4 DEF UpToHere
    <3> QED  BY <3>2, <3>3, <3>5 DEF Coming
  <2>4. CASE ~sweep
    <3>1. Marked(Tail(queue[p]), pending[p], FALSE)
      BY <1>1, <1>2, <1>4, <2>4, JobTakes
    <3>2. \E n : Waiting(Tail(queue[p])) = {n}
      BY <2>2, <3>1 DEF Marked
    <3>3. Waiting(queue'[p]) # {}
      BY <1>3, <3>2
    <3> QED  BY <3>3 DEF Coming
  <2> QED  BY <2>3, <2>4
<1>8. ASSUME Fine', NEW x \in happened, NEW q \in Process, Sought(x), InTime(x, now),
             Coming(queue[q], worker[q], sends, x)
      PROVE  Coming(queue'[q], worker'[q], sends', x)
  BY <1>1, <1>3, <1>7, <1>8
<1>9. ~crowded' => ~crowded
  BY <1>1
<1>10. Covered'
  BY <1>1, <1>8, <1>9, SweptStays
<1> QED  BY <1>5, <1>6, <1>10 DEF SweptInv

-----------------------------------------------------------------------------
\* What the worker is about to mail, or has mailed, is still coming.
LEMMA SweptChanges ==
  ASSUME SweptInv, RulesInv', NEW p \in Process, Busy(p), NEW s \in {"sending", "recording"},
         worker' = [worker EXCEPT ![p].pc = s],
         UNCHANGED <<now, asked, happened, sends, troubled, crowded, queue, pending>>,
         \A i \in Item : mails[i] # 0 => mails'[i] # 0,
         s = "recording" => mails'[Current(p)] # 0
  PROVE  SweptInv'
<1>1. RulesTyped /\ Marks /\ Once /\ LogTrue /\ FreshPeriod /\ sends \subseteq Row
  BY DEF SweptInv, RulesInv, RulesTyped
<1>2. \A q \in Process : /\ worker'[q].pc = IF q = p THEN s ELSE worker[q].pc
                         /\ worker'[q].todo = worker[q].todo
                         /\ worker'[q].rule = worker[q].rule
                         /\ worker'[q].view = worker[q].view
                         /\ worker'[q].sweep = worker[q].sweep
  BY ZenonT(30), <1>1, PcChanges
<1>3. \A q \in Process : (Busy(q)' <=> Busy(q)) /\ Current(q)' = Current(q)
  BY <1>2 DEF Busy, Current
<1>4. Once' /\ FreshPeriod'
  BY <1>1 DEF Once, FreshPeriod
<1>5. LogTrue'
  <2>1. \A x \in sends : mails'[[event |-> x.event, object |-> x.object]] # 0
    <3>1. \A x \in sends : [event |-> x.event, object |-> x.object] \in Item
      BY <1>1 DEF Row, Item
    <3> QED  BY <1>1, <3>1 DEF LogTrue
  <2>2. \A q \in Process : Busy(q)' => worker'[q].view \subseteq sends
    BY <1>1, <1>2, <1>3 DEF LogTrue
  <2>3. ASSUME NEW q \in Process, worker'[q].pc = "recording" PROVE mails'[Current(q)'] # 0
    <3>1. CASE q = p
      BY <1>2, <1>3, <2>3, <3>1
    <3>2. CASE q # p
      <4>1. worker[q].pc = "recording" /\ Busy(q)
        BY <1>2, <2>3, <3>2 DEF Busy
      <4>2. Current(q) \in Item /\ mails[Current(q)] # 0
        BY <1>1, <4>1, CurrentIn DEF LogTrue
      <4> QED  BY <1>3, <4>2
    <3> QED  BY <3>1, <3>2
  <2> QED  BY <2>1, <2>2, <2>3 DEF LogTrue
<1>6. ASSUME NEW x \in happened, NEW q \in Process, Coming(queue[q], worker[q], sends, x)
      PROVE  Coming(queue'[q], worker'[q], sends', x)
  <2>1. UpToHere(worker[q], sends, x) => UpToHere(worker'[q], sends, x)
    BY <1>2 DEF UpToHere
  <2>2. worker[q].pc # "idle" => worker'[q].pc # "idle"
    BY <1>2
  <2> QED  BY <1>2, <1>6, <2>1, <2>2 DEF Coming
<1>7. Covered'
  BY <1>6, SweptStays
<1> QED  BY <1>4, <1>5, <1>7 DEF SweptInv

LEMMA SweptDecides ==
  ASSUME SweptInv, RulesInv', NEW p \in Process, Decides(p)
  PROVE  SweptInv'
<1>1. /\ worker[p].pc = "deciding" /\ Busy(p)
      /\ UNCHANGED <<now, asked, happened, sends, mails, troubled, crowded, queue>>
  BY DEF Decides, Busy, memory, ghosts, world
<1>2. RulesTyped /\ LogTrue /\ Once /\ IsFiniteSet(sends)
  BY DEF SweptInv, RulesInv
<1>3. CASE /\ worker' = [worker EXCEPT ![p].pc = "sending"] /\ UNCHANGED pending
  BY <1>1, <1>3, SweptChanges
<1>4. CASE /\ ~(Current(p).event \in Wants[worker[p].rule]
                /\ Decide(worker[p].view, worker[p].rule, Current(p)))
           /\ GoesOn(p, FALSE, worker[p].view)
  <2>1. worker[p].view \subseteq sends /\ worker[p].view \in SUBSET Row
    BY <1>1, <1>2, WorkerIs DEF LogTrue, RulesTyped
  <2>2. ASSUME NEW x \in happened, Current(p) = ItemOf(x)
        PROVE  \/ Mails(x) \/ x.event \notin Wants[worker[p].rule]
               \/ HeldBy(sends, worker[p].rule, x)
    <3>1. x.event \in Wants[worker[p].rule] => ~Decide(worker[p].view, worker[p].rule, ItemOf(x))
      BY <1>4, <2>2 DEF ItemOf
    <3>2. x.at \in Nat /\ x.at <= now /\ now \in Nat
      BY <1>2, HappenedTyped, EmailAssumption DEF SweptInv, Once, RulesTyped
    <3>3. x.event \in Wants[worker[p].rule] =>
            \/ \E s \in sends : s.event = x.event /\ s.object = x.object
            \/ HeldBy(sends, worker[p].rule, x)
      <4> DEFINE V == worker[p].view  r == worker[p].rule
      <4>1. V \in SUBSET Row /\ V \subseteq sends
            /\ (x.event \in Wants[r] => ~Decide(V, r, ItemOf(x)))
        BY <2>1, <3>1
      <4> HIDE DEF V, r
      <4>2. x.event \in Wants[r] =>
              \/ \E s \in sends : s.event = x.event /\ s.object = x.object
              \/ HeldBy(sends, r, x)
        BY <1>2, <3>2, <4>1, NotDecided
      <4> QED  BY <4>2 DEF r
    <3>4. (\E s \in sends : s.event = x.event /\ s.object = x.object) => Mails(x)
      BY <1>2 DEF LogTrue, Mails, ItemOf
    <3> QED  BY <3>3, <3>4
  <2>3. \A x \in happened : Current(p) = ItemOf(x) =>
           \/ Mails(x) \/ x.event \notin Wants[worker[p].rule]
           \/ HeldBy(sends', worker[p].rule, x)
    BY <1>1, <2>2
  <2>4. /\ sends \subseteq sends' /\ worker[p].view \subseteq sends'
        /\ \A s \in sends' : mails[[event |-> s.event, object |-> s.object]] # 0
    BY <1>1, <1>2, <2>1 DEF LogTrue
  <2> DEFINE v == worker[p].view
  <2>5. v \in SUBSET Row /\ v \subseteq sends' /\ GoesOn(p, FALSE, v)
    BY <1>4, <2>1, <2>4
  <2> HIDE DEF v
  <2> QED  BY <1>1, <2>3, <2>4, <2>5, SweptGoesOn
<1> QED  BY <1>3, <1>4 DEF Decides

LEMMA SweptSends ==
  ASSUME SweptInv, RulesInv', NEW p \in Process, Sends(p)
  PROVE  SweptInv'
<1>1. /\ worker[p].pc = "sending" /\ Busy(p)
      /\ worker' = [worker EXCEPT ![p].pc = "recording"]
      /\ mails' = [mails EXCEPT ![Current(p)] = @ + 1]
      /\ UNCHANGED <<now, asked, happened, sends, troubled, crowded, queue, pending>>
  BY DEF Sends, Busy, ghosts, world
<1>2. mails \in [Item -> Nat] /\ Current(p) \in Item
  BY <1>1, CurrentIn DEF SweptInv, RulesInv, RulesTyped
<1>3. (\A i \in Item : mails[i] # 0 => mails'[i] # 0) /\ mails'[Current(p)] # 0
  <2> DEFINE c == Current(p)
  <2>1. c \in Item /\ mails' = [mails EXCEPT ![c] = @ + 1]
    BY <1>1, <1>2
  <2> HIDE DEF c
  <2>2. (\A i \in Item : mails[i] # 0 => mails'[i] # 0) /\ mails'[c] # 0
    BY <1>2, <2>1
  <2> QED  BY <2>2 DEF c
<1> QED  BY <1>1, <1>3, SweptChanges

LEMMA SweptRecords ==
  ASSUME SweptInv, RulesInv', NEW p \in Process, Records(p)
  PROVE  SweptInv'
<1> DEFINE n == NewRow(p)
<1>1. /\ worker[p].pc = "recording" /\ Busy(p) /\ GoesOn(p, FALSE, sends')
      /\ sends \subseteq sends' /\ sends' \subseteq sends \cup {n}
      /\ UNCHANGED <<now, asked, happened, mails, troubled, crowded, queue>>
  BY DEF Records, Busy, ghosts, world
<1>2. LogTrue /\ RulesTyped /\ sends' \in SUBSET Row
  BY DEF SweptInv, RulesInv, RulesTyped
<1>3. mails[Current(p)] # 0 /\ Current(p) \in Item
  BY <1>1, <1>2, CurrentIn DEF LogTrue
<1>4. [event |-> n.event, object |-> n.object] = Current(p)
  <2>1. n.event = Current(p).event /\ n.object = Current(p).object
    BY DEF NewRow
  <2> QED  BY <1>3, <2>1 DEF Item
<1> HIDE DEF n
<1>5. \A s \in sends' : mails[[event |-> s.event, object |-> s.object]] # 0
  BY <1>1, <1>2, <1>3, <1>4 DEF LogTrue
<1>6. \A x \in happened : Current(p) = ItemOf(x) =>
           \/ Mails(x) \/ x.event \notin Wants[worker[p].rule]
           \/ HeldBy(sends', worker[p].rule, x)
  BY <1>3 DEF Mails
<1> DEFINE v == sends'
<1>7. v \in SUBSET Row /\ v \subseteq sends' /\ GoesOn(p, FALSE, v)
  BY <1>1, <1>2
<1> HIDE DEF v
<1> QED  BY <1>1, <1>5, <1>6, <1>7, SweptGoesOn

-----------------------------------------------------------------------------
\* After a failure nothing is promised but the log.
LEMMA SweptFails ==
  ASSUME SweptInv, RulesInv', NEW p \in Process, Refused(p) \/ NotRecorded(p) \/ Crashes(p)
  PROVE  SweptInv'
<1>1. troubled' = TRUE /\ UNCHANGED <<now, asked, happened, sends, mails>>
  BY DEF Refused, NotRecorded, Crashes, world, memory
<1>2. RulesTyped /\ Marks /\ LogTrue /\ Once
  BY DEF SweptInv, RulesInv
<1>3. Once' /\ FreshPeriod' /\ Covered'
  BY <1>1, <1>2 DEF Once, FreshPeriod, Covered, Fine
<1>4. /\ \A q \in Process \ {p} : worker'[q] = worker[q]
      /\ worker'[p].pc \in {"idle", "deciding"}
      /\ worker'[p].pc = "deciding" => worker'[p].view \subseteq sends
  <2>1. CASE Crashes(p)
    <3>1. worker' = [worker EXCEPT ![p] = Idle]
      BY <2>1 DEF Crashes
    <3> QED  BY <1>2, <3>1, IdleWorker, WorkerChanges
  <2>2. CASE Refused(p) \/ NotRecorded(p)
    <3>1. Busy(p) /\ queue' = queue
      BY <2>2 DEF Refused, NotRecorded, Busy
    <3>2. PICK n \in BOOLEAN : GoesOn(p, n, worker[p].view)
      BY <2>2 DEF Refused, NotRecorded
    <3>3. worker[p].view \in SUBSET Row /\ worker[p].view \subseteq sends
      BY <1>2, <3>1, WorkerIs DEF LogTrue, RulesTyped
    <3> QED  BY <1>2, <3>1, <3>2, <3>3, GoesOnMarks
  <2> QED  BY <2>1, <2>2
<1>5. LogTrue'
  <2>1. \A s \in sends' : mails[[event |-> s.event, object |-> s.object]] # 0
    BY <1>1, <1>2 DEF LogTrue
  <2> QED  BY <1>1, <1>2, <1>4, <2>1, LogStays
<1> QED  BY <1>3, <1>5 DEF SweptInv

LEMMA SweptHappens ==
  ASSUME SweptInv, RulesInv', NEW e \in Swept, NEW o \in Object, Happens(e, o)
  PROVE  SweptInv'
<1> DEFINE n == [event |-> e, object |-> o, at |-> now]
<1>1. /\ happened' = happened \cup {n}
      /\ UNCHANGED <<now, asked, sends, mails, troubled, crowded, queue, pending, worker>>
  BY DEF Happens, memory, ghosts
<1>2. n.at = now /\ now \in Nat /\ Window \in Nat
  BY EmailAssumption DEF SweptInv, RulesInv, RulesTyped
<1> HIDE DEF n
<1>3. Once'
  BY <1>1, <1>2 DEF SweptInv, Once
<1>4. LogTrue' /\ FreshPeriod'
  BY <1>1 DEF SweptInv, LogTrue, FreshPeriod, Busy, Current
<1>5. Covered'
  <2>1. ASSUME Fine, NEW x \in happened', Sought(x)
        PROVE  /\ (\E t \in asked : t < now /\ InTime(x, t)) => Told(x)
               /\ now \in asked /\ InTime(x, now) =>
                    Told(x) \/ \E p \in Process : Coming(queue[p], worker[p], sends, x)
    <3>1. CASE x \in happened
      BY <2>1, <3>1 DEF SweptInv, Covered
    <3>2. CASE x = n
      <4>1. \A t \in asked : t \in Nat
        BY EmailAssumption DEF SweptInv, RulesInv, RulesTyped
      <4>2. \A t \in Nat : InTime(x, t) => ~(t < now) /\ t # now
        BY <1>2, <3>2 DEF InTime
      <4> QED  BY <1>2, <4>1, <4>2
    <3> QED  BY <1>1, <3>1, <3>2
  <2>2. Fine' <=> Fine
    BY <1>1 DEF Fine
  <2>3. \A x : Told(x)' <=> Told(x)
    BY <1>1 DEF Told, Mails, Holds, HeldBy, Near, Since
  <2> QED  BY <1>1, <2>1, <2>2, <2>3 DEF Covered
<1> QED  BY <1>3, <1>4, <1>5 DEF SweptInv

LEMMA SweptPasses ==
  ASSUME SweptInv, RulesInv', Passes
  PROVE  SweptInv'
<1>1. /\ now' = now + 1 /\ asked' = asked
      /\ IF \E p \in Process : Busy(p) \/ queue[p] # <<>> THEN troubled' = TRUE
                                                       ELSE troubled' = troubled
      /\ UNCHANGED <<happened, sends, mails, crowded, queue, pending, worker>>
  BY DEF Passes, memory
<1>2. RulesTyped /\ Marks /\ Once /\ LogTrue /\ now \in Nat /\ pending \in [Process -> BOOLEAN]
      /\ asked \subseteq Nat
  <2>1. RulesInv /\ RulesTyped
    BY DEF SweptInv, RulesInv
  <2>2. asked \subseteq Nat
    BY <2>1, EmailAssumption DEF RulesTyped
  <2>3. now \in Nat /\ pending \in [Process -> BOOLEAN]
    BY <2>1, EmailAssumption DEF RulesTyped
  <2> QED  BY <2>1, <2>2, <2>3 DEF SweptInv, RulesInv
<1>3. Once'
  <2>1. \A x \in happened : x.at \in Nat
    BY HappenedTyped DEF SweptInv
  <2> QED  BY <1>1, <1>2, <2>1 DEF Once
<1>4. LogTrue'
  BY <1>1, <1>2 DEF LogTrue, Busy, Current
<1>5. ~troubled' => /\ ~troubled
                    /\ \A p \in Process : ~Busy(p) /\ Waiting(queue[p]) = {}
  <2>1. Waiting(<<>>) = {}
    BY DEF Waiting
  <2> QED  BY <1>1, <2>1
<1>6. FreshPeriod'
  <2> SUFFICES ASSUME ~troubled', NEW p \in Process PROVE ~pending[p]
    BY <1>1 DEF FreshPeriod
  <2>1. Marked(queue[p], pending[p], Busy(p) /\ worker[p].sweep)
    BY <1>2 DEF Marks
  <2>2. ~Busy(p) /\ Waiting(queue[p]) = {}
    BY <1>5
  <2> QED  BY <2>1, <2>2 DEF Marked
<1>7. Covered'
  <2>1. ASSUME Fine', NEW x \in happened, Sought(x), NEW t \in asked, InTime(x, t)
        PROVE  Told(x)
    <3>1. Fine /\ \A p \in Process : ~Coming(queue[p], worker[p], sends, x)
      BY <1>1, <1>5, <2>1 DEF Fine, Coming, Busy
    <3>2. t <= now /\ t \in Nat
      BY <1>2, <2>1 DEF Once
    <3>3. t < now \/ t = now
      BY <1>2, <3>2
    <3> QED  BY <2>1, <3>1, <3>3 DEF SweptInv, Covered
  <2>2. \A x : Told(x)' <=> Told(x)
    BY <1>1 DEF Told, Mails, Holds, HeldBy, Near, Since
  <2>3. now' \notin asked
    BY <1>1, <1>2 DEF Once
  <2> QED  BY <1>1, <2>1, <2>2, <2>3 DEF Covered
<1> QED  BY <1>3, <1>4, <1>6, <1>7 DEF SweptInv

LEMMA SweptNext ==
  ASSUME SweptInv, [ServicesNext]_servicesVars
  PROVE  SweptInv'
<1>1. RulesInv'
  BY RulesNext DEF SweptInv
<1>2. CASE Next
  BY <1>1, <1>2, SweptTakes, SweptDecides, SweptSends, SweptRecords, SweptFails, SweptSweeps,
     SweptOpens, SweptHappens, SweptPasses DEF Next, Works
<1>3. CASE UNCHANGED ofRules
  <2>1. UNCHANGED <<now, asked, happened, sends, mails, troubled, crowded, queue, pending, worker>>
    BY <1>3 DEF ofRules, memory, ghosts
  <2>2. Once' /\ LogTrue' /\ FreshPeriod'
    BY <2>1 DEF SweptInv, Once, LogTrue, FreshPeriod, Busy, Current
  <2>3. (Fine' <=> Fine) /\ \A x : Told(x)' <=> Told(x)
    BY <2>1 DEF Fine, Told, Mails, Holds, HeldBy, Near, Since
  <2>4. Covered'
    BY <2>1, <2>3 DEF SweptInv, Covered
  <2> QED  BY <1>1, <2>2, <2>4 DEF SweptInv
<1> QED  BY <1>2, <1>3, RulesSteps DEF vars, ofRules, world

\* What was not told in its window was held back, or something failed.
LEMMA SweptMailed == SweptInv => SweptIsMailed
<1> SUFFICES ASSUME SweptInv, NEW h \in happened, Missed(h), SweepAsked(h), Wanted(h.event),
                    ~Silent(h), ~troubled, ~crowded
             PROVE  Held(h)
  BY DEF SweptIsMailed
<1>1. PICK t \in asked : InTime(h, t)
  BY DEF SweepAsked, InTime
<1>2. h.at \in Nat /\ now \in Nat /\ Window \in Nat /\ t \in Nat
  BY HappenedTyped, EmailAssumption DEF SweptInv, RulesInv, RulesTyped
<1>3. t < now
  BY <1>1, <1>2 DEF Missed, InTime
<1>4. Told(h)
  BY <1>1, <1>3 DEF SweptInv, Covered, Fine, Sought
<1>5. Holds(h)
  BY <1>4 DEF Told, Mails, Missed
<1> QED  BY <1>5 DEF Held, Holds, HeldBy, Near, Since

\* request_sweep, run_sweep and decide: for any rules, limits, windows and processes, what
\* happened and is not silenced is mailed before it leaves the window of the sweeps if one of
\* them was asked for in a later period of that window, be it that others were not, unless
\* every rule that asks for it had mailed of the resource, or up to its cap, so shortly before,
\* or something failed.
THEOREM SweptIsMailedAlways == ServicesSpec => []SweptIsMailed
<1>1. ServicesInit => SweptInv
  BY SweptInit DEF ServicesInit
<1> QED  BY <1>1, SweptNext, SweptMailed, PTL DEF ServicesSpec

-----------------------------------------------------------------------------
(* Tiers: the schedule.                                                      *)

\* The next grid point.
LEMMA Grid ==
  ASSUME NEW e \in Nat, NEW n \in Nat \ {0}
  PROVE  e \div n \in Nat /\ (e \div n) * n <= e /\ e < (e \div n) * n + n
OBVIOUS

LEMMA Cancel ==
  ASSUME NEW q \in Int, NEW r \in Int, NEW n \in Nat \ {0}, q * n < r * n
  PROVE  q < r
OBVIOUS

LEMMA GridSlot ==
  ASSUME NEW k \in Nat, NEW n \in Nat \ {0}, NEW x \in Nat, NEW ph \in Nat, ph < n
  PROVE  /\ ((k * n + ph) + n - ph) \div n = k + 1
         /\ x < k * n + ph => (x + n - ph) \div n < k + 1
         /\ x >= k * n + ph => (x + n - ph) \div n >= k + 1
<1> DEFINE y == x + n - ph
<1>1. y \in Nat /\ k * n \in Nat
  OBVIOUS
<1>2. ((k * n + ph) + n - ph) = (k + 1) * n
  OBVIOUS
<1>3. ((k + 1) * n) \div n = k + 1
  OBVIOUS
<1>4. x < k * n + ph => y < (k + 1) * n
  OBVIOUS
<1>5. x >= k * n + ph => y >= (k + 1) * n
  OBVIOUS
<1> HIDE DEF y
<1> DEFINE q == y \div n
           r == k + 1
<1>6. q \in Nat /\ q * n <= y /\ y < q * n + n /\ r \in Nat
  BY <1>1, Grid
<1> HIDE DEF q, r
<1>7. y < r * n => q < r
  <2> SUFFICES ASSUME y < r * n PROVE q < r
    OBVIOUS
  <2>1. q * n \in Int /\ r * n \in Int
    BY <1>6
  <2>2. q * n < r * n
    BY <1>1, <1>6, <2>1
  <2> QED  BY <1>6, <2>2, Cancel
<1>8. y >= r * n => q >= r
  <2> SUFFICES ASSUME y >= r * n PROVE r < q + 1
    BY <1>6
  <2>1. q * n \in Int /\ r * n \in Int /\ (q + 1) * n = q * n + n
    BY <1>6
  <2>2. r * n < (q + 1) * n
    BY <1>1, <1>6, <2>1
  <2>3. q + 1 \in Int
    BY <1>6
  <2> QED  BY <1>6, <2>2, <2>3, Cancel
<1> QED  BY <1>2, <1>3, <1>4, <1>5, <1>7, <1>8 DEF y, q, r

\* A run that waits for its point is spaced from what came before, and not for long.
LEMMA DueSpaced ==
  ASSUME NEW a \in Nat \ {0}, NEW last \in Nat, a <= last
  PROVE  /\ Tiers!DueAt(last) \in Nat /\ Tiers!DueAt(last) <= last + Gap + StandardEvery
         /\ \A b \in Nat : b >= Tiers!DueAt(last) =>
              b >= a + Gap /\ Tiers!Slot(b) > Tiers!Slot(a)
<1> DEFINE n == StandardEvery
           e == last + Gap
           k == e \div n
           g == IF k * n + Phase >= e THEN k ELSE k + 1
           point == g * n + Phase
<1>1. n \in Nat \ {0} /\ Phase \in Nat /\ Phase < n /\ Gap \in Nat \ {0} /\ e \in Nat
  BY TiersAssumption
<1>2. k \in Nat /\ k * n <= e /\ e < k * n + n
  <2> HIDE DEF e, n
  <2> QED  BY <1>1, Grid
<1>3. Tiers!DueAt(last) = IF k * n + Phase >= e THEN k * n + Phase ELSE (k * n + Phase) + n
  BY DEF Tiers!DueAt
<1> HIDE DEF n, k
<1>4. g \in Nat /\ point \in Nat /\ Tiers!DueAt(last) = point /\ point >= e /\ point <= e + n
  BY <1>1, <1>2, <1>3
<1> HIDE DEF g
<1>5. ASSUME NEW b \in Nat, b >= point PROVE b >= a + Gap /\ Tiers!Slot(b) > Tiers!Slot(a)
  <2>1. b >= a + Gap /\ a < point
    BY <1>1, <1>4, <1>5
  <2>2. (a + n - Phase) \div n < g + 1 /\ (b + n - Phase) \div n >= g + 1
    BY <1>1, <1>4, <1>5, <2>1, GridSlot
  <2>3. (a + n - Phase) \div n \in Int /\ (b + n - Phase) \div n \in Int
    <3>1. a + n - Phase \in Nat /\ b + n - Phase \in Nat
      BY <1>1
    <3> QED  BY <1>1, <3>1, Grid
  <2> QED  BY <1>1, <1>4, <2>1, <2>2, <2>3 DEF Tiers!Slot, n
<1> QED  BY <1>1, <1>4, <1>5 DEF n

\* What is kept of a tier's starts.
Keep(s, at) == IF Len(s) < 3 THEN Append(s, at) ELSE Append(Tail(s), at)

LEMMA KeepIs ==
  ASSUME NEW s \in Seq(Nat), Len(s) <= 3, NEW at \in Nat
  PROVE  /\ Keep(s, at) \in Seq(Nat) /\ Len(Keep(s, at)) \in 1..3 /\ Keep(s, at) # <<>>
         /\ Keep(s, at)[Len(Keep(s, at))] = at
         /\ Len(Keep(s, at)) >= 2 => s # <<>> /\ Keep(s, at)[Len(Keep(s, at)) - 1] = s[Len(s)]
         /\ Len(Keep(s, at)) = 3 => Len(s) >= 2 /\ Keep(s, at)[1] = s[Len(s) - 1]
         /\ \A i \in 2..(Len(Keep(s, at)) - 1) : \E j \in 2..Len(s) :
              Keep(s, at)[i - 1] = s[j - 1] /\ Keep(s, at)[i] = s[j]
         /\ \A i \in 1..Len(Keep(s, at)) : Keep(s, at)[i] = at \/ \E j \in 1..Len(s) : Keep(s, at)[i] = s[j]
<1> DEFINE n == Keep(s, at)
<1>1. CASE Len(s) < 3
  <2>1. /\ n \in Seq(Nat) /\ Len(n) = Len(s) + 1 /\ n[Len(s) + 1] = at
        /\ \A i \in 1..Len(s) : n[i] = s[i]
    BY <1>1 DEF Keep
  <2> HIDE DEF n
  <2>2. Len(s) \in Nat /\ (Len(s) = 0 <=> s = <<>>)
    OBVIOUS
  <2>3. n # <<>> /\ Len(n) \in 1..3
    BY <1>1, <2>1, <2>2
  <2>4. \A i \in 2..(Len(n) - 1) : \E j \in 2..Len(s) : n[i - 1] = s[j - 1] /\ n[i] = s[j]
    BY <1>1, <2>1, <2>2
  <2>5. \A i \in 1..Len(n) : n[i] = at \/ \E j \in 1..Len(s) : n[i] = s[j]
    BY <1>1, <2>1, <2>2
  <2> QED  BY <1>1, <2>1, <2>2, <2>3, <2>4, <2>5 DEF n
<1>2. CASE ~(Len(s) < 3)
  <2> DEFINE t == Tail(s)
  <2>1. Len(s) = 3
    <3> DEFINE k == Len(s)
    <3>1. k \in Nat /\ k <= 3 /\ ~(k < 3)
      BY <1>2
    <3> HIDE DEF k
    <3>2. k = 3
      BY <3>1
    <3> QED  BY <3>2 DEF k
  <2>2. t \in Seq(Nat) /\ Len(t) = 2 /\ t[1] = s[2] /\ t[2] = s[3]
    <3>1. s # <<>>
      <4>1. Len(<<>>) = 0 /\ 3 # 0
        OBVIOUS
      <4> QED  BY <2>1, <4>1, Zenon
    <3>2. t \in Seq(Nat) /\ Len(t) = Len(s) - 1 /\ \A i \in 1..(Len(s) - 1) : t[i] = s[i + 1]
      BY <3>1
    <3> QED  BY <2>1, <3>2
  <2>3. n = Append(t, at)
    BY <1>2 DEF Keep
  <2> HIDE DEF n, t
  <2>4. n \in Seq(Nat) /\ Len(n) = 3 /\ n[3] = at /\ n[1] = s[2] /\ n[2] = s[3]
    <3> DEFINE a == Append(t, at)
    <3>1. t \in Seq(Nat)
      BY <2>2
    <3>2. /\ a \in Seq(Nat) /\ Len(a) = Len(t) + 1 /\ a[Len(t) + 1] = at
          /\ \A i \in 1..Len(t) : a[i] = t[i]
      BY <3>1
    <3> HIDE DEF a
    <3>3. Len(a) = 3 /\ a[3] = at /\ a[1] = t[1] /\ a[2] = t[2]
      BY <2>2, <3>2
    <3> QED  BY <2>2, <2>3, <3>2, <3>3 DEF a
  <2>5. n # <<>>
    BY <2>4
  <2>6. \A i \in 2..(Len(n) - 1) : \E j \in 2..Len(s) : n[i - 1] = s[j - 1] /\ n[i] = s[j]
    <3>1. \A i \in 2..(Len(n) - 1) : i = 2
      BY <2>4
    <3> QED  BY <2>1, <2>4, <3>1
  <2>7. \A i \in 1..Len(n) : n[i] = at \/ \E j \in 1..Len(s) : n[i] = s[j]
    BY <2>1, <2>4
  <2>8. s # <<>> /\ Len(n) - 1 = 2 /\ Len(s) - 1 = 2
    BY <2>1, <2>4
  <2> QED  BY <2>1, <2>4, <2>5, <2>6, <2>7, <2>8 DEF n
<1> QED  BY <1>1, <1>2

-----------------------------------------------------------------------------
Std == starts["standard"]
LastOf(s) == s[Len(s)]
Lost == Tiers!Longest

\* How late it can be, after r tiers or the like, since the standard tier began at a.
Reach(r, a, f) == a + Tiers!Wait + (2 * f + r) * Lost

After(pc) ==
  IF pc = "extended" THEN 0
  ELSE IF pc \in {"extending", "slow"} THEN 1
  ELSE IF pc = "slowing" THEN 2
  ELSE IF pc = "standard" THEN 4 ELSE 3

Rungs(k, a, f) ==
  /\ Reach(0, a, f) = k /\ Reach(1, a, f) = k + Lost /\ Reach(2, a, f) = k + 2 * Lost
  /\ Reach(3, a, f) = k + 3 * Lost /\ Reach(4, a, f) = k + 4 * Lost

\* What the loop and the recorded completion know of the last start of the standard tier.
Kept(l, a, sv, t, f) ==
  /\ 0 < a /\ a <= t /\ (sv >= a => sv <= a + Lost)
  /\ IF l.pc = "collecting"
     THEN l.started = a /\ t <= a + Lost /\ l.until <= a + Lost
     ELSE /\ a <= l.lastStandard /\ l.lastStandard <= a + Lost /\ (f = 0 => l.lastStandard = a)
          /\ t <= Reach(After(l.pc), a, f) /\ l.until <= Reach(After(l.pc), a, f)

\* A tier on its anchor: its interval, where the loop runs it, and its anchor.
Every(t) == IF t = "extended" THEN ExtendedEvery ELSE SlowEvery
Running(t) == IF t = "extended" THEN "extending" ELSE "slowing"
Base(l, t) == IF t = "extended" THEN l.lastExtended ELSE l.lastSlow

\* The anchor and the tier's last two starts, while it does not run and while it does.
Rests(last, every, s) ==
  /\ s # <<>> => LastOf(s) < last + every
  /\ Len(s) >= 2 => s[Len(s) - 1] <= LastOf(s) /\ s[Len(s) - 1] <= last

Runs(at, last, every, s) ==
  /\ s # <<>> /\ LastOf(s) = at /\ last + every <= at
  /\ Len(s) >= 2 => s[Len(s) - 1] <= LastOf(s) /\ s[Len(s) - 1] < last + every

AnchoredAt(l, t, s) ==
  IF l.pc = Running(t) THEN Runs(l.now0, Base(l, t), Every(t), s)
                       ELSE Rests(Base(l, t), Every(t), s)

Anchored(l, ss) == \A t \in {"extended", "slow_extended"} : AnchoredAt(l, t, ss[t])

TiersInv ==
  /\ Tiers!TypeOK /\ starts \in [Tiers!Tier -> Seq(Nat)]
  /\ Tiers!StandardIsSpaced /\ Tiers!OneCatchUp
  /\ Std # <<>> => Kept(loop, LastOf(Std), saved["standard"], time, faults)
  /\ Anchored(loop, starts)

LEMMA LostIs ==
  /\ Lost \in Nat /\ Lost \in Duration /\ \A d \in Duration : d \in Nat /\ d <= Lost
  /\ Tiers!Wait \in Nat /\ Tiers!Wait >= Lost /\ Tiers!Wait >= Gap + StandardEvery
<1>1. Duration \subseteq Nat /\ \E d \in Duration : \A e \in Duration : e <= d
  BY TiersAssumption
<1>2. Lost \in Duration /\ \A d \in Duration : d <= Lost
  BY <1>1 DEF Tiers!Longest, Lost
<1>3. Gap + StandardEvery \in Nat /\ Lost \in Nat
  BY <1>1, <1>2, TiersAssumption
<1>4. Tiers!Wait = IF Lost > Gap + StandardEvery THEN Lost ELSE Gap + StandardEvery
  BY DEF Tiers!Wait, Lost
<1> HIDE DEF Lost
<1>5. Tiers!Wait \in Nat /\ Tiers!Wait >= Lost /\ Tiers!Wait >= Gap + StandardEvery
  BY <1>3, <1>4
<1> QED  BY <1>1, <1>2, <1>3, <1>5

LEMMA ReachIs ==
  ASSUME NEW r \in Nat, NEW a \in Nat, NEW f \in Nat
  PROVE  /\ Reach(r, a, f) \in Nat
         /\ Reach(r + 1, a, f) = Reach(r, a, f) + Lost
         /\ Reach(r, a, f + 1) = Reach(r, a, f) + 2 * Lost
         /\ Reach(0, a, f) >= a + Tiers!Wait
         /\ f > 0 => Reach(0, a, f) >= a + Tiers!Wait + Lost
<1> DEFINE d == Lost
           w == Tiers!Wait
<1>1. d \in Nat /\ w \in Nat
  BY LostIs
<1>2. \A x, y \in Nat : Reach(x, a, y) = a + w + (2 * y + x) * d
  BY DEF Reach
<1> HIDE DEF d, w
<1>3. (2 * f + r) * d \in Nat /\ (2 * f) * d \in Nat
  BY <1>1
<1>4. (2 * f + (r + 1)) * d = (2 * f + r) * d + d
  BY <1>1
<1>5. (2 * (f + 1) + r) * d = (2 * f + r) * d + 2 * d
  BY <1>1
<1>6. f > 0 => (2 * f + 0) * d >= d
  <2> SUFFICES ASSUME f > 0 PROVE (2 * f) * d >= d
    BY <1>1
  <2>1. (2 * f - 1) \in Nat
    OBVIOUS
  <2>2. (2 * f - 1) * d \in Nat
    BY <1>1, <2>1
  <2>3. (2 * f) * d = (2 * f - 1) * d + d
    BY <1>1
  <2> QED  BY <1>1, <2>2, <2>3
<1>7. Reach(r, a, f) \in Nat /\ Reach(r + 1, a, f) = Reach(r, a, f) + d
  BY <1>1, <1>2, <1>3, <1>4
<1>8. Reach(r, a, f + 1) = Reach(r, a, f) + 2 * d
  BY <1>1, <1>2, <1>3, <1>5
<1>9. Reach(0, a, f) >= a + w /\ (f > 0 => Reach(0, a, f) >= a + w + d)
  <2>1. Reach(0, a, f) = a + w + (2 * f) * d
    BY <1>1, <1>2
  <2> QED  BY <1>1, <1>3, <1>6, <2>1
<1> QED  BY <1>7, <1>8, <1>9 DEF d, w

\* The bounds of one moment.
LEMMA Reaches ==
  ASSUME NEW a \in Nat, NEW f \in Nat
  PROVE  \E k \in Nat :
           /\ Rungs(k, a, f)
           /\ \A r \in 0..4 : Reach(r, a, f + 1) = Reach(r, a, f) + 2 * Lost
           /\ k >= a + Tiers!Wait /\ (f > 0 => k >= a + Tiers!Wait + Lost)
<1> DEFINE k == Reach(0, a, f)
<1>1. k \in Nat /\ k >= a + Tiers!Wait /\ (f > 0 => k >= a + Tiers!Wait + Lost)
  BY ReachIs
<1>2. ASSUME NEW r \in 0..4 PROVE Reach(r, a, f + 1) = Reach(r, a, f) + 2 * Lost
  <2>1. r \in Nat
    OBVIOUS
  <2> QED  BY <2>1, ReachIs
<1>3. /\ Reach(0 + 1, a, f) = k + Lost /\ Reach(1 + 1, a, f) = Reach(1, a, f) + Lost
      /\ Reach(2 + 1, a, f) = Reach(2, a, f) + Lost /\ Reach(3 + 1, a, f) = Reach(3, a, f) + Lost
  BY ReachIs
<1>4. 0 + 1 = 1 /\ 1 + 1 = 2 /\ 2 + 1 = 3 /\ 3 + 1 = 4
  OBVIOUS
<1>5. /\ Reach(1, a, f) = k + Lost /\ Reach(2, a, f) = Reach(1, a, f) + Lost
      /\ Reach(3, a, f) = Reach(2, a, f) + Lost /\ Reach(4, a, f) = Reach(3, a, f) + Lost
  BY <1>3, <1>4
<1> HIDE DEF k
<1>6. /\ Reach(2, a, f) = k + 2 * Lost /\ Reach(3, a, f) = k + 3 * Lost
      /\ Reach(4, a, f) = k + 4 * Lost
  BY <1>1, <1>5, LostIs
<1> QED  BY <1>1, <1>2, <1>5, <1>6 DEF Rungs, k

\* More faults leave more room.
LEMMA KeptLonger ==
  ASSUME NEW l, NEW a \in Nat, NEW sv, NEW t, NEW f \in Nat, NEW g \in Nat, g \in {f, f + 1},
         l.pc # "collecting" => t \in Nat /\ l.until \in Nat,
         Kept(l, a, sv, t, f)
  PROVE  Kept(l, a, sv, t, g)
<1>1. CASE g = f
  BY <1>1
<1>2. CASE g = f + 1
  <2>1. ASSUME NEW r \in 0..4
        PROVE  /\ Reach(r, a, g) >= Reach(r, a, f)
               /\ Reach(r, a, g) \in Nat /\ Reach(r, a, f) \in Nat
    <3>1. r \in Nat
      OBVIOUS
    <3>2. Reach(r, a, g) \in Nat /\ Reach(r, a, f) \in Nat
      BY <3>1, ReachIs
    <3>3. Reach(r, a, g) = Reach(r, a, f) + 2 * Lost
      BY <1>2, <3>1, ReachIs
    <3> QED  BY <3>2, <3>3, LostIs
  <2>2. After(l.pc) \in 0..4 /\ g # 0
    BY <1>2 DEF After
  <2>3. Reach(After(l.pc), a, g) >= Reach(After(l.pc), a, f)
        /\ Reach(After(l.pc), a, g) \in Nat /\ Reach(After(l.pc), a, f) \in Nat
    BY <2>1, <2>2
  <2> DEFINE x == Reach(After(l.pc), a, g)
             y == Reach(After(l.pc), a, f)
  <2>4. /\ Kept(l, a, sv, t, f) <=>
             /\ 0 < a /\ a <= t /\ (sv >= a => sv <= a + Lost)
             /\ IF l.pc = "collecting"
                THEN l.started = a /\ t <= a + Lost /\ l.until <= a + Lost
                ELSE /\ a <= l.lastStandard /\ l.lastStandard <= a + Lost
                     /\ (f = 0 => l.lastStandard = a) /\ t <= y /\ l.until <= y
        /\ Kept(l, a, sv, t, g) <=>
             /\ 0 < a /\ a <= t /\ (sv >= a => sv <= a + Lost)
             /\ IF l.pc = "collecting"
                THEN l.started = a /\ t <= a + Lost /\ l.until <= a + Lost
                ELSE /\ a <= l.lastStandard /\ l.lastStandard <= a + Lost
                     /\ (g = 0 => l.lastStandard = a) /\ t <= x /\ l.until <= x
    BY DEF Kept
  <2>5. x >= y /\ x \in Nat /\ y \in Nat
    BY <2>3
  <2> HIDE DEF x, y
  <2> QED  BY <2>2, <2>4, <2>5
<1> QED  BY <1>1, <1>2

-----------------------------------------------------------------------------
LEMMA SeqOf ==
  ASSUME NEW s \in Seq(Nat), NEW t \in Nat, \A i \in 1..Len(s) : s[i] <= t
  PROVE  s \in Seq(0..t)
<1>1. \A i \in 1..Len(s) : s[i] \in 0..t
  BY ElementOfSeq
<1>2. \E n \in Nat : s \in [1..n -> 0..t]
  BY <1>1
<1> QED  BY <1>2

LEMMA SeqLater ==
  ASSUME NEW t \in Nat, NEW u \in Nat, t <= u, NEW s \in Seq(0..t)
  PROVE  s \in Seq(0..u) /\ s \in Seq(Nat) /\ \A i \in 1..Len(s) : s[i] \in Nat /\ s[i] <= t
<1>1. \A i \in 1..Len(s) : s[i] \in 0..t
  BY ElementOfSeq
<1>2. \A x \in 0..t : x \in 0..u /\ x \in Nat /\ x <= t
  OBVIOUS
<1>3. Len(s) \in Nat /\ s \in [1..Len(s) -> 0..u] /\ s \in [1..Len(s) -> Nat]
  BY <1>1, <1>2
<1> QED  BY <1>1, <1>2, <1>3

Loops(t) ==
  [pc: Tiers!LoopPc, until: Nat, now0: 0..t, started: 0..t,
   lastStandard: 0..t, lastExtended: 0..t, lastSlow: 0..t, nextCritical: 0..t + CriticalEvery]

\* The state of the schedule, typed.
LEMMA TiersTyped ==
  ASSUME TiersInv
  PROVE  /\ time \in Nat /\ Start <= time /\ time <= MaxTierTime /\ faults \in Nat /\ time > 0
         /\ loop \in Loops(time) /\ loop.until \in Nat /\ loop.now0 \in 0..time
         /\ loop.started \in 0..time /\ loop.lastStandard \in 0..time
         /\ loop.lastExtended \in 0..time /\ loop.lastSlow \in 0..time
         /\ loop.nextCritical \in Nat
         /\ loop.pc \in Tiers!LoopPc
         /\ saved \in [{"standard", "extended", "slow_extended"} -> 0..time]
         /\ starts \in [{"standard", "extended", "slow_extended"} -> Seq(Nat)]
         /\ Std \in Seq(0..time) /\ Len(Std) <= 3
         /\ \A t \in {"standard", "extended", "slow_extended"} :
              starts[t] \in Seq(0..time) /\ Len(starts[t]) <= 3
<1>1. time \in Start..MaxTierTime /\ loop \in Loops(time) /\ faults \in 0..MaxFaults
  BY DEF TiersInv, Tiers!TypeOK, Loops
<1>2. Start \in Nat \ {0} /\ MaxTierTime \in Nat /\ MaxFaults \in Nat /\ CriticalEvery \in Nat
  BY TiersAssumption, EmailAssumption
<1>3. time \in Nat /\ Start <= time /\ time <= MaxTierTime /\ faults \in Nat /\ time > 0
  BY <1>1, <1>2
<1>4. /\ loop.until \in Nat /\ loop.now0 \in 0..time
      /\ loop.started \in 0..time /\ loop.lastStandard \in 0..time
      /\ loop.lastExtended \in 0..time /\ loop.lastSlow \in 0..time
      /\ loop.nextCritical \in 0..time + CriticalEvery
      /\ loop.pc \in Tiers!LoopPc
  BY <1>1 DEF Loops
<1>5. loop.nextCritical \in Nat
  BY <1>2, <1>3, <1>4
<1>6. /\ saved \in [{"standard", "extended", "slow_extended"} -> 0..time]
      /\ starts \in [{"standard", "extended", "slow_extended"} -> Seq(Nat)]
      /\ \A t \in {"standard", "extended", "slow_extended"} : starts[t] \in Seq(0..time) /\ Len(starts[t]) <= 3
  BY DEF TiersInv, Tiers!TypeOK, Tiers!Tier
<1> QED  BY <1>1, <1>3, <1>4, <1>5, <1>6 DEF Std

LEMMA TiersInit == ServicesInit => TiersInv
<1> SUFFICES ASSUME ServicesInit PROVE TiersInv
  OBVIOUS
<1>1. /\ time = Start /\ saved = [t \in Tiers!Tier |-> 0] /\ starts = [t \in Tiers!Tier |-> <<>>]
      /\ loop = Tiers!LoopFrom(saved, Start) /\ faults = 0
  BY DEF ServicesInit, Tiers!Init
<1>2. Start \in Nat \ {0} /\ MaxTierTime \in Nat /\ MaxFaults \in Nat /\ CriticalEvery \in Nat
      /\ Start <= MaxTierTime
  BY TiersAssumption, EmailAssumption
<1>3. Len(<<>>) = 0 /\ <<>> \in Seq(Nat) /\ <<>> \in Seq(0..Start)
  OBVIOUS
<1>4. \A t \in {"standard", "extended", "slow_extended"} : saved[t] = 0 /\ starts[t] = <<>>
  BY <1>1 DEF Tiers!Tier
<1>5. loop = [pc |-> "sleeping", until |-> Start, now0 |-> 0, started |-> 0, nextCritical |-> 0,
              lastStandard |-> 0, lastExtended |-> 0, lastSlow |-> 0]
  BY <1>1, <1>4 DEF Tiers!LoopFrom
<1>6. Tiers!TypeOK
  <2>1. loop \in [pc: Tiers!LoopPc, until: Nat, now0: 0..time, started: 0..time,
                  lastStandard: 0..time, lastExtended: 0..time, lastSlow: 0..time, nextCritical: 0..time + CriticalEvery]
    BY <1>1, <1>2, <1>5 DEF Tiers!LoopPc
  <2>2. time \in Start..MaxTierTime /\ faults \in 0..MaxFaults /\ saved \in [Tiers!Tier -> 0..time]
    BY <1>1, <1>2
  <2>3. \A t \in Tiers!Tier : starts[t] \in Seq(0..time) /\ Len(starts[t]) <= 3
    BY <1>1, <1>3, <1>4 DEF Tiers!Tier
  <2> QED  BY <2>1, <2>2, <2>3 DEF Tiers!TypeOK
<1>7. /\ Std = <<>> /\ Len(Std) = 0
      /\ \A t \in {"extended", "slow_extended"} : starts[t] = <<>> /\ Len(starts[t]) = 0
  BY <1>3, <1>4 DEF Std
<1>8. starts \in [Tiers!Tier -> Seq(Nat)]
  BY <1>1, <1>3
<1>9. Tiers!StandardIsSpaced /\ Tiers!OneCatchUp
  <2>1. DOMAIN Std = {}
    BY <1>7
  <2> QED  BY <1>7, <2>1 DEF Tiers!StandardIsSpaced, Tiers!OneCatchUp, Tiers!Tier, Std
<1>10. Anchored(loop, starts)
  BY <1>5, <1>7 DEF Anchored, AnchoredAt, Running, Rests
<1> QED  BY <1>6, <1>7, <1>8, <1>9, <1>10 DEF TiersInv

-----------------------------------------------------------------------------
\* A step that leaves the starts as they are.
LEMMA TiersStill ==
  ASSUME TiersInv, starts' = starts, time' \in Nat, time <= time', time' <= MaxTierTime,
         loop' \in Loops(time'), saved' \in [{"standard", "extended", "slow_extended"} -> 0..time'],
         faults' \in 0..MaxFaults,
         Std # <<>> => Kept(loop', LastOf(Std), saved'["standard"], time', faults'),
         Anchored(loop', starts)
  PROVE  TiersInv'
<1>1. time \in Nat /\ Start <= time /\ Start \in Nat /\ MaxTierTime \in Nat
  BY TiersTyped, TiersAssumption
<1>2. \A t \in {"standard", "extended", "slow_extended"} : starts[t] \in Seq(0..time) /\ Len(starts[t]) <= 3
  BY TiersTyped
<1>3. \A t \in {"standard", "extended", "slow_extended"} : starts'[t] \in Seq(0..time') /\ Len(starts'[t]) <= 3
  <2> SUFFICES ASSUME NEW t \in {"standard", "extended", "slow_extended"}
               PROVE  starts[t] \in Seq(0..time') /\ Len(starts[t]) <= 3
    OBVIOUS
  <2> QED  BY <1>1, <1>2, SeqLater
<1>4. time' \in Start..MaxTierTime
  BY <1>1
<1>5. Tiers!TypeOK'
  BY <1>3, <1>4 DEF Tiers!TypeOK, Tiers!Tier, Loops
<1>6. /\ starts' \in [Tiers!Tier -> Seq(Nat)]
      /\ Tiers!StandardIsSpaced' /\ Tiers!OneCatchUp'
  BY DEF TiersInv, Tiers!StandardIsSpaced, Tiers!OneCatchUp
<1>7. Std' = Std
  BY DEF Std
<1>8. (Std # <<>> => Kept(loop, LastOf(Std), saved["standard"], time, faults))'
  BY <1>7 DEF LastOf, Kept, Reach, Lost, Tiers!Wait, Tiers!Longest
<1>9. Anchored(loop, starts)'
  BY DEF Anchored, AnchoredAt, Running, Base, Every, Runs, Rests, LastOf
<1> QED  BY <1>5, <1>6, <1>8, <1>9 DEF TiersInv

\* The last start of the standard tier, and what is known of it.
LEMMA LastStart ==
  ASSUME TiersInv, Std # <<>>
  PROVE  /\ LastOf(Std) \in Nat /\ 0 < LastOf(Std) /\ LastOf(Std) <= time
         /\ Kept(loop, LastOf(Std), saved["standard"], time, faults)
<1>1. Std \in Seq(0..time) /\ Len(Std) \in Nat /\ Len(Std) # 0
  BY TiersTyped
<1>2. LastOf(Std) \in 0..time
  <2>1. Len(Std) \in 1..Len(Std)
    BY <1>1
  <2> QED  BY <1>1, <2>1, ElementOfSeq DEF LastOf
<1>3. Kept(loop, LastOf(Std), saved["standard"], time, faults)
  BY DEF TiersInv
<1> QED  BY <1>2, <1>3, TiersTyped DEF Kept

\* Steps of the loop between the tiers: it goes to pc, until the given moment.
LEMMA Moves ==
  ASSUME TiersInv, UNCHANGED <<time, saved, starts, faults>>, loop' \in Loops(time),
         loop.pc \notin {"collecting", "extending", "slowing"},
         loop'.pc \notin {"collecting", "extending", "slowing"},
         loop'.lastStandard = loop.lastStandard, loop'.lastExtended = loop.lastExtended,
         loop'.lastSlow = loop.lastSlow,
         Std # <<>> => /\ time <= Reach(After(loop'.pc), LastOf(Std), faults)
                       /\ loop'.until <= Reach(After(loop'.pc), LastOf(Std), faults)
  PROVE  TiersInv'
<1>1. Std # <<>> => Kept(loop', LastOf(Std), saved'["standard"], time', faults')
  <2> SUFFICES ASSUME Std # <<>>
               PROVE  Kept(loop', LastOf(Std), saved'["standard"], time', faults')
    OBVIOUS
  <2>1. Kept(loop, LastOf(Std), saved["standard"], time, faults)
    BY LastStart
  <2> QED  BY <2>1 DEF Kept
<1>2. Anchored(loop', starts)
  BY DEF TiersInv, Anchored, AnchoredAt, Running, Base
<1>3. time \in Nat /\ time <= MaxTierTime /\ saved \in [{"standard", "extended", "slow_extended"} -> 0..time]
      /\ faults \in 0..MaxFaults
  BY TiersTyped DEF TiersInv, Tiers!TypeOK
<1> QED  BY <1>1, <1>2, <1>3, TiersStill

\* The longest a step may take, after the last start of the standard tier.
LEMMA Within ==
  ASSUME TiersInv, Std # <<>>
  PROVE  \E k \in Nat :
           /\ Rungs(k, LastOf(Std), faults)
           /\ \A r \in 0..4 :
                Reach(r, LastOf(Std), faults + 1) = Reach(r, LastOf(Std), faults) + 2 * Lost
           /\ loop.pc = "collecting" => time + Lost <= k + Lost
           /\ loop.pc # "collecting" =>
                /\ time <= Reach(After(loop.pc), LastOf(Std), faults)
                /\ loop.until <= Reach(After(loop.pc), LastOf(Std), faults)
                /\ Tiers!DueAt(loop.lastStandard) \in Nat
                /\ Tiers!DueAt(loop.lastStandard) <= k
<1> DEFINE a == LastOf(Std)
           k == Reach(0, a, faults)
           due == Tiers!DueAt(loop.lastStandard)
<1>1. a \in Nat \ {0} /\ Kept(loop, a, saved["standard"], time, faults)
  BY LastStart
<1> HIDE DEF a
<1>2. /\ faults \in Nat /\ time \in Nat /\ loop.lastStandard \in Nat
      /\ Lost \in Nat /\ Gap \in Nat /\ StandardEvery \in Nat /\ Tiers!Wait \in Nat
      /\ Tiers!Wait >= Lost /\ Tiers!Wait >= Gap + StandardEvery
  <2>1. /\ faults \in Nat /\ time \in Nat /\ loop.lastStandard \in 0..time
        /\ Gap \in Nat /\ StandardEvery \in Nat
    BY TiersTyped, TiersAssumption
  <2>2. loop.lastStandard \in Nat
    BY <2>1
  <2> QED  BY <2>1, <2>2, LostIs
<1>3. /\ k \in Nat /\ Rungs(k, a, faults)
      /\ \A r \in 0..4 : Reach(r, a, faults + 1) = Reach(r, a, faults) + 2 * Lost
      /\ k >= a + Tiers!Wait /\ (faults > 0 => k >= a + Tiers!Wait + Lost)
  <2>1. \E n \in Nat :
          /\ Rungs(n, a, faults)
          /\ \A r \in 0..4 : Reach(r, a, faults + 1) = Reach(r, a, faults) + 2 * Lost
          /\ n >= a + Tiers!Wait /\ (faults > 0 => n >= a + Tiers!Wait + Lost)
    BY <1>1, <1>2, Reaches
  <2>2. \A n : Rungs(n, a, faults) => k = n
    BY DEF Rungs
  <2> HIDE DEF k
  <2> QED  BY <2>1, <2>2
<1> HIDE DEF k
<1>4. ASSUME loop.pc = "collecting" PROVE time + Lost <= k + Lost
  <2>1. time <= a + Lost
    BY <1>1, <1>4 DEF Kept
  <2> QED  BY <1>1, <1>2, <1>3, <2>1
<1>5. ASSUME loop.pc # "collecting"
      PROVE  /\ time <= Reach(After(loop.pc), a, faults)
             /\ loop.until <= Reach(After(loop.pc), a, faults)
             /\ due \in Nat /\ due <= k
  <2>1. /\ time <= Reach(After(loop.pc), a, faults)
        /\ loop.until <= Reach(After(loop.pc), a, faults)
        /\ a <= loop.lastStandard /\ loop.lastStandard <= a + Lost
        /\ faults = 0 => loop.lastStandard = a
    BY <1>1, <1>5 DEF Kept
  <2>2. due \in Nat /\ due <= loop.lastStandard + Gap + StandardEvery
    BY <1>1, <1>2, <2>1, DueSpaced
  <2> HIDE DEF due
  <2>3. due <= k
    <3>1. CASE faults = 0
      BY <1>1, <1>2, <1>3, <2>1, <2>2, <3>1
    <3>2. CASE faults > 0
      BY SMTT(30), <1>1, <1>2, <1>3, <2>1, <2>2, <3>2
    <3> QED  BY <1>2, <3>1, <3>2
  <2> QED  BY <2>1, <2>2, <2>3
<1> QED  BY <1>3, <1>4, <1>5 DEF a, k, due

\* The loop after a step, field by field.
LEMMA LoopChanges ==
  ASSUME TiersInv, NEW u \in Nat
  PROVE  /\ loop' = [loop EXCEPT !.pc = "standard", !.now0 = time, !.until = u,
                                 !.nextCritical = time + CriticalEvery]
            => /\ loop' \in Loops(time) /\ loop'.pc = "standard" /\ loop'.until = u
               /\ loop'.lastStandard = loop.lastStandard /\ loop'.lastExtended = loop.lastExtended
               /\ loop'.lastSlow = loop.lastSlow
         /\ loop' = [loop EXCEPT !.pc = "standard", !.now0 = time]
            => /\ loop' \in Loops(time) /\ loop'.pc = "standard" /\ loop'.until = loop.until
               /\ loop'.lastStandard = loop.lastStandard /\ loop'.lastExtended = loop.lastExtended
               /\ loop'.lastSlow = loop.lastSlow
         /\ loop' = [loop EXCEPT !.pc = "sleeping", !.now0 = 0, !.until = u]
            => /\ loop' \in Loops(time) /\ loop'.pc = "sleeping" /\ loop'.until = u
               /\ loop'.lastStandard = loop.lastStandard /\ loop'.lastExtended = loop.lastExtended
               /\ loop'.lastSlow = loop.lastSlow
         /\ loop' = [loop EXCEPT !.pc = "collecting", !.started = time, !.until = u]
            => /\ loop' \in Loops(time) /\ loop'.pc = "collecting" /\ loop'.until = u
               /\ loop'.started = time /\ loop'.lastExtended = loop.lastExtended
               /\ loop'.lastSlow = loop.lastSlow
         /\ \A pc \in {"extending", "slowing"} : loop' = [loop EXCEPT !.pc = pc, !.until = u]
            => /\ loop' \in Loops(time) /\ loop'.pc = pc /\ loop'.until = u
               /\ loop'.now0 = loop.now0
               /\ loop'.lastStandard = loop.lastStandard /\ loop'.lastExtended = loop.lastExtended
               /\ loop'.lastSlow = loop.lastSlow
         /\ loop' = [loop EXCEPT !.pc = "extended", !.lastStandard = loop.started, !.started = 0]
            => /\ loop' \in Loops(time) /\ loop'.pc = "extended" /\ loop'.until = loop.until
               /\ loop'.lastStandard = loop.started /\ loop'.lastExtended = loop.lastExtended
               /\ loop'.lastSlow = loop.lastSlow
         /\ \A pc \in {"extended", "slow", "ending"} : loop' = [loop EXCEPT !.pc = pc]
            => /\ loop' \in Loops(time) /\ loop'.pc = pc /\ loop'.until = loop.until
               /\ loop'.lastStandard = loop.lastStandard /\ loop'.lastExtended = loop.lastExtended
               /\ loop'.lastSlow = loop.lastSlow
         /\ \A next \in 0..time :
              loop' = [loop EXCEPT !.pc = "slow", !.lastExtended = next]
            => /\ loop' \in Loops(time) /\ loop'.pc = "slow" /\ loop'.until = loop.until
               /\ loop'.lastStandard = loop.lastStandard /\ loop'.lastExtended = next
               /\ loop'.lastSlow = loop.lastSlow
         /\ \A next \in 0..time :
              loop' = [loop EXCEPT !.pc = "ending", !.until = u, !.lastSlow = next]
            => /\ loop' \in Loops(time) /\ loop'.pc = "ending" /\ loop'.until = u
               /\ loop'.lastStandard = loop.lastStandard /\ loop'.lastExtended = loop.lastExtended
               /\ loop'.lastSlow = next
<1>1. time \in Nat /\ CriticalEvery \in Nat /\ loop \in Loops(time)
  BY TiersTyped, TiersAssumption
<1> DEFINE T == 0..time
           C == 0..time + CriticalEvery
<1>2. 0 \in T /\ time \in T /\ time + CriticalEvery \in C
  BY <1>1
<1>3. /\ loop = [pc |-> loop.pc, until |-> loop.until, now0 |-> loop.now0,
                 started |-> loop.started, lastStandard |-> loop.lastStandard,
                 lastExtended |-> loop.lastExtended, lastSlow |-> loop.lastSlow,
                 nextCritical |-> loop.nextCritical]
      /\ loop.pc \in Tiers!LoopPc /\ loop.until \in Nat /\ loop.now0 \in T /\ loop.started \in T
      /\ loop.lastStandard \in T /\ loop.lastExtended \in T /\ loop.lastSlow \in T
      /\ loop.nextCritical \in C
  BY <1>1 DEF Loops
<1>4. Loops(time) = [pc: Tiers!LoopPc, until: Nat, now0: T, started: T,
                     lastStandard: T, lastExtended: T, lastSlow: T, nextCritical: C]
  BY DEF Loops
<1>5. {"standard", "sleeping", "collecting", "extending", "extended", "slow", "slowing", "ending"}
        \subseteq Tiers!LoopPc
  BY DEF Tiers!LoopPc
<1>6. 0..time = T
  OBVIOUS
<1> HIDE DEF T, C
<1> QED  BY ZenonT(30), <1>2, <1>3, <1>4, <1>5, <1>6

LEMMA TiersWakes == TiersInv /\ Tiers!Wakes => TiersInv'
<1> SUFFICES ASSUME TiersInv, Tiers!Wakes PROVE TiersInv'
  OBVIOUS
<1>1. /\ loop \in Loops(time) /\ time \in Nat /\ loop.pc = "sleeping" /\ loop.until <= time
      /\ CriticalEvery \in Nat /\ loop.until \in Nat
  BY TiersTyped, TiersAssumption DEF Tiers!Wakes, Tiers!At
<1>2. UNCHANGED <<time, saved, starts, faults>>
  BY DEF Tiers!Wakes
<1>3. PICK u \in Nat : /\ u <= time + Lost \/ u = loop.until
                       /\ \/ loop' = [loop EXCEPT !.pc = "standard", !.now0 = time, !.until = u,
                                                  !.nextCritical = time + CriticalEvery]
                          \/ loop' = [loop EXCEPT !.pc = "standard", !.now0 = time]
                             /\ u = loop.until
  <2>1. CASE time >= loop.nextCritical
    <3>1. PICK d \in Duration :
            loop' = [loop EXCEPT !.pc = "standard", !.now0 = time, !.until = time + d,
                                 !.nextCritical = time + CriticalEvery]
      BY <2>1 DEF Tiers!Wakes
    <3>2. time + d \in Nat /\ time + d <= time + Lost
      BY <1>1, LostIs
    <3> QED  BY <3>1, <3>2
  <2>2. CASE ~(time >= loop.nextCritical)
    BY <1>1, <2>2 DEF Tiers!Wakes
  <2> QED  BY <2>1, <2>2
<1>4. /\ loop' \in Loops(time) /\ loop'.pc = "standard" /\ loop'.until = u
      /\ loop'.lastStandard = loop.lastStandard /\ loop'.lastExtended = loop.lastExtended
      /\ loop'.lastSlow = loop.lastSlow
  <2>1. CASE loop' = [loop EXCEPT !.pc = "standard", !.now0 = time, !.until = u,
                                  !.nextCritical = time + CriticalEvery]
    BY <1>1, <2>1, LoopChanges
  <2>2. CASE loop' = [loop EXCEPT !.pc = "standard", !.now0 = time] /\ u = loop.until
    BY <1>1, <2>2, LoopChanges
  <2> QED  BY <1>3, <2>1, <2>2
<1>5. ASSUME Std # <<>>
      PROVE  /\ time <= Reach(After(loop'.pc), LastOf(Std), faults)
             /\ u <= Reach(After(loop'.pc), LastOf(Std), faults)
  <2>1. PICK k \in Nat : /\ Rungs(k, LastOf(Std), faults)
                         /\ time <= Reach(After(loop.pc), LastOf(Std), faults)
    BY <1>1, <1>5, Within
  <2>2. After(loop.pc) = 3 /\ After(loop'.pc) = 4
    BY <1>1, <1>4 DEF After
  <2> QED  BY <1>1, <1>3, <2>1, <2>2, LostIs DEF Rungs
<1> QED  BY <1>1, <1>2, <1>4, <1>5, Moves

LEMMA TiersNotDue ==
  TiersInv /\ (\/ Tiers!StandardNotDue \/ Tiers!ExtendedNotDue \/ Tiers!SlowNotDue
               \/ Tiers!Sleeps) => TiersInv'
<1> SUFFICES ASSUME TiersInv, \/ Tiers!StandardNotDue \/ Tiers!ExtendedNotDue \/ Tiers!SlowNotDue
                              \/ Tiers!Sleeps
             PROVE  TiersInv'
  OBVIOUS
<1> DEFINE due == Tiers!DueAt(loop.lastStandard)
<1>1. /\ loop \in Loops(time) /\ time \in Nat /\ loop.until <= time /\ loop.nextCritical \in Nat
      /\ loop.pc \notin {"collecting", "extending", "slowing"} /\ loop.until \in Nat
  BY TiersTyped DEF Tiers!StandardNotDue, Tiers!ExtendedNotDue, Tiers!SlowNotDue, Tiers!Sleeps, Tiers!At
<1>2. UNCHANGED <<time, saved, starts, faults>>
  BY DEF Tiers!StandardNotDue, Tiers!ExtendedNotDue, Tiers!SlowNotDue, Tiers!Sleeps
<1>3. due \in Nat
  <2>1. loop.lastStandard \in Nat
    BY TiersTyped
  <2>2. CASE loop.lastStandard = 0
    BY <2>2 DEF Tiers!DueAt
  <2>3. CASE loop.lastStandard # 0
    <3>1. loop.lastStandard \in Nat \ {0} /\ loop.lastStandard <= loop.lastStandard
      BY <2>1, <2>3
    <3> QED  BY <2>1, <3>1, DueSpaced
  <2> QED  BY <2>2, <2>3
<1> HIDE DEF due
<1>4. CASE Tiers!StandardNotDue
  <2>1. loop' = [loop EXCEPT !.pc = "extended"] /\ time < due
    BY <1>4 DEF Tiers!StandardNotDue, due
  <2>2. /\ loop' \in Loops(time) /\ loop'.pc = "extended" /\ loop'.until = loop.until
        /\ loop'.lastStandard = loop.lastStandard /\ loop'.lastExtended = loop.lastExtended
        /\ loop'.lastSlow = loop.lastSlow
    BY <1>1, <2>1, LoopChanges
  <2>3. ASSUME Std # <<>>
        PROVE  /\ time <= Reach(After(loop'.pc), LastOf(Std), faults)
               /\ loop'.until <= Reach(After(loop'.pc), LastOf(Std), faults)
    <3>1. PICK k \in Nat : Rungs(k, LastOf(Std), faults) /\ due <= k
      BY <1>1, <2>3, Within DEF due
    <3>2. After(loop'.pc) = 0
      BY <2>2 DEF After
    <3> QED  BY <1>1, <1>3, <2>1, <2>2, <3>1, <3>2 DEF Rungs
  <2> QED  BY <1>1, <1>2, <2>2, <2>3, Moves
<1>5. CASE Tiers!ExtendedNotDue
  <2>1. loop' = [loop EXCEPT !.pc = "slow"] /\ loop.pc = "extended"
    BY <1>5 DEF Tiers!ExtendedNotDue, Tiers!At
  <2>2. /\ loop' \in Loops(time) /\ loop'.pc = "slow" /\ loop'.until = loop.until
        /\ loop'.lastStandard = loop.lastStandard /\ loop'.lastExtended = loop.lastExtended
        /\ loop'.lastSlow = loop.lastSlow
    BY <1>1, <2>1, LoopChanges
  <2>3. ASSUME Std # <<>>
        PROVE  /\ time <= Reach(After(loop'.pc), LastOf(Std), faults)
               /\ loop'.until <= Reach(After(loop'.pc), LastOf(Std), faults)
    <3>1. PICK k \in Nat : /\ Rungs(k, LastOf(Std), faults)
                           /\ time <= Reach(After(loop.pc), LastOf(Std), faults)
      BY <1>1, <2>3, Within
    <3>2. After(loop.pc) = 0 /\ After(loop'.pc) = 1
      BY <2>1, <2>2 DEF After
    <3> QED  BY <1>1, <2>2, <3>1, <3>2, LostIs DEF Rungs
  <2> QED  BY <1>1, <1>2, <2>2, <2>3, Moves
<1>6. CASE Tiers!Sleeps
  <2>1. loop.pc = "ending"
    BY <1>6 DEF Tiers!Sleeps, Tiers!At
  <2>2. PICK u \in Nat : /\ loop' = [loop EXCEPT !.pc = "sleeping", !.now0 = 0, !.until = u]
                         /\ u <= due \/ u <= time
    <3> DEFINE first == IF due < loop.nextCritical THEN due ELSE loop.nextCritical
               u == IF first > time THEN first ELSE time
    <3>1. loop' = [loop EXCEPT !.pc = "sleeping", !.now0 = 0, !.until = u]
      BY <1>6 DEF Tiers!Sleeps, due
    <3>2. u \in Nat /\ (u <= due \/ u <= time)
      BY <1>1, <1>3
    <3> QED  BY <3>1, <3>2
  <2>3. /\ loop' \in Loops(time) /\ loop'.pc = "sleeping" /\ loop'.until = u
        /\ loop'.lastStandard = loop.lastStandard /\ loop'.lastExtended = loop.lastExtended
        /\ loop'.lastSlow = loop.lastSlow
    BY <1>1, <2>2, LoopChanges
  <2>4. ASSUME Std # <<>>
        PROVE  /\ time <= Reach(After(loop'.pc), LastOf(Std), faults)
               /\ loop'.until <= Reach(After(loop'.pc), LastOf(Std), faults)
    <3>1. PICK k \in Nat : /\ Rungs(k, LastOf(Std), faults) /\ due <= k
                           /\ time <= Reach(After(loop.pc), LastOf(Std), faults)
      BY <1>1, <2>4, Within DEF due
    <3>2. After(loop.pc) = 3 /\ After(loop'.pc) = 3
      BY <2>1, <2>3 DEF After
    <3> QED  BY <1>1, <1>3, <2>2, <2>3, <3>1, <3>2, LostIs DEF Rungs
  <2> QED  BY <1>1, <1>2, <2>3, <2>4, Moves
<1>7. CASE Tiers!SlowNotDue
  <2>1. loop' = [loop EXCEPT !.pc = "ending"] /\ loop.pc = "slow"
    BY <1>7 DEF Tiers!SlowNotDue, Tiers!At
  <2>2. /\ loop' \in Loops(time) /\ loop'.pc = "ending" /\ loop'.until = loop.until
        /\ loop'.lastStandard = loop.lastStandard /\ loop'.lastExtended = loop.lastExtended
        /\ loop'.lastSlow = loop.lastSlow
    BY <1>1, <2>1, LoopChanges
  <2>3. ASSUME Std # <<>>
        PROVE  /\ time <= Reach(After(loop'.pc), LastOf(Std), faults)
               /\ loop'.until <= Reach(After(loop'.pc), LastOf(Std), faults)
    <3>1. PICK k \in Nat : /\ Rungs(k, LastOf(Std), faults)
                           /\ time <= Reach(After(loop.pc), LastOf(Std), faults)
      BY <1>1, <2>3, Within
    <3>2. After(loop.pc) = 1 /\ After(loop'.pc) = 3
      BY <2>1, <2>2 DEF After
    <3> QED  BY <1>1, <2>2, <3>1, <3>2, LostIs DEF Rungs
  <2> QED  BY <1>1, <1>2, <2>2, <2>3, Moves
<1> QED  BY <1>4, <1>5, <1>6, <1>7

-----------------------------------------------------------------------------
\* A step that changes the starts.
LEMMA TiersFold ==
  ASSUME TiersInv, time' \in Nat, time <= time', time' <= MaxTierTime,
         loop' \in Loops(time'), saved' \in [{"standard", "extended", "slow_extended"} -> 0..time'],
         faults' \in 0..MaxFaults,
         starts' \in [{"standard", "extended", "slow_extended"} -> Seq(Nat)],
         \A t \in {"standard", "extended", "slow_extended"} : starts'[t] \in Seq(0..time') /\ Len(starts'[t]) <= 3,
         Tiers!StandardIsSpaced', Tiers!OneCatchUp',
         Std' # <<>> => Kept(loop', LastOf(Std'), saved'["standard"], time', faults'),
         Anchored(loop', starts')
  PROVE  TiersInv'
<1>1. time' \in Start..MaxTierTime
  <2>1. time \in Nat /\ Start <= time /\ Start \in Nat /\ MaxTierTime \in Nat
    BY TiersTyped, TiersAssumption
  <2> QED  BY <2>1
<1>2. Tiers!TypeOK'
  BY <1>1 DEF Tiers!TypeOK, Tiers!Tier, Loops
<1>3. (Std # <<>> => Kept(loop, LastOf(Std), saved["standard"], time, faults))'
  BY DEF LastOf, Kept, Reach, Lost, Tiers!Wait, Tiers!Longest
<1>4. Anchored(loop, starts)'
  BY DEF Anchored, AnchoredAt, Running, Base, Every, Runs, Rests, LastOf
<1> QED  BY <1>2, <1>3, <1>4 DEF TiersInv, Tiers!Tier

\* What is kept of the starts stays in the past.
LEMMA KeepTyped ==
  ASSUME NEW t \in Nat, NEW s \in Seq(0..t), Len(s) <= 3, NEW at \in 0..t
  PROVE  Keep(s, at) \in Seq(0..t) /\ Keep(s, at) \in Seq(Nat) /\ Len(Keep(s, at)) <= 3
<1>1. Tail(s) \in Seq(0..t) \/ s = <<>>
  OBVIOUS
<1>2. Keep(s, at) \in Seq(0..t)
  <2>1. CASE Len(s) < 3
    BY <2>1 DEF Keep
  <2>2. CASE ~(Len(s) < 3)
    <3>1. s # <<>>
      <4>1. Len(<<>>) = 0 /\ 0 < 3
        OBVIOUS
      <4> QED  BY <2>2, <4>1, Zenon
    <3> QED  BY <1>1, <2>2, <3>1 DEF Keep
  <2> QED  BY <2>1, <2>2
<1>3. s \in Seq(Nat) /\ at \in Nat
  <2>1. t <= t
    OBVIOUS
  <2> QED  BY <2>1, SeqLater
<1> DEFINE n == Len(Keep(s, at))
<1>4. Keep(s, at) \in Seq(Nat) /\ n \in 1..3
  BY <1>3, KeepIs
<1> HIDE DEF n
<1>5. n <= 3
  BY <1>4
<1> QED  BY <1>2, <1>4, <1>5, Zenon DEF n

LEMMA TiersStarts == TiersInv /\ Tiers!StandardStarts => TiersInv'
<1> SUFFICES ASSUME TiersInv, Tiers!StandardStarts PROVE TiersInv'
  OBVIOUS
<1> DEFINE s == Std
           n == Keep(s, time)
<1>1. /\ loop.pc = "standard" /\ time >= Tiers!DueAt(loop.lastStandard)
      /\ starts' = Tiers!Ran("standard", time)
      /\ UNCHANGED <<time, saved, faults>>
  BY DEF Tiers!StandardStarts, Tiers!At
<1>2. /\ time \in Nat /\ time > 0 /\ time <= MaxTierTime /\ faults \in 0..MaxFaults
      /\ saved \in [{"standard", "extended", "slow_extended"} -> 0..time] /\ Lost \in Nat
      /\ starts \in [{"standard", "extended", "slow_extended"} -> Seq(Nat)]
      /\ s \in Seq(0..time) /\ Len(s) <= 3 /\ loop.lastStandard \in Nat
      /\ \A t \in {"extended", "slow_extended"} : starts[t] \in Seq(0..time) /\ Len(starts[t]) <= 3
  <2>1. loop.lastStandard \in 0..time /\ time \in Nat
    BY TiersTyped
  <2>2. loop.lastStandard \in Nat
    BY <2>1
  <2> QED  BY <2>2, TiersTyped, LostIs DEF TiersInv, Tiers!TypeOK
<1>3. starts' = [starts EXCEPT !["standard"] = n]
  BY <1>1 DEF Tiers!Ran, Keep, Std
<1>4. s \in Seq(Nat) /\ \A i \in 1..Len(s) : s[i] \in Nat /\ s[i] <= time
  <2>1. time <= time
    BY <1>2
  <2> QED  BY <1>2, <2>1, SeqLater
<1>5. n \in Seq(0..time) /\ n \in Seq(Nat) /\ Len(n) <= 3
  <2>1. time \in 0..time
    BY <1>2
  <2> QED  BY <1>2, <2>1, KeepTyped
<1>6. /\ n[Len(n)] = time /\ n # <<>> /\ Len(n) \in 1..3
      /\ Len(n) >= 2 => s # <<>> /\ n[Len(n) - 1] = s[Len(s)]
      /\ \A i \in 2..(Len(n) - 1) : \E j \in 2..Len(s) : n[i - 1] = s[j - 1] /\ n[i] = s[j]
  BY ZenonT(30), <1>2, <1>4, KeepIs
<1> HIDE DEF n
<1>7. /\ Std' = n /\ \A t \in {"extended", "slow_extended"} : starts'[t] = starts[t]
      /\ starts' \in [{"standard", "extended", "slow_extended"} -> Seq(Nat)]
      /\ \A t \in {"standard", "extended", "slow_extended"} : starts'[t] \in Seq(0..time) /\ Len(starts'[t]) <= 3
  BY <1>2, <1>3, <1>5 DEF Std
<1>8. PICK u \in Nat : /\ loop' = [loop EXCEPT !.pc = "collecting", !.started = time, !.until = u]
                       /\ u <= time + Lost
  <2>1. PICK d \in Duration :
          loop' = [loop EXCEPT !.pc = "collecting", !.started = time, !.until = time + d]
    BY DEF Tiers!StandardStarts
  <2>2. time + d \in Nat /\ time + d <= time + Lost
    BY <1>2, LostIs
  <2> QED  BY <2>1, <2>2
<1>9. /\ loop' \in Loops(time) /\ loop'.pc = "collecting" /\ loop'.until = u
      /\ loop'.started = time /\ loop'.lastExtended = loop.lastExtended
      /\ loop'.lastSlow = loop.lastSlow
  BY <1>8, LoopChanges
<1>10. Kept(loop', LastOf(Std'), saved'["standard"], time', faults')
  <2>1. LastOf(Std') = time
    BY <1>6, <1>7 DEF LastOf
  <2>2. saved["standard"] \in 0..time
    BY <1>2
  <2>3. saved["standard"] <= time + Lost /\ time <= time + Lost
    BY <1>2, <2>2
  <2> QED  BY <1>1, <1>2, <1>8, <1>9, <2>1, <2>3 DEF Kept
<1>11. Anchored(loop', starts')
  <2>1. Anchored(loop, starts)
    BY DEF TiersInv
  <2> QED  BY <1>1, <1>7, <1>9, <2>1 DEF Anchored, AnchoredAt, Running, Base
<1>12. Tiers!OneCatchUp'
  BY <1>7 DEF TiersInv, Tiers!OneCatchUp, Tiers!Tier
<1>13. ASSUME NEW i \in 2..Len(n)
       PROVE  n[i] >= n[i - 1] + Gap /\ Tiers!Slot(n[i]) > Tiers!Slot(n[i - 1])
  <2>1. CASE i = Len(n)
    <3>1. Len(n) >= 2 /\ s # <<>> /\ n[i - 1] = LastOf(s) /\ n[i] = time
      BY <1>6, <2>1 DEF LastOf
    <3>2. /\ LastOf(s) \in Nat \ {0} /\ LastOf(s) <= loop.lastStandard
      <4>1. LastOf(s) \in Nat /\ 0 < LastOf(s)
            /\ Kept(loop, LastOf(s), saved["standard"], time, faults)
        BY <3>1, LastStart
      <4> QED  BY <1>1, <4>1 DEF Kept
    <3> QED  BY <1>1, <1>2, <3>1, <3>2, DueSpaced
  <2>2. CASE i # Len(n)
    <3>1. i \in 2..(Len(n) - 1)
      BY <1>6, <2>2
    <3>2. PICK j \in 2..Len(s) : n[i - 1] = s[j - 1] /\ n[i] = s[j]
      BY <1>6, <3>1
    <3>3. j \in DOMAIN s \ {1}
      BY <1>4
    <3> QED  BY <3>2, <3>3 DEF TiersInv, Tiers!StandardIsSpaced, Std
  <2> QED  BY <2>1, <2>2
<1>14. Tiers!StandardIsSpaced'
  <2>1. DOMAIN n \ {1} = 2..Len(n)
    BY <1>5
  <2>2. starts'["standard"] = n
    BY <1>7 DEF Std
  <2> QED  BY <1>13, <2>1, <2>2 DEF Tiers!StandardIsSpaced, Tiers!Slot
<1> QED  BY <1>1, <1>2, <1>7, <1>9, <1>10, <1>11, <1>12, <1>14, TiersFold

LEMMA TiersEnds == TiersInv /\ Tiers!StandardEnds => TiersInv'
<1> SUFFICES ASSUME TiersInv, Tiers!StandardEnds PROVE TiersInv'
  OBVIOUS
<1>1. /\ loop.pc = "collecting" /\ UNCHANGED <<time, starts>>
      /\ loop' = [loop EXCEPT !.pc = "extended", !.lastStandard = loop.started, !.started = 0]
      /\ Tiers!Recorded("standard")
  BY DEF Tiers!StandardEnds, Tiers!At
<1>2. /\ time \in Nat /\ time <= MaxTierTime /\ faults \in 0..MaxFaults /\ faults \in Nat
      /\ saved \in [{"standard", "extended", "slow_extended"} -> 0..time] /\ MaxFaults \in Nat /\ Lost \in Nat
      /\ loop.until \in Nat /\ Tiers!Wait \in Nat /\ Tiers!Wait >= Lost
  BY TiersTyped, EmailAssumption, LostIs DEF TiersInv, Tiers!TypeOK
<1>3. /\ loop' \in Loops(time) /\ loop'.pc = "extended" /\ loop'.until = loop.until
      /\ loop'.lastStandard = loop.started /\ loop'.lastExtended = loop.lastExtended
      /\ loop'.lastSlow = loop.lastSlow
  BY <1>1, <1>2, LoopChanges
<1>4. \/ saved' = [saved EXCEPT !["standard"] = time] /\ faults' = faults
      \/ saved' = saved /\ faults' = faults + 1 /\ faults < MaxFaults
  BY <1>1 DEF Tiers!Recorded, Tiers!Fault
<1>5. /\ faults' \in 0..MaxFaults /\ faults' \in Nat
      /\ saved' \in [{"standard", "extended", "slow_extended"} -> 0..time]
      /\ saved'["standard"] = time \/ saved'["standard"] = saved["standard"]
  <2>1. time \in 0..time
    BY <1>2
  <2>2. faults' \in 0..MaxFaults /\ faults' \in Nat
    BY <1>2, <1>4
  <2> QED  BY <1>2, <1>4, <2>1, <2>2
<1>6. ASSUME Std # <<>> PROVE Kept(loop', LastOf(Std), saved'["standard"], time', faults')
  <2> DEFINE a == LastOf(Std)
             k == Reach(0, a, faults')
  <2>1. a \in Nat /\ 0 < a /\ a <= time /\ Kept(loop, a, saved["standard"], time, faults)
    BY <1>6, LastStart
  <2> HIDE DEF a
  <2>2. /\ loop.started = a /\ time <= a + Lost /\ loop.until <= a + Lost
        /\ saved["standard"] >= a => saved["standard"] <= a + Lost
    BY <1>1, <2>1 DEF Kept
  <2>3. k \in Nat /\ k >= a + Tiers!Wait
    BY <1>5, <2>1, ReachIs, 0 \in Nat
  <2>4. saved'["standard"] >= a => saved'["standard"] <= a + Lost
    BY <1>5, <2>2
  <2>5. After(loop'.pc) = 0
    BY <1>3 DEF After
  <2> HIDE DEF k
  <2>6. time <= k /\ loop'.until <= k /\ a <= a + Lost
    BY <1>2, <1>3, <2>1, <2>2, <2>3
  <2> QED  BY <1>1, <1>3, <2>1, <2>2, <2>4, <2>5, <2>6 DEF Kept, k, a
<1>7. Anchored(loop', starts)
  <2>1. Anchored(loop, starts)
    BY DEF TiersInv
  <2> QED  BY <1>1, <1>3, <2>1 DEF Anchored, AnchoredAt, Running, Base
<1>8. time <= time
  BY <1>2
<1> QED  BY <1>1, <1>2, <1>3, <1>5, <1>6, <1>7, <1>8, TiersStill

\* A tier on its anchor begins: it was due, so the start before the last is an interval old.
LEMMA AnchorRuns ==
  ASSUME NEW s \in Seq(Nat), Len(s) <= 3, NEW at \in Nat, NEW last \in Nat,
         NEW every \in Nat \ {0}, at >= last + every, Rests(last, every, s)
  PROVE  /\ Runs(at, last, every, Keep(s, at))
         /\ Len(Keep(s, at)) = 3 => Keep(s, at)[3] >= Keep(s, at)[1] + every
<1> DEFINE n == Keep(s, at)
<1>1. /\ n \in Seq(Nat) /\ n # <<>> /\ n[Len(n)] = at
      /\ Len(n) >= 2 => s # <<>> /\ n[Len(n) - 1] = s[Len(s)]
  BY KeepIs
<1>2. Len(n) = 3 => Len(s) >= 2 /\ n[1] = s[Len(s) - 1]
  BY KeepIs, Zenon
<1> HIDE DEF n
<1>3. s # <<>> => LastOf(s) \in Nat /\ LastOf(s) < last + every
  <2> SUFFICES ASSUME s # <<>> PROVE LastOf(s) \in Nat /\ LastOf(s) < last + every
    OBVIOUS
  <2>1. Len(s) \in 1..Len(s)
    OBVIOUS
  <2>2. s[Len(s)] \in Nat
    BY <2>1, ElementOfSeq
  <2> QED  BY <2>2 DEF Rests, LastOf
<1>4. Len(n) >= 2 => n[Len(n) - 1] <= LastOf(n) /\ n[Len(n) - 1] < last + every
  BY SMTT(30), <1>1, <1>3 DEF LastOf
<1>5. Len(n) = 3 => n[3] >= n[1] + every
  <2> SUFFICES ASSUME Len(n) = 3 PROVE n[3] >= n[1] + every
    OBVIOUS
  <2>1. Len(s) >= 2 /\ n[1] = s[Len(s) - 1] /\ n[3] = at
    BY <1>1, <1>2
  <2>2. Len(s) - 1 \in 1..Len(s)
    BY <2>1
  <2>3. s[Len(s) - 1] \in Nat /\ s[Len(s) - 1] <= last
    BY <2>1, <2>2, ElementOfSeq DEF Rests
  <2> QED  BY <2>1, <2>3
<1> QED  BY <1>1, <1>4, <1>5 DEF Runs, LastOf, n

\* It ends: the anchor moves one interval on, or to the run that was later than that.
LEMMA AnchorEnds ==
  ASSUME NEW s \in Seq(Nat), NEW at \in Nat, NEW last \in Nat, NEW every \in Nat \ {0},
         Runs(at, last, every, s)
  PROVE  /\ Tiers!NextAnchor(last, at, every) \in 0..at
         /\ Rests(Tiers!NextAnchor(last, at, every), every, s)
<1> DEFINE next == Tiers!NextAnchor(last, at, every)
<1>1. next = IF at - (last + every) < every THEN last + every ELSE at
  BY DEF Tiers!NextAnchor
<1> HIDE DEF next
<1>2. s # <<>> /\ LastOf(s) = at /\ last + every <= at
  BY DEF Runs
<1>3. next \in 0..at /\ at < next + every /\ (next = at \/ next = last + every)
  BY <1>1, <1>2
<1>4. Len(s) >= 2 => s[Len(s) - 1] <= LastOf(s) /\ s[Len(s) - 1] <= next
  <2> SUFFICES ASSUME Len(s) >= 2 PROVE s[Len(s) - 1] <= LastOf(s) /\ s[Len(s) - 1] <= next
    OBVIOUS
  <2>1. Len(s) - 1 \in 1..Len(s)
    OBVIOUS
  <2>2. s[Len(s) - 1] \in Nat
    BY <2>1, ElementOfSeq
  <2>3. s[Len(s) - 1] <= at /\ s[Len(s) - 1] < last + every /\ s[Len(s) - 1] <= LastOf(s)
    BY <1>2 DEF Runs
  <2> QED  BY <1>3, <2>2, <2>3
<1> QED  BY <1>2, <1>3, <1>4 DEF Rests, next

\* A new process begins with a completion it read, which is no older than the last start.
LEMMA AnchorSeeded ==
  ASSUME NEW s \in Seq(Nat), s # <<>>, NEW seed \in Nat, LastOf(s) <= seed,
         NEW at, NEW last, NEW every \in Nat \ {0}, Runs(at, last, every, s) \/ Rests(last, every, s)
  PROVE  Rests(seed, every, s)
<1>1. Len(s) \in 1..Len(s)
  OBVIOUS
<1>2. s[Len(s)] \in Nat
  BY <1>1, ElementOfSeq
<1>3. LastOf(s) \in Nat
  BY <1>2 DEF LastOf
<1>4. Len(s) >= 2 => s[Len(s) - 1] <= LastOf(s)
  BY DEF Runs, Rests
<1>5. Len(s) >= 2 => s[Len(s) - 1] <= seed
  <2> SUFFICES ASSUME Len(s) >= 2 PROVE s[Len(s) - 1] <= seed
    OBVIOUS
  <2>1. Len(s) - 1 \in 1..Len(s)
    OBVIOUS
  <2>2. s[Len(s) - 1] \in Nat
    BY <2>1, ElementOfSeq
  <2> QED  BY <1>3, <1>4, <2>2
<1> QED  BY <1>3, <1>4, <1>5 DEF Rests

LEMMA TiersBegins ==
  ASSUME TiersInv, NEW t \in {"extended", "slow_extended"},
         loop.pc = IF t = "extended" THEN "extended" ELSE "slow",
         loop.now0 >= Base(loop, t) + Every(t), starts' = Tiers!Ran(t, loop.now0),
         UNCHANGED <<time, saved, faults>>,
         NEW d \in Duration, loop' = [loop EXCEPT !.pc = Running(t), !.until = time + d]
  PROVE  TiersInv'
<1> DEFINE s == starts[t]
           at == loop.now0
           n == Keep(s, at)
           last == Base(loop, t)
<1>1. /\ time \in Nat /\ time <= time /\ time <= MaxTierTime /\ faults \in 0..MaxFaults
      /\ saved \in [{"standard", "extended", "slow_extended"} -> 0..time] /\ Lost \in Nat
      /\ starts \in [{"standard", "extended", "slow_extended"} -> Seq(Nat)]
      /\ \A u \in {"standard", "extended", "slow_extended"} :
           starts[u] \in Seq(0..time) /\ Len(starts[u]) <= 3
      /\ at \in 0..time
  <2>1. time \in Nat
    BY TiersTyped
  <2>2. time <= time
    BY <2>1
  <2> QED  BY <2>1, <2>2, TiersTyped, LostIs DEF TiersInv, Tiers!TypeOK, Std
<1>2. /\ s \in Seq(0..time) /\ s \in Seq(Nat) /\ Len(s) <= 3
      /\ at \in Nat /\ last \in Nat /\ Every(t) \in Nat \ {0}
  <2>1. loop.lastExtended \in 0..time /\ loop.lastSlow \in 0..time
    BY TiersTyped
  <2>2. last \in 0..time
    BY <2>1 DEF Base
  <2>3. Every(t) \in Nat \ {0}
    BY TiersAssumption DEF Every
  <2> HIDE DEF last
  <2>4. at \in Nat /\ last \in Nat
    BY <1>1, <2>2
  <2> QED  BY <1>1, <2>3, <2>4
<1>3. starts' = [starts EXCEPT ![t] = n]
  BY DEF Tiers!Ran, Keep
<1>4. n \in Seq(0..time) /\ n \in Seq(Nat) /\ Len(n) <= 3
  BY <1>1, <1>2, KeepTyped
<1>5. Rests(last, Every(t), s)
  BY DEF TiersInv, Anchored, AnchoredAt, Running
<1>6. /\ Runs(at, last, Every(t), n)
      /\ Len(n) = 3 => n[3] >= n[1] + Every(t)
  <2> HIDE DEF s, at, last
  <2> QED  BY <1>2, <1>5, AnchorRuns DEF last, at
<1> HIDE DEF n, at
<1>7. /\ starts'[t] = n
      /\ \A u \in {"standard", "extended", "slow_extended"} \ {t} : starts'[u] = starts[u]
      /\ starts' \in [{"standard", "extended", "slow_extended"} -> Seq(Nat)]
  BY <1>1, <1>3, <1>4
<1>8. /\ \A u \in {"standard", "extended", "slow_extended"} :
           starts'[u] \in Seq(0..time) /\ Len(starts'[u]) <= 3
      /\ Std' = Std
  BY <1>1, <1>4, <1>7 DEF Std
<1>9. /\ time + d \in Nat /\ time + d <= time + Lost
  BY <1>1, LostIs
<1>10. /\ loop' \in Loops(time) /\ loop'.pc = Running(t) /\ loop'.until = time + d
       /\ loop'.now0 = at /\ loop'.lastStandard = loop.lastStandard
       /\ loop'.lastExtended = loop.lastExtended /\ loop'.lastSlow = loop.lastSlow
  <2>1. Running(t) \in {"extending", "slowing"}
    BY DEF Running
  <2> QED  BY <1>9, <2>1, LoopChanges DEF at
<1>11. ASSUME Std # <<>> PROVE Kept(loop', LastOf(Std), saved["standard"], time, faults)
  <2>1. PICK k \in Nat : /\ Rungs(k, LastOf(Std), faults)
                         /\ time <= Reach(After(loop.pc), LastOf(Std), faults)
    BY <1>11, Within
  <2>2. \/ After(loop.pc) = 0 /\ After(loop'.pc) = 1
        \/ After(loop.pc) = 1 /\ After(loop'.pc) = 2
    BY <1>10 DEF After, Running
  <2>3. /\ time <= Reach(After(loop'.pc), LastOf(Std), faults)
        /\ loop'.until <= Reach(After(loop'.pc), LastOf(Std), faults)
    <3> DEFINE b == LastOf(Std)
               L == Lost
               e == time + d
    <3>1. /\ Reach(0, b, faults) = k /\ Reach(1, b, faults) = k + L
          /\ Reach(2, b, faults) = k + 2 * L /\ L \in Nat /\ loop'.until = e
          /\ e \in Nat /\ e <= time + L /\ time \in Nat
          /\ time <= Reach(After(loop.pc), b, faults)
      BY <1>1, <1>9, <1>10, <2>1 DEF Rungs
    <3> HIDE DEF b, L, e
    <3>2. CASE After(loop.pc) = 0 /\ After(loop'.pc) = 1
      BY <3>1, <3>2 DEF b
    <3>3. CASE After(loop.pc) = 1 /\ After(loop'.pc) = 2
      BY <3>1, <3>3 DEF b
    <3> QED  BY <2>2, <3>2, <3>3
  <2>4. Kept(loop, LastOf(Std), saved["standard"], time, faults)
    BY <1>11, LastStart
  <2>5. loop.pc # "collecting" /\ loop'.pc # "collecting"
    BY <1>10 DEF Running
  <2> QED  BY <1>10, <2>3, <2>4, <2>5 DEF Kept
<1>12. Anchored(loop', starts')
  <2> SUFFICES ASSUME NEW u \in {"extended", "slow_extended"} PROVE AnchoredAt(loop', u, starts'[u])
    BY DEF Anchored
  <2>1. Base(loop', u) = Base(loop, u)
    BY <1>10 DEF Base
  <2>2. CASE u = t
    BY <1>6, <1>7, <1>10, <2>1, <2>2 DEF AnchoredAt
  <2>3. CASE u # t
    <3>1. Rests(Base(loop, u), Every(u), starts[u])
      BY DEF TiersInv, Anchored, AnchoredAt, Running
    <3>2. loop'.pc # Running(u) /\ starts'[u] = starts[u]
      BY <1>7, <1>10, <2>3 DEF Running
    <3> QED  BY <2>1, <3>1, <3>2 DEF AnchoredAt
  <2> QED  BY <2>2, <2>3
<1>13. Tiers!OneCatchUp'
  <2> SUFFICES ASSUME NEW u \in {"extended", "slow_extended"}, Len(starts'[u]) = 3
               PROVE  starts'[u][3] >= starts'[u][1] + Every(u)
    BY DEF Tiers!OneCatchUp, Tiers!Tier, Tiers!Interval, Every
  <2>1. CASE u = t
    BY <1>6, <1>7, <2>1
  <2>2. CASE u # t
    <3>1. starts'[u] = starts[u]
      BY <1>7, <2>2
    <3> QED  BY <3>1 DEF TiersInv, Tiers!OneCatchUp, Tiers!Tier, Tiers!Interval, Every
  <2> QED  BY <2>1, <2>2
<1>14. Tiers!StandardIsSpaced'
  BY <1>8 DEF TiersInv, Tiers!StandardIsSpaced, Tiers!Slot, Std
<1> QED  BY <1>1, <1>7, <1>8, <1>10, <1>11, <1>12, <1>13, <1>14, TiersFold

LEMMA TiersExtends == TiersInv /\ Tiers!ExtendedStarts => TiersInv'
<1> SUFFICES ASSUME TiersInv, Tiers!ExtendedStarts PROVE TiersInv'
  OBVIOUS
<1>1. /\ loop.pc = "extended" /\ loop.now0 >= Base(loop, "extended") + Every("extended")
      /\ starts' = Tiers!Ran("extended", loop.now0) /\ UNCHANGED <<time, saved, faults>>
  BY DEF Tiers!ExtendedStarts, Tiers!At, Base, Every
<1>2. PICK d \in Duration : loop' = [loop EXCEPT !.pc = Running("extended"), !.until = time + d]
  BY DEF Tiers!ExtendedStarts, Running
<1> QED  BY <1>1, <1>2, TiersBegins

LEMMA TiersSlows == TiersInv /\ Tiers!SlowStarts => TiersInv'
<1> SUFFICES ASSUME TiersInv, Tiers!SlowStarts PROVE TiersInv'
  OBVIOUS
<1>1. /\ loop.pc = "slow" /\ loop.now0 >= Base(loop, "slow_extended") + Every("slow_extended")
      /\ starts' = Tiers!Ran("slow_extended", loop.now0) /\ UNCHANGED <<time, saved, faults>>
  BY DEF Tiers!SlowStarts, Tiers!At, Base, Every
<1>2. PICK d \in Duration :
        loop' = [loop EXCEPT !.pc = Running("slow_extended"), !.until = time + d]
  BY DEF Tiers!SlowStarts, Running
<1> QED  BY <1>1, <1>2, TiersBegins

\* Where the anchor goes when the tier ends.
LEMMA NextIs ==
  ASSUME TiersInv, NEW t \in {"extended", "slow_extended"}, loop.pc = Running(t)
  PROVE  /\ Tiers!NextAnchor(Base(loop, t), loop.now0, Every(t)) \in 0..time
         /\ Rests(Tiers!NextAnchor(Base(loop, t), loop.now0, Every(t)), Every(t), starts[t])
<1> DEFINE next == Tiers!NextAnchor(Base(loop, t), loop.now0, Every(t))
<1>1. /\ time \in Nat /\ loop.now0 \in 0..time /\ starts[t] \in Seq(Nat)
      /\ loop.lastExtended \in 0..time /\ loop.lastSlow \in 0..time
  BY TiersTyped
<1>2. Base(loop, t) \in 0..time /\ Every(t) \in Nat \ {0}
  BY <1>1, TiersAssumption DEF Base, Every
<1>3. loop.now0 \in Nat /\ Base(loop, t) \in Nat
  BY <1>1, <1>2
<1>4. Runs(loop.now0, Base(loop, t), Every(t), starts[t])
  BY DEF TiersInv, Anchored, AnchoredAt
<1>5. next \in 0..loop.now0 /\ Rests(next, Every(t), starts[t])
  BY <1>1, <1>2, <1>3, <1>4, AnchorEnds
<1> HIDE DEF next
<1>6. next \in 0..time
  BY <1>1, <1>5
<1> QED  BY <1>5, <1>6 DEF next

LEMMA TiersDone ==
  ASSUME TiersInv, NEW t \in {"extended", "slow_extended"}, loop.pc = Running(t),
         UNCHANGED <<time, starts>>, Tiers!Recorded(t),
         loop' \in Loops(time), loop'.lastStandard = loop.lastStandard,
         \/ t = "extended" /\ loop'.pc = "slow" /\ loop'.until = loop.until
         \/ t = "slow_extended" /\ loop'.pc = "ending" /\ loop'.until <= time + Lost,
         Base(loop', t) = Tiers!NextAnchor(Base(loop, t), loop.now0, Every(t)),
         \A u \in {"extended", "slow_extended"} \ {t} : Base(loop', u) = Base(loop, u)
  PROVE  TiersInv'
<1>1. /\ time \in Nat /\ time <= time /\ time <= MaxTierTime
      /\ faults \in 0..MaxFaults /\ faults \in Nat /\ MaxFaults \in Nat
      /\ saved \in [{"standard", "extended", "slow_extended"} -> 0..time]
      /\ loop.until \in Nat /\ loop'.until \in Nat
  <2>1. time \in Nat
    BY TiersTyped
  <2>2. time <= time
    BY <2>1
  <2>3. loop'.until \in Nat
    BY DEF Loops
  <2> QED  BY <2>1, <2>2, <2>3, TiersTyped, EmailAssumption DEF TiersInv, Tiers!TypeOK
<1>2. /\ \/ saved' = [saved EXCEPT ![t] = time] /\ faults' = faults
         \/ saved' = saved /\ faults' = faults + 1 /\ faults < MaxFaults
  BY DEF Tiers!Recorded, Tiers!Fault
<1>3. /\ faults' \in 0..MaxFaults /\ faults' \in {faults, faults + 1} /\ faults' \in Nat
      /\ saved' \in [{"standard", "extended", "slow_extended"} -> 0..time]
      /\ saved'["standard"] = saved["standard"]
  <2>1. time \in 0..time
    BY <1>1
  <2>2. faults' \in 0..MaxFaults /\ faults' \in {faults, faults + 1} /\ faults' \in Nat
    BY <1>1, <1>2
  <2> QED  BY <1>1, <1>2, <2>1, <2>2
<1>4. ASSUME Std # <<>> PROVE Kept(loop', LastOf(Std), saved'["standard"], time', faults')
  <2> DEFINE a == LastOf(Std)
  <2>1. a \in Nat /\ Kept(loop, a, saved["standard"], time, faults)
    BY <1>4, LastStart
  <2> HIDE DEF a
  <2>2. Kept(loop, a, saved["standard"], time, faults')
    BY <1>1, <1>3, <2>1, KeptLonger
  <2>3. loop.pc # "collecting" /\ loop'.pc # "collecting"
    BY DEF Running
  <2>4. PICK k \in Nat : Rungs(k, a, faults')
    BY <1>3, <2>1, Reaches
  <2>5. /\ time <= Reach(After(loop.pc), a, faults')
        /\ loop.until <= Reach(After(loop.pc), a, faults')
    BY <2>2, <2>3 DEF Kept
  <2>6. \/ After(loop.pc) = 1 /\ After(loop'.pc) = 1 /\ loop'.until = loop.until
        \/ After(loop.pc) = 2 /\ After(loop'.pc) = 3 /\ loop'.until <= time + Lost
    BY DEF After, Running
  <2>7. /\ time <= Reach(After(loop'.pc), a, faults')
        /\ loop'.until <= Reach(After(loop'.pc), a, faults')
    BY <1>1, <2>4, <2>5, <2>6, LostIs DEF Rungs
  <2> QED  BY <1>3, <2>2, <2>3, <2>7 DEF Kept, a
<1>5. Anchored(loop', starts)
  <2> SUFFICES ASSUME NEW u \in {"extended", "slow_extended"}
               PROVE  Rests(Base(loop', u), Every(u), starts[u])
    BY DEF Anchored, AnchoredAt, Running
  <2>1. CASE u = t
    BY <2>1, NextIs
  <2>2. CASE u # t
    BY <2>2 DEF TiersInv, Anchored, AnchoredAt, Running
  <2> QED  BY <2>1, <2>2
<1> QED  BY <1>1, <1>3, <1>4, <1>5, TiersStill

LEMMA TiersExtended == TiersInv /\ Tiers!ExtendedEnds => TiersInv'
<1> SUFFICES ASSUME TiersInv, Tiers!ExtendedEnds PROVE TiersInv'
  OBVIOUS
<1> DEFINE next == Tiers!NextAnchor(Base(loop, "extended"), loop.now0, Every("extended"))
<1>1. /\ loop.pc = Running("extended") /\ UNCHANGED <<time, starts>>
      /\ loop' = [loop EXCEPT !.pc = "slow", !.lastExtended = next] /\ Tiers!Recorded("extended")
  BY DEF Tiers!ExtendedEnds, Tiers!At, Running, Base, Every
<1>2. next \in 0..time
  BY <1>1, NextIs
<1> HIDE DEF next
<1>3. /\ loop' \in Loops(time) /\ loop'.pc = "slow" /\ loop'.until = loop.until
      /\ loop'.lastStandard = loop.lastStandard /\ loop'.lastExtended = next
      /\ loop'.lastSlow = loop.lastSlow
  BY <1>1, <1>2, LoopChanges
<1>4. /\ Base(loop', "extended") = next
      /\ Base(loop', "slow_extended") = Base(loop, "slow_extended")
  BY <1>3 DEF Base
<1> QED  BY <1>1, <1>3, <1>4, TiersDone DEF next

LEMMA TiersSlowed == TiersInv /\ Tiers!SlowEnds => TiersInv'
<1> SUFFICES ASSUME TiersInv, Tiers!SlowEnds PROVE TiersInv'
  OBVIOUS
<1> DEFINE next == Tiers!NextAnchor(Base(loop, "slow_extended"), loop.now0, Every("slow_extended"))
<1>1. /\ loop.pc = Running("slow_extended") /\ UNCHANGED <<time, starts>>
      /\ \E d \in Duration :
           loop' = [loop EXCEPT !.pc = "ending", !.until = time + d, !.lastSlow = next]
      /\ Tiers!Recorded("slow_extended")
  BY DEF Tiers!SlowEnds, Tiers!At, Running, Base, Every
<1>2. next \in 0..time /\ time \in Nat
  BY <1>1, NextIs, TiersTyped
<1> HIDE DEF next
<1>3. PICK d \in Duration :
        loop' = [loop EXCEPT !.pc = "ending", !.until = time + d, !.lastSlow = next]
  BY <1>1
<1>4. time + d \in Nat /\ time + d <= time + Lost
  BY <1>2, LostIs
<1>5. /\ loop' \in Loops(time) /\ loop'.pc = "ending" /\ loop'.until = time + d
      /\ loop'.lastStandard = loop.lastStandard /\ loop'.lastExtended = loop.lastExtended
      /\ loop'.lastSlow = next
  BY <1>2, <1>3, <1>4, LoopChanges
<1>6. /\ Base(loop', "slow_extended") = next
      /\ Base(loop', "extended") = Base(loop, "extended")
  BY <1>5 DEF Base
<1> QED  BY <1>1, <1>4, <1>5, <1>6, TiersDone DEF next

\* A process started with these completions.
LEMMA Restarted ==
  ASSUME TiersInv, NEW seed \in [{"standard", "extended", "slow_extended"} -> 0..time], NEW d \in Duration,
         loop' = Tiers!LoopFrom(seed, time + d)
  PROVE  /\ loop' \in Loops(time) /\ loop'.pc = "sleeping" /\ loop'.until = time + d
         /\ time + d <= time + Lost
         /\ loop'.lastStandard = seed["standard"] /\ loop'.lastExtended = seed["extended"]
         /\ loop'.lastSlow = seed["slow_extended"]
<1>1. time \in Nat /\ CriticalEvery \in Nat /\ time + d \in Nat /\ time + d <= time + Lost
  <2>1. time \in Nat
    BY TiersTyped
  <2> QED  BY <2>1, LostIs, TiersAssumption
<1> DEFINE T == 0..time
           C == 0..time + CriticalEvery
<1>2. 0 \in T /\ 0 \in C /\ seed["standard"] \in T /\ seed["extended"] \in T /\ seed["slow_extended"] \in T
  BY <1>1
<1>3. Loops(time) = [pc: Tiers!LoopPc, until: Nat, now0: T, started: T,
                     lastStandard: T, lastExtended: T, lastSlow: T, nextCritical: C]
  BY DEF Loops
<1>4. loop' = [pc |-> "sleeping", until |-> time + d, now0 |-> 0, started |-> 0, nextCritical |-> 0,
               lastStandard |-> seed["standard"], lastExtended |-> seed["extended"],
               lastSlow |-> seed["slow_extended"]]
  BY DEF Tiers!LoopFrom
<1>5. "sleeping" \in Tiers!LoopPc
  BY DEF Tiers!LoopPc
<1> HIDE DEF T, C
<1> QED  BY <1>1, <1>2, <1>3, <1>4, <1>5

LEMMA TiersRestarts == TiersInv /\ (Tiers!Restarts \/ Tiers!RestartsBlind) => TiersInv'
<1> SUFFICES ASSUME TiersInv, Tiers!Restarts \/ Tiers!RestartsBlind PROVE TiersInv'
  OBVIOUS
<1>1. /\ time \in Nat /\ time <= MaxTierTime /\ faults \in 0..MaxFaults /\ faults \in Nat
      /\ saved \in [{"standard", "extended", "slow_extended"} -> 0..time] /\ MaxFaults \in Nat /\ Lost \in Nat
      /\ starts \in [{"standard", "extended", "slow_extended"} -> Seq(Nat)] /\ time <= time
      /\ \A t \in {"standard", "extended", "slow_extended"} : starts[t] \in Seq(0..time) /\ Len(starts[t]) <= 3
      /\ Tiers!Wait \in Nat /\ Tiers!Wait >= Lost
  <2>1. time \in Nat
    BY TiersTyped
  <2>2. time <= time
    BY <2>1
  <2> QED  BY <2>1, <2>2, TiersTyped, EmailAssumption, LostIs DEF TiersInv, Tiers!TypeOK, Std
<1>2. UNCHANGED <<time, saved>> /\ faults' = faults + 1 /\ faults < MaxFaults
  BY DEF Tiers!Restarts, Tiers!RestartsBlind, Tiers!Fault
<1>3. faults' \in 0..MaxFaults /\ faults' \in Nat
  BY <1>1, <1>2
<1>4. Len(<<>>) = 0 /\ <<>> \in Seq(Nat) /\ <<>> \in Seq(0..time) /\ 0 <= 3 /\ DOMAIN <<>> = {}
  OBVIOUS
<1>5. \A t \in {"standard", "extended", "slow_extended"} : saved[t] \in Nat /\ saved[t] <= time
  BY <1>1
<1>6. PICK seed \in [{"standard", "extended", "slow_extended"} -> 0..time] :
        /\ \E d \in Duration : loop' = Tiers!LoopFrom(seed, time + d)
        /\ starts' \in [{"standard", "extended", "slow_extended"} -> Seq(Nat)]
        /\ \A t \in {"standard", "extended", "slow_extended"} :
             \/ starts'[t] = <<>>
             \/ starts'[t] = starts[t] /\ ~Tiers!Unseen(t) /\ seed[t] = saved[t]
  <2>1. CASE Tiers!Restarts
    <3>1. /\ \E d \in Duration : loop' = Tiers!LoopFrom(Tiers!Seeds, time + d)
          /\ starts' = [t \in {"standard", "extended", "slow_extended"} |->
                          IF Tiers!Unseen(t) THEN <<>> ELSE starts[t]]
      BY <2>1 DEF Tiers!Restarts, Tiers!Tier
    <3>2. Tiers!Seeds = [t \in {"standard", "extended", "slow_extended"} |->
                           IF saved[t] > time THEN time ELSE saved[t]]
      BY DEF Tiers!Seeds, Tiers!Tier
    <3>3. \A t \in {"standard", "extended", "slow_extended"} : Tiers!Seeds[t] = saved[t]
      BY <1>1, <1>5, <3>2
    <3>4. Tiers!Seeds \in [{"standard", "extended", "slow_extended"} -> 0..time]
      BY <1>1, <1>5, <3>2
    <3>5. /\ starts' \in [{"standard", "extended", "slow_extended"} -> Seq(Nat)]
          /\ \A t \in {"standard", "extended", "slow_extended"} :
               starts'[t] = <<>> \/ (starts'[t] = starts[t] /\ ~Tiers!Unseen(t))
      BY <1>1, <1>4, <3>1
    <3> QED  BY <3>1, <3>3, <3>4, <3>5
  <2>2. CASE Tiers!RestartsBlind
    <3>1. /\ \E d \in Duration : loop' = Tiers!LoopFrom(Tiers!NothingKnown, time + d)
          /\ starts' = [t \in {"standard", "extended", "slow_extended"} |-> <<>>]
      BY <2>2 DEF Tiers!RestartsBlind, Tiers!Tier
    <3>2. Tiers!NothingKnown \in [{"standard", "extended", "slow_extended"} -> 0..time]
      BY <1>1 DEF Tiers!NothingKnown, Tiers!Tier
    <3>3. /\ starts' \in [{"standard", "extended", "slow_extended"} -> Seq(Nat)]
          /\ \A t \in {"standard", "extended", "slow_extended"} : starts'[t] = <<>>
      BY <1>4, <3>1
    <3> QED  BY <3>1, <3>2, <3>3
  <2> QED  BY <2>1, <2>2
<1>7. PICK d \in Duration : loop' = Tiers!LoopFrom(seed, time + d)
  BY <1>6
<1>8. /\ loop' \in Loops(time) /\ loop'.pc = "sleeping" /\ loop'.until = time + d
      /\ d \in Nat /\ d <= Lost
      /\ loop'.lastStandard = seed["standard"] /\ loop'.lastExtended = seed["extended"]
      /\ loop'.lastSlow = seed["slow_extended"]
  BY <1>7, Restarted, LostIs
<1>9. /\ Std' = <<>> \/ /\ Std' = Std /\ seed["standard"] = saved["standard"]
                        /\ Std # <<>> => saved["standard"] >= LastOf(Std)
      /\ \A t \in {"extended", "slow_extended"} :
           \/ starts'[t] = <<>>
           \/ /\ starts'[t] = starts[t] /\ seed[t] = saved[t]
              /\ starts[t] # <<>> => saved[t] >= LastOf(starts[t])
  <2>1. ASSUME NEW t \in {"standard", "extended", "slow_extended"}, starts[t] # <<>>, ~Tiers!Unseen(t)
        PROVE  saved[t] >= LastOf(starts[t])
    <3>1. starts[t][Len(starts[t])] \in 0..time
      <4>1. Len(starts[t]) \in 1..Len(starts[t])
        BY <1>1, <2>1
      <4> QED  BY <1>1, <4>1, ElementOfSeq
    <3> QED  BY <1>5, <2>1, <3>1 DEF Tiers!Unseen, LastOf
  <2> QED  BY <1>6, <2>1 DEF Std
<1>10. ASSUME Std' # <<>> PROVE Kept(loop', LastOf(Std'), saved'["standard"], time', faults')
  <2> DEFINE a == LastOf(Std)
  <2>1. Std' = Std /\ Std # <<>> /\ seed["standard"] = saved["standard"] /\ saved["standard"] >= a
    BY <1>9, <1>10
  <2>2. a \in Nat /\ 0 < a /\ a <= time /\ Kept(loop, a, saved["standard"], time, faults)
    BY <2>1, LastStart
  <2>3. PICK k \in Nat : /\ Rungs(k, a, faults)
                         /\ \A r \in 0..4 :
                              Reach(r, a, faults + 1) = Reach(r, a, faults) + 2 * Lost
                         /\ loop.pc = "collecting" => time + Lost <= k + Lost
                         /\ loop.pc # "collecting" => time <= Reach(After(loop.pc), a, faults)
    BY <2>1, Within
  <2> HIDE DEF a
  <2>4. After(loop.pc) \in {0, 1, 2, 3, 4} /\ After(loop'.pc) = 3
    BY <1>8 DEF After
  <2>5. time <= k + 4 * Lost
    <3> DEFINE L == Lost
    <3>1. L \in Nat /\ time \in Nat
      BY <1>1
    <3>2. CASE loop.pc = "collecting"
      <4>1. time + L <= k + L
        BY <2>3, <3>2
      <4> HIDE DEF L
      <4> QED  BY <3>1, <4>1 DEF L
    <3>3. CASE loop.pc # "collecting"
      <4>1. \E r \in {0, 1, 2, 3, 4} : time <= Reach(r, a, faults)
        BY <2>3, <2>4, <3>3
      <4>2. time <= k \/ time <= k + L \/ time <= k + 2 * L \/ time <= k + 3 * L \/ time <= k + 4 * L
        BY <2>3, <4>1 DEF Rungs
      <4> HIDE DEF L
      <4>3. time <= k + 4 * L
        BY <3>1, <4>2
      <4> QED  BY <4>3 DEF L
    <3> QED  BY <3>2, <3>3
  <2>6. Reach(3, a, faults') = k + 5 * Lost
    BY <1>1, <1>2, <2>3 DEF Rungs
  <2>7. saved["standard"] <= a + Lost /\ time + d <= k + 5 * Lost /\ time <= k + 5 * Lost
    BY <1>1, <1>8, <2>1, <2>2, <2>5 DEF Kept
  <2>8. faults' # 0
    BY <1>1, <1>2
  <2> QED  BY <1>2, <1>8, <2>1, <2>2, <2>4, <2>6, <2>7, <2>8 DEF Kept, a
<1>11. Anchored(loop', starts')
  <2> SUFFICES ASSUME NEW t \in {"extended", "slow_extended"}
               PROVE  Rests(Base(loop', t), Every(t), starts'[t])
    BY <1>8 DEF Anchored, AnchoredAt, Running
  <2>1. CASE starts'[t] = <<>>
    BY <1>4, <2>1 DEF Rests
  <2>2. CASE starts'[t] # <<>>
    <3>1. /\ starts'[t] = starts[t] /\ Base(loop', t) = saved[t]
          /\ LastOf(starts[t]) <= saved[t] /\ starts[t] # <<>>
      <4>1. /\ starts'[t] = starts[t] /\ seed[t] = saved[t]
            /\ saved[t] >= LastOf(starts[t]) /\ starts[t] # <<>>
        BY <1>9, <2>2
      <4>2. Base(loop', t) = seed[t]
        BY <1>8 DEF Base
      <4> QED  BY <4>1, <4>2
    <3>2. AnchoredAt(loop, t, starts[t])
      BY DEF TiersInv, Anchored
    <3>3. Every(t) \in Nat \ {0} /\ saved[t] \in Nat /\ starts[t] \in Seq(Nat)
      BY <1>1, <1>5, TiersAssumption DEF Every
    <3> QED  BY <3>1, <3>2, <3>3, AnchorSeeded DEF AnchoredAt
  <2> QED  BY <2>1, <2>2
<1>12. \A t \in {"standard", "extended", "slow_extended"} : starts'[t] \in Seq(0..time) /\ Len(starts'[t]) <= 3
  BY <1>1, <1>4, <1>6
<1>13. Tiers!StandardIsSpaced'
  <2>1. starts'["standard"] = <<>> \/ starts'["standard"] = starts["standard"]
    BY <1>6
  <2> QED  BY <1>4, <2>1 DEF TiersInv, Tiers!StandardIsSpaced, Tiers!Slot
<1>14. Tiers!OneCatchUp'
  <2> SUFFICES ASSUME NEW t \in {"extended", "slow_extended"}, Len(starts'[t]) = 3
               PROVE  starts'[t][3] >= starts'[t][1] + Tiers!Interval(t)
    BY DEF Tiers!OneCatchUp, Tiers!Tier, Tiers!Interval
  <2>1. CASE starts'[t] = starts[t]
    BY <2>1 DEF TiersInv, Tiers!OneCatchUp, Tiers!Tier
  <2>2. CASE starts'[t] = <<>>
    <3>1. Len(starts'[t]) = 0 /\ 0 # 3
      BY <1>4, <2>2
    <3> QED  BY <3>1, Zenon
  <2> QED  BY <1>6, <2>1, <2>2
<1> QED  BY <1>1, <1>2, <1>3, <1>6, <1>8, <1>10, <1>11, <1>12, <1>13, <1>14, TiersFold

LEMMA TiersPasses == TiersInv /\ Tiers!Passes => TiersInv'
<1> SUFFICES ASSUME TiersInv, Tiers!Passes PROVE TiersInv'
  OBVIOUS
<1>1. /\ time' = loop.until /\ loop.until \in time + 1..MaxTierTime
      /\ UNCHANGED <<loop, saved, starts, faults>>
  BY DEF Tiers!Passes
<1>2. /\ time \in Nat /\ MaxTierTime \in Nat /\ CriticalEvery \in Nat /\ faults \in 0..MaxFaults
      /\ saved \in [{"standard", "extended", "slow_extended"} -> 0..time] /\ loop \in Loops(time)
  BY TiersTyped, TiersAssumption DEF TiersInv, Tiers!TypeOK
<1>3. time' \in Nat /\ time <= time' /\ time' <= MaxTierTime
  BY <1>1, <1>2
<1>4. /\ 0..time \subseteq 0..time'
      /\ 0..(time + CriticalEvery) \subseteq 0..(time' + CriticalEvery)
  <2>1. ASSUME NEW m \in Nat, NEW n \in Nat, m <= n PROVE 0..m \subseteq 0..n
    BY <2>1
  <2> DEFINE c == time + CriticalEvery
             d == time' + CriticalEvery
  <2>2. c \in Nat /\ d \in Nat /\ c <= d
    <3> DEFINE t == time'
    <3>1. time \in Nat /\ t \in Nat /\ time <= t /\ CriticalEvery \in Nat
      BY <1>2, <1>3
    <3> HIDE DEF t
    <3>2. /\ time + CriticalEvery \in Nat /\ t + CriticalEvery \in Nat
          /\ time + CriticalEvery <= t + CriticalEvery
      BY <3>1
    <3> QED  BY <3>2, Zenon DEF t
  <2> HIDE DEF c, d
  <2>3. 0..c \subseteq 0..d
    BY <2>1, <2>2
  <2>4. 0..time \subseteq 0..time'
    BY <1>2, <1>3, <2>1
  <2> QED  BY <2>3, <2>4 DEF c, d
<1>5. saved' \in [{"standard", "extended", "slow_extended"} -> 0..time']
  BY <1>1, <1>2, <1>4
<1>6. loop' \in Loops(time')
  <2> DEFINE T == 0..time
             C == 0..time + CriticalEvery
             U == 0..time'
             D == 0..time' + CriticalEvery
  <2>1. /\ Loops(time) = [pc: Tiers!LoopPc, until: Nat, now0: T, started: T,
                          lastStandard: T, lastExtended: T, lastSlow: T, nextCritical: C]
        /\ Loops(time') = [pc: Tiers!LoopPc, until: Nat, now0: U, started: U,
                           lastStandard: U, lastExtended: U, lastSlow: U, nextCritical: D]
    BY DEF Loops
  <2>2. T \subseteq U /\ C \subseteq D
    BY <1>4
  <2> HIDE DEF T, C, U, D
  <2> QED  BY <1>1, <1>2, <2>1, <2>2
<1>7. ASSUME Std # <<>> PROVE Kept(loop', LastOf(Std), saved'["standard"], time', faults')
  <2>1. /\ LastOf(Std) \in Nat /\ LastOf(Std) <= time
        /\ Kept(loop, LastOf(Std), saved["standard"], time, faults)
    BY <1>7, LastStart
  <2>2. LastOf(Std) <= loop.until
    BY <1>1, <1>2, <1>3, <2>1
  <2> QED  BY <1>1, <2>1, <2>2 DEF Kept
<1>8. Anchored(loop', starts)
  BY <1>1 DEF TiersInv
<1> QED  BY <1>1, <1>2, <1>3, <1>5, <1>6, <1>7, <1>8, TiersStill

LEMMA TiersNext ==
  ASSUME TiersInv, [ServicesNext]_servicesVars
  PROVE  TiersInv'
<1>1. faults \in 0..MaxFaults
  BY DEF TiersInv, Tiers!TypeOK
<1>2. CASE Tiers!Next
  BY <1>2, TiersWakes, TiersStarts, TiersNotDue, TiersEnds, TiersExtends, TiersExtended,
     TiersSlows, TiersSlowed, TiersRestarts, TiersPasses DEF Tiers!Next
<1>3. CASE UNCHANGED ofTiers
  <2>1. /\ time \in Nat /\ time <= time /\ time <= MaxTierTime /\ loop \in Loops(time)
        /\ saved \in [{"standard", "extended", "slow_extended"} -> 0..time] /\ MaxFaults \in Nat
        /\ loop.until \in Nat /\ faults \in Nat
    <3>1. time \in Nat
      BY TiersTyped
    <3>2. time <= time
      BY <3>1
    <3> QED  BY <3>1, <3>2, TiersTyped, EmailAssumption
  <2>2. faults' \in 0..MaxFaults /\ faults' \in {faults, faults + 1}
    BY <1>1, FaultsStay
  <2>3. faults' \in Nat
    BY <2>1, <2>2
  <2>4. UNCHANGED <<time, loop, saved, starts>>
    BY <1>3 DEF ofTiers
  <2>5. ASSUME Std # <<>> PROVE Kept(loop, LastOf(Std), saved["standard"], time, faults')
    <3>1. LastOf(Std) \in Nat /\ Kept(loop, LastOf(Std), saved["standard"], time, faults)
      BY <2>5, LastStart
    <3> QED  BY <2>1, <2>2, <2>3, <3>1, KeptLonger
  <2>6. Anchored(loop, starts)
    BY DEF TiersInv
  <2> QED  BY <2>1, <2>2, <2>4, <2>5, <2>6, TiersStill
<1> QED  BY <1>2, <1>3, TiersSteps DEF Tiers!vars, ofTiers

LEMMA TiersKept == TiersInv => TiersAreSpaced
<1> SUFFICES ASSUME TiersInv PROVE TiersAreSpaced
  OBVIOUS
<1>1. Tiers!StandardIsOnTime
  <2> SUFFICES ASSUME Std # <<>>
               PROVE  time <= LastOf(Std) + Tiers!Wait + (4 + 2 * faults) * Tiers!Longest
    BY DEF Tiers!StandardIsOnTime, Std, LastOf
  <2> DEFINE a == LastOf(Std)
  <2>1. PICK k \in Nat : /\ Rungs(k, a, faults)
                         /\ loop.pc = "collecting" => time + Lost <= k + Lost
                         /\ loop.pc # "collecting" => time <= Reach(After(loop.pc), a, faults)
    BY Within
  <2>2. After(loop.pc) \in {0, 1, 2, 3, 4} /\ time \in Nat /\ Lost \in Nat
    BY TiersTyped, LostIs DEF After
  <2>3. time <= Reach(4, a, faults)
    BY <2>1, <2>2 DEF Rungs
  <2>4. 2 * faults + 4 = 4 + 2 * faults
    BY TiersTyped
  <2> QED  BY <2>3, <2>4 DEF Reach, Lost
<1> QED  BY <1>1 DEF TiersInv, TiersAreSpaced

\* run_loop: whatever the intervals and the durations, and however often the tiers fail and the
\* process is restarted, the standard tier has one run per slot of its grid and waits for no
\* more than what one iteration runs before it looks again, the extended and the daily tier and
\* the refresh of the model among it, and neither of these tiers catches up in a burst.
THEOREM TiersAreSpacedAlways == ServicesSpec => []TiersAreSpaced
BY TiersInit, TiersNext, TiersKept, PTL DEF ServicesSpec

-----------------------------------------------------------------------------
(* Live updates: what the list of sockets and the loop over it have in common. *)

\* The parts of the type.
ListIs ==
  /\ Live!Listed \subseteq Socket /\ IsFiniteSet(Live!Listed)
  /\ list \in [Live!Listed -> SUBSET Live!Listed]
  /\ \A r, s \in Live!Listed : /\ r \in list[s] <=> r # s /\ s \notin list[r]
                               /\ r \in list[s] => list[r] \subseteq list[s]

SocketsAre ==
  /\ scopes \subseteq Limited /\ Limited \cap Live!Listed \subseteq scopes
  /\ state \in [Socket -> {"new", "open", "broken", "gone"}]
  /\ \A s \in Socket : state[s] \in {"new", "gone"} => s \notin Live!Listed \cup scopes

CastIs ==
  /\ cast = [on |-> cast.on, private |-> cast.private, next |-> cast.next, dead |-> cast.dead,
             there |-> cast.there, left |-> cast.left]
  /\ cast.on \in BOOLEAN /\ cast.private \in BOOLEAN /\ cast.next \in Nat \ {0}
  /\ cast.dead \subseteq Socket /\ cast.there \subseteq Socket /\ cast.left \in Nat

MailIs ==
  /\ fifo \in Seq(BOOLEAN) /\ Len(fifo) <= sent /\ sent \in 0..MaxMessages
  /\ got \in [Socket -> Seq(1..MaxMessages)]

\* The message of the broadcast under way is not one of those s was sent.
Untold(s) == \A i \in DOMAIN got[s] : got[s][i] # Live!Number

\* Those the loop has left behind without a message they should have.
Skipped == {s \in Live!Missed : Live!Place(s) < cast.next}

\* A socket is sent numbers up to the present one in order, and that one only when the loop
\* comes to its place; each that left while it ran moved one other behind the loop.
InStep ==
  /\ \A s \in Socket : state[s] = "new" => got[s] = <<>> /\ s \notin cast.there
  /\ \A s \in Socket : \A i \in DOMAIN got[s] : got[s][i] <= Live!Number
  /\ Live!SentOnceInOrder
  /\ cast.on => /\ Len(fifo) < sent
                /\ \A s \in Live!Listed : Live!Place(s) >= cast.next => Untold(s)
                /\ Cardinality(Skipped) <= cast.left

LiveInv == Live!TypeOK /\ InStep

\* The module counts as the library does.
LEMMA LiveCounts ==
  ASSUME NEW S
  PROVE  Live!Cardinality(S) = Cardinality(S) /\ (Live!IsFiniteSet(S) <=> IsFiniteSet(S))
<1>1. Live!Cardinality(S) = Cardinality(S)
  BY DEF Live!Cardinality, Cardinality
<1>2. Live!IsFiniteSet(S) <=> IsFiniteSet(S)
  BY DEF Live!IsFiniteSet, IsFiniteSet
<1> QED  BY <1>1, <1>2

LEMMA LiveParts ==
  Live!TypeOK <=> ListIs /\ SocketsAre /\ CastIs /\ MailIs /\ faults \in 0..MaxFaults
<1>1. cast \in [on: BOOLEAN, private: BOOLEAN, next: Nat \ {0}, dead: SUBSET Socket,
                there: SUBSET Socket, left: Nat] <=> CastIs
  <2> DEFINE Z == SUBSET Socket
             P == Nat \ {0}
  <2>1. CastIs <=> /\ cast = [on |-> cast.on, private |-> cast.private, next |-> cast.next,
                              dead |-> cast.dead, there |-> cast.there, left |-> cast.left]
                   /\ cast.on \in BOOLEAN /\ cast.private \in BOOLEAN /\ cast.next \in P
                   /\ cast.dead \in Z /\ cast.there \in Z /\ cast.left \in Nat
    BY DEF CastIs
  <2> HIDE DEF Z, P
  <2>2. cast \in [on: BOOLEAN, private: BOOLEAN, next: P, dead: Z, there: Z, left: Nat]
          => /\ cast = [on |-> cast.on, private |-> cast.private, next |-> cast.next,
                        dead |-> cast.dead, there |-> cast.there, left |-> cast.left]
             /\ cast.on \in BOOLEAN /\ cast.private \in BOOLEAN /\ cast.next \in P
             /\ cast.dead \in Z /\ cast.there \in Z /\ cast.left \in Nat
    OBVIOUS
  <2>3. /\ cast = [on |-> cast.on, private |-> cast.private, next |-> cast.next,
                   dead |-> cast.dead, there |-> cast.there, left |-> cast.left]
        /\ cast.on \in BOOLEAN /\ cast.private \in BOOLEAN /\ cast.next \in P
        /\ cast.dead \in Z /\ cast.there \in Z /\ cast.left \in Nat
        => cast \in [on: BOOLEAN, private: BOOLEAN, next: P, dead: Z, there: Z, left: Nat]
    <3> DEFINE a == cast.on
               b == cast.private
               c == cast.next
               d == cast.dead
               e == cast.there
               f == cast.left
    <3>1. a \in BOOLEAN /\ b \in BOOLEAN /\ c \in P /\ d \in Z /\ e \in Z /\ f \in Nat
          => [on |-> a, private |-> b, next |-> c, dead |-> d, there |-> e, left |-> f]
               \in [on: BOOLEAN, private: BOOLEAN, next: P, dead: Z, there: Z, left: Nat]
      <4> HIDE DEF a, b, c, d, e, f
      <4> QED  OBVIOUS
    <3> QED  BY <3>1
  <2> QED  BY <2>1, <2>2, <2>3 DEF P, Z
<1> DEFINE C == cast \in [on: BOOLEAN, private: BOOLEAN, next: Nat \ {0}, dead: SUBSET Socket,
                          there: SUBSET Socket, left: Nat]
<1>2. C <=> CastIs
  BY <1>1
<1>3. Live!TypeOK <=> ListIs /\ SocketsAre /\ C /\ MailIs /\ faults \in 0..MaxFaults
  BY LiveCounts DEF Live!TypeOK, ListIs, SocketsAre, MailIs
<1> HIDE DEF C
<1> QED  BY <1>2, <1>3

LEMMA LivePartsNext ==
  ListIs' /\ SocketsAre' /\ CastIs' /\ MailIs' /\ (faults \in 0..MaxFaults)' => Live!TypeOK'
BY LiveParts, PTL

\* A socket's place, and that of one in front of it.
LEMMA PlacesOf ==
  ASSUME ListIs, NEW s \in Live!Listed
  PROVE  /\ list[s] \subseteq Live!Listed /\ IsFiniteSet(list[s])
         /\ Live!Place(s) \in Nat /\ Live!Place(s) >= 1
         /\ \A r \in list[s] : Live!Place(r) < Live!Place(s)
<1>1. list[s] \subseteq Live!Listed /\ IsFiniteSet(Live!Listed)
  BY DEF ListIs
<1>2. IsFiniteSet(list[s]) /\ Cardinality(list[s]) \in Nat
  BY <1>1, FS_Subset, FS_CardinalityType
<1>3. ASSUME NEW r \in list[s]
      PROVE  Live!Place(r) < Live!Place(s)
  <2>1. r \in Live!Listed /\ list[r] \subseteq list[s] /\ r \notin list[r]
    BY <1>1, <1>3 DEF ListIs
  <2>2. list[r] \subseteq list[s] \ {r}
    BY <2>1
  <2>3. IsFiniteSet(list[s] \ {r}) /\ Cardinality(list[s] \ {r}) = Cardinality(list[s]) - 1
    BY <1>2, <1>3, FS_RemoveElement
  <2>4. Cardinality(list[r]) <= Cardinality(list[s] \ {r}) /\ Cardinality(list[r]) \in Nat
    BY <2>2, <2>3, FS_Subset, FS_CardinalityType
  <2> DEFINE x == Cardinality(list[r])
             y == Cardinality(list[s])
  <2>5. x <= y - 1 /\ x \in Nat /\ y \in Nat
    BY <1>2, <2>3, <2>4
  <2> HIDE DEF x, y
  <2>6. x + 1 < y + 1
    BY <2>5
  <2>7. Live!Place(r) = x + 1 /\ Live!Place(s) = y + 1
    BY LiveCounts, Zenon DEF Live!Place, x, y
  <2> QED  BY <2>6, <2>7
<1>4. Live!Place(s) \in Nat /\ Live!Place(s) >= 1
  <2> DEFINE y == Cardinality(list[s])
  <2>1. y + 1 \in Nat /\ y + 1 >= 1
    BY <1>2
  <2>2. Live!Place(s) = y + 1
    BY LiveCounts, Zenon DEF Live!Place
  <2> HIDE DEF y
  <2> QED  BY <2>1, <2>2
<1> QED  BY <1>1, <1>2, <1>3, <1>4

\* Two of the list are in front of one another.
LEMMA PlacesDiffer ==
  ASSUME ListIs, NEW r \in Live!Listed, NEW s \in Live!Listed, Live!Place(r) = Live!Place(s)
  PROVE  r = s
<1>1. /\ Live!Place(r) \in Nat /\ Live!Place(s) \in Nat
      /\ r \in list[s] => Live!Place(r) < Live!Place(s)
      /\ s \in list[r] => Live!Place(s) < Live!Place(r)
  BY PlacesOf
<1>2. r = s \/ r \in list[s] \/ s \in list[r]
  BY DEF ListIs
<1> QED  BY <1>1, <1>2

\* A removal moves those behind it forward.
LEMMA RemovalMoves ==
  ASSUME ListIs, NEW R, list' = Live!Without(R)
  PROVE  /\ ListIs' /\ Live!Listed' = Live!Listed \ R
         /\ \A s \in Live!Listed' : list'[s] = list[s] \ R /\ Live!Place(s)' <= Live!Place(s)
<1>1. /\ Live!Listed' = Live!Listed \ R
      /\ \A s \in Live!Listed' : list'[s] = list[s] \ R
      /\ list' \in [Live!Listed' -> SUBSET Live!Listed']
  BY DEF Live!Without, Live!Listed, ListIs
<1>2. IsFiniteSet(Live!Listed') /\ Live!Listed' \subseteq Socket
  BY <1>1, FS_Subset DEF ListIs
<1>3. \A r, s \in Live!Listed' : /\ r \in list'[s] <=> r # s /\ s \notin list'[r]
                                 /\ r \in list'[s] => list'[r] \subseteq list'[s]
  BY <1>1 DEF ListIs
<1>4. ListIs'
  BY <1>1, <1>2, <1>3 DEF ListIs
<1>5. ASSUME NEW s \in Live!Listed'
      PROVE  Live!Place(s)' <= Live!Place(s)
  <2>1. s \in Live!Listed /\ IsFiniteSet(list[s]) /\ list[s] \ R \subseteq list[s]
    BY <1>1, PlacesOf
  <2>2. /\ Cardinality(list[s] \ R) <= Cardinality(list[s])
        /\ Cardinality(list[s] \ R) \in Nat /\ Cardinality(list[s]) \in Nat
    BY <2>1, FS_Subset, FS_CardinalityType
  <2> DEFINE x == Cardinality(list[s] \ R)
             y == Cardinality(list[s])
  <2>3. Live!Place(s)' = x + 1 /\ Live!Place(s) = y + 1
    BY <1>1, LiveCounts, Zenon DEF Live!Place
  <2>4. x + 1 <= y + 1
    BY <2>2
  <2> HIDE DEF x, y
  <2> QED  BY <2>3, <2>4
<1> QED  BY <1>1, <1>4, <1>5

\* One removal moves them by one place.
LEMMA RemovalOfOne ==
  ASSUME ListIs, NEW x, list' = Live!Without({x}), NEW s \in Live!Listed'
  PROVE  Live!Place(s)' + 1 >= Live!Place(s)
<1>1. s \in Live!Listed /\ list'[s] = list[s] \ {x}
  BY RemovalMoves
<1>2. IsFiniteSet(list[s]) /\ Cardinality(list[s]) \in Nat
  BY <1>1, PlacesOf, FS_CardinalityType
<1>3. Cardinality(list[s] \ {x}) = IF x \in list[s] THEN Cardinality(list[s]) - 1
                                   ELSE Cardinality(list[s])
  BY <1>2, FS_RemoveElement
<1> DEFINE x2 == Cardinality(list[s] \ {x})
           y == Cardinality(list[s])
<1>4. Live!Place(s)' = x2 + 1 /\ Live!Place(s) = y + 1
  BY <1>1, LiveCounts, Zenon DEF Live!Place
<1>5. x2 + 1 + 1 >= y + 1
  BY <1>2, <1>3
<1> HIDE DEF x2, y
<1> QED  BY <1>4, <1>5

\* Nobody moves for a socket that joins.
LEMMA JoinMoves ==
  ASSUME ListIs, NEW x \in Socket, x \notin Live!Listed, list' = Live!Appended(x)
  PROVE  /\ ListIs' /\ Live!Listed' = Live!Listed \cup {x}
         /\ \A s \in Live!Listed : list'[s] = list[s] /\ Live!Place(s)' = Live!Place(s)
<1>1. /\ Live!Listed' = Live!Listed \cup {x} /\ list'[x] = Live!Listed
      /\ \A s \in Live!Listed : list'[s] = list[s]
      /\ list' = [s \in Live!Listed' |-> list'[s]]
  BY DEF Live!Appended, Live!Listed
<1>2. IsFiniteSet(Live!Listed') /\ Live!Listed' \subseteq Socket
  BY <1>1, FS_AddElement DEF ListIs
<1>3. \A s \in Live!Listed : list[s] \subseteq Live!Listed
  BY DEF ListIs
<1>4. list' \in [Live!Listed' -> SUBSET Live!Listed']
  <2>1. \A s \in Live!Listed' : list'[s] \subseteq Live!Listed'
    BY <1>1, <1>3
  <2> QED  BY <1>1, <2>1
<1>5. ASSUME NEW r \in Live!Listed', NEW s \in Live!Listed'
      PROVE  /\ r \in list'[s] <=> r # s /\ s \notin list'[r]
             /\ r \in list'[s] => list'[r] \subseteq list'[s]
  <2>1. CASE r \in Live!Listed /\ s \in Live!Listed
    BY <1>1, <2>1 DEF ListIs
  <2>2. CASE r = x
    BY <1>1, <1>3, <2>2
  <2>3. CASE s = x
    BY <1>1, <1>3, <2>3
  <2> QED  BY <1>1, <2>1, <2>2, <2>3
<1>6. ListIs'
  BY <1>2, <1>4, <1>5 DEF ListIs
<1> QED  BY <1>1, <1>6 DEF Live!Place

-----------------------------------------------------------------------------
(* Live updates: each step.                                                   *)

LEMMA SkippedIsFinite ==
  ASSUME ListIs
  PROVE  IsFiniteSet(Skipped) /\ Cardinality(Skipped) \in Nat
<1>1. Skipped \subseteq Live!Listed
  BY DEF Skipped, Live!Missed
<1> QED  BY <1>1, FS_Subset, FS_CardinalityType DEF ListIs

\* Where nobody else is skipped, the bound on them stands.
LEMMA SkipsStand ==
  ASSUME ListIs, Skipped' \subseteq Skipped, NEW n \in Nat, NEW m \in Nat,
         Cardinality(Skipped) <= n, n <= m
  PROVE  Cardinality(Skipped') <= m
<1>1. IsFiniteSet(Skipped) /\ Cardinality(Skipped) \in Nat
  BY SkippedIsFinite
<1>2. Cardinality(Skipped') \in Nat /\ Cardinality(Skipped') <= Cardinality(Skipped)
  BY <1>1, FS_Subset, FS_CardinalityType
<1> DEFINE x == Cardinality(Skipped)
           y == Cardinality(Skipped')
<1>3. x \in Nat /\ y \in Nat /\ y <= x /\ x <= n
  BY <1>1, <1>2
<1> HIDE DEF x, y
<1>4. y <= m
  BY <1>3
<1> QED  BY <1>4 DEF y

LEMMA NumberOf ==
  ASSUME MailIs
  PROVE  /\ MaxMessages \in Nat /\ sent \in Nat /\ sent <= MaxMessages /\ Len(fifo) \in Nat
         /\ Live!Number \in Nat /\ Live!Number <= MaxMessages
         /\ Len(fifo) < sent => Live!Number \in 1..MaxMessages
<1>1. MaxMessages \in Nat
  BY BoundsAssumption
<1>2. fifo \in Seq(BOOLEAN) /\ Len(fifo) <= sent /\ sent \in 0..MaxMessages
  BY DEF MailIs
<1>3. Len(fifo) \in Nat
  BY <1>2
<1> QED  BY <1>1, <1>2, <1>3 DEF Live!Number

\* What was sent is a number.
LEMMA SentNumbers ==
  ASSUME MailIs, NEW s \in Socket, NEW i \in DOMAIN got[s]
  PROVE  got[s][i] \in Nat
<1> DEFINE S == 1..MaxMessages
           t == got[s]
<1>1. t \in Seq(S)
  BY DEF MailIs
<1>2. S \subseteq Nat
  BY NumberOf
<1>3. i \in DOMAIN t
  OBVIOUS
<1> HIDE DEF S, t
<1>4. t[i] \in S
  BY <1>1, <1>3
<1> QED  BY <1>2, <1>4 DEF t

LEMMA LiveConnects ==
  ASSUME LiveInv, NEW x \in Socket, Live!Connects(x)
  PROVE  LiveInv'
<1>1. ListIs /\ SocketsAre /\ CastIs /\ MailIs /\ faults \in 0..MaxFaults /\ InStep
  BY LiveParts DEF LiveInv
<1>2. /\ state[x] = "new" /\ state' = [state EXCEPT ![x] = "open"]
      /\ scopes' = scopes \cup ({x} \cap Limited) /\ list' = Live!Appended(x)
      /\ UNCHANGED <<cast, faults, fifo, got, sent>>
  BY DEF Live!Connects, Live!Casting
<1>3. x \notin Live!Listed /\ got[x] = <<>> /\ x \notin cast.there
  BY <1>1, <1>2 DEF SocketsAre, InStep
<1>4. /\ ListIs' /\ Live!Listed' = Live!Listed \cup {x}
      /\ \A s \in Live!Listed : Live!Place(s)' = Live!Place(s)
  BY <1>1, <1>2, <1>3, JoinMoves
<1>5. SocketsAre' /\ \A s \in Socket \ {x} : state'[s] = state[s]
  BY <1>1, <1>2, <1>3, <1>4 DEF SocketsAre
<1>6. CastIs' /\ MailIs'
  BY <1>1, <1>2 DEF CastIs, MailIs
<1>7. Live!Number' = Live!Number /\ \A s : Untold(s)' <=> Untold(s)
  BY <1>2 DEF Live!Number, Untold
<1>8. Skipped' \subseteq Skipped
  <2>1. Live!Missed' \subseteq Live!Missed
    BY <1>1, <1>2, <1>3, <1>4, <1>5, <1>7 DEF Live!Missed, ListIs
  <2>2. Live!Missed \subseteq Live!Listed
    BY DEF Live!Missed
  <2> QED  BY <1>2, <1>4, <2>1, <2>2 DEF Skipped
<1>9. InStep'
  <2>1. \A s \in Socket : state'[s] = "new" => got'[s] = <<>> /\ s \notin cast'.there
    BY <1>1, <1>2, <1>5 DEF InStep, SocketsAre
  <2>2. \A s \in Socket : \A i \in DOMAIN got'[s] : got'[s][i] <= Live!Number'
    BY <1>1, <1>2, <1>7 DEF InStep
  <2>3. Live!SentOnceInOrder'
    BY <1>1, <1>2 DEF InStep, Live!SentOnceInOrder
  <2>4. ASSUME cast'.on
        PROVE  \A s \in Live!Listed' : Live!Place(s)' >= cast'.next => Untold(s)'
    <3>1. Untold(x)
      BY <1>3 DEF Untold
    <3> QED  BY <1>1, <1>2, <1>4, <1>7, <2>4, <3>1 DEF InStep
  <2>5. ASSUME cast'.on
        PROVE  Len(fifo') < sent' /\ Cardinality(Skipped') <= cast'.left
    <3>1. cast.left \in Nat /\ Cardinality(Skipped) <= cast.left /\ Len(fifo) < sent
      BY <1>1, <1>2, <2>5 DEF InStep, CastIs
    <3>2. Cardinality(Skipped') <= cast.left
      <4> DEFINE n == cast.left
      <4>1. n \in Nat /\ Cardinality(Skipped) <= n /\ n <= n
        BY <3>1
      <4> HIDE DEF n
      <4>2. Cardinality(Skipped') <= n
        BY <1>1, <1>8, <4>1, SkipsStand
      <4> QED  BY <4>2 DEF n
    <3> QED  BY <1>2, <3>1, <3>2
  <2> QED  BY <2>1, <2>2, <2>3, <2>4, <2>5 DEF InStep
<1> QED  BY <1>1, <1>2, <1>4, <1>5, <1>6, <1>9, LivePartsNext DEF LiveInv

\* A step that sends nothing and moves no socket to a later place.
LEMMA NothingSent ==
  ASSUME InStep, got' = got, Live!Number' = Live!Number,
         \A s \in Socket : state'[s] = "new" => state[s] = "new",
         cast'.on = cast.on, cast'.next = cast.next, cast'.there = cast.there,
         cast.on => Len(fifo') < sent',
         \A s \in Live!Listed' :
           s \in Live!Listed /\ (Live!Place(s)' >= cast.next => Live!Place(s) >= cast.next),
         cast.on => Cardinality(Skipped') <= cast'.left
  PROVE  InStep'
<1>1. \A s \in Socket : state'[s] = "new" => got'[s] = <<>> /\ s \notin cast'.there
  BY DEF InStep
<1>2. \A s \in Socket : \A i \in DOMAIN got'[s] : got'[s][i] <= Live!Number'
  BY DEF InStep
<1>3. Live!SentOnceInOrder'
  BY DEF InStep, Live!SentOnceInOrder
<1>4. \A s : Untold(s)' <=> Untold(s)
  BY DEF Untold
<1>5. cast'.on => \A s \in Live!Listed' : Live!Place(s)' >= cast'.next => Untold(s)'
  BY <1>4 DEF InStep
<1> QED  BY <1>1, <1>2, <1>3, <1>5 DEF InStep

LEMMA LiveBreaks ==
  ASSUME LiveInv, faults' \in 0..MaxFaults, NEW x \in Socket, Live!Breaks(x)
  PROVE  LiveInv'
<1>1. ListIs /\ SocketsAre /\ CastIs /\ MailIs /\ InStep
  BY LiveParts DEF LiveInv
<1>2. /\ state[x] = "open" /\ state' = [state EXCEPT ![x] = "broken"]
      /\ UNCHANGED <<list, scopes, cast, fifo, got, sent>>
  BY DEF Live!Breaks, Live!Casting
<1>3. \A s \in Socket : state'[s] = IF s = x THEN "broken" ELSE state[s]
  BY <1>1, <1>2 DEF SocketsAre
<1>4. Live!Listed' = Live!Listed /\ \A s : Live!Place(s)' = Live!Place(s)
  BY <1>2 DEF Live!Listed, Live!Place
<1>5. ListIs' /\ CastIs' /\ MailIs'
  BY <1>1, <1>2 DEF ListIs, CastIs, MailIs, Live!Listed
<1>6. SocketsAre'
  BY <1>1, <1>2, <1>3, <1>4 DEF SocketsAre
<1>7. Live!Number' = Live!Number
  BY <1>2 DEF Live!Number
<1>8. Skipped' \subseteq Skipped
  <2>1. Live!Missed' \subseteq Live!Missed
    BY <1>1, <1>2, <1>3, <1>4, <1>7 DEF Live!Missed, ListIs
  <2> QED  BY <1>2, <1>4, <2>1 DEF Skipped
<1>9. cast.on => Cardinality(Skipped') <= cast'.left
  <2> SUFFICES ASSUME cast.on
               PROVE  Cardinality(Skipped') <= cast.left
    BY <1>2
  <2> DEFINE n == cast.left
  <2>1. n \in Nat /\ Cardinality(Skipped) <= n /\ n <= n
    BY <1>1 DEF InStep, CastIs
  <2> HIDE DEF n
  <2>2. Cardinality(Skipped') <= n
    BY <1>1, <1>8, <2>1, SkipsStand
  <2> QED  BY <2>2 DEF n
<1>10. InStep'
  <2>1. \A s \in Socket : state'[s] = "new" => state[s] = "new"
    BY <1>3
  <2>2. cast.on => Len(fifo') < sent'
    BY <1>1, <1>2 DEF InStep
  <2> QED  BY <1>1, <1>2, <1>4, <1>7, <1>9, <2>1, <2>2, NothingSent
<1> QED  BY <1>5, <1>6, <1>10, LivePartsNext DEF LiveInv

LEMMA LiveDisconnects ==
  ASSUME LiveInv, faults' \in 0..MaxFaults, NEW x \in Socket, Live!Disconnects(x)
  PROVE  LiveInv'
<1>1. ListIs /\ SocketsAre /\ CastIs /\ MailIs /\ InStep
  BY LiveParts DEF LiveInv
<1>2. /\ state[x] # "new" /\ state' = [state EXCEPT ![x] = "gone"]
      /\ scopes' = scopes \ {x} /\ list' = Live!Without({x})
      /\ cast' = IF cast.on /\ x \in Live!Listed THEN [cast EXCEPT !.left = @ + 1] ELSE cast
      /\ UNCHANGED <<fifo, got, sent>>
  BY DEF Live!Disconnects, Live!Casting
<1>3. \A s \in Socket : state'[s] = IF s = x THEN "gone" ELSE state[s]
  BY <1>1, <1>2 DEF SocketsAre
<1>4. /\ ListIs' /\ Live!Listed' = Live!Listed \ {x}
      /\ \A s \in Live!Listed' : Live!Place(s)' <= Live!Place(s) /\ list'[s] = list[s] \ {x}
  BY <1>1, <1>2, RemovalMoves
<1>5. /\ CastIs' /\ cast'.on = cast.on /\ cast'.next = cast.next /\ cast'.there = cast.there
      /\ cast'.private = cast.private
      /\ cast'.left = IF cast.on /\ x \in Live!Listed THEN cast.left + 1 ELSE cast.left
  <2>1. CASE cast.on /\ x \in Live!Listed
    <3>1. cast' = [cast EXCEPT !.left = cast.left + 1]
      BY <1>2, <2>1
    <3>2. cast' = [on |-> cast.on, private |-> cast.private, next |-> cast.next,
                   dead |-> cast.dead, there |-> cast.there, left |-> cast.left + 1]
      BY <1>1, <3>1 DEF CastIs
    <3> QED  BY <1>1, <2>1, <3>2 DEF CastIs
  <2>2. CASE ~(cast.on /\ x \in Live!Listed)
    BY <1>1, <1>2, <2>2 DEF CastIs
  <2> QED  BY <2>1, <2>2
<1>6. MailIs' /\ Live!Number' = Live!Number
  BY <1>1, <1>2 DEF MailIs, Live!Number
<1>7. SocketsAre'
  BY <1>1, <1>2, <1>3, <1>4 DEF SocketsAre
<1>8. Live!Missed' \subseteq Live!Missed
  BY <1>1, <1>2, <1>3, <1>4, <1>5, <1>6 DEF Live!Missed, ListIs
<1>9. \A s \in Live!Listed' : /\ s \in Live!Listed
                              /\ Live!Place(s)' \in Nat /\ Live!Place(s) \in Nat
                              /\ Live!Place(s)' <= Live!Place(s)
                              /\ Live!Place(s)' + 1 >= Live!Place(s)
  <2> SUFFICES ASSUME NEW s \in Live!Listed'
               PROVE  /\ s \in Live!Listed
                      /\ Live!Place(s)' \in Nat /\ Live!Place(s) \in Nat
                      /\ Live!Place(s)' <= Live!Place(s)
                      /\ Live!Place(s)' + 1 >= Live!Place(s)
    OBVIOUS
  <2>1. s \in Live!Listed
    BY <1>4
  <2>2. Live!Place(s) \in Nat
    BY <1>1, <2>1, PlacesOf
  <2>3. Live!Place(s)' \in Nat
    <3>1. IsFiniteSet(list[s] \ {x})
      BY <1>1, <2>1, PlacesOf, FS_RemoveElement
    <3>2. Cardinality(list'[s]) \in Nat
      BY <1>4, <3>1, FS_CardinalityType
    <3>3. Live!Place(s)' = Cardinality(list'[s]) + 1
      BY LiveCounts, Zenon DEF Live!Place
    <3> DEFINE c == Cardinality(list'[s])
    <3> HIDE DEF c
    <3>4. Live!Place(s)' = c + 1 /\ c \in Nat
      BY <3>2, <3>3 DEF c
    <3> QED  BY <3>4
  <2> QED  BY <1>1, <1>2, <1>4, <2>1, <2>2, <2>3, RemovalOfOne
<1>10. cast.on => Cardinality(Skipped') <= cast'.left
  <2> SUFFICES ASSUME cast.on
               PROVE  Cardinality(Skipped') <= cast'.left
    OBVIOUS
  <2>1. /\ IsFiniteSet(Skipped) /\ Cardinality(Skipped) \in Nat
        /\ Cardinality(Skipped) <= cast.left /\ cast.left \in Nat /\ cast.next \in Nat
    BY <1>1, SkippedIsFinite DEF InStep, CastIs
  <2>2. CASE x \notin Live!Listed
    <3>1. \A s \in Live!Listed' : Live!Place(s)' = Live!Place(s)
      <4> SUFFICES ASSUME NEW s \in Live!Listed'
                   PROVE  Live!Place(s)' = Live!Place(s)
        OBVIOUS
      <4>1. list[s] \subseteq Live!Listed /\ list'[s] = list[s] \ {x}
        BY <1>1, <1>4, PlacesOf
      <4>2. list'[s] = list[s]
        BY <2>2, <4>1
      <4> QED  BY <4>2, Zenon DEF Live!Place
    <3>2. Live!Missed' \subseteq Live!Listed'
      BY DEF Live!Missed
    <3>3. Skipped' \subseteq Skipped
      BY <1>5, <1>8, <3>1, <3>2 DEF Skipped
    <3> DEFINE n == cast.left
    <3>4. n \in Nat /\ Cardinality(Skipped) <= n /\ n <= n
      BY <2>1
    <3> HIDE DEF n
    <3>5. Cardinality(Skipped') <= n
      BY <1>1, <3>3, <3>4, SkipsStand
    <3> QED  BY <1>5, <2>2, <3>5 DEF n
  <2>3. CASE x \in Live!Listed
    <3>1. \A s \in Skipped' : s \in Live!Listed /\ (s \in Skipped \/ Live!Place(s) = cast.next)
      <4> SUFFICES ASSUME NEW s \in Skipped'
                   PROVE  s \in Live!Listed /\ (s \in Skipped \/ Live!Place(s) = cast.next)
        OBVIOUS
      <4>1. s \in Live!Missed' /\ s \in Live!Listed' /\ Live!Place(s)' < cast.next
        BY <1>5 DEF Skipped, Live!Missed
      <4> DEFINE p == Live!Place(s)
                 q == Live!Place(s)'
      <4>2. p \in Nat /\ q \in Nat /\ q < cast.next /\ q + 1 >= p
        BY <1>9, <4>1
      <4> HIDE DEF p, q
      <4>3. p < cast.next \/ p = cast.next
        BY <2>1, <4>2
      <4> QED  BY <1>8, <1>9, <4>1, <4>3 DEF p, Skipped
    <3>2. \E y : Skipped' \subseteq Skipped \cup {y}
      <4>1. CASE \E y \in Live!Listed : Live!Place(y) = cast.next
        <5>1. PICK y \in Live!Listed : Live!Place(y) = cast.next
          BY <4>1
        <5>2. \A s \in Live!Listed : Live!Place(s) = cast.next => s = y
          BY <1>1, <5>1, PlacesDiffer
        <5> QED  BY <3>1, <5>2
      <4>2. CASE ~\E y \in Live!Listed : Live!Place(y) = cast.next
        BY <3>1, <4>2
      <4> QED  BY <4>1, <4>2
    <3>3. PICK y : Skipped' \subseteq Skipped \cup {y}
      BY <3>2
    <3> DEFINE T == Skipped \cup {y}
               a == Cardinality(Skipped)
               b == Cardinality(T)
               c == Cardinality(Skipped')
    <3>4. IsFiniteSet(T) /\ b \in Nat /\ b <= a + 1
      <4>1. IsFiniteSet(T) /\ b = IF y \in Skipped THEN a ELSE a + 1
        BY <2>1, FS_AddElement
      <4>2. a \in Nat
        BY <2>1
      <4> HIDE DEF a, b, T
      <4> QED  BY <4>1, <4>2
    <3>5. c \in Nat /\ c <= b
      BY <3>3, <3>4, FS_Subset, FS_CardinalityType
    <3>6. a \in Nat /\ a <= cast.left
      BY <2>1
    <3>7. cast'.left = cast.left + 1
      BY <1>5, <2>3
    <3> HIDE DEF a, b, c, T
    <3>8. c <= cast.left + 1
      BY <2>1, <3>4, <3>5, <3>6
    <3> QED  BY <3>7, <3>8 DEF c
  <2> QED  BY <2>2, <2>3
<1>11. InStep'
  <2>1. \A s \in Socket : state'[s] = "new" => state[s] = "new"
    BY <1>3
  <2>2. cast.on => Len(fifo') < sent'
    BY <1>1, <1>2 DEF InStep
  <2>3. \A s \in Live!Listed' :
          s \in Live!Listed /\ (Live!Place(s)' >= cast.next => Live!Place(s) >= cast.next)
    <3> SUFFICES ASSUME NEW s \in Live!Listed'
                 PROVE  s \in Live!Listed
                        /\ (Live!Place(s)' >= cast.next => Live!Place(s) >= cast.next)
      OBVIOUS
    <3> DEFINE p == Live!Place(s)
               q == Live!Place(s)'
    <3>1. p \in Nat /\ q \in Nat /\ q <= p /\ cast.next \in Nat /\ s \in Live!Listed
      BY <1>1, <1>9 DEF CastIs
    <3> HIDE DEF p, q
    <3>2. q >= cast.next => p >= cast.next
      BY <3>1
    <3> QED  BY <3>1, <3>2 DEF p, q
  <2> QED  BY <1>1, <1>2, <1>5, <1>6, <1>10, <2>1, <2>2, <2>3, NothingSent
<1> QED  BY <1>4, <1>5, <1>6, <1>7, <1>11, LivePartsNext DEF LiveInv

LEMMA LivePublishes ==
  ASSUME LiveInv, faults' \in 0..MaxFaults, Live!Publishes
  PROVE  LiveInv'
<1>1. ListIs /\ SocketsAre /\ CastIs /\ MailIs /\ InStep
  BY LiveParts DEF LiveInv
<1>2. /\ sent < MaxMessages /\ sent' = sent + 1
      /\ UNCHANGED <<list, scopes, state, cast, got>>
  BY DEF Live!Publishes
<1>3. PICK private \in BOOLEAN : fifo' = Append(fifo, private)
  BY DEF Live!Publishes
<1>4. fifo' \in Seq(BOOLEAN) /\ Len(fifo') = Len(fifo) + 1
  BY <1>1, <1>3 DEF MailIs
<1>5. MaxMessages \in Nat /\ sent \in Nat /\ sent <= MaxMessages /\ Len(fifo) \in Nat
  BY <1>1, NumberOf
<1>6. MailIs' /\ Live!Number' = Live!Number
  <2>1. sent' \in 0..MaxMessages /\ Len(fifo') <= sent'
    <3>1. Len(fifo) <= sent
      BY <1>1 DEF MailIs
    <3> DEFINE n == Len(fifo)
               k == Len(fifo')
               t == sent'
    <3>2. n \in Nat /\ n <= sent /\ k = n + 1 /\ t = sent + 1
      BY <1>2, <1>4, <1>5, <3>1
    <3> HIDE DEF n, k, t
    <3>3. t \in 0..MaxMessages /\ k <= t
      BY <1>2, <1>5, <3>2
    <3> QED  BY <3>3 DEF k, t
  <2>2. (sent + 1) - (Len(fifo) + 1) = sent - Len(fifo)
    BY <1>5
  <2> QED  BY <1>1, <1>2, <1>4, <2>1, <2>2 DEF MailIs, Live!Number
<1>7. Live!Listed' = Live!Listed /\ \A s : Live!Place(s)' = Live!Place(s)
  BY <1>2 DEF Live!Listed, Live!Place
<1>8. ListIs' /\ CastIs' /\ SocketsAre'
  BY <1>1, <1>2 DEF ListIs, CastIs, SocketsAre, Live!Listed
<1>9. Skipped' \subseteq Skipped
  BY <1>2, <1>6, <1>7 DEF Skipped, Live!Missed
<1>10. cast.on => Cardinality(Skipped') <= cast'.left
  <2> SUFFICES ASSUME cast.on
               PROVE  Cardinality(Skipped') <= cast.left
    BY <1>2
  <2> DEFINE n == cast.left
  <2>1. n \in Nat /\ Cardinality(Skipped) <= n /\ n <= n
    BY <1>1 DEF InStep, CastIs
  <2> HIDE DEF n
  <2>2. Cardinality(Skipped') <= n
    BY <1>1, <1>9, <2>1, SkipsStand
  <2> QED  BY <2>2 DEF n
<1>11. InStep'
  <2>1. cast.on => Len(fifo') < sent'
    <3>1. cast.on => Len(fifo) < sent
      BY <1>1 DEF InStep
    <3>2. Len(fifo) < sent => Len(fifo) + 1 < sent + 1
      BY <1>5
    <3> QED  BY <1>2, <1>4, <3>1, <3>2
  <2> QED  BY <1>1, <1>2, <1>6, <1>7, <1>10, <2>1, NothingSent
<1> QED  BY <1>6, <1>8, <1>11, LivePartsNext DEF LiveInv

\* The next message is one nobody was sent.
LEMMA LiveStarts ==
  ASSUME LiveInv, faults' \in 0..MaxFaults, Live!Starts
  PROVE  LiveInv'
<1>1. ListIs /\ SocketsAre /\ CastIs /\ MailIs /\ InStep
  BY LiveParts DEF LiveInv
<1>2. /\ fifo # <<>> /\ fifo' = Tail(fifo)
      /\ cast' = [Live!Idle EXCEPT !.on = TRUE, !.private = Head(fifo), !.there = Live!Listed]
      /\ UNCHANGED <<list, scopes, state, got, sent>>
  BY DEF Live!Starts
<1>3. /\ fifo' \in Seq(BOOLEAN) /\ Len(fifo') = Len(fifo) - 1 /\ Head(fifo) \in BOOLEAN
      /\ Len(fifo) \in Nat \ {0}
  BY <1>1, <1>2 DEF MailIs
<1>4. cast' = [on |-> TRUE, private |-> Head(fifo), next |-> 1, dead |-> {},
               there |-> Live!Listed, left |-> 0]
  BY <1>2 DEF Live!Idle
<1>5. /\ cast'.on /\ cast'.next = 1 /\ cast'.there = Live!Listed /\ cast'.left = 0
      /\ cast'.dead = {} /\ cast'.private = Head(fifo)
  BY <1>4
<1>6. CastIs'
  BY <1>1, <1>3, <1>4, <1>5 DEF CastIs, ListIs
<1>7. sent \in Nat /\ Len(fifo) <= sent /\ Live!Number \in Nat
  BY <1>1, NumberOf DEF MailIs
<1>8. Live!Number' = Live!Number + 1 /\ Len(fifo') < sent' /\ MailIs'
  <2> DEFINE n == Len(fifo)
             k == Len(fifo')
             t == sent'
  <2>1. n \in Nat \ {0} /\ k = n - 1 /\ t = sent /\ n <= sent
    BY <1>2, <1>3, <1>7
  <2> HIDE DEF n, k, t
  <2>2. t - k = (sent - n) + 1 /\ k < t /\ k <= t
    BY <1>7, <2>1
  <2>3. Live!Number' = Live!Number + 1
    BY <2>2, Zenon DEF Live!Number, n, k, t
  <2>4. MailIs'
    BY <1>1, <1>2, <1>3, <2>2 DEF MailIs, k, t
  <2> QED  BY <2>2, <2>3, <2>4 DEF k, t
<1>9. /\ ListIs' /\ SocketsAre' /\ Live!Listed' = Live!Listed
      /\ \A s : Live!Place(s)' = Live!Place(s)
  BY <1>1, <1>2 DEF ListIs, SocketsAre, Live!Listed, Live!Place
<1>10. \A s \in Socket : \A i \in DOMAIN got[s] :
         got[s][i] \in Nat /\ got[s][i] <= Live!Number
  <2> SUFFICES ASSUME NEW s \in Socket, NEW i \in DOMAIN got[s]
               PROVE  got[s][i] \in Nat /\ got[s][i] <= Live!Number
    OBVIOUS
  <2>1. got[s][i] \in Nat
    BY <1>1, SentNumbers
  <2> QED  BY <1>1, <2>1 DEF InStep
<1>11. InStep'
  <2>1. \A s \in Socket : state'[s] = "new" => got'[s] = <<>> /\ s \notin cast'.there
    BY <1>1, <1>2, <1>5 DEF InStep, SocketsAre
  <2>2. \A s \in Socket : \A i \in DOMAIN got[s] :
          got[s][i] <= Live!Number + 1 /\ got[s][i] # Live!Number + 1
    BY <1>7, <1>10
  <2>3. Live!SentOnceInOrder'
    BY <1>1, <1>2 DEF InStep, Live!SentOnceInOrder
  <2>4. \A s \in Socket : Untold(s)'
    BY <1>2, <1>8, <2>2 DEF Untold
  <2>5. Live!Listed' \subseteq Socket
    BY <1>1, <1>9 DEF ListIs
  <2>6. Cardinality(Skipped') <= cast'.left
    <3>1. \A s \in Live!Listed : ~(Live!Place(s) < 1)
      <4> SUFFICES ASSUME NEW s \in Live!Listed
                   PROVE  ~(Live!Place(s) < 1)
        OBVIOUS
      <4> DEFINE p == Live!Place(s)
      <4>1. p \in Nat /\ p >= 1
        BY <1>1, PlacesOf
      <4> HIDE DEF p
      <4>2. ~(p < 1)
        BY <4>1
      <4> QED  BY <4>2 DEF p
    <3>2. \A s : s \notin Skipped'
      BY <1>5, <1>9, <3>1 DEF Skipped, Live!Missed
    <3>3. Skipped' = {}
      BY <3>2
    <3>4. Cardinality(Skipped') = 0
      BY <3>3, FS_EmptySet
    <3> QED  BY <1>5, <3>4
  <2> QED  BY <1>2, <1>8, <2>1, <2>2, <2>3, <2>4, <2>5, <2>6 DEF InStep
<1> QED  BY <1>6, <1>8, <1>9, <1>11, LivePartsNext DEF LiveInv

LEMMA LiveEnds ==
  ASSUME LiveInv, faults' \in 0..MaxFaults, Live!Ends
  PROVE  LiveInv'
<1>1. ListIs /\ SocketsAre /\ CastIs /\ MailIs /\ InStep
  BY LiveParts DEF LiveInv
<1>2. /\ list' = Live!Without(cast.dead) /\ cast' = Live!Idle
      /\ UNCHANGED <<scopes, state, fifo, got, sent>>
  BY DEF Live!Ends, Live!Casting
<1>3. ListIs' /\ Live!Listed' \subseteq Live!Listed
  BY <1>1, <1>2, RemovalMoves
<1>4. CastIs' /\ ~cast'.on /\ cast'.there = {}
  BY <1>2 DEF CastIs, Live!Idle
<1>5. MailIs' /\ Live!Number' = Live!Number
  BY <1>1, <1>2 DEF MailIs, Live!Number
<1>6. SocketsAre'
  BY <1>1, <1>2, <1>3 DEF SocketsAre
<1>7. InStep'
  <2>1. \A s \in Socket : state'[s] = "new" => got'[s] = <<>> /\ s \notin cast'.there
    BY <1>1, <1>2, <1>4 DEF InStep
  <2>2. Live!SentOnceInOrder'
    BY <1>1, <1>2 DEF InStep, Live!SentOnceInOrder
  <2> QED  BY <1>1, <1>2, <1>4, <1>5, <2>1, <2>2 DEF InStep
<1> QED  BY <1>3, <1>4, <1>5, <1>6, <1>7, LivePartsNext DEF LiveInv

\* What the loop sends next, it sends to the socket at the first place it still comes to.
LEMMA LiveSends ==
  ASSUME LiveInv, faults' \in 0..MaxFaults, Live!Sends
  PROVE  LiveInv' /\ \A s \in Limited : cast.private => got'[s] = got[s]
<1>1. ListIs /\ SocketsAre /\ CastIs /\ MailIs /\ InStep
  BY LiveParts DEF LiveInv
<1>2. cast.on /\ UNCHANGED <<list, scopes, state, fifo, sent>>
  BY DEF Live!Sends
<1>3. PICK x \in Live!Ahead :
        /\ \A r \in Live!Ahead \ {x} : x \in list[r]
        /\ cast' = [cast EXCEPT !.next = Live!Place(x) + 1,
                                !.dead = IF state[x] = "broken" THEN @ \cup {x} ELSE @]
        /\ got' = IF state[x] = "broken" THEN got
                  ELSE [got EXCEPT ![x] = Append(@, Live!Number)]
  BY DEF Live!Sends
<1>4. /\ x \in Live!Listed /\ x \in Socket /\ ~(cast.private /\ x \in scopes)
      /\ Live!Place(x) \in Nat /\ Live!Place(x) >= cast.next /\ cast.next \in Nat
  BY <1>1, <1>3, PlacesOf DEF Live!Ahead, ListIs, CastIs
<1> DEFINE p == Live!Place(x)
           D == IF state[x] = "broken" THEN cast.dead \cup {x} ELSE cast.dead
<1>5. /\ cast' = [on |-> cast.on, private |-> cast.private, next |-> p + 1, dead |-> D,
                  there |-> cast.there, left |-> cast.left]
      /\ D \subseteq Socket
  <2>1. cast' = [cast EXCEPT !.next = p + 1, !.dead = D]
    BY <1>3
  <2>2. D \subseteq Socket
    BY <1>1, <1>4 DEF CastIs
  <2> HIDE DEF p, D
  <2> QED  BY <1>1, <2>1, <2>2 DEF CastIs
<1> HIDE DEF D
<1>6. /\ cast'.on = cast.on /\ cast'.private = cast.private /\ cast'.next = p + 1
      /\ cast'.there = cast.there /\ cast'.left = cast.left /\ cast'.dead = D
  BY <1>5
<1>7. CastIs'
  <2>1. p + 1 \in Nat \ {0}
    BY <1>4
  <2> HIDE DEF p
  <2> QED  BY <1>1, <1>5, <1>6, <2>1 DEF CastIs
<1>8. /\ ListIs' /\ SocketsAre' /\ Live!Listed' = Live!Listed /\ Live!Number' = Live!Number
      /\ \A s : Live!Place(s)' = Live!Place(s)
  BY <1>1, <1>2 DEF ListIs, SocketsAre, Live!Listed, Live!Place, Live!Number
<1>9. Live!Number \in 1..MaxMessages
  BY <1>1, <1>2, NumberOf DEF InStep
<1>10. \A s \in Socket : got[s] \in Seq(1..MaxMessages)
  BY <1>1 DEF MailIs
<1>11. got' \in [Socket -> Seq(1..MaxMessages)]
  BY <1>1, <1>3, <1>4, <1>9, <1>10 DEF MailIs
<1>12. MailIs'
  BY <1>1, <1>2, <1>11 DEF MailIs
<1>13. /\ \A s \in Socket : s # x => got'[s] = got[s]
       /\ state[x] = "broken" => got'[x] = got[x]
       /\ state[x] # "broken" => got'[x] = Append(got[x], Live!Number)
  BY <1>1, <1>3, <1>4 DEF MailIs
<1>14. state[x] # "new"
  BY <1>1, <1>4 DEF SocketsAre
<1>15. \A i \in DOMAIN got[x] : got[x][i] < Live!Number
  <2> SUFFICES ASSUME NEW i \in DOMAIN got[x]
               PROVE  got[x][i] < Live!Number
    OBVIOUS
  <2>1. got[x][i] # Live!Number
    BY <1>1, <1>2, <1>4 DEF InStep, Untold
  <2>2. got[x][i] <= Live!Number
    BY <1>1, <1>4 DEF InStep
  <2>3. got[x][i] \in Nat /\ Live!Number \in Nat
    BY <1>1, <1>4, SentNumbers, NumberOf
  <2> QED  BY <2>1, <2>2, <2>3
<1>16. ASSUME state[x] # "broken"
       PROVE  /\ DOMAIN got'[x] = 1..(Len(got[x]) + 1)
              /\ got'[x][Len(got[x]) + 1] = Live!Number
              /\ \A i \in DOMAIN got[x] : got'[x][i] = got[x][i]
              /\ Len(got[x]) \in Nat /\ DOMAIN got[x] = 1..Len(got[x])
  <2>1. got'[x] = Append(got[x], Live!Number) /\ got[x] \in Seq(1..MaxMessages)
    BY <1>4, <1>10, <1>13, <1>16
  <2> QED  BY <1>9, <2>1
<1>17. \A s \in Socket : \A i \in DOMAIN got'[s] : got'[s][i] <= Live!Number
  <2> SUFFICES ASSUME NEW s \in Socket, NEW i \in DOMAIN got'[s]
               PROVE  got'[s][i] <= Live!Number
    OBVIOUS
  <2>1. CASE got'[s] = got[s]
    BY <1>1, <2>1 DEF InStep
  <2>2. CASE got'[s] # got[s]
    <3>1. s = x /\ state[x] # "broken"
      BY <1>13, <2>2
    <3>2. i \in DOMAIN got[x] \/ i = Len(got[x]) + 1
      BY <1>16, <3>1
    <3>3. i \in DOMAIN got[x] => got'[x][i] <= Live!Number
      BY <1>1, <1>4, <1>16, <3>1 DEF InStep
    <3>4. Live!Number <= Live!Number
      BY <1>1, NumberOf
    <3> QED  BY <1>16, <3>1, <3>2, <3>3, <3>4
  <2> QED  BY <2>1, <2>2
<1>18. Live!SentOnceInOrder'
  <2> SUFFICES ASSUME NEW s \in Socket, NEW i \in DOMAIN got'[s], NEW j \in DOMAIN got'[s],
                      i < j
               PROVE  got'[s][i] < got'[s][j]
    BY DEF Live!SentOnceInOrder
  <2>1. CASE got'[s] = got[s]
    BY <1>1, <2>1 DEF InStep, Live!SentOnceInOrder
  <2>2. CASE got'[s] # got[s]
    <3>1. s = x /\ state[x] # "broken"
      BY <1>13, <2>2
    <3> DEFINE n == Len(got[x])
    <3>2. n \in Nat /\ i \in 1..(n + 1) /\ j \in 1..(n + 1) /\ DOMAIN got[x] = 1..n
      BY <1>16, <3>1
    <3> HIDE DEF n
    <3>3. i \in 1..n /\ (j \in 1..n \/ j = n + 1)
      BY <3>2
    <3>4. CASE j \in 1..n
      BY <1>1, <1>4, <1>16, <3>1, <3>2, <3>3, <3>4 DEF InStep, Live!SentOnceInOrder
    <3>5. CASE j = n + 1
      BY <1>15, <1>16, <3>1, <3>2, <3>3, <3>5 DEF n
    <3> QED  BY <3>3, <3>4, <3>5
  <2> QED  BY <2>1, <2>2
<1>19. \A s \in Live!Listed :
         s # x /\ Live!Place(s) >= cast.next /\ ~(Live!Place(s) >= p + 1)
           => cast.private /\ s \in scopes
  <2> SUFFICES ASSUME NEW s \in Live!Listed, s # x, Live!Place(s) >= cast.next,
                      ~(cast.private /\ s \in scopes)
               PROVE  Live!Place(s) >= p + 1
    OBVIOUS
  <2>1. s \in Live!Ahead /\ x \in list[s]
    BY <1>3 DEF Live!Ahead
  <2> DEFINE q == Live!Place(s)
  <2>2. p < q /\ q \in Nat /\ p \in Nat
    BY <1>1, <1>4, <2>1, PlacesOf
  <2> HIDE DEF p, q
  <2>3. q >= p + 1
    BY <2>2
  <2> QED  BY <2>3 DEF q
<1>20. \A s \in Live!Listed : Live!Place(s) >= p + 1 => s # x /\ Live!Place(s) >= cast.next
  <2> SUFFICES ASSUME NEW s \in Live!Listed, Live!Place(s) >= p + 1
               PROVE  s # x /\ Live!Place(s) >= cast.next
    OBVIOUS
  <2> DEFINE q == Live!Place(s)
  <2>1. q \in Nat /\ p \in Nat /\ q >= p + 1 /\ p >= cast.next /\ cast.next \in Nat
    BY <1>1, <1>4, PlacesOf
  <2>2. s = x => q = p
    OBVIOUS
  <2> HIDE DEF p, q
  <2>3. q # p /\ q >= cast.next
    BY <2>1
  <2> QED  BY <2>2, <2>3 DEF q
<1>21. Skipped' \subseteq Skipped
  <2> SUFFICES ASSUME NEW s \in Skipped'
               PROVE  s \in Skipped
    OBVIOUS
  <2>1. /\ s \in cast.there \cap Live!Listed /\ s \in Socket
        /\ state[s] = "open" /\ ~(cast.private /\ s \in Limited)
        /\ \A i \in DOMAIN got'[s] : got'[s][i] # Live!Number
        /\ ~(Live!Place(s) >= p + 1)
    <3>1. /\ s \in cast.there \cap Live!Listed
          /\ state[s] = "open" /\ ~(cast.private /\ s \in Limited)
          /\ \A i \in DOMAIN got'[s] : got'[s][i] # Live!Number
          /\ Live!Place(s) < p + 1
      BY <1>2, <1>6, <1>8 DEF Skipped, Live!Missed
    <3>2. s \in Socket
      BY <1>1, <3>1 DEF ListIs
    <3> DEFINE q == Live!Place(s)
    <3>3. q \in Nat /\ p \in Nat /\ q < p + 1
      BY <1>1, <1>4, <3>1, PlacesOf
    <3> HIDE DEF p, q
    <3>4. ~(q >= p + 1)
      BY <3>3
    <3> QED  BY <3>1, <3>2, <3>4 DEF q
  <2>2. s # x
    <3> SUFFICES ASSUME s = x
                 PROVE  FALSE
      OBVIOUS
    <3>1. state[x] # "broken"
      BY <2>1
    <3>2. Len(got[x]) + 1 \in DOMAIN got'[x]
      BY <1>16, <3>1
    <3> QED  BY <1>16, <2>1, <3>1, <3>2
  <2>3. got'[s] = got[s]
    BY <1>13, <2>1, <2>2
  <2>4. s \in Live!Missed
    BY <2>1, <2>3 DEF Live!Missed
  <2>5. s \notin scopes \/ ~cast.private
    BY <1>1, <2>1 DEF SocketsAre
  <2>6. ~(Live!Place(s) >= cast.next)
    BY <1>19, <2>1, <2>2, <2>5
  <2>7. Live!Place(s) < cast.next
    <3> DEFINE q == Live!Place(s)
    <3>1. q \in Nat /\ cast.next \in Nat /\ ~(q >= cast.next)
      BY <1>1, <1>4, <2>1, <2>6, PlacesOf
    <3> HIDE DEF q
    <3>2. q < cast.next
      BY <3>1
    <3> QED  BY <3>2 DEF q
  <2> QED  BY <2>4, <2>7 DEF Skipped
<1>22. Cardinality(Skipped') <= cast'.left
  <2> DEFINE n == cast.left
  <2>1. n \in Nat /\ Cardinality(Skipped) <= n /\ n <= n
    BY <1>1, <1>2 DEF InStep, CastIs
  <2> HIDE DEF n
  <2>2. Cardinality(Skipped') <= n
    BY <1>1, <1>21, <2>1, SkipsStand
  <2> QED  BY <1>6, <2>2 DEF n
<1>23. InStep'
  <2>1. \A s \in Socket : state'[s] = "new" => got'[s] = <<>> /\ s \notin cast'.there
    BY <1>1, <1>2, <1>6, <1>13, <1>14 DEF InStep
  <2>2. \A s \in Live!Listed' : Live!Place(s)' >= cast'.next => Untold(s)'
    <3> SUFFICES ASSUME NEW s \in Live!Listed, Live!Place(s) >= p + 1
                 PROVE  \A i \in DOMAIN got'[s] : got'[s][i] # Live!Number
      BY <1>6, <1>8 DEF Untold
    <3>1. s # x /\ Live!Place(s) >= cast.next /\ s \in Socket
      BY <1>1, <1>20 DEF ListIs
    <3>2. got'[s] = got[s] /\ Untold(s)
      BY <1>1, <1>2, <1>13, <3>1 DEF InStep
    <3> QED  BY <3>2 DEF Untold
  <2>3. Len(fifo') < sent'
    BY <1>1, <1>2 DEF InStep
  <2> QED  BY <1>8, <1>17, <1>18, <1>22, <2>1, <2>2, <2>3 DEF InStep
<1>24. \A s \in Limited : cast.private => got'[s] = got[s]
  <2> SUFFICES ASSUME NEW s \in Limited, cast.private
               PROVE  got'[s] = got[s]
    OBVIOUS
  <2>1. s # x
    BY <1>1, <1>4 DEF SocketsAre
  <2> QED  BY <1>1, <1>3, <2>1 DEF MailIs
<1> QED  BY <1>7, <1>8, <1>12, <1>23, <1>24, LivePartsNext DEF LiveInv

LEMMA LiveInit == ServicesInit => LiveInv
<1> SUFFICES ASSUME ServicesInit
             PROVE  LiveInv
  OBVIOUS
<1>1. /\ list = [s \in {} |-> {}] /\ scopes = {} /\ state = [s \in Socket |-> "new"]
      /\ fifo = <<>> /\ cast = Live!Idle /\ got = [s \in Socket |-> <<>>] /\ sent = 0
      /\ faults = 0
  BY DEF ServicesInit, Live!Init
<1>2. Live!Listed = {}
  BY <1>1 DEF Live!Listed
<1>3. IsFiniteSet(Live!Listed)
  BY <1>2, FS_EmptySet
<1>4. ListIs
  BY <1>1, <1>2, <1>3 DEF ListIs
<1>5. SocketsAre
  BY <1>1, <1>2 DEF SocketsAre
<1>6. CastIs /\ ~cast.on /\ cast.there = {}
  BY <1>1 DEF CastIs, Live!Idle
<1>7. fifo \in Seq(BOOLEAN) /\ Len(fifo) = 0
  BY <1>1
<1>8. MaxMessages \in Nat /\ MaxFaults \in Nat
  BY BoundsAssumption, EmailAssumption
<1>9. MailIs /\ faults \in 0..MaxFaults
  BY <1>1, <1>7, <1>8 DEF MailIs
<1>10. \A s \in Socket : got[s] = <<>> /\ DOMAIN got[s] = {}
  BY <1>1
<1>11. InStep
  BY <1>1, <1>6, <1>10 DEF InStep, Live!SentOnceInOrder
<1> QED  BY <1>4, <1>5, <1>6, <1>9, <1>11, LiveParts DEF LiveInv

LEMMA LiveNext ==
  ASSUME LiveInv, [ServicesNext]_servicesVars
  PROVE  LiveInv' /\ \A s \in Limited : cast.private => got'[s] = got[s]
<1>1. ListIs /\ SocketsAre /\ CastIs /\ MailIs /\ InStep /\ faults \in 0..MaxFaults
  BY LiveParts DEF LiveInv
<1>2. faults' \in 0..MaxFaults
  BY <1>1, FaultsStay
<1>3. CASE Live!Sends
  BY <1>2, <1>3, LiveSends
<1>4. CASE Live!Publishes \/ Live!Starts \/ Live!Ends
  <2>1. got' = got
    BY <1>4 DEF Live!Publishes, Live!Starts, Live!Ends, Live!Casting
  <2> QED  BY <1>2, <1>4, <2>1, LivePublishes, LiveStarts, LiveEnds
<1>5. ASSUME NEW x \in Socket, Live!Connects(x) \/ Live!Breaks(x) \/ Live!Disconnects(x)
      PROVE  LiveInv' /\ got' = got
  <2>1. got' = got
    BY <1>5 DEF Live!Connects, Live!Breaks, Live!Disconnects, Live!Casting
  <2> QED  BY <1>2, <1>5, <2>1, LiveConnects, LiveBreaks, LiveDisconnects
<1>6. CASE UNCHANGED <<list, scopes, state, fifo, cast, got, sent>>
  <2>1. ListIs' /\ SocketsAre' /\ CastIs' /\ MailIs'
    BY <1>1, <1>6 DEF ListIs, SocketsAre, CastIs, MailIs, Live!Listed
  <2>2. InStep'
    BY <1>1, <1>6 DEF InStep, Live!SentOnceInOrder, Live!Listed, Live!Place, Live!Number,
                      Live!Missed, Untold, Skipped
  <2> QED  BY <1>2, <1>6, <2>1, <2>2, LivePartsNext DEF LiveInv
<1>7. Live!Next \/ UNCHANGED <<list, scopes, state, fifo, cast, got, sent>>
  BY LiveSteps DEF Live!vars, ofLive
<1> QED  BY <1>3, <1>4, <1>5, <1>6, <1>7 DEF Live!Next, Live!Listens

\* Where the loop comes to no more socket, those without the message are those it skipped.
LEMMA LiveKept == LiveInv => Live!TypeOK /\ Live!SentOnceInOrder /\ Live!SkipsAreBounded
<1> SUFFICES ASSUME LiveInv
             PROVE  Live!TypeOK /\ Live!SentOnceInOrder /\ Live!SkipsAreBounded
  OBVIOUS
<1>1. ListIs /\ SocketsAre /\ CastIs /\ InStep
  BY LiveParts DEF LiveInv
<1>2. ASSUME cast.on, Live!Ahead = {}
      PROVE  Live!Cardinality(Live!Missed) <= cast.left
  <2>1. Live!Missed \subseteq Skipped
    <3> SUFFICES ASSUME NEW s \in Live!Missed
                 PROVE  Live!Place(s) < cast.next
      BY DEF Skipped
    <3>1. s \in Live!Listed /\ ~(cast.private /\ s \in scopes)
      BY <1>1 DEF Live!Missed, SocketsAre
    <3>2. ~(Live!Place(s) >= cast.next)
      BY <1>2, <3>1 DEF Live!Ahead
    <3> DEFINE q == Live!Place(s)
    <3>3. q \in Nat /\ cast.next \in Nat /\ ~(q >= cast.next)
      BY <1>1, <3>1, <3>2, PlacesOf DEF CastIs
    <3> HIDE DEF q
    <3>4. q < cast.next
      BY <3>3
    <3> QED  BY <3>4 DEF q
  <2>2. Live!Missed = Skipped
    BY <2>1 DEF Skipped
  <2>3. Cardinality(Skipped) <= cast.left
    BY <1>1, <1>2 DEF InStep
  <2>4. Live!Cardinality(Live!Missed) = Cardinality(Live!Missed)
    BY LiveCounts
  <2> QED  BY <2>2, <2>3, <2>4
<1> QED  BY <1>1, <1>2 DEF LiveInv, InStep, Live!SkipsAreBounded

\* Whatever list the broadcast loop of ws/manager.py finds when it wakes from an await, a
\* socket is sent each message at most once and in order and only within its scope, and a
\* message is kept from no more sockets than left during its broadcast.
THEOREM BroadcastIsOrderedAlways == ServicesSpec => BroadcastIsOrdered
<1> DEFINE InScope == \A s \in Limited : cast.private => got'[s] = got[s]
<1>1. LiveInv /\ [ServicesNext]_servicesVars => LiveInv' /\ [InScope]_(Live!vars)
  BY LiveNext
<1> QED  BY <1>1, LiveInit, LiveKept, PTL
         DEF ServicesSpec, BroadcastIsOrdered, Live!ScopeIsKept

=============================================================================
