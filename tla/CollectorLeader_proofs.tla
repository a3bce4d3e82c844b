------------------------ MODULE CollectorLeader_proofs ------------------------
(* Type correctness and leadership safety of CollectorLeader, for any number  *)
(* of workers, connections, generations, loops and faults.                    *)
EXTENDS CollectorLeader, TLAPS

USE FaultsAssumption, NullAssumption, LoopAssumption

LEMMA FollowsType ==
  /\ DOMAIN Follows = TierStep \cup {"top"}
  /\ \A s \in TierStep \cup {"top"} : Follows[s] \subseteq TierStep \cup {"top"}
BY DEF Follows, TierStep

LEMMA GotoType ==
  ASSUME TypeOK, NEW g \in Gen, NEW l \in Loop,
         NEW s \in Places, Goto(g, l, s)
  PROVE  TypeOK'
BY DEF TypeOK, Goto, workerVars, lockVars, genVars

\* Every variable keeps its type through every handler, fault and loop step.
THEOREM TypeCorrect == Spec => []TypeOK
<1>1. Init => TypeOK
  BY DEF Init, TypeOK, Places
<1>2. TypeOK /\ [Next]_vars => TypeOK'
  <2> SUFFICES ASSUME TypeOK, [Next]_vars PROVE TypeOK'
    OBVIOUS
  <2> USE DEF workerVars, lockVars, genVars, loopVars
  <2>1. ASSUME NEW w \in Worker, Connect(w) PROVE TypeOK'
    BY <2>1 DEF TypeOK, Connect
  <2>2. ASSUME NEW w \in Worker, Acquire(w) PROVE TypeOK'
    BY <2>2 DEF TypeOK, Acquire
  <2>3. ASSUME NEW w \in Worker, StartFn(w) PROVE TypeOK'
    <3>1. pc' \in [Gen -> [Loop -> Places]]
      BY ZenonT(30), <2>3 DEF TypeOK, StartFn, Launch, Places
    <3>2. QED BY <2>3, <3>1 DEF TypeOK, StartFn
  <2>4. ASSUME NEW w \in Worker, StartFnRaises(w) PROVE TypeOK'
    <3>1. PICK LS : Launch(event[w], LS)
      BY <2>4 DEF StartFnRaises
    <3>2. pc' \in [Gen -> [Loop -> Places]]
      BY ZenonT(30), <3>1 DEF TypeOK, Launch, Places
    <3>3. faults' \in 0..MaxFaults
      BY <2>4 DEF StartFnRaises, Fault, TypeOK
    <3>4. GiveUp(w)
      BY <2>4 DEF StartFnRaises
    <3>5. QED BY <3>2, <3>3, <3>4 DEF TypeOK, GiveUp, Close, Places
  <2>5. ASSUME NEW w \in Worker, PollFails(w) PROVE TypeOK'
    BY <2>5 DEF TypeOK, PollFails, GiveUp, Close, Places
  <2>6. ASSUME NEW w \in Worker, WorkerDies(w) PROVE TypeOK'
    <3>1. pc' \in [Gen -> [Loop -> Places]]
      BY <2>6 DEF TypeOK, WorkerDies, Places
    <3>2. session' \in [Conn -> {"free", "up", "halfopen", "lost"}] /\ holder' \in Conn \cup {NoConn}
      BY <2>6 DEF TypeOK, WorkerDies, Close
    <3>3. flag' \in [Gen -> {"new", "set", "clear"}] /\ faults' \in 0..MaxFaults
      BY <2>6 DEF TypeOK, WorkerDies, Fault
    <3>4. /\ event' \in [Worker -> Gen \cup {NoGen}] /\ started' \in [Worker -> BOOLEAN]
          /\ phase' \in [Worker -> {"poll", "starting"}] /\ conn' \in [Worker -> Conn \cup {NoConn}]
      BY <2>6 DEF TypeOK, WorkerDies
    <3>5. UNCHANGED <<owner, extra>>
      BY <2>6 DEF WorkerDies
    <3>6. QED BY <3>1, <3>2, <3>3, <3>4, <3>5 DEF TypeOK
  <2>7. ASSUME NEW c \in Conn, LinkBreaks(c) \/ ServerDrops(c) \/ ServerReaps(c)
        PROVE TypeOK'
    <3>1. CASE LinkBreaks(c)
      BY <3>1 DEF TypeOK, LinkBreaks, Fault
    <3>2. CASE ServerDrops(c)
      BY <3>2 DEF TypeOK, ServerDrops, Fault
    <3>3. CASE ServerReaps(c)
      BY <3>3 DEF TypeOK, ServerReaps
    <3>4. QED BY <2>7, <3>1, <3>2, <3>3
  <2>8. ASSUME NEW g \in Gen, TierRuns(g) PROVE TypeOK'
    <3>1. CASE TierBoot(g)
      BY <3>1 DEF TypeOK, TierBoot, Places
    <3>2. CASE TierProceeds(g)
      <4>0. PICK s \in TierStep \cup {"top"} : \E t \in Follows[s] : Goto(g, "tier", t)
        BY <3>2 DEF TierProceeds
      <4>1. PICK t \in Follows[s] : Goto(g, "tier", t)
        BY <4>0
      <4>2. t \in TierStep \cup {"top"}
        BY <4>1, FollowsType
      <4>3. QED BY <4>1, <4>2, GotoType DEF Places, Working, Loop
    <3>3. CASE TierExits(g)
      BY <3>3, GotoType DEF TierExits, Places, Loop
    <3>4. QED BY <2>8, <3>1, <3>2, <3>3 DEF TierRuns
  <2>9. ASSUME NEW g \in Gen, NEW l \in Loop, LoopIterates(g, l) PROVE TypeOK'
    BY <2>9, GotoType DEF LoopIterates, Places, Working
  <2>12. ASSUME NEW g \in Gen, TierBootRaises(g) PROVE TypeOK'
    <3>1. pc' \in [Gen -> [Loop -> Places]]
      <4>1. PICK LS \in SUBSET SpawnedLoop :
              pc' = [pc EXCEPT ![g] = [l \in Loop |-> IF l = "tier" THEN "crashed"
                                                     ELSE IF l \in LS THEN "top" ELSE @[l]]]
        BY <2>12 DEF TierBootRaises
      <4>2. QED BY <4>1 DEF TypeOK, Places
    <3>2. QED BY <2>12, <3>1 DEF TypeOK, TierBootRaises, Fault
  <2>10. CASE UNCHANGED vars
    BY <2>10 DEF TypeOK, vars
  <2>11. QED
    BY <2>1, <2>2, <2>3, <2>4, <2>5, <2>6, <2>7, <2>8, <2>9, <2>10, <2>12 DEF Next, Poll
<1>3. QED
  BY <1>1, <1>2, PTL DEF Spec

-----------------------------------------------------------------------------
(* Leadership safety. *)

\* The handler of a failed poll hands back everything it held.
LEMMA GiveUpKeepsLeaderInv ==
  ASSUME TypeOK, LeaderInv, NEW w \in Worker, conn[w] # NoConn, GiveUp(w)
  PROVE  LeaderInv'
<1> USE DEF GiveUp, Close, TypeOK
<1>1. NoOrphanedGeneration'
  BY DEF LeaderInv, NoOrphanedGeneration, IsSet
<1>2. \A v \in Worker : started'[v] => conn'[v] # NoConn /\ event'[v] # NoGen
  BY DEF LeaderInv
<1>3. \A v \in Worker : event'[v] # NoGen =>
        started'[v] /\ IsSet(event[v])' /\ owner'[event'[v]] = v
  BY DEF LeaderInv, IsSet
<1>4. \A v \in Worker : phase'[v] = "starting" => started'[v]
  BY DEF LeaderInv
<1>5. \A u, v \in Worker : conn'[u] = conn'[v] /\ conn'[u] # NoConn => u = v
  BY DEF LeaderInv
<1>6. \A v \in Worker : conn'[v] # NoConn => session'[conn'[v]] # "free"
  BY DEF LeaderInv
<1>7. holder' # NoConn => Alive(holder)'
  BY DEF LeaderInv, Alive
<1>8. \A v \in Worker : started'[v] /\ Alive(conn[v])' => holder' = conn'[v]
  BY DEF LeaderInv, Alive
<1>9. QED
  BY <1>1, <1>2, <1>3, <1>4, <1>5, <1>6, <1>7, <1>8 DEF LeaderInv

\* An event is left set only while its worker polls for it, and a leader whose
\* session lives holds the lock.
THEOREM LeadershipSafe == Spec => []LeaderInv
<1>1. Init => LeaderInv
  BY DEF Init, LeaderInv, NoOrphanedGeneration, IsSet, Alive
<1>2. TypeOK /\ LeaderInv /\ [Next]_vars => LeaderInv'
  <2> SUFFICES ASSUME TypeOK, LeaderInv, [Next]_vars PROVE LeaderInv'
    OBVIOUS
  <2> USE DEF TypeOK, LeaderInv, NoOrphanedGeneration, IsSet, Alive
  <2>1. ASSUME NEW w \in Worker, Connect(w) PROVE LeaderInv'
    <3>1. PICK c \in Conn : /\ session[c] = "free"
                            /\ session' = [session EXCEPT ![c] = "up"]
                            /\ conn' = [conn EXCEPT ![w] = c]
      BY <2>1 DEF Connect
    <3>2. ~started[w] /\ \A v \in Worker : conn[v] # c
      BY <2>1, <3>1 DEF Connect
    <3>3. QED BY <2>1, <3>1, <3>2 DEF Connect, genVars
  <2>2. ASSUME NEW w \in Worker, Acquire(w) PROVE LeaderInv'
    <3>1. PICK g \in Gen : /\ flag[g] = "new"
                           /\ flag' = [flag EXCEPT ![g] = "set"]
                           /\ owner' = [owner EXCEPT ![g] = w]
                           /\ event' = [event EXCEPT ![w] = g]
      BY <2>2 DEF Acquire
    <3>2. event[w] = NoGen /\ \A v \in Worker : event[v] # g
      BY <2>2, <3>1 DEF Acquire
    <3>3. \A v \in Worker : started[v] => ~Alive(conn[v])
      BY <2>2 DEF Acquire
    <3>4. QED BY <2>2, <3>1, <3>2, <3>3 DEF Acquire
  <2>3. ASSUME NEW w \in Worker, StartFn(w) PROVE LeaderInv'
    BY <2>3 DEF StartFn, lockVars, genVars
  <2>4. ASSUME NEW w \in Worker, StartFnRaises(w) PROVE LeaderInv'
    BY <2>4, GiveUpKeepsLeaderInv DEF StartFnRaises
  <2>5. ASSUME NEW w \in Worker, PollFails(w) PROVE LeaderInv'
    BY <2>5, GiveUpKeepsLeaderInv DEF PollFails
  <2>6. ASSUME NEW w \in Worker, WorkerDies(w) PROVE LeaderInv'
    <3>1. \A v \in Worker \ {w} : /\ started'[v] = started[v]
                                  /\ event'[v] = event[v]
                                  /\ phase'[v] = phase[v]
                                  /\ conn'[v] = conn[v]
      BY <2>6 DEF WorkerDies
    <3>2. ~started'[w] /\ event'[w] = NoGen /\ conn'[w] = NoConn /\ phase'[w] = "poll"
      BY <2>6 DEF WorkerDies
    <3>3. \A g \in Gen : IsSet(g)' => IsSet(g) /\ owner[g] # w
      BY <2>6 DEF WorkerDies
    <3>4. owner' = owner /\ \A g \in Gen : owner[g] # w => flag'[g] = flag[g]
      BY <2>6 DEF WorkerDies
    <3>5. holder' # NoConn => holder' = holder /\ Alive(holder)'
      BY <2>6 DEF WorkerDies, Close, lockVars
    <3>6. holder' # holder => conn[w] # NoConn /\ holder = conn[w]
      BY <2>6 DEF WorkerDies, Close, lockVars
    <3>7. \A c \in Conn : c # conn[w] => session'[c] = session[c]
      BY <2>6 DEF WorkerDies, Close, lockVars
    <3>8. \A v \in Worker \ {w} : conn[v] # NoConn => conn[v] # conn[w]
      OBVIOUS
    <3>9. NoOrphanedGeneration'
      BY <3>1, <3>3, <3>4
    <3>10. \A v \in Worker : event'[v] # NoGen =>
             started'[v] /\ IsSet(event[v])' /\ owner'[event'[v]] = v
      BY <3>1, <3>2, <3>4
    <3>11. \A v \in Worker : conn'[v] # NoConn => session'[conn'[v]] # "free"
      BY <3>1, <3>2, <3>7, <3>8
    <3>12. \A v \in Worker : started'[v] /\ Alive(conn[v])' => holder' = conn'[v]
      BY <3>1, <3>2, <3>6, <3>7, <3>8
    <3>13. \A v \in Worker : /\ started'[v] => conn'[v] # NoConn /\ event'[v] # NoGen
                             /\ phase'[v] = "starting" => started'[v]
      BY <3>1, <3>2
    <3>14. \A u, v \in Worker : conn'[u] = conn'[v] /\ conn'[u] # NoConn => u = v
      BY <3>1, <3>2
    <3>15. holder' # NoConn => Alive(holder)'
      BY <3>5
    <3>16. QED BY <3>9, <3>10, <3>11, <3>12, <3>13, <3>14, <3>15 DEF LeaderInv
  <2>7. ASSUME NEW c \in Conn, LinkBreaks(c) \/ ServerDrops(c) \/ ServerReaps(c)
        PROVE LeaderInv'
    <3>1. UNCHANGED <<workerVars, genVars>>
      BY <2>7 DEF LinkBreaks, ServerDrops, ServerReaps
    <3>2. CASE LinkBreaks(c)
      BY <3>1, <3>2 DEF LinkBreaks, workerVars, genVars
    <3>3. CASE ServerDrops(c)
      BY <3>1, <3>3 DEF ServerDrops, workerVars, genVars
    <3>4. CASE ServerReaps(c)
      BY <3>1, <3>4 DEF ServerReaps, workerVars, genVars
    <3>5. QED BY <2>7, <3>2, <3>3, <3>4
  <2>8. ASSUME UNCHANGED <<workerVars, lockVars, genVars>> PROVE LeaderInv'
    BY <2>8 DEF workerVars, lockVars, genVars
  <2>9. ASSUME NEW g \in Gen, TierRuns(g) PROVE LeaderInv'
    BY <2>9, <2>8 DEF TierRuns, TierBoot, TierProceeds, TierExits, Goto
  <2>10. ASSUME NEW g \in Gen, NEW l \in Loop, LoopIterates(g, l) PROVE LeaderInv'
    BY <2>10, <2>8 DEF LoopIterates, Goto
  <2>11. ASSUME NEW g \in Gen, TierBootRaises(g) PROVE LeaderInv'
    BY <2>11, <2>8 DEF TierBootRaises
  <2>12. CASE UNCHANGED vars
    BY <2>12, <2>8 DEF vars
  <2>13. QED
    BY <2>1, <2>2, <2>3, <2>4, <2>5, <2>6, <2>7, <2>9, <2>10, <2>11, <2>12 DEF Next, Poll
<1>3. QED
  BY <1>1, <1>2, TypeCorrect, PTL DEF Spec

\* Two generations never both run with their events set over live sessions.
THEOREM OneLeader == Spec => []OneConfirmedLeader
<1>1. TypeOK /\ LeaderInv => OneConfirmedLeader
  BY DEF TypeOK, LeaderInv, NoOrphanedGeneration, OneConfirmedLeader, Confirmed
<1>2. QED
  BY <1>1, TypeCorrect, LeadershipSafe, PTL

-----------------------------------------------------------------------------
(* What an ex-leader's loops still do. *)

\* A loop of a cleared generation that moves on leaves TailInv as it is when the
\* step it enters is one that nothing checks before.
LEMMA GotoKeepsTailInv ==
  ASSUME TypeOK, TailInv, NEW g \in Gen, NEW l \in Loop, flag[g] # "new",
         NEW s \in {"top", "exited"} \cup Working, Goto(g, l, s),
         \/ IsSet(g)
         \/ s \in {"top", "exited"}
         \/ l = "tier" /\ s \in {"p1_alerts", "upkeep"} /\ extra[g][l] = 0
  PROVE  TailInv'
<1>1. flag' = flag /\ owner' = owner /\ pc' = [pc EXCEPT ![g][l] = s]
  BY DEF Goto, genVars
<1>2. \A h \in Gen, k \in Loop : <<h, k>> # <<g, l>> =>
        pc'[h][k] = pc[h][k] /\ extra'[h][k] = extra[h][k]
  BY <1>1 DEF Goto, TypeOK
<1>3. pc'[g][l] = s
  BY <1>1 DEF TypeOK
<1>4. CASE IsSet(g)
  <2>1. extra' = extra
    BY <1>4 DEF Goto
  <2>2. QED BY <1>1, <1>2, <1>3, <1>4, <2>1 DEF TailInv, IsSet
<1>5. CASE ~IsSet(g) /\ s \in {"top", "exited"}
  <2>1. extra' = extra
    BY <1>5 DEF Goto, Working, TierStep
  <2>2. QED BY <1>1, <1>2, <1>3, <1>5, <2>1 DEF TailInv, IsSet
<1>6. CASE ~IsSet(g) /\ l = "tier" /\ s \in {"p1_alerts", "upkeep"} /\ extra[g][l] = 0
  <2>1. extra'[g][l] = 1
    BY <1>6 DEF Goto, Working, TierStep, TypeOK
  <2>2. QED BY <1>1, <1>2, <1>3, <1>6, <2>1 DEF TailInv, IsSet
<1>7. QED BY <1>4, <1>5, <1>6

\* TailInv is preserved by what the tier loop does next.
LEMMA TierKeepsTailInv ==
  ASSUME TypeOK, TailInv, NEW g \in Gen, TierProceeds(g)
  PROVE  TailInv'
<1>1. PICK s \in TierStep \cup {"top"} :
        /\ pc[g]["tier"] = s
        /\ s \in Ungated \/ s = "upkeep" \/ IsSet(g)
        /\ \E t \in Follows[s] : Goto(g, "tier", t)
  BY DEF TierProceeds
<1>2. PICK t \in Follows[s] : Goto(g, "tier", t)
  BY <1>1
<1>3. "tier" \in Loop /\ t \in TierStep \cup {"top"}
  BY <1>2, FollowsType DEF Loop
<1>4. flag[g] # "new"
  BY <1>1, <1>3 DEF TailInv, TierStep
<1>5. CASE IsSet(g)
  BY <1>2, <1>3, <1>4, <1>5, GotoKeepsTailInv DEF Working
<1>6. CASE s = "upkeep"
  <2>1. t = "top"
    BY <1>6, <1>2 DEF Follows, TierStep
  <2>2. QED BY <1>2, <1>3, <1>4, <2>1, GotoKeepsTailInv
<1>7. CASE s \in Ungated
  <2>1. t \in {"p1_alerts", "upkeep"}
    BY <1>7, <1>2 DEF Follows, TierStep, Ungated
  <2>2. extra[g]["tier"] = 0
    BY <1>1, <1>3, <1>7 DEF TailInv, Ungated
  <2>3. QED BY <1>2, <1>3, <1>4, <2>1, <2>2, GotoKeepsTailInv DEF Working, TierStep
<1>8. QED BY <1>1, <1>5, <1>6, <1>7

\* Where a loop can be once it has begun a step too many.
LEMMA TailInvariant == Spec => []TailInv
<1>1. Init => TailInv
  BY DEF Init, TailInv, IsSet
<1>2. TypeOK /\ LeaderInv /\ TailInv /\ [Next]_vars => TailInv'
  <2> SUFFICES ASSUME TypeOK, LeaderInv, TailInv, [Next]_vars PROVE TailInv'
    OBVIOUS
  <2>1. ASSUME UNCHANGED <<flag, owner, pc, extra>> PROVE TailInv'
    BY <2>1 DEF TailInv, IsSet
  <2>2. ASSUME NEW w \in Worker, Connect(w) PROVE TailInv'
    BY <2>2, <2>1 DEF Connect, genVars, loopVars
  <2>3. ASSUME NEW w \in Worker, Acquire(w) PROVE TailInv'
    BY <2>3 DEF Acquire, loopVars, TailInv, TypeOK, IsSet
  <2>4. ASSUME NEW w \in Worker, StartFn(w) PROVE TailInv'
    <3>1. event[w] \in Gen /\ IsSet(event[w])
      BY <2>4 DEF StartFn, LeaderInv, TypeOK
    <3>2. \A h \in Gen \ {event[w]} : pc'[h] = pc[h]
      BY <2>4 DEF StartFn, Launch, TypeOK
    <3>3. extra' = extra /\ flag' = flag /\ owner' = owner
      BY <2>4 DEF StartFn, genVars
    <3>4. QED BY <3>1, <3>2, <3>3 DEF TailInv, IsSet
  <2>5. ASSUME NEW w \in Worker, StartFnRaises(w) PROVE TailInv'
    <3>1. event[w] \in Gen /\ IsSet(event[w])
      BY <2>5 DEF StartFnRaises, LeaderInv, TypeOK
    <3>2. \A h \in Gen \ {event[w]} : pc'[h] = pc[h]
      BY <2>5 DEF StartFnRaises, Launch, TypeOK
    <3>3. extra' = extra /\ owner' = owner /\ flag' = [flag EXCEPT ![event[w]] = "clear"]
      BY <2>5, <3>1 DEF StartFnRaises, GiveUp
    <3>4. QED BY <3>1, <3>2, <3>3 DEF TailInv, IsSet, TypeOK
  <2>6. ASSUME NEW w \in Worker, PollFails(w) PROVE TailInv'
    <3>1. pc' = pc /\ extra' = extra /\ owner' = owner
      BY <2>6 DEF PollFails, GiveUp
    <3>2. \A g \in Gen : flag'[g] = flag[g] \/ (IsSet(g) /\ flag'[g] = "clear")
      <4>1. CASE event[w] = NoGen
        BY <2>6, <4>1 DEF PollFails, GiveUp
      <4>2. CASE event[w] # NoGen
        <5>1. IsSet(event[w]) /\ flag' = [flag EXCEPT ![event[w]] = "clear"]
          BY <2>6, <4>2 DEF PollFails, GiveUp, LeaderInv
        <5>2. QED BY <5>1 DEF TypeOK
      <4>3. QED BY <4>1, <4>2
    <3>3. QED BY <3>1, <3>2 DEF TailInv, IsSet, TypeOK
  <2>7. ASSUME NEW w \in Worker, WorkerDies(w) PROVE TailInv'
    <3>1. \A g \in Gen : owner[g] # w => pc'[g] = pc[g] /\ flag'[g] = flag[g]
      BY <2>7 DEF WorkerDies
    <3>2. \A g \in Gen : owner[g] = w =>
             flag'[g] = "clear" /\ \A l \in Loop : pc'[g][l] = "exited"
      BY <2>7 DEF WorkerDies
    <3>3. extra' = extra /\ owner' = owner
      BY <2>7 DEF WorkerDies
    <3>4. QED BY <3>1, <3>2, <3>3 DEF TailInv, IsSet
  <2>8. ASSUME NEW c \in Conn, LinkBreaks(c) \/ ServerDrops(c) \/ ServerReaps(c)
        PROVE TailInv'
    BY <2>8, <2>1 DEF LinkBreaks, ServerDrops, ServerReaps, genVars, loopVars
  <2>9. ASSUME NEW g \in Gen, TierBoot(g) PROVE TailInv'
    <3>1. flag[g] # "new" /\ extra' = extra /\ flag' = flag /\ owner' = owner
      BY <2>9 DEF TierBoot, TailInv, Loop, genVars
    <3>2. \A h \in Gen \ {g} : pc'[h] = pc[h]
      BY <2>9 DEF TierBoot, TypeOK
    <3>3. pc'[g]["tier"] = "top"
      BY <2>9 DEF TierBoot, TypeOK, Loop
    <3>4. QED BY <3>1, <3>2, <3>3 DEF TailInv, IsSet
  <2>15. ASSUME NEW g \in Gen, TierBootRaises(g) PROVE TailInv'
    <3>1. flag[g] # "new" /\ extra' = extra /\ flag' = flag /\ owner' = owner
      BY <2>15 DEF TierBootRaises, TailInv, Loop, genVars
    <3>2. \A h \in Gen \ {g} : pc'[h] = pc[h]
      BY <2>15 DEF TierBootRaises, TypeOK
    <3>3. \A l \in Loop : extra[g][l] = 0 \/ l # "tier"
      BY <2>15 DEF TierBootRaises, TailInv
    <3>4. QED BY <3>1, <3>2, <3>3 DEF TailInv, IsSet
  <2>10. ASSUME NEW g \in Gen, TierProceeds(g) PROVE TailInv'
    BY <2>10, TierKeepsTailInv
  <2>11. ASSUME NEW g \in Gen, TierExits(g) PROVE TailInv'
    <3>1. flag[g] # "new"
      BY <2>11 DEF TierExits, TailInv, Loop, TierStep
    <3>2. QED BY <2>11, <3>1, GotoKeepsTailInv DEF TierExits, Loop
  <2>12. ASSUME NEW g \in Gen, NEW l \in Loop, LoopIterates(g, l) PROVE TailInv'
    <3>1. flag[g] # "new"
      BY <2>12 DEF LoopIterates, TailInv
    <3>2. QED BY <2>12, <3>1, GotoKeepsTailInv DEF LoopIterates, Working
  <2>13. CASE UNCHANGED vars
    BY <2>13, <2>1 DEF vars, genVars, loopVars
  <2>14. QED
    BY <2>2, <2>3, <2>4, <2>5, <2>6, <2>7, <2>8, <2>9, <2>10, <2>11, <2>12, <2>13, <2>15
       DEF Next, Poll, TierRuns
<1>3. QED
  BY <1>1, <1>2, TypeCorrect, LeadershipSafe, PTL DEF Spec

\* A loop begins at most one step after its generation lost the leadership.
THEOREM TailBounded == Spec => []TailBoundedByOneStep
<1>1. TypeOK /\ TailInv => TailBoundedByOneStep
  BY DEF TypeOK, TailInv, TailBoundedByOneStep
<1>2. QED
  BY <1>1, TypeCorrect, TailInvariant, PTL

-----------------------------------------------------------------------------
(* The election implements Leadership. *)

\* The worker that leads: it has started and its connection holds the lock.
Leads(w) == started[w] /\ holder = conn[w]

\* A generation that still does something, or may.
Active(g) == IsSet(g) \/ \E l \in Loop : pc[g][l] \in {"boot", "top"} \cup Working

\* At most one worker leads, and its generation is the leading one.
LEMMA LeadingIs ==
  ASSUME LeaderInv
  PROVE  /\ \A w \in Worker : Leads(w) => LeadingGen = event[w] /\ event[w] # NoGen
         /\ (\A w \in Worker : ~Leads(w)) => LeadingGen = NoGen
<1>0. /\ \A w \in Worker : started[w] => conn[w] # NoConn
      /\ \A u, w \in Worker : conn[u] = conn[w] /\ conn[u] # NoConn => u = w
  BY DEF LeaderInv
<1>1. ASSUME NEW u \in Worker, NEW w \in Worker, Leads(u), Leads(w) PROVE u = w
  BY <1>0, <1>1 DEF Leads
<1>2. ASSUME NEW w \in Worker, Leads(w) PROVE LeadingGen = event[w] /\ event[w] # NoGen
  <2>1. (CHOOSE u \in Worker : started[u] /\ holder = conn[u]) = w
    BY <1>1, <1>2 DEF Leads
  <2> QED  BY <1>2, <2>1 DEF LeadingGen, Leads, LeaderInv
<1>3. ASSUME \A w \in Worker : ~Leads(w) PROVE LeadingGen = NoGen
  BY <1>3 DEF LeadingGen, Leads
<1> QED  BY <1>2, <1>3

\* The same, one step later.
LEMMA LeadingIsNext ==
  ASSUME LeaderInv'
  PROVE  /\ \A w \in Worker : Leads(w)' => LeadingGen' = event'[w] /\ event'[w] # NoGen
         /\ (\A w \in Worker : ~Leads(w)') => LeadingGen' = NoGen
<1>0. /\ \A w \in Worker : started'[w] => conn'[w] # NoConn
      /\ \A u, w \in Worker : conn'[u] = conn'[w] /\ conn'[u] # NoConn => u = w
  BY DEF LeaderInv
<1>1. ASSUME NEW u \in Worker, NEW w \in Worker, Leads(u)', Leads(w)' PROVE u = w
  BY <1>0, <1>1 DEF Leads
<1>2. ASSUME NEW w \in Worker, Leads(w)' PROVE LeadingGen' = event'[w] /\ event'[w] # NoGen
  <2>1. (CHOOSE u \in Worker : started'[u] /\ holder' = conn'[u]) = w
    BY <1>1, <1>2 DEF Leads
  <2> QED  BY <1>2, <2>1 DEF LeadingGen, Leads, LeaderInv
<1>3. ASSUME \A w \in Worker : ~Leads(w)' PROVE LeadingGen' = NoGen
  BY <1>3 DEF LeadingGen, Leads
<1> QED  BY <1>2, <1>3

\* What every step but a won election does to leadership: nobody starts to lead
\* and no generation that had ended begins again.
Retreats ==
  /\ \A w \in Worker : started'[w] => /\ started[w]
                                      /\ conn'[w] = conn[w]
                                      /\ event'[w] = event[w]
  /\ holder' \in {holder, NoConn}
  /\ \A g \in Gen : Active(g)' => Active(g)
  /\ \A g \in Gen : flag'[g] = "new" <=> flag[g] = "new"

\* Such a step loses the leadership or stops generations that do not lead.
LEMMA RetreatImplements ==
  ASSUME TypeOK, LeaderInv, LeaderInv', Retreats
  PROVE  Abstract!Lose \/ Abstract!Stop
<1>0. LedGens' = LedGens
  BY DEF Retreats, LedGens
<1>1. RunningGens' \subseteq RunningGens
  BY DEF RunningGens, Active, Retreats
<1>2. ASSUME NEW w \in Worker, Leads(w)' PROVE Leads(w) /\ event'[w] = event[w]
  <2>1. conn'[w] # NoConn
    BY <1>2 DEF Leads, LeaderInv
  <2> QED  BY <1>2, <2>1 DEF Leads, Retreats
<1>3. CASE \E w \in Worker : Leads(w)'
  <2>1. PICK w \in Worker : Leads(w)'
    BY <1>3
  <2>2. LeadingGen' = LeadingGen /\ LeadingGen' = event'[w]
    BY <2>1, <1>2, LeadingIs, LeadingIsNext
  <2>3. event'[w] \in Gen /\ IsSet(event[w])'
    BY <2>1, <1>2, LeadingIs DEF Leads, LeaderInv, TypeOK
  <2>4. event'[w] \in RunningGens'
    BY <2>3 DEF RunningGens, IsSet
  <2> QED  BY <1>0, <1>1, <2>2, <2>4 DEF Abstract!Stop
<1>4. CASE \A w \in Worker : ~Leads(w)'
  <2>1. LeadingGen' = NoGen
    BY <1>4, LeadingIsNext
  <2> QED  BY <1>0, <1>1, <2>1 DEF Abstract!Stop, Abstract!Lose
<1> QED  BY <1>3, <1>4

\* A won election starts a generation that never led, and nobody led before.
LEMMA AcquireImplements ==
  ASSUME TypeOK, LeaderInv, TailInv, LeaderInv', NEW w \in Worker, Acquire(w)
  PROVE  \E g \in Gen : Abstract!Start(g)
<1>1. PICK g \in Gen : /\ flag[g] = "new"
                       /\ flag' = [flag EXCEPT ![g] = "set"]
                       /\ event' = [event EXCEPT ![w] = g]
  BY DEF Acquire
<1>2. LeadingGen = NoGen
  <2>1. \A v \in Worker : ~Leads(v)
    BY DEF Acquire, Leads, LeaderInv
  <2> QED  BY <2>1, LeadingIs
<1>3. LeadingGen' = g
  <2>1. Leads(w)' /\ event'[w] = g
    BY <1>1 DEF Acquire, Leads, TypeOK
  <2> QED  BY <2>1, LeadingIsNext
<1>5. RunningGens' = RunningGens \cup {g}
  BY <1>1 DEF RunningGens, IsSet, Acquire, loopVars, TypeOK
<1>4. g \notin LedGens /\ LedGens' = LedGens \cup {g}
  BY <1>1 DEF LedGens, TypeOK
<1> QED  BY <1>2, <1>3, <1>4, <1>5 DEF Abstract!Start

\* Giving up, or dying, only takes things away.
LEMMA GiveUpRetreats ==
  ASSUME TypeOK, LeaderInv, NEW w \in Worker, GiveUp(w),
         \A g \in Gen, l \in Loop : pc'[g][l] # pc[g][l] => event[w] = g
  PROVE  Retreats
<1>1. \A v \in Worker : started'[v] => /\ started[v] /\ conn'[v] = conn[v]
                                       /\ event'[v] = event[v]
  BY DEF GiveUp, TypeOK
<1>2. holder' \in {holder, NoConn}
  BY DEF GiveUp, Close
<1>4. \A g \in Gen : flag'[g] = "new" <=> flag[g] = "new"
  BY DEF GiveUp, IsSet, LeaderInv, TypeOK
<1>3. ASSUME NEW g \in Gen, Active(g)' PROVE Active(g)
  <2>1. IsSet(g)' => IsSet(g)
    BY DEF GiveUp, IsSet, TypeOK
  <2>2. event[w] = g => IsSet(g)
    BY DEF LeaderInv
  <2> QED  BY <1>3, <2>1, <2>2 DEF Active
<1> QED  BY <1>1, <1>2, <1>3, <1>4 DEF Retreats

\* A loop moves on only from where it is active.
LEMMA GotoRetreats ==
  ASSUME TypeOK, NEW g \in Gen, NEW l \in Loop, NEW s, Goto(g, l, s), Active(g)
  PROVE  Retreats
<1>1. UNCHANGED <<workerVars, lockVars, genVars>> /\ pc' = [pc EXCEPT ![g][l] = s]
  BY DEF Goto
<1>2. \A h \in Gen \ {g} : pc'[h] = pc[h]
  BY <1>1 DEF TypeOK
<1> QED
  BY <1>1, <1>2 DEF Retreats, Active, IsSet, workerVars, lockVars, genVars

\* The election keeps the promise of Leadership: one leading generation, a
\* generation that lost the lock is never led again, and the leading one is not
\* stopped while it leads.
THEOREM Implements == Spec => ImplementsLeadership
<1>1. Init => Abstract!Init
  <2> SUFFICES ASSUME Init PROVE LeadingGen = NoGen /\ RunningGens = {} /\ LedGens = {}
    BY DEF Abstract!Init
  <2>1. LeadingGen = NoGen
    BY DEF Init, LeadingGen
  <2>2. RunningGens = {}
    BY DEF Init, RunningGens, IsSet, Working, TierStep
  <2>3. LedGens = {}
    BY DEF Init, LedGens
  <2> QED  BY <2>1, <2>2, <2>3
<1>2. TypeOK /\ LeaderInv /\ LeaderInv' /\ TailInv /\ [Next]_vars
        => [Abstract!Next]_<<LeadingGen, RunningGens, LedGens>>
  <2> SUFFICES ASSUME TypeOK, LeaderInv, LeaderInv', TailInv, [Next]_vars
               PROVE  [Abstract!Next]_<<LeadingGen, RunningGens, LedGens>>
    OBVIOUS
  <2>r. ASSUME Retreats PROVE [Abstract!Next]_<<LeadingGen, RunningGens, LedGens>>
    BY <2>r, RetreatImplements DEF Abstract!Next
  <2> USE DEF workerVars, lockVars, genVars, loopVars
  <2>1. ASSUME NEW w \in Worker, Connect(w) PROVE Retreats
    <3>1. \A v \in Worker : started[v] => conn'[v] = conn[v]
      BY <2>1 DEF Connect, LeaderInv, TypeOK
    <3> QED  BY <2>1, <3>1 DEF Connect, Retreats, Active, IsSet
  <2>2. ASSUME NEW w \in Worker, Acquire(w)
        PROVE  [Abstract!Next]_<<LeadingGen, RunningGens, LedGens>>
    BY <2>2, AcquireImplements DEF Abstract!Next
  <2>3. ASSUME NEW w \in Worker, StartFn(w) PROVE Retreats
    <3>1. IsSet(event[w]) /\ event[w] \in Gen
      BY <2>3 DEF StartFn, LeaderInv, TypeOK
    <3>2. \A g \in Gen \ {event[w]} : pc'[g] = pc[g]
      BY <2>3 DEF StartFn, Launch, TypeOK
    <3> QED  BY <2>3, <3>1, <3>2 DEF StartFn, Retreats, Active, IsSet
  <2>4. ASSUME NEW w \in Worker, StartFnRaises(w) PROVE Retreats
    <3>1. \A g \in Gen, l \in Loop : pc'[g][l] # pc[g][l] => event[w] = g
      BY <2>4 DEF StartFnRaises, Launch, TypeOK
    <3> QED  BY <2>4, <3>1, GiveUpRetreats DEF StartFnRaises
  <2>5. ASSUME NEW w \in Worker, PollFails(w) PROVE Retreats
    BY <2>5, GiveUpRetreats DEF PollFails
  <2>6. ASSUME NEW w \in Worker, WorkerDies(w) PROVE Retreats
    <3>1. \A v \in Worker : started'[v] => /\ started[v] /\ conn'[v] = conn[v]
                                           /\ event'[v] = event[v]
      BY <2>6 DEF WorkerDies, TypeOK
    <3>2. holder' \in {holder, NoConn}
      BY <2>6 DEF WorkerDies, Close
    <3>3. ASSUME NEW g \in Gen, Active(g)' PROVE Active(g)
      <4>1. owner[g] # w
        BY <2>6, <3>3 DEF WorkerDies, Active, IsSet, Working, TierStep
      <4> QED  BY <2>6, <3>3, <4>1 DEF WorkerDies, Active, IsSet
    <3>4. \A g \in Gen : flag'[g] = "new" <=> flag[g] = "new"
      BY <2>6 DEF WorkerDies, TailInv, Loop
    <3> QED  BY <3>1, <3>2, <3>3, <3>4 DEF Retreats
  <2>7. ASSUME NEW c \in Conn, LinkBreaks(c) \/ ServerDrops(c) \/ ServerReaps(c)
        PROVE  Retreats
    BY <2>7 DEF LinkBreaks, ServerDrops, ServerReaps, Retreats, Active, IsSet
  <2>8. ASSUME NEW g \in Gen, TierRuns(g) PROVE Retreats
    <3>1. CASE TierBoot(g)
      <4>1. Active(g) /\ \A h \in Gen \ {g} : pc'[h] = pc[h]
        BY <3>1 DEF TierBoot, Active, Loop, TypeOK
      <4> QED  BY <3>1, <4>1 DEF TierBoot, Retreats, Active, IsSet
    <3>2. CASE TierProceeds(g)
      BY <3>2, GotoRetreats DEF TierProceeds, Active, Working, Loop
    <3>3. CASE TierExits(g)
      BY <3>3, GotoRetreats DEF TierExits, Active, Working, Loop
    <3> QED  BY <2>8, <3>1, <3>2, <3>3 DEF TierRuns
  <2>9. ASSUME NEW g \in Gen, NEW l \in Loop, LoopIterates(g, l) PROVE Retreats
    BY <2>9, GotoRetreats DEF LoopIterates, Active, Working
  <2>10. CASE UNCHANGED vars
    BY <2>10 DEF vars, LeadingGen, RunningGens, LedGens, IsSet
  <2>11. ASSUME NEW g \in Gen, TierBootRaises(g) PROVE Retreats
    <3>1. Active(g) /\ \A h \in Gen \ {g} : pc'[h] = pc[h]
      BY <2>11 DEF TierBootRaises, Active, Loop, TypeOK
    <3> QED  BY <2>11, <3>1 DEF TierBootRaises, Retreats, Active, IsSet
  <2> QED
    BY <2>r, <2>1, <2>2, <2>3, <2>4, <2>5, <2>6, <2>7, <2>8, <2>9, <2>10, <2>11 DEF Next, Poll
<1>3. QED
  BY <1>1, <1>2, TypeCorrect, LeadershipSafe, TailInvariant, PTL
     DEF Spec, ImplementsLeadership, Abstract!Spec

=============================================================================
