-------------------------------- MODULE Services --------------------------------
(***************************************************************************)
(* The components that share no state: email rules, incidents, the tier       *)
(* schedule, the rollup cache, the database pool and live updates.  In each    *)
(* behaviour one of them acts; the others stay as they begin.                 *)
(***************************************************************************)
EXTENDS EmailRules

CONSTANTS
  Collector, Alert, CriticalAlert, Connected, Span, MaxClock, MaxAcks,        \* Incidents
  CriticalEvery, StandardEvery, ExtendedEvery, SlowEvery,                     \* TierSchedule
  Phase, Gap, Duration, Start, MaxTierTime,
  Counted, Thread, Home, unknown, MaxWrites,                                  \* RollupCache
  Connection, Wrapper, Task, MaxLeaks,                                        \* DbPool
  Socket, Limited, MaxMessages                                                \* LiveUpdates

VARIABLES
  part,                                          \* which of them acts
  clock, alert, incident, pass, acks,            \* Incidents
  time, loop, saved, starts,                     \* TierSchedule
  rows, cache, request, recurred, seen, writes,  \* RollupCache
  idle, wrapper, leaks,                          \* DbPool
  list, scopes, state, fifo, cast, got, sent     \* LiveUpdates

ofRules == <<now, opened, happened, asked, memory, ghosts, queue, pending, worker>>
ofIncidents == <<clock, alert, incident, pass, acks>>
ofTiers == <<time, loop, saved, starts>>
ofRollup == <<rows, cache, request, recurred, seen, writes>>
ofPool == <<idle, wrapper, leaks>>
ofLive == <<list, scopes, state, fifo, cast, got, sent>>

servicesVars == <<part, vars, ofIncidents, ofTiers, ofRollup, ofPool, ofLive>>

Group == INSTANCE Incidents WITH
  Critical <- CriticalAlert, MaxTime <- MaxClock, now <- clock

Tiers == INSTANCE TierSchedule WITH
  Critical <- CriticalEvery, Standard <- StandardEvery, Extended <- ExtendedEvery,
  SlowExtended <- SlowEvery, MaxTime <- MaxTierTime, now <- time

Rollup == INSTANCE RollupCache WITH Alert <- Counted, alert <- rows

Pool == INSTANCE DbPool

Live == INSTANCE LiveUpdates WITH queue <- fifo

\* The times, and the bounds on what is followed.
ASSUME BoundsAssumption ==
  {Span, MaxClock, MaxAcks, MaxWrites, MaxLeaks, MaxMessages} \subseteq Nat

\* The intervals and the grid of scheduler.py; time is counted from long ago, and what a tier
\* may take is bounded.
ASSUME TiersAssumption ==
  /\ {CriticalEvery, Phase, MaxTierTime} \subseteq Nat
  /\ {StandardEvery, ExtendedEvery, SlowEvery, Gap, Start} \subseteq Nat \ {0}
  /\ Phase < StandardEvery /\ Start <= MaxTierTime
  /\ Duration \subseteq Nat /\ \E d \in Duration : \A e \in Duration : e <= d

\* The queue of idle connections holds connections, and what refers to a wrapper is a task.
ASSUME PoolAssumption == none \notin Connection \cup Task

\* What was not read is no rollup.
ASSUME RollupAssumption ==
  Home \in [Thread -> Process] /\ \A r \in Rollup!Rows : Rollup!OpenRows(r) # unknown

ServicesInit ==
  /\ part \in {"rules", "incidents", "tiers", "rollup", "pool", "live"}
  /\ Init /\ Group!Init /\ Tiers!Init /\ Rollup!Init /\ Pool!Init /\ Live!Init
  /\ part # "rollup" => \A a \in Counted : rows[a].status = "none"

ServicesNext ==
  /\ \/ part = "rules" /\ Next
        /\ UNCHANGED <<ofIncidents, ofTiers, ofRollup, ofPool, ofLive>>
     \/ part = "incidents" /\ Group!Next
        /\ UNCHANGED <<ofRules, ofTiers, ofRollup, ofPool, ofLive>>
     \/ part = "tiers" /\ Tiers!Next
        /\ UNCHANGED <<ofRules, ofIncidents, ofRollup, ofPool, ofLive>>
     \/ part = "rollup" /\ Rollup!Next
        /\ UNCHANGED <<ofRules, ofIncidents, ofTiers, ofPool, ofLive>>
     \/ part = "pool" /\ Pool!Next
        /\ UNCHANGED <<faults, ofRules, ofIncidents, ofTiers, ofRollup, ofLive>>
     \/ part = "live" /\ Live!Next
        /\ UNCHANGED <<ofRules, ofIncidents, ofTiers, ofRollup, ofPool>>
  /\ UNCHANGED part

ServicesSpec == ServicesInit /\ [][ServicesNext]_servicesVars

-----------------------------------------------------------------------------
(* What each of them promises, in its own module.                            *)

\* An incident is a connected cascade near its start and as severe as its worst member,
\* also when two collectors grew it at once.
IncidentsAreSound == Group!TypeOK /\ Group!IncidentsAreCascades /\ Group!SeverityIsTheWorst

\* No incident is resolved over a member that is open, acknowledged ones included.
ResolvedWhenAllAre == Group!ResolvedWhenAllAre

\* No tier bursts or shares a slot after late runs, failures and restarts, and the standard
\* tier is late only for what ran before it.
TiersAreSpaced ==
  Tiers!TypeOK /\ Tiers!StandardIsSpaced /\ Tiers!OneCatchUp /\ Tiers!StandardIsOnTime

\* What a request is answered from the cache held at some moment of that request.
CountsAreCurrent == []Rollup!TypeOK /\ Rollup!CountsAreCurrent

\* A connection is in the pool or in one task's hands, and none is missing but what a task
\* lost without closing.
PoolIsWhole == Pool!TypeOK /\ Pool!NeverShared /\ Pool!OnlyLeaksAreMissing

\* A browser is sent each message at most once, in order and within its scope, and one that
\* leaves during a broadcast hides it from one other at most.
BroadcastIsOrdered ==
  [](Live!TypeOK /\ Live!SentOnceInOrder /\ Live!SkipsAreBounded) /\ Live!ScopeIsKept

=============================================================================
