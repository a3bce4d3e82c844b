---------------------------- MODULE AlertHandling ----------------------------
(***************************************************************************)
(* What happens to the alerts of one host besides evaluation: the watchdog  *)
(* (host_agent_watchdog.py) opens and closes "agent silent", the sync of    *)
(* maintenance windows (maintenance.py) silences and un-silences, the       *)
(* escalation (escalation.py) claims an overdue alert and pages a group,    *)
(* and users acknowledge and resolve.                                      *)
(*                                                                         *)
(* One collector thread goes through sync, watchdog and, when the standard  *)
(* tier is due, escalation.  Each is a REPEATABLE READ transaction: it      *)
(* reads a snapshot and writes rows by id later.  During a change of        *)
(* leadership two collectors may be under way.                             *)
(***************************************************************************)
EXTENDS Naturals, Sequences

CONSTANTS
  Collector,   \* processes that may run the tier loop
  MaxEvents    \* bound on user actions, changes of the world and failures

ASSUME HandlingAssumption == Collector # {} /\ MaxEvents \in Nat

VARIABLES
  beat,     \* what the watchdog's queries find of the host
  window,   \* a maintenance window that covers the host is in force
  alerts,   \* the host's alerts, by id
  saved,    \* host_agent_watchdog_state.alert_id, 0 for NULL
  col,      \* what each collector is doing, and what it has read
  synced,   \* a sync begun in this window has completed (history)
  split,    \* two collectors have been under way at once (history)
  events

world == <<beat, window>>
rows == <<alerts, saved>>
vars == <<world, rows, col, synced, split, events>>

\* A silent host whose instance is stopped is treated like one that is heard.
Beat == {"online", "stale", "offline", "revoked"}
Open == {"active", "acknowledged"}
Ids == DOMAIN alerts
OpenIds == {i \in Ids : alerts[i].status \in Open}

\* missed: opened by a watchdog that could not read the windows, and not silenced
\* by a sync since (history).
NewAlert(s, quiet, blind) ==
  [status |-> "active", sev |-> s, silenced |-> quiet, missed |-> blind, overdue |-> FALSE,
   escalated |-> FALSE, pages |-> 0]

Idle == [pc |-> "idle", win |-> FALSE, blind |-> FALSE, ids |-> {}, beat |-> "online", id |-> 0,
         sev |-> "WARNING", status |-> "active", claimed |-> {}]

AlertType == [status: Open \cup {"resolved"}, sev: {"WARNING", "CRITICAL"}, silenced: BOOLEAN,
              missed: BOOLEAN, overdue: BOOLEAN, escalated: BOOLEAN, pages: Nat]
ColType == [pc: {"idle", "sync", "synced", "watch", "watched", "escalate"}, win: BOOLEAN,
            blind: BOOLEAN, ids: SUBSET Nat, beat: Beat, id: Nat, sev: {"WARNING", "CRITICAL"},
            status: Open, claimed: SUBSET Nat]

TypeOK ==
  /\ beat \in Beat /\ window \in BOOLEAN
  /\ alerts \in Seq(AlertType)
  /\ saved \in {0} \cup Ids
  /\ col \in [Collector -> ColType]
  /\ \A c \in Collector : /\ col[c].ids \subseteq Ids /\ col[c].claimed \subseteq Ids
                          /\ col[c].id \in {0} \cup Ids
  /\ synced \in BOOLEAN /\ split \in BOOLEAN
  /\ events \in 0..MaxEvents

Init ==
  /\ beat = "online" /\ window = FALSE
  /\ alerts = <<>> /\ saved = 0
  /\ col = [c \in Collector |-> Idle]
  /\ synced = FALSE /\ split = FALSE
  /\ events = 0

Event == events < MaxEvents /\ events' = events + 1

At(c, pc) == col[c].pc = pc
Goto(c, pc) == col' = [col EXCEPT ![c] = [Idle EXCEPT !.pc = pc]]

-----------------------------------------------------------------------------
(* sync_maintenance_silencing.                                               *)

\* The windows in force, and the silenced alerts they do not cover: one snapshot.
SyncReads(c) ==
  /\ At(c, "idle")
  /\ col' = [col EXCEPT ![c] =
       [Idle EXCEPT !.pc = "sync", !.win = window,
                    !.ids = IF window THEN {} ELSE {i \in OpenIds : alerts[i].silenced}]]
  /\ split' = (split \/ \E d \in Collector : ~At(d, "idle"))
  /\ UNCHANGED <<world, rows, synced, events>>

\* Open alerts under a window are silenced; what was read as uncovered is
\* un-silenced by id.
SilencedBy(win, ids) ==
  [i \in Ids |->
     IF win /\ i \in OpenIds THEN [alerts[i] EXCEPT !.silenced = TRUE, !.missed = FALSE]
     ELSE IF i \in ids THEN [alerts[i] EXCEPT !.silenced = FALSE] ELSE alerts[i]]

SyncWrites(c) ==
  /\ At(c, "sync")
  /\ alerts' = SilencedBy(col[c].win, col[c].ids)
  /\ synced' = (synced \/ (col[c].win /\ window))
  /\ Goto(c, "synced")
  /\ UNCHANGED <<world, saved, split, events>>

-----------------------------------------------------------------------------
(* run_watchdog.                                                             *)

\* _open_alert: the oldest open alert, 0 when there is none.
Oldest == IF OpenIds = {} THEN 0 ELSE CHOOSE i \in OpenIds : \A j \in OpenIds : i <= j

\* The host, the windows, the open alert (for a host that is gone, the alert its
\* state row names): one snapshot.  A query for the windows that fails is logged
\* and counts as no window (blind).
Reads(c, blind) ==
  LET id == IF beat = "revoked" THEN saved ELSE Oldest
      seen == IF id \in OpenIds THEN alerts[id] ELSE NewAlert("WARNING", FALSE, FALSE)
  IN /\ At(c, "synced")
     /\ col' = [col EXCEPT ![c] =
          [Idle EXCEPT !.pc = "watch", !.win = window /\ ~blind, !.blind = blind, !.beat = beat, !.id = id,
                       !.sev = seen.sev, !.status = seen.status]]
     /\ UNCHANGED <<world, rows, synced, split>>

WatchReads(c) == Reads(c, FALSE) /\ UNCHANGED events
WatchReadsBlind(c) == Event /\ Reads(c, TRUE)

\* Mutant: _resolve closes active alerts only.
WatchClearsActive(c) ==
  /\ At(c, "watch") /\ col[c].beat \in {"online", "revoked"}
  /\ alerts' = [i \in Ids |-> IF i = col[c].id /\ alerts[i].status = "active"
                              THEN [alerts[i] EXCEPT !.status = "resolved"] ELSE alerts[i]]
  /\ saved' = 0
  /\ Goto(c, "watched")
  /\ UNCHANGED <<world, synced, split, events>>

\* The host is heard again, is stopped or was removed: _resolve, if still open.
WatchClears(c) ==
  /\ At(c, "watch") /\ col[c].beat \in {"online", "revoked"}
  /\ alerts' = [i \in Ids |-> IF i = col[c].id /\ i \in OpenIds
                              THEN [alerts[i] EXCEPT !.status = "resolved"] ELSE alerts[i]]
  /\ saved' = 0
  /\ Goto(c, "watched")
  /\ UNCHANGED <<world, synced, split, events>>

Severity(b) == IF b = "offline" THEN "CRITICAL" ELSE "WARNING"

\* Silent, and an alert was open: the UPDATE by id; getting worse withdraws the
\* acknowledgement that was read.
WatchUpdates(c) ==
  LET sev == Severity(col[c].beat)
      worse == col[c].sev # sev /\ sev = "CRITICAL"
  IN /\ At(c, "watch") /\ col[c].beat \in {"stale", "offline"} /\ col[c].id # 0
     /\ alerts' = [alerts EXCEPT
          ![col[c].id].sev = IF col[c].sev # sev THEN sev ELSE @,
          ![col[c].id].status = IF worse /\ col[c].status = "acknowledged" THEN "active" ELSE @]
     /\ saved' = col[c].id
     /\ Goto(c, "watched")
     /\ UNCHANGED <<world, synced, split, events>>

\* Mutant: an alert is opened loud, and silenced by the next sync.
WatchOpensLoud(c) ==
  /\ At(c, "watch") /\ col[c].beat \in {"stale", "offline"} /\ col[c].id = 0
  /\ alerts' = Append(alerts, NewAlert(Severity(col[c].beat), FALSE, col[c].blind))
  /\ saved' = Len(alerts) + 1
  /\ Goto(c, "watched")
  /\ UNCHANGED <<world, synced, split, events>>

\* Silent, and none was open: INSERT, silenced from birth under a window.
WatchOpens(c) ==
  /\ At(c, "watch") /\ col[c].beat \in {"stale", "offline"} /\ col[c].id = 0
  /\ alerts' = Append(alerts, NewAlert(Severity(col[c].beat), col[c].win, col[c].blind))
  /\ saved' = Len(alerts) + 1
  /\ Goto(c, "watched")
  /\ UNCHANGED <<world, synced, split, events>>

-----------------------------------------------------------------------------
(* evaluate_escalations.                                                     *)

\* Firing, unacknowledged, past the policy's SLA and not escalated yet.
Overdue == {i \in Ids : /\ alerts[i].status = "active" /\ ~alerts[i].silenced
                        /\ alerts[i].overdue /\ ~alerts[i].escalated}

\* The standard tier is due.
EscalationReads(c) ==
  /\ At(c, "watched")
  /\ IF Overdue = {} THEN Goto(c, "idle")
     ELSE col' = [col EXCEPT ![c] = [Idle EXCEPT !.pc = "escalate", !.ids = Overdue]]
  /\ UNCHANGED <<world, rows, synced, split, events>>

\* Only the critical tier is due.
StandardNotDue(c) ==
  /\ At(c, "watched")
  /\ Goto(c, "idle")
  /\ UNCHANGED <<world, rows, synced, split, events>>

\* Mutant: the claim does not look whether the alert is escalated already.
ClaimsUnguarded(c, i) ==
  /\ At(c, "escalate") /\ i \in col[c].ids
  /\ alerts' = [alerts EXCEPT ![i].escalated = TRUE]
  /\ col' = [col EXCEPT ![c].ids = @ \ {i}, ![c].claimed = @ \cup {i}]
  /\ UNCHANGED <<world, saved, synced, split, events>>

\* UPDATE ... WHERE escalated_at IS NULL, committed before anything is mailed.
Claims(c, i) ==
  /\ At(c, "escalate") /\ i \in col[c].ids
  /\ alerts' = [alerts EXCEPT ![i].escalated = TRUE]
  /\ col' = [col EXCEPT ![c].ids = @ \ {i},
                        ![c].claimed = IF alerts[i].escalated THEN @ ELSE @ \cup {i}]
  /\ UNCHANGED <<world, saved, synced, split, events>>

\* When everything is claimed, the claimed ones are mailed.
Pages(c, i) ==
  /\ At(c, "escalate") /\ col[c].ids = {} /\ i \in col[c].claimed
  /\ alerts' = [alerts EXCEPT ![i].pages = @ + 1]
  /\ col' = [col EXCEPT ![c].claimed = @ \ {i}]
  /\ UNCHANGED <<world, saved, synced, split, events>>

EscalationEnds(c) ==
  /\ At(c, "escalate") /\ col[c].ids = {} /\ col[c].claimed = {}
  /\ Goto(c, "idle")
  /\ UNCHANGED <<world, rows, synced, split, events>>

-----------------------------------------------------------------------------
\* A sync or watchdog transaction raises: rolled back, logged, and the loop goes on.
StepRaises(c) ==
  /\ Event
  /\ \/ At(c, "sync") /\ Goto(c, "synced")
     \/ At(c, "watch") /\ Goto(c, "watched")
  /\ UNCHANGED <<world, rows, synced, split>>

\* The process dies, or stops leading between two steps; or the escalation raises
\* between two claims, and the pages of the earlier ones are lost.
Stops(c) ==
  /\ Event
  /\ ~At(c, "idle")
  /\ Goto(c, "idle")
  /\ UNCHANGED <<world, rows, synced, split>>

\* Users: each a guarded UPDATE.
Ack(i) ==
  /\ Event
  /\ i \in OpenIds /\ alerts[i].status = "active"
  /\ alerts' = [alerts EXCEPT ![i].status = "acknowledged"]
  /\ UNCHANGED <<world, saved, col, synced, split>>

Resolve(i) ==
  /\ Event
  /\ i \in OpenIds
  /\ alerts' = [alerts EXCEPT ![i].status = "resolved"]
  /\ UNCHANGED <<world, saved, col, synced, split>>

\* A window begins or ends, is created, edited or deleted.
WindowChanges ==
  /\ Event
  /\ window' = ~window /\ synced' = FALSE
  /\ UNCHANGED <<beat, rows, col, split>>

BeatChanges ==
  /\ Event
  /\ \E b \in Beat \ {beat} : beat' = b
  /\ UNCHANGED <<window, rows, col, synced, split>>

\* The policy's SLA passes.
SlaPasses(i) ==
  /\ i \in OpenIds /\ ~alerts[i].overdue
  /\ alerts' = [alerts EXCEPT ![i].overdue = TRUE]
  /\ UNCHANGED <<world, saved, col, synced, split, events>>

Pass(c) ==
  \/ SyncReads(c) \/ SyncWrites(c)
  \/ WatchReads(c) \/ WatchClears(c) \/ WatchUpdates(c) \/ WatchOpens(c)
  \/ EscalationReads(c) \/ StandardNotDue(c) \/ EscalationEnds(c)
  \/ \E i \in Ids : Claims(c, i) \/ Pages(c, i)

Next ==
  \/ \E c \in Collector : Pass(c) \/ WatchReadsBlind(c) \/ StepRaises(c) \/ Stops(c)
  \/ \E i \in Ids : Ack(i) \/ Resolve(i) \/ SlaPasses(i)
  \/ WindowChanges \/ BeatChanges

Spec == Init /\ [][Next]_vars

\* A collector goes through its steps again and again.
FairSpec == Spec /\ \A c \in Collector : WF_vars(Pass(c))

-----------------------------------------------------------------------------
(* Properties.                                                               *)

\* An escalated alert pages its group at most once, also when two collectors
\* overlap or one dies half way (the claim of evaluate_escalations).
PagedOnce == \A i \in Ids : alerts[i].pages <= 1

\* While collectors do not overlap: once a sync has run in a window, every open
\* alert of the host is silenced, the ones opened or escalated since included.  The
\* one exception is an alert opened by a watchdog whose query for the windows
\* failed (host_agent_watchdog.py:413-418), and that until the next sync only.
SilencedInWindow ==
  ~split /\ window /\ synced => \A i \in OpenIds : alerts[i].silenced \/ alerts[i].missed

\* api/maintenance.py:190: a window that is deleted "doesn't leave alerts stuck
\* silenced".  When no window comes any more, no open alert stays silenced.
SilenceEnds == <>[]~window => <>[](\A i \in OpenIds : ~alerts[i].silenced)

\* When the host is heard again for good, every alert of it closes, duplicates of
\* overlapping collectors and alerts reopened by a stale UPDATE included.
RecoveredHostCloses == <>[](beat = "online") => <>[](OpenIds = {})

\* What the world settles on is what the host's alerts settle on.
AlertsSettle == SilenceEnds /\ RecoveredHostCloses

=============================================================================
