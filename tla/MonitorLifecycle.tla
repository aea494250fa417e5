-------------------------- MODULE MonitorLifecycle --------------------------
(***************************************************************************)
(* One monitor between the two services that keep its status: the          *)
(* evaluator decides transitions from its working state in Valkey          *)
(* (api/analytics/evaluator), and api/common stores them, materializes the *)
(* status and opens and closes the monitor's auto-incident                 *)
(* (internal/service/consumers.go), while users pause, resume, edit and    *)
(* delete the monitor and work on its incidents.  They meet only through   *)
(* the lane of transitions and the monitors snapshot, so each acts on what *)
(* the other knew a while ago.                                             *)
(*                                                                         *)
(* Abstracted: the evaluator's own steps (Evaluator has them: here one     *)
(* evaluation decides, saves and publishes at once), several regions,      *)
(* clock times, incident wording, manual incidents (they have no monitor). *)
(* Every handler of api/common is one database transaction.                *)
(***************************************************************************)
EXTENDS MonitorMachine, Sequences

CONSTANTS
    Threshold,   \* failure_threshold
    Phases,      \* incident phases, "resolved" among them
    MaxSeq,      \* bound on the evaluator's transition number
    MaxEdits,    \* bound on pauses, resumes and deletes
    MaxTouches,  \* bound on users' incident updates
    MaxFaults    \* bound on failed and repeated deliveries and losses of Valkey

ASSUME LifecycleAssumption ==
    /\ {"investigating", "resolved"} \subseteq Phases
    /\ {Threshold, MaxSeq, MaxEdits, MaxTouches, MaxFaults} \subseteq Nat

VARIABLES
    row,        \* the monitors row
    stored,     \* the transitions table
    incidents,  \* the phases of the monitor's auto-incidents, oldest first
    snap,       \* the monitor in the monitors snapshot
    config,     \* the monitor in the evaluator's copy of it
    mon,        \* Valkey's mon: key
    lane,       \* published transitions, not committed yet
    failed,     \* transitions in consumer_failures
    touched,    \* history: incidents whose phase a user set last
    amiss,      \* history: a transition was lost, out of step, or crossed a pause
    spent       \* history: how often each bounded event happened

common == <<row, stored, incidents>>
caches == <<snap, config>>
vars == <<common, caches, mon, lane, failed, touched, amiss, spent>>

Row == [exists : BOOLEAN, active : BOOLEAN, status : Statuses, failures : Nat, seq : Nat]

\* mon: holds nothing.
NoState == Fresh("paused", 0, 0)

TypeOK ==
    /\ {row, snap, config} \subseteq Row
    /\ stored \subseteq TransitionRec /\ failed \subseteq TransitionRec
    /\ incidents \in Seq(Phases) /\ touched \subseteq DOMAIN incidents
    /\ mon \in StateRec
    /\ lane \in Seq(TransitionRec)
    /\ amiss \in BOOLEAN

Init ==
    /\ row = [exists |-> TRUE, active |-> TRUE, status |-> "pending", failures |-> 0, seq |-> 0]
    /\ snap = row /\ config = row
    /\ stored = {} /\ incidents = <<>>
    /\ mon = NoState /\ lane = <<>> /\ failed = {}
    /\ touched = {} /\ amiss = FALSE
    /\ spent = [edits |-> 0, touches |-> 0, faults |-> 0, losses |-> 0]

Spend(what, max) == spent[what] < max /\ spent' = [spent EXCEPT ![what] = @ + 1]
Fault(what) == spent.faults + spent.losses < MaxFaults /\ Spend(what, MaxFaults)

IsOpen(i) == incidents[i] # "resolved"
OpenIncidents == {i \in DOMAIN incidents : IsOpen(i)}

----------------------------------------------------------------------------
(* The evaluator. *)

\* Mutant: every evaluation starts from the snapshot.
WorkingStateOfSnapshot == Fresh(config.status, config.failures, config.seq)

\* monitor_state: the working state, or the snapshot when that is newer.
WorkingState ==
    IF mon # NoState /\ mon.seq >= config.seq THEN mon
    ELSE Fresh(config.status, config.failures, config.seq)

\* _commit: saves the state and publishes the transition, if there is one.  A
\* transition of a monitor paused meanwhile crosses the pause.
Commit(step) ==
    /\ step.st.failures <= Threshold   \* bounds the count of a monitor that stays down
    /\ mon' = step.st
    /\ IF step.tr = NoTransition THEN UNCHANGED <<lane, amiss>>
       ELSE /\ step.tr.seq <= MaxSeq
            /\ lane' = Append(lane, step.tr)
            /\ amiss' = (amiss \/ ~row.active)
    /\ UNCHANGED <<common, caches, failed, touched, spent>>

\* A tick closes: its one region was up or not.
CloseTick ==
    /\ config.exists /\ config.active
    /\ \E ok \in BOOLEAN :
         Commit(ApplyTick(WorkingState, [r \in {"region"} |-> ok], 1, Threshold, 1))

\* The nodata timer fires: two intervals passed since the last tick.
Silence ==
    /\ config.exists /\ config.active
    /\ NoData(WorkingState, 4, 1)
    /\ Commit(CheckNoData(WorkingState, 4, 1))

\* sweep: the state of a paused monitor is deleted.
Forget ==
    /\ config.exists /\ ~config.active
    /\ mon # NoState
    /\ mon' = NoState
    /\ UNCHANGED <<common, caches, lane, failed, touched, amiss, spent>>

\* Valkey restarts empty, or evicts the key.
Lose ==
    /\ mon # NoState
    /\ mon' = NoState
    /\ Fault("losses")
    /\ UNCHANGED <<common, caches, lane, failed, touched, amiss>>

----------------------------------------------------------------------------
(* OnTransition. *)

\* The row with another state.
RowWith(active, status, failures, seq) ==
    [exists |-> row.exists, active |-> active, status |-> status, failures |-> failures, seq |-> seq]

\* InsertTransition: stored once per number, and only for a monitor there is.
IsFresh(t) == row.exists /\ \A s \in stored : s.seq # t.seq

\* Mutant: an older transition is applied too.
AppliesAny(t) == row.active

\* ApplyTransition: only a newer one, and only while the monitor is active.
Applies(t) == row.active /\ row.seq < t.seq

\* Mutant: the failures are counted from the transition on.
AppliedCounts(t) ==
    IF Applies(t) THEN RowWith(TRUE, t.to, t.failures - 1, t.seq) ELSE row

Applied(t) ==
    IF Applies(t) THEN RowWith(TRUE, t.to, t.failures, t.seq) ELSE row

\* closeMonitorIncident.
Resolved(seq) == [i \in DOMAIN seq |-> "resolved"]

\* Mutant: a transition into down opens an incident whatever is open.
HandledOpens(t) ==
    IF t.to = "down" THEN Append(incidents, "investigating")
    ELSE IF t.from = "down" /\ t.to = "up" THEN Resolved(incidents)
    ELSE incidents

\* Into down, an incident opens unless one is open; from down to up it closes.
Handled(t) ==
    IF t.to = "down" THEN
        IF OpenIncidents = {} THEN Append(incidents, "investigating") ELSE incidents
    ELSE IF t.from = "down" /\ t.to = "up" THEN Resolved(incidents)
    ELSE incidents

\* History: it is out of step when the monitor is paused, newer, or not in the
\* status it leaves; and lost when another transition has its number.
OutOfStep(t) ==
    \/ IsFresh(t) /\ ~(row.active /\ row.seq < t.seq /\ row.status = t.from)
    \/ row.exists /\ ~IsFresh(t) /\ t \notin stored

OnTransition(t) ==
    /\ IF IsFresh(t)
       THEN /\ stored' = stored \union {t}
            /\ row' = Applied(t)
            /\ incidents' = Handled(t)
            /\ touched' = {i \in touched : incidents'[i] = incidents[i]}
       ELSE UNCHANGED <<common, touched>>
    /\ amiss' = (amiss \/ OutOfStep(t))
    /\ UNCHANGED <<caches, mon>>

\* The consumer handles the oldest message and commits it.
Deliver ==
    /\ lane # <<>>
    /\ OnTransition(Head(lane))
    /\ lane' = Tail(lane)
    /\ UNCHANGED <<failed, spent>>

\* It handles it, and dies before the commit.
DeliverAgain ==
    /\ lane # <<>>
    /\ OnTransition(Head(lane))
    /\ Fault("faults")
    /\ UNCHANGED <<lane, failed>>

\* Every attempt failed: the message is recorded and skipped.
DeliveryFails ==
    /\ lane # <<>>
    /\ failed' = failed \union {Head(lane)}
    /\ lane' = Tail(lane)
    /\ Fault("faults")
    /\ UNCHANGED <<common, caches, mon, touched, amiss>>

\* RetryFailures handles a recorded message, or abandons it in the end.
Retry(t) ==
    /\ OnTransition(t)
    /\ failed' = failed \ {t}
    /\ UNCHANGED <<lane, spent>>

Abandon(t) ==
    /\ failed' = failed \ {t}
    /\ amiss' = TRUE
    /\ UNCHANGED <<common, caches, mon, lane, touched, spent>>

----------------------------------------------------------------------------
(* Users (UpdateMonitor, DeleteMonitor, UpdateIncident, AddTimeline) and   *)
(* the snapshot on its way to the evaluator.                               *)

Edited ==
    /\ row.exists
    /\ Spend("edits", MaxEdits)
    /\ UNCHANGED <<stored, caches, mon, lane, failed>>

\* Mutant: a pause leaves the incident open.
PausedLeaves(seq) == seq

\* What pausing does to the incidents.
Paused(seq) == Resolved(seq)

\* A transition on its way crosses the pause.
Pause ==
    /\ row.active
    /\ Edited
    /\ row' = RowWith(FALSE, "paused", 0, row.seq)
    /\ incidents' = Paused(incidents)
    /\ touched' = {i \in touched : incidents'[i] = incidents[i]}
    /\ amiss' = (amiss \/ lane # <<>> \/ failed # {})

\* The evaluator may not have noticed the pause.
Resume ==
    /\ ~row.active
    /\ Edited
    /\ row' = RowWith(TRUE, "pending", 0, row.seq)
    /\ amiss' = (amiss \/ mon # NoState \/ config.active)
    /\ UNCHANGED <<incidents, touched>>

Delete ==
    /\ Edited
    /\ row' = [RowWith(FALSE, row.status, row.failures, row.seq) EXCEPT !.exists = FALSE]
    /\ UNCHANGED <<incidents, touched, amiss>>

\* Mutant: the database keeps no index of open incidents.
MayBeAny(i, phase) == TRUE

\* The index incidents_open_monitor: one open auto-incident of a monitor.
MayBe(i, phase) == ~row.exists \/ phase = "resolved" \/ OpenIncidents \subseteq {i}

\* A user moves an incident to another phase, or opens it again.
Touch(i) ==
    /\ \E phase \in Phases \ {incidents[i]} :
         MayBe(i, phase) /\ incidents' = [incidents EXCEPT ![i] = phase]
    /\ touched' = touched \union {i}
    /\ Spend("touches", MaxTouches)
    /\ UNCHANGED <<row, stored, caches, mon, lane, failed, amiss>>

\* The outbox publisher rewrites the snapshot: after an edit of this monitor
\* or another one, or when an instance starts.  Transitions do not ask for it.
WriteSnapshot ==
    /\ snap # row
    /\ snap' = row
    /\ UNCHANGED <<common, config, mon, lane, failed, touched, amiss, spent>>

\* The evaluator loads it.
LoadSnapshot ==
    /\ config # snap
    /\ config' = snap
    /\ UNCHANGED <<common, snap, mon, lane, failed, touched, amiss, spent>>

Next ==
    \/ CloseTick \/ Silence \/ Forget \/ Lose
    \/ Deliver \/ DeliverAgain \/ DeliveryFails
    \/ \E t \in failed : Retry(t) \/ Abandon(t)
    \/ Pause \/ Resume \/ Delete
    \/ \E i \in DOMAIN incidents : Touch(i)
    \/ WriteSnapshot \/ LoadSnapshot

Spec == Init /\ [][Next]_vars

----------------------------------------------------------------------------
(* Properties. *)

\* A monitor never has two open auto-incidents, however often it goes down,
\* messages repeat, or users open old incidents again (OnTransition and the
\* index incidents_open_monitor).
OneOpenIncident == row.exists => \A i, j \in OpenIncidents : i = j

\* An open incident means down: "opened on any transition into down, closed on
\* down -> up", and a pause "closes any open incident" (OnTransition, Pause).
\* Incidents a user opened again are the user's.
NoPhantomIncident ==
    row.exists /\ row.status # "down" => OpenIncidents \subseteq touched

\* Down means an open incident, unless a user resolved it.
DownHasIncident ==
    row.exists /\ row.status = "down" => OpenIncidents \union touched # {}

\* As long as every transition leaves the status the row has, incidents are
\* open exactly while the monitor is down (OnTransition).
IncidentsFollowStatus == ~amiss => NoPhantomIncident /\ DownHasIncident

\* Everything published has been handled.
Drained == lane = <<>> /\ failed = {}

\* api/common's status is the evaluator's.
StatusesAgree ==
    row.active /\ mon # NoState /\ Drained => row.status = mon.status

\* With nothing on its way the two services agree, also after pauses, resumes
\* and repeated messages, while no transition is out of step and Valkey keeps
\* its keys (monitor_state, ApplyTransition).
AgreeOnStatus == ~amiss /\ spent.losses = 0 => StatusesAgree

\* Valkey is "rebuildable from the monitors snapshot: losing it is survivable":
\* a monitor the evaluator found down reads down once its transition arrived
\* (monitor_state, InsertTransition).  Does not hold (README, section 7): numbers
\* are used again after a loss, and their messages are dropped.
FoundDownReadsDown ==
    row.active /\ Drained /\ spent.faults = 0 /\ mon.status = "down" => row.status = "down"

\* No late or repeated transition rolls the status back: it changes with a
\* newer transition or by a user's hand (ApplyTransition).
StatusNeverRollsBack ==
    [][row'.status # row.status => row'.seq > row.seq \/ row'.active # row.active]_vars
=============================================================================
