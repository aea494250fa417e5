---------------------- MODULE MonitorLifecycle_proofs ----------------------
(***************************************************************************)
(* Proofs about a monitor between the evaluator and api/common, for every  *)
(* threshold, phases and bounds.                                           *)
(***************************************************************************)
EXTENDS MonitorLifecycle, SequenceTheorems, TLAPS

-----------------------------------------------------------------------------
(* What the functions of the machine return. *)

\* The fields of a state.
LEMMA StateFields ==
    ASSUME NEW s \in StateRec
    PROVE  /\ s.status \in Statuses /\ s.failures \in Nat
           /\ s.seq \in Nat /\ s.last \in Nat
  BY DEF StateRec

\* The state a move leads to (_move).
LEMMA MoveSpec ==
    ASSUME NEW s \in StateRec, NEW to \in Statuses, NEW failures \in Nat
    PROVE  /\ Move(s, to, failures).st \in StateRec
           /\ Move(s, to, failures).st.status = to
           /\ Move(s, to, failures).st.failures = IF to = "up" THEN 0 ELSE failures
           /\ Move(s, to, failures).st.last = s.last
  BY StateFields DEF StateRec, Move

\* A state with another tick time.
LEMMA SeenSpec ==
    ASSUME NEW s \in StateRec, NEW at \in Nat
    PROVE  /\ [s EXCEPT !.last = at] \in StateRec
           /\ [s EXCEPT !.last = at].status = s.status
           /\ [s EXCEPT !.last = at].failures = s.failures
           /\ [s EXCEPT !.last = at].last = at
  BY DEF StateRec

\* A state with another count of failures.
LEMMA CountedSpec ==
    ASSUME NEW s \in StateRec, NEW n \in Nat
    PROVE  /\ [s EXCEPT !.failures = n] \in StateRec
           /\ [s EXCEPT !.failures = n].status = s.status
           /\ [s EXCEPT !.failures = n].failures = n
           /\ [s EXCEPT !.failures = n].last = s.last
  BY DEF StateRec

\* From down a monitor goes to up and nowhere else (apply_tick, check_nodata).
Legal(t) == t \in TransitionRec /\ (t.from = "down" => t.to = "up")

\* What every function of the machine returns.
IsStep(step) == step.st \in StateRec /\ (step.tr = NoTransition \/ Legal(step.tr))

\* A step that publishes nothing.
LEMMA StaysIsStep ==
    ASSUME NEW s \in StateRec
    PROVE  IsStep(Stays(s))
  BY DEF IsStep, Stays

\* A move from down to up, or to another status but not from down, is legal.
LEMMA MoveIsStep ==
    ASSUME NEW s \in StateRec, NEW to \in Statuses, NEW failures \in Nat,
           s.status = "down" => to = "up"
    PROVE  IsStep(Move(s, to, failures))
<1> DEFINE t == Move(s, to, failures).tr
<1>1. t = [from |-> s.status, to |-> to, failures |-> failures, seq |-> s.seq + 1]
  BY DEF Move
<1>2. s.status \in Statuses /\ s.seq + 1 \in Nat
  BY StateFields
<1>3. t \in TransitionRec
  BY <1>1, <1>2 DEF TransitionRec
<1>4. t.from = s.status /\ t.to = to
  BY <1>1
<1> QED BY <1>3, <1>4, MoveSpec DEF IsStep, Legal

\* A closed tick publishes a legal transition or nothing (apply_tick).
LEMMA ApplyTickIsStep ==
    ASSUME NEW s \in StateRec, NEW results, NEW at \in Nat, NEW limit \in Nat, NEW quorum
    PROVE  IsStep(ApplyTick(s, results, at, limit, quorum))
<1> DEFINE seen == [s EXCEPT !.last = at]
<1>1. seen \in StateRec /\ seen.failures \in Nat
  BY SeenSpec, StateFields
<1> HIDE DEF seen
<1>2. IsStep(Fail(seen, limit))
  <2>1. CASE seen.status # "down" /\ seen.failures + 1 >= AtLeastOne(limit)
    <3>1. Fail(seen, limit) = Move(seen, "down", seen.failures + 1)
      BY <2>1 DEF Fail
    <3>2. "down" \in Statuses /\ seen.failures + 1 \in Nat
      BY <1>1 DEF Statuses
    <3> QED BY <1>1, <2>1, <3>1, <3>2, MoveIsStep
  <2>2. CASE ~(seen.status # "down" /\ seen.failures + 1 >= AtLeastOne(limit))
    <3>1. Fail(seen, limit) = Stays([seen EXCEPT !.failures = seen.failures + 1])
      BY <2>2 DEF Fail
    <3> QED BY <1>1, <3>1, CountedSpec, StaysIsStep
  <2> QED BY <2>1, <2>2
<1>3. IsStep(Pass(seen))
  <2>1. CASE seen.status = "up"
    <3>1. Pass(seen) = Stays([seen EXCEPT !.failures = 0])
      BY <2>1 DEF Pass
    <3> QED BY <1>1, <3>1, CountedSpec, StaysIsStep
  <2>2. CASE seen.status # "up"
    <3>1. Pass(seen) = Move(seen, "up", 0)
      BY <2>2 DEF Pass
    <3>2. "up" \in Statuses
      BY DEF Statuses
    <3> QED BY <1>1, <3>1, <3>2, MoveIsStep
  <2> QED BY <2>1, <2>2
<1>4. IsStep(Stays(s))
  BY StaysIsStep
<1> QED BY <1>2, <1>3, <1>4 DEF ApplyTick, seen

\* So does the nodata timer (check_nodata).
LEMMA CheckNoDataIsStep ==
    ASSUME NEW s \in StateRec, NEW now \in Nat, NEW interval \in Nat
    PROVE  IsStep(CheckNoData(s, now, interval))
<1>1. CASE NoData(s, now, interval)
  <2>1. CheckNoData(s, now, interval) = Move(s, "nodata", s.failures) /\ s.status = "up"
    BY <1>1 DEF CheckNoData, NoData
  <2>2. "nodata" \in Statuses /\ s.failures \in Nat
    BY StateFields DEF Statuses
  <2> QED BY <2>1, <2>2, MoveIsStep
<1>2. CASE ~NoData(s, now, interval)
  BY <1>2, StaysIsStep DEF CheckNoData
<1> QED BY <1>1, <1>2

-----------------------------------------------------------------------------
(* Steps from one state to the next. *)

\* A step that publishes nothing keeps status and number; one that does has
\* the next number, leaves the status there was and never pauses.
Follows(step, s) ==
    /\ step.st \in StateRec
    /\ \/ /\ step.tr = NoTransition
          /\ step.st.status = s.status /\ step.st.seq = s.seq
       \/ /\ step.tr \in TransitionRec /\ step.tr # NoTransition
          /\ step.tr.from = s.status /\ step.tr.to = step.st.status
          /\ step.tr.seq = s.seq + 1 /\ step.st.seq = s.seq + 1
          /\ step.st.status # "paused"

\* States of one status and number are followed by the same steps.
LEMMA FollowsSame ==
    ASSUME NEW step, NEW s, NEW t, s.status = t.status, s.seq = t.seq, Follows(step, s)
    PROVE  Follows(step, t)
  BY DEF Follows

\* A move is published with the next number (_move).
LEMMA MoveFollows ==
    ASSUME NEW s \in StateRec, NEW to \in Statuses \ {"paused"}, NEW failures \in Nat
    PROVE  Follows(Move(s, to, failures), s)
<1> DEFINE st == [status |-> to, failures |-> IF to = "up" THEN 0 ELSE failures,
                  seq |-> s.seq + 1, last |-> s.last]
           tr == [from |-> s.status, to |-> to, failures |-> failures, seq |-> s.seq + 1]
<1>1. s.status \in Statuses /\ s.seq \in Nat /\ s.last \in Nat
  BY StateFields
<1>2. Move(s, to, failures).st = st /\ Move(s, to, failures).tr = tr
  BY DEF Move
<1>3. st \in StateRec /\ tr \in TransitionRec
  BY <1>1 DEF StateRec, TransitionRec
<1>4. tr.seq # NoTransition.seq
  BY <1>1 DEF NoTransition
<1> QED BY <1>1, <1>2, <1>3, <1>4 DEF Follows

\* A step that publishes nothing.
LEMMA StaysFollows ==
    ASSUME NEW s \in StateRec
    PROVE  Follows(Stays(s), s)
  BY DEF Follows, Stays

\* Tick times and failure counts leave status and number alone.
LEMMA SeenSame ==
    ASSUME NEW s \in StateRec, NEW n \in Nat
    PROVE  /\ [s EXCEPT !.last = n] \in StateRec
           /\ [s EXCEPT !.last = n].status = s.status /\ [s EXCEPT !.last = n].seq = s.seq
           /\ [s EXCEPT !.failures = n] \in StateRec
           /\ [s EXCEPT !.failures = n].status = s.status
           /\ [s EXCEPT !.failures = n].seq = s.seq
  BY DEF StateRec

\* A closed tick moves the state on by one number or keeps it (apply_tick).
LEMMA ApplyTickFollows ==
    ASSUME NEW s \in StateRec, NEW results, NEW at \in Nat, NEW limit \in Nat, NEW quorum
    PROVE  Follows(ApplyTick(s, results, at, limit, quorum), s)
<1> DEFINE seen == [s EXCEPT !.last = at]
<1>0. seen \in StateRec /\ seen.status = s.status /\ seen.seq = s.seq
  BY SeenSame
<1> HIDE DEF seen
<1>1. /\ seen \in StateRec /\ seen.failures \in Nat /\ seen.failures + 1 \in Nat
      /\ seen.status = s.status /\ seen.seq = s.seq
  BY <1>0, StateFields
<1>2. Follows(Fail(seen, limit), seen)
  <2>1. CASE seen.status # "down" /\ seen.failures + 1 >= AtLeastOne(limit)
    <3>1. Fail(seen, limit) = Move(seen, "down", seen.failures + 1)
      BY <2>1 DEF Fail
    <3> QED BY <1>1, <3>1, MoveFollows DEF Statuses
  <2>2. CASE ~(seen.status # "down" /\ seen.failures + 1 >= AtLeastOne(limit))
    <3> DEFINE more == [seen EXCEPT !.failures = seen.failures + 1]
    <3>1. Fail(seen, limit) = Stays(more)
      BY <2>2 DEF Fail
    <3>2. more \in StateRec /\ more.status = seen.status /\ more.seq = seen.seq
      BY <1>1, SeenSame
    <3> HIDE DEF more
    <3> QED BY <3>1, <3>2, StaysFollows, FollowsSame
  <2> QED BY <2>1, <2>2
<1>3. Follows(Pass(seen), seen)
  <2>1. CASE seen.status = "up"
    <3> DEFINE none == [seen EXCEPT !.failures = 0]
    <3>1. Pass(seen) = Stays(none)
      BY <2>1 DEF Pass
    <3>2. none \in StateRec /\ none.status = seen.status /\ none.seq = seen.seq
      BY <1>1, SeenSame
    <3> HIDE DEF none
    <3> QED BY <3>1, <3>2, StaysFollows, FollowsSame
  <2>2. CASE seen.status # "up"
    <3>1. Pass(seen) = Move(seen, "up", 0)
      BY <2>2 DEF Pass
    <3> QED BY <1>1, <3>1, MoveFollows DEF Statuses
  <2> QED BY <2>1, <2>2
<1>4. Follows(Stays(s), s)
  BY StaysFollows
<1>5. Follows(Fail(seen, limit), s) /\ Follows(Pass(seen), s)
  BY <1>1, <1>2, <1>3, FollowsSame
<1> QED BY <1>4, <1>5 DEF ApplyTick, seen

\* So does the nodata timer (check_nodata).
LEMMA CheckNoDataFollows ==
    ASSUME NEW s \in StateRec, NEW now \in Nat, NEW interval \in Nat
    PROVE  Follows(CheckNoData(s, now, interval), s)
<1>1. CASE NoData(s, now, interval)
  <2>1. CheckNoData(s, now, interval) = Move(s, "nodata", s.failures)
    BY <1>1 DEF CheckNoData
  <2> QED BY <2>1, StateFields, MoveFollows DEF Statuses
<1>2. CASE ~NoData(s, now, interval)
  BY <1>2, StaysFollows DEF CheckNoData
<1> QED BY <1>1, <1>2

-----------------------------------------------------------------------------
(* The inductive invariant. *)

\* Every transition on its way or stored leaves down for up only.
LegalMessages ==
    /\ \A i \in DOMAIN lane : Legal(lane[i])
    /\ \A t \in failed : Legal(t)

\* A paused monitor reads paused (Pause, ApplyTransition).
PausedReadsPaused == row.exists /\ ~row.active => row.status = "paused"

IInv ==
    /\ TypeOK /\ LegalMessages /\ PausedReadsPaused
    /\ OneOpenIncident /\ IncidentsFollowStatus

-----------------------------------------------------------------------------
(* Types. *)

\* The fields of a row.
LEMMA RowFields ==
    ASSUME NEW r \in Row
    PROVE  /\ r.exists \in BOOLEAN /\ r.active \in BOOLEAN
           /\ r.status \in Statuses /\ r.failures \in Nat /\ r.seq \in Nat
  BY DEF Row

\* Row states (ApplyTransition, UpdateMonitor).
LEMMA RowWithSpec ==
    ASSUME row \in Row, NEW active \in BOOLEAN, NEW status \in Statuses,
           NEW failures \in Nat, NEW seq \in Nat
    PROVE  LET r == RowWith(active, status, failures, seq) IN
           /\ r \in Row /\ r.exists = row.exists /\ r.active = active
           /\ r.status = status /\ r.seq = seq
<1>1. row.exists \in BOOLEAN
  BY RowFields
<1> QED BY <1>1 DEF Row, RowWith

\* Phases of incidents, as a function over 1 .. n.
LEMMA SameDomain ==
    ASSUME NEW T, NEW s \in Seq(T), NEW f \in [DOMAIN s -> T]
    PROVE  f \in Seq(T)
<1>1. s \in [1 .. Len(s) -> T] /\ Len(s) \in Nat /\ DOMAIN s = 1 .. Len(s)
  OBVIOUS
<1> QED BY <1>1

\* The evaluator works on a state of the machine (monitor_state).
LEMMA WorkingStateType ==
    ASSUME TypeOK
    PROVE  WorkingState \in StateRec
<1>1. config.status \in Statuses /\ config.failures \in Nat /\ config.seq \in Nat
  BY RowFields DEF TypeOK
<1>2. Fresh(config.status, config.failures, config.seq) \in StateRec
  BY <1>1 DEF Fresh, StateRec, Never
<1> QED BY <1>2 DEF WorkingState, TypeOK

\* An evaluation publishes a legal transition or none (_commit).
LEMMA CommitEffect ==
    ASSUME TypeOK, NEW step, IsStep(step), Commit(step)
    PROVE  /\ mon' \in StateRec /\ amiss' \in BOOLEAN /\ (amiss => amiss')
           /\ \/ lane' = lane
              \/ \E t \in TransitionRec : Legal(t) /\ lane' = Append(lane, t)
           /\ UNCHANGED <<common, caches, failed, touched>>
<1>1. mon' = step.st /\ step.st \in StateRec /\ UNCHANGED <<common, caches, failed, touched>>
  BY DEF Commit, IsStep
<1>2. CASE step.tr = NoTransition
  BY <1>1, <1>2 DEF Commit, TypeOK
<1>3. CASE step.tr # NoTransition
  <2>1. Legal(step.tr) /\ step.tr \in TransitionRec
    BY <1>3 DEF IsStep, Legal
  <2>2. lane' = Append(lane, step.tr)
    BY <1>3 DEF Commit
  <2>3. amiss' = (amiss \/ ~row.active)
    BY <1>3 DEF Commit
  <2> QED BY <1>1, <2>1, <2>2, <2>3
<1> QED BY <1>2, <1>3

\* What the evaluator's decisions leave alone and what they publish.
LEMMA EvaluatorEffect ==
    ASSUME TypeOK, CloseTick \/ Silence
    PROVE  /\ mon' \in StateRec /\ amiss' \in BOOLEAN /\ (amiss => amiss')
           /\ \/ lane' = lane
              \/ \E t \in TransitionRec : Legal(t) /\ lane' = Append(lane, t)
           /\ UNCHANGED <<common, caches, failed, touched>>
<1>1. WorkingState \in StateRec /\ Threshold \in Nat
  BY WorkingStateType, LifecycleAssumption DEF LifecycleAssumption
<1>2. CASE CloseTick
  <2>1. PICK ok \in BOOLEAN :
          Commit(ApplyTick(WorkingState, [r \in {"region"} |-> ok], 1, Threshold, 1))
    BY <1>2 DEF CloseTick
  <2>2. IsStep(ApplyTick(WorkingState, [r \in {"region"} |-> ok], 1, Threshold, 1))
    BY <1>1, ApplyTickIsStep
  <2> QED BY <2>1, <2>2, CommitEffect
<1>3. CASE Silence
  <2>1. IsStep(CheckNoData(WorkingState, 4, 1))
    BY <1>1, CheckNoDataIsStep
  <2> QED BY <1>3, <2>1, CommitEffect DEF Silence
<1> QED BY <1>2, <1>3

-----------------------------------------------------------------------------
(* Incidents. *)

\* Closing resolves every incident (closeMonitorIncident).
LEMMA ResolvedSpec ==
    ASSUME NEW s \in Seq(Phases)
    PROVE  /\ Resolved(s) \in Seq(Phases)
           /\ DOMAIN Resolved(s) = DOMAIN s
           /\ \A i \in DOMAIN s : Resolved(s)[i] = "resolved"
<1>1. Resolved(s) \in [DOMAIN s -> Phases]
  BY LifecycleAssumption DEF LifecycleAssumption, Resolved
<1> QED BY <1>1, SameDomain DEF Resolved

\* An incident opened: the others are as they were.
LEMMA OpenedSpec ==
    ASSUME NEW s \in Seq(Phases)
    PROVE  LET n == Append(s, "investigating") IN
           /\ n \in Seq(Phases)
           /\ DOMAIN s \subseteq DOMAIN n
           /\ DOMAIN n = DOMAIN s \union {Len(s) + 1} /\ Len(s) + 1 \notin DOMAIN s
           /\ \A i \in DOMAIN s : n[i] = s[i]
           /\ n[Len(s) + 1] = "investigating"
  BY LifecycleAssumption DEF LifecycleAssumption

\* What OnTransition does to the tables (Applied, Handled).
LEMMA OnTransitionType ==
    ASSUME TypeOK, NEW t \in TransitionRec, OnTransition(t)
    PROVE  /\ row' \in Row /\ stored' \subseteq TransitionRec
           /\ incidents' \in Seq(Phases) /\ touched' \subseteq DOMAIN incidents'
           /\ amiss' \in BOOLEAN
           /\ UNCHANGED <<caches, mon>>
<1>1. amiss' \in BOOLEAN /\ UNCHANGED <<caches, mon>>
  BY DEF OnTransition
<1>2. CASE ~IsFresh(t)
  <2>1. UNCHANGED <<common, touched>>
    BY <1>2 DEF OnTransition
  <2> QED BY <1>1, <2>1 DEF TypeOK, common
<1>3. CASE IsFresh(t)
  <2>1. /\ stored' = stored \union {t} /\ row' = Applied(t) /\ incidents' = Handled(t)
        /\ touched' = {i \in touched : incidents'[i] = incidents[i]}
    BY <1>3 DEF OnTransition
  <2>2. Applied(t) \in Row
    <3>1. row \in Row /\ t.to \in Statuses /\ t.failures \in Nat /\ t.seq \in Nat
      BY DEF TypeOK, TransitionRec
    <3>2. RowWith(TRUE, t.to, t.failures, t.seq) \in Row
      BY <3>1, RowWithSpec
    <3> QED BY <3>1, <3>2 DEF Applied
  <2>3. Handled(t) \in Seq(Phases) /\ DOMAIN incidents \subseteq DOMAIN Handled(t)
    BY ResolvedSpec, OpenedSpec DEF Handled, TypeOK
  <2> QED BY <1>1, <2>1, <2>2, <2>3 DEF TypeOK
<1> QED BY <1>2, <1>3

\* A message taken from the lane, and one put on it.
LEMMA LaneTail ==
    ASSUME NEW s \in Seq(TransitionRec), s # <<>>
    PROVE  /\ Head(s) \in TransitionRec /\ Tail(s) \in Seq(TransitionRec)
           /\ (\A i \in DOMAIN s : Legal(s[i])) =>
                Legal(Head(s)) /\ \A i \in DOMAIN Tail(s) : Legal(Tail(s)[i])
<1>1. Len(s) \in Nat \ {0} /\ DOMAIN s = 1 .. Len(s) /\ Head(s) = s[1]
  OBVIOUS
<1>2. /\ Head(s) \in TransitionRec /\ Tail(s) \in Seq(TransitionRec)
      /\ DOMAIN Tail(s) = 1 .. Len(s) - 1
      /\ \A i \in 1 .. Len(s) - 1 : Tail(s)[i] = s[i + 1]
  BY <1>1
<1>3. \A i \in DOMAIN Tail(s) : Tail(s)[i] = s[i + 1] /\ i + 1 \in DOMAIN s
  BY <1>1, <1>2
<1> QED BY <1>1, <1>2, <1>3

\* A legal transition put on a lane of legal ones.
LEMMA LaneAppend ==
    ASSUME NEW s \in Seq(TransitionRec), NEW t \in TransitionRec, Legal(t),
           \A i \in DOMAIN s : Legal(s[i])
    PROVE  \A i \in DOMAIN Append(s, t) : Legal(Append(s, t)[i])
<1>1. /\ DOMAIN Append(s, t) = DOMAIN s \union {Len(s) + 1}
      /\ \A i \in DOMAIN s : Append(s, t)[i] = s[i]
      /\ Append(s, t)[Len(s) + 1] = t
  OBVIOUS
<1> QED BY <1>1

-----------------------------------------------------------------------------
(* Type correctness, messages, paused monitors. *)

\* The initial states satisfy the inductive invariant.
LEMMA InitInv == Init => IInv
<1> SUFFICES ASSUME Init PROVE IInv
  OBVIOUS
<1>1. TypeOK
  <2>1. row \in Row
    BY DEF Init, Row, Statuses
  <2>2. mon \in StateRec
    BY DEF Init, NoState, Fresh, StateRec, Statuses, Never
  <2>3. {row, snap, config} \subseteq Row
    BY <2>1 DEF Init
  <2>4. stored \subseteq TransitionRec /\ failed \subseteq TransitionRec
    BY DEF Init
  <2>5. incidents \in Seq(Phases) /\ touched \subseteq DOMAIN incidents
    BY EmptySeq DEF Init
  <2>6. lane \in Seq(TransitionRec)
    BY EmptySeq DEF Init
  <2>7. amiss \in BOOLEAN
    BY Zenon DEF Init
  <2> QED BY <2>2, <2>3, <2>4, <2>5, <2>6, <2>7 DEF TypeOK
<1>2. incidents = <<>> /\ lane = <<>> /\ failed = {} /\ touched = {}
  BY DEF Init
<1>3. row.active = TRUE /\ row.status = "pending"
  BY DEF Init
<1>4. OpenIncidents = {}
  BY <1>2 DEF OpenIncidents
<1>5. LegalMessages /\ PausedReadsPaused /\ OneOpenIncident
  BY <1>2, <1>3, <1>4 DEF LegalMessages, PausedReadsPaused, OneOpenIncident
<1>6. IncidentsFollowStatus
  BY <1>3, <1>4 DEF IncidentsFollowStatus, NoPhantomIncident, DownHasIncident
<1> QED BY <1>1, <1>5, <1>6 DEF IInv

\* A delivery handles one legal transition.
LEMMA DeliveryEffect ==
    ASSUME TypeOK, LegalMessages,
           Deliver \/ DeliverAgain \/ \E t \in failed : Retry(t)
    PROVE  /\ \E t \in TransitionRec : Legal(t) /\ OnTransition(t)
           /\ \/ lane' = lane
              \/ lane # <<>> /\ lane' = Tail(lane)
           /\ failed' \subseteq failed
<1>1. CASE Deliver
  <2>1. lane # <<>> /\ OnTransition(Head(lane)) /\ lane' = Tail(lane) /\ failed' = failed
    BY <1>1 DEF Deliver
  <2>2. Head(lane) \in TransitionRec /\ Legal(Head(lane))
    BY <2>1, LaneTail DEF TypeOK, LegalMessages
  <2> QED BY <2>1, <2>2
<1>2. CASE DeliverAgain
  <2>1. lane # <<>> /\ OnTransition(Head(lane)) /\ lane' = lane /\ failed' = failed
    BY <1>2 DEF DeliverAgain
  <2>2. Head(lane) \in TransitionRec /\ Legal(Head(lane))
    BY <2>1, LaneTail DEF TypeOK, LegalMessages
  <2> QED BY <2>1, <2>2
<1>3. CASE \E t \in failed : Retry(t)
  <2>1. PICK t \in failed : Retry(t)
    BY <1>3
  <2>2. OnTransition(t) /\ lane' = lane /\ failed' \subseteq failed
    BY <2>1 DEF Retry
  <2>3. t \in TransitionRec /\ Legal(t)
    BY <2>1 DEF TypeOK, LegalMessages
  <2> QED BY <2>2, <2>3
<1> QED BY <1>1, <1>2, <1>3

\* The lane keeps legal transitions.
LEMMA LaneStep ==
    ASSUME TypeOK, LegalMessages,
           \/ lane' = lane
           \/ lane # <<>> /\ lane' = Tail(lane)
           \/ \E t \in TransitionRec : Legal(t) /\ lane' = Append(lane, t)
    PROVE  /\ lane' \in Seq(TransitionRec)
           /\ \A i \in DOMAIN lane' : Legal(lane'[i])
<1>1. CASE lane' = lane
  BY <1>1 DEF TypeOK, LegalMessages
<1>2. CASE lane # <<>> /\ lane' = Tail(lane)
  BY <1>2, LaneTail DEF TypeOK, LegalMessages
<1>3. CASE \E t \in TransitionRec : Legal(t) /\ lane' = Append(lane, t)
  <2>1. PICK t \in TransitionRec : Legal(t) /\ lane' = Append(lane, t)
    BY <1>3
  <2> QED BY <2>1, LaneAppend DEF TypeOK, LegalMessages
<1> QED BY <1>1, <1>2, <1>3

\* Steps that leave api/common's tables alone.
LeavesCommon ==
    /\ UNCHANGED <<common, touched>> /\ amiss' \in BOOLEAN /\ (amiss => amiss')
    /\ {snap', config'} \subseteq Row /\ mon' \in StateRec /\ failed' \subseteq TransitionRec
    /\ \A t \in failed' : Legal(t)
    /\ \/ lane' = lane
       \/ lane # <<>> /\ lane' = Tail(lane)
       \/ \E t \in TransitionRec : Legal(t) /\ lane' = Append(lane, t)

\* Steps that handle a transition.
HandlesOne ==
    /\ \E t \in TransitionRec : Legal(t) /\ OnTransition(t)
    /\ lane' = lane \/ (lane # <<>> /\ lane' = Tail(lane))
    /\ failed' \subseteq failed

\* Steps of users.
ByUser == Pause \/ Resume \/ Delete \/ \E i \in DOMAIN incidents : Touch(i)

\* Every step leaves api/common's tables alone, handles one transition, or is a
\* user's.
LEMMA StepKinds ==
    ASSUME TypeOK, LegalMessages, [Next]_vars
    PROVE  LeavesCommon \/ HandlesOne \/ ByUser
<1>0. /\ {row, snap, config} \subseteq Row /\ mon \in StateRec /\ failed \subseteq TransitionRec
      /\ amiss \in BOOLEAN /\ \A t \in failed : Legal(t)
  BY DEF TypeOK, LegalMessages
<1>1. CASE CloseTick \/ Silence
  <2>1. /\ mon' \in StateRec /\ amiss' \in BOOLEAN /\ (amiss => amiss')
        /\ \/ lane' = lane
           \/ \E t \in TransitionRec : Legal(t) /\ lane' = Append(lane, t)
        /\ UNCHANGED <<common, caches, failed, touched>>
    BY <1>1, EvaluatorEffect
  <2>2. UNCHANGED <<common, touched>> /\ snap' = snap /\ config' = config /\ failed' = failed
    BY <2>1 DEF caches
  <2> QED BY <1>0, <2>1, <2>2 DEF LeavesCommon
<1>2. CASE Forget \/ Lose
  <2>1. /\ mon' = NoState /\ lane' = lane
        /\ UNCHANGED <<common, caches, failed, touched, amiss>>
    BY <1>2 DEF Forget, Lose
  <2>2. NoState \in StateRec
    BY DEF NoState, Fresh, StateRec, Statuses, Never
  <2>3. UNCHANGED <<common, touched>> /\ snap' = snap /\ config' = config /\ failed' = failed /\ amiss' = amiss
    BY <2>1 DEF caches
  <2> QED BY <1>0, <2>1, <2>2, <2>3 DEF LeavesCommon
<1>3. CASE Deliver \/ DeliverAgain \/ \E t \in failed : Retry(t)
  BY <1>3, DeliveryEffect DEF HandlesOne
<1>4. CASE DeliveryFails
  <2>1. /\ lane # <<>> /\ failed' = failed \union {Head(lane)} /\ lane' = Tail(lane)
        /\ UNCHANGED <<common, caches, mon, touched, amiss>>
    BY <1>4 DEF DeliveryFails
  <2>2. Head(lane) \in TransitionRec /\ Legal(Head(lane))
    BY <2>1, LaneTail DEF TypeOK, LegalMessages
  <2>3. UNCHANGED <<common, touched>> /\ snap' = snap /\ config' = config /\ mon' = mon /\ amiss' = amiss
    BY <2>1 DEF caches
  <2> QED BY <1>0, <2>1, <2>2, <2>3 DEF LeavesCommon
<1>5. CASE \E t \in failed : Abandon(t)
  <2>1. /\ failed' \subseteq failed /\ amiss' = TRUE /\ lane' = lane
        /\ UNCHANGED <<common, caches, mon, touched>>
    BY <1>5 DEF Abandon
  <2>2. UNCHANGED <<common, touched>> /\ snap' = snap /\ config' = config /\ mon' = mon
    BY <2>1 DEF caches
  <2>3. amiss' \in BOOLEAN /\ (amiss => amiss')
    BY <2>1, Zenon
  <2> QED BY <1>0, <2>1, <2>2, <2>3 DEF LeavesCommon
<1>6. CASE ByUser
  BY <1>6
<1>7. CASE WriteSnapshot \/ LoadSnapshot
  <2>1. /\ lane' = lane /\ mon' = mon /\ failed' = failed /\ amiss' = amiss
        /\ UNCHANGED <<common, touched>>
        /\ snap' \in {row, snap} /\ config' \in {snap, config}
    BY <1>7 DEF WriteSnapshot, LoadSnapshot
  <2> QED BY <1>0, <2>1 DEF LeavesCommon
<1>8. CASE UNCHANGED vars
  <2>1. /\ lane' = lane /\ mon' = mon /\ failed' = failed /\ amiss' = amiss
        /\ UNCHANGED <<common, touched>> /\ snap' = snap /\ config' = config
    BY <1>8 DEF vars, caches
  <2> QED BY <1>0, <2>1 DEF LeavesCommon
<1> QED BY <1>1, <1>2, <1>3, <1>4, <1>5, <1>6, <1>7, <1>8 DEF Next, ByUser

\* A user's update of an incident (UpdateIncident, AddTimeline).
LEMMA TouchType ==
    ASSUME TypeOK, NEW i \in DOMAIN incidents, Touch(i)
    PROVE  \E phase \in Phases :
             /\ MayBe(i, phase)
             /\ incidents' = [incidents EXCEPT ![i] = phase]
             /\ incidents' \in Seq(Phases) /\ DOMAIN incidents' = DOMAIN incidents
             /\ touched' = touched \union {i}
<1>1. PICK phase \in Phases :
        MayBe(i, phase) /\ incidents' = [incidents EXCEPT ![i] = phase]
  BY DEF Touch
<1>2. touched' = touched \union {i}
  BY DEF Touch
<1>3. incidents \in Seq(Phases) /\ DOMAIN incidents = 1 .. Len(incidents)
  BY DEF TypeOK
<1>4. incidents' \in [DOMAIN incidents -> Phases]
  BY <1>1, <1>3
<1>5. incidents' \in Seq(Phases) /\ DOMAIN incidents' = DOMAIN incidents
  BY <1>3, <1>4, SameDomain
<1> QED BY <1>1, <1>2, <1>5

\* What users' steps leave of types.
LEMMA ByUserType ==
    ASSUME TypeOK, ByUser
    PROVE  /\ row' \in Row /\ stored' = stored
           /\ incidents' \in Seq(Phases) /\ touched' \subseteq DOMAIN incidents'
           /\ lane' = lane /\ failed' = failed /\ mon' = mon
           /\ snap' = snap /\ config' = config
           /\ amiss' \in BOOLEAN
<1>0. /\ row \in Row /\ incidents \in Seq(Phases) /\ touched \subseteq DOMAIN incidents
      /\ row.exists \in BOOLEAN /\ row.status \in Statuses /\ row.failures \in Nat /\ row.seq \in Nat
  BY RowFields DEF TypeOK
<1>1. CASE Pause
  <2>1. /\ row' = RowWith(FALSE, "paused", 0, row.seq) /\ incidents' = Resolved(incidents)
        /\ touched' \subseteq touched /\ stored' = stored /\ lane' = lane /\ failed' = failed
        /\ mon' = mon /\ snap' = snap /\ config' = config
    BY <1>1 DEF Pause, Paused, Edited, caches
  <2>2. "paused" \in Statuses
    BY DEF Statuses
  <2>3. row' \in Row
    BY <1>0, <2>1, <2>2, RowWithSpec
  <2>4. incidents' \in Seq(Phases) /\ touched' \subseteq DOMAIN incidents'
    BY <1>0, <2>1, ResolvedSpec
  <2>5. amiss' \in BOOLEAN
    BY <1>1, Zenon DEF Pause
  <2> QED BY <2>1, <2>3, <2>4, <2>5
<1>2. CASE Resume
  <2>1. /\ row' = RowWith(TRUE, "pending", 0, row.seq) /\ incidents' = incidents
        /\ touched' = touched /\ stored' = stored /\ lane' = lane /\ failed' = failed
        /\ mon' = mon /\ snap' = snap /\ config' = config
    BY <1>2 DEF Resume, Edited, caches
  <2>2. "pending" \in Statuses
    BY DEF Statuses
  <2>3. row' \in Row
    BY <1>0, <2>1, <2>2, RowWithSpec
  <2>5. amiss' \in BOOLEAN
    BY <1>2, Zenon DEF Resume
  <2> QED BY <1>0, <2>1, <2>3, <2>5
<1>3. CASE Delete
  <2>1. /\ row' = [RowWith(FALSE, row.status, row.failures, row.seq) EXCEPT !.exists = FALSE]
        /\ incidents' = incidents /\ amiss' = amiss
        /\ touched' = touched /\ stored' = stored /\ lane' = lane /\ failed' = failed
        /\ mon' = mon /\ snap' = snap /\ config' = config
    BY <1>3 DEF Delete, Edited, caches
  <2>2. row' \in Row
    BY <1>0, <2>1 DEF Row, RowWith
  <2> QED BY <1>0, <2>1, <2>2 DEF TypeOK
<1>4. CASE \E i \in DOMAIN incidents : Touch(i)
  <2>1. PICK i \in DOMAIN incidents : Touch(i)
    BY <1>4
  <2>2. /\ row' = row /\ stored' = stored /\ lane' = lane /\ failed' = failed /\ mon' = mon
        /\ snap' = snap /\ config' = config /\ amiss' = amiss
    BY <2>1 DEF Touch, caches
  <2>3. incidents' \in Seq(Phases) /\ touched' \subseteq DOMAIN incidents'
    BY <1>0, <2>1, TouchType
  <2> QED BY <1>0, <2>2, <2>3 DEF TypeOK
<1> QED BY <1>1, <1>2, <1>3, <1>4 DEF ByUser

\* Types and messages are kept by every step.
LEMMA TypeStep ==
    ASSUME TypeOK, LegalMessages, [Next]_vars
    PROVE  TypeOK' /\ LegalMessages'
<1>0. /\ {row, snap, config} \subseteq Row /\ stored \subseteq TransitionRec
      /\ failed \subseteq TransitionRec /\ incidents \in Seq(Phases)
      /\ touched \subseteq DOMAIN incidents /\ mon \in StateRec
      /\ lane \in Seq(TransitionRec) /\ \A t \in failed : Legal(t)
  BY DEF TypeOK, LegalMessages
<1>1. CASE LeavesCommon
  <2>1. row' = row /\ stored' = stored /\ incidents' = incidents /\ touched' = touched
    BY <1>1 DEF LeavesCommon, common
  <2>2. lane' \in Seq(TransitionRec) /\ \A i \in DOMAIN lane' : Legal(lane'[i])
    BY <1>1, LaneStep DEF LeavesCommon
  <2>3. /\ {snap', config'} \subseteq Row /\ mon' \in StateRec /\ failed' \subseteq TransitionRec
        /\ (\A t \in failed' : Legal(t)) /\ amiss' \in BOOLEAN
    BY <1>1 DEF LeavesCommon
  <2>4. TypeOK'
    BY <1>0, <2>1, <2>2, <2>3 DEF TypeOK
  <2> QED BY <2>2, <2>3, <2>4 DEF LegalMessages
<1>2. CASE HandlesOne
  <2>1. PICK t \in TransitionRec : Legal(t) /\ OnTransition(t)
    BY <1>2 DEF HandlesOne
  <2>2. /\ row' \in Row /\ stored' \subseteq TransitionRec
        /\ incidents' \in Seq(Phases) /\ touched' \subseteq DOMAIN incidents'
        /\ amiss' \in BOOLEAN /\ UNCHANGED <<caches, mon>>
    BY <2>1, OnTransitionType
  <2>3. snap' = snap /\ config' = config /\ mon' = mon
    BY <2>2 DEF caches
  <2>4. lane' \in Seq(TransitionRec) /\ \A i \in DOMAIN lane' : Legal(lane'[i])
    BY <1>2, LaneStep DEF HandlesOne
  <2>5. failed' \subseteq failed
    BY <1>2 DEF HandlesOne
  <2>6. TypeOK'
    BY <1>0, <2>2, <2>3, <2>4, <2>5 DEF TypeOK
  <2> QED BY <1>0, <2>4, <2>5, <2>6 DEF LegalMessages
<1>3. CASE ByUser
  <2>1. TypeOK'
    BY <1>0, <1>3, ByUserType DEF TypeOK
  <2>2. lane' = lane /\ failed' = failed
    BY <1>3, ByUserType
  <2> QED BY <2>1, <2>2 DEF LegalMessages
<1> QED BY <1>1, <1>2, <1>3, StepKinds

\* The types of everything the two services keep, of one monitor through
\* pauses, lost and repeated messages and losses of Valkey.
THEOREM TypeCorrect == Spec => []TypeOK
<1>1. Init => TypeOK /\ LegalMessages
  BY InitInv DEF IInv
<1>2. (TypeOK /\ LegalMessages) /\ [Next]_vars => (TypeOK /\ LegalMessages)'
  BY TypeStep
<1> QED BY <1>1, <1>2, PTL DEF Spec

-----------------------------------------------------------------------------
(* Incidents and status. *)

\* What a transition does to the open incidents.
Opens(t) == t.to = "down" /\ OpenIncidents = {} /\ \E n : OpenIncidents' = {n}
Closes(t) == t.to = "up" /\ OpenIncidents' = {}
Keeps(t) ==
    /\ OpenIncidents' = OpenIncidents /\ touched' = touched
    /\ t.to = "down" => OpenIncidents # {}
    /\ ~(t.from = "down" /\ t.to = "up")

\* A fresh transition opens an incident, closes them, or keeps them as they are
\* (OnTransition).
LEMMA HandledEffect ==
    ASSUME TypeOK, NEW t \in TransitionRec, OnTransition(t), IsFresh(t)
    PROVE  row' = Applied(t) /\ (Opens(t) \/ Closes(t) \/ Keeps(t))
<1>1. /\ row' = Applied(t) /\ incidents' = Handled(t)
      /\ touched' = {i \in touched : incidents'[i] = incidents[i]}
  BY DEF OnTransition
<1>2. incidents \in Seq(Phases)
  BY DEF TypeOK
<1>3. CASE t.to = "down" /\ OpenIncidents = {}
  <2>1. incidents' = Append(incidents, "investigating")
    BY <1>1, <1>3 DEF Handled
  <2>2. /\ DOMAIN incidents' = DOMAIN incidents \union {Len(incidents) + 1}
        /\ \A i \in DOMAIN incidents : incidents'[i] = incidents[i]
        /\ incidents'[Len(incidents) + 1] = "investigating"
    BY <1>2, <2>1, OpenedSpec
  <2>3. \A i \in DOMAIN incidents : incidents[i] = "resolved"
    BY <1>3 DEF OpenIncidents, IsOpen
  <2>4. OpenIncidents' = {Len(incidents) + 1}
    BY <2>2, <2>3 DEF OpenIncidents, IsOpen
  <2> QED BY <1>1, <1>3, <2>4 DEF Opens
<1>4. CASE t.to # "down" /\ t.from = "down" /\ t.to = "up"
  <2>1. incidents' = Resolved(incidents)
    BY <1>1, <1>4 DEF Handled
  <2>2. OpenIncidents' = {}
    BY <1>2, <2>1, ResolvedSpec DEF OpenIncidents, IsOpen
  <2> QED BY <1>1, <1>4, <2>2 DEF Closes
<1>5. CASE ~(t.to = "down" /\ OpenIncidents = {}) /\ ~(t.to # "down" /\ t.from = "down" /\ t.to = "up")
  <2>1. incidents' = incidents
    BY <1>1, <1>5 DEF Handled
  <2>2. touched' = touched
    BY <1>1, <2>1
  <2>3. OpenIncidents' = OpenIncidents
    BY <2>1 DEF OpenIncidents, IsOpen
  <2>4. (t.to = "down" => OpenIncidents # {}) /\ ~(t.from = "down" /\ t.to = "up")
    BY <1>5
  <2> QED BY <1>1, <2>2, <2>3, <2>4 DEF Keeps
<1> QED BY <1>3, <1>4, <1>5

\* The row after a transition.
LEMMA AppliedSpec ==
    ASSUME TypeOK, NEW t \in TransitionRec
    PROVE  /\ Applied(t).exists = row.exists /\ Applied(t).active = row.active
           /\ ~Applies(t) => Applied(t) = row
           /\ Applies(t) => Applied(t).status = t.to /\ Applied(t).seq = t.seq
<1>1. row \in Row /\ row.active \in BOOLEAN /\ row.status \in Statuses
      /\ t.to \in Statuses /\ t.failures \in Nat /\ t.seq \in Nat
  BY RowFields DEF TypeOK, TransitionRec
<1>2. CASE Applies(t)
  <2>1. Applied(t) = RowWith(TRUE, t.to, t.failures, t.seq) /\ row.active = TRUE
    BY <1>1, <1>2 DEF Applied, Applies
  <2>2. Applied(t).status = t.to /\ Applied(t).seq = t.seq /\ Applied(t).exists = row.exists
    BY <2>1 DEF RowWith
  <2>3. Applied(t).active = TRUE
    BY <2>1 DEF RowWith
  <2> QED BY <1>2, <2>1, <2>2, <2>3
<1>3. CASE ~Applies(t)
  BY <1>3 DEF Applied
<1> QED BY <1>2, <1>3

\* What users do to the row and the open incidents.
LEMMA PauseSpec ==
    ASSUME TypeOK, Pause
    PROVE  row'.exists = row.exists /\ row'.active = FALSE /\ row'.status = "paused" /\ OpenIncidents' = {}
<1>1. row \in Row /\ incidents \in Seq(Phases) /\ row.seq \in Nat /\ "paused" \in Statuses
  BY RowFields DEF TypeOK, Statuses
<1>2. row' = RowWith(FALSE, "paused", 0, row.seq) /\ incidents' = Resolved(incidents)
  BY DEF Pause, Paused
<1>3. OpenIncidents' = {}
  BY <1>1, <1>2, ResolvedSpec DEF OpenIncidents, IsOpen
<1>4. row'.exists = row.exists /\ row'.active = FALSE /\ row'.status = "paused"
  BY <1>2 DEF RowWith
<1> QED BY <1>3, <1>4

\* A resumed monitor is pending and keeps its incidents.
LEMMA ResumeSpec ==
    ASSUME TypeOK, Resume
    PROVE  /\ row.exists /\ ~row.active /\ row'.exists = row.exists
           /\ row'.active = TRUE /\ row'.status = "pending"
           /\ OpenIncidents' = OpenIncidents /\ touched' = touched /\ (amiss => amiss')
<1>1. row \in Row /\ row.seq \in Nat /\ "pending" \in Statuses
  BY RowFields DEF TypeOK, Statuses
<1>2. /\ row' = RowWith(TRUE, "pending", 0, row.seq) /\ incidents' = incidents /\ touched' = touched
      /\ ~row.active /\ row.exists
  BY DEF Resume, Edited
<1>3. OpenIncidents' = OpenIncidents
  BY <1>2 DEF OpenIncidents, IsOpen
<1>4. row'.exists = row.exists /\ row'.active = TRUE /\ row'.status = "pending"
  BY <1>2 DEF RowWith
<1>5. amiss => amiss'
  BY Zenon DEF Resume
<1> QED BY <1>2, <1>3, <1>4, <1>5

\* A deleted monitor is gone.
LEMMA DeleteSpec ==
    ASSUME TypeOK, Delete
    PROVE  ~row'.exists /\ row'.status = row.status
<1>1. row' = [RowWith(FALSE, row.status, row.failures, row.seq) EXCEPT !.exists = FALSE]
  BY DEF Delete
<1> QED BY <1>1 DEF RowWith

\* A user's update opens its own incident at most, and none beside an open one
\* of a monitor there is.
LEMMA TouchSpec ==
    ASSUME TypeOK, NEW i \in DOMAIN incidents, Touch(i)
    PROVE  /\ row' = row /\ amiss' = amiss /\ touched' = touched \union {i}
           /\ OpenIncidents' \subseteq OpenIncidents \union {i}
           /\ row.exists => OpenIncidents' \ {i} = {} \/ i \notin OpenIncidents'
<1>1. PICK phase \in Phases :
        /\ MayBe(i, phase) /\ incidents' = [incidents EXCEPT ![i] = phase]
        /\ touched' = touched \union {i}
  BY TouchType
<1>2. row' = row /\ amiss' = amiss
  BY DEF Touch
<1>3. DOMAIN incidents' = DOMAIN incidents /\ incidents'[i] = phase
      /\ \A j \in DOMAIN incidents \ {i} : incidents'[j] = incidents[j]
  BY <1>1
<1>4. OpenIncidents' \subseteq OpenIncidents \union {i}
  BY <1>3 DEF OpenIncidents, IsOpen
<1>5. ASSUME row.exists, i \in OpenIncidents' PROVE OpenIncidents' \ {i} = {}
  <2>1. phase # "resolved"
    BY <1>3, <1>5 DEF OpenIncidents, IsOpen
  <2>2. OpenIncidents \subseteq {i}
    BY <1>1, <1>5, <2>1 DEF MayBe
  <2> QED BY <1>4, <2>2
<1> QED BY <1>1, <1>2, <1>4, <1>5

\* The safety invariants are kept by every step.
LEMMA CommonStep ==
    ASSUME TypeOK, LeavesCommon, PausedReadsPaused, OneOpenIncident, IncidentsFollowStatus
    PROVE  PausedReadsPaused' /\ OneOpenIncident' /\ IncidentsFollowStatus'
<1>1. row' = row /\ incidents' = incidents /\ touched' = touched /\ (amiss => amiss')
  BY DEF LeavesCommon, common
<1>2. OpenIncidents' = OpenIncidents
  BY <1>1 DEF OpenIncidents, IsOpen
<1>3. PausedReadsPaused' /\ OneOpenIncident'
  BY <1>1, <1>2 DEF PausedReadsPaused, OneOpenIncident
<1>4. NoPhantomIncident' <=> NoPhantomIncident
  BY <1>1, <1>2 DEF NoPhantomIncident
<1>5. DownHasIncident' <=> DownHasIncident
  BY <1>1, <1>2 DEF DownHasIncident
<1>6. IncidentsFollowStatus'
  BY <1>1, <1>4, <1>5, Zenon DEF IncidentsFollowStatus
<1> QED BY <1>3, <1>6

\* Handling a transition keeps one open incident, and incidents in line with
\* the status.
LEMMA HandlesStep ==
    ASSUME TypeOK, HandlesOne, PausedReadsPaused, OneOpenIncident, IncidentsFollowStatus
    PROVE  PausedReadsPaused' /\ OneOpenIncident' /\ IncidentsFollowStatus'
<1>1. PICK t \in TransitionRec : Legal(t) /\ OnTransition(t)
  BY DEF HandlesOne
<1>2. amiss' = (amiss \/ OutOfStep(t))
  BY <1>1 DEF OnTransition
<1>3. CASE ~IsFresh(t)
  <2>1. row' = row /\ incidents' = incidents /\ touched' = touched
    BY <1>1, <1>3 DEF OnTransition, common
  <2>2. OpenIncidents' = OpenIncidents
    BY <2>1 DEF OpenIncidents, IsOpen
  <2>3. PausedReadsPaused' /\ OneOpenIncident'
    BY <2>1, <2>2 DEF PausedReadsPaused, OneOpenIncident
  <2>4. NoPhantomIncident' <=> NoPhantomIncident
    BY <2>1, <2>2 DEF NoPhantomIncident
  <2>5. DownHasIncident' <=> DownHasIncident
    BY <2>1, <2>2 DEF DownHasIncident
  <2>6. ~amiss' => ~amiss
    BY <1>2, Zenon
  <2>7. IncidentsFollowStatus'
    BY <2>4, <2>5, <2>6, Zenon DEF IncidentsFollowStatus
  <2> QED BY <2>3, <2>7
<1>4. CASE IsFresh(t)
  <2>1. row' = Applied(t) /\ (Opens(t) \/ Closes(t) \/ Keeps(t))
    BY <1>1, <1>4, HandledEffect
  <2>2. /\ row'.exists = row.exists /\ row'.active = row.active
        /\ ~Applies(t) => row' = row
        /\ Applies(t) => row'.status = t.to
    BY <2>1, AppliedSpec
  <2>3. row.exists
    BY <1>4 DEF IsFresh
  <2>4. PausedReadsPaused'
    BY <2>2 DEF PausedReadsPaused, Applies
  <2>5. OneOpenIncident'
    BY <2>1, <2>3 DEF OneOpenIncident, Opens, Closes, Keeps
  <2>6. ASSUME ~amiss' PROVE NoPhantomIncident' /\ DownHasIncident'
    <3>1. ~amiss /\ ~OutOfStep(t)
      BY <1>2, <2>6, Zenon
    <3>2. Applies(t) /\ row.status = t.from
      BY <1>4, <3>1 DEF OutOfStep, Applies
    <3>3. NoPhantomIncident /\ DownHasIncident
      BY <3>1 DEF IncidentsFollowStatus
    <3>4. row'.status = t.to
      BY <2>2, <3>2
    <3>5. t.from = "down" => t.to = "up"
      BY <1>1 DEF Legal
    <3>6. NoPhantomIncident'
      <4>1. CASE Opens(t)
        BY <3>4, <4>1 DEF Opens, NoPhantomIncident
      <4>2. CASE Closes(t)
        BY <4>2 DEF Closes, NoPhantomIncident
      <4>3. CASE Keeps(t)
        BY <2>3, <3>2, <3>3, <3>4, <3>5, <4>3 DEF Keeps, NoPhantomIncident
      <4> QED BY <2>1, <4>1, <4>2, <4>3
    <3>7. DownHasIncident'
      <4>1. CASE Opens(t)
        BY <4>1 DEF Opens, DownHasIncident
      <4>2. CASE Closes(t)
        BY <3>4, <4>2 DEF Closes, DownHasIncident
      <4>3. CASE Keeps(t)
        BY <3>4, <4>3 DEF Keeps, DownHasIncident
      <4> QED BY <2>1, <4>1, <4>2, <4>3
    <3> QED BY <3>6, <3>7
  <2> QED BY <2>4, <2>5, <2>6 DEF IncidentsFollowStatus
<1> QED BY <1>3, <1>4

\* So do the users' steps.
LEMMA UserStep ==
    ASSUME TypeOK, ByUser, PausedReadsPaused, OneOpenIncident, IncidentsFollowStatus
    PROVE  PausedReadsPaused' /\ OneOpenIncident' /\ IncidentsFollowStatus'
<1>1. CASE Pause
  <2>1. row'.status = "paused" /\ OpenIncidents' = {}
    BY <1>1, PauseSpec
  <2> QED BY <2>1 DEF PausedReadsPaused, OneOpenIncident, IncidentsFollowStatus,
                      NoPhantomIncident, DownHasIncident
<1>2. CASE Resume
  <2>1. /\ row.exists /\ ~row.active /\ row'.exists = row.exists
        /\ row'.active = TRUE /\ row'.status = "pending"
        /\ OpenIncidents' = OpenIncidents /\ touched' = touched /\ (amiss => amiss')
    BY <1>2, ResumeSpec
  <2>2. PausedReadsPaused'
    BY <2>1 DEF PausedReadsPaused
  <2>3. OneOpenIncident'
    BY <2>1 DEF OneOpenIncident
  <2>4. row.status # "down"
    BY <2>1 DEF PausedReadsPaused
  <2>5. DownHasIncident'
    BY <2>1 DEF DownHasIncident
  <2>6. NoPhantomIncident => NoPhantomIncident'
    BY <2>1, <2>4 DEF NoPhantomIncident
  <2>7. ~amiss' => ~amiss
    BY <2>1, Zenon
  <2>8. IncidentsFollowStatus'
    BY <2>5, <2>6, <2>7, Zenon DEF IncidentsFollowStatus
  <2> QED BY <2>2, <2>3, <2>8
<1>3. CASE Delete
  <2>1. ~row'.exists
    BY <1>3, DeleteSpec
  <2> QED BY <2>1 DEF PausedReadsPaused, OneOpenIncident, IncidentsFollowStatus,
                      NoPhantomIncident, DownHasIncident
<1>4. CASE \E i \in DOMAIN incidents : Touch(i)
  <2>1. PICK i \in DOMAIN incidents : Touch(i)
    BY <1>4
  <2>2. /\ row' = row /\ amiss' = amiss /\ touched' = touched \union {i}
        /\ OpenIncidents' \subseteq OpenIncidents \union {i}
        /\ row.exists => OpenIncidents' \ {i} = {} \/ i \notin OpenIncidents'
    BY <2>1, TouchSpec
  <2>3. PausedReadsPaused'
    BY <2>2 DEF PausedReadsPaused
  <2>4. OneOpenIncident'
    BY <2>2 DEF OneOpenIncident
  <2>5. DownHasIncident'
    BY <2>2 DEF DownHasIncident
  <2>6. NoPhantomIncident => NoPhantomIncident'
    BY <2>2 DEF NoPhantomIncident
  <2>7. IncidentsFollowStatus'
    BY <2>2, <2>5, <2>6, Zenon DEF IncidentsFollowStatus
  <2> QED BY <2>3, <2>4, <2>7
<1> QED BY <1>1, <1>2, <1>3, <1>4 DEF ByUser

\* The inductive invariant.
LEMMA Step == IInv /\ [Next]_vars => IInv'
<1> SUFFICES ASSUME IInv, [Next]_vars PROVE IInv'
  OBVIOUS
<1>1. TypeOK' /\ LegalMessages'
  BY TypeStep DEF IInv
<1>2. PausedReadsPaused' /\ OneOpenIncident' /\ IncidentsFollowStatus'
  BY StepKinds, CommonStep, HandlesStep, UserStep DEF IInv
<1> QED BY <1>1, <1>2 DEF IInv

\* The inductive invariant holds in every reachable state.
LEMMA Inductive == Spec => []IInv
BY InitInv, Step, PTL DEF Spec

-----------------------------------------------------------------------------
(* Theorems. *)

\* However transitions are delayed, repeated or retried, and whatever users do
\* to incidents, a monitor has one open auto-incident at most (OnTransition).
THEOREM OneOpen == Spec => []OneOpenIncident
<1>1. IInv => OneOpenIncident
  BY DEF IInv
<1> QED BY <1>1, Inductive, PTL

\* While no transition was lost, out of step or crossed a pause, incidents are
\* open exactly while the monitor is down (OnTransition, UpdateMonitor).
THEOREM IncidentsFollow == Spec => []IncidentsFollowStatus
<1>1. IInv => IncidentsFollowStatus
  BY DEF IInv
<1> QED BY <1>1, Inductive, PTL

\* No late or repeated transition rolls a status back (ApplyTransition).
THEOREM StatusMovesForward == Spec => StatusNeverRollsBack
<1> DEFINE Forward == row'.status # row.status =>
                        row'.seq > row.seq \/ row'.active # row.active
<1>1. ASSUME IInv, [Next]_vars PROVE Forward
  <2>1. TypeOK /\ LegalMessages
    BY <1>1 DEF IInv
  <2>2. CASE LeavesCommon
    BY <2>2 DEF LeavesCommon, common
  <2>3. CASE HandlesOne
    <3>1. PICK t \in TransitionRec : OnTransition(t)
      BY <2>3 DEF HandlesOne
    <3>2. row' = row \/ row' = Applied(t)
      BY <3>1 DEF OnTransition, common
    <3>3. Applies(t) => Applied(t).seq > row.seq
      <4>1. row.seq \in Nat /\ t.seq \in Nat
        BY <2>1, RowFields DEF TypeOK, TransitionRec
      <4> QED BY <2>1, <4>1, AppliedSpec DEF Applies
    <3>4. ~Applies(t) => Applied(t) = row
      BY <2>1, AppliedSpec
    <3> QED BY <3>2, <3>3, <3>4
  <2>4. CASE ByUser
    <3>1. CASE Pause
      <4>1. row.active /\ ~row'.active
        BY <2>1, <3>1, PauseSpec DEF Pause
      <4> QED BY <4>1
    <3>2. CASE Resume
      <4>1. ~row.active /\ row'.active
        BY <2>1, <3>2, ResumeSpec
      <4> QED BY <4>1
    <3>3. CASE Delete
      BY <2>1, <3>3, DeleteSpec
    <3>4. CASE \E i \in DOMAIN incidents : Touch(i)
      BY <3>4 DEF Touch
    <3> QED BY <2>4, <3>1, <3>2, <3>3, <3>4 DEF ByUser
  <2> QED BY <1>1, <2>1, <2>2, <2>3, <2>4, StepKinds
<1>2. IInv /\ [Next]_vars => [Forward]_vars
  BY <1>1
<1> QED BY <1>2, Inductive, PTL DEF Spec, StatusNeverRollsBack

-----------------------------------------------------------------------------
(* Agreement of the two services. *)

\* The messages U, ordered by their numbers, lead from status from at number lo
\* to status to at number hi: one for every number, each leaving the status the
\* one before it entered.
IsChain(U, from, lo, to, hi) ==
    /\ lo <= hi
    /\ lo = hi => from = to
    /\ \A n \in lo + 1 .. hi : \E t \in U : t.seq = n
    /\ \A t \in U :
         /\ lo < t.seq /\ t.seq <= hi
         /\ t.seq = lo + 1 => t.from = from
         /\ t.seq = hi => t.to = to
         /\ \A u \in U : /\ u.seq = t.seq => u = t
                         /\ u.seq = t.seq + 1 => u.from = t.to

\* Nothing on its way leads from a status to itself.
LEMMA ChainEmpty ==
    ASSUME NEW from, NEW lo \in Nat
    PROVE  IsChain({}, from, lo, from, lo)
  BY DEF IsChain

\* A new transition leaves the status the chain leads to, with the next number.
LEMMA ChainGrows ==
    ASSUME NEW U, \A u \in U : u.seq \in Nat,
           NEW from, NEW lo \in Nat, NEW to, NEW hi \in Nat, NEW tr,
           IsChain(U, from, lo, to, hi), tr.from = to, tr.seq = hi + 1
    PROVE  IsChain(U \union {tr}, from, lo, tr.to, tr.seq)
<1>1. lo <= tr.seq /\ lo # tr.seq
  BY DEF IsChain
<1>2. ASSUME NEW n \in lo + 1 .. tr.seq PROVE \E t \in U \union {tr} : t.seq = n
  <2>1. CASE n = tr.seq
    BY <2>1
  <2>2. CASE n # tr.seq
    <3>1. n \in lo + 1 .. hi
      BY <2>2
    <3> QED BY <3>1 DEF IsChain
  <2> QED BY <2>1, <2>2
<1>3. ASSUME NEW t \in U
      PROVE  /\ lo < t.seq /\ t.seq < tr.seq
             /\ t.seq = lo + 1 => t.from = from
             /\ tr.seq = t.seq + 1 => tr.from = t.to
  BY DEF IsChain
<1>4. tr.seq = lo + 1 => tr.from = from
  BY DEF IsChain
<1>5. ASSUME NEW t \in U, NEW u \in U
      PROVE  /\ u.seq = t.seq => u = t
             /\ u.seq = t.seq + 1 => u.from = t.to
  BY DEF IsChain
<1>6. ASSUME NEW t \in U \union {tr}
      PROVE  /\ lo < t.seq /\ t.seq <= tr.seq
             /\ t.seq = lo + 1 => t.from = from
             /\ t.seq = tr.seq => t.to = tr.to
  BY <1>1, <1>3, <1>4
<1>7. ASSUME NEW t \in U \union {tr}, NEW u \in U \union {tr}
      PROVE  /\ u.seq = t.seq => u = t
             /\ u.seq = t.seq + 1 => u.from = t.to
  BY <1>3, <1>5
<1> QED BY <1>1, <1>2, <1>6, <1>7 DEF IsChain

\* The oldest transition of a chain brings its start to the next number.
LEMMA ChainShrinks ==
    ASSUME NEW U, \A u \in U : u.seq \in Nat,
           NEW from, NEW lo \in Nat, NEW to, NEW hi \in Nat, NEW t \in U,
           IsChain(U, from, lo, to, hi), t.seq = lo + 1
    PROVE  IsChain(U \ {t}, t.to, t.seq, to, hi)
<1>1. t.seq <= hi /\ (t.seq = hi => t.to = to)
  BY DEF IsChain
<1>2. ASSUME NEW n \in t.seq + 1 .. hi PROVE \E u \in U \ {t} : u.seq = n
  <2>1. n \in lo + 1 .. hi /\ n # t.seq
    OBVIOUS
  <2> QED BY <2>1 DEF IsChain
<1>3. ASSUME NEW u \in U \ {t}
      PROVE  /\ t.seq < u.seq /\ u.seq <= hi
             /\ u.seq = t.seq + 1 => u.from = t.to
             /\ u.seq = hi => u.to = to
             /\ \A w \in U \ {t} : /\ w.seq = u.seq => w = u
                                   /\ w.seq = u.seq + 1 => w.from = u.to
  BY DEF IsChain
<1> QED BY <1>1, <1>2, <1>3 DEF IsChain

\* A later one of a chain is taken before the oldest: that one stays behind.
LEMMA ChainSkips ==
    ASSUME NEW U, \A u \in U : u.seq \in Nat,
           NEW from, NEW lo \in Nat, NEW to, NEW hi \in Nat, NEW t \in U,
           IsChain(U, from, lo, to, hi), t.seq # lo + 1
    PROVE  \E u \in U \ {t} : u.seq <= t.seq
<1>1. lo < t.seq /\ t.seq <= hi
  BY DEF IsChain
<1>2. lo + 1 \in lo + 1 .. hi
  BY <1>1
<1>3. PICK u \in U : u.seq = lo + 1
  BY <1>2 DEF IsChain
<1> QED BY <1>1, <1>3

\* The messages of a lane.
LEMMA LaneMessages ==
    ASSUME NEW s \in Seq(TransitionRec)
    PROVE  /\ Range(s) \subseteq TransitionRec
           /\ Range(s) = {} <=> s = <<>>
           /\ s # <<>> => Range(s) = Range(Tail(s)) \union {Head(s)}
           /\ \A t : Range(Append(s, t)) = Range(s) \union {t}
<1>1. Len(s) \in Nat /\ DOMAIN s = 1 .. Len(s) /\ \A i \in 1 .. Len(s) : s[i] \in TransitionRec
  OBVIOUS
<1>2. Range(s) \subseteq TransitionRec
  BY <1>1 DEF Range
<1>3. Range(s) = {} <=> s = <<>>
  <2>1. CASE s = <<>>
    BY <1>1, <2>1 DEF Range
  <2>2. CASE s # <<>>
    <3>1. 1 \in DOMAIN s
      BY <1>1, <2>2
    <3> QED BY <2>2, <3>1 DEF Range
  <2> QED BY <2>1, <2>2
<1>4. ASSUME s # <<>> PROVE Range(s) = Range(Tail(s)) \union {Head(s)}
  <2>1. /\ Len(s) \in Nat \ {0} /\ Head(s) = s[1] /\ DOMAIN Tail(s) = 1 .. Len(s) - 1
        /\ \A i \in 1 .. Len(s) - 1 : Tail(s)[i] = s[i + 1]
    BY <1>1, <1>4
  <2>2. ASSUME NEW i \in DOMAIN s PROVE s[i] \in Range(Tail(s)) \union {Head(s)}
    <3>1. CASE i = 1
      BY <2>1, <3>1
    <3>2. CASE i # 1
      <4>1. i - 1 \in 1 .. Len(s) - 1 /\ (i - 1) + 1 = i
        BY <1>1, <2>1, <3>2
      <4>2. Tail(s)[i - 1] = s[i] /\ i - 1 \in DOMAIN Tail(s)
        BY <2>1, <4>1
      <4> QED BY <4>2 DEF Range
    <3> QED BY <3>1, <3>2
  <2>3. ASSUME NEW i \in DOMAIN Tail(s) PROVE Tail(s)[i] \in Range(s)
    <3>1. i + 1 \in DOMAIN s /\ Tail(s)[i] = s[i + 1]
      BY <1>1, <2>1
    <3> QED BY <3>1 DEF Range
  <2>4. Head(s) \in Range(s)
    BY <1>1, <2>1 DEF Range
  <2> QED BY <2>2, <2>3, <2>4 DEF Range
<1>5. ASSUME NEW t PROVE Range(Append(s, t)) = Range(s) \union {t}
  <2>1. /\ DOMAIN Append(s, t) = 1 .. Len(s) + 1
        /\ \A i \in 1 .. Len(s) : Append(s, t)[i] = s[i]
        /\ Append(s, t)[Len(s) + 1] = t
    BY <1>1, AppendProperties
  <2> QED BY <1>1, <2>1 DEF Range
<1> QED BY <1>2, <1>3, <1>4, <1>5

-----------------------------------------------------------------------------
(* The invariant. *)

\* Every message in the lane or waiting for a retry.
Messages == Range(lane) \union failed

\* Nothing was out of step and Valkey kept its keys.
Good == ~amiss /\ spent.losses = 0

\* Losses of Valkey are counted.
Counted == "losses" \in DOMAIN spent /\ spent.losses \in Nat

\* Only a paused monitor reads paused; copies of the row are not ahead of it.
Plain ==
    /\ row.active => row.exists
    /\ \A c \in {row, snap, config} : c.active => c.status # "paused"
    /\ mon # NoState => mon.status # "paused"
    /\ \A t \in Messages : t.to # "paused"
    /\ snap.seq <= row.seq /\ config.seq <= row.seq

\* Messages that are not stored yet; one that is not ahead of the row will be
\* out of step.
Unapplied == Messages \ stored
Doomed == \E t \in Unapplied : t.seq <= row.seq

\* They lead from the row's status to the evaluator's.
Chain == IsChain(Unapplied, row.status, row.seq, mon.status, mon.seq)

\* A paused monitor, and one without working state, has nothing on its way.
Quiet == ~row.active \/ mon = NoState => lane = <<>> /\ failed = {}

\* Without working state the row and its active copies are as they were resumed.
Rested ==
    mon = NoState =>
        /\ row.active => row.status = "pending"
        /\ \A c \in {snap, config} : c.active => c.seq = row.seq /\ c.status = "pending"

\* The evaluator, and the snapshot, have seen that the monitor was resumed.
SeenResumed ==
    /\ mon # NoState /\ ~config.active => ~snap.active /\ ~row.active
    /\ row.active /\ config.active => snap.active

\* No stored transition is ahead of the row.
StoredBehind == \A s \in stored : s.seq <= row.seq

\* What is on its way brings the row to the evaluator's status, or will be
\* found out of step.
OnItsWay == row.active /\ mon # NoState => Chain \/ Doomed

Agreed == Quiet /\ Rested /\ SeenResumed /\ StoredBehind /\ OnItsWay
InStep == Good /\ row.exists => Agreed

AInv == TypeOK /\ LegalMessages /\ Counted /\ Plain /\ InStep

\* The initial states: nothing published, no working state.
LEMMA InitAgreed == Init => AInv
<1> SUFFICES ASSUME Init PROVE AInv
  OBVIOUS
<1>1. TypeOK /\ LegalMessages
  BY InitInv DEF IInv
<1>2. /\ row.active = TRUE /\ row.exists = TRUE /\ row.status = "pending" /\ row.seq = 0
      /\ snap = row /\ config = row /\ mon = NoState /\ lane = <<>> /\ failed = {}
      /\ stored = {}
  BY DEF Init
<1>3. Counted
  BY DEF Init, Counted
<1>4. Messages = {}
  BY <1>2, LaneMessages, EmptySeq DEF Messages
<1>5. Plain
  BY <1>2, <1>4 DEF Plain
<1>6. Agreed
  BY <1>2, Zenon DEF Agreed, Quiet, Rested, SeenResumed, StoredBehind, OnItsWay
<1> QED BY <1>1, <1>3, <1>5, <1>6 DEF AInv, InStep

\* With nothing on its way the chain is empty: the statuses are the same.
LEMMA AgreedAgree == AInv => AgreeOnStatus
<1> SUFFICES ASSUME AInv, Good, row.active, mon # NoState, Drained
             PROVE  row.status = mon.status
  BY DEF AgreeOnStatus, StatusesAgree, Good
<1>1. Messages = {}
  BY LaneMessages, EmptySeq DEF Drained, Messages
<1>2. Chain
  BY <1>1 DEF AInv, Plain, InStep, Agreed, OnItsWay, Doomed, Unapplied
<1>3. row.seq \in Nat /\ mon.seq \in Nat
  BY RowFields, StateFields DEF AInv, TypeOK
<1>4. row.seq = mon.seq
  <2>1. SUFFICES ASSUME row.seq < mon.seq PROVE FALSE
    BY <1>2, <1>3 DEF Chain, IsChain
  <2>2. mon.seq \in row.seq + 1 .. mon.seq
    BY <1>3, <2>1
  <2> QED BY <1>1, <1>2, <2>2 DEF Chain, IsChain, Unapplied
<1> QED BY <1>2, <1>4 DEF Chain, IsChain

\* Losses of Valkey stay counted (Spend, Fault).
LEMMA CountedStep ==
    ASSUME Counted, [Next]_vars
    PROVE  Counted' /\ (spent'.losses = 0 => spent.losses = 0)
<1>1. ASSUME NEW what, NEW max, Spend(what, max)
      PROVE  Counted' /\ (spent'.losses = 0 => spent.losses = 0)
  BY <1>1 DEF Spend, Counted
<1>2. ASSUME UNCHANGED spent
      PROVE  Counted' /\ (spent'.losses = 0 => spent.losses = 0)
  BY <1>2 DEF Counted
<1>3. CASE CloseTick \/ Silence \/ Forget \/ WriteSnapshot \/ LoadSnapshot \/ UNCHANGED vars
  <2>1. UNCHANGED spent
    BY <1>3 DEF CloseTick, Silence, Commit, Forget, WriteSnapshot, LoadSnapshot, vars
  <2> QED BY <1>2, <2>1
<1>4. CASE Deliver \/ \E t \in failed : Retry(t) \/ Abandon(t)
  <2>1. UNCHANGED spent
    BY <1>4 DEF Deliver, Retry, Abandon
  <2> QED BY <1>2, <2>1
<1>5. CASE Lose \/ DeliverAgain \/ DeliveryFails
  <2>1. \E what, max : Spend(what, max)
    BY <1>5 DEF Lose, DeliverAgain, DeliveryFails, Fault
  <2> QED BY <1>1, <2>1
<1>6. CASE Pause \/ Resume \/ Delete \/ \E i \in DOMAIN incidents : Touch(i)
  <2>1. \E what, max : Spend(what, max)
    BY <1>6 DEF Pause, Resume, Delete, Edited, Touch
  <2> QED BY <1>1, <2>1
<1> QED BY <1>3, <1>4, <1>5, <1>6 DEF Next

\* A loss of Valkey is counted at once.
LEMMA LoseCounts ==
    ASSUME Counted, Lose
    PROVE  spent'.losses # 0
  BY DEF Counted, Lose, Fault, Spend

-----------------------------------------------------------------------------
(* What each step does to the messages and the states. *)

\* Messages are transitions.
LEMMA MessageTypes ==
    ASSUME TypeOK
    PROVE  /\ Messages \subseteq TransitionRec
           /\ \A t \in Messages \union stored :
                /\ t.from \in Statuses /\ t.to \in Statuses
                /\ t.failures \in Nat /\ t.seq \in Nat
  BY LaneMessages DEF TypeOK, Messages, TransitionRec

\* A delivery handles one message; at most that one is gone afterwards.
LEMMA DeliveryMessages ==
    ASSUME TypeOK, Deliver \/ DeliverAgain \/ \E t \in failed : Retry(t)
    PROVE  \E t \in Messages :
             OnTransition(t) /\ Messages' \subseteq Messages /\ Messages \ {t} \subseteq Messages'
<1>0. lane \in Seq(TransitionRec)
  BY DEF TypeOK
<1>1. CASE Deliver
  <2>1. lane # <<>> /\ OnTransition(Head(lane)) /\ lane' = Tail(lane) /\ failed' = failed
    BY <1>1 DEF Deliver
  <2>2. Range(lane) = Range(lane') \union {Head(lane)}
    BY <1>0, <2>1, LaneMessages
  <2> QED BY <2>1, <2>2 DEF Messages
<1>2. CASE DeliverAgain
  <2>1. lane # <<>> /\ OnTransition(Head(lane)) /\ lane' = lane /\ failed' = failed
    BY <1>2 DEF DeliverAgain
  <2>2. Range(lane) = Range(Tail(lane)) \union {Head(lane)}
    BY <1>0, <2>1, LaneMessages
  <2> QED BY <2>1, <2>2 DEF Messages
<1>3. CASE \E t \in failed : Retry(t)
  <2>1. PICK t \in failed : Retry(t)
    BY <1>3
  <2> QED BY <2>1 DEF Retry, Messages
<1> QED BY <1>1, <1>2, <1>3

\* A failed delivery moves its message to the failures.
LEMMA FailureMessages ==
    ASSUME TypeOK, DeliveryFails
    PROVE  Messages' = Messages
<1>1. lane # <<>> /\ failed' = failed \union {Head(lane)} /\ lane' = Tail(lane)
  BY DEF DeliveryFails
<1>2. Range(lane) = Range(Tail(lane)) \union {Head(lane)}
  BY <1>1, LaneMessages DEF TypeOK
<1> QED BY <1>1, <1>2 DEF Messages

\* The evaluator works on a state that is not paused, and its step follows it
\* (monitor_state, apply_tick, check_nodata).
LEMMA EvaluatorSteps ==
    ASSUME TypeOK, Plain, CloseTick \/ Silence
    PROVE  /\ config.active
           /\ WorkingState \in StateRec /\ WorkingState.status # "paused"
           /\ \E step : Follows(step, WorkingState) /\ Commit(step)
<1>1. config.active
  BY DEF CloseTick, Silence
<1>2. WorkingState \in StateRec /\ Threshold \in Nat
  BY WorkingStateType, LifecycleAssumption DEF LifecycleAssumption
<1>3. WorkingState.status # "paused"
  BY <1>1 DEF WorkingState, Plain, Fresh
<1>4. CASE CloseTick
  <2>1. PICK ok \in BOOLEAN :
          Commit(ApplyTick(WorkingState, [r \in {"region"} |-> ok], 1, Threshold, 1))
    BY <1>4 DEF CloseTick
  <2>2. Follows(ApplyTick(WorkingState, [r \in {"region"} |-> ok], 1, Threshold, 1), WorkingState)
    BY <1>2, ApplyTickFollows
  <2> QED BY <1>1, <1>2, <1>3, <2>1, <2>2
<1>5. CASE Silence
  <2>1. Commit(CheckNoData(WorkingState, 4, 1))
    BY <1>5 DEF Silence
  <2>2. Follows(CheckNoData(WorkingState, 4, 1), WorkingState)
    BY <1>2, CheckNoDataFollows
  <2> QED BY <1>1, <1>2, <1>3, <2>1, <2>2
<1> QED BY <1>4, <1>5

\* What a step publishes.
Publishes(tr, s) ==
    /\ tr \in TransitionRec
    /\ tr.from = s.status /\ tr.to = mon'.status /\ tr.seq = s.seq + 1 /\ mon'.seq = s.seq + 1
    /\ lane' = Append(lane, tr) /\ Messages' = Messages \union {tr}
    /\ amiss' = (amiss \/ ~row.active)

\* A step that follows a state keeps status and number, or publishes (_commit).
LEMMA CommitSteps ==
    ASSUME TypeOK, NEW s \in StateRec, s.status # "paused",
           NEW step, Follows(step, s), Commit(step)
    PROVE  /\ mon' \in StateRec /\ mon'.status # "paused" /\ mon' # NoState
           /\ \/ /\ mon'.status = s.status /\ mon'.seq = s.seq
                 /\ lane' = lane /\ Messages' = Messages /\ amiss' = amiss
              \/ \E tr : Publishes(tr, s)
           /\ row' = row /\ stored' = stored /\ snap' = snap /\ config' = config /\ failed' = failed
<1>1. mon' = step.st /\ step.st \in StateRec
  BY DEF Commit, Follows
<1>2. mon'.status # "paused"
  BY <1>1 DEF Follows
<1>3. mon' # NoState
  BY <1>2 DEF NoState, Fresh
<1>4. row' = row /\ stored' = stored /\ snap' = snap /\ config' = config /\ failed' = failed
  BY DEF Commit, common, caches
<1>5. CASE step.tr = NoTransition
  <2>1. lane' = lane /\ amiss' = amiss
    BY <1>5 DEF Commit
  <2>2. mon'.status = s.status /\ mon'.seq = s.seq
    BY <1>1, <1>5 DEF Follows
  <2> QED BY <1>1, <1>2, <1>3, <1>4, <2>1, <2>2 DEF Messages
<1>6. CASE step.tr # NoTransition
  <2>1. lane' = Append(lane, step.tr) /\ amiss' = (amiss \/ ~row.active)
    BY <1>6 DEF Commit
  <2>2. /\ step.tr \in TransitionRec /\ step.tr.from = s.status /\ step.tr.to = mon'.status
        /\ step.tr.seq = s.seq + 1 /\ mon'.seq = s.seq + 1
    BY <1>1, <1>6 DEF Follows
  <2>3. Messages' = Messages \union {step.tr}
    BY <1>4, <2>1, LaneMessages DEF Messages, TypeOK
  <2>4. Publishes(step.tr, s)
    BY <2>1, <2>2, <2>3, Zenon DEF Publishes
  <2> QED BY <1>1, <1>2, <1>3, <1>4, <2>4
<1> QED BY <1>5, <1>6

\* A delivery stores a fresh message in step, finds it stored, or is amiss.
LEMMA HandledSteps ==
    ASSUME TypeOK, NEW t \in Messages, OnTransition(t)
    PROVE  /\ mon' = mon /\ snap' = snap /\ config' = config
           /\ amiss => amiss'
           /\ row'.exists = row.exists
           /\ \/ /\ row' = row /\ stored' = stored
                 /\ amiss' \/ ~row.exists \/ t \in stored
              \/ /\ t \notin stored /\ stored' = stored \union {t}
                 /\ row' = Applied(t)
                 /\ \/ amiss'
                    \/ /\ row.active /\ row.seq < t.seq /\ row.status = t.from
                       /\ row'.active = TRUE /\ row'.status = t.to /\ row'.seq = t.seq
<1>0. /\ t.to \in Statuses /\ t.failures \in Nat /\ t.seq \in Nat /\ row \in Row
  BY MessageTypes DEF TypeOK
<1>1. mon' = mon /\ snap' = snap /\ config' = config
  BY DEF OnTransition, caches
<1>2. amiss' = (amiss \/ OutOfStep(t))
  BY DEF OnTransition
<1>3. CASE ~IsFresh(t)
  <2>1. row' = row /\ stored' = stored
    BY <1>3 DEF OnTransition, common
  <2>2. amiss' \/ ~row.exists \/ t \in stored
    BY <1>2, <1>3 DEF OutOfStep
  <2> QED BY <1>1, <1>2, <2>1, <2>2
<1>4. CASE IsFresh(t)
  <2>1. stored' = stored \union {t} /\ row' = Applied(t) /\ t \notin stored
    BY <1>4 DEF OnTransition, IsFresh
  <2>2. /\ RowWith(TRUE, t.to, t.failures, t.seq).exists = row.exists
        /\ RowWith(TRUE, t.to, t.failures, t.seq).active = TRUE
        /\ RowWith(TRUE, t.to, t.failures, t.seq).status = t.to
        /\ RowWith(TRUE, t.to, t.failures, t.seq).seq = t.seq
    BY DEF RowWith
  <2>3. row'.exists = row.exists
    BY <2>1, <2>2 DEF Applied
  <2>4. ASSUME ~amiss'
        PROVE  /\ row.active /\ row.seq < t.seq /\ row.status = t.from
               /\ row'.active = TRUE /\ row'.status = t.to /\ row'.seq = t.seq
    <3>1. row.active /\ row.seq < t.seq /\ row.status = t.from
      BY <1>2, <1>4, <2>4 DEF OutOfStep
    <3>2. row' = RowWith(TRUE, t.to, t.failures, t.seq)
      BY <2>1, <3>1 DEF Applied, Applies
    <3> QED BY <2>2, <3>1, <3>2
  <2> QED BY <1>1, <1>2, <2>1, <2>3, <2>4
<1> QED BY <1>3, <1>4

-----------------------------------------------------------------------------
(* Plain is inductive. *)

\* Nothing that is not paused is replaced by something paused.
LEMMA PlainStep ==
    ASSUME TypeOK, Plain, [Next]_vars
    PROVE  Plain'
<1>0. /\ row \in Row /\ row.seq \in Nat /\ snap.seq \in Nat /\ config.seq \in Nat
      /\ row.active => row.exists
      /\ row.active => row.status # "paused"
      /\ snap.active => snap.status # "paused"
      /\ config.active => config.status # "paused"
      /\ mon # NoState => mon.status # "paused"
      /\ \A t \in Messages : t.to # "paused"
      /\ snap.seq <= row.seq /\ config.seq <= row.seq
  BY RowFields DEF TypeOK, Plain
<1>1. CASE CloseTick \/ Silence
  <2>1. PICK step : Follows(step, WorkingState) /\ Commit(step)
    BY <1>1, EvaluatorSteps
  <2>2. /\ mon'.status # "paused"
        /\ Messages' = Messages \/ \E tr : Publishes(tr, WorkingState)
        /\ row' = row /\ snap' = snap /\ config' = config
    BY <1>1, <2>1, EvaluatorSteps, CommitSteps
  <2>3. \A t \in Messages' : t.to # "paused"
    BY <1>0, <2>2 DEF Publishes
  <2> QED BY <1>0, <2>2, <2>3 DEF Plain
<1>2. CASE Forget \/ Lose \/ UNCHANGED vars
  <2>1. /\ mon' \in {mon, NoState} /\ lane' = lane /\ failed' = failed
        /\ row' = row /\ snap' = snap /\ config' = config
    BY <1>2 DEF Forget, Lose, common, caches, vars
  <2> QED BY <1>0, <2>1 DEF Plain, Messages
<1>3. CASE Deliver \/ DeliverAgain \/ \E t \in failed : Retry(t)
  <2>1. PICK t \in Messages : OnTransition(t) /\ Messages' \subseteq Messages
    BY <1>3, DeliveryMessages
  <2>2. mon' = mon /\ snap' = snap /\ config' = config /\ row' \in {row, Applied(t)}
    BY <2>1, HandledSteps
  <2>3. t.to # "paused" /\ t.seq \in Nat
    BY <1>0, MessageTypes
  <2>4. CASE row' = row
    BY <1>0, <2>1, <2>2, <2>4 DEF Plain
  <2>5. CASE row' # row
    <3>1. row' = RowWith(TRUE, t.to, t.failures, t.seq) /\ row.active /\ row.seq < t.seq
      BY <2>2, <2>5 DEF Applied, Applies
    <3>2. row'.exists = row.exists /\ row'.status = t.to /\ row'.seq = t.seq
      BY <3>1 DEF RowWith
    <3>3. row.active => row'.exists
      BY <1>0, <3>2, Zenon
    <3>4. snap.seq <= t.seq /\ config.seq <= t.seq
      BY <1>0, <2>3, <3>1
    <3>5. \A c \in {row', snap', config'} : c.active => c.status # "paused"
      BY <1>0, <2>2, <2>3, <3>2
    <3> QED BY <1>0, <2>1, <2>2, <3>1, <3>2, <3>3, <3>4, <3>5 DEF Plain
  <2> QED BY <2>4, <2>5
<1>4. CASE DeliveryFails
  <2>1. Messages' = Messages
    BY <1>4, FailureMessages
  <2>2. mon' = mon /\ snap' = snap /\ config' = config /\ row' = row
    BY <1>4 DEF DeliveryFails, common, caches
  <2> QED BY <1>0, <2>1, <2>2 DEF Plain
<1>5. CASE \E t \in failed : Abandon(t)
  <2>1. /\ mon' = mon /\ snap' = snap /\ config' = config /\ row' = row
        /\ lane' = lane /\ failed' \subseteq failed
    BY <1>5 DEF Abandon, common, caches
  <2>2. Messages' \subseteq Messages
    BY <2>1 DEF Messages
  <2> QED BY <1>0, <2>1, <2>2 DEF Plain
<1>6. CASE Pause \/ Resume \/ Delete
  <2>1. /\ mon' = mon /\ snap' = snap /\ config' = config
        /\ lane' = lane /\ failed' = failed
    BY <1>6 DEF Pause, Resume, Delete, Edited, caches
  <2>2. row'.seq = row.seq /\ (row'.active => row'.exists /\ row'.status # "paused")
    <3>1. CASE Pause
      BY <3>1 DEF Pause, RowWith
    <3>2. CASE Resume
      BY <3>2 DEF Resume, Edited, RowWith
    <3>3. CASE Delete
      BY <3>3 DEF Delete, RowWith
    <3> QED BY <1>6, <3>1, <3>2, <3>3
  <2> QED BY <1>0, <2>1, <2>2 DEF Plain, Messages
<1>7. CASE (\E i \in DOMAIN incidents : Touch(i)) \/ WriteSnapshot \/ LoadSnapshot
  <2>1. /\ mon' = mon /\ row' = row /\ lane' = lane /\ failed' = failed
        /\ snap' \in {row, snap} /\ config' \in {snap, config}
    BY <1>7 DEF Touch, WriteSnapshot, LoadSnapshot, common, caches
  <2>2. /\ \A c \in {row', snap', config'} : c.active => c.status # "paused"
        /\ snap'.seq <= row'.seq /\ config'.seq <= row'.seq
    BY <1>0, <2>1
  <2> QED BY <1>0, <2>1, <2>2 DEF Plain, Messages
<1> QED BY <1>1, <1>2, <1>3, <1>4, <1>5, <1>6, <1>7 DEF Next

\* What was amiss stays so; a deleted monitor does not come back.
LEMMA GoodBefore ==
    ASSUME TypeOK, Counted, [Next]_vars, Good', row'.exists
    PROVE  Good /\ row.exists
<1>1. spent.losses = 0
  BY CountedStep DEF Good
<1>2. ~amiss'
  BY DEF Good
<1>3. CASE CloseTick \/ Silence
  <2>1. row' = row
    BY <1>3 DEF CloseTick, Silence, Commit, common
  <2>2. ~amiss
    BY <1>2, <1>3, EvaluatorEffect
  <2> QED BY <1>1, <2>1, <2>2 DEF Good
<1>4. CASE \/ Forget \/ Lose \/ DeliveryFails \/ WriteSnapshot \/ LoadSnapshot \/ UNCHANGED vars
           \/ \E i \in DOMAIN incidents : Touch(i)
  <2>1. row' = row /\ amiss' = amiss
    BY <1>4 DEF Forget, Lose, DeliveryFails, WriteSnapshot, LoadSnapshot, Touch, vars, common
  <2> QED BY <1>1, <1>2, <2>1 DEF Good
<1>5. CASE Deliver \/ DeliverAgain \/ \E t \in failed : Retry(t)
  <2>1. PICK t \in Messages : OnTransition(t)
    BY <1>5, DeliveryMessages
  <2> QED BY <1>1, <1>2, <2>1, HandledSteps DEF Good
<1>6. CASE \E t \in failed : Abandon(t)
  BY <1>2, <1>6 DEF Abandon
<1>7. CASE Pause \/ Resume \/ Delete
  <2>1. row.exists
    BY <1>7 DEF Pause, Resume, Delete, Edited
  <2>2. ~amiss
    <3>1. amiss => amiss'
      BY <1>7, Zenon DEF Pause, Resume, Delete
    <3> QED BY <1>2, <3>1
  <2> QED BY <1>1, <2>1, <2>2 DEF Good
<1> QED BY <1>3, <1>4, <1>5, <1>6, <1>7 DEF Next

-----------------------------------------------------------------------------
(* Agreement is inductive. *)

\* A step of the evaluator keeps or lengthens what leads to its status: from
\* its own state, or, without one, from the row as it was resumed.
LEMMA EvaluatorAgrees ==
    ASSUME TypeOK, Plain, Agreed, Good', row.exists, CloseTick \/ Silence
    PROVE  Agreed'
<1> DEFINE ws == WorkingState
<1>0. /\ row \in Row /\ row.seq \in Nat /\ config \in Row /\ config.seq \in Nat
      /\ mon \in StateRec /\ mon.seq \in Nat
      /\ \A t \in Messages \union stored : t.seq \in Nat
  BY RowFields, StateFields, MessageTypes DEF TypeOK
<1>1. PICK step : Follows(step, ws) /\ Commit(step)
  BY EvaluatorSteps
<1>2. config.active /\ ws \in StateRec /\ ws.seq \in Nat /\ ws.status # "paused"
  BY EvaluatorSteps, StateFields
<1>3. /\ mon' # NoState
      /\ row' = row /\ stored' = stored /\ snap' = snap /\ config' = config /\ failed' = failed
      /\ \/ /\ mon'.status = ws.status /\ mon'.seq = ws.seq
            /\ lane' = lane /\ Messages' = Messages /\ amiss' = amiss
         \/ \E tr : Publishes(tr, ws)
  BY <1>1, <1>2, CommitSteps
<1>4. row.active \/ lane' = lane
  BY <1>3 DEF Publishes, Good
<1>5. Quiet' /\ Rested' /\ SeenResumed' /\ StoredBehind'
  BY <1>2, <1>3, <1>4 DEF Agreed, Quiet, Rested, SeenResumed, StoredBehind
<1>6. ASSUME row.active PROVE Chain' \/ Doomed'
  <2>1. CASE Doomed
    <3>1. Messages \subseteq Messages'
      BY <1>3 DEF Publishes
    <3> QED BY <1>3, <2>1, <3>1 DEF Doomed, Unapplied
  <2>2. CASE ~Doomed
    <3>1. IsChain(Unapplied, row.status, row.seq, ws.status, ws.seq)
      <4>1. CASE mon = NoState
        <5>1. Messages = {}
          BY <4>1, LaneMessages, EmptySeq DEF Agreed, Quiet, Messages
        <5>2. Unapplied = {}
          BY <5>1 DEF Unapplied
        <5>3. row.status = "pending" /\ config.seq = row.seq /\ config.status = "pending"
          BY <1>2, <1>6, <4>1 DEF Agreed, Rested
        <5>4. ws.status = "pending" /\ ws.seq = row.seq
          BY <4>1, <5>3 DEF WorkingState, Fresh
        <5> QED BY <1>0, <5>2, <5>3, <5>4, ChainEmpty
      <4>2. CASE mon # NoState
        <5>1. Chain
          BY <1>6, <2>2, <4>2 DEF Agreed, OnItsWay
        <5>2. config.seq <= mon.seq
          BY <1>0, <5>1 DEF Chain, IsChain, Plain
        <5>3. ws = mon
          BY <1>0, <4>2, <5>2 DEF WorkingState
        <5> QED BY <5>1, <5>3 DEF Chain
      <4> QED BY <4>1, <4>2
    <3> HIDE DEF ws
    <3>2. CASE /\ mon'.status = ws.status /\ mon'.seq = ws.seq
               /\ lane' = lane /\ Messages' = Messages /\ amiss' = amiss
      <4>1. Unapplied' = Unapplied
        BY <1>3, <3>2 DEF Unapplied
      <4> QED BY <1>3, <3>1, <3>2, <4>1 DEF Chain
    <3>3. CASE \E tr : Publishes(tr, ws)
      <4>1. PICK tr : Publishes(tr, ws)
        BY <3>3
      <4>2. row.seq <= ws.seq
        BY <3>1 DEF IsChain
      <4>3. tr \notin stored
        BY <1>0, <1>2, <4>1, <4>2 DEF Publishes, Agreed, StoredBehind
      <4>4. Unapplied' = Unapplied \union {tr}
        BY <1>3, <4>1, <4>3 DEF Publishes, Unapplied
      <4>5. \A u \in Unapplied : u.seq \in Nat
        BY <1>0 DEF Unapplied
      <4>6. IsChain(Unapplied \union {tr}, row.status, row.seq, tr.to, tr.seq)
        BY <1>0, <1>2, <3>1, <4>1, <4>5, ChainGrows DEF Publishes
      <4>7. tr.to = mon'.status /\ tr.seq = mon'.seq
        BY <4>1 DEF Publishes
      <4> QED BY <1>3, <4>4, <4>6, <4>7 DEF Chain
    <3> QED BY <1>3, <3>2, <3>3
  <2> QED BY <2>1, <2>2
<1>7. OnItsWay'
  BY <1>3, <1>6 DEF OnItsWay
<1> QED BY <1>5, <1>7 DEF Agreed

\* A delivery takes the oldest message of the chain, or leaves that one behind.
LEMMA DeliveryAgrees ==
    ASSUME TypeOK, Plain, Agreed, Good', row.exists,
           Deliver \/ DeliverAgain \/ \E t \in failed : Retry(t)
    PROVE  Agreed'
<1>0. /\ row.seq \in Nat /\ mon.seq \in Nat
      /\ \A t \in Messages \union stored : t.seq \in Nat
  BY RowFields, StateFields, MessageTypes DEF TypeOK
<1>1. PICK t \in Messages :
        OnTransition(t) /\ Messages' \subseteq Messages /\ Messages \ {t} \subseteq Messages'
  BY DeliveryMessages
<1>2. mon' = mon /\ snap' = snap /\ config' = config /\ ~amiss'
  BY <1>1, HandledSteps DEF Good
<1>3. row.active /\ mon # NoState
  <2>1. lane # <<>> \/ failed # {}
    BY <1>1, LaneMessages, EmptySeq DEF Messages
  <2> QED BY <2>1 DEF Agreed, Quiet
<1>4. CASE row' = row /\ stored' = stored /\ t \in stored
  <2>1. Unapplied' = Unapplied
    BY <1>1, <1>4 DEF Unapplied
  <2>2. Quiet' /\ Rested' /\ SeenResumed' /\ StoredBehind'
    BY <1>2, <1>3, <1>4 DEF Agreed, Quiet, Rested, SeenResumed, StoredBehind
  <2>3. OnItsWay'
    BY <1>2, <1>4, <2>1 DEF Agreed, OnItsWay, Chain, Doomed
  <2> QED BY <2>2, <2>3 DEF Agreed
<1>5. CASE /\ t \notin stored /\ stored' = stored \union {t}
           /\ row.active /\ row.seq < t.seq /\ row.status = t.from
           /\ row'.active = TRUE /\ row'.status = t.to /\ row'.seq = t.seq
  <2>1. Unapplied' = Unapplied \ {t} /\ t \in Unapplied
    BY <1>1, <1>5 DEF Unapplied
  <2>2. StoredBehind'
    BY <1>0, <1>5 DEF Agreed, StoredBehind
  <2>3. Quiet' /\ Rested' /\ SeenResumed'
    BY <1>2, <1>3, <1>5 DEF Agreed, Quiet, Rested, SeenResumed
  <2>4. \A u \in Unapplied : u.seq \in Nat
    BY <1>0 DEF Unapplied
  <2>5. CASE Doomed
    <3>1. PICK u \in Unapplied : u.seq <= row.seq
      BY <2>5 DEF Doomed
    <3>2. u # t /\ u.seq <= t.seq
      BY <1>0, <1>5, <2>1, <2>4, <3>1
    <3>3. Doomed'
      BY <1>5, <2>1, <3>1, <3>2 DEF Doomed
    <3> QED BY <2>2, <2>3, <3>3 DEF Agreed, OnItsWay
  <2>6. CASE ~Doomed /\ t.seq = row.seq + 1
    <3>1. Chain
      BY <1>3, <2>6 DEF Agreed, OnItsWay
    <3>2. IsChain(Unapplied \ {t}, t.to, t.seq, mon.status, mon.seq)
      BY <1>0, <2>1, <2>4, <2>6, <3>1, ChainShrinks DEF Chain
    <3>3. Chain'
      BY <1>2, <1>5, <2>1, <3>2 DEF Chain
    <3> QED BY <2>2, <2>3, <3>3 DEF Agreed, OnItsWay
  <2>7. CASE ~Doomed /\ t.seq # row.seq + 1
    <3>1. Chain
      BY <1>3, <2>7 DEF Agreed, OnItsWay
    <3>2. \E u \in Unapplied \ {t} : u.seq <= t.seq
      BY <1>0, <2>1, <2>4, <2>7, <3>1, ChainSkips DEF Chain
    <3>3. Doomed'
      BY <1>5, <2>1, <3>2 DEF Doomed
    <3> QED BY <2>2, <2>3, <3>3 DEF Agreed, OnItsWay
  <2> QED BY <2>5, <2>6, <2>7
<1> QED BY <1>1, <1>2, <1>4, <1>5, HandledSteps

\* Steps that leave the messages and the transitions table alone.
LEMMA OthersAgree ==
    ASSUME TypeOK, Counted, Plain, Agreed, Good', row.exists, row'.exists,
           \/ Forget \/ Lose \/ DeliveryFails \/ Pause \/ Resume \/ Delete
           \/ WriteSnapshot \/ LoadSnapshot \/ UNCHANGED vars
           \/ \E t \in failed : Abandon(t)
           \/ \E i \in DOMAIN incidents : Touch(i)
    PROVE  Agreed'
<1>1. CASE Forget
  <2>1. /\ mon' = NoState /\ mon # NoState /\ ~config.active
        /\ row' = row /\ stored' = stored /\ snap' = snap /\ config' = config
        /\ lane' = lane /\ failed' = failed
    BY <1>1 DEF Forget, common, caches
  <2>2. ~snap.active /\ ~row.active
    BY <2>1 DEF Agreed, SeenResumed
  <2> QED BY <2>1, <2>2 DEF Agreed, Quiet, Rested, SeenResumed, StoredBehind, OnItsWay
<1>2. CASE Lose
  BY <1>2, LoseCounts DEF Good
<1>3. CASE DeliveryFails
  <2>1. /\ mon' = mon /\ row' = row /\ stored' = stored /\ snap' = snap /\ config' = config
        /\ lane # <<>>
    BY <1>3 DEF DeliveryFails, common, caches
  <2>2. Unapplied' = Unapplied
    BY <1>3, <2>1, FailureMessages DEF Unapplied
  <2>3. row.active /\ mon # NoState
    BY <2>1 DEF Agreed, Quiet
  <2>4. Quiet' /\ Rested' /\ SeenResumed' /\ StoredBehind'
    BY <2>1, <2>3 DEF Agreed, Quiet, Rested, SeenResumed, StoredBehind
  <2> QED BY <2>1, <2>2, <2>4 DEF Agreed, OnItsWay, Chain, Doomed
<1>4. CASE \E t \in failed : Abandon(t)
  BY <1>4 DEF Abandon, Good
<1>5. CASE Pause
  <2>1. /\ row' = RowWith(FALSE, "paused", 0, row.seq) /\ lane = <<>> /\ failed = {}
        /\ mon' = mon /\ stored' = stored /\ snap' = snap /\ config' = config
        /\ lane' = lane /\ failed' = failed
    BY <1>5 DEF Pause, Edited, caches, Good
  <2>2. row'.active = FALSE /\ row'.seq = row.seq
    BY <2>1 DEF RowWith
  <2> QED BY <2>1, <2>2 DEF Agreed, Quiet, Rested, SeenResumed, StoredBehind, OnItsWay
<1>6. CASE Resume
  <2>1. /\ row' = RowWith(TRUE, "pending", 0, row.seq) /\ ~row.active
        /\ mon = NoState /\ ~config.active
        /\ mon' = mon /\ stored' = stored /\ snap' = snap /\ config' = config
        /\ lane' = lane /\ failed' = failed
    BY <1>6 DEF Resume, Edited, caches, Good
  <2>2. row'.status = "pending" /\ row'.seq = row.seq
    BY <2>1 DEF RowWith
  <2> QED BY <2>1, <2>2 DEF Agreed, Quiet, Rested, SeenResumed, StoredBehind, OnItsWay
<1>7. CASE Delete
  BY <1>7, DeleteSpec
<1>8. CASE WriteSnapshot
  <2>1. /\ snap' = row /\ row' = row /\ mon' = mon /\ stored' = stored /\ config' = config
        /\ lane' = lane /\ failed' = failed
    BY <1>8 DEF WriteSnapshot, common
  <2>2. Unapplied' = Unapplied
    BY <2>1 DEF Unapplied, Messages
  <2> QED BY <2>1, <2>2 DEF Agreed, Quiet, Rested, SeenResumed, StoredBehind, OnItsWay, Chain, Doomed
<1>9. CASE LoadSnapshot
  <2>1. /\ config' = snap /\ row' = row /\ mon' = mon /\ stored' = stored /\ snap' = snap
        /\ lane' = lane /\ failed' = failed
    BY <1>9 DEF LoadSnapshot, common
  <2>2. Unapplied' = Unapplied
    BY <2>1 DEF Unapplied, Messages
  <2> QED BY <2>1, <2>2 DEF Agreed, Quiet, Rested, SeenResumed, StoredBehind, OnItsWay, Chain, Doomed
<1>10. CASE UNCHANGED vars \/ \E i \in DOMAIN incidents : Touch(i)
  <2>1. /\ row' = row /\ mon' = mon /\ stored' = stored /\ snap' = snap /\ config' = config
        /\ lane' = lane /\ failed' = failed
    BY <1>10 DEF Touch, vars, common, caches
  <2>2. Unapplied' = Unapplied
    BY <2>1 DEF Unapplied, Messages
  <2> QED BY <2>1, <2>2 DEF Agreed, Quiet, Rested, SeenResumed, StoredBehind, OnItsWay, Chain, Doomed
<1> QED BY <1>1, <1>2, <1>3, <1>4, <1>5, <1>6, <1>7, <1>8, <1>9, <1>10

\* Every step of the two services keeps them in agreement.
LEMMA AgreedStep == AInv /\ [Next]_vars => AInv'
<1> SUFFICES ASSUME AInv, [Next]_vars PROVE AInv'
  OBVIOUS
<1>1. TypeOK' /\ LegalMessages' /\ Counted' /\ Plain'
  BY TypeStep, CountedStep, PlainStep DEF AInv
<1>2. ASSUME Good', row'.exists PROVE Agreed'
  <2>1. Good /\ row.exists
    BY <1>2, GoodBefore DEF AInv
  <2>2. TypeOK /\ Counted /\ Plain /\ Agreed
    BY <2>1 DEF AInv, InStep
  <2>3. CASE CloseTick \/ Silence
    BY <1>2, <2>1, <2>2, <2>3, EvaluatorAgrees
  <2>4. CASE Deliver \/ DeliverAgain \/ \E t \in failed : Retry(t)
    BY <1>2, <2>1, <2>2, <2>4, DeliveryAgrees
  <2>5. CASE \/ Forget \/ Lose \/ DeliveryFails \/ Pause \/ Resume \/ Delete
             \/ WriteSnapshot \/ LoadSnapshot \/ UNCHANGED vars
             \/ \E t \in failed : Abandon(t)
             \/ \E i \in DOMAIN incidents : Touch(i)
    BY <1>2, <2>1, <2>2, <2>5, OthersAgree
  <2> QED BY <2>3, <2>4, <2>5 DEF Next
<1> QED BY <1>1, <1>2 DEF AInv, InStep

\* With nothing on its way the two services agree on the status, through
\* pauses, resumes, failed, repeated and reordered messages, while none is out
\* of step and Valkey keeps its keys (monitor_state, ApplyTransition).
THEOREM StatusesMeet == Spec => []AgreeOnStatus
<1>1. Init => AInv
  BY InitAgreed
<1>2. AInv /\ [Next]_vars => AInv'
  BY AgreedStep
<1> QED BY <1>1, <1>2, AgreedAgree, PTL DEF Spec
=============================================================================
