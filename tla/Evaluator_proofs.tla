--------------------------- MODULE Evaluator_proofs ---------------------------
(***************************************************************************)
(* Proofs about the evaluator, for every set of regions, threshold, quorum *)
(* and deadline: first of its state machine run over any history of ticks  *)
(* (MonitorHistory), then of its two tasks (Evaluator).                    *)
(***************************************************************************)
EXTENDS Evaluator, MonitorHistory, FiniteSetTheorems, SequenceTheorems, TLAPS

\* A configured count of zero or less counts as one.
LEMMA AtLeastOneType ==
    ASSUME NEW n \in Nat
    PROVE  AtLeastOne(n) \in Nat \ {0}
  BY DEF AtLeastOne

-----------------------------------------------------------------------------
(* What each function of the machine does to a state. *)

\* The fields of a state.
LEMMA StateFields ==
    ASSUME NEW s \in StateRec
    PROVE  /\ s.status \in Statuses /\ s.failures \in Nat
           /\ s.seq \in Nat /\ s.last \in Nat
  BY DEF StateRec

\* The state a move leads to (_move).
LEMMA MoveSpec ==
    ASSUME NEW s \in StateRec, NEW to \in Statuses, NEW failures \in Nat
    PROVE  /\ Move(s, to, failures).st \in StateRec
           /\ Move(s, to, failures).st.status = to
           /\ Move(s, to, failures).st.failures = IF to = "up" THEN 0 ELSE failures
           /\ Move(s, to, failures).st.last = s.last
  BY StateFields DEF StateRec, Move

\* A state with another tick time.
LEMMA SeenSpec ==
    ASSUME NEW s \in StateRec, NEW at \in Nat
    PROVE  /\ [s EXCEPT !.last = at] \in StateRec
           /\ [s EXCEPT !.last = at].status = s.status
           /\ [s EXCEPT !.last = at].failures = s.failures
           /\ [s EXCEPT !.last = at].last = at
  BY DEF StateRec

\* A state with another count of failures.
LEMMA CountedSpec ==
    ASSUME NEW s \in StateRec, NEW n \in Nat
    PROVE  /\ [s EXCEPT !.failures = n] \in StateRec
           /\ [s EXCEPT !.failures = n].status = s.status
           /\ [s EXCEPT !.failures = n].failures = n
           /\ [s EXCEPT !.failures = n].last = s.last
  BY DEF StateRec

\* A tick that passed: up, without failures (apply_tick).
LEMMA PassSpec ==
    ASSUME NEW s \in StateRec
    PROVE  /\ Pass(s).st \in StateRec /\ Pass(s).st.status = "up"
           /\ Pass(s).st.failures = 0 /\ Pass(s).st.last = s.last
<1>1. CASE s.status = "up"
  BY <1>1, CountedSpec, StateFields DEF Pass, Stays
<1>2. CASE s.status # "up"
  BY <1>2, MoveSpec, StateFields DEF Pass, Statuses
<1> QED BY <1>1, <1>2

\* A tick that failed is counted (apply_tick).
LEMMA FailSpec ==
    ASSUME NEW s \in StateRec, NEW limit \in Nat
    PROVE  LET t == Fail(s, limit).st IN
           /\ t \in StateRec
           /\ t.failures = s.failures + 1 /\ t.last = s.last
           /\ t.status = IF s.failures + 1 >= AtLeastOne(limit) THEN "down" ELSE s.status
<1>1. CASE s.status # "down" /\ s.failures + 1 >= AtLeastOne(limit)
  <2>1. Fail(s, limit).st = Move(s, "down", s.failures + 1).st
    BY <1>1 DEF Fail
  <2>2. "down" \in Statuses /\ s.failures + 1 \in Nat
    BY StateFields DEF Statuses
  <2> QED BY <1>1, <2>1, <2>2, MoveSpec
<1>2. CASE ~(s.status # "down" /\ s.failures + 1 >= AtLeastOne(limit))
  <2>1. Fail(s, limit).st = [s EXCEPT !.failures = s.failures + 1]
    BY <1>2 DEF Fail, Stays
  <2> QED BY <1>2, <2>1, CountedSpec, StateFields
<1> QED BY <1>1, <1>2

-----------------------------------------------------------------------------
(* The quorum. *)

Verdicts == UNION {[R -> BOOLEAN] : R \in SUBSET Reporters}

\* The regions that failed are some of those that reported (tick_failed).
LEMMA FailingBounds ==
    ASSUME NEW R \in SUBSET Reporters, NEW results \in [R -> BOOLEAN]
    PROVE  /\ DOMAIN results = R
           /\ IsFiniteSet(R) /\ IsFiniteSet(Failing(results))
           /\ Cardinality(R) \in Nat /\ Cardinality(Failing(results)) \in Nat
           /\ Cardinality(Failing(results)) <= Cardinality(R)
           /\ R = {} <=> Cardinality(R) = 0
<1>1. DOMAIN results = R /\ Failing(results) \subseteq R
  BY DEF Failing
<1>2. IsFiniteSet(R)
  BY FS_Subset, HistoryAssumption DEF HistoryAssumption
<1>3. IsFiniteSet(Failing(results))
  BY <1>1, <1>2, FS_Subset
<1>4. Cardinality(Failing(results)) <= Cardinality(R)
  BY <1>1, <1>2, FS_Subset
<1> QED BY <1>1, <1>2, <1>3, <1>4, FS_CardinalityType, FS_EmptySet

\* tick_failed is the quorum of QuorumFailed on every tick that reported.
THEOREM QuorumIsTickFailed ==
    ASSUME HistoryTypeOK, NEW R \in SUBSET Reporters, NEW results \in [R -> BOOLEAN], R # {}
    PROVE  TickFailed(results, minFailing) <=> QuorumFailed(results)
<1> DEFINE n == Cardinality(R)
           f == Cardinality(Failing(results))
           q == AtLeastOne(minFailing)
<1>1. q \in Nat \ {0}
  BY AtLeastOneType, HistoryAssumption DEF HistoryTypeOK, HistoryAssumption
<1>2. DOMAIN results = R /\ n \in Nat /\ f \in Nat /\ f <= n
  BY FailingBounds
<1>3. TickFailed(results, minFailing) <=> IF n < q THEN f = n ELSE f >= q
  BY <1>2 DEF TickFailed, Reported
<1>4. QuorumFailed(results) <=> f >= (IF n < q THEN n ELSE q)
  BY <1>2 DEF QuorumFailed
<1> HIDE DEF n, f, q
<1> QED BY <1>1, <1>2, <1>3, <1>4

\* One more region failing never makes a failed tick pass (tick_failed).
THEOREM MoreFailuresNeverPass ==
    ASSUME NEW m \in Nat,
           NEW R \in SUBSET Reporters, NEW few \in [R -> BOOLEAN], NEW more \in [R -> BOOLEAN],
           \A r \in R : more[r] => few[r],
           TickFailed(few, m)
    PROVE  TickFailed(more, m)
<1>1. Failing(few) \subseteq Failing(more)
  BY DEF Failing
<1>2. Cardinality(Failing(few)) <= Cardinality(Failing(more))
  BY <1>1, FailingBounds, FS_Subset
<1>3. DOMAIN few = R /\ DOMAIN more = R
  OBVIOUS
<1> DEFINE n == Cardinality(R)
           a == Cardinality(Failing(few))
           b == Cardinality(Failing(more))
           q == AtLeastOne(m)
<1>4. n \in Nat /\ a \in Nat /\ b \in Nat /\ a <= n /\ b <= n /\ a <= b /\ q \in Nat
  BY <1>2, FailingBounds, AtLeastOneType
<1>5. R # {} /\ IF n < q THEN a = n ELSE a >= q
  BY <1>3 DEF TickFailed, Reported
<1>6. (R # {} /\ IF n < q THEN b = n ELSE b >= q) => TickFailed(more, m)
  BY <1>3 DEF TickFailed, Reported
<1> HIDE DEF n, a, b, q
<1> QED BY <1>4, <1>5, <1>6

-----------------------------------------------------------------------------
(* What a closed tick does to the state and to the history. *)

\* A failed tick lengthens the streak, a passed one ends it (apply_tick).
Recorded(e) ==
    /\ log' = Append(log, e)
    /\ e.limit = AtLeastOne(threshold) /\ e.at = slot
    /\ st' \in StateRec /\ st'.last = slot
    /\ e.failed =>
         /\ st'.failures = st.failures + 1
         /\ st'.status = IF st.failures + 1 >= e.limit THEN "down" ELSE st.status
    /\ ~e.failed => st'.failures = 0 /\ st'.status = "up"

\* Closing a tick without results changes nothing; one with results is recorded
\* with what it leads to.
LEMMA CloseTickEffect ==
    ASSUME HistoryTypeOK, CloseTick
    PROVE  \/ st' = st /\ log' = log
           \/ \E e \in LogRec : Recorded(e)
<1>1. PICK R \in SUBSET Reporters : \E results \in [R -> BOOLEAN] :
         /\ st' = ApplyTick(st, results, slot, threshold, minFailing).st
         /\ log' = IF R = {} THEN log
                   ELSE Append(log, [failed |-> QuorumFailed(results),
                                     limit |-> AtLeastOne(threshold), at |-> slot])
  BY DEF CloseTick
<1>2. PICK results \in [R -> BOOLEAN] :
         /\ st' = ApplyTick(st, results, slot, threshold, minFailing).st
         /\ log' = IF R = {} THEN log
                   ELSE Append(log, [failed |-> QuorumFailed(results),
                                     limit |-> AtLeastOne(threshold), at |-> slot])
  BY <1>1
<1>3. st \in StateRec /\ st.status # "paused" /\ slot \in Nat \ {0} /\ threshold \in Nat
  BY HistoryAssumption DEF HistoryTypeOK, HistoryAssumption
<1>4. CASE R = {}
  <2>1. ~Reported(results)
    BY <1>4 DEF Reported
  <2>2. st' = st
    BY <1>2, <1>3, <2>1 DEF ApplyTick, TickFailed, Stays
  <2> QED BY <1>2, <1>4, <2>2
<1>5. CASE R # {}
  <2> DEFINE seen == [st EXCEPT !.last = slot]
             e == [failed |-> QuorumFailed(results),
                   limit |-> AtLeastOne(threshold), at |-> slot]
  <2>1. Reported(results)
    BY <1>5 DEF Reported
  <2>2. /\ seen \in StateRec /\ seen.status = st.status
        /\ seen.failures = st.failures /\ seen.last = slot
    BY <1>3, SeenSpec
  <2>3. st' = IF QuorumFailed(results) THEN Fail(seen, threshold).st ELSE Pass(seen).st
    BY <1>2, <1>3, <1>5, <2>1, QuorumIsTickFailed DEF ApplyTick
  <2>4. QuorumFailed(results) \in BOOLEAN
    BY DEF QuorumFailed
  <2>5. e \in LogRec /\ e.limit \in Nat \ {0}
    BY <1>3, <2>4, AtLeastOneType DEF LogRec
  <2>6. log' = Append(log, e)
    BY <1>2, <1>5
  <2>7. CASE QuorumFailed(results)
    <3>1. /\ st' \in StateRec /\ st'.last = slot /\ st'.failures = st.failures + 1
          /\ st'.status = IF st.failures + 1 >= AtLeastOne(threshold)
                          THEN "down" ELSE st.status
      BY <1>3, <2>2, <2>3, <2>7, FailSpec
    <3> QED BY <2>5, <2>6, <2>7, <3>1 DEF Recorded
  <2>8. CASE ~QuorumFailed(results)
    <3>1. /\ st' \in StateRec /\ st'.last = slot
          /\ st'.failures = 0 /\ st'.status = "up"
      BY <2>2, <2>3, <2>8, PassSpec
    <3> QED BY <2>5, <2>6, <2>8, <3>1 DEF Recorded
  <2> QED BY <2>7, <2>8
<1> QED BY <1>4, <1>5

\* The nodata timer changes the status alone (check_nodata).
LEMMA TimerEffect ==
    ASSUME HistoryTypeOK, Timer
    PROVE  /\ st.status = "up" /\ st' \in StateRec /\ st'.status = "nodata"
           /\ st'.failures = st.failures /\ st'.last = st.last
<1>1. st' = Move(st, "nodata", st.failures).st /\ st.status = "up"
  BY DEF Timer, CheckNoData, NoData
<1>2. st \in StateRec /\ "nodata" \in Statuses
  BY DEF HistoryTypeOK, Statuses
<1> QED BY <1>1, <1>2, MoveSpec, StateFields

-----------------------------------------------------------------------------
(* The inductive invariant. *)

\* The initial states satisfy the inductive invariant.
LEMMA HistoryInitInv == HistoryInit => HistoryInv
<1> SUFFICES ASSUME HistoryInit PROVE HistoryInv
  OBVIOUS
<1>1. HistoryTypeOK
  BY DEF HistoryInit, HistoryTypeOK, Fresh, StateRec, Statuses, Never
<1>2. st.failures = 0 /\ Len(log) = 0 /\ st.status = "pending" /\ st.last = Never
  BY DEF HistoryInit, Fresh
<1>3. FailuresAreTheStreak
  BY <1>2 DEF FailuresAreTheStreak
<1>4. StatusFollowsHistory
  BY <1>2 DEF StatusFollowsHistory, StreakReached, EverPassed, FailedFrom
<1>5. SilencesArePast /\ LastIsLast
  BY <1>2 DEF HistoryInit, SilencesArePast, LastIsLast
<1> QED BY <1>1, <1>3, <1>4, <1>5 DEF HistoryInv

\* Every step keeps the types.
LEMMA TypeStep ==
    ASSUME HistoryTypeOK, [HistoryNext]_historyVars
    PROVE  HistoryTypeOK'
<1> USE DEF HistoryTypeOK
<1>1. CASE CloseTick
  <2>1. UNCHANGED <<slot, threshold, minFailing, silences>>
    BY <1>1 DEF CloseTick
  <2>2. CASE \E e \in LogRec : Recorded(e)
    <3>1. PICK e \in LogRec : Recorded(e)
      BY <2>2
    <3>2. st'.status # "paused" /\ st'.last = slot
      BY <3>1 DEF Recorded
    <3>3. st' \in StateRec /\ log' \in Seq(LogRec)
      BY <3>1 DEF Recorded
    <3> QED BY <2>1, <3>2, <3>3
  <2> QED BY <1>1, <2>1, <2>2, CloseTickEffect
<1>2. CASE Timer
  <2>1. UNCHANGED <<slot, threshold, minFailing, log>> /\ silences' = silences \union {Len(log)}
    BY <1>2 DEF Timer
  <2>2. Len(log) \in Nat
    BY DEF HistoryTypeOK
  <2>3. silences' \in SUBSET Nat
    BY <2>1, <2>2
  <2>4. st' \in StateRec /\ st'.status # "paused" /\ st'.last = st.last
    BY <1>2, TimerEffect
  <2> QED BY <2>1, <2>3, <2>4
<1>3. CASE Edit
  BY <1>3 DEF Edit
<1>4. CASE Wait
  <2>1. st.last \in Nat
    BY StateFields
  <2> QED BY <1>4, <2>1 DEF Wait
<1>5. CASE UNCHANGED historyVars
  BY <1>5 DEF historyVars
<1> QED BY <1>1, <1>2, <1>3, <1>4, <1>5 DEF HistoryNext

\* Every step keeps the count of failures at the length of the streak
\* (apply_tick).
LEMMA StreakStep ==
    ASSUME HistoryInv, [HistoryNext]_historyVars
    PROVE  FailuresAreTheStreak'
<1>0. HistoryTypeOK /\ FailuresAreTheStreak /\ st.failures \in Nat /\ log \in Seq(LogRec)
  BY StateFields DEF HistoryInv, HistoryTypeOK
<1>1. CASE log' = log /\ st'.failures = st.failures
  BY <1>0, <1>1 DEF FailuresAreTheStreak
<1>2. CASE \E e \in LogRec : Recorded(e)
  <2>1. PICK e \in LogRec : Recorded(e)
    BY <1>2
  <2>2. /\ Len(log') = Len(log) + 1 /\ log'[Len(log) + 1] = e
        /\ \A i \in 1 .. Len(log) : log'[i] = log[i]
    BY <1>0, <2>1 DEF Recorded
  <2>3. CASE e.failed
    BY <1>0, <2>1, <2>2, <2>3 DEF Recorded, FailuresAreTheStreak
  <2>4. CASE ~e.failed
    BY <1>0, <2>1, <2>2, <2>4 DEF Recorded, FailuresAreTheStreak
  <2> QED BY <2>1, <2>3, <2>4 DEF LogRec
<1> QED
  <2>1. CASE CloseTick
    BY <1>0, <1>1, <1>2, <2>1, CloseTickEffect
  <2>2. CASE Timer
    BY <1>0, <1>1, <2>2, TimerEffect DEF Timer
  <2>3. CASE Edit \/ Wait \/ UNCHANGED historyVars
    BY <1>1, <2>3 DEF Edit, Wait, historyVars
  <2> QED BY <2>1, <2>2, <2>3 DEF HistoryNext

\* Every step keeps the time of the last tick, and the silences within the history.
LEMMA PastStep ==
    ASSUME HistoryInv, [HistoryNext]_historyVars
    PROVE  SilencesArePast' /\ LastIsLast'
<1>0. HistoryTypeOK /\ SilencesArePast /\ LastIsLast /\ log \in Seq(LogRec) /\ Len(log) \in Nat
  BY DEF HistoryInv, HistoryTypeOK
<1>1. CASE log' = log /\ st'.last = st.last /\ silences' \subseteq silences \union {Len(log)}
  <2>1. SilencesArePast'
    BY <1>0, <1>1, SMTT(30) DEF SilencesArePast, HistoryTypeOK
  <2>2. LastIsLast'
    BY <1>0, <1>1, SMTT(30) DEF LastIsLast
  <2> QED BY <2>1, <2>2
<1>2. CASE UNCHANGED silences /\ \E e \in LogRec : Recorded(e)
  <2>1. PICK e \in LogRec : Recorded(e)
    BY <1>2
  <2>2. Len(log') = Len(log) + 1 /\ log'[Len(log')] = e /\ log' # <<>>
    BY <1>0, <2>1 DEF Recorded
  <2>3. LastIsLast'
    BY <2>1, <2>2 DEF LastIsLast, Recorded
  <2>4. SilencesArePast'
    BY <1>0, <1>2, <2>2 DEF SilencesArePast, HistoryTypeOK
  <2> QED BY <2>3, <2>4
<1> QED
  <2>1. CASE CloseTick
    BY <1>0, <1>1, <1>2, <2>1, CloseTickEffect DEF CloseTick
  <2>2. CASE Timer
    BY <1>0, <1>1, <2>2, TimerEffect DEF Timer
  <2>3. CASE Edit \/ Wait \/ UNCHANGED historyVars
    BY <1>1, <2>3 DEF Edit, Wait, historyVars
  <2> QED BY <2>1, <2>2, <2>3 DEF HistoryNext

(* The status in terms of the counter, and why that is the history's. *)

SinceLastPass == Len(log) - st.failures
CountReached == \E i \in 1 .. st.failures : log[SinceLastPass + i].limit <= i
SilentSinceCount == \E n \in silences : n >= SinceLastPass
CountPassed == SinceLastPass > 0

StatusByCount ==
    /\ st.status = "down" <=> CountReached
    /\ st.status = "pending" <=> ~CountReached /\ ~CountPassed
    /\ st.status = "nodata" <=> ~CountReached /\ CountPassed /\ SilentSinceCount
    /\ st.status = "up" <=> ~CountReached /\ CountPassed /\ ~SilentSinceCount

\* What the history says of the status is what the count of failures says.
LEMMA StatusIsByCount ==
    ASSUME HistoryTypeOK, FailuresAreTheStreak
    PROVE  StatusFollowsHistory <=> StatusByCount
<1> DEFINE n == Len(log)
           f == st.failures
           s == SinceLastPass
<1>0. n \in Nat /\ f \in Nat /\ f <= n /\ s = n - f /\ s \in Nat /\ silences \subseteq Nat
  BY StateFields DEF HistoryTypeOK, FailuresAreTheStreak, SinceLastPass
<1>1. FailedFrom(s + 1) /\ (s > 0 => ~log[s].failed)
  <2>1. \A i \in s + 1 .. n : log[i].failed
    BY <1>0 DEF FailuresAreTheStreak
  <2>2. s > 0 => ~log[s].failed
    BY <1>0 DEF FailuresAreTheStreak
  <2> QED BY <2>1, <2>2 DEF FailedFrom
<1> HIDE DEF s, n, f
<1>2. \A k \in Nat \ {0} : FailedFrom(k) <=> k > s
  <2> SUFFICES ASSUME NEW k \in Nat \ {0} PROVE FailedFrom(k) <=> k > s
    OBVIOUS
  <2>1. CASE k > s
    BY <1>0, <1>1, <2>1 DEF FailedFrom, n
  <2>2. CASE k <= s
    <3>1. s \in k .. n /\ ~log[s].failed
      BY <1>0, <1>1, <2>2
    <3> QED BY <1>0, <2>2, <3>1 DEF FailedFrom, n
  <2> QED BY <1>0, <2>1, <2>2
<1>3. EverPassed <=> CountPassed
  BY <1>0, <1>2 DEF EverPassed, CountPassed, s
<1>4. SilentSincePass <=> SilentSinceCount
  <2>1. \A k \in silences : FailedFrom(k + 1) <=> k >= s
    BY <1>0, <1>2
  <2> QED BY <2>1 DEF SilentSincePass, SilentSinceCount, s
<1>5. StreakReached <=> CountReached
  <2>1. ASSUME StreakReached PROVE CountReached
    <3>1. PICK first, i \in 1 .. n :
             /\ FailedFrom(first) /\ (first = 1 \/ ~log[first - 1].failed)
             /\ first <= i /\ log[i].limit <= i - first + 1
      BY <2>1 DEF StreakReached, n
    <3>2. first > s
      BY <1>0, <1>2, <3>1
    <3>3. first = s + 1
      <4>1. CASE first = 1
        BY <1>0, <3>2, <4>1
      <4>2. CASE first > s + 1
        <5>1. first - 1 \in s + 1 .. n
          BY <1>0, <3>1, <4>2
        <5>2. log[first - 1].failed
          BY <1>1, <5>1 DEF FailedFrom, n
        <5> QED BY <1>0, <3>1, <4>2, <5>2
      <4> QED BY <1>0, <3>1, <3>2, <4>1, <4>2
    <3>4. i - s \in 1 .. f /\ s + (i - s) = i /\ i - first + 1 = i - s
      BY <1>0, <3>1, <3>3
    <3> QED BY <3>1, <3>4 DEF CountReached, s, f
  <2>2. ASSUME CountReached PROVE StreakReached
    <3>1. PICK k \in 1 .. f : log[s + k].limit <= k
      BY <2>2 DEF CountReached, s, f
    <3>2. /\ s + 1 \in 1 .. n /\ s + k \in 1 .. n /\ s + 1 <= s + k
          /\ (s + k) - (s + 1) + 1 = k /\ (s + 1) - 1 = s
      BY <1>0, <3>1
    <3>3. s + 1 = 1 \/ ~log[(s + 1) - 1].failed
      BY <1>0, <1>1, <3>2
    <3> QED BY <1>1, <3>1, <3>2, <3>3 DEF StreakReached, n
  <2> QED BY <2>1, <2>2
<1> QED BY <1>3, <1>4, <1>5 DEF StatusFollowsHistory, StatusByCount

\* Every step keeps the status the one the count of failures says.
LEMMA StatusStep ==
    ASSUME HistoryInv, [HistoryNext]_historyVars
    PROVE  StatusByCount'
<1> USE DEF StatusByCount, CountReached, CountPassed, SilentSinceCount, SinceLastPass
<1>0. /\ HistoryTypeOK /\ FailuresAreTheStreak /\ StatusByCount /\ SilencesArePast
      /\ st.failures \in Nat /\ log \in Seq(LogRec) /\ Len(log) \in Nat
      /\ silences \subseteq Nat /\ st.failures <= Len(log)
      /\ st.status \in {"pending", "up", "down", "nodata"}
  BY StateFields, StatusIsByCount DEF HistoryInv, HistoryTypeOK, Statuses, FailuresAreTheStreak
<1>1. CASE st' = st /\ log' = log /\ silences' = silences
  BY <1>0, <1>1
<1>2. CASE UNCHANGED silences /\ \E e \in LogRec : Recorded(e)
  <2>1. PICK e \in LogRec : Recorded(e)
    BY <1>2
  <2>2. /\ Len(log') = Len(log) + 1 /\ log'[Len(log) + 1] = e
        /\ \A i \in 1 .. Len(log) : log'[i] = log[i]
        /\ e.limit \in Nat
    BY <1>0, <2>1 DEF Recorded, LogRec
  <2>3. CASE e.failed
    <3>0. /\ st'.failures = st.failures + 1
          /\ st'.status = IF st.failures + 1 >= e.limit THEN "down" ELSE st.status
      BY <2>1, <2>3 DEF Recorded
    <3>1. SinceLastPass' = SinceLastPass /\ SinceLastPass \in Nat
      <4> DEFINE n == Len(log)
                 f == st.failures
      <4>1. n \in Nat /\ f \in Nat /\ f <= n
        BY <1>0
      <4>2. SinceLastPass' = (n + 1) - (f + 1) /\ SinceLastPass = n - f
        BY <2>2, <3>0
      <4> HIDE DEF n, f, SinceLastPass
      <4> QED BY <4>1, <4>2
    <3>2. CountPassed' <=> CountPassed
      BY <3>1
    <3>3. SilentSinceCount' <=> SilentSinceCount
      BY <1>2, <3>1
    <3>4. CountReached' <=> CountReached \/ e.limit <= st.failures + 1
      <4>1. \A i \in 1 .. st.failures : log'[SinceLastPass + i] = log[SinceLastPass + i]
        BY <1>0, <2>2, SMTT(30)
      <4>2. log'[SinceLastPass + st.failures + 1] = e
        BY <1>0, <2>2
      <4>3. st'.failures = st.failures + 1 /\ SinceLastPass' = SinceLastPass
        BY <3>0, <3>1
      <4>4. CountReached' <=> \E i \in 1 .. st.failures + 1 : log'[SinceLastPass + i].limit <= i
        BY <4>3
      <4> HIDE DEF SinceLastPass
      <4>5. ASSUME CountReached' PROVE CountReached \/ e.limit <= st.failures + 1
        <5>1. PICK i \in 1 .. st.failures + 1 : log'[SinceLastPass + i].limit <= i
          BY <4>4, <4>5
        <5>2. CASE i = st.failures + 1
          BY <1>0, <3>1, <4>2, <5>1, <5>2
        <5>3. CASE i \in 1 .. st.failures
          BY <4>1, <5>1, <5>3
        <5> QED BY <1>0, <5>2, <5>3
      <4>6. ASSUME CountReached PROVE CountReached'
        <5>1. PICK i \in 1 .. st.failures : log[SinceLastPass + i].limit <= i
          BY <4>6
        <5> QED BY <1>0, <4>1, <4>4, <5>1
      <4>7. ASSUME e.limit <= st.failures + 1 PROVE CountReached'
        <5>1. SinceLastPass + (st.failures + 1) = SinceLastPass + st.failures + 1
          BY <1>0, <3>1
        <5>2. log'[SinceLastPass + (st.failures + 1)].limit <= st.failures + 1
          BY <4>2, <4>7, <5>1
        <5> QED BY <1>0, <4>4, <5>2
      <4> QED BY <4>5, <4>6, <4>7
    <3> HIDE DEF CountReached, CountPassed, SilentSinceCount
    <3> QED BY <1>0, <2>2, <3>0, <3>2, <3>3, <3>4
  <2>4. CASE ~e.failed
    <3>1. st'.failures = 0 /\ st'.status = "up" /\ SinceLastPass' = Len(log) + 1
      BY <1>0, <2>1, <2>2, <2>4 DEF Recorded
    <3>2. ~CountReached' /\ CountPassed'
      BY <1>0, <3>1
    <3>3. ~SilentSinceCount'
      BY <1>0, <1>2, <3>1 DEF SilencesArePast
    <3> HIDE DEF CountReached, CountPassed, SilentSinceCount
    <3> QED BY <3>1, <3>2, <3>3
  <2> QED BY <2>1, <2>3, <2>4 DEF LogRec
<1>3. CASE Timer
  <2>1. /\ st.status = "up" /\ st'.status = "nodata" /\ st'.failures = st.failures
        /\ log' = log /\ silences' = silences \union {Len(log)}
    BY <1>0, <1>3, TimerEffect DEF Timer
  <2>2. ~CountReached' /\ CountPassed'
    BY <1>0, <2>1
  <2>3. SilentSinceCount'
    BY <1>0, <2>1
  <2> HIDE DEF CountReached, CountPassed, SilentSinceCount
  <2> QED BY <2>1, <2>2, <2>3
<1> QED
  <2>1. CASE CloseTick
    BY <1>0, <1>1, <1>2, <2>1, CloseTickEffect DEF CloseTick
  <2>2. CASE Edit \/ Wait \/ UNCHANGED historyVars
    BY <1>1, <2>2 DEF Edit, Wait, historyVars
  <2> QED BY <1>3, <2>1, <2>2 DEF HistoryNext

\* Every step keeps the inductive invariant.
LEMMA HistoryStepInv == HistoryInv /\ [HistoryNext]_historyVars => HistoryInv'
<1> SUFFICES ASSUME HistoryInv, [HistoryNext]_historyVars PROVE HistoryInv'
  OBVIOUS
<1>1. HistoryTypeOK' /\ FailuresAreTheStreak' /\ StatusByCount'
  BY TypeStep, StreakStep, StatusStep DEF HistoryInv
<1>2. (HistoryTypeOK /\ FailuresAreTheStreak => (StatusFollowsHistory <=> StatusByCount))'
  BY StatusIsByCount, PTL
<1> QED BY <1>1, <1>2, PastStep DEF HistoryInv

\* The machine's count of failures, last tick and status are what the whole history of
\* closed ticks says, after every history (apply_tick, check_nodata).
THEOREM Invariance == HistorySpec => []HistoryInv
  BY HistoryInitInv, HistoryStepInv, PTL DEF HistorySpec

-----------------------------------------------------------------------------
(* The theorems. *)

\* Every state of the machine is well-typed, never paused by a tick, and its
\* last_result_at is not in the future.
THEOREM HistoryTyped == HistorySpec => []HistoryTypeOK
<1>1. HistoryInv => HistoryTypeOK
  BY DEF HistoryInv
<1> QED BY Invariance, <1>1, PTL

\* consecutive_failures is the number of failed ticks since the last pass.
THEOREM FailuresCounted == HistorySpec => []FailuresAreTheStreak
<1>1. HistoryInv => FailuresAreTheStreak
  BY DEF HistoryInv
<1> QED BY Invariance, <1>1, PTL

\* Down after `threshold` consecutive failed ticks and only then, up after
\* one pass, nodata after a silence: for every history, threshold and quorum.
THEOREM StatusIsTheHistorys == HistorySpec => []StatusFollowsHistory
<1>1. HistoryInv => StatusFollowsHistory
  BY DEF HistoryInv
<1> QED BY Invariance, <1>1, PTL

\* The nodata timer counts from the last tick that reported anything.
THEOREM SilenceTimed == HistorySpec => []SilenceIsTimed
<1>1. HistoryInv => SilenceIsTimed
  <2> SUFFICES ASSUME HistoryInv PROVE SilenceIsTimed
    OBVIOUS
  <2>1. st.last = (IF log = <<>> THEN Never ELSE log[Len(log)].at) /\ log \in Seq(LogRec)
    BY DEF HistoryInv, HistoryTypeOK, LastIsLast
  <2>2. CASE log = <<>>
    BY <2>1, <2>2 DEF SilenceIsTimed, NoData
  <2>3. CASE log # <<>>
    <3>1. Len(log) \in DOMAIN log /\ log[Len(log)] \in LogRec
      BY <2>1, <2>3, EmptySeq, ElementOfSeq
    <3>2. st.last \in Nat \ {0} /\ slot \in Nat
      BY <2>1, <2>3, <3>1 DEF LogRec, HistoryInv, HistoryTypeOK
    <3> QED BY <2>1, <2>3, <3>2 DEF SilenceIsTimed, NoData, Never
  <2> QED BY <2>2, <2>3
<1> QED BY Invariance, <1>1, PTL

-----------------------------------------------------------------------------
(* The evaluator's tasks.  What a step of the machine does to the number. *)

\* A step from s: either nothing is announced and the number stays, or the next
\* number is (apply_tick, check_nodata).
StepsFrom(s, step) ==
    /\ step.st \in StateRec /\ step.tr \in TransitionRec
    /\ \/ step.tr = NoTransition /\ step.st.seq = s.seq
       \/ step.tr.seq = s.seq + 1 /\ step.st.seq = s.seq + 1

\* A move takes the next number (_move).
LEMMA MoveSteps ==
    ASSUME NEW s \in StateRec, NEW to \in Statuses, NEW failures \in Nat
    PROVE  StepsFrom(s, Move(s, to, failures))
  BY StateFields DEF StepsFrom, Move, StateRec, TransitionRec

\* A state with the same number and nothing announced.
LEMMA StaysSteps ==
    ASSUME NEW s \in StateRec, NEW t \in StateRec, t.seq = s.seq
    PROVE  StepsFrom(s, Stays(t))
  BY DEF StepsFrom, Stays, NoTransition, TransitionRec, Statuses

\* Neither a new tick time nor a new count of failures changes the number.
LEMMA SameNumber ==
    ASSUME NEW s \in StateRec, NEW n \in Nat
    PROVE  /\ [s EXCEPT !.last = n] \in StateRec /\ [s EXCEPT !.last = n].seq = s.seq
           /\ [s EXCEPT !.failures = n] \in StateRec /\ [s EXCEPT !.failures = n].seq = s.seq
  BY DEF StateRec

\* A closed tick takes the next number or keeps it (apply_tick).
LEMMA ApplyTickSteps ==
    ASSUME NEW s \in StateRec, NEW results, NEW at \in Nat, NEW limit \in Nat, NEW quorum
    PROVE  StepsFrom(s, ApplyTick(s, results, at, limit, quorum))
<1> DEFINE seen == [s EXCEPT !.last = at]
           step == ApplyTick(s, results, at, limit, quorum)
<1>1. seen \in StateRec /\ seen.seq = s.seq
  BY SameNumber
<1>2. seen.failures \in Nat /\ seen.failures + 1 \in Nat /\ "up" \in Statuses /\ "down" \in Statuses
  BY <1>1, StateFields DEF Statuses
<1> HIDE DEF seen
<1>3. StepsFrom(seen, Pass(seen))
  <2>1. CASE seen.status = "up"
    <3>1. Pass(seen) = Stays([seen EXCEPT !.failures = 0])
      BY <2>1 DEF Pass
    <3> QED BY <1>1, <3>1, SameNumber, StaysSteps
  <2>2. CASE seen.status # "up"
    <3>1. Pass(seen) = Move(seen, "up", 0)
      BY <2>2 DEF Pass
    <3> QED BY <1>1, <1>2, <3>1, MoveSteps
  <2> QED BY <2>1, <2>2
<1>4. StepsFrom(seen, Fail(seen, limit))
  <2>1. CASE seen.status # "down" /\ seen.failures + 1 >= AtLeastOne(limit)
    <3>1. Fail(seen, limit) = Move(seen, "down", seen.failures + 1)
      BY <2>1 DEF Fail
    <3> QED BY <1>1, <1>2, <3>1, MoveSteps
  <2>2. CASE ~(seen.status # "down" /\ seen.failures + 1 >= AtLeastOne(limit))
    <3>1. Fail(seen, limit) = Stays([seen EXCEPT !.failures = seen.failures + 1])
      BY <2>2 DEF Fail
    <3> QED BY <1>1, <1>2, <3>1, SameNumber, StaysSteps
  <2> QED BY <2>1, <2>2
<1>5. step \in {Stays(s), Fail(seen, limit), Pass(seen)}
  BY DEF ApplyTick, seen
<1>6. StepsFrom(s, Stays(s))
  BY StaysSteps
<1> QED BY <1>1, <1>3, <1>4, <1>5, <1>6 DEF StepsFrom

\* So does the nodata timer (check_nodata).
LEMMA CheckNoDataSteps ==
    ASSUME NEW s \in StateRec, NEW time, NEW interval
    PROVE  StepsFrom(s, CheckNoData(s, time, interval))
<1>1. "nodata" \in Statuses /\ s.failures \in Nat
  BY StateFields DEF Statuses
<1>2. CheckNoData(s, time, interval) \in {Move(s, "nodata", s.failures), Stays(s)}
  BY DEF CheckNoData
<1> QED BY <1>1, <1>2, MoveSteps, StaysSteps

\* What monitor_state answers is a state: the working one or the row's.
LEMMA MonitorStateType ==
    ASSUME TypeOK, NEW row \in RowRec
    PROVE  /\ MonitorState(row) \in StateRec
           /\ MonitorState(row).seq \in {mon.seq, row.seq}
<1>1. Fresh(row.status, row.failures, row.seq) \in StateRec
      /\ Fresh(row.status, row.failures, row.seq).seq = row.seq
  BY DEF Fresh, StateRec, RowRec, Never
<1> QED BY <1>1 DEF MonitorState, TypeOK

-----------------------------------------------------------------------------
(* Types. *)

\* The fields of a task.
LEMMA TaskFields ==
    ASSUME TypeOK, NEW w \in Workers
    PROVE  /\ task[w] \in TaskRec
           /\ task[w].pc \in Pcs /\ task[w].of \in {"message", "flush", "ticks", "idle"}
           /\ task[w].tick \in 0 .. MaxTick /\ task[w].region \in Regions \union {NoRegion}
           /\ task[w].row \in RowRec /\ task[w].rec \in TickRec /\ task[w].st \in StateRec
           /\ task[w].tr \in TransitionRec /\ task[w].read \in 0 .. MaxTick
           /\ task[w].since \in 0 .. MaxTime /\ task[w].todo \in SUBSET Nat
<1>1. task[w] \in TaskRec
  BY DEF TypeOK
<1> QED BY <1>1 DEF TaskRec

\* A task works on what its step needs: a message's tick and region, or a tick
\* of the sweep, or neither (on_result, sweep).
Lawful(k) ==
    /\ k \in TaskRec
    /\ k.pc \in {"read", "put", "mark"} => k.of = "message"
    /\ k.pc \in {"apply", "closed", "close", "drop"} => k.of \in {"message", "ticks"}
    /\ k.pc \in {"emit", "save"} => k.of # "flush"
    /\ k.pc = "flush" => k.of = "flush"
    /\ k.pc = "ticks" => k.of = "ticks"
    /\ k.pc = "timer" => k.of = "idle"
    /\ k.of = "message" => k.pc = "idle" \/ (k.tick \in Ticks /\ k.region \in Regions)
    /\ k.of = "ticks" => k.pc = "ticks" \/ k.tick \in Ticks

TypeInv == TypeOK /\ \A w \in Workers : Lawful(task[w])

\* A task's step changes that task alone.
LEMMA GoesSpec ==
    ASSUME TypeInv, NEW w \in Workers, NEW rec, Goes(w, rec)
    PROVE  /\ task'[w] = rec
           /\ \A v \in Workers : v # w => task'[v] = task[v]
           /\ Lawful(rec) => /\ task' \in [Workers -> TaskRec]
                             /\ \A v \in Workers : Lawful(task'[v])
<1>1. task' = [task EXCEPT ![w] = rec] /\ task \in [Workers -> TaskRec]
  BY DEF TypeInv, TypeOK, Goes
<1>2. task'[w] = rec /\ \A v \in Workers : v # w => task'[v] = task[v]
  BY <1>1
<1>3. ASSUME Lawful(rec) PROVE task' \in [Workers -> TaskRec]
  BY <1>1, <1>3 DEF Lawful
<1>4. ASSUME Lawful(rec) PROVE \A v \in Workers : Lawful(task'[v])
  BY <1>2, <1>4 DEF TypeInv
<1> QED BY <1>2, <1>3, <1>4

\* An idle task is lawful; a task that only goes on to another await keeps its
\* other fields.
LEMMA TaskTypes ==
    ASSUME TypeOK, NEW w \in Workers
    PROVE  \A pc \in Pcs : LET k == [task[w] EXCEPT !.pc = pc] IN
             /\ k \in TaskRec /\ k.pc = pc /\ k.of = task[w].of /\ k.tick = task[w].tick
             /\ k.region = task[w].region /\ k.row = task[w].row /\ k.rec = task[w].rec
             /\ k.st = task[w].st /\ k.tr = task[w].tr /\ k.read = task[w].read
             /\ k.since = task[w].since /\ k.todo = task[w].todo
  BY TaskFields DEF TaskRec

\* A tick nobody answered is a tick without answers.
LEMMA NoTickType == NoTick \in TickRec /\ Answered(NoTick) = {}
<1>1. NoTick.results \in [{} -> BOOLEAN] /\ NoTick.missing = {} /\ DOMAIN NoTick.results = {}
  BY DEF NoTick
<1> QED BY <1>1 DEF NoTick, TickRec, Answered

\* An idle task is lawful.
LEMMA IdleLawful == Lawful(Idle)
<1>1. NoState \in StateRec /\ NoTransition \in TransitionRec /\ NoRow \in RowRec
  BY DEF NoState, Fresh, StateRec, Never, NoTransition, TransitionRec, NoRow, RowRec, Statuses
<1>2. 0 \in 0 .. MaxTick /\ 0 \in 0 .. MaxTime
  BY EvaluatorAssumption DEF EvaluatorAssumption
<1>3. Idle \in TaskRec
  BY <1>1, <1>2, NoTickType DEF Idle, TaskRec, Pcs
<1>4. Idle.pc = "idle" /\ Idle.of = "message"
  BY DEF Idle
<1> QED BY <1>3, <1>4 DEF Lawful

\* A tick that heard one more answer is a tick (on_result).
LEMMA HeardType ==
    ASSUME NEW tick \in TickRec, NEW r \in Regions, NEW says \in Answers
    PROVE  /\ Heard(tick, r, says) \in TickRec
           /\ Answered(Heard(tick, r, says)) = Answered(tick) \union {r}
<1>1. PICK R \in SUBSET Regions : tick.results \in [R -> BOOLEAN]
  BY DEF TickRec
<1>2. tick.missing \in SUBSET Regions
  BY DEF TickRec
<1>3. CASE says = "missing"
  <2>1. Heard(tick, r, says) = [tick EXCEPT !.missing = @ \union {r}]
    BY <1>3 DEF Heard
  <2> QED BY <1>2, <2>1 DEF TickRec, Answered
<1>4. CASE says # "missing"
  <2> DEFINE more == [q \in DOMAIN tick.results \union {r} |->
                        IF q = r THEN says = "ok" ELSE tick.results[q]]
  <2>1. Heard(tick, r, says) = [tick EXCEPT !.results = more]
    BY <1>4 DEF Heard
  <2>2. more \in [R \union {r} -> BOOLEAN] /\ R \union {r} \in SUBSET Regions
    BY <1>1
  <2>3. DOMAIN more = DOMAIN tick.results \union {r}
    OBVIOUS
  <2> HIDE DEF more
  <2>4. [tick EXCEPT !.results = more] \in TickRec
    BY <2>2 DEF TickRec
  <2>5. [tick EXCEPT !.results = more].results = more
        /\ [tick EXCEPT !.results = more].missing = tick.missing
    BY DEF TickRec
  <2> QED BY <2>1, <2>3, <2>4, <2>5 DEF Answered
<1> QED BY <1>3, <1>4

\* The initial states are well-typed.
LEMMA InitTypes == Init => TypeOK
<1> SUFFICES ASSUME Init PROVE TypeOK
  OBVIOUS
<1>1. NoTick \in TickRec
  <2>1. NoTick.results \in [{} -> BOOLEAN] /\ NoTick.missing = {}
    BY DEF NoTick
  <2> QED BY <2>1 DEF NoTick, TickRec
<1>2. NoState \in StateRec /\ NoTransition \in TransitionRec /\ NoRow \in RowRec
  BY DEF NoState, Fresh, StateRec, Never, NoTransition, TransitionRec, NoRow, RowRec, Statuses
<1>3. 0 \in 0 .. MaxTick /\ 0 \in 0 .. MaxTime
  BY EvaluatorAssumption DEF EvaluatorAssumption
<1>4. Idle \in TaskRec
  BY <1>1, <1>2, <1>3 DEF Idle, TaskRec, Pcs
<1>5. Unsent \in Message
  BY DEF Unsent, Message, Answers
<1>6. config \in RowRec
  BY DEF Init, RowRec, Statuses
<1>7. spent \in [{"cuts", "faults", "parked", "edits"} -> Nat]
  BY DEF Init
<1> QED BY <1>1, <1>2, <1>3, <1>4, <1>5, <1>6, <1>7 DEF Init, TypeOK, MarksTypeOK

\* What a task has computed is a state and a transition (_commit).
LEMMA ComputedType ==
    ASSUME TypeInv, NEW w \in Workers, NEW step,
           step.st \in StateRec, step.tr \in TransitionRec, Computed(w, step),
           task[w].pc = "apply" \/ task[w].pc = "timer"
    PROVE  /\ task' \in [Workers -> TaskRec]
           /\ \A v \in Workers : Lawful(task'[v])
<1> DEFINE k == [task[w] EXCEPT !.st = step.st, !.tr = step.tr, !.row = NoRow,
                                !.pc = AfterCompute(step)]
<1>1. NoRow \in RowRec /\ AfterCompute(step) \in {"emit", "save"}
  BY DEF NoRow, RowRec, Statuses, AfterCompute
<1>2. TypeOK /\ Lawful(task[w])
  BY DEF TypeInv
<1>3. k \in TaskRec /\ k.pc \in {"emit", "save"}
  BY <1>1, <1>2, TaskFields, ZenonT(40) DEF TaskRec, Pcs
<1>4. k.of = task[w].of /\ k.tick = task[w].tick /\ k.region = task[w].region
  BY <1>2, TaskFields DEF TaskRec
<1>5. Goes(w, k)
  BY DEF Computed
<1> HIDE DEF k
<1>6. Lawful(k)
  BY <1>2, <1>3, <1>4 DEF Lawful
<1> QED BY <1>5, <1>6, GoesSpec

\* A tick that reported is counted as one that failed or passed.
LEMMA TickFailedType ==
    ASSUME NEW tick \in TickRec
    PROVE  TickFailed(tick.results, MinFailing) \in BOOLEAN
  BY DEF TickFailed

\* A task about to save counts its tick, if it has one that reported; the entry.
CountsTick(w) == task[w].of \in {"message", "ticks"} /\ Reported(task[w].rec.results)
EntryOf(w) == [tick |-> task[w].tick, to |-> task[w].st.status,
               failed |-> TickFailed(task[w].rec.results, MinFailing)]
Entries == [tick : Ticks, failed : BOOLEAN, to : Statuses]

\* What saving counts: nothing, or one tick more, the last (save).
LEMMA SaveCounts ==
    ASSUME TypeInv, NEW w \in Workers, Save(w)
    PROVE  /\ counted \in Seq(Entries) /\ counted' \in Seq(Entries)
           /\ Len(counted) \in Nat /\ DOMAIN counted = 1 .. Len(counted)
           /\ ~CountsTick(w) => counted' = counted
           /\ CountsTick(w) =>
                /\ task[w].tick \in Ticks
                /\ Len(counted') = Len(counted) + 1 /\ DOMAIN counted' = 1 .. Len(counted) + 1
                /\ \A i \in 1 .. Len(counted) : counted'[i] = counted[i]
                /\ counted'[Len(counted) + 1] = EntryOf(w)
<1>1. counted \in Seq(Entries)
  BY DEF TypeInv, TypeOK, Entries
<1>2. Len(counted) \in Nat /\ DOMAIN counted = 1 .. Len(counted)
  BY <1>1
<1>3. counted' = IF CountsTick(w) THEN Append(counted, EntryOf(w)) ELSE counted
  BY DEF Save, CountsTick, EntryOf
<1>4. ASSUME CountsTick(w) PROVE task[w].tick \in Ticks /\ EntryOf(w) \in Entries
  <2>1. task[w].tick \in Ticks
    BY <1>4 DEF TypeInv, Lawful, CountsTick, Save, At
  <2> QED BY <2>1, TaskFields, TickFailedType, StateFields DEF TypeInv, EntryOf, Entries
<1>5. ASSUME CountsTick(w)
      PROVE  /\ counted' \in Seq(Entries)
             /\ Len(counted') = Len(counted) + 1 /\ DOMAIN counted' = 1 .. Len(counted) + 1
             /\ \A i \in 1 .. Len(counted) : counted'[i] = counted[i]
             /\ counted'[Len(counted) + 1] = EntryOf(w)
  <2> DEFINE e == EntryOf(w)
  <2>1. counted' = Append(counted, e) /\ e \in Entries
    BY <1>3, <1>4, <1>5
  <2> HIDE DEF e
  <2>2. /\ counted' \in Seq(Entries)
        /\ Len(counted') = Len(counted) + 1 /\ DOMAIN counted' = 1 .. Len(counted) + 1
        /\ \A i \in 1 .. Len(counted) : counted'[i] = counted[i]
        /\ counted'[Len(counted) + 1] = e
    BY <1>1, <1>2, <2>1
  <2> QED BY <2>2 DEF e
<1> QED BY <1>1, <1>2, <1>3, <1>4, <1>5

\* Every step keeps the types of what the history marks.
LEMMA MarksTypes ==
    ASSUME TypeInv, [Next]_vars
    PROVE  MarksTypeOK'
<1> USE DEF env, valkey, history
<1>0. /\ TypeOK /\ MarksTypeOK /\ Len(counted) \in Nat /\ "job" \in Workers
      /\ \A w \in Workers : task[w].tr.seq \in Nat /\ task[w].st.seq \in Nat
  <2>1. TypeOK
    BY DEF TypeInv
  <2>2. ASSUME NEW w \in Workers PROVE task[w].tr.seq \in Nat /\ task[w].st.seq \in Nat
    BY <2>1, TaskFields, StateFields DEF TransitionRec
  <2>3. counted \in Seq(Entries) /\ MarksTypeOK
    BY <2>1 DEF TypeOK, Entries
  <2> QED BY <2>1, <2>2, <2>3 DEF Workers
<1>1. ASSUME NEW w \in Workers, NEW step, step.tr.seq \in Nat, Computed(w, step),
             UNCHANGED <<counted, disturbed>>
      PROVE  MarksTypeOK'
  <2>1. Clashing(w, step) \subseteq Nat
    BY <1>1 DEF Clashing
  <2>2. contested' = contested \union Clashing(w, step)
        /\ (seams' = seams \/ seams' = seams \union {Len(counted)})
    BY <1>1 DEF Computed
  <2> QED BY <1>0, <1>1, <2>1, <2>2 DEF MarksTypeOK
<1>2. ASSUME NEW w \in Workers, Handle(w) PROVE MarksTypeOK'
  <2>1. ASSUME NEW t \in Ticks, NEW r \in Regions, Deliver(w, t, r) PROVE MarksTypeOK'
    <3>1. disturbed' \subseteq disturbed \union {t}
      BY <2>1 DEF Deliver, TakesTick
    <3>2. UNCHANGED <<contested, seams>>
      BY <2>1 DEF Deliver
    <3> QED BY <1>0, <3>1, <3>2 DEF MarksTypeOK
  <2>2. CASE Apply(w)
    <3> DEFINE s == MonitorState(task[w].row)
               step == ApplyTick(s, task[w].rec.results, task[w].tick, Threshold, MinFailing)
    <3>1. s \in StateRec /\ task[w].tick \in Nat /\ Threshold \in Nat
      BY <1>0, TaskFields, MonitorStateType, EvaluatorAssumption DEF EvaluatorAssumption
    <3>2. StepsFrom(s, step)
      BY <3>1, ApplyTickSteps
    <3>3. Computed(w, step) /\ UNCHANGED <<counted, disturbed>>
      BY <2>2 DEF Apply
    <3> HIDE DEF step
    <3> QED BY <1>1, <3>2, <3>3 DEF StepsFrom, TransitionRec
  <2>3. CASE Save(w)
    <3> DEFINE more == UNION {task[v].st.seq + 1 .. task[w].st.seq : v \in {u \in Others(w) : HasState(u)}}
    <3>1. contested' = contested \union more /\ UNCHANGED disturbed
      BY <2>3 DEF Save
    <3>2. more \subseteq Nat
      <4>1. ASSUME NEW v \in Workers PROVE task[v].st.seq + 1 .. task[w].st.seq \subseteq Nat
        BY <1>0
      <4> QED BY <4>1 DEF Others
    <3>3. Len(counted') \in Nat
      BY <1>0, <2>3, SaveCounts
    <3>4. seams' = seams \/ seams' = seams \union {Len(counted')}
      BY <2>3 DEF Save
    <3> HIDE DEF more
    <3> QED BY <1>0, <3>1, <3>2, <3>3, <3>4 DEF MarksTypeOK
  <2>4. CASE PutClosed(w)
    BY <1>0, <2>4 DEF PutClosed, MarksTypeOK
  <2>5. CASE ReadTick(w) \/ PutTick(w) \/ Mark(w) \/ PutEmit(w) \/ Publish(w)
             \/ PublishFails(w) \/ Unemit(w) \/ ReadClosed(w) \/ DropTick(w)
    BY <1>0, <2>5 DEF ReadTick, PutTick, Mark, PutEmit, Publish, PublishFails, Unemit, ReadClosed,
                      DropTick, MarksTypeOK
  <2> QED BY <1>2, <2>1, <2>2, <2>3, <2>4, <2>5 DEF Handle
<1>3. CASE Sweep
  <2>1. CASE SweepTick
    <3>1. PICK t \in OpenTicks : disturbed' \subseteq disturbed \union {t}
      BY <2>1 DEF SweepTick, TakesTick, ToClose
    <3>2. UNCHANGED <<contested, seams>> /\ t \in Ticks
      BY <2>1, <3>1 DEF SweepTick, OpenTicks
    <3> QED BY <1>0, <3>1, <3>2 DEF MarksTypeOK
  <2>2. CASE SweepTimer
    <3> DEFINE s == MonitorState(task["job"].row)
               step == CheckNoData(s, task["job"].since, 1)
    <3>1. s \in StateRec
      BY <1>0, TaskFields, MonitorStateType
    <3>2. StepsFrom(s, step)
      BY <3>1, CheckNoDataSteps
    <3>3. \/ Computed("job", step) /\ UNCHANGED <<counted, disturbed>>
          \/ UNCHANGED <<disturbed, contested, seams>>
      BY <2>2 DEF SweepTimer
    <3> HIDE DEF step
    <3> QED BY <1>0, <1>1, <3>2, <3>3 DEF StepsFrom, TransitionRec, MarksTypeOK
  <2>3. CASE SweepInactive
    BY <1>0, <2>3 DEF SweepInactive, MarksTypeOK
  <2>4. CASE SweepStarts \/ FlushNext \/ FlushEnds \/ SweepTicksEnd
    BY <1>0, <2>4 DEF SweepStarts, FlushNext, FlushEnds, SweepTicksEnd, MarksTypeOK
  <2> QED BY <1>3, <2>1, <2>2, <2>3, <2>4 DEF Sweep
<1>4. ASSUME NEW w \in Workers, Cut(w) PROVE MarksTypeOK'
  BY <1>0, <1>4 DEF Cut, MarksTypeOK
<1>5. CASE Environment
  <2>1. CASE Slot \/ Toggle \/ Rewrite
    BY <1>0, <2>1 DEF Slot, Toggle, Rewrite, MarksTypeOK
  <2>2. ASSUME NEW t \in Ticks, NEW r \in Regions, Park(t, r) \/ GiveUp(t, r)
        PROVE  MarksTypeOK'
    BY <1>0, <2>2 DEF Park, GiveUp, MarksTypeOK
  <2> QED BY <1>4, <1>5, <2>1, <2>2 DEF Environment
<1>6. CASE UNCHANGED vars
  BY <1>0, <1>6 DEF vars, MarksTypeOK
<1> QED BY <1>2, <1>3, <1>5, <1>6 DEF Next

\* Every step of a task keeps the types (Evaluator).
LEMMA HandleTypes ==
    ASSUME TypeInv, NEW w \in Workers, Handle(w)
    PROVE  TypeInv'
<1> USE DEF env, valkey, history
<1> DEFINE k == task[w]
           Moved(pc) == [k EXCEPT !.pc = pc]
<1>0. /\ TypeOK /\ Lawful(k) /\ \A v \in Workers : Lawful(task[v])
      /\ k.tr \in TransitionRec /\ k.st \in StateRec /\ k.rec \in TickRec
      /\ k.tick \in 0 .. MaxTick /\ k.read \in 0 .. MaxTick /\ MarksTypeOK'
  BY TaskFields, MarksTypes DEF TypeInv, Next
<1>1. ASSUME NEW pc \in Pcs, GoesTo(w, pc),
             pc = "mark" => k.of = "message",
             pc \in {"closed", "close", "drop"} => k.of \in {"message", "ticks"},
             pc = "save" => k.of # "flush",
             pc = "flush" => k.of = "flush",
             pc = "ticks" => k.of = "ticks",
             pc \notin {"read", "put", "apply", "emit", "timer"},
             k.of = "message" => k.tick \in Ticks /\ k.region \in Regions,
             k.of = "ticks" => k.tick \in Ticks
      PROVE  /\ task' \in [Workers -> TaskRec]
             /\ \A v \in Workers : Lawful(task'[v])
  <2>1. /\ Moved(pc) \in TaskRec /\ Moved(pc).pc = pc /\ Moved(pc).of = k.of
        /\ Moved(pc).tick = k.tick /\ Moved(pc).region = k.region
    BY <1>0, <1>1, TaskTypes
  <2>2. Goes(w, Moved(pc))
    BY <1>1 DEF GoesTo
  <2> HIDE DEF Moved, k
  <2>3. Lawful(Moved(pc))
    BY <1>1, <2>1 DEF Lawful
  <2> QED BY <2>2, <2>3, GoesSpec
<1>2. /\ AfterPublish(w) \in {"closed", "flush", "idle"} /\ AfterPublish(w) \in Pcs
      /\ AfterPublish(w) = "closed" => k.of \in {"message", "ticks"}
      /\ AfterPublish(w) = "flush" => k.of = "flush"
  BY TaskFields DEF AfterPublish, Pcs, TypeInv
<1>3. ASSUME NEW t \in Ticks, NEW r \in Regions, Deliver(w, t, r) PROVE TypeInv'
  <2> DEFINE handled == ~config.active \/ IsLate(t)
             j == [Idle EXCEPT !.pc = IF handled THEN "mark" ELSE "read", !.tick = t,
                               !.region = r, !.row = IF handled THEN NoRow ELSE config]
  <2>1. t \in 0 .. MaxTick /\ config \in RowRec /\ NoRow \in RowRec /\ Idle \in TaskRec
    BY <1>0, IdleLawful, EvaluatorAssumption
       DEF EvaluatorAssumption, Ticks, TypeOK, NoRow, RowRec, Statuses, Lawful
  <2>2. Goes(w, j)
    BY <1>3 DEF Deliver
  <2>3. /\ j \in TaskRec /\ j.pc \in {"mark", "read"} /\ j.tick = t /\ j.region = r
        /\ j.of = "message"
    <3>1. Idle.of = "message"
      BY DEF Idle
    <3> HIDE DEF handled
    <3> QED BY <2>1, <3>1 DEF TaskRec, Pcs
  <2> HIDE DEF j
  <2>4. Lawful(j)
    BY <2>3 DEF Lawful
  <2>5. task' \in [Workers -> TaskRec] /\ \A v \in Workers : Lawful(task'[v])
    BY <2>2, <2>4, GoesSpec
  <2> QED BY <1>0, <1>3, <2>5 DEF Deliver, TypeOK, TypeInv
<1>4. CASE ReadTick(w)
  <2> DEFINE t == k.tick
             r == k.region
             tick == Heard(open[t], r, lane[t][r].says)
             pc == IF Regions \subseteq Answered(tick) THEN "apply" ELSE "put"
             j == [k EXCEPT !.rec = tick, !.pc = pc]
  <2>1. Goes(w, j)
    BY <1>4 DEF ReadTick
  <2>2. k.pc = "read" /\ k.of = "message" /\ t \in Ticks /\ r \in Regions
    BY <1>0, <1>4 DEF ReadTick, At, Lawful
  <2>3. open[t] \in TickRec /\ lane[t][r].says \in Answers
    BY <1>0, <2>2 DEF TypeOK, Message
  <2>4. tick \in TickRec
    BY <2>2, <2>3, HeardType
  <2>5. pc \in Pcs /\ pc \in {"apply", "put"}
    BY DEF Pcs
  <2> HIDE DEF tick, pc
  <2>6. /\ j \in TaskRec /\ j.pc = pc /\ j.of = k.of /\ j.tick = t /\ j.region = r
    BY <1>0, <2>4, <2>5, TaskFields DEF TaskRec
  <2> HIDE DEF j
  <2>7. Lawful(j)
    BY <2>2, <2>5, <2>6 DEF Lawful
  <2>8. task' \in [Workers -> TaskRec] /\ \A v \in Workers : Lawful(task'[v])
    BY <2>1, <2>7, GoesSpec
  <2> QED BY <1>0, <1>4, <2>8 DEF ReadTick, TypeOK, TypeInv
<1>5. CASE PutTick(w)
  <2>1. task' \in [Workers -> TaskRec] /\ \A v \in Workers : Lawful(task'[v])
    BY <1>0, <1>1, <1>5 DEF PutTick, At, Pcs, Lawful
  <2>2. open' \in [Ticks -> TickRec]
    BY <1>0, <1>5 DEF PutTick, TypeOK
  <2> QED BY <1>0, <1>5, <2>1, <2>2 DEF PutTick, TypeOK, TypeInv
<1>6. CASE Mark(w)
  <2>1. task' \in [Workers -> TaskRec] /\ \A v \in Workers : Lawful(task'[v])
    BY <1>6, IdleLawful, GoesSpec DEF Mark, Ends
  <2>2. Done \in Message
    BY DEF Done, Message, Answers
  <2>3. lane' \in [Ticks -> [Regions -> Message]]
    BY <1>0, <1>6, <2>2 DEF Mark, TypeOK
  <2> QED BY <1>0, <1>6, <2>1, <2>3 DEF Mark, TypeOK, TypeInv
<1>7. CASE Apply(w)
  <2> DEFINE step == ApplyTick(MonitorState(k.row), k.rec.results, k.tick,
                               Threshold, MinFailing)
  <2>1. StepsFrom(MonitorState(k.row), step)
    <3>1. MonitorState(k.row) \in StateRec /\ k.tick \in Nat /\ Threshold \in Nat
      BY <1>0, TaskFields, MonitorStateType, EvaluatorAssumption DEF EvaluatorAssumption
    <3> QED BY <3>1, ApplyTickSteps
  <2>2. Computed(w, step) /\ k.pc = "apply"
    BY <1>7 DEF Apply, At
  <2> HIDE DEF step
  <2>3. task' \in [Workers -> TaskRec] /\ \A v \in Workers : Lawful(task'[v])
    BY <2>1, <2>2, ComputedType DEF StepsFrom
  <2> QED BY <1>0, <1>7, <2>3 DEF Apply, TypeOK, TypeInv
<1>8. CASE PutEmit(w)
  <2>1. task' \in [Workers -> TaskRec] /\ \A v \in Workers : Lawful(task'[v])
    BY <1>0, <1>1, <1>8 DEF PutEmit, At, Pcs, Lawful
  <2>2. emit' \in SUBSET TransitionRec
    BY <1>0, <1>8 DEF PutEmit, Without, TypeOK
  <2> QED BY <1>0, <1>8, <2>1, <2>2 DEF PutEmit, TypeOK, TypeInv
<1>9. CASE Save(w)
  <2> DEFINE pc == IF k.tr = NoTransition THEN AfterPublish(w) ELSE "publish"
  <2>1. pc \in Pcs /\ k.pc = "save" /\ GoesTo(w, pc)
    BY <1>2, <1>9 DEF Pcs, Save, At
  <2>2. /\ pc \in {"closed", "flush", "idle", "publish"}
        /\ pc = "closed" => k.of \in {"message", "ticks"}
        /\ pc = "flush" => k.of = "flush"
    BY <1>2
  <2>3. /\ k.of = "message" => k.tick \in Ticks /\ k.region \in Regions
        /\ k.of = "ticks" => k.tick \in Ticks
    BY <1>0, <2>1 DEF Lawful
  <2> HIDE DEF pc, k
  <2>4. task' \in [Workers -> TaskRec] /\ \A v \in Workers : Lawful(task'[v])
    BY <1>1, <2>1, <2>2, <2>3
  <2>5. mon' \in StateRec
    BY <1>0, <1>9 DEF Save, k
  <2>6. counted' \in Seq([tick : Ticks, failed : BOOLEAN, to : Statuses])
    BY <1>9, SaveCounts DEF Entries
  <2> QED BY <1>0, <1>9, <2>4, <2>5, <2>6 DEF Save, TypeOK, TypeInv
<1>10. CASE Publish(w)
  <2>1. task' \in [Workers -> TaskRec] /\ \A v \in Workers : Lawful(task'[v])
    BY <1>0, <1>1, <1>10 DEF Publish, At, Pcs, Lawful
  <2>2. published' \in Seq(TransitionRec)
    BY <1>0, <1>10 DEF Publish, TypeOK
  <2> QED BY <1>0, <1>10, <2>1, <2>2 DEF Publish, TypeOK, TypeInv
<1>11. CASE PublishFails(w)
  <2>1. task' \in [Workers -> TaskRec] /\ \A v \in Workers : Lawful(task'[v])
    BY <1>0, <1>1, <1>2, <1>11 DEF PublishFails, At, Lawful
  <2>2. spent' \in [{"cuts", "faults", "parked", "edits"} -> Nat]
    BY <1>0, <1>11 DEF PublishFails, Spend, TypeOK
  <2> QED BY <1>0, <1>11, <2>1, <2>2 DEF PublishFails, TypeOK, TypeInv
<1>12. CASE Unemit(w)
  <2>1. task' \in [Workers -> TaskRec] /\ \A v \in Workers : Lawful(task'[v])
    BY <1>0, <1>1, <1>2, <1>12 DEF Unemit, At, Lawful
  <2>2. emit' \in SUBSET TransitionRec
    BY <1>0, <1>12 DEF Unemit, Without, TypeOK
  <2> QED BY <1>0, <1>12, <2>1, <2>2 DEF Unemit, TypeOK, TypeInv
<1>13. CASE ReadClosed(w)
  <2> DEFINE j == [k EXCEPT !.read = closed, !.pc = "close"]
  <2>1. Goes(w, j) /\ k.pc = "closed" /\ closed \in 0 .. MaxTick
    BY <1>0, <1>13 DEF ReadClosed, At, TypeOK
  <2>2. /\ j \in TaskRec /\ j.pc = "close" /\ j.of = k.of /\ j.tick = k.tick
        /\ j.region = k.region
    BY <1>0, <2>1, TaskFields, ZenonT(40) DEF TaskRec, Pcs
  <2> HIDE DEF j
  <2>3. Lawful(j)
    BY <1>0, <2>1, <2>2 DEF Lawful
  <2>4. task' \in [Workers -> TaskRec] /\ \A v \in Workers : Lawful(task'[v])
    BY <2>1, <2>3, GoesSpec
  <2> QED BY <1>0, <1>13, <2>4 DEF ReadClosed, TypeOK, TypeInv
<1>14. CASE PutClosed(w)
  <2>1. task' \in [Workers -> TaskRec] /\ \A v \in Workers : Lawful(task'[v])
    BY <1>0, <1>1, <1>14 DEF PutClosed, At, Pcs, Lawful
  <2>2. closed' \in 0 .. MaxTick
    BY <1>0, <1>14 DEF PutClosed, Latest
  <2> QED BY <1>0, <1>14, <2>1, <2>2 DEF PutClosed, TypeOK, TypeInv
<1>15. CASE DropTick(w)
  <2>1. task' \in [Workers -> TaskRec] /\ \A v \in Workers : Lawful(task'[v])
    BY <1>0, <1>1, <1>15 DEF DropTick, At, Pcs, Lawful
  <2>2. open' \in [Ticks -> TickRec]
    BY <1>0, <1>15, NoTickType DEF DropTick, Dropped, TypeOK
  <2> QED BY <1>0, <1>15, <2>1, <2>2 DEF DropTick, TypeOK, TypeInv
<1> QED BY <1>3, <1>4, <1>5, <1>6, <1>7, <1>8, <1>9, <1>10, <1>11, <1>12, <1>13, <1>14, <1>15
     DEF Handle

\* Every step of the sweep keeps the types (sweep).
LEMMA SweepTypes ==
    ASSUME TypeInv, Sweep
    PROVE  TypeInv'
<1> USE DEF env, valkey, history
<1> DEFINE k == task["job"]
<1>0. /\ TypeOK /\ Lawful(k) /\ "job" \in Workers /\ Idle \in TaskRec /\ now \in 0 .. MaxTime
      /\ emit \in SUBSET TransitionRec /\ MarksTypeOK'
  BY IdleLawful, MarksTypes DEF TypeInv, Workers, Lawful, TypeOK, Next
<1>1. CASE SweepStarts
  <2> DEFINE j == [Idle EXCEPT !.pc = "flush", !.of = "flush", !.todo = Stored]
  <2>1. Stored \in SUBSET Nat
    BY <1>0 DEF Stored, TransitionRec
  <2>2. j \in TaskRec /\ j.pc = "flush" /\ j.of = "flush"
    BY <1>0, <2>1 DEF TaskRec, Pcs
  <2>3. Goes("job", j)
    BY <1>1 DEF SweepStarts
  <2> HIDE DEF j
  <2>4. Lawful(j)
    BY <2>2 DEF Lawful
  <2>5. task' \in [Workers -> TaskRec] /\ \A v \in Workers : Lawful(task'[v])
    BY <1>0, <2>3, <2>4, GoesSpec
  <2> QED BY <1>0, <1>1, <2>5 DEF SweepStarts, TypeOK, TypeInv
<1>2. CASE FlushNext
  <2>1. PICK e \in ToFlush(k.todo) :
          Goes("job", [k EXCEPT !.tr = e, !.todo = @ \ {e.seq}, !.pc = "publish"])
    BY <1>2 DEF FlushNext
  <2> DEFINE j == [k EXCEPT !.tr = e, !.todo = @ \ {e.seq}, !.pc = "publish"]
  <2>2. e \in TransitionRec /\ k.pc = "flush" /\ k.of = "flush"
    BY <1>0, <1>2, <2>1 DEF ToFlush, FlushNext, At, Lawful
  <2>3. j \in TaskRec /\ j.pc = "publish" /\ j.of = "flush"
    BY <1>0, <2>2, TaskFields DEF TaskRec, Pcs
  <2>4. Goes("job", j)
    BY <2>1
  <2> HIDE DEF j
  <2>5. Lawful(j)
    BY <2>3 DEF Lawful
  <2>6. task' \in [Workers -> TaskRec] /\ \A v \in Workers : Lawful(task'[v])
    BY <1>0, <2>4, <2>5, GoesSpec
  <2> QED BY <1>0, <1>2, <2>6 DEF FlushNext, TypeOK, TypeInv
<1>3. CASE FlushEnds
  <2> DEFINE j == [k EXCEPT !.pc = "ticks", !.of = "ticks", !.todo = OpenTicks, !.since = now]
  <2>1. OpenTicks \in SUBSET Nat
    BY DEF OpenTicks, Ticks
  <2>2. j \in TaskRec /\ j.pc = "ticks" /\ j.of = "ticks"
    BY <1>0, <2>1, TaskFields DEF TaskRec, Pcs
  <2>3. Goes("job", j)
    BY <1>3 DEF FlushEnds
  <2> HIDE DEF j
  <2>4. Lawful(j)
    BY <2>2 DEF Lawful
  <2>5. task' \in [Workers -> TaskRec] /\ \A v \in Workers : Lawful(task'[v])
    BY <1>0, <2>3, <2>4, GoesSpec
  <2> QED BY <1>0, <1>3, <2>5 DEF FlushEnds, TypeOK, TypeInv
<1>4. CASE SweepTick
  <2>1. PICK t \in ToClose(k.todo) :
          Goes("job", [k EXCEPT !.tick = t, !.rec = open[t], !.todo = @ \ {t},
                                !.tr = NoTransition, !.row = config,
                                !.pc = IF config.active THEN "apply" ELSE "drop"])
    BY <1>4 DEF SweepTick
  <2> DEFINE j == [k EXCEPT !.tick = t, !.rec = open[t], !.todo = @ \ {t},
                            !.tr = NoTransition, !.row = config,
                            !.pc = IF config.active THEN "apply" ELSE "drop"]
  <2>2. k.of = "ticks" /\ t \in Ticks
    BY <1>0, <1>4, <2>1 DEF SweepTick, At, Lawful, ToClose, OpenTicks
  <2>3. /\ open[t] \in TickRec /\ config \in RowRec /\ NoTransition \in TransitionRec
        /\ t \in 0 .. MaxTick
    <3>1. open[t] \in TickRec /\ config \in RowRec
      BY <2>2 DEF TypeInv, TypeOK
    <3>2. NoTransition \in TransitionRec
      BY DEF NoTransition, TransitionRec, Statuses
    <3>3. t \in 0 .. MaxTick
      BY <2>2, EvaluatorAssumption DEF Ticks
    <3> HIDE DEF j
    <3> QED
      BY <3>1, <3>2, <3>3
  <2>4. j \in TaskRec /\ j.pc \in {"apply", "drop"} /\ j.of = "ticks" /\ j.tick = t
    BY <1>0, <2>2, <2>3, TaskFields DEF TaskRec, Pcs
  <2>5. Goes("job", j)
    BY <2>1
  <2> HIDE DEF j
  <2>6. Lawful(j)
    BY <2>2, <2>4 DEF Lawful
  <2>7. task' \in [Workers -> TaskRec] /\ \A v \in Workers : Lawful(task'[v])
    BY <1>0, <2>5, <2>6, GoesSpec
  <2> QED BY <1>0, <1>4, <2>7 DEF SweepTick, TypeOK, TypeInv
<1>5. CASE SweepTicksEnd
  <2> DEFINE j == [Idle EXCEPT !.pc = "timer", !.of = "idle", !.row = config, !.since = k.since]
  <2>1. j \in TaskRec /\ j.pc = "timer" /\ j.of = "idle"
    BY <1>0, TaskFields DEF TaskRec, Pcs, TypeOK
  <2>2. Goes("job", j)
    BY <1>5 DEF SweepTicksEnd
  <2> HIDE DEF j
  <2>3. Lawful(j)
    BY <2>1 DEF Lawful
  <2>4. task' \in [Workers -> TaskRec] /\ \A v \in Workers : Lawful(task'[v])
    BY <1>0, <2>2, <2>3, GoesSpec
  <2> QED BY <1>0, <1>5, <2>4 DEF SweepTicksEnd, TypeOK, TypeInv
<1>6. CASE SweepTimer
  <2> DEFINE known == MonitorState(k.row)
             step == CheckNoData(known, k.since, 1)
  <2>1. StepsFrom(known, step)
    BY <1>0, TaskFields, MonitorStateType, CheckNoDataSteps
  <2>2. k.pc = "timer" /\ (Computed("job", step) \/ Ends("job"))
    BY <1>6 DEF SweepTimer, At
  <2> HIDE DEF step
  <2>3. task' \in [Workers -> TaskRec] /\ \A v \in Workers : Lawful(task'[v])
    BY <1>0, <2>1, <2>2, ComputedType, GoesSpec, IdleLawful DEF StepsFrom, Ends
  <2> QED BY <1>0, <1>6, <2>3 DEF SweepTimer, TypeOK, TypeInv
<1>7. CASE SweepInactive
  <2>1. task' \in [Workers -> TaskRec] /\ \A v \in Workers : Lawful(task'[v])
    BY <1>0, <1>7, IdleLawful, GoesSpec DEF SweepInactive, Ends
  <2>2. mon' \in StateRec
    BY <1>7 DEF SweepInactive, Cleared, NoState, Fresh, StateRec, Never, Statuses
  <2> QED BY <1>0, <1>7, <2>1, <2>2 DEF SweepInactive, TypeOK, TypeInv
<1> QED BY <1>1, <1>2, <1>3, <1>4, <1>5, <1>6, <1>7 DEF Sweep

\* Every step of the environment keeps the types.
LEMMA EnvironmentTypes ==
    ASSUME TypeInv, Environment
    PROVE  TypeInv'
<1> USE DEF env, valkey, history
<1>0. TypeOK /\ MarksTypeOK' /\ \A w \in Workers : Lawful(task[w])
  BY MarksTypes DEF TypeInv, Next
<1>1. CASE Slot
  <2>1. now' \in 0 .. MaxTime
    BY <1>0, <1>1, EvaluatorAssumption DEF Slot, TypeOK, EvaluatorAssumption
  <2>2. lane' \in [Ticks -> [Regions -> Message]]
    <3>1. CASE UNCHANGED lane
      BY <1>0, <3>1 DEF TypeOK
    <3>2. CASE \E says \in [Regions -> Outcomes] :
                 lane' = [lane EXCEPT ![now'] = [r \in Regions |-> [at |-> "queued", says |-> says[r]]]]
      <4>1. PICK says \in [Regions -> Outcomes] :
                 lane' = [lane EXCEPT ![now'] = [r \in Regions |-> [at |-> "queued", says |-> says[r]]]]
        BY <3>2
      <4> DEFINE m == [r \in Regions |-> [at |-> "queued", says |-> says[r]]]
      <4>2. m \in [Regions -> Message]
        <5>1. \A r \in Regions : says[r] \in Answers
          BY EvaluatorAssumption DEF EvaluatorAssumption, Answers
        <5> QED BY <5>1 DEF Message
      <4>3. lane' = [lane EXCEPT ![now'] = m] /\ lane \in [Ticks -> [Regions -> Message]]
        BY <1>0, <4>1 DEF TypeOK
      <4> HIDE DEF m
      <4> QED BY <4>2, <4>3
    <3> QED BY <1>1, <3>1, <3>2 DEF Slot
  <2> QED BY <1>0, <1>1, <2>1, <2>2 DEF Slot, TypeOK, TypeInv
<1>2. CASE Toggle
  <2>1. config' \in RowRec
    BY <1>0, <1>2 DEF Toggle, TypeOK, RowRec, Statuses
  <2>2. spent' \in [{"cuts", "faults", "parked", "edits"} -> Nat]
    BY <1>0, <1>2 DEF Toggle, Spend, TypeOK
  <2> QED BY <1>0, <1>2, <2>1, <2>2 DEF Toggle, TypeOK, TypeInv
<1>3. CASE Rewrite
  <2>1. PICK i \in DOMAIN published :
          config' = [config EXCEPT !.status = published[i].to, !.seq = published[i].seq,
                                   !.failures = published[i].failures]
    BY <1>3 DEF Rewrite
  <2>2. published[i] \in TransitionRec /\ config \in RowRec
    BY <1>0, ElementOfSeq DEF TypeOK
  <2>3. config' \in RowRec
    BY <2>1, <2>2 DEF RowRec, TransitionRec
  <2> QED BY <1>0, <1>3, <2>3 DEF Rewrite, TypeOK, TypeInv
<1>4. ASSUME NEW t \in Ticks, NEW r \in Regions, Park(t, r) PROVE TypeInv'
  <2>1. lane' \in [Ticks -> [Regions -> Message]]
    <3>1. lane[t][r] \in Message
      BY <1>0 DEF TypeOK
    <3>2. [lane[t][r] EXCEPT !.at = "parked"] \in Message
      BY <3>1 DEF Message
    <3> QED BY <1>0, <1>4, <3>2 DEF Park, TypeOK
  <2>2. spent' \in [{"cuts", "faults", "parked", "edits"} -> Nat]
    BY <1>0, <1>4 DEF Park, Spend, TypeOK
  <2> QED BY <1>0, <1>4, <2>1, <2>2 DEF Park, TypeOK, TypeInv
<1>5. ASSUME NEW t \in Ticks, NEW r \in Regions, GiveUp(t, r) PROVE TypeInv'
  <2>1. Gone \in Message
    BY DEF Gone, Message, Answers
  <2>2. lane' \in [Ticks -> [Regions -> Message]]
    BY <1>0, <1>5, <2>1 DEF GiveUp, TypeOK
  <2> QED BY <1>0, <1>5, <2>2 DEF GiveUp, TypeOK, TypeInv
<1>6. ASSUME NEW w \in Workers, Cut(w) PROVE TypeInv'
  <2>1. task' \in [Workers -> TaskRec] /\ \A v \in Workers : Lawful(task'[v])
    BY <1>6, IdleLawful, GoesSpec DEF Cut, Ends
  <2>2. spent' \in [{"cuts", "faults", "parked", "edits"} -> Nat]
    BY <1>0, <1>6 DEF Cut, Spend, TypeOK
  <2> QED BY <1>0, <1>6, <2>1, <2>2 DEF Cut, TypeOK, TypeInv
<1> QED BY <1>1, <1>2, <1>3, <1>4, <1>5, <1>6 DEF Environment

\* The types hold in every state the evaluator reaches.
LEMMA Types == Spec => []TypeInv
<1>1. Init => TypeInv
  BY InitTypes, IdleLawful DEF Init, TypeInv
<1>2. TypeInv /\ [Next]_vars => TypeInv'
  <2> SUFFICES ASSUME TypeInv, [Next]_vars PROVE TypeInv'
    OBVIOUS
  <2>1. CASE UNCHANGED vars
    BY <2>1, MarksTypes DEF vars, env, valkey, history, TypeInv, TypeOK
  <2> QED BY <2>1, HandleTypes, SweepTypes, EnvironmentTypes DEF Next
<1> QED BY <1>1, <1>2, PTL DEF Spec

\* Every state of the evaluator is well-typed (Evaluator).
THEOREM EvaluatorTypeOK == Spec => []TypeOK
<1>1. TypeInv => TypeOK
  BY DEF TypeInv
<1> QED BY Types, <1>1, PTL

-----------------------------------------------------------------------------
(* No transition of the saved state is lost.  A number is traced when its      *)
(* transition is stored or published, and stays so.                            *)

Announced(n) == \E i \in DOMAIN published : published[i].seq = n
Traced(n) == n \in Stored \/ Announced(n)
TracedTo(m) == \A n \in 1 .. m : Traced(n)

\* What a task holds is traced up to the transition it is about to store; what
\* it is about to forget is published (_commit, _emit).
TracedTask(k) ==
    /\ TracedTo(k.row.seq)
    /\ k.pc = "emit" => k.st.seq = k.tr.seq /\ TracedTo(k.tr.seq - 1)
    /\ k.pc = "save" => TracedTo(k.st.seq) /\ (k.tr = NoTransition \/ k.tr.seq = k.st.seq)
    /\ k.pc = "publish" => TracedTo(k.tr.seq)
    /\ k.pc = "unemit" => Announced(k.tr.seq)

TracedInv ==
    /\ TracedTo(mon.seq) /\ TracedTo(config.seq)
    /\ \A e \in emit : TracedTo(e.seq)
    /\ \A i \in DOMAIN published : TracedTo(published[i].seq)
    /\ \A w \in Workers : TracedTask(task[w])

\* What every step keeps traced.
Grows ==
    /\ \A n \in Nat : Traced(n) => Traced(n)'
    /\ \A n \in Nat : Announced(n) => Announced(n)'

\* A publication adds to what was published (_emit).
LEMMA AppendAnnounces ==
    ASSUME TypeInv, NEW e \in TransitionRec, published' = Append(published, e)
    PROVE  /\ \A n \in Nat : Announced(n)' <=> Announced(n) \/ e.seq = n
           /\ \A i \in DOMAIN published' : \/ i \in DOMAIN published /\ published'[i] = published[i]
                                           \/ published'[i] = e
<1>1. published \in Seq(TransitionRec)
  BY DEF TypeInv, TypeOK
<1>2. /\ DOMAIN published = 1 .. Len(published) /\ Len(published) \in Nat
      /\ DOMAIN published' = 1 .. Len(published) + 1
      /\ \A i \in 1 .. Len(published) : published'[i] = published[i]
      /\ published'[Len(published) + 1] = e
  BY <1>1, AppendProperties
<1> HIDE DEF TypeInv
<1> QED BY <1>2 DEF Announced

\* No step forgets a stored transition that was not published (_emit).
LEMMA TracesGrow ==
    ASSUME TypeInv, TracedInv, [Next]_vars
    PROVE  Grows
<1> USE DEF env, valkey, history
<1>1. CASE emit' = emit /\ published' = published
  BY <1>1 DEF Grows, Traced, Announced, Stored
<1>2. ASSUME NEW w \in Workers, PutEmit(w) PROVE Grows
  <2>1. emit' = Without(task[w].tr.seq) \union {task[w].tr} /\ published' = published
    BY <1>2 DEF PutEmit
  <2> QED BY <2>1 DEF Grows, Traced, Announced, Stored, Without
<1>3. ASSUME NEW w \in Workers, Unemit(w) PROVE Grows
  <2>1. Announced(task[w].tr.seq)
    BY <1>3 DEF Unemit, At, TracedInv, TracedTask
  <2>2. emit' = Without(task[w].tr.seq) /\ published' = published
    BY <1>3 DEF Unemit
  <2>3. \A n \in Nat : Announced(n) => Announced(n)'
    BY <2>2 DEF Announced
  <2>4. \A n \in Nat : n \in Stored => n \in Stored' \/ n = task[w].tr.seq
    BY <2>2 DEF Stored, Without
  <2> QED BY <2>1, <2>3, <2>4 DEF Grows, Traced
<1>4. ASSUME NEW w \in Workers, Publish(w) PROVE Grows
  <2>1. published' = Append(published, task[w].tr) /\ emit' = emit
    BY <1>4 DEF Publish
  <2>2. task[w].tr \in TransitionRec
    BY TaskFields DEF TypeInv
  <2>3. \A n \in Nat : Announced(n) => Announced(n)'
    BY <2>1, <2>2, AppendAnnounces
  <2>4. Stored' = Stored
    BY <2>1 DEF Stored
  <2> QED BY <2>3, <2>4 DEF Grows, Traced
<1> QED
  <2>1. CASE UNCHANGED vars
    BY <1>1, <2>1 DEF vars
  <2>2. CASE Sweep
    BY <1>1, <2>2 DEF Sweep, SweepStarts, FlushNext, FlushEnds, SweepTick, SweepTicksEnd,
                      SweepTimer, SweepInactive
  <2>3. CASE Environment
    BY <1>1, <2>3 DEF Environment, Slot, Toggle, Rewrite, Park, GiveUp, Cut
  <2>4. ASSUME NEW w \in Workers, Handle(w) PROVE Grows
    BY <1>1, <1>2, <1>3, <1>4, <2>4
       DEF Handle, Deliver, ReadTick, PutTick, Mark, Apply, Save, PublishFails, ReadClosed,
           PutClosed, DropTick
  <2> QED BY <2>1, <2>2, <2>3, <2>4 DEF Next

\* So does every step keep a prefix traced.
LEMMA PrefixGrows ==
    ASSUME Grows
    PROVE  \A m \in Nat : TracedTo(m) => TracedTo(m)'
  BY DEF Grows, TracedTo

\* What a step leaves alone stays traced.
LEMMA TracedKept ==
    ASSUME TypeInv, TracedInv, Grows
    PROVE  /\ mon' = mon => TracedTo(mon.seq)'
           /\ config' = config => TracedTo(config.seq)'
           /\ emit' \subseteq emit => (\A e \in emit : TracedTo(e.seq))'
           /\ published' = published => (\A i \in DOMAIN published : TracedTo(published[i].seq))'
           /\ \A v \in Workers : task'[v] = task[v] => TracedTask(task[v])'
<1>0. /\ mon.seq \in Nat /\ config.seq \in Nat /\ \A e \in emit : e.seq \in Nat
      /\ \A i \in DOMAIN published : published[i].seq \in Nat
  <2>1. /\ mon \in StateRec /\ config \in RowRec /\ emit \in SUBSET TransitionRec
        /\ published \in Seq(TransitionRec)
    BY DEF TypeInv, TypeOK
  <2>2. \A i \in DOMAIN published : published[i] \in TransitionRec
    BY <2>1, ElementOfSeq
  <2> QED BY <2>1, <2>2, StateFields DEF RowRec, TransitionRec
<1>1. \A m \in Nat : TracedTo(m) => TracedTo(m)'
  BY PrefixGrows
<1>2. ASSUME NEW v \in Workers, task'[v] = task[v] PROVE TracedTask(task[v])'
  <2>1. /\ task[v].row.seq \in Nat /\ task[v].st.seq \in Nat /\ task[v].tr.seq \in Nat
    BY TaskFields, StateFields DEF TypeInv, RowRec, TransitionRec
  <2>2. \A n \in Nat : Announced(n) => Announced(n)'
    BY DEF Grows
  <2>3. TracedTo(task[v].tr.seq - 1) => TracedTo(task[v].tr.seq - 1)'
    <3>1. CASE task[v].tr.seq = 0
      BY <1>2, <3>1 DEF TracedTo
    <3>2. CASE task[v].tr.seq # 0
      <4>1. task[v].tr.seq - 1 \in Nat
        BY <2>1, <3>2
      <4>2. (task[v].tr.seq - 1)' = task[v].tr.seq - 1
        BY <1>2
      <4> HIDE DEF TracedTo
      <4> QED BY <1>1, <1>2, <4>1
    <3> QED BY <3>1, <3>2
  <2>4. TracedTask(task[v])
    BY DEF TracedInv
  <2> HIDE DEF TracedTo, Announced
  <2> QED BY <1>1, <1>2, <2>1, <2>2, <2>3, <2>4 DEF TracedTask
<1> QED BY <1>0, <1>1, <1>2 DEF TracedInv

\* A task that goes on outside a commit, with its row, the snapshot's or none.
LEMMA GoesTraced ==
    ASSUME TypeInv, TracedInv, Grows, NEW w \in Workers, NEW rec, Goes(w, rec),
           rec.pc \notin {"emit", "save", "publish", "unemit"},
           rec.row \in {NoRow, task[w].row, config}
    PROVE  (\A v \in Workers : TracedTask(task[v]))'
<1>1. task'[w] = rec /\ \A v \in Workers : v # w => task'[v] = task[v]
  BY GoesSpec
<1>2. /\ TracedTo(task[w].row.seq) /\ task[w].row.seq \in Nat
      /\ TracedTo(config.seq) /\ config.seq \in Nat
  BY TaskFields DEF TracedInv, TracedTask, TypeInv, TypeOK, RowRec
<1>3. rec.row.seq = 0 \/ rec.row.seq = task[w].row.seq \/ rec.row.seq = config.seq
  BY DEF NoRow
<1>4. (TracedTo(task[w].row.seq))'
  <2>1. CASE rec.row.seq = 0
    BY <1>1, <2>1 DEF TracedTo
  <2>2. CASE rec.row.seq = task[w].row.seq \/ rec.row.seq = config.seq
    BY <1>1, <1>2, <2>2, PrefixGrows
  <2> QED BY <1>3, <2>1, <2>2
<1>5. TracedTask(task[w])'
  BY <1>1, <1>4 DEF TracedTask
<1> QED BY <1>1, <1>5, TracedKept

\* A task that ends, and one that goes on to another await with what it has.
LEMMA TaskGoesOn ==
    ASSUME TypeInv, TracedInv, Grows, NEW w \in Workers
    PROVE  /\ Ends(w) => (\A v \in Workers : TracedTask(task[v]))'
           /\ \A pc \in Pcs \ {"emit", "save", "publish", "unemit"} :
                GoesTo(w, pc) => (\A v \in Workers : TracedTask(task[v]))'
<1>1. ASSUME Ends(w) PROVE (\A v \in Workers : TracedTask(task[v]))'
  <2>1. Idle.pc = "idle" /\ Idle.row = NoRow
    BY DEF Idle
  <2>2. Goes(w, Idle)
    BY <1>1 DEF Ends
  <2> QED BY <2>1, <2>2, GoesTraced
<1>2. ASSUME NEW pc \in Pcs \ {"emit", "save", "publish", "unemit"}, GoesTo(w, pc)
      PROVE  (\A v \in Workers : TracedTask(task[v]))'
  <2>1. /\ [task[w] EXCEPT !.pc = pc].pc = pc
        /\ [task[w] EXCEPT !.pc = pc].row = task[w].row
    BY TaskTypes DEF TypeInv
  <2>2. Goes(w, [task[w] EXCEPT !.pc = pc])
    BY <1>2 DEF GoesTo
  <2> QED BY <2>1, <2>2, GoesTraced
<1> QED BY <1>1, <1>2

\* What a task computed continues what it knew, which is traced (_close, sweep).
LEMMA ComputedTraced ==
    ASSUME TypeInv, TracedInv, Grows, NEW w \in Workers, NEW s \in StateRec, NEW step,
           s = MonitorState(task[w].row), StepsFrom(s, step), Computed(w, step)
    PROVE  (\A v \in Workers : TracedTask(task[v]))'
<1> DEFINE rec == [task[w] EXCEPT !.st = step.st, !.tr = step.tr, !.row = NoRow,
                                  !.pc = AfterCompute(step)]
<1>1. Goes(w, rec)
  BY DEF Computed
<1>2. /\ rec.st = step.st /\ rec.tr = step.tr /\ rec.row = NoRow
      /\ rec.pc = AfterCompute(step)
  BY TaskFields DEF TypeInv, TaskRec
<1> HIDE DEF rec
<1>3. task'[w] = rec /\ \A v \in Workers : v # w => task'[v] = task[v]
  BY <1>1, GoesSpec
<1>4. TracedTo(s.seq) /\ s.seq \in Nat
  <2>1. s.seq \in {mon.seq, task[w].row.seq}
    BY MonitorStateType, TaskFields DEF TypeInv
  <2> QED BY <2>1, StateFields DEF TracedInv, TracedTask
<1>5. TracedTo(s.seq)'
  BY <1>4, PrefixGrows
<1>6. TracedTask(task[w])'
  <2>1. (TracedTo(task[w].row.seq))'
    BY <1>2, <1>3 DEF TracedTo, NoRow
  <2>2. CASE step.tr = NoTransition
    <3>1. rec.pc = "save" /\ rec.st.seq = s.seq
      BY <1>2, <1>4, <2>2 DEF AfterCompute, StepsFrom, NoTransition
    <3> HIDE DEF TracedTo
    <3> QED BY <1>2, <1>3, <1>5, <2>1, <2>2, <3>1 DEF TracedTask
  <2>3. CASE step.tr # NoTransition
    <3>1. /\ rec.pc = "emit" /\ rec.st.seq = s.seq + 1 /\ rec.tr.seq = s.seq + 1
      BY <1>2, <2>3 DEF AfterCompute, StepsFrom
    <3>2. rec.tr.seq - 1 = s.seq
      BY <1>4, <3>1
    <3> HIDE DEF TracedTo
    <3> QED BY <1>2, <1>3, <1>5, <2>1, <3>1, <3>2 DEF TracedTask
  <2> QED BY <2>2, <2>3
<1> QED BY <1>3, <1>6, TracedKept

\* Every step of a task keeps the numbers traced (Evaluator).
LEMMA HandleTraced ==
    ASSUME TypeInv, TracedInv, Grows, NEW w \in Workers, Handle(w)
    PROVE  TracedInv'
<1> USE DEF env, valkey, history
<1> DEFINE k == task[w]
           Rest == /\ TracedTo(mon.seq)' /\ TracedTo(config.seq)'
                   /\ (\A e \in emit : TracedTo(e.seq))'
                   /\ (\A i \in DOMAIN published : TracedTo(published[i].seq))'
           Tasks == (\A v \in Workers : TracedTask(task[v]))'
<1>0. /\ mon' = mon => TracedTo(mon.seq)'
      /\ config' = config => TracedTo(config.seq)'
      /\ emit' \subseteq emit => (\A e \in emit : TracedTo(e.seq))'
      /\ published' = published => (\A i \in DOMAIN published : TracedTo(published[i].seq))'
  BY TracedKept
<1>1. Rest /\ Tasks => TracedInv'
  BY DEF TracedInv
<1>2. /\ Ends(w) => Tasks
      /\ \A pc \in Pcs \ {"emit", "save", "publish", "unemit"} : GoesTo(w, pc) => Tasks
  BY TaskGoesOn
<1>3. /\ TracedTask(k) /\ k \in TaskRec /\ k.tr \in TransitionRec /\ k.st \in StateRec
      /\ k.tr.seq \in Nat /\ k.st.seq \in Nat
  BY TaskFields, StateFields DEF TracedInv, TypeInv, TransitionRec
<1>4. \A m \in Nat : TracedTo(m) => TracedTo(m)'
  BY PrefixGrows
<1>5. AfterPublish(w) \in Pcs \ {"emit", "save", "publish", "unemit"}
  BY TaskFields DEF AfterPublish, Pcs, TypeInv
<1> HIDE DEF Rest, Tasks, k
<1>6. ASSUME NEW t \in Ticks, NEW r \in Regions, Deliver(w, t, r) PROVE TracedInv'
  <2> DEFINE handled == ~config.active \/ IsLate(t)
             j == [Idle EXCEPT !.pc = IF handled THEN "mark" ELSE "read", !.tick = t,
                               !.region = r, !.row = IF handled THEN NoRow ELSE config]
  <2>1. Goes(w, j)
    BY <1>6 DEF Deliver
  <2>2. j.pc \notin {"emit", "save", "publish", "unemit"} /\ j.row \in {NoRow, config}
    <3> HIDE DEF handled
    <3> QED BY IdleLawful DEF Lawful, TaskRec
  <2> HIDE DEF j
  <2>3. Tasks
    BY <2>1, <2>2, GoesTraced DEF Tasks
  <2> QED BY <1>0, <1>1, <1>6, <2>3 DEF Deliver, Rest
<1>7. CASE ReadTick(w)
  <2> DEFINE tick == Heard(open[k.tick], k.region, lane[k.tick][k.region].says)
             pc == IF Regions \subseteq Answered(tick) THEN "apply" ELSE "put"
             j == [k EXCEPT !.rec = tick, !.pc = pc]
  <2>1. Goes(w, j)
    BY <1>7 DEF ReadTick, k
  <2>2. j.pc \notin {"emit", "save", "publish", "unemit"} /\ j.row = k.row
    <3> HIDE DEF tick
    <3> QED BY <1>3 DEF TaskRec
  <2> HIDE DEF j
  <2>3. Tasks
    BY <2>1, <2>2, GoesTraced DEF Tasks, k
  <2> QED BY <1>0, <1>1, <1>7, <2>3 DEF ReadTick, Rest
<1>8. CASE PutTick(w)
  BY <1>0, <1>1, <1>2, <1>8 DEF PutTick, Rest, Pcs
<1>9. CASE Mark(w)
  BY <1>0, <1>1, <1>2, <1>9 DEF Mark, Rest
<1>10. CASE Apply(w)
  <2> DEFINE s == MonitorState(k.row)
             step == ApplyTick(s, k.rec.results, k.tick, Threshold, MinFailing)
  <2>1. s \in StateRec /\ k.tick \in Nat /\ Threshold \in Nat
    BY TaskFields, MonitorStateType, EvaluatorAssumption DEF EvaluatorAssumption, k, TypeInv
  <2>2. StepsFrom(s, step)
    BY <2>1, ApplyTickSteps
  <2>3. Computed(w, step)
    BY <1>10 DEF Apply, k
  <2> HIDE DEF step
  <2>4. Tasks
    BY <2>1, <2>2, <2>3, ComputedTraced DEF Tasks, k
  <2> QED BY <1>0, <1>1, <1>10, <2>4 DEF Apply, Rest
<1>11. CASE PutEmit(w)
  <2>0. k.row.seq \in Nat
    BY TaskFields DEF TypeInv, RowRec, k
  <2>1. /\ k.pc = "emit" /\ k.st.seq = k.tr.seq /\ TracedTo(k.tr.seq - 1)
        /\ emit' = Without(k.tr.seq) \union {k.tr} /\ GoesTo(w, "save")
        /\ UNCHANGED <<mon, config, published>>
    BY <1>3, <1>11 DEF PutEmit, At, TracedTask, k
  <2>2. \A m \in Nat : m = k.tr.seq => TracedTo(m)'
    <3>1. k.tr.seq \in Stored'
      BY <2>1 DEF Stored
    <3>2. \A n \in 1 .. k.tr.seq - 1 : Traced(n)'
      BY <1>3, <2>1 DEF TracedTo, Grows
    <3>3. \A n \in 1 .. k.tr.seq : Traced(n)'
      BY <1>3, <3>1, <3>2 DEF Traced
    <3> HIDE DEF Traced
    <3> QED BY <3>3 DEF TracedTo
  <2>3. (\A e \in emit : TracedTo(e.seq))'
    <3>1. ASSUME NEW e \in emit' PROVE TracedTo(e.seq)'
      <4>1. e \in emit \/ e = k.tr
        BY <2>1 DEF Without
      <4>2. \A d \in emit : d.seq \in Nat /\ TracedTo(d.seq)
        BY DEF TypeInv, TypeOK, TransitionRec, TracedInv
      <4> HIDE DEF TracedTo
      <4> QED BY <1>3, <1>4, <2>2, <4>1, <4>2
    <3> QED BY <3>1
  <2>4. /\ task'[w] = [k EXCEPT !.pc = "save"]
        /\ \A v \in Workers : v # w => task'[v] = task[v]
    BY <2>1, GoesSpec DEF GoesTo, k
  <2>5. /\ task'[w].pc = "save" /\ task'[w].row = k.row /\ task'[w].st = k.st
        /\ task'[w].tr = k.tr
    BY <1>3, <2>4 DEF TaskRec
  <2>6. \A m \in Nat : m = k.row.seq => TracedTo(m)'
    BY <1>3, <1>4, TaskFields DEF TracedTask, TypeInv, RowRec, k
  <2>7. TracedTask(task[w])'
    <3> HIDE DEF TracedTo
    <3> QED BY <1>3, <2>0, <2>1, <2>2, <2>5, <2>6 DEF TracedTask
  <2>8. Tasks
    BY <2>4, <2>7, TracedKept DEF Tasks
  <2> QED BY <1>0, <1>1, <2>1, <2>3, <2>8 DEF Rest
<1>12. CASE Save(w)
  <2> DEFINE pc == IF k.tr = NoTransition THEN AfterPublish(w) ELSE "publish"
  <2>0. k.row.seq \in Nat
    BY TaskFields DEF TypeInv, RowRec, k
  <2>1. /\ k.pc = "save" /\ TracedTo(k.st.seq) /\ (k.tr = NoTransition \/ k.tr.seq = k.st.seq)
        /\ mon' = k.st /\ UNCHANGED <<emit, config, published>> /\ GoesTo(w, pc)
    BY <1>3, <1>12 DEF Save, At, TracedTask, k
  <2>2. TracedTo(mon.seq)'
    BY <1>3, <1>4, <2>1
  <2>3. Tasks
    <3>1. CASE k.tr = NoTransition
      BY <1>2, <1>5, <2>1, <3>1
    <3>2. CASE k.tr # NoTransition
      <4>1. /\ task'[w] = [k EXCEPT !.pc = "publish"]
            /\ \A v \in Workers : v # w => task'[v] = task[v]
        BY <2>1, <3>2, GoesSpec DEF GoesTo, k
      <4>2. /\ task'[w].pc = "publish" /\ task'[w].row = k.row /\ task'[w].tr = k.tr
        BY <1>3, <4>1 DEF TaskRec
      <4>3. \A m \in Nat : m \in {k.row.seq, k.tr.seq} => TracedTo(m)'
        BY <1>3, <1>4, <2>1, <3>2, TaskFields DEF TracedTask, TypeInv, RowRec, k
      <4>4. TracedTask(task[w])'
        <5> HIDE DEF TracedTo
        <5> QED BY <1>3, <2>0, <4>2, <4>3 DEF TracedTask
      <4> QED BY <4>1, <4>4, TracedKept DEF Tasks
    <3> QED BY <3>1, <3>2
  <2> QED BY <1>0, <1>1, <2>1, <2>2, <2>3 DEF Rest
<1>13. CASE Publish(w)
  <2>0. k.row.seq \in Nat
    BY TaskFields DEF TypeInv, RowRec, k
  <2>1. /\ k.pc = "publish" /\ TracedTo(k.tr.seq) /\ published' = Append(published, k.tr)
        /\ UNCHANGED <<emit, config, mon>> /\ GoesTo(w, "unemit")
    BY <1>3, <1>13 DEF Publish, At, TracedTask, k
  <2>2. /\ \A n \in Nat : Announced(n)' <=> Announced(n) \/ k.tr.seq = n
        /\ \A i \in DOMAIN published' : \/ i \in DOMAIN published /\ published'[i] = published[i]
                                        \/ published'[i] = k.tr
    BY <1>3, <2>1, AppendAnnounces
  <2>3. (\A i \in DOMAIN published : TracedTo(published[i].seq))'
    <3>1. ASSUME NEW i \in DOMAIN published', NEW m \in Nat, m = published'[i].seq
          PROVE  TracedTo(m)'
      <4>1. \A j \in DOMAIN published : published[j].seq \in Nat /\ TracedTo(published[j].seq)
        <5>1. published \in Seq(TransitionRec)
          BY DEF TypeInv, TypeOK
        <5>2. \A j \in DOMAIN published : published[j] \in TransitionRec
          BY <5>1, ElementOfSeq
        <5> QED BY <5>2 DEF TransitionRec, TracedInv
      <4>2. CASE published'[i] = k.tr
        BY <1>4, <2>1, <3>1, <4>2
      <4>3. CASE i \in DOMAIN published /\ published'[i] = published[i]
        BY <1>4, <3>1, <4>1, <4>3
      <4> QED BY <2>2, <4>2, <4>3
    <3>2. \A i \in DOMAIN published' : published'[i].seq \in Nat
      <4>1. \A i \in DOMAIN published : published[i] \in TransitionRec
        <5>1. published \in Seq(TransitionRec)
          BY DEF TypeInv, TypeOK
        <5> QED BY <5>1, ElementOfSeq
      <4> QED BY <1>3, <2>2, <4>1 DEF TransitionRec
    <3> HIDE DEF TracedTo
    <3> QED BY <3>1, <3>2
  <2>4. /\ task'[w] = [k EXCEPT !.pc = "unemit"]
        /\ \A v \in Workers : v # w => task'[v] = task[v]
    BY <2>1, GoesSpec DEF GoesTo, k
  <2>5. /\ task'[w].pc = "unemit" /\ task'[w].row = k.row /\ task'[w].tr = k.tr
    BY <1>3, <2>4 DEF TaskRec
  <2>6. \A m \in Nat : (m = k.row.seq => TracedTo(m)') /\ (m = k.tr.seq => Announced(m)')
    BY <1>3, <1>4, <2>2, TaskFields DEF TracedTask, TypeInv, RowRec, k
  <2>7. TracedTask(task[w])'
    <3> HIDE DEF TracedTo, Announced
    <3> QED BY <1>3, <2>0, <2>5, <2>6 DEF TracedTask
  <2>8. Tasks
    BY <2>4, <2>7, TracedKept DEF Tasks
  <2> QED BY <1>0, <1>1, <2>1, <2>3, <2>8 DEF Rest
<1>14. CASE PublishFails(w)
  BY <1>0, <1>1, <1>2, <1>5, <1>14 DEF PublishFails, Rest
<1>15. CASE Unemit(w)
  BY <1>0, <1>1, <1>2, <1>5, <1>15 DEF Unemit, Without, Rest
<1>16. CASE ReadClosed(w)
  <2> DEFINE j == [k EXCEPT !.read = closed, !.pc = "close"]
  <2>1. Goes(w, j) /\ j.pc = "close" /\ j.row = k.row
    BY <1>3, <1>16 DEF ReadClosed, TaskRec, k
  <2> HIDE DEF j
  <2>2. Tasks
    BY <2>1, GoesTraced DEF Tasks, k
  <2> QED BY <1>0, <1>1, <1>16, <2>2 DEF ReadClosed, Rest
<1>17. CASE PutClosed(w)
  BY <1>0, <1>1, <1>2, <1>17 DEF PutClosed, Rest, Pcs
<1>18. CASE DropTick(w)
  BY <1>0, <1>1, <1>2, <1>18 DEF DropTick, Rest, Pcs
<1> QED BY <1>6, <1>7, <1>8, <1>9, <1>10, <1>11, <1>12, <1>13, <1>14, <1>15, <1>16, <1>17, <1>18
     DEF Handle

\* Every step of the sweep keeps the numbers traced (sweep, flush).
LEMMA SweepTraced ==
    ASSUME TypeInv, TracedInv, Grows, Sweep
    PROVE  TracedInv'
<1> USE DEF env, valkey, history
<1> DEFINE k == task["job"]
           Rest == /\ TracedTo(mon.seq)' /\ TracedTo(config.seq)'
                   /\ (\A e \in emit : TracedTo(e.seq))'
                   /\ (\A i \in DOMAIN published : TracedTo(published[i].seq))'
           Tasks == (\A v \in Workers : TracedTask(task[v]))'
<1>0. /\ mon' = mon => TracedTo(mon.seq)'
      /\ config' = config => TracedTo(config.seq)'
      /\ emit' \subseteq emit => (\A e \in emit : TracedTo(e.seq))'
      /\ published' = published => (\A i \in DOMAIN published : TracedTo(published[i].seq))'
  BY TracedKept
<1>1. Rest /\ Tasks => TracedInv'
  BY DEF TracedInv
<1>2. "job" \in Workers /\ k \in TaskRec /\ Idle \in TaskRec
  BY TaskFields, IdleLawful DEF Workers, TypeInv, Lawful
<1>3. Ends("job") => Tasks
  BY <1>2, TaskGoesOn
<1> HIDE DEF Rest, Tasks, k
<1>4. CASE SweepStarts
  <2> DEFINE j == [Idle EXCEPT !.pc = "flush", !.of = "flush", !.todo = Stored]
  <2>1. Goes("job", j) /\ j.pc = "flush" /\ j.row = NoRow
    BY <1>4 DEF SweepStarts, Idle
  <2> HIDE DEF j
  <2>2. Tasks
    BY <1>2, <2>1, GoesTraced DEF Tasks
  <2> QED BY <1>0, <1>1, <1>4, <2>2 DEF SweepStarts, Rest
<1>5. CASE FlushNext
  <2>1. PICK e \in ToFlush(k.todo) :
          Goes("job", [k EXCEPT !.tr = e, !.todo = @ \ {e.seq}, !.pc = "publish"])
    BY <1>5 DEF FlushNext, k
  <2> DEFINE j == [k EXCEPT !.tr = e, !.todo = @ \ {e.seq}, !.pc = "publish"]
  <2>2. e \in emit /\ e.seq \in Nat /\ TracedTo(e.seq)
    BY <2>1 DEF ToFlush, TypeInv, TypeOK, TransitionRec, TracedInv
  <2>3. Goes("job", j)
    BY <2>1
  <2>4. j.pc = "publish" /\ j.tr = e /\ j.row = k.row
    BY <1>2 DEF TaskRec
  <2> HIDE DEF j
  <2>5. task'["job"] = j /\ \A v \in Workers : v # "job" => task'[v] = task[v]
    BY <1>2, <2>3, GoesSpec
  <2>6. /\ k.row.seq \in Nat /\ TracedTo(k.row.seq)
    BY <1>2, TaskFields DEF TracedInv, TracedTask, TypeInv, RowRec, k
  <2>7. \A m \in Nat : TracedTo(m) => TracedTo(m)'
    BY PrefixGrows
  <2>8. TracedTask(task["job"])'
    <3> HIDE DEF TracedTo
    <3> QED BY <2>2, <2>4, <2>5, <2>6, <2>7 DEF TracedTask
  <2>9. Tasks
    BY <2>5, <2>8, TracedKept DEF Tasks
  <2> QED BY <1>0, <1>1, <1>5, <2>9 DEF FlushNext, Rest
<1>6. CASE FlushEnds
  <2> DEFINE j == [k EXCEPT !.pc = "ticks", !.of = "ticks", !.todo = OpenTicks, !.since = now]
  <2>1. Goes("job", j) /\ j.pc = "ticks" /\ j.row = k.row
    BY <1>2, <1>6 DEF FlushEnds, TaskRec, k
  <2> HIDE DEF j
  <2>2. Tasks
    BY <1>2, <2>1, GoesTraced DEF Tasks, k
  <2> QED BY <1>0, <1>1, <1>6, <2>2 DEF FlushEnds, Rest
<1>7. CASE SweepTick
  <2>1. PICK t \in ToClose(k.todo) :
          Goes("job", [k EXCEPT !.tick = t, !.rec = open[t], !.todo = @ \ {t},
                                !.tr = NoTransition, !.row = config,
                                !.pc = IF config.active THEN "apply" ELSE "drop"])
    BY <1>7 DEF SweepTick, k
  <2> DEFINE j == [k EXCEPT !.tick = t, !.rec = open[t], !.todo = @ \ {t},
                            !.tr = NoTransition, !.row = config,
                            !.pc = IF config.active THEN "apply" ELSE "drop"]
  <2>2. Goes("job", j) /\ j.pc \in {"apply", "drop"} /\ j.row = config
    BY <1>2, <2>1 DEF TaskRec
  <2> HIDE DEF j
  <2>3. Tasks
    BY <1>2, <2>2, GoesTraced DEF Tasks
  <2> QED BY <1>0, <1>1, <1>7, <2>3 DEF SweepTick, Rest
<1>8. CASE SweepTicksEnd
  <2> DEFINE j == [Idle EXCEPT !.pc = "timer", !.of = "idle", !.row = config, !.since = k.since]
  <2>1. Goes("job", j) /\ j.pc = "timer" /\ j.row = config
    BY <1>2, <1>8 DEF SweepTicksEnd, TaskRec, k
  <2> HIDE DEF j
  <2>2. Tasks
    BY <1>2, <2>1, GoesTraced DEF Tasks
  <2> QED BY <1>0, <1>1, <1>8, <2>2 DEF SweepTicksEnd, Rest
<1>9. CASE SweepTimer
  <2> DEFINE s == MonitorState(k.row)
             step == CheckNoData(s, k.since, 1)
  <2>1. s \in StateRec /\ StepsFrom(s, step)
    BY <1>2, TaskFields, MonitorStateType, CheckNoDataSteps DEF TypeInv, k
  <2>2. Computed("job", step) \/ Ends("job")
    BY <1>9 DEF SweepTimer, k
  <2> HIDE DEF step
  <2>3. Tasks
    BY <1>2, <1>3, <2>1, <2>2, ComputedTraced DEF Tasks, k
  <2> QED BY <1>0, <1>1, <1>9, <2>3 DEF SweepTimer, Rest
<1>10. CASE SweepInactive
  <2>1. mon' = NoState
    BY <1>10 DEF SweepInactive, Cleared
  <2>2. mon'.seq = 0
    BY <2>1 DEF NoState, Fresh
  <2>3. TracedTo(mon.seq)'
    BY <2>2 DEF TracedTo
  <2> QED BY <1>0, <1>1, <1>3, <1>10, <2>3 DEF SweepInactive, Rest
<1> QED BY <1>4, <1>5, <1>6, <1>7, <1>8, <1>9, <1>10 DEF Sweep

\* Every step of the environment keeps the numbers traced; the snapshot takes
\* only numbers that were published (ApplyTransition).
LEMMA EnvironmentTraced ==
    ASSUME TypeInv, TracedInv, Grows, Environment
    PROVE  TracedInv'
<1> USE DEF env, valkey, history
<1>0. /\ mon' = mon => TracedTo(mon.seq)'
      /\ config' = config => TracedTo(config.seq)'
      /\ emit' \subseteq emit => (\A e \in emit : TracedTo(e.seq))'
      /\ published' = published => (\A i \in DOMAIN published : TracedTo(published[i].seq))'
      /\ \A v \in Workers : task'[v] = task[v] => TracedTask(task[v])'
  BY TracedKept
<1>1. CASE UNCHANGED <<mon, emit, published, task>> /\ config'.seq = config.seq
  <2>1. TracedTo(config.seq)'
    <3>1. TracedTo(config.seq) /\ config.seq \in Nat
      BY DEF TracedInv, TypeInv, TypeOK, RowRec
    <3> QED BY <1>1, <3>1, PrefixGrows
  <2> QED BY <1>0, <1>1, <2>1 DEF TracedInv
<1>2. CASE Rewrite
  <2>1. PICK i \in DOMAIN published :
          config' = [config EXCEPT !.status = published[i].to, !.seq = published[i].seq,
                                   !.failures = published[i].failures]
    BY <1>2 DEF Rewrite
  <2>2. /\ published[i] \in TransitionRec /\ config \in RowRec /\ TracedTo(published[i].seq)
    BY ElementOfSeq DEF TypeInv, TypeOK, TracedInv
  <2>3. config'.seq = published[i].seq /\ published[i].seq \in Nat
    BY <2>1, <2>2 DEF RowRec, TransitionRec
  <2>4. TracedTo(config.seq)'
    BY <2>2, <2>3, PrefixGrows
  <2> QED BY <1>0, <1>2, <2>4 DEF Rewrite, TracedInv
<1>3. CASE Toggle
  <2>1. config'.seq = config.seq
    BY <1>3 DEF Toggle, TypeInv, TypeOK, RowRec
  <2> QED BY <1>1, <1>3, <2>1 DEF Toggle
<1>4. ASSUME NEW w \in Workers, Cut(w) PROVE TracedInv'
  <2>1. (\A v \in Workers : TracedTask(task[v]))'
    BY <1>4, TaskGoesOn DEF Cut
  <2> QED BY <1>0, <1>4, <2>1 DEF Cut, TracedInv
<1>5. CASE Slot
  BY <1>1, <1>5 DEF Slot
<1>6. ASSUME NEW t \in Ticks, NEW r \in Regions, Park(t, r) \/ GiveUp(t, r) PROVE TracedInv'
  BY <1>1, <1>6 DEF Park, GiveUp
<1> QED BY <1>2, <1>3, <1>4, <1>5, <1>6 DEF Environment

\* The numbers of the working state are traced in every state.
LEMMA TracedInvariant == Spec => []TracedInv
<1>1. Init => TracedInv
  <2> SUFFICES ASSUME Init PROVE TracedInv
    OBVIOUS
  <2>1. /\ mon.seq = 0 /\ config.seq = 0 /\ emit = {} /\ published = <<>>
        /\ \A w \in Workers : task[w] = Idle
    BY DEF Init, NoState, Fresh
  <2>2. Idle.pc = "idle" /\ Idle.row.seq = 0
    BY DEF Idle, NoRow
  <2>3. \A w \in Workers : TracedTask(task[w])
    BY <2>1, <2>2 DEF TracedTask, TracedTo
  <2> QED BY <2>1, <2>3 DEF TracedInv, TracedTo
<1>2. TypeInv /\ TracedInv /\ [Next]_vars => TracedInv'
  <2> SUFFICES ASSUME TypeInv, TracedInv, [Next]_vars PROVE TracedInv'
    OBVIOUS
  <2>1. Grows
    BY TracesGrow
  <2>2. CASE UNCHANGED vars
    BY <2>1, <2>2, TracedKept DEF TracedInv, vars, env, valkey, history
  <2> QED BY <2>1, <2>2, HandleTraced, SweepTraced, EnvironmentTraced DEF Next
<1> QED BY <1>1, <1>2, Types, PTL DEF Spec

\* Every transition of the saved state is stored or published: a crash or a cut
\* anywhere, with the two tasks interleaved in any way, loses none (_commit).
THEOREM NoTransitionLost == Spec => []SavedIsStored
<1>1. TracedInv => SavedIsStored
  BY DEF TracedInv, TracedTo, Traced, Announced, SavedIsStored
<1> QED BY TracedInvariant, <1>1, PTL

-----------------------------------------------------------------------------
(* No tick counts twice, but one both tasks had in hand, one whose closing was  *)
(* cut off and one closed: stepped back over.  Any other tick that is counted    *)
(* is closed and deleted, or about to be by the one task that has it.            *)

OfTick(k) == k.of \in {"message", "ticks"}
BeforeSave == {"read", "put", "apply", "emit", "save"}
AfterSave == {"publish", "unemit", "closed", "close"}
IsCounted(t) == \E i \in DOMAIN counted : counted[i].tick = t

\* A task has a tick in hand; it has yet to save what the tick leads to; it has yet
\* to delete the tick.
Holds(k, t) == k.tick = t /\ k.pc \in BeforeSave \union AfterSave \union {"drop"}
Decides(k, t) == OfTick(k) /\ k.tick = t /\ k.pc \in BeforeSave
Closes(k, t) ==
    /\ OfTick(k) /\ k.tick = t
    /\ k.pc \in AfterSave \/ (k.pc = "drop" /\ t <= closed)

\* A tick is closed and deleted, or about to be.
IsClosed(t) ==
    \/ t <= closed /\ Answered(open[t]) = {}
    \/ \E w \in Workers : Closes(task[w], t)

\* One task has the tick, and a tick that is counted is closed and decided no more.
Once(t) ==
    /\ \A v, w \in Workers : Holds(task[v], t) /\ Holds(task[w], t) => v = w
    /\ IsCounted(t) => IsClosed(t) /\ \A w \in Workers : ~Decides(task[w], t)

\* A task that does not work on a tick has none.
Placed(k) == OfTick(k) \/ k.tick = 0

OnceInv ==
    /\ \A t \in Ticks \ disturbed : Once(t)
    /\ \A w \in Workers : Placed(task[w])
    /\ CountedOnce

\* What is counted is a tick.
LEMMA CountedTicks ==
    ASSUME TypeInv
    PROVE  /\ counted \in Seq(Entries) /\ Len(counted) \in Nat /\ DOMAIN counted = 1 .. Len(counted)
           /\ \A i \in DOMAIN counted : counted[i].tick \in Ticks
<1>1. counted \in Seq(Entries)
  BY DEF TypeInv, TypeOK, Entries
<1>2. \A e \in Entries : e.tick \in Ticks
  BY DEF Entries
<1>3. \A i \in DOMAIN counted : counted[i] \in Entries
  BY <1>1, ElementOfSeq
<1> QED BY <1>1, <1>2, <1>3

\* The tick a task has in hand is one it holds.
LEMMA HasIsHolds ==
    \A w \in Workers : \A t : HasTick(w, t) <=> Holds(task[w], t)
  BY DEF HasTick, Holds, BeforeSave, AfterSave

\* Marks only grow.
LEMMA DisturbedGrows ==
    ASSUME [Next]_vars
    PROVE  disturbed \subseteq disturbed'
<1> USE DEF env, valkey, history
<1>1. CASE UNCHANGED vars
  BY <1>1 DEF vars
<1>2. CASE Sweep
  BY <1>2 DEF Sweep, SweepStarts, FlushNext, FlushEnds, SweepTick, TakesTick, SweepTicksEnd,
              SweepTimer, SweepInactive
<1>3. CASE Environment
  BY <1>3 DEF Environment, Slot, Toggle, Rewrite, Park, GiveUp, Cut
<1>4. ASSUME NEW w \in Workers, Handle(w) PROVE disturbed \subseteq disturbed'
  BY <1>4 DEF Handle, Deliver, TakesTick, ReadTick, PutTick, Mark, Apply, PutEmit, Save, Publish,
              PublishFails, Unemit, ReadClosed, PutClosed, DropTick
<1> QED BY <1>1, <1>2, <1>3, <1>4 DEF Next

\* What is counted once stays so while nothing is counted.
LEMMA CountedOnceKept ==
    ASSUME CountedOnce, counted' = counted, disturbed \subseteq disturbed'
    PROVE  CountedOnce'
  BY DEF CountedOnce

\* A step of one task that neither counts, nor closes, nor writes a tick.
LEMMA QuietOnce ==
    ASSUME TypeInv, OnceInv, NEW w \in Workers, NEW rec, Goes(w, rec), Placed(rec),
           UNCHANGED <<closed, open, counted>>, disturbed \subseteq disturbed',
           \A t \in Ticks \ disturbed' :
             /\ Closes(task[w], t) => Closes(rec, t)
             /\ Holds(rec, t) => \A v \in Workers : v # w => ~Holds(task[v], t)
             /\ Decides(rec, t) => ~IsCounted(t)
    PROVE  OnceInv'
<1>1. task'[w] = rec /\ \A v \in Workers : v # w => task'[v] = task[v]
  BY GoesSpec
<1>2. ASSUME NEW t \in Ticks \ disturbed' PROVE Once(t)'
  <2>1. Once(t) /\ t \in Ticks \ disturbed
    BY <1>2 DEF OnceInv
  <2>2. IsCounted(t)' <=> IsCounted(t)
    BY DEF IsCounted
  <2>3. \A v, u \in Workers : Holds(task'[v], t) /\ Holds(task'[u], t) => v = u
    BY <1>1, <2>1 DEF Once
  <2>4. ASSUME IsCounted(t) PROVE IsClosed(t)'
    <3>1. IsClosed(t)
      BY <2>1, <2>4 DEF Once
    <3>2. \A v \in Workers : Closes(task[v], t) => Closes(task[v], t)'
      <4>1. \A v \in Workers : Closes(task[v], t) => Closes(task'[v], t)
        BY <1>1, <2>1
      <4> QED BY <4>1 DEF Closes
    <3> QED BY <3>1, <3>2 DEF IsClosed
  <2>5. ASSUME IsCounted(t) PROVE \A v \in Workers : ~Decides(task'[v], t)
    BY <1>1, <2>1, <2>5 DEF Once
  <2> QED BY <2>2, <2>3, <2>4, <2>5 DEF Once, Holds, Decides
<1>3. \A v \in Workers : Placed(task'[v])
  BY <1>1 DEF OnceInv
<1>4. CountedOnce'
  BY CountedOnceKept DEF OnceInv
<1> QED BY <1>2, <1>3, <1>4 DEF OnceInv, Placed

\* A task that holds no tick, and one that goes on with what it has.
LEMMA StillOnce ==
    ASSUME TypeInv, OnceInv, NEW w \in Workers, NEW rec, Goes(w, rec), Placed(rec),
           UNCHANGED <<closed, open, counted>>, disturbed \subseteq disturbed',
           \/ /\ \A t \in Ticks \ disturbed' : ~Closes(task[w], t)
              /\ rec.tick = 0 \/ rec.pc \notin BeforeSave \union AfterSave \union {"drop"}
           \/ /\ rec.tick = task[w].tick /\ rec.of = task[w].of
              /\ \/ task[w].pc \in BeforeSave /\ rec.pc \in BeforeSave
                 \/ task[w].pc \in AfterSave /\ rec.pc \in AfterSave
    PROVE  OnceInv'
<1>1. \A t \in Ticks \ disturbed' : t # 0 /\ Once(t)
  BY DEF OnceInv, Ticks
<1> DEFINE k == task[w]
<1>2. CASE /\ \A t \in Ticks \ disturbed' : ~Closes(k, t)
           /\ rec.tick = 0 \/ rec.pc \notin BeforeSave \union AfterSave \union {"drop"}
  <2>1. \A t \in Ticks \ disturbed' : ~Holds(rec, t) /\ ~Decides(rec, t)
    BY <1>1, <1>2 DEF Holds, Decides
  <2> QED BY <1>2, <2>1, QuietOnce
<1>3. CASE /\ rec.tick = k.tick /\ rec.of = k.of
           /\ \/ k.pc \in BeforeSave /\ rec.pc \in BeforeSave
              \/ k.pc \in AfterSave /\ rec.pc \in AfterSave
  <2>1. \A t \in Ticks \ disturbed' : \A v \in Workers : v # w /\ Holds(k, t) => ~Holds(task[v], t)
    BY <1>1 DEF Once
  <2>2. \A t \in Ticks \ disturbed' : Decides(k, t) => ~IsCounted(t)
    BY <1>1 DEF Once
  <2> HIDE DEF k
  <2>3. \A t \in Ticks \ disturbed' :
          /\ Closes(k, t) => Closes(rec, t)
          /\ Holds(rec, t) => Holds(k, t)
          /\ Decides(rec, t) => Decides(k, t)
    BY <1>3 DEF Closes, Holds, Decides, OfTick, BeforeSave, AfterSave
  <2> QED BY <2>1, <2>2, <2>3, QuietOnce DEF k
<1> QED BY <1>2, <1>3

\* A task that takes a tick in hand: one that is not closed, and so not counted,
\* but for a tick the other one has (on_result, sweep).
LEMMA TakeOnce ==
    ASSUME TypeInv, OnceInv, NEW w \in Workers, NEW rec, NEW t \in Ticks,
           Goes(w, rec), rec.tick = t, OfTick(rec),
           \A u \in Ticks : ~Closes(task[w], u) /\ ~Holds(task[w], u),
           ~(t <= closed) \/ Answered(open[t]) # {},
           UNCHANGED <<closed, open, counted>>, TakesTick(w, t)
    PROVE  OnceInv'
<1>1. disturbed \subseteq disturbed'
  BY DEF TakesTick
<1>2. ASSUME NEW u \in Ticks \ disturbed', u = t
      PROVE  ~IsCounted(u) /\ \A v \in Workers : v # w => ~Holds(task[v], u)
  <2>1. \A v \in Workers : v # w => ~Holds(task[v], u)
    <3>1. \A v \in Workers \ {w} : ~HasTick(v, t)
      BY <1>2 DEF TakesTick, Others
    <3> QED BY <1>2, <3>1, HasIsHolds
  <2>2. \A v \in Workers : ~Closes(task[v], u)
    BY <2>1 DEF Closes, Holds
  <2>3. ~IsClosed(u)
    BY <1>2, <2>2 DEF IsClosed
  <2>4. Once(u)
    BY <1>1 DEF OnceInv
  <2> QED BY <2>1, <2>3, <2>4 DEF Once
<1>3. \A u \in Ticks \ disturbed' :
        /\ Closes(task[w], u) => Closes(rec, u)
        /\ Holds(rec, u) => \A v \in Workers : v # w => ~Holds(task[v], u)
        /\ Decides(rec, u) => ~IsCounted(u)
  BY <1>2 DEF Holds, Decides
<1>4. Placed(rec)
  BY DEF Placed
<1> QED BY <1>1, <1>3, <1>4, QuietOnce

\* Saving counts the tick, which nobody counted before (save).
LEMMA SaveOnce ==
    ASSUME TypeInv, OnceInv, NEW w \in Workers, Save(w)
    PROVE  OnceInv'
<1> DEFINE k == task[w]
           pc == IF k.tr = NoTransition THEN AfterPublish(w) ELSE "publish"
           j == [k EXCEPT !.pc = pc]
<1>1. /\ k.pc = "save" /\ Goes(w, j) /\ UNCHANGED <<closed, open, disturbed>>
  BY DEF Save, At, GoesTo
<1>2. /\ pc \in Pcs
      /\ OfTick(k) => pc \in AfterSave
      /\ pc \in {"closed", "flush", "idle", "publish"}
  BY TaskFields DEF AfterPublish, Pcs, OfTick, AfterSave, TypeInv
<1>3. /\ j.pc = pc /\ j.of = k.of /\ j.tick = k.tick
  BY <1>2, TaskTypes DEF TypeInv
<1>4. /\ task'[w] = j /\ \A v \in Workers : v # w => task'[v] = task[v]
  BY <1>1, GoesSpec
<1>5. Placed(k)
  BY DEF OnceInv
<1> HIDE DEF k, pc, j
<1>6. CASE ~CountsTick(w)
  <2>1. counted' = counted
    BY <1>6, SaveCounts
  <2>2. Placed(j)
    BY <1>3, <1>5 DEF Placed, OfTick
  <2>3. \A t \in Ticks : Once(t) \/ t \in disturbed
    BY DEF OnceInv
  <2>4. \A t \in Ticks : ~Closes(k, t)
    BY <1>1 DEF Closes, AfterSave
  <2>5. \A t \in Ticks : ~Decides(j, t) /\ (Holds(j, t) => Holds(k, t))
    BY <1>1, <1>2, <1>3 DEF Decides, Holds, BeforeSave
  <2>6. \A t \in Ticks \ disturbed' : \A v \in Workers : v # w /\ Holds(j, t) => ~Holds(task[v], t)
    BY <1>1, <2>3, <2>5 DEF Once, k
  <2> QED BY <1>1, <2>1, <2>2, <2>4, <2>5, <2>6, QuietOnce DEF k
<1>7. CASE CountsTick(w)
  <2> DEFINE L == Len(counted)
  <2>1. /\ k.tick \in Ticks /\ L \in Nat /\ DOMAIN counted = 1 .. L
        /\ DOMAIN counted' = 1 .. L + 1
        /\ \A i \in 1 .. L : counted'[i] = counted[i]
        /\ counted'[L + 1].tick = k.tick
    <3>1. EntryOf(w).tick = k.tick
      BY DEF EntryOf, k
    <3> QED BY <1>7, <3>1, SaveCounts DEF k
  <2> HIDE DEF L
  <2>2. \A t : IsCounted(t)' <=> IsCounted(t) \/ t = k.tick
    BY <2>1 DEF IsCounted
  <2>3. OfTick(k) /\ Closes(j, k.tick)
    BY <1>2, <1>3, <1>7 DEF CountsTick, OfTick, Closes, k
  <2>4. \A t : Decides(k, t) <=> t = k.tick
    BY <1>1, <2>3 DEF Decides, BeforeSave
  <2>5. ASSUME NEW t \in Ticks \ disturbed' PROVE Once(t)'
    <3>1. Once(t)
      BY <1>1, <2>5 DEF OnceInv
    <3>2. \A v, u \in Workers : Holds(task'[v], t) /\ Holds(task'[u], t) => v = u
      <4>1. Holds(j, t) => Holds(k, t)
        BY <1>1, <1>3 DEF Holds, BeforeSave
      <4> QED BY <1>4, <3>1, <4>1 DEF Once, k
    <3>3. CASE t = k.tick
      <4>1. IsClosed(t)'
        <5>1. Closes(task[w], t)'
          BY <1>1, <1>4, <2>3, <3>3 DEF Closes
        <5> QED BY <5>1 DEF IsClosed
      <4>2. \A v \in Workers : ~Decides(task'[v], t)
        <5>1. ~Decides(j, t)
          BY <1>2, <1>3 DEF Decides, BeforeSave
        <5>2. Holds(k, t) /\ \A v \in Workers : Decides(task[v], t) => Holds(task[v], t)
          BY <1>1, <3>3 DEF Holds, Decides, BeforeSave
        <5>3. \A v \in Workers : v # w => ~Decides(task[v], t)
          BY <3>1, <5>2 DEF Once, k
        <5> QED BY <1>4, <5>1, <5>3
      <4> QED BY <3>2, <4>1, <4>2 DEF Once, Holds, Decides
    <3>4. CASE t # k.tick
      <4>1. IsCounted(t)' <=> IsCounted(t)
        BY <2>2, <3>4
      <4>2. \A v \in Workers : Closes(task[v], t) => Closes(task[v], t)'
        <5>1. \A v \in Workers : Closes(task[v], t) => v # w
          BY <1>1 DEF Closes, AfterSave, k
        <5> QED BY <1>1, <1>4, <5>1 DEF Closes
      <4>3. IsClosed(t) => IsClosed(t)'
        BY <1>1, <4>2 DEF IsClosed
      <4>4. ~Decides(j, t)
        BY <1>3, <3>4 DEF Decides
      <4>5. IsCounted(t) => \A v \in Workers : ~Decides(task'[v], t)
        BY <1>4, <3>1, <4>4 DEF Once
      <4> QED BY <3>1, <3>2, <4>1, <4>3, <4>5 DEF Once, Holds, Decides
    <3> QED BY <3>3, <3>4
  <2>6. CountedOnce'
    <3>1. ~IsCounted(k.tick) \/ k.tick \in disturbed
      BY <2>1, <2>4 DEF OnceInv, Once, k
    <3>2. CountedOnce
      BY DEF OnceInv
    <3> QED BY <1>1, <2>1, <3>1, <3>2 DEF CountedOnce, IsCounted
  <2>7. \A v \in Workers : Placed(task'[v])
    BY <1>3, <1>4, <1>5 DEF Placed, OfTick, OnceInv
  <2> QED BY <2>5, <2>6, <2>7 DEF OnceInv, Placed
<1> QED BY <1>6, <1>7

\* A tick that is put back with one more answer was not counted (on_result).
LEMMA PutTickOnce ==
    ASSUME TypeInv, OnceInv, NEW w \in Workers, PutTick(w)
    PROVE  OnceInv'
<1> USE DEF env, valkey, history
<1> DEFINE k == task[w]
           j == [k EXCEPT !.pc = "mark"]
<1>1. /\ k.pc = "put" /\ Goes(w, j) /\ UNCHANGED <<closed, counted, disturbed>>
      /\ open' = [open EXCEPT ![k.tick] = k.rec] /\ open \in [Ticks -> TickRec]
  BY DEF PutTick, At, GoesTo, TypeInv, TypeOK
<1>2. /\ j.pc = "mark" /\ j.of = k.of /\ j.tick = k.tick /\ OfTick(k)
  BY TaskTypes DEF TypeInv, Pcs, Lawful, OfTick, PutTick, At
<1>3. /\ task'[w] = j /\ \A v \in Workers : v # w => task'[v] = task[v]
  BY <1>1, GoesSpec
<1> HIDE DEF j, k
<1>4. ASSUME NEW t \in Ticks \ disturbed' PROVE Once(t)'
  <2>1. Once(t)
    BY <1>1, <1>4 DEF OnceInv
  <2>2. IsCounted(t)' <=> IsCounted(t)
    BY <1>1 DEF IsCounted
  <2>3. IsCounted(t) => t # k.tick
    BY <1>1, <1>2, <2>1 DEF Once, Decides, BeforeSave, k
  <2>4. \A v \in Workers : Closes(task[v], t) => Closes(task[v], t)'
    <3>1. \A v \in Workers : Closes(task[v], t) => v # w
      BY <1>1 DEF Closes, AfterSave, k
    <3> QED BY <1>1, <1>3, <3>1 DEF Closes
  <2>5. IsCounted(t) => IsClosed(t)'
    BY <1>1, <2>1, <2>3, <2>4 DEF Once, IsClosed
  <2>6. ~Decides(j, t) /\ ~Holds(j, t)
    BY <1>2 DEF Decides, Holds, BeforeSave, AfterSave
  <2>7. /\ IsCounted(t) => \A v \in Workers : ~Decides(task'[v], t)
        /\ \A v, u \in Workers : Holds(task'[v], t) /\ Holds(task'[u], t) => v = u
    BY <1>3, <2>1, <2>6 DEF Once
  <2> QED BY <2>2, <2>5, <2>7 DEF Once, Holds, Decides
<1>5. \A v \in Workers : Placed(task'[v])
  BY <1>2, <1>3 DEF Placed, OnceInv, OfTick
<1>6. CountedOnce'
  BY <1>1, CountedOnceKept DEF OnceInv
<1> QED BY <1>4, <1>5, <1>6 DEF OnceInv, Placed

\* closed: covers the tick; what it steps back over is marked (_close).
LEMMA PutClosedOnce ==
    ASSUME TypeInv, OnceInv, NEW w \in Workers, PutClosed(w)
    PROVE  OnceInv'
<1> USE DEF env, valkey, history
<1> DEFINE k == task[w]
           j == [k EXCEPT !.pc = "drop"]
<1>1. /\ k.pc = "close" /\ Goes(w, j) /\ UNCHANGED <<open, counted>>
      /\ closed' = Latest(k.tick, k.read)
      /\ disturbed' = disturbed \union {t \in Ticks : closed' < t /\ t <= closed}
      /\ k.tick \in Nat /\ k.read \in Nat /\ closed \in Nat
  BY TaskFields DEF PutClosed, At, GoesTo, TypeInv, TypeOK
<1>2. /\ j.pc = "drop" /\ j.tick = k.tick /\ j.of = k.of
  BY TaskTypes DEF TypeInv, Pcs
<1>3. /\ task'[w] = j /\ \A v \in Workers : v # w => task'[v] = task[v]
  BY <1>1, GoesSpec
<1>4. closed' \in Nat /\ k.tick <= closed'
  BY <1>1 DEF Latest
<1> HIDE DEF j, k
<1>5. ASSUME NEW t \in Ticks \ disturbed' PROVE Once(t)'
  <2>1. Once(t) /\ t \in Nat
    BY <1>1, <1>5 DEF OnceInv, Ticks
  <2>2. t <= closed => t <= closed'
    BY <1>1, <1>4, <1>5, <2>1
  <2>3. IsCounted(t)' <=> IsCounted(t)
    BY <1>1 DEF IsCounted
  <2>4. \A v \in Workers : Closes(task[v], t) => Closes(task[v], t)'
    <3>1. ASSUME NEW v \in Workers, v # w, Closes(task[v], t) PROVE Closes(task[v], t)'
      BY <1>3, <2>2, <3>1 DEF Closes
    <3>2. ASSUME Closes(k, t) PROVE Closes(task[w], t)'
      BY <1>2, <1>3, <1>4, <3>2 DEF Closes, OfTick
    <3> QED BY <3>1, <3>2 DEF k
  <2>5. IsClosed(t) => IsClosed(t)'
    BY <1>1, <2>2, <2>4 DEF IsClosed
  <2>6. ~Decides(j, t) /\ (Holds(j, t) => Holds(k, t))
    BY <1>1, <1>2 DEF Decides, Holds, BeforeSave, AfterSave
  <2>7. /\ IsCounted(t) => \A v \in Workers : ~Decides(task'[v], t)
        /\ \A v, u \in Workers : Holds(task'[v], t) /\ Holds(task'[u], t) => v = u
    BY <1>3, <2>1, <2>6 DEF Once, k
  <2> QED BY <2>1, <2>3, <2>5, <2>7 DEF Once, Holds, Decides
<1>6. \A v \in Workers : Placed(task'[v])
  BY <1>2, <1>3 DEF Placed, OnceInv, OfTick, k
<1>7. CountedOnce'
  BY <1>1, CountedOnceKept DEF OnceInv
<1> QED BY <1>5, <1>6, <1>7 DEF OnceInv, Placed

\* A tick is deleted when it is closed, or was never counted (on_result, sweep).
LEMMA DropTickOnce ==
    ASSUME TypeInv, OnceInv, NEW w \in Workers, DropTick(w)
    PROVE  OnceInv'
<1> USE DEF env, valkey, history
<1> DEFINE k == task[w]
           pc == IF k.of = "message" THEN "mark" ELSE "ticks"
           j == [k EXCEPT !.pc = pc]
<1>1. /\ k.pc = "drop" /\ Goes(w, j) /\ UNCHANGED <<closed, counted, disturbed>>
      /\ open' = [open EXCEPT ![k.tick] = NoTick] /\ open \in [Ticks -> TickRec]
  BY DEF DropTick, Dropped, At, GoesTo, TypeInv, TypeOK
<1>2. j.pc \in {"mark", "ticks"} /\ j.of = k.of /\ j.tick = k.tick
  BY TaskTypes DEF TypeInv, Pcs
<1>3. /\ task'[w] = j /\ \A v \in Workers : v # w => task'[v] = task[v]
  BY <1>1, GoesSpec
<1> HIDE DEF j, k
<1>4. ASSUME NEW t \in Ticks \ disturbed' PROVE Once(t)'
  <2>1. Once(t)
    BY <1>1, <1>4 DEF OnceInv
  <2>2. IsCounted(t)' <=> IsCounted(t)
    BY <1>1 DEF IsCounted
  <2>3. Answered(open[t]) = {} \/ t = k.tick => Answered(open'[t]) = {}
    BY <1>1, NoTickType
  <2>4. ASSUME NEW v \in Workers, v # w, Closes(task[v], t) PROVE Closes(task[v], t)'
    BY <1>1, <1>3, <2>4 DEF Closes
  <2>5. Closes(k, t) => t = k.tick /\ t <= closed
    BY <1>1 DEF Closes, AfterSave
  <2>6. IsClosed(t) => IsClosed(t)'
    BY <1>1, <2>3, <2>4, <2>5 DEF IsClosed, k
  <2>7. ~Decides(j, t) /\ ~Holds(j, t)
    BY <1>2 DEF Decides, Holds, BeforeSave, AfterSave
  <2>8. /\ IsCounted(t) => \A v \in Workers : ~Decides(task'[v], t)
        /\ \A v, u \in Workers : Holds(task'[v], t) /\ Holds(task'[u], t) => v = u
    BY <1>3, <2>1, <2>7 DEF Once
  <2> QED BY <2>1, <2>2, <2>6, <2>8 DEF Once, Holds, Decides
<1>5. \A v \in Workers : Placed(task'[v])
  BY <1>2, <1>3 DEF Placed, OnceInv, OfTick, k
<1>6. CountedOnce'
  BY <1>1, CountedOnceKept DEF OnceInv
<1> QED BY <1>4, <1>5, <1>6 DEF OnceInv, Placed

\* The state is computed before it is saved: the tick is still uncounted (_close,
\* check_nodata).
LEMMA ComputedOnce ==
    ASSUME TypeInv, OnceInv, NEW w \in Workers, NEW step, Computed(w, step),
           task[w].pc \in {"apply", "timer"}, UNCHANGED <<closed, open, counted, disturbed>>
    PROVE  OnceInv'
<1> DEFINE k == task[w]
           j == [k EXCEPT !.st = step.st, !.tr = step.tr, !.row = NoRow, !.pc = AfterCompute(step)]
<1>1. Goes(w, j) /\ k \in TaskRec /\ Lawful(k) /\ Placed(k)
  BY TaskFields DEF Computed, TypeInv, OnceInv
<1>2. j.pc \in {"save", "emit"} /\ j.of = k.of /\ j.tick = k.tick
  BY <1>1 DEF AfterCompute, TaskRec
<1> HIDE DEF j
<1>3. Placed(j)
  BY <1>1, <1>2 DEF Placed, OfTick
<1>4. k.pc = "timer" => k.tick = 0
  BY <1>1 DEF Lawful, Placed, OfTick
<1>5. \A t \in Ticks : ~Closes(k, t)
  BY DEF Closes, AfterSave
<1> HIDE DEF k
<1> QED BY <1>1, <1>2, <1>3, <1>4, <1>5, StillOnce DEF k, BeforeSave

\* A task's steps (on_result, _close, _commit).
LEMMA HandleOnce ==
    ASSUME TypeInv, OnceInv, NEW w \in Workers, Handle(w)
    PROVE  OnceInv'
<1> USE DEF env, valkey, history
<1> DEFINE k == task[w]
<1>0. TypeOK /\ k \in TaskRec /\ Lawful(k) /\ Placed(k) /\ Idle \in TaskRec
  BY TaskFields, IdleLawful DEF TypeInv, OnceInv, Lawful
<1>1. ASSUME NEW t \in Ticks, NEW r \in Regions, Deliver(w, t, r) PROVE OnceInv'
  <2> DEFINE handled == ~config.active \/ IsLate(t)
             j == [Idle EXCEPT !.pc = IF handled THEN "mark" ELSE "read", !.tick = t,
                               !.region = r, !.row = IF handled THEN NoRow ELSE config]
  <2>1. /\ Goes(w, j) /\ UNCHANGED <<closed, open, counted>> /\ k.pc = "idle"
        /\ IF handled THEN UNCHANGED disturbed ELSE TakesTick(w, t)
    BY <1>1 DEF Deliver, Starts
  <2>2. /\ j.pc = (IF handled THEN "mark" ELSE "read") /\ j.tick = t /\ j.of = "message"
    <3>1. Idle.of = "message"
      BY DEF Idle
    <3> HIDE DEF handled
    <3> QED BY <1>0, <3>1 DEF TaskRec
  <2>3. \A u \in Ticks : ~Closes(k, u) /\ ~Holds(k, u)
    BY <2>1 DEF Closes, Holds, BeforeSave, AfterSave
  <2>4. ~handled => ~(t <= closed)
    BY DEF IsLate
  <2> HIDE DEF j, handled
  <2>5. OfTick(j) /\ Placed(j)
    BY <2>2 DEF OfTick, Placed
  <2>6. CASE handled
    <3>1. disturbed' = disturbed /\ j.pc \notin BeforeSave \union AfterSave \union {"drop"}
      BY <2>1, <2>2, <2>6 DEF BeforeSave, AfterSave
    <3> QED BY <2>1, <2>3, <2>5, <3>1, StillOnce
  <2>7. CASE ~handled
    BY <2>1, <2>2, <2>3, <2>4, <2>5, <2>7, TakeOnce
  <2> QED BY <2>6, <2>7
<1>2. ASSUME NEW pc \in Pcs, GoesTo(w, pc), UNCHANGED <<closed, open, counted, disturbed>>,
             \/ k.pc \in BeforeSave /\ pc \in BeforeSave
             \/ k.pc \in AfterSave /\ pc \in AfterSave
             \/ k.pc \in AfterSave /\ ~OfTick(k) /\ pc \notin BeforeSave \union AfterSave \union {"drop"}
      PROVE  OnceInv'
  <2> DEFINE j == [k EXCEPT !.pc = pc]
  <2>1. Goes(w, j)
    BY <1>2 DEF GoesTo
  <2>2. j.pc = pc /\ j.of = k.of /\ j.tick = k.tick
    BY <1>0, TaskTypes
  <2> HIDE DEF j
  <2>3. Placed(j)
    BY <1>0, <2>2 DEF Placed, OfTick
  <2>4. ~OfTick(k) => \A t \in Ticks : ~Closes(k, t)
    BY DEF Closes
  <2> HIDE DEF k
  <2> QED BY <1>2, <2>1, <2>2, <2>3, <2>4, StillOnce DEF k
<1>3. CASE ReadTick(w)
  <2> DEFINE tick == Heard(open[k.tick], k.region, lane[k.tick][k.region].says)
             j == [k EXCEPT !.rec = tick, !.pc = IF Regions \subseteq Answered(tick)
                                                 THEN "apply" ELSE "put"]
  <2>1. Goes(w, j) /\ UNCHANGED <<closed, open, counted, disturbed>> /\ k.pc = "read"
    BY <1>3 DEF ReadTick, At
  <2>2. j.pc \in {"apply", "put"} /\ j.of = k.of /\ j.tick = k.tick
    BY <1>0 DEF TaskRec
  <2> HIDE DEF j
  <2>3. Placed(j)
    BY <1>0, <2>2 DEF Placed, OfTick
  <2> QED BY <2>1, <2>2, <2>3, StillOnce DEF BeforeSave
<1>4. CASE PutTick(w)
  BY <1>4, PutTickOnce
<1>5. CASE Mark(w)
  <2>1. Goes(w, Idle) /\ UNCHANGED <<closed, open, counted, disturbed>> /\ k.pc = "mark"
    BY <1>5 DEF Mark, Ends, At
  <2>2. Idle.tick = 0 /\ Placed(Idle)
    BY DEF Idle, Placed
  <2>3. \A t \in Ticks : ~Closes(k, t)
    BY <2>1 DEF Closes, AfterSave
  <2> QED BY <2>1, <2>2, <2>3, StillOnce
<1>6. CASE Apply(w)
  <2> DEFINE step == ApplyTick(MonitorState(k.row), k.rec.results, k.tick, Threshold, MinFailing)
  <2>1. Computed(w, step) /\ UNCHANGED <<closed, open, counted, disturbed>> /\ k.pc = "apply"
    BY <1>6 DEF Apply, At
  <2> HIDE DEF step
  <2> QED BY <2>1, ComputedOnce
<1>7. CASE PutEmit(w)
  BY <1>2, <1>7 DEF PutEmit, At, Pcs, BeforeSave
<1>8. CASE Save(w)
  BY <1>8, SaveOnce
<1>9. CASE Publish(w)
  BY <1>2, <1>9 DEF Publish, At, Pcs, AfterSave
<1>10. /\ AfterPublish(w) \in {"closed", "flush", "idle"} /\ AfterPublish(w) \in Pcs
       /\ OfTick(k) => AfterPublish(w) = "closed"
       /\ ~OfTick(k) => AfterPublish(w) \in {"flush", "idle"}
  BY <1>0, TaskFields DEF AfterPublish, OfTick, Pcs
<1>11. CASE PublishFails(w)
  BY <1>2, <1>10, <1>11 DEF PublishFails, At, BeforeSave, AfterSave
<1>12. CASE Unemit(w)
  BY <1>2, <1>10, <1>12 DEF Unemit, At, BeforeSave, AfterSave
<1>13. CASE ReadClosed(w)
  <2> DEFINE j == [k EXCEPT !.read = closed, !.pc = "close"]
  <2>1. Goes(w, j) /\ UNCHANGED <<closed, open, counted, disturbed>> /\ k.pc = "closed"
    BY <1>13 DEF ReadClosed, At
  <2>2. j.pc = "close" /\ j.of = k.of /\ j.tick = k.tick
    BY <1>0 DEF TaskRec
  <2> HIDE DEF j
  <2>3. Placed(j)
    BY <1>0, <2>2 DEF Placed, OfTick
  <2> QED BY <2>1, <2>2, <2>3, StillOnce DEF AfterSave
<1>14. CASE PutClosed(w)
  BY <1>14, PutClosedOnce
<1>15. CASE DropTick(w)
  BY <1>15, DropTickOnce
<1> QED BY <1>1, <1>3, <1>4, <1>5, <1>6, <1>7, <1>8, <1>9, <1>11, <1>12, <1>13, <1>14, <1>15
     DEF Handle

\* The sweep's steps (sweep, flush).
LEMMA SweepOnce ==
    ASSUME TypeInv, OnceInv, Sweep
    PROVE  OnceInv'
<1> USE DEF env, valkey, history
<1> DEFINE k == task["job"]
<1>0. /\ "job" \in Workers /\ k \in TaskRec /\ Lawful(k) /\ Placed(k) /\ Idle \in TaskRec
      /\ k.pc \in {"idle", "flush", "ticks", "timer"}
           => \A t \in Ticks : ~Closes(k, t) /\ ~Holds(k, t)
  BY TaskFields, IdleLawful
     DEF Workers, TypeInv, Lawful, OnceInv, Closes, Holds, BeforeSave, AfterSave
<1>1. ASSUME NEW j, Goes("job", j), UNCHANGED <<closed, open, counted, disturbed>>,
             k.pc \in {"idle", "flush", "ticks", "timer"}, Placed(j),
             j.tick = 0 \/ j.pc \notin BeforeSave \union AfterSave \union {"drop"}
      PROVE  OnceInv'
  <2> HIDE DEF k
  <2> QED BY <1>0, <1>1, StillOnce DEF k
<1>2. CASE SweepStarts
  <2> DEFINE j == [Idle EXCEPT !.pc = "flush", !.of = "flush", !.todo = Stored]
  <2>1. Goes("job", j) /\ j.tick = 0 /\ k.pc = "idle"
    BY <1>2 DEF SweepStarts, Starts, Idle
  <2> HIDE DEF j
  <2> QED BY <1>1, <1>2, <2>1 DEF SweepStarts, Placed
<1>3. CASE FlushNext
  <2>1. PICK e \in ToFlush(k.todo) :
          Goes("job", [k EXCEPT !.tr = e, !.todo = @ \ {e.seq}, !.pc = "publish"])
    BY <1>3 DEF FlushNext
  <2> DEFINE j == [k EXCEPT !.tr = e, !.todo = @ \ {e.seq}, !.pc = "publish"]
  <2>2. Goes("job", j) /\ k.pc = "flush"
    BY <1>3, <2>1 DEF FlushNext, At
  <2>3. j.tick = k.tick /\ k.tick = 0
    BY <1>0, <2>2 DEF TaskRec, Lawful, Placed, OfTick
  <2> HIDE DEF j
  <2> QED BY <1>1, <1>3, <2>2, <2>3 DEF FlushNext, Placed
<1>4. CASE FlushEnds
  <2> DEFINE j == [k EXCEPT !.pc = "ticks", !.of = "ticks", !.todo = OpenTicks, !.since = now]
  <2>1. Goes("job", j) /\ j.pc = "ticks" /\ j.of = "ticks" /\ k.pc = "flush"
    BY <1>0, <1>4 DEF FlushEnds, TaskRec, At
  <2> HIDE DEF j
  <2> QED BY <1>1, <1>4, <2>1 DEF FlushEnds, Placed, OfTick, BeforeSave, AfterSave
<1>5. CASE SweepTick
  <2>1. PICK t \in ToClose(k.todo) :
          /\ Goes("job", [k EXCEPT !.tick = t, !.rec = open[t], !.todo = @ \ {t},
                                   !.tr = NoTransition, !.row = config,
                                   !.pc = IF config.active THEN "apply" ELSE "drop"])
          /\ TakesTick("job", t)
    BY <1>5 DEF SweepTick
  <2> DEFINE j == [k EXCEPT !.tick = t, !.rec = open[t], !.todo = @ \ {t},
                            !.tr = NoTransition, !.row = config,
                            !.pc = IF config.active THEN "apply" ELSE "drop"]
  <2>2. Goes("job", j) /\ k.pc = "ticks" /\ UNCHANGED <<closed, open, counted>>
    BY <1>5, <2>1 DEF SweepTick, At
  <2>3. j.tick = t /\ j.of = "ticks"
    BY <1>0, <2>2 DEF TaskRec, Lawful
  <2> HIDE DEF j
  <2>4. t \in Ticks /\ Answered(open[t]) # {}
    BY <2>1 DEF ToClose, OpenTicks
  <2>5. OfTick(j)
    BY <2>3 DEF OfTick
  <2>6. TakesTick("job", t) /\ \A u \in Ticks : ~Closes(k, u) /\ ~Holds(k, u)
    BY <1>0, <2>1, <2>2
  <2> HIDE DEF k
  <2> QED BY <1>0, <2>2, <2>3, <2>4, <2>5, <2>6, TakeOnce DEF k
<1>6. CASE SweepTicksEnd
  <2> DEFINE j == [Idle EXCEPT !.pc = "timer", !.of = "idle", !.row = config, !.since = k.since]
  <2>1. Goes("job", j) /\ j.tick = 0 /\ k.pc = "ticks"
    BY <1>6 DEF SweepTicksEnd, Idle, At
  <2> HIDE DEF j
  <2> QED BY <1>1, <1>6, <2>1 DEF SweepTicksEnd, Placed
<1>7. ASSUME Ends("job"), k.pc = "timer", UNCHANGED <<closed, open, counted, disturbed>>
      PROVE  OnceInv'
  <2>1. Idle.tick = 0 /\ Placed(Idle)
    BY DEF Idle, Placed
  <2> QED BY <1>1, <1>7, <2>1 DEF Ends
<1>8. CASE SweepTimer
  <2> DEFINE step == CheckNoData(MonitorState(k.row), k.since, 1)
  <2>1. /\ k.pc = "timer" /\ UNCHANGED <<closed, open, counted, disturbed>>
        /\ Computed("job", step) \/ Ends("job")
    BY <1>8 DEF SweepTimer, At
  <2> HIDE DEF step
  <2> QED BY <1>0, <1>7, <2>1, ComputedOnce
<1>9. CASE SweepInactive
  BY <1>7, <1>9 DEF SweepInactive, At
<1> QED BY <1>2, <1>3, <1>4, <1>5, <1>6, <1>8, <1>9 DEF Sweep

\* The environment counts and closes nothing; a tick whose closing it cuts off is
\* marked.
LEMMA EnvironmentOnce ==
    ASSUME TypeInv, OnceInv, Environment
    PROVE  OnceInv'
<1> USE DEF env, valkey, history
<1>1. ASSUME UNCHANGED <<task, closed, open, counted, disturbed>> PROVE OnceInv'
  BY <1>1 DEF OnceInv, Once, Placed, CountedOnce, IsCounted, IsClosed, Closes, Holds, Decides
<1>2. CASE Slot \/ Toggle \/ Rewrite \/ \E t \in Ticks, r \in Regions : Park(t, r) \/ GiveUp(t, r)
  BY <1>1, <1>2 DEF Slot, Toggle, Rewrite, Park, GiveUp
<1>3. ASSUME NEW w \in Workers, Cut(w) PROVE OnceInv'
  <2>1. Goes(w, Idle) /\ UNCHANGED <<closed, open, counted>> /\ disturbed \subseteq disturbed'
    BY <1>3 DEF Cut, Ends
  <2>2. Idle.tick = 0 /\ Placed(Idle)
    BY DEF Idle, Placed
  <2>3. \A t \in Ticks \ disturbed' : ~Closes(task[w], t)
    BY <1>3 DEF Closes, AfterSave, Cut
  <2> QED BY <2>1, <2>2, <2>3, StillOnce
<1> QED BY <1>2, <1>3 DEF Environment

\* The invariant of the count, in every state.
LEMMA OnceInvariant == Spec => []OnceInv
<1>1. Init => OnceInv
  <2> SUFFICES ASSUME Init PROVE OnceInv
    OBVIOUS
  <2>1. \A w \in Workers : task[w] = Idle
    BY DEF Init
  <2>2. counted = <<>> /\ DOMAIN counted = {}
    BY DEF Init
  <2>3. Idle.pc = "idle" /\ Placed(Idle)
    BY DEF Idle, Placed
  <2>4. \A t : ~IsCounted(t) /\ \A w \in Workers : ~Holds(task[w], t)
    BY <2>1, <2>2, <2>3 DEF IsCounted, Holds, BeforeSave, AfterSave
  <2> QED BY <2>1, <2>2, <2>3, <2>4 DEF OnceInv, Once, CountedOnce
<1>2. TypeInv /\ OnceInv /\ [Next]_vars => OnceInv'
  <2> SUFFICES ASSUME TypeInv, OnceInv, [Next]_vars PROVE OnceInv'
    OBVIOUS
  <2>1. CASE UNCHANGED vars
    BY <2>1 DEF vars, env, valkey, history, OnceInv, Once, Placed, CountedOnce, IsCounted, IsClosed,
                Closes, Holds, Decides
  <2> QED BY <2>1, HandleOnce, SweepOnce, EnvironmentOnce DEF Next
<1> QED BY <1>1, <1>2, Types, PTL DEF Spec

\* No tick is counted twice, however late, repeated or parked its results are, in
\* whatever order the consumer and the evaluate job take their steps, whatever is
\* cut off, published or not, paused or rewritten: but a tick both had in hand at
\* once, one whose closing was cut off after its state was saved, and one closed:
\* stepped back over (on_result, _close).
THEOREM TicksCountedOnce == Spec => []CountedOnce
<1>1. OnceInv => CountedOnce
  BY DEF OnceInv
<1> QED BY OnceInvariant, <1>1, PTL

-----------------------------------------------------------------------------
(* A number names one transition.  A number that is not contested and was used  *)
(* is one the next state will not be made below: the working state has reached   *)
(* it, or every row a state may be made from has, or a task is about to save it. *)

\* The transitions stored, published or about to be; a draft is not stored yet.
Noted == emit \union {published[i] : i \in DOMAIN published}
InHand(k) == k.pc \in {"publish", "unemit"} \/ (k.pc = "save" /\ k.tr # NoTransition)
Made == Noted \union {task[w].tr : w \in {v \in Workers : InHand(task[v])}}
Drafts(k, n) == k.pc = "emit" /\ k.tr.seq = n

\* A task has read a row that it may make a state from.
HasRow(w) == task[w].pc \in {"read", "apply"} \/ (w = "job" /\ task[w].pc = "timer")

\* No state is made below a number that is reached.
Reached(n) ==
    \/ n <= mon.seq
    \/ n <= config.seq /\ \A w \in Workers : HasRow(w) => n <= task[w].row.seq
    \/ \E w \in Workers : HasState(w) /\ task[w].tr.seq = n

Names(n) ==
    /\ \A d, e \in Made : d.seq = n /\ e.seq = n => d = e
    /\ (\E e \in Made : e.seq = n) => Reached(n)
    /\ \A w \in Workers : Drafts(task[w], n) =>
         /\ \A e \in Made : e.seq # n
         /\ \A v \in Workers : Drafts(task[v], n) => v = w

\* What a task is about to save steps back over contested numbers only.
StepsBack(w) ==
    HasState(w) => \A n \in Nat : task[w].st.seq < n /\ n <= mon.seq => n \in contested

NamesInv == (\A n \in Nat \ contested : Names(n)) /\ \A w \in Workers : StepsBack(w)

\* Numbers are natural numbers.
LEMMA NumberTypes ==
    ASSUME TypeInv
    PROVE  /\ mon.seq \in Nat /\ config.seq \in Nat
           /\ \A w \in Workers : /\ task[w].row.seq \in Nat /\ task[w].st.seq \in Nat
                                 /\ task[w].tr.seq \in Nat
           /\ \A e \in Made : e.seq \in Nat
<1>1. mon \in StateRec /\ config \in RowRec /\ emit \in SUBSET TransitionRec
      /\ published \in Seq(TransitionRec)
  BY DEF TypeInv, TypeOK
<1>2. mon.seq \in Nat /\ config.seq \in Nat
  BY <1>1, StateFields DEF RowRec
<1>3. \A w \in Workers : /\ task[w].row \in RowRec /\ task[w].st \in StateRec
                         /\ task[w].tr \in TransitionRec
  BY TaskFields DEF TypeInv
<1>4. \A w \in Workers : task[w].row.seq \in Nat /\ task[w].st.seq \in Nat
  BY <1>3, StateFields DEF RowRec
<1>5. \A e \in TransitionRec : e.seq \in Nat
  BY DEF TransitionRec
<1>6. \A i \in DOMAIN published : published[i] \in TransitionRec
  BY <1>1, ElementOfSeq
<1>7. \A e \in Made : e \in TransitionRec
  BY <1>1, <1>3, <1>6 DEF Made, Noted
<1> QED BY <1>2, <1>3, <1>4, <1>5, <1>7

\* Marks only grow.
LEMMA ContestedGrows ==
    ASSUME [Next]_vars
    PROVE  contested \subseteq contested'
<1> USE DEF env, valkey, history
<1>1. CASE UNCHANGED vars
  BY <1>1 DEF vars
<1>2. CASE Sweep
  BY <1>2 DEF Sweep, SweepStarts, FlushNext, FlushEnds, SweepTick, SweepTicksEnd,
              SweepTimer, Computed, SweepInactive
<1>3. CASE Environment
  BY <1>3 DEF Environment, Slot, Toggle, Rewrite, Park, GiveUp, Cut
<1>4. ASSUME NEW w \in Workers, Handle(w) PROVE contested \subseteq contested'
  BY <1>4 DEF Handle, Deliver, ReadTick, PutTick, Mark, Apply, Computed, PutEmit, Save, Publish,
              PublishFails, Unemit, ReadClosed, PutClosed, DropTick
<1> QED BY <1>1, <1>2, <1>3, <1>4 DEF Next

\* A step that makes and drafts nothing, and keeps reached what was.
LEMMA NamesStep ==
    ASSUME TypeInv, TypeInv', NamesInv, contested \subseteq contested', Made' \subseteq Made,
           \A n \in Nat \ contested' : (\E e \in Made' : e.seq = n) /\ Reached(n) => Reached(n)',
           \A v \in Workers, n \in Nat : Drafts(task'[v], n) => Drafts(task[v], n),
           (\A v \in Workers : StepsBack(v))'
    PROVE  NamesInv'
<1>1. ASSUME NEW n \in Nat \ contested' PROVE Names(n)'
  <2>1. Names(n)
    BY <1>1 DEF NamesInv
  <2>2. \A d, e \in Made' : d.seq = n /\ e.seq = n => d = e
    BY <2>1 DEF Names
  <2>3. (\E e \in Made' : e.seq = n) => Reached(n)'
    BY <1>1, <2>1 DEF Names
  <2>4. \A w \in Workers : Drafts(task'[w], n) =>
          /\ \A e \in Made' : e.seq # n
          /\ \A v \in Workers : Drafts(task'[v], n) => v = w
    BY <1>1, <2>1 DEF Names
  <2> QED BY <2>2, <2>3, <2>4 DEF Names, Drafts
<1> QED BY <1>1 DEF NamesInv

\* A task's step on: the rows tasks have are kept or the snapshot's.
LEMMA ReachedKept ==
    ASSUME TypeInv, NEW w \in Workers, NEW rec, Goes(w, rec), UNCHANGED <<mon, config>>,
           rec.pc \in {"read", "apply"} \/ (w = "job" /\ rec.pc = "timer") =>
             rec.row = config \/ (HasRow(w) /\ rec.row = task[w].row),
           NEW n \in Nat, Reached(n),
           HasState(w) /\ task[w].tr.seq = n => rec.pc \in {"emit", "save"} /\ rec.tr = task[w].tr
    PROVE  Reached(n)'
<1>1. task'[w] = rec /\ \A v \in Workers : v # w => task'[v] = task[v]
  BY GoesSpec
<1>2. CASE n <= mon.seq
  BY <1>2 DEF Reached
<1>3. CASE n <= config.seq /\ \A v \in Workers : HasRow(v) => n <= task[v].row.seq
  <2>1. ASSUME NEW v \in Workers, HasRow(v)' PROVE n <= task'[v].row.seq
    BY <1>1, <1>3, <2>1 DEF HasRow
  <2> QED BY <1>3, <2>1 DEF Reached
<1>4. CASE \E v \in Workers : HasState(v) /\ task[v].tr.seq = n
  <2>1. PICK v \in Workers : HasState(v) /\ task[v].tr.seq = n
    BY <1>4
  <2>2. HasState(v)' /\ task'[v].tr.seq = n
    BY <1>1, <2>1 DEF HasState
  <2> QED BY <2>2 DEF Reached
<1> QED BY <1>2, <1>3, <1>4 DEF Reached

\* A step of a task outside a commit; it may publish what is made, and store no more.
LEMMA QuietNames ==
    ASSUME TypeInv, TypeInv', NamesInv, contested \subseteq contested',
           NEW w \in Workers, NEW rec, Goes(w, rec), UNCHANGED <<mon, config>>,
           Noted' \subseteq Made, ~HasState(w), rec.pc \notin {"emit", "save"},
           rec.pc \in {"publish", "unemit"} => rec.tr \in Made,
           rec.pc \in {"read", "apply"} \/ (w = "job" /\ rec.pc = "timer") =>
             rec.row = config \/ (HasRow(w) /\ rec.row = task[w].row)
    PROVE  NamesInv'
<1>1. task'[w] = rec /\ \A v \in Workers : v # w => task'[v] = task[v]
  BY GoesSpec
<1>2. Made' \subseteq Made
  <2>1. ASSUME NEW v \in Workers, InHand(task'[v]) PROVE task'[v].tr \in Made
    BY <1>1, <2>1 DEF InHand, Made
  <2>2. ASSUME NEW e \in Made' PROVE e \in Made
    <3>1. e \in Noted' \/ \E v \in Workers : InHand(task'[v]) /\ e = task'[v].tr
      BY <2>2 DEF Made, InHand
    <3> QED BY <2>1, <3>1
  <2> QED BY <2>2
<1>3. \A n \in Nat : Reached(n) => Reached(n)'
  BY ReachedKept
<1>4. \A v \in Workers, n \in Nat : Drafts(task'[v], n) => Drafts(task[v], n)
  BY <1>1 DEF Drafts
<1>5. (\A v \in Workers : StepsBack(v))'
  BY <1>1 DEF NamesInv, StepsBack, HasState
<1> QED BY <1>2, <1>3, <1>4, <1>5, NamesStep

\* monitor_state answers a state at least as new as the working state and the row.
LEMMA MonitorStateNewest ==
    ASSUME TypeInv, NEW row \in RowRec
    PROVE  /\ MonitorState(row) \in StateRec /\ MonitorState(row).seq \in Nat
           /\ MonitorState(row).seq >= mon.seq /\ MonitorState(row).seq >= row.seq
<1>1. MonitorState(row) \in StateRec
  BY MonitorStateType DEF TypeInv
<1>2. mon.seq \in Nat /\ row.seq \in Nat /\ (mon = NoState => mon.seq = 0)
  BY NumberTypes DEF RowRec, NoState, Fresh
<1>3. Fresh(row.status, row.failures, row.seq).seq = row.seq
  BY DEF Fresh
<1>4. MonitorState(row).seq = (IF mon # NoState /\ mon.seq >= row.seq THEN mon.seq ELSE row.seq)
  BY <1>3 DEF MonitorState
<1> QED BY <1>1, <1>2, <1>4, StateFields

\* What a task computes takes a number nothing has, but for one that the other task
\* has in hand (_close, check_nodata).
LEMMA ComputedNames ==
    ASSUME TypeInv, TypeInv', NamesInv, NEW w \in Workers, NEW s \in StateRec, NEW step,
           s = MonitorState(task[w].row), StepsFrom(s, step), Computed(w, step), HasRow(w),
           task[w].pc \in {"apply", "timer"}, UNCHANGED <<mon, config, emit, published>>
    PROVE  NamesInv'
<1> DEFINE k == task[w]
           j == [k EXCEPT !.st = step.st, !.tr = step.tr, !.row = NoRow, !.pc = AfterCompute(step)]
<1>1. /\ Goes(w, j) /\ contested' = contested \union Clashing(w, step)
      /\ k \in TaskRec /\ k.row \in RowRec
  BY TaskFields DEF Computed, TypeInv
<1>2. /\ j.st = step.st /\ j.tr = step.tr
      /\ j.pc = (IF step.tr = NoTransition THEN "save" ELSE "emit")
  BY <1>1 DEF AfterCompute, TaskRec
<1> HIDE DEF j
<1>3. task'[w] = j /\ \A v \in Workers : v # w => task'[v] = task[v]
  BY <1>1, GoesSpec
<1>4. s.seq \in Nat /\ s.seq >= mon.seq /\ s.seq >= k.row.seq /\ mon.seq \in Nat /\ k.row.seq \in Nat
  BY <1>1, MonitorStateNewest, NumberTypes
<1>5. /\ step.tr = NoTransition => step.st.seq = s.seq
      /\ step.tr # NoTransition => step.st.seq = s.seq + 1 /\ step.tr.seq = s.seq + 1
  BY <1>4 DEF StepsFrom, NoTransition
<1>6. ~HasState(w) /\ \A n \in Nat : ~Drafts(k, n)
  BY DEF HasState, Drafts
<1>7. Made' = Made
  <2>1. ~InHand(task'[w]) /\ ~InHand(task[w])
    BY <1>2, <1>3 DEF InHand
  <2>2. \A v \in Workers : InHand(task'[v]) <=> InHand(task[v])
    BY <1>3, <2>1
  <2>3. \A v \in Workers : InHand(task[v]) => task'[v] = task[v]
    BY <1>3, <2>1
  <2>4. Noted' = Noted
    BY DEF Noted
  <2> QED BY <2>2, <2>3, <2>4 DEF Made, InHand
<1>8. \A n \in Nat : Reached(n) => Reached(n)'
  BY <1>1, <1>2, <1>6, ReachedKept
<1>9. (\A v \in Workers : StepsBack(v))'
  <2>1. \A v \in Workers : v # w => StepsBack(v)'
    BY <1>1, <1>3 DEF NamesInv, StepsBack, HasState
  <2>2. step.st.seq >= mon.seq /\ step.st.seq \in Nat
    BY <1>4, <1>5
  <2>3. StepsBack(w)'
    BY <1>2, <1>3, <1>4, <2>2 DEF StepsBack
  <2> QED BY <2>1, <2>3
<1>10. ASSUME NEW n \in Nat \ contested' PROVE Names(n)'
  <2>1. Names(n) /\ n \notin contested
    BY <1>1, <1>10 DEF NamesInv
  <2>2. /\ \A d, e \in Made' : d.seq = n /\ e.seq = n => d = e
        /\ (\E e \in Made' : e.seq = n) => Reached(n)'
    BY <1>7, <1>8, <2>1 DEF Names
  <2>3. ASSUME Drafts(j, n)
        PROVE  /\ \A e \in Made : e.seq # n
               /\ \A v \in Workers : v # w => ~Drafts(task[v], n)
    <3>1. step.tr # NoTransition /\ step.tr.seq = n /\ n = s.seq + 1
      BY <1>2, <1>5, <2>3 DEF Drafts
    <3>2. ~\E v \in Workers \ {w} : HasState(v) /\ task[v].tr.seq = n
      BY <1>1, <1>10, <3>1 DEF Clashing, Others
    <3>3. ~Reached(n)
      BY <1>4, <1>6, <3>1, <3>2 DEF Reached
    <3>4. \A v \in Workers : v # w => ~Drafts(task[v], n)
      BY <3>2 DEF Drafts, HasState
    <3> QED BY <2>1, <3>3, <3>4 DEF Names
  <2>4. ASSUME NEW u \in Workers, Drafts(task'[u], n)
        PROVE  /\ \A e \in Made' : e.seq # n
               /\ \A v \in Workers : Drafts(task'[v], n) => v = u
    <3>1. CASE u = w
      BY <1>3, <1>7, <2>3, <2>4, <3>1
    <3>2. CASE u # w
      <4>1. ~Drafts(j, n)
        BY <1>3, <2>3, <2>4, <3>2
      <4> QED BY <1>3, <1>7, <2>1, <2>4, <3>2, <4>1 DEF Names
    <3> QED BY <3>1, <3>2
  <2> QED BY <2>2, <2>4 DEF Names, Drafts
<1> QED BY <1>9, <1>10 DEF NamesInv

\* A draft is stored: the only transition of its number (_commit).
LEMMA PutEmitNames ==
    ASSUME TypeInv, TypeInv', NamesInv, NEW w \in Workers, PutEmit(w)
    PROVE  NamesInv'
<1> USE DEF env, valkey, history
<1> DEFINE k == task[w]
           j == [k EXCEPT !.pc = "save"]
           m == k.tr.seq
<1>1. /\ k.pc = "emit" /\ Goes(w, j) /\ UNCHANGED <<mon, config, published, contested>>
      /\ emit' = Without(m) \union {k.tr} /\ m \in Nat
  BY NumberTypes DEF PutEmit, At, GoesTo
<1>2. j.pc = "save" /\ j.tr = k.tr /\ j.st = k.st
  BY TaskTypes DEF TypeInv, Pcs
<1>3. task'[w] = j /\ \A v \in Workers : v # w => task'[v] = task[v]
  BY <1>1, GoesSpec
<1> HIDE DEF k, j, m
<1>4. ASSUME NEW e \in Made' PROVE e \in Made \/ e = k.tr
  <2>1. CASE e \in Noted'
    BY <1>1, <2>1 DEF Noted, Made, Without
  <2>2. ASSUME NEW v \in Workers, InHand(task'[v]), e = task'[v].tr PROVE e \in Made \/ e = k.tr
    BY <1>2, <1>3, <2>2 DEF Made
  <2> QED BY <1>4, <2>1, <2>2 DEF Made, InHand
<1>5. \A n \in Nat : Reached(n) => Reached(n)'
  BY <1>1, <1>2, ReachedKept DEF k
<1>6. ASSUME NEW n \in Nat, n = m PROVE Reached(n)'
  <2>1. task'[w].pc = "save" /\ task'[w].tr.seq = n
    BY <1>2, <1>3, <1>6 DEF m
  <2> QED BY <2>1 DEF Reached, HasState
<1>7. (\A v \in Workers : StepsBack(v))'
  BY <1>1, <1>2, <1>3 DEF NamesInv, StepsBack, HasState, k
<1>8. ASSUME NEW n \in Nat \ contested' PROVE Names(n)'
  <2>1. Names(n)
    BY <1>1, <1>8 DEF NamesInv
  <2>2. ASSUME n = m PROVE /\ \A e \in Made : e.seq # n
                           /\ \A v \in Workers : v # w => ~Drafts(task[v], n)
    BY <1>1, <2>1, <2>2 DEF Names, Drafts, k, m
  <2>3. \A d, e \in Made' : d.seq = n /\ e.seq = n => d = e
    BY <1>4, <2>1, <2>2 DEF Names, m
  <2>4. (\E e \in Made' : e.seq = n) => Reached(n)'
    <3>1. CASE n = m
      BY <1>6, <3>1
    <3>2. CASE n # m
      BY <1>4, <1>5, <2>1, <3>2 DEF Names, m
    <3> QED BY <3>1, <3>2
  <2>5. ~Drafts(j, n)
    BY <1>2 DEF Drafts
  <2>6. ASSUME NEW u \in Workers, Drafts(task'[u], n)
        PROVE  /\ \A e \in Made' : e.seq # n
               /\ \A v \in Workers : Drafts(task'[v], n) => v = u
    <3>1. u # w /\ Drafts(task[u], n)
      BY <1>3, <2>5, <2>6
    <3>2. n # m
      BY <2>2, <3>1
    <3>3. \A e \in Made' : e.seq = n => e \in Made
      BY <1>4, <3>2 DEF m
    <3> QED BY <1>3, <2>1, <2>5, <3>1, <3>3 DEF Names
  <2> QED BY <2>3, <2>4, <2>6 DEF Names, Drafts
<1> QED BY <1>7, <1>8 DEF NamesInv

\* The state is saved: what it steps back over was marked, and what the other task is
\* about to save below it is (_commit).
LEMMA SaveNames ==
    ASSUME TypeInv, TypeInv', NamesInv, TracedInv, NEW w \in Workers, Save(w)
    PROVE  NamesInv'
<1> USE DEF env, valkey, history
<1> DEFINE k == task[w]
           pc == IF k.tr = NoTransition THEN AfterPublish(w) ELSE "publish"
           j == [k EXCEPT !.pc = pc]
           more == UNION {task[v].st.seq + 1 .. k.st.seq : v \in {u \in Others(w) : HasState(u)}}
<1>1. /\ k.pc = "save" /\ Goes(w, j) /\ UNCHANGED <<config, published, emit>> /\ mon' = k.st
      /\ contested' = contested \union more
  BY DEF Save, At, GoesTo
<1>2. /\ pc \in Pcs /\ pc \in {"closed", "flush", "idle", "publish"}
      /\ pc = "publish" => k.tr # NoTransition
  BY TaskFields DEF AfterPublish, Pcs, TypeInv
<1>3. j.pc = pc /\ j.tr = k.tr
  BY <1>2, TaskTypes DEF TypeInv
<1>4. task'[w] = j /\ \A v \in Workers : v # w => task'[v] = task[v]
  BY <1>1, GoesSpec
<1>5. k.tr.seq = 0 \/ k.tr.seq = k.st.seq
  BY <1>1 DEF TracedInv, TracedTask, NoTransition
<1>6. ASSUME NEW v \in Workers, v # w, HasState(v), NEW n \in Nat, task[v].st.seq < n, n <= k.st.seq
      PROVE  n \in more
  <2>1. n \in task[v].st.seq + 1 .. k.st.seq
    BY <1>6, NumberTypes
  <2> QED BY <1>6, <2>1 DEF Others
<1> HIDE DEF j, pc, more
<1>7. Made' \subseteq Made
  <2>1. ASSUME NEW v \in Workers, InHand(task'[v]) PROVE task'[v].tr \in Made
    <3>1. CASE v = w
      BY <1>1, <1>2, <1>3, <1>4, <2>1, <3>1 DEF InHand, Made
    <3>2. CASE v # w
      BY <1>4, <2>1, <3>2 DEF Made
    <3> QED BY <3>1, <3>2
  <2>2. Noted' = Noted
    BY <1>1 DEF Noted
  <2> QED BY <2>1, <2>2 DEF Made, InHand
<1>8. ASSUME NEW n \in Nat \ contested', Reached(n) PROVE Reached(n)'
  <2>1. CASE n <= mon.seq
    <3>1. ~(k.st.seq < n)
      BY <1>1, <1>8, <2>1 DEF NamesInv, StepsBack, HasState
    <3>2. n <= mon'.seq
      BY <1>1, <3>1, NumberTypes
    <3> QED BY <3>2 DEF Reached
  <2>2. CASE n <= config.seq /\ \A v \in Workers : HasRow(v) => n <= task[v].row.seq
    <3>1. ASSUME NEW v \in Workers, HasRow(v)' PROVE n <= task'[v].row.seq
      BY <1>2, <1>3, <1>4, <2>2, <3>1 DEF HasRow
    <3> QED BY <1>1, <2>2, <3>1 DEF Reached
  <2>3. ASSUME NEW v \in Workers, HasState(v), task[v].tr.seq = n PROVE Reached(n)'
    <3>1. CASE v = w
      <4>1. n <= mon'.seq
        BY <1>1, <1>5, <2>3, <3>1, NumberTypes
      <4> QED BY <4>1 DEF Reached
    <3>2. CASE v # w
      <4>1. HasState(v)' /\ task'[v].tr.seq = n
        BY <1>4, <2>3, <3>2 DEF HasState
      <4> QED BY <4>1 DEF Reached
    <3> QED BY <3>1, <3>2
  <2> QED BY <1>8, <2>1, <2>2, <2>3 DEF Reached
<1>9. \A v \in Workers, n \in Nat : Drafts(task'[v], n) => Drafts(task[v], n)
  BY <1>2, <1>3, <1>4 DEF Drafts
<1>10. (\A v \in Workers : StepsBack(v))'
  <2>1. ASSUME NEW v \in Workers, HasState(v)',
               NEW n \in Nat, task'[v].st.seq < n, n <= mon'.seq
        PROVE  n \in contested'
    <3>1. v # w /\ HasState(v) /\ task'[v] = task[v]
      BY <1>2, <1>3, <1>4, <2>1 DEF HasState
    <3> QED BY <1>1, <1>6, <2>1, <3>1
  <2> QED BY <2>1 DEF StepsBack
<1>11. contested \subseteq contested'
  BY <1>1
<1> QED BY <1>7, <1>8, <1>9, <1>10, <1>11, NamesStep

\* A paused monitor's state is deleted: the numbers the snapshot and the rows in hand
\* have not heard of are marked (sweep).
LEMMA InactiveNames ==
    ASSUME TypeInv, TypeInv', NamesInv, SweepInactive
    PROVE  NamesInv'
<1> USE DEF env, valkey, history
<1>1. /\ Goes("job", Idle) /\ UNCHANGED <<config, published, emit>> /\ mon' = NoState
      /\ contested' = contested \union {n \in 1 .. mon.seq : Unheard(n)} /\ "job" \in Workers
      /\ task["job"].pc = "timer"
  BY DEF SweepInactive, Ends, Cleared, At, Workers
<1>2. Idle.pc = "idle" /\ mon'.seq = 0
  BY <1>1 DEF Idle, NoState, Fresh
<1>3. task'["job"] = Idle /\ \A v \in Workers : v # "job" => task'[v] = task[v]
  BY <1>1, GoesSpec
<1>4. Made' \subseteq Made
  <2>1. \A v \in Workers : InHand(task'[v]) => task'[v].tr \in Made
    BY <1>2, <1>3 DEF InHand, Made
  <2>2. Noted' = Noted
    BY <1>1 DEF Noted
  <2> QED BY <2>1, <2>2 DEF Made, InHand
<1>5. ASSUME NEW n \in Nat \ contested', Reached(n) PROVE Reached(n)'
  <2>1. CASE n = 0
    BY <1>2, <2>1 DEF Reached
  <2>2. CASE n # 0 /\ n <= mon.seq
    <3>1. ~Unheard(n)
      BY <1>1, <1>5, <2>2, NumberTypes
    <3>2. n <= config.seq
      BY <3>1, NumberTypes DEF Unheard
    <3>3. ASSUME NEW v \in Workers, HasRow(v)' PROVE n <= task'[v].row.seq
      <4>1. v # "job" /\ task[v].pc \in {"read", "apply"} /\ task'[v] = task[v]
        BY <1>2, <1>3, <3>3 DEF HasRow
      <4> QED BY <3>1, <4>1, NumberTypes DEF Unheard
    <3> QED BY <1>1, <3>2, <3>3 DEF Reached
  <2>3. CASE n <= config.seq /\ \A v \in Workers : HasRow(v) => n <= task[v].row.seq
    <3>1. ASSUME NEW v \in Workers, HasRow(v)' PROVE n <= task'[v].row.seq
      BY <1>2, <1>3, <2>3, <3>1 DEF HasRow
    <3> QED BY <1>1, <2>3, <3>1 DEF Reached
  <2>4. ASSUME NEW v \in Workers, HasState(v), task[v].tr.seq = n PROVE Reached(n)'
    <3>1. HasState(v)' /\ task'[v].tr.seq = n
      BY <1>1, <1>3, <2>4 DEF HasState
    <3> QED BY <3>1 DEF Reached
  <2> QED BY <1>5, <2>1, <2>2, <2>3, <2>4 DEF Reached
<1>6. \A v \in Workers, n \in Nat : Drafts(task'[v], n) => Drafts(task[v], n)
  BY <1>2, <1>3 DEF Drafts
<1>7. (\A v \in Workers : StepsBack(v))'
  <2>1. \A v \in Workers : HasState(v)' => task'[v].st.seq \in Nat
    BY <1>2, <1>3, NumberTypes DEF HasState
  <2> QED BY <1>2, <2>1 DEF StepsBack
<1>8. contested \subseteq contested'
  BY <1>1
<1> QED BY <1>4, <1>5, <1>6, <1>7, <1>8, NamesStep

\* A task is cut off: a draft is gone, and a number stored and not saved is marked.
LEMMA CutNames ==
    ASSUME TypeInv, TypeInv', NamesInv, NEW w \in Workers, Cut(w)
    PROVE  NamesInv'
<1> USE DEF env, valkey, history
<1> DEFINE k == task[w]
<1>1. /\ Goes(w, Idle) /\ UNCHANGED <<config, published, emit, mon>>
      /\ contested' = IF k.pc = "save" /\ k.tr # NoTransition THEN contested \union {k.tr.seq}
                      ELSE contested
  BY DEF Cut, Ends
<1>2. Idle.pc = "idle" /\ mon.seq \in Nat
  BY NumberTypes DEF Idle
<1>3. task'[w] = Idle /\ \A v \in Workers : v # w => task'[v] = task[v]
  BY <1>1, GoesSpec
<1>4. Made' \subseteq Made
  <2>1. \A v \in Workers : InHand(task'[v]) => task'[v].tr \in Made
    BY <1>2, <1>3 DEF InHand, Made
  <2>2. Noted' = Noted
    BY <1>1 DEF Noted
  <2> QED BY <2>1, <2>2 DEF Made, InHand
<1>5. ASSUME NEW n \in Nat \ contested', \E e \in Made' : e.seq = n, Reached(n) PROVE Reached(n)'
  <2>1. Names(n)
    BY <1>1, <1>5 DEF NamesInv
  <2>2. CASE HasState(w) /\ k.tr.seq = n
    <3>1. ~Drafts(k, n)
      BY <1>4, <1>5, <2>1 DEF Names
    <3>2. n = 0
      BY <1>1, <1>5, <2>2, <3>1 DEF Drafts, HasState, NoTransition
    <3> QED BY <1>1, <1>2, <3>2 DEF Reached
  <2>3. CASE ~(HasState(w) /\ k.tr.seq = n)
    BY <1>1, <1>2, <1>5, <2>3, ReachedKept
  <2> QED BY <2>2, <2>3
<1>6. \A v \in Workers, n \in Nat : Drafts(task'[v], n) => Drafts(task[v], n)
  BY <1>2, <1>3 DEF Drafts
<1>7. (\A v \in Workers : StepsBack(v))'
  BY <1>1, <1>2, <1>3 DEF NamesInv, StepsBack, HasState
<1>8. contested \subseteq contested'
  BY <1>1
<1> QED BY <1>4, <1>5, <1>6, <1>7, <1>8, NamesStep

\* A task's steps (on_result, _close, _commit).
LEMMA HandleNames ==
    ASSUME TypeInv, TypeInv', NamesInv, TracedInv, contested \subseteq contested',
           NEW w \in Workers, Handle(w)
    PROVE  NamesInv'
<1> USE DEF env, valkey, history
<1> DEFINE k == task[w]
<1>0. k \in TaskRec /\ Idle \in TaskRec /\ TypeOK
  BY TaskFields, IdleLawful DEF TypeInv, Lawful
<1>1. ASSUME NEW rec, Goes(w, rec), UNCHANGED <<mon, config>>, Noted' \subseteq Made, ~HasState(w),
             rec.pc \notin {"emit", "save"},
             rec.pc \in {"publish", "unemit"} => rec.tr \in Made,
             rec.pc \in {"read", "apply"} \/ (w = "job" /\ rec.pc = "timer") =>
               rec.row = config \/ (HasRow(w) /\ rec.row = k.row)
      PROVE  NamesInv'
  BY <1>1, QuietNames
<1>2. Noted \subseteq Made
  BY DEF Made
<1>3. ASSUME NEW pc \in Pcs \ {"emit", "save", "publish", "unemit", "read", "apply", "timer"},
             GoesTo(w, pc), UNCHANGED <<mon, config>>, Noted' \subseteq Noted, ~HasState(w)
      PROVE  NamesInv'
  <2> DEFINE j == [k EXCEPT !.pc = pc]
  <2>1. Goes(w, j)
    BY <1>3 DEF GoesTo
  <2>2. j.pc = pc
    BY <1>0, TaskTypes
  <2> HIDE DEF j
  <2> QED BY <1>1, <1>2, <1>3, <2>1, <2>2
<1>4. AfterPublish(w) \in Pcs \ {"emit", "save", "publish", "unemit", "read", "apply", "timer"}
  BY TaskFields DEF AfterPublish, Pcs, TypeInv
<1> HIDE DEF k
<1>5. ASSUME NEW t \in Ticks, NEW r \in Regions, Deliver(w, t, r) PROVE NamesInv'
  <2> DEFINE handled == ~config.active \/ IsLate(t)
             j == [Idle EXCEPT !.pc = IF handled THEN "mark" ELSE "read", !.tick = t,
                               !.region = r, !.row = IF handled THEN NoRow ELSE config]
  <2>1. Goes(w, j) /\ UNCHANGED <<mon, config, emit, published>> /\ k.pc = "idle"
    BY <1>5 DEF Deliver, Starts, k
  <2>2. j.pc \in {"mark", "read"} /\ (j.pc = "read" => j.row = config)
    <3> HIDE DEF handled
    <3> QED BY <1>0 DEF TaskRec
  <2>3. Noted' = Noted /\ ~HasState(w)
    BY <2>1 DEF Noted, HasState, k
  <2> HIDE DEF j
  <2> QED BY <1>1, <1>2, <2>1, <2>2, <2>3
<1>6. CASE ReadTick(w)
  <2> DEFINE tick == Heard(open[k.tick], k.region, lane[k.tick][k.region].says)
             pc == IF Regions \subseteq Answered(tick) THEN "apply" ELSE "put"
             j == [k EXCEPT !.rec = tick, !.pc = pc]
  <2>1. Goes(w, j) /\ UNCHANGED <<mon, config, emit, published>> /\ k.pc = "read"
    BY <1>6 DEF ReadTick, At, k
  <2>2. j.pc \in {"apply", "put"} /\ j.row = k.row
    <3> HIDE DEF tick
    <3> QED BY <1>0 DEF TaskRec
  <2>3. Noted' = Noted /\ ~HasState(w) /\ HasRow(w)
    BY <2>1 DEF Noted, HasState, HasRow, k
  <2> HIDE DEF j
  <2> QED BY <1>1, <1>2, <2>1, <2>2, <2>3
<1>7. CASE PutTick(w) \/ PublishFails(w) \/ PutClosed(w) \/ DropTick(w) \/ Unemit(w)
  <2>1. Noted' \subseteq Noted /\ ~HasState(w) /\ UNCHANGED <<mon, config>>
    BY <1>7 DEF PutTick, PublishFails, PutClosed, DropTick, Unemit, Without, Noted, HasState, At
  <2>2. \E pc \in Pcs \ {"emit", "save", "publish", "unemit", "read", "apply", "timer"} : GoesTo(w, pc)
    BY <1>4, <1>7 DEF PutTick, PublishFails, PutClosed, DropTick, Unemit, Pcs
  <2> QED BY <1>3, <2>1, <2>2
<1>8. CASE Mark(w)
  <2>1. Goes(w, Idle) /\ Idle.pc = "idle" /\ UNCHANGED <<mon, config, emit, published>> /\ ~HasState(w)
    BY <1>8 DEF Mark, Ends, Idle, HasState, At
  <2>2. Noted' = Noted
    BY <2>1 DEF Noted
  <2> QED BY <1>1, <1>2, <2>1, <2>2
<1>9. CASE Apply(w)
  <2> DEFINE s == MonitorState(k.row)
             step == ApplyTick(s, k.rec.results, k.tick, Threshold, MinFailing)
  <2>1. s \in StateRec /\ k.tick \in Nat /\ Threshold \in Nat
    BY <1>0, TaskFields, MonitorStateType, EvaluatorAssumption DEF EvaluatorAssumption, k
  <2>2. StepsFrom(s, step)
    BY <2>1, ApplyTickSteps
  <2>3. Computed(w, step) /\ k.pc = "apply" /\ UNCHANGED <<mon, config, emit, published>>
    BY <1>9 DEF Apply, At, k
  <2> HIDE DEF step
  <2> QED BY <2>1, <2>2, <2>3, ComputedNames DEF HasRow, k
<1>10. CASE PutEmit(w)
  BY <1>10, PutEmitNames
<1>11. CASE Save(w)
  BY <1>11, SaveNames
<1>12. CASE Publish(w)
  <2> DEFINE j == [k EXCEPT !.pc = "unemit"]
  <2>1. /\ Goes(w, j) /\ UNCHANGED <<mon, config, emit>> /\ k.pc = "publish"
        /\ published' = Append(published, k.tr)
    BY <1>12 DEF Publish, GoesTo, At, k
  <2>2. j.pc = "unemit" /\ j.tr = k.tr
    BY <1>0, TaskTypes DEF Pcs, k
  <2>3. k.tr \in TransitionRec
    BY <1>0, TaskFields DEF k
  <2>4. k.tr \in Made
    BY <2>1 DEF Made, InHand, k
  <2>5. Noted' \subseteq Made
    <3>1. \A i \in DOMAIN published' : published'[i] \in Made
      <4>1. \A i \in DOMAIN published' : \/ i \in DOMAIN published /\ published'[i] = published[i]
                                         \/ published'[i] = k.tr
        BY <2>1, <2>3, AppendAnnounces
      <4> QED BY <2>4, <4>1 DEF Made, Noted
    <3> QED BY <1>2, <2>1, <3>1 DEF Noted
  <2> HIDE DEF j
  <2> QED BY <1>1, <2>1, <2>2, <2>4, <2>5 DEF HasState, k
<1>13. CASE ReadClosed(w)
  <2> DEFINE j == [k EXCEPT !.read = closed, !.pc = "close"]
  <2>1. Goes(w, j) /\ UNCHANGED <<mon, config, emit, published>> /\ k.pc = "closed"
    BY <1>13 DEF ReadClosed, At, k
  <2>2. j.pc = "close"
    BY <1>0 DEF TaskRec
  <2>3. Noted' = Noted /\ ~HasState(w)
    BY <2>1 DEF Noted, HasState, k
  <2> HIDE DEF j
  <2> QED BY <1>1, <1>2, <2>1, <2>2, <2>3
<1> QED BY <1>5, <1>6, <1>7, <1>8, <1>9, <1>10, <1>11, <1>12, <1>13 DEF Handle

\* The sweep's steps (sweep, flush).
LEMMA SweepNames ==
    ASSUME TypeInv, TypeInv', NamesInv, contested \subseteq contested', Sweep
    PROVE  NamesInv'
<1> USE DEF env, valkey, history
<1> DEFINE k == task["job"]
<1>0. "job" \in Workers /\ k \in TaskRec /\ Idle \in TaskRec /\ TypeOK
  BY TaskFields, IdleLawful DEF Workers, TypeInv, Lawful
<1>1. ASSUME NEW rec, Goes("job", rec), UNCHANGED <<mon, config, emit, published>>,
             ~HasState("job"), rec.pc \notin {"emit", "save", "unemit"},
             rec.pc = "publish" => rec.tr \in emit,
             rec.pc \in {"read", "apply", "timer"} => rec.row = config
      PROVE  NamesInv'
  <2>1. Noted' = Noted /\ Noted \subseteq Made /\ emit \subseteq Made
    BY <1>1 DEF Noted, Made
  <2> QED BY <1>0, <1>1, <2>1, QuietNames
<1> HIDE DEF k
<1>2. CASE SweepStarts
  <2> DEFINE j == [Idle EXCEPT !.pc = "flush", !.of = "flush", !.todo = Stored]
  <2>1. Goes("job", j) /\ j.pc = "flush"
    BY <1>2 DEF SweepStarts, Idle
  <2>2. UNCHANGED <<mon, config, emit, published>> /\ ~HasState("job")
    BY <1>2 DEF SweepStarts, Starts, HasState
  <2> HIDE DEF j
  <2> QED BY <1>1, <2>1, <2>2
<1>3. CASE FlushNext
  <2>1. PICK e \in ToFlush(k.todo) :
          Goes("job", [k EXCEPT !.tr = e, !.todo = @ \ {e.seq}, !.pc = "publish"])
    BY <1>3 DEF FlushNext, k
  <2> DEFINE j == [k EXCEPT !.tr = e, !.todo = @ \ {e.seq}, !.pc = "publish"]
  <2>2. Goes("job", j) /\ e \in emit
    BY <2>1 DEF ToFlush
  <2>3. j.pc = "publish" /\ j.tr = e
    BY <1>0 DEF TaskRec
  <2>4. UNCHANGED <<mon, config, emit, published>> /\ ~HasState("job")
    BY <1>3 DEF FlushNext, At, HasState
  <2> HIDE DEF j
  <2> QED BY <1>1, <2>2, <2>3, <2>4
<1>4. CASE FlushEnds
  <2> DEFINE j == [k EXCEPT !.pc = "ticks", !.of = "ticks", !.todo = OpenTicks, !.since = now]
  <2>1. Goes("job", j) /\ j.pc = "ticks"
    BY <1>0, <1>4 DEF FlushEnds, TaskRec, k
  <2>2. UNCHANGED <<mon, config, emit, published>> /\ ~HasState("job")
    BY <1>4 DEF FlushEnds, At, HasState
  <2> HIDE DEF j
  <2> QED BY <1>1, <2>1, <2>2
<1>5. CASE SweepTick
  <2>1. PICK t \in ToClose(k.todo) :
          Goes("job", [k EXCEPT !.tick = t, !.rec = open[t], !.todo = @ \ {t},
                                !.tr = NoTransition, !.row = config,
                                !.pc = IF config.active THEN "apply" ELSE "drop"])
    BY <1>5 DEF SweepTick, k
  <2> DEFINE j == [k EXCEPT !.tick = t, !.rec = open[t], !.todo = @ \ {t},
                            !.tr = NoTransition, !.row = config,
                            !.pc = IF config.active THEN "apply" ELSE "drop"]
  <2>2. Goes("job", j)
    BY <2>1
  <2>3. j.pc \in {"apply", "drop"} /\ j.row = config
    BY <1>0 DEF TaskRec
  <2>4. UNCHANGED <<mon, config, emit, published>> /\ ~HasState("job")
    BY <1>5 DEF SweepTick, At, HasState
  <2> HIDE DEF j
  <2> QED BY <1>1, <2>2, <2>3, <2>4
<1>6. CASE SweepTicksEnd
  <2> DEFINE j == [Idle EXCEPT !.pc = "timer", !.of = "idle", !.row = config, !.since = k.since]
  <2>1. Goes("job", j) /\ j.pc = "timer" /\ j.row = config
    BY <1>0, <1>6 DEF SweepTicksEnd, TaskRec, k
  <2>2. UNCHANGED <<mon, config, emit, published>> /\ ~HasState("job")
    BY <1>6 DEF SweepTicksEnd, At, HasState
  <2> HIDE DEF j
  <2> QED BY <1>1, <2>1, <2>2
<1>7. CASE SweepTimer
  <2> DEFINE s == MonitorState(k.row)
             step == CheckNoData(s, k.since, 1)
  <2>1. s \in StateRec
    BY <1>0, TaskFields, MonitorStateType DEF k
  <2>2. StepsFrom(s, step)
    BY <2>1, CheckNoDataSteps
  <2>3. /\ k.pc = "timer" /\ UNCHANGED <<mon, config, emit, published>>
        /\ Computed("job", step) \/ Ends("job")
    BY <1>7 DEF SweepTimer, At, k
  <2> HIDE DEF step
  <2>4. CASE Computed("job", step)
    BY <1>0, <2>1, <2>2, <2>3, <2>4, ComputedNames DEF HasRow, k
  <2>5. CASE Ends("job")
    <3>1. Goes("job", Idle) /\ Idle.pc = "idle" /\ ~HasState("job")
      BY <2>3, <2>5 DEF Ends, Idle, HasState, k
    <3> QED BY <1>1, <2>3, <3>1
  <2> QED BY <2>3, <2>4, <2>5
<1>8. CASE SweepInactive
  BY <1>8, InactiveNames
<1> QED BY <1>2, <1>3, <1>4, <1>5, <1>6, <1>7, <1>8 DEF Sweep

\* The environment's steps; the snapshot's number only grows (ApplyTransition).
LEMMA EnvironmentNames ==
    ASSUME TypeInv, TypeInv', NamesInv, Environment
    PROVE  NamesInv'
<1> USE DEF env, valkey, history
<1>1. ASSUME UNCHANGED <<mon, emit, published, task, contested>>, config'.seq >= config.seq
      PROVE  NamesInv'
  <2>1. Made' = Made
    BY <1>1 DEF Made, Noted
  <2>2. config'.seq \in Nat /\ config.seq \in Nat
    BY DEF TypeInv, TypeOK, RowRec
  <2>3. ASSUME NEW n \in Nat, Reached(n) PROVE Reached(n)'
    BY <1>1, <2>2, <2>3 DEF Reached, HasRow, HasState
  <2>4. (\A v \in Workers : StepsBack(v))'
    BY <1>1 DEF NamesInv, StepsBack, HasState
  <2> QED BY <1>1, <2>1, <2>3, <2>4, NamesStep
<1>2. CASE Rewrite
  <2>1. PICK i \in DOMAIN published :
          /\ published[i].seq > config.seq
          /\ config' = [config EXCEPT !.status = published[i].to, !.seq = published[i].seq,
                                      !.failures = published[i].failures]
    BY <1>2 DEF Rewrite
  <2>2. published[i] \in TransitionRec /\ config \in RowRec
    BY ElementOfSeq DEF TypeInv, TypeOK
  <2>3. config'.seq >= config.seq
    BY <2>1, <2>2 DEF RowRec, TransitionRec
  <2> QED BY <1>1, <1>2, <2>3 DEF Rewrite
<1>3. CASE Toggle
  <2>1. config'.seq = config.seq /\ config.seq \in Nat
    BY <1>3 DEF Toggle, TypeInv, TypeOK, RowRec
  <2> QED BY <1>1, <1>3, <2>1 DEF Toggle
<1>4. CASE Slot \/ \E t \in Ticks, r \in Regions : Park(t, r) \/ GiveUp(t, r)
  <2>1. config.seq \in Nat
    BY NumberTypes
  <2> QED BY <1>1, <1>4, <2>1 DEF Slot, Park, GiveUp
<1>5. ASSUME NEW w \in Workers, Cut(w) PROVE NamesInv'
  BY <1>5, CutNames
<1> QED BY <1>2, <1>3, <1>4, <1>5 DEF Environment

\* The invariant of the numbers, in every state.
LEMMA NamesInvariant == Spec => []NamesInv
<1>1. Init => NamesInv
  <2> SUFFICES ASSUME Init PROVE NamesInv
    OBVIOUS
  <2>1. \A w \in Workers : task[w] = Idle
    BY DEF Init
  <2>2. Idle.pc = "idle" /\ emit = {} /\ published = <<>>
    BY DEF Init, Idle
  <2>3. Made = {}
    BY <2>1, <2>2 DEF Made, Noted, InHand
  <2> QED BY <2>1, <2>2, <2>3 DEF NamesInv, Names, Drafts, StepsBack, HasState
<1>2. TypeInv /\ TypeInv' /\ TracedInv /\ NamesInv /\ [Next]_vars => NamesInv'
  <2> SUFFICES ASSUME TypeInv, TypeInv', TracedInv, NamesInv, [Next]_vars PROVE NamesInv'
    OBVIOUS
  <2>1. CASE UNCHANGED vars
    <3>1. UNCHANGED <<config, mon, emit, published, task, contested>>
      BY <2>1 DEF vars, env, valkey, history
    <3>2. Made' = Made
      BY <3>1 DEF Made, Noted
    <3> QED BY <3>1, <3>2, NamesStep DEF NamesInv, StepsBack, HasState, HasRow, Reached
  <2>2. contested \subseteq contested'
    BY ContestedGrows
  <2> QED BY <2>1, <2>2, HandleNames, SweepNames, EnvironmentNames DEF Next
<1> QED BY <1>1, <1>2, Types, TracedInvariant, PTL DEF Spec

\* Two published transitions of one number are the same one, in whatever order the
\* consumer and the evaluate job take their steps, through deaths, failed publishes,
\* stale rows, pauses and publishing again: but for a number whose commit died between
\* storing and saving or overlapped another, and one the snapshot had not heard of when
\* a paused monitor's state was deleted (_commit, uuid5).
THEOREM IdsName == Spec => []IdsNameOneTransition
<1>1. TypeInv /\ NamesInv => IdsNameOneTransition
  <2> SUFFICES ASSUME TypeInv, NamesInv, NEW i \in DOMAIN published, NEW j \in DOMAIN published,
                      published[i].seq = published[j].seq, published[i].seq \notin contested
               PROVE  published[i] = published[j]
    BY DEF IdsNameOneTransition
  <2>1. published[i] \in Made /\ published[j] \in Made
    BY DEF Made, Noted
  <2>2. Names(published[i].seq)
    BY <2>1, NumberTypes DEF NamesInv
  <2> QED BY <2>1, <2>2 DEF Names
<1> QED BY <1>1, NamesInvariant, Types, PTL


-----------------------------------------------------------------------------
(* Down is earned.  The failures of a state that is built on are the failed     *)
(* ticks counted last, back to the last seam.                                    *)

\* A transition's target is never paused, nor is a state or a row that is worked on
\* (only a pause says so, and it leaves the monitor inactive).
Unpaused(k) ==
    /\ k.tr.to # "paused" /\ (k.pc \in {"emit", "save"} => k.st.status # "paused")
    /\ k.row.active => k.row.status # "paused"
    /\ k.pc \in {"read", "apply"} => k.row.active

PausedInv ==
    /\ config.active => config.status # "paused"
    /\ mon = NoState \/ mon.status # "paused"
    /\ \A e \in emit : e.to # "paused"
    /\ \A i \in DOMAIN published : published[i].to # "paused"
    /\ \A w \in Workers : Unpaused(task[w])

\* The last f ticks of those counted, c, failed, back to the last of the seams s.
Run(f, c, s) ==
    \A d \in 0 .. f - 1 : (\A e \in 0 .. d : Len(c) - e \notin s) =>
        Len(c) - d >= 1 /\ c[Len(c) - d].failed

\* A state that says what those counted say, if no seam comes after them.
FollowsOn(m, c, s) ==
    /\ Run(m.failures, c, s)
    /\ Len(c) \in s \/ m.status # "down" \/ (Len(c) >= 1 /\ c[Len(c)].to = "down")
    /\ Len(c) \in s \/ m.last = Never \/ (Len(c) >= 1 /\ m.last = c[Len(c)].tick)

\* A task that has computed what its tick makes of such a state (apply_tick).
FailedTick(k) == TickFailed(k.rec.results, MinFailing)
Builds(k, c, s) ==
    /\ k.st.last = k.tick
    /\ FailedTick(k) => k.st.failures >= 1 /\ Run(k.st.failures - 1, c, s)
    /\ ~FailedTick(k) => k.st.failures = 0 /\ k.st.status = "up"
    /\ \/ Len(c) \in s \/ k.st.status # "down" \/ (Len(c) >= 1 /\ c[Len(c)].to = "down")
       \/ k.st.failures >= AtLeastOne(Threshold)

\* The state a task has in hand, and the silence it is about to announce.
Tells(k) == k.of \in {"message", "ticks"} /\ Reported(k.rec.results)
Streaky(k, c, s, t) ==
    /\ k.pc \in {"emit", "save"} => IF Tells(k) THEN Builds(k, c, s) ELSE FollowsOn(k.st, c, s)
    /\ (k.pc = "emit" /\ k.tr.to = "nodata") =>
         Len(c) \in s \/ Len(c) = 0 \/ c[Len(c)].tick + 2 < t
    /\ k.since <= t

\* What the ith of those counted took, it earned: it failed itself, and so did
\* those before it, as many as the threshold asks for and back to the last seam.
Earned(i, c, s) ==
    c[i].to = "down" =>
      /\ c[i].failed
      /\ \/ i > 1 /\ c[i - 1].to = "down"
         \/ i - 1 \in s
         \/ \A d \in 1 .. Threshold - 1 : (\A e \in 1 .. d : i - e \notin s) =>
              i - d >= 1 /\ c[i - d].failed

StreakInv ==
    /\ FollowsOn(mon, counted, seams)
    /\ \A i \in DOMAIN counted : Earned(i, counted, seams)
    /\ \A w \in Workers : Streaky(task[w], counted, seams, now)

\* What a closed tick makes of a state that is not paused (apply_tick).
TickEffect(m, step, results, at, limit, quorum) ==
    /\ step.tr.to \in {"pending", "up", "down"}
    /\ ~Reported(results) => step.st = m
    /\ TickFailed(results, quorum) =>
         /\ step.st.failures = m.failures + 1 /\ step.st.last = at
         /\ step.st.status = IF m.failures + 1 >= AtLeastOne(limit) THEN "down" ELSE m.status
    /\ (Reported(results) /\ ~TickFailed(results, quorum)) =>
         step.st.failures = 0 /\ step.st.last = at /\ step.st.status = "up"

\* A failure counts one more, a pass begins anew, silence changes nothing.
LEMMA ApplyTickEffect ==
    ASSUME NEW s \in StateRec, s.status # "paused", NEW results, NEW at \in Nat, NEW limit \in Nat,
           NEW quorum
    PROVE  TickEffect(s, ApplyTick(s, results, at, limit, quorum), results, at, limit, quorum)
<1> DEFINE seen == [s EXCEPT !.last = at]
           step == ApplyTick(s, results, at, limit, quorum)
<1>1. /\ seen \in StateRec /\ seen.status = s.status /\ seen.failures = s.failures
      /\ seen.last = at
  BY SeenSpec
<1>2. TickFailed(results, quorum) => Reported(results)
  BY DEF TickFailed
<1>3. TickFailed(results, quorum) => step = Fail(seen, limit)
  BY DEF ApplyTick
<1>4. ~TickFailed(results, quorum) /\ Reported(results) => step = Pass(seen)
  BY DEF ApplyTick
<1>5. ~Reported(results) => step = Stays(s)
  BY <1>2 DEF ApplyTick
<1> HIDE DEF seen, step
<1>6. CASE TickFailed(results, quorum)
  <2>1. step.tr.to \in {"pending", "down"}
    BY <1>3, <1>6 DEF Fail, Stays, Move, NoTransition
  <2>2. /\ step.st.failures = s.failures + 1 /\ step.st.last = at
        /\ step.st.status = IF s.failures + 1 >= AtLeastOne(limit) THEN "down" ELSE s.status
    BY <1>1, <1>3, <1>6, FailSpec
  <2>3. TickEffect(s, step, results, at, limit, quorum)
    BY <1>2, <1>6, <2>1, <2>2 DEF TickEffect
  <2> QED BY <2>3 DEF step
<1>7. CASE ~TickFailed(results, quorum) /\ Reported(results)
  <2>1. step.tr.to \in {"pending", "up"}
    BY <1>4, <1>7 DEF Pass, Stays, Move, NoTransition
  <2>2. step.st.failures = 0 /\ step.st.last = at /\ step.st.status = "up"
    BY <1>1, <1>4, <1>7, PassSpec
  <2>3. TickEffect(s, step, results, at, limit, quorum)
    BY <1>7, <2>1, <2>2 DEF TickEffect
  <2> QED BY <2>3 DEF step
<1>8. CASE ~Reported(results)
  <2>1. step.st = s /\ step.tr.to = "pending"
    BY <1>5, <1>8 DEF Stays, NoTransition
  <2>2. TickEffect(s, step, results, at, limit, quorum)
    BY <1>2, <1>8, <2>1 DEF TickEffect
  <2> QED BY <2>2 DEF step
<1> QED BY <1>6, <1>7, <1>8

\* Nothing paused comes of it (apply_tick).
LEMMA ApplyTickRuns ==
    ASSUME NEW s \in StateRec, s.status # "paused", NEW results, NEW at \in Nat, NEW limit \in Nat,
           NEW quorum
    PROVE  /\ ApplyTick(s, results, at, limit, quorum).st.status # "paused"
           /\ ApplyTick(s, results, at, limit, quorum).tr.to # "paused"
<1> DEFINE step == ApplyTick(s, results, at, limit, quorum)
<1>1. TickEffect(s, step, results, at, limit, quorum)
  BY ApplyTickEffect
<1> HIDE DEF step
<1>2. step.st.status # "paused" /\ step.tr.to # "paused"
  BY <1>1 DEF TickEffect
<1> QED BY <1>2 DEF step

\* What the nodata timer makes of a state (check_nodata).
LEMMA CheckNoDataEffect ==
    ASSUME NEW s \in StateRec, NEW time, NEW interval, NEW step,
           step = CheckNoData(s, time, interval)
    PROVE  /\ step.st.failures = s.failures /\ step.st.last = s.last
           /\ \/ step.st.status = s.status /\ step.tr.to = "pending"
              \/ step.st.status = "nodata" /\ step.tr.to = "nodata" /\ NoData(s, time, interval)
<1>1. CASE NoData(s, time, interval)
  <2>1. step = Move(s, "nodata", s.failures)
    BY <1>1 DEF CheckNoData
  <2>2. step.tr.to = "nodata"
    BY <2>1 DEF Move
  <2>3. "nodata" \in Statuses /\ s.failures \in Nat
    BY StateFields DEF Statuses
  <2>4. step.st = Move(s, "nodata", s.failures).st
    BY <2>1
  <2>5. step.st.failures = s.failures /\ step.st.last = s.last /\ step.st.status = "nodata"
    BY <2>3, <2>4, MoveSpec
  <2> QED BY <1>1, <2>2, <2>5
<1>2. CASE ~NoData(s, time, interval)
  BY <1>2 DEF CheckNoData, Stays, NoTransition
<1> QED BY <1>1, <1>2

\* What monitor_state answers is not paused, nor what is made of it.
LEMMA MonitorStateRuns ==
    ASSUME TypeInv, PausedInv, NEW row \in RowRec, row.status # "paused"
    PROVE  MonitorState(row) \in StateRec /\ MonitorState(row).status # "paused"
  BY MonitorStateType DEF TypeInv, PausedInv, MonitorState, Fresh

\* The fields of a task that has computed a step.
LEMMA ComputedTask ==
    ASSUME TypeInv, NEW w \in Workers, NEW step, Computed(w, step)
    PROVE  LET k == task'[w] IN
           /\ k.st = step.st /\ k.tr = step.tr /\ k.row = NoRow /\ k.pc \in {"emit", "save"}
           /\ k.of = task[w].of /\ k.tick = task[w].tick /\ k.rec = task[w].rec
           /\ k.since = task[w].since
           /\ Goes(w, k)
           /\ \A v \in Workers : v # w => task'[v] = task[v]
<1> DEFINE k == [task[w] EXCEPT !.st = step.st, !.tr = step.tr, !.row = NoRow,
                                !.pc = AfterCompute(step)]
<1>1. task[w] \in TaskRec
  BY TaskFields DEF TypeInv
<1>2. /\ k.st = step.st /\ k.tr = step.tr /\ k.row = NoRow /\ k.pc \in {"emit", "save"}
      /\ k.of = task[w].of /\ k.tick = task[w].tick /\ k.rec = task[w].rec
      /\ k.since = task[w].since
  BY <1>1 DEF TaskRec, AfterCompute
<1>3. Goes(w, k)
  BY DEF Computed
<1> HIDE DEF k
<1>4. task'[w] = k /\ \A v \in Workers : v # w => task'[v] = task[v]
  BY <1>3, GoesSpec
<1> QED BY <1>2, <1>3, <1>4

\* A task's step that stores, saves and publishes no transition to paused.
LEMMA GoesUnpaused ==
    ASSUME TypeInv, PausedInv, NEW w \in Workers, NEW rec, Goes(w, rec), Unpaused(rec),
           UNCHANGED config,
           mon' = mon \/ mon' = NoState \/ mon'.status # "paused",
           \A e \in emit' : e \in emit \/ e.to # "paused",
           \A i \in DOMAIN published' : published'[i].to # "paused"
    PROVE  PausedInv'
<1>1. task'[w] = rec /\ \A v \in Workers : v # w => task'[v] = task[v]
  BY GoesSpec
<1>2. \A v \in Workers : Unpaused(task'[v])
  BY <1>1 DEF PausedInv
<1> QED BY <1>2 DEF PausedInv, Unpaused

\* A task that computes a step (apply_tick, check_nodata).
LEMMA ComputedUnpaused ==
    ASSUME TypeInv, PausedInv, NEW w \in Workers, NEW step, Computed(w, step),
           step.st.status # "paused", step.tr.to # "paused", UNCHANGED <<config, mon, emit, published>>
    PROVE  PausedInv'
<1> DEFINE k == task'[w]
<1>1. k.st = step.st /\ k.tr = step.tr /\ k.row = NoRow /\ k.pc \in {"emit", "save"} /\ Goes(w, k)
  BY ComputedTask
<1> HIDE DEF k
<1>2. Unpaused(k)
  BY <1>1 DEF Unpaused, NoRow
<1> QED BY <1>1, <1>2, GoesUnpaused DEF PausedInv

\* No step works on a paused state (on_result, sweep).
LEMMA PausedStep ==
    ASSUME TypeInv, PausedInv, [Next]_vars
    PROVE  PausedInv'
<1> USE DEF env, valkey, history
<1>0. /\ TypeOK /\ "job" \in Workers /\ Threshold \in Nat
      /\ \A w \in Workers : task[w] \in TaskRec /\ Lawful(task[w]) /\ Unpaused(task[w])
                            /\ task[w].row \in RowRec /\ task[w].tick \in Nat
      /\ \A pc : [Idle EXCEPT !.pc = pc].pc = pc
  <2>1. TypeOK
    BY DEF TypeInv
  <2>2. \A w \in Workers : task[w] \in TaskRec /\ task[w].row \in RowRec /\ task[w].tick \in Nat
    BY <2>1, TaskFields
  <2> QED BY <2>1, <2>2, EvaluatorAssumption DEF TypeInv, PausedInv, EvaluatorAssumption, Workers, Idle
<1>1. Unpaused(Idle)
  BY DEF Unpaused, Idle, NoTransition, NoRow
<1>2. ASSUME NEW w \in Workers, NEW pc \in Pcs \ {"read", "apply"}, GoesTo(w, pc),
             pc \in {"emit", "save"} => task[w].pc \in {"emit", "save"},
             UNCHANGED config,
             mon' = mon \/ mon' = NoState \/ mon'.status # "paused",
             \A e \in emit' : e \in emit \/ e.to # "paused",
             \A i \in DOMAIN published' : published'[i].to # "paused"
      PROVE  PausedInv'
  <2> DEFINE k == [task[w] EXCEPT !.pc = pc]
  <2>1. k.pc = pc /\ k.row = task[w].row /\ k.tr = task[w].tr /\ k.st = task[w].st
    BY <1>0, <1>2, TaskTypes
  <2>2. Goes(w, k)
    BY <1>2 DEF GoesTo
  <2> HIDE DEF k
  <2>3. Unpaused(k)
    BY <1>0, <1>2, <2>1 DEF Unpaused
  <2> QED BY <1>2, <2>2, <2>3, GoesUnpaused
<1>3. ASSUME NEW w \in Workers, Ends(w), UNCHANGED <<config, emit, published>>,
             mon' = mon \/ mon' = NoState
      PROVE  PausedInv'
  BY <1>1, <1>3, GoesUnpaused DEF Ends, PausedInv
<1>4. ASSUME NEW w \in Workers, Handle(w) PROVE PausedInv'
  <2> DEFINE k == task[w]
  <2>1. ASSUME NEW t \in Ticks, NEW r \in Regions, Deliver(w, t, r) PROVE PausedInv'
    <3> DEFINE handled == ~config.active \/ IsLate(t)
               j == [Idle EXCEPT !.pc = IF handled THEN "mark" ELSE "read", !.tick = t,
                                 !.region = r, !.row = IF handled THEN NoRow ELSE config]
    <3>1. Goes(w, j) /\ UNCHANGED <<config, mon, emit, published>>
      BY <2>1 DEF Deliver
    <3>2. /\ j.tr = NoTransition /\ j.pc = (IF handled THEN "mark" ELSE "read")
          /\ j.row = IF handled THEN NoRow ELSE config
      BY DEF Idle
    <3>3. (handled /\ j.pc = "mark" /\ j.row = NoRow)
          \/ (config.active /\ j.pc = "read" /\ j.row = config)
      BY <3>2
    <3> HIDE DEF j, handled
    <3>4. Unpaused(j)
      BY <3>2, <3>3 DEF Unpaused, NoTransition, NoRow, PausedInv
    <3> QED BY <3>1, <3>4, GoesUnpaused DEF PausedInv
  <2>2. CASE ReadTick(w)
    <3> DEFINE tick == Heard(open[k.tick], k.region, lane[k.tick][k.region].says)
               pc == IF Regions \subseteq Answered(tick) THEN "apply" ELSE "put"
               j == [k EXCEPT !.rec = tick, !.pc = pc]
    <3>1. Goes(w, j) /\ k.pc = "read" /\ UNCHANGED <<config, mon, emit, published>>
      BY <2>2 DEF ReadTick, At
    <3>2. j.tr = k.tr /\ j.row = k.row /\ j.pc \in {"apply", "put"} /\ j.st = k.st
      BY <1>0 DEF TaskRec
    <3> HIDE DEF j
    <3>3. Unpaused(j)
      BY <1>0, <3>1, <3>2 DEF Unpaused
    <3> QED BY <3>1, <3>3, GoesUnpaused DEF PausedInv
  <2>3. CASE PutTick(w) \/ ReadClosed(w) \/ PutClosed(w) \/ DropTick(w)
    <3>1. UNCHANGED <<config, mon, emit, published>>
      BY <2>3 DEF PutTick, ReadClosed, PutClosed, DropTick
    <3>2. CASE ReadClosed(w)
      <4> DEFINE j == [k EXCEPT !.read = closed, !.pc = "close"]
      <4>1. Goes(w, j)
        BY <3>2 DEF ReadClosed
      <4>2. j.tr = k.tr /\ j.row = k.row /\ j.pc = "close"
        BY <1>0 DEF TaskRec
      <4> HIDE DEF j
      <4>3. Unpaused(j)
        BY <1>0, <4>2 DEF Unpaused
      <4> QED BY <3>1, <4>1, <4>3, GoesUnpaused DEF PausedInv
    <3>3. CASE PutTick(w) \/ PutClosed(w) \/ DropTick(w)
      <4>1. \E pc \in {"mark", "drop", "ticks"} : GoesTo(w, pc)
        BY <3>3 DEF PutTick, PutClosed, DropTick
      <4> QED BY <1>2, <3>1, <4>1 DEF Pcs, PausedInv
    <3> QED BY <2>3, <3>2, <3>3
  <2>4. CASE Mark(w)
    BY <1>3, <2>4 DEF Mark
  <2>5. CASE Apply(w)
    <3> DEFINE s == MonitorState(k.row)
               step == ApplyTick(s, k.rec.results, k.tick, Threshold, MinFailing)
    <3>1. k.pc = "apply" /\ Computed(w, step) /\ UNCHANGED <<config, mon, emit, published>>
      BY <2>5 DEF Apply, At
    <3>2. s \in StateRec /\ s.status # "paused"
      BY <1>0, <3>1, MonitorStateRuns DEF Unpaused
    <3>3. StepsFrom(s, step)
      BY <1>0, <3>2, ApplyTickSteps
    <3>4. k.tick \in Nat /\ Threshold \in Nat /\ step = ApplyTick(s, k.rec.results, k.tick, Threshold, MinFailing)
      BY <1>0
    <3> HIDE DEF s, k, step
    <3>5. step.tr.to # "paused" /\ step.st.status # "paused"
      BY <3>2, <3>4, ApplyTickRuns
    <3> QED BY <3>1, <3>5, ComputedUnpaused DEF k
  <2>6. CASE PutEmit(w)
    <3>1. GoesTo(w, "save") /\ k.pc = "emit" /\ UNCHANGED <<config, mon, published>>
      BY <2>6 DEF PutEmit, At
    <3>2. \A e \in emit' : e \in emit \/ e.to # "paused"
      BY <1>0, <2>6 DEF PutEmit, Without, Unpaused
    <3> QED BY <1>2, <3>1, <3>2 DEF Pcs, PausedInv
  <2>7. CASE Save(w)
    <3>1. /\ k.pc = "save" /\ mon' = k.st /\ UNCHANGED <<config, emit, published>>
          /\ \E pc \in {"publish", "closed", "idle", "flush", "timer"} : GoesTo(w, pc)
      <4>1. k.of \in {"message", "ticks", "idle", "flush"} /\ k.pc = "save"
        BY <1>0, <2>7, TaskFields DEF Save, At
      <4>2. /\ mon' = k.st /\ UNCHANGED <<config, emit, published>>
            /\ GoesTo(w, IF k.tr = NoTransition THEN AfterPublish(w) ELSE "publish")
        BY <2>7 DEF Save
      <4>3. AfterPublish(w) \in {"closed", "idle", "flush"}
        BY <4>1 DEF AfterPublish
      <4> HIDE DEF k
      <4> QED BY <4>1, <4>2, <4>3
    <3>2. mon'.status # "paused"
      BY <1>0, <3>1 DEF Unpaused
    <3> QED BY <1>2, <3>1, <3>2 DEF Pcs, PausedInv
  <2>8. CASE Publish(w) \/ PublishFails(w) \/ Unemit(w)
    <3>1. /\ UNCHANGED <<config, mon>> /\ emit' \subseteq emit
          /\ \E pc \in Pcs \ {"read", "apply", "emit", "save"} : GoesTo(w, pc)
      <4>1. AfterPublish(w) \in Pcs \ {"read", "apply", "emit", "save"}
        BY <1>0, TaskFields DEF AfterPublish, Pcs
      <4> QED BY <2>8, <4>1 DEF Publish, PublishFails, Unemit, Without, Pcs
    <3>2. \A i \in DOMAIN published' : published'[i].to # "paused"
      <4>1. CASE published' = published
        BY <4>1 DEF PausedInv
      <4>2. CASE published' = Append(published, k.tr)
        <5>1. published \in Seq(TransitionRec) /\ k.tr \in TransitionRec /\ k.tr.to # "paused"
          BY <1>0, TaskFields DEF TypeOK, Unpaused
        <5> HIDE DEF k
        <5>2. \A i \in DOMAIN published' : (i \in DOMAIN published /\ published'[i] = published[i])
                                           \/ published'[i] = k.tr
          BY <4>2, <5>1
        <5> QED BY <5>1, <5>2 DEF PausedInv
      <4> QED BY <2>8, <4>1, <4>2 DEF Publish, PublishFails, Unemit
    <3> QED BY <1>2, <3>1, <3>2
  <2> QED BY <1>4, <2>1, <2>2, <2>3, <2>4, <2>5, <2>6, <2>7, <2>8 DEF Handle
<1>5. CASE Sweep
  <2> DEFINE k == task["job"]
  <2>1. ASSUME NEW j, Goes("job", j), UNCHANGED <<config, mon, emit, published>>,
               j.tr.to # "paused", j.pc \notin {"emit", "save", "read"},
               j.row = NoRow \/ j.row = config \/ j.row = k.row, j.pc = "apply" => j.row.active
        PROVE  PausedInv'
    <3>1. NoRow.active = FALSE
      BY DEF NoRow
    <3> HIDE DEF k
    <3>2. Unpaused(k) /\ (config.active => config.status # "paused")
      BY <1>0 DEF PausedInv, k
    <3>3. j.row.active => j.row.status # "paused"
      BY <2>1, <3>1, <3>2 DEF Unpaused
    <3>4. Unpaused(j)
      BY <2>1, <3>3 DEF Unpaused
    <3> QED BY <1>0, <2>1, <3>4, GoesUnpaused DEF PausedInv
  <2>2. CASE SweepStarts
    <3> DEFINE j == [Idle EXCEPT !.pc = "flush", !.of = "flush", !.todo = Stored]
    <3>1. Goes("job", j) /\ UNCHANGED <<config, mon, emit, published>>
      BY <2>2 DEF SweepStarts
    <3>2. j.tr.to = "pending" /\ j.pc = "flush" /\ j.row = NoRow
      BY DEF Idle, NoTransition
    <3> HIDE DEF j
    <3> QED BY <2>1, <3>1, <3>2
  <2>3. CASE FlushNext
    <3>1. PICK e \in ToFlush(k.todo) :
            Goes("job", [k EXCEPT !.tr = e, !.todo = @ \ {e.seq}, !.pc = "publish"])
      BY <2>3 DEF FlushNext
    <3> DEFINE j == [k EXCEPT !.tr = e, !.todo = @ \ {e.seq}, !.pc = "publish"]
    <3>2. Goes("job", j) /\ UNCHANGED <<config, mon, emit, published>>
      BY <2>3, <3>1 DEF FlushNext
    <3>3. j.tr = e /\ j.pc = "publish" /\ j.row = k.row
      BY <1>0 DEF TaskRec
    <3>4. e.to # "paused"
      BY DEF ToFlush, PausedInv
    <3> HIDE DEF j, k
    <3> QED BY <2>1, <3>2, <3>3, <3>4 DEF k
  <2>4. CASE FlushEnds
    <3> DEFINE j == [k EXCEPT !.pc = "ticks", !.of = "ticks", !.todo = OpenTicks, !.since = now]
    <3>1. Goes("job", j) /\ UNCHANGED <<config, mon, emit, published>>
      BY <2>4 DEF FlushEnds
    <3>2. j.tr = k.tr /\ j.pc = "ticks" /\ j.row = k.row /\ k.tr.to # "paused"
      BY <1>0 DEF TaskRec, Unpaused
    <3> HIDE DEF j, k
    <3> QED BY <2>1, <3>1, <3>2 DEF k
  <2>5. CASE SweepTick
    <3>1. PICK t \in ToClose(k.todo) :
            Goes("job", [k EXCEPT !.tick = t, !.rec = open[t], !.todo = @ \ {t},
                                  !.tr = NoTransition, !.row = config,
                                  !.pc = IF config.active THEN "apply" ELSE "drop"])
      BY <2>5 DEF SweepTick
    <3> DEFINE j == [k EXCEPT !.tick = t, !.rec = open[t], !.todo = @ \ {t},
                              !.tr = NoTransition, !.row = config,
                              !.pc = IF config.active THEN "apply" ELSE "drop"]
    <3>2. Goes("job", j) /\ UNCHANGED <<config, mon, emit, published>>
      BY <2>5, <3>1 DEF SweepTick
    <3>3. /\ j.tr.to = "pending" /\ j.pc \in {"apply", "drop"} /\ j.row = config
          /\ j.pc = "apply" => config.active
      BY <1>0 DEF TaskRec, NoTransition
    <3> HIDE DEF j
    <3> QED BY <2>1, <3>2, <3>3
  <2>6. CASE SweepTicksEnd
    <3> DEFINE j == [Idle EXCEPT !.pc = "timer", !.of = "idle", !.row = config, !.since = k.since]
    <3>1. Goes("job", j) /\ UNCHANGED <<config, mon, emit, published>>
      BY <2>6 DEF SweepTicksEnd
    <3>2. j.tr.to = "pending" /\ j.pc = "timer" /\ j.row = config
      BY DEF Idle, NoTransition
    <3> HIDE DEF j
    <3> QED BY <2>1, <3>1, <3>2
  <2>7. CASE SweepTimer
    <3> DEFINE s == MonitorState(k.row)
               step == CheckNoData(s, k.since, 1)
    <3>1. k.row.active /\ UNCHANGED <<config, mon, emit, published>>
          /\ (Computed("job", step) \/ Ends("job"))
      BY <2>7 DEF SweepTimer
    <3>2. s \in StateRec /\ s.status # "paused"
      BY <1>0, <3>1, MonitorStateRuns DEF Unpaused
    <3> HIDE DEF s
    <3>3. step.tr.to # "paused" /\ step.st.status # "paused"
      BY <3>2, CheckNoDataEffect
    <3> HIDE DEF step
    <3>4. CASE Computed("job", step)
      BY <1>0, <3>1, <3>3, <3>4, ComputedUnpaused
    <3> QED BY <1>0, <1>3, <3>1, <3>4
  <2>8. CASE SweepInactive
    <3>1. Ends("job") /\ mon' = NoState /\ UNCHANGED <<config, emit, published>>
      BY <2>8 DEF SweepInactive, Cleared
    <3> QED BY <1>0, <1>3, <3>1
  <2> QED BY <1>5, <2>2, <2>3, <2>4, <2>5, <2>6, <2>7, <2>8 DEF Sweep
<1>6. CASE Environment
  <2>1. ASSUME UNCHANGED <<mon, emit, published, task>>, config'.active => config'.status # "paused"
        PROVE  PausedInv'
    BY <2>1 DEF PausedInv, Unpaused
  <2>2. CASE Slot \/ \E t \in Ticks, r \in Regions : Park(t, r) \/ GiveUp(t, r)
    BY <2>1, <2>2 DEF Slot, Park, GiveUp, PausedInv
  <2>3. CASE Toggle
    <3>1. config \in RowRec
      BY <1>0 DEF TypeOK
    <3>2. config'.active => config'.status = "pending"
      BY <2>3, <3>1 DEF Toggle, RowRec
    <3> QED BY <2>1, <2>3, <3>2 DEF Toggle
  <2>4. CASE Rewrite
    <3>1. config \in RowRec
      BY <1>0 DEF TypeOK
    <3>2. \E i \in DOMAIN published : config'.status = published[i].to
      BY <2>4, <3>1 DEF Rewrite, RowRec
    <3> QED BY <2>1, <2>4, <3>2 DEF Rewrite, PausedInv
  <2>5. ASSUME NEW w \in Workers, Cut(w) PROVE PausedInv'
    BY <1>3, <2>5 DEF Cut
  <2> QED BY <1>6, <2>2, <2>3, <2>4, <2>5 DEF Environment
<1>7. CASE UNCHANGED vars
  BY <1>7 DEF vars, PausedInv, Unpaused
<1> QED BY <1>4, <1>5, <1>6, <1>7 DEF Next

\* Nothing paused is worked on, in every state.
LEMMA PausedInvariant == Spec => []PausedInv
<1>1. Init => PausedInv
  BY DEF Init, PausedInv, Unpaused, Idle, NoTransition, NoRow
<1> QED BY <1>1, PausedStep, Types, PTL DEF Spec

\* More seams and a later clock take nothing away.
LEMMA SeamsOnlyExcuse ==
    ASSUME NEW c, NEW s, NEW s2, s \subseteq s2
    PROVE  /\ \A f : Run(f, c, s) => Run(f, c, s2)
           /\ \A m : FollowsOn(m, c, s) => FollowsOn(m, c, s2)
           /\ \A i : Earned(i, c, s) => Earned(i, c, s2)
<1>1. ASSUME NEW f, Run(f, c, s) PROVE Run(f, c, s2)
  BY <1>1 DEF Run
<1>2. ASSUME NEW m, FollowsOn(m, c, s) PROVE FollowsOn(m, c, s2)
  BY <1>1, <1>2 DEF FollowsOn
<1>3. ASSUME NEW i, Earned(i, c, s) PROVE Earned(i, c, s2)
  BY <1>3 DEF Earned
<1> QED BY <1>1, <1>2, <1>3

\* Nor from what a task says of them.
LEMMA StreakyStays ==
    ASSUME NEW c, NEW s, NEW s2, s \subseteq s2, NEW t \in Nat, NEW t2 \in Nat, t <= t2,
           NEW k, k.since \in Nat, Streaky(k, c, s, t),
           Len(c) \in s \/ Len(c) = 0 \/ c[Len(c)].tick \in Nat
    PROVE  Streaky(k, c, s2, t2)
<1>1. ASSUME k.pc \in {"emit", "save"}
      PROVE  IF Tells(k) THEN Builds(k, c, s2) ELSE FollowsOn(k.st, c, s2)
  <2>1. CASE Tells(k)
    <3>1. Builds(k, c, s)
      BY <1>1, <2>1 DEF Streaky
    <3>2. Builds(k, c, s2)
      BY <3>1, SeamsOnlyExcuse DEF Builds
    <3> QED BY <2>1, <3>2
  <2>2. CASE ~Tells(k)
    BY <1>1, <2>2, SeamsOnlyExcuse DEF Streaky
  <2> QED BY <2>1, <2>2
<1>2. ASSUME k.pc = "emit", k.tr.to = "nodata"
      PROVE  Len(c) \in s2 \/ Len(c) = 0 \/ c[Len(c)].tick + 2 < t2
  <2>1. Len(c) \in s \/ Len(c) = 0 \/ c[Len(c)].tick + 2 < t
    BY <1>2 DEF Streaky
  <2> QED BY <2>1
<1>3. k.since <= t2
  BY DEF Streaky
<1> QED BY <1>1, <1>2, <1>3 DEF Streaky

\* After a seam a state may say anything (Computed, Save).
LEMMA SeamExcuses ==
    ASSUME NEW c, NEW s, Len(c) \in s, Len(c) \in Nat
    PROVE  /\ \A f : Run(f, c, s)
           /\ \A m : FollowsOn(m, c, s)
<1>1. ASSUME NEW f PROVE Run(f, c, s)
  <2> SUFFICES ASSUME NEW d \in 0 .. f - 1, \A e \in 0 .. d : Len(c) - e \notin s PROVE FALSE
    BY DEF Run
  <2>1. 0 \in 0 .. d /\ Len(c) - 0 = Len(c)
    OBVIOUS
  <2> QED BY <2>1
<1>2. ASSUME NEW m PROVE FollowsOn(m, c, s)
  BY <1>1 DEF FollowsOn
<1> QED BY <1>1, <1>2

\* A task whose state was computed before a seam.
LEMMA SeamExcusesTask ==
    ASSUME NEW c, NEW s, NEW c2, NEW s2, Len(c2) \in s2, Len(c2) \in Nat,
           NEW t, NEW k, Streaky(k, c, s, t)
    PROVE  Streaky(k, c2, s2, t)
<1>1. (\A f : Run(f, c2, s2)) /\ (\A m : FollowsOn(m, c2, s2))
  BY SeamExcuses
<1>2. ASSUME k.pc \in {"emit", "save"}, Tells(k) PROVE Builds(k, c2, s2)
  <2>1. Builds(k, c, s)
    BY <1>2 DEF Streaky
  <2> QED BY <1>1, <2>1 DEF Builds
<1> QED BY <1>1, <1>2 DEF Streaky

\* A state that says nothing follows on anything.
LEMMA FreshFollows ==
    ASSUME NEW c, NEW s, NEW m, m.failures = 0, m.status # "down", m.last = Never
    PROVE  FollowsOn(m, c, s)
<1>1. Run(0, c, s)
  BY DEF Run
<1> QED BY <1>1 DEF FollowsOn

\* The length of what was counted, and the clock.
LEMMA StreakTypes ==
    ASSUME TypeInv
    PROVE  /\ counted \in Seq(Entries) /\ Len(counted) \in Nat /\ DOMAIN counted = 1 .. Len(counted)
           /\ \A i \in DOMAIN counted : counted[i].tick \in Nat /\ counted[i].failed \in BOOLEAN
           /\ Len(counted) = 0 \/ counted[Len(counted)].tick \in Nat
           /\ now \in Nat /\ \A w \in Workers : task[w].since \in Nat
<1>1. /\ counted \in Seq(Entries) /\ Len(counted) \in Nat /\ DOMAIN counted = 1 .. Len(counted)
      /\ \A i \in DOMAIN counted : counted[i].tick \in Ticks
  BY CountedTicks
<1>2. \A i \in DOMAIN counted : counted[i] \in Entries
  BY <1>1, ElementOfSeq
<1>3. \A i \in DOMAIN counted : counted[i].tick \in Nat /\ counted[i].failed \in BOOLEAN
  BY <1>2 DEF Entries, Ticks
<1>4. now \in Nat /\ \A w \in Workers : task[w].since \in Nat
  BY TaskFields DEF TypeInv, TypeOK
<1> QED BY <1>1, <1>3, <1>4

\* A step of one task that counts nothing and computes nothing.
LEMMA QuietStreak ==
    ASSUME TypeInv, StreakInv, NEW w \in Workers, NEW rec, Goes(w, rec),
           UNCHANGED <<counted, now>>, seams \subseteq seams',
           mon' = mon \/ mon' = NoState \/ FollowsOn(mon', counted, seams),
           \/ rec.pc \notin {"emit", "save"}
           \/ /\ rec.pc = "save" /\ task[w].pc = "emit"
              /\ rec.of = task[w].of /\ rec.rec = task[w].rec /\ rec.st = task[w].st
              /\ rec.tick = task[w].tick
           \/ Streaky(rec, counted, seams', now),
           rec.since <= now
    PROVE  StreakInv'
<1> DEFINE c == counted
           s == seams
           s2 == seams'
           t == now
<1>1. task'[w] = rec /\ \A v \in Workers : v # w => task'[v] = task[v]
  BY GoesSpec
<1>2. /\ Len(c) \in Nat /\ (Len(c) = 0 \/ c[Len(c)].tick \in Nat) /\ t \in Nat /\ t <= t
      /\ \A v \in Workers : task[v].since \in Nat
  BY StreakTypes
<1>3. /\ FollowsOn(mon, c, s) /\ (\A i \in DOMAIN c : Earned(i, c, s))
      /\ \A v \in Workers : Streaky(task[v], c, s, t)
  BY DEF StreakInv
<1>4. FollowsOn(mon', c, s2)
  <2>1. FollowsOn(NoState, c, s2)
    BY FreshFollows DEF NoState, Fresh
  <2> QED BY <1>3, <2>1, SeamsOnlyExcuse
<1>5. \A i \in DOMAIN c : Earned(i, c, s2)
  BY <1>3, SeamsOnlyExcuse
<1>6. \A v \in Workers : Streaky(task[v], c, s2, t)
  <2> SUFFICES ASSUME NEW v \in Workers PROVE Streaky(task[v], c, s2, t)
    OBVIOUS
  <2>1. PICK k : k = task[v]
    OBVIOUS
  <2>2. k.since \in Nat /\ Streaky(k, c, s, t)
    BY <1>2, <1>3, <2>1
  <2> HIDE DEF c, s, s2, t
  <2>3. s \subseteq s2
    BY DEF s, s2
  <2> QED BY <1>2, <2>1, <2>2, <2>3, StreakyStays
<1>7. Streaky(rec, c, s2, t)
  <2>1. CASE rec.pc \notin {"emit", "save"}
    BY <2>1 DEF Streaky
  <2>2. CASE /\ rec.pc = "save" /\ task[w].pc = "emit"
             /\ rec.of = task[w].of /\ rec.rec = task[w].rec /\ rec.st = task[w].st
             /\ rec.tick = task[w].tick
    <3>1. PICK k : k = task[w]
      OBVIOUS
    <3>2. Streaky(k, c, s2, t) /\ k.pc = "emit"
      BY <1>6, <2>2, <3>1
    <3>3. (Tells(rec) <=> Tells(k)) /\ (FailedTick(rec) <=> FailedTick(k))
      BY <2>2, <3>1 DEF Tells, FailedTick
    <3>4. Builds(k, c, s2) => Builds(rec, c, s2)
      BY <2>2, <3>1, <3>3 DEF Builds
    <3> QED BY <2>2, <3>1, <3>2, <3>3, <3>4 DEF Streaky
  <2> QED BY <2>1, <2>2
<1>8. \A v \in Workers : Streaky(task'[v], c, s2, t)
  BY <1>1, <1>6, <1>7
<1> QED BY <1>4, <1>5, <1>8 DEF StreakInv

\* What monitor_state answers follows on what was counted, but for a row that says
\* more than that the monitor begins anew: it makes a seam (monitor_state).
LEMMA MonitorStateFollows ==
    ASSUME TypeInv, StreakInv, NEW w \in Workers, NEW step, Computed(w, step)
    PROVE  /\ seams \subseteq seams'
           /\ FollowsOn(MonitorState(task[w].row), counted, seams')
<1> DEFINE row == task[w].row
           m == MonitorState(row)
<1>1. row \in RowRec /\ Len(counted) \in Nat
  BY TaskFields, StreakTypes DEF TypeInv
<1>2. seams' = IF m # mon /\ SaysMore(row) THEN seams \union {Len(counted)} ELSE seams
  BY DEF Computed
<1>3. FollowsOn(mon, counted, seams)
  BY DEF StreakInv
<1> HIDE DEF row
<1>4. CASE m = mon
  BY <1>2, <1>3, <1>4 DEF row
<1>5. CASE m # mon /\ SaysMore(row)
  <2>1. Len(counted) \in seams'
    BY <1>2, <1>5
  <2> QED BY <1>1, <1>2, <2>1, SeamExcuses DEF row
<1>6. CASE m # mon /\ ~SaysMore(row)
  <2>1. m.failures = 0 /\ m.status # "down" /\ m.last = Never
    BY <1>1, <1>6 DEF MonitorState, Fresh, SaysMore, RowRec
  <2>2. FollowsOn(m, counted, seams)
    BY <2>1, FreshFollows
  <2> QED BY <1>2, <1>6, <2>2 DEF row
<1> QED BY <1>4, <1>5, <1>6

\* A closed tick's state (apply_tick, _close).
LEMMA ApplyStreak ==
    ASSUME TypeInv, PausedInv, StreakInv, NEW w \in Workers, Apply(w)
    PROVE  StreakInv'
<1> USE DEF env, valkey, history
<1> DEFINE k == task[w]
           m == MonitorState(k.row)
           step == ApplyTick(m, k.rec.results, k.tick, Threshold, MinFailing)
           j == task'[w]
           c == counted
           s2 == seams'
<1>1. Computed(w, step) /\ k.pc = "apply" /\ UNCHANGED <<now, mon, counted>>
  BY DEF Apply, At
<1>2. k.row \in RowRec /\ k.tick \in Nat /\ Threshold \in Nat /\ Lawful(k) /\ Unpaused(k)
      /\ k.rec \in TickRec
  BY TaskFields, EvaluatorAssumption DEF TypeInv, PausedInv, EvaluatorAssumption
<1>3. m \in StateRec /\ m.status # "paused" /\ m.failures \in Nat
  BY <1>1, <1>2, MonitorStateRuns, StateFields DEF Unpaused
<1>4. /\ j.st = step.st /\ j.tr = step.tr /\ j.pc \in {"emit", "save"} /\ j.of = k.of
      /\ j.tick = k.tick /\ j.rec = k.rec /\ j.since = k.since /\ Goes(w, j)
  BY <1>1, ComputedTask
<1>5. seams \subseteq s2 /\ FollowsOn(m, c, s2)
  BY <1>1, MonitorStateFollows
<1>6. /\ step.tr.to \in {"pending", "up", "down"}
      /\ ~Reported(k.rec.results) => step.st = m
      /\ FailedTick(k) =>
           /\ step.st.failures = m.failures + 1 /\ step.st.last = k.tick
           /\ step.st.status = IF m.failures + 1 >= AtLeastOne(Threshold) THEN "down" ELSE m.status
      /\ (Reported(k.rec.results) /\ ~FailedTick(k)) =>
           step.st.failures = 0 /\ step.st.last = k.tick /\ step.st.status = "up"
  <2> HIDE DEF m
  <2>1. TickEffect(m, step, k.rec.results, k.tick, Threshold, MinFailing)
    BY <1>2, <1>3, ApplyTickEffect
  <2> HIDE DEF step
  <2> QED BY <2>1 DEF TickEffect, FailedTick
<1>7. /\ k.of \in {"message", "ticks"} /\ (FailedTick(k) => Reported(k.rec.results))
      /\ (Tells(j) <=> Reported(k.rec.results)) /\ (FailedTick(j) <=> FailedTick(k))
  BY <1>1, <1>2, <1>4 DEF Lawful, Tells, FailedTick, TickFailed
<1>8. AtLeastOne(Threshold) \in Nat
  BY <1>2 DEF AtLeastOne
<1> HIDE DEF k, m, step, j, c, s2
<1>9. ASSUME Tells(j) PROVE Builds(j, c, s2)
  <2>1. CASE FailedTick(k)
    <3>1. j.st.failures = m.failures + 1 /\ j.st.failures - 1 = m.failures /\ j.st.failures >= 1
      BY <1>3, <1>4, <1>6, <2>1
    <3>2. Run(j.st.failures - 1, c, s2)
      BY <1>5, <3>1 DEF FollowsOn
    <3>3. \/ Len(c) \in s2 \/ j.st.status # "down" \/ (Len(c) >= 1 /\ c[Len(c)].to = "down")
          \/ j.st.failures >= AtLeastOne(Threshold)
      BY <1>4, <1>5, <1>6, <2>1, <3>1 DEF FollowsOn
    <3> QED BY <1>4, <1>6, <1>7, <2>1, <3>1, <3>2, <3>3 DEF Builds
  <2>2. CASE ~FailedTick(k)
    <3>1. j.st.failures = 0 /\ j.st.last = j.tick /\ j.st.status = "up"
      BY <1>4, <1>6, <1>7, <1>9, <2>2
    <3> QED BY <1>7, <2>2, <3>1 DEF Builds
  <2> QED BY <2>1, <2>2
<1>10. ASSUME ~Tells(j) PROVE FollowsOn(j.st, c, s2)
  BY <1>4, <1>5, <1>6, <1>7, <1>10
<1>11. k.since <= now
  BY DEF StreakInv, Streaky, k
<1>12. j.tr.to # "nodata"
  BY <1>4, <1>6
<1>13. Streaky(j, c, s2, now)
  BY <1>4, <1>9, <1>10, <1>11, <1>12 DEF Streaky
<1>14. Streaky(j, counted, seams', now) /\ j.since <= now /\ seams \subseteq seams'
  BY <1>4, <1>5, <1>11, <1>13 DEF c, s2
<1> QED BY <1>1, <1>4, <1>14, QuietStreak

\* The nodata timer's state (check_nodata, sweep).
LEMMA TimerStreak ==
    ASSUME TypeInv, PausedInv, StreakInv, SweepTimer
    PROVE  StreakInv'
<1> USE DEF env, valkey, history
<1> DEFINE k == task["job"]
           m == MonitorState(k.row)
           step == CheckNoData(m, k.since, 1)
           j == task'["job"]
           c == counted
           s2 == seams'
<1>0. "job" \in Workers /\ k.since <= now /\ k.since \in Nat /\ now \in Nat
  BY StreakTypes DEF Workers, StreakInv, Streaky
<1>1. CASE ~Computed("job", step)
  <2>1. Goes("job", Idle) /\ UNCHANGED <<counted, now, seams, mon>>
    BY <1>1 DEF SweepTimer, Ends
  <2>2. Idle.pc = "idle" /\ Idle.since = 0
    BY DEF Idle
  <2>3. Idle.since <= now
    BY <1>0, <2>2
  <2> QED BY <1>0, <2>1, <2>2, <2>3, QuietStreak
<1>2. CASE Computed("job", step)
  <2>1. k.row.active /\ k.pc = "timer" /\ UNCHANGED <<now, mon, counted>>
    BY DEF SweepTimer, At
  <2>2. k.row \in RowRec /\ Lawful(k) /\ Unpaused(k)
    BY <1>0, TaskFields DEF TypeInv, PausedInv
  <2>3. m \in StateRec /\ m.last \in Nat
    BY <2>1, <2>2, MonitorStateRuns, StateFields DEF Unpaused
  <2>4. /\ j.st = step.st /\ j.tr = step.tr /\ j.pc \in {"emit", "save"} /\ j.of = k.of
        /\ j.since = k.since /\ Goes("job", j)
    BY <1>0, <1>2, ComputedTask
  <2>5. seams \subseteq s2 /\ FollowsOn(m, c, s2)
    BY <1>0, <1>2, MonitorStateFollows
  <2> HIDE DEF m
  <2>6. /\ step.st.failures = m.failures /\ step.st.last = m.last
        /\ \/ step.st.status = m.status /\ step.tr.to = "pending"
           \/ step.st.status = "nodata" /\ step.tr.to = "nodata" /\ NoData(m, k.since, 1)
    BY <2>3, CheckNoDataEffect, ZenonT(60)
  <2>7. ~Tells(j)
    BY <2>1, <2>2, <2>4 DEF Lawful, Tells
  <2> HIDE DEF k, step, j, c, s2
  <2>8. FollowsOn(j.st, c, s2)
    BY <2>4, <2>5, <2>6 DEF FollowsOn
  <2>9. ASSUME j.tr.to = "nodata"
        PROVE  Len(c) \in s2 \/ Len(c) = 0 \/ c[Len(c)].tick + 2 < now
    <3>1. NoData(m, k.since, 1)
      BY <2>4, <2>6, <2>9
    <3>2. m.last # Never /\ k.since - m.last > 2 * 1
      BY <3>1 DEF NoData
    <3>3. Len(c) \in s2 \/ m.last = c[Len(c)].tick
      BY <2>5, <3>2 DEF FollowsOn
    <3>4. m.last + 2 < now
      BY <1>0, <2>3, <3>2
    <3> QED BY <3>3, <3>4
  <2>10. Streaky(j, c, s2, now)
    BY <1>0, <2>4, <2>7, <2>8, <2>9 DEF Streaky
  <2>11. Streaky(j, counted, seams', now) /\ j.since <= now /\ seams \subseteq seams'
    BY <1>0, <2>4, <2>5, <2>10 DEF c, s2
  <2> QED BY <1>0, <2>1, <2>4, <2>11, QuietStreak
<1> QED BY <1>1, <1>2

\* Saving a state that was built on what was counted (save).
LEMMA SaveStreak ==
    ASSUME TypeInv, StreakInv, NEW w \in Workers, Save(w)
    PROVE  StreakInv'
<1> USE DEF env, valkey, history
<1> DEFINE k == task[w]
           L == Len(counted)
           pc == IF k.tr = NoTransition THEN AfterPublish(w) ELSE "publish"
           rec == [k EXCEPT !.pc = pc]
<1>1. /\ k.pc = "save" /\ mon' = k.st /\ UNCHANGED now /\ Goes(w, rec)
      /\ Tells(k) <=> CountsTick(w)
  BY DEF Save, At, GoesTo, Tells, CountsTick
<1>2. /\ pc \notin {"emit", "save"} /\ rec.pc = pc /\ rec.since = k.since
      /\ task'[w] = rec /\ \A v \in Workers : v # w => task'[v] = task[v]
  <2>1. k \in TaskRec /\ k.of \in {"message", "flush", "ticks", "idle"}
    BY TaskFields DEF TypeInv
  <2>2. AfterPublish(w) \in {"closed", "idle", "flush"}
    BY <2>1 DEF AfterPublish
  <2>3. rec.pc = pc /\ rec.since = k.since
    BY <2>1 DEF TaskRec
  <2> HIDE DEF k
  <2>4. task'[w] = rec /\ \A v \in Workers : v # w => task'[v] = task[v]
    BY <1>1, GoesSpec
  <2> QED BY <2>2, <2>3, <2>4
<1>3. /\ (IF Tells(k) THEN Builds(k, counted, seams) ELSE FollowsOn(k.st, counted, seams))
      /\ k.since <= now /\ k.st \in StateRec
  BY <1>1, TaskFields DEF StreakInv, Streaky, TypeInv
<1>4. seams' = IF counted' # counted /\ \E v \in Others(w) : HasState(v)
               THEN seams \union {Len(counted')} ELSE seams
  BY DEF Save
<1>5. CASE ~CountsTick(w)
  <2>1. counted' = counted /\ seams' = seams
    BY <1>4, <1>5, SaveCounts
  <2>2. FollowsOn(mon', counted, seams)
    BY <1>1, <1>3, <1>5
  <2>3. rec.pc \notin {"emit", "save"} /\ rec.since <= now
    BY <1>2, <1>3
  <2> HIDE DEF rec, pc, k
  <2> QED BY <1>1, <2>1, <2>2, <2>3, QuietStreak
<1>6. CASE CountsTick(w)
  <2> DEFINE c == counted
             c2 == counted'
             s == seams
             s2 == seams'
  <2>1. /\ L \in Nat /\ DOMAIN c = 1 .. L /\ Len(c2) = L + 1 /\ DOMAIN c2 = 1 .. L + 1
        /\ \A i \in 1 .. L : c2[i] = c[i]
        /\ c2[L + 1] = [tick |-> k.tick, to |-> k.st.status, failed |-> FailedTick(k)]
    BY <1>6, SaveCounts DEF EntryOf, FailedTick
  <2>2. s \subseteq s2 /\ s2 \subseteq s \union {L + 1}
    BY <1>4, <2>1
  <2>3. Builds(k, c, s)
    BY <1>1, <1>3, <1>6
  <2>4. /\ c2[L + 1].tick = k.tick /\ c2[L + 1].to = k.st.status /\ c2[L + 1].failed = FailedTick(k)
    BY <2>1
  <2>5. k.st.failures \in Nat
    BY <1>3, StateFields
  <2>6. Threshold \in Nat /\ AtLeastOne(Threshold) >= Threshold /\ AtLeastOne(Threshold) \in Nat
    BY EvaluatorAssumption DEF EvaluatorAssumption, AtLeastOne
  <2>7. \A v \in Workers : Streaky(task[v], c, s, now)
    BY DEF StreakInv
  <2>8. \A i \in 1 .. L : Earned(i, c, s)
    BY <2>1 DEF StreakInv
  <2>9. (\E v \in Others(w) : HasState(v)) => L + 1 \in s2
    <3>1. c2 # c
      BY <2>1
    <3> QED BY <1>4, <2>1, <3>1
  <2> HIDE DEF k, L, c, c2, s, s2
  <2>10. Run(k.st.failures, c2, s2)
    <3> SUFFICES ASSUME NEW d \in 0 .. k.st.failures - 1,
                        \A e \in 0 .. d : Len(c2) - e \notin s2
                 PROVE  Len(c2) - d >= 1 /\ c2[Len(c2) - d].failed
      BY DEF Run
    <3>1. FailedTick(k)
      BY <2>3, <2>5 DEF Builds
    <3>2. CASE d = 0
      BY <2>1, <2>4, <3>1, <3>2
    <3>3. CASE d # 0
      <4>1. d - 1 \in 0 .. (k.st.failures - 1) - 1 /\ d \in Nat
        BY <2>5, <3>3
      <4>2. \A e \in 0 .. d - 1 : L - e \notin s
        <5> SUFFICES ASSUME NEW e \in 0 .. d - 1 PROVE L - e \notin s
          OBVIOUS
        <5>1. e + 1 \in 0 .. d /\ Len(c2) - (e + 1) = L - e
          BY <2>1, <4>1
        <5> QED BY <2>2, <5>1
      <4>3. Run(k.st.failures - 1, c, s)
        BY <2>3, <3>1 DEF Builds
      <4>4. Len(c) = L
        BY DEF L, c
      <4>5. L - (d - 1) >= 1 /\ c[L - (d - 1)].failed
        BY <4>1, <4>2, <4>3, <4>4 DEF Run
      <4>6. Len(c2) - d = L - (d - 1) /\ L - (d - 1) \in 1 .. L
        BY <2>1, <4>1, <4>5
      <4> QED BY <2>1, <4>5, <4>6
    <3> QED BY <3>2, <3>3
  <2>11. FollowsOn(k.st, c2, s2)
    <3>1. Len(c2) >= 1 /\ c2[Len(c2)].to = k.st.status /\ c2[Len(c2)].tick = k.tick /\ k.st.last = k.tick
      BY <2>1, <2>3, <2>4 DEF Builds
    <3> QED BY <2>10, <3>1 DEF FollowsOn
  <2>12. ASSUME NEW i \in 1 .. L PROVE Earned(i, c2, s2)
    <3>1. Earned(i, c, s) /\ i \in Nat
      BY <2>8
    <3>2. c2[i] = c[i] /\ (i > 1 => c2[i - 1] = c[i - 1])
      BY <2>1
    <3>3. \A d \in 1 .. Threshold - 1 : i - d >= 1 => c2[i - d] = c[i - d]
      <4> SUFFICES ASSUME NEW d \in 1 .. Threshold - 1, i - d >= 1 PROVE c2[i - d] = c[i - d]
        OBVIOUS
      <4>1. i - d \in 1 .. L
        BY <2>1
      <4> QED BY <2>1, <4>1
    <3> QED BY <2>2, <3>1, <3>2, <3>3 DEF Earned
  <2>13. Earned(L + 1, c2, s2)
    <3> SUFFICES ASSUME k.st.status = "down"
                 PROVE  /\ c2[L + 1].failed
                        /\ \/ L + 1 > 1 /\ c2[(L + 1) - 1].to = "down"
                           \/ (L + 1) - 1 \in s2
                           \/ \A d \in 1 .. Threshold - 1 :
                                (\A e \in 1 .. d : (L + 1) - e \notin s2) =>
                                  (L + 1) - d >= 1 /\ c2[(L + 1) - d].failed
      BY <2>4 DEF Earned
    <3>1. FailedTick(k) /\ c2[L + 1].failed
      BY <2>3, <2>4 DEF Builds
    <3>2. Len(c) = L /\ (L + 1) - 1 = L
      BY <2>1 DEF L, c
    <3>3. CASE L \in s \/ (L >= 1 /\ c[L].to = "down")
      BY <2>1, <2>2, <3>1, <3>2, <3>3
    <3>4. CASE k.st.failures >= AtLeastOne(Threshold)
      <4> SUFFICES ASSUME NEW d \in 1 .. Threshold - 1, \A e \in 1 .. d : (L + 1) - e \notin s2
                   PROVE  (L + 1) - d >= 1 /\ c2[(L + 1) - d].failed
        BY <3>1
      <4>1. d - 1 \in 0 .. (k.st.failures - 1) - 1 /\ d \in Nat
        BY <2>5, <2>6, <3>4
      <4>2. \A e \in 0 .. d - 1 : L - e \notin s
        <5> SUFFICES ASSUME NEW e \in 0 .. d - 1 PROVE L - e \notin s
          OBVIOUS
        <5>1. e + 1 \in 1 .. d /\ (L + 1) - (e + 1) = L - e
          BY <2>1, <4>1
        <5> QED BY <2>2, <5>1
      <4>3. L - (d - 1) >= 1 /\ c[L - (d - 1)].failed
        BY <2>3, <3>1, <3>2, <4>1, <4>2 DEF Builds, Run
      <4>4. (L + 1) - d = L - (d - 1) /\ L - (d - 1) \in 1 .. L
        BY <2>1, <4>1, <4>3
      <4> QED BY <2>1, <4>3, <4>4
    <3> QED BY <2>3, <3>2, <3>3, <3>4 DEF Builds
  <2>14. \A i \in DOMAIN c2 : Earned(i, c2, s2)
    BY <2>1, <2>12, <2>13
  <2>15. ASSUME NEW v \in Workers, v # w PROVE Streaky(task[v], c2, s2, now)
    <3>1. PICK x : x = task[v]
      OBVIOUS
    <3>2. Streaky(x, c, s, now)
      BY <2>7, <3>1
    <3>3. CASE x.pc \in {"emit", "save"}
      <4>1. L + 1 \in s2
        BY <2>9, <2>15, <3>1, <3>3 DEF Others, HasState
      <4>2. Len(c2) \in s2 /\ Len(c2) \in Nat
        BY <2>1, <4>1
      <4> QED BY <3>1, <3>2, <4>2, SeamExcusesTask
    <3>4. CASE x.pc \notin {"emit", "save"}
      BY <3>1, <3>2, <3>4 DEF Streaky
    <3> QED BY <3>3, <3>4
  <2>16. Streaky(task'[w], c2, s2, now)
    <3>1. task'[w].pc \notin {"emit", "save"} /\ task'[w].since <= now
      BY <1>2, <1>3
    <3> QED BY <3>1 DEF Streaky
  <2>17. \A v \in Workers : Streaky(task'[v], c2, s2, now)
    BY <1>2, <2>15, <2>16
  <2>18. FollowsOn(mon', c2, s2)
    BY <1>1, <2>11
  <2> QED BY <1>1, <2>14, <2>17, <2>18 DEF StreakInv, c2, s2
<1> QED BY <1>5, <1>6

\* Every step keeps the streak.
LEMMA StreakStepInv ==
    ASSUME TypeInv, PausedInv, StreakInv, [Next]_vars
    PROVE  StreakInv'
<1> USE DEF env, valkey, history
<1>0. /\ "job" \in Workers /\ now \in Nat /\ Idle.pc = "idle" /\ Idle.since = 0
      /\ \A w \in Workers : /\ task[w] \in TaskRec /\ Lawful(task[w])
                            /\ task[w].since \in Nat /\ task[w].since <= now
  BY StreakTypes, TaskFields DEF TypeInv, Workers, StreakInv, Streaky, Idle
<1>1. ASSUME NEW w \in Workers, NEW pc \in Pcs, GoesTo(w, pc), UNCHANGED <<counted, now, seams, mon>>,
             pc \notin {"emit", "save"} \/ (pc = "save" /\ task[w].pc = "emit")
      PROVE  StreakInv'
  <2> DEFINE k == [task[w] EXCEPT !.pc = pc]
  <2>1. /\ k.pc = pc /\ k.since = task[w].since /\ k.of = task[w].of /\ k.rec = task[w].rec
        /\ k.st = task[w].st /\ k.tick = task[w].tick
    BY <1>0, <1>1, TaskTypes DEF TypeInv
  <2>2. Goes(w, k)
    BY <1>1 DEF GoesTo
  <2> HIDE DEF k
  <2>3. k.since <= now
    BY <1>0, <2>1
  <2> QED BY <1>1, <2>1, <2>2, <2>3, QuietStreak
<1>2. ASSUME NEW w \in Workers, NEW j, Goes(w, j), UNCHANGED <<counted, now, seams>>,
             mon' = mon \/ mon' = NoState, j.pc \notin {"emit", "save"},
             j.since = 0 \/ j.since = now \/ j.since = task[w].since
      PROVE  StreakInv'
  <2>1. j.since <= now
    BY <1>0, <1>2
  <2> QED BY <1>2, <2>1, QuietStreak
<1>3. ASSUME NEW w \in Workers, Ends(w), UNCHANGED <<counted, now, seams>>,
             mon' = mon \/ mon' = NoState
      PROVE  StreakInv'
  BY <1>0, <1>2, <1>3 DEF Ends
<1>4. ASSUME NEW w \in Workers, Handle(w) PROVE StreakInv'
  <2> DEFINE k == task[w]
  <2>1. ASSUME NEW t \in Ticks, NEW r \in Regions, Deliver(w, t, r) PROVE StreakInv'
    <3> DEFINE handled == ~config.active \/ IsLate(t)
               j == [Idle EXCEPT !.pc = IF handled THEN "mark" ELSE "read", !.tick = t,
                                 !.region = r, !.row = IF handled THEN NoRow ELSE config]
    <3>1. Goes(w, j) /\ UNCHANGED <<counted, now, seams, mon>>
      BY <2>1 DEF Deliver
    <3>2. j.pc \notin {"emit", "save"} /\ j.since = 0
      BY DEF Idle
    <3> HIDE DEF j
    <3> QED BY <1>2, <3>1, <3>2
  <2>2. CASE ReadTick(w)
    <3> DEFINE tick == Heard(open[k.tick], k.region, lane[k.tick][k.region].says)
               pc == IF Regions \subseteq Answered(tick) THEN "apply" ELSE "put"
               j == [k EXCEPT !.rec = tick, !.pc = pc]
    <3>1. Goes(w, j) /\ UNCHANGED <<counted, now, seams, mon>>
      BY <2>2 DEF ReadTick
    <3>2. j.pc \in {"apply", "put"} /\ j.since = k.since
      BY <1>0 DEF TaskRec
    <3> HIDE DEF j
    <3> QED BY <1>2, <3>1, <3>2
  <2>3. CASE ReadClosed(w)
    <3> DEFINE j == [k EXCEPT !.read = closed, !.pc = "close"]
    <3>1. Goes(w, j) /\ UNCHANGED <<counted, now, seams, mon>>
      BY <2>3 DEF ReadClosed
    <3>2. j.pc = "close" /\ j.since = k.since
      BY <1>0 DEF TaskRec
    <3> HIDE DEF j
    <3> QED BY <1>2, <3>1, <3>2
  <2>4. CASE PutTick(w) \/ PutClosed(w) \/ DropTick(w) \/ PutEmit(w) \/ Publish(w)
             \/ PublishFails(w) \/ Unemit(w)
    <3>1. UNCHANGED <<counted, now, seams, mon>>
      BY <2>4 DEF PutTick, PutClosed, DropTick, PutEmit, Publish, PublishFails, Unemit
    <3>2. AfterPublish(w) \in {"closed", "idle", "flush"}
      BY <1>0, TaskFields DEF AfterPublish, TypeInv
    <3>3. \/ \E pc \in {"mark", "drop", "ticks", "closed", "idle", "flush", "unemit"} : GoesTo(w, pc)
          \/ GoesTo(w, "save") /\ k.pc = "emit"
      BY <2>4, <3>2 DEF PutTick, PutClosed, DropTick, PutEmit, Publish, PublishFails, Unemit, At
    <3> HIDE DEF k
    <3> QED BY <1>1, <3>1, <3>3 DEF Pcs, k
  <2>5. CASE Mark(w)
    BY <1>3, <2>5 DEF Mark
  <2>6. CASE Apply(w)
    BY <2>6, ApplyStreak
  <2>7. CASE Save(w)
    BY <2>7, SaveStreak
  <2> QED BY <1>4, <2>1, <2>2, <2>3, <2>4, <2>5, <2>6, <2>7 DEF Handle
<1>5. CASE Sweep
  <2> DEFINE k == task["job"]
  <2>1. ASSUME NEW j, Goes("job", j), UNCHANGED <<counted, now, seams, mon>>,
               j.pc \notin {"emit", "save"}, j.since = 0 \/ j.since = now \/ j.since = k.since
        PROVE  StreakInv'
    BY <1>0, <1>2, <2>1
  <2>2. CASE SweepStarts
    <3> DEFINE j == [Idle EXCEPT !.pc = "flush", !.of = "flush", !.todo = Stored]
    <3>1. Goes("job", j) /\ UNCHANGED <<counted, now, seams, mon>>
      BY <2>2 DEF SweepStarts
    <3>2. j.pc = "flush" /\ j.since = 0
      BY DEF Idle
    <3> HIDE DEF j
    <3> QED BY <2>1, <3>1, <3>2
  <2>3. CASE FlushNext
    <3>1. PICK e \in ToFlush(k.todo) :
            Goes("job", [k EXCEPT !.tr = e, !.todo = @ \ {e.seq}, !.pc = "publish"])
      BY <2>3 DEF FlushNext
    <3> DEFINE j == [k EXCEPT !.tr = e, !.todo = @ \ {e.seq}, !.pc = "publish"]
    <3>2. Goes("job", j) /\ UNCHANGED <<counted, now, seams, mon>>
      BY <2>3, <3>1 DEF FlushNext
    <3>3. j.pc = "publish" /\ j.since = k.since
      BY <1>0 DEF TaskRec
    <3> HIDE DEF j
    <3> QED BY <2>1, <3>2, <3>3
  <2>4. CASE FlushEnds
    <3> DEFINE j == [k EXCEPT !.pc = "ticks", !.of = "ticks", !.todo = OpenTicks, !.since = now]
    <3>1. Goes("job", j) /\ UNCHANGED <<counted, now, seams, mon>>
      BY <2>4 DEF FlushEnds
    <3>2. j.pc = "ticks" /\ j.since = now
      BY <1>0 DEF TaskRec
    <3> HIDE DEF j
    <3> QED BY <2>1, <3>1, <3>2
  <2>5. CASE SweepTick
    <3>1. PICK t \in ToClose(k.todo) :
            Goes("job", [k EXCEPT !.tick = t, !.rec = open[t], !.todo = @ \ {t},
                                  !.tr = NoTransition, !.row = config,
                                  !.pc = IF config.active THEN "apply" ELSE "drop"])
      BY <2>5 DEF SweepTick
    <3> DEFINE j == [k EXCEPT !.tick = t, !.rec = open[t], !.todo = @ \ {t},
                              !.tr = NoTransition, !.row = config,
                              !.pc = IF config.active THEN "apply" ELSE "drop"]
    <3>2. Goes("job", j) /\ UNCHANGED <<counted, now, seams, mon>>
      BY <2>5, <3>1 DEF SweepTick
    <3>3. j.pc \in {"apply", "drop"} /\ j.since = k.since
      BY <1>0 DEF TaskRec
    <3> HIDE DEF j
    <3> QED BY <2>1, <3>2, <3>3
  <2>6. CASE SweepTicksEnd
    <3> DEFINE j == [Idle EXCEPT !.pc = "timer", !.of = "idle", !.row = config, !.since = k.since]
    <3>1. Goes("job", j) /\ UNCHANGED <<counted, now, seams, mon>>
      BY <2>6 DEF SweepTicksEnd
    <3>2. j.pc = "timer" /\ j.since = k.since
      BY DEF Idle
    <3> HIDE DEF j
    <3> QED BY <2>1, <3>1, <3>2
  <2>7. CASE SweepTimer
    BY <2>7, TimerStreak
  <2>8. CASE SweepInactive
    BY <1>0, <1>3, <2>8 DEF SweepInactive, Cleared
  <2> QED BY <1>5, <2>2, <2>3, <2>4, <2>5, <2>6, <2>7, <2>8 DEF Sweep
<1>6. CASE Environment
  <2>1. CASE Slot
    <3>1. UNCHANGED <<counted, seams, mon, task>> /\ now' \in Nat /\ now <= now'
      BY <1>0, <2>1 DEF Slot
    <3>2. \A w \in Workers : Streaky(task[w], counted, seams, now')
      <4> SUFFICES ASSUME NEW w \in Workers PROVE Streaky(task[w], counted, seams, now')
        OBVIOUS
      <4>1. PICK c, s, k, t : c = counted /\ s = seams /\ k = task[w] /\ t = now
        OBVIOUS
      <4>2. PICK t2 : t2 = now'
        OBVIOUS
      <4>3. Streaky(k, c, s, t) /\ k.since \in Nat
            /\ (Len(c) = 0 \/ c[Len(c)].tick \in Nat)
        BY <1>0, <4>1, StreakTypes DEF StreakInv
      <4>4. t \in Nat /\ t2 \in Nat /\ t <= t2 /\ s \subseteq s
        BY <1>0, <3>1, <4>1, <4>2
      <4>5. Streaky(k, c, s, t2)
        BY <4>3, <4>4, StreakyStays
      <4> QED BY <4>1, <4>2, <4>5
    <3> QED BY <3>1, <3>2 DEF StreakInv
  <2>2. CASE Toggle \/ Rewrite \/ \E t \in Ticks, r \in Regions : Park(t, r) \/ GiveUp(t, r)
    <3>1. UNCHANGED <<counted, seams, mon, task, now>>
      BY <2>2 DEF Toggle, Rewrite, Park, GiveUp
    <3> QED BY <1>1, <3>1 DEF StreakInv
  <2>3. ASSUME NEW w \in Workers, Cut(w) PROVE StreakInv'
    BY <1>3, <2>3 DEF Cut
  <2> QED BY <1>6, <2>1, <2>2, <2>3 DEF Environment
<1>7. CASE UNCHANGED vars
  BY <1>7 DEF vars, StreakInv
<1> QED BY <1>4, <1>5, <1>6, <1>7 DEF Next

\* The streak, in every state.
LEMMA StreakInvariant == Spec => []StreakInv
<1>1. ASSUME Init PROVE StreakInv
  <2>1. counted = <<>> /\ seams = {} /\ now = 0 /\ mon = NoState /\ \A w \in Workers : task[w] = Idle
    BY <1>1 DEF Init
  <2>2. FollowsOn(mon, counted, seams)
    BY <2>1, FreshFollows DEF NoState, Fresh
  <2>3. Streaky(Idle, counted, seams, now)
    BY <2>1 DEF Streaky, Idle
  <2> QED BY <2>1, <2>2, <2>3 DEF StreakInv
<1> QED BY <1>1, StreakStepInv, Types, PausedInvariant, PTL DEF Spec

\* The last n ticks of those up to the ith.
LastOf(c, i, n) == {c[j].tick : j \in {k \in DOMAIN c : i - n < k /\ k <= i}}

\* The last n ticks of a sequence, if different, are n.
LEMMA LastTicksDiffer ==
    ASSUME NEW S, NEW c \in Seq(S), NEW i \in DOMAIN c, NEW n \in Nat, n <= i,
           \A a, b \in DOMAIN c : (i - n < a /\ a <= i /\ i - n < b /\ b <= i /\ a # b) =>
             c[a].tick # c[b].tick
    PROVE  Cardinality(LastOf(c, i, n)) = n
<1>1. DOMAIN c = 1 .. Len(c) /\ Len(c) \in Nat
  OBVIOUS
<1>2. i \in Nat /\ i - n + 1 \in Int /\ (i - n + 1) .. i \subseteq DOMAIN c
  BY <1>1
<1> DEFINE I == (i - n + 1) .. i
           T == LastOf(c, i, n)
           f == [j \in I |-> c[j].tick]
<1>3. T = {c[j].tick : j \in I}
  <2>1. {k \in DOMAIN c : i - n < k /\ k <= i} = I
    BY <1>1, <1>2
  <2> HIDE DEF I
  <2> QED BY <2>1 DEF LastOf
<1>4. IsFiniteSet(I) /\ Cardinality(I) = n
  BY <1>2, FS_Interval, SMTT(30)
<1>5. \A a, b \in I : c[a].tick = c[b].tick => a = b
  BY <1>1, <1>2
<1> HIDE DEF I, T
<1>6. f \in Surjection(I, T)
  BY <1>3 DEF Surjection
<1>7. f \in Injection(I, T)
  BY <1>3, <1>5 DEF Injection, IsInjective
<1> QED BY <1>4, <1>6, <1>7, FS_Surjection DEF T

\* Down is entered by a tick that failed, after as many more as the threshold asks
\* for, one made of what the other left, and no tick of them twice: however the
\* results arrive, are parked or sent again, whoever closes the ticks, whatever dies
\* or is edited (apply_tick, _close).
THEOREM DownEarned == Spec => []DownIsEarned
<1>1. ASSUME TypeInv, StreakInv, CountedOnce PROVE DownIsEarned
  <2> DEFINE c == counted
             s == seams
             T == Threshold
  <2> SUFFICES ASSUME NEW i \in DOMAIN c, GoesDown(i), Undisturbed(i, T)
               PROVE  /\ Cardinality(LastTicks(i, T)) = T
                      /\ \A k \in DOMAIN c : i - T < k /\ k <= i => c[k].failed
    BY DEF DownIsEarned
  <2>1. c \in Seq(Entries) /\ Len(c) \in Nat /\ DOMAIN c = 1 .. Len(c) /\ T \in Nat
        /\ i \in 1 .. Len(c)
    BY <1>1, StreakTypes, EvaluatorAssumption DEF EvaluatorAssumption
  <2>2. Earned(i, c, s) /\ c[i].to = "down" /\ ~(i > 1 /\ c[i - 1].to = "down")
    <3>1. c[i].to = "down" /\ (i = 1 \/ c[i - 1].to # "down")
      BY DEF GoesDown
    <3> QED BY <1>1, <3>1 DEF StreakInv
  <2>3. \A k \in s : k <= i - T \/ k >= i
    BY DEF Undisturbed
  <2>4. /\ LastTicks(i, T) = LastOf(c, i, T) /\ LastTicks(i, T) \intersect disturbed = {}
        /\ \A a \in DOMAIN c : i - T < a /\ a <= i => c[a].tick \in LastTicks(i, T)
    BY DEF LastTicks, LastOf, Undisturbed
  <2>5. \A a, b \in DOMAIN c : a # b /\ c[a].tick = c[b].tick => c[a].tick \in disturbed
    BY <1>1 DEF CountedOnce
  <2> HIDE DEF c, s, T
  <2>6. c[i].failed
    BY <2>2 DEF Earned
  <2>7. ASSUME NEW d \in 1 .. T - 1 PROVE i - d >= 1 /\ c[i - d].failed
    <3>1. T \in Nat /\ T >= 2 /\ i \in Nat
      BY <2>1
    <3>2. i - 1 \notin s
      BY <2>3, <3>1
    <3>3. \A e \in 1 .. d : i - e \notin s
      <4> SUFFICES ASSUME NEW e \in 1 .. d PROVE i - e \notin s
        OBVIOUS
      <4>1. ~(i - e <= i - T) /\ ~(i - e >= i)
        BY <2>1
      <4> QED BY <2>3, <4>1
    <3> QED BY <2>2, <3>2, <3>3 DEF Earned, T
  <2>8. T <= i
    <3>1. CASE T <= 1
      BY <2>1, <3>1
    <3>2. CASE T > 1
      <4>1. T - 1 \in 1 .. T - 1
        BY <2>1, <3>2
      <4>2. i - (T - 1) >= 1
        BY <2>7, <4>1
      <4> QED BY <2>1, <4>2
    <3> QED BY <2>1, <3>1, <3>2
  <2>9. ASSUME NEW k \in DOMAIN c, i - T < k, k <= i PROVE c[k].failed
    <3>1. CASE k = i
      BY <2>6, <3>1
    <3>2. CASE k # i
      <4>1. i - k \in 1 .. T - 1 /\ i - (i - k) = k
        BY <2>1, <2>9, <3>2
      <4>2. c[i - (i - k)].failed
        BY <2>7, <4>1
      <4> QED BY <4>1, <4>2
    <3> QED BY <3>1, <3>2
  <2>10. ASSUME NEW a \in DOMAIN c, NEW b \in DOMAIN c,
                i - T < a, a <= i, i - T < b, b <= i, a # b
         PROVE  c[a].tick # c[b].tick
    <3>1. c[a].tick \in LastTicks(i, T)
      BY <2>4, <2>10
    <3> QED BY <2>4, <2>5, <2>10, <3>1
  <2>11. Cardinality(LastOf(c, i, T)) = T
    <3>1. i \in DOMAIN c
      BY <2>1
    <3>2. \A a, b \in DOMAIN c : (i - T < a /\ a <= i /\ i - T < b /\ b <= i /\ a # b) =>
            c[a].tick # c[b].tick
      BY <2>10
    <3> QED BY <2>1, <2>8, <3>1, <3>2, LastTicksDiffer
  <2>12. Cardinality(LastTicks(i, T)) = T
    BY <2>4, <2>11
  <2> QED BY <2>9, <2>12
<1> QED BY <1>1, Types, StreakInvariant, TicksCountedOnce, PTL

\* What a transition to nodata is stored on: no tick of the last two slots was
\* applied last, nor did the other task save one meanwhile unmarked; so none was,
\* but one after which an older one was applied (check_nodata, sweep).
THEOREM NodataEarns == Spec => NodataIsEarned
<1> DEFINE Silent == (\E e \in emit' \ emit : e.to = "nodata") /\ Len(counted) \notin seams =>
              \A i \in DOMAIN counted :
                 \/ counted[i].tick + 2 < now
                 \/ \E j \in DOMAIN counted : i < j /\ counted[j].tick < counted[i].tick
<1>1. ASSUME TypeInv, StreakInv, [Next]_vars PROVE [Silent]_vars
  <2> SUFFICES ASSUME NEW e \in emit' \ emit, e.to = "nodata", Len(counted) \notin seams,
                      NEW i \in DOMAIN counted
               PROVE  \/ counted[i].tick + 2 < now
                      \/ \E j \in DOMAIN counted : i < j /\ counted[j].tick < counted[i].tick
    OBVIOUS
  <2> USE DEF env, valkey, history
  <2>1. emit' # emit /\ ~(emit' \subseteq emit)
    OBVIOUS
  <2>2. ~Sweep
    BY <2>1 DEF Sweep, SweepStarts, FlushNext, FlushEnds, SweepTick, SweepTicksEnd, SweepTimer,
                SweepInactive
  <2>3. ~Environment
    BY <2>1 DEF Environment, Slot, Toggle, Rewrite, Park, GiveUp, Cut
  <2>4. PICK w \in Workers : Handle(w)
    BY <1>1, <2>1, <2>2, <2>3 DEF Next, vars
  <2>5. PutEmit(w)
    BY <2>1, <2>4 DEF Handle, Deliver, ReadTick, PutTick, Mark, Apply, Save, Publish, PublishFails,
                      Unemit, Without, ReadClosed, PutClosed, DropTick
  <2>6. task[w].pc = "emit" /\ task[w].tr.to = "nodata"
    BY <2>5 DEF PutEmit, At, Without
  <2> DEFINE L == Len(counted)
  <2>7. L = 0 \/ counted[L].tick + 2 < now
    BY <1>1, <2>6 DEF StreakInv, Streaky
  <2>8. /\ L \in Nat /\ i \in 1 .. L /\ L \in DOMAIN counted
        /\ counted[i].tick \in Nat /\ counted[L].tick \in Nat /\ now \in Nat
    BY <1>1, StreakTypes
  <2> HIDE DEF L
  <2>9. CASE counted[i].tick <= counted[L].tick
    BY <2>7, <2>8, <2>9
  <2>10. CASE ~(counted[i].tick <= counted[L].tick)
    <3>1. i < L /\ counted[L].tick < counted[i].tick
      BY <2>8, <2>10
    <3> QED BY <2>8, <3>1
  <2> QED BY <2>9, <2>10
<1>2. (TypeInv /\ StreakInv /\ [Next]_vars) => [Silent]_vars
  BY <1>1
<1>3. NodataIsEarned <=> [][Silent]_vars
  BY DEF NodataIsEarned
<1> HIDE DEF Silent
<1> QED BY <1>2, <1>3, Types, StreakInvariant, PTL DEF Spec
=============================================================================
