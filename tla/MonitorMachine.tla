--------------------------- MODULE MonitorMachine ---------------------------
(***************************************************************************)
(* The monitor state machine and the multi-region quorum                   *)
(* (api/analytics/evaluator/machine.py): pure functions of a monitor's     *)
(* state and one closed tick.  MonitorHistory checks them against what a   *)
(* whole history of ticks says; Evaluator and MonitorLifecycle use them.   *)
(*                                                                         *)
(* Abstracted: causes, and seconds (a time is a slot number).              *)
(***************************************************************************)
EXTENDS Integers, FiniteSets

Statuses == {"pending", "up", "down", "nodata", "paused"}

\* last_result_at before any tick reported: None.
Never == 0

\* MonitorState.
StateRec == [status : Statuses, failures : Nat, seq : Nat, last : Nat]
Fresh(status, failures, seq) ==
    [status |-> status, failures |-> failures, seq |-> seq, last |-> Never]

\* Transition.
TransitionRec == [from : Statuses, to : Statuses, failures : Nat, seq : Nat]
NoTransition == [from |-> "pending", to |-> "pending", failures |-> 0, seq |-> 0]

\* max(1, ...) of a configured count.
AtLeastOne(n) == IF n < 1 THEN 1 ELSE n

\* results maps each region that reported to whether it was ok.
Failing(results) == {r \in DOMAIN results : ~results[r]}
Reported(results) == DOMAIN results # {}

\* Mutant: fewer regions than the quorum can never fail a tick.
TickFailedNeedsQuorum(results, minFailing) ==
    Reported(results) /\ Cardinality(Failing(results)) >= AtLeastOne(minFailing)

\* tick_failed: with fewer regions than the quorum, all of them must fail.
TickFailed(results, minFailing) ==
    /\ Reported(results)
    /\ IF Cardinality(DOMAIN results) < AtLeastOne(minFailing)
       THEN Cardinality(Failing(results)) = Cardinality(DOMAIN results)
       ELSE Cardinality(Failing(results)) >= AtLeastOne(minFailing)

\* A step of the machine: the new state and the transition, if any.
Stays(st) == [st |-> st, tr |-> NoTransition]

\* Mutant: a nodata move forgets the failures.
MoveForgetsFailures(st, to, failures) ==
    [st |-> [status |-> to, failures |-> IF to = "down" THEN failures ELSE 0,
             seq |-> st.seq + 1, last |-> st.last],
     tr |-> [from |-> st.status, to |-> to, failures |-> failures, seq |-> st.seq + 1]]

\* Mutant: the state keeps the number it had.
MoveKeepsSeq(st, to, failures) ==
    [st |-> [status |-> to, failures |-> IF to = "up" THEN 0 ELSE failures,
             seq |-> st.seq, last |-> st.last],
     tr |-> [from |-> st.status, to |-> to, failures |-> failures, seq |-> st.seq + 1]]

\* _move.
Move(st, to, failures) ==
    [st |-> [status |-> to, failures |-> IF to = "up" THEN 0 ELSE failures,
             seq |-> st.seq + 1, last |-> st.last],
     tr |-> [from |-> st.status, to |-> to, failures |-> failures, seq |-> st.seq + 1]]

\* apply_tick on a tick that passed, and on one that failed.
Pass(st) == IF st.status = "up" THEN Stays([st EXCEPT !.failures = 0]) ELSE Move(st, "up", 0)

Fail(st, threshold) ==
    IF st.status # "down" /\ st.failures + 1 >= AtLeastOne(threshold)
    THEN Move(st, "down", st.failures + 1)
    ELSE Stays([st EXCEPT !.failures = @ + 1])

\* Mutants: a tick without results counts as one that reported; the tick's
\* deadline is taken for the time it was checked.
ApplyTickRefreshes(st, results, at, threshold, minFailing) ==
    LET seen == [st EXCEPT !.last = at] IN
    IF st.status = "paused" THEN Stays(st)
    ELSE IF TickFailed(results, minFailing) THEN Fail(seen, threshold)
    ELSE IF Reported(results) THEN Pass(seen)
    ELSE Stays(seen)
ApplyTickDeadline(st, results, at, threshold, minFailing) ==
    LET seen == [st EXCEPT !.last = at + 1] IN
    IF st.status = "paused" THEN Stays(st)
    ELSE IF TickFailed(results, minFailing) THEN Fail(seen, threshold)
    ELSE IF Reported(results) THEN Pass(seen)
    ELSE Stays(st)

\* apply_tick.
ApplyTick(st, results, at, threshold, minFailing) ==
    LET seen == [st EXCEPT !.last = at] IN
    IF st.status = "paused" THEN Stays(st)
    ELSE IF TickFailed(results, minFailing) THEN Fail(seen, threshold)
    ELSE IF Reported(results) THEN Pass(seen)
    ELSE Stays(st)

\* Mutant: the timer fires a slot early.
NoDataEarly(st, now, interval) ==
    st.status = "up" /\ st.last # Never /\ now - st.last >= 2 * interval

\* check_nodata.
NoData(st, now, interval) ==
    st.status = "up" /\ st.last # Never /\ now - st.last > 2 * interval

CheckNoData(st, now, interval) ==
    IF NoData(st, now, interval) THEN Move(st, "nodata", st.failures) ELSE Stays(st)
=============================================================================
