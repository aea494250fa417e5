--------------------------- MODULE MonitorHistory ---------------------------
(***************************************************************************)
(* One monitor's state machine run over any history of ticks, nodata       *)
(* timers and edits of its threshold and quorum.  The state machine keeps  *)
(* a status and a counter; the history says what they must be.             *)
(* Named apart from Evaluator, which Evaluator_proofs EXTENDS beside it.    *)
(***************************************************************************)
EXTENDS MonitorMachine, Sequences

CONSTANTS
    Reporters,    \* regions a tick may hear from
    Thresholds,   \* failure_threshold values a user may set
    Quorums,      \* min_failing_regions values a user may set
    MaxSlot       \* bound on the clock

ASSUME HistoryAssumption ==
    /\ IsFiniteSet(Reporters)
    /\ Thresholds \subseteq Nat /\ Quorums \subseteq Nat
    /\ MaxSlot \in Nat

VARIABLES
    st,           \* the MonitorState
    slot,
    threshold, minFailing,   \* the monitor's configuration
    log,          \* history: the ticks that decided something, oldest first
    silences      \* history: how long log was at each nodata timer that fired

historyVars == <<st, slot, threshold, minFailing, log, silences>>

\* What history keeps of a tick: whether it failed, the threshold then, when.
LogRec == [failed : BOOLEAN, limit : Nat, at : Nat \ {0}]

HistoryTypeOK ==
    /\ st \in StateRec
    /\ st.status # "paused" /\ st.last <= slot
    /\ slot \in Nat \ {0}
    /\ threshold \in Thresholds /\ minFailing \in Quorums
    /\ log \in Seq(LogRec)
    /\ silences \in SUBSET Nat

HistoryInit ==
    /\ st = Fresh("pending", 0, 0)
    /\ slot = 1
    /\ threshold \in Thresholds /\ minFailing \in Quorums
    /\ log = <<>> /\ silences = {}

\* The quorum of flows/monitor.md in one comparison: as many regions failed
\* as the quorum asks for, or as reported if those are fewer.
QuorumFailed(results) ==
    LET n == Cardinality(DOMAIN results)
        q == AtLeastOne(minFailing)
    IN  Cardinality(Failing(results)) >= (IF n < q THEN n ELSE q)

\* A tick closes with the answers of some regions, about one a slot.
CloseTick ==
    /\ Len(log) < slot
    /\ \E R \in SUBSET Reporters : \E results \in [R -> BOOLEAN] :
         /\ st' = ApplyTick(st, results, slot, threshold, minFailing).st
         /\ log' = IF R = {} THEN log
                   ELSE Append(log, [failed |-> QuorumFailed(results),
                                     limit |-> AtLeastOne(threshold), at |-> slot])
    /\ UNCHANGED <<slot, threshold, minFailing, silences>>

\* The nodata timer of a sweep; an interval is one slot.
Timer ==
    /\ NoData(st, slot, 1)
    /\ st' = CheckNoData(st, slot, 1).st
    /\ silences' = silences \union {Len(log)}
    /\ UNCHANGED <<slot, threshold, minFailing, log>>

Edit ==
    /\ threshold' \in Thresholds /\ minFailing' \in Quorums
    /\ UNCHANGED <<st, slot, log, silences>>

Wait ==
    /\ slot < MaxSlot
    /\ slot' = slot + 1
    /\ UNCHANGED <<st, threshold, minFailing, log, silences>>

HistoryNext == CloseTick \/ Timer \/ Edit \/ Wait

HistorySpec == HistoryInit /\ [][HistoryNext]_historyVars

----------------------------------------------------------------------------
(* Properties. *)

\* consecutive_failures counts exactly the failed ticks since the last pass:
\* neither a tick without results, nor a nodata spell, nor an edit resets it
\* or adds to it (apply_tick, _move).
FailuresAreTheStreak ==
    /\ st.failures <= Len(log)
    /\ \A i \in Len(log) - st.failures + 1 .. Len(log) : log[i].failed
    /\ st.failures < Len(log) => ~log[Len(log) - st.failures].failed

\* Whether every tick from the nth on failed, and whether a streak that began
\* at the nth, still unbroken, was once as long as the threshold asked for.
FailedFrom(n) == \A i \in n .. Len(log) : log[i].failed
StreakReached ==
    \E first, i \in 1 .. Len(log) :
        /\ FailedFrom(first) /\ (first = 1 \/ ~log[first - 1].failed)
        /\ first <= i /\ log[i].limit <= i - first + 1
SilentSincePass == \E n \in silences : FailedFrom(n + 1)
EverPassed == ~FailedFrom(1)

\* The status is a function of the history: "Down needs `threshold`
\* consecutive failed ticks; up needs one pass.  Up with no completed check
\* for 2 x interval becomes nodata", whatever was edited in between.
StatusFollowsHistory ==
    /\ st.status = "down" <=> StreakReached
    /\ st.status = "pending" <=> ~StreakReached /\ ~EverPassed
    /\ st.status = "nodata" <=> ~StreakReached /\ EverPassed /\ SilentSincePass
    /\ st.status = "up" <=> ~StreakReached /\ EverPassed /\ ~SilentSincePass

\* The nodata timer runs on the last tick that reported anything: a tick
\* nobody answered does not push it back, and it fires on a monitor that is
\* up only (apply_tick, check_nodata).
SilenceIsTimed ==
    NoData(st, slot, 1) <=>
        st.status = "up" /\ log # <<>> /\ slot > log[Len(log)].at + 2

----------------------------------------------------------------------------
\* The inductive invariant: timers fired in the past, and last_result_at is
\* the time of the last tick that decided something.
SilencesArePast == \A n \in silences : n <= Len(log)
LastIsLast == st.last = IF log = <<>> THEN Never ELSE log[Len(log)].at

HistoryInv == HistoryTypeOK /\ FailuresAreTheStreak /\ StatusFollowsHistory /\ SilencesArePast /\ LastIsLast
=============================================================================
