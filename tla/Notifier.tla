------------------------------ MODULE Notifier ------------------------------
(***************************************************************************)
(* Alerts for one monitor (api/analytics: notifier, with what transitions  *)
(* see of bus/kafka.py).  The consumer hands each transition to            *)
(* on_transition; a job of every pass redrives parked transitions, ends    *)
(* flapping, reminds, and retries deliveries.  Both work on Valkey's keys  *)
(* an await at a time, and either may die at any of them.                  *)
(*                                                                         *)
(* Abstracted: texts and payloads, but for whether a recovery names the    *)
(* down a channel missed; whether a step of the ladder has come, which is  *)
(* either; downsince:, which only the log reads; keys whose TTL runs out   *)
(* and writes that Valkey loses; the evaluator, which makes any legal      *)
(* transitions.  Rule alerts and verifications are left out.               *)
(***************************************************************************)
EXTENDS Integers, Sequences, FiniteSets

CONSTANTS
    Rules, Channels,
    None,        \* no rule, no stamp
    Terms,       \* of a rule: on, channels, cooldown, every (renotify)
    Ladder,      \* Len(LADDER)
    FlapWindow,  \* FLAP_WINDOW_SECONDS
    FlapEdges,   \* FLAP_EDGES
    MaxTime,     \* bound on the clock
    MaxEvents    \* bound on transitions, edits, tasks that die and publishes that fail

Directions == {"down", "recovered", "nodata"}
Term == [on : SUBSET Directions, channels : SUBSET Channels, cooldown : Nat, every : Nat]

ASSUME NotifierAssumption ==
    /\ IsFiniteSet(Rules) /\ None \notin Rules
    /\ Terms \in [Rules -> Term]
    /\ {Ladder, FlapWindow, MaxTime, MaxEvents} \subseteq Nat
    /\ FlapEdges \in Nat \ {0, 1}

VARIABLES
    now,
    lane,        \* transitions published for the monitor
    mon,         \* mon:, the status in the evaluator's state
    next,        \* the consumer's offset
    handled,     \* tx: and seen:
    parked,      \* dead:
    task,        \* the consumer's and the job's coroutine
    flap,        \* flap:
    cool,        \* cool: per rule and direction
    renotify,    \* renotify: per rule
    retry,       \* retry:
    downfail,    \* downfail: channels that missed a down
    muted,       \* the monitor, or a mute window
    usable,      \* channels that exist and are verified
    events,      \* how many events there were
    told,        \* history: alerts of a down and of a recovery that a channel got
    outcomes,    \* history: alerts recorded as delivered or failed
    suppressed,  \* history: transitions recorded as suppressed, per rule
    entered,     \* history: transitions that entered flapping
    named,       \* history: recoveries whose message names a missed down, or was lost with its task
    late,        \* history: transitions that were parked
    loose        \* history: deliveries the other task held while a recovery was handled

keys == <<flap, cool, renotify, retry, downfail>>
env == <<now, lane, mon, muted, usable>>
history == <<told, outcomes, suppressed, entered, named, late, loose>>
vars == <<env, next, handled, parked, task, keys, events, history>>

Tasks == {"consumer", "job"}
Statuses == {"pending", "up", "down", "nodata"}
Stamp == [at : Nat, n : Nat]
Id == [n : Nat, mark : Nat, rule : Rules, chan : Channels,
       dir : Directions \union {"flapping", "renotify"}]
Job == [id : Id, attempts : 0 .. Ladder + 1, final : {"", "delivered", "failed"}, queued : BOOLEAN,
        missed : BOOLEAN]
Flap == [edges : Seq(Nat), on : BOOLEAN]

\* A coroutine: where it is, the transition and the time it captured, what is left of its
\* loops, and the delivery in its hands.  mark tells a reminder or a second alert, which
\* have ids of their own, from the alert of a transition.
Idle == [pc |-> "idle", n |-> 0, mark |-> 0, at |-> 0, dir |-> "none", todo |-> {}, rule |-> None,
         chans |-> {}, chan |-> None, ids |-> {}, sent |-> FALSE, job |-> None, ret |-> "idle",
         flap |-> None, over |-> FALSE]

TypeOK ==
    /\ now \in 1 .. MaxTime + 1 /\ mon \in Statuses \union {"none"}
    /\ lane \in Seq([from : Statuses, to : Statuses])
    /\ next \in 1 .. Len(lane) + 1 /\ handled \subseteq DOMAIN lane /\ parked \subseteq DOMAIN lane
    /\ flap \in Flap
    /\ cool \in [Rules \X {"down", "nodata"} -> Stamp \union {None}]
    /\ renotify \in [Rules -> Stamp \union {None}]
    /\ retry \subseteq Job /\ downfail \subseteq Channels
    /\ muted \in BOOLEAN /\ usable \subseteq Channels
    /\ \A t \in Tasks : task[t].job \in Job \union {None}
    /\ \A j, k \in retry : j.id = k.id => j = k

Init ==
    /\ now = 1 /\ lane = <<>> /\ mon = "up" /\ next = 1
    /\ handled = {} /\ parked = {}
    /\ task = [t \in Tasks |-> Idle]
    /\ flap = [edges |-> <<>>, on |-> FALSE]
    /\ cool = [x \in Rules \X {"down", "nodata"} |-> None]
    /\ renotify = [r \in Rules |-> None]
    /\ retry = {} /\ downfail = {}
    /\ muted = FALSE /\ usable = Channels /\ events = 0
    /\ told = {} /\ outcomes = {} /\ suppressed = {} /\ entered = {} /\ named = {}
    /\ late = {} /\ loose = {}

Go(t, pc) == task' = [task EXCEPT ![t].pc = pc]
Event == events < MaxEvents /\ events' = events + 1

----------------------------------------------------------------------------
(* Rules. *)

direction_of(msg) ==
    CASE msg.to = "down" -> "down"
      [] msg.from = "down" /\ msg.to = "up" -> "recovered"
      [] msg.to = "nodata" -> "nodata"
      [] OTHER -> "none"

rule_matches(r, dir) == dir \in Terms[r].on
Matching(dir) == {r \in Rules : rule_matches(r, dir)}

\* The edges of the window that ends at a time.
InWindow(edges, at) == SelectSeq(edges, LAMBDA e : at - e <= FlapWindow)

----------------------------------------------------------------------------
(* on_transition. *)

\* The reminders are cleared first, and flap: is read; a recovery overtakes what the
\* other task has in hand.
on_transition(t, n) ==
    LET msg == lane[n]
        recovers == msg.from = "down" /\ msg.to # "down"
    IN /\ renotify' = IF recovers THEN [r \in Rules |-> None] ELSE renotify
       /\ task' = [u \in Tasks |->
                     IF u = t
                     THEN [Idle EXCEPT !.pc = "flap", !.n = n, !.at = now, !.dir = direction_of(msg),
                                       !.flap = flap]
                     ELSE [task[u] EXCEPT !.over = @ \/ (recovers /\ task[u].pc # "idle")]]

\* Dispatcher.handle: what was handled or is parked is only committed.
handle ==
    /\ task["consumer"].pc = "idle" /\ next <= Len(lane)
    /\ \/ next \in handled \union parked /\ next' = next + 1 /\ UNCHANGED <<task, renotify>>
       \/ next \notin handled \union parked /\ on_transition("consumer", next) /\ UNCHANGED next
    /\ UNCHANGED <<env, handled, parked, flap, cool, retry, downfail, events, history>>

redrive(n) ==
    /\ task["job"].pc = "idle" /\ n \in parked
    /\ on_transition("job", n)
    /\ UNCHANGED <<env, next, handled, parked, flap, cool, retry, downfail, events, history>>

\* _flapping: the window with this edge is put back, and decides what is left to do.
_flapping(t) ==
    LET x == task[t]
        msg == lane[x.n]
        edge == {msg.from, msg.to} = {"up", "down"}
        edges == InWindow(IF edge THEN Append(x.flap.edges, x.at) ELSE x.flap.edges, x.at)
        enters == ~x.flap.on /\ Len(edges) >= FlapEdges
        leaves == x.flap.on /\ ~enters /\ Len(edges) <= 1
        quiet == x.flap.on /\ ~leaves
    IN /\ x.pc = "flap"
       /\ flap' = [edges |-> edges, on |-> enters \/ quiet]
       /\ task' = [task EXCEPT ![t] =
             [x EXCEPT !.pc = IF leaves THEN "exit" ELSE "rules", !.flap = None,
                       !.dir = IF enters THEN "flapping" ELSE @,
                       !.todo = IF enters THEN Matching("down")
                                ELSE IF quiet THEN {} ELSE Matching(x.dir)]]
       /\ entered' = IF enters THEN entered \union {x.n} ELSE entered
       /\ suppressed' = IF quiet THEN suppressed \union ({x.n} \X Matching(x.dir)) ELSE suppressed
       /\ UNCHANGED <<env, next, handled, parked, cool, renotify, retry, downfail, events, told,
                      outcomes, named, late, loose>>

Reset == cool' = [x \in DOMAIN cool |-> None]

\* _exit_flapping on a transition, which is dispatched next.
_exit_flapping(t) ==
    /\ task[t].pc = "exit" /\ Reset /\ Go(t, "rules")
    /\ UNCHANGED <<env, next, handled, parked, flap, renotify, retry, downfail, events, history>>

\* on_transition ends; a parked message is done with.
Handled(t) ==
    /\ task[t].pc = "rules" /\ task[t].todo = {} /\ task[t].mark = 0
    /\ handled' = handled \union {task[t].n} /\ parked' = parked \ {task[t].n}
    /\ task' = [task EXCEPT ![t] = Idle]
    /\ UNCHANGED <<env, next, keys, events, history>>

----------------------------------------------------------------------------
(* _dispatch. *)

Cooling(x, r) ==
    /\ x.dir \in {"down", "nodata"} /\ cool[r, x.dir] # None
    /\ x.at - cool[r, x.dir].at < Terms[r].cooldown

\* A transition is recorded as suppressed; what its own first handling stamped (n, which the
\* stamp keeps for the properties) does not count.
Suppress(x, r) ==
    suppressed' = IF x.mark # 0 \/ (~muted /\ cool[r, x.dir].n = x.n) THEN suppressed
                  ELSE suppressed \union {<<x.n, r>>}

_dispatch(t, r) ==
    LET x == task[t]
    IN /\ x.pc = "rules" /\ r \in x.todo
       /\ IF muted \/ Cooling(x, r)
          THEN /\ Suppress(x, r)
               /\ task' = [task EXCEPT ![t].todo = @ \ {r}]
          ELSE /\ task' = [task EXCEPT ![t] =
                     [x EXCEPT !.pc = "channels", !.todo = @ \ {r}, !.rule = r, !.sent = FALSE,
                               !.chans = Terms[r].channels \intersect usable]]
               /\ UNCHANGED suppressed
       /\ UNCHANGED <<env, next, handled, parked, keys, events, told, outcomes, entered, named, late, loose>>

\* A delivery to a channel: its id is made of the transition, rule, channel and direction.
Fresh(x, c, missed) ==
    [id |-> [n |-> x.n, mark |-> x.mark, rule |-> x.rule, chan |-> c, dir |-> x.dir],
     attempts |-> 0, final |-> "", queued |-> FALSE, missed |-> missed]

\* Mutant of PendingDowns: the retries of recoveries are looked for.
OwnPending(c) == {j \in retry : j.id.dir = "recovered" /\ j.id.chan = c}

PendingDowns(c) == {j \in retry : j.id.dir = "down" /\ j.id.chan = c}

\* The next channel: a recovery first looks for retries of the down.
NextChannel(t, c) ==
    LET x == task[t]
    IN /\ x.pc = "channels" /\ c \in x.chans
       /\ task' = [task EXCEPT ![t] =
             [x EXCEPT !.chans = @ \ {c}, !.chan = c, !.sent = TRUE, !.ret = "channels",
                       !.pc = IF x.dir = "recovered" THEN "abandon" ELSE "attempt",
                       !.ids = IF x.dir = "recovered" THEN {j.id : j \in PendingDowns(c)} ELSE {},
                       !.job = IF x.dir = "recovered" THEN None ELSE Fresh(x, c, FALSE)]]
       /\ UNCHANGED <<env, next, handled, parked, keys, events, history>>

\* _abandon_down_retries, one key at a time; one that has ended or is gone is passed over.
_abandon_down_retries(t, id) ==
    LET x == task[t]
        found == {j \in retry : j.id = id /\ j.final = ""}
    IN /\ x.pc = "abandon" /\ id \in x.ids
       /\ task' = [task EXCEPT ![t] =
             IF found = {} THEN [x EXCEPT !.ids = @ \ {id}]
             ELSE [x EXCEPT !.ids = @ \ {id}, !.pc = "finish", !.ret = "abandon",
                            !.job = [(CHOOSE j \in found : TRUE) EXCEPT !.final = "failed"]]]
       /\ UNCHANGED <<env, next, handled, parked, keys, events, history>>

\* The recovery names the down the channel missed, which is then forgotten.
Missed(t) ==
    LET x == task[t]  c == x.chan
    IN /\ x.pc = "abandon" /\ x.ids = {}
       /\ task' = [task EXCEPT ![t] =
             [x EXCEPT !.pc = "attempt", !.ret = "channels",
                       !.job = Fresh(x, c, c \in downfail)]]
       /\ downfail' = downfail \ {c}
       /\ named' = IF c \in downfail THEN named \union {<<x.n, c>>} ELSE named
       /\ UNCHANGED <<env, next, handled, parked, flap, cool, renotify, retry, events, told,
                      outcomes, suppressed, entered, late, loose>>

\* Every channel was attempted: the cooldown is stamped, unless there was none to attempt.
Stamps(x) == x.sent /\ x.dir \in {"down", "nodata"}

Stamped(t) ==
    LET x == task[t]
    IN /\ x.pc = "channels" /\ x.chans = {} /\ Stamps(x)
       /\ cool' = [cool EXCEPT ![<<x.rule, x.dir>>] =
             [at |-> x.at, n |-> IF x.mark = 0 THEN x.n ELSE 0]]
       /\ task' = [task EXCEPT ![t].sent = FALSE]
       /\ UNCHANGED <<env, next, handled, parked, flap, renotify, retry, downfail, events, history>>

\* Then the reminder is stored, or deleted, and the rule is done with.
Remind(t) ==
    LET x == task[t]
    IN /\ x.pc = "channels" /\ x.chans = {} /\ ~Stamps(x)
       /\ renotify' = [renotify EXCEPT ![x.rule] =
             IF x.dir = "down" /\ Terms[x.rule].every > 0 THEN [at |-> x.at, n |-> x.n]
             ELSE IF x.dir = "recovered" THEN None ELSE @]
       /\ task' = [task EXCEPT ![t] = [x EXCEPT !.pc = "rules", !.chan = None, !.sent = FALSE, !.ret = "idle"]]
       /\ UNCHANGED <<env, next, handled, parked, flap, cool, retry, downfail, events, history>>

----------------------------------------------------------------------------
(* Deliveries. *)

Unqueued(id) == {j \in retry : j.id # id}
\* Mutant of Queued: what is to be tried again is not kept.
Dropped(job) == Unqueued(job.id)

Queued(job) == Unqueued(job.id) \union {[job EXCEPT !.queued = TRUE]}
Back(t) == task' = [task EXCEPT ![t].pc = task[t].ret, ![t].job = None]
Loosen(x) == loose' = IF x.over THEN loose \union {x.job.id} ELSE loose

\* _attempt: detached since it was queued; delivered; to be tried again; or given up on
\* (when another attempt cannot succeed, at once).
_attempt(t) ==
    LET x == task[t]
        job == [x.job EXCEPT !.attempts = @ + 1]
        got == IF job.id.dir \in {"down", "recovered"} THEN told \union {job.id} ELSE told
        End(final) ==
            task' = [task EXCEPT ![t].job = [job EXCEPT !.final = final],
                                 ![t].pc = IF final = "failed" /\ job.id.dir = "down"
                                           THEN "finish" ELSE "publish"]
    IN /\ x.pc = "attempt"
       /\ \/ /\ job.id.chan \notin usable
             /\ retry' = Unqueued(job.id) /\ Back(t) /\ UNCHANGED <<told, events, loose>>
          \/ /\ job.id.chan \in usable
             /\ \/ told' = got /\ End("delivered") /\ UNCHANGED <<retry, events>>
                \/ /\ job.attempts <= Ladder /\ retry' = Queued(job) /\ Back(t)
                   /\ UNCHANGED <<told, events>>
                \/ End("failed") /\ UNCHANGED <<retry, told, events>>
             /\ Loosen(x)
       /\ UNCHANGED <<env, next, handled, parked, flap, cool, renotify, downfail, outcomes,
                      suppressed, entered, named, late>>

\* Mutant of Misses: a down that the recovery gives up on does not count as missed.
MissesOwn(t) == IF task[t].dir = "recovered" THEN downfail ELSE downfail \union {task[t].job.id.chan}

Misses(t) == downfail \union {task[t].job.id.chan}

\* _finish: a down that failed is a down its channel missed.
_finish(t) ==
    /\ task[t].pc = "finish"
    /\ downfail' = Misses(t)
    /\ Loosen(task[t]) /\ Go(t, "publish")
    /\ UNCHANGED <<env, next, handled, parked, flap, cool, renotify, retry, events, told,
                   outcomes, suppressed, entered, named, late>>

\* _publish_final: the outcome is published, or kept for the next pass.
_publish_final(t) ==
    LET job == task[t].job
    IN /\ task[t].pc = "publish"
       /\ \/ /\ outcomes' = IF job.id.dir \in Directions
                            THEN outcomes \union {[id |-> job.id, state |-> job.final]} ELSE outcomes
             /\ IF job.queued THEN Go(t, "unqueue") ELSE Back(t)
             /\ UNCHANGED <<retry, events>>
          \/ Event /\ retry' = Queued(job) /\ Back(t) /\ UNCHANGED outcomes
       /\ UNCHANGED <<env, next, handled, parked, flap, cool, renotify, downfail, told, suppressed,
                      entered, named, late, loose>>

Unqueue(t) ==
    /\ task[t].pc = "unqueue"
    /\ retry' = Unqueued(task[t].job.id) /\ Back(t)
    /\ UNCHANGED <<env, next, handled, parked, flap, cool, renotify, downfail, events, history>>

\* retry_due: a delivery whose step has come, as it was read.
retry_due(j) ==
    /\ task["job"].pc = "idle" /\ j \in retry
    /\ task' = [task EXCEPT !["job"] =
          [Idle EXCEPT !.job = j, !.pc = IF j.final = "" THEN "attempt" ELSE "publish",
                       !.over = task["consumer"].dir = "recovered"]]
    /\ UNCHANGED <<env, next, handled, parked, keys, events, history>>

----------------------------------------------------------------------------
(* sweep and renotify. *)

\* A monitor that has gone quiet: flap: is read.
sweep ==
    /\ task["job"].pc = "idle" /\ flap.on
    /\ Len(InWindow(flap.edges, now)) <= 1
    /\ task' = [task EXCEPT !["job"] = [Idle EXCEPT !.pc = "quiet", !.at = now, !.flap = flap]]
    /\ UNCHANGED <<env, next, handled, parked, keys, events, history>>

SweepPuts ==
    LET x == task["job"]
    IN /\ x.pc = "quiet"
       /\ flap' = [edges |-> InWindow(x.flap.edges, x.at), on |-> FALSE]
       /\ task' = [task EXCEPT !["job"].pc = "truth", !["job"].flap = None]
       /\ UNCHANGED <<env, next, handled, parked, cool, renotify, retry, downfail, events, history>>

\* _exit_flapping with redispatch: still down, the monitor alerts again.
SweepExits ==
    LET x == task["job"]
    IN /\ x.pc = "truth" /\ Reset
       /\ task' = [task EXCEPT !["job"] =
             IF mon # "down" THEN Idle
             ELSE [x EXCEPT !.pc = "rules", !.n = Len(lane), !.mark = x.at, !.dir = "down",
                            !.todo = Matching("down")]]
       /\ UNCHANGED <<env, next, handled, parked, flap, renotify, retry, downfail, events, history>>

\* "Still down", unless the evaluator's state says otherwise by now.
Renotify(r) ==
    LET stamp == renotify[r]
    IN /\ task["job"].pc = "idle" /\ stamp # None
       /\ \/ /\ mon \notin {"down", "none"}
             /\ task' = [task EXCEPT !["job"] = [Idle EXCEPT !.pc = "forget", !.rule = r]]
          \/ /\ mon \in {"down", "none"} /\ now - stamp.at >= Terms[r].every
             /\ task' = [task EXCEPT !["job"] =
                   [Idle EXCEPT !.pc = "rules", !.n = stamp.n, !.mark = now, !.at = now,
                                !.dir = "renotify", !.todo = {r}, !.rule = r]]
       /\ UNCHANGED <<env, next, handled, parked, keys, events, history>>

Forget ==
    /\ task["job"].pc = "forget"
    /\ renotify' = [renotify EXCEPT ![task["job"].rule] = None]
    /\ task' = [task EXCEPT !["job"] = Idle]
    /\ UNCHANGED <<env, next, handled, parked, flap, cool, retry, downfail, events, history>>

\* A reminder is stamped anew, told or suppressed; a second alert just ends.
SecondEnds ==
    LET x == task["job"]
    IN /\ x.pc = "rules" /\ x.todo = {} /\ x.mark # 0
       /\ renotify' = IF x.dir = "renotify"
                      THEN [renotify EXCEPT ![x.rule] = [at |-> x.at, n |-> x.n]] ELSE renotify
       /\ task' = [task EXCEPT !["job"] = Idle]
       /\ UNCHANGED <<env, next, handled, parked, flap, cool, retry, downfail, events, history>>

----------------------------------------------------------------------------
(* Events, and what happens meanwhile. *)

\* An instance dies, a pass is cut off, or the handler raises: a transition is delivered
\* again, or parked (and handled later, out of order), or given up on.
Cut(t) ==
    LET x == task[t]
    IN /\ x.pc # "idle" /\ Event
       /\ task' = [task EXCEPT ![t] = Idle]
       /\ \/ UNCHANGED <<parked, late>>
          \/ t = "consumer" /\ parked' = parked \union {x.n} /\ late' = late \union {x.n}
          \/ t = "job" /\ x.n \in parked /\ x.n < next /\ parked' = parked \ {x.n} /\ UNCHANGED late
       /\ UNCHANGED <<env, next, handled, keys, told, outcomes, suppressed, entered, named, loose>>

\* The evaluator saves a status and publishes its transition.
Legal == {<<"pending", "up">>, <<"pending", "down">>, <<"up", "down">>, <<"down", "up">>,
          <<"up", "nodata">>, <<"nodata", "up">>, <<"nodata", "down">>}

Transition(to) ==
    /\ Event
    /\ LET from == IF mon = "none" THEN "pending" ELSE mon
       IN /\ <<from, to>> \in Legal
          /\ lane' = Append(lane, [from |-> from, to |-> to])
    /\ mon' = to
    /\ UNCHANGED <<now, muted, usable, next, handled, parked, task, keys, history>>

\* The monitor is paused, muted or unmuted, or a channel is detached.
Edit ==
    /\ Event
    /\ \/ mon # "none" /\ mon' = "none" /\ UNCHANGED <<muted, usable>>
       \/ muted' = ~muted /\ UNCHANGED <<mon, usable>>
       \/ \E c \in usable : usable' = usable \ {c} /\ UNCHANGED <<mon, muted>>
    /\ UNCHANGED <<now, lane, next, handled, parked, task, keys, history>>

Tick ==
    /\ now <= MaxTime /\ now' = now + 1
    /\ UNCHANGED <<lane, mon, muted, usable, next, handled, parked, task, keys, events, history>>

Step(t) ==
    \/ _flapping(t) \/ _exit_flapping(t) \/ Handled(t)
    \/ \E r \in Rules : _dispatch(t, r)
    \/ \E c \in Channels : NextChannel(t, c)
    \/ \E id \in task[t].ids : _abandon_down_retries(t, id)
    \/ Missed(t) \/ Stamped(t) \/ Remind(t)
    \/ _attempt(t) \/ _finish(t) \/ _publish_final(t) \/ Unqueue(t)
    \/ Cut(t)

Next ==
    \/ handle \/ \E n \in parked : redrive(n)
    \/ \E t \in Tasks : Step(t)
    \/ \E j \in retry : retry_due(j)
    \/ sweep \/ SweepPuts \/ SweepExits
    \/ \E r \in Rules : Renotify(r)
    \/ Forget \/ SecondEnds
    \/ \E to \in Statuses : Transition(to)
    \/ Edit \/ Tick

Spec == Init /\ [][Next]_vars

----------------------------------------------------------------------------
(* Properties. *)

\* A channel that was told of a recovery is not told of that down any more: the recovery abandons
\* the retries first (notifier/__init__.py:10).  A delivery the other task held when the
\* monitor recovered may escape, and so may a transition handled out of order.
NoDownAfterRecovered ==
    [][ \A d \in told' \ told :
          d.dir = "down" /\ d \notin loose' /\ d.n \notin late
          => ~\E e \in told : e.dir = "recovered" /\ e.chan = d.chan /\ e.n > d.n ]_vars

\* What became of an alert: an outcome is recorded or a retry waits.
Accounted(id) == (\E o \in outcomes : o.id = id) \/ (\E j \in retry : j.id = id)

\* Once a transition is handled, each of its alerts was told, given up on with a record,
\* waits to be retried, or was suppressed by an earlier alert, a mute or flapping: whichever
\* await a task dies at, none is forgotten (docs/flows/alert.md: "the transition and its
\* notifications can't be lost together").
NothingIsForgotten ==
    \A n \in handled \ entered :
        LET dir == direction_of(lane[n])
        IN \A r \in Matching(dir) :
              \/ <<n, r>> \in suppressed
              \/ \A c \in Terms[r].channels \intersect usable :
                    Accounted([n |-> n, mark |-> 0, rule |-> r, chan |-> c, dir |-> dir])

\* A recovery that reaches a channel which missed the down before it says so (alert.md,
\* section 3), unless some transition up to it was parked: a recovery handled late takes
\* what a channel missed for its own (README, section 7).
MissedIsNamed ==
    \A e \in told, o \in outcomes :
        /\ e.dir = "recovered" /\ o.state = "failed" /\ o.id.dir = "down" /\ o.id.mark = 0
        /\ o.id.chan = e.chan /\ o.id.n = e.n - 1
        /\ o.id \notin loose /\ late \intersect (1 .. e.n) = {}
        => <<e.n, e.chan>> \in named
=============================================================================
