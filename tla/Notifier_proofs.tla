---------------------------- MODULE Notifier_proofs ----------------------------
(***************************************************************************)
(* For any rules, channels, ladders, windows and transitions, whichever    *)
(* awaits the two tasks die at and however their steps interleave: no      *)
(* alert of a handled transition is forgotten, a channel that heard of a   *)
(* recovery hears no more of that down, and a recovery names the down its  *)
(* channel missed, both with the exceptions the properties state.          *)
(***************************************************************************)
EXTENDS Notifier, SequenceTheorems, TLAPS

-----------------------------------------------------------------------------
(* The shape of a coroutine. *)

TaskPcs == {"idle", "flap", "exit", "rules", "channels", "abandon", "attempt", "finish",
            "publish", "unqueue", "quiet", "truth", "forget"}
InHand == {"attempt", "finish", "publish", "unqueue"}
Dirs == Directions \union {"flapping", "renotify", "none"}

\* What a coroutine keeps; the window it read may be any.
TaskRec(f) ==
    [pc : TaskPcs, n : Nat, mark : Nat, at : Nat, dir : Dirs, todo : SUBSET Rules,
     rule : Rules \union {None}, chans : SUBSET Channels, chan : Channels \union {None},
     ids : SUBSET Id, sent : BOOLEAN, job : Job \union {None},
     ret : {"idle", "channels", "abandon"}, flap : {f}, over : BOOLEAN]

\* x has a delivery in hand, is telling a rule's channels, and is in the middle of a
\* transition: not of a retry, a reminder or a second alert.
Holds(x) == x.pc \in InHand
Telling(x) == x.pc \in {"channels", "abandon"} \union InHand
Handling(x) == x.n # 0 /\ x.mark = 0 /\ x.pc # "idle"

\* x abandons retries of downs for the recovery it is telling.
Abandons(x) == x.pc = "abandon" \/ (Holds(x) /\ x.ret = "abandon")

\* The alert x is telling a channel.
AlertOf(x) == [n |-> x.n, mark |-> x.mark, rule |-> x.rule, chan |-> x.chan, dir |-> x.dir]

\* A retry comes from retry_due and belongs to no transition.
RetryShape(x) ==
    x.n = 0 =>
        /\ x.pc \in {"idle", "quiet", "truth", "forget"} \union InHand
        /\ x.ret = "idle" /\ x.mark = 0 /\ x.dir = "none"

\* The delivery in hand: tried while it has no outcome, then recorded.
JobShape(x) ==
    /\ Holds(x) => x.job \in Job
    /\ x.pc = "attempt" => x.job.final = "" /\ x.job.attempts <= Ladder /\ x.ret # "abandon"
    /\ x.pc \in {"finish", "publish", "unqueue"} => x.job.final # ""
    /\ x.pc = "finish" => x.job.final = "failed" /\ x.job.id.dir = "down"
    /\ Holds(x) /\ x.ret = "channels" => x.job.id = AlertOf(x)

\* What is told, and what is abandoned first.
TellShape(x) ==
    /\ Telling(x) /\ x.n # 0 => x.rule \in Rules /\ x.dir # "none"
    /\ Holds(x) /\ x.n # 0 => x.ret # "idle"
    /\ (x.pc = "abandon" \/ (Holds(x) /\ x.n # 0)) => x.chan \in Channels
    /\ Abandons(x) =>
         /\ x.dir = "recovered"
         /\ \A id \in x.ids : id.dir = "down" /\ id.chan = x.chan
    /\ Holds(x) /\ x.ret = "abandon" =>
         /\ x.job.queued /\ x.job.final = "failed"
         /\ x.job.id.dir = "down" /\ x.job.id.chan = x.chan

PlainShape(x) ==
    /\ x.pc \in {"rules", "channels", "abandon"} => x.n # 0
    /\ x.pc \in {"flap", "exit"} => x.n # 0 /\ x.mark = 0
    /\ x.pc \in {"quiet", "truth"} => x.at # 0
    /\ x.pc \in {"idle", "quiet", "truth", "forget"} => x.n = 0
    /\ x.dir = "recovered" => x.n # 0 /\ x.mark = 0
    /\ x.dir = "none" => x.todo = {}

Shaped(x) ==
    /\ x \in TaskRec(x.flap)
    /\ RetryShape(x) /\ JobShape(x) /\ TellShape(x) /\ PlainShape(x)

-----------------------------------------------------------------------------
(* Types. *)

Edges == [from : Statuses, to : Statuses]
Reminder == [at : Nat, n : Nat \ {0}]

Typed ==
    /\ now \in Nat \ {0} /\ lane \in Seq(Edges) /\ next \in Nat \ {0}
    /\ task = [t \in Tasks |-> task[t]]
    /\ \A t \in Tasks : Shaped(task[t])
    /\ cool \in [Rules \X {"down", "nodata"} -> Stamp \union {None}]
    /\ renotify \in [Rules -> Reminder \union {None}]
    /\ retry \subseteq Job /\ downfail \subseteq Channels /\ usable \subseteq Channels
    /\ \A j \in retry : j.queued /\ (j.final = "" => j.attempts <= Ladder)
    /\ mon = "down" => Len(lane) # 0

Moves(t, y) == task' = [task EXCEPT ![t] = y]

\* Only one task moves.
LEMMA OneMoves ==
    ASSUME task = [t \in Tasks |-> task[t]], NEW t \in Tasks, NEW y, Moves(t, y)
    PROVE  /\ task' = [u \in Tasks |-> task'[u]]
           /\ task'[t] = y
           /\ \A u \in Tasks \ {t} : task'[u] = task[u]
BY DEF Moves

\* A task that moves into a shape leaves all tasks in shape.
LEMMA MovesShaped ==
    ASSUME Typed, NEW t \in Tasks, NEW y, Moves(t, y), Shaped(y)
    PROVE  /\ task' = [u \in Tasks |-> task'[u]]
           /\ \A u \in Tasks : Shaped(task'[u])
<1>1. task = [u \in Tasks |-> task[u]] /\ \A u \in Tasks : Shaped(task[u])
  BY DEF Typed
<1> QED BY <1>1, OneMoves, Zenon

\* A rule is on directions a transition may have.
LEMMA MatchingTyped ==
    ASSUME NotifierAssumption, NEW dir
    PROVE  Matching(dir) \subseteq Rules /\ (dir \notin Directions => Matching(dir) = {})
BY DEF NotifierAssumption, Matching, rule_matches, Term

\* A transition has one direction or none.
LEMMA DirectionTyped ==
    ASSUME NEW msg
    PROVE  direction_of(msg) \in Directions \union {"none"}
BY DEF direction_of, Directions

\* An idle task is in shape.
LEMMA IdleShaped == Shaped(Idle) /\ Idle.pc = "idle"
BY DEF Shaped, Idle, TaskRec, TaskPcs, InHand, Dirs, RetryShape, JobShape, TellShape,
       PlainShape, Holds, Telling, Abandons, Job

\* The initial state is typed.
LEMMA InitTyped == NotifierAssumption /\ Init => Typed
<1> SUFFICES ASSUME NotifierAssumption, Init PROVE Typed
  OBVIOUS
<1>1. /\ task = [t \in Tasks |-> task[t]]
      /\ \A t \in Tasks : Shaped(task[t])
  BY IdleShaped DEF Init
<1>2. lane \in Seq(Edges)
  BY DEF Init
<1> QED BY <1>1, <1>2 DEF Typed, Init

\* The transitions published are numbered from one.
LEMMA LaneTyped ==
    ASSUME Typed
    PROVE  /\ Len(lane) \in Nat /\ DOMAIN lane = 1 .. Len(lane)
           /\ \A n \in DOMAIN lane : n \in Nat \ {0} /\ lane[n] \in Edges
<1>1. lane \in Seq(Edges)
  BY DEF Typed
<1>2. Len(lane) \in Nat /\ lane \in [1 .. Len(lane) -> Edges]
  BY <1>1, LenProperties
<1> QED BY <1>2

\* A task that is overtaken keeps its shape.
LEMMA OverShaped ==
    ASSUME NEW x, Shaped(x), NEW b \in BOOLEAN
    PROVE  Shaped([x EXCEPT !.over = b])
<1> DEFINE y == [x EXCEPT !.over = b]
<1>1. x \in TaskRec(x.flap)
  BY DEF Shaped
<1>2. y \in TaskRec(y.flap)
  BY <1>1 DEF TaskRec
<1>3. /\ y.pc = x.pc /\ y.n = x.n /\ y.mark = x.mark /\ y.at = x.at /\ y.dir = x.dir
      /\ y.todo = x.todo /\ y.rule = x.rule /\ y.chan = x.chan /\ y.ids = x.ids
      /\ y.job = x.job /\ y.ret = x.ret
  BY <1>1 DEF TaskRec
<1> HIDE DEF y
<1>4. Shaped(y)
  <2>1. RetryShape(y) /\ PlainShape(y)
    BY <1>3 DEF Shaped, RetryShape, PlainShape
  <2>2. JobShape(y)
    BY <1>3 DEF Shaped, JobShape, Holds, AlertOf
  <2>3. TellShape(y)
    BY <1>3 DEF Shaped, TellShape, Holds, Telling, Abandons
  <2> QED BY <1>2, <2>1, <2>2, <2>3 DEF Shaped
<1> QED BY <1>4 DEF y

\* A task that has nothing in hand and abandons nothing.
LEMMA RestsShaped ==
    ASSUME NEW y, y \in TaskRec(y.flap), y.pc \notin InHand \union {"abandon"},
           RetryShape(y), PlainShape(y),
           y.pc = "channels" => y.rule \in Rules /\ y.dir # "none"
    PROVE  Shaped(y)
BY DEF Shaped, InHand, JobShape, TellShape, Holds, Telling, Abandons

-----------------------------------------------------------------------------
(* The steps of a transition keep the types. *)

\* What is left of Typed when a task has moved.
LEMMA TypedRest ==
    ASSUME Typed, NEW t \in Tasks, NEW y, Moves(t, y), Shaped(y),
           now' \in Nat \ {0}, lane' \in Seq(Edges), next' \in Nat \ {0},
           cool' \in [Rules \X {"down", "nodata"} -> Stamp \union {None}],
           renotify' \in [Rules -> Reminder \union {None}],
           retry' \subseteq Job, downfail' \subseteq Channels, usable' \subseteq Channels,
           \A j \in retry' : j.queued /\ (j.final = "" => j.attempts <= Ladder),
           mon' = "down" => Len(lane') # 0
    PROVE  Typed'
BY MovesShaped DEF Typed

\* A transition is taken.
LEMMA TakeTyped ==
    ASSUME NotifierAssumption, Typed, NEW t \in Tasks, task[t].pc = "idle",
           NEW n \in DOMAIN lane, on_transition(t, n),
           UNCHANGED <<env, flap, cool, retry, downfail>>, next' \in Nat \ {0}
    PROVE  Typed'
<1> DEFINE y == [Idle EXCEPT !.pc = "flap", !.n = n, !.at = now, !.dir = direction_of(lane[n]),
                             !.flap = flap]
           recovers == lane[n].from = "down" /\ lane[n].to # "down"
           over(u) == [task[u] EXCEPT !.over = @ \/ (recovers /\ task[u].pc # "idle")]
<1>1. n \in Nat \ {0} /\ now \in Nat
  BY LaneTyped DEF Typed
<1>2. direction_of(lane[n]) \in Directions \union {"none"}
  BY DirectionTyped
<1>3. Shaped(y)
  BY <1>1, <1>2 DEF Shaped, TaskRec, TaskPcs, InHand, Dirs, RetryShape, JobShape,
       TellShape, PlainShape, Holds, Telling, Abandons, Idle
<1>4. ASSUME NEW u \in Tasks PROVE Shaped(over(u))
  <2>1. Shaped(task[u])
    BY DEF Typed
  <2>2. (task[u].over \/ (recovers /\ task[u].pc # "idle")) \in BOOLEAN
    BY Zenon
  <2> HIDE DEF recovers
  <2> QED BY <2>1, <2>2, OverShaped
<1>5. task' = [u \in Tasks |-> IF u = t THEN y ELSE over(u)]
  BY DEF on_transition
<1>6. task' = [u \in Tasks |-> task'[u]] /\ \A u \in Tasks : Shaped(task'[u])
  <2> HIDE DEF y, over
  <2> QED BY <1>3, <1>4, <1>5
<1>7. renotify' \in [Rules -> Reminder \union {None}]
  BY DEF Typed, on_transition
<1> QED BY <1>6, <1>7 DEF Typed, env

\* handle takes the next transition, or passes over it.
LEMMA HandleTyped == NotifierAssumption /\ Typed /\ handle => Typed'
<1> SUFFICES ASSUME NotifierAssumption, Typed, handle PROVE Typed'
  OBVIOUS
<1>0. next \in Nat \ {0}
  BY DEF Typed
<1>1. CASE next \in handled \union parked
  <2>1. next' \in Nat \ {0}
    BY <1>0, <1>1 DEF handle
  <2>2. UNCHANGED <<task, renotify, env, cool, retry, downfail>>
    BY <1>1 DEF handle
  <2> QED BY <2>1, <2>2 DEF Typed, env
<1>2. CASE next \notin handled \union parked
  <2>1. next \in DOMAIN lane /\ next' \in Nat \ {0} /\ task["consumer"].pc = "idle"
    BY <1>0, <1>2, LaneTyped DEF handle
  <2> QED BY <2>1, <1>2, TakeTyped DEF handle, Tasks
<1> QED BY <1>1, <1>2

\* redrive takes a parked one.
LEMMA RedriveTyped ==
    ASSUME NotifierAssumption, Typed, NEW n \in DOMAIN lane, redrive(n) PROVE Typed'
<1>1. next' \in Nat \ {0}
  BY DEF redrive, Typed
<1> QED BY <1>1, TakeTyped DEF redrive, Tasks

\* _flapping keeps the types; the window is not needed.
LEMMA FlappingTyped ==
    ASSUME NotifierAssumption, Typed, NEW t \in Tasks, _flapping(t) PROVE Typed'
<1> DEFINE x == task[t]
           edge == {lane[x.n].from, lane[x.n].to} = {"up", "down"}
           edges == InWindow(IF edge THEN Append(x.flap.edges, x.at) ELSE x.flap.edges, x.at)
           enters == ~x.flap.on /\ Len(edges) >= FlapEdges
           leaves == x.flap.on /\ ~enters /\ Len(edges) <= 1
           quiet == x.flap.on /\ ~leaves
           y == [x EXCEPT !.pc = IF leaves THEN "exit" ELSE "rules", !.flap = None,
                          !.dir = IF enters THEN "flapping" ELSE @,
                          !.todo = IF enters THEN Matching("down")
                                   ELSE IF quiet THEN {} ELSE Matching(x.dir)]
<1>1. Moves(t, y) /\ x.pc = "flap"
  BY DEF _flapping, Moves
<1>2. Shaped(x)
  BY DEF Typed
<1>3. Matching("down") \subseteq Rules /\ Matching(x.dir) \subseteq Rules
      /\ (x.dir = "none" => Matching(x.dir) = {})
  BY MatchingTyped DEF Directions
<1>4. ASSUME x.dir = "recovered" PROVE x.n # 0 /\ x.mark = 0
  BY <1>2, <1>4 DEF Shaped, PlainShape
<1>5. Shaped(y)
  <2> HIDE DEF edges, enters, leaves, quiet
  <2>1. x \in TaskRec(x.flap) /\ x.n # 0 /\ x.mark = 0 /\ PlainShape(x)
    BY <1>1, <1>2 DEF Shaped, PlainShape
  <2>2. y \in TaskRec(None) /\ y.flap = None
    <3>1. (IF leaves THEN "exit" ELSE "rules") \in TaskPcs
      BY DEF TaskPcs
    <3>2. (IF enters THEN "flapping" ELSE x.dir) \in Dirs
      BY <2>1 DEF TaskRec, Dirs
    <3>3. (IF enters THEN Matching("down") ELSE IF quiet THEN {} ELSE Matching(x.dir)) \in SUBSET Rules
      BY <1>3
    <3> QED BY <2>1, <3>1, <3>2, <3>3 DEF TaskRec
  <2>3. /\ y.pc \in {"exit", "rules"} /\ y.n = x.n /\ y.mark = 0
        /\ y.dir \in {x.dir, "flapping"}
        /\ y.dir = "none" => y.todo = {}
    BY <2>1, <1>3 DEF TaskRec
  <2> HIDE DEF y
  <2> QED BY <2>1, <2>2, <2>3, RestsShaped DEF RetryShape, PlainShape, InHand
<1> HIDE DEF y, x
<1> QED BY <1>1, <1>5, TypedRest DEF _flapping, env, Typed

\* The cooldowns are reset on the way out of flapping.
LEMMA ExitTyped ==
    ASSUME NotifierAssumption, Typed, NEW t \in Tasks, _exit_flapping(t) PROVE Typed'
<1> DEFINE x == task[t]
           y == [x EXCEPT !.pc = "rules"]
<1>1. Moves(t, y) /\ x.pc = "exit"
  BY DEF _exit_flapping, Go, Moves
<1>2. Shaped(x)
  BY DEF Typed
<1>3. Shaped(y)
  BY <1>1, <1>2 DEF Shaped, TaskRec, TaskPcs, InHand, Dirs, RetryShape, JobShape,
       TellShape, PlainShape, Holds, Telling, Abandons
<1>4. cool' \in [Rules \X {"down", "nodata"} -> Stamp \union {None}]
  BY DEF _exit_flapping, Reset, Typed
<1> HIDE DEF y, x
<1> QED BY <1>1, <1>3, <1>4, TypedRest DEF _exit_flapping, env, Typed

\* A transition is done with.
LEMMA HandledTyped ==
    ASSUME NotifierAssumption, Typed, NEW t \in Tasks, Handled(t) PROVE Typed'
<1>1. Moves(t, Idle)
  BY DEF Handled, Moves
<1> QED BY <1>1, IdleShaped, TypedRest DEF Handled, env, keys, Typed

-----------------------------------------------------------------------------
(* The steps of a dispatch keep the types. *)

\* What the shape of a task says of its fields, as the lemmas below use it.
LEMMA ShapedFields ==
    ASSUME NEW x, Shaped(x)
    PROVE  /\ x \in TaskRec(x.flap)
           /\ x.ret # "idle" => x.n # 0
           /\ x.pc \in {"rules", "channels", "abandon"} => x.n # 0
           /\ x.pc \in {"channels", "abandon"} => x.rule \in Rules /\ x.dir # "none"
           /\ Holds(x) => x.job \in Job
           /\ Holds(x) /\ x.n # 0 => /\ x.rule \in Rules /\ x.dir # "none"
                                     /\ x.chan \in Channels /\ x.ret # "idle"
BY DEF Shaped, RetryShape, PlainShape, TellShape, JobShape, Telling, Holds, InHand

\* y is still on what x was on.
Same(y, x) ==
    /\ y.n = x.n /\ y.mark = x.mark /\ y.at = x.at /\ y.dir = x.dir /\ y.todo = x.todo
    /\ y.rule = x.rule /\ y.chans = x.chans /\ y.chan = x.chan /\ y.ids = x.ids
    /\ y.ret = x.ret /\ y.over = x.over

\* A delivery is put down: the task goes back to where it took it up.
Put(x) == [x EXCEPT !.pc = x.ret, !.job = None]

\* What is put down stays in shape.
LEMMA PutShaped ==
    ASSUME NEW x, Shaped(x), Holds(x)
    PROVE  Shaped(Put(x)) /\ Same(Put(x), x) /\ Put(x).pc = x.ret
<1> DEFINE y == Put(x)
<1>1. x \in TaskRec(x.flap)
  BY DEF Shaped
<1>3. /\ y \in TaskRec(y.flap) /\ y.pc = x.ret /\ Same(y, x)
  BY <1>1 DEF TaskRec, TaskPcs, Same, Put
<1> HIDE DEF y
<1>4. x.ret \in {"idle", "channels", "abandon"}
  BY <1>1 DEF TaskRec
<1>6. RetryShape(y) /\ PlainShape(y)
  BY <1>1, <1>3, <1>4, ShapedFields DEF Shaped, RetryShape, PlainShape, InHand, Same
<1>7. JobShape(y)
  BY <1>3, <1>4 DEF JobShape, Holds, InHand
<1>8. TellShape(y)
  BY <1>1, <1>3, <1>4, ShapedFields DEF Shaped, TellShape, Holds, Telling, Abandons, InHand, Same
<1>9. Shaped(y)
  BY <1>3, <1>6, <1>7, <1>8 DEF Shaped
<1> QED BY <1>3, <1>9 DEF y

\* Back is such a move.
LEMMA BackMoves ==
    ASSUME Typed, NEW t \in Tasks, Back(t)
    PROVE  Moves(t, Put(task[t]))
BY DEF Back, Moves, Typed, Put

\* A rule is dispatched or suppressed.
LEMMA DispatchTyped ==
    ASSUME NotifierAssumption, Typed, NEW t \in Tasks, NEW r \in Rules, _dispatch(t, r)
    PROVE  Typed'
<1> DEFINE x == task[t]
           y1 == [x EXCEPT !.todo = @ \ {r}]
           y2 == [x EXCEPT !.pc = "channels", !.todo = @ \ {r}, !.rule = r, !.sent = FALSE,
                           !.chans = Terms[r].channels \intersect usable]
<1>1. Shaped(x) /\ x \in TaskRec(x.flap) /\ x.pc = "rules" /\ r \in x.todo
  BY DEF Typed, Shaped, _dispatch
<1>2. Terms[r].channels \intersect usable \subseteq Channels
  BY DEF Typed
<1>3. Moves(t, y1) \/ Moves(t, y2)
  BY DEF _dispatch, Moves, Typed
<1>4. Shaped(y1)
  <2>1. y1 \in TaskRec(y1.flap)
    BY <1>1 DEF TaskRec
  <2>2. y1.pc = "rules" /\ y1.n = x.n /\ y1.mark = x.mark /\ y1.dir = x.dir /\ y1.at = x.at
        /\ y1.todo = x.todo \ {r}
    BY <1>1 DEF TaskRec
  <2> HIDE DEF y1
  <2> QED BY <1>1, <2>1, <2>2, RestsShaped DEF Shaped, RetryShape, PlainShape, InHand
<1>5. Shaped(y2)
  <2>1. y2 \in TaskRec(y2.flap)
    BY <1>1, <1>2 DEF TaskRec, TaskPcs
  <2>2. y2.pc = "channels" /\ y2.n = x.n /\ y2.mark = x.mark /\ y2.dir = x.dir /\ y2.at = x.at
        /\ y2.todo = x.todo \ {r} /\ y2.rule = r
    BY <1>1 DEF TaskRec
  <2> HIDE DEF y2
  <2> QED BY <1>1, <2>1, <2>2, RestsShaped DEF Shaped, RetryShape, PlainShape, InHand
<1> HIDE DEF y1, y2
<1> QED BY <1>3, <1>4, <1>5, TypedRest DEF _dispatch, env, keys, Typed

\* The delivery of an alert that has a direction.
LEMMA FreshTyped ==
    ASSUME NotifierAssumption, NEW x, x \in TaskRec(x.flap), x.dir # "none", x.rule \in Rules,
           NEW c \in Channels, NEW b \in BOOLEAN
    PROVE  /\ Fresh(x, c, b) \in Job
           /\ Fresh(x, c, b).final = "" /\ Fresh(x, c, b).attempts <= Ladder
           /\ Fresh(x, c, b).queued = FALSE
           /\ Fresh(x, c, b).id = [n |-> x.n, mark |-> x.mark, rule |-> x.rule, chan |-> c,
                                   dir |-> x.dir]
<1>1. [n |-> x.n, mark |-> x.mark, rule |-> x.rule, chan |-> c, dir |-> x.dir] \in Id
  BY DEF TaskRec, Dirs, Id
<1>2. Ladder \in Nat
  BY DEF NotifierAssumption
<1> QED BY <1>1, <1>2 DEF Fresh, Job

\* The next channel is told, or its retries looked for.
LEMMA NextChannelTyped ==
    ASSUME NotifierAssumption, Typed, NEW t \in Tasks, NEW c \in Channels, NextChannel(t, c)
    PROVE  Typed'
<1> DEFINE x == task[t]
           ids == {j.id : j \in PendingDowns(c)}
           y1 == [x EXCEPT !.chans = @ \ {c}, !.chan = c, !.sent = TRUE, !.ret = "channels",
                           !.pc = "abandon", !.ids = ids, !.job = None]
           y2 == [x EXCEPT !.chans = @ \ {c}, !.chan = c, !.sent = TRUE, !.ret = "channels",
                           !.pc = "attempt", !.ids = {}, !.job = Fresh(x, c, FALSE)]
<1>1. Shaped(x) /\ x \in TaskRec(x.flap) /\ x.pc = "channels"
  BY DEF Typed, Shaped, NextChannel
<1>2. x.rule \in Rules /\ x.dir # "none" /\ x.n # 0
  BY <1>1, ShapedFields
<1>3. ids \subseteq Id /\ \A id \in ids : id.dir = "down" /\ id.chan = c
  <2> SUFFICES ASSUME NEW id \in ids PROVE id \in Id /\ id.dir = "down" /\ id.chan = c
    OBVIOUS
  <2>1. PICK j \in PendingDowns(c) : id = j.id
    OBVIOUS
  <2>2. j \in Job /\ j.id.dir = "down" /\ j.id.chan = c
    BY DEF Typed, PendingDowns
  <2> QED BY <2>1, <2>2 DEF Job
<1>4. \/ x.dir = "recovered" /\ Moves(t, y1)
      \/ x.dir # "recovered" /\ Moves(t, y2)
  BY DEF NextChannel, Moves, Typed
<1>5. ASSUME x.dir = "recovered" PROVE Shaped(y1)
  <2>1. y1 \in TaskRec(y1.flap)
    BY <1>1, <1>3 DEF TaskRec, TaskPcs
  <2>2. /\ y1.pc = "abandon" /\ y1.n = x.n /\ y1.mark = x.mark /\ y1.dir = x.dir /\ y1.at = x.at
        /\ y1.todo = x.todo /\ y1.rule = x.rule /\ y1.chan = c /\ y1.ids = ids /\ y1.ret = "channels"
    BY <1>1 DEF TaskRec
  <2> HIDE DEF y1, ids
  <2>3. RetryShape(y1) /\ PlainShape(y1) /\ JobShape(y1)
    BY <1>1, <1>2, <1>5, <2>2 DEF Shaped, RetryShape, PlainShape, JobShape, Holds, InHand
  <2>4. TellShape(y1)
    BY <1>2, <1>3, <1>5, <2>2 DEF TellShape, Holds, Telling, Abandons, InHand
  <2> QED BY <2>1, <2>3, <2>4 DEF Shaped
<1>6. ASSUME x.dir # "recovered" PROVE Shaped(y2)
  <2> DEFINE job == Fresh(x, c, FALSE)
  <2>1. /\ job \in Job /\ job.final = "" /\ job.attempts <= Ladder
        /\ job.id = [n |-> x.n, mark |-> x.mark, rule |-> x.rule, chan |-> c, dir |-> x.dir]
    BY <1>1, <1>2, FreshTyped
  <2> HIDE DEF job
  <2>2. y2 \in TaskRec(y2.flap)
    BY <1>1, <2>1 DEF TaskRec, TaskPcs, job
  <2>3. /\ y2.pc = "attempt" /\ y2.n = x.n /\ y2.mark = x.mark /\ y2.dir = x.dir /\ y2.at = x.at
        /\ y2.todo = x.todo /\ y2.rule = x.rule /\ y2.chan = c /\ y2.ret = "channels"
        /\ y2.job = job
    BY <1>1 DEF TaskRec, job
  <2> HIDE DEF y2
  <2>4. RetryShape(y2) /\ PlainShape(y2)
    BY <1>1, <1>2, <1>6, <2>3 DEF Shaped, RetryShape, PlainShape
  <2>5. JobShape(y2)
    <3>1. AlertOf(y2) = job.id
      BY <2>1, <2>3 DEF AlertOf
    <3> QED BY <2>1, <2>3, <3>1 DEF JobShape, Holds, InHand
  <2>6. TellShape(y2)
    BY <1>2, <2>3 DEF TellShape, Holds, Telling, Abandons, InHand
  <2> QED BY <2>2, <2>4, <2>5, <2>6 DEF Shaped
<1> HIDE DEF y1, y2, x
<1> QED BY <1>4, <1>5, <1>6, TypedRest DEF NextChannel, env, keys, Typed

\* The abandonment of one retry.
LEMMA AbandonTyped ==
    ASSUME NotifierAssumption, Typed, NEW t \in Tasks, NEW id, _abandon_down_retries(t, id)
    PROVE  Typed'
<1> DEFINE x == task[t]
           found == {j \in retry : j.id = id /\ j.final = ""}
           k == CHOOSE j \in found : TRUE
           y1 == [x EXCEPT !.ids = @ \ {id}]
           y2 == [x EXCEPT !.ids = @ \ {id}, !.pc = "finish", !.ret = "abandon",
                           !.job = [k EXCEPT !.final = "failed"]]
<1>1. Shaped(x) /\ x \in TaskRec(x.flap) /\ x.pc = "abandon" /\ id \in x.ids
  BY DEF Typed, Shaped, _abandon_down_retries
<1>2. /\ x.rule \in Rules /\ x.dir = "recovered" /\ x.n # 0 /\ x.chan \in Channels
      /\ \A i \in x.ids : i.dir = "down" /\ i.chan = x.chan
  BY <1>1, ShapedFields DEF Shaped, TellShape, Abandons
<1>3. \/ found = {} /\ Moves(t, y1)
      \/ found # {} /\ Moves(t, y2)
  BY DEF _abandon_down_retries, Moves, Typed
<1>4. Shaped(y1)
  <2>1. y1 \in TaskRec(y1.flap)
    BY <1>1 DEF TaskRec
  <2>2. /\ y1.pc = "abandon" /\ y1.n = x.n /\ y1.mark = x.mark /\ y1.dir = x.dir /\ y1.at = x.at
        /\ y1.todo = x.todo /\ y1.rule = x.rule /\ y1.chan = x.chan /\ y1.ids = x.ids \ {id}
    BY <1>1 DEF TaskRec
  <2> HIDE DEF y1
  <2>3. RetryShape(y1) /\ PlainShape(y1) /\ JobShape(y1)
    BY <1>1, <1>2, <2>2 DEF Shaped, RetryShape, PlainShape, JobShape, Holds, InHand
  <2>4. TellShape(y1)
    BY <1>2, <2>2 DEF TellShape, Holds, Telling, Abandons, InHand
  <2> QED BY <2>1, <2>3, <2>4 DEF Shaped
<1>5. ASSUME found # {} PROVE Shaped(y2)
  <2>1. k \in retry /\ k.id = id /\ k.final = "" /\ k \in Job /\ k.queued
    <3>1. k \in found
      BY <1>5
    <3> HIDE DEF k
    <3> QED BY <3>1 DEF Typed
  <2> HIDE DEF k, found
  <2> DEFINE job == [k EXCEPT !.final = "failed"]
  <2>2. job \in Job /\ job.id = id /\ job.final = "failed" /\ job.queued
    BY <2>1 DEF Job
  <2> HIDE DEF job
  <2>3. y2 \in TaskRec(y2.flap)
    BY <1>1, <2>2 DEF TaskRec, TaskPcs, job
  <2>4. /\ y2.pc = "finish" /\ y2.n = x.n /\ y2.mark = x.mark /\ y2.dir = x.dir /\ y2.at = x.at
        /\ y2.todo = x.todo /\ y2.rule = x.rule /\ y2.chan = x.chan /\ y2.ids = x.ids \ {id}
        /\ y2.ret = "abandon" /\ y2.job = job
    BY <1>1 DEF TaskRec, job
  <2> HIDE DEF y2
  <2>5. RetryShape(y2) /\ PlainShape(y2)
    BY <1>1, <1>2, <2>4 DEF Shaped, RetryShape, PlainShape
  <2>6. JobShape(y2) /\ TellShape(y2)
    BY <1>1, <1>2, <2>2, <2>4 DEF JobShape, TellShape, Holds, Telling, Abandons, InHand
  <2> QED BY <2>3, <2>5, <2>6 DEF Shaped
<1> HIDE DEF y1, y2, x, found
<1> QED BY <1>3, <1>4, <1>5, TypedRest DEF _abandon_down_retries, env, keys, Typed

\* The recovery is told next.
LEMMA MissedTyped ==
    ASSUME NotifierAssumption, Typed, NEW t \in Tasks, Missed(t)
    PROVE  Typed'
<1> DEFINE x == task[t]
           job == Fresh(x, x.chan, x.chan \in downfail)
           y == [x EXCEPT !.pc = "attempt", !.ret = "channels", !.job = job]
<1>1. Shaped(x) /\ x \in TaskRec(x.flap) /\ x.pc = "abandon" /\ x.ids = {}
  BY DEF Typed, Shaped, Missed
<1>2. /\ x.rule \in Rules /\ x.dir = "recovered" /\ x.n # 0 /\ x.chan \in Channels
  BY <1>1, ShapedFields DEF Shaped, TellShape, Abandons
<1>3. Moves(t, y)
  BY DEF Missed, Moves, Typed
<1>4. Shaped(y)
  <2>1. /\ job \in Job /\ job.final = "" /\ job.attempts <= Ladder
        /\ job.id = [n |-> x.n, mark |-> x.mark, rule |-> x.rule, chan |-> x.chan, dir |-> x.dir]
    <3> DEFINE b == x.chan \in downfail
    <3>1. b \in BOOLEAN /\ x.dir # "none"
      BY <1>2
    <3> HIDE DEF b, x
    <3>2. job = Fresh(x, x.chan, b)
      BY DEF b
    <3>3. /\ Fresh(x, x.chan, b) \in Job /\ Fresh(x, x.chan, b).final = ""
          /\ Fresh(x, x.chan, b).attempts <= Ladder
          /\ Fresh(x, x.chan, b).id = [n |-> x.n, mark |-> x.mark, rule |-> x.rule,
                                       chan |-> x.chan, dir |-> x.dir]
      BY <1>1, <1>2, <3>1, FreshTyped, ZenonT(40)
    <3> HIDE DEF job
    <3> QED BY <3>2, <3>3
  <2> HIDE DEF job
  <2>2. y \in TaskRec(y.flap)
    BY <1>1, <2>1 DEF TaskRec, TaskPcs
  <2>3. /\ y.pc = "attempt" /\ y.n = x.n /\ y.mark = x.mark /\ y.dir = x.dir /\ y.at = x.at
        /\ y.todo = x.todo /\ y.rule = x.rule /\ y.chan = x.chan /\ y.ret = "channels"
        /\ y.job = job
    BY <1>1 DEF TaskRec
  <2> HIDE DEF y
  <2>4. RetryShape(y) /\ PlainShape(y)
    BY <1>1, <1>2, <2>3 DEF Shaped, RetryShape, PlainShape
  <2>5. JobShape(y)
    <3>1. AlertOf(y) = job.id
      BY <2>1, <2>3 DEF AlertOf
    <3> QED BY <2>1, <2>3, <3>1 DEF JobShape, Holds, InHand
  <2>6. TellShape(y)
    BY <1>2, <2>3 DEF TellShape, Holds, Telling, Abandons, InHand
  <2> QED BY <2>2, <2>4, <2>5, <2>6 DEF Shaped
<1> HIDE DEF y
<1>5. downfail' \subseteq Channels
  BY DEF Missed, Typed
<1> QED BY <1>3, <1>4, <1>5, TypedRest DEF Missed, env, Typed

\* The cooldown is stamped.
LEMMA StampedTyped ==
    ASSUME NotifierAssumption, Typed, NEW t \in Tasks, Stamped(t)
    PROVE  Typed'
<1> DEFINE x == task[t]
           y == [x EXCEPT !.sent = FALSE]
           stamp == [at |-> x.at, n |-> IF x.mark = 0 THEN x.n ELSE 0]
<1>1. Shaped(x) /\ x \in TaskRec(x.flap) /\ x.pc = "channels" /\ Stamps(x)
  BY DEF Typed, Shaped, Stamped
<1>2. Moves(t, y) /\ cool' = [cool EXCEPT ![<<x.rule, x.dir>>] = stamp]
  BY DEF Stamped, Moves, Typed
<1>3. stamp \in Stamp
  BY <1>1 DEF TaskRec, Stamp
<1>4. cool' \in [Rules \X {"down", "nodata"} -> Stamp \union {None}]
  BY <1>2, <1>3 DEF Typed
<1>5. Shaped(y)
  <2>1. y \in TaskRec(y.flap)
    BY <1>1 DEF TaskRec
  <2>2. y.pc = "channels" /\ y.n = x.n /\ y.mark = x.mark /\ y.dir = x.dir /\ y.at = x.at
        /\ y.todo = x.todo /\ y.rule = x.rule
    BY <1>1 DEF TaskRec
  <2> HIDE DEF y
  <2> QED BY <1>1, <2>1, <2>2, RestsShaped, ShapedFields DEF Shaped, RetryShape, PlainShape, InHand
<1> HIDE DEF y
<1> QED BY <1>2, <1>4, <1>5, TypedRest DEF Stamped, env, Typed

\* The reminder is stored or deleted.
LEMMA RemindTyped ==
    ASSUME NotifierAssumption, Typed, NEW t \in Tasks, Remind(t)
    PROVE  Typed'
<1> DEFINE x == task[t]
           y == [x EXCEPT !.pc = "rules", !.chan = None, !.sent = FALSE, !.ret = "idle"]
           stamp == [at |-> x.at, n |-> x.n]
<1>1. Shaped(x) /\ x \in TaskRec(x.flap) /\ x.pc = "channels"
  BY DEF Typed, Shaped, Remind
<1>2. x.n # 0
  BY <1>1, ShapedFields
<1>3. Moves(t, y)
  BY DEF Remind, Moves, Typed
<1>4. stamp \in Reminder
  BY <1>1, <1>2 DEF TaskRec, Reminder
<1>5. renotify' \in [Rules -> Reminder \union {None}]
  <2>1. renotify' \in {[renotify EXCEPT ![x.rule] = stamp], [renotify EXCEPT ![x.rule] = None], renotify}
    BY DEF Remind, Typed
  <2> HIDE DEF stamp, x
  <2> QED BY <2>1, <1>4 DEF Typed
<1>6. Shaped(y)
  <2>1. y \in TaskRec(y.flap)
    BY <1>1 DEF TaskRec, TaskPcs
  <2>2. y.pc = "rules" /\ y.n = x.n /\ y.mark = x.mark /\ y.dir = x.dir /\ y.at = x.at
        /\ y.todo = x.todo
    BY <1>1 DEF TaskRec
  <2> HIDE DEF y
  <2> QED BY <1>1, <1>2, <2>1, <2>2, RestsShaped DEF Shaped, RetryShape, PlainShape, InHand
<1> HIDE DEF y
<1> QED BY <1>3, <1>5, <1>6, TypedRest DEF Remind, env, Typed

-----------------------------------------------------------------------------
(* The steps of a delivery keep the types. *)

\* What waits in retry: stays typed when a delivery is queued or taken out.
LEMMA RetryTyped ==
    ASSUME Typed
    PROVE  /\ \A id : Unqueued(id) \subseteq Job
           /\ \A id : \A j \in Unqueued(id) : j.queued /\ (j.final = "" => j.attempts <= Ladder)
           /\ \A job \in Job : (job.final = "" => job.attempts <= Ladder) =>
                /\ Queued(job) \subseteq Job
                /\ \A j \in Queued(job) : j.queued /\ (j.final = "" => j.attempts <= Ladder)
<1>1. ASSUME NEW id
      PROVE  /\ Unqueued(id) \subseteq Job
             /\ \A j \in Unqueued(id) : j.queued /\ (j.final = "" => j.attempts <= Ladder)
  BY DEF Typed, Unqueued
<1>2. ASSUME NEW job \in Job, job.final = "" => job.attempts <= Ladder
      PROVE  /\ Queued(job) \subseteq Job
             /\ \A j \in Queued(job) : j.queued /\ (j.final = "" => j.attempts <= Ladder)
  <2> DEFINE k == [job EXCEPT !.queued = TRUE]
  <2>1. k \in Job /\ k.queued /\ k.final = job.final /\ k.attempts = job.attempts
    BY DEF Job
  <2>2. Queued(job) = Unqueued(job.id) \union {k}
    BY DEF Queued
  <2> HIDE DEF k
  <2> QED BY <1>1, <1>2, <2>1, <2>2
<1> QED BY <1>1, <1>2

\* One more attempt fits the ladder.
LEMMA OneMore ==
    ASSUME Ladder \in Nat, NEW k \in 0 .. Ladder + 1, k <= Ladder
    PROVE  k + 1 \in 0 .. Ladder + 1
OBVIOUS

\* The delivery in hand as an attempt leaves it: counted once more, and with an outcome.
Tried(job, final) == [[job EXCEPT !.attempts = @ + 1] EXCEPT !.final = final]

\* It stays the delivery of the same alert.
LEMMA TriedTyped ==
    ASSUME NotifierAssumption, NEW j \in Job, j.attempts <= Ladder,
           NEW final \in {"", "delivered", "failed"}
    PROVE  /\ [j EXCEPT !.attempts = @ + 1] \in Job
           /\ [j EXCEPT !.attempts = @ + 1].id = j.id
           /\ [j EXCEPT !.attempts = @ + 1].final = j.final
           /\ [j EXCEPT !.attempts = @ + 1].queued = j.queued
           /\ Tried(j, final) \in Job
           /\ Tried(j, final).id = j.id
           /\ Tried(j, final).final = final
           /\ Tried(j, final).queued = j.queued
<1>1. Ladder \in Nat
  BY DEF NotifierAssumption
<1>2. j.attempts \in 0 .. Ladder + 1
  BY DEF Job
<1>3. j.attempts + 1 \in 0 .. Ladder + 1
  BY <1>1, <1>2, OneMore
<1> QED BY <1>3 DEF Job, Tried

\* A delivery that an attempt ends is recorded next, or first found missed.
Ended(x, final) ==
    [x EXCEPT !.job = Tried(x.job, final),
              !.pc = IF final = "failed" /\ x.job.id.dir = "down" THEN "finish" ELSE "publish"]

\* How an attempt may end: the channel is gone, the alert is told, the delivery is kept to
\* be tried again, or it is given up on.
LEMMA AttemptEnds ==
    ASSUME NotifierAssumption, Typed, NEW t \in Tasks, _attempt(t)
    PROVE  LET x == task[t]
               job == [x.job EXCEPT !.attempts = @ + 1]
           IN /\ x.pc = "attempt"
              /\ \/ /\ x.job.id.chan \notin usable
                    /\ retry' = Unqueued(x.job.id) /\ Moves(t, Put(task[t])) /\ UNCHANGED <<told, loose>>
                 \/ /\ told' = (IF x.job.id.dir \in {"down", "recovered"}
                                THEN told \union {x.job.id} ELSE told)
                    /\ Moves(t, Ended(task[t], "delivered")) /\ UNCHANGED retry /\ Loosen(x)
                 \/ /\ job.attempts <= Ladder /\ retry' = Queued(job) /\ Moves(t, Put(task[t]))
                    /\ UNCHANGED told /\ Loosen(x)
                 \/ Moves(t, Ended(task[t], "failed")) /\ UNCHANGED <<retry, told>> /\ Loosen(x)
<1> DEFINE x == task[t]
           job == [x.job EXCEPT !.attempts = @ + 1]
<1>1. x.pc = "attempt" /\ x.job \in Job /\ x.job.attempts <= Ladder /\ x \in TaskRec(x.flap)
      /\ task = [u \in Tasks |-> task[u]]
  BY DEF _attempt, Typed, Shaped, JobShape, Holds, InHand
<1>2. job.id = x.job.id
  BY <1>1, TriedTyped
<1>3. Back(t) => Moves(t, Put(task[t]))
  BY BackMoves
<1>4. ASSUME NEW final \in {"delivered", "failed"},
             task' = [task EXCEPT ![t].job = [job EXCEPT !.final = final],
                                  ![t].pc = IF final = "failed" /\ job.id.dir = "down"
                                            THEN "finish" ELSE "publish"]
      PROVE  Moves(t, Ended(task[t], final))
  <2> DEFINE pc == IF final = "failed" /\ x.job.id.dir = "down" THEN "finish" ELSE "publish"
             k == [job EXCEPT !.final = final]
  <2>1. task' = [task EXCEPT ![t] = [x EXCEPT !.job = k, !.pc = pc]]
    <3> HIDE DEF k, x
    <3>1. task' = [task EXCEPT ![t].job = k, ![t].pc = pc]
      BY <1>2, <1>4 DEF k
    <3> QED BY <1>1, <3>1 DEF x
  <2>2. [x EXCEPT !.job = k, !.pc = pc] = Ended(x, final)
    BY Zenon DEF Ended, Tried
  <2> HIDE DEF k, pc, x
  <2> QED BY <2>1, <2>2 DEF Moves, x
<1> QED BY <1>1, <1>2, <1>3, <1>4 DEF _attempt

\* A delivery that an attempt ends with an outcome is recorded next, or found missed.
LEMMA EndedShaped ==
    ASSUME NotifierAssumption, NEW x, Shaped(x), x.pc = "attempt",
           NEW final \in {"delivered", "failed"}
    PROVE  /\ Shaped(Ended(x, final)) /\ Same(Ended(x, final), x)
           /\ Ended(x, final).job = Tried(x.job, final)
           /\ Ended(x, final).pc = IF final = "failed" /\ x.job.id.dir = "down"
                                   THEN "finish" ELSE "publish"
<1> DEFINE y == Ended(x, final)
           job == Tried(x.job, final)
<1>1. x \in TaskRec(x.flap) /\ Holds(x) /\ x.ret # "abandon"
      /\ x.job \in Job /\ x.job.attempts <= Ladder
  BY DEF Shaped, JobShape, Holds, InHand
<1>2. job \in Job /\ job.id = x.job.id /\ job.final = final
  <2> DEFINE k == x.job
  <2>1. k \in Job /\ k.attempts <= Ladder /\ final \in {"", "delivered", "failed"}
    BY <1>1
  <2> HIDE DEF k
  <2>2. Tried(k, final) \in Job /\ Tried(k, final).id = k.id /\ Tried(k, final).final = final
    BY <2>1, TriedTyped
  <2> QED BY <2>2 DEF k
<1> HIDE DEF job
<1>3. /\ y \in TaskRec(y.flap) /\ Same(y, x) /\ y.job = job
      /\ y.pc = IF final = "failed" /\ x.job.id.dir = "down" THEN "finish" ELSE "publish"
  BY <1>1, <1>2 DEF TaskRec, TaskPcs, Same, Ended, job
<1> HIDE DEF y
<1>4. RetryShape(y) /\ PlainShape(y)
  BY <1>1, <1>3 DEF Shaped, RetryShape, PlainShape, InHand, Same
<1>5. JobShape(y)
  BY <1>1, <1>2, <1>3 DEF Shaped, JobShape, Holds, InHand, Same, AlertOf
<1>6. TellShape(y)
  BY <1>1, <1>2, <1>3, ShapedFields DEF Shaped, TellShape, Holds, Telling, Abandons, InHand, Same
<1>7. Shaped(y)
  BY <1>3, <1>4, <1>5, <1>6 DEF Shaped
<1> QED BY <1>3, <1>7 DEF y, job

\* _attempt keeps the types.
LEMMA AttemptTyped ==
    ASSUME NotifierAssumption, Typed, NEW t \in Tasks, _attempt(t)
    PROVE  Typed'
<1> DEFINE x == task[t]
           job == [x.job EXCEPT !.attempts = @ + 1]
<1>1. Shaped(x) /\ Holds(x) /\ x.pc = "attempt" /\ x.job \in Job /\ x.job.attempts <= Ladder
      /\ x.job.final = ""
  BY AttemptEnds DEF Typed, Shaped, JobShape, Holds, InHand
<1>2. UNCHANGED <<env, next, cool, renotify, downfail>>
  BY DEF _attempt
<1>3. job \in Job /\ job.final = ""
  BY <1>1, TriedTyped
<1>4. /\ retry' \subseteq Job
      /\ \A j \in retry' : j.queued /\ (j.final = "" => j.attempts <= Ladder)
  <2>1. \/ retry' = Unqueued(x.job.id)
        \/ retry' = retry
        \/ job.attempts <= Ladder /\ retry' = Queued(job)
    BY AttemptEnds
  <2> HIDE DEF job, x
  <2>2. CASE retry' = Unqueued(x.job.id)
    BY <2>2, RetryTyped
  <2>3. CASE retry' = retry
    BY <2>3 DEF Typed
  <2>4. CASE job.attempts <= Ladder /\ retry' = Queued(job)
    BY <2>4, <1>3, RetryTyped
  <2> QED BY <2>1, <2>2, <2>3, <2>4
<1>5. \/ Moves(t, Put(x))
      \/ \E final \in {"delivered", "failed"} : Moves(t, Ended(x, final))
  BY AttemptEnds
<1>6. Shaped(Put(x)) /\ \A final \in {"delivered", "failed"} : Shaped(Ended(x, final))
  BY <1>1, PutShaped, EndedShaped
<1>7. PICK y : Moves(t, y) /\ Shaped(y)
  BY <1>5, <1>6
<1> QED BY <1>2, <1>4, <1>7, TypedRest DEF env, Typed

\* A task that only goes on to another await.
LEMMA GoMoves ==
    ASSUME Typed, NEW t \in Tasks, NEW pc, Go(t, pc)
    PROVE  Moves(t, [task[t] EXCEPT !.pc = pc])
BY DEF Go, Moves, Typed

\* The delivery in hand is recorded next, or taken out of retry: next.
LEMMA OnShaped ==
    ASSUME NEW x, Shaped(x), x.pc \in {"finish", "publish"}, NEW pc \in {"publish", "unqueue"},
           NEW y, y = [x EXCEPT !.pc = pc]
    PROVE  Shaped(y) /\ Same(y, x) /\ y.pc = pc /\ y.job = x.job
<1>1. x \in TaskRec(x.flap)
  BY DEF Shaped
<1>2. y \in TaskRec(y.flap) /\ Same(y, x) /\ y.pc = pc /\ y.job = x.job
  BY <1>1 DEF TaskRec, TaskPcs, Same
<1>3. RetryShape(y) /\ PlainShape(y)
  BY <1>2 DEF Shaped, RetryShape, PlainShape, InHand, Same
<1>4. JobShape(y)
  BY <1>2 DEF Shaped, JobShape, Holds, InHand, Same, AlertOf
<1>5. TellShape(y)
  BY <1>2 DEF Shaped, TellShape, Holds, Telling, Abandons, InHand, Same
<1> QED BY <1>2, <1>3, <1>4, <1>5 DEF Shaped

\* _finish keeps the types.
LEMMA FinishTyped ==
    ASSUME NotifierAssumption, Typed, NEW t \in Tasks, _finish(t)
    PROVE  Typed'
<1> DEFINE x == task[t]
           y == [x EXCEPT !.pc = "publish"]
<1>1. Shaped(x) /\ x.pc = "finish" /\ Holds(x) /\ x.job \in Job
  BY DEF _finish, Typed, Shaped, JobShape, Holds, InHand
<1>2. Moves(t, y)
  BY GoMoves DEF _finish
<1>3. Shaped(y)
  BY <1>1, OnShaped
<1>4. downfail' \subseteq Channels
  BY <1>1 DEF _finish, Misses, Typed, Job, Id
<1> HIDE DEF y
<1> QED BY <1>2, <1>3, <1>4, TypedRest DEF _finish, env, Typed

\* _publish_final keeps the types.
LEMMA PublishTyped ==
    ASSUME NotifierAssumption, Typed, NEW t \in Tasks, _publish_final(t)
    PROVE  Typed'
<1> DEFINE x == task[t]
           y == [x EXCEPT !.pc = "unqueue"]
<1>1. Shaped(x) /\ x.pc = "publish" /\ Holds(x) /\ x.job \in Job /\ x.job.final # ""
  BY DEF _publish_final, Typed, Shaped, JobShape, Holds, InHand
<1>2. \/ Moves(t, y)
      \/ Moves(t, Put(x))
  BY GoMoves, BackMoves DEF _publish_final
<1>3. Shaped(y) /\ Shaped(Put(x))
  BY <1>1, OnShaped, PutShaped
<1>4. retry' \in {retry, Queued(x.job)} /\ UNCHANGED <<env, next, cool, renotify, downfail>>
  BY DEF _publish_final
<1> HIDE DEF x, y
<1>5. /\ retry' \subseteq Job
      /\ \A j \in retry' : j.queued /\ (j.final = "" => j.attempts <= Ladder)
  BY <1>1, <1>4, RetryTyped DEF Typed
<1>6. PICK z : Moves(t, z) /\ Shaped(z)
  BY <1>2, <1>3
<1> QED BY <1>4, <1>5, <1>6, TypedRest DEF env, Typed

\* A retry is taken out.
LEMMA UnqueueTyped ==
    ASSUME NotifierAssumption, Typed, NEW t \in Tasks, Unqueue(t)
    PROVE  Typed'
<1> DEFINE x == task[t]
<1>1. Shaped(x) /\ Holds(x) /\ Moves(t, Put(x)) /\ retry' = Unqueued(x.job.id)
      /\ UNCHANGED <<env, next, cool, renotify, downfail>>
  BY BackMoves DEF Unqueue, Typed, Shaped, JobShape, Holds, InHand
<1>2. Shaped(Put(x))
  BY <1>1, PutShaped
<1> HIDE DEF x
<1>5. /\ retry' \subseteq Job
      /\ \A j \in retry' : j.queued /\ (j.final = "" => j.attempts <= Ladder)
  BY <1>1, RetryTyped
<1> QED BY <1>1, <1>2, <1>5, TypedRest DEF env, Typed

\* A task is cut off.
LEMMA CutTyped ==
    ASSUME NotifierAssumption, Typed, NEW t \in Tasks, Cut(t)
    PROVE  Typed'
<1>1. Moves(t, Idle)
  BY DEF Cut, Moves
<1> QED BY <1>1, IdleShaped, TypedRest DEF Cut, env, keys, Typed

-----------------------------------------------------------------------------
(* The job's own steps, and the environment's, keep the types. *)

\* A task that has nothing of a transition: a retry, the sweep's quiet monitor, a reminder
\* to forget.
LEMMA StartShaped ==
    ASSUME NEW y, y \in TaskRec(y.flap), y.n = 0, y.mark = 0, y.dir = "none", y.todo = {},
           y.ret = "idle", y.pc \in {"quiet", "truth", "forget", "attempt", "publish"},
           y.pc \in {"quiet", "truth"} => y.at # 0,
           Holds(y) => y.job \in Job,
           y.pc = "attempt" => y.job.final = "" /\ y.job.attempts <= Ladder,
           y.pc = "publish" => y.job.final # ""
    PROVE  Shaped(y)
BY DEF Shaped, RetryShape, JobShape, TellShape, PlainShape, Holds, InHand, Telling, Abandons

\* A retry is read.
LEMMA RetryDueTyped ==
    ASSUME NotifierAssumption, Typed, NEW j \in retry, retry_due(j)
    PROVE  Typed'
<1> DEFINE over == task["consumer"].dir = "recovered"
           y == [Idle EXCEPT !.job = j, !.pc = IF j.final = "" THEN "attempt" ELSE "publish",
                             !.over = over]
<1>1. j \in Job /\ (j.final = "" => j.attempts <= Ladder) /\ "job" \in Tasks
  BY DEF Typed, Tasks
<1>2. over \in BOOLEAN
  BY Zenon
<1>3. Moves("job", y)
  BY DEF retry_due, Moves
<1> HIDE DEF over
<1>4. Shaped(y)
  <2>1. /\ y \in TaskRec(y.flap) /\ y.n = 0 /\ y.mark = 0 /\ y.dir = "none" /\ y.todo = {}
        /\ y.ret = "idle" /\ y.job = j /\ y.pc = IF j.final = "" THEN "attempt" ELSE "publish"
    BY <1>1, <1>2 DEF Idle, TaskRec, TaskPcs, Dirs
  <2> HIDE DEF y
  <2> QED BY <1>1, <2>1, StartShaped
<1> HIDE DEF y
<1> QED BY <1>1, <1>3, <1>4, TypedRest DEF retry_due, env, keys, Typed

\* The window of a quiet monitor is read.
LEMMA SweepTyped ==
    ASSUME NotifierAssumption, Typed, sweep
    PROVE  Typed'
<1> DEFINE y == [Idle EXCEPT !.pc = "quiet", !.at = now, !.flap = flap]
<1>1. now \in Nat \ {0} /\ "job" \in Tasks
  BY DEF Typed, Tasks
<1>3. Moves("job", y)
  BY DEF sweep, Moves
<1>4. Shaped(y)
  <2>1. /\ y \in TaskRec(y.flap) /\ y.n = 0 /\ y.mark = 0 /\ y.dir = "none" /\ y.todo = {}
        /\ y.ret = "idle" /\ y.at = now /\ y.pc = "quiet"
    BY <1>1 DEF Idle, TaskRec, TaskPcs, Dirs
  <2> HIDE DEF y
  <2> QED BY <1>1, <2>1, StartShaped DEF Holds, InHand
<1> HIDE DEF y
<1> QED BY <1>1, <1>3, <1>4, TypedRest DEF sweep, env, keys, Typed

\* The window is put back.
LEMMA SweepPutsTyped ==
    ASSUME NotifierAssumption, Typed, SweepPuts
    PROVE  Typed'
<1> DEFINE x == task["job"]
           y == [x EXCEPT !.pc = "truth", !.flap = None]
<1>1. Shaped(x) /\ x \in TaskRec(x.flap) /\ x.pc = "quiet" /\ "job" \in Tasks
  BY DEF Typed, Tasks, Shaped, SweepPuts
<1>2. Moves("job", y)
  BY DEF SweepPuts, Moves, Typed
<1>3. Shaped(y)
  <2>1. y \in TaskRec(y.flap) /\ Same(y, x) /\ y.pc = "truth"
    BY <1>1 DEF TaskRec, TaskPcs, Same
  <2> HIDE DEF y
  <2> QED BY <1>1, <2>1, RestsShaped DEF Shaped, RetryShape, PlainShape, InHand, Same
<1> HIDE DEF y
<1> QED BY <1>1, <1>2, <1>3, TypedRest DEF SweepPuts, env, Typed

\* Flapping ends: the monitor alerts again if it is still down.
LEMMA SweepExitsTyped ==
    ASSUME NotifierAssumption, Typed, SweepExits
    PROVE  Typed'
<1> DEFINE x == task["job"]
           y == [x EXCEPT !.pc = "rules", !.n = Len(lane), !.mark = x.at, !.dir = "down",
                          !.todo = Matching("down")]
<1>1. Shaped(x) /\ x \in TaskRec(x.flap) /\ x.pc = "truth" /\ x.at # 0 /\ "job" \in Tasks
  BY DEF Typed, Tasks, Shaped, PlainShape, SweepExits
<1>2. cool' \in [Rules \X {"down", "nodata"} -> Stamp \union {None}]
  BY DEF SweepExits, Reset, Typed
<1>3. Matching("down") \subseteq Rules /\ Len(lane) \in Nat
  BY MatchingTyped, LaneTyped
<1>4. Moves("job", Idle) \/ (mon = "down" /\ Moves("job", y))
  BY DEF SweepExits, Moves, Typed
<1>5. ASSUME mon = "down" PROVE Shaped(y)
  <2>0. Len(lane) # 0
    BY <1>5 DEF Typed
  <2>1. y \in TaskRec(y.flap) /\ y.pc = "rules" /\ y.n # 0 /\ y.dir = "down"
    BY <1>1, <1>3, <2>0 DEF TaskRec, TaskPcs, Dirs, Directions
  <2> HIDE DEF y
  <2> QED BY <2>1, RestsShaped DEF RetryShape, PlainShape, InHand
<1> HIDE DEF y
<1> QED BY <1>1, <1>2, <1>4, <1>5, IdleShaped, TypedRest DEF SweepExits, env, Typed

\* A reminder is due, or to be forgotten.
LEMMA RenotifyTyped ==
    ASSUME NotifierAssumption, Typed, NEW r \in Rules, Renotify(r)
    PROVE  Typed'
<1> DEFINE stamp == renotify[r]
           y1 == [Idle EXCEPT !.pc = "forget", !.rule = r]
           y2 == [Idle EXCEPT !.pc = "rules", !.n = stamp.n, !.mark = now, !.at = now,
                              !.dir = "renotify", !.todo = {r}, !.rule = r]
<1>1. stamp \in Reminder /\ now \in Nat \ {0} /\ "job" \in Tasks
  BY DEF Typed, Renotify, Tasks
<1>2. Moves("job", y1) \/ Moves("job", y2)
  BY DEF Renotify, Moves
<1>3. Shaped(y1)
  <2>1. /\ y1 \in TaskRec(y1.flap) /\ y1.n = 0 /\ y1.mark = 0 /\ y1.dir = "none" /\ y1.todo = {}
        /\ y1.ret = "idle" /\ y1.pc = "forget"
    BY DEF Idle, TaskRec, TaskPcs, Dirs
  <2> HIDE DEF y1
  <2> QED BY <2>1, StartShaped DEF Holds, InHand
<1>4. Shaped(y2)
  <2>1. stamp.n \in Nat /\ stamp.n # 0
    BY <1>1 DEF Reminder
  <2> HIDE DEF stamp
  <2>2. /\ y2 \in TaskRec(y2.flap) /\ y2.n # 0 /\ y2.dir = "renotify" /\ y2.pc = "rules"
    BY <1>1, <2>1 DEF Idle, TaskRec, TaskPcs, Dirs
  <2> HIDE DEF y2
  <2> QED BY <2>2, RestsShaped DEF RetryShape, PlainShape, InHand
<1> HIDE DEF y1, y2
<1> QED BY <1>1, <1>2, <1>3, <1>4, TypedRest DEF Renotify, env, keys, Typed

\* A reminder is forgotten.
LEMMA ForgetTyped ==
    ASSUME NotifierAssumption, Typed, Forget
    PROVE  Typed'
<1>1. Moves("job", Idle) /\ "job" \in Tasks
  BY DEF Forget, Moves, Tasks
<1>2. renotify' \in [Rules -> Reminder \union {None}]
  BY DEF Forget, Typed
<1> QED BY <1>1, <1>2, IdleShaped, TypedRest DEF Forget, env, Typed

\* A reminder or a second alert ends.
LEMMA SecondEndsTyped ==
    ASSUME NotifierAssumption, Typed, SecondEnds
    PROVE  Typed'
<1> DEFINE x == task["job"]
           stamp == [at |-> x.at, n |-> x.n]
<1>1. Moves("job", Idle) /\ "job" \in Tasks
  BY DEF SecondEnds, Moves, Tasks
<1>2. Shaped(x) /\ x \in TaskRec(x.flap) /\ x.pc = "rules"
  BY <1>1 DEF Typed, Shaped, SecondEnds
<1>3. x.n # 0
  BY <1>2, ShapedFields
<1>4. stamp \in Reminder
  BY <1>2, <1>3 DEF TaskRec, Reminder
<1>5. renotify' \in {renotify, [renotify EXCEPT ![x.rule] = stamp]}
  BY DEF SecondEnds, Typed
<1> HIDE DEF stamp, x
<1>6. renotify' \in [Rules -> Reminder \union {None}]
  BY <1>4, <1>5 DEF Typed
<1> QED BY <1>1, <1>6, IdleShaped, TypedRest DEF SecondEnds, env, Typed

\* What the evaluator publishes.
LEMMA TransitionTyped ==
    ASSUME NotifierAssumption, Typed, NEW to, Transition(to)
    PROVE  Typed'
<1> DEFINE from == IF mon = "none" THEN "pending" ELSE mon
           msg == [from |-> from, to |-> to]
<1>1. msg \in Edges /\ lane' = Append(lane, msg)
  BY DEF Transition, Legal, Edges, Statuses
<1> HIDE DEF msg
<1>2. lane \in Seq(Edges)
  BY DEF Typed
<1>3. lane' \in Seq(Edges) /\ Len(lane') = Len(lane) + 1 /\ Len(lane) \in Nat
  BY <1>1, <1>2, AppendProperties, LenProperties
<1>4. Len(lane') # 0
  BY <1>3
<1> QED BY <1>3, <1>4 DEF Transition, Typed, keys

\* Edits and time.
LEMMA EditTyped == Typed /\ (Edit \/ Tick) => Typed'
<1>1. ASSUME Typed, Edit PROVE Typed'
  BY <1>1 DEF Edit, Typed, keys
<1>2. ASSUME Typed, Tick PROVE Typed'
  <2>0. now \in Nat /\ now' = now + 1
    BY <1>2 DEF Tick, Typed
  <2>1. now' \in Nat \ {0}
    BY <2>0
  <2> QED BY <1>2, <2>1 DEF Tick, Typed, keys
<1> QED BY <1>1, <1>2

\* Every step keeps the types.
LEMMA TypedStep ==
    ASSUME NotifierAssumption, Typed, parked \subseteq DOMAIN lane, [Next]_vars
    PROVE  Typed'
<1>1. ASSUME NEW t \in Tasks, Step(t) PROVE Typed'
  <2>1. ASSUME NEW id \in task[t].ids, _abandon_down_retries(t, id) PROVE Typed'
    BY <2>1, AbandonTyped
  <2>2. ASSUME NEW r \in Rules, _dispatch(t, r) PROVE Typed'
    BY <2>2, DispatchTyped
  <2>3. ASSUME NEW c \in Channels, NextChannel(t, c) PROVE Typed'
    BY <2>3, NextChannelTyped
  <2> QED BY <1>1, <2>1, <2>2, <2>3, FlappingTyped, ExitTyped, HandledTyped, MissedTyped,
         StampedTyped, RemindTyped, AttemptTyped, FinishTyped, PublishTyped, UnqueueTyped,
         CutTyped DEF Step
<1>2. ASSUME NEW n \in parked, redrive(n) PROVE Typed'
  BY <1>2, RedriveTyped
<1>3. ASSUME NEW j \in retry, retry_due(j) PROVE Typed'
  BY <1>3, RetryDueTyped
<1>4. ASSUME NEW r \in Rules, Renotify(r) PROVE Typed'
  BY <1>4, RenotifyTyped
<1>5. ASSUME NEW to \in Statuses, Transition(to) PROVE Typed'
  BY <1>5, TransitionTyped
<1>6. ASSUME UNCHANGED vars PROVE Typed'
  BY <1>6 DEF vars, env, keys, Typed
<1> QED BY <1>1, <1>2, <1>3, <1>4, <1>5, <1>6, HandleTyped, SweepTyped, SweepPutsTyped,
       SweepExitsTyped, ForgetTyped, SecondEndsTyped, EditTyped DEF Next

-----------------------------------------------------------------------------
(* What the steps do to the tasks. *)

Others(t) == \A u \in Tasks : u # t => task'[u] = task[u]

\* A move of one task.
LEMMA MovesTo ==
    ASSUME Typed, NEW t \in Tasks, NEW y, Moves(t, y)
    PROVE  task'[t] = y /\ Others(t)
BY OneMoves DEF Typed, Others

\* y is x, but for the window and whether it was overtaken.
Kept(y, x) ==
    /\ y.pc = x.pc /\ y.n = x.n /\ y.mark = x.mark /\ y.at = x.at /\ y.dir = x.dir
    /\ y.todo = x.todo /\ y.rule = x.rule /\ y.chans = x.chans /\ y.chan = x.chan
    /\ y.ids = x.ids /\ y.ret = x.ret /\ y.job = x.job

\* Taking a transition: the other task is overtaken at most.
LEMMA TakeDoes ==
    ASSUME Typed, NEW t \in Tasks, NEW n \in DOMAIN lane, on_transition(t, n)
    PROVE  /\ task'[t].pc = "flap" /\ task'[t].n = n /\ task'[t].mark = 0
           /\ task'[t].dir = direction_of(lane[n]) /\ task'[t].over = FALSE
           /\ \A u \in Tasks : u # t =>
                /\ Kept(task'[u], task[u])
                /\ task'[u].over = (task[u].over \/ (lane[n].from = "down" /\ lane[n].to # "down"
                                                     /\ task[u].pc # "idle"))
<1> DEFINE y == [Idle EXCEPT !.pc = "flap", !.n = n, !.at = now, !.dir = direction_of(lane[n]),
                             !.flap = flap]
           recovers == lane[n].from = "down" /\ lane[n].to # "down"
           over(u) == [task[u] EXCEPT !.over = @ \/ (recovers /\ task[u].pc # "idle")]
<1>1. task' = [u \in Tasks |-> IF u = t THEN y ELSE over(u)]
  BY DEF on_transition
<1>2. task'[t] = y
  BY <1>1
<1>3. y.pc = "flap" /\ y.n = n /\ y.mark = 0 /\ y.dir = direction_of(lane[n]) /\ y.over = FALSE
  BY DEF Idle
<1>4. ASSUME NEW u \in Tasks, u # t
      PROVE  /\ Kept(task'[u], task[u])
             /\ task'[u].over = (task[u].over \/ (recovers /\ task[u].pc # "idle"))
  <2> DEFINE x == task[u]
             b == x.over \/ (recovers /\ x.pc # "idle")
  <2>1. x \in TaskRec(x.flap)
    BY DEF Typed, Shaped
  <2>2. task'[u] = [x EXCEPT !.over = b]
    BY <1>1, <1>4
  <2> HIDE DEF x, b
  <2>3. Kept(task'[u], x) /\ task'[u].over = b
    BY <2>1, <2>2 DEF TaskRec, Kept
  <2> HIDE DEF recovers
  <2> QED BY <2>3, Zenon DEF x, b
<1> HIDE DEF y, over
<1> QED BY <1>2, <1>3, <1>4, Zenon

\* _flapping ends in flapping entered, flapping or not.
LEMMA FlappingDoes ==
    ASSUME Typed, NEW t \in Tasks, _flapping(t)
    PROVE  LET x == task[t]  y == task'[t]
           IN /\ Others(t) /\ x.pc = "flap" /\ y.pc \in {"exit", "rules"}
              /\ y.n = x.n /\ y.mark = x.mark /\ y.over = x.over /\ x.n # 0 /\ x.mark = 0
              /\ \/ y.dir = "flapping" /\ entered' = entered \union {x.n} /\ UNCHANGED suppressed
                 \/ /\ y.dir = x.dir /\ UNCHANGED entered
                    /\ suppressed' = suppressed \union ({x.n} \X Matching(x.dir))
                 \/ y.dir = x.dir /\ y.todo = Matching(x.dir) /\ UNCHANGED <<entered, suppressed>>
<1> DEFINE x == task[t]
           edge == {lane[x.n].from, lane[x.n].to} = {"up", "down"}
           edges == InWindow(IF edge THEN Append(x.flap.edges, x.at) ELSE x.flap.edges, x.at)
           enters == ~x.flap.on /\ Len(edges) >= FlapEdges
           leaves == x.flap.on /\ ~enters /\ Len(edges) <= 1
           quiet == x.flap.on /\ ~leaves
           y == [x EXCEPT !.pc = IF leaves THEN "exit" ELSE "rules", !.flap = None,
                          !.dir = IF enters THEN "flapping" ELSE @,
                          !.todo = IF enters THEN Matching("down")
                                   ELSE IF quiet THEN {} ELSE Matching(x.dir)]
<1>1. Moves(t, y) /\ x.pc = "flap"
  BY DEF _flapping, Moves
<1>2. x \in TaskRec(x.flap) /\ x.n # 0 /\ x.mark = 0
  BY <1>1 DEF Typed, Shaped, PlainShape
<1>3. /\ entered' = (IF enters THEN entered \union {x.n} ELSE entered)
      /\ suppressed' = IF quiet THEN suppressed \union ({x.n} \X Matching(x.dir)) ELSE suppressed
  BY DEF _flapping
<1>4. ~(enters /\ quiet)
  OBVIOUS
<1> HIDE DEF enters, leaves, quiet, x
<1>5. /\ y.pc \in {"exit", "rules"} /\ y.n = x.n /\ y.mark = x.mark /\ y.over = x.over
      /\ y.dir = (IF enters THEN "flapping" ELSE x.dir)
      /\ y.todo = IF enters THEN Matching("down") ELSE IF quiet THEN {} ELSE Matching(x.dir)
  BY <1>2 DEF TaskRec
<1>6. task'[t] = y /\ Others(t)
  BY <1>1, MovesTo
<1> HIDE DEF y
<1>7. \/ y.dir = "flapping" /\ entered' = entered \union {x.n} /\ UNCHANGED suppressed
      \/ /\ y.dir = x.dir /\ UNCHANGED entered
         /\ suppressed' = suppressed \union ({x.n} \X Matching(x.dir))
      \/ y.dir = x.dir /\ y.todo = Matching(x.dir) /\ UNCHANGED <<entered, suppressed>>
  BY <1>3, <1>4, <1>5
<1> QED BY <1>1, <1>2, <1>5, <1>6, <1>7 DEF x

\* A move on the way out of flapping.
LEMMA ExitDoes ==
    ASSUME Typed, NEW t \in Tasks, _exit_flapping(t)
    PROVE  /\ Others(t) /\ Same(task'[t], task[t]) /\ task[t].pc = "exit" /\ task'[t].pc = "rules"
<1> DEFINE x == task[t]
           y == [x EXCEPT !.pc = "rules"]
<1>1. Moves(t, y) /\ x.pc = "exit"
  BY DEF _exit_flapping, Go, Moves
<1>2. x \in TaskRec(x.flap)
  BY DEF Typed, Shaped
<1>3. Same(y, x) /\ y.pc = "rules"
  BY <1>2 DEF TaskRec, Same
<1> HIDE DEF y
<1> QED BY <1>1, <1>3, MovesTo

\* y is on the same transition as x, for the same rules that are left.
On(y, x) ==
    y.n = x.n /\ y.mark = x.mark /\ y.dir = x.dir /\ y.over = x.over

\* _dispatch starts a rule or records it as suppressed.
LEMMA DispatchDoes ==
    ASSUME Typed, NEW t \in Tasks, NEW r \in Rules, _dispatch(t, r)
    PROVE  LET x == task[t]  y == task'[t]
           IN /\ Others(t) /\ x.pc = "rules" /\ On(y, x) /\ y.todo = x.todo \ {r} /\ r \in x.todo
              /\ \/ y.pc = "rules" /\ (muted \/ Cooling(x, r)) /\ Suppress(x, r)
                 \/ /\ y.pc = "channels" /\ y.rule = r
                    /\ y.chans = Terms[r].channels \intersect usable
                    /\ UNCHANGED suppressed
<1> DEFINE x == task[t]
           y1 == [x EXCEPT !.todo = @ \ {r}]
           y2 == [x EXCEPT !.pc = "channels", !.todo = @ \ {r}, !.rule = r, !.sent = FALSE,
                           !.chans = Terms[r].channels \intersect usable]
<1>1. x \in TaskRec(x.flap) /\ x.pc = "rules" /\ r \in x.todo
  BY DEF Typed, Shaped, _dispatch
<1>2. \/ Moves(t, y1) /\ (muted \/ Cooling(x, r)) /\ Suppress(x, r)
      \/ Moves(t, y2) /\ UNCHANGED suppressed
  BY DEF _dispatch, Moves, Typed
<1>3. On(y1, x) /\ y1.pc = "rules" /\ y1.todo = x.todo \ {r}
  BY <1>1 DEF TaskRec, On
<1>4. /\ On(y2, x) /\ y2.pc = "channels" /\ y2.todo = x.todo \ {r} /\ y2.rule = r
      /\ y2.chans = Terms[r].channels \intersect usable
  BY <1>1 DEF TaskRec, On
<1> HIDE DEF y1, y2, x
<1> QED BY <1>1, <1>2, <1>3, <1>4, MovesTo DEF x

\* The next channel is told, or a recovery looks for the retries of a down first.
LEMMA NextChannelDoes ==
    ASSUME Typed, NEW t \in Tasks, NEW c \in Channels, NextChannel(t, c)
    PROVE  LET x == task[t]  y == task'[t]
           IN /\ Others(t) /\ x.pc = "channels" /\ On(y, x) /\ y.todo = x.todo
              /\ y.rule = x.rule /\ y.chan = c /\ y.chans = x.chans \ {c} /\ y.ret = "channels"
              /\ \/ /\ x.dir = "recovered" /\ y.pc = "abandon"
                    /\ y.ids = {j.id : j \in PendingDowns(c)}
                 \/ /\ x.dir # "recovered" /\ y.pc = "attempt"
                    /\ y.job = Fresh(x, c, FALSE)
<1> DEFINE x == task[t]
           ids == {j.id : j \in PendingDowns(c)}
           job == Fresh(x, c, FALSE)
           y1 == [x EXCEPT !.chans = @ \ {c}, !.chan = c, !.sent = TRUE, !.ret = "channels",
                           !.pc = "abandon", !.ids = ids, !.job = None]
           y2 == [x EXCEPT !.chans = @ \ {c}, !.chan = c, !.sent = TRUE, !.ret = "channels",
                           !.pc = "attempt", !.ids = {}, !.job = job]
<1>1. x \in TaskRec(x.flap) /\ x.pc = "channels"
  BY DEF Typed, Shaped, NextChannel
<1>2. \/ x.dir = "recovered" /\ Moves(t, y1)
      \/ x.dir # "recovered" /\ Moves(t, y2)
  BY DEF NextChannel, Moves, Typed
<1> HIDE DEF ids, job
<1>3. /\ On(y1, x) /\ y1.todo = x.todo /\ y1.rule = x.rule /\ y1.chan = c
      /\ y1.chans = x.chans \ {c} /\ y1.ret = "channels" /\ y1.pc = "abandon" /\ y1.ids = ids
  BY <1>1 DEF TaskRec, On
<1>4. /\ On(y2, x) /\ y2.todo = x.todo /\ y2.rule = x.rule /\ y2.chan = c
      /\ y2.chans = x.chans \ {c} /\ y2.ret = "channels" /\ y2.pc = "attempt" /\ y2.job = job
  BY <1>1 DEF TaskRec, On
<1> HIDE DEF y1, y2, x
<1>5. \/ x.dir = "recovered" /\ task'[t] = y1
      \/ x.dir # "recovered" /\ task'[t] = y2
  BY <1>2, MovesTo
<1>6. Others(t)
  BY <1>2, MovesTo
<1> QED BY <1>1, <1>3, <1>4, <1>5, <1>6 DEF x, ids, job

\* An alert waits in retry: to be tried again.
Waits(id) == \E j \in retry : j.id = id /\ j.final = ""

\* One retry is passed over or given up on.
LEMMA AbandonDoes ==
    ASSUME Typed, NEW t \in Tasks, NEW id, _abandon_down_retries(t, id)
    PROVE  LET x == task[t]  y == task'[t]
           IN /\ Others(t) /\ x.pc = "abandon" /\ id \in x.ids /\ On(y, x) /\ y.todo = x.todo
              /\ y.rule = x.rule /\ y.chan = x.chan /\ y.chans = x.chans /\ y.ids = x.ids \ {id}
              /\ \/ /\ y.pc = "abandon" /\ y.ret = x.ret
                    /\ ~Waits(id)
                 \/ /\ y.pc = "finish" /\ y.ret = "abandon"
                    /\ y.job.id = id /\ y.job.final = "failed"
                    /\ Waits(id)
<1> DEFINE x == task[t]
           found == {j \in retry : j.id = id /\ j.final = ""}
           k == CHOOSE j \in found : TRUE
           job == [k EXCEPT !.final = "failed"]
           y1 == [x EXCEPT !.ids = @ \ {id}]
           y2 == [x EXCEPT !.ids = @ \ {id}, !.pc = "finish", !.ret = "abandon", !.job = job]
<1>1. x \in TaskRec(x.flap) /\ x.pc = "abandon" /\ id \in x.ids
  BY DEF Typed, Shaped, _abandon_down_retries
<1>2. \/ found = {} /\ Moves(t, y1)
      \/ found # {} /\ Moves(t, y2)
  BY DEF _abandon_down_retries, Moves, Typed
<1>3. ASSUME found # {} PROVE job.id = id /\ job.final = "failed"
  <2>1. k \in found
    BY <1>3
  <2>2. k \in Job /\ k.id = id
    BY <2>1 DEF Typed
  <2> HIDE DEF k
  <2> QED BY <2>2 DEF Job
<1> HIDE DEF job
<1>4. /\ On(y1, x) /\ y1.todo = x.todo /\ y1.rule = x.rule /\ y1.chan = x.chan
      /\ y1.chans = x.chans /\ y1.ids = x.ids \ {id} /\ y1.pc = "abandon" /\ y1.ret = x.ret
  BY <1>1 DEF TaskRec, On
<1>5. /\ On(y2, x) /\ y2.todo = x.todo /\ y2.rule = x.rule /\ y2.chan = x.chan
      /\ y2.chans = x.chans /\ y2.ids = x.ids \ {id} /\ y2.pc = "finish" /\ y2.ret = "abandon"
      /\ y2.job = job
  BY <1>1 DEF TaskRec, On
<1> HIDE DEF y1, y2, x, found, k
<1>6. Others(t)
  BY <1>2, MovesTo
<1>7. CASE found = {} /\ task'[t] = y1
  <2>1. ~Waits(id)
    BY <1>7 DEF found, Waits
  <2> QED BY <1>1, <1>4, <1>6, <1>7, <2>1 DEF x
<1>8. CASE found # {} /\ task'[t] = y2
  <2>1. Waits(id)
    BY <1>8 DEF found, Waits
  <2> QED BY <1>1, <1>3, <1>5, <1>6, <1>8, <2>1 DEF x
<1> QED BY <1>2, <1>7, <1>8, MovesTo

\* The recovery itself is told.
LEMMA MissedDoes ==
    ASSUME Typed, NEW t \in Tasks, Missed(t)
    PROVE  LET x == task[t]  y == task'[t]
           IN /\ Others(t) /\ x.pc = "abandon" /\ x.ids = {} /\ On(y, x) /\ y.todo = x.todo
              /\ y.rule = x.rule /\ y.chan = x.chan /\ y.chans = x.chans
              /\ y.pc = "attempt" /\ y.ret = "channels"
              /\ y.job.id = AlertOf(x) /\ y.job.final = ""
<1> DEFINE x == task[t]
           job == Fresh(x, x.chan, x.chan \in downfail)
           y == [x EXCEPT !.pc = "attempt", !.ret = "channels", !.job = job]
<1>1. x \in TaskRec(x.flap) /\ x.pc = "abandon" /\ x.ids = {}
  BY DEF Typed, Shaped, Missed
<1>2. Moves(t, y)
  BY DEF Missed, Moves, Typed
<1>3. job.id = AlertOf(x) /\ job.final = ""
  BY DEF Fresh, AlertOf
<1> HIDE DEF job
<1>4. /\ On(y, x) /\ y.todo = x.todo /\ y.rule = x.rule /\ y.chan = x.chan
      /\ y.chans = x.chans /\ y.pc = "attempt" /\ y.ret = "channels" /\ y.job = job
  BY <1>1 DEF TaskRec, On
<1> HIDE DEF y, x
<1> QED BY <1>1, <1>2, <1>3, <1>4, MovesTo DEF x

\* The cooldown is stamped, and a rule done with.
LEMMA StampedDoes ==
    ASSUME Typed, NEW t \in Tasks, Stamped(t)
    PROVE  /\ Others(t) /\ Same(task'[t], task[t])
           /\ task[t].pc = "channels" /\ task'[t].pc = "channels"
<1> DEFINE x == task[t]
           y == [x EXCEPT !.sent = FALSE]
<1>1. x \in TaskRec(x.flap) /\ x.pc = "channels" /\ Moves(t, y)
  BY DEF Typed, Shaped, Stamped, Moves
<1>2. Same(y, x) /\ y.pc = "channels"
  BY <1>1 DEF TaskRec, Same
<1> HIDE DEF y, x
<1> QED BY <1>1, <1>2, MovesTo DEF x

\* The rule is done with.
LEMMA RemindDoes ==
    ASSUME Typed, NEW t \in Tasks, Remind(t)
    PROVE  /\ Others(t) /\ On(task'[t], task[t]) /\ task'[t].todo = task[t].todo
           /\ task[t].pc = "channels" /\ task[t].chans = {} /\ task'[t].pc = "rules"
<1> DEFINE x == task[t]
           y == [x EXCEPT !.pc = "rules", !.chan = None, !.sent = FALSE, !.ret = "idle"]
<1>1. x \in TaskRec(x.flap) /\ x.pc = "channels" /\ x.chans = {} /\ Moves(t, y)
  BY DEF Typed, Shaped, Remind, Moves
<1>2. On(y, x) /\ y.pc = "rules" /\ y.todo = x.todo
  BY <1>1 DEF TaskRec, On
<1> HIDE DEF y, x
<1> QED BY <1>1, <1>2, MovesTo DEF x

\* What is queued: the delivery, in place of what waited under its id.
LEMMA QueuedDoes ==
    ASSUME NEW job \in Job
    PROVE  \E k : /\ Queued(job) = Unqueued(job.id) \union {k}
                  /\ k.id = job.id /\ k.final = job.final
<1> DEFINE k == [job EXCEPT !.queued = TRUE]
<1>1. k.id = job.id /\ k.final = job.final
  BY DEF Job
<1>2. Queued(job) = Unqueued(job.id) \union {k}
  BY DEF Queued
<1> HIDE DEF k
<1> QED BY <1>1, <1>2

\* _attempt: the channel is gone, the alert is told, kept to be tried again or given up on.
LEMMA AttemptDoes ==
    ASSUME NotifierAssumption, Typed, NEW t \in Tasks, _attempt(t)
    PROVE  LET x == task[t]  y == task'[t]
           IN /\ Others(t) /\ x.pc = "attempt" /\ Holds(x) /\ x.ret # "abandon" /\ Same(y, x)
              /\ x.job \in Job /\ x.job.final = ""
              /\ \/ /\ x.job.id.chan \notin usable /\ retry' = Unqueued(x.job.id)
                    /\ y.pc = x.ret /\ UNCHANGED <<told, loose>>
                 \/ /\ told' = (IF x.job.id.dir \in {"down", "recovered"}
                                THEN told \union {x.job.id} ELSE told)
                    /\ y.pc = "publish" /\ y.job.id = x.job.id /\ y.job.final = "delivered"
                    /\ UNCHANGED retry /\ Loosen(x)
                 \/ /\ \E k : /\ retry' = Unqueued(x.job.id) \union {k}
                              /\ k.id = x.job.id /\ k.final = ""
                    /\ y.pc = x.ret /\ UNCHANGED told /\ Loosen(x)
                 \/ /\ y.pc = (IF x.job.id.dir = "down" THEN "finish" ELSE "publish")
                    /\ y.job.id = x.job.id /\ y.job.final = "failed"
                    /\ UNCHANGED <<retry, told>> /\ Loosen(x)
<1> DEFINE x == task[t]
           job == [x.job EXCEPT !.attempts = @ + 1]
<1>1. x.pc = "attempt" /\ Holds(x) /\ x.ret # "abandon" /\ Shaped(x)
      /\ x.job \in Job /\ x.job.final = "" /\ x.job.attempts <= Ladder
  BY DEF _attempt, Typed, Shaped, JobShape, Holds, InHand
<1>2. \/ /\ x.job.id.chan \notin usable
         /\ retry' = Unqueued(x.job.id) /\ Moves(t, Put(x)) /\ UNCHANGED <<told, loose>>
      \/ /\ told' = (IF x.job.id.dir \in {"down", "recovered"}
                     THEN told \union {x.job.id} ELSE told)
         /\ Moves(t, Ended(x, "delivered")) /\ UNCHANGED retry /\ Loosen(x)
      \/ /\ retry' = Queued(job) /\ Moves(t, Put(x))
         /\ UNCHANGED told /\ Loosen(x)
      \/ Moves(t, Ended(x, "failed")) /\ UNCHANGED <<retry, told>> /\ Loosen(x)
  BY AttemptEnds
<1>3. job \in Job /\ job.id = x.job.id /\ job.final = ""
  BY <1>1, TriedTyped
<1>4. Same(Put(x), x) /\ Put(x).pc = x.ret
  BY <1>1, PutShaped
<1>5. ASSUME NEW final \in {"delivered", "failed"}
      PROVE  /\ Same(Ended(x, final), x)
             /\ Ended(x, final).job.id = x.job.id /\ Ended(x, final).job.final = final
             /\ Ended(x, final).pc = IF final = "failed" /\ x.job.id.dir = "down"
                                     THEN "finish" ELSE "publish"
  <2>1. Tried(x.job, final).id = x.job.id /\ Tried(x.job, final).final = final
    <3> DEFINE k == x.job
    <3>1. k \in Job /\ k.attempts <= Ladder /\ final \in {"", "delivered", "failed"}
      BY <1>1
    <3> HIDE DEF k
    <3>2. Tried(k, final).id = k.id /\ Tried(k, final).final = final
      BY <3>1, TriedTyped
    <3> QED BY <3>2 DEF k
  <2> QED BY <1>1, <2>1, EndedShaped
<1>6. \E k : /\ Queued(job) = Unqueued(x.job.id) \union {k}
             /\ k.id = x.job.id /\ k.final = ""
  <2>1. \E k : Queued(job) = Unqueued(job.id) \union {k} /\ k.id = job.id /\ k.final = job.final
    BY <1>3, QueuedDoes
  <2> HIDE DEF job
  <2> QED BY <2>1, <1>3
<1> HIDE DEF x, job
<1>7. ASSUME NEW y, Moves(t, y) PROVE task'[t] = y /\ Others(t)
  BY <1>7, MovesTo
<1>8. CASE /\ x.job.id.chan \notin usable
           /\ retry' = Unqueued(x.job.id) /\ Moves(t, Put(x)) /\ UNCHANGED <<told, loose>>
  BY <1>1, <1>4, <1>7, <1>8 DEF x
<1>9. CASE /\ told' = (IF x.job.id.dir \in {"down", "recovered"}
                       THEN told \union {x.job.id} ELSE told)
           /\ Moves(t, Ended(x, "delivered")) /\ UNCHANGED retry /\ Loosen(x)
  BY <1>1, <1>5, <1>7, <1>9 DEF x
<1>10. CASE retry' = Queued(job) /\ Moves(t, Put(x)) /\ UNCHANGED told /\ Loosen(x)
  BY <1>1, <1>4, <1>6, <1>7, <1>10 DEF x
<1>11. CASE Moves(t, Ended(x, "failed")) /\ UNCHANGED <<retry, told>> /\ Loosen(x)
  BY <1>1, <1>5, <1>7, <1>11 DEF x
<1> QED BY <1>2, <1>8, <1>9, <1>10, <1>11

\* _finish goes on to the record.
LEMMA FinishDoes ==
    ASSUME Typed, NEW t \in Tasks, _finish(t)
    PROVE  LET x == task[t]  y == task'[t]
           IN /\ Others(t) /\ x.pc = "finish" /\ Holds(x) /\ Same(y, x) /\ y.pc = "publish"
              /\ y.job = x.job /\ x.job \in Job /\ x.job.final = "failed" /\ x.job.id.dir = "down"
<1> DEFINE x == task[t]
           y == [x EXCEPT !.pc = "publish"]
<1>1. Shaped(x) /\ x.pc = "finish" /\ Holds(x) /\ x.job \in Job
      /\ x.job.final = "failed" /\ x.job.id.dir = "down"
  BY DEF _finish, Typed, Shaped, JobShape, Holds, InHand
<1>2. Moves(t, y)
  BY GoMoves DEF _finish
<1>3. Same(y, x) /\ y.pc = "publish" /\ y.job = x.job
  BY <1>1, OnShaped
<1> HIDE DEF y
<1> QED BY <1>1, <1>2, <1>3, MovesTo

\* _publish_final: the record, or the delivery kept for it.
LEMMA PublishDoes ==
    ASSUME Typed, NEW t \in Tasks, _publish_final(t)
    PROVE  LET x == task[t]  y == task'[t]
           IN /\ Others(t) /\ x.pc = "publish" /\ Holds(x) /\ Same(y, x)
              /\ x.job \in Job /\ x.job.final # ""
              /\ \/ /\ outcomes' = IF x.job.id.dir \in Directions
                                   THEN outcomes \union {[id |-> x.job.id, state |-> x.job.final]}
                                   ELSE outcomes
                    /\ (y.pc = "unqueue" /\ y.job = x.job) \/ (y.pc = x.ret /\ ~x.job.queued)
                    /\ UNCHANGED retry
                 \/ /\ \E k : /\ retry' = Unqueued(x.job.id) \union {k}
                              /\ k.id = x.job.id /\ k.final = x.job.final
                    /\ y.pc = x.ret /\ UNCHANGED outcomes
<1> DEFINE x == task[t]
           y == [x EXCEPT !.pc = "unqueue"]
<1>1. Shaped(x) /\ x.pc = "publish" /\ Holds(x) /\ x.job \in Job /\ x.job.final # ""
  BY DEF _publish_final, Typed, Shaped, JobShape, Holds, InHand
<1>2. \/ /\ outcomes' = IF x.job.id.dir \in Directions
                        THEN outcomes \union {[id |-> x.job.id, state |-> x.job.final]}
                        ELSE outcomes
         /\ UNCHANGED retry
         /\ Moves(t, y) \/ (Moves(t, Put(x)) /\ ~x.job.queued)
      \/ retry' = Queued(x.job) /\ Moves(t, Put(x)) /\ UNCHANGED outcomes
  BY GoMoves, BackMoves DEF _publish_final
<1>3. Same(y, x) /\ y.pc = "unqueue" /\ y.job = x.job
  <2>1. x \in TaskRec(x.flap)
    BY <1>1 DEF Shaped
  <2> QED BY <2>1 DEF TaskRec, Same
<1>4. Same(Put(x), x) /\ Put(x).pc = x.ret
  BY <1>1, PutShaped
<1> HIDE DEF x, y
<1>5. ASSUME NEW z, Moves(t, z) PROVE task'[t] = z /\ Others(t)
  BY <1>5, MovesTo
<1>6. CASE /\ outcomes' = IF x.job.id.dir \in Directions
                          THEN outcomes \union {[id |-> x.job.id, state |-> x.job.final]}
                          ELSE outcomes
           /\ UNCHANGED retry
           /\ Moves(t, y) \/ (Moves(t, Put(x)) /\ ~x.job.queued)
  BY <1>1, <1>3, <1>4, <1>5, <1>6 DEF x
<1>7. CASE retry' = Queued(x.job) /\ Moves(t, Put(x)) /\ UNCHANGED outcomes
  <2>1. \E k : /\ retry' = Unqueued(x.job.id) \union {k}
               /\ k.id = x.job.id /\ k.final = x.job.final
    BY <1>1, <1>7, QueuedDoes
  <2> QED BY <1>1, <1>4, <1>5, <1>7, <2>1 DEF x
<1> QED BY <1>2, <1>6, <1>7

\* What was recorded is taken out.
LEMMA UnqueueDoes ==
    ASSUME Typed, NEW t \in Tasks, Unqueue(t)
    PROVE  LET x == task[t]  y == task'[t]
           IN /\ Others(t) /\ x.pc = "unqueue" /\ Holds(x) /\ Same(y, x) /\ y.pc = x.ret
              /\ x.job \in Job /\ retry' = Unqueued(x.job.id)
<1> DEFINE x == task[t]
<1>1. Shaped(x) /\ x.pc = "unqueue" /\ Holds(x) /\ x.job \in Job
      /\ Moves(t, Put(x)) /\ retry' = Unqueued(x.job.id)
  BY BackMoves DEF Unqueue, Typed, Shaped, JobShape, Holds, InHand
<1>2. Same(Put(x), x) /\ Put(x).pc = x.ret
  BY <1>1, PutShaped
<1> HIDE DEF x
<1> QED BY <1>1, <1>2, MovesTo DEF x

-----------------------------------------------------------------------------
(* What the job's steps do to it. *)

\* Tasks that end.
LEMMA EndDoes ==
    ASSUME Typed, NEW t \in Tasks,
           \/ Handled(t) \/ Cut(t)
           \/ t = "job" /\ (Forget \/ SecondEnds)
    PROVE  Others(t) /\ task'[t] = Idle
<1>1. Moves(t, Idle)
  BY DEF Handled, Cut, Forget, SecondEnds, Moves
<1> QED BY <1>1, MovesTo

\* A retry is taken up as it was read.
LEMMA RetryDueDoes ==
    ASSUME Typed, NEW j \in retry, retry_due(j)
    PROVE  LET y == task'["job"]
           IN /\ Others("job") /\ task["job"].pc = "idle"
              /\ y.n = 0 /\ y.mark = 0 /\ y.dir = "none" /\ y.ret = "idle" /\ y.job = j
              /\ y.pc = (IF j.final = "" THEN "attempt" ELSE "publish")
              /\ y.over = (task["consumer"].dir = "recovered")
<1> DEFINE over == task["consumer"].dir = "recovered"
           y == [Idle EXCEPT !.job = j, !.pc = IF j.final = "" THEN "attempt" ELSE "publish",
                             !.over = over]
<1>1. Moves("job", y) /\ "job" \in Tasks
  BY DEF retry_due, Moves, Tasks
<1> HIDE DEF over
<1>2. /\ y.n = 0 /\ y.mark = 0 /\ y.dir = "none" /\ y.ret = "idle" /\ y.job = j
      /\ y.pc = (IF j.final = "" THEN "attempt" ELSE "publish") /\ y.over = over
  BY DEF Idle
<1> HIDE DEF y
<1>3. task'["job"] = y /\ Others("job")
  BY <1>1, MovesTo
<1> QED BY <1>2, <1>3, Zenon DEF retry_due, over

\* The sweep reads the window, then puts it back.
LEMMA SweepDoes ==
    ASSUME Typed, sweep \/ SweepPuts
    PROVE  LET y == task'["job"]
           IN /\ Others("job") /\ task["job"].pc \in {"idle", "quiet"}
              /\ y.pc \in {"quiet", "truth"} /\ y.mark = 0 /\ y.dir = "none"
<1>0. "job" \in Tasks
  BY DEF Tasks
<1>1. CASE sweep
  <2> DEFINE y == [Idle EXCEPT !.pc = "quiet", !.at = now, !.flap = flap]
  <2>1. Moves("job", y) /\ task["job"].pc = "idle"
    BY <1>1 DEF sweep, Moves
  <2>2. y.pc = "quiet" /\ y.mark = 0 /\ y.dir = "none"
    BY DEF Idle
  <2> HIDE DEF y
  <2> QED BY <1>0, <2>1, <2>2, MovesTo
<1>2. CASE SweepPuts
  <2> DEFINE x == task["job"]
             y == [x EXCEPT !.pc = "truth", !.flap = None]
  <2>1. x \in TaskRec(x.flap) /\ x.pc = "quiet" /\ Moves("job", y)
    BY <1>0, <1>2 DEF Typed, Shaped, SweepPuts, Moves
  <2>2. x.mark = 0 /\ x.dir = "none"
    BY <1>0, <2>1 DEF Typed, Shaped, PlainShape, RetryShape
  <2>3. y.pc = "truth" /\ y.mark = x.mark /\ y.dir = x.dir
    BY <2>1 DEF TaskRec
  <2> HIDE DEF y
  <2> QED BY <1>0, <2>1, <2>2, <2>3, MovesTo
<1> QED BY <1>1, <1>2

\* The sweep ends, or the monitor alerts a second time.
LEMMA SweepExitsDoes ==
    ASSUME Typed, SweepExits
    PROVE  LET x == task["job"]  y == task'["job"]
           IN /\ Others("job") /\ x.pc = "truth"
              /\ \/ y = Idle
                 \/ /\ y.pc = "rules" /\ y.n = Len(lane) /\ y.mark # 0 /\ y.dir = "down"
                    /\ y.over = x.over
<1> DEFINE x == task["job"]
           y == [x EXCEPT !.pc = "rules", !.n = Len(lane), !.mark = x.at, !.dir = "down",
                          !.todo = Matching("down")]
<1>1. Shaped(x) /\ x \in TaskRec(x.flap) /\ x.pc = "truth" /\ x.at # 0 /\ "job" \in Tasks
  BY DEF Typed, Tasks, Shaped, PlainShape, SweepExits
<1>2. Moves("job", Idle) \/ Moves("job", y)
  BY DEF SweepExits, Moves, Typed
<1>3. /\ y.pc = "rules" /\ y.n = Len(lane) /\ y.mark # 0 /\ y.dir = "down" /\ y.over = x.over
  BY <1>1 DEF TaskRec
<1> HIDE DEF y
<1>4. Others("job") /\ (task'["job"] = Idle \/ task'["job"] = y)
  BY <1>1, <1>2, MovesTo
<1> HIDE DEF x
<1>5. CASE task'["job"] = Idle
  BY <1>1, <1>4, <1>5 DEF x
<1>6. CASE task'["job"] = y
  BY <1>1, <1>3, <1>4, <1>6 DEF x
<1> QED BY <1>4, <1>5, <1>6

\* A reminder.
LEMMA RenotifyDoes ==
    ASSUME Typed, NEW r \in Rules, Renotify(r)
    PROVE  LET y == task'["job"]
           IN /\ Others("job") /\ task["job"].pc = "idle"
              /\ \/ y.pc = "forget" /\ y.n = 0 /\ y.mark = 0 /\ y.dir = "none"
                 \/ y.pc = "rules" /\ y.mark # 0 /\ y.dir = "renotify"
<1> DEFINE stamp == renotify[r]
           y1 == [Idle EXCEPT !.pc = "forget", !.rule = r]
           y2 == [Idle EXCEPT !.pc = "rules", !.n = stamp.n, !.mark = now, !.at = now,
                              !.dir = "renotify", !.todo = {r}, !.rule = r]
<1>1. "job" \in Tasks /\ now # 0
  BY DEF Typed, Tasks
<1>2. Moves("job", y1) \/ Moves("job", y2)
  BY DEF Renotify, Moves
<1>3. y1.pc = "forget" /\ y1.n = 0 /\ y1.mark = 0 /\ y1.dir = "none"
  BY DEF Idle
<1>4. y2.pc = "rules" /\ y2.mark # 0 /\ y2.dir = "renotify"
  BY <1>1 DEF Idle
<1> HIDE DEF y1, y2
<1>5. Others("job") /\ (task'["job"] = y1 \/ task'["job"] = y2)
  BY <1>1, <1>2, MovesTo
<1> QED BY <1>3, <1>4, <1>5 DEF Renotify

-----------------------------------------------------------------------------
(* Where the tasks are: the consumer at its offset, the job on what is parked. *)

InDirection(x) ==
    x.dir = direction_of(lane[x.n]) \/ (x.dir = "flapping" /\ x.n \in entered)

ConsumerAt(x) ==
    x.pc # "idle" => x.mark = 0 /\ x.n = next /\ next \in DOMAIN lane \ parked

JobAt(x) == Handling(x) => x.n \in parked

Places ==
    /\ next \in 1 .. Len(lane) + 1
    /\ handled \subseteq DOMAIN lane /\ parked \subseteq DOMAIN lane
    /\ parked \subseteq late /\ \A n \in parked : n <= next
    /\ ConsumerAt(task["consumer"])
    /\ JobAt(task["job"])
    /\ \A t \in Tasks : Handling(task[t]) => InDirection(task[t])

\* A step within a transition, or one that ends in none, leaves the places alone.
LEMMA QuietPlaces ==
    ASSUME Typed, Places, UNCHANGED <<lane, next, handled, parked, late, entered>>,
           NEW t \in Tasks, Others(t),
           \/ task'[t].pc = "idle"
           \/ t = "job" /\ ~Handling(task'[t])
           \/ /\ task[t].pc # "idle" /\ task'[t].n = task[t].n
              /\ task'[t].mark = task[t].mark /\ task'[t].dir = task[t].dir
    PROVE  Places'
<1>1. ConsumerAt(task["consumer"])'
  BY DEF Places, ConsumerAt, Others, Tasks, Handling
<1>2. JobAt(task["job"])'
  BY DEF Places, JobAt, Others, Tasks, Handling
<1>3. ASSUME NEW u \in Tasks, Handling(task'[u]) PROVE InDirection(task[u])'
  <2>1. CASE u # t
    BY <1>3, <2>1 DEF Places, Others, InDirection
  <2>2. CASE u = t /\ ~(t = "job" /\ ~Handling(task'[t])) /\ task'[t].pc # "idle"
    <3>1. Handling(task[t]) /\ task'[t].n = task[t].n /\ task'[t].dir = task[t].dir
      BY <1>3, <2>2 DEF Handling
    <3> QED BY <2>2, <3>1 DEF Places, InDirection
  <2> QED BY <1>3, <2>1, <2>2 DEF Handling
<1> QED BY <1>1, <1>2, <1>3 DEF Places, Handling

\* The steps within a transition.
LEMMA WithinPlaces ==
    ASSUME NotifierAssumption, Typed, Places, NEW t \in Tasks,
           \/ _exit_flapping(t) \/ \E r \in Rules : _dispatch(t, r)
           \/ \E c \in Channels : NextChannel(t, c)
           \/ \E id \in task[t].ids : _abandon_down_retries(t, id)
           \/ Missed(t) \/ Stamped(t) \/ Remind(t)
           \/ _attempt(t) \/ _finish(t) \/ _publish_final(t) \/ Unqueue(t)
    PROVE  Places'
<1>1. UNCHANGED <<lane, next, handled, parked, late, entered>>
  BY DEF _exit_flapping, _dispatch, NextChannel, _abandon_down_retries, Missed, Stamped, Remind,
         _attempt, _finish, _publish_final, Unqueue, env, keys, history
<1>2. /\ Others(t) /\ task[t].pc # "idle" /\ task'[t].n = task[t].n
      /\ task'[t].mark = task[t].mark /\ task'[t].dir = task[t].dir
  <2>1. CASE _exit_flapping(t)
    BY <2>1, ExitDoes DEF Same
  <2>2. CASE \E r \in Rules : _dispatch(t, r)
    BY <2>2, DispatchDoes DEF On
  <2>3. CASE \E c \in Channels : NextChannel(t, c)
    BY <2>3, NextChannelDoes DEF On
  <2>4. CASE \E id \in task[t].ids : _abandon_down_retries(t, id)
    BY <2>4, AbandonDoes DEF On
  <2>5. CASE Missed(t)
    BY <2>5, MissedDoes DEF On
  <2>6. CASE Stamped(t)
    BY <2>6, StampedDoes DEF Same
  <2>7. CASE Remind(t)
    BY <2>7, RemindDoes DEF On
  <2>8. CASE _attempt(t)
    BY <2>8, AttemptDoes DEF Same
  <2>9. CASE _finish(t)
    BY <2>9, FinishDoes DEF Same
  <2>10. CASE _publish_final(t)
    BY <2>10, PublishDoes DEF Same
  <2>11. CASE Unqueue(t)
    BY <2>11, UnqueueDoes DEF Same
  <2> QED BY <2>1, <2>2, <2>3, <2>4, <2>5, <2>6, <2>7, <2>8, <2>9, <2>10, <2>11
<1> QED BY <1>1, <1>2, QuietPlaces

\* The job's steps outside transitions.
LEMMA JobDoes ==
    ASSUME NotifierAssumption, Typed, Typed',
           \/ \E j \in retry : retry_due(j)
           \/ sweep \/ SweepPuts \/ SweepExits
           \/ \E r \in Rules : Renotify(r)
           \/ Forget \/ SecondEnds
    PROVE  /\ UNCHANGED <<lane, next, handled, parked, usable, suppressed, retry, outcomes, told,
                          downfail, entered, named, late, loose>>
           /\ "job" \in Tasks /\ Others("job") /\ ~Handling(task'["job"])
<1>1. UNCHANGED <<lane, next, handled, parked, usable, suppressed, retry, outcomes, told,
                  downfail, entered, named, late, loose>>
  BY DEF retry_due, sweep, SweepPuts, SweepExits, Renotify, Forget, SecondEnds, env, keys, history
<1>2. "job" \in Tasks
  BY DEF Tasks
<1>3. Others("job") /\ ~Handling(task'["job"])
  <2>1. CASE \E j \in retry : retry_due(j)
    BY <2>1, RetryDueDoes DEF Handling
  <2>2. CASE sweep \/ SweepPuts
    <3>1. task'["job"].pc \in {"quiet", "truth"} => task'["job"].n = 0
      BY <1>2 DEF Typed, Shaped, PlainShape
    <3> QED BY <2>2, <3>1, SweepDoes DEF Handling
  <2>3. CASE SweepExits
    BY <2>3, SweepExitsDoes DEF Handling, Idle
  <2>4. CASE \E r \in Rules : Renotify(r)
    BY <2>4, RenotifyDoes DEF Handling
  <2>5. CASE Forget \/ SecondEnds
    BY <1>2, <2>5, EndDoes DEF Handling, Idle
  <2> QED BY <2>1, <2>2, <2>3, <2>4, <2>5
<1> QED BY <1>1, <1>2, <1>3

\* They leave the places alone.
LEMMA JobPlaces ==
    ASSUME NotifierAssumption, Typed, Typed', Places,
           \/ \E j \in retry : retry_due(j)
           \/ sweep \/ SweepPuts \/ SweepExits
           \/ \E r \in Rules : Renotify(r)
           \/ Forget \/ SecondEnds
    PROVE  Places'
BY JobDoes, QuietPlaces

\* Offsets and transitions are numbers.
LEMMA PlaceNumbers ==
    ASSUME Typed, Places
    PROVE  /\ Len(lane) \in Nat /\ DOMAIN lane = 1 .. Len(lane) /\ next \in Nat \ {0}
           /\ parked \subseteq Nat \ {0}
BY LaneTyped DEF Typed, Places

\* The consumer takes the next transition, or passes over it.
LEMMA HandlePlaces == Typed /\ Places /\ handle => Places'
<1> SUFFICES ASSUME Typed, Places, handle PROVE Places'
  OBVIOUS
<1>0. /\ UNCHANGED <<lane, handled, parked, late, entered>> /\ next <= Len(lane)
      /\ task["consumer"].pc = "idle" /\ "consumer" \in Tasks
  BY DEF handle, env, history, Tasks
<1>1. CASE next \in handled \union parked
  <2>1. UNCHANGED task /\ next' = next + 1
    BY <1>1 DEF handle
  <2>2. next' \in 1 .. Len(lane) + 1 /\ \A n \in parked : n <= next'
    BY <1>0, <2>1, PlaceNumbers DEF Places
  <2> QED BY <1>0, <2>1, <2>2 DEF Places, ConsumerAt, JobAt, InDirection
<1>2. CASE next \notin handled \union parked
  <2>1. UNCHANGED next /\ on_transition("consumer", next) /\ next \in DOMAIN lane
    BY <1>0, <1>2, PlaceNumbers DEF handle
  <2>2. /\ task'["consumer"].n = next /\ task'["consumer"].mark = 0
        /\ task'["consumer"].dir = direction_of(lane[next])
        /\ \A u \in Tasks : u # "consumer" => Kept(task'[u], task[u])
    BY <1>0, <2>1, TakeDoes
  <2>3. ConsumerAt(task["consumer"])'
    BY <1>0, <1>2, <2>1, <2>2 DEF ConsumerAt
  <2>4. JobAt(task["job"])'
    BY <1>0, <2>2 DEF Places, JobAt, Handling, Kept, Tasks
  <2>5. ASSUME NEW t \in Tasks, Handling(task'[t]) PROVE InDirection(task[t])'
    BY <1>0, <2>2, <2>5 DEF Places, InDirection, Handling, Kept
  <2> QED BY <1>0, <2>1, <2>3, <2>4, <2>5 DEF Places, Handling
<1> QED BY <1>1, <1>2

\* The job redrives a parked transition.
LEMMA RedrivePlaces == \A n \in parked : Typed /\ Places /\ redrive(n) => Places'
<1> SUFFICES ASSUME NEW n \in parked, Typed, Places, redrive(n) PROVE Places'
  OBVIOUS
<1>0. /\ UNCHANGED <<lane, next, handled, parked, late, entered>> /\ "job" \in Tasks
      /\ n \in DOMAIN lane /\ on_transition("job", n)
  BY DEF redrive, env, history, Tasks, Places
<1>2. /\ task'["job"].n = n /\ task'["job"].mark = 0
      /\ task'["job"].dir = direction_of(lane[n])
      /\ \A u \in Tasks : u # "job" => Kept(task'[u], task[u])
  BY <1>0, TakeDoes
<1>3. ConsumerAt(task["consumer"])'
  BY <1>0, <1>2 DEF Places, ConsumerAt, Kept, Tasks
<1>4. JobAt(task["job"])'
  BY <1>0, <1>2 DEF JobAt
<1>5. ASSUME NEW t \in Tasks, Handling(task'[t]) PROVE InDirection(task[t])'
  BY <1>0, <1>2, <1>5 DEF Places, InDirection, Handling, Kept
<1> QED BY <1>0, <1>3, <1>4, <1>5 DEF Places, Handling

\* _flapping
LEMMA FlappingPlaces ==
    ASSUME Typed, Places, NEW t \in Tasks, _flapping(t) PROVE Places'
<1>1. UNCHANGED <<lane, next, handled, parked, late>> /\ entered \subseteq entered'
  BY DEF _flapping, env
<1>2. /\ Others(t) /\ task[t].pc # "idle" /\ task'[t].n = task[t].n /\ task[t].n # 0
      /\ task'[t].mark = task[t].mark /\ task[t].mark = 0
      /\ \/ task'[t].dir = task[t].dir
         \/ task'[t].dir = "flapping" /\ task[t].n \in entered'
  BY FlappingDoes
<1>3. ConsumerAt(task["consumer"])'
  BY <1>1, <1>2 DEF Places, ConsumerAt, Others, Tasks
<1>4. JobAt(task["job"])'
  BY <1>1, <1>2 DEF Places, JobAt, Others, Tasks, Handling
<1>5. ASSUME NEW u \in Tasks, Handling(task'[u]) PROVE InDirection(task[u])'
  <2>1. CASE u = t
    BY <1>1, <1>2, <2>1 DEF Places, InDirection, Handling
  <2>2. CASE u # t
    BY <1>1, <1>2, <1>5, <2>2 DEF Places, InDirection, Handling, Others
  <2> QED BY <2>1, <2>2
<1> QED BY <1>1, <1>3, <1>4, <1>5 DEF Places, Handling

\* A transition ends.
LEMMA HandledPlaces ==
    ASSUME Typed, Places, NEW t \in Tasks, Handled(t) PROVE Places'
<1> DEFINE x == task[t]
<1>0. Others(t) /\ task'[t] = Idle
  BY EndDoes
<1>1. /\ UNCHANGED <<lane, next, late, entered>> /\ handled' = handled \union {x.n}
      /\ parked' = parked \ {x.n} /\ Handling(x)
  <2>1. x.pc = "rules" => x.n # 0
    BY DEF Typed, Shaped, PlainShape
  <2> QED BY <2>1 DEF Handled, env, history, Handling
<1>2. x.n \in DOMAIN lane
  BY <1>1 DEF Places, ConsumerAt, JobAt, Handling, Tasks
<1>3. ConsumerAt(task["consumer"])'
  BY <1>0, <1>1 DEF Places, ConsumerAt, Others, Tasks, Idle
<1>4. JobAt(task["job"])'
  <2>1. CASE t = "job"
    BY <1>0, <2>1 DEF JobAt, Handling, Idle
  <2>2. CASE t = "consumer"
    <3>1. x.n = next /\ next \notin parked
      BY <1>1, <2>2 DEF Places, ConsumerAt, Handling
    <3> QED BY <1>0, <1>1, <2>2, <3>1 DEF Places, JobAt, Handling, Others, Tasks
  <2> QED BY <2>1, <2>2 DEF Tasks
<1>5. ASSUME NEW u \in Tasks, Handling(task'[u]) PROVE InDirection(task[u])'
  BY <1>0, <1>1, <1>5 DEF Places, InDirection, Handling, Others, Idle
<1> QED BY <1>1, <1>2, <1>3, <1>4, <1>5 DEF Places, Handling

\* A task is cut off, and its transition parked or given up on.
LEMMA CutPlaces ==
    ASSUME Typed, Places, NEW t \in Tasks, Cut(t) PROVE Places'
<1> DEFINE x == task[t]
<1>0. Others(t) /\ task'[t] = Idle /\ x.pc # "idle" /\ UNCHANGED <<lane, next, handled, entered>>
  BY EndDoes DEF Cut, env, history
<1>1. CASE UNCHANGED <<parked, late>>
  BY <1>0, <1>1, QuietPlaces DEF Idle
<1>2. CASE t = "consumer" /\ parked' = parked \union {x.n} /\ late' = late \union {x.n}
  <2>1. x.n = next /\ next \in DOMAIN lane
    BY <1>0, <1>2 DEF Places, ConsumerAt
  <2>2. ConsumerAt(task["consumer"])'
    BY <1>0, <1>2 DEF ConsumerAt, Idle
  <2>3. JobAt(task["job"])'
    BY <1>0, <1>2 DEF Places, JobAt, Others, Tasks, Handling
  <2>4. ASSUME NEW u \in Tasks, Handling(task'[u]) PROVE InDirection(task[u])'
    BY <1>0, <2>4 DEF Places, InDirection, Handling, Others, Idle
  <2>5. \A n \in parked' : n <= next
    BY <1>2, <2>1, PlaceNumbers DEF Places
  <2> QED BY <1>0, <1>2, <2>1, <2>2, <2>3, <2>4, <2>5 DEF Places, Handling
<1>3. CASE t = "job" /\ x.n \in parked /\ x.n < next /\ parked' = parked \ {x.n} /\ UNCHANGED late
  <2>2. ConsumerAt(task["consumer"])'
    BY <1>0, <1>3 DEF Places, ConsumerAt, Others, Tasks
  <2>3. JobAt(task["job"])'
    BY <1>0, <1>3 DEF JobAt, Idle, Handling
  <2>4. ASSUME NEW u \in Tasks, Handling(task'[u]) PROVE InDirection(task[u])'
    BY <1>0, <2>4 DEF Places, InDirection, Handling, Others, Idle
  <2> QED BY <1>0, <1>3, <2>2, <2>3, <2>4 DEF Places, Handling
<1> QED BY <1>1, <1>2, <1>3 DEF Cut

\* A transition is published: those before it stay.
LEMMA LaneGrows ==
    ASSUME Typed, NEW to, Transition(to)
    PROVE  /\ Len(lane') = Len(lane) + 1 /\ DOMAIN lane' = 1 .. Len(lane) + 1
           /\ \A n \in DOMAIN lane : lane'[n] = lane[n] /\ n \in DOMAIN lane'
<1> DEFINE msg == [from |-> IF mon = "none" THEN "pending" ELSE mon, to |-> to]
<1>1. msg \in Edges /\ lane' = Append(lane, msg) /\ lane \in Seq(Edges)
  BY DEF Transition, Legal, Edges, Statuses, Typed
<1> HIDE DEF msg
<1> QED BY <1>1, AppendProperties, LenProperties

\* The places are kept.
LEMMA TransitionPlaces ==
    ASSUME Typed, Places, NEW to, Transition(to) PROVE Places'
<1>0. UNCHANGED <<next, handled, parked, late, entered, task>>
  BY DEF Transition, keys, history
<1>1. /\ DOMAIN lane \subseteq DOMAIN lane' /\ \A n \in DOMAIN lane : lane'[n] = lane[n]
      /\ next \in 1 .. Len(lane') + 1
  BY LaneGrows, PlaceNumbers DEF Places
<1>2. \A t \in Tasks : Handling(task[t]) => task[t].n \in DOMAIN lane
  BY DEF Places, ConsumerAt, JobAt, Handling, Tasks
<1> QED BY <1>0, <1>1, <1>2 DEF Places, ConsumerAt, JobAt, InDirection, Handling

\* The places are kept by every step.
LEMMA PlacesStep ==
    ASSUME NotifierAssumption, Typed, Typed', Places, [Next]_vars
    PROVE  Places'
<1>1. ASSUME NEW t \in Tasks, Step(t) PROVE Places'
  BY <1>1, WithinPlaces, FlappingPlaces, HandledPlaces, CutPlaces DEF Step
<1>2. ASSUME NEW n \in parked, redrive(n) PROVE Places'
  BY <1>2, RedrivePlaces
<1>3. ASSUME NEW to \in Statuses, Transition(to) PROVE Places'
  BY <1>3, TransitionPlaces
<1>4. ASSUME Edit \/ Tick \/ UNCHANGED vars PROVE Places'
  <2>1. UNCHANGED <<lane, next, handled, parked, late, entered, task>>
    BY <1>4 DEF Edit, Tick, vars, env, keys, history
  <2> QED BY <2>1 DEF Places, ConsumerAt, JobAt, InDirection, Handling
<1> QED BY <1>1, <1>2, <1>3, <1>4, HandlePlaces, JobPlaces DEF Next

-----------------------------------------------------------------------------
(* Nothing is forgotten. *)

Alert(n, r, c, d) == [n |-> n, mark |-> 0, rule |-> r, chan |-> c, dir |-> d]

\* A rule's channels that can be told of a transition were, or will be; or the rule was
\* suppressed.
Spoken(n, r, d) ==
    \A c \in Terms[r].channels \intersect usable : Accounted(Alert(n, r, c, d))
Settled(n, r, d) == <<n, r>> \in suppressed \/ Spoken(n, r, d)

\* A task that is dispatching a transition: each rule is left to do, under way or settled,
\* and each channel of the rule under way is left, in hand or accounted for.
Progressed(x) ==
    Handling(x) /\ x.pc # "flap" /\ x.dir \in Directions =>
        /\ \A r \in Matching(x.dir) :
              r \in x.todo \/ (Telling(x) /\ x.rule = r) \/ Settled(x.n, r, x.dir)
        /\ Telling(x) =>
              \A c \in Terms[x.rule].channels \intersect usable :
                 \/ c \in x.chans
                 \/ c = x.chan /\ x.pc # "channels"
                 \/ Accounted(Alert(x.n, x.rule, c, x.dir))

Recorded ==
    \A t \in Tasks : task[t].pc = "unqueue" /\ task[t].job.id.dir \in Directions =>
        \E o \in outcomes : o.id = task[t].job.id

\* A cooldown stamped for a transition was stamped when its alerts had gone out.
StampsSpoken ==
    \A r \in Rules, d \in {"down", "nodata"} :
        cool[<<r, d>>] # None /\ cool[<<r, d>>].n # 0 => Spoken(cool[<<r, d>>].n, r, d)

Remembers ==
    /\ Recorded /\ StampsSpoken
    /\ \A t \in Tasks : Progressed(task[t])
    /\ NothingIsForgotten

\* What was settled stays settled: no record is lost, and a retry is given up only with its
\* channel or after the record.
Stays ==
    /\ usable' \subseteq usable /\ suppressed \subseteq suppressed'
    /\ \A id : id.dir \in Directions /\ id.chan \in usable' /\ Accounted(id) => Accounted(id)'

\* A retry that leaves and comes back.
LEMMA ReplacedStays ==
    ASSUME outcomes \subseteq outcomes', NEW id, NEW k, k.id = id,
           retry' = Unqueued(id) \union {k}
    PROVE  \A i : Accounted(i) => Accounted(i)'
BY DEF Accounted, Unqueued

\* Every step lets what was settled stay so.
LEMMA StepStays ==
    ASSUME NotifierAssumption, Typed, Recorded, [Next]_vars
    PROVE  Stays
<1>1. ASSUME UNCHANGED <<retry, outcomes>>, usable' \subseteq usable,
             suppressed \subseteq suppressed'
      PROVE  Stays
  BY <1>1 DEF Stays, Accounted
<1>2. ASSUME NEW t \in Tasks, _attempt(t) PROVE Stays
  <2> DEFINE job == task[t].job
  <2>0. UNCHANGED <<outcomes, usable, suppressed>>
    BY <1>2 DEF _attempt, env
  <2>1. \/ job.id.chan \notin usable /\ retry' = Unqueued(job.id)
        \/ UNCHANGED retry
        \/ \E k : retry' = Unqueued(job.id) \union {k} /\ k.id = job.id
    BY <1>2, AttemptDoes
  <2> HIDE DEF job
  <2>2. CASE job.id.chan \notin usable /\ retry' = Unqueued(job.id)
    <3>1. ASSUME NEW id, id.dir \in Directions, id.chan \in usable', Accounted(id) PROVE Accounted(id)'
      BY <2>0, <2>2, <3>1 DEF Accounted, Unqueued
    <3> QED BY <2>0, <3>1 DEF Stays
  <2>3. CASE UNCHANGED retry
    BY <1>1, <2>0, <2>3
  <2>4. CASE \E k : retry' = Unqueued(job.id) \union {k} /\ k.id = job.id
    BY <2>0, <2>4, ReplacedStays DEF Stays
  <2> QED BY <2>1, <2>2, <2>3, <2>4
<1>3. ASSUME NEW t \in Tasks, _publish_final(t) PROVE Stays
  <2> DEFINE job == task[t].job
  <2>0. UNCHANGED <<usable, suppressed>>
    BY <1>3 DEF _publish_final, env
  <2>1. \/ outcomes \subseteq outcomes' /\ UNCHANGED retry
        \/ UNCHANGED outcomes /\ \E k : retry' = Unqueued(job.id) \union {k} /\ k.id = job.id
    BY <1>3, PublishDoes
  <2> HIDE DEF job
  <2>3. CASE outcomes \subseteq outcomes' /\ UNCHANGED retry
    BY <2>0, <2>3 DEF Stays, Accounted
  <2>4. CASE UNCHANGED outcomes /\ \E k : retry' = Unqueued(job.id) \union {k} /\ k.id = job.id
    BY <2>0, <2>4, ReplacedStays DEF Stays
  <2> QED BY <2>1, <2>3, <2>4
<1>4. ASSUME NEW t \in Tasks, Unqueue(t) PROVE Stays
  <2> DEFINE job == task[t].job
  <2>0. UNCHANGED <<usable, suppressed, outcomes>>
    BY <1>4 DEF Unqueue, env, history
  <2>1. retry' = Unqueued(job.id) /\ (job.id.dir \in Directions => \E o \in outcomes : o.id = job.id)
    BY <1>4, UnqueueDoes DEF Recorded
  <2> HIDE DEF job
  <2>3. ASSUME NEW id, id.dir \in Directions, Accounted(id) PROVE Accounted(id)'
    BY <2>0, <2>1, <2>3 DEF Accounted, Unqueued
  <2> QED BY <2>0, <2>3 DEF Stays
<1>5. ASSUME NEW t \in Tasks, Step(t) PROVE Stays
  <2>1. CASE \/ _flapping(t) \/ _exit_flapping(t) \/ Handled(t)
             \/ \E c \in Channels : NextChannel(t, c)
             \/ \E id \in task[t].ids : _abandon_down_retries(t, id)
             \/ Missed(t) \/ Stamped(t) \/ Remind(t) \/ _finish(t) \/ Cut(t)
    <3>1. UNCHANGED <<retry, outcomes, usable>> /\ suppressed \subseteq suppressed'
      BY <2>1 DEF _flapping, _exit_flapping, Handled, NextChannel, _abandon_down_retries, Missed,
           Stamped, Remind, _finish, Cut, env, keys, history
    <3> QED BY <1>1, <3>1
  <2>2. ASSUME NEW r \in Rules, _dispatch(t, r) PROVE Stays
    <3>1. UNCHANGED <<retry, outcomes, usable>> /\ suppressed \subseteq suppressed'
      BY <2>2 DEF _dispatch, Suppress, env, keys
    <3> QED BY <1>1, <3>1
  <2> QED BY <1>2, <1>3, <1>4, <1>5, <2>1, <2>2 DEF Step
<1>6. ASSUME \/ handle
             \/ \E n \in parked : redrive(n)
             \/ \E to \in Statuses : Transition(to)
             \/ Edit \/ Tick \/ UNCHANGED vars
      PROVE  Stays
  <2>1. UNCHANGED <<retry, outcomes, suppressed>> /\ usable' \subseteq usable
    BY <1>6 DEF handle, redrive, Transition, Edit, Tick, vars, env, keys, history
  <2> QED BY <1>1, <2>1
<1>7. ASSUME \/ \E j \in retry : retry_due(j)
             \/ sweep \/ SweepPuts \/ SweepExits
             \/ \E r \in Rules : Renotify(r)
             \/ Forget \/ SecondEnds
      PROVE  Stays
  <2>1. UNCHANGED <<retry, outcomes, suppressed, usable>>
    BY <1>7 DEF retry_due, sweep, SweepPuts, SweepExits, Renotify, Forget, SecondEnds, env, keys, history
  <2> QED BY <1>1, <2>1
<1>8. ASSUME Next PROVE Stays
  <2>1. CASE \E t \in Tasks : Step(t)
    BY <1>5, <2>1
  <2>2. CASE \/ handle
             \/ \E n \in parked : redrive(n)
             \/ \E to \in Statuses : Transition(to)
             \/ Edit \/ Tick
    BY <1>6, <2>2
  <2>3. CASE \/ \E j \in retry : retry_due(j)
             \/ sweep \/ SweepPuts \/ SweepExits
             \/ \E r \in Rules : Renotify(r)
             \/ Forget \/ SecondEnds
    BY <1>7, <2>3
  <2> QED BY <1>8, <2>1, <2>2, <2>3 DEF Next
<1> QED BY <1>6, <1>8

\* A settled rule stays settled.
LEMMA SettledStays ==
    ASSUME Stays, NEW n, NEW r, NEW d \in Directions
    PROVE  /\ Spoken(n, r, d) => Spoken(n, r, d)'
           /\ Settled(n, r, d) => Settled(n, r, d)'
<1>1. ASSUME Spoken(n, r, d) PROVE Spoken(n, r, d)'
  <2> SUFFICES ASSUME NEW c \in Terms[r].channels \intersect usable'
               PROVE  Accounted(Alert(n, r, c, d))'
    BY DEF Spoken
  <2> DEFINE id == Alert(n, r, c, d)
  <2>1. c \in usable /\ Accounted(id)
    BY <1>1 DEF Spoken, Stays
  <2>2. id.dir = d /\ id.chan = c
    BY DEF Alert
  <2> HIDE DEF id
  <2>3. Accounted(id)'
    BY <2>1, <2>2 DEF Stays
  <2> QED BY <2>3 DEF id
<1>2. ASSUME <<n, r>> \in suppressed PROVE <<n, r>> \in suppressed'
  BY <1>2 DEF Stays
<1> QED BY <1>1, <1>2 DEF Settled

\* A task that goes on with what it did has progressed: a channel may only leave those left
\* by being in hand, and a rule by being under way.
LEMMA ProgressedStays ==
    ASSUME Stays, NEW t \in Tasks, Progressed(task[t]),
           Handling(task'[t]) => Handling(task[t]) /\ task[t].pc # "flap",
           task'[t].n = task[t].n, task'[t].dir = task[t].dir,
           task[t].todo \subseteq task'[t].todo,
           Telling(task[t]) <=> Telling(task'[t]),
           Telling(task[t]) =>
              /\ task'[t].rule = task[t].rule /\ task'[t].chan = task[t].chan
              /\ task[t].chans \subseteq task'[t].chans
              /\ task'[t].pc = "channels" => task[t].pc = "channels"
    PROVE  Progressed(task[t])'
<1> SUFFICES ASSUME NEW x, x = task[t], NEW y, y = task'[t],
                    Handling(y), y.pc # "flap", y.dir \in Directions
             PROVE  /\ \A r \in Matching(y.dir) :
                          r \in y.todo \/ (Telling(y) /\ y.rule = r) \/ Settled(y.n, r, y.dir)'
                    /\ Telling(y) =>
                          \A c \in Terms[y.rule].channels \intersect usable' :
                             \/ c \in y.chans
                             \/ c = y.chan /\ y.pc # "channels"
                             \/ Accounted(Alert(y.n, y.rule, c, y.dir))'
  BY DEF Progressed
<1>1. Handling(x) /\ x.pc # "flap" /\ x.dir \in Directions /\ Progressed(x)
  OBVIOUS
<1>2. ASSUME NEW r \in Matching(y.dir)
      PROVE  r \in y.todo \/ (Telling(y) /\ y.rule = r) \/ Settled(y.n, r, y.dir)'
  <2>1. r \in x.todo \/ (Telling(x) /\ x.rule = r) \/ Settled(x.n, r, x.dir)
    BY <1>1 DEF Progressed
  <2>2. Settled(x.n, r, x.dir) => Settled(x.n, r, x.dir)'
    BY <1>1, SettledStays
  <2> QED BY <2>1, <2>2
<1>3. ASSUME Telling(y), NEW c \in Terms[y.rule].channels \intersect usable'
      PROVE  \/ c \in y.chans
             \/ c = y.chan /\ y.pc # "channels"
             \/ Accounted(Alert(y.n, y.rule, c, y.dir))'
  <2> DEFINE id == Alert(x.n, x.rule, c, x.dir)
  <2>1. Telling(x) /\ c \in usable /\ y.rule = x.rule /\ y.chan = x.chan
        /\ x.chans \subseteq y.chans /\ (y.pc = "channels" => x.pc = "channels")
    BY <1>3 DEF Stays
  <2>2. c \in x.chans \/ (c = x.chan /\ x.pc # "channels") \/ Accounted(id)
    BY <1>1, <1>3, <2>1 DEF Progressed
  <2>3. id.dir = x.dir /\ id.chan = c
    BY DEF Alert
  <2>4. Alert(y.n, y.rule, c, y.dir) = id
    BY <2>1
  <2> HIDE DEF id
  <2>5. Accounted(id) => Accounted(id)'
    BY <1>1, <1>3, <2>3 DEF Stays
  <2> QED BY <2>1, <2>2, <2>4, <2>5
<1> QED BY <1>2, <1>3

\* A task in no transition has nothing to progress with.
LEMMA NoneProgressed ==
    ASSUME NEW t \in Tasks,
           ~Handling(task'[t]) \/ task'[t].pc = "flap" \/ task'[t].dir \notin Directions
    PROVE  Progressed(task[t])'
BY DEF Progressed, Handling

\* A delivery that goes on, or is put down with its alert accounted for.
LEMMA PutProgressed ==
    ASSUME Stays, Typed, NEW t \in Tasks, Progressed(task[t]), Holds(task[t]),
           Same(task'[t], task[t]), task'[t].pc \in InHand \union {task[t].ret},
           NEW id, id = task[t].job.id,
           task'[t].pc = "channels" /\ id.dir \in Directions /\ id.chan \in usable'
             => Accounted(id)'
    PROVE  Progressed(task[t])'
<1>1. Shaped(task[t]) /\ task[t].ret \in {"idle", "channels", "abandon"}
  BY DEF Typed, Shaped, TaskRec
<1>2. task'[t].n = 0 \/ task[t].ret # "idle"
  BY <1>1, ShapedFields DEF Same
<1>3. CASE task'[t].n = 0
  BY <1>3, NoneProgressed DEF Handling
<1>4. CASE task[t].n # 0 /\ task'[t].pc # "channels"
  <2>1. Telling(task[t]) /\ Telling(task'[t]) /\ task[t].pc \notin {"idle", "flap"}
    BY <1>1, <1>2, <1>4 DEF Same, Telling, Holds, InHand
  <2> QED BY <1>4, <2>1, ProgressedStays DEF Same, Handling
<1>5. CASE task[t].n # 0 /\ task'[t].pc = "channels"
  <2> SUFFICES ASSUME NEW x, x = task[t], NEW y, y = task'[t],
                      Handling(y), y.pc # "flap", y.dir \in Directions
               PROVE  /\ \A r \in Matching(y.dir) :
                            r \in y.todo \/ (Telling(y) /\ y.rule = r) \/ Settled(y.n, r, y.dir)'
                      /\ Telling(y) =>
                            \A c \in Terms[y.rule].channels \intersect usable' :
                               \/ c \in y.chans
                               \/ c = y.chan /\ y.pc # "channels"
                               \/ Accounted(Alert(y.n, y.rule, c, y.dir))'
    BY DEF Progressed
  <2>1. /\ y.n = x.n /\ y.mark = x.mark /\ y.dir = x.dir /\ y.todo = x.todo /\ y.rule = x.rule
        /\ y.chans = x.chans /\ y.chan = x.chan /\ y.pc = "channels" /\ x.n # 0 /\ x.mark = 0
        /\ Holds(x) /\ x.dir \in Directions /\ Shaped(x) /\ id = x.job.id
    BY <1>1, <1>5 DEF Same, Handling
  <2>2. x.ret = "channels"
    BY <1>5 DEF InHand
  <2>3. Telling(x) /\ Telling(y) /\ Handling(x) /\ x.pc \notin {"flap", "channels"}
    BY <2>1 DEF Telling, Holds, InHand, Handling
  <2>4. id = Alert(x.n, x.rule, x.chan, x.dir)
    BY <2>1, <2>2 DEF Shaped, JobShape, AlertOf, Alert
  <2>5. id.dir = x.dir /\ id.chan = x.chan
    BY <2>4 DEF Alert
  <2>6. Progressed(x)
    OBVIOUS
  <2>7. ASSUME NEW r \in Matching(y.dir)
        PROVE  r \in y.todo \/ (Telling(y) /\ y.rule = r) \/ Settled(y.n, r, y.dir)'
    <3>1. r \in x.todo \/ (Telling(x) /\ x.rule = r) \/ Settled(x.n, r, x.dir)
      BY <2>1, <2>3, <2>6 DEF Progressed
    <3>2. Settled(x.n, r, x.dir) => Settled(x.n, r, x.dir)'
      BY <2>1, SettledStays
    <3> QED BY <2>1, <2>3, <3>1, <3>2
  <2>8. ASSUME NEW c \in Terms[y.rule].channels \intersect usable', c \notin y.chans
        PROVE  Accounted(Alert(y.n, y.rule, c, y.dir))'
    <3> DEFINE i == Alert(x.n, x.rule, c, x.dir)
    <3>1. c \in usable
      BY DEF Stays
    <3>2. c = x.chan \/ Accounted(i)
      BY <2>1, <2>3, <2>6, <2>8, <3>1 DEF Progressed
    <3>3. CASE c = x.chan
      <4>1. Accounted(id)'
        BY <2>1, <2>5, <2>8, <3>3
      <4> QED BY <2>1, <2>4, <3>3, <4>1
    <3>4. CASE Accounted(i)
      <4>1. i.dir = x.dir /\ i.chan = c /\ Alert(y.n, y.rule, c, y.dir) = i
        BY <2>1 DEF Alert
      <4> HIDE DEF i
      <4> QED BY <2>1, <2>8, <3>4, <4>1 DEF Stays
    <3> QED BY <3>2, <3>3, <3>4
  <2> QED BY <2>7, <2>8
<1> QED BY <1>2, <1>3, <1>4, <1>5 DEF Same

\* Those that did not move have progressed as before.
LEMMA OthersProgressed ==
    ASSUME Stays, NEW t \in Tasks, Progressed(task[t]),
           task'[t] = task[t] \/ Kept(task'[t], task[t])
    PROVE  Progressed(task[t])'
<1>1. Kept(task'[t], task[t])
  BY DEF Kept
<1>2. /\ task'[t].pc = task[t].pc /\ task'[t].n = task[t].n /\ task'[t].mark = task[t].mark
      /\ task'[t].dir = task[t].dir /\ task'[t].todo = task[t].todo
      /\ task'[t].rule = task[t].rule /\ task'[t].chan = task[t].chan
      /\ task'[t].chans = task[t].chans
  BY <1>1 DEF Kept
<1>3. CASE task[t].pc = "flap"
  BY <1>2, <1>3, NoneProgressed
<1>4. CASE task[t].pc # "flap"
  <2>1. /\ Handling(task'[t]) => Handling(task[t])
        /\ Telling(task[t]) <=> Telling(task'[t])
    BY <1>2 DEF Handling, Telling
  <2> QED BY <1>2, <1>4, <2>1, ProgressedStays
<1> QED BY <1>3, <1>4

\* _flapping leaves the rules to do, or suppresses them all.
LEMMA FlappingProgressed ==
    ASSUME Stays, Typed, NEW t \in Tasks, _flapping(t)
    PROVE  Progressed(task[t])'
<1> SUFFICES ASSUME NEW x, x = task[t], NEW y, y = task'[t],
                    Handling(y), y.pc # "flap", y.dir \in Directions
             PROVE  /\ \A r \in Matching(y.dir) :
                          r \in y.todo \/ (Telling(y) /\ y.rule = r) \/ Settled(y.n, r, y.dir)'
                    /\ ~Telling(y)
  BY DEF Progressed
<1>1. /\ y.pc \in {"exit", "rules"} /\ y.n = x.n
      /\ \/ y.dir = x.dir /\ suppressed' = suppressed \union ({x.n} \X Matching(x.dir))
         \/ y.dir = x.dir /\ y.todo = Matching(x.dir)
  BY FlappingDoes DEF Directions
<1> QED BY <1>1 DEF Settled, Telling, InHand

\* A rule is dispatched: under way with all its channels left, or suppressed.
LEMMA DispatchProgressed ==
    ASSUME Stays, Typed, StampsSpoken, NEW t \in Tasks, Progressed(task[t]), NEW r \in Rules,
           _dispatch(t, r)
    PROVE  Progressed(task[t])'
<1> SUFFICES ASSUME NEW x, x = task[t], NEW y, y = task'[t],
                    Handling(y), y.pc # "flap", y.dir \in Directions
             PROVE  /\ \A s \in Matching(y.dir) :
                          s \in y.todo \/ (Telling(y) /\ y.rule = s) \/ Settled(y.n, s, y.dir)'
                    /\ Telling(y) => \A c \in Terms[y.rule].channels \intersect usable' : c \in y.chans
  BY DEF Progressed
<1>1. /\ x.pc = "rules" /\ y.n = x.n /\ y.mark = x.mark /\ y.dir = x.dir
      /\ y.todo = x.todo \ {r} /\ r \in x.todo
      /\ \/ y.pc = "rules" /\ (muted \/ Cooling(x, r)) /\ Suppress(x, r)
         \/ y.pc = "channels" /\ y.rule = r /\ y.chans = Terms[r].channels \intersect usable
  BY DispatchDoes DEF On
<1>2. Handling(x) /\ x.n # 0 /\ x.mark = 0 /\ x.dir \in Directions
  BY <1>1 DEF Handling
<1>3. ASSUME NEW s \in Matching(y.dir), s # r
      PROVE  s \in y.todo \/ Settled(y.n, s, y.dir)'
  <2>1. s \in x.todo \/ Settled(x.n, s, x.dir)
    BY <1>1, <1>2 DEF Progressed, Telling, InHand
  <2>2. Settled(x.n, s, x.dir) => Settled(x.n, s, x.dir)'
    BY <1>2, SettledStays
  <2> QED BY <1>1, <1>3, <2>1, <2>2
<1>4. CASE y.pc = "channels"
  <2>1. usable' \subseteq usable /\ Telling(y)
    BY <1>4 DEF Stays, Telling
  <2> QED BY <1>1, <1>3, <1>4, <2>1
<1>5. CASE y.pc # "channels"
  <2>1. y.pc = "rules" /\ (muted \/ Cooling(x, r)) /\ Suppress(x, r) /\ ~Telling(y)
    BY <1>1, <1>5 DEF Telling, InHand
  <2>2. Settled(x.n, r, x.dir)'
    <3>1. CASE muted \/ cool[<<r, x.dir>>].n # x.n
      BY <1>2, <2>1, <3>1 DEF Suppress, Settled
    <3>2. CASE ~muted /\ cool[<<r, x.dir>>].n = x.n
      <4>1. x.dir \in {"down", "nodata"} /\ cool[<<r, x.dir>>] # None
        BY <2>1, <3>2 DEF Cooling
      <4>2. Spoken(x.n, r, x.dir)
        BY <1>2, <3>2, <4>1 DEF StampsSpoken
      <4>3. Settled(x.n, r, x.dir)
        BY <4>2 DEF Settled
      <4> QED BY <1>2, <4>3, SettledStays
    <3> QED BY <3>1, <3>2
  <2> QED BY <1>1, <1>3, <2>1, <2>2
<1> QED BY <1>4, <1>5

\* A rule that has told its channels is settled.
LEMMA Spoke ==
    ASSUME Typed, NEW x, Shaped(x), Progressed(x), Handling(x), x.dir \in Directions,
           x.pc = "channels", x.chans = {}
    PROVE  Spoken(x.n, x.rule, x.dir)
BY DEF Progressed, Telling, Spoken

\* It is done with.
LEMMA RemindProgressed ==
    ASSUME Stays, Typed, NEW t \in Tasks, Progressed(task[t]), Remind(t)
    PROVE  Progressed(task[t])'
<1> SUFFICES ASSUME NEW x, x = task[t], NEW y, y = task'[t],
                    Handling(y), y.pc # "flap", y.dir \in Directions
             PROVE  /\ \A s \in Matching(y.dir) :
                          s \in y.todo \/ (Telling(y) /\ y.rule = s) \/ Settled(y.n, s, y.dir)'
                    /\ ~Telling(y)
  BY DEF Progressed
<1>1. /\ x.pc = "channels" /\ y.pc = "rules" /\ y.n = x.n /\ y.mark = x.mark /\ y.dir = x.dir
      /\ y.todo = x.todo /\ x.chans = {} /\ Shaped(x)
  BY RemindDoes DEF On, Typed
<1>2. Handling(x) /\ x.dir \in Directions
  BY <1>1 DEF Handling
<1>3. Settled(x.n, x.rule, x.dir)
  BY <1>1, <1>2, Spoke DEF Settled
<1>4. ASSUME NEW s \in Matching(y.dir)
      PROVE  s \in y.todo \/ Settled(y.n, s, y.dir)'
  <2>1. s \in x.todo \/ Settled(x.n, s, x.dir)
    BY <1>1, <1>2, <1>3 DEF Progressed
  <2>2. Settled(x.n, s, x.dir) => Settled(x.n, s, x.dir)'
    BY <1>2, SettledStays
  <2> QED BY <1>1, <2>1, <2>2
<1> QED BY <1>1, <1>4 DEF Telling, InHand

\* The next channel comes to hand.
LEMMA NextChannelProgressed ==
    ASSUME Stays, Typed, NEW t \in Tasks, Progressed(task[t]), NEW c \in Channels,
           NextChannel(t, c)
    PROVE  Progressed(task[t])'
<1> SUFFICES ASSUME NEW x, x = task[t], NEW y, y = task'[t],
                    Handling(y), y.pc # "flap", y.dir \in Directions
             PROVE  /\ \A s \in Matching(y.dir) :
                          s \in y.todo \/ (Telling(y) /\ y.rule = s) \/ Settled(y.n, s, y.dir)'
                    /\ \A d \in Terms[y.rule].channels \intersect usable' :
                          \/ d \in y.chans
                          \/ d = y.chan /\ y.pc # "channels"
                          \/ Accounted(Alert(y.n, y.rule, d, y.dir))'
  BY DEF Progressed
<1>1. /\ x.pc = "channels" /\ y.pc \in {"abandon", "attempt"} /\ y.n = x.n /\ y.mark = x.mark
      /\ y.dir = x.dir /\ y.todo = x.todo /\ y.rule = x.rule /\ y.chan = c /\ y.chans = x.chans \ {c}
  BY NextChannelDoes DEF On
<1>2. Handling(x) /\ x.dir \in Directions /\ Telling(x) /\ Telling(y)
  BY <1>1 DEF Handling, Telling, InHand
<1>3. ASSUME NEW s \in Matching(y.dir)
      PROVE  s \in y.todo \/ y.rule = s \/ Settled(y.n, s, y.dir)'
  <2>1. s \in x.todo \/ x.rule = s \/ Settled(x.n, s, x.dir)
    BY <1>1, <1>2 DEF Progressed
  <2>2. Settled(x.n, s, x.dir) => Settled(x.n, s, x.dir)'
    BY <1>2, SettledStays
  <2> QED BY <1>1, <2>1, <2>2
<1>4. ASSUME NEW d \in Terms[y.rule].channels \intersect usable', d \notin y.chans, d # c
      PROVE  Accounted(Alert(y.n, y.rule, d, y.dir))'
  <2> DEFINE i == Alert(x.n, x.rule, d, x.dir)
  <2>1. d \in usable
    BY DEF Stays
  <2>2. Accounted(i)
    BY <1>1, <1>2, <1>4, <2>1 DEF Progressed
  <2>3. i.dir = x.dir /\ i.chan = d /\ Alert(y.n, y.rule, d, y.dir) = i
    BY <1>1 DEF Alert
  <2> HIDE DEF i
  <2> QED BY <1>2, <1>4, <2>2, <2>3 DEF Stays
<1> QED BY <1>1, <1>2, <1>3, <1>4

\* The steps of a task keep what it progressed.
LEMMA StepProgressed ==
    ASSUME NotifierAssumption, Typed, Recorded, StampsSpoken, Stays,
           NEW t \in Tasks, Progressed(task[t]), Step(t)
    PROVE  Progressed(task[t])'
<1>1. CASE Handled(t) \/ Cut(t)
  BY <1>1, EndDoes, NoneProgressed DEF Idle, Handling
<1>2. CASE _exit_flapping(t)
  <2>1. Same(task'[t], task[t]) /\ task[t].pc = "exit" /\ task'[t].pc = "rules"
    BY <1>2, ExitDoes
  <2> QED BY <2>1, ProgressedStays DEF Same, Handling, Telling, InHand
<1>3. CASE Stamped(t)
  <2>1. Same(task'[t], task[t]) /\ task[t].pc = "channels" /\ task'[t].pc = "channels"
    BY <1>3, StampedDoes
  <2> QED BY <2>1, ProgressedStays DEF Same, Handling, Telling, InHand
<1>4. CASE Missed(t)
  <2>1. /\ On(task'[t], task[t]) /\ task'[t].todo = task[t].todo /\ task'[t].rule = task[t].rule
        /\ task'[t].chan = task[t].chan /\ task'[t].chans = task[t].chans
        /\ task[t].pc = "abandon" /\ task'[t].pc = "attempt"
    BY <1>4, MissedDoes
  <2> QED BY <2>1, ProgressedStays DEF On, Handling, Telling, InHand
<1>5. CASE \E id \in task[t].ids : _abandon_down_retries(t, id)
  <2>1. /\ On(task'[t], task[t]) /\ task'[t].todo = task[t].todo /\ task'[t].rule = task[t].rule
        /\ task'[t].chan = task[t].chan /\ task'[t].chans = task[t].chans
        /\ task[t].pc = "abandon" /\ task'[t].pc \in {"abandon", "finish"}
    BY <1>5, AbandonDoes
  <2> QED BY <2>1, ProgressedStays DEF On, Handling, Telling, InHand
<1>6. CASE _attempt(t) \/ _finish(t) \/ _publish_final(t) \/ Unqueue(t)
  <2> SUFFICES ASSUME NEW id, id = task[t].job.id
               PROVE  Progressed(task[t])'
    OBVIOUS
  <2>1. Holds(task[t]) /\ Same(task'[t], task[t]) /\ task'[t].pc \in InHand \union {task[t].ret}
    BY <1>6, AttemptDoes, FinishDoes, PublishDoes, UnqueueDoes DEF InHand
  <2>2. ASSUME task'[t].pc = "channels", id.dir \in Directions, id.chan \in usable'
        PROVE  Accounted(id)'
    <3>1. CASE _attempt(t)
      <4>1. UNCHANGED usable
        BY <3>1 DEF _attempt, env
      <4> QED BY <2>2, <3>1, <4>1, AttemptDoes DEF Accounted
    <3>2. CASE _finish(t)
      BY <2>2, <3>2, FinishDoes
    <3>3. CASE _publish_final(t)
      <4> SUFFICES ASSUME NEW job, job = task[t].job PROVE Accounted(id)'
        OBVIOUS
      <4>1. job.id = id
        OBVIOUS
      <4>2. \/ outcomes' = IF job.id.dir \in Directions
                            THEN outcomes \union {[id |-> job.id, state |-> job.final]} ELSE outcomes
            \/ \E k : retry' = Unqueued(job.id) \union {k} /\ k.id = job.id
        BY <3>3, PublishDoes
      <4>3. ASSUME outcomes' = outcomes \union {[id |-> job.id, state |-> job.final]}
            PROVE  Accounted(id)'
        <5> DEFINE o == [id |-> job.id, state |-> job.final]
        <5>1. o \in outcomes' /\ o.id = id
          BY <4>1, <4>3
        <5> HIDE DEF o
        <5> QED BY <5>1 DEF Accounted
      <4>4. ASSUME NEW k, retry' = Unqueued(job.id) \union {k}, k.id = job.id PROVE Accounted(id)'
        BY <4>1, <4>4 DEF Accounted
      <4> HIDE DEF Accounted
      <4>5. job.id.dir \in Directions
        BY <2>2, <4>1
      <4> QED BY <4>2, <4>3, <4>4, <4>5
    <3>4. CASE Unqueue(t)
      <4>1. UNCHANGED outcomes
        BY <3>4 DEF Unqueue, history
      <4>2. task[t].pc = "unqueue"
        BY <3>4 DEF Unqueue
      <4>3. \E o \in outcomes : o.id = id
        BY <2>2, <4>2 DEF Recorded
      <4> QED BY <4>1, <4>3 DEF Accounted
    <3> QED BY <1>6, <3>1, <3>2, <3>3, <3>4
  <2> QED BY <2>1, <2>2, PutProgressed
<1> QED BY <1>1, <1>2, <1>3, <1>4, <1>5, <1>6, FlappingProgressed, DispatchProgressed,
       NextChannelProgressed, RemindProgressed DEF Step

\* A step of a task leaves the other alone.
LEMMA StepOthers ==
    ASSUME NotifierAssumption, Typed, NEW t \in Tasks, Step(t)
    PROVE  Others(t)
<1>1. ASSUME NEW r \in Rules, _dispatch(t, r) PROVE Others(t)
  BY <1>1, DispatchDoes
<1>2. ASSUME NEW c \in Channels, NextChannel(t, c) PROVE Others(t)
  BY <1>2, NextChannelDoes
<1>3. ASSUME NEW id \in task[t].ids, _abandon_down_retries(t, id) PROVE Others(t)
  BY <1>3, AbandonDoes
<1>4. CASE _flapping(t) \/ _exit_flapping(t) \/ Handled(t) \/ Cut(t)
  BY <1>4, FlappingDoes, ExitDoes, EndDoes
<1>5. CASE Missed(t) \/ Stamped(t) \/ Remind(t)
  BY <1>5, MissedDoes, StampedDoes, RemindDoes
<1>6. CASE _attempt(t) \/ _finish(t) \/ _publish_final(t) \/ Unqueue(t)
  BY <1>6, AttemptDoes, FinishDoes, PublishDoes, UnqueueDoes
<1> QED BY <1>1, <1>2, <1>3, <1>4, <1>5, <1>6 DEF Step

\* Who takes a transition out of those that wait.
LEMMA TakeOthers ==
    ASSUME Typed, Places, NEW t \in Tasks,
           \/ t = "consumer" /\ handle
           \/ t = "job" /\ \E n \in parked : redrive(n)
    PROVE  /\ \A u \in Tasks : u # t => Kept(task'[u], task[u])
           /\ UNCHANGED task \/ (task'[t].pc = "flap" /\ task'[t].mark = 0)
           /\ UNCHANGED <<lane, handled, parked, usable, suppressed, retry, outcomes, told,
                          downfail, entered, named, late, loose, cool>>
<1>1. /\ UNCHANGED <<lane, handled, parked, usable, suppressed, retry, outcomes, told,
                     downfail, entered, named, late, loose, cool>>
  BY DEF handle, redrive, env, history
<1>2. UNCHANGED task \/ \E n \in DOMAIN lane : on_transition(t, n)
  <2>1. CASE t = "consumer" /\ handle
    <3>1. next <= Len(lane) => next \in DOMAIN lane
      BY PlaceNumbers
    <3> QED BY <2>1, <3>1 DEF handle
  <2>2. CASE t = "job" /\ \E n \in parked : redrive(n)
    BY <2>2 DEF redrive, Places
  <2> QED BY <2>1, <2>2
<1>3. CASE UNCHANGED task
  BY <1>1, <1>3 DEF Kept
<1>4. CASE \E n \in DOMAIN lane : on_transition(t, n)
  BY <1>1, <1>4, TakeDoes
<1> QED BY <1>2, <1>3, <1>4

\* What is taken out of retry: has been recorded.
LEMMA RecordedStep ==
    ASSUME NotifierAssumption, Typed, Typed', Places, Recorded, [Next]_vars
    PROVE  Recorded'
<1>1. ASSUME outcomes \subseteq outcomes', NEW t \in Tasks,
             \A u \in Tasks : u # t => Kept(task'[u], task[u]),
             task'[t].pc # "unqueue"
      PROVE  Recorded'
  BY <1>1 DEF Recorded, Kept
<1>2. ASSUME NEW t \in Tasks, _publish_final(t) PROVE Recorded'
  <2>1. \A u \in Tasks : u # t => task'[u] = task[u]
    BY <1>2, PublishDoes DEF Others
  <2>2. outcomes \subseteq outcomes'
    BY <1>2, PublishDoes
  <2>3. CASE task'[t].pc # "unqueue"
    BY <1>1, <2>1, <2>2, <2>3 DEF Kept
  <2>4. CASE task'[t].pc = "unqueue"
    <3>0. task[t].ret # "unqueue"
      BY DEF Typed, Shaped, TaskRec
    <3>1. /\ task'[t].job = task[t].job
          /\ task[t].job.id.dir \in Directions =>
               outcomes' = outcomes \union {[id |-> task[t].job.id, state |-> task[t].job.final]}
      BY <1>2, <2>4, <3>0, PublishDoes
    <3>2. ASSUME task[t].job.id.dir \in Directions
          PROVE  \E o \in outcomes' : o.id = task'[t].job.id
      <4> DEFINE o == [id |-> task[t].job.id, state |-> task[t].job.final]
      <4>1. o \in outcomes' /\ o.id = task'[t].job.id
        BY <3>1, <3>2
      <4> QED BY <4>1
    <3> QED BY <2>1, <2>2, <3>1, <3>2 DEF Recorded
  <2> QED BY <2>3, <2>4
<1>3. ASSUME NEW t \in Tasks, Step(t), ~_publish_final(t) PROVE Recorded'
  <2>1. UNCHANGED outcomes
    BY <1>3 DEF Step, _flapping, _exit_flapping, Handled, _dispatch, NextChannel,
       _abandon_down_retries, Missed, Stamped, Remind, _attempt, _finish, Unqueue, Cut, history
  <2>2. \A u \in Tasks : u # t => Kept(task'[u], task[u])
    BY <1>3, StepOthers DEF Others, Kept
  <2>3. task'[t].pc # "unqueue"
    <3>0. task[t].ret # "unqueue"
      BY DEF Typed, Shaped, TaskRec
    <3>1. CASE \E r \in Rules : _dispatch(t, r)
      BY <3>1, DispatchDoes
    <3>2. CASE \E c \in Channels : NextChannel(t, c)
      BY <3>2, NextChannelDoes
    <3>3. CASE \E id \in task[t].ids : _abandon_down_retries(t, id)
      BY <3>3, AbandonDoes
    <3>4. CASE _flapping(t) \/ _exit_flapping(t) \/ Handled(t) \/ Cut(t)
      BY <3>4, FlappingDoes, ExitDoes, EndDoes DEF Idle
    <3>5. CASE Missed(t) \/ Stamped(t) \/ Remind(t)
      BY <3>5, MissedDoes, StampedDoes, RemindDoes
    <3>6. CASE _attempt(t) \/ _finish(t) \/ Unqueue(t)
      BY <3>0, <3>6, AttemptDoes, FinishDoes, UnqueueDoes
    <3> QED BY <1>3, <3>1, <3>2, <3>3, <3>4, <3>5, <3>6 DEF Step
  <2> QED BY <1>1, <2>1, <2>2, <2>3
<1>4. ASSUME NEW t \in Tasks,
             \/ t = "consumer" /\ handle
             \/ t = "job" /\ \E n \in parked : redrive(n)
      PROVE  Recorded'
  <2>1. \A u \in Tasks : u # t => Kept(task'[u], task[u])
    BY <1>4, TakeOthers
  <2>2. UNCHANGED outcomes /\ (UNCHANGED task \/ task'[t].pc = "flap")
    BY <1>4, TakeOthers
  <2>3. CASE UNCHANGED task
    BY <2>2, <2>3 DEF Recorded
  <2> QED BY <1>1, <2>1, <2>2, <2>3
<1>5. ASSUME \/ \E j \in retry : retry_due(j)
             \/ sweep \/ SweepPuts \/ SweepExits
             \/ \E r \in Rules : Renotify(r)
             \/ Forget \/ SecondEnds
      PROVE  Recorded'
  <2>1. UNCHANGED outcomes /\ Others("job") /\ "job" \in Tasks
    BY <1>5, JobDoes
  <2>2. task'["job"].pc # "unqueue"
    <3>1. CASE \E j \in retry : retry_due(j)
      BY <3>1, RetryDueDoes
    <3>2. CASE sweep \/ SweepPuts
      BY <3>2, SweepDoes
    <3>3. CASE SweepExits
      BY <3>3, SweepExitsDoes DEF Idle
    <3>4. CASE \E r \in Rules : Renotify(r)
      BY <3>4, RenotifyDoes
    <3>5. CASE Forget \/ SecondEnds
      BY <2>1, <3>5, EndDoes DEF Idle
    <3> QED BY <1>5, <3>1, <3>2, <3>3, <3>4, <3>5
  <2> QED BY <1>1, <2>1, <2>2 DEF Others, Kept
<1>6. ASSUME \/ \E to \in Statuses : Transition(to)
             \/ Edit \/ Tick \/ UNCHANGED vars
      PROVE  Recorded'
  <2>1. UNCHANGED <<outcomes, task>>
    BY <1>6 DEF Transition, Edit, Tick, vars, env, keys, history
  <2> QED BY <2>1 DEF Recorded
<1> QED BY <1>2, <1>3, <1>4, <1>5, <1>6 DEF Next, Tasks

\* A stamp is for alerts that have gone out.
LEMMA StampsStep ==
    ASSUME NotifierAssumption, Typed, Places, Stays, StampsSpoken,
           \A t \in Tasks : Progressed(task[t]), [Next]_vars
    PROVE  StampsSpoken'
<1>1. ASSUME UNCHANGED cool PROVE StampsSpoken'
  <2> SUFFICES ASSUME NEW r \in Rules, NEW d \in {"down", "nodata"}, NEW n,
                      n = cool[<<r, d>>].n, cool[<<r, d>>] # None, n # 0
               PROVE  Spoken(n, r, d)'
    BY <1>1 DEF StampsSpoken
  <2>1. Spoken(n, r, d)
    BY DEF StampsSpoken
  <2> QED BY <2>1, SettledStays DEF Directions
<1>2. ASSUME Reset PROVE StampsSpoken'
  <2>1. cool' = [x \in Rules \X {"down", "nodata"} |-> None]
    BY <1>2 DEF Reset, Typed
  <2> QED BY <2>1 DEF StampsSpoken
<1>3. ASSUME NEW t \in Tasks, Stamped(t) PROVE StampsSpoken'
  <2> SUFFICES ASSUME NEW x, x = task[t],
                      NEW r \in Rules, NEW d \in {"down", "nodata"}, NEW n,
                      n = cool'[<<r, d>>].n, cool'[<<r, d>>] # None, n # 0
               PROVE  Spoken(n, r, d)'
    BY DEF StampsSpoken
  <2>1. /\ x.pc = "channels" /\ x.chans = {} /\ x.dir \in {"down", "nodata"} /\ Shaped(x)
        /\ Progressed(x) /\ x.n # 0
    BY <1>3 DEF Stamped, Stamps, Typed, Shaped, PlainShape
  <2>2. x.rule \in Rules
    BY <2>1, ShapedFields
  <2>3. cool' = [cool EXCEPT ![<<x.rule, x.dir>>] =
                    [at |-> x.at, n |-> IF x.mark = 0 THEN x.n ELSE 0]]
    BY <1>3 DEF Stamped
  <2>4. CASE <<r, d>> = <<x.rule, x.dir>>
    <3>1. cool'[<<r, d>>] = [at |-> x.at, n |-> IF x.mark = 0 THEN x.n ELSE 0]
      BY <2>1, <2>2, <2>3, <2>4 DEF Typed
    <3>2. x.mark = 0 /\ n = x.n /\ r = x.rule /\ d = x.dir
      BY <2>4, <3>1
    <3>3. Handling(x) /\ x.dir \in Directions
      BY <2>1, <3>2 DEF Handling, Directions
    <3>4. Spoken(n, r, d)
      BY <2>1, <3>2, <3>3, Spoke
    <3> QED BY <3>4, SettledStays DEF Directions
  <2>5. CASE <<r, d>> # <<x.rule, x.dir>>
    <3>1. cool'[<<r, d>>] = cool[<<r, d>>]
      BY <2>1, <2>2, <2>3, <2>5 DEF Typed
    <3>2. Spoken(n, r, d)
      BY <3>1 DEF StampsSpoken
    <3> QED BY <3>2, SettledStays DEF Directions
  <2> QED BY <2>4, <2>5
<1>4. ASSUME NEW t \in Tasks, Step(t) PROVE StampsSpoken'
  <2>1. CASE _exit_flapping(t)
    BY <1>2, <2>1 DEF _exit_flapping
  <2>2. CASE \/ _flapping(t) \/ Handled(t)
             \/ \E r \in Rules : _dispatch(t, r)
             \/ \E c \in Channels : NextChannel(t, c)
             \/ \E id \in task[t].ids : _abandon_down_retries(t, id)
             \/ Missed(t) \/ Remind(t)
             \/ _attempt(t) \/ _finish(t) \/ _publish_final(t) \/ Unqueue(t)
             \/ Cut(t)
    <3>1. UNCHANGED cool
      BY <2>2 DEF _flapping, Handled, _dispatch, NextChannel,
         _abandon_down_retries, Missed, Remind, _attempt, _finish, _publish_final, Unqueue, Cut, keys
    <3> QED BY <1>1, <3>1
  <2> QED BY <1>3, <1>4, <2>1, <2>2 DEF Step
<1>5. ASSUME \/ handle
             \/ \E n \in parked : redrive(n)
             \/ \E j \in retry : retry_due(j)
             \/ sweep \/ SweepPuts
             \/ \E r \in Rules : Renotify(r)
             \/ Forget \/ SecondEnds
             \/ \E to \in Statuses : Transition(to)
             \/ Edit \/ Tick \/ UNCHANGED vars
      PROVE  StampsSpoken'
  <2>1. UNCHANGED cool
    BY <1>5 DEF handle, redrive, retry_due, sweep, SweepPuts, Renotify, Forget, SecondEnds,
       Transition, Edit, Tick, vars, keys
  <2> QED BY <1>1, <2>1
<1> QED BY <1>2, <1>4, <1>5 DEF Next, SweepExits

\* Every task that dispatches has progressed.
LEMMA ProgressedStep ==
    ASSUME NotifierAssumption, Typed, Typed', Places, Stays, Recorded, StampsSpoken,
           \A t \in Tasks : Progressed(task[t]), [Next]_vars
    PROVE  \A t \in Tasks : Progressed(task[t])'
<1>1. ASSUME NEW t \in Tasks, Step(t), NEW u \in Tasks PROVE Progressed(task[u])'
  BY <1>1, StepProgressed, StepOthers, OthersProgressed DEF Others
<1>2. ASSUME NEW t \in Tasks,
             \/ t = "consumer" /\ handle
             \/ t = "job" /\ \E n \in parked : redrive(n),
             NEW u \in Tasks
      PROVE  Progressed(task[u])'
  <2>1. /\ u # t => Kept(task'[u], task[u])
        /\ UNCHANGED task \/ task'[t].pc = "flap"
    BY <1>2, TakeOthers
  <2> QED BY <2>1, NoneProgressed, OthersProgressed
<1>3. ASSUME \/ \E j \in retry : retry_due(j)
             \/ sweep \/ SweepPuts \/ SweepExits
             \/ \E r \in Rules : Renotify(r)
             \/ Forget \/ SecondEnds,
             NEW u \in Tasks
      PROVE  Progressed(task[u])'
  BY <1>3, JobDoes, NoneProgressed, OthersProgressed DEF Others
<1>4. ASSUME \/ \E to \in Statuses : Transition(to)
             \/ Edit \/ Tick \/ UNCHANGED vars,
             NEW u \in Tasks
      PROVE  Progressed(task[u])'
  <2>1. UNCHANGED task
    BY <1>4 DEF Transition, Edit, Tick, vars
  <2> QED BY <2>1, OthersProgressed
<1>5. ASSUME handle \/ \E n \in parked : redrive(n), NEW u \in Tasks PROVE Progressed(task[u])'
  BY <1>2, <1>5 DEF Tasks
<1> QED BY <1>1, <1>3, <1>4, <1>5 DEF Next

\* NothingIsForgotten, said with what the proof uses.
LEMMA ForgottenIs ==
    NothingIsForgotten <=>
        \A n \in handled \ entered : \A r \in Matching(direction_of(lane[n])) :
            Settled(n, r, direction_of(lane[n]))
BY DEF NothingIsForgotten, Settled, Spoken, Alert

\* Which steps handle a transition, and what becomes of those that were.
LEMMA HandledGrows ==
    ASSUME NotifierAssumption, Typed, Places, [Next]_vars
    PROVE  /\ entered \subseteq entered'
           /\ \A n \in handled : lane'[n] = lane[n]
           /\ UNCHANGED handled \/ \E t \in Tasks : Handled(t)
<1>1. ASSUME NEW t \in Tasks, Step(t)
      PROVE  /\ entered \subseteq entered' /\ UNCHANGED lane
             /\ UNCHANGED handled \/ Handled(t)
  <2>1. CASE _flapping(t) \/ _exit_flapping(t) \/ Handled(t) \/ Cut(t)
    BY <2>1 DEF _flapping, _exit_flapping, Handled, Cut, env, history
  <2>2. CASE \/ \E r \in Rules : _dispatch(t, r)
             \/ \E c \in Channels : NextChannel(t, c)
             \/ \E id \in task[t].ids : _abandon_down_retries(t, id)
             \/ Missed(t) \/ Stamped(t) \/ Remind(t)
             \/ _attempt(t) \/ _finish(t) \/ _publish_final(t) \/ Unqueue(t)
    BY <2>2 DEF _dispatch, NextChannel, _abandon_down_retries, Missed, Stamped, Remind,
       _attempt, _finish, _publish_final, Unqueue, env, history
  <2> QED BY <1>1, <2>1, <2>2 DEF Step
<1>2. ASSUME \/ handle
             \/ \E n \in parked : redrive(n)
             \/ \E j \in retry : retry_due(j)
             \/ sweep \/ SweepPuts \/ SweepExits
             \/ \E r \in Rules : Renotify(r)
             \/ Forget \/ SecondEnds
             \/ Edit \/ Tick \/ UNCHANGED vars
      PROVE  UNCHANGED <<entered, lane, handled>>
  BY <1>2 DEF handle, redrive, retry_due, sweep, SweepPuts, SweepExits, Renotify, Forget, SecondEnds,
     Edit, Tick, vars, env, history
<1>3. ASSUME NEW to \in Statuses, Transition(to)
      PROVE  UNCHANGED <<entered, handled>> /\ \A n \in handled : lane'[n] = lane[n]
  BY <1>3, LaneGrows DEF Transition, history, Places
<1> QED BY <1>1, <1>2, <1>3 DEF Next

\* A transition that is done with has each of its rules settled.
LEMMA DoneSettled ==
    ASSUME NotifierAssumption, Typed, Places, NEW t \in Tasks, Progressed(task[t]), Handled(t),
           NEW n, n = task[t].n, n \notin entered
    PROVE  \A r \in Matching(direction_of(lane[n])) : Settled(n, r, direction_of(lane[n]))
<1> DEFINE x == task[t]
<1>1. x.pc = "rules" /\ x.todo = {} /\ x.mark = 0 /\ x.n # 0
  BY DEF Handled, Typed, Shaped, PlainShape
<1>2. Handling(x) /\ ~Telling(x)
  BY <1>1 DEF Handling, Telling, InHand
<1>3. x.dir = direction_of(lane[n])
  BY <1>2 DEF Places, InDirection
<1>4. CASE direction_of(lane[n]) \in Directions
  BY <1>1, <1>2, <1>3, <1>4 DEF Progressed
<1>5. CASE direction_of(lane[n]) \notin Directions
  BY <1>5, MatchingTyped
<1> QED BY <1>4, <1>5

\* The invariant of what is remembered.
LEMMA RemembersStep ==
    ASSUME NotifierAssumption, Typed, Typed', Places, Remembers, [Next]_vars
    PROVE  Remembers'
<1>1. Stays
  BY StepStays DEF Remembers
<1>2. Recorded' /\ StampsSpoken' /\ \A t \in Tasks : Progressed(task[t])'
  BY <1>1, RecordedStep, StampsStep, ProgressedStep DEF Remembers
<1>3. ASSUME NEW n, NEW d, n \in handled' \ entered', d = direction_of(lane'[n]),
             NEW r \in Matching(d)
      PROVE  Settled(n, r, d)'
  <2>1. d \in Directions
    <3>1. d \notin Directions => Matching(d) = {}
      BY MatchingTyped
    <3> QED BY <3>1
  <2>2. Settled(n, r, d)
    <3>1. CASE n \in handled
      <4>1. n \in handled \ entered /\ d = direction_of(lane[n])
        BY <1>3, <3>1, HandledGrows
      <4> QED BY <1>3, <4>1, ForgottenIs DEF Remembers
    <3>2. CASE n \notin handled
      <4>1. PICK t \in Tasks : Handled(t)
        BY <1>3, <3>2, HandledGrows
      <4>2. n = task[t].n /\ UNCHANGED <<lane, entered>>
        BY <1>3, <3>2, <4>1 DEF Handled, env, history
      <4>3. d = direction_of(lane[n]) /\ n \notin entered
        BY <1>3, <4>2
      <4> QED BY <1>3, <4>1, <4>2, <4>3, DoneSettled DEF Remembers
    <3> QED BY <3>1, <3>2
  <2> QED BY <1>1, <2>1, <2>2, SettledStays
<1>4. NothingIsForgotten'
  <2>1. \A n \in handled' \ entered' : \A r \in Matching(direction_of(lane'[n])) :
            Settled(n, r, direction_of(lane[n]))'
    BY <1>3
  <2> QED BY <2>1 DEF NothingIsForgotten, Settled, Spoken, Alert
<1> QED BY <1>2, <1>4 DEF Remembers

\* It holds at first.
LEMMA InitRemembers == Init => Places /\ Remembers
<1> SUFFICES ASSUME Init PROVE Places /\ Remembers
  OBVIOUS
<1>1. \A t \in Tasks : task[t] = Idle
  BY DEF Init
<1>2. ~Handling(Idle) /\ Idle.pc = "idle"
  BY DEF Idle, Handling
<1>3. Places
  BY <1>1, <1>2 DEF Init, Places, ConsumerAt, JobAt, Tasks
<1>4. Recorded /\ NothingIsForgotten /\ \A t \in Tasks : Progressed(task[t])
  BY <1>1, <1>2 DEF Recorded, NothingIsForgotten, Progressed, Init
<1>5. StampsSpoken
  BY DEF Init, StampsSpoken
<1> QED BY <1>3, <1>4, <1>5 DEF Remembers

-----------------------------------------------------------------------------
(* The theorem. *)

\* Once a transition is handled, each of its alerts was told, given up on with a record,
\* waits to be retried or was suppressed, whichever await either task dies at.
THEOREM NothingForgotten == Spec => []NothingIsForgotten
<1> DEFINE Inv == Typed /\ Places /\ Remembers
<1>1. Init => Inv
  BY InitTyped, InitRemembers, NotifierAssumption
<1>2. Inv /\ [Next]_vars => Inv'
  <2> SUFFICES ASSUME Typed, Places, Remembers, [Next]_vars PROVE Inv'
    OBVIOUS
  <2>1. Typed'
    BY TypedStep, NotifierAssumption DEF Places
  <2>2. Places' /\ Remembers'
    BY <2>1, PlacesStep, RemembersStep, NotifierAssumption
  <2> QED BY <2>1, <2>2
<1>3. Inv => NothingIsForgotten
  BY DEF Remembers
<1> QED BY <1>1, <1>2, <1>3, PTL DEF Spec

-----------------------------------------------------------------------------
(* What comes to hand, and what has been heard. *)

\* An alert that was told, waits to be or is in hand; a recovery of those; and any alert that
\* was, or is recorded.
Voiced(id) ==
    \/ id \in told
    \/ \E j \in retry : j.id = id
    \/ \E t \in Tasks : Holds(task[t]) /\ task[t].job.id = id
Heard(e) == e.dir = "recovered" /\ Voiced(e)
Known(id) == Voiced(id) \/ \E o \in outcomes : o.id = id

\* x tries to tell a down.
Tries(x) == x.pc \in {"attempt", "finish"} /\ x.ret # "abandon" /\ x.job.id.dir = "down"

\* x is the second alert of a monitor that is still down after flapping.
Second(x) == x.mark # 0 /\ x.dir = "down"

\* An idle task holds and alerts nothing.
LEMMA IdleHolds ==
    /\ ~Holds(Idle) /\ ~Second(Idle) /\ ~Handling(Idle) /\ ~Tries(Idle) /\ ~Abandons(Idle)
    /\ Idle.pc = "idle" /\ Idle.dir = "none" /\ Idle.mark = 0
BY DEF Holds, Second, Handling, Tries, Abandons, InHand, Idle

\* A step from x to y stays on its work, enters flapping or ends.
Works(x, y) ==
    \/ y = Idle
    \/ y.n = x.n /\ y.mark = x.mark /\ y.dir \in {x.dir, "flapping"} /\ y.over = x.over

\* What it holds it held, takes up from its transition, or found in retry:.
Grips(t, x, y) ==
    Holds(y) =>
        \/ /\ Holds(x) /\ y.job.id = x.job.id /\ y.ret = x.ret
           /\ y.pc \in {"attempt", "finish"} => x.pc = "attempt"
        \/ /\ \E c \in Channels : NextChannel(t, c)
           /\ x.dir # "recovered" /\ y.job.id = AlertOf(y) /\ y.ret = "channels"
           /\ y.pc = "attempt" /\ y.job.final = "" /\ y.dir = x.dir
        \/ /\ Missed(t) /\ y.job.id = AlertOf(x) /\ y.ret = "channels"
           /\ y.pc = "attempt" /\ y.job.final = "" /\ y.dir = x.dir
        \/ /\ x.pc = "abandon" /\ y.pc = "finish" /\ y.ret = "abandon"
           /\ y.job.id \in x.ids /\ Waits(y.job.id)

\* Every step of a task is one on its work, and holds no other delivery.
LEMMA StepDoes ==
    ASSUME NotifierAssumption, Typed, NEW t \in Tasks, Step(t),
           NEW x, x = task[t], NEW y, y = task'[t]
    PROVE  Works(x, y) /\ Grips(t, x, y)
<1>1. CASE _flapping(t) \/ _exit_flapping(t) \/ Handled(t) \/ Cut(t)
  <2>1. CASE _flapping(t)
    BY <2>1, FlappingDoes DEF Works, Grips, Holds, InHand
  <2>2. CASE _exit_flapping(t)
    BY <2>2, ExitDoes DEF Works, Grips, Holds, InHand, Same
  <2>3. CASE Handled(t) \/ Cut(t)
    <3>1. y = Idle
      BY <2>3, EndDoes
    <3> QED BY <3>1, IdleHolds DEF Works, Grips
  <2> QED BY <1>1, <2>1, <2>2, <2>3
<1>2. CASE \E r \in Rules : _dispatch(t, r)
  BY <1>2, DispatchDoes DEF Works, Grips, Holds, InHand, On
<1>3. ASSUME NEW c \in Channels, NextChannel(t, c)
      PROVE  /\ y.n = x.n /\ y.mark = x.mark /\ y.dir = x.dir /\ y.over = x.over
             /\ Holds(y) => /\ x.dir # "recovered" /\ y.job.id = AlertOf(y) /\ y.ret = "channels"
                            /\ y.pc = "attempt" /\ y.job.final = ""
  <2>1. /\ On(y, x) /\ y.rule = x.rule /\ y.chan = c /\ y.ret = "channels"
        /\ \/ y.pc = "abandon"
           \/ x.dir # "recovered" /\ y.pc = "attempt" /\ y.job = Fresh(x, c, FALSE)
    BY <1>3, NextChannelDoes
  <2>2. Fresh(x, c, FALSE).id = [n |-> x.n, mark |-> x.mark, rule |-> x.rule, chan |-> c, dir |-> x.dir]
        /\ Fresh(x, c, FALSE).final = ""
    BY DEF Fresh
  <2> QED BY <2>1, <2>2 DEF On, Holds, InHand, AlertOf
<1>4. CASE \E id \in task[t].ids : _abandon_down_retries(t, id)
  <2>1. PICK id \in x.ids : _abandon_down_retries(t, id)
    BY <1>4
  <2>2. /\ On(y, x) /\ x.pc = "abandon"
        /\ \/ y.pc = "abandon"
           \/ /\ y.pc = "finish" /\ y.ret = "abandon" /\ y.job.id = id
              /\ Waits(id)
    BY <2>1, AbandonDoes
  <2>3. CASE y.pc = "abandon"
    BY <2>2, <2>3 DEF Works, Grips, On, Holds, InHand
  <2>4. CASE y.pc # "abandon"
    <3>1. Waits(y.job.id)
      BY <2>2, <2>4
    <3> QED BY <2>1, <2>2, <2>4, <3>1 DEF Works, Grips, On
  <2> QED BY <2>3, <2>4
<1>5. CASE Missed(t)
  BY <1>5, MissedDoes DEF Works, Grips, On
<1>6. CASE Stamped(t) \/ Remind(t)
  BY <1>6, StampedDoes, RemindDoes DEF Works, Grips, On, Same, Holds, InHand
<1>7. CASE _attempt(t) \/ _finish(t) \/ _publish_final(t) \/ Unqueue(t)
  <2>0. x.ret \in {"idle", "channels", "abandon"}
    BY DEF Typed, Shaped, TaskRec
  <2>1. CASE _attempt(t)
    BY <2>0, <2>1, AttemptDoes DEF Works, Grips, Same, Holds, InHand
  <2>2. CASE _finish(t)
    BY <2>0, <2>2, FinishDoes DEF Works, Grips, Same, Holds, InHand
  <2>3. CASE _publish_final(t)
    BY <2>0, <2>3, PublishDoes DEF Works, Grips, Same, Holds, InHand
  <2>4. CASE Unqueue(t)
    BY <2>0, <2>4, UnqueueDoes DEF Works, Grips, Same, Holds, InHand
  <2> QED BY <1>7, <2>1, <2>2, <2>3, <2>4
<1>8. CASE \E c \in Channels : NextChannel(t, c)
  BY <1>3, <1>8 DEF Works, Grips
<1> QED BY <1>1, <1>2, <1>4, <1>5, <1>6, <1>7, <1>8 DEF Step

\* The job takes something up outside transitions.
LEMMA StartDoes ==
    ASSUME NotifierAssumption, Typed, Typed',
           \/ \E j \in retry : retry_due(j)
           \/ sweep \/ SweepPuts \/ SweepExits
           \/ \E r \in Rules : Renotify(r)
           \/ Forget \/ SecondEnds,
           NEW y, y = task'["job"]
    PROVE  /\ Holds(y) => /\ y.job \in retry /\ y.mark = 0 /\ y.ret = "idle"
                          /\ y.over = (task["consumer"].dir = "recovered")
                          /\ y.pc = (IF y.job.final = "" THEN "attempt" ELSE "publish")
           /\ Second(y) => y.n = Len(lane)
           /\ y.pc # "abandon" /\ (Holds(y) => y.ret # "abandon")
<1>1. CASE \E j \in retry : retry_due(j)
  BY <1>1, RetryDueDoes DEF Second
<1>2. CASE sweep \/ SweepPuts
  BY <1>2, SweepDoes DEF Second, Holds, InHand
<1>3. CASE SweepExits
  <2>1. y = Idle \/ (y.pc = "rules" /\ y.n = Len(lane))
    BY <1>3, SweepExitsDoes
  <2> QED BY <2>1, IdleHolds DEF Holds, InHand
<1>4. CASE \E r \in Rules : Renotify(r)
  BY <1>4, RenotifyDoes DEF Second, Holds, InHand
<1>5. CASE Forget \/ SecondEnds
  <2>1. y = Idle
    BY <1>5, EndDoes DEF Tasks
  <2> QED BY <2>1, IdleHolds
<1> QED BY <1>1, <1>2, <1>3, <1>4, <1>5

\* What a step may add to retry:.
LEMMA RetryGrows ==
    ASSUME NotifierAssumption, Typed, [Next]_vars, NEW j \in retry', j \notin retry
    PROVE  \E t \in Tasks :
             /\ Holds(task[t]) /\ j.id = task[t].job.id
             /\ \/ /\ _attempt(t) /\ j.final = "" /\ task[t].pc = "attempt"
                   /\ task[t].ret # "abandon" /\ Loosen(task[t])
                \/ /\ task[t].pc = "publish" /\ j.final = task[t].job.final /\ j.final # ""
<1>1. ASSUME NEW t \in Tasks, _attempt(t)
      PROVE  /\ Holds(task[t]) /\ j.id = task[t].job.id
             /\ _attempt(t) /\ j.final = "" /\ task[t].pc = "attempt"
             /\ task[t].ret # "abandon" /\ Loosen(task[t])
  <2> DEFINE job == task[t].job
  <2>1. /\ task[t].pc = "attempt" /\ Holds(task[t]) /\ task[t].ret # "abandon"
        /\ \/ retry' = Unqueued(job.id)
           \/ UNCHANGED retry
           \/ /\ \E k : retry' = Unqueued(job.id) \union {k} /\ k.id = job.id /\ k.final = ""
              /\ Loosen(task[t])
    BY <1>1, AttemptDoes
  <2> HIDE DEF job
  <2>2. j.id = job.id /\ j.final = "" /\ Loosen(task[t])
    BY <2>1 DEF Unqueued
  <2> QED BY <1>1, <2>1, <2>2 DEF job
<1>2. ASSUME NEW t \in Tasks, _publish_final(t)
      PROVE  /\ Holds(task[t]) /\ j.id = task[t].job.id
             /\ task[t].pc = "publish" /\ j.final = task[t].job.final /\ j.final # ""
  <2> DEFINE job == task[t].job
  <2>1. /\ task[t].pc = "publish" /\ Holds(task[t]) /\ job.final # ""
        /\ \/ UNCHANGED retry
           \/ \E k : retry' = Unqueued(job.id) \union {k} /\ k.id = job.id /\ k.final = job.final
    BY <1>2, PublishDoes
  <2> HIDE DEF job
  <2>2. j.id = job.id /\ j.final = job.final
    BY <2>1 DEF Unqueued
  <2> QED BY <2>1, <2>2 DEF job
<1>3. ASSUME NEW t \in Tasks, Step(t), ~_attempt(t), ~_publish_final(t) PROVE FALSE
  <2>1. CASE \/ _flapping(t) \/ _exit_flapping(t) \/ Handled(t)
             \/ \E r \in Rules : _dispatch(t, r)
             \/ \E c \in Channels : NextChannel(t, c)
             \/ \E id \in task[t].ids : _abandon_down_retries(t, id)
             \/ Missed(t) \/ Stamped(t) \/ Remind(t) \/ _finish(t) \/ Cut(t)
    BY <2>1 DEF _flapping, _exit_flapping, Handled, _dispatch, NextChannel, _abandon_down_retries,
       Missed, Stamped, Remind, _finish, Cut, keys
  <2>2. CASE Unqueue(t)
    BY <2>2 DEF Unqueue, Unqueued
  <2> QED BY <1>3, <2>1, <2>2 DEF Step
<1>4. ASSUME \/ handle
             \/ \E n \in parked : redrive(n)
             \/ \E i \in retry : retry_due(i)
             \/ sweep \/ SweepPuts \/ SweepExits
             \/ \E r \in Rules : Renotify(r)
             \/ Forget \/ SecondEnds
             \/ \E to \in Statuses : Transition(to)
             \/ Edit \/ Tick \/ UNCHANGED vars
      PROVE  FALSE
  BY <1>4 DEF handle, redrive, retry_due, sweep, SweepPuts, SweepExits, Renotify, Forget, SecondEnds,
     Transition, Edit, Tick, vars, keys
<1> QED BY <1>1, <1>2, <1>3, <1>4 DEF Next

\* The other histories: what is told was in hand, what is recorded was to be, and excuses stay.
LEMMA HistoryGrows ==
    ASSUME NotifierAssumption, Typed, [Next]_vars
    PROVE  /\ loose \subseteq loose' /\ late \subseteq late'
           /\ \A d \in told' : d \in told \/ \E t \in Tasks :
                 /\ _attempt(t) /\ task[t].pc = "attempt" /\ Holds(task[t])
                 /\ task[t].ret # "abandon" /\ d = task[t].job.id /\ Loosen(task[t])
           /\ \A o \in outcomes' : o \in outcomes \/ \E t \in Tasks :
                 /\ task[t].pc = "publish" /\ Holds(task[t])
                 /\ o.id = task[t].job.id /\ o.state = task[t].job.final
<1>1. ASSUME NEW t \in Tasks, _attempt(t)
      PROVE  /\ loose \subseteq loose' /\ UNCHANGED <<late, outcomes>>
             /\ \A d \in told' : d \in told \/
                 /\ _attempt(t) /\ task[t].pc = "attempt" /\ Holds(task[t])
                 /\ task[t].ret # "abandon" /\ d = task[t].job.id /\ Loosen(task[t])
  <2>1. /\ task[t].pc = "attempt" /\ Holds(task[t]) /\ task[t].ret # "abandon"
        /\ \/ UNCHANGED <<told, loose>>
           \/ UNCHANGED told /\ Loosen(task[t])
           \/ told' \subseteq told \union {task[t].job.id} /\ Loosen(task[t])
    BY <1>1, AttemptDoes
  <2>2. Loosen(task[t]) => loose \subseteq loose'
    BY DEF Loosen
  <2>3. UNCHANGED <<late, outcomes>>
    BY <1>1 DEF _attempt
  <2> QED BY <1>1, <2>1, <2>2, <2>3
<1>2. ASSUME NEW t \in Tasks, _publish_final(t)
      PROVE  /\ UNCHANGED <<loose, late, told>>
             /\ \A o \in outcomes' : o \in outcomes \/
                 /\ task[t].pc = "publish" /\ Holds(task[t])
                 /\ o.id = task[t].job.id /\ o.state = task[t].job.final
  <2> DEFINE rec == [id |-> task[t].job.id, state |-> task[t].job.final]
  <2>1. task[t].pc = "publish" /\ Holds(task[t]) /\ outcomes' \subseteq outcomes \union {rec}
    BY <1>2, PublishDoes
  <2>2. UNCHANGED <<loose, late, told>>
    BY <1>2 DEF _publish_final
  <2>3. rec.id = task[t].job.id /\ rec.state = task[t].job.final
    OBVIOUS
  <2> HIDE DEF rec
  <2> QED BY <2>1, <2>2, <2>3
<1>3. ASSUME NEW t \in Tasks, Step(t), ~_attempt(t), ~_publish_final(t)
      PROVE  loose \subseteq loose' /\ late \subseteq late' /\ UNCHANGED <<told, outcomes>>
  <2>1. CASE \/ _flapping(t) \/ _exit_flapping(t) \/ Handled(t)
             \/ \E r \in Rules : _dispatch(t, r)
             \/ \E c \in Channels : NextChannel(t, c)
             \/ \E id \in task[t].ids : _abandon_down_retries(t, id)
             \/ Missed(t) \/ Stamped(t) \/ Remind(t) \/ Unqueue(t)
    BY <2>1 DEF _flapping, _exit_flapping, Handled, _dispatch, NextChannel, _abandon_down_retries,
       Missed, Stamped, Remind, Unqueue, history
  <2>2. CASE _finish(t)
    BY <2>2 DEF _finish, Loosen
  <2>3. CASE Cut(t)
    BY <2>3 DEF Cut
  <2> QED BY <1>3, <2>1, <2>2, <2>3 DEF Step
<1>4. ASSUME \/ handle
             \/ \E n \in parked : redrive(n)
             \/ \E i \in retry : retry_due(i)
             \/ sweep \/ SweepPuts \/ SweepExits
             \/ \E r \in Rules : Renotify(r)
             \/ Forget \/ SecondEnds
             \/ \E to \in Statuses : Transition(to)
             \/ Edit \/ Tick \/ UNCHANGED vars
      PROVE  UNCHANGED <<loose, late, told, outcomes>>
  BY <1>4 DEF handle, redrive, retry_due, sweep, SweepPuts, SweepExits, Renotify, Forget, SecondEnds,
     Transition, Edit, Tick, vars, history
<1> QED BY <1>1, <1>2, <1>3, <1>4 DEF Next

\* t starts to tell an alert.
Takes(t, id) ==
    /\ id \in Id /\ task[t].pc \in {"channels", "abandon"}
    /\ id.n = task[t].n /\ id.mark = task[t].mark /\ id.dir = task[t].dir
    /\ id.dir = "recovered" => Missed(t) /\ id = AlertOf(task[t])

\* What is in hand was there already, or is taken up.
LEMMA HandGrows ==
    ASSUME NotifierAssumption, Typed, Typed', Places, [Next]_vars, NEW u \in Tasks,
           Holds(task'[u]), NEW id, id = task'[u].job.id
    PROVE  Voiced(id) \/ Takes(u, id)
<1>0. id \in Id
  <2>1. task'[u].job \in Job
    BY DEF Typed, Shaped, JobShape
  <2> QED BY <2>1 DEF Job
<1>1. ASSUME Kept(task'[u], task[u]) PROVE Voiced(id)
  BY <1>1 DEF Kept, Holds, Voiced
<1>2. ASSUME NEW t \in Tasks, Step(t) PROVE Voiced(id) \/ Takes(u, id)
  <2>1. CASE u # t
    BY <1>1, <1>2, <2>1, StepOthers DEF Others, Kept
  <2>2. CASE u = t
    <3> SUFFICES ASSUME NEW x, x = task[u], NEW y, y = task'[u] PROVE Voiced(id) \/ Takes(u, id)
      OBVIOUS
    <3>1. /\ Step(u) /\ Holds(y) /\ id = y.job.id
      BY <1>2, <2>2
    <3>2. /\ Works(x, y) /\ Grips(u, x, y)
          /\ y = Idle \/ (y.n = x.n /\ y.mark = x.mark)
      BY <3>1, StepDoes DEF Works
    <3>3. \/ Holds(x) /\ y.job.id = x.job.id
          \/ /\ \E c \in Channels : NextChannel(u, c)
             /\ x.dir # "recovered" /\ y.job.id = AlertOf(y) /\ y.dir = x.dir
          \/ Missed(u) /\ y.job.id = AlertOf(x)
          \/ Waits(y.job.id)
      BY <3>1, <3>2 DEF Grips
    <3>4. CASE Holds(x) /\ y.job.id = x.job.id
      BY <3>1, <3>4 DEF Voiced
    <3>5. CASE /\ \E c \in Channels : NextChannel(u, c)
               /\ x.dir # "recovered" /\ y.job.id = AlertOf(y) /\ y.dir = x.dir
      <4>1. x.pc = "channels" /\ y.n = x.n /\ y.mark = x.mark
        BY <3>1, <3>2, <3>5, IdleHolds DEF NextChannel
      <4>2. id.n = x.n /\ id.mark = x.mark /\ id.dir = x.dir
        BY <3>1, <3>5, <4>1 DEF AlertOf
      <4> QED BY <1>0, <3>5, <4>1, <4>2 DEF Takes
    <3>6. CASE Missed(u) /\ y.job.id = AlertOf(x)
      <4>1. x.pc = "abandon" /\ id = AlertOf(x)
        BY <3>1, <3>6 DEF Missed
      <4>2. id.n = x.n /\ id.mark = x.mark /\ id.dir = x.dir
        BY <4>1 DEF AlertOf
      <4> QED BY <1>0, <3>6, <4>1, <4>2 DEF Takes
    <3>7. CASE Waits(y.job.id)
      BY <3>1, <3>7 DEF Waits, Voiced
    <3> QED BY <3>3, <3>4, <3>5, <3>6, <3>7
  <2> QED BY <2>1, <2>2
<1>3. ASSUME NEW t \in Tasks,
             \/ t = "consumer" /\ handle
             \/ t = "job" /\ \E n \in parked : redrive(n)
      PROVE  Voiced(id)
  <2>1. /\ u # t => Kept(task'[u], task[u])
        /\ UNCHANGED task \/ task'[t].pc = "flap"
    BY <1>3, TakeOthers
  <2>2. CASE UNCHANGED task
    BY <2>2 DEF Voiced
  <2>3. CASE task'[t].pc = "flap"
    BY <1>1, <2>1, <2>3 DEF Holds, InHand
  <2> QED BY <2>1, <2>2, <2>3
<1>4. ASSUME \/ \E j \in retry : retry_due(j)
             \/ sweep \/ SweepPuts \/ SweepExits
             \/ \E r \in Rules : Renotify(r)
             \/ Forget \/ SecondEnds
      PROVE  Voiced(id)
  <2>1. Others("job") /\ "job" \in Tasks
    BY <1>4, JobDoes
  <2>2. CASE u = "job"
    <3>1. task'["job"].job \in retry
      BY <1>4, <2>2, StartDoes
    <3> QED BY <2>2, <3>1 DEF Voiced
  <2> QED BY <1>1, <2>1, <2>2 DEF Others, Kept
<1>5. ASSUME \/ \E to \in Statuses : Transition(to)
             \/ Edit \/ Tick \/ UNCHANGED vars
      PROVE  Voiced(id)
  <2>1. UNCHANGED task
    BY <1>5 DEF Transition, Edit, Tick, vars
  <2> QED BY <2>1 DEF Voiced
<1>6. ASSUME handle \/ \E n \in parked : redrive(n) PROVE Voiced(id)
  BY <1>3, <1>6 DEF Tasks
<1> QED BY <1>2, <1>4, <1>5, <1>6 DEF Next

\* So with what is voiced.
LEMMA VoicedGrows ==
    ASSUME NotifierAssumption, Typed, Typed', Places, [Next]_vars, NEW id, Voiced(id)'
    PROVE  Voiced(id) \/ \E t \in Tasks : Takes(t, id)
<1>1. CASE id \in told'
  BY <1>1, HistoryGrows DEF Voiced
<1>2. CASE \E j \in retry' : j.id = id
  BY <1>2, RetryGrows DEF Voiced
<1>3. CASE \E t \in Tasks : Holds(task'[t]) /\ task'[t].job.id = id
  BY <1>3, HandGrows
<1> QED BY <1>1, <1>2, <1>3 DEF Voiced

\* And with recoveries: the next one heard is that which Missed takes up.
LEMMA HeardGrows ==
    ASSUME NotifierAssumption, Typed, Typed', Places, [Next]_vars, NEW e, Heard(e)'
    PROVE  Heard(e) \/ \E t \in Tasks : Missed(t) /\ e = AlertOf(task[t]) /\ e \in Id
                                        /\ task[t].pc = "abandon"
<1>1. e.dir = "recovered" /\ Voiced(e)'
  BY DEF Heard
<1>2. CASE Voiced(e)
  BY <1>1, <1>2 DEF Heard
<1>3. ASSUME NEW t \in Tasks, Takes(t, e)
      PROVE  Missed(t) /\ e = AlertOf(task[t]) /\ e \in Id /\ task[t].pc = "abandon"
  BY <1>1, <1>3 DEF Takes, Missed
<1> QED BY <1>1, <1>2, <1>3, VoicedGrows

-----------------------------------------------------------------------------
(* Every alert there is an id of is of a transition in its direction. *)

Lawful(id) ==
    /\ id \in Id
    /\ id.dir = "recovered" => id.mark = 0
    /\ id.mark = 0 /\ id.dir \in Directions =>
         id.n \in 1 .. next /\ id.n \in DOMAIN lane /\ id.dir = direction_of(lane[id.n])
IdsAreTransitions == \A id : Known(id) => Lawful(id)

\* The offset and the lane only grow.
LEMMA Onward ==
    ASSUME NotifierAssumption, Typed, Places, [Next]_vars
    PROVE  /\ next' \in Nat /\ next <= next'
           /\ \A n \in DOMAIN lane : n \in DOMAIN lane' /\ lane'[n] = lane[n]
<1>0. next \in Nat
  BY PlaceNumbers
<1>1. CASE handle
  BY <1>0, <1>1 DEF handle, env
<1>2. CASE \E to \in Statuses : Transition(to)
  BY <1>0, <1>2, LaneGrows DEF Transition
<1>3. ASSUME NEW t \in Tasks, Step(t) PROVE UNCHANGED <<next, lane>>
  BY <1>3 DEF Step, _flapping, _exit_flapping, Handled, _dispatch, NextChannel, _abandon_down_retries,
     Missed, Stamped, Remind, _attempt, _finish, _publish_final, Unqueue, Cut, env
<1>4. CASE \/ \E n \in parked : redrive(n)
           \/ \E i \in retry : retry_due(i)
           \/ sweep \/ SweepPuts \/ SweepExits
           \/ \E r \in Rules : Renotify(r)
           \/ Forget \/ SecondEnds
           \/ Edit \/ Tick \/ UNCHANGED vars
  <2>1. UNCHANGED <<next, lane>>
    BY <1>4 DEF redrive, retry_due, sweep, SweepPuts, SweepExits, Renotify, Forget, SecondEnds,
       Edit, Tick, vars, env
  <2> QED BY <1>0, <2>1
<1> QED BY <1>0, <1>1, <1>2, <1>3, <1>4 DEF Next

\* What is told next is of the transition in progress.
LEMMA TakesLawful ==
    ASSUME Typed, Places, NEW t \in Tasks, NEW id, Takes(t, id)
    PROVE  Lawful(id)
<1> SUFFICES ASSUME NEW x, x = task[t] PROVE Lawful(id)
  OBVIOUS
<1>1. /\ id \in Id /\ x.pc \in {"channels", "abandon"} /\ id.n = x.n /\ id.mark = x.mark /\ id.dir = x.dir
  BY DEF Takes
<1>2. x.n # 0 /\ (x.dir = "recovered" => x.mark = 0)
  BY <1>1 DEF Typed, Shaped, PlainShape
<1>3. ASSUME id.mark = 0, id.dir \in Directions
      PROVE  id.n \in 1 .. next /\ id.n \in DOMAIN lane /\ id.dir = direction_of(lane[id.n])
  <2>1. Handling(x) /\ x.pc # "idle"
    BY <1>1, <1>2, <1>3 DEF Handling
  <2>2. InDirection(x)
    BY <2>1 DEF Places
  <2>3. x.dir = direction_of(lane[x.n])
    BY <1>1, <1>3, <2>2 DEF InDirection, Directions
  <2>4. x.n \in DOMAIN lane /\ x.n <= next
    <3>1. CASE t = "consumer"
      BY <2>1, <3>1, PlaceNumbers DEF Places, ConsumerAt
    <3>2. CASE t = "job"
      BY <2>1, <3>2 DEF Places, JobAt
    <3> QED BY <3>1, <3>2 DEF Tasks
  <2>5. x.n \in Nat \ {0}
    BY <2>4, PlaceNumbers
  <2>6. next \in Nat
    BY PlaceNumbers
  <2>7. x.n \in 1 .. next
    BY <2>4, <2>5, <2>6
  <2> QED BY <1>1, <2>3, <2>4, <2>7
<1> QED BY <1>1, <1>2, <1>3 DEF Lawful

\* Nothing else is known.
LEMMA KnownGrows ==
    ASSUME NotifierAssumption, Typed, Typed', Places, [Next]_vars, NEW id, Known(id)'
    PROVE  Known(id) \/ \E t \in Tasks : Takes(t, id)
<1>1. CASE Voiced(id)'
  BY <1>1, VoicedGrows DEF Known
<1>2. ASSUME NEW o \in outcomes', o.id = id PROVE Known(id)
  BY <1>2, HistoryGrows DEF Known, Voiced
<1> QED BY <1>1, <1>2 DEF Known

\* The ids of a step are of transitions.
LEMMA IdsStep ==
    ASSUME NotifierAssumption, Typed, Typed', Places, IdsAreTransitions, [Next]_vars
    PROVE  IdsAreTransitions'
<1> SUFFICES ASSUME NEW id, Known(id)' PROVE Lawful(id)'
  BY DEF IdsAreTransitions
<1>1. Lawful(id)
  BY KnownGrows, TakesLawful DEF IdsAreTransitions
<1>2. /\ next' \in Nat /\ next <= next' /\ next \in Nat
      /\ \A n \in DOMAIN lane : n \in DOMAIN lane' /\ lane'[n] = lane[n]
  BY Onward, PlaceNumbers
<1>3. ASSUME id.n \in 1 .. next PROVE id.n \in 1 .. next'
  BY <1>2, <1>3
<1> QED BY <1>1, <1>2, <1>3 DEF Lawful

\* A recovery that was heard is no later than the offset and the lane.
LEMMA HeardWithin ==
    ASSUME Typed, Places, IdsAreTransitions, NEW e, Heard(e)
    PROVE  /\ e \in Id /\ e.mark = 0 /\ e.n \in Nat /\ e.n <= next /\ e.n <= Len(lane)
           /\ e.n \in DOMAIN lane /\ direction_of(lane[e.n]) = "recovered"
<1>1. Lawful(e) /\ e.dir = "recovered"
  BY DEF Heard, Known, IdsAreTransitions
<1>2. e \in Id /\ e.mark = 0 /\ e.n \in 1 .. next /\ e.n \in DOMAIN lane /\ e.dir = direction_of(lane[e.n])
  BY <1>1 DEF Lawful, Directions
<1>3. next \in Nat /\ Len(lane) \in Nat /\ DOMAIN lane = 1 .. Len(lane)
  BY PlaceNumbers
<1> QED BY <1>1, <1>2, <1>3

-----------------------------------------------------------------------------
(* No down after its recovery. *)

\* A delivery the other task held at a recovery, or one of a transition handled late.
Excused(id) == id \in loose \/ id.n \in late

\* Its channel was told of a later recovery, or is about to be.
After(id) == \E e : Heard(e) /\ e.chan = id.chan /\ e.n > id.n

\* j would be told as a down, with no excuse.
Pending(j) == j.id.dir = "down" /\ j.final = "" /\ ~Excused(j.id)

\* Retries, a delivery in hand and a second alert come before any later recovery.
PendingFirst == \A j \in retry : Pending(j) => ~After(j.id)
HeldFirst(x) == Tries(x) /\ ~Excused(x.job.id) /\ ~x.over => ~After(x.job.id)
SecondFirst(x) == Second(x) /\ x.n \notin late /\ ~x.over => \A e : Heard(e) => e.n <= x.n

\* While y recovers, what x has in hand of before is marked.
Overtaken(x, y) ==
    y.dir = "recovered" =>
        /\ Tries(x) /\ x.job.id.n < y.n /\ x.job.id.n \notin late => x.over
        /\ Second(x) /\ x.n < y.n /\ x.n \notin late => x.over

\* While x abandons, the retries of before are on its list or in hand.
Abandoned(x) ==
    Abandons(x) =>
        \A j \in retry : Pending(j) /\ j.id.chan = x.chan /\ j.id.n < x.n =>
            j.id \in x.ids \/ (x.pc # "abandon" /\ x.job.id = j.id)

InOrder ==
    /\ PendingFirst
    /\ \A t \in Tasks : HeldFirst(task[t]) /\ Abandoned(task[t])
    /\ SecondFirst(task["job"])
    /\ Overtaken(task["job"], task["consumer"])

\* No recovery is heard of that was not before.
Calm == \A e : Heard(e)' => Heard(e)

\* x goes on as y: over stays set.
Endures(y, x) == Kept(y, x) /\ (~y.over => ~x.over)

\* A step that lets nothing new be heard excuses no less and overtakes no more.
LEMMA CalmAfter ==
    ASSUME NotifierAssumption, Typed, [Next]_vars, NEW id
    PROVE  /\ Excused(id) => Excused(id)'
           /\ Calm /\ After(id)' => After(id)
BY HistoryGrows DEF Excused, Calm, After

\* Otherwise Missed takes the recovery up, and all else stays.
LEMMA MissedStays ==
    ASSUME NotifierAssumption, Typed, Typed', Places, [Next]_vars
    PROVE  Calm \/ \E t \in Tasks : Missed(t)
BY HeardGrows DEF Calm

\* What Missed makes heard.
LEMMA MissedHeard ==
    ASSUME NotifierAssumption, Typed, Typed', Places, [Next]_vars, NEW t \in Tasks, Missed(t)
    PROVE  /\ UNCHANGED <<retry, told, loose, late, outcomes, next, lane>> /\ Others(t)
           /\ task[t].pc = "abandon" /\ task[t].ids = {} /\ task[t].dir = "recovered"
           /\ Abandons(task[t]) /\ Handling(task[t]) /\ task[t].mark = 0 /\ task[t].n \in Nat
           /\ task'[t].dir = "recovered" /\ ~Tries(task'[t]) /\ ~Second(task'[t])
           /\ ~Abandons(task'[t])
           /\ \A e : Heard(e)' => Heard(e) \/ (e.n = task[t].n /\ e.chan = task[t].chan)
<1> SUFFICES ASSUME NEW x, x = task[t], NEW y, y = task'[t]
    PROVE  /\ UNCHANGED <<retry, told, loose, late, outcomes, next, lane>> /\ Others(t)
           /\ x.pc = "abandon" /\ x.ids = {} /\ x.dir = "recovered"
           /\ Abandons(x) /\ Handling(x) /\ x.mark = 0 /\ x.n \in Nat
           /\ y.dir = "recovered" /\ ~Tries(y) /\ ~Second(y) /\ ~Abandons(y)
           /\ \A e : Heard(e)' => Heard(e) \/ (e.n = x.n /\ e.chan = x.chan)
  OBVIOUS
<1>1. UNCHANGED <<retry, told, loose, late, outcomes, next, lane>>
  BY DEF Missed, env
<1>2. /\ Others(t) /\ x.pc = "abandon" /\ x.ids = {} /\ On(y, x)
      /\ y.pc = "attempt" /\ y.ret = "channels" /\ y.job.id = AlertOf(x)
  BY MissedDoes
<1>3. Abandons(x) /\ x.dir = "recovered" /\ x.n # 0 /\ x.mark = 0 /\ x.n \in Nat
  BY <1>2 DEF Abandons, Typed, Shaped, TellShape, PlainShape, TaskRec
<1>4. Handling(x)
  BY <1>2, <1>3 DEF Handling
<1>5. y.dir = "recovered" /\ AlertOf(x).dir = "recovered"
  BY <1>2, <1>3 DEF On, AlertOf
<1>6. ~Tries(y) /\ ~Second(y) /\ ~Abandons(y)
  BY <1>2, <1>5 DEF Tries, Second, Abandons, Holds
<1>7. ASSUME NEW e, Heard(e)', ~Heard(e) PROVE e.n = x.n /\ e.chan = x.chan
  <2>1. PICK u \in Tasks : Missed(u) /\ e = AlertOf(task[u])
    BY <1>7, HeardGrows
  <2>2. u = t
    <3>1. CASE u # t
      <4>1. task'[t] = task[t] /\ task'[t].pc = "attempt"
        BY <1>2, <2>1, <3>1, MissedDoes DEF Others
      <4> QED BY <1>2, <4>1
    <3> QED BY <3>1
  <2> QED BY <2>1, <2>2 DEF AlertOf
<1> QED BY <1>1, <1>2, <1>3, <1>4, <1>5, <1>6, <1>7

\* A task's number and the offset.
LEMMA WhereAre ==
    ASSUME Typed, Places
    PROVE  /\ task["consumer"].pc # "idle" =>
                task["consumer"].mark = 0 /\ task["consumer"].n = next /\ task["consumer"].n # 0
                /\ next <= Len(lane)
           /\ task["consumer"].dir = "recovered" => task["consumer"].pc # "idle"
           /\ task["consumer"].pc = "idle" => task["consumer"].mark = 0
           /\ Handling(task["job"]) =>
                task["job"].n \in Nat /\ task["job"].n <= next /\ task["job"].n \in late
<1>1. task["consumer"].pc # "idle" =>
        task["consumer"].mark = 0 /\ task["consumer"].n = next /\ task["consumer"].n # 0
        /\ next <= Len(lane)
  BY PlaceNumbers DEF Places, ConsumerAt
<1>2. /\ Shaped(task["consumer"]) /\ "consumer" \in Tasks
  BY DEF Typed, Tasks
<1>3. task["consumer"].dir = "recovered" => task["consumer"].pc # "idle"
  BY <1>2 DEF Shaped, PlainShape
<1>4. task["consumer"].pc = "idle" => task["consumer"].mark = 0
  BY <1>2 DEF Shaped, PlainShape, RetryShape
<1>5. Handling(task["job"]) =>
        task["job"].n \in Nat /\ task["job"].n <= next /\ task["job"].n \in late
  BY PlaceNumbers DEF Places, JobAt
<1> QED BY <1>1, <1>3, <1>4, <1>5

\* What the job takes up itself.
Starts ==
    \/ \E j \in retry : retry_due(j)
    \/ sweep \/ SweepPuts \/ SweepExits
    \/ \E r \in Rules : Renotify(r)
    \/ Forget \/ SecondEnds

\* t takes a transition.
Gets(t) == (t = "consumer" /\ handle) \/ (t = "job" /\ \E n \in parked : redrive(n))

\* A task goes on as it was, takes a step, takes a transition, or starts something.
LEMMA TaskGoes ==
    ASSUME NotifierAssumption, Typed, Typed', Places, [Next]_vars, NEW u \in Tasks
    PROVE  \/ Endures(task'[u], task[u])
           \/ Step(u)
           \/ Gets(u) /\ task'[u].pc = "flap" /\ task'[u].mark = 0
           \/ u = "job" /\ Starts
<1>1. ASSUME NEW t \in Tasks, Step(t) PROVE Endures(task'[u], task[u]) \/ Step(u)
  <2>1. CASE t = u
    BY <1>1, <2>1
  <2>2. CASE t # u
    BY <1>1, <2>2, StepOthers DEF Others, Endures, Kept
  <2> QED BY <2>1, <2>2
<1>2. ASSUME NEW t \in Tasks, NEW n \in DOMAIN lane, on_transition(t, n), Gets(t)
      PROVE  \/ Endures(task'[u], task[u])
             \/ Gets(u) /\ task'[u].pc = "flap" /\ task'[u].mark = 0
  <2>1. CASE u = t
    BY <1>2, <2>1, TakeDoes
  <2>2. CASE u # t
    BY <1>2, <2>2, TakeDoes DEF Endures
  <2> QED BY <2>1, <2>2
<1>3. CASE handle
  <2>1. CASE UNCHANGED task
    BY <2>1 DEF Endures, Kept
  <2>2. CASE on_transition("consumer", next)
    <3>1. next \in DOMAIN lane
      BY <1>3, PlaceNumbers DEF handle
    <3> QED BY <1>2, <1>3, <2>2, <3>1 DEF Gets, Tasks
  <2> QED BY <1>3, <2>1, <2>2 DEF handle
<1>4. CASE \E n \in parked : redrive(n)
  <2>1. PICK n \in parked : redrive(n)
    BY <1>4
  <2>2. n \in DOMAIN lane /\ on_transition("job", n) /\ Gets("job")
    BY <2>1 DEF Places, redrive, Gets
  <2> QED BY <1>2, <2>2 DEF Tasks
<1>5. CASE Starts
  <2>1. Others("job")
    BY <1>5, JobDoes DEF Starts
  <2> QED BY <1>5, <2>1 DEF Others, Endures, Kept
<1>6. CASE \/ \E to \in Statuses : Transition(to)
           \/ Edit \/ Tick \/ UNCHANGED vars
  <2>1. UNCHANGED task
    BY <1>6 DEF Transition, Edit, Tick, vars
  <2> QED BY <2>1 DEF Endures, Kept
<1> QED BY <1>1, <1>3, <1>4, <1>5, <1>6 DEF Next, Starts

\* A task that goes on tries, is second and abandons as it did.
LEMMA EnduresSame ==
    ASSUME NEW x, NEW y, Endures(y, x)
    PROVE  /\ ~y.over => ~x.over
           /\ Tries(y) => Tries(x) /\ y.job.id = x.job.id
           /\ Second(y) => Second(x) /\ y.n = x.n
           /\ Abandons(y) => Abandons(x)
           /\ y.n = x.n /\ y.dir = x.dir /\ y.ids = x.ids /\ y.chan = x.chan /\ y.pc = x.pc
           /\ y.job = x.job
BY DEF Endures, Kept, Tries, Second, Abandons, Holds

\* A step comes to try a down only from the channels of a transition or a second alert.
LEMMA StepTries ==
    ASSUME NotifierAssumption, Typed, NEW u \in Tasks, Step(u),
           NEW x, x = task[u], NEW y, y = task'[u], Tries(y)
    PROVE  /\ y.over = x.over
           /\ \/ Tries(x) /\ y.job.id = x.job.id
              \/ /\ x.pc = "channels" /\ x.dir = "down" /\ y.job.id.n = x.n
                 /\ IF x.mark = 0 THEN Handling(x) ELSE Second(x)
<1>1. Works(x, y) /\ Grips(u, x, y)
  BY StepDoes
<1>2. y.pc \in {"attempt", "finish"} /\ y.ret # "abandon" /\ y.job.id.dir = "down" /\ Holds(y) /\ y # Idle
  BY IdleHolds DEF Tries, Holds, InHand
<1>3. y.n = x.n /\ y.mark = x.mark /\ y.over = x.over
  BY <1>1, <1>2 DEF Works
<1>4. \/ Holds(x) /\ y.job.id = x.job.id /\ y.ret = x.ret /\ x.pc = "attempt"
      \/ /\ \E c \in Channels : NextChannel(u, c)
         /\ y.job.id = AlertOf(y) /\ y.dir = x.dir
      \/ Missed(u) /\ y.job.id = AlertOf(x)
  BY <1>1, <1>2 DEF Grips
<1>5. CASE Holds(x) /\ y.job.id = x.job.id /\ y.ret = x.ret /\ x.pc = "attempt"
  BY <1>2, <1>3, <1>5 DEF Tries
<1>6. CASE /\ \E c \in Channels : NextChannel(u, c)
           /\ y.job.id = AlertOf(y) /\ y.dir = x.dir
  <2>1. x.pc = "channels"
    BY <1>6 DEF NextChannel
  <2>2. y.job.id.n = x.n /\ x.dir = "down"
    BY <1>2, <1>3, <1>6 DEF AlertOf
  <2>3. x.n # 0
    BY <2>1 DEF Typed, Shaped, PlainShape
  <2> QED BY <1>3, <2>1, <2>2, <2>3 DEF Handling, Second
<1>7. CASE Missed(u) /\ y.job.id = AlertOf(x)
  <2>1. x.dir = "recovered"
    BY <1>7 DEF Missed, Typed, Shaped, TellShape, Abandons
  <2>2. y.job.id.dir = "recovered"
    BY <1>7, <2>1 DEF AlertOf
  <2> QED BY <1>2, <2>2
<1> QED BY <1>4, <1>5, <1>6, <1>7

\* A step stays second or ends.
LEMMA StepSecond ==
    ASSUME NotifierAssumption, Typed, NEW u \in Tasks, Step(u),
           NEW x, x = task[u], NEW y, y = task'[u]
    PROVE  /\ Second(y) => Second(x) /\ y.n = x.n /\ y.over = x.over
           /\ y.dir = "recovered" => x.dir = "recovered" /\ y.n = x.n
<1>1. Works(x, y)
  BY StepDoes
<1> QED BY <1>1, IdleHolds DEF Works, Second

\* A new retry to tell a down with no excuse was tried with none.
LEMMA NewRetry ==
    ASSUME NotifierAssumption, Typed, [Next]_vars, NEW j \in retry', j \notin retry,
           j.id.dir = "down", j.final = "", ~Excused(j.id)'
    PROVE  \E t \in Tasks : _attempt(t) /\ Tries(task[t]) /\ j.id = task[t].job.id /\ ~task[t].over
<1>1. PICK t \in Tasks :
        /\ Holds(task[t]) /\ j.id = task[t].job.id
        /\ \/ /\ _attempt(t) /\ j.final = "" /\ task[t].pc = "attempt"
              /\ task[t].ret # "abandon" /\ Loosen(task[t])
           \/ task[t].pc = "publish" /\ j.final = task[t].job.final /\ j.final # ""
  BY RetryGrows
<1>2. task[t].pc = "attempt" /\ task[t].ret # "abandon" /\ Loosen(task[t]) /\ _attempt(t)
  BY <1>1
<1>3. ~task[t].over
  <2>1. ASSUME task[t].over PROVE FALSE
    <3>1. j.id \in loose'
      BY <1>1, <1>2, <2>1 DEF Loosen
    <3> QED BY <3>1 DEF Excused
  <2> QED BY <2>1
<1> QED BY <1>1, <1>2, <1>3 DEF Tries

\* Retries stay before later recoveries: what Missed makes heard has abandoned them.
LEMMA PendingStep ==
    ASSUME NotifierAssumption, Typed, Typed', Places, InOrder, [Next]_vars
    PROVE  PendingFirst'
<1> SUFFICES ASSUME NEW j \in retry', Pending(j)', NEW e, Heard(e)', e.chan = j.id.chan, e.n > j.id.n
    PROVE  FALSE
  BY DEF PendingFirst, After
<1>1. j.id.dir = "down" /\ j.final = "" /\ ~Excused(j.id)' /\ ~Excused(j.id)
  BY CalmAfter DEF Pending
<1>2. CASE Heard(e)
  <2>1. After(j.id)
    BY <1>2 DEF After
  <2>2. j \notin retry
    BY <1>1, <2>1 DEF InOrder, PendingFirst, Pending
  <2>3. PICK t \in Tasks : Tries(task[t]) /\ j.id = task[t].job.id /\ ~task[t].over
    BY <1>1, <2>2, NewRetry
  <2> QED BY <1>1, <2>1, <2>3 DEF InOrder, HeldFirst
<1>3. CASE ~Heard(e)
  <2>1. PICK t \in Tasks : Missed(t)
    BY <1>3, MissedStays DEF Calm
  <2>2. /\ retry' = retry /\ Abandons(task[t]) /\ task[t].pc = "abandon" /\ task[t].ids = {}
        /\ e.n = task[t].n /\ e.chan = task[t].chan
    BY <1>3, <2>1, MissedHeard
  <2>3. Abandoned(task[t]) /\ Pending(j)
    BY <1>1 DEF InOrder, Pending
  <2>4. j.id.n < task[t].n /\ j.id.chan = task[t].chan
    <3>1. j.id.n \in Nat /\ task[t].n \in Nat
      BY <2>1, MissedHeard DEF Typed, Job, Id
    <3> QED BY <2>2, <3>1
  <2> QED BY <2>2, <2>3, <2>4 DEF Abandoned
<1> QED BY <1>2, <1>3

\* What a step starts to try, with no excuse, comes before any later recovery that was heard.
LEMMA TriedFirst ==
    ASSUME NotifierAssumption, Typed, Places, IdsAreTransitions, InOrder,
           NEW u \in Tasks, NEW x, x = task[u], ~x.over, x.pc = "channels", x.n \notin late,
           IF x.mark = 0 THEN Handling(x) ELSE Second(x),
           NEW e, Heard(e)
    PROVE  e.n <= x.n
<1>1. e.n \in Nat /\ e.n <= next /\ next \in Nat
  BY HeardWithin, PlaceNumbers
<1>2. CASE u = "consumer"
  BY <1>1, <1>2, WhereAre
<1>3. CASE u = "job"
  <2>1. x.mark # 0
    BY <1>3, WhereAre
  <2> QED BY <1>3, <2>1 DEF InOrder, SecondFirst
<1> QED BY <1>2, <1>3 DEF Tasks

\* What the job takes up is no second alert of before a recovery.
LEMMA StartsFirst ==
    ASSUME NotifierAssumption, Typed, Typed', Starts, NEW y, y = task'["job"]
    PROVE  /\ Tries(y) => /\ y.job \in retry /\ y.job.final = ""
                          /\ y.over = (task["consumer"].dir = "recovered")
           /\ Second(y) => y.n = Len(lane)
           /\ ~Abandons(y) /\ Others("job")
           /\ UNCHANGED <<lane, next, parked, retry, told, late, loose, outcomes, downfail, named>>
<1>1. /\ Holds(y) => /\ y.job \in retry /\ y.over = (task["consumer"].dir = "recovered")
                     /\ y.pc = (IF y.job.final = "" THEN "attempt" ELSE "publish")
      /\ Second(y) => y.n = Len(lane)
      /\ y.pc # "abandon" /\ (Holds(y) => y.ret # "abandon")
  BY StartDoes DEF Starts
<1>2. Others("job") /\ UNCHANGED <<lane, next, parked, retry, told, late, loose, outcomes, downfail, named>>
  BY JobDoes DEF Starts
<1> QED BY <1>1, <1>2 DEF Tries, Abandons, Holds, InHand

\* A delivery in hand stays before later recoveries.
LEMMA HeldStep ==
    ASSUME NotifierAssumption, Typed, Typed', Places, IdsAreTransitions, InOrder, [Next]_vars,
           NEW u \in Tasks, NEW y, y = task'[u], Tries(y), ~Excused(y.job.id)', ~y.over,
           NEW e, Heard(e)', e.chan = y.job.id.chan, e.n > y.job.id.n
    PROVE  FALSE
<1> SUFFICES ASSUME NEW x, x = task[u] PROVE FALSE
  OBVIOUS
<1>0. y.job.id.dir = "down" /\ ~Excused(y.job.id) /\ y.job.id.n \notin late
  BY CalmAfter DEF Tries, Excused
<1>1. CASE Heard(e)
  <2>0. After(y.job.id)
    BY <1>1 DEF After
  <2>1. ASSUME Tries(x), y.job.id = x.job.id, ~x.over PROVE FALSE
    BY <1>0, <2>0, <2>1 DEF InOrder, HeldFirst
  <2>2. CASE Endures(y, x)
    BY <2>1, <2>2, EnduresSame
  <2>3. CASE Step(u)
    <3>1. CASE /\ x.pc = "channels" /\ x.dir = "down" /\ y.job.id.n = x.n
               /\ IF x.mark = 0 THEN Handling(x) ELSE Second(x)
      <4>1. ~x.over
        BY <2>3, StepTries
      <4>2. e.n <= x.n
        BY <1>0, <1>1, <3>1, <4>1, TriedFirst
      <4>3. e.n \in Nat /\ x.n \in Nat
        BY <1>1, HeardWithin DEF Typed, Shaped, TaskRec
      <4> QED BY <3>1, <4>2, <4>3
    <3> QED BY <2>1, <2>3, <3>1, StepTries
  <2>4. CASE y.pc = "flap"
    BY <2>4 DEF Tries
  <2>5. CASE u = "job" /\ Starts
    <3>1. y.job \in retry /\ y.job.final = ""
      BY <2>5, StartsFirst
    <3> QED BY <1>0, <2>0, <3>1 DEF InOrder, PendingFirst, Pending
  <2> QED BY <2>2, <2>3, <2>4, <2>5, TaskGoes
<1>2. CASE ~Heard(e)
  <2>1. PICK t \in Tasks : Missed(t)
    BY <1>2, MissedStays DEF Calm
  <2>2. /\ Others(t) /\ task[t].dir = "recovered" /\ ~Tries(task'[t]) /\ Handling(task[t])
        /\ e.n = task[t].n /\ task[t].n \in Nat
    BY <1>2, <2>1, MissedHeard
  <2>3. u # t /\ y = x
    BY <2>2 DEF Others
  <2>4. CASE u = "job"
    <3>1. task["consumer"].dir = "recovered" /\ e.n = task["consumer"].n
      BY <2>2, <2>3, <2>4 DEF Tasks
    <3>2. x.job.id.n \in Nat
      BY <2>3, ZenonT(40) DEF Tries, Typed, Shaped, JobShape, Holds, InHand, Job, Id
    <3>3. x.job.id.n < task["consumer"].n
      BY <2>2, <2>3, <3>1, <3>2
    <3> QED BY <1>0, <2>3, <2>4, <3>1, <3>3 DEF InOrder, Overtaken
  <2>5. CASE u = "consumer"
    <3>1. t = "job"
      BY <2>3, <2>5 DEF Tasks
    <3>2. e.n <= next
      BY <2>2, <3>1, WhereAre
    <3>3. x.pc \in {"attempt", "finish"} /\ x.ret # "abandon" /\ Holds(x)
      BY <2>3 DEF Tries, Holds, InHand
    <3>4. x.n = next /\ x.n # 0
      BY <2>5, <3>3, WhereAre
    <3>5. x.ret = "channels"
      BY <3>3, <3>4, ShapedFields, ZenonT(40) DEF Typed, Shaped, TaskRec
    <3>6. x.job.id.n = next
      <4>1. x.job.id = AlertOf(x)
        BY <3>3, <3>5 DEF Typed, Shaped, JobShape
      <4>2. AlertOf(x).n = x.n
        BY DEF AlertOf
      <4> QED BY <3>4, <4>1, <4>2
    <3> QED BY <2>2, <2>3, <3>2, <3>6, PlaceNumbers
  <2> QED BY <2>4, <2>5 DEF Tasks
<1> QED BY <1>1, <1>2

\* A second alert stays before later recoveries.
LEMMA SecondStep ==
    ASSUME NotifierAssumption, Typed, Typed', Places, IdsAreTransitions, InOrder, [Next]_vars,
           NEW y, y = task'["job"], Second(y), y.n \notin late', ~y.over, NEW e, Heard(e)'
    PROVE  e.n <= y.n
<1> SUFFICES ASSUME NEW x, x = task["job"] PROVE e.n <= y.n
  OBVIOUS
<1>0. y.n \notin late /\ "job" \in Tasks
  BY HistoryGrows DEF Tasks
<1>1. CASE Heard(e)
  <2>1. ASSUME Second(x), y.n = x.n, ~x.over PROVE e.n <= y.n
    BY <1>0, <1>1, <2>1 DEF InOrder, SecondFirst
  <2>2. CASE Endures(y, x)
    BY <2>1, <2>2, EnduresSame
  <2>3. CASE Step("job")
    BY <1>0, <2>1, <2>3, StepSecond
  <2>4. CASE y.mark = 0
    BY <2>4 DEF Second
  <2>5. CASE Starts
    BY <1>1, <2>5, StartsFirst, HeardWithin
  <2> QED BY <1>0, <2>2, <2>3, <2>4, <2>5, TaskGoes
<1>2. CASE ~Heard(e)
  <2>1. PICK t \in Tasks : Missed(t)
    BY <1>2, MissedStays DEF Calm
  <2>2. /\ Others(t) /\ task[t].dir = "recovered" /\ ~Second(task'[t])
        /\ e.n = task[t].n /\ task[t].n \in Nat
    BY <1>2, <2>1, MissedHeard
  <2>3. t = "consumer" /\ y = x
    BY <1>0, <2>2 DEF Others, Tasks
  <2>4. x.n \in Nat
    BY <1>0 DEF Typed, Shaped, TaskRec
  <2>5. ~(x.n < task["consumer"].n)
    BY <1>0, <2>2, <2>3 DEF InOrder, Overtaken
  <2> QED BY <2>2, <2>3, <2>4, <2>5
<1> QED BY <1>1, <1>2

\* The consumer that takes a recovery marks what the job has in hand.
LEMMA HandleMarks ==
    ASSUME Typed, Places, handle, task'["consumer"].dir = "recovered",
           NEW x, x = task'["job"], x.pc # "idle"
    PROVE  x.over \/ UNCHANGED task
<1>1. CASE on_transition("consumer", next)
  <2>1. next \in DOMAIN lane
    BY PlaceNumbers DEF handle
  <2>2. /\ direction_of(lane[next]) = "recovered"
        /\ Kept(x, task["job"])
        /\ x.over = (task["job"].over \/ (lane[next].from = "down" /\ lane[next].to # "down"
                                          /\ task["job"].pc # "idle"))
    BY <1>1, <2>1, TakeDoes DEF Tasks
  <2>3. lane[next].from = "down" /\ lane[next].to # "down"
    BY <2>2 DEF direction_of
  <2> QED BY <2>2, <2>3 DEF Kept
<1> QED BY <1>1 DEF handle

\* While the consumer recovers, what the job has in hand of before stays marked.
LEMMA OvertakenStep ==
    ASSUME NotifierAssumption, Typed, Typed', Places, InOrder, [Next]_vars,
           NEW x, x = task'["job"], NEW y, y = task'["consumer"], y.dir = "recovered"
    PROVE  /\ Tries(x) /\ x.job.id.n < y.n /\ x.job.id.n \notin late' => x.over
           /\ Second(x) /\ x.n < y.n /\ x.n \notin late' => x.over
<1> SUFFICES ASSUME NEW a, a = task["job"], NEW b, b = task["consumer"]
    PROVE  /\ Tries(x) /\ x.job.id.n < y.n /\ x.job.id.n \notin late' => x.over
           /\ Second(x) /\ x.n < y.n /\ x.n \notin late' => x.over
  OBVIOUS
<1>0. /\ late \subseteq late' /\ {"job", "consumer"} \subseteq Tasks
      /\ "job" \in Tasks /\ "consumer" \in Tasks
  BY HistoryGrows DEF Tasks
<1>1. b.dir = "recovered" =>
        /\ Tries(a) /\ a.job.id.n < b.n /\ a.job.id.n \notin late => a.over
        /\ Second(a) /\ a.n < b.n /\ a.n \notin late => a.over
  BY DEF InOrder, Overtaken
<1>3. CASE handle /\ ~UNCHANGED task
  <2>1. Tries(x) \/ Second(x) => x.pc # "idle"
    <3>1. Shaped(x)
      BY <1>0 DEF Typed
    <3> QED BY <3>1 DEF Tries, Second, Shaped, PlainShape, RetryShape
  <2> QED BY <1>3, <2>1, HandleMarks
<1>4. CASE UNCHANGED task
  BY <1>0, <1>1, <1>4
<1>5. CASE Step("consumer")
  <2>1. x = a /\ b.dir = "recovered" /\ y.n = b.n
    BY <1>0, <1>5, StepOthers, StepSecond DEF Others
  <2> QED BY <1>0, <1>1, <2>1
<1>6. CASE Step("job")
  <2>1. y = b
    BY <1>0, <1>6, StepOthers DEF Others
  <2>2. Second(x) => Second(a) /\ x.n = a.n /\ x.over = a.over
    BY <1>0, <1>6, StepSecond
  <2>3. ASSUME Tries(x), x.job.id.n < y.n, x.job.id.n \notin late' PROVE x.over
    <3>1. x.over = a.over
      BY <1>0, <1>6, <2>3, StepTries
    <3>2. CASE Tries(a) /\ x.job.id = a.job.id
      BY <1>0, <1>1, <2>1, <2>3, <3>1, <3>2
    <3>3. CASE /\ a.pc = "channels" /\ a.dir = "down" /\ x.job.id.n = a.n
               /\ IF a.mark = 0 THEN Handling(a) ELSE Second(a)
      BY <1>0, <1>1, <2>1, <2>3, <3>1, <3>3, WhereAre
    <3> QED BY <1>0, <1>6, <2>3, <3>2, <3>3, StepTries
  <2> QED BY <1>0, <1>1, <2>1, <2>2, <2>3
<1>7. CASE \E n \in parked : redrive(n)
  <2>1. \/ UNCHANGED task
        \/ x.pc = "flap" /\ x.mark = 0
    BY <1>0, <1>7, TakeOthers
  <2> QED BY <1>4, <2>1 DEF Tries, Second
<1>8. CASE Starts
  <2>1. y = b
    BY <1>0, <1>8, StartsFirst DEF Others
  <2>2. Tries(x) => x.over
    BY <1>8, <2>1, StartsFirst
  <2>3. Second(x) => ~(x.n < y.n)
    <3>1. y.n <= Len(lane) /\ y.n \in Nat
      BY <2>1, WhereAre, PlaceNumbers
    <3>2. Second(x) => x.n = Len(lane)
      BY <1>8, StartsFirst
    <3>3. Len(lane) \in Nat
      BY PlaceNumbers
    <3> QED BY <3>1, <3>2, <3>3
  <2> QED BY <2>2, <2>3
<1>9. CASE \/ \E to \in Statuses : Transition(to)
           \/ Edit \/ Tick \/ UNCHANGED vars
  <2>1. UNCHANGED task
    BY <1>9 DEF Transition, Edit, Tick, vars
  <2> QED BY <1>4, <2>1
<1> QED BY <1>3, <1>4, <1>5, <1>6, <1>7, <1>8, <1>9 DEF Next, Starts, Tasks

\* While a recovery abandons the downs of before, no other task adds one with no excuse.
LEMMA NoNewPending ==
    ASSUME NotifierAssumption, Typed, Places, InOrder, [Next]_vars,
           NEW u \in Tasks, Abandons(task[u]),
           NEW t \in Tasks, t # u, Tries(task[t]), ~task[t].over,
           task[t].job.id.n \notin late, task[t].job.id.n < task[u].n
    PROVE  FALSE
<1>1. task[u].dir = "recovered"
  BY DEF Typed, Shaped, TellShape
<1>2. CASE u = "consumer"
  <2>1. t = "job"
    BY <1>2 DEF Tasks
  <2> QED BY <1>1, <1>2, <2>1 DEF InOrder, Overtaken
<1>3. CASE u = "job"
  <2> SUFFICES ASSUME NEW x, x = task["consumer"] PROVE FALSE
    OBVIOUS
  <2>1. t = "consumer" /\ Tries(x)
    BY <1>3 DEF Tasks
  <2>2. x.pc \in {"attempt", "finish"} /\ x.ret # "abandon" /\ Holds(x)
    BY <2>1 DEF Tries, Holds, InHand
  <2>3. x.n = next /\ x.n # 0
    BY <2>2, WhereAre
  <2>4. x.ret = "channels"
    BY <2>1, <2>2, <2>3, ShapedFields DEF Typed, Shaped, TaskRec
  <2>5. x.job.id = AlertOf(x)
    BY <2>1, <2>2, <2>4 DEF Typed, Shaped, JobShape
  <2>6. x.job.id.n = next
    BY <2>3, <2>5 DEF AlertOf
  <2>7. task["job"].n \in Nat /\ task["job"].n <= next
    <3>1. Handling(task["job"])
      BY <1>1, <1>3 DEF Handling, Abandons, Holds, InHand, Typed, Shaped, PlainShape
    <3> QED BY <3>1, WhereAre
  <2> QED BY <1>3, <2>1, <2>6, <2>7, PlaceNumbers
<1> QED BY <1>2, <1>3 DEF Tasks

\* What a step of its own leaves of the list of x.
Listed(x, j) == j.id \in x.ids \/ (x.pc # "abandon" /\ x.job.id = j.id)

\* A task that abandons started to with the list of all there is, and strikes off what it
\* finds gone or ends.
LEMMA AbandonSteps ==
    ASSUME NotifierAssumption, Typed, NEW u \in Tasks, Step(u), NEW x, x = task[u],
           NEW y, y = task'[u], Abandons(y), NEW j \in retry', j.final = "", j.id.dir = "down",
           j.id.chan = y.chan, Abandons(x) /\ x.chan = y.chan /\ j \in retry => Listed(x, j)
    PROVE  /\ j \in retry /\ y.n = x.n
           /\ Listed(y, j)
<1>0. Shaped(x)
  BY DEF Typed
<1>1. ASSUME NEW c \in Channels, NextChannel(u, c) PROVE j \in retry /\ y.n = x.n /\ Listed(y, j)
  <2>0. retry' = retry
    BY <1>1 DEF NextChannel, keys
  <2>1. y.n = x.n /\ y.chan = c
    BY <1>1, NextChannelDoes, ZenonT(40) DEF On
  <2>2. y.ids = {k.id : k \in PendingDowns(c)}
    BY <1>1, NextChannelDoes DEF Abandons, Holds
  <2>3. j \in PendingDowns(c)
    BY <2>0, <2>1 DEF PendingDowns
  <2> QED BY <2>0, <2>1, <2>2, <2>3 DEF Listed
<1>2. ASSUME NEW id \in x.ids, _abandon_down_retries(u, id)
      PROVE  j \in retry /\ y.n = x.n /\ Listed(y, j)
  <2>0. retry' = retry
    BY <1>2 DEF _abandon_down_retries, keys
  <2>3. /\ x.pc = "abandon" /\ On(y, x) /\ y.chan = x.chan /\ y.ids = x.ids \ {id}
        /\ \/ y.pc = "abandon" /\ ~Waits(id)
           \/ y.pc = "finish" /\ y.job.id = id
    BY <1>2, AbandonDoes, ZenonT(40)
  <2>1. /\ Abandons(x) /\ y.n = x.n /\ y.chan = x.chan /\ y.ids = x.ids \ {id}
        /\ \/ y.pc = "abandon" /\ ~Waits(id)
           \/ y.pc = "finish" /\ y.job.id = id
    BY <2>3 DEF On, Abandons
  <2>2. j.id \in x.ids /\ Waits(j.id)
    BY <2>0, <2>1, <2>3 DEF Listed, Waits
  <2> QED BY <2>0, <2>1, <2>2 DEF Listed
<1>3. CASE _finish(u)
  <2>1. /\ retry' = retry /\ x.pc = "finish" /\ Holds(x) /\ Same(y, x) /\ y.pc = "publish" /\ y.job = x.job
    BY <1>3, FinishDoes DEF _finish
  <2>2. Abandons(x) /\ y.chan = x.chan /\ y.ids = x.ids /\ y.n = x.n
    BY <2>1 DEF Abandons, Same
  <2> QED BY <2>1, <2>2 DEF Listed
<1>4. CASE _publish_final(u)
  <2>1. /\ x.pc = "publish" /\ Holds(x) /\ Same(y, x) /\ x.job.final # ""
        /\ \/ retry' = retry /\ y.pc = "unqueue" /\ y.job = x.job
           \/ y.pc = x.ret /\ ~x.job.queued
           \/ /\ \E k : /\ retry' = Unqueued(x.job.id) \union {k}
                        /\ k.id = x.job.id /\ k.final = x.job.final
              /\ y.pc = x.ret
    BY <1>4, PublishDoes
  <2>2. x.ret = "abandon" /\ Abandons(x) /\ y.chan = x.chan /\ y.ids = x.ids /\ y.n = x.n
    BY <2>1 DEF Abandons, Same, Holds, InHand
  <2>3. x.job.queued
    BY <1>0, <2>1, <2>2 DEF Shaped, TellShape
  <2>4. CASE retry' = retry /\ y.pc = "unqueue" /\ y.job = x.job
    BY <2>1, <2>2, <2>4 DEF Listed
  <2>5. CASE \E k : /\ retry' = Unqueued(x.job.id) \union {k}
                    /\ k.id = x.job.id /\ k.final = x.job.final
    <3>1. j \in Unqueued(x.job.id)
      BY <2>1, <2>5
    <3>2. j \in retry /\ j.id # x.job.id
      BY <3>1 DEF Unqueued
    <3> QED BY <2>1, <2>2, <3>2 DEF Listed
  <2> QED BY <2>1, <2>3, <2>4, <2>5
<1>5. CASE Unqueue(u)
  <2>1. /\ x.pc = "unqueue" /\ Holds(x) /\ Same(y, x) /\ y.pc = x.ret /\ retry' = Unqueued(x.job.id)
    BY <1>5, UnqueueDoes
  <2>2. x.ret = "abandon" /\ Abandons(x) /\ y.chan = x.chan /\ y.ids = x.ids /\ y.n = x.n
    BY <2>1 DEF Abandons, Same, Holds, InHand
  <2>3. j \in retry /\ j.id # x.job.id
    BY <2>1 DEF Unqueued
  <2> QED BY <2>1, <2>2, <2>3 DEF Listed
<1>6. CASE _flapping(u) \/ _exit_flapping(u)
  BY <1>6, FlappingDoes, ExitDoes DEF Abandons, Holds, InHand
<1>7. CASE Handled(u) \/ Cut(u)
  BY <1>7, EndDoes, IdleHolds
<1>8. CASE \E r \in Rules : _dispatch(u, r)
  BY <1>8, DispatchDoes DEF Abandons, Holds, InHand
<1>9. CASE Missed(u)
  BY <1>9, MissedDoes DEF Abandons, Holds, InHand
<1>10. CASE Stamped(u) \/ Remind(u)
  BY <1>10, StampedDoes, RemindDoes DEF Abandons, Holds, InHand
<1>11. CASE _attempt(u)
  <2>1. x.ret \in {"idle", "channels", "abandon"}
    BY <1>0 DEF Shaped, TaskRec
  <2> QED BY <1>11, <2>1, AttemptDoes DEF Abandons, Same, Holds, InHand
<1> QED BY <1>1, <1>2, <1>3, <1>4, <1>5, <1>6, <1>7, <1>8, <1>9, <1>10, <1>11 DEF Step

\* The lists of retries to abandon stay whole.
LEMMA AbandonedStep ==
    ASSUME NotifierAssumption, Typed, Typed', Places, InOrder, [Next]_vars,
           NEW u \in Tasks, NEW y, y = task'[u], Abandons(y),
           NEW j \in retry', Pending(j)', j.id.chan = y.chan, j.id.n < y.n
    PROVE  Listed(y, j)
<1> SUFFICES ASSUME NEW x, x = task[u] PROVE Listed(y, j)
  OBVIOUS
<1>0. j.id.dir = "down" /\ j.final = "" /\ ~Excused(j.id)' /\ ~Excused(j.id) /\ j.id.n \notin late
  BY CalmAfter DEF Pending, Excused
<1>1. ASSUME Abandons(x), x.chan = y.chan, x.n = y.n, j \in retry PROVE Listed(x, j)
  BY <1>0, <1>1 DEF InOrder, Abandoned, Pending, Listed
<1>2. CASE Endures(y, x)
  <2>1. /\ Abandons(x) /\ y.n = x.n /\ y.ids = x.ids /\ y.chan = x.chan /\ y.pc = x.pc
        /\ y.job = x.job
    BY <1>2, EnduresSame
  <2>2. CASE j \in retry
    BY <1>1, <2>1, <2>2 DEF Listed
  <2>3. CASE j \notin retry
    <3>1. PICK t \in Tasks : _attempt(t) /\ Tries(task[t]) /\ j.id = task[t].job.id /\ ~task[t].over
      BY <1>0, <2>3, NewRetry
    <3>2. CASE t # u
      BY <1>0, <2>1, <3>1, <3>2, NoNewPending
    <3>3. CASE t = u
      <4>1. x.pc = "attempt" /\ x.ret # "abandon"
        BY <3>1, <3>3, AttemptDoes
      <4> QED BY <2>1, <4>1 DEF Abandons
    <3> QED BY <3>2, <3>3
  <2> QED BY <2>2, <2>3
<1>3. CASE Step(u)
  <2>1. y.n = x.n
    BY <1>3, StepDoes, IdleHolds DEF Works
  <2>2. Abandons(x) /\ x.chan = y.chan /\ j \in retry => Listed(x, j)
    BY <1>1, <2>1
  <2> QED BY <1>0, <1>3, <2>2, AbandonSteps
<1>4. CASE y.pc = "flap"
  BY <1>4 DEF Abandons, Holds, InHand
<1>5. CASE u = "job" /\ Starts
  BY <1>5, StartsFirst
<1> QED BY <1>2, <1>3, <1>4, <1>5, TaskGoes

\* The order of downs and recoveries is kept by every step.
LEMMA InOrderStep ==
    ASSUME NotifierAssumption, Typed, Typed', Places, IdsAreTransitions, InOrder, [Next]_vars
    PROVE  InOrder'
<1>1. PendingFirst'
  BY PendingStep
<1>2. ASSUME NEW u \in Tasks PROVE HeldFirst(task[u])'
  <2> SUFFICES ASSUME NEW y, y = task'[u], Tries(y), ~Excused(y.job.id)', ~y.over,
                      NEW e, Heard(e)', e.chan = y.job.id.chan, e.n > y.job.id.n
               PROVE  FALSE
    BY DEF HeldFirst, After
  <2> QED BY HeldStep
<1>3. ASSUME NEW u \in Tasks PROVE Abandoned(task[u])'
  <2> SUFFICES ASSUME NEW y, y = task'[u], Abandons(y),
                      NEW j \in retry', Pending(j)', j.id.chan = y.chan, j.id.n < y.n
               PROVE  Listed(y, j)
    BY DEF Abandoned, Listed
  <2> QED BY AbandonedStep
<1>4. SecondFirst(task["job"])'
  <2> SUFFICES ASSUME NEW y, y = task'["job"], Second(y), y.n \notin late', ~y.over,
                      NEW e, Heard(e)'
               PROVE  e.n <= y.n
    BY DEF SecondFirst
  <2> QED BY SecondStep
<1>5. Overtaken(task["job"], task["consumer"])'
  <2> SUFFICES ASSUME NEW x, x = task'["job"], NEW y, y = task'["consumer"], y.dir = "recovered"
               PROVE  /\ Tries(x) /\ x.job.id.n < y.n /\ x.job.id.n \notin late' => x.over
                      /\ Second(x) /\ x.n < y.n /\ x.n \notin late' => x.over
    BY DEF Overtaken
  <2> QED BY OvertakenStep
<1> QED BY <1>1, <1>2, <1>3, <1>4, <1>5 DEF InOrder

\* Nothing is known at the start.
LEMMA InitInOrder == Init => IdsAreTransitions /\ InOrder
<1> SUFFICES ASSUME Init PROVE IdsAreTransitions /\ InOrder
  OBVIOUS
<1>1. /\ told = {} /\ retry = {} /\ outcomes = {}
      /\ \A t \in Tasks : task[t] = Idle
  BY DEF Init
<1>2. \A id : ~Known(id)
  BY <1>1, IdleHolds DEF Known, Voiced
<1>3. task["job"] = Idle /\ task["consumer"] = Idle
  BY <1>1 DEF Tasks
<1>4. \A t \in Tasks : HeldFirst(task[t]) /\ Abandoned(task[t])
  BY <1>1, IdleHolds DEF HeldFirst, Abandoned
<1>5. SecondFirst(task["job"]) /\ Overtaken(task["job"], task["consumer"])
  BY <1>3, IdleHolds DEF SecondFirst, Overtaken
<1> QED BY <1>1, <1>2, <1>4, <1>5 DEF IdsAreTransitions, InOrder, PendingFirst

\* A down that is told and was not held at a recovery was tried with no mark.
LEMMA NewTold ==
    ASSUME NotifierAssumption, Typed, [Next]_vars, NEW d \in told', d \notin told,
           d.dir = "down", d \notin loose'
    PROVE  \E t \in Tasks : Tries(task[t]) /\ d = task[t].job.id /\ ~task[t].over
<1>1. PICK t \in Tasks :
        /\ task[t].pc = "attempt" /\ task[t].ret # "abandon" /\ d = task[t].job.id
        /\ Loosen(task[t])
  BY HistoryGrows
<1>2. ~task[t].over
  <2>1. ASSUME task[t].over PROVE FALSE
    BY <1>1, <2>1 DEF Loosen
  <2> QED BY <2>1
<1> QED BY <1>1, <1>2 DEF Tries

\* A channel that was told of a recovery is not told of a down before it, but for a delivery the
\* other task held and a transition handled late: what is tried comes before any recovery.
THEOREM NoDownAfter == Spec => NoDownAfterRecovered
<1> DEFINE IInv == Typed /\ Places /\ IdsAreTransitions /\ InOrder
<1>1. NotifierAssumption
  BY NotifierAssumption
<1>2. Init => IInv
  BY <1>1, InitTyped, InitRemembers, InitInOrder
<1>3. IInv /\ [Next]_vars => IInv'
  <2> SUFFICES ASSUME IInv, [Next]_vars PROVE IInv'
    OBVIOUS
  <2>1. Typed'
    BY <1>1, TypedStep DEF Places
  <2>2. Places' /\ IdsAreTransitions' /\ InOrder'
    BY <1>1, <2>1, PlacesStep, IdsStep, InOrderStep
  <2> QED BY <2>1, <2>2
<1>4. IInv /\ [Next]_vars =>
        \A d \in told' \ told :
          d.dir = "down" /\ d \notin loose' /\ d.n \notin late
          => ~\E e \in told : e.dir = "recovered" /\ e.chan = d.chan /\ e.n > d.n
  <2> SUFFICES ASSUME IInv, [Next]_vars, NEW d \in told' \ told,
                      d.dir = "down", d \notin loose', d.n \notin late,
                      NEW e \in told, e.dir = "recovered", e.chan = d.chan, e.n > d.n
               PROVE  FALSE
    OBVIOUS
  <2>1. PICK t \in Tasks : Tries(task[t]) /\ d = task[t].job.id /\ ~task[t].over
    BY <1>1, NewTold
  <2>2. ~Excused(d)
    BY HistoryGrows, <1>1 DEF Excused
  <2>3. After(d)
    BY DEF After, Heard, Voiced
  <2> QED BY <2>1, <2>2, <2>3 DEF InOrder, HeldFirst
<1> QED BY <1>2, <1>3, <1>4, PTL DEF Spec, NoDownAfterRecovered

-----------------------------------------------------------------------------
(* A recovery names the down its channel missed. *)

\* A down of a transition, with no excuse: nor has its recovery one.
Good(id) ==
    id.dir = "down" /\ id.mark = 0 /\ id \notin loose /\ late \intersect (1 .. id.n + 1) = {}

\* An alert that failed: recorded, or about to be.
FailedId(id) ==
    \/ \E o \in outcomes : o.id = id /\ o.state = "failed"
    \/ \E j \in retry : j.id = id /\ j.final = "failed"
    \/ \E t \in Tasks : /\ task[t].pc \in {"publish", "unqueue"}
                        /\ task[t].job.id = id /\ task[t].job.final = "failed"

\* e is the recovery of the down id.
Ends(e, id) == e.n = id.n + 1 /\ e.chan = id.chan

\* A down that failed is noted until its recovery names it; where that was heard, it does; and it
\* was not while the down is being given up on for it.
Noted ==
    \A id : FailedId(id) /\ Good(id) =>
        id.chan \in downfail \/ <<id.n + 1, id.chan>> \in named \/ next > id.n + 1
Named ==
    \A id, e : FailedId(id) /\ Good(id) /\ Heard(e) /\ Ends(e, id) => <<e.n, e.chan>> \in named
FinishFirst(x) ==
    x.pc = "finish" /\ x.ret = "abandon" /\ Good(x.job.id) => ~\E e : Heard(e) /\ Ends(e, x.job.id)

NamesMissed == Noted /\ Named /\ \A t \in Tasks : FinishFirst(task[t])

\* What channels missed and what recoveries name.
LEMMA MissesGrow ==
    ASSUME NotifierAssumption, Typed, [Next]_vars
    PROVE  /\ named \subseteq named'
           /\ \A c \in downfail : c \in downfail' \/ \E t \in Tasks : Missed(t) /\ c = task[t].chan
           /\ \A t \in Tasks : Missed(t) /\ task[t].chan \in downfail =>
                 <<task[t].n, task[t].chan>> \in named'
           /\ \A t \in Tasks : _finish(t) => task[t].job.id.chan \in downfail'
<1>1. ASSUME NEW t \in Tasks, Missed(t)
      PROVE  /\ downfail' = downfail \ {task[t].chan}
             /\ named' = IF task[t].chan \in downfail
                         THEN named \union {<<task[t].n, task[t].chan>>} ELSE named
  BY <1>1 DEF Missed
<1>2. ASSUME NEW t \in Tasks, _finish(t)
      PROVE  downfail \subseteq downfail' /\ task[t].job.id.chan \in downfail' /\ UNCHANGED named
  BY <1>2 DEF _finish, Misses
<1>3. ASSUME NEW t \in Tasks, Step(t), ~Missed(t), ~_finish(t) PROVE UNCHANGED <<downfail, named>>
  BY <1>3 DEF Step, _flapping, _exit_flapping, Handled, _dispatch, NextChannel, _abandon_down_retries,
     Stamped, Remind, _attempt, _publish_final, Unqueue, Cut, keys, history
<1>4. ASSUME \/ handle
             \/ \E n \in parked : redrive(n)
             \/ Starts
             \/ \E to \in Statuses : Transition(to)
             \/ Edit \/ Tick \/ UNCHANGED vars
      PROVE  UNCHANGED <<downfail, named>>
  BY <1>4 DEF handle, redrive, Starts, retry_due, sweep, SweepPuts, SweepExits, Renotify, Forget,
     SecondEnds, Transition, Edit, Tick, vars, keys, history
<1>5. named \subseteq named'
  BY <1>1, <1>2, <1>3, <1>4 DEF Next, Starts
<1>6. \A c \in downfail : c \in downfail' \/ \E t \in Tasks : Missed(t) /\ c = task[t].chan
  BY <1>1, <1>2, <1>3, <1>4 DEF Next, Starts
<1>7. \A t \in Tasks : Missed(t) /\ task[t].chan \in downfail => <<task[t].n, task[t].chan>> \in named'
  BY <1>1
<1> QED BY <1>2, <1>5, <1>6, <1>7

\* A down fails in _finish only.
LEMMA FailedGrows ==
    ASSUME NotifierAssumption, Typed, Typed', Places, [Next]_vars,
           NEW id, id.dir = "down", FailedId(id)'
    PROVE  FailedId(id) \/ \E t \in Tasks : _finish(t) /\ id = task[t].job.id
<1>1. ASSUME NEW o \in outcomes', o.id = id, o.state = "failed" PROVE FailedId(id)
  <2>1. o \in outcomes \/ \E t \in Tasks :
          task[t].pc = "publish" /\ o.id = task[t].job.id /\ o.state = task[t].job.final
    BY HistoryGrows
  <2> QED BY <1>1, <2>1 DEF FailedId
<1>2. ASSUME NEW j \in retry', j.id = id, j.final = "failed" PROVE FailedId(id)
  <2>1. CASE j \in retry
    BY <1>2, <2>1 DEF FailedId
  <2>2. CASE j \notin retry
    <3>1. \E t \in Tasks : j.id = task[t].job.id /\ task[t].pc = "publish" /\ j.final = task[t].job.final
      BY <1>2, <2>2, RetryGrows
    <3> QED BY <1>2, <3>1 DEF FailedId
  <2> QED BY <2>1, <2>2
<1>3. ASSUME NEW u \in Tasks, NEW x, x = task[u], NEW y, y = task'[u],
             y.pc \in {"publish", "unqueue"}, y.job.id = id, y.job.final = "failed"
      PROVE  FailedId(id) \/ (_finish(u) /\ id = x.job.id)
  <2>1. CASE Endures(y, x)
    BY <1>3, <2>1 DEF Endures, Kept, FailedId
  <2>2. CASE Step(u)
    <3>0. Holds(y) /\ x.ret \in {"idle", "channels", "abandon"} /\ y # Idle
      BY <1>3, IdleHolds DEF Holds, InHand, Typed, Shaped, TaskRec
    <3>1. CASE _attempt(u)
      BY <1>3, <3>0, <3>1, AttemptDoes
    <3>2. CASE _finish(u)
      BY <1>3, <3>2, FinishDoes
    <3>3. CASE _publish_final(u)
      BY <1>3, <3>0, <3>3, PublishDoes DEF FailedId
    <3>4. CASE Unqueue(u)
      BY <1>3, <3>0, <3>4, UnqueueDoes
    <3>5. CASE _flapping(u) \/ _exit_flapping(u)
      BY <1>3, <3>5, FlappingDoes, ExitDoes
    <3>6. CASE Handled(u) \/ Cut(u)
      <4>1. y = Idle
        BY <1>3, <3>6, EndDoes
      <4> QED BY <3>0, <4>1
    <3>7. CASE \E r \in Rules : _dispatch(u, r)
      BY <1>3, <3>7, DispatchDoes
    <3>8. CASE \E c \in Channels : NextChannel(u, c)
      BY <1>3, <3>8, NextChannelDoes
    <3>9. CASE \E i \in x.ids : _abandon_down_retries(u, i)
      BY <1>3, <3>9, AbandonDoes
    <3>10. CASE Missed(u)
      BY <1>3, <3>10, MissedDoes
    <3>11. CASE Stamped(u) \/ Remind(u)
      BY <1>3, <3>11, StampedDoes, RemindDoes
    <3> QED BY <1>3, <2>2, <3>1, <3>2, <3>3, <3>4, <3>5, <3>6, <3>7, <3>8, <3>9, <3>10, <3>11 DEF Step
  <2>3. CASE y.pc = "flap"
    BY <1>3, <2>3
  <2>4. CASE u = "job" /\ Starts
    <3>1. y.job \in retry
      BY <1>3, <2>4, StartDoes DEF Starts, Holds, InHand
    <3> QED BY <1>3, <3>1 DEF FailedId
  <2> QED BY <1>3, <2>1, <2>2, <2>3, <2>4, TaskGoes
<1> QED BY <1>1, <1>2, <1>3 DEF FailedId

\* A down that is good was good before.
LEMMA GoodWas ==
    ASSUME NotifierAssumption, Typed, [Next]_vars, NEW id, Good(id)'
    PROVE  Good(id)
BY HistoryGrows DEF Good

\* A good down that is known is up to the offset, and what was handled late comes after its recovery.
LEMMA GoodFirst ==
    ASSUME Typed, Places, IdsAreTransitions, NEW id, Known(id), Good(id)
    PROVE  /\ id.n \in Nat \ {0} /\ id.n <= next /\ ~Excused(id)
           /\ direction_of(lane[id.n]) = "down"
           /\ \A n \in late : n \in Nat \ {0} => n > id.n + 1
<1>1. Lawful(id) /\ id.dir = "down" /\ id.mark = 0
  BY DEF IdsAreTransitions, Good
<1>2. id.n \in 1 .. next /\ direction_of(lane[id.n]) = "down"
  BY <1>1 DEF Lawful, Directions
<1>3. next \in Nat
  BY PlaceNumbers
<1>4. id.n \in Nat \ {0} /\ id.n <= next
  BY <1>2, <1>3
<1>5. ASSUME NEW n \in late, n \in Nat \ {0} PROVE n > id.n + 1
  <2>1. n \notin 1 .. id.n + 1
    BY <1>5 DEF Good
  <2> QED BY <1>4, <1>5, <2>1
<1>6. id.n \notin late
  BY <1>4, <1>5
<1> QED BY <1>2, <1>4, <1>5, <1>6 DEF Excused, Good

\* A failed alert is known.
LEMMA FailedKnown ==
    ASSUME NEW id, FailedId(id)
    PROVE  Known(id)
BY DEF FailedId, Known, Voiced, Holds, InHand

\* What Missed takes up of a good down that failed: its recovery, or one after.
LEMMA MissedGood ==
    ASSUME NotifierAssumption, Typed, Typed', Places, IdsAreTransitions, [Next]_vars,
           NEW t \in Tasks, Missed(t), NEW id, Known(id), Good(id)
    PROVE  /\ task[t].n = id.n + 1 \/ next > id.n + 1
           /\ task[t].n = id.n + 1 => ~(next > id.n + 1)
<1>1. /\ id.n \in Nat \ {0} /\ id.n <= next /\ direction_of(lane[id.n]) = "down"
      /\ \A n \in late : n \in Nat \ {0} => n > id.n + 1
  BY GoodFirst
<1>2. task[t].dir = "recovered" /\ Handling(task[t]) /\ task[t].n \in Nat
  BY MissedHeard
<1>3. next \in Nat /\ task[t].n # 0
  BY <1>2, PlaceNumbers DEF Handling
<1>4. CASE t = "consumer"
  <2>1. task[t].n = next
    BY <1>2, <1>4, WhereAre
  <2>2. InDirection(task[t])
    BY <1>2 DEF Places
  <2>3. direction_of(lane[next]) = "recovered"
    BY <1>2, <2>1, <2>2 DEF InDirection
  <2>4. id.n # next
    BY <1>1, <2>3
  <2> QED BY <1>1, <1>3, <2>1, <2>4
<1>5. CASE t = "job"
  <2>1. task[t].n \in late /\ task[t].n <= next
    BY <1>2, <1>5, WhereAre
  <2>2. task[t].n > id.n + 1
    BY <1>1, <1>2, <1>3, <2>1
  <2> QED BY <1>1, <1>2, <1>3, <2>1, <2>2
<1> QED BY <1>4, <1>5 DEF Tasks

\* What fails stays noted until a recovery names it.
LEMMA NotedStep ==
    ASSUME NotifierAssumption, Typed, Typed', Places, IdsAreTransitions, NamesMissed, [Next]_vars
    PROVE  Noted'
<1> SUFFICES ASSUME NEW id, FailedId(id)', Good(id)'
    PROVE  id.chan \in downfail' \/ <<id.n + 1, id.chan>> \in named' \/ next' > id.n + 1
  BY DEF Noted
<1>0. Good(id) /\ id.dir = "down"
  BY GoodWas DEF Good
<1>1. CASE FailedId(id)
  <2>0. Known(id)
    BY <1>1, FailedKnown
  <2>1. id.chan \in downfail \/ <<id.n + 1, id.chan>> \in named \/ next > id.n + 1
    BY <1>0, <1>1 DEF NamesMissed, Noted
  <2>2. next > id.n + 1 => next' > id.n + 1
    <3>1. id.n \in Nat /\ next \in Nat /\ next' \in Nat /\ next <= next'
      BY <1>0, <2>0, GoodFirst, Onward, PlaceNumbers
    <3> QED BY <3>1
  <2>3. CASE id.chan \in downfail /\ id.chan \notin downfail'
    <3>1. PICK t \in Tasks : Missed(t) /\ id.chan = task[t].chan
      BY <2>3, MissesGrow
    <3>2. <<task[t].n, id.chan>> \in named'
      BY <2>3, <3>1, MissesGrow
    <3>3. task[t].n = id.n + 1 \/ next > id.n + 1
      BY <1>0, <2>0, <3>1, MissedGood
    <3> QED BY <2>2, <3>2, <3>3
  <2> QED BY <2>1, <2>2, <2>3, MissesGrow
<1>2. CASE ~FailedId(id)
  <2>1. \E t \in Tasks : _finish(t) /\ id = task[t].job.id
    BY <1>0, <1>2, FailedGrows
  <2> QED BY <2>1, MissesGrow
<1> QED BY <1>1, <1>2

\* While one task has its down fail, the other tells no recovery for the first time.
LEMMA FinishCalm ==
    ASSUME NotifierAssumption, Typed, Typed', Places, [Next]_vars, NEW t \in Tasks, _finish(t)
    PROVE  Calm
<1>1. ASSUME NEW u \in Tasks, Missed(u) PROVE FALSE
  <2>1. task[u].pc = "abandon" /\ task'[u].pc = "attempt"
    BY <1>1, MissedDoes
  <2>2. task[t].pc = "finish" /\ Others(t)
    BY FinishDoes
  <2> QED BY <2>1, <2>2 DEF Others
<1> QED BY <1>1, MissedStays

\* The recovery of a down that failed names it, whichever of the two comes first.
LEMMA NamedStep ==
    ASSUME NotifierAssumption, Typed, Typed', Places, IdsAreTransitions, InOrder, NamesMissed,
           [Next]_vars
    PROVE  Named'
<1> SUFFICES ASSUME NEW id, NEW e, FailedId(id)', Good(id)', Heard(e)', Ends(e, id)
    PROVE  <<e.n, e.chan>> \in named'
  BY DEF Named
<1>0. Good(id) /\ id.dir = "down" /\ e.n = id.n + 1 /\ e.chan = id.chan
  BY GoodWas DEF Good, Ends
<1>1. CASE FailedId(id) /\ Heard(e)
  BY <1>0, <1>1, MissesGrow DEF NamesMissed, Named
<1>2. CASE FailedId(id) /\ ~Heard(e)
  <2>0. Known(id)
    BY <1>2, FailedKnown
  <2>1. PICK t \in Tasks : Missed(t)
    BY <1>2, MissedStays DEF Calm
  <2>2. e.n = task[t].n /\ e.chan = task[t].chan
    BY <1>2, <2>1, MissedHeard
  <2>3. ~(next > id.n + 1)
    BY <1>0, <2>0, <2>1, <2>2, MissedGood
  <2>4. id.chan \in downfail \/ <<id.n + 1, id.chan>> \in named
    BY <1>0, <1>2, <2>3 DEF NamesMissed, Noted
  <2>5. CASE id.chan \in downfail
    BY <1>0, <2>1, <2>2, <2>5, MissesGrow
  <2>6. CASE <<id.n + 1, id.chan>> \in named
    BY <1>0, <2>6, MissesGrow
  <2> QED BY <2>4, <2>5, <2>6
<1>3. CASE ~FailedId(id)
  <2>1. PICK t \in Tasks : _finish(t) /\ id = task[t].job.id
    BY <1>0, <1>3, FailedGrows
  <2>2. Heard(e)
    BY <2>1, FinishCalm DEF Calm
  <2>3. task[t].pc = "finish" /\ Holds(task[t])
    BY <2>1, FinishDoes
  <2>4. CASE task[t].ret = "abandon"
    BY <1>0, <2>1, <2>2, <2>3, <2>4 DEF NamesMissed, FinishFirst, Ends
  <2>5. CASE task[t].ret # "abandon"
    <3>0. Known(id)
      BY <2>1, <2>3 DEF Known, Voiced
    <3>1. Tries(task[t])
      BY <1>0, <2>1, <2>3, <2>5 DEF Tries
    <3>2. ~task[t].over
      BY <2>1 DEF Good, _finish, Loosen
    <3>3. ~Excused(id) /\ e.n > id.n
      BY <1>0, <3>0, GoodFirst
    <3>4. After(id)
      BY <1>0, <2>2, <3>3 DEF After
    <3> QED BY <2>1, <3>1, <3>2, <3>3, <3>4 DEF InOrder, HeldFirst
  <2> QED BY <2>4, <2>5
<1> QED BY <1>1, <1>2, <1>3

\* A down that is being given up on for its recovery: the recovery is not told yet.
LEMMA FinishStep ==
    ASSUME NotifierAssumption, Typed, Typed', Places, IdsAreTransitions, InOrder, NamesMissed,
           [Next]_vars, NEW u \in Tasks, NEW y, y = task'[u], y.pc = "finish", y.ret = "abandon",
           NEW id, id = y.job.id, Good(id)', NEW e, Heard(e)', Ends(e, id)
    PROVE  FALSE
<1> SUFFICES ASSUME NEW x, x = task[u] PROVE FALSE
  OBVIOUS
<1>0. Good(id) /\ e.n = id.n + 1 /\ e.chan = id.chan /\ id.dir = "down" /\ Abandons(y) /\ Holds(y)
  BY GoodWas DEF Good, Ends, Abandons, Holds, InHand
<1>1. CASE Heard(e)
  <2>1. CASE Endures(y, x)
    BY <1>0, <1>1, <2>1 DEF Endures, Kept, NamesMissed, FinishFirst
  <2>2. CASE Step(u)
    <3>1. \/ Holds(x) /\ y.ret = x.ret /\ x.pc = "attempt"
          \/ Waits(id)
      <4>1. Grips(u, x, y)
        BY <2>2, StepDoes
      <4>2. y.pc # "attempt"
        OBVIOUS
      <4> QED BY <1>0, <4>1, <4>2 DEF Grips
    <3>2. CASE Holds(x) /\ y.ret = x.ret /\ x.pc = "attempt"
      BY <3>2 DEF Typed, Shaped, JobShape
    <3>3. CASE Waits(id)
      <4>1. PICK j \in retry : j.id = id /\ j.final = ""
        BY <3>3 DEF Waits
      <4>2. Known(id)
        BY <4>1 DEF Known, Voiced
      <4>3. ~Excused(id) /\ e.n > id.n
        BY <1>0, <4>2, GoodFirst
      <4>4. After(id)
        BY <1>0, <1>1, <4>3 DEF After
      <4> QED BY <1>0, <4>1, <4>3, <4>4 DEF InOrder, PendingFirst, Pending
    <3> QED BY <3>1, <3>2, <3>3
  <2>3. CASE y.pc = "flap"
    BY <2>3
  <2>4. CASE u = "job" /\ Starts
    BY <1>0, <2>4, StartsFirst
  <2> QED BY <2>1, <2>2, <2>3, <2>4, TaskGoes
<1>2. CASE ~Heard(e)
  <2>1. PICK t \in Tasks : Missed(t)
    BY <1>2, MissedStays DEF Calm
  <2>2. /\ Others(t) /\ ~Abandons(task'[t]) /\ Handling(task[t]) /\ e.n = task[t].n
        /\ task[t].n \in Nat
    BY <1>2, <2>1, MissedHeard
  <2>3. u # t /\ y = x
    BY <1>0, <2>2 DEF Others
  <2>4. Known(id)
    BY <1>0, <2>3 DEF Known, Voiced
  <2>5. id.n \in Nat \ {0} /\ \A n \in late : n \in Nat \ {0} => n > id.n + 1
    BY <1>0, <2>4, GoodFirst
  <2>6. CASE t = "job"
    BY <1>0, <2>2, <2>5, <2>6, WhereAre, SMTT(30)
  <2>7. CASE t = "consumer"
    <3>1. u = "job"
      BY <2>3, <2>7 DEF Tasks
    <3>2. Handling(x) /\ x.n # 0
      <4>1. TellShape(x) /\ PlainShape(x) /\ Abandons(x) /\ x.pc = "finish"
        BY <1>0, <2>3 DEF Typed, Shaped
      <4>2. x.dir = "recovered"
        BY <4>1 DEF TellShape
      <4>3. x.n # 0 /\ x.mark = 0
        BY <4>1, <4>2 DEF PlainShape
      <4> QED BY <4>1, <4>3 DEF Handling
    <3>3. x.n \in late /\ x.n \in Nat /\ x.n <= next
      BY <3>1, <3>2, WhereAre
    <3>4. task["consumer"].n = next
      BY <2>2, <2>7, WhereAre DEF Handling
    <3> QED BY <1>0, <2>2, <2>5, <2>7, <3>2, <3>3, <3>4, PlaceNumbers
  <2> QED BY <2>6, <2>7 DEF Tasks
<1> QED BY <1>1, <1>2

\* Nothing has failed at the start.
LEMMA InitNames == Init => NamesMissed
<1> SUFFICES ASSUME Init PROVE NamesMissed
  OBVIOUS
<1>1. retry = {} /\ outcomes = {} /\ \A t \in Tasks : task[t] = Idle
  BY DEF Init
<1>2. \A id : ~FailedId(id)
  BY <1>1, IdleHolds DEF FailedId
<1>3. \A t \in Tasks : FinishFirst(task[t])
  BY <1>1, IdleHolds DEF FinishFirst
<1> QED BY <1>2, <1>3 DEF NamesMissed, Noted, Named

\* What names a missed down is kept by every step.
LEMMA NamesStep ==
    ASSUME NotifierAssumption, Typed, Typed', Places, IdsAreTransitions, InOrder, NamesMissed,
           [Next]_vars
    PROVE  NamesMissed'
<1>1. Noted' /\ Named'
  BY NotedStep, NamedStep
<1>2. ASSUME NEW u \in Tasks PROVE FinishFirst(task[u])'
  <2> SUFFICES ASSUME NEW y, y = task'[u], y.pc = "finish", y.ret = "abandon",
                      NEW id, id = y.job.id, Good(id)', NEW e, Heard(e)', Ends(e, id)
               PROVE  FALSE
    BY DEF FinishFirst
  <2> QED BY FinishStep
<1> QED BY <1>1, <1>2 DEF NamesMissed

\* So a recovery that was told names the down that failed.
LEMMA NamedIs ==
    ASSUME Typed, Places, IdsAreTransitions, NamesMissed
    PROVE  MissedIsNamed
<1> SUFFICES ASSUME NEW e \in told, NEW o \in outcomes,
                    e.dir = "recovered", o.state = "failed", o.id.dir = "down", o.id.mark = 0,
                    o.id.chan = e.chan, o.id.n = e.n - 1,
                    o.id \notin loose, late \intersect (1 .. e.n) = {}
             PROVE  <<e.n, e.chan>> \in named
  BY DEF MissedIsNamed
<1> SUFFICES ASSUME NEW id, id = o.id PROVE <<e.n, e.chan>> \in named
  OBVIOUS
<1>1. Heard(e)
  BY DEF Heard, Voiced
<1>2. e.n \in Nat
  BY <1>1, HeardWithin
<1>3. e.n = id.n + 1
  BY <1>2
<1>4. FailedId(id) /\ Good(id) /\ Ends(e, id)
  BY <1>3 DEF FailedId, Good, Ends
<1> QED BY <1>1, <1>4 DEF NamesMissed, Named

\* A recovery that reaches a channel which missed the down before it names it, unless a
\* transition up to it was handled late: what failed is noted until the recovery is told.
THEOREM MissNamed == Spec => []MissedIsNamed
<1> DEFINE IInv == Typed /\ Places /\ IdsAreTransitions /\ InOrder /\ NamesMissed
<1>1. NotifierAssumption
  BY NotifierAssumption
<1>2. Init => IInv
  BY <1>1, InitTyped, InitRemembers, InitInOrder, InitNames
<1>3. IInv /\ [Next]_vars => IInv'
  <2> SUFFICES ASSUME IInv, [Next]_vars PROVE IInv'
    OBVIOUS
  <2>1. Typed'
    BY <1>1, TypedStep DEF Places
  <2>2. Places' /\ IdsAreTransitions' /\ InOrder' /\ NamesMissed'
    BY <1>1, <2>1, PlacesStep, IdsStep, InOrderStep, NamesStep
  <2> QED BY <2>1, <2>2
<1>4. IInv => MissedIsNamed
  BY NamedIs
<1> QED BY <1>2, <1>3, <1>4, PTL DEF Spec
=============================================================================
