----------------------------- MODULE Evaluator -----------------------------
(***************************************************************************)
(* The evaluator (api/analytics/evaluator) of one monitor, one await at a  *)
(* time.  Results arrive on a lane; the consumer task collects each tick's *)
(* answers, and the evaluate job handles parked messages again and sweeps: *)
(* it publishes stored transitions, closes ticks past their deadline and   *)
(* runs the nodata timer.  Both work on the same Valkey keys with no lock, *)
(* and between two awaits the other one runs, the instance dies, or the    *)
(* job is cut off at the end of its budget.                                *)
(*                                                                         *)
(* Abstracted: request ids, causes, message times inside a slot, TTLs      *)
(* (600 s and more: longer than the slots modelled).                       *)
(***************************************************************************)
EXTENDS MonitorMachine, Sequences

CONSTANTS
    Regions,      \* regions_expected
    NoRegion,     \* no region
    Threshold,    \* failure_threshold
    MinFailing,   \* min_failing_regions
    Outcomes,     \* what a result message may say
    Late,         \* slots from a tick to its deadline (timeout + 10 s)
    Interleaved,  \* TRUE: the consumer and the job run between each other's awaits
    CutPoints,    \* where a task may be cut off
    MaxTick,      \* bound on the ticks that have results
    MaxTime,      \* bound on the clock
    MaxCuts,      \* bound on cut-off tasks
    MaxFaults,    \* bound on failed publishes
    MaxParked,    \* bound on parked messages
    MaxEdits      \* bound on pauses and resumes

ASSUME EvaluatorAssumption ==
    /\ IsFiniteSet(Regions) /\ Regions # {} /\ NoRegion \notin Regions
    /\ {Threshold, MinFailing, Late, MaxTick, MaxTime, MaxCuts, MaxFaults, MaxParked,
        MaxEdits} \subseteq Nat
    /\ Interleaved \in BOOLEAN /\ Outcomes \subseteq {"ok", "fail", "missing"}

Ticks == 1 .. MaxTick
Workers == {"consumer", "job"}

VARIABLES
    now,        \* the slot the clock is in
    lane,       \* per tick and region, where the result message stands and says
    config,     \* the cached monitors snapshot's row of the monitor
    mon, closed, open, emit,  \* Valkey: mon:, closed:, tick:, emit:
    published,  \* transitions published, in order
    task,       \* what each worker is doing
    counted,    \* history: the ticks applied and saved, in order
    disturbed,  \* history: ticks both tasks worked on, or whose closing was cut off
    contested,  \* history: numbers of transitions of commits cut off or side by side
    seams,      \* history: lengths of counted after which a tick may not build on it
    spent       \* history: how often each bounded event happened

valkey == <<mon, closed, open, emit>>
env == <<now, lane, config>>
history == <<counted, disturbed, contested, seams>>
vars == <<env, valkey, published, task, history, spent>>

\* A result message: ok, not ok, or missing.
Answers == {"ok", "fail", "missing"}
Message == [at : {"unsent", "queued", "parked", "gone", "done"}, says : Answers]
Unsent == [at |-> "unsent", says |-> "missing"]
Done == [at |-> "done", says |-> "missing"]   \* what it said is forgotten
Gone == [at |-> "gone", says |-> "missing"]

\* A stored tick; one nobody answered is not stored.
TickRec == [results : UNION {[R -> BOOLEAN] : R \in SUBSET Regions},
            missing : SUBSET Regions]
NoTick == [results |-> [r \in {} |-> TRUE], missing |-> {}]
Answered(tick) == DOMAIN tick.results \union tick.missing

\* mon: holds nothing.
NoState == Fresh("paused", 0, 0)

\* A row of the snapshot, and none.
RowRec == [active : BOOLEAN, status : Statuses, failures : Nat, seq : Nat]
NoRow == [active |-> FALSE, status |-> "paused", failures |-> 0, seq |-> 0]

\* What a task keeps across its awaits: the message, the row of its monitor, the
\* tick it read, the state and transition it computed, closed: as read, when a
\* sweep looked at the clock, the keys left to do.
Idle == [pc |-> "idle", of |-> "message", tick |-> 0, region |-> NoRegion, row |-> NoRow,
         rec |-> NoTick, st |-> NoState, tr |-> NoTransition, read |-> 0, since |-> 0,
         todo |-> {}]
Pcs == {"idle", "read", "put", "apply", "emit", "save", "publish", "unemit", "closed",
        "close", "drop", "mark", "flush", "ticks", "timer"}
TaskRec == [pc : Pcs, of : {"message", "flush", "ticks", "idle"}, tick : 0 .. MaxTick,
            region : Regions \union {NoRegion}, row : RowRec, rec : TickRec, st : StateRec,
            tr : TransitionRec, read : 0 .. MaxTick, since : 0 .. MaxTime, todo : SUBSET Nat]

MarksTypeOK == disturbed \in SUBSET Ticks /\ contested \in SUBSET Nat /\ seams \in SUBSET Nat

TypeOK ==
    /\ now \in 0 .. MaxTime
    /\ lane \in [Ticks -> [Regions -> Message]]
    /\ config \in RowRec
    /\ mon \in StateRec /\ closed \in 0 .. MaxTick /\ open \in [Ticks -> TickRec]
    /\ emit \in SUBSET TransitionRec
    /\ published \in Seq(TransitionRec)
    /\ task \in [Workers -> TaskRec]
    /\ counted \in Seq([tick : Ticks, failed : BOOLEAN, to : Statuses])
    /\ MarksTypeOK
    /\ spent \in [{"cuts", "faults", "parked", "edits"} -> Nat]

Init ==
    /\ now = 0
    /\ lane = [t \in Ticks |-> [r \in Regions |-> Unsent]]
    /\ config = [active |-> TRUE, status |-> "pending", failures |-> 0, seq |-> 0]
    /\ mon = NoState /\ closed = 0 /\ open = [t \in Ticks |-> NoTick]
    /\ emit = {} /\ published = <<>>
    /\ task = [w \in Workers |-> Idle]
    /\ counted = <<>> /\ disturbed = {} /\ contested = {} /\ seams = {}
    /\ spent = [cuts |-> 0, faults |-> 0, parked |-> 0, edits |-> 0]

Spend(what, max) == spent[what] < max /\ spent' = [spent EXCEPT ![what] = @ + 1]

\* A worker begins something: alone, unless tasks interleave.
Starts(w) ==
    /\ task[w].pc = "idle"
    /\ Interleaved \/ \A v \in Workers : task[v].pc = "idle"

\* A step of a running task, from one await to the next.
At(w, pc) == task[w].pc = pc
Goes(w, rec) == task' = [task EXCEPT ![w] = rec]
GoesTo(w, pc) == Goes(w, [task[w] EXCEPT !.pc = pc])
Ends(w) == Goes(w, Idle)

\* A task has a tick in hand from the check of closed: to the deletion of the
\* tick, and a state in hand from its computation to its saving.
HasTick(w, t) ==
    /\ task[w].tick = t
    /\ task[w].pc \in {"read", "put", "apply", "emit", "save", "publish", "unemit", "closed",
                      "close", "drop"}
HasState(w) == task[w].pc \in {"emit", "save"}
Others(w) == Workers \ {w}

\* A worker takes a tick in hand: disturbed, if the other one has it.
TakesTick(w, t) ==
    disturbed' = disturbed \union {u \in {t} : \E v \in Others(w) : HasTick(v, u)}

----------------------------------------------------------------------------
(* on_result. *)

\* The consumer takes the oldest queued message; the job, any parked one.
Takes(w, t, r) ==
    \/ /\ w = "consumer" /\ lane[t][r].at = "queued"
       /\ \A u \in 1 .. t - 1 : \A q \in Regions : lane[u][q].at # "queued"
    \/ w = "job" /\ lane[t][r].at = "parked"

\* Mutant: the tick closed last still takes results.
IsLateAtLast(t) == t < closed

\* A duplicate or late answer for a tick that already closed.
IsLate(t) == t <= closed

\* on_result up to its first read: an inactive monitor's result, and one for a
\* closed tick, are handled already.
Deliver(w, t, r) ==
    /\ Starts(w) /\ Takes(w, t, r)
    /\ LET handled == ~config.active \/ IsLate(t) IN
         /\ Goes(w, [Idle EXCEPT !.pc = IF handled THEN "mark" ELSE "read", !.tick = t,
                                 !.region = r, !.row = IF handled THEN NoRow ELSE config])
         /\ IF handled THEN UNCHANGED disturbed ELSE TakesTick(w, t)
    /\ UNCHANGED <<env, valkey, published, counted, contested, seams, spent>>

\* The tick with one more answer; a second answer of a region replaces the
\* first, and a region's missing is remembered beside it.
Heard(tick, r, says) ==
    IF says = "missing" THEN [tick EXCEPT !.missing = @ \union {r}]
    ELSE [tick EXCEPT !.results = [q \in DOMAIN @ \union {r} |->
                                     IF q = r THEN says = "ok" ELSE @[q]]]

\* Reads the tick and adds the answer; the last one expected closes it.
ReadTick(w) ==
    /\ At(w, "read")
    /\ LET t == task[w].tick
           r == task[w].region
           tick == Heard(open[t], r, lane[t][r].says)
       IN  Goes(w, [task[w] EXCEPT !.rec = tick, !.pc = IF Regions \subseteq Answered(tick)
                                                        THEN "apply" ELSE "put"])
    /\ UNCHANGED <<env, valkey, published, history, spent>>

PutTick(w) ==
    /\ At(w, "put")
    /\ open' = [open EXCEPT ![task[w].tick] = task[w].rec]
    /\ GoesTo(w, "mark")
    /\ UNCHANGED <<env, mon, closed, emit, published, history, spent>>

\* Marks the message seen and commits it (Dispatcher._done, Consumer._run).
Mark(w) ==
    /\ At(w, "mark")
    /\ lane' = [lane EXCEPT ![task[w].tick][task[w].region] = Done]
    /\ Ends(w)
    /\ UNCHANGED <<now, config, valkey, published, history, spent>>

----------------------------------------------------------------------------
(* _close and _commit. *)

\* monitor_state: the working state, or the row's when that is newer.
MonitorState(row) ==
    IF mon # NoState /\ mon.seq >= row.seq THEN mon
    ELSE Fresh(row.status, row.failures, row.seq)

\* Mutant: the state is saved and the transition is not stored.
AfterComputeSaves(step) == "save"

\* Where _commit goes first: a transition is stored before the state is saved.
AfterCompute(step) == IF step.tr = NoTransition THEN "save" ELSE "emit"

\* The numbers of a commit and of the one the other task has under way.
Clashing(w, step) ==
    {n \in {step.tr.seq} : step.tr # NoTransition /\ \E v \in Others(w) : HasState(v) /\ task[v].tr.seq = n}

\* A row that says more than that the monitor begins anew.
SaysMore(row) == row.failures > 0 \/ row.status = "down"

Computed(w, step) ==
    /\ Goes(w, [task[w] EXCEPT !.st = step.st, !.tr = step.tr, !.row = NoRow,
                               !.pc = AfterCompute(step)])
    /\ contested' = contested \union Clashing(w, step)
    /\ seams' = IF MonitorState(task[w].row) # mon /\ SaysMore(task[w].row)
                THEN seams \union {Len(counted)} ELSE seams

Apply(w) ==
    /\ At(w, "apply")
    /\ Computed(w, ApplyTick(MonitorState(task[w].row), task[w].rec.results, task[w].tick,
                             Threshold, MinFailing))
    /\ UNCHANGED <<env, valkey, published, counted, disturbed, spent>>

\* emit: without the transition of a number; a transition is stored by number.
Without(n) == {e \in emit : e.seq # n}

PutEmit(w) ==
    /\ At(w, "emit")
    /\ emit' = Without(task[w].tr.seq) \union {task[w].tr}
    /\ GoesTo(w, "save")
    /\ UNCHANGED <<env, mon, closed, open, published, history, spent>>

\* What a task does once its transition is published, or failed to be.
AfterPublish(w) == IF task[w].of = "message" \/ task[w].of = "ticks" THEN "closed" ELSE task[w].of

Save(w) ==
    /\ At(w, "save")
    /\ mon' = task[w].st
    /\ counted' = IF task[w].of \in {"message", "ticks"} /\ Reported(task[w].rec.results)
                  THEN Append(counted, [tick |-> task[w].tick, to |-> task[w].st.status,
                                        failed |-> TickFailed(task[w].rec.results, MinFailing)])
                  ELSE counted
    /\ contested' = contested \union
         UNION {task[v].st.seq + 1 .. task[w].st.seq : v \in {u \in Others(w) : HasState(u)}}
    /\ seams' = IF counted' # counted /\ \E v \in Others(w) : HasState(v)
                THEN seams \union {Len(counted')} ELSE seams
    /\ GoesTo(w, IF task[w].tr = NoTransition THEN AfterPublish(w) ELSE "publish")
    /\ UNCHANGED <<env, closed, open, emit, published, disturbed, spent>>

\* _emit: publishes, then forgets the stored transition; a failed publish
\* leaves it for the next sweep.
Publish(w) ==
    /\ At(w, "publish")
    /\ published' = Append(published, task[w].tr)
    /\ GoesTo(w, "unemit")
    /\ UNCHANGED <<env, valkey, history, spent>>

PublishFails(w) ==
    /\ At(w, "publish")
    /\ Spend("faults", MaxFaults)
    /\ GoesTo(w, AfterPublish(w))
    /\ UNCHANGED <<env, valkey, published, history>>

Unemit(w) ==
    /\ At(w, "unemit")
    /\ emit' = Without(task[w].tr.seq)
    /\ GoesTo(w, AfterPublish(w))
    /\ UNCHANGED <<env, mon, closed, open, published, history, spent>>

ReadClosed(w) ==
    /\ At(w, "closed")
    /\ Goes(w, [task[w] EXCEPT !.read = closed, !.pc = "close"])
    /\ UNCHANGED <<env, valkey, published, history, spent>>

\* Mutant: closed: keeps the tick's deadline for its slot.
LatestDeadline(t, read) == IF t > read THEN t + Late ELSE read

Latest(t, read) == IF t > read THEN t ELSE read

PutClosed(w) ==
    /\ At(w, "close")
    /\ closed' = Latest(task[w].tick, task[w].read)
    /\ disturbed' = disturbed \union {t \in Ticks : closed' < t /\ t <= closed}
    /\ GoesTo(w, "drop")
    /\ UNCHANGED <<env, mon, open, emit, published, counted, contested, seams, spent>>

\* Mutant: a closed tick stays in working state.
DroppedNot(t) == open

Dropped(t) == [open EXCEPT ![t] = NoTick]

\* The tick is deleted, and its message is handled or the sweep goes on.
DropTick(w) ==
    /\ At(w, "drop")
    /\ open' = Dropped(task[w].tick)
    /\ GoesTo(w, IF task[w].of = "message" THEN "mark" ELSE "ticks")
    /\ UNCHANGED <<env, mon, closed, emit, published, history, spent>>

----------------------------------------------------------------------------
(* sweep, called by every evaluate job. *)

Stored == {e.seq : e \in emit}
OpenTicks == {t \in Ticks : Answered(open[t]) # {}}

SweepStarts ==
    /\ Starts("job")
    /\ Goes("job", [Idle EXCEPT !.pc = "flush", !.of = "flush", !.todo = Stored])
    /\ UNCHANGED <<env, valkey, published, history, spent>>

\* Mutant: a sweep publishes nothing again.
ToFlushNothing(todo) == {}

ToFlush(todo) == {e \in emit : e.seq \in todo}

\* flush: the next stored transition is read and published again.
FlushNext ==
    /\ At("job", "flush")
    /\ \E e \in ToFlush(task["job"].todo) :
         Goes("job", [task["job"] EXCEPT !.tr = e, !.todo = @ \ {e.seq}, !.pc = "publish"])
    /\ UNCHANGED <<env, valkey, published, history, spent>>

FlushEnds ==
    /\ At("job", "flush")
    /\ ToFlush(task["job"].todo) = {}
    /\ Goes("job", [task["job"] EXCEPT !.pc = "ticks", !.of = "ticks", !.todo = OpenTicks,
                                       !.since = now])
    /\ UNCHANGED <<env, valkey, published, history, spent>>

\* Mutant: only complete ticks are swept.
PastDeadlineIfComplete(t) == Regions \subseteq Answered(open[t])

PastDeadline(t) == t + Late <= task["job"].since

\* The ticks of the sweep that are still open and past their deadline.
ToClose(todo) == {t \in todo \intersect OpenTicks : PastDeadline(t)}

\* Reads the next tick past its deadline and closes it with the answers it
\* has; an inactive monitor's tick is only deleted.
SweepTick ==
    /\ At("job", "ticks")
    /\ \E t \in ToClose(task["job"].todo) :
         /\ Goes("job", [task["job"] EXCEPT !.tick = t, !.rec = open[t], !.todo = @ \ {t},
                                            !.tr = NoTransition, !.row = config,
                                            !.pc = IF config.active THEN "apply" ELSE "drop"])
         /\ TakesTick("job", t)
    /\ UNCHANGED <<env, valkey, published, counted, contested, seams, spent>>

SweepTicksEnd ==
    /\ At("job", "ticks")
    /\ ToClose(task["job"].todo) = {}
    /\ Goes("job", [Idle EXCEPT !.pc = "timer", !.of = "idle", !.row = config,
                                !.since = task["job"].since])
    /\ UNCHANGED <<env, valkey, published, history, spent>>

\* The nodata timer of an active monitor.
SweepTimer ==
    /\ At("job", "timer") /\ task["job"].row.active
    /\ LET known == MonitorState(task["job"].row) IN
         IF NoData(known, task["job"].since, 1)
         THEN Computed("job", CheckNoData(known, task["job"].since, 1))
         ELSE Ends("job") /\ UNCHANGED <<contested, seams>>
    /\ UNCHANGED <<env, valkey, published, counted, disturbed, spent>>

\* Mutant: a paused monitor's state is kept.
Kept == mon

\* An inactive monitor's state is deleted: resuming starts from the snapshot.
Cleared == NoState

\* A number above that of a row a state may be made from when there is none.
Unheard(n) ==
    n > config.seq \/ \E w \in Workers : task[w].pc \in {"read", "apply"} /\ n > task[w].row.seq

SweepInactive ==
    /\ At("job", "timer") /\ ~task["job"].row.active
    /\ mon' = Cleared
    /\ contested' = contested \union {n \in 1 .. mon.seq : Unheard(n)}
    /\ Ends("job")
    /\ UNCHANGED <<env, closed, open, emit, published, counted, disturbed, seams, spent>>

----------------------------------------------------------------------------
(* The environment. *)

\* The clock enters the next slot; its tick's results are queued, all in one
\* transaction of the scheduler, or the tick is never run.
Slot ==
    /\ now < MaxTime
    /\ now' = now + 1
    /\ \/ UNCHANGED lane
       \/ /\ now' \in Ticks
          /\ \E says \in [Regions -> Outcomes] :
               lane' = [lane EXCEPT ![now'] = [r \in Regions |-> [at |-> "queued", says |-> says[r]]]]
    /\ UNCHANGED <<config, valkey, published, task, history, spent>>

\* A message that failed every attempt before it reached on_result is parked
\* for a later pass, and the lane moves on (Dispatcher.handle).
Park(t, r) ==
    /\ Starts("consumer") /\ Takes("consumer", t, r)
    /\ Spend("parked", MaxParked)
    /\ lane' = [lane EXCEPT ![t][r].at = "parked"]
    /\ UNCHANGED <<now, config, valkey, published, task, history>>

\* A parked message is given up on (Dispatcher.redrive).
GiveUp(t, r) ==
    /\ Starts("job") /\ Takes("job", t, r)
    /\ lane' = [lane EXCEPT ![t][r] = Gone]
    /\ UNCHANGED <<now, config, valkey, published, task, history, spent>>

\* The instance dies, or the job's budget ends, at an await: the message is
\* not marked and comes again, what Valkey holds stays.
Cut(w) ==
    /\ task[w].pc \in CutPoints
    /\ Spend("cuts", MaxCuts)
    /\ Ends(w)
    /\ disturbed' = IF task[w].pc \in {"publish", "unemit", "closed", "close", "drop"}
                    THEN disturbed \union (Ticks \intersect {task[w].tick}) ELSE disturbed
    /\ contested' = IF task[w].pc = "save" /\ task[w].tr # NoTransition
                    THEN contested \union {task[w].tr.seq} ELSE contested
    /\ UNCHANGED <<env, valkey, published, counted, seams>>

\* api/common pauses or resumes the monitor and rewrites the snapshot.
Toggle ==
    /\ Spend("edits", MaxEdits)
    /\ config' = [config EXCEPT !.active = ~@, !.failures = 0,
                                !.status = IF config.active THEN "paused" ELSE "pending"]
    /\ UNCHANGED <<now, lane, valkey, published, task, history>>

\* The snapshot is rewritten with a transition that was published meanwhile.
Rewrite ==
    /\ config.active
    /\ \E i \in DOMAIN published :
         /\ published[i].seq > config.seq
         /\ config' = [config EXCEPT !.status = published[i].to, !.seq = published[i].seq,
                                     !.failures = published[i].failures]
    /\ UNCHANGED <<now, lane, valkey, published, task, history, spent>>

Handle(w) ==
    \/ \E t \in Ticks, r \in Regions : Deliver(w, t, r)
    \/ ReadTick(w) \/ PutTick(w) \/ Mark(w)
    \/ Apply(w) \/ PutEmit(w) \/ Save(w) \/ Publish(w) \/ PublishFails(w) \/ Unemit(w)
    \/ ReadClosed(w) \/ PutClosed(w) \/ DropTick(w)

Sweep ==
    \/ SweepStarts \/ FlushNext \/ FlushEnds \/ SweepTick \/ SweepTicksEnd
    \/ SweepTimer \/ SweepInactive

Environment ==
    \/ Slot \/ Toggle \/ Rewrite
    \/ \E t \in Ticks, r \in Regions : Park(t, r) \/ GiveUp(t, r)
    \/ \E w \in Workers : Cut(w)

Next == (\E w \in Workers : Handle(w)) \/ Sweep \/ Environment

Spec == Init /\ [][Next]_vars

\* A running task goes on (its calls time out), the consumer polls, and the
\* evaluate job is called every minute.
Fairness ==
    /\ WF_vars(Handle("consumer"))
    /\ WF_vars(Handle("job") \/ Sweep)
    /\ WF_vars(Slot)

FairSpec == Spec /\ Fairness

----------------------------------------------------------------------------
(* Properties. *)

\* No tick is applied twice, however late, repeated or parked its results are and
\* however the tasks interleave, but one both tasks had in hand at once, one whose
\* closing was cut off, and one closed: stepped back over (on_result, _close).
CountedOnce ==
    \A i, j \in DOMAIN counted :
        i # j /\ counted[i].tick = counted[j].tick => counted[i].tick \in disturbed

\* The last n ticks of what was applied up to the ith.
LastTicks(i, n) == {counted[j].tick : j \in {k \in DOMAIN counted : i - n < k /\ k <= i}}

\* When the ith tick applied takes the monitor down.
GoesDown(i) == counted[i].to = "down" /\ (i = 1 \/ counted[i - 1].to # "down")

\* The last n ticks applied up to the ith were applied one to what the other
\* left, and none of them was disturbed.
Undisturbed(i, n) ==
    /\ \A k \in seams : k <= i - n \/ k >= i
    /\ LastTicks(i, n) \intersect disturbed = {}

\* Down follows as many different failed ticks as the threshold asks for, applied
\* one after the other (apply_tick, _close), whoever closes them and whatever
\* dies: but where a tick was disturbed, was saved while the other task had a
\* state it had computed before, or began from a row that was not new.
DownIsEarned ==
    \A i \in DOMAIN counted : GoesDown(i) /\ Undisturbed(i, Threshold) =>
        /\ Cardinality(LastTicks(i, Threshold)) = Threshold
        /\ \A k \in DOMAIN counted : i - Threshold < k /\ k <= i => counted[k].failed

\* "Down needs `threshold` consecutive failed ticks": no tick between those
\* passed, not even one applied before or after them.  Does not hold (README,
\* section 7): a parked result has ticks applied out of their order.
DownIsConsecutive ==
    DownIsEarned /\ \A i, k \in DOMAIN counted : GoesDown(i) =>
        LET ticks == LastTicks(i, Threshold) IN
        (\E a, b \in ticks : a <= counted[k].tick /\ counted[k].tick <= b) => counted[k].failed

\* Every transition of the saved state is stored or published: a crash
\* anywhere loses none of them (_commit).
SavedIsStored ==
    \A n \in 1 .. mon.seq :
        n \in Stored \/ \E i \in DOMAIN published : published[i].seq = n

\* A transition's id is made of the monitor and its number: two published
\* transitions of one number are the same one (_commit, uuid5), through deaths,
\* stale rows, pauses and publishing again, but for a number whose commit died
\* between storing and saving or overlapped another, and one the snapshot had not
\* heard of when a paused monitor's state was deleted.
IdsNameOneTransition ==
    \A i, j \in DOMAIN published :
        published[i].seq = published[j].seq =>
            published[i] = published[j] \/ published[i].seq \in contested

\* A transition to nodata is stored only when no tick of the last two slots was
\* applied, but a tick after which an older one was, and one applied while the
\* sweep had its nodata state in hand (sweep).
NodataIsEarned ==
    [][(\E e \in emit' \ emit : e.to = "nodata") /\ Len(counted) \notin seams =>
         \A i \in DOMAIN counted :
             \/ counted[i].tick + 2 < now
             \/ \E j \in DOMAIN counted : i < j /\ counted[j].tick < counted[i].tick]_vars

\* How many transitions the ticks, timers and edits modelled can make.
MaxSeq == 2 * MaxTick + 1

\* A stored transition is published in the end, whatever failed (flush).
StoredIsPublished ==
    \A n \in 1 .. MaxSeq :
        n \in Stored ~> \E i \in DOMAIN published : published[i].seq = n

\* A monitor that stays paused is forgotten in the end, whatever close was
\* under way: "resuming starts fresh from the snapshot" (sweep).
PausedIsForgotten == <>[](~config.active) => <>[](mon = NoState)

\* A tick with an answer closes in the end, with or without the others.
OpenTicksClose ==
    \A t \in Ticks : Answered(open[t]) # {} ~> Answered(open[t]) = {}
=============================================================================
