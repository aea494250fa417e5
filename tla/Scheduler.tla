----------------------------- MODULE Scheduler -----------------------------
(***************************************************************************)
(* The check scheduler of api/common (internal/service/scheduler.go and    *)
(* the monitors repository).  Cloud Scheduler calls run-checks every       *)
(* minute on any instance, so several passes run at once.  A pass claims   *)
(* due monitors under a lease, probes them outside any transaction, then   *)
(* records the ticks and moves each monitor to its next slot in one        *)
(* transaction.  Users pause, resume, edit and delete monitors meanwhile.  *)
(*                                                                         *)
(* Abstracted: which regions answer (Evaluator takes the results up from   *)
(* there) and everything of a row that scheduling does not read.           *)
(***************************************************************************)
EXTENDS Integers, Sequences, FiniteSets

CONSTANTS
    Monitors,    \* monitor ids
    Passes,      \* concurrent run-checks passes, of any instance
    Intervals,   \* interval_s values a user may set
    Lease,       \* claimLease
    MaxTime,     \* bound on the clock
    MaxEdits,    \* bound on user edits
    MaxFaults    \* bound on crashes and failed transactions

ASSUME SchedulerAssumption ==
    /\ Intervals \subseteq Nat \ {0}
    /\ Lease \in Nat \ {0}
    /\ MaxTime \in Nat /\ MaxEdits \in Nat /\ MaxFaults \in Nat

VARIABLES
    now,     \* Postgres' now(), shared by every instance
    row,     \* the monitors table; a lease of 0 is NULL
    pc,      \* where each pass stands
    at,      \* when each pass claimed
    claim,   \* what each pass claimed of each monitor; slot 0 is nothing
    sent,    \* per monitor, the slots queued in the outbox, in commit order
    owed,    \* history: the time of a resume that no queued slot has met, else 0
    overrun, \* history: some pass ran on after its lease lapsed
    edits, faults

passVars == <<pc, at, claim>>
bounds == <<overrun, edits, faults>>
vars == <<now, row, passVars, sent, owed, bounds>>

Row == [exists : BOOLEAN, active : BOOLEAN, interval : Intervals,
        next : Nat, lease : Nat]

\* The ScheduledAt and Claimed of a DueMonitor.
ClaimRec == [slot : Nat, claimed : Nat]
NoClaim == [slot |-> 0, claimed |-> 0]
NoClaims == [m \in Monitors |-> NoClaim]

Held(p) == {m \in Monitors : claim[p][m].slot # 0}

TypeOK ==
    /\ now \in Nat \ {0}
    /\ row \in [Monitors -> Row]
    /\ pc \in [Passes -> {"idle", "probing", "answered", "failed"}]
    /\ at \in [Passes -> Nat]
    /\ claim \in [Passes -> [Monitors -> ClaimRec]]
    /\ sent \in [Monitors -> Seq(Nat)]
    /\ owed \in [Monitors -> Nat]
    /\ overrun \in BOOLEAN /\ edits \in Nat /\ faults \in Nat

NewRow(interval, next) ==
    [exists |-> TRUE, active |-> TRUE, interval |-> interval, next |-> next, lease |-> 0]

\* CreateMonitor spreads the first run over the interval.
Init ==
    /\ now = 1
    /\ row \in [Monitors -> UNION {{NewRow(i, n) : n \in 1 .. i} : i \in Intervals}]
    /\ pc = [p \in Passes |-> "idle"]
    /\ at = [p \in Passes |-> 0]
    /\ claim = [p \in Passes |-> NoClaims]
    /\ sent = [m \in Monitors |-> <<>>]
    /\ owed = [m \in Monitors |-> 0]
    /\ overrun = FALSE /\ edits = 0 /\ faults = 0

----------------------------------------------------------------------------
(* A pass. *)

\* Mutant: the missed slots are counted backwards.
LatestSlotBackwards(next, interval, t) == next - interval * ((t - next) \div interval)

\* The latest slot at or before t of the grid that starts at next.
LatestSlot(next, interval, t) == next + interval * ((t - next) \div interval)

\* Mutants: a claim ignores leases; a lease never lapses on its own.
DueIgnoresLease(m) == row[m].exists /\ row[m].active /\ row[m].next <= now
DueOnlyReleased(m) == DueIgnoresLease(m) /\ row[m].lease = 0

\* What a claim may take: active, due, and under no lease.
Due(m) ==
    /\ row[m].exists /\ row[m].active
    /\ row[m].next <= now
    /\ row[m].lease <= now

DueSet == {m \in Monitors : Due(m)}

ClaimOf(m) == [slot |-> LatestSlot(row[m].next, row[m].interval, now),
               claimed |-> row[m].next]

\* ClaimDueMonitors.  Rows another transaction has locked are skipped and the
\* batch is limited, so any of the due monitors may be taken.
Claim(p) ==
    /\ pc[p] = "idle"
    /\ \E S \in SUBSET DueSet :
        /\ S # {}
        /\ row' = [m \in Monitors |->
                     IF m \in S THEN [row[m] EXCEPT !.lease = now + Lease] ELSE row[m]]
        /\ claim' = [claim EXCEPT ![p] =
                       [m \in Monitors |-> IF m \in S THEN ClaimOf(m) ELSE NoClaim]]
    /\ pc' = [pc EXCEPT ![p] = "probing"]
    /\ at' = [at EXCEPT ![p] = now]
    /\ UNCHANGED <<now, sent, owed, bounds>>

\* Every region of every claimed monitor has answered or timed out.
Probe(p) ==
    /\ pc[p] = "probing"
    /\ pc' = [pc EXCEPT ![p] = "answered"]
    /\ UNCHANGED <<now, row, at, claim, sent, owed, bounds>>

PassEnds(p) ==
    /\ pc' = [pc EXCEPT ![p] = "idle"]
    /\ at' = [at EXCEPT ![p] = 0]
    /\ claim' = [claim EXCEPT ![p] = NoClaims]

\* Mutants: missed slots are backfilled; an edit since the claim is overwritten.
NextRunBackfills(r, c) == IF r.next = c.claimed THEN c.claimed + r.interval ELSE r.next
NextRunOverwrites(r, c) == c.slot + r.interval

\* A monitor edited since the claim keeps the next_run_at the edit set.
NextRun(r, c) == IF r.next = c.claimed THEN c.slot + r.interval ELSE r.next

\* CompleteMonitors on one row; a deleted row matches nothing.
Completed(r, c) ==
    IF r.exists THEN [r EXCEPT !.lease = 0, !.next = NextRun(r, c)] ELSE r

\* The transaction of relay: the ticks are queued and the claims completed.
Relay(p) ==
    /\ pc[p] = "answered"
    /\ row' = [m \in Monitors |->
                 IF m \in Held(p) THEN Completed(row[m], claim[p][m]) ELSE row[m]]
    /\ sent' = [m \in Monitors |->
                  IF m \in Held(p) THEN Append(sent[m], claim[p][m].slot) ELSE sent[m]]
    /\ owed' = [m \in Monitors |->
                  IF m \in Held(p) /\ claim[p][m].slot >= owed[m] THEN 0 ELSE owed[m]]
    /\ PassEnds(p)
    /\ UNCHANGED <<now, bounds>>

Fault ==
    /\ faults < MaxFaults
    /\ faults' = faults + 1
    /\ UNCHANGED <<overrun, edits>>

\* The transaction of relay fails, or its context ended: nothing is queued.
RelayFails(p) ==
    /\ pc[p] = "answered"
    /\ pc' = [pc EXCEPT ![p] = "failed"]
    /\ Fault
    /\ UNCHANGED <<now, row, at, claim, sent, owed>>

\* ReleaseMonitors after a failed pass.
Release(p) ==
    /\ pc[p] = "failed"
    /\ row' = [m \in Monitors |->
                 IF m \in Held(p) THEN [row[m] EXCEPT !.lease = 0] ELSE row[m]]
    /\ PassEnds(p)
    /\ UNCHANGED <<now, sent, owed, bounds>>

\* The process dies, or the release fails too: the leases lapse on their own.
\* The bounded clock leaves them the time to.
Crash(p) ==
    /\ pc[p] # "idle"
    /\ now + Lease <= MaxTime
    /\ Fault
    /\ PassEnds(p)
    /\ UNCHANGED <<now, row, sent, owed>>

----------------------------------------------------------------------------
(* Users (UpdateMonitor, DeleteMonitor) and the clock. *)

Edit(m, r) ==
    /\ row[m].exists
    /\ edits < MaxEdits
    /\ edits' = edits + 1
    /\ row' = [row EXCEPT ![m] = r]
    /\ UNCHANGED <<now, passVars, sent, overrun, faults>>

Pause(m) ==
    /\ row[m].active
    /\ Edit(m, [row[m] EXCEPT !.active = FALSE])
    /\ owed' = [owed EXCEPT ![m] = 0]

\* Resuming checks at once: next_run_at = now().  A running claim keeps its
\* lease.  Two transactions never share a microsecond: the resume is later
\* than every slot claimed or queued so far.
Resume(m) ==
    /\ ~row[m].active
    /\ \A p \in Passes : claim[p][m].slot < now
    /\ \A i \in 1 .. Len(sent[m]) : sent[m][i] < now
    /\ Edit(m, [row[m] EXCEPT !.active = TRUE, !.next = now])
    /\ owed' = [owed EXCEPT ![m] = now]

SetInterval(m) ==
    /\ \E i \in Intervals \ {row[m].interval} : Edit(m, [row[m] EXCEPT !.interval = i])
    /\ UNCHANGED owed

Delete(m) ==
    /\ Edit(m, [row[m] EXCEPT !.exists = FALSE, !.active = FALSE])
    /\ owed' = [owed EXCEPT ![m] = 0]

\* Time passes, and may carry a pass over the end of its lease: 500 monitors
\* of up to 65 s each share 200 slots, and the lease is three minutes.
Tick ==
    /\ now < MaxTime
    /\ now' = now + 1
    /\ overrun' = (overrun \/ \E p \in Passes : pc[p] # "idle" /\ now' >= at[p] + Lease)
    /\ UNCHANGED <<row, passVars, sent, owed, edits, faults>>

PassStep(p) == Claim(p) \/ Probe(p) \/ Relay(p) \/ RelayFails(p) \/ Release(p) \/ Crash(p)

UserStep(m) == Pause(m) \/ Resume(m) \/ SetInterval(m) \/ Delete(m)

Next ==
    \/ \E p \in Passes : PassStep(p)
    \/ \E m \in Monitors : UserStep(m)
    \/ Tick

Spec == Init /\ [][Next]_vars

\* The job is called every minute (Claim), a probe call times out (Probe), a
\* running call reaches its end (Relay, Release), and time passes.
Fairness ==
    /\ WF_vars(Tick)
    /\ \A p \in Passes : /\ WF_vars(Claim(p))
                         /\ WF_vars(Probe(p))
                         /\ WF_vars(Relay(p))
                         /\ WF_vars(Release(p))

FairSpec == Spec /\ Fairness

----------------------------------------------------------------------------
(* Properties. *)

\* "SKIP LOCKED plus the lease let any number of instances schedule without
\* double dispatch" (ClaimDueMonitors): while passes end within their lease,
\* no two hold the same monitor, whoever crashed or was edited meanwhile.
NoDoubleDispatch ==
    ~overrun =>
        \A p, q \in Passes : p # q => Held(p) \cap Held(q) = {}

\* The slots queued for a monitor only move forward: a retried, crashed or
\* edited pass never queues one slot twice, nor an older slot after a newer.
SlotsAdvance ==
    ~overrun =>
        \A m \in Monitors : \A i \in 1 .. Len(sent[m]) - 1 : sent[m][i] < sent[m][i + 1]

\* A resume is never forgotten: until a slot at or after it is queued, the
\* row stays due at the time of the resume, even when a pass that claimed the
\* monitor before the pause completes late (CompleteMonitors).
ResumeIsKept ==
    \A m \in Monitors : owed[m] # 0 => row[m].next = owed[m]

\* Only a resume moves next_run_at back: a pass slower than its lease cannot
\* rewind a monitor that a later pass already moved on (CompleteMonitors).
OnlyResumeRewinds ==
    [][\A m \in Monitors : row'[m].next < row[m].next => ~row[m].active /\ row'[m].active]_vars

\* A due monitor is eventually dispatched (or paused, or deleted), whatever
\* pass died with its lease: dispatch, ReleaseMonitors and the lease lapse.
DueIsServed ==
    \A m \in Monitors :
        (row[m].active /\ row[m].next <= now) ~> (~row[m].active \/ row[m].next > now)

\* claimLease "is how long a claimed monitor or check stays out of other
\* passes": no two passes hold a monitor that both claimed under a lease ago.
\* Does not hold (README, section 7): a late pass ends another's lease.
LeaseKeepsOthersOut ==
    \A p, q \in Passes : p # q =>
        \A m \in Held(p) \cap Held(q) :
            now >= at[p] + Lease \/ now >= at[q] + Lease

----------------------------------------------------------------------------
(* The inductive invariant behind NoDoubleDispatch, SlotsAdvance and       *)
(* ResumeIsKept (Scheduler_proofs).                                        *)

\* A pass holds something only while it runs, and a claim's slot is at or
\* after the next_run_at it was made from.
ClaimsAreSane ==
    \A p \in Passes :
        /\ pc[p] = "idle" => Held(p) = {}
        /\ \A m \in Monitors : claim[p][m].claimed <= claim[p][m].slot

\* A running pass is the one whose lease its rows carry.
LeaseIsHeld ==
    ~overrun =>
        \A p \in Passes : pc[p] # "idle" =>
            /\ now < at[p] + Lease
            /\ \A m \in Held(p) : row[m].lease = at[p] + Lease

\* Everything queued for a monitor is behind its next run and behind the
\* claim on it; a claim is behind the next run once an edit moved it.
QueueIsBehind ==
    ~overrun =>
        \A m \in Monitors :
            /\ row[m].exists => \A i \in 1 .. Len(sent[m]) : sent[m][i] < row[m].next
            /\ \A p \in Passes : m \in Held(p) =>
                /\ \A i \in 1 .. Len(sent[m]) : sent[m][i] < claim[p][m].slot
                /\ \/ claim[p][m].claimed = row[m].next
                   \/ claim[p][m].slot < row[m].next

IInv ==
    /\ TypeOK /\ ClaimsAreSane /\ LeaseIsHeld /\ NoDoubleDispatch
    /\ QueueIsBehind /\ SlotsAdvance /\ ResumeIsKept
=============================================================================
