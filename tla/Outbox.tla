------------------------------- MODULE Outbox -------------------------------
(***************************************************************************)
(* The transactional outbox and the config snapshots it publishes          *)
(* (internal/outbox/publisher.go, internal/repository/outbox.go,           *)
(* pkg/snapshot).  Business transactions queue rows; every instance's      *)
(* publisher claims a batch (FOR UPDATE SKIP LOCKED), rewrites the         *)
(* snapshots its config.changed rows name under an advisory lock per kind, *)
(* sends the messages and marks the rows published, all in one transaction *)
(* that may fail anywhere while snapshots and messages stay.  A reader is  *)
(* a service of one instance: it reloads a kind when a message names it    *)
(* and, racing with that, when a lookup finds its copy old (api/query) or  *)
(* a message whose reload failed is redriven (analytics), and keeps the    *)
(* newest version it saw.                                                  *)
(*                                                                         *)
(* Abstracted: a kind's items are the number of committed changes; other   *)
(* events' payloads; messages of one kind that wait together are one (a    *)
(* reload more is what a lookup may do at any time).                       *)
(***************************************************************************)
EXTENDS Integers, Sequences, FiniteSets

CONSTANTS
    Kinds,        \* config kinds, as numbers in the order they are locked
    Publishers,   \* publishers, of any instance
    Readers,      \* services that keep a copy
    BatchSize,    \* rows of one batch
    Clocks,       \* what an instance's clock may read
    MaxAttempts,  \* failures after which a parked row is not queued again
    MaxChanges,   \* bound on config changes
    MaxExtras     \* bound on other events' rows, instance starts, failed
                  \* transactions and loads and restarted readers together

ASSUME OutboxAssumption ==
    /\ Kinds \subseteq Nat \ {0} /\ Clocks \subseteq Nat /\ Clocks # {}
    /\ BatchSize \in Nat \ {0} /\ MaxAttempts \in Nat \ {0}
    /\ {MaxChanges, MaxExtras} \subseteq Nat

\* Who reloads in a reader: its consumer on a message; a lookup or a redrive.
Loaders == Readers \X {"message", "late"}

VARIABLES
    table,   \* per kind, the committed changes
    rows,    \* the outbox, by id
    pub,     \* per publisher: its transaction
    store,   \* the stored snapshot of each kind
    inbox,   \* per reader, the kinds with a message it has not taken
    load,    \* per loader, the snapshot it read and has not applied yet
    copy,    \* per reader and kind, the snapshot it serves
    spent    \* history: how often each bounded event happened

database == <<table, rows>>
readers == <<inbox, load, copy>>
vars == <<database, pub, store, readers, spent>>

\* The kind of a row of another event.
Other == 0

\* A row; value is the change that queued it, bad that it fails its schema.
Row == [kind : Kinds \union {Other}, value : Nat, bad : BOOLEAN,
        at : {"queued", "published", "parked", "pruned"}, attempts : Nat]

Document == [version : Nat, value : Nat]
Empty == [version |-> 0, value |-> 0]

\* A transaction: the rows claimed, the kinds to lock, locked and to rewrite,
\* the kind whose items it has read, and them.
Idle == [pc |-> "idle", claimed |-> {}, toLock |-> {}, locked |-> {}, toRewrite |-> {},
         kind |-> Other, items |-> 0]
Tx == [pc : {"idle", "lock", "read", "put", "commit"}, claimed : SUBSET Nat,
       toLock : SUBSET Kinds, locked : SUBSET Kinds, toRewrite : SUBSET Kinds,
       kind : Kinds \union {Other}, items : Nat]
NotLoading == [kind |-> Other, doc |-> Empty]

TypeOK ==
    /\ table \in [Kinds -> Nat] /\ rows \in Seq(Row)
    /\ store \in [Kinds -> Document]
    /\ pub \in [Publishers -> Tx]
    /\ \A p \in Publishers : pub[p].claimed \subseteq DOMAIN rows
    /\ inbox \in [Readers -> SUBSET Kinds]
    /\ load \in [Loaders -> [kind : Kinds \union {Other}, doc : Document]]
    /\ copy \in [Readers -> [Kinds -> Document]]

Init ==
    /\ table = [k \in Kinds |-> 0] /\ rows = <<>>
    /\ pub = [p \in Publishers |-> Idle]
    /\ store = [k \in Kinds |-> Empty]
    /\ inbox = [r \in Readers |-> {}]
    /\ load = [l \in Loaders |-> NotLoading]
    /\ copy = [r \in Readers |-> [k \in Kinds |-> Empty]]
    /\ spent = [changes |-> 0, extras |-> 0]

Spend(what, max) == spent[what] < max /\ spent' = [spent EXCEPT ![what] = @ + 1]

----------------------------------------------------------------------------
(* Business transactions (Enqueue, ConfigChanged). *)

Queued(kind, value, bad) ==
    [kind |-> kind, value |-> value, bad |-> bad, at |-> "queued", attempts |-> 0]

\* A config change and its config.changed row commit together.
Change(k) ==
    /\ Spend("changes", MaxChanges)
    /\ table' = [table EXCEPT ![k] = @ + 1]
    /\ rows' = Append(rows, Queued(k, table'[k], FALSE))
    /\ UNCHANGED <<pub, store, readers>>

\* Another event is queued; one that breaks the contract shows when it is sent.
Enqueue ==
    /\ Spend("extras", MaxExtras)
    /\ \E bad \in BOOLEAN : rows' = Append(rows, Queued(Other, 0, bad))
    /\ UNCHANGED <<table, pub, store, readers>>

----------------------------------------------------------------------------
(* PublishBatch and WriteAll. *)

\* A step of a publisher's transaction.
Becomes(p, tx) == pub' = [pub EXCEPT ![p] = tx]

\* Not sent, not parked and not locked by another transaction.
Claimable(i) ==
    /\ rows[i].at = "queued"
    /\ \A p \in Publishers : i \notin pub[p].claimed

\* ClaimOutbox: the oldest claimable rows, a batch of them.
BatchOf ==
    {i \in DOMAIN rows : Claimable(i) /\
       Cardinality({j \in 1 .. i - 1 : Claimable(j)}) < BatchSize}

KindsOf(ids) == {rows[i].kind : i \in ids} \ {Other}

AfterLocks(toLock) == IF toLock = {} THEN "read" ELSE "lock"

Claim(p) ==
    /\ pub[p].pc = "idle" /\ BatchOf # {}
    /\ LET kinds == KindsOf(BatchOf) IN
       Becomes(p, [Idle EXCEPT !.pc = AfterLocks(kinds), !.claimed = BatchOf,
                               !.toLock = kinds, !.toRewrite = kinds])
    /\ UNCHANGED <<database, store, readers, spent>>

\* WriteAll, when an instance starts: every kind, and no row.
Start(p) ==
    /\ pub[p].pc = "idle"
    /\ Spend("extras", MaxExtras)
    /\ Becomes(p, [Idle EXCEPT !.pc = AfterLocks(Kinds), !.toLock = Kinds, !.toRewrite = Kinds])
    /\ UNCHANGED <<database, store, readers>>

\* Mutants: kinds are locked in any order; or not at all.
NextLockAny(p, k) == k \in pub[p].toLock /\ \A q \in Publishers : k \notin pub[q].locked
NextLockFree(p, k) == k \in pub[p].toLock /\ \A j \in pub[p].toLock : k <= j

\* LockSnapshots: in sorted order, each when no other transaction has it.
NextLock(p, k) ==
    /\ k \in pub[p].toLock /\ \A j \in pub[p].toLock : k <= j
    /\ \A q \in Publishers : k \notin pub[q].locked

Lock(p) ==
    /\ pub[p].pc = "lock"
    /\ \E k \in Kinds :
         /\ NextLock(p, k)
         /\ Becomes(p, [pub[p] EXCEPT !.toLock = @ \ {k}, !.locked = @ \union {k},
                                      !.pc = AfterLocks(pub[p].toLock \ {k})])
    /\ UNCHANGED <<database, store, readers, spent>>

\* rewrite, up to SnapshotItems: what is committed now.
ReadItems(p) ==
    /\ pub[p].pc = "read"
    /\ \E k \in pub[p].toRewrite :
         Becomes(p, [pub[p] EXCEPT !.toRewrite = @ \ {k}, !.kind = k, !.items = table[k], !.pc = "put"])
    /\ UNCHANGED <<database, store, readers, spent>>

\* The version snapshot.Write gives: the clock's, above the stored one.
NextVersion(old, t) == IF old >= t THEN old + 1 ELSE t

PutSnapshot(p) ==
    /\ pub[p].pc = "put"
    /\ \E t \in Clocks :
         LET k == pub[p].kind IN
         store' = [store EXCEPT ![k] = [version |-> NextVersion(store[k].version, t),
                                        value |-> pub[p].items]]
    /\ Becomes(p, [pub[p] EXCEPT !.kind = Other, !.items = 0, !.pc = "read"])
    /\ UNCHANGED <<database, readers, spent>>

\* The messages of the batch are sent: one per kind rewritten, and the rows of
\* other events that keep the contract.
Send(p) ==
    /\ pub[p].pc = "read" /\ pub[p].toRewrite = {}
    /\ inbox' = [r \in Readers |-> inbox[r] \union KindsOf(pub[p].claimed)]
    /\ Becomes(p, [pub[p] EXCEPT !.pc = "commit"])
    /\ UNCHANGED <<database, store, load, copy, spent>>

\* MarkPublished, and MarkFailedOutbox for a row that breaks the contract.
Marked(row) ==
    IF row.bad THEN [row EXCEPT !.at = "parked", !.attempts = @ + 1]
    ELSE [row EXCEPT !.at = "published"]

Commit(p) ==
    /\ pub[p].pc = "commit"
    /\ rows' = [i \in DOMAIN rows |-> IF i \in pub[p].claimed THEN Marked(rows[i]) ELSE rows[i]]
    /\ Becomes(p, Idle)
    /\ UNCHANGED <<table, store, readers, spent>>

\* The transaction fails or its instance dies: rows and locks are free again;
\* snapshots and messages stay.
Rollback(p) ==
    /\ pub[p].pc # "idle"
    /\ Spend("extras", MaxExtras)
    /\ Becomes(p, Idle)
    /\ UNCHANGED <<database, store, readers>>

\* RequeueFailedOutbox, an hour later, and PruneOutbox, a month later.
Requeue(i) ==
    /\ rows[i].at = "parked" /\ rows[i].attempts < MaxAttempts
    /\ \A p \in Publishers : i \notin pub[p].claimed
    /\ rows' = [rows EXCEPT ![i].at = "queued"]
    /\ UNCHANGED <<table, pub, store, readers, spent>>

Prune(i) ==
    /\ rows[i].at = "parked" /\ rows[i].attempts >= MaxAttempts
    /\ rows' = [rows EXCEPT ![i].at = "pruned"]
    /\ UNCHANGED <<table, pub, store, readers, spent>>

----------------------------------------------------------------------------
(* Readers (Access.Reload, ConfigCache.reload). *)

\* The snapshot is read: for the next message, or late.
Read(l, k) ==
    /\ load[l].kind = Other
    /\ l[2] = "message" => k \in inbox[l[1]]
    /\ inbox' = IF l[2] = "message" THEN [inbox EXCEPT ![l[1]] = @ \ {k}] ELSE inbox
    /\ load' = [load EXCEPT ![l] = [kind |-> k, doc |-> store[k]]]
    /\ UNCHANGED <<database, pub, store, copy, spent>>

\* Mutant: the last snapshot read wins.
NewerAny(doc, held) == doc

Newer(doc, held) == IF doc.version >= held.version THEN doc ELSE held

\* It is applied unless the reader holds a newer one.
Apply(l) ==
    /\ load[l].kind # Other
    /\ LET k == load[l].kind IN copy' = [copy EXCEPT ![l[1]][k] = Newer(load[l].doc, @)]
    /\ load' = [load EXCEPT ![l] = NotLoading]
    /\ UNCHANGED <<database, pub, store, inbox, spent>>

\* The load fails, its retries too: the message is done with.
Fail(l) ==
    /\ load[l].kind # Other
    /\ Spend("extras", MaxExtras)
    /\ load' = [load EXCEPT ![l] = NotLoading]
    /\ UNCHANGED <<database, pub, store, inbox, copy>>

\* The reader restarts and loads every kind before it serves.
Restart(r) ==
    /\ Spend("extras", MaxExtras)
    /\ copy' = [copy EXCEPT ![r] = store]
    /\ load' = [l \in Loaders |-> IF l[1] = r THEN NotLoading ELSE load[l]]
    /\ UNCHANGED <<database, pub, store, inbox>>

Publish(p) == Claim(p) \/ Lock(p) \/ ReadItems(p) \/ PutSnapshot(p) \/ Send(p) \/ Commit(p)

Next ==
    \/ \E k \in Kinds : Change(k)
    \/ Enqueue
    \/ \E p \in Publishers : Publish(p) \/ Start(p) \/ Rollback(p)
    \/ \E i \in DOMAIN rows : Requeue(i) \/ Prune(i)
    \/ \E l \in Loaders : Apply(l) \/ Fail(l) \/ \E k \in Kinds : Read(l, k)
    \/ \E r \in Readers : Restart(r)

Spec == Init /\ [][Next]_vars

\* Publishers tick, and their calls end; consumers poll, old copies are looked
\* up and parked messages redriven, each kind in its turn.
Fairness ==
    /\ \A p \in Publishers : WF_vars(Publish(p))
    /\ \A l \in Loaders : WF_vars(Apply(l)) /\ \A k \in Kinds : SF_vars(Read(l, k))

FairSpec == Spec /\ Fairness

----------------------------------------------------------------------------
(* Properties. *)

\* Outbox, snapshots and readers together keep what MonotoneConfig promises.
Config == INSTANCE MonotoneConfig
            WITH current <- table,
                 known <- [r \in Readers |-> [k \in Kinds |-> copy[r][k].value]]

\* Readers' copies only move forward, to states that were committed, and are
\* the latest in the end, whichever publishers and readers race or die
\* (PublishBatch, rewrite, Write, Reload).
ImplementsMonotoneConfig == Config!Spec

\* "a slower publisher cannot overwrite a newer snapshot", and versions only
\* grow, whatever the instances' clocks read (LockSnapshots, Write).
SnapshotsAdvance ==
    [][\A k \in Kinds : store'[k] # store[k] =>
         store'[k].version > store[k].version /\ store'[k].value >= store[k].value]_vars

\* "the message always points at the latest state": once a change's row is
\* published, the snapshot has the change (PublishBatch).
PublishedIsStored ==
    \A i \in DOMAIN rows :
        rows[i].kind # Other /\ rows[i].at = "published" => store[rows[i].kind].value >= rows[i].value

\* "locked in sorted order so two publishers cannot deadlock", whatever
\* batches they claimed and whichever instance rewrites every kind
\* (LockSnapshots).
LocksDoNotCycle ==
    \A p, q \in Publishers :
        ~ /\ pub[p].locked \intersect pub[q].toLock # {}
          /\ pub[q].locked \intersect pub[p].toLock # {}

\* A row that can be sent is published in the end, whatever row is parked
\* before it and however publishers wait for each other (ClaimOutbox,
\* MarkFailedOutbox, LockSnapshots).
EveryRowIsPublished ==
    \A i \in 1 .. MaxChanges + MaxExtras :
        (i \in DOMAIN rows /\ ~rows[i].bad) ~> (i \in DOMAIN rows /\ rows[i].at = "published")
=============================================================================
