----------------------------- MODULE IngestKeys -----------------------------
(***************************************************************************)
(* The ingest keys an instance of the gateway answers from                 *)
(* (config-cache.service.ts, config-consumer.service.ts).  api/common      *)
(* stores a snapshot per change of a key; the instance keeps a copy in     *)
(* memory and rereads the snapshot when the copy is MaxAge old, when a     *)
(* secret the copy lacks is used (once per secret per MissFloor and once   *)
(* per MissGap overall), and when a Kafka message says it changed.  Loads  *)
(* of requests share one promise, the consumer's runs beside it.           *)
(*                                                                         *)
(* Abstracted: one key with its current and previous secret, other secrets *)
(* name no key; kind, scope and origins are fixed properties of a key; the *)
(* registry is reread the same way (ensureFresh) and is left out; seconds. *)
(* Named apart from Gateway, which Gateway_proofs EXTENDS beside it.        *)
(***************************************************************************)
EXTENDS Integers, Sequences, FiniteSets

CONSTANTS
    Secrets,      \* plaintexts a sender may present
    NoSecret,     \* no secret
    Lookups,      \* requests for a key
    MaxAge,       \* CONFIG_MAX_AGE_SECONDS
    MissFloor,    \* MISS_FLOOR_MS
    MissGap,      \* MISS_GLOBAL_FLOOR_MS
    FailureRetry, \* FAILURE_RETRY_MS
    MissMemory,   \* MISS_MEMORY
    Grace,        \* how long a rotated secret stays valid
    MaxClock,     \* bound on the clock
    MaxSnapshots, \* bound on the snapshots stored
    MaxEvents,    \* bound on messages handled
    MaxFailures   \* bound on failed reads and restarts

ASSUME IngestKeysAssumption ==
    /\ NoSecret \notin Secrets
    /\ {MaxAge, MissMemory} \subseteq Nat \ {0}
    /\ {MissFloor, MissGap, FailureRetry, Grace} \subseteq Nat
    /\ {MaxClock, MaxSnapshots, MaxEvents, MaxFailures} \subseteq Nat

VARIABLES
    clock,    \* the clock
    stored,   \* the snapshots stored so far; the last is the one a read finds
    copy,     \* the version of the copy
    checkAt,  \* nextCheckAt: the copy is stale from here on
    load,     \* per loader, the reload it runs: when it began and the version it read
    missed,   \* missedAt: when a secret was last looked for in vain
    lastMiss, \* lastMissRefreshAt
    ask,      \* the requests
    current,  \* history: the copy is of a read no older than checkAt - MaxAge says
    spent     \* history: how often each bounded event happened

cache == <<copy, checkAt, missed, lastMiss, current>>
keysVars == <<clock, stored, cache, load, ask, spent>>

\* refresh is the promise requests share (inflight), message the consumer's.
Loaders == {"refresh", "message"}
Unread == 0
NoLoad == [from |-> -1, got |-> Unread]

Never == -(MissFloor + MissGap)

Snapshot == [secret : Secrets \union {NoSecret}, prev : Secrets \union {NoSecret},
             until : Nat, at : Nat]
Load == [from : Nat, got : Nat] \union {NoLoad}
\* from: when the request came, or the load it waits for began; sound: the answer came from a
\* copy whose last check succeeded.
Ask == [at : Nat, from : Nat, secret : Secrets \union {NoSecret}, pc : {"new", "wait", "done"},
        found : BOOLEAN, done : Nat, sound : BOOLEAN]
NewAsk == [at |-> 0, from |-> 0, secret |-> NoSecret, pc |-> "new", found |-> FALSE, done |-> 0,
           sound |-> FALSE]

KeysTypeOK ==
    /\ clock \in Nat /\ stored \in Seq(Snapshot) /\ stored # <<>>
    /\ copy \in 1 .. Len(stored) /\ checkAt \in Nat
    /\ load \in [Loaders -> Load] /\ \A l \in Loaders : load[l].got <= Len(stored)
    /\ missed \in [Secrets -> Int] /\ lastMiss \in Int
    /\ ask \in [Lookups -> Ask] /\ current \in BOOLEAN
    /\ spent \in [{"events", "faults"} -> Nat]

\* The consumer loads the snapshots before the service listens.
KeysInit ==
    /\ clock = 0
    /\ \E x \in Secrets \union {NoSecret} :
         stored = <<[secret |-> x, prev |-> NoSecret, until |-> 0, at |-> 0]>>
    /\ copy = 1 /\ checkAt = MaxAge /\ current = TRUE
    /\ load = [l \in Loaders |-> NoLoad]
    /\ missed = [x \in Secrets |-> Never] /\ lastMiss = Never
    /\ ask = [r \in Lookups |-> NewAsk]
    /\ spent = [events |-> 0, faults |-> 0]

Spend(what, max) == spent[what] < max /\ spent' = [spent EXCEPT ![what] = @ + 1]

----------------------------------------------------------------------------
(* api/common: a snapshot per change of the key. *)

Latest == stored[Len(stored)]

Store(secret, prev, until) ==
    /\ Len(stored) < MaxSnapshots
    /\ stored' = Append(stored, [secret |-> secret, prev |-> prev, until |-> until, at |-> clock])
    /\ UNCHANGED <<clock, cache, load, ask, spent>>

\* A secret is used for one key only.
Unused(x) == \A v \in DOMAIN stored : x \notin {stored[v].secret, stored[v].prev}

CreateKey == \E x \in Secrets : Latest.secret = NoSecret /\ Unused(x) /\ Store(x, NoSecret, 0)

\* The old secret stays valid for the grace.
RotateKey ==
    \E x \in Secrets : /\ Latest.secret # NoSecret /\ Unused(x)
                       /\ Store(x, Latest.secret, clock + Grace)

\* Snapshots leave revoked keys out.
RevokeKey == Latest.secret # NoSecret /\ Store(NoSecret, NoSecret, 0)

----------------------------------------------------------------------------
(* ConfigCacheService. *)

\* lookup: the current secret, or the previous one inside its grace.
lookup(v, x, t) ==
    \/ x = stored[v].secret
    \/ x = stored[v].prev /\ t <= stored[v].until

AskAnswered(a, v) ==
    [a EXCEPT !.pc = "done", !.found = lookup(v, a.secret, a.at), !.done = clock, !.sound = current']

\* inflight: the refresh that runs, or a new one.
Refreshing == load["refresh"] # NoLoad
StartRefresh ==
    load' = IF Refreshing THEN load ELSE [load EXCEPT !["refresh"] = [from |-> clock, got |-> Unread]]

AskWaits(r, x) ==
    ask' = [ask EXCEPT ![r] = [NewAsk EXCEPT !.at = clock, !.from = load'["refresh"].from,
                                             !.secret = x, !.pc = "wait"]]
AnswerNow(r, x) ==
    ask' = [ask EXCEPT ![r] = AskAnswered([NewAsk EXCEPT !.at = clock, !.from = clock,
                                                         !.secret = x], copy)]

Stale == clock >= checkAt

\* Mutant: the answer does not wait for the refresh.
AskStaleAnswersAtOnce(r, x) ==
    /\ Stale /\ StartRefresh
    /\ UNCHANGED <<clock, stored, cache, spent>>
    /\ AnswerNow(r, x)

\* The first step of lookupFresh on each of its paths.
AskStale(r, x) ==
    /\ Stale /\ StartRefresh /\ AskWaits(r, x)
    /\ UNCHANGED <<clock, stored, cache, spent>>

AskKnown(r, x) ==
    /\ ~Stale /\ (lookup(copy, x, clock) \/ clock - missed[x] < MissFloor)
    /\ UNCHANGED <<clock, stored, cache, load, spent>>
    /\ AnswerNow(r, x)

\* missedAt is cleared when it is full.
Remember(x) ==
    LET full == Cardinality({y \in Secrets : missed[y] # Never}) >= MissMemory
    IN missed' = [y \in Secrets |-> IF y = x THEN clock ELSE IF full THEN Never ELSE missed[y]]

\* A miss rereads the snapshot, unless another miss just did: then it waits
\* for the refresh that runs, or answers as it is.
AskMissed(r, x) ==
    /\ ~Stale /\ ~lookup(copy, x, clock) /\ clock - missed[x] >= MissFloor
    /\ Remember(x)
    /\ UNCHANGED <<clock, stored, copy, checkAt, current, spent>>
    /\ \/ /\ clock - lastMiss >= MissGap
          /\ lastMiss' = clock /\ StartRefresh /\ AskWaits(r, x)
       \/ /\ clock - lastMiss < MissGap
          /\ UNCHANGED <<lastMiss, load>>
          /\ IF Refreshing THEN AskWaits(r, x) ELSE AnswerNow(r, x)

lookupFresh(r) ==
    /\ ask[r].pc = "new"
    /\ \E x \in Secrets : AskStale(r, x) \/ AskKnown(r, x) \/ AskMissed(r, x)

\* The bucket answers a reload.
Read(l) ==
    /\ load[l] # NoLoad /\ load[l].got = Unread
    /\ load' = [load EXCEPT ![l].got = Len(stored)]
    /\ UNCHANGED <<clock, stored, cache, ask, spent>>

\* Those who wait for the refresh answer in the same turn.
Release(l, v) ==
    ask' = [r \in Lookups |-> IF l = "refresh" /\ ask[r].pc = "wait"
                               THEN AskAnswered(ask[r], v) ELSE ask[r]]

\* Mutant: whatever was read replaces the copy.
ReloadOverwrites(l) ==
    /\ load[l].got # Unread
    /\ copy' = load[l].got
    /\ checkAt' = load[l].from + MaxAge /\ current' = TRUE
    /\ load' = [load EXCEPT ![l] = NoLoad]
    /\ Release(l, copy')
    /\ UNCHANGED <<clock, stored, missed, lastMiss, spent>>

\* Mutant: the age counts from the end of the read.
ReloadDatesTheEnd(l) ==
    /\ load[l].got # Unread
    /\ copy' = IF load[l].got >= copy THEN load[l].got ELSE copy
    /\ checkAt' = clock + MaxAge /\ current' = TRUE
    /\ load' = [load EXCEPT ![l] = NoLoad]
    /\ Release(l, copy')
    /\ UNCHANGED <<clock, stored, missed, lastMiss, spent>>

\* reload: a version older than the copy's is dropped; either way the copy is checked.
Reload(l) ==
    /\ load[l].got # Unread
    /\ copy' = IF load[l].got >= copy THEN load[l].got ELSE copy
    /\ checkAt' = load[l].from + MaxAge /\ current' = TRUE
    /\ load' = [load EXCEPT ![l] = NoLoad]
    /\ Release(l, copy')
    /\ UNCHANGED <<clock, stored, missed, lastMiss, spent>>

\* A read fails: a refresh serves the copy it has and retries soon; the
\* consumer skips its message.
ReloadFails(l) ==
    /\ load[l] # NoLoad /\ load[l].got = Unread /\ Spend("faults", MaxFailures)
    /\ load' = [load EXCEPT ![l] = NoLoad]
    /\ \/ /\ l = "refresh"
          /\ checkAt' = load[l].from + (IF FailureRetry < MaxAge THEN FailureRetry ELSE MaxAge)
          /\ current' = FALSE
       \/ l = "message" /\ UNCHANGED <<checkAt, current>>
    /\ Release(l, copy)
    /\ UNCHANGED <<clock, stored, copy, missed, lastMiss>>

\* handle: a config.changed message (the instance may be the one that gets it).
handle ==
    /\ load["message"] = NoLoad /\ Spend("events", MaxEvents)
    /\ load' = [load EXCEPT !["message"] = [from |-> clock, got |-> Unread]]
    /\ UNCHANGED <<clock, stored, cache, ask>>

\* The instance dies; its successor loads the snapshots before it serves.
Restart ==
    /\ Spend("faults", MaxFailures)
    /\ copy' = Len(stored) /\ checkAt' = clock + MaxAge /\ current' = TRUE
    /\ load' = [l \in Loaders |-> NoLoad]
    /\ missed' = [x \in Secrets |-> Never] /\ lastMiss' = Never
    /\ ask' = [r \in Lookups |-> IF ask[r].pc = "wait" THEN NewAsk ELSE ask[r]]
    /\ UNCHANGED <<clock, stored>>

ClockTicks ==
    /\ clock < MaxClock
    /\ clock' = clock + 1
    /\ UNCHANGED <<stored, cache, load, ask, spent>>

KeysNext ==
    \/ CreateKey \/ RotateKey \/ RevokeKey
    \/ \E r \in Lookups : lookupFresh(r)
    \/ \E l \in Loaders : Read(l) \/ Reload(l) \/ ReloadFails(l)
    \/ handle \/ Restart \/ ClockTicks

KeysSpec == KeysInit /\ [][KeysNext]_keysVars

----------------------------------------------------------------------------
(* Properties. *)

\* Snapshot v was the stored one at some time from t on.
CurrentFrom(v, t) == v = Len(stored) \/ stored[v + 1].at >= t

\* "A revocation reaches every instance within that age": while reads
\* succeed, an answer, yes or no, is the one some snapshot gave that was
\* stored no longer than MaxAge before the request came, or than the start
\* of the read it waited for, when that one had been running for longer
\* (config-cache.service.ts:39-41), whatever loads raced with it.
AnswersAreRecent ==
    \A r \in Lookups : ask[r].pc = "done" /\ ask[r].sound =>
        \E v \in DOMAIN stored :
            /\ stored[v].at <= ask[r].done
            /\ CurrentFrom(v, ask[r].at - MaxAge) \/ CurrentFrom(v, ask[r].from)
            /\ ask[r].found = lookup(v, ask[r].secret, ask[r].at)

\* The copy is never older than the next check admits, so a request that
\* finds it fresh may use it, although the two loaders set both out of order
\* (reload, config-cache.service.ts:80-93).
CopyIsAsFreshAsItSays == current => CurrentFrom(copy, checkAt - MaxAge)

\* A reload that read an older snapshot than the copy's never replaces it
\* (config-cache.service.ts:81), not even across a restart.
CopyNeverStepsBack == [][copy' >= copy]_keysVars
=============================================================================
