------------------------------ MODULE Gateway ------------------------------
(***************************************************************************)
(* The gateway's request path and its usage metering (api/observability:   *)
(* otlp, events, net/ingress, collector, quota, usage).  A request is      *)
(* checked, its body read under a cap on large bodies, limited, forwarded  *)
(* to the collector, counted into a one-minute window on Valkey, and,      *)
(* before it is answered, it may send the closed windows of every instance *)
(* to the collector: claim a window under a lock that lapses, send one     *)
(* batch per org, acknowledge what was sent.                               *)
(*                                                                         *)
(* Abstracted: a window counts requests, the bytes and items of one key    *)
(* per org; limits (TAKE) and lookups give any verdict (IngestKeys models  *)
(* the lookup); a batch of events is forwarded or holds nothing valid; a   *)
(* body or a call takes any time; the single-process mode without Valkey,  *)
(* where windows are in memory, is left out.                               *)
(***************************************************************************)
EXTENDS Integers, FiniteSets, FiniteSetsExt

CONSTANTS
    Instances, Orgs,
    NoOne,       \* no instance, org or kind
    Requests,    \* requests
    Kinds,       \* "http" and "grpc" (OTLP), "events"
    MaxBodies,   \* MAX_CONCURRENT_BODIES
    Window,      \* WINDOW_MS
    CheckEvery,  \* CHECK_EVERY_MS
    LockTime,    \* LOCK_SECONDS
    Keep,        \* KEEP_SECONDS
    MaxTime,     \* bound on the clock
    MaxFaults    \* bound on failed calls and instances that die

ASSUME GatewayAssumption ==
    /\ NoOne \notin Instances \union Orgs \union Kinds
    /\ Kinds \subseteq {"http", "grpc", "events"}
    /\ {Window, CheckEvery, LockTime, Keep} \subseteq Nat \ {0}
    /\ {MaxBodies, MaxTime, MaxFaults} \subseteq Nat

VARIABLES
    now,     \* the clock
    inst,    \* per instance: large bodies in memory, nextCheckAt
    req,     \* the requests
    open,    \* usage:windows
    count,   \* usage:<window>: requests per org; expiry of the key
    lock,    \* usage:lock:<window>: when it lapses
    billed,  \* the collector: requests per window and org
    owed,    \* history: requests counted, per window and org
    excused, \* history: those counted while their window was being sent, or expired
    again,   \* history: windows that may be sent twice
    faults   \* history: faults so far

usage == <<open, count, lock>>
history == <<owed, excused, again>>
vars == <<now, inst, req, usage, billed, history, faults>>

Windows == 0 .. MaxTime \div Window
WindowOf(t) == t \div Window
PerOrg == [Windows -> [Orgs -> Nat]]
Zero == [w \in Windows |-> [o \in Orgs |-> 0]]

\* A request: its kind as long as it tells what follows; at is the time the call in progress
\* captured; due, window, reply and sent belong to a flush.
Flushing == {"list", "claim", "send", "ack"}
Request == [pc : {"new", "body", "ingest", "accept", "add", "done"} \union Flushing,
            kind : Kinds \union {NoOne}, inst : Instances \union {NoOne},
            org : Orgs \union {NoOne}, held : BOOLEAN, at : Nat,
            due : SUBSET Windows, window : Windows, reply : [Orgs -> Nat], sent : SUBSET Orgs]

TypeOK ==
    /\ now \in Nat /\ req \in [Requests -> Request]
    /\ inst \in [Instances -> [bodies : Nat, next : Nat]]
    /\ open \subseteq Windows
    /\ count \in [Windows -> [per : [Orgs -> Nat], until : Nat]]
    /\ lock \in [Windows -> Nat]
    /\ billed \in PerOrg /\ owed \in PerOrg /\ excused \in PerOrg
    /\ again \subseteq Windows /\ faults \in Nat

NoFlush(q) == [q EXCEPT !.at = 0, !.due = {}, !.window = 0, !.reply = [o \in Orgs |-> 0], !.sent = {}]
NewRequest == [pc |-> "new", kind |-> NoOne, inst |-> NoOne, org |-> NoOne, held |-> FALSE,
               at |-> 0, due |-> {}, window |-> 0, reply |-> [o \in Orgs |-> 0],
               sent |-> {}]
Answered == [NewRequest EXCEPT !.pc = "done"]

Init ==
    /\ now = 0
    /\ inst = [i \in Instances |-> [bodies |-> 0, next |-> 0]]
    /\ req = [r \in Requests |-> NewRequest]
    /\ open = {} /\ count = [w \in Windows |-> [per |-> [o \in Orgs |-> 0], until |-> 0]]
    /\ lock = [w \in Windows |-> 0]
    /\ billed = Zero /\ owed = Zero /\ excused = Zero
    /\ again = {} /\ faults = 0

Running(r) == req[r].pc \notin {"new", "done"}

Fault == faults < MaxFaults /\ faults' = faults + 1

\* eval: not connected within READY_WAIT_MS, or the script fails.
ValkeyFails == Fault

Step(r, q) == req' = [req EXCEPT ![r] = q]
Go(r, pc) == Step(r, [req[r] EXCEPT !.pc = pc])
Answer(r) == req' = [req EXCEPT ![r] = Answered]

----------------------------------------------------------------------------
(* The request path. *)

\* The verdicts of the checks, which depend on state other modules have or none has:
\* of TAKE (a debit over the limit is rolled back), of each surface before the
\* body is read, and of one event of a batch.
take == {"taken", "over"}
authenticateOtlp == {"ok", "rate_limited", "unauthorized", "key_scope_mismatch"}
authenticateEvents == authenticateOtlp \union {"origin_not_allowed"}
validate == {"valid", "unknown_event", "unknown_dim", "ts_out_of_range", "bad_shape"}

\* receive, once the checks passed: a body over SMALL_BODY_BYTES, or of unknown
\* length, takes one of the slots.
Admit(r, kind, large) ==
    /\ req[r].pc = "new" /\ kind \in Kinds
    /\ \E i \in Instances, o \in Orgs :
         /\ large => inst[i].bodies < MaxBodies
         /\ inst' = [inst EXCEPT ![i].bodies = IF large THEN @ + 1 ELSE @]
         /\ Step(r, [req[r] EXCEPT !.pc = "body", !.kind = kind, !.inst = i, !.org = o,
                                 !.held = large])
    /\ UNCHANGED <<now, usage, billed, history, faults>>

\* Answered before the body is read: a check failed, the type is wrong, the body
\* is announced too large, every slot is taken, or Valkey cannot be asked.
Refuse(r) ==
    /\ req[r].pc = "new"
    /\ Answer(r)
    /\ UNCHANGED <<now, inst, usage, billed, history, faults>>

\* OTLP over HTTP (export).
ReceiveHttp(r) ==
    \E verdict \in authenticateOtlp :
        Refuse(r) \/ (verdict = "ok" /\ \E large \in BOOLEAN : Admit(r, "http", large))

\* Events, in an encoding the gateway decodes (accept).
ReceiveEvents(r) ==
    \E verdict \in authenticateEvents :
        Refuse(r) \/ (verdict = "ok" /\ \E large \in BOOLEAN : Admit(r, "events", large))

\* gRPC: the interceptor checks a call on its metadata, messages take no slot.
Gate(r) ==
    \E verdict \in authenticateOtlp :
        IF verdict = "ok" THEN Admit(r, "grpc", FALSE) ELSE Refuse(r)

GiveBack(r) ==
    inst' = [inst EXCEPT ![req[r].inst].bodies = IF req[r].held THEN @ - 1 ELSE @]

\* readBody ends and the slot is given back (finally).  A batch of events that decodes
\* is accepted at the time read now.
BodyRead(r) ==
    /\ req[r].pc = "body" /\ req[r].kind # "grpc"
    /\ GiveBack(r)
    /\ IF req[r].kind = "events"
       THEN Step(r, [req[r] EXCEPT !.pc = "accept", !.held = FALSE, !.at = now])
       ELSE Step(r, [req[r] EXCEPT !.pc = "ingest", !.held = FALSE, !.kind = NoOne])
    /\ UNCHANGED <<now, usage, billed, history, faults>>

\* Mutant: a body that is cut short keeps its slot.
BodyCutKeepsSlot(r) ==
    /\ req[r].pc = "body"
    /\ Answer(r)
    /\ UNCHANGED <<now, inst, usage, billed, history, faults>>

\* Cut short, or too large after all.
BodyCut(r) ==
    /\ req[r].pc = "body"
    /\ GiveBack(r)
    /\ Answer(r)
    /\ UNCHANGED <<now, usage, billed, history, faults>>

\* Events that cannot be decoded or are not JSON: 400.
Undecodable(r) ==
    /\ req[r].pc = "body" /\ req[r].kind = "events"
    /\ GiveBack(r)
    /\ Answer(r)
    /\ UNCHANGED <<now, usage, billed, history, faults>>

\* export: the message is read and the key resolved again, this time without
\* taking from the source limit; it may be revoked by now.
MessageRead(r) ==
    /\ req[r].pc = "body" /\ req[r].kind = "grpc"
    /\ \E verdict \in authenticateOtlp \ {"rate_limited"} :
         IF verdict = "ok" THEN Step(r, [req[r] EXCEPT !.pc = "ingest", !.kind = NoOne])
         ELSE Answer(r)
    /\ UNCHANGED <<now, inst, usage, billed, history, faults>>

\* ingest: within the byte quota and stored by the collector, the usage is counted at
\* the time read now.  Over the quota (429), not reached or to be retried
\* (503), refused (passed on): no usage.
ingest(r) ==
    /\ req[r].pc = "ingest"
    /\ \E quota \in take :
         \/ quota = "taken" /\ Step(r, [req[r] EXCEPT !.pc = "add", !.at = now])
         \/ Answer(r)
    /\ UNCHANGED <<now, inst, usage, billed, history, faults>>

\* accept: the registry is fresh, the batch in shape and within its event rate; its
\* valid events are stored and counted (best: the best verdict in the batch).
\* With no valid event, or nothing stored: no usage.
accept(r) ==
    /\ req[r].pc = "accept"
    /\ \E best \in validate :
         \/ best = "valid" /\ Go(r, "add")
         \/ Answer(r)
    /\ UNCHANGED <<now, inst, usage, billed, history, faults>>

----------------------------------------------------------------------------
(* UsageService. *)

\* Some request read the window to send it and has not acknowledged it.
BeingSent(w) == \E r \in Requests : req[r].pc \in {"send", "ack"} /\ req[r].window = w

More(table, w, o) == [table EXCEPT ![w][o] = @ + 1]

\* flushDue, once the usage is added or was not: at most every CHECK_EVERY_MS
\* on an instance.  Events keep the time they were accepted at, OTLP reads the
\* clock again.
Check(r) ==
    LET q == req[r]  t == IF q.kind = "events" THEN q.at ELSE now
    IN IF t < inst[q.inst].next
       THEN Answer(r) /\ UNCHANGED inst
       ELSE /\ Step(r, [q EXCEPT !.pc = "list", !.at = t, !.kind = NoOne])
            /\ inst' = [inst EXCEPT ![q.inst].next = t + CheckEvery]

\* ADD: the window's keys live KEEP_SECONDS from its last count on.
Add(r) ==
    LET q == req[r]  w == WindowOf(q.at)
    IN /\ q.pc = "add"
       /\ count' = [count EXCEPT ![w].per[q.org] = @ + 1, ![w].until = now + Keep]
       /\ open' = open \union {w}
       /\ owed' = More(owed, w, q.org)
       /\ excused' = IF BeingSent(w) THEN More(excused, w, q.org) ELSE excused
       /\ Check(r)
       /\ UNCHANGED <<now, lock, billed, again, faults>>

\* The usage is not recorded, the request goes on.
AddFails(r) ==
    /\ req[r].pc = "add" /\ ValkeyFails
    /\ Check(r)
    /\ UNCHANGED <<now, usage, billed, history>>

\* The next due window, if any, is claimed; then the request is answered.
NextWindow(r, due) ==
    IF due = {} THEN Answer(r)
    ELSE Step(r, [NoFlush(req[r]) EXCEPT !.pc = "claim", !.due = due, !.window = Min(due)])

\* WINDOWS: the windows closed at the time the request captured.
List(r) ==
    /\ req[r].pc = "list"
    /\ NextWindow(r, {w \in open : w < WindowOf(req[r].at)})
    /\ UNCHANGED <<now, inst, usage, billed, history, faults>>

Rest(r) == req[r].due \ {req[r].window}

\* CLAIM: takes the lock and reads the window, unless another holds it.
Claim(r) ==
    LET w == req[r].window
    IN /\ req[r].pc = "claim"
       /\ IF lock[w] > now
          THEN NextWindow(r, Rest(r)) /\ UNCHANGED <<lock, again>>
          ELSE /\ lock' = [lock EXCEPT ![w] = now + LockTime]
               /\ again' = IF BeingSent(w) THEN again \union {w} ELSE again
               /\ Step(r, [req[r] EXCEPT !.pc = "send", !.reply = count[w].per])
       /\ UNCHANGED <<now, inst, open, count, billed, owed, excused, faults>>

\* The orgs of the window not sent yet.
Unsent(r) == {o \in Orgs \ req[r].sent : req[r].reply[o] > 0}

Bill(r, o) ==
    billed' = [billed EXCEPT ![req[r].window][o] = @ + req[r].reply[o]]

\* send: the batch of one org is stored.
Send(r) ==
    /\ req[r].pc = "send"
    /\ \E o \in Unsent(r) :
         /\ Bill(r, o)
         /\ Step(r, [req[r] EXCEPT !.sent = @ \union {o}])
    /\ UNCHANGED <<now, inst, usage, history, faults>>

\* It fails, stored or not: what was sent before is acknowledged, and the
\* error ends the flush (no window is left to do).
SendFails(r) ==
    /\ req[r].pc = "send" /\ Fault
    /\ \E o \in Unsent(r), stored \in BOOLEAN :
         /\ IF stored THEN Bill(r, o) ELSE UNCHANGED billed
         /\ again' = IF stored THEN again \union {req[r].window} ELSE again
    /\ Step(r, [req[r] EXCEPT !.pc = "ack", !.due = {req[r].window}])
    /\ UNCHANGED <<now, inst, usage, owed, excused>>

Sent(r) ==
    /\ req[r].pc = "send" /\ Unsent(r) = {}
    /\ Go(r, "ack")
    /\ UNCHANGED <<now, inst, usage, billed, history, faults>>

\* Mutants: the whole window is deleted, or only its lock.
AcknowledgeAll(w, sent) ==
    /\ count' = [count EXCEPT ![w].per = [o \in Orgs |-> 0]]
    /\ open' = open \ {w}
    /\ lock' = [lock EXCEPT ![w] = 0]

AcknowledgeNothing(w, sent) ==
    /\ UNCHANGED <<count, open>>
    /\ lock' = [lock EXCEPT ![w] = 0]

\* ACK: what was sent is deleted, an empty window leaves the set, and the
\* lock is deleted, whoever holds it by now.
Acknowledge(w, sent) ==
    LET rest == [o \in Orgs |-> IF o \in sent THEN 0 ELSE count[w].per[o]]
    IN /\ count' = [count EXCEPT ![w].per = rest]
       /\ open' = IF \A o \in Orgs : rest[o] = 0 THEN open \ {w} ELSE open
       /\ lock' = [lock EXCEPT ![w] = 0]

Ack(r) ==
    /\ req[r].pc = "ack"
    /\ Acknowledge(req[r].window, req[r].sent)
    /\ NextWindow(r, Rest(r))
    /\ UNCHANGED <<now, inst, billed, history, faults>>

\* The acknowledgement is lost: the window is there to be sent again.
AckFails(r) ==
    /\ req[r].pc = "ack" /\ ValkeyFails
    /\ again' = again \union {req[r].window}
    /\ NextWindow(r, Rest(r))
    /\ UNCHANGED <<now, inst, usage, billed, owed, excused>>

\* WINDOWS or CLAIM fails: the flush ends, the answer stands.
FlushFails(r) ==
    /\ req[r].pc \in {"list", "claim"} /\ ValkeyFails
    /\ Answer(r)
    /\ UNCHANGED <<now, inst, usage, billed, history>>

----------------------------------------------------------------------------
(* Time, expiry and crashes. *)

\* Valkey drops a window KEEP_SECONDS after its last count.
Expire(w) ==
    /\ \E o \in Orgs : count[w].per[o] > 0
    /\ count[w].until <= now
    /\ excused' = [excused EXCEPT ![w] = [o \in Orgs |-> @[o] + count[w].per[o]]]
    /\ count' = [count EXCEPT ![w].per = [o \in Orgs |-> 0]]
    /\ UNCHANGED <<now, inst, req, open, lock, billed, owed, again, faults>>

\* An instance dies with its requests.
Crash(i) ==
    LET dead == {r \in Requests : req[r].inst = i /\ Running(r)}
    IN /\ Fault
       /\ inst' = [inst EXCEPT ![i] = [bodies |-> 0, next |-> 0]]
       /\ again' = again \union {req[r].window : r \in {d \in dead : req[d].pc \in {"send", "ack"}}}
       /\ req' = [r \in Requests |-> IF r \in dead THEN Answered ELSE req[r]]
       /\ UNCHANGED <<now, usage, billed, owed, excused>>

Tick ==
    /\ now < MaxTime
    /\ now' = now + 1
    /\ UNCHANGED <<inst, req, usage, billed, history, faults>>

Serve(r) ==
    \/ BodyRead(r) \/ BodyCut(r) \/ Undecodable(r) \/ MessageRead(r)
    \/ ingest(r) \/ accept(r)
    \/ Add(r) \/ AddFails(r) \/ List(r) \/ Claim(r) \/ Send(r) \/ SendFails(r) \/ Sent(r)
    \/ Ack(r) \/ AckFails(r) \/ FlushFails(r)

Next ==
    \/ \E r \in Requests :
         \/ ReceiveHttp(r) \/ ReceiveEvents(r) \/ Gate(r) \/ Serve(r)
    \/ \E w \in Windows : Expire(w)
    \/ \E i \in Instances : Crash(i)
    \/ Tick

Spec == Init /\ [][Next]_vars

----------------------------------------------------------------------------
(* Properties. *)

\* Large bodies in memory are counted exactly, and are never more than the
\* cap, however requests are refused, cut short or die (ingress.service.ts).
BodiesAreCounted ==
    \A i \in Instances :
        /\ inst[i].bodies = Cardinality({r \in Requests : req[r].held /\ req[r].inst = i})
        /\ inst[i].bodies <= MaxBodies

\* Usage that was counted is sent or still waits, but for what expired and for
\* what was counted into a window while it was being sent (the acknowledgement
\* deletes the whole count): a failed send, a lost acknowledgement or an
\* instance that dies loses nothing (usage.service.ts:44-50).
NoOtherUsageIsLost ==
    \A w \in Windows, o \in Orgs : owed[w][o] <= billed[w][o] + count[w].per[o] + excused[w][o]

\* A window goes out once, unless a sender died, an answer was lost or the
\* sender outlived its lock: "a crash between send and acknowledgement can
\* send a window twice" and nothing else (usage.service.ts:48-50).
SentOnce ==
    \A w \in Windows \ again, o \in Orgs :
        billed[w][o] + (IF BeingSent(w) THEN 0 ELSE count[w].per[o]) <= owed[w][o]

\* "A window nobody flushes yet waits in Valkey for the next request"
\* (usage.service.ts:47).  Does not hold: its keys expire after an hour without a
\* count, and what is counted while a window is being sent goes with it.
UsageWaits ==
    \A w \in Windows, o \in Orgs : owed[w][o] <= billed[w][o] + count[w].per[o]
=============================================================================
