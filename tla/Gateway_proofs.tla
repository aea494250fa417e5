--------------------------- MODULE Gateway_proofs ---------------------------
(***************************************************************************)
(* For any requests, instances, orgs, windows, caps and lock times, and    *)
(* whatever calls fail and instances die: the slots of large bodies are    *)
(* counted exactly, and usage is lost or sent twice only in the ways the   *)
(* code admits.                                                            *)
(* For every number of lookups and secrets, every age, floor and clock,    *)
(* and any number of reads that overlap, fail and return out of order: the *)
(* copy of the keys is as fresh as its next check says, no answer is older *)
(* than the age promised, and the copy never steps back.                   *)
(***************************************************************************)
EXTENDS Gateway, IngestKeys, FiniteSetTheorems, WellFoundedInduction, TLAPS

-----------------------------------------------------------------------------
(* The inductive invariant. *)

\* A request that read a window to send it and has not acknowledged it.
Sending(q) == q.pc \in {"send", "ack"}
SendsFor(q, w) == Sending(q) /\ q.window = w

HeldBy(i) == {r \in Requests : req[r].held /\ req[r].inst = i}

\* Nothing is captured from the future; a slot is held while a body that is not gRPC is
\* read; a request in progress has an instance and an org; nothing of a window is sent before
\* it is claimed.
Sound(q) ==
    /\ q.at <= now
    /\ q.held => q.pc = "body" /\ q.kind # "grpc"
    /\ q.pc \notin {"new", "done"} => q.inst \in Instances /\ q.org \in Orgs
    /\ q.pc = "claim" => q.sent = {}

RequestsSound == now <= MaxTime /\ \A r \in Requests : Sound(req[r])

Slots ==
    \A i \in Instances :
        /\ IsFiniteSet(HeldBy(i))
        /\ inst[i].bodies = Cardinality(HeldBy(i)) /\ inst[i].bodies <= MaxBodies

\* What a window owes is accounted for even once its sender deletes what it sent.
Carried ==
    \A w \in Windows, o \in Orgs, r \in Requests :
        SendsFor(req[r], w) =>
            owed[w][o] <= billed[w][o] + excused[w][o]
                          + (IF o \in req[r].sent THEN 0 ELSE req[r].reply[o])

\* A window that is not sent again has one sender, and what that one may still send was
\* not sent yet.
OneSender ==
    \A w \in Windows \ again, r, s \in Requests :
        SendsFor(req[r], w) /\ SendsFor(req[s], w) => r = s

Waiting ==
    \A w \in Windows \ again, o \in Orgs :
        ~BeingSent(w) => billed[w][o] + count[w].per[o] <= owed[w][o]

ToSend ==
    \A w \in Windows \ again, o \in Orgs, r \in Requests :
        SendsFor(req[r], w) =>
            IF o \in req[r].sent THEN billed[w][o] <= owed[w][o]
            ELSE /\ billed[w][o] + count[w].per[o] <= owed[w][o]
                 /\ billed[w][o] + req[r].reply[o] <= owed[w][o]

Once == OneSender /\ Waiting /\ ToSend

IInv ==
    /\ TypeOK /\ RequestsSound
    /\ Slots /\ NoOtherUsageIsLost /\ Carried /\ Once

-----------------------------------------------------------------------------
(* Windows and tables. *)

\* The least member of a set of windows is one of it.
LEMMA MinIsMember ==
    ASSUME NEW S \in SUBSET Nat, S # {}
    PROVE  Min(S) \in S
<1> DEFINE R == OpToRel(<, Nat)
<1>1. R = {ss \in Nat \X Nat : ss[1] < ss[2]}
  BY DEF OpToRel
<1>2. IsWellFoundedOn(R, Nat)
  BY NatLessThanWellFounded
<1> HIDE DEF R
<1>3. \A a, b \in Nat : a < b => <<a, b>> \in R
  <2> TAKE a, b \in Nat
  <2>1. <<a, b>> \in Nat \X Nat /\ <<a, b>>[1] = a /\ <<a, b>>[2] = b
    OBVIOUS
  <2> QED BY <1>1, <2>1
<1>4. PICK x \in S : \A y \in S : <<y, x>> \notin R
  BY <1>2, WFMin
<1>5. \A y \in S : x <= y
  <2> TAKE y \in S
  <2>1. ~(y < x)
    BY <1>3, <1>4
  <2> QED BY <2>1
<1> QED BY <1>4, <1>5 DEF Min

\* Windows are numbers, 0 among them, and the clock stays within them.
LEMMA WindowsAreNumbers ==
    /\ Windows \subseteq Nat /\ 0 \in Windows
    /\ MaxTime \in Nat /\ Window \in Nat \ {0} /\ CheckEvery \in Nat
    /\ LockTime \in Nat /\ Keep \in Nat /\ MaxBodies \in Nat /\ MaxFaults \in Nat
<1>1. MaxTime \in Nat /\ Window \in Nat \ {0}
  BY GatewayAssumption DEF GatewayAssumption
<1>2. MaxTime \div Window \in Nat
  BY <1>1
<1> QED BY <1>1, <1>2, GatewayAssumption DEF Windows, GatewayAssumption

\* A time the clock can reach is in a window (ADD).
LEMMA WindowOfType ==
    ASSUME NEW t \in Nat, t <= MaxTime
    PROVE  WindowOf(t) \in Windows
<1>1. MaxTime \in Nat /\ Window \in Nat \ {0}
  BY WindowsAreNumbers
<1>2. t \div Window \in Nat /\ MaxTime \div Window \in Nat /\ t \div Window <= MaxTime \div Window
  BY <1>1
<1> QED BY <1>2 DEF WindowOf, Windows

\* One more in a table (ADD).
LEMMA MoreSpec ==
    ASSUME NEW table \in PerOrg, NEW w \in Windows, NEW o \in Orgs
    PROVE  /\ More(table, w, o) \in PerOrg
           /\ \A v \in Windows, p \in Orgs :
                More(table, w, o)[v][p] = table[v][p] + (IF v = w /\ p = o THEN 1 ELSE 0)
  BY DEF More, PerOrg

\* A batch that is stored (send).
LEMMA BillSpec ==
    ASSUME TypeOK, NEW r \in Requests, NEW o \in Orgs, Bill(r, o)
    PROVE  /\ billed' \in PerOrg
           /\ \A v \in Windows, p \in Orgs :
                billed'[v][p] = billed[v][p]
                    + (IF v = req[r].window /\ p = o THEN req[r].reply[o] ELSE 0)
<1>1. req[r].window \in Windows /\ req[r].reply[o] \in Nat /\ billed \in [Windows -> [Orgs -> Nat]]
  BY DEF TypeOK, Request, PerOrg
<1> QED BY <1>1 DEF Bill, PerOrg

\* What is in Valkey for a window: its counts and when they expire.
WindowCount == [per : [Orgs -> Nat], until : Nat]

\* A window's counts with one more, and its new time of expiry (ADD).
Counted(c, w, o, u) == [c EXCEPT ![w].per[o] = @ + 1, ![w].until = u]

\* That is one more for one org, and nothing else changes.
LEMMA CountMoreSpec ==
    ASSUME NEW c \in [Windows -> WindowCount], NEW w \in Windows, NEW o \in Orgs, NEW u \in Nat
    PROVE  LET d == Counted(c, w, o, u) IN
           /\ d \in [Windows -> WindowCount]
           /\ \A v \in Windows, p \in Orgs :
                d[v].per[p] = c[v].per[p] + (IF v = w /\ p = o THEN 1 ELSE 0)
<1>1. c[w] \in WindowCount /\ c[w].per \in [Orgs -> Nat]
  BY DEF WindowCount
<1> DEFINE d == Counted(c, w, o, u)
           more == [c[w].per EXCEPT ![o] = @ + 1]
           row == [per |-> more, until |-> u]
<1>2. more \in [Orgs -> Nat] /\ \A p \in Orgs : more[p] = c[w].per[p] + (IF p = o THEN 1 ELSE 0)
  BY <1>1
<1>3. row \in WindowCount /\ row.per = more
  BY <1>2 DEF WindowCount
<1>4. d = [c EXCEPT ![w] = row]
  <2> DEFINE e == [c EXCEPT ![w].per[o] = @ + 1]
             half == [per |-> more, until |-> c[w].until]
  <2>1. e = [c EXCEPT ![w] = half]
    <3>1. [c[w] EXCEPT !.per = more] = half
      <4> HIDE DEF more
      <4>1. c[w] = [per |-> c[w].per, until |-> c[w].until]
        BY <1>1 DEF WindowCount
      <4> QED BY <4>1
    <3>2. e = [c EXCEPT ![w] = [c[w] EXCEPT !.per = more]]
      OBVIOUS
    <3> HIDE DEF e, half, more
    <3> QED BY <3>1, <3>2
  <2>2. d = [e EXCEPT ![w].until = u]
    BY DEF Counted
  <2>3. half \in WindowCount
    BY <1>1, <1>2 DEF WindowCount
  <2> HIDE DEF e, more
  <2>4. e \in [Windows -> WindowCount] /\ e[w] = half
    BY <2>1, <2>3
  <2>5. [half EXCEPT !.until = u] = row
    OBVIOUS
  <2> HIDE DEF half
  <2>6. d = [e EXCEPT ![w] = [half EXCEPT !.until = u]]
    BY <2>2, <2>4
  <2> HIDE DEF row
  <2> QED BY <2>1, <2>5, <2>6
<1> HIDE DEF row, more, d
<1>5. d \in [Windows -> WindowCount] /\ d[w] = row /\ \A v \in Windows \ {w} : d[v] = c[v]
  BY <1>3, <1>4
<1>6. \A v \in Windows : c[v].per \in [Orgs -> Nat]
  BY DEF WindowCount
<1>7. \A v \in Windows, p \in Orgs :
        d[v].per[p] = c[v].per[p] + (IF v = w /\ p = o THEN 1 ELSE 0)
  BY <1>2, <1>3, <1>5, <1>6
<1> QED BY <1>5, <1>7 DEF d

\* The counts of a window are replaced (ACK, and the expiry of its keys).
LEMMA CountPerSpec ==
    ASSUME NEW c \in [Windows -> WindowCount], NEW w \in Windows, NEW per \in [Orgs -> Nat]
    PROVE  LET d == [c EXCEPT ![w].per = per] IN
           /\ d \in [Windows -> WindowCount]
           /\ d[w].per = per /\ \A v \in Windows \ {w} : d[v] = c[v]
<1>1. c[w] \in WindowCount
  OBVIOUS
<1> QED BY <1>1 DEF WindowCount

-----------------------------------------------------------------------------
(* The step of one request. *)

InstanceRec == [bodies : Nat, next : Nat]

\* What the step does to the slots: nothing, takes one, or gives back the one it holds.
NoSlot(r, q) ==
    ~req[r].held /\ ~q.held /\ \A i \in Instances : inst'[i].bodies = inst[i].bodies
TakesSlot(r, q) ==
    /\ ~req[r].held /\ q.held /\ q.inst \in Instances
    /\ inst[q.inst].bodies < MaxBodies
    /\ inst' = [inst EXCEPT ![q.inst].bodies = @ + 1]
GivesSlot(r, q) == ~q.held /\ req[r].inst \in Instances /\ GiveBack(r)

\* Request r becomes q, which is sound.
MovesTo(r, q) ==
    /\ q \in Request /\ Sound(q) /\ req' = [req EXCEPT ![r] = q]
    /\ now' = now /\ inst' \in [Instances -> InstanceRec]
    /\ NoSlot(r, q) \/ TakesSlot(r, q) \/ GivesSlot(r, q)

\* No usage is touched, and no window is being sent by it.
Quietly(r, q) ==
    /\ MovesTo(r, q) /\ ~Sending(req[r]) /\ ~Sending(q)
    /\ UNCHANGED <<usage, billed, history>>

\* The fields of a request.
LEMMA RequestFields ==
    ASSUME TypeOK, NEW r \in Requests
    PROVE  LET q == req[r] IN
           /\ q \in Request
           /\ q.kind \in Kinds \union {NoOne} /\ q.inst \in Instances \union {NoOne}
           /\ q.org \in Orgs \union {NoOne} /\ q.held \in BOOLEAN /\ q.at \in Nat
           /\ q.due \in SUBSET Windows /\ q.window \in Windows
           /\ q.reply \in [Orgs -> Nat] /\ q.sent \in SUBSET Orgs
<1>1. req[r] \in Request
  BY DEF TypeOK
<1> QED BY <1>1 DEF Request

\* A new request, and an answered one.
LEMMA NewRequestType ==
    /\ NewRequest \in Request /\ Answered \in Request
    /\ NewRequest.pc = "new" /\ ~NewRequest.held /\ NewRequest.at = 0
    /\ Answered.pc = "done" /\ ~Answered.held /\ Answered.at = 0
<1>1. [o \in Orgs |-> 0] \in [Orgs -> Nat] /\ 0 \in Windows /\ {} \in SUBSET Windows
  BY WindowsAreNumbers
<1>2. NewRequest \in Request /\ NewRequest.pc = "new" /\ ~NewRequest.held /\ NewRequest.at = 0
  BY <1>1 DEF NewRequest, Request
<1>3. /\ [NewRequest EXCEPT !.pc = "done"] \in Request
      /\ [NewRequest EXCEPT !.pc = "done"].pc = "done"
      /\ ~[NewRequest EXCEPT !.pc = "done"].held /\ [NewRequest EXCEPT !.pc = "done"].at = 0
  BY <1>2 DEF Request
<1> QED BY <1>2, <1>3 DEF Answered

\* A request is answered that holds no slot.
LEMMA AnswerMoves ==
    ASSUME TypeOK, RequestsSound, NEW r \in Requests, Answer(r), ~req[r].held,
           now' = now, inst' = inst
    PROVE  MovesTo(r, Answered) /\ ~Sending(Answered)
<1>1. Sound(Answered) /\ ~Sending(Answered)
  BY NewRequestType DEF Sound, Sending, TypeOK
<1>2. inst' \in [Instances -> InstanceRec] /\ NoSlot(r, Answered)
  BY NewRequestType DEF TypeOK, InstanceRec, NoSlot
<1> QED BY <1>1, <1>2, NewRequestType DEF MovesTo, Answer

\* A request goes on that holds no slot.
LEMMA GoMoves ==
    ASSUME TypeOK, NEW r \in Requests, NEW q \in Request, Sound(q), Step(r, q),
           ~req[r].held, ~q.held, now' = now, inst' = inst
    PROVE  MovesTo(r, q)
  BY DEF MovesTo, Step, NoSlot, TypeOK, InstanceRec

\* The next window of a flush, or the answer.
LEMMA NextWindowMoves ==
    ASSUME TypeOK, RequestsSound, NEW r \in Requests, NEW due \in SUBSET Windows,
           NextWindow(r, due), req[r].pc \in Flushing, now' = now, inst' = inst
    PROVE  \E q : MovesTo(r, q) /\ ~Sending(q)
<1> DEFINE p == req[r]
<1>1. p \in Request /\ Sound(p) /\ ~p.held /\ p.inst \in Instances /\ p.org \in Orgs
  BY RequestFields DEF RequestsSound, Sound, Flushing
<1>2. CASE due = {}
  BY <1>1, <1>2, AnswerMoves DEF NextWindow
<1>3. CASE due # {}
  <2> DEFINE q == [NoFlush(p) EXCEPT !.pc = "claim", !.due = due, !.window = Min(due)]
  <2>1. Min(due) \in Windows
    BY <1>3, MinIsMember, WindowsAreNumbers
  <2>2. [o \in Orgs |-> 0] \in [Orgs -> Nat]
    OBVIOUS
  <2>3. /\ NoFlush(p) \in Request /\ NoFlush(p).at = 0 /\ NoFlush(p).held = p.held
        /\ NoFlush(p).inst = p.inst /\ NoFlush(p).org = p.org /\ NoFlush(p).sent = {}
    BY <1>1, <2>2, WindowsAreNumbers DEF NoFlush, Request
  <2>4. /\ q \in Request /\ q.pc = "claim" /\ q.at = 0 /\ ~q.held
        /\ q.inst = p.inst /\ q.org = p.org /\ q.sent = {}
    BY <1>1, <2>1, <2>3 DEF Request, Flushing
  <2>5. Step(r, q)
    BY <1>3 DEF NextWindow
  <2> HIDE DEF q, p
  <2>6. Sound(q) /\ ~Sending(q)
    BY <1>1, <2>4 DEF Sound, Sending, TypeOK
  <2> QED BY <1>1, <2>4, <2>5, <2>6, GoMoves DEF p
<1> QED BY <1>2, <1>3

\* A request that no check has passed holds nothing: refused.
LEMMA RefuseStep ==
    ASSUME TypeOK, RequestsSound, NEW r \in Requests, Refuse(r)
    PROVE  \E q : Quietly(r, q)
<1>1. ~req[r].held /\ ~Sending(req[r])
  BY DEF Refuse, RequestsSound, Sound, Sending
<1> QED BY <1>1, AnswerMoves DEF Refuse, Quietly

\* It is let in, with a slot for a large body; gRPC takes none.
LEMMA AdmitStep ==
    ASSUME TypeOK, RequestsSound, NEW r \in Requests, NEW kind, NEW large \in BOOLEAN,
           Admit(r, kind, large), large => kind # "grpc"
    PROVE  \E q : Quietly(r, q)
<1>1. PICK i \in Instances, o \in Orgs :
        /\ large => inst[i].bodies < MaxBodies
        /\ inst' = [inst EXCEPT ![i].bodies = IF large THEN @ + 1 ELSE @]
        /\ Step(r, [req[r] EXCEPT !.pc = "body", !.kind = kind, !.inst = i, !.org = o,
                                !.held = large])
  BY DEF Admit
<1> DEFINE q == [req[r] EXCEPT !.pc = "body", !.kind = kind, !.inst = i, !.org = o, !.held = large]
<1>2. req[r] \in Request /\ Sound(req[r]) /\ ~req[r].held /\ ~Sending(req[r]) /\ kind \in Kinds
  BY RequestFields DEF Admit, RequestsSound, Sound, Sending
<1>3. /\ q \in Request /\ q.pc = "body" /\ q.kind = kind /\ q.inst = i /\ q.org = o
      /\ q.held = large /\ q.at = req[r].at
  BY <1>2 DEF Request
<1>4. Step(r, q)
  BY <1>1
<1> HIDE DEF q
<1>5. Sound(q) /\ ~Sending(q)
  BY <1>2, <1>3 DEF Sound, Sending
<1>6. inst[i] \in InstanceRec
  BY DEF TypeOK, InstanceRec
<1>7. CASE large
  <2>1. inst' = [inst EXCEPT ![i].bodies = @ + 1]
    BY <1>1, <1>7
  <2>2. inst' \in [Instances -> InstanceRec]
    BY <1>6, <2>1 DEF TypeOK, InstanceRec
  <2>3. TakesSlot(r, q)
    BY <1>1, <1>2, <1>3, <1>7, <2>1 DEF TakesSlot
  <2> QED BY <1>2, <1>3, <1>4, <1>5, <2>2, <2>3 DEF Quietly, MovesTo, Step, Admit
<1>8. CASE ~large
  <2>1. inst' = [inst EXCEPT ![i].bodies = @]
    BY <1>1, <1>8
  <2>2. inst' \in [Instances -> InstanceRec] /\ \A j \in Instances : inst'[j].bodies = inst[j].bodies
    BY <1>6, <2>1 DEF TypeOK, InstanceRec
  <2>3. NoSlot(r, q)
    BY <1>2, <1>3, <1>8, <2>2 DEF NoSlot
  <2> QED BY <1>2, <1>3, <1>4, <1>5, <2>2, <2>3 DEF Quietly, MovesTo, Step, Admit
<1> QED BY <1>7, <1>8

\* The checks of the three surfaces.
LEMMA ReceiveStep ==
    ASSUME TypeOK, RequestsSound, NEW r \in Requests,
           ReceiveHttp(r) \/ ReceiveEvents(r) \/ Gate(r)
    PROVE  faults' = faults /\ \E q : Quietly(r, q)
<1>1. \/ Refuse(r)
      \/ \E kind \in {"http", "grpc", "events"}, large \in BOOLEAN :
           Admit(r, kind, large) /\ (large => kind # "grpc")
  <2>1. CASE ReceiveHttp(r)
    BY <2>1 DEF ReceiveHttp
  <2>2. CASE ReceiveEvents(r)
    BY <2>2 DEF ReceiveEvents
  <2>3. CASE Gate(r)
    BY <2>3 DEF Gate
  <2> QED BY <2>1, <2>2, <2>3
<1>2. CASE Refuse(r)
  BY <1>2, RefuseStep DEF Refuse
<1>3. ASSUME NEW kind, NEW large \in BOOLEAN, Admit(r, kind, large), large => kind # "grpc"
      PROVE  faults' = faults /\ \E q : Quietly(r, q)
  BY <1>3, AdmitStep DEF Admit
<1> QED BY <1>1, <1>2, <1>3

\* The instance of a request that holds a slot counts one.
LEMMA HeldIsCounted ==
    ASSUME TypeOK, Slots, NEW r \in Requests, req[r].held, req[r].inst \in Instances
    PROVE  inst[req[r].inst].bodies - 1 \in Nat
<1> DEFINE i == req[r].inst
<1>1. r \in HeldBy(i) /\ IsFiniteSet(HeldBy(i)) /\ inst[i].bodies = Cardinality(HeldBy(i))
  BY DEF HeldBy, Slots
<1>2. Cardinality(HeldBy(i)) \in Nat /\ Cardinality(HeldBy(i)) # 0
  BY <1>1, FS_EmptySet, FS_CardinalityType
<1> QED BY <1>1, <1>2

\* A body ends, whole or not: the slot it held is given back.
LEMMA BodyStep ==
    ASSUME TypeOK, RequestsSound, Slots, NEW r \in Requests,
           BodyRead(r) \/ BodyCut(r) \/ Undecodable(r)
    PROVE  faults' = faults /\ \E q : Quietly(r, q)
<1> DEFINE p == req[r]
<1>1. /\ p \in Request /\ Sound(p) /\ p.pc = "body" /\ p.inst \in Instances /\ p.org \in Orgs
      /\ p.held \in BOOLEAN /\ p.at <= now /\ now \in Nat
  BY RequestFields DEF RequestsSound, Sound, BodyRead, BodyCut, Undecodable, TypeOK
<1>2. UNCHANGED <<now, usage, billed, history, faults>> /\ GiveBack(r)
  BY DEF BodyRead, BodyCut, Undecodable
<1>3. inst' \in [Instances -> InstanceRec]
  <2>1. inst[p.inst] \in InstanceRec /\ inst \in [Instances -> InstanceRec]
    BY <1>1 DEF TypeOK, InstanceRec
  <2> DEFINE left == IF p.held THEN inst[p.inst].bodies - 1 ELSE inst[p.inst].bodies
  <2>2. left \in Nat
    BY <1>1, <2>1, HeldIsCounted DEF InstanceRec
  <2>3. inst' = [inst EXCEPT ![p.inst].bodies = left]
    BY <1>2 DEF GiveBack
  <2> HIDE DEF left, p
  <2> QED BY <1>1, <2>1, <2>2, <2>3 DEF InstanceRec
<1>4. ASSUME NEW q \in Request, Step(r, q), ~q.held, Sound(q), ~Sending(q)
      PROVE  Quietly(r, q)
  BY <1>1, <1>2, <1>3, <1>4 DEF Quietly, MovesTo, Step, GivesSlot, Sending
<1>5. CASE Answer(r)
  <2>1. Sound(Answered) /\ ~Sending(Answered)
    BY <1>1, NewRequestType DEF Sound, Sending
  <2>2. Step(r, Answered)
    BY <1>5 DEF Answer, Step
  <2> QED BY <1>2, <1>4, <2>1, <2>2, NewRequestType
<1>6. CASE Step(r, [p EXCEPT !.pc = "accept", !.held = FALSE, !.at = now])
  <2> DEFINE q == [p EXCEPT !.pc = "accept", !.held = FALSE, !.at = now]
  <2>1. /\ q \in Request /\ q.pc = "accept" /\ q.inst = p.inst /\ q.org = p.org
        /\ ~q.held /\ q.at = now
    BY <1>1 DEF Request
  <2>2. Sound(q) /\ ~Sending(q)
    BY <1>1, <2>1 DEF Sound, Sending
  <2> QED BY <1>2, <1>4, <1>6, <2>1, <2>2
<1>7. CASE Step(r, [p EXCEPT !.pc = "ingest", !.held = FALSE, !.kind = NoOne])
  <2> DEFINE q == [p EXCEPT !.pc = "ingest", !.held = FALSE, !.kind = NoOne]
  <2>1. /\ q \in Request /\ q.pc = "ingest" /\ q.inst = p.inst /\ q.org = p.org
        /\ ~q.held /\ q.at = p.at
    BY <1>1 DEF Request
  <2>2. Sound(q) /\ ~Sending(q)
    BY <1>1, <2>1 DEF Sound, Sending
  <2> QED BY <1>2, <1>4, <1>7, <2>1, <2>2
<1> QED BY <1>5, <1>6, <1>7 DEF BodyRead, BodyCut, Undecodable

\* A request goes on between the body and the usage.
LEMMA PathStep ==
    ASSUME TypeOK, RequestsSound, NEW r \in Requests,
           MessageRead(r) \/ ingest(r) \/ accept(r)
    PROVE  faults' = faults /\ \E q : Quietly(r, q)
<1> DEFINE p == req[r]
<1>1. /\ p \in Request /\ Sound(p) /\ p.inst \in Instances /\ p.org \in Orgs /\ ~p.held
      /\ p.at <= now /\ now \in Nat /\ ~Sending(p)
  BY RequestFields DEF RequestsSound, Sound, MessageRead, ingest, accept, TypeOK, Sending
<1>2. UNCHANGED <<now, inst, usage, billed, history, faults>>
  BY DEF MessageRead, ingest, accept
<1>3. ASSUME NEW q \in Request, Step(r, q), ~q.held, Sound(q), ~Sending(q)
      PROVE  Quietly(r, q)
  BY <1>1, <1>2, <1>3, GoMoves DEF Quietly
<1>4. CASE Answer(r)
  BY <1>1, <1>2, <1>4, AnswerMoves DEF Quietly
<1>5. CASE Step(r, [p EXCEPT !.pc = "ingest", !.kind = NoOne])
  <2> DEFINE q == [p EXCEPT !.pc = "ingest", !.kind = NoOne]
  <2>1. /\ q \in Request /\ q.pc = "ingest" /\ q.inst = p.inst /\ q.org = p.org
        /\ ~q.held /\ q.at = p.at
    BY <1>1 DEF Request
  <2>2. Sound(q) /\ ~Sending(q)
    BY <1>1, <2>1 DEF Sound, Sending
  <2> QED BY <1>2, <1>3, <1>5, <2>1, <2>2
<1>6. CASE Step(r, [p EXCEPT !.pc = "add", !.at = now])
  <2> DEFINE q == [p EXCEPT !.pc = "add", !.at = now]
  <2>1. /\ q \in Request /\ q.pc = "add" /\ q.inst = p.inst /\ q.org = p.org
        /\ ~q.held /\ q.at = now
    BY <1>1 DEF Request
  <2>2. Sound(q) /\ ~Sending(q)
    BY <1>1, <2>1 DEF Sound, Sending
  <2> QED BY <1>2, <1>3, <1>6, <2>1, <2>2
<1>7. CASE Go(r, "add")
  <2> DEFINE q == [p EXCEPT !.pc = "add"]
  <2>1. /\ q \in Request /\ q.pc = "add" /\ q.inst = p.inst /\ q.org = p.org
        /\ ~q.held /\ q.at = p.at
    BY <1>1 DEF Request
  <2>2. Sound(q) /\ ~Sending(q)
    BY <1>1, <2>1 DEF Sound, Sending
  <2>3. Step(r, q)
    BY <1>7 DEF Go
  <2> QED BY <1>2, <1>3, <2>1, <2>2, <2>3
<1> QED BY <1>4, <1>5, <1>6, <1>7 DEF MessageRead, ingest, accept

\* flushDue: the request is answered, or goes on to list the closed windows.
LEMMA CheckStep ==
    ASSUME TypeOK, RequestsSound, NEW r \in Requests, req[r].pc = "add", Check(r), now' = now
    PROVE  \E q : MovesTo(r, q) /\ ~Sending(q)
<1> DEFINE p == req[r]
           t == IF p.kind = "events" THEN p.at ELSE now
           q == [p EXCEPT !.pc = "list", !.at = t, !.kind = NoOne]
<1>1. /\ p \in Request /\ Sound(p) /\ p.inst \in Instances /\ p.org \in Orgs /\ ~p.held
      /\ p.at <= now /\ now \in Nat /\ p.at \in Nat
  BY RequestFields DEF RequestsSound, Sound, TypeOK
<1>2. CASE Answer(r) /\ UNCHANGED inst
  BY <1>1, <1>2, AnswerMoves
<1>3. CASE Step(r, q) /\ inst' = [inst EXCEPT ![p.inst].next = t + CheckEvery]
  <2>1. t \in Nat /\ t <= now
    BY <1>1
  <2> HIDE DEF t
  <2>2. /\ q \in Request /\ q.pc = "list" /\ q.inst = p.inst /\ q.org = p.org
        /\ ~q.held /\ q.at = t
    BY <1>1, <2>1 DEF Request, Flushing
  <2> HIDE DEF q
  <2>3. Sound(q) /\ ~Sending(q)
    BY <1>1, <2>1, <2>2 DEF Sound, Sending
  <2>4. inst[p.inst] \in InstanceRec /\ inst \in [Instances -> InstanceRec] /\ t + CheckEvery \in Nat
    BY <1>1, <2>1, WindowsAreNumbers DEF TypeOK, InstanceRec
  <2> HIDE DEF p
  <2>5. /\ inst' \in [Instances -> InstanceRec]
        /\ \A i \in Instances : inst'[i].bodies = inst[i].bodies
    BY <1>1, <1>3, <2>4 DEF InstanceRec
  <2> QED BY <1>1, <1>3, <2>2, <2>3, <2>5 DEF MovesTo, Step, NoSlot, p
<1> QED BY <1>2, <1>3 DEF Check

\* The usage was not recorded; a flush ends, or finds nothing to claim.
LEMMA IdleStep ==
    ASSUME TypeOK, RequestsSound, NEW r \in Requests,
           AddFails(r) \/ List(r) \/ FlushFails(r) \/ (Claim(r) /\ lock[req[r].window] > now)
    PROVE  faults' \in Nat /\ \E q : Quietly(r, q)
<1> DEFINE p == req[r]
<1>1. /\ p \in Request /\ Sound(p) /\ p.due \in SUBSET Windows /\ faults \in Nat
      /\ open \in SUBSET Windows
  BY RequestFields DEF RequestsSound, TypeOK
<1>2. CASE AddFails(r)
  <2>1. p.pc = "add" /\ Check(r) /\ now' = now /\ UNCHANGED <<usage, billed, history>>
        /\ faults' = faults + 1
    BY <1>2 DEF AddFails, ValkeyFails, Fault
  <2>2. ~Sending(p)
    BY <2>1 DEF Sending
  <2> QED BY <1>1, <2>1, <2>2, CheckStep DEF Quietly
<1>3. CASE List(r)
  <2>1. /\ p.pc = "list" /\ NextWindow(r, {w \in open : w < WindowOf(p.at)})
        /\ UNCHANGED <<now, inst, usage, billed, history, faults>>
    BY <1>3 DEF List
  <2>2. {w \in open : w < WindowOf(p.at)} \in SUBSET Windows /\ p.pc \in Flushing /\ ~Sending(p)
    BY <1>1, <2>1 DEF Sending, Flushing
  <2> QED BY <1>1, <2>1, <2>2, NextWindowMoves DEF Quietly
<1>4. CASE FlushFails(r)
  <2>1. /\ p.pc \in {"list", "claim"} /\ Answer(r) /\ faults' = faults + 1
        /\ UNCHANGED <<now, inst, usage, billed, history>>
    BY <1>4 DEF FlushFails, ValkeyFails, Fault
  <2>2. ~p.held /\ ~Sending(p)
    BY <1>1, <2>1 DEF Sound, Sending
  <2> QED BY <1>1, <2>1, <2>2, AnswerMoves DEF Quietly
<1>5. CASE Claim(r) /\ lock[p.window] > now
  <2>1. /\ p.pc = "claim" /\ NextWindow(r, Rest(r))
        /\ UNCHANGED <<now, inst, usage, billed, history, faults>>
    BY <1>5 DEF Claim, usage, history
  <2>2. Rest(r) \in SUBSET Windows /\ p.pc \in Flushing /\ ~Sending(p)
    BY <1>1, <2>1 DEF Sending, Flushing, Rest
  <2> QED BY <1>1, <2>1, <2>2, NextWindowMoves DEF Quietly
<1> QED BY <1>2, <1>3, <1>4, <1>5

\* The window is claimed and read.
LEMMA ClaimStep ==
    ASSUME TypeOK, RequestsSound, NEW r \in Requests, Claim(r), ~(lock[req[r].window] > now)
    PROVE  /\ req[r].window \in Windows /\ ~Sending(req[r])
           /\ UNCHANGED <<open, count, billed, owed, excused, faults>>
           /\ lock' \in [Windows -> Nat]
           /\ again' = IF BeingSent(req[r].window) THEN again \union {req[r].window} ELSE again
           /\ \E q : /\ MovesTo(r, q) /\ SendsFor(q, req[r].window)
                     /\ q.reply = count[req[r].window].per /\ q.sent = {}
<1> DEFINE p == req[r]
           q == [p EXCEPT !.pc = "send", !.reply = count[p.window].per]
<1>1. /\ p \in Request /\ Sound(p) /\ p.pc = "claim" /\ p.window \in Windows /\ now \in Nat
      /\ p.inst \in Instances /\ p.org \in Orgs /\ ~p.held /\ p.sent = {}
  BY RequestFields DEF RequestsSound, Sound, TypeOK, Claim
<1>2. /\ lock' = [lock EXCEPT ![p.window] = now + LockTime] /\ Step(r, q)
      /\ again' = IF BeingSent(p.window) THEN again \union {p.window} ELSE again
      /\ UNCHANGED <<now, inst, open, count, billed, owed, excused, faults>>
  BY DEF Claim
<1>3. lock' \in [Windows -> Nat]
  BY <1>1, <1>2, WindowsAreNumbers DEF TypeOK
<1>4. count[p.window].per \in [Orgs -> Nat]
  BY <1>1 DEF TypeOK
<1>5. /\ q \in Request /\ q.pc = "send" /\ q.inst = p.inst /\ q.org = p.org /\ q.held = p.held
      /\ q.at = p.at /\ q.window = p.window /\ q.sent = p.sent /\ q.reply = count[p.window].per
  BY <1>1, <1>4 DEF Request, Flushing
<1> HIDE DEF q
<1>6. Sound(q) /\ SendsFor(q, p.window)
  BY <1>1, <1>5 DEF Sound, SendsFor, Sending
<1>7. MovesTo(r, q)
  BY <1>1, <1>2, <1>5, <1>6, GoMoves
<1> QED BY <1>1, <1>2, <1>3, <1>5, <1>6, <1>7 DEF Sending

\* A request goes on with the window it is sending.
Keeps(r, q) ==
    /\ Sending(req[r]) /\ Sending(q)
    /\ q.window = req[r].window /\ q.reply = req[r].reply

\* What is known of a request that sends a window.
LEMMA SenderFields ==
    ASSUME TypeOK, RequestsSound, NEW r \in Requests, Sending(req[r])
    PROVE  LET p == req[r] IN
           /\ p \in Request /\ Sound(p) /\ p.window \in Windows /\ now \in Nat /\ p.at <= now
           /\ p.inst \in Instances /\ p.org \in Orgs /\ ~p.held /\ p.pc \in Flushing
           /\ p.reply \in [Orgs -> Nat] /\ p.sent \in SUBSET Orgs /\ p.due \in SUBSET Windows
  BY RequestFields DEF RequestsSound, Sound, TypeOK, Sending, Flushing

\* The batch of one org is stored.
LEMMA SendStep ==
    ASSUME TypeOK, RequestsSound, NEW r \in Requests, Send(r)
    PROVE  /\ UNCHANGED <<usage, history, faults>>
           /\ \E o \in Unsent(r) : \E q :
                Bill(r, o) /\ MovesTo(r, q) /\ Keeps(r, q) /\ q.sent = req[r].sent \union {o}
<1> DEFINE p == req[r]
<1>1. /\ p.pc = "send" /\ UNCHANGED <<now, inst, usage, history, faults>>
      /\ \E o \in Unsent(r) : Bill(r, o) /\ Step(r, [p EXCEPT !.sent = @ \union {o}])
  BY DEF Send
<1>2. PICK o \in Unsent(r) : Bill(r, o) /\ Step(r, [p EXCEPT !.sent = @ \union {o}])
  BY <1>1
<1> DEFINE q == [p EXCEPT !.sent = @ \union {o}]
<1>3. o \in Orgs /\ Sending(p)
  BY <1>1 DEF Unsent, Sending
<1>4. /\ q \in Request /\ q.pc = p.pc /\ q.inst = p.inst /\ q.org = p.org /\ q.held = p.held
      /\ q.at = p.at /\ q.window = p.window /\ q.reply = p.reply /\ q.sent = p.sent \union {o}
  BY <1>3, SenderFields DEF Request
<1>5. Step(r, q)
  BY <1>2
<1> HIDE DEF q
<1>6. Sound(q) /\ Keeps(r, q)
  BY <1>1, <1>3, <1>4, SenderFields DEF Sound, Keeps, Sending
<1>7. MovesTo(r, q)
  BY <1>1, <1>3, <1>4, <1>5, <1>6, SenderFields, GoMoves
<1> QED BY <1>1, <1>2, <1>4, <1>6, <1>7

\* Every org is sent, or a batch failed: the window is to be acknowledged.
LEMMA SentStep ==
    ASSUME TypeOK, RequestsSound, NEW r \in Requests, Sent(r) \/ SendFails(r)
    PROVE  /\ UNCHANGED <<usage, owed, excused>> /\ faults' \in Nat
           /\ \/ UNCHANGED <<billed, again>>
              \/ again' = again \union {req[r].window} /\ \E o \in Unsent(r) : Bill(r, o)
           /\ \E q : MovesTo(r, q) /\ Keeps(r, q) /\ q.sent = req[r].sent
<1> DEFINE p == req[r]
<1>1. Sending(p) /\ p.pc = "send"
  BY DEF Sent, SendFails, Sending
<1>2. ASSUME NEW d \in SUBSET Windows, Step(r, [p EXCEPT !.pc = "ack", !.due = d]),
             UNCHANGED <<now, inst>>
      PROVE  \E q : MovesTo(r, q) /\ Keeps(r, q) /\ q.sent = p.sent
  <2> DEFINE q == [p EXCEPT !.pc = "ack", !.due = d]
  <2>1. /\ q \in Request /\ q.pc = "ack" /\ q.inst = p.inst /\ q.org = p.org /\ q.held = p.held
        /\ q.at = p.at /\ q.window = p.window /\ q.reply = p.reply /\ q.sent = p.sent
    BY <1>1, SenderFields DEF Request, Flushing
  <2>2. Step(r, q)
    BY <1>2
  <2> HIDE DEF q
  <2>3. Sound(q) /\ Keeps(r, q)
    BY <1>1, <2>1, SenderFields DEF Sound, Keeps, Sending
  <2> QED BY <1>1, <1>2, <2>1, <2>2, <2>3, SenderFields, GoMoves
<1>3. CASE Sent(r)
  <2>1. Go(r, "ack") /\ UNCHANGED <<now, inst, usage, billed, history, faults>>
    BY <1>3 DEF Sent
  <2>2. [p EXCEPT !.pc = "ack"] = [p EXCEPT !.pc = "ack", !.due = p.due]
    BY <1>1, SenderFields DEF Request
  <2>3. Step(r, [p EXCEPT !.pc = "ack", !.due = p.due])
    BY <2>1, <2>2 DEF Go
  <2> HIDE DEF p
  <2>4. p.due \in SUBSET Windows /\ faults \in Nat
    BY <1>1, SenderFields DEF p, TypeOK
  <2>5. \E q : MovesTo(r, q) /\ Keeps(r, q) /\ q.sent = p.sent
    BY <1>2, <2>1, <2>3, <2>4
  <2> QED BY <2>1, <2>4, <2>5 DEF history, p
<1>4. CASE SendFails(r)
  <2>1. /\ Step(r, [p EXCEPT !.pc = "ack", !.due = {p.window}])
        /\ UNCHANGED <<now, inst, usage, owed, excused>> /\ faults' = faults + 1
        /\ \E o \in Unsent(r), kept \in BOOLEAN :
             /\ IF kept THEN Bill(r, o) ELSE UNCHANGED billed
             /\ again' = IF kept THEN again \union {p.window} ELSE again
    BY <1>4 DEF SendFails, Fault
  <2>2. {p.window} \in SUBSET Windows /\ faults \in Nat
    BY <1>1, SenderFields DEF TypeOK
  <2>3. \/ UNCHANGED <<billed, again>>
        \/ again' = again \union {p.window} /\ \E o \in Unsent(r) : Bill(r, o)
    BY <2>1
  <2>4. \E q : MovesTo(r, q) /\ Keeps(r, q) /\ q.sent = p.sent
    BY <1>2, <2>1, <2>2
  <2> QED BY <2>1, <2>2, <2>3, <2>4
<1> QED BY <1>3, <1>4

\* The acknowledgement: what was sent leaves the window; or it is lost.
LEMMA AckStep ==
    ASSUME TypeOK, RequestsSound, NEW r \in Requests, Ack(r) \/ AckFails(r)
    PROVE  /\ Sending(req[r]) /\ faults' \in Nat /\ UNCHANGED <<billed, owed, excused>>
           /\ \/ UNCHANGED <<usage>> /\ again' = again \union {req[r].window}
              \/ again' = again /\ Acknowledge(req[r].window, req[r].sent)
           /\ \E q : MovesTo(r, q) /\ ~Sending(q)
<1>1. /\ req[r].pc = "ack" /\ Sending(req[r]) /\ faults \in Nat
  BY DEF Ack, AckFails, Sending, TypeOK
<1>2. NextWindow(r, Rest(r)) /\ UNCHANGED <<now, inst, billed, owed, excused>>
  BY DEF Ack, AckFails, history
<1>3. Rest(r) \in SUBSET Windows /\ req[r].pc \in Flushing
  BY <1>1, SenderFields DEF Rest
<1>4. \E q : MovesTo(r, q) /\ ~Sending(q)
  BY <1>2, <1>3, NextWindowMoves
<1>5. CASE Ack(r)
  BY <1>1, <1>2, <1>4, <1>5 DEF Ack, history
<1>6. CASE AckFails(r)
  BY <1>1, <1>2, <1>4, <1>6 DEF AckFails, ValkeyFails, Fault
<1> QED BY <1>5, <1>6

\* What an acknowledgement leaves (ACK).
LEMMA AcknowledgeSpec ==
    ASSUME TypeOK, NEW w \in Windows, NEW sent \in SUBSET Orgs, Acknowledge(w, sent)
    PROVE  /\ count' \in [Windows -> WindowCount] /\ open' \in SUBSET Windows
           /\ lock' \in [Windows -> Nat]
           /\ \A v \in Windows, o \in Orgs :
                count'[v].per[o] = IF v = w /\ o \in sent THEN 0 ELSE count[v].per[o]
<1> DEFINE rest == [o \in Orgs |-> IF o \in sent THEN 0 ELSE count[w].per[o]]
<1>1. /\ count' = [count EXCEPT ![w].per = rest] /\ lock' = [lock EXCEPT ![w] = 0]
      /\ open' = IF \A o \in Orgs : rest[o] = 0 THEN open \ {w} ELSE open
  BY DEF Acknowledge
<1>2. count \in [Windows -> WindowCount] /\ \A v \in Windows : count[v].per \in [Orgs -> Nat]
  BY DEF TypeOK, WindowCount
<1>3. rest \in [Orgs -> Nat] /\ \A o \in Orgs : rest[o] = IF o \in sent THEN 0 ELSE count[w].per[o]
  BY <1>2
<1>4. lock' \in [Windows -> Nat] /\ open' \in SUBSET Windows
  BY <1>1 DEF TypeOK
<1> HIDE DEF rest
<1>5. /\ count' \in [Windows -> WindowCount]
      /\ count'[w].per = rest /\ \A v \in Windows \ {w} : count'[v] = count[v]
  BY <1>1, <1>2, <1>3, CountPerSpec
<1> QED BY <1>3, <1>4, <1>5

-----------------------------------------------------------------------------
(* Slots: the step of a request, and the death of an instance. *)

\* A request that moves stays sound, and so do the others; slots are counted.
LEMMA MoveKeepsSlots ==
    ASSUME TypeOK, RequestsSound, Slots, NEW r \in Requests, NEW q, MovesTo(r, q)
    PROVE  /\ req' \in [Requests -> Request] /\ inst' \in [Instances -> InstanceRec]
           /\ now' = now /\ RequestsSound' /\ Slots'
<1>1. /\ q \in Request /\ Sound(q) /\ req' = [req EXCEPT ![r] = q] /\ now' = now
      /\ inst' \in [Instances -> InstanceRec] /\ req \in [Requests -> Request]
  BY DEF MovesTo, TypeOK
<1>2. req' \in [Requests -> Request] /\ req'[r] = q /\ \A s \in Requests \ {r} : req'[s] = req[s]
  BY <1>1
<1>3. RequestsSound'
  BY <1>1, <1>2 DEF RequestsSound, Sound
<1>4. ASSUME NEW i \in Instances
      PROVE  /\ IsFiniteSet(HeldBy(i))'
             /\ inst'[i].bodies = Cardinality(HeldBy(i)') /\ inst'[i].bodies <= MaxBodies
  <2>1. /\ IsFiniteSet(HeldBy(i)) /\ inst[i].bodies = Cardinality(HeldBy(i))
        /\ inst[i].bodies <= MaxBodies /\ inst[i].bodies \in Nat /\ MaxBodies \in Nat
    BY WindowsAreNumbers DEF Slots, TypeOK
  <2>2. inst \in [Instances -> InstanceRec]
    BY DEF TypeOK, InstanceRec
  <2>3. CASE NoSlot(r, q)
    <3>1. HeldBy(i)' = HeldBy(i) /\ inst'[i].bodies = inst[i].bodies
      BY <1>2, <2>3 DEF HeldBy, NoSlot
    <3> QED BY <2>1, <3>1
  <2>4. CASE TakesSlot(r, q)
    <3>1. CASE i = q.inst
      <4>1. HeldBy(i)' = HeldBy(i) \union {r} /\ r \notin HeldBy(i)
        BY <1>2, <2>4, <3>1 DEF HeldBy, TakesSlot
      <4>2. inst'[i].bodies = inst[i].bodies + 1 /\ inst[i].bodies < MaxBodies
        BY <2>2, <2>4, <3>1 DEF TakesSlot, InstanceRec
      <4> QED BY <2>1, <4>1, <4>2, FS_AddElement
    <3>2. CASE i # q.inst
      <4>1. HeldBy(i)' = HeldBy(i)
        BY <1>2, <2>4, <3>2 DEF HeldBy, TakesSlot
      <4>2. inst'[i].bodies = inst[i].bodies
        BY <2>2, <2>4, <3>2 DEF TakesSlot
      <4> QED BY <2>1, <4>1, <4>2
    <3> QED BY <3>1, <3>2
  <2>5. CASE GivesSlot(r, q)
    <3>1. CASE i = req[r].inst /\ req[r].held
      <4>1. HeldBy(i)' = HeldBy(i) \ {r} /\ r \in HeldBy(i)
        BY <1>2, <2>5, <3>1 DEF HeldBy, GivesSlot
      <4>2. inst'[i].bodies = inst[i].bodies - 1
        BY <2>2, <2>5, <3>1 DEF GivesSlot, GiveBack, InstanceRec
      <4> QED BY <2>1, <4>1, <4>2, FS_RemoveElement
    <3>2. CASE ~(i = req[r].inst /\ req[r].held)
      <4>1. HeldBy(i)' = HeldBy(i)
        BY <1>2, <2>5, <3>2 DEF HeldBy, GivesSlot
      <4>2. inst'[i].bodies = inst[i].bodies
        <5>1. CASE i = req[r].inst
          BY <2>2, <2>5, <3>2, <5>1 DEF GivesSlot, GiveBack, InstanceRec
        <5>2. CASE i # req[r].inst
          BY <2>2, <2>5, <5>2 DEF GivesSlot, GiveBack
        <5> QED BY <5>1, <5>2
      <4> QED BY <2>1, <4>1, <4>2
    <3> QED BY <3>1, <3>2
  <2> QED BY <2>3, <2>4, <2>5 DEF MovesTo
<1> QED BY <1>1, <1>2, <1>3, <1>4 DEF Slots

\* An instance dies: its requests are answered by nobody, its slots are free.
LEMMA CrashKeepsSlots ==
    ASSUME TypeOK, RequestsSound, Slots, NEW i \in Instances, Crash(i)
    PROVE  /\ req' \in [Requests -> Request] /\ inst' \in [Instances -> InstanceRec]
           /\ now' = now /\ faults' \in Nat /\ RequestsSound' /\ Slots'
           /\ UNCHANGED <<usage, billed, owed, excused>>
           /\ again \subseteq again' /\ again' \in SUBSET Windows
           /\ \A r \in Requests :
                /\ Sending(req'[r]) => req'[r] = req[r]
                /\ Sending(req[r]) /\ ~Sending(req'[r]) => req[r].window \in again'
<1> DEFINE dead == {r \in Requests : req[r].inst = i /\ Running(r)}
           sending == {d \in dead : req[d].pc \in {"send", "ack"}}
<1>1. /\ inst' = [inst EXCEPT ![i] = [bodies |-> 0, next |-> 0]]
      /\ again' = again \union {req[r].window : r \in sending}
      /\ req' = [r \in Requests |-> IF r \in dead THEN Answered ELSE req[r]]
      /\ UNCHANGED <<now, usage, billed, owed, excused>> /\ faults' = faults + 1
  BY DEF Crash, Fault
<1>2. [bodies |-> 0, next |-> 0] \in InstanceRec /\ inst \in [Instances -> InstanceRec]
  BY DEF TypeOK, InstanceRec
<1>3. /\ inst' \in [Instances -> InstanceRec]
      /\ inst'[i].bodies = 0 /\ \A j \in Instances \ {i} : inst'[j] = inst[j]
  BY <1>1, <1>2
<1>4. \A r \in Requests : req'[r] = IF r \in dead THEN Answered ELSE req[r]
  BY <1>1
<1>5. req' \in [Requests -> Request] /\ faults' \in Nat
  BY <1>1, NewRequestType DEF TypeOK
<1>6. RequestsSound'
  BY <1>1, <1>4, NewRequestType DEF RequestsSound, Sound, TypeOK
<1>7. ASSUME NEW j \in Instances
      PROVE  /\ IsFiniteSet(HeldBy(j))'
             /\ inst'[j].bodies = Cardinality(HeldBy(j)') /\ inst'[j].bodies <= MaxBodies
  <2>1. CASE j = i
    <3>1. \A r \in Requests : req[r].held => req[r].pc \notin {"new", "done"}
      BY DEF RequestsSound, Sound
    <3>2. HeldBy(i)' = {}
      BY <1>4, <3>1, NewRequestType DEF HeldBy, Running
    <3> QED BY <1>3, <2>1, <3>2, FS_EmptySet, WindowsAreNumbers
  <2>2. CASE j # i
    <3>1. HeldBy(j)' = HeldBy(j)
      BY <1>4, <2>2, NewRequestType DEF HeldBy
    <3> QED BY <1>3, <2>2, <3>1 DEF Slots
  <2> QED BY <2>1, <2>2
<1>8. again \subseteq again' /\ again' \in SUBSET Windows
  BY <1>1, RequestFields DEF TypeOK
<1>9. ASSUME NEW r \in Requests
      PROVE  /\ Sending(req'[r]) => req'[r] = req[r]
             /\ Sending(req[r]) /\ ~Sending(req'[r]) => req[r].window \in again'
  BY <1>1, <1>4, NewRequestType DEF Sending
<1> QED BY <1>1, <1>3, <1>5, <1>6, <1>7, <1>8, <1>9 DEF Slots

-----------------------------------------------------------------------------
(* Usage. *)

Accounted == NoOtherUsageIsLost /\ Carried /\ Once

\* The amounts are numbers.
LEMMA Amounts ==
    ASSUME TypeOK, NEW w \in Windows, NEW o \in Orgs
    PROVE  /\ owed[w][o] \in Nat /\ billed[w][o] \in Nat /\ excused[w][o] \in Nat
           /\ count[w].per[o] \in Nat /\ \A r \in Requests : req[r].reply[o] \in Nat
  BY RequestFields DEF TypeOK, PerOrg

\* A window is being sent by whoever sends for it.
LEMMA BeingSentBy ==
    /\ \A w : BeingSent(w) <=> \E r \in Requests : SendsFor(req[r], w)
    /\ \A w : BeingSent(w)' <=> \E r \in Requests : SendsFor(req'[r], w)
  BY DEF BeingSent, SendsFor, Sending

\* No amount changes and no window gets a sender; one that loses it may go out again.
LEMMA QuietAccounts ==
    ASSUME TypeOK, Accounted, UNCHANGED <<count, billed, owed, excused>>, again \subseteq again',
           \A r \in Requests :
             /\ Sending(req'[r]) =>
                  /\ Sending(req[r]) /\ req'[r].window = req[r].window
                  /\ req'[r].reply = req[r].reply /\ req'[r].sent = req[r].sent
             /\ Sending(req[r]) /\ ~Sending(req'[r]) => req[r].window \in again'
    PROVE  Accounted'
<1>1. NoOtherUsageIsLost'
  BY DEF Accounted, NoOtherUsageIsLost
<1>2. \A r \in Requests : \A w : SendsFor(req'[r], w) =>
        SendsFor(req[r], w) /\ req'[r].reply = req[r].reply /\ req'[r].sent = req[r].sent
  BY DEF SendsFor
<1>3. Carried'
  BY <1>2 DEF Accounted, Carried
<1>4. OneSender'
  BY <1>2 DEF Accounted, Once, OneSender
<1>5. Waiting'
  <2>1. \A w \in Windows \ again' : ~BeingSent(w)' => ~BeingSent(w)
    BY BeingSentBy DEF SendsFor
  <2> QED BY <2>1 DEF Accounted, Once, Waiting
<1>6. ToSend'
  BY <1>2 DEF Accounted, Once, ToSend
<1> QED BY <1>1, <1>3, <1>4, <1>5, <1>6 DEF Accounted, Once

\* Who sends what stays as it was.
SameSenders ==
    \A r \in Requests :
        /\ Sending(req'[r]) <=> Sending(req[r])
        /\ Sending(req[r]) => req'[r] = req[r]

\* Then whoever sent a window sends it still, and nobody else does.
LEMMA SameSendersSame ==
    ASSUME SameSenders
    PROVE  /\ \A r \in Requests : \A w :
                /\ SendsFor(req'[r], w) <=> SendsFor(req[r], w)
                /\ SendsFor(req[r], w) => req'[r].reply = req[r].reply /\ req'[r].sent = req[r].sent
           /\ \A w : BeingSent(w)' <=> BeingSent(w)
<1>1. \A r \in Requests : \A w :
        /\ SendsFor(req'[r], w) <=> SendsFor(req[r], w)
        /\ SendsFor(req[r], w) => req'[r].reply = req[r].reply /\ req'[r].sent = req[r].sent
  BY DEF SameSenders, SendsFor
<1> QED BY <1>1, BeingSentBy

\* A request is counted: it is owed, and excused when the window is on its way (ADD).
LEMMA AddAccounts ==
    ASSUME TypeOK, Accounted, SameSenders, UNCHANGED <<billed, again>>,
           NEW w \in Windows, NEW o \in Orgs,
           \A v \in Windows, p \in Orgs :
             LET more == IF v = w /\ p = o THEN 1 ELSE 0 IN
             /\ owed'[v][p] = owed[v][p] + more
             /\ count'[v].per[p] = count[v].per[p] + more
             /\ excused'[v][p] = excused[v][p] + (IF BeingSent(w) THEN more ELSE 0)
    PROVE  Accounted'
<1>1. ASSUME NEW v \in Windows, NEW p \in Orgs
      PROVE  LET more == IF v = w /\ p = o THEN 1 ELSE 0 IN
             /\ owed'[v][p] = owed[v][p] + more /\ billed'[v][p] = billed[v][p]
             /\ count'[v].per[p] = count[v].per[p] + more
             /\ excused'[v][p] = excused[v][p] + (IF BeingSent(w) THEN more ELSE 0)
             /\ owed[v][p] \in Nat /\ billed[v][p] \in Nat /\ excused[v][p] \in Nat
             /\ count[v].per[p] \in Nat /\ \A r \in Requests : req[r].reply[p] \in Nat
  BY <1>1, Amounts
<1>2. NoOtherUsageIsLost'
  BY <1>1 DEF Accounted, NoOtherUsageIsLost
<1>3. Carried'
  <2> SUFFICES ASSUME NEW v \in Windows, NEW p \in Orgs, NEW r \in Requests, SendsFor(req'[r], v)
               PROVE  owed'[v][p] <= billed'[v][p] + excused'[v][p]
                                     + (IF p \in req'[r].sent THEN 0 ELSE req'[r].reply[p])
    BY DEF Carried
  <2>1. /\ SendsFor(req[r], v) /\ BeingSent(v)
        /\ req'[r].reply = req[r].reply /\ req'[r].sent = req[r].sent
    BY SameSendersSame, BeingSentBy
  <2>2. owed[v][p] <= billed[v][p] + excused[v][p]
                      + (IF p \in req[r].sent THEN 0 ELSE req[r].reply[p])
    BY <2>1 DEF Accounted, Carried
  <2> QED BY <1>1, <2>1, <2>2
<1>4. OneSender'
  BY SameSendersSame DEF Accounted, Once, OneSender
<1>5. Waiting'
  BY <1>1, SameSendersSame DEF Accounted, Once, Waiting
<1>6. ToSend'
  <2> SUFFICES ASSUME NEW v \in Windows \ again, NEW p \in Orgs, NEW r \in Requests,
                      SendsFor(req'[r], v)
               PROVE  IF p \in req'[r].sent THEN billed'[v][p] <= owed'[v][p]
                      ELSE /\ billed'[v][p] + count'[v].per[p] <= owed'[v][p]
                           /\ billed'[v][p] + req'[r].reply[p] <= owed'[v][p]
    BY DEF ToSend
  <2>1. SendsFor(req[r], v) /\ req'[r].reply = req[r].reply /\ req'[r].sent = req[r].sent
    BY SameSendersSame
  <2>2. IF p \in req[r].sent THEN billed[v][p] <= owed[v][p]
        ELSE /\ billed[v][p] + count[v].per[p] <= owed[v][p]
             /\ billed[v][p] + req[r].reply[p] <= owed[v][p]
    BY <2>1 DEF Accounted, Once, ToSend
  <2> QED BY <1>1, <2>1, <2>2
<1> QED BY <1>2, <1>3, <1>4, <1>5, <1>6 DEF Accounted, Once

\* The keys of a window expire: what they counted is excused.
LEMMA ExpireAccounts ==
    ASSUME TypeOK, Accounted, SameSenders, UNCHANGED <<billed, owed, again>>, NEW w \in Windows,
           \A v \in Windows, p \in Orgs :
             /\ count'[v].per[p] = IF v = w THEN 0 ELSE count[v].per[p]
             /\ excused'[v][p] = excused[v][p] + (IF v = w THEN count[v].per[p] ELSE 0)
    PROVE  Accounted'
<1>1. ASSUME NEW v \in Windows, NEW p \in Orgs
      PROVE  /\ count'[v].per[p] = IF v = w THEN 0 ELSE count[v].per[p]
             /\ excused'[v][p] = excused[v][p] + (IF v = w THEN count[v].per[p] ELSE 0)
             /\ owed'[v][p] = owed[v][p] /\ billed'[v][p] = billed[v][p]
             /\ owed[v][p] \in Nat /\ billed[v][p] \in Nat /\ excused[v][p] \in Nat
             /\ count[v].per[p] \in Nat /\ \A r \in Requests : req[r].reply[p] \in Nat
  BY <1>1, Amounts
<1>2. NoOtherUsageIsLost'
  BY <1>1 DEF Accounted, NoOtherUsageIsLost
<1>3. Carried'
  <2> SUFFICES ASSUME NEW v \in Windows, NEW p \in Orgs, NEW r \in Requests, SendsFor(req'[r], v)
               PROVE  owed'[v][p] <= billed'[v][p] + excused'[v][p]
                                     + (IF p \in req'[r].sent THEN 0 ELSE req'[r].reply[p])
    BY DEF Carried
  <2>1. SendsFor(req[r], v) /\ req'[r].reply = req[r].reply /\ req'[r].sent = req[r].sent
    BY SameSendersSame
  <2>2. owed[v][p] <= billed[v][p] + excused[v][p]
                      + (IF p \in req[r].sent THEN 0 ELSE req[r].reply[p])
    BY <2>1 DEF Accounted, Carried
  <2> QED BY <1>1, <2>1, <2>2
<1>4. OneSender'
  BY SameSendersSame DEF Accounted, Once, OneSender
<1>5. Waiting'
  BY <1>1, SameSendersSame DEF Accounted, Once, Waiting
<1>6. ToSend'
  <2> SUFFICES ASSUME NEW v \in Windows \ again, NEW p \in Orgs, NEW r \in Requests,
                      SendsFor(req'[r], v)
               PROVE  IF p \in req'[r].sent THEN billed'[v][p] <= owed'[v][p]
                      ELSE /\ billed'[v][p] + count'[v].per[p] <= owed'[v][p]
                           /\ billed'[v][p] + req'[r].reply[p] <= owed'[v][p]
    BY DEF ToSend
  <2>1. SendsFor(req[r], v) /\ req'[r].reply = req[r].reply /\ req'[r].sent = req[r].sent
    BY SameSendersSame
  <2>2. IF p \in req[r].sent THEN billed[v][p] <= owed[v][p]
        ELSE /\ billed[v][p] + count[v].per[p] <= owed[v][p]
             /\ billed[v][p] + req[r].reply[p] <= owed[v][p]
    BY <2>1 DEF Accounted, Once, ToSend
  <2> QED BY <1>1, <2>1, <2>2
<1> QED BY <1>2, <1>3, <1>4, <1>5, <1>6 DEF Accounted, Once

\* Only request r changes.
Becomes(r, q) == req'[r] = q /\ \A s \in Requests \ {r} : req'[s] = req[s]

\* A window is claimed and read, by its only sender or to go out again.
LEMMA ClaimAccounts ==
    ASSUME TypeOK, Accounted, NEW r \in Requests, NEW q, NEW w \in Windows, Becomes(r, q),
           ~Sending(req[r]), SendsFor(q, w), q.reply = count[w].per, q.sent = {},
           UNCHANGED <<count, billed, owed, excused>>,
           again' = IF BeingSent(w) THEN again \union {w} ELSE again
    PROVE  Accounted'
<1>1. \A s \in Requests : \A v :
        SendsFor(req'[s], v) => (s = r /\ v = w) \/ (s # r /\ SendsFor(req[s], v))
  BY DEF Becomes, SendsFor
<1>2. \A s \in Requests \ {r} : req'[s] = req[s]
  BY DEF Becomes
<1>3. \A v : BeingSent(v) => BeingSent(v)'
  BY BeingSentBy DEF Becomes, SendsFor
<1>4. NoOtherUsageIsLost'
  BY DEF Accounted, NoOtherUsageIsLost
<1>5. Carried'
  <2> SUFFICES ASSUME NEW v \in Windows, NEW p \in Orgs, NEW s \in Requests, SendsFor(req'[s], v)
               PROVE  owed[v][p] <= billed[v][p] + excused[v][p]
                                    + (IF p \in req'[s].sent THEN 0 ELSE req'[s].reply[p])
    BY DEF Carried
  <2>1. CASE s = r /\ v = w
    <3>1. req'[s].sent = {} /\ req'[s].reply[p] = count[v].per[p]
      BY <2>1 DEF Becomes
    <3>2. owed[v][p] <= billed[v][p] + count[v].per[p] + excused[v][p]
      BY DEF Accounted, NoOtherUsageIsLost
    <3> QED BY <3>1, <3>2, Amounts
  <2>2. CASE s # r /\ SendsFor(req[s], v)
    BY <1>2, <2>2 DEF Accounted, Carried
  <2> QED BY <1>1, <2>1, <2>2
<1>6. \A v \in Windows \ again' :
        v \in Windows \ again /\ (v = w => \A s \in Requests : ~SendsFor(req[s], v))
  BY BeingSentBy
<1>7. OneSender'
  BY <1>1, <1>6 DEF Accounted, Once, OneSender
<1>8. Waiting'
  BY <1>3, <1>6 DEF Accounted, Once, Waiting
<1>9. ToSend'
  <2> SUFFICES ASSUME NEW v \in Windows \ again', NEW p \in Orgs, NEW s \in Requests,
                      SendsFor(req'[s], v)
               PROVE  IF p \in req'[s].sent THEN billed[v][p] <= owed[v][p]
                      ELSE /\ billed[v][p] + count[v].per[p] <= owed[v][p]
                           /\ billed[v][p] + req'[s].reply[p] <= owed[v][p]
    BY DEF ToSend
  <2>1. CASE s = r /\ v = w
    <3>1. req'[s].sent = {} /\ req'[s].reply[p] = count[v].per[p]
      BY <2>1 DEF Becomes
    <3>2. v \in Windows \ again /\ ~BeingSent(v)
      BY <1>6, <2>1, BeingSentBy
    <3>3. billed[v][p] + count[v].per[p] <= owed[v][p]
      BY <3>2 DEF Accounted, Once, Waiting
    <3> QED BY <3>1, <3>3
  <2>2. CASE s # r /\ SendsFor(req[s], v)
    BY <1>2, <1>6, <2>2 DEF Accounted, Once, ToSend
  <2> QED BY <1>1, <2>1, <2>2
<1> QED BY <1>4, <1>5, <1>7, <1>8, <1>9 DEF Accounted, Once

\* A batch is stored: it is known to be sent, or the window may go out again.
LEMMA SendAccounts ==
    ASSUME TypeOK, Accounted, NEW r \in Requests, NEW q, Becomes(r, q), Keeps(r, q),
           NEW w \in Windows, w = req[r].window, NEW o \in Orgs, o \notin req[r].sent,
           UNCHANGED <<count, owed, excused>>,
           \A v \in Windows, p \in Orgs :
             billed'[v][p] = billed[v][p] + (IF v = w /\ p = o THEN req[r].reply[o] ELSE 0),
           \/ again' = again /\ q.sent = req[r].sent \union {o}
           \/ again' = again \union {w} /\ q.sent = req[r].sent
    PROVE  Accounted'
<1>1. ASSUME NEW v \in Windows, NEW p \in Orgs
      PROVE  /\ billed'[v][p] = billed[v][p] + (IF v = w /\ p = o THEN req[r].reply[o] ELSE 0)
             /\ owed[v][p] \in Nat /\ billed[v][p] \in Nat /\ excused[v][p] \in Nat
             /\ count[v].per[p] \in Nat /\ \A s \in Requests : req[s].reply[p] \in Nat
  BY <1>1, Amounts
<1>2. \A s \in Requests : \A v : SendsFor(req'[s], v) <=> SendsFor(req[s], v)
  BY DEF Becomes, Keeps, SendsFor
<1>3. /\ \A s \in Requests : req'[s].reply = req[s].reply \/ ~Sending(req[s])
      /\ \A s \in Requests \ {r} : req'[s] = req[s]
      /\ req'[r] = q /\ q.reply = req[r].reply /\ SendsFor(req[r], w)
  BY DEF Becomes, Keeps, SendsFor
<1>4. \A v : BeingSent(v)' <=> BeingSent(v)
  BY <1>2, BeingSentBy
<1>5. NoOtherUsageIsLost'
  <2> SUFFICES ASSUME NEW v \in Windows, NEW p \in Orgs
               PROVE  owed[v][p] <= billed'[v][p] + count[v].per[p] + excused[v][p]
    BY DEF NoOtherUsageIsLost
  <2>1. owed[v][p] <= billed[v][p] + count[v].per[p] + excused[v][p]
    BY DEF Accounted, NoOtherUsageIsLost
  <2> QED BY <1>1, <2>1
<1>6. Carried'
  <2> SUFFICES ASSUME NEW v \in Windows, NEW p \in Orgs, NEW s \in Requests, SendsFor(req'[s], v)
               PROVE  owed[v][p] <= billed'[v][p] + excused[v][p]
                                    + (IF p \in req'[s].sent THEN 0 ELSE req'[s].reply[p])
    BY DEF Carried
  <2>1. owed[v][p] <= billed[v][p] + excused[v][p]
                      + (IF p \in req[s].sent THEN 0 ELSE req[s].reply[p])
    BY <1>2 DEF Accounted, Carried
  <2>2. CASE s = r
    <3>1. v = w
      BY <1>2, <2>2 DEF SendsFor
    <3>2. CASE p = o
      BY <1>1, <1>3, <2>1, <2>2, <3>1, <3>2
    <3>3. CASE p # o
      BY <1>1, <1>3, <2>1, <2>2, <3>1, <3>3
    <3> QED BY <3>2, <3>3
  <2>3. CASE s # r
    BY <1>1, <1>3, <2>1, <2>3
  <2> QED BY <2>2, <2>3
<1>7. \A v \in Windows \ again' : v \in Windows \ again
  OBVIOUS
<1>8. OneSender'
  BY <1>2, <1>7 DEF Accounted, Once, OneSender
<1>9. Waiting'
  <2> SUFFICES ASSUME NEW v \in Windows \ again', NEW p \in Orgs, ~BeingSent(v)'
               PROVE  billed'[v][p] + count[v].per[p] <= owed[v][p]
    BY DEF Waiting
  <2>1. v # w
    BY <1>3, <1>4, BeingSentBy
  <2>2. billed[v][p] + count[v].per[p] <= owed[v][p]
    BY <1>4, <1>7 DEF Accounted, Once, Waiting
  <2> QED BY <1>1, <2>1, <2>2
<1>10. ToSend'
  <2> SUFFICES ASSUME NEW v \in Windows \ again', NEW p \in Orgs, NEW s \in Requests,
                      SendsFor(req'[s], v)
               PROVE  IF p \in req'[s].sent THEN billed'[v][p] <= owed[v][p]
                      ELSE /\ billed'[v][p] + count[v].per[p] <= owed[v][p]
                           /\ billed'[v][p] + req'[s].reply[p] <= owed[v][p]
    BY DEF ToSend
  <2>1. IF p \in req[s].sent THEN billed[v][p] <= owed[v][p]
        ELSE /\ billed[v][p] + count[v].per[p] <= owed[v][p]
             /\ billed[v][p] + req[s].reply[p] <= owed[v][p]
    BY <1>2, <1>7 DEF Accounted, Once, ToSend
  <2>2. CASE v = w
    <3>1. s = r
      BY <1>2, <1>3, <1>7, <2>2 DEF Accounted, Once, OneSender
    <3>2. again' = again /\ q.sent = req[r].sent \union {o}
      BY <2>2
    <3>3. CASE p = o
      BY <1>1, <1>3, <2>1, <2>2, <3>1, <3>2, <3>3
    <3>4. CASE p # o
      BY <1>1, <1>3, <2>1, <2>2, <3>1, <3>2, <3>4
    <3> QED BY <3>3, <3>4
  <2>3. CASE v # w
    <3>1. s # r
      BY <1>2, <1>3, <2>3 DEF SendsFor
    <3> QED BY <1>1, <1>3, <2>1, <2>3, <3>1
  <2> QED BY <2>2, <2>3
<1> QED BY <1>5, <1>6, <1>8, <1>9, <1>10 DEF Accounted, Once

\* The acknowledgement deletes what was sent, with all that was counted since.
LEMMA AckAccounts ==
    ASSUME TypeOK, Accounted, NEW r \in Requests, NEW q, Becomes(r, q), ~Sending(q),
           NEW w \in Windows, SendsFor(req[r], w), UNCHANGED <<billed, owed, excused, again>>,
           \A v \in Windows, p \in Orgs :
             count'[v].per[p] = IF v = w /\ p \in req[r].sent THEN 0 ELSE count[v].per[p]
    PROVE  Accounted'
<1>1. ASSUME NEW v \in Windows, NEW p \in Orgs
      PROVE  /\ count'[v].per[p] = IF v = w /\ p \in req[r].sent THEN 0 ELSE count[v].per[p]
             /\ owed[v][p] \in Nat /\ billed[v][p] \in Nat /\ excused[v][p] \in Nat
             /\ count[v].per[p] \in Nat
  BY <1>1, Amounts
<1>2. \A s \in Requests : \A v : SendsFor(req'[s], v) => s # r /\ req'[s] = req[s]
  BY DEF Becomes, SendsFor
<1>3. NoOtherUsageIsLost'
  <2> SUFFICES ASSUME NEW v \in Windows, NEW p \in Orgs
               PROVE  owed[v][p] <= billed[v][p] + count'[v].per[p] + excused[v][p]
    BY DEF NoOtherUsageIsLost
  <2>1. CASE v = w /\ p \in req[r].sent
    <3>1. owed[v][p] <= billed[v][p] + excused[v][p] + 0
      BY <2>1 DEF Accounted, Carried
    <3> QED BY <1>1, <2>1, <3>1
  <2>2. CASE ~(v = w /\ p \in req[r].sent)
    BY <1>1, <2>2 DEF Accounted, NoOtherUsageIsLost
  <2> QED BY <2>1, <2>2
<1>4. Carried'
  BY <1>2 DEF Accounted, Carried
<1>5. OneSender'
  BY <1>2 DEF Accounted, Once, OneSender
<1>6. Waiting'
  <2> SUFFICES ASSUME NEW v \in Windows \ again, NEW p \in Orgs, ~BeingSent(v)'
               PROVE  billed[v][p] + count'[v].per[p] <= owed[v][p]
    BY DEF Waiting
  <2>1. CASE v = w
    <3>1. IF p \in req[r].sent THEN billed[v][p] <= owed[v][p]
          ELSE billed[v][p] + count[v].per[p] <= owed[v][p]
      BY <2>1 DEF Accounted, Once, ToSend
    <3> QED BY <1>1, <2>1, <3>1
  <2>2. CASE v # w
    <3>1. ~BeingSent(v)
      BY <2>2, BeingSentBy DEF Becomes, SendsFor
    <3> QED BY <1>1, <2>2, <3>1 DEF Accounted, Once, Waiting
  <2> QED BY <2>1, <2>2
<1>7. ToSend'
  <2> SUFFICES ASSUME NEW v \in Windows \ again, NEW p \in Orgs, NEW s \in Requests,
                      SendsFor(req'[s], v)
               PROVE  IF p \in req'[s].sent THEN billed[v][p] <= owed[v][p]
                      ELSE /\ billed[v][p] + count'[v].per[p] <= owed[v][p]
                           /\ billed[v][p] + req'[s].reply[p] <= owed[v][p]
    BY DEF ToSend
  <2>1. IF p \in req[s].sent THEN billed[v][p] <= owed[v][p]
        ELSE /\ billed[v][p] + count[v].per[p] <= owed[v][p]
             /\ billed[v][p] + req[s].reply[p] <= owed[v][p]
    BY <1>2 DEF Accounted, Once, ToSend
  <2> QED BY <1>1, <1>2, <2>1
<1> QED BY <1>3, <1>4, <1>5, <1>6, <1>7 DEF Accounted, Once

-----------------------------------------------------------------------------
(* Invariance. *)

\* Nothing is counted and nothing is in progress at the start.
LEMMA InitInv == Init => IInv
<1> SUFFICES ASSUME Init PROVE IInv
  OBVIOUS
<1>1. /\ req = [r \in Requests |-> NewRequest] /\ now = 0 /\ again = {} /\ faults = 0 /\ open = {}
      /\ inst = [i \in Instances |-> [bodies |-> 0, next |-> 0]]
      /\ count = [w \in Windows |-> [per |-> [o \in Orgs |-> 0], until |-> 0]]
      /\ lock = [w \in Windows |-> 0] /\ billed = Zero /\ owed = Zero /\ excused = Zero
  BY DEF Init
<1>2. TypeOK
  BY <1>1, NewRequestType DEF TypeOK, Zero, PerOrg
<1>3. \A r \in Requests : req[r].pc = "new" /\ ~req[r].held /\ req[r].at = 0
  BY <1>1, NewRequestType
<1>4. RequestsSound
  BY <1>1, <1>3, WindowsAreNumbers DEF RequestsSound, Sound
<1>5. Slots
  <2> SUFFICES ASSUME NEW i \in Instances
               PROVE  /\ IsFiniteSet(HeldBy(i)) /\ inst[i].bodies = Cardinality(HeldBy(i))
                      /\ inst[i].bodies <= MaxBodies
    BY DEF Slots
  <2>1. HeldBy(i) = {} /\ inst[i].bodies = 0
    BY <1>1, <1>3 DEF HeldBy
  <2> QED BY <2>1, FS_EmptySet, WindowsAreNumbers
<1>6. \A w \in Windows, o \in Orgs :
        owed[w][o] = 0 /\ billed[w][o] = 0 /\ excused[w][o] = 0 /\ count[w].per[o] = 0
  BY <1>1 DEF Zero
<1>7. \A r \in Requests : \A w : ~SendsFor(req[r], w)
  BY <1>3 DEF SendsFor, Sending
<1>8. NoOtherUsageIsLost /\ Carried /\ Once
  BY <1>6, <1>7, SMTT(30) DEF NoOtherUsageIsLost, Carried, Once, OneSender, Waiting, ToSend
<1> QED BY <1>2, <1>4, <1>5, <1>8 DEF IInv

\* A quiet step of a request.
LEMMA QuietStep ==
    ASSUME IInv, NEW r \in Requests, NEW q, Quietly(r, q), faults' \in Nat
    PROVE  IInv'
<1>1. /\ req' \in [Requests -> Request] /\ inst' \in [Instances -> InstanceRec]
      /\ now' = now /\ RequestsSound' /\ Slots'
  BY MoveKeepsSlots DEF IInv, Quietly
<1>2. TypeOK'
  BY <1>1 DEF IInv, TypeOK, Quietly, usage, history, InstanceRec
<1>3. \A s \in Requests :
        /\ Sending(req'[s]) => Sending(req[s]) /\ req'[s] = req[s]
        /\ Sending(req[s]) => Sending(req'[s])
  BY DEF Quietly, MovesTo, IInv, TypeOK
<1>4. Accounted'
  BY <1>3, QuietAccounts DEF IInv, Accounted, Quietly, usage, history
<1> QED BY <1>1, <1>2, <1>4 DEF IInv, Accounted

\* The usage of a request is added.
LEMMA AddStep ==
    ASSUME IInv, NEW r \in Requests, Add(r)
    PROVE  IInv'
<1> DEFINE p == req[r]
           w == WindowOf(p.at)
<1>1. /\ p.pc = "add"
      /\ count' = [count EXCEPT ![w].per[p.org] = @ + 1, ![w].until = now + Keep]
      /\ open' = open \union {w} /\ owed' = More(owed, w, p.org)
      /\ excused' = IF BeingSent(w) THEN More(excused, w, p.org) ELSE excused
      /\ Check(r) /\ UNCHANGED <<now, lock, billed, again, faults>>
  BY DEF Add
<1>2. PICK q : MovesTo(r, q) /\ ~Sending(q)
  BY <1>1, CheckStep DEF IInv
<1>3. /\ req' \in [Requests -> Request] /\ inst' \in [Instances -> InstanceRec]
      /\ now' = now /\ RequestsSound' /\ Slots'
  BY <1>2, MoveKeepsSlots DEF IInv
<1>4. p.at \in Nat /\ p.at <= MaxTime /\ p.org \in Orgs /\ now + Keep \in Nat
  BY <1>1, RequestFields, WindowsAreNumbers, SMTT(30) DEF IInv, RequestsSound, Sound, TypeOK
<1>5. w \in Windows
  BY <1>4, WindowOfType
<1>6. ~Sending(p)
  BY <1>1 DEF Sending
<1> HIDE DEF w, p
<1>7. count \in [Windows -> WindowCount] /\ owed \in PerOrg /\ excused \in PerOrg
  BY DEF IInv, TypeOK, WindowCount
<1>8. /\ count' \in [Windows -> WindowCount]
      /\ \A v \in Windows, o \in Orgs :
           count'[v].per[o] = count[v].per[o] + (IF v = w /\ o = p.org THEN 1 ELSE 0)
  <2>1. count' = Counted(count, w, p.org, now + Keep)
    BY <1>1 DEF Counted
  <2> QED BY <1>4, <1>5, <1>7, <2>1, CountMoreSpec
<1>9. /\ owed' \in PerOrg
      /\ \A v \in Windows, o \in Orgs :
           owed'[v][o] = owed[v][o] + (IF v = w /\ o = p.org THEN 1 ELSE 0)
  BY <1>1, <1>4, <1>5, <1>7, MoreSpec
<1>10. /\ excused' \in PerOrg
       /\ \A v \in Windows, o \in Orgs :
            excused'[v][o] = excused[v][o]
                + (IF BeingSent(w) THEN (IF v = w /\ o = p.org THEN 1 ELSE 0) ELSE 0)
  <2>1. \A v \in Windows, o \in Orgs : excused[v][o] \in Nat
    BY <1>7 DEF PerOrg
  <2>2. CASE BeingSent(w)
    BY <1>1, <1>4, <1>5, <1>7, <2>2, MoreSpec
  <2>3. CASE ~BeingSent(w)
    BY <1>1, <1>7, <2>1, <2>3
  <2> QED BY <2>2, <2>3
<1>11. TypeOK'
  <2>1. open' \in SUBSET Windows
    BY <1>1, <1>5 DEF IInv, TypeOK
  <2> QED BY <1>1, <1>3, <1>8, <1>9, <1>10, <2>1 DEF IInv, TypeOK, InstanceRec, WindowCount
<1>12. SameSenders
  BY <1>2, <1>6 DEF SameSenders, MovesTo, IInv, TypeOK, p
<1>13. \A v \in Windows, o \in Orgs :
         LET more == IF v = w /\ o = p.org THEN 1 ELSE 0 IN
         /\ owed'[v][o] = owed[v][o] + more
         /\ count'[v].per[o] = count[v].per[o] + more
         /\ excused'[v][o] = excused[v][o] + (IF BeingSent(w) THEN more ELSE 0)
  BY <1>8, <1>9, <1>10
<1>14. Accounted'
  <2>1. TypeOK /\ Accounted /\ UNCHANGED <<billed, again>>
    BY <1>1 DEF IInv, Accounted
  <2> QED BY <1>4, <1>5, <1>12, <1>13, <2>1, AddAccounts
<1> QED BY <1>3, <1>11, <1>14 DEF IInv, Accounted

\* A request that moves is the only one.
LEMMA MovesToBecomes ==
    ASSUME TypeOK, NEW r \in Requests, NEW q, MovesTo(r, q)
    PROVE  Becomes(r, q)
  BY DEF MovesTo, Becomes, TypeOK

\* A window is claimed.
LEMMA ClaimInv ==
    ASSUME IInv, NEW r \in Requests, Claim(r)
    PROVE  IInv'
<1> DEFINE w == req[r].window
<1>1. CASE lock[w] > now
  BY <1>1, IdleStep, QuietStep DEF IInv
<1>2. CASE ~(lock[w] > now)
  <2>1. /\ w \in Windows /\ ~Sending(req[r]) /\ UNCHANGED <<open, count, billed, owed, excused, faults>>
        /\ lock' \in [Windows -> Nat]
        /\ again' = IF BeingSent(w) THEN again \union {w} ELSE again
        /\ \E q : MovesTo(r, q) /\ SendsFor(q, w) /\ q.reply = count[w].per /\ q.sent = {}
    BY <1>2, ClaimStep DEF IInv
  <2> HIDE DEF w
  <2>2. PICK q : MovesTo(r, q) /\ SendsFor(q, w) /\ q.reply = count[w].per /\ q.sent = {}
    BY <2>1
  <2>3. /\ req' \in [Requests -> Request] /\ inst' \in [Instances -> InstanceRec]
        /\ now' = now /\ RequestsSound' /\ Slots'
    BY <2>2, MoveKeepsSlots DEF IInv
  <2>4. again' \in SUBSET Windows
    BY <2>1 DEF IInv, TypeOK
  <2>5. TypeOK'
    BY <2>1, <2>3, <2>4 DEF IInv, TypeOK, InstanceRec
  <2>6. Becomes(r, q)
    BY <2>2, MovesToBecomes DEF IInv
  <2>7. Accounted'
    BY <2>1, <2>2, <2>6, ClaimAccounts DEF IInv, Accounted
  <2> QED BY <2>3, <2>5, <2>7 DEF IInv, Accounted
<1> QED BY <1>1, <1>2

\* A batch is stored, with its answer or without.
LEMMA BillInv ==
    ASSUME IInv, NEW r \in Requests, NEW q, NEW o \in Unsent(r), Bill(r, o), MovesTo(r, q),
           Keeps(r, q), UNCHANGED <<usage, owed, excused>>, faults' \in Nat,
           \/ again' = again /\ q.sent = req[r].sent \union {o}
           \/ again' = again \union {req[r].window} /\ q.sent = req[r].sent
    PROVE  IInv'
<1> DEFINE w == req[r].window
<1>1. /\ req' \in [Requests -> Request] /\ inst' \in [Instances -> InstanceRec]
      /\ now' = now /\ RequestsSound' /\ Slots'
  BY MoveKeepsSlots DEF IInv
<1>2. o \in Orgs /\ o \notin req[r].sent /\ w \in Windows
  BY SenderFields DEF Unsent, Keeps, IInv
<1>3. /\ billed' \in PerOrg
      /\ \A v \in Windows, p \in Orgs :
           billed'[v][p] = billed[v][p] + (IF v = w /\ p = o THEN req[r].reply[o] ELSE 0)
  BY <1>2, BillSpec DEF IInv
<1> HIDE DEF w
<1>4. again' \in SUBSET Windows
  BY <1>2 DEF IInv, TypeOK, w
<1>5. TypeOK'
  BY <1>1, <1>3, <1>4 DEF IInv, TypeOK, usage, InstanceRec
<1>6. Becomes(r, q)
  BY MovesToBecomes DEF IInv
<1>7. Accounted'
  BY <1>2, <1>3, <1>6, SendAccounts DEF IInv, Accounted, usage, w
<1> QED BY <1>1, <1>5, <1>7 DEF IInv, Accounted

\* A window is sent, org by org.
LEMMA SendInv ==
    ASSUME IInv, NEW r \in Requests, Send(r) \/ Sent(r) \/ SendFails(r)
    PROVE  IInv'
<1>1. CASE Send(r)
  <2>1. UNCHANGED <<usage, history, faults>> /\ faults \in Nat
    BY <1>1, SendStep DEF IInv, TypeOK
  <2>2. PICK o \in Unsent(r) :
          \E q : Bill(r, o) /\ MovesTo(r, q) /\ Keeps(r, q) /\ q.sent = req[r].sent \union {o}
    BY <1>1, SendStep DEF IInv
  <2>3. PICK q : Bill(r, o) /\ MovesTo(r, q) /\ Keeps(r, q) /\ q.sent = req[r].sent \union {o}
    BY <2>2
  <2> QED BY <2>1, <2>3, BillInv DEF history
<1>2. CASE Sent(r) \/ SendFails(r)
  <2>1. /\ UNCHANGED <<usage, owed, excused>> /\ faults' \in Nat
        /\ \/ UNCHANGED <<billed, again>>
           \/ again' = again \union {req[r].window} /\ \E o \in Unsent(r) : Bill(r, o)
    BY <1>2, SentStep DEF IInv
  <2>2. PICK q : MovesTo(r, q) /\ Keeps(r, q) /\ q.sent = req[r].sent
    BY <1>2, SentStep DEF IInv
  <2>3. CASE UNCHANGED <<billed, again>>
    <3>1. /\ req' \in [Requests -> Request] /\ inst' \in [Instances -> InstanceRec]
          /\ now' = now /\ RequestsSound' /\ Slots'
      BY <2>2, MoveKeepsSlots DEF IInv
    <3>2. TypeOK'
      BY <2>1, <2>3, <3>1 DEF IInv, TypeOK, usage, InstanceRec
    <3>3. Becomes(r, q)
      BY <2>2, MovesToBecomes DEF IInv
    <3>4. Accounted'
      BY <2>1, <2>2, <2>3, <3>3, QuietAccounts DEF IInv, Accounted, usage, Becomes, Keeps
    <3> QED BY <3>1, <3>2, <3>4 DEF IInv, Accounted
  <2>4. CASE again' = again \union {req[r].window} /\ \E o \in Unsent(r) : Bill(r, o)
    BY <2>1, <2>2, <2>4, BillInv
  <2> QED BY <2>1, <2>3, <2>4
<1> QED BY <1>1, <1>2

\* It is acknowledged, or the acknowledgement is lost.
LEMMA AckInv ==
    ASSUME IInv, NEW r \in Requests, Ack(r) \/ AckFails(r)
    PROVE  IInv'
<1> DEFINE w == req[r].window
<1>1. /\ Sending(req[r]) /\ faults' \in Nat /\ UNCHANGED <<billed, owed, excused>>
      /\ \/ UNCHANGED <<usage>> /\ again' = again \union {w}
         \/ again' = again /\ Acknowledge(w, req[r].sent)
  BY AckStep DEF IInv
<1>2. PICK q : MovesTo(r, q) /\ ~Sending(q)
  BY AckStep DEF IInv
<1>3. /\ req' \in [Requests -> Request] /\ inst' \in [Instances -> InstanceRec]
      /\ now' = now /\ RequestsSound' /\ Slots'
  BY <1>2, MoveKeepsSlots DEF IInv
<1>4. Becomes(r, q)
  BY <1>2, MovesToBecomes DEF IInv
<1>5. w \in Windows /\ req[r].sent \in SUBSET Orgs /\ SendsFor(req[r], w)
  BY <1>1, SenderFields DEF IInv, SendsFor
<1>6. CASE UNCHANGED <<usage>> /\ again' = again \union {w}
  <2>1. again' \in SUBSET Windows
    BY <1>5, <1>6 DEF IInv, TypeOK
  <2>2. TypeOK'
    BY <1>1, <1>3, <1>6, <2>1 DEF IInv, TypeOK, usage, InstanceRec
  <2>3. Accounted'
    BY <1>1, <1>2, <1>4, <1>6, QuietAccounts DEF IInv, Accounted, usage, Becomes
  <2> QED BY <1>3, <2>2, <2>3 DEF IInv, Accounted
<1>7. CASE again' = again /\ Acknowledge(w, req[r].sent)
  <2>1. /\ count' \in [Windows -> WindowCount] /\ open' \in SUBSET Windows
        /\ lock' \in [Windows -> Nat]
        /\ \A v \in Windows, o \in Orgs :
             count'[v].per[o] = IF v = w /\ o \in req[r].sent THEN 0 ELSE count[v].per[o]
    BY <1>5, <1>7, AcknowledgeSpec DEF IInv
  <2>2. TypeOK'
    BY <1>1, <1>3, <1>7, <2>1 DEF IInv, TypeOK, InstanceRec, WindowCount
  <2> HIDE DEF w
  <2>3. Accounted'
    BY <1>1, <1>2, <1>4, <1>5, <1>7, <2>1, AckAccounts DEF IInv, Accounted
  <2> QED BY <1>3, <2>2, <2>3 DEF IInv, Accounted
<1> QED BY <1>1, <1>6, <1>7

\* The keys of a window expire.
LEMMA ExpireInv ==
    ASSUME IInv, NEW w \in Windows, Expire(w)
    PROVE  IInv'
<1> DEFINE gone == [o \in Orgs |-> excused[w][o] + count[w].per[o]]
           none == [o \in Orgs |-> 0]
<1>1. /\ excused' = [excused EXCEPT ![w] = gone] /\ count' = [count EXCEPT ![w].per = none]
      /\ UNCHANGED <<now, inst, req, open, lock, billed, owed, again, faults>>
  BY DEF Expire
<1>2. /\ excused \in [Windows -> [Orgs -> Nat]] /\ count \in [Windows -> WindowCount]
      /\ \A o \in Orgs : excused[w][o] \in Nat /\ count[w].per[o] \in Nat
  BY Amounts DEF IInv, TypeOK, PerOrg, WindowCount
<1>3. gone \in [Orgs -> Nat] /\ none \in [Orgs -> Nat]
  BY <1>2
<1>4. /\ \A o \in Orgs : gone[o] = excused[w][o] + count[w].per[o] /\ none[o] = 0
  OBVIOUS
<1> HIDE DEF gone, none
<1>5. /\ excused' \in [Windows -> [Orgs -> Nat]] /\ excused'[w] = gone
      /\ \A v \in Windows \ {w} : excused'[v] = excused[v]
  BY <1>1, <1>2, <1>3
<1>6. /\ count' \in [Windows -> WindowCount] /\ count'[w].per = none
      /\ \A v \in Windows \ {w} : count'[v] = count[v]
  BY <1>1, <1>2, <1>3, CountPerSpec
<1>7. TypeOK'
  BY <1>1, <1>5, <1>6 DEF IInv, TypeOK, PerOrg, WindowCount
<1>8. RequestsSound' /\ Slots' /\ SameSenders
  BY <1>1 DEF IInv, RequestsSound, Sound, Slots, HeldBy, SameSenders
<1>9. \A v \in Windows, o \in Orgs :
        /\ count'[v].per[o] = IF v = w THEN 0 ELSE count[v].per[o]
        /\ excused'[v][o] = excused[v][o] + (IF v = w THEN count[v].per[o] ELSE 0)
  <2> TAKE v \in Windows, o \in Orgs
  <2>1. excused[v][o] \in Nat
    BY <1>2
  <2> QED BY <1>4, <1>5, <1>6, <2>1
<1>10. Accounted'
  BY <1>1, <1>8, <1>9, ExpireAccounts DEF IInv, Accounted
<1> QED BY <1>7, <1>8, <1>10 DEF IInv, Accounted

\* An instance dies.
LEMMA CrashInv ==
    ASSUME IInv, NEW i \in Instances, Crash(i)
    PROVE  IInv'
<1>1. /\ req' \in [Requests -> Request] /\ inst' \in [Instances -> InstanceRec]
      /\ now' = now /\ faults' \in Nat /\ RequestsSound' /\ Slots'
      /\ UNCHANGED <<usage, billed, owed, excused>>
      /\ again \subseteq again' /\ again' \in SUBSET Windows
      /\ \A r \in Requests :
           /\ Sending(req'[r]) => req'[r] = req[r]
           /\ Sending(req[r]) /\ ~Sending(req'[r]) => req[r].window \in again'
  BY CrashKeepsSlots DEF IInv
<1>2. TypeOK'
  BY <1>1 DEF IInv, TypeOK, usage, InstanceRec
<1>3. \A r \in Requests : Sending(req'[r]) => Sending(req[r])
  BY <1>1
<1>4. Accounted'
  BY <1>1, <1>3, QuietAccounts DEF IInv, Accounted, usage
<1> QED BY <1>1, <1>2, <1>4 DEF IInv, Accounted

\* Time passes, or nothing does.
LEMMA TickInv ==
    ASSUME IInv, Tick \/ UNCHANGED vars
    PROVE  IInv'
<1>1. /\ UNCHANGED <<inst, req, usage, billed, history, faults>>
      /\ now' \in Nat /\ now <= now' /\ now' <= MaxTime
  BY WindowsAreNumbers DEF Tick, vars, IInv, TypeOK, RequestsSound
<1>2. TypeOK'
  BY <1>1 DEF IInv, TypeOK, usage, history
<1>3. RequestsSound'
  <2>1. \A r \in Requests : req[r].at \in Nat
    BY RequestFields DEF IInv
  <2> QED BY <1>1, <2>1 DEF IInv, RequestsSound, Sound, TypeOK
<1>4. Slots'
  BY <1>1 DEF IInv, Slots, HeldBy
<1>5. Accounted'
  BY <1>1, QuietAccounts DEF IInv, Accounted, usage, history
<1> QED BY <1>2, <1>3, <1>4, <1>5 DEF IInv, Accounted

\* Every step.
LEMMA StepInv == IInv /\ [Next]_vars => IInv'
<1> SUFFICES ASSUME IInv, [Next]_vars PROVE IInv'
  OBVIOUS
<1>1. ASSUME NEW r \in Requests, ReceiveHttp(r) \/ ReceiveEvents(r) \/ Gate(r)
      PROVE  IInv'
  BY <1>1, ReceiveStep, QuietStep DEF IInv, TypeOK
<1>2. ASSUME NEW r \in Requests, Serve(r)
      PROVE  IInv'
  <2>1. CASE BodyRead(r) \/ BodyCut(r) \/ Undecodable(r)
    BY <2>1, BodyStep, QuietStep DEF IInv, TypeOK
  <2>2. CASE MessageRead(r) \/ ingest(r) \/ accept(r)
    BY <2>2, PathStep, QuietStep DEF IInv, TypeOK
  <2>3. CASE AddFails(r) \/ List(r) \/ FlushFails(r)
    BY <2>3, IdleStep, QuietStep DEF IInv
  <2> QED BY <1>2, <2>1, <2>2, <2>3, AddStep, ClaimInv, SendInv, AckInv DEF Serve
<1> QED BY <1>1, <1>2, ExpireInv, CrashInv, TickInv DEF Next

\* The inductive invariant holds in every state of every behaviour of the gateway.
THEOREM Invariance == Spec => []IInv
  BY InitInv, StepInv, PTL DEF Spec

\* Requests, windows and the ledger have their types, and a window is always one of those
\* the clock can reach (usage.service.ts).
THEOREM TypeCorrect == Spec => []TypeOK
<1>1. IInv => TypeOK
  BY DEF IInv
<1> QED BY <1>1, Invariance, PTL

\* Slots of large bodies neither leak nor are given back twice, whatever the requests and
\* instances (ingress.service.ts).
THEOREM SlotsCounted == Spec => []BodiesAreCounted
<1>1. IInv => BodiesAreCounted
  BY DEF IInv, Slots, HeldBy, BodiesAreCounted
<1> QED BY <1>1, Invariance, PTL

\* Usage is lost only by expiry, or counted into a window on its way (usage.service.ts).
THEOREM UsageKept == Spec => []NoOtherUsageIsLost
<1>1. IInv => NoOtherUsageIsLost
  BY DEF IInv
<1> QED BY <1>1, Invariance, PTL

\* A window goes out once unless its sender died, its answer was lost or its lock lapsed.
THEOREM BilledOnce == Spec => []SentOnce
<1>1. IInv => SentOnce
  <2> SUFFICES ASSUME IInv, NEW w \in Windows \ again, NEW o \in Orgs
               PROVE  billed[w][o] + (IF BeingSent(w) THEN 0 ELSE count[w].per[o]) <= owed[w][o]
    BY DEF SentOnce
  <2>1. billed[w][o] \in Nat /\ count[w].per[o] \in Nat /\ owed[w][o] \in Nat
    BY Amounts DEF IInv
  <2>2. CASE BeingSent(w)
    <3>1. PICK r \in Requests : SendsFor(req[r], w)
      BY <2>2, BeingSentBy
    <3>2. IF o \in req[r].sent THEN billed[w][o] <= owed[w][o]
          ELSE billed[w][o] + count[w].per[o] <= owed[w][o]
      BY <3>1 DEF IInv, Once, ToSend
    <3> QED BY <2>1, <2>2, <3>2
  <2>3. CASE ~BeingSent(w)
    BY <2>3 DEF IInv, Once, Waiting
  <2> QED BY <2>2, <2>3
<1> QED BY <1>1, Invariance, PTL

-----------------------------------------------------------------------------
(* The copy of the keys. *)

\* Versions are stored in the order of the clock.
Ordered ==
    /\ \A v, w \in DOMAIN stored : v <= w => stored[v].at <= stored[w].at
    /\ \A v \in DOMAIN stored : stored[v].at <= clock

\* What a load read was the stored version when it began or came later.
LoadsAreCurrent ==
    \A l \in Loaders : load[l] # NoLoad =>
        /\ load[l].from <= clock
        /\ load[l].got # Unread => CurrentFrom(load[l].got, load[l].from)

\* No check is due later than MaxAge from now; requests are in the past.
Clocked ==
    /\ checkAt <= clock + MaxAge
    /\ \A r \in Lookups : ask[r].at <= clock /\ ask[r].done <= clock /\ ask[r].from <= clock

\* A request that waits knows when the load it waits for began.
KnowsItsLoad ==
    \A r \in Lookups : ask[r].pc = "wait" =>
        load["refresh"] # NoLoad /\ ask[r].from = load["refresh"].from

\* What an answer of version v is checked against.
RecentFor(v, a) == CurrentFrom(v, a.at - MaxAge) \/ CurrentFrom(v, a.from)

KeysInv ==
    /\ KeysTypeOK /\ Ordered /\ LoadsAreCurrent /\ Clocked /\ KnowsItsLoad
    /\ CopyIsAsFreshAsItSays /\ AnswersAreRecent

----------------------------------------------------------------------------
(* CurrentFrom. *)

\* What the type of the versions says of each.
LEMMA Versions ==
    ASSUME KeysTypeOK
    PROVE  /\ Len(stored) \in Nat \ {0} /\ DOMAIN stored = 1 .. Len(stored) /\ clock \in Nat
           /\ \A v \in DOMAIN stored : stored[v] \in Snapshot /\ stored[v].at \in Nat
  <1>1. stored \in Seq(Snapshot) /\ stored # <<>> /\ clock \in Nat
    BY DEF KeysTypeOK
  <1>2. /\ Len(stored) \in Nat \ {0} /\ DOMAIN stored = 1 .. Len(stored)
        /\ \A v \in DOMAIN stored : stored[v] \in Snapshot
    BY <1>1
  <1>3. \A s \in Snapshot : s.at \in Nat
    BY DEF Snapshot
  <1> QED
    BY <1>1, <1>2, <1>3

\* A version that was current from t on was so from any earlier time on.
LEMMA CurrentEarlier ==
    ASSUME KeysTypeOK, NEW v \in DOMAIN stored, NEW t \in Int, NEW u \in Int, u <= t,
           CurrentFrom(v, t)
    PROVE  CurrentFrom(v, u)
  <1>1. CASE v = Len(stored)
    BY <1>1 DEF CurrentFrom
  <1>2. CASE v # Len(stored)
    <2>1. v + 1 \in DOMAIN stored /\ stored[v + 1].at \in Nat
      BY <1>2, Versions
    <2> QED
      BY <1>2, <2>1 DEF CurrentFrom
  <1> QED
    BY <1>1, <1>2

\* So was any newer version.
LEMMA CurrentNewer ==
    ASSUME KeysTypeOK, Ordered, NEW v \in DOMAIN stored, NEW w \in DOMAIN stored, v <= w,
           NEW t \in Int, CurrentFrom(v, t)
    PROVE  CurrentFrom(w, t)
  <1>1. CASE w = Len(stored)
    BY <1>1 DEF CurrentFrom
  <1>2. CASE w # Len(stored)
    <2>1. /\ v + 1 \in DOMAIN stored /\ w + 1 \in DOMAIN stored /\ v + 1 <= w + 1
          /\ stored[v + 1].at \in Nat /\ stored[w + 1].at \in Nat
      BY <1>2, Versions
    <2>2. stored[v + 1].at <= stored[w + 1].at
      BY <2>1 DEF Ordered
    <2>3. stored[v + 1].at >= t
      BY <1>2, Versions DEF CurrentFrom
    <2> QED
      BY <2>1, <2>2, <2>3 DEF CurrentFrom
  <1> QED
    BY <1>1, <1>2

\* Storing a version now takes nothing from what was current in the past.
LEMMA CurrentAfterStore ==
    ASSUME KeysTypeOK, NEW s \in Snapshot, s.at = clock, stored' = Append(stored, s),
           NEW v \in DOMAIN stored, NEW t \in Int, t <= clock, CurrentFrom(v, t)
    PROVE  v \in DOMAIN stored' /\ stored'[v] = stored[v] /\ CurrentFrom(v, t)'
  <1>1. /\ v \in 1 .. Len(stored) /\ Len(stored') = Len(stored) + 1
        /\ DOMAIN stored' = 1 .. Len(stored) + 1 /\ clock \in Nat
        /\ \A w \in 1 .. Len(stored) : stored'[w] = stored[w]
        /\ stored'[Len(stored) + 1] = s
    BY Versions
  <1>2. CASE v = Len(stored)
    <2>1. stored'[v + 1].at >= t
      BY <1>1, <1>2
    <2> QED
      BY <1>1, <2>1 DEF CurrentFrom
  <1>3. CASE v # Len(stored)
    <2>1. v + 1 \in 1 .. Len(stored) /\ stored[v + 1].at >= t
      BY <1>1, <1>3 DEF CurrentFrom
    <2> QED
      BY <1>1, <2>1 DEF CurrentFrom
  <1> QED
    BY <1>2, <1>3

----------------------------------------------------------------------------
(* Types. *)

\* The two ways a request comes to be answered or to wait are well typed.
LEMMA AskTypes ==
    ASSUME KeysTypeOK
    PROVE  /\ NewAsk \in Ask
           /\ \A x \in Secrets, n \in Nat :
                [NewAsk EXCEPT !.at = clock, !.from = n, !.secret = x, !.pc = "wait"] \in Ask
           /\ \A x \in Secrets :
                [NewAsk EXCEPT !.at = clock, !.from = clock, !.secret = x] \in Ask
  <1>1. clock \in Nat
    BY DEF KeysTypeOK
  <1> QED
    BY <1>1 DEF Ask, NewAsk

\* So is the answer.
LEMMA AnswerType ==
    ASSUME KeysTypeOK, current' \in BOOLEAN, NEW a \in Ask, NEW v
    PROVE  AskAnswered(a, v) \in Ask
  <1>1. clock \in Nat
    BY DEF KeysTypeOK
  <1>2. lookup(v, a.secret, a.at) \in BOOLEAN
    BY DEF lookup
  <1> QED
    BY <1>1, <1>2 DEF Ask, AskAnswered

\* A refresh starts now, has read nothing, and leaves the consumer's load.
LEMMA StartType ==
    ASSUME KeysTypeOK, StartRefresh
    PROVE  /\ load' \in [Loaders -> Load]
           /\ \A l \in Loaders : load'[l] = load[l] \/ load'[l] = [from |-> clock, got |-> Unread]
           /\ load'["refresh"] # NoLoad
           /\ load["refresh"] # NoLoad => load'["refresh"] = load["refresh"]
  BY DEF KeysTypeOK, StartRefresh, Refreshing, Load, NoLoad, Loaders, Unread

\* A request waits for the refresh that runs.
LEMMA WaitsForTheRefresh ==
    ASSUME KeysTypeOK, NEW r \in Lookups, NEW x \in Secrets, AskWaits(r, x),
           AskStale(r, x) \/ AskKnown(r, x) \/ AskMissed(r, x)
    PROVE  /\ load'["refresh"] # NoLoad /\ load'["refresh"].from \in Nat
           /\ load["refresh"] # NoLoad => load'["refresh"] = load["refresh"]
  <1>1. CASE StartRefresh
    <2>1. load'["refresh"] \in Load /\ load'["refresh"] # NoLoad
      BY <1>1, StartType DEF Loaders
    <2>2. load'["refresh"].from \in Nat
      BY <2>1 DEF Load
    <2> QED
      BY <1>1, <2>1, <2>2, StartType
  <1>2. CASE load' = load /\ Refreshing
    <2>1. load["refresh"] \in Load /\ load["refresh"] # NoLoad
      BY <1>2 DEF KeysTypeOK, Loaders, Refreshing
    <2>2. load["refresh"].from \in Nat
      BY <2>1 DEF Load
    <2> QED
      BY <1>2, <2>1, <2>2
  <1>3. ~AnswerNow(r, x)
    <2>1. SUFFICES ASSUME AnswerNow(r, x) PROVE FALSE
      OBVIOUS
    <2>2. ask \in [Lookups -> Ask]
      BY DEF KeysTypeOK
    <2>3. ask'[r].pc = "wait"
      BY <2>2 DEF AskWaits, NewAsk
    <2>4. ask'[r].pc = "done"
      BY <2>1, <2>2 DEF AnswerNow, AskAnswered, NewAsk
    <2> QED
      BY <2>3, <2>4
  <1> QED
    BY <1>1, <1>2, <1>3 DEF AskStale, AskKnown, AskMissed

\* A step that stores nothing and ends no load keeps the types of both.
LEMMA LoadTypes ==
    ASSUME KeysTypeOK, stored' = stored, load' \in [Loaders -> Load],
           \A l \in Loaders : load'[l] = load[l] \/ load'[l].got = Unread
    PROVE  \A l \in Loaders : load'[l].got <= Len(stored')
  <1>1. Len(stored) \in Nat /\ \A l \in Loaders : load[l].got <= Len(stored)
    BY Versions DEF KeysTypeOK
  <1> QED
    BY <1>1 DEF Unread

\* A request's first step keeps the types.
LEMMA LookupTypes ==
    ASSUME IngestKeysAssumption, KeysTypeOK, NEW r \in Lookups, lookupFresh(r)
    PROVE  KeysTypeOK'
  <1>1. PICK x \in Secrets : AskStale(r, x) \/ AskKnown(r, x) \/ AskMissed(r, x)
    BY DEF lookupFresh
  <1>2. UNCHANGED <<clock, stored, copy, checkAt, current, spent>>
    BY <1>1 DEF AskStale, AskKnown, AskMissed, cache
  <1>3. ask' \in [Lookups -> Ask]
    <2>1. AskWaits(r, x) \/ AnswerNow(r, x)
      BY <1>1 DEF AskStale, AskKnown, AskMissed
    <2>2. current' \in BOOLEAN
      BY <1>2 DEF KeysTypeOK
    <2>3. CASE AskWaits(r, x)
      <3> DEFINE a == [NewAsk EXCEPT !.at = clock, !.from = load'["refresh"].from,
                                     !.secret = x, !.pc = "wait"]
      <3>1. load'["refresh"].from \in Nat
        BY <1>1, <2>3, WaitsForTheRefresh
      <3>2. a \in Ask
        BY <3>1, AskTypes
      <3>3. ask' = [ask EXCEPT ![r] = a]
        BY <2>3 DEF AskWaits
      <3> HIDE DEF a
      <3> QED
        BY <3>2, <3>3 DEF KeysTypeOK
    <2>4. CASE AnswerNow(r, x)
      <3> DEFINE a == [NewAsk EXCEPT !.at = clock, !.from = clock, !.secret = x]
      <3>1. a \in Ask
        BY AskTypes
      <3> HIDE DEF a
      <3>2. AskAnswered(a, copy) \in Ask
        BY <2>2, <3>1, AnswerType
      <3>3. ask' = [ask EXCEPT ![r] = AskAnswered(a, copy)]
        BY <2>4 DEF AnswerNow, a
      <3> QED
        BY <3>2, <3>3 DEF KeysTypeOK
    <2> QED
      BY <2>1, <2>3, <2>4
  <1>4. /\ load' \in [Loaders -> Load]
        /\ \A l \in Loaders : load'[l] = load[l] \/ load'[l].got = Unread
    <2>1. StartRefresh \/ load' = load
      BY <1>1 DEF AskStale, AskKnown, AskMissed
    <2>2. load \in [Loaders -> Load]
      BY DEF KeysTypeOK
    <2> QED
      BY <2>1, <2>2, StartType
  <1>5. missed' \in [Secrets -> Int] /\ lastMiss' \in Int
    <2>1. CASE AskMissed(r, x)
      <3>1. Remember(x) /\ (lastMiss' = clock \/ lastMiss' = lastMiss)
        BY <2>1 DEF AskMissed
      <3>2. clock \in Int /\ Never \in Int
        <4>1. clock \in Int
          BY DEF KeysTypeOK
        <4>2. Never \in Int
          BY DEF IngestKeysAssumption, Never
        <4> QED
          BY <4>1, <4>2
      <3>3. DEFINE full == Cardinality({y \in Secrets : missed[y] # Never}) >= MissMemory
      <3>4. missed' = [y \in Secrets |-> IF y = x THEN clock ELSE IF full THEN Never ELSE missed[y]]
        BY <3>1 DEF Remember
      <3> HIDE DEF full
      <3> QED
        BY <3>1, <3>2, <3>4 DEF KeysTypeOK
    <2>2. CASE AskStale(r, x) \/ AskKnown(r, x)
      BY <2>2 DEF AskStale, AskKnown, cache, KeysTypeOK
    <2> QED
      BY <1>1, <2>1, <2>2
  <1>6. \A l \in Loaders : load'[l].got <= Len(stored')
    BY <1>2, <1>4, LoadTypes
  <1> QED
    BY <1>2, <1>3, <1>4, <1>5, <1>6 DEF KeysTypeOK

\* What is stored is a snapshot of now.
LEMMA StoreTypes ==
    ASSUME IngestKeysAssumption, KeysTypeOK, CreateKey \/ RotateKey \/ RevokeKey
    PROVE  /\ \E s \in Snapshot : s.at = clock /\ stored' = Append(stored, s)
           /\ UNCHANGED <<clock, cache, load, ask, spent>>
  <1>1. Latest.secret \in Secrets \union {NoSecret} /\ clock \in Nat /\ clock + Grace \in Nat
    <2>1. stored[Len(stored)] \in Snapshot /\ clock \in Nat
      BY Versions
    <2>2. Latest.secret \in Secrets \union {NoSecret}
      BY <2>1 DEF Latest, Snapshot
    <2>3. Grace \in Nat
      BY DEF IngestKeysAssumption
    <2> QED
      BY <2>1, <2>2, <2>3
  <1>2. ASSUME NEW x \in Secrets \union {NoSecret}, NEW y \in Secrets \union {NoSecret},
               NEW u \in Nat, Store(x, y, u)
        PROVE  /\ \E s \in Snapshot : s.at = clock /\ stored' = Append(stored, s)
               /\ UNCHANGED <<clock, cache, load, ask, spent>>
    <2>1. [secret |-> x, prev |-> y, until |-> u, at |-> clock] \in Snapshot
      BY <1>1 DEF Snapshot
    <2> QED
      BY <1>2, <2>1 DEF Store
  <1> QED
    BY <1>1, <1>2 DEF CreateKey, RotateKey, RevokeKey

\* Every step keeps the types.
LEMMA TypeStep ==
    ASSUME IngestKeysAssumption, KeysTypeOK, [KeysNext]_keysVars
    PROVE  KeysTypeOK'
  <1>1. CASE CreateKey \/ RotateKey \/ RevokeKey
    <2>1. PICK s \in Snapshot : s.at = clock /\ stored' = Append(stored, s)
      BY <1>1, StoreTypes
    <2>2. UNCHANGED <<clock, cache, load, ask, spent>>
      BY <1>1, StoreTypes
    <2>3. stored' \in Seq(Snapshot) /\ stored' # <<>> /\ Len(stored') = Len(stored) + 1
      <3>1. stored \in Seq(Snapshot)
        BY DEF KeysTypeOK
      <3> QED
        BY <2>1, <3>1
    <2>4. Len(stored) \in Nat
      BY Versions
    <2>5. \A l \in Loaders : load[l].got \in Nat /\ load[l].got <= Len(stored')
      <3>1. \A x \in Load : x.got \in Nat
        BY DEF Load, NoLoad, Unread
      <3>2. \A l \in Loaders : load[l].got \in Nat /\ load[l].got <= Len(stored)
        BY <3>1 DEF KeysTypeOK
      <3> QED
        BY <2>3, <2>4, <3>2, SMTT(30)
    <2>6. copy \in 1 .. Len(stored')
      BY <2>3, <2>4 DEF KeysTypeOK
    <2> QED
      BY <2>2, <2>3, <2>5, <2>6 DEF KeysTypeOK, cache
  <1>2. ASSUME NEW r \in Lookups, lookupFresh(r)
        PROVE  KeysTypeOK'
    BY <1>2, LookupTypes
  <1>3. ASSUME NEW l \in Loaders, Read(l)
        PROVE  KeysTypeOK'
    <2>1. Len(stored) \in Nat
      BY Versions
    <2> DEFINE x == [load[l] EXCEPT !.got = Len(stored)]
    <2>2. x \in Load /\ x.got = Len(stored) /\ load' = [load EXCEPT ![l] = x]
      <3>1. load[l] # NoLoad /\ load' = [load EXCEPT ![l] = x]
        BY <1>3 DEF Read
      <3>2. load[l] \in [from : Nat, got : Nat]
        BY <3>1 DEF KeysTypeOK, Load
      <3> QED
        BY <2>1, <3>1, <3>2 DEF Load
    <2> HIDE DEF x
    <2>3. load' \in [Loaders -> Load] /\ \A k \in Loaders : load'[k].got <= Len(stored)
      <3>1. load \in [Loaders -> Load] /\ \A k \in Loaders : load[k].got <= Len(stored)
        BY DEF KeysTypeOK
      <3> QED
        BY <2>1, <2>2, <3>1
    <2> QED
      BY <1>3, <2>3 DEF Read, KeysTypeOK, cache
  <1>4. ASSUME NEW l \in Loaders, Reload(l) \/ ReloadFails(l)
        PROVE  KeysTypeOK'
    <2>1. load[l] \in [from : Nat, got : Nat]
      BY <1>4, SMTT(30) DEF Reload, ReloadFails, KeysTypeOK, Load, NoLoad, Unread
    <2>2. load' \in [Loaders -> Load] /\ \A k \in Loaders : load'[k].got <= Len(stored')
      <3>1. stored' = stored /\ load' = [load EXCEPT ![l] = NoLoad]
        BY <1>4 DEF Reload, ReloadFails
      <3>2. load \in [Loaders -> Load] /\ NoLoad \in Load /\ NoLoad.got = Unread
        BY DEF KeysTypeOK, Load, NoLoad
      <3>3. load' \in [Loaders -> Load] /\ \A k \in Loaders : load'[k] = load[k] \/ load'[k].got = Unread
        BY <3>1, <3>2
      <3> QED
        BY <3>1, <3>3, LoadTypes
    <2>3. copy' \in 1 .. Len(stored') /\ checkAt' \in Nat /\ current' \in BOOLEAN
      <3>1. CASE Reload(l)
        <4>1. load[l].got \in 1 .. Len(stored) /\ Len(stored) \in Nat
          <5>1. load[l].got <= Len(stored)
            BY DEF KeysTypeOK
          <5>2. load[l].got # 0
            BY <3>1 DEF Reload, Unread
          <5> QED
            BY <2>1, <5>1, <5>2, Versions, SMTT(30)
        <4>2. copy \in 1 .. Len(stored) /\ load[l].from \in Nat /\ MaxAge \in Nat
          BY <2>1 DEF KeysTypeOK, IngestKeysAssumption
        <4>3. /\ copy' = load[l].got \/ copy' = copy
              /\ checkAt' = load[l].from + MaxAge /\ current' = TRUE /\ stored' = stored
          BY <3>1 DEF Reload
        <4>4. copy' \in 1 .. Len(stored')
          BY <4>1, <4>2, <4>3
        <4> QED
          BY <4>2, <4>3, <4>4, SMTT(30)
      <3>2. CASE ReloadFails(l)
        <4>1. /\ FailureRetry \in Nat /\ MaxAge \in Nat
              /\ stored' = stored /\ copy' = copy /\ current \in BOOLEAN /\ checkAt \in Nat
              /\ copy \in 1 .. Len(stored) /\ load[l].from \in Nat
          BY <2>1, <3>2 DEF ReloadFails, KeysTypeOK, IngestKeysAssumption
        <4>2. CASE l = "refresh"
          <5>1. /\ checkAt' = load[l].from + (IF FailureRetry < MaxAge THEN FailureRetry ELSE MaxAge)
                /\ current' = FALSE
            <6>1. l # "message"
              BY <4>2
            <6> QED
              BY <3>2, <6>1, Zenon DEF ReloadFails
          <5>2. checkAt' \in Nat
            <6>1. checkAt' = load[l].from + FailureRetry \/ checkAt' = load[l].from + MaxAge
              BY <5>1
            <6>2. FailureRetry \in Nat /\ MaxAge \in Nat /\ load[l].from \in Nat
              BY <4>1
            <6> QED
              BY <6>1, <6>2
          <5>3. current' \in BOOLEAN
            BY <5>1
          <5>4. copy' \in 1 .. Len(stored')
            BY <4>1
          <5> QED
            BY <5>2, <5>3, <5>4
        <4>3. CASE l = "message"
          BY <3>2, <4>1, <4>3 DEF ReloadFails
        <4> QED
          BY <4>2, <4>3 DEF Loaders
      <3> QED
        BY <1>4, <3>1, <3>2
    <2>4. ask' \in [Lookups -> Ask]
      <3>1. PICK v : Release(l, v)
        BY <1>4 DEF Reload, ReloadFails
      <3>2. \A r \in Lookups : ask[r] \in Ask
        BY DEF KeysTypeOK
      <3>3. \A r \in Lookups : AskAnswered(ask[r], v) \in Ask
        BY <2>3, <3>2, AnswerType
      <3> QED
        BY <3>1, <3>2, <3>3 DEF Release
    <2>5. spent' \in [{"events", "faults"} -> Nat]
      <3>1. /\ spent \in [{"events", "faults"} -> Nat]
            /\ spent' = spent \/ spent' = [spent EXCEPT !["faults"] = @ + 1]
        BY <1>4 DEF Reload, ReloadFails, Spend, KeysTypeOK
      <3> QED
        BY <3>1
    <2>6. UNCHANGED <<clock, stored, missed, lastMiss>>
      BY <1>4 DEF Reload, ReloadFails
    <2> QED
      BY <2>2, <2>3, <2>4, <2>5, <2>6 DEF KeysTypeOK
  <1>5. CASE handle
    <2>1. stored' = stored /\ load' = [load EXCEPT !["message"] = [from |-> clock, got |-> Unread]]
      BY <1>5 DEF handle
    <2>2. /\ load' \in [Loaders -> Load]
          /\ \A k \in Loaders : load'[k] = load[k] \/ load'[k].got = Unread
      BY <2>1 DEF KeysTypeOK, Load, Unread
    <2>3. \A k \in Loaders : load'[k].got <= Len(stored')
      BY <2>1, <2>2, LoadTypes
    <2>4. spent' \in [{"events", "faults"} -> Nat]
      <3>1. spent \in [{"events", "faults"} -> Nat] /\ spent' = [spent EXCEPT !["events"] = @ + 1]
        BY <1>5 DEF handle, Spend, KeysTypeOK
      <3> QED
        BY <3>1
    <2> QED
      BY <1>5, <2>2, <2>3, <2>4 DEF handle, KeysTypeOK, cache
  <1>6. CASE Restart
    <2>1. Len(stored) \in Nat \ {0} /\ Never \in Int
      BY Versions DEF Never, IngestKeysAssumption
    <2>2. stored' = stored /\ load' = [l \in Loaders |-> NoLoad]
      BY <1>6 DEF Restart
    <2>3. load' \in [Loaders -> Load] /\ \A k \in Loaders : load'[k].got = Unread
      BY <2>2 DEF Load, NoLoad
    <2>4. \A k \in Loaders : load'[k].got <= Len(stored')
      BY <2>2, <2>3, LoadTypes
    <2>5. ask' \in [Lookups -> Ask]
      BY <1>6, AskTypes DEF Restart, KeysTypeOK
    <2>6. spent' \in [{"events", "faults"} -> Nat]
      <3>1. spent \in [{"events", "faults"} -> Nat] /\ spent' = [spent EXCEPT !["faults"] = @ + 1]
        BY <1>6 DEF Restart, Spend, KeysTypeOK
      <3> QED
        BY <3>1
    <2>7. copy' \in 1 .. Len(stored') /\ checkAt' \in Nat /\ current' \in BOOLEAN
      <3>1. clock \in Nat /\ MaxAge \in Nat
        BY DEF KeysTypeOK, IngestKeysAssumption
      <3>2. /\ copy' = Len(stored) /\ checkAt' = clock + MaxAge /\ current' = TRUE
            /\ stored' = stored
        BY <1>6 DEF Restart
      <3> QED
        BY <2>1, <3>1, <3>2
    <2>8. missed' \in [Secrets -> Int] /\ lastMiss' \in Int
      BY <1>6, <2>1 DEF Restart
    <2> QED
      BY <1>6, <2>3, <2>4, <2>5, <2>6, <2>7, <2>8 DEF Restart, KeysTypeOK
  <1>7. CASE ClockTicks
    BY <1>7, SMTT(30) DEF ClockTicks, KeysTypeOK, cache
  <1>8. CASE UNCHANGED keysVars
    BY <1>8 DEF keysVars, cache, KeysTypeOK
  <1> QED
    BY <1>1, <1>2, <1>3, <1>4, <1>5, <1>6, <1>7, <1>8 DEF KeysNext

----------------------------------------------------------------------------
(* The invariant. *)

\* The initial states satisfy the inductive invariant.
LEMMA InitIInv == ASSUME IngestKeysAssumption, KeysInit PROVE KeysInv
  <1>1. PICK x \in Secrets \union {NoSecret} :
            stored = <<[secret |-> x, prev |-> NoSecret, until |-> 0, at |-> 0]>>
    BY DEF KeysInit
  <1> DEFINE s == [secret |-> x, prev |-> NoSecret, until |-> 0, at |-> 0]
  <1>2. s \in Snapshot /\ s.at = 0
    BY DEF Snapshot
  <1> HIDE DEF s
  <1>3. /\ stored \in Seq(Snapshot) /\ stored # <<>> /\ Len(stored) = 1 /\ stored[1] = s
        /\ DOMAIN stored = 1 .. 1
    BY <1>1, <1>2 DEF s
  <1>4. KeysTypeOK
    <2>1. load \in [Loaders -> Load] /\ \A l \in Loaders : load[l] = NoLoad /\ load[l].got = 0
      BY DEF KeysInit, Load, NoLoad, Unread
    <2>2. ask \in [Lookups -> Ask]
      BY DEF KeysInit, Ask, NewAsk
    <2>3. missed \in [Secrets -> Int] /\ lastMiss \in Int
      BY DEF KeysInit, Never, IngestKeysAssumption
    <2>4. /\ clock \in Nat /\ copy \in 1 .. Len(stored) /\ checkAt \in Nat
          /\ spent \in [{"events", "faults"} -> Nat]
      <3>1. MaxAge \in Nat
        BY DEF IngestKeysAssumption
      <3>2. clock \in Nat /\ checkAt \in Nat
        BY <3>1 DEF KeysInit
      <3>3. copy \in 1 .. Len(stored)
        BY <1>3 DEF KeysInit
      <3>4. spent \in [{"events", "faults"} -> Nat]
        BY DEF KeysInit
      <3> QED
        BY <3>2, <3>3, <3>4
    <2>5. current \in BOOLEAN
      BY DEF KeysInit
    <2> QED
      BY <1>3, <2>1, <2>2, <2>3, <2>4, <2>5, SMTT(30) DEF KeysTypeOK
  <1>5. Ordered
    BY <1>2, <1>3 DEF Ordered, KeysInit
  <1>6. LoadsAreCurrent
    BY DEF LoadsAreCurrent, KeysInit
  <1>7. Clocked
    BY DEF Clocked, KeysInit, NewAsk, IngestKeysAssumption
  <1>8. CopyIsAsFreshAsItSays
    BY <1>3 DEF CopyIsAsFreshAsItSays, CurrentFrom, KeysInit
  <1>9. AnswersAreRecent /\ KnowsItsLoad
    BY DEF AnswersAreRecent, KnowsItsLoad, KeysInit, NewAsk
  <1> QED
    BY <1>4, <1>5, <1>6, <1>7, <1>8, <1>9 DEF KeysInv

\* Storing a version: what was current in the past still was.
LEMMA StoreStep ==
    ASSUME IngestKeysAssumption, KeysInv, CreateKey \/ RotateKey \/ RevokeKey
    PROVE  Ordered' /\ LoadsAreCurrent' /\ Clocked' /\ CopyIsAsFreshAsItSays' /\ AnswersAreRecent'
  <1>1. PICK s \in Snapshot : s.at = clock /\ stored' = Append(stored, s)
    BY StoreTypes DEF KeysInv
  <1>2. UNCHANGED <<clock, copy, checkAt, missed, lastMiss, current, load, ask, spent>>
    BY StoreTypes DEF KeysInv, cache
  <1>3. KeysTypeOK /\ clock \in Nat /\ MaxAge \in Nat /\ checkAt \in Nat
    BY DEF KeysInv, KeysTypeOK, IngestKeysAssumption
  <1>4. ASSUME NEW v \in DOMAIN stored, NEW t \in Int, t <= clock, CurrentFrom(v, t)
        PROVE  v \in DOMAIN stored' /\ stored'[v] = stored[v] /\ CurrentFrom(v, t)'
    BY <1>1, <1>3, <1>4, CurrentAfterStore
  <1>5. Ordered'
    <2>1. /\ DOMAIN stored' = 1 .. Len(stored) + 1 /\ Len(stored) \in Nat
          /\ DOMAIN stored = 1 .. Len(stored)
          /\ \A v \in 1 .. Len(stored) : stored'[v] = stored[v] /\ stored[v].at \in Nat
          /\ stored'[Len(stored) + 1] = s
      <3>1. stored \in Seq(Snapshot)
        BY <1>3 DEF KeysTypeOK
      <3>2. /\ Len(stored) \in Nat /\ DOMAIN stored = 1 .. Len(stored)
            /\ \A v \in DOMAIN stored : stored[v].at \in Nat
        BY <1>3, Versions
      <3>3. /\ DOMAIN stored' = 1 .. Len(stored) + 1 /\ stored'[Len(stored) + 1] = s
            /\ \A v \in 1 .. Len(stored) : stored'[v] = stored[v]
        BY <1>1, <3>1, <3>2
      <3> QED
        BY <3>2, <3>3
    <2>2. /\ \A v, w \in 1 .. Len(stored) : v <= w => stored[v].at <= stored[w].at
          /\ \A v \in 1 .. Len(stored) : stored[v].at <= clock
      BY <2>1 DEF KeysInv, Ordered
    <2>3. \A v \in DOMAIN stored' : stored'[v].at <= clock'
      BY <1>1, <1>2, <1>3, <2>1, <2>2, SMTT(30)
    <2>4. ASSUME NEW v \in DOMAIN stored', NEW w \in DOMAIN stored', v <= w
          PROVE  stored'[v].at <= stored'[w].at
      <3>1. CASE w = Len(stored) + 1
        <4>1. stored'[w].at = clock /\ clock' = clock
          BY <1>1, <1>2, <2>1, <3>1
        <4> QED
          BY <2>3, <2>4, <4>1
      <3>2. CASE w # Len(stored) + 1
        <4>1. v \in 1 .. Len(stored) /\ w \in 1 .. Len(stored)
          BY <2>1, <2>4, <3>2, SMTT(30)
        <4> QED
          BY <2>1, <2>2, <2>4, <4>1
      <3> QED
        BY <3>1, <3>2
    <2> QED
      BY <2>3, <2>4 DEF Ordered
  <1>6. LoadsAreCurrent'
    <2>1. ASSUME NEW l \in Loaders, load[l] # NoLoad
          PROVE  /\ load[l].from <= clock
                 /\ load[l].got # Unread => CurrentFrom(load[l].got, load[l].from)'
      <3>1. /\ load[l].from <= clock
            /\ load[l].got # Unread => CurrentFrom(load[l].got, load[l].from)
        BY <2>1 DEF KeysInv, LoadsAreCurrent
      <3>2. load[l].from \in Nat /\ load[l].got \in Nat /\ load[l].got <= Len(stored)
        BY <1>3, <2>1 DEF KeysTypeOK, Load
      <3>3. load[l].got # Unread => load[l].got \in DOMAIN stored
        BY <1>3, <3>2, Versions, SMTT(30) DEF Unread
      <3> QED
        BY <1>2, <1>4, <3>1, <3>2, <3>3
    <2> QED
      BY <1>2, <2>1 DEF LoadsAreCurrent
  <1>7. Clocked'
    BY <1>2 DEF KeysInv, Clocked
  <1>8. CopyIsAsFreshAsItSays'
    <2>1. copy \in DOMAIN stored /\ checkAt - MaxAge \in Int /\ checkAt - MaxAge <= clock
      BY <1>3, Versions DEF KeysInv, Clocked, KeysTypeOK
    <2>2. current => CurrentFrom(copy, checkAt - MaxAge)
      BY DEF KeysInv, CopyIsAsFreshAsItSays
    <2>3. current => CurrentFrom(copy, checkAt - MaxAge)'
      BY <1>2, <1>4, <2>1, <2>2
    <2> QED
      BY <1>2, <2>3 DEF CopyIsAsFreshAsItSays
  <1>9. AnswersAreRecent'
    <2>1. ASSUME NEW r \in Lookups, ask[r].pc = "done", ask[r].sound
          PROVE  \E v \in DOMAIN stored' :
                     /\ stored'[v].at <= ask[r].done
                     /\ CurrentFrom(v, ask[r].at - MaxAge)' \/ CurrentFrom(v, ask[r].from)'
                     /\ ask[r].found = lookup(v, ask[r].secret, ask[r].at)'
      <3>1. PICK v \in DOMAIN stored :
                /\ stored[v].at <= ask[r].done
                /\ CurrentFrom(v, ask[r].at - MaxAge) \/ CurrentFrom(v, ask[r].from)
                /\ ask[r].found = lookup(v, ask[r].secret, ask[r].at)
        BY <2>1 DEF KeysInv, AnswersAreRecent
      <3>0. /\ ask[r].at \in Nat /\ ask[r].at <= clock
            /\ ask[r].from \in Nat /\ ask[r].from <= clock
        <4>1. ask[r] \in Ask
          BY <1>3 DEF KeysTypeOK
        <4> QED
          BY <4>1 DEF Ask, KeysInv, Clocked
      <3>2. PICK t \in Int, n \in Int : t = ask[r].at - MaxAge /\ n = ask[r].from
        BY <1>3, <3>0
      <3>3. t <= clock /\ n <= clock
        BY <1>3, <3>0, <3>2
      <3>8. CurrentFrom(v, t) \/ CurrentFrom(v, n)
        BY <3>1, <3>2
      <3>4. v \in DOMAIN stored' /\ stored'[v] = stored[v]
            /\ (CurrentFrom(v, t)' \/ CurrentFrom(v, n)')
        BY <1>4, <3>3, <3>8
      <3>5. PICK x, u : x = ask[r].secret /\ u = ask[r].at
        OBVIOUS
      <3>6. lookup(v, x, u)' = lookup(v, x, u)
        BY <3>4 DEF lookup
      <3>7. ask' = ask
        BY <1>2
      <3> QED
        BY <3>1, <3>2, <3>4, <3>5, <3>6, <3>7
    <2> QED
      BY <1>2, <2>1 DEF AnswersAreRecent
  <1> QED
    BY <1>5, <1>6, <1>7, <1>8, <1>9

\* While nothing is stored, what a load read and what the copy is stay as
\* current as they were; a load that starts now has read nothing.
LEMMA KeysQuietStep ==
    ASSUME IngestKeysAssumption, KeysInv, UNCHANGED <<clock, stored>>,
           \A l \in Loaders : \/ load'[l] = load[l] \/ load'[l] = NoLoad
                              \/ load'[l] = [from |-> clock, got |-> Unread]
                              \/ /\ load[l] # NoLoad /\ load'[l].from = load[l].from
                                 /\ load'[l].got = Len(stored)
    PROVE  Ordered' /\ LoadsAreCurrent'
  <1>1. Ordered'
    BY DEF KeysInv, Ordered
  <1>2. clock \in Nat
    BY DEF KeysInv, KeysTypeOK
  <1>3. ASSUME NEW l \in Loaders, load'[l] # NoLoad
        PROVE  /\ load'[l].from <= clock'
               /\ load'[l].got # Unread => CurrentFrom(load'[l].got, load'[l].from)
    <2>1. CASE load'[l] = load[l]
      BY <1>3, <2>1 DEF KeysInv, LoadsAreCurrent
    <2>2. CASE load'[l] = [from |-> clock, got |-> Unread]
      BY <1>2, <2>2
    <2>3. CASE /\ load[l] # NoLoad /\ load'[l].from = load[l].from /\ load'[l].got = Len(stored)
      BY <2>3 DEF KeysInv, LoadsAreCurrent, CurrentFrom
    <2> QED
      BY <1>3, <2>1, <2>2, <2>3
  <1>4. \A v, t : CurrentFrom(v, t)' <=> CurrentFrom(v, t)
    BY DEF CurrentFrom
  <1>5. LoadsAreCurrent'
    BY <1>3, <1>4 DEF LoadsAreCurrent
  <1> QED
    BY <1>1, <1>5

\* A copy that is not stale is as recent as an answer must be.
LEMMA FreshCopy ==
    ASSUME IngestKeysAssumption, KeysInv, ~Stale, current
    PROVE  CurrentFrom(copy, clock - MaxAge)
  <1>1. /\ KeysTypeOK /\ clock \in Nat /\ checkAt \in Nat /\ MaxAge \in Nat
        /\ clock - MaxAge <= checkAt - MaxAge /\ copy \in DOMAIN stored
    <2>1. KeysTypeOK /\ clock \in Nat /\ checkAt \in Nat /\ copy \in 1 .. Len(stored)
      BY DEF KeysInv, KeysTypeOK
    <2>2. MaxAge \in Nat /\ clock < checkAt
      BY <2>1 DEF IngestKeysAssumption, Stale
    <2> QED
      BY <2>1, <2>2, Versions
  <1>2. CurrentFrom(copy, checkAt - MaxAge)
    BY DEF KeysInv, CopyIsAsFreshAsItSays
  <1> QED
    BY <1>1, <1>2, CurrentEarlier

\* Requests that were answered stay as they were: only new answers count.
LEMMA OldAnswers ==
    ASSUME KeysInv, stored' = stored,
           \A r \in Lookups : \/ ask'[r] = ask[r] \/ ask'[r].pc # "done"
                               \/ \E v \in DOMAIN stored :
                                    ask'[r].sound =>
                                      /\ stored[v].at <= ask'[r].done
                                      /\ RecentFor(v, ask'[r])
                                      /\ ask'[r].found = lookup(v, ask'[r].secret, ask'[r].at)
    PROVE  AnswersAreRecent'
  <1>1. ASSUME NEW r \in Lookups, ask'[r].pc = "done", ask'[r].sound
        PROVE  \E v \in DOMAIN stored :
                   /\ stored[v].at <= ask'[r].done /\ RecentFor(v, ask'[r])
                   /\ ask'[r].found = lookup(v, ask'[r].secret, ask'[r].at)
    <2>1. CASE ask'[r] = ask[r]
      BY <1>1, <2>1 DEF KeysInv, AnswersAreRecent, RecentFor
    <2>2. CASE ask'[r] # ask[r]
      BY <1>1, <2>2
    <2> QED
      BY <2>1, <2>2
  <1>2. ASSUME NEW r \in Lookups, (ask[r].pc = "done" /\ ask[r].sound)'
        PROVE  \E v \in DOMAIN stored' :
                   (/\ stored[v].at <= ask[r].done
                    /\ CurrentFrom(v, ask[r].at - MaxAge) \/ CurrentFrom(v, ask[r].from)
                    /\ ask[r].found = lookup(v, ask[r].secret, ask[r].at))'
    <2>1. PICK v \in DOMAIN stored :
              /\ stored[v].at <= ask'[r].done /\ RecentFor(v, ask'[r])
              /\ ask'[r].found = lookup(v, ask'[r].secret, ask'[r].at)
      BY <1>1, <1>2
    <2>2. PICK t, n, x, u : t = ask'[r].at - MaxAge /\ n = ask'[r].from
                            /\ x = ask'[r].secret /\ u = ask'[r].at
      OBVIOUS
    <2>4. CurrentFrom(v, t) \/ CurrentFrom(v, n)
      BY <2>1, <2>2 DEF RecentFor
    <2>3. (CurrentFrom(v, t)' \/ CurrentFrom(v, n)') /\ lookup(v, x, u)' = lookup(v, x, u)
      BY <2>4 DEF CurrentFrom, lookup
    <2> QED
      BY <2>1, <2>2, <2>3
  <1> QED
    BY <1>2 DEF AnswersAreRecent

\* A request waits, or is answered from a copy that is not stale.
LEMMA AskStep ==
    ASSUME IngestKeysAssumption, KeysInv, NEW r \in Lookups, lookupFresh(r)
    PROVE  Ordered' /\ LoadsAreCurrent' /\ Clocked' /\ CopyIsAsFreshAsItSays' /\ AnswersAreRecent'
  <1>1. PICK x \in Secrets : AskStale(r, x) \/ AskKnown(r, x) \/ AskMissed(r, x)
    BY DEF lookupFresh
  <1>2. UNCHANGED <<clock, stored, copy, checkAt, current>>
    BY <1>1 DEF AskStale, AskKnown, AskMissed, cache
  <1>3. KeysTypeOK /\ clock \in Nat /\ copy \in DOMAIN stored /\ stored[copy].at <= clock
    <2>1. KeysTypeOK /\ clock \in Nat /\ copy \in 1 .. Len(stored) /\ Ordered
      BY DEF KeysInv, KeysTypeOK
    <2> QED
      BY <2>1, Versions DEF Ordered
  <1>4. \/ AskWaits(r, x)
        \/ AnswerNow(r, x) /\ ~Stale
    BY <1>1 DEF AskStale, AskKnown, AskMissed
  <1>0. AskWaits(r, x) => /\ load'["refresh"].from \in Nat
                          /\ load'["refresh"] = load["refresh"] \/ load'["refresh"].from = clock
                          /\ load'["refresh"].from <= clock
    <2>1. SUFFICES ASSUME AskWaits(r, x)
                   PROVE  /\ load'["refresh"].from \in Nat
                          /\ load'["refresh"] = load["refresh"] \/ load'["refresh"].from = clock
                          /\ load'["refresh"].from <= clock
      OBVIOUS
    <2>2. load'["refresh"] # NoLoad /\ load'["refresh"].from \in Nat
      BY <1>1, <1>3, <2>1, WaitsForTheRefresh
    <2>3. StartRefresh \/ load' = load
      BY <1>1 DEF AskStale, AskKnown, AskMissed
    <2>4. load'["refresh"] = load["refresh"] \/ load'["refresh"].from = clock
      BY <1>3, <2>3, StartType DEF Loaders
    <2>5. load'["refresh"].from <= clock
      BY <1>3, <2>2, <2>4 DEF KeysInv, LoadsAreCurrent, Loaders
    <2> QED
      BY <2>2, <2>4, <2>5
  <1>5. /\ ask' \in [Lookups -> Ask] /\ \A q \in Lookups : q # r => ask'[q] = ask[q]
        /\ ask'[r].at = clock /\ ask'[r].done <= clock /\ ask'[r].from <= clock
        /\ \/ ask'[r].pc = "wait"
           \/ /\ ~Stale /\ ask'[r].done = clock /\ ask'[r].sound = current
              /\ ask'[r].found = lookup(copy, ask'[r].secret, clock)
    <2>1. CASE AskWaits(r, x)
      <3> DEFINE n == load'["refresh"].from
                 a == [NewAsk EXCEPT !.at = clock, !.from = n, !.secret = x, !.pc = "wait"]
      <3>0. n \in Nat /\ n <= clock
        BY <1>0, <2>1
      <3> HIDE DEF n
      <3>1. a \in Ask /\ a.at = clock /\ a.from = n /\ a.pc = "wait" /\ a.done = 0
        BY <1>3, <3>0, AskTypes DEF NewAsk
      <3>2. ask' = [ask EXCEPT ![r] = a]
        BY <2>1 DEF AskWaits, n
      <3> HIDE DEF a
      <3>3. ask'[r] = a /\ ask' \in [Lookups -> Ask] /\ \A q \in Lookups : q # r => ask'[q] = ask[q]
        BY <1>3, <3>1, <3>2 DEF KeysTypeOK
      <3> QED
        BY <1>3, <3>0, <3>1, <3>3
    <2>2. CASE AnswerNow(r, x) /\ ~Stale
      <3> DEFINE a == [NewAsk EXCEPT !.at = clock, !.from = clock, !.secret = x]
      <3>1. a \in Ask /\ a.at = clock /\ a.from = clock /\ a.secret = x
        BY <1>3, AskTypes DEF NewAsk
      <3>2. ask' = [ask EXCEPT ![r] = AskAnswered(a, copy)]
        BY <2>2 DEF AnswerNow
      <3> HIDE DEF a
      <3> DEFINE b == AskAnswered(a, copy)
      <3>3. b \in Ask
        BY <1>2, <1>3, <3>1, AnswerType DEF KeysTypeOK
      <3>4. /\ b.at = clock /\ b.from = clock /\ b.done = clock /\ b.secret = x /\ b.pc = "done"
        BY <3>1 DEF AskAnswered, Ask
      <3>5. b.found = lookup(copy, x, clock)
        BY <3>1 DEF AskAnswered, Ask
      <3>6. b.sound = current
        BY <1>2, <3>1 DEF AskAnswered, Ask
      <3> HIDE DEF b
      <3>7. ask' = [ask EXCEPT ![r] = b]
        BY <3>2 DEF b
      <3>8. ask'[r] = b /\ ask' \in [Lookups -> Ask] /\ \A q \in Lookups : q # r => ask'[q] = ask[q]
        BY <1>3, <3>3, <3>7 DEF KeysTypeOK
      <3>9. b.done <= clock /\ b.from <= clock
        BY <1>3, <3>4
      <3> QED
        BY <2>2, <3>4, <3>5, <3>6, <3>8, <3>9
    <2> QED
      BY <1>4, <2>1, <2>2
  <1>6. Ordered' /\ LoadsAreCurrent'
    <2>1. StartRefresh \/ load' = load
      BY <1>1 DEF AskStale, AskKnown, AskMissed
    <2>2. \A l \in Loaders : load'[l] = load[l] \/ load'[l] = [from |-> clock, got |-> Unread]
      BY <1>3, <2>1, StartType
    <2> QED
      BY <1>2, <2>2, KeysQuietStep
  <1>7. Clocked'
    <2>1. \A q \in Lookups : ask'[q].at <= clock /\ ask'[q].done <= clock /\ ask'[q].from <= clock
      BY <1>3, <1>5 DEF KeysInv, Clocked
    <2> QED
      BY <1>2, <2>1 DEF KeysInv, Clocked
  <1>8. CopyIsAsFreshAsItSays'
    BY <1>2 DEF KeysInv, CopyIsAsFreshAsItSays, CurrentFrom
  <1>9. AnswersAreRecent'
    <2>1. ASSUME NEW q \in Lookups
          PROVE  \/ ask'[q] = ask[q] \/ ask'[q].pc # "done"
                 \/ \E v \in DOMAIN stored :
                      ask'[q].sound =>
                        /\ stored[v].at <= ask'[q].done
                        /\ RecentFor(v, ask'[q])
                        /\ ask'[q].found = lookup(v, ask'[q].secret, ask'[q].at)
      <3>1. CASE q = r /\ ask'[r].pc # "wait"
        <4>1. ~Stale /\ ask'[r].done = clock /\ ask'[r].sound = current /\ ask'[r].at = clock
          BY <1>5, <3>1
        <4>2. ask'[r].found = lookup(copy, ask'[r].secret, ask'[r].at)
          BY <1>5, <3>1
        <4>3. current => CurrentFrom(copy, clock - MaxAge)
          BY <4>1, FreshCopy
        <4> QED
          BY <1>3, <3>1, <4>1, <4>2, <4>3 DEF RecentFor
      <3>2. CASE q # r
        BY <1>5, <3>2
      <3>3. CASE q = r /\ ask'[r].pc = "wait"
        BY <3>3
      <3> QED
        BY <3>1, <3>2, <3>3
    <2> QED
      BY <1>2, <2>1, OldAnswers
  <1> QED
    BY <1>6, <1>7, <1>8, <1>9

\* A load comes back, with a version or with none.
LEMMA LoadStep ==
    ASSUME IngestKeysAssumption, KeysInv, NEW l \in Loaders, Reload(l) \/ ReloadFails(l)
    PROVE  Ordered' /\ LoadsAreCurrent' /\ Clocked' /\ CopyIsAsFreshAsItSays' /\ AnswersAreRecent'
  <1>1. UNCHANGED <<clock, stored>> /\ load' = [load EXCEPT ![l] = NoLoad]
    BY DEF Reload, ReloadFails
  <1>2. /\ KeysTypeOK /\ clock \in Nat /\ MaxAge \in Nat /\ FailureRetry \in Nat /\ Ordered
    BY DEF KeysInv, KeysTypeOK, IngestKeysAssumption
  <1>3. /\ load[l] # NoLoad /\ load[l].from \in Nat
        /\ load[l].from <= clock
        /\ load[l].got # Unread => CurrentFrom(load[l].got, load[l].from)
    <2>1. load[l] # NoLoad /\ load[l] \in Load
      BY <1>2 DEF Reload, ReloadFails, NoLoad, KeysTypeOK
    <2> QED
      BY <2>1 DEF KeysInv, LoadsAreCurrent, Load
  <1>4. Ordered' /\ LoadsAreCurrent'
    <2>1. \A k \in Loaders : load'[k] = load[k] \/ load'[k] = NoLoad
      BY <1>1, <1>2 DEF KeysTypeOK
    <2> QED
      BY <1>1, <2>1, KeysQuietStep
  <1>5. copy' \in DOMAIN stored /\ (Reload(l) => CurrentFrom(copy', load[l].from))
    <2>1. copy \in DOMAIN stored
      BY <1>2, Versions DEF KeysTypeOK
    <2>2. CASE Reload(l)
      <3>1. load[l].got \in DOMAIN stored /\ load[l].got # Unread
        <4>1. load[l].got \in Nat /\ load[l].got <= Len(stored) /\ load[l].got # Unread
          BY <1>2, <1>3, <2>2 DEF Reload, KeysTypeOK, Load
        <4> QED
          BY <1>2, <4>1, Versions DEF Unread
      <3>2. copy' = IF load[l].got >= copy THEN load[l].got ELSE copy
        BY <2>2 DEF Reload
      <3>3. copy' \in DOMAIN stored /\ load[l].got <= copy'
        BY <1>2, <2>1, <3>1, <3>2, Versions
      <3>4. CurrentFrom(load[l].got, load[l].from)
        BY <1>3, <3>1
      <3> QED
        BY <1>2, <1>3, <3>1, <3>3, <3>4, CurrentNewer
    <2>3. CASE ReloadFails(l)
      <3>1. copy' = copy
        BY <2>3 DEF ReloadFails
      <3>2. ~Reload(l)
        BY <2>3 DEF Reload, ReloadFails
      <3> QED
        BY <2>1, <3>1, <3>2
    <2> QED
      BY <2>2, <2>3
  <1>6. PICK v : Release(l, v) /\ v = copy'
    BY DEF Reload, ReloadFails
  <1>7. \A r \in Lookups :
            \/ ask'[r] = ask[r]
            \/ l = "refresh" /\ ask'[r] = AskAnswered(ask[r], v)
    BY <1>6 DEF Release
  <1>8. ASSUME NEW r \in Lookups
        PROVE  /\ ask[r].at \in Nat /\ ask[r].at <= clock /\ ask[r].done <= clock
               /\ ask[r].from \in Nat /\ ask[r].from <= clock
               /\ AskAnswered(ask[r], v).at = ask[r].at /\ AskAnswered(ask[r], v).done = clock
               /\ AskAnswered(ask[r], v).from = ask[r].from
               /\ AskAnswered(ask[r], v).secret = ask[r].secret
               /\ AskAnswered(ask[r], v).found = lookup(v, ask[r].secret, ask[r].at)
    <2>1. ask[r] \in Ask
      BY <1>2 DEF KeysTypeOK
    <2>2. /\ ask[r].at \in Nat /\ ask[r].at <= clock /\ ask[r].done <= clock
          /\ ask[r].from \in Nat /\ ask[r].from <= clock
      BY <2>1 DEF Ask, KeysInv, Clocked
    <2>3. PICK a \in Ask : a = ask[r]
      BY <2>1
    <2>4. /\ AskAnswered(a, v).at = a.at /\ AskAnswered(a, v).done = clock
          /\ AskAnswered(a, v).from = a.from /\ AskAnswered(a, v).secret = a.secret
      BY DEF AskAnswered, Ask
    <2>5. AskAnswered(a, v).found = lookup(v, a.secret, a.at)
      BY DEF AskAnswered, Ask
    <2> QED
      BY <2>2, <2>3, <2>4, <2>5
  <1>9. ASSUME NEW r \in Lookups PROVE AskAnswered(ask[r], v).sound = current'
    <2>1. PICK a \in Ask : a = ask[r]
      BY <1>2 DEF KeysTypeOK
    <2>2. AskAnswered(a, v).sound = current'
      BY DEF AskAnswered, Ask
    <2> QED
      BY <2>1, <2>2
  <1>10. Clocked'
    <2>1. checkAt' <= clock + MaxAge
      <3>1. CASE checkAt' = checkAt
        BY <3>1 DEF KeysInv, Clocked
      <3>2. CASE checkAt' = load[l].from + MaxAge
        BY <1>2, <1>3, <3>2
      <3>3. CASE checkAt' = load[l].from + (IF FailureRetry < MaxAge THEN FailureRetry ELSE MaxAge)
        BY <1>2, <1>3, <3>3
      <3> QED
        BY <3>1, <3>2, <3>3 DEF Reload, ReloadFails
    <2>2. \A r \in Lookups : ask'[r].at <= clock /\ ask'[r].done <= clock /\ ask'[r].from <= clock
      BY <1>2, <1>7, <1>8
    <2> QED
      BY <1>1, <2>1, <2>2 DEF Clocked
  <1>11. CopyIsAsFreshAsItSays'
    <2>1. CASE Reload(l)
      <3>1. checkAt' - MaxAge = load[l].from
        BY <1>2, <1>3, <2>1 DEF Reload
      <3>2. CurrentFrom(copy', checkAt' - MaxAge)
        BY <1>5, <2>1, <3>1
      <3> QED
        BY <1>1, <3>2 DEF CopyIsAsFreshAsItSays, CurrentFrom
    <2>2. CASE ReloadFails(l) /\ ~current'
      BY <2>2 DEF CopyIsAsFreshAsItSays
    <2>3. CASE ReloadFails(l) /\ checkAt' = checkAt /\ current' = current
      BY <2>3 DEF ReloadFails, KeysInv, CopyIsAsFreshAsItSays, CurrentFrom
    <2> QED
      BY <2>1, <2>2, <2>3, Zenon DEF ReloadFails
  <1>12. AnswersAreRecent'
    <2>1. ASSUME NEW r \in Lookups, ask'[r] # ask[r], ask'[r].sound
          PROVE  /\ stored[v].at <= ask'[r].done /\ RecentFor(v, ask'[r])
                 /\ ask'[r].found = lookup(v, ask'[r].secret, ask'[r].at)
      <3>1. l = "refresh" /\ ask'[r] = AskAnswered(ask[r], v) /\ ask[r].pc = "wait"
        BY <1>6, <2>1 DEF Release
      <3>2. current'
        BY <1>9, <2>1, <3>1
      <3>3. Reload(l)
        BY <3>1, <3>2, Zenon DEF ReloadFails
      <3>4. v \in DOMAIN stored /\ stored[v].at <= clock /\ CurrentFrom(v, load[l].from)
        BY <1>2, <1>5, <1>6, <3>3 DEF Ordered
      <3>5. ask[r].from = load[l].from
        BY <3>1 DEF KeysInv, KnowsItsLoad
      <3> QED
        BY <1>8, <3>1, <3>4, <3>5 DEF RecentFor
    <2> QED
      BY <1>1, <1>5, <1>6, <2>1, OldAnswers
  <1> QED
    BY <1>4, <1>10, <1>11, <1>12

\* A load goes on until it comes back, and then nobody waits for it any more.
LEMMA KnownStep ==
    ASSUME IngestKeysAssumption, KeysTypeOK, KnowsItsLoad, [KeysNext]_keysVars
    PROVE  KnowsItsLoad'
  <1>1. "refresh" \in Loaders /\ load \in [Loaders -> Load] /\ ask \in [Lookups -> Ask]
    BY DEF KeysTypeOK, Loaders
  <1>2. ASSUME NEW r \in Lookups, lookupFresh(r)
        PROVE  KnowsItsLoad'
    <2>1. PICK x \in Secrets : AskStale(r, x) \/ AskKnown(r, x) \/ AskMissed(r, x)
      BY <1>2 DEF lookupFresh
    <2>2. StartRefresh \/ load' = load
      BY <2>1 DEF AskStale, AskKnown, AskMissed
    <2>3. load["refresh"] # NoLoad => load'["refresh"] = load["refresh"]
      BY <2>2, StartType
    <2>4. AskWaits(r, x) \/ AnswerNow(r, x)
      BY <2>1 DEF AskStale, AskKnown, AskMissed
    <2>5. \A q \in Lookups : q # r => ask'[q] = ask[q]
      BY <1>1, <2>4 DEF AskWaits, AnswerNow
    <2>6. ask'[r].pc = "wait" =>
            load'["refresh"] # NoLoad /\ ask'[r].from = load'["refresh"].from
      <3>1. CASE AskWaits(r, x)
        <4>1. ask'[r].from = load'["refresh"].from
          BY <1>1, <3>1 DEF AskWaits, NewAsk
        <4> QED
          BY <2>1, <3>1, <4>1, WaitsForTheRefresh
      <3>2. CASE AnswerNow(r, x)
        BY <1>1, <3>2 DEF AnswerNow, AskAnswered, NewAsk
      <3> QED
        BY <2>4, <3>1, <3>2
    <2> QED
      BY <2>3, <2>5, <2>6 DEF KnowsItsLoad
  <1>3. ASSUME NEW l \in Loaders, Reload(l) \/ ReloadFails(l)
        PROVE  KnowsItsLoad'
    <2>1. load' = [load EXCEPT ![l] = NoLoad] /\ \E v : Release(l, v)
      BY <1>3 DEF Reload, ReloadFails
    <2>2. CASE l = "refresh"
      <3>1. ASSUME NEW r \in Lookups PROVE ask'[r].pc # "wait"
        <4>1. PICK v : Release(l, v)
          BY <2>1
        <4>2. ask[r] \in Ask
          BY <1>1
        <4>3. ask'[r] = IF ask[r].pc = "wait" THEN AskAnswered(ask[r], v) ELSE ask[r]
          BY <2>2, <4>1 DEF Release
        <4>4. AskAnswered(ask[r], v).pc = "done"
          BY <4>2 DEF AskAnswered, Ask
        <4> QED
          BY <4>3, <4>4
      <3> QED
        BY <3>1 DEF KnowsItsLoad
    <2>3. CASE l # "refresh"
      <3>1. load'["refresh"] = load["refresh"] /\ \A r \in Lookups : ask'[r] = ask[r]
        BY <1>1, <2>1, <2>3 DEF Release
      <3> QED
        BY <3>1 DEF KnowsItsLoad
    <2> QED
      BY <2>2, <2>3
  <1>4. ASSUME NEW l \in Loaders, Read(l)
        PROVE  KnowsItsLoad'
    <2>1. /\ load[l] # NoLoad /\ load[l] \in Load
          /\ load' = [load EXCEPT ![l].got = Len(stored)] /\ ask' = ask
      BY <1>1, <1>4 DEF Read
    <2>2. Len(stored) \in Nat
      BY Versions
    <2>3. load'[l].from = load[l].from /\ load'[l].from \in Nat
      BY <1>1, <2>1 DEF Load
    <2>4. load'["refresh"] = load["refresh"] \/ l = "refresh"
      BY <1>1, <2>1
    <2>5. load'[l] # NoLoad
      BY <2>3 DEF NoLoad
    <2> QED
      BY <2>1, <2>3, <2>4, <2>5 DEF KnowsItsLoad
  <1>5. CASE Restart
    <2>1. \A r \in Lookups : ask'[r].pc # "wait"
      BY <1>1, <1>5 DEF Restart, NewAsk
    <2> QED
      BY <2>1 DEF KnowsItsLoad
  <1>6. CASE handle
    <2>1. load'["refresh"] = load["refresh"] /\ ask' = ask
      BY <1>1, <1>6 DEF handle
    <2> QED
      BY <2>1 DEF KnowsItsLoad
  <1>7. CASE CreateKey \/ RotateKey \/ RevokeKey \/ ClockTicks \/ UNCHANGED keysVars
    <2>1. load' = load /\ ask' = ask
      BY <1>7 DEF CreateKey, RotateKey, RevokeKey, Store, ClockTicks, keysVars
    <2> QED
      BY <2>1 DEF KnowsItsLoad
  <1> QED
    BY <1>2, <1>3, <1>4, <1>5, <1>6, <1>7 DEF KeysNext

\* The invariant is inductive.
LEMMA StepIInv == ASSUME IngestKeysAssumption, KeysInv, [KeysNext]_keysVars PROVE KeysInv'
  <1>1. KeysTypeOK'
    BY TypeStep DEF KeysInv
  <1>2. KeysTypeOK /\ clock \in Nat /\ MaxAge \in Nat
    BY DEF KeysInv, KeysTypeOK, IngestKeysAssumption
  <1>3. Ordered' /\ LoadsAreCurrent' /\ Clocked' /\ CopyIsAsFreshAsItSays' /\ AnswersAreRecent'
    <2>1. CASE CreateKey \/ RotateKey \/ RevokeKey
      BY <2>1, StoreStep
    <2>2. ASSUME NEW r \in Lookups, lookupFresh(r)
          PROVE  Ordered' /\ LoadsAreCurrent' /\ Clocked' /\ CopyIsAsFreshAsItSays' /\ AnswersAreRecent'
      BY <2>2, AskStep
    <2>3. ASSUME NEW l \in Loaders, Reload(l) \/ ReloadFails(l)
          PROVE  Ordered' /\ LoadsAreCurrent' /\ Clocked' /\ CopyIsAsFreshAsItSays' /\ AnswersAreRecent'
      BY <2>3, LoadStep
    <2>4. ASSUME UNCHANGED <<clock, stored, cache, ask>>,
                 \A l \in Loaders : \/ load'[l] = load[l]
                                    \/ load'[l] = [from |-> clock, got |-> Unread]
                                    \/ /\ load[l] # NoLoad /\ load'[l].from = load[l].from
                                       /\ load'[l].got = Len(stored)
          PROVE  Ordered' /\ LoadsAreCurrent' /\ Clocked' /\ CopyIsAsFreshAsItSays' /\ AnswersAreRecent'
      <3>1. Ordered' /\ LoadsAreCurrent'
        BY <2>4, KeysQuietStep
      <3>2. Clocked' /\ CopyIsAsFreshAsItSays'
        BY <2>4 DEF KeysInv, Clocked, CopyIsAsFreshAsItSays, CurrentFrom, cache
      <3>3. AnswersAreRecent'
        BY <2>4, OldAnswers
      <3> QED
        BY <3>1, <3>2, <3>3
    <2>5. ASSUME NEW l \in Loaders, Read(l)
          PROVE  Ordered' /\ LoadsAreCurrent' /\ Clocked' /\ CopyIsAsFreshAsItSays' /\ AnswersAreRecent'
      <3>1. \A k \in Loaders : \/ load'[k] = load[k]
                               \/ /\ load[k] # NoLoad /\ load'[k].from = load[k].from
                                  /\ load'[k].got = Len(stored)
        <4>1. load[l] # NoLoad /\ load[l] \in Load /\ load' = [load EXCEPT ![l].got = Len(stored)]
          BY <1>2, <2>5 DEF Read, KeysTypeOK
        <4>2. load'[l].from = load[l].from /\ load'[l].got = Len(stored)
          BY <1>2, <4>1 DEF KeysTypeOK, Load
        <4>3. \A k \in Loaders : k # l => load'[k] = load[k]
          BY <1>2, <4>1 DEF KeysTypeOK
        <4> QED
          BY <4>1, <4>2, <4>3
      <3>2. UNCHANGED <<clock, stored, cache, ask>>
        BY <2>5 DEF Read
      <3> QED
        BY <2>4, <3>1, <3>2
    <2>6. CASE handle
      <3>1. UNCHANGED <<clock, stored, cache, ask>>
        BY <2>6 DEF handle
      <3>2. \A k \in Loaders : load'[k] = load[k] \/ load'[k] = [from |-> clock, got |-> Unread]
        BY <1>2, <2>6 DEF handle, KeysTypeOK
      <3> QED
        BY <2>4, <3>1, <3>2
    <2>7. CASE Restart
      <3>1. Ordered' /\ LoadsAreCurrent'
        <4>1. UNCHANGED <<clock, stored>> /\ \A l \in Loaders : load'[l] = NoLoad
          BY <2>7 DEF Restart
        <4> QED
          BY <4>1, KeysQuietStep
      <3>2. \A r \in Lookups : ask'[r] = ask[r] \/ ask'[r] = NewAsk
        BY <2>7 DEF Restart
      <3>3. Clocked'
        <4>1. \A r \in Lookups : ask'[r].at <= clock /\ ask'[r].done <= clock /\ ask'[r].from <= clock
          BY <1>2, <3>2 DEF KeysInv, Clocked, NewAsk
        <4> QED
          BY <1>2, <2>7, <4>1 DEF Restart, Clocked
      <3>4. CopyIsAsFreshAsItSays'
        BY <2>7 DEF Restart, CopyIsAsFreshAsItSays, CurrentFrom
      <3>5. AnswersAreRecent'
        <4>1. stored' = stored /\ \A r \in Lookups : ask'[r] = ask[r] \/ ask'[r].pc # "done"
          BY <2>7, <3>2 DEF Restart, NewAsk
        <4> QED
          BY <4>1, OldAnswers
      <3> QED
        BY <3>1, <3>3, <3>4, <3>5
    <2>8. CASE ClockTicks
      <3>1. /\ clock' = clock + 1 /\ UNCHANGED <<stored, copy, checkAt, current, load, ask>>
        BY <2>8 DEF ClockTicks, cache
      <3>2. Ordered'
        <4>1. \A v \in DOMAIN stored : stored[v].at \in Nat /\ stored[v].at <= clock
          BY <1>2, Versions DEF KeysInv, Ordered
        <4>2. \A v \in DOMAIN stored : stored[v].at <= clock + 1
          BY <1>2, <4>1
        <4> QED
          BY <3>1, <4>2 DEF KeysInv, Ordered
      <3>3. LoadsAreCurrent'
        <4>1. ASSUME NEW l \in Loaders, load[l] # NoLoad
              PROVE  /\ load[l].from <= clock + 1
                     /\ load[l].got # Unread => CurrentFrom(load[l].got, load[l].from)
          <5>1. load[l].from \in Nat
            BY <1>2, <4>1 DEF KeysTypeOK, Load
          <5> QED
            BY <1>2, <3>1, <4>1, <5>1 DEF KeysInv, LoadsAreCurrent
        <4> QED
          BY <3>1, <4>1 DEF LoadsAreCurrent, CurrentFrom
      <3>4. Clocked'
        <4>1. \A r \in Lookups : ask[r] \in Ask /\ ask[r].at <= clock /\ ask[r].done <= clock
                                 /\ ask[r].from <= clock
          BY <1>2 DEF KeysInv, Clocked, KeysTypeOK
        <4>2. \A r \in Lookups : ask[r].at <= clock + 1 /\ ask[r].done <= clock + 1
                                 /\ ask[r].from <= clock + 1
          BY <1>2, <4>1 DEF Ask
        <4>3. checkAt \in Nat /\ checkAt <= clock + MaxAge
          BY <1>2 DEF KeysInv, Clocked, KeysTypeOK
        <4> QED
          BY <1>2, <3>1, <4>2, <4>3 DEF Clocked
      <3>5. CopyIsAsFreshAsItSays'
        BY <3>1 DEF KeysInv, CopyIsAsFreshAsItSays, CurrentFrom
      <3>6. AnswersAreRecent'
        BY <3>1, OldAnswers
      <3> QED
        BY <3>2, <3>3, <3>4, <3>5, <3>6
    <2>9. CASE UNCHANGED keysVars
      BY <2>4, <2>9 DEF keysVars
    <2> QED
      BY <2>1, <2>2, <2>3, <2>5, <2>6, <2>7, <2>8, <2>9 DEF KeysNext
  <1>4. KnowsItsLoad'
    BY KnownStep DEF KeysInv
  <1> QED
    BY <1>1, <1>3, <1>4 DEF KeysInv

\* The inductive invariant holds in every reachable state.
LEMMA Invariant == KeysSpec => []KeysInv
  BY InitIInv, StepIInv, IngestKeysAssumption, PTL DEF KeysSpec

----------------------------------------------------------------------------
(* The theorems. *)

\* The state of an instance is well typed, whatever loads overlap.
THEOREM KeysTyped == KeysSpec => []KeysTypeOK
  <1>1. KeysInv => KeysTypeOK
    BY DEF KeysInv
  <1> QED
    BY <1>1, Invariant, PTL

\* No copy is older than its next check says (config-cache.service.ts:80-93).
THEOREM CopyFreshness == KeysSpec => []CopyIsAsFreshAsItSays
  <1>1. KeysInv => CopyIsAsFreshAsItSays
    BY DEF KeysInv
  <1> QED
    BY <1>1, Invariant, PTL

\* While reads succeed no answer is older than CONFIG_MAX_AGE_SECONDS, or than the read the
\* request waited for (config-cache.service.ts:39-41), however long a read takes.
THEOREM RecentAnswers == KeysSpec => []AnswersAreRecent
  <1>1. KeysInv => AnswersAreRecent
    BY DEF KeysInv
  <1> QED
    BY <1>1, Invariant, PTL

\* No step replaces the copy by an older version (config-cache.service.ts:81).
THEOREM NoStepBack == KeysSpec => CopyNeverStepsBack
  <1>1. ASSUME KeysInv, [KeysNext]_keysVars
        PROVE  [copy' >= copy]_keysVars
    <2>1. KeysTypeOK /\ copy \in Nat /\ copy <= Len(stored) /\ Len(stored) \in Nat
      BY <1>1, Versions DEF KeysInv, KeysTypeOK
    <2>2. copy' >= copy
      <3>1. CASE copy' = copy
        BY <2>1, <3>1
      <3>2. CASE copy' = Len(stored)
        BY <2>1, <3>2
      <3>3. ASSUME NEW l \in Loaders, Reload(l)
            PROVE  copy' >= copy
        <4>1. copy' = IF load[l].got >= copy THEN load[l].got ELSE copy
          BY <3>3 DEF Reload
        <4> QED
          BY <2>1, <4>1
      <3>4. \/ copy' = copy \/ copy' = Len(stored) \/ \E l \in Loaders : Reload(l)
        BY <1>1 DEF KeysNext, CreateKey, RotateKey, RevokeKey, Store, lookupFresh, AskStale, AskKnown,
                    AskMissed, Read, ReloadFails, handle, Restart, ClockTicks, keysVars, cache
      <3> QED
        BY <3>1, <3>2, <3>3, <3>4
    <2> QED
      BY <2>2
  <1> QED
    BY <1>1, Invariant, PTL DEF KeysSpec, CopyNeverStepsBack
=============================================================================
