--------------------------- MODULE Console_proofs ---------------------------
(***************************************************************************)
(* For every scene, any number of selections and presses, and answers that *)
(* are late, out of order or lost: a hook at rest shows what is selected   *)
(* and the user's own writes, a panel claims nothing it was not told, an   *)
(* undone operation leaves nothing, and a named record has no twin.        *)
(*                                                                         *)
(* Below, the logs explorer, for any pills, presets, zooms, page and tail: *)
(* the address bar names the range on screen, and the live tail is one     *)
(* stream that loses nothing but what it cuts off.                         *)
(***************************************************************************)
EXTENDS Console, LogsExplorer, FiniteSetTheorems, SequenceTheorems, TLAPS

Call == [hook : Hooks, seq : Nat, of : Nat \ {0}, read : BOOLEAN,
         at : Nat, by : {0} \cup 1..Moves]

\* The call that counts for hook h.
Counts(c, h) == c.hook = h /\ c.seq = hook[h].seq

\* No call is ahead of its hook.
Numbered == \A c \in calls : c.seq <= hook[c.hook].seq

Resting(h) == ~hook[h].loading /\ ~hook[h].failed

\* What counts for a hook that is not due is for the selection.
ForSelection ==
    \A h \in Hooks \ timer :
        /\ \A c \in calls : Counts(c, h) => c.of = Selected(h)
        /\ Resting(h) => hook[h].of = Selected(h)

\* Press i has begun its reloads.
Issued(i) ==
    \/ press[i].at \in {"loading", "done"}
    \/ press[i].at = "failed" /\ scene.op.undo /\ press[i].step > 1

\* What counts for hook h has seen the first n writes, or will.
Seen(h, n) ==
    /\ \A c \in calls : Counts(c, h) /\ c.read => c.at >= n
    /\ Resting(h) => hook[h].at >= n

\* The hooks a press reloads see its last write.
SeesWrites ==
    \A i \in 1..Moves :
        /\ press[i].upto <= written
        /\ Issued(i) => \A h \in scene.op.reloads : Seen(h, press[i].upto)

\* A hook at rest has been told something.
Told == \A h \in Hooks : Resting(h) => hook[h].of # 0

\* A press that went on after a failure has taken back what it had applied.
TakenBack ==
    \A i \in 1..Moves :
        /\ press[i].at \in {"idle", "calling", "sent"} => press[i].ok
        /\ press[i].at = "failed" => ~press[i].ok
        /\ /\ scene.op.undo /\ press[i].step > 1 /\ ~press[i].ok /\ press[i].undone
           /\ press[i].at \in {"loading", "failed"}
           => press[i].left = 0

IInv == TypeOK /\ Numbered /\ ForSelection /\ SeesWrites /\ Told /\ TakenBack

----------------------------------------------------------------------------
(* Loads and answers. *)

\* Two states of one scene have the same hooks.
LEMMA SameScene ==
    ASSUME scene' = scene
    PROVE  Hooks' = Hooks /\ Moves' = Moves /\ Call' = Call
  BY DEF Hooks, Moves, Call

\* A load leaves one call that counts for each of its hooks, unread and for
\* what is selected, and does not touch the others.
LEMMA LoadCounts ==
    ASSUME TypeOK, Numbered, NEW hs \in SUBSET Hooks, NEW by \in {0} \cup 1..Moves, Load(hs, by)
    PROVE  /\ hook' \in [Hooks -> HookState] /\ calls' \subseteq Call
           /\ \A c \in calls' : c.seq <= hook'[c.hook].seq
           /\ \A h \in hs :
                /\ hook'[h].loading
                /\ \A c \in calls' : c.hook = h /\ c.seq = hook'[h].seq => ~c.read /\ c.of = Selected(h)
           /\ \A h \in Hooks \ hs :
                hook'[h] = hook[h] /\ \A c \in calls' : c.hook = h => c \in calls
  <1>1. hook \in [Hooks -> HookState] /\ calls \subseteq Call /\ sel \in Nat \ {0}
    BY DEF TypeOK, Call
  <1> DEFINE new(h) == [hook |-> h, seq |-> hook[h].seq + 1, of |-> Selected(h),
                        read |-> FALSE, at |-> 0, by |-> by]
  <1>2. \A h \in Hooks : hook[h] \in HookState /\ hook[h].seq \in Nat /\ Selected(h) \in Nat \ {0}
    BY <1>1 DEF HookState, Selected
  <1>3. calls' = calls \cup {new(h) : h \in hs}
    BY DEF Load
  <1>4. \A h \in Hooks : new(h) \in Call
    BY <1>2 DEF Call
  <1>5. \A h \in Hooks :
            /\ h \in hs => /\ hook'[h] \in HookState /\ hook'[h].seq = hook[h].seq + 1
                           /\ hook'[h].loading
            /\ h \notin hs => hook'[h] = hook[h]
    <2>1. ASSUME NEW x \in HookState
          PROVE  /\ [x EXCEPT !.seq = @ + 1, !.loading = TRUE, !.failed = FALSE] \in HookState
                 /\ [x EXCEPT !.seq = @ + 1, !.loading = TRUE, !.failed = FALSE].seq = x.seq + 1
                 /\ [x EXCEPT !.seq = @ + 1, !.loading = TRUE, !.failed = FALSE].loading
      <3> DEFINE y == [x EXCEPT !.seq = @ + 1, !.loading = TRUE, !.failed = FALSE]
      <3>1. y.seq = x.seq + 1
        BY DEF HookState
      <3>2. y.loading
        BY DEF HookState
      <3>3. y \in HookState
        <4>1. PICK n \in Nat : n = x.seq + 1
          BY DEF HookState
        <4>2. y = [x EXCEPT !.seq = n, !.loading = TRUE, !.failed = FALSE]
          BY <4>1
        <4>3. [x EXCEPT !.seq = n, !.loading = TRUE, !.failed = FALSE] \in HookState
          BY DEF HookState
        <4> QED
          BY <4>2, <4>3
      <3> QED
        BY <3>1, <3>2, <3>3
    <2>2. \A h \in Hooks :
              hook'[h] = IF h \in hs
                         THEN [hook[h] EXCEPT !.seq = @ + 1, !.loading = TRUE, !.failed = FALSE]
                         ELSE hook[h]
      BY DEF Load
    <2> QED
      BY <1>2, <2>1, <2>2
  <1>6. hook' \in [Hooks -> HookState]
    <2>1. hook' = [h \in Hooks |-> hook'[h]]
      BY DEF Load
    <2> QED
      BY <1>2, <1>5, <2>1
  <1>7. \A c \in calls : c.hook \in Hooks /\ c.seq \in Nat /\ c.seq <= hook[c.hook].seq
    BY <1>1 DEF Numbered, Call
  <1>8. \A c \in calls' : c \in calls \/ \E h \in hs : c = new(h)
    BY <1>3
  <1>9. ASSUME NEW c \in calls'
        PROVE  c.seq <= hook'[c.hook].seq
    <2>1. CASE c \in calls
      BY <1>2, <1>5, <1>7, <2>1
    <2>2. CASE \E h \in hs : c = new(h)
      BY <1>2, <1>5, <2>2
    <2> QED
      BY <1>8, <2>1, <2>2
  <1>10. ASSUME NEW h \in hs, NEW c \in calls', c.hook = h, c.seq = hook'[h].seq
         PROVE  ~c.read /\ c.of = Selected(h)
    <2>1. c \notin calls
      BY <1>2, <1>5, <1>7, <1>10
    <2>2. PICK k \in hs : c = new(k)
      BY <1>8, <2>1
    <2>3. k = h
      BY <1>10, <2>2
    <2> QED
      BY <2>2, <2>3
  <1>11. ASSUME NEW h \in Hooks \ hs, NEW c \in calls', c.hook = h
         PROVE  c \in calls
    BY <1>8, <1>11
  <1>12. calls' \subseteq Call
    BY <1>1, <1>4, <1>8
  <1> QED
    BY <1>5, <1>6, <1>9, <1>10, <1>11, <1>12

\* An answer, or a failure, counts if its call does.
LEMMA SettleCounts ==
    ASSUME TypeOK, NEW c \in calls, NEW x \in HookState,
           x.seq = hook[c.hook].seq, Settle(c, x)
    PROVE  /\ hook' \in [Hooks -> HookState]
           /\ \A h \in Hooks : hook'[h].seq = hook[h].seq
           /\ \A h \in Hooks : \/ hook'[h] = hook[h]
                               \/ Counts(c, h) /\ hook'[h] = x
  <1>1. hook \in [Hooks -> HookState] /\ c.hook \in Hooks
    BY DEF TypeOK
  <1>2. hook' = IF hook[c.hook].seq = c.seq THEN [hook EXCEPT ![c.hook] = x] ELSE hook
    BY DEF Settle
  <1> QED
    BY <1>1, <1>2 DEF Counts

\* A panel starts with every hook reading for what is selected.
LEMMA InitIInv == ASSUME Init PROVE IInv
  <1>1. Fresh \in HookState /\ Idle \in PressState
    BY DEF Fresh, HookState, Idle, PressState
  <1>2. TypeOK
    BY <1>1 DEF Init, TypeOK
  <1>3. Numbered /\ ForSelection
    BY DEF Init, Numbered, ForSelection
  <1>4. Told
    BY DEF Init, Told, Resting, Fresh
  <1>5. SeesWrites
    BY DEF Init, SeesWrites, Issued, Idle
  <1>6. TakenBack
    BY DEF Init, TakenBack, Idle
  <1> QED
    BY <1>2, <1>3, <1>4, <1>5, <1>6 DEF IInv

----------------------------------------------------------------------------
(* What a step of the hooks keeps: the parts of the invariant that are      *)
(* about hooks, and what they have seen.                                    *)

\* Starting loads numbers them and asks for what is selected; a hook that saw a
\* write, or loads after it, sees it.
LEMMA LoadKeeps ==
    ASSUME IInv, scene' = scene, sel' = sel, NEW hs \in SUBSET Hooks,
           timer' = timer \/ timer' = timer \ hs,
           NEW by \in {0} \cup 1..Moves, Load(hs, by)
    PROVE  /\ hook' \in [Hooks -> HookState] /\ calls' \subseteq Call
           /\ Numbered' /\ ForSelection' /\ Told'
           /\ \A h \in Hooks, n \in Nat : Seen(h, n) \/ h \in hs => Seen(h, n)'
  <1>1. TypeOK /\ Numbered /\ ForSelection /\ Told
    BY DEF IInv
  <1>2. /\ hook' \in [Hooks -> HookState] /\ calls' \subseteq Call
        /\ \A c \in calls' : c.seq <= hook'[c.hook].seq
        /\ \A h \in hs :
             /\ hook'[h].loading
             /\ \A c \in calls' : c.hook = h /\ c.seq = hook'[h].seq => ~c.read /\ c.of = Selected(h)
        /\ \A h \in Hooks \ hs :
             hook'[h] = hook[h] /\ \A c \in calls' : c.hook = h => c \in calls
    BY <1>1, LoadCounts
  <1>3. Hooks' = Hooks /\ \A h : Selected(h)' = Selected(h)
    BY SameScene DEF Selected
  <1>4. Numbered'
    BY <1>2 DEF Numbered
  <1>5. ForSelection'
    <2>1. ASSUME NEW h \in Hooks, h \notin timer'
          PROVE  /\ \A c \in calls' : c.hook = h /\ c.seq = hook'[h].seq => c.of = Selected(h)
                 /\ ~hook'[h].loading /\ ~hook'[h].failed => hook'[h].of = Selected(h)
      <3>1. CASE h \in hs
        BY <1>2, <3>1
      <3>2. CASE h \notin hs
        BY <1>1, <1>2, <2>1, <3>2 DEF ForSelection, Counts, Resting
      <3> QED
        BY <3>1, <3>2
    <2> QED
      BY <1>3, <2>1 DEF ForSelection, Counts, Resting
  <1>6. Told'
    BY <1>1, <1>2, <1>3 DEF Told, Resting
  <1>7. ASSUME NEW h \in Hooks, NEW n \in Nat, Seen(h, n) \/ h \in hs
        PROVE  Seen(h, n)'
    <2>1. CASE h \in hs
      BY <1>2, <2>1 DEF Seen, Counts, Resting
    <2>2. CASE h \notin hs
      BY <1>2, <1>7, <2>2 DEF Seen, Counts, Resting
    <2> QED
      BY <2>1, <2>2
  <1> QED
    BY <1>2, <1>4, <1>5, <1>6, <1>7

\* An answer read by the server has every write made until then.
LEMMA ReadKeeps ==
    ASSUME IInv, NEW c \in calls, ServerReads(c)
    PROVE  /\ calls' \subseteq Call /\ Numbered' /\ ForSelection' /\ Told'
           /\ \A h \in Hooks, n \in Nat : n <= written /\ Seen(h, n) => Seen(h, n)'
  <1>1. calls \subseteq Call /\ written \in Nat /\ Numbered /\ ForSelection /\ Told
    BY DEF IInv, TypeOK, Call
  <1>2. UNCHANGED <<scene, sel, timer, hook>>
    BY DEF ServerReads
  <1> DEFINE d == [c EXCEPT !.read = TRUE, !.at = written]
  <1>3. /\ d \in Call /\ d.hook = c.hook /\ d.seq = c.seq /\ d.of = c.of /\ d.at = written
    BY <1>1 DEF Call
  <1>4. calls' = (calls \ {c}) \cup {d}
    BY DEF ServerReads
  <1> HIDE DEF d
  <1>5. calls' \subseteq Call /\ \A e \in calls' : e \in calls \/ e = d
    BY <1>1, <1>3, <1>4
  <1>6. Hooks' = Hooks /\ \A h : Selected(h)' = Selected(h)
    BY <1>2, SameScene DEF Selected
  <1>7. Numbered'
    BY <1>1, <1>2, <1>3, <1>5 DEF Numbered
  <1>8. ForSelection'
    BY <1>1, <1>2, <1>3, <1>5, <1>6 DEF ForSelection, Counts, Resting
  <1>9. Told'
    BY <1>1, <1>2, <1>6 DEF Told, Resting
  <1>10. ASSUME NEW h \in Hooks, NEW n \in Nat, n <= written, Seen(h, n)
         PROVE  Seen(h, n)'
    BY <1>1, <1>2, <1>3, <1>5, <1>10 DEF Seen, Counts, Resting
  <1> QED
    BY <1>5, <1>7, <1>8, <1>9, <1>10

\* The hook keeps what it had unless the call counts; then it is either
\* what the call found, or failed.
LEMMA SettleKeeps ==
    ASSUME IInv, NEW c \in calls, NEW x \in HookState, UNCHANGED <<scene, sel, timer>>,
           x.seq = hook[c.hook].seq, Settle(c, x), calls' = calls \ {c},
           x.failed \/ (c.read /\ x.of = c.of /\ x.at = c.at)
    PROVE  /\ hook' \in [Hooks -> HookState] /\ calls' \subseteq Call
           /\ Numbered' /\ ForSelection' /\ Told'
           /\ \A h \in Hooks, n \in Nat : Seen(h, n) => Seen(h, n)'
  <1>1. TypeOK /\ calls \subseteq Call /\ Numbered /\ ForSelection /\ Told
    BY DEF IInv, TypeOK, Call
  <1>2. /\ hook' \in [Hooks -> HookState]
        /\ \A h \in Hooks : hook'[h].seq = hook[h].seq
        /\ \A h \in Hooks : \/ hook'[h] = hook[h]
                            \/ Counts(c, h) /\ hook'[h] = x
    BY <1>1, SettleCounts
  <1>3. Hooks' = Hooks /\ \A h : Selected(h)' = Selected(h)
    BY SameScene DEF Selected
  <1>4. \A e \in calls : e.hook \in Hooks /\ e.of # 0
    BY <1>1 DEF Call
  <1>5. Numbered'
    BY <1>1, <1>2, <1>4 DEF Numbered
  <1>6. ForSelection'
    <2>1. ASSUME NEW h \in Hooks, h \notin timer
          PROVE  /\ \A e \in calls' : e.hook = h /\ e.seq = hook'[h].seq => e.of = Selected(h)
                 /\ ~hook'[h].loading /\ ~hook'[h].failed => hook'[h].of = Selected(h)
      <3>1. \A e \in calls : Counts(e, h) => e.of = Selected(h)
        BY <1>1, <2>1 DEF ForSelection
      <3>2. Resting(h) => hook[h].of = Selected(h)
        BY <1>1, <2>1 DEF ForSelection
      <3> QED
        BY <1>2, <3>1, <3>2 DEF Counts, Resting
    <2> QED
      BY <1>3, <2>1 DEF ForSelection, Counts, Resting
  <1>7. Told'
    BY <1>1, <1>2, <1>3, <1>4 DEF Told, Resting
  <1>8. ASSUME NEW h \in Hooks, NEW n \in Nat, Seen(h, n)
        PROVE  Seen(h, n)'
    BY <1>2, <1>8 DEF Seen, Counts, Resting
  <1> QED
    BY <1>1, <1>2, <1>5, <1>6, <1>7, <1>8

----------------------------------------------------------------------------
(* The steps that leave the presses alone. *)

\* A step of the hooks alone that keeps their parts of the invariant keeps all
\* of it.
LEMMA HookStep ==
    ASSUME IInv, UNCHANGED <<scene, written, press>>,
           sel' \in Nat \ {0}, timer' \subseteq Hooks,
           hook' \in [Hooks -> HookState], calls' \subseteq Call,
           Numbered', ForSelection', Told',
           \A h \in Hooks, n \in Nat : n <= written /\ Seen(h, n) => Seen(h, n)'
    PROVE  IInv'
  <1>1. Hooks' = Hooks /\ Moves' = Moves /\ Call' = Call
    BY SameScene
  <1>2. TypeOK'
    <2>1. TypeOK /\ calls' \subseteq Call'
      BY <1>1 DEF IInv
    <2> QED
      BY <1>1, <2>1 DEF TypeOK, Call
  <1>3. SeesWrites'
    <2>1. ASSUME NEW i \in 1..Moves
          PROVE  /\ press[i].upto <= written
                 /\ Issued(i) => \A h \in scene.op.reloads : Seen(h, press[i].upto)'
      <3>1. press[i].upto \in Nat /\ press[i].upto <= written
        BY DEF IInv, TypeOK, PressState, SeesWrites
      <3>2. \A h \in scene.op.reloads : h \in Hooks
        BY DEF Hooks
      <3>3. PICK n \in Nat : n = press[i].upto
        BY <3>1
      <3>4. Issued(i) => \A h \in scene.op.reloads : Seen(h, n)'
        BY <3>1, <3>2, <3>3 DEF IInv, SeesWrites
      <3> QED
        BY <3>1, <3>3, <3>4
    <2> QED
      BY <1>1, <2>1 DEF SeesWrites, Issued
  <1>4. TakenBack'
    BY <1>1 DEF IInv, TakenBack
  <1> QED
    BY <1>2, <1>3, <1>4 DEF IInv

\* Selecting reloads what depends on the selection.
LEMMA SelectStep == ASSUME IInv, Select PROVE IInv'
  <1>1. /\ UNCHANGED <<scene, hook, calls, written, press>>
        /\ sel' = sel + 1 /\ timer' = timer \cup {h \in Hooks : IsKeyed(h)}
    BY DEF Select
  <1>2. /\ sel \in Nat \ {0} /\ timer \subseteq Hooks /\ hook \in [Hooks -> HookState]
        /\ calls \subseteq Call
    BY DEF IInv, TypeOK, Call
  <1>3. Hooks' = Hooks
    BY <1>1, SameScene
  <1>4. Numbered' /\ Told'
    BY <1>1, <1>3 DEF IInv, Numbered, Told, Resting
  <1>5. ForSelection'
    <2>1. \A h \in Hooks \ timer' : h \in Hooks \ timer /\ Selected(h)' = Selected(h)
      BY <1>1 DEF Selected, IsKeyed
    <2> QED
      BY <1>1, <1>3, <2>1 DEF IInv, ForSelection, Counts, Resting
  <1>6. \A h, n : Seen(h, n) => Seen(h, n)'
    BY <1>1 DEF Seen, Counts, Resting
  <1> QED
    BY <1>1, <1>2, <1>4, <1>5, <1>6, HookStep

\* A poll reloads its hook.
LEMMA TickStep == ASSUME IInv, NEW h \in Hooks, Tick(h) PROVE IInv'
  <1>1. /\ UNCHANGED <<scene, sel, written, press>> /\ timer' = timer \ {h}
        /\ Load({h}, 0)
    BY DEF Tick
  <1>2. sel \in Nat \ {0} /\ timer \subseteq Hooks
    BY DEF IInv, TypeOK
  <1>3. /\ hook' \in [Hooks -> HookState] /\ calls' \subseteq Call
        /\ Numbered' /\ ForSelection' /\ Told'
        /\ \A k \in Hooks, n \in Nat : Seen(k, n) \/ k \in {h} => Seen(k, n)'
    BY <1>1, LoadKeeps
  <1> QED
    BY <1>1, <1>2, <1>3, HookStep

\* Answers, late ones too, are shown only by the load they belong to
\* (useAsync).
LEMMA SettlingStep == ASSUME IInv, Settling PROVE IInv'
  <1>1. PICK c \in calls : ServerReads(c) \/ Answer(c) \/ Fail(c)
    BY DEF Settling
  <1>2. /\ sel \in Nat \ {0} /\ timer \subseteq Hooks /\ hook \in [Hooks -> HookState]
        /\ calls \subseteq Call /\ c \in Call
    BY DEF IInv, TypeOK, Call
  <1>3. CASE ServerReads(c)
    <2>1. UNCHANGED <<scene, sel, timer, hook, written, press>>
      BY <1>3 DEF ServerReads
    <2>2. /\ calls' \subseteq Call /\ Numbered' /\ ForSelection' /\ Told'
          /\ \A h \in Hooks, n \in Nat : n <= written /\ Seen(h, n) => Seen(h, n)'
      BY <1>3, ReadKeeps
    <2> QED
      BY <1>2, <2>1, <2>2, HookStep
  <1>4. ASSUME NEW x \in HookState, x.seq = hook[c.hook].seq, Settle(c, x), calls' = calls \ {c},
               x.failed \/ (c.read /\ x.of = c.of /\ x.at = c.at),
               UNCHANGED <<scene, sel, timer, written, press>>
        PROVE  IInv'
    <2>1. /\ hook' \in [Hooks -> HookState] /\ calls' \subseteq Call
          /\ Numbered' /\ ForSelection' /\ Told'
          /\ \A h \in Hooks, n \in Nat : Seen(h, n) => Seen(h, n)'
      BY <1>4, SettleKeeps
    <2> QED
      BY <1>2, <1>4, <2>1, HookStep
  <1>5. PICK y \in HookState : y = hook[c.hook]
    BY <1>2 DEF Call
  <1>6. c.of \in Nat /\ c.at \in Nat
    BY <1>2 DEF Call
  <1>7. CASE Answer(c)
    <2> DEFINE x == [y EXCEPT !.loading = FALSE, !.of = c.of, !.at = c.at]
    <2>1. x \in HookState /\ x.seq = y.seq /\ x.of = c.of /\ x.at = c.at
      BY <1>6 DEF HookState
    <2>2. /\ Settle(c, x) /\ calls' = calls \ {c} /\ c.read
          /\ UNCHANGED <<scene, sel, timer, written, press>>
      BY <1>5, <1>7 DEF Answer
    <2> HIDE DEF x
    <2> QED
      BY <1>4, <1>5, <2>1, <2>2
  <1>8. CASE Fail(c)
    <2> DEFINE x == [y EXCEPT !.loading = FALSE, !.failed = TRUE]
    <2>1. x \in HookState /\ x.seq = y.seq
      BY DEF HookState
    <2>2. x.failed
      BY DEF HookState
    <2>3. /\ Settle(c, x) /\ calls' = calls \ {c}
          /\ UNCHANGED <<scene, sel, timer, written, press>>
      BY <1>5, <1>8 DEF Fail
    <2> HIDE DEF x
    <2> QED
      BY <1>4, <1>5, <2>1, <2>2, <2>3
  <1> QED
    BY <1>1, <1>3, <1>7, <1>8

----------------------------------------------------------------------------
(* The steps of a press. *)

\* A press i that becomes p, in a step that takes nothing from the hooks.
LEMMA PressStep ==
    ASSUME IInv, UNCHANGED <<scene, sel, timer>>, NEW i \in 1..Moves, NEW p \in PressState,
           press' = [press EXCEPT ![i] = p],
           written' \in Nat, written <= written', p.upto <= written',
           hook' \in [Hooks -> HookState], calls' \subseteq Call,
           Numbered', ForSelection', Told',
           \A h \in Hooks, n \in Nat : Seen(h, n) => Seen(h, n)',
           Issued(i)' => \A h \in scene.op.reloads : Seen(h, p.upto)',
           p.at \in {"idle", "calling", "sent"} => p.ok,
           p.at = "failed" => ~p.ok,
           /\ scene.op.undo /\ p.step > 1 /\ ~p.ok /\ p.undone /\ p.at \in {"loading", "failed"}
           => p.left = 0
    PROVE  IInv'
  <1>1. Hooks' = Hooks /\ Moves' = Moves /\ Call' = Call
    BY SameScene
  <1>2. /\ TypeOK /\ press \in [1..Moves -> PressState] /\ written \in Nat
        /\ press' \in [1..Moves -> PressState] /\ press'[i] = p
        /\ \A j \in 1..Moves : j # i => press'[j] = press[j]
    BY DEF IInv, TypeOK
  <1>3. TypeOK'
    BY <1>1, <1>2 DEF TypeOK, Call
  <1>4. SeesWrites'
    <2>1. ASSUME NEW j \in 1..Moves, j # i
          PROVE  /\ press[j].upto <= written'
                 /\ Issued(j) => \A h \in scene.op.reloads : Seen(h, press[j].upto)'
      <3>1. press[j].upto \in Nat /\ press[j].upto <= written
        BY <1>2 DEF IInv, PressState, SeesWrites
      <3>2. \A h \in scene.op.reloads : h \in Hooks
        BY DEF Hooks
      <3>3. PICK n \in Nat : n = press[j].upto
        BY <3>1
      <3>4. press' [j] = press[j]
        BY <1>2, <2>1
      <3>5. Issued(j) => \A h \in scene.op.reloads : Seen(h, n)'
        BY <3>2, <3>3 DEF IInv, SeesWrites
      <3> QED
        BY <1>2, <3>1, <3>3, <3>4, <3>5
    <2>2. \A j \in 1..Moves : j # i => (Issued(j)' <=> Issued(j))
      BY <1>2 DEF Issued
    <2> QED
      BY <1>1, <1>2, <2>1, <2>2 DEF SeesWrites
  <1>5. TakenBack'
    BY <1>1, <1>2 DEF IInv, TakenBack
  <1> QED
    BY <1>3, <1>4, <1>5 DEF IInv

\* A step that touches neither hooks nor calls.
LEMMA QuietKeeps ==
    ASSUME IInv, UNCHANGED <<scene, sel, timer, hook, calls>>
    PROVE  /\ hook' \in [Hooks -> HookState] /\ calls' \subseteq Call
           /\ Numbered' /\ ForSelection' /\ Told'
           /\ \A h \in Hooks, n \in Nat : Seen(h, n) <=> Seen(h, n)'
  <1>1. Hooks' = Hooks /\ \A h : Selected(h)' = Selected(h)
    BY SameScene DEF Selected
  <1>2. hook' \in [Hooks -> HookState] /\ calls' \subseteq Call
    BY DEF IInv, TypeOK, Call
  <1>3. Numbered' /\ ForSelection' /\ Told'
    BY <1>1 DEF IInv, Numbered, ForSelection, Told, Counts, Resting
  <1>4. \A h \in Hooks, n \in Nat : Seen(h, n) <=> Seen(h, n)'
    BY DEF Seen, Counts, Resting
  <1> QED
    BY <1>2, <1>3, <1>4

\* What the steps of a press need of it.
LEMMA PressFacts ==
    ASSUME IInv, NEW i \in 1..Moves
    PROVE  /\ press[i] \in PressState /\ press \in [1..Moves -> PressState]
           /\ press[i].upto \in Nat /\ press[i].upto <= written /\ written \in Nat
           /\ press[i].step \in Nat /\ press[i].left \in Nat
           /\ press[i].at \in {"idle", "calling", "sent"} => press[i].ok
  <1>1. press \in [1..Moves -> PressState] /\ written \in Nat
    BY DEF IInv, TypeOK
  <1>2. press[i] \in PressState
    BY <1>1
  <1>3. press[i].upto \in Nat /\ press[i].step \in Nat /\ press[i].left \in Nat
    BY <1>2 DEF PressState
  <1> QED
    BY <1>1, <1>2, <1>3 DEF IInv, SeesWrites, TakenBack

\* A press that stays in the hands of the page, or ends as it should.
LEMMA QuietPress ==
    ASSUME IInv, UNCHANGED <<scene, sel, timer, hook, calls, written>>,
           NEW i \in 1..Moves, NEW p \in PressState, press' = [press EXCEPT ![i] = p],
           p.upto = press[i].upto,
           Issued(i)' => Issued(i),
           p.at \in {"idle", "calling", "sent"} => p.ok,
           p.at = "failed" => ~p.ok,
           /\ scene.op.undo /\ p.step > 1 /\ ~p.ok /\ p.undone /\ p.at \in {"loading", "failed"}
           => p.left = 0
    PROVE  IInv'
  <1>1. /\ press[i].upto \in Nat /\ press[i].upto <= written /\ written \in Nat
    BY PressFacts
  <1>2. /\ hook' \in [Hooks -> HookState] /\ calls' \subseteq Call
        /\ Numbered' /\ ForSelection' /\ Told'
        /\ \A h \in Hooks, n \in Nat : Seen(h, n) <=> Seen(h, n)'
    BY QuietKeeps
  <1>3. Issued(i)' => \A h \in scene.op.reloads : Seen(h, p.upto)'
    <2>1. PICK n \in Nat : n = p.upto
      BY <1>1
    <2>2. Issued(i) => \A h \in scene.op.reloads : Seen(h, n)
      BY <1>1, <2>1 DEF IInv, SeesWrites
    <2>3. \A h \in scene.op.reloads : h \in Hooks
      BY DEF Hooks
    <2>4. Issued(i)' => \A h \in scene.op.reloads : Seen(h, n)'
      BY <1>2, <2>2, <2>3
    <2> QED
      BY <2>1, <2>4
  <1>4. written' \in Nat /\ written <= written' /\ p.upto <= written'
    BY <1>1
  <1>5. \A h \in Hooks, n \in Nat : Seen(h, n) => Seen(h, n)'
    BY <1>2
  <1> QED
    BY <1>2, <1>3, <1>4, <1>5, PressStep

\* A press starts from what the page shows.
LEMMA PressedStep ==
    ASSUME ConsoleAssumption, IInv, NEW i \in 1..Moves, Press(i)
    PROVE  IInv'
  <1>1. press[i] \in PressState /\ (press[i].at \in {"idle", "calling", "sent"} => press[i].ok)
    BY PressFacts
  <1>2. press[i].at = "idle"
    <2>1. Moves \in Nat
      BY DEF IInv, TypeOK, Moves, ConsoleAssumption
    <2>2. i \notin Pressed
      BY <2>1 DEF Press
    <2> QED
      BY <2>2 DEF Pressed
  <1> DEFINE p == [press[i] EXCEPT !.at = "calling"]
  <1>3. /\ p \in PressState /\ p.at = "calling" /\ p.upto = press[i].upto
    BY <1>1 DEF PressState
  <1>4. p.ok
    BY <1>1, <1>2 DEF PressState
  <1>5. press' = [press EXCEPT ![i] = p] /\ press'[i].at = "calling"
    BY PressFacts DEF Press, PressState
  <1>6. ~Issued(i)'
    BY <1>5 DEF Issued
  <1>7. UNCHANGED <<scene, sel, timer, hook, calls, written>>
    BY DEF Press
  <1> HIDE DEF p
  <1> QED
    BY <1>3, <1>4, <1>5, <1>6, <1>7, QuietPress

\* A call that fails ends the press, or starts to undo it.
LEMMA CallFailsStep ==
    ASSUME IInv, NEW i \in 1..Moves, CallFails(i)
    PROVE  IInv'
  <1> DEFINE p == [press[i] EXCEPT !.ok = FALSE,
                                   !.at = IF scene.op.undo /\ press[i].step > 1
                                          THEN "undoing" ELSE "failed"]
  <1>1. press[i] \in PressState
    BY PressFacts
  <1>2. /\ p \in PressState /\ p.upto = press[i].upto /\ p.step = press[i].step
        /\ p.at = IF scene.op.undo /\ press[i].step > 1 THEN "undoing" ELSE "failed"
    BY <1>1 DEF PressState
  <1>3. ~p.ok
    BY <1>1 DEF PressState
  <1>4. press' = [press EXCEPT ![i] = p]
    BY DEF CallFails
  <1>5. press'[i] = p
    BY <1>4, PressFacts
  <1>6. UNCHANGED <<scene, sel, timer, hook, calls, written>>
    BY DEF CallFails
  <1> HIDE DEF p
  <1>7. ~Issued(i)'
    BY <1>2, <1>5, <1>6 DEF Issued
  <1> QED
    BY <1>2, <1>3, <1>4, <1>6, <1>7, QuietPress

\* A press ends when everything it reloads has come to rest.
LEMMA EndStep ==
    ASSUME IInv, NEW i \in 1..Moves, End(i)
    PROVE  IInv'
  <1> DEFINE p == [press[i] EXCEPT !.at = IF press[i].ok THEN "done" ELSE "failed"]
  <1>1. press[i] \in PressState /\ press[i].at = "loading"
    BY PressFacts DEF End
  <1>2. /\ p \in PressState /\ p.upto = press[i].upto /\ p.step = press[i].step
        /\ p.left = press[i].left
        /\ p.at = IF press[i].ok THEN "done" ELSE "failed"
    BY <1>1 DEF PressState
  <1>3. (p.ok <=> press[i].ok) /\ (p.undone <=> press[i].undone)
    BY <1>1 DEF PressState
  <1>4. /\ press' = [press EXCEPT ![i] = p]
        /\ UNCHANGED <<scene, sel, timer, hook, calls, written>>
    BY DEF End
  <1>5. Issued(i)
    BY <1>1 DEF Issued
  <1>6. /\ scene.op.undo /\ p.step > 1 /\ ~p.ok /\ p.undone /\ p.at \in {"loading", "failed"}
        => p.left = 0
    BY <1>1, <1>2, <1>3 DEF IInv, TakenBack
  <1> HIDE DEF p
  <1> QED
    BY <1>2, <1>3, <1>4, <1>5, <1>6, QuietPress

\* The server carries a call out: it has been written.
LEMMA ApplyStep ==
    ASSUME IInv, NEW i \in 1..Moves, Apply(i)
    PROVE  IInv'
  <1> DEFINE p == [press[i] EXCEPT !.at = "sent", !.left = @ + 1, !.upto = written + 1]
  <1>1. /\ press[i] \in PressState /\ press[i].at = "calling" /\ press[i].ok
        /\ written \in Nat /\ press \in [1..Moves -> PressState]
    BY PressFacts DEF Apply
  <1>2. p \in PressState /\ p.at = "sent" /\ p.upto = written + 1
    <2>1. press[i].left + 1 \in Nat /\ written + 1 \in Nat
      BY <1>1 DEF PressState
    <2>2. \A n, m \in Nat : [press[i] EXCEPT !.at = "sent", !.left = n, !.upto = m] \in PressState
      BY <1>1 DEF PressState
    <2> QED
      BY <1>1, <2>1, <2>2 DEF PressState
  <1>3. p.ok
    BY <1>1 DEF PressState
  <1>4. /\ press' = [press EXCEPT ![i] = p] /\ written' = written + 1
        /\ UNCHANGED <<scene, sel, timer, hook, calls>>
    BY DEF Apply
  <1>5. press'[i] = p
    BY <1>1, <1>4
  <1> HIDE DEF p
  <1>6. ~Issued(i)'
    BY <1>2, <1>5 DEF Issued
  <1>7. written' \in Nat /\ written <= written' /\ p.upto <= written'
    BY <1>1, <1>2, <1>4
  <1>8. /\ hook' \in [Hooks -> HookState] /\ calls' \subseteq Call
        /\ Numbered' /\ ForSelection' /\ Told'
        /\ \A h \in Hooks, n \in Nat : Seen(h, n) <=> Seen(h, n)'
    BY <1>4, QuietKeeps
  <1> QED
    BY <1>2, <1>3, <1>4, <1>6, <1>7, <1>8, PressStep

\* await state.reload(): the hooks it loads have seen nothing that is too old.
LEMMA ReloadStep ==
    ASSUME IInv, NEW i \in 1..Moves, UNCHANGED <<scene, sel, timer>>,
           Load(scene.op.reloads, i),
           NEW p \in PressState, p.at = "loading", press' = [press EXCEPT ![i] = p],
           written' \in Nat, written <= written', p.upto <= written',
           scene.op.undo /\ p.step > 1 /\ ~p.ok /\ p.undone => p.left = 0
    PROVE  IInv'
  <1>1. scene.op.reloads \in SUBSET Hooks
    BY DEF Hooks
  <1>2. /\ hook' \in [Hooks -> HookState] /\ calls' \subseteq Call
        /\ Numbered' /\ ForSelection' /\ Told'
        /\ \A h \in Hooks, n \in Nat : Seen(h, n) \/ h \in scene.op.reloads => Seen(h, n)'
    BY <1>1, LoadKeeps
  <1>3. PICK n \in Nat : n = p.upto
    BY DEF PressState
  <1>4. \A h \in scene.op.reloads : Seen(h, n)'
    BY <1>1, <1>2
  <1>5. \A h \in scene.op.reloads : Seen(h, p.upto)'
    BY <1>3, <1>4
  <1>6. p.at \notin {"idle", "calling", "sent"} /\ p.at # "failed"
    OBVIOUS
  <1>7. \A h \in Hooks, m \in Nat : Seen(h, m) => Seen(h, m)'
    BY <1>2
  <1> QED
    BY <1>2, <1>5, <1>6, <1>7, PressStep

\* The next call of a press, or the reloads after its last one.
LEMMA ProceedStep ==
    ASSUME IInv, NEW i \in 1..Moves, Proceed(i)
    PROVE  IInv'
  <1>1. /\ press[i] \in PressState /\ press[i].at = "sent" /\ press[i].ok
        /\ written \in Nat /\ press \in [1..Moves -> PressState]
        /\ press[i].upto <= written
    BY PressFacts DEF Proceed
  <1>2. UNCHANGED <<scene, sel, timer, written>>
    BY DEF Proceed
  <1>3. CASE press[i].step < Len(scene.op.calls)
    <2> DEFINE p == [press[i] EXCEPT !.at = "calling", !.step = @ + 1]
    <2>1. p \in PressState /\ p.at = "calling" /\ p.upto = press[i].upto
      <3>1. press[i].step + 1 \in Nat
        BY <1>1 DEF PressState
      <3>2. \A n \in Nat : [press[i] EXCEPT !.at = "calling", !.step = n] \in PressState
        BY <1>1 DEF PressState
      <3> QED
        BY <1>1, <3>1, <3>2 DEF PressState
    <2>2. p.ok
      BY <1>1 DEF PressState
    <2>3. press' = [press EXCEPT ![i] = p] /\ UNCHANGED <<hook, calls>>
      BY <1>3 DEF Proceed
    <2>4. press'[i] = p
      BY <1>1, <2>3
    <2> HIDE DEF p
    <2>5. ~Issued(i)'
      BY <2>1, <2>4 DEF Issued
    <2> QED
      BY <1>2, <2>1, <2>2, <2>3, <2>5, QuietPress
  <1>4. CASE ~(press[i].step < Len(scene.op.calls))
    <2> DEFINE p == [press[i] EXCEPT !.at = "loading"]
    <2>1. p \in PressState /\ p.at = "loading" /\ p.upto = press[i].upto
      BY <1>1 DEF PressState
    <2>2. p.ok
      BY <1>1 DEF PressState
    <2>3. press' = [press EXCEPT ![i] = p] /\ Load(scene.op.reloads, i)
      BY <1>4 DEF Proceed, Reload
    <2>4. written' \in Nat /\ written <= written' /\ p.upto <= written'
      BY <1>1, <1>2, <2>1
    <2> HIDE DEF p
    <2> QED
      BY <1>2, <2>1, <2>2, <2>3, <2>4, ReloadStep
  <1> QED
    BY <1>3, <1>4

\* Undoing takes away what the press made, or fails and leaves it.
LEMMA UndoStep ==
    ASSUME IInv, NEW i \in 1..Moves, Undo(i) \/ UndoFails(i)
    PROVE  IInv'
  <1>1. /\ press[i] \in PressState /\ written \in Nat
        /\ press[i].upto <= written /\ press[i].upto \in Nat
        /\ UNCHANGED <<scene, sel, timer>>
    BY PressFacts DEF Undo, UndoFails
  <1>2. CASE Undo(i)
    <2> DEFINE p == [press[i] EXCEPT !.left = 0, !.upto = written + 1, !.at = "loading"]
    <2>1. p \in PressState /\ p.at = "loading" /\ p.upto = written + 1 /\ p.left = 0
      <3>1. PICK n \in Nat : n = written + 1
        BY <1>1
      <3>2. p = [press[i] EXCEPT !.left = 0, !.upto = n, !.at = "loading"]
        BY <3>1
      <3> HIDE DEF p
      <3>3. p \in PressState
        BY <1>1, <3>2 DEF PressState
      <3>4. p.at = "loading" /\ p.upto = n /\ p.left = 0
        BY <1>1, <3>2 DEF PressState
      <3> QED
        BY <3>1, <3>3, <3>4
    <2>2. press' = [press EXCEPT ![i] = p] /\ Load(scene.op.reloads, i)
      BY <1>2 DEF Undo, Reload
    <2>3. written' = written + 1
      BY <1>2 DEF Undo
    <2>4. written' \in Nat /\ written <= written' /\ p.upto <= written'
      BY <1>1, <2>1, <2>3
    <2> HIDE DEF p
    <2> QED
      BY <1>1, <2>1, <2>2, <2>4, ReloadStep
  <1>3. CASE UndoFails(i)
    <2> DEFINE p == [press[i] EXCEPT !.undone = FALSE, !.at = "loading"]
    <2>1. p \in PressState /\ p.at = "loading" /\ p.upto = press[i].upto
      BY <1>1 DEF PressState
    <2>2. ~p.undone
      BY <1>1 DEF PressState
    <2>3. press' = [press EXCEPT ![i] = p] /\ Load(scene.op.reloads, i)
      BY <1>3 DEF UndoFails, Reload
    <2>4. written' = written
      BY <1>3 DEF UndoFails
    <2>5. written' \in Nat /\ written <= written' /\ p.upto <= written'
      BY <1>1, <2>1, <2>4
    <2> HIDE DEF p
    <2> QED
      BY <1>1, <2>1, <2>2, <2>3, <2>5, ReloadStep
  <1> QED
    BY <1>2, <1>3

\* The invariant is inductive.
LEMMA StepIInv == ASSUME ConsoleAssumption, IInv, [Next]_vars PROVE IInv'
  <1>1. CASE Select
    BY <1>1, SelectStep
  <1>2. CASE Ticking
    BY <1>2, TickStep DEF Ticking
  <1>3. CASE Settling
    BY <1>3, SettlingStep
  <1>4. CASE Pressing
    <2>1. PICK i \in 1..Moves :
              \/ Press(i) \/ Apply(i) \/ Proceed(i) \/ CallFails(i)
              \/ Undo(i) \/ UndoFails(i) \/ End(i)
      BY <1>4 DEF Pressing
    <2> QED
      BY <2>1, PressedStep, ApplyStep, ProceedStep, CallFailsStep, UndoStep, EndStep
  <1>5. CASE UNCHANGED vars
    <2>1. UNCHANGED <<scene, sel, timer, hook, calls, written, press>>
      BY <1>5 DEF vars
    <2>2. /\ hook' \in [Hooks -> HookState] /\ calls' \subseteq Call
          /\ Numbered' /\ ForSelection' /\ Told'
          /\ \A h \in Hooks, n \in Nat : Seen(h, n) <=> Seen(h, n)'
      BY <2>1, QuietKeeps
    <2>3. sel' \in Nat \ {0} /\ timer' \subseteq Hooks
      BY <2>1 DEF IInv, TypeOK
    <2> QED
      BY <2>1, <2>2, <2>3, HookStep
  <1> QED
    BY <1>1, <1>2, <1>3, <1>4, <1>5 DEF Next

\* The inductive invariant holds in every reachable state.
LEMMA Invariant == Spec => []IInv
  BY InitIInv, StepIInv, ConsoleAssumption, PTL DEF Spec

----------------------------------------------------------------------------
(* The theorems. *)

\* Hooks, calls and presses are well typed (use-request.ts).
THEOREM TypeCorrect == Spec => []TypeOK
  <1>1. IInv => TypeOK
    BY DEF IInv
  <1> QED
    BY <1>1, Invariant, PTL

\* However late older loads are answered, a hook that rests after an
\* operation shows what the operation wrote (use-request.ts:35-46).
THEOREM OwnWrites == Spec => []OwnWritesAreShown
  <1>1. ASSUME IInv, NEW i \in 1..Moves, Reloaded(i), NEW h \in scene.op.reloads, Settled(h)
        PROVE  hook[h].at >= press[i].upto
    <2>1. Issued(i) /\ Resting(h)
      BY <1>1 DEF Reloaded, Issued, Settled, Resting
    <2> QED
      BY <1>1, <2>1 DEF IInv, SeesWrites, Seen
  <1>2. IInv => OwnWritesAreShown
    BY <1>1 DEF OwnWritesAreShown
  <1> QED
    BY <1>2, Invariant, PTL

\* Whatever was selected while loads were under way, a hook at rest shows
\* what is selected now (use-request.ts:48-58).
THEOREM SelectedIsShown == Spec => []ShownIsSelected
  <1>1. ASSUME IInv PROVE \A h \in Hooks : Settled(h) => hook[h].of = Selected(h)
    BY <1>1 DEF IInv, ForSelection, Settled, Resting
  <1>2. scene.panel.waits = "matching" /\ ~Waiting => \A h \in scene.panel.hooks : hook[h].of = sel
    BY DEF Waiting
  <1>3. IInv => ShownIsSelected
    BY <1>1, <1>2 DEF ShownIsSelected
  <1> QED
    BY <1>3, Invariant, PTL

\* A panel behind a skeleton never claims there is nothing before it was
\* told so, unless a load failed (use-request.ts:22-26,38-45).
THEOREM NoEarlyClaim == Spec => []ClaimsAreAnswered
  <1>1. ASSUME IInv, scene.panel.waits = "loading", Lacking
        PROVE  \E h \in scene.panel.hooks : hook[h].failed
    <2>1. PICK h \in scene.panel.hooks : hook[h].of = 0
      BY <1>1 DEF Lacking
    <2>2. ~hook[h].loading
      BY <1>1 DEF Lacking, Waiting
    <2>3. h \in Hooks
      BY DEF Hooks
    <2> QED
      BY <1>1, <2>1, <2>2, <2>3 DEF IInv, Told, Resting
  <1>2. IInv => ClaimsAreAnswered
    BY <1>1 DEF ClaimsAreAnswered
  <1> QED
    BY <1>2, Invariant, PTL

\* An import that failed half-way and was rolled back has left nothing
\* (dashboards.ts:183-210).
THEOREM RolledBack == Spec => []NothingHalfMade
  <1>1. IInv => NothingHalfMade
    BY DEF IInv, TakenBack, NothingHalfMade
  <1> QED
    BY <1>1, Invariant, PTL

----------------------------------------------------------------------------
(* The logs explorer: sequences of events. *)

\* What a sequence shows is in the set it is over.
LEMMA ShowsMembers ==
    ASSUME NEW S, NEW s \in Seq(S)
    PROVE  /\ ToSet(s) \subseteq S
           /\ \A e : e \in ToSet(s) <=> \E i \in 1 .. Len(s) : e = s[i]
BY DEF ToSet

\* A sequence over a set is one over any set with its members.
LEMMA ShowsRetyped ==
    ASSUME NEW S, NEW T, NEW s \in Seq(S), ToSet(s) \subseteq T
    PROVE  s \in Seq(T)
<1>1. \A i \in 1 .. Len(s) : s[i] \in T
  BY DEF ToSet
<1> QED
  BY <1>1

\* Two sequences show together what each shows.
LEMMA ShowsBoth ==
    ASSUME NEW S, NEW s \in Seq(S), NEW t \in Seq(S)
    PROVE  s \o t \in Seq(S) /\ ToSet(s \o t) = ToSet(s) \union ToSet(t)
<1> DEFINE st == s \o t
<1>1. /\ st \in Seq(S) /\ Len(st) = Len(s) + Len(t)
      /\ \A i \in 1 .. Len(s) + Len(t) : st[i] = IF i <= Len(s) THEN s[i] ELSE t[i - Len(s)]
  BY ConcatProperties
<1>2. Len(s) \in Nat /\ Len(t) \in Nat
  BY LenProperties
<1> HIDE DEF st
<1>0. ASSUME NEW i \in 1 .. Len(t)
           PROVE  Len(s) + i \in 1 .. Len(st) /\ st[Len(s) + i] = t[i]
  <2>1. /\ Len(s) + i \in 1 .. Len(s) + Len(t) /\ ~(Len(s) + i <= Len(s))
        /\ (Len(s) + i) - Len(s) = i
    BY <1>2
  <2> QED
    BY <1>1, <2>1
<1>3. ASSUME NEW e \in ToSet(st)
      PROVE  e \in ToSet(s) \union ToSet(t)
  <2>1. PICK i \in 1 .. Len(st) : e = st[i]
    BY <1>1, <1>3, ShowsMembers
  <2>2. CASE i <= Len(s)
    BY <1>1, <1>2, <2>1, <2>2, ShowsMembers
  <2>3. CASE ~(i <= Len(s))
    <3>1. i - Len(s) \in 1 .. Len(t) /\ e = t[i - Len(s)]
      BY <1>1, <1>2, <2>1, <2>3
    <3> QED
      BY <3>1, ShowsMembers
  <2> QED
    BY <2>2, <2>3
<1>4. ASSUME NEW e \in ToSet(s)
      PROVE  e \in ToSet(st)
  <2>1. PICK i \in 1 .. Len(s) : e = s[i]
    BY <1>4, ShowsMembers
  <2>2. i \in 1 .. Len(st) /\ st[i] = e
    BY <1>1, <1>2, <2>1
  <2> QED
    BY <1>1, <2>2, ShowsMembers
<1>5. ASSUME NEW e \in ToSet(t)
      PROVE  e \in ToSet(st)
  <2>1. PICK i \in 1 .. Len(t) : e = t[i]
    BY <1>5, ShowsMembers
  <2>2. Len(s) + i \in 1 .. Len(st) /\ st[Len(s) + i] = e
    BY <1>1, <1>2, <1>0, <2>1
  <2> QED
    BY <1>1, <2>2, ShowsMembers
<1>6. st \in Seq(S) /\ ToSet(st) = ToSet(s) \union ToSet(t)
  BY <1>1, <1>3, <1>4, <1>5
<1> QED
  BY <1>6 DEF st

\* Two sequences without a repetition and without a common event have none together.
LEMMA BothOnce ==
    ASSUME NEW S, NEW s \in Seq(S), NEW t \in Seq(S),
           IsInjective(s), IsInjective(t), ToSet(s) \cap ToSet(t) = {}
    PROVE  IsInjective(s \o t)
<1> DEFINE st == s \o t
<1>1. /\ st \in Seq(S) /\ Len(st) = Len(s) + Len(t)
      /\ \A i \in 1 .. Len(s) + Len(t) : st[i] = IF i <= Len(s) THEN s[i] ELSE t[i - Len(s)]
  BY ConcatProperties
<1>2. Len(s) \in Nat /\ Len(t) \in Nat
  BY LenProperties
<1> HIDE DEF st
<1>3. ASSUME NEW i \in 1 .. Len(st), NEW j \in 1 .. Len(st), st[i] = st[j]
      PROVE  i = j
  <2>1. CASE i <= Len(s) /\ j <= Len(s)
    <3>1. i \in DOMAIN s /\ j \in DOMAIN s /\ s[i] = s[j]
      BY <1>1, <1>2, <1>3, <2>1, LenProperties
    <3> QED
      BY <3>1 DEF IsInjective
  <2>2. CASE ~(i <= Len(s)) /\ ~(j <= Len(s))
    <3>1. i - Len(s) \in 1 .. Len(t) /\ j - Len(s) \in 1 .. Len(t)
      BY <1>1, <1>2, <2>2
    <3>2. t[i - Len(s)] = t[j - Len(s)]
      BY <1>1, <1>2, <1>3, <2>2
    <3>3. i - Len(s) = j - Len(s)
      BY <3>1, <3>2, LenProperties DEF IsInjective
    <3> QED
      BY <1>2, <3>3
  <2>3. CASE i <= Len(s) /\ ~(j <= Len(s))
    <3>1. i \in 1 .. Len(s) /\ j - Len(s) \in 1 .. Len(t) /\ s[i] = t[j - Len(s)]
      BY <1>1, <1>2, <1>3, <2>3
    <3>2. s[i] \in ToSet(s) /\ s[i] \in ToSet(t)
      BY <3>1, ShowsMembers
    <3> QED
      BY <3>2
  <2>4. CASE ~(i <= Len(s)) /\ j <= Len(s)
    <3>1. j \in 1 .. Len(s) /\ i - Len(s) \in 1 .. Len(t) /\ s[j] = t[i - Len(s)]
      BY <1>1, <1>2, <1>3, <2>4
    <3>2. s[j] \in ToSet(s) /\ s[j] \in ToSet(t)
      BY <3>1, ShowsMembers
    <3> QED
      BY <3>2
  <2> QED
    BY <2>1, <2>2, <2>3, <2>4
<1>4. DOMAIN st = 1 .. Len(st)
  BY <1>1, LenProperties
<1>5. IsInjective(st)
  BY <1>3, <1>4 DEF IsInjective
<1> QED
  BY <1>5 DEF st

\* Without a repetition together, two sequences have none apart and share no event.
LEMMA ApartOnce ==
    ASSUME NEW S, NEW s \in Seq(S), NEW t \in Seq(S), IsInjective(s \o t)
    PROVE  IsInjective(s) /\ IsInjective(t) /\ ToSet(s) \cap ToSet(t) = {}
<1> DEFINE st == s \o t
<1>1. /\ st \in Seq(S) /\ Len(st) = Len(s) + Len(t)
      /\ \A i \in 1 .. Len(s) + Len(t) : st[i] = IF i <= Len(s) THEN s[i] ELSE t[i - Len(s)]
  BY ConcatProperties
<1>2. Len(s) \in Nat /\ Len(t) \in Nat /\ DOMAIN s = 1 .. Len(s) /\ DOMAIN t = 1 .. Len(t)
  BY LenProperties
<1>3. \A i, j \in 1 .. Len(st) : st[i] = st[j] => i = j
  BY <1>1, LenProperties DEF IsInjective
<1> HIDE DEF st
<1>0. ASSUME NEW i \in 1 .. Len(t)
           PROVE  Len(s) + i \in 1 .. Len(st) /\ st[Len(s) + i] = t[i]
  <2>1. /\ Len(s) + i \in 1 .. Len(s) + Len(t) /\ ~(Len(s) + i <= Len(s))
        /\ (Len(s) + i) - Len(s) = i
    BY <1>2
  <2> QED
    BY <1>1, <2>1
<1>4. IsInjective(s)
  <2>1. ASSUME NEW i \in 1 .. Len(s), NEW j \in 1 .. Len(s), s[i] = s[j]
        PROVE  i = j
    <3>1. i \in 1 .. Len(st) /\ j \in 1 .. Len(st) /\ st[i] = s[i] /\ st[j] = s[j]
      BY <1>1, <1>2
    <3> QED
      BY <1>3, <2>1, <3>1
  <2> QED
    BY <1>2, <2>1 DEF IsInjective
<1>5. IsInjective(t)
  <2>1. ASSUME NEW i \in 1 .. Len(t), NEW j \in 1 .. Len(t), t[i] = t[j]
        PROVE  i = j
    <3>1. /\ Len(s) + i \in 1 .. Len(st) /\ Len(s) + j \in 1 .. Len(st)
          /\ st[Len(s) + i] = t[i] /\ st[Len(s) + j] = t[j]
      BY <1>0
    <3>2. Len(s) + i = Len(s) + j
      BY <1>3, <2>1, <3>1
    <3> QED
      BY <1>2, <3>2
  <2> QED
    BY <1>2, <2>1 DEF IsInjective
<1>6. ASSUME NEW e \in ToSet(s), e \in ToSet(t)
      PROVE  FALSE
  <2>1. PICK i \in 1 .. Len(s) : e = s[i]
    BY <1>6, ShowsMembers
  <2>2. PICK j \in 1 .. Len(t) : e = t[j]
    BY <1>6, ShowsMembers
  <2>3. /\ i \in 1 .. Len(st) /\ Len(s) + j \in 1 .. Len(st)
        /\ st[i] = e /\ st[Len(s) + j] = e
    <3>1. i \in 1 .. Len(st) /\ st[i] = e
      BY <1>1, <1>2, <2>1
    <3> QED
      BY <1>0, <2>2, <3>1
  <2>4. i = Len(s) + j
    BY <1>3, <2>3
  <2> QED
    BY <1>2, <2>4
<1> QED
  BY <1>4, <1>5, <1>6

\* The start of a sequence is one, shows nothing else and repeats nothing more.
LEMMA FirstOnes ==
    ASSUME NEW S, NEW s \in Seq(S), NEW n \in Nat
    PROVE  /\ FirstOf(n, s) \in Seq(S) /\ Len(FirstOf(n, s)) <= n
           /\ ToSet(FirstOf(n, s)) \subseteq ToSet(s)
           /\ IsInjective(s) => IsInjective(FirstOf(n, s))
<1> DEFINE k == IF Len(s) < n THEN Len(s) ELSE n
           f == SubSeq(s, 1, k)
<1>1. k \in Nat /\ k <= Len(s) /\ k <= n /\ Len(s) \in Nat /\ DOMAIN s = 1 .. Len(s)
  BY LenProperties
<1> HIDE DEF k
<1>2. f \in Seq(S) /\ Len(f) = k /\ \A i \in 1 .. k : f[i] = s[i]
  BY <1>1
<1> HIDE DEF f
<1>3. ToSet(f) \subseteq ToSet(s)
  <2>1. ASSUME NEW e \in ToSet(f)
        PROVE  e \in ToSet(s)
    <3>1. PICK i \in 1 .. Len(f) : e = f[i]
      BY <1>2, <2>1, ShowsMembers
    <3>2. i \in 1 .. Len(s) /\ e = s[i]
      BY <1>1, <1>2, <3>1
    <3> QED
      BY <3>2, ShowsMembers
  <2> QED
    BY <2>1
<1>4. IsInjective(s) => IsInjective(f)
  <2>1. DOMAIN f = 1 .. k /\ 1 .. k \subseteq 1 .. Len(s)
    BY <1>1, <1>2
  <2> QED
    BY <1>1, <1>2, <2>1 DEF IsInjective
<1>5. FirstOf(n, s) = f
  BY DEF FirstOf, f, k
<1> QED
  BY <1>1, <1>2, <1>3, <1>4, <1>5

\* The end of a sequence shows nothing else and, like it, nothing twice.
LEMMA EndOnce ==
    ASSUME NEW S, NEW s \in Seq(S), NEW t \in Seq(S), IsSuffix(s, t), IsInjective(t)
    PROVE  IsInjective(s) /\ ToSet(s) \subseteq ToSet(t)
<1> DEFINE rs == Reverse(s)
           rt == Reverse(t)
<1>1. Len(s) \in Nat /\ Len(t) \in Nat /\ DOMAIN s = 1 .. Len(s) /\ DOMAIN t = 1 .. Len(t)
  BY LenProperties
<1>2. /\ rs \in Seq(S) /\ Len(rs) = Len(s)
      /\ \A i \in 1 .. Len(s) : rs[i] = s[(Len(s) - i) + 1]
  BY <1>1 DEF Reverse
<1>3. /\ rt \in Seq(S) /\ Len(rt) = Len(t)
      /\ \A i \in 1 .. Len(t) : rt[i] = t[(Len(t) - i) + 1]
  BY <1>1 DEF Reverse
<1>4. Len(rs) <= Len(rt) /\ SubSeq(rs, 1, Len(rs)) = SubSeq(rt, 1, Len(rs))
  BY DEF IsSuffix, IsPrefix
<1> HIDE DEF rs, rt
<1>5. \A i \in 1 .. Len(s) : rs[i] = rt[i]
  <2>1. \A i \in 1 .. Len(s) : SubSeq(rs, 1, Len(rs))[i] = rs[i]
    BY <1>1, <1>2
  <2>2. \A i \in 1 .. Len(s) : SubSeq(rt, 1, Len(rs))[i] = rt[i]
    BY <1>1, <1>2, <1>3, <1>4
  <2> QED
    BY <1>4, <2>1, <2>2
<1> DEFINE d == Len(t) - Len(s)
<1>6. d \in Nat /\ Len(t) = Len(s) + d
  BY <1>1, <1>2, <1>3, <1>4
<1> HIDE DEF d
<1>7. ASSUME NEW j \in 1 .. Len(s)
      PROVE  j + d \in 1 .. Len(t) /\ s[j] = t[j + d]
  <2>1. /\ (Len(s) - j) + 1 \in 1 .. Len(s) /\ (Len(s) - j) + 1 \in 1 .. Len(t)
        /\ (Len(s) - ((Len(s) - j) + 1)) + 1 = j
        /\ (Len(t) - ((Len(s) - j) + 1)) + 1 = j + d
    BY <1>1, <1>6
  <2>2. rs[(Len(s) - j) + 1] = s[j] /\ rt[(Len(s) - j) + 1] = t[j + d]
    BY <1>2, <1>3, <2>1
  <2>3. s[j] = t[j + d]
    BY <1>5, <2>1, <2>2
  <2> QED
    BY <1>1, <1>6, <2>3
<1>8. IsInjective(s)
  <2>1. ASSUME NEW i \in 1 .. Len(s), NEW j \in 1 .. Len(s), s[i] = s[j]
        PROVE  i = j
    <3>1. t[i + d] = t[j + d] /\ i + d \in 1 .. Len(t) /\ j + d \in 1 .. Len(t)
      BY <1>7, <2>1
    <3>2. i + d = j + d
      BY <1>1, <3>1 DEF IsInjective
    <3> QED
      BY <1>6, <3>2
  <2> QED
    BY <1>1, <2>1 DEF IsInjective
<1>9. ToSet(s) \subseteq ToSet(t)
  <2>1. ASSUME NEW e \in ToSet(s)
        PROVE  e \in ToSet(t)
    <3>1. PICK i \in 1 .. Len(s) : e = s[i]
      BY <2>1, ShowsMembers
    <3>2. i + d \in 1 .. Len(t) /\ e = t[i + d]
      BY <1>7, <3>1
    <3> QED
      BY <3>2, ShowsMembers
  <2> QED
    BY <2>1
<1> QED
  BY <1>8, <1>9

\* The newest events of a set, in order, are each there once and are no others.
LEMMA NewestOnce ==
    ASSUME NEW E \in SUBSET Events, NEW s \in NewestFirst(E)
    PROVE  s \in Seq(Events) /\ IsInjective(s) /\ ToSet(s) = E
<1> DEFINE c == Cardinality(E)
<1>0. IsFiniteSet(E)
  <2>1. IsFiniteSet(Events)
    BY LogsExplorerAssumption, FS_Interval DEF Events
  <2> QED
    BY <2>1, FS_Subset
<1>1. c \in Nat
  BY <1>0, FS_CardinalityType
<1>2. s \in [1 .. c -> E] /\ \A i, j \in DOMAIN s : i < j => s[i] > s[j]
  BY DEF NewestFirst
<1> HIDE DEF c
<1>3. s \in Seq(E)
  BY <1>1, <1>2
<1>4. DOMAIN s = 1 .. c /\ \A i \in 1 .. c : s[i] \in Int
  <2>1. E \subseteq Int
    BY LogsExplorerAssumption DEF Events
  <2> QED
    BY <1>2, <2>1
<1>5. IsInjective(s)
  <2>1. ASSUME NEW i \in 1 .. c, NEW j \in 1 .. c, s[i] = s[j]
        PROVE  i = j
    <3>1. ~(i < j) /\ ~(j < i)
      BY <1>2, <1>4, <2>1
    <3> QED
      BY <1>1, <3>1
  <2> QED
    BY <1>4, <2>1 DEF IsInjective
<1>6. s \in Seq(Events) /\ ToSet(s) \subseteq E
  BY <1>3, ShowsMembers, SeqMonotonic
<1>7. E \subseteq ToSet(s)
  <2>1. Cardinality(1 .. c) = c
    BY <1>1, FS_Interval
  <2>2. s \in Injection(1 .. c, E)
    BY <1>2, <1>5 DEF Injection
  <2>3. s \in Surjection(1 .. c, E)
    BY <1>0, <2>1, <2>2, FS_Injection DEF c
  <2> QED
    BY <1>4, <2>3 DEF Surjection, ToSet
<1> QED
  BY <1>5, <1>6, <1>7

\* Without one of its members a sequence has members of it only.
LEMMA OthersLeft ==
    ASSUME NEW S, NEW s \in Seq(S), NEW i \in DOMAIN s
    PROVE  /\ RemoveAt(s, i) \in Seq(S)
           /\ \A j \in DOMAIN RemoveAt(s, i) : \E m \in DOMAIN s : RemoveAt(s, i)[j] = s[m]
<1> DEFINE a == SubSeq(s, 1, i - 1)
           b == SubSeq(s, i + 1, Len(s))
<1>1. i \in 1 .. Len(s) /\ Len(s) \in Nat /\ DOMAIN s = 1 .. Len(s)
  BY LenProperties
<1>2. a \in Seq(S) /\ Len(a) = i - 1 /\ \A j \in 1 .. i - 1 : a[j] = s[j]
  BY <1>1
<1>3. b \in Seq(S) /\ Len(b) = Len(s) - i /\ \A j \in 1 .. Len(s) - i : b[j] = s[i + j]
  BY <1>1
<1> HIDE DEF a, b
<1> DEFINE r == a \o b
<1>4. r \in Seq(S) /\ ToSet(r) = ToSet(a) \union ToSet(b)
  BY <1>2, <1>3, ShowsBoth
<1>5. ASSUME NEW e \in ToSet(r)
      PROVE  \E m \in DOMAIN s : e = s[m]
  <2>1. CASE e \in ToSet(a)
    BY <1>1, <1>2, <2>1, ShowsMembers
  <2>2. CASE e \in ToSet(b)
    <3>0. PICK j \in 1 .. Len(b) : e = b[j]
      BY <1>3, <2>2, ShowsMembers
    <3>1. j \in 1 .. Len(s) - i /\ e = s[i + j]
      BY <1>3, <3>0
    <3>2. i + j \in DOMAIN s
      BY <1>1, <3>1
    <3> QED
      BY <3>1, <3>2
  <2> QED
    BY <1>4, <1>5, <2>1, <2>2
<1> HIDE DEF r
<1>6. \A j \in DOMAIN r : \E m \in DOMAIN s : r[j] = s[m]
  BY <1>5 DEF ToSet
<1>7. RemoveAt(s, i) = r
  BY DEF RemoveAt, r, a, b
<1> QED
  BY <1>4, <1>6, <1>7

----------------------------------------------------------------------------
(* The logs explorer: types. *)

\* The assumptions, one by one.
LEMMA LogsConstants ==
    /\ TailMax \in Nat \ {0} /\ PageSize \in Nat \ {0} /\ MaxLog \in Nat /\ MaxMoves \in Nat
    /\ "1h" \in Presets /\ Pills \subseteq Nat \ {0}
BY LogsExplorerAssumption

\* What a URL says is a time range.
LEMMA ParsedIsTime ==
    ASSUME NEW url \in Url
    PROVE  parseUrl(url) \in Time
BY LogsConstants DEF parseUrl, Url, Time

\* A time range has its URL, which holds the query of the one before.
LEMMA UrlOfIsUrl ==
    ASSUME LogsTypeOK, NEW t \in Time
    PROVE  /\ UrlOf(t) \in Url /\ UrlOf(t).live = t.live
           /\ UrlOf(t).range = IF t.zoom # NoRange THEN t.zoom
                               ELSE IF t.preset # "custom" THEN t.preset ELSE NoRange
<1>1. urls[at] \in Url
  BY DEF LogsTypeOK
<1> QED
  BY <1>1 DEF UrlOf, Url, Time

\* A URL in place of the one the browser stands at.
LEMMA ReplacedTyped ==
    ASSUME LogsTypeOK, NEW url \in Url, ReplaceUrl(url)
    PROVE  urls' \in Seq(Url) /\ at' \in DOMAIN urls' /\ urls'[at'] = url
<1>1. urls \in Seq(Url) /\ at \in 1 .. Len(urls) /\ at' = at /\ urls' = [urls EXCEPT ![at] = url]
  BY DEF LogsTypeOK, ReplaceUrl
<1>2. urls' \in Seq(Url) /\ Len(urls') = Len(urls) /\ urls'[at] = url
  BY <1>1, ExceptSeq
<1> QED
  BY <1>1, <1>2

\* A URL after the one the browser stands at.
LEMMA PushedTyped ==
    ASSUME LogsTypeOK, NEW url \in Url, PushUrl(url)
    PROVE  urls' \in Seq(Url) /\ at' \in DOMAIN urls' /\ urls'[at'] = url
<1> DEFINE past == SubSeq(urls, 1, at)
<1>1. urls \in Seq(Url) /\ at \in 1 .. Len(urls) /\ Len(urls) \in Nat
  BY DEF LogsTypeOK
<1>2. past \in Seq(Url) /\ Len(past) = at
  BY <1>1
<1>3. urls' = Append(past, url) /\ at' = at + 1
  BY DEF PushUrl
<1> HIDE DEF past
<1>4. urls' \in Seq(Url) /\ Len(urls') = at + 1 /\ urls'[at + 1] = url
  BY <1>2, <1>3, AppendProperties
<1> QED
  BY <1>1, <1>3, <1>4

\* The tail's effect keeps polls, session and seen ids typed.
LEMMA EffectTyped ==
    ASSUME LogsTypeOK, NEW l \in BOOLEAN, NEW q \in Queries, NEW S \in SUBSET Events,
           Effect(l, q, S)
    PROVE  session' \in Nat /\ polls' \in Seq(Poll) /\ seen' \subseteq Events
<1>1. session \in Nat /\ polls \in Seq(Poll) /\ log \in 0 .. MaxLog
  BY DEF LogsTypeOK
<1>2. Opening(session + 1, q) \in Poll
  BY <1>1 DEF Opening, Poll
<1> QED
  BY <1>1, <1>2, AppendProperties DEF Effect

\* Cutting keeps a tail a tail.
LEMMA CutTyped ==
    ASSUME NEW s \in Seq(Events)
    PROVE  /\ Cut(s) \in Seq(Events) /\ Len(Cut(s)) <= TailMax
           /\ ToSet(Cut(s)) \subseteq ToSet(s) /\ CutOff(s) \subseteq Events
           /\ IsInjective(s) => IsInjective(Cut(s))
<1>1. TailMax \in Nat
  BY LogsConstants
<1>2. ToSet(s) \subseteq Events
  BY ShowsMembers
<1> QED
  BY <1>1, <1>2, FirstOnes DEF Cut, CutOff

\* What an answer can hold: events no poll showed, of the query it was sent for.
LEMMA AnswerHolds ==
    ASSUME LogsTypeOK, NEW i \in DOMAIN polls, NEW n \in polls[i].since .. log,
           NEW new \in NewestFirst(Newest(polls[i].q, n) \ seen)
    PROVE  /\ new \in Seq(Events) /\ IsInjective(new) /\ ToSet(new) \cap seen = {}
           /\ \A e \in ToSet(new) : Matches(polls[i].q, e)
           /\ ToSet(new) = Newest(polls[i].q, n) \ seen
           /\ Found(polls[i].q, n) \subseteq Events
<1> DEFINE q == polls[i].q
<1>1. polls[i].since \in 0 .. MaxLog /\ log \in 0 .. MaxLog /\ MaxLog \in Nat
  <2>1. polls[i] \in Poll /\ log \in 0 .. MaxLog
    BY DEF LogsTypeOK
  <2> QED
    BY <2>1, LogsConstants DEF Poll
<1>2. n \in 0 .. MaxLog
  BY <1>1
<1>3. Newest(q, n) \subseteq {e \in 1 .. n : Matches(q, e)}
  BY DEF Newest, Found
<1>4. 1 .. n \subseteq Events
  BY <1>1, <1>2 DEF Events
<1> HIDE DEF q
<1>5. Newest(q, n) \ seen \in SUBSET Events
  BY <1>3, <1>4
<1>6. new \in NewestFirst(Newest(q, n) \ seen)
  BY DEF q
<1>7. new \in Seq(Events) /\ IsInjective(new) /\ ToSet(new) = Newest(q, n) \ seen
  BY <1>5, <1>6, NewestOnce
<1>8. \A e \in ToSet(new) : Matches(q, e)
  BY <1>3, <1>7
<1>9. Found(q, n) \subseteq Events
  BY <1>4 DEF Found
<1> QED
  BY <1>7, <1>8, <1>9 DEF q

----------------------------------------------------------------------------
(* The logs explorer: the range and its URL. *)

\* What a custom range stands for.
RangeSpan(t) == IF t.preset = "custom" THEN "1h" ELSE t.preset

\* A URL shows a time range.
RangeShown(url, t) ==
    /\ parseUrl(url).live = t.live /\ parseUrl(url).zoom = t.zoom
    /\ t.zoom = NoRange => RangeSpan(parseUrl(url)) = RangeSpan(t)

\* The URL a time range is written to shows it.
LEMMA WrittenRange ==
    ASSUME NEW url \in Url, NEW t \in Time, url.live = t.live,
           url.range = IF t.zoom # NoRange THEN t.zoom
                       ELSE IF t.preset # "custom" THEN t.preset ELSE NoRange
    PROVE  RangeShown(url, t)
<1>1. /\ t.preset \in Presets \union {"custom"} /\ t.zoom \in Zooms \union {NoRange}
      /\ Presets \cap Zooms = {} /\ NoRange \notin Presets /\ NoRange \notin Zooms
  BY LogsExplorerAssumption DEF Time
<1>2. CASE t.zoom # NoRange
  BY <1>1, <1>2 DEF RangeShown, RangeSpan, parseUrl
<1>3. CASE t.zoom = NoRange
  <2>1. parseUrl(url).zoom = t.zoom /\ parseUrl(url).live = t.live
    BY <1>1, <1>3 DEF parseUrl
  <2>2. RangeSpan(parseUrl(url)) = RangeSpan(t)
    BY <1>1, <1>3 DEF RangeSpan, parseUrl
  <2> QED
    BY <2>1, <2>2 DEF RangeShown
<1> QED
  BY <1>2, <1>3

\* The range on screen is a handler's: it is in the URL it wrote.
LEMMA TimeWritten ==
    ASSUME LogsTypeOK, time' \in Time, PushUrl(UrlOf(time')) \/ ReplaceUrl(UrlOf(time'))
    PROVE  urls' \in Seq(Url) /\ at' \in DOMAIN urls' /\ RangeShown(urls'[at'], time')
<1> DEFINE url == UrlOf(time')
<1>1. /\ url \in Url /\ url.live = time'.live
      /\ url.range = IF time'.zoom # NoRange THEN time'.zoom
                     ELSE IF time'.preset # "custom" THEN time'.preset ELSE NoRange
  BY UrlOfIsUrl
<1>2. PushUrl(url) \/ ReplaceUrl(url)
  OBVIOUS
<1> HIDE DEF url
<1>3. urls' \in Seq(Url) /\ at' \in DOMAIN urls' /\ urls'[at'] = url
  BY <1>1, <1>2, PushedTyped, ReplacedTyped
<1>4. RangeShown(url, time')
  BY <1>1, WrittenRange
<1> QED
  BY <1>3, <1>4

\* The browser's URL and the range, which every step keeps in step once the reader has changed it.
Ranged ==
    /\ urls \in Seq(Url) /\ at \in DOMAIN urls /\ time \in Time /\ carried \in BOOLEAN
    /\ ~carried => RangeShown(urls[at], time)

\* A submitted query is in the URL; the range there is what it was.
LEMMA QueryWritten ==
    ASSUME LogsTypeOK, Ranged, NEW q \in Queries,
           ReplaceUrl([urls[at] EXCEPT !.q = q]), UNCHANGED <<time, carried>>
    PROVE  Ranged'
<1> DEFINE url == [urls[at] EXCEPT !.q = q]
<1>1. urls[at] \in Url
  BY DEF Ranged
<1>2. url \in Url /\ url.range = urls[at].range /\ url.live = urls[at].live
  BY <1>1 DEF Url
<1> HIDE DEF url
<1>3. urls' \in Seq(Url) /\ at' \in DOMAIN urls' /\ urls'[at'] = url
  BY <1>2, ReplacedTyped DEF url
<1>4. parseUrl(url) = parseUrl(urls[at])
  BY <1>2 DEF parseUrl
<1>5. ~carried => RangeShown(url, time)
  BY <1>4 DEF RangeShown, Ranged
<1> QED
  BY <1>3, <1>5 DEF Ranged

\* Every step keeps the URL and the range in step.
LEMMA RangedStep ==
    ASSUME LogsTypeOK, Ranged, [LogsNext]_logsVars
    PROVE  Ranged'
<1>1. CASE UNCHANGED <<urls, at, time, carried>>
  BY <1>1 DEF Ranged, RangeShown, RangeSpan
<1>2. ASSUME NEW q \in Queries, submitQuery(q)
      PROVE  Ranged'
  <2>1. ReplaceUrl([urls[at] EXCEPT !.q = q]) /\ UNCHANGED <<time, carried>>
    BY <1>2 DEF submitQuery
  <2> QED
    BY <2>1, QueryWritten
<1>3. ASSUME NEW p \in Presets, setPreset(p)
      PROVE  Ranged'
  <2>1. time' = [time EXCEPT !.preset = p, !.zoom = NoRange] /\ PushUrl(UrlOf(time')) /\ carried' = FALSE
    BY <1>3 DEF setPreset
  <2>2. time' \in Time
    BY <2>1 DEF LogsTypeOK, Time
  <2> QED
    BY <2>1, <2>2, TimeWritten DEF Ranged
<1>4. ASSUME NEW l \in BOOLEAN, setLive(l)
      PROVE  Ranged'
  <2>1. time' = [time EXCEPT !.live = l] /\ ReplaceUrl(UrlOf(time')) /\ carried' = FALSE
    BY <1>4 DEF setLive
  <2>2. time' \in Time
    BY <2>1 DEF LogsTypeOK, Time
  <2> QED
    BY <2>1, <2>2, TimeWritten DEF Ranged
<1>5. ASSUME NEW w \in Zooms, zoomBy(w)
      PROVE  Ranged'
  <2>1. time' = [time EXCEPT !.zoom = w] /\ PushUrl(UrlOf(time')) /\ carried' = FALSE
    BY <1>5 DEF zoomBy
  <2>2. time' \in Time
    BY <2>1 DEF LogsTypeOK, Time
  <2> QED
    BY <2>1, <2>2, TimeWritten DEF Ranged
<1>6. CASE resetZoom
  <2>1. time' = [time EXCEPT !.zoom = NoRange] /\ PushUrl(UrlOf(time')) /\ carried' = FALSE
    BY <1>6 DEF resetZoom
  <2>2. time' \in Time
    BY <2>1 DEF LogsTypeOK, Time
  <2> QED
    BY <2>1, <2>2, TimeWritten DEF Ranged
<1>7. ASSUME NEW to \in {at - 1, at + 1}, onPop(to)
      PROVE  Ranged'
  <2>1. /\ to \in DOMAIN urls /\ at' = to /\ urls' = urls /\ time' = parseUrl(urls[to])
        /\ carried' = FALSE
    BY <1>7 DEF onPop, Restored
  <2>2. urls[to] \in Url
    BY <2>1 DEF Ranged
  <2>3. parseUrl(urls[to]) \in Time
    BY <2>2, ParsedIsTime
  <2>4. RangeShown(urls[to], parseUrl(urls[to]))
    BY DEF RangeShown
  <2> QED
    BY <2>1, <2>3, <2>4 DEF Ranged
<1>8. CASE submit
  <2>1. bar \in Queries /\ submitQuery(bar)
    BY <1>8 DEF submit, LogsTypeOK
  <2> QED
    BY <1>2, <2>1
<1>9. ASSUME NEW f \in Pills, setText(f) \/ pivot(f) \/ toggleFacet(f) \/ removePill(f)
      PROVE  Ranged'
  <2>1. CASE setText(f)
    BY <1>1, <2>1 DEF setText
  <2>2. bar \in Queries
    BY DEF LogsTypeOK
  <2>3. CASE pivot(f) \/ toggleFacet(f) \/ removePill(f)
    <3>1. \E q \in Queries : submitQuery(q)
      <4>1. bar \union {f} \in Queries /\ bar \ {f} \in Queries
        BY <2>2 DEF Queries
      <4>2. bar' \in Queries
        BY <2>3, <4>1 DEF pivot, toggleFacet, removePill
      <4>3. submitQuery(bar')
        BY <2>3 DEF pivot, toggleFacet, removePill
      <4> QED
        BY <4>2, <4>3
    <3> QED
      BY <1>2, <3>1
  <2> QED
    BY <1>9, <2>1, <2>3
<1>10. ASSUME NEW q \in Queries, applyView(q)
       PROVE  Ranged'
  <2>1. submitQuery(q)
    BY <1>10 DEF applyView
  <2> QED
    BY <1>2, <2>1
<1>11. CASE pause \/ resume \/ Render \/ PollAgain \/ Log \/ UNCHANGED logsVars
  BY <1>1, <1>11 DEF pause, resume, Render, PollAgain, Log, page, logsVars
<1>12. ASSUME NEW i \in DOMAIN polls, PollAnswers(i) \/ PollFails(i)
       PROVE  Ranged'
  BY <1>1, <1>12 DEF PollAnswers, PollFails, page
<1>13. CASE navigate
  <2>1. PushUrl(BareUrl) /\ carried' = TRUE /\ time' = time /\ BareUrl \in Url
    BY <1>13 DEF navigate, BareUrl, Url, Queries
  <2> QED
    BY <2>1, PushedTyped DEF Ranged
<1> QED
  BY <1>3, <1>4, <1>5, <1>6, <1>7, <1>8, <1>9, <1>10, <1>11, <1>12, <1>13 DEF LogsNext

----------------------------------------------------------------------------
(* The logs explorer: the tail. *)

\* The types of what is not the range or its URL.
LogsRest ==
    /\ log \in 0 .. MaxLog
    /\ bar \in Queries /\ active \in Queries
    /\ session \in Nat /\ polls \in Seq(Poll) /\ seen \subseteq Events
    /\ tail \in Seq(Events) /\ Len(tail) <= TailMax
    /\ buffered \in Seq(Events) /\ rendered \in Seq(Events) /\ paused \in BOOLEAN
    /\ moves \in 0 .. MaxMoves /\ fresh \in BOOLEAN /\ gone \subseteq Events

\* No poll is of a run to come, and one of the present run asks the query on screen.
PollsOfRun ==
    \A i \in DOMAIN polls :
        polls[i].session <= session /\ (polls[i].session = session => polls[i].q = active)

\* Every event of a sequence is one of the query on screen.
OfQuery(s) == \A e \in ToSet(s) : Matches(active, e)

\* While the tail is live and fresh each event is there once, and was seen.
OnceSeen ==
    time.live /\ fresh =>
        IsInjective(tail \o buffered) /\ ToSet(tail) \subseteq seen /\ ToSet(buffered) \subseteq seen

Streamed ==
    LogsRest /\ PollsOfRun /\ OfQuery(tail) /\ OfQuery(buffered) /\ OfQuery(rendered) /\ OnceSeen

\* Nothing is shown twice in nothing.
LEMMA NothingTwice == /\ <<>> \in Seq(Events) /\ <<>> \o <<>> = <<>>
                      /\ ToSet(<<>>) = {} /\ IsInjective(<<>>) /\ Len(<<>>) = 0
BY DEF ToSet, IsInjective

\* A move is counted.
LEMMA MoveTyped == ASSUME LogsRest, Move PROVE moves' \in 0 .. MaxMoves
BY LogsConstants DEF LogsRest, Move

\* What does not touch the tail or the query on screen.
LEMMA TailAlone ==
    ASSUME LogsTypeOK, Streamed, UNCHANGED <<log, active, live, history>>, time'.live = time.live,
           bar' \in Queries, moves' \in 0 .. MaxMoves
    PROVE  Streamed'
<1>1. LogsRest'
  BY DEF Streamed, LogsRest, live, history
<1>2. PollsOfRun' /\ OfQuery(tail)' /\ OfQuery(buffered)' /\ OfQuery(rendered)' /\ OnceSeen'
  BY DEF Streamed, PollsOfRun, OfQuery, OnceSeen, live, history, Matches
<1> QED
  BY <1>1, <1>2 DEF Streamed

\* Once more polls: those under way and the opening one of the next run.
LEMMA RunsOn ==
    ASSUME LogsTypeOK, Streamed, NEW l \in BOOLEAN, NEW q \in Queries, NEW S \in SUBSET Events,
           Effect(l, q, S), active' = q
    PROVE  PollsOfRun'
<1>1. session \in Nat /\ polls \in Seq(Poll) /\ PollsOfRun
  BY DEF LogsTypeOK, Streamed
<1>2. \A i \in DOMAIN polls : polls[i].session \in Nat
  <2>1. \A i \in DOMAIN polls : polls[i] \in Poll
    BY <1>1
  <2> QED
    BY <2>1 DEF Poll
<1>3. CASE <<l, q>> = <<time.live, active>>
  <2>1. UNCHANGED <<session, polls, active>>
    BY <1>3 DEF Effect
  <2> QED
    BY <1>1, <2>1 DEF PollsOfRun
<1>4. CASE <<l, q>> # <<time.live, active>>
  <2>1. session' = session + 1
    BY <1>4 DEF Effect
  <2>2. CASE ~l
    <3>1. polls' = polls
      BY <1>4, <2>2 DEF Effect
    <3> QED
      BY <1>1, <1>2, <2>1, <3>1 DEF PollsOfRun
  <2>3. CASE l
    <3> DEFINE o == Opening(session + 1, q)
    <3>1. polls' = Append(polls, o) /\ o.session = session + 1 /\ o.q = q
      BY <1>4, <2>3 DEF Effect, Opening
    <3> HIDE DEF o
    <3>2. \A i \in DOMAIN polls' :
            (i \in DOMAIN polls /\ polls'[i] = polls[i]) \/ polls'[i] = o
      BY <1>1, <3>1
    <3> QED
      BY <1>1, <1>2, <2>1, <3>1, <3>2 DEF PollsOfRun
  <2> QED
    BY <2>2, <2>3
<1> QED
  BY <1>3, <1>4

\* A handler that may stop or open a run of the tail.
LEMMA Switched ==
    ASSUME LogsTypeOK, Streamed, NEW l \in BOOLEAN, Switch(l), time'.live = l, Move,
           UNCHANGED <<log, bar, active>>
    PROVE  Streamed'
<1>1. Effect(l, active, seen) /\ UNCHANGED <<tail, buffered, paused, rendered>>
  BY DEF Switch
<1>2. active \in Queries /\ seen \in SUBSET Events
  BY DEF LogsTypeOK
<1>3. session' \in Nat /\ polls' \in Seq(Poll) /\ seen' \subseteq Events
  BY <1>1, <1>2, EffectTyped
<1>4. moves' \in 0 .. MaxMoves
  BY MoveTyped DEF Streamed
<1>5. fresh' \in BOOLEAN /\ gone' \subseteq Events
  BY DEF Switch, LogsTypeOK
<1>6. LogsRest'
  BY <1>1, <1>3, <1>4, <1>5 DEF Streamed, LogsRest
<1>7. PollsOfRun'
  BY <1>1, <1>2, RunsOn
<1>8. OfQuery(tail)' /\ OfQuery(buffered)' /\ OfQuery(rendered)'
  BY <1>1 DEF Streamed, OfQuery, Matches
<1>9. OnceSeen'
  <2>1. CASE l /\ ~time.live
    <3>1. fresh' => tail' = <<>> /\ buffered' = <<>>
      BY <1>1, <2>1 DEF Switch
    <3> QED
      BY <3>1, NothingTwice DEF OnceSeen
  <2>2. CASE l /\ time.live
    <3>1. fresh' = fresh /\ seen' = seen
      BY <1>1, <2>2 DEF Switch, Effect
    <3> QED
      BY <1>1, <2>2, <3>1 DEF Streamed, OnceSeen
  <2>3. CASE ~l
    BY <2>3 DEF OnceSeen
  <2> QED
    BY <2>1, <2>2, <2>3
<1> QED
  BY <1>6, <1>7, <1>8, <1>9 DEF Streamed

\* A submitted query empties the tail.
LEMMA Submitted ==
    ASSUME LogsTypeOK, Streamed, NEW q \in Queries, submitQuery(q), bar' \in Queries
    PROVE  Streamed'
<1>1. /\ active' = q /\ tail' = <<>> /\ buffered' = <<>> /\ rendered' = <<>>
      /\ Effect(time.live, q, {}) /\ fresh' = TRUE /\ gone' = {}
      /\ UNCHANGED <<log, time, paused>> /\ Move
  BY DEF submitQuery
<1>2. time.live \in BOOLEAN
  BY DEF LogsTypeOK, Time
<1>3. session' \in Nat /\ polls' \in Seq(Poll) /\ seen' \subseteq Events
  BY <1>1, <1>2, EffectTyped
<1>4. moves' \in 0 .. MaxMoves
  BY <1>1, MoveTyped DEF Streamed
<1>5. LogsRest'
  BY <1>1, <1>3, <1>4, NothingTwice, LogsConstants DEF Streamed, LogsRest
<1>6. PollsOfRun'
  BY <1>1, <1>2, RunsOn
<1>7. OfQuery(tail)' /\ OfQuery(buffered)' /\ OfQuery(rendered)' /\ OnceSeen'
  BY <1>1, NothingTwice DEF OfQuery, OnceSeen
<1> QED
  BY <1>5, <1>6, <1>7 DEF Streamed

\* The timer sends a poll of the present run.
LEMMA PolledAgain ==
    ASSUME LogsTypeOK, Streamed, PollAgain
    PROVE  Streamed'
<1> DEFINE p == [session |-> session, first |-> FALSE, q |-> active, since |-> log]
<1>1. /\ polls' = Append(polls, p) /\ p.session = session /\ p.q = active
      /\ UNCHANGED <<log, page, session, seen, tail, buffered, paused, rendered, moves, history>>
  BY DEF PollAgain
<1>2. p \in Poll /\ polls \in Seq(Poll) /\ PollsOfRun /\ session \in Nat
  BY DEF Streamed, LogsRest, Poll
<1> HIDE DEF p
<1>3. polls' \in Seq(Poll)
        /\ \A i \in DOMAIN polls' : (i \in DOMAIN polls /\ polls'[i] = polls[i]) \/ polls'[i] = p
  BY <1>1, <1>2
<1>4. LogsRest'
  BY <1>1, <1>3 DEF Streamed, LogsRest, page, history
<1>5. PollsOfRun'
  BY <1>1, <1>2, <1>3 DEF PollsOfRun, page
<1>6. OfQuery(tail)' /\ OfQuery(buffered)' /\ OfQuery(rendered)' /\ OnceSeen'
  BY <1>1 DEF Streamed, OfQuery, OnceSeen, page, history, Matches
<1> QED
  BY <1>4, <1>5, <1>6 DEF Streamed

\* A poll less.
LEMMA PollGone ==
    ASSUME LogsTypeOK, Streamed, NEW i \in DOMAIN polls, polls' = RemoveAt(polls, i),
           UNCHANGED <<session, active>>
    PROVE  polls' \in Seq(Poll) /\ PollsOfRun'
<1>1. polls \in Seq(Poll) /\ PollsOfRun
  BY DEF Streamed, LogsRest
<1>2. /\ polls' \in Seq(Poll)
      /\ \A j \in DOMAIN polls' : \E m \in DOMAIN polls : polls'[j] = polls[m]
  BY <1>1, OthersLeft
<1> QED
  BY <1>1, <1>2 DEF PollsOfRun

\* The opening answer replaces what the tail shows.
LEMMA OpenedStream ==
    ASSUME LogsRest, NEW new \in Seq(Events), IsInjective(new), OfQuery(new), seen' = seen \union ToSet(new),
           tail' = Cut(new), buffered' = <<>>, active' = active
    PROVE  /\ tail' \in Seq(Events) /\ Len(tail') <= TailMax /\ buffered' \in Seq(Events)
           /\ OfQuery(tail)' /\ OfQuery(buffered)' /\ OnceSeen'
<1>1. /\ Cut(new) \in Seq(Events) /\ Len(Cut(new)) <= TailMax
      /\ ToSet(Cut(new)) \subseteq ToSet(new) /\ IsInjective(Cut(new))
  BY CutTyped
<1>2. Cut(new) \o <<>> = Cut(new)
  BY <1>1, ConcatEmptySeq
<1>3. OfQuery(tail)' /\ OfQuery(buffered)'
  BY <1>1, NothingTwice DEF OfQuery
<1>4. OnceSeen'
  BY <1>1, <1>2, NothingTwice DEF OnceSeen
<1> QED
  BY <1>1, <1>3, <1>4, NothingTwice

\* While the reader is away an answer goes before the buffer.
LEMMA BufferedStream ==
    ASSUME LogsRest, NEW new \in Seq(Events), IsInjective(new), OfQuery(new), ToSet(new) \cap seen = {},
           seen' = seen \union ToSet(new), buffered' = new \o buffered,
           UNCHANGED <<tail, active, fresh, time>>, OfQuery(tail), OfQuery(buffered), OnceSeen
    PROVE  /\ buffered' \in Seq(Events) /\ OfQuery(tail)' /\ OfQuery(buffered)' /\ OnceSeen'
<1>1. tail \in Seq(Events) /\ buffered \in Seq(Events)
  BY DEF LogsRest
<1>2. buffered' \in Seq(Events) /\ ToSet(buffered') = ToSet(new) \union ToSet(buffered)
  BY <1>1, ShowsBoth
<1>3. OfQuery(tail)' /\ OfQuery(buffered)'
  BY <1>2 DEF OfQuery
<1>4. ASSUME time.live, fresh
      PROVE  /\ IsInjective(tail \o buffered') /\ ToSet(tail) \subseteq seen'
             /\ ToSet(buffered') \subseteq seen'
  <2>1. IsInjective(tail \o buffered) /\ ToSet(tail) \subseteq seen /\ ToSet(buffered) \subseteq seen
    BY <1>4 DEF OnceSeen
  <2>2. IsInjective(tail) /\ IsInjective(buffered) /\ ToSet(tail) \cap ToSet(buffered) = {}
    BY <1>1, <2>1, ApartOnce
  <2>3. IsInjective(buffered')
    <3>1. ToSet(new) \cap ToSet(buffered) = {}
      BY <2>1
    <3> QED
      BY <1>1, <2>2, <3>1, BothOnce
  <2>4. ToSet(tail) \cap ToSet(buffered') = {}
    BY <1>2, <2>1, <2>2
  <2>5. IsInjective(tail \o buffered')
    BY <1>1, <1>2, <2>2, <2>3, <2>4, BothOnce
  <2> QED
    BY <1>2, <2>1, <2>5
<1> QED
  BY <1>2, <1>3, <1>4 DEF OnceSeen

\* Else it goes before the tail.
LEMMA TailedStream ==
    ASSUME LogsRest, NEW new \in Seq(Events), IsInjective(new), OfQuery(new), ToSet(new) \cap seen = {},
           seen' = seen \union ToSet(new), tail' = Cut(new \o tail),
           UNCHANGED <<buffered, active, fresh, time>>, OfQuery(tail), OfQuery(buffered), OnceSeen
    PROVE  /\ tail' \in Seq(Events) /\ Len(tail') <= TailMax
           /\ OfQuery(tail)' /\ OfQuery(buffered)' /\ OnceSeen'
<1> DEFINE all == new \o tail
<1>1. tail \in Seq(Events) /\ buffered \in Seq(Events)
  BY DEF LogsRest
<1>2. all \in Seq(Events) /\ ToSet(all) = ToSet(new) \union ToSet(tail)
  BY <1>1, ShowsBoth
<1>3. tail' = Cut(all)
  OBVIOUS
<1>4. (time.live /\ fresh) => IsInjective(all)
  <2>1. ASSUME time.live, fresh
        PROVE  IsInjective(all)
    <3>1. IsInjective(tail \o buffered) /\ ToSet(tail) \subseteq seen
      BY <2>1 DEF OnceSeen
    <3>2. IsInjective(tail)
      BY <1>1, <3>1, ApartOnce
    <3>3. ToSet(new) \cap ToSet(tail) = {}
      BY <3>1
    <3> QED
      BY <1>1, <3>2, <3>3, BothOnce
  <2> QED
    BY <2>1
<1> HIDE DEF all
<1>5. /\ tail' \in Seq(Events) /\ Len(tail') <= TailMax /\ ToSet(tail') \subseteq ToSet(all)
      /\ IsInjective(all) => IsInjective(tail')
  BY <1>2, <1>3, CutTyped
<1>6. OfQuery(tail)' /\ OfQuery(buffered)'
  BY <1>2, <1>5 DEF OfQuery
<1>7. ASSUME time.live, fresh
      PROVE  /\ IsInjective(tail' \o buffered) /\ ToSet(tail') \subseteq seen'
             /\ ToSet(buffered) \subseteq seen'
  <2>1. IsInjective(tail \o buffered) /\ ToSet(tail) \subseteq seen /\ ToSet(buffered) \subseteq seen
    BY <1>7 DEF OnceSeen
  <2>2. IsInjective(buffered) /\ ToSet(tail) \cap ToSet(buffered) = {}
    BY <1>1, <2>1, ApartOnce
  <2>3. IsInjective(tail') /\ ToSet(tail') \cap ToSet(buffered) = {}
    BY <1>2, <1>4, <1>5, <1>7, <2>1, <2>2
  <2>4. IsInjective(tail' \o buffered)
    BY <1>1, <1>5, <2>2, <2>3, BothOnce
  <2> QED
    BY <1>2, <1>5, <2>1, <2>4
<1> QED
  BY <1>5, <1>6, <1>7 DEF OnceSeen

\* A poll is answered.
LEMMA PollAnswered ==
    ASSUME LogsTypeOK, Streamed, NEW i \in DOMAIN polls, PollAnswers(i)
    PROVE  Streamed'
<1> DEFINE poll == polls[i]
           left(n) == gone \union (Unreached(poll.q, n) \ seen)
<1>1. polls' = RemoveAt(polls, i) /\ UNCHANGED <<log, page, session, rendered, moves>>
  BY DEF PollAnswers
<1>2. UNCHANGED <<log, active, bar, time, session, rendered, moves>>
  BY <1>1 DEF page
<1>3. polls' \in Seq(Poll) /\ PollsOfRun'
  BY <1>1, <1>2, PollGone
<1>4. OfQuery(rendered)'
  BY <1>2 DEF Streamed, OfQuery, Matches
<1>5. LogsRest /\ OfQuery(tail) /\ OfQuery(buffered) /\ OnceSeen
  BY DEF Streamed
<1>6. CASE Stopped(poll)
  <2>1. UNCHANGED <<seen, tail, buffered, paused, fresh, gone>>
    BY <1>6 DEF PollAnswers, history
  <2>2. LogsRest'
    BY <1>2, <1>3, <1>5, <2>1 DEF LogsRest
  <2>3. OfQuery(tail)' /\ OfQuery(buffered)' /\ OnceSeen'
    BY <1>2, <1>5, <2>1 DEF OfQuery, OnceSeen, Matches
  <2> QED
    BY <1>3, <1>4, <2>2, <2>3 DEF Streamed
<1>7. CASE ~Stopped(poll)
  <2>1. PICK n \in poll.since .. log :
          \E new \in NewestFirst(Newest(poll.q, n) \ seen) :
                  /\ seen' = seen \union ToSet(new)
                  /\ \/ /\ poll.first
                        /\ tail' = Cut(new) /\ buffered' = <<>> /\ paused' = FALSE
                        /\ fresh' = TRUE
                        /\ gone' = left(n) \union CutOff(new) \union ToSet(tail \o buffered)
                     \/ /\ ~poll.first /\ paused
                        /\ buffered' = new \o buffered
                        /\ gone' = left(n) /\ UNCHANGED <<tail, paused, fresh>>
                     \/ /\ ~poll.first /\ ~paused
                        /\ tail' = Cut(new \o tail)
                        /\ gone' = left(n) \union CutOff(new \o tail)
                        /\ UNCHANGED <<buffered, paused, fresh>>
    BY <1>7 DEF PollAnswers
  <2>2. PICK new \in NewestFirst(Newest(poll.q, n) \ seen) :
                  /\ seen' = seen \union ToSet(new)
                  /\ \/ /\ poll.first
                        /\ tail' = Cut(new) /\ buffered' = <<>> /\ paused' = FALSE
                        /\ fresh' = TRUE
                        /\ gone' = left(n) \union CutOff(new) \union ToSet(tail \o buffered)
                     \/ /\ ~poll.first /\ paused
                        /\ buffered' = new \o buffered
                        /\ gone' = left(n) /\ UNCHANGED <<tail, paused, fresh>>
                     \/ /\ ~poll.first /\ ~paused
                        /\ tail' = Cut(new \o tail)
                        /\ gone' = left(n) \union CutOff(new \o tail)
                        /\ UNCHANGED <<buffered, paused, fresh>>
    BY <2>1
  <2>3. /\ new \in Seq(Events) /\ IsInjective(new) /\ ToSet(new) \cap seen = {}
        /\ \A e \in ToSet(new) : Matches(poll.q, e)
    BY AnswerHolds
  <2> HIDE DEF left
  <2>11. left(n) \subseteq Events
    <3>1. Unreached(poll.q, n) \subseteq Events
      BY AnswerHolds DEF Unreached
    <3> QED
      BY <1>5, <3>1 DEF left, LogsRest
  <2>4. poll.q = active
    BY <1>7 DEF Stopped, Streamed, PollsOfRun
  <2>5. OfQuery(new)
    BY <2>3, <2>4 DEF OfQuery
  <2>6. ToSet(new) \subseteq Events /\ ToSet(new \o tail) \subseteq Events
        /\ ToSet(tail \o buffered) \subseteq Events /\ CutOff(new) \subseteq Events
        /\ CutOff(new \o tail) \subseteq Events
    <3>1. tail \in Seq(Events) /\ buffered \in Seq(Events)
      BY <1>5 DEF LogsRest
    <3>2. new \o tail \in Seq(Events) /\ tail \o buffered \in Seq(Events)
      BY <2>3, <3>1, ShowsBoth
    <3> QED
      BY <2>3, <3>2, ShowsMembers, CutTyped
  <2>7. seen' \subseteq Events
    BY <1>5, <2>2, <2>6 DEF LogsRest
  <2>8. CASE /\ poll.first
             /\ tail' = Cut(new) /\ buffered' = <<>> /\ paused' = FALSE
             /\ fresh' = TRUE
             /\ gone' = left(n) \union CutOff(new) \union ToSet(tail \o buffered)
    <3>1. /\ tail' \in Seq(Events) /\ Len(tail') <= TailMax /\ buffered' \in Seq(Events)
          /\ OfQuery(tail)' /\ OfQuery(buffered)' /\ OnceSeen'
      BY <1>2, <1>5, <2>2, <2>3, <2>5, <2>8, OpenedStream
    <3>2. LogsRest'
      BY <1>2, <1>3, <1>5, <2>6, <2>7, <2>8, <2>11, <3>1 DEF LogsRest
    <3> QED
      BY <1>3, <1>4, <3>1, <3>2 DEF Streamed
  <2>9. CASE /\ ~poll.first /\ paused
             /\ buffered' = new \o buffered
             /\ gone' = left(n) /\ UNCHANGED <<tail, paused, fresh>>
    <3>1. /\ buffered' \in Seq(Events) /\ OfQuery(tail)' /\ OfQuery(buffered)' /\ OnceSeen'
      BY <1>2, <1>5, <2>2, <2>3, <2>5, <2>9, BufferedStream
    <3>2. LogsRest'
      BY <1>2, <1>3, <1>5, <2>7, <2>9, <2>11, <3>1 DEF LogsRest
    <3> QED
      BY <1>3, <1>4, <3>1, <3>2 DEF Streamed
  <2>10. CASE /\ ~poll.first /\ ~paused
              /\ tail' = Cut(new \o tail)
              /\ gone' = left(n) \union CutOff(new \o tail)
              /\ UNCHANGED <<buffered, paused, fresh>>
    <3>1. /\ tail' \in Seq(Events) /\ Len(tail') <= TailMax
          /\ OfQuery(tail)' /\ OfQuery(buffered)' /\ OnceSeen'
      BY <1>2, <1>5, <2>2, <2>3, <2>5, <2>10, TailedStream
    <3>2. LogsRest'
      BY <1>2, <1>3, <1>5, <2>6, <2>7, <2>10, <2>11, <3>1 DEF LogsRest
    <3> QED
      BY <1>3, <1>4, <3>1, <3>2 DEF Streamed
  <2> QED
    BY <2>2, <2>8, <2>9, <2>10
<1> QED
  BY <1>6, <1>7

\* The chip puts back what it was rendered with, which, when the buffer ends with it, is there once.
LEMMA Resumed ==
    ASSUME LogsTypeOK, Streamed, resume
    PROVE  Streamed'
<1> DEFINE all == rendered \o tail
<1>1. /\ tail' = Cut(all) /\ buffered' = <<>> /\ rendered' = <<>> /\ paused' = FALSE
      /\ fresh' = (fresh /\ IsSuffix(rendered, buffered))
      /\ gone' = gone \union CutOff(all) \union (ToSet(buffered) \ ToSet(rendered))
      /\ UNCHANGED <<log, page, session, polls, seen>> /\ Move
  BY DEF resume
<1>2. /\ tail \in Seq(Events) /\ buffered \in Seq(Events) /\ rendered \in Seq(Events)
      /\ seen \subseteq Events /\ gone \subseteq Events /\ fresh \in BOOLEAN
  BY DEF Streamed, LogsRest
<1>3. all \in Seq(Events) /\ ToSet(all) = ToSet(rendered) \union ToSet(tail)
  BY <1>2, ShowsBoth
<1>4. ASSUME time.live, fresh'
      PROVE  IsInjective(all) /\ ToSet(all) \subseteq seen
  <2>1. fresh /\ IsSuffix(rendered, buffered)
    BY <1>1, <1>4
  <2>2. IsInjective(tail \o buffered) /\ ToSet(tail) \subseteq seen /\ ToSet(buffered) \subseteq seen
    BY <1>4, <2>1 DEF Streamed, OnceSeen
  <2>3. IsInjective(tail) /\ IsInjective(buffered) /\ ToSet(tail) \cap ToSet(buffered) = {}
    BY <1>2, <2>2, ApartOnce
  <2>4. IsInjective(rendered) /\ ToSet(rendered) \subseteq ToSet(buffered)
    BY <1>2, <2>1, <2>3, EndOnce
  <2>5. ToSet(rendered) \cap ToSet(tail) = {}
    BY <2>3, <2>4
  <2> QED
    BY <1>2, <1>3, <2>2, <2>3, <2>4, <2>5, BothOnce
<1> HIDE DEF all
<1>5. /\ tail' \in Seq(Events) /\ Len(tail') <= TailMax /\ ToSet(tail') \subseteq ToSet(all)
      /\ CutOff(all) \subseteq Events
      /\ IsInjective(all) => IsInjective(tail')
  BY <1>1, <1>3, CutTyped
<1>6. moves' \in 0 .. MaxMoves
  BY <1>1, MoveTyped DEF Streamed
<1>7. ToSet(buffered) \subseteq Events
  BY <1>2, ShowsMembers
<1>8. fresh' \in BOOLEAN /\ gone' \subseteq Events
  <2>1. (fresh /\ IsSuffix(rendered, buffered)) \in BOOLEAN
    BY ZenonT(30)
  <2>2. fresh' \in BOOLEAN
    BY <1>1, <2>1
  <2>3. gone' \subseteq Events
    BY <1>1, <1>2, <1>5, <1>7
  <2> QED
    BY <2>2, <2>3
<1>9. LogsRest'
  BY <1>1, <1>5, <1>6, <1>8, NothingTwice DEF Streamed, LogsRest, page
<1>10. PollsOfRun'
  BY <1>1 DEF Streamed, PollsOfRun, page
<1>11. OfQuery(tail)' /\ OfQuery(buffered)' /\ OfQuery(rendered)'
  <2>1. active' = active /\ OfQuery(tail) /\ OfQuery(rendered)
    BY <1>1 DEF Streamed, page
  <2>2. \A e \in ToSet(tail') : Matches(active, e)
    BY <1>3, <1>5, <2>1 DEF OfQuery
  <2> QED
    BY <1>1, <2>1, <2>2, NothingTwice DEF OfQuery
<1>12. OnceSeen'
  <2>1. time' = time /\ seen' = seen
    BY <1>1 DEF page
  <2>2. tail' \o <<>> = tail'
    BY <1>5, ConcatEmptySeq
  <2>3. ASSUME time.live, fresh'
        PROVE  IsInjective(tail' \o buffered') /\ ToSet(tail') \subseteq seen /\ ToSet(buffered') \subseteq seen
    <3>1. IsInjective(all) /\ ToSet(all) \subseteq seen
      BY <1>4, <2>3
    <3>2. IsInjective(tail') /\ ToSet(tail') \subseteq seen
      BY <1>5, <3>1
    <3>3. buffered' = <<>> /\ ToSet(buffered') = {}
      BY <1>1, NothingTwice
    <3>4. IsInjective(tail' \o buffered')
      BY <2>2, <3>2, <3>3
    <3> QED
      BY <3>2, <3>3, <3>4
  <2> QED
    BY <2>1, <2>3 DEF OnceSeen
<1> QED
  BY <1>9, <1>10, <1>11, <1>12 DEF Streamed

\* What shows nothing new.
LEMMA ShownAlone ==
    ASSUME LogsTypeOK, Streamed,
           pause \/ Render \/ Log \/ (\E i \in DOMAIN polls : PollFails(i)) \/ UNCHANGED logsVars
    PROVE  Streamed'
<1>1. LogsRest /\ PollsOfRun /\ OfQuery(tail) /\ OfQuery(buffered) /\ OfQuery(rendered) /\ OnceSeen
  BY DEF Streamed
<1>2. UNCHANGED <<tail, buffered, seen, fresh, gone, session, active, bar, time>>
  BY DEF pause, Render, Log, PollFails, page, live, history, logsVars
<1>3. OfQuery(tail)' /\ OfQuery(buffered)' /\ OnceSeen'
  BY <1>1, <1>2 DEF OfQuery, OnceSeen, Matches
<1>4. rendered' = rendered \/ rendered' = buffered
  BY DEF pause, Render, Log, PollFails, live, logsVars
<1>5. OfQuery(rendered)'
  BY <1>1, <1>2, <1>4 DEF OfQuery, Matches
<1>6. polls' \in Seq(Poll) /\ PollsOfRun'
  <2>1. CASE polls' = polls
    BY <1>1, <1>2, <2>1 DEF LogsRest, PollsOfRun
  <2>2. CASE \E i \in DOMAIN polls : PollFails(i)
    <3>1. PICK i \in DOMAIN polls : polls' = RemoveAt(polls, i)
      BY <2>2 DEF PollFails
    <3> QED
      BY <1>2, <3>1, PollGone
  <2> QED
    BY <2>1, <2>2 DEF pause, Render, Log, live, logsVars
<1>7. log' \in 0 .. MaxLog /\ moves' \in 0 .. MaxMoves /\ paused' \in BOOLEAN
  <2>1. log' \in 0 .. MaxLog
    BY <1>1, LogsConstants DEF LogsRest, pause, Render, Log, PollFails, logsVars
  <2>2. moves' \in 0 .. MaxMoves
    BY <1>1, MoveTyped DEF LogsRest, pause, Render, Log, PollFails, logsVars
  <2>3. paused' \in BOOLEAN
    BY <1>1 DEF LogsRest, pause, Render, Log, PollFails, live, logsVars
  <2> QED
    BY <2>1, <2>2, <2>3
<1>8. LogsRest'
  BY <1>1, <1>2, <1>4, <1>6, <1>7 DEF LogsRest
<1> QED
  BY <1>3, <1>5, <1>6, <1>8 DEF Streamed

\* Every step keeps the tail one stream.
LEMMA StreamedStep ==
    ASSUME LogsTypeOK, Streamed, [LogsNext]_logsVars
    PROVE  Streamed'
<1>0. bar \in Queries /\ active \in Queries /\ time \in Time
  BY DEF LogsTypeOK
<1>1. ASSUME NEW p \in Presets, setPreset(p)
      PROVE  Streamed'
  <2>1. UNCHANGED <<log, bar, active, live, history>> /\ time'.live = time.live /\ Move
    BY <1>0, <1>1 DEF setPreset, Time
  <2> QED
    BY <1>0, <2>1, MoveTyped, TailAlone DEF Streamed
<1>2. ASSUME NEW l \in BOOLEAN, setLive(l)
      PROVE  Streamed'
  <2>1. UNCHANGED <<log, bar, active>> /\ Switch(l) /\ time'.live = l /\ Move
    BY <1>0, <1>2 DEF setLive, Time
  <2> QED
    BY <2>1, Switched
<1>3. ASSUME NEW w \in Zooms, zoomBy(w)
      PROVE  Streamed'
  <2>1. UNCHANGED <<log, bar, active, live, history>> /\ time'.live = time.live /\ Move
    BY <1>0, <1>3 DEF zoomBy, Time
  <2> QED
    BY <1>0, <2>1, MoveTyped, TailAlone DEF Streamed
<1>4. CASE resetZoom
  <2>1. UNCHANGED <<log, bar, active, live, history>> /\ time'.live = time.live /\ Move
    BY <1>0, <1>4 DEF resetZoom, Time
  <2> QED
    BY <1>0, <2>1, MoveTyped, TailAlone DEF Streamed
<1>5. ASSUME NEW to \in {at - 1, at + 1}, onPop(to)
      PROVE  Streamed'
  <2>1. UNCHANGED <<log, bar, active>> /\ Switch(time'.live) /\ Move
    BY <1>5 DEF onPop
  <2>2. time'.live \in BOOLEAN
    <3>1. urls[to] \in Url /\ time' = parseUrl(urls[to])
      BY <1>5 DEF onPop, Restored, LogsTypeOK
    <3>2. time' \in Time
      BY <3>1, ParsedIsTime
    <3> QED
      BY <3>2 DEF Time
  <2> QED
    BY <2>1, <2>2, Switched
<1>6. ASSUME NEW q \in Queries, submitQuery(q), bar' \in Queries
      PROVE  Streamed'
  BY <1>6, Submitted
<1>7. CASE submit
  <2>1. submitQuery(bar) /\ bar' = bar
    BY <1>7 DEF submit
  <2> QED
    BY <1>0, <1>6, <2>1
<1>8. ASSUME NEW f \in Pills, setText(f) \/ pivot(f) \/ toggleFacet(f) \/ removePill(f)
      PROVE  Streamed'
  <2>1. bar \union {f} \in Queries /\ bar \ {f} \in Queries
    BY <1>0 DEF Queries
  <2>2. CASE setText(f)
    <3>1. UNCHANGED <<log, active, live, history>> /\ time' = time /\ bar' \in Queries /\ Move
      BY <2>1, <2>2 DEF setText
    <3> QED
      BY <3>1, MoveTyped, TailAlone DEF Streamed
  <2>3. CASE pivot(f) \/ toggleFacet(f) \/ removePill(f)
    <3>1. bar' \in Queries
      BY <2>1, <2>3 DEF pivot, toggleFacet, removePill
    <3>2. submitQuery(bar')
      BY <2>3 DEF pivot, toggleFacet, removePill
    <3> QED
      BY <1>6, <3>1, <3>2
  <2> QED
    BY <1>8, <2>2, <2>3
<1>9. ASSUME NEW q \in Queries, applyView(q)
      PROVE  Streamed'
  <2>1. submitQuery(q) /\ bar' = q
    BY <1>9 DEF applyView
  <2> QED
    BY <1>6, <2>1
<1>10. CASE resume
  BY <1>10, Resumed
<1>11. CASE PollAgain
  BY <1>11, PolledAgain
<1>12. ASSUME NEW i \in DOMAIN polls, PollAnswers(i)
       PROVE  Streamed'
  BY <1>12, PollAnswered
<1>13. CASE pause \/ Render \/ Log \/ (\E i \in DOMAIN polls : PollFails(i)) \/ UNCHANGED logsVars
  BY <1>13, ShownAlone
<1>14. CASE navigate
  <2>1. UNCHANGED <<log, bar, active, live, history>> /\ time'.live = time.live /\ Move
    BY <1>14 DEF navigate
  <2> QED
    BY <1>0, <2>1, MoveTyped, TailAlone DEF Streamed
<1> QED
  BY <1>1, <1>2, <1>3, <1>4, <1>5, <1>7, <1>8, <1>9, <1>10, <1>11, <1>12, <1>13, <1>14 DEF LogsNext

\* Every event of a query as old as one of a set is in another set.
Accounted(q, S, T) == \A newest \in S : \A e \in 1 .. newest : Matches(q, e) => e \in T

\* The tail's account.
LEMMA LossIsAccounted ==
    /\ NoOtherEventIsLost <=> (time.live => Accounted(active, seen, ToSet(Shown) \union gone))
    /\ NoOtherEventIsLost' <=> (time'.live => Accounted(active', seen', ToSet(Shown') \union gone'))
BY DEF NoOtherEventIsLost, Accounted

\* An answer with what it returns, what its page did not reach and what was there.
LEMMA AnswerAccounts ==
    ASSUME NEW q, NEW n \in Nat, NEW S \in SUBSET Nat, NEW T, NEW U, Accounted(q, S, T),
           T \subseteq U, Newest(q, n) \ S \subseteq U, Unreached(q, n) \ S \subseteq U
    PROVE  Accounted(q, S \union (Newest(q, n) \ S), U)
<1>1. \A m \in Found(q, n) : m \in 1 .. n
  BY DEF Found
<1>2. \A m \in Newest(q, n) : m \in 1 .. n
  BY <1>1 DEF Newest
<1>3. ASSUME NEW m \in S \union (Newest(q, n) \ S), NEW e \in 1 .. m, Matches(q, e)
      PROVE  e \in U
  <2>1. CASE m \in S
    BY <1>3, <2>1 DEF Accounted
  <2>2. CASE m \in Newest(q, n)
    <3>1. e \in Found(q, n)
      BY <1>2, <1>3, <2>2 DEF Found
    <3>2. CASE e \in S
      <4>1. e \in 1 .. e
        BY <1>3
      <4> QED
        BY <1>3, <3>2, <4>1 DEF Accounted
    <3>3. CASE e \notin S
      BY <3>1, <3>3 DEF Unreached
    <3> QED
      BY <3>2, <3>3
  <2> QED
    BY <2>1, <2>2
<1> QED
  BY <1>3 DEF Accounted

\* A step that leaves the tail, its query, what it has seen and whether it is live loses nothing.
LEMMA KeptAlone ==
    ASSUME NoOtherEventIsLost, UNCHANGED <<tail, buffered, seen, gone, active>>,
           time'.live = time.live
    PROVE  NoOtherEventIsLost'
BY LossIsAccounted DEF Shown

\* A handler that may stop or open a run loses nothing.
LEMMA KeptSwitched ==
    ASSUME NoOtherEventIsLost, NEW l \in BOOLEAN, Switch(l), time'.live = l, UNCHANGED active
    PROVE  NoOtherEventIsLost'
<1>1. Effect(l, active, seen) /\ UNCHANGED <<tail, buffered>>
  BY DEF Switch
<1>2. CASE l /\ ~time.live
  <2>1. seen' = {}
    BY <1>1, <1>2 DEF Effect
  <2> QED
    BY <2>1 DEF NoOtherEventIsLost
<1>3. CASE l /\ time.live
  <2>1. seen' = seen /\ gone' = gone
    BY <1>1, <1>3 DEF Effect, Switch
  <2> QED
    BY <1>1, <1>3, <2>1, LossIsAccounted DEF Shown
<1>4. CASE ~l
  BY <1>4 DEF NoOtherEventIsLost
<1> QED
  BY <1>2, <1>3, <1>4

\* An answer loses what its page does not reach, what it cuts off and, when it opens a run,
\* what was shown before.
LEMMA KeptAnswered ==
    ASSUME LogsTypeOK, Streamed, NoOtherEventIsLost, NEW i \in DOMAIN polls, PollAnswers(i)
    PROVE  NoOtherEventIsLost'
<1> DEFINE poll == polls[i]
           left(n) == gone \union (Unreached(poll.q, n) \ seen)
<1>0. UNCHANGED <<time, active>>
  BY DEF PollAnswers, page
<1>1. tail \in Seq(Events) /\ buffered \in Seq(Events)
  BY DEF LogsTypeOK
<1>2. ToSet(tail \o buffered) = ToSet(tail) \union ToSet(buffered)
  BY <1>1, ShowsBoth
<1>3. CASE Stopped(poll)
  <2>1. UNCHANGED <<tail, buffered, seen, gone>>
    BY <1>3 DEF PollAnswers, history
  <2> QED
    BY <1>0, <2>1, KeptAlone
<1>4. CASE ~Stopped(poll) /\ time.live
  <2>0. PICK n \in poll.since .. log :
          \E new \in NewestFirst(Newest(poll.q, n) \ seen) :
                  /\ seen' = seen \union ToSet(new)
                  /\ \/ /\ tail' = Cut(new) /\ buffered' = <<>>
                        /\ gone' = left(n) \union CutOff(new) \union ToSet(tail \o buffered)
                     \/ /\ buffered' = new \o buffered
                        /\ gone' = left(n) /\ UNCHANGED tail
                     \/ /\ tail' = Cut(new \o tail)
                        /\ gone' = left(n) \union CutOff(new \o tail)
                        /\ UNCHANGED buffered
    BY <1>4 DEF PollAnswers
  <2>1. PICK new \in NewestFirst(Newest(poll.q, n) \ seen) :
                  /\ seen' = seen \union ToSet(new)
                  /\ \/ /\ tail' = Cut(new) /\ buffered' = <<>>
                        /\ gone' = left(n) \union CutOff(new) \union ToSet(tail \o buffered)
                     \/ /\ buffered' = new \o buffered
                        /\ gone' = left(n) /\ UNCHANGED tail
                     \/ /\ tail' = Cut(new \o tail)
                        /\ gone' = left(n) \union CutOff(new \o tail)
                        /\ UNCHANGED buffered
    BY <2>0
  <2>2. new \in Seq(Events) /\ ToSet(new) = Newest(poll.q, n) \ seen
    BY AnswerHolds
  <2>3. new \o tail \in Seq(Events) /\ ToSet(new \o tail) = ToSet(new) \union ToSet(tail)
    BY <1>1, <2>2, ShowsBoth
  <2>4. new \o buffered \in Seq(Events) /\ ToSet(new \o buffered) = ToSet(new) \union ToSet(buffered)
    BY <1>1, <2>2, ShowsBoth
  <2>5. /\ poll.q = active /\ n \in Nat /\ seen \in SUBSET Nat
        /\ Accounted(active, seen, ToSet(Shown) \union gone)
    <3>1. poll.q = active
      BY <1>4 DEF Stopped, Streamed, PollsOfRun
    <3>2. poll \in Poll
      BY DEF LogsTypeOK
    <3>3. n \in Nat
      BY <3>2, LogsConstants DEF Poll, LogsTypeOK
    <3>4. seen \in SUBSET Nat
      BY LogsConstants DEF LogsTypeOK, Events
    <3> QED
      BY <1>4, <3>1, <3>3, <3>4, LossIsAccounted
  <2> HIDE DEF poll
  <2>6. SUFFICES /\ ToSet(new) \union ToSet(tail) \union ToSet(buffered) \union left(n)
                       \subseteq ToSet(Shown') \union gone'
    <3>1. ToSet(Shown) \union gone \subseteq ToSet(Shown') \union gone'
      BY <1>2, <2>6 DEF Shown, left
    <3>2. Unreached(active, n) \ seen \subseteq ToSet(Shown') \union gone'
      BY <2>5, <2>6 DEF left
    <3>3. Newest(active, n) \ seen \subseteq ToSet(Shown') \union gone'
      BY <2>2, <2>5, <2>6
    <3>4. Accounted(active, seen \union (Newest(active, n) \ seen), ToSet(Shown') \union gone')
      BY <2>5, <3>1, <3>2, <3>3, AnswerAccounts
    <3>5. seen' = seen \union (Newest(active, n) \ seen)
      BY <2>1, <2>2, <2>5
    <3> QED
      BY <1>0, <3>4, <3>5, LossIsAccounted
  <2> HIDE DEF left
  <2>7. CASE /\ tail' = Cut(new) /\ buffered' = <<>>
             /\ gone' = left(n) \union CutOff(new) \union ToSet(tail \o buffered)
    <3>1. tail' \in Seq(Events) /\ ToSet(new) \subseteq ToSet(tail') \union gone'
      BY <2>2, <2>7, CutTyped DEF CutOff
    <3>2. tail' \o buffered' = tail'
      BY <2>7, <3>1, ConcatEmptySeq
    <3> QED
      BY <1>2, <2>7, <3>1, <3>2 DEF Shown
  <2>8. CASE buffered' = new \o buffered /\ gone' = left(n) /\ UNCHANGED tail
    <3>0. buffered' \in Seq(Events) /\ ToSet(buffered') = ToSet(new) \union ToSet(buffered) /\ tail' = tail
      BY <2>4, <2>8
    <3>1. ToSet(tail' \o buffered') = ToSet(tail) \union ToSet(new) \union ToSet(buffered)
      BY <1>1, <3>0, ShowsBoth
    <3> QED
      BY <2>8, <3>1 DEF Shown
  <2>9. CASE tail' = Cut(new \o tail) /\ gone' = left(n) \union CutOff(new \o tail) /\ UNCHANGED buffered
    <3>1. tail' \in Seq(Events) /\ ToSet(new) \union ToSet(tail) \subseteq ToSet(tail') \union gone'
      BY <2>3, <2>9, CutTyped DEF CutOff
    <3>2. ToSet(tail' \o buffered') = ToSet(tail') \union ToSet(buffered)
      BY <1>1, <2>9, <3>1, ShowsBoth
    <3> QED
      BY <2>9, <3>1, <3>2 DEF Shown
  <2> QED
    BY <2>1, <2>7, <2>8, <2>9
<1>5. CASE ~time.live
  BY <1>0, <1>5 DEF NoOtherEventIsLost
<1> QED
  BY <1>3, <1>4, <1>5

\* The chip loses what it cuts off and what it was not rendered with.
LEMMA KeptResumed ==
    ASSUME LogsTypeOK, NoOtherEventIsLost, resume
    PROVE  NoOtherEventIsLost'
<1>1. tail \in Seq(Events) /\ buffered \in Seq(Events) /\ rendered \in Seq(Events)
  BY DEF LogsTypeOK
<1>2. ToSet(tail \o buffered) = ToSet(tail) \union ToSet(buffered)
  BY <1>1, ShowsBoth
<1>3. /\ rendered \o tail \in Seq(Events)
      /\ ToSet(rendered \o tail) = ToSet(rendered) \union ToSet(tail)
  BY <1>1, ShowsBoth
<1>4. /\ tail' = Cut(rendered \o tail) /\ buffered' = <<>> /\ UNCHANGED <<time, active, seen>>
      /\ gone' = gone \union CutOff(rendered \o tail) \union (ToSet(buffered) \ ToSet(rendered))
  BY DEF resume, page
<1>5. tail' \in Seq(Events) /\ ToSet(rendered) \union ToSet(tail) \subseteq ToSet(tail') \union gone'
  BY <1>3, <1>4, CutTyped DEF CutOff
<1>6. tail' \o buffered' = tail'
  BY <1>4, <1>5, ConcatEmptySeq
<1>7. ToSet(Shown) \union gone \subseteq ToSet(Shown') \union gone'
  BY <1>2, <1>4, <1>5, <1>6 DEF Shown
<1>8. time.live => Accounted(active, seen, ToSet(Shown') \union gone')
  BY <1>7, LossIsAccounted DEF Accounted
<1> QED
  BY <1>4, <1>8, LossIsAccounted

\* No step loses an event but as the code says it does.
LEMMA KeptStep ==
    ASSUME LogsTypeOK, Streamed, NoOtherEventIsLost, [LogsNext]_logsVars
    PROVE  NoOtherEventIsLost'
<1>0. bar \in Queries /\ time \in Time
  BY DEF LogsTypeOK
<1>1. CASE (\E p \in Presets : setPreset(p)) \/ (\E w \in Zooms : zoomBy(w)) \/ resetZoom
           \/ navigate \/ (\E f \in Pills : setText(f))
  <2>1. UNCHANGED <<tail, buffered, seen, gone, active>>
    BY <1>1 DEF setPreset, zoomBy, resetZoom, navigate, setText, live, history
  <2>2. time'.live = time.live
    BY <1>0, <1>1 DEF setPreset, zoomBy, resetZoom, navigate, setText, Time
  <2> QED
    BY <2>1, <2>2, KeptAlone
<1>2. ASSUME NEW l \in BOOLEAN, setLive(l)
      PROVE  NoOtherEventIsLost'
  <2>1. Switch(l) /\ time'.live = l /\ UNCHANGED active
    BY <1>0, <1>2 DEF setLive, Time
  <2> QED
    BY <2>1, KeptSwitched
<1>3. ASSUME NEW to \in {at - 1, at + 1}, onPop(to)
      PROVE  NoOtherEventIsLost'
  <2>1. Switch(time'.live) /\ UNCHANGED active /\ urls[to] \in Url /\ time' = parseUrl(urls[to])
    BY <1>3 DEF onPop, Restored, LogsTypeOK
  <2>2. time'.live \in BOOLEAN
    BY <2>1, ParsedIsTime DEF Time
  <2> QED
    BY <2>1, <2>2, KeptSwitched
<1>4. ASSUME NEW q, submitQuery(q)
      PROVE  NoOtherEventIsLost'
  <2>1. Effect(time.live, q, {})
    BY <1>4 DEF submitQuery
  <2>2. seen' = {}
    BY <2>1 DEF Effect
  <2> QED
    BY <2>2 DEF NoOtherEventIsLost
<1>5. CASE submit \/ (\E f \in Pills : pivot(f) \/ toggleFacet(f) \/ removePill(f))
           \/ (\E q \in Queries : applyView(q))
  <2>1. submitQuery(bar) \/ submitQuery(bar')
    BY <1>5 DEF submit, pivot, toggleFacet, removePill, applyView
  <2> QED
    BY <1>4, <2>1
<1>6. CASE resume
  BY <1>6, KeptResumed
<1>7. ASSUME NEW i \in DOMAIN polls, PollAnswers(i)
      PROVE  NoOtherEventIsLost'
  BY <1>7, KeptAnswered
<1>8. CASE pause \/ Render \/ Log \/ PollAgain \/ (\E i \in DOMAIN polls : PollFails(i))
           \/ UNCHANGED logsVars
  <2>1. UNCHANGED <<tail, buffered, seen, gone, active, time>>
    BY <1>8 DEF pause, Render, Log, PollAgain, PollFails, page, live, history, logsVars
  <2> QED
    BY <2>1, KeptAlone
<1> QED
  BY <1>1, <1>2, <1>3, <1>5, <1>6, <1>7, <1>8 DEF LogsNext

----------------------------------------------------------------------------
(* The logs explorer: theorems. *)

\* The inductive invariant.
LogsInv == LogsTypeOK /\ Ranged /\ Streamed /\ NoOtherEventIsLost

\* It starts so.
LEMMA LogsStart == LogsInit => LogsInv
<1> SUFFICES ASSUME LogsInit PROVE LogsInv
  OBVIOUS
<1>1. PICK u \in Url : urls = <<u>>
  BY DEF LogsInit
<1>2. at = 1 /\ urls[at] = u /\ urls \in Seq(Url) /\ at \in DOMAIN urls
  BY <1>1 DEF LogsInit
<1>3. time \in Time /\ carried \in BOOLEAN /\ (~carried => RangeShown(u, time))
  <2>1. CASE time = parseUrl(u) /\ carried = FALSE
    BY <2>1, ParsedIsTime DEF RangeShown
  <2>2. CASE time \in Time /\ carried = TRUE
    BY <2>2
  <2> QED
    BY <1>1, <2>1, <2>2 DEF LogsInit
<1>4. Ranged
  BY <1>2, <1>3 DEF Ranged
<1>5. bar \in Queries /\ active \in Queries /\ time.live \in BOOLEAN
  BY <1>2, <1>3 DEF LogsInit, Url, Time
<1>6. log = 0 /\ session = 0 /\ 0 \in 0 .. MaxLog /\ 0 \in 0 .. MaxMoves
  BY LogsConstants DEF LogsInit
<1> DEFINE o == Opening(0, active)
<1>7. o \in Poll /\ o.session = 0 /\ o.q = active
  BY <1>5, <1>6 DEF Opening, Poll
<1>8. polls = IF time.live THEN <<o>> ELSE <<>>
  BY DEF LogsInit
<1> HIDE DEF o
<1>9. polls \in Seq(Poll) /\ PollsOfRun
  <2>1. polls \in Seq(Poll) /\ \A i \in DOMAIN polls : polls[i] = o
    BY <1>7, <1>8
  <2> QED
    BY <1>6, <1>7, <2>1 DEF PollsOfRun
<1>10. /\ seen = {} /\ tail = <<>> /\ buffered = <<>> /\ rendered = <<>> /\ paused = FALSE
       /\ moves = 0 /\ fresh = TRUE /\ gone = {}
  BY DEF LogsInit
<1>11. LogsRest
  <2>1. tail \in Seq(Events) /\ buffered \in Seq(Events) /\ rendered \in Seq(Events) /\ Len(tail) <= TailMax
    BY <1>10, NothingTwice, LogsConstants
  <2>2. seen \subseteq Events /\ gone \subseteq Events /\ paused \in BOOLEAN /\ fresh \in BOOLEAN
    BY <1>10
  <2>3. log \in 0 .. MaxLog /\ moves \in 0 .. MaxMoves /\ session \in Nat
    BY <1>6, <1>10
  <2> QED
    BY <1>5, <1>9, <2>1, <2>2, <2>3 DEF LogsRest
<1>12. LogsTypeOK
  BY <1>4, <1>11 DEF LogsTypeOK, LogsRest, Ranged
<1>13. OfQuery(tail) /\ OfQuery(buffered) /\ OfQuery(rendered) /\ OnceSeen
  BY <1>10, NothingTwice DEF OfQuery, OnceSeen
<1> QED
  BY <1>4, <1>9, <1>10, <1>11, <1>12, <1>13 DEF LogsInv, Streamed, NoOtherEventIsLost

\* Every step keeps it.
LEMMA LogsStep == LogsInv /\ [LogsNext]_logsVars => LogsInv'
<1> SUFFICES ASSUME LogsInv, [LogsNext]_logsVars PROVE LogsInv'
  OBVIOUS
<1>1. Ranged' /\ Streamed' /\ NoOtherEventIsLost'
  BY RangedStep, StreamedStep, KeptStep DEF LogsInv
<1>2. LogsTypeOK'
  BY <1>1 DEF Ranged, Streamed, LogsRest, LogsTypeOK
<1> QED
  BY <1>1, <1>2 DEF LogsInv

\* It holds throughout.
LEMMA LogsInvariant == LogsSpec => []LogsInv
BY LogsStart, LogsStep, PTL DEF LogsSpec

\* The logs explorer's variables keep their types.
THEOREM LogsTyped == LogsSpec => []LogsTypeOK
<1>1. LogsInv => LogsTypeOK
  BY DEF LogsInv
<1> QED
  BY <1>1, LogsInvariant, PTL

\* The address bar names the range on screen after every change of it on the page and every
\* move back and forward, until a link inside the dashboard carries it over (time-range.tsx:9).
THEOREM UrlShowsRange == LogsSpec => []UrlIsTheRange
<1>1. LogsInv => UrlIsTheRange
  BY DEF LogsInv, Ranged, RangeShown, RangeSpan, UrlIsTheRange
<1> QED
  BY <1>1, LogsInvariant, PTL

\* The live tail is one stream of the query on screen, each event once, in whatever order its
\* polls are answered, fail or outlive their run (logs.ts:78-80).
THEOREM TailOneStream == LogsSpec => []TailIsOneStream
<1>1. ASSUME LogsInv
      PROVE  TailIsOneStream
  <2>1. tail \in Seq(Events) /\ buffered \in Seq(Events)
    BY <1>1 DEF LogsInv, Streamed, LogsRest
  <2>2. ToSet(tail \o buffered) = ToSet(tail) \union ToSet(buffered)
    BY <2>1, ShowsBoth
  <2>3. \A e \in ToSet(tail \o buffered) : Matches(active, e)
    BY <1>1, <2>2 DEF LogsInv, Streamed, OfQuery
  <2>4. time.live /\ fresh => IsInjective(tail \o buffered)
    BY <1>1 DEF LogsInv, Streamed, OnceSeen
  <2> QED
    BY <2>3, <2>4 DEF TailIsOneStream, Shown
<1> QED
  BY <1>1, LogsInvariant, PTL

\* Of the events of the query as old as the newest one a poll of the run returned, whether or
\* not a poll returned them, the tail lacks only those a full page did not reach, those it
\* cut off, those on screen before the run's opening answer and those that came after
\* the chip was rendered that is clicked (logs.ts:76, 83 and 111).
THEOREM NothingElseLost == LogsSpec => []NoOtherEventIsLost
<1>1. LogsInv => NoOtherEventIsLost
  BY DEF LogsInv
<1> QED
  BY <1>1, LogsInvariant, PTL
=============================================================================
