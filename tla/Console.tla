------------------------------- MODULE Console -------------------------------
(***************************************************************************)
(* How the web console keeps its screens true: the loads of useRequest     *)
(* (src/web/src/controllers/use-request.ts), the operations that write and *)
(* then reload, and the panels that wait for them.                         *)
(*                                                                         *)
(* A behaviour is about one scene: one panel of a screen beside one of its *)
(* buttons, with the hooks either of them needs.  The user presses the     *)
(* button and selects something else, MovesIn(scene) times in all; calls   *)
(* are answered in any order, late, or not at all.                         *)
(*                                                                         *)
(* A hook shows what a call found at the server: for which selection, and  *)
(* how many of the scene's own writes had been applied by then.            *)
(***************************************************************************)
EXTENDS Pages, Integers, FiniteSets

CONSTANTS Scenes,    \* the scenes to look at, a subset of AllScenes
          MovesIn(_) \* how often the user selects or presses there at most

ASSUME ConsoleAssumption == \A s \in Scenes : MovesIn(s) \in Nat

NoButton == Free(Op(<<>>, {}))

\* Every panel of a screen beside every button of the same screen.
AllScenes ==
    UNION {LET panels == UNION {s.panels : s \in screen}
               buttons == {NoButton} \cup UNION {s.buttons : s \in screen}
           IN  {[panel |-> p, op |-> b.op, lock |-> b.lock] :
                  p \in panels, b \in buttons}
           : screen \in Screens}

VARIABLES scene,    \* never changes
          sel,      \* what is selected: the deps of the keyed hooks
          timer,    \* the hooks whose load is due at the next tick
          hook,     \* the state of each hook
          calls,    \* the loads that have not been answered
          written,  \* how many of the writes below the server has applied
          press     \* each press of the button

vars == <<scene, sel, timer, hook, calls, written, press>>

Moves == MovesIn(scene)
Pressed == {i \in 1..Moves : press[i].at # "idle"}
MovesLeft == (sel - 1) + Cardinality(Pressed) < Moves

Hooks == scene.panel.hooks \cup scene.op.reloads
IsKeyed(h) == AllHooks[h].keyed
Selected(h) == IF IsKeyed(h) THEN sel ELSE 1

\* Mutant: loading starts out false.
FreshIdle == [seq |-> 0, loading |-> FALSE, failed |-> FALSE, of |-> 0, at |-> 0]

\* of = 0: no data.  at: the writes the data has seen.
Fresh == [seq |-> 0, loading |-> TRUE, failed |-> FALSE, of |-> 0, at |-> 0]

\* left: what the press has applied and not taken back.
Idle == [at |-> "idle", step |-> 1, upto |-> 0, ok |-> TRUE, left |-> 0,
         undone |-> TRUE]

HookState == [seq : Nat, loading : BOOLEAN, failed : BOOLEAN, of : Nat, at : Nat]
PressState == [at : {"idle", "calling", "sent", "undoing", "loading", "done", "failed"},
               step : Nat, upto : Nat, ok : BOOLEAN, left : Nat, undone : BOOLEAN]

TypeOK ==
    /\ scene \in Scenes /\ sel \in Nat \ {0} /\ timer \subseteq Hooks
    /\ hook \in [Hooks -> HookState]
    /\ calls \subseteq [hook : Hooks, seq : Nat, of : Nat \ {0}, read : BOOLEAN,
                       at : Nat, by : {0} \cup 1..Moves]
    /\ written \in Nat
    /\ press \in [1..Moves -> PressState]

Init ==
    /\ scene \in Scenes
    /\ sel = 1
    /\ timer = Hooks
    /\ hook = [h \in Hooks |-> Fresh]
    /\ calls = {}
    /\ written = 0
    /\ press = [i \in 1..Moves |-> Idle]

----------------------------------------------------------------------------
(* useRequest.                                                             *)

\* reload: a new sequence number, loading, and a call for what is selected
\* now.  The data of the last load stays.  by: the press that awaits it.
Load(hs, by) ==
    /\ hook' = [h \in Hooks |->
                  IF h \in hs
                  THEN [hook[h] EXCEPT !.seq = @ + 1, !.loading = TRUE, !.failed = FALSE]
                  ELSE hook[h]]
    /\ calls' = calls \cup
                {[hook |-> h, seq |-> hook[h].seq + 1, of |-> Selected(h),
                  read |-> FALSE, at |-> 0, by |-> by] : h \in hs}

\* Mutant: the effect does not depend on depsKey.
SelectUnnoticed ==
    /\ MovesLeft
    /\ sel' = sel + 1
    /\ UNCHANGED <<scene, timer, hook, calls, written, press>>

\* The effect of a hook whose deps have changed: its timer is replaced.
Select ==
    /\ MovesLeft
    /\ sel' = sel + 1
    /\ timer' = timer \cup {h \in Hooks : IsKeyed(h)}
    /\ UNCHANGED <<scene, hook, calls, written, press>>

Tick(h) ==
    /\ h \in timer
    /\ timer' = timer \ {h}
    /\ Load({h}, 0)
    /\ UNCHANGED <<scene, sel, written, press>>

ServerReads(c) ==
    /\ ~c.read
    /\ calls' = (calls \ {c}) \cup {[c EXCEPT !.read = TRUE, !.at = written]}
    /\ UNCHANGED <<scene, sel, timer, hook, written, press>>

\* Mutant: whichever answer comes last counts.
SettleAny(c, value) == hook' = [hook EXCEPT ![c.hook] = value]

\* Only the answer to the latest load counts.
Settle(c, value) ==
    hook' = IF hook[c.hook].seq = c.seq THEN [hook EXCEPT ![c.hook] = value] ELSE hook

Answer(c) ==
    /\ c.read
    /\ Settle(c, [hook[c.hook] EXCEPT !.loading = FALSE, !.of = c.of, !.at = c.at])
    /\ calls' = calls \ {c}
    /\ UNCHANGED <<scene, sel, timer, written, press>>

\* Mutant: loading is cleared after a success only.
FailKeepsLoading(c) ==
    /\ Settle(c, [hook[c.hook] EXCEPT !.failed = TRUE])
    /\ calls' = calls \ {c}
    /\ UNCHANGED <<scene, sel, timer, written, press>>

Fail(c) ==
    /\ Settle(c, [hook[c.hook] EXCEPT !.loading = FALSE, !.failed = TRUE])
    /\ calls' = calls \ {c}
    /\ UNCHANGED <<scene, sel, timer, written, press>>

----------------------------------------------------------------------------
(* An operation: its calls in order, then its reloads.                     *)

Busy(i) == press[i].at \in {"calling", "sent", "undoing", "loading"}

\* A guarded button is disabled while any press of it is under way.
Press(i) ==
    /\ MovesLeft
    /\ Pressed = 1..(i - 1)
    /\ scene.op.calls # <<>>
    /\ scene.lock # "none" => \A j \in 1..Moves : ~Busy(j)
    /\ press' = [press EXCEPT ![i].at = "calling"]
    /\ UNCHANGED <<scene, sel, timer, hook, calls, written>>

\* The server carries the call out.
Apply(i) ==
    /\ press[i].at = "calling"
    /\ written' = written + 1
    /\ press' = [press EXCEPT ![i].at = "sent", ![i].left = @ + 1,
                              ![i].upto = written + 1]
    /\ UNCHANGED <<scene, sel, timer, hook, calls>>

\* await state.reload(): the press ends when its loads have been answered.
Reload(i, p) ==
    /\ Load(scene.op.reloads, i)
    /\ press' = [press EXCEPT ![i] = [p EXCEPT !.at = "loading"]]

\* The answer arrives: on to the next call, or to the reloads.
Proceed(i) ==
    /\ press[i].at = "sent"
    /\ IF press[i].step < Len(scene.op.calls)
       THEN /\ press' = [press EXCEPT ![i].at = "calling", ![i].step = @ + 1]
            /\ UNCHANGED <<hook, calls>>
       ELSE Reload(i, press[i])
    /\ UNCHANGED <<scene, sel, timer, written>>

\* Mutant: a failed import is not rolled back.
CallFailsPlainly(i) ==
    /\ press[i].at \in {"calling", "sent"}
    /\ press' = [press EXCEPT ![i].ok = FALSE, ![i].at = "failed"]
    /\ UNCHANGED <<scene, sel, timer, hook, calls, written>>

\* The call is refused or does not reach the server, or its answer is lost.
\* An operation with an undo starts it once its first call was answered;
\* any other throws at once, without reloading.
CallFails(i) ==
    /\ press[i].at \in {"calling", "sent"}
    /\ press' = [press EXCEPT
                   ![i].ok = FALSE,
                   ![i].at = IF scene.op.undo /\ press[i].step > 1
                             THEN "undoing" ELSE "failed"]
    /\ UNCHANGED <<scene, sel, timer, hook, calls, written>>

\* The undo removes what the first call made, with all that was put in it.
Undo(i) ==
    /\ press[i].at = "undoing"
    /\ written' = written + 1
    /\ Reload(i, [press[i] EXCEPT !.left = 0, !.upto = written + 1])
    /\ UNCHANGED <<scene, sel, timer>>

UndoFails(i) ==
    /\ press[i].at = "undoing"
    /\ Reload(i, [press[i] EXCEPT !.undone = FALSE])
    /\ UNCHANGED <<scene, sel, timer, written>>

\* A load that failed ends the wait as well: reload never throws.
End(i) ==
    /\ press[i].at = "loading"
    /\ \A c \in calls : c.by # i
    /\ press' = [press EXCEPT ![i].at = IF press[i].ok THEN "done" ELSE "failed"]
    /\ UNCHANGED <<scene, sel, timer, hook, calls, written>>

----------------------------------------------------------------------------
Settling == \E c \in calls : ServerReads(c) \/ Answer(c) \/ Fail(c)
Ticking == \E h \in Hooks : Tick(h)
Pressing == \E i \in 1..Moves :
               \/ Press(i) \/ Apply(i) \/ Proceed(i) \/ CallFails(i)
               \/ Undo(i) \/ UndoFails(i) \/ End(i)

Next == Select \/ Ticking \/ Settling \/ Pressing

Spec == Init /\ [][Next]_vars

\* A timer fires and a call ends, one way or the other.  Nobody has to
\* press or to select anything.
FairSpec == Spec /\ WF_vars(Ticking) /\ WF_vars(Settling)

----------------------------------------------------------------------------
(* What a panel shows.                                                     *)

Waiting ==
    LET hs == scene.panel.hooks IN
    CASE scene.panel.waits = "loading"  -> \E h \in hs : hook[h].loading
      [] scene.panel.waits = "either"   -> \E h \in hs : hook[h].loading \/ hook[h].of = 0
      [] scene.panel.waits = "first"    -> \E h \in hs : hook[h].loading /\ hook[h].of = 0
      [] scene.panel.waits = "matching" -> \E h \in hs : hook[h].loading \/ hook[h].of # sel
      [] OTHER                          -> FALSE

Lacking == ~Waiting /\ \E h \in scene.panel.hooks : hook[h].of = 0

\* A hook at rest: nothing is due, nothing under way, the last load came back.
Settled(h) == h \notin timer /\ ~hook[h].loading /\ ~hook[h].failed

----------------------------------------------------------------------------
(* The user sees their own change: once a press has ended well, or badly   *)
(* with an undo, no hook it reloads comes to rest on data from before its  *)
(* last write, however late older loads are answered (useRequest's         *)
(* sequence number, the await state.reload() of every operation).          *)
Reloaded(i) ==
    \/ press[i].at = "done"
    \/ press[i].at = "failed" /\ scene.op.undo /\ press[i].step > 1
OwnWritesAreShown ==
    \A i \in 1..Moves : Reloaded(i) =>
        \A h \in scene.op.reloads : Settled(h) => hook[h].at >= press[i].upto

(* A panel never rests on the data of what was selected before: not a      *)
(* hook whose last load came back, and a panel that matches ids (the trace *)
(* drawer) not even after a failed one.                                    *)
ShownIsSelected ==
    /\ \A h \in Hooks : Settled(h) => hook[h].of = Selected(h)
    /\ scene.panel.waits = "matching" /\ ~Waiting =>
          \A h \in scene.panel.hooks : hook[h].of = sel

(* A panel that waits for its loads says there is nothing only when it has *)
(* been told so or could not be told: never before the first answer, and   *)
(* never while a load is under way.                                        *)
ClaimsAreAnswered ==
    scene.panel.waits = "loading" /\ Lacking =>
        \E h \in scene.panel.hooks : hook[h].failed

(* An import that fails half-way leaves no part of the dashboard, unless   *)
(* the removal fails too (importJson's roll back).                         *)
NothingHalfMade ==
    \A i \in 1..Moves :
        scene.op.undo /\ press[i].at = "failed" /\ press[i].step > 1 /\ press[i].undone
            => press[i].left = 0

(* The screen follows the server: once a press has ended well, no hook of  *)
(* the panel beside the button that reads a table the press has changed    *)
(* rests on data from before its last write (each operation reloads what   *)
(* it has changed).  It need not be so where the press leaves the page, or *)
(* where a panel shows only names that the write does not change.  It is   *)
(* not so for the hooks of the shell, which load once, and for the rules   *)
(* after a channel was removed, which the server takes out of them.        *)
Changed(op) == UNION {op.calls[k].writes : k \in DOMAIN op.calls}
LeavesThePage == {<<"builtCheck", Synthetics.ops.removeCheck>>}
ShowsNamesOnly == {<<"dashboards", MetricsExplorer.ops.saveToDashboard>>,
                   <<"check", RunHere>>}
NotFollowed == {<<"rules", Alerts.ops.removeChannel>>}
Follows(h, op) ==
    /\ AllHooks[h].reads \cap Changed(op) # {}
    /\ h \notin DOMAIN Shell.hooks
    /\ op # Shell.ops.switchOrg
    /\ <<h, op>> \notin LeavesThePage \cup ShowsNamesOnly \cup NotFollowed

(* A skeleton gives way: to data, or to what the panel says without any.   *)
LoadsEnd == scene.panel.waits = "loading" /\ Waiting ~> ~Waiting
=============================================================================
