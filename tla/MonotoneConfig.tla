--------------------------- MODULE MonotoneConfig ---------------------------
(***************************************************************************)
(* What the distribution of configuration promises its readers, whatever   *)
(* outbox, snapshots and messages do in between: a reader's copy of a kind *)
(* is one that was current once, never steps back to an older one, and is  *)
(* the current one in the end.  Outbox implements it.                      *)
(***************************************************************************)
EXTENDS Naturals

CONSTANTS
    Kinds,   \* the config kinds
    Readers  \* processes that keep a copy

VARIABLES
    current,  \* per kind, how many changes are committed
    known     \* per reader and kind, the change its copy is of

vars == <<current, known>>

Init ==
    /\ current = [k \in Kinds |-> 0]
    /\ known = [r \in Readers |-> [k \in Kinds |-> 0]]

Change(k) ==
    /\ current' = [current EXCEPT ![k] = @ + 1]
    /\ UNCHANGED known

\* Readers take newer copies of any kinds.
Learn ==
    /\ known' \in [Readers -> [Kinds -> Nat]]
    /\ \A r \in Readers, k \in Kinds : known'[r][k] \in known[r][k] .. current[k]
    /\ UNCHANGED current

Next == (\E k \in Kinds : Change(k)) \/ Learn

\* What no step may break.
Safety == Init /\ [][Next]_vars

\* Once changes end, every copy becomes the current one.
Settles == <>[][FALSE]_current => \A r \in Readers, k \in Kinds : []<>(known[r][k] = current[k])

Spec == Safety /\ Settles
=============================================================================
