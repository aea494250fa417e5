----------------------------- MODULE MCConsole -----------------------------
(***************************************************************************)
(* A panel and a button that share no hook, and none of whose tables the   *)
(* button changes, do not touch each other: each is looked at in the       *)
(* scenes of its own.  Two scenes of one shape differ only in the names of *)
(* their hooks and of what they write, so TLC takes one of each shape.     *)
(***************************************************************************)
EXTENDS Console

Count(hs, keyed) == Cardinality({h \in hs : IsKeyed(h) = keyed})
Counts(hs) == <<Count(hs, TRUE), Count(hs, FALSE)>>
Following(s) == {h \in s.panel.hooks : Follows(h, s.op)}

ShapeOf(s) ==
    [waits |-> s.panel.waits, lacking |-> s.panel.lacking, free |-> s.lock = "none",
     undo |-> s.op.undo, calls |-> Len(s.op.calls),
     shown |-> Counts(s.panel.hooks \ s.op.reloads),
     both |-> Counts(s.panel.hooks \cap s.op.reloads),
     reloaded |-> Counts(s.op.reloads \ s.panel.hooks),
     follows |-> Counts(Following(s)),
     forgotten |-> Counts(Following(s) \ s.op.reloads)]

Close(s) ==
    s.op.calls = <<>> \/ s.panel.hooks \cap s.op.reloads # {} \/ Following(s) # {}

OneOfEachShape ==
    LET scenes == {s \in AllScenes : Close(s)}
    IN  {CHOOSE s \in scenes : ShapeOf(s) = shape : shape \in {ShapeOf(s) : s \in scenes}}

\* Two presses, two selections or one of each against every order of the
\* answers; a single move where several hooks load side by side.
Bound(s) == IF Cardinality(s.panel.hooks \cup s.op.reloads) = 1 THEN 2 ELSE 1
=============================================================================
