---------------------------- MODULE MCScheduler ----------------------------
(* Instances of Scheduler for TLC: passes are interchangeable. *)
EXTENDS Scheduler, TLC

PassSymmetry == Permutations(Passes)
=============================================================================
