---------------------------- MODULE MCEvaluator ----------------------------
(* Instances of Evaluator for TLC: regions are interchangeable. *)
EXTENDS Evaluator, TLC

RegionSymmetry == Permutations(Regions)
=============================================================================
