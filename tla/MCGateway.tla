----------------------------- MODULE MCGateway -----------------------------
(* Gateway on small sets, with its symmetry. *)
EXTENDS Gateway, TLC

Symmetry == Permutations(Requests) \union Permutations(Instances) \union Permutations(Orgs)
=============================================================================
