---------------------------- MODULE MCIngestKeys ----------------------------
(* IngestKeys on small sets, with its symmetry. *)
EXTENDS IngestKeys, TLC

Symmetry == Permutations(Secrets) \union Permutations(Lookups)
=============================================================================
