------------------------- MODULE MCEnvironmentsStore -------------------------
(* Two tasks, two environment names (a rename, and a name used again) with one *)
(* key each, two secrets (an old and a new one), and five writing calls.       *)
EXTENDS EnvironmentsStore, TLC

Symmetry == Permutations(Callers) \union Permutations(Envs) \union Permutations(Values)
=============================================================================
