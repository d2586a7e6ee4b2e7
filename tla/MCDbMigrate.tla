------------------------------ MODULE MCDbMigrate ------------------------------
(* Two processes, three starts between them (two that overlap and one after), *)
(* one fault.                                                                 *)
EXTENDS MigrationScripts

Symmetry == Permutations(Procs)
=============================================================================
