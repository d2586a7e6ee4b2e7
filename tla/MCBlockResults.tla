--------------------------- MODULE MCBlockResults ---------------------------
(* Two callers, two hashes (an edited block and its old text), one alias and   *)
(* blocks without one, two saves.  A third caller could do nothing a second    *)
(* one does not do after a crash.  No symmetry: the run checks liveness.       *)
EXTENDS BlockResults
=============================================================================
