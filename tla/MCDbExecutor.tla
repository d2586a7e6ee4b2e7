----------------------------- MODULE MCDbExecutor -----------------------------
(* Finite instance of DbExecutor: one execution, one connection, one override. *)
EXTENDS DbExecutor, TLC

CONSTANTS h1, h2, p1

MCConfigs == {[host |-> h2, port |-> p1, ttl |-> 0, qtimeout |-> 1]}
=============================================================================
