---------------------------- MODULE MCPoolManager ----------------------------
(* Finite instance of PoolManager: two records that differ in host and TTL.  *)
EXTENDS PoolManager, TLC

CONSTANTS h1, h2, p1, t1, t2

MCConfigs ==
    {[host |-> h1, port |-> p1, ttl |-> 0, qtimeout |-> 1],
     [host |-> h2, port |-> p1, ttl |-> 1, qtimeout |-> 2]}

Symmetry == Permutations(Tasks)
=============================================================================
