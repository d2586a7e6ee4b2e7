---------------------------- MODULE MCInternalDb ----------------------------
(***************************************************************************)
(* A small instance of InternalDb: two tasks, and of everything else one   *)
(* or two.                                                                 *)
(***************************************************************************)
EXTENDS InternalDb, TLC

CONSTANTS t1, t2, a, b, n1, n2, h1, h2, p1, p2

MCTasks == {t1, t2}
Symmetry == Permutations(MCTasks) \union Permutations(ConnNames) \union Permutations(Hosts)
            \union Permutations(Passwords)

\* a is an environment of an older release, with a secret in plain text.
MCOldNames == a :> "prod" @@ b :> None
MCOldSecrets == << a, "token" >> :> "xyz" @@ << b, "token" >> :> None

MCSchemas == {<< 1, 2 >>, << 2 >>}
=============================================================================
