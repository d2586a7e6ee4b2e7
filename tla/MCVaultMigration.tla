-------------------------- MODULE MCVaultMigration --------------------------
EXTENDS VaultMigration, TLC

CONSTANTS n1, n2, v1, s1, s2

Server(pw) == [kind |-> "server", pw |-> pw]
Other == [kind |-> "other", pw |-> None]

MCFound == { [n \in Names |-> None],
             n1 :> Server(s1) @@ n2 :> None,
             n1 :> Other @@ n2 :> Server(s1) }

\* No row, or one with a plain password and one whose password is in the keychain or
\* which cannot be built.
Row(n, pw, whole) == [name |-> n, kind |-> "server", whole |-> whole, pw |-> pw]

MCTables == { << >>,
              << Row(n1, s1, TRUE), Row(n2, Sentinel, TRUE) >>,
              << Row(n1, s1, TRUE), Row(n2, s1, FALSE) >> }

MCOldVars == << [var |-> v1, value |-> s2, secret |-> TRUE] >>
=============================================================================
