------------------------------- MODULE MCRunner -------------------------------
(* Notes of three blocks whose aliases repeat or are missing (two aliases) or   *)
(* are all different (three aliases, in any order), with every choice of        *)
(* references; chains of four blocks, which reach past the depth limit of 2;    *)
(* and chains where one block has no parameters.                                *)
EXTENDS Runner

MCLines == 1..4
MCAliases == 1..4

Filled(a, r) == [alias |-> a, refs |-> r, null |-> FALSE]

ThreeBlocks(namings, referable) ==
    {[l \in MCLines |-> IF l = 4 THEN NoBlock ELSE Filled(as[l], rs[l])] :
        as \in namings, rs \in [1..3 -> SUBSET referable]}

Repeating == ThreeBlocks([1..3 -> {1, 2, NoAlias}], {1, 2})

Distinct ==
    ThreeBlocks({as \in [1..3 -> 1..3] : \A l, m \in 1..3 : as[l] = as[m] => l = m}, 1..3)

Chains ==
    {[l \in MCLines |-> [alias |-> l,
                         refs |-> rs[l] \union {m \in MCAliases : m = l - 1},
                         null |-> l = k]] :
        rs \in [MCLines -> SUBSET {1, 4}], k \in 0..4}

MCNotes == Repeating \union Distinct \union Chains
=============================================================================
