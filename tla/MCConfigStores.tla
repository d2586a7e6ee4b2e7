----------------------------- MODULE MCConfigStores -----------------------------
(* One file of either kind, two tasks on one store, two sections (the one set    *)
(* and one that must stay), one value besides "unset".                           *)
EXTENDS ConfigStores, TLC

CONSTANTS user, workspace

\* user.toml: two overlapping writes and one after.  workspace.toml: two writes and an
\* edit of the override.
WriteBounds == [f \in Files |-> IF HasLocal(f) THEN <<2, 1>> ELSE <<3, 0>>]

Symmetry == Permutations(Tasks) \union Permutations(Sections)

\* Bound: a behaviour uses one of the two stores, which share no state.
InUse(f) ==
    \/ mtime[f] # <<0, 0>>
    \/ cache[f] # Empty
    \/ \E t \in Tasks : ~At(t, "idle") /\ call[t].file = f
OneStore == \A f, g \in Files : InUse(f) /\ InUse(g) => f = g
=============================================================================
