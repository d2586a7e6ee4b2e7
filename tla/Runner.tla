-------------------------------- MODULE Runner --------------------------------
(***************************************************************************)
(* BlockRunner::execute of src/src/runner.rs: run one block of a note,     *)
(* first running, recursively, the blocks above it that its placeholders   *)
(* name.                                                                   *)
(*                                                                         *)
(* A note is a function from line numbers to blocks.  An alias stands for  *)
(* the text before the first dot of a placeholder; aliases are numbered in *)
(* the order in which extract_placeholders sorts those texts, so the       *)
(* references of a block are visited in increasing order.  The recursion   *)
(* of execute_block_recursive is the array `stack`, whose frame i runs at  *)
(* depth i - 1.                                                            *)
(***************************************************************************)
EXTENDS Integers, Sequences

CONSTANTS
    Lines,      \* lines on which a note may have an executable block
    Aliases,    \* block aliases
    NoAlias,    \* a block without alias=
    Notes,      \* the notes considered
    MaxDepth    \* MAX_DEPENDENCY_DEPTH

Block == [alias : Aliases \union {NoAlias}, refs : SUBSET Aliases, null : BOOLEAN]

ASSUME LineAssumption == Lines \subseteq Nat
ASSUME AliasAssumption == Aliases \subseteq Nat /\ NoAlias \notin Aliases
ASSUME NoteAssumption == Notes \subseteq [Lines -> Block]
ASSUME DepthAssumption == MaxDepth \in Nat

VARIABLES
    note,        \* the parsed blocks of the file
    target,      \* the alias asked for
    stack,       \* frames of execute_block_recursive, outermost first
    height,      \* number of frames in use
    executed,    \* aliases whose result is cached for the blocks that follow
    inProgress,  \* aliases inside the recursion
    log,         \* history: lines handed to an executor, in order
    used,        \* history: <<line, line of the block whose result it read>>
    cause        \* "idle", "pending", "ok", or the innermost error of the run

vars == <<note, target, stack, height, executed, inProgress, log, used, cause>>
-----------------------------------------------------------------------------
Errors == {"NoteRead", "DependencyFailed", "CyclicDependency", "BlockNotFound", "InvalidParams",
           "ExecutionFailed"}
Frame == [line : Lines, alias : Aliases, todo : SUBSET Aliases]
NoFrame == [unused |-> TRUE]
NoBlock == [alias |-> NoAlias, refs |-> {}, null |-> FALSE]
Depths == 1..(MaxDepth + 1)
Top == stack[height]

\* parse_blocks + find_block_by_alias.
HasBlock(a) == \E l \in Lines : note[l].alias = a

\* The first block that carries the alias.
IsFirst(a, l) ==
    /\ note[l].alias = a
    /\ \A m \in Lines : note[m].alias = a => l <= m

\* blocks_above: some block with the alias starts before this line.
Above(a, line) == \E l \in Lines : l < line /\ note[l].alias = a

\* Mutant: a block may depend on itself and on blocks below it.
PendingAnywhere(f) == {a \in f.todo : HasBlock(a) /\ a \notin executed}

\* References of a frame not yet visited that still need a run.
Pending(f) == {a \in f.todo : Above(a, f.line) /\ a \notin executed}

\* extract_placeholders sorts: the smallest pending reference is next, and those
\* before it have been passed over for good.
NextDep(f, a) == a \in Pending(f) /\ \A b \in Pending(f) : a <= b
-----------------------------------------------------------------------------
\* Before execute is called no file is read: the note is empty.
Init ==
    /\ note = [l \in Lines |-> NoBlock]
    /\ target = NoAlias
    /\ stack = [d \in Depths |-> NoFrame]
    /\ height = 0
    /\ executed = {}
    /\ inProgress = {}
    /\ log = <<>>
    /\ used = {}
    /\ cause = "idle"

\* The checks at the top of execute_block_recursive, in the code's order.  `depth`
\* is the number of callers.  An alias already executed would be answered from the
\* cache, but no caller asks for one.
Refusal(a, depth) ==
    IF depth > MaxDepth THEN "DependencyFailed"
    ELSE IF a \in inProgress THEN "CyclicDependency"
    ELSE IF ~HasBlock(a) THEN "BlockNotFound"
    ELSE IF \E l \in Lines : IsFirst(a, l) /\ note[l].null THEN "InvalidParams"
    ELSE "none"

\* A call that passes its checks gets a frame; one that does not ends the run,
\* every caller wrapping the error in DependencyFailed on the way out.
Enter(a, callers) ==
    IF Refusal(a, height) = "none"
    THEN /\ \E l \in Lines :
              /\ IsFirst(a, l)
              /\ stack' = [callers EXCEPT ![height + 1] =
                              [line |-> l, alias |-> a, todo |-> note[l].refs]]
         /\ height' = height + 1
         /\ inProgress' = inProgress \union {a}
         /\ UNCHANGED cause
    ELSE /\ cause' = Refusal(a, height)
         /\ inProgress' = IF Refusal(a, height) \in {"DependencyFailed", "CyclicDependency"}
                          THEN inProgress ELSE inProgress \union {a}
         /\ UNCHANGED <<stack, height>>

\* execute: the note is read, or cannot be, and parsed.
Load ==
    /\ cause = "idle"
    /\ target' \in Aliases
    /\ \/ note' \in Notes /\ cause' = "pending"
       \/ cause' = "NoteRead" /\ UNCHANGED note
    /\ UNCHANGED <<stack, height, executed, inProgress, log, used>>

\* ... and its target entered at depth 0.
Start ==
    /\ cause = "pending"
    /\ height = 0
    /\ Enter(target, stack)
    /\ UNCHANGED <<note, target, executed, log, used>>

\* The next reference that needs a run is run before this block goes on.
Descend ==
    /\ cause = "pending"
    /\ height > 0
    /\ \E a \in Aliases :
           /\ NextDep(Top, a)
           /\ Enter(a, [stack EXCEPT ![height].todo = {b \in Top.todo : b > a}])
    /\ UNCHANGED <<note, target, executed, log, used>>

\* resolve_all replaces a reference by whatever result is cached under its alias.
Resolved(f) ==
    {<<f.line, l>> : l \in {m \in Lines : \E a \in note[f.line].refs \cap executed : IsFirst(a, m)}}

\* All references visited: the executor accepts the block, the result (whatever its
\* status) is cached, and the frame returns to its caller.
RunTop ==
    /\ cause = "pending"
    /\ height > 0
    /\ Pending(Top) = {}
    /\ log' = Append(log, Top.line)
    /\ used' = used \union Resolved(Top)
    /\ executed' = executed \union {Top.alias}
    /\ inProgress' = inProgress \ {Top.alias}
    /\ stack' = [stack EXCEPT ![height] = NoFrame]
    /\ height' = height - 1
    /\ cause' = IF height = 1 THEN "ok" ELSE cause
    /\ UNCHANGED <<note, target>>

\* Mutant: a failing dependency is passed over and its caller goes on.
FailTopSwallowed ==
    /\ cause = "pending"
    /\ height > 0
    /\ Pending(Top) = {}
    /\ stack' = [stack EXCEPT ![height] = NoFrame]
    /\ height' = height - 1
    /\ cause' = IF height = 1 THEN "ExecutionFailed" ELSE cause
    /\ UNCHANGED <<note, target, executed, inProgress, log, used>>

\* The executor refuses or fails (unknown type, validation, transport error).
FailTop ==
    /\ cause = "pending"
    /\ height > 0
    /\ Pending(Top) = {}
    /\ log' = Append(log, Top.line)
    /\ used' = used \union Resolved(Top)
    /\ cause' = "ExecutionFailed"
    /\ UNCHANGED <<note, target, stack, height, executed, inProgress>>

Next == Load \/ Start \/ Descend \/ RunTop \/ FailTop

\* Every executor call returns (the HTTP client and the DB run carry timeouts).
Spec == Init /\ [][Next]_vars /\ WF_vars(Start \/ Descend \/ RunTop \/ FailTop)
-----------------------------------------------------------------------------
(* Properties                                                              *)

\* Every variable has the shape of the Rust value it stands for.
TypeOK ==
    /\ note \in [Lines -> Block]
    /\ target \in Aliases \union {NoAlias}
    /\ stack \in [Depths -> Frame \union {NoFrame}]
    /\ height \in 0..(MaxDepth + 1)
    /\ \A d \in Depths : d <= height <=> stack[d] # NoFrame
    /\ executed \subseteq Aliases
    /\ inProgress \subseteq Aliases
    /\ log \in Seq(Lines)
    /\ used \subseteq Lines \X Lines
    /\ cause \in Errors \union {"idle", "pending", "ok"}

\* The recursion climbs the note: each frame works on a block strictly above its
\* caller's, whatever aliases repeat or refer to each other, so the depth is
\* bounded by the blocks of the note.
CallsClimb ==
    \A c, d \in Depths :
        (c < d /\ d <= height) => stack[d].line < stack[c].line

\* A run never ends in CyclicDependency, mutual references included.
NoCyclicDependency == cause # "CyclicDependency"

\* No block is handed to an executor twice in one run, so a request shared by
\* several dependents is sent once.
ExecutedOnce == \A i, j \in DOMAIN log : i # j => log[i] # log[j]

\* When a block goes to its executor, every block above it that it references has
\* already gone and answered, and it is that block's result that stands for the
\* reference.  (A block below is read too if a dependent of both has run it first.)
DependenciesFirst ==
    \A i \in DOMAIN log : \A a \in note[log[i]].refs :
        Above(a, log[i]) =>
            \E j \in 1..(i - 1) : IsFirst(a, log[j]) /\ <<log[i], log[j]>> \in used

\* A run executes each block once, in an order in which its references have answered.
ExecutedInOrder == ExecutedOnce /\ DependenciesFirst

\* Every run ends, whatever circles the references make, and never in CyclicDependency:
\* the error that is there for them cannot occur.
RunTerminates == cause = "pending" ~> cause \notin {"idle", "pending", "CyclicDependency"}
=============================================================================
