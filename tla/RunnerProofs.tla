------------------------------ MODULE RunnerProofs ------------------------------
(***************************************************************************)
(* Proofs about Runner, for notes of any size and any placing of aliases   *)
(* and references, and for any depth limit.                                *)
(***************************************************************************)
EXTENDS Runner, TLAPS

\* One block is the first to carry its alias.
LEMMA FirstIsUnique ==
    ASSUME NEW a, NEW l \in Lines, NEW m \in Lines, IsFirst(a, l), IsFirst(a, m)
    PROVE  l = m
  <1>1. l <= m /\ m <= l
    BY DEF IsFirst
  <1> QED BY <1>1, LineAssumption

\* A frame is never the empty slot.
LEMMA NoFrameIsNone == NoFrame \notin Frame
  BY DEF NoFrame, Frame

\* While a run is under way the stack is a path of first blocks, each strictly above
\* its caller, and inProgress is exactly the aliases on that path.
FramesOnFirst ==
    \A d \in Depths : d <= height => IsFirst(stack[d].alias, stack[d].line)

Path == {stack[d].alias : d \in {e \in Depths : e <= height}}

PathInv ==
    /\ FramesOnFirst
    /\ CallsClimb
    /\ cause = "idle" => height = 0 /\ inProgress = {}
    /\ cause = "pending" => inProgress = Path
    /\ cause = "pending" => target \in Aliases
    /\ NoCyclicDependency

ClimbInv == TypeOK /\ PathInv

LEMMA InitClimbInv == Init => ClimbInv
  <1> SUFFICES ASSUME Init PROVE ClimbInv
    OBVIOUS
  <1>1. note \in [Lines -> Block]
    BY DEF Init, NoBlock, Block
  <1>2. height = 0 /\ 0 \in 0..(MaxDepth + 1)
    BY DepthAssumption DEF Init
  <1>3. \A d \in Depths : ~(d <= height) /\ stack[d] = NoFrame
    BY <1>2 DEF Init, Depths
  <1>4. TypeOK
    BY <1>1, <1>2, <1>3 DEF Init, TypeOK
  <1>5. PathInv
    BY <1>2, <1>3 DEF Init, PathInv, FramesOnFirst, CallsClimb, NoCyclicDependency
  <1> QED BY <1>4, <1>5 DEF ClimbInv

\* A block found for an alias of the blocks above the innermost frame lies strictly
\* above every frame's block.
LEMMA CalleeAboveAll ==
    ASSUME stack \in [Depths -> Frame \union {NoFrame}],
           \A d \in Depths : d <= height => stack[d] \in Frame,
           height \in Depths, CallsClimb,
           NEW a, Above(a, Top.line), NEW l \in Lines, IsFirst(a, l),
           NEW d \in Depths, d <= height
    PROVE  l < stack[d].line
  <1>1. \A e \in Depths : e \in Nat
    BY DepthAssumption DEF Depths
  <1>2. Top.line \in Nat /\ stack[d].line \in Nat /\ l \in Nat
    <2>1. Top \in Frame /\ stack[d] \in Frame
      BY <1>1 DEF Top
    <2> QED BY <2>1, LineAssumption DEF Frame
  <1>3. PICK m \in Lines : m < Top.line /\ note[m].alias = a
    BY DEF Above
  <1>4. l <= m /\ m \in Nat
    BY <1>3, LineAssumption DEF IsFirst
  <1>5. l < Top.line
    BY <1>2, <1>3, <1>4
  <1>6. CASE d = height
    BY <1>5, <1>6 DEF Top
  <1>7. CASE d < height
    <2>1. height <= height
      BY <1>1
    <2>2. Top.line < stack[d].line
      BY <1>7, <2>1 DEF CallsClimb, Top
    <2> QED BY <1>2, <1>5, <2>2
  <1>8. d = height \/ d < height
    BY <1>1
  <1> QED BY <1>6, <1>7, <1>8

\* What a call to execute_block_recursive does, from Start (no caller) or from Descend
\* (`callers` differ from the stack in the references left to visit): when the block
\* found lies strictly above the caller's and no caller works on its alias, the
\* call gets a frame on top of the path.
LEMMA EnterKeepsPath ==
    ASSUME ClimbInv, cause = "pending",
           NEW a \in Aliases, NEW callers \in [Depths -> Frame \union {NoFrame}],
           \A d \in Depths :
               /\ (callers[d] # NoFrame) <=> (d <= height)
               /\ d <= height => /\ callers[d].line = stack[d].line
                                 /\ callers[d].alias = stack[d].alias,
           height > 0 => Above(a, Top.line),
           Enter(a, callers), UNCHANGED <<note, target, executed, log, used>>
    PROVE  ClimbInv'
  <1> USE DEF ClimbInv
  <1>t. /\ height \in Nat /\ height <= MaxDepth + 1
        /\ note \in [Lines -> Block]
        /\ stack \in [Depths -> Frame \union {NoFrame}]
        /\ \A d \in Depths : d \in Nat
        /\ \A d \in Depths : d <= height => stack[d] \in Frame
    BY DepthAssumption DEF TypeOK, Depths
  <1>1. a \notin inProgress
    <2> SUFFICES ASSUME a \in inProgress PROVE FALSE
      OBVIOUS
    <2>1. PICK d \in Depths : d <= height /\ stack[d].alias = a
      BY DEF PathInv, Path
    <2>2. height > 0 /\ height \in Depths
      BY <1>t, <2>1 DEF Depths
    <2>3. stack[d].line \in Lines /\ IsFirst(a, stack[d].line)
      BY <1>t, <2>1 DEF PathInv, FramesOnFirst, Frame
    <2>4. stack[d].line < stack[d].line
      BY <1>t, <2>1, <2>2, <2>3, CalleeAboveAll DEF PathInv
    <2>5. stack[d].line \in Nat
      BY <2>3, LineAssumption
    <2> QED BY <2>4, <2>5
  <1>2. Refusal(a, height) # "CyclicDependency"
    BY <1>1 DEF Refusal
  <1>3. CASE Refusal(a, height) # "none"
    <2>1. /\ cause' = Refusal(a, height) /\ cause' \in Errors
          /\ inProgress' \subseteq Aliases
          /\ UNCHANGED <<stack, height>>
      BY <1>3 DEF Enter, Refusal, Errors, TypeOK
    <2>2. cause' \notin {"idle", "pending", "CyclicDependency"}
      BY <1>2, <1>3, <2>1 DEF Errors
    <2>3. TypeOK'
      BY <2>1 DEF TypeOK
    <2>4. PathInv'
      BY <2>1, <2>2 DEF PathInv, FramesOnFirst, CallsClimb, NoCyclicDependency, IsFirst
    <2> QED BY <2>3, <2>4
  <1>4. CASE Refusal(a, height) = "none"
    <2>1. PICK l \in Lines :
              /\ IsFirst(a, l)
              /\ stack' = [callers EXCEPT ![height + 1] =
                              [line |-> l, alias |-> a, todo |-> note[l].refs]]
      BY <1>4 DEF Enter
    <2>2. height' = height + 1 /\ inProgress' = inProgress \union {a} /\ cause' = "pending"
      BY <1>4 DEF Enter
    <2>3. height + 1 \in Depths
      BY <1>4, <1>t, DepthAssumption DEF Refusal, Depths
    <2> DEFINE f == [line |-> l, alias |-> a, todo |-> note[l].refs]
    <2>4. f \in Frame
      BY <1>t DEF Frame, Block
    <2>5. /\ stack' \in [Depths -> Frame \union {NoFrame}]
          /\ stack'[height + 1] = f
          /\ \A d \in Depths : d # height + 1 => stack'[d] = callers[d]
      BY <2>1, <2>3, <2>4
    <2>6. \A d \in Depths : d <= height' <=> stack'[d] # NoFrame
      BY <1>t, <2>2, <2>3, <2>4, <2>5, NoFrameIsNone
    <2>7. TypeOK'
      BY <1>t, <2>2, <2>3, <2>5, <2>6 DEF TypeOK, Depths
    <2>8. FramesOnFirst'
      BY <1>t, <2>1, <2>2, <2>3, <2>5 DEF PathInv, FramesOnFirst, IsFirst
    <2>9. CallsClimb'
      <3> SUFFICES ASSUME NEW c \in Depths, NEW d \in Depths, c < d, d <= height'
                   PROVE  stack'[d].line < stack'[c].line
        BY DEF CallsClimb
      <3>1. c <= height /\ stack'[c].line = stack[c].line /\ stack[c] \in Frame
        BY <1>t, <2>2, <2>5
      <3>2. CASE d <= height
        BY <1>t, <2>5, <3>1, <3>2 DEF PathInv, CallsClimb
      <3>3. CASE d = height + 1
        <4>1. height \in Depths /\ height > 0
          BY <1>t, <3>1 DEF Depths
        <4>2. l < stack[c].line
          BY <1>t, <2>1, <3>1, <4>1, CalleeAboveAll DEF PathInv
        <4> QED BY <2>5, <3>1, <3>3, <4>2
      <3> QED BY <1>t, <2>2, <3>2, <3>3
    <2>10. inProgress' = Path'
      <3>1. Path' = Path \union {a}
        BY <1>t, <2>2, <2>3, <2>5 DEF Path
      <3> QED BY <2>2, <3>1 DEF PathInv
    <2> QED BY <2>2, <2>7, <2>8, <2>9, <2>10 DEF PathInv, NoCyclicDependency
  <1> QED BY <1>3, <1>4
-----------------------------------------------------------------------------
\* Frames work on different aliases.
LEMMA AliasesDiffer ==
    ASSUME ClimbInv, NEW c \in Depths, NEW d \in Depths, c < d, d <= height
    PROVE  stack[c].alias # stack[d].alias
  <1>1. c <= height /\ stack[c] \in Frame /\ stack[d] \in Frame
    <2>1. c \in Nat /\ d \in Nat /\ height \in Nat
      BY DepthAssumption DEF ClimbInv, TypeOK, Depths
    <2>2. c <= height
      BY <2>1
    <2> QED BY <2>2 DEF ClimbInv, TypeOK
  <1>2. IsFirst(stack[c].alias, stack[c].line) /\ IsFirst(stack[d].alias, stack[d].line)
    BY <1>1 DEF ClimbInv, PathInv, FramesOnFirst
  <1>3. stack[d].line < stack[c].line
    BY DEF ClimbInv, PathInv, CallsClimb
  <1>4. stack[c].line \in Nat /\ stack[c].line \in Lines /\ stack[d].line \in Lines
    BY <1>1, LineAssumption DEF Frame
  <1>5. stack[c].line # stack[d].line
    BY <1>3, <1>4
  <1> QED BY <1>2, <1>4, <1>5, FirstIsUnique

\* Every step keeps the path.
LEMMA NextClimbInv == ClimbInv /\ [Next]_vars => ClimbInv'
  <1> SUFFICES ASSUME ClimbInv, [Next]_vars PROVE ClimbInv'
    OBVIOUS
  <1> USE DEF ClimbInv
  <1>t. /\ height \in Nat /\ height <= MaxDepth + 1
        /\ note \in [Lines -> Block]
        /\ stack \in [Depths -> Frame \union {NoFrame}]
        /\ \A d \in Depths : d \in Nat /\ d >= 1
        /\ \A d \in Depths : d <= height => stack[d] \in Frame
    BY DepthAssumption DEF TypeOK, Depths
  <1>1. CASE Load
    <2>1. height = 0 /\ inProgress = {}
      BY <1>1 DEF Load, PathInv
    <2>2. \A d \in Depths : ~(d <= height)
      BY <1>t, <2>1
    <2>3. TypeOK'
      BY <1>1, NoteAssumption DEF Load, TypeOK, Errors
    <2>4. PathInv'
      BY <1>1, <2>1, <2>2
         DEF Load, PathInv, FramesOnFirst, CallsClimb, NoCyclicDependency, Path
    <2> QED BY <2>3, <2>4
  <1>2. CASE Start
    <2>1. target \in Aliases
      BY <1>2 DEF Start, PathInv
    <2>2. \A d \in Depths : (stack[d] # NoFrame) <=> (d <= height)
      BY DEF TypeOK
    <2>3. ~(height > 0)
      BY <1>2 DEF Start
    <2> QED BY <1>2, <1>t, <2>1, <2>2, <2>3, EnterKeepsPath DEF Start
  <1>3. CASE Descend
    <2>1. PICK a \in Aliases :
              /\ NextDep(Top, a)
              /\ Enter(a, [stack EXCEPT ![height].todo = {b \in Top.todo : b > a}])
      BY <1>3 DEF Descend
    <2> DEFINE callers == [stack EXCEPT ![height].todo = {b \in Top.todo : b > a}]
    <2>2. height \in Depths /\ Top \in Frame
      BY <1>3, <1>t DEF Descend, Depths, Top
    <2>3. /\ callers \in [Depths -> Frame \union {NoFrame}]
          /\ callers[height].line = Top.line
          /\ callers[height].alias = Top.alias
          /\ callers[height] \in Frame
          /\ \A d \in Depths : d # height => callers[d] = stack[d]
      BY <1>t, <2>2 DEF Frame, Top
    <2>4. \A d \in Depths :
               /\ (callers[d] # NoFrame) <=> (d <= height)
               /\ d <= height => /\ callers[d].line = stack[d].line
                                 /\ callers[d].alias = stack[d].alias
      BY <1>t, <2>2, <2>3, NoFrameIsNone DEF TypeOK, Top
    <2>5. Above(a, Top.line)
      BY <2>1 DEF NextDep, Pending
    <2> HIDE DEF callers
    <2>6. cause = "pending" /\ UNCHANGED <<note, target, executed, log, used>>
      BY <1>3 DEF Descend
    <2>7. Enter(a, callers)
      BY <2>1 DEF callers
    <2> QED BY <2>3, <2>4, <2>5, <2>6, <2>7, EnterKeepsPath
  <1>4. CASE RunTop
    <2>1. height \in Depths /\ Top \in Frame /\ height > 0
      BY <1>4, <1>t DEF RunTop, Depths, Top
    <2>2. /\ stack' \in [Depths -> Frame \union {NoFrame}]
          /\ stack'[height] = NoFrame
          /\ \A d \in Depths : d # height => stack'[d] = stack[d]
          /\ height' = height - 1
          /\ note' = note
      BY <1>4, <1>t, <2>1 DEF RunTop
    <2>3. \A d \in Depths : d <= height' <=> stack'[d] # NoFrame
      BY <1>t, <2>1, <2>2 DEF TypeOK
    <2>4. TypeOK'
      <3>1. log' \in Seq(Lines)
        BY <1>4, <2>1 DEF RunTop, TypeOK, Frame
      <3>2. used' \subseteq Lines \X Lines
        BY <1>4, <2>1 DEF RunTop, TypeOK, Resolved, Frame
      <3>3. height' \in 0..(MaxDepth + 1)
        BY <1>t, <2>1, <2>2, DepthAssumption
      <3>4. executed' \subseteq Aliases /\ inProgress' \subseteq Aliases
        BY <1>4, <2>1 DEF RunTop, TypeOK, Frame
      <3> QED BY <1>4, <2>2, <2>3, <3>1, <3>2, <3>3, <3>4 DEF RunTop, TypeOK
    <2>5. \A d \in Depths : d <= height' => d <= height /\ d # height /\ stack'[d] = stack[d]
      BY <1>t, <2>1, <2>2
    <2>6. FramesOnFirst' /\ CallsClimb'
      <3>1. FramesOnFirst'
        BY <2>2, <2>5 DEF PathInv, FramesOnFirst, IsFirst
      <3>2. ASSUME NEW c \in Depths, NEW d \in Depths, c < d, d <= height'
            PROVE  stack'[d].line < stack'[c].line
        <4>1. c <= height'
          BY <1>t, <2>1, <2>2, <3>2
        <4> QED BY <2>5, <3>2, <4>1 DEF PathInv, CallsClimb
      <3> QED BY <3>1, <3>2 DEF CallsClimb
    <2>7. cause' = "pending" => inProgress' = Path'
      <3>1. \A d \in Depths : d < height => stack[d].alias # Top.alias
        <4>1. height <= height
          BY <1>t
        <4> QED BY <2>1, <4>1, AliasesDiffer DEF Top
      <3>2. \A d \in Depths : d <= height' <=> d < height
        BY <1>t, <2>1, <2>2
      <3>3. \A d \in Depths : d <= height <=> (d < height \/ d = height)
        BY <1>t
      <3>4. Path = {stack[d].alias : d \in {e \in Depths : e < height}} \union {Top.alias}
        BY <2>1, <3>3 DEF Path, Top
      <3>5. Path' = {stack[d].alias : d \in {e \in Depths : e < height}}
        BY <2>5, <3>2 DEF Path
      <3>6. Path' = Path \ {Top.alias}
        BY <3>1, <3>4, <3>5
      <3>7. inProgress = Path /\ inProgress' = inProgress \ {Top.alias}
        BY <1>4 DEF RunTop, PathInv
      <3> QED BY <3>6, <3>7
    <2>8. cause' \in {"ok", "pending"}
      BY <1>4 DEF RunTop
    <2>9. target' = target /\ cause = "pending"
      BY <1>4 DEF RunTop
    <2> QED BY <2>4, <2>6, <2>7, <2>8, <2>9 DEF PathInv, NoCyclicDependency
  <1>5. CASE FailTop
    <2>1. height \in Depths /\ Top \in Frame
      BY <1>5, <1>t DEF FailTop, Depths, Top
    <2>2. TypeOK'
      <3>1. log' \in Seq(Lines)
        BY <1>5, <2>1 DEF FailTop, TypeOK, Frame
      <3>2. used' \subseteq Lines \X Lines
        BY <1>5, <2>1 DEF FailTop, TypeOK, Resolved, Frame
      <3> QED BY <1>5, <3>1, <3>2 DEF FailTop, TypeOK, Errors
    <2>3. PathInv'
      BY <1>5 DEF FailTop, PathInv, FramesOnFirst, CallsClimb, NoCyclicDependency, IsFirst
    <2> QED BY <2>2, <2>3
  <1>6. CASE UNCHANGED vars
    BY <1>6 DEF vars, TypeOK, PathInv, FramesOnFirst, CallsClimb, NoCyclicDependency,
                IsFirst, Path
  <1> QED BY <1>1, <1>2, <1>3, <1>4, <1>5, <1>6 DEF Next

\* Type correctness of a run, whatever the note.
THEOREM TypeCorrect == Spec => []TypeOK
  <1>1. Spec => []ClimbInv
    BY InitClimbInv, NextClimbInv, PTL DEF Spec
  <1> QED BY <1>1, PTL DEF ClimbInv

\* The recursion climbs the note, whatever aliases repeat or refer to each other: no
\* depth counter is needed to make it stop.
THEOREM Climbs == Spec => []CallsClimb
  <1>1. Spec => []ClimbInv
    BY InitClimbInv, NextClimbInv, PTL DEF Spec
  <1>2. ClimbInv => CallsClimb
    BY DEF ClimbInv, PathInv
  <1> QED BY <1>1, <1>2, PTL

\* The in-progress check of execute_block_recursive never fires: CyclicDependency is an
\* error no note can produce.
THEOREM NoCycle == Spec => []NoCyclicDependency
  <1>1. Spec => []ClimbInv
    BY InitClimbInv, NextClimbInv, PTL DEF Spec
  <1>2. ClimbInv => NoCyclicDependency
    BY DEF ClimbInv, PathInv
  <1> QED BY <1>1, <1>2, PTL
-----------------------------------------------------------------------------
(* The order of execution                                                  *)

\* The log holds first blocks, and exactly those whose alias is cached while the run
\* goes on.
LogMatchesCache ==
    /\ \A i \in DOMAIN log : IsFirst(note[log[i]].alias, log[i])
    /\ cause = "pending" => \A i \in DOMAIN log : note[log[i]].alias \in executed
    /\ \A a \in executed : \E j \in DOMAIN log : IsFirst(a, log[j])

\* A frame is on an alias not yet cached, and each reference it has passed over is
\* cached, or is the callee it waits for, or names no block above.
FramesVisited ==
    \A d \in Depths : d <= height =>
        /\ stack[d].alias \notin executed
        /\ \A a \in note[stack[d].line].refs :
               Above(a, stack[d].line) =>
                   \/ a \in executed
                   \/ a \in stack[d].todo
                   \/ d < height /\ a = stack[d + 1].alias

OrderInv ==
    /\ ClimbInv
    /\ LogMatchesCache
    /\ cause = "idle" => log = <<>> /\ executed = {}
    /\ (cause = "pending" /\ height = 0) => executed = {}
    /\ cause = "pending" => FramesVisited
    /\ ExecutedOnce
    /\ DependenciesFirst

LEMMA InitOrderInv == Init => OrderInv
  <1> SUFFICES ASSUME Init PROVE OrderInv
    OBVIOUS
  <1>1. log = <<>> /\ executed = {} /\ cause = "idle"
    BY DEF Init
  <1>2. DOMAIN log = {}
    BY <1>1
  <1> QED BY <1>1, <1>2, InitClimbInv
          DEF OrderInv, LogMatchesCache, ExecutedOnce, DependenciesFirst

\* A call gets a frame only for an alias that is not cached, and changes nothing else
\* that OrderInv speaks of; `callers` keep what they still have to visit.
LEMMA EnterKeepsOrder ==
    ASSUME OrderInv, cause = "pending", ClimbInv',
           NEW a \in Aliases, a \notin executed,
           NEW callers \in [Depths -> Frame \union {NoFrame}],
           \A d \in Depths : d <= height =>
               /\ callers[d].line = stack[d].line
               /\ callers[d].alias = stack[d].alias
               /\ \A b \in note[stack[d].line].refs : Above(b, stack[d].line) =>
                      \/ b \in executed
                      \/ b \in callers[d].todo
                      \/ d < height /\ b = stack[d + 1].alias
                      \/ d = height /\ b = a,
           Enter(a, callers), UNCHANGED <<note, target, executed, log, used>>
    PROVE  OrderInv'
  <1>t. height \in Nat /\ \A d \in Depths : d \in Nat /\ d >= 1
    BY DepthAssumption DEF OrderInv, ClimbInv, TypeOK, Depths
  <1>1. /\ LogMatchesCache' /\ ExecutedOnce' /\ DependenciesFirst'
    BY DEF OrderInv, LogMatchesCache, ExecutedOnce, DependenciesFirst, IsFirst, Above
  <1>2. cause' # "idle"
    BY DEF Enter, Refusal
  <1>3. CASE Refusal(a, height) # "none"
    <2>1. cause' # "pending"
      BY <1>3 DEF Enter, Refusal
    <2> QED BY <1>1, <1>2, <2>1 DEF OrderInv
  <1>4. CASE Refusal(a, height) = "none"
    <2>1. PICK l \in Lines :
              /\ IsFirst(a, l)
              /\ stack' = [callers EXCEPT ![height + 1] =
                              [line |-> l, alias |-> a, todo |-> note[l].refs]]
      BY <1>4 DEF Enter
    <2>2. height' = height + 1
      BY <1>4 DEF Enter
    <2>3. height + 1 \in Depths
      BY <1>4, <1>t, DepthAssumption DEF Refusal, Depths
    <2>4. /\ stack'[height + 1] = [line |-> l, alias |-> a, todo |-> note[l].refs]
          /\ \A d \in Depths : d # height + 1 => stack'[d] = callers[d]
      BY <2>1, <2>3
    <2>5. ASSUME NEW d \in Depths, d <= height'
          PROVE  (/\ stack[d].alias \notin executed
                  /\ \A b \in note[stack[d].line].refs : Above(b, stack[d].line) =>
                         \/ b \in executed
                         \/ b \in stack[d].todo
                         \/ d < height /\ b = stack[d + 1].alias)'
      <3>1. CASE d = height + 1
        BY <2>4, <3>1
      <3>2. CASE d <= height
        <4>1. stack'[d] = callers[d] /\ d < height' /\ d # height + 1
          BY <1>t, <2>2, <2>4, <3>2
        <4>2. stack'[d].alias \notin executed
          BY <3>2, <4>1 DEF OrderInv, FramesVisited
        <4>3. d < height => stack'[d + 1].alias = stack[d + 1].alias
          <5> SUFFICES ASSUME d < height PROVE stack'[d + 1].alias = stack[d + 1].alias
            OBVIOUS
          <5>1. d + 1 \in Depths /\ d + 1 <= height /\ d + 1 # height + 1
            BY <1>t, <2>3, DepthAssumption DEF Depths
          <5> QED BY <2>4, <5>1
        <4>4. d = height => stack'[d + 1].alias = a
          BY <2>4
        <4>5. \A b \in note[stack[d].line].refs : Above(b, stack[d].line) =>
                  \/ b \in executed
                  \/ b \in stack'[d].todo
                  \/ b = stack'[d + 1].alias
          BY <3>2, <4>1, <4>3, <4>4
        <4>6. stack'[d].line = stack[d].line
          BY <3>2, <4>1
        <4>7. note' = note /\ executed' = executed
          OBVIOUS
        <4>8. \A b : Above(b, stack[d].line)' <=> Above(b, stack[d].line)
          BY <4>6, <4>7 DEF Above
        <4> QED BY <4>1, <4>2, <4>5, <4>6, <4>7, <4>8
      <3> QED BY <1>t, <2>2, <2>5, <3>1, <3>2
    <2>6. FramesVisited'
      BY <2>5 DEF FramesVisited
    <2>7. height' # 0
      BY <1>t, <2>2
    <2> QED BY <1>1, <1>2, <2>6, <2>7 DEF OrderInv
  <1> QED BY <1>3, <1>4

\* The block handed to its executor is new to the log, and all it depends on is there.
LEMMA RunKeepsLogOrder ==
    ASSUME OrderInv, cause = "pending", height > 0, Pending(Top) = {},
           log' = Append(log, Top.line), note' = note,
           used' = used \union Resolved(Top)
    PROVE  /\ ExecutedOnce' /\ DependenciesFirst'
           /\ \A i \in DOMAIN log' : IsFirst(note[log'[i]].alias, log'[i])
           /\ note[Top.line].alias = Top.alias
  <1>t. /\ height \in Depths /\ Top \in Frame /\ log \in Seq(Lines)
        /\ note \in [Lines -> Block]
    <2>1. height \in Depths /\ height <= height
      BY DepthAssumption DEF OrderInv, ClimbInv, TypeOK, Depths
    <2> QED BY <2>1 DEF OrderInv, ClimbInv, TypeOK, Top
  <1>f. IsFirst(Top.alias, Top.line)
    <2>1. height <= height
      BY <1>t, DepthAssumption DEF Depths
    <2> QED BY <1>t, <2>1 DEF OrderInv, ClimbInv, PathInv, FramesOnFirst, Top
  <1>v. /\ Top.alias \notin executed
        /\ \A a \in note[Top.line].refs :
               Above(a, Top.line) => a \in executed \/ a \in Top.todo
    <2>1. height <= height /\ ~(height < height)
      BY <1>t, DepthAssumption DEF Depths
    <2> QED BY <1>t, <2>1 DEF OrderInv, FramesVisited, Top
  <1>1. /\ Len(log) \in Nat /\ DOMAIN log = 1..Len(log)
        /\ DOMAIN log' = 1..(Len(log) + 1)
        /\ log'[Len(log) + 1] = Top.line
        /\ \A i \in DOMAIN log : log'[i] = log[i]
    BY <1>t DEF Frame
  <1>2. note[Top.line].alias = Top.alias
    BY <1>f DEF IsFirst
  <1>3. \A i \in DOMAIN log : log[i] # Top.line
    BY <1>2, <1>v DEF OrderInv, LogMatchesCache
  <1>4. ExecutedOnce'
    <2> SUFFICES ASSUME NEW i \in DOMAIN log', NEW j \in DOMAIN log', i # j
                 PROVE  log'[i] # log'[j]
      BY DEF ExecutedOnce
    <2>1. CASE i = Len(log) + 1
      BY <1>1, <1>3, <2>1
    <2>2. CASE j = Len(log) + 1
      BY <1>1, <1>3, <2>2
    <2>3. CASE i # Len(log) + 1 /\ j # Len(log) + 1
      BY <1>1, <2>3 DEF OrderInv, ExecutedOnce
    <2> QED BY <2>1, <2>2, <2>3
  <1>5. DependenciesFirst'
    <2>a. DependenciesFirst' <=>
              \A i \in DOMAIN log' : \A a \in note[log'[i]].refs :
                  Above(a, log'[i]) =>
                    \E j \in 1..(i - 1) : IsFirst(a, log'[j]) /\ << log'[i], log'[j] >> \in used'
      BY DEF DependenciesFirst, Above, IsFirst
    <2> SUFFICES ASSUME NEW i \in DOMAIN log', NEW a \in note[log'[i]].refs,
                        Above(a, log'[i])
                 PROVE  \E j \in 1..(i - 1) : IsFirst(a, log'[j]) /\ << log'[i], log'[j] >> \in used'
      BY <2>a
    <2>1. CASE i = Len(log) + 1
      <3>1. log'[i] = Top.line
        BY <1>1, <2>1
      <3>2. a \in Aliases
        BY <1>t, <3>1 DEF Block, Frame
      <3>3. a \in executed
        BY <1>v, <3>1, <3>2 DEF Pending
      <3>4. PICK j \in DOMAIN log : IsFirst(a, log[j])
        BY <3>3 DEF OrderInv, LogMatchesCache
      <3>5. j \in 1..(i - 1) /\ log'[j] = log[j] /\ log[j] \in Lines
        BY <1>1, <1>t, <2>1
      <3>6. <<Top.line, log[j]>> \in Resolved(Top)
        BY <3>1, <3>3, <3>4, <3>5 DEF Resolved
      <3> QED BY <3>1, <3>4, <3>5, <3>6
    <2>2. CASE i # Len(log) + 1
      <3>1. i \in DOMAIN log /\ log'[i] = log[i]
        BY <1>1, <2>2
      <3>2. PICK j \in 1..(i - 1) : IsFirst(a, log[j]) /\ <<log[i], log[j]>> \in used
        BY <3>1 DEF OrderInv, DependenciesFirst
      <3>3. j \in DOMAIN log
        BY <1>1, <3>1
      <3> QED BY <1>1, <3>1, <3>2, <3>3
    <2> QED BY <2>1, <2>2
  <1>6. \A i \in DOMAIN log' : IsFirst(note[log'[i]].alias, log'[i])
    <2> SUFFICES ASSUME NEW i \in DOMAIN log'
                 PROVE  IsFirst(note[log'[i]].alias, log'[i])
      OBVIOUS
    <2>1. CASE i = Len(log) + 1
      BY <1>1, <1>2, <1>f, <2>1
    <2>2. CASE i # Len(log) + 1
      BY <1>1, <2>2 DEF OrderInv, LogMatchesCache
    <2> QED BY <2>1, <2>2
  <1> QED BY <1>2, <1>4, <1>5, <1>6

LEMMA NextOrderInv == OrderInv /\ [Next]_vars => OrderInv'
  <1> SUFFICES ASSUME OrderInv, [Next]_vars PROVE OrderInv'
    OBVIOUS
  <1>c. ClimbInv'
    BY NextClimbInv DEF OrderInv
  <1>t. /\ height \in Nat /\ height <= MaxDepth + 1
        /\ stack \in [Depths -> Frame \union {NoFrame}]
        /\ \A d \in Depths : d \in Nat /\ d >= 1
        /\ \A d \in Depths : d <= height => stack[d] \in Frame
    BY DepthAssumption DEF OrderInv, ClimbInv, TypeOK, Depths
  <1>1. CASE Load
    <2>1. log' = <<>> /\ executed' = {} /\ DOMAIN log' = {}
      BY <1>1 DEF Load, OrderInv
    <2>2. \A d \in Depths : ~(d <= height)'
      BY <1>1, <1>t DEF Load, OrderInv, ClimbInv, PathInv
    <2> QED BY <1>1, <1>c, <2>1, <2>2
            DEF Load, OrderInv, LogMatchesCache, FramesVisited, ExecutedOnce, DependenciesFirst
  <1>2. CASE Start
    <2>1. height = 0 /\ \A d \in Depths : ~(d <= height)
      BY <1>2, <1>t DEF Start
    <2>2. target \in Aliases /\ executed = {}
      BY <1>2 DEF Start, OrderInv, ClimbInv, PathInv
    <2> QED BY <1>2, <1>c, <1>t, <2>1, <2>2, EnterKeepsOrder DEF Start
  <1>3. CASE Descend
    <2>1. PICK a \in Aliases :
              /\ NextDep(Top, a)
              /\ Enter(a, [stack EXCEPT ![height].todo = {b \in Top.todo : b > a}])
      BY <1>3 DEF Descend
    <2> DEFINE callers == [stack EXCEPT ![height].todo = {b \in Top.todo : b > a}]
    <2>2. height \in Depths /\ Top \in Frame /\ cause = "pending"
      BY <1>3, <1>t DEF Descend, Depths, Top
    <2>3. /\ callers \in [Depths -> Frame \union {NoFrame}]
          /\ callers[height].line = Top.line
          /\ callers[height].alias = Top.alias
          /\ callers[height].todo = {b \in Top.todo : b > a}
          /\ \A d \in Depths : d # height => callers[d] = stack[d]
      BY <1>t, <2>2 DEF Frame, Top
    <2> HIDE DEF callers
    <2>4. a \notin executed
      BY <2>1 DEF NextDep, Pending
    <2>5. ASSUME NEW d \in Depths, d <= height
          PROVE  /\ callers[d].line = stack[d].line
                 /\ callers[d].alias = stack[d].alias
                 /\ \A b \in note[stack[d].line].refs : Above(b, stack[d].line) =>
                        \/ b \in executed
                        \/ b \in callers[d].todo
                        \/ d < height /\ b = stack[d + 1].alias
                        \/ d = height /\ b = a
      <3>1. CASE d # height
        BY <2>2, <2>3, <2>5, <3>1 DEF OrderInv, FramesVisited
      <3>2. CASE d = height
        <4> SUFFICES ASSUME NEW b \in note[Top.line].refs, Above(b, Top.line),
                            b \notin executed, b # a
                     PROVE  b \in callers[height].todo
          BY <2>3, <3>2 DEF Top
        <4>1. ~(height < height)
          BY <1>t
        <4>2. b \in Top.todo
          BY <2>2, <2>5, <3>2, <4>1 DEF OrderInv, FramesVisited, Top
        <4>3. b \in Aliases
          BY <2>2, <4>2 DEF Frame
        <4>4. a <= b
          BY <2>1, <4>2, <4>3 DEF NextDep, Pending
        <4>5. b > a
          BY <4>3, <4>4, AliasAssumption
        <4> QED BY <2>3, <4>2, <4>5
      <3> QED BY <3>1, <3>2
    <2>6. UNCHANGED <<note, target, executed, log, used>>
      BY <1>3 DEF Descend
    <2>7. Enter(a, callers)
      BY <2>1 DEF callers
    <2> QED BY <1>c, <2>2, <2>3, <2>4, <2>5, <2>6, <2>7, EnterKeepsOrder
  <1>4. CASE RunTop
    <2>1. height \in Depths /\ Top \in Frame /\ height > 0 /\ cause = "pending"
      BY <1>4, <1>t DEF RunTop, Depths, Top
    <2>2. /\ log' = Append(log, Top.line) /\ note' = note
          /\ executed' = executed \union {Top.alias}
          /\ height' = height - 1
          /\ \A d \in Depths : d # height => stack'[d] = stack[d]
          /\ cause' \in {"pending", "ok"}
      BY <1>4, <1>t DEF RunTop
    <2>3. /\ ExecutedOnce' /\ DependenciesFirst'
          /\ \A i \in DOMAIN log' : IsFirst(note[log'[i]].alias, log'[i])
          /\ note[Top.line].alias = Top.alias
      BY <1>4, <2>1, <2>2, RunKeepsLogOrder DEF RunTop
    <2>4. /\ Len(log) \in Nat /\ DOMAIN log = 1..Len(log)
          /\ DOMAIN log' = 1..(Len(log) + 1)
          /\ log'[Len(log) + 1] = Top.line
          /\ \A i \in DOMAIN log : log'[i] = log[i]
      BY <2>1, <2>2 DEF Frame, OrderInv, ClimbInv, TypeOK
    <2>5. LogMatchesCache'
      <3>1. (\A i \in DOMAIN log : IsFirst(note[log[i]].alias, log[i]))'
        BY <2>2, <2>3 DEF IsFirst
      <3>2. \A i \in DOMAIN log' : note[log'[i]].alias \in executed'
        <4> SUFFICES ASSUME NEW i \in DOMAIN log' PROVE note[log'[i]].alias \in executed'
          OBVIOUS
        <4>1. CASE i = Len(log) + 1
          BY <2>2, <2>3, <2>4, <4>1
        <4>2. CASE i # Len(log) + 1
          BY <2>1, <2>2, <2>4, <4>2 DEF OrderInv, LogMatchesCache
        <4> QED BY <4>1, <4>2
      <3>3. ASSUME NEW a \in executed'
            PROVE  \E j \in DOMAIN log' : IsFirst(a, log[j])'
        <4>1. CASE a = Top.alias
          <5>1. Len(log) + 1 \in DOMAIN log'
            BY <2>4
          <5>2. IsFirst(a, log'[Len(log) + 1])
            BY <2>3, <2>4, <4>1, <5>1
          <5>3. \E j \in DOMAIN log' : IsFirst(a, log'[j])
            BY <5>1, <5>2
          <5> QED BY <2>2, <5>3 DEF IsFirst
        <4>2. CASE a # Top.alias
          <5>1. PICK j \in DOMAIN log : IsFirst(a, log[j])
            BY <2>2, <4>2 DEF OrderInv, LogMatchesCache
          <5>2. j \in DOMAIN log' /\ IsFirst(a, log[j])'
            BY <2>2, <2>4, <5>1 DEF IsFirst
          <5> QED BY <5>2
        <4> QED BY <4>1, <4>2
      <3>4. (\A a \in executed : \E j \in DOMAIN log : IsFirst(a, log[j]))'
        BY <3>3
      <3> QED BY <2>2, <3>1, <3>2, <3>4 DEF LogMatchesCache
    <2>6. FramesVisited'
      <3>1. ASSUME NEW d \in Depths, (d <= height)'
            PROVE  (/\ stack[d].alias \notin executed
                    /\ \A a \in note[stack[d].line].refs : Above(a, stack[d].line) =>
                           \/ a \in executed
                           \/ a \in stack[d].todo
                           \/ d < height /\ a = stack[d + 1].alias)'
        <4>1. d < height /\ d <= height /\ d # height /\ stack'[d] = stack[d]
          BY <1>t, <2>1, <2>2, <3>1
        <4>2. stack'[d].alias \notin executed'
          <5>1. height <= height
            BY <1>t
          <5>2. stack[d].alias # Top.alias
            BY <2>1, <4>1, <5>1, AliasesDiffer DEF Top, OrderInv
          <5> QED BY <2>1, <2>2, <4>1, <5>2 DEF OrderInv, FramesVisited
        <4>3. \A a : Above(a, stack[d].line)' <=> Above(a, stack[d].line)
          BY <2>2, <4>1 DEF Above
        <4>4. ASSUME NEW a \in note[stack[d].line].refs, Above(a, stack[d].line),
                     a \notin executed', a \notin stack[d].todo
              PROVE  (d < height)' /\ a = stack'[d + 1].alias
          <5>1. a = stack[d + 1].alias
            BY <2>1, <2>2, <4>1, <4>4 DEF OrderInv, FramesVisited
          <5>2. d + 1 # height
            BY <2>2, <4>4, <5>1 DEF Top
          <5>3. d < height - 1 /\ d + 1 \in Depths
            BY <1>t, <4>1, <5>2, DepthAssumption DEF Depths
          <5> QED BY <2>2, <5>1, <5>2, <5>3
        <4> QED BY <2>2, <4>1, <4>2, <4>3, <4>4
      <3> QED BY <3>1 DEF FramesVisited
    <2>7. cause' = "pending" => height' # 0
      BY <1>4, <1>t, <2>1 DEF RunTop
    <2> QED BY <1>c, <2>2, <2>3, <2>5, <2>6, <2>7 DEF OrderInv
  <1>5. CASE FailTop
    <2>1. height \in Depths /\ Top \in Frame /\ height > 0 /\ cause = "pending"
      BY <1>5, <1>t DEF FailTop, Depths, Top
    <2>2. /\ log' = Append(log, Top.line) /\ note' = note
          /\ executed' = executed
          /\ cause' = "ExecutionFailed"
      BY <1>5 DEF FailTop
    <2>3. /\ ExecutedOnce' /\ DependenciesFirst'
          /\ \A i \in DOMAIN log' : IsFirst(note[log'[i]].alias, log'[i])
      BY <1>5, <2>1, <2>2, RunKeepsLogOrder DEF FailTop
    <2>4. /\ DOMAIN log \subseteq DOMAIN log'
          /\ \A i \in DOMAIN log : log'[i] = log[i]
      BY <2>1, <2>2 DEF Frame, OrderInv, ClimbInv, TypeOK
    <2>5. (\A a \in executed : \E j \in DOMAIN log : IsFirst(a, log[j]))'
      <3> SUFFICES ASSUME NEW a \in executed'
                   PROVE  \E j \in DOMAIN log' : IsFirst(a, log[j])'
        OBVIOUS
      <3>1. PICK j \in DOMAIN log : IsFirst(a, log[j])
        BY <2>2 DEF OrderInv, LogMatchesCache
      <3>2. j \in DOMAIN log' /\ IsFirst(a, log[j])'
        BY <2>2, <2>4, <3>1 DEF IsFirst
      <3> QED BY <3>2
    <2>6. (\A i \in DOMAIN log : IsFirst(note[log[i]].alias, log[i]))'
      BY <2>2, <2>3 DEF IsFirst
    <2>7. LogMatchesCache'
      BY <2>2, <2>5, <2>6 DEF LogMatchesCache
    <2> QED BY <1>c, <2>2, <2>3, <2>7 DEF OrderInv
  <1>6. CASE UNCHANGED vars
    BY <1>6, <1>c DEF vars, OrderInv, LogMatchesCache, FramesVisited, ExecutedOnce,
                DependenciesFirst, IsFirst, Above
  <1> QED BY <1>1, <1>2, <1>3, <1>4, <1>5, <1>6 DEF Next

\* However references and aliases are placed, one run never sends a block twice, and a
\* block reaches its executor after every block above it that it references, and reads
\* their results.
THEOREM InOrder == Spec => []ExecutedInOrder
  <1>1. Spec => []OrderInv
    BY InitOrderInv, NextOrderInv, PTL DEF Spec
  <1>2. OrderInv => ExecutedInOrder
    BY DEF OrderInv, ExecutedInOrder
  <1> QED BY <1>1, <1>2, PTL
=============================================================================
