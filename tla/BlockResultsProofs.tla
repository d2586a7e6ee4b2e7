-------------------------- MODULE BlockResultsProofs --------------------------
(***************************************************************************)
(* Proofs about BlockResults, for any sets of callers, hashes and aliases, *)
(* any number of saves and any age at which a lock grows stale.            *)
(***************************************************************************)
EXTENDS BlockResults, FiniteSetTheorems, TLAPS

\* Every action, as Next spells it.
LEMMA NextCases ==
    ASSUME Next
    PROVE  \/ \E p \in Callers, h \in Hashes, a \in Aliases \union {NoAlias} : Acquire(p, h, a)
           \/ \E p \in Callers, ok \in BOOLEAN, json \in BOOLEAN : Save(p, ok, json)
           \/ \E p \in Callers : NotSaved(p)
           \/ \E p \in Callers : SaveShape(p)
           \/ \E p \in Callers : Release(p)
           \/ \E p \in Callers : Crash(p)
           \/ CleanupStaleLocks
           \/ DeleteForFile
           \/ Tick
  BY DEF Next, Run

\* A row is not the absence of one, nor a lock, nor a run.
LEMMA Apart == NoRow \notin Row /\ Free \notin Lock /\ Idle \notin Busy
  BY DEF NoRow, Row, Free, Lock, Idle, Busy

\* Time does not leave the ages.
LEMMA OlderIsAge == \A age \in Ages : Older(age) \in Ages /\ Older(age) >= age
  BY BoundAssumption DEF Ages, Older

-----------------------------------------------------------------------------
(* Type correctness                                                        *)

\* An id is given out with a save, and only a run with a shape to save has an alias.
Counted == nextId <= saves + 1
ShapeHasAlias == \A p \in Callers : At(p, "shape") => caller[p].alias \in Aliases
TypeInv == TypeOK /\ Counted /\ ShapeHasAlias

LEMMA InitTypeInv == Init => TypeInv
  BY BoundAssumption DEF Init, TypeInv, TypeOK, Counted, ShapeHasAlias, At, Idle

\* A caller on its way to the release is one that is busy.
LEMMA ReleasingIsBusy ==
    ASSUME TypeInv, NEW p \in Callers, ~At(p, "idle")
    PROVE  caller[p] \in Busy /\ Releasing(p) \in Busy
  <1>1. caller[p] \in Busy
    BY DEF TypeInv, TypeOK, At, Idle
  <1>2. 0 \in 0..MaxSaves
    BY BoundAssumption
  <1> QED BY <1>1, <1>2 DEF Busy, Releasing

LEMMA NextTypeInv == TypeInv /\ [Next]_vars => TypeInv'
  <1> SUFFICES ASSUME TypeInv, [Next]_vars PROVE TypeInv'
    OBVIOUS
  <1> USE DEF TypeInv, TypeOK, Counted, ShapeHasAlias
  <1>1. ASSUME NEW p \in Callers, NEW h \in Hashes, NEW a \in Aliases \union {NoAlias}, Acquire(p, h, a)
        PROVE  TypeInv'
    <2>1. locks' \in [Hashes -> Lock \union {Free}]
      BY <1>1, BoundAssumption DEF Acquire, Lock, Ages
    <2>2. caller' \in [Callers -> Busy \union {Idle}]
      BY <1>1, BoundAssumption DEF Acquire, Busy, Ages
    <2> QED BY <1>1, <2>1, <2>2 DEF Acquire, At
  <1>2. ASSUME NEW p \in Callers, NEW ok \in BOOLEAN, NEW json \in BOOLEAN, Save(p, ok, json)
        PROVE  TypeInv'
    <2>1. caller[p] \in Busy /\ Releasing(p) \in Busy
      BY <1>2, ReleasingIsBusy DEF Save, At
    <2>2. saves' \in 0..MaxSaves /\ saves + 1 \in Stamps
      BY <1>2, BoundAssumption DEF Save, Stamps
    <2>3. nextId' \in 1..(MaxSaves + 1) /\ nextId' <= saves' + 1 /\ nextId \in Stamps
      BY <1>2, BoundAssumption DEF Save, Stamps
    <2>4. rows' \in [Hashes -> Row \union {NoRow}]
      <3>1. rows[caller[p].hash] # NoRow => rows[caller[p].hash].id \in Stamps
        BY <2>1 DEF Busy, Row
      <3>2. [id |-> IF rows[caller[p].hash] = NoRow THEN nextId ELSE rows[caller[p].hash].id,
             alias |-> caller[p].alias, stamp |-> saves + 1] \in Row
        BY <2>1, <2>2, <2>3, <3>1 DEF Row, Busy
      <3> QED BY <1>2, <3>2 DEF Save, Upsert
    <2>5. reran' \subseteq Aliases
      BY <1>2, <2>1 DEF Save, Busy
    <2>6. [caller[p] EXCEPT !.pc = "shape", !.stamp = saves + 1] \in Busy
      <3>1. saves + 1 \in 0..MaxSaves
        BY <2>2 DEF Stamps
      <3> QED BY <2>1, <3>1 DEF Busy
    <2>7. caller' \in [Callers -> Busy \union {Idle}]
      BY <1>2, <2>1, <2>6 DEF Save
    <2>8. ShapeHasAlias'
      BY <1>2, <2>1 DEF Save, At, Busy, Releasing, ShapeWanted
    <2> QED BY <1>2, <2>2, <2>3, <2>4, <2>5, <2>7, <2>8 DEF Save
  <1>3. ASSUME NEW p \in Callers, NotSaved(p)
        PROVE  TypeInv'
    <2>1. caller[p] \in Busy /\ Releasing(p) \in Busy
      BY <1>3, ReleasingIsBusy DEF NotSaved, At
    <2>2. ShapeHasAlias'
      BY <1>3, <2>1 DEF NotSaved, At, Busy, Releasing
    <2> QED BY <1>3, <2>1, <2>2 DEF NotSaved
  <1>4. ASSUME NEW p \in Callers, SaveShape(p)
        PROVE  TypeInv'
    <2>1. caller[p] \in Busy /\ Releasing(p) \in Busy /\ caller[p].alias \in Aliases
      BY <1>4, ReleasingIsBusy DEF SaveShape, At
    <2>2. shape' \in [Aliases -> 0..MaxSaves]
      BY <1>4, <2>1 DEF SaveShape, Busy
    <2>3. ShapeHasAlias'
      BY <1>4, <2>1 DEF SaveShape, At, Releasing, Busy
    <2> QED BY <1>4, <2>1, <2>2, <2>3 DEF SaveShape
  <1>5. ASSUME NEW p \in Callers, Release(p)
        PROVE  TypeInv'
    BY <1>5 DEF Release, LateWithout, At, Idle
  <1>6. ASSUME NEW p \in Callers, Crash(p)
        PROVE  TypeInv'
    BY <1>6 DEF Crash, LateWithout, At, Idle
  <1>7. CASE CleanupStaleLocks
    BY <1>7 DEF CleanupStaleLocks, At
  <1>8. CASE DeleteForFile
    BY <1>8 DEF DeleteForFile, At
  <1>9. CASE Tick
    <2>1. locks' \in [Hashes -> Lock \union {Free}]
      BY <1>9, OlderIsAge DEF Tick, Lock
    <2>2. \A p \in Callers : ~At(p, "idle") =>
             caller[p] \in Busy /\ [caller[p] EXCEPT !.age = Older(caller[p].age)] \in Busy
      BY OlderIsAge DEF Busy, At, Idle
    <2>3. caller' \in [Callers -> Busy \union {Idle}]
      BY <1>9, <2>2 DEF Tick
    <2>4. ShapeHasAlias'
      BY <1>9, <2>2 DEF Tick, At, Idle, Busy
    <2> QED BY <1>9, <2>1, <2>3, <2>4 DEF Tick
  <1>10. CASE UNCHANGED vars
    BY <1>10 DEF vars, At
  <1> QED
    BY <1>1, <1>2, <1>3, <1>4, <1>5, <1>6, <1>7, <1>8, <1>9, <1>10, NextCases

\* The tables of a note have rows of their types: ids and stamps within what was given
\* out, locks and runs of an age, shapes of saves.
THEOREM TypeCorrect == Spec => []TypeOK
  <1>1. TypeInv => TypeOK
    BY DEF TypeInv
  <1> QED BY <1>1, InitTypeInv, NextTypeInv, PTL DEF Spec

-----------------------------------------------------------------------------
(* Locks                                                                   *)

\* While no run of h is older than the sweep's limit, the run of h is the only one, and
\* its lock is there, has its age and is not stale yet.
HeldAlone(h) ==
    /\ \A p, q \in Callers : On(p, h) /\ On(q, h) => p = q
    /\ \A p \in Callers : On(p, h) =>
          locks[h] # Free /\ locks[h].age = caller[p].age /\ caller[p].age <= StaleAfter
LockInv == \A h \in Hashes : h \notin late => HeldAlone(h)

LEMMA InitLockInv == Init => LockInv
  BY DEF Init, LockInv, HeldAlone, On, At, Idle

\* What a caller runs, and how old that is, changes in three ways only: a step that
\* leaves the hash and the age of every run alone leaves the locks' protection alone.
LEMMA SameRuns ==
    ASSUME LockInv, locks' = locks, late' = late,
           \A q \in Callers : /\ At(q, "idle")' <=> At(q, "idle")
                              /\ ~At(q, "idle") => /\ caller'[q].hash = caller[q].hash
                                                   /\ caller'[q].age = caller[q].age
    PROVE  LockInv'
  BY DEF LockInv, HeldAlone, On

\* A step that ends p's run alone: the lock may go with it, for in a hash that is not
\* late nobody else needs it, and a hash stops being late with its last run only.
LEMMA RunEnded ==
    ASSUME TypeInv, LockInv, NEW p \in Callers, ~At(p, "idle"),
           caller' = [caller EXCEPT ![p] = Idle],
           late' = LateWithout(p),
           \A h \in Hashes : h # caller[p].hash => locks'[h] = locks[h]
    PROVE  LockInv'
  <1> SUFFICES ASSUME NEW h \in Hashes, h \notin late' PROVE HeldAlone(h)'
    BY DEF LockInv
  <1>1. \A q \in Callers : On(q, h)' => q # p /\ On(q, h) /\ caller'[q] = caller[q]
    BY DEF On, At, Idle, TypeInv, TypeOK
  <1>2. CASE h = caller[p].hash
    <2>1. \A q \in Callers : ~On(q, h)'
      <3>1. CASE h \in late
        BY <3>1, <1>1, <1>2 DEF LateWithout
      <3>2. CASE h \notin late
        BY <3>2, <1>1, <1>2 DEF LockInv, HeldAlone, On
      <3> QED BY <3>1, <3>2
    <2> QED BY <2>1 DEF HeldAlone
  <1>3. CASE h # caller[p].hash
    <2>1. h \notin late /\ locks'[h] = locks[h]
      BY <1>3 DEF LateWithout
    <2> QED BY <2>1, <1>1 DEF LockInv, HeldAlone
  <1> QED BY <1>2, <1>3

LEMMA NextLockInv == TypeInv /\ LockInv /\ [Next]_vars => LockInv'
  <1> SUFFICES ASSUME TypeInv, LockInv, [Next]_vars PROVE LockInv'
    OBVIOUS
  <1>1. ASSUME NEW p \in Callers, NEW g \in Hashes, NEW a \in Aliases \union {NoAlias}, Acquire(p, g, a)
        PROVE  LockInv'
    <2> SUFFICES ASSUME NEW h \in Hashes, h \notin late PROVE HeldAlone(h)'
      BY <1>1 DEF Acquire, LockInv
    <2>1. HeldAlone(h)
      BY DEF LockInv
    <2>2. \A q \in Callers : q # p => caller'[q] = caller[q]
      BY <1>1 DEF Acquire, TypeInv, TypeOK
    <2>3. caller'[p].pc = "exec" /\ caller'[p].hash = g /\ caller'[p].age = 0
      BY <1>1 DEF Acquire, TypeInv, TypeOK
    <2>4. CASE h = g
      <3>1. \A q \in Callers : ~On(q, h)
        BY <1>1, <2>1, <2>4 DEF Acquire, HeldAlone
      <3>2. \A q \in Callers : On(q, h)' => q = p
        BY <2>2, <3>1 DEF On, At
      <3>3. locks'[h] = [age |-> 0]
        BY <1>1, <2>4 DEF Acquire, TypeInv, TypeOK
      <3>4. locks'[h] # Free /\ locks'[h].age = 0
        BY <3>3, BoundAssumption, Apart DEF Lock, Ages
      <3> QED BY <2>3, <3>2, <3>4, BoundAssumption DEF HeldAlone
    <2>5. CASE h # g
      <3>1. locks'[h] = locks[h] /\ ~On(p, h)'
        BY <1>1, <2>3, <2>5 DEF Acquire, TypeInv, TypeOK, On
      <3> QED BY <2>1, <2>2, <3>1 DEF HeldAlone, On, At
    <2> QED BY <2>4, <2>5
  <1>2. ASSUME NEW p \in Callers, NEW ok \in BOOLEAN, NEW json \in BOOLEAN, Save(p, ok, json)
        PROVE  LockInv'
    <2>1. caller[p] \in Busy
      BY <1>2, ReleasingIsBusy DEF Save, At
    <2>2. \A q \in Callers : q # p => caller'[q] = caller[q]
      BY <1>2 DEF Save, TypeInv, TypeOK
    <2>3. caller'[p].pc # "idle" /\ caller'[p].hash = caller[p].hash /\ caller'[p].age = caller[p].age
      BY <1>2, <2>1 DEF Save, Busy, Releasing, TypeInv, TypeOK
    <2>4. ~At(p, "idle")
      BY <1>2 DEF Save, At
    <2> QED BY <1>2, <2>2, <2>3, <2>4, SameRuns DEF Save, At
  <1>3. ASSUME NEW p \in Callers, NotSaved(p) \/ SaveShape(p)
        PROVE  LockInv'
    <2>1. ~At(p, "idle") /\ caller[p] \in Busy /\ caller' = [caller EXCEPT ![p] = Releasing(p)]
      BY <1>3, ReleasingIsBusy DEF NotSaved, SaveShape, At
    <2>2. \A q \in Callers : q # p => caller'[q] = caller[q]
      BY <2>1 DEF TypeInv, TypeOK
    <2>3. caller'[p].pc # "idle" /\ caller'[p].hash = caller[p].hash /\ caller'[p].age = caller[p].age
      BY <2>1 DEF Busy, Releasing, TypeInv, TypeOK
    <2> QED BY <1>3, <2>1, <2>2, <2>3, SameRuns DEF NotSaved, SaveShape, At
  <1>4. ASSUME NEW p \in Callers, Release(p) \/ Crash(p)
        PROVE  LockInv'
    <2>1. ~At(p, "idle")
      BY <1>4 DEF Release, Crash, At
    <2>2. \A h \in Hashes : h # caller[p].hash => locks'[h] = locks[h]
      BY <1>4 DEF Release, Crash, TypeInv, TypeOK
    <2> QED BY <1>4, <2>1, <2>2, RunEnded DEF Release, Crash
  <1>5. CASE CleanupStaleLocks
    <2> SUFFICES ASSUME NEW h \in Hashes, h \notin late PROVE HeldAlone(h)'
      BY <1>5 DEF CleanupStaleLocks, LockInv
    <2>1. HeldAlone(h) /\ caller' = caller
      BY <1>5 DEF CleanupStaleLocks, LockInv
    <2>2. (\E p \in Callers : On(p, h)) => ~Stale(locks[h].age)
      <3> SUFFICES ASSUME NEW p \in Callers, On(p, h) PROVE ~Stale(locks[h].age)
        OBVIOUS
      <3>1. caller[p] \in Busy
        BY ReleasingIsBusy DEF On
      <3>2. caller[p].age \in Nat
        BY <3>1, BoundAssumption DEF Busy, Ages
      <3> QED BY <2>1, <3>2, BoundAssumption DEF HeldAlone, Stale
    <2>3. (\E p \in Callers : On(p, h)) => locks'[h] = locks[h]
      BY <1>5, <2>2 DEF CleanupStaleLocks
    <2> QED BY <2>1, <2>3 DEF HeldAlone, On, At
  <1>6. CASE DeleteForFile
    BY <1>6, SameRuns DEF DeleteForFile, At
  <1>7. CASE Tick
    <2> SUFFICES ASSUME NEW h \in Hashes, h \notin late' PROVE HeldAlone(h)'
      BY DEF LockInv
    <2>1. HeldAlone(h) /\ h \notin late
      BY <1>7 DEF Tick, LockInv
    <2>2. \A p \in Callers : On(p, h)' =>
             On(p, h) /\ caller'[p].age = Older(caller[p].age) /\ caller[p] \in Busy
      <3> SUFFICES ASSUME NEW p \in Callers, On(p, h)'
                   PROVE  On(p, h) /\ caller'[p].age = Older(caller[p].age) /\ caller[p] \in Busy
        OBVIOUS
      <3>1. ~At(p, "idle")
        BY <1>7 DEF Tick, On, At, Idle
      <3>2. caller[p] \in Busy /\ caller'[p] = [caller[p] EXCEPT !.age = Older(caller[p].age)]
        BY <1>7, <3>1, ReleasingIsBusy DEF Tick
      <3> QED BY <3>1, <3>2 DEF Busy, On, At
    <2>3. \A p \in Callers : On(p, h)' =>
             locks'[h] # Free /\ locks'[h].age = caller'[p].age /\ caller'[p].age <= StaleAfter
      <3> SUFFICES ASSUME NEW p \in Callers, On(p, h)'
                   PROVE  locks'[h] # Free /\ locks'[h].age = caller'[p].age /\ caller'[p].age <= StaleAfter
        OBVIOUS
      <3>1. On(p, h) /\ caller'[p].age = Older(caller[p].age) /\ caller[p].age \in Ages
        BY <2>2 DEF Busy
      <3>2. locks[h] # Free /\ locks[h].age = caller[p].age
        BY <2>1, <3>1 DEF HeldAlone
      <3>3. locks'[h] = [age |-> Older(caller[p].age)]
        BY <1>7, <3>2 DEF Tick
      <3>4. locks'[h] # Free /\ locks'[h].age = Older(caller[p].age)
        BY <3>1, <3>3, OlderIsAge, Apart DEF Lock
      <3>5. ~(Older(caller[p].age) > StaleAfter)
        BY <1>7, <3>1 DEF Tick
      <3> QED BY <3>1, <3>4, <3>5, OlderIsAge, BoundAssumption DEF Ages
    <2> QED BY <2>1, <2>2, <2>3 DEF HeldAlone
  <1>8. CASE UNCHANGED vars
    BY <1>8, SameRuns DEF vars, At
  <1> QED
    BY <1>1, <1>2, <1>3, <1>4, <1>5, <1>6, <1>7, <1>8, NextCases

\* The number of runs, from their being one and the same.
LEMMA HeldByOne ==
    ASSUME NEW h \in Hashes, HeldAlone(h)
    PROVE  Cardinality({p \in Callers : On(p, h)}) <= 1
  <1> DEFINE S == {p \in Callers : On(p, h)}
  <1>1. CASE S = {}
    BY <1>1, FS_EmptySet
  <1>2. CASE S # {}
    <2>1. PICK p \in Callers : On(p, h)
      BY <1>2
    <2>2. S = {p}
      BY <2>1 DEF HeldAlone
    <2>3. Cardinality({p}) = 1
      BY FS_Singleton
    <2> QED BY <2>2, <2>3
  <1> QED BY <1>1, <1>2

\* An execution lock keeps two runs of one block apart, and stays there for its run, until
\* one of them is older than what the sweep takes for dead.
THEOREM Protected == Spec => []LockProtects
  <1>1. LockInv => LockProtects
    BY HeldByOne DEF LockInv, LockProtects, HeldAlone
  <1> QED BY <1>1, InitTypeInv, NextTypeInv, InitLockInv, NextLockInv, PTL DEF Spec

-----------------------------------------------------------------------------
(* The newest result of an alias                                           *)

\* Ids and stamps are below the next ones, and of two rows of an alias none of whose
\* hashes was run again the later one has the higher id.
Dated == \A h \in Hashes : rows[h] # NoRow => rows[h].id < nextId /\ rows[h].stamp <= saves
SameOrder ==
    \A g, h \in Hashes :
        rows[g] # NoRow /\ rows[h] # NoRow /\ rows[g].alias = rows[h].alias
        /\ rows[g].alias \in Aliases \ reran
            => (rows[g].id <= rows[h].id <=> rows[g].stamp <= rows[h].stamp)
OrderInv == Dated /\ SameOrder

LEMMA InitOrderInv == Init => OrderInv
  BY DEF Init, OrderInv, Dated, SameOrder

LEMMA NextOrderInv == TypeInv /\ OrderInv /\ [Next]_vars => OrderInv'
  <1> SUFFICES ASSUME TypeInv, OrderInv, [Next]_vars PROVE OrderInv'
    OBVIOUS
  <1>1. ASSUME NEW p \in Callers, NEW ok \in BOOLEAN, NEW json \in BOOLEAN, Save(p, ok, json)
        PROVE  OrderInv'
    <2> DEFINE k == caller[p].hash
               a == caller[p].alias
    <2>1. k \in Hashes /\ a \in Aliases \union {NoAlias}
      BY <1>1, ReleasingIsBusy DEF Save, At, Busy
    <2>2. \A h \in Hashes : h # k => rows'[h] = rows[h]
      BY <1>1 DEF Save, Upsert, TypeInv, TypeOK
    <2>3. rows'[k] # NoRow /\ rows'[k].alias = a /\ rows'[k].stamp = saves + 1
          /\ rows'[k].id = IF rows[k] = NoRow THEN nextId ELSE rows[k].id
      <3>1. rows'[k] = [id |-> IF rows[k] = NoRow THEN nextId ELSE rows[k].id,
                        alias |-> a, stamp |-> saves + 1]
        BY <1>1, <2>1 DEF Save, Upsert, TypeInv, TypeOK
      <3>2. rows'[k].id = IF rows[k] = NoRow THEN nextId ELSE rows[k].id
        BY <3>1
      <3>3. rows'[k] # NoRow
        BY <3>1 DEF NoRow
      <3> QED BY <3>1, <3>2, <3>3
    <2>4. nextId \in Nat /\ saves \in Nat /\ saves' = saves + 1
          /\ nextId' = IF rows[k] = NoRow THEN nextId + 1 ELSE nextId
      BY <1>1, BoundAssumption DEF Save, TypeInv, TypeOK
    <2>5. \A h \in Hashes : rows[h] # NoRow => rows[h].id \in Nat /\ rows[h].stamp \in Nat
      BY BoundAssumption DEF TypeInv, TypeOK, Row, Stamps
    <2>6. Dated'
      BY <2>2, <2>3, <2>4, <2>5 DEF OrderInv, Dated
    <2>7. reran' = IF rows[k] = NoRow THEN reran ELSE reran \union ({a} \ {NoAlias})
      BY <1>1 DEF Save
    <2>8. SameOrder'
      <3> SUFFICES ASSUME NEW g \in Hashes, NEW h \in Hashes,
                          rows'[g] # NoRow, rows'[h] # NoRow, rows'[g].alias = rows'[h].alias,
                          rows'[g].alias \in Aliases \ reran'
                   PROVE  rows'[g].id <= rows'[h].id <=> rows'[g].stamp <= rows'[h].stamp
        BY DEF SameOrder
      <3>1. g = k \/ h = k => rows[k] = NoRow
        BY <2>3, <2>7, AliasAssumption
      <3>2. CASE g # k /\ h # k
        BY <3>2, <2>2, <2>7 DEF OrderInv, SameOrder
      <3>3. CASE g = k /\ h = k
        BY <3>3, <3>1, <2>3, <2>4
      <3>4. CASE g = k /\ h # k
        BY <3>4, <3>1, <2>2, <2>3, <2>4, <2>5 DEF OrderInv, Dated
      <3>5. CASE g # k /\ h = k
        BY <3>5, <3>1, <2>2, <2>3, <2>4, <2>5 DEF OrderInv, Dated
      <3> QED BY <3>2, <3>3, <3>4, <3>5
    <2> QED BY <2>6, <2>8 DEF OrderInv
  <1>2. CASE DeleteForFile
    BY <1>2 DEF DeleteForFile, OrderInv, Dated, SameOrder
  <1>3. ASSUME UNCHANGED << rows, nextId, saves, reran >>
        PROVE  OrderInv'
    BY <1>3 DEF OrderInv, Dated, SameOrder
  <1>4. \/ \E p \in Callers, ok \in BOOLEAN, json \in BOOLEAN : Save(p, ok, json)
        \/ DeleteForFile
        \/ UNCHANGED << rows, nextId, saves, reran >>
    BY NextCases DEF Acquire, NotSaved, SaveShape, Release, Crash, CleanupStaleLocks, Tick, vars
  <1> QED BY <1>1, <1>2, <1>3, <1>4

\* The look-up by alias gives the last write, for an alias none of whose hashes was run
\* again: that the newest id is the newest write rests on rows keeping their ids.
THEOREM NewestById == Spec => []LatestUnlessRerun
  <1>1. OrderInv => LatestUnlessRerun
    BY DEF OrderInv, SameOrder, LatestUnlessRerun, Latest, NewestWrite, RowsOf
  <1> QED BY <1>1, InitTypeInv, NextTypeInv, InitOrderInv, NextOrderInv, PTL DEF Spec
=============================================================================
