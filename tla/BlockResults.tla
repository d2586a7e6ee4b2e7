----------------------------- MODULE BlockResults -----------------------------
(***************************************************************************)
(* The result cache of src/src/block_results.rs: the rows of one note in   *)
(* block_results, block_schema_cache and block_execution_locks, and the    *)
(* executions that use them.                                               *)
(*                                                                         *)
(* Each SQL statement is one step (SQLite runs it atomically); between two *)
(* statements of one caller, and while its block executes, every other     *)
(* caller may run.  A caller takes the lock of its hash, executes, saves,  *)
(* and releases; it may die anywhere.  Ages are counted in ticks up to     *)
(* StaleAfter + 1, which stands for everything older.                      *)
(***************************************************************************)
EXTENDS Naturals, FiniteSets

CONSTANTS
    Callers,     \* panes, sessions and processes that run blocks
    Hashes,      \* block hashes
    Aliases,     \* aliases of the note
    NoAlias,     \* a block saved without alias (NULL)
    StaleAfter,  \* the 60 seconds of cleanup_stale_locks
    MaxSaves     \* bound on the number of saves

ASSUME AliasAssumption == NoAlias \notin Aliases
ASSUME BoundAssumption == StaleAfter \in Nat /\ MaxSaves \in Nat

VARIABLES
    rows,     \* [Hashes -> row of block_results, or NoRow]
    nextId,   \* AUTOINCREMENT
    shape,    \* [Aliases -> stamp of the save its shape was inferred from, 0 for none]
    locks,    \* [Hashes -> row of block_execution_locks with its age, or Free]
    caller,   \* [Callers -> progress of one execution]
    saves,    \* history: number of saves so far; a save's stamp is its number
    reran,    \* history: aliases one of whose rows was updated in place
    late      \* history: hashes with a run older than StaleAfter in their busy period

vars == <<rows, nextId, shape, locks, caller, saves, reran, late>>
-----------------------------------------------------------------------------
Ages == 0..(StaleAfter + 1)
Stamps == 1..MaxSaves
Row == [id : Stamps, alias : Aliases \union {NoAlias}, stamp : Stamps]
NoRow == [absent |-> TRUE]
Lock == [age : Ages]
Free == [unlocked |-> TRUE]
Idle == [pc |-> "idle"]
Busy == [pc : {"exec", "shape", "release"}, hash : Hashes,
         alias : Aliases \union {NoAlias}, age : Ages, stamp : 0..MaxSaves]

At(p, pc) == caller[p].pc = pc
Releasing(p) == [caller[p] EXCEPT !.pc = "release", !.alias = NoAlias, !.stamp = 0]
On(p, h) == ~At(p, "idle") /\ caller[p].hash = h

\* The age after a tick; what is beyond StaleAfter is all one age.
Older(age) == IF age > StaleAfter THEN age ELSE age + 1

\* A busy period of a hash ends when nobody runs it any more.
LateWithout(p) ==
    IF \E q \in Callers \ {p} : On(q, caller[p].hash) THEN late ELSE late \ {caller[p].hash}
-----------------------------------------------------------------------------
Init ==
    /\ rows = [h \in Hashes |-> NoRow]
    /\ nextId = 1
    /\ shape = [a \in Aliases |-> 0]
    /\ locks = [h \in Hashes |-> Free]
    /\ caller = [p \in Callers |-> Idle]
    /\ saves = 0
    /\ reran = {}
    /\ late = {}

\* try_acquire_execution_lock: INSERT OR IGNORE.  A caller that is told `false` does
\* not execute, which changes nothing.
Acquire(p, h, a) ==
    /\ At(p, "idle")
    /\ locks[h] = Free
    /\ locks' = [locks EXCEPT ![h] = [age |-> 0]]
    /\ caller' = [caller EXCEPT ![p] =
                     [pc |-> "exec", hash |-> h, alias |-> a, age |-> 0, stamp |-> 0]]
    /\ UNCHANGED <<rows, nextId, shape, saves, reran, late>>

\* A successful, aliased, JSON response refreshes the shape.
ShapeWanted(a, ok, json) == a \in Aliases /\ ok /\ json

\* INSERT ... ON CONFLICT(file_path, block_hash) DO UPDATE: a row keeps its id.
Upsert(h, a, n) ==
    rows' = [rows EXCEPT ![h] =
                [id |-> IF rows[h] = NoRow THEN nextId ELSE rows[h].id,
                 alias |-> a, stamp |-> n]]

\* save_block_result_with_alias, first statement, once the block has answered.
Save(p, ok, json) ==
    LET h == caller[p].hash
        a == caller[p].alias
        n == saves + 1
    IN
    /\ At(p, "exec")
    /\ saves < MaxSaves
    /\ saves' = n
    /\ Upsert(h, a, n)
    /\ nextId' = IF rows[h] = NoRow THEN nextId + 1 ELSE nextId
    /\ reran' = IF rows[h] = NoRow THEN reran ELSE reran \union ({a} \ {NoAlias})
    /\ caller' = [caller EXCEPT ![p] = IF ShapeWanted(a, ok, json)
                                      THEN [@ EXCEPT !.pc = "shape", !.stamp = n]
                                      ELSE Releasing(p)]
    /\ UNCHANGED <<shape, locks, late>>

\* The run is cancelled, or its save returns an error: nothing is written.
NotSaved(p) ==
    /\ At(p, "exec")
    /\ caller' = [caller EXCEPT ![p] = Releasing(p)]
    /\ UNCHANGED <<rows, nextId, shape, locks, saves, reran, late>>

\* upsert_block_schema, the second statement; its error is ignored.
SaveShape(p) ==
    /\ At(p, "shape")
    /\ caller' = [caller EXCEPT ![p] = Releasing(p)]
    /\ shape' \in {shape, [shape EXCEPT ![caller[p].alias] = caller[p].stamp]}
    /\ UNCHANGED <<rows, nextId, locks, saves, reran, late>>

\* release_execution_lock: deletes the lock of the hash, whoever holds it by now.
Release(p) ==
    /\ At(p, "release")
    /\ locks' = [locks EXCEPT ![caller[p].hash] = Free]
    /\ late' = LateWithout(p)
    /\ caller' = [caller EXCEPT ![p] = Idle]
    /\ UNCHANGED <<rows, nextId, shape, saves, reran>>

\* The caller's process dies; its lock row stays.
Crash(p) ==
    /\ ~At(p, "idle")
    /\ late' = LateWithout(p)
    /\ caller' = [caller EXCEPT ![p] = Idle]
    /\ UNCHANGED <<rows, nextId, shape, locks, saves, reran>>

\* Mutants: the boundary one tick early, and a lock that never grows stale.
StaleEarly(age) == age >= StaleAfter
StaleNever(age) == age > StaleAfter + 1

\* locked_at < datetime('now', '-60 seconds')
Stale(age) == age > StaleAfter

CleanupStaleLocks ==
    /\ locks' = [h \in Hashes |->
                    IF locks[h] # Free /\ Stale(locks[h].age) THEN Free ELSE locks[h]]
    /\ UNCHANGED <<rows, nextId, shape, caller, saves, reran, late>>

\* delete_block_results_for_file: rows go, shapes and locks stay.
DeleteForFile ==
    /\ rows' = [h \in Hashes |-> NoRow]
    /\ reran' = {}
    /\ UNCHANGED <<nextId, shape, locks, caller, saves, late>>

Tick ==
    /\ locks' = [h \in Hashes |-> IF locks[h] = Free THEN Free
                                ELSE [age |-> Older(locks[h].age)]]
    /\ caller' = [p \in Callers |->
                    IF At(p, "idle") THEN Idle
                    ELSE [caller[p] EXCEPT !.age = Older(caller[p].age)]]
    /\ late' = late \union {h \in Hashes : \E p \in Callers :
                               On(p, h) /\ Older(caller[p].age) > StaleAfter}
    /\ UNCHANGED <<rows, nextId, shape, saves, reran>>

\* The rows saved last under alias a.
RowsOf(a) == {rows[h] : h \in {g \in Hashes : rows[g] # NoRow /\ rows[g].alias = a}}

\* Mutant: ascending order.
LatestAscending(a) == {r \in RowsOf(a) : \A s \in RowsOf(a) : s.id >= r.id}

\* get_latest_block_result_by_alias: the row with the highest id.
Latest(a) == {r \in RowsOf(a) : \A s \in RowsOf(a) : s.id <= r.id}

Run(p) ==
    \/ \E h \in Hashes, a \in Aliases \union {NoAlias} : Acquire(p, h, a)
    \/ \E ok, json \in BOOLEAN : Save(p, ok, json)
    \/ NotSaved(p) \/ SaveShape(p) \/ Release(p) \/ Crash(p)

Next == (\E p \in Callers : Run(p)) \/ CleanupStaleLocks \/ DeleteForFile \/ Tick

\* The clock advances and the app sweeps stale locks; no caller owes anything.
Fairness == WF_vars(Tick) /\ WF_vars(CleanupStaleLocks)
Spec == Init /\ [][Next]_vars /\ Fairness
-----------------------------------------------------------------------------
(* Properties                                                              *)

\* Every row has the shape of its table.
TypeOK ==
    /\ rows \in [Hashes -> Row \union {NoRow}]
    /\ nextId \in 1..(MaxSaves + 1)
    /\ shape \in [Aliases -> 0..MaxSaves]
    /\ locks \in [Hashes -> Lock \union {Free}]
    /\ caller \in [Callers -> Busy \union {Idle}]
    /\ saves \in 0..MaxSaves
    /\ reran \subseteq Aliases
    /\ late \subseteq Hashes

\* The lock is advisory, has no owner and expires, yet it keeps two runs of one hash
\* apart until one of them outlives the sweep's 60 seconds: from acquire to release
\* a run's lock is there, and it runs alone.
LockProtects ==
    \A h \in Hashes : h \notin late =>
        /\ Cardinality({p \in Callers : On(p, h)}) <= 1
        /\ (\E p \in Callers : On(p, h)) => locks[h] # Free

\* No lock outlives its holder for good: whoever crashed, a locked hash becomes free.
LockFreed == \A h \in Hashes : locks[h] # Free ~> locks[h] = Free

NewestWrite(a) == {r \in RowsOf(a) : \A s \in RowsOf(a) : s.stamp <= r.stamp}

\* The lookup by alias answers with the last write as long as no hash saved under
\* the alias is run again, crashes, deletions and renamed aliases included.
LatestUnlessRerun == \A a \in Aliases \ reran : Latest(a) = NewestWrite(a)
=============================================================================
