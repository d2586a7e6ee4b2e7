------------------------------- MODULE DbMigrate -------------------------------
(***************************************************************************)
(* init_db and run_migrations of src/src/db/mod.rs: at every start of the  *)
(* desktop, the TUI or the MCP server, which share one notes.db, the       *)
(* scripts are run from the first.                                         *)
(*                                                                         *)
(* A statement is one step and one SQLite transaction; nothing joins the   *)
(* statements of a script.  Between two of them the process may die, and   *)
(* another process may run a statement of its own start.  The database is  *)
(* the set of its schema objects, each a table and a part of it: the table *)
(* itself, a column added later, an index, and of schema_cache the foreign *)
(* key and the cached rows.  The statements are in MigrationScripts.       *)
(***************************************************************************)
EXTENDS Naturals, Sequences

CONSTANTS
    Procs,      \* processes that open the database
    Script,     \* the statements in the order of run_migrations
    Releases,   \* the databases earlier releases left, the empty file among them
    MaxStarts,  \* bound on the starts
    MaxFaults   \* bound on the statements that fail for reasons of their own

VARIABLES
    db,         \* the schema objects of notes.db
    proc,       \* [Procs -> progress of one start]
    starts,     \* starts so far
    faults,     \* faults so far
    hurt,       \* history: a start was cut short, met a fault, or met another inside 013
    cached      \* history: whether schema_cache is owed its rows

dbVars == <<db, proc, starts, faults, hurt, cached>>
-----------------------------------------------------------------------------
(* Statements                                                              *)

Cache == "schema_cache"
Old == "schema_cache_old"
Table == "table"

CacheTable == <<Cache, Table>>
CacheName == <<Cache, "schema_name">>
CacheIndex == <<Cache, "unique">>
CacheFk == <<Cache, "fk">>
CacheRows == <<Cache, "rows">>
OldTable == <<Old, Table>>
OldName == <<Old, "schema_name">>
OldIndex == <<Old, "unique">>
OldRows == <<Old, "rows">>

Rebuilds == {"guard", "dropIndex", "rename", "createNew", "copy", "dropOld"}

\* A statement of migration m; `strict` says that its error ends the start (`?`).
Statements ==
    [m : Nat, strict : BOOLEAN, op : {"create", "createCache", "alter"} \union Rebuilds,
     obj : STRING \X STRING, needs : SUBSET (STRING \X STRING)]

\* Where the rebuild of schema_cache begins, behind a guard, and what follows it.
GuardAt == CHOOSE i \in DOMAIN Script : Script[i].op = "guard"
PastDropFk == CHOOSE i \in DOMAIN Script : i > GuardAt /\ Script[i].m # Script[GuardAt].m
                                            /\ Script[i - 1].m = Script[GuardAt].m
CacheAt == CHOOSE i \in DOMAIN Script : Script[i].op = "createCache"

Is(i, op, needs) == Script[i].op = op /\ Script[i].needs = needs
Makes(s) == s.op \in {"create", "alter"}
MakesName(s) == s.op = "alter" /\ s.obj = CacheName /\ s.needs = {CacheTable}
MakesIndex(s) == s.op = "create" /\ s.obj = CacheIndex /\ s.needs = {CacheTable, CacheName}

\* The rebuild, statement by statement.
RebuildAssumption ==
    /\ Script \in Seq(Statements)
    /\ GuardAt \in Nat /\ CacheAt \in 1..(GuardAt - 1)
    /\ PastDropFk = GuardAt + 7 /\ PastDropFk <= Len(Script)
    /\ \A i \in GuardAt..(GuardAt + 6) : Script[i].strict
    /\ Is(GuardAt, "guard", {}) /\ Is(GuardAt + 1, "dropIndex", {})
    /\ Is(GuardAt + 2, "rename", {CacheTable}) /\ Is(GuardAt + 3, "createNew", {})
    /\ Is(GuardAt + 4, "copy", {CacheTable, OldName}) /\ Is(GuardAt + 5, "dropOld", {OldTable})
    /\ MakesIndex(Script[GuardAt + 6])

\* Every other statement makes something, of what earlier ones made; the errors of those
\* that add a column are ignored.  schema_cache is made once, and before it is rebuilt one
\* column is added to it and one index.
OthersAssumption ==
    /\ \A i \in DOMAIN Script \ (GuardAt..(GuardAt + 6)) :
        LET s == Script[i] IN
        /\ IF i = CacheAt THEN Is(i, "createCache", {}) ELSE Makes(s)
        /\ s.op = "alter" => ~s.strict
        /\ s.obj[1] # Old
        /\ s.obj[1] = Cache /\ i # CacheAt =>
               i \in CacheAt..GuardAt /\ ~s.strict /\ (MakesName(s) \/ MakesIndex(s))
        /\ \A o \in s.needs :
               /\ o[1] # Old /\ (o[1] = Cache => s.obj[1] = Cache)
               /\ o = CacheTable \/ \E j \in 1..(i - 1) : Makes(Script[j]) /\ Script[j].obj = o
    /\ \E i \in CacheAt..GuardAt : MakesIndex(Script[i])

ASSUME ScriptAssumption == RebuildAssumption /\ OthersAssumption
ASSUME StartsAssumption == MaxStarts \in Nat /\ MaxFaults \in Nat

\* What an up-to-date database has.
Schema == {CacheTable} \union
          {Script[i].obj : i \in {j \in DOMAIN Script : Makes(Script[j])}}
Objects == Schema \union ({Cache, Old} \X {Table, "schema_name", "fk", "unique", "rows"})

ASSUME ReleasesAssumption == \A d \in Releases : d \subseteq Objects /\ \A o \in d : o[1] # Old
-----------------------------------------------------------------------------
(* What SQLite does with a statement                                       *)

OfTable(d, t) == {o \in d : o[1] = t}
HasFk(d) == CacheFk \in d

\* IF NOT EXISTS goes by the name, which the index shares between the two tables.
Exists(d, o) == o \in d \/ (o = CacheIndex /\ OldIndex \in d)

\* The statement succeeds on d.
Runs(d, s) ==
    /\ s.needs \subseteq d \/ (s.op = "create" /\ Exists(d, s.obj))
    /\ s.op = "alter" => s.obj \notin d
    /\ s.op = "rename" => OldTable \notin d
    /\ s.op = "createNew" => CacheTable \notin d
    /\ s.op = "copy" => ~({OldRows, CacheRows} \subseteq d)

\* Mutant: 013 makes the new table without a row of the old one.
CopiedNone(d) == d

Copied(d) == IF OldRows \in d THEN d \union {CacheRows} ELSE d

\* A rename takes the parts along.
Renamed(d) == (d \ OfTable(d, Cache)) \union {<<Old, o[2]>> : o \in OfTable(d, Cache)}

\* The database after a statement that succeeds.
Effect(d, s) ==
    CASE s.op = "guard" -> d
      [] s.op = "create" -> IF Exists(d, s.obj) THEN d ELSE d \union {s.obj}
      [] s.op = "alter" -> d \union {s.obj}
      [] s.op = "createCache" -> IF CacheTable \in d THEN d ELSE d \union {CacheTable, CacheFk}
      [] s.op = "dropIndex" -> d \ {CacheIndex, OldIndex}
      [] s.op = "rename" -> Renamed(d)
      [] s.op = "createNew" -> d \union {CacheTable, CacheName}
      [] s.op = "copy" -> Copied(d)
      [] s.op = "dropOld" -> d \ OfTable(d, Old)

\* The statement after the i-th: the guard leads past 013 when there is no foreign key.
Following(d, i) == IF Script[i].op = "guard" /\ ~HasFk(d) THEN PastDropFk ELSE i + 1
-----------------------------------------------------------------------------
\* How far a start is: pc is "off", "starting", "failed" or "ready".
Progress(pc, at, alone) == [pc |-> pc, at |-> at, alone |-> alone]
NotRunning == Progress("off", 1, FALSE)
Starting(p) == proc[p].pc = "starting"

\* The database of any release, with rows in schema_cache or without.
DbInit ==
    /\ db \in Releases
    /\ cached = (CacheRows \in db)
    /\ proc = [p \in Procs |-> NotRunning]
    /\ starts = 0
    /\ faults = 0
    /\ hurt = FALSE

\* init_db is called; a start counts as alone while no other process starts or runs.
Launch(p) ==
    /\ proc[p] = NotRunning
    /\ starts < MaxStarts
    /\ starts' = starts + 1
    /\ proc' = [q \in Procs |->
                   IF q = p THEN Progress("starting", 1, \A r \in Procs : proc[r] = NotRunning)
                   ELSE [proc[q] EXCEPT !.alone = FALSE]]
    /\ UNCHANGED <<db, faults, hurt, cached>>

\* The start goes on at statement i, or has returned Ok.
GoneTo(p, i, alone) ==
    proc' = [proc EXCEPT ![p] =
                IF i > Len(Script) THEN Progress("ready", 1, alone) ELSE Progress("starting", i, alone)]

\* Another start has set schema_cache aside and not yet put the new one in its place.
OtherInside(p) ==
    \E q \in Procs \ {p} :
        Starting(q) /\ Script[proc[q].at].op \in {"createNew", "copy", "dropOld"}

\* A start that ends well on its own mends what was hurt, but for rows already lost.
Mends(p) == proc[p].at = Len(Script) /\ proc[p].alone

Succeed(p) ==
    LET i == proc[p].at
        d == Effect(db, Script[i])
    IN
    /\ Starting(p)
    /\ Runs(db, Script[i])
    /\ db' = d
    /\ GoneTo(p, Following(db, i), proc[p].alone)
    /\ hurt' = ((hurt /\ ~Mends(p)) \/ OtherInside(p))
    /\ cached' = IF hurt /\ Mends(p) THEN CacheRows \in d ELSE cached
    /\ UNCHANGED <<starts, faults>>

\* Mutant: every error ends the start.
StrictAlways(s) == TRUE

Strict(s) == s.strict

Errs(p, alone) ==
    LET i == proc[p].at IN
    IF Strict(Script[i])
    THEN proc' = [proc EXCEPT ![p] = Progress("failed", i, alone)]
    ELSE GoneTo(p, i + 1, alone)

\* SQLite refuses the statement: passed over, or the end of the start.
Refused(p) ==
    /\ Starting(p)
    /\ ~Runs(db, Script[proc[p].at])
    /\ Errs(p, proc[p].alone)
    /\ UNCHANGED <<db, starts, faults, hurt, cached>>

\* A statement that could run does not (the file is locked for too long, the disk is
\* full); the guard's query counts such an error as "no foreign key".
Fault(p) ==
    /\ Starting(p)
    /\ faults < MaxFaults
    /\ faults' = faults + 1
    /\ hurt' = TRUE
    /\ IF Script[proc[p].at].op = "guard" THEN GoneTo(p, PastDropFk, FALSE) ELSE Errs(p, FALSE)
    /\ UNCHANGED <<db, starts, cached>>

\* The process dies or quits.
Stop(p) ==
    /\ proc[p] # NotRunning
    /\ proc' = [proc EXCEPT ![p] = NotRunning]
    /\ hurt' = (hurt \/ Starting(p))
    /\ UNCHANGED <<db, starts, faults, cached>>

\* save_to_cache of a running process; its rows are of connections the foreign key
\* does not know.
Introspect(p) ==
    /\ proc[p].pc = "ready"
    /\ CacheTable \in db
    /\ ~HasFk(db)
    /\ db' = db \union {CacheRows}
    /\ cached' = TRUE
    /\ hurt' = (hurt \/ OtherInside(p))
    /\ UNCHANGED <<proc, starts, faults>>

DbNext == \E p \in Procs :
    Launch(p) \/ Succeed(p) \/ Refused(p) \/ Fault(p) \/ Stop(p) \/ Introspect(p)

DbSpec == DbInit /\ [][DbNext]_dbVars
-----------------------------------------------------------------------------
(* Properties                                                              *)

\* The database holds known objects, and a start is at a statement.
DbTypeOK ==
    /\ db \subseteq Objects
    /\ proc \in [Procs -> [pc : {"off", "starting", "failed", "ready"},
                           at : DOMAIN Script, alone : BOOLEAN]]
    /\ starts \in 0..MaxStarts
    /\ faults \in 0..MaxFaults
    /\ hurt \in BOOLEAN
    /\ cached \in BOOLEAN

Settled == starts > 0 /\ \A p \in Procs : ~Starting(p)

\* Ignored errors hide nothing: whatever release the database is of, and however the
\* starts of several processes overlap outside 013, once all have ended the foreign key
\* is gone and the schema complete, and a start on its own mends what crashes and faults
\* left undone.  Rebuilding schema_cache keeps its rows.  Only an abandoned
\* schema_cache_old may keep the name of the index.
WholeUnlessHurt ==
    (Settled /\ ~hurt) =>
        /\ \A o \in Schema : Exists(db, o)
        /\ ~HasFk(db)
        /\ cached => CacheRows \in db

\* The one way a start on its own can fail: schema_cache was set aside by a start that
\* died, and made again, with its foreign key, by the next one.
FailsOnlySetAside ==
    \A p \in Procs : (proc[p].pc = "failed" /\ proc[p].alone) => {OldTable, CacheFk} \subseteq db
=============================================================================
