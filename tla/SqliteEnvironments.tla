------------------------ MODULE SqliteEnvironments ------------------------
(***************************************************************************)
(* The environments of the internal database (db/environments.rs): the     *)
(* tables `environments` and `env_variables` and the keychain entries of   *)
(* secret variables.  Every call is a sequence of statements and keychain  *)
(* accesses without a transaction; each may fail and end its call, and the *)
(* calls of several callers interleave between any two of them.            *)
(***************************************************************************)
EXTENDS Naturals, FiniteSets, Sequences

CONSTANTS
    Callers,    \* tasks of the desktop app, the TUI and the MCP server
    Envs,       \* identifiers of environments; each is given out once
    Names,
    Keys,       \* keys of variables
    Texts,      \* values, none of them empty
    None,       \* no value; also the empty value of a variable
    Sentinel,   \* "__KEYCHAIN__": the value is in the keychain
    OldNames,   \* the environments an older release left, by their names
    OldSecrets, \* their variables, secrets in plain text
    MaxRows,    \* bound: ids of rows of env_variables
    MaxSets     \* bound: calls of set_active_environment

\* What the constants are.
EnvAssumption ==
    /\ None \notin Names \union Texts \union {Sentinel}
    /\ Sentinel \notin Texts
    /\ OldNames \in [Envs -> Names \union {None}]
    /\ OldSecrets \in [Envs \X Keys -> Texts \union {None}]
    /\ {MaxRows, MaxSets} \subseteq Nat
    /\ IsFiniteSet(Keys)

VARIABLES
    names,      \* the name of each environment, None before and after its life
    active,     \* the environments with is_active = 1
    rows,       \* the row of each variable: its id (0: no row), value, is_secret
    vault,      \* the keychain entry of each variable
    call,       \* what each caller is doing
    made,       \* the newest row's id
    sets,       \* calls of set_active_environment so far
    spent,      \* environments that were created
    blurred,    \* history: the last activation overlapped another call
    raced       \* history: variables set while they were being deleted

envVars == << names, active, rows, vault, call, made, sets, spent, blurred, raced >>

Vars == Envs \X Keys
NoRow == [id |-> 0, text |-> None, secret |-> FALSE]
Idle == [pc |-> "idle"]

\* A variable on its way into the table: of set_env_variable, or the next of a
\* duplicate, whose remaining rows are in `rest`.
Setting(pc, v, text, secret, rest) ==
    [pc |-> pc, v |-> v, text |-> text, secret |-> secret, row |-> 0, rest |-> rest]

\* Calls of set_env_variable and duplicate_environment that are about to write
\* the row of v, and calls of delete_env_variable about to erase its secret.
Sets(v) == {c \in Callers : call[c].pc \in {"find", "update", "insert", "copy"} /\ call[c].v = v}
Erases(v) == {c \in Callers : call[c].pc = "erase" /\ call[c].v = v}

EnvInit ==
    /\ names = OldNames
    /\ active = {}
    /\ rows = [v \in Vars |-> IF OldSecrets[v] = None THEN NoRow
                             ELSE [id |-> 1, text |-> OldSecrets[v], secret |-> TRUE]]
    /\ vault = [v \in Vars |-> None]
    /\ call = [c \in Callers |-> Idle]
    /\ made = 1 /\ sets = 0
    /\ spent = {e \in Envs : OldNames[e] # None}
    /\ blurred = FALSE
    /\ raced = {}

Do(c, next) == call' = [call EXCEPT ![c] = next]

\* A statement or a keychain access fails and the call returns its error.  The
\* deletion of a secret is best effort: its call ends either way.
Fail(c) ==
    /\ call[c].pc # "idle"
    /\ Do(c, Idle)
    /\ UNCHANGED << names, active, rows, vault, made, sets, spent, blurred, raced >>

-----------------------------------------------------------------------------
(* Environments.                                                           *)

\* The INSERT of a new environment; its name is UNIQUE.
NewEnvironment(e, name) ==
    /\ e \notin spent
    /\ \A other \in Envs : names[other] # name
    /\ names' = [names EXCEPT ![e] = name]
    /\ spent' = spent \union {e}

CreateEnvironment(c, e, name) ==
    /\ call[c].pc = "idle"
    /\ NewEnvironment(e, name)
    /\ UNCHANGED << active, rows, vault, call, made, sets, blurred, raced >>

\* One DELETE, which takes the variables along (ON DELETE CASCADE), and leaves
\* their secrets in the keychain.
DeleteEnvironment(c, e) ==
    /\ call[c].pc = "idle"
    /\ names[e] # None
    /\ names' = [names EXCEPT ![e] = None]
    /\ active' = active \ {e}
    /\ rows' = [v \in Vars |-> IF v[1] = e THEN NoRow ELSE rows[v]]
    /\ UNCHANGED << vault, call, made, sets, spent, blurred, raced >>

\* (A mistake: the environments that were active stay so.)
ClearNothing(c, e) ==
    /\ call[c].pc = "idle" /\ sets < MaxSets
    /\ sets' = sets + 1
    /\ e # None /\ Do(c, [pc |-> "activate", e |-> e, over |-> FALSE])
    /\ UNCHANGED << names, active, rows, vault, made, spent, blurred, raced >>

\* UPDATE environments SET is_active = 0.  With no environment to activate the
\* call is over; otherwise every activation still to come is overlapped.
ClearActive(c, e) ==
    /\ call[c].pc = "idle" /\ sets < MaxSets
    /\ sets' = sets + 1
    /\ active' = {}
    /\ blurred' = FALSE
    /\ call' = [d \in Callers |->
                  IF d = c THEN IF e = None THEN Idle
                                ELSE [pc |-> "activate", e |-> e, over |-> FALSE]
                  ELSE IF call[d].pc = "activate" THEN [call[d] EXCEPT !.over = TRUE]
                  ELSE call[d]]
    /\ UNCHANGED << names, rows, vault, made, spent, raced >>

\* UPDATE environments SET is_active = 1 WHERE id = e: nothing and an error for
\* an environment that is gone.
Activate(c) ==
    LET e == call[c].e IN
    /\ call[c].pc = "activate"
    /\ active' = IF names[e] = None THEN active ELSE active \union {e}
    /\ blurred' = (blurred \/ call[c].over)
    /\ call' = [d \in Callers |->
                  IF d = c THEN Idle
                  ELSE IF call[d].pc = "activate" THEN [call[d] EXCEPT !.over = TRUE]
                  ELSE call[d]]
    /\ UNCHANGED << names, rows, vault, made, sets, spent, raced >>

-----------------------------------------------------------------------------
(* Variables.                                                              *)

\* A secret goes to the keychain first, and the table holds the sentinel.
StoreSecret(c, v, text, rest) ==
    /\ vault' = [vault EXCEPT ![v] = text]
    /\ raced' = IF Erases(v) = {} THEN raced ELSE raced \union {v}
    /\ Do(c, Setting("find", v, Sentinel, TRUE, rest))

SetVariable(c, v, text, secret) ==
    /\ call[c].pc = "idle" /\ names[v[1]] # None /\ made < MaxRows
    /\ \/ secret /\ text # None /\ StoreSecret(c, v, text, << >>)
       \/ /\ ~(secret /\ text # None)
          /\ Do(c, Setting("find", v, text, secret, << >>))
          /\ UNCHANGED << vault, raced >>
    /\ UNCHANGED << names, active, rows, made, sets, spent, blurred >>

\* SELECT id: an update follows if there is a row, else an insert.
FindRow(c) ==
    LET row == rows[call[c].v] IN
    /\ call[c].pc = "find"
    /\ Do(c, [call[c] EXCEPT !.pc = IF row = NoRow THEN "insert" ELSE "update",
                             !.row = row.id])
    /\ UNCHANGED << names, active, rows, vault, made, sets, spent, blurred, raced >>

\* What follows a row: the next row of a duplicate, or the end of the call.
NextRow(c) == IF call[c].rest = << >> THEN Idle
              ELSE [pc |-> "next", e |-> call[c].v[1], rest |-> call[c].rest]

\* The UPDATE is by the id found; if that row is gone it changes nothing, and
\* reading the row back fails.
UpdateRow(c) ==
    LET v == call[c].v found == rows[v].id = call[c].row IN
    /\ call[c].pc = "update"
    /\ rows' = IF found THEN [rows EXCEPT ![v].text = call[c].text, ![v].secret = call[c].secret]
               ELSE rows
    /\ Do(c, IF found THEN NextRow(c) ELSE Idle)
    /\ UNCHANGED << names, active, vault, made, sets, spent, blurred, raced >>

\* The INSERT fails when another call has inserted the row (UNIQUE) and when the
\* environment is gone (FOREIGN KEY).
InsertRow(c) ==
    LET v == call[c].v free == rows[v] = NoRow /\ names[v[1]] # None IN
    /\ call[c].pc = "insert" /\ made < MaxRows
    /\ made' = made + 1
    /\ rows' = IF free
               THEN [rows EXCEPT ![v] = [id |-> made', text |-> call[c].text, secret |-> call[c].secret]]
               ELSE rows
    /\ Do(c, IF free THEN NextRow(c) ELSE Idle)
    /\ UNCHANGED << names, active, vault, sets, spent, blurred, raced >>

\* (A mistake: the secret is erased before its row is deleted.)
FindAndErase(c, v) ==
    /\ call[c].pc = "idle" /\ rows[v] # NoRow
    /\ vault' = [vault EXCEPT ![v] = None]
    /\ Do(c, [pc |-> "delete", v |-> v, row |-> rows[v].id, secret |-> FALSE])
    /\ UNCHANGED << names, active, rows, made, sets, spent, blurred, raced >>

\* delete_env_variable reads the row of the id it is given ...
FindDoomed(c, v) ==
    /\ call[c].pc = "idle" /\ rows[v] # NoRow
    /\ Do(c, [pc |-> "delete", v |-> v, row |-> rows[v].id, secret |-> rows[v].secret])
    /\ UNCHANGED << names, active, rows, vault, made, sets, spent, blurred, raced >>

\* ... deletes it ...
DeleteRow(c) ==
    LET v == call[c].v found == rows[v].id = call[c].row IN
    /\ call[c].pc = "delete"
    /\ rows' = IF found THEN [rows EXCEPT ![v] = NoRow] ELSE rows
    /\ raced' = IF found /\ Sets(v) # {} THEN raced \union {v} ELSE raced
    /\ Do(c, IF found /\ call[c].secret THEN [pc |-> "erase", v |-> v] ELSE Idle)
    /\ UNCHANGED << names, active, vault, made, sets, spent, blurred >>

\* ... and then the keychain entry of what it read.
EraseSecret(c) ==
    /\ call[c].pc = "erase"
    /\ vault' = [vault EXCEPT ![call[c].v] = None]
    /\ Do(c, Idle)
    /\ UNCHANGED << names, active, rows, made, sets, spent, blurred, raced >>

-----------------------------------------------------------------------------
(* duplicate_environment.                                                  *)

\* The source is read, then the copy inserted.
FindSource(c, e, name) ==
    /\ call[c].pc = "idle" /\ names[e] # None /\ made < MaxRows
    /\ Do(c, [pc |-> "duplicate", e |-> e, name |-> name])
    /\ UNCHANGED << names, active, rows, vault, made, sets, spent, blurred, raced >>

InsertCopy(c, e) ==
    /\ call[c].pc = "duplicate"
    /\ NewEnvironment(e, call[c].name)
    /\ Do(c, [pc |-> "list", e |-> e, from |-> call[c].e])
    /\ UNCHANGED << active, rows, vault, made, sets, blurred, raced >>

\* The variables of the source, read once; a secret is still a sentinel.
ListSource(c) ==
    LET from == call[c].from
        found == {k \in Keys : rows[<< from, k >>] # NoRow}
        row(k) == [key |-> k, from |-> from, text |-> rows[<< from, k >>].text,
                   secret |-> rows[<< from, k >>].secret]
    IN
    /\ call[c].pc = "list"
    /\ \E order \in [1 .. Cardinality(found) -> found] :
         /\ {order[i] : i \in DOMAIN order} = found
         /\ Do(c, IF found = {} THEN Idle
                  ELSE [pc |-> "next", e |-> call[c].e, rest |-> [i \in DOMAIN order |-> row(order[i])]])
    /\ UNCHANGED << names, active, rows, vault, made, sets, spent, blurred, raced >>

\* A secret is copied within the keychain and inserted; one that is not there
\* ends the call with what was copied so far.  Any other row is set.
CopyNext(c) ==
    LET row == Head(call[c].rest) rest == Tail(call[c].rest)
        v == << call[c].e, row.key >>
        secret == vault[<< row.from, row.key >>]
    IN
    /\ call[c].pc = "next"
    /\ \/ /\ row.secret /\ row.text = Sentinel /\ secret # None
          /\ vault' = [vault EXCEPT ![v] = secret]
          /\ raced' = IF Erases(v) = {} THEN raced ELSE raced \union {v}
          /\ Do(c, Setting("insert", v, Sentinel, TRUE, rest))
       \/ /\ row.secret /\ row.text = Sentinel /\ secret = None
          /\ Do(c, Idle) /\ UNCHANGED << vault, raced >>
       \/ /\ row.secret /\ row.text \notin {Sentinel, None}
          /\ StoreSecret(c, v, row.text, rest)
       \/ /\ ~row.secret \/ row.text = None
          /\ Do(c, Setting("find", v, row.text, row.secret, rest))
          /\ UNCHANGED << vault, raced >>
    /\ UNCHANGED << names, active, rows, made, sets, spent, blurred >>

EnvNext ==
    \E c \in Callers :
      \/ \E e \in Envs, n \in Names : CreateEnvironment(c, e, n) \/ FindSource(c, e, n)
      \/ \E e \in Envs : DeleteEnvironment(c, e) \/ InsertCopy(c, e)
      \/ \E e \in {x \in Envs : names[x] # None} \union {None} : ClearActive(c, e)
      \/ \E v \in Vars, text \in Texts \union {None}, secret \in BOOLEAN : SetVariable(c, v, text, secret)
      \/ \E v \in Vars : FindDoomed(c, v)
      \/ Activate(c) \/ FindRow(c) \/ UpdateRow(c) \/ InsertRow(c)
      \/ DeleteRow(c) \/ EraseSecret(c) \/ ListSource(c) \/ CopyNext(c) \/ Fail(c)

EnvSpec == EnvInit /\ [][EnvNext]_envVars

-----------------------------------------------------------------------------
(* Properties.                                                             *)

\* get_active_environment_id takes any row with is_active = 1 for the active
\* environment.  Whatever statements fail in between, there are never two such
\* rows, unless calls of set_active_environment overlapped; and the next call
\* that has the table for itself mends that.
OneActive == Cardinality(active) <= 1 \/ blurred

\* A row with the sentinel finds its secret in the keychain, however its call and
\* those around it were cut short: a secret is stored before its row and erased
\* after it.  Set apart: the same variable set and deleted at the same time.
SecretRowsResolve ==
    \A v \in Vars \ raced :
      rows[v].secret /\ rows[v].text = Sentinel => vault[v] # None
=============================================================================
