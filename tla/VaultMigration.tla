--------------------------- MODULE VaultMigration ---------------------------
(***************************************************************************)
(* vault_config/migration.rs on top of the connections store: connections, *)
(* variables and preferences of the old database are put through the       *)
(* stores of the new vault, one by one, by one task, while users already   *)
(* work with the vault.  A failure ends the migration where it is, and it  *)
(* may be run again.  A variable is one value here; what set_var does with *)
(* a secret is EnvironmentsStore's matter.                                 *)
(***************************************************************************)
EXTENDS ConnectionsStore, Sequences

CONSTANTS
    Migrator,   \* the caller run_migration is
    Tables,     \* connections the database may have, each in name order:
                \* [name, kind, whole, pw], whole if no required field is missing
    OldVars,    \* variables of the database in order: [var, value, secret]
    Sentinel,   \* KEYCHAIN_SENTINEL, a password column for "it is in the keychain"
    Edits,      \* values users give variables
    MaxRuns,    \* bound on the migrations started
    MaxEdits    \* bound on the edits of variables

ASSUME MigratorIsCaller == Migrator \in Callers /\ Sentinel \in Passwords

\* connections.name is UNIQUE.
ASSUME TablesAssumption ==
    \A t \in Tables :
       /\ t \in Seq([name : Names, kind : Kinds, whole : BOOLEAN, pw : Passwords \cup {None}])
       /\ \A i, j \in 1..Len(t) : t[i].name = t[j].name => i = j

VARIABLES
    rows,       \* the connections of the database
    mig,        \* [pc, at]: "off", or the phase and the row it is at
    vars,       \* [variables -> value or None]: envs/<name>.toml
    prefs,      \* [ui] of user.toml: "default" or "migrated"
    runs,       \* migrations started
    edits,      \* edits made
    made        \* history: connections as the migration left them

migVars == <<rows, mig, vars, prefs, runs, edits, made>>
all == <<connVars, migVars>>

Off == [pc |-> "off", at |-> 0]
Vars == {OldVars[i].var : i \in 1..Len(OldVars)}
Enter(pc, at) == mig' = [pc |-> pc, at |-> at]

\* The i-th row or variable, or the first of the next phase if there is none.
ToVariable(i) == IF i <= Len(OldVars) THEN Enter("vars", i) ELSE Enter("prefs", 1)
ToRow(i) == IF i <= Len(rows) THEN Enter("conns", i) ELSE ToVariable(1)

NextRow == ToRow(mig.at + 1)
NextVar == ToVariable(mig.at + 1)

MigInit ==
    /\ Init
    /\ rows \in Tables
    /\ mig = Off
    /\ vars = [v \in Vars |-> None]
    /\ prefs = "default"
    /\ runs = 0 /\ edits = 0
    /\ made = {}

\* run_migration: lists the rows and goes through them in order.
StartMigration ==
    /\ mig = Off /\ runs < MaxRuns
    /\ runs' = runs + 1
    /\ ToRow(1)
    /\ UNCHANGED <<connVars, rows, vars, prefs, edits, made>>

\* legacy_to_input: the password as the column has it.
Password(row) == row.pw

\* One row through ConnectionsStore::create.
MigrateConnection ==
    /\ mig.pc = "conns"
    /\ LET row == rows[mig.at] IN
       /\ row.whole
       /\ Create(Migrator, row.name, row.kind, Password(row))
       /\ Enter("creating", mig.at)
       /\ made' = made \ {row.name}
    /\ UNCHANGED <<calls, rows, vars, prefs, runs, edits>>

\* A name that is there already counts as skipped.
SkipConnection ==
    /\ mig.pc = "conns"
    /\ conns[rows[mig.at].name] # None
    /\ NextRow
    /\ UNCHANGED <<connVars, rows, vars, prefs, runs, edits, made>>

\* A row that cannot be built, for want of a user name for instance, which the
\* database did not require, ends the migration.
RefuseConnection ==
    /\ mig.pc = "conns"
    /\ conns[rows[mig.at].name] = None
    /\ ~Buildable(rows[mig.at].kind, rows[mig.at].whole)
    /\ mig' = Off
    /\ UNCHANGED <<connVars, rows, vars, prefs, runs, edits, made>>

\* The steps of that create: it succeeds with its last, fails with the others.
CreateGoesOn == (Store(Migrator) \/ ReadBase(Migrator)) /\ UNCHANGED migVars

CreateSucceeds ==
    /\ Persist(Migrator)
    /\ NextRow
    /\ made' = made \cup {rows[mig.at].name}
    /\ UNCHANGED <<rows, vars, prefs, runs, edits>>

CreateFails ==
    /\ StoreFails(Migrator) \/ PersistFails(Migrator)
    /\ mig' = Off
    /\ UNCHANGED <<rows, vars, prefs, runs, edits, made>>

\* create_env, then set_var with the value of the row: it replaces what is there.
\* A secret whose keychain read failed is listed as "", which keeps what is there
\* and is refused where nothing is.
MigrateVariable ==
    /\ mig.pc = "vars"
    /\ LET row == OldVars[mig.at] IN
       \/ /\ vars' = [vars EXCEPT ![row.var] = row.value]
          /\ NextVar
       \/ /\ row.secret /\ vars[row.var] # None
          /\ NextVar /\ UNCHANGED vars
    /\ UNCHANGED <<connVars, rows, prefs, runs, edits, made>>

VariableFails ==
    /\ mig.pc = "vars"
    /\ mig' = Off
    /\ UNCHANGED <<connVars, rows, vars, prefs, runs, edits, made>>

\* set_ui with what app_config has, defaults for the rest, over whatever is there.
MigratePrefs ==
    /\ mig.pc = "prefs"
    /\ mig' = Off
    /\ prefs' = "migrated"
    /\ UNCHANGED <<connVars, rows, vars, runs, edits, made>>

PrefsFail ==
    /\ mig.pc = "prefs"
    /\ mig' = Off
    /\ UNCHANGED <<connVars, rows, vars, prefs, runs, edits, made>>

\* What users do meanwhile: calls on the connections store, edits of the rest.
UserCall(p) ==
    /\ Counted
    /\ \E n \in Names :
          /\ \/ \E kind \in Kinds, pw \in Typed \cup {None} : Create(p, n, kind, pw)
             \/ \E kind \in Kinds, complete \in BOOLEAN :
                   \/ \E pw \in Typed \cup {None} : Update(p, n, kind, complete, pw)
                   \/ UpdateClear(p, n, kind, complete)
             \/ Delete(p, n)
          /\ made' = made \ {n}
    /\ UNCHANGED <<rows, mig, vars, prefs, runs, edits>>

UserStep(p) == Steps(p) /\ UNCHANGED migVars

Edit ==
    /\ edits < MaxEdits /\ edits' = edits + 1
    /\ \E v \in Vars, x \in Edits : vars' = [vars EXCEPT ![v] = x]
    /\ UNCHANGED <<connVars, rows, mig, prefs, runs, made>>

Crash ==
    /\ Restart
    /\ mig' = Off
    /\ UNCHANGED <<rows, vars, prefs, runs, edits, made>>

Quiet == mig = Off /\ runs = MaxRuns /\ calls = MaxCalls /\ \A p \in Callers : At(p, "idle")

MigNext ==
    \/ StartMigration \/ MigrateConnection \/ SkipConnection \/ RefuseConnection
    \/ CreateGoesOn \/ CreateSucceeds \/ CreateFails
    \/ MigrateVariable \/ VariableFails \/ MigratePrefs \/ PrefsFail
    \/ \E p \in Callers \ {Migrator} : UserCall(p) \/ UserStep(p)
    \/ Edit \/ Crash
    \/ Quiet /\ UNCHANGED all

MigSpec == MigInit /\ [][MigNext]_all

MigTypeOK ==
    /\ TypeOK
    /\ rows \in Tables
    /\ mig.pc \in {"off", "conns", "creating", "vars", "prefs"}
    /\ mig.at \in 0..(Len(rows) + Len(OldVars))
    /\ vars \in [Vars -> Edits \cup {None} \cup {OldVars[i].value : i \in 1..Len(OldVars)}]
    /\ prefs \in {"default", "migrated"}
    /\ runs \in 0..MaxRuns /\ edits \in 0..MaxEdits
    /\ made \subseteq Names

\* A connection the migration has made, and no one has touched since, logs in
\* with the password its row had.  Rows whose password is in the keychain are the
\* exception: the column says only that, and the migration hands that on.
MigratedKeepsPassword ==
    \A i \in 1..Len(rows) :
       LET row == rows[i] IN
       row.name \in made /\ row.pw # Sentinel /\ row.kind = "server"
       /\ ~Befell(row.name, {"overlap"})
       => Resolved(row.name) = row.pw

\* Every connection logs in with the password it was last given, by a user or from its
\* row: neither an edit that is about something else nor its failure, nor a migration
\* that is stopped and run again, changes it.
PasswordsKept == [][EditKeepsPassword /\ MigratedKeepsPassword']_all

\* Running the migration again on a vault in use changes nothing a user has set
\* (migration.rs:13: "rerunning on an already-populated vault is safe").
RerunKeepsEdits ==
    [][runs > 1 /\ mig.pc = "vars" /\ mig' # mig => \A v \in Vars : vars[v] \in Edits => vars'[v] = vars[v]]_all
=============================================================================
