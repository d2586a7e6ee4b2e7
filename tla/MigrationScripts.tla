--------------------------- MODULE MigrationScripts ---------------------------
(***************************************************************************)
(* The sixteen scripts of src/migrations as run_migrations runs them, and  *)
(* the databases that the releases before it left behind.                  *)
(***************************************************************************)
EXTENDS DbMigrate, SequencesExt

\* `strict` is `?` in the loop over the script's statements.
Statement(m, strict, op, table, part, needs) ==
    [m |-> m, strict |-> strict, op |-> op, obj |-> <<table, part>>, needs |-> needs]

NewTable(m, strict, t) == Statement(m, strict, "create", t, Table, {})
NewTables(m, names) == [i \in DOMAIN names |-> NewTable(m, TRUE, names[i])]
Index(m, strict, t, i, columns) ==
    Statement(m, strict, "create", t, i, {<<t, Table>>} \union ({t} \X columns))

\* ALTER TABLE ... ADD COLUMN fails on every start but the first: its error is ignored.
Column(m, t, c) == Statement(m, FALSE, "alter", t, c, {<<t, Table>>})

Initial ==
    NewTables(1, <<"app_config", "connections", "environments", "env_variables", "block_results">>)
    \o <<Statement(1, TRUE, "createCache", Cache, "fk", {})>> \o NewTables(1, <<"search_index">>)

Chat ==
    <<NewTable(3, TRUE, "sessions"), Index(3, TRUE, "sessions", "updated", {}),
      NewTable(3, TRUE, "messages"), Index(3, TRUE, "messages", "session", {})>>
    \o NewTables(3, <<"attachments", "tool_calls", "usage_stats">>)

Permissions ==
    <<NewTable(4, FALSE, "tool_permissions"), Index(4, FALSE, "tool_permissions", "lookup", {}),
      Column(4, "messages", "cache_read_tokens")>>

AuditLog ==
    <<NewTable(5, FALSE, "query_log"), Index(5, FALSE, "query_log", "connection", {}),
      Index(5, FALSE, "query_log", "created", {}), NewTable(5, FALSE, "block_execution_locks")>>

\* Left out: 006 tries to drop an automatic index, which SQLite refuses, and 008
\* updates rows; neither touches the schema.
SchemaName ==
    <<Column(6, Cache, "schema_name"), Index(6, FALSE, Cache, "unique", {"schema_name"})>>

RunHistory == <<NewTable(9, TRUE, "block_run_history"), Index(9, TRUE, "block_run_history", "block", {})>>
Examples == <<NewTable(11, TRUE, "block_examples"), Index(11, TRUE, "block_examples", "block", {})>>

\* 013 behind the Rust guard: rebuild schema_cache without its foreign key.
DropFk ==
    <<Statement(13, TRUE, "guard", Cache, "fk", {}),
      Statement(13, TRUE, "dropIndex", Cache, "unique", {}),
      Statement(13, TRUE, "rename", Cache, Table, {CacheTable}),
      Statement(13, TRUE, "createNew", Cache, Table, {}),
      Statement(13, TRUE, "copy", Cache, "rows", {CacheTable, OldName}),
      Statement(13, TRUE, "dropOld", Old, Table, {OldTable}),
      Index(13, TRUE, Cache, "unique", {"schema_name"})>>

Alias == <<Column(14, "block_results", "alias"),
           Index(14, FALSE, "block_results", "file_alias_time", {"alias"})>>

\* The statements in the order of run_migrations.
Migrations ==
    Initial \o <<Column(2, "env_variables", "is_secret")>>
    \o Chat \o Permissions \o AuditLog \o SchemaName \o <<Column(7, "connections", "is_readonly")>>
    \o RunHistory \o <<NewTable(10, TRUE, "block_settings")>> \o Examples
    \o <<Column(12, "block_run_history", "plan")>> \o DropFk \o Alias
    \o <<NewTable(15, TRUE, "block_schema_cache"), NewTable(16, TRUE, "feature_usage_stats")>>

\* What the release with the first v migrations made of an empty file.
Release(v) == FoldLeft(LAMBDA d, s : IF s.m <= v THEN Effect(d, s) ELSE d, {}, Migrations)

\* Each, with rows in schema_cache or without.
Released == {Release(v) : v \in 0..16} \union {Release(v) \union {CacheRows} : v \in 1..16}

ASSUME LatestRelease == Schema = Release(16)
=============================================================================
