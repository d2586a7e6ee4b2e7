# A TLA+ development of httui-core

httui-core is the engine of a notes application whose Markdown files hold
executable HTTP and database blocks. This directory models the parts of it
whose correctness depends on the order in which things happen (tasks that
interleave between two awaits, processes that die between two writes, deadlines,
sweeps and caches), and the passes over text that decide what is executed. The modules are translated from the Rust sources under
`src/src` (the crate) and `src/migrations`; TLC checks them on small instances
and TLAPS proves the most important properties for every instance.

Contents: 1 the components, 2 the modules, 3 the runs, 4 the proofs,
5 divergences found, 6 what is not modelled, 7 the plan.

`PROJECT.json` is the index: per definition the source lines it stands for, per
run its properties, per property a plausible bug of the code that breaks it, and
the list of hazards (places of the code that are hard to test) with the
properties aimed at them.

## 1. The components

For each component: the state it keeps, its operations, how it meets the others,
what is hard about it, and what makes it correct.

**Connection pool cache** (`db/pool_manager.rs`, `db/lookup.rs`). State: a map
from cache key to pool entry behind an async RwLock; the key is the connection id,
plus a suffix when a session overrides host or port. Operations: `get_pool`,
`get_pool_with_override`, `invalidate`, `cleanup_expired`, `get_query_timeout`,
`test_connection`. Used by SQL execution, by the schema cache and by the
application when a connection record changes; it reads records through the
`ConnectionLookup` trait and reports through `StatusEmitter`. Hard: the lock is
dropped between the miss, the lookup, the connect and the insert, and between the
snapshot and the removal of a clean-up. Correct when a key never holds a pool that
dials something else than the key stands for, an invalidated pool does not come
back, a clean-up removes what expired and nothing it should not, and the status
shown agrees with the cache.

**SQL execution** (`executor/db/`). No state of its own but the `query_log` table.
`execute_with_cancel` gets a pool, settles a timeout, runs the statements of a
script in one `select!` of cancellation and deadline, logs and returns. Hard: three
things may become ready in one poll, a statement may fail with others to follow, the
pool may be evicted under the run. Correct when the log row tells what the caller
was told, a cancelled run runs nothing it had not started, and every run ends.

**Block runner** (`runner.rs`, `references.rs`). State during one run: the results
by alias, the aliases in progress, the depth of the recursion. `execute` runs a
block after the blocks above it that it refers to. Hard: repeated aliases,
references that point down, to each other or to the block itself, a depth limit,
failures half way. Correct when a block runs at most once, after everything above it
that it needs, nothing unneeded runs, and the run ends.

**Block result cache and execution locks** (`block_results.rs`, `block_schema.rs`).
Three tables: results by file and hash, inferred shapes by alias, advisory locks
with a time stamp and no owner. Several panes, sessions and processes use them. Hard:
crashes that leave locks, runs that outlive the sweep of stale locks, two
statements per save. Correct when a lock keeps runs of one block apart as long as
it promises, is freed in the end, and look-ups give the newest result and the
shape of a success.

**Environments store** (`vault_config/environments_store/`, `secret_resolver.rs`,
`db/keychain.rs`). One TOML file per environment, secrets in the OS keychain and
references to them in the files, a cache of resolved secrets in memory, the active
environment in `user.toml`. Operations: create, delete, rename, set and delete a
variable, set the active one, resolve. Hard: every call touches two or three of
these stores one after the other, each may fail, the process may die between
them, and other tasks may resolve or write meanwhile. Correct when references
resolve, the cache is fresh, the active environment exists, and a deleted
environment stays deleted.

**Migrations of the internal database** (`db/mod.rs`, `migrations/`). `init_db` runs
sixteen scripts, statement by statement without a transaction, at every start of each
of three programs that share the file. Some errors end the start, others are ignored; one
script is behind a question to the catalogue. Hard: crashes between two statements,
two starts at once, a database of any older release. Correct when a start that says
it succeeded leaves a complete schema, rows survive the rebuild of a table, and a
later start can complete what an earlier one left.

**Connections store, user and workspace stores** (`vault_config/*_store.rs`). State: a TOML file each, cached by modification time, read, changed and
rewritten whole; connections have a password in the keychain. Hard: two writers of
`user.toml`, lost updates, modification times taken after the write, keychain and
file changed one after the other.

**Atomic file writes and override merging** (`atomic.rs`, `merge.rs`). A temporary
file renamed over the target, and a deep merge of `.local` files. Correct when a
reader never sees half a file.

**Migration to file storage** (`migration.rs`). Copies connections and environments
of the database into the stores above, with a backup. Hard: stopped half way and run
again.

**Tables of the internal database changed by several statements**: connections
(`db/connections.rs`), environments (`db/environments.rs`), the vault registry
(`vaults.rs`, `config.rs`), chat sessions and permissions (`db/chat.rs`), the schema
cache (`db/schema_cache*.rs`) and the history of runs (`block_history/`). None of
their operations is a transaction, the passwords and secrets among them are in the
keychain, and three programs share the file. Hard: readers, other calls, failures and
crashes between two statements. Correct when every prefix of a call is
harmless or mended by the next one.

**Run bodies and captures** (`run_bodies.rs`, `captures_cache.rs`). Files per run
and per note, through temporary names that two writers share. Correct when a file
under its final name is one write's, whole.

**Vault folder and notes on disk** (`vault_config/create.rs`, `scaffold.rs`,
`gitignore.rs`, `fs/mod.rs`). A new vault is a few files, each written if it is not there;
a note is created, renamed and deleted after a look at whether its name is taken.
Users save files in the folder meanwhile. Correct when a scaffold, also the second one
after a failure, leaves a complete vault, and no text of a user is lost to a call that
was not told to change that file.

**HTTP execution** (`executor/http/`). State: a cache of clients by their flags. A
response is streamed as chunks, under cancellation, a deadline and a cap on the body.
Correct when the chunks are a header, contiguous body chunks and at most one end, the
request says what its block says, and every call ends.

**SQL scanner and pooled execution** (`db/sql_scanner.rs`, `db/pool*.rs`,
`explain/prefix.rs`): splits a script, counts placeholders, deals out the bound values,
refuses some statements, wraps a query to fetch a page, asks for a plan; the rest
converts driver rows. Correct when a statement is executed as written, with its own
values, and changes data only if it was to.

**Block parsing and rendering** (`blocks/`): finds the fenced blocks of a note,
parses their parameters, writes them back, rewrites the JSON blocks of older
releases, exports them. Pure, and correct when what is read is what was written.

**The rest** keeps no state that several steps or actors share: per-block settings
and examples, secret backends, the trees made of explain plans, the git wrapper,
frontmatter, preflight and tags, searches and templates, crash log and feature usage.

How they interact. A run of a note goes from the runner through the SQL or HTTP
executor; the SQL executor goes through the pool cache, which looks its connection up
in the connections store and its password in the keychain. Block results, locks,
history and bodies are written by the callers of the runner. The environments
store, the connections store and the user store share the keychain and
`user.toml`. Everything in the internal database is created by its migrations. What a
run executes comes from the note: the block parser reads it, placeholders are replaced,
the scanner splits SQL into statements.

## 2. The modules

| module | models | how |
|---|---|---|
| `PoolManager` | the pool cache | one action per critical section of the lock |
| `DbExecutor` (extends `PoolManager`) | SQL execution on top of it | `task[t]` is the caller's `get_pool`, `run[t]` its execution |
| `Runner` | one run of a block | the recursion as an array of frames |
| `BlockResults` | results, shapes, locks of one note | one action per SQL statement |
| `EnvironmentsStore` | environments of one vault | one action per access to file, keychain, cache |
| `ConnectionsStore` | connections of one vault | the same |
| `VaultMigration` (extends `ConnectionsStore`) | the migration to file storage | row by row, through the store's own actions |
| `ConfigStores` | the user store, the workspace store, `set_active_env` | one action per access to a file or the cache |
| `DbMigrate` | the migrations of the internal database | one action per SQL statement, for any script that rebuilds `schema_cache` like 013 |
| `MigrationScripts` (extends `DbMigrate`) | the sixteen scripts and the databases of earlier releases | constants only: a sequence of statements |
| `SqliteConnections`, `SqliteEnvironments`, `ChatStore`, `SchemaCache`, `RunHistory`, `VaultRegistry` | one part of the internal database each | one action per SQL statement and keychain access |
| `RunFiles` | run bodies and captures | one action per open, piece, rename and removal |
| `VaultFolder` | creating a vault, calls on its notes | one action per access to the folder |
| `ChunkWire` | what a listener of a streamed request is promised | the abstract specification |
| `HttpExecutor` | one streamed request per call | one action per `select!` and per chunk; implements `ChunkWire` |
| `SqlScanner`, `Substitution`, `NoteFences`, `BlockText`, `HttpNormalize` (extends `BlockText`) | the passes over text | one action per character, placeholder, line or block |
| `DbScript` | what becomes of the statements of a script | one action per statement |
| `InternalDb` | the parts of the internal database, the files beside it and the folder of a vault | composes the parts of the internal database, `RunFiles` and `VaultFolder`, which share no state |
| `MC...` | finite instances | constants and symmetry; `MCText` composes several modules |
| `DbExecutorProofs` (with the pool cache under it), `RunnerProofs`, `BlockResultsProofs`, `ConfigStoresProofs`, `HttpExecutorProofs`, `InternalDbProofs`, `EnvironmentsStoreProofs`, `MigrationProofs` (`VaultMigration`, with the connections store, and `DbMigrate`) | theorems about the module of that name | section 4 |

`InternalDb` and `MCText` each hold several modules whose state is disjoint in the code
(tables and files of their own, different texts). A behaviour picks one of them at the
start (`part`) and only that one moves; the product of the others would add states and
no behaviour.

**PoolManager.** `pools` is the map; a cache key is a pair of the connection and the
suffix, and the suffix writes an absent field as `-` like `cache_suffix` does, so that
its injectivity is a question and not an assumption. `store` is the world behind
`ConnectionLookup`: any record may be edited, deleted or made again at any moment,
counted by a revision. A call is `GetHit`, or `GetMiss`, `Lookup`, `Create`, `Insert`,
`EmitConnected` with `Fail` for its early returns; every `await` and every
release of the lock is a boundary between actions. `Release` is the caller dropping
its pool. `Invalidate` and its late event are two actions, `cleanup_expired` three
(snapshot, decision, removal). `overtaken` and `flushed` are history: which
fill straddled an invalidation, which revision was flushed. No action depends on them.

**DbExecutor.** `Begin` enters `get_pool_with_override`; `FillStep` is the pool's own
action with the executor's error return; `StartStatements` settles the timeout and the
early refusals; the poll of the biased `select!` is three actions whose guards
give its order (token, statements, deadline); `WriteLog` and `Return` are the
tail. The server decides how many statements a poll completes and which fail.
What the statements are is `DbScript`'s matter.

**Runner.** A note is a function from lines to blocks; an alias stands for the part of
a placeholder before the first dot, numbered in the order in which
`extract_placeholders` sorts. `Descend` and `Start` are the call of
`execute_block_recursive` with its checks (`Refusal`) in the code's order, `RunTop` and
`FailTop` the executor's answer. Which results a block reads is modelled (`used`); how
a value gets into a string is `Substitution`'s matter.

**BlockResults.** A caller takes the lock of a hash, runs, saves (the upsert, then the
shape), releases; it may die at any point. Ages run up to one tick past the 60 seconds
of the sweep, where all ages are alike. The upsert keeps the row's id, as
`ON CONFLICT DO UPDATE` does, since the look-up by alias orders by it. `stamp`, `good`,
`reran` and `late` are history.

**EnvironmentsStore.** A file is what each key is: nothing, a plain value, or a
reference to a keychain address. A call reads its file when it begins and writes what
it made of that at `Persist`, whatever the file has become. Each access to the keychain
may fail where the code passes the failure over (deletions, moves) or returns it
(storing a new secret); a disk write may fail; `Restart` ends all calls and
empties the cache. `marks` is history: environments whose writes overlapped, of which a
removal was cut short (`Removes`, `Removing`), that were renamed, deleted, or raced with a
resolver; the properties say under which of these the store still keeps its promise. A
restart within a call that creates, sets or keeps is no exception.

**ConnectionsStore and VaultMigration.** An entry of the file is its kind and what its
password field is: empty, plain text, or the reference to the connection's own
keychain entry. A call reads the file, changes the keychain as far as its change of
the password asks for it, and writes the file whole; each access may fail and the
process may die between any two; only an update that clears the password (`Clears`) is set
apart when it fails or dies. The migration is one caller of the store (`Migrator`)
that takes the rows of the database in order, skips names the file has, ends at the first
error, goes on to variables and preferences, and may be started again; meanwhile a user
works on the same file. A password column holds plain text or the sentinel, as both
occur in the database.

**ConfigStores.** A file is a function from sections to values, its modification time a
counter, for `write_atomic` renames a finished temporary file over it. The two stores are
one module: a file of `Users` has no override and its cache is refilled by a write, any
other has a `.local` override and its cache is emptied by a write. A call reads the
modification times, then the cache, then the file and the override, then fills the
cache or writes the file and settles the cache, one step each. `WriteOutside` is an
editor or another process. Deleting the file, two changes within the resolution of the
file system's clock, and a clock set back are left out: both stores rely on the time
telling two contents apart. `stamped`, `quiet` and `sound` are history.

**DbMigrate and MigrationScripts.** `Script` is the sequence of statements in the order of
`run_migrations`; a statement has what it needs, what it makes, and whether its error ends the
start (`strict`). It is a constant: `ScriptAssumption` says what the proofs use of it, that 013
rebuilds `schema_cache` in its seven steps and that every other statement makes something of
what earlier ones made. `MigrationScripts` gives the scripts of the repository, and TLC checks
that they are so. `Runs` and `Effect` are SQLite's answer to it: `IF NOT EXISTS` asks for the
name alone, a rename takes indexes along, an index on an absent column is refused. The
initial states are the databases of all seventeen releases, from the empty file on
(`Released`), each the outcome of the scripts of its time.
Two statements that never touch the schema are left out (an index that SQLite
refuses to drop, an update of rows). `hurt` is history: a start was cut short, met
a fault of the disk, or met another inside the rebuild of `schema_cache`.

**The parts of the internal database.** In each, `call` (`save`, `op`, `chat`,
`record`) says which statement a task's call is at; a statement reads and writes its
table in one step, may fail, and the rest of the call is then not run. Identifiers are
given out once, as UUIDs or `AUTOINCREMENT` are, except for the ids of permission rules,
which SQLite gives out again.
- `SqliteConnections`: an update reads the row, puts a new password in the keychain,
  validates, writes every column, and reads the row back for its answer (`Fetch`); when
  that fails it reports an error for what is stored. `asked` is what the last calls that
  wrote the row gave a connection; `spoilt` are the fields that are no longer so.
- `SqliteEnvironments`: environments, the active one (cleared, then set) and variables, whose
  secrets are in the keychain under a sentinel; one environment is left by an older
  release, with a secret in plain text that is moved when it is read.
- `ChatStore`: a message takes the highest turn plus one and is inserted by a second
  statement; a permission is looked up among the "always" rules and then among the
  session's. `held` collects the answers that were right while the check was under way.
- `SchemaCache`: a save deletes a connection's rows and inserts the columns one by one,
  each with the second it was written in; a reader takes the rows younger than the TTL.
- `RunHistory`: an insert takes the time, writes, reads the retention (an unusable one is
  the default) and deletes all but the newest by time; the clock may be set back.
- `VaultRegistry`: the list of vaults is one value, read and written whole, here a set, for
  nothing depends on the order they were added in; the active vault is another. `torn`
  are the vaults that are off the list and may still be selected with nobody to look.

**RunFiles.** A file is an inode of pieces, a name points to it, and a temporary name is a
function of the final one: opening truncates the other writer's inode, a rename moves
it. Trims, deletions and renames of an alias's directory go on meanwhile. `shared` is
history: inodes two writers had open.

**VaultFolder.** A file's text is told apart by who wrote it: the program or a user. The
calls of `create_new_vault`, of `scaffold_new_vault` with its ignore file, and of the notes
are a look and an access each; users save any file at any moment, in place or by replacing
it. `write_note` opens the file, empties it and fills it, as `std::fs::write` does: `opened`
is the name that an open file goes by, which a rename changes and which is lost to it in the
trash or when another file takes its name. A text that is filled in over a longer one is
taken to replace it whole.

**HttpExecutor and ChunkWire.** A request is what the block asks: rows of headers, parts of
a body, some of them files read under the token, and the flags that choose a client. The
headers that are sent are a set, each with the place of its row: what is asked of them is
which there are, and only rows of one key have an order that matters.
Every `await` is a biased `select!` with the token first, cut into what the select takes
and what the code then does. The server's headers, pieces and silence, lost connections,
redirects and timeouts are the environment. `wire[c]` is the sequence of chunks of a call;
`KeepsWireOrder` says that it moves as `ChunkWire` allows. The mapping is the identity on
`wire`: everything else of `HttpExecutor` is hidden.

**The passes over text.** Each has the text it reads as a sequence of pieces of which it is
known what they are meant to be, runs the code's loop over the characters, lines or
tokens, and is compared at its end with a definition that looks at the pieces.
`SqlScanner`: lexemes (code, strings, escapes, comments, unclosed ones) against the
scanner's four modes. `Substitution`: the placeholders are collected once, then replaced
one after the other in the whole string, against replacing them all at once.
`NoteFences`: a line is its fence, against CommonMark's reading of code blocks.
`BlockText`: a block is read, written, read and written again. `HttpNormalize`: the request
of a JSON block against the request read from the text it is replaced by. `DbScript`:
statements are words, placeholders and remarks; the database is one table of numbered
rows; the values each statement is given, the page it answers with and whether it changed
the table are compared with what was written.

## 3. The runs

| run | question | bounds |
|---|---|---|
| `pool_cache` | do concurrent callers, edits, invalidations and clean-ups keep the cache right? | 2 callers, 1 connection, 2 records that differ in host and TTL, overrides of the host, 1 tick, 1 edit |
| `db_execution` | does an execution keep its promises whatever becomes of its pool? | 1 execution, scripts up to 2 statements, timeouts 1 and 2, a log of 1 row |
| `runner` | is a run right on every small note? | notes of 3 and 4 blocks, depth limit 2 |
| `block_results` | do locks and rows survive crashes and slow runs? | 2 callers, 2 hashes, 1 alias, 2 saves, stale after 1 tick |
| `environments` | do files, keychain and cache agree? | 2 tasks, 2 names, 1 key, 2 secrets, 5 writing calls |
| `connections` | does a connection keep its password, under users and the migration? | 1 user and the migration, 2 names, 2 tables, 3 files found, 2 calls, 2 runs of the migration, 1 edit |
| `migration_rerun` | does a second migration keep edits? (no) | as above |
| `config_stores` | does a cached file stay what is on disk, and a setter to its section? | 2 tasks, 2 sections; 3 writes of `user.toml`; 2 of `workspace.toml` and 1 of its override |
| `db_migrate` | does every start leave a complete database? | 2 processes, 3 starts, 1 fault, 17 releases |
| `internal_db` | what is left of calls of several statements and accesses that meet, fail or stop? | 2 tasks; per part 2 to 4 calls on 2 objects |
| `http_execution` | does a streamed request keep its promise, and end? | 2 calls, every path of building a request, bodies up to the cap of 2, 1 redirect |
| `text` | is what is read what was written? | all texts of up to 4 lexemes, 3 pieces, 4 lines, 4 lines of a block, 2 statements |

**pool_cache** (1.7 million states). `OverrideIsolation`: keys and callers get pools
that dial what they stand for. `StaleOnlyIfOvertaken`: an invalidated record comes back
in one way only, through a fill that had read it before the invalidation and
inserted after. (The code has that way; the property says it has no other.)
`CleansUpExpired`: what was expired at a clean-up's snapshot is gone, and what it evicts
is expired or was touched meanwhile. Two callers are the fewest
that miss together; one edit makes an old and a new record; a TTL of 0 and of 1 with
one tick put an entry before, on and past its boundary. The host is overridden, the port
not: the two fields are handled alike, and the proof covers both.

**db_execution** (196 000 states). `LogTellsOutcome`: a row says success exactly if
every statement was run to an answer. `CancelStops`: once the token has fired, also
before the pool was there, no answer is taken and the run ends as cancelled. `RunEnds`:
every run comes to its end. Two statements are the fewest with a failure followed by
another statement. The interplay of several callers is `pool_cache`'s.

**runner** (91 000 states). `ExecutedInOrder`: each block once, after every block above
it that it refers to, whose result it reads. `RunTerminates`: whatever circles the
references make, and never by the error for circles. All notes of three blocks with
repeated or absent aliases and all references, all orders of three distinct aliases, and
chains of four that pass the depth limit of 2 (50 in the code: only its being reached
matters), each with a block without parameters or without.

**block_results** (214 000 states). `LockProtects`: until a run outlives the sweep's
limit it holds its lock and runs alone. `LockFreed`: a lock is always freed, whoever
died. `LatestUnlessRerun`: the look-up by alias gives the last write as long as no hash was
run again. Two hashes are an edited block and its old text. There is no symmetry, since
the run checks liveness.

**environments** (647 000 states). `ReferencesResolve`: a secret's reference names an
entry of its own environment that is there. `CacheFresh`: a cached secret is the
keychain's. Each outside the overlaps, removals cut short and renames it names.
Five writing calls are enough for create, set, rename, create again and set again.

**connections** (507 000 states). `ReferencesResolve`: a reference has its password in the
keychain, whatever fails and wherever a process dies, except where a call clearing the
password failed or died, or calls overlapped. `PasswordsKept`: a connection logs in with what a
user or its row last gave it: no edit of something else, no failure and no second
migration changes that. The tables hold a plain row with one whose password is
in the keychain, or with one that cannot be built and so ends the migration; the files
found are empty, have a plain password, or have the second name in use. **migration_rerun**
checks `RerunKeepsEdits` on the same instance, and TLC shows an edit of a variable
overwritten.

**config_stores** (669 000 states). `CacheCoherent`: a cache entry that a load would answer
with is what it would read. `SettersKeepOthers`: a setter that no other write came in
between changes its section alone, and an override never reaches the committed file. Both
except for a persist of the user store that
took the time of another write. Two writes overlap and a third shows what the cache made
of them; one edit of the
override is enough to be written back, or cached too early. The stores share no
state, so a behaviour uses one of them (constraint `OneStore`).

**db_migrate** (434 000 states). `WholeUnlessHurt`: the ignored errors hide nothing, from
any release and however starts overlap outside the rebuild; and a start on its own
mends what crashes left. `FailsOnlySetAside`:
a start on its own fails in one state only, the one in which `schema_cache_old` was left
aside. Three starts are
two that overlap and one that mends; two crashed starts and a third are the fewest
that show that failure.

**internal_db** (707 000 states). `OneActive`: at most one environment is active but for
overlapping calls. `SecretRowsResolve`: a row with the sentinel has its keychain entry.
`TurnsApart`: a message has a higher turn than those before it, unless another came
between its two statements. `AnswerHeld`: the answer of a permission check was right at one
of its statements. `SchemaWhole`: a cached schema is whole or absent. `LeavesForNewer`: a
trim drops an entry only for newer ones. `ActiveRegistered`: the active vault is registered
unless its removal has not looked at it yet or never will, an older list was written over
it, or it was removed between the two writes that select it; each is forgotten when the
vault is on the list again. `FilesWhole`: a file under its final name is one
write's, whole. `EditsKept`: a connection has, field by field, what the last calls
that wrote its row gave it, unless the field was put back or its password left behind by
another, until it is written again; and a sentinel never stands for nothing. `VaultKept`:
after a scaffold that succeeded the vault is complete, and no text of a user is lost to a
call that was not told to change that file, had not looked before it was there, or fills
a note that was renamed while it had it open. Each property names the overlaps and failures for which it does
not hold. Two tasks are the fewest whose calls meet; two objects (connections,
environments, vaults, aliases, notes) are one that is changed and one that must not be, and
so are two names, hosts and passwords of connections;
the calls are enough for one that leaves something and one that meets it.

**http_execution**. `KeepsWireOrder`: the refinement of `ChunkWire`. `OneLateChunk`: after
the token has fired the listener gets at most the chunk the last select had taken.
`TypeToldOnce`: the server is told the type of the body once, and the one it was
interpreted by, except for a row with an empty value. `CallEnds`: every call ends with a
last chunk. A body of 2 with pieces of 1 and 2 fits, fills and passes the cap; the first
call takes every form of body and every way a request is refused, the second asks for
another client than the first.

**text** (1 080 000 states). `SplitsAsWritten`, `ValuesVerbatim`, `FencesAsWritten`, `RoundTrips`,
`RequestSurvives`, `RowsReach`, `ChangesAsAsked`, one or two per module; the shapes of text
they set apart are the divergences of section 5. Four lexemes are a statement, a
boundary, another statement and a string or comment in between; three pieces are a
placeholder twice and another one; four lines are a block with a line in it, and a
fence that is not its own. A word is one token without blanks, and a value that is a JSON
tree is one value.

Fairness. `db_execution`: the steps of an execution and its timer are weakly fair, for
the runtime polls a woken task and its timer fires; the server's answers are not fair
at all, so `RunEnds` rests on the deadline alone. `http_execution`: the same for the steps
of a call, its timer and the reading of local files, not for the server and not for the
user's token. `runner`: the recursion is weakly
fair, since every executor call carries a timeout. `block_results`: the clock and
the sweep are weakly fair; the sweep is called by the application outside this
repository at its start and from time to time, so `LockFreed` is what the crate
gives an application that does. Callers are not fair: they may hang or die. Deadlock
is off where a run ends for good (`Runner` stutters there), counters are exhausted
(`PoolManager`, `DbExecutor`, `DbMigrate`, `MCInternalDb`) or the text is read (`MCText`).

## 4. The proofs

Every proof module proves its theorems for any number of callers, objects and steps.
Assumptions are those of the modules, with the names they have there: TTLs are
naturals and neither the absent field nor its written form `-` is a host or a port
(`PoolManager`); timeouts are naturals, and so are the bounds on statements and log rows
(`DbExecutor`); lines and aliases are naturals, the notes are functions from lines to
blocks, the depth limit is a natural (`Runner`); the absent alias is no alias, the sweep's
limit is a natural (`BlockResults`); an absent value and what only an override says are no
other values (`ConfigStores`); pieces are positive numbers, the cap and the redirects are
numbers, headers are rows of a key, a value and a switch, and a body is lines
(`HttpExecutor`); nothing is no name, value, entry or file, and a literal, a reference and the
text of one are different things (`EnvironmentsStore`, `ConnectionsStore`); a file the store
finds has no references yet, for it was typed by hand, the rows of the old database have
distinct names, as its UNIQUE column says, and the migration is one of the callers
(`VaultMigration`); the script rebuilds `schema_cache` in the seven statements of 013, adds a
column and an index to it before, and otherwise makes things that need what was made before,
while no release left a `schema_cache_old` (`DbMigrate`). `BoundsAssumption` of `InternalDb` gathers those of its components: the
sentinel, the absent and the empty value are no text of a user, there are finitely many
keys, a schema is a sequence of columns, the cap on history is at least one, a file has a
piece, and no note has the name of a file of the scaffold. TLC evaluates the named
assumptions in the runs.

| theorem | states | by the invariant |
|---|---|---|
| `DbExecutorProofs!TypeCorrect` | `TypeOK` | `TypeInv`: a fill past its lookup carries a pool |
| `DbExecutorProofs!Isolation` | `OverrideIsolation` | `IsolationInv`: keys serve what they stand for (`KeysServe`), and so do the pools of calls under way (`CallsServe`) |
| `DbExecutorProofs!Staleness` | `StaleOnlyIfOvertaken` | `StaleInv`: nothing is flushed past the present revision (`FlushedBehind`); a base fill carries a revision at least the flushed one or is marked (`FillsKnow`) |
| `DbExecutorProofs!CleansUp` | `CleansUpExpired` | `CleanInv`: of an entry not used since its snapshot a clean-up knows its last use and TTL before the decision (`KnowsEntry`) and has judged it rightly after (`JudgedRightly`) |
| `DbExecutorProofs!UsesTheCache`, `!RunsIsolated` | an execution is a behaviour of `PoolManager`, so `OverrideIsolation` holds of it | none: every step is one of the cache, or a stutter |
| `DbExecutorProofs!LogIsTrue`, `!CancelIsFinal` | `LogTellsOutcome`, `CancelStops` | `DbInv`: statements are outstanding until the outcome is settled, the outcome tells whether any are left, and a run that executes holds its pool (`RunInv`) |
| `RunnerProofs!TypeCorrect`, `!Climbs`, `!NoCycle` | `TypeOK`, `CallsClimb`, `NoCyclicDependency` | `ClimbInv`: the frames carry the first blocks of their aliases, climb, and are what is in progress (`PathInv`) |
| `RunnerProofs!InOrder` | `ExecutedInOrder` | `OrderInv`: until an error the log is what is executed, in order (`LogMatchesCache`), a frame has visited what it has passed over (`FramesVisited`), and the results read are those of the blocks the references name |
| `BlockResultsProofs!TypeCorrect` | `TypeOK` | `TypeInv` |
| `BlockResultsProofs!Protected` | `LockProtects` | `LockInv`: while no run of a hash is late the run is alone, its lock is there and as old as the run (`HeldAlone`) |
| `BlockResultsProofs!NewestById` | `LatestUnlessRerun` | `OrderInv`: ids and stamps are below the next ones (`Dated`) and order the rows of an alias alike (`SameOrder`) |
| `ConfigStoresProofs!TypeCorrect`, `!Coherent`, `!OneSection` | `TypeOK`, `CacheCoherent`, `SettersKeepOthers` | `StoreInv`: no modification time is ahead of its file's (`NotAhead`), a load whose times are still the file's has read what is there (`LoadKnows`), and so has a setter nothing came between (`SetterKnows`); what is written is not mixed with an override (`Unmixed`) |
| `HttpExecutorProofs!Implements` | `KeepsWireOrder`: `HttpExecutor` implements `ChunkWire` | `WireInv`: the place a call is at tells what its listener has (`Listens`) |
| `HttpExecutorProofs!Biased` | `OneLateChunk` | `LateInv`: a call past a `select!` has sent nothing since the token fired (`LateBy`) |
| `HttpExecutorProofs!ToldOnce` | `TypeToldOnce` | `SentInv`: what is sent is what `Built` makes of the request, whole; the rest is about `Built` (`BuiltTold`) |
| `HttpExecutorProofs!TypeCorrect` | `TypeOK` | `TypeInv`: who reads body files has one left |
| `InternalDbProofs!Composes` | a behaviour of `InternalDb` is one of each component | none |
| `InternalDbProofs!InOrderOfTurns` | `TurnsApart` | `TurnInv`: a session has a highest turn (`HighestTurn`) and an undisturbed insert is above all (`InsertsAbove`) |
| `InternalDbProofs!AnsweredFromForce` | `AnswerHeld` | `AnswerInv`: a check that found no "always" rule remembers what was in force then (`HeldThen`) |
| `InternalDbProofs!ActiveIsOne` | `OneActive` | `ActiveInv`: once an environment is active, whoever has still to set one was overlapped |
| `InternalDbProofs!SecretsResolve` | `SecretRowsResolve` | `SecretInv`: what a row or a call under way holds as sentinel is in the keychain, and no call is about to erase it |
| `InternalDbProofs!SchemasAreWhole` | `SchemaWhole` | `CacheInv`: a save that meets no other has inserted what it has not left, all dated since it began (`AloneInserts`); what it leaves is of one moment (`SettledRows`), with a row per column (`OneRowEach`) |
| `InternalDbProofs!TrimsLeaveNewer` | `LeavesForNewer` | `HistInv`: times follow ids but for entries set apart (`InOrderOfIds`); a trim leaves the newest by their times (`TrimLeaves`) |
| `InternalDbProofs!ActiveIsRegistered` | `ActiveRegistered` | `VaultInv`: a vault is on a list before it is selected (`ListedFirst`), and every vault that is off the list and could be selected has its reason: a removal yet to look, or `torn` (`StillListed`) |
| `InternalDbProofs!FilesAreWhole` | `FilesWhole` | `FileInv`: a file has one name (`OneName`), and while it is written that name is temporary and its pieces are the writer's (`OwnFile`) |
| `InternalDbProofs!ConnectionsAsEdited` | `EditsKept` | `ConnInv`: the password in the keychain is that of the last call that wrote the row, or of one about to write it (`PasswordKept`); wherever a row, or a call that may write it back, has the sentinel there is an entry (`SecretThere`); and nobody else is at a connection that is being created (`CreatesAlone`) |
| `InternalDbProofs!VaultsKeepTexts` | `VaultKept` | `FolderInv`: a scaffold has left the files before the present one in place (`InOrder`), a call on a note touches notes alone (`CallOnNotes`), and what a call has open is a note or in the trash (`OpenNotes`) |
| `EnvironmentsStoreProofs!TypeCorrect` | `TypeOK` | `TypeInv` |
| `EnvironmentsStoreProofs!ReferencesLead` | `ReferencesResolve` | `StoreInv`: environments under rename are apart from the others (`RenamedApart`), the active one exists or is being made (`ActiveThere`), and what a file or a call under way refers to is in the keychain (`RefsKept`) |
| `EnvironmentsStoreProofs!CacheIsFresh` | `CacheFresh` | `CacheInv`: `StoreInv`, and a call that is to fill or clear the cache knows what the keychain has (`SecretsKnown`) |
| `MigrationProofs!TypeCorrect`, `!ReferencesLead`, `!EditsKeep` | of `ConnectionsStore` by itself: `TypeOK`, `ReferencesResolve`, `EditKeepsPassword` | `ConnInv`: a call that no other overlapped is the only one at work, has its file but for its own entry, and knows entry and password (`Alone`); a reference leads to a password or a call that clears the password (`Clears`) is under way (`Leads`) |
| `MigrationProofs!MigratedReferencesLead`, `!PasswordsStay` | the same with the migration running: `ReferencesResolve`, `PasswordsKept` | `MigInv`: `ConnInv`, the migration is at a row or at its creation (`AtRow`), and a row it has made is as made (`Kept`) |
| `MigrationProofs!SchemaTypeCorrect`, `!WholeAgain`, `!FailsSetAside` | `DbTypeOK`, `WholeUnlessHurt`, `FailsOnlySetAside` | `SchemaInv`: what the statements before its own make is in place, or a start in 013 will put it there (`InPlace`), for every start that can be trusted (`Trusted`), with `schema_cache` as its place in 013 says (`Rebuilt`); `schema_cache_old` belongs to the start in 013 or nobody rebuilds any more (`OldOwned`), the rows are in one of the two (`RowsKept`), and whoever rebuilds alone found the foreign key (`FkFound`) |

Why strengthenings are needed. `OverrideIsolation` speaks of cached and held pools; an
`Insert` preserves it only if the pool of the fill was right, which `CallsServe` adds,
and distinct requests must have distinct keys (`CacheKeyInjective`, from the assumption that
`-` is no host). `Staleness` needs to know of a fill in flight whether an invalidation
passed it. `NoCyclicDependency` needs that whatever is in progress has a frame, and a
frame strictly below the callee: then no alias in progress can be called. `InOrder` needs
to know that a reference a frame no longer waits for is either executed or not above; that
a block is executed once then follows from the log being without repetitions. `LockProtects`
says nothing of a lock's age, but the sweep judges by it: only a lock as old as its run
is kept as long as the run is young. `CacheCoherent` is about the cache, which a call fills with
what it read some steps before, so what the calls carry must be known to be fresh whenever
their times are. `LogTellsOutcome` is about rows that were written; the row is only true
because the outcome was. `SecretRowsResolve` needs the calls because a secret is in the
keychain before its row has the sentinel, and is erased in a step of its own. The other
parts of the internal database are alike: their properties speak of moments when calls are
over, and the invariants say what a call under way, alone on its object, has done so far.
So it is with the two stores of a vault: their properties except calls that overlap, and what
is left is a call that nobody comes in between, so its knowledge of file, keychain and cache,
read some steps before, still holds. `PasswordsKept` needs it of an edit that keeps the
password, which carries what it read to its last step, past every failure of the steps between.
`WholeUnlessHurt` is about the time when every start is over; before that an ignored error is
only harmless because what it skips is there already, and the index of `schema_cache` may be
away while another start is in 013, so that what is there is what that start is bound to make again.
That a start in 013 is the only one there is part of the induction, since `hurt` is set as soon
as another statement meets it, and so is that a start on its own trusts nothing it was left.
`Composes` carries over whatever is proved of one component's steps to the composition that
the run checks.

The rest is model-checked only: the properties of the passes over text, which are about what
folds and recursive functions compute, and that the scripts of the repository are as
`ScriptAssumption` says and the databases of its releases as `ReleasesAssumption` does, for
both are the outcome of folds over a given sequence. Liveness (`RunEnds`, `RunTerminates`, `LockFreed`, `CallEnds`)
stays with TLC: the proof system treats neither fairness nor `ENABLED`. What a recursive
function computes for every input is out of its reach too, so the passes over text
are compared with their definitions on bounded texts. No module proved about uses a
recursive operator.

## 5. Divergences found

Each is met by a run: the property named holds only with the exception it makes for
the divergence (or, in the last case, does not hold).

1. *The cycle check cannot fire* (`runner.rs:130`). A comment says mutual references
   return `CyclicDependency`; the theorem `NoCycle` says nothing returns it.
   `RunTerminates`.
2. *Newest by id* (`block_results.rs:222`). A row that is updated keeps its id, so the
   "most recently written" result of an alias may be an older one. `LatestUnlessRerun`.
3. *Rename loses secrets* (`environments_store/mod.rs:324`). The keychain entries move to
   the new name, the references in the file keep the old one; the secret cache hides it
   until the process ends. `ReferencesResolve` of `EnvironmentsStore`.
4. *Stale secrets* (`environments_store/mod.rs:478`). Saving a secret with its own
   reference caches the reference's text as the secret; a resolver that raced a write
   caches the old secret. `CacheFresh`.
5. *A database no start completes* (`db/mod.rs:242`). A process that dies between the
   rename of `schema_cache` and its new table leaves the old one aside; the next start makes
   a new table with the foreign key, so the rebuild runs again and fails on the name it
   left, for ever. `FailsOnlySetAside`.
6. *The time of another write* (`user_store.rs:106`). The user store takes the modification
   time after its write; a write in between gives its time to older content, which is
   then answered, and written back by the next setter. `CacheCoherent`,
   `SettersKeepOthers`.
7. *A password that is a sentinel* (`migration.rs:334`). The migration hands the text that
   stands for "in the keychain" to the new store as the password. `PasswordsKept`.
8. *Cleared before it is known to work* (`connections_store.rs:265`). An update with an
   empty password deletes the keychain entry first; when the rest fails the file keeps a
   reference to nothing. `ReferencesResolve` of `ConnectionsStore`.
9. *Password of a refused update* (`db/connections.rs:270`). The update is refused after its
   password is in the keychain: the old connection has the new password. `EditsKept`.
10. *Two content types* (`executor/http/request.rs:123`). A content type without a value is
    sent along with the default. `TypeToldOnce`.
11. *A comment is a statement* (`sql_scanner.rs:113`), also where only a comment stands
    between two semicolons. `SplitsAsWritten`.
12. *Fences by tildes, by four marks, inside fences* (`blocks/parser.rs:50`): the block
    ends elsewhere, is none, or is one that was only shown. `FencesAsWritten`.
13. *Blocks that do not survive* (`blocks/serializer.rs:6`): the timeout, a block without
    address, separators in keys and values, a disabled row that looks like a description.
    `RoundTrips`.
14. *Not every WITH is a query* (`db/pool.rs:289`): `WITH … DELETE` and a query that ends
    in a line comment are wrapped, and refused by the server. `RowsReach`.
15. *A query behind a comment* (`db/pool.rs:153`) is executed as a mutation; its rows are
    lost. `RowsReach`.
16. *A plan that changes data* (`db/pool.rs:136`). The check for `EXPLAIN ANALYZE` of a
    mutation does not see the options in parentheses that the crate itself puts
    there for Postgres, so asking for the plan of a DELETE executes it; nor does it see
    those a user writes, in parentheses or as `VERBOSE` after `ANALYZE`, or an analysed plan
    behind a remark or of a WITH. `ChangesAsAsked`.
17. *Parameters after a query* (`blocks/http_normalize.rs:174`): a legacy block whose
    address has a query gets a second `?`, and its last value and a parameter become one.
    `RequestSurvives`.
18. *None or all* (`vault_config/gitignore.rs:44`). The doc says the patterns are appended if
    none is there, the code if not all are. `VaultKept` needs what the code does.
19. *Migrating again* (`migration.rs:312`). The doc says running the migration again is safe;
    variables edited since are set back. Run `migration_rerun`.

Seen while modelling, and without a property that turns on it:
- The timeout of a run with an override is looked up under the base key
  (`executor/db/mod.rs:94-95`), so it may be the fallback.
- Placeholders are resolved against every result of the run, so a block may read one from
  below it if another dependent ran that first (`runner.rs:175`; a test's comment at 415
  says otherwise).
- `set_active_environment` that fails after clearing leaves no environment active.
- Rows of a cached schema expire one by one, and a save that fails half way leaves a part
  of the schema until the TTL is over (`schema_cache.rs:63`); history is trimmed by the wall
  clock (`block_history/mod.rs:38-39`); `remove_vault` cut short, an older list written
  over a newer one, and a removal within `set_active_vault` leave an unregistered
  vault active (`vaults.rs:8`). `SchemaWhole`, `LeavesForNewer` and `ActiveRegistered` set
  these apart.
- "Writes are atomic" (`run_bodies.rs:13`) holds unless two writers share a temporary name.
- Nothing keeps the ids of tool calls apart; a result is stored in every row that has the
  id. Bound values beyond those a script has placeholders for are ignored.
- `query_internal_db` (`db/mod.rs:95-117`) allows EXPLAIN and PRAGMA and then wraps them
  as it does a SELECT. `{{{A}}` is not replaced.
- A note that is renamed while it is being written gets the rest of the write under its new
  name (`fs/mod.rs:108`). `VaultKept` sets this apart.
- `create_connection` and `update_connection` may report an error for a row that is stored
  (`db/connections.rs:243`, `319`).
- `write_note` empties a note before it fills it; a failed `create_new_vault` leaves a
  folder that is not empty, so that trying again is refused.
- The frontmatter parser (`frontmatter/parser.rs:11-12`) says "Round-trip safe", which a
  closing fence without a line break, CRLF fences and a byte order mark are not.

## 6. What is not modelled, and why

About half of the repository's lines are tests, and much of the rest converts values.
Left out of the modelled components:
- `test_connection` (keeps nothing); the conversion of driver rows and of bound values;
  connection strings; the positions in error messages; the trees made of plans.
- Block hashes and the inference of shapes, which are identities here; navigation into a
  result, which is a table of what it yields.
- `.local` overrides and the cache of parsed files in `EnvironmentsStore` and
  `ConnectionsStore` (`ConfigStores` has the protocol), the splitting of the write of
  `user.toml` in `EnvironmentsStore`, and edits of its files by other programs; the nesting
  of tables in `deep_merge`; `defaults_with_sources`, which only reads.
- Dry runs of the migration; sizes, summaries and listings of history and run bodies.
- The client without a timeout that the HTTP executor falls back to when its own cannot be
  built (`executor/http/mod.rs:155`): `CallEnds` is about calls that have one of the others.
- The indentation of fences: the parser trims any, CommonMark no more than three blanks.
- Legacy database blocks; code generation and export, which are layout; words with blanks in
  `BlockText`.
- Folders and listings of notes; schemas and validation of a vault's files, which only read.

Left out as a whole: per-block settings and examples (single upserts); secret backends (a
trait and a parser the stores do not use); the git wrapper (another program's state);
frontmatter, preflight and tags, searches and templates (parsers and read-only
scans); crash log and feature usage (diagnostics without influence on the rest). None of them
has an order of changes that could go wrong.

## 7. The plan

What is left, in order of what matters most:

1. The pool cache as a plain map from request to pool, with `PoolManager` its implementation,
   and a file that changes in one step, with the stores its implementations.
2. `.local` overrides and the cache of parsed files under the calls of `EnvironmentsStore` and
   `ConnectionsStore`, by composing them with `ConfigStores`.
3. Legacy database blocks beside the HTTP ones; the frontmatter of a note against its round
   trip.
