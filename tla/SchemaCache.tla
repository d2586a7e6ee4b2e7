---------------------------- MODULE SchemaCache ----------------------------
(***************************************************************************)
(* The cache of database schemas (db/schema_cache.rs).  introspect_schema  *)
(* reads the columns of a connection's database and saves them: one DELETE *)
(* of the connection's rows, then one INSERT per column, each dated by the *)
(* clock.  get_cached_schema is one SELECT of the rows younger than a TTL, *)
(* from whatever is there.                                                 *)
(***************************************************************************)
EXTENDS Naturals, FiniteSets, Sequences, SequencesExt

CONSTANTS
    Panes,      \* tasks that introspect
    Conns,
    Servers,    \* the connections whose entries name a schema (not SQLite's)
    Schemas,    \* the columns a database may have, each a sequence
    None,
    TTL,        \* ttl_seconds
    MaxNow,     \* bound: the clock, in seconds
    MaxSaves    \* bound: introspections

\* What the constants are.
CacheAssumption ==
    /\ Servers \subseteq Conns
    /\ None \notin Schemas
    /\ \A s \in Schemas : s \in Seq(ToSet(s))
    /\ {TTL, MaxNow, MaxSaves} \subseteq Nat

VARIABLES
    cached,     \* the rows of schema_cache
    save,       \* what each pane is doing
    now,        \* datetime('now')
    saves,      \* introspections so far
    settled     \* history: the columns of the last save of a connection, if it was
                \* complete, alone, and done within one second

cacheVars == << cached, save, now, saves, settled >>

Ready == [pc |-> "ready"]

CacheInit ==
    /\ cached = {}
    /\ save = [p \in Panes |-> Ready]
    /\ now = 0
    /\ saves = 0
    /\ settled = [c \in Conns |-> None]

\* Saves of connection c that have deleted its rows and insert theirs.
Saving(c) == {p \in Panes : save[p].pc = "insert" /\ save[p].conn = c}

\* The columns are read; what the database holds is up to its users.
Introspect(p, c, columns) ==
    /\ save[p].pc = "ready" /\ saves < MaxSaves
    /\ saves' = saves + 1
    /\ save' = [save EXCEPT ![p] = [pc |-> "delete", conn |-> c, columns |-> columns, by |-> saves']]
    /\ UNCHANGED << cached, now, settled >>

\* (A mistake: only the rows that have expired are deleted.)
DeleteExpired(p) ==
    LET c == save[p].conn IN
    /\ save[p].pc = "delete"
    /\ cached' = {r \in cached : r.conn # c \/ now - r.at < TTL}
    /\ save' = [save EXCEPT ![p] = [pc |-> "insert", conn |-> c, by |-> save[p].by,
                                    columns |-> save[p].columns, left |-> save[p].columns,
                                    since |-> now, alone |-> Saving(c) = {}]]
    /\ settled' = [settled EXCEPT ![c] = None]
    /\ UNCHANGED << now, saves >>

\* A save that meets another between its DELETE and its last INSERT is not alone,
\* and neither is the other.
DeleteRows(p) ==
    LET c == save[p].conn IN
    /\ save[p].pc = "delete"
    /\ cached' = {r \in cached : r.conn # c}
    /\ save' = [q \in Panes |->
                  IF q = p THEN [pc |-> "insert", conn |-> c, by |-> save[p].by,
                                 columns |-> save[p].columns, left |-> save[p].columns,
                                 since |-> now, alone |-> Saving(c) = {}]
                  ELSE IF q \in Saving(c) THEN [save[q] EXCEPT !.alone = FALSE]
                  ELSE save[q]]
    /\ settled' = [settled EXCEPT ![c] = None]
    /\ UNCHANGED << now, saves >>

\* The unique index covers the schema's name, and a NULL is unlike any other: rows
\* of SQLite repeat, a repeated row of a server is an error that ends the save.
InsertRow(p) ==
    LET s == save[p] c == s.conn
        taken == c \in Servers /\ \E r \in cached : r.conn = c /\ r.column = Head(s.left)
    IN
    /\ s.pc = "insert" /\ s.left # << >>
    /\ cached' = IF taken THEN cached
                 ELSE cached \union {[conn |-> c, column |-> Head(s.left), by |-> s.by, at |-> now]}
    /\ save' = [save EXCEPT ![p] = IF taken THEN Ready ELSE [s EXCEPT !.left = Tail(@)]]
    /\ UNCHANGED << now, saves, settled >>

\* The last row is in: the caller has its entries.
FinishSave(p) ==
    LET s == save[p] IN
    /\ s.pc = "insert" /\ s.left = << >>
    /\ save' = [save EXCEPT ![p] = Ready]
    /\ settled' = [settled EXCEPT ![s.conn] = IF s.alone /\ s.since = now THEN s.columns ELSE None]
    /\ UNCHANGED << cached, now, saves >>

\* A statement fails, or the process dies; what was inserted stays.
CutShort(p) ==
    /\ save[p].pc # "ready"
    /\ save' = [save EXCEPT ![p] = Ready]
    /\ UNCHANGED << cached, now, saves, settled >>

Second ==
    /\ now < MaxNow
    /\ now' = now + 1
    /\ UNCHANGED << cached, save, saves, settled >>

CacheNext ==
    \/ \E p \in Panes :
         \/ \E c \in Conns, columns \in Schemas : Introspect(p, c, columns)
         \/ DeleteRows(p) \/ InsertRow(p) \/ FinishSave(p) \/ CutShort(p)
    \/ Second

CacheSpec == CacheInit /\ [][CacheNext]_cacheVars

\* What get_cached_schema finds; no row is "expired or empty".
CachedSchema(c) == {r \in cached : r.conn = c /\ now - r.at < TTL}

-----------------------------------------------------------------------------
(* Properties.                                                             *)

\* The caller takes whatever rows it finds for the schema.  They are all the
\* columns of the last save, each once, or none at all, for as long as no save
\* begins; unless that save failed half way, met another one, or went on from one
\* second into the next, when its rows expire one after the other.
SchemaWhole ==
    \A c \in Conns :
      settled[c] # None /\ CachedSchema(c) # {} =>
        /\ {r.column : r \in CachedSchema(c)} = ToSet(settled[c])
        /\ Cardinality(CachedSchema(c)) = Cardinality(ToSet(settled[c]))
=============================================================================
