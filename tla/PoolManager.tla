----------------------------- MODULE PoolManager -----------------------------
(***************************************************************************)
(* The connection-pool cache of src/src/db/pool_manager.rs.                *)
(*                                                                         *)
(* `pools` is the RwLock-protected map from cache key to PoolEntry.  Each  *)
(* critical section of the code is one step; between two critical          *)
(* sections (an await on the lookup, on create_pool, or on the lock        *)
(* itself) every other caller may run.  A call to get_pool_keyed is a      *)
(* member of Tasks, cleanup_expired is the record `cleaner`, and the gap   *)
(* inside invalidate between the removal and the status event is           *)
(* `discPending`.                                                          *)
(*                                                                         *)
(* The connection records themselves live behind the ConnectionLookup      *)
(* trait; `store` is that outside truth, with a revision that counts the   *)
(* edits made to each record.                                              *)
(***************************************************************************)
EXTENDS Naturals

CONSTANTS
    Conns,      \* connection ids
    Configs,    \* connection records: host, port, ttl_seconds, query_timeout_ms
    Hosts,      \* hosts a session override may name
    Ports,      \* ports a session override may name
    Unset,      \* Rust's None in an override
    Dash,       \* the "-" cache_suffix writes for None
    Tasks,      \* concurrent callers of get_pool / get_pool_with_override
    MaxTime,    \* bound on the clock
    MaxRev      \* bound on the edits of one connection record

ASSUME ConfigAssumption ==
    \A cfg \in Configs : cfg.ttl \in Nat
ASSUME OverrideAssumption ==
    /\ Unset \notin Hosts \union Ports
    /\ Dash \notin Hosts \union Ports
ASSUME BoundAssumption == MaxTime \in Nat /\ MaxRev \in Nat

VARIABLES
    store,        \* [Conns -> edit count and current record], outside the cache
    pools,        \* the cache: [Keys -> PoolEntry, or NoEntry when absent]
    task,         \* [Tasks -> progress of one get_pool call]
    cleaner,      \* progress of cleanup_expired
    discPending,  \* connections whose invalidate has still to emit its event
    status,       \* last status event emitted for an id (ids are cache keys)
    flushed,      \* history: the revision invalidate last flushed
    now           \* the monotonic clock (Instant::now)

vars == <<store, pools, task, cleaner, discPending, status, flushed, now>>
-----------------------------------------------------------------------------
(* Data                                                                    *)

Missing == [gone |-> TRUE]
Records == Configs \union {Missing}

\* HostPortOverride; both fields None means "no override".
Override == [host : Hosts \union {Unset}, port : Ports \union {Unset}]
NoOverride == [host |-> Unset, port |-> Unset]
IsEmpty(ov) == ov = NoOverride

\* cache_suffix: "#ovr:<host or ->:<port or ->".
OrDash(x) == IF x = Unset THEN Dash ELSE x
CacheSuffix(ov) == <<OrDash(ov.host), OrDash(ov.port)>>
Bare == <<>>
KeySuffixes == {Bare} \union ((Hosts \union {Dash}) \X (Ports \union {Dash}))
Keys == Conns \X KeySuffixes
BaseKey(c) == <<c, Bare>>

\* Mutant: an overridden run cached over the base pool.
CacheKeyNoSuffix(c, ov) == BaseKey(c)

\* get_pool_with_override: the base key unless an override is really given.
CacheKey(c, ov) == IF IsEmpty(ov) THEN BaseKey(c) ELSE <<c, CacheSuffix(ov)>>

\* What a pool dials: the record's host and port, each replaced when overridden.
Target(cfg, ov) ==
    [host |-> IF ov.host = Unset THEN cfg.host ELSE ov.host,
     port |-> IF ov.port = Unset THEN cfg.port ELSE ov.port]

Targets == {Target(cfg, ov) : cfg \in Configs, ov \in Override}
Pool == [conn : Conns, rev : Nat, cfg : Configs, target : Targets]
NoPool == [none |-> TRUE]

\* PoolEntry; ttl_seconds and query_timeout_ms are those of pool.cfg.
\* `overtaken` is history: an invalidate ran between its lookup and its insert.
Entry == [pool : Pool, last_used : Nat, overtaken : BOOLEAN]
NoEntry == [absent |-> TRUE]
Cached(k) == pools[k] # NoEntry

TaskState ==
    [pc : {"lookup", "create", "insert", "emit", "held"},
     conn : Conns, ov : Override, pool : Pool \union {NoPool}, overtaken : BOOLEAN]
Idle == [pc |-> "idle"]
Running(t, pc) == task[t].pc = pc
KeyOf(t) == CacheKey(task[t].conn, task[t].ov)

\* The snapshot keeps, per cached key, what the code copies out of the entry.
Snapshot == [last_used : Nat, ttl : Nat] \union {NoEntry}
CleanerAt(pc, at, snap, doomed) == [pc |-> pc, at |-> at, snap |-> snap, doomed |-> doomed]
NoSnapshot == [k \in Keys |-> NoEntry]
CleanerIdle == CleanerAt("idle", 0, NoSnapshot, {})
-----------------------------------------------------------------------------
Init ==
    /\ store \in [Conns -> [rev : {0}, rec : Records]]
    /\ pools = [k \in Keys |-> NoEntry]
    /\ task = [t \in Tasks |-> Idle]
    /\ cleaner = CleanerIdle
    /\ discPending = {}
    /\ status = [k \in Keys |-> "none"]
    /\ flushed = [c \in Conns |-> 0]
    /\ now = 0

\* A user edits, deletes or re-creates the connection record.
EditConnection(c) ==
    /\ store[c].rev < MaxRev
    /\ \E rec \in Records :
           store' = [store EXCEPT ![c] = [rev |-> store[c].rev + 1, rec |-> rec]]
    /\ UNCHANGED <<pools, task, cleaner, discPending, status, flushed, now>>

Tick ==
    /\ now < MaxTime
    /\ now' = now + 1
    /\ UNCHANGED <<store, pools, task, cleaner, discPending, status, flushed>>
-----------------------------------------------------------------------------
(* get_pool_keyed                                                          *)

\* First critical section, hit: touch last_used and hand the pool out.
GetHit(t, c, ov) ==
    LET k == CacheKey(c, ov) IN
    /\ Running(t, "idle")
    /\ Cached(k)
    /\ pools' = [pools EXCEPT ![k].last_used = now]
    /\ task' = [task EXCEPT ![t] =
                   [pc |-> "held", conn |-> c, ov |-> ov,
                    pool |-> pools[k].pool, overtaken |-> FALSE]]
    /\ UNCHANGED <<store, cleaner, discPending, status, flushed, now>>

\* First critical section, miss: the lock is dropped before the lookup.
GetMiss(t, c, ov) ==
    /\ Running(t, "idle")
    /\ ~Cached(CacheKey(c, ov))
    /\ task' = [task EXCEPT ![t] =
                   [pc |-> "lookup", conn |-> c, ov |-> ov,
                    pool |-> NoPool, overtaken |-> FALSE]]
    /\ UNCHANGED <<store, pools, cleaner, discPending, status, flushed, now>>

\* The record is read and the override's host and port written into the copy.
Lookup(t) ==
    LET c == task[t].conn
        cfg == store[c].rec
    IN
    /\ Running(t, "lookup")
    /\ cfg # Missing
    /\ task' = [task EXCEPT
                   ![t].pc = "create",
                   ![t].pool = [conn |-> c, rev |-> store[c].rev, cfg |-> cfg,
                                target |-> Target(cfg, task[t].ov)]]
    /\ UNCHANGED <<store, pools, cleaner, discPending, status, flushed, now>>

\* create_pool succeeds: validation passed and the server answered.
Create(t) ==
    /\ Running(t, "create")
    /\ task' = [task EXCEPT ![t].pc = "insert"]
    /\ UNCHANGED <<store, pools, cleaner, discPending, status, flushed, now>>

\* The early returns: lookup error, unknown connection, create_pool error.
Fail(t) ==
    /\ Running(t, "lookup") \/ Running(t, "create")
    /\ task' = [task EXCEPT ![t] = Idle]
    /\ UNCHANGED <<store, pools, cleaner, discPending, status, flushed, now>>

\* Second critical section: the entry is written over whatever is there now.
Insert(t) ==
    /\ Running(t, "insert")
    /\ pools' = [pools EXCEPT ![KeyOf(t)] =
                    [pool |-> task[t].pool, last_used |-> now,
                     overtaken |-> task[t].overtaken]]
    /\ task' = [task EXCEPT ![t].pc = "emit", ![t].overtaken = FALSE]
    /\ UNCHANGED <<store, cleaner, discPending, status, flushed, now>>

\* The event is emitted after the lock is dropped, under the connection id
\* even when the pool is an override's.
EmitConnected(t) ==
    LET c == task[t].conn IN
    /\ Running(t, "emit")
    /\ status' = [status EXCEPT ![BaseKey(c)] = "connected"]
    /\ task' = [task EXCEPT ![t].pc = "held"]
    /\ UNCHANGED <<store, pools, cleaner, discPending, flushed, now>>

\* The caller drops its Arc<DatabasePool>.
Release(t) ==
    /\ Running(t, "held")
    /\ task' = [task EXCEPT ![t] = Idle]
    /\ UNCHANGED <<store, pools, cleaner, discPending, status, flushed, now>>
-----------------------------------------------------------------------------
(* invalidate                                                              *)

\* Base fills of c that have read its record and not yet inserted their pool.
Overtake(c) ==
    [t \in Tasks |->
        IF /\ task[t].pc \in {"create", "insert"}
           /\ task[t].conn = c
           /\ IsEmpty(task[t].ov)
        THEN [task[t] EXCEPT !.overtaken = TRUE]
        ELSE task[t]]

\* Mutant: an invalidate that announces the removal and forgets to remove.
InvalidateKeepsEntry(c) ==
    /\ c \notin discPending
    /\ discPending' = IF Cached(BaseKey(c)) THEN discPending \union {c} ELSE discPending
    /\ task' = Overtake(c)
    /\ flushed' = [flushed EXCEPT ![c] = store[c].rev]
    /\ UNCHANGED <<store, pools, cleaner, status, now>>

\* Removes the entry whose key is exactly the connection id; the pools of its
\* overrides stay.  One invalidation of a connection is in flight at a time.
Invalidate(c) ==
    /\ c \notin discPending
    /\ discPending' = IF Cached(BaseKey(c)) THEN discPending \union {c} ELSE discPending
    /\ pools' = [pools EXCEPT ![BaseKey(c)] = NoEntry]
    /\ task' = Overtake(c)
    /\ flushed' = [flushed EXCEPT ![c] = store[c].rev]
    /\ UNCHANGED <<store, cleaner, status, now>>

\* The event of an invalidate that removed something, after the lock is dropped.
EmitDisconnected(c) ==
    /\ c \in discPending
    /\ discPending' = discPending \ {c}
    /\ status' = [status EXCEPT ![BaseKey(c)] = "disconnected"]
    /\ UNCHANGED <<store, pools, task, cleaner, flushed, now>>
-----------------------------------------------------------------------------
(* cleanup_expired                                                         *)

\* Read lock: copy (key, last_used, ttl) of every entry.
CleanupSnapshot ==
    /\ cleaner.pc = "idle"
    /\ cleaner' = CleanerAt("decide", now,
           [k \in Keys |-> IF Cached(k)
                           THEN [last_used |-> pools[k].last_used, ttl |-> pools[k].pool.cfg.ttl]
                           ELSE NoEntry], {})
    /\ UNCHANGED <<store, pools, task, discPending, status, flushed, now>>

\* Mutant: the boundary off by one.
ExpiredAtTtl(s) == s # NoEntry /\ now - s.last_used >= s.ttl

\* last_used.elapsed() > ttl, on the copied values.
Expired(s) == s # NoEntry /\ now - s.last_used > s.ttl

\* No lock held: choose the keys to drop from the copies.
CleanupDecide ==
    LET doomed == {k \in Keys : Expired(cleaner.snap[k])} IN
    /\ cleaner.pc = "decide"
    /\ cleaner' = IF doomed = {} THEN CleanerIdle
                  ELSE CleanerAt("remove", cleaner.at, NoSnapshot, doomed)
    /\ UNCHANGED <<store, pools, task, discPending, status, flushed, now>>

\* Write lock: drop the chosen keys, whatever entry they hold by now, and emit
\* one event per removed entry under its cache key.
CleanupRemove ==
    LET gone == {k \in cleaner.doomed : Cached(k)} IN
    /\ cleaner.pc = "remove"
    /\ pools' = [k \in Keys |-> IF k \in gone THEN NoEntry ELSE pools[k]]
    /\ status' = [k \in Keys |-> IF k \in gone THEN "disconnected" ELSE status[k]]
    /\ cleaner' = CleanerIdle
    /\ UNCHANGED <<store, task, discPending, flushed, now>>
-----------------------------------------------------------------------------
GetPool(t) == \E c \in Conns, ov \in Override : GetHit(t, c, ov) \/ GetMiss(t, c, ov)
Fill(t) == Lookup(t) \/ Create(t) \/ Fail(t) \/ Insert(t) \/ EmitConnected(t)
Maintenance ==
    \/ \E c \in Conns : EditConnection(c) \/ Invalidate(c) \/ EmitDisconnected(c)
    \/ CleanupSnapshot
    \/ CleanupDecide
    \/ CleanupRemove
    \/ Tick

Next ==
    \/ \E t \in Tasks : GetPool(t) \/ Fill(t) \/ Release(t)
    \/ Maintenance

Spec == Init /\ [][Next]_vars
-----------------------------------------------------------------------------
(* Properties                                                              *)

\* Every variable has the shape of the Rust value it stands for.
TypeOK ==
    /\ store \in [Conns -> [rev : Nat, rec : Records]]
    /\ pools \in [Keys -> Entry \union {NoEntry}]
    /\ task \in [Tasks -> TaskState \union {Idle}]
    /\ cleaner \in [pc : {"idle", "decide", "remove"}, at : Nat,
                    snap : [Keys -> Snapshot], doomed : SUBSET Keys]
    /\ discPending \subseteq Conns
    /\ status \in [Keys -> {"none", "connected", "disconnected"}]
    /\ flushed \in [Conns -> Nat]
    /\ now \in Nat

\* A pool belongs to a request when it is of the connection and dials what the
\* override asks for on top of the record it was built from.
Serves(pool, c, ov) == pool.conn = c /\ pool.target = Target(pool.cfg, ov)

\* Override isolation: whatever interleaving of plain and overridden runs, fills,
\* invalidations and clean-ups happened, the pool cached under a key dials
\* exactly what that key stands for (the base pool is never mutated by an
\* override, and two overrides never share a pool), and every caller holds a
\* pool of the connection, host and port it asked for.
OverrideIsolation ==
    /\ \A c \in Conns, ov \in Override :
           Cached(CacheKey(c, ov)) => Serves(pools[CacheKey(c, ov)].pool, c, ov)
    /\ \A t \in Tasks :
           Running(t, "held") => Serves(task[t].pool, task[t].conn, task[t].ov)

\* Staleness: after invalidate(c), the base key serves a record older than the
\* one invalidate flushed only when the fill that cached it had read the record
\* before that invalidate and inserted after it.  No other sequence of edits,
\* fills, hits and clean-ups resurrects an invalidated pool.
StaleOnlyIfOvertaken ==
    \A c \in Conns :
        LET e == pools[BaseKey(c)] IN
        (e # NoEntry /\ e.pool.rev < flushed[c]) => e.overtaken

\* A clean-up that has decided on a snapshot leaves no entry that had expired when
\* it was taken, and what it evicts is past its TTL or was used or replaced by a
\* caller since: a fresh entry nobody touches survives.
CleansUpExpired ==
    [][cleaner.pc # "idle" /\ cleaner'.pc = "idle" =>
         \A k \in Keys :
           /\ pools'[k] # NoEntry => cleaner.at - pools'[k].last_used <= pools'[k].pool.cfg.ttl
           /\ Cached(k) /\ pools'[k] = NoEntry =>
                \/ now - pools[k].last_used > pools[k].pool.cfg.ttl
                \/ pools[k].last_used >= cleaner.at]_vars
=============================================================================
