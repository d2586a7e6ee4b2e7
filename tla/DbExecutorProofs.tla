--------------------------- MODULE DbExecutorProofs ---------------------------
(***************************************************************************)
(* Theorems about the pool cache and the executions on top of it, for any  *)
(* connections, records, hosts, ports and callers, any timeouts, numbers   *)
(* of statements and log rows, and without a bound on time or edits.       *)
(*                                                                         *)
(* Those about the cache (PoolManager) come first: an execution uses it by *)
(* its protocol alone (UsesTheCache), so they hold of the executions too.  *)
(***************************************************************************)
EXTENDS DbExecutor, SequenceTheorems, TLAPS

\* Every action, as Next spells it.
LEMMA NextCases ==
    ASSUME Next
    PROVE  \/ \E t \in Tasks, c \in Conns, ov \in Override : GetHit(t, c, ov)
           \/ \E t \in Tasks, c \in Conns, ov \in Override : GetMiss(t, c, ov)
           \/ \E t \in Tasks : Lookup(t)
           \/ \E t \in Tasks : Create(t)
           \/ \E t \in Tasks : Fail(t)
           \/ \E t \in Tasks : Insert(t)
           \/ \E t \in Tasks : EmitConnected(t)
           \/ \E t \in Tasks : Release(t)
           \/ \E c \in Conns : EditConnection(c)
           \/ \E c \in Conns : Invalidate(c)
           \/ \E c \in Conns : EmitDisconnected(c)
           \/ CleanupSnapshot
           \/ CleanupDecide
           \/ CleanupRemove
           \/ Tick
  BY DEF Next, GetPool, Fill, Maintenance

-----------------------------------------------------------------------------
(* Cache keys                                                              *)

\* A cache key is a key of the map, and the base key belongs to the empty
\* override alone.
LEMMA KeysOfRequests ==
    ASSUME NEW c \in Conns, NEW ov \in Override
    PROVE  /\ CacheKey(c, ov) \in Keys
           /\ BaseKey(c) \in Keys
           /\ CacheKey(c, NoOverride) = BaseKey(c)
           /\ CacheKey(c, ov) = BaseKey(c) => IsEmpty(ov)
  <1>1. BaseKey(c) \in Keys
    BY DEF BaseKey, Keys, KeySuffixes
  <1>2. /\ OrDash(ov.host) \in Hosts \union {Dash}
        /\ OrDash(ov.port) \in Ports \union {Dash}
    BY DEF Override, OrDash
  <1>3. CacheSuffix(ov) \in KeySuffixes
    BY <1>2 DEF CacheSuffix, KeySuffixes
  <1>4. CacheKey(c, ov) \in Keys
    BY <1>1, <1>3 DEF CacheKey, Keys
  <1>5. CacheSuffix(ov) # Bare
    BY DEF CacheSuffix, Bare
  <1>6. CacheKey(c, ov) = BaseKey(c) => IsEmpty(ov)
    BY <1>5 DEF CacheKey, BaseKey
  <1>7. CacheKey(c, NoOverride) = BaseKey(c)
    BY DEF CacheKey, IsEmpty
  <1> QED BY <1>1, <1>4, <1>6, <1>7

\* Distinct requests never share a key: get_pool_with_override's composite key
\* determines the connection and both fields of the override.
LEMMA CacheKeyInjective ==
    ASSUME NEW c \in Conns, NEW d \in Conns, NEW ov \in Override, NEW w \in Override,
           CacheKey(c, ov) = CacheKey(d, w)
    PROVE  c = d /\ ov = w
  <1>1. CacheSuffix(ov) # Bare /\ CacheSuffix(w) # Bare
    BY DEF CacheSuffix, Bare
  <1>2. c = d
    BY DEF CacheKey, BaseKey
  <1>3. CASE IsEmpty(ov) \/ IsEmpty(w)
    BY <1>1, <1>3 DEF CacheKey, BaseKey, IsEmpty
  <1>4. CASE ~IsEmpty(ov) /\ ~IsEmpty(w)
    <2>1. CacheSuffix(ov) = CacheSuffix(w)
      BY <1>4 DEF CacheKey
    <2>2. OrDash(ov.host) = OrDash(w.host) /\ OrDash(ov.port) = OrDash(w.port)
      BY <2>1 DEF CacheSuffix
    <2>3. ov.host = w.host /\ ov.port = w.port
      BY <2>2, OverrideAssumption DEF OrDash, Override
    <2> QED BY <1>2, <2>3 DEF Override
  <1> QED BY <1>3, <1>4

\* The map holds an entry or nothing, never both.
LEMMA NoEntryIsNone == NoEntry \notin Entry
  BY DEF NoEntry, Entry
-----------------------------------------------------------------------------
(* Type correctness                                                        *)

\* Past the lookup a call carries a pool (TaskState alone would let it be NoPool).
FillHasPool ==
    \A t \in Tasks :
        task[t].pc \in {"create", "insert", "emit", "held"} => task[t].pool \in Pool

TypeInv == TypeOK /\ FillHasPool

LEMMA InitTypeInv == Init => TypeInv
  <1> SUFFICES ASSUME Init PROVE TypeInv
    OBVIOUS
  <1>1. store \in [Conns -> [rev : Nat, rec : Records]]
    BY DEF Init
  <1>2. cleaner \in [pc : {"idle", "decide", "remove"}, at : Nat,
                     snap : [Keys -> Snapshot], doomed : SUBSET Keys]
    BY DEF Init, CleanerIdle, CleanerAt, NoSnapshot, Snapshot
  <1>3. FillHasPool
    BY DEF Init, FillHasPool, Idle
  <1> QED BY <1>1, <1>2, <1>3 DEF Init, TypeInv, TypeOK

\* Every step of the cache keeps the types.
LEMMA NextTypeInv == TypeInv /\ [Next]_vars => TypeInv'
  <1> SUFFICES ASSUME TypeInv, [Next]_vars PROVE TypeInv'
    OBVIOUS
  <1> USE DEF TypeInv, TypeOK, FillHasPool
  <1>1. ASSUME NEW t \in Tasks, NEW c \in Conns, NEW ov \in Override, GetHit(t, c, ov)
        PROVE  TypeInv'
    <2>1. pools[CacheKey(c, ov)] \in Entry
      BY <1>1, KeysOfRequests DEF GetHit, Cached
    <2>2. pools' \in [Keys -> Entry \union {NoEntry}]
      BY <1>1, <2>1 DEF GetHit, Entry
    <2>3. task' \in [Tasks -> TaskState \union {Idle}]
      BY <1>1, <2>1 DEF GetHit, Entry, TaskState
    <2>4. FillHasPool'
      BY <1>1, <2>1 DEF GetHit, Entry
    <2> QED BY <1>1, <2>2, <2>3, <2>4 DEF GetHit
  <1>2. ASSUME NEW t \in Tasks, NEW c \in Conns, NEW ov \in Override, GetMiss(t, c, ov)
        PROVE  TypeInv'
    BY <1>2 DEF GetMiss, TaskState
  <1>3. ASSUME NEW t \in Tasks, Lookup(t) PROVE TypeInv'
    <2> DEFINE c == task[t].conn
    <2> DEFINE p == [conn |-> c, rev |-> store[c].rev, cfg |-> store[c].rec,
                     target |-> Target(store[c].rec, task[t].ov)]
    <2>1. task[t] \in TaskState /\ c \in Conns
      BY <1>3 DEF Lookup, Running, Idle, TaskState
    <2>2. store[c].rec \in Configs /\ store[c].rev \in Nat
      BY <1>3, <2>1 DEF Lookup, Records
    <2>3. p \in Pool
      BY <2>1, <2>2 DEF Pool, Targets, TaskState
    <2>4. task' = [task EXCEPT ![t].pc = "create", ![t].pool = p]
      BY <1>3 DEF Lookup
    <2>5. task' \in [Tasks -> TaskState \union {Idle}]
      BY <2>1, <2>3, <2>4 DEF TaskState
    <2>6. FillHasPool'
      BY <2>3, <2>4
    <2> QED BY <1>3, <2>5, <2>6 DEF Lookup
  <1>4. ASSUME NEW t \in Tasks, Create(t) PROVE TypeInv'
    BY <1>4 DEF Create, Running, TaskState, Idle
  <1>5. ASSUME NEW t \in Tasks, Fail(t) PROVE TypeInv'
    BY <1>5 DEF Fail, Idle
  <1>6. ASSUME NEW t \in Tasks, Insert(t) PROVE TypeInv'
    <2>1. task[t] \in TaskState /\ task[t].pool \in Pool
      BY <1>6 DEF Insert, Running, Idle
    <2>2. pools' \in [Keys -> Entry \union {NoEntry}]
      BY <1>6, <2>1 DEF Insert, Entry, TaskState
    <2>3. task' \in [Tasks -> TaskState \union {Idle}] /\ FillHasPool'
      BY <1>6, <2>1 DEF Insert, TaskState
    <2> QED BY <1>6, <2>2, <2>3 DEF Insert
  <1>7. ASSUME NEW t \in Tasks, EmitConnected(t) PROVE TypeInv'
    <2>1. task[t] \in TaskState
      BY <1>7 DEF EmitConnected, Running, Idle
    <2>2. task' \in [Tasks -> TaskState \union {Idle}] /\ FillHasPool'
      BY <1>7, <2>1 DEF EmitConnected, Running, TaskState
    <2> QED BY <1>7, <2>2 DEF EmitConnected
  <1>8. ASSUME NEW t \in Tasks, Release(t) PROVE TypeInv'
    BY <1>8 DEF Release, Idle
  <1>9. ASSUME NEW c \in Conns, EditConnection(c) PROVE TypeInv'
    BY <1>9 DEF EditConnection
  <1>10. ASSUME NEW c \in Conns, Invalidate(c) PROVE TypeInv'
    <2>1. ASSUME NEW t \in Tasks
          PROVE  /\ Overtake(c)[t] \in TaskState \union {Idle}
                 /\ Overtake(c)[t].pc = task[t].pc
                 /\ Overtake(c)[t].pool = task[t].pool
      <3>1. CASE task[t] = Idle
        BY <3>1 DEF Overtake, Idle
      <3>2. CASE task[t] \in TaskState
        BY <3>2 DEF Overtake, TaskState
      <3> QED BY <3>1, <3>2
    <2>2. task' \in [Tasks -> TaskState \union {Idle}]
      BY <1>10, <2>1 DEF Invalidate, Overtake
    <2>3. FillHasPool'
      BY <1>10, <2>1 DEF Invalidate
    <2>4. pools' \in [Keys -> Entry \union {NoEntry}]
      BY <1>10, KeysOfRequests DEF Invalidate
    <2> QED BY <1>10, <2>2, <2>3, <2>4 DEF Invalidate
  <1>11. ASSUME NEW c \in Conns, EmitDisconnected(c) PROVE TypeInv'
    BY <1>11 DEF EmitDisconnected
  <1>12. CASE CleanupSnapshot
    <2>1. \A k \in Keys : Cached(k) =>
              [last_used |-> pools[k].last_used, ttl |-> pools[k].pool.cfg.ttl] \in Snapshot
      BY ConfigAssumption DEF Cached, Entry, Pool, Snapshot
    <2> QED BY <1>12, <2>1 DEF CleanupSnapshot, CleanerAt, Snapshot
  <1>13. CASE CleanupDecide
    BY <1>13 DEF CleanupDecide, CleanerIdle, CleanerAt, NoSnapshot, Snapshot
  <1>14. CASE CleanupRemove
    BY <1>14 DEF CleanupRemove, CleanerIdle, CleanerAt, NoSnapshot, Snapshot
  <1>15. CASE Tick
    BY <1>15 DEF Tick
  <1>16. CASE UNCHANGED vars
    BY <1>16 DEF vars
  <1> QED
    BY <1>1, <1>2, <1>3, <1>4, <1>5, <1>6, <1>7, <1>8, <1>9, <1>10, <1>11, <1>12,
       <1>13, <1>14, <1>15, <1>16, NextCases

\* Type correctness of the cache: every pool that is cached, created or held is a
\* pool of a known connection and of a record that connection really had.
THEOREM TypeCorrect == Spec => []TypeOK
  <1>1. Spec => []TypeInv
    BY InitTypeInv, NextTypeInv, PTL DEF Spec
  <1> QED BY <1>1, PTL DEF TypeInv
-----------------------------------------------------------------------------
(* Override isolation                                                      *)

\* OverrideIsolation alone is not inductive: the pool a call is about to insert must
\* serve that call too, and it must do so before it is inserted.
KeysServe ==
    \A c \in Conns, ov \in Override :
        Cached(CacheKey(c, ov)) => Serves(pools[CacheKey(c, ov)].pool, c, ov)

CallsServe ==
    \A t \in Tasks : task[t].pc \in {"create", "insert", "emit", "held"} =>
        Serves(task[t].pool, task[t].conn, task[t].ov)

IsolationInv == TypeInv /\ KeysServe /\ CallsServe

LEMMA InitIsolationInv == Init => IsolationInv
  <1> SUFFICES ASSUME Init PROVE IsolationInv
    OBVIOUS
  <1>1. KeysServe
    BY KeysOfRequests DEF KeysServe, Init, Cached
  <1>2. CallsServe
    BY DEF CallsServe, Init, Idle
  <1> QED BY <1>1, <1>2, InitTypeInv DEF IsolationInv

\* A step that only empties keys of the cache keeps KeysServe.
LEMMA RemovalKeepsKeysServe ==
    ASSUME KeysServe, \A k \in Keys : pools'[k] \in {pools[k], NoEntry}
    PROVE  KeysServe'
  <1> SUFFICES ASSUME NEW c \in Conns, NEW ov \in Override, Cached(CacheKey(c, ov))'
               PROVE  Serves(pools[CacheKey(c, ov)].pool, c, ov)'
    BY DEF KeysServe
  <1>1. pools'[CacheKey(c, ov)] = pools[CacheKey(c, ov)] /\ Cached(CacheKey(c, ov))
    BY KeysOfRequests DEF Cached
  <1> QED BY <1>1 DEF KeysServe, Serves

\* Isolation survives every step: a hit hands out what its key stands for, and an
\* insert writes only under the key of its own request.
LEMMA NextIsolationInv == IsolationInv /\ [Next]_vars => IsolationInv'
  <1> SUFFICES ASSUME IsolationInv, [Next]_vars PROVE KeysServe' /\ CallsServe'
    BY NextTypeInv DEF IsolationInv
  <1> USE DEF IsolationInv
  <1>t. /\ pools \in [Keys -> Entry \union {NoEntry}]
        /\ task \in [Tasks -> TaskState \union {Idle}]
    BY DEF TypeInv, TypeOK
  <1>1. ASSUME NEW t \in Tasks, NEW c \in Conns, NEW ov \in Override, GetHit(t, c, ov)
        PROVE  KeysServe' /\ CallsServe'
    <2> DEFINE k == CacheKey(c, ov)
    <2>1. k \in Keys /\ pools[k] \in Entry
      BY <1>1, <1>t, KeysOfRequests DEF GetHit, Cached
    <2>2. pools'[k].pool = pools[k].pool /\ \A j \in Keys \ {k} : pools'[j] = pools[j]
      BY <1>1, <1>t, <2>1 DEF GetHit, Entry
    <2>3. KeysServe'
      BY <1>1, <2>1, <2>2, KeysOfRequests DEF KeysServe, GetHit, Cached, Serves
    <2>4. Serves(pools[k].pool, c, ov)
      BY <1>1 DEF KeysServe, GetHit
    <2>5. CallsServe'
      BY <1>1, <1>t, <2>4 DEF CallsServe, GetHit, Serves
    <2> QED BY <2>3, <2>5
  <1>2. ASSUME NEW t \in Tasks, NEW c \in Conns, NEW ov \in Override, GetMiss(t, c, ov)
        PROVE  KeysServe' /\ CallsServe'
    BY <1>2, <1>t DEF GetMiss, KeysServe, CallsServe, Cached
  <1>3. ASSUME NEW t \in Tasks, Lookup(t) PROVE KeysServe' /\ CallsServe'
    <2>1. task[t] \in TaskState
      BY <1>3, <1>t DEF Lookup, Running, Idle
    <2>2. Serves(task'[t].pool, task'[t].conn, task'[t].ov)
      BY <1>3, <1>t, <2>1 DEF Lookup, Serves, TaskState
    <2>3. CallsServe'
      BY <1>3, <1>t, <2>2 DEF CallsServe, Lookup
    <2> QED BY <1>3, <2>3 DEF Lookup, KeysServe, Cached
  <1>4. ASSUME NEW t \in Tasks, Create(t) PROVE KeysServe' /\ CallsServe'
    <2>1. task[t] \in TaskState
      BY <1>4, <1>t DEF Create, Running, Idle
    <2>2. CallsServe'
      BY <1>4, <1>t, <2>1 DEF CallsServe, Create, Running, TaskState
    <2> QED BY <1>4, <2>2 DEF Create, KeysServe, Cached
  <1>5. ASSUME NEW t \in Tasks, Fail(t) PROVE KeysServe' /\ CallsServe'
    BY <1>5, <1>t DEF Fail, KeysServe, CallsServe, Cached, Idle
  <1>6. ASSUME NEW t \in Tasks, Insert(t) PROVE KeysServe' /\ CallsServe'
    <2>1. task[t] \in TaskState
      BY <1>6, <1>t DEF Insert, Running, Idle
    <2>2. Serves(task[t].pool, task[t].conn, task[t].ov)
      BY <1>6 DEF CallsServe, Insert, Running
    <2>3. ASSUME NEW c \in Conns, NEW ov \in Override, Cached(CacheKey(c, ov))'
          PROVE  Serves(pools[CacheKey(c, ov)].pool, c, ov)'
      <3>1. CASE CacheKey(c, ov) = KeyOf(t)
        <4>1. c = task[t].conn /\ ov = task[t].ov
          BY <2>1, <3>1, CacheKeyInjective DEF KeyOf, TaskState
        <4>2. pools'[CacheKey(c, ov)].pool = task[t].pool
          BY <1>6, <1>t, <3>1, KeysOfRequests DEF Insert
        <4> QED BY <2>2, <4>1, <4>2 DEF Serves
      <3>2. CASE CacheKey(c, ov) # KeyOf(t)
        <4>1. pools'[CacheKey(c, ov)] = pools[CacheKey(c, ov)]
          BY <1>6, <1>t, <3>2, KeysOfRequests DEF Insert
        <4> QED BY <2>3, <4>1 DEF KeysServe, Cached, Serves
      <3> QED BY <3>1, <3>2
    <2>4. CallsServe'
      BY <1>6, <1>t, <2>1, <2>2 DEF CallsServe, Insert, TaskState
    <2> QED BY <2>3, <2>4 DEF KeysServe
  <1>7. ASSUME NEW t \in Tasks, EmitConnected(t) PROVE KeysServe' /\ CallsServe'
    <2>1. task[t] \in TaskState
      BY <1>7, <1>t DEF EmitConnected, Running, Idle
    <2>2. CallsServe'
      BY <1>7, <1>t, <2>1 DEF CallsServe, EmitConnected, Running, TaskState
    <2> QED BY <1>7, <2>2 DEF EmitConnected, KeysServe, Cached
  <1>8. ASSUME NEW t \in Tasks, Release(t) PROVE KeysServe' /\ CallsServe'
    BY <1>8, <1>t DEF Release, KeysServe, CallsServe, Cached, Idle
  <1>9. ASSUME NEW c \in Conns, EditConnection(c) PROVE KeysServe' /\ CallsServe'
    BY <1>9 DEF EditConnection, KeysServe, CallsServe, Cached
  <1>10. ASSUME NEW c \in Conns, Invalidate(c) PROVE KeysServe' /\ CallsServe'
    <2>1. KeysServe'
      BY <1>10, <1>t, KeysOfRequests, RemovalKeepsKeysServe DEF Invalidate
    <2>2. ASSUME NEW t \in Tasks
          PROVE  /\ task'[t].pc = task[t].pc
                 /\ task[t].pc # "idle" => /\ task'[t].pool = task[t].pool
                                           /\ task'[t].conn = task[t].conn
                                           /\ task'[t].ov = task[t].ov
      <3>1. CASE task[t] = Idle
        BY <1>10, <3>1 DEF Invalidate, Overtake, Idle
      <3>2. CASE task[t] \in TaskState
        BY <1>10, <3>2 DEF Invalidate, Overtake, TaskState
      <3> QED BY <1>t, <3>1, <3>2
    <2>3. CallsServe'
      BY <2>2 DEF CallsServe
    <2> QED BY <2>1, <2>3
  <1>11. ASSUME NEW c \in Conns, EmitDisconnected(c) PROVE KeysServe' /\ CallsServe'
    BY <1>11 DEF EmitDisconnected, KeysServe, CallsServe, Cached
  <1>12. CASE CleanupSnapshot
    BY <1>12 DEF CleanupSnapshot, KeysServe, CallsServe, Cached
  <1>13. CASE CleanupDecide
    BY <1>13 DEF CleanupDecide, KeysServe, CallsServe, Cached
  <1>14. CASE CleanupRemove
    <2>1. KeysServe'
      BY <1>14, <1>t, RemovalKeepsKeysServe DEF CleanupRemove
    <2> QED BY <1>14, <2>1 DEF CleanupRemove, CallsServe
  <1>15. CASE Tick
    BY <1>15 DEF Tick, KeysServe, CallsServe, Cached
  <1>16. CASE UNCHANGED vars
    BY <1>16 DEF vars, KeysServe, CallsServe, Cached
  <1> QED
    BY <1>1, <1>2, <1>3, <1>4, <1>5, <1>6, <1>7, <1>8, <1>9, <1>10, <1>11, <1>12,
       <1>13, <1>14, <1>15, <1>16, NextCases

\* For any number of connections, overrides and concurrent callers: no cache key ever
\* holds a pool that dials something else than the key stands for, and no caller
\* is handed one.
THEOREM Isolation == Spec => []OverrideIsolation
  <1>1. Spec => []IsolationInv
    BY InitIsolationInv, NextIsolationInv, PTL DEF Spec
  <1>2. IsolationInv => OverrideIsolation
    BY DEF IsolationInv, KeysServe, CallsServe, OverrideIsolation, Running
  <1> QED BY <1>1, <1>2, PTL
-----------------------------------------------------------------------------
(* Staleness                                                               *)

\* invalidate flushes no revision that has not been written yet.
FlushedBehind == \A c \in Conns : flushed[c] <= store[c].rev

\* A base fill that read its record before a later invalidate knows it.
FillsKnow ==
    \A t \in Tasks :
        (/\ task[t].pc \in {"create", "insert"}
         /\ IsEmpty(task[t].ov)
         /\ task[t].pool.rev < flushed[task[t].conn]) => task[t].overtaken

StaleInv == TypeInv /\ FlushedBehind /\ FillsKnow /\ StaleOnlyIfOvertaken

LEMMA InitStaleInv == Init => StaleInv
  <1> SUFFICES ASSUME Init PROVE StaleInv
    OBVIOUS
  <1>1. FlushedBehind
    <2>1. \A c \in Conns : flushed[c] = 0 /\ store[c].rev = 0
      BY DEF Init
    <2>2. 0 <= 0
      OBVIOUS
    <2> QED BY <2>1, <2>2, Zenon DEF FlushedBehind
  <1>2. FillsKnow
    BY DEF Init, FillsKnow, Idle
  <1>3. StaleOnlyIfOvertaken
    BY KeysOfRequests DEF Init, StaleOnlyIfOvertaken, BaseKey, Keys, KeySuffixes
  <1> QED BY <1>1, <1>2, <1>3, InitTypeInv DEF StaleInv

\* A step that touches neither the records nor the flushes and only empties keys, or
\* touches an entry's last_used, leaves the staleness facts of the cache alone.
LEMMA TouchKeepsStale ==
    ASSUME StaleOnlyIfOvertaken, flushed' = flushed,
           \A c \in Conns :
               \/ pools'[BaseKey(c)] = NoEntry
               \/ /\ pools[BaseKey(c)] # NoEntry
                  /\ pools'[BaseKey(c)].pool = pools[BaseKey(c)].pool
                  /\ pools'[BaseKey(c)].overtaken = pools[BaseKey(c)].overtaken
    PROVE  StaleOnlyIfOvertaken'
  BY DEF StaleOnlyIfOvertaken

\* A call that is not between its lookup and its insert owes FillsKnow nothing.
LEMMA NextStaleInv == StaleInv /\ [Next]_vars => StaleInv'
  <1> SUFFICES ASSUME StaleInv, [Next]_vars
               PROVE  FlushedBehind' /\ FillsKnow' /\ StaleOnlyIfOvertaken'
    BY NextTypeInv DEF StaleInv
  <1> USE DEF StaleInv
  <1>t. /\ store \in [Conns -> [rev : Nat, rec : Records]]
        /\ flushed \in [Conns -> Nat]
        /\ pools \in [Keys -> Entry \union {NoEntry}]
        /\ task \in [Tasks -> TaskState \union {Idle}]
    BY DEF TypeInv, TypeOK
  <1>b. \A c \in Conns : BaseKey(c) \in Keys
    BY DEF BaseKey, Keys, KeySuffixes
  <1>1. ASSUME NEW t \in Tasks, NEW c \in Conns, NEW ov \in Override, GetHit(t, c, ov)
        PROVE  FlushedBehind' /\ FillsKnow' /\ StaleOnlyIfOvertaken'
    <2> DEFINE k == CacheKey(c, ov)
    <2>1. k \in Keys /\ pools[k] \in Entry
      BY <1>1, <1>t, KeysOfRequests DEF GetHit, Cached
    <2>2. /\ pools'[k].pool = pools[k].pool
          /\ pools'[k].overtaken = pools[k].overtaken
          /\ \A j \in Keys \ {k} : pools'[j] = pools[j]
      BY <1>1, <1>t, <2>1 DEF GetHit, Entry
    <2>3. StaleOnlyIfOvertaken'
      BY <1>1, <1>b, <2>2, TouchKeepsStale DEF GetHit, Cached
    <2>4. FillsKnow'
      BY <1>1, <1>t DEF FillsKnow, GetHit
    <2> QED BY <1>1, <2>3, <2>4 DEF GetHit, FlushedBehind
  <1>2. ASSUME NEW t \in Tasks, NEW c \in Conns, NEW ov \in Override, GetMiss(t, c, ov)
        PROVE  FlushedBehind' /\ FillsKnow' /\ StaleOnlyIfOvertaken'
    BY <1>2, <1>t DEF GetMiss, FlushedBehind, FillsKnow, StaleOnlyIfOvertaken
  <1>3. ASSUME NEW t \in Tasks, Lookup(t)
        PROVE  FlushedBehind' /\ FillsKnow' /\ StaleOnlyIfOvertaken'
    <2>1. task[t] \in TaskState
      BY <1>3, <1>t DEF Lookup, Running, Idle
    <2>2. task'[t].pool.rev = store[task[t].conn].rev /\ task'[t].conn = task[t].conn
      BY <1>3, <1>t, <2>1 DEF Lookup, TaskState
    <2>3. ~(task'[t].pool.rev < flushed[task'[t].conn])
      BY <1>t, <2>1, <2>2 DEF FlushedBehind, TaskState
    <2>4. FillsKnow'
      BY <1>3, <1>t, <2>3 DEF FillsKnow, Lookup
    <2> QED BY <1>3, <2>4 DEF Lookup, FlushedBehind, StaleOnlyIfOvertaken
  <1>4. ASSUME NEW t \in Tasks, Create(t)
        PROVE  FlushedBehind' /\ FillsKnow' /\ StaleOnlyIfOvertaken'
    <2>1. task[t] \in TaskState
      BY <1>4, <1>t DEF Create, Running, Idle
    <2>2. FillsKnow'
      BY <1>4, <1>t, <2>1 DEF FillsKnow, Create, Running, TaskState
    <2> QED BY <1>4, <2>2 DEF Create, FlushedBehind, StaleOnlyIfOvertaken
  <1>5. ASSUME NEW t \in Tasks, Fail(t)
        PROVE  FlushedBehind' /\ FillsKnow' /\ StaleOnlyIfOvertaken'
    BY <1>5, <1>t DEF Fail, FlushedBehind, FillsKnow, StaleOnlyIfOvertaken, Idle
  <1>6. ASSUME NEW t \in Tasks, Insert(t)
        PROVE  FlushedBehind' /\ FillsKnow' /\ StaleOnlyIfOvertaken'
    <2>1. task[t] \in TaskState
      BY <1>6, <1>t DEF Insert, Running, Idle
    <2>2. ASSUME NEW c \in Conns, pools'[BaseKey(c)] # NoEntry,
                 pools'[BaseKey(c)].pool.rev < flushed'[c]
          PROVE  pools'[BaseKey(c)].overtaken
      <3>1. CASE BaseKey(c) = KeyOf(t)
        <4>1. c = task[t].conn /\ IsEmpty(task[t].ov)
          <5>1. CacheKey(task[t].conn, task[t].ov) = CacheKey(c, NoOverride)
            BY <3>1 DEF KeyOf, CacheKey, IsEmpty
          <5> QED BY <2>1, <5>1, CacheKeyInjective
                  DEF TaskState, NoOverride, Override, IsEmpty
        <4>2. /\ pools'[BaseKey(c)].pool = task[t].pool
              /\ pools'[BaseKey(c)].overtaken = task[t].overtaken
          BY <1>6, <1>t, <1>b, <3>1 DEF Insert
        <4> QED BY <1>6, <2>2, <4>1, <4>2 DEF FillsKnow, Insert, Running
      <3>2. CASE BaseKey(c) # KeyOf(t)
        <4>1. pools'[BaseKey(c)] = pools[BaseKey(c)] /\ flushed' = flushed
          BY <1>6, <1>t, <1>b, <3>2 DEF Insert
        <4> QED BY <2>2, <4>1 DEF StaleOnlyIfOvertaken
      <3> QED BY <3>1, <3>2
    <2>3. FillsKnow'
      BY <1>6, <1>t, <2>1 DEF FillsKnow, Insert, TaskState
    <2> QED BY <1>6, <2>2, <2>3 DEF StaleOnlyIfOvertaken, FlushedBehind, Insert
  <1>7. ASSUME NEW t \in Tasks, EmitConnected(t)
        PROVE  FlushedBehind' /\ FillsKnow' /\ StaleOnlyIfOvertaken'
    <2>1. task[t] \in TaskState
      BY <1>7, <1>t DEF EmitConnected, Running, Idle
    <2>2. FillsKnow'
      BY <1>7, <1>t, <2>1 DEF FillsKnow, EmitConnected, TaskState
    <2> QED BY <1>7, <2>2 DEF EmitConnected, FlushedBehind, StaleOnlyIfOvertaken
  <1>8. ASSUME NEW t \in Tasks, Release(t)
        PROVE  FlushedBehind' /\ FillsKnow' /\ StaleOnlyIfOvertaken'
    BY <1>8, <1>t DEF Release, FlushedBehind, FillsKnow, StaleOnlyIfOvertaken, Idle
  <1>9. ASSUME NEW c \in Conns, EditConnection(c)
        PROVE  FlushedBehind' /\ FillsKnow' /\ StaleOnlyIfOvertaken'
    <2>1. \A d \in Conns : store'[d].rev >= store[d].rev /\ store'[d].rev \in Nat
      BY <1>9, <1>t DEF EditConnection
    <2>2. FlushedBehind'
      BY <1>9, <1>t, <2>1 DEF FlushedBehind, EditConnection
    <2> QED BY <1>9, <2>2 DEF EditConnection, FillsKnow, StaleOnlyIfOvertaken
  <1>10. ASSUME NEW c \in Conns, Invalidate(c)
         PROVE  FlushedBehind' /\ FillsKnow' /\ StaleOnlyIfOvertaken'
    <2>1. FlushedBehind'
      BY <1>10, <1>t DEF FlushedBehind, Invalidate
    <2>2. StaleOnlyIfOvertaken'
      <3> SUFFICES ASSUME NEW d \in Conns, pools'[BaseKey(d)] # NoEntry,
                          pools'[BaseKey(d)].pool.rev < flushed'[d]
                   PROVE  pools'[BaseKey(d)].overtaken
        BY DEF StaleOnlyIfOvertaken
      <3>1. d # c /\ BaseKey(d) # BaseKey(c)
        BY <1>10, <1>t, <1>b DEF Invalidate, BaseKey
      <3>2. pools'[BaseKey(d)] = pools[BaseKey(d)] /\ flushed'[d] = flushed[d]
        BY <1>10, <1>t, <1>b, <3>1 DEF Invalidate
      <3> QED BY <3>2 DEF StaleOnlyIfOvertaken
    <2>3. FillsKnow'
      <3> SUFFICES ASSUME NEW t \in Tasks, task'[t].pc \in {"create", "insert"},
                          IsEmpty(task'[t].ov),
                          task'[t].pool.rev < flushed'[task'[t].conn]
                   PROVE  task'[t].overtaken
        BY DEF FillsKnow
      <3>1. task[t] \in TaskState
        BY <1>10, <1>t DEF Invalidate, Overtake, Idle
      <3>2. CASE task[t].conn = c
        BY <1>10, <3>1, <3>2 DEF Invalidate, Overtake, TaskState
      <3>3. CASE task[t].conn # c
        <4>1. task'[t] = task[t] /\ flushed'[task[t].conn] = flushed[task[t].conn]
          BY <1>10, <1>t, <3>1, <3>3 DEF Invalidate, Overtake, TaskState
        <4> QED BY <4>1 DEF FillsKnow
      <3> QED BY <3>2, <3>3
    <2> QED BY <2>1, <2>2, <2>3
  <1>11. ASSUME NEW c \in Conns, EmitDisconnected(c)
         PROVE  FlushedBehind' /\ FillsKnow' /\ StaleOnlyIfOvertaken'
    BY <1>11 DEF EmitDisconnected, FlushedBehind, FillsKnow, StaleOnlyIfOvertaken
  <1>12. CASE CleanupSnapshot
    BY <1>12 DEF CleanupSnapshot, FlushedBehind, FillsKnow, StaleOnlyIfOvertaken
  <1>13. CASE CleanupDecide
    BY <1>13 DEF CleanupDecide, FlushedBehind, FillsKnow, StaleOnlyIfOvertaken
  <1>14. CASE CleanupRemove
    <2>1. StaleOnlyIfOvertaken'
      BY <1>14, <1>b, TouchKeepsStale DEF CleanupRemove
    <2> QED BY <1>14, <2>1 DEF CleanupRemove, FlushedBehind, FillsKnow
  <1>15. CASE Tick
    BY <1>15 DEF Tick, FlushedBehind, FillsKnow, StaleOnlyIfOvertaken
  <1>16. CASE UNCHANGED vars
    BY <1>16 DEF vars, FlushedBehind, FillsKnow, StaleOnlyIfOvertaken
  <1> QED
    BY <1>1, <1>2, <1>3, <1>4, <1>5, <1>6, <1>7, <1>8, <1>9, <1>10, <1>11, <1>12,
       <1>13, <1>14, <1>15, <1>16, NextCases

\* For any number of edits, callers and clean-ups: a pool older than the last invalidate
\* of its connection is served only if its fill straddled an invalidate.
THEOREM Staleness == Spec => []StaleOnlyIfOvertaken
  <1>1. Spec => []StaleInv
    BY InitStaleInv, NextStaleInv, PTL DEF Spec
  <1> QED BY <1>1, PTL DEF StaleInv

-----------------------------------------------------------------------------
(* Clean-up                                                                *)

\* A clean-up under way knows of a cached entry, unless it was used or replaced since the
\* snapshot, what it must: before the decision the copied values are the entry's, after
\* it a doomed entry has expired and one that is spared had not when the snapshot was
\* taken.
UsedSince(k) == pools[k].last_used >= cleaner.at
KnowsEntry(k) ==
    cleaner.snap[k] = [last_used |-> pools[k].last_used, ttl |-> pools[k].pool.cfg.ttl]
JudgedRightly(k) ==
    IF k \in cleaner.doomed THEN now - pools[k].last_used > pools[k].pool.cfg.ttl
    ELSE cleaner.at - pools[k].last_used <= pools[k].pool.cfg.ttl

CleanInv ==
    /\ TypeInv
    /\ cleaner.pc # "idle" => cleaner.at <= now
    /\ cleaner.pc = "decide" => \A k \in Keys : Cached(k) => UsedSince(k) \/ KnowsEntry(k)
    /\ cleaner.pc = "remove" => \A k \in Keys : Cached(k) => UsedSince(k) \/ JudgedRightly(k)

LEMMA TtlIsNat ==
    ASSUME TypeInv, NEW k \in Keys, Cached(k)
    PROVE  pools[k].last_used \in Nat /\ pools[k].pool.cfg.ttl \in Nat
  <1>1. pools[k] \in Entry
    BY DEF TypeInv, TypeOK, Cached
  <1>2. pools[k].pool.cfg \in Configs
    BY <1>1 DEF Entry, Pool
  <1> QED BY <1>1, <1>2, ConfigAssumption DEF Entry

\* What the callers and the clock do to the cache while a clean-up is under way.
LEMMA OthersKeepClean ==
    ASSUME CleanInv, TypeInv', cleaner' = cleaner, now' \in {now, now + 1},
           \A k \in Keys : \/ pools'[k] = pools[k]
                           \/ pools'[k] = NoEntry
                           \/ pools'[k].last_used = now
    PROVE  CleanInv'
  <1>1. cleaner.at \in Nat /\ now \in Nat
    BY DEF CleanInv, TypeInv, TypeOK
  <1>2. cleaner'.pc # "idle" => cleaner'.at <= now'
    BY <1>1 DEF CleanInv
  <1>3. ASSUME cleaner'.pc = "decide", NEW k \in Keys, Cached(k)'
        PROVE  UsedSince(k)' \/ KnowsEntry(k)'
    BY <1>1, <1>3 DEF CleanInv, Cached, UsedSince, KnowsEntry
  <1>4. ASSUME cleaner'.pc = "remove", NEW k \in Keys, Cached(k)'
        PROVE  UsedSince(k)' \/ JudgedRightly(k)'
    <2>1. CASE pools'[k] = pools[k]
      <3>1. pools[k].last_used \in Nat /\ pools[k].pool.cfg.ttl \in Nat
        BY <1>4, <2>1, TtlIsNat DEF Cached, CleanInv
      <3> QED BY <1>1, <1>4, <2>1, <3>1 DEF CleanInv, Cached, UsedSince, JudgedRightly
    <2>2. CASE pools'[k].last_used = now
      BY <1>1, <1>4, <2>2 DEF CleanInv, UsedSince
    <2> QED BY <1>4, <2>1, <2>2 DEF Cached
  <1> QED BY <1>2, <1>3, <1>4 DEF CleanInv

\* The decision, taken over entries the snapshot knows or that were used since.
LEMMA DecidedRightly ==
    ASSUME CleanInv, CleanupDecide, NEW k \in Keys, Cached(k), ~UsedSince(k)
    PROVE  IF Expired(cleaner.snap[k]) THEN now - pools[k].last_used > pools[k].pool.cfg.ttl
           ELSE cleaner.at - pools[k].last_used <= pools[k].pool.cfg.ttl
  <1>1. cleaner.at \in Nat /\ now \in Nat /\ cleaner.at <= now
    BY DEF CleanInv, TypeInv, TypeOK, CleanupDecide
  <1>2. pools[k].last_used \in Nat /\ pools[k].pool.cfg.ttl \in Nat
    BY TtlIsNat DEF CleanInv
  <1>3. cleaner.snap[k] = [last_used |-> pools[k].last_used, ttl |-> pools[k].pool.cfg.ttl]
    BY DEF CleanInv, CleanupDecide, KnowsEntry
  <1>4. cleaner.snap[k] # NoEntry
    BY <1>3 DEF NoEntry
  <1> QED BY <1>1, <1>2, <1>3, <1>4 DEF Expired

LEMMA NextCleanInv == CleanInv /\ [Next]_vars => CleanInv'
  <1> SUFFICES ASSUME CleanInv, [Next]_vars PROVE CleanInv'
    OBVIOUS
  <1> TypeInv'
    BY NextTypeInv DEF CleanInv
  <1>1. ASSUME NEW t \in Tasks, NEW c \in Conns, NEW ov \in Override, GetHit(t, c, ov)
        PROVE  CleanInv'
    <2>1. pools[CacheKey(c, ov)] \in Entry
      BY <1>1, KeysOfRequests DEF GetHit, Cached, CleanInv, TypeInv, TypeOK
    <2>2. \A k \in Keys : pools'[k] = pools[k] \/ pools'[k].last_used = now
      BY <1>1, <2>1 DEF GetHit, CleanInv, TypeInv, TypeOK, Entry
    <2> QED BY <1>1, <2>2, OthersKeepClean DEF GetHit
  <1>2. ASSUME NEW t \in Tasks, Insert(t)
        PROVE  CleanInv'
    <2>1. \A k \in Keys : pools'[k] = pools[k] \/ pools'[k].last_used = now
      BY <1>2 DEF Insert, CleanInv, TypeInv, TypeOK
    <2> QED BY <1>2, <2>1, OthersKeepClean DEF Insert
  <1>3. ASSUME NEW c \in Conns, Invalidate(c)
        PROVE  CleanInv'
    <2>1. \A k \in Keys : pools'[k] = pools[k] \/ pools'[k] = NoEntry
      BY <1>3 DEF Invalidate, CleanInv, TypeInv, TypeOK
    <2> QED BY <1>3, <2>1, OthersKeepClean DEF Invalidate
  <1>4. CASE CleanupSnapshot
    <2>1. /\ cleaner'.pc = "decide" /\ cleaner'.at = now
          /\ \A k \in Keys : Cached(k) => cleaner'.snap[k] =
               [last_used |-> pools[k].last_used, ttl |-> pools[k].pool.cfg.ttl]
      BY <1>4 DEF CleanupSnapshot, CleanerAt
    <2>2. UNCHANGED << pools, now >> /\ now <= now
      BY <1>4 DEF CleanupSnapshot, CleanInv, TypeInv, TypeOK
    <2>3. \A k \in Keys : Cached(k)' => KnowsEntry(k)'
      BY <2>1, <2>2 DEF Cached, KnowsEntry
    <2> QED BY <2>1, <2>2, <2>3 DEF CleanInv
  <1>5. CASE CleanupDecide
    <2>1. CASE cleaner' = CleanerIdle
      <3>1. cleaner'.pc = "idle"
        BY <2>1 DEF CleanerIdle, CleanerAt
      <3> QED BY <3>1 DEF CleanInv
    <2>2. CASE cleaner' # CleanerIdle
      <3>1. /\ cleaner'.pc = "remove" /\ cleaner'.at = cleaner.at
            /\ cleaner'.doomed = {k \in Keys : Expired(cleaner.snap[k])}
            /\ UNCHANGED << pools, now >>
        BY <1>5, <2>2 DEF CleanupDecide, CleanerAt
      <3>2. ASSUME NEW k \in Keys, Cached(k)'
            PROVE  UsedSince(k)' \/ JudgedRightly(k)'
        BY <1>5, <3>1, <3>2, DecidedRightly DEF Cached, UsedSince, JudgedRightly
      <3> QED BY <1>5, <3>1, <3>2 DEF CleanupDecide, CleanInv
    <2> QED BY <2>1, <2>2
  <1>6. CASE CleanupRemove
    BY <1>6 DEF CleanupRemove, CleanInv, CleanerIdle, CleanerAt
  <1>7. CASE Tick
    BY <1>7, OthersKeepClean DEF Tick
  <1>8. CASE cleaner' = cleaner /\ now' = now /\ pools' = pools
    BY <1>8, OthersKeepClean
  <1> QED
    BY <1>1, <1>2, <1>3, <1>4, <1>5, <1>6, <1>7, <1>8, NextCases
    DEF GetMiss, Lookup, Create, Fail, EmitConnected, Release, EditConnection,
        EmitDisconnected, vars

\* A clean-up leaves no entry that had expired when it looked, and evicts none that is
\* fresh and untouched, whatever the callers do between its snapshot and its removal.
THEOREM CleansUp == Spec => CleansUpExpired
  <1> DEFINE Fresh(k) ==
               /\ pools'[k] # NoEntry => cleaner.at - pools'[k].last_used <= pools'[k].pool.cfg.ttl
               /\ Cached(k) /\ pools'[k] = NoEntry =>
                    \/ now - pools[k].last_used > pools[k].pool.cfg.ttl
                    \/ pools[k].last_used >= cleaner.at
             Step == cleaner.pc # "idle" /\ cleaner'.pc = "idle" => \A k \in Keys : Fresh(k)
  <1>1. ASSUME CleanInv, Next PROVE Step
    <2> SUFFICES ASSUME cleaner.pc # "idle", cleaner'.pc = "idle", NEW k \in Keys PROVE Fresh(k)
      OBVIOUS
    <2>1. CleanupDecide \/ CleanupRemove
      BY <1>1, NextCases
      DEF GetHit, GetMiss, Lookup, Create, Fail, Insert, EmitConnected, Release,
          EditConnection, Invalidate, EmitDisconnected, CleanupSnapshot, Tick
    <2>2. Cached(k) => /\ pools[k].last_used \in Nat /\ pools[k].pool.cfg.ttl \in Nat
                       /\ cleaner.at \in Nat
      BY <1>1, TtlIsNat DEF CleanInv, TypeInv, TypeOK
    <2>3. CASE CleanupDecide
      <3>1. ~Expired(cleaner.snap[k]) /\ pools' = pools
        BY <2>3 DEF CleanupDecide, CleanerAt
      <3> QED BY <1>1, <2>2, <2>3, <3>1, DecidedRightly DEF Cached, UsedSince
    <2>4. CASE CleanupRemove
      <3>1. pools'[k] = IF k \in cleaner.doomed /\ Cached(k) THEN NoEntry ELSE pools[k]
        BY <2>4 DEF CleanupRemove
      <3>2. Cached(k) => UsedSince(k) \/ JudgedRightly(k)
        BY <1>1, <2>4 DEF CleanInv, CleanupRemove
      <3> QED BY <2>2, <3>1, <3>2 DEF Cached, UsedSince, JudgedRightly
    <2> QED BY <2>1, <2>3, <2>4
  <1>2. Init => CleanInv
    BY InitTypeInv DEF Init, CleanInv, CleanerIdle, CleanerAt
  <1>3. CleanInv /\ [Next]_vars => [Step]_vars
    BY <1>1
  <1>4. Spec => [][Step]_vars
    BY <1>2, <1>3, NextCleanInv, PTL DEF Spec
  <1> QED BY <1>4 DEF CleansUpExpired

-----------------------------------------------------------------------------
(* The executions and the pool cache                                       *)

\* What an execution does to the pool cache is a step of the cache.
LEMMA StepsOfTheCache ==
    ASSUME [DbNext]_dbVars
    PROVE  [Next]_vars
  <1>1. ASSUME NEW t \in Tasks, Begin(t)
        PROVE  Next
    BY <1>1 DEF Begin, Next, GetPool
  <1>2. ASSUME NEW t \in Tasks, FillStep(t)
        PROVE  Next
    BY <1>2 DEF FillStep, Next, Fill
  <1>3. ASSUME NEW t \in Tasks, StartStatements(t) \/ Return(t)
        PROVE  Next \/ UNCHANGED vars
    BY <1>3 DEF StartStatements, Return, Next
  <1>4. ASSUME NEW t \in Tasks,
               \/ Cancel(t) \/ TimerTick(t) \/ PollCancelled(t) \/ PollStatements(t)
               \/ PollDeadline(t) \/ WriteLog(t)
        PROVE  UNCHANGED vars
    BY <1>4 DEF Cancel, TimerTick, PollCancelled, PollStatements, PollDeadline, WriteLog
  <1>5. CASE CleanupQueryLog
    BY <1>5 DEF CleanupQueryLog
  <1>6. CASE Maintenance
    BY <1>6 DEF Next
  <1>7. CASE UNCHANGED dbVars
    BY <1>7 DEF dbVars, vars
  <1> QED BY <1>1, <1>2, <1>3, <1>4, <1>5, <1>6, <1>7 DEF DbNext, RunStep

\* Executions of db blocks use the pool cache by its protocol alone.
THEOREM UsesTheCache == DbSpec => Spec
  <1>1. DbInit => Init
    BY DEF DbInit
  <1> QED BY <1>1, StepsOfTheCache, PTL DEF DbSpec, Spec

\* So no execution, cancelled, late or refused, runs on a pool of another target.
THEOREM RunsIsolated == DbSpec => []OverrideIsolation
  BY UsesTheCache, Isolation, PTL

-----------------------------------------------------------------------------
(* The executions                                                          *)

RunRecord ==
    [pc : {"pool", "exec", "log", "done"},
     asked : Timeouts \union {Default}, explain : BOOLEAN, stmts : Nat,
     limit : Nat, left : Nat, results : Seq(StmtResult),
     cancelled : BOOLEAN, outcome : Outcomes]
RunsOK == run \in [Tasks -> RunRecord \union {RunIdle}]

\* Nothing has run before the first statement, while statements are outstanding some
\* have no result, and once the outcome is settled it says whether all have; the pool is
\* held from the first statement on.
RunInv(t) ==
    /\ RunAt(t, "pool") => run[t].results = <<>>
    /\ RunAt(t, "exec") => Len(run[t].results) < run[t].stmts
    /\ RunAt(t, "log") => (run[t].outcome = "ok" <=> Len(run[t].results) = run[t].stmts)
    /\ run[t].pc \in {"exec", "log", "done"} => Running(t, "held")

LogRows == [status : {"success", "error"}, ran : Nat, stmts : Nat]
LogOK == queryLog \in Seq(LogRows)

DbInv ==
    /\ TypeInv
    /\ RunsOK
    /\ \A t \in Tasks : RunInv(t)
    /\ LogOK
    /\ LogTellsOutcome

LEMMA InitDbInv == DbInit => DbInv
  <1> SUFFICES ASSUME DbInit PROVE DbInv
    OBVIOUS
  <1>1. TypeInv
    BY InitTypeInv DEF DbInit
  <1>2. RunsOK
    BY DEF DbInit, RunsOK
  <1>3. \A t \in Tasks : RunInv(t)
    BY DEF DbInit, RunInv, RunAt, RunIdle
  <1>4. LogOK /\ LogTellsOutcome
    BY DEF DbInit, LogOK, LogTellsOutcome
  <1> QED BY <1>1, <1>2, <1>3, <1>4 DEF DbInv

LEMMA RunType ==
    ASSUME DbInv, NEW t \in Tasks
    PROVE  /\ ~RunAt(t, "idle") => run[t] \in RunRecord
           /\ RunAt(t, "idle") => run[t] = RunIdle
  BY DEF DbInv, RunsOK, RunAt, RunIdle, RunRecord

\* The results after a poll.
LEMMA PollResults ==
    ASSUME DbInv, NEW t \in Tasks, RunAt(t, "exec"), NEW rs \in Progress(t)
    PROVE  rs \in Seq(StmtResult) /\ Len(rs) <= run[t].stmts
  <1>1. run[t].results \in Seq(StmtResult) /\ run[t].stmts \in Nat
        /\ Len(run[t].results) < run[t].stmts
    BY RunType DEF DbInv, RunInv, RunAt, RunRecord
  <1>2. PICK more \in BoundedSeq(StmtResult, run[t].stmts - Len(run[t].results)) :
          rs = run[t].results \o more
    BY DEF Progress
  <1>3. PICK m \in 0 .. (run[t].stmts - Len(run[t].results)) : more \in [1 .. m -> StmtResult]
    BY <1>2 DEF BoundedSeq, SeqOf
  <1>4. more \in Seq(StmtResult) /\ Len(more) = m
    BY <1>1, <1>3
  <1> QED BY <1>1, <1>2, <1>3, <1>4

\* What a run asks of the clock is a number of milliseconds.
LEMMA TimeoutIsNat ==
    ASSUME DbInv, NEW t \in Tasks, ~RunAt(t, "idle"), Running(t, "held")
    PROVE  EffectiveTimeout(t) \in Nat
  <1>1. run[t].asked \in Timeouts \union {Default}
    BY RunType DEF RunRecord
  <1>2. task[t].conn \in Conns
    BY DEF DbInv, TypeInv, TypeOK, TaskState, Running, Idle
  <1>3. ConnectionTimeout(t) \in Nat
    <2>1. CASE Cached(BaseKey(task[t].conn))
      <3>1. pools[BaseKey(task[t].conn)] \in Entry
        BY <1>2, <2>1, KeysOfRequests DEF DbInv, TypeInv, TypeOK, Cached, BaseKey, Keys, KeySuffixes
      <3> QED BY <2>1, <3>1, TimeoutAssumption DEF ConnectionTimeout, Entry, Pool
    <2>2. CASE ~Cached(BaseKey(task[t].conn))
      BY <2>2, TimeoutAssumption DEF ConnectionTimeout
    <2> QED BY <2>1, <2>2
  <1> QED BY <1>1, <1>3, TimeoutAssumption DEF EffectiveTimeout

RunAction(t) ==
    Begin(t) \/ RunStep(t) \/ PollStatements(t) \/ Cancel(t) \/ TimerTick(t)

\* A step of one execution leaves the others where they are, with their pools.
LEMMA OtherRuns ==
    ASSUME DbInv, NEW s \in Tasks, NEW t \in Tasks, s # t, RunAction(s)
    PROVE  run'[t] = run[t] /\ task'[t] = task[t]
  <1> USE DEF DbInv, TypeInv, TypeOK, RunsOK
  <1>1. CASE Begin(s)
    BY <1>1 DEF Begin, GetHit, GetMiss
  <1>2. CASE FillStep(s)
    BY <1>2 DEF FillStep, Lookup, Create, Insert, EmitConnected, Fail
  <1>3. CASE StartStatements(s) \/ Return(s)
    BY <1>3 DEF StartStatements, Return, Release, vars
  <1>4. CASE Cancel(s) \/ TimerTick(s) \/ WriteLog(s)
    BY <1>4 DEF Cancel, TimerTick, WriteLog, vars
  <1>5. CASE PollCancelled(s) \/ PollStatements(s) \/ PollDeadline(s)
    BY <1>5 DEF PollCancelled, PollStatements, PollDeadline, Ended, vars
  <1> QED BY <1>1, <1>2, <1>3, <1>4, <1>5 DEF RunAction, RunStep

\* A step of an execution leaves it well-formed.
LEMMA OwnRun ==
    ASSUME DbInv, NEW t \in Tasks, RunAction(t)
    PROVE  RunsOK' /\ RunInv(t)'
  <1> USE DEF DbInv, RunsOK
  <1>1. CASE Begin(t)
    <2>1. PICK c \in Conns, ov \in Override, asked \in Timeouts \union {Default},
               explain \in BOOLEAN, n \in 0..MaxStmts :
            run' = [run EXCEPT ![t] =
               [pc |-> "pool", asked |-> asked, explain |-> explain, stmts |-> n,
                limit |-> 0, left |-> 0, results |-> <<>>,
                cancelled |-> FALSE, outcome |-> "pending"]]
      BY <1>1 DEF Begin
    <2>2. n \in Nat
      BY CapAssumption
    <2> QED BY <2>1, <2>2 DEF RunRecord, Outcomes, RunInv, RunAt
  <1>2. CASE FillStep(t)
    <2>1. ~Running(t, "held")
      BY <1>2 DEF FillStep, Lookup, Create, Insert, EmitConnected, Fail, Running
    <2>2. run' = run \/ run' = [run EXCEPT ![t] = RunIdle]
      BY <1>2 DEF FillStep
    <2> QED BY <2>1, <2>2 DEF RunInv, RunAt, RunIdle
  <1>3. CASE StartStatements(t)
    <2>1. run[t] \in RunRecord
      BY <1>3, RunType DEF StartStatements, RunAt
    <2>2. EffectiveTimeout(t) \in Nat
      BY <1>3, TimeoutIsNat DEF StartStatements, RunAt
    <2>3. CASE run' = [run EXCEPT ![t] = RunIdle]
      BY <2>3 DEF RunInv, RunAt, RunIdle
    <2>4. CASE ~Rejected(t) /\ UNCHANGED vars
               /\ run' = [run EXCEPT ![t].pc = "exec", ![t].limit = EffectiveTimeout(t),
                                     ![t].left = EffectiveTimeout(t)]
      <3> DEFINE r == [run[t] EXCEPT !.pc = "exec", !.limit = EffectiveTimeout(t),
                                     !.left = EffectiveTimeout(t)]
      <3>1. r \in RunRecord
        BY <2>1, <2>2 DEF RunRecord
      <3>2. run' = [run EXCEPT ![t] = r]
        BY <2>4
      <3>3. run[t].results = <<>> /\ run[t].stmts \in Nat \ {0}
        BY <1>3, <2>1, <2>4 DEF Rejected, StartStatements, RunInv, RunRecord
      <3> QED BY <1>3, <2>4, <3>1, <3>2, <3>3 DEF RunInv, RunAt, StartStatements, Running, vars
    <2> QED BY <1>3, <2>3, <2>4 DEF StartStatements
  <1>4. CASE Cancel(t) \/ TimerTick(t) \/ WriteLog(t)
    <2>1. run[t] \in RunRecord
      BY <1>4, RunType DEF Cancel, TimerTick, WriteLog, RunAt
    <2>2. PICK r \in RunRecord : run' = [run EXCEPT ![t] = r]
                    /\ r.results = run[t].results /\ r.stmts = run[t].stmts
                    /\ r.outcome = run[t].outcome
                    /\ \/ r.pc = run[t].pc
                       \/ run[t].pc = "log" /\ r.pc = "done"
      <3>1. CASE Cancel(t)
        <4>1. [run[t] EXCEPT !.cancelled = TRUE] \in RunRecord
          BY <2>1 DEF RunRecord
        <4> QED BY <3>1, <4>1, <2>1 DEF Cancel, RunRecord
      <3>2. CASE TimerTick(t)
        <4>1. [run[t] EXCEPT !.left = @ - 1] \in RunRecord
          BY <2>1, <3>2 DEF RunRecord, TimerTick
        <4> QED BY <3>2, <4>1, <2>1 DEF TimerTick, RunRecord
      <3>3. CASE WriteLog(t)
        <4>1. [run[t] EXCEPT !.pc = "done"] \in RunRecord
          BY <2>1 DEF RunRecord
        <4> QED BY <3>3, <4>1, <2>1 DEF WriteLog, RunRecord, RunAt
      <3> QED BY <1>4, <3>1, <3>2, <3>3
    <2>3. UNCHANGED task
      BY <1>4 DEF Cancel, TimerTick, WriteLog, vars
    <2> QED BY <2>1, <2>2, <2>3 DEF RunInv, RunAt, RunRecord, Running
  <1>5. CASE PollCancelled(t) \/ PollStatements(t) \/ PollDeadline(t)
    <2>1. run[t] \in RunRecord /\ RunAt(t, "exec") /\ UNCHANGED task
      BY <1>5, RunType DEF PollCancelled, PollStatements, PollDeadline, RunAt, vars
    <2>2. PICK rs \in Seq(StmtResult) :
             /\ Len(rs) <= run[t].stmts
             /\ \/ ~Complete(t, rs) /\ run' = [run EXCEPT ![t].results = rs]
                \/ Complete(t, rs) /\ Ended(t, "ok", rs)
                \/ ~Complete(t, rs) /\ (Ended(t, "timeout", rs) \/ Ended(t, "cancelled", rs))
      <3>1. CASE PollCancelled(t)
        BY <2>1, <3>1 DEF PollCancelled, RunRecord, RunInv, Complete
      <3>2. CASE PollStatements(t)
        BY <2>1, <3>2, PollResults DEF PollStatements
      <3>3. CASE PollDeadline(t)
        BY <2>1, <3>3, PollResults DEF PollDeadline
      <3> QED BY <1>5, <3>1, <3>2, <3>3
    <2>3. CASE ~Complete(t, rs) /\ run' = [run EXCEPT ![t].results = rs]
      <3>1. [run[t] EXCEPT !.results = rs] \in RunRecord
        BY <2>1 DEF RunRecord
      <3>2. run[t].stmts \in Nat /\ Len(rs) \in Nat
        BY <2>1 DEF RunRecord
      <3> QED BY <2>1, <2>2, <2>3, <3>1, <3>2 DEF RunInv, RunAt, Running, Complete, RunRecord
    <2>4. ASSUME NEW o \in Outcomes \ {"pending"}, Ended(t, o, rs), o = "ok" <=> Complete(t, rs)
          PROVE  RunsOK' /\ RunInv(t)'
      <3> DEFINE r == [run[t] EXCEPT !.pc = "log", !.outcome = o, !.results = rs, !.left = 0]
      <3>1. r \in RunRecord /\ r.pc = "log" /\ r.outcome = o /\ r.results = rs
            /\ r.stmts = run[t].stmts
        BY <2>1, <2>4 DEF RunRecord
      <3>2. run' = [run EXCEPT ![t] = r]
        BY <2>4 DEF Ended
      <3>3. run'[t] = r
        BY <3>2
      <3> HIDE DEF r
      <3> QED BY <2>1, <2>4, <3>1, <3>2, <3>3 DEF RunInv, RunAt, Running, Complete
    <2> QED BY <2>2, <2>3, <2>4 DEF Outcomes
  <1>6. CASE Return(t)
    BY <1>6 DEF Return, RunInv, RunAt, RunIdle
  <1> QED BY <1>1, <1>2, <1>3, <1>4, <1>5, <1>6 DEF RunAction, RunStep

\* The rows of query_log stay true: one is added by WriteLog, clean-up keeps the newest.
LEMMA NextLog ==
    ASSUME DbInv, [DbNext]_dbVars
    PROVE  LogOK' /\ LogTellsOutcome'
  <1> USE DEF DbInv, LogOK, LogTellsOutcome
  <1>1. CASE UNCHANGED queryLog
    BY <1>1
  <1>2. ASSUME NEW t \in Tasks, WriteLog(t), queryLog' = Append(queryLog, Row(t))
        PROVE  LogOK' /\ LogTellsOutcome'
    <2>1. run[t] \in RunRecord /\ RunAt(t, "log") /\ RunInv(t)
      BY <1>2, RunType DEF WriteLog, RunAt
    <2>2. Row(t) \in LogRows
          /\ (Row(t).status = "success" <=> Row(t).ran = Row(t).stmts)
      BY <2>1 DEF RunRecord, RunInv, Row, LogRows
    <2> HIDE DEF Row
    <2> QED BY <1>2, <2>2
  <1>3. CASE CleanupQueryLog
    <2>1. PICK keep \in 0..Len(queryLog) :
            queryLog' = SubSeq(queryLog, Len(queryLog) - keep + 1, Len(queryLog))
      BY <1>3 DEF CleanupQueryLog
    <2>2. /\ queryLog' \in Seq(LogRows)
          /\ Len(queryLog') = keep
          /\ \A i \in 1 .. keep : queryLog'[i] = queryLog[Len(queryLog) - keep + i]
      BY <2>1, SubSeqProperties
    <2>3. ASSUME NEW i \in DOMAIN queryLog'
          PROVE  queryLog'[i].status = "success" <=> queryLog'[i].ran = queryLog'[i].stmts
      <3>1. i \in 1 .. keep /\ Len(queryLog) - keep + i \in DOMAIN queryLog
        BY <2>2
      <3> QED BY <2>2, <3>1
    <2> QED BY <2>2, <2>3
  <1>4. UNCHANGED queryLog \/ CleanupQueryLog
        \/ \E t \in Tasks : WriteLog(t) /\ queryLog' = Append(queryLog, Row(t))
    <2>1. ASSUME NEW t \in Tasks, RunAction(t)
          PROVE  UNCHANGED queryLog \/ (WriteLog(t) /\ queryLog' = Append(queryLog, Row(t)))
      BY <2>1 DEF RunAction, RunStep, Begin, FillStep, StartStatements, PollCancelled,
                  PollStatements, PollDeadline, WriteLog, Return, Cancel, TimerTick
    <2> QED BY <2>1 DEF DbNext, RunAction, dbVars
  <1> QED BY <1>1, <1>2, <1>3, <1>4

\* Upkeep of the cache and of the log leaves every execution its pool.
LEMMA UpkeepKeepsHeld ==
    ASSUME DbInv, NEW t \in Tasks, Running(t, "held"),
           Maintenance \/ CleanupQueryLog \/ UNCHANGED dbVars
    PROVE  Running(t, "held")'
  <1> USE DEF DbInv, TypeInv, TypeOK, Running
  <1>1. CASE \E c \in Conns : Invalidate(c)
    BY <1>1 DEF Invalidate, Overtake
  <1>2. CASE UNCHANGED task
    BY <1>2
  <1>3. UNCHANGED task \/ \E c \in Conns : Invalidate(c)
    BY DEF Maintenance, CleanupQueryLog, dbVars, vars, EditConnection, EmitDisconnected,
           CleanupSnapshot, CleanupDecide, CleanupRemove, Tick
  <1> QED BY <1>1, <1>2, <1>3

LEMMA NextDbInv == DbInv /\ [DbNext]_dbVars => DbInv'
  <1> SUFFICES ASSUME DbInv, [DbNext]_dbVars PROVE DbInv'
    OBVIOUS
  <1>1. TypeInv'
    BY StepsOfTheCache, NextTypeInv DEF DbInv
  <1>2. LogOK' /\ LogTellsOutcome'
    BY NextLog
  <1>3. ASSUME NEW s \in Tasks, RunAction(s)
        PROVE  RunsOK' /\ \A t \in Tasks : RunInv(t)'
    <2>1. RunsOK' /\ RunInv(s)'
      BY <1>3, OwnRun
    <2>2. ASSUME NEW t \in Tasks, s # t PROVE RunInv(t)'
      BY <1>3, <2>2, OtherRuns DEF DbInv, RunInv, RunAt, Running
    <2> QED BY <2>1, <2>2
  <1>4. ASSUME (Maintenance /\ UNCHANGED run) \/ CleanupQueryLog \/ UNCHANGED dbVars
        PROVE  RunsOK' /\ \A t \in Tasks : RunInv(t)'
    <2>1. UNCHANGED run
      BY <1>4 DEF CleanupQueryLog, dbVars
    <2>2. ASSUME NEW t \in Tasks PROVE RunInv(t)'
      BY <1>4, <2>1, UpkeepKeepsHeld DEF DbInv, RunInv, RunAt
    <2> QED BY <2>1, <2>2 DEF DbInv, RunsOK
  <1>5. RunsOK' /\ \A t \in Tasks : RunInv(t)'
    BY <1>3, <1>4 DEF DbNext, RunAction
  <1> QED BY <1>1, <1>2, <1>5 DEF DbInv

\* The audit log is true for any number of executions, statements and rows, whatever
\* prefix of it a clean-up drops.
THEOREM LogIsTrue == DbSpec => []LogTellsOutcome
  <1>1. DbInv => LogTellsOutcome
    BY DEF DbInv
  <1> QED BY <1>1, InitDbInv, NextDbInv, PTL DEF DbSpec

-----------------------------------------------------------------------------
(* Cancellation                                                            *)

\* Of the steps of a run that executes and is cancelled only the poll that ends it
\* moves it on: its pool is held, so no fill step is its own.
LEMMA CancelStep ==
    ASSUME DbInv, [DbNext]_dbVars, NEW t \in Tasks, RunAt(t, "exec"), run[t].cancelled
    PROVE  /\ run'[t].results = run[t].results
           /\ run'[t].pc = "exec" \/ run'[t].outcome = "cancelled"
  <1>1. run[t] \in RunRecord /\ Running(t, "held")
    BY RunType DEF DbInv, RunInv, RunAt
  <1>2. CASE UNCHANGED run
    BY <1>2 DEF RunAt
  <1>3. ASSUME NEW s \in Tasks, s # t, RunAction(s) PROVE run'[t] = run[t]
    BY <1>3, OtherRuns
  <1>4. CASE RunAction(t)
    <2>1. ~Fail(t) /\ ~Begin(t) /\ ~StartStatements(t) /\ ~PollStatements(t)
          /\ ~PollDeadline(t) /\ ~WriteLog(t) /\ ~Return(t)
      BY <1>1 DEF Fail, Running, Begin, StartStatements, PollStatements, PollDeadline,
                  WriteLog, Return, RunAt
    <2>2. CASE FillStep(t)
      BY <1>2, <2>1, <2>2 DEF FillStep
    <2>3. CASE PollCancelled(t)
      BY <1>1, <2>3 DEF PollCancelled, Ended, DbInv, RunsOK, RunRecord
    <2>4. CASE Cancel(t) \/ TimerTick(t)
      BY <1>1, <2>4 DEF Cancel, TimerTick, DbInv, RunsOK, RunRecord, RunAt
    <2> QED BY <1>4, <2>1, <2>2, <2>3, <2>4 DEF RunAction, RunStep
  <1> QED BY <1>2, <1>3, <1>4 DEF DbNext, RunAction, CleanupQueryLog, dbVars, RunAt

\* A cancelled run takes no further answer and ends as cancelled.
THEOREM CancelIsFinal == DbSpec => CancelStops
  <1>1. DbInv /\ [DbNext]_dbVars =>
          [\A t \in Tasks :
             RunAt(t, "exec") /\ run[t].cancelled =>
                 /\ run'[t].results = run[t].results
                 /\ run'[t].pc = "exec" \/ run'[t].outcome = "cancelled"]_dbVars
    BY CancelStep
  <1> QED BY <1>1, InitDbInv, NextDbInv, PTL DEF DbSpec, CancelStops

=============================================================================
