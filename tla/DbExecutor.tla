------------------------------ MODULE DbExecutor ------------------------------
(***************************************************************************)
(* One execution of a db block (DbExecutor::execute_with_cancel in         *)
(* src/src/executor/db/mod.rs) on top of the pool cache: get the pool,     *)
(* settle the timeout, run the statements inside one                       *)
(* select!(cancel, timeout(all statements)), write the query_log row,      *)
(* return.                                                                 *)
(*                                                                         *)
(* Every caller t of Tasks is one execution; its call of get_pool is       *)
(* task[t] of PoolManager.  The clock of the run's own timeout is          *)
(* `left`, counted down by the timer.                                      *)
(***************************************************************************)
EXTENDS PoolManager, Sequences, SequencesExt

CONSTANTS
    Timeouts,   \* timeouts a request may ask for explicitly
    Default,    \* Rust's None: no explicit timeout
    Fallback,   \* 30_000 ms
    MaxStmts,   \* bound on the statements of one query
    LogCap,     \* 50 000 rows kept by cleanup_query_log
    MaxLog      \* bound on the rows of query_log

ASSUME TimeoutAssumption ==
    /\ Timeouts \subseteq Nat
    /\ Fallback \in Nat
    /\ Default \notin Nat
    /\ \A cfg \in Configs : cfg.qtimeout \in Nat
ASSUME CapAssumption == {MaxStmts, LogCap, MaxLog} \subseteq Nat

VARIABLES
    run,        \* [Tasks -> progress of one execution]
    queryLog    \* rows of query_log, oldest first

dbVars == <<store, pools, task, cleaner, discPending, status, flushed, now,
            run, queryLog>>
-----------------------------------------------------------------------------
Outcomes == {"pending", "ok", "cancelled", "timeout"}
StmtResult == {"rows", "error"}

Run == [pc : {"pool", "exec", "log", "done"},
        asked : Timeouts \union {Default}, explain : BOOLEAN, stmts : 0..MaxStmts,
        limit : Nat, left : Nat, results : BoundedSeq(StmtResult, MaxStmts),
        cancelled : BOOLEAN, outcome : Outcomes]
RunIdle == [pc |-> "idle"]
RunAt(t, pc) == run[t].pc = pc
Active(t) == ~RunAt(t, "idle")

\* One query_log row; `ran` and `stmts` are history, for LogTellsOutcome.
LogRow == [status : {"success", "error"}, ran : 0..MaxStmts, stmts : 0..MaxStmts]
-----------------------------------------------------------------------------
DbInit ==
    /\ Init
    /\ run = [t \in Tasks |-> RunIdle]
    /\ queryLog = <<>>

\* The request is parsed and get_pool_with_override entered.  An override is
\* passed on when either field is present; the cache itself ignores an empty one.
Begin(t) ==
    \E c \in Conns, ov \in Override, asked \in Timeouts \union {Default},
       explain \in BOOLEAN, n \in 0..MaxStmts :
        /\ RunAt(t, "idle")
        /\ GetHit(t, c, ov) \/ GetMiss(t, c, ov)
        /\ run' = [run EXCEPT ![t] =
               [pc |-> "pool", asked |-> asked, explain |-> explain, stmts |-> n,
                limit |-> 0, left |-> 0, results |-> <<>>,
                cancelled |-> FALSE, outcome |-> "pending"]]
        /\ UNCHANGED queryLog

\* The fill proceeds as in PoolManager; its error is returned, nothing is logged.
FillStep(t) ==
    \/ /\ Lookup(t) \/ Create(t) \/ Insert(t) \/ EmitConnected(t)
       /\ UNCHANGED <<run, queryLog>>
    \/ /\ Fail(t)
       /\ run' = [run EXCEPT ![t] = RunIdle]
       /\ UNCHANGED queryLog

\* get_query_timeout(&p.connection_id): the base key, whatever pool the run uses.
ConnectionTimeout(t) ==
    LET k == BaseKey(task[t].conn) IN
    IF Cached(k) THEN pools[k].pool.cfg.qtimeout ELSE Fallback

\* Explicit per-query timeout, else the connection's, else the fallback.
EffectiveTimeout(t) ==
    IF run[t].asked # Default THEN run[t].asked ELSE ConnectionTimeout(t)

Rejected(t) == run[t].stmts = 0 \/ (run[t].explain /\ run[t].stmts # 1)

\* After the read lock: EXPLAIN of a script and an empty query are refused, and so
\* may be an EXPLAIN the driver does not support; otherwise the clock starts.
StartStatements(t) ==
    /\ RunAt(t, "pool")
    /\ Running(t, "held")
    /\ \/ /\ Rejected(t) \/ run[t].explain
          /\ run' = [run EXCEPT ![t] = RunIdle]
          /\ Release(t)
       \/ /\ ~Rejected(t)
          /\ run' = [run EXCEPT
                 ![t].pc = "exec",
                 ![t].limit = EffectiveTimeout(t),
                 ![t].left = EffectiveTimeout(t)]
          /\ UNCHANGED vars
    /\ UNCHANGED queryLog

\* The caller fires the cancellation token; after the select! nobody reads it.
Cancel(t) ==
    /\ RunAt(t, "pool") \/ RunAt(t, "exec")
    /\ run' = [run EXCEPT ![t].cancelled = TRUE]
    /\ UNCHANGED <<vars, queryLog>>

TimerTick(t) ==
    /\ RunAt(t, "exec")
    /\ run[t].left > 0
    /\ run' = [run EXCEPT ![t].left = @ - 1]
    /\ UNCHANGED <<vars, queryLog>>

Ended(t, outcome, rs) ==
    run' = [run EXCEPT ![t].pc = "log", ![t].outcome = outcome, ![t].results = rs,
                       ![t].left = 0]

\* The statements completed by one poll: a failed statement takes its place in
\* the results and the next one still runs.
Progress(t) ==
    {run[t].results \o more :
        more \in BoundedSeq(StmtResult, run[t].stmts - Len(run[t].results))}
Complete(t, rs) == Len(rs) = run[t].stmts

\* One poll of the biased select! looks at the token, then at the statements, then
\* at the deadline.  Dropping the future leaves what the statements already did.
PollCancelled(t) ==
    /\ RunAt(t, "exec")
    /\ run[t].cancelled
    /\ Ended(t, "cancelled", run[t].results)
    /\ UNCHANGED <<vars, queryLog>>

\* Mutant: a select! without `biased`, the statements polled before the token.
PollUnbiased(t) ==
    /\ RunAt(t, "exec")
    /\ \E rs \in Progress(t) :
           IF Complete(t, rs) THEN Ended(t, "ok", rs)
           ELSE run' = [run EXCEPT ![t].results = rs]
    /\ UNCHANGED <<vars, queryLog>>

\* The server answers some of the statements, perhaps the last one.
PollStatements(t) ==
    /\ RunAt(t, "exec")
    /\ ~run[t].cancelled
    /\ \E rs \in Progress(t) :
           IF Complete(t, rs) THEN Ended(t, "ok", rs)
           ELSE run' = [run EXCEPT ![t].results = rs]
    /\ UNCHANGED <<vars, queryLog>>

\* Mutant: a deadline looked at only when a statement has just completed.
PollDeadlineAfterStatement(t) ==
    /\ RunAt(t, "exec")
    /\ ~run[t].cancelled
    /\ run[t].left = 0
    /\ \E rs \in Progress(t) :
           /\ ~Complete(t, rs)
           /\ rs # run[t].results
           /\ Ended(t, "timeout", rs)
    /\ UNCHANGED <<vars, queryLog>>

\* The one deadline of the whole script has passed with statements outstanding.
PollDeadline(t) ==
    /\ RunAt(t, "exec")
    /\ ~run[t].cancelled
    /\ run[t].left = 0
    /\ \E rs \in Progress(t) : ~Complete(t, rs) /\ Ended(t, "timeout", rs)
    /\ UNCHANGED <<vars, queryLog>>

\* Mutant: every run that logs is logged as a success.
RowAlwaysSuccess(t) == [status |-> "success",
                        ran |-> Len(run[t].results), stmts |-> run[t].stmts]

Row(t) == [status |-> IF run[t].outcome = "ok" THEN "success" ELSE "error",
           ran |-> Len(run[t].results), stmts |-> run[t].stmts]

\* The query_log insert, whatever the outcome; its own failure is ignored.
WriteLog(t) ==
    /\ RunAt(t, "log")
    /\ run' = [run EXCEPT ![t].pc = "done"]
    /\ \/ Len(queryLog) < MaxLog /\ queryLog' = Append(queryLog, Row(t))
       \/ UNCHANGED queryLog
    /\ UNCHANGED vars

\* The result is returned and the run's Arc<DatabasePool> dropped.
Return(t) ==
    /\ RunAt(t, "done")
    /\ Release(t)
    /\ run' = [run EXCEPT ![t] = RunIdle]
    /\ UNCHANGED queryLog

\* cleanup_query_log: rows past 30 days (some prefix), then all but the newest LogCap.
CleanupQueryLog ==
    /\ \E keep \in 0..Len(queryLog) :
           /\ keep <= LogCap
           /\ queryLog' = SubSeq(queryLog, Len(queryLog) - keep + 1, Len(queryLog))
    /\ UNCHANGED <<vars, run>>
-----------------------------------------------------------------------------
RunStep(t) ==
    \/ FillStep(t) \/ StartStatements(t)
    \/ PollCancelled(t) \/ PollDeadline(t)
    \/ WriteLog(t) \/ Return(t)

DbNext ==
    \/ \E t \in Tasks : Begin(t) \/ RunStep(t) \/ PollStatements(t) \/ Cancel(t) \/ TimerTick(t)
    \/ CleanupQueryLog
    \/ Maintenance /\ UNCHANGED <<run, queryLog>>

\* The runtime polls every run that can move and its timers fire; create_pool ends
\* by the acquire timeout.  The server owes nothing: PollStatements has no fairness.
DbFairness == \A t \in Tasks : WF_dbVars(RunStep(t)) /\ WF_dbVars(TimerTick(t))
DbSpec == DbInit /\ [][DbNext]_dbVars /\ DbFairness
-----------------------------------------------------------------------------
(* Properties                                                              *)

\* The audit log does not lie: a row says "success" exactly when every statement
\* of the query was attempted, and "error" when cancel or timeout cut the run short.
LogTellsOutcome ==
    \A i \in DOMAIN queryLog :
        queryLog[i].status = "success" <=> queryLog[i].ran = queryLog[i].stmts

\* Once the token has fired, also while the run was waiting for its pool, no further
\* answer is taken and the run ends as cancelled: a late answer or an expired deadline
\* no longer changes that.
CancelStops ==
    [][\A t \in Tasks :
         RunAt(t, "exec") /\ run[t].cancelled =>
             /\ run'[t].results = run[t].results
             /\ run'[t].pc = "exec" \/ run'[t].outcome = "cancelled"]_dbVars

\* Every execution returns, even when the server never answers a statement.
RunEnds == \A t \in Tasks : Active(t) ~> RunAt(t, "idle")
=============================================================================
