----------------------------- MODULE RunHistory -----------------------------
(***************************************************************************)
(* The history of runs of one block (block_history/mod.rs), the rows of    *)
(* one file and alias.  An insert takes the time, writes its row, reads    *)
(* the retention and deletes all but the newest rows by time.  The clock   *)
(* is the system's: it may be set back.                                    *)
(***************************************************************************)
EXTENDS Naturals, FiniteSets, FiniteSetsExt

CONSTANTS
    Runners,        \* tasks that record a run
    Retentions,     \* what app_config may say; 0 is unusable
    DefaultCap,     \* DEFAULT_HISTORY_CAP
    MaxClock,       \* bound: times
    MaxEntries,     \* bound: entries ever inserted
    MaxSetBacks     \* bound: times the clock is set back

\* What the constants are.
HistoryAssumption ==
    /\ Retentions \subseteq Nat
    /\ DefaultCap \in Nat \ {0}
    /\ {MaxClock, MaxEntries, MaxSetBacks} \subseteq Nat

VARIABLES
    history,    \* the rows: id, ran_at
    entries,    \* the newest id
    retention,  \* the value in app_config
    clock,
    setBacks,   \* times the clock was set back
    record,     \* what each task is doing
    unfair      \* history: entries inserted with a time not after all others

histVars == << history, entries, retention, clock, setBacks, record, unfair >>

Done == [pc |-> "done"]

\* Values that are no positive number mean the default.
Cap(n) == IF n > 0 THEN n ELSE DefaultCap

HistInit ==
    /\ history = {}
    /\ entries = 0
    /\ retention \in Retentions
    /\ clock = 1
    /\ setBacks = 0
    /\ record = [t \in Runners |-> Done]
    /\ unfair = {}

\* let now = Utc::now().
TakeTime(t) ==
    /\ record[t].pc = "done" /\ entries < MaxEntries
    /\ record' = [record EXCEPT ![t] = [pc |-> "insert", at |-> clock]]
    /\ UNCHANGED << history, entries, retention, clock, setBacks, unfair >>

InsertEntry(t) ==
    LET row == [id |-> entries + 1, at |-> record[t].at] IN
    /\ record[t].pc = "insert" /\ entries < MaxEntries
    /\ entries' = entries + 1
    /\ history' = history \union {row}
    /\ unfair' = IF \E r \in history : r.at >= row.at THEN unfair \union {row.id} ELSE unfair
    /\ record' = [record EXCEPT ![t] = [pc |-> "retention", id |-> row.id]]
    /\ UNCHANGED << retention, clock, setBacks >>

GetRetention(t) ==
    /\ record[t].pc = "retention"
    /\ record' = [record EXCEPT ![t] = [pc |-> "trim", id |-> @.id, cap |-> Cap(retention)]]
    /\ UNCHANGED << history, entries, retention, clock, setBacks, unfair >>

\* (A mistake: the order is ascending.)
Oldest(cap) ==
    LET size == IF Cardinality(history) < cap THEN Cardinality(history) ELSE cap
    IN {kept \in kSubset(size, history) :
          \A r \in kept, q \in history \ kept : r.at <= q.at}

\* The rows ORDER BY ran_at DESC LIMIT cap may be; equal times come in any order.
Newest(cap) ==
    LET size == IF Cardinality(history) < cap THEN Cardinality(history) ELSE cap
    IN {kept \in kSubset(size, history) :
          \A r \in kept, q \in history \ kept : r.at >= q.at}

Trim(t) ==
    /\ record[t].pc = "trim"
    /\ history' \in Newest(record[t].cap)
    /\ record' = [record EXCEPT ![t] = Done]
    /\ UNCHANGED << entries, retention, clock, setBacks, unfair >>

\* A statement fails, or the process dies.
Lose(t) ==
    /\ record[t].pc # "done"
    /\ record' = [record EXCEPT ![t] = Done]
    /\ UNCHANGED << history, entries, retention, clock, setBacks, unfair >>

\* purge_history, purge_history_for_file.
Purge ==
    /\ history # {}
    /\ history' = {}
    /\ UNCHANGED << entries, retention, clock, setBacks, record, unfair >>

SetRetention(n) ==
    /\ n # retention
    /\ retention' = n
    /\ UNCHANGED << history, entries, clock, setBacks, record, unfair >>

TimePasses ==
    /\ clock < MaxClock
    /\ clock' = clock + 1
    /\ UNCHANGED << history, entries, retention, setBacks, record, unfair >>

SetBack ==
    /\ clock > 1 /\ setBacks < MaxSetBacks
    /\ clock' = clock - 1
    /\ setBacks' = setBacks + 1
    /\ UNCHANGED << history, entries, retention, record, unfair >>

HistNext ==
    \/ \E t \in Runners :
         TakeTime(t) \/ InsertEntry(t) \/ GetRetention(t) \/ Trim(t) \/ Lose(t)
    \/ \E n \in Retentions : SetRetention(n)
    \/ Purge \/ TimePasses \/ SetBack

HistSpec == HistInit /\ [][HistNext]_histVars

-----------------------------------------------------------------------------
(* Properties.                                                             *)

\* "Keeping only the most recent N": a trim leaves at most N entries and at least
\* one, and drops an entry only for entries that were inserted after it, whatever
\* other inserts, purges and changes of the retention come between the statements
\* of its call.  Set apart: a table with an entry whose time was not after all the
\* others when it came, for the clock was set back, or read before another's.
TrimLeavesNewer ==
    \A t \in Runners :
        record[t].pc = "trim" /\ record'[t].pc = "done" /\ history' # history =>
            /\ history' # {} /\ Cardinality(history') <= record[t].cap
            /\ \/ \E q \in history : q.id \in unfair
               \/ \A r \in history \ history', q \in history' : q.id > r.id

LeavesForNewer == [][TrimLeavesNewer]_histVars
=============================================================================
