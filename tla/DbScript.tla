------------------------------ MODULE DbScript ------------------------------
(***************************************************************************)
(* What becomes of the statements of a script: execute_with_cancel         *)
(* (executor/db/mod.rs) puts EXPLAIN before a statement whose plan is      *)
(* asked for, gives each its share of the bound values and runs them one   *)
(* after the other, DatabasePool::execute_query (db/pool.rs) decides how   *)
(* each is sent and the driver's half (db/pool_exec_*.rs) pages the rows.  *)
(*                                                                         *)
(* A statement, as split_statements leaves it, is a sequence of words,     *)
(* placeholders and remarks.  The database has one table, and its driver   *)
(* matters to the plan alone.                                              *)
(***************************************************************************)
EXTENDS Naturals, Sequences, FiniteSets, FiniteSetsExt, SequencesExt

CONSTANTS
    Scripts,  \* sequences of statements
    Binds,    \* sequences of bound values; "list" is one no driver takes
    Pages,    \* pairs of an offset and a fetch size
    TableSize \* rows of the table

VARIABLES
    driver,   \* pool.driver()
    explain,  \* whether the plan is "asked", and what came of it: "done", "failed"
    script,
    binds,
    page,
    shares,   \* per_statement_binds
    bindCursor,
    results,  \* one per statement that has run
    received, \* for each of them, the values the driver was given
    changed   \* those that changed the table

request == << driver, binds, page >>
scriptVars == << request, explain, script, shares, bindCursor, results, received, changed >>

Remark == "remark"   \* a comment before another word
Trailing == "-- end" \* a line comment that ends the statement
Words(s) == SelectSeq(s, LAMBDA w : w \notin {Remark, Trailing})

\* count_placeholders.
Placeholders(s) == Cardinality({i \in DOMAIN s : s[i] = "?"})

ScriptInit ==
    /\ script \in Scripts
    /\ binds \in Binds
    /\ page \in Pages
    /\ shares = << >>
    /\ bindCursor = 0
    /\ results = << >>
    /\ received = << >>
    /\ changed = {}
    /\ explain \in {"no", "asked"}
    /\ driver \in {"postgres", "mysql", "sqlite"}

-----------------------------------------------------------------------------
(* prefix_explain_sql, for one statement and a driver that has plans.      *)

ExplainPrefix ==
    [postgres |-> << "EXPLAIN", "(ANALYZE)" >>, mysql |-> << "EXPLAIN", "FORMAT" >>]

SwapExplain ==
    /\ explain = "asked"
    /\ IF Len(script) = 1 /\ driver \in DOMAIN ExplainPrefix
       THEN explain' = "done" /\ script' = << ExplainPrefix[driver] \o script[1] >>
       ELSE explain' = "failed" /\ UNCHANGED script
    /\ UNCHANGED << request, shares, bindCursor, results, received, changed >>

-----------------------------------------------------------------------------
(* execute_with_cancel: the next statement's share of the values.          *)

Least(a, b) == IF a < b THEN a ELSE b

Share ==
    /\ explain \in {"no", "done"}
    /\ Len(shares) < Len(script)
    /\ LET end == Least(bindCursor + Placeholders(script[Len(shares) + 1]), Len(binds)) IN
       /\ shares' = Append(shares, SubSeq(binds, bindCursor + 1, end))
       /\ bindCursor' = end
    /\ UNCHANGED << request, explain, script, results, received, changed >>

-----------------------------------------------------------------------------
(* execute_query: the statement is told from its first word, and a remark  *)
(* in front of it hides that word.                                         *)

StartsWithOne(s, words) == s # << >> /\ s[1] \in words

\* (A mistake: ANALYZE is not looked over.)
ExplainsChangeAtOnce(s) == IsPrefix(<< "EXPLAIN", "DELETE" >>, s)

\* EXPLAIN ANALYZE of a statement that changes data.
ExplainsChange(s) == IsPrefix(<< "EXPLAIN", "ANALYZE", "DELETE" >>, s)

IsSelect(s) ==
    \/ StartsWithOne(s, {"SELECT", "WITH", "SHOW", "DESCRIBE", "EXPLAIN"})
    \/ StartsWithOne(s, {"PRAGMA"}) /\ "=" \notin Range(s)

\* is_subqueryable_select.
Subqueryable(s) == StartsWithOne(s, {"SELECT", "WITH"})

Refused(s, share) ==
    \/ "list" \in Range(share)
    \/ Len(share) # Placeholders(s)
    \/ ExplainsChange(s)

\* `SELECT * FROM (` s `) LIMIT .. OFFSET ..`, as the words the database reads: what
\* follows a line comment on its line is comment, the parenthesis and the limit too.
Paginated(s) ==
    << "SELECT", "(" >> \o Words(s) \o
    (IF s # << >> /\ Last(s) = Trailing THEN << >> ELSE << ")", "LIMIT" >>)

Table == [n \in 1 .. TableSize |-> n]

\* What the database makes of a text: rows, a change, or an error.
Answer(words) ==
    LET inner == SubSeq(words, 3, Len(words) - 2)
    IN CASE IsPrefix(<< "SELECT", "(" >>, words) ->
              IF ")" \in Range(words) /\ inner[1] \in {"SELECT", "WITH"} /\ "DELETE" \notin Range(inner)
              THEN "page" ELSE "error"
         [] words[1] \in {"SELECT", "SHOW", "PRAGMA"} -> "rows"
         [] words[1] = "EXPLAIN" ->
              IF "EXPLAIN" \notin Range(Tail(words)) /\ Range(words) \cap {"SELECT", "WITH", "DELETE"} # {}
              THEN "rows" ELSE "error"
         [] words[1] = "WITH" -> IF "DELETE" \in Range(words) THEN "change" ELSE "rows"
         [] words[1] = "DELETE" -> "change"
         [] OTHER -> "error"

\* Whether it changes the table: a plan that is analysed is one of a statement that ran.
Changes(words) ==
    /\ Answer(words) # "error"
    /\ "DELETE" \in Range(words)
    /\ \/ words[1] \in {"DELETE", "WITH"}
       \/ words[1] = "EXPLAIN" /\ words[2] \in {"ANALYZE", "(ANALYZE)"}

Rows(rows, more) == [kind |-> "select", rows |-> rows, more |-> more]
Affected == [kind |-> "mutation", rows |-> << >>, more |-> FALSE]
Error == [kind |-> "error", rows |-> << >>, more |-> FALSE]

\* (A mistake: a page that is full is taken for one with more behind it.)
HasMoreWhenFull(fetched, size) == Len(fetched) >= size

\* The row beyond the page tells that there are more.
HasMore(fetched, size) == Len(fetched) > size

\* execute_select_*: with the limit one above the page's size, or as it stands.
Select(s) ==
    LET offset == page[1]
        size == page[2]
        fetched == SubSeq(Table, offset + 1, Least(offset + size + 1, TableSize))
        more == HasMore(fetched, size)
    IN IF Subqueryable(s)
       THEN IF Answer(Paginated(s)) = "page"
            THEN Rows(IF more THEN Front(fetched) ELSE fetched, more)
            ELSE Error
       ELSE IF Answer(Words(s)) = "rows" THEN Rows(Table, FALSE) ELSE Error

\* execute_mutation_*: the rows of a text that turns out to have any are not fetched.
Mutate(s) == IF Answer(Words(s)) = "error" THEN Error ELSE Affected

Sent(s) == IF IsSelect(s) /\ Subqueryable(s) THEN Paginated(s) ELSE Words(s)

\* A statement fails by itself: those after it still run.
RunStatement ==
    /\ Len(shares) = Len(script)
    /\ Len(results) < Len(script)
    /\ LET n == Len(results) + 1
           s == script[n]
       IN IF Refused(s, shares[n])
          THEN /\ results' = Append(results, Error)
               /\ received' = Append(received, << >>)
               /\ UNCHANGED changed
          ELSE /\ results' = Append(results, IF IsSelect(s) THEN Select(s) ELSE Mutate(s))
               /\ received' = Append(received, shares[n])
               /\ changed' = IF Changes(Sent(s)) THEN changed \union {n} ELSE changed
    /\ UNCHANGED << request, explain, script, shares, bindCursor >>

ScriptNext == SwapExplain \/ Share \/ RunStatement

ScriptSpec == ScriptInit /\ [][ScriptNext]_scriptVars

-----------------------------------------------------------------------------
(* Properties.                                                             *)

Finished == Len(results) = Len(script)

\* The placeholders of the script up to the n-th statement.
PlaceholdersTo(n) == Placeholders(FlattenSeq(SubSeq(script, 1, n)))

\* The values that were written for the n-th statement, as far as there are any.
Meant(n) == SubSeq(binds, PlaceholdersTo(n - 1) + 1, Least(PlaceholdersTo(n), Len(binds)))

Query(s) == Words(s)[1] \in {"SELECT", "WITH"} /\ "DELETE" \notin Range(s)

\* What a query has on a page of the table.
PageOf(offset, size) ==
    Rows(SelectSeq(Table, LAMBDA row : offset < row /\ row <= offset + size), TableSize > offset + size)

\* A query among the statements answers with the rows of its page and with whether
\* there are more, and is given the values written for it, whatever else is in the
\* script and however the other statements end, if there are values enough.  The
\* exceptions are in its text: a remark before its first word sends it as a
\* statement that has no rows, and a line comment after its last one swallows the
\* parenthesis that is put around it.
RowsReach ==
    Finished =>
      \A n \in DOMAIN script :
        LET s == script[n]
            given == Len(Meant(n)) = Placeholders(s) /\ "list" \notin Range(Meant(n))
        IN Query(s) =>
           /\ given => received[n] = Meant(n)
           /\ results[n] = CASE ~given             -> Error
                             [] s[1] = Remark      -> Affected
                             [] Last(s) = Trailing -> Error
                             [] OTHER              -> PageOf(page[1], page[2])

\* A statement that failed changed nothing, one that says so made its change, and a
\* plan, asked for or written out, leaves the table alone.  The exceptions are plans
\* that Postgres makes by running the statement, and that the check for them does not
\* recognize: the one asked for, because of the options it is prefixed with, and of
\* those written out the ones with an option in parentheses or after ANALYZE, those
\* behind a remark, and those of a WITH.
ChangesAsAsked ==
    Finished =>
      \A n \in DOMAIN script :
        LET s == script[n]
            words == Words(s)
            analysed == Range(s) \cap {"ANALYZE", "(ANALYZE)"} # {}
            unnoticed == \/ explain = "done" /\ driver = "postgres"
                         \/ analysed /\ s[1] = Remark
                         \/ analysed /\ Range(s) \cap {"(ANALYZE)", "VERBOSE", "WITH"} # {}
        IN n \in changed <=>
             /\ "DELETE" \in Range(s)
             /\ \/ words[1] # "EXPLAIN" /\ results[n] = Affected
                \/ words[1] = "EXPLAIN" /\ results[n] # Error /\ unnoticed
=============================================================================
