----------------------------- MODULE SqlScanner -----------------------------
(***************************************************************************)
(* The scanner that tells SQL code from strings and comments               *)
(* (db/sql_scanner.rs) and the passes that use it: split_statements,       *)
(* contains_multiple_statements, count_placeholders, all over one text and *)
(* here over it together, one step per character or pair.                  *)
(*                                                                         *)
(* A text is built from lexemes, of which it is known what they are; the   *)
(* scanner sees the characters only.                                       *)
(***************************************************************************)
EXTENDS Naturals, Sequences, FiniteSets, FiniteSetsExt, SequencesExt

CONSTANTS
    Lexemes,    \* records: kind ("code", "string", "comment"), text (characters)
    MaxLexemes  \* bound: lexemes in a text

VARIABLES
    lexemes,    \* the text as it was written
    sql,        \* its characters
    at,         \* the position of the next one
    mode,       \* SqlScanner: in code, a string (after a backslash: "escape") or a comment
    current,    \* the statement being read
    statements, \* those that are complete
    holes,      \* `?` in code so far
    multiple    \* contains_multiple_statements: undecided, or its answer

sqlVars == << lexemes, sql, at, mode, current, statements, holes, multiple >>

Newline == "\n"
Spaces == {" ", Newline}

\* str::trim.
Trim(s) ==
    LET solid == {i \in DOMAIN s : s[i] \notin Spaces}
    IN IF solid = {} THEN << >> ELSE SubSeq(s, Min(solid), Max(solid))

Characters(written) == FlattenSeq([i \in DOMAIN written |-> written[i].text])

\* Texts: only the last lexeme may lack its end.
Texts == {t \in UNION {[1 .. n -> Lexemes] : n \in 0 .. MaxLexemes} :
            \A i \in 1 .. (Len(t) - 1) : t[i].closed}

SqlInit ==
    /\ lexemes \in Texts
    /\ sql = Characters(lexemes)
    /\ at = 1
    /\ mode = "code"
    /\ current = << >>
    /\ statements = << >>
    /\ holes = 0
    /\ multiple = "undecided"

-----------------------------------------------------------------------------
\* (A mistake: a backslash is an ordinary character of a string.)
AdvanceUnescaped(ch, next) ==
    CASE mode = "line"   -> << IF ch = Newline THEN "code" ELSE "line", 1 >>
      [] mode = "block"  -> IF ch = "*" /\ next = "/" THEN << "code", 2 >> ELSE << "block", 1 >>
      [] mode = "quote"  -> << IF ch = "'" THEN "code" ELSE "quote", 1 >>
      [] OTHER           -> IF ch = "-" /\ next = "-" THEN << "line", 1 >>
                            ELSE IF ch = "/" /\ next = "*" THEN << "block", 2 >>
                            ELSE << IF ch = "'" THEN "quote" ELSE "code", 1 >>

\* SqlScanner::advance: the next mode and how many characters it consumes.
Advance(ch, next) ==
    CASE mode = "escape" -> << "quote", 1 >>
      [] mode = "line"   -> << IF ch = Newline THEN "code" ELSE "line", 1 >>
      [] mode = "block"  -> IF ch = "*" /\ next = "/" THEN << "code", 2 >> ELSE << "block", 1 >>
      [] mode = "quote"  -> << IF ch = "\\" THEN "escape" ELSE IF ch = "'" THEN "code" ELSE "quote", 1 >>
      [] OTHER           -> IF ch = "-" /\ next = "-" THEN << "line", 1 >>
                            ELSE IF ch = "/" /\ next = "*" THEN << "block", 2 >>
                            ELSE << IF ch = "'" THEN "quote" ELSE "code", 1 >>

\* A statement that is blank is dropped.
Emit(s) == IF Trim(s) = << >> THEN statements ELSE Append(statements, Trim(s))

\* One turn of the loops.
Scan ==
    LET ch == sql[at]
        next == IF at < Len(sql) THEN sql[at + 1] ELSE "end"
        step == Advance(ch, next)
        boundary == ch = ";" /\ mode = "code"
    IN
    /\ at <= Len(sql)
    /\ mode' = step[1]
    /\ at' = at + step[2]
    /\ holes' = IF ch = "?" /\ mode = "code" THEN holes + 1 ELSE holes
    /\ IF boundary
       THEN /\ statements' = Emit(current)
            /\ current' = << >>
            /\ multiple' = IF multiple # "undecided" THEN multiple
                           ELSE IF Trim(SubSeq(sql, at + 1, Len(sql))) # << >> THEN "yes" ELSE "no"
       ELSE /\ current' = current \o SubSeq(sql, at, at + step[2] - 1)
            /\ UNCHANGED << statements, multiple >>
    /\ UNCHANGED << lexemes, sql >>

\* The text has ended: what is left is the last statement.
Finish ==
    /\ at = Len(sql) + 1
    /\ at' = at + 1
    /\ statements' = Emit(current)
    /\ current' = << >>
    /\ multiple' = IF multiple = "undecided" THEN "no" ELSE multiple
    /\ UNCHANGED << lexemes, sql, mode, holes >>

SqlNext == Scan \/ Finish

SqlSpec == SqlInit /\ [][SqlNext]_sqlVars

-----------------------------------------------------------------------------
(* Properties.                                                             *)

Scanned == at = Len(sql) + 2

Ends == {i \in DOMAIN lexemes : lexemes[i].kind = "code" /\ lexemes[i].text = << ";" >>}

\* What was written between the n-th end of a statement and the next.
Written(n) ==
    LET cuts == SetToSortSeq(Ends \union {0, Len(lexemes) + 1}, <)
    IN SubSeq(lexemes, cuts[n] + 1, cuts[n + 1] - 1)

\* The statements are the texts between the semicolons that were written as such,
\* trimmed and without the blank ones, in order; the placeholders those written as
\* such, so that the statements of a script, each scanned anew, have as many as the
\* script; and each of them is one statement.  A text of several statements is told
\* by a semicolon that anything but blanks follows: a comment counts, and so a
\* script of one statement and a remark is taken for two.
SplitsAsWritten ==
    Scanned =>
      LET pieces == [n \in 1 .. (Cardinality(Ends) + 1) |-> Trim(Characters(Written(n)))]
      IN
      /\ statements = SelectSeq(pieces, LAMBDA s : s # << >>)
      /\ holes = Cardinality({i \in DOMAIN lexemes :
                                lexemes[i].kind = "code" /\ lexemes[i].text = << "?" >>})
      /\ multiple = "yes" <=>
           Ends # {} /\ Trim(Characters(SubSeq(lexemes, Min(Ends) + 1, Len(lexemes)))) # << >>
=============================================================================
