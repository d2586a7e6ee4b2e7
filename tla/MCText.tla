------------------------------- MODULE MCText -------------------------------
(***************************************************************************)
(* What is read out of text, each part over every text of a few pieces.    *)
(* The parts share no state, so a behaviour exercises one of them: `part`, *)
(* and the others keep the values they have while idle.                    *)
(***************************************************************************)
EXTENDS Naturals, Sequences

VARIABLES
    part,
    lexemes, sql, at, mode, current, statements, holes, multiple,
    written, env, results, start, placeholders, turn, result,
    lines, i, open, blocks,
    text, line, phase, block, sawHeader, read, saved, legacy,
    driver, explain, script, binds, page, shares, bindCursor, answers, received, changed

sqlVars == << lexemes, sql, at, mode, current, statements, holes, multiple >>
substVars == << written, env, results, start, placeholders, turn, result >>
fenceVars == << lines, i, open, blocks >>
blockVars == << text, line, phase, block, sawHeader, read, saved, legacy >>
scriptVars == << driver, explain, script, binds, page, shares, bindCursor, answers, received, changed >>
vars == << part, sqlVars, substVars, fenceVars, blockVars, scriptVars >>

Idle == "idle"
SqlIdle ==
    /\ lexemes = Idle /\ sql = Idle /\ at = Idle /\ mode = Idle
    /\ current = Idle /\ statements = Idle /\ holes = Idle /\ multiple = Idle
SubstIdle ==
    /\ written = Idle /\ env = Idle /\ results = Idle /\ start = Idle
    /\ placeholders = Idle /\ turn = Idle /\ result = Idle
FencesIdle == lines = Idle /\ i = Idle /\ open = Idle /\ blocks = Idle
BlockIdle ==
    /\ text = Idle /\ line = Idle /\ phase = Idle /\ block = Idle
    /\ sawHeader = Idle /\ read = Idle /\ saved = Idle /\ legacy = Idle
ScriptIdle ==
    /\ driver = Idle /\ explain = Idle /\ changed = Idle
    /\ script = Idle /\ binds = Idle /\ page = Idle /\ shares = Idle
    /\ bindCursor = Idle /\ answers = Idle /\ received = Idle

-----------------------------------------------------------------------------
Lexeme(kind, chars, closed) == [kind |-> kind, text |-> chars, closed |-> closed]

Lexemes == {
    Lexeme("code", << "a" >>, TRUE), Lexeme("code", << ";" >>, TRUE), Lexeme("code", << "?" >>, TRUE),
    Lexeme("code", << " " >>, TRUE), Lexeme("code", << "/" >>, TRUE),
    Lexeme("string", << "'", ";", "'" >>, TRUE), Lexeme("string", << "'", "\\", "'", "?", "'" >>, TRUE),
    Lexeme("string", << "'", "-", "-", "'" >>, TRUE), Lexeme("string", << "'", ";" >>, FALSE),
    Lexeme("comment", << "-", "-", ";", "'", "\n" >>, TRUE), Lexeme("comment", << "-", "-", "?" >>, FALSE),
    Lexeme("comment", << "/", "*", "'", ";", "?", "*", "/" >>, TRUE),
    Lexeme("comment", << "/", "*", "/", ";" >>, FALSE) }

Sql == INSTANCE SqlScanner WITH MaxLexemes <- 4

NoValue == << "no value" >>
Ref == << "r", ".", "x" >>
Hole(name) == << "{", "{" >> \o name \o << "}", "}" >>

Subst == INSTANCE Substitution WITH
    MaxPieces <- 3,
    Pieces <- {Hole(<< "A" >>), Hole(Ref), Hole(<< "B" >>), << "v" >>, << "{" >>, << "}", "}" >>, Hole(<< >>)},
    EnvNames <- {<< "A" >>, << "B" >>}, References <- {Ref},
    Values <- {<< "v" >>, << "w" >> \o Hole(<< "A" >>), Hole(Ref)},
    NoValue <- NoValue

-----------------------------------------------------------------------------
Fence(mark, count, info) == [mark |-> mark, count |-> count, info |-> info]

Fences == INSTANCE NoteFences WITH
    MaxLines <- 4, Executable <- {"http", "db"},
    Lines <- {Fence("backtick", 3, "http"), Fence("backtick", 4, "db"), Fence("backtick", 3, "md"), Fence("backtick", 3, "blank"),
              Fence("backtick", 4, "blank"), Fence("tilde", 3, "http"), Fence("tilde", 3, "blank"), Fence("none", 0, "a")}

-----------------------------------------------------------------------------
Info(alias, connection, limit, timeout, display) ==
    [alias |-> alias, connection |-> connection, limit |-> limit, timeout |-> timeout, display |-> display]

Missing == "none"
HttpInfos == {Info("a", Missing, Missing, Missing, "input"), Info("", "c", Missing, "5", Missing)}
DbInfos == {Info(a, c, l, t, d) : a \in {Missing, "", "a"}, c \in {Missing, "", "c"},
               l \in {Missing, "5", "many"}, t \in {Missing, "5", "long"}, d \in {Missing, "", "input"}}

RequestLines == {
    << "GET", " ", "u" >>, << "POST", " ", "?" >>, << "POST", " ", "u", "?", "k", "=", "v", "&", "k" >>,
    << "GET", " ", "?", "k", "&", "&", "=", "v" >>, << "GET" >>, << "u" >>, << "#", "k" >> }
RowLines == {
    << >>, << " " >>, << "?", "k", "=", "v" >>, << "&", "k", "=" >>, << "?", "k", "=", "v", "&", "k" >>,
    << "#", " ", "?", "k", "=", "v" >>, << "k", ":", " ", "v" >>, << "#", " ", "k", ":", "v" >>,
    << "#", " ", "desc", ":", " ", "v" >>, << "#", " ", " ", "desc", ":", "v" >>, << "#", "k", ":" >>,
    << "k" >> }

Row(key, value, enabled) == [key |-> key, value |-> value, enabled |-> enabled]
ParamRows == {
    Row(<< "k" >>, << "v" >>, TRUE), Row(<< "k" >>, << >>, TRUE), Row(<< >>, << "v" >>, TRUE),
    Row(<< "j" >>, << "v" >>, FALSE), Row(<< "k" >>, << "v", "&", "j" >>, TRUE), Row(<< "k", "=" >>, << "v" >>, TRUE) }
HeaderRows == {
    Row(<< "h" >>, << "v" >>, TRUE), Row(<< >>, << "v" >>, TRUE), Row(<< "h" >>, << >>, FALSE),
    Row(<< "h" >>, << "v", ":", "?", "w" >>, TRUE) }

Blocks == INSTANCE HttpNormalize WITH
    UrlInlineLimit <- 9, BodyMethods <- {<< "POST" >>},
    Requests <- [method : {<< "GET" >>, << "POST" >>}, timeout : {Missing, "5"},
                 url : {<< "u" >>, << "u", "?", "q", "=", "w" >>, << >>},
                 params : UNION {[1 .. n -> ParamRows] : n \in 0 .. 2},
                 headers : {<< >>} \union [1 .. 1 -> HeaderRows],
                 body : {<< >>, << << "a" >> >>, << << "a" >>, << >>, << "k", ":", "v" >>, << >> >>,
                         << << >>, << "a" >>, << "fence" >>, << "b" >> >>}],
    i <- line, written <- saved,
    Methods <- {<< "GET" >>, << "POST" >>}, Default <- << "GET" >>, Numbers <- {"5"}, None <- Missing,
    Texts <-
        {[type |-> "http", info |-> info, lines |-> << request >> \o rows] :
            info \in HttpInfos, request \in RequestLines,
            rows \in UNION {[1 .. n -> RowLines] : n \in 0 .. 3}}
        \union {[type |-> "db", info |-> info, lines |-> rows] :
            info \in DbInfos, rows \in UNION {[1 .. n -> {<< >>, << "k" >>}] : n \in 0 .. 2}}

-----------------------------------------------------------------------------
Remark == "remark"
Trailing == "-- end"
Statements == {
    << "SELECT", "a" >>, << "SELECT", "?" >>, << Remark, "SELECT", "?" >>, << "SELECT", "a", Trailing >>,
    << "SELECT", "?", "?" >>, << "WITH", Remark, "SELECT", "a" >>, << "WITH", "DELETE", "?" >>,
    << "DELETE", "?" >>, << "PRAGMA", "a" >>, << "PRAGMA", "a", "=" >>, << Remark, "WITH", "a", Trailing >>,
    << "EXPLAIN", "ANALYZE", "DELETE" >>, << "EXPLAIN", "ANALYZE", "WITH", "DELETE" >>,
    << Remark, "EXPLAIN", "ANALYZE", "DELETE" >>, << "EXPLAIN", "(ANALYZE)", "DELETE" >>,
    << "EXPLAIN", "ANALYZE", "VERBOSE", "DELETE" >>, << "EXPLAIN", "VERBOSE", "DELETE" >>, << "SHOW", "a" >>, << "a" >> }

Script == INSTANCE DbScript WITH
    results <- answers,
    Scripts <- {<< s >> : s \in Statements} \union (Statements \X Statements),
    Binds <- UNION {[1 .. n -> {"x", "y", "list"}] : n \in 0 .. 3},
    Pages <- {0, 2, 4} \X {1, 2}, TableSize <- 4

\* A plan does not depend on the page, and a script as it stands not on the driver.
ScriptRequest ==
    IF explain = "asked" THEN page = << 0, 1 >> /\ Len(binds) <= 1 ELSE driver = "postgres"

-----------------------------------------------------------------------------
Init ==
    \/ part = "sql" /\ Sql!SqlInit /\ SubstIdle /\ FencesIdle /\ BlockIdle /\ ScriptIdle
    \/ part = "substitution" /\ Subst!SubstInit /\ SqlIdle /\ FencesIdle /\ BlockIdle /\ ScriptIdle
    \/ part = "fences" /\ Fences!FenceInit /\ SqlIdle /\ SubstIdle /\ BlockIdle /\ ScriptIdle
    \/ part = "legacy" /\ Blocks!NormalizeInit /\ SqlIdle /\ SubstIdle /\ FencesIdle /\ ScriptIdle
    \/ part = "blocks" /\ Blocks!BlockInit /\ legacy = Idle /\ SqlIdle /\ SubstIdle /\ FencesIdle /\ ScriptIdle
    \/ part = "script" /\ Script!ScriptInit /\ ScriptRequest /\ SqlIdle /\ SubstIdle /\ FencesIdle /\ BlockIdle

SqlStep ==
    part = "sql" /\ Sql!SqlNext /\ UNCHANGED << part, substVars, fenceVars, blockVars, scriptVars >>
SubstStep ==
    part = "substitution" /\ Subst!SubstNext /\ UNCHANGED << part, sqlVars, fenceVars, blockVars, scriptVars >>
FenceStep ==
    part = "fences" /\ Fences!FenceNext /\ UNCHANGED << part, sqlVars, substVars, blockVars, scriptVars >>
BlockStep ==
    part \in {"blocks", "legacy"} /\ Blocks!NormalizeNext /\ UNCHANGED << part, sqlVars, substVars, fenceVars, scriptVars >>
ScriptStep ==
    part = "script" /\ Script!ScriptNext /\ UNCHANGED << part, sqlVars, substVars, fenceVars, blockVars >>

Next == SqlStep \/ SubstStep \/ FenceStep \/ BlockStep \/ ScriptStep

Spec == Init /\ [][Next]_vars

\* Statements, placeholders and boundaries are those written as such.
SplitsAsWritten == part = "sql" => Sql!SplitsAsWritten
\* A value stands in the string as it is.
ValuesVerbatim == part = "substitution" => Subst!ValuesVerbatim
\* The blocks are the code blocks a reader of the note sees.
FencesAsWritten == part = "fences" => Fences!FencesAsWritten
\* A block survives being written and read.
RoundTrips == part = "blocks" => Blocks!RoundTrips
\* A legacy block stands for the same request once it is a text.
RequestSurvives == part = "legacy" => Blocks!RequestSurvives
\* A query answers with its rows and is given its values.
RowsReach == part = "script" => Script!RowsReach
\* A statement changes data when it is a change that did not fail.
ChangesAsAsked == part = "script" => Script!ChangesAsAsked
=============================================================================
