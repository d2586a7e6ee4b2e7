------------------------------ MODULE BlockText ------------------------------
(***************************************************************************)
(* A block as text and as a record: parse_http_message_body and            *)
(* parse_db_body (blocks/parser.rs) against serialize_block                *)
(* (blocks/serializer.rs).  A text is read, the block written back, that   *)
(* text read again and written once more.                                  *)
(*                                                                         *)
(* A line is a sequence of tokens: the punctuation the parser looks for,   *)
(* blanks and words.  Legacy JSON bodies are in HttpNormalize.             *)
(***************************************************************************)
EXTENDS Naturals, Sequences, FiniteSets, FiniteSetsExt, SequencesExt

CONSTANTS
    Texts,   \* records: type ("http" or "db"), info (attributes), lines
    Methods, \* is_known_http_method
    Default, \* the method of a block that has no request line
    Numbers, \* attribute values that parse as u64
    None     \* an attribute that is not there

VARIABLES
    text,  \* the text being read
    i,     \* its next line
    phase, \* "lead", "rows", "body" while reading; "read"; "written"
    block, \* the block read so far
    sawHeader,
    read,   \* the blocks read, in order
    written \* the texts written, in order

blockVars == << text, i, phase, block, sawHeader, read, written >>

Rounds == 2

Blank == << >>

Trim(s) ==
    LET solid == {n \in DOMAIN s : s[n] # " "}
    IN IF solid = {} THEN Blank ELSE SubSeq(s, Min(solid), Max(solid))

Before(s, n) == SubSeq(s, 1, n - 1)
After(s, n) == SubSeq(s, n + 1, Len(s))
Positions(token, s) == {n \in DOMAIN s : s[n] = token}
IsRemark(s) == IsPrefix(<< "#" >>, s)

Number(attribute) == IF attribute \in Numbers THEN attribute ELSE None

\* empty_http_params.
EmptyHttp(info) ==
    [alias |-> info.alias, display |-> info.display, method |-> Default, url |-> Blank,
     params |-> << >>, headers |-> << >>, body |-> << >>, timeout |-> Number(info.timeout)]

\* synthesize_db_params_from_info: a string of no characters has one line.
DbBlock(t) ==
    [alias |-> t.info.alias, display |-> t.info.display,
     query |-> IF t.lines = << Blank >> THEN << >> ELSE t.lines,
     connection |-> IF t.info.connection = "" THEN None ELSE t.info.connection,
     limit |-> Number(t.info.limit), timeout |-> Number(t.info.timeout)]

Start(t) ==
    /\ text' = t
    /\ i' = 1
    /\ phase' = "lead"
    /\ block' = IF t.type = "db" THEN DbBlock(t) ELSE EmptyHttp(t.info)
    /\ sawHeader' = FALSE

Unread ==
    /\ i = 1
    /\ phase = "lead"
    /\ block = IF text.type = "db" THEN DbBlock(text) ELSE EmptyHttp(text.info)
    /\ sawHeader = FALSE
    /\ read = << >>
    /\ written = << >>

BlockInit ==
    /\ text \in Texts
    /\ Unread

-----------------------------------------------------------------------------
(* Segments and lines.                                                     *)

No == << >>

\* split_query_segment: a key that is not empty and a value, or No.
Segment(s) ==
    LET equals == Positions("=", s)
    IN IF s = Blank \/ 1 \in equals THEN No
       ELSE IF equals = {} THEN << s, Blank >>
       ELSE << Before(s, Min(equals)), After(s, Min(equals)) >>

\* split_header_line.
Header(s) ==
    LET colons == Positions(":", s)
        key == Trim(Before(s, Min(colons)))
    IN IF colons = {} THEN No
       ELSE IF key = Blank THEN No
       ELSE << key, Trim(After(s, Min(colons))) >>

WithRow(rows, pair, enabled) ==
    IF pair = No THEN rows
    ELSE Append(rows, [key |-> pair[1], value |-> pair[2], enabled |-> enabled])

\* str::split.
Split(s, token) ==
    FoldLeft(LAMBDA segments, t :
               IF t = token THEN Append(segments, Blank)
               ELSE [segments EXCEPT ![Len(segments)] = Append(@, t)],
             << Blank >>, s)

Inline(query) ==
    FoldLeft(LAMBDA rows, s : WithRow(rows, Segment(s), TRUE), << >>, Split(query, "&"))

-----------------------------------------------------------------------------
(* parse_http_message_body.                                                *)

Line == Trim(text.lines[i])

Reading(p) == phase = p /\ text.type = "http" /\ i \in DOMAIN text.lines

SkipLead ==
    /\ Reading("lead")
    /\ Line = Blank \/ IsRemark(Line)
    /\ i' = i + 1
    /\ UNCHANGED << text, phase, block, sawHeader, read, written >>

\* parse_http_first_line, or empty_http_params.
RequestLine ==
    /\ Reading("lead")
    /\ Line # Blank /\ ~IsRemark(Line)
    /\ LET blanks == Positions(" ", Line)
           method == IF blanks = {} THEN Line ELSE Before(Line, Min(blanks))
           rest == IF blanks = {} THEN Blank ELSE Trim(After(Line, Min(blanks)))
           query == Positions("?", rest)
       IN IF blanks = {} \/ method \notin Methods
          THEN /\ phase' = "read"
               /\ UNCHANGED block
          ELSE /\ phase' = "rows"
               /\ block' = [block EXCEPT
                              !.method = method,
                              !.url = IF query = {} THEN rest ELSE Before(rest, Min(query)),
                              !.params = IF query = {} THEN << >> ELSE Inline(After(rest, Min(query)))]
    /\ i' = i + 1
    /\ UNCHANGED << text, sawHeader, read, written >>

NoRequest ==
    /\ phase = "lead"
    /\ text.type = "db" \/ i = Len(text.lines) + 1
    /\ phase' = "read"
    /\ UNCHANGED << text, i, block, sawHeader, read, written >>

IsDescription(s) == s = << "#", " ", "desc", ":" >> \/ IsPrefix(<< "#", " ", "desc", ":", " " >>, s)
IsDisabled(s) == ~IsDescription(s) /\ (s = << "#" >> \/ IsPrefix(<< "#", " " >>, s))
IsQuery(s) == ~sawHeader /\ s # Blank /\ s[1] \in {"?", "&"}

\* A description or a remark.
Dropped ==
    /\ Reading("rows")
    /\ IsRemark(Line) /\ ~IsDisabled(Line)
    /\ i' = i + 1
    /\ UNCHANGED << text, phase, block, sawHeader, read, written >>

\* A parameter or a header that is enabled, or disabled by its mark.
Row(s, enabled) ==
    /\ IF IsQuery(s)
       THEN /\ block' = [block EXCEPT !.params = WithRow(@, Segment(Tail(s)), enabled)]
            /\ UNCHANGED sawHeader
       ELSE /\ block' = [block EXCEPT !.headers = WithRow(@, Header(s), enabled)]
            /\ sawHeader' = (sawHeader \/ Header(s) # No)
    /\ i' = i + 1
    /\ UNCHANGED << text, phase, read, written >>

DisabledRow == Reading("rows") /\ IsDisabled(Line) /\ Row(SubSeq(Line, 3, Len(Line)), FALSE)

EnabledRow == Reading("rows") /\ Line # Blank /\ ~IsRemark(Line) /\ Row(Line, TRUE)

EndOfRows ==
    /\ phase = "rows"
    /\ \/ Reading("rows") /\ Line = Blank
       \/ i = Len(text.lines) + 1
    /\ phase' = "body"
    /\ i' = i + 1
    /\ UNCHANGED << text, block, sawHeader, read, written >>

\* Lines that are empty, not merely blank, are dropped at the end.
Body ==
    /\ phase = "body"
    /\ LET full == {n \in i .. Len(text.lines) : text.lines[n] # Blank}
       IN block' = [block EXCEPT !.body =
                      IF full = {} THEN << >> ELSE SubSeq(text.lines, i, Max(full))]
    /\ phase' = "read"
    /\ UNCHANGED << text, i, sawHeader, read, written >>

-----------------------------------------------------------------------------
(* serialize_block.                                                        *)

Pair(row) == IF row.value = Blank THEN row.key ELSE row.key \o << "=" >> \o row.value

Marked(row, s) == IF row.enabled THEN s ELSE << "#", " " >> \o s

\* (A mistake: parameters always go into the request line.)
FitsAlways(b) == TRUE

\* One disabled parameter, and each has a line of its own.
FitsRequestLine(b) == \A n \in DOMAIN b.params : b.params[n].enabled

\* build_query_string.
QueryString(b) ==
    FlattenSeq([n \in DOMAIN b.params |-> (IF n = 1 THEN << >> ELSE << "&" >>) \o Pair(b.params[n])])

HttpLines(b) ==
    LET inline == FitsRequestLine(b)
        request == << b.method[1], " " >> \o b.url \o
                   (IF inline /\ b.params # << >> THEN << "?" >> \o QueryString(b) ELSE << >>)
        params == [n \in DOMAIN b.params |->
                     Marked(b.params[n], << IF n = 1 THEN "?" ELSE "&" >> \o Pair(b.params[n]))]
        headers == [n \in DOMAIN b.headers |->
                      Marked(b.headers[n], b.headers[n].key \o << ":", " " >> \o b.headers[n].value)]
    IN << request >> \o (IF inline THEN << >> ELSE params) \o headers \o
       (IF b.body = << >> THEN << >> ELSE << Blank >> \o b.body)

Filled(attribute) == IF attribute = "" THEN None ELSE attribute

\* serialize_http_block.
HttpText(b) ==
    [type |-> "http",
     info |-> [alias |-> Filled(b.alias), display |-> Filled(b.display),
               connection |-> None, limit |-> None, timeout |-> None],
     lines |-> HttpLines(b)]

\* serialize_db_block.
DbText(b) ==
    [type |-> "db",
     info |-> [alias |-> Filled(b.alias), display |-> Filled(b.display),
               connection |-> b.connection, limit |-> b.limit, timeout |-> b.timeout],
     lines |-> IF b.query = << >> THEN << Blank >> ELSE b.query]

\* The block is written, and read again.
Serialize ==
    /\ phase = "read"
    /\ Len(written) < Rounds
    /\ LET t == IF text.type = "db" THEN DbText(block) ELSE HttpText(block)
       IN written' = Append(written, t) /\ Start(t)
    /\ read' = Append(read, block)

BlockNext ==
    \/ SkipLead \/ RequestLine \/ NoRequest
    \/ Dropped \/ DisabledRow \/ EnabledRow \/ EndOfRows \/ Body
    \/ Serialize

BlockSpec == BlockInit /\ [][BlockNext]_blockVars

-----------------------------------------------------------------------------
(* Properties.                                                             *)

\* What is kept of a block: empty names are not written, and neither is the
\* timeout of an HTTP block.
Kept(b) ==
    LET named == [b EXCEPT !.alias = Filled(@), !.display = Filled(@)]
    IN IF text.type = "http" THEN [named EXCEPT !.timeout = None] ELSE named

\* The request line has nothing after the method: it is not read as one, and with it
\* the whole block is gone.
NoUrl(b) ==
    /\ b.url = Blank
    /\ ~FitsRequestLine(b) \/ b.params = << >>
    /\ b # [EmptyHttp(text.info) EXCEPT !.alias = b.alias, !.display = b.display, !.timeout = b.timeout]

\* A parameter of a line of its own that goes into the request line with an `&` in it.
Resplit(b) == FitsRequestLine(b) /\ \E n \in DOMAIN b.params : "&" \in Range(Pair(b.params[n]))

\* A disabled header that looks like a description once it is written.
Described(b) == \E n \in DOMAIN b.headers : ~b.headers[n].enabled /\ b.headers[n].key = << "desc" >>

\* A block survives being written and read: method, url, parameters and headers in
\* their order and with their marks, and the body or the query to the last line, are
\* those that were read, and what is written the second time is what was written the
\* first time.  Except that an HTTP block loses its timeout and an empty alias or
\* display mode becomes none, and except for the three shapes above, of which the
\* text written is read as something else.
RoundTrips ==
    Len(written) = Rounds =>
      \/ /\ text.type = "http"
         /\ NoUrl(read[1]) \/ Resplit(read[1]) \/ Described(read[1])
      \/ /\ read[2] = Kept(read[1])
         /\ written[2] = written[1]
=============================================================================
