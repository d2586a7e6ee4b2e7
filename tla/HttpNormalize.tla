---------------------------- MODULE HttpNormalize ----------------------------
(***************************************************************************)
(* A legacy http block, whose body is the request as JSON, and the text    *)
(* that normalize_http_blocks (blocks/http_normalize.rs) puts in its place *)
(* whenever the note is read.  Callers of parse_blocks that have the note  *)
(* as it is on disk get the JSON as it stands (parse_legacy_http_body in   *)
(* blocks/parser.rs), the others what BlockText reads out of the new text. *)
(* Either way build_request (executor/http/request.rs) makes the request.  *)
(***************************************************************************)
EXTENDS BlockText

CONSTANTS
    Requests,      \* legacy bodies: method, url, params, headers, body, timeout
    UrlInlineLimit, \* of a request line, in tokens
    BodyMethods    \* methods whose body is sent

VARIABLE legacy

normalizeVars == << legacy, blockVars >>

\* A line of backticks.
FenceLine == << "fence" >>

-----------------------------------------------------------------------------
(* try_normalize_legacy.                                                   *)

\* extract_kv_array.
KeyValues(rows) == SelectSeq(rows, LAMBDA row : row.key # Blank)

\* can_inline_query.
CanInlineQuery(r) ==
    \/ KeyValues(r.params) = << >>
    \/ 3 + Len(r.url) + Len(QueryString([params |-> KeyValues(r.params)])) <= UrlInlineLimit

\* (A mistake: headers come before the parameters that have lines of their own.)
HeadersFirst(request, params, headers, body) == << request >> \o headers \o params \o body

Layout(request, params, headers, body) == << request >> \o params \o headers \o body

\* stringify_http_message.
Canonical(r) ==
    LET params == KeyValues(r.params)
        headers == KeyValues(r.headers)
        request == << r.method[1], " " >> \o r.url
    IN Layout(
         IF CanInlineQuery(r) /\ params # << >>
           THEN request \o << "?" >> \o QueryString([params |-> params])
           ELSE request,
         IF CanInlineQuery(r) THEN << >>
           ELSE [n \in DOMAIN params |-> << IF n = 1 THEN "?" ELSE "&" >> \o Pair(params[n])],
         [n \in DOMAIN headers |-> headers[n].key \o << ":", " " >> \o headers[n].value],
         IF r.body = << >> THEN << >> ELSE << Blank >> \o r.body)

\* The block ends at the first line that closes its fence.
UpToFence(lines) ==
    LET fences == {n \in DOMAIN lines : lines[n] = FenceLine}
    IN IF fences = {} THEN lines ELSE SubSeq(lines, 1, Min(fences) - 1)

NormalizeInit ==
    /\ legacy \in Requests
    /\ text = [type |-> "http", lines |-> UpToFence(Canonical(legacy)),
               info |-> [alias |-> None, display |-> None, connection |-> None, limit |-> None, timeout |-> None]]
    /\ Unread

NormalizeNext == BlockNext /\ UNCHANGED legacy

NormalizeSpec == NormalizeInit /\ [][NormalizeNext]_normalizeVars

-----------------------------------------------------------------------------
(* build_request.                                                          *)

Enabled(rows) ==
    LET kept == SelectSeq(rows, LAMBDA row : row.enabled /\ row.key # Blank)
    IN [n \in DOMAIN kept |-> << kept[n].key, kept[n].value >>]

\* The pairs a server finds in the url, and the parameters, which are encoded.
Query(b) ==
    LET own == Positions("?", b.url)
        inUrl == IF own = {} THEN << >> ELSE Enabled(Inline(After(b.url, Min(own))))
    IN inUrl \o Enabled(b.params)

Address(b) ==
    LET own == Positions("?", b.url) IN IF own = {} THEN b.url ELSE Before(b.url, Min(own))

\* The body is trimmed.
Payload(b) ==
    LET full == {n \in DOMAIN b.body : Trim(b.body[n]) # Blank}
    IN IF b.method \notin BodyMethods \/ full = {} THEN << >>
       ELSE SubSeq(b.body, Min(full), Max(full))

Sent(b) ==
    [method |-> b.method, address |-> Address(b), query |-> Query(b),
     headers |-> Enabled(b.headers), body |-> Payload(b), timeout |-> b.timeout]

-----------------------------------------------------------------------------
(* Properties.                                                             *)

AllEnabled(rows) == [n \in DOMAIN rows |-> [rows[n] EXCEPT !.enabled = TRUE]]

\* What the new text has no room for is gone: the timeout and the marks of the rows
\* that are disabled.
Unmarked(r) ==
    [r EXCEPT !.timeout = None, !.params = AllEnabled(@), !.headers = AllEnabled(@)]

\* Parameters in a request line whose url has a query already are read as part of its
\* last value, and those with an `&` or whose key has an `=` are read apart elsewhere.
Misread(r) ==
    \/ /\ CanInlineQuery(r)
       /\ \/ "?" \in Range(r.url) /\ KeyValues(r.params) # << >>
          \/ \E row \in Range(r.params) : "&" \in Range(Pair(row))
    \/ \E row \in Range(r.params) : "=" \in Range(row.key)
    \/ r.url = Blank /\ (KeyValues(r.params) = << >> \/ ~CanInlineQuery(r))

\* A line of the body closes the fence around it.
ClosedEarly(r) == FenceLine \in Range(r.body)

\* The request that is sent for a block is the same before and after its note was read:
\* address, parameters and headers in their order, and the body.  Except that the
\* timeout is lost and rows that were disabled are sent, and except for the shapes
\* above, of which the new text is read as another request.
RequestSurvives ==
    read # << >> =>
      \/ Misread(legacy)
      \/ ClosedEarly(legacy)
      \/ Sent(read[1]) = Sent(Unmarked(legacy))
=============================================================================
