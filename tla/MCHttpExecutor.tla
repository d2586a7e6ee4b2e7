--------------------------- MODULE MCHttpExecutor ---------------------------
EXTENDS HttpExecutor

Ask(method, headers, body) ==
    [valid |-> TRUE, method |-> method, headers |-> headers, body |-> body,
     follow |-> TRUE, verify |-> TRUE, timeout |-> FALSE]

Row(key, value) == [key |-> key, value |-> value, on |-> TRUE]

Off(row) == [row EXCEPT !.on = FALSE]

\* The first call takes each path of build_request; the second one asks for a
\* client that is not the default.
MCRequests == <<
  { [Ask("GET", <<>>, <<>>) EXCEPT !.valid = FALSE],
    [Ask("GET", <<Row("type", "json"), Row("other", "x")>>, <<"text">>) EXCEPT !.follow = FALSE],
    [Ask("POST", <<Off(Row("type", "multipart")), Row("", "x")>>, <<"text">>) EXCEPT !.verify = FALSE],
    Ask("POST", <<Row("type", "")>>, <<"text">>),
    Ask("PUT", <<Row("type", "binary")>>, <<"file">>),
    Ask("PUT", <<Row("type", "binary")>>, <<"file", "text">>),
    Ask("POST", <<Row("type", "multipart"), Row("other", "x")>>,
        <<"part", "comment", "filepart", "filepart">>) },
  { [Ask("GET", <<>>, <<>>) EXCEPT !.follow = FALSE, !.timeout = TRUE] } >>
=============================================================================
