---------------------------- MODULE HttpExecutor ----------------------------
(***************************************************************************)
(* executor/http: one streamed request per call.  build_request assembles  *)
(* headers and body, reading body files under the cancel token; the        *)
(* answer's headers, its body chunks and a final Complete go to the        *)
(* callback.  Every await is a biased select with the token first, so a    *)
(* step is cut in two where something else can happen: what the select     *)
(* takes, and what the code then does with it.  The server, the file       *)
(* system, the clock and the user are the environment; turning an Err into *)
(* the last chunk is the command layer's part, which types.rs describes.   *)
(***************************************************************************)
EXTENDS Integers, Sequences, FiniteSets

CONSTANTS
    Calls,      \* executions, all through one HttpExecutor
    Requests,   \* call -> what its block may ask, a set of
                \* [valid, method, headers, body, follow, verify, timeout]
    MaxBody,    \* MAX_BODY_BYTES
    Sizes,      \* sizes of the pieces bytes_stream yields
    MaxHops     \* redirects reqwest follows

ASSUME BodyAssumption == MaxBody \in Nat /\ MaxHops \in Nat /\ Sizes \subseteq Nat \ {0}

VARIABLES
    req,        \* call -> its request
    clients,    \* flags -> the client built for them: the cache of the executor
    client,     \* call -> the client it sends with
    token,      \* call -> its CancellationToken has fired
    pc,         \* call -> "new", "reading", "sending", "answered", "streaming",
                \*         "chunk", "complete", "failed", "done"
    files,      \* call -> body files still to be read
    sent,       \* call -> the request as handed to send()
    hops,       \* call -> redirects followed
    piece,      \* call -> size of the piece the select took
    offset,     \* call -> bytes received
    result,     \* call -> what the call returned: "none", "ok" or the error
    wire,       \* call -> the chunks its listener got
    late        \* call -> chunks of on_chunk since the token fired (history)

vars == <<req, clients, client, token, pc, files, sent, hops, piece, offset, result, wire, late>>

Wire == INSTANCE ChunkWire

AllRequests == UNION {Requests[c] : c \in Calls}

ASSUME RequestsAssumption == \A r \in AllRequests :
    /\ r.headers \in Seq([key : STRING, value : STRING, on : BOOLEAN]) /\ r.body \in Seq(STRING)
    /\ r.follow \in BOOLEAN /\ r.verify \in BOOLEAN

(***************************************************************************)
(* build_request.  A row is [key, value, on]; "type" is the Content-Type   *)
(* key, and its values are "json", "binary", "multipart" or "".  A body is *)
(* its non-blank lines: "text", "file" (< path), "part" (name=value),      *)
(* "filepart" (name=< path) or "comment" (# ...).  A header that is sent   *)
(* is told apart from its equals by the place of the row it comes from.    *)
(***************************************************************************)
Header(place, key, value) == [place |-> place, key |-> key, value |-> value]

HeadersAt(r, places) == {Header(i, r.headers[i].key, r.headers[i].value) : i \in places}

TypeRows(r) == {i \in DOMAIN r.headers : r.headers[i].on /\ r.headers[i].key = "type"}

First(places) == CHOOSE i \in places : \A j \in places : i <= j

UserType(r) == IF TypeRows(r) = {} THEN "" ELSE r.headers[First(TypeRows(r))].value

IsMultipart(r) == UserType(r) = "multipart"

HasBody(r) == r.method \in {"POST", "PUT", "PATCH"} /\ r.body # <<>>

\* Mutant: the user's type stays on a multipart request.
UserHeadersWithType(r) ==
    HeadersAt(r, {i \in DOMAIN r.headers : r.headers[i].on /\ r.headers[i].key # ""})

UserHeaders(r) ==
    HeadersAt(r, {i \in DOMAIN r.headers : /\ r.headers[i].on /\ r.headers[i].key # ""
                                           /\ ~(IsMultipart(r) /\ r.headers[i].key = "type")})

Form(r) ==
    CASE ~HasBody(r)                                       -> "none"
      [] HasBody(r) /\ IsMultipart(r)                      -> "multipart"
      [] HasBody(r) /\ UserType(r) = "binary"
                    /\ r.body = <<"file">>                 -> "binary"
      [] OTHER                                             -> "text"

\* Parts and comments that are not sent are never read either.
FilesOf(r) == CASE Form(r) = "multipart" -> Cardinality({i \in DOMAIN r.body : r.body[i] = "filepart"})
                [] Form(r) = "binary"    -> 1
                [] OTHER                 -> 0

\* The default type is for a request without one; a multipart body brings the
\* boundary reqwest made.
TypeAdded(r) ==
    LET last == Len(r.headers) + 1
    IN  CASE HasBody(r) /\ UserType(r) = "" -> {Header(last, "type", "json")}
          [] Form(r) = "multipart"          -> {Header(last, "type", "boundary")}
          [] OTHER                          -> {}

Built(r) == [headers |-> UserHeaders(r) \union TypeAdded(r), form |-> Form(r)]

Unsent == [headers |-> {}, form |-> "unsent"]

(***************************************************************************)
(* The cache of clients.  Redirects and certificates are settled when a    *)
(* client is built, so there is one client for each combination; every     *)
(* client has the 30 s timeout.  Only the default one exists from the start.*)
(***************************************************************************)
Flags(r) == [follow |-> r.follow, verify |-> r.verify]

\* Mutant: a client without the 30 s.
NewClientPatient(flags) == [follow |-> flags.follow, verify |-> flags.verify, timer |-> FALSE]

NewClient(flags) == [follow |-> flags.follow, verify |-> flags.verify, timer |-> TRUE]

NoClient == [follow |-> FALSE, verify |-> FALSE, timer |-> FALSE]

DefaultFlags == [follow |-> TRUE, verify |-> TRUE]

ClientFor(flags) == IF flags \in DOMAIN clients THEN clients[flags] ELSE NewClient(flags)

Init ==
    /\ req \in {r \in [Calls -> AllRequests] : \A c \in Calls : r[c] \in Requests[c]}
    /\ clients = [f \in {DefaultFlags} |-> NewClient(f)]
    /\ client = [c \in Calls |-> NoClient]
    /\ token = [c \in Calls |-> FALSE]
    /\ pc = [c \in Calls |-> "new"]
    /\ files = [c \in Calls |-> 0]
    /\ sent = [c \in Calls |-> Unsent]
    /\ hops = [c \in Calls |-> 0]
    /\ piece = [c \in Calls |-> 0]
    /\ offset = [c \in Calls |-> 0]
    /\ result = [c \in Calls |-> "none"]
    /\ wire = [c \in Calls |-> <<>>]
    /\ late = [c \in Calls |-> 0]

At(c, from) == pc[c] \in from
Goto(c, to) == pc' = [pc EXCEPT ![c] = to]
Return(c, r, to) == result' = [result EXCEPT ![c] = r] /\ Goto(c, to)
Fail(c, e) == Return(c, e, "failed")

OnChunk(c, kind, at, size) ==
    /\ wire' = [wire EXCEPT ![c] = Append(@, Wire!Chunk(kind, at, size))]
    /\ late' = [late EXCEPT ![c] = IF token[c] THEN @ + 1 ELSE @]

built     == <<clients, client, files, sent>>
received  == <<piece, offset>>
told      == <<wire, late>>

(***************************************************************************)
(* The call, up to send().  client_for holds the lock of the cache all     *)
(* through; a URL or a method that does not parse is told before the token *)
(* is looked at.                                                           *)
(***************************************************************************)
Start(c) ==
    /\ At(c, {"new"})
    /\ client' = [client EXCEPT ![c] = ClientFor(Flags(req[c]))]
    /\ clients' = [f \in DOMAIN clients \union {Flags(req[c])} |-> ClientFor(f)]
    /\ \/ /\ ~req[c].valid
          /\ Fail(c, "invalid")
          /\ UNCHANGED <<files, sent>>
       \/ /\ req[c].valid
          /\ files' = [files EXCEPT ![c] = FilesOf(req[c])]
          /\ IF files'[c] > 0
             THEN Goto(c, "reading") /\ UNCHANGED sent
             ELSE Goto(c, "sending") /\ sent' = [sent EXCEPT ![c] = Built(req[c])]
          /\ UNCHANGED result
    /\ UNCHANGED <<req, token, hops, received, told>>

\* One read_file_with_cancel; the request is complete after the last one.
ReadFile(c) ==
    /\ At(c, {"reading"}) /\ ~token[c]
    /\ files' = [files EXCEPT ![c] = @ - 1]
    /\ IF files'[c] > 0
       THEN UNCHANGED <<pc, sent>>
       ELSE Goto(c, "sending") /\ sent' = [sent EXCEPT ![c] = Built(req[c])]
    /\ UNCHANGED <<req, clients, client, token, hops, received, result, told>>

ReadFails(c) ==
    /\ At(c, {"reading"}) /\ ~token[c]
    /\ Fail(c, "file")
    /\ UNCHANGED <<req, built, token, hops, received, told>>

(***************************************************************************)
(* What the server and the clock do, as the select of send() or of         *)
(* stream.next() sees it when the token has not fired.                     *)
(***************************************************************************)
Answer(c) ==
    /\ At(c, {"sending"}) /\ ~token[c]
    /\ Goto(c, "answered")
    /\ UNCHANGED <<req, built, token, hops, received, result, told>>

\* reqwest follows inside send(), unless the client was built not to.
Redirect(c) ==
    /\ At(c, {"sending"}) /\ ~token[c] /\ client[c].follow
    /\ IF hops[c] < MaxHops
       THEN hops' = [hops EXCEPT ![c] = @ + 1] /\ UNCHANGED <<pc, result>>
       ELSE Fail(c, "too_many_redirects") /\ UNCHANGED hops
    /\ UNCHANGED <<req, built, token, received, told>>

ConnectionLost(c) ==
    /\ At(c, {"sending", "streaming"}) /\ ~token[c]
    /\ Fail(c, IF At(c, {"sending"}) THEN "request_error" ELSE "body_error")
    /\ UNCHANGED <<req, built, token, hops, received, told>>

\* The timer runs from send() to the end of the body: the request's timeout_ms,
\* or else the client's.
TimedOut(c) ==
    /\ At(c, {"sending", "streaming"}) /\ ~token[c]
    /\ req[c].timeout \/ client[c].timer
    /\ Fail(c, "timeout")
    /\ UNCHANGED <<req, built, token, hops, received, told>>

\* Mutant: a select that is not biased towards the token.
TakePieceUnbiased(c) ==
    /\ At(c, {"streaming"})
    /\ \E n \in Sizes : piece' = [piece EXCEPT ![c] = n]
    /\ Goto(c, "chunk")
    /\ UNCHANGED <<req, built, token, hops, offset, result, told>>

TakePiece(c) ==
    /\ At(c, {"streaming"}) /\ ~token[c]
    /\ \E n \in Sizes : piece' = [piece EXCEPT ![c] = n]
    /\ Goto(c, "chunk")
    /\ UNCHANGED <<req, built, token, hops, offset, result, told>>

TakeEnd(c) ==
    /\ At(c, {"streaming"}) /\ ~token[c]
    /\ Goto(c, "complete")
    /\ UNCHANGED <<req, built, token, hops, received, result, told>>

Cancelled(c) ==
    /\ At(c, {"reading", "sending", "streaming"}) /\ token[c]
    /\ Fail(c, "cancelled")
    /\ UNCHANGED <<req, built, token, hops, received, told>>

(***************************************************************************)
(* What the code does with what a select took.                             *)
(***************************************************************************)
SendHeaders(c) ==
    /\ At(c, {"answered"})
    /\ OnChunk(c, "Headers", 0, 0)
    /\ Goto(c, "streaming")
    /\ UNCHANGED <<req, built, token, hops, received, result>>

\* Mutant: the cap is compared with what came before.
TooLargeBefore(c) == offset[c] >= MaxBody

TooLarge(c) == offset[c] + piece[c] > MaxBody

SendBodyChunk(c) ==
    /\ At(c, {"chunk"}) /\ ~TooLarge(c)
    /\ OnChunk(c, "Body", offset[c], piece[c])
    /\ offset' = [offset EXCEPT ![c] = @ + piece[c]]
    /\ piece' = [piece EXCEPT ![c] = 0]
    /\ Goto(c, "streaming")
    /\ UNCHANGED <<req, built, token, hops, result>>

BodyTooLarge(c) ==
    /\ At(c, {"chunk"}) /\ TooLarge(c)
    /\ Fail(c, "body_too_large")
    /\ UNCHANGED <<req, built, token, hops, received, told>>

SendComplete(c) ==
    /\ At(c, {"complete"})
    /\ OnChunk(c, "Complete", 0, offset[c])
    /\ Return(c, "ok", "done")
    /\ UNCHANGED <<req, built, token, hops, received>>

(***************************************************************************)
(* Around the call: the user cancels, and the command that ran the request *)
(* turns an Err into the last chunk.                                       *)
(***************************************************************************)
Cancel(c) ==
    /\ ~At(c, {"failed", "done"}) /\ ~token[c]
    /\ token' = [token EXCEPT ![c] = TRUE]
    /\ UNCHANGED <<req, built, pc, hops, received, result, told>>

Report(c) ==
    /\ At(c, {"failed"})
    /\ wire' = [wire EXCEPT ![c] =
          Append(@, Wire!Chunk(IF result[c] = "cancelled" THEN "Cancelled" ELSE "Error", 0, 0))]
    /\ Goto(c, "done")
    /\ UNCHANGED <<req, built, token, hops, received, result, late>>

Finished == \A c \in Calls : At(c, {"done"})

Call(c) ==
    \/ Start(c) \/ ReadFile(c) \/ ReadFails(c) \/ Cancelled(c)
    \/ Answer(c) \/ Redirect(c) \/ ConnectionLost(c) \/ TimedOut(c)
    \/ TakePiece(c) \/ TakeEnd(c)
    \/ SendHeaders(c) \/ SendBodyChunk(c) \/ BodyTooLarge(c) \/ SendComplete(c)
    \/ Report(c)

Next == \/ \E c \in Calls : Call(c) \/ Cancel(c)
        \/ Finished /\ UNCHANGED vars

(***************************************************************************)
(* The task runs, the timer fires and the local disk answers; the server   *)
(* may stay silent for ever and the user need not cancel.                  *)
(***************************************************************************)
Fairness == \A c \in Calls :
    /\ WF_vars(Start(c)) /\ WF_vars(ReadFile(c) \/ ReadFails(c))
    /\ WF_vars(Cancelled(c)) /\ WF_vars(TimedOut(c))
    /\ WF_vars(SendHeaders(c)) /\ WF_vars(SendBodyChunk(c)) /\ WF_vars(BodyTooLarge(c))
    /\ WF_vars(SendComplete(c)) /\ WF_vars(Report(c))

Spec == Init /\ [][Next]_vars /\ Fairness

(***************************************************************************)
(* Properties.                                                             *)
(***************************************************************************)
Results == {"none", "ok", "invalid", "file", "too_many_redirects", "request_error", "body_error",
            "timeout", "cancelled", "body_too_large"}

TypeOK ==
    /\ req \in [Calls -> AllRequests]
    /\ DOMAIN clients \subseteq [follow : BOOLEAN, verify : BOOLEAN]
    /\ \A f \in DOMAIN clients : clients[f] \in [follow : BOOLEAN, verify : BOOLEAN, timer : BOOLEAN]
    /\ client \in [Calls -> [follow : BOOLEAN, verify : BOOLEAN, timer : BOOLEAN]]
    /\ token \in [Calls -> BOOLEAN]
    /\ pc \in [Calls -> {"new", "reading", "sending", "answered", "streaming", "chunk",
                         "complete", "failed", "done"}]
    /\ files \in [Calls -> Nat] /\ hops \in [Calls -> Nat]
    /\ piece \in [Calls -> Nat] /\ offset \in [Calls -> Nat] /\ late \in [Calls -> Nat]
    /\ result \in [Calls -> Results]

\* A streamed request keeps the protocol types.rs promises its listener: the
\* chunks come in its order, their offsets are continuous, Complete carries
\* exactly the body that was streamed and at most MAX_BODY_BYTES, and after a
\* cancel or an error there is one terminal chunk and nothing else.
KeepsWireOrder == Wire!Spec

\* Whatever the moment the token fires at, the listener gets at most the chunk
\* the last select had already taken: the biased selects let nothing through
\* after it (executor/http/mod.rs:208 and 264).
OneLateChunk == \A c \in Calls : late[c] <= 1

\* The one type the server is told.
ToldAs(c, type) ==
    LET types == {h \in sent[c].headers : h.key = "type"}
    IN  \E h \in types : types = {h} /\ h.value = type

\* The server is told the type the body was interpreted by, once: a multipart
\* body with the boundary reqwest made and none of the user's own, any other
\* body with the user's type or the JSON default.  A row with an empty value is
\* the exception: the code takes it for no type and adds the default to it.
TypeToldOnce ==
    \A c \in Calls :
      LET r == req[c]
      IN  /\ sent[c].form = "multipart" => ToldAs(c, "boundary")
          /\ sent[c].form \in {"text", "binary"} /\ TypeRows(r) = {} => ToldAs(c, "json")
          /\ sent[c].form \in {"text", "binary"} /\ UserType(r) # ""
             /\ (\A i, j \in TypeRows(r) : i = j) => ToldAs(c, UserType(r))

\* Every call ends with a terminal chunk, also when the server never answers
\* and nobody cancels: some timeout always runs.
CallEnds == \A c \in Calls : <>(Wire!Ended(wire[c]))
=============================================================================
