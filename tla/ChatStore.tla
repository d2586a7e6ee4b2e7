----------------------------- MODULE ChatStore -----------------------------
(***************************************************************************)
(* Chat sessions (db/chat.rs): messages numbered by turn, the calls of     *)
(* tools they contain, token counts, and the rules that allow or deny a    *)
(* tool.  insert_message and check_permission are two statements each,     *)
(* without a transaction; every other call is one.                         *)
(***************************************************************************)
EXTENDS Integers, FiniteSets, Sequences

CONSTANTS
    Clients,     \* tasks that talk to the database
    Sessions,
    Workspaces,
    ToolUses,    \* ids the model gives its tool calls; nothing keeps them apart
    None,        \* no workspace: a global rule; no session; no rule
    MaxMessages, \* bound: messages
    MaxRules,    \* bound: ids of rules
    MaxTokens    \* bound: tokens of a day and session

\* What the constants are.
ChatAssumption ==
    /\ None \notin Sessions \union Workspaces
    /\ {MaxMessages, MaxRules, MaxTokens} \subseteq Nat

VARIABLES
    sessions,   \* the rows of `sessions`: "none", "open" or "archived"
    messages,   \* the rows of `messages`, in the order of their ids
    tools,      \* the rows of `tool_calls`
    rules,      \* the rows of `tool_permissions`, of one tool
    tokens,     \* `usage_stats`: a day's tokens of each session
    chat        \* what each client is doing

chatVars == << sessions, messages, tools, rules, tokens, chat >>

Free == [pc |-> "free"]

TurnsOf(s) == {messages[i].turn : i \in {j \in DOMAIN messages : messages[j].session = s}}
LastTurn(s) == IF TurnsOf(s) = {} THEN 0   \* (a mistake: the turn of the last message)
               ELSE CHOOSE t \in TurnsOf(s) : \A u \in TurnsOf(s) : u <= t
NextTurn(s) == IF TurnsOf(s) = {} THEN 0
               ELSE 1 + CHOOSE t \in TurnsOf(s) : \A u \in TurnsOf(s) : u <= t

ChatInit ==
    /\ sessions = [s \in Sessions |-> "none"]
    /\ messages = << >>
    /\ tools = {}
    /\ rules = {}
    /\ tokens = [s \in Sessions |-> 0]
    /\ chat = [c \in Clients |-> Free]

-----------------------------------------------------------------------------
(* Sessions, tokens and calls of tools.                                    *)

CreateSession(s) ==
    /\ sessions[s] = "none"
    /\ sessions' = [sessions EXCEPT ![s] = "open"]
    /\ UNCHANGED << messages, tools, rules, tokens, chat >>

\* An archived session is not listed; nothing else keeps anybody from it.
ArchiveSession(s) ==
    /\ sessions[s] = "open"
    /\ sessions' = [sessions EXCEPT ![s] = "archived"]
    /\ UNCHANGED << messages, tools, rules, tokens, chat >>

UpsertUsage(s) ==
    /\ sessions[s] # "none" /\ tokens[s] < MaxTokens
    /\ tokens' = [tokens EXCEPT ![s] = @ + 1]
    /\ UNCHANGED << sessions, messages, tools, rules, chat >>

\* At most one call of a message, to bound the table.
InsertToolCall(i, use) ==
    /\ \A t \in tools : t.message # i
    /\ tools' = tools \union {[message |-> i, use |-> use, done |-> FALSE]}
    /\ UNCHANGED << sessions, messages, rules, tokens, chat >>

\* Every row of that id gets the result.
UpdateToolCallResult(use) ==
    /\ \E t \in tools : t.use = use /\ ~t.done
    /\ tools' = {[t EXCEPT !.done = @ \/ t.use = use] : t \in tools}
    /\ UNCHANGED << sessions, messages, rules, tokens, chat >>

-----------------------------------------------------------------------------
(* insert_message.                                                         *)

\* SELECT MAX(turn_index).
ReadTurn(c, s) ==
    /\ chat[c].pc = "free" /\ sessions[s] # "none" /\ Len(messages) < MaxMessages
    /\ chat' = [chat EXCEPT ![c] = [pc |-> "insert", session |-> s, turn |-> NextTurn(s), late |-> FALSE]]
    /\ UNCHANGED << sessions, messages, tools, rules, tokens >>

\* INSERT; `late` (history): another message of the session came in between.
\* The update of the session's time that follows is best effort.
InsertMessage(c) ==
    LET s == chat[c].session IN
    /\ chat[c].pc = "insert" /\ Len(messages) < MaxMessages
    /\ messages' = Append(messages, [session |-> s, turn |-> chat[c].turn, late |-> chat[c].late])
    /\ chat' = [d \in Clients |->
                  IF d = c THEN Free
                  ELSE IF chat[d].pc = "insert" /\ chat[d].session = s
                       THEN [chat[d] EXCEPT !.late = TRUE]
                  ELSE chat[d]]
    /\ UNCHANGED << sessions, tools, rules, tokens >>

\* A statement fails, or the process dies; or an answer has been acted on.
DropCall(c) ==
    /\ chat[c].pc # "free"
    /\ chat' = [chat EXCEPT ![c] = Free]
    /\ UNCHANGED << sessions, messages, tools, rules, tokens >>

-----------------------------------------------------------------------------
(* Permissions.                                                            *)

\* (A mistake: global rules are left out.)
OwnRules(w) ==
    {r \in rules : r.scope = "always" /\ r.workspace = w}

\* The rules check_permission may find with its first statement: those of the
\* workspace before the global ones, in no particular order among themselves.
AlwaysRules(w) ==
    LET fit == {r \in rules : r.scope = "always" /\ r.workspace \in {w, None}}
        own == {r \in fit : r.workspace # None}
    IN IF own = {} THEN fit ELSE own

SessionRules(s) == {r \in rules : r.scope = "session" /\ r.session = s}

\* The rules in force, as the doc comment has it: 'always' first, the workspace's
\* own before a global one, then the session's; None if there is none.
InForce(table, w, s) ==
    LET own == {r \in table : r.scope = "always" /\ r.workspace = w}
        global == {r \in table : r.scope = "always" /\ r.workspace = None}
        session == {r \in table : r.scope = "session" /\ r.session = s}
    IN IF w # None /\ own # {} THEN own
       ELSE IF global # {} THEN global
       ELSE IF session # {} THEN session
       ELSE {None}

\* SELECT ... scope = 'always': the answer if there is one, else a second SELECT.
CheckAlways(c, w, s) ==
    /\ chat[c].pc = "free" /\ sessions[s] # "none"
    /\ \/ \E r \in AlwaysRules(w) :
            chat' = [chat EXCEPT ![c] = [pc |-> "answered", rule |-> r, held |-> InForce(rules, w, s),
                                         moved |-> FALSE]]
       \/ /\ AlwaysRules(w) = {}
          /\ chat' = [chat EXCEPT ![c] = [pc |-> "session", workspace |-> w, session |-> s,
                                          held |-> InForce(rules, w, s),
                                          was |-> SessionRules(s)]]
    /\ UNCHANGED << sessions, messages, tools, rules, tokens >>

\* SELECT ... scope = 'session'.  History: the rules in force at the first statement
\* or at this one, and whether the session's have changed in between.
CheckSession(c) ==
    LET q == chat[c] found == SessionRules(q.session) IN
    /\ q.pc = "session"
    /\ \E r \in IF found = {} THEN {None} ELSE found :
         chat' = [chat EXCEPT ![c] = [pc |-> "answered", rule |-> r, moved |-> found # q.was,
                                      held |-> q.held \union InForce(rules, q.workspace, q.session)]]
    /\ UNCHANGED << sessions, messages, tools, rules, tokens >>

\* An id is one above the highest, as SQLite gives it out without AUTOINCREMENT.
NextId == IF rules = {} THEN 1
          ELSE 1 + (CHOOSE r \in rules : \A q \in rules : q.id <= r.id).id

\* Whether a rule allows or denies is left out: a rule answers by its id.
InsertPermission(scope, w, s) ==
    /\ NextId <= MaxRules
    /\ s # None => sessions[s] # "none"
    /\ rules' = rules \union {[id |-> NextId, scope |-> scope, workspace |-> w, session |-> s]}
    /\ UNCHANGED << sessions, messages, tools, tokens, chat >>

DeletePermission(id) ==
    /\ \E r \in rules : r.id = id
    /\ rules' = {r \in rules : r.id # id}
    /\ UNCHANGED << sessions, messages, tools, tokens, chat >>

ClearSessionPermissions(s) ==
    /\ SessionRules(s) # {}
    /\ rules' = rules \ SessionRules(s)
    /\ UNCHANGED << sessions, messages, tools, tokens, chat >>

\* What is said, and the rules, touch each other only through the sessions.
TalkNext ==
    \/ \E c \in Clients : InsertMessage(c) \/ DropCall(c) \/ \E s \in Sessions : ReadTurn(c, s)
    \/ \E s \in Sessions : CreateSession(s) \/ ArchiveSession(s) \/ UpsertUsage(s)
    \/ \E use \in ToolUses : UpdateToolCallResult(use) \/ \E i \in DOMAIN messages : InsertToolCall(i, use)

PermissionNext ==
    \/ \E c \in Clients :
         \/ \E s \in Sessions, w \in Workspaces \union {None} : CheckAlways(c, w, s)
         \/ CheckSession(c) \/ DropCall(c)
    \/ \E s \in Sessions : CreateSession(s) \/ ClearSessionPermissions(s)
    \/ \E w \in Workspaces \union {None} : InsertPermission("always", w, None)
    \/ \E s \in Sessions : InsertPermission("session", None, s)
    \/ \E r \in rules : DeletePermission(r.id)

ChatNext == TalkNext \/ PermissionNext

ChatSpec == ChatInit /\ [][ChatNext]_chatVars

-----------------------------------------------------------------------------
(* Properties.                                                             *)

\* list_messages orders a conversation by turn_index alone.  A message has a
\* higher turn than every earlier one of its session, unless another one came
\* between the two statements of its insert; and a message that had the session
\* for itself is again above all, whatever duplicates there are.
TurnsApart ==
    \A j \in DOMAIN messages : \A i \in 1 .. (j - 1) :
      messages[i].session = messages[j].session /\ ~messages[j].late
        => messages[i].turn < messages[j].turn

\* "Checks persisted ('always') first, then session-scoped": the rule, or the lack
\* of one, that check_permission answers with was in force at its first statement
\* or at its second, though they see two tables.  Set apart: a call that misses an
\* 'always' rule of before its second statement and sees the session's rules change.
AnswerHeld ==
    \A c \in Clients :
      chat[c].pc = "answered" => chat[c].rule \in chat[c].held \/ chat[c].moved
=============================================================================
