-------------------------- MODULE SqliteConnections --------------------------
(***************************************************************************)
(* The connections of the internal database (db/connections.rs): the table *)
(* `connections` and the keychain entries of the passwords.  A call is a   *)
(* few statements without a transaction, the keychain is written before    *)
(* the row, and the calls of several callers interleave between any two    *)
(* statements.                                                             *)
(***************************************************************************)
EXTENDS Naturals

CONSTANTS
    Callers,   \* tasks of the desktop app, the TUI and the MCP server
    Conns,     \* identifiers of connections; each is given out once
    Names,
    Hosts,
    Passwords, \* none of them empty
    Empty,     \* the empty host, which no server has, or the empty password
    Keep,      \* a field that an update does not name
    None,      \* no password
    Sentinel,  \* KEYCHAIN_SENTINEL
    MaxCalls   \* bound: calls that write

\* What the constants are.
ConnAssumption ==
    /\ {Empty, Keep, None, Sentinel} \intersect (Names \union Hosts \union Passwords) = {}
    /\ Empty \notin {Keep, None, Sentinel} /\ Keep \notin {None, Sentinel} /\ None # Sentinel
    /\ MaxCalls \in Nat

VARIABLES
    conns,    \* the table: each connection's row, or NoRow
    keychain, \* the entry under conn_password_key
    calls,    \* what each caller is doing
    begun,    \* calls so far
    asked,    \* history: the fields as the last calls that wrote the row asked for them
    spoilt    \* history: fields, << connection, name >>, that are no longer as asked:
              \* see PutBack and Orphaned

connVars == << conns, keychain, calls, begun, asked, spoilt >>

Row(name, host, password) == [name |-> name, host |-> host, password |-> password]
NoRow == Row(None, None, None)
Ready == [pc |-> "ready", id |-> None, input |-> NoRow, seen |-> NoRow]

ConnInit ==
    /\ conns = [id \in Conns |-> NoRow]
    /\ keychain = [id \in Conns |-> None]
    /\ calls = [c \in Callers |-> Ready]
    /\ begun = 0
    /\ asked = [id \in Conns |-> NoRow]
    /\ spoilt = {}

Stored(id) == conns[id] # NoRow
Busy(id) == {c \in Callers : calls[c].pc # "ready" /\ calls[c].id = id}
NameTaken(name, id) == \E other \in Conns \ {id} : conns[other].name = name

\* validate_connection_fields.
Valid(row) == row.host # Empty

\* The call's secret goes to the keychain, and the sentinel into the row.
Secured(password) == IF password \in Passwords THEN Sentinel ELSE password

\* The row that a call is given for its next step.
Becomes(c, pc, id, input, seen) ==
    calls' = [calls EXCEPT ![c] = [pc |-> pc, id |-> id, input |-> input, seen |-> seen]]
Ends(c) == calls' = [calls EXCEPT ![c] = Ready]

\* The fields named by the input, over those of the row.
Merged(row, input) ==
    [field \in DOMAIN row |-> IF input[field] = Keep THEN row[field] ELSE input[field]]

Fields == {"name", "host", "password"}
Named(input) == {f \in Fields : input[f] # Keep}

\* What the writing of a row leaves otherwise than it was asked for, before or now: a
\* field that is not named and has changed since it was read, and a password that is in
\* the keychain no more, for a later call has stored another.
PutBack(id, input, seen) ==
    {f \in Fields \ Named(input) : seen[f] # conns[id][f]}
    \union {f \in {"password"} : input[f] \in Passwords /\ keychain[id] # input[f]}

\* The entry that a call leaves behind under a row it does not write.
Orphaned(id) == {id} \X (IF Stored(id) /\ conns[id].password = Sentinel THEN {"password"} ELSE {})

-----------------------------------------------------------------------------
(* create_connection.                                                      *)

\* The fields are valid; the password is stored.
BeginCreate(c, id, input) ==
    /\ calls[c] = Ready /\ begun < MaxCalls
    /\ ~Stored(id) /\ asked[id] = NoRow /\ Busy(id) = {} /\ keychain[id] = None
    /\ Keep \notin {input.name, input.host, input.password} /\ Valid(input)
    /\ begun' = begun + 1
    /\ keychain' = [keychain EXCEPT ![id] = IF input.password \in Passwords THEN input.password ELSE @]
    /\ Becomes(c, "insert", id, input, NoRow)
    /\ UNCHANGED << conns, asked, spoilt >>

\* Names are unique.
InsertRow(c) ==
    LET id == calls[c].id
        input == calls[c].input
    IN
    /\ calls[c].pc = "insert"
    /\ ~NameTaken(input.name, id)
    /\ conns' = [conns EXCEPT ![id] = [input EXCEPT !.password = Secured(@)]]
    /\ asked' = [asked EXCEPT ![id] = input]
    /\ Becomes(c, "fetch", id, NoRow, NoRow)
    /\ UNCHANGED << keychain, begun, spoilt >>

-----------------------------------------------------------------------------
(* update_connection.                                                      *)

\* get_connection.  From here on another call may change what was read.
ReadRow(c, id, input) ==
    /\ calls[c] = Ready /\ begun < MaxCalls
    /\ Stored(id)
    /\ begun' = begun + 1
    /\ Becomes(c, "store", id, input, conns[id])
    /\ UNCHANGED << conns, keychain, asked, spoilt >>

\* The password replaces the one in the keychain before the fields are validated.
StorePassword(c) ==
    LET id == calls[c].id
        input == calls[c].input
        replaces == input.password \in Passwords
    IN
    /\ calls[c].pc = "store"
    /\ keychain' = [keychain EXCEPT ![id] = IF replaces THEN input.password ELSE @]
    /\ IF Valid(Merged(calls[c].seen, input))
       THEN Becomes(c, "write", id, input, calls[c].seen) /\ UNCHANGED spoilt
       ELSE Ends(c) /\ spoilt' = IF replaces THEN spoilt \union Orphaned(id) ELSE spoilt
    /\ UNCHANGED << conns, begun, asked >>

\* (A mistake: a field that is not named is NULL.)
NextPasswordOrNull(seen, input) == IF input.password = Keep THEN None ELSE Secured(input.password)

\* The row's new password column.
NextPassword(seen, input) == IF input.password = Keep THEN seen.password ELSE Secured(input.password)

\* Every column is written, from the input or from what was read.  A row that was
\* deleted since is not there to be written.
WriteRow(c) ==
    LET id == calls[c].id
        input == calls[c].input
        seen == calls[c].seen
        merged == Merged(seen, input)
    IN
    /\ calls[c].pc = "write"
    /\ ~NameTaken(merged.name, id)
    /\ IF Stored(id)
       THEN /\ conns' = [conns EXCEPT ![id] = [merged EXCEPT !.password = NextPassword(seen, input)]]
            /\ asked' = [asked EXCEPT ![id] = Merged(@, input)]
            /\ spoilt' = (spoilt \ ({id} \X Named(input))) \union ({id} \X PutBack(id, input, seen))
       ELSE UNCHANGED << conns, asked, spoilt >>
    /\ Becomes(c, "fetch", id, NoRow, NoRow)
    /\ UNCHANGED << keychain, begun >>

-----------------------------------------------------------------------------
\* get_connection, for the answer of the two.  It fails, or the row was deleted since:
\* the call reports an error with the row written.
Fetch(c) ==
    /\ calls[c].pc = "fetch"
    /\ Ends(c)
    /\ UNCHANGED << conns, keychain, begun, asked, spoilt >>

-----------------------------------------------------------------------------
(* delete_connection.                                                      *)

DeleteRow(c, id) ==
    /\ calls[c] = Ready /\ begun < MaxCalls
    /\ Stored(id)
    /\ begun' = begun + 1
    /\ conns' = [conns EXCEPT ![id] = NoRow]
    /\ Becomes(c, "erase", id, NoRow, NoRow)
    /\ UNCHANGED << keychain, asked, spoilt >>

\* The keychain's answer is ignored.
ErasePassword(c) ==
    /\ calls[c].pc = "erase"
    /\ \E done \in BOOLEAN : keychain' = [keychain EXCEPT ![calls[c].id] = IF done THEN None ELSE @]
    /\ Ends(c)
    /\ UNCHANGED << conns, begun, asked, spoilt >>

-----------------------------------------------------------------------------
\* A statement fails, a name that is taken among the reasons, or the keychain does:
\* the call ends where it is.  An update may have left its password in the keychain.
Break(c) ==
    LET id == calls[c].id
        password == calls[c].input.password
    IN
    /\ calls[c].pc \in {"insert", "store", "write"}
    /\ spoilt' = IF calls[c].pc = "write" /\ password \in Passwords /\ keychain[id] = password
                 THEN spoilt \union Orphaned(id) ELSE spoilt
    /\ Ends(c)
    /\ UNCHANGED << conns, keychain, begun, asked >>

Inputs == [name : Names \union {Keep}, host : Hosts \union {Empty, Keep},
           password : Passwords \union {Empty, Keep, None}]

ConnNext ==
    \E c \in Callers :
      \/ \E id \in Conns :
           \/ \E input \in {i \in Inputs : Keep \notin {i.name, i.host, i.password}} : BeginCreate(c, id, input)
           \/ \E input \in {i \in Inputs : i.password # None} : ReadRow(c, id, input)
           \/ DeleteRow(c, id)
      \/ InsertRow(c) \/ StorePassword(c) \/ WriteRow(c) \/ Fetch(c) \/ ErasePassword(c) \/ Break(c)

ConnSpec == ConnInit /\ [][ConnNext]_connVars

-----------------------------------------------------------------------------
(* Properties.                                                             *)

\* resolve_value.
Resolved(id) == IF conns[id].password = Sentinel THEN keychain[id] ELSE conns[id].password

\* Updates that are about to write a row for a password they have stored.
Storing(id) == {c \in Busy(id) : calls[c].pc = "write" /\ calls[c].input.password \in Passwords}

\* A connection has the name, host and password that the last calls which wrote its row
\* gave it, each of them field by field, however calls on it overlap and whatever calls
\* were refused, failed or broke off in between; the error of a call that could not read
\* back what it wrote is no exception.  A field is spoilt in three ways, until a call
\* that names it writes the row: an update that does not name it writes it back as it
\* read it, over a change made since; an update that names the password writes the row
\* when another has stored its own; or an update fails after it has put its password in
\* the keychain.  An update that has stored its password and is yet to write the row is
\* ahead of it.  And a row never refers to a password that the keychain has not.
EditsKept ==
    \A id \in Conns :
      Stored(id) =>
        /\ \A f \in {"name", "host"} : << id, f >> \notin spoilt => conns[id][f] = asked[id][f]
        /\ << id, "password" >> \notin spoilt /\ Storing(id) = {} => Resolved(id) = asked[id].password
        /\ conns[id].password = Sentinel => keychain[id] # None
=============================================================================
