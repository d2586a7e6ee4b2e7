--------------------------- MODULE ConnectionsStore ---------------------------
(***************************************************************************)
(* vault_config/connections_store.rs: the connections of a vault in one    *)
(* file that every change reads, edits and writes whole, and their         *)
(* passwords in the OS keychain, to which the file holds references.       *)
(*                                                                         *)
(* A call takes one step per access to the file or the keychain; calls of  *)
(* several tasks interleave between them, an access may fail, and the      *)
(* process may die between any two.  An entry is reduced to its kind and   *)
(* to what its password field is: empty, plain text (from before the       *)
(* keychain, or typed into the file) or the reference to conn:<name>:...   *)
(***************************************************************************)
EXTENDS FiniteSets, Naturals

CONSTANTS
    Callers,    \* tasks of the process that use the store
    Names,      \* connection names
    Passwords,  \* whatever is stored as one
    Typed,      \* those users type
    Found,      \* the files, typed by hand, the store may find
    None,       \* no entry, no password
    Ref,        \* the reference to the keychain entry of the connection
    MaxCalls    \* bound on the calls begun

ASSUME ConnNone == None \notin Names \cup Passwords \cup {Ref} /\ Ref \notin Passwords
ASSUME ConnTyped == Typed \subseteq Passwords
ASSUME ConnCalls == MaxCalls \in Nat

VARIABLES
    conns,      \* the base file: [Names -> entry or None]
    keychain,   \* [Names -> password or None]: conn:<name>:password
    call,       \* [Callers -> the call in progress]
    calls,      \* calls begun
    marks       \* history: what befell a connection, as <<reason, name>>

connVars == <<conns, keychain, call, calls, marks>>
-----------------------------------------------------------------------------
\* "server" is postgres and mysql, "other" the variants only a hand-edited file has.
Kinds == {"server", "sqlite", "other"}
Entry == [kind : Kinds, pw : Passwords \cup {Ref, None}]
File == [Names -> Entry \cup {None}]

ASSUME ConnEntry == None \notin Entry
ASSUME ConnFound == Found \subseteq [Names -> [kind : Kinds, pw : Typed \cup {None}] \cup {None}]

Idle == [pc |-> "idle"]
Call == [pc : {"erase", "store", "read", "write", "forget"}, op : {"create", "update", "delete"},
         name : Names, entry : Entry \cup {None}, file : File, input : Passwords \cup {Ref, None},
         given : {"keep", "clear", "set"}, valid : BOOLEAN]
Reasons == {"overlap", "cut", "cleared"}

At(p, pc) == call[p].pc = pc
AtWork(n) == \E p \in Callers : ~At(p, "idle") /\ call[p].name = n

\* An update that takes the password away: the keychain entry goes before the reference.
Clears(c) == c.op = "update" /\ c.given = "clear"

Goto(p, pc) == call' = [call EXCEPT ![p].pc = pc]
Return(p) == call' = [call EXCEPT ![p] = Idle]
Mark(reason, ns) == marks' = marks \cup ({reason} \X ns)

\* Calls that overlap share a file that each of them writes whole.
Overlapping(p, n) ==
    LET others == {call[q].name : q \in {q \in Callers \ {p} : ~At(q, "idle")}}
    IN  IF others = {} THEN {} ELSE others \cup {n}

Counted == calls < MaxCalls /\ calls' = calls + 1

Begin(p, op, pc, n, entry, input, given, valid) ==
    /\ At(p, "idle")
    /\ call' = [call EXCEPT ![p] = [pc |-> pc, op |-> op, name |-> n, entry |-> entry,
                   file |-> [conns EXCEPT ![n] = entry], input |-> input,
                   given |-> given, valid |-> valid]]
    /\ Mark("overlap", Overlapping(p, n))
    /\ UNCHANGED <<conns, keychain>>

(***************************************************************************)
(* build_connection_from_input: a variant that cannot be built is refused  *)
(* before anything is stored; ensure_password_ref stores a plain password  *)
(* and passes a reference through; sqlite has no password.                 *)
(***************************************************************************)
Buildable(kind, complete) == kind # "other" /\ complete

Built(kind, input) == [kind |-> kind, pw |-> IF kind = "sqlite" \/ input = None THEN None ELSE Ref]

Stores(kind, input) == kind = "server" /\ input \in Passwords

\* Mutant: an unchanged password is not carried over.
CarryNothing(n) == None

\* None keeps what the entry has; a variant without a password has none to keep.
CarryPassword(n) == conns[n].pw
-----------------------------------------------------------------------------
Init ==
    /\ conns \in Found
    /\ keychain = [n \in Names |-> None]
    /\ call = [p \in Callers |-> Idle]
    /\ calls = 0
    /\ marks = {}

\* create: an existing name and an incomplete input are refused before any write.
Create(p, n, kind, pw) ==
    /\ conns[n] = None
    /\ Buildable(kind, TRUE)
    /\ Begin(p, "create", IF Stores(kind, pw) THEN "store" ELSE "read", n, Built(kind, pw), pw,
             "set", TRUE)

\* update without a password, or with a new one; `complete` says whether the
\* merged fields satisfy the variant.  What is refused here has changed nothing.
Update(p, n, kind, complete, given) ==
    /\ conns[n] # None
    /\ Buildable(kind, complete)
    /\ LET input == IF given = None THEN CarryPassword(n) ELSE given IN
       Begin(p, "update", IF Stores(kind, input) THEN "store" ELSE "write",
             n, Built(kind, input), input, IF given = None THEN "keep" ELSE "set", TRUE)

\* update with the empty password: the keychain entry goes first, and only then
\* is it seen whether the connection can be built.
UpdateClear(p, n, kind, complete) ==
    /\ conns[n] # None
    /\ Begin(p, "update", "erase", n, Built(kind, None), None, "clear",
             Buildable(kind, complete))

\* Mutant: delete clears the keychain first.
DeleteEraseFirst(p, n) ==
    /\ conns[n] # None
    /\ Begin(p, "delete", "erase", n, None, None, "clear", TRUE)

Delete(p, n) ==
    /\ conns[n] # None
    /\ Begin(p, "delete", "write", n, None, None, "clear", TRUE)

\* delete_secret before the entry is rebuilt; its failure is ignored.
Erase(p) ==
    /\ At(p, "erase")
    /\ LET n == call[p].name IN
       \E gone \in BOOLEAN :
          /\ keychain' = IF gone THEN [keychain EXCEPT ![n] = None] ELSE keychain
          /\ IF call[p].valid
             THEN Goto(p, "write") /\ UNCHANGED marks
             ELSE Return(p) /\ Mark("cleared", {n})
    /\ UNCHANGED <<conns, calls>>

Store(p) ==
    /\ At(p, "store")
    /\ keychain' = [keychain EXCEPT ![call[p].name] = call[p].input]
    /\ Goto(p, IF call[p].op = "create" THEN "read" ELSE "write")
    /\ UNCHANGED <<conns, calls, marks>>

StoreFails(p) ==
    /\ At(p, "store")
    /\ Return(p)
    /\ UNCHANGED <<conns, keychain, calls, marks>>

\* load_base_only of create, after the password is in the keychain.
ReadBase(p) ==
    /\ At(p, "read")
    /\ call' = [call EXCEPT ![p].pc = "write",
                            ![p].file = [conns EXCEPT ![call[p].name] = call[p].entry]]
    /\ UNCHANGED <<conns, keychain, calls, marks>>

\* persist: the file as this call read it, with its own entry changed.
Persist(p) ==
    /\ At(p, "write")
    /\ conns' = call[p].file
    /\ IF call[p].op = "delete" THEN Goto(p, "forget") ELSE Return(p)
    /\ UNCHANGED <<keychain, calls, marks>>

PersistFails(p) ==
    /\ At(p, "write")
    /\ Return(p)
    /\ Mark("cleared", IF Clears(call[p]) THEN {call[p].name} ELSE {})
    /\ UNCHANGED <<conns, keychain, calls>>

\* The last step of delete; its failure is ignored.
Forget(p) ==
    /\ At(p, "forget")
    /\ Return(p)
    /\ keychain' \in {keychain, [keychain EXCEPT ![call[p].name] = None]}
    /\ UNCHANGED <<conns, calls, marks>>

\* The process dies and starts again; a call that clears a password may be cut half way.
Restart ==
    /\ \E p \in Callers : ~At(p, "idle")
    /\ call' = [p \in Callers |-> Idle]
    /\ Mark("cut", {call[p].name : p \in {q \in Callers : ~At(q, "idle") /\ Clears(call[q])}})
    /\ UNCHANGED <<conns, keychain, calls>>

Steps(p) == Erase(p) \/ Store(p) \/ StoreFails(p) \/ ReadBase(p)
            \/ Persist(p) \/ PersistFails(p) \/ Forget(p)

Next ==
    \/ \E p \in Callers, n \in Names :
       /\ Counted
       /\ \/ \E kind \in Kinds, pw \in Typed \cup {None} : Create(p, n, kind, pw)
          \/ \E kind \in Kinds, complete \in BOOLEAN :
                \/ \E pw \in Typed \cup {None} : Update(p, n, kind, complete, pw)
                \/ UpdateClear(p, n, kind, complete)
          \/ Delete(p, n)
    \/ \E p \in Callers : Steps(p)
    \/ Restart
    \/ (\A p \in Callers : At(p, "idle")) /\ calls = MaxCalls /\ UNCHANGED connVars

Spec == Init /\ [][Next]_connVars
-----------------------------------------------------------------------------
\* get_legacy and to_legacy: what a connection logs in with.
Resolved(n) ==
    IF conns[n] = None THEN "no connection"
    ELSE IF conns[n].pw # Ref THEN conns[n].pw
    ELSE IF keychain[n] = None THEN "dangling" ELSE keychain[n]

Dangles(n) == conns[n] # None /\ conns[n].pw = Ref /\ keychain[n] = None

Befell(n, reasons) == \E r \in reasons : <<r, n>> \in marks

TypeOK ==
    /\ conns \in File
    /\ keychain \in [Names -> Passwords \cup {None}]
    /\ call \in [Callers -> Call \cup {Idle}]
    /\ calls \in 0..MaxCalls
    /\ marks \subseteq Reasons \X Names

\* A reference in the file has its password in the keychain, whatever fails, wherever
\* the process dies in a call that creates, edits or deletes, and in whatever order calls
\* end, except where an update that clears the password failed or died before its file
\* was written (connections_store.rs:265), or calls overlapped.
ReferencesResolve ==
    \A n \in Names : Dangles(n) /\ ~AtWork(n)
                     => Befell(n, {"cleared", "cut", "overlap"})

\* An edit that says nothing about the password keeps the connection logging in
\* as before, also across its own failures; what changes it is a call that was
\* given a password, clears it, deletes the connection, makes it sqlite, or one
\* that overlapped another.
EditKeepsPassword ==
    \A n \in Names :
        Resolved(n)' # Resolved(n) =>
            \/ Befell(n, {"overlap"})
            \/ \E p \in Callers : call[p].pc # "idle" /\ call[p].name = n
                  /\ (call[p].given = "keep" => call[p].entry.kind = "sqlite")
=============================================================================
