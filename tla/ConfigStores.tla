------------------------------ MODULE ConfigStores ------------------------------
(***************************************************************************)
(* The file-backed stores of src/src/vault_config: user_store.rs over      *)
(* user.toml, workspace_store.rs over workspace.toml and its .local        *)
(* override, and set_active_env of environments_store/mod.rs, which writes *)
(* user.toml past the UserStore.                                           *)
(*                                                                         *)
(* A store keeps its parsed file in a cache keyed by modification times.   *)
(* A call takes one step per access to a file or the cache, its looks at   *)
(* the times being one, and the calls of several tasks interleave between  *)
(* them.  write_atomic renames a complete temporary file over its target,  *)
(* so a file changes in one step, and every change has a time of its own.  *)
(***************************************************************************)
EXTENDS Naturals

CONSTANTS
    Files,      \* the files
    Users,      \* those a UserStore is in charge of: no override, cache refilled on write
    Tasks,      \* tasks of the process that use the stores
    Sections,   \* what a setter sets: ui, active_envs, defaults, a file's settings
    Values,     \* what the setters set a section to
    Mine,       \* what only a .local override sets a section to
    Unset,      \* a section that is absent
    MaxWrites   \* bounds on the changes of each file and of its override

ASSUME FileAssumption == Users \subseteq Files
ASSUME ValueAssumption == Unset \notin Values \union {Mine} /\ Mine \notin Values
ASSUME BoundAssumption == MaxWrites \in [Files -> Nat \X Nat]

VARIABLES
    base,       \* [Files -> the file's sections]
    local,      \* [Files -> the sections of its .local override]
    mtime,      \* [Files -> modification times of both, 0 while the file is absent]
    cache,      \* [Files -> what the store has cached, or Empty]
    call,       \* [Tasks -> the call in progress]
    stamped     \* history: files whose cached content carries the time of another write

vars == <<base, local, mtime, cache, call, stamped>>
disk == <<base, local, mtime>>
-----------------------------------------------------------------------------
Content == [Sections -> Values \union {Unset, Mine}]
Blank == [s \in Sections |-> Unset]
Times == Nat \X Nat
HasLocal(f) == f \notin Users

\* deep_merge of the override into the base.
Merge(b, l) == [s \in Sections |-> IF l[s] = Unset THEN b[s] ELSE l[s]]
Merged(f) == Merge(base[f], local[f])

Empty == [absent |-> TRUE]
Entry == [times : Times, content : Content]

\* `op` is what the call does with the content once it has it; a bypassing call reads the
\* base file and no cache.  History: `quiet`, no other write of the file since the call
\* began; `sound`, its content is not from a cache entry under another write's time.
Ops == {"get", "set", "ensure"}
Call == [pc : {"cached", "read", "readLocal", "fill", "write", "settle"}, file : Files, op : Ops,
         section : Sections \union {Unset}, value : Values \union {Unset}, bypass : BOOLEAN,
         times : Times, content : Content, quiet : BOOLEAN, sound : BOOLEAN]
NoTimes == <<0, 0>>
Idle == [pc |-> "idle"]
At(t, pc) == call[t].pc = pc

Return(t) == call' = [call EXCEPT ![t] = Idle]

\* The next write of the file, or of its override, gives it a new time.
Bumped(f, i) == [mtime EXCEPT ![f][i] = @ + 1]
Room(f, i) == mtime[f][i] < MaxWrites[f][i]

\* The calls at work on f, once one that is none of theirs has written it.
Disturbed(f) ==
    [t \in Tasks |-> IF ~At(t, "idle") /\ call[t].file = f
                     THEN [call[t] EXCEPT !.quiet = FALSE] ELSE call[t]]
-----------------------------------------------------------------------------
Init ==
    /\ base = [f \in Files |-> Blank]
    /\ local = [f \in Files |-> Blank]
    /\ mtime = [f \in Files |-> <<0, 0>>]
    /\ cache = [f \in Files |-> Empty]
    /\ call = [t \in Tasks |-> Idle]
    /\ stamped = {}

Begin(t, pc, f, op, s, v, bypass) ==
    /\ At(t, "idle")
    /\ call' = [call EXCEPT ![t] = [pc |-> pc, file |-> f, op |-> op, section |-> s, value |-> v,
                                    bypass |-> bypass,
                                    times |-> IF pc = "cached" THEN mtime[f] ELSE NoTimes,
                                    content |-> Blank, quiet |-> op = "set", sound |-> TRUE]]
    /\ UNCHANGED <<disk, cache, stamped>>

\* load: the modification times are taken first.
Get(t, f) == Begin(t, "cached", f, "get", Unset, Unset, FALSE)

\* A setter starts from load in the UserStore, from the base file alone elsewhere.
Set(t, f, s, v) == Begin(t, IF HasLocal(f) THEN "read" ELSE "cached", f, "set", s, v, HasLocal(f))

\* set_active_env reads and writes user.toml itself.
SetActiveEnv(t, f, s, v) == f \in Users /\ Begin(t, "read", f, "set", s, v, TRUE)

\* ensure_exists: writes what there is when there is no file.
EnsureExists(t, f) ==
    /\ mtime[f][1] = 0
    /\ Begin(t, IF HasLocal(f) THEN "read" ELSE "cached", f, "ensure", Unset, Unset, HasLocal(f))

\* replace: the content is the caller's, here the same in every section.
Replace(t, f, v) ==
    /\ f \in Users
    /\ At(t, "idle")
    /\ call' = [call EXCEPT ![t] = [pc |-> "write", file |-> f, op |-> "ensure", section |-> Unset,
                                    value |-> Unset, bypass |-> FALSE, times |-> NoTimes,
                                    content |-> [s \in Sections |-> v],
                                    quiet |-> FALSE, sound |-> TRUE]]
    /\ UNCHANGED <<disk, cache, stamped>>
-----------------------------------------------------------------------------
Loaded(t, pc, content) == [call EXCEPT ![t].pc = pc, ![t].content = content]
Done(t, content) == IF call[t].op = "get" THEN [call EXCEPT ![t] = Idle]
                    ELSE [Loaded(t, "write", content) EXCEPT ![t].times = NoTimes]

\* The cache carries the times just taken; the override's time of a UserStore never
\* changes.
Cached(t) ==
    LET entry == cache[call[t].file] IN
    /\ entry # Empty
    /\ entry.times = call[t].times

Hit(t) ==
    LET f == call[t].file IN
    /\ At(t, "cached")
    /\ Cached(t)
    /\ call' = IF call[t].op # "set" \/ f \notin stamped THEN Done(t, cache[f].content)
               ELSE [Done(t, cache[f].content) EXCEPT ![t].sound = FALSE]
    /\ UNCHANGED <<disk, cache, stamped>>

Miss(t) ==
    /\ At(t, "cached")
    /\ ~Cached(t)
    /\ call' = [call EXCEPT ![t].pc = "read"]
    /\ UNCHANGED <<disk, cache, stamped>>

\* The base file is read; what follows is the override, the cache, or the write.
Read(t) ==
    LET f == call[t].file IN
    /\ At(t, "read")
    /\ call' = Loaded(t, IF call[t].bypass THEN "write"
                         ELSE IF HasLocal(f) THEN "readLocal" ELSE "fill", base[f])
    /\ UNCHANGED <<disk, cache, stamped>>

ReadLocal(t) ==
    /\ At(t, "readLocal")
    /\ call' = Loaded(t, "fill", Merge(call[t].content, local[call[t].file]))
    /\ UNCHANGED <<disk, cache, stamped>>

\* Mutant: the modification times taken after the file was read.
FillTimesLate(t) ==
    LET f == call[t].file IN
    /\ At(t, "fill")
    /\ cache' = [cache EXCEPT ![f] = [times |-> mtime[f], content |-> call[t].content]]
    /\ call' = Done(t, call[t].content)
    /\ stamped' = stamped \ {f}
    /\ UNCHANGED disk

\* The content is cached under the times taken before it was read.
Fill(t) ==
    LET f == call[t].file IN
    /\ At(t, "fill")
    /\ cache' = [cache EXCEPT ![f] = [times |-> call[t].times, content |-> call[t].content]]
    /\ call' = Done(t, call[t].content)
    /\ stamped' = stamped \ {f}
    /\ UNCHANGED disk

\* A call that fails to read or to write, or finds nothing to clear, returns.
Fail(t) ==
    /\ call[t].pc \in {"read", "readLocal", "write"}
    /\ Return(t)
    /\ UNCHANGED <<disk, cache, stamped>>

\* Mutant: a setter that writes the section it sets and defaults for the rest.
NewContentAlone(c) ==
    IF c.op = "set" THEN [Blank EXCEPT ![c.section] = c.value] ELSE c.content

NewContent(c) ==
    IF c.op = "set" THEN [c.content EXCEPT ![c.section] = c.value] ELSE c.content

\* write_toml: the whole file as the call knows it, one section changed.
Write(t) ==
    LET f == call[t].file
        written == NewContent(call[t])
    IN
    /\ At(t, "write")
    /\ Room(f, 1)
    /\ base' = [base EXCEPT ![f] = written]
    /\ mtime' = Bumped(f, 1)
    /\ call' = [Disturbed(f) EXCEPT ![t] =
                   IF f \in Users /\ call[t].bypass THEN Idle
                   ELSE [call[t] EXCEPT !.pc = "settle", !.content = written,
                                        !.times = mtime'[f], !.quiet = FALSE]]
    /\ UNCHANGED <<local, cache, stamped>>

\* Once persist has the lock of the cache: UserStore caches what it wrote under the time
\* the file has by now, which may be that of another write; the others drop their entry.
Settle(t) ==
    LET f == call[t].file IN
    /\ At(t, "settle")
    /\ \/ /\ f \in Users
          /\ cache' = [cache EXCEPT ![f] = [times |-> mtime[f], content |-> call[t].content]]
          /\ stamped' = IF mtime[f] = call[t].times THEN stamped \ {f} ELSE stamped \union {f}
       \/ /\ HasLocal(f)
          /\ cache' = [cache EXCEPT ![f] = Empty]
          /\ UNCHANGED stamped
    /\ Return(t)
    /\ UNCHANGED disk

\* Another process or an editor changes a section of the file, or of its override.
WriteOutside(f, s) ==
    \/ /\ Room(f, 1)
       /\ \E v \in Values \union {Unset} : base' = [base EXCEPT ![f][s] = v]
       /\ mtime' = Bumped(f, 1)
       /\ call' = Disturbed(f)
       /\ UNCHANGED <<local, cache, stamped>>
    \/ /\ HasLocal(f)
       /\ Room(f, 2)
       /\ \E v \in {Mine, Unset} : local' = [local EXCEPT ![f][s] = v]
       /\ mtime' = Bumped(f, 2)
       /\ UNCHANGED <<base, cache, call, stamped>>

InvalidateCache(f) ==
    /\ cache' = [cache EXCEPT ![f] = Empty]
    /\ stamped' = stamped \ {f}
    /\ UNCHANGED <<disk, call>>

\* The process dies and starts again.
Restart ==
    /\ cache' = [f \in Files |-> Empty]
    /\ call' = [t \in Tasks |-> Idle]
    /\ stamped' = {}
    /\ UNCHANGED disk

Enter(t) ==
    \E f \in Files :
        \/ Get(t, f) \/ EnsureExists(t, f)
        \/ \E v \in Values \union {Unset} :
               \/ Replace(t, f, v)
               \/ \E s \in Sections : Set(t, f, s, v) \/ SetActiveEnv(t, f, s, v)

Continue(t) ==
    Hit(t) \/ Miss(t) \/ Read(t) \/ ReadLocal(t) \/ Fill(t) \/ Fail(t) \/ Write(t) \/ Settle(t)

Next ==
    \/ \E t \in Tasks : Enter(t) \/ Continue(t)
    \/ \E f \in Files : InvalidateCache(f) \/ \E s \in Sections : WriteOutside(f, s)
    \/ Restart

Spec == Init /\ [][Next]_vars
-----------------------------------------------------------------------------
(* Properties                                                              *)

\* Files, caches and calls have their shapes.
TypeOK ==
    /\ base \in [Files -> Content]
    /\ local \in [Files -> Content]
    /\ mtime \in [Files -> Times]
    /\ cache \in [Files -> Entry \union {Empty}]
    /\ call \in [Tasks -> Call \union {Idle}]
    /\ stamped \subseteq Users

\* A cache entry that a load would answer with is what a load would read: neither an
\* edit between the look at the times and the read, nor a slow load that fills the cache
\* after a later write, leaves a stale answer.  Only a persist of UserStore that took the
\* time of another write can.
CacheCoherent ==
    \A f \in Files \ stamped :
        (cache[f] # Empty /\ cache[f].times = mtime[f]) => cache[f].content = Merged(f)

\* A setter's write, which no other write came in between.
WritesAlone(t) ==
    /\ At(t, "write")
    /\ call'[t].pc # "write"
    /\ mtime'[call[t].file] # mtime[call[t].file]
    /\ call[t].op = "set"
    /\ call[t].quiet

OthersStay(t) ==
    \A s \in Sections \ {call[t].section} : base'[call[t].file][s] = base[call[t].file][s]

\* "Used by mutating paths so writes don't promote local overrides into the committed
\* file": what only an override says never reaches the base file.
LocalStaysLocal == \A f \in Files, s \in Sections : base[f][s] # Mine

\* "Read-modify-write through persist so unrelated sections (ui prefs, secrets,
\* active_envs) stay intact": a setter with no other write between its start and its own
\* leaves the other sections alone, whatever the cache went through before.  Not so with
\* content from an entry under another write's time: that undoes the other write.
\* And no setter writes an override into the committed file.
SettersKeepOthers ==
    [][/\ \A t \in Tasks : WritesAlone(t) /\ call[t].sound => OthersStay(t)
       /\ LocalStaysLocal']_vars
=============================================================================
