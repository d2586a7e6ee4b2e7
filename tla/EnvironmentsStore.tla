--------------------------- MODULE EnvironmentsStore ---------------------------
(***************************************************************************)
(* The environments of one vault, src/src/vault_config/environments_store: *)
(* one file per environment, the OS keychain that holds the secrets its    *)
(* file refers to, the process's cache of resolved secrets and the active  *)
(* pointer of user.toml.                                                   *)
(*                                                                         *)
(* A call takes one step per access to a file, the keychain, or the cache  *)
(* (an RwLock held for that access only); the calls of several tasks       *)
(* interleave between those steps, and the process may die between any two *)
(* of them.  What a file says is reduced to what each key is: unset, a     *)
(* plain variable, or a reference to a keychain address.                   *)
(***************************************************************************)
EXTENDS FiniteSets, Naturals

CONSTANTS
    Callers,    \* tasks of the process that use the store
    Envs,       \* environment names
    Keys,       \* variable names
    Values,     \* secret values
    None,       \* no file, no entry, no value, no environment
    Plain,      \* a literal in [vars]
    RefText,    \* the text of a reference, where a secret value is expected
    MaxCalls    \* bound on the calls that write

ASSUME NoneAssumption ==
    /\ None \notin Envs \union Keys \union Values \union (Envs \X Keys)
    /\ Plain \notin {None} \union (Envs \X Keys)
    /\ RefText \notin {None} \union Values
    /\ None \notin [Keys -> (Envs \X Keys) \union {Plain, None}]
ASSUME BoundAssumption == MaxCalls \in Nat

VARIABLES
    file,       \* [Envs -> content of envs/<name>.toml, or None]
    keychain,   \* [addresses -> secret, or None]
    secrets,    \* secrets_cache: [addresses -> resolved secret, or None]
    active,     \* the vault's entry of active_envs in user.toml
    call,       \* [Callers -> the call in progress]
    calls,      \* number of writing calls begun
    marks       \* history: what befell an environment, as <<reason, name>>

vars == <<file, keychain, secrets, active, call, calls, marks>>
disk == <<file, keychain, active>>
-----------------------------------------------------------------------------
Refs == Envs \X Keys

\* env_var_key, and the reference a file holds to it.
Address(e, k) == <<e, k>>

EnvFile == [Keys -> Refs \union {Plain, None}]
EmptyFile == [k \in Keys |-> None]
IsRef(entry) == entry \notin {Plain, None}
SecretKeys(f) == {k \in Keys : IsRef(f[k])}

WritePcs == {"store", "recache", "erase", "forget", "persist", "clear", "fetch", "moveStore",
             "moveErase", "moveCache", "unlink", "move", "activeCheck", "activeWrite"}
ReadPcs == {"lookup", "remember"}
Call == [pc : WritePcs \union ReadPcs, env : Envs, to : Envs, key : Keys \union {None},
         value : Values \union {RefText, None}, content : EnvFile, todo : SUBSET Keys]
Idle == [pc |-> "idle"]
Reasons == {"overlap", "cut", "renamed", "deleted", "raced"}

At(p, pc) == call[p].pc = pc
Begun(pc, e, k, v, content) == [pc |-> pc, env |-> e, to |-> e, key |-> k, value |-> v,
                                content |-> content, todo |-> {}]

\* A writing call at work on environment e, as its own or as the target of a rename.
Writing(p, e) == call[p].pc \in WritePcs /\ e \in {call[p].env, call[p].to}
Here(p) == Address(call[p].env, call[p].key)

\* The call takes secrets away while the file still refers to them: an overwriting one, or
\* one that deletes or renames the environment.
Removes(c) == c.key # None /\ ~IsRef(c.content[c.key])
Removing(c) ==
    \/ c.pc \in {"erase", "forget", "persist"} /\ Removes(c)
    \/ c.pc \in {"clear", "unlink", "fetch", "moveStore", "moveErase", "moveCache", "move",
                 "activeCheck", "activeWrite"}

Goto(p, pc) == call' = [call EXCEPT ![p].pc = pc]
Return(p) == call' = [call EXCEPT ![p] = Idle]
\* All environments of the calls that work on one of es.
Overlaps(p, es) ==
    LET others == {q \in Callers \ {p} : \E e \in es : Writing(q, e)} IN
    {"overlap"} \X (IF others = {} THEN {}
                    ELSE es \union UNION {{call[q].env, call[q].to} : q \in others})
\* Resolvers that have read the keychain for e and not yet filled the cache.
Raced(p, e) == {"raced"} \X {x \in {e} : \E q \in Callers \ {p} : At(q, "remember") /\ call[q].env = x}
Mark(reason, es) == marks' = marks \union ({reason} \X es)

\* A writing call begins, in record c, on the environments es.
Begin(p, es, c) ==
    /\ At(p, "idle")
    /\ calls < MaxCalls
    /\ calls' = calls + 1
    /\ call' = [call EXCEPT ![p] = c]
    /\ marks' = marks \union Overlaps(p, es)
    /\ UNCHANGED <<disk, secrets>>
-----------------------------------------------------------------------------
Init ==
    /\ file = [e \in Envs |-> None]
    /\ keychain = [r \in Refs |-> None]
    /\ secrets = [r \in Refs |-> None]
    /\ active = None
    /\ call = [p \in Callers |-> Idle]
    /\ calls = 0
    /\ marks = {}

(* create_env *)
CreateEnv(p, e) ==
    /\ file[e] = None
    /\ Begin(p, {e}, Begun("persist", e, None, None, EmptyFile))

(* set_var: its four inputs *)

\* A secret with a value: the keychain first, then the cache, then the file.
SetSecret(p, e, k, v) ==
    /\ file[e] # None
    /\ Begin(p, {e}, Begun("store", e, k, v, [file[e] EXCEPT ![k] = Address(e, k)]))

\* A secret whose value is the reference the file already holds: ensure_keychain_ref
\* stores nothing, and the text of the reference goes on to the cache as the value.
ResaveReference(p, e, k) ==
    /\ file[e] # None
    /\ IsRef(file[e][k])
    /\ Begin(p, {e}, Begun("recache", e, k, RefText, file[e]))

\* Mutant: the empty value taken for a wipe.
KeepSecretWipes(p, e, k) ==
    /\ file[e] # None
    /\ IsRef(file[e][k])
    /\ Begin(p, {e}, Begun("erase", e, k, None, file[e]))

\* A secret with an empty value: the reference is kept, the file written as it was read.
KeepSecret(p, e, k) ==
    /\ file[e] # None
    /\ IsRef(file[e][k])
    /\ Begin(p, {e}, Begun("persist", e, k, None, file[e]))

\* The key becomes `entry`; a reference it held loses its keychain entry first.
Overwrite(p, e, k, entry) ==
    LET content == [file[e] EXCEPT ![k] = entry] IN
    Begin(p, {e}, IF IsRef(file[e][k]) THEN Begun("erase", e, k, None, content)
                  ELSE Begun("persist", e, None, None, content))

SetPlain(p, e, k) == file[e] # None /\ Overwrite(p, e, k, Plain)

(* delete_var *)
DeleteVar(p, e, k) == file[e] # None /\ file[e][k] # None /\ Overwrite(p, e, k, None)

(* delete_env and rename_env, up to their first access to the keychain *)
DeleteEnv(p, e) ==
    /\ file[e] # None
    /\ Begin(p, {e}, [Begun("clear", e, None, None, EmptyFile) EXCEPT !.todo = SecretKeys(file[e])])

RenameEnv(p, e, new) ==
    /\ new # e
    /\ file[e] # None
    /\ file[new] = None
    /\ Begin(p, {e, new}, [Begun("fetch", e, None, None, EmptyFile)
                              EXCEPT !.to = new, !.todo = SecretKeys(file[e])])
-----------------------------------------------------------------------------
(* The steps of set_var and delete_var.  A failing keychain ends set_var where it    *)
(* stores, and is ignored where it deletes.                                          *)
StoreSecret(p) ==
    /\ At(p, "store")
    /\ \/ /\ keychain' = [keychain EXCEPT ![Here(p)] = call[p].value]
          /\ marks' = marks \union Raced(p, call[p].env)
          /\ Goto(p, "recache")
       \/ Return(p) /\ UNCHANGED <<keychain, marks>>
    /\ UNCHANGED <<file, active, secrets, calls>>

\* Mutant: the cache left as it was.
RecacheNothing(p) ==
    /\ At(p, "recache")
    /\ Goto(p, "persist")
    /\ UNCHANGED <<disk, secrets, calls, marks>>

\* update_cached_secret
Recache(p) ==
    /\ At(p, "recache")
    /\ secrets' = [secrets EXCEPT ![Here(p)] = call[p].value]
    /\ call' = [call EXCEPT ![p].pc = "persist", ![p].value = None]
    /\ UNCHANGED <<disk, calls, marks>>

Erase(p) ==
    /\ At(p, "erase")
    /\ keychain' \in {keychain, [keychain EXCEPT ![Here(p)] = None]}
    /\ marks' = marks \union Raced(p, call[p].env)
    /\ Goto(p, "forget")
    /\ UNCHANGED <<file, active, secrets, calls>>

\* drop_cached_secret
Forget(p) ==
    /\ At(p, "forget")
    /\ secrets' = [secrets EXCEPT ![Here(p)] = None]
    /\ Goto(p, "persist")
    /\ UNCHANGED <<disk, calls, marks>>

\* persist_env writes what the call made of the file it read, whatever the file is by
\* now; a write that fails leaves the keychain as the call has changed it.
Persist(p) ==
    /\ At(p, "persist")
    /\ \/ /\ file' = [file EXCEPT ![call[p].env] = call[p].content]
          /\ marks' = marks \ {<<"deleted", call[p].env>>}
       \/ Mark("cut", IF Removes(call[p]) THEN {call[p].env} ELSE {}) /\ UNCHANGED file
    /\ Return(p)
    /\ UNCHANGED <<keychain, active, secrets, calls>>

(* The steps of delete_env and rename_env *)
Clear(p) ==
    /\ At(p, "clear")
    /\ \E k \in call[p].todo :
          /\ keychain' \in {keychain, [keychain EXCEPT ![Address(call[p].env, k)] = None]}
          /\ call' = [call EXCEPT ![p].todo = @ \ {k}]
    /\ marks' = marks \union Raced(p, call[p].env)
    /\ UNCHANGED <<file, active, secrets, calls>>

\* get_secret; a key that has no entry, or whose read fails, is passed over.
Fetch(p) ==
    /\ At(p, "fetch")
    /\ \E k \in call[p].todo :
          LET v == keychain[Address(call[p].env, k)]
              c == [call[p] EXCEPT !.todo = @ \ {k}]
          IN call' \in {[call EXCEPT ![p] = c]} \union
                       (IF v = None THEN {} ELSE
                        {[call EXCEPT ![p] = [c EXCEPT !.pc = "moveStore", !.key = k, !.value = v]]})
    /\ UNCHANGED <<disk, secrets, calls, marks>>

MoveStore(p) ==
    /\ At(p, "moveStore")
    /\ keychain' \in {keychain, [keychain EXCEPT ![Address(call[p].to, call[p].key)] = call[p].value]}
    /\ marks' = marks \union Raced(p, call[p].to)
    /\ Goto(p, "moveErase")
    /\ UNCHANGED <<file, active, secrets, calls>>

\* The old entry goes whether or not the new one could be stored.
MoveErase(p) ==
    /\ At(p, "moveErase")
    /\ keychain' \in {keychain, [keychain EXCEPT ![Here(p)] = None]}
    /\ marks' = marks \union Raced(p, call[p].env)
    /\ Goto(p, "moveCache")
    /\ UNCHANGED <<file, active, secrets, calls>>

MoveCache(p) ==
    /\ At(p, "moveCache")
    /\ secrets' = [secrets EXCEPT ![Address(call[p].to, call[p].key)] = call[p].value]
    /\ call' = [call EXCEPT ![p].pc = "fetch", ![p].key = None, ![p].value = None]
    /\ UNCHANGED <<disk, calls, marks>>

\* drop_cached_secrets_with_prefix
ForgetAll(p) ==
    /\ call[p].pc \in {"clear", "fetch"}
    /\ call[p].todo = {}
    /\ secrets' = [r \in Refs |-> IF r[1] = call[p].env THEN None ELSE secrets[r]]
    /\ Goto(p, IF At(p, "clear") THEN "unlink" ELSE "move")
    /\ UNCHANGED <<disk, calls, marks>>

\* remove_file: of the file, if it is still there, or an error.
Unlink(p) ==
    LET e == call[p].env IN
    /\ At(p, "unlink")
    /\ \/ /\ file[e] # None
          /\ file' = [file EXCEPT ![e] = None]
          /\ Mark("deleted", {e})
       \/ Mark("cut", {e}) /\ UNCHANGED file
    /\ Return(p)
    /\ UNCHANGED <<keychain, active, secrets, calls>>

\* fs::rename replaces whatever is at the new name; the references move as they are.
Move(p) ==
    LET e == call[p].env
        new == call[p].to
    IN
    /\ At(p, "move")
    /\ \/ /\ file[e] # None
          /\ file' = [file EXCEPT ![e] = None, ![new] = file[e]]
          /\ marks' = (marks \ {<<"deleted", new>>}) \union {<<"renamed", new>>}
          /\ Goto(p, "activeCheck")
       \/ Mark("cut", {e, new}) /\ Return(p) /\ UNCHANGED file
    /\ UNCHANGED <<keychain, active, secrets, calls>>

\* active_env, whose failure to read user.toml counts as "not the active one".
ActiveCheck(p) ==
    /\ At(p, "activeCheck")
    /\ \/ active = call[p].env /\ Goto(p, "activeWrite") /\ UNCHANGED marks
       \/ active # call[p].env /\ Return(p) /\ UNCHANGED marks
       \/ Mark("cut", {call[p].env}) /\ Return(p)
    /\ UNCHANGED <<disk, secrets, calls>>

\* set_active_env(new): the environment must exist, and user.toml be written.
ActiveWrite(p) ==
    /\ At(p, "activeWrite")
    /\ \/ file[call[p].to] # None /\ active' = call[p].to /\ UNCHANGED marks
       \/ Mark("cut", {call[p].env}) /\ UNCHANGED active
    /\ Return(p)
    /\ UNCHANGED <<file, keychain, secrets, calls>>
-----------------------------------------------------------------------------
(* set_active_env: a file of another kind, read and written in one go *)
SetActive(p, e) ==
    /\ At(p, "idle")
    /\ calls < MaxCalls
    /\ calls' = calls + 1
    /\ e # None => file[e] # None
    /\ active' = e
    /\ marks' = marks \union Overlaps(p, {e} \ {None})
    /\ UNCHANGED <<file, keychain, secrets, call>>

(* resolve_var and list_vars_resolved, through resolve_secret_cached.  A hit changes    *)
(* nothing; a miss resolves the reference the file held.                               *)
Resolve(p, e, k) ==
    /\ At(p, "idle")
    /\ file[e] # None
    /\ IsRef(file[e][k])
    /\ secrets[Address(e, k)] = None
    /\ call' = [call EXCEPT ![p] = Begun("lookup", e, k, None, file[e])]
    /\ UNCHANGED <<disk, secrets, calls, marks>>

\* get_secret; no entry, or a failing keychain, is an error and is not cached.
Lookup(p) ==
    LET v == keychain[call[p].content[call[p].key]] IN
    /\ At(p, "lookup")
    /\ \/ v # None /\ call' = [call EXCEPT ![p].pc = "remember", ![p].value = v]
       \/ Return(p)
    /\ UNCHANGED <<disk, secrets, calls, marks>>

Remember(p) ==
    /\ At(p, "remember")
    /\ secrets' = [secrets EXCEPT ![Here(p)] = call[p].value]
    /\ Return(p)
    /\ UNCHANGED <<disk, calls, marks>>

Unraced(remembering) ==
    {m \in marks : m[1] = "raced" => m[2] \in {call[q].env : q \in remembering}}

(* invalidate_cache *)
InvalidateCache ==
    /\ secrets' = [r \in Refs |-> None]
    /\ marks' = Unraced({q \in Callers : At(q, "remember")})
    /\ UNCHANGED <<disk, call, calls>>

\* The process dies and starts again: calls and cache are gone.  What is set apart is a
\* removal cut short; a call that creates, stores or keeps leaves nothing half done.
Restart ==
    /\ call' = [p \in Callers |-> Idle]
    /\ secrets' = [r \in Refs |-> None]
    /\ marks' = Unraced({}) \union ({"cut"} \X {e \in Envs : \E p \in Callers : Writing(p, e) /\ Removing(call[p])})
    /\ UNCHANGED <<disk, calls>>

Enter(p) ==
    \E e \in Envs :
        \/ CreateEnv(p, e) \/ DeleteEnv(p, e)
        \/ \E new \in Envs : RenameEnv(p, e, new)
        \/ \E k \in Keys :
              \/ \E v \in Values : SetSecret(p, e, k, v)
              \/ ResaveReference(p, e, k) \/ KeepSecret(p, e, k) \/ SetPlain(p, e, k)
              \/ DeleteVar(p, e, k) \/ Resolve(p, e, k)

Continue(p) ==
    \/ StoreSecret(p) \/ Recache(p) \/ Erase(p) \/ Forget(p) \/ Persist(p)
    \/ Clear(p) \/ Fetch(p) \/ MoveStore(p) \/ MoveErase(p) \/ MoveCache(p)
    \/ ForgetAll(p) \/ Unlink(p) \/ Move(p) \/ ActiveCheck(p) \/ ActiveWrite(p)
    \/ Lookup(p) \/ Remember(p)

Next ==
    \/ \E p \in Callers : Enter(p) \/ Continue(p) \/ \E e \in Envs \union {None} : SetActive(p, e)
    \/ InvalidateCache \/ Restart

Spec == Init /\ [][Next]_vars
-----------------------------------------------------------------------------
(* Properties                                                              *)

\* Files hold entries, the keychain secrets, the cache what was resolved.
TypeOK ==
    /\ file \in [Envs -> EnvFile \union {None}]
    /\ keychain \in [Refs -> Values \union {None}]
    /\ secrets \in [Refs -> Values \union {RefText, None}]
    /\ active \in Envs \union {None}
    /\ call \in [Callers -> Call \union {Idle}]
    /\ calls \in 0..MaxCalls
    /\ marks \subseteq Reasons \X Envs

\* No call is at work on e, and none of the reasons ever applied to it.
Settled(e, reasons) ==
    /\ \A q \in Callers : ~Writing(q, e)
    /\ \A w \in reasons : <<w, e>> \notin marks

\* The active environment exists, unless it was deleted since.
ActiveExists ==
    active # None /\ Settled(active, {"overlap", "cut", "deleted"}) => file[active] # None

\* Nothing dangles.  Every reference in a file leads to a secret, for an environment
\* that is not the result of a rename, whose writes did not overlap and of which no
\* removal (of a secret, or of the environment in a deletion or a rename) was cut short
\* by a failing write or a restart: failures of the keychain, a restart at any step of a
\* call that creates, stores or keeps, and a failing write of its file leave no reference
\* dangling, for set_var goes to the keychain first and to the file last.  And the active
\* environment exists, renames of it included.
ReferencesResolve ==
    /\ \A e \in Envs : Settled(e, {"overlap", "cut", "renamed"}) /\ file[e] # None =>
         \A k \in SecretKeys(file[e]) :
             file[e][k] = Address(e, k) /\ keychain[Address(e, k)] # None
    /\ ActiveExists

\* "Invalidated on rotate/delete/rename so we never serve a stale value": a cached
\* secret is the keychain's, but for the text of a re-saved reference and for a
\* resolver that had read the keychain when a write changed it.
CacheFresh ==
    \A e \in Envs : Settled(e, {"overlap", "cut", "renamed", "raced"}) =>
        \A k \in Keys : secrets[Address(e, k)] \in {None, RefText, keychain[Address(e, k)]}
=============================================================================
