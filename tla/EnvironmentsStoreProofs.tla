----------------------- MODULE EnvironmentsStoreProofs -----------------------
(***************************************************************************)
(* Proofs about EnvironmentsStore, for any tasks, names, keys and secrets. *)
(***************************************************************************)
EXTENDS EnvironmentsStore, TLAPS

-----------------------------------------------------------------------------
(* Type correctness                                                        *)

RenamePcs == {"fetch", "moveStore", "moveErase", "moveCache", "move", "activeCheck", "activeWrite"}

\* What a call carries at its place.
Shaped(c) ==
    /\ c.pc \in {"store", "recache", "erase", "forget", "moveStore", "moveErase", "moveCache",
                 "lookup", "remember"} => c.key \in Keys
    /\ c.pc \in {"store", "moveStore", "moveErase", "moveCache", "remember"} => c.value \in Values
    /\ c.pc = "recache" => c.value \in Values \union {RefText}
    /\ c.pc = "lookup" => IsRef(c.content[c.key])
    /\ c.pc \in RenamePcs => c.to # c.env
    /\ c.pc \in WritePcs \ RenamePcs => c.to = c.env

TypeInv == TypeOK /\ \A p \in Callers : Shaped(call[p])

\* What a call adds to the marks.
LEMMA MarksAre ==
    /\ \A reason, es, w, e :
         Mark(reason, es) => (<< w, e >> \in marks' <=> << w, e >> \in marks \/ (w = reason /\ e \in es))
    /\ \A p, x, w, e :
         << w, e >> \in Raced(p, x) <=>
           /\ w = "raced" /\ e = x
           /\ \E q \in Callers \ {p} : At(q, "remember") /\ call[q].env = x
    /\ \A p, es, w, e : << w, e >> \in Overlaps(p, es) => w = "overlap"
    /\ \A p, es, e :
         e \in es /\ (\E q \in Callers \ {p}, x \in es : Writing(q, x)) => << "overlap", e >> \in Overlaps(p, es)
  <1>1. \A reason, es, w, e :
         Mark(reason, es) => (<< w, e >> \in marks' <=> << w, e >> \in marks \/ (w = reason /\ e \in es))
    BY DEF Mark
  <1>2. \A p, x, w, e :
         << w, e >> \in Raced(p, x) <=>
           /\ w = "raced" /\ e = x
           /\ \E q \in Callers \ {p} : At(q, "remember") /\ call[q].env = x
    BY DEF Raced
  <1>3. \A p, es, w, e : << w, e >> \in Overlaps(p, es) => w = "overlap"
    BY DEF Overlaps
  <1>4. ASSUME NEW p, NEW es, NEW e \in es, NEW q \in Callers \ {p}, NEW x \in es, Writing(q, x)
        PROVE  << "overlap", e >> \in Overlaps(p, es)
    <2> DEFINE others == {r \in Callers \ {p} : \E y \in es : Writing(r, y)}
    <2>1. q \in others
      BY <1>4
    <2> QED BY <2>1 DEF Overlaps
  <1> QED BY <1>1, <1>2, <1>3, <1>4

LEMMA MarksTyped ==
    ASSUME TypeInv
    PROVE  /\ \A reason \in Reasons, es \in SUBSET Envs : Mark(reason, es) => marks' \subseteq Reasons \X Envs
           /\ \A p \in Callers, e \in Envs : Raced(p, e) \subseteq Reasons \X Envs
           /\ \A p \in Callers, es \in SUBSET Envs : Overlaps(p, es) \subseteq Reasons \X Envs
  <1>1. \A reason \in Reasons, es \in SUBSET Envs : Mark(reason, es) => marks' \subseteq Reasons \X Envs
    BY DEF Mark, TypeInv, TypeOK
  <1>2. \A p \in Callers, e \in Envs : Raced(p, e) \subseteq Reasons \X Envs
    BY DEF Raced, Reasons
  <1>3. ASSUME NEW p \in Callers, NEW es \in SUBSET Envs
        PROVE  Overlaps(p, es) \subseteq Reasons \X Envs
    <2> DEFINE others == {r \in Callers \ {p} : \E y \in es : Writing(r, y)}
    <2>1. \A q \in others : call[q].env \in Envs /\ call[q].to \in Envs
      BY DEF TypeInv, TypeOK, Call, Idle, Writing, WritePcs, ReadPcs
    <2>2. UNION {{call[q].env, call[q].to} : q \in others} \subseteq Envs
      BY <2>1
    <2>3. "overlap" \in Reasons
      BY DEF Reasons
    <2> QED BY <2>2, <2>3 DEF Overlaps
  <1> QED BY <1>1, <1>2, <1>3

LEMMA InitTypeInv == Init => TypeInv
  <1>1. 0 \in 0 .. MaxCalls
    BY BoundAssumption
  <1> QED BY <1>1 DEF Init, TypeInv, TypeOK, Shaped, Idle, WritePcs, RenamePcs

\* The record of a call at work.
LEMMA AtWork ==
    ASSUME TypeInv, NEW p \in Callers, call[p].pc # "idle"
    PROVE  call[p] \in Call /\ Shaped(call[p])
  BY DEF TypeInv, TypeOK, Idle

LEMMA IdleIs == Idle \in Call \union {Idle} /\ Shaped(Idle) /\ Idle.pc = "idle"
  BY DEF Idle, Shaped, WritePcs, RenamePcs

\* A call turns to c; the files, the keychain, the cache and the rest keep their types.
LEMMA TurnTypes ==
    ASSUME TypeInv, NEW p \in Callers, NEW c \in Call \union {Idle}, Shaped(c), call' = [call EXCEPT ![p] = c],
           file' \in [Envs -> EnvFile \union {None}],
           keychain' \in [Refs -> Values \union {None}],
           secrets' \in [Refs -> Values \union {RefText, None}],
           active' \in Envs \union {None}, calls' \in 0 .. MaxCalls,
           marks' \subseteq Reasons \X Envs
    PROVE  TypeInv'
  <1>1. call' \in [Callers -> Call \union {Idle}] /\ \A q \in Callers : call'[q] = IF q = p THEN c ELSE call[q]
    BY DEF TypeInv, TypeOK
  <1>2. TypeOK'
    BY <1>1 DEF TypeOK
  <1>3. \A q \in Callers : Shaped(call'[q])
    BY <1>1 DEF TypeInv
  <1> QED BY <1>2, <1>3 DEF TypeInv, Shaped

LEMMA SetTypes ==
    ASSUME TypeInv, NEW e \in Envs, NEW k \in Keys, file[e] # None
    PROVE  /\ file[e] \in EnvFile /\ EmptyFile \in EnvFile
           /\ \A entry \in Refs \union {Plain, None} : [file[e] EXCEPT ![k] = entry] \in EnvFile
           /\ SecretKeys(file[e]) \subseteq Keys
           /\ Address(e, k) \in Refs
  BY DEF TypeInv, TypeOK, EnvFile, EmptyFile, SecretKeys, Address, Refs

LEMMA EnterTypes ==
    ASSUME TypeInv, NEW p \in Callers, Enter(p)
    PROVE  TypeInv'
  <1>1. ASSUME NEW es \in SUBSET Envs, NEW c \in Call, Shaped(c), Begin(p, es, c)
        PROVE  TypeInv'
    <2>1. calls' \in 0 .. MaxCalls
      BY <1>1, BoundAssumption DEF Begin, TypeInv, TypeOK
    <2>2. marks' \subseteq Reasons \X Envs
      BY <1>1, MarksTyped DEF Begin, TypeInv, TypeOK
    <2> QED BY <1>1, <2>1, <2>2, TurnTypes DEF Begin, disk, TypeInv, TypeOK
  <1>2. \A e \in Envs : {e} \in SUBSET Envs /\ EmptyFile \in EnvFile
    BY DEF EmptyFile, EnvFile
  <1>3. ASSUME NEW e \in Envs, CreateEnv(p, e)
        PROVE  TypeInv'
    <2> DEFINE c == Begun("persist", e, None, None, EmptyFile)
    <2>1. c \in Call /\ Shaped(c)
      BY <1>2 DEF Begun, Call, Shaped, WritePcs, RenamePcs
    <2> HIDE DEF c
    <2> QED BY <1>1, <1>2, <1>3, <2>1 DEF CreateEnv, c
  <1>4. ASSUME NEW e \in Envs, DeleteEnv(p, e)
        PROVE  TypeInv'
    <2> DEFINE c == [Begun("clear", e, None, None, EmptyFile) EXCEPT !.todo = SecretKeys(file[e])]
    <2>1. Begun("clear", e, None, None, EmptyFile) \in Call /\ SecretKeys(file[e]) \in SUBSET Keys
      BY <1>2 DEF Begun, Call, WritePcs, SecretKeys
    <2>3. c \in Call /\ c.pc = "clear" /\ c.env = e /\ c.to = e
      BY <2>1 DEF Begun, Call
    <2>4. Shaped(c)
      BY <2>3 DEF Shaped, WritePcs, RenamePcs
    <2>2. Begin(p, {e}, c)
      BY <1>4 DEF DeleteEnv
    <2> HIDE DEF c
    <2> QED BY <1>1, <1>2, <2>2, <2>3, <2>4
  <1>5. ASSUME NEW e \in Envs, NEW new \in Envs, RenameEnv(p, e, new)
        PROVE  TypeInv'
    <2> DEFINE c == [Begun("fetch", e, None, None, EmptyFile) EXCEPT !.to = new, !.todo = SecretKeys(file[e])]
    <2>4. Begun("fetch", e, None, None, EmptyFile) \in Call /\ SecretKeys(file[e]) \in SUBSET Keys
      BY <1>2 DEF Begun, Call, WritePcs, SecretKeys
    <2>1. c \in Call /\ c.pc = "fetch" /\ c.env = e /\ c.to = new
      BY <2>4 DEF Begun, Call
    <2>3. Shaped(c)
      BY <1>5, <2>1 DEF RenameEnv, Shaped, WritePcs, RenamePcs
    <2>2. Begin(p, {e, new}, c) /\ {e, new} \in SUBSET Envs
      BY <1>5 DEF RenameEnv
    <2> HIDE DEF c
    <2> QED BY <1>1, <2>1, <2>2, <2>3
  <1>6. ASSUME NEW e \in Envs, NEW k \in Keys, NEW v \in Values, SetSecret(p, e, k, v)
        PROVE  TypeInv'
    <2> DEFINE content == [file[e] EXCEPT ![k] = Address(e, k)]
               c == Begun("store", e, k, v, content)
    <2>1. content \in EnvFile
      BY <1>6, SetTypes DEF SetSecret
    <2>2. Begin(p, {e}, c)
      BY <1>6 DEF SetSecret
    <2> HIDE DEF content
    <2>3. c \in Call /\ Shaped(c)
      BY <2>1 DEF Begun, Call, Shaped, WritePcs, RenamePcs
    <2> HIDE DEF c
    <2> QED BY <1>1, <1>2, <2>2, <2>3
  <1>7. ASSUME NEW e \in Envs, NEW k \in Keys \union {None}, NEW pc \in {"recache", "persist", "erase"},
               pc # "persist" => k \in Keys, NEW content \in EnvFile, NEW value \in {RefText, None}, pc = "recache" => value = RefText,
               Begin(p, {e}, Begun(pc, e, k, value, content))
        PROVE  TypeInv'
    <2> DEFINE c == Begun(pc, e, k, value, content)
    <2>1. c \in Call
      BY DEF Begun, Call, WritePcs
    <2>2. Shaped(c)
      BY <1>7 DEF Begun, Shaped, WritePcs, RenamePcs
    <2> HIDE DEF c
    <2> QED BY <1>1, <1>2, <1>7, <2>1, <2>2 DEF c
  <1>9. ASSUME NEW e \in Envs, NEW k \in Keys, ResaveReference(p, e, k)
        PROVE  TypeInv'
    BY <1>7, <1>9, SetTypes DEF ResaveReference
  <1>10. ASSUME NEW e \in Envs, NEW k \in Keys, KeepSecret(p, e, k)
         PROVE  TypeInv'
    BY <1>7, <1>10, SetTypes DEF KeepSecret
  <1>11. ASSUME NEW e \in Envs, NEW k \in Keys, NEW entry \in {Plain, None}, file[e] # None,
                Overwrite(p, e, k, entry)
         PROVE  TypeInv'
    <2> DEFINE content == [file[e] EXCEPT ![k] = entry]
    <2>1. content \in EnvFile
      BY <1>11, SetTypes
    <2>2. \/ Begin(p, {e}, Begun("erase", e, k, None, content))
          \/ Begin(p, {e}, Begun("persist", e, None, None, content))
      BY <1>11 DEF Overwrite
    <2> HIDE DEF content
    <2> QED BY <1>7, <2>1, <2>2
  <1>12. ASSUME NEW e \in Envs, NEW k \in Keys, Resolve(p, e, k)
         PROVE  TypeInv'
    <2> DEFINE c == Begun("lookup", e, k, None, file[e])
    <2>1. file[e] \in EnvFile /\ IsRef(file[e][k])
      BY <1>12, SetTypes DEF Resolve
    <2>2. c \in Call /\ Shaped(c)
      BY <2>1 DEF Begun, Call, Shaped, WritePcs, ReadPcs, RenamePcs
    <2>3. call' = [call EXCEPT ![p] = c] /\ UNCHANGED << disk, secrets, calls, marks >>
      BY <1>12 DEF Resolve
    <2> HIDE DEF c
    <2> QED BY <2>2, <2>3, TurnTypes DEF disk, TypeInv, TypeOK
  <1> QED BY <1>3, <1>4, <1>5, <1>6, <1>9, <1>10, <1>11, <1>12 DEF Enter, SetPlain, DeleteVar

\* A call goes on at another place with what it has.
LEMMA GoneOn ==
    ASSUME TypeInv, NEW p \in Callers, NEW from \in WritePcs, NEW pc \in WritePcs,
           At(p, from), Goto(p, pc), from \in RenamePcs <=> pc \in RenamePcs,
           pc \in {"recache", "forget", "moveErase", "moveCache"} =>
             from \in {"store", "erase", "moveStore", "moveErase"},
           pc \notin {"store", "erase", "moveStore"},
           pc \in {"recache", "moveErase", "moveCache"} => from # "erase"
    PROVE  \E c \in Call : Shaped(c) /\ call' = [call EXCEPT ![p] = c]
  <1> DEFINE c == [call[p] EXCEPT !.pc = pc]
  <1>1. call[p] \in Call /\ Shaped(call[p]) /\ call[p].pc = from
    BY AtWork DEF At, WritePcs
  <1>2. /\ c \in Call /\ c.pc = pc /\ c.env = call[p].env /\ c.to = call[p].to /\ c.key = call[p].key
        /\ c.value = call[p].value
    BY <1>1 DEF Call
  <1>3. Shaped(c)
    BY <1>1, <1>2 DEF Shaped, WritePcs, RenamePcs
  <1>4. call' = [call EXCEPT ![p] = c]
    BY DEF Goto
  <1> QED BY <1>2, <1>3, <1>4

LEMMA ContinueTypes ==
    ASSUME TypeInv, NEW p \in Callers, Continue(p)
    PROVE  TypeInv'
  <1> USE DEF TypeInv, TypeOK
  <1> DEFINE c == call[p]
  <1>1. ASSUME NEW next \in Call \union {Idle}, Shaped(next), call' = [call EXCEPT ![p] = next],
               file' \in [Envs -> EnvFile \union {None}],
               keychain' \in [Refs -> Values \union {None}],
               secrets' \in [Refs -> Values \union {RefText, None}],
               active' \in Envs \union {None}, UNCHANGED calls,
               marks' \subseteq Reasons \X Envs
        PROVE  TypeInv'
    BY <1>1, TurnTypes
  <1>2. c \in Call /\ Shaped(c)
    BY AtWork DEF Continue, StoreSecret, Recache, Erase, Forget, Persist, Clear, Fetch, MoveStore,
                  MoveErase, MoveCache, ForgetAll, Unlink, Move, ActiveCheck, ActiveWrite,
                  Lookup, Remember, At
  <1>3. /\ c.env \in Envs /\ c.to \in Envs /\ c.content \in EnvFile /\ c.todo \in SUBSET Keys
        /\ None \in Values \union {RefText, None} /\ c.value \in Values \union {RefText, None}
        /\ None \in Keys \union {None} /\ "cut" \in Reasons /\ "deleted" \in Reasons /\ "renamed" \in Reasons
    BY <1>2 DEF Call, Reasons
  <1>4. \A e \in Envs : Raced(p, e) \subseteq Reasons \X Envs
    BY MarksTyped
  <1>5. \A reason \in Reasons, es \in SUBSET Envs : Mark(reason, es) => marks' \subseteq Reasons \X Envs
    BY MarksTyped
  <1>6. /\ \A r, v \in Values : [keychain EXCEPT ![r] = v] \in [Refs -> Values \union {None}]
        /\ \A r : [keychain EXCEPT ![r] = None] \in [Refs -> Values \union {None}]
        /\ \A r, v \in Values \union {RefText, None} :
             [secrets EXCEPT ![r] = v] \in [Refs -> Values \union {RefText, None}]
    OBVIOUS
  <1>7. ASSUME Return(p), UNCHANGED calls,
               file' \in [Envs -> EnvFile \union {None}],
               keychain' \in [Refs -> Values \union {None}],
               secrets' \in [Refs -> Values \union {RefText, None}],
               active' \in Envs \union {None}, marks' \subseteq Reasons \X Envs
        PROVE  TypeInv'
    BY <1>1, <1>7, IdleIs DEF Return
  <1>8. ASSUME NEW from \in WritePcs, NEW pc \in WritePcs, At(p, from), Goto(p, pc),
               << from, pc >> \in {<< "store", "recache" >>, << "erase", "forget" >>, << "forget", "persist" >>,
                                   << "moveStore", "moveErase" >>, << "moveErase", "moveCache" >>,
                                   << "clear", "unlink" >>, << "fetch", "move" >>,
                                   << "move", "activeCheck" >>, << "activeCheck", "activeWrite" >>},
               UNCHANGED calls,
               file' \in [Envs -> EnvFile \union {None}],
               keychain' \in [Refs -> Values \union {None}],
               secrets' \in [Refs -> Values \union {RefText, None}],
               active' \in Envs \union {None}, marks' \subseteq Reasons \X Envs
        PROVE  TypeInv'
    <2>1. \E next \in Call : Shaped(next) /\ call' = [call EXCEPT ![p] = next]
      BY <1>8, GoneOn DEF RenamePcs
    <2> QED BY <1>1, <1>8, <2>1
  <1>9. {"store", "recache", "erase", "forget", "persist", "clear", "unlink", "fetch", "moveStore",
         "moveErase", "moveCache", "move", "activeCheck", "activeWrite"} \subseteq WritePcs
    BY DEF WritePcs
  <1>10. CASE StoreSecret(p)
    <2>1. c.value \in Values
      BY <1>2, <1>10 DEF StoreSecret, At, Shaped
    <2> QED BY <1>3, <1>4, <1>6, <1>7, <1>8, <1>9, <1>10, <2>1 DEF StoreSecret
  <1>11. CASE Recache(p)
    <2> DEFINE next == [c EXCEPT !.pc = "persist", !.value = None]
    <2>1. next \in Call /\ next.pc = "persist" /\ next.env = c.env /\ next.to = c.to
      BY <1>2, <1>3, <1>9 DEF Call
    <2>2. Shaped(next)
      BY <1>2, <1>11, <2>1 DEF Shaped, Recache, At, WritePcs, RenamePcs
    <2>3. call' = [call EXCEPT ![p] = next]
      BY <1>11 DEF Recache
    <2> HIDE DEF next
    <2> QED BY <1>1, <1>3, <1>6, <1>11, <2>1, <2>2, <2>3 DEF Recache, disk
  <1>12. CASE Erase(p)
    BY <1>3, <1>4, <1>6, <1>8, <1>9, <1>12 DEF Erase
  <1>13. CASE Forget(p)
    BY <1>3, <1>6, <1>8, <1>9, <1>13 DEF Forget, disk
  <1>14. CASE Persist(p)
    <2>1. marks' \subseteq Reasons \X Envs
      BY <1>3, <1>5, <1>14 DEF Persist
    <2>2. file' \in [Envs -> EnvFile \union {None}]
      BY <1>3, <1>14 DEF Persist
    <2> QED BY <1>7, <1>14, <2>1, <2>2 DEF Persist
  <1>15. CASE Clear(p)
    <2>1. PICK k \in c.todo :
            /\ keychain' \in {keychain, [keychain EXCEPT ![Address(c.env, k)] = None]}
            /\ call' = [call EXCEPT ![p] = [c EXCEPT !.todo = @ \ {k}]]
      BY <1>15 DEF Clear
    <2> DEFINE next == [c EXCEPT !.todo = @ \ {k}]
    <2>2. next \in Call /\ next.pc = c.pc /\ next.env = c.env /\ next.to = c.to /\ next.key = c.key
          /\ next.value = c.value /\ next.content = c.content
      BY <1>2, <1>3 DEF Call
    <2>3. Shaped(next)
      BY <1>2, <2>2 DEF Shaped
    <2> HIDE DEF next
    <2>4. keychain' \in [Refs -> Values \union {None}] /\ call' = [call EXCEPT ![p] = next]
      BY <1>6, <2>1 DEF next
    <2>5. marks' \subseteq Reasons \X Envs
      BY <1>3, <1>4, <1>15 DEF Clear
    <2> QED BY <1>1, <1>15, <2>2, <2>3, <2>4, <2>5 DEF Clear
  <1>16. CASE Fetch(p)
    <2>1. PICK k \in c.todo :
            LET v == keychain[Address(c.env, k)]
                rest == [c EXCEPT !.todo = @ \ {k}]
            IN  \/ call' = [call EXCEPT ![p] = rest]
                \/ v # None /\ call' = [call EXCEPT ![p] = [rest EXCEPT !.pc = "moveStore", !.key = k, !.value = v]]
      BY <1>16 DEF Fetch
    <2> DEFINE v == keychain[Address(c.env, k)]
               rest == [c EXCEPT !.todo = @ \ {k}]
               next == [rest EXCEPT !.pc = "moveStore", !.key = k, !.value = v]
    <2>2. rest \in Call /\ rest.pc = "fetch" /\ rest.env = c.env /\ rest.to = c.to
      BY <1>2, <1>3, <1>16 DEF Call, Fetch, At
    <2>3. Shaped(rest)
      BY <1>2, <1>16, <2>2 DEF Shaped, Fetch, At, WritePcs, RenamePcs
    <2>4. k \in Keys /\ v \in Values \union {None}
      BY <1>3 DEF Address, Refs
    <2> HIDE DEF v
    <2>5. next \in Call /\ next.pc = "moveStore" /\ next.env = c.env /\ next.to = c.to /\ next.key = k
          /\ next.value = v
      BY <1>9, <2>2, <2>4 DEF Call
    <2>6. v # None => Shaped(next)
      BY <1>2, <1>16, <2>4, <2>5 DEF Shaped, Fetch, At, WritePcs, RenamePcs
    <2>7. \E x \in Call : Shaped(x) /\ call' = [call EXCEPT ![p] = x]
      BY <2>1, <2>2, <2>3, <2>5, <2>6 DEF v
    <2> QED BY <1>1, <1>16, <2>7 DEF Fetch, disk
  <1>17. CASE MoveStore(p)
    <2>1. c.value \in Values
      BY <1>2, <1>17 DEF MoveStore, At, Shaped
    <2> QED BY <1>3, <1>4, <1>6, <1>8, <1>9, <1>17, <2>1 DEF MoveStore
  <1>18. CASE MoveErase(p)
    BY <1>3, <1>4, <1>6, <1>8, <1>9, <1>18 DEF MoveErase
  <1>19. CASE MoveCache(p)
    <2> DEFINE next == [c EXCEPT !.pc = "fetch", !.key = None, !.value = None]
    <2>1. next \in Call /\ next.pc = "fetch" /\ next.env = c.env /\ next.to = c.to
      BY <1>2, <1>3, <1>9 DEF Call
    <2>2. Shaped(next)
      BY <1>2, <1>19, <2>1 DEF Shaped, MoveCache, At, WritePcs, RenamePcs
    <2>3. call' = [call EXCEPT ![p] = next]
      BY <1>19 DEF MoveCache
    <2> HIDE DEF next
    <2> QED BY <1>1, <1>3, <1>6, <1>19, <2>1, <2>2, <2>3 DEF MoveCache, disk
  <1>20. CASE ForgetAll(p)
    <2>1. secrets' \in [Refs -> Values \union {RefText, None}]
      BY <1>20 DEF ForgetAll
    <2>2. \/ At(p, "clear") /\ Goto(p, "unlink")
          \/ At(p, "fetch") /\ Goto(p, "move")
      BY <1>20 DEF ForgetAll, At
    <2> QED BY <1>8, <1>9, <1>20, <2>1, <2>2 DEF ForgetAll, disk
  <1>21. CASE Unlink(p)
    <2>1. marks' \subseteq Reasons \X Envs
      BY <1>3, <1>5, <1>21 DEF Unlink
    <2> QED BY <1>7, <1>21, <2>1 DEF Unlink
  <1>22. CASE Move(p)
    <2>1. marks' \subseteq Reasons \X Envs
      BY <1>3, <1>5, <1>22 DEF Move
    <2>2. file' \in [Envs -> EnvFile \union {None}]
      BY <1>3, <1>22 DEF Move
    <2> QED BY <1>7, <1>8, <1>9, <1>22, <2>1, <2>2 DEF Move
  <1>23. CASE ActiveCheck(p)
    <2>1. marks' \subseteq Reasons \X Envs
      BY <1>3, <1>5, <1>23 DEF ActiveCheck
    <2> QED BY <1>7, <1>8, <1>9, <1>23, <2>1 DEF ActiveCheck, disk
  <1>24. CASE ActiveWrite(p)
    <2>1. marks' \subseteq Reasons \X Envs
      BY <1>3, <1>5, <1>24 DEF ActiveWrite
    <2> QED BY <1>3, <1>7, <1>24, <2>1 DEF ActiveWrite
  <1>25. CASE Lookup(p)
    <2> DEFINE v == keychain[c.content[c.key]]
               next == [c EXCEPT !.pc = "remember", !.value = v]
    <2>1. c.key \in Keys /\ c.content[c.key] \in Refs
      BY <1>2, <1>3, <1>25 DEF Lookup, At, Shaped, IsRef, EnvFile
    <2>2. v \in Values \union {None}
      BY <2>1
    <2>3. \/ v # None /\ call' = [call EXCEPT ![p] = next]
          \/ Return(p)
      BY <1>25 DEF Lookup
    <2> HIDE DEF v
    <2>4. next \in Call /\ next.pc = "remember" /\ next.env = c.env /\ next.to = c.to /\ next.key = c.key
          /\ next.value = v
      BY <1>2, <2>2 DEF Call, ReadPcs
    <2>5. v # None => Shaped(next)
      BY <2>1, <2>2, <2>4 DEF Shaped, WritePcs, RenamePcs
    <2> QED BY <1>1, <1>7, <1>25, <2>3, <2>4, <2>5 DEF Lookup, disk
  <1>26. CASE Remember(p)
    BY <1>3, <1>6, <1>7, <1>26 DEF Remember, disk
  <1> QED
    BY <1>10, <1>11, <1>12, <1>13, <1>14, <1>15, <1>16, <1>17, <1>18, <1>19, <1>20, <1>21, <1>22,
       <1>23, <1>24, <1>25, <1>26 DEF Continue

LEMMA SetActiveTypes ==
    ASSUME TypeInv, NEW p \in Callers, NEW e \in Envs \union {None}, SetActive(p, e)
    PROVE  TypeInv'
  <1>1. calls' \in 0 .. MaxCalls
    BY BoundAssumption DEF SetActive, TypeInv, TypeOK
  <1>2. marks' \subseteq Reasons \X Envs
    BY MarksTyped DEF SetActive, TypeInv, TypeOK
  <1> QED BY <1>1, <1>2 DEF SetActive, TypeInv, TypeOK, Shaped

LEMMA NextTypeInv == TypeInv /\ [Next]_vars => TypeInv'
  <1> SUFFICES ASSUME TypeInv, [Next]_vars
               PROVE  TypeInv'
    OBVIOUS
  <1>1. CASE UNCHANGED vars
    BY <1>1 DEF vars, TypeInv, TypeOK, Shaped
  <1>2. CASE InvalidateCache
    <2>1. secrets' \in [Refs -> Values \union {RefText, None}] /\ marks' \subseteq marks
      BY <1>2 DEF InvalidateCache, Unraced
    <2> QED BY <1>2, <2>1 DEF InvalidateCache, disk, TypeInv, TypeOK, Shaped
  <1>3. CASE Restart
    <2>1. secrets' \in [Refs -> Values \union {RefText, None}] /\ marks' \subseteq Reasons \X Envs
      BY <1>3 DEF Restart, Unraced, Reasons, TypeInv, TypeOK
    <2>2. \A p \in Callers : call'[p] = Idle
      BY <1>3 DEF Restart
    <2>3. call' \in [Callers -> Call \union {Idle}]
      BY <1>3 DEF Restart
    <2> QED BY <1>3, <2>1, <2>2, <2>3, IdleIs DEF Restart, disk, TypeInv, TypeOK, Shaped
  <1> QED BY <1>1, <1>2, <1>3, EnterTypes, ContinueTypes, SetActiveTypes DEF Next

\* Files hold entries, the keychain secrets, and a call has at each place what that place uses.
THEOREM TypeCorrect == Spec => []TypeOK
  <1>1. TypeInv => TypeOK
    BY DEF TypeInv
  <1> QED BY <1>1, InitTypeInv, NextTypeInv, PTL DEF Spec

-----------------------------------------------------------------------------
(* References                                                              *)

\* Nothing that the promise about references makes an exception of has befallen e.
Clean(e) == \A w \in {"overlap", "cut", "renamed"} : << w, e >> \notin marks
Free(e) == \A p \in Callers : ~Writing(p, e)

\* What the file f says of e's keys: references to e's own addresses, with secrets in kc.
OwnRefs(e, f) == f # None => \A k \in SecretKeys(f) : f[k] = Address(e, k)
Resolves(e, f, kc) ==
    f # None => \A k \in SecretKeys(f) : f[k] = Address(e, k) /\ kc[Address(e, k)] # None

\* How far the call c has come with the references of its environment, whose file is f: the
\* keychain runs ahead of the file, and back only where the reference goes.
Leads(c, f, kc) ==
    LET e == c.env IN
    /\ c.pc = "store" =>
         /\ c.content[c.key] = Address(e, c.key)
         /\ \A k \in SecretKeys(c.content) \ {c.key} :
              c.content[k] = Address(e, k) /\ kc[Address(e, k)] # None
    /\ c.pc \in {"recache", "persist", "erase", "forget"} => Resolves(e, c.content, kc)
    /\ c.pc = "recache" => IsRef(c.content[c.key])
    /\ c.pc \in {"erase", "forget"} => ~IsRef(c.content[c.key])
    /\ c.pc \in {"store", "recache", "persist"} /\ ~Removes(c) => Resolves(e, f, kc)
    /\ c.pc \in {"activeCheck", "activeWrite"} => f = None

\* The references of e are its own and resolve, and while one call is at work on it that
\* call knows how far it has come.
RefsKept(e) ==
    Clean(e) =>
      /\ \A p, q \in Callers : Writing(p, e) /\ Writing(q, e) => p = q
      /\ OwnRefs(e, file[e])
      /\ Free(e) => Resolves(e, file[e], keychain)
      /\ \A p \in Callers : Writing(p, e) /\ call[p].env = e => Leads(call[p], file[e], keychain)

\* An environment that a call has moved another to is set apart.
RenamedApart ==
    \A p \in Callers : call[p].pc \in {"activeCheck", "activeWrite"} => << "renamed", call[p].to >> \in marks

\* The active environment is there, or the call that renamed it is about to look.
ActiveThere ==
    active # None =>
      \/ \E w \in {"overlap", "cut", "deleted"} : << w, active >> \in marks
      \/ file[active] # None
      \/ \E p \in Callers : call[p].pc \in {"activeCheck", "activeWrite"} /\ call[p].env = active

StoreInv == TypeInv /\ RenamedApart /\ ActiveThere /\ \A e \in Envs : RefsKept(e)

\* What is promised of the references stays promised as long as no secret goes.
LEMMA MoreSecrets ==
    ASSUME NEW e \in Envs, NEW kc, NEW more,
           \A k \in Keys : kc[Address(e, k)] # None => more[Address(e, k)] # None
    PROVE  /\ \A f : Resolves(e, f, kc) => Resolves(e, f, more)
           /\ \A c, f : c.env = e /\ Leads(c, f, kc) => Leads(c, f, more)
  <1>1. \A k \in Keys : kc[Address(e, k)] # None => more[Address(e, k)] # None
    OBVIOUS
  <1>2. \A f : SecretKeys(f) \subseteq Keys
    BY DEF SecretKeys
  <1> HIDE DEF SecretKeys
  <1>3. \A f : Resolves(e, f, kc) => Resolves(e, f, more)
    BY <1>1, <1>2 DEF Resolves
  <1>4. ASSUME NEW c, NEW f, c.env = e, Leads(c, f, kc)
        PROVE  Leads(c, f, more)
    BY <1>1, <1>2, <1>3, <1>4 DEF Leads
  <1> QED BY <1>3, <1>4

\* A step of the call p at work, which goes on as c or ends, with the environment e: not one of
\* its own, its environment, or the new name it gives it.
LEMMA WorkKeeps ==
    ASSUME TypeInv, NEW e \in Envs, RefsKept(e), Clean(e)' => Clean(e),
           NEW p \in Callers, call[p].pc \in WritePcs,
           NEW c, call' = [call EXCEPT ![p] = c],
           c = Idle \/ (c.pc \in WritePcs /\ c.env = call[p].env /\ c.to = call[p].to),
           ~Writing(p, e) => /\ file'[e] = file[e]
                             /\ \A k \in Keys : keychain'[Address(e, k)] = keychain[Address(e, k)],
           Clean(e)' /\ e = call[p].env =>
             /\ OwnRefs(e, file'[e])
             /\ c = Idle => Resolves(e, file'[e], keychain')
             /\ c # Idle => Leads(c, file'[e], keychain'),
           Clean(e)' /\ e = call[p].to /\ e # call[p].env => c # Idle /\ file'[e] = file[e]
    PROVE  RefsKept(e)'
  <1> SUFFICES ASSUME Clean(e)'
               PROVE  /\ \A q, r \in Callers : Writing(q, e)' /\ Writing(r, e)' => q = r
                      /\ OwnRefs(e, file'[e])
                      /\ Free(e)' => Resolves(e, file'[e], keychain')
                      /\ \A q \in Callers : Writing(q, e)' /\ call'[q].env = e => Leads(call'[q], file'[e], keychain')
    BY DEF RefsKept, OwnRefs, Resolves, Leads, SecretKeys, Address, IsRef, Removes
  <1>1. /\ \A q, r \in Callers : Writing(q, e) /\ Writing(r, e) => q = r
        /\ OwnRefs(e, file[e])
        /\ Free(e) => Resolves(e, file[e], keychain)
        /\ \A q \in Callers : Writing(q, e) /\ call[q].env = e => Leads(call[q], file[e], keychain)
    BY DEF RefsKept
  <1>2. \A q \in Callers : call'[q] = IF q = p THEN c ELSE call[q]
    BY DEF TypeInv, TypeOK
  <1>3. \A q \in Callers : Writing(q, e)' => Writing(q, e)
    BY <1>2 DEF Writing, Idle, WritePcs
  <1>4. \A q \in Callers \ {p} : Writing(q, e) => Writing(q, e)' /\ call'[q] = call[q]
    BY <1>2 DEF Writing
  <1>5. c # Idle /\ Writing(p, e) => Writing(p, e)'
    BY <1>2 DEF Writing
  <1>6. \A q, r \in Callers : Writing(q, e)' /\ Writing(r, e)' => q = r
    BY <1>1, <1>3
  <1>7. CASE ~Writing(p, e)
    <2>1. \A f : Resolves(e, f, keychain) => Resolves(e, f, keychain')
      BY <1>7, MoreSecrets
    <2>2. \A d, f : d.env = e /\ Leads(d, f, keychain) => Leads(d, f, keychain')
      BY <1>7, MoreSecrets
    <2>3. Free(e)' => Free(e)
      BY <1>4, <1>7 DEF Free
    <2>4. \A q \in Callers : Writing(q, e)' => q # p /\ Writing(q, e) /\ call'[q] = call[q]
      BY <1>3, <1>4, <1>7
    <2> QED BY <1>1, <1>6, <1>7, <2>1, <2>2, <2>3, <2>4
  <1>8. CASE Writing(p, e)
    <2>1. \A q \in Callers : Writing(q, e)' => q = p /\ c # Idle /\ call'[q] = c
      BY <1>1, <1>2, <1>3, <1>8 DEF Writing, Idle, WritePcs
    <2>2. c # Idle => ~Free(e)'
      BY <1>5, <1>8 DEF Free
    <2>3. CASE e = call[p].env
      BY <1>6, <2>1, <2>2, <2>3
    <2>4. CASE e # call[p].env
      <3>1. e = call[p].to /\ c # Idle /\ file'[e] = file[e] /\ c.env # e
        BY <1>8, <2>4 DEF Writing
      <3> QED BY <1>1, <1>6, <2>1, <2>2, <3>1
    <2> QED BY <2>3, <2>4
  <1> QED BY <1>7, <1>8

\* A step in which no call that writes begins, goes on or ends.
LEMMA OthersKeep ==
    ASSUME TypeInv, NEW e \in Envs, RefsKept(e), Clean(e)' => Clean(e), file' = file, keychain' = keychain,
           \A q \in Callers : call[q].pc \in WritePcs \/ call'[q].pc \in WritePcs => call'[q] = call[q]
    PROVE  RefsKept(e)'
  <1>1. \A q \in Callers : Writing(q, e)' <=> Writing(q, e)
    BY DEF Writing
  <1>2. \A q \in Callers : Writing(q, e)' => call'[q] = call[q]
    BY DEF Writing
  <1>3. Free(e)' <=> Free(e)
    BY <1>1 DEF Free
  <1> SUFFICES ASSUME Clean(e)'
               PROVE  /\ \A q, r \in Callers : Writing(q, e)' /\ Writing(r, e)' => q = r
                      /\ OwnRefs(e, file'[e])
                      /\ Free(e)' => Resolves(e, file'[e], keychain')
                      /\ \A q \in Callers : Writing(q, e)' /\ call'[q].env = e => Leads(call'[q], file'[e], keychain')
    BY DEF RefsKept, OwnRefs, Resolves, Leads, SecretKeys, Address, IsRef, Removes
  <1>4. /\ \A q, r \in Callers : Writing(q, e) /\ Writing(r, e) => q = r
        /\ OwnRefs(e, file[e])
        /\ Free(e) => Resolves(e, file[e], keychain)
        /\ \A q \in Callers : Writing(q, e) /\ call[q].env = e => Leads(call[q], file[e], keychain)
    BY DEF RefsKept
  <1> QED BY <1>1, <1>2, <1>3, <1>4

\* A call begins to write: nobody else is at work on environments that stay clean.
LEMMA BeginKeeps ==
    ASSUME TypeInv, NEW e \in Envs, RefsKept(e), NEW p \in Callers, NEW es, NEW c,
           Begin(p, es, c), c.pc \in WritePcs, es = {c.env, c.to},
           e = c.env /\ OwnRefs(e, file[e]) /\ Resolves(e, file[e], keychain) => Leads(c, file[e], keychain)
    PROVE  RefsKept(e)'
  <1> SUFFICES ASSUME Clean(e)'
               PROVE  /\ \A q, r \in Callers : Writing(q, e)' /\ Writing(r, e)' => q = r
                      /\ OwnRefs(e, file'[e])
                      /\ Free(e)' => Resolves(e, file'[e], keychain')
                      /\ \A q \in Callers : Writing(q, e)' /\ call'[q].env = e => Leads(call'[q], file'[e], keychain')
    BY DEF RefsKept, OwnRefs, Resolves, Leads, SecretKeys, Address, IsRef, Removes
  <1>1. /\ Clean(e) /\ file' = file /\ keychain' = keychain /\ call[p].pc = "idle"
        /\ \A q \in Callers : call'[q] = IF q = p THEN c ELSE call[q]
    BY DEF Begin, Clean, disk, At, TypeInv, TypeOK
  <1>2. /\ \A q, r \in Callers : Writing(q, e) /\ Writing(r, e) => q = r
        /\ OwnRefs(e, file[e])
        /\ Free(e) => Resolves(e, file[e], keychain)
        /\ \A q \in Callers : Writing(q, e) /\ call[q].env = e => Leads(call[q], file[e], keychain)
    BY <1>1 DEF RefsKept
  <1>3. /\ ~Writing(p, e)
        /\ Writing(p, e)' <=> e \in es
        /\ \A q \in Callers \ {p} : (Writing(q, e)' <=> Writing(q, e)) /\ call'[q] = call[q]
    BY <1>1 DEF Writing, WritePcs
  <1>4. CASE e \notin es
    <2>1. \A q \in Callers : Writing(q, e)' => q # p /\ Writing(q, e) /\ call'[q] = call[q]
      BY <1>3, <1>4
    <2>2. Free(e)' => Free(e)
      BY <1>3 DEF Free
    <2> QED BY <1>1, <1>2, <2>1, <2>2
  <1>5. CASE e \in es
    <2>1. \A q \in Callers \ {p} : ~Writing(q, e)
      <3> SUFFICES ASSUME NEW q \in Callers \ {p}, Writing(q, e)
                   PROVE  FALSE
        OBVIOUS
      <3>1. << "overlap", e >> \in Overlaps(p, es)
        BY <1>5, MarksAre
      <3> QED BY <3>1 DEF Begin, Clean
    <2>2. Free(e) /\ ~Free(e)'
      BY <1>3, <1>5, <2>1 DEF Free
    <2>3. \A q \in Callers : Writing(q, e)' => q = p /\ call'[q] = c
      BY <1>1, <1>3, <2>1
    <2> QED BY <1>1, <1>2, <2>2, <2>3
  <1> QED BY <1>4, <1>5

\* A call goes on at another place, with what it has.
LEMMA GoesTo ==
    ASSUME TypeInv, NEW p \in Callers, call[p].pc # "idle", NEW pc \in WritePcs, Goto(p, pc)
    PROVE  \E c : /\ call' = [call EXCEPT ![p] = c]
                  /\ c # Idle /\ c.pc = pc /\ c.env = call[p].env /\ c.to = call[p].to
                  /\ c.key = call[p].key /\ c.value = call[p].value /\ c.content = call[p].content
  <1> DEFINE c == [call[p] EXCEPT !.pc = pc]
  <1>1. call[p] \in Call
    BY AtWork
  <1>2. /\ c.pc = pc /\ c.env = call[p].env /\ c.to = call[p].to
        /\ c.key = call[p].key /\ c.value = call[p].value /\ c.content = call[p].content
    BY <1>1 DEF Call
  <1>3. call' = [call EXCEPT ![p] = c]
    BY DEF Goto
  <1>4. c # Idle
    BY <1>2 DEF Idle, WritePcs
  <1> QED BY <1>2, <1>3, <1>4

\* A call at work only ever takes back that an environment was deleted.
LEMMA MarksStay ==
    ASSUME NEW p \in Callers, Continue(p)
    PROVE  /\ \A w, x : << w, x >> \in marks /\ w # "deleted" => << w, x >> \in marks'
           /\ \A e : Clean(e)' => Clean(e)
  <1>1. \A w, x : << w, x >> \in marks /\ w # "deleted" => << w, x >> \in marks'
    BY DEF Continue, StoreSecret, Recache, Erase, Forget, Persist, Clear, Fetch, MoveStore,
           MoveErase, MoveCache, ForgetAll, Unlink, Move, ActiveCheck, ActiveWrite, Lookup, Remember, Mark
  <1>2. "overlap" # "deleted" /\ "cut" # "deleted" /\ "renamed" # "deleted"
    OBVIOUS
  <1> QED BY <1>1, <1>2 DEF Clean

LEMMA AddressesDiffer ==
    ASSUME NEW e \in Envs, NEW k \in Keys
    PROVE  /\ Address(e, k) \in Refs /\ IsRef(Address(e, k))
           /\ \A x, j : Address(x, j) = Address(e, k) => x = e /\ j = k
  BY NoneAssumption DEF Address, Refs, IsRef

LEMMA ContinueKeeps ==
    ASSUME TypeInv, RenamedApart, NEW e \in Envs, RefsKept(e), NEW p \in Callers, Continue(p)
    PROVE  RefsKept(e)'
  <1> DEFINE env == call[p].env
             key == call[p].key
             content == call[p].content
  <1>1. Clean(e)' => Clean(e)
    BY MarksStay
  <1>2. CASE Lookup(p) \/ Remember(p)
    <2>1. call[p] \in Call /\ call[p].pc \notin WritePcs
      BY <1>2, AtWork DEF Lookup, Remember, At, WritePcs
    <2>2. \A v : [call[p] EXCEPT !.pc = "remember", !.value = v].pc = "remember"
      BY <2>1 DEF Call
    <2>3. \E c : c.pc \notin WritePcs /\ call' = [call EXCEPT ![p] = c]
      BY <1>2, <2>2, IdleIs DEF Lookup, Remember, Return, WritePcs
    <2>4. \A q \in Callers : call[q].pc \in WritePcs \/ call'[q].pc \in WritePcs => call'[q] = call[q]
      BY <2>1, <2>3 DEF TypeInv, TypeOK
    <2> QED BY <1>1, <1>2, <2>4, OthersKeep DEF Lookup, Remember, disk
  <1>3. ASSUME ~(Lookup(p) \/ Remember(p))
        PROVE  RefsKept(e)'
    <2>1. call[p].pc \in WritePcs /\ call[p] \in Call /\ Shaped(call[p])
      BY <1>3, AtWork DEF Continue, StoreSecret, Recache, Erase, Forget, Persist, Clear, Fetch, MoveStore,
         MoveErase, MoveCache, ForgetAll, Unlink, Move, ActiveCheck, ActiveWrite, At, WritePcs
    <2>2. /\ env \in Envs /\ call[p].to \in Envs /\ content \in EnvFile /\ call[p].todo \subseteq Keys
          /\ key \in Keys \union {None}
      BY <2>1 DEF Call
    <2>3. /\ Clean(e) => OwnRefs(e, file[e])
          /\ Clean(e) /\ e = env => Leads(call[p], file[e], keychain)
      BY <2>1 DEF RefsKept, Writing
    <2>4. Writing(p, e) <=> e \in {env, call[p].to}
      BY <2>1 DEF Writing
    \* The call goes on or ends, and leaves the files.
    <2>5. ASSUME NEW c, call' = [call EXCEPT ![p] = c],
                 c = Idle \/ (c.pc \in WritePcs /\ c.env = env /\ c.to = call[p].to),
                 file' = file,
                 e \notin {env, call[p].to} => \A k \in Keys : keychain'[Address(e, k)] = keychain[Address(e, k)],
                 Clean(e)' /\ e = env /\ c = Idle => Resolves(e, file[e], keychain'),
                 Clean(e)' /\ e = env /\ c # Idle => Leads(c, file[e], keychain'),
                 Clean(e)' /\ e = call[p].to /\ e # env => c # Idle
          PROVE  RefsKept(e)'
      BY <1>1, <2>1, <2>3, <2>4, <2>5, WorkKeeps
    <2>6. CASE StoreSecret(p)
      <3>1. key \in Keys /\ call[p].value # None /\ call[p].to = env
        BY <2>1, <2>6, NoneAssumption DEF StoreSecret, At, Shaped, WritePcs, RenamePcs
      <3>2. CASE Return(p) /\ UNCHANGED <<keychain, marks>>
        <4>1. Clean(e) /\ e = env => Resolves(e, file[e], keychain)
          BY <2>3, <2>6, <3>1, AddressesDiffer DEF StoreSecret, At, Leads, Removes
        <4> QED BY <1>1, <2>5, <2>6, <3>1, <3>2, <4>1, IdleIs DEF StoreSecret, Return
      <3>3. CASE keychain' = [keychain EXCEPT ![Here(p)] = call[p].value] /\ Goto(p, "recache")
        <4>1. PICK c : /\ call' = [call EXCEPT ![p] = c]
                       /\ c # Idle /\ c.pc = "recache" /\ c.env = env /\ c.to = call[p].to
                       /\ c.key = key /\ c.value = call[p].value /\ c.content = content
          BY <2>1, <3>3, GoesTo DEF WritePcs
        <4>2. \A k \in Keys : keychain'[Address(e, k)] =
                                IF e = env /\ k = key THEN call[p].value ELSE keychain[Address(e, k)]
          BY <2>2, <3>1, <3>3, AddressesDiffer DEF Here, TypeInv, TypeOK
        <4>3. ASSUME Clean(e), e = env
              PROVE  Leads(c, file[e], keychain')
          <5>1. /\ content[key] = Address(e, key) /\ IsRef(content[key])
                /\ \A k \in SecretKeys(content) \ {key} :
                     content[k] = Address(e, k) /\ keychain[Address(e, k)] # None
                /\ Resolves(e, file[e], keychain)
            BY <2>3, <2>6, <3>1, <4>3, AddressesDiffer DEF StoreSecret, At, Leads, Removes
          <5>2. Resolves(e, content, keychain')
            BY <3>1, <4>2, <4>3, <5>1 DEF Resolves, SecretKeys
          <5>3. Resolves(e, file[e], keychain')
            BY <3>1, <4>2, <5>1, MoreSecrets
          <5> QED BY <4>1, <4>3, <5>1, <5>2, <5>3 DEF Leads
        <4> QED BY <1>1, <2>5, <2>6, <3>1, <4>1, <4>2, <4>3 DEF StoreSecret, WritePcs
      <3> QED BY <2>6, <3>2, <3>3 DEF StoreSecret
    <2>7. CASE Recache(p)
      <3> DEFINE c == [call[p] EXCEPT !.pc = "persist", !.value = None]
      <3>1. /\ c.pc = "persist" /\ c.env = env /\ c.to = call[p].to /\ c.key = key /\ c.content = content
        BY <2>1 DEF Call
      <3>2. call' = [call EXCEPT ![p] = c]
        BY <2>7 DEF Recache
      <3> HIDE DEF c
      <3>3. Clean(e) /\ e = env => Leads(c, file[e], keychain)
        BY <2>3, <2>7, <3>1 DEF Recache, At, Leads, Removes
      <3> QED BY <1>1, <2>5, <2>7, <3>1, <3>2, <3>3, IdleIs, <2>1 DEF Recache, disk, WritePcs, Shaped, At, RenamePcs, Idle
    \* A deletion or a rename has nothing to tell of the references before its file goes.
    <2>9. \A c, f, kc : c.pc \in {"clear", "fetch", "moveStore", "moveErase", "moveCache", "unlink", "move"} =>
             Leads(c, f, kc)
      BY DEF Leads
    <2>10. CASE Erase(p)
      <3>1. PICK c : /\ call' = [call EXCEPT ![p] = c]
                     /\ c # Idle /\ c.pc = "forget" /\ c.env = env /\ c.to = call[p].to
                     /\ c.key = key /\ c.value = call[p].value /\ c.content = content
        BY <2>1, <2>10, GoesTo DEF Erase, WritePcs
      <3>2. key \in Keys /\ call[p].to = env
        BY <2>1, <2>10 DEF Erase, At, Shaped, WritePcs, RenamePcs
      <3>3. e # env => \A k \in Keys : keychain'[Address(e, k)] = keychain[Address(e, k)]
        BY <2>2, <2>10, <3>2, AddressesDiffer DEF Erase, Here, TypeInv, TypeOK
      <3>4. ASSUME Clean(e), e = env
            PROVE  Leads(c, file[e], keychain')
        <4>1. Resolves(e, content, keychain) /\ ~IsRef(content[key])
          BY <2>3, <2>10, <3>4 DEF Erase, At, Leads
        <4>2. \A k \in Keys \ {key} : keychain'[Address(e, k)] = keychain[Address(e, k)]
          BY <2>2, <2>10, <3>2, AddressesDiffer DEF Erase, Here, TypeInv, TypeOK
        <4>3. key \notin SecretKeys(content) /\ SecretKeys(content) \subseteq Keys
          BY <4>1 DEF SecretKeys
        <4>4. Resolves(e, content, keychain')
          BY <4>1, <4>2, <4>3 DEF Resolves
        <4> QED BY <3>1, <3>4, <4>1, <4>4 DEF Leads
      <3> QED BY <1>1, <2>5, <2>10, <3>1, <3>2, <3>3, <3>4 DEF Erase, WritePcs
    <2>11. CASE Forget(p)
      <3>1. PICK c : /\ call' = [call EXCEPT ![p] = c]
                     /\ c # Idle /\ c.pc = "persist" /\ c.env = env /\ c.to = call[p].to
                     /\ c.key = key /\ c.value = call[p].value /\ c.content = content
        BY <2>1, <2>11, GoesTo DEF Forget, WritePcs
      <3>2. key \in Keys /\ key # None /\ call[p].to = env
        BY <2>1, <2>11, NoneAssumption DEF Forget, At, Shaped, WritePcs, RenamePcs
      <3>3. Clean(e) /\ e = env => Leads(c, file[e], keychain)
        BY <2>3, <2>11, <3>1, <3>2 DEF Forget, At, Leads, Removes
      <3> QED BY <1>1, <2>5, <2>11, <3>1, <3>2, <3>3 DEF Forget, WritePcs, disk
    <2>12. CASE Persist(p)
      <3>1. call[p].to = env
        BY <2>1, <2>12 DEF Persist, At, Shaped, WritePcs, RenamePcs
      <3>2. ASSUME Clean(e), e = env
            PROVE  Resolves(e, content, keychain) /\ (~Removes(call[p]) => Resolves(e, file[e], keychain))
        BY <2>3, <2>12, <3>2 DEF Persist, At, Leads
      <3>3. CASE file' = [file EXCEPT ![env] = content]
        <4>1. file'[e] = IF e = env THEN content ELSE file[e]
          BY <3>3 DEF TypeInv, TypeOK
        <4>2. \A f : Resolves(e, f, keychain) => OwnRefs(e, f)
          BY DEF Resolves, OwnRefs
        <4> QED BY <1>1, <2>1, <2>4, <2>12, <3>1, <3>2, <4>1, <4>2, WorkKeeps, IdleIs DEF Persist, Return
      <3>4. CASE Mark("cut", IF Removes(call[p]) THEN {env} ELSE {}) /\ UNCHANGED file
        <4>1. Removes(call[p]) => ~(Clean(e)' /\ e = env)
          BY <3>4, MarksAre DEF Clean
        <4> QED BY <1>1, <2>5, <2>12, <3>1, <3>2, <3>4, <4>1, IdleIs DEF Persist, Return
      <3> QED BY <2>12, <3>3, <3>4 DEF Persist
    <2>13. CASE Clear(p)
      <3>1. PICK k \in call[p].todo :
              /\ keychain' \in {keychain, [keychain EXCEPT ![Address(env, k)] = None]}
              /\ call' = [call EXCEPT ![p].todo = @ \ {k}]
        BY <2>13 DEF Clear
      <3> DEFINE c == [call[p] EXCEPT !.todo = @ \ {k}]
      <3>2. c.pc = "clear" /\ c.env = env /\ c.to = call[p].to
        BY <2>1, <2>13 DEF Call, Clear, At
      <3>3. call' = [call EXCEPT ![p] = c]
        BY <3>1
      <3> HIDE DEF c
      <3>4. e \notin {env, call[p].to} => \A j \in Keys : keychain'[Address(e, j)] = keychain[Address(e, j)]
        BY <2>2, <3>1, AddressesDiffer DEF TypeInv, TypeOK
      <3>5. c # Idle /\ c.pc \in WritePcs /\ Leads(c, file[e], keychain')
        BY <2>9, <3>2 DEF Idle, WritePcs
      <3> QED BY <2>5, <2>13, <3>2, <3>3, <3>4, <3>5 DEF Clear
    <2>14. CASE Fetch(p)
      <3>1. PICK k \in call[p].todo :
              LET v == keychain[Address(env, k)]
                  rest == [call[p] EXCEPT !.todo = @ \ {k}]
              IN  \/ call' = [call EXCEPT ![p] = rest]
                  \/ call' = [call EXCEPT ![p] = [rest EXCEPT !.pc = "moveStore", !.key = k, !.value = v]]
        BY <2>14 DEF Fetch
      <3> DEFINE v == keychain[Address(env, k)]
                 rest == [call[p] EXCEPT !.todo = @ \ {k}]
                 next == [rest EXCEPT !.pc = "moveStore", !.key = k, !.value = v]
      <3>2. /\ rest.pc = "fetch" /\ rest.env = env /\ rest.to = call[p].to
            /\ next.pc = "moveStore" /\ next.env = env /\ next.to = call[p].to
        BY <2>1, <2>14 DEF Call, Fetch, At
      <3>3. PICK c : /\ call' = [call EXCEPT ![p] = c] /\ c.pc \in {"fetch", "moveStore"}
                     /\ c.env = env /\ c.to = call[p].to
        BY <3>1, <3>2
      <3>4. c # Idle /\ c.pc \in WritePcs /\ Leads(c, file[e], keychain)
        BY <2>9, <3>3 DEF Idle, WritePcs
      <3> QED BY <2>5, <2>14, <3>3, <3>4 DEF Fetch, disk
    \* The moves of a secret, and what follows once all secrets are gone.
    <2>15. ASSUME NEW pc \in {"moveErase", "moveCache", "unlink", "move"}, Goto(p, pc), UNCHANGED file,
                  e \notin {env, call[p].to} => \A j \in Keys : keychain'[Address(e, j)] = keychain[Address(e, j)]
           PROVE  RefsKept(e)'
      <3>1. pc \in WritePcs
        BY DEF WritePcs
      <3>2. PICK c : /\ call' = [call EXCEPT ![p] = c]
                     /\ c # Idle /\ c.pc = pc /\ c.env = env /\ c.to = call[p].to
        BY <2>1, <2>15, <3>1, GoesTo DEF WritePcs
      <3>3. Leads(c, file[e], keychain')
        BY <2>9, <3>2
      <3> QED BY <2>5, <2>15, <3>1, <3>2, <3>3
    <2>16. CASE MoveStore(p) \/ MoveErase(p)
      <3>1. key \in Keys
        BY <2>1, <2>16 DEF MoveStore, MoveErase, At, Shaped
      <3>2. e \notin {env, call[p].to} => \A j \in Keys : keychain'[Address(e, j)] = keychain[Address(e, j)]
        BY <2>2, <2>16, <3>1, AddressesDiffer DEF MoveStore, MoveErase, Here, TypeInv, TypeOK
      <3> QED BY <2>15, <2>16, <3>2 DEF MoveStore, MoveErase
    <2>17. CASE MoveCache(p)
      <3> DEFINE c == [call[p] EXCEPT !.pc = "fetch", !.key = None, !.value = None]
      <3>1. c.pc = "fetch" /\ c.env = env /\ c.to = call[p].to
        BY <2>1 DEF Call
      <3>2. call' = [call EXCEPT ![p] = c]
        BY <2>17 DEF MoveCache
      <3> HIDE DEF c
      <3>3. c # Idle /\ c.pc \in WritePcs /\ Leads(c, file[e], keychain)
        BY <2>9, <3>1 DEF Idle, WritePcs
      <3> QED BY <2>5, <2>17, <3>1, <3>2, <3>3 DEF MoveCache, disk
    <2>18. CASE ForgetAll(p)
      <3>1. Goto(p, "unlink") \/ Goto(p, "move")
        BY <2>18 DEF ForgetAll
      <3> QED BY <2>15, <2>18, <3>1 DEF ForgetAll, disk
    \* The call changes the files as its last step on them.
    <2>19. CASE Unlink(p)
      <3>1. call[p].to = env
        BY <2>1, <2>19 DEF Unlink, At, Shaped, WritePcs, RenamePcs
      <3>2. CASE file' = [file EXCEPT ![env] = None]
        <4>1. file'[e] = IF e = env THEN None ELSE file[e]
          BY <3>2 DEF TypeInv, TypeOK
        <4>2. OwnRefs(e, None) /\ Resolves(e, None, keychain)
          BY DEF OwnRefs, Resolves
        <4> QED BY <1>1, <2>1, <2>4, <2>19, <3>1, <4>1, <4>2, WorkKeeps, IdleIs DEF Unlink, Return
      <3>3. CASE Mark("cut", {env}) /\ UNCHANGED file
        <4>1. ~(Clean(e)' /\ e = env)
          BY <3>3, MarksAre DEF Clean
        <4> QED BY <2>5, <2>19, <3>1, <3>3, <4>1, IdleIs DEF Unlink, Return
      <3> QED BY <2>19, <3>2, <3>3 DEF Unlink
    <2>20. CASE Move(p)
      <3> DEFINE new == call[p].to
      <3>1. new # env
        BY <2>1, <2>20 DEF Move, At, Shaped, RenamePcs
      <3>2. CASE /\ file' = [file EXCEPT ![env] = None, ![new] = file[env]]
                 /\ << "renamed", new >> \in marks' /\ Goto(p, "activeCheck")
        <4>1. file'[e] = IF e = new THEN file[env] ELSE IF e = env THEN None ELSE file[e]
          BY <2>2, <3>2 DEF TypeInv, TypeOK
        <4>2. PICK c : /\ call' = [call EXCEPT ![p] = c]
                       /\ c # Idle /\ c.pc = "activeCheck" /\ c.env = env /\ c.to = new
          BY <2>1, <3>2, GoesTo DEF WritePcs
        <4>3. OwnRefs(e, None) /\ Leads(c, None, keychain)
          BY <4>2 DEF OwnRefs, Leads
        <4>4. ~(Clean(e)' /\ e = new)
          BY <3>2 DEF Clean
        <4>5. keychain' = keychain /\ c.pc \in WritePcs
          BY <2>20, <4>2 DEF Move, WritePcs
        <4> QED BY <1>1, <2>1, <2>4, <3>1, <4>1, <4>2, <4>3, <4>4, <4>5, WorkKeeps
      <3>3. CASE Mark("cut", {env, new}) /\ Return(p) /\ UNCHANGED file
        <4>1. ~(Clean(e)' /\ e \in {env, new})
          BY <3>3, MarksAre DEF Clean
        <4> QED BY <2>5, <2>20, <3>3, <4>1, IdleIs DEF Move, Return
      <3> QED BY <2>20, <3>2, <3>3 DEF Move
    <2>21. CASE ActiveCheck(p) \/ ActiveWrite(p)
      <3>1. << "renamed", call[p].to >> \in marks
        BY <2>21 DEF RenamedApart, ActiveCheck, ActiveWrite, At
      <3>2. << "renamed", call[p].to >> \in marks'
        BY <3>1, MarksStay
      <3>3. ~(Clean(e)' /\ e = call[p].to)
        BY <3>2 DEF Clean
      <3>4. Clean(e) /\ e = env => file[e] = None
        BY <2>3, <2>21 DEF Leads, ActiveCheck, ActiveWrite, At
      <3>5. Resolves(e, None, keychain)
        BY DEF Resolves
      <3>6. file' = file /\ keychain' = keychain
        BY <2>21 DEF ActiveCheck, ActiveWrite, disk
      <3>7. CASE Return(p)
        BY <1>1, <2>5, <3>3, <3>4, <3>5, <3>6, <3>7, IdleIs DEF Return
      <3>8. CASE Goto(p, "activeWrite")
        <4>1. PICK c : /\ call' = [call EXCEPT ![p] = c]
                       /\ c # Idle /\ c.pc = "activeWrite" /\ c.env = env /\ c.to = call[p].to
          BY <2>1, <3>8, GoesTo DEF WritePcs
        <4>2. Leads(c, None, keychain) /\ c.pc \in WritePcs
          BY <4>1 DEF Leads, WritePcs
        <4> QED BY <1>1, <2>5, <3>3, <3>4, <3>6, <4>1, <4>2
      <3> QED BY <2>21, <3>7, <3>8 DEF ActiveCheck, ActiveWrite
    <2> QED BY <1>3, <2>6, <2>7, <2>10, <2>11, <2>12, <2>13, <2>14, <2>16, <2>17, <2>18, <2>19, <2>20, <2>21
            DEF Continue
  <1> QED BY <1>2, <1>3

\* A call sets out from references that resolve.
LEMMA BegunLeads ==
    ASSUME TypeInv, NEW e \in Envs, NEW k \in Keys, file[e] # None, Resolves(e, file[e], keychain)
    PROVE  /\ \A v : Leads(Begun("store", e, k, v, [file[e] EXCEPT ![k] = Address(e, k)]), file[e], keychain)
           /\ IsRef(file[e][k]) => \A v : Leads(Begun("recache", e, k, v, file[e]), file[e], keychain)
           /\ \A v : Leads(Begun("persist", e, k, v, file[e]), file[e], keychain)
           /\ \A entry \in {Plain, None} : \A v :
                LET content == [file[e] EXCEPT ![k] = entry] IN
                /\ Leads(Begun("persist", e, None, v, content), file[e], keychain)
                /\ Leads(Begun("erase", e, k, v, content), file[e], keychain)
  <1> DEFINE f == file[e]
  <1>1. /\ f \in EnvFile /\ k # None
        /\ \A j \in Keys : IsRef(f[j]) => f[j] = Address(e, j) /\ keychain[Address(e, j)] # None
    BY SetTypes, NoneAssumption DEF Resolves, SecretKeys
  <1>2. \A entry : \A j \in Keys : [f EXCEPT ![k] = entry][j] = IF j = k THEN entry ELSE f[j]
    BY <1>1 DEF EnvFile
  <1>3. IsRef(Address(e, k)) /\ ~IsRef(Plain) /\ ~IsRef(None)
    BY AddressesDiffer DEF IsRef
  <1> HIDE DEF f
  <1>4. ASSUME NEW v
        PROVE  Leads(Begun("store", e, k, v, [f EXCEPT ![k] = Address(e, k)]), f, keychain)
    <2> DEFINE content == [f EXCEPT ![k] = Address(e, k)]
    <2>1. \A j \in Keys : content[j] = IF j = k THEN Address(e, k) ELSE f[j]
      BY <1>2
    <2> HIDE DEF content
    <2>2. \A j \in SecretKeys(content) \ {k} : content[j] = Address(e, j) /\ keychain[Address(e, j)] # None
      BY <1>1, <2>1 DEF SecretKeys
    <2>3. Resolves(e, f, keychain)
      BY DEF f
    <2> QED BY <2>1, <2>2, <2>3 DEF Begun, Leads, content
  <1>5. ASSUME IsRef(f[k]), NEW v
        PROVE  Leads(Begun("recache", e, k, v, f), f, keychain)
    BY <1>5 DEF Begun, Leads, f
  <1>6. ASSUME NEW v
        PROVE  Leads(Begun("persist", e, k, v, f), f, keychain)
    BY DEF Begun, Leads, f
  <1>7. ASSUME NEW entry \in {Plain, None}, NEW v
        PROVE  /\ Leads(Begun("persist", e, None, v, [f EXCEPT ![k] = entry]), f, keychain)
               /\ Leads(Begun("erase", e, k, v, [f EXCEPT ![k] = entry]), f, keychain)
    <2> DEFINE content == [f EXCEPT ![k] = entry]
    <2>1. \A j \in Keys : content[j] = IF j = k THEN entry ELSE f[j]
      BY <1>2
    <2> HIDE DEF content
    <2>2. Resolves(e, content, keychain) /\ ~IsRef(content[k])
      BY <1>1, <1>3, <2>1 DEF Resolves, SecretKeys
    <2>3. Resolves(e, f, keychain)
      BY DEF f
    <2>4. Leads(Begun("erase", e, k, v, content), f, keychain)
      BY <1>1, <2>2 DEF Begun, Leads, Removes
    <2>5. Leads(Begun("persist", e, None, v, content), f, keychain)
      BY <2>2, <2>3 DEF Begun, Leads
    <2> QED BY <2>4, <2>5 DEF content
  <1> QED BY <1>4, <1>5, <1>6, <1>7 DEF f

LEMMA EnterKeeps ==
    ASSUME TypeInv, NEW x \in Envs, RefsKept(x), NEW p \in Callers, Enter(p)
    PROVE  RefsKept(x)'
  \* A call that works on one environment only.
  <1>1. ASSUME NEW e \in Envs, NEW pc \in WritePcs, NEW k, NEW v, NEW content,
               Begin(p, {e}, Begun(pc, e, k, v, content)),
               Resolves(e, file[e], keychain) => Leads(Begun(pc, e, k, v, content), file[e], keychain)
        PROVE  RefsKept(x)'
    <2> DEFINE c == Begun(pc, e, k, v, content)
    <2>1. c.pc = pc /\ c.env = e /\ {e} = {c.env, c.to}
      BY DEF Begun
    <2> HIDE DEF c
    <2> QED BY <1>1, <2>1, BeginKeeps DEF c
  <1>2. {"store", "recache", "persist", "erase", "clear", "fetch"} \subseteq WritePcs
    BY DEF WritePcs
  <1>3. ASSUME NEW e \in Envs, CreateEnv(p, e)
        PROVE  RefsKept(x)'
    <2>1. Resolves(e, None, keychain) /\ Resolves(e, EmptyFile, keychain)
      BY DEF Resolves, EmptyFile, SecretKeys, IsRef
    <2>2. Leads(Begun("persist", e, None, None, EmptyFile), None, keychain)
      BY <2>1 DEF Begun, Leads
    <2> QED BY <1>1, <1>2, <1>3, <2>2 DEF CreateEnv
  <1>4. ASSUME NEW e \in Envs, DeleteEnv(p, e)
        PROVE  RefsKept(x)'
    <2> DEFINE c == [Begun("clear", e, None, None, EmptyFile) EXCEPT !.todo = SecretKeys(file[e])]
    <2>1. c.pc = "clear" /\ {e} = {c.env, c.to}
      BY DEF Begun
    <2>2. Begin(p, {e}, c)
      BY <1>4 DEF DeleteEnv
    <2> HIDE DEF c
    <2>3. Leads(c, file[x], keychain)
      BY <2>1 DEF Leads
    <2> QED BY <1>2, <2>1, <2>2, <2>3, BeginKeeps
  <1>5. ASSUME NEW e \in Envs, NEW new \in Envs, RenameEnv(p, e, new)
        PROVE  RefsKept(x)'
    <2> DEFINE c == [Begun("fetch", e, None, None, EmptyFile) EXCEPT !.to = new, !.todo = SecretKeys(file[e])]
    <2>1. c.pc = "fetch" /\ {e, new} = {c.env, c.to}
      BY DEF Begun
    <2>2. Begin(p, {e, new}, c)
      BY <1>5 DEF RenameEnv
    <2> HIDE DEF c
    <2>3. Leads(c, file[x], keychain)
      BY <2>1 DEF Leads
    <2> QED BY <1>2, <2>1, <2>2, <2>3, BeginKeeps
  <1>6. ASSUME NEW e \in Envs, NEW k \in Keys, NEW v \in Values, SetSecret(p, e, k, v)
        PROVE  RefsKept(x)'
    BY <1>1, <1>2, <1>6, BegunLeads DEF SetSecret
  <1>7. ASSUME NEW e \in Envs, NEW k \in Keys, ResaveReference(p, e, k) \/ KeepSecret(p, e, k)
        PROVE  RefsKept(x)'
    BY <1>1, <1>2, <1>7, BegunLeads DEF ResaveReference, KeepSecret
  <1>8. ASSUME NEW e \in Envs, NEW k \in Keys, NEW entry \in {Plain, None}, file[e] # None,
               Overwrite(p, e, k, entry)
        PROVE  RefsKept(x)'
    <2> DEFINE content == [file[e] EXCEPT ![k] = entry]
    <2>1. \/ Begin(p, {e}, Begun("erase", e, k, None, content))
          \/ Begin(p, {e}, Begun("persist", e, None, None, content))
      BY <1>8 DEF Overwrite
    <2>2. Resolves(e, file[e], keychain) =>
            /\ Leads(Begun("erase", e, k, None, content), file[e], keychain)
            /\ Leads(Begun("persist", e, None, None, content), file[e], keychain)
      BY <1>8, BegunLeads
    <2> HIDE DEF content
    <2> QED BY <1>1, <1>2, <2>1, <2>2
  <1>9. ASSUME NEW e \in Envs, NEW k \in Keys, Resolve(p, e, k)
        PROVE  RefsKept(x)'
    <2> DEFINE c == Begun("lookup", e, k, None, file[e])
    <2>1. call' = [call EXCEPT ![p] = c] /\ c.pc = "lookup" /\ call[p].pc = "idle"
      BY <1>9 DEF Resolve, Begun, At
    <2> HIDE DEF c
    <2>2. \A q \in Callers : call[q].pc \in WritePcs \/ call'[q].pc \in WritePcs => call'[q] = call[q]
      BY <2>1 DEF WritePcs, TypeInv, TypeOK
    <2> QED BY <1>9, <2>2, OthersKeep DEF Resolve, disk, Clean
  <1> QED BY <1>3, <1>4, <1>5, <1>6, <1>7, <1>8, <1>9 DEF Enter, SetPlain, DeleteVar

LEMMA RestKeeps ==
    ASSUME TypeInv, TypeInv', NEW e \in Envs, RefsKept(e),
           \/ \E p \in Callers, x \in Envs \union {None} : SetActive(p, x)
           \/ InvalidateCache
           \/ Restart
           \/ UNCHANGED vars
    PROVE  RefsKept(e)'
  <1>1. CASE (\E p \in Callers, x \in Envs \union {None} : SetActive(p, x)) \/ UNCHANGED vars
    <2>1. marks \subseteq marks' /\ call' = call /\ file' = file /\ keychain' = keychain
      BY <1>1 DEF SetActive, vars
    <2> QED BY <2>1, OthersKeep DEF Clean
  <1>2. CASE InvalidateCache
    <2>1. \A w, x : w # "raced" /\ << w, x >> \in marks => << w, x >> \in marks'
      BY <1>2 DEF InvalidateCache, Unraced
    <2>2. Clean(e)' => Clean(e)
      BY <2>1 DEF Clean
    <2> QED BY <1>2, <2>2, OthersKeep DEF InvalidateCache, disk
  <1>3. CASE Restart
    <2>1. /\ \A w, x : w # "raced" /\ << w, x >> \in marks => << w, x >> \in marks'
          /\ \A q \in Callers : Writing(q, e) /\ Removing(call[q]) => << "cut", e >> \in marks'
          /\ \A q \in Callers : call'[q] = Idle
          /\ file' = file /\ keychain' = keychain
      BY <1>3 DEF Restart, Unraced, disk
    <2>2. Clean(e)' => Clean(e) /\ \A q \in Callers : Writing(q, e) => ~Removing(call[q])
      BY <2>1 DEF Clean
    <2>3. \A q \in Callers : ~Writing(q, e)'
      BY <2>1 DEF Writing, Idle, WritePcs
    \* A call that takes nothing away has the references of the file resolve all along.
    <2>4. ASSUME Clean(e)' PROVE OwnRefs(e, file[e]) /\ Resolves(e, file[e], keychain)
      <3>1. CASE Free(e)
        BY <2>2, <2>4, <3>1 DEF RefsKept
      <3>2. ASSUME NEW q \in Callers, Writing(q, e) PROVE OwnRefs(e, file[e]) /\ Resolves(e, file[e], keychain)
        <4>1. ~Removing(call[q]) /\ call[q].pc \in WritePcs
          BY <2>2, <2>4, <3>2 DEF Writing
        <4>2. call[q].pc \in {"store", "recache", "persist", "erase", "forget"}
              /\ (call[q].pc \in {"persist", "erase", "forget"} => ~Removes(call[q]))
          BY <4>1 DEF Removing, WritePcs
        <4>3. call[q].env = e
          BY <3>2, <4>2 DEF Writing, TypeInv, Shaped, RenamePcs, WritePcs
        <4>4. Leads(call[q], file[e], keychain) /\ OwnRefs(e, file[e])
          BY <2>2, <2>4, <3>2, <4>3 DEF RefsKept
        <4>5. call[q].pc \in {"store", "recache", "erase", "forget"} => call[q].key \in Keys /\ call[q].key # None
          BY NoneAssumption DEF TypeInv, Shaped
        <4>6. call[q].pc \in {"store", "recache", "persist"}
          BY <4>2, <4>4, <4>5 DEF Leads, Removes
        <4>7. ~Removes(call[q])
          <5>1. CASE call[q].pc = "store"
            <6>1. call[q].content[call[q].key] = Address(e, call[q].key)
              BY <4>3, <4>4, <5>1 DEF Leads
            <6> QED BY <4>5, <5>1, <6>1, AddressesDiffer DEF Removes
          <5>2. CASE call[q].pc = "recache"
            BY <4>4, <5>2 DEF Leads, Removes
          <5> QED BY <4>2, <4>6, <5>1, <5>2
        <4> QED BY <4>3, <4>4, <4>6, <4>7 DEF Leads
      <3> QED BY <3>1, <3>2 DEF Free
    <2>5. OwnRefs(e, file'[e]) = OwnRefs(e, file[e]) /\ Resolves(e, file'[e], keychain') = Resolves(e, file[e], keychain)
      BY <2>1
    <2>6. RefsKept(e)' <=>
            (Clean(e)' =>
              /\ \A p, q \in Callers : Writing(p, e)' /\ Writing(q, e)' => p = q
              /\ OwnRefs(e, file'[e])
              /\ Free(e)' => Resolves(e, file'[e], keychain')
              /\ \A p \in Callers : Writing(p, e)' /\ call'[p].env = e => Leads(call'[p], file'[e], keychain'))
      BY DEF RefsKept, OwnRefs, Resolves, Leads, SecretKeys, Address, IsRef, Removes
    <2> QED BY <2>3, <2>4, <2>5, <2>6
  <1> QED BY <1>1, <1>2, <1>3

\* How a call sets out.
Starts(p) ==
    /\ marks \subseteq marks' /\ UNCHANGED << file, keychain, active, secrets >> /\ At(p, "idle")
    /\ \E c : /\ call' = [call EXCEPT ![p] = c]
              /\ c.pc \in {"persist", "store", "recache", "erase", "clear", "fetch", "lookup"}

LEMMA EnterStarts ==
    ASSUME NEW p \in Callers, Enter(p)
    PROVE  Starts(p)
  <1>1. ASSUME NEW es, NEW c, Begin(p, es, c),
               c.pc \in {"persist", "store", "recache", "erase", "clear", "fetch"}
        PROVE  Starts(p)
    BY <1>1 DEF Begin, Starts, disk
  <1>2. \A pc, e, k, v, content, to, todo :
          /\ Begun(pc, e, k, v, content).pc = pc
          /\ [Begun(pc, e, k, v, content) EXCEPT !.todo = todo].pc = pc
          /\ [Begun(pc, e, k, v, content) EXCEPT !.to = to, !.todo = todo].pc = pc
    BY DEF Begun
  <1>3. ASSUME NEW e \in Envs, CreateEnv(p, e) \/ DeleteEnv(p, e)
        PROVE  Starts(p)
    <2>1. CASE CreateEnv(p, e)
      BY <1>1, <1>2, <2>1 DEF CreateEnv
    <2>2. CASE DeleteEnv(p, e)
      <3> DEFINE c == [Begun("clear", e, None, None, EmptyFile) EXCEPT !.todo = SecretKeys(file[e])]
      <3>1. c.pc = "clear" /\ Begin(p, {e}, c)
        BY <1>2, <2>2 DEF DeleteEnv
      <3> HIDE DEF c
      <3> QED BY <1>1, <3>1
    <2> QED BY <1>3, <2>1, <2>2
  <1>4. ASSUME NEW e \in Envs, NEW new \in Envs, RenameEnv(p, e, new)
        PROVE  Starts(p)
    <2> DEFINE c == [Begun("fetch", e, None, None, EmptyFile) EXCEPT !.to = new, !.todo = SecretKeys(file[e])]
    <2>1. c.pc = "fetch" /\ Begin(p, {e, new}, c)
      BY <1>2, <1>4 DEF RenameEnv
    <2> HIDE DEF c
    <2> QED BY <1>1, <2>1
  <1>5. ASSUME NEW e \in Envs, NEW k \in Keys, NEW v \in Values, SetSecret(p, e, k, v)
        PROVE  Starts(p)
    BY <1>1, <1>2, <1>5 DEF SetSecret
  <1>6. ASSUME NEW e \in Envs, NEW k \in Keys, ResaveReference(p, e, k) \/ KeepSecret(p, e, k)
        PROVE  Starts(p)
    BY <1>1, <1>2, <1>6 DEF ResaveReference, KeepSecret
  <1>7. ASSUME NEW e \in Envs, NEW k \in Keys, SetPlain(p, e, k) \/ DeleteVar(p, e, k)
        PROVE  Starts(p)
    BY <1>1, <1>2, <1>7 DEF SetPlain, DeleteVar, Overwrite
  <1>8. ASSUME NEW e \in Envs, NEW k \in Keys, Resolve(p, e, k)
        PROVE  Starts(p)
    <2> DEFINE c == Begun("lookup", e, k, None, file[e])
    <2>1. c.pc = "lookup" /\ call' = [call EXCEPT ![p] = c]
      BY <1>2, <1>8 DEF Resolve
    <2> HIDE DEF c
    <2> QED BY <1>8, <2>1 DEF Resolve, Starts, disk
  <1> QED BY <1>3, <1>4, <1>5, <1>6, <1>7, <1>8 DEF Enter

LEMMA RenamedApartStays ==
    ASSUME TypeInv, RenamedApart, [Next]_vars
    PROVE  RenamedApart'
  <1> DEFINE Late == {"activeCheck", "activeWrite"}
  <1>1. ASSUME \A w, x : w = "renamed" /\ << w, x >> \in marks => << w, x >> \in marks',
               \A q \in Callers : call'[q].pc \in Late =>
                  \/ call[q].pc \in Late /\ call'[q].to = call[q].to
                  \/ << "renamed", call'[q].to >> \in marks'
        PROVE  RenamedApart'
    BY <1>1 DEF RenamedApart
  <1>2. ASSUME NEW p \in Callers, Enter(p)
        PROVE  RenamedApart'
    <2>1. PICK c : call' = [call EXCEPT ![p] = c] /\ c.pc \notin Late
      BY <1>2, EnterStarts DEF Starts
    <2> QED BY <1>1, <1>2, <2>1, EnterStarts DEF Starts, TypeInv, TypeOK
  <1>3. ASSUME NEW p \in Callers, Continue(p)
        PROVE  RenamedApart'
    <2>1. \A w, x : w = "renamed" /\ << w, x >> \in marks => << w, x >> \in marks'
      BY <1>3, MarksStay
    <2>2. ASSUME NEW c, call' = [call EXCEPT ![p] = c],
                 \/ c.pc \notin Late
                 \/ call[p].pc \in Late /\ c.to = call[p].to
                 \/ << "renamed", c.to >> \in marks'
          PROVE  RenamedApart'
      BY <1>1, <2>1, <2>2 DEF TypeInv, TypeOK
    <2>3. CASE Return(p)
      BY <2>2, <2>3, IdleIs DEF Return
    <2>4. ASSUME NEW pc \in WritePcs, Goto(p, pc), call[p].pc # "idle",
                 pc \notin Late \/ call[p].pc \in Late \/ << "renamed", call[p].to >> \in marks'
          PROVE  RenamedApart'
      <3>1. PICK c : call' = [call EXCEPT ![p] = c] /\ c.pc = pc /\ c.to = call[p].to
        BY <2>4, GoesTo
      <3> QED BY <2>2, <2>4, <3>1
    <2>5. {"recache", "forget", "persist", "moveErase", "moveCache", "unlink", "move", "activeCheck", "activeWrite"}
            \subseteq WritePcs
      BY DEF WritePcs
    <2>6. CASE StoreSecret(p) \/ Erase(p) \/ Forget(p) \/ Persist(p) \/ MoveStore(p) \/ MoveErase(p) \/ Unlink(p)
               \/ Remember(p)
      BY <2>3, <2>4, <2>5, <2>6 DEF StoreSecret, Erase, Forget, Persist, MoveStore, MoveErase, Unlink, Remember, At
    <2>7. CASE ForgetAll(p)
      BY <2>4, <2>5, <2>7 DEF ForgetAll, At
    <2>8. CASE Move(p)
      BY <2>3, <2>4, <2>5, <2>8 DEF Move, At
    <2>9. CASE ActiveCheck(p) \/ ActiveWrite(p)
      BY <2>3, <2>4, <2>5, <2>9 DEF ActiveCheck, ActiveWrite, At
    <2>10. CASE Recache(p) \/ Clear(p) \/ Fetch(p) \/ MoveCache(p) \/ Lookup(p)
      <3>1. call[p] \in Call /\ call[p].pc \notin Late
        BY <2>10, AtWork DEF Recache, Clear, Fetch, MoveCache, Lookup, At
      <3>2. \A todo : LET rest == [call[p] EXCEPT !.todo = todo] IN
              /\ rest.pc = call[p].pc
              /\ \A k, v : [rest EXCEPT !.pc = "moveStore", !.key = k, !.value = v].pc = "moveStore"
        BY <3>1 DEF Call
      <3>3. \A v : [call[p] EXCEPT !.pc = "remember", !.value = v].pc = "remember"
        BY <3>1 DEF Call
      <3>4. CASE Clear(p) \/ Fetch(p)
        BY <2>2, <3>1, <3>2, <3>4 DEF Clear, Fetch
      <3>5. CASE Recache(p) \/ MoveCache(p) \/ Lookup(p)
        <4>1. \/ Return(p)
              \/ \E c : call' = [call EXCEPT ![p] = c] /\ c.pc \in {"persist", "fetch", "remember"}
          <5>1. CASE Recache(p)
            <6> DEFINE c == [call[p] EXCEPT !.pc = "persist", !.value = None]
            <6>1. c.pc = "persist"
              BY <3>1 DEF Call
            <6>2. call' = [call EXCEPT ![p] = c]
              BY <5>1 DEF Recache
            <6> HIDE DEF c
            <6> QED BY <6>1, <6>2
          <5>2. CASE MoveCache(p)
            <6> DEFINE c == [call[p] EXCEPT !.pc = "fetch", !.key = None, !.value = None]
            <6>1. c.pc = "fetch"
              BY <3>1 DEF Call
            <6>2. call' = [call EXCEPT ![p] = c]
              BY <5>2 DEF MoveCache
            <6> HIDE DEF c
            <6> QED BY <6>1, <6>2
          <5>3. CASE Lookup(p)
            <6> DEFINE v == keychain[call[p].content[call[p].key]]
            <6>1. Return(p) \/ call' = [call EXCEPT ![p] = [call[p] EXCEPT !.pc = "remember", !.value = v]]
              BY <5>3 DEF Lookup
            <6> HIDE DEF v
            <6> QED BY <3>3, <6>1
          <5> QED BY <3>5, <5>1, <5>2, <5>3
        <4> QED BY <2>2, <2>3, <4>1
      <3> QED BY <2>10, <3>4, <3>5
    <2> QED BY <1>3, <2>6, <2>7, <2>8, <2>9, <2>10 DEF Continue
  <1>4. ASSUME \/ \E p \in Callers, x \in Envs \union {None} : SetActive(p, x)
               \/ InvalidateCache
               \/ UNCHANGED vars
        PROVE  RenamedApart'
    BY <1>1, <1>4 DEF SetActive, InvalidateCache, Unraced, vars
  <1>5. CASE Restart
    <2>1. \A q \in Callers : call'[q].pc = "idle"
      BY <1>5, IdleIs DEF Restart
    <2> QED BY <2>1 DEF RenamedApart
  <1> QED BY <1>2, <1>3, <1>4, <1>5 DEF Next

LEMMA OthersStay ==
    ASSUME TypeInv, NEW p \in Callers, Continue(p)
    PROVE  \A q \in Callers \ {p} : call'[q] = call[q]
  <1>1. \A c : call' = [call EXCEPT ![p] = c] => \A q \in Callers \ {p} : call'[q] = call[q]
    BY DEF TypeInv, TypeOK
  <1>2. \E c : call' = [call EXCEPT ![p] = c]
    <2>1. CASE Fetch(p)
      BY <2>1 DEF Fetch
    <2>2. CASE ~Fetch(p)
      BY <2>2 DEF Continue, StoreSecret, Recache, Erase, Forget, Persist, Clear, MoveStore,
         MoveErase, MoveCache, ForgetAll, Unlink, Move, ActiveCheck, ActiveWrite, Lookup, Remember, Goto, Return
    <2> QED BY <2>1, <2>2
  <1> QED BY <1>1, <1>2

LEMMA ActiveThereStays ==
    ASSUME TypeInv, TypeInv', ActiveThere, [Next]_vars
    PROVE  ActiveThere'
  <1> DEFINE Late == {"activeCheck", "activeWrite"}
  \* The pointer stays, and so do the marks, the file and the calls that it may rest on.
  <1>1. ASSUME active' = active,
               \A w \in {"overlap", "cut"} : << w, active >> \in marks => << w, active >> \in marks',
               active # None /\ << "deleted", active >> \in marks =>
                 << "deleted", active >> \in marks' \/ file'[active] # None,
               active # None /\ file[active] # None =>
                 \/ file'[active] # None \/ << "deleted", active >> \in marks'
                 \/ \E q \in Callers : call'[q].pc \in Late /\ call'[q].env = active,
               \A q \in Callers : call[q].pc \in Late /\ call[q].env = active =>
                 \/ call'[q].pc \in Late /\ call'[q].env = active
                 \/ << "cut", active >> \in marks'
        PROVE  ActiveThere'
    BY <1>1 DEF ActiveThere
  <1>2. ASSUME NEW p \in Callers, Enter(p)
        PROVE  ActiveThere'
    <2>1. \A q \in Callers : call[q].pc \in Late => call'[q] = call[q]
      BY <1>2, EnterStarts DEF Starts, At, TypeInv, TypeOK
    <2> QED BY <1>1, <1>2, <2>1, EnterStarts DEF Starts
  <1>3. ASSUME NEW p \in Callers, Continue(p)
        PROVE  ActiveThere'
    <2>1. \A w \in {"overlap", "cut"} : << w, active >> \in marks => << w, active >> \in marks'
      BY <1>3, MarksStay
    <2>2. \A q \in Callers \ {p} : call'[q] = call[q]
      BY <1>3, OthersStay
    <2>3. CASE Persist(p)
      <3>1. call[p].pc \notin Late /\ active' = active /\ call[p].env \in Envs
        BY <2>3, AtWork DEF Persist, At, Call
      <3>2. CASE file' = [file EXCEPT ![call[p].env] = call[p].content] /\ marks' = marks \ {<<"deleted", call[p].env>>}
        <4>1. call[p].content # None
          BY <2>3, AtWork, NoneAssumption DEF Persist, At, Call, EnvFile, Refs
        <4>2. file'[call[p].env] # None /\ \A e \in Envs \ {call[p].env} : file'[e] = file[e]
          BY <3>1, <3>2, <4>1 DEF TypeInv, TypeOK
        <4> QED BY <1>1, <2>1, <2>2, <3>1, <3>2, <4>2 DEF TypeInv, TypeOK
      <3>3. CASE file' = file /\ marks \subseteq marks'
        BY <1>1, <2>2, <3>1, <3>3
      <3> QED BY <2>3, <3>2, <3>3 DEF Persist, Mark
    <2>4. CASE Unlink(p)
      <3>1. call[p].pc \notin Late /\ active' = active /\ marks \subseteq marks'
        BY <2>4 DEF Unlink, At, Mark
      <3>2. \A e \in Envs : file[e] # None => file'[e] # None \/ << "deleted", e >> \in marks'
        BY <2>4 DEF Unlink, Mark, TypeInv, TypeOK
      <3> QED BY <1>1, <2>2, <3>1, <3>2 DEF TypeInv, TypeOK
    <2>5. CASE Move(p)
      <3> DEFINE env == call[p].env
                 new == call[p].to
      <3>1. call[p].pc \notin Late /\ active' = active /\ call[p] \in Call /\ env \in Envs /\ new \in Envs /\ new # env
        BY <2>5, AtWork DEF Move, At, Call, Shaped, RenamePcs
      <3>2. CASE /\ file[env] # None /\ file' = [file EXCEPT ![env] = None, ![new] = file[env]]
                 /\ marks' = (marks \ {<<"deleted", new>>}) \union {<<"renamed", new>>}
                 /\ Goto(p, "activeCheck")
        <4>1. \A e \in Envs : file'[e] = IF e = new THEN file[env] ELSE IF e = env THEN None ELSE file[e]
          BY <3>1, <3>2 DEF TypeInv, TypeOK
        <4>2. call'[p].pc \in Late /\ call'[p].env = env
          <5>1. PICK c : call' = [call EXCEPT ![p] = c] /\ c.pc = "activeCheck" /\ c.env = env
            BY <2>5, <3>2, GoesTo DEF Move, At, WritePcs
          <5> QED BY <5>1 DEF TypeInv, TypeOK
        <4> QED BY <1>1, <2>1, <2>2, <3>1, <3>2, <4>1, <4>2 DEF TypeInv, TypeOK
      <3>3. CASE file' = file /\ marks \subseteq marks'
        BY <1>1, <2>2, <3>1, <3>3
      <3> QED BY <2>5, <3>2, <3>3 DEF Move, Mark
    <2>6. CASE ActiveCheck(p)
      <3>1. file' = file /\ active' = active /\ marks \subseteq marks'
        BY <2>6 DEF ActiveCheck, disk, Mark
      <3>2. CASE active = call[p].env /\ Goto(p, "activeWrite")
        <4>1. PICK c : call' = [call EXCEPT ![p] = c] /\ c.pc = "activeWrite" /\ c.env = call[p].env
          BY <2>6, <3>2, GoesTo DEF ActiveCheck, At, WritePcs
        <4>2. call'[p] = c
          BY <4>1 DEF TypeInv, TypeOK
        <4> QED BY <1>1, <2>2, <3>1, <4>1, <4>2
      <3>3. CASE active # call[p].env
        BY <1>1, <2>2, <3>1, <3>3
      <3>4. CASE Mark("cut", {call[p].env})
        <4>1. << "cut", call[p].env >> \in marks'
          BY <3>4, MarksAre
        <4> QED BY <1>1, <2>2, <3>1, <4>1
      <3> QED BY <2>6, <3>2, <3>3, <3>4 DEF ActiveCheck
    <2>7. CASE ActiveWrite(p)
      <3>1. CASE file[call[p].to] # None /\ active' = call[p].to
        BY <2>7, <3>1 DEF ActiveWrite, ActiveThere
      <3>2. CASE Mark("cut", {call[p].env}) /\ UNCHANGED active
        <4>1. << "cut", call[p].env >> \in marks' /\ marks \subseteq marks'
          BY <3>2, MarksAre DEF Mark
        <4> QED BY <1>1, <2>2, <2>7, <3>2, <4>1 DEF ActiveWrite
      <3> QED BY <2>7, <3>1, <3>2 DEF ActiveWrite
    <2>8. CASE ~(Persist(p) \/ Unlink(p) \/ Move(p) \/ ActiveCheck(p) \/ ActiveWrite(p))
      <3>1. file' = file /\ active' = active /\ marks \subseteq marks' /\ call[p].pc \notin Late
        BY <1>3, <2>8 DEF Continue, StoreSecret, Recache, Erase, Forget, Clear, Fetch, MoveStore,
           MoveErase, MoveCache, ForgetAll, Lookup, Remember, At, disk
      <3> QED BY <1>1, <2>2, <3>1
    <2> QED BY <2>3, <2>4, <2>5, <2>6, <2>7, <2>8
  <1>4. ASSUME NEW p \in Callers, NEW e \in Envs \union {None}, SetActive(p, e)
        PROVE  ActiveThere'
    BY <1>4 DEF SetActive, ActiveThere
  <1>5. CASE InvalidateCache
    <2>1. \A w, x : w # "raced" /\ << w, x >> \in marks => << w, x >> \in marks'
      BY <1>5 DEF InvalidateCache, Unraced
    <2> QED BY <1>1, <1>5, <2>1 DEF InvalidateCache, disk
  <1>6. CASE Restart
    <2>1. /\ \A w, x : w # "raced" /\ << w, x >> \in marks => << w, x >> \in marks'
          /\ \A x \in Envs, q \in Callers : Writing(q, x) /\ Removing(call[q]) => << "cut", x >> \in marks'
      BY <1>6 DEF Restart, Unraced
    <2>2. \A q \in Callers : call[q].pc \in Late =>
            Writing(q, call[q].env) /\ Removing(call[q]) /\ call[q].env \in Envs
      BY AtWork DEF Writing, WritePcs, Call, Removing
    <2> QED BY <1>1, <1>6, <2>1, <2>2 DEF Restart, disk
  <1>7. CASE UNCHANGED vars
    BY <1>7 DEF vars, ActiveThere
  <1> QED BY <1>2, <1>3, <1>4, <1>5, <1>6, <1>7 DEF Next

LEMMA InitStoreInv == Init => StoreInv
  <1> SUFFICES ASSUME Init
               PROVE  StoreInv
    OBVIOUS
  <1>1. \A p \in Callers : call[p].pc = "idle"
    BY IdleIs DEF Init
  <1>2. RenamedApart /\ ActiveThere
    BY <1>1 DEF Init, RenamedApart, ActiveThere
  <1>3. \A e \in Envs : RefsKept(e)
    BY <1>1 DEF Init, RefsKept, OwnRefs, Resolves, Writing, WritePcs
  <1> QED BY <1>2, <1>3, InitTypeInv DEF StoreInv

LEMMA NextStoreInv == StoreInv /\ [Next]_vars => StoreInv'
  <1> SUFFICES ASSUME StoreInv, [Next]_vars
               PROVE  StoreInv'
    OBVIOUS
  <1>1. TypeInv /\ TypeInv' /\ RenamedApart' /\ ActiveThere'
    BY NextTypeInv, RenamedApartStays, ActiveThereStays DEF StoreInv
  <1>2. ASSUME NEW e \in Envs
        PROVE  RefsKept(e)'
    <2>1. RefsKept(e) /\ RenamedApart
      BY DEF StoreInv
    <2> QED BY <1>1, <2>1, EnterKeeps, ContinueKeeps, RestKeeps DEF Next
  <1> QED BY <1>1, <1>2 DEF StoreInv

\* No reference dangles and the active environment is there, whatever tasks interleave,
\* keychain accesses fail and restarts there are, for what no exception is made of.
THEOREM ReferencesLead == Spec => []ReferencesResolve
  <1>1. ASSUME StoreInv
        PROVE  ReferencesResolve
    <2>1. ASSUME NEW e \in Envs, Settled(e, {"overlap", "cut", "renamed"}), file[e] # None, NEW k \in SecretKeys(file[e])
          PROVE  file[e][k] = Address(e, k) /\ keychain[Address(e, k)] # None
      <3>1. Clean(e) /\ Free(e)
        BY <2>1 DEF Settled, Clean, Free
      <3> QED BY <1>1, <2>1, <3>1 DEF StoreInv, RefsKept, Resolves
    <2>2. ActiveExists
      <3> SUFFICES ASSUME active # None, Settled(active, {"overlap", "cut", "deleted"}), file[active] = None
                   PROVE  FALSE
        BY DEF ActiveExists
      <3>1. PICK p \in Callers : call[p].pc \in {"activeCheck", "activeWrite"} /\ call[p].env = active
        BY <1>1 DEF StoreInv, ActiveThere, Settled
      <3> QED BY <3>1 DEF Settled, Writing, WritePcs
    <2> QED BY <2>1, <2>2 DEF ReferencesResolve
  <1> QED BY <1>1, InitStoreInv, NextStoreInv, PTL DEF Spec

-----------------------------------------------------------------------------
(* Cached secrets                                                          *)

\* In the cache ss, a secret of e is the keychain's.
Fresh(e, k, kc, ss) == ss[Address(e, k)] \in {None, RefText, kc[Address(e, k)]}

\* What a call at work on its environment knows of the secrets cached for it.
Knows(c, kc, ss) ==
    LET e == c.env IN
    /\ c.pc \in {"store", "persist", "erase", "unlink", "move", "activeCheck", "activeWrite"} =>
         \A k \in Keys : Fresh(e, k, kc, ss)
    /\ c.pc \in {"recache", "forget"} => \A k \in Keys \ {c.key} : Fresh(e, k, kc, ss)

\* A call is about to cache what it has stored, a resolver looks where the secret is.
Brings(c, kc) ==
    /\ c.pc = "recache" => c.value \in {RefText, kc[Address(c.env, c.key)]}
    /\ c.pc = "lookup" => c.content[c.key] = Address(c.env, c.key)

\* The cache has what the keychain has, and so have the calls at work on e and those that
\* have looked for one of its secrets.
SecretsKnown(e) ==
    Clean(e) =>
      /\ \A p \in Callers : call[p].pc # "idle" /\ call[p].env = e => Brings(call[p], keychain)
      /\ << "raced", e >> \notin marks =>
           /\ \A p \in Callers : At(p, "remember") /\ call[p].env = e => call[p].value = keychain[Here(p)]
           /\ Free(e) => \A k \in Keys : Fresh(e, k, keychain, secrets)
           /\ \A p \in Callers : Writing(p, e) /\ call[p].env = e => Knows(call[p], keychain, secrets)

CacheInv == StoreInv /\ \A e \in Envs : SecretsKnown(e)

\* The promise after a step, spelled out.
LEMMA KnownNext ==
    ASSUME NEW e \in Envs, Clean(e)' => Clean(e),
           << "raced", e >> \in marks => << "raced", e >> \in marks',
           Clean(e)' =>
             /\ \A q \in Callers : call'[q].pc # "idle" /\ call'[q].env = e => Brings(call'[q], keychain')
             /\ << "raced", e >> \notin marks' =>
                  /\ \A q \in Callers : call'[q].pc = "remember" /\ call'[q].env = e =>
                       call'[q].value = keychain'[Address(e, call'[q].key)]
                  /\ Free(e)' => \A k \in Keys : Fresh(e, k, keychain', secrets')
                  /\ \A q \in Callers : Writing(q, e)' /\ call'[q].env = e => Knows(call'[q], keychain', secrets')
    PROVE  SecretsKnown(e)'
  BY DEF SecretsKnown, Brings, Knows, Fresh, Here, At, Address

\* A cache that is fresh stays so while neither it nor the keychain changes.
LEMMA SameKnows ==
    ASSUME NEW e \in Envs, NEW kc, NEW kc2, NEW ss, NEW ss2,
           \A k \in Keys : kc2[Address(e, k)] = kc[Address(e, k)] /\ ss2[Address(e, k)] = ss[Address(e, k)]
    PROVE  /\ \A k \in Keys : Fresh(e, k, kc, ss) => Fresh(e, k, kc2, ss2)
           /\ \A c : c.env = e /\ Knows(c, kc, ss) => Knows(c, kc2, ss2)
  BY DEF Fresh, Knows

\* A step of the call p at work, which goes on as c or ends.
LEMMA WorkKnows ==
    ASSUME TypeInv, NEW e \in Envs, RefsKept(e), SecretsKnown(e), Clean(e)' => Clean(e),
           << "raced", e >> \in marks => << "raced", e >> \in marks',
           NEW p \in Callers, call[p].pc \in WritePcs,
           NEW c, call' = [call EXCEPT ![p] = c],
           c = Idle \/ (c.pc \in WritePcs /\ c.env = call[p].env /\ c.to = call[p].to),
           ~Writing(p, e) => \A k \in Keys : /\ keychain'[Address(e, k)] = keychain[Address(e, k)]
                                             /\ secrets'[Address(e, k)] = secrets[Address(e, k)],
           << "raced", e >> \notin marks' =>
             \A q \in Callers \ {p} : At(q, "remember") /\ call[q].env = e => keychain'[Here(q)] = keychain[Here(q)],
           Clean(e)' /\ e = call[p].env /\ c # Idle => Brings(c, keychain'),
           Clean(e)' /\ << "raced", e >> \notin marks' /\ e = call[p].env =>
             /\ c = Idle => \A k \in Keys : Fresh(e, k, keychain', secrets')
             /\ c # Idle => Knows(c, keychain', secrets'),
           Clean(e)' /\ e = call[p].to /\ e # call[p].env => c # Idle
    PROVE  SecretsKnown(e)'
  <1> SUFFICES ASSUME Clean(e)'
               PROVE  /\ \A q \in Callers : call'[q].pc # "idle" /\ call'[q].env = e => Brings(call'[q], keychain')
                      /\ << "raced", e >> \notin marks' =>
                           /\ \A q \in Callers : call'[q].pc = "remember" /\ call'[q].env = e =>
                                call'[q].value = keychain'[Address(e, call'[q].key)]
                           /\ Free(e)' => \A k \in Keys : Fresh(e, k, keychain', secrets')
                           /\ \A q \in Callers : Writing(q, e)' /\ call'[q].env = e =>
                                Knows(call'[q], keychain', secrets')
    BY KnownNext
  <1>1. /\ Clean(e) /\ \A q, r \in Callers : Writing(q, e) /\ Writing(r, e) => q = r
        /\ \A q \in Callers : call[q].pc # "idle" /\ call[q].env = e => Brings(call[q], keychain)
    BY DEF RefsKept, SecretsKnown
  <1>2. \A q \in Callers : call'[q] = IF q = p THEN c ELSE call[q]
    BY DEF TypeInv, TypeOK
  <1>3. \A q \in Callers \ {p} : (Writing(q, e)' <=> Writing(q, e)) /\ call'[q] = call[q]
    BY <1>2 DEF Writing
  <1>4. c # Idle => (Writing(p, e)' <=> Writing(p, e))
    BY <1>2 DEF Writing
  <1>5. c.pc # "remember" /\ (c = Idle => ~Writing(p, e)' /\ c.pc = "idle")
    BY <1>2, IdleIs DEF Writing, WritePcs
  <1>6. \A q \in Callers : call[q].pc \in {"recache", "remember"} => call[q].key \in Keys
    BY DEF TypeInv, Shaped
  <1>7. \A k \in Keys : ~Writing(p, e) => /\ keychain'[Address(e, k)] = keychain[Address(e, k)]
                                          /\ secrets'[Address(e, k)] = secrets[Address(e, k)]
    OBVIOUS
  <1>8. \A q \in Callers : call'[q].pc # "idle" /\ call'[q].env = e => Brings(call'[q], keychain')
    <2> SUFFICES ASSUME NEW q \in Callers, call'[q].pc # "idle", call'[q].env = e
                 PROVE  Brings(call'[q], keychain')
      OBVIOUS
    <2>1. CASE q = p
      BY <1>2, <1>5, <2>1
    <2>2. CASE q # p /\ ~Writing(p, e)
      <3>1. call'[q] = call[q] /\ Brings(call[q], keychain) /\ (call[q].pc = "recache" => call[q].key \in Keys)
        BY <1>1, <1>3, <1>6, <2>2
      <3> QED BY <1>7, <2>2, <3>1 DEF Brings
    <2>3. CASE q # p /\ Writing(p, e)
      <3>1. call[q].pc # "recache"
        BY <1>1, <1>3, <2>3 DEF Writing, WritePcs
      <3> QED BY <1>1, <1>3, <2>3, <3>1 DEF Brings
    <2> QED BY <2>1, <2>2, <2>3
  <1>9. ASSUME << "raced", e >> \notin marks'
        PROVE  /\ \A q \in Callers : call'[q].pc = "remember" /\ call'[q].env = e =>
                    call'[q].value = keychain'[Address(e, call'[q].key)]
               /\ Free(e)' => \A k \in Keys : Fresh(e, k, keychain', secrets')
               /\ \A q \in Callers : Writing(q, e)' /\ call'[q].env = e => Knows(call'[q], keychain', secrets')
    <2>1. /\ \A q \in Callers : At(q, "remember") /\ call[q].env = e => call[q].value = keychain[Here(q)]
          /\ Free(e) => \A k \in Keys : Fresh(e, k, keychain, secrets)
          /\ \A q \in Callers : Writing(q, e) /\ call[q].env = e => Knows(call[q], keychain, secrets)
      BY <1>1, <1>9 DEF SecretsKnown
    <2>2. ASSUME NEW q \in Callers, call'[q].pc = "remember", call'[q].env = e
          PROVE  call'[q].value = keychain'[Address(e, call'[q].key)]
      BY <1>2, <1>5, <1>9, <2>1, <2>2 DEF At, Here
    <2>3. CASE ~Writing(p, e)
      <3>1. Free(e)' => Free(e)
        BY <1>3, <2>3 DEF Free
      <3>2. \A q \in Callers : Writing(q, e)' => q # p
        BY <1>4, <1>5, <2>3
      <3>3. /\ \A k \in Keys : Fresh(e, k, keychain, secrets) => Fresh(e, k, keychain', secrets')
            /\ \A d : d.env = e /\ Knows(d, keychain, secrets) => Knows(d, keychain', secrets')
        BY <1>7, <2>3, SameKnows
      <3> QED BY <1>3, <2>1, <2>2, <3>1, <3>2, <3>3
    <2>4. CASE Writing(p, e)
      <3>1. \A q \in Callers : Writing(q, e)' => q = p /\ c # Idle
        BY <1>1, <1>3, <1>5, <2>4
      <3>2. e # call[p].env => c # Idle /\ c.env # e
        BY <2>4 DEF Writing
      <3>3. Free(e)' => c = Idle
        BY <1>4, <2>4 DEF Free
      <3> QED BY <1>2, <1>9, <2>2, <3>1, <3>2, <3>3
    <2> QED BY <2>3, <2>4
  <1> QED BY <1>8, <1>9

\* A step in which no call that writes begins, goes on or ends.
LEMMA OthersKnow ==
    ASSUME TypeInv, NEW e \in Envs, SecretsKnown(e), Clean(e)' => Clean(e),
           << "raced", e >> \in marks => << "raced", e >> \in marks', keychain' = keychain,
           \A q \in Callers : call[q].pc \in WritePcs \/ call'[q].pc \in WritePcs => call'[q] = call[q],
           Clean(e) /\ << "raced", e >> \notin marks =>
             \A k \in Keys : Fresh(e, k, keychain, secrets) => Fresh(e, k, keychain, secrets'),
           Clean(e) => \A q \in Callers : call'[q].env = e =>
             \/ call'[q] = call[q]
             \/ call'[q].pc = "idle"
             \/ call'[q].pc = "lookup" /\ Brings(call'[q], keychain)
             \/ /\ call'[q].pc = "remember"
                /\ << "raced", e >> \notin marks => call'[q].value = keychain[Address(e, call'[q].key)]
    PROVE  SecretsKnown(e)'
  <1>1. \A q \in Callers : Writing(q, e)' => Writing(q, e) /\ call'[q] = call[q]
    BY DEF Writing
  <1>2. Free(e)' => Free(e)
    BY DEF Free, Writing
  <1>3. ASSUME Clean(e)
        PROVE  \A q \in Callers : call'[q].pc # "idle" /\ call'[q].env = e => Brings(call'[q], keychain)
    <2>1. \A q \in Callers : call[q].pc # "idle" /\ call[q].env = e => Brings(call[q], keychain)
      BY <1>3 DEF SecretsKnown
    <2>2. \A q \in Callers : call'[q].pc = "remember" => Brings(call'[q], keychain)
      BY DEF Brings
    <2> QED BY <1>3, <2>1, <2>2
  <1>4. ASSUME Clean(e), << "raced", e >> \notin marks
        PROVE  /\ \A q \in Callers : call'[q].pc = "remember" /\ call'[q].env = e =>
                    call'[q].value = keychain[Address(e, call'[q].key)]
               /\ Free(e)' => \A k \in Keys : Fresh(e, k, keychain, secrets')
               /\ \A q \in Callers : Writing(q, e)' /\ call'[q].env = e => Knows(call'[q], keychain, secrets')
    <2>1. /\ \A q \in Callers : At(q, "remember") /\ call[q].env = e => call[q].value = keychain[Here(q)]
          /\ Free(e) => \A k \in Keys : Fresh(e, k, keychain, secrets)
          /\ \A q \in Callers : Writing(q, e) /\ call[q].env = e => Knows(call[q], keychain, secrets)
      BY <1>4 DEF SecretsKnown
    <2>2. \A k \in Keys : Fresh(e, k, keychain, secrets) => Fresh(e, k, keychain, secrets')
      BY <1>4
    <2>3. \A c : c.env = e /\ Knows(c, keychain, secrets) => Knows(c, keychain, secrets')
      BY <2>2 DEF Knows
    <2>4. \A q \in Callers : call'[q].pc = "remember" /\ call'[q].env = e =>
            call'[q].value = keychain[Address(e, call'[q].key)]
      BY <1>4, <2>1 DEF At, Here
    <2> QED BY <1>1, <1>2, <2>1, <2>2, <2>3, <2>4
  <1> QED BY <1>3, <1>4, KnownNext

\* A call begins to write, with the cache as its predecessor left it.
LEMMA BeginKnows ==
    ASSUME TypeInv, NEW e \in Envs, RefsKept(e), SecretsKnown(e), NEW p \in Callers, NEW es, NEW c,
           Begin(p, es, c), c.pc \in WritePcs, es = {c.env, c.to}, c.pc = "recache" => c.value = RefText
    PROVE  SecretsKnown(e)'
  <1>1. /\ marks' = marks \union Overlaps(p, es) /\ keychain' = keychain /\ secrets' = secrets
        /\ call[p].pc = "idle" /\ \A q \in Callers : call'[q] = IF q = p THEN c ELSE call[q]
    BY DEF Begin, disk, At, TypeInv, TypeOK
  <1> SUFFICES ASSUME Clean(e)'
               PROVE  /\ \A q \in Callers : call'[q].pc # "idle" /\ call'[q].env = e => Brings(call'[q], keychain')
                      /\ << "raced", e >> \notin marks' =>
                           /\ \A q \in Callers : call'[q].pc = "remember" /\ call'[q].env = e =>
                                call'[q].value = keychain'[Address(e, call'[q].key)]
                           /\ Free(e)' => \A k \in Keys : Fresh(e, k, keychain', secrets')
                           /\ \A q \in Callers : Writing(q, e)' /\ call'[q].env = e =>
                                Knows(call'[q], keychain', secrets')
    BY <1>1, KnownNext DEF Clean
  <1>2. Clean(e)
    BY <1>1 DEF Clean
  <1>3. /\ ~Writing(p, e)
        /\ Writing(p, e)' <=> e \in es
        /\ \A q \in Callers \ {p} : (Writing(q, e)' <=> Writing(q, e)) /\ call'[q] = call[q]
    BY <1>1 DEF Writing, WritePcs
  <1>4. e \in es => Free(e)
    <2> SUFFICES ASSUME e \in es, NEW q \in Callers \ {p}, Writing(q, e)
                 PROVE  FALSE
      BY <1>3 DEF Free
    <2>1. << "overlap", e >> \in Overlaps(p, es)
      BY MarksAre
    <2> QED BY <1>1, <2>1 DEF Clean
  <1>5. Free(e)' => Free(e)
    BY <1>3 DEF Free
  <1>6. \A q \in Callers : call'[q].pc # "idle" /\ call'[q].env = e => Brings(call'[q], keychain)
    <2>1. \A q \in Callers : call[q].pc # "idle" /\ call[q].env = e => Brings(call[q], keychain)
      BY <1>2 DEF SecretsKnown
    <2>2. Brings(c, keychain)
      BY DEF Brings, WritePcs
    <2> QED BY <1>1, <2>1, <2>2
  <1>7. ASSUME << "raced", e >> \notin marks
        PROVE  /\ \A q \in Callers : call'[q].pc = "remember" /\ call'[q].env = e =>
                    call'[q].value = keychain[Address(e, call'[q].key)]
               /\ Free(e)' => \A k \in Keys : Fresh(e, k, keychain, secrets)
               /\ \A q \in Callers : Writing(q, e)' /\ call'[q].env = e => Knows(call'[q], keychain, secrets)
    <2>1. /\ \A q \in Callers : At(q, "remember") /\ call[q].env = e => call[q].value = keychain[Here(q)]
          /\ Free(e) => \A k \in Keys : Fresh(e, k, keychain, secrets)
          /\ \A q \in Callers : Writing(q, e) /\ call[q].env = e => Knows(call[q], keychain, secrets)
      BY <1>2, <1>7 DEF SecretsKnown
    <2>2. e \in es /\ c.env = e => Knows(c, keychain, secrets)
      BY <1>4, <2>1 DEF Knows
    <2>3. c.pc # "remember"
      BY DEF WritePcs
    <2>4. \A q \in Callers : call'[q].pc = "remember" /\ call'[q].env = e =>
            call'[q].value = keychain[Address(e, call'[q].key)]
      BY <1>1, <2>1, <2>3 DEF At, Here
    <2> QED BY <1>1, <1>3, <1>5, <2>1, <2>2, <2>4
  <1> QED BY <1>1, <1>6, <1>7

LEMMA EnterKnows ==
    ASSUME TypeInv, NEW x \in Envs, RefsKept(x), SecretsKnown(x), NEW p \in Callers, Enter(p)
    PROVE  SecretsKnown(x)'
  <1>1. ASSUME NEW e \in Envs, NEW pc \in WritePcs, NEW k, NEW v, NEW content,
               Begin(p, {e}, Begun(pc, e, k, v, content)), pc = "recache" => v = RefText
        PROVE  SecretsKnown(x)'
    <2> DEFINE c == Begun(pc, e, k, v, content)
    <2>1. c.pc = pc /\ {e} = {c.env, c.to} /\ c.value = v
      BY DEF Begun
    <2> HIDE DEF c
    <2> QED BY <1>1, <2>1, BeginKnows DEF c
  <1>2. {"store", "recache", "persist", "erase", "clear", "fetch"} \subseteq WritePcs
    BY DEF WritePcs
  <1>3. ASSUME NEW e \in Envs, CreateEnv(p, e)
        PROVE  SecretsKnown(x)'
    BY <1>1, <1>2, <1>3 DEF CreateEnv
  <1>4. ASSUME NEW e \in Envs, DeleteEnv(p, e)
        PROVE  SecretsKnown(x)'
    <2> DEFINE c == [Begun("clear", e, None, None, EmptyFile) EXCEPT !.todo = SecretKeys(file[e])]
    <2>1. c.pc = "clear" /\ {e} = {c.env, c.to}
      BY DEF Begun
    <2>2. Begin(p, {e}, c)
      BY <1>4 DEF DeleteEnv
    <2> HIDE DEF c
    <2> QED BY <1>2, <2>1, <2>2, BeginKnows
  <1>5. ASSUME NEW e \in Envs, NEW new \in Envs, RenameEnv(p, e, new)
        PROVE  SecretsKnown(x)'
    <2> DEFINE c == [Begun("fetch", e, None, None, EmptyFile) EXCEPT !.to = new, !.todo = SecretKeys(file[e])]
    <2>1. c.pc = "fetch" /\ {e, new} = {c.env, c.to}
      BY DEF Begun
    <2>2. Begin(p, {e, new}, c)
      BY <1>5 DEF RenameEnv
    <2> HIDE DEF c
    <2> QED BY <1>2, <2>1, <2>2, BeginKnows
  <1>6. ASSUME NEW e \in Envs, NEW k \in Keys, NEW v \in Values, SetSecret(p, e, k, v)
        PROVE  SecretsKnown(x)'
    BY <1>1, <1>2, <1>6 DEF SetSecret
  <1>7. ASSUME NEW e \in Envs, NEW k \in Keys, ResaveReference(p, e, k) \/ KeepSecret(p, e, k)
        PROVE  SecretsKnown(x)'
    BY <1>1, <1>2, <1>7 DEF ResaveReference, KeepSecret
  <1>8. ASSUME NEW e \in Envs, NEW k \in Keys, SetPlain(p, e, k) \/ DeleteVar(p, e, k)
        PROVE  SecretsKnown(x)'
    <2>1. PICK entry \in {Plain, None} : Overwrite(p, e, k, entry)
      BY <1>8 DEF SetPlain, DeleteVar
    <2> DEFINE content == [file[e] EXCEPT ![k] = entry]
    <2>2. \/ Begin(p, {e}, Begun("erase", e, k, None, content))
          \/ Begin(p, {e}, Begun("persist", e, None, None, content))
      BY <2>1 DEF Overwrite
    <2> HIDE DEF content
    <2> QED BY <1>1, <1>2, <2>2
  <1>9. ASSUME NEW e \in Envs, NEW k \in Keys, Resolve(p, e, k)
        PROVE  SecretsKnown(x)'
    <2> DEFINE c == Begun("lookup", e, k, None, file[e])
    <2>1. /\ call' = [call EXCEPT ![p] = c] /\ call[p].pc = "idle"
          /\ c.pc = "lookup" /\ c.env = e /\ c.key = k /\ c.content = file[e]
      BY <1>9 DEF Resolve, Begun, At
    <2> HIDE DEF c
    <2>2. \A q \in Callers : call'[q] = IF q = p THEN c ELSE call[q]
      BY <2>1 DEF TypeInv, TypeOK
    <2>3. \A q \in Callers : call[q].pc \in WritePcs \/ call'[q].pc \in WritePcs => call'[q] = call[q]
      BY <2>1, <2>2 DEF WritePcs
    <2>4. Clean(x) /\ e = x => Brings(c, keychain)
      BY <1>9, <2>1 DEF Resolve, RefsKept, OwnRefs, SecretKeys, Brings
    <2>5. keychain' = keychain /\ secrets' = secrets /\ marks' = marks
      BY <1>9 DEF Resolve, disk
    <2> QED BY <2>1, <2>2, <2>3, <2>4, <2>5, OthersKnow DEF Clean
  <1> QED BY <1>3, <1>4, <1>5, <1>6, <1>7, <1>8, <1>9 DEF Enter

LEMMA ContinueKnows ==
    ASSUME TypeInv, RenamedApart, NEW e \in Envs, RefsKept(e), SecretsKnown(e), NEW p \in Callers, Continue(p)
    PROVE  SecretsKnown(e)'
  <1> DEFINE env == call[p].env
             key == call[p].key
  <1>1. (Clean(e)' => Clean(e)) /\ (<< "raced", e >> \in marks => << "raced", e >> \in marks')
    BY MarksStay
  <1>2. CASE Lookup(p)
    <2>1. call[p] \in Call /\ call[p].pc = "lookup"
      BY <1>2, AtWork DEF Lookup, At
    <2> DEFINE v == keychain[call[p].content[key]]
               next == [call[p] EXCEPT !.pc = "remember", !.value = v]
    <2>2. /\ next.pc = "remember" /\ next.env = env /\ next.key = key /\ next.value = v
      BY <2>1 DEF Call
    <2>3. Return(p) \/ call' = [call EXCEPT ![p] = next]
      BY <1>2 DEF Lookup
    <2>4. Clean(e) /\ env = e => v = keychain[Address(e, key)]
      BY <2>1 DEF SecretsKnown, Brings
    <2> HIDE DEF next, v
    <2>5. PICK c : /\ call' = [call EXCEPT ![p] = c]
                   /\ c.pc = "idle" \/ (c.pc = "remember" /\ c.env = env /\ c.key = key /\ c.value = v)
      BY <2>2, <2>3, IdleIs DEF Return
    <2>6. \A q \in Callers : call'[q] = IF q = p THEN c ELSE call[q]
      BY <2>5 DEF TypeInv, TypeOK
    <2>7. \A q \in Callers : call[q].pc \in WritePcs \/ call'[q].pc \in WritePcs => call'[q] = call[q]
      BY <2>1, <2>5, <2>6 DEF WritePcs
    <2>8. keychain' = keychain /\ secrets' = secrets
      BY <1>2 DEF Lookup, disk
    <2> QED BY <1>1, <2>4, <2>5, <2>6, <2>7, <2>8, OthersKnow
  <1>3. CASE Remember(p)
    <2>1. call[p].pc = "remember" /\ key \in Keys /\ env \in Envs
      BY <1>3, AtWork DEF Remember, At, Shaped, Call
    <2>2. \A q \in Callers : call'[q] = IF q = p THEN Idle ELSE call[q]
      BY <1>3 DEF Remember, Return, TypeInv, TypeOK
    <2>3. \A q \in Callers : call[q].pc \in WritePcs \/ call'[q].pc \in WritePcs => call'[q] = call[q]
      BY <2>1, <2>2, IdleIs DEF WritePcs
    <2>4. \A k \in Keys : secrets'[Address(e, k)] =
                            IF e = env /\ k = key THEN call[p].value ELSE secrets[Address(e, k)]
      BY <1>3, <2>1, AddressesDiffer DEF Remember, Here, TypeInv, TypeOK
    <2>5. Clean(e) /\ << "raced", e >> \notin marks /\ e = env => call[p].value = keychain[Address(e, key)]
      BY <1>3 DEF Remember, SecretsKnown, Here
    <2>6. Clean(e) /\ << "raced", e >> \notin marks =>
             \A k \in Keys : Fresh(e, k, keychain, secrets) => Fresh(e, k, keychain, secrets')
      BY <2>4, <2>5 DEF Fresh
    <2>7. keychain' = keychain
      BY <1>3 DEF Remember, disk
    <2> QED BY <1>1, <2>2, <2>3, <2>6, <2>7, IdleIs, OthersKnow
  <1>4. ASSUME ~(Lookup(p) \/ Remember(p))
        PROVE  SecretsKnown(e)'
    <2>1. call[p].pc \in WritePcs /\ call[p] \in Call /\ Shaped(call[p])
      BY <1>4, AtWork DEF Continue, StoreSecret, Recache, Erase, Forget, Persist, Clear, Fetch, MoveStore,
         MoveErase, MoveCache, ForgetAll, Unlink, Move, ActiveCheck, ActiveWrite, At, WritePcs
    <2>2. env \in Envs /\ call[p].to \in Envs /\ call[p].todo \subseteq Keys /\ key \in Keys \union {None}
      BY <2>1 DEF Call
    <2>3. /\ Clean(e) /\ e = env => Brings(call[p], keychain)
          /\ Clean(e) /\ << "raced", e >> \notin marks /\ e = env => Knows(call[p], keychain, secrets)
      BY <2>1 DEF SecretsKnown, Writing, WritePcs
    <2>4. Writing(p, e) <=> e \in {env, call[p].to}
      BY <2>1 DEF Writing
    \* The call goes on or ends, with the keychain as it was.
    <2>5. ASSUME NEW c, call' = [call EXCEPT ![p] = c],
                 c = Idle \/ (c.pc \in WritePcs /\ c.env = env /\ c.to = call[p].to),
                 keychain' = keychain,
                 e \notin {env, call[p].to} => \A k \in Keys : secrets'[Address(e, k)] = secrets[Address(e, k)],
                 c.pc # "recache",
                 Clean(e) /\ << "raced", e >> \notin marks /\ e = env =>
                   /\ c = Idle => \A k \in Keys : Fresh(e, k, keychain, secrets')
                   /\ c # Idle => Knows(c, keychain, secrets'),
                 Clean(e)' /\ e = call[p].to /\ e # env => c # Idle
          PROVE  SecretsKnown(e)'
      <3>1. c # Idle => Brings(c, keychain)
        BY <2>5 DEF Brings, WritePcs
      <3> QED BY <1>1, <2>1, <2>4, <2>5, <3>1, WorkKnows
    \* The call changes the keychain for x, and those that have read it there are marked.
    <2>6. ASSUME NEW c, call' = [call EXCEPT ![p] = c],
                 c.pc \in WritePcs, c # Idle, c.env = env, c.to = call[p].to,
                 secrets' = secrets, NEW x \in {env, call[p].to},
                 e # x => \A j \in Keys : keychain'[Address(e, j)] = keychain[Address(e, j)],
                 marks' = marks \union Raced(p, x),
                 e = env => Brings(c, keychain'),
                 Clean(e) /\ << "raced", e >> \notin marks /\ e = env => Knows(c, keychain', secrets)
          PROVE  SecretsKnown(e)'
      <3>1. << "raced", e >> \notin marks' => e # x \/ \A q \in Callers \ {p} : ~(At(q, "remember") /\ call[q].env = e)
        BY <2>6, MarksAre
      <3>2. \A q \in Callers : At(q, "remember") => call[q].key \in Keys
        BY DEF At, TypeInv, Shaped
      <3>3. << "raced", e >> \notin marks' =>
              \A q \in Callers \ {p} : At(q, "remember") /\ call[q].env = e => keychain'[Here(q)] = keychain[Here(q)]
        BY <2>6, <3>1, <3>2 DEF Here
      <3> QED BY <1>1, <2>1, <2>4, <2>6, <3>3, WorkKnows
    <2>7. CASE StoreSecret(p)
      <3>1. key \in Keys /\ call[p].to = env
        BY <2>1, <2>7 DEF StoreSecret, At, Shaped, WritePcs, RenamePcs
      <3>2. CASE Return(p) /\ UNCHANGED <<keychain, marks>>
        <4>1. Clean(e) /\ << "raced", e >> \notin marks /\ e = env => \A k \in Keys : Fresh(e, k, keychain, secrets)
          BY <2>3, <2>7 DEF StoreSecret, At, Knows
        <4> QED BY <2>5, <2>7, <3>1, <3>2, <4>1, IdleIs DEF StoreSecret, Return
      <3>3. CASE keychain' = [keychain EXCEPT ![Here(p)] = call[p].value] /\ Goto(p, "recache")
                 /\ marks' = marks \union Raced(p, env)
        <4>1. PICK c : /\ call' = [call EXCEPT ![p] = c]
                       /\ c # Idle /\ c.pc = "recache" /\ c.env = env /\ c.to = call[p].to
                       /\ c.key = key /\ c.value = call[p].value
          BY <2>1, <3>3, GoesTo DEF WritePcs
        <4>2. \A k \in Keys : k # key /\ e = env => keychain'[Address(e, k)] = keychain[Address(e, k)]
          BY <2>2, <3>1, <3>3, AddressesDiffer DEF Here, TypeInv, TypeOK
        <4>3. Clean(e) /\ << "raced", e >> \notin marks /\ e = env => Knows(c, keychain', secrets)
          BY <2>3, <2>7, <4>1, <4>2 DEF StoreSecret, At, Knows, Fresh
        <4>4. e # env => \A k \in Keys : keychain'[Address(e, k)] = keychain[Address(e, k)]
          BY <2>2, <3>1, <3>3, AddressesDiffer DEF Here, TypeInv, TypeOK
        <4>5. Brings(c, keychain')
          BY <2>2, <3>1, <3>3, <4>1, AddressesDiffer DEF Here, Brings, TypeInv, TypeOK
        <4>6. c.pc \in WritePcs /\ secrets' = secrets
          BY <2>7, <4>1 DEF StoreSecret, WritePcs
        <4> QED BY <2>6, <3>3, <4>1, <4>3, <4>4, <4>5, <4>6
      <3> QED BY <2>7, <3>2, <3>3 DEF StoreSecret
    <2>8. CASE Recache(p)
      <3> DEFINE c == [call[p] EXCEPT !.pc = "persist", !.value = None]
      <3>1. c.pc = "persist" /\ c.env = env /\ c.to = call[p].to
        BY <2>1 DEF Call
      <3>2. call' = [call EXCEPT ![p] = c]
        BY <2>8 DEF Recache
      <3> HIDE DEF c
      <3>3. key \in Keys /\ call[p].to = env /\ c.pc \in WritePcs /\ c # Idle
        BY <2>1, <2>8, <3>1, IdleIs DEF Recache, At, Shaped, WritePcs, RenamePcs
      <3>4. \A k \in Keys : secrets'[Address(e, k)] =
                              IF e = env /\ k = key THEN call[p].value ELSE secrets[Address(e, k)]
        BY <2>2, <2>8, <3>3, AddressesDiffer DEF Recache, Here, TypeInv, TypeOK
      <3>5. Clean(e) /\ << "raced", e >> \notin marks /\ e = env => Knows(c, keychain, secrets')
        BY <2>3, <2>8, <3>1, <3>4 DEF Recache, At, Knows, Brings, Fresh
      <3> QED BY <2>5, <2>8, <3>1, <3>2, <3>3, <3>4, <3>5 DEF Recache, disk
    <2>9. CASE Erase(p)
      <3>1. PICK c : /\ call' = [call EXCEPT ![p] = c]
                     /\ c # Idle /\ c.pc = "forget" /\ c.env = env /\ c.to = call[p].to
                     /\ c.key = key /\ c.value = call[p].value
        BY <2>1, <2>9, GoesTo DEF Erase, WritePcs
      <3>2. key \in Keys
        BY <2>1, <2>9 DEF Erase, At, Shaped
      <3>3. \A k \in Keys : k # key /\ e = env => keychain'[Address(e, k)] = keychain[Address(e, k)]
        BY <2>2, <2>9, <3>2, AddressesDiffer DEF Erase, Here, TypeInv, TypeOK
      <3>4. Clean(e) /\ << "raced", e >> \notin marks /\ e = env => Knows(c, keychain', secrets)
        BY <2>3, <2>9, <3>1, <3>3 DEF Erase, At, Knows, Fresh
      <3>5. e # env => \A k \in Keys : keychain'[Address(e, k)] = keychain[Address(e, k)]
        BY <2>2, <2>9, <3>2, AddressesDiffer DEF Erase, Here, TypeInv, TypeOK
      <3>6. c.pc \in WritePcs /\ secrets' = secrets /\ Brings(c, keychain') /\ marks' = marks \union Raced(p, env)
        BY <2>9, <3>1 DEF Erase, WritePcs, Brings
      <3> QED BY <2>6, <3>1, <3>4, <3>5, <3>6
    <2>10. CASE Forget(p)
      <3>1. PICK c : /\ call' = [call EXCEPT ![p] = c]
                     /\ c # Idle /\ c.pc = "persist" /\ c.env = env /\ c.to = call[p].to
        BY <2>1, <2>10, GoesTo DEF Forget, WritePcs
      <3>2. key \in Keys /\ call[p].to = env
        BY <2>1, <2>10 DEF Forget, At, Shaped, WritePcs, RenamePcs
      <3>3. \A k \in Keys : secrets'[Address(e, k)] =
                              IF e = env /\ k = key THEN None ELSE secrets[Address(e, k)]
        BY <2>2, <2>10, <3>2, AddressesDiffer DEF Forget, Here, TypeInv, TypeOK
      <3>4. Clean(e) /\ << "raced", e >> \notin marks /\ e = env => Knows(c, keychain, secrets')
        BY <2>3, <2>10, <3>1, <3>3 DEF Forget, At, Knows, Fresh
      <3> QED BY <2>5, <2>10, <3>1, <3>2, <3>3, <3>4 DEF Forget, disk, WritePcs
    <2>11. CASE Persist(p) \/ Unlink(p)
      <3>1. call[p].to = env
        BY <2>1, <2>11 DEF Persist, Unlink, At, Shaped, WritePcs, RenamePcs
      <3>2. Clean(e) /\ << "raced", e >> \notin marks /\ e = env => \A k \in Keys : Fresh(e, k, keychain, secrets)
        BY <2>3, <2>11 DEF Persist, Unlink, At, Knows
      <3> QED BY <2>5, <2>11, <3>1, <3>2, IdleIs DEF Persist, Unlink, Return
    <2>12. CASE Clear(p)
      <3>1. PICK k \in call[p].todo :
              /\ keychain' \in {keychain, [keychain EXCEPT ![Address(env, k)] = None]}
              /\ call' = [call EXCEPT ![p].todo = @ \ {k}]
        BY <2>12 DEF Clear
      <3> DEFINE c == [call[p] EXCEPT !.todo = @ \ {k}]
      <3>2. c.pc = "clear" /\ c.env = env /\ c.to = call[p].to /\ c.key = key
        BY <2>1, <2>12 DEF Call, Clear, At
      <3>3. call' = [call EXCEPT ![p] = c]
        BY <3>1
      <3> HIDE DEF c
      <3>4. c # Idle /\ c.pc \in WritePcs /\ Knows(c, keychain', secrets) /\ k \in Keys
        BY <2>2, <3>2, IdleIs DEF WritePcs, Knows
      <3>5. e # env => \A j \in Keys : keychain'[Address(e, j)] = keychain[Address(e, j)]
        BY <2>2, <3>1, <3>4, AddressesDiffer DEF TypeInv, TypeOK
      <3>6. secrets' = secrets /\ Brings(c, keychain') /\ marks' = marks \union Raced(p, env)
        BY <2>12, <3>2 DEF Clear, Brings
      <3> QED BY <2>6, <3>2, <3>3, <3>4, <3>5, <3>6
    <2>13. CASE Fetch(p)
      <3>1. PICK k \in call[p].todo :
              LET v == keychain[Address(env, k)]
                  rest == [call[p] EXCEPT !.todo = @ \ {k}]
              IN  \/ call' = [call EXCEPT ![p] = rest]
                  \/ call' = [call EXCEPT ![p] = [rest EXCEPT !.pc = "moveStore", !.key = k, !.value = v]]
        BY <2>13 DEF Fetch
      <3> DEFINE v == keychain[Address(env, k)]
                 rest == [call[p] EXCEPT !.todo = @ \ {k}]
                 next == [rest EXCEPT !.pc = "moveStore", !.key = k, !.value = v]
      <3>2. /\ rest.pc = "fetch" /\ rest.env = env /\ rest.to = call[p].to
            /\ next.pc = "moveStore" /\ next.env = env /\ next.to = call[p].to
        BY <2>1, <2>13 DEF Call, Fetch, At
      <3>3. PICK c : /\ call' = [call EXCEPT ![p] = c] /\ c.pc \in {"fetch", "moveStore"}
                     /\ c.env = env /\ c.to = call[p].to
        BY <3>1, <3>2
      <3>4. c # Idle /\ c.pc \in WritePcs /\ c.pc # "recache" /\ Knows(c, keychain, secrets)
        BY <3>3, IdleIs DEF WritePcs, Knows
      <3> QED BY <2>5, <2>13, <3>3, <3>4 DEF Fetch, disk
    <2>14. CASE MoveStore(p) \/ MoveErase(p)
      <3>1. key \in Keys
        BY <2>1, <2>14 DEF MoveStore, MoveErase, At, Shaped
      <3>2. PICK c : /\ call' = [call EXCEPT ![p] = c]
                     /\ c # Idle /\ c.pc \in {"moveErase", "moveCache"} /\ c.env = env /\ c.to = call[p].to
        BY <2>1, <2>14, GoesTo DEF MoveStore, MoveErase, WritePcs
      <3>3. c.pc \in WritePcs /\ Brings(c, keychain') /\ Knows(c, keychain', secrets)
        BY <3>2 DEF WritePcs, Knows, Brings
      <3>4. CASE MoveStore(p)
        <4>1. e # call[p].to => \A j \in Keys : keychain'[Address(e, j)] = keychain[Address(e, j)]
          BY <2>2, <3>1, <3>4, AddressesDiffer DEF MoveStore, TypeInv, TypeOK
        <4>2. secrets' = secrets /\ marks' = marks \union Raced(p, call[p].to)
          BY <3>4 DEF MoveStore
        <4> QED BY <2>6, <3>2, <3>3, <4>1, <4>2
      <3>5. CASE MoveErase(p)
        <4>1. e # env => \A j \in Keys : keychain'[Address(e, j)] = keychain[Address(e, j)]
          BY <2>2, <3>1, <3>5, AddressesDiffer DEF MoveErase, Here, TypeInv, TypeOK
        <4>2. secrets' = secrets /\ marks' = marks \union Raced(p, env)
          BY <3>5 DEF MoveErase
        <4> QED BY <2>6, <3>2, <3>3, <4>1, <4>2
      <3> QED BY <2>14, <3>4, <3>5
    <2>15. CASE MoveCache(p)
      <3> DEFINE c == [call[p] EXCEPT !.pc = "fetch", !.key = None, !.value = None]
      <3>1. c.pc = "fetch" /\ c.env = env /\ c.to = call[p].to
        BY <2>1 DEF Call
      <3>2. call' = [call EXCEPT ![p] = c]
        BY <2>15 DEF MoveCache
      <3> HIDE DEF c
      <3>3. c # Idle /\ c.pc \in WritePcs /\ Knows(c, keychain, secrets') /\ c.pc # "recache"
        BY <3>1, IdleIs DEF WritePcs, Knows
      <3>4. key \in Keys
        BY <2>1, <2>15 DEF MoveCache, At, Shaped
      <3>5. e # call[p].to => \A k \in Keys : secrets'[Address(e, k)] = secrets[Address(e, k)]
        BY <2>2, <2>15, <3>4, AddressesDiffer DEF MoveCache, TypeInv, TypeOK
      <3> QED BY <2>5, <2>15, <3>1, <3>2, <3>3, <3>5 DEF MoveCache, disk
    <2>16. CASE ForgetAll(p)
      <3>1. PICK c : /\ call' = [call EXCEPT ![p] = c]
                     /\ c # Idle /\ c.pc \in {"unlink", "move"} /\ c.env = env /\ c.to = call[p].to
        BY <2>1, <2>16, GoesTo DEF ForgetAll, WritePcs
      <3>2. \A k \in Keys : secrets'[Address(e, k)] = IF e = env THEN None ELSE secrets[Address(e, k)]
        BY <2>16 DEF ForgetAll, Address, Refs
      <3>3. e = env => Knows(c, keychain, secrets')
        BY <3>1, <3>2 DEF Knows, Fresh
      <3>4. c.pc \in WritePcs /\ c.pc # "recache"
        BY <3>1 DEF WritePcs
      <3> QED BY <2>5, <2>16, <3>1, <3>2, <3>3, <3>4 DEF ForgetAll, disk
    <2>17. CASE Move(p) \/ ActiveCheck(p) \/ ActiveWrite(p)
      <3>1. keychain' = keychain /\ secrets' = secrets
        BY <2>17 DEF Move, ActiveCheck, ActiveWrite, disk
      <3>2. Clean(e) /\ << "raced", e >> \notin marks /\ e = env => \A k \in Keys : Fresh(e, k, keychain, secrets)
        BY <2>3, <2>17 DEF Move, ActiveCheck, ActiveWrite, At, Knows
      <3>3. CASE Return(p)
        <4>1. ~(Clean(e)' /\ e = call[p].to)
          <5>1. CASE Move(p)
            <6>1. Mark("cut", {env, call[p].to})
              <7>1. ~Goto(p, "activeCheck")
                <8>1. call'[p].pc = "idle"
                  BY <3>3, IdleIs DEF Return, TypeInv, TypeOK
                <8>2. Goto(p, "activeCheck") => call'[p].pc = "activeCheck"
                  <9>1. [call[p] EXCEPT !.pc = "activeCheck"].pc = "activeCheck"
                    BY <2>1 DEF Call
                  <9> QED BY <9>1 DEF Goto, TypeInv, TypeOK
                <8> QED BY <8>1, <8>2
              <7> QED BY <5>1, <7>1 DEF Move
            <6> QED BY <6>1, MarksAre DEF Clean
          <5>2. CASE ActiveCheck(p) \/ ActiveWrite(p)
            <6>1. << "renamed", call[p].to >> \in marks
              BY <5>2 DEF RenamedApart, ActiveCheck, ActiveWrite, At
            <6>2. << "renamed", call[p].to >> \in marks'
              BY <1>4, <6>1, MarksStay
            <6> QED BY <6>2 DEF Clean
          <5> QED BY <2>17, <5>1, <5>2
        <4> QED BY <2>5, <3>1, <3>2, <3>3, <4>1, IdleIs DEF Return
      <3>4. ASSUME NEW pc \in {"activeCheck", "activeWrite"}, Goto(p, pc)
            PROVE  SecretsKnown(e)'
        <4>1. PICK c : /\ call' = [call EXCEPT ![p] = c]
                       /\ c # Idle /\ c.pc = pc /\ c.env = env /\ c.to = call[p].to
          BY <2>1, <3>4, GoesTo DEF WritePcs
        <4>2. Clean(e) /\ << "raced", e >> \notin marks /\ e = env => Knows(c, keychain, secrets)
          BY <3>2, <4>1 DEF Knows
        <4>3. c.pc \in WritePcs /\ c.pc # "recache"
          BY <4>1 DEF WritePcs
        <4> QED BY <2>5, <3>1, <4>1, <4>2, <4>3
      <3> QED BY <2>17, <3>3, <3>4 DEF Move, ActiveCheck, ActiveWrite
    <2> QED BY <1>4, <2>7, <2>8, <2>9, <2>10, <2>11, <2>12, <2>13, <2>14, <2>15, <2>16, <2>17 DEF Continue
  <1> QED BY <1>2, <1>3, <1>4

LEMMA RestKnows ==
    ASSUME TypeInv, TypeInv', NEW e \in Envs, RefsKept(e), SecretsKnown(e),
           \/ \E p \in Callers, x \in Envs \union {None} : SetActive(p, x)
           \/ InvalidateCache
           \/ Restart
           \/ UNCHANGED vars
    PROVE  SecretsKnown(e)'
  <1>1. CASE (\E p \in Callers, x \in Envs \union {None} : SetActive(p, x)) \/ UNCHANGED vars
    <2>1. marks \subseteq marks' /\ call' = call /\ secrets' = secrets /\ keychain' = keychain
      BY <1>1 DEF SetActive, vars
    <2> QED BY <2>1, OthersKnow DEF Clean
  \* Once the cache is empty it holds nothing stale; only those still to fill it count.
  <1>2. ASSUME Clean(e)' => Clean(e), keychain' = keychain, \A k \in Keys : secrets'[Address(e, k)] = None,
               \A q \in Callers : call'[q] \in {call[q], Idle},
               << "raced", e >> \notin marks' =>
                 \/ << "raced", e >> \notin marks
                 \/ \A q \in Callers : ~(call'[q].pc = "remember" /\ call'[q].env = e)
        PROVE  SecretsKnown(e)'
    <2>1. \A k \in Keys : Fresh(e, k, keychain, secrets')
      BY <1>2 DEF Fresh
    <2>2. \A c : c.env = e => Knows(c, keychain, secrets')
      BY <2>1 DEF Knows
    <2>3. ASSUME Clean(e)
          PROVE  \A q \in Callers : call'[q].pc # "idle" /\ call'[q].env = e => Brings(call'[q], keychain)
      BY <1>2, <2>3, IdleIs DEF SecretsKnown
    <2>4. ASSUME Clean(e), << "raced", e >> \notin marks'
          PROVE  \A q \in Callers : call'[q].pc = "remember" /\ call'[q].env = e =>
                    call'[q].value = keychain[Address(e, call'[q].key)]
      BY <1>2, <2>4, IdleIs DEF SecretsKnown, At, Here
    <2>5. SecretsKnown(e)' <=>
            (Clean(e)' =>
              /\ \A q \in Callers : call'[q].pc # "idle" /\ call'[q].env = e => Brings(call'[q], keychain')
              /\ << "raced", e >> \notin marks' =>
                   /\ \A q \in Callers : call'[q].pc = "remember" /\ call'[q].env = e =>
                        call'[q].value = keychain'[Address(e, call'[q].key)]
                   /\ Free(e)' => \A k \in Keys : Fresh(e, k, keychain', secrets')
                   /\ \A q \in Callers : Writing(q, e)' /\ call'[q].env = e =>
                        Knows(call'[q], keychain', secrets'))
      BY DEF SecretsKnown, Brings, Knows, Fresh, Here, At, Address
    <2> QED BY <1>2, <2>1, <2>2, <2>3, <2>4, <2>5
  <1>3. CASE InvalidateCache
    <2>1. \A w, x : w # "raced" /\ << w, x >> \in marks => << w, x >> \in marks'
      BY <1>3 DEF InvalidateCache, Unraced
    <2>2. << "raced", e >> \in marks /\ << "raced", e >> \notin marks' =>
             \A q \in Callers : ~(call[q].pc = "remember" /\ call[q].env = e)
      BY <1>3 DEF InvalidateCache, Unraced, At
    <2>3. call' = call /\ keychain' = keychain /\ \A k \in Keys : secrets'[Address(e, k)] = None
      BY <1>3, AddressesDiffer DEF InvalidateCache, disk
    <2>4. Clean(e)' => Clean(e)
      BY <2>1 DEF Clean
    <2> QED BY <1>2, <2>2, <2>3, <2>4
  <1>4. CASE Restart
    <2>1. \A w, x : w # "raced" /\ << w, x >> \in marks => << w, x >> \in marks'
      BY <1>4 DEF Restart, Unraced
    <2>2. Clean(e)' => Clean(e)
      BY <2>1 DEF Clean
    <2>3. /\ keychain' = keychain /\ \A k \in Keys : secrets'[Address(e, k)] = None
          /\ \A q \in Callers : call'[q] = Idle /\ call'[q].pc = "idle"
      BY <1>4, AddressesDiffer, IdleIs DEF Restart, disk
    <2> QED BY <1>2, <2>2, <2>3
  <1> QED BY <1>1, <1>3, <1>4

LEMMA InitCacheInv == Init => CacheInv
  <1> SUFFICES ASSUME Init
               PROVE  CacheInv
    OBVIOUS
  <1>1. \A p \in Callers : call[p].pc = "idle"
    BY IdleIs DEF Init
  <1>2. \A e \in Envs, k \in Keys : Fresh(e, k, keychain, secrets)
    BY AddressesDiffer DEF Init, Fresh
  <1>3. \A e \in Envs : SecretsKnown(e)
    BY <1>1, <1>2 DEF SecretsKnown, Writing, WritePcs, At
  <1> QED BY <1>3, InitStoreInv DEF CacheInv

LEMMA NextCacheInv == CacheInv /\ [Next]_vars => CacheInv'
  <1> SUFFICES ASSUME CacheInv, [Next]_vars
               PROVE  CacheInv'
    OBVIOUS
  <1>1. StoreInv'
    BY NextStoreInv DEF CacheInv
  <1>2. ASSUME NEW e \in Envs
        PROVE  SecretsKnown(e)'
    <2>1. TypeInv /\ TypeInv' /\ RenamedApart /\ RefsKept(e) /\ SecretsKnown(e)
      BY <1>1 DEF CacheInv, StoreInv
    <2> QED BY <2>1, EnterKnows, ContinueKnows, RestKnows DEF Next
  <1> QED BY <1>1, <1>2 DEF CacheInv

\* Outside the exceptions it makes, the cache never serves a secret that the keychain has
\* no more: not after a rotation, a deletion, a rename or a failed access.
THEOREM CacheIsFresh == Spec => []CacheFresh
  <1>1. ASSUME CacheInv
        PROVE  CacheFresh
    <2>1. ASSUME NEW e \in Envs, Settled(e, {"overlap", "cut", "renamed", "raced"}), NEW k \in Keys
          PROVE  secrets[Address(e, k)] \in {None, RefText, keychain[Address(e, k)]}
      <3>1. Clean(e) /\ Free(e) /\ << "raced", e >> \notin marks
        BY <2>1 DEF Settled, Clean, Free
      <3> QED BY <1>1, <3>1 DEF CacheInv, SecretsKnown, Fresh
    <2> QED BY <2>1 DEF CacheFresh
  <1> QED BY <1>1, InitCacheInv, NextCacheInv, PTL DEF Spec
=============================================================================
