----------------------------- MODULE MigrationProofs -----------------------------
(***************************************************************************)
(* Theorems about the two migrations.                                      *)
(*                                                                         *)
(* VaultMigration, and the connections store under it, for any             *)
(* connections, rows, callers and number of calls: a reference leads to a  *)
(* password, and a connection keeps the password it was last given.  Both  *)
(* follow from what a call that is alone on its connection knows of file   *)
(* and keychain at each of its steps.  Calls that overlap write over each  *)
(* other's entries, so nothing is claimed of those.                        *)
(*                                                                         *)
(* DbMigrate, for any processes, number of starts and faults, and any      *)
(* script that rebuilds schema_cache like 013 does: the schema ends whole, *)
(* and a start on its own fails in one state only.  Both follow from what  *)
(* a start that can be trusted has made before each of its statements.     *)
(***************************************************************************)
EXTENDS VaultMigration, DbMigrate, TLAPS

Busy(p) == call[p].pc # "idle"
Apart(n) == <<"overlap", n>> \notin marks

\* What a call has from its start.
Formed(c) ==
    /\ c.file[c.name] = c.entry
    /\ c.op = "create" => c.given = "set" /\ c.pc \in {"store", "read", "write"}
    /\ c.op = "delete" => c.given = "clear" /\ c.entry = None /\ c.pc \in {"write", "forget"}
    /\ c.op # "delete" => c.entry # None /\ c.entry = Built(c.entry.kind, c.input)
    /\ c.op = "update" /\ c.given = "clear" => c.input = None
    /\ c.pc = "store" => c.input \in Passwords /\ c.entry.kind = "server"
    /\ c.pc = "erase" => c.op = "update" /\ c.given = "clear"
    /\ c.pc = "read" => c.op = "create"
    /\ c.pc = "forget" => c.op = "delete"
    /\ c.given = "keep" => c.op = "update" /\ c.entry.kind # "other"
    /\ c.given = "set" => c.input \in Passwords \cup {None} /\ c.entry.kind # "other"

\* What a call that is alone knows of its entry e and password k.
Knows(c, e, k) ==
    /\ c.op = "create" \/ c.pc = "forget" => e = None
    /\ c.op = "update" => e # None
    /\ c.given = "keep" => c.input = e.pw
    /\ c.pc \in {"read", "write"} /\ c.op # "delete" /\ c.entry.kind = "server" /\ c.input \in Passwords
          => k = c.input

Alone(n) ==
    Apart(n) =>
      /\ \A p, q \in Callers : Busy(p) /\ call[p].name = n /\ Busy(q) => p = q
      /\ \A p \in Callers : Busy(p) /\ call[p].name = n => Knows(call[p], conns[n], keychain[n])
      /\ \A p \in Callers : Busy(p) /\ call[p].name # n => call[p].file[n] = conns[n]

Leads(n) ==
    Apart(n) /\ ~Befell(n, {"cut", "cleared"})
      => \/ ~Dangles(n)
         \/ \E p \in Callers : Busy(p) /\ call[p].name = n /\ Clears(call[p])

ConnInv ==
    /\ TypeOK
    /\ \A p \in Callers : Busy(p) => Formed(call[p])
    /\ \A n \in Names : Alone(n) /\ Leads(n)

\* The migration is at a row or at its creation.
Creates(c, row) == c.op = "create" /\ c.name = row.name /\ c.entry = Built(row.kind, row.pw) /\ c.input = row.pw

AtRow ==
    /\ mig.pc \in {"conns", "creating"} => mig.at \in 1..Len(rows)
    /\ Busy(Migrator) <=> mig.pc = "creating"
    /\ mig.pc = "creating" => Creates(call[Migrator], rows[mig.at])

Kept(row) ==
    row.name \in made /\ row.kind = "server" /\ Apart(row.name)
      => ~AtWork(row.name) /\ Resolved(row.name) = row.pw

MigInv ==
    /\ ConnInv
    /\ rows \in Tables
    /\ AtRow
    /\ \A i \in 1..Len(rows) : Kept(rows[i])
-----------------------------------------------------------------------------
(***************************************************************************)
(* The steps of calls.                                                     *)
(***************************************************************************)
LEMMA CallShape ==
    ASSUME TypeOK, NEW p \in Callers
    PROVE  /\ Idle \notin Call /\ Idle.pc = "idle"
           /\ Busy(p) <=> call[p] \in Call
           /\ ~Busy(p) <=> call[p] = Idle
           /\ \A c \in Call : c.pc # "idle" /\ c.name \in Names /\ c.entry \in Entry \cup {None} /\ c.file \in File
                              /\ c.input \in Passwords \cup {Ref, None} /\ c.op \in {"create", "update", "delete"}
                              /\ c.given \in {"keep", "clear", "set"} /\ c.valid \in BOOLEAN
  <1>1. \A c \in Call : c.pc # "idle" /\ c.name \in Names /\ c.entry \in Entry \cup {None} /\ c.file \in File
                        /\ c.input \in Passwords \cup {Ref, None} /\ c.op \in {"create", "update", "delete"}
                        /\ c.given \in {"keep", "clear", "set"} /\ c.valid \in BOOLEAN
    BY DEF Call
  <1>2. Idle.pc = "idle"
    BY DEF Idle
  <1>3. call[p] \in Call \cup {Idle}
    BY DEF TypeOK
  <1> QED BY <1>1, <1>2, <1>3 DEF Busy

\* A call moves on, or returns.
LEMMA Going ==
    ASSUME TypeOK, NEW p \in Callers, Busy(p), NEW pc \in {"erase", "store", "read", "write", "forget"},
           Goto(p, pc)
    PROVE  \E c \in Call :
              /\ call' = [call EXCEPT ![p] = c]
              /\ c.pc = pc /\ c.op = call[p].op /\ c.name = call[p].name /\ c.entry = call[p].entry
              /\ c.file = call[p].file /\ c.input = call[p].input /\ c.given = call[p].given
              /\ c.valid = call[p].valid
  <1> DEFINE c == [call[p] EXCEPT !.pc = pc]
  <1>1. call[p] \in Call
    BY CallShape
  <1>2. c \in Call /\ c.pc = pc /\ c.op = call[p].op /\ c.name = call[p].name /\ c.entry = call[p].entry
        /\ c.file = call[p].file /\ c.input = call[p].input /\ c.given = call[p].given
        /\ c.valid = call[p].valid
    BY <1>1 DEF Call
  <1>3. call' = [call EXCEPT ![p] = c]
    BY DEF Goto
  <1> QED BY <1>2, <1>3

\* A call begins: from then on it knows its connection, or overlaps with others.
LEMMA Begins ==
    ASSUME ConnInv, NEW p \in Callers, ~Busy(p), NEW c \in Call, c = call'[p],
           call' \in [Callers -> Call \cup {Idle}], \A q \in Callers \ {p} : call'[q] = call[q],
           Mark("overlap", Overlapping(p, c.name)), UNCHANGED <<conns, keychain>>, calls' \in 0..MaxCalls,
           Formed(c), c.file = [conns EXCEPT ![c.name] = c.entry],
           Knows(c, conns[c.name], keychain[c.name])
    PROVE  ConnInv'
  <1> DEFINE others == {call[q].name : q \in {q \in Callers \ {p} : ~At(q, "idle")}}
  <1>1. TypeOK /\ c.pc # "idle" /\ c.name \in Names
    BY CallShape DEF ConnInv
  <1>2. others \subseteq Names
    BY <1>1, CallShape DEF At, Busy
  <1>3. Overlapping(p, c.name) \subseteq Names
    BY <1>1, <1>2 DEF Overlapping
  <1>4. marks \subseteq marks' /\ marks' \subseteq Reasons \X Names
    BY <1>1, <1>3 DEF Mark, TypeOK, Reasons
  <1>5. \A q \in Callers : call'[q] = IF q = p THEN c ELSE call[q]
    BY <1>1 DEF TypeOK
  <1>6. TypeOK'
    BY <1>1, <1>4 DEF TypeOK
  <1>7. \A q \in Callers : Busy(q)' => Formed(call'[q])
    BY <1>5 DEF ConnInv, Busy
  <1>8. ASSUME NEW n \in Names, Apart(n)', NEW q \in Callers, q # p, Busy(q)
        PROVE  Apart(n) /\ call[q].name # n /\ c.name # n
    <2>1. call[q].name \in others
      BY <1>8 DEF Busy, At
    <2>2. call[q].name \in Overlapping(p, c.name) /\ c.name \in Overlapping(p, c.name)
      BY <2>1 DEF Overlapping
    <2>3. <<"overlap", call[q].name>> \in marks' /\ <<"overlap", c.name>> \in marks'
      BY <2>2 DEF Mark
    <2> QED BY <1>4, <1>8, <2>3 DEF Apart
  <1>9. \A n \in Names : n # c.name => c.file[n] = conns[n]
    BY <1>1 DEF TypeOK, File
  <1>10. ASSUME NEW n \in Names
         PROVE  Alone(n)'
    <2> SUFFICES ASSUME Apart(n)'
                 PROVE  /\ \A q, r \in Callers : Busy(q)' /\ call'[q].name = n /\ Busy(r)' => q = r
                        /\ \A q \in Callers : Busy(q)' /\ call'[q].name = n => Knows(call'[q], conns'[n], keychain'[n])
                        /\ \A q \in Callers : Busy(q)' /\ call'[q].name # n => call'[q].file[n] = conns'[n]
      BY DEF Alone
    <2>1. Apart(n) /\ Alone(n)
      BY <1>4 DEF Apart, ConnInv
    <2>2. \A q, r \in Callers : Busy(q)' /\ call'[q].name = n /\ Busy(r)' => q = r
      BY <1>5, <1>8 DEF Busy
    <2>3. \A q \in Callers : Busy(q)' /\ call'[q].name = n => Knows(call'[q], conns'[n], keychain'[n])
      BY <1>5, <1>8 DEF Busy
    <2>4. \A q \in Callers : Busy(q)' /\ call'[q].name # n => call'[q].file[n] = conns'[n]
      <3>1. c.name # n => c.file[n] = conns'[n]
        BY <1>9
      <3>2. \A q \in Callers : Busy(q) /\ call[q].name # n => call[q].file[n] = conns[n]
        BY <2>1 DEF Alone
      <3> QED BY <1>5, <3>1, <3>2 DEF Busy
    <2> QED BY <2>2, <2>3, <2>4
  <1>11. ASSUME NEW n \in Names
         PROVE  Leads(n)'
    <2> SUFFICES ASSUME Apart(n)', ~Befell(n, {"cut", "cleared"})'
                 PROVE  \/ ~Dangles(n)'
                        \/ \E q \in Callers : Busy(q)' /\ call'[q].name = n /\ Clears(call'[q])
      BY DEF Leads
    <2>1. Leads(n) /\ Apart(n) /\ ~Befell(n, {"cut", "cleared"})
      BY <1>4 DEF Apart, Befell, ConnInv
    <2>2. Dangles(n)' <=> Dangles(n)
      BY DEF Dangles
    <2>3. \A q \in Callers : Busy(q) => q # p /\ call'[q] = call[q] /\ Busy(q)'
      BY <1>5 DEF Busy
    <2> QED BY <2>1, <2>2, <2>3 DEF Leads
  <1> QED BY <1>6, <1>7, <1>10, <1>11 DEF ConnInv

\* A call goes on: it changes nothing of connections that others are not at, and knows
\* its own.
LEMMA GoesOn ==
    ASSUME ConnInv, NEW p \in Callers, Busy(p), NEW name, name = call[p].name,
           NEW c \in Call \cup {Idle}, call' = [call EXCEPT ![p] = c],
           conns' \in File, keychain' \in [Names -> Passwords \cup {None}],
           calls' = calls, marks \subseteq marks', marks' \subseteq Reasons \X Names,
           \A n \in Names \ {name} : keychain'[n] = keychain[n],
           \A n \in Names \ {name} : Apart(n) => conns'[n] = conns[n],
           c # Idle => /\ c.name = name /\ Formed(c)
                       /\ Apart(name) => Knows(c, conns'[name], keychain'[name])
                       /\ \A n \in Names \ {name} : Apart(n) => c.file[n] = conns[n],
           Apart(name) /\ ~Befell(name, {"cut", "cleared"})'
              => ~Dangles(name)' \/ (c # Idle /\ Clears(c))
    PROVE  ConnInv'
  <1>1. TypeOK /\ name \in Names
    BY CallShape DEF ConnInv
  <1>2. \A q \in Callers : call'[q] = IF q = p THEN c ELSE call[q]
    BY <1>1 DEF TypeOK
  <1>3. \A q \in Callers : Busy(q)' <=> IF q = p THEN c # Idle ELSE Busy(q)
    BY <1>1, <1>2, CallShape DEF Busy
  <1>4. TypeOK'
    BY <1>1 DEF TypeOK
  <1>5. \A q \in Callers : Busy(q)' => Formed(call'[q])
    BY <1>2, <1>3 DEF ConnInv
  <1>6. ASSUME NEW n \in Names, Apart(n), NEW q \in Callers, Busy(q), call[q].name = n
        PROVE  q = p
    BY <1>6 DEF ConnInv, Alone
  <1>7. ASSUME NEW n \in Names, Apart(n), n = name, NEW q \in Callers, Busy(q)
        PROVE  q = p
    BY <1>7 DEF ConnInv, Alone
  <1>8. ASSUME NEW n \in Names
        PROVE  Alone(n)'
    <2> SUFFICES ASSUME Apart(n)'
                 PROVE  /\ \A q, r \in Callers : Busy(q)' /\ call'[q].name = n /\ Busy(r)' => q = r
                        /\ \A q \in Callers : Busy(q)' /\ call'[q].name = n => Knows(call'[q], conns'[n], keychain'[n])
                        /\ \A q \in Callers : Busy(q)' /\ call'[q].name # n => call'[q].file[n] = conns'[n]
      BY DEF Alone
    <2>1. Apart(n) /\ Alone(n)
      BY DEF Apart, ConnInv
    <2>2. \A q \in Callers : Busy(q)' /\ call'[q].name = n => q = p /\ c # Idle /\ name = n
      BY <1>2, <1>3, <1>6, <2>1
    <2>3. \A q, r \in Callers : Busy(q)' /\ call'[q].name = n /\ Busy(r)' => q = r
      BY <1>3, <1>7, <2>1, <2>2
    <2>4. \A q \in Callers : Busy(q)' /\ call'[q].name = n => Knows(call'[q], conns'[n], keychain'[n])
      BY <1>2, <2>1, <2>2
    <2>5. ASSUME NEW q \in Callers, Busy(q)', call'[q].name # n
          PROVE  call'[q].file[n] = conns'[n]
      <3>1. CASE q = p
        BY <1>2, <1>3, <2>1, <2>5, <3>1
      <3>2. CASE q # p
        <4>1. Busy(q) /\ call'[q] = call[q]
          BY <1>2, <1>3, <2>5, <3>2
        <4>2. n # name
          BY <1>7, <2>1, <3>2, <4>1
        <4> QED BY <2>1, <2>5, <4>1, <4>2 DEF Alone
      <3> QED BY <3>1, <3>2
    <2> QED BY <2>3, <2>4, <2>5
  <1>9. ASSUME NEW n \in Names
        PROVE  Leads(n)'
    <2> SUFFICES ASSUME Apart(n)', ~Befell(n, {"cut", "cleared"})'
                 PROVE  \/ ~Dangles(n)'
                        \/ \E q \in Callers : Busy(q)' /\ call'[q].name = n /\ Clears(call'[q])
      BY DEF Leads
    <2>1. Leads(n) /\ Apart(n) /\ ~Befell(n, {"cut", "cleared"})
      BY DEF Apart, Befell, ConnInv
    <2>2. CASE n = name
      <3>1. ~Dangles(n)' \/ (c # Idle /\ Clears(c))
        BY <2>1, <2>2
      <3> QED BY <1>2, <1>3, <2>2, <3>1
    <2>3. CASE n # name
      <3>1. Dangles(n)' <=> Dangles(n)
        BY <2>1, <2>3 DEF Dangles
      <3>2. \A q \in Callers : Busy(q) /\ call[q].name = n => q # p /\ call'[q] = call[q] /\ Busy(q)'
        BY <1>2, <1>3, <2>3
      <3> QED BY <2>1, <3>1, <3>2 DEF Leads
    <2> QED BY <2>2, <2>3
  <1> QED BY <1>4, <1>5, <1>8, <1>9 DEF ConnInv

LEMMA BuiltIs ==
    ASSUME NEW kind \in Kinds, NEW input \in Passwords \cup {Ref, None}
    PROVE  /\ Built(kind, input) \in Entry /\ Built(kind, input) # None
           /\ Built(kind, input).kind = kind
           /\ Built(kind, input).pw = IF kind = "sqlite" \/ input = None THEN None ELSE Ref
  BY ConnEntry DEF Built, Entry

\* What is known of a call at work.
LEMMA AtWorkKnows ==
    ASSUME ConnInv, NEW p \in Callers, Busy(p), NEW name, name = call[p].name
    PROVE  /\ TypeOK /\ call[p] \in Call /\ name \in Names /\ Formed(call[p])
           /\ Apart(name) => Knows(call[p], conns[name], keychain[name])
           /\ \A n \in Names \ {name} : Apart(n) => call[p].file[n] = conns[n]
           /\ Apart(name) /\ ~Befell(name, {"cut", "cleared"}) => ~Dangles(name) \/ Clears(call[p])
  <1>1. TypeOK /\ call[p] \in Call /\ name \in Names /\ Formed(call[p])
    BY CallShape DEF ConnInv
  <1>2. Apart(name) => Knows(call[p], conns[name], keychain[name])
    BY <1>1 DEF ConnInv, Alone
  <1>3. \A n \in Names \ {name} : Apart(n) => call[p].file[n] = conns[n]
    BY <1>1 DEF ConnInv, Alone
  <1>4. \A q \in Callers : Apart(name) /\ Busy(q) => q = p
    BY <1>1 DEF ConnInv, Alone
  <1>5. Apart(name) /\ ~Befell(name, {"cut", "cleared"}) => ~Dangles(name) \/ Clears(call[p])
    BY <1>1, <1>4 DEF ConnInv, Leads
  <1> QED BY <1>1, <1>2, <1>3, <1>5

\* What is written leads to a password.
LEMMA WrittenLeads ==
    ASSUME ConnInv, NEW p \in Callers, At(p, "write"), NEW name, name = call[p].name, Apart(name),
           ~Befell(name, {"cut", "cleared"}), call[p].op # "delete",
           conns'[name] = call[p].entry, keychain' = keychain
    PROVE  conns'[name] # None /\ (conns'[name].pw = Ref => keychain'[name] # None)
  <1>1. Busy(p) /\ call[p].pc = "write"
    BY DEF At, Busy
  <1>2. /\ TypeOK /\ call[p] \in Call /\ name \in Names /\ Formed(call[p])
        /\ Knows(call[p], conns[name], keychain[name])
        /\ ~Dangles(name) \/ Clears(call[p])
    BY <1>1, AtWorkKnows
  <1>3. /\ call[p].entry # None /\ call[p].entry = Built(call[p].entry.kind, call[p].input)
        /\ call[p].entry.kind \in Kinds /\ call[p].input \in Passwords \cup {Ref, None}
    BY <1>2, CallShape DEF Formed, Entry
  <1>4. CASE call[p].entry.pw = Ref
    <2>1. call[p].entry.kind # "sqlite" /\ call[p].input # None /\ Ref # None
      BY <1>3, <1>4, BuiltIs, ConnNone
    <2>2. ~Clears(call[p]) /\ call[p].given # "clear" /\ call[p].given \in {"keep", "clear", "set"}
      BY <1>2, <2>1, CallShape DEF Clears, Formed
    <2>3. call[p].entry.kind = "server"
      BY <1>2, <1>3, <2>1, <2>2 DEF Formed, Kinds
    <2>4. CASE call[p].input \in Passwords
      BY <1>1, <1>2, <1>3, <2>3, <2>4, ConnNone DEF Knows
    <2>5. CASE call[p].input = Ref
      <3>1. call[p].given = "keep" /\ conns[name].pw = Ref
        BY <1>2, <2>2, <2>5, ConnNone DEF Formed, Knows
      <3>2. conns[name] # None
        BY <1>2, <3>1 DEF Formed, Knows
      <3> QED BY <1>2, <1>3, <2>2, <3>1, <3>2 DEF Dangles
    <2> QED BY <1>3, <2>1, <2>4, <2>5
  <1> QED BY <1>3, <1>4

LEMMA StepKeeps ==
    ASSUME ConnInv, NEW p \in Callers, Steps(p)
    PROVE  ConnInv'
  <1>1. Busy(p)
    BY DEF Steps, Erase, Store, StoreFails, ReadBase, Persist, PersistFails, Forget, At, Busy
  <1>0. PICK name : name = call[p].name
    OBVIOUS
  <1>2. /\ TypeOK /\ call[p] \in Call /\ name \in Names /\ Formed(call[p])
        /\ Apart(name) => Knows(call[p], conns[name], keychain[name])
        /\ \A n \in Names \ {name} : Apart(n) => call[p].file[n] = conns[n]
        /\ Apart(name) /\ ~Befell(name, {"cut", "cleared"}) => ~Dangles(name) \/ Clears(call[p])
    BY <1>0, <1>1, AtWorkKnows
  <1>3. /\ conns \in File /\ keychain \in [Names -> Passwords \cup {None}] /\ marks \subseteq Reasons \X Names
        /\ \A v \in Passwords \cup {None} : [keychain EXCEPT ![name] = v] \in [Names -> Passwords \cup {None}]
    BY <1>0, <1>2 DEF TypeOK
  <1>4. Idle \in Call \cup {Idle}
    OBVIOUS
  <1>5. CASE Erase(p)
    <2>1. call[p].op = "update" /\ call[p].given = "clear" /\ call[p].input = None /\ call[p].pc = "erase"
      BY <1>0, <1>2, <1>5 DEF Erase, At, Formed
    <2>2. /\ conns' = conns /\ calls' = calls
          /\ keychain' \in [Names -> Passwords \cup {None}] /\ \A n \in Names \ {name} : keychain'[n] = keychain[n]
      BY <1>0, <1>3, <1>5 DEF Erase
    <2>3. CASE Goto(p, "write") /\ marks' = marks
      <3>1. PICK c \in Call :
              /\ call' = [call EXCEPT ![p] = c]
              /\ c.pc = "write" /\ c.op = call[p].op /\ c.name = call[p].name /\ c.entry = call[p].entry
              /\ c.file = call[p].file /\ c.input = call[p].input /\ c.given = call[p].given
              /\ c.valid = call[p].valid
        BY <1>0, <1>1, <1>2, <2>3, Going
      <3>2. Formed(c) /\ Clears(c)
        BY <1>0, <1>2, <2>1, <3>1 DEF Formed, Clears
      <3>3. Apart(name) => Knows(c, conns'[name], keychain'[name])
        BY <1>0, <1>2, <2>1, <2>2, <3>1, ConnNone DEF Knows
      <3>4. c # Idle
        BY <1>0, <3>1 DEF Idle
      <3>5. \A n \in Names \ {name} : Apart(n) => c.file[n] = conns[n]
        BY <1>2, <3>1
      <3>6. c \in Call \cup {Idle} /\ c.name = name /\ call' = [call EXCEPT ![p] = c]
        BY <1>0, <3>1
      <3> QED BY <1>0, <1>1, <1>2, <1>3, <2>2, <2>3, <3>2, <3>3, <3>4, <3>5, <3>6, GoesOn
    <2>4. CASE Return(p) /\ Mark("cleared", {name})
      <3>1. marks' = marks \cup ({"cleared"} \X {name})
        BY <1>0, <2>4 DEF Mark
      <3>2. marks \subseteq marks' /\ marks' \subseteq Reasons \X Names /\ <<"cleared", name>> \in marks'
        BY <1>0, <1>2, <1>3, <3>1 DEF Reasons
      <3>3. Befell(name, {"cut", "cleared"})'
        BY <1>0, <3>2 DEF Befell
      <3> QED BY <1>0, <1>1, <1>2, <1>3, <1>4, <2>2, <2>4, <3>2, <3>3, GoesOn DEF Return
    <2> QED BY <1>0, <1>5, <2>3, <2>4 DEF Erase
  <1>6. CASE Store(p)
    <2>1. call[p].pc = "store" /\ call[p].input \in Passwords /\ call[p].entry.kind = "server" /\ call[p].input # None
      BY <1>0, <1>2, <1>6, ConnNone DEF Store, At, Formed
    <2>2. /\ conns' = conns /\ calls' = calls /\ marks' = marks
          /\ keychain' \in [Names -> Passwords \cup {None}] /\ \A n \in Names \ {name} : keychain'[n] = keychain[n]
          /\ keychain'[name] = call[p].input
      BY <1>0, <1>2, <1>3, <1>6, <2>1 DEF Store
    <2>3. PICK c \in Call :
              /\ call' = [call EXCEPT ![p] = c]
              /\ c.pc = (IF call[p].op = "create" THEN "read" ELSE "write")
              /\ c.op = call[p].op /\ c.name = call[p].name /\ c.entry = call[p].entry
              /\ c.file = call[p].file /\ c.input = call[p].input /\ c.given = call[p].given
              /\ c.valid = call[p].valid
      BY <1>0, <1>1, <1>2, <1>6, Going DEF Store
    <2>4. Formed(c)
      BY <1>0, <1>2, <2>1, <2>3 DEF Formed
    <2>5. Apart(name) => Knows(c, conns'[name], keychain'[name])
      BY <1>0, <1>2, <2>1, <2>2, <2>3 DEF Knows
    <2>6. c # Idle
      BY <1>0, <2>3 DEF Idle
    <2>7. conns'[name] # None => keychain'[name] # None
      BY <1>0, <2>1, <2>2
    <2>8. ~Dangles(name)'
      BY <1>0, <2>2, <2>1 DEF Dangles
    <2>9. \A n \in Names \ {name} : Apart(n) => c.file[n] = conns[n]
      BY <1>2, <2>3
    <2>10. c \in Call \cup {Idle} /\ c.name = name /\ call' = [call EXCEPT ![p] = c]
      BY <1>0, <2>3
    <2> QED BY <1>0, <1>1, <1>2, <1>3, <2>2, <2>4, <2>5, <2>6, <2>8, <2>9, <2>10, GoesOn
  <1>7. CASE StoreFails(p)
    <2>1. call[p].pc = "store" /\ ~Clears(call[p])
      BY <1>0, <1>2, <1>7, ConnNone DEF StoreFails, At, Formed, Clears
    <2>2. Apart(name) /\ ~Befell(name, {"cut", "cleared"})' => ~Dangles(name)'
      BY <1>0, <1>2, <1>7, <2>1 DEF StoreFails, Befell, Dangles
    <2> QED BY <1>0, <1>1, <1>2, <1>3, <1>4, <1>7, <2>2, GoesOn DEF StoreFails, Return
  <1>8. CASE ReadBase(p)
    <2> DEFINE c == [call[p] EXCEPT !.pc = "write", !.file = [conns EXCEPT ![name] = call[p].entry]]
    <2>1. call[p].pc = "read" /\ call[p].op = "create" /\ call[p].given = "set" /\ call[p].entry \in Entry \cup {None}
      BY <1>0, <1>2, <1>8, CallShape DEF ReadBase, At, Formed
    <2>2. [conns EXCEPT ![name] = call[p].entry] \in File
      BY <1>0, <1>3, <2>1 DEF File
    <2>3. c \in Call
      BY <1>0, <1>2, <2>2 DEF Call
    <2>4. /\ c.pc = "write" /\ c.op = call[p].op /\ c.name = call[p].name /\ c.entry = call[p].entry
          /\ c.file = [conns EXCEPT ![name] = call[p].entry] /\ c.input = call[p].input
          /\ c.given = call[p].given /\ c.valid = call[p].valid
      BY <1>0, <1>2 DEF Call
    <2>5. call' = [call EXCEPT ![p] = c] /\ UNCHANGED <<conns, keychain, calls, marks>>
      BY <1>0, <1>8 DEF ReadBase
    <2> HIDE DEF c
    <2>6. c.file[name] = call[p].entry /\ \A n \in Names \ {name} : c.file[n] = conns[n]
      BY <1>0, <1>2, <1>3, <2>4 DEF File
    <2>7. Formed(c)
      BY <1>0, <1>2, <2>1, <2>4, <2>6 DEF Formed
    <2>8. Apart(name) => Knows(c, conns'[name], keychain'[name])
      BY <1>0, <1>2, <2>1, <2>4, <2>5 DEF Knows
    <2>9. c # Idle
      BY <1>0, <2>4 DEF Idle
    <2>10. Apart(name) /\ ~Befell(name, {"cut", "cleared"})' => ~Dangles(name)'
      BY <1>0, <1>2, <2>1, <2>5 DEF Befell, Dangles, Clears
    <2> QED BY <1>0, <1>1, <1>2, <1>3, <2>3, <2>4, <2>5, <2>6, <2>7, <2>8, <2>9, <2>10, GoesOn
  <1>9. CASE Persist(p)
    <2>1. call[p].pc = "write" /\ conns' = call[p].file /\ UNCHANGED <<keychain, calls, marks>>
      BY <1>0, <1>9 DEF Persist, At
    <2>2. /\ conns' \in File /\ conns'[name] = call[p].entry
          /\ \A n \in Names \ {name} : Apart(n) => conns'[n] = conns[n]
      BY <1>0, <1>2, <2>1, CallShape DEF Formed
    <2>3. CASE call[p].op = "delete"
      <3>1. PICK c \in Call :
              /\ call' = [call EXCEPT ![p] = c]
              /\ c.pc = "forget" /\ c.op = call[p].op /\ c.name = call[p].name /\ c.entry = call[p].entry
              /\ c.file = call[p].file /\ c.input = call[p].input /\ c.given = call[p].given
              /\ c.valid = call[p].valid
        BY <1>0, <1>1, <1>2, <1>9, <2>3, Going DEF Persist
      <3>2. Formed(c) /\ conns'[name] = None
        BY <1>0, <1>2, <2>2, <2>3, <3>1 DEF Formed
      <3>3. Apart(name) => Knows(c, conns'[name], keychain'[name])
        BY <1>0, <1>2, <2>1, <2>3, <3>1, <3>2 DEF Knows, Formed
      <3>4. c # Idle
        BY <1>0, <3>1 DEF Idle
      <3>5. ~Dangles(name)'
        BY <1>0, <3>2 DEF Dangles
      <3>6. \A n \in Names \ {name} : Apart(n) => c.file[n] = conns[n]
        BY <1>2, <3>1
      <3>7. c \in Call \cup {Idle} /\ c.name = name /\ call' = [call EXCEPT ![p] = c]
        BY <1>0, <3>1
      <3> QED BY <1>0, <1>1, <1>2, <1>3, <2>1, <2>2, <3>2, <3>3, <3>4, <3>5, <3>6, <3>7, GoesOn
    <2>4. CASE call[p].op # "delete"
      <3>1. Return(p)
        BY <1>0, <1>9, <2>4 DEF Persist
      <3>2. Apart(name) /\ ~Befell(name, {"cut", "cleared"}) =>
               conns'[name] # None /\ (conns'[name].pw = Ref => keychain'[name] # None)
        BY <1>0, <1>9, <2>1, <2>2, <2>4, WrittenLeads DEF Persist
      <3>3. Apart(name) /\ ~Befell(name, {"cut", "cleared"})' => ~Dangles(name)'
        BY <1>0, <2>1, <3>2 DEF Befell, Dangles
      <3> QED BY <1>0, <1>1, <1>2, <1>3, <1>4, <2>1, <2>2, <3>1, <3>3, GoesOn DEF Return
    <2> QED BY <1>0, <2>3, <2>4
  <1>10. CASE PersistFails(p)
    <2>1. /\ marks \subseteq marks' /\ marks' \subseteq Reasons \X Names
          /\ Clears(call[p]) => <<"cleared", name>> \in marks'
      BY <1>0, <1>2, <1>3, <1>10 DEF PersistFails, Mark, Reasons, Clears
    <2>2. Apart(name) /\ ~Befell(name, {"cut", "cleared"})' => ~Dangles(name)'
      BY <1>0, <1>2, <1>10, <2>1 DEF PersistFails, Befell, Dangles
    <2> QED BY <1>0, <1>1, <1>2, <1>3, <1>4, <1>10, <2>1, <2>2, GoesOn DEF PersistFails, Return
  <1>11. CASE Forget(p)
    <2>1. call[p].pc = "forget" /\ (Apart(name) => conns[name] = None)
      BY <1>0, <1>2, <1>11 DEF Forget, At, Knows
    <2>2. /\ keychain' \in [Names -> Passwords \cup {None}] /\ \A n \in Names \ {name} : keychain'[n] = keychain[n]
      BY <1>0, <1>3, <1>11 DEF Forget
    <2>3. Apart(name) => ~Dangles(name)'
      BY <1>0, <1>11, <2>1 DEF Forget, Dangles
    <2> QED BY <1>0, <1>1, <1>2, <1>3, <1>4, <1>11, <2>2, <2>3, GoesOn DEF Forget, Return
  <1> QED BY <1>0, <1>5, <1>6, <1>7, <1>8, <1>9, <1>10, <1>11 DEF Steps

LEMMA CreateKeeps ==
    ASSUME ConnInv, NEW p \in Callers, NEW n \in Names, NEW kind \in Kinds,
           NEW pw \in Passwords \cup {None}, Create(p, n, kind, pw), calls' \in 0..MaxCalls
    PROVE  /\ ConnInv' /\ ~Busy(p) /\ Busy(p)' /\ call'[p].op = "create" /\ call'[p].name = n
           /\ call'[p].entry = Built(kind, pw) /\ call'[p].input = pw
           /\ \A q \in Callers \ {p} : call'[q] = call[q]
           /\ UNCHANGED <<conns, keychain>> /\ Mark("overlap", Overlapping(p, n))
  <1> DEFINE pc == IF Stores(kind, pw) THEN "store" ELSE "read"
  <1>1. TypeOK
    BY DEF ConnInv
  <1>2. conns[n] = None /\ kind # "other" /\ Begin(p, "create", pc, n, Built(kind, pw), pw, "set", TRUE)
    BY DEF Create, Buildable
  <1>3. /\ Built(kind, pw) \in Entry /\ Built(kind, pw) # None /\ Built(kind, pw).kind = kind
        /\ pc \in {"erase", "store", "read", "write", "forget"} /\ pw \in Passwords \cup {Ref, None}
    BY BuiltIs
  <1>4. pc # "write" /\ (pc = "store" <=> Stores(kind, pw)) /\ (pc = "read" <=> ~Stores(kind, pw))
    OBVIOUS
  <1> HIDE DEF pc
  <1>5. PICK c : c = call'[p]
    OBVIOUS
  <1>6. /\ ~Busy(p) /\ UNCHANGED <<conns, keychain>> /\ Mark("overlap", Overlapping(p, n))
        /\ call' = [call EXCEPT ![p] = [pc |-> pc, op |-> "create", name |-> n, entry |-> Built(kind, pw),
                                        file |-> [conns EXCEPT ![n] = Built(kind, pw)], input |-> pw,
                                        given |-> "set", valid |-> TRUE]]
    BY <1>2 DEF Begin, At, Busy
  <1>7. /\ c.pc = pc /\ c.op = "create" /\ c.name = n /\ c.entry = Built(kind, pw) /\ c.input = pw
        /\ c.given = "set" /\ c.file = [conns EXCEPT ![n] = Built(kind, pw)] /\ c.file[n] = Built(kind, pw) /\ c \in Call
    <2>1. [conns EXCEPT ![n] = Built(kind, pw)] \in File /\ [conns EXCEPT ![n] = Built(kind, pw)][n] = Built(kind, pw)
      BY <1>1, <1>3 DEF TypeOK, File
    <2>2. c = [pc |-> pc, op |-> "create", name |-> n, entry |-> Built(kind, pw),
               file |-> [conns EXCEPT ![n] = Built(kind, pw)], input |-> pw,
               given |-> "set", valid |-> TRUE]
      BY <1>1, <1>5, <1>6 DEF TypeOK
    <2> QED BY <1>1, <1>3, <2>1, <2>2 DEF Call
  <1>8. call' \in [Callers -> Call \cup {Idle}] /\ \A q \in Callers \ {p} : call'[q] = call[q]
    BY <1>1, <1>5, <1>6, <1>7 DEF TypeOK
  <1>9. Formed(c)
    BY <1>2, <1>3, <1>4, <1>7 DEF Formed, Stores
  <1>10. Knows(c, conns[c.name], keychain[c.name])
    BY <1>2, <1>3, <1>4, <1>7 DEF Knows, Stores
  <1>11. ConnInv'
    BY <1>5, <1>6, <1>7, <1>8, <1>9, <1>10, Begins
  <1>12. Busy(p)'
    BY <1>1, <1>5, <1>7, CallShape DEF Busy
  <1> QED BY <1>5, <1>6, <1>7, <1>8, <1>11, <1>12


LEMMA UpdateKeeps ==
    ASSUME ConnInv, NEW p \in Callers, NEW n \in Names, NEW kind \in Kinds, NEW complete \in BOOLEAN,
           NEW given \in Passwords \cup {None}, Update(p, n, kind, complete, given), calls' \in 0..MaxCalls
    PROVE  ConnInv'
  <1>0. PICK input : input = IF given = None THEN conns[n].pw ELSE given
    OBVIOUS
  <1> DEFINE pc == IF Stores(kind, input) THEN "store" ELSE "write"
             how == IF given = None THEN "keep" ELSE "set"
  <1>1. TypeOK /\ conns[n] # None /\ conns[n] \in Entry /\ kind # "other"
    BY DEF ConnInv, TypeOK, File, Update, Buildable
  <1>2. Begin(p, "update", pc, n, Built(kind, input), input, how, TRUE)
    BY <1>0 DEF Update, CarryPassword
  <1>3. input \in Passwords \cup {Ref, None}
    BY <1>0, <1>1 DEF Entry
  <1>4. /\ Built(kind, input) \in Entry /\ Built(kind, input) # None /\ Built(kind, input).kind = kind
        /\ pc \in {"erase", "store", "read", "write", "forget"} /\ how \in {"keep", "clear", "set"}
    BY <1>3, BuiltIs
  <1>5. /\ pc # "read" /\ (pc = "store" <=> Stores(kind, input)) /\ (pc = "write" <=> ~Stores(kind, input))
        /\ how = "keep" => input = conns[n].pw
        /\ how = "set" => input \in Passwords \cup {None}
    BY <1>0
  <1> HIDE DEF pc, how
  <1>6. PICK c : c = call'[p]
    OBVIOUS
  <1>7. /\ ~Busy(p) /\ UNCHANGED <<conns, keychain>> /\ Mark("overlap", Overlapping(p, n))
        /\ call' = [call EXCEPT ![p] = [pc |-> pc, op |-> "update", name |-> n, entry |-> Built(kind, input),
                                        file |-> [conns EXCEPT ![n] = Built(kind, input)], input |-> input,
                                        given |-> how, valid |-> TRUE]]
    BY <1>2 DEF Begin, At, Busy
  <1>8. /\ c.pc = pc /\ c.op = "update" /\ c.name = n /\ c.entry = Built(kind, input) /\ c.input = input
        /\ c.given = how /\ c.file = [conns EXCEPT ![n] = Built(kind, input)] /\ c.file[n] = Built(kind, input) /\ c \in Call
    <2>1. [conns EXCEPT ![n] = Built(kind, input)] \in File /\ [conns EXCEPT ![n] = Built(kind, input)][n] = Built(kind, input)
      BY <1>1, <1>3, <1>4 DEF TypeOK, File
    <2>2. c = [pc |-> pc, op |-> "update", name |-> n, entry |-> Built(kind, input),
               file |-> [conns EXCEPT ![n] = Built(kind, input)], input |-> input,
               given |-> how, valid |-> TRUE]
      BY <1>1, <1>6, <1>7 DEF TypeOK
    <2> QED BY <1>1, <1>3, <1>4, <2>1, <2>2 DEF Call
  <1>9. call' \in [Callers -> Call \cup {Idle}] /\ \A q \in Callers \ {p} : call'[q] = call[q]
    BY <1>1, <1>6, <1>7, <1>8 DEF TypeOK
  <1>10. how # "clear"
    BY DEF how
  <1>11. Formed(c)
    BY <1>1, <1>4, <1>5, <1>8, <1>10 DEF Formed, Stores
  <1>12. Knows(c, conns[c.name], keychain[c.name])
    BY <1>1, <1>4, <1>5, <1>8 DEF Knows, Stores
  <1> QED BY <1>6, <1>7, <1>8, <1>9, <1>11, <1>12, Begins


LEMMA UpdateClearKeeps ==
    ASSUME ConnInv, NEW p \in Callers, NEW n \in Names, NEW kind \in Kinds, NEW complete \in BOOLEAN,
           UpdateClear(p, n, kind, complete), calls' \in 0..MaxCalls
    PROVE  ConnInv'
  <1>1. TypeOK /\ conns[n] # None /\ Buildable(kind, complete) \in BOOLEAN
    BY DEF ConnInv, UpdateClear, Buildable
  <1>2. Begin(p, "update", "erase", n, Built(kind, None), None, "clear", Buildable(kind, complete))
    BY DEF UpdateClear
  <1>3. Built(kind, None) \in Entry /\ Built(kind, None) # None /\ Built(kind, None).kind = kind
    BY BuiltIs
  <1>4. PICK c : c = call'[p]
    OBVIOUS
  <1>5. /\ ~Busy(p) /\ UNCHANGED <<conns, keychain>> /\ Mark("overlap", Overlapping(p, n))
        /\ call' = [call EXCEPT ![p] = [pc |-> "erase", op |-> "update", name |-> n, entry |-> Built(kind, None),
                                        file |-> [conns EXCEPT ![n] = Built(kind, None)], input |-> None,
                                        given |-> "clear", valid |-> Buildable(kind, complete)]]
    BY <1>2 DEF Begin, At, Busy
  <1>6. /\ c.pc = "erase" /\ c.op = "update" /\ c.name = n /\ c.entry = Built(kind, None) /\ c.input = None
        /\ c.given = "clear" /\ c.file = [conns EXCEPT ![n] = Built(kind, None)] /\ c.file[n] = Built(kind, None) /\ c \in Call
    <2>1. [conns EXCEPT ![n] = Built(kind, None)] \in File /\ [conns EXCEPT ![n] = Built(kind, None)][n] = Built(kind, None)
      BY <1>1, <1>3 DEF TypeOK, File
    <2>2. c = [pc |-> "erase", op |-> "update", name |-> n, entry |-> Built(kind, None),
               file |-> [conns EXCEPT ![n] = Built(kind, None)], input |-> None,
               given |-> "clear", valid |-> Buildable(kind, complete)]
      BY <1>1, <1>4, <1>5 DEF TypeOK
    <2> QED BY <1>1, <1>3, <2>1, <2>2 DEF Call
  <1>7. call' \in [Callers -> Call \cup {Idle}] /\ \A q \in Callers \ {p} : call'[q] = call[q]
    BY <1>1, <1>4, <1>5, <1>6 DEF TypeOK
  <1>8. Formed(c)
    BY <1>3, <1>6 DEF Formed
  <1>9. Knows(c, conns[c.name], keychain[c.name])
    BY <1>1, <1>6 DEF Knows
  <1> QED BY <1>4, <1>5, <1>6, <1>7, <1>8, <1>9, Begins


LEMMA DeleteKeeps ==
    ASSUME ConnInv, NEW p \in Callers, NEW n \in Names, Delete(p, n), calls' \in 0..MaxCalls
    PROVE  ConnInv'
  <1>1. TypeOK
    BY DEF ConnInv
  <1>2. Begin(p, "delete", "write", n, None, None, "clear", TRUE)
    BY DEF Delete
  <1>3. PICK c : c = call'[p]
    OBVIOUS
  <1>4. /\ ~Busy(p) /\ UNCHANGED <<conns, keychain>> /\ Mark("overlap", Overlapping(p, n))
        /\ call' = [call EXCEPT ![p] = [pc |-> "write", op |-> "delete", name |-> n, entry |-> None,
                                        file |-> [conns EXCEPT ![n] = None], input |-> None,
                                        given |-> "clear", valid |-> TRUE]]
    BY <1>2 DEF Begin, At, Busy
  <1>5. /\ c.pc = "write" /\ c.op = "delete" /\ c.name = n /\ c.entry = None /\ c.input = None
        /\ c.given = "clear" /\ c.file = [conns EXCEPT ![n] = None] /\ c.file[n] = None /\ c \in Call
    <2>1. [conns EXCEPT ![n] = None] \in File /\ [conns EXCEPT ![n] = None][n] = None
      BY <1>1 DEF TypeOK, File
    <2>2. c = [pc |-> "write", op |-> "delete", name |-> n, entry |-> None,
               file |-> [conns EXCEPT ![n] = None], input |-> None,
               given |-> "clear", valid |-> TRUE]
      BY <1>1, <1>3, <1>4 DEF TypeOK
    <2> QED BY <1>1, <2>1, <2>2 DEF Call
  <1>6. call' \in [Callers -> Call \cup {Idle}] /\ \A q \in Callers \ {p} : call'[q] = call[q]
    BY <1>1, <1>3, <1>4, <1>5 DEF TypeOK
  <1>7. Formed(c)
    BY <1>5 DEF Formed
  <1>8. Knows(c, conns[c.name], keychain[c.name])
    BY <1>5 DEF Knows
  <1> QED BY <1>3, <1>4, <1>5, <1>6, <1>7, <1>8, Begins

\* What a user asks for.
Asks(p, n) ==
    \/ \E kind \in Kinds, pw \in Typed \cup {None} : Create(p, n, kind, pw)
    \/ \E kind \in Kinds, complete \in BOOLEAN :
          \/ \E pw \in Typed \cup {None} : Update(p, n, kind, complete, pw)
          \/ UpdateClear(p, n, kind, complete)
    \/ Delete(p, n)

LEMMA AskKeeps ==
    ASSUME ConnInv, NEW p \in Callers, NEW n \in Names, Asks(p, n), Counted
    PROVE  ConnInv'
  <1>1. calls' \in 0..MaxCalls
    BY ConnCalls DEF Counted, ConnInv, TypeOK
  <1>2. Typed \cup {None} \subseteq Passwords \cup {None}
    BY ConnTyped
  <1>3. ASSUME NEW kind \in Kinds, NEW pw \in Typed \cup {None}, Create(p, n, kind, pw)
        PROVE  ConnInv'
    BY <1>1, <1>2, <1>3, CreateKeeps
  <1>4. ASSUME NEW kind \in Kinds, NEW complete \in BOOLEAN, NEW pw \in Typed \cup {None},
               Update(p, n, kind, complete, pw)
        PROVE  ConnInv'
    BY <1>1, <1>2, <1>4, UpdateKeeps
  <1>5. ASSUME NEW kind \in Kinds, NEW complete \in BOOLEAN, UpdateClear(p, n, kind, complete)
        PROVE  ConnInv'
    BY <1>1, <1>5, UpdateClearKeeps
  <1>6. CASE Delete(p, n)
    BY <1>1, <1>6, DeleteKeeps
  <1> QED BY <1>3, <1>4, <1>5, <1>6 DEF Asks

LEMMA RestartKeeps ==
    ASSUME ConnInv, Restart
    PROVE  ConnInv' /\ \A p \in Callers : ~Busy(p)'
  <1>1. TypeOK /\ Idle.pc = "idle" /\ UNCHANGED <<conns, keychain, calls>>
    BY DEF ConnInv, Idle, Restart
  <1>2. \A p \in Callers : call'[p] = Idle /\ ~Busy(p)'
    BY <1>1 DEF Restart, Busy
  <1> DEFINE cut == {call[q].name : q \in {q \in Callers : ~At(q, "idle") /\ Clears(call[q])}}
  <1>3. cut \subseteq Names
    BY <1>1, CallShape DEF At, Busy
  <1>4. marks' = marks \cup ({"cut"} \X cut)
    BY DEF Restart, Mark
  <1>5. marks \subseteq marks' /\ marks' \subseteq Reasons \X Names
    BY <1>1, <1>3, <1>4 DEF TypeOK, Reasons
  <1>6. TypeOK'
    <2>1. call' \in [Callers -> Call \cup {Idle}]
      BY DEF Restart
    <2> QED BY <1>1, <1>5, <2>1 DEF TypeOK
  <1>7. ASSUME NEW n \in Names
        PROVE  Alone(n)' /\ Leads(n)'
    <2>1. Alone(n)'
      BY <1>2 DEF Alone
    <2>2. CASE \E q \in Callers : Busy(q) /\ call[q].name = n /\ Clears(call[q])
      <3>1. n \in cut
        BY <2>2 DEF Busy, At
      <3>2. <<"cut", n>> \in marks'
        BY <1>4, <3>1
      <3> QED BY <2>1, <3>2 DEF Leads, Befell
    <2>3. CASE ~ \E q \in Callers : Busy(q) /\ call[q].name = n /\ Clears(call[q])
      <3>1. Leads(n)
        BY DEF ConnInv
      <3>2. Apart(n)' /\ ~Befell(n, {"cut", "cleared"})' => Apart(n) /\ ~Befell(n, {"cut", "cleared"})
        BY <1>5 DEF Apart, Befell
      <3>3. Dangles(n)' <=> Dangles(n)
        BY <1>1 DEF Dangles
      <3> QED BY <2>1, <2>3, <3>1, <3>2, <3>3 DEF Leads
    <2> QED BY <2>2, <2>3
  <1> QED BY <1>2, <1>6, <1>7 DEF ConnInv

LEMMA InitHolds ==
    ASSUME Init
    PROVE  ConnInv /\ \A p \in Callers : ~Busy(p)
  <1>1. conns \in [Names -> [kind : Kinds, pw : Typed \cup {None}] \cup {None}]
    BY ConnFound DEF Init
  <1>2. [kind : Kinds, pw : Typed \cup {None}] \subseteq Entry
    BY ConnTyped DEF Entry
  <1>3. conns \in File
    BY <1>1, <1>2 DEF File
  <1>4. \A p \in Callers : call[p] = Idle /\ ~Busy(p)
    BY DEF Init, Busy, Idle
  <1>5. TypeOK
    BY <1>3, ConnCalls DEF Init, TypeOK
  <1>6. \A n \in Names : conns[n] # None => conns[n].pw # Ref
    BY <1>1, ConnTyped, ConnNone
  <1>7. \A n \in Names : Alone(n) /\ Leads(n)
    BY <1>4, <1>6 DEF Alone, Leads, Dangles
  <1> QED BY <1>4, <1>5, <1>7 DEF ConnInv

LEMMA ConnStutters ==
    ASSUME ConnInv, UNCHANGED connVars
    PROVE  ConnInv'
  <1>1. TypeOK'
    BY DEF ConnInv, TypeOK, connVars
  <1>2. \A p \in Callers : Busy(p)' => Formed(call'[p])
    BY DEF ConnInv, Busy, connVars
  <1>3. ASSUME NEW n \in Names PROVE Alone(n)' /\ Leads(n)'
    <2>1. /\ call' = call /\ conns' = conns /\ keychain' = keychain /\ marks' = marks
          /\ Alone(n) /\ Leads(n)
      BY DEF ConnInv, connVars
    <2>2. Alone(n)'
      BY <2>1 DEF Alone, Busy, Apart
    <2>3. Leads(n)'
      BY <2>1 DEF Leads, Busy, Apart, Befell, Dangles
    <2> QED BY <2>2, <2>3
  <1> QED BY <1>1, <1>2, <1>3 DEF ConnInv

\* What the invariant says of the file at rest.
LEMMA InvResolves ==
    ASSUME ConnInv
    PROVE  ReferencesResolve
  BY DEF ConnInv, Leads, ReferencesResolve, Apart, Befell, AtWork, At, Busy
-----------------------------------------------------------------------------
(***************************************************************************)
(* The store by itself.                                                    *)
(***************************************************************************)
\* What a step of one call leaves alone.
LEMMA StepFrame ==
    ASSUME ConnInv, NEW p \in Callers, Steps(p), NEW name, name = call[p].name
    PROVE  /\ Busy(p) /\ name \in Names /\ marks \subseteq marks'
           /\ \A q \in Callers \ {p} : call'[q] = call[q]
           /\ Busy(p)' => call'[p].name = name
           /\ \A n \in Names \ {name} : keychain'[n] = keychain[n]
           /\ \A n \in Names \ {name} : Apart(n) => conns'[n] = conns[n]
  <1>1. Busy(p)
    BY DEF Steps, Erase, Store, StoreFails, ReadBase, Persist, PersistFails, Forget, At, Busy
  <1>2. /\ TypeOK /\ call[p] \in Call /\ name \in Names
        /\ \A n \in Names \ {name} : Apart(n) => call[p].file[n] = conns[n]
    BY <1>1, AtWorkKnows
  <1>3. marks \subseteq marks'
    BY DEF Steps, Erase, Store, StoreFails, ReadBase, Persist, PersistFails, Forget, Mark
  <1>4. \A q \in Callers \ {p} : call'[q] = call[q]
    BY <1>2 DEF TypeOK, Steps, Erase, Store, StoreFails, ReadBase, Persist, PersistFails, Forget, Goto, Return
  <1>5. Busy(p)' => call'[p].name = name
    <2>1. CASE Return(p)
      <3>1. call'[p] = Idle
        BY <1>2, <2>1 DEF TypeOK, Return
      <3> QED BY <3>1 DEF Busy, Idle
    <2>2. ASSUME NEW pc \in {"erase", "store", "read", "write", "forget"}, Goto(p, pc)
          PROVE  call'[p].name = name
      <3>1. PICK c \in Call : call' = [call EXCEPT ![p] = c] /\ c.name = call[p].name
        BY <1>1, <1>2, <2>2, Going
      <3> QED BY <1>2, <3>1 DEF TypeOK
    <2>3. CASE ReadBase(p)
      BY <1>2, <2>3 DEF ReadBase, TypeOK, Call
    <2> QED BY <2>1, <2>2, <2>3 DEF Steps, Erase, Store, StoreFails, Persist, PersistFails, Forget
  <1>6. \A n \in Names \ {name} : keychain'[n] = keychain[n]
    BY <1>2 DEF TypeOK, Steps, Erase, Store, StoreFails, ReadBase, Persist, PersistFails, Forget
  <1>7. \A n \in Names \ {name} : Apart(n) => conns'[n] = conns[n]
    BY <1>2 DEF Steps, Erase, Store, StoreFails, ReadBase, Persist, PersistFails, Forget
  <1> QED BY <1>1, <1>2, <1>3, <1>4, <1>5, <1>6, <1>7

\* An edit that keeps the password writes the one there was.
LEMMA StepEdits ==
    ASSUME ConnInv, NEW p \in Callers, Steps(p)
    PROVE  EditKeepsPassword
  <1> SUFFICES ASSUME NEW n \in Names, Apart(n),
                      \A q \in Callers : Busy(q) /\ call[q].name = n
                                         => call[q].given = "keep" /\ call[q].entry.kind # "sqlite"
               PROVE  Resolved(n)' = Resolved(n)
    BY DEF EditKeepsPassword, Befell, Apart, Busy
  <1>1. PICK name : name = call[p].name
    OBVIOUS
  <1>2. /\ Busy(p)
        /\ name # n => keychain'[n] = keychain[n] /\ conns'[n] = conns[n]
    BY <1>1, StepFrame
  <1>3. CASE name # n
    BY <1>2, <1>3 DEF Resolved
  <1>4. CASE name = n
    <2>1. /\ TypeOK /\ call[p] \in Call /\ Formed(call[p]) /\ Knows(call[p], conns[n], keychain[n])
          /\ call[p].given = "keep" /\ call[p].entry.kind # "sqlite"
      BY <1>1, <1>2, <1>4, AtWorkKnows
    <2>2. /\ call[p].pc \notin {"erase", "read", "forget"} /\ call[p].op = "update"
          /\ call[p].entry.kind # "other" /\ call[p].input = conns[n].pw /\ conns[n] # None
      BY <2>1 DEF Formed, Knows
    <2>3. call[p].entry # None /\ call[p].entry = Built(call[p].entry.kind, call[p].input)
          /\ call[p].entry.kind \in Kinds /\ call[p].input \in Passwords \cup {Ref, None}
      BY <2>1, <2>2, CallShape DEF Formed, Entry
    <2>4. CASE Store(p)
      <3>1. conns[n].pw \in Passwords /\ conns' = conns
        BY <2>1, <2>2, <2>4 DEF Store, At, Formed
      <3> QED BY <2>2, <3>1, ConnNone DEF Resolved
    <2>5. CASE Persist(p)
      <3>1. conns'[n] = call[p].entry /\ keychain' = keychain /\ call[p].pc = "write"
        BY <1>1, <1>4, <2>1, <2>5 DEF Persist, At, Formed
      <3>2. call[p].entry.kind = "server"
        BY <2>1, <2>2, <2>3 DEF Kinds
      <3>3. call[p].entry.pw = IF call[p].input = None THEN None ELSE Ref
        BY <2>3, <3>2, BuiltIs
      <3>4. call[p].input \in Passwords => keychain[n] = call[p].input
        BY <2>1, <2>2, <3>1, <3>2 DEF Knows
      <3> QED BY <2>2, <2>3, <3>1, <3>3, <3>4, ConnNone DEF Resolved
    <2>6. CASE StoreFails(p) \/ PersistFails(p)
      BY <2>6 DEF StoreFails, PersistFails, Resolved
    <2> QED BY <2>2, <2>4, <2>5, <2>6 DEF Steps, Erase, ReadBase, Forget, At
  <1> QED BY <1>3, <1>4

LEMMA StillEdits ==
    ASSUME UNCHANGED <<conns, keychain>>
    PROVE  EditKeepsPassword
  BY DEF EditKeepsPassword, Resolved

\* What the beginning of a call leaves alone.
LEMMA AskFrame ==
    ASSUME ConnInv, NEW p \in Callers, NEW n \in Names, Asks(p, n)
    PROVE  /\ ~Busy(p) /\ UNCHANGED <<conns, keychain>> /\ marks \subseteq marks'
           /\ call'[p].name = n /\ \A q \in Callers \ {p} : call'[q] = call[q]
  <1>1. TypeOK
    BY DEF ConnInv
  <1>2. At(p, "idle") /\ UNCHANGED <<conns, keychain>> /\ marks \subseteq marks'
    BY DEF Asks, Create, Update, UpdateClear, Delete, Begin, Mark
  <1>3. call'[p].name = n /\ \A q \in Callers \ {p} : call'[q] = call[q]
    <2>1. ASSUME NEW kind \in Kinds, NEW pw \in Typed \cup {None}, Create(p, n, kind, pw)
          PROVE  call'[p].name = n /\ \A q \in Callers \ {p} : call'[q] = call[q]
      BY <1>1, <2>1 DEF Create, Begin, TypeOK
    <2>2. ASSUME NEW kind \in Kinds, NEW complete \in BOOLEAN, NEW pw \in Typed \cup {None},
                 Update(p, n, kind, complete, pw)
          PROVE  call'[p].name = n /\ \A q \in Callers \ {p} : call'[q] = call[q]
      BY <1>1, <2>2 DEF Update, Begin, TypeOK
    <2>3. ASSUME NEW kind \in Kinds, NEW complete \in BOOLEAN, UpdateClear(p, n, kind, complete)
          PROVE  call'[p].name = n /\ \A q \in Callers \ {p} : call'[q] = call[q]
      BY <1>1, <2>3 DEF UpdateClear, Begin, TypeOK
    <2>4. CASE Delete(p, n)
      BY <1>1, <2>4 DEF Delete, Begin, TypeOK
    <2> QED BY <2>1, <2>2, <2>3, <2>4 DEF Asks
  <1> QED BY <1>1, <1>2, <1>3 DEF At, Busy

LEMMA NextKeeps ==
    ASSUME ConnInv, [Next]_connVars
    PROVE  ConnInv' /\ (EditKeepsPassword \/ UNCHANGED connVars)
  <1>1. ASSUME NEW p \in Callers, NEW n \in Names, Counted, Asks(p, n)
        PROVE  ConnInv' /\ EditKeepsPassword
    BY <1>1, AskKeeps, AskFrame, StillEdits
  <1>2. ASSUME NEW p \in Callers, Steps(p)
        PROVE  ConnInv' /\ EditKeepsPassword
    BY <1>2, StepKeeps, StepEdits
  <1>3. CASE Restart
    <2>1. UNCHANGED <<conns, keychain>>
      BY <1>3 DEF Restart
    <2> QED BY <1>3, <2>1, RestartKeeps, StillEdits
  <1>4. CASE UNCHANGED connVars
    BY <1>4, ConnStutters
  <1> QED BY <1>1, <1>2, <1>3, <1>4 DEF Next, Asks

\* Files, keychain and calls are of their types, for any number of connections and
\* callers.
THEOREM TypeCorrect == Spec => []TypeOK
  <1>1. Init => ConnInv
    BY InitHolds
  <1>2. ConnInv /\ [Next]_connVars => ConnInv'
    BY NextKeeps
  <1>3. ConnInv => TypeOK
    BY DEF ConnInv
  <1> QED BY <1>1, <1>2, <1>3, PTL DEF Spec

\* connections_store.rs: a reference in the file has its password in the keychain,
\* unless a call that clears it was cut short, failed or overlapped with another.
THEOREM ReferencesLead == Spec => []ReferencesResolve
  <1>1. Init => ConnInv
    BY InitHolds
  <1>2. ConnInv /\ [Next]_connVars => ConnInv'
    BY NextKeeps
  <1>3. ConnInv => ReferencesResolve
    BY InvResolves
  <1> QED BY <1>1, <1>2, <1>3, PTL DEF Spec

\* carry_password_ref: an edit that says nothing about the password leaves the
\* connection logging in as before, whichever of its steps fails.
THEOREM EditsKeep == Spec => [][EditKeepsPassword]_connVars
  <1>1. Init => ConnInv
    BY InitHolds
  <1>2. ConnInv /\ [Next]_connVars => ConnInv'
    BY NextKeeps
  <1>3. ConnInv /\ [Next]_connVars => [EditKeepsPassword]_connVars
    BY NextKeeps
  <1> QED BY <1>1, <1>2, <1>3, PTL DEF Spec
-----------------------------------------------------------------------------
(***************************************************************************)
(* The migration: what it is at, and what it has made.                     *)
(***************************************************************************)
LEMMA RowsAre ==
    ASSUME rows \in Tables
    PROVE  /\ Len(rows) \in Nat
           /\ \A i \in 1..Len(rows) : /\ rows[i].name \in Names /\ rows[i].kind \in Kinds
                                      /\ rows[i].pw \in Passwords \cup {None}
           /\ \A i, j \in 1..Len(rows) : rows[i].name = rows[j].name => i = j
  <1> DEFINE Row == [name : Names, kind : Kinds, whole : BOOLEAN, pw : Passwords \cup {None}]
  <1>1. rows \in Seq(Row) /\ \A i, j \in 1..Len(rows) : rows[i].name = rows[j].name => i = j
    BY TablesAssumption
  <1>2. \A row \in Row : row.name \in Names /\ row.kind \in Kinds /\ row.pw \in Passwords \cup {None}
    OBVIOUS
  <1> HIDE DEF Row
  <1>3. \A i \in 1..Len(rows) : rows[i] \in Row
    BY <1>1
  <1> QED BY <1>1, <1>2, <1>3

\* Going on leads to a row there is, or past all rows.
LEMMA GoingOn ==
    ASSUME rows \in Tables, NEW i \in Nat \ {0}, ToRow(i) \/ ToVariable(i)
    PROVE  mig'.pc # "creating" /\ (mig'.pc = "conns" => mig'.at \in 1..Len(rows))
  <1>1. Len(rows) \in Nat
    BY RowsAre
  <1>2. CASE ToVariable(i) \/ ToVariable(1)
    BY <1>2 DEF ToVariable, Enter
  <1>3. CASE i <= Len(rows) /\ Enter("conns", i)
    <2>1. mig' = [pc |-> "conns", at |-> i]
      BY <1>3 DEF Enter
    <2>2. i \in 1..Len(rows)
      BY <1>1, <1>3
    <2> QED BY <2>1, <2>2
  <1> QED BY <1>2, <1>3 DEF ToRow

\* A connection that nobody works on keeps its password.
LEMMA KeptStays ==
    ASSUME NEW row, Kept(row), marks \subseteq marks', row.name \in made' => row.name \in made,
           row.name \in made /\ Apart(row.name) =>
              /\ conns'[row.name] = conns[row.name] /\ keychain'[row.name] = keychain[row.name]
              /\ \A p \in Callers : Busy(p)' /\ call'[p].name = row.name => Busy(p) /\ call[p].name = row.name
    PROVE  Kept(row)'
  <1> SUFFICES ASSUME row.name \in made', row.kind = "server", Apart(row.name)'
               PROVE  ~AtWork(row.name)' /\ Resolved(row.name)' = row.pw
    BY DEF Kept
  <1>1. row.name \in made /\ Apart(row.name)
    BY DEF Apart
  <1>2. ~AtWork(row.name) /\ Resolved(row.name) = row.pw
    BY <1>1 DEF Kept
  <1>3. ~AtWork(row.name)'
    BY <1>1, <1>2 DEF AtWork, At, Busy
  <1> QED BY <1>1, <1>2, <1>3 DEF Resolved

\* What leaves the connections alone keeps what is made.
LEMMA MigStays ==
    ASSUME MigInv, UNCHANGED connVars, rows' = rows, made' = made, AtRow'
    PROVE  MigInv'
  <1>1. ConnInv'
    BY ConnStutters DEF MigInv
  <1>2. \A i \in 1..Len(rows) : Kept(rows[i])'
    BY KeptStays DEF MigInv, connVars, Busy
  <1> QED BY <1>1, <1>2 DEF MigInv

LEMMA MigrateKeeps ==
    ASSUME MigInv, MigrateConnection
    PROVE  MigInv' /\ EditKeepsPassword
  <1>1. PICK i \in 1..Len(rows) : i = mig.at
    BY DEF MigInv, AtRow, MigrateConnection
  <1>2. PICK row : row = rows[i]
    OBVIOUS
  <1>3. /\ row.name \in Names /\ row.kind \in Kinds /\ row.pw \in Passwords \cup {None}
        /\ \A j \in 1..Len(rows) : rows[j].name = row.name => j = i
    BY <1>1, <1>2, RowsAre DEF MigInv
  <1>4. /\ Create(Migrator, row.name, row.kind, row.pw) /\ mig' = [pc |-> "creating", at |-> i]
        /\ made' = made \ {row.name} /\ rows' = rows /\ calls' = calls
    BY <1>1, <1>2 DEF MigrateConnection, Password, Enter
  <1>5. ConnInv /\ calls' \in 0..MaxCalls /\ Migrator \in Callers
    BY <1>4, MigratorIsCaller DEF MigInv, ConnInv, TypeOK
  <1>6. /\ ConnInv' /\ Busy(Migrator)' /\ call'[Migrator].op = "create" /\ call'[Migrator].name = row.name
        /\ call'[Migrator].entry = Built(row.kind, row.pw) /\ call'[Migrator].input = row.pw
        /\ \A q \in Callers \ {Migrator} : call'[q] = call[q]
        /\ UNCHANGED <<conns, keychain>> /\ Mark("overlap", Overlapping(Migrator, row.name))
    BY <1>3, <1>4, <1>5, CreateKeeps
  <1>7. AtRow'
    BY <1>1, <1>2, <1>4, <1>6 DEF AtRow, Creates
  <1>8. marks \subseteq marks'
    BY <1>6 DEF Mark
  <1>9. ASSUME NEW j \in 1..Len(rows)
        PROVE  Kept(rows[j])'
    <2>1. PICK other : other = rows[j]
      OBVIOUS
    <2>2. Kept(other) /\ rows'[j] = other
      BY <1>4, <2>1 DEF MigInv
    <2>3. CASE other.name = row.name
      <3>1. Kept(other)'
        BY <1>4, <2>3 DEF Kept
      <3> QED BY <2>2, <3>1 DEF Kept
    <2>4. CASE other.name # row.name
      <3>1. \A p \in Callers : Busy(p)' /\ call'[p].name = other.name => Busy(p) /\ call[p].name = other.name
        BY <1>6, <2>4 DEF Busy
      <3>2. Kept(other)'
        BY <1>4, <1>6, <1>8, <2>2, <3>1, KeptStays
      <3> QED BY <2>2, <3>2 DEF Kept
    <2> QED BY <2>3, <2>4
  <1> QED BY <1>4, <1>6, <1>7, <1>9, StillEdits DEF MigInv

\* A user's call, or one of its steps.
LEMMA UserKeeps ==
    ASSUME MigInv, NEW p \in Callers, p # Migrator, UserCall(p) \/ UserStep(p)
    PROVE  MigInv' /\ EditKeepsPassword
  <1>1. ConnInv /\ Migrator \in Callers
    BY MigratorIsCaller DEF MigInv
  <1>2. CASE UserCall(p)
    <2>1. PICK n \in Names : Asks(p, n) /\ made' = made \ {n}
      BY <1>2 DEF UserCall, Asks
    <2>2. ConnInv' /\ UNCHANGED <<conns, keychain, rows, mig>>
      BY <1>1, <1>2, <2>1, AskKeeps, AskFrame DEF UserCall
    <2>3. /\ marks \subseteq marks' /\ call'[p].name = n /\ \A q \in Callers \ {p} : call'[q] = call[q]
      BY <1>1, <2>1, AskFrame
    <2>4. call'[Migrator] = call[Migrator]
      BY <1>1, <2>3
    <2>5. AtRow'
      BY <2>2, <2>4 DEF MigInv, AtRow, Busy
    <2>6. ASSUME NEW i \in 1..Len(rows)
          PROVE  Kept(rows[i])'
      <3>1. PICK row : row = rows[i]
        OBVIOUS
      <3>2. Kept(row) /\ rows'[i] = row
        BY <2>2, <3>1 DEF MigInv
      <3>3. CASE row.name = n
        BY <2>1, <3>2, <3>3 DEF Kept
      <3>4. CASE row.name # n
        <4>1. \A q \in Callers : Busy(q)' /\ call'[q].name = row.name => Busy(q) /\ call[q].name = row.name
          BY <2>3, <3>4 DEF Busy
        <4>2. Kept(row)'
          BY <2>1, <2>2, <2>3, <3>2, <4>1, KeptStays
        <4> QED BY <3>2, <4>2 DEF Kept
      <3> QED BY <3>3, <3>4
    <2> QED BY <2>2, <2>5, <2>6, StillEdits DEF MigInv
  <1>3. CASE UserStep(p)
    <2>1. Steps(p) /\ UNCHANGED <<rows, mig, made>>
      BY <1>3 DEF UserStep, migVars
    <2>2. PICK name : name = call[p].name
      OBVIOUS
    <2>3. /\ Busy(p) /\ name \in Names /\ marks \subseteq marks'
          /\ \A q \in Callers \ {p} : call'[q] = call[q]
          /\ Busy(p)' => call'[p].name = name
          /\ \A n \in Names \ {name} : keychain'[n] = keychain[n]
          /\ \A n \in Names \ {name} : Apart(n) => conns'[n] = conns[n]
      BY <1>1, <2>1, <2>2, StepFrame
    <2>4. call'[Migrator] = call[Migrator]
      BY <1>1, <2>3
    <2>5. AtRow'
      BY <2>1, <2>4 DEF MigInv, AtRow, Busy
    <2>6. ASSUME NEW i \in 1..Len(rows)
          PROVE  Kept(rows[i])'
      <3>1. PICK row : row = rows[i]
        OBVIOUS
      <3>2. Kept(row) /\ rows'[i] = row /\ row.name \in Names
        BY <2>1, <3>1, RowsAre DEF MigInv
      <3>3. CASE row.kind # "server"
        BY <3>2, <3>3 DEF Kept
      <3>4. CASE row.kind = "server"
        <4>1. row.name \in made /\ Apart(row.name) => row.name # name
          BY <2>2, <2>3, <3>2, <3>4 DEF Kept, AtWork, At, Busy
        <4>2. row.name \in made /\ Apart(row.name) =>
              /\ conns'[row.name] = conns[row.name] /\ keychain'[row.name] = keychain[row.name]
              /\ \A q \in Callers : Busy(q)' /\ call'[q].name = row.name => Busy(q) /\ call[q].name = row.name
          BY <2>2, <2>3, <3>2, <4>1 DEF Busy
        <4>3. Kept(row)'
          BY <2>1, <2>3, <3>2, <4>2, KeptStays
        <4> QED BY <3>2, <4>3 DEF Kept
      <3> QED BY <3>3, <3>4
    <2>7. ConnInv' /\ EditKeepsPassword
      BY <1>1, <2>1, StepKeeps, StepEdits
    <2> QED BY <2>1, <2>5, <2>6, <2>7 DEF MigInv
  <1> QED BY <1>2, <1>3

\* The steps of the migration's own create.
LEMMA CreatingKeeps ==
    ASSUME MigInv, CreateGoesOn \/ CreateSucceeds \/ CreateFails
    PROVE  MigInv' /\ EditKeepsPassword
  <1>1. ConnInv /\ TypeOK /\ Migrator \in Callers /\ Steps(Migrator)
    BY MigratorIsCaller DEF MigInv, ConnInv, CreateGoesOn, CreateSucceeds, CreateFails, Steps
  <1>2. PICK name : name = call[Migrator].name
    OBVIOUS
  <1>3. /\ Busy(Migrator) /\ name \in Names /\ marks \subseteq marks'
        /\ \A q \in Callers \ {Migrator} : call'[q] = call[q]
        /\ Busy(Migrator)' => call'[Migrator].name = name
        /\ \A n \in Names \ {name} : keychain'[n] = keychain[n]
        /\ \A n \in Names \ {name} : Apart(n) => conns'[n] = conns[n]
    BY <1>1, <1>2, StepFrame
  <1>4. PICK i \in 1..Len(rows) : i = mig.at
    BY <1>3 DEF MigInv, AtRow
  <1>5. PICK row : row = rows[i]
    OBVIOUS
  <1>6. /\ mig.pc = "creating" /\ call[Migrator].op = "create" /\ row.name = name
        /\ call[Migrator].entry = Built(row.kind, row.pw) /\ call[Migrator].input = row.pw
    BY <1>2, <1>3, <1>4, <1>5 DEF MigInv, AtRow, Creates
  <1>7. /\ rows \in Tables /\ rows' = rows /\ row.kind \in Kinds /\ row.pw \in Passwords \cup {None}
        /\ \A j \in 1..Len(rows) : rows[j].name = name => j = i
    BY <1>4, <1>5, <1>6, RowsAre DEF MigInv, CreateGoesOn, CreateSucceeds, CreateFails, migVars
  <1>8. ConnInv' /\ EditKeepsPassword
    BY <1>1, StepKeeps, StepEdits
  <1>9. CASE CreateGoesOn
    <2>1. mig' = mig /\ made' = made
      BY <1>9 DEF CreateGoesOn, migVars
    <2>2. /\ Busy(Migrator)' /\ call'[Migrator].op = "create" /\ call'[Migrator].name = name
          /\ call'[Migrator].entry = call[Migrator].entry /\ call'[Migrator].input = call[Migrator].input
      <3>1. CASE Store(Migrator)
        <4>1. Goto(Migrator, "read")
          BY <1>6, <3>1 DEF Store
        <4>2. PICK c \in Call :
                 /\ call' = [call EXCEPT ![Migrator] = c]
                 /\ c.pc = "read" /\ c.op = call[Migrator].op /\ c.name = call[Migrator].name
                 /\ c.entry = call[Migrator].entry /\ c.file = call[Migrator].file
                 /\ c.input = call[Migrator].input /\ c.given = call[Migrator].given
                 /\ c.valid = call[Migrator].valid
          BY <1>1, <1>3, <4>1, Going
        <4>3. call'[Migrator] = c
          BY <1>1, <4>2 DEF TypeOK
        <4> QED BY <1>2, <1>6, <4>2, <4>3 DEF Busy
      <3>2. CASE ReadBase(Migrator)
        <4>1. call[Migrator] \in Call
          BY <1>1, <1>3, CallShape
        <4>2. call'[Migrator] = [call[Migrator] EXCEPT !.pc = "write",
                                    !.file = [conns EXCEPT ![call[Migrator].name] = call[Migrator].entry]]
          BY <1>1, <3>2 DEF ReadBase, TypeOK
        <4> QED BY <1>2, <1>6, <4>1, <4>2 DEF Busy, Call
      <3> QED BY <1>9, <3>1, <3>2 DEF CreateGoesOn
    <2>3. AtRow'
      BY <1>3, <1>4, <1>5, <1>6, <1>7, <2>1, <2>2 DEF AtRow, Creates
    <2>4. ASSUME NEW j \in 1..Len(rows)
          PROVE  Kept(rows[j])'
      <3>1. PICK other : other = rows[j]
        OBVIOUS
      <3>2. Kept(other) /\ rows'[j] = other /\ other.name \in Names
        BY <1>7, <3>1, RowsAre DEF MigInv
      <3>3. CASE other.name = name
        <4>1. other = row
          BY <1>5, <1>7, <3>1, <3>3
        <4>2. other.kind = "server" /\ other.name \in made => ~Apart(name)
          BY <1>1, <1>2, <1>3, <3>2, <3>3 DEF Kept, AtWork, At, Busy
        <4>3. Kept(other)'
          BY <1>3, <2>1, <3>3, <4>2 DEF Kept, Apart
        <4> QED BY <3>2, <4>3 DEF Kept
      <3>4. CASE other.name # name
        <4>1. /\ keychain'[other.name] = keychain[other.name]
              /\ Apart(other.name) => conns'[other.name] = conns[other.name]
              /\ \A q \in Callers : Busy(q)' /\ call'[q].name = other.name => Busy(q) /\ call[q].name = other.name
          BY <1>3, <3>2, <3>4 DEF Busy
        <4>2. Kept(other)'
          BY <1>3, <2>1, <3>2, <4>1, KeptStays
        <4> QED BY <3>2, <4>2 DEF Kept
      <3> QED BY <3>3, <3>4
    <2> QED BY <1>7, <1>8, <2>3, <2>4 DEF MigInv
  <1>10. CASE CreateSucceeds
    <2>1. Persist(Migrator) /\ NextRow /\ made' = made \cup {name}
      BY <1>4, <1>5, <1>6, <1>10 DEF CreateSucceeds
    <2>2. call' = [call EXCEPT ![Migrator] = Idle] /\ conns' = call[Migrator].file /\ keychain' = keychain
          /\ marks' = marks /\ call[Migrator].pc = "write"
      BY <1>6, <2>1 DEF Persist, Return, At
    <2>3. call'[Migrator] = Idle /\ ~Busy(Migrator)'
      BY <1>1, <2>2 DEF TypeOK, Busy, Idle
    <2>4. AtRow'
      <3>1. ToRow(i + 1) /\ i + 1 \in Nat \ {0}
        BY <1>4, <2>1 DEF NextRow
      <3>2. mig'.pc # "creating" /\ (mig'.pc = "conns" => mig'.at \in 1..Len(rows))
        BY <1>7, <3>1, GoingOn
      <3> QED BY <1>7, <2>3, <3>2 DEF AtRow
    <2>5. ASSUME NEW j \in 1..Len(rows)
          PROVE  Kept(rows[j])'
      <3>1. PICK other : other = rows[j]
        OBVIOUS
      <3>2. Kept(other) /\ rows'[j] = other /\ other.name \in Names
        BY <1>7, <3>1, RowsAre DEF MigInv
      <3>3. CASE other.name = name
        <4>1. other = row
          BY <1>5, <1>7, <3>1, <3>3
        <4>2. SUFFICES ASSUME Apart(name), row.kind = "server"
                       PROVE  ~AtWork(name)' /\ Resolved(name)' = row.pw
          BY <2>2, <3>2, <3>3, <4>1 DEF Kept, Apart
        <4>3. \A q \in Callers : ~Busy(q)'
          BY <1>1, <1>2, <1>3, <2>3, <4>2 DEF ConnInv, Alone, Busy
        <4>4. /\ conns'[name] = Built("server", row.pw) /\ Formed(call[Migrator])
              /\ Knows(call[Migrator], conns[name], keychain[name])
          BY <1>1, <1>2, <1>3, <1>6, <2>2, <4>2, AtWorkKnows DEF Formed
        <4>5. /\ conns'[name] # None /\ conns'[name].pw = (IF row.pw = None THEN None ELSE Ref)
              /\ Built("server", row.pw).kind = "server"
          BY <1>7, <4>2, <4>4, BuiltIs
        <4>6. row.pw \in Passwords => keychain[name] = row.pw
          BY <1>6, <2>2, <4>2, <4>4, <4>5 DEF Knows
        <4>7. Resolved(name)' = row.pw
          BY <1>7, <2>2, <4>5, <4>6, ConnNone DEF Resolved
        <4>8. ~AtWork(name)'
          BY <4>3 DEF AtWork, At, Busy
        <4> QED BY <4>7, <4>8
      <3>4. CASE other.name # name
        <4>1. /\ keychain'[other.name] = keychain[other.name]
              /\ Apart(other.name) => conns'[other.name] = conns[other.name]
              /\ \A q \in Callers : Busy(q)' /\ call'[q].name = other.name => Busy(q) /\ call[q].name = other.name
          BY <1>3, <3>2, <3>4 DEF Busy
        <4>2. other.name \in made' => other.name \in made
          BY <2>1, <3>4
        <4>3. Kept(other)'
          BY <1>3, <3>2, <4>1, <4>2, KeptStays
        <4> QED BY <3>2, <4>3 DEF Kept
      <3> QED BY <3>3, <3>4
    <2> QED BY <1>7, <1>8, <2>4, <2>5 DEF MigInv
  <1>11. CASE CreateFails
    <2>1. Return(Migrator) /\ UNCHANGED <<conns, keychain>> /\ mig' = Off /\ made' = made
      BY <1>11 DEF CreateFails, StoreFails, PersistFails
    <2>2. call'[Migrator] = Idle /\ ~Busy(Migrator)'
      BY <1>1, <2>1 DEF TypeOK, Busy, Idle, Return
    <2>3. AtRow'
      BY <2>1, <2>2 DEF AtRow, Off
    <2>4. \A q \in Callers : Busy(q)' => Busy(q) /\ call'[q] = call[q]
      BY <1>3, <2>2 DEF Busy
    <2>5. \A j \in 1..Len(rows) : Kept(rows[j])'
      <3> SUFFICES ASSUME NEW j \in 1..Len(rows)
                   PROVE  Kept(rows[j])'
        OBVIOUS
      <3>1. PICK other : other = rows[j]
        OBVIOUS
      <3>2. Kept(other) /\ rows'[j] = other
        BY <1>7, <3>1 DEF MigInv
      <3>3. Kept(other)'
        BY <1>3, <2>1, <2>4, <3>2, KeptStays
      <3> QED BY <3>2, <3>3 DEF Kept
    <2> QED BY <1>7, <1>8, <2>3, <2>5 DEF MigInv
  <1> QED BY <1>9, <1>10, <1>11

LEMMA CrashKeeps ==
    ASSUME MigInv, Crash
    PROVE  MigInv' /\ EditKeepsPassword
  <1>1. /\ Restart /\ UNCHANGED <<rows, made, conns, keychain>> /\ mig' = Off /\ marks \subseteq marks'
        /\ Migrator \in Callers
    BY MigratorIsCaller DEF Crash, Restart, Mark
  <1>2. ConnInv' /\ \A p \in Callers : ~Busy(p)'
    BY <1>1, RestartKeeps DEF MigInv
  <1>3. AtRow'
    BY <1>1, <1>2 DEF AtRow, Off
  <1>4. ASSUME NEW i \in 1..Len(rows)
        PROVE  Kept(rows[i])'
    <2>1. PICK row : row = rows[i]
      OBVIOUS
    <2>2. Kept(row) /\ rows'[i] = row
      BY <1>1, <2>1 DEF MigInv
    <2>3. Kept(row)'
      BY <1>1, <1>2, <2>2, KeptStays
    <2> QED BY <2>2, <2>3 DEF Kept
  <1> QED BY <1>1, <1>2, <1>3, <1>4, StillEdits DEF MigInv

\* The steps that leave the connections alone.
LEMMA OthersKeep ==
    ASSUME MigInv,
           \/ StartMigration \/ SkipConnection \/ RefuseConnection
           \/ MigrateVariable \/ VariableFails \/ MigratePrefs \/ PrefsFail \/ Edit
           \/ UNCHANGED all
    PROVE  MigInv' /\ EditKeepsPassword
  <1>1. UNCHANGED connVars /\ rows' = rows /\ made' = made
    BY DEF StartMigration, SkipConnection, RefuseConnection, MigrateVariable, VariableFails, MigratePrefs,
           PrefsFail, Edit, all, migVars
  <1>2. Busy(Migrator)' <=> Busy(Migrator)
    BY <1>1 DEF Busy, connVars
  <1>3. mig' = mig \/ (mig.pc # "creating" /\ mig'.pc # "creating" /\ (mig'.pc = "conns" => mig'.at \in 1..Len(rows)))
    <2>1. CASE StartMigration
      <3>1. mig.pc = "off" /\ ToRow(1)
        BY <2>1 DEF StartMigration, Off
      <3> QED BY <3>1, GoingOn DEF MigInv
    <2>2. CASE SkipConnection
      <3>1. mig.pc = "conns" /\ mig.at \in 1..Len(rows) /\ ToRow(mig.at + 1)
        BY <2>2 DEF SkipConnection, NextRow, MigInv, AtRow
      <3>2. mig.at + 1 \in Nat \ {0}
        BY <3>1
      <3> QED BY <3>1, <3>2, GoingOn DEF MigInv
    <2>3. CASE MigrateVariable
      <3>1. mig.pc = "vars" /\ ToVariable(mig.at + 1)
        BY <2>3 DEF MigrateVariable, NextVar
      <3>2. mig'.pc # "creating" /\ mig'.pc # "conns"
        BY <3>1 DEF ToVariable, Enter
      <3> QED BY <3>1, <3>2
    <2>4. CASE RefuseConnection \/ VariableFails \/ MigratePrefs \/ PrefsFail
      BY <2>4 DEF RefuseConnection, VariableFails, MigratePrefs, PrefsFail, Off
    <2>5. CASE Edit \/ UNCHANGED all
      BY <2>5 DEF Edit, all, migVars
    <2> QED BY <2>1, <2>2, <2>3, <2>4, <2>5
  <1>4. AtRow'
    <2>1. CASE mig' = mig
      BY <1>1, <1>2, <2>1 DEF MigInv, AtRow, connVars
    <2>2. CASE mig' # mig
      BY <1>1, <1>2, <1>3, <2>2 DEF MigInv, AtRow
    <2> QED BY <2>1, <2>2
  <1>5. EditKeepsPassword
    BY <1>1, StillEdits DEF connVars
  <1> QED BY <1>1, <1>4, <1>5, MigStays

LEMMA MigNextKeeps ==
    ASSUME MigInv, [MigNext]_all
    PROVE  MigInv' /\ EditKeepsPassword
  BY MigrateKeeps, UserKeeps, CreatingKeeps, CrashKeeps, OthersKeep DEF MigNext

LEMMA MigInitHolds ==
    ASSUME MigInit
    PROVE  MigInv
  <1>1. ConnInv /\ ~Busy(Migrator)
    BY InitHolds, MigratorIsCaller DEF MigInit
  <1>2. AtRow
    BY <1>1 DEF MigInit, AtRow, Off
  <1> QED BY <1>1, <1>2 DEF MigInit, MigInv, Kept

LEMMA MadeKeepsPassword ==
    ASSUME MigInv
    PROVE  MigratedKeepsPassword
  BY DEF MigInv, Kept, MigratedKeepsPassword, Befell, Apart

\* The references of the connections lead to passwords while a migration runs beside the
\* calls of users, is stopped, and is run again.
THEOREM MigratedReferencesLead == MigSpec => []ReferencesResolve
  <1>1. MigInit => MigInv
    BY MigInitHolds
  <1>2. MigInv /\ [MigNext]_all => MigInv'
    BY MigNextKeeps
  <1>3. MigInv => ReferencesResolve
    BY InvResolves DEF MigInv
  <1> QED BY <1>1, <1>2, <1>3, PTL DEF MigSpec

\* A connection logs in with the password it was last given, by a user or from its row:
\* no edit about something else, no failure and no second migration changes it.
THEOREM PasswordsStay == MigSpec => PasswordsKept
  <1>1. MigInit => MigInv
    BY MigInitHolds
  <1>2. MigInv /\ [MigNext]_all => MigInv'
    BY MigNextKeeps
  <1>3. MigInv /\ MigInv' /\ [MigNext]_all => [EditKeepsPassword /\ MigratedKeepsPassword']_all
    <2>1. MigInv' => MigratedKeepsPassword'
      BY MadeKeepsPassword, PTL
    <2> QED BY <2>1, MigNextKeeps
  <1> QED BY <1>1, <1>2, <1>3, PTL DEF MigSpec, PasswordsKept

-----------------------------------------------------------------------------
(* The schema: starts that can be trusted                                  *)

G == GuardAt
Within(p, lo, hi) == Starting(p) /\ proc[p].at \in lo..hi

\* Between the statements of the rebuild: schema_cache is away, its old form is there,
\* its index is away.
Away(p) == Within(p, G + 3, G + 3)
Inside(p) == Within(p, G + 3, G + 5)
Unindexed(p) == Within(p, G + 2, G + 6)

\* An object is there, or a start under way will put it there.
InPlace(o) ==
    \/ Exists(db, o)
    \/ o \in {CacheTable, CacheName} /\ \E q \in Procs : Away(q)
    \/ o = CacheIndex /\ \E q \in Procs : Unindexed(q)

\* What the statements before the i-th make.
MadeBefore(i) ==
    {Script[j].obj : j \in {k \in 1..(i - 1) : k \in DOMAIN Script /\ Makes(Script[k])}}
    \union (IF i > CacheAt THEN {CacheTable} ELSE {})

\* Nothing is hurt, or the start is on its own and will mend it.
Trusted(p) == Starting(p) /\ (~hurt \/ proc[p].alone)

\* How the rebuild has left schema_cache before its i-th statement.
Rebuilt(i) ==
    /\ i > G + 2 => ~HasFk(db)
    /\ i \in G + 3..G + 4 => OldName \in db
    /\ i \in G + 3..G + 5 => OldTable \in db
    /\ i = G + 3 => OfTable(db, Cache) = {}
    /\ i = G + 4 => CacheRows \notin db

Keeps(p) == Trusted(p) => Rebuilt(proc[p].at) /\ \A o \in MadeBefore(proc[p].at) : InPlace(o)

\* A start is alone as long as no other process runs.
AloneApart == \A p, q \in Procs :
    p # q /\ proc[p] # NotRunning /\ proc[q] # NotRunning => ~proc[p].alone
OneInside == ~hurt => \A p, q \in Procs : Inside(p) /\ Inside(q) => p = q
\* schema_cache_old is that of the start inside, or nobody rebuilds any more.
OldOwned ==
    ~hurt /\ OldTable \in db =>
        \/ \E q \in Procs : Inside(q)
        \/ ~HasFk(db) /\ CacheTable \in db /\ \A p \in Procs : ~Within(p, G + 1, G + 2)
RowsKept ==
    ~hurt /\ cached =>
        CacheRows \in db \/ (OldRows \in db /\ \E q \in Procs : Within(q, G + 3, G + 4))

\* A start that rebuilds alone has found the foreign key.
FkFound == \A p \in Procs : proc[p].alone /\ Within(p, G + 1, G + 2) => HasFk(db)

SchemaInv ==
    /\ DbTypeOK
    /\ \A p \in Procs : Keeps(p)
    /\ AloneApart /\ OneInside /\ OldOwned /\ RowsKept
    /\ FkFound /\ WholeUnlessHurt /\ FailsOnlySetAside
-----------------------------------------------------------------------------
(* The script                                                              *)

LEMMA Places ==
    /\ G \in Nat /\ CacheAt \in Nat /\ 1 <= CacheAt /\ CacheAt < G
    /\ Len(Script) \in Nat /\ DOMAIN Script = 1..Len(Script)
    /\ PastDropFk = G + 7 /\ G + 7 <= Len(Script)
  BY ScriptAssumption DEF RebuildAssumption, G

LEMMA GuardNat == G \in Nat
  BY Places

LEMMA RebuildRange ==
    ASSUME NEW i \in G..(G + 6)
    PROVE  i = G \/ i = G + 1 \/ i = G + 2 \/ i = G + 3 \/ i = G + 4 \/ i = G + 5 \/ i = G + 6
  BY GuardNat

\* The statements of the rebuild, which are all strict.
LEMMA RebuildAt ==
    /\ \A i \in G..(G + 6) : Script[i].strict
    /\ Script[G].op = "guard" /\ Script[G].needs = {}
    /\ Script[G + 1].op = "dropIndex" /\ Script[G + 1].needs = {}
    /\ Script[G + 2].op = "rename" /\ Script[G + 2].needs = {CacheTable}
    /\ Script[G + 3].op = "createNew" /\ Script[G + 3].needs = {}
    /\ Script[G + 4].op = "copy" /\ Script[G + 4].needs = {CacheTable, OldName}
    /\ Script[G + 5].op = "dropOld" /\ Script[G + 5].needs = {OldTable}
    /\ MakesIndex(Script[G + 6])
  BY ScriptAssumption DEF RebuildAssumption, Is, G

\* The rebuild makes the index, at its end.
LEMMA RebuildMakes ==
    ASSUME NEW i \in G..(G + 6), Makes(Script[i])
    PROVE  i = G + 6 /\ Script[i].obj = CacheIndex
  <1>1. /\ ~Makes(Script[G]) /\ ~Makes(Script[G + 1]) /\ ~Makes(Script[G + 2])
        /\ ~Makes(Script[G + 3]) /\ ~Makes(Script[G + 4]) /\ ~Makes(Script[G + 5])
    BY RebuildAt DEF Makes
  <1>2. i = G \/ i = G + 1 \/ i = G + 2 \/ i = G + 3 \/ i = G + 4 \/ i = G + 5 \/ i = G + 6
    BY RebuildRange
  <1>3. i = G + 6
    BY <1>1, <1>2
  <1> QED BY <1>3, RebuildAt DEF MakesIndex

\* The other statements.
LEMMA OtherAt ==
    ASSUME NEW i \in DOMAIN Script, i \notin G..(G + 6)
    PROVE  /\ i = CacheAt => Script[i].op = "createCache" /\ Script[i].needs = {}
           /\ i # CacheAt => Makes(Script[i])
           /\ Script[i].op = "alter" => ~Script[i].strict
           /\ Script[i].obj[1] # Old
           /\ Script[i].obj[1] = Cache /\ i # CacheAt =>
                  /\ CacheAt < i /\ i < G /\ ~Script[i].strict
                  /\ MakesName(Script[i]) \/ MakesIndex(Script[i])
           /\ \A o \in Script[i].needs :
                  /\ o[1] # Old /\ (o[1] = Cache => Script[i].obj[1] = Cache)
                  /\ o = CacheTable \/ \E j \in 1..(i - 1) : Makes(Script[j]) /\ Script[j].obj = o
  <1>1. i \in DOMAIN Script \ (GuardAt..(GuardAt + 6))
    BY DEF G
  <1>2. i \in CacheAt..GuardAt /\ i # CacheAt => CacheAt < i /\ i < G
    BY <1>1, Places DEF G
  <1> QED BY <1>1, <1>2, ScriptAssumption DEF OthersAssumption, Is

\* Before the rebuild the column and the index of schema_cache are made.
LEMMA MadeBeforeRebuild ==
    ASSUME NEW i \in Nat, i >= G
    PROVE  {CacheTable, CacheName, CacheIndex} \subseteq MadeBefore(i)
  <1>1. PICK j \in CacheAt..GuardAt : MakesIndex(Script[j])
    BY ScriptAssumption DEF OthersAssumption
  <1>2. j # G /\ j # CacheAt
    BY RebuildAt, OtherAt, Places, <1>1 DEF MakesIndex
  <1>3. j \in DOMAIN Script /\ j < G /\ j \notin G..(G + 6)
    BY <1>1, <1>2, Places DEF G
  <1>4. CacheName \in Script[j].needs /\ CacheName # CacheTable
    BY <1>1 DEF MakesIndex, CacheName, CacheTable, Table
  <1>5. PICK k \in 1..(j - 1) : Makes(Script[k]) /\ Script[k].obj = CacheName
    BY <1>3, <1>4, OtherAt
  <1>6. k \in DOMAIN Script /\ k \in 1..(i - 1) /\ j \in 1..(i - 1)
    BY <1>3, <1>5, Places
  <1>7. Makes(Script[j]) /\ Script[j].obj = CacheIndex
    BY <1>1 DEF MakesIndex, Makes
  <1>8. CacheName \in MadeBefore(i) /\ CacheIndex \in MadeBefore(i)
    BY <1>3, <1>5, <1>6, <1>7 DEF MadeBefore
  <1> QED BY <1>8, Places DEF MadeBefore

\* What a statement needs, an earlier one has made.
LEMMA NeedsMade ==
    ASSUME NEW i \in DOMAIN Script, i \notin G..(G + 6), NEW o \in Script[i].needs
    PROVE  o \in MadeBefore(i)
  <1>1. CASE o = CacheTable
    <2>1. o[1] = Cache
      BY <1>1 DEF CacheTable
    <2>2. i # CacheAt
      BY OtherAt
    <2>3. CacheAt < i
      BY <2>1, <2>2, OtherAt
    <2> QED BY <1>1, <2>3 DEF MadeBefore
  <1>2. CASE o # CacheTable
    <2>1. PICK j \in 1..(i - 1) : Makes(Script[j]) /\ Script[j].obj = o
      BY <1>2, OtherAt
    <2> QED BY <2>1, Places DEF MadeBefore
  <1> QED BY <1>1, <1>2

\* Nothing is made of schema_cache_old, and of schema_cache nothing but these three.
LEMMA MadeAre ==
    ASSUME NEW i \in Nat, NEW o \in MadeBefore(i)
    PROVE  o[1] # Old /\ (o[1] = Cache => o \in {CacheTable, CacheName, CacheIndex})
  <1>1. CASE o = CacheTable
    BY <1>1 DEF CacheTable, Cache, Old
  <1>2. CASE o # CacheTable
    <2>1. PICK j \in DOMAIN Script : Makes(Script[j]) /\ Script[j].obj = o
      BY <1>2 DEF MadeBefore
    <2>2. CASE j \in G..(G + 6)
      <3>1. o = CacheIndex
        BY <2>1, <2>2, RebuildMakes
      <3>2. o[1] # Old
        BY <3>1 DEF CacheIndex, Cache, Old
      <3> QED BY <3>1, <3>2
    <2>3. CASE j \notin G..(G + 6)
      <3>1. j # CacheAt
        BY <2>1, <2>3, OtherAt DEF Makes
      <3> QED BY <2>1, <2>3, <3>1, OtherAt DEF MakesName, MakesIndex
    <2> QED BY <2>2, <2>3
  <1> QED BY <1>1, <1>2

\* The next statement's object comes to those made before.
LEMMA MadeNext ==
    ASSUME NEW i \in DOMAIN Script, NEW o \in MadeBefore(i + 1)
    PROVE  \/ o \in MadeBefore(i)
           \/ Makes(Script[i]) /\ o = Script[i].obj
           \/ i = CacheAt /\ o = CacheTable
  <1>1. i \in Nat /\ CacheAt \in Nat
    BY Places
  <1>2. CASE o = CacheTable /\ i + 1 > CacheAt
    BY <1>1, <1>2 DEF MadeBefore
  <1>3. CASE \E j \in 1..i : j \in DOMAIN Script /\ Makes(Script[j]) /\ o = Script[j].obj
    <2>1. PICK j \in 1..i : j \in DOMAIN Script /\ Makes(Script[j]) /\ o = Script[j].obj
      BY <1>3
    <2>2. j = i \/ j \in 1..(i - 1)
      BY <1>1, <2>1
    <2> QED BY <2>1, <2>2 DEF MadeBefore
  <1> QED BY <1>1, <1>2, <1>3 DEF MadeBefore

\* At the end the schema is made, and the guard passes over nothing that is not made.
LEMMA MadeAll == \A o \in Schema : o \in MadeBefore(Len(Script) + 1)
  <1> SUFFICES ASSUME NEW o \in Schema PROVE o \in MadeBefore(Len(Script) + 1)
    OBVIOUS
  <1>1. CASE o = CacheTable
    BY <1>1, Places DEF MadeBefore
  <1>2. CASE o # CacheTable
    <2>1. PICK j \in DOMAIN Script : Makes(Script[j]) /\ Script[j].obj = o
      BY <1>2 DEF Schema
    <2>2. j \in 1..(Len(Script) + 1 - 1)
      BY Places
    <2> QED BY <2>1, <2>2 DEF MadeBefore
  <1> QED BY <1>1, <1>2

LEMMA MadePast ==
    ASSUME NEW o \in MadeBefore(G + 7)
    PROVE  o \in MadeBefore(G)
  <1>1. CASE o = CacheTable
    BY <1>1, Places DEF MadeBefore
  <1>2. CASE o # CacheTable
    <2>1. PICK j \in 1..(G + 6) : j \in DOMAIN Script /\ Makes(Script[j]) /\ Script[j].obj = o
      BY <1>2, Places DEF MadeBefore
    <2>2. CASE j < G
      BY <2>1, <2>2, Places DEF MadeBefore
    <2>3. CASE j >= G
      <3>1. j \in G..(G + 6)
        BY <2>1, <2>3, Places
      <3>2. o = CacheIndex
        BY <2>1, <3>1, RebuildMakes
      <3> QED BY <3>2, MadeBeforeRebuild, Places
    <2> QED BY <2>1, <2>2, <2>3, Places
  <1> QED BY <1>1, <1>2

-----------------------------------------------------------------------------
(* What a step does                                                        *)

LEMMA EffectIs ==
    ASSUME NEW d, NEW s
    PROVE  /\ s.op = "guard" => Effect(d, s) = d
           /\ s.op = "create" => Effect(d, s) = IF Exists(d, s.obj) THEN d ELSE d \union {s.obj}
           /\ s.op = "alter" => Effect(d, s) = d \union {s.obj}
           /\ s.op = "createCache" =>
                  Effect(d, s) = IF CacheTable \in d THEN d ELSE d \union {CacheTable, CacheFk}
           /\ s.op = "dropIndex" => Effect(d, s) = d \ {CacheIndex, OldIndex}
           /\ s.op = "rename" => Effect(d, s) = Renamed(d)
           /\ s.op = "createNew" => Effect(d, s) = d \union {CacheTable, CacheName}
           /\ s.op = "copy" => Effect(d, s) = Copied(d)
           /\ s.op = "dropOld" => Effect(d, s) = d \ OfTable(d, Old)
  BY DEF Effect

\* What becomes of the database.
LEMMA SucceedDb ==
    ASSUME DbTypeOK, NEW p \in Procs, Succeed(p), NEW i \in DOMAIN Script, proc[p].at = i
    PROVE  /\ i = G => db' = db
           /\ i = G + 1 => db' = db \ {CacheIndex, OldIndex}
           /\ i = G + 2 => db' = Renamed(db) /\ CacheTable \in db
           /\ i = G + 3 => db' = db \union {CacheTable, CacheName}
           /\ i = G + 4 => db' = Copied(db)
           /\ i = G + 5 => db' = db \ OfTable(db, Old)
           /\ i = CacheAt => db' = IF CacheTable \in db THEN db ELSE db \union {CacheTable, CacheFk}
           /\ i \notin G..(G + 5) /\ i # CacheAt =>
                  /\ Makes(Script[i])
                  /\ db' = db \/ db' = db \union {Script[i].obj}
                  /\ Exists(db, Script[i].obj)'
  <1>1. db' = Effect(db, Script[i]) /\ Runs(db, Script[i])
    BY DEF Succeed
  <1>2. CASE i \in G..(G + 5)
    <2>1. i = G + 2 => CacheTable \in db
      <3>1. ASSUME i = G + 2 PROVE Script[i].needs \subseteq db
        BY <1>1, <3>1, RebuildAt DEF Runs
      <3> QED BY <3>1, RebuildAt
    <2>2. i # CacheAt
      BY <1>2, Places
    <2> QED BY <1>1, <1>2, <2>1, <2>2, RebuildAt, EffectIs
  <1>3. CASE i = CacheAt
    <2>1. i \notin G..(G + 6)
      BY <1>3, Places
    <2>2. Script[i].op = "createCache"
      BY <1>3, <2>1, OtherAt
    <2>3. i # G /\ i # G + 1 /\ i # G + 2 /\ i # G + 3 /\ i # G + 4 /\ i # G + 5
      BY <2>1, Places
    <2> QED BY <1>1, <1>3, <2>2, <2>3, EffectIs
  <1>4. CASE i \notin G..(G + 5) /\ i # CacheAt
    <2>1. Makes(Script[i])
      <3>1. CASE i = G + 6
        BY <3>1, RebuildAt DEF MakesIndex, Makes
      <3>2. CASE i # G + 6
        <4>1. i \notin G..(G + 6)
          BY <1>4, <3>2, Places
        <4> QED BY <1>4, <4>1, OtherAt
      <3> QED BY <3>1, <3>2
    <2>2. /\ db' = db \/ db' = db \union {Script[i].obj}
          /\ Exists(db', Script[i].obj)
      <3>1. CASE Script[i].op = "create"
        BY <1>1, <3>1, EffectIs DEF Exists
      <3>2. CASE Script[i].op = "alter"
        BY <1>1, <3>2, EffectIs DEF Exists
      <3> QED BY <2>1, <3>1, <3>2 DEF Makes
    <2>3. i # G /\ i # G + 1 /\ i # G + 2 /\ i # G + 3 /\ i # G + 4 /\ i # G + 5
      BY <1>4, Places
    <2> QED BY <1>4, <2>1, <2>2, <2>3 DEF Exists
  <1> QED BY <1>2, <1>3, <1>4

LEMMA DbTyped ==
    ASSUME DbTypeOK, NEW p \in Procs, Succeed(p)
    PROVE  db' \subseteq Objects
  <1> DEFINE i == proc[p].at
             Parts == {Table, "schema_name", "fk", "unique", "rows"}
  <1>1. i \in DOMAIN Script /\ db \subseteq Objects
    BY DEF DbTypeOK
  <1>2. \A t \in {Cache, Old} : \A part \in Parts : <<t, part>> \in Objects
    BY DEF Objects
  <1>3. /\ CacheTable \in Objects /\ CacheName \in Objects
        /\ CacheFk \in Objects /\ CacheRows \in Objects
    BY <1>2 DEF CacheTable, CacheName, CacheFk, CacheRows
  <1>4. \A o \in Objects : o[1] = Cache => o[2] \in Parts
    <2> SUFFICES ASSUME NEW o \in Objects, o[1] = Cache PROVE o[2] \in Parts
      OBVIOUS
    <2>1. CASE o \in {Cache, Old} \X Parts
      BY <2>1
    <2>2. CASE o \in Schema
      <3>1. o \in {CacheTable, CacheName, CacheIndex}
        BY <2>2, MadeAll, MadeAre, Places
      <3> QED BY <3>1 DEF CacheTable, CacheName, CacheIndex
    <2> QED BY <2>1, <2>2 DEF Objects
  <1> HIDE DEF Parts
  <1> HIDE DEF i
  <1>5. Renamed(db) \subseteq Objects
    <2>1. \A o \in OfTable(db, Cache) : <<Old, o[2]>> \in Objects
      BY <1>1, <1>2, <1>4 DEF OfTable
    <2> QED BY <1>1, <2>1 DEF Renamed
  <1>6. Makes(Script[i]) => Script[i].obj \in Objects
    BY <1>1 DEF Objects, Schema
  <1>7. \/ db' \subseteq db \/ db' = Renamed(db)
        \/ db' \subseteq db \union {CacheTable, CacheName, CacheFk, CacheRows}
        \/ Makes(Script[i]) /\ db' = db \union {Script[i].obj}
    <2>1. CASE i \in G..(G + 5)
      <3>1. i = G \/ i = G + 1 \/ i = G + 2 \/ i = G + 3 \/ i = G + 4 \/ i = G + 5
        BY <2>1, Places
      <3>2. CASE i \in {G, G + 1, G + 5}
        <4>1. db' = db \/ db' = db \ {CacheIndex, OldIndex} \/ db' = db \ OfTable(db, Old)
          BY <1>1, <3>2, SucceedDb DEF i
        <4> QED BY <4>1
      <3>3. CASE i = G + 2
        BY <1>1, <3>3, SucceedDb DEF i
      <3>4. CASE i \in {G + 3, G + 4}
        <4>1. db' = db \union {CacheTable, CacheName} \/ db' = Copied(db)
          BY <1>1, <3>4, SucceedDb DEF i
        <4> QED BY <4>1 DEF Copied
      <3> QED BY <3>1, <3>2, <3>3, <3>4
    <2>2. CASE i = CacheAt
      BY <1>1, <2>2, SucceedDb DEF i
    <2>3. CASE i \notin G..(G + 5) /\ i # CacheAt
      BY <1>1, <2>3, SucceedDb DEF i
    <2> QED BY <2>1, <2>2, <2>3
  <1> QED BY <1>1, <1>3, <1>5, <1>6, <1>7

Progresses == [pc : {"off", "starting", "failed", "ready"}, at : DOMAIN Script, alone : BOOLEAN]

\* A start that goes on.
LEMMA GoneToIs ==
    ASSUME DbTypeOK, NEW p \in Procs, NEW n \in Nat, n >= 1, NEW a \in BOOLEAN, GoneTo(p, n, a)
    PROVE  /\ proc' \in [Procs -> Progresses]
           /\ \A q \in Procs \ {p} : proc'[q] = proc[q]
           /\ proc'[p].alone = a /\ proc'[p] # NotRunning /\ proc'[p].pc # "failed"
           /\ proc'[p].pc = "starting" <=> n <= Len(Script)
           /\ n <= Len(Script) => proc'[p].at = n
  <1>1. proc' = [proc EXCEPT ![p] = IF n > Len(Script) THEN Progress("ready", 1, a)
                                    ELSE Progress("starting", n, a)]
    BY DEF GoneTo
  <1>2. Progress("ready", 1, a) \in Progresses
    BY Places DEF Progress, Progresses
  <1>3. n <= Len(Script) => Progress("starting", n, a) \in Progresses
    BY Places DEF Progress, Progresses
  <1>4. proc \in [Procs -> Progresses]
    BY DEF DbTypeOK, Progresses
  <1>5. proc'[p] = IF n > Len(Script) THEN Progress("ready", 1, a) ELSE Progress("starting", n, a)
    BY <1>1, <1>4
  <1>6. Len(Script) \in Nat
    BY Places
  <1>7. proc' \in [Procs -> Progresses] /\ \A q \in Procs \ {p} : proc'[q] = proc[q]
    BY <1>1, <1>2, <1>3, <1>4, <1>6
  <1>8. /\ proc'[p].alone = a /\ proc'[p] # NotRunning /\ proc'[p].pc # "failed"
        /\ proc'[p].pc = "starting" <=> n <= Len(Script)
        /\ n <= Len(Script) => proc'[p].at = n
    BY <1>5, <1>6 DEF Progress, NotRunning
  <1> QED BY <1>7, <1>8

\* The step of a start leaves the others where they are.
LEMMA OthersWithin ==
    ASSUME NEW p, NEW q \in Procs \ {p}, \A r \in Procs \ {p} : proc'[r] = proc[r]
    PROVE  /\ Starting(q)' <=> Starting(q)
           /\ \A lo, hi : Within(q, lo, hi)' <=> Within(q, lo, hi)
           /\ Inside(q)' <=> Inside(q)
           /\ Away(q)' <=> Away(q)
           /\ Unindexed(q)' <=> Unindexed(q)
  BY DEF Starting, Within, Inside, Away, Unindexed

\* A start in the rebuild is where its position says.
Calm(p) == \A q \in Procs \ {p} : ~Inside(q)

LEMMA InsideIs ==
    ASSUME DbTypeOK, NEW p \in Procs
    PROVE  OtherInside(p) <=> ~Calm(p)
  <1>1. ASSUME NEW i \in DOMAIN Script
        PROVE  Script[i].op \in {"createNew", "copy", "dropOld"} <=> i \in (G + 3)..(G + 5)
    <2>1. CASE i \in G..(G + 6)
      <3>1. \/ i = G \/ i = G + 1 \/ i = G + 2 \/ i = G + 3 \/ i = G + 4 \/ i = G + 5 \/ i = G + 6
        BY <2>1, RebuildRange
      <3>2. CASE i \in {G, G + 1, G + 2}
        <4>1. Script[i].op \in {"guard", "dropIndex", "rename"} /\ i \notin (G + 3)..(G + 5)
          BY <3>2, RebuildAt, Places
        <4> QED BY <4>1
      <3>3. CASE i \in {G + 3, G + 4, G + 5}
        <4>1. Script[i].op \in {"createNew", "copy", "dropOld"} /\ i \in (G + 3)..(G + 5)
          BY <3>3, RebuildAt, Places
        <4> QED BY <4>1
      <3>4. CASE i = G + 6
        <4>1. Script[i].op = "create" /\ i \notin (G + 3)..(G + 5)
          BY <3>4, RebuildAt, Places DEF MakesIndex
        <4> QED BY <4>1
      <3> QED BY <3>1, <3>2, <3>3, <3>4
    <2>2. CASE i \notin G..(G + 6)
      <3>1. Script[i].op \in {"create", "alter", "createCache"}
        BY <2>2, OtherAt DEF Makes
      <3>2. i \notin (G + 3)..(G + 5)
        BY <2>2, Places
      <3> QED BY <3>1, <3>2
    <2> QED BY <2>1, <2>2
  <1>2. \A q \in Procs : proc[q].at \in DOMAIN Script
    BY DEF DbTypeOK
  <1> QED BY <1>1, <1>2 DEF OtherInside, Calm, Inside, Within

-----------------------------------------------------------------------------
(* A statement succeeds                                                    *)

\* Where the start is then.
LEMMA SucceedGoes ==
    ASSUME DbTypeOK, NEW p \in Procs, Succeed(p), NEW i, i = proc[p].at, NEW n, n = Following(db, i)
    PROVE  /\ i \in DOMAIN Script /\ n \in Nat
           /\ (i = G /\ ~HasFk(db) /\ n = G + 7) \/ (n = i + 1 /\ (i = G => HasFk(db)))
           /\ proc' \in [Procs -> Progresses]
           /\ \A q \in Procs \ {p} : proc'[q] = proc[q]
           /\ proc'[p].alone = proc[p].alone /\ proc'[p] # NotRunning /\ proc'[p].pc # "failed"
           /\ Starting(p) /\ (Starting(p)' <=> n <= Len(Script))
           /\ \A lo, hi : Within(p, lo, hi)' <=> n <= Len(Script) /\ n \in lo..hi
  <1>1. i \in DOMAIN Script /\ i \in Nat /\ i >= 1
    BY Places DEF DbTypeOK
  <1>2. i # G => Script[i].op # "guard"
    <2>1. CASE i \in G..(G + 6)
      <3>1. \/ i = G \/ i = G + 1 \/ i = G + 2 \/ i = G + 3 \/ i = G + 4 \/ i = G + 5 \/ i = G + 6
        BY <2>1, RebuildRange
      <3> QED BY <3>1, RebuildAt DEF MakesIndex
    <2>2. CASE i \notin G..(G + 6)
      BY <1>1, <2>2, OtherAt DEF Makes
    <2> QED BY <2>1, <2>2
  <1>3. (i = G /\ ~HasFk(db) /\ n = G + 7) \/ (n = i + 1 /\ (i = G => HasFk(db)))
    BY <1>2, RebuildAt, Places DEF Following
  <1>4. n \in Nat /\ n >= 1
    BY <1>1, <1>3, Places
  <1>5. GoneTo(p, n, proc[p].alone) /\ Starting(p)
    BY DEF Succeed
  <1>6. proc[p].alone \in BOOLEAN
    BY DEF DbTypeOK
  <1>7. /\ proc' \in [Procs -> Progresses]
        /\ \A q \in Procs \ {p} : proc'[q] = proc[q]
        /\ proc'[p].alone = proc[p].alone /\ proc'[p] # NotRunning /\ proc'[p].pc # "failed"
        /\ proc'[p].pc = "starting" <=> n <= Len(Script)
        /\ n <= Len(Script) => proc'[p].at = n
    BY <1>4, <1>5, <1>6, GoneToIs
  <1>8. /\ Starting(p)' <=> n <= Len(Script)
        /\ \A lo, hi : Within(p, lo, hi)' <=> n <= Len(Script) /\ n \in lo..hi
    BY <1>7 DEF Starting, Within
  <1> QED BY <1>1, <1>3, <1>4, <1>5, <1>7, <1>8

\* Of two processes that are running none is alone.
LEMMA NoneAlone ==
    ASSUME SchemaInv, NEW p \in Procs, NEW q \in Procs, p # q, proc[p] # NotRunning, proc[q] # NotRunning
    PROVE  ~proc[p].alone /\ ~proc[q].alone
  BY DEF SchemaInv, AloneApart

LEMMA RunningStarts ==
    ASSUME NEW q
    PROVE  /\ Starting(q) => proc[q] # NotRunning
           /\ Inside(q) \/ Away(q) \/ Unindexed(q) => Starting(q)
           /\ Away(q) => Inside(q) /\ Unindexed(q)
  BY Places DEF Starting, NotRunning, Progress, Inside, Away, Unindexed, Within

\* A start that can be trusted after a statement could be trusted before, and nobody else
\* was in the rebuild.
LEMMA SucceedTrusted ==
    ASSUME SchemaInv, NEW p \in Procs, Succeed(p), ~hurt' \/ proc[p].alone
    PROVE  Trusted(p) /\ Calm(p)
  <1>1. Starting(p) /\ (hurt' <=> ((hurt /\ ~Mends(p)) \/ OtherInside(p)))
    BY DEF Succeed, SchemaInv, DbTypeOK
  <1>2. CASE proc[p].alone
    <2>1. \A q \in Procs \ {p} : proc[q] = NotRunning
      BY <1>1, <1>2, NoneAlone, RunningStarts
    <2> QED BY <1>1, <1>2, <2>1, RunningStarts DEF Trusted, Calm
  <1>3. CASE ~proc[p].alone
    <2>1. ~hurt'
      BY <1>3
    <2>2. ~hurt /\ ~OtherInside(p)
      BY <1>1, <1>3, <2>1 DEF Mends
    <2>3. DbTypeOK
      BY DEF SchemaInv
    <2> QED BY <1>1, <2>2, <2>3, InsideIs DEF Trusted
  <1> QED BY <1>2, <1>3

LEMMA OtherTrusted ==
    ASSUME SchemaInv, NEW p \in Procs, Succeed(p), NEW q \in Procs \ {p}, Trusted(q)'
    PROVE  Trusted(q) /\ Calm(p) /\ ~hurt
  <1> DEFINE i == proc[p].at
             n == Following(db, i)
  <1>1. DbTypeOK
    BY DEF SchemaInv
  <1>2. /\ \A r \in Procs \ {p} : proc'[r] = proc[r]
        /\ Starting(p)
    BY <1>1, SucceedGoes
  <1>3. Starting(q)
    BY <1>2, OthersWithin DEF Trusted
  <1>4. ~proc[q].alone /\ ~proc[p].alone
    BY <1>2, <1>3, NoneAlone, RunningStarts
  <1>5. ~hurt'
    BY <1>2, <1>4 DEF Trusted
  <1>6. Trusted(p) /\ Calm(p)
    BY <1>5, SucceedTrusted
  <1> QED BY <1>3, <1>4, <1>6 DEF Trusted

\* What is in place stays so.
LEMMA SucceedInPlace ==
    ASSUME SchemaInv, NEW p \in Procs, Succeed(p), Calm(p),
           NEW k \in Nat, NEW o \in MadeBefore(k), InPlace(o)
    PROVE  InPlace(o)'
  <1> DEFINE i == proc[p].at
             n == Following(db, i)
  <1> USE DEF Exists
  <1>1. DbTypeOK
    BY DEF SchemaInv
  <1>2. i \in DOMAIN Script /\ DOMAIN Script = 1..Len(Script)
    BY <1>1, Places DEF DbTypeOK
  <1>3. o[1] # Old /\ (o[1] = Cache => o \in {CacheTable, CacheName, CacheIndex})
    BY MadeAre
  <1>4. /\ \A q \in Procs \ {p} : proc'[q] = proc[q]
        /\ Starting(p)
        /\ \A lo, hi : Within(p, lo, hi)' <=> n <= Len(Script) /\ n \in lo..hi
        /\ (i = G /\ n = G + 7) \/ n = i + 1
    BY <1>1, SucceedGoes
  <1>5. \A q \in Procs \ {p} : (Away(q)' <=> Away(q)) /\ (Unindexed(q)' <=> Unindexed(q))
    <2>1. \A r \in Procs \ {p} : proc'[r] = proc[r]
      BY <1>4
    <2> QED BY <2>1, OthersWithin
  <1>6. \A q \in Procs : Away(q) => q = p /\ i = G + 3
    BY Places DEF Calm, Inside, Away, Within
  <1>7. i \in (G + 1)..(G + 5) => Unindexed(p)'
    BY <1>4, Places DEF Unindexed
  <1>8. CacheTable # CacheIndex /\ CacheName # CacheIndex /\ CacheIndex[1] = Cache
        /\ CacheTable[1] = Cache /\ CacheName[1] = Cache /\ OldIndex[1] = Old /\ Cache # Old
    BY DEF CacheTable, CacheName, CacheIndex, OldIndex, Cache, Old, Table
  <1> HIDE DEF i, n
  <1>9. CASE o = CacheIndex
    <2>1. CASE \E q \in Procs \ {p} : Unindexed(q)
      BY <1>5, <1>9, <2>1 DEF InPlace
    <2>2. CASE i \in (G + 1)..(G + 5)
      BY <1>7, <1>9, <2>2 DEF InPlace
    <2>3. CASE i = G + 6
      <3>1. i \notin G..(G + 5) /\ i # CacheAt
        BY <2>3, Places
      <3>2. Exists(db', Script[i].obj)
        BY <1>1, <1>2, <3>1, SucceedDb DEF i
      <3>3. Script[i].obj = o
        BY <1>9, <2>3, RebuildAt DEF MakesIndex
      <3> QED BY <3>2, <3>3 DEF InPlace
    <2>4. CASE i \notin (G + 1)..(G + 6) /\ ~\E q \in Procs \ {p} : Unindexed(q)
      <3>1. ~Unindexed(p)
        BY <2>4, Places DEF Unindexed, Within, i
      <3>2. Exists(db, o)
        BY <1>8, <1>9, <2>4, <3>1 DEF InPlace
      <3>3. i = G \/ i = CacheAt \/ (i \notin G..(G + 5) /\ i # CacheAt)
        BY <2>4, Places
      <3>4. db \subseteq db'
        BY <1>1, <1>2, <3>3, SucceedDb DEF i
      <3> QED BY <3>2, <3>4 DEF InPlace
    <2> QED BY <2>1, <2>2, <2>3, <2>4, Places
  <1>10. CASE o \in {CacheTable, CacheName}
    <2>1. CASE i = G + 2
      <3>1. Away(p)'
        BY <1>4, <2>1, Places DEF Away
      <3> QED BY <1>10, <3>1 DEF InPlace
    <2>2. CASE i = G + 3
      <3>1. o \in db'
        BY <1>1, <1>2, <1>10, <2>2, SucceedDb DEF i
      <3> QED BY <3>1 DEF InPlace
    <2>3. CASE i # G + 2 /\ i # G + 3
      <3>1. o \in db
        BY <1>6, <1>8, <1>10, <2>3 DEF InPlace
      <3>2. o \in db'
        <4>1. CASE i \in {G, CacheAt} \/ i \notin G..(G + 5)
          <5>1. db \subseteq db'
            BY <1>1, <1>2, <4>1, SucceedDb DEF i
          <5> QED BY <3>1, <5>1
        <4>2. CASE i = G + 1
          BY <1>1, <1>2, <1>8, <1>10, <3>1, <4>2, SucceedDb DEF i
        <4>3. CASE i = G + 4
          BY <1>1, <1>2, <3>1, <4>3, SucceedDb DEF i, Copied
        <4>4. CASE i = G + 5
          BY <1>1, <1>2, <1>3, <3>1, <4>4, SucceedDb DEF i, OfTable
        <4> QED BY <2>3, <4>1, <4>2, <4>3, <4>4, Places
      <3> QED BY <3>2 DEF InPlace
    <2> QED BY <2>1, <2>2, <2>3
  <1>11. CASE o \notin {CacheTable, CacheName, CacheIndex}
    <2>1. o \in db /\ o[1] # Cache
      BY <1>3, <1>11 DEF InPlace
    <2>2. o \in db'
      <3>1. CASE i \in {G, CacheAt} \/ i \notin G..(G + 5)
        <4>1. db \subseteq db'
          BY <1>1, <1>2, <3>1, SucceedDb DEF i
        <4> QED BY <2>1, <4>1
      <3>2. CASE i = G + 1
        BY <1>1, <1>2, <1>3, <1>8, <2>1, <3>2, SucceedDb DEF i
      <3>3. CASE i = G + 2
        BY <1>1, <1>2, <2>1, <3>3, SucceedDb DEF i, Renamed, OfTable
      <3>4. CASE i = G + 3
        BY <1>1, <1>2, <2>1, <3>4, SucceedDb DEF i
      <3>5. CASE i = G + 4
        BY <1>1, <1>2, <2>1, <3>5, SucceedDb DEF i, Copied
      <3>6. CASE i = G + 5
        BY <1>1, <1>2, <1>3, <2>1, <3>6, SucceedDb DEF i, OfTable
      <3>7. \/ i \notin G..(G + 5) \/ i = G \/ i = G + 1 \/ i = G + 2 \/ i = G + 3 \/ i = G + 4
            \/ i = G + 5
        BY <1>2, Places
      <3> QED BY <3>1, <3>2, <3>3, <3>4, <3>5, <3>6, <3>7
    <2> QED BY <2>2 DEF InPlace
  <1> QED BY <1>9, <1>10, <1>11

\* Outside of 013, what schema_cache has is in the database.
LEMMA InPlaceThere ==
    ASSUME NEW p \in Procs, Calm(p), proc[p].at # G + 3,
           NEW o \in {CacheTable, CacheName}, InPlace(o)
    PROVE  o \in db
  <1>1. o # CacheIndex
    BY DEF CacheTable, CacheName, CacheIndex, Table
  <1>2. \A q \in Procs : ~Away(q)
    <2> SUFFICES ASSUME NEW q \in Procs, Away(q) PROVE FALSE
      OBVIOUS
    <2>1. proc[q].at = G + 3 /\ Inside(q)
      BY Places DEF Away, Inside, Within
    <2> QED BY <2>1 DEF Calm
  <1> QED BY <1>1, <1>2 DEF InPlace, Exists

\* The foreign key comes with the table of 001 only.
LEMMA FkStaysAway ==
    ASSUME DbTypeOK, NEW p \in Procs, Succeed(p), NEW i \in DOMAIN Script, proc[p].at = i,
           i # G + 2 => ~HasFk(db), i = CacheAt => CacheTable \in db
    PROVE  ~HasFk(db)'
  <1> USE DEF HasFk
  <1>1. CacheFk \notin {CacheTable, CacheName, CacheRows, CacheIndex}
    BY DEF CacheFk, CacheTable, CacheName, CacheRows, CacheIndex, Table
  <1>2. CASE i \in G..(G + 5)
    <2>1. i = G \/ i = G + 1 \/ i = G + 2 \/ i = G + 3 \/ i = G + 4 \/ i = G + 5
      BY <1>2, Places
    <2>2. CASE i = G + 2
      <3>1. db' = Renamed(db)
        BY <2>2, SucceedDb
      <3>2. CacheFk[1] = Cache /\ Cache # Old
        BY DEF CacheFk, Cache, Old
      <3> QED BY <3>1, <3>2 DEF Renamed, OfTable
    <2>3. CASE i # G + 2
      <3>1. CacheFk \notin db
        BY <2>3
      <3>2. \/ db' \subseteq db \/ db' = db \union {CacheTable, CacheName} \/ db' = Copied(db)
        BY <2>1, <2>3, SucceedDb
      <3> QED BY <1>1, <3>1, <3>2 DEF Copied
    <2> QED BY <2>2, <2>3
  <1>3. CASE i = CacheAt
    <2>1. i # G + 2
      BY <1>3, Places
    <2> QED BY <1>3, <2>1, SucceedDb
  <1>4. CASE i \notin G..(G + 5) /\ i # CacheAt
    <2>1. i # G + 2
      BY <1>4, Places
    <2>2. Makes(Script[i]) /\ (db' = db \/ db' = db \union {Script[i].obj})
      BY <1>4, SucceedDb
    <2>3. Script[i].obj \in MadeBefore(i + 1)
      BY <2>2, Places DEF MadeBefore
    <2>4. CacheFk[1] = Cache
      BY DEF CacheFk
    <2>5. Script[i].obj # CacheFk
      BY <1>1, <2>3, <2>4, MadeAre, Places
    <2> QED BY <2>1, <2>2, <2>5
  <1> QED BY <1>2, <1>3, <1>4

\* What a start that can be trusted has before its statement it has before the next.
LEMMA SucceedMade ==
    ASSUME SchemaInv, NEW p \in Procs, Succeed(p), Calm(p), Trusted(p),
           NEW i, i = proc[p].at, NEW n, n = Following(db, i), NEW o \in MadeBefore(n)
    PROVE  InPlace(o)'
  <1>1. DbTypeOK
    BY DEF SchemaInv
  <1>2. /\ i \in DOMAIN Script /\ i \in Nat
        /\ (i = G /\ n = G + 7) \/ n = i + 1
    BY <1>1, SucceedGoes, Places
  <1>3. ASSUME o \in MadeBefore(i) PROVE InPlace(o)'
    <2>1. InPlace(o)
      BY <1>3 DEF SchemaInv, Keeps
    <2> QED BY <1>2, <1>3, <2>1, SucceedInPlace
  <1>4. CASE i = G /\ n = G + 7
    BY <1>3, <1>4, MadePast
  <1>5. CASE n = i + 1
    <2>1. CASE o \in MadeBefore(i)
      BY <1>3, <2>1
    <2>2. CASE Makes(Script[i]) /\ o = Script[i].obj
      <3>1. i \notin G..(G + 5)
        BY <2>2, RebuildMakes, Places
      <3>2. i # CacheAt
        BY <1>2, <2>2, <3>1, OtherAt, Places DEF Makes
      <3>3. Exists(db, Script[i].obj)'
        BY <1>1, <1>2, <3>1, <3>2, SucceedDb
      <3> QED BY <2>2, <3>3 DEF InPlace
    <2>3. CASE i = CacheAt /\ o = CacheTable
      <3>1. CacheTable \in db'
        BY <1>1, <1>2, <2>3, SucceedDb
      <3> QED BY <2>3, <3>1 DEF InPlace, Exists
    <2> QED BY <1>2, <1>5, <2>1, <2>2, <2>3, MadeNext
  <1> QED BY <1>2, <1>4, <1>5

LEMMA SucceedRebuilt ==
    ASSUME SchemaInv, NEW p \in Procs, Succeed(p), Calm(p), Trusted(p),
           NEW i, i = proc[p].at, NEW n, n = Following(db, i)
    PROVE  Rebuilt(n)'
  <1>1. DbTypeOK
    BY DEF SchemaInv
  <1>2. /\ i \in DOMAIN Script /\ i \in Nat
        /\ (i = G /\ ~HasFk(db) /\ n = G + 7) \/ n = i + 1
    BY <1>1, SucceedGoes, Places
  <1>3. Rebuilt(i) /\ \A o \in MadeBefore(i) : InPlace(o)
    BY DEF SchemaInv, Keeps
  <1>4. /\ CacheTable[1] = Cache /\ CacheName[1] = Cache /\ CacheRows[1] = Cache /\ Cache # Old
        /\ OldTable = <<Old, CacheTable[2]>> /\ OldName = <<Old, CacheName[2]>>
        /\ CacheRows \notin {CacheTable, CacheName}
    BY DEF CacheTable, CacheName, CacheRows, OldTable, OldName, Table, Cache, Old
  <1>5. i = G + 2 => CacheTable \in db /\ CacheName \in db /\ db' = Renamed(db)
    <2> SUFFICES ASSUME i = G + 2 PROVE CacheTable \in db /\ CacheName \in db /\ db' = Renamed(db)
      OBVIOUS
    <2>1. CacheName \in MadeBefore(i) /\ i # G + 3
      BY MadeBeforeRebuild, Places
    <2>2. CacheName \in db
      BY <1>3, <2>1, InPlaceThere
    <2> QED BY <1>1, <1>2, <2>2, SucceedDb
  <1>6. n > G + 2 => ~HasFk(db)'
    <2> SUFFICES ASSUME n > G + 2 PROVE ~HasFk(db)'
      OBVIOUS
    <2>1. i # G + 2 => ~HasFk(db)
      <3> SUFFICES ASSUME i # G + 2 PROVE ~HasFk(db)
        OBVIOUS
      <3>1. (i = G /\ ~HasFk(db)) \/ i > G + 2
        BY <1>2, Places
      <3> QED BY <1>3, <3>1 DEF Rebuilt
    <2>2. i # CacheAt
      BY <1>2, Places
    <2> QED BY <1>1, <1>2, <2>1, <2>2, FkStaysAway
  <1>7. n \in G + 3..G + 4 => OldName \in db'
    <2>1. CASE n = G + 3
      <3>1. i = G + 2
        BY <1>2, <2>1, Places
      <3> QED BY <1>4, <1>5, <3>1 DEF Renamed, OfTable
    <2>2. CASE n = G + 4
      <3>1. i = G + 3
        BY <1>2, <2>2, Places
      <3>2. OldName \in db
        BY <1>3, <3>1, Places DEF Rebuilt
      <3> QED BY <1>1, <1>2, <3>1, <3>2, SucceedDb
    <2> QED BY <2>1, <2>2, Places
  <1>8. n \in G + 3..G + 5 => OldTable \in db'
    <2>1. CASE n = G + 3
      <3>1. i = G + 2
        BY <1>2, <2>1, Places
      <3> QED BY <1>4, <1>5, <3>1 DEF Renamed, OfTable
    <2>2. CASE n = G + 4 \/ n = G + 5
      <3>1. i = G + 3 \/ i = G + 4
        BY <1>2, <2>2, Places
      <3>2. OldTable \in db
        BY <1>3, <3>1, Places DEF Rebuilt
      <3> QED BY <1>1, <1>2, <3>1, <3>2, SucceedDb DEF Copied
    <2> QED BY <2>1, <2>2, Places
  <1>9. n = G + 3 => OfTable(db', Cache) = {}
    <2> SUFFICES ASSUME n = G + 3, NEW o \in db' PROVE o[1] # Cache
      BY DEF OfTable
    <2>1. i = G + 2
      BY <1>2, Places
    <2> QED BY <1>4, <1>5, <2>1 DEF Renamed, OfTable
  <1>10. n = G + 4 => CacheRows \notin db'
    <2> SUFFICES ASSUME n = G + 4 PROVE CacheRows \notin db'
      OBVIOUS
    <2>1. i = G + 3
      BY <1>2, Places
    <2>2. CacheRows \notin db
      BY <1>3, <1>4, <2>1 DEF Rebuilt, OfTable
    <2> QED BY <1>1, <1>2, <1>4, <2>1, <2>2, SucceedDb
  <1> QED BY <1>6, <1>7, <1>8, <1>9, <1>10 DEF Rebuilt
LEMMA SucceedKeeps ==
    ASSUME SchemaInv, NEW p \in Procs, Succeed(p), NEW q \in Procs
    PROVE  Keeps(q)'
  <1> SUFFICES ASSUME Trusted(q)'
               PROVE  /\ Rebuilt(proc[q].at)'
                      /\ \A o \in MadeBefore(proc'[q].at) : InPlace(o)'
    BY DEF Keeps
  <1>1. DbTypeOK
    BY DEF SchemaInv
  <1>2. PICK i : i = proc[p].at
    OBVIOUS
  <1>3. PICK n : n = Following(db, i)
    OBVIOUS
  <1>4. /\ i \in DOMAIN Script /\ i \in Nat /\ n \in Nat
        /\ \A r \in Procs \ {p} : proc'[r] = proc[r]
        /\ proc'[p].alone = proc[p].alone
        /\ Starting(p) /\ (Starting(p)' <=> n <= Len(Script))
        /\ Within(p, n, n)' <=> n <= Len(Script) /\ n \in n..n
    BY <1>1, <1>2, <1>3, SucceedGoes, Places
  <1>5. CASE q = p
    <2>1. proc'[p].at = n
      BY <1>4, <1>5 DEF Within, Trusted
    <2>2. Trusted(p) /\ Calm(p)
      BY <1>4, <1>5, SucceedTrusted DEF Trusted
    <2>3. Rebuilt(n)' /\ \A o \in MadeBefore(n) : InPlace(o)'
      BY <1>2, <1>3, <2>2, SucceedMade, SucceedRebuilt
    <2> QED BY <1>5, <2>1, <2>3 DEF Rebuilt
  <1>6. CASE q # p
    <2>1. Trusted(q) /\ Calm(p) /\ ~hurt
      BY <1>6, OtherTrusted
    <2>2. PICK j \in Nat : j = proc[q].at /\ j = proc'[q].at
      BY <1>1, <1>4, <1>6, Places DEF DbTypeOK
    <2>3. Rebuilt(j) /\ \A o \in MadeBefore(j) : InPlace(o)
      BY <2>1, <2>2 DEF SchemaInv, Keeps
    <2>4. \A o \in MadeBefore(j) : InPlace(o)'
      BY <2>1, <2>3, SucceedInPlace
    <2>5. j \notin G + 3..G + 5
      BY <1>6, <2>1, <2>2 DEF Calm, Inside, Within, Trusted
    <2>6. ASSUME j > G + 2 PROVE ~HasFk(db)'
      <3>1. ~HasFk(db)
        BY <2>3, <2>6 DEF Rebuilt
      <3>2. i = CacheAt => CacheTable \in db
        <4> SUFFICES ASSUME i = CacheAt PROVE CacheTable \in db
          OBVIOUS
        <4>1. i # G + 3 /\ CacheTable \in MadeBefore(j)
          BY <2>6, MadeBeforeRebuild, Places
        <4> QED BY <1>2, <2>1, <2>3, <4>1, InPlaceThere
      <3> QED BY <1>1, <1>2, <1>4, <3>1, <3>2, FkStaysAway
    <2>7. j # G + 3 /\ j # G + 4 /\ j # G + 5
      BY <2>5, Places
    <2>8. j \notin G + 3..G + 4
      BY <2>7, Places
    <2>9. Rebuilt(j)'
      BY <2>5, <2>6, <2>7, <2>8 DEF Rebuilt
    <2> QED BY <2>2, <2>4, <2>9 DEF Rebuilt
  <1> QED BY <1>5, <1>6

LEMMA SucceedAlone ==
    ASSUME SchemaInv, NEW p \in Procs, Succeed(p)
    PROVE  AloneApart' /\ OneInside' /\ FailsOnlySetAside'
  <1>1. /\ \A r \in Procs \ {p} : proc'[r] = proc[r]
        /\ proc'[p].alone = proc[p].alone /\ proc'[p].pc # "failed"
        /\ Starting(p)
    BY SucceedGoes DEF SchemaInv
  <1>2. proc[p] # NotRunning
    BY <1>1, RunningStarts
  <1>3. AloneApart'
    BY <1>1, <1>2 DEF SchemaInv, AloneApart, NotRunning
  <1>4. OneInside'
    <2> SUFFICES ASSUME ~hurt', NEW r \in Procs, NEW s \in Procs, Inside(r)', Inside(s)'
                 PROVE  r = s
      BY DEF OneInside
    <2>1. Calm(p)
      BY SucceedTrusted
    <2>2. \A q \in Procs \ {p} : ~Inside(q)'
      BY <1>1, <2>1, OthersWithin DEF Calm
    <2> QED BY <2>2
  <1>5. FailsOnlySetAside'
    <2> SUFFICES ASSUME NEW r \in Procs, proc'[r].pc = "failed", proc'[r].alone PROVE FALSE
      BY DEF FailsOnlySetAside
    <2>1. r # p /\ proc'[r] = proc[r]
      BY <1>1
    <2>2. proc[r] # NotRunning
      BY <2>1 DEF NotRunning, Progress
    <2> QED BY <1>2, <2>1, <2>2, NoneAlone
  <1> QED BY <1>3, <1>4, <1>5

\* A start at its end has made the schema and dropped the foreign key.
LEMMA Ended ==
    ASSUME SchemaInv, NEW p \in Procs, Succeed(p), Trusted(p), Calm(p),
           NEW i, i = proc[p].at, NEW n, n = Following(db, i), n = Len(Script) + 1
    PROVE  ~HasFk(db)' /\ \A o \in Schema : InPlace(o)'
  <1>1. Rebuilt(n)'
    BY SucceedRebuilt
  <1>2. \A o \in MadeBefore(n) : InPlace(o)'
    BY SucceedMade
  <1>3. n > G + 2
    BY Places
  <1> QED BY <1>1, <1>2, <1>3, MadeAll DEF Rebuilt

LEMMA MendsAlone ==
    ASSUME SchemaInv, NEW p \in Procs, Succeed(p), hurt, ~hurt'
    PROVE  /\ proc[p].at = Len(Script) /\ proc[p].alone
           /\ \A q \in Procs \ {p} : ~Starting(q)'
  <1>1. Mends(p)
    BY DEF Succeed
  <1>2. proc[p].at = Len(Script) /\ proc[p].alone
    BY <1>1 DEF Mends
  <1>3. Starting(p) /\ \A q \in Procs \ {p} : proc'[q] = proc[q]
    BY SucceedGoes DEF SchemaInv
  <1>4. \A q \in Procs \ {p} : ~Starting(q)'
    <2> SUFFICES ASSUME NEW q \in Procs \ {p}, Starting(q)' PROVE FALSE
      OBVIOUS
    <2>1. Starting(q)
      BY <1>3, OthersWithin
    <2> QED BY <1>2, <1>3, <2>1, NoneAlone, RunningStarts
  <1> QED BY <1>2, <1>4

\* When no start is under way, what is in place is there.
LEMMA StandsThere ==
    ASSUME \A q \in Procs : ~Starting(q)', NEW o, InPlace(o)'
    PROVE  Exists(db, o)'
  BY DEF InPlace, Away, Unindexed, Within
LEMMA SucceedOld ==
    ASSUME SchemaInv, NEW p \in Procs, Succeed(p)
    PROVE  OldOwned'
  <1> SUFFICES ASSUME ~hurt', OldTable \in db'
               PROVE  \/ \E q \in Procs : Inside(q)'
                      \/ /\ ~HasFk(db)' /\ CacheTable \in db'
                         /\ \A q \in Procs : ~Within(q, G + 1, G + 2)'
    BY DEF OldOwned
  <1>1. DbTypeOK
    BY DEF SchemaInv
  <1>2. PICK i : i = proc[p].at
    OBVIOUS
  <1>3. PICK n : n = Following(db, i)
    OBVIOUS
  <1>4. /\ i \in DOMAIN Script /\ i \in Nat
        /\ (i = G /\ ~HasFk(db) /\ n = G + 7) \/ (n = i + 1 /\ (i = G => HasFk(db)))
        /\ \A q \in Procs \ {p} : proc'[q] = proc[q]
        /\ Starting(p)
    BY <1>1, <1>2, <1>3, SucceedGoes, Places
  <1>5. \A lo, hi : Within(p, lo, hi)' <=> n <= Len(Script) /\ n \in lo..hi
    BY <1>1, <1>2, <1>3, SucceedGoes
  <1>6. Starting(p)' <=> n <= Len(Script)
    BY <1>1, <1>2, <1>3, SucceedGoes
  <1>7. Trusted(p) /\ Calm(p)
    BY SucceedTrusted
  <1>8. CASE hurt
    <2>1. i = Len(Script) /\ \A q \in Procs \ {p} : ~Starting(q)'
      BY <1>2, <1>8, MendsAlone
    <2>2. n = Len(Script) + 1
      BY <1>4, <2>1, Places
    <2>3. \A q \in Procs : ~Starting(q)'
      BY <1>4, <2>1, <2>2, <1>6, Places
    <2>4. ~HasFk(db)' /\ InPlace(CacheTable)'
      BY <1>2, <1>3, <1>7, <2>2, Ended DEF Schema
    <2>5. Exists(db, CacheTable)'
      BY <2>3, <2>4, StandsThere
    <2>6. CacheTable # CacheIndex
      BY DEF CacheTable, CacheIndex, Table
    <2> QED BY <2>3, <2>4, <2>5, <2>6 DEF Exists, Within
  <1>9. CASE ~hurt
    <2>1. CASE i \in (G + 2)..(G + 4)
      <3>1. n <= Len(Script) /\ n \in (G + 3)..(G + 5)
        BY <1>4, <2>1, Places
      <3> QED BY <1>5, <3>1 DEF Inside
    <2>2. CASE i = G + 5
      <3>1. OldTable \notin db'
        <4>1. db' = db \ OfTable(db, Old)
          BY <1>1, <1>2, <1>4, <2>2, SucceedDb
        <4>2. OldTable[1] = Old
          BY DEF OldTable
        <4> QED BY <4>1, <4>2 DEF OfTable
      <3> QED BY <3>1
    <2>3. CASE i \notin (G + 2)..(G + 5)
      <3>1. OldTable \in db
        <4>1. OldTable[1] = Old /\ CacheTable[1] # Old /\ CacheFk[1] # Old
          BY DEF OldTable, CacheTable, CacheFk, Cache, Old
        <4>2. CASE i \in {G, G + 1}
          BY <1>1, <1>2, <1>4, <2>3, <4>2, SucceedDb
        <4>3. CASE i = CacheAt
          BY <1>1, <1>2, <1>4, <4>1, <4>3, SucceedDb
        <4>4. CASE i \notin G..(G + 5) /\ i # CacheAt
          <5>1. Makes(Script[i]) /\ (db' = db \/ db' = db \union {Script[i].obj})
            BY <1>1, <1>2, <1>4, <4>4, SucceedDb
          <5>2. Script[i].obj \in MadeBefore(i + 1)
            BY <1>4, <5>1, Places DEF MadeBefore
          <5>3. Script[i].obj # OldTable
            BY <1>4, <4>1, <5>2, MadeAre
          <5> QED BY <5>1, <5>3
        <4> QED BY <1>4, <2>3, <4>2, <4>3, <4>4, Places
      <3>2. ~\E q \in Procs : Inside(q)
        <4>1. ~Inside(p)
          BY <1>2, <1>4, <2>3, Places DEF Inside, Within
        <4> QED BY <1>7, <4>1 DEF Calm
      <3>3. ~HasFk(db) /\ CacheTable \in db /\ \A q \in Procs : ~Within(q, G + 1, G + 2)
        BY <1>9, <3>1, <3>2 DEF SchemaInv, OldOwned
      <3>4. ~HasFk(db)'
        BY <1>1, <1>2, <1>4, <3>3, FkStaysAway
      <3>5. i # G + 1 /\ i # G + 2
        BY <1>2, <1>4, <3>3, Places DEF Within
      <3>6. CacheTable \in db'
        <4>1. CASE i = G \/ i = CacheAt \/ (i \notin G..(G + 5) /\ i # CacheAt)
          BY <1>1, <1>2, <1>4, <3>3, <4>1, SucceedDb
        <4> QED BY <1>4, <2>3, <3>5, <4>1, Places
      <3>7. ~Within(p, G + 1, G + 2)'
        <4>1. n \notin (G + 1)..(G + 2)
          BY <1>4, <3>3, <3>5, Places
        <4> QED BY <1>5, <4>1
      <3>8. \A q \in Procs \ {p} : ~Within(q, G + 1, G + 2)'
        BY <1>4, <3>3, OthersWithin
      <3> QED BY <3>4, <3>6, <3>7, <3>8
    <2> QED BY <2>1, <2>2, <2>3, Places
  <1> QED BY <1>8, <1>9

LEMMA SucceedRows ==
    ASSUME SchemaInv, NEW p \in Procs, Succeed(p)
    PROVE  RowsKept'
  <1> SUFFICES ASSUME ~hurt', cached'
               PROVE  \/ CacheRows \in db'
                      \/ OldRows \in db' /\ \E q \in Procs : Within(q, G + 3, G + 4)'
    BY DEF RowsKept
  <1>1. DbTypeOK
    BY DEF SchemaInv
  <1>2. PICK i : i = proc[p].at
    OBVIOUS
  <1>3. PICK n : n = Following(db, i)
    OBVIOUS
  <1>4. /\ i \in DOMAIN Script /\ i \in Nat
        /\ (i = G /\ n = G + 7) \/ n = i + 1
        /\ Starting(p)
    BY <1>1, <1>2, <1>3, SucceedGoes, Places
  <1>5. \A lo, hi : Within(p, lo, hi)' <=> n <= Len(Script) /\ n \in lo..hi
    BY <1>1, <1>2, <1>3, SucceedGoes
  <1>6. Trusted(p) /\ Calm(p)
    BY SucceedTrusted
  <1>7. CASE hurt
    <2>1. Mends(p)
      BY <1>7 DEF Succeed
    <2>2. cached' = (CacheRows \in db')
      BY <1>7, <2>1 DEF Succeed
    <2> QED BY <2>2
  <1>8. CASE ~hurt
    <2>1. cached
      BY <1>8 DEF Succeed
    <2>2. CacheRows \in db \/ (OldRows \in db /\ \E q \in Procs : Within(q, G + 3, G + 4))
      BY <1>8, <2>1 DEF SchemaInv, RowsKept
    <2>3. CacheRows \in db \/ (OldRows \in db /\ i \in (G + 3)..(G + 4))
      <3> SUFFICES ASSUME NEW q \in Procs, Within(q, G + 3, G + 4) PROVE i \in (G + 3)..(G + 4)
        BY <2>2
      <3>1. Inside(q)
        BY Places DEF Inside, Within
      <3>2. q = p
        BY <1>6, <3>1 DEF Calm
      <3> QED BY <1>2, <3>2 DEF Within
    <2>4. Rebuilt(i)
      BY <1>2, <1>6 DEF SchemaInv, Keeps
    <2>5. /\ CacheRows[1] = Cache /\ OldRows = <<Old, CacheRows[2]>> /\ Cache # Old
          /\ CacheRows \notin {CacheIndex, OldIndex}
      BY DEF CacheRows, OldRows, CacheIndex, OldIndex, Cache, Old
    <2>6. CASE i = G + 2
      <3>1. CacheRows \in db
        BY <2>3, <2>6, Places
      <3>2. db' = Renamed(db)
        BY <1>1, <1>2, <1>4, <2>6, SucceedDb
      <3>3. OldRows \in db'
        BY <2>5, <3>1, <3>2 DEF Renamed, OfTable
      <3>4. Within(p, G + 3, G + 4)'
        BY <1>4, <1>5, <2>6, Places
      <3> QED BY <3>3, <3>4
    <2>7. CASE i = G + 3
      <3>1. CacheRows \notin db
        BY <2>4, <2>5, <2>7 DEF Rebuilt, OfTable
      <3>2. OldRows \in db'
        BY <1>1, <1>2, <1>4, <2>3, <2>7, <3>1, SucceedDb
      <3>3. Within(p, G + 3, G + 4)'
        BY <1>4, <1>5, <2>7, Places
      <3> QED BY <3>2, <3>3
    <2>8. CASE i = G + 4
      <3>1. CacheRows \notin db
        BY <2>4, <2>8 DEF Rebuilt
      <3>2. db' = Copied(db)
        BY <1>1, <1>2, <1>4, <2>8, SucceedDb
      <3> QED BY <2>3, <3>1, <3>2 DEF Copied
    <2>9. CASE i \notin (G + 2)..(G + 4)
      <3>1. CacheRows \in db
        BY <2>3, <2>9, Places
      <3>2. i = G \/ i = G + 1 \/ i = G + 5 \/ i = CacheAt \/ (i \notin G..(G + 5) /\ i # CacheAt)
        BY <1>4, <2>9, Places
      <3>3. \/ db \subseteq db' \/ db' = db \ {CacheIndex, OldIndex} \/ db' = db \ OfTable(db, Old)
        BY <1>1, <1>2, <1>4, <3>2, SucceedDb
      <3> QED BY <2>5, <3>1, <3>3 DEF OfTable
    <2> QED BY <1>4, <2>6, <2>7, <2>8, <2>9, Places
  <1> QED BY <1>7, <1>8

LEMMA SucceedFk ==
    ASSUME SchemaInv, NEW p \in Procs, Succeed(p)
    PROVE  FkFound'
  <1> SUFFICES ASSUME NEW q \in Procs, proc'[q].alone, Within(q, G + 1, G + 2)'
               PROVE  HasFk(db)'
    BY DEF FkFound
  <1>1. DbTypeOK
    BY DEF SchemaInv
  <1>2. PICK i : i = proc[p].at
    OBVIOUS
  <1>3. PICK n : n = Following(db, i)
    OBVIOUS
  <1>4. /\ i \in DOMAIN Script /\ i \in Nat
        /\ (i = G /\ ~HasFk(db) /\ n = G + 7) \/ (n = i + 1 /\ (i = G => HasFk(db)))
        /\ \A r \in Procs \ {p} : proc'[r] = proc[r]
        /\ proc'[p].alone = proc[p].alone
        /\ Starting(p)
    BY <1>1, <1>2, <1>3, SucceedGoes, Places
  <1>5. \A lo, hi : Within(p, lo, hi)' <=> n <= Len(Script) /\ n \in lo..hi
    BY <1>1, <1>2, <1>3, SucceedGoes
  <1>6. q = p
    <2> SUFFICES ASSUME q # p PROVE FALSE
      OBVIOUS
    <2>1. proc[q].alone /\ Starting(q)
      BY <1>4, OthersWithin DEF Within
    <2> QED BY <1>4, <2>1, NoneAlone, RunningStarts
  <1>7. i = G \/ i = G + 1
    BY <1>4, <1>5, <1>6, Places
  <1>8. HasFk(db)
    <2>1. CASE i = G
      BY <1>4, <1>5, <1>6, <2>1, Places
    <2>2. CASE i = G + 1
      <3>1. Within(p, G + 1, G + 2)
        BY <1>2, <1>4, <2>2, Places DEF Within
      <3> QED BY <1>4, <1>6, <3>1 DEF SchemaInv, FkFound
    <2> QED BY <1>7, <2>1, <2>2
  <1>9. CacheFk \notin {CacheIndex, OldIndex}
    BY DEF CacheFk, CacheIndex, OldIndex, Cache, Old
  <1>10. db' = db \/ db' = db \ {CacheIndex, OldIndex}
    BY <1>1, <1>2, <1>4, <1>7, SucceedDb
  <1> QED BY <1>8, <1>9, <1>10 DEF HasFk

LEMMA SucceedWhole ==
    ASSUME SchemaInv, NEW p \in Procs, Succeed(p)
    PROVE  WholeUnlessHurt'
  <1> SUFFICES ASSUME Settled', ~hurt'
               PROVE  /\ \A o \in Schema : Exists(db, o)'
                      /\ ~HasFk(db)'
                      /\ cached' => CacheRows \in db'
    BY DEF WholeUnlessHurt
  <1>1. \A q \in Procs : ~Starting(q)'
    BY DEF Settled
  <1>2. PICK i : i = proc[p].at
    OBVIOUS
  <1>3. PICK n : n = Following(db, i)
    OBVIOUS
  <1>4. n = Len(Script) + 1
    <2>1. DbTypeOK
      BY DEF SchemaInv
    <2>2. /\ i \in DOMAIN Script /\ i \in Nat
          /\ (i = G /\ n = G + 7) \/ n = i + 1
          /\ ~(n <= Len(Script))
      BY <1>1, <1>2, <1>3, <2>1, SucceedGoes, Places
    <2> QED BY <2>2, Places
  <1>5. Trusted(p) /\ Calm(p)
    BY SucceedTrusted
  <1>6. ~HasFk(db)' /\ \A o \in Schema : InPlace(o)'
    BY <1>2, <1>3, <1>4, <1>5, Ended
  <1>7. \A o \in Schema : Exists(db, o)'
    BY <1>1, <1>6, StandsThere
  <1>8. cached' => CacheRows \in db'
    BY <1>1, SucceedRows DEF RowsKept, Within
  <1> QED BY <1>6, <1>7, <1>8

LEMMA SucceedSchemaInv ==
    ASSUME SchemaInv, NEW p \in Procs, Succeed(p)
    PROVE  SchemaInv'
  <1>1. DbTypeOK
    BY DEF SchemaInv
  <1>2. DbTypeOK'
    <2>1. db' \subseteq Objects /\ proc' \in [Procs -> Progresses]
      BY <1>1, DbTyped, SucceedGoes
    <2>2. starts' = starts /\ faults' = faults
      BY DEF Succeed
    <2>3. hurt' \in BOOLEAN
      BY DEF Succeed
    <2>4. cached' \in BOOLEAN
      <3>1. cached \in BOOLEAN
        BY <1>1 DEF DbTypeOK
      <3>2. CASE hurt /\ Mends(p)
        <4>1. cached' = (CacheRows \in db')
          BY <3>2 DEF Succeed
        <4>2. (CacheRows \in db') \in BOOLEAN
          OBVIOUS
        <4> QED BY <4>1, <4>2
      <3>3. CASE ~(hurt /\ Mends(p))
        BY <3>1, <3>3 DEF Succeed
      <3> QED BY <3>2, <3>3
    <2> QED BY <1>1, <2>1, <2>2, <2>3, <2>4 DEF DbTypeOK, Progresses
  <1> QED BY <1>2, SucceedKeeps, SucceedAlone, SucceedOld, SucceedRows, SucceedFk, SucceedWhole
          DEF SchemaInv
-----------------------------------------------------------------------------
(* A statement is refused                                                  *)

\* Where the start is then.
LEMMA RefusedGoes ==
    ASSUME DbTypeOK, NEW p \in Procs, Refused(p), NEW i, i = proc[p].at
    PROVE  /\ i \in DOMAIN Script /\ i \in Nat
           /\ proc' \in [Procs -> Progresses]
           /\ \A q \in Procs \ {p} : proc'[q] = proc[q]
           /\ proc'[p].alone = proc[p].alone /\ proc'[p] # NotRunning
           /\ Starting(p)
           /\ Script[i].strict => proc'[p].pc = "failed"
           /\ ~Script[i].strict =>
                  /\ i \notin G..(G + 6) /\ proc'[p].pc # "failed"
                  /\ Starting(p)' <=> i + 1 <= Len(Script)
                  /\ i + 1 <= Len(Script) => proc'[p].at = i + 1
  <1>1. i \in DOMAIN Script /\ i \in Nat /\ proc[p].alone \in BOOLEAN /\ proc \in [Procs -> Progresses]
    BY Places DEF DbTypeOK, Progresses
  <1>2. Starting(p) /\ Errs(p, proc[p].alone)
    BY DEF Refused
  <1>3. CASE Script[i].strict
    <2>1. proc' = [proc EXCEPT ![p] = Progress("failed", i, proc[p].alone)]
      BY <1>2, <1>3 DEF Errs, Strict
    <2>2. Progress("failed", i, proc[p].alone) \in Progresses
      BY <1>1 DEF Progress, Progresses
    <2>3. proc'[p] = Progress("failed", i, proc[p].alone)
      BY <1>1, <2>1
    <2>4. proc' \in [Procs -> Progresses] /\ \A q \in Procs \ {p} : proc'[q] = proc[q]
      BY <1>1, <2>1, <2>2
    <2> QED BY <1>1, <1>2, <1>3, <2>3, <2>4 DEF Progress, NotRunning
  <1>4. CASE ~Script[i].strict
    <2>1. GoneTo(p, i + 1, proc[p].alone)
      BY <1>2, <1>4 DEF Errs, Strict
    <2>2. i \notin G..(G + 6)
      BY <1>4, RebuildAt
    <2>3. i + 1 \in Nat /\ i + 1 >= 1
      BY <1>1
    <2> QED BY <1>1, <1>2, <1>4, <2>1, <2>2, <2>3, GoneToIs DEF Starting
  <1> QED BY <1>3, <1>4

\* What is missing, or in the way.
LEMMA RefusedFor ==
    ASSUME DbTypeOK, NEW p \in Procs, Refused(p), NEW i, i = proc[p].at
    PROVE  /\ i # G /\ i # G + 1 /\ i # CacheAt
           /\ i = G + 2 => CacheTable \notin db \/ OldTable \in db
           /\ i = G + 3 => CacheTable \in db
           /\ i = G + 4 => CacheTable \notin db \/ OldName \notin db \/ CacheRows \in db
           /\ i = G + 5 => OldTable \notin db
           /\ i \notin G..(G + 5) =>
                  \/ Script[i].op = "alter" /\ Script[i].obj \in db
                  \/ \E o \in Script[i].needs : o \notin db
           /\ Script[i].op = "create" => ~Exists(db, Script[i].obj)
  <1>1. ~Runs(db, Script[i]) /\ i \in DOMAIN Script
    BY DEF Refused, DbTypeOK
  <1>2. i # CacheAt
    <2>1. i = CacheAt => Script[i].op = "createCache" /\ Script[i].needs = {}
      BY <1>1, OtherAt, Places
    <2> QED BY <1>1, <2>1 DEF Runs
  <1>3. i \in G..(G + 5) => Script[i].op \notin {"create", "alter"}
    <2> SUFFICES ASSUME i \in G..(G + 5) PROVE Script[i].op \notin {"create", "alter"}
      OBVIOUS
    <2>1. i = G \/ i = G + 1 \/ i = G + 2 \/ i = G + 3 \/ i = G + 4 \/ i = G + 5
      BY Places
    <2> QED BY <2>1, RebuildAt
  <1>4. i = G + 2 => CacheTable \notin db \/ OldTable \in db
    BY <1>1, RebuildAt DEF Runs
  <1>5. i # G /\ i # G + 1 /\ (i = G + 3 => CacheTable \in db)
    BY <1>1, RebuildAt DEF Runs
  <1>6. i = G + 4 => CacheTable \notin db \/ OldName \notin db \/ CacheRows \in db
    BY <1>1, RebuildAt DEF Runs
  <1>7. i = G + 5 => OldTable \notin db
    BY <1>1, RebuildAt DEF Runs
  <1>8. ASSUME i \notin G..(G + 5)
        PROVE  (Script[i].op = "alter" /\ Script[i].obj \in db) \/ \E o \in Script[i].needs : o \notin db
    <2>1. Script[i].op \in {"create", "alter"}
      <3>1. CASE i = G + 6
        BY <3>1, RebuildAt DEF MakesIndex
      <3>2. CASE i \notin G..(G + 6)
        BY <1>1, <1>2, <3>2, OtherAt DEF Makes
      <3> QED BY <1>8, <3>1, <3>2, Places
    <2>2. CASE Script[i].op = "create"
      BY <1>1, <2>2 DEF Runs
    <2>3. CASE Script[i].op = "alter"
      BY <1>1, <2>3 DEF Runs
    <2> QED BY <2>1, <2>2, <2>3
  <1>9. Script[i].op = "create" => ~Exists(db, Script[i].obj)
    BY <1>1 DEF Runs
  <1> QED BY <1>2, <1>4, <1>5, <1>6, <1>7, <1>8, <1>9

\* In 013, and alone, a start that can be trusted has nobody beside it in 013.
LEMMA TrustedCalm ==
    ASSUME SchemaInv, NEW p \in Procs, Trusted(p), Inside(p) \/ proc[p].alone
    PROVE  Calm(p)
  <1> SUFFICES ASSUME NEW q \in Procs \ {p}, Inside(q) PROVE FALSE
    BY DEF Calm
  <1>1. Starting(p) /\ proc[p] # NotRunning /\ proc[q] # NotRunning
    BY RunningStarts DEF Trusted
  <1>2. ~proc[p].alone
    BY <1>1, NoneAlone
  <1>3. ~hurt /\ Inside(p)
    BY <1>2 DEF Trusted
  <1> QED BY <1>3 DEF SchemaInv, OneInside

\* What an earlier statement made of another table is there.
LEMMA NeedThere ==
    ASSUME NEW i \in Nat, NEW o \in MadeBefore(i), InPlace(o), o \notin db
    PROVE  o[1] = Cache /\ (o \in {CacheTable, CacheName} => \E q \in Procs : Away(q))
  <1>1. CASE o[1] = Cache
    BY <1>1, MadeAre DEF InPlace, Exists, CacheTable, CacheName, CacheIndex, Table
  <1>2. CASE o[1] # Cache
    <2>1. o \notin {CacheTable, CacheName, CacheIndex}
      BY <1>2 DEF CacheTable, CacheName, CacheIndex
    <2> QED BY <2>1 DEF InPlace, Exists
  <1> QED BY <1>1, <1>2

\* A strict statement is refused when another start is in 013, or when an abandoned
\* schema_cache_old is in the way.
LEMMA StrictRefused ==
    ASSUME SchemaInv, NEW p \in Procs, Refused(p), Trusted(p), NEW i, i = proc[p].at, Script[i].strict
    PROVE  /\ i = G + 2 \/ i = G + 6
           /\ ~Calm(p) \/ (i = G + 2 /\ proc[p].alone /\ OldTable \in db /\ HasFk(db))
  <1>1. DbTypeOK
    BY DEF SchemaInv
  <1>2. i \in DOMAIN Script /\ i \in Nat /\ Starting(p)
    BY <1>1, RefusedGoes
  <1>3. Rebuilt(i) /\ \A o \in MadeBefore(i) : InPlace(o)
    BY DEF SchemaInv, Keeps
  <1>4. i # G + 3
    <2>1. CacheTable[1] = Cache
      BY DEF CacheTable
    <2> QED BY <1>1, <1>3, <2>1, RefusedFor DEF Rebuilt, OfTable
  <1>5. ASSUME i \in {G + 2, G + 4, G + 6}, Calm(p) PROVE {CacheTable, CacheName} \subseteq db
    <2>1. i >= G /\ i # G + 3
      BY <1>5, Places
    <2>2. {CacheTable, CacheName} \subseteq MadeBefore(i)
      BY <1>2, <2>1, MadeBeforeRebuild
    <2>3. \A o \in {CacheTable, CacheName} : InPlace(o)
      BY <1>3, <2>2
    <2>4. proc[p].at # G + 3
      BY <2>1
    <2> QED BY <1>5, <2>3, <2>4, InPlaceThere
  <1>6. i # G + 4
    <2> SUFFICES ASSUME i = G + 4 PROVE FALSE
      OBVIOUS
    <2>1. Calm(p)
      <3>1. Inside(p)
        BY <1>2, Places DEF Inside, Within
      <3> QED BY <3>1, TrustedCalm
    <2>2. CacheTable \in db
      BY <1>5, <2>1
    <2>3. OldName \in db /\ CacheRows \notin db
      BY <1>3, Places DEF Rebuilt
    <2> QED BY <1>1, <2>2, <2>3, RefusedFor
  <1>7. i # G + 5
    BY <1>1, <1>3, RefusedFor, Places DEF Rebuilt
  <1>8. i \in G..(G + 6)
    <2> SUFFICES ASSUME i \notin G..(G + 6) PROVE FALSE
      OBVIOUS
    <2>1. i # CacheAt /\ i \notin G..(G + 5)
      BY <1>1, RefusedFor, Places
    <2>2. Script[i].op # "alter"
      BY <1>2, OtherAt
    <2>3. PICK o \in Script[i].needs : o \notin db
      BY <1>1, <2>1, <2>2, RefusedFor
    <2>4. o \in MadeBefore(i)
      BY <1>2, NeedsMade
    <2>5. o[1] = Cache
      BY <1>2, <1>3, <2>3, <2>4, NeedThere
    <2>6. Script[i].obj[1] = Cache
      BY <1>2, <2>5, OtherAt
    <2> QED BY <1>2, <2>1, <2>6, OtherAt
  <1>9. i = G + 2 \/ i = G + 6
    <2>1. i # G /\ i # G + 1
      BY <1>1, RefusedFor
    <2> QED BY <1>4, <1>6, <1>7, <1>8, <2>1, RebuildRange
  <1>10. CASE i = G + 6
    <2>1. Script[i].needs = {CacheTable, CacheName} /\ Script[i].op = "create"
      BY <1>10, RebuildAt DEF MakesIndex
    <2>2. i \notin G..(G + 5)
      BY <1>10, Places
    <2>3. PICK o \in {CacheTable, CacheName} : o \notin db
      BY <1>1, <2>1, <2>2, RefusedFor
    <2>4. ~Calm(p)
      BY <1>5, <1>10, <2>3
    <2> QED BY <1>10, <2>4
  <1>11. CASE i = G + 2
    <2> SUFFICES ASSUME Calm(p) PROVE proc[p].alone /\ OldTable \in db /\ HasFk(db)
      BY <1>11
    <2>1. CacheTable \in db
      BY <1>5, <1>11
    <2>2. OldTable \in db
      BY <1>1, <1>11, <2>1, RefusedFor
    <2>3. Within(p, G + 1, G + 2) /\ ~Inside(p)
      BY <1>2, <1>11, Places DEF Within, Inside
    <2>4. hurt
      BY <2>2, <2>3 DEF SchemaInv, OldOwned, Calm
    <2>5. proc[p].alone
      BY <2>4 DEF Trusted
    <2> QED BY <2>2, <2>3, <2>5 DEF SchemaInv, FkFound
  <1> QED BY <1>9, <1>10, <1>11

\* An ignored error leaves out nothing that is not there.
LEMMA LooseRefused ==
    ASSUME SchemaInv, NEW p \in Procs, Refused(p), Trusted(p), NEW i, i = proc[p].at,
           ~Script[i].strict, NEW o \in MadeBefore(i + 1)
    PROVE  InPlace(o)
  <1>1. DbTypeOK
    BY DEF SchemaInv
  <1>2. i \in DOMAIN Script /\ i \in Nat /\ i \notin G..(G + 6) /\ i # CacheAt
    BY <1>1, RefusedGoes, RefusedFor
  <1>3. \A m \in MadeBefore(i) : InPlace(m)
    BY DEF SchemaInv, Keeps
  <1>4. CASE o \in MadeBefore(i)
    BY <1>3, <1>4
  <1>5. CASE o \notin MadeBefore(i)
    <2>1. Makes(Script[i]) /\ o = Script[i].obj
      BY <1>2, <1>5, MadeNext
    <2>2. CASE Script[i].op = "alter" /\ o \in db
      BY <2>2 DEF InPlace, Exists
    <2>3. CASE \E m \in Script[i].needs : m \notin db
      <3>1. PICK m \in Script[i].needs : m \notin db
        BY <2>3
      <3>2. m \in MadeBefore(i)
        BY <1>2, NeedsMade
      <3>3. m[1] = Cache /\ (m \in {CacheTable, CacheName} => \E q \in Procs : Away(q))
        BY <1>2, <1>3, <3>1, <3>2, NeedThere
      <3>4. MakesName(Script[i]) \/ MakesIndex(Script[i])
        BY <1>2, <3>3, OtherAt
      <3>5. m \in {CacheTable, CacheName} /\ o \in {CacheName, CacheIndex}
        BY <2>1, <3>1, <3>4 DEF MakesName, MakesIndex
      <3>6. PICK q \in Procs : Away(q)
        BY <3>3, <3>5
      <3>7. Unindexed(q)
        BY <3>6, RunningStarts
      <3> QED BY <3>5, <3>6, <3>7 DEF InPlace
    <2> QED BY <1>1, <1>2, <2>1, <2>2, <2>3, RefusedFor, Places
  <1> QED BY <1>4, <1>5
\* What is in place stays so, unless the only start fails.
LEMMA RefusedInPlace ==
    ASSUME SchemaInv, NEW p \in Procs, Refused(p), Trusted(p),
           ~proc[p].alone \/ ~Script[proc[p].at].strict, NEW o, InPlace(o)
    PROVE  InPlace(o)'
  <1>1. PICK i : i = proc[p].at
    OBVIOUS
  <1>2. db' = db /\ \A q \in Procs \ {p} : proc'[q] = proc[q]
    BY RefusedGoes DEF SchemaInv, Refused
  <1>3. \A q \in Procs \ {p} : (Away(q)' <=> Away(q)) /\ (Unindexed(q)' <=> Unindexed(q))
    BY <1>2, OthersWithin
  <1>4. ~Away(p)
    <2> SUFFICES ASSUME Away(p) PROVE FALSE
      OBVIOUS
    <2>1. i = G + 3
      BY <1>1, Places DEF Away, Within
    <2>2. Script[i].strict
      <3>1. i \in G..(G + 6)
        BY <2>1, GuardNat
      <3> QED BY <3>1, RebuildAt
    <2>3. i = G + 2 \/ i = G + 6
      BY <1>1, <2>2, StrictRefused
    <2> QED BY <2>1, <2>3, Places
  <1>5. Unindexed(p) => \E q \in Procs \ {p} : Unindexed(q)
    <2> SUFFICES ASSUME Unindexed(p) PROVE \E q \in Procs \ {p} : Unindexed(q)
      OBVIOUS
    <2>1. i \in G..(G + 6)
      BY <1>1, Places DEF Unindexed, Within
    <2>2. Script[i].strict
      BY <2>1, RebuildAt
    <2>3. ~Calm(p)
      BY <1>1, <2>2, StrictRefused
    <2>4. PICK q \in Procs \ {p} : Inside(q)
      BY <2>3 DEF Calm
    <2>5. Unindexed(q)
      BY <2>4, Places DEF Inside, Unindexed, Within
    <2> QED BY <2>5
  <1>6. Exists(db, o) => Exists(db, o)'
    BY <1>2 DEF Exists
  <1> QED BY <1>3, <1>4, <1>5, <1>6 DEF InPlace

LEMMA RefusedKeeps ==
    ASSUME SchemaInv, NEW p \in Procs, Refused(p), NEW q \in Procs
    PROVE  Keeps(q)'
  <1> SUFFICES ASSUME Trusted(q)'
               PROVE  /\ Rebuilt(proc[q].at)'
                      /\ \A o \in MadeBefore(proc'[q].at) : InPlace(o)'
    BY DEF Keeps
  <1>1. DbTypeOK /\ db' = db /\ hurt' = hurt
    BY DEF SchemaInv, Refused
  <1>2. PICK i : i = proc[p].at
    OBVIOUS
  <1>3. /\ i \in DOMAIN Script /\ i \in Nat
        /\ \A r \in Procs \ {p} : proc'[r] = proc[r]
        /\ proc'[p].alone = proc[p].alone
        /\ Starting(p)
        /\ Script[i].strict => proc'[p].pc = "failed"
        /\ ~Script[i].strict =>
               /\ i \notin G..(G + 6)
               /\ Starting(p)' <=> i + 1 <= Len(Script)
               /\ i + 1 <= Len(Script) => proc'[p].at = i + 1
    BY <1>1, <1>2, RefusedGoes
  <1>4. CASE q = p
    <2>1. ~Script[i].strict /\ proc'[p].at = i + 1
      BY <1>3, <1>4 DEF Trusted, Starting
    <2>2. Trusted(p)
      BY <1>1, <1>3, <1>4 DEF Trusted
    <2>3. \A o \in MadeBefore(i + 1) : InPlace(o)
      BY <1>2, <2>1, <2>2, LooseRefused
    <2>4. \A o \in MadeBefore(i + 1) : InPlace(o)'
      BY <1>2, <2>1, <2>2, <2>3, RefusedInPlace
    <2>5. i + 1 > G + 2 => i > G + 2
      BY <1>3, <2>1, Places
    <2>6. i + 1 > G + 2 => ~HasFk(db)
      BY <1>2, <2>2, <2>5 DEF SchemaInv, Keeps, Rebuilt
    <2>7. i + 1 \notin G + 3..G + 5
      BY <1>3, <2>1, Places
    <2>8. i + 1 # G + 3 /\ i + 1 # G + 4 /\ i + 1 \notin G + 3..G + 4
      BY <2>7, Places
    <2>9. Rebuilt(i + 1)
      BY <2>6, <2>7, <2>8 DEF Rebuilt
    <2>10. Rebuilt(i + 1)'
      BY <1>1, <2>9 DEF Rebuilt, HasFk
    <2> QED BY <1>4, <2>1, <2>4, <2>10 DEF Rebuilt
  <1>5. CASE q # p
    <2>1. Starting(q) /\ proc'[q] = proc[q]
      BY <1>3, <1>5, OthersWithin DEF Trusted
    <2>2. ~proc[q].alone /\ ~proc[p].alone
      BY <1>3, <1>5, <2>1, NoneAlone, RunningStarts
    <2>3. Trusted(q) /\ Trusted(p)
      BY <1>1, <1>3, <2>1, <2>2 DEF Trusted
    <2>4. Rebuilt(proc[q].at) /\ \A o \in MadeBefore(proc[q].at) : InPlace(o)
      BY <2>3 DEF SchemaInv, Keeps
    <2>5. \A o \in MadeBefore(proc[q].at) : InPlace(o)'
      BY <2>2, <2>3, <2>4, RefusedInPlace
    <2>6. Rebuilt(proc[q].at)'
      BY <1>1, <2>1, <2>4 DEF Rebuilt, HasFk
    <2> QED BY <2>1, <2>5, <2>6
  <1> QED BY <1>4, <1>5

\* In 013 a refusal ends the start.
LEMMA RefusedWithin ==
    ASSUME SchemaInv, NEW p \in Procs, Refused(p)
    PROVE  /\ ~Within(p, G + 1, G + 6)' /\ ~Within(p, G + 1, G + 2)' /\ ~Inside(p)'
           /\ Trusted(p) => ~Inside(p)
  <1>1. PICK i : i = proc[p].at
    OBVIOUS
  <1>2. /\ i \in DOMAIN Script /\ i \in Nat
        /\ Script[i].strict => proc'[p].pc = "failed"
        /\ ~Script[i].strict =>
               /\ i \notin G..(G + 6)
               /\ Starting(p)' <=> i + 1 <= Len(Script)
               /\ i + 1 <= Len(Script) => proc'[p].at = i + 1
    BY <1>1, RefusedGoes DEF SchemaInv
  <1>3. ~Within(p, G + 1, G + 6)'
    <2>1. CASE Script[i].strict
      BY <1>2, <2>1 DEF Within, Starting
    <2>2. CASE ~Script[i].strict
      <3>1. i + 1 \notin (G + 1)..(G + 6)
        BY <1>2, <2>2, Places
      <3> QED BY <1>2, <2>2, <3>1 DEF Within
    <2> QED BY <2>1, <2>2
  <1>4. ~Within(p, G + 1, G + 2)' /\ ~Inside(p)'
    BY <1>3, Places DEF Within, Inside
  <1>5. ASSUME Trusted(p), Inside(p) PROVE FALSE
    <2>1. i \in (G + 3)..(G + 5)
      BY <1>1, <1>5 DEF Inside, Within
    <2>2. Script[i].strict
      <3>1. i \in G..(G + 6)
        BY <2>1, GuardNat
      <3> QED BY <3>1, RebuildAt
    <2>3. i = G + 2 \/ i = G + 6
      BY <1>1, <1>5, <2>2, StrictRefused
    <2> QED BY <2>1, <2>3, Places
  <1> QED BY <1>3, <1>4, <1>5

LEMMA RefusedSchemaInv ==
    ASSUME SchemaInv, NEW p \in Procs, Refused(p)
    PROVE  SchemaInv'
  <1>1. DbTypeOK /\ db' = db /\ hurt' = hurt /\ cached' = cached /\ starts' = starts /\ faults' = faults
    BY DEF SchemaInv, Refused
  <1>2. PICK i : i = proc[p].at
    OBVIOUS
  <1>3. /\ i \in DOMAIN Script /\ i \in Nat
        /\ proc' \in [Procs -> Progresses]
        /\ \A q \in Procs \ {p} : proc'[q] = proc[q]
        /\ proc'[p].alone = proc[p].alone /\ proc'[p] # NotRunning
        /\ Starting(p)
        /\ Script[i].strict => proc'[p].pc = "failed"
        /\ ~Script[i].strict =>
               /\ i \notin G..(G + 6) /\ proc'[p].pc # "failed"
               /\ Starting(p)' <=> i + 1 <= Len(Script)
    BY <1>1, <1>2, RefusedGoes
  <1>4. ASSUME NEW q \in Procs \ {p}
        PROVE  /\ \A lo, hi : Within(q, lo, hi)' <=> Within(q, lo, hi)
               /\ Inside(q)' <=> Inside(q)
               /\ Starting(q)' <=> Starting(q)
    <2>1. \A r \in Procs \ {p} : proc'[r] = proc[r]
      BY <1>3
    <2> QED BY <2>1, OthersWithin
  <1>5. ~Within(p, G + 1, G + 6)' /\ ~Within(p, G + 1, G + 2)' /\ ~Inside(p)'
    BY RefusedWithin
  <1>6. ~hurt => Trusted(p) /\ ~Inside(p)
    BY <1>3, RefusedWithin DEF Trusted
  <1>7. proc[p] # NotRunning
    BY <1>3, RunningStarts
  <1>8. DbTypeOK'
    BY <1>1, <1>3 DEF DbTypeOK, Progresses
  <1>9. AloneApart'
    BY <1>3, <1>7 DEF SchemaInv, AloneApart, NotRunning
  <1>10. OneInside'
    BY <1>1, <1>4, <1>5 DEF SchemaInv, OneInside
  <1>11. OldOwned'
    <2> SUFFICES ASSUME ~hurt', OldTable \in db'
                 PROVE  \/ \E q \in Procs : Inside(q)'
                        \/ /\ ~HasFk(db)' /\ CacheTable \in db'
                           /\ \A q \in Procs : ~Within(q, G + 1, G + 2)'
      BY DEF OldOwned
    <2>1. \/ \E q \in Procs : Inside(q)
          \/ ~HasFk(db) /\ CacheTable \in db /\ \A q \in Procs : ~Within(q, G + 1, G + 2)
      BY <1>1 DEF SchemaInv, OldOwned
    <2>2. CASE \E q \in Procs : Inside(q)
      BY <1>1, <1>4, <1>6, <2>2
    <2>3. CASE ~HasFk(db) /\ CacheTable \in db /\ \A q \in Procs : ~Within(q, G + 1, G + 2)
      BY <1>1, <1>4, <1>5, <2>3 DEF HasFk
    <2> QED BY <2>1, <2>2, <2>3
  <1>12. RowsKept'
    <2> SUFFICES ASSUME ~hurt, cached, CacheRows \notin db
                 PROVE  OldRows \in db /\ \E q \in Procs : Within(q, G + 3, G + 4)'
      BY <1>1 DEF RowsKept
    <2>1. PICK q \in Procs : OldRows \in db /\ Within(q, G + 3, G + 4)
      BY DEF SchemaInv, RowsKept
    <2>2. Inside(q)
      BY <2>1, Places DEF Inside, Within
    <2>3. q # p
      BY <1>6, <2>2
    <2> QED BY <1>4, <2>1, <2>3
  <1>13. FkFound'
    <2> SUFFICES ASSUME NEW q \in Procs, proc'[q].alone, Within(q, G + 1, G + 2)' PROVE HasFk(db)'
      BY DEF FkFound
    <2>1. q # p /\ proc[q].alone /\ Within(q, G + 1, G + 2)
      BY <1>3, <1>4, <1>5
    <2> QED BY <1>1, <2>1 DEF SchemaInv, FkFound, HasFk
  <1>14. WholeUnlessHurt'
    <2> SUFFICES ASSUME Settled', ~hurt
                 PROVE  /\ \A o \in Schema : Exists(db, o)'
                        /\ ~HasFk(db)'
                        /\ cached' => CacheRows \in db'
      BY <1>1 DEF WholeUnlessHurt
    <2>1. (\A q \in Procs : ~Starting(q)') /\ Calm(p) /\ Trusted(p)
      BY <1>4, <1>6 DEF Settled, Calm, Inside, Within
    <2>2. ~Script[i].strict
      <3> SUFFICES ASSUME Script[i].strict PROVE FALSE
        OBVIOUS
      <3>1. i = G + 2 /\ OldTable \in db /\ HasFk(db)
        BY <1>2, <2>1, StrictRefused
      <3>2. ~Inside(p) /\ Within(p, G + 1, G + 2)
        BY <1>2, <1>3, <1>6, <3>1, Places DEF Within
      <3> QED BY <2>1, <3>1, <3>2 DEF SchemaInv, OldOwned, Calm
    <2>3. i = Len(Script)
      BY <1>3, <2>1, <2>2, Places
    <2>4. \A o \in Schema : Exists(db, o)'
      <3> SUFFICES ASSUME NEW o \in Schema PROVE Exists(db, o)'
        OBVIOUS
      <3>1. o \in MadeBefore(i + 1)
        BY <2>3, MadeAll
      <3>2. InPlace(o)
        BY <1>2, <2>1, <2>2, <3>1, LooseRefused
      <3>3. InPlace(o)'
        BY <1>2, <2>1, <2>2, <3>2, RefusedInPlace
      <3> QED BY <2>1, <3>3, StandsThere
    <2>5. ~HasFk(db)
      <3>1. Rebuilt(i)
        BY <1>2, <2>1 DEF SchemaInv, Keeps
      <3>2. i > G + 2
        BY <2>3, Places
      <3> QED BY <3>1, <3>2 DEF Rebuilt
    <2>6. cached' => CacheRows \in db'
      BY <1>1, <1>12, <2>1 DEF RowsKept, Within
    <2> QED BY <1>1, <2>4, <2>5, <2>6 DEF HasFk
  <1>15. FailsOnlySetAside'
    <2> SUFFICES ASSUME NEW q \in Procs, proc'[q].pc = "failed", proc'[q].alone
                 PROVE  {OldTable, CacheFk} \subseteq db
      BY <1>1 DEF FailsOnlySetAside
    <2>1. CASE q # p
      BY <1>3, <2>1 DEF SchemaInv, FailsOnlySetAside
    <2>2. CASE q = p
      <3>1. Script[i].strict /\ Trusted(p) /\ proc[p].alone
        BY <1>3, <2>2 DEF Trusted
      <3>2. Calm(p)
        BY <3>1, TrustedCalm
      <3> QED BY <1>2, <3>1, <3>2, StrictRefused DEF HasFk
    <2> QED BY <2>1, <2>2
  <1> QED BY <1>8, <1>9, <1>10, <1>11, <1>12, <1>13, <1>14, <1>15, RefusedKeeps DEF SchemaInv
-----------------------------------------------------------------------------
(* The other steps                                                         *)

\* After a step that hurts nobody can be trusted but a start on its own, so a start that
\* goes on beside another cannot.
LEMMA HurtSchemaInv ==
    ASSUME SchemaInv, DbTypeOK', hurt', NEW p \in Procs, db' = db, proc[p] # NotRunning,
           \A q \in Procs \ {p} : proc'[q] = proc[q], proc'[p] = NotRunning \/ ~proc'[p].alone
    PROVE  SchemaInv'
  <1>1. ~proc'[p].alone
    BY DEF NotRunning, Progress
  <1>2. ASSUME NEW q \in Procs PROVE ~proc'[q].alone \/ proc'[q] = NotRunning
    <2>1. CASE q = p
      BY <1>1, <2>1
    <2>2. CASE q # p
      BY <2>2, NoneAlone
    <2> QED BY <2>1, <2>2
  <1>3. \A q \in Procs : ~proc'[q].alone
    BY <1>2 DEF NotRunning, Progress
  <1>4. \A q \in Procs : Keeps(q)'
    BY <1>3 DEF Keeps, Trusted
  <1>5. AloneApart' /\ FkFound' /\ FailsOnlySetAside'
    BY <1>3 DEF AloneApart, FkFound, FailsOnlySetAside
  <1>6. OneInside' /\ OldOwned' /\ RowsKept' /\ WholeUnlessHurt'
    BY DEF OneInside, OldOwned, RowsKept, WholeUnlessHurt
  <1> QED BY <1>4, <1>5, <1>6 DEF SchemaInv

LEMMA FaultSchemaInv ==
    ASSUME SchemaInv, NEW p \in Procs, Fault(p)
    PROVE  SchemaInv'
  <1>1. PICK i : i = proc[p].at
    OBVIOUS
  <1>2. /\ DbTypeOK /\ i \in DOMAIN Script /\ i \in Nat /\ proc \in [Procs -> Progresses]
        /\ Starting(p)
    BY <1>1, Places DEF SchemaInv, Fault, DbTypeOK, Progresses
  <1>3. /\ proc' \in [Procs -> Progresses]
        /\ \A q \in Procs \ {p} : proc'[q] = proc[q]
        /\ ~proc'[p].alone
    <2>1. CASE Script[i].op = "guard"
      <3>1. GoneTo(p, PastDropFk, FALSE)
        BY <1>1, <2>1 DEF Fault
      <3>2. PastDropFk \in Nat /\ PastDropFk >= 1
        BY Places
      <3> QED BY <1>2, <3>1, <3>2, GoneToIs
    <2>2. CASE Script[i].op # "guard" /\ Script[i].strict
      <3>1. proc' = [proc EXCEPT ![p] = Progress("failed", i, FALSE)]
        BY <1>1, <2>2 DEF Fault, Errs, Strict
      <3>2. Progress("failed", i, FALSE) \in Progresses
        BY <1>2 DEF Progress, Progresses
      <3> QED BY <1>2, <3>1, <3>2 DEF Progress
    <2>3. CASE Script[i].op # "guard" /\ ~Script[i].strict
      <3>1. GoneTo(p, i + 1, FALSE)
        BY <1>1, <2>3 DEF Fault, Errs, Strict
      <3>2. i + 1 \in Nat /\ i + 1 >= 1
        BY <1>2
      <3> QED BY <1>2, <3>1, <3>2, GoneToIs
    <2> QED BY <2>1, <2>2, <2>3
  <1>4. /\ hurt' = TRUE /\ db' = db /\ starts' = starts /\ cached' = cached
        /\ faults < MaxFaults /\ faults' = faults + 1
    BY DEF Fault
  <1>5. DbTypeOK'
    BY <1>2, <1>3, <1>4, StartsAssumption DEF DbTypeOK, Progresses
  <1> QED BY <1>2, <1>3, <1>4, <1>5, HurtSchemaInv, RunningStarts

\* When no start moves, what holds of the starts goes on holding.
LEMMA SameStarts ==
    ASSUME SchemaInv, DbTypeOK', db' = db, hurt' = hurt, cached' = cached, starts' = starts,
           \A q \in Procs : (Starting(q)' <=> Starting(q)) /\ (Starting(q) => proc'[q] = proc[q]),
           AloneApart', FailsOnlySetAside'
    PROVE  SchemaInv'
  <1>1. ASSUME NEW q \in Procs
        PROVE  /\ \A lo, hi : Within(q, lo, hi)' <=> Within(q, lo, hi)
               /\ Inside(q)' <=> Inside(q)
               /\ Away(q)' <=> Away(q)
               /\ Unindexed(q)' <=> Unindexed(q)
    BY DEF Within, Inside, Away, Unindexed
  <1>2. \A o : InPlace(o)' <=> InPlace(o)
    BY <1>1 DEF InPlace, Exists
  <1>3. ASSUME NEW q \in Procs PROVE Keeps(q)'
    <2> SUFFICES ASSUME Trusted(q)'
                 PROVE  /\ Rebuilt(proc[q].at)'
                        /\ \A o \in MadeBefore(proc'[q].at) : InPlace(o)'
      BY DEF Keeps
    <2>1. Trusted(q) /\ proc'[q] = proc[q]
      BY DEF Trusted
    <2>2. Rebuilt(proc[q].at) /\ \A o \in MadeBefore(proc[q].at) : InPlace(o)
      BY <2>1 DEF SchemaInv, Keeps
    <2>3. Rebuilt(proc[q].at)'
      BY <2>1, <2>2 DEF Rebuilt, HasFk
    <2> QED BY <1>2, <2>1, <2>2, <2>3
  <1>4. OneInside' /\ RowsKept'
    BY <1>1 DEF SchemaInv, OneInside, RowsKept
  <1>5. OldOwned'
    BY <1>1 DEF SchemaInv, OldOwned, HasFk
  <1>6. FkFound'
    <2> SUFFICES ASSUME NEW q \in Procs, proc'[q].alone, Within(q, G + 1, G + 2)' PROVE HasFk(db)'
      BY DEF FkFound
    <2>1. Within(q, G + 1, G + 2) /\ proc'[q] = proc[q]
      BY <1>1 DEF Within
    <2> QED BY <2>1 DEF SchemaInv, FkFound, HasFk
  <1>7. WholeUnlessHurt'
    BY DEF SchemaInv, WholeUnlessHurt, Settled, HasFk, Exists
  <1> QED BY <1>3, <1>4, <1>5, <1>6, <1>7 DEF SchemaInv

LEMMA StopSchemaInv ==
    ASSUME SchemaInv, NEW p \in Procs, Stop(p)
    PROVE  SchemaInv'
  <1>1. /\ proc \in [Procs -> Progresses] /\ DbTypeOK
        /\ db' = db /\ cached' = cached /\ starts' = starts /\ faults' = faults
        /\ hurt' = (hurt \/ Starting(p)) /\ proc[p] # NotRunning
        /\ proc' = [proc EXCEPT ![p] = NotRunning]
    BY DEF Stop, SchemaInv, DbTypeOK, Progresses
  <1>2. NotRunning \in Progresses
    BY Places DEF NotRunning, Progress, Progresses
  <1>3. /\ proc' \in [Procs -> Progresses]
        /\ \A q \in Procs \ {p} : proc'[q] = proc[q]
        /\ proc'[p] = NotRunning
    BY <1>1, <1>2
  <1>4. hurt' \in BOOLEAN
    BY <1>1
  <1>5. DbTypeOK'
    BY <1>1, <1>3, <1>4 DEF DbTypeOK, Progresses
  <1>6. CASE Starting(p)
    <2>1. hurt'
      BY <1>1, <1>6
    <2> QED BY <1>1, <1>3, <1>5, <2>1, HurtSchemaInv
  <1>7. CASE ~Starting(p)
    <2>1. hurt' = hurt
      BY <1>1, <1>7 DEF DbTypeOK
    <2>2. \A q \in Procs : (Starting(q)' <=> Starting(q)) /\ (Starting(q) => proc'[q] = proc[q])
      BY <1>3, <1>7 DEF Starting, NotRunning, Progress
    <2>3. AloneApart'
      BY <1>3 DEF SchemaInv, AloneApart
    <2>4. FailsOnlySetAside'
      BY <1>1, <1>3 DEF SchemaInv, FailsOnlySetAside, NotRunning, Progress
    <2> QED BY <1>1, <1>5, <2>1, <2>2, <2>3, <2>4, SameStarts
  <1> QED BY <1>6, <1>7

LEMMA StutterSchemaInv == ASSUME SchemaInv, UNCHANGED dbVars PROVE SchemaInv'
  <1>1. /\ db' = db /\ proc' = proc /\ starts' = starts /\ faults' = faults
        /\ hurt' = hurt /\ cached' = cached
    BY DEF dbVars
  <1>2. DbTypeOK' /\ AloneApart' /\ FailsOnlySetAside'
    BY <1>1 DEF SchemaInv, DbTypeOK, AloneApart, FailsOnlySetAside
  <1>3. \A q \in Procs : (Starting(q)' <=> Starting(q)) /\ (Starting(q) => proc'[q] = proc[q])
    BY <1>1 DEF Starting
  <1> QED BY <1>1, <1>2, <1>3, SameStarts

LEMMA IntrospectSchemaInv ==
    ASSUME SchemaInv, NEW p \in Procs, Introspect(p)
    PROVE  SchemaInv'
  <1>1. /\ proc' = proc /\ db' = db \union {CacheRows} /\ cached' = TRUE
        /\ starts' = starts /\ faults' = faults /\ hurt' = (hurt \/ OtherInside(p))
        /\ proc[p].pc = "ready" /\ DbTypeOK
    BY DEF Introspect, SchemaInv
  <1>2. ~Starting(p) /\ proc[p] # NotRunning
    BY <1>1 DEF Starting, NotRunning, Progress
  <1>3. ~hurt' => ~hurt /\ \A q \in Procs : ~Inside(q)
    BY <1>1, <1>2, InsideIs DEF Calm, Inside, Within
  <1>4. CacheRows \notin {CacheFk, OldTable, OldName, CacheTable}
    BY DEF CacheRows, CacheFk, OldTable, OldName, CacheTable, Cache, Old, Table
  <1>5. HasFk(db)' <=> HasFk(db)
    BY <1>1, <1>4 DEF HasFk
  <1>6. \A o : Exists(db, o) => Exists(db, o)'
    BY <1>1 DEF Exists
  <1>7. /\ \A q \in Procs : /\ Starting(q)' <=> Starting(q)
                            /\ \A lo, hi : Within(q, lo, hi)' <=> Within(q, lo, hi)
                            /\ Inside(q)' <=> Inside(q)
                            /\ Away(q)' <=> Away(q)
                            /\ Unindexed(q)' <=> Unindexed(q)
    BY <1>1 DEF Starting, Within, Inside, Away, Unindexed
  <1>8. ASSUME NEW q \in Procs PROVE Keeps(q)'
    <2> SUFFICES ASSUME Trusted(q)'
                 PROVE  /\ Rebuilt(proc[q].at)'
                        /\ \A o \in MadeBefore(proc'[q].at) : InPlace(o)'
      BY DEF Keeps
    <2>1. Starting(q) /\ ~proc[q].alone
      BY <1>2, <1>7, NoneAlone, RunningStarts DEF Trusted
    <2>2. ~hurt /\ ~Inside(q) /\ Trusted(q)
      BY <1>1, <1>3, <2>1 DEF Trusted
    <2>3. Rebuilt(proc[q].at) /\ \A o \in MadeBefore(proc[q].at) : InPlace(o)
      BY <2>2 DEF SchemaInv, Keeps
    <2>4. \A o \in MadeBefore(proc[q].at) : InPlace(o)'
      BY <1>6, <1>7, <2>3 DEF InPlace
    <2>5. proc[q].at # G + 3 /\ proc[q].at # G + 4
      BY <2>1, <2>2, Places DEF Inside, Within
    <2>6. Rebuilt(proc[q].at)'
      BY <1>1, <1>5, <2>3, <2>5 DEF Rebuilt
    <2> QED BY <1>1, <2>4, <2>6
  <1>9. DbTypeOK'
    <2>1. CacheRows \in Objects
      BY DEF CacheRows, Objects
    <2>2. hurt' \in BOOLEAN /\ cached' \in BOOLEAN
      BY <1>1
    <2> QED BY <1>1, <2>1, <2>2 DEF DbTypeOK
  <1>10. AloneApart' /\ FailsOnlySetAside'
    BY <1>1 DEF SchemaInv, AloneApart, FailsOnlySetAside
  <1>11. OneInside'
    BY <1>3, <1>7 DEF OneInside
  <1>12. OldOwned'
    BY <1>1, <1>3, <1>4, <1>5, <1>7 DEF SchemaInv, OldOwned
  <1>13. RowsKept' /\ FkFound'
    BY <1>1, <1>5, <1>7 DEF SchemaInv, RowsKept, FkFound
  <1>14. WholeUnlessHurt'
    BY <1>1, <1>3, <1>5, <1>6, <1>7 DEF SchemaInv, WholeUnlessHurt, Settled
  <1> QED BY <1>8, <1>9, <1>10, <1>11, <1>12, <1>13, <1>14 DEF SchemaInv

LEMMA LaunchSchemaInv ==
    ASSUME SchemaInv, NEW p \in Procs, Launch(p)
    PROVE  SchemaInv'
  <1>1. /\ proc \in [Procs -> Progresses] /\ DbTypeOK /\ proc[p] = NotRunning
        /\ db' = db /\ cached' = cached /\ hurt' = hurt /\ faults' = faults
        /\ starts < MaxStarts /\ starts' = starts + 1
        /\ proc' = [q \in Procs |->
              IF q = p THEN Progress("starting", 1, \A r \in Procs : proc[r] = NotRunning)
              ELSE [proc[q] EXCEPT !.alone = FALSE]]
    BY DEF Launch, SchemaInv, DbTypeOK, Progresses
  <1>2. /\ proc'[p].pc = "starting" /\ proc'[p].at = 1
        /\ proc'[p].alone <=> \A r \in Procs : proc[r] = NotRunning
    BY <1>1 DEF Progress
  <1>3. ASSUME NEW q \in Procs \ {p}
        PROVE  /\ proc'[q].pc = proc[q].pc /\ proc'[q].at = proc[q].at /\ ~proc'[q].alone
               /\ proc[q] = NotRunning => proc'[q] = NotRunning
    <2>1. proc[q] \in Progresses /\ proc'[q] = [proc[q] EXCEPT !.alone = FALSE]
      BY <1>1
    <2>2. proc'[q].pc = proc[q].pc /\ proc'[q].at = proc[q].at /\ ~proc'[q].alone
      BY <2>1 DEF Progresses
    <2>3. proc[q] = NotRunning => proc'[q] = proc[q]
      <3>1. proc[q].alone = FALSE => [proc[q] EXCEPT !.alone = FALSE] = proc[q]
        BY <2>1 DEF Progresses
      <3> QED BY <2>1, <3>1 DEF NotRunning, Progress
    <2> QED BY <2>1, <2>2, <2>3
  <1>4. DbTypeOK'
    <2>1. ASSUME NEW q \in Procs PROVE proc'[q] \in Progresses
      <3>1. CASE q = p
        <4>1. (\A r \in Procs : proc[r] = NotRunning) \in BOOLEAN
          OBVIOUS
        <4>2. \A a \in BOOLEAN : Progress("starting", 1, a) \in Progresses
          BY Places DEF Progress, Progresses
        <4> QED BY <1>1, <3>1, <4>1, <4>2
      <3>2. CASE q # p
        BY <1>1, <3>2 DEF Progresses
      <3> QED BY <3>1, <3>2
    <2>2. proc' \in [Procs -> Progresses]
      BY <1>1, <2>1
    <2>3. starts' \in 0..MaxStarts
      BY <1>1, StartsAssumption DEF DbTypeOK
    <2> QED BY <1>1, <2>2, <2>3 DEF DbTypeOK, Progresses
  <1>5. Starting(p)' /\ ~Starting(p)
    BY <1>1, <1>2 DEF Starting, NotRunning, Progress
  <1>6. ASSUME NEW q \in Procs, q # p
        PROVE  /\ Starting(q)' <=> Starting(q)
               /\ \A lo, hi : Within(q, lo, hi)' <=> Within(q, lo, hi)
               /\ Inside(q)' <=> Inside(q)
               /\ Away(q)' <=> Away(q)
               /\ Unindexed(q)' <=> Unindexed(q)
    BY <1>3, <1>6 DEF Starting, Within, Inside, Away, Unindexed
  <1>7. /\ ~Within(p, G + 1, G + 2)' /\ ~Inside(p)' /\ ~Within(p, G + 1, G + 2) /\ ~Inside(p)
        /\ ~Away(p) /\ ~Unindexed(p) /\ \A lo, hi : ~Within(p, lo, hi)
    BY <1>2, <1>5, Places DEF Within, Inside, Away, Unindexed
  <1>8. \A o : InPlace(o) => InPlace(o)'
    BY <1>1, <1>6, <1>7 DEF InPlace, Exists
  <1>9. ASSUME NEW q \in Procs PROVE Keeps(q)'
    <2> SUFFICES ASSUME Trusted(q)'
                 PROVE  /\ Rebuilt(proc[q].at)'
                        /\ \A o \in MadeBefore(proc'[q].at) : InPlace(o)'
      BY DEF Keeps
    <2>1. CASE q = p
      <3>1. MadeBefore(1) = {}
        BY Places DEF MadeBefore
      <3>2. ~(1 > G + 2) /\ 1 # G + 3 /\ 1 # G + 4 /\ 1 \notin G + 3..G + 4 /\ 1 \notin G + 3..G + 5
        BY Places
      <3>3. Rebuilt(proc[q].at)'
        BY <1>2, <2>1, <3>2 DEF Rebuilt
      <3> QED BY <1>2, <2>1, <3>1, <3>3
    <2>2. CASE q # p
      <3>1. Trusted(q)
        BY <1>1, <1>3, <1>6, <2>2 DEF Trusted
      <3>2. Rebuilt(proc[q].at) /\ \A o \in MadeBefore(proc[q].at) : InPlace(o)
        BY <3>1 DEF SchemaInv, Keeps
      <3>3. Rebuilt(proc[q].at)'
        BY <1>1, <1>3, <2>2, <3>2 DEF Rebuilt, HasFk
      <3> QED BY <1>3, <1>8, <2>2, <3>2, <3>3
    <2> QED BY <2>1, <2>2
  <1>10. AloneApart'
    <2> SUFFICES ASSUME NEW q \in Procs, NEW r \in Procs, q # r,
                        proc'[q] # NotRunning, proc'[r] # NotRunning, proc'[q].alone
                 PROVE  FALSE
      BY DEF AloneApart
    <2>1. q = p /\ r # p
      BY <1>3
    <2>2. proc[r] # NotRunning
      BY <1>3, <2>1
    <2> QED BY <1>2, <2>1, <2>2
  <1>11. OneInside'
    BY <1>1, <1>6, <1>7 DEF SchemaInv, OneInside
  <1>12. OldOwned'
    <2> SUFFICES ASSUME ~hurt, OldTable \in db
                 PROVE  \/ \E q \in Procs : Inside(q)'
                        \/ ~HasFk(db)' /\ CacheTable \in db /\ \A q \in Procs : ~Within(q, G + 1, G + 2)'
      BY <1>1 DEF OldOwned
    <2>1. \/ \E q \in Procs : Inside(q)
          \/ ~HasFk(db) /\ CacheTable \in db /\ \A q \in Procs : ~Within(q, G + 1, G + 2)
      BY DEF SchemaInv, OldOwned
    <2> QED BY <1>1, <1>6, <1>7, <2>1 DEF HasFk
  <1>13. RowsKept'
    BY <1>1, <1>6, <1>7 DEF SchemaInv, RowsKept
  <1>14. FkFound' /\ WholeUnlessHurt' /\ FailsOnlySetAside'
    BY <1>2, <1>3, <1>5, <1>7 DEF FkFound, WholeUnlessHurt, Settled, FailsOnlySetAside
  <1> QED BY <1>4, <1>9, <1>10, <1>11, <1>12, <1>13, <1>14 DEF SchemaInv

LEMMA InitSchemaInv == ASSUME DbInit PROVE SchemaInv
  <1>1. /\ db \in Releases /\ cached = (CacheRows \in db) /\ proc = [p \in Procs |-> NotRunning]
        /\ starts = 0 /\ faults = 0 /\ hurt = FALSE
    BY DEF DbInit
  <1>2. \A p \in Procs : proc[p] = NotRunning /\ ~Starting(p) /\ ~proc[p].alone
    BY <1>1 DEF Starting, NotRunning, Progress
  <1>3. db \subseteq Objects /\ OldTable \notin db
    BY <1>1, ReleasesAssumption DEF OldTable
  <1>4. DbTypeOK
    <2>1. NotRunning \in Progresses
      BY Places DEF NotRunning, Progress, Progresses
    <2>2. proc \in [Procs -> Progresses]
      BY <1>1, <2>1
    <2>3. cached \in BOOLEAN
      BY <1>1
    <2>4. starts \in 0..MaxStarts /\ faults \in 0..MaxFaults
      BY <1>1, StartsAssumption
    <2>5. hurt \in BOOLEAN
      BY <1>1
    <2> QED BY <1>3, <2>2, <2>3, <2>4, <2>5 DEF DbTypeOK, Progresses
  <1>5. (\A p \in Procs : Keeps(p)) /\ AloneApart /\ OneInside /\ OldOwned /\ FkFound
    BY <1>2, <1>3 DEF Keeps, Trusted, AloneApart, OneInside, Inside, Within, OldOwned, FkFound
  <1>6. RowsKept
    <2>1. cached => CacheRows \in db
      BY <1>1
    <2> QED BY <2>1 DEF RowsKept
  <1>7. WholeUnlessHurt
    BY <1>1 DEF WholeUnlessHurt, Settled
  <1>8. FailsOnlySetAside
    BY <1>2 DEF FailsOnlySetAside
  <1> QED BY <1>4, <1>5, <1>6, <1>7, <1>8 DEF SchemaInv

LEMMA NextSchemaInv == SchemaInv /\ [DbNext]_dbVars => SchemaInv'
  <1> SUFFICES ASSUME SchemaInv, [DbNext]_dbVars PROVE SchemaInv'
    OBVIOUS
  <1>1. CASE DbNext
    <2>1. PICK p \in Procs :
              Launch(p) \/ Succeed(p) \/ Refused(p) \/ Fault(p) \/ Stop(p) \/ Introspect(p)
      BY <1>1 DEF DbNext
    <2> QED BY <2>1, LaunchSchemaInv, SucceedSchemaInv, RefusedSchemaInv, FaultSchemaInv, StopSchemaInv,
               IntrospectSchemaInv
  <1>2. CASE UNCHANGED dbVars
    BY <1>2, StutterSchemaInv
  <1> QED BY <1>1, <1>2

LEMMA AlwaysSchemaInv == DbSpec => []SchemaInv
  <1>1. DbInit => SchemaInv
    BY InitSchemaInv
  <1> QED BY <1>1, NextSchemaInv, PTL DEF DbSpec

\* Of DbMigrate's state: the database holds known objects and a start of run_migrations is at
\* a statement, for any number of processes, starts and faults.
THEOREM SchemaTypeCorrect == DbSpec => []DbTypeOK
  <1>1. SchemaInv => DbTypeOK
    BY DEF SchemaInv
  <1> QED BY <1>1, AlwaysSchemaInv, PTL

\* When every start has ended the schema is whole, the foreign key gone and the cached rows
\* are there, whichever release init_db finds and however starts overlap outside 013; a start
\* on its own mends what crashes and faults left undone.
THEOREM WholeAgain == DbSpec => []WholeUnlessHurt
  <1>1. SchemaInv => WholeUnlessHurt
    BY DEF SchemaInv
  <1> QED BY <1>1, AlwaysSchemaInv, PTL

\* init_db, run by itself, returns an error only when an abandoned schema_cache_old meets a
\* schema_cache with its foreign key.
THEOREM FailsSetAside == DbSpec => []FailsOnlySetAside
  <1>1. SchemaInv => FailsOnlySetAside
    BY DEF SchemaInv
  <1> QED BY <1>1, AlwaysSchemaInv, PTL
=============================================================================
