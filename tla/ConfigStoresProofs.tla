-------------------------- MODULE ConfigStoresProofs --------------------------
(***************************************************************************)
(* Proofs about ConfigStores, for any files, tasks, sections and values    *)
(* and any number of writes.                                               *)
(***************************************************************************)
EXTENDS ConfigStores, TLAPS

\* Every action, as Next spells it.
LEMMA NextCases ==
    ASSUME Next
    PROVE  \/ \E t \in Tasks, f \in Files : Get(t, f)
           \/ \E t \in Tasks, f \in Files : EnsureExists(t, f)
           \/ \E t \in Tasks, f \in Files, v \in Values \union {Unset} : Replace(t, f, v)
           \/ \E t \in Tasks, f \in Files, s \in Sections, v \in Values \union {Unset} :
                 Set(t, f, s, v) \/ SetActiveEnv(t, f, s, v)
           \/ \E t \in Tasks : Hit(t)
           \/ \E t \in Tasks : Miss(t)
           \/ \E t \in Tasks : Read(t)
           \/ \E t \in Tasks : ReadLocal(t)
           \/ \E t \in Tasks : Fill(t)
           \/ \E t \in Tasks : Fail(t)
           \/ \E t \in Tasks : Write(t)
           \/ \E t \in Tasks : Settle(t)
           \/ \E f \in Files : InvalidateCache(f)
           \/ \E f \in Files, s \in Sections : WriteOutside(f, s)
           \/ Restart
  BY DEF Next, Enter, Continue

-----------------------------------------------------------------------------
(* The invariant                                                           *)

\* Modification times grow: none was taken from the future.
NotAhead(times, f) == times[1] <= mtime[f][1] /\ times[2] <= mtime[f][2]

\* A load whose times are still the file's has read what is there.
LoadKnows(c) ==
    c.times = mtime[c.file] =>
      /\ c.pc = "readLocal" => c.content = base[c.file]
      /\ c.pc = "fill" => c.content = Merged(c.file)
      /\ c.pc = "settle" /\ c.file \in Users => c.content = Merged(c.file)

\* A file with an override goes through the cache only to be read.
ThroughCache(c) ==
    /\ c.pc \in {"cached", "readLocal", "fill"} => ~c.bypass
    /\ c.pc = "readLocal" => c.file \notin Users
    /\ /\ c.pc \in {"cached", "read", "readLocal", "fill"} /\ ~c.bypass
       /\ c.file \notin Users
       => c.op = "get"

\* What is to be written says nothing that only an override says.
Unmixed(c) ==
    c.pc \in {"write", "settle"} \/ c.file \in Users => \A s \in Sections : c.content[s] # Mine

\* A setter that nothing came between knows the file.
SetterKnows(c) ==
    c.op = "set" /\ c.quiet =>
      /\ c.pc = "cached" => c.times = mtime[c.file]
      /\ c.pc = "fill" => c.content = base[c.file]
      /\ c.pc = "write" /\ c.sound => c.content = base[c.file]

CallInv(c) == NotAhead(c.times, c.file) /\ LoadKnows(c) /\ ThroughCache(c) /\ Unmixed(c)
              /\ SetterKnows(c)

CacheInv(f, entry) ==
    /\ NotAhead(entry.times, f)
    /\ f \in Users => \A s \in Sections : entry.content[s] # Mine
    /\ f \notin stamped /\ entry.times = mtime[f] => entry.content = Merged(f)

NoOverride == \A f \in Users : local[f] = Blank

StoreInv ==
    /\ TypeOK
    /\ NoOverride
    /\ LocalStaysLocal
    /\ \A f \in Files : cache[f] # Empty => CacheInv(f, cache[f])
    /\ \A t \in Tasks : ~At(t, "idle") => CallInv(call[t])

-----------------------------------------------------------------------------
(* Types and times                                                         *)

\* A call that is not idle is a call.
LEMMA CallType ==
    ASSUME TypeOK, NEW t \in Tasks
    PROVE  /\ ~At(t, "idle") => call[t] \in Call
           /\ At(t, "idle") => call[t] = Idle
  BY DEF TypeOK, At, Idle, Call

\* A cache entry is an entry.
LEMMA EntryType ==
    ASSUME TypeOK, NEW f \in Files, cache[f] # Empty
    PROVE  cache[f] \in Entry
  BY DEF TypeOK

LEMMA BlankType == Blank \in Content /\ \A s \in Sections : Blank[s] # Mine
  BY ValueAssumption DEF Blank, Content

\* Without an override the base file is all there is.
LEMMA MergedWithBlank ==
    ASSUME TypeOK, NoOverride, NEW f \in Users
    PROVE  Merged(f) = base[f]
  <1>1. f \in Files
    BY FileAssumption
  <1>2. base[f] \in Content /\ local[f] = Blank
    BY <1>1 DEF TypeOK, NoOverride
  <1> QED BY <1>2 DEF Merged, Merge, Blank, Content

LEMMA MergeType ==
    ASSUME NEW b \in Content, NEW l \in Content
    PROVE  Merge(b, l) \in Content
  BY DEF Merge, Content

\* A write moves one time on.
LEMMA BumpedTimes ==
    ASSUME TypeOK, NEW f \in Files, NEW i \in {1, 2}
    PROVE  /\ Bumped(f, i) \in [Files -> Times]
           /\ Bumped(f, i)[f][i] = mtime[f][i] + 1
           /\ Bumped(f, i)[f][3 - i] = mtime[f][3 - i]
           /\ \A g \in Files \ {f} : Bumped(f, i)[g] = mtime[g]
  <1>1. mtime[f] \in Nat \X Nat
    BY DEF TypeOK, Times
  <1>2. Bumped(f, i) = [mtime EXCEPT ![f] = [mtime[f] EXCEPT ![i] = mtime[f][i] + 1]]
    BY DEF Bumped
  <1>3. CASE i = 1
    <2>1. [mtime[f] EXCEPT ![1] = mtime[f][1] + 1] = << mtime[f][1] + 1, mtime[f][2] >>
      BY <1>1
    <2> QED BY <1>1, <1>2, <1>3, <2>1 DEF TypeOK, Times
  <1>4. CASE i = 2
    <2>1. [mtime[f] EXCEPT ![2] = mtime[f][2] + 1] = << mtime[f][1], mtime[f][2] + 1 >>
      BY <1>1
    <2> QED BY <1>1, <1>2, <1>4, <2>1 DEF TypeOK, Times
  <1> QED BY <1>3, <1>4

\* Times taken before a write stay behind it and are no longer the file's.
LEMMA OldTimes ==
    ASSUME TypeOK, NEW f \in Files, NEW i \in {1, 2}, mtime' = Bumped(f, i),
           NEW times \in Times, NEW g \in Files, NotAhead(times, g)
    PROVE  NotAhead(times, g)' /\ (g = f => times # mtime'[g])
  <1>1. mtime[f] \in Nat \X Nat /\ times \in Nat \X Nat
    BY DEF TypeOK, Times
  <1>2. CASE g = f
    <2>1. CASE i = 1
      BY <1>1, <1>2, <2>1, BumpedTimes DEF NotAhead
    <2>2. CASE i = 2
      BY <1>1, <1>2, <2>2, BumpedTimes DEF NotAhead
    <2> QED BY <2>1, <2>2
  <1>3. CASE g # f
    BY <1>3, BumpedTimes DEF NotAhead
  <1> QED BY <1>2, <1>3

-----------------------------------------------------------------------------
(* Steps that leave the files alone                                        *)

LEMMA InitStoreInv == Init => StoreInv
  <1> SUFFICES ASSUME Init PROVE StoreInv
    OBVIOUS
  <1>1. TypeOK
    BY BlankType, FileAssumption DEF Init, TypeOK, Times
  <1>2. NoOverride /\ LocalStaysLocal
    BY BlankType, FileAssumption DEF Init, NoOverride, LocalStaysLocal
  <1>3. \A t \in Tasks : At(t, "idle")
    BY DEF Init, At, Idle
  <1>4. \A f \in Files : cache[f] = Empty
    <2>1. cache = [f \in Files |-> Empty]
      BY DEF Init
    <2> QED BY <2>1, Zenon
  <1> QED BY <1>1, <1>2, <1>3, <1>4 DEF StoreInv

LEMMA SameDisk ==
    ASSUME UNCHANGED disk, NEW c, CallInv(c)
    PROVE  CallInv(c)'
  BY DEF disk, CallInv, NotAhead, LoadKnows, ThroughCache, Unmixed, SetterKnows, Merged

LEMMA SameDiskCache ==
    ASSUME UNCHANGED disk, NEW g \in Files, g \in stamped => g \in stamped',
           NEW entry, CacheInv(g, entry)
    PROVE  CacheInv(g, entry)'
  BY DEF disk, CacheInv, NotAhead, Merged

\* One call moves while the files stay.
LEMMA CallsKeep ==
    ASSUME StoreInv, UNCHANGED disk,
           NEW t \in Tasks, NEW c, call' = [call EXCEPT ![t] = c],
           c = Idle \/ (c \in Call /\ CallInv(c))
    PROVE  /\ call' \in [Tasks -> Call \union {Idle}]
           /\ \A d \in Tasks : ~At(d, "idle")' => CallInv(call[d])'
  <1>1. call' \in [Tasks -> Call \union {Idle}]
    BY DEF StoreInv, TypeOK
  <1>2. ASSUME NEW d \in Tasks, ~At(d, "idle")'
        PROVE  CallInv(call[d])'
    <2>1. CASE d = t
      <3>1. call'[d] = c /\ c # Idle
        BY <1>2, <2>1 DEF StoreInv, TypeOK, At, Idle
      <3>2. CallInv(c)'
        BY <3>1, SameDisk DEF disk
      <3> QED BY <3>1, <3>2
    <2>2. CASE d # t
      <3> PICK other : other = call[d]
        OBVIOUS
      <3>1. call'[d] = other
        BY <2>2 DEF StoreInv, TypeOK
      <3>2. CallInv(other)
        BY <1>2, <3>1 DEF StoreInv, At
      <3>3. CallInv(other)'
        BY <3>2, SameDisk DEF disk
      <3> QED BY <3>1, <3>3
    <2> QED BY <2>1, <2>2
  <1> QED BY <1>1, <1>2

\* The same, with the cache entry of one file.
LEMMA CacheMoves ==
    ASSUME StoreInv, UNCHANGED disk,
           NEW t \in Tasks, NEW c, call' = [call EXCEPT ![t] = c],
           c = Idle \/ (c \in Call /\ CallInv(c)),
           NEW f \in Files, NEW e, cache' = [cache EXCEPT ![f] = e],
           e = Empty \/ (e \in Entry /\ CacheInv(f, e)'),
           stamped' \subseteq Users, \A g \in Files \ {f} : g \in stamped => g \in stamped'
    PROVE  StoreInv'
  <1>1. TypeOK'
    BY CallsKeep DEF StoreInv, TypeOK, disk
  <1>2. NoOverride' /\ LocalStaysLocal'
    BY DEF StoreInv, NoOverride, LocalStaysLocal, disk
  <1>3. ASSUME NEW g \in Files, cache'[g] # Empty
        PROVE  CacheInv(g, cache[g])'
    <2> PICK entry : entry = cache'[g]
      OBVIOUS
    <2>1. CASE g = f
      <3>1. entry = e
        BY <2>1 DEF StoreInv, TypeOK
      <3> QED BY <1>3, <2>1, <3>1
    <2>2. CASE g # f
      <3>1. entry = cache[g]
        BY <2>2 DEF StoreInv, TypeOK
      <3>2. CacheInv(g, entry)
        BY <1>3, <3>1 DEF StoreInv
      <3>3. CacheInv(g, entry)'
        BY <2>2, <3>2, SameDiskCache
      <3> QED BY <3>3
    <2> QED BY <2>1, <2>2
  <1> QED BY <1>1, <1>2, <1>3, CallsKeep DEF StoreInv

\* One call moves, and nothing else.
LEMMA OneCallMoves ==
    ASSUME StoreInv, UNCHANGED << disk, cache, stamped >>,
           NEW t \in Tasks, NEW c, call' = [call EXCEPT ![t] = c],
           c = Idle \/ (c \in Call /\ CallInv(c))
    PROVE  StoreInv'
  <1>1. TypeOK'
    BY CallsKeep DEF StoreInv, TypeOK, disk
  <1>2. NoOverride' /\ LocalStaysLocal'
    BY DEF StoreInv, NoOverride, LocalStaysLocal, disk
  <1>3. \A f \in Files : cache'[f] # Empty => CacheInv(f, cache[f])'
    BY DEF StoreInv, CacheInv, NotAhead, Merged, disk
  <1> QED BY <1>1, <1>2, <1>3, CallsKeep DEF StoreInv

-----------------------------------------------------------------------------
(* Each action                                                             *)

\* A call begins, at the cache or at the file.
LEMMA BeginKeeps ==
    ASSUME StoreInv, NEW t \in Tasks, NEW pc \in {"cached", "read"}, NEW f \in Files,
           NEW op \in Ops, NEW s \in Sections \union {Unset}, NEW v \in Values \union {Unset},
           NEW bypass \in BOOLEAN, Begin(t, pc, f, op, s, v, bypass),
           pc = "cached" => ~bypass,
           ~bypass /\ f \notin Users => op = "get"
    PROVE  StoreInv'
  <1> DEFINE c == [pc |-> pc, file |-> f, op |-> op, section |-> s, value |-> v,
                   bypass |-> bypass, times |-> IF pc = "cached" THEN mtime[f] ELSE NoTimes,
                   content |-> Blank, quiet |-> op = "set", sound |-> TRUE]
  <1>1. mtime[f] \in Times /\ NoTimes \in Times /\ c.times \in Times
    BY DEF StoreInv, TypeOK, Times, NoTimes
  <1>2. c \in Call
    BY <1>1, BlankType DEF Call
  <1>3. NotAhead(c.times, c.file)
    BY <1>1 DEF NotAhead, NoTimes, Times
  <1>4. LoadKnows(c) /\ ThroughCache(c) /\ Unmixed(c) /\ SetterKnows(c)
    BY BlankType DEF LoadKnows, ThroughCache, Unmixed, SetterKnows
  <1>5. call' = [call EXCEPT ![t] = c] /\ UNCHANGED << disk, cache, stamped >>
    BY DEF Begin
  <1> HIDE DEF c
  <1>6. CallInv(c)
    BY <1>3, <1>4 DEF CallInv
  <1> QED BY <1>2, <1>5, <1>6, OneCallMoves

LEMMA LoadKeeps ==
    ASSUME StoreInv, NEW t \in Tasks, NEW f \in Files, Get(t, f) \/ EnsureExists(t, f)
    PROVE  StoreInv'
  BY BeginKeeps DEF Get, EnsureExists, Ops, HasLocal

LEMMA SetKeeps ==
    ASSUME StoreInv, NEW t \in Tasks, NEW f \in Files,
           NEW s \in Sections, NEW v \in Values \union {Unset},
           Set(t, f, s, v) \/ SetActiveEnv(t, f, s, v)
    PROVE  StoreInv'
  <1>1. CASE Set(t, f, s, v)
    BY <1>1, BeginKeeps DEF Set, Ops, HasLocal
  <1>2. CASE SetActiveEnv(t, f, s, v)
    BY <1>2, BeginKeeps DEF SetActiveEnv, Ops
  <1> QED BY <1>1, <1>2

LEMMA ReplaceKeeps ==
    ASSUME StoreInv, NEW t \in Tasks, NEW f \in Files, NEW v \in Values \union {Unset},
           Replace(t, f, v)
    PROVE  StoreInv'
  <1> DEFINE c == [pc |-> "write", file |-> f, op |-> "ensure", section |-> Unset,
                   value |-> Unset, bypass |-> FALSE, times |-> NoTimes,
                   content |-> [s \in Sections |-> v], quiet |-> FALSE, sound |-> TRUE]
  <1>1. mtime[f] \in Times /\ NoTimes \in Times
    BY DEF StoreInv, TypeOK, Times, NoTimes
  <1>2. [s \in Sections |-> v] \in Content /\ \A s \in Sections : [r \in Sections |-> v][s] # Mine
    BY ValueAssumption DEF Content
  <1>3. c \in Call
    BY <1>1, <1>2 DEF Call, Ops
  <1>4. NotAhead(c.times, c.file)
    BY <1>1 DEF NotAhead, NoTimes, Times
  <1>5. LoadKnows(c) /\ ThroughCache(c) /\ Unmixed(c) /\ SetterKnows(c)
    BY <1>2 DEF LoadKnows, ThroughCache, Unmixed, SetterKnows
  <1>6. call' = [call EXCEPT ![t] = c] /\ UNCHANGED << disk, cache, stamped >>
    BY DEF Replace
  <1> HIDE DEF c
  <1> QED BY <1>3, <1>4, <1>5, <1>6, OneCallMoves DEF CallInv

\* A call that has its content goes on to write it, or returns.
LEMMA DoneKeeps ==
    ASSUME StoreInv, NEW t \in Tasks, ~At(t, "idle"), NEW content \in Content,
           call[t].op # "get" => \A s \in Sections : content[s] # Mine,
           NEW sound \in BOOLEAN,
           call[t].op = "set" /\ call[t].quiet /\ sound => content = base[call[t].file]
    PROVE  LET c == [call[t] EXCEPT !.pc = "write", !.content = content, !.times = NoTimes,
                                    !.sound = sound]
           IN  call[t].op # "get" => c \in Call /\ CallInv(c)
  <1> DEFINE c == [call[t] EXCEPT !.pc = "write", !.content = content, !.times = NoTimes,
                                  !.sound = sound]
  <1> SUFFICES ASSUME call[t].op # "get" PROVE c \in Call /\ CallInv(c)
    OBVIOUS
  <1>1. call[t] \in Call
    BY CallType DEF StoreInv
  <1>2. NoTimes \in Times /\ mtime[call[t].file] \in Times
    BY <1>1 DEF Times, NoTimes, Call, StoreInv, TypeOK
  <1>3. c \in Call
    BY <1>1, <1>2 DEF Call
  <1>4. /\ c.pc = "write" /\ c.content = content /\ c.times = NoTimes /\ c.sound = sound
        /\ c.file = call[t].file /\ c.op = call[t].op /\ c.quiet = call[t].quiet
    BY <1>1 DEF Call
  <1> HIDE DEF c
  <1>5. NotAhead(c.times, c.file)
    BY <1>2, <1>4 DEF NotAhead, NoTimes, Times
  <1>6. LoadKnows(c) /\ ThroughCache(c) /\ Unmixed(c) /\ SetterKnows(c)
    BY <1>4 DEF LoadKnows, ThroughCache, Unmixed, SetterKnows
  <1> QED BY <1>3, <1>5, <1>6 DEF CallInv

\* What Done makes of the call.
Written(t, content, sound) ==
    [call EXCEPT ![t] = [call[t] EXCEPT !.pc = "write", !.content = content, !.times = NoTimes,
                                        !.sound = sound]]

LEMMA DoneIs ==
    ASSUME StoreInv, NEW t \in Tasks, ~At(t, "idle"), NEW content
    PROVE  /\ call[t].op = "get" => Done(t, content) = [call EXCEPT ![t] = Idle]
           /\ call[t].op # "get" =>
                /\ Done(t, content) = Written(t, content, call[t].sound)
                /\ [Done(t, content) EXCEPT ![t].sound = FALSE] = Written(t, content, FALSE)
  <1>1. call[t] \in Call /\ call \in [Tasks -> Call \union {Idle}]
    BY CallType DEF StoreInv, TypeOK
  <1> QED BY <1>1 DEF Done, Loaded, Call, Written

LEMMA HitKeeps ==
    ASSUME StoreInv, NEW t \in Tasks, Hit(t)
    PROVE  StoreInv'
  <1> DEFINE f == call[t].file
             content == cache[f].content
  <1>1. ~At(t, "idle") /\ call[t] \in Call /\ f \in Files
    BY CallType DEF Hit, At, StoreInv, Call
  <1>2. content \in Content /\ cache[f] # Empty /\ cache[f].times = call[t].times
    BY <1>1, EntryType DEF Hit, Cached, StoreInv, Entry
  <1>3. CacheInv(f, cache[f]) /\ CallInv(call[t])
    BY <1>1, <1>2 DEF StoreInv
  <1>4. call[t].op # "get" => f \in Users /\ ~call[t].bypass
    BY <1>3 DEF Hit, At, CallInv, ThroughCache
  <1>5. call[t].op # "get" => \A s \in Sections : content[s] # Mine
    BY <1>3, <1>4 DEF CacheInv
  <1>6. call[t].op = "set" /\ call[t].quiet /\ f \notin stamped => content = base[f]
    <2> SUFFICES ASSUME call[t].op = "set", call[t].quiet, f \notin stamped
                 PROVE  content = base[f]
      OBVIOUS
    <2>1. call[t].times = mtime[f]
      BY <1>3 DEF Hit, At, CallInv, SetterKnows
    <2> QED BY <1>2, <1>3, <1>4, <2>1, MergedWithBlank DEF CacheInv, StoreInv
  <1>7. PICK sound \in BOOLEAN :
          /\ sound = IF call[t].op = "set" /\ f \in stamped THEN FALSE ELSE call[t].sound
          /\ call[t].op = "set" /\ sound => f \notin stamped
    BY <1>1 DEF Call
  <1> DEFINE c == IF call[t].op = "get" THEN Idle
                  ELSE [call[t] EXCEPT !.pc = "write", !.content = content, !.times = NoTimes,
                                       !.sound = sound]
  <1>8. call' = [call EXCEPT ![t] = c] /\ UNCHANGED << disk, cache, stamped >>
    <2>1. CASE call[t].op = "get"
      BY <1>1, <2>1, DoneIs DEF Hit
    <2>2. CASE call[t].op # "get" /\ ~(call[t].op = "set" /\ f \in stamped)
      <3>1. sound = call[t].sound /\ call' = Done(t, content)
        BY <1>7, <2>2 DEF Hit
      <3>2. call' = Written(t, content, sound)
        BY <1>1, <2>2, <3>1, DoneIs
      <3> QED BY <2>2, <3>2 DEF Hit, Written
    <2>3. CASE call[t].op = "set" /\ f \in stamped
      <3>1. sound = FALSE /\ call' = [Done(t, content) EXCEPT ![t].sound = FALSE]
        BY <1>7, <2>3 DEF Hit
      <3>2. call' = Written(t, content, sound) /\ call[t].op # "get"
        BY <1>1, <2>3, <3>1, DoneIs
      <3> QED BY <3>2 DEF Hit, Written
    <2> QED BY <2>1, <2>2, <2>3
  <1>9. c = Idle \/ (c \in Call /\ CallInv(c))
    BY <1>1, <1>2, <1>5, <1>6, <1>7, DoneKeeps
  <1> HIDE DEF c
  <1> QED BY <1>8, <1>9, OneCallMoves

LEMMA MissKeeps ==
    ASSUME StoreInv, NEW t \in Tasks, Miss(t)
    PROVE  StoreInv'
  <1> DEFINE c == [call[t] EXCEPT !.pc = "read"]
  <1>1. ~At(t, "idle") /\ call[t] \in Call /\ call[t].pc = "cached"
    BY CallType DEF Miss, At, StoreInv, Call
  <1>2. CallInv(call[t])
    BY <1>1 DEF StoreInv
  <1>3. c \in Call /\ c.pc = "read" /\ c.file = call[t].file /\ c.times = call[t].times
        /\ c.op = call[t].op /\ c.content = call[t].content /\ c.bypass = call[t].bypass
    BY <1>1 DEF Call
  <1>4. call' = [call EXCEPT ![t] = c] /\ UNCHANGED << disk, cache, stamped >>
    BY DEF Miss
  <1> HIDE DEF c
  <1>5. CallInv(c)
    BY <1>1, <1>2, <1>3 DEF CallInv, NotAhead, LoadKnows, ThroughCache, Unmixed, SetterKnows
  <1> QED BY <1>3, <1>4, <1>5, OneCallMoves

LEMMA ReadKeeps ==
    ASSUME StoreInv, NEW t \in Tasks, Read(t)
    PROVE  StoreInv'
  <1> DEFINE f == call[t].file
             pc == IF call[t].bypass THEN "write" ELSE IF HasLocal(f) THEN "readLocal" ELSE "fill"
             c == [call[t] EXCEPT !.pc = pc, !.content = base[f]]
  <1>1. ~At(t, "idle") /\ call[t] \in Call /\ call[t].pc = "read" /\ f \in Files
    BY CallType DEF Read, At, StoreInv, Call
  <1>2. CallInv(call[t])
    BY <1>1 DEF StoreInv
  <1>3. base[f] \in Content /\ \A s \in Sections : base[f][s] # Mine
    BY <1>1 DEF StoreInv, TypeOK, LocalStaysLocal
  <1>4. c \in Call /\ c.pc = pc /\ c.file = f /\ c.times = call[t].times
        /\ c.op = call[t].op /\ c.content = base[f] /\ c.bypass = call[t].bypass
    BY <1>1, <1>3 DEF Call
  <1>5. call' = [call EXCEPT ![t] = c] /\ UNCHANGED << disk, cache, stamped >>
    BY <1>1 DEF Read, Loaded, StoreInv, TypeOK
  <1>6. pc = "fill" => f \in Users /\ base[f] = Merged(f) /\ ~call[t].bypass
    BY MergedWithBlank DEF HasLocal, StoreInv
  <1>7. /\ pc = "readLocal" => f \notin Users /\ ~call[t].bypass
        /\ pc \in {"write", "readLocal", "fill"}
    BY DEF HasLocal
  <1> HIDE DEF c, pc
  <1>8. NotAhead(c.times, c.file) /\ LoadKnows(c)
    BY <1>2, <1>4, <1>6, <1>7 DEF CallInv, LoadKnows
  <1>9. ThroughCache(c) /\ Unmixed(c) /\ SetterKnows(c)
    BY <1>1, <1>2, <1>3, <1>4, <1>6, <1>7 DEF CallInv, ThroughCache, Unmixed, SetterKnows
  <1> QED BY <1>4, <1>5, <1>8, <1>9, OneCallMoves DEF CallInv

LEMMA ReadLocalKeeps ==
    ASSUME StoreInv, NEW t \in Tasks, ReadLocal(t)
    PROVE  StoreInv'
  <1> DEFINE f == call[t].file
             c == [call[t] EXCEPT !.pc = "fill", !.content = Merge(call[t].content, local[f])]
  <1>1. ~At(t, "idle") /\ call[t] \in Call /\ call[t].pc = "readLocal" /\ f \in Files
    BY CallType DEF ReadLocal, At, StoreInv, Call
  <1>2. CallInv(call[t])
    BY <1>1 DEF StoreInv
  <1>3. Merge(call[t].content, local[f]) \in Content
    BY <1>1, MergeType DEF StoreInv, TypeOK, Call
  <1>4. c \in Call /\ c.pc = "fill" /\ c.file = f /\ c.times = call[t].times /\ c.op = call[t].op
        /\ c.content = Merge(call[t].content, local[f]) /\ c.bypass = call[t].bypass
    BY <1>1, <1>3 DEF Call
  <1>5. call' = [call EXCEPT ![t] = c] /\ UNCHANGED << disk, cache, stamped >>
    BY <1>1 DEF ReadLocal, Loaded, StoreInv, TypeOK
  <1>6. f \notin Users /\ ~call[t].bypass /\ call[t].op = "get"
    BY <1>1, <1>2 DEF CallInv, ThroughCache
  <1> HIDE DEF c
  <1>7. NotAhead(c.times, c.file) /\ LoadKnows(c)
    BY <1>1, <1>2, <1>4 DEF CallInv, LoadKnows, Merged
  <1>8. ThroughCache(c) /\ Unmixed(c) /\ SetterKnows(c)
    BY <1>4, <1>6 DEF ThroughCache, Unmixed, SetterKnows
  <1> QED BY <1>4, <1>5, <1>7, <1>8, OneCallMoves DEF CallInv

LEMMA FillKeeps ==
    ASSUME StoreInv, NEW t \in Tasks, Fill(t)
    PROVE  StoreInv'
  <1>1. ~At(t, "idle") /\ call[t] \in Call /\ call[t].pc = "fill" /\ call[t].file \in Files
    BY CallType DEF Fill, At, StoreInv, Call
  <1> PICK f \in Files : f = call[t].file
    BY <1>1
  <1> PICK e : e = [times |-> call[t].times, content |-> call[t].content]
    OBVIOUS
  <1> DEFINE c == IF call[t].op = "get" THEN Idle
                  ELSE [call[t] EXCEPT !.pc = "write", !.content = call[t].content,
                                       !.times = NoTimes, !.sound = call[t].sound]
  <1>2. CallInv(call[t])
    BY <1>1 DEF StoreInv
  <1>3. call[t].content \in Content /\ call[t].sound \in BOOLEAN /\ call[t].times \in Times
    BY <1>1 DEF Call
  <1>4. f \in Users => \A s \in Sections : call[t].content[s] # Mine
    BY <1>2 DEF CallInv, Unmixed
  <1>5. call[t].op # "get" => f \in Users
    BY <1>1, <1>2 DEF CallInv, ThroughCache
  <1>6. call[t].op = "set" /\ call[t].quiet => call[t].content = base[f]
    BY <1>1, <1>2 DEF CallInv, SetterKnows
  <1>7. c = Idle \/ (c \in Call /\ CallInv(c))
    BY <1>1, <1>3, <1>4, <1>5, <1>6, DoneKeeps
  <1>8. call' = [call EXCEPT ![t] = c]
    <2>1. call' = Done(t, call[t].content)
      BY DEF Fill
    <2>2. CASE call[t].op = "get"
      BY <1>1, <2>1, <2>2, DoneIs
    <2>3. CASE call[t].op # "get"
      <3>1. call' = Written(t, call[t].content, call[t].sound)
        BY <1>1, <2>1, <2>3, DoneIs
      <3> QED BY <2>3, <3>1 DEF Written
    <2> QED BY <2>2, <2>3
  <1>9. UNCHANGED disk /\ cache' = [cache EXCEPT ![f] = e] /\ stamped' = stamped \ {f}
    BY DEF Fill
  <1>10. e \in Entry /\ CacheInv(f, e)'
    <2>1. e \in Entry
      BY <1>3 DEF Entry
    <2>2. NotAhead(e.times, f) /\ (e.times = mtime[f] => e.content = Merged(f))
      BY <1>1, <1>2 DEF CallInv, LoadKnows
    <2>3. f \in Users => \A s \in Sections : e.content[s] # Mine
      BY <1>4
    <2>4. UNCHANGED << base, local, mtime >>
      BY <1>9 DEF disk
    <2> QED BY <2>1, <2>2, <2>3, <2>4 DEF CacheInv, NotAhead, Merged
  <1>11. stamped' \subseteq Users /\ \A g \in Files \ {f} : g \in stamped => g \in stamped'
    BY <1>9 DEF StoreInv, TypeOK
  <1> HIDE DEF c
  <1> QED BY <1>7, <1>8, <1>9, <1>10, <1>11, CacheMoves

LEMMA SettleKeeps ==
    ASSUME StoreInv, NEW t \in Tasks, Settle(t)
    PROVE  StoreInv'
  <1>1. ~At(t, "idle") /\ call[t] \in Call /\ call[t].pc = "settle" /\ call[t].file \in Files
    BY CallType DEF Settle, At, StoreInv, Call
  <1> PICK f \in Files : f = call[t].file
    BY <1>1
  <1>2. CallInv(call[t])
    BY <1>1 DEF StoreInv
  <1>3. UNCHANGED disk /\ call' = [call EXCEPT ![t] = Idle]
    BY DEF Settle, Return
  <1>4. CASE f \in Users
    <2> PICK e : e = [times |-> mtime[f], content |-> call[t].content]
      OBVIOUS
    <2>1. /\ cache' = [cache EXCEPT ![f] = e]
          /\ stamped' = IF mtime[f] = call[t].times THEN stamped \ {f} ELSE stamped \union {f}
      BY <1>4 DEF Settle, HasLocal
    <2>2. e \in Entry /\ NotAhead(e.times, f)
      BY <1>1 DEF Entry, Call, StoreInv, TypeOK, Times, NotAhead
    <2>3. \A s \in Sections : e.content[s] # Mine
      BY <1>2, <1>4 DEF CallInv, Unmixed
    <2>4. f \notin stamped' => e.content = Merged(f)
      BY <1>1, <1>2, <1>4, <2>1 DEF CallInv, LoadKnows
    <2>5. UNCHANGED << base, local, mtime >>
      BY <1>3 DEF disk
    <2>6. CacheInv(f, e)'
      BY <2>2, <2>3, <2>4, <2>5 DEF CacheInv, NotAhead, Merged
    <2>7. stamped' \subseteq Users /\ \A g \in Files \ {f} : g \in stamped => g \in stamped'
      BY <1>4, <2>1 DEF StoreInv, TypeOK
    <2> QED BY <1>3, <2>1, <2>2, <2>6, <2>7, CacheMoves
  <1>5. CASE f \notin Users
    <2>1. cache' = [cache EXCEPT ![f] = Empty] /\ stamped' = stamped
      BY <1>5 DEF Settle, HasLocal
    <2>2. stamped' \subseteq Users
      BY <2>1 DEF StoreInv, TypeOK
    <2> QED BY <1>3, <2>1, <2>2, CacheMoves
  <1> QED BY <1>4, <1>5

LEMMA FailKeeps ==
    ASSUME StoreInv, NEW t \in Tasks, Fail(t)
    PROVE  StoreInv'
  BY OneCallMoves DEF Fail, Return

LEMMA InvalidateKeeps ==
    ASSUME StoreInv, NEW f \in Files, InvalidateCache(f)
    PROVE  StoreInv'
  <1>1. TypeOK'
    BY DEF InvalidateCache, StoreInv, TypeOK, disk
  <1>2. NoOverride' /\ LocalStaysLocal'
    BY DEF InvalidateCache, StoreInv, NoOverride, LocalStaysLocal, disk
  <1>3. ASSUME NEW g \in Files, cache'[g] # Empty
        PROVE  CacheInv(g, cache[g])'
    <2> PICK entry : entry = cache'[g]
      OBVIOUS
    <2>1. g # f /\ entry = cache[g]
      BY <1>3 DEF InvalidateCache, StoreInv, TypeOK
    <2>2. CacheInv(g, entry)
      BY <1>3, <2>1 DEF StoreInv
    <2>3. CacheInv(g, entry)'
      BY <2>1, <2>2, SameDiskCache DEF InvalidateCache
    <2> QED BY <2>3
  <1>4. ASSUME NEW d \in Tasks, ~At(d, "idle")'
        PROVE  CallInv(call[d])'
    <2> PICK other : other = call[d]
      OBVIOUS
    <2>1. call'[d] = other /\ CallInv(other)
      BY <1>4 DEF InvalidateCache, StoreInv, At
    <2>2. CallInv(other)'
      BY <2>1, SameDisk DEF InvalidateCache
    <2> QED BY <2>1, <2>2
  <1> QED BY <1>1, <1>2, <1>3, <1>4 DEF StoreInv

LEMMA RestartKeeps ==
    ASSUME StoreInv, Restart
    PROVE  StoreInv'
  <1>1. TypeOK'
    BY DEF Restart, StoreInv, TypeOK, disk
  <1>2. NoOverride' /\ LocalStaysLocal'
    BY DEF Restart, StoreInv, NoOverride, LocalStaysLocal, disk
  <1>3. \A g \in Files : cache'[g] = Empty
    BY DEF Restart
  <1>4. \A d \in Tasks : At(d, "idle")'
    BY DEF Restart, At, Idle
  <1> QED BY <1>1, <1>2, <1>3, <1>4 DEF StoreInv

-----------------------------------------------------------------------------
(* Writes                                                                  *)

\* What a write of f, or of its override, leaves of the cache and of the calls.
LEMMA EntryOutlives ==
    ASSUME StoreInv, NEW f \in Files, NEW i \in {1, 2}, mtime' = Bumped(f, i),
           \A h \in Files \ {f} : base'[h] = base[h] /\ local'[h] = local[h],
           stamped' = stamped, NEW g \in Files, NEW entry \in Entry, CacheInv(g, entry)
    PROVE  CacheInv(g, entry)'
  <1>1. entry.times \in Times
    BY DEF Entry
  <1>2. NotAhead(entry.times, g)' /\ (g = f => entry.times # mtime'[g])
    BY <1>1, OldTimes DEF CacheInv, StoreInv
  <1>3. g # f => mtime'[g] = mtime[g] /\ Merged(g)' = Merged(g)
    BY BumpedTimes DEF StoreInv, Merged
  <1> QED BY <1>2, <1>3 DEF CacheInv

LEMMA CallOutlives ==
    ASSUME StoreInv, NEW f \in Files, NEW i \in {1, 2}, mtime' = Bumped(f, i),
           \A h \in Files \ {f} : base'[h] = base[h] /\ local'[h] = local[h],
           NEW c \in Call, CallInv(c), i = 2 => base' = base /\ f \notin Users,
           NEW d, d = IF i = 1 /\ c.file = f THEN [c EXCEPT !.quiet = FALSE] ELSE c
    PROVE  d \in Call /\ CallInv(d)'
  <1>1. c.file \in Files /\ c.times \in Times
    BY DEF Call
  <1>2. d \in Call /\ \A field \in {"pc", "file", "op", "bypass", "times", "content"} : d[field] = c[field]
    BY DEF Call
  <1>3. NotAhead(c.times, c.file)' /\ (c.file = f => c.times # mtime'[c.file])
    BY <1>1, OldTimes DEF CallInv, StoreInv
  <1>4. c.file # f => mtime'[c.file] = mtime[c.file] /\ Merged(c.file)' = Merged(c.file)
    BY <1>1, BumpedTimes DEF StoreInv, Merged
  <1>5. NotAhead(d.times, d.file)' /\ LoadKnows(d)'
    BY <1>1, <1>2, <1>3, <1>4 DEF CallInv, LoadKnows
  <1>6. ThroughCache(d)' /\ Unmixed(d)'
    BY <1>2 DEF CallInv, ThroughCache, Unmixed
  <1>7. SetterKnows(d)'
    <2>1. CASE c.file # f
      <3>1. d = c /\ base'[c.file] = base[c.file]
        BY <1>1, <2>1
      <3> QED BY <1>4, <2>1, <3>1 DEF CallInv, SetterKnows
    <2>2. CASE c.file = f /\ i = 1
      <3>1. d.quiet = FALSE
        BY <2>2 DEF Call
      <3> QED BY <3>1 DEF SetterKnows
    <2>3. CASE c.file = f /\ i = 2
      <3>1. d = c /\ base' = base /\ f \notin Users
        BY <2>3
      <3>2. c.op = "set" => c.pc # "cached"
        BY <2>3, <3>1 DEF CallInv, ThroughCache
      <3> QED BY <3>1, <3>2 DEF CallInv, SetterKnows
    <2> QED BY <2>1, <2>2, <2>3
  <1> QED BY <1>2, <1>5, <1>6, <1>7 DEF CallInv

\* The cache after a write.
LEMMA CacheOutlives ==
    ASSUME StoreInv, NEW f \in Files, NEW i \in {1, 2}, mtime' = Bumped(f, i),
           \A h \in Files \ {f} : base'[h] = base[h] /\ local'[h] = local[h],
           UNCHANGED << cache, stamped >>
    PROVE  \A g \in Files : cache'[g] # Empty => CacheInv(g, cache[g])'
  <1> SUFFICES ASSUME NEW g \in Files, cache'[g] # Empty PROVE CacheInv(g, cache[g])'
    OBVIOUS
  <1> PICK entry : entry = cache[g]
    OBVIOUS
  <1>1. cache'[g] = entry /\ entry \in Entry /\ CacheInv(g, entry)
    BY EntryType DEF StoreInv
  <1>2. CacheInv(g, entry)'
    BY <1>1, EntryOutlives
  <1> QED BY <1>1, <1>2

LEMMA WrittenContent ==
    ASSUME NEW c \in Call, c.pc = "write", Unmixed(c)
    PROVE  /\ NewContent(c) \in Content
           /\ \A s \in Sections : NewContent(c)[s] # Mine
           /\ \A s \in Sections \ {c.section} : NewContent(c)[s] = c.content[s]
  BY ValueAssumption DEF Call, Content, NewContent, Unmixed

LEMMA WriteKeeps ==
    ASSUME StoreInv, NEW t \in Tasks, Write(t)
    PROVE  StoreInv'
  <1>1. ~At(t, "idle") /\ call[t] \in Call /\ call[t].pc = "write" /\ call[t].file \in Files
    BY CallType DEF Write, At, StoreInv, Call
  <1> PICK f \in Files : f = call[t].file
    BY <1>1
  <1> PICK written : written = NewContent(call[t])
    OBVIOUS
  <1>2. CallInv(call[t])
    BY <1>1 DEF StoreInv
  <1>3. written \in Content /\ \A s \in Sections : written[s] # Mine
    BY <1>1, <1>2, WrittenContent DEF CallInv
  <1>4. /\ base' = [base EXCEPT ![f] = written] /\ mtime' = Bumped(f, 1)
        /\ UNCHANGED << local, cache, stamped >>
    BY DEF Write
  <1>5. \A h \in Files \ {f} : base'[h] = base[h] /\ local'[h] = local[h]
    BY <1>4 DEF StoreInv, TypeOK
  <1>6. base' \in [Files -> Content] /\ mtime' \in [Files -> Times] /\ base'[f] = written
    BY <1>3, <1>4, BumpedTimes DEF StoreInv, TypeOK
  <1> PICK mine : mine = IF f \in Users /\ call[t].bypass THEN Idle
                         ELSE [call[t] EXCEPT !.pc = "settle", !.content = written,
                                              !.times = mtime'[f], !.quiet = FALSE]
    OBVIOUS
  <1>7. \A d \in Tasks : call'[d] =
          IF d = t THEN mine
          ELSE IF ~At(d, "idle") /\ call[d].file = f THEN [call[d] EXCEPT !.quiet = FALSE]
          ELSE call[d]
    BY DEF Write, Disturbed
  <1>8. mine = Idle \/ (mine \in Call /\ CallInv(mine)')
    <2> SUFFICES ASSUME mine # Idle PROVE mine \in Call /\ CallInv(mine)'
      OBVIOUS
    <2>1. mtime'[f] \in Times
      BY <1>6
    <2>2. /\ mine \in Call /\ mine.pc = "settle" /\ mine.content = written
          /\ mine.times = mtime'[f] /\ mine.quiet = FALSE /\ mine.file = f
      BY <1>1, <1>3, <2>1 DEF Call
    <2>3. f \in Users => Merged(f)' = written
      <3> SUFFICES ASSUME f \in Users PROVE Merge(base'[f], local'[f]) = written
        BY DEF Merged
      <3>1. local'[f] = Blank
        BY <1>4 DEF StoreInv, NoOverride
      <3> QED BY <1>3, <1>6, <3>1 DEF Merge, Blank, Content
    <2>4. NotAhead(mine.times, mine.file)' /\ LoadKnows(mine)'
      BY <2>1, <2>2, <2>3 DEF NotAhead, LoadKnows, Times
    <2>5. ThroughCache(mine)' /\ Unmixed(mine)' /\ SetterKnows(mine)'
      BY <1>3, <2>2 DEF ThroughCache, Unmixed, SetterKnows
    <2> QED BY <2>2, <2>4, <2>5 DEF CallInv
  <1>9. ASSUME NEW d \in Tasks, d # t, ~At(d, "idle")
        PROVE  call'[d] \in Call /\ CallInv(call[d])'
    <2> PICK c : c = call[d]
      OBVIOUS
    <2> PICK e : e = IF c.file = f THEN [c EXCEPT !.quiet = FALSE] ELSE c
      OBVIOUS
    <2>1. c \in Call /\ CallInv(c)
      BY <1>9, CallType DEF StoreInv
    <2>2. e \in Call /\ CallInv(e)'
      BY <1>4, <1>5, <2>1, CallOutlives
    <2>3. call'[d] = e
      BY <1>7, <1>9
    <2> QED BY <2>2, <2>3
  <1>10. \A d \in Tasks : d # t /\ At(d, "idle") => call'[d] = Idle
    <2> SUFFICES ASSUME NEW d \in Tasks, d # t, At(d, "idle") PROVE call'[d] = Idle
      OBVIOUS
    <2>1. call[d] = Idle
      BY CallType DEF StoreInv
    <2> QED BY <1>7, <2>1
  <1>11. call'[t] = mine
    BY <1>7
  <1>12. call' \in [Tasks -> Call \union {Idle}]
    <2>1. call' = [d \in Tasks |-> call'[d]]
      BY DEF Write, Disturbed
    <2>2. \A d \in Tasks : call'[d] \in Call \union {Idle}
      BY <1>8, <1>9, <1>10, <1>11
    <2> QED BY <2>1, <2>2
  <1>13. TypeOK'
    BY <1>4, <1>6, <1>12 DEF StoreInv, TypeOK
  <1>14. NoOverride' /\ LocalStaysLocal'
    BY <1>3, <1>4, <1>5, <1>6 DEF StoreInv, NoOverride, LocalStaysLocal
  <1>15. \A g \in Files : cache'[g] # Empty => CacheInv(g, cache[g])'
    BY <1>4, <1>5, CacheOutlives
  <1>16. ASSUME NEW d \in Tasks, ~At(d, "idle")'
         PROVE  CallInv(call[d])'
    <2>1. call'[d] # Idle
      BY <1>16 DEF At, Idle
    <2>2. CASE d = t
      BY <1>8, <1>11, <2>1, <2>2
    <2>3. CASE d # t
      BY <1>9, <1>10, <2>1, <2>3
    <2> QED BY <2>2, <2>3
  <1> QED BY <1>13, <1>14, <1>15, <1>16 DEF StoreInv

LEMMA OutsideKeeps ==
    ASSUME StoreInv, NEW f \in Files, NEW s \in Sections, WriteOutside(f, s)
    PROVE  StoreInv'
  <1>1. CASE /\ \E v \in Values \union {Unset} : base' = [base EXCEPT ![f][s] = v]
             /\ mtime' = Bumped(f, 1)
             /\ call' = Disturbed(f)
             /\ UNCHANGED << local, cache, stamped >>
    <2> PICK v \in Values \union {Unset} : base' = [base EXCEPT ![f][s] = v]
      BY <1>1
    <2>1. base' = [base EXCEPT ![f] = [base[f] EXCEPT ![s] = v]]
      OBVIOUS
    <2>2. base[f] \in Content /\ [base[f] EXCEPT ![s] = v] \in Content
      BY DEF StoreInv, TypeOK, Content
    <2>3. \A r \in Sections : [base[f] EXCEPT ![s] = v][r] # Mine
      BY <2>2, ValueAssumption DEF StoreInv, LocalStaysLocal, Content
    <2>4. \A h \in Files \ {f} : base'[h] = base[h] /\ local'[h] = local[h]
      BY <1>1, <2>1 DEF StoreInv, TypeOK
    <2>5. ASSUME NEW d \in Tasks
          PROVE  /\ call'[d] \in Call \union {Idle}
                 /\ ~At(d, "idle")' => CallInv(call[d])'
      <3>1. CASE At(d, "idle")
        <4>1. call'[d] = call[d] /\ call[d] = Idle
          BY <1>1, <3>1, CallType DEF Disturbed, StoreInv
        <4> QED BY <4>1 DEF At, Idle
      <3>2. CASE ~At(d, "idle")
        <4> PICK c : c = call[d]
          OBVIOUS
        <4> PICK e : e = IF c.file = f THEN [c EXCEPT !.quiet = FALSE] ELSE c
          OBVIOUS
        <4>1. c \in Call /\ CallInv(c)
          BY <3>2, CallType DEF StoreInv
        <4>2. e \in Call /\ CallInv(e)'
          BY <1>1, <2>4, <4>1, CallOutlives
        <4>3. call'[d] = e
          BY <1>1, <3>2 DEF Disturbed
        <4> QED BY <4>2, <4>3
      <3> QED BY <3>1, <3>2
    <2>6. call' \in [Tasks -> Call \union {Idle}]
      <3>1. call' = [d \in Tasks |-> call'[d]]
        BY <1>1 DEF Disturbed
      <3> QED BY <2>5, <3>1
    <2>7. TypeOK'
      BY <1>1, <2>1, <2>2, <2>6, BumpedTimes DEF StoreInv, TypeOK
    <2>8. NoOverride' /\ LocalStaysLocal'
      BY <1>1, <2>1, <2>3 DEF StoreInv, TypeOK, NoOverride, LocalStaysLocal
    <2>9. \A g \in Files : cache'[g] # Empty => CacheInv(g, cache[g])'
      BY <1>1, <2>4, CacheOutlives
    <2> QED BY <2>5, <2>7, <2>8, <2>9 DEF StoreInv
  <1>2. CASE /\ f \notin Users
             /\ \E v \in {Mine, Unset} : local' = [local EXCEPT ![f][s] = v]
             /\ mtime' = Bumped(f, 2)
             /\ UNCHANGED << base, cache, call, stamped >>
    <2> PICK v \in {Mine, Unset} : local' = [local EXCEPT ![f][s] = v]
      BY <1>2
    <2>1. local' = [local EXCEPT ![f] = [local[f] EXCEPT ![s] = v]]
      OBVIOUS
    <2>2. [local[f] EXCEPT ![s] = v] \in Content
      BY DEF StoreInv, TypeOK, Content
    <2>3. \A h \in Files \ {f} : base'[h] = base[h] /\ local'[h] = local[h]
      BY <1>2, <2>1 DEF StoreInv, TypeOK
    <2>4. ASSUME NEW d \in Tasks, ~At(d, "idle")'
          PROVE  CallInv(call[d])'
      <3> PICK c : c = call[d]
        OBVIOUS
      <3>1. c \in Call /\ CallInv(c) /\ call'[d] = c
        BY <1>2, <2>4, CallType DEF StoreInv, At
      <3>2. CallInv(c)'
        BY <1>2, <2>3, <3>1, CallOutlives
      <3> QED BY <3>1, <3>2
    <2>5. TypeOK'
      BY <1>2, <2>1, <2>2, BumpedTimes DEF StoreInv, TypeOK
    <2>6. NoOverride' /\ LocalStaysLocal'
      BY <1>2, <2>1 DEF StoreInv, TypeOK, NoOverride, LocalStaysLocal
    <2>7. \A g \in Files : cache'[g] # Empty => CacheInv(g, cache[g])'
      BY <1>2, <2>3, CacheOutlives
    <2> QED BY <2>4, <2>5, <2>6, <2>7 DEF StoreInv
  <1> QED BY <1>1, <1>2 DEF WriteOutside, HasLocal

LEMMA NextStoreInv == StoreInv /\ [Next]_vars => StoreInv'
  <1> SUFFICES ASSUME StoreInv, [Next]_vars PROVE StoreInv'
    OBVIOUS
  <1>1. CASE UNCHANGED vars
    <2>1. UNCHANGED << base, local, mtime, cache, call, stamped >>
      BY <1>1 DEF vars, disk
    <2> QED BY <2>1 DEF StoreInv, TypeOK, NoOverride, LocalStaysLocal, At, CacheInv, CallInv, NotAhead,
                        LoadKnows, ThroughCache, Unmixed, SetterKnows, Merged
  <1> QED
    BY <1>1, NextCases, LoadKeeps, SetKeeps, ReplaceKeeps, HitKeeps, MissKeeps, ReadKeeps,
       ReadLocalKeeps, FillKeeps, FailKeeps, WriteKeeps, SettleKeeps, InvalidateKeeps,
       OutsideKeeps, RestartKeeps

-----------------------------------------------------------------------------
(* Theorems                                                                *)

\* Files, caches and calls keep their shapes.
THEOREM TypeCorrect == Spec => []TypeOK
  BY InitStoreInv, NextStoreInv, PTL DEF Spec, StoreInv

\* A cache entry that a load would answer with is what a load would read, unless a
\* persist of the user store took the time of another write.
THEOREM Coherent == Spec => []CacheCoherent
  <1>1. StoreInv => CacheCoherent
    BY DEF StoreInv, CacheInv, CacheCoherent
  <1> QED BY <1>1, InitStoreInv, NextStoreInv, PTL DEF Spec

\* A setter that no other write came in between leaves the other sections alone, and no
\* setter writes what only an override says into the committed file.
THEOREM OneSection == Spec => SettersKeepOthers
  <1> DEFINE Step == /\ \A t \in Tasks : WritesAlone(t) /\ call[t].sound => OthersStay(t)
                     /\ LocalStaysLocal'
  <1>1. ASSUME StoreInv, Next PROVE Step
    <2>1. LocalStaysLocal'
      BY <1>1, NextStoreInv DEF StoreInv
    <2>2. ASSUME NEW t \in Tasks, WritesAlone(t), call[t].sound
          PROVE  OthersStay(t)
      <3>1. call[t] \in Call /\ call[t].pc = "write" /\ call[t].file \in Files /\ CallInv(call[t])
        BY <1>1, <2>2, CallType DEF WritesAlone, At, StoreInv, Call
      <3>2. Write(t)
        <4>1. mtime' # mtime /\ call'[t].pc # "write"
          BY <2>2 DEF WritesAlone
        <4>2. ASSUME NEW u \in Tasks, Write(u), u # t
              PROVE  FALSE
          <5>1. call'[t] = [call[t] EXCEPT !.quiet = FALSE] \/ call'[t] = call[t]
            BY <4>2 DEF Write, Disturbed
          <5> QED BY <3>1, <4>1, <5>1 DEF Call
        <4>3. ASSUME NEW f \in Files, NEW s \in Sections, WriteOutside(f, s)
              PROVE  FALSE
          <5>1. call'[t] = [call[t] EXCEPT !.quiet = FALSE] \/ call'[t] = call[t]
            BY <4>3 DEF WriteOutside, Disturbed
          <5> QED BY <3>1, <4>1, <5>1 DEF Call
        <4>4. \A u \in Tasks, f \in Files :
                /\ ~Get(u, f) /\ ~EnsureExists(u, f)
                /\ \A v \in Values \union {Unset} : ~Replace(u, f, v)
                /\ \A s \in Sections, v \in Values \union {Unset} :
                     ~Set(u, f, s, v) /\ ~SetActiveEnv(u, f, s, v)
          BY <4>1 DEF Get, EnsureExists, Replace, Set, SetActiveEnv, Begin, disk
        <4>5. \A u \in Tasks :
                ~Hit(u) /\ ~Miss(u) /\ ~Read(u) /\ ~ReadLocal(u) /\ ~Fill(u) /\ ~Fail(u) /\ ~Settle(u)
          BY <4>1 DEF Hit, Miss, Read, ReadLocal, Fill, Fail, Settle, disk
        <4>6. ~Restart /\ \A f \in Files : ~InvalidateCache(f)
          BY <4>1 DEF Restart, InvalidateCache, disk
        <4>7. \/ \E u \in Tasks : Write(u)
              \/ \E f \in Files, s \in Sections : WriteOutside(f, s)
          BY <1>1, <4>4, <4>5, <4>6, NextCases
        <4> QED BY <4>2, <4>3, <4>7
      <3>3. call[t].content = base[call[t].file]
        BY <2>2, <3>1 DEF WritesAlone, CallInv, SetterKnows
      <3>4. base'[call[t].file] = NewContent(call[t])
        BY <1>1, <3>1, <3>2 DEF Write, StoreInv, TypeOK
      <3>5. \A s \in Sections \ {call[t].section} : NewContent(call[t])[s] = call[t].content[s]
        BY <3>1, WrittenContent DEF CallInv
      <3> QED BY <3>3, <3>4, <3>5 DEF OthersStay
    <2> QED BY <2>1, <2>2
  <1>2. StoreInv /\ [Next]_vars => [Step]_vars
    BY <1>1
  <1>3. Spec => [][Step]_vars
    BY <1>2, InitStoreInv, NextStoreInv, PTL DEF Spec
  <1> QED BY <1>3 DEF SettersKeepOthers
=============================================================================
