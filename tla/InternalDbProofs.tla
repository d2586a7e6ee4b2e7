--------------------------- MODULE InternalDbProofs ---------------------------
(***************************************************************************)
(* Proofs about the components that InternalDb composes, for any tasks and *)
(* any values of the other constants.                                      *)
(***************************************************************************)
EXTENDS InternalDb, Sequences, FiniteSetTheorems, TLAPS

-----------------------------------------------------------------------------
(* The composition                                                         *)

LEMMA InitOfAll ==
    Init => /\ Env!EnvInit /\ Chat!ChatInit /\ Cache!CacheInit /\ Hist!HistInit /\ Vault!VaultInit
            /\ File!FileInit /\ Conn!ConnInit /\ Folder!FolderInit
  BY DEF Init

\* A step is one of the component that the behaviour is about, and leaves the others alone.
LEMMA NextOfAll ==
    [Next]_vars =>
      /\ [Env!EnvNext]_envVars /\ [Chat!ChatNext]_chatVars /\ [Cache!CacheNext]_cacheVars
      /\ [Hist!HistNext]_histVars /\ [Vault!VaultNext]_vaultVars /\ [File!FileNext]_fileVars
      /\ [Conn!ConnNext]_connVars /\ [Folder!FolderNext]_folderVars
  BY DEF Next, vars, EnvStep, TalkStep, PermissionStep, CacheStep, HistStep, VaultStep, FileStep,
         ConnStep, FolderStep, Chat!ChatNext

\* A behaviour of the composition is, in the variables of each component, one that the
\* component allows by itself.
THEOREM Composes ==
    Spec => /\ Env!EnvSpec /\ Chat!ChatSpec /\ Cache!CacheSpec /\ Hist!HistSpec /\ Vault!VaultSpec
            /\ File!FileSpec /\ Conn!ConnSpec /\ Folder!FolderSpec
  BY InitOfAll, NextOfAll, PTL
     DEF Spec, Env!EnvSpec, Chat!ChatSpec, Cache!CacheSpec, Hist!HistSpec, Vault!VaultSpec,
         File!FileSpec, Conn!ConnSpec, Folder!FolderSpec,
         envVars, chatVars, cacheVars, histVars, vaultVars, fileVars, connVars, folderVars,
         Env!envVars, Chat!chatVars, Cache!cacheVars, Hist!histVars, Vault!vaultVars,
         File!fileVars, Conn!connVars, Folder!folderVars

\* A component's sets are finite, and of a size, as they are here.
LEMMA SameSize ==
    ASSUME NEW S
    PROVE  /\ Env!IsFiniteSet(S) = IsFiniteSet(S) /\ Env!Cardinality(S) = Cardinality(S)
           /\ Cache!Cardinality(S) = Cardinality(S)
           /\ Hist!Cardinality(S) = Cardinality(S)
  BY DEF Env!IsFiniteSet, IsFiniteSet, Cardinality,
         Env!Cardinality, Cache!Cardinality, Hist!Cardinality

-----------------------------------------------------------------------------
(* Turns                                                                   *)

Message == [session : Sessions, turn : Nat, late : BOOLEAN]
Inserting == [pc : {"insert"}, session : Sessions, turn : Nat, late : BOOLEAN]

\* What insert_message relies on: messages and inserts of their shapes.
TurnTypes ==
    /\ messages \in Seq(Message)
    /\ \A c \in Tasks : chat[c].pc = "insert" => chat[c] \in Inserting
    /\ DOMAIN chat = Tasks

\* A session has a highest turn as soon as it has a message.
HighestTurn ==
    \A s \in Sessions :
      Chat!TurnsOf(s) # {} => \E t \in Chat!TurnsOf(s) : \A u \in Chat!TurnsOf(s) : u <= t

\* An insert that nobody came in between has a turn above those there are.
InsertsAbove ==
    \A c \in Tasks, s \in Sessions :
      chat[c].pc = "insert" /\ chat[c].session = s /\ ~chat[c].late
        => \A u \in Chat!TurnsOf(s) : u < chat[c].turn

TurnInv == TurnTypes /\ HighestTurn /\ InsertsAbove /\ Chat!TurnsApart

LEMMA InitTurnInv == Chat!ChatInit => TurnInv
  BY DEF Chat!ChatInit, TurnInv, TurnTypes, HighestTurn, InsertsAbove, Chat!TurnsApart, Chat!TurnsOf, Chat!Free

\* Turns are naturals.
LEMMA TurnsAreNat ==
    ASSUME TurnTypes, NEW s \in Sessions
    PROVE  Chat!TurnsOf(s) \subseteq Nat
  <1>1. \A i \in DOMAIN messages : messages[i] \in Message
    BY DEF TurnTypes
  <1>2. \A i \in DOMAIN messages : messages[i].turn \in Nat
    BY <1>1 DEF Message
  <1> QED BY <1>2 DEF Chat!TurnsOf

\* The turn that is read is above every turn of the session.
LEMMA NextTurnIsAbove ==
    ASSUME TurnTypes, HighestTurn, NEW s \in Sessions
    PROVE  Chat!NextTurn(s) \in Nat /\ \A u \in Chat!TurnsOf(s) : u < Chat!NextTurn(s)
  <1>1. CASE Chat!TurnsOf(s) = {}
    BY <1>1 DEF Chat!NextTurn
  <1>2. CASE Chat!TurnsOf(s) # {}
    <2> DEFINE highest == CHOOSE t \in Chat!TurnsOf(s) : \A u \in Chat!TurnsOf(s) : u <= t
    <2>1. highest \in Chat!TurnsOf(s) /\ \A u \in Chat!TurnsOf(s) : u <= highest
      BY <1>2 DEF HighestTurn
    <2>2. Chat!NextTurn(s) = 1 + highest
      BY <1>2 DEF Chat!NextTurn
    <2> HIDE DEF highest
    <2> QED BY <2>1, <2>2, TurnsAreNat
  <1> QED BY <1>1, <1>2

\* What an insert adds to the turns of each session.
LEMMA TurnsAfterInsert ==
    ASSUME TurnTypes, NEW m \in Message, messages' = Append(messages, m), NEW s \in Sessions
    PROVE  Chat!TurnsOf(s)' = IF s = m.session THEN Chat!TurnsOf(s) \union {m.turn} ELSE Chat!TurnsOf(s)
  <1>1. /\ DOMAIN messages' = DOMAIN messages \union {Len(messages) + 1}
        /\ messages'[Len(messages) + 1] = m
        /\ \A i \in DOMAIN messages : messages'[i] = messages[i]
    BY DEF TurnTypes
  <1> QED BY <1>1 DEF Chat!TurnsOf

LEMMA NextTurnInv == TurnInv /\ [Chat!ChatNext]_chatVars => TurnInv'
  <1> SUFFICES ASSUME TurnInv, [Chat!ChatNext]_chatVars PROVE TurnInv'
    OBVIOUS
  <1>1. ASSUME NEW c \in Tasks, NEW s \in Sessions, Chat!ReadTurn(c, s)
        PROVE  TurnInv'
    <2>1. Chat!NextTurn(s) \in Nat /\ \A u \in Chat!TurnsOf(s) : u < Chat!NextTurn(s)
      BY NextTurnIsAbove DEF TurnInv
    <2>2. /\ chat'[c] = [pc |-> "insert", session |-> s, turn |-> Chat!NextTurn(s), late |-> FALSE]
          /\ \A d \in Tasks \ {c} : chat'[d] = chat[d]
          /\ DOMAIN chat' = Tasks
          /\ messages' = messages
      BY <1>1 DEF Chat!ReadTurn, TurnInv, TurnTypes
    <2> DEFINE inserting == [pc |-> "insert", session |-> s, turn |-> Chat!NextTurn(s), late |-> FALSE]
    <2>3. TurnTypes'
      <3>1. inserting \in Inserting
        BY <2>1 DEF Inserting
      <3> HIDE DEF inserting
      <3>2. \A d \in Tasks : chat'[d].pc = "insert" => chat'[d] \in Inserting
        BY <2>2, <3>1 DEF TurnInv, TurnTypes, inserting
      <3> QED BY <2>2, <3>2 DEF TurnInv, TurnTypes
    <2>4. InsertsAbove'
      <3>1. \A r \in Sessions : Chat!TurnsOf(r)' = Chat!TurnsOf(r)
        BY <2>2 DEF Chat!TurnsOf
      <3>2. chat'[c].session = s /\ chat'[c].turn = Chat!NextTurn(s)
        BY <2>2
      <3> QED BY <2>1, <2>2, <3>1, <3>2 DEF TurnInv, InsertsAbove
    <2>5. HighestTurn' /\ Chat!TurnsApart'
      BY <2>2 DEF TurnInv, HighestTurn, Chat!TurnsApart, Chat!TurnsOf
    <2> QED BY <2>3, <2>4, <2>5 DEF TurnInv
  <1>2. ASSUME NEW c \in Tasks, Chat!InsertMessage(c)
        PROVE  TurnInv'
    <2> DEFINE s == chat[c].session
               m == [session |-> s, turn |-> chat[c].turn, late |-> chat[c].late]
    <2>1. chat[c] \in Inserting /\ m \in Message
      BY <1>2 DEF Chat!InsertMessage, TurnInv, TurnTypes, Inserting, Message
    <2>2. s \in Sessions /\ m.session = s /\ m.turn = chat[c].turn /\ m.late = chat[c].late /\ m.turn \in Nat
      BY <2>1 DEF Inserting
    <2>3. messages' = Append(messages, m) /\ messages \in Seq(Message)
      BY <1>2 DEF Chat!InsertMessage, TurnInv, TurnTypes
    <2>4. /\ DOMAIN chat' = Tasks
          /\ chat'[c].pc # "insert"
          /\ \A d \in Tasks \ {c} :
                chat'[d] = IF chat[d].pc = "insert" /\ chat[d].session = s
                           THEN [chat[d] EXCEPT !.late = TRUE] ELSE chat[d]
      BY <1>2 DEF Chat!InsertMessage, Chat!Free
    <2> HIDE DEF m, s
    <2>5. TurnTypes'
      <3>1. messages' \in Seq(Message)
        BY <2>1, <2>3
      <3>2. ASSUME NEW d \in Tasks, chat'[d].pc = "insert" PROVE chat'[d] \in Inserting
        <4>1. d # c
          BY <2>4, <3>2
        <4>2. CASE chat'[d] = chat[d]
          BY <3>2, <4>2 DEF TurnInv, TurnTypes
        <4>3. CASE chat[d].pc = "insert" /\ chat'[d] = [chat[d] EXCEPT !.late = TRUE]
          <5>1. chat[d] \in Inserting
            BY <4>3 DEF TurnInv, TurnTypes
          <5> QED BY <4>3, <5>1 DEF Inserting
        <4> QED BY <2>4, <4>1, <4>2, <4>3
      <3> QED BY <2>4, <3>1, <3>2 DEF TurnTypes
    <2>6. \A r \in Sessions : Chat!TurnsOf(r)' = IF r = s THEN Chat!TurnsOf(r) \union {m.turn} ELSE Chat!TurnsOf(r)
      BY <2>1, <2>2, <2>3, TurnsAfterInsert DEF TurnInv
    <2>7. HighestTurn'
      <3> SUFFICES ASSUME NEW r \in Sessions, Chat!TurnsOf(r)' # {}
                   PROVE  \E t \in Chat!TurnsOf(r)' : \A u \in Chat!TurnsOf(r)' : u <= t
        BY DEF HighestTurn
      <3>1. Chat!TurnsOf(r) \subseteq Nat
        BY TurnsAreNat DEF TurnInv
      <3>2. CASE Chat!TurnsOf(r) = {}
        BY <3>2, <2>2, <2>6
      <3>3. CASE Chat!TurnsOf(r) # {}
        <4>1. PICK t \in Chat!TurnsOf(r) : \A u \in Chat!TurnsOf(r) : u <= t
          BY <3>3 DEF TurnInv, HighestTurn
        <4>2. CASE r = s /\ m.turn > t
          BY <4>1, <4>2, <3>1, <2>2, <2>6
        <4>3. CASE r # s \/ m.turn <= t
          BY <4>1, <4>3, <3>1, <2>2, <2>6
        <4> QED BY <4>1, <4>2, <4>3, <3>1, <2>2
      <3> QED BY <3>2, <3>3
    <2>8. InsertsAbove'
      <3> SUFFICES ASSUME NEW d \in Tasks, NEW r \in Sessions,
                          chat'[d].pc = "insert", chat'[d].session = r, ~chat'[d].late
                   PROVE  \A u \in Chat!TurnsOf(r)' : u < chat'[d].turn
        BY DEF InsertsAbove
      <3>1. d # c /\ chat'[d] = chat[d] /\ chat[d].session # s
        <4>1. d # c
          BY <2>4
        <4>2. ASSUME chat[d].pc = "insert", chat[d].session = s PROVE FALSE
          BY <4>1, <4>2, <2>4 DEF TurnInv, TurnTypes, Inserting
        <4> QED BY <4>1, <4>2, <2>4
      <3>2. Chat!TurnsOf(r)' = Chat!TurnsOf(r)
        BY <3>1, <2>6
      <3> QED BY <3>1, <3>2 DEF TurnInv, InsertsAbove
    <2>9. Chat!TurnsApart'
      <3> SUFFICES ASSUME NEW j \in DOMAIN messages', NEW i \in 1 .. (j - 1),
                          messages'[i].session = messages'[j].session, ~messages'[j].late
                   PROVE  messages'[i].turn < messages'[j].turn
        BY DEF Chat!TurnsApart
      <3>1. /\ j \in 1 .. (Len(messages) + 1) /\ i \in DOMAIN messages /\ messages'[i] = messages[i]
        BY <2>3, <2>1
      <3>2. CASE j = Len(messages) + 1
        <4>1. messages'[j] = m
          BY <3>2, <2>1, <2>3
        <4>2. messages[i].turn \in Chat!TurnsOf(s)
          BY <4>1, <3>1, <2>2 DEF Chat!TurnsOf
        <4> QED BY <4>1, <4>2, <3>1, <2>2, <1>2 DEF TurnInv, InsertsAbove, Chat!InsertMessage, s
      <3>3. CASE j # Len(messages) + 1
        <4>1. j \in DOMAIN messages /\ messages'[j] = messages[j]
          BY <3>1, <3>3, <2>1, <2>3
        <4> QED BY <4>1, <3>1 DEF TurnInv, Chat!TurnsApart
      <3> QED BY <3>2, <3>3
    <2> QED BY <2>5, <2>7, <2>8, <2>9 DEF TurnInv
  <1>3. ASSUME messages' = messages, DOMAIN chat' = Tasks,
               \A d \in Tasks : chat'[d] = chat[d] \/ chat'[d].pc # "insert"
        PROVE  TurnInv'
    <2>1. \A r \in Sessions : Chat!TurnsOf(r)' = Chat!TurnsOf(r)
      BY <1>3 DEF Chat!TurnsOf
    <2>2. TurnTypes'
      BY <1>3 DEF TurnInv, TurnTypes
    <2>3. HighestTurn'
      BY <2>1 DEF TurnInv, HighestTurn
    <2>4. InsertsAbove'
      BY <1>3, <2>1 DEF TurnInv, InsertsAbove
    <2>5. Chat!TurnsApart'
      BY <1>3 DEF TurnInv, Chat!TurnsApart
    <2> QED BY <2>2, <2>3, <2>4, <2>5 DEF TurnInv
  <1>4. ASSUME NEW c \in Tasks, Chat!DropCall(c)
        PROVE  TurnInv'
    BY <1>4, <1>3 DEF Chat!DropCall, Chat!Free, TurnInv, TurnTypes
  <1>5. ASSUME NEW c \in Tasks, NEW s \in Sessions, NEW w \in Workspaces \union {None}, Chat!CheckAlways(c, w, s)
        PROVE  TurnInv'
    <2>1. chat'[c].pc # "insert" /\ \A d \in Tasks \ {c} : chat'[d] = chat[d]
      BY <1>5 DEF Chat!CheckAlways, TurnInv, TurnTypes
    <2> QED BY <1>5, <1>3, <2>1 DEF Chat!CheckAlways, TurnInv, TurnTypes
  <1>6. ASSUME NEW c \in Tasks, Chat!CheckSession(c)
        PROVE  TurnInv'
    <2>1. chat'[c].pc # "insert" /\ \A d \in Tasks \ {c} : chat'[d] = chat[d]
      BY <1>6 DEF Chat!CheckSession, TurnInv, TurnTypes
    <2> QED BY <1>6, <1>3, <2>1 DEF Chat!CheckSession, TurnInv, TurnTypes
  <1>7. ASSUME UNCHANGED << messages, chat >>
        PROVE  TurnInv'
    BY <1>7, <1>3 DEF TurnInv, TurnTypes
  <1>8. \/ \E c \in Tasks : Chat!InsertMessage(c) \/ Chat!DropCall(c) \/ Chat!CheckSession(c)
        \/ \E c \in Tasks, s \in Sessions : Chat!ReadTurn(c, s)
        \/ \E c \in Tasks, s \in Sessions, w \in Workspaces \union {None} : Chat!CheckAlways(c, w, s)
        \/ UNCHANGED << messages, chat >>
    BY DEF Chat!ChatNext, Chat!TalkNext, Chat!PermissionNext, chatVars, Chat!CreateSession, Chat!ArchiveSession, Chat!UpsertUsage,
           Chat!UpdateToolCallResult, Chat!InsertToolCall, Chat!ClearSessionPermissions, Chat!InsertPermission, Chat!DeletePermission
  <1> QED BY <1>1, <1>2, <1>4, <1>5, <1>6, <1>7, <1>8

\* A conversation ordered by turns is in the order it was written in, but for messages
\* that came between the two statements of another's insert.
THEOREM InOrderOfTurns == Spec => []TurnsApart
  <1>1. TurnInv => TurnsApart
    BY DEF TurnInv, TurnsApart
  <1> QED BY <1>1, InitTurnInv, NextTurnInv, InitOfAll, NextOfAll, PTL DEF Spec

-----------------------------------------------------------------------------
(* Permissions                                                             *)

\* A check that found no 'always' rule holds what was in force for the session then.
HeldThen ==
    \A c \in Tasks :
      chat[c].pc = "session" => chat[c].held = IF chat[c].was = {} THEN {None} ELSE chat[c].was
AnswerInv == DOMAIN chat = Tasks /\ HeldThen /\ Chat!AnswerHeld

LEMMA InitAnswerInv == Chat!ChatInit => AnswerInv
  BY DEF Chat!ChatInit, AnswerInv, HeldThen, Chat!AnswerHeld, Chat!Free

\* The first statement finds a rule that is in force, or none and leaves it to the session's.
LEMMA AlwaysIsInForce ==
    ASSUME NEW w \in Workspaces \union {None}, NEW s
    PROVE  /\ Chat!AlwaysRules(w) \subseteq Chat!InForce(rules, w, s)
           /\ Chat!AlwaysRules(w) = {} =>
                Chat!InForce(rules, w, s) = IF Chat!SessionRules(s) = {} THEN {None} ELSE Chat!SessionRules(s)
  BY DEF Chat!AlwaysRules, Chat!InForce, Chat!SessionRules

LEMMA NextAnswerInv == AnswerInv /\ [Chat!ChatNext]_chatVars => AnswerInv'
  <1> SUFFICES ASSUME AnswerInv, [Chat!ChatNext]_chatVars PROVE AnswerInv'
    OBVIOUS
  <1>1. ASSUME NEW c \in Tasks, NEW s \in Sessions, NEW w \in Workspaces \union {None}, Chat!CheckAlways(c, w, s)
        PROVE  AnswerInv'
    <2>1. DOMAIN chat' = Tasks /\ \A d \in Tasks \ {c} : chat'[d] = chat[d]
      BY <1>1 DEF Chat!CheckAlways, AnswerInv
    <2>2. CASE Chat!AlwaysRules(w) = {}
      <3>1. chat'[c] = [pc |-> "session", workspace |-> w, session |-> s,
                        held |-> Chat!InForce(rules, w, s), was |-> Chat!SessionRules(s)]
        BY <1>1, <2>2 DEF Chat!CheckAlways, AnswerInv
      <3>2. /\ chat'[c].pc = "session" /\ chat'[c].was = Chat!SessionRules(s)
            /\ chat'[c].held = Chat!InForce(rules, w, s)
        BY <3>1
      <3>3. Chat!InForce(rules, w, s) = IF Chat!SessionRules(s) = {} THEN {None} ELSE Chat!SessionRules(s)
        BY <2>2, AlwaysIsInForce
      <3> QED BY <2>1, <3>2, <3>3 DEF AnswerInv, HeldThen, Chat!AnswerHeld
    <2>3. CASE Chat!AlwaysRules(w) # {}
      <3>1. PICK r \in Chat!AlwaysRules(w) :
              chat'[c] = [pc |-> "answered", rule |-> r, held |-> Chat!InForce(rules, w, s), moved |-> FALSE]
        BY <1>1, <2>3 DEF Chat!CheckAlways, AnswerInv
      <3>2. r \in Chat!InForce(rules, w, s)
        BY AlwaysIsInForce
      <3>3. /\ chat'[c].pc = "answered" /\ chat'[c].rule = r
            /\ chat'[c].held = Chat!InForce(rules, w, s)
        BY <3>1
      <3> QED BY <2>1, <3>2, <3>3 DEF AnswerInv, HeldThen, Chat!AnswerHeld
    <2> QED BY <2>2, <2>3
  <1>2. ASSUME NEW c \in Tasks, Chat!CheckSession(c)
        PROVE  AnswerInv'
    <2> DEFINE q == chat[c]
               found == Chat!SessionRules(q.session)
               force == Chat!InForce(rules, q.workspace, q.session)
    <2>1. DOMAIN chat' = Tasks /\ \A d \in Tasks \ {c} : chat'[d] = chat[d]
      BY <1>2 DEF Chat!CheckSession, AnswerInv
    <2>2. q.held = IF q.was = {} THEN {None} ELSE q.was
      BY <1>2 DEF Chat!CheckSession, AnswerInv, HeldThen
    <2>3. PICK r \in (IF found = {} THEN {None} ELSE found) :
            chat'[c] = [pc |-> "answered", rule |-> r, moved |-> found # q.was, held |-> q.held \union force]
      BY <1>2 DEF Chat!CheckSession, AnswerInv
    <2> HIDE DEF found, force
    <2>4. /\ chat'[c].pc = "answered" /\ chat'[c].rule = r
          /\ chat'[c].held = q.held \union force /\ chat'[c].moved = (found # q.was)
      BY <2>3
    <2>5. r \in q.held \/ found # q.was
      BY <2>2
    <2> QED BY <2>1, <2>4, <2>5 DEF AnswerInv, HeldThen, Chat!AnswerHeld
  <1>3. ASSUME DOMAIN chat' = Tasks,
               \A d \in Tasks : chat'[d] = chat[d] \/ chat'[d].pc \notin {"session", "answered"}
        PROVE  AnswerInv'
    BY <1>3 DEF AnswerInv, HeldThen, Chat!AnswerHeld
  <1>4. ASSUME NEW c \in Tasks, Chat!DropCall(c)
        PROVE  AnswerInv'
    BY <1>4, <1>3 DEF Chat!DropCall, Chat!Free, AnswerInv
  <1>5. ASSUME NEW c \in Tasks, NEW s \in Sessions, Chat!ReadTurn(c, s)
        PROVE  AnswerInv'
    BY <1>5, <1>3 DEF Chat!ReadTurn, AnswerInv
  <1>6. ASSUME NEW c \in Tasks, Chat!InsertMessage(c)
        PROVE  AnswerInv'
    <2>1. \A d \in Tasks : chat'[d] = chat[d] \/ chat'[d].pc \notin {"session", "answered"}
      BY <1>6 DEF Chat!InsertMessage, Chat!Free
    <2> QED BY <1>6, <1>3, <2>1 DEF Chat!InsertMessage
  <1>7. ASSUME UNCHANGED chat
        PROVE  AnswerInv'
    BY <1>7, <1>3 DEF AnswerInv
  <1>8. \/ \E c \in Tasks : Chat!InsertMessage(c) \/ Chat!DropCall(c) \/ Chat!CheckSession(c)
        \/ \E c \in Tasks, s \in Sessions : Chat!ReadTurn(c, s)
        \/ \E c \in Tasks, s \in Sessions, w \in Workspaces \union {None} : Chat!CheckAlways(c, w, s)
        \/ UNCHANGED chat
    BY DEF Chat!ChatNext, Chat!TalkNext, Chat!PermissionNext, chatVars, Chat!CreateSession, Chat!ArchiveSession, Chat!UpsertUsage,
           Chat!UpdateToolCallResult, Chat!InsertToolCall, Chat!ClearSessionPermissions, Chat!InsertPermission, Chat!DeletePermission
  <1> QED BY <1>1, <1>2, <1>4, <1>5, <1>6, <1>7, <1>8

\* The answer to a permission check was right at one of its two statements, unless the
\* session's rules changed between them.
THEOREM AnsweredFromForce == Spec => []AnswerHeld
  <1>1. AnswerInv => AnswerHeld
    BY DEF AnswerInv, AnswerHeld
  <1> QED BY <1>1, InitAnswerInv, NextAnswerInv, InitOfAll, NextOfAll, PTL DEF Spec

-----------------------------------------------------------------------------
\* Every action, as EnvNext spells it.
LEMMA EnvCases ==
    ASSUME Env!EnvNext
    PROVE  \/ \E c \in Tasks, e \in Envs, n \in EnvNames : Env!CreateEnvironment(c, e, n)
           \/ \E c \in Tasks, e \in Envs, n \in EnvNames : Env!FindSource(c, e, n)
           \/ \E c \in Tasks, e \in Envs : Env!DeleteEnvironment(c, e)
           \/ \E c \in Tasks, e \in Envs : Env!InsertCopy(c, e)
           \/ \E c \in Tasks, e \in Envs \union {None} : Env!ClearActive(c, e)
           \/ \E c \in Tasks, v \in Env!Vars, text \in Texts \union {None}, secret \in BOOLEAN :
                 Env!SetVariable(c, v, text, secret)
           \/ \E c \in Tasks, v \in Env!Vars : Env!FindDoomed(c, v)
           \/ \E c \in Tasks : Env!Activate(c)
           \/ \E c \in Tasks : Env!FindRow(c)
           \/ \E c \in Tasks : Env!UpdateRow(c)
           \/ \E c \in Tasks : Env!InsertRow(c)
           \/ \E c \in Tasks : Env!DeleteRow(c)
           \/ \E c \in Tasks : Env!EraseSecret(c)
           \/ \E c \in Tasks : Env!ListSource(c)
           \/ \E c \in Tasks : Env!CopyNext(c)
           \/ \E c \in Tasks : Env!Fail(c)
  BY DEF Env!EnvNext

-----------------------------------------------------------------------------
(* Type correctness                                                        *)

Value == Texts \union {None, Sentinel}
Copied == [key : Keys, from : Envs, text : Value, secret : BOOLEAN]
SettingCall == [pc : {"find", "update", "insert"}, v : Env!Vars, text : Value, secret : BOOLEAN,
                row : Nat, rest : Seq(Copied)]
EnvCall == {Env!Idle} \union SettingCall
        \union [pc : {"activate"}, e : Envs, over : BOOLEAN]
        \union [pc : {"delete"}, v : Env!Vars, row : Nat, secret : BOOLEAN]
        \union [pc : {"erase"}, v : Env!Vars]
        \union [pc : {"duplicate"}, e : Envs, name : EnvNames]
        \union [pc : {"list"}, e : Envs, from : Envs]
        \union [pc : {"next"}, e : Envs, rest : Seq(Copied) \ {<< >>}]

EnvTypeOK ==
    /\ names \in [Envs -> EnvNames \union {None}]
    /\ active \subseteq Envs
    /\ rows \in [Env!Vars -> [id : Nat, text : Value, secret : BOOLEAN]]
    /\ vault \in [Env!Vars -> Texts \union {None}]
    /\ call \in [Tasks -> EnvCall]
    /\ made \in Nat /\ sets \in Nat
    /\ spent \subseteq Envs
    /\ blurred \in BOOLEAN
    /\ raced \subseteq Env!Vars

LEMMA InitEnvTypeOK ==
    ASSUME Env!EnvAssumption, Env!EnvInit
    PROVE  EnvTypeOK
  BY DEF Env!EnvAssumption, Env!EnvInit, EnvTypeOK, Env!Vars, Value, Env!NoRow, EnvCall

\* What the step of a call is allowed by its pc.
LEMMA EnvCallShapes ==
    ASSUME EnvTypeOK, NEW c \in Tasks
    PROVE  /\ call[c].pc \in {"find", "update", "insert"} => call[c] \in SettingCall
           /\ call[c].pc = "activate" => call[c] \in [pc : {"activate"}, e : Envs, over : BOOLEAN]
           /\ call[c].pc = "delete" => call[c] \in [pc : {"delete"}, v : Env!Vars, row : Nat, secret : BOOLEAN]
           /\ call[c].pc = "erase" => call[c] \in [pc : {"erase"}, v : Env!Vars]
           /\ call[c].pc = "duplicate" => call[c] \in [pc : {"duplicate"}, e : Envs, name : EnvNames]
           /\ call[c].pc = "list" => call[c] \in [pc : {"list"}, e : Envs, from : Envs]
           /\ call[c].pc = "next" => call[c] \in [pc : {"next"}, e : Envs, rest : Seq(Copied) \ {<< >>}]
           /\ call[c].pc \in {"idle", "find", "update", "insert", "activate", "delete", "erase",
                              "duplicate", "list", "next"}
  <1>1. call[c] \in EnvCall
    BY DEF EnvTypeOK
  <1> QED BY <1>1 DEF EnvCall, SettingCall, Env!Idle

LEMMA NextRowIsEnvCall ==
    ASSUME EnvTypeOK, NEW c \in Tasks, call[c] \in SettingCall
    PROVE  Env!NextRow(c) \in EnvCall
  <1>1. call[c].rest \in Seq(Copied) /\ call[c].v \in Env!Vars
    BY DEF SettingCall
  <1>2. call[c].v[1] \in Envs
    BY <1>1 DEF Env!Vars
  <1> QED BY <1>1, <1>2 DEF Env!NextRow, EnvCall

\* A step that moves one call and no table keeps the types.
LEMMA OneCallMoves ==
    ASSUME EnvTypeOK, NEW c \in Tasks, NEW next \in EnvCall, Env!Do(c, next)
    PROVE  call' \in [Tasks -> EnvCall]
  BY DEF EnvTypeOK, Env!Do

LEMMA NextEnvTypeOK ==
    ASSUME Env!EnvAssumption, EnvTypeOK, [Env!EnvNext]_envVars
    PROVE  EnvTypeOK'
  <1>1. ASSUME NEW c \in Tasks, NEW e \in Envs, NEW n \in EnvNames, Env!CreateEnvironment(c, e, n)
        PROVE  EnvTypeOK'
    BY <1>1 DEF Env!CreateEnvironment, Env!NewEnvironment, EnvTypeOK
  <1>2. ASSUME NEW c \in Tasks, NEW e \in Envs, NEW n \in EnvNames, Env!FindSource(c, e, n)
        PROVE  EnvTypeOK'
    <2>1. [pc |-> "duplicate", e |-> e, name |-> n] \in EnvCall
      BY DEF EnvCall
    <2> QED BY <1>2, <2>1, OneCallMoves DEF Env!FindSource, EnvTypeOK
  <1>3. ASSUME NEW c \in Tasks, NEW e \in Envs, Env!DeleteEnvironment(c, e)
        PROVE  EnvTypeOK'
    <2>1. Env!NoRow \in [id : Nat, text : Value, secret : BOOLEAN]
      BY DEF Env!NoRow, Value
    <2> QED BY <1>3, <2>1 DEF Env!DeleteEnvironment, EnvTypeOK
  <1>4. ASSUME NEW c \in Tasks, NEW e \in Envs, Env!InsertCopy(c, e)
        PROVE  EnvTypeOK'
    <2>1. call[c] \in [pc : {"duplicate"}, e : Envs, name : EnvNames]
      BY <1>4, EnvCallShapes DEF Env!InsertCopy
    <2>2. [pc |-> "list", e |-> e, from |-> call[c].e] \in EnvCall
      BY <2>1 DEF EnvCall
    <2>3. names' \in [Envs -> EnvNames \union {None}] /\ spent' \subseteq Envs
      BY <1>4, <2>1 DEF Env!InsertCopy, Env!NewEnvironment, EnvTypeOK
    <2> QED BY <1>4, <2>2, <2>3, OneCallMoves DEF Env!InsertCopy, EnvTypeOK
  <1>5. ASSUME NEW c \in Tasks, NEW e \in Envs \union {None}, Env!ClearActive(c, e)
        PROVE  EnvTypeOK'
    <2>1. ASSUME NEW d \in Tasks PROVE call'[d] \in EnvCall
      <3>1. CASE d = c
        <4>1. e # None => [pc |-> "activate", e |-> e, over |-> FALSE] \in EnvCall
          BY DEF EnvCall
        <4>2. Env!Idle \in EnvCall
          BY DEF EnvCall
        <4> QED BY <1>5, <3>1, <4>1, <4>2 DEF Env!ClearActive
      <3>2. CASE d # c /\ call[d].pc = "activate"
        <4>1. call[d] \in [pc : {"activate"}, e : Envs, over : BOOLEAN]
          BY <3>2, EnvCallShapes
        <4>2. [call[d] EXCEPT !.over = TRUE] \in [pc : {"activate"}, e : Envs, over : BOOLEAN]
          BY <4>1
        <4> QED BY <1>5, <3>2, <4>2 DEF Env!ClearActive, EnvCall
      <3>3. CASE d # c /\ call[d].pc # "activate"
        BY <1>5, <3>3 DEF Env!ClearActive, EnvTypeOK
      <3> QED BY <3>1, <3>2, <3>3
    <2>2. call' \in [Tasks -> EnvCall]
      BY <1>5, <2>1 DEF Env!ClearActive
    <2>3. active' \subseteq Envs /\ sets' \in Nat
      <3>1. active' = {} /\ sets' = sets + 1
        BY <1>5 DEF Env!ClearActive
      <3> QED BY <3>1 DEF EnvTypeOK
    <2>4. blurred' \in BOOLEAN
      BY <1>5, Zenon DEF Env!ClearActive
    <2>5. UNCHANGED << names, rows, vault, made, spent, raced >>
      BY <1>5 DEF Env!ClearActive
    <2> QED BY <2>2, <2>3, <2>4, <2>5 DEF EnvTypeOK
  <1>6. ASSUME NEW c \in Tasks, Env!Activate(c)
        PROVE  EnvTypeOK'
    <2>1. call[c] \in [pc : {"activate"}, e : Envs, over : BOOLEAN]
      BY <1>6, EnvCallShapes DEF Env!Activate
    <2>2. ASSUME NEW d \in Tasks PROVE call'[d] \in EnvCall
      <3>1. CASE d = c
        BY <1>6, <3>1 DEF Env!Activate, EnvCall
      <3>2. CASE d # c /\ call[d].pc = "activate"
        <4>1. call[d] \in [pc : {"activate"}, e : Envs, over : BOOLEAN]
          BY <3>2, EnvCallShapes
        <4>2. [call[d] EXCEPT !.over = TRUE] \in [pc : {"activate"}, e : Envs, over : BOOLEAN]
          BY <4>1
        <4> QED BY <1>6, <3>2, <4>2 DEF Env!Activate, EnvCall
      <3>3. CASE d # c /\ call[d].pc # "activate"
        BY <1>6, <3>3 DEF Env!Activate, EnvTypeOK
      <3> QED BY <3>1, <3>2, <3>3
    <2>3. call' \in [Tasks -> EnvCall]
      BY <1>6, <2>2 DEF Env!Activate
    <2>4. active' \subseteq Envs /\ blurred' \in BOOLEAN
      BY <1>6, <2>1 DEF Env!Activate, EnvTypeOK
    <2> QED BY <1>6, <2>3, <2>4 DEF Env!Activate, EnvTypeOK
  <1>7. ASSUME NEW c \in Tasks, NEW v \in Env!Vars, NEW text \in Texts \union {None}, NEW secret \in BOOLEAN,
               Env!SetVariable(c, v, text, secret)
        PROVE  EnvTypeOK'
    <2>1. Env!Setting("find", v, Sentinel, TRUE, << >>) \in EnvCall
          /\ Env!Setting("find", v, text, secret, << >>) \in EnvCall
      BY DEF Env!Setting, EnvCall, SettingCall, Value
    <2>2. vault' \in [Env!Vars -> Texts \union {None}] /\ raced' \subseteq Env!Vars
      BY <1>7 DEF Env!SetVariable, Env!StoreSecret, EnvTypeOK
    <2> QED BY <1>7, <2>1, <2>2, OneCallMoves DEF Env!SetVariable, Env!StoreSecret, EnvTypeOK
  <1>8. ASSUME NEW c \in Tasks, Env!FindRow(c)
        PROVE  EnvTypeOK'
    <2>1. call[c] \in SettingCall /\ call[c].v \in Env!Vars
      BY <1>8, EnvCallShapes DEF Env!FindRow, SettingCall
    <2>2. rows[call[c].v].id \in Nat
      BY <2>1 DEF EnvTypeOK
    <2>3. [call[c] EXCEPT !.pc = IF rows[call[c].v] = Env!NoRow THEN "insert" ELSE "update",
                          !.row = rows[call[c].v].id] \in SettingCall
      BY <2>1, <2>2 DEF SettingCall
    <2> QED BY <1>8, <2>3, OneCallMoves DEF Env!FindRow, EnvTypeOK, EnvCall
  <1>9. ASSUME NEW c \in Tasks, Env!UpdateRow(c)
        PROVE  EnvTypeOK'
    <2>1. call[c] \in SettingCall
      BY <1>9, EnvCallShapes DEF Env!UpdateRow
    <2>2. call[c].v \in Env!Vars /\ call[c].text \in Value /\ call[c].secret \in BOOLEAN
      BY <2>1 DEF SettingCall
    <2>3. rows' \in [Env!Vars -> [id : Nat, text : Value, secret : BOOLEAN]]
      BY <1>9, <2>2 DEF Env!UpdateRow, EnvTypeOK
    <2>4. Env!Idle \in EnvCall /\ Env!NextRow(c) \in EnvCall
      BY <2>1, NextRowIsEnvCall DEF EnvCall
    <2> QED BY <1>9, <2>3, <2>4, OneCallMoves DEF Env!UpdateRow, EnvTypeOK
  <1>10. ASSUME NEW c \in Tasks, Env!InsertRow(c)
         PROVE  EnvTypeOK'
    <2>1. call[c] \in SettingCall
      BY <1>10, EnvCallShapes DEF Env!InsertRow
    <2>2. call[c].v \in Env!Vars /\ call[c].text \in Value /\ call[c].secret \in BOOLEAN
      BY <2>1 DEF SettingCall
    <2>3. made' \in Nat
      BY <1>10 DEF Env!InsertRow, EnvTypeOK
    <2>4. rows' \in [Env!Vars -> [id : Nat, text : Value, secret : BOOLEAN]]
      BY <1>10, <2>2, <2>3 DEF Env!InsertRow, EnvTypeOK
    <2>5. Env!Idle \in EnvCall /\ Env!NextRow(c) \in EnvCall
      BY <2>1, NextRowIsEnvCall DEF EnvCall
    <2> QED BY <1>10, <2>3, <2>4, <2>5, OneCallMoves DEF Env!InsertRow, EnvTypeOK
  <1>11. ASSUME NEW c \in Tasks, NEW v \in Env!Vars, Env!FindDoomed(c, v)
         PROVE  EnvTypeOK'
    <2>1. [pc |-> "delete", v |-> v, row |-> rows[v].id, secret |-> rows[v].secret] \in EnvCall
      BY DEF EnvTypeOK, EnvCall
    <2> QED BY <1>11, <2>1, OneCallMoves DEF Env!FindDoomed, EnvTypeOK
  <1>12. ASSUME NEW c \in Tasks, Env!DeleteRow(c)
         PROVE  EnvTypeOK'
    <2>1. call[c].v \in Env!Vars
      BY <1>12, EnvCallShapes DEF Env!DeleteRow
    <2>2. Env!NoRow \in [id : Nat, text : Value, secret : BOOLEAN]
      BY DEF Env!NoRow, Value
    <2>3. [pc |-> "erase", v |-> call[c].v] \in EnvCall /\ Env!Idle \in EnvCall
      BY <2>1 DEF EnvCall
    <2> QED BY <1>12, <2>1, <2>2, <2>3, OneCallMoves DEF Env!DeleteRow, EnvTypeOK
  <1>13. ASSUME NEW c \in Tasks, Env!EraseSecret(c)
         PROVE  EnvTypeOK'
    <2>1. Env!Idle \in EnvCall
      BY DEF EnvCall
    <2> QED BY <1>13, <2>1, OneCallMoves DEF Env!EraseSecret, EnvTypeOK
  <1>14. ASSUME NEW c \in Tasks, Env!ListSource(c)
         PROVE  EnvTypeOK'
    <2> DEFINE from == call[c].from
               found == {k \in Keys : rows[<< from, k >>] # Env!NoRow}
               row(k) == [key |-> k, from |-> from, text |-> rows[<< from, k >>].text,
                          secret |-> rows[<< from, k >>].secret]
    <2>1. call[c] \in [pc : {"list"}, e : Envs, from : Envs]
      BY <1>14, EnvCallShapes DEF Env!ListSource
    <2>2. Cardinality(found) \in Nat /\ (Cardinality(found) = 0 <=> found = {})
      <3>1. IsFiniteSet(found)
        BY FS_Subset, SameSize DEF Env!EnvAssumption
      <3> QED BY <3>1, FS_CardinalityType, FS_EmptySet
    <2>3. \A k \in Keys : row(k) \in Copied
      <3> SUFFICES ASSUME NEW k \in Keys PROVE row(k) \in Copied
        OBVIOUS
      <3>1. << from, k >> \in Env!Vars
        BY <2>1 DEF Env!Vars
      <3> QED BY <2>1, <3>1 DEF EnvTypeOK, Copied
    <2>4. PICK order \in [1 .. Cardinality(found) -> found] :
            Env!Do(c, IF found = {} THEN Env!Idle
                  ELSE [pc |-> "next", e |-> call[c].e, rest |-> [i \in DOMAIN order |-> row(order[i])]])
      BY <1>14, SameSize DEF Env!ListSource
    <2>5. CASE found = {}
      BY <1>14, <2>4, <2>5, OneCallMoves DEF Env!ListSource, EnvTypeOK, EnvCall
    <2>6. CASE found # {}
      <3> DEFINE n == Cardinality(found)
                 rest == [i \in DOMAIN order |-> row(order[i])]
      <3>1. n \in Nat \ {0} /\ DOMAIN order = 1 .. n /\ \A i \in 1 .. n : order[i] \in Keys
        BY <2>2, <2>6
      <3>2. \A i \in 1 .. n : row(order[i]) \in Copied
        BY <3>1, <2>3
      <3> HIDE DEF n, found, row
      <3>3. rest \in Seq(Copied) /\ rest # << >>
        BY <3>1, <3>2
      <3> HIDE DEF rest
      <3>4. [pc |-> "next", e |-> call[c].e, rest |-> rest] \in EnvCall
        BY <2>1, <3>3 DEF EnvCall
      <3>5. Env!Do(c, [pc |-> "next", e |-> call[c].e, rest |-> rest])
        BY <2>4, <2>6 DEF rest
      <3> QED BY <1>14, <3>4, <3>5, OneCallMoves DEF Env!ListSource, EnvTypeOK
    <2> QED BY <2>5, <2>6
  <1>15. ASSUME NEW c \in Tasks, Env!CopyNext(c)
         PROVE  EnvTypeOK'
    <2> DEFINE row == Head(call[c].rest)
               rest == Tail(call[c].rest)
               v == << call[c].e, row.key >>
    <2>1. call[c] \in [pc : {"next"}, e : Envs, rest : Seq(Copied) \ {<< >>}]
      BY <1>15, EnvCallShapes DEF Env!CopyNext
    <2>2. row \in Copied /\ rest \in Seq(Copied)
      BY <2>1
    <2>3. v \in Env!Vars /\ row.text \in Value /\ row.secret \in BOOLEAN
          /\ << row.from, row.key >> \in Env!Vars
      BY <2>1, <2>2 DEF Copied, Env!Vars
    <2> HIDE DEF row, rest, v
    <2>4. /\ Env!Setting("insert", v, Sentinel, TRUE, rest) \in EnvCall
          /\ Env!Setting("find", v, Sentinel, TRUE, rest) \in EnvCall
          /\ Env!Setting("find", v, row.text, row.secret, rest) \in EnvCall
          /\ Env!Idle \in EnvCall
      BY <2>2, <2>3 DEF Env!Setting, EnvCall, SettingCall, Value
    <2>5. /\ \/ Env!Do(c, Env!Setting("insert", v, Sentinel, TRUE, rest))
             \/ Env!Do(c, Env!Setting("find", v, Sentinel, TRUE, rest))
             \/ Env!Do(c, Env!Setting("find", v, row.text, row.secret, rest))
             \/ Env!Do(c, Env!Idle)
      BY <1>15 DEF Env!CopyNext, Env!StoreSecret, row, rest, v
    <2>6. raced' = raced \/ raced' = raced \union {v}
      BY <1>15 DEF Env!CopyNext, Env!StoreSecret, row, v
    <2>7. \/ vault' = vault
          \/ vault' = [vault EXCEPT ![v] = vault[<< row.from, row.key >>]]
          \/ row.text \notin {Sentinel, None} /\ vault' = [vault EXCEPT ![v] = row.text]
      BY <1>15 DEF Env!CopyNext, Env!StoreSecret, row, v
    <2>8. vault' \in [Env!Vars -> Texts \union {None}] /\ raced' \subseteq Env!Vars
      BY <2>3, <2>6, <2>7 DEF EnvTypeOK, Value
    <2>9. call' \in [Tasks -> EnvCall]
      BY <2>4, <2>5, OneCallMoves
    <2> QED BY <1>15, <2>8, <2>9 DEF Env!CopyNext, EnvTypeOK
  <1>16. ASSUME NEW c \in Tasks, Env!Fail(c)
         PROVE  EnvTypeOK'
    <2>1. Env!Idle \in EnvCall
      BY DEF EnvCall
    <2> QED BY <1>16, <2>1, OneCallMoves DEF Env!Fail, EnvTypeOK
  <1>17. CASE UNCHANGED envVars
    BY <1>17 DEF envVars, EnvTypeOK
  <1> QED
    BY <1>1, <1>2, <1>3, <1>4, <1>5, <1>6, <1>7, <1>8, <1>9, <1>10, <1>11, <1>12, <1>13, <1>14,
       <1>15, <1>16, <1>17, EnvCases

-----------------------------------------------------------------------------
(* The active environment                                                  *)

\* Unless the last activation was overlapped, one environment is active at most, and once
\* it is, every call that has still to activate one is overlapped itself.
ActiveInv ==
    ~blurred =>
      /\ \A x, y \in active : x = y
      /\ active # {} => \A c \in Tasks : call[c].pc = "activate" => call[c].over

LEMMA InitActiveInv == Env!EnvInit => ActiveInv
  BY DEF Env!EnvInit, ActiveInv

\* Every other step leaves the calls that are about to activate one alone.
LEMMA NextActiveInv ==
    ASSUME EnvTypeOK, ActiveInv, [Env!EnvNext]_envVars
    PROVE  ActiveInv'
  <1>1. ASSUME NEW c \in Tasks, NEW e \in Envs \union {None}, Env!ClearActive(c, e)
        PROVE  ActiveInv'
    BY <1>1 DEF Env!ClearActive, ActiveInv
  <1>2. ASSUME NEW c \in Tasks, Env!Activate(c)
        PROVE  ActiveInv'
    <2> SUFFICES ASSUME ~blurred' PROVE ActiveInv'
      BY DEF ActiveInv
    <2>1. ~blurred /\ ~call[c].over
      BY <1>2 DEF Env!Activate, EnvTypeOK
    <2>2. active = {}
      BY <1>2, <2>1 DEF Env!Activate, ActiveInv
    <2>3. \A x, y \in active' : x = y
      BY <1>2, <2>2 DEF Env!Activate
    <2>4. \A d \in Tasks : call'[d].pc = "activate" => call'[d].over
      <3> SUFFICES ASSUME NEW d \in Tasks, call'[d].pc = "activate" PROVE call'[d].over
        OBVIOUS
      <3>1. d # c /\ call[d].pc = "activate"
        BY <1>2 DEF Env!Activate, Env!Idle
      <3>2. call[d] \in [pc : {"activate"}, e : Envs, over : BOOLEAN]
        BY <3>1, EnvCallShapes
      <3> QED BY <1>2, <3>1, <3>2 DEF Env!Activate
    <2> QED BY <2>3, <2>4 DEF ActiveInv
  <1>3. ASSUME active' \subseteq active, blurred' = blurred,
               \A d \in Tasks : call'[d] = call[d] \/ call'[d].pc # "activate"
        PROVE  ActiveInv'
    BY <1>3 DEF ActiveInv
  <1>4. ASSUME NEW c \in Tasks, NEW next, next.pc # "activate", Env!Do(c, next),
               active' = active, blurred' = blurred
        PROVE  ActiveInv'
    BY <1>3, <1>4 DEF Env!Do, EnvTypeOK
  <1>5. ASSUME NEW c \in Tasks,
               \/ Env!FindRow(c) \/ Env!UpdateRow(c) \/ Env!InsertRow(c)
               \/ Env!DeleteRow(c) \/ Env!EraseSecret(c) \/ Env!Fail(c)
        PROVE  ActiveInv'
    <2>1. active' = active /\ blurred' = blurred
      BY <1>5 DEF Env!FindRow, Env!UpdateRow, Env!InsertRow, Env!DeleteRow, Env!EraseSecret, Env!Fail
    <2>2. \A d \in Tasks : call'[d] = call[d] \/ call'[d].pc # "activate"
      <3>1. CASE Env!FindRow(c)
        <4>1. call[c] \in SettingCall
          BY <3>1, EnvCallShapes DEF Env!FindRow
        <4> QED BY <3>1, <4>1 DEF Env!FindRow, Env!Do, EnvTypeOK, SettingCall
      <3>2. CASE Env!UpdateRow(c) \/ Env!InsertRow(c)
        BY <3>2 DEF Env!UpdateRow, Env!InsertRow, Env!NextRow, Env!Idle, Env!Do, EnvTypeOK
      <3>3. CASE Env!DeleteRow(c) \/ Env!EraseSecret(c) \/ Env!Fail(c)
        BY <3>3 DEF Env!DeleteRow, Env!EraseSecret, Env!Fail, Env!Idle, Env!Do, EnvTypeOK
      <3> QED BY <1>5, <3>1, <3>2, <3>3
    <2> QED BY <1>3, <2>1, <2>2
  <1>6. ASSUME NEW c \in Tasks, Env!ListSource(c) \/ Env!CopyNext(c)
        PROVE  ActiveInv'
    <2>1. active' = active /\ blurred' = blurred
      BY <1>6 DEF Env!ListSource, Env!CopyNext
    <2>2. \A d \in Tasks : call'[d] = call[d] \/ call'[d].pc # "activate"
      <3>1. CASE Env!ListSource(c)
        <4>1. PICK rest : Env!Do(c, Env!Idle) \/ Env!Do(c, [pc |-> "next", e |-> call[c].e, rest |-> rest])
          BY <3>1 DEF Env!ListSource
        <4> QED BY <4>1 DEF Env!Do, Env!Idle, EnvTypeOK
      <3>2. CASE Env!CopyNext(c)
        <4>1. \E pc \in {"insert", "find"} : \E v, text, secret, rest :
                 Env!Do(c, Env!Setting(pc, v, text, secret, rest)) \/ Env!Do(c, Env!Idle)
          BY <3>2 DEF Env!CopyNext, Env!StoreSecret
        <4> QED BY <4>1 DEF Env!Do, Env!Idle, Env!Setting, EnvTypeOK
      <3> QED BY <1>6, <3>1, <3>2
    <2> QED BY <1>3, <2>1, <2>2
  <1>7. ASSUME NEW c \in Tasks, NEW v \in Env!Vars, NEW text \in Texts \union {None}, NEW secret \in BOOLEAN,
               Env!SetVariable(c, v, text, secret)
        PROVE  ActiveInv'
    BY <1>7, <1>4 DEF Env!SetVariable, Env!StoreSecret, Env!Setting
  <1>8. ASSUME NEW c \in Tasks, NEW e \in Envs, NEW n \in EnvNames, Env!FindSource(c, e, n)
        PROVE  ActiveInv'
    BY <1>8, <1>4 DEF Env!FindSource
  <1>9. ASSUME NEW c \in Tasks, NEW v \in Env!Vars, Env!FindDoomed(c, v)
        PROVE  ActiveInv'
    BY <1>9, <1>4 DEF Env!FindDoomed
  <1>10. ASSUME NEW c \in Tasks, NEW e \in Envs, Env!InsertCopy(c, e)
         PROVE  ActiveInv'
    BY <1>10, <1>4 DEF Env!InsertCopy
  <1>11. ASSUME NEW c \in Tasks, NEW e \in Envs, Env!DeleteEnvironment(c, e)
         PROVE  ActiveInv'
    BY <1>11, <1>3 DEF Env!DeleteEnvironment
  <1>12. ASSUME NEW c \in Tasks, NEW e \in Envs, NEW n \in EnvNames, Env!CreateEnvironment(c, e, n)
         PROVE  ActiveInv'
    BY <1>12, <1>3 DEF Env!CreateEnvironment
  <1>13. CASE UNCHANGED envVars
    BY <1>13, <1>3 DEF envVars
  <1> QED
    BY <1>1, <1>2, <1>5, <1>6, <1>7, <1>8, <1>9, <1>10, <1>11, <1>12, <1>13, EnvCases

LEMMA OneAtMost ==
    ASSUME ActiveInv
    PROVE  Env!OneActive
  <1> SUFFICES ASSUME ~blurred PROVE Cardinality(active) <= 1
    BY SameSize DEF Env!OneActive
  <1>1. CASE active = {}
    BY <1>1, FS_EmptySet
  <1>2. CASE active # {}
    <2>1. PICK x \in active : TRUE
      BY <1>2
    <2>2. active = {x}
      BY <2>1 DEF ActiveInv
    <2>3. Cardinality({x}) = 1
      BY FS_Singleton
    <2> QED BY <2>2, <2>3
  <1> QED BY <1>1, <1>2

\* There are never two active environments, whatever statements fail, as long as the
\* activations of two callers do not overlap.
THEOREM ActiveIsOne == Spec => []OneActive
  <1>1. Init => EnvTypeOK /\ ActiveInv
    BY InitOfAll, InitEnvTypeOK, InitActiveInv, BoundsAssumption
  <1>2. EnvTypeOK /\ ActiveInv /\ [Next]_vars => (EnvTypeOK /\ ActiveInv)'
    BY NextOfAll, NextEnvTypeOK, NextActiveInv, BoundsAssumption
  <1>3. ActiveInv => OneActive
    BY OneAtMost DEF OneActive
  <1> QED BY <1>1, <1>2, <1>3, PTL DEF Spec

-----------------------------------------------------------------------------
(* Secrets of rows                                                         *)

\* The sentinel of v is in the table, or a call has it in hand to write it.
SecretRow(v) == rows[v].secret /\ rows[v].text = Sentinel
Carries(c, v) == /\ call[c].pc \in {"find", "update", "insert"} /\ call[c].v = v
                 /\ call[c].secret /\ call[c].text = Sentinel
Held(v) == SecretRow(v) \/ \E c \in Tasks : Carries(c, v)
Erasing(c, v) == call[c].pc = "erase" /\ call[c].v = v

\* What is held is in the keychain, and no call is about to erase it.
SecretInv ==
    \A v \in Env!Vars \ raced :
      Held(v) => vault[v] # None /\ \A c \in Tasks : ~Erasing(c, v)

LEMMA InitSecretInv == ASSUME Env!EnvAssumption, Env!EnvInit PROVE SecretInv
  <1>1. \A v \in Env!Vars : rows[v].text # Sentinel
    BY DEF Env!EnvAssumption, Env!EnvInit, Env!Vars, Env!NoRow
  <1>2. \A c \in Tasks : call[c].pc = "idle"
    BY DEF Env!EnvInit, Env!Idle
  <1> QED BY <1>1, <1>2 DEF SecretInv, Held, SecretRow, Carries

\* A step that neither touches the keychain nor takes a secret in hand.
LEMMA NothingStored ==
    ASSUME SecretInv, raced \subseteq raced', vault' = vault,
           \A v \in Env!Vars : SecretRow(v)' => Held(v),
           \A v \in Env!Vars, c \in Tasks : Carries(c, v)' => Held(v),
           \A v \in Env!Vars, c \in Tasks : Erasing(c, v)' => Erasing(c, v)
    PROVE  SecretInv'
  <1> SUFFICES ASSUME NEW v \in Env!Vars \ raced', Held(v)'
               PROVE  vault'[v] # None /\ \A c \in Tasks : ~Erasing(c, v)'
    BY DEF SecretInv
  <1>1. Held(v)
    BY DEF Held
  <1>2. v \in Env!Vars \ raced
    OBVIOUS
  <1> QED BY <1>1, <1>2 DEF SecretInv

\* The same, for a step of one call that leaves the rows alone.
LEMMA NothingTaken ==
    ASSUME EnvTypeOK, SecretInv, NEW c \in Tasks, NEW next, Env!Do(c, next),
           UNCHANGED << rows, vault, raced >>, next.pc # "erase",
           next.pc \in {"find", "update", "insert"} /\ next.secret =>
             next.text # Sentinel \/ Carries(c, next.v)
    PROVE  SecretInv'
  <1>1. \A d \in Tasks : call'[d] = IF d = c THEN next ELSE call[d]
    BY DEF Env!Do, EnvTypeOK
  <1>2. \A v \in Env!Vars : SecretRow(v)' => Held(v)
    BY DEF SecretRow, Held
  <1>3. \A v \in Env!Vars, d \in Tasks : Carries(d, v)' => Held(v)
    BY <1>1 DEF Carries, Held
  <1>4. \A v \in Env!Vars, d \in Tasks : Erasing(d, v)' => Erasing(d, v)
    BY <1>1 DEF Erasing
  <1> QED BY <1>2, <1>3, <1>4, NothingStored

\* A secret is put into the keychain and taken in hand while no call is about to
\* erase it; otherwise its variable is set apart.
LEMMA SecretStored ==
    ASSUME EnvTypeOK, SecretInv, NEW c \in Tasks, NEW v \in Env!Vars, NEW text, text # None,
           NEW pc \in {"find", "insert"}, NEW rest,
           vault' = [vault EXCEPT ![v] = text], rows' = rows,
           raced' = IF Env!Erases(v) = {} THEN raced ELSE raced \union {v},
           Env!Do(c, Env!Setting(pc, v, Sentinel, TRUE, rest))
    PROVE  SecretInv'
  <1> SUFFICES ASSUME NEW w \in Env!Vars \ raced', Held(w)'
               PROVE  vault'[w] # None /\ \A d \in Tasks : ~Erasing(d, w)'
    BY DEF SecretInv
  <1>1. \A d \in Tasks : call'[d] = IF d = c THEN Env!Setting(pc, v, Sentinel, TRUE, rest) ELSE call[d]
    BY DEF Env!Do, EnvTypeOK
  <1>2. \A d \in Tasks : Erasing(d, w)' => Erasing(d, w)
    BY <1>1 DEF Erasing, Env!Setting
  <1>3. CASE w = v
    <2>1. Env!Erases(v) = {}
      BY <1>3
    <2>2. \A d \in Tasks : ~Erasing(d, v)
      BY <2>1 DEF Env!Erases, Erasing
    <2> QED BY <1>2, <1>3, <2>2 DEF EnvTypeOK
  <1>4. CASE w # v
    <2>1. Held(w)
      BY <1>1, <1>4 DEF Held, SecretRow, Carries, Env!Setting
    <2>2. vault'[w] = vault[w] /\ w \in Env!Vars \ raced
      BY <1>4 DEF EnvTypeOK
    <2> QED BY <1>2, <2>1, <2>2 DEF SecretInv
  <1> QED BY <1>3, <1>4

LEMMA NextSecretInv ==
    ASSUME Env!EnvAssumption, EnvTypeOK, SecretInv, [Env!EnvNext]_envVars
    PROVE  SecretInv'
  <1>0. /\ None # Sentinel /\ Env!NoRow.text = None
        /\ \A text \in Texts \union {None} : text # Sentinel
    BY DEF Env!EnvAssumption, Env!NoRow
  <1>1. ASSUME NEW c \in Tasks, NEW e \in Envs, NEW n \in EnvNames, Env!CreateEnvironment(c, e, n)
        PROVE  SecretInv'
    BY <1>1, NothingStored DEF Env!CreateEnvironment, SecretRow, Carries, Erasing, Held
  <1>2. ASSUME NEW c \in Tasks, NEW e \in Envs, NEW n \in EnvNames, Env!FindSource(c, e, n)
        PROVE  SecretInv'
    BY <1>2, NothingTaken DEF Env!FindSource
  <1>3. ASSUME NEW c \in Tasks, NEW e \in Envs, Env!DeleteEnvironment(c, e)
        PROVE  SecretInv'
    BY <1>0, <1>3, NothingStored DEF Env!DeleteEnvironment, SecretRow, Carries, Erasing, Held
  <1>4. ASSUME NEW c \in Tasks, NEW e \in Envs, Env!InsertCopy(c, e)
        PROVE  SecretInv'
    BY <1>4, NothingTaken DEF Env!InsertCopy
  <1>5. ASSUME UNCHANGED << rows, vault, raced >>,
               \A d \in Tasks : call'[d] = call[d] \/ call'[d].pc \in {"idle", "activate"}
        PROVE  SecretInv'
    BY <1>5, NothingStored DEF SecretRow, Carries, Erasing, Held
  <1>6. ASSUME NEW c \in Tasks, NEW e \in Envs \union {None}, Env!ClearActive(c, e)
        PROVE  SecretInv'
    <2>1. \A d \in Tasks : call'[d] = call[d] \/ call'[d].pc \in {"idle", "activate"}
      <3> SUFFICES ASSUME NEW d \in Tasks, call[d].pc = "activate", d # c
                   PROVE  call'[d].pc = "activate"
        BY <1>6 DEF Env!ClearActive, Env!Idle
      <3>1. call[d] \in [pc : {"activate"}, e : Envs, over : BOOLEAN]
        BY EnvCallShapes
      <3> QED BY <1>6, <3>1 DEF Env!ClearActive
    <2> QED BY <1>5, <1>6, <2>1 DEF Env!ClearActive
  <1>7. ASSUME NEW c \in Tasks, Env!Activate(c)
        PROVE  SecretInv'
    <2>1. \A d \in Tasks : call'[d] = call[d] \/ call'[d].pc \in {"idle", "activate"}
      <3> SUFFICES ASSUME NEW d \in Tasks, call[d].pc = "activate", d # c
                   PROVE  call'[d].pc = "activate"
        BY <1>7 DEF Env!Activate, Env!Idle
      <3>1. call[d] \in [pc : {"activate"}, e : Envs, over : BOOLEAN]
        BY EnvCallShapes
      <3> QED BY <1>7, <3>1 DEF Env!Activate
    <2> QED BY <1>5, <1>7, <2>1 DEF Env!Activate
  <1>8. ASSUME NEW c \in Tasks, NEW v \in Env!Vars, NEW text \in Texts \union {None}, NEW secret \in BOOLEAN,
               Env!SetVariable(c, v, text, secret)
        PROVE  SecretInv'
    <2>1. CASE secret /\ text # None /\ Env!StoreSecret(c, v, text, << >>)
      BY <1>8, <2>1, SecretStored DEF Env!SetVariable, Env!StoreSecret
    <2>2. CASE Env!Do(c, Env!Setting("find", v, text, secret, << >>)) /\ UNCHANGED << vault, raced >>
      <3>1. Env!Setting("find", v, text, secret, << >>).text # Sentinel
            /\ Env!Setting("find", v, text, secret, << >>).pc = "find"
        BY <1>0 DEF Env!Setting
      <3> QED BY <1>8, <2>2, <3>1, NothingTaken DEF Env!SetVariable
    <2> QED BY <1>8, <2>1, <2>2 DEF Env!SetVariable
  <1>9. ASSUME NEW c \in Tasks, Env!FindRow(c)
        PROVE  SecretInv'
    <2> DEFINE next == [call[c] EXCEPT !.pc = IF rows[call[c].v] = Env!NoRow THEN "insert" ELSE "update",
                                       !.row = rows[call[c].v].id]
    <2>1. call[c] \in SettingCall /\ call[c].pc = "find"
      BY <1>9, EnvCallShapes DEF Env!FindRow
    <2>2. /\ next.pc # "erase" /\ next.v = call[c].v
          /\ next.secret = call[c].secret /\ next.text = call[c].text
      BY <2>1 DEF SettingCall
    <2>3. Env!Do(c, next) /\ UNCHANGED << rows, vault, raced >>
      BY <1>9 DEF Env!FindRow
    <2> HIDE DEF next
    <2>4. next.secret /\ next.text = Sentinel => Carries(c, next.v)
      BY <2>1, <2>2 DEF Carries
    <2> QED BY <2>2, <2>3, <2>4, NothingTaken
  <1>10. ASSUME NEW c \in Tasks, Env!UpdateRow(c) \/ Env!InsertRow(c)
         PROVE  SecretInv'
    <2> DEFINE v == call[c].v
    <2>1. call[c] \in SettingCall
      BY <1>10, EnvCallShapes DEF Env!UpdateRow, Env!InsertRow
    <2>2. v \in Env!Vars /\ UNCHANGED << vault, raced >>
      BY <1>10, <2>1 DEF Env!UpdateRow, Env!InsertRow, SettingCall
    <2>3. \A d \in Tasks : call'[d] = call[d] \/ call'[d].pc \in {"idle", "next"}
      BY <1>10 DEF Env!UpdateRow, Env!InsertRow, Env!NextRow, Env!Idle, Env!Do, EnvTypeOK
    <2>4. \A w \in Env!Vars \ {v} : rows'[w] = rows[w]
      BY <1>10 DEF Env!UpdateRow, Env!InsertRow, EnvTypeOK
    <2>5. \/ rows'[v] = rows[v]
          \/ rows'[v].text = call[c].text /\ rows'[v].secret = call[c].secret
      BY <1>10, <2>2 DEF Env!UpdateRow, Env!InsertRow, EnvTypeOK
    <2>6. call[c].pc \in {"update", "insert"}
      BY <1>10 DEF Env!UpdateRow, Env!InsertRow
    <2>7. \A w \in Env!Vars : SecretRow(w)' => Held(w)
      BY <2>4, <2>5, <2>6 DEF SecretRow, Held, Carries
    <2>8. \A w \in Env!Vars, d \in Tasks : Carries(d, w)' => Held(w)
      BY <2>3 DEF Carries, Held
    <2>9. \A w \in Env!Vars, d \in Tasks : Erasing(d, w)' => Erasing(d, w)
      BY <2>3 DEF Erasing
    <2> QED BY <2>2, <2>7, <2>8, <2>9, NothingStored
  <1>11. ASSUME NEW c \in Tasks, NEW v \in Env!Vars, Env!FindDoomed(c, v)
         PROVE  SecretInv'
    BY <1>11, NothingTaken DEF Env!FindDoomed
  <1>12. ASSUME NEW c \in Tasks, Env!DeleteRow(c)
         PROVE  SecretInv'
    <2> SUFFICES ASSUME NEW w \in Env!Vars \ raced', Held(w)'
                 PROVE  vault'[w] # None /\ \A d \in Tasks : ~Erasing(d, w)'
      BY DEF SecretInv
    <2> DEFINE v == call[c].v
               found == rows[v].id = call[c].row
    <2>1. v \in Env!Vars
      BY <1>12, EnvCallShapes DEF Env!DeleteRow
    <2>2. vault' = vault /\ w \notin raced
      BY <1>12 DEF Env!DeleteRow
    <2>3. \A d \in Tasks \ {c} : call'[d] = call[d]
      BY <1>12 DEF Env!DeleteRow, Env!Do, EnvTypeOK
    <2>4. call'[c] = IF found /\ call[c].secret THEN [pc |-> "erase", v |-> v] ELSE Env!Idle
      BY <1>12 DEF Env!DeleteRow, Env!Do, EnvTypeOK
    <2>5. rows'[w] = IF found /\ w = v THEN Env!NoRow ELSE rows[w]
      BY <1>12, <2>1 DEF Env!DeleteRow, EnvTypeOK
    <2>6. Held(w)
      <3>1. \A d \in Tasks : Carries(d, w)' => Carries(d, w)
        BY <2>3, <2>4 DEF Carries, Env!Idle
      <3>2. SecretRow(w)' => SecretRow(w)
        BY <1>0, <2>5 DEF SecretRow
      <3> QED BY <3>1, <3>2 DEF Held
    <2>7. vault[w] # None /\ \A d \in Tasks : ~Erasing(d, w)
      BY <2>2, <2>6 DEF SecretInv
    <2>8. CASE found /\ w = v
      <3>1. Env!Sets(v) = {}
        BY <1>12, <2>8 DEF Env!DeleteRow
      <3>2. ~SecretRow(w)'
        BY <1>0, <2>5, <2>8 DEF SecretRow
      <3>3. PICK d \in Tasks : Carries(d, w)'
        BY <3>2 DEF Held
      <3>4. d # c /\ call'[d] = call[d]
        BY <2>3, <2>4, <3>3 DEF Carries, Env!Idle
      <3>5. d \in Env!Sets(v)
        BY <2>8, <3>3, <3>4 DEF Carries, Env!Sets
      <3> QED BY <3>1, <3>5
    <2>9. CASE ~(found /\ w = v)
      <3>1. \A d \in Tasks : Erasing(d, w)' => Erasing(d, w)
        BY <2>3, <2>4, <2>9 DEF Erasing, Env!Idle
      <3> QED BY <2>2, <2>7, <3>1
    <2> QED BY <2>8, <2>9
  <1>13. ASSUME NEW c \in Tasks, Env!EraseSecret(c)
         PROVE  SecretInv'
    <2> SUFFICES ASSUME NEW w \in Env!Vars \ raced', Held(w)'
                 PROVE  vault'[w] # None /\ \A d \in Tasks : ~Erasing(d, w)'
      BY DEF SecretInv
    <2>1. \A d \in Tasks : call'[d] = IF d = c THEN Env!Idle ELSE call[d]
      BY <1>13 DEF Env!EraseSecret, Env!Do, EnvTypeOK
    <2>2. Held(w)
      BY <1>13, <2>1 DEF Env!EraseSecret, Held, SecretRow, Carries, Env!Idle
    <2>3. vault[w] # None /\ \A d \in Tasks : ~Erasing(d, w)
      BY <1>13, <2>2 DEF Env!EraseSecret, SecretInv
    <2>4. w # call[c].v
      BY <1>13, <2>3 DEF Env!EraseSecret, Erasing
    <2>5. vault'[w] = vault[w]
      BY <1>13, <2>4 DEF Env!EraseSecret, EnvTypeOK
    <2>6. \A d \in Tasks : Erasing(d, w)' => Erasing(d, w)
      BY <2>1 DEF Erasing, Env!Idle
    <2> QED BY <2>3, <2>5, <2>6
  <1>14. ASSUME NEW c \in Tasks, Env!ListSource(c)
         PROVE  SecretInv'
    <2>1. PICK rest : Env!Do(c, Env!Idle) \/ Env!Do(c, [pc |-> "next", e |-> call[c].e, rest |-> rest])
      BY <1>14 DEF Env!ListSource
    <2>2. UNCHANGED << rows, vault, raced >>
      BY <1>14 DEF Env!ListSource
    <2> QED BY <2>1, <2>2, NothingTaken DEF Env!Idle
  <1>15. ASSUME NEW c \in Tasks, Env!CopyNext(c)
         PROVE  SecretInv'
    <2> DEFINE row == Head(call[c].rest)
               rest == Tail(call[c].rest)
               v == << call[c].e, row.key >>
               secret == vault[<< row.from, row.key >>]
    <2>1. call[c] \in [pc : {"next"}, e : Envs, rest : Seq(Copied) \ {<< >>}]
      BY <1>15, EnvCallShapes DEF Env!CopyNext
    <2>2. row \in Copied
      BY <2>1
    <2>3. v \in Env!Vars
      BY <2>1, <2>2 DEF Copied, Env!Vars
    <2>4. rows' = rows
      BY <1>15 DEF Env!CopyNext
    <2> HIDE DEF row, rest, v, secret
    <2>5. CASE /\ secret # None /\ vault' = [vault EXCEPT ![v] = secret]
               /\ raced' = IF Env!Erases(v) = {} THEN raced ELSE raced \union {v}
               /\ Env!Do(c, Env!Setting("insert", v, Sentinel, TRUE, rest))
      BY <2>3, <2>4, <2>5, SecretStored
    <2>6. CASE Env!Do(c, Env!Idle) /\ UNCHANGED << vault, raced >>
      BY <2>4, <2>6, NothingTaken DEF Env!Idle
    <2>7. CASE row.text \notin {Sentinel, None} /\ Env!StoreSecret(c, v, row.text, rest)
      BY <2>3, <2>4, <2>7, SecretStored DEF Env!StoreSecret
    <2>8. CASE /\ ~row.secret \/ row.text = None
               /\ Env!Do(c, Env!Setting("find", v, row.text, row.secret, rest))
               /\ UNCHANGED << vault, raced >>
      <3> DEFINE next == Env!Setting("find", v, row.text, row.secret, rest)
      <3>1. next.pc # "erase" /\ ~(next.secret /\ next.text = Sentinel)
        BY <1>0, <2>8 DEF Env!Setting
      <3> HIDE DEF next
      <3>2. Env!Do(c, next) /\ UNCHANGED << rows, vault, raced >>
        BY <2>4, <2>8 DEF next
      <3> QED BY <3>1, <3>2, NothingTaken
    <2>9. \/ /\ secret # None /\ vault' = [vault EXCEPT ![v] = secret]
             /\ raced' = IF Env!Erases(v) = {} THEN raced ELSE raced \union {v}
             /\ Env!Do(c, Env!Setting("insert", v, Sentinel, TRUE, rest))
          \/ Env!Do(c, Env!Idle) /\ UNCHANGED << vault, raced >>
          \/ row.text \notin {Sentinel, None} /\ Env!StoreSecret(c, v, row.text, rest)
          \/ /\ ~row.secret \/ row.text = None
             /\ Env!Do(c, Env!Setting("find", v, row.text, row.secret, rest))
             /\ UNCHANGED << vault, raced >>
      BY <1>15 DEF Env!CopyNext, row, rest, v, secret
    <2> QED BY <2>5, <2>6, <2>7, <2>8, <2>9
  <1>16. ASSUME NEW c \in Tasks, Env!Fail(c)
         PROVE  SecretInv'
    BY <1>16, NothingTaken DEF Env!Fail, Env!Idle
  <1>17. CASE UNCHANGED envVars
    BY <1>17, <1>5 DEF envVars
  <1> QED
    BY <1>1, <1>2, <1>3, <1>4, <1>6, <1>7, <1>8, <1>9, <1>10, <1>11, <1>12, <1>13, <1>14,
       <1>15, <1>16, <1>17, EnvCases

\* A row with the sentinel finds its secret in the keychain, whatever fails half way,
\* for variables that are not set and deleted at the same time.
THEOREM SecretsResolve == Spec => []SecretRowsResolve
  <1>1. Init => EnvTypeOK /\ SecretInv
    BY InitOfAll, InitEnvTypeOK, InitSecretInv, BoundsAssumption
  <1>2. EnvTypeOK /\ SecretInv /\ [Next]_vars => (EnvTypeOK /\ SecretInv)'
    BY NextOfAll, NextEnvTypeOK, NextSecretInv, BoundsAssumption
  <1>3. SecretInv => SecretRowsResolve
    BY DEF SecretInv, SecretRowsResolve, Env!SecretRowsResolve, Held, SecretRow
  <1> QED BY <1>1, <1>2, <1>3, PTL DEF Spec

-----------------------------------------------------------------------------
(* Cached schemas                                                          *)

Columns == UNION {Cache!ToSet(s) : s \in Schemas}
CacheRow == [conn : Conns, column : Columns, by : Nat, at : Nat]
Saves == {Cache!Ready}
         \union [pc : {"delete"}, conn : Conns, columns : Schemas, by : Nat]
         \union [pc : {"insert"}, conn : Conns, by : Nat, columns : Schemas, left : Seq(Columns),
                 since : Nat, alone : BOOLEAN]

CacheTypes ==
    /\ cached \subseteq CacheRow
    /\ save \in [Tasks -> Saves]
    /\ now \in Nat /\ saves \in Nat
    /\ settled \in [Conns -> Schemas \union {None}]

RowsOf(c) == {r \in cached : r.conn = c}
ColumnsOf(c) == {r.column : r \in RowsOf(c)}

\* A save that meets no other has inserted what it has not left, dated since it began.
AloneInserts ==
    \A p \in Tasks, c \in Conns :
      save[p].pc = "insert" /\ save[p].conn = c /\ save[p].alone =>
        /\ \A q \in Cache!Saving(c) : q = p
        /\ ColumnsOf(c) \union Cache!ToSet(save[p].left) = Cache!ToSet(save[p].columns)
        /\ \A r \in RowsOf(c) : r.by = save[p].by /\ save[p].since <= r.at /\ r.at <= now
        /\ save[p].since <= now

\* What a settled save has left: its columns, of one moment.
SettledRows ==
    \A c \in Conns :
      settled[c] # None =>
        /\ Cache!Saving(c) = {}
        /\ ColumnsOf(c) = Cache!ToSet(settled[c])
        /\ \A q, r \in RowsOf(c) : q.by = r.by /\ q.at = r.at

CacheInv == CacheTypes /\ AloneInserts /\ SettledRows

LEMMA SchemasAreColumns ==
    ASSUME NEW s \in Schemas
    PROVE  s \in Seq(Columns)
  <1>1. s \in Seq(Cache!ToSet(s)) /\ Cache!ToSet(s) \subseteq Columns
    BY BoundsAssumption DEF Cache!CacheAssumption, Columns
  <1> QED BY <1>1

LEMMA FirstAndRest ==
    ASSUME NEW S, NEW s \in Seq(S), s # << >>
    PROVE  /\ Head(s) \in S /\ Tail(s) \in Seq(S)
           /\ Cache!ToSet(s) = {Head(s)} \union Cache!ToSet(Tail(s))
  <1>1. /\ Head(s) = s[1] /\ Head(s) \in S /\ Tail(s) \in Seq(S) /\ Len(s) \in Nat \ {0}
        /\ DOMAIN s = 1 .. Len(s) /\ DOMAIN Tail(s) = 1 .. (Len(s) - 1)
        /\ \A i \in 1 .. (Len(s) - 1) : Tail(s)[i] = s[i + 1]
    OBVIOUS
  <1>2. Cache!ToSet(s) \subseteq {Head(s)} \union Cache!ToSet(Tail(s))
    <2> SUFFICES ASSUME NEW i \in 1 .. Len(s), i # 1 PROVE s[i] \in Cache!ToSet(Tail(s))
      BY <1>1 DEF Cache!ToSet
    <2>1. i - 1 \in 1 .. (Len(s) - 1) /\ Tail(s)[i - 1] = s[i]
      BY <1>1
    <2> QED BY <1>1, <2>1 DEF Cache!ToSet
  <1>3. {Head(s)} \union Cache!ToSet(Tail(s)) \subseteq Cache!ToSet(s)
    <2>1. 1 \in DOMAIN s /\ \A i \in 1 .. (Len(s) - 1) : i + 1 \in DOMAIN s
      BY <1>1
    <2> QED BY <1>1, <2>1 DEF Cache!ToSet
  <1> QED BY <1>1, <1>2, <1>3

LEMMA SaveShapes ==
    ASSUME CacheTypes, NEW p \in Tasks
    PROVE  /\ save[p].pc = "delete" =>
                save[p] \in [pc : {"delete"}, conn : Conns, columns : Schemas, by : Nat]
           /\ save[p].pc = "insert" =>
                save[p] \in [pc : {"insert"}, conn : Conns, by : Nat, columns : Schemas, left : Seq(Columns),
                             since : Nat, alone : BOOLEAN]
  <1>1. save[p] \in Saves
    BY DEF CacheTypes
  <1> QED BY <1>1 DEF Saves, Cache!Ready

LEMMA InitCacheInv == Init => CacheInv
  BY InitOfAll DEF Cache!CacheInit, Cache!Ready, CacheInv, CacheTypes, Saves, AloneInserts, SettledRows

\* A save begins or ends, and touches no rows.
LEMMA NoRowTouched ==
    ASSUME CacheInv, NEW p \in Tasks, NEW next \in Saves, next.pc # "insert",
           save' = [save EXCEPT ![p] = next], UNCHANGED << cached, now, settled >>, saves' \in Nat
    PROVE  CacheInv'
  <1>1. \A q \in Tasks : save'[q] = IF q = p THEN next ELSE save[q]
    BY DEF CacheInv, CacheTypes
  <1>2. \A c \in Conns : Cache!Saving(c)' \subseteq Cache!Saving(c)
    BY <1>1 DEF Cache!Saving
  <1>3. CacheTypes'
    BY DEF CacheInv, CacheTypes
  <1>4. \A c : RowsOf(c)' = RowsOf(c) /\ ColumnsOf(c)' = ColumnsOf(c)
    BY DEF RowsOf, ColumnsOf
  <1>5. AloneInserts'
    <2>1. \A q \in Tasks : save'[q] = save[q] \/ save'[q].pc # "insert"
      BY <1>1
    <2> QED BY <1>2, <1>4, <2>1 DEF CacheInv, AloneInserts
  <1>6. SettledRows'
    BY <1>2, <1>4 DEF CacheInv, SettledRows
  <1> QED BY <1>3, <1>5, <1>6 DEF CacheInv

LEMMA NextCacheInv == CacheInv /\ [Cache!CacheNext]_cacheVars => CacheInv'
  <1> SUFFICES ASSUME CacheInv, [Cache!CacheNext]_cacheVars PROVE CacheInv'
    OBVIOUS
  <1> USE DEF CacheInv
  <1>1. ASSUME NEW p \in Tasks, NEW c \in Conns, NEW columns \in Schemas, Cache!Introspect(p, c, columns)
        PROVE  CacheInv'
    <2> DEFINE next == [pc |-> "delete", conn |-> c, columns |-> columns, by |-> saves + 1]
    <2>1. saves' = saves + 1 /\ saves' \in Nat
      BY <1>1 DEF Cache!Introspect, CacheTypes
    <2>2. next \in Saves /\ next.pc # "insert"
      BY <2>1 DEF Saves
    <2> QED BY <1>1, <2>1, <2>2, NoRowTouched DEF Cache!Introspect
  <1>2. ASSUME NEW p \in Tasks, Cache!CutShort(p)
        PROVE  CacheInv'
    BY <1>2, NoRowTouched DEF Cache!CutShort, Cache!Ready, Saves, CacheTypes
  <1>3. CASE Cache!Second
    <2>1. now' \in Nat /\ now < now' /\ UNCHANGED << cached, save, saves, settled >>
      BY <1>3 DEF Cache!Second, CacheTypes
    <2>2. \A c : RowsOf(c)' = RowsOf(c) /\ ColumnsOf(c)' = ColumnsOf(c) /\ Cache!Saving(c)' = Cache!Saving(c)
      BY <2>1 DEF RowsOf, ColumnsOf, Cache!Saving
    <2>3. \A r \in cached : r.at \in Nat
      BY DEF CacheTypes, CacheRow
    <2>4. AloneInserts'
      <3>1. \A n \in Nat : n <= now => n <= now'
        BY <2>1 DEF CacheTypes
      <3>2. \A p \in Tasks : save[p].pc = "insert" => save[p].since \in Nat
        BY SaveShapes
      <3> QED BY <2>1, <2>2, <2>3, <3>1, <3>2 DEF AloneInserts, RowsOf
    <2>5. SettledRows'
      BY <2>1, <2>2 DEF SettledRows
    <2> QED BY <2>1, <2>4, <2>5 DEF CacheTypes
  <1>4. ASSUME NEW p \in Tasks, Cache!DeleteRows(p)
        PROVE  CacheInv'
    <2>1. save[p] \in [pc : {"delete"}, conn : Conns, columns : Schemas, by : Nat]
      BY <1>4, SaveShapes DEF Cache!DeleteRows
    <2>a. PICK c \in Conns : c = save[p].conn
      BY <2>1
    <2> DEFINE next == [pc |-> "insert", conn |-> c, by |-> save[p].by,
                        columns |-> save[p].columns, left |-> save[p].columns,
                        since |-> now, alone |-> Cache!Saving(c) = {}]
    <2>2. next \in Saves
      <3>1. save[p].columns \in Seq(Columns) /\ (Cache!Saving(c) = {}) \in BOOLEAN
        BY <2>1, SchemasAreColumns
      <3> QED BY <2>1, <3>1 DEF Saves, CacheTypes
    <2>3. /\ next.pc = "insert" /\ next.conn = c /\ next.left = next.columns /\ next.since = now
          /\ next.alone => Cache!Saving(c) = {}
      OBVIOUS
    <2>4. /\ cached' = {r \in cached : r.conn # c}
          /\ settled' = [settled EXCEPT ![c] = None]
          /\ UNCHANGED << now, saves >>
          /\ DOMAIN save' = Tasks
          /\ \A q \in Tasks : save'[q] = IF q = p THEN next
                                         ELSE IF q \in Cache!Saving(c) THEN [save[q] EXCEPT !.alone = FALSE]
                                         ELSE save[q]
          /\ save' = [q \in Tasks |-> save'[q]]
      BY <1>4, <2>a DEF Cache!DeleteRows
    <2> HIDE DEF next
    <2>5. \A q \in Tasks \ {p} :
            /\ save'[q] \in Saves /\ save'[q].pc = save[q].pc
            /\ save[q].pc = "insert" =>
                 /\ save'[q].conn = save[q].conn
                 /\ save'[q].alone => save'[q] = save[q] /\ save[q].conn # c
      <3> TAKE q \in Tasks \ {p}
      <3>1. CASE q \in Cache!Saving(c)
        <4>1. save[q] \in [pc : {"insert"}, conn : Conns, by : Nat, columns : Schemas, left : Seq(Columns),
                           since : Nat, alone : BOOLEAN]
          BY <3>1, SaveShapes DEF Cache!Saving
        <4>2. save'[q] = [save[q] EXCEPT !.alone = FALSE]
          BY <2>4, <3>1
        <4>3. save'[q] \in [pc : {"insert"}, conn : Conns, by : Nat, columns : Schemas, left : Seq(Columns),
                            since : Nat, alone : BOOLEAN] /\ save'[q].alone = FALSE /\ save'[q].conn = save[q].conn
          BY <4>1, <4>2
        <4> QED BY <4>1, <4>3 DEF Saves
      <3>2. CASE q \notin Cache!Saving(c)
        BY <2>4, <3>2 DEF CacheTypes, Cache!Saving
      <3> QED BY <3>1, <3>2
    <2>6. CacheTypes'
      <3>1. \A q \in Tasks : save'[q] \in Saves
        BY <2>2, <2>4, <2>5
      <3>2. save' \in [Tasks -> Saves]
        BY <2>4, <3>1
      <3> QED BY <2>4, <3>2 DEF CacheTypes
    <2>7. RowsOf(c)' = {} /\ \A d \in Conns \ {c} : RowsOf(d)' = RowsOf(d)
      BY <2>4 DEF RowsOf
    <2>8. ColumnsOf(c)' = {} /\ \A d \in Conns \ {c} : ColumnsOf(d)' = ColumnsOf(d)
      BY <2>7 DEF ColumnsOf
    <2>9. /\ Cache!Saving(c)' = Cache!Saving(c) \union {p}
          /\ \A d \in Conns \ {c} : Cache!Saving(d)' = Cache!Saving(d)
      <3>1. \A q \in Tasks \ {p} : \A d : (save'[q].pc = "insert" /\ save'[q].conn = d)
                                           <=> (save[q].pc = "insert" /\ save[q].conn = d)
        BY <2>5
      <3>2. save'[p] = next
        BY <2>4
      <3> QED BY <2>1, <2>3, <3>1, <3>2 DEF Cache!Saving
    <2>10. AloneInserts'
      <3> SUFFICES ASSUME NEW q \in Tasks, NEW d \in Conns,
                          save'[q].pc = "insert", save'[q].conn = d, save'[q].alone
                   PROVE  /\ \A o \in Cache!Saving(d)' : o = q
                          /\ ColumnsOf(d)' \union Cache!ToSet(save'[q].left) = Cache!ToSet(save'[q].columns)
                          /\ \A r \in RowsOf(d)' : r.by = save'[q].by /\ save'[q].since <= r.at /\ r.at <= now'
                          /\ save'[q].since <= now'
        BY DEF AloneInserts
      <3>1. CASE q = p
        <4>1. save'[q] = next
          BY <2>4, <3>1
        <4>2. d = c /\ Cache!Saving(c)' = {p}
          BY <2>3, <2>9, <4>1
        <4> QED BY <2>3, <2>4, <2>7, <2>8, <3>1, <4>1, <4>2 DEF CacheTypes
      <3>2. CASE q # p
        <4>1. save'[q] = save[q] /\ save[q].conn # c /\ save[q].pc = "insert"
          BY <2>5, <3>2
        <4> QED BY <2>4, <2>7, <2>8, <2>9, <4>1 DEF AloneInserts
      <3> QED BY <3>1, <3>2
    <2>11. SettledRows'
      <3>1. settled'[c] = None /\ \A d \in Conns \ {c} : settled'[d] = settled[d]
        BY <2>4 DEF CacheTypes
      <3> QED BY <2>7, <2>8, <2>9, <3>1 DEF SettledRows
    <2> QED BY <2>6, <2>10, <2>11
  <1>5. ASSUME NEW p \in Tasks, Cache!InsertRow(p)
        PROVE  CacheInv'
    <2>0. PICK c \in Conns : c = save[p].conn
      BY <1>5, SaveShapes DEF Cache!InsertRow
    <2> DEFINE s == save[p]
               taken == c \in Servers /\ \E r \in cached : r.conn = c /\ r.column = Head(s.left)
               row == [conn |-> c, column |-> Head(s.left), by |-> s.by, at |-> now]
               next == [s EXCEPT !.left = Tail(@)]
    <2>1. s \in [pc : {"insert"}, conn : Conns, by : Nat, columns : Schemas, left : Seq(Columns),
                 since : Nat, alone : BOOLEAN]
      BY <1>5, SaveShapes DEF Cache!InsertRow
    <2>2. s.left # << >>
      BY <1>5 DEF Cache!InsertRow
    <2>3. CASE taken
      <3>1. save' = [save EXCEPT ![p] = Cache!Ready] /\ UNCHANGED << cached, now, saves, settled >>
        BY <1>5, <2>0, <2>3 DEF Cache!InsertRow
      <3>2. Cache!Ready \in Saves /\ Cache!Ready.pc # "insert"
        BY DEF Saves, Cache!Ready
      <3> QED BY <3>1, <3>2, NoRowTouched DEF CacheTypes
    <2>4. CASE ~taken
      <3>1. /\ save' = [save EXCEPT ![p] = next] /\ cached' = cached \union {row}
            /\ UNCHANGED << now, saves, settled >>
        BY <1>5, <2>0, <2>4 DEF Cache!InsertRow
      <3>2. /\ Head(s.left) \in Columns /\ Tail(s.left) \in Seq(Columns)
            /\ Cache!ToSet(s.left) = {Head(s.left)} \union Cache!ToSet(Tail(s.left))
        BY <2>1, <2>2, FirstAndRest
      <3>3. /\ next \in [pc : {"insert"}, conn : Conns, by : Nat, columns : Schemas, left : Seq(Columns),
                         since : Nat, alone : BOOLEAN]
            /\ next.conn = c /\ next.by = s.by /\ next.columns = s.columns /\ next.left = Tail(s.left)
            /\ next.since = s.since /\ next.alone = s.alone /\ next.pc = "insert"
        BY <2>0, <2>1, <3>2
      <3>4. /\ row \in CacheRow /\ row.conn = c /\ row.column = Head(s.left) /\ row.by = s.by /\ row.at = now
            /\ s.conn = c /\ s.pc = "insert" /\ s.since \in Nat
        BY <2>0, <2>1, <3>2 DEF CacheRow, CacheTypes
      <3>5. \A q \in Tasks : save'[q] = IF q = p THEN next ELSE save[q]
        BY <3>1 DEF CacheTypes
      <3>6. p \in Cache!Saving(c)
        BY <3>4 DEF Cache!Saving
      <3> HIDE DEF taken, row, next
      <3>7. /\ RowsOf(c)' = RowsOf(c) \union {row} /\ ColumnsOf(c)' = ColumnsOf(c) \union {Head(s.left)}
            /\ \A d \in Conns \ {c} : RowsOf(d)' = RowsOf(d) /\ ColumnsOf(d)' = ColumnsOf(d)
        <4>1. RowsOf(c)' = RowsOf(c) \union {row} /\ \A d \in Conns \ {c} : RowsOf(d)' = RowsOf(d)
          BY <3>1, <3>4 DEF RowsOf
        <4> QED BY <3>4, <4>1 DEF ColumnsOf
      <3>8. \A d : Cache!Saving(d)' = Cache!Saving(d)
        BY <3>3, <3>4, <3>5 DEF Cache!Saving
      <3>9. CacheTypes'
        <4>1. next \in Saves
          BY <3>3 DEF Saves
        <4> QED BY <3>1, <3>4, <4>1 DEF CacheTypes
      <3>10. AloneInserts'
        <4> SUFFICES ASSUME NEW q \in Tasks, NEW d \in Conns,
                            save'[q].pc = "insert", save'[q].conn = d, save'[q].alone
                     PROVE  /\ \A o \in Cache!Saving(d)' : o = q
                            /\ ColumnsOf(d)' \union Cache!ToSet(save'[q].left) = Cache!ToSet(save'[q].columns)
                            /\ \A r \in RowsOf(d)' : r.by = save'[q].by /\ save'[q].since <= r.at /\ r.at <= now'
                            /\ save'[q].since <= now'
          BY DEF AloneInserts
        <4>1. CASE q = p
          <5>1. s.alone /\ save'[q] = next /\ d = c
            BY <3>3, <3>5, <4>1
          <5>2. /\ \A o \in Cache!Saving(c) : o = p
                /\ ColumnsOf(c) \union Cache!ToSet(s.left) = Cache!ToSet(s.columns)
                /\ \A r \in RowsOf(c) : r.by = s.by /\ s.since <= r.at /\ r.at <= now
                /\ s.since <= now
            BY <3>4, <5>1 DEF AloneInserts
          <5>3. now \in Nat /\ now <= now
            BY DEF CacheTypes
          <5>4. ColumnsOf(c)' \union Cache!ToSet(next.left) = Cache!ToSet(next.columns)
            BY <3>2, <3>3, <3>7, <5>2
          <5>5. \A r \in RowsOf(c)' : r.by = next.by /\ next.since <= r.at /\ r.at <= now'
            BY <3>1, <3>3, <3>4, <3>7, <5>2, <5>3
          <5> QED BY <3>1, <3>3, <3>8, <4>1, <5>1, <5>2, <5>4, <5>5
        <4>2. CASE q # p
          <5>1. save'[q] = save[q]
            BY <3>5, <4>2
          <5>2. d # c
            BY <3>6, <4>2, <5>1 DEF AloneInserts
          <5> QED BY <3>1, <3>7, <3>8, <5>1, <5>2 DEF AloneInserts
        <4> QED BY <4>1, <4>2
      <3>11. SettledRows'
        <4>1. settled[c] = None
          BY <3>4, <3>6 DEF SettledRows
        <4> QED BY <3>1, <3>7, <3>8, <4>1 DEF SettledRows
      <3> QED BY <3>9, <3>10, <3>11
    <2> QED BY <2>3, <2>4
  <1>6. ASSUME NEW p \in Tasks, Cache!FinishSave(p)
        PROVE  CacheInv'
    <2>0. PICK c \in Conns : c = save[p].conn
      BY <1>6, SaveShapes DEF Cache!FinishSave
    <2> DEFINE s == save[p]
    <2>1. s \in [pc : {"insert"}, conn : Conns, by : Nat, columns : Schemas, left : Seq(Columns),
                 since : Nat, alone : BOOLEAN] /\ s.left = << >>
      BY <1>6, SaveShapes DEF Cache!FinishSave
    <2>2. /\ \A q \in Tasks : save'[q] = IF q = p THEN Cache!Ready ELSE save[q]
          /\ settled' = [settled EXCEPT ![c] = IF s.alone /\ s.since = now THEN s.columns ELSE None]
          /\ UNCHANGED << cached, now, saves >>
          /\ save' = [save EXCEPT ![p] = Cache!Ready]
      BY <1>6, <2>0 DEF Cache!FinishSave, CacheTypes
    <2>3. Cache!Ready \in Saves /\ Cache!Ready.pc # "insert"
      BY DEF Saves, Cache!Ready
    <2>4. \A d : RowsOf(d)' = RowsOf(d) /\ ColumnsOf(d)' = ColumnsOf(d) /\ Cache!Saving(d)' = Cache!Saving(d) \ {p}
      BY <2>2, <2>3 DEF RowsOf, ColumnsOf, Cache!Saving
    <2>5. CacheTypes'
      <3>1. settled' \in [Conns -> Schemas \union {None}]
        BY <2>1, <2>2 DEF CacheTypes
      <3> QED BY <2>2, <2>3, <3>1 DEF CacheTypes
    <2>6. AloneInserts'
      BY <2>2, <2>3, <2>4 DEF AloneInserts
    <2>7. SettledRows'
      <3> SUFFICES ASSUME NEW d \in Conns, settled'[d] # None
                   PROVE  /\ Cache!Saving(d)' = {} /\ ColumnsOf(d)' = Cache!ToSet(settled'[d])
                          /\ \A q, r \in RowsOf(d)' : q.by = r.by /\ q.at = r.at
        BY DEF SettledRows
      <3>1. CASE d # c
        <4>1. settled'[d] = settled[d]
          BY <2>2, <3>1 DEF CacheTypes
        <4> QED BY <2>4, <4>1 DEF SettledRows
      <3>2. CASE d = c
        <4>1. s.alone /\ s.since = now /\ settled'[c] = s.columns
          BY <2>1, <2>2, <3>2 DEF CacheTypes
        <4>2. /\ \A o \in Cache!Saving(c) : o = p
              /\ ColumnsOf(c) \union Cache!ToSet(s.left) = Cache!ToSet(s.columns)
              /\ \A r \in RowsOf(c) : r.by = s.by /\ s.since <= r.at /\ r.at <= now
          BY <2>0, <2>1, <4>1 DEF AloneInserts
        <4>3. Cache!ToSet(s.left) = {}
          BY <2>1 DEF Cache!ToSet
        <4>4. \A r \in RowsOf(c) : r.at \in Nat
          BY DEF RowsOf, CacheTypes, CacheRow
        <4>5. \A r \in RowsOf(c) : r.by = s.by /\ r.at = now
          BY <4>1, <4>2, <4>4 DEF CacheTypes
        <4> QED BY <2>4, <3>2, <4>1, <4>2, <4>3, <4>5
      <3> QED BY <3>1, <3>2
    <2> QED BY <2>5, <2>6, <2>7
  <1>7. CASE UNCHANGED cacheVars
    BY <1>7 DEF cacheVars, CacheTypes, AloneInserts, SettledRows, RowsOf, ColumnsOf, Cache!Saving
  <1> QED BY <1>1, <1>2, <1>3, <1>4, <1>5, <1>6, <1>7 DEF Cache!CacheNext

\* The rows of one moment are as many as their columns.
LEMMA OneRowEach ==
    ASSUME CacheInv, NEW c \in Conns, settled[c] # None
    PROVE  Cardinality(RowsOf(c)) = Cardinality(Cache!ToSet(settled[c]))
  <1> DEFINE columns == Cache!ToSet(settled[c])
             f == [r \in RowsOf(c) |-> r.column]
  <1>1. ColumnsOf(c) = columns /\ \A q, r \in RowsOf(c) : q.by = r.by /\ q.at = r.at
    BY DEF CacheInv, SettledRows
  <1>2. IsFiniteSet(columns)
    <2>1. settled[c] \in Schemas
      BY DEF CacheInv, CacheTypes
    <2>2. settled[c] \in Seq(Columns)
      BY <2>1, SchemasAreColumns
    <2>3. DOMAIN settled[c] = 1 .. Len(settled[c]) /\ Len(settled[c]) \in Nat
      BY <2>2
    <2>4. IsFiniteSet(DOMAIN settled[c])
      BY <2>3, FS_Interval
    <2> DEFINE g == [i \in DOMAIN settled[c] |-> settled[c][i]]
    <2>5. g \in Surjection(DOMAIN settled[c], columns)
      BY DEF Surjection, Cache!ToSet
    <2> QED BY <2>4, <2>5, FS_Surjection
  <1>3. f \in Injection(RowsOf(c), columns)
    <2>1. \A q, r \in RowsOf(c) : q.column = r.column => q = r
      BY <1>1 DEF CacheInv, CacheTypes, CacheRow, RowsOf
    <2>2. f \in [RowsOf(c) -> columns]
      BY <1>1 DEF ColumnsOf
    <2>3. \A q, r \in RowsOf(c) : f[q] = f[r] => q = r
      BY <2>1
    <2>4. DOMAIN f = RowsOf(c)
      OBVIOUS
    <2> HIDE DEF columns, f
    <2> QED BY <2>2, <2>3, <2>4 DEF Injection, IsInjective
  <1>4. f \in Surjection(RowsOf(c), columns)
    BY <1>1 DEF Surjection, ColumnsOf
  <1> HIDE DEF f
  <1> QED BY <1>2, <1>3, <1>4, FS_Injection

\* The cached columns of a connection are those of its last save, each once, or they have
\* expired together; unless that save was cut short, met another or took more than a second.
THEOREM SchemasAreWhole == Spec => []SchemaWhole
  <1>1. CacheInv => SchemaWhole
    <2> SUFFICES ASSUME CacheInv, NEW c \in Conns, settled[c] # None, Cache!CachedSchema(c) # {}
                 PROVE  /\ {r.column : r \in Cache!CachedSchema(c)} = Cache!ToSet(settled[c])
                        /\ Cardinality(Cache!CachedSchema(c)) = Cardinality(Cache!ToSet(settled[c]))
      BY SameSize DEF SchemaWhole, Cache!SchemaWhole
    <2>1. Cache!CachedSchema(c) = RowsOf(c)
      BY DEF Cache!CachedSchema, RowsOf, CacheInv, SettledRows
    <2>2. ColumnsOf(c) = Cache!ToSet(settled[c])
      BY DEF CacheInv, SettledRows
    <2> QED BY <2>1, <2>2, OneRowEach DEF ColumnsOf
  <1> QED BY <1>1, InitCacheInv, NextCacheInv, NextOfAll, PTL DEF Spec

-----------------------------------------------------------------------------
(* The history of runs                                                     *)

Entry == [id : Nat, at : Nat]

HistTypes ==
    /\ history \subseteq Entry /\ IsFiniteSet(history)
    /\ entries \in Nat /\ clock \in Nat /\ retention \in Retentions
    /\ DOMAIN record = Tasks
    /\ \A t \in Tasks :
         /\ record[t].pc = "insert" => record[t].at \in Nat
         /\ record[t].pc = "trim" => record[t].cap \in Nat \ {0}

\* Ids are given out in order; an entry's time is after those of the entries before it,
\* unless it is set apart.
InOrderOfIds ==
    /\ \A r \in history : r.id <= entries
    /\ \A q, r \in history : q.id = r.id => q = r
    /\ \A q, r \in history : q.id < r.id /\ r.id \notin unfair => q.at < r.at

HistInv == HistTypes /\ InOrderOfIds

LEMMA InitHistInv == Init => HistInv
  <1>1. IsFiniteSet({})
    BY FS_EmptySet
  <1> QED BY <1>1, InitOfAll DEF Hist!HistInit, Hist!Done, HistInv, HistTypes, InOrderOfIds

LEMMA NextHistInv == HistInv /\ [Hist!HistNext]_histVars => HistInv'
  <1> SUFFICES ASSUME HistInv, [Hist!HistNext]_histVars PROVE HistInv'
    OBVIOUS
  <1> USE DEF HistInv
  <1>1. ASSUME NEW t \in Tasks, NEW next, record' = [record EXCEPT ![t] = next],
               UNCHANGED << history, entries, retention, clock, unfair >>,
               next.pc = "insert" => next.at \in Nat,
               next.pc = "trim" => next.cap \in Nat \ {0}
        PROVE  HistInv'
    <2>1. DOMAIN record' = Tasks /\ \A s \in Tasks : record'[s] = IF s = t THEN next ELSE record[s]
      BY <1>1 DEF HistTypes
    <2>2. HistTypes'
      BY <1>1, <2>1 DEF HistTypes
    <2> QED BY <1>1, <2>2 DEF InOrderOfIds
  <1>2. ASSUME NEW t \in Tasks, Hist!TakeTime(t)
        PROVE  HistInv'
    BY <1>1, <1>2 DEF Hist!TakeTime, HistTypes
  <1>3. ASSUME NEW t \in Tasks, Hist!InsertEntry(t)
        PROVE  HistInv'
    <2> DEFINE row == [id |-> entries + 1, at |-> record[t].at]
    <2>1. row \in Entry /\ row.id = entries + 1 /\ row.at = record[t].at /\ entries \in Nat
      BY <1>3 DEF Hist!InsertEntry, HistTypes, Entry
    <2>2. /\ history' = history \union {row} /\ entries' = entries + 1
          /\ unfair' = IF \E r \in history : r.at >= row.at THEN unfair \union {row.id} ELSE unfair
          /\ UNCHANGED << retention, clock >>
      BY <1>3 DEF Hist!InsertEntry
    <2>3. \A s \in Tasks : record'[s] = IF s = t THEN [pc |-> "retention", id |-> row.id] ELSE record[s]
      BY <1>3 DEF Hist!InsertEntry, HistTypes
    <2>4. DOMAIN record' = Tasks
      BY <1>3 DEF Hist!InsertEntry, HistTypes
    <2> HIDE DEF row
    <2>5. IsFiniteSet(history')
      BY <2>2, FS_AddElement DEF HistTypes
    <2>6. HistTypes'
      BY <2>1, <2>2, <2>3, <2>4, <2>5 DEF HistTypes
    <2>7. \A r \in history : r.id \in Nat /\ r.at \in Nat /\ r.id < row.id
      BY <2>1 DEF HistTypes, Entry, InOrderOfIds
    <2>8. InOrderOfIds'
      <3>1. \A r \in history' : r.id <= entries'
        BY <2>1, <2>2, <2>7
      <3>2. \A q, r \in history' : q.id = r.id => q = r
        BY <2>1, <2>2, <2>7 DEF InOrderOfIds
      <3>3. ASSUME NEW q \in history', NEW r \in history', q.id < r.id, r.id \notin unfair'
            PROVE  q.at < r.at
        <4>1. CASE r = row
          <5>1. q \in history
            BY <2>1, <2>2, <3>3, <4>1
          <5>2. ~(q.at >= row.at)
            BY <2>1, <2>2, <3>3, <4>1, <5>1
          <5> QED BY <2>1, <2>7, <4>1, <5>1, <5>2 DEF Entry
        <4>2. CASE r # row
          <5>1. r \in history /\ q \in history /\ r.id \notin unfair
            BY <2>1, <2>2, <2>7, <3>3, <4>2
          <5> QED BY <3>3, <5>1 DEF InOrderOfIds
        <4> QED BY <4>1, <4>2
      <3> QED BY <3>1, <3>2, <3>3 DEF InOrderOfIds
    <2> QED BY <2>6, <2>8
  <1>4. ASSUME NEW t \in Tasks, Hist!GetRetention(t)
        PROVE  HistInv'
    <2> DEFINE next == [pc |-> "trim", id |-> record[t].id, cap |-> Hist!Cap(retention)]
    <2>1. Hist!Cap(retention) \in Nat \ {0}
      BY BoundsAssumption DEF Hist!HistoryAssumption, Hist!Cap, HistTypes
    <2>2. record' = [record EXCEPT ![t] = next]
      BY <1>4 DEF Hist!GetRetention, HistTypes
    <2> QED BY <1>1, <1>4, <2>1, <2>2 DEF Hist!GetRetention
  <1>5. ASSUME history' \subseteq history, UNCHANGED << entries, retention, clock, unfair >>,
               DOMAIN record' = Tasks,
               \A s \in Tasks : record'[s] = record[s] \/ record'[s].pc = "done"
        PROVE  HistInv'
    <2>1. IsFiniteSet(history')
      BY <1>5, FS_Subset DEF HistTypes
    <2>2. HistTypes'
      BY <1>5, <2>1 DEF HistTypes
    <2> QED BY <1>5, <2>2 DEF InOrderOfIds
  <1>6. ASSUME NEW t \in Tasks, Hist!Trim(t)
        PROVE  HistInv'
    <2>1. history' \subseteq history
      BY <1>6 DEF Hist!Trim, Hist!Newest, Hist!kSubset
    <2>2. DOMAIN record' = Tasks /\ \A s \in Tasks : record'[s] = record[s] \/ record'[s].pc = "done"
      BY <1>6 DEF Hist!Trim, Hist!Done, HistTypes
    <2> QED BY <1>5, <1>6, <2>1, <2>2 DEF Hist!Trim
  <1>7. ASSUME NEW t \in Tasks, Hist!Lose(t)
        PROVE  HistInv'
    BY <1>1, <1>7 DEF Hist!Lose, Hist!Done
  <1>8. CASE Hist!Purge
    BY <1>5, <1>8 DEF Hist!Purge, HistTypes
  <1>9. ASSUME NEW n \in Retentions, Hist!SetRetention(n)
        PROVE  HistInv'
    BY <1>9 DEF Hist!SetRetention, HistTypes, InOrderOfIds
  <1>10. CASE Hist!TimePasses \/ Hist!SetBack
    BY <1>10 DEF Hist!TimePasses, Hist!SetBack, HistTypes, InOrderOfIds
  <1>11. CASE UNCHANGED histVars
    BY <1>11 DEF histVars, HistTypes, InOrderOfIds
  <1> QED
    BY <1>2, <1>3, <1>4, <1>6, <1>7, <1>8, <1>9, <1>10, <1>11 DEF Hist!HistNext

\* What a trim leaves: as many as its limit, the newest by their times.
LEMMA TrimLeaves ==
    ASSUME HistInv, NEW cap \in Nat \ {0}, NEW kept \in Hist!Newest(cap), kept # history
    PROVE  /\ kept \subseteq history /\ kept # {} /\ Cardinality(kept) <= cap
           /\ \A r \in kept, q \in history \ kept : r.at >= q.at
  <1> DEFINE n == Cardinality(history)
             size == IF n < cap THEN n ELSE cap
  <1>1. /\ kept \subseteq history /\ Cardinality(kept) = size
        /\ \A r \in kept, q \in history \ kept : r.at >= q.at
    BY SameSize DEF Hist!Newest, Hist!kSubset
  <1>2. n \in Nat /\ (n = 0 <=> history = {})
    BY FS_CardinalityType, FS_EmptySet DEF HistInv, HistTypes
  <1>3. history # {}
    BY <1>1
  <1>4. Cardinality({}) = 0
    BY FS_EmptySet
  <1> QED BY <1>1, <1>2, <1>3, <1>4

\* A trim keeps at least one entry and at most as many as it was told, and drops entries
\* only for ones inserted later, however calls, purges and changes of the limit overlap,
\* as long as no entry's time is set apart.
THEOREM TrimsLeaveNewer == Spec => LeavesForNewer
  <1>1. HistInv /\ [Next]_vars => [part = "history" => Hist!TrimLeavesNewer]_<< part, histVars >>
    <2> SUFFICES ASSUME HistInv, [Hist!HistNext]_histVars PROVE Hist!TrimLeavesNewer
      BY NextOfAll
    <2> SUFFICES ASSUME NEW t \in Tasks, record[t].pc = "trim", record'[t].pc = "done", history' # history
                 PROVE  /\ history' # {} /\ Cardinality(history') <= record[t].cap
                        /\ \/ \E q \in history : q.id \in unfair
                           \/ \A r \in history \ history', q \in history' : q.id > r.id
      BY SameSize DEF Hist!TrimLeavesNewer
    <2>1. Hist!Trim(t)
      <3>1. \/ \E s \in Tasks : Hist!InsertEntry(s) \/ Hist!Trim(s)
            \/ Hist!Purge
        BY DEF Hist!HistNext, histVars, Hist!TakeTime, Hist!GetRetention, Hist!Lose,
               Hist!SetRetention, Hist!TimePasses, Hist!SetBack
      <3>2. ASSUME NEW s \in Tasks, Hist!InsertEntry(s) PROVE FALSE
        BY <3>2 DEF Hist!InsertEntry, HistInv, HistTypes
      <3>3. ASSUME NEW s \in Tasks, Hist!Trim(s), s # t PROVE FALSE
        BY <3>3 DEF Hist!Trim, HistInv, HistTypes
      <3> QED BY <3>1, <3>2, <3>3 DEF Hist!Purge
    <2>2. record[t].cap \in Nat \ {0} /\ history' \in Hist!Newest(record[t].cap)
      BY <2>1 DEF Hist!Trim, HistInv, HistTypes
    <2>3. /\ history' \subseteq history /\ history' # {} /\ Cardinality(history') <= record[t].cap
          /\ \A r \in history', q \in history \ history' : r.at >= q.at
      BY <2>2, TrimLeaves
    <2>4. ASSUME \A q \in history : q.id \notin unfair,
                 NEW r \in history \ history', NEW q \in history'
          PROVE  q.id > r.id
      <3>1. q \in history /\ q # r /\ q.at >= r.at
        BY <2>3
      <3>2. q.id \in Nat /\ r.id \in Nat /\ q.at \in Nat /\ r.at \in Nat
        BY <3>1 DEF HistInv, HistTypes, Entry
      <3>3. ~(q.at < r.at) /\ q.id # r.id
        BY <3>1, <3>2 DEF HistInv, InOrderOfIds
      <3>4. ~(q.id < r.id)
        BY <2>4, <3>1, <3>3 DEF HistInv, InOrderOfIds
      <3> QED BY <3>2, <3>3, <3>4
    <2> QED BY <2>3, <2>4
  <1>2. Spec => []HistInv
    BY InitHistInv, NextHistInv, NextOfAll, PTL DEF Spec
  <1> QED BY <1>1, <1>2, PTL DEF Spec, LeavesForNewer

-----------------------------------------------------------------------------
(* The active vault                                                        *)

VaultOps == [pc : {"none"}]
            \union [pc : {"add"}, vault : Vaults, list : SUBSET Vaults, select : BOOLEAN]
            \union [pc : {"remove"}, vault : Vaults, list : SUBSET Vaults]
            \union [pc : {"select", "active", "clear"}, vault : Vaults]

VaultTypes ==
    /\ vaults \subseteq Vaults
    /\ selected \in Vaults \union {None}
    /\ op \in [Tasks -> VaultOps]

\* A vault is in the list that is about to be written, or was, before it is selected.
ListedFirst ==
    \A p \in Tasks :
      /\ op[p].pc = "add" => op[p].vault \in op[p].list
      /\ op[p].pc = "select" => op[p].vault \in vaults \union torn

\* The call that took the active vault off the list is yet to look at the active one.
StillListed == selected = None \/ selected \in vaults \union torn \/ Vault!Removing(selected) # {}

VaultInv == VaultTypes /\ ListedFirst /\ StillListed

LEMMA InitVaultInv == Init => VaultInv
  BY InitOfAll DEF Vault!VaultInit, Vault!NoOp, VaultInv, VaultTypes, VaultOps, ListedFirst, StillListed,
     Vault!Removing

\* The call of one program moves on.
LEMMA OneOpMoves ==
    ASSUME VaultTypes, NEW p \in Tasks, NEW next \in VaultOps, Vault!Set(p, next)
    PROVE  /\ op' \in [Tasks -> VaultOps] /\ op'[p] = next
           /\ \A q \in Tasks \ {p} : op'[q] = op[q]
  BY DEF VaultTypes, Vault!Set

LEMMA VaultOpShapes ==
    ASSUME VaultTypes, NEW p \in Tasks
    PROVE  /\ op[p].pc # "none" => op[p].vault \in Vaults
           /\ op[p].pc = "add" => op[p] \in [pc : {"add"}, vault : Vaults, list : SUBSET Vaults, select : BOOLEAN]
           /\ op[p].pc = "remove" => op[p] \in [pc : {"remove"}, vault : Vaults, list : SUBSET Vaults]
  <1>1. op[p] \in VaultOps
    BY DEF VaultTypes
  <1> QED BY <1>1 DEF VaultOps

LEMMA NextVaultInv == VaultInv /\ [Vault!VaultNext]_vaultVars => VaultInv'
  <1> SUFFICES ASSUME VaultInv, [Vault!VaultNext]_vaultVars PROVE VaultInv'
    OBVIOUS
  <1> USE DEF VaultInv
  <1>1. ASSUME NEW p \in Tasks, NEW v \in Vaults, NEW select \in BOOLEAN, Vault!BeginAdd(p, v, select)
        PROVE  VaultInv'
    <2>1. CASE v \notin vaults
      <3> DEFINE next == [pc |-> "add", vault |-> v, list |-> vaults \union {v}, select |-> select]
      <3>1. next \in VaultOps /\ next.pc = "add" /\ next.vault = v /\ v \in next.list
        BY DEF VaultOps, VaultTypes
      <3>2. Vault!Set(p, next)
        BY <1>1, <2>1 DEF Vault!BeginAdd
      <3> HIDE DEF next
      <3>3. /\ op' \in [Tasks -> VaultOps] /\ op'[p] = next
            /\ \A q \in Tasks \ {p} : op'[q] = op[q]
        BY <3>1, <3>2, OneOpMoves
      <3>4. op[p].pc = "none" /\ UNCHANGED << vaults, selected, torn >>
        BY <1>1 DEF Vault!BeginAdd
      <3> QED BY <3>1, <3>3, <3>4 DEF VaultTypes, ListedFirst, StillListed, Vault!Removing
    <2>2. CASE v \in vaults /\ select
      <3> DEFINE next == [pc |-> "select", vault |-> v]
      <3>1. next \in VaultOps /\ next.pc = "select" /\ next.vault = v
        BY DEF VaultOps
      <3>2. Vault!Set(p, next)
        BY <1>1, <2>2 DEF Vault!BeginAdd
      <3> HIDE DEF next
      <3>3. /\ op' \in [Tasks -> VaultOps] /\ op'[p] = next
            /\ \A q \in Tasks \ {p} : op'[q] = op[q]
        BY <3>1, <3>2, OneOpMoves
      <3>4. op[p].pc = "none" /\ UNCHANGED << vaults, selected, torn >>
        BY <1>1 DEF Vault!BeginAdd
      <3> QED BY <2>2, <3>1, <3>3, <3>4 DEF VaultTypes, ListedFirst, StillListed, Vault!Removing
    <2>3. CASE v \in vaults /\ ~select
      <3>1. Vault!Set(p, Vault!NoOp) /\ Vault!NoOp \in VaultOps /\ Vault!NoOp.pc = "none"
        BY <1>1, <2>3 DEF Vault!BeginAdd, VaultOps, Vault!NoOp
      <3>3. /\ op' \in [Tasks -> VaultOps] /\ op'[p] = Vault!NoOp
            /\ \A q \in Tasks \ {p} : op'[q] = op[q]
        BY <3>1, OneOpMoves
      <3>4. op[p].pc = "none" /\ UNCHANGED << vaults, selected, torn >>
        BY <1>1 DEF Vault!BeginAdd
      <3> QED BY <2>3, <3>1, <3>3, <3>4 DEF VaultTypes, ListedFirst, StillListed, Vault!Removing
    <2> QED BY <2>1, <2>2, <2>3
  <1>2. ASSUME NEW p \in Tasks, Vault!WriteAdded(p)
        PROVE  VaultInv'
    <2> DEFINE o == op[p]
               next == IF o.select THEN [pc |-> "select", vault |-> o.vault] ELSE Vault!NoOp
    <2>1. o \in [pc : {"add"}, vault : Vaults, list : SUBSET Vaults, select : BOOLEAN] /\ o.vault \in o.list
      BY <1>2, VaultOpShapes DEF Vault!WriteAdded, ListedFirst
    <2>2. /\ Vault!Set(p, next) /\ vaults' = o.list /\ selected' = selected
          /\ torn' = (torn \union Vault!Stray(o.list, {})) \ o.list
      BY <1>2 DEF Vault!WriteAdded, Vault!WriteList
    <2>3. next \in VaultOps /\ (next.pc # "none" => next.pc = "select" /\ next.vault = o.vault)
      <3>1. CASE o.select
        BY <2>1, <3>1 DEF VaultOps
      <3>2. CASE ~o.select
        BY <3>2 DEF VaultOps, Vault!NoOp
      <3> QED BY <3>1, <3>2
    <2> HIDE DEF next
    <2>4. /\ op' \in [Tasks -> VaultOps] /\ op'[p] = next
          /\ \A q \in Tasks \ {p} : op'[q] = op[q]
      BY <2>2, <2>3, OneOpMoves
    <2>5. vaults \union torn \union {o.vault} \subseteq vaults' \union torn' \union {o.vault}
          /\ o.vault \in vaults' /\ torn' \union vaults' \subseteq torn \union vaults \union o.list
      BY <2>1, <2>2 DEF Vault!Stray
    <2>6. ListedFirst'
      BY <2>1, <2>3, <2>4, <2>5 DEF ListedFirst
    <2>7. StillListed'
      BY <1>2, <2>2, <2>4, <2>5 DEF StillListed, Vault!Removing, Vault!WriteAdded
    <2> QED BY <2>1, <2>2, <2>4, <2>6, <2>7 DEF VaultTypes
  <1>3. ASSUME NEW p \in Tasks, Vault!Select(p)
        PROVE  VaultInv'
    <2>1. op[p].vault \in Vaults /\ op[p].vault \in vaults \union torn
      BY <1>3, VaultOpShapes DEF Vault!Select, ListedFirst
    <2>2. Vault!Set(p, Vault!NoOp) /\ selected' = op[p].vault /\ UNCHANGED << vaults, torn >>
      BY <1>3 DEF Vault!Select
    <2>3. Vault!NoOp \in VaultOps /\ Vault!NoOp.pc = "none"
      BY DEF VaultOps, Vault!NoOp
    <2>4. /\ op' \in [Tasks -> VaultOps] /\ op'[p] = Vault!NoOp
          /\ \A q \in Tasks \ {p} : op'[q] = op[q]
      BY <2>2, <2>3, OneOpMoves
    <2> QED BY <2>1, <2>2, <2>3, <2>4 DEF VaultTypes, ListedFirst, StillListed, Vault!Removing
  <1>4. ASSUME NEW p \in Tasks, NEW v \in Vaults, Vault!BeginRemove(p, v)
        PROVE  VaultInv'
    <2> DEFINE next == [pc |-> "remove", vault |-> v, list |-> vaults \ {v}]
    <2>1. next \in VaultOps /\ next.pc = "remove" /\ next.vault = v
      BY DEF VaultOps, VaultTypes
    <2>2. Vault!Set(p, next)
      BY <1>4 DEF Vault!BeginRemove
    <2> HIDE DEF next
    <2>3. /\ op' \in [Tasks -> VaultOps] /\ op'[p] = next
          /\ \A q \in Tasks \ {p} : op'[q] = op[q]
      BY <2>1, <2>2, OneOpMoves
    <2>4. op[p].pc = "none" /\ UNCHANGED << vaults, selected, torn >>
      BY <1>4 DEF Vault!BeginRemove
    <2> QED BY <2>1, <2>3, <2>4 DEF VaultTypes, ListedFirst, StillListed, Vault!Removing
  <1>5. ASSUME NEW p \in Tasks, Vault!WriteRemoved(p)
        PROVE  VaultInv'
    <2> DEFINE o == op[p]
               next == [pc |-> "active", vault |-> o.vault]
    <2>1. o \in [pc : {"remove"}, vault : Vaults, list : SUBSET Vaults]
      BY <1>5, VaultOpShapes DEF Vault!WriteRemoved
    <2>2. /\ Vault!Set(p, next) /\ vaults' = o.list /\ selected' = selected
          /\ torn' = (torn \union Vault!Stray(o.list, {o.vault})) \ o.list
      BY <1>5 DEF Vault!WriteRemoved, Vault!WriteList
    <2>3. next \in VaultOps /\ next.pc = "active" /\ next.vault = o.vault
      BY <2>1 DEF VaultOps
    <2> HIDE DEF next
    <2>4. /\ op' \in [Tasks -> VaultOps] /\ op'[p] = next
          /\ \A q \in Tasks \ {p} : op'[q] = op[q]
      BY <2>2, <2>3, OneOpMoves
    <2>6. ListedFirst'
      <3> SUFFICES ASSUME NEW q \in Tasks, op'[q].pc = "select" PROVE op'[q].vault \in vaults' \union torn'
        BY <2>3, <2>4 DEF ListedFirst
      <3>1. q # p /\ op[q].pc = "select" /\ op'[q].vault = op[q].vault
        BY <2>3, <2>4
      <3>2. op[q].vault \in Vaults /\ op[q].vault \in vaults \union torn
        BY <3>1, VaultOpShapes DEF ListedFirst
      <3>3. q \in Vault!ToSelect(op[q].vault)
        BY <3>1 DEF Vault!ToSelect
      <3>4. op[q].vault \in vaults' \union torn'
        BY <2>2, <3>2, <3>3 DEF Vault!Stray
      <3> QED BY <3>1, <3>4
    <2>7. StillListed'
      <3>1. CASE selected = o.vault
        BY <2>2, <2>3, <2>4, <3>1 DEF StillListed, Vault!Removing
      <3>2. CASE selected \in vaults \union torn /\ selected # o.vault
        BY <2>2, <3>2 DEF StillListed, Vault!Stray
      <3>3. CASE Vault!Removing(selected) # {}
        BY <1>5, <2>2, <2>4, <3>3 DEF StillListed, Vault!Removing, Vault!WriteRemoved
      <3> QED BY <2>2, <3>1, <3>2, <3>3 DEF StillListed
    <2> QED BY <2>1, <2>2, <2>4, <2>6, <2>7 DEF VaultTypes
  <1>6. ASSUME NEW p \in Tasks, Vault!ReadActive(p)
        PROVE  VaultInv'
    <2> DEFINE next == IF selected = op[p].vault THEN [pc |-> "clear", vault |-> op[p].vault] ELSE Vault!NoOp
    <2>1. op[p].pc = "active" /\ op[p].vault \in Vaults
      BY <1>6, VaultOpShapes DEF Vault!ReadActive
    <2>2. Vault!Set(p, next) /\ UNCHANGED << vaults, selected, torn >>
      BY <1>6 DEF Vault!ReadActive
    <2>3. /\ next \in VaultOps
          /\ IF selected = op[p].vault THEN next.pc = "clear" /\ next.vault = op[p].vault ELSE next.pc = "none"
      BY <2>1 DEF VaultOps, Vault!NoOp
    <2> HIDE DEF next
    <2>4. /\ op' \in [Tasks -> VaultOps] /\ op'[p] = next
          /\ \A q \in Tasks \ {p} : op'[q] = op[q]
      BY <2>2, <2>3, OneOpMoves
    <2>6. StillListed'
      BY <2>1, <2>2, <2>3, <2>4 DEF StillListed, Vault!Removing
    <2> QED BY <2>1, <2>2, <2>3, <2>4, <2>6 DEF VaultTypes, ListedFirst
  <1>7. ASSUME NEW p \in Tasks, Vault!ClearSelected(p)
        PROVE  VaultInv'
    <2>2. Vault!Set(p, Vault!NoOp) /\ selected' = None /\ UNCHANGED << vaults, torn >>
      BY <1>7 DEF Vault!ClearSelected
    <2>3. Vault!NoOp \in VaultOps /\ Vault!NoOp.pc = "none"
      BY DEF VaultOps, Vault!NoOp
    <2>4. /\ op' \in [Tasks -> VaultOps] /\ op'[p] = Vault!NoOp
          /\ \A q \in Tasks \ {p} : op'[q] = op[q]
      BY <2>2, <2>3, OneOpMoves
    <2> QED BY <2>2, <2>3, <2>4 DEF VaultTypes, ListedFirst, StillListed, Vault!Removing
  <1>8. ASSUME NEW p \in Tasks, Vault!Stop(p)
        PROVE  VaultInv'
    <2>1. Vault!Set(p, Vault!NoOp) /\ UNCHANGED << vaults, selected >>
          /\ torn' = IF op[p].pc \in {"active", "clear"} THEN torn \union ({op[p].vault} \ vaults) ELSE torn
      BY <1>8 DEF Vault!Stop
    <2>3. Vault!NoOp \in VaultOps /\ Vault!NoOp.pc = "none"
      BY DEF VaultOps, Vault!NoOp
    <2>4. /\ op' \in [Tasks -> VaultOps] /\ op'[p] = Vault!NoOp
          /\ \A q \in Tasks \ {p} : op'[q] = op[q]
      BY <2>1, <2>3, OneOpMoves
    <2> QED BY <2>1, <2>3, <2>4 DEF VaultTypes, ListedFirst, StillListed, Vault!Removing
  <1>9. CASE UNCHANGED vaultVars
    BY <1>9 DEF vaultVars, VaultTypes, ListedFirst, StillListed, Vault!Removing
  <1> QED
    BY <1>1, <1>2, <1>3, <1>4, <1>5, <1>6, <1>7, <1>8, <1>9 DEF Vault!VaultNext

\* The active vault is registered, whatever programs add, remove and select vaults at once
\* and wherever they stop, unless it is off the list and has not been put on it again
\* since its removal, which has yet to look at the active vault or stopped before it had,
\* since a list read before it was added was written over it, or since it was taken off
\* between the two writes of the call that selects it.
THEOREM ActiveIsRegistered == Spec => []ActiveRegistered
  <1>1. VaultInv => ActiveRegistered
    BY DEF VaultInv, StillListed, ActiveRegistered, Vault!ActiveRegistered, Vault!Removing
  <1> QED BY <1>1, InitVaultInv, NextVaultInv, NextOfAll, PTL DEF Spec

-----------------------------------------------------------------------------
(* Files written through temporary names                                   *)

Dirs == Aliases \union {Captures}
DiskFile == [dir : Dirs, file : Nat, tmp : BOOLEAN, inode : 1 .. MaxFiles]
FileWrite == [pc : {"write", "rename"}, dir : Dirs, file : Nat, inode : 1 .. MaxFiles,
              write : Nat \ {0}, next : 1 .. Parts]
FileTrim == [pc : {"trim"}, dir : Dirs, old : SUBSET Nat]

FileTypes ==
    /\ disk \subseteq DiskFile
    /\ inodes \in [1 .. MaxFiles -> [1 .. Parts -> Nat]]
    /\ used \in 0 .. MaxFiles /\ writes \in Nat
    /\ writer \in [Tasks -> {File!Resting} \union FileWrite \union FileTrim]
    /\ \A x \in disk : x.inode <= used
    /\ \A w \in Tasks : File!Writing(w) => writer[w].inode <= used

\* A file has one name.
OneName == \A x, y \in disk : x.inode = y.inode => x = y

\* A file that is being written, and is not set apart, belongs to its writer: no other
\* has it open, its name is the temporary one, and what is in it the writer has put there.
OwnFile ==
    \A w \in Tasks :
      File!Writing(w) /\ writer[w].inode \notin shared =>
        /\ \A v \in Tasks : File!Writing(v) /\ writer[v].inode = writer[w].inode => v = w
        /\ \A x \in disk : x.inode = writer[w].inode => x.tmp
        /\ \A i \in 1 .. Parts :
             i < writer[w].next \/ writer[w].pc = "rename" => inodes[writer[w].inode][i] = writer[w].write

FileInv == FileTypes /\ OneName /\ OwnFile /\ File!FilesWhole

LEMMA WriterShapes ==
    ASSUME FileTypes, NEW w \in Tasks
    PROVE  /\ writer[w].pc \in {"write", "rename"} => writer[w] \in FileWrite
           /\ writer[w].pc = "trim" => writer[w] \in FileTrim
  <1>1. writer[w] \in {File!Resting} \union FileWrite \union FileTrim
    BY DEF FileTypes
  <1> QED BY <1>1 DEF File!Resting, FileWrite, FileTrim

LEMMA InitFileInv == Init => FileInv
  <1> SUFFICES ASSUME File!FileInit PROVE FileInv
    BY InitOfAll
  <1>1. MaxFiles \in Nat
    BY BoundsAssumption DEF File!FilesAssumption
  <1> QED BY <1>1 DEF File!FileInit, File!Blank, File!Resting, File!Writing, FileInv, FileTypes, OneName, OwnFile,
                      File!FilesWhole

\* Names come and go: the files that have one keep what they are, and a writer rests or
\* goes about a trim.
LEMMA NamesChange ==
    ASSUME FileInv, disk' \subseteq DiskFile,
           \A x \in disk' : \E y \in disk : x.inode = y.inode /\ x.tmp = y.tmp,
           OneName', UNCHANGED << inodes, used, writes, shared >>,
           writer' \in [Tasks -> {File!Resting} \union FileWrite \union FileTrim],
           \A w \in Tasks : writer'[w] = writer[w] \/ writer'[w].pc \in {"rest", "trim"}
    PROVE  FileInv'
  <1> USE DEF FileInv
  <1>1. \A w \in Tasks : File!Writing(w)' => File!Writing(w) /\ writer'[w] = writer[w]
    BY DEF File!Writing
  <1>2. FileTypes'
    BY <1>1 DEF FileTypes
  <1>3. OwnFile'
    <2> SUFFICES ASSUME NEW w \in Tasks, File!Writing(w)', writer'[w].inode \notin shared'
                 PROVE  /\ \A v \in Tasks : File!Writing(v)' /\ writer'[v].inode = writer'[w].inode => v = w
                        /\ \A x \in disk' : x.inode = writer'[w].inode => x.tmp
                        /\ \A i \in 1 .. Parts : i < writer'[w].next \/ writer'[w].pc = "rename" =>
                             inodes'[writer'[w].inode][i] = writer'[w].write
      BY DEF OwnFile
    <2> QED BY <1>1 DEF OwnFile
  <1>4. File!FilesWhole'
    BY DEF File!FilesWhole
  <1> QED BY <1>2, <1>3, <1>4

\* fs::write opens a new file, or one that is there and none but its temporary name has.
LEMMA OpenKeeps ==
    ASSUME FileInv, NEW w \in Tasks, NEW d \in Dirs, NEW f \in Nat, File!Open(w, d, f)
    PROVE  FileInv'
  <1> USE DEF FileInv
  <1> DEFINE there == File!At(d, f, TRUE)
  <1>0. MaxFiles \in Nat
    BY BoundsAssumption DEF File!FilesAssumption
  <1>1. PICK n \in 1 .. MaxFiles :
          /\ n = IF there = {} THEN used + 1 ELSE (CHOOSE x \in there : TRUE).inode
          /\ n <= used'
    <2>1. CASE there = {}
      BY <1>0, <2>1 DEF File!Open, FileTypes
    <2>2. CASE there # {}
      <3>1. (CHOOSE x \in there : TRUE) \in disk
        BY <2>2 DEF File!At
      <3>2. used' = used
        BY <2>2 DEF File!Open
      <3> QED BY <2>2, <3>1, <3>2 DEF FileTypes, DiskFile
    <2> QED BY <2>1, <2>2
  <1> DEFINE new == [dir |-> d, file |-> f, tmp |-> TRUE, inode |-> n]
             open == [pc |-> "write", dir |-> d, file |-> f, inode |-> n, write |-> writes + 1, next |-> 1]
  <1>2. /\ writer[w].pc = "rest" /\ used < MaxFiles
        /\ writes' = writes + 1
        /\ used' = IF there = {} THEN used + 1 ELSE used
        /\ disk' = disk \union {new}
        /\ inodes' = [inodes EXCEPT ![n] = File!Blank]
        /\ shared' = IF \E v \in Tasks : File!Writing(v) /\ writer[v].inode = n
                     THEN shared \union {n} ELSE shared
        /\ writer' = [writer EXCEPT ![w] = open]
    BY <1>1 DEF File!Open
  <1>3. new \in DiskFile /\ new.tmp /\ new.inode = n
    BY DEF DiskFile
  <1>4. open \in FileWrite /\ open.pc = "write" /\ open.inode = n /\ open.next = 1
    <2>1. writes + 1 \in Nat \ {0} /\ 1 \in 1 .. Parts
      BY BoundsAssumption DEF FileTypes, File!FilesAssumption
    <2> QED BY <2>1 DEF FileWrite
  <1> HIDE DEF new, open
  <1>5. \A x \in disk : x.inode = n => x = new
    <2>1. CASE there = {}
      BY <1>1, <2>1 DEF FileTypes, DiskFile
    <2>2. CASE there # {}
      <3> DEFINE old == CHOOSE x \in there : TRUE
      <3>1. old \in disk /\ old.dir = d /\ old.file = f /\ old.tmp = TRUE /\ old.inode = n
        BY <1>1, <2>2 DEF File!At
      <3>2. old = new
        BY <3>1 DEF new, FileTypes, DiskFile
      <3> HIDE DEF old
      <3> QED BY <3>1, <3>2 DEF OneName
    <2> QED BY <2>1, <2>2
  <1>6. \A v \in Tasks : writer'[v] = IF v = w THEN open ELSE writer[v]
    BY <1>2 DEF FileTypes
  <1>7. \A v \in Tasks : File!Writing(v)' <=> (v = w \/ File!Writing(v))
    BY <1>4, <1>6 DEF File!Writing
  <1>8. /\ \A m \in 1 .. MaxFiles : inodes'[m] = IF m = n THEN File!Blank ELSE inodes[m]
        /\ shared \subseteq shared' /\ used <= used' /\ used' \in 0 .. MaxFiles
    <2>1. used' = used \/ used' = used + 1
      BY <1>2
    <2>2. used <= used' /\ used' \in 0 .. MaxFiles
      <3>1. used \in 0 .. MaxFiles
        BY DEF FileTypes
      <3>2. used < MaxFiles
        BY <1>2
      <3> QED BY <1>0, <2>1, <3>1, <3>2
    <2>3. \A k \in 1 .. MaxFiles : inodes'[k] = IF k = n THEN File!Blank ELSE inodes[k]
      BY <1>2 DEF FileTypes
    <2>4. shared \subseteq shared'
      BY <1>2
    <2> QED BY <2>2, <2>3, <2>4
  <1>9. FileTypes'
    <2>1. File!Blank \in [1 .. Parts -> Nat]
      BY DEF File!Blank
    <2>2. inodes' \in [1 .. MaxFiles -> [1 .. Parts -> Nat]]
      BY <1>2, <2>1 DEF FileTypes
    <2>3. writer' \in [Tasks -> {File!Resting} \union FileWrite \union FileTrim]
      BY <1>2, <1>4 DEF FileTypes
    <2>4. disk' \subseteq DiskFile /\ \A x \in disk' : x.inode <= used'
      <3>1. \A x \in disk : x.inode \in Nat /\ x.inode <= used
        BY DEF FileTypes, DiskFile
      <3>2. used \in Nat /\ used' \in Nat
        BY <1>0, <1>8 DEF FileTypes
      <3>3. \A x \in disk : x.inode <= used'
        BY <1>8, <3>1, <3>2
      <3> QED BY <1>1, <1>2, <1>3, <3>3 DEF FileTypes
    <2>5. ASSUME NEW v \in Tasks, File!Writing(v)' PROVE writer'[v].inode <= used'
      <3>1. CASE v = w
        BY <1>1, <1>4, <1>6, <3>1
      <3>2. CASE v # w
        <4>1. File!Writing(v) /\ writer'[v] = writer[v]
          BY <1>6, <1>7, <2>5, <3>2
        <4>2. writer[v].inode <= used /\ writer[v].inode \in Nat
          BY <4>1, WriterShapes DEF FileTypes, File!Writing, FileWrite
        <4> QED BY <1>8, <4>1, <4>2 DEF FileTypes
      <3> QED BY <3>1, <3>2
    <2>6. writes' \in Nat
      BY <1>2 DEF FileTypes
    <2> QED BY <1>8, <2>2, <2>3, <2>4, <2>5, <2>6 DEF FileTypes
  <1>10. OneName'
    BY <1>2, <1>3, <1>5 DEF OneName
  <1>11. OwnFile'
    <2> SUFFICES ASSUME NEW v \in Tasks, File!Writing(v)', writer'[v].inode \notin shared'
                 PROVE  /\ \A u \in Tasks : File!Writing(u)' /\ writer'[u].inode = writer'[v].inode => u = v
                        /\ \A x \in disk' : x.inode = writer'[v].inode => x.tmp
                        /\ \A i \in 1 .. Parts : i < writer'[v].next \/ writer'[v].pc = "rename" =>
                             inodes'[writer'[v].inode][i] = writer'[v].write
      BY DEF OwnFile
    <2>1. ASSUME NEW u \in Tasks, File!Writing(u), writer[u].inode = n PROVE n \in shared'
      BY <1>2, <2>1
    <2>2. ~File!Writing(w)
      BY <1>2 DEF File!Writing
    <2>3. CASE v = w
      <3>1. \A u \in Tasks : File!Writing(u)' /\ writer'[u].inode = n => u = w
        BY <1>4, <1>6, <1>7, <2>1, <2>3
      <3>2. \A x \in disk' : x.inode = n => x.tmp
        BY <1>2, <1>3, <1>5
      <3> QED BY <1>4, <1>6, <2>3, <3>1, <3>2
    <2>4. CASE v # w
      <3>1. File!Writing(v) /\ writer'[v] = writer[v] /\ writer[v].inode \notin shared
        BY <1>6, <1>7, <1>8, <2>4
      <3>2. writer[v].inode # n /\ writer[v].inode \in 1 .. MaxFiles
        BY <2>1, <3>1, WriterShapes DEF File!Writing, FileWrite
      <3>3. \A u \in Tasks : File!Writing(u)' /\ writer'[u].inode = writer[v].inode => u = v
        BY <1>4, <1>6, <1>7, <3>1, <3>2 DEF OwnFile
      <3> QED BY <1>2, <1>3, <1>8, <3>1, <3>2, <3>3 DEF OwnFile
    <2> QED BY <2>3, <2>4
  <1>12. File!FilesWhole'
    <2> SUFFICES ASSUME NEW x \in disk', ~x.tmp, x.inode \notin shared'
                 PROVE  inodes'[x.inode] = inodes[x.inode] /\ x \in disk /\ x.inode \notin shared
      BY DEF File!FilesWhole
    <2>1. x \in disk /\ x.inode # n
      BY <1>2, <1>3, <1>5
    <2> QED BY <1>8, <2>1 DEF FileTypes, DiskFile
  <1> QED BY <1>9, <1>10, <1>11, <1>12

\* A piece goes to the writer's own file, or to one that is set apart.
LEMMA WritePieceKeeps ==
    ASSUME FileInv, NEW w \in Tasks, File!WritePiece(w)
    PROVE  FileInv'
  <1> USE DEF FileInv
  <1> DEFINE m == writer[w]
             next == IF m.next < Parts THEN [m EXCEPT !.next = @ + 1] ELSE [m EXCEPT !.pc = "rename"]
  <1>1. m \in FileWrite /\ m.pc = "write" /\ File!Writing(w)
    BY WriterShapes DEF File!WritePiece, File!Writing
  <1>2. PICK n \in 1 .. MaxFiles : n = m.inode
    BY <1>1 DEF FileWrite
  <1>3. /\ inodes' = [inodes EXCEPT ![n][m.next] = m.write]
        /\ writer' = [writer EXCEPT ![w] = next]
        /\ UNCHANGED << disk, used, writes, shared >>
    BY <1>2 DEF File!WritePiece
  <1>4. /\ m.next \in 1 .. Parts /\ m.write \in Nat \ {0} /\ Parts \in Nat
    BY <1>1, BoundsAssumption DEF FileWrite, File!FilesAssumption
  <1>5. /\ next \in FileWrite /\ next.inode = n /\ next.write = m.write
        /\ next.pc = "write" => next.next = m.next + 1
        /\ next.pc = "rename" => m.next = Parts
    <2>1. CASE m.next < Parts
      BY <1>1, <1>2, <1>4, <2>1 DEF FileWrite
    <2>2. CASE ~(m.next < Parts)
      BY <1>1, <1>2, <1>4, <2>2 DEF FileWrite
    <2> QED BY <2>1, <2>2
  <1> HIDE DEF next
  <1>6. \A v \in Tasks : writer'[v] = IF v = w THEN next ELSE writer[v]
    BY <1>3 DEF FileTypes
  <1>7. \A v \in Tasks : File!Writing(v)' = File!Writing(v) /\ (File!Writing(v) => writer'[v].inode = writer[v].inode)
    BY <1>1, <1>2, <1>5, <1>6 DEF File!Writing, FileWrite
  <1>8. /\ \A k \in (1 .. MaxFiles) \ {n} : inodes'[k] = inodes[k]
        /\ \A i \in 1 .. Parts : inodes'[n][i] = IF i = m.next THEN m.write ELSE inodes[n][i]
    BY <1>3, <1>4 DEF FileTypes
  <1>9. FileTypes'
    <2>1. inodes' \in [1 .. MaxFiles -> [1 .. Parts -> Nat]]
      BY <1>3, <1>4 DEF FileTypes
    <2>2. writer' \in [Tasks -> {File!Resting} \union FileWrite \union FileTrim]
      BY <1>3, <1>5 DEF FileTypes
    <2> QED BY <1>3, <1>7, <2>1, <2>2 DEF FileTypes
  <1>10. OneName'
    BY <1>3 DEF OneName
  <1>11. OwnFile'
    <2> SUFFICES ASSUME NEW v \in Tasks, File!Writing(v)', writer'[v].inode \notin shared'
                 PROVE  /\ \A u \in Tasks : File!Writing(u)' /\ writer'[u].inode = writer'[v].inode => u = v
                        /\ \A x \in disk' : x.inode = writer'[v].inode => x.tmp
                        /\ \A i \in 1 .. Parts : i < writer'[v].next \/ writer'[v].pc = "rename" =>
                             inodes'[writer'[v].inode][i] = writer'[v].write
      BY DEF OwnFile
    <2>1. File!Writing(v) /\ writer'[v].inode = writer[v].inode /\ writer[v].inode \notin shared
      BY <1>3, <1>7
    <2>2. /\ \A u \in Tasks : File!Writing(u)' /\ writer'[u].inode = writer'[v].inode => u = v
          /\ \A x \in disk' : x.inode = writer'[v].inode => x.tmp
      BY <1>3, <1>7, <2>1 DEF OwnFile
    <2>3. ASSUME NEW i \in 1 .. Parts, i < writer'[v].next \/ writer'[v].pc = "rename"
          PROVE  inodes'[writer'[v].inode][i] = writer'[v].write
      <3>1. CASE v = w
        <4>1. writer'[v] = next
          BY <1>6, <3>1
        <4>2. next.pc \in {"write", "rename"}
          BY <1>5 DEF FileWrite
        <4>3. i = m.next \/ i < m.next
          BY <1>4, <1>5, <2>3, <4>1, <4>2
        <4>4. i < m.next => inodes[n][i] = m.write
          BY <1>1, <1>2, <2>1, <3>1 DEF OwnFile
        <4> QED BY <1>4, <1>5, <1>8, <4>1, <4>3, <4>4
      <3>2. CASE v # w
        <4>1. writer'[v] = writer[v] /\ writer[v].inode # n
          BY <1>1, <1>2, <1>6, <2>1, <3>2 DEF OwnFile
        <4>2. writer[v].inode \in 1 .. MaxFiles
          BY <2>1, WriterShapes DEF File!Writing, FileWrite
        <4> QED BY <1>8, <2>1, <2>3, <4>1, <4>2 DEF OwnFile
      <3> QED BY <3>1, <3>2
    <2> QED BY <2>2, <2>3
  <1>12. File!FilesWhole'
    <2> SUFFICES ASSUME NEW x \in disk, ~x.tmp, x.inode \notin shared
                 PROVE  inodes'[x.inode] = inodes[x.inode]
      BY <1>3 DEF File!FilesWhole
    <2>1. x.inode # n
      BY <1>1, <1>2 DEF OwnFile
    <2> QED BY <1>8, <2>1 DEF FileTypes, DiskFile
  <1> QED BY <1>9, <1>10, <1>11, <1>12

\* What is renamed is the writer's own file with all its pieces, or is set apart.
LEMMA RenameKeeps ==
    ASSUME FileInv, NEW w \in Tasks, File!Rename(w)
    PROVE  FileInv'
  <1> USE DEF FileInv
  <1> DEFINE m == writer[w]
             tmp == File!At(m.dir, m.file, TRUE)
             final(x) == [x EXCEPT !.tmp = FALSE]
  <1>1. m \in FileWrite /\ m.pc = "rename" /\ File!Writing(w)
    BY WriterShapes DEF File!Rename, File!Writing
  <1>2. /\ writer' = [writer EXCEPT ![w] = File!Resting]
        /\ UNCHANGED << inodes, used, writes >>
        /\ shared' = shared \union {x.inode : x \in {y \in tmp : y.inode # m.inode}}
        /\ \A y \in tmp : y.inode # m.inode => y.inode \in shared'
        /\ \A x \in disk' : x \in disk \ tmp \/ \E y \in tmp : x = final(y)
    BY DEF File!Rename
  <1>3. \A y \in tmp : y \in disk /\ final(y) \in DiskFile /\ final(y).inode = y.inode /\ ~final(y).tmp
    BY DEF File!At, FileTypes, DiskFile
  <1> HIDE DEF tmp, final
  <1>4. \A v \in Tasks : writer'[v] = IF v = w THEN File!Resting ELSE writer[v]
    BY <1>2 DEF FileTypes
  <1>5. \A v \in Tasks : File!Writing(v)' => v # w /\ File!Writing(v) /\ writer'[v] = writer[v]
    BY <1>4 DEF File!Writing, File!Resting
  <1>6. \A x \in disk' : \E y \in disk : /\ x.inode = y.inode /\ x \in DiskFile
                                         /\ \/ x = y /\ x \notin tmp
                                            \/ y \in tmp /\ x = final(y)
    BY <1>2, <1>3 DEF FileTypes
  <1>7. FileTypes'
    <2>1. writer' \in [Tasks -> {File!Resting} \union FileWrite \union FileTrim]
      BY <1>2 DEF FileTypes
    <2> QED BY <1>2, <1>5, <1>6, <2>1 DEF FileTypes
  <1>8. OneName'
    BY <1>6 DEF OneName
  <1>9. OwnFile'
    <2> SUFFICES ASSUME NEW v \in Tasks, File!Writing(v)', writer'[v].inode \notin shared'
                 PROVE  /\ \A u \in Tasks : File!Writing(u)' /\ writer'[u].inode = writer'[v].inode => u = v
                        /\ \A x \in disk' : x.inode = writer'[v].inode => x.tmp
                        /\ \A i \in 1 .. Parts : i < writer'[v].next \/ writer'[v].pc = "rename" =>
                             inodes'[writer'[v].inode][i] = writer'[v].write
      BY DEF OwnFile
    <2>1. v # w /\ File!Writing(v) /\ writer'[v] = writer[v] /\ writer[v].inode \notin shared
      BY <1>2, <1>5
    <2>2. writer[v].inode # m.inode
      BY <1>1, <2>1 DEF OwnFile
    <2>3. \A x \in disk' : x.inode = writer[v].inode => x.tmp
      <3> SUFFICES ASSUME NEW x \in disk', x.inode = writer[v].inode PROVE x.tmp
        OBVIOUS
      <3>1. PICK y \in disk : x.inode = y.inode /\ (x = y \/ y \in tmp)
        BY <1>6
      <3>2. y \notin tmp
        BY <1>2, <2>1, <2>2, <3>1
      <3> QED BY <2>1, <3>1, <3>2 DEF OwnFile
    <2> QED BY <1>2, <1>5, <2>1, <2>3 DEF OwnFile
  <1>10. File!FilesWhole'
    <2> SUFFICES ASSUME NEW x \in disk', ~x.tmp, x.inode \notin shared'
                 PROVE  /\ inodes[x.inode][1] # 0
                        /\ \A i \in 1 .. Parts : inodes[x.inode][i] = inodes[x.inode][1]
      BY <1>2 DEF File!FilesWhole
    <2>1. PICK y \in disk : /\ x.inode = y.inode
                            /\ \/ x = y /\ x \notin tmp
                               \/ y \in tmp /\ x = final(y)
      BY <1>6
    <2>2. x.inode \notin shared
      BY <1>2
    <2>3. CASE x = y
      BY <2>1, <2>2, <2>3 DEF File!FilesWhole
    <2>4. CASE y \in tmp
      <3>1. x.inode = m.inode
        BY <1>2, <2>1, <2>4
      <3>2. \A i \in 1 .. Parts : inodes[m.inode][i] = m.write
        BY <1>1, <2>2, <3>1 DEF OwnFile
      <3>3. m.write # 0 /\ 1 \in 1 .. Parts
        BY <1>1, BoundsAssumption DEF FileWrite, File!FilesAssumption
      <3> QED BY <3>1, <3>2, <3>3
    <2> QED BY <2>1, <2>3, <2>4
  <1> QED BY <1>7, <1>8, <1>9, <1>10

LEMMA NextFileInv == FileInv /\ [File!FileNext]_fileVars => FileInv'
  <1> SUFFICES ASSUME FileInv, [File!FileNext]_fileVars PROVE FileInv'
    OBVIOUS
  <1> USE DEF FileInv
  <1>1. ASSUME NEW w \in Tasks, NEW n \in File!Names, File!Open(w, n[1], n[2])
        PROVE  FileInv'
    <2>1. n[1] \in Dirs /\ n[2] \in Nat
      <3>1. Runs \subseteq Nat
        BY BoundsAssumption DEF File!FilesAssumption
      <3>2. CASE n \in Aliases \X Runs
        BY <3>1, <3>2 DEF Dirs
      <3>3. CASE n = << Captures, 0 >>
        BY <3>3 DEF Dirs
      <3> QED BY <3>2, <3>3 DEF File!Names
    <2> QED BY <1>1, <2>1, OpenKeeps
  <1>2. ASSUME NEW w \in Tasks, NEW next \in {File!Resting} \union FileTrim,
               writer' = [writer EXCEPT ![w] = next], disk' \subseteq disk,
               UNCHANGED << inodes, used, writes, shared >>
        PROVE  FileInv'
    <2>1. next.pc \in {"rest", "trim"}
      BY DEF File!Resting, FileTrim
    <2>2. OneName' /\ disk' \subseteq DiskFile
      BY <1>2 DEF OneName, FileTypes
    <2>3. /\ writer' \in [Tasks -> {File!Resting} \union FileWrite \union FileTrim]
          /\ \A v \in Tasks : writer'[v] = writer[v] \/ writer'[v].pc \in {"rest", "trim"}
      BY <1>2, <2>1 DEF FileTypes
    <2> QED BY <1>2, <2>2, <2>3, NamesChange
  <1>3. ASSUME NEW w \in Tasks, NEW d \in Aliases, File!ListOld(w, d)
        PROVE  FileInv'
    <2> DEFINE old == {x.file : x \in {y \in File!Finals(d) :
                        File!Cardinality({z \in File!Finals(d) : z.file > y.file}) >= KeepRuns}}
               next == [pc |-> "trim", dir |-> d, old |-> old]
    <2>1. old \subseteq Nat
      BY DEF File!Finals, FileTypes, DiskFile
    <2>2. next \in FileTrim
      BY <2>1 DEF FileTrim, Dirs
    <2>3. writer' = [writer EXCEPT ![w] = next] /\ UNCHANGED << disk, inodes, used, writes, shared >>
      BY <1>3 DEF File!ListOld
    <2> HIDE DEF next
    <2> QED BY <1>2, <2>2, <2>3
  <1>4. ASSUME NEW w \in Tasks, File!RemoveOld(w)
        PROVE  FileInv'
    <2> DEFINE m == writer[w]
               f == File!Max(m.old)
               next == IF m.old = {f} THEN File!Resting ELSE [m EXCEPT !.old = @ \ {f}]
    <2>1. m \in FileTrim
      BY <1>4, WriterShapes DEF File!RemoveOld
    <2>2. next \in {File!Resting} \union FileTrim
      <3> HIDE DEF f
      <3> QED BY <2>1 DEF FileTrim
    <2>3. /\ writer' = [writer EXCEPT ![w] = next] /\ disk' \subseteq disk
          /\ UNCHANGED << inodes, used, writes, shared >>
      BY <1>4 DEF File!RemoveOld
    <2> HIDE DEF next
    <2> QED BY <1>2, <2>2, <2>3
  <1>5. ASSUME NEW w \in Tasks, File!Abandon(w)
        PROVE  FileInv'
    BY <1>2, <1>5 DEF File!Abandon
  <1>6. ASSUME NEW d \in Aliases, NEW e \in Aliases \ {d}, File!RenameAlias(d, e)
        PROVE  FileInv'
    <2> DEFINE moved(x) == [x EXCEPT !.dir = IF @ = d THEN e ELSE @]
    <2>1. \A x \in disk : moved(x) \in DiskFile /\ moved(x).inode = x.inode /\ moved(x).tmp = x.tmp
      BY DEF FileTypes, DiskFile, Dirs
    <2>2. disk' = {moved(x) : x \in disk} /\ UNCHANGED << inodes, used, writer, writes, shared >>
      BY <1>6 DEF File!RenameAlias
    <2> HIDE DEF moved
    <2>3. OneName'
      BY <2>1, <2>2 DEF OneName
    <2> QED BY <2>1, <2>2, <2>3, NamesChange DEF FileTypes
  <1>7. CASE File!DeleteCaptures
    BY <1>7, NamesChange DEF File!DeleteCaptures, OneName, FileTypes
  <1>8. CASE UNCHANGED fileVars
    BY <1>8, NamesChange DEF fileVars, OneName, FileTypes
  <1> QED
    BY <1>1, <1>3, <1>4, <1>5, <1>6, <1>7, <1>8, WritePieceKeeps, RenameKeeps DEF File!FileNext

\* A file under its final name holds one write from the first piece to the last, whoever
\* dies, lists, removes or renames meanwhile; unless two writers had it open at once, or one
\* renamed another's.
THEOREM FilesAreWhole == Spec => []FilesWhole
  <1>1. FileInv => FilesWhole
    BY DEF FileInv, FilesWhole
  <1> QED BY <1>1, InitFileInv, NextFileInv, NextOfAll, PTL DEF Spec

-----------------------------------------------------------------------------
(* Edits of connections                                                    *)

ConnRow == [name : ConnNames, host : Hosts \union {Empty}, password : {Sentinel, Empty, None}]
AskedRow == [name : ConnNames, host : Hosts \union {Empty}, password : Passwords \union {Empty, None}]
CreateCall == [pc : {"insert"}, id : Conns, input : AskedRow, seen : {Conn!NoRow}]
UpdateCall == [pc : {"store", "write"}, id : Conns, input : {i \in Conn!Inputs : i.password # None}, seen : ConnRow]
LateCall == [pc : {"erase", "fetch"}, id : Conns, input : {Conn!NoRow}, seen : {Conn!NoRow}]
ConnCalls == {Conn!Ready} \union CreateCall \union UpdateCall \union LateCall

ConnTypes ==
    /\ conns \in [Conns -> {Conn!NoRow} \union ConnRow]
    /\ keychain \in [Conns -> Passwords \union {None}]
    /\ asked \in [Conns -> {Conn!NoRow} \union AskedRow]
    /\ calls \in [Tasks -> ConnCalls]

\* A creation has its connection, which has never been there, for itself, and its password
\* is in the keychain.
CreatesAlone ==
    \A c \in Tasks :
      calls[c].pc = "insert" =>
        LET id == calls[c].id password == calls[c].input.password IN
        /\ asked[id] = Conn!NoRow /\ ~Conn!Stored(id)
        /\ password \in Passwords => keychain[id] = password
        /\ \A d \in Tasks : calls[d].pc # "ready" /\ calls[d].id = id => d = c

\* A connection that is there was created, and its deletion has not begun.
StoredOnce ==
    /\ \A id \in Conns : Conn!Stored(id) => asked[id] # Conn!NoRow
    /\ \A c \in Tasks : calls[c].pc = "erase" => ~Conn!Stored(calls[c].id) /\ asked[calls[c].id] # Conn!NoRow

\* The update c has stored its password and is yet to write the row.
Ahead(c, id) ==
    calls[c].pc = "write" /\ calls[c].id = id /\ calls[c].input.password \in Passwords

\* The keychain has a password wherever a row or a call, which may write it back, says so.
SecretThere(id) ==
    Conn!Stored(id) =>
      /\ conns[id].password = Sentinel => keychain[id] # None
      /\ \A c \in Tasks :
           calls[c].pc \in {"store", "write"} /\ calls[c].id = id /\ calls[c].seen.password = Sentinel
             => keychain[id] # None
      /\ \A c \in Tasks : Ahead(c, id) => keychain[id] # None

\* The password in the keychain is that of the last call that wrote the row, or of one that
\* is yet to write it.
PasswordKept(id) ==
    IF conns[id].password = Sentinel
    THEN keychain[id] = asked[id].password
         \/ \E c \in Tasks : Ahead(c, id) /\ keychain[id] = calls[c].input.password
    ELSE conns[id].password = asked[id].password

FieldsKept(id) ==
    Conn!Stored(id) =>
      /\ << id, "name" >> \notin spoilt => conns[id].name = asked[id].name
      /\ << id, "host" >> \notin spoilt => conns[id].host = asked[id].host
      /\ << id, "password" >> \notin spoilt => PasswordKept(id)

ConnInv ==
    /\ ConnTypes /\ CreatesAlone /\ StoredOnce
    /\ \A id \in Conns : SecretThere(id) /\ FieldsKept(id)

LEMMA ConnConstants ==
    /\ Empty \notin {Keep, None, Sentinel} /\ Keep \notin {None, Sentinel} /\ None # Sentinel
    /\ {Empty, Keep, None, Sentinel} \intersect (ConnNames \union Hosts \union Passwords) = {}
  BY BoundsAssumption DEF Conn!ConnAssumption

LEMMA NoRowIsNoRow == Conn!NoRow \notin ConnRow \union AskedRow
  BY ConnConstants DEF Conn!NoRow, Conn!Row, ConnRow, AskedRow

LEMMA ConnCallShapes ==
    ASSUME ConnTypes, NEW c \in Tasks
    PROVE  /\ calls[c].pc = "insert" => calls[c] \in CreateCall
           /\ calls[c].pc \in {"store", "write"} => calls[c] \in UpdateCall
           /\ calls[c].pc \in {"erase", "fetch"} => calls[c] \in LateCall
           /\ calls[c].pc # "ready" => calls[c].id \in Conns
           /\ calls[c].pc = "ready" <=> calls[c] = Conn!Ready
  <1>1. calls[c] \in {Conn!Ready} \union CreateCall \union UpdateCall \union LateCall
    BY DEF ConnTypes, ConnCalls
  <1> QED BY <1>1 DEF Conn!Ready, CreateCall, UpdateCall, LateCall

\* The fields of a merged row, and of the row that is written.
LEMMA MergedFields ==
    ASSUME NEW row \in ConnRow \union AskedRow, NEW input \in Conn!Inputs
    PROVE  LET merged == Conn!Merged(row, input) IN
           /\ merged.name = IF input.name = Keep THEN row.name ELSE input.name
           /\ merged.host = IF input.host = Keep THEN row.host ELSE input.host
           /\ merged.password = IF input.password = Keep THEN row.password ELSE input.password
           /\ \A p : LET next == [merged EXCEPT !.password = p] IN
                     next.name = merged.name /\ next.host = merged.host /\ next.password = p
  BY DEF Conn!Merged, ConnRow, AskedRow, Conn!Inputs

LEMMA MergedShapes ==
    ASSUME NEW input \in Conn!Inputs, input.password # None
    PROVE  /\ \A seen \in ConnRow :
                [Conn!Merged(seen, input) EXCEPT !.password = Conn!NextPassword(seen, input)] \in ConnRow
           /\ \A row \in AskedRow : Conn!Merged(row, input) \in AskedRow
  <1>1. ASSUME NEW seen \in ConnRow
        PROVE  [Conn!Merged(seen, input) EXCEPT !.password = Conn!NextPassword(seen, input)] \in ConnRow
    <2> DEFINE p == Conn!NextPassword(seen, input)
    <2>1. p \in {Sentinel, Empty, None}
      BY <1>1 DEF Conn!NextPassword, Conn!Secured, Conn!Inputs, ConnRow
    <2> HIDE DEF p
    <2>2. [Conn!Merged(seen, input) EXCEPT !.password = p] \in ConnRow
      BY <2>1 DEF Conn!Merged, Conn!Inputs, ConnRow
    <2> QED BY <2>2 DEF p
  <1>2. ASSUME NEW row \in AskedRow PROVE Conn!Merged(row, input) \in AskedRow
    BY DEF Conn!Merged, Conn!Inputs, AskedRow
  <1> QED BY <1>1, <1>2

LEMMA InitConnInv == Init => ConnInv
  BY InitOfAll DEF Conn!ConnInit, ConnInv, ConnTypes, ConnCalls, CreatesAlone, StoredOnce, SecretThere, FieldsKept,
                   Conn!Stored, Conn!Ready

\* A step of c at work on id.
Step(c, id, next) ==
    /\ next \in ConnCalls
    /\ calls' = [calls EXCEPT ![c] = next]
    /\ calls[c].pc = "ready" \/ calls[c].id = id
    /\ next.pc = "ready" \/ next.id = id
    /\ \A o \in Conns \ {id} :
         /\ conns'[o] = conns[o] /\ keychain'[o] = keychain[o] /\ asked'[o] = asked[o]
         /\ \A f : << o, f >> \in spoilt' <=> << o, f >> \in spoilt

\* It keeps what is known of the others.
LEMMA OthersStay ==
    ASSUME ConnInv, NEW c \in Tasks, NEW id \in Conns, NEW next, Step(c, id, next)
    PROVE  /\ \A d \in Tasks : calls'[d] = IF d = c THEN next ELSE calls[d]
           /\ \A o \in Conns \ {id} : (Conn!Stored(o)' <=> Conn!Stored(o)) /\ SecretThere(o)' /\ FieldsKept(o)'
  <1>1. \A d \in Tasks : calls'[d] = IF d = c THEN next ELSE calls[d]
    BY DEF Step, ConnInv, ConnTypes
  <1>2. ASSUME NEW o \in Conns \ {id}
        PROVE  (Conn!Stored(o)' <=> Conn!Stored(o)) /\ SecretThere(o)' /\ FieldsKept(o)'
    <2>1. /\ Conn!Stored(o)' <=> Conn!Stored(o)
          /\ conns'[o] = conns[o] /\ keychain'[o] = keychain[o] /\ asked'[o] = asked[o]
          /\ \A f : << o, f >> \in spoilt' <=> << o, f >> \in spoilt
      BY DEF Step, Conn!Stored
    <2>2. \A d \in Tasks : calls'[d].pc # "ready" /\ calls'[d].id = o => d # c /\ calls'[d] = calls[d]
      BY <1>1 DEF Step
    <2>3. \A d \in Tasks : calls[d].pc # "ready" /\ calls[d].id = o => d # c /\ calls'[d] = calls[d]
      BY <1>1 DEF Step
    <2>4. \A d \in Tasks : (Ahead(d, o)' <=> Ahead(d, o)) /\ (Ahead(d, o) => calls'[d] = calls[d])
      BY <2>2, <2>3 DEF Ahead
    <2>5. SecretThere(o)'
      BY <2>1, <2>2, <2>4 DEF SecretThere, ConnInv
    <2>6. FieldsKept(o)'
      <3>1. PasswordKept(o) => PasswordKept(o)'
        BY <2>1, <2>4 DEF PasswordKept
      <3> QED BY <2>1, <3>1 DEF FieldsKept, ConnInv
    <2> QED BY <2>1, <2>5, <2>6
  <1> QED BY <1>1, <1>2

\* What is left to show of a step.
LEMMA StepKeeps ==
    ASSUME ConnInv, NEW c \in Tasks, NEW id \in Conns, NEW next, Step(c, id, next),
           ConnTypes', CreatesAlone', StoredOnce', SecretThere(id)', FieldsKept(id)'
    PROVE  ConnInv'
  BY OthersStay DEF ConnInv

\* A call ends, or has written what there was to write, and leaves the tables alone; a
\* password of its own that is in the keychain under a row that refers to it is spoilt.
LEMMA CallEnds ==
    ASSUME ConnInv, NEW c \in Tasks, calls[c].pc # "ready", NEW id, id = calls[c].id,
           NEW next \in {Conn!Ready} \union LateCall, next.pc \in {"ready", "fetch"}, next.pc = "ready" \/ next.id = id,
           calls' = [calls EXCEPT ![c] = next], UNCHANGED << conns, keychain, asked >>,
           spoilt' \in {spoilt, spoilt \union Conn!Orphaned(id)},
           Ahead(c, id) /\ keychain[id] = calls[c].input.password /\ Conn!Stored(id)
             => spoilt' = spoilt \union Conn!Orphaned(id)
    PROVE  ConnInv'
  <1> USE DEF ConnInv
  <1>0. id \in Conns
    BY ConnCallShapes
  <1>1. Step(c, id, next)
    BY DEF Step, ConnCalls, Conn!Orphaned
  <1>2. \A d \in Tasks : calls'[d] = IF d = c THEN next ELSE calls[d]
    BY <1>0, <1>1, OthersStay
  <1>3. ConnTypes'
    BY DEF ConnTypes, ConnCalls
  <1>4. \A o : Conn!Stored(o)' = Conn!Stored(o)
    BY DEF Conn!Stored
  <1>5. CreatesAlone' /\ StoredOnce'
    BY <1>2, <1>4 DEF CreatesAlone, StoredOnce
  <1>6. SecretThere(id)'
    BY <1>0, <1>2, <1>4 DEF SecretThere, Ahead
  <1>7. FieldsKept(id)'
    <2>1. ASSUME Conn!Stored(id), << id, "password" >> \notin spoilt'
          PROVE  PasswordKept(id)'
      <3>1. << id, "password" >> \notin spoilt /\ PasswordKept(id)
        BY <1>0, <2>1 DEF FieldsKept
      <3>2. CASE conns[id].password # Sentinel
        BY <3>1, <3>2 DEF PasswordKept
      <3>3. CASE conns[id].password = Sentinel
        <4>1. << id, "password" >> \in Conn!Orphaned(id)
          BY <2>1, <3>3 DEF Conn!Orphaned
        <4>2. ~(Ahead(c, id) /\ keychain[id] = calls[c].input.password)
          BY <2>1, <4>1
        <4>3. \A d \in Tasks \ {c} : Ahead(d, id) => Ahead(d, id)' /\ calls'[d] = calls[d]
          BY <1>2 DEF Ahead
        <4> QED BY <3>1, <3>3, <4>2, <4>3 DEF PasswordKept
      <3> QED BY <3>2, <3>3
    <2> QED BY <1>0, <1>4, <2>1 DEF FieldsKept
  <1> QED BY <1>0, <1>1, <1>3, <1>5, <1>6, <1>7, StepKeeps

LEMMA BeginCreateKeeps ==
    ASSUME ConnInv, NEW c \in Tasks, NEW id \in Conns,
           NEW input \in {i \in Conn!Inputs : Keep \notin {i.name, i.host, i.password}},
           Conn!BeginCreate(c, id, input)
    PROVE  ConnInv'
  <1> USE DEF ConnInv
  <1> DEFINE next == [pc |-> "insert", id |-> id, input |-> input, seen |-> Conn!NoRow]
  <1>1. input \in AskedRow
    BY DEF Conn!Inputs, AskedRow
  <1>2. /\ calls[c] = Conn!Ready /\ ~Conn!Stored(id) /\ asked[id] = Conn!NoRow /\ keychain[id] = None
        /\ \A d \in Tasks : ~(calls[d].pc # "ready" /\ calls[d].id = id)
        /\ keychain' = [keychain EXCEPT ![id] = IF input.password \in Passwords THEN input.password ELSE @]
        /\ calls' = [calls EXCEPT ![c] = next]
        /\ UNCHANGED << conns, asked, spoilt >>
    BY DEF Conn!BeginCreate, Conn!Becomes, Conn!Busy
  <1>3. next \in CreateCall /\ next.pc = "insert" /\ next.id = id /\ next.input = input
    BY <1>1 DEF CreateCall
  <1> HIDE DEF next
  <1>4. /\ \A o \in Conns \ {id} : keychain'[o] = keychain[o]
        /\ keychain'[id] = IF input.password \in Passwords THEN input.password ELSE None
    BY <1>2 DEF ConnTypes
  <1>5. Step(c, id, next)
    BY <1>2, <1>3, <1>4 DEF Step, ConnCalls, Conn!Ready
  <1>6. \A d \in Tasks : calls'[d] = IF d = c THEN next ELSE calls[d]
    BY <1>5, OthersStay
  <1>7. ConnTypes'
    BY <1>2, <1>3 DEF ConnTypes, ConnCalls
  <1>8. \A o : Conn!Stored(o)' = Conn!Stored(o)
    BY <1>2 DEF Conn!Stored
  <1>9. CreatesAlone'
    BY <1>2, <1>3, <1>4, <1>6, <1>8, ConnCallShapes DEF CreatesAlone
  <1>10. StoredOnce'
    BY <1>2, <1>3, <1>6, <1>8 DEF StoredOnce
  <1>11. SecretThere(id)' /\ FieldsKept(id)'
    BY <1>2, <1>8 DEF SecretThere, FieldsKept
  <1> QED BY <1>5, <1>7, <1>9, <1>10, <1>11, StepKeeps

LEMMA InsertRowKeeps ==
    ASSUME ConnInv, NEW c \in Tasks, Conn!InsertRow(c)
    PROVE  ConnInv'
  <1> USE DEF ConnInv
  <1>1. calls[c] \in CreateCall /\ calls[c].pc = "insert"
    BY ConnCallShapes DEF Conn!InsertRow
  <1>2. PICK id \in Conns, input \in AskedRow : id = calls[c].id /\ input = calls[c].input
    BY <1>1 DEF CreateCall
  <1> DEFINE row == [input EXCEPT !.password = Conn!Secured(@)]
             next == [pc |-> "fetch", id |-> id, input |-> Conn!NoRow, seen |-> Conn!NoRow]
  <1>3. /\ conns' = [conns EXCEPT ![id] = row] /\ asked' = [asked EXCEPT ![id] = input]
        /\ calls' = [calls EXCEPT ![c] = next] /\ UNCHANGED << keychain, spoilt >>
    BY <1>2 DEF Conn!InsertRow, Conn!Becomes
  <1>4. /\ row \in ConnRow /\ row.name = input.name /\ row.host = input.host
        /\ row.password = IF input.password \in Passwords THEN Sentinel ELSE input.password
    BY <1>2 DEF AskedRow, ConnRow, Conn!Secured
  <1>5. next \in LateCall /\ next.pc = "fetch" /\ next.id = id
    BY DEF LateCall
  <1> HIDE DEF row, next
  <1>6. /\ asked[id] = Conn!NoRow /\ ~Conn!Stored(id)
        /\ input.password \in Passwords => keychain[id] = input.password
        /\ \A d \in Tasks : calls[d].pc # "ready" /\ calls[d].id = id => d = c
    BY <1>1, <1>2 DEF CreatesAlone
  <1>7. /\ \A o \in Conns \ {id} : conns'[o] = conns[o] /\ asked'[o] = asked[o]
        /\ conns'[id] = row /\ asked'[id] = input
    BY <1>3 DEF ConnTypes
  <1>8. Step(c, id, next)
    BY <1>2, <1>3, <1>5, <1>7 DEF Step, ConnCalls
  <1>9. /\ \A d \in Tasks : calls'[d] = IF d = c THEN next ELSE calls[d]
        /\ \A o \in Conns \ {id} : Conn!Stored(o)' <=> Conn!Stored(o)
    BY <1>8, OthersStay
  <1>10. ConnTypes'
    BY <1>2, <1>3, <1>4, <1>5 DEF ConnTypes, ConnCalls
  <1>11. \A d \in Tasks \ {c} : calls'[d] = calls[d] /\ (calls[d].pc # "ready" => calls[d].id \in Conns \ {id})
    BY <1>6, <1>9, ConnCallShapes
  <1>12. CreatesAlone'
    BY <1>3, <1>5, <1>7, <1>9, <1>11 DEF CreatesAlone
  <1>13. StoredOnce'
    BY <1>2, <1>5, <1>7, <1>9, <1>11, NoRowIsNoRow DEF StoredOnce
  <1>14. SecretThere(id)'
    BY <1>3, <1>4, <1>5, <1>6, <1>7, <1>9, <1>11, ConnConstants DEF SecretThere, Ahead, AskedRow
  <1>15. FieldsKept(id)'
    <2>1. PasswordKept(id)'
      BY <1>2, <1>3, <1>4, <1>6, <1>7, ConnConstants DEF PasswordKept, AskedRow
    <2> QED BY <1>4, <1>7, <2>1 DEF FieldsKept
  <1> QED BY <1>8, <1>10, <1>12, <1>13, <1>14, <1>15, StepKeeps

LEMMA ReadRowKeeps ==
    ASSUME ConnInv, NEW c \in Tasks, NEW id \in Conns,
           NEW input \in {i \in Conn!Inputs : i.password # None}, Conn!ReadRow(c, id, input)
    PROVE  ConnInv'
  <1> USE DEF ConnInv
  <1> DEFINE next == [pc |-> "store", id |-> id, input |-> input, seen |-> conns[id]]
  <1>1. /\ calls[c] = Conn!Ready /\ calls[c].pc = "ready" /\ Conn!Stored(id)
        /\ calls' = [calls EXCEPT ![c] = next]
        /\ UNCHANGED << conns, keychain, asked, spoilt >>
    BY DEF Conn!ReadRow, Conn!Becomes, Conn!Ready
  <1>2. conns[id] \in ConnRow
    BY <1>1 DEF ConnTypes, Conn!Stored
  <1>3. next \in UpdateCall /\ next.pc = "store" /\ next.id = id /\ next.seen = conns[id]
    BY <1>2 DEF UpdateCall
  <1> HIDE DEF next
  <1>4. Step(c, id, next)
    BY <1>1, <1>3 DEF Step, ConnCalls
  <1>5. \A d \in Tasks : calls'[d] = IF d = c THEN next ELSE calls[d]
    BY <1>4, OthersStay
  <1>6. ConnTypes'
    BY <1>1, <1>3 DEF ConnTypes, ConnCalls
  <1>7. \A o : Conn!Stored(o)' = Conn!Stored(o)
    BY <1>1 DEF Conn!Stored
  <1>8. CreatesAlone' /\ StoredOnce'
    BY <1>1, <1>3, <1>5, <1>7 DEF CreatesAlone, StoredOnce
  <1>9. \A d \in Tasks : (Ahead(d, id)' <=> Ahead(d, id)) /\ (Ahead(d, id) => calls'[d] = calls[d])
    BY <1>1, <1>3, <1>5 DEF Ahead
  <1>10. SecretThere(id)'
    BY <1>1, <1>3, <1>5, <1>7, <1>9 DEF SecretThere
  <1>11. FieldsKept(id)'
    <2>1. PasswordKept(id) => PasswordKept(id)'
      BY <1>1, <1>9 DEF PasswordKept
    <2> QED BY <1>1, <1>7, <2>1 DEF FieldsKept
  <1> QED BY <1>4, <1>6, <1>8, <1>10, <1>11, StepKeeps

LEMMA StorePasswordKeeps ==
    ASSUME ConnInv, NEW c \in Tasks, Conn!StorePassword(c)
    PROVE  ConnInv'
  <1> USE DEF ConnInv
  <1>1. calls[c] \in UpdateCall /\ calls[c].pc = "store"
    BY ConnCallShapes DEF Conn!StorePassword
  <1>2. PICK id \in Conns, input \in {i \in Conn!Inputs : i.password # None} :
          id = calls[c].id /\ input = calls[c].input
    BY <1>1 DEF UpdateCall
  <1>3. keychain' = [keychain EXCEPT ![id] = IF input.password \in Passwords THEN input.password ELSE @]
        /\ UNCHANGED << conns, asked >>
    BY <1>2 DEF Conn!StorePassword
  <1>4. /\ \A o \in Conns \ {id} : keychain'[o] = keychain[o]
        /\ keychain'[id] = IF input.password \in Passwords THEN input.password ELSE keychain[id]
        /\ keychain' \in [Conns -> Passwords \union {None}]
    BY <1>3 DEF ConnTypes
  <1>5. PICK next \in {Conn!Ready} \union UpdateCall :
          /\ calls' = [calls EXCEPT ![c] = next]
          /\ \/ /\ next.pc = "write" /\ next.id = id /\ next.input = input /\ next.seen = calls[c].seen
                /\ spoilt' = spoilt
             \/ /\ next = Conn!Ready /\ next.pc = "ready"
                /\ spoilt' = IF input.password \in Passwords THEN spoilt \union Conn!Orphaned(id) ELSE spoilt
    <2> DEFINE to == [pc |-> "write", id |-> id, input |-> input, seen |-> calls[c].seen]
    <2>1. to \in UpdateCall
      BY <1>1, <1>2 DEF UpdateCall
    <2>2. CASE Conn!Valid(Conn!Merged(calls[c].seen, input))
      <3>1. calls' = [calls EXCEPT ![c] = to] /\ spoilt' = spoilt
        BY <1>2, <2>2 DEF Conn!StorePassword, Conn!Becomes
      <3>2. to.pc = "write" /\ to.id = id /\ to.input = input /\ to.seen = calls[c].seen
        OBVIOUS
      <3> HIDE DEF to
      <3> QED BY <2>1, <3>1, <3>2
    <2>3. CASE ~Conn!Valid(Conn!Merged(calls[c].seen, input))
      <3>1. /\ calls' = [calls EXCEPT ![c] = Conn!Ready]
            /\ spoilt' = IF input.password \in Passwords THEN spoilt \union Conn!Orphaned(id) ELSE spoilt
        BY <1>2, <2>3 DEF Conn!StorePassword, Conn!Ends
      <3>2. Conn!Ready.pc = "ready"
        BY DEF Conn!Ready
      <3> QED BY <3>1, <3>2
    <2> QED BY <2>2, <2>3
  <1>6. Step(c, id, next)
    BY <1>1, <1>2, <1>3, <1>4, <1>5 DEF Step, ConnCalls, Conn!Orphaned
  <1>7. \A d \in Tasks : calls'[d] = IF d = c THEN next ELSE calls[d]
    BY <1>6, OthersStay
  <1>8. ConnTypes'
    BY <1>3, <1>4, <1>5 DEF ConnTypes, ConnCalls
  <1>9. \A o : Conn!Stored(o)' = Conn!Stored(o)
    BY <1>3 DEF Conn!Stored
  <1>10. CreatesAlone'
    <2> SUFFICES ASSUME NEW d \in Tasks, calls'[d].pc = "insert"
                 PROVE  /\ calls'[d] = calls[d] /\ calls[d].id # id /\ keychain'[calls[d].id] = keychain[calls[d].id]
                        /\ \A u \in Tasks : calls'[u].pc # "ready" /\ calls'[u].id = calls[d].id => u = d
      BY <1>3, <1>9 DEF CreatesAlone
    <2>1. d # c /\ calls'[d] = calls[d]
      BY <1>5, <1>7
    <2>2. calls[d].id # id /\ calls[d].id \in Conns
      BY <1>1, <1>2, <2>1, ConnCallShapes DEF CreatesAlone
    <2> QED BY <1>2, <1>4, <1>5, <1>7, <2>1, <2>2 DEF CreatesAlone
  <1>11. StoredOnce'
    BY <1>3, <1>5, <1>7, <1>9 DEF StoredOnce
  <1>12. None \notin Passwords
    BY ConnConstants
  <1>13. SecretThere(id)'
    <2> SUFFICES ASSUME Conn!Stored(id), keychain'[id] = None
                 PROVE  /\ conns[id].password # Sentinel
                        /\ \A d \in Tasks : calls'[d].pc \in {"store", "write"} /\ calls'[d].id = id =>
                                              calls'[d].seen.password # Sentinel
                        /\ \A d \in Tasks : ~Ahead(d, id)'
      BY <1>3, <1>9 DEF SecretThere
    <2>1. input.password \notin Passwords /\ keychain[id] = None
      BY <1>4, <1>12
    <2>2. /\ conns[id].password # Sentinel
          /\ \A d \in Tasks : calls[d].pc \in {"store", "write"} /\ calls[d].id = id => calls[d].seen.password # Sentinel
          /\ \A d \in Tasks : ~Ahead(d, id)
      BY <2>1 DEF SecretThere
    <2> QED BY <1>1, <1>2, <1>5, <1>7, <2>1, <2>2 DEF Ahead
  <1>14. FieldsKept(id)'
    <2>1. ASSUME Conn!Stored(id), << id, "password" >> \notin spoilt'
          PROVE  PasswordKept(id)'
      <3>1. PasswordKept(id)
        BY <1>5, <2>1 DEF FieldsKept
      <3>2. CASE conns[id].password # Sentinel
        BY <1>3, <3>1, <3>2 DEF PasswordKept
      <3>3. CASE conns[id].password = Sentinel
        <4>1. CASE input.password \in Passwords
          <5>1. << id, "password" >> \in Conn!Orphaned(id)
            BY <2>1, <3>3 DEF Conn!Orphaned
          <5>2. next.pc = "write" /\ next.id = id /\ next.input = input
            BY <1>5, <2>1, <4>1, <5>1
          <5>3. Ahead(c, id)' /\ keychain'[id] = calls'[c].input.password
            BY <1>4, <1>7, <4>1, <5>2 DEF Ahead
          <5> QED BY <1>3, <3>3, <5>3 DEF PasswordKept
        <4>2. CASE input.password \notin Passwords
          <5>1. \A d \in Tasks : Ahead(d, id) => Ahead(d, id)' /\ calls'[d] = calls[d]
            BY <1>1, <1>7 DEF Ahead
          <5> QED BY <1>3, <1>4, <3>1, <3>3, <4>2, <5>1 DEF PasswordKept
        <4> QED BY <4>1, <4>2
      <3> QED BY <3>2, <3>3
    <2>2. \A f : << id, f >> \in spoilt => << id, f >> \in spoilt'
      BY <1>5
    <2> QED BY <1>3, <1>9, <2>1, <2>2 DEF FieldsKept
  <1> QED BY <1>6, <1>8, <1>10, <1>11, <1>13, <1>14, StepKeeps

LEMMA WriteRowKeeps ==
    ASSUME ConnInv, NEW c \in Tasks, Conn!WriteRow(c)
    PROVE  ConnInv'
  <1> USE DEF ConnInv
  <1>1. calls[c] \in UpdateCall /\ calls[c].pc = "write"
    BY ConnCallShapes DEF Conn!WriteRow
  <1>2. PICK id \in Conns, input \in {i \in Conn!Inputs : i.password # None}, seen \in ConnRow :
          id = calls[c].id /\ input = calls[c].input /\ seen = calls[c].seen
    BY <1>1 DEF UpdateCall
  <1> DEFINE next == [pc |-> "fetch", id |-> id, input |-> Conn!NoRow, seen |-> Conn!NoRow]
  <1>3. next \in LateCall /\ next.pc = "fetch" /\ next.id = id
    BY DEF LateCall
  <1>4. calls' = [calls EXCEPT ![c] = next] /\ UNCHANGED keychain
    BY <1>2 DEF Conn!WriteRow, Conn!Becomes
  <1> HIDE DEF next
  <1>5. CASE ~Conn!Stored(id)
    <2>1. UNCHANGED << conns, asked, spoilt >>
      BY <1>2, <1>5 DEF Conn!WriteRow
    <2> QED BY <1>1, <1>2, <1>3, <1>4, <1>5, <2>1, CallEnds
  <1>6. CASE Conn!Stored(id)
    <2> DEFINE row == [Conn!Merged(seen, input) EXCEPT !.password = Conn!NextPassword(seen, input)]
               wish == Conn!Merged(asked[id], input)
               back == Conn!PutBack(id, input, seen)
    <2>1. /\ conns' = [conns EXCEPT ![id] = row] /\ asked' = [asked EXCEPT ![id] = wish]
          /\ spoilt' = (spoilt \ ({id} \X Conn!Named(input))) \union ({id} \X back)
      BY <1>2, <1>6 DEF Conn!WriteRow
    <2>2. asked[id] \in AskedRow /\ conns[id] \in ConnRow
      BY <1>6 DEF StoredOnce, ConnTypes, Conn!Stored
    <2>3. /\ row \in ConnRow /\ wish \in AskedRow
          /\ row.name = IF input.name = Keep THEN seen.name ELSE input.name
          /\ row.host = IF input.host = Keep THEN seen.host ELSE input.host
          /\ row.password = Conn!NextPassword(seen, input)
          /\ wish.name = IF input.name = Keep THEN asked[id].name ELSE input.name
          /\ wish.host = IF input.host = Keep THEN asked[id].host ELSE input.host
          /\ wish.password = IF input.password = Keep THEN asked[id].password ELSE input.password
      BY <2>2, MergedFields, MergedShapes
    <2>4. /\ input.name = Keep /\ "name" \notin back => seen.name = conns[id].name
          /\ input.host = Keep /\ "host" \notin back => seen.host = conns[id].host
          /\ input.password = Keep /\ "password" \notin back => seen.password = conns[id].password
          /\ input.password \in Passwords /\ "password" \notin back => keychain[id] = input.password
      BY DEF Conn!PutBack, Conn!Named, Conn!Fields
    <2>5. /\ << id, "name" >> \notin spoilt' =>
               "name" \notin back /\ (input.name = Keep => << id, "name" >> \notin spoilt)
          /\ << id, "host" >> \notin spoilt' =>
               "host" \notin back /\ (input.host = Keep => << id, "host" >> \notin spoilt)
          /\ << id, "password" >> \notin spoilt' =>
               "password" \notin back /\ (input.password = Keep => << id, "password" >> \notin spoilt)
          /\ \A o \in Conns \ {id} : \A f : << o, f >> \in spoilt' <=> << o, f >> \in spoilt
      BY <2>1 DEF Conn!Named
    <2> HIDE DEF row, wish, back
    <2>6. /\ \A o \in Conns \ {id} : conns'[o] = conns[o] /\ asked'[o] = asked[o]
          /\ conns'[id] = row /\ asked'[id] = wish
      BY <2>1 DEF ConnTypes
    <2>7. Step(c, id, next)
      BY <1>2, <1>3, <1>4, <2>5, <2>6 DEF Step, ConnCalls
    <2>8. /\ \A d \in Tasks : calls'[d] = IF d = c THEN next ELSE calls[d]
          /\ \A o \in Conns \ {id} : Conn!Stored(o)' <=> Conn!Stored(o)
      BY <2>7, OthersStay
    <2>9. ConnTypes'
      BY <1>3, <1>4, <2>1, <2>3 DEF ConnTypes, ConnCalls
    <2>10. \A d \in Tasks : calls[d].pc \in {"insert", "erase"} => calls[d].id \in Conns \ {id}
      BY <1>6, ConnCallShapes DEF CreatesAlone, StoredOnce
    <2>11. CreatesAlone'
      BY <1>3, <1>4, <2>6, <2>8, <2>10 DEF CreatesAlone
    <2>12. StoredOnce'
      BY <1>3, <2>3, <2>6, <2>8, <2>10, NoRowIsNoRow DEF StoredOnce
    <2>13. \A d \in Tasks : d # c /\ Ahead(d, id) => Ahead(d, id)' /\ calls'[d] = calls[d]
      BY <2>8 DEF Ahead
    <2>14. row.password = IF input.password = Keep THEN seen.password
                          ELSE IF input.password \in Passwords THEN Sentinel ELSE input.password
      BY <2>3 DEF Conn!NextPassword, Conn!Secured
    <2>15. input.password \in Passwords \union {Empty, Keep} /\ Sentinel # Empty
           /\ Keep \notin Passwords \union {Empty} /\ Sentinel \notin Passwords
      BY ConnConstants DEF Conn!Inputs
    <2>16. SecretThere(id)'
      <3> SUFFICES ASSUME keychain[id] = None
                   PROVE  /\ row.password # Sentinel
                          /\ \A d \in Tasks : calls'[d].pc \in {"store", "write"} /\ calls'[d].id = id =>
                                                calls'[d].seen.password # Sentinel
                          /\ \A d \in Tasks : ~Ahead(d, id)'
        BY <1>4, <2>6 DEF SecretThere
      <3>1. /\ \A d \in Tasks : calls[d].pc \in {"store", "write"} /\ calls[d].id = id => calls[d].seen.password # Sentinel
            /\ \A d \in Tasks : ~Ahead(d, id)
        BY <1>6 DEF SecretThere
      <3>2. seen.password # Sentinel /\ input.password \notin Passwords
        BY <1>1, <1>2, <3>1 DEF Ahead
      <3> QED BY <1>3, <2>8, <2>14, <2>15, <3>1, <3>2 DEF Ahead
    <2>17. FieldsKept(id)'
      <3>1. << id, "name" >> \notin spoilt' => row.name = wish.name
        BY <1>6, <2>3, <2>4, <2>5 DEF FieldsKept
      <3>2. << id, "host" >> \notin spoilt' => row.host = wish.host
        BY <1>6, <2>3, <2>4, <2>5 DEF FieldsKept
      <3>3. ASSUME << id, "password" >> \notin spoilt'
            PROVE  PasswordKept(id)'
        <4>1. CASE input.password \in Passwords
          BY <1>4, <2>3, <2>4, <2>5, <2>6, <2>14, <2>15, <3>3, <4>1 DEF PasswordKept
        <4>2. CASE input.password = Empty
          BY <2>3, <2>6, <2>14, <2>15, <4>2, ConnConstants DEF PasswordKept
        <4>3. CASE input.password = Keep
          <5>1. /\ PasswordKept(id) /\ row.password = conns[id].password /\ wish.password = asked[id].password
            BY <1>6, <2>3, <2>4, <2>5, <2>14, <3>3, <4>3 DEF FieldsKept
          <5>2. ~Ahead(c, id)
            BY <1>2, <2>15, <4>3 DEF Ahead
          <5> QED BY <1>4, <2>6, <2>13, <5>1, <5>2 DEF PasswordKept
        <4> QED BY <2>15, <4>1, <4>2, <4>3
      <3> QED BY <2>6, <3>1, <3>2, <3>3 DEF FieldsKept
    <2> QED BY <2>7, <2>9, <2>11, <2>12, <2>16, <2>17, StepKeeps
  <1> QED BY <1>5, <1>6

LEMMA DeleteRowKeeps ==
    ASSUME ConnInv, NEW c \in Tasks, NEW id \in Conns, Conn!DeleteRow(c, id)
    PROVE  ConnInv'
  <1> USE DEF ConnInv
  <1> DEFINE next == [pc |-> "erase", id |-> id, input |-> Conn!NoRow, seen |-> Conn!NoRow]
  <1>1. /\ calls[c] = Conn!Ready /\ calls[c].pc = "ready" /\ Conn!Stored(id)
        /\ conns' = [conns EXCEPT ![id] = Conn!NoRow]
        /\ calls' = [calls EXCEPT ![c] = next]
        /\ UNCHANGED << keychain, asked, spoilt >>
    BY DEF Conn!DeleteRow, Conn!Becomes, Conn!Ready
  <1>2. next \in LateCall /\ next.pc = "erase" /\ next.id = id
    BY DEF LateCall
  <1> HIDE DEF next
  <1>3. ~Conn!Stored(id)' /\ \A o \in Conns \ {id} : conns'[o] = conns[o]
    BY <1>1 DEF ConnTypes, Conn!Stored
  <1>4. Step(c, id, next)
    BY <1>1, <1>2, <1>3 DEF Step, ConnCalls
  <1>5. /\ \A d \in Tasks : calls'[d] = IF d = c THEN next ELSE calls[d]
        /\ \A o \in Conns \ {id} : Conn!Stored(o)' <=> Conn!Stored(o)
    BY <1>4, OthersStay
  <1>6. ConnTypes'
    BY <1>1, <1>2 DEF ConnTypes, ConnCalls
  <1>7. \A d \in Tasks : calls[d].pc # "ready" => calls[d].id \in Conns /\ d # c
    BY <1>1, ConnCallShapes
  <1>8. asked[id] # Conn!NoRow
    BY <1>1 DEF StoredOnce
  <1>9. CreatesAlone'
    BY <1>1, <1>2, <1>3, <1>5, <1>7, <1>8 DEF CreatesAlone
  <1>10. StoredOnce'
    BY <1>1, <1>2, <1>3, <1>5, <1>7, <1>8 DEF StoredOnce
  <1>11. SecretThere(id)' /\ FieldsKept(id)'
    BY <1>3 DEF SecretThere, FieldsKept
  <1> QED BY <1>4, <1>6, <1>9, <1>10, <1>11, StepKeeps

LEMMA ErasePasswordKeeps ==
    ASSUME ConnInv, NEW c \in Tasks, Conn!ErasePassword(c)
    PROVE  ConnInv'
  <1> USE DEF ConnInv
  <1>1. calls[c] \in LateCall /\ calls[c].pc = "erase"
    BY ConnCallShapes DEF Conn!ErasePassword
  <1>2. PICK id \in Conns : id = calls[c].id
    BY <1>1 DEF LateCall
  <1>3. ~Conn!Stored(id) /\ asked[id] # Conn!NoRow
    BY <1>1, <1>2 DEF StoredOnce
  <1>4. PICK p \in Passwords \union {None} : keychain' = [keychain EXCEPT ![id] = p]
    <2>1. PICK done \in BOOLEAN : keychain' = [keychain EXCEPT ![id] = IF done THEN None ELSE keychain[id]]
      BY <1>2 DEF Conn!ErasePassword
    <2> QED BY <2>1 DEF ConnTypes
  <1>5. UNCHANGED << conns, asked, spoilt >> /\ calls' = [calls EXCEPT ![c] = Conn!Ready] /\ Conn!Ready.pc = "ready"
    BY DEF Conn!ErasePassword, Conn!Ends, Conn!Ready
  <1>6. \A o \in Conns \ {id} : keychain'[o] = keychain[o]
    BY <1>4 DEF ConnTypes
  <1>7. Step(c, id, Conn!Ready)
    BY <1>2, <1>5, <1>6 DEF Step, ConnCalls
  <1>8. \A d \in Tasks : calls'[d] = IF d = c THEN Conn!Ready ELSE calls[d]
    BY <1>7, OthersStay
  <1>9. \A o : Conn!Stored(o)' = Conn!Stored(o)
    BY <1>5 DEF Conn!Stored
  <1>10. ConnTypes'
    BY <1>4, <1>5 DEF ConnTypes, ConnCalls
  <1>11. CreatesAlone'
    BY <1>3, <1>5, <1>6, <1>8, <1>9, ConnCallShapes DEF CreatesAlone
  <1>12. StoredOnce'
    BY <1>5, <1>8, <1>9 DEF StoredOnce
  <1>13. SecretThere(id)' /\ FieldsKept(id)'
    BY <1>3, <1>9 DEF SecretThere, FieldsKept
  <1> QED BY <1>7, <1>10, <1>11, <1>12, <1>13, StepKeeps

LEMMA NextConnInv == ConnInv /\ [Conn!ConnNext]_connVars => ConnInv'
  <1> SUFFICES ASSUME ConnInv, [Conn!ConnNext]_connVars PROVE ConnInv'
    OBVIOUS
  <1>1. Conn!Ready.pc = "ready"
    BY DEF Conn!Ready
  <1>2. ASSUME NEW c \in Tasks, Conn!Break(c)
        PROVE  ConnInv'
    <2> DEFINE id == calls[c].id password == calls[c].input.password
    <2>1. /\ calls[c].pc \in {"insert", "store", "write"} /\ calls' = [calls EXCEPT ![c] = Conn!Ready]
          /\ UNCHANGED << conns, keychain, asked >>
          /\ spoilt' = IF calls[c].pc = "write" /\ password \in Passwords /\ keychain[id] = password
                       THEN spoilt \union Conn!Orphaned(id) ELSE spoilt
      BY <1>2 DEF Conn!Break, Conn!Ends
    <2> QED BY <1>1, <2>1, CallEnds DEF Ahead
  <1>3. ASSUME NEW c \in Tasks, Conn!Fetch(c)
        PROVE  ConnInv'
    <2>1. calls[c].pc = "fetch" /\ calls' = [calls EXCEPT ![c] = Conn!Ready] /\ UNCHANGED << conns, keychain, asked, spoilt >>
      BY <1>3 DEF Conn!Fetch, Conn!Ends
    <2> QED BY <1>1, <2>1, CallEnds DEF Ahead
  <1>4. CASE UNCHANGED connVars
    BY <1>4 DEF connVars, ConnInv, ConnTypes, CreatesAlone, StoredOnce, SecretThere, FieldsKept, PasswordKept, Ahead,
                Conn!Stored
  <1> QED
    BY <1>2, <1>3, <1>4, BeginCreateKeeps, InsertRowKeeps, ReadRowKeeps, StorePasswordKeeps, WriteRowKeeps,
       DeleteRowKeeps, ErasePasswordKeeps DEF Conn!ConnNext

\* A connection has, field by field, the name, host and password of the last calls that
\* wrote its row, however calls on it overlap, fail or break off, but for the fields that
\* are spoilt: written back by an update that had read them before they changed, or, of a
\* password, replaced in the keychain by an update that failed or that another overtook.  A
\* password that has been stored for a row yet to be written is ahead of it.  A row never
\* refers to a password that is not in the keychain.
THEOREM ConnectionsAsEdited == Spec => []EditsKept
  <1>1. ConnInv => EditsKept
    <2> SUFFICES ASSUME ConnInv, NEW id \in Conns, Conn!Stored(id)
                 PROVE  /\ \A f \in {"name", "host"} : << id, f >> \notin spoilt => conns[id][f] = asked[id][f]
                        /\ << id, "password" >> \notin spoilt /\ Conn!Storing(id) = {} =>
                             Conn!Resolved(id) = asked[id].password
                        /\ conns[id].password = Sentinel => keychain[id] # None
      BY DEF EditsKept, Conn!EditsKept
    <2>1. FieldsKept(id) /\ SecretThere(id)
      BY DEF ConnInv
    <2>2. Conn!Storing(id) = {} => \A c \in Tasks : ~Ahead(c, id)
      BY DEF Conn!Storing, Conn!Busy, Ahead
    <2>3. << id, "password" >> \notin spoilt /\ Conn!Storing(id) = {} => Conn!Resolved(id) = asked[id].password
      BY <2>1, <2>2 DEF FieldsKept, PasswordKept, Conn!Resolved
    <2>4. ASSUME NEW f \in {"name", "host"}, << id, f >> \notin spoilt PROVE conns[id][f] = asked[id][f]
      <3>1. CASE f = "name"
        BY <2>1, <2>4, <3>1 DEF FieldsKept
      <3>2. CASE f = "host"
        BY <2>1, <2>4, <3>2 DEF FieldsKept
      <3> QED BY <2>4, <3>1, <3>2
    <2> QED BY <2>1, <2>3, <2>4 DEF SecretThere
  <1> QED BY <1>1, InitConnInv, NextConnInv, NextOfAll, PTL DEF Spec

-----------------------------------------------------------------------------
(* The folder of a vault                                                   *)

Content == {Folder!NoFile} \union [text : Nat \union {-1}, patterns : BOOLEAN]
FolderCall == [op : {"none", "create", "scaffold", "create_note", "write_note", "rename_note", "delete_note"},
               pc : {"idle", "folder", "mkdir", "git", "dirs", "look", "write", "absent", "place",
                     "empty", "fill", "delete"},
               item : 1 .. 4, file : Folder!Files, to : Folder!Files, text : Nat, seen : Content]

FolderTypes ==
    /\ saved \in [Folder!Files -> Content]
    /\ texts \in Nat
    /\ worker \in [Tasks -> FolderCall]

\* A call on a note is about notes, and the text that a rename or a new note puts in the
\* place of another is one it has found absent.
CallOnNotes(c) ==
    /\ c.op = "rename_note" => c.to # c.file
    /\ c.pc \in {"absent", "place", "empty", "fill", "delete"} => c.file \in Notes /\ c.to \in Notes
    /\ c.pc \in {"absent", "place"} => c.op \in {"create_note", "rename_note"}
    /\ c.pc = "place" => c.seen = Folder!NoFile
    /\ c.pc \in {"empty", "fill"} => c.op = "write_note"
    /\ c.pc = "delete" => c.op = "delete_note"

\* A scaffold that has come to a file has left the ones before it in place.
InPlace == {f \in Folder!Range(Folder!Scaffold) : Folder!Exists(f)}
InOrder(c, there) ==
    IF c.pc \in {"look", "write"}
    THEN \A i \in 1 .. 4 : i < c.item => Folder!Scaffold[i] \in there
    ELSE c.item = 1

FolderInv ==
    /\ FolderTypes
    /\ \A p \in Tasks : CallOnNotes(worker[p]) /\ InOrder(worker[p], InPlace)
    /\ Folder!Complete

\* The files that calls have open are notes.
OpenNotes == opened \in [Tasks -> Notes \union {Folder!Nowhere}]

LEMMA ScaffoldIs ==
    /\ Folder!Len(Folder!Scaffold) = 4 /\ DOMAIN Folder!Scaffold = 1 .. 4
    /\ Folder!Scaffold[4] = Folder!Ignore
    /\ Folder!Range(Folder!Scaffold) = {Folder!Scaffold[i] : i \in 1 .. 4}
    /\ \A i \in 1 .. 3 : Folder!Scaffold[i] # Folder!Ignore
    /\ Folder!Range(Folder!Scaffold) \intersect Notes = {}
    /\ Folder!Range(Folder!Scaffold) \subseteq Folder!Files /\ Notes \subseteq Folder!Files
    /\ Folder!Ignore \in Folder!Range(Folder!Scaffold)
  <1>1. Folder!Scaffold = << "connections.toml", "envs/local.toml", "workspace.toml", Folder!Ignore >>
    BY DEF Folder!Scaffold
  <1>2. /\ Len(Folder!Scaffold) = 4 /\ DOMAIN Folder!Scaffold = 1 .. 4
        /\ Folder!Scaffold[4] = Folder!Ignore
        /\ \A i \in 1 .. 3 : Folder!Scaffold[i] # Folder!Ignore
    BY <1>1 DEF Folder!Ignore
  <1>3. Folder!Range(Folder!Scaffold) = {Folder!Scaffold[i] : i \in 1 .. 4}
    BY <1>2 DEF Folder!Range
  <1>4. Folder!Range(Folder!Scaffold) \intersect Notes = {}
    BY BoundsAssumption DEF Folder!FolderAssumption
  <1> QED BY <1>2, <1>3, <1>4 DEF Folder!Files

LEMMA InitFolderInv == Init => FolderInv /\ OpenNotes
  <1> SUFFICES ASSUME Folder!FolderInit PROVE FolderInv /\ OpenNotes
    BY InitOfAll
  <1>1. Folder!Ignore \in Folder!Files
    BY ScaffoldIs
  <1>2. Folder!Idle \in FolderCall /\ CallOnNotes(Folder!Idle) /\ InOrder(Folder!Idle, InPlace)
    <2>1. Folder!Idle \in FolderCall
      BY <1>1 DEF Folder!Idle, Folder!Call, Folder!Ours, FolderCall, Content
    <2>2. CallOnNotes(Folder!Idle)
      BY DEF Folder!Idle, Folder!Call, CallOnNotes
    <2>3. InOrder(Folder!Idle, InPlace)
      BY DEF Folder!Idle, Folder!Call, InOrder
    <2> QED BY <2>1, <2>2, <2>3
  <1>3. FolderTypes
    BY <1>2 DEF Folder!FolderInit, FolderTypes, Content
  <1> QED BY <1>2, <1>3 DEF Folder!FolderInit, FolderInv, Folder!Complete, OpenNotes

\* A call goes on, and what is in the folder stays or takes the place of what is there.
LEMMA CallGoesOn ==
    ASSUME FolderInv, NEW p \in Tasks, NEW c \in FolderCall, worker' = [worker EXCEPT ![p] = c],
           CallOnNotes(c), InOrder(c, InPlace'),
           saved' \in [Folder!Files -> Content], texts' \in Nat,
           InPlace \subseteq InPlace', Folder!Complete'
    PROVE  FolderInv'
  <1>1. \A q \in Tasks : worker'[q] = IF q = p THEN c ELSE worker[q]
    BY DEF FolderInv, FolderTypes
  <1>2. FolderTypes'
    BY DEF FolderInv, FolderTypes
  <1>3. ASSUME NEW q \in Tasks
        PROVE  CallOnNotes(worker'[q]) /\ InOrder(worker'[q], InPlace')
    <2>1. CASE q = p
      BY <1>1, <2>1
    <2>2. CASE q # p
      <3>1. worker'[q] = worker[q] /\ CallOnNotes(worker[q]) /\ InOrder(worker[q], InPlace)
        BY <1>1, <2>2 DEF FolderInv
      <3> QED BY <3>1 DEF InOrder
    <2> QED BY <2>1, <2>2
  <1>4. \A q \in Tasks : CallOnNotes(worker[q])' /\ InOrder(worker[q], InPlace)'
    BY <1>3 DEF CallOnNotes, InOrder
  <1> QED BY <1>2, <1>4 DEF FolderInv

\* The same where the folder stays as it is.
LEMMA CallTurns ==
    ASSUME FolderInv, NEW p \in Tasks, NEW c \in FolderCall, worker' = [worker EXCEPT ![p] = c],
           CallOnNotes(c), InOrder(c, InPlace), UNCHANGED << saved, whole >>, texts' \in Nat
    PROVE  FolderInv'
  <1>1. InPlace' = InPlace
    BY DEF InPlace, Folder!Exists
  <1>2. Folder!Complete' /\ saved' \in [Folder!Files -> Content]
    BY DEF FolderInv, FolderTypes, Folder!Complete, Folder!Exists
  <1> QED BY <1>1, <1>2, CallGoesOn

LEMMA IdleIs ==
    /\ Folder!Idle \in FolderCall /\ CallOnNotes(Folder!Idle)
    /\ \A there : InOrder(Folder!Idle, there)
  <1>1. Folder!Idle \in FolderCall
    BY ScaffoldIs DEF Folder!Idle, Folder!Call, Folder!Ours, FolderCall, Content
  <1> QED BY <1>1 DEF Folder!Idle, Folder!Call, CallOnNotes, InOrder

LEMMA CallReturns ==
    ASSUME FolderInv, NEW p \in Tasks, Folder!Return(p), UNCHANGED << saved, whole, texts >>
    PROVE  FolderInv'
  BY CallTurns, IdleIs DEF Folder!Return, FolderInv, FolderTypes

\* A call that is about to make the folder goes on, or one that empties a note.
LEMMA CallGoesTo ==
    ASSUME FolderInv, NEW p \in Tasks, NEW pc, Folder!Goto(p, pc), texts' \in Nat,
           \/ worker[p].pc \in {"folder", "mkdir", "git"} /\ pc \in {"mkdir", "git", "dirs"}
           \/ worker[p].pc = "dirs" /\ pc = "look",
           UNCHANGED << saved, whole >>
    PROVE  FolderInv'
  <1> DEFINE c == [worker[p] EXCEPT !.pc = pc]
  <1>1. worker[p] \in FolderCall /\ CallOnNotes(worker[p]) /\ InOrder(worker[p], InPlace)
    BY DEF FolderInv, FolderTypes
  <1>2. worker' = [worker EXCEPT ![p] = c]
    BY DEF Folder!Goto
  <1>3. c \in FolderCall
    BY <1>1 DEF FolderCall
  <1>4. CallOnNotes(c)
    BY <1>1 DEF CallOnNotes, FolderCall
  <1>5. InOrder(c, InPlace)
    <2>1. c.pc = pc /\ c.item = worker[p].item
      BY <1>1 DEF FolderCall
    <2>2. worker[p].item = 1
      BY <1>1 DEF InOrder
    <2>3. \A i \in 1 .. 4 : ~(i < 1)
      OBVIOUS
    <2> QED BY <2>1, <2>2, <2>3 DEF InOrder
  <1> QED BY <1>2, <1>3, <1>4, <1>5, CallTurns

\* A note takes, gives up or gets a text: no file of the scaffold is touched.
LEMMA NoteChanges ==
    ASSUME FolderInv, NEW p \in Tasks, NEW c \in FolderCall, worker' = [worker EXCEPT ![p] = c],
           CallOnNotes(c), InOrder(c, InPlace),
           saved' \in [Folder!Files -> Content],
           \A f \in Folder!Files \ Notes : saved'[f] = saved[f],
           UNCHANGED << texts, whole >>
    PROVE  FolderInv'
  <1>1. \A f \in Folder!Range(Folder!Scaffold) : saved'[f] = saved[f]
    BY ScaffoldIs
  <1>2. InPlace' = InPlace
    BY <1>1 DEF InPlace, Folder!Exists
  <1>3. Folder!Complete'
    <2>1. saved'[Folder!Ignore] = saved[Folder!Ignore]
      BY <1>1, ScaffoldIs
    <2> QED BY <1>1, <2>1 DEF FolderInv, Folder!Complete, Folder!Exists
  <1> QED BY <1>2, <1>3, CallGoesOn DEF FolderInv, FolderTypes

\* A scaffold goes on with the next file, or has come to its end.
LEMMA ScaffoldAdvances ==
    ASSUME FolderInv, NEW p \in Tasks, worker[p].pc \in {"look", "write"}, Folder!Advance(p),
           saved' \in [Folder!Files -> Content], UNCHANGED texts,
           InPlace \subseteq InPlace', Folder!Target(p) \in InPlace',
           saved[Folder!Ignore].patterns \/ Folder!Target(p) = Folder!Ignore => saved'[Folder!Ignore].patterns
    PROVE  FolderInv'
  <1> DEFINE n == worker[p].item
             c == [worker[p] EXCEPT !.item = @ + 1, !.pc = "look", !.seen = Folder!NoFile]
  <1>1. worker[p] \in FolderCall /\ CallOnNotes(worker[p]) /\ InOrder(worker[p], InPlace)
    BY DEF FolderInv, FolderTypes
  <1>2. /\ n \in 1 .. 4 /\ Folder!Scaffold[n] \in InPlace'
        /\ \A i \in 1 .. 4 : i < n => Folder!Scaffold[i] \in InPlace'
    BY <1>1 DEF FolderCall, InOrder, Folder!Target
  <1>3. whole => Folder!Range(Folder!Scaffold) \subseteq InPlace' /\ saved'[Folder!Ignore].patterns
    BY DEF FolderInv, Folder!Complete, InPlace
  <1>4. CASE n = 4
    <2>1. worker' = [worker EXCEPT ![p] = Folder!Idle]
      BY <1>4, ScaffoldIs DEF Folder!Advance, Folder!Return
    <2>2. Folder!Complete'
      <3>1. \A i \in 1 .. 4 : Folder!Scaffold[i] \in InPlace'
        BY <1>2, <1>4
      <3>2. Folder!Range(Folder!Scaffold) \subseteq InPlace'
        BY <3>1, ScaffoldIs
      <3>3. saved'[Folder!Ignore].patterns
        BY <1>4, ScaffoldIs DEF Folder!Target
      <3> QED BY <3>2, <3>3 DEF Folder!Complete, InPlace
    <2> QED BY <2>1, <2>2, IdleIs, CallGoesOn DEF FolderInv, FolderTypes
  <1>5. CASE n # 4
    <2>1. worker' = [worker EXCEPT ![p] = c] /\ UNCHANGED whole
      BY <1>5, ScaffoldIs DEF Folder!Advance
    <2>2. c \in FolderCall /\ c.item = n + 1 /\ c.pc = "look"
      <3>1. n + 1 \in 1 .. 4
        BY <1>2, <1>5
      <3>2. Folder!NoFile \in Content
        BY DEF Content
      <3> QED BY <1>1, <3>1, <3>2 DEF FolderCall
    <2>3. CallOnNotes(c)
      BY <1>1 DEF CallOnNotes, FolderCall
    <2>4. InOrder(c, InPlace')
      BY <1>2, <2>2 DEF InOrder
    <2>5. Folder!Complete'
      BY <1>3, <2>1 DEF Folder!Complete, InPlace
    <2> QED BY <2>1, <2>2, <2>3, <2>4, <2>5, CallGoesOn DEF FolderInv, FolderTypes
  <1> QED BY <1>4, <1>5

\* A content that is written is that of a file that is there.
LEMMA WrittenIsThere ==
    ASSUME NEW text \in Nat \union {-1}, NEW patterns \in BOOLEAN
    PROVE  /\ Folder!Content(text, patterns) \in Content
           /\ Folder!Content(text, patterns) # Folder!NoFile
           /\ Folder!Content(text, patterns).text = text
           /\ Folder!Content(text, patterns).patterns = patterns
  BY DEF Content, Folder!Content, Folder!NoFile

\* LookFor and WriteWanted: the steps of a scaffold.
LEMMA LookKeeps ==
    ASSUME FolderInv, NEW p \in Tasks, Folder!LookFor(p)
    PROVE  FolderInv'
  <1> DEFINE f == Folder!Target(p)
             c == [worker[p] EXCEPT !.pc = "write", !.seen = saved[f]]
  <1>1. /\ worker[p] \in FolderCall /\ CallOnNotes(worker[p]) /\ InOrder(worker[p], InPlace)
        /\ worker[p].pc = "look"
    BY DEF FolderInv, FolderTypes, Folder!LookFor, Folder!At
  <1>2. UNCHANGED << saved, texts >> /\ InPlace' = InPlace
    BY DEF Folder!LookFor, InPlace, Folder!Exists
  <1>3. f \in Folder!Range(Folder!Scaffold) /\ saved[f] \in Content
    BY <1>1, ScaffoldIs DEF FolderCall, Folder!Target, FolderInv, FolderTypes
  <1>4. CASE Folder!InPlace(p)
    <2>1. f \in InPlace' /\ (f = Folder!Ignore => saved[Folder!Ignore].patterns) /\ Folder!Advance(p)
      BY <1>2, <1>3, <1>4 DEF Folder!InPlace, InPlace
    <2> QED BY <1>1, <1>2, <2>1, ScaffoldAdvances DEF FolderInv, FolderTypes
  <1>5. CASE Folder!Wanted(p)
    <2>1. worker' = [worker EXCEPT ![p] = c] /\ UNCHANGED whole
      BY <1>5 DEF Folder!Wanted
    <2>2. c \in FolderCall /\ c.pc = "write" /\ c.item = worker[p].item
      BY <1>1, <1>3 DEF FolderCall
    <2>3. CallOnNotes(c)
      BY <1>1, <2>2 DEF CallOnNotes, FolderCall
    <2>4. InOrder(c, InPlace)
      BY <1>1, <2>2 DEF InOrder
    <2> QED BY <1>2, <2>1, <2>2, <2>3, <2>4, CallTurns DEF FolderInv, FolderTypes
  <1> QED BY <1>4, <1>5 DEF Folder!LookFor

LEMMA WriteKeeps ==
    ASSUME FolderInv, NEW p \in Tasks, Folder!WriteWanted(p)
    PROVE  FolderInv'
  <1> DEFINE f == Folder!Target(p)
             seen == worker[p].seen
             text == IF seen = Folder!NoFile THEN Folder!Ours ELSE seen.text
             written == Folder!Content(text, f = Folder!Ignore)
  <1>1. /\ worker[p] \in FolderCall /\ worker[p].pc = "write"
        /\ saved' = [saved EXCEPT ![f] = written] /\ Folder!Advance(p) /\ UNCHANGED texts
    BY DEF FolderInv, FolderTypes, Folder!WriteWanted, Folder!At, Folder!Put
  <1>2. f \in Folder!Range(Folder!Scaffold) /\ f \in Folder!Files
    BY <1>1, ScaffoldIs DEF FolderCall, Folder!Target
  <1>3. text \in Nat \union {-1}
    <2>1. seen \in Content
      BY <1>1 DEF FolderCall
    <2>2. CASE seen = Folder!NoFile
      BY <2>2 DEF Folder!Ours
    <2>3. CASE seen # Folder!NoFile
      BY <2>1, <2>3 DEF Content
    <2> QED BY <2>2, <2>3
  <1>4. written \in Content /\ written # Folder!NoFile /\ written.patterns = (f = Folder!Ignore)
    BY <1>3, WrittenIsThere
  <1> HIDE DEF written
  <1>5. saved' \in [Folder!Files -> Content]
        /\ \A g \in Folder!Files : saved'[g] = IF g = f THEN written ELSE saved[g]
    BY <1>1, <1>2, <1>4 DEF FolderInv, FolderTypes
  <1>6. InPlace \subseteq InPlace' /\ f \in InPlace'
    <2>1. \A g \in Folder!Range(Folder!Scaffold) : g \in Folder!Files
      BY ScaffoldIs
    <2> QED BY <1>2, <1>4, <1>5, <2>1 DEF InPlace, Folder!Exists
  <1>7. saved[Folder!Ignore].patterns \/ f = Folder!Ignore => saved'[Folder!Ignore].patterns
    <2>1. Folder!Ignore \in Folder!Files
      BY ScaffoldIs
    <2> QED BY <1>4, <1>5, <2>1
  <1> QED BY <1>1, <1>5, <1>6, <1>7, ScaffoldAdvances

\* A call on a note: nothing but notes changes.
LEMMA NoteKeeps ==
    ASSUME FolderInv, OpenNotes, NEW p \in Tasks,
           Folder!Place(p) \/ Folder!Truncate(p) \/ Folder!Fill(p) \/ Folder!Delete(p)
    PROVE  FolderInv'
  <1> DEFINE c == worker[p]
  <1>1. /\ c \in FolderCall /\ CallOnNotes(c) /\ InOrder(c, InPlace) /\ UNCHANGED << texts, whole >>
        /\ saved \in [Folder!Files -> Content]
    BY DEF FolderInv, FolderTypes, Folder!Place, Folder!Truncate, Folder!Fill, Folder!Delete
  <1>2. c.file \in Notes /\ c.to \in Notes /\ c.text \in Nat
    BY <1>1 DEF CallOnNotes, FolderCall, Folder!Place, Folder!Truncate, Folder!Fill, Folder!Delete, Folder!At
  <1>3. ASSUME NEW f \in Notes, NEW new \in Content, Folder!Put(f, new)
        PROVE  /\ saved' \in [Folder!Files -> Content]
               /\ \A g \in Folder!Files \ Notes : saved'[g] = saved[g]
    BY <1>1, <1>3, ScaffoldIs DEF Folder!Put
  <1>4. ASSUME Folder!Return(p),
               saved' \in [Folder!Files -> Content], \A g \in Folder!Files \ Notes : saved'[g] = saved[g]
        PROVE  FolderInv'
    BY <1>1, <1>4, IdleIs, NoteChanges DEF Folder!Return
  <1>5. \A text \in Nat \union {-1} : Folder!Content(text, FALSE) \in Content
    BY WrittenIsThere
  <1>6. CASE Folder!Place(p)
    <2>1. CASE c.op = "create_note"
      <3>1. Folder!Put(c.to, Folder!Content(0, FALSE))
        BY <1>6, <2>1 DEF Folder!Place, Folder!Ours
      <3> QED BY <1>2, <1>3, <1>4, <1>5, <1>6, <3>1 DEF Folder!Place
    <2>2. CASE c.op # "create_note" /\ Folder!Exists(c.file)
      <3>1. saved' = [saved EXCEPT ![c.to] = saved[c.file], ![c.file] = Folder!NoFile]
        BY <1>6, <2>2 DEF Folder!Place
      <3>2. c.to \in Folder!Files /\ c.file \in Folder!Files /\ Folder!NoFile \in Content
        BY <1>2, ScaffoldIs DEF Content
      <3>3. /\ saved' \in [Folder!Files -> Content]
            /\ \A g \in Folder!Files \ Notes : saved'[g] = saved[g]
        BY <1>1, <1>2, <3>1, <3>2
      <3> QED BY <1>4, <1>6, <3>3 DEF Folder!Place
    <2>3. CASE c.op # "create_note" /\ ~Folder!Exists(c.file)
      BY <1>1, <1>4, <1>6, <2>3 DEF Folder!Place
    <2> QED BY <2>1, <2>2, <2>3
  <1>7. CASE Folder!Truncate(p)
    <2> DEFINE next == [c EXCEPT !.pc = "fill"]
    <2>1. worker' = [worker EXCEPT ![p] = next] /\ c.pc = "empty"
      BY <1>7 DEF Folder!Truncate, Folder!Goto, Folder!At
    <2>2. next \in FolderCall
      BY <1>1 DEF FolderCall
    <2>3. CallOnNotes(next)
      BY <1>1, <2>1 DEF CallOnNotes, FolderCall
    <2>4. InOrder(next, InPlace)
      BY <1>1, <2>1 DEF InOrder, FolderCall
    <2>5. /\ saved' \in [Folder!Files -> Content]
          /\ \A g \in Folder!Files \ Notes : saved'[g] = saved[g]
      BY <1>2, <1>3, <1>5, <1>7 DEF Folder!Truncate, Folder!Torn
    <2> QED BY <1>1, <2>1, <2>2, <2>3, <2>4, <2>5, NoteChanges
  <1>8. CASE Folder!Fill(p)
    <2>1. CASE opened[p] = Folder!Nowhere
      BY <1>1, <1>4, <1>8, <2>1 DEF Folder!Fill
    <2>2. CASE opened[p] # Folder!Nowhere
      <3>1. opened[p] \in Notes
        BY <2>2 DEF OpenNotes
      <3>2. Folder!Put(opened[p], Folder!Content(c.text, FALSE)) /\ Folder!Return(p)
        BY <1>8, <2>2 DEF Folder!Fill
      <3> QED BY <1>2, <1>3, <1>4, <1>5, <3>1, <3>2
    <2> QED BY <2>1, <2>2
  <1>9. CASE Folder!Delete(p)
    <2>1. Folder!NoFile \in Content
      BY DEF Content
    <2> QED BY <1>2, <1>3, <1>4, <1>9, <2>1 DEF Folder!Delete
  <1> QED BY <1>6, <1>7, <1>8, <1>9

LEMMA CheckKeeps ==
    ASSUME FolderInv, NEW p \in Tasks, Folder!CheckFree(p)
    PROVE  FolderInv'
  <1> DEFINE c == worker[p]
             next == [c EXCEPT !.pc = "place", !.seen = saved[c.to]]
  <1>1. /\ c \in FolderCall /\ CallOnNotes(c) /\ InOrder(c, InPlace) /\ c.pc = "absent"
        /\ UNCHANGED << texts, whole, saved >> /\ texts \in Nat
    BY DEF FolderInv, FolderTypes, Folder!CheckFree, Folder!At
  <1>2. CASE Folder!Return(p)
    BY <1>1, <1>2, CallReturns
  <1>3. CASE ~Folder!Return(p)
    <2>1. worker' = [worker EXCEPT ![p] = next] /\ saved[c.to] = Folder!NoFile
      BY <1>3 DEF Folder!CheckFree, Folder!Exists
    <2>2. c.op \in {"create_note", "rename_note"}
      BY <1>1 DEF CallOnNotes
    <2>3. next \in FolderCall /\ next.pc = "place" /\ next.seen = Folder!NoFile
      BY <1>1, <2>1 DEF FolderCall, Content
    <2>4. CallOnNotes(next)
      BY <1>1, <2>2, <2>3 DEF CallOnNotes, FolderCall
    <2>5. InOrder(next, InPlace)
      BY <1>1 DEF InOrder, FolderCall
    <2> QED BY <1>1, <2>1, <2>3, <2>4, <2>5, CallTurns
  <1> QED BY <1>2, <1>3

LEMMA SaveKeeps ==
    ASSUME FolderInv, NEW f \in Folder!Files, NEW patterns \in BOOLEAN, Folder!Save(f, patterns)
    PROVE  FolderInv'
  <1> DEFINE written == Folder!Content(texts + 1, patterns)
  <1>1. /\ texts \in Nat /\ texts' = texts + 1 /\ saved' = [saved EXCEPT ![f] = written]
        /\ whole' = (whole /\ (f = Folder!Ignore => patterns)) /\ worker' = worker
    BY DEF FolderInv, FolderTypes, Folder!Save, Folder!Put
  <1>2. written \in Content /\ written # Folder!NoFile /\ written.patterns = patterns
    <2>1. texts + 1 \in Nat \union {-1}
      BY <1>1
    <2> QED BY <2>1, WrittenIsThere
  <1> HIDE DEF written
  <1>3. /\ saved' \in [Folder!Files -> Content]
        /\ \A g \in Folder!Files : saved'[g] = IF g = f THEN written ELSE saved[g]
    BY <1>1, <1>2 DEF FolderInv, FolderTypes
  <1>4. \A g \in Folder!Range(Folder!Scaffold) : g \in Folder!Files
    BY ScaffoldIs
  <1>5. InPlace \subseteq InPlace'
    BY <1>2, <1>3, <1>4 DEF InPlace, Folder!Exists
  <1>6. FolderTypes'
    BY <1>1, <1>3 DEF FolderInv, FolderTypes
  <1>7. \A p \in Tasks : CallOnNotes(worker[p])' /\ InOrder(worker[p], InPlace)'
    BY <1>1, <1>5 DEF FolderInv, CallOnNotes, InOrder
  <1>8. Folder!Complete'
    <2>1. whole' => whole /\ (f = Folder!Ignore => patterns)
      BY <1>1
    <2>2. Folder!Ignore \in Folder!Files
      BY ScaffoldIs
    <2> QED BY <1>2, <1>3, <1>4, <2>1, <2>2 DEF FolderInv, Folder!Complete, Folder!Exists
  <1> QED BY <1>6, <1>7, <1>8 DEF FolderInv

LEMMA NextFolderInv == FolderInv /\ OpenNotes /\ [Folder!FolderNext]_folderVars => FolderInv'
  <1> SUFFICES ASSUME FolderInv, OpenNotes, [Folder!FolderNext]_folderVars PROVE FolderInv'
    OBVIOUS
  <1>1. texts \in Nat /\ Folder!Ignore \in Folder!Files /\ 0 \in Nat /\ texts + 1 \in Nat
    BY ScaffoldIs DEF FolderInv, FolderTypes
  <1>2. ASSUME NEW p \in Tasks,
               Folder!BeginCreate(p) \/ Folder!BeginScaffold(p)
        PROVE  FolderInv'
    <2>1. CASE Folder!BeginCreate(p)
      <3> DEFINE c == Folder!Call("create", "folder", Folder!Ignore, Folder!Ignore, 0)
      <3>1. /\ worker' = [worker EXCEPT ![p] = c]
            /\ UNCHANGED << saved, whole >> /\ texts' \in Nat
        BY <1>1, <2>1 DEF Folder!Begin, Folder!BeginCreate, Folder!Ours
      <3>2. c \in FolderCall
        BY <1>1 DEF Folder!Call, FolderCall, Content
      <3>3. CallOnNotes(c) /\ InOrder(c, InPlace)
        BY <1>1 DEF Folder!Call, CallOnNotes, InOrder
      <3> HIDE DEF c
      <3> QED BY <3>1, <3>2, <3>3, CallTurns
    <2>2. CASE Folder!BeginScaffold(p)
      <3> DEFINE c == Folder!Call("scaffold", "dirs", Folder!Ignore, Folder!Ignore, 0)
      <3>1. /\ worker' = [worker EXCEPT ![p] = c]
            /\ UNCHANGED << saved, whole >> /\ texts' \in Nat
        BY <1>1, <2>2 DEF Folder!Begin, Folder!BeginScaffold, Folder!Ours
      <3>2. c \in FolderCall
        BY <1>1 DEF Folder!Call, FolderCall, Content
      <3>3. CallOnNotes(c) /\ InOrder(c, InPlace)
        BY <1>1 DEF Folder!Call, CallOnNotes, InOrder
      <3> HIDE DEF c
      <3> QED BY <3>1, <3>2, <3>3, CallTurns
    <2> QED BY <1>2, <2>1, <2>2
  <1>3. ASSUME NEW p \in Tasks, NEW f \in Notes,
               \/ Folder!BeginCreateNote(p, f) \/ Folder!BeginDelete(p, f) \/ Folder!BeginWrite(p, f)
               \/ \E t \in Notes : Folder!BeginRename(p, f, t)
        PROVE  FolderInv'
    <2>1. \A t \in Notes : t \in Folder!Files
      BY ScaffoldIs
    <2>2. CASE Folder!BeginCreateNote(p, f)
      <3> DEFINE c == Folder!Call("create_note", "absent", f, f, 0)
      <3>1. /\ worker' = [worker EXCEPT ![p] = c]
            /\ UNCHANGED << saved, whole >> /\ texts' \in Nat
        BY <1>1, <2>2 DEF Folder!Begin, Folder!BeginCreateNote, Folder!Ours
      <3>2. c \in FolderCall
        BY <1>1, <2>1 DEF Folder!Call, FolderCall, Content
      <3>3. CallOnNotes(c) /\ InOrder(c, InPlace)
        BY <1>1, <2>1 DEF Folder!Call, CallOnNotes, InOrder
      <3> HIDE DEF c
      <3> QED BY <3>1, <3>2, <3>3, CallTurns
    <2>3. CASE Folder!BeginDelete(p, f)
      <3> DEFINE c == Folder!Call("delete_note", "delete", f, f, 0)
      <3>1. /\ worker' = [worker EXCEPT ![p] = c]
            /\ UNCHANGED << saved, whole >> /\ texts' \in Nat
        BY <1>1, <2>3 DEF Folder!Begin, Folder!BeginDelete, Folder!Ours
      <3>2. c \in FolderCall
        BY <1>1, <2>1 DEF Folder!Call, FolderCall, Content
      <3>3. CallOnNotes(c) /\ InOrder(c, InPlace)
        BY <1>1, <2>1 DEF Folder!Call, CallOnNotes, InOrder
      <3> HIDE DEF c
      <3> QED BY <3>1, <3>2, <3>3, CallTurns
    <2>4. CASE Folder!BeginWrite(p, f)
      <3> DEFINE c == Folder!Call("write_note", "empty", f, f, texts + 1)
      <3>1. /\ worker' = [worker EXCEPT ![p] = c]
            /\ UNCHANGED << saved, whole >> /\ texts' \in Nat
        BY <1>1, <2>4 DEF Folder!Begin, Folder!BeginWrite
      <3>2. c \in FolderCall
        BY <1>1, <2>1 DEF Folder!Call, FolderCall, Content
      <3>3. CallOnNotes(c) /\ InOrder(c, InPlace)
        BY <1>1, <2>1 DEF Folder!Call, CallOnNotes, InOrder
      <3> HIDE DEF c
      <3> QED BY <3>1, <3>2, <3>3, CallTurns
    <2>5. ASSUME NEW t \in Notes, Folder!BeginRename(p, f, t)
          PROVE  FolderInv'
      <3> DEFINE c == Folder!Call("rename_note", "absent", f, t, 0)
      <3>1. /\ worker' = [worker EXCEPT ![p] = c]
            /\ UNCHANGED << saved, whole >> /\ texts' \in Nat /\ t # f
        BY <1>1, <2>5 DEF Folder!Begin, Folder!BeginRename, Folder!Ours
      <3>2. c \in FolderCall
        BY <1>1, <2>1 DEF Folder!Call, FolderCall, Content
      <3>3. CallOnNotes(c) /\ InOrder(c, InPlace)
        BY <3>1 DEF Folder!Call, CallOnNotes, InOrder
      <3> HIDE DEF c
      <3> QED BY <3>1, <3>2, <3>3, CallTurns
    <2> QED BY <1>3, <2>2, <2>3, <2>4, <2>5
  <1>4. ASSUME NEW p \in Tasks,
               Folder!CheckFolder(p) \/ Folder!MakeFolder(p) \/ Folder!GitInit(p) \/ Folder!MakeDirs(p)
        PROVE  FolderInv'
    <2>1. CASE Folder!CheckFolder(p)
      BY <1>1, <2>1, CallGoesTo, CallReturns DEF Folder!CheckFolder, Folder!At
    <2>2. CASE Folder!MakeFolder(p)
      BY <1>1, <2>2, CallGoesTo, CallReturns DEF Folder!MakeFolder, Folder!At
    <2>3. CASE Folder!GitInit(p)
      BY <1>1, <2>3, CallGoesTo DEF Folder!GitInit, Folder!At
    <2>4. CASE Folder!MakeDirs(p)
      BY <1>1, <2>4, CallGoesTo DEF Folder!MakeDirs, Folder!At
    <2> QED BY <1>4, <2>1, <2>2, <2>3, <2>4
  <1>5. ASSUME NEW p \in Tasks, Folder!Fail(p)
        PROVE  FolderInv'
    BY <1>5, CallReturns DEF Folder!Fail
  <1>6. CASE UNCHANGED folderVars
    BY <1>6 DEF folderVars, FolderInv, FolderTypes, CallOnNotes, InOrder, InPlace, Folder!Complete,
                Folder!Exists
  <1> QED
    BY <1>2, <1>3, <1>4, <1>5, <1>6, LookKeeps, WriteKeeps, CheckKeeps, NoteKeeps, SaveKeeps
    DEF Folder!FolderNext

\* Whatever is moved, a file that a call has open is a note, or in the trash.
LEMMA NextOpenNotes == FolderInv /\ OpenNotes /\ [Folder!FolderNext]_folderVars => OpenNotes'
  <1> SUFFICES ASSUME FolderInv, OpenNotes, [Folder!FolderNext]_folderVars PROVE OpenNotes'
    OBVIOUS
  <1>1. ASSUME NEW f, NEW t \in Notes \union {Folder!Nowhere}, Folder!Moves(f, t)
        PROVE  OpenNotes'
    BY <1>1 DEF Folder!Moves, OpenNotes
  <1>2. ASSUME NEW p \in Tasks, NEW f \in Notes \union {Folder!Nowhere}, Folder!Opens(p, f)
        PROVE  OpenNotes'
    BY <1>2 DEF Folder!Opens, OpenNotes
  <1>3. ASSUME UNCHANGED opened
        PROVE  OpenNotes'
    BY <1>3 DEF OpenNotes
  <1>4. ASSUME NEW p \in Tasks, Folder!Place(p) \/ Folder!Truncate(p) \/ Folder!Fill(p) \/ Folder!Delete(p)
        PROVE  OpenNotes'
    <2>1. worker[p].file \in Notes /\ worker[p].to \in Notes
      BY <1>4 DEF FolderInv, CallOnNotes, Folder!Place, Folder!Truncate, Folder!Fill, Folder!Delete, Folder!At
    <2> QED BY <1>1, <1>2, <1>3, <1>4, <2>1 DEF Folder!Place, Folder!Truncate, Folder!Fill, Folder!Delete
  <1>5. ASSUME NEW p \in Tasks, Folder!Fail(p)
        PROVE  OpenNotes'
    BY <1>2, <1>5 DEF Folder!Fail
  <1>6. ASSUME NEW f \in Folder!Files, NEW patterns \in BOOLEAN, Folder!Save(f, patterns)
        PROVE  OpenNotes'
    BY <1>1, <1>3, <1>6 DEF Folder!Save
  <1> QED
    BY <1>3, <1>4, <1>5, <1>6
    DEF Folder!FolderNext, folderVars, Folder!BeginCreate, Folder!Begin, Folder!CheckFolder,
        Folder!MakeFolder, Folder!GitInit, Folder!BeginScaffold, Folder!MakeDirs, Folder!LookFor,
        Folder!WriteWanted, Folder!CheckFree, Folder!BeginCreateNote, Folder!BeginDelete,
        Folder!BeginWrite, Folder!BeginRename

\* No step takes a text from a user but one that was asked to change the file, one
\* whose look at the file another has overtaken, or the rest of a write to a note that
\* was renamed while it was being written.
LEMMA TextsStay == FolderInv /\ [Folder!FolderNext]_folderVars => Folder!TextsKept
  <1> SUFFICES ASSUME FolderInv, [Folder!FolderNext]_folderVars,
                      NEW f \in Folder!Files, saved[f].text > 0, saved'[f].text # saved[f].text,
                      texts' = texts
               PROVE  \E p \in Tasks : /\ worker'[p] # worker[p]
                                       /\ Folder!Asked(p, f) \/ Folder!Overtaken(p, f) \/ Folder!Carried(p, f)
    BY DEF Folder!TextsKept
  <1>1. saved \in [Folder!Files -> Content] /\ saved' # saved /\ saved[f] \in Content
    BY DEF FolderInv, FolderTypes
  <1>2. saved[f] # Folder!NoFile
    <2>1. ~(-2 > 0)
      OBVIOUS
    <2> QED BY <2>1 DEF Folder!NoFile, Folder!Content
  <1>3. PICK p \in Tasks :
          \/ Folder!WriteWanted(p) \/ Folder!Place(p) \/ Folder!Truncate(p) \/ Folder!Fill(p) \/ Folder!Delete(p)
    <2>1. ASSUME NEW g \in Folder!Files, NEW patterns \in BOOLEAN, Folder!Save(g, patterns)
          PROVE  FALSE
      BY <2>1 DEF Folder!Save, FolderInv, FolderTypes
    <2> QED BY <1>1, <2>1
        DEF Folder!FolderNext, folderVars, Folder!BeginCreate, Folder!Begin, Folder!CheckFolder,
            Folder!MakeFolder, Folder!GitInit, Folder!BeginScaffold, Folder!MakeDirs, Folder!LookFor,
            Folder!CheckFree, Folder!Fail, Folder!BeginCreateNote, Folder!BeginDelete,
            Folder!BeginWrite, Folder!BeginRename
  <1> DEFINE c == worker[p]
  <1>4. c \in FolderCall /\ CallOnNotes(c) /\ worker \in [Tasks -> FolderCall]
    BY DEF FolderInv, FolderTypes
  <1>5. worker'[p] # c
    <2>1. CASE Folder!Truncate(p)
      <3>1. worker' = [worker EXCEPT ![p].pc = "fill"] /\ c.pc = "empty"
        BY <2>1 DEF Folder!Truncate, Folder!Goto, Folder!At
      <3> QED BY <1>4, <3>1 DEF FolderCall
    <2>2. CASE Folder!Return(p)
      <3>1. worker'[p] = Folder!Idle
        BY <1>4, <2>2 DEF Folder!Return
      <3>2. c.pc # "idle" /\ Folder!Idle.pc = "idle"
        BY <1>3 DEF Folder!Idle, Folder!Call, Folder!WriteWanted, Folder!Place, Folder!Truncate, Folder!Fill,
                    Folder!Delete, Folder!At
      <3> QED BY <3>1, <3>2
    <2>3. CASE Folder!WriteWanted(p) /\ ~Folder!Return(p)
      <3>1. worker' = [worker EXCEPT ![p].item = @ + 1, ![p].pc = "look", ![p].seen = Folder!NoFile]
            /\ c.pc = "write"
        BY <2>3 DEF Folder!WriteWanted, Folder!Advance, Folder!At
      <3> QED BY <1>4, <3>1 DEF FolderCall
    <2> QED BY <1>3, <2>1, <2>2, <2>3 DEF Folder!Place, Folder!Fill, Folder!Delete
  <1>6. CASE Folder!WriteWanted(p)
    <2> DEFINE g == Folder!Target(p)
               seen == c.seen
    <2>1. saved' = [saved EXCEPT ![g] =
            Folder!Content(IF seen = Folder!NoFile THEN Folder!Ours ELSE seen.text, g = Folder!Ignore)]
          /\ c.pc = "write"
      BY <1>6 DEF Folder!WriteWanted, Folder!Put, Folder!At
    <2>2. f = g
      BY <1>1, <2>1
    <2>3. seen # saved[f]
      <3>1. ASSUME seen = saved[f] PROVE FALSE
        BY <1>1, <1>2, <2>1, <2>2, <3>1 DEF Folder!Content
      <3> QED BY <3>1
    <2> QED BY <1>5, <2>1, <2>2, <2>3 DEF Folder!Overtaken, Folder!At
  <1>7. CASE Folder!Place(p)
    <2>1. c.pc = "place" /\ c.seen = Folder!NoFile /\ c.op \in {"create_note", "rename_note"}
          /\ (c.op = "rename_note" => c.to # c.file)
      BY <1>4, <1>7 DEF CallOnNotes, Folder!Place, Folder!At
    <2>2. CASE f = c.to
      BY <1>2, <1>5, <2>1, <2>2 DEF Folder!Overtaken, Folder!At
    <2>3. CASE f # c.to
      <3>1. c.op = "rename_note" /\ saved' = [saved EXCEPT ![c.to] = saved[c.file], ![c.file] = Folder!NoFile]
        BY <1>1, <1>7, <2>1, <2>3 DEF Folder!Place, Folder!Put
      <3>2. f = c.file
        BY <1>1, <2>3, <3>1
      <3>3. saved'[c.to] = saved[f]
        <4>1. c.to \in Folder!Files
          BY <1>4 DEF FolderCall
        <4> QED BY <1>1, <2>3, <3>1, <3>2, <4>1
      <3> QED BY <1>5, <3>1, <3>2, <3>3 DEF Folder!Asked
    <2> QED BY <2>2, <2>3
  <1>8. CASE Folder!Truncate(p) \/ Folder!Delete(p)
    <2>1. c.op \in {"write_note", "delete_note"}
      BY <1>4, <1>8 DEF CallOnNotes, Folder!Truncate, Folder!Delete, Folder!At
    <2>2. f = c.file
      BY <1>1, <1>8 DEF Folder!Truncate, Folder!Delete, Folder!Put
    <2> QED BY <1>5, <2>1, <2>2 DEF Folder!Asked
  <1>9. CASE Folder!Fill(p)
    <2>1. c.op = "write_note" /\ c.pc = "fill"
      BY <1>4, <1>9 DEF CallOnNotes, Folder!Fill, Folder!At
    <2>2. f = opened[p]
      BY <1>1, <1>9 DEF Folder!Fill, Folder!Put
    <2> QED BY <1>5, <2>1, <2>2 DEF Folder!Asked, Folder!Carried, Folder!At
  <1> QED BY <1>3, <1>6, <1>7, <1>8, <1>9

\* Once a creation or a scaffold has succeeded, every file of a vault is there and the
\* ignore file has the patterns of local files; and no text of a user is lost to a call
\* that was not asked to change that file, unless the file came or changed between the
\* call's look and its write, or is a note renamed while it was being written, whose
\* write goes on under the new name.
THEOREM VaultsKeepTexts == Spec => VaultKept
  <1>1. Spec => [](FolderInv /\ OpenNotes)
    BY InitFolderInv, NextFolderInv, NextOpenNotes, NextOfAll, PTL DEF Spec
  <1>2. FolderInv /\ FolderInv' /\ [Next]_vars
          => [part = "folder" => Folder!TextsKept /\ Folder!Complete']_<< part, folderVars >>
    BY NextOfAll, TextsStay DEF FolderInv
  <1> QED BY <1>1, <1>2, PTL DEF Spec, VaultKept

=============================================================================
