-------------------------- MODULE HttpExecutorProofs --------------------------
(***************************************************************************)
(* Proofs about HttpExecutor, for any calls, requests, sizes of pieces and *)
(* cap on the body.                                                        *)
(***************************************************************************)
EXTENDS HttpExecutor, FiniteSetTheorems, TLAPS

\* Every action, as Next spells it; those of the second line tell the listener
\* nothing.
LEMMA NextCases ==
    ASSUME Next
    PROVE  \/ \E c \in Calls : SendHeaders(c) \/ SendBodyChunk(c) \/ SendComplete(c) \/ Report(c)
           \/ \E c \in Calls : Start(c) \/ ReadFile(c) \/ ReadFails(c) \/ Answer(c) \/ Redirect(c)
           \/ \E c \in Calls : ConnectionLost(c) \/ TimedOut(c) \/ Cancelled(c) \/ BodyTooLarge(c)
           \/ \E c \in Calls : TakePiece(c) \/ TakeEnd(c) \/ Cancel(c)
           \/ UNCHANGED vars
  BY DEF Next, Call

-----------------------------------------------------------------------------
(* Types                                                                   *)

Pcs == {"new", "reading", "sending", "answered", "streaming", "chunk", "complete", "failed", "done"}
AllFlags == [follow : BOOLEAN, verify : BOOLEAN]
Clients == [follow : BOOLEAN, verify : BOOLEAN, timer : BOOLEAN]

LEMMA ClientsBuilt ==
    ASSUME NEW f \in AllFlags
    PROVE  NewClient(f) \in Clients
  BY DEF AllFlags, Clients, NewClient

\* The files of a body are some of its lines.
LEMMA FilesCounted ==
    ASSUME NEW r \in AllRequests
    PROVE  FilesOf(r) \in Nat
  <1> DEFINE parts == {i \in DOMAIN r.body : r.body[i] = "filepart"}
  <1>1. r.body \in Seq(STRING)
    BY RequestsAssumption
  <1>2. parts \subseteq 1..Len(r.body) /\ Len(r.body) \in Nat
    BY <1>1
  <1>3. IsFiniteSet(1..Len(r.body))
    BY <1>2, FS_Interval
  <1>4. Cardinality(parts) \in Nat
    BY <1>2, <1>3, FS_Subset, FS_CardinalityType
  <1> HIDE DEF parts
  <1>5. FilesOf(r) \in {Cardinality(parts), 1, 0}
    BY DEF FilesOf, parts
  <1> QED BY <1>4, <1>5

\* Who reads has a file left to read.
TypeInv == TypeOK /\ \A c \in Calls : At(c, {"reading"}) => files[c] > 0

LEMMA InitTypeInv == Init => TypeInv
  <1> SUFFICES ASSUME Init PROVE TypeInv
    OBVIOUS
  <1>1. DefaultFlags \in AllFlags /\ DOMAIN clients = {DefaultFlags}
        /\ clients[DefaultFlags] = NewClient(DefaultFlags)
    BY DEF Init, DefaultFlags, AllFlags
  <1>2. NewClient(DefaultFlags) \in Clients
    BY <1>1, ClientsBuilt
  <1> QED BY <1>1, <1>2 DEF Init, TypeInv, TypeOK, At, AllFlags, Clients, NoClient, Results

LEMMA NextTypeInv == TypeInv /\ [Next]_vars => TypeInv'
  <1> SUFFICES ASSUME TypeInv, [Next]_vars PROVE TypeInv'
    OBVIOUS
  <1> USE DEF TypeInv, TypeOK
  <1>1. ASSUME NEW c \in Calls, Start(c)
        PROVE  TypeInv'
    <2> DEFINE f == Flags(req[c])
               r == req[c]
    <2>1. r \in AllRequests
      OBVIOUS
    <2>2. f \in AllFlags
      BY <2>1, RequestsAssumption DEF Flags, AllFlags
    <2>3. \A g \in DOMAIN clients \union {f} : g \in AllFlags /\ ClientFor(g) \in Clients
      BY <2>2, ClientsBuilt DEF ClientFor, Clients, AllFlags
    <2>4. client' = [client EXCEPT ![c] = ClientFor(f)]
          /\ clients' = [g \in DOMAIN clients \union {f} |-> ClientFor(g)]
      BY <1>1 DEF Start
    <2> HIDE DEF f
    <2>5. client' \in [Calls -> Clients] /\ DOMAIN clients' \subseteq AllFlags
          /\ \A g \in DOMAIN clients' : clients'[g] \in Clients
      BY <2>2, <2>3, <2>4 DEF AllFlags, Clients
    <2>6. FilesOf(r) \in Nat
      BY <2>1, FilesCounted
    <2>7. UNCHANGED <<req, token, hops, piece, offset, late>>
      BY <1>1 DEF Start, received, told
    <2>8. /\ pc' \in [Calls -> Pcs] /\ result' \in [Calls -> Results] /\ files' \in [Calls -> Nat]
          /\ \A d \in Calls : At(d, {"reading"})' => files'[d] > 0
      <3>1. CASE Fail(c, "invalid") /\ UNCHANGED <<files, sent>>
        BY <3>1 DEF Fail, Return, Goto, Results, Pcs, At
      <3>2. CASE /\ files' = [files EXCEPT ![c] = FilesOf(r)] /\ UNCHANGED result
                 /\ IF files'[c] > 0 THEN Goto(c, "reading") ELSE Goto(c, "sending")
        BY <3>2, <2>6 DEF Goto, Pcs, At
      <3> QED BY <1>1, <3>1, <3>2 DEF Start
    <2> QED BY <2>5, <2>7, <2>8 DEF AllFlags, Clients, Pcs
  <1>2. ASSUME NEW c \in Calls, ReadFile(c)
        PROVE  TypeInv'
    <2>1. files[c] > 0 /\ files' = [files EXCEPT ![c] = @ - 1]
      BY <1>2 DEF ReadFile, At
    <2>2. files' \in [Calls -> Nat]
      BY <2>1
    <2>3. /\ pc' \in [Calls -> Pcs]
          /\ \A d \in Calls : At(d, {"reading"})' => files'[d] > 0
      BY <1>2, <2>1 DEF ReadFile, Goto, At, Pcs
    <2>4. UNCHANGED <<req, clients, client, token, hops, piece, offset, result, late>>
      BY <1>2 DEF ReadFile, received, told
    <2> QED BY <2>2, <2>3, <2>4 DEF Pcs
  <1>3. ASSUME NEW c \in Calls,
               \/ SendHeaders(c) \/ SendBodyChunk(c) \/ SendComplete(c) \/ Report(c)
               \/ ReadFails(c) \/ Answer(c) \/ Redirect(c) \/ ConnectionLost(c) \/ TimedOut(c)
               \/ Cancelled(c) \/ BodyTooLarge(c) \/ TakePiece(c) \/ TakeEnd(c) \/ Cancel(c)
        PROVE  TypeInv'
    <2>1. UNCHANGED <<req, clients, client, files>>
      BY <1>3 DEF SendHeaders, SendBodyChunk, SendComplete, Report, ReadFails, Answer, Redirect,
                  ConnectionLost, TimedOut, Cancelled, BodyTooLarge, TakePiece, TakeEnd, Cancel, built
    <2>2. pc' = pc \/ \E q \in Pcs \ {"reading"} : pc' = [pc EXCEPT ![c] = q]
      BY <1>3 DEF SendHeaders, SendBodyChunk, SendComplete, Report, ReadFails, Answer, Redirect,
                  ConnectionLost, TimedOut, Cancelled, BodyTooLarge, TakePiece, TakeEnd, Cancel,
                  Fail, Return, Goto, Pcs
    <2>3. result' = result \/ \E e \in Results : result' = [result EXCEPT ![c] = e]
      BY <1>3 DEF SendHeaders, SendBodyChunk, SendComplete, Report, ReadFails, Answer, Redirect,
                  ConnectionLost, TimedOut, Cancelled, BodyTooLarge, TakePiece, TakeEnd, Cancel,
                  Fail, Return, Goto, Results
    <2>4. token' \in [Calls -> BOOLEAN] /\ late' \in [Calls -> Nat] /\ hops' \in [Calls -> Nat]
      <3>1. token' = token \/ token' = [token EXCEPT ![c] = TRUE]
        BY <1>3 DEF SendHeaders, SendBodyChunk, SendComplete, Report, ReadFails, Answer, Redirect,
                    ConnectionLost, TimedOut, Cancelled, BodyTooLarge, TakePiece, TakeEnd, Cancel
      <3>2. late' = late \/ late' = [late EXCEPT ![c] = @ + 1]
        BY <1>3 DEF SendHeaders, SendBodyChunk, SendComplete, Report, ReadFails, Answer, Redirect,
                    ConnectionLost, TimedOut, Cancelled, BodyTooLarge, TakePiece, TakeEnd, Cancel,
                    OnChunk, told
      <3>3. hops' = hops \/ hops' = [hops EXCEPT ![c] = @ + 1]
        BY <1>3 DEF SendHeaders, SendBodyChunk, SendComplete, Report, ReadFails, Answer, Redirect,
                    ConnectionLost, TimedOut, Cancelled, BodyTooLarge, TakePiece, TakeEnd, Cancel
      <3>4. token' \in [Calls -> BOOLEAN]
        BY <3>1
      <3>5. late' \in [Calls -> Nat]
        BY <3>2
      <3>6. hops' \in [Calls -> Nat]
        BY <3>3
      <3> QED BY <3>4, <3>5, <3>6
    <2>5. piece' \in [Calls -> Nat] /\ offset' \in [Calls -> Nat]
      <3>1. piece' = piece \/ \E n \in Sizes \union {0} : piece' = [piece EXCEPT ![c] = n]
        BY <1>3 DEF SendHeaders, SendBodyChunk, SendComplete, Report, ReadFails, Answer, Redirect,
                    ConnectionLost, TimedOut, Cancelled, BodyTooLarge, TakePiece, TakeEnd, Cancel,
                    received
      <3>2. offset' = offset \/ offset' = [offset EXCEPT ![c] = @ + piece[c]]
        BY <1>3 DEF SendHeaders, SendBodyChunk, SendComplete, Report, ReadFails, Answer, Redirect,
                    ConnectionLost, TimedOut, Cancelled, BodyTooLarge, TakePiece, TakeEnd, Cancel,
                    received
      <3>3. piece' \in [Calls -> Nat]
        <4>1. CASE piece' = piece
          BY <4>1
        <4>2. CASE piece' # piece
          <5>1. PICK n \in Sizes \union {0} : piece' = [piece EXCEPT ![c] = n]
            BY <3>1, <4>2
          <5>2. n \in Nat
            BY <5>1, BodyAssumption
          <5> QED BY <5>1, <5>2
        <4> QED BY <4>1, <4>2
      <3>4. offset[c] + piece[c] \in Nat
        OBVIOUS
      <3>5. offset' \in [Calls -> Nat]
        BY <3>2, <3>4
      <3> QED BY <3>3, <3>5
    <2> QED BY <2>1, <2>2, <2>3, <2>4, <2>5 DEF Pcs, At
  <1>4. CASE UNCHANGED vars
    BY <1>4 DEF vars, At
  <1> QED BY <1>1, <1>2, <1>3, <1>4, NextCases

\* Type correctness.
THEOREM TypeCorrect == Spec => []TypeOK
  <1>1. TypeInv => TypeOK
    BY DEF TypeInv
  <1> QED BY <1>1, InitTypeInv, NextTypeInv, PTL DEF Spec

-----------------------------------------------------------------------------
(* The chunks a listener has got                                           *)

Chunks == [kind : {"Headers", "Body", "Complete", "Error", "Cancelled"}, at : Nat, size : Nat]
WireTypes ==
    /\ wire \in [Calls -> Seq(Chunks)]
    /\ pc \in [Calls -> Pcs]
    /\ offset \in [Calls -> Nat]
    /\ piece \in [Calls -> Nat]

\* Where a call is tells what its listener has: nothing before the headers, all that was
\* received while the body comes in, and no end before the last step.
Listens(c) ==
    /\ At(c, {"new", "reading", "sending", "answered"}) => wire[c] = <<>> /\ offset[c] = 0
    /\ At(c, {"streaming", "chunk", "complete"}) =>
          /\ Wire!Opened(wire[c])
          /\ Wire!Received(wire[c]) = offset[c]
    /\ At(c, {"chunk"}) => piece[c] \in Sizes
    /\ At(c, {"failed"}) => ~Wire!Ended(wire[c])
WireInv == WireTypes /\ \A c \in Calls : Listens(c)

LEMMA InitWireInv == Init => WireInv
  BY DEF Init, WireInv, WireTypes, Listens, At, Pcs

\* What is appended is the newest.
LEMMA AppendIsNewest ==
    ASSUME NEW s \in Seq(Chunks), NEW k \in Chunks
    PROVE  /\ Append(s, k) \in Seq(Chunks)
           /\ Append(s, k) # <<>>
           /\ Wire!Newest(Append(s, k)) = k
  BY DEF Wire!Newest

LEMMA ChunkIsChunk ==
    ASSUME NEW k \in {"Headers", "Body", "Complete", "Error", "Cancelled"}, NEW n \in Nat, NEW m \in Nat
    PROVE  /\ Wire!Chunk(k, n, m) \in Chunks
           /\ Wire!Chunk(k, n, m).kind = k /\ Wire!Chunk(k, n, m).at = n /\ Wire!Chunk(k, n, m).size = m
  BY DEF Wire!Chunk, Chunks

\* A step of one call leaves what the listeners of the others have as it was.
LEMMA OthersListen ==
    ASSUME WireInv, WireTypes', NEW c \in Calls, Listens(c)',
           \A d \in Calls \ {c} : /\ pc'[d] = pc[d] /\ wire'[d] = wire[d]
                                  /\ offset'[d] = offset[d] /\ piece'[d] = piece[d]
    PROVE  WireInv'
  <1>1. \A d \in Calls \ {c} : Listens(d)'
    BY DEF WireInv, Listens, At
  <1> QED BY <1>1 DEF WireInv

LEMMA NextWireInv == WireInv /\ [Next]_vars => WireInv'
  <1> SUFFICES ASSUME WireInv, [Next]_vars PROVE WireInv'
    OBVIOUS
  <1> USE DEF WireTypes
  <1>1. ASSUME NEW c \in Calls, SendHeaders(c)
        PROVE  WireInv'
    <2> DEFINE k == Wire!Chunk("Headers", 0, 0)
    <2>1. k \in Chunks /\ k.kind = "Headers" /\ k.at + k.size = 0
      BY ChunkIsChunk
    <2>2. wire' = [wire EXCEPT ![c] = Append(@, k)] /\ pc' = [pc EXCEPT ![c] = "streaming"]
          /\ offset' = offset /\ piece' = piece
      BY <1>1 DEF SendHeaders, OnChunk, Goto, received
    <2>3. wire[c] \in Seq(Chunks) /\ wire[c] = <<>>
      BY <1>1 DEF SendHeaders, WireInv, Listens, At
    <2> HIDE DEF k
    <2>4. WireTypes'
      BY <2>1, <2>2, <2>3, AppendIsNewest DEF WireInv, Pcs
    <2>5. wire'[c] = Append(wire[c], k) /\ pc'[c] = "streaming" /\ offset'[c] = offset[c]
      BY <2>2 DEF WireInv
    <2>6. offset[c] = 0
      BY <1>1 DEF SendHeaders, WireInv, Listens, At
    <2>7. Listens(c)'
      BY <2>1, <2>3, <2>5, <2>6, AppendIsNewest DEF Listens, At, Wire!Opened, Wire!Ended, Wire!Received
    <2> QED BY <2>2, <2>4, <2>7, OthersListen DEF WireInv
  <1>2. ASSUME NEW c \in Calls, SendBodyChunk(c)
        PROVE  WireInv'
    <2> DEFINE k == Wire!Chunk("Body", offset[c], piece[c])
    <2>1. offset[c] \in Nat /\ piece[c] \in Nat
      BY DEF WireInv
    <2>2. k \in Chunks /\ k.kind = "Body" /\ k.at = offset[c] /\ k.size = piece[c]
      BY <2>1, ChunkIsChunk
    <2>3. wire' = [wire EXCEPT ![c] = Append(@, k)] /\ pc' = [pc EXCEPT ![c] = "streaming"]
          /\ offset' = [offset EXCEPT ![c] = @ + piece[c]] /\ piece' = [piece EXCEPT ![c] = 0]
      BY <1>2 DEF SendBodyChunk, OnChunk, Goto
    <2> HIDE DEF k
    <2>4. WireTypes'
      BY <2>1, <2>2, <2>3, AppendIsNewest DEF WireInv, Pcs
    <2>5. wire'[c] = Append(wire[c], k) /\ pc'[c] = "streaming" /\ offset'[c] = offset[c] + piece[c]
      BY <2>3 DEF WireInv
    <2>6. wire[c] \in Seq(Chunks)
      BY DEF WireInv
    <2>7. Listens(c)'
      BY <2>2, <2>5, <2>6, AppendIsNewest DEF Listens, At, Wire!Opened, Wire!Ended, Wire!Received
    <2> QED BY <2>3, <2>4, <2>7, OthersListen DEF WireInv
  <1>3. ASSUME NEW c \in Calls, SendComplete(c) \/ Report(c)
        PROVE  WireInv'
    <2>1. PICK k \in Chunks : wire' = [wire EXCEPT ![c] = Append(@, k)]
      <3>1. CASE SendComplete(c)
        BY <3>1, ChunkIsChunk DEF SendComplete, OnChunk, WireInv
      <3>2. CASE Report(c)
        BY <3>2, ChunkIsChunk DEF Report
      <3> QED BY <1>3, <3>1, <3>2
    <2>2. pc' = [pc EXCEPT ![c] = "done"] /\ offset' = offset /\ piece' = piece
      BY <1>3 DEF SendComplete, Report, Return, Goto, received
    <2>3. WireTypes'
      BY <2>1, <2>2, AppendIsNewest DEF WireInv, Pcs
    <2>4. Listens(c)'
      BY <2>2 DEF WireInv, Listens, At
    <2> QED BY <2>1, <2>2, <2>3, <2>4, OthersListen DEF WireInv
  <1>4. ASSUME NEW c \in Calls,
               \/ Start(c) \/ ReadFile(c) \/ ReadFails(c) \/ Answer(c) \/ Redirect(c)
               \/ ConnectionLost(c) \/ TimedOut(c) \/ Cancelled(c) \/ BodyTooLarge(c)
               \/ TakePiece(c) \/ TakeEnd(c) \/ Cancel(c)
        PROVE  WireInv'
    <2> USE DEF At, Goto, Return, Fail, received, told, Pcs
    <2>1. wire' = wire /\ offset' = offset
      BY <1>4 DEF Start, ReadFile, ReadFails, Answer, Redirect, ConnectionLost, TimedOut,
                  Cancelled, BodyTooLarge, TakePiece, TakeEnd, Cancel
    <2>2. WireTypes' /\ \A d \in Calls \ {c} : pc'[d] = pc[d] /\ piece'[d] = piece[d]
      <3>1. CASE TakePiece(c)
        BY <3>1, <2>1, BodyAssumption DEF TakePiece, WireInv
      <3>2. CASE ~TakePiece(c)
        <4>1. piece' = piece
          BY <1>4, <3>2 DEF Start, ReadFile, ReadFails, Answer, Redirect, ConnectionLost, TimedOut,
                            Cancelled, BodyTooLarge, TakeEnd, Cancel
        <4>2. \E q \in Pcs : pc' = [pc EXCEPT ![c] = q]
          BY <1>4, <3>2 DEF Start, ReadFile, ReadFails, Answer, Redirect, ConnectionLost, TimedOut,
                            Cancelled, BodyTooLarge, TakeEnd, Cancel, WireInv
        <4> QED BY <2>1, <4>1, <4>2 DEF WireInv
      <3> QED BY <3>1, <3>2
    <2>3. Listens(c)'
      <3>1. CASE TakePiece(c)
        BY <3>1, <2>1 DEF TakePiece, WireInv, Listens
      <3>2. CASE ~TakePiece(c)
        <4>1. \/ pc'[c] = pc[c] /\ piece'[c] = piece[c]
              \/ pc[c] \in {"new", "reading", "sending"} /\ pc'[c] \in {"reading", "sending", "answered"}
              \/ pc[c] = "streaming" /\ pc'[c] = "complete"
              \/ pc[c] \in {"new", "reading", "sending", "streaming", "chunk"} /\ pc'[c] = "failed"
          BY <1>4, <3>2 DEF Start, ReadFile, ReadFails, Answer, Redirect, ConnectionLost, TimedOut,
                            Cancelled, BodyTooLarge, TakeEnd, Cancel, WireInv
        <4>2. ~Wire!Ended(<<>>)
          BY DEF Wire!Ended
        <4> QED BY <4>1, <4>2, <2>1 DEF WireInv, Listens, Wire!Opened
      <3> QED BY <3>1, <3>2
    <2> QED BY <2>1, <2>2, <2>3, OthersListen
  <1>5. CASE UNCHANGED vars
    BY <1>5 DEF vars, WireInv, Listens, At
  <1> QED
    BY <1>1, <1>2, <1>3, <1>4, <1>5, NextCases

-----------------------------------------------------------------------------
(* The refinement                                                          *)

\* A step that tells the listener something is the one ChunkWire has for it.
LEMMA StepsRefine == WireInv /\ [Next]_vars => [Wire!Next]_wire
  <1> SUFFICES ASSUME WireInv, [Next]_vars PROVE [Wire!Next]_wire
    OBVIOUS
  <1>1. ASSUME NEW c \in Calls, SendHeaders(c)
        PROVE  Wire!Next
    <2>1. Wire!Headers(c)
      BY <1>1 DEF SendHeaders, OnChunk, WireInv, Listens, At, Wire!Headers, Wire!Put
    <2> QED BY <2>1 DEF Wire!Next
  <1>2. ASSUME NEW c \in Calls, SendBodyChunk(c)
        PROVE  Wire!Next
    <2>1. Wire!Opened(wire[c]) /\ Wire!Received(wire[c]) = offset[c] /\ piece[c] \in Sizes
      BY <1>2 DEF SendBodyChunk, WireInv, Listens, At
    <2>2. offset[c] \in Nat /\ piece[c] \in Nat \ {0}
      BY <2>1, BodyAssumption DEF WireInv, WireTypes
    <2>3. offset[c] + piece[c] <= MaxBody /\ piece[c] \in 1..MaxBody
      BY <1>2, <2>2, BodyAssumption DEF SendBodyChunk, TooLarge
    <2>4. Wire!Put(c, Wire!Chunk("Body", offset[c], piece[c]))
      BY <1>2 DEF SendBodyChunk, OnChunk, Wire!Put
    <2>5. Wire!BodyChunk(c)
      BY <2>1, <2>3, <2>4 DEF Wire!BodyChunk
    <2> QED BY <2>5 DEF Wire!Next
  <1>3. ASSUME NEW c \in Calls, SendComplete(c)
        PROVE  Wire!Next
    <2>1. Wire!Complete(c)
      BY <1>3 DEF SendComplete, OnChunk, WireInv, Listens, At, Wire!Complete, Wire!Put
    <2> QED BY <2>1 DEF Wire!Next
  <1>4. ASSUME NEW c \in Calls, Report(c)
        PROVE  Wire!Next
    <2>1. Wire!Stop(c)
      BY <1>4 DEF Report, WireInv, Listens, At, Wire!Stop, Wire!Put
    <2> QED BY <2>1 DEF Wire!Next
  <1>5. ASSUME NEW c \in Calls,
               \/ Start(c) \/ ReadFile(c) \/ ReadFails(c) \/ Answer(c) \/ Redirect(c)
               \/ ConnectionLost(c) \/ TimedOut(c) \/ Cancelled(c) \/ BodyTooLarge(c)
               \/ TakePiece(c) \/ TakeEnd(c) \/ Cancel(c)
        PROVE  UNCHANGED wire
    BY <1>5 DEF Start, ReadFile, ReadFails, Answer, Redirect, ConnectionLost, TimedOut,
                Cancelled, BodyTooLarge, TakePiece, TakeEnd, Cancel, told
  <1>6. CASE UNCHANGED vars
    BY <1>6 DEF vars
  <1> QED BY <1>1, <1>2, <1>3, <1>4, <1>5, <1>6, NextCases

\* A streamed request implements the protocol its listener is promised: whatever is
\* asked, answered, lost, cancelled or timed out, the chunks are headers, contiguous
\* body chunks up to the cap and at most one end, with the whole body when it is Complete.
THEOREM Implements == Spec => KeepsWireOrder
  <1>1. Init => Wire!Init
    BY DEF Init, Wire!Init
  <1> QED BY <1>1, InitWireInv, NextWireInv, StepsRefine, PTL DEF Spec, KeepsWireOrder, Wire!Spec

-----------------------------------------------------------------------------
(* Chunks after a cancel                                                   *)

\* Before the token fires no chunk is late, and what a select has taken is the first
\* chunk that can be.
LateTypes ==
    /\ token \in [Calls -> BOOLEAN]
    /\ late \in [Calls -> Nat]
    /\ pc \in [Calls -> Pcs]
LateBy(c) ==
    /\ ~token[c] => late[c] = 0
    /\ At(c, {"answered", "chunk", "complete"}) => late[c] = 0
    /\ late[c] <= 1
LateInv == LateTypes /\ \A c \in Calls : LateBy(c)

LEMMA InitLateInv == Init => LateInv
  BY DEF Init, LateInv, LateTypes, LateBy, At, Pcs

LEMMA NextLateInv == LateInv /\ [Next]_vars => LateInv'
  <1> SUFFICES ASSUME LateInv, [Next]_vars PROVE LateInv'
    OBVIOUS
  <1> USE DEF LateInv, LateTypes, LateBy, At, Goto, Return, Fail, told, Pcs
  <1>1. ASSUME NEW c \in Calls, SendHeaders(c) \/ SendBodyChunk(c) \/ SendComplete(c)
        PROVE  LateInv'
    <2>1. token' = token /\ late' = [late EXCEPT ![c] = IF token[c] THEN @ + 1 ELSE @]
          /\ \E q \in {"streaming", "done"} : pc' = [pc EXCEPT ![c] = q]
      BY <1>1 DEF SendHeaders, SendBodyChunk, SendComplete, OnChunk
    <2>2. late[c] = 0
      BY <1>1 DEF SendHeaders, SendBodyChunk, SendComplete
    <2> QED BY <2>1, <2>2
  <1>2. ASSUME NEW c \in Calls, Answer(c) \/ TakePiece(c) \/ TakeEnd(c)
        PROVE  LateInv'
    <2>1. late' = late /\ token' = token /\ ~token[c]
          /\ \E q \in Pcs : pc' = [pc EXCEPT ![c] = q]
      BY <1>2 DEF Answer, TakePiece, TakeEnd
    <2> QED BY <2>1
  <1>3. ASSUME NEW c \in Calls,
               \/ Start(c) \/ ReadFile(c) \/ ReadFails(c) \/ Redirect(c) \/ ConnectionLost(c)
               \/ TimedOut(c) \/ Cancelled(c) \/ BodyTooLarge(c) \/ Report(c)
        PROVE  LateInv'
    <2>1. late' = late /\ token' = token
          /\ (pc' = pc \/ \E q \in {"reading", "sending", "failed", "done"} : pc' = [pc EXCEPT ![c] = q])
      BY <1>3 DEF Start, ReadFile, ReadFails, Redirect, ConnectionLost, TimedOut, Cancelled,
                  BodyTooLarge, Report
    <2> QED BY <2>1
  <1>4. ASSUME NEW c \in Calls, Cancel(c)
        PROVE  LateInv'
    BY <1>4 DEF Cancel
  <1>5. CASE UNCHANGED vars
    BY <1>5 DEF vars
  <1> QED BY <1>1, <1>2, <1>3, <1>4, <1>5, NextCases

\* However a cancel meets what a select has taken, the listener gets at most one more
\* chunk of the answer.
THEOREM Biased == Spec => []OneLateChunk
  <1>1. LateInv => OneLateChunk
    BY DEF LateInv, LateBy, OneLateChunk
  <1> QED BY <1>1, InitLateInv, NextLateInv, PTL DEF Spec
-----------------------------------------------------------------------------
(* The type of a body                                                      *)

\* The types among a request's headers are those of its rows, unless the boundary of a
\* multipart body takes their place, and the one that is added.
LEMMA TypesOfBuilt ==
    ASSUME NEW r
    PROVE  {h \in Built(r).headers : h.key = "type"} =
              (IF IsMultipart(r) THEN {} ELSE HeadersAt(r, TypeRows(r))) \union TypeAdded(r)
  <1> DEFINE Last == Len(r.headers) + 1
  <1>1. \A h \in TypeAdded(r) : h.key = "type"
    <2>1. TypeAdded(r) \in {{Header(Last, "type", "json")}, {Header(Last, "type", "boundary")}, {}}
      BY DEF TypeAdded
    <2> QED BY <2>1 DEF Header
  <1>2. \A i : Header(i, r.headers[i].key, r.headers[i].value).key = r.headers[i].key
    BY DEF Header
  <1>3. {h \in UserHeaders(r) : h.key = "type"} =
           IF IsMultipart(r) THEN {} ELSE HeadersAt(r, TypeRows(r))
    BY <1>2 DEF UserHeaders, HeadersAt, TypeRows
  <1> QED BY <1>1, <1>3 DEF Built

\* The first of the only row is that row.
LEMMA FirstOfOne ==
    ASSUME NEW i \in Nat
    PROVE  First({i}) = i
  BY DEF First

\* The form of a request tells whether it has a body, and whether in parts.
LEMMA FormTells ==
    ASSUME NEW r
    PROVE  /\ Form(r) = "multipart" => HasBody(r) /\ IsMultipart(r)
           /\ Form(r) \in {"text", "binary"} => HasBody(r) /\ ~IsMultipart(r)
  <1> DEFINE file == UserType(r) = "binary" /\ r.body = <<"file">>
  <1>1. Form(r) = CASE ~HasBody(r)                                -> "none"
                    [] HasBody(r) /\ IsMultipart(r)               -> "multipart"
                    [] HasBody(r) /\ file                         -> "binary"
                    [] OTHER                                      -> "text"
    BY DEF Form
  <1> HIDE DEF file
  <1>2. CASE ~HasBody(r)
    BY <1>1, <1>2
  <1>3. CASE HasBody(r) /\ IsMultipart(r)
    <2>1. ~file
      BY <1>3 DEF file, IsMultipart
    <2> QED BY <1>1, <1>3, <2>1
  <1>4. CASE HasBody(r) /\ ~IsMultipart(r)
    BY <1>1, <1>4
  <1> QED BY <1>2, <1>3, <1>4 DEF HasBody, IsMultipart

\* What build_request makes is told as TypeToldOnce says.
LEMMA BuiltTold ==
    ASSUME NEW c \in Calls, NEW r \in AllRequests, sent[c] = Built(r)
    PROVE  /\ Form(r) = "multipart" => ToldAs(c, "boundary")
           /\ Form(r) \in {"text", "binary"} /\ TypeRows(r) = {} => ToldAs(c, "json")
           /\ Form(r) \in {"text", "binary"} /\ UserType(r) # ""
              /\ (\A i, j \in TypeRows(r) : i = j) => ToldAs(c, UserType(r))
  <1> DEFINE last == Len(r.headers) + 1
             types == {h \in sent[c].headers : h.key = "type"}
  <1>1. types = (IF IsMultipart(r) THEN {} ELSE HeadersAt(r, TypeRows(r))) \union TypeAdded(r)
    BY TypesOfBuilt
  <1>2. ASSUME NEW h, types = {h}
        PROVE  ToldAs(c, h.value)
    BY <1>2 DEF ToldAs
  <1>3. \A i, k, v : Header(i, k, v).value = v
    BY DEF Header
  <1> HIDE DEF types
  <1>4. CASE Form(r) = "multipart"
    <2>1. IsMultipart(r) /\ UserType(r) # ""
      BY <1>4, FormTells DEF IsMultipart
    <2>2. TypeAdded(r) = {Header(last, "type", "boundary")}
      BY <1>4, <2>1 DEF TypeAdded
    <2>3. types = {Header(last, "type", "boundary")}
      BY <1>1, <2>1, <2>2
    <2>4. ToldAs(c, "boundary")
      BY <1>2, <1>3, <2>3
    <2>5. Form(r) \notin {"text", "binary"}
      BY <1>4
    <2> QED BY <2>4, <2>5
  <1>5. CASE Form(r) \in {"text", "binary"}
    <2>1. HasBody(r) /\ ~IsMultipart(r)
      BY <1>5, FormTells
    <2>2. ASSUME TypeRows(r) = {}
          PROVE  ToldAs(c, "json")
      <3>1. TypeAdded(r) = {Header(last, "type", "json")}
        BY <1>5, <2>1, <2>2 DEF TypeAdded, UserType
      <3>2. types = {Header(last, "type", "json")}
        BY <1>1, <2>2, <3>1 DEF HeadersAt
      <3> QED BY <1>2, <1>3, <3>2
    <2>3. ASSUME UserType(r) # "", \A i, j \in TypeRows(r) : i = j
          PROVE  ToldAs(c, UserType(r))
      <3>1. PICK i \in TypeRows(r) : TypeRows(r) = {i}
        BY <2>3 DEF UserType
      <3>2. i \in Nat
        BY RequestsAssumption DEF TypeRows
      <3>3. UserType(r) = r.headers[i].value
        BY <3>1, <3>2, FirstOfOne DEF UserType
      <3>4. TypeAdded(r) = {}
        BY <1>5, <2>3 DEF TypeAdded
      <3>5. types = {Header(i, r.headers[i].key, r.headers[i].value)}
        BY <1>1, <2>1, <3>1, <3>4 DEF HeadersAt
      <3> QED BY <1>2, <1>3, <3>3, <3>5
    <2>4. Form(r) # "multipart"
      BY <1>5
    <2> QED BY <2>2, <2>3, <2>4
  <1> QED BY <1>4, <1>5

\* A request is sent as it was built, whole: none is with a part of its files read.
SentInv ==
    /\ req \in [Calls -> AllRequests]
    /\ sent \in [Calls -> {Unsent} \union {Built(r) : r \in AllRequests}]
    /\ \A c \in Calls : sent[c] \in {Unsent, Built(req[c])}

LEMMA InitSentInv == Init => SentInv
  BY DEF Init, SentInv

LEMMA NextSentInv == SentInv /\ [Next]_vars => SentInv'
  <1> SUFFICES ASSUME SentInv, [Next]_vars PROVE SentInv'
    OBVIOUS
  <1>1. ASSUME NEW c \in Calls, Start(c) \/ ReadFile(c)
        PROVE  SentInv'
    <2>1. req' = req /\ (sent' = sent \/ sent' = [sent EXCEPT ![c] = Built(req[c])])
      BY <1>1 DEF Start, ReadFile
    <2>2. Built(req[c]) \in {Built(r) : r \in AllRequests}
      BY DEF SentInv
    <2> QED BY <2>1, <2>2 DEF SentInv
  <1>2. ASSUME NEW c \in Calls,
               \/ SendHeaders(c) \/ SendBodyChunk(c) \/ SendComplete(c) \/ Report(c)
               \/ ReadFails(c) \/ Answer(c) \/ Redirect(c) \/ ConnectionLost(c) \/ TimedOut(c)
               \/ Cancelled(c) \/ BodyTooLarge(c) \/ TakePiece(c) \/ TakeEnd(c) \/ Cancel(c)
        PROVE  SentInv'
    <2>1. req' = req /\ sent' = sent
      BY <1>2 DEF SendHeaders, SendBodyChunk, SendComplete, Report, ReadFails, Answer, Redirect,
                  ConnectionLost, TimedOut, Cancelled, BodyTooLarge, TakePiece, TakeEnd, Cancel, built
    <2> QED BY <2>1 DEF SentInv
  <1>3. CASE UNCHANGED vars
    BY <1>3 DEF vars, SentInv
  <1> QED BY <1>1, <1>2, <1>3, NextCases

\* Whatever rows the user wrote, switched on or off, the server is told one type, that of
\* the body it gets, but for two types of the user and for one without a value.
THEOREM ToldOnce == Spec => []TypeToldOnce
  <1>1. SentInv => TypeToldOnce
    <2> SUFFICES ASSUME SentInv, NEW c \in Calls
                 PROVE  /\ sent[c].form = "multipart" => ToldAs(c, "boundary")
                        /\ sent[c].form \in {"text", "binary"} /\ TypeRows(req[c]) = {}
                              => ToldAs(c, "json")
                        /\ sent[c].form \in {"text", "binary"} /\ UserType(req[c]) # ""
                           /\ (\A i, j \in TypeRows(req[c]) : i = j) => ToldAs(c, UserType(req[c]))
      BY DEF TypeToldOnce
    <2>1. CASE sent[c] = Unsent
      BY <2>1 DEF Unsent
    <2>2. CASE sent[c] = Built(req[c])
      <3>1. sent[c].form = Form(req[c])
        BY <2>2 DEF Built
      <3>2. req[c] \in AllRequests
        BY DEF SentInv
      <3> QED BY <2>2, <3>1, <3>2, BuiltTold
    <2> QED BY <2>1, <2>2 DEF SentInv
  <1> QED BY <1>1, InitSentInv, NextSentInv, PTL DEF Spec
=============================================================================
