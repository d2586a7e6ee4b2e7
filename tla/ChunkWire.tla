------------------------------ MODULE ChunkWire ------------------------------
(***************************************************************************)
(* What HttpChunk (executor/http/types.rs) promises to whoever listens to  *)
(* a streamed request: Headers, then body chunks whose offsets continue    *)
(* each other, then one Complete with the whole body; or, at any moment    *)
(* before that, one Error or Cancelled.  Nothing follows the end.          *)
(***************************************************************************)
EXTENDS Integers, Sequences

CONSTANTS Calls,    \* the executions, each with a wire of its own
          MaxBody   \* MAX_BODY_BYTES

VARIABLE wire       \* call -> the chunks sent so far

Chunk(kind, at, size) == [kind |-> kind, at |-> at, size |-> size]

Newest(s) == s[Len(s)]
Ended(s)  == s # <<>> /\ Newest(s).kind \in {"Complete", "Error", "Cancelled"}
Opened(s) == s # <<>> /\ ~Ended(s)

\* The bytes a listener of an open wire has: Headers carries none, and each
\* body chunk starts where the one before it stopped.
Received(s) == Newest(s).at + Newest(s).size

Put(c, chunk) == wire' = [wire EXCEPT ![c] = Append(@, chunk)]

Headers(c) == wire[c] = <<>> /\ Put(c, Chunk("Headers", 0, 0))

BodyChunk(c) ==
    /\ Opened(wire[c])
    /\ \E n \in 1..MaxBody :
          /\ Received(wire[c]) + n <= MaxBody
          /\ Put(c, Chunk("Body", Received(wire[c]), n))

Complete(c) == Opened(wire[c]) /\ Put(c, Chunk("Complete", 0, Received(wire[c])))

Stop(c) == ~Ended(wire[c]) /\ \E k \in {"Error", "Cancelled"} : Put(c, Chunk(k, 0, 0))

Init == wire = [c \in Calls |-> <<>>]
Next == \E c \in Calls : Headers(c) \/ BodyChunk(c) \/ Complete(c) \/ Stop(c)
Spec == Init /\ [][Next]_wire
=============================================================================
