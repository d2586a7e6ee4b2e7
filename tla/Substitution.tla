---------------------------- MODULE Substitution ----------------------------
(***************************************************************************)
(* How `{{...}}` in a string becomes a value (references.rs): the          *)
(* placeholders are read off the string once, in order and with their      *)
(* repetitions, and then each in turn is replaced wherever it occurs in    *)
(* what the earlier turns have made of the string.                         *)
(***************************************************************************)
EXTENDS Naturals, Sequences, FiniteSets, FiniteSetsExt, SequencesExt

CONSTANTS
    Pieces,     \* strings (sequences of characters) that a text is made of
    MaxPieces,  \* bound: pieces of a text
    EnvNames,   \* names of environment variables
    References, \* references to results of blocks, each with a dot
    Values,     \* what either may stand for
    NoValue     \* a variable that is not set, a path that leads nowhere

VARIABLES
    written,      \* the text
    env,          \* the active environment's variables
    results,      \* what each reference reads in the results so far
    start,        \* extract_from_string: where it looks on
    placeholders, \* those found
    turn,         \* resolve_string: the next of them
    result        \* the string so far

substVars == << written, env, results, start, placeholders, turn, result >>

Open == << "{", "{" >>
Close == << "}", "}" >>

\* Where p occurs in s, from position i on.
Occurrences(p, s, i) == {n \in i .. (Len(s) - Len(p) + 1) : SubSeq(s, n, n + Len(p) - 1) = p}

SubstInit ==
    /\ written \in {FlattenSeq(t) : t \in UNION {[1 .. n -> Pieces] : n \in 0 .. MaxPieces}}
    /\ env \in [EnvNames -> Values \union {NoValue}]
    /\ results \in [References -> Values \union {NoValue}]
    /\ start = 1
    /\ placeholders = << >>
    /\ turn = 0
    /\ result = written

-----------------------------------------------------------------------------
(* extract_from_string.                                                    *)

\* The next placeholder's first and last character, if there is another one.
NextSpan(i) ==
    LET opens == Occurrences(Open, written, i)
        closes == IF opens = {} THEN {} ELSE Occurrences(Close, written, Min(opens) + 2)
    IN IF closes = {} THEN << >> ELSE << Min(opens) + 2, Min(closes) - 1 >>

Extract ==
    /\ turn = 0
    /\ LET span == NextSpan(start) IN
       /\ span # << >>
       /\ placeholders' = LET inner == SubSeq(written, span[1], span[2])
                          IN IF inner = << >> THEN placeholders ELSE Append(placeholders, inner)
       /\ start' = span[2] + 3
    /\ UNCHANGED << written, env, results, turn, result >>

NoMore ==
    /\ turn = 0
    /\ NextSpan(start) = << >>
    /\ turn' = 1
    /\ UNCHANGED << written, env, results, start, placeholders, result >>

-----------------------------------------------------------------------------
(* resolve_string.                                                         *)

\* is_block_reference: a name with a dot is looked up in the results only.
Lookup(inner) ==
    IF "." \in Range(inner)
    THEN IF inner \in References THEN results[inner] ELSE NoValue
    ELSE IF inner \in EnvNames THEN env[inner] ELSE NoValue

\* (A mistake: one brace of the pattern is taken for the format string's escape.)
PatternOneBraceShort(inner) == Open \o inner \o << "}" >>

Pattern(inner) == Open \o inner \o Close

\* str::replace.  No pattern overlaps itself: it ends in the only `}}` it has.
Replace(s, pattern, value) ==
    LET hits == Occurrences(pattern, s, 1)
        inside == UNION {n .. (n + Len(pattern) - 1) : n \in hits}
    IN FlattenSeq([i \in DOMAIN s |->
         IF i \in hits THEN value ELSE IF i \in inside THEN << >> ELSE << s[i] >>])

Resolve ==
    /\ turn \in DOMAIN placeholders
    /\ LET value == Lookup(placeholders[turn])
       IN result' = IF value = NoValue THEN result
                    ELSE Replace(result, Pattern(placeholders[turn]), value)
    /\ turn' = turn + 1
    /\ UNCHANGED << written, env, results, start, placeholders >>

SubstNext == Extract \/ NoMore \/ Resolve

SubstSpec == SubstInit /\ [][SubstNext]_substVars

-----------------------------------------------------------------------------
(* Properties.                                                             *)

Resolved == turn = Len(placeholders) + 1

Known == {inner \in EnvNames \union References : Lookup(inner) # NoValue}

Whole(inner) == Open \o inner \o Close

\* Every brace of the string belongs to a placeholder that stands by itself.
Tidy(s) ==
    LET spans == UNION {{n .. (n + Len(Whole(p)) - 1) : n \in Occurrences(Whole(p), s, 1)} :
                          p \in EnvNames \union References}
    IN \A i \in DOMAIN s : s[i] \in {"{", "}"} => \E span \in spans : i \in span

\* The text with each placeholder it names replaced, all at once.
AtOnce ==
    FlattenSeq([i \in DOMAIN written |->
      LET at == {p \in Known : i \in Occurrences(Whole(p), written, 1)}
          within == {p \in Known : \E n \in Occurrences(Whole(p), written, 1) :
                                      i \in n .. (n + Len(Whole(p)) - 1)}
      IN IF at # {} THEN Lookup(CHOOSE p \in at : TRUE)
         ELSE IF within # {} THEN << >> ELSE << written[i] >>])

\* The first and the last turn of a placeholder.
Turns(p) == {i \in DOMAIN placeholders : placeholders[i] = p}

\* A value names a placeholder whose turn is still to come when the value goes in.
NamedAhead ==
    \E p, q \in Known :
      /\ Turns(p) # {} /\ Turns(q) # {}
      /\ Occurrences(Whole(q), Lookup(p), 1) # {}
      /\ Min(Turns(p)) < Max(Turns(q))

\* A value stands in the string as it is, whatever it looks like and however often
\* and in whatever order its placeholder occurs, unless it names a placeholder that
\* the text has further on (or itself, when the text repeats it): that one is then
\* replaced inside the value too.  The same value is thus taken literally in one text
\* and expanded in another.  Said of texts and values whose braces are those of
\* whole placeholders.
ValuesVerbatim ==
    Resolved /\ Tidy(written) /\ (\A p \in Known : Tidy(Lookup(p))) /\ ~NamedAhead
      => result = AtOnce
=============================================================================
