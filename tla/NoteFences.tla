----------------------------- MODULE NoteFences -----------------------------
(***************************************************************************)
(* parse_blocks (blocks/parser.rs): which lines of a note are an           *)
(* executable block, one line after the other.  A line is abstracted to    *)
(* its fence: the mark and how often it stands at the start of the         *)
(* trimmed line, and what follows it.                                      *)
(***************************************************************************)
EXTENDS Naturals, Sequences, SequencesExt

CONSTANTS
    Lines,      \* records: mark ("backtick", "tilde" or "none"), count, info
    Executable, \* EXECUTABLE_TYPES, as first words of an info string
    MaxLines    \* bound: lines of a note

VARIABLES
    lines,  \* the note
    i,      \* the line to be read
    open,   \* the block being read: its first line, or 0
    blocks  \* those found: first and last line

fenceVars == << lines, i, open, blocks >>

FenceInit ==
    /\ lines \in UNION {[1 .. n -> Lines] : n \in 0 .. MaxLines}
    /\ i = 1
    /\ open = 0
    /\ blocks = << >>

-----------------------------------------------------------------------------
\* strip_fence_open: three marks are taken off and the rest is the info string, so
\* that a fourth mark becomes part of it; a bare fence of three has none.
OpensFence(line) ==
    /\ line.mark # "none" /\ line.count >= 3
    /\ line.count > 3 \/ line.info # "blank"

\* parse_info_string: the type is the first word.
BlockType(line) == IF line.count > 3 THEN "marks" ELSE line.info

\* (A mistake: whatever follows the three backticks.)
ClosesFenceWithInfo(line) == line.mark = "backtick" /\ line.count >= 3

ClosesFence(line) == line.mark = "backtick" /\ line.count >= 3 /\ line.info = "blank"

OpenBlock ==
    /\ i \in DOMAIN lines
    /\ open = 0
    /\ open' = IF OpensFence(lines[i]) /\ BlockType(lines[i]) \in Executable THEN i ELSE 0
    /\ i' = i + 1
    /\ UNCHANGED << lines, blocks >>

ReadBody ==
    /\ i \in DOMAIN lines
    /\ open # 0
    /\ IF ClosesFence(lines[i])
       THEN /\ blocks' = Append(blocks, << open, i >>)
            /\ open' = 0
       ELSE UNCHANGED << open, blocks >>
    /\ i' = i + 1
    /\ UNCHANGED lines

\* The note ends inside a block.
EndOfNote ==
    /\ i = Len(lines) + 1
    /\ open # 0
    /\ blocks' = Append(blocks, << open, i >>)
    /\ open' = 0
    /\ i' = i + 1
    /\ UNCHANGED lines

FenceNext == OpenBlock \/ ReadBody \/ EndOfNote

FenceSpec == FenceInit /\ [][FenceNext]_fenceVars

-----------------------------------------------------------------------------
(* Properties.                                                             *)

Read == i > Len(lines) /\ open = 0

\* CommonMark's fences: a code block opens with three or more marks, a tilde fence
\* with any info string, and closes with at least as many of the same and nothing
\* after them.
Opens(line) == line.mark # "none" /\ line.count >= 3
Closes(line, fence) == line.mark = fence.mark /\ line.count >= fence.count /\ line.info = "blank"

\* The note's code blocks as CommonMark has them, whatever their info string.
CodeBlocks ==
    LET step(n, acc) ==
          IF acc.open = 0
          THEN [acc EXCEPT !.open = IF Opens(lines[n]) THEN n ELSE 0]
          ELSE IF Closes(lines[n], lines[acc.open])
               THEN [open |-> 0, found |-> Append(acc.found, << acc.open, n >>)]
               ELSE acc
        end == FoldLeftDomain(LAMBDA acc, n : step(n, acc), [open |-> 0, found |-> << >>], lines)
    IN IF end.open = 0 THEN end.found ELSE Append(end.found, << end.open, Len(lines) + 1 >>)

Runs(block) == lines[block[1]].info \in Executable

\* The notes both read alike: a block is opened by exactly three backticks, and a
\* code block of another kind shows no line that would open one.
Ordinary ==
    \A n \in DOMAIN CodeBlocks :
      LET block == CodeBlocks[n]
          inside == (block[1] + 1) .. (IF block[2] > Len(lines) THEN Len(lines) ELSE block[2])
      IN IF Runs(block)
         THEN lines[block[1]].mark = "backtick" /\ lines[block[1]].count = 3
         ELSE \A m \in inside : ~(Opens(lines[m]) /\ lines[m].info \in Executable)

\* The blocks that can be run are the code blocks a reader of the note sees whose
\* info string starts with an executable type, with the same first and last lines,
\* a body that shows fences of its own and a note that ends inside a block
\* included.  The parser does not follow CommonMark where a block is opened by tildes
\* (only backticks close it), by four marks or more (it is no block) or where a code
\* block of another kind shows an executable one (which becomes a block of the note).
FencesAsWritten ==
    Read /\ Ordinary => blocks = SelectSeq(CodeBlocks, Runs)
=============================================================================
