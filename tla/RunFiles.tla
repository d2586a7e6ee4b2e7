------------------------------ MODULE RunFiles ------------------------------
(***************************************************************************)
(* Files written through a temporary name: the bodies of runs              *)
(* (run_bodies.rs), one directory per alias, and the captures of a note    *)
(* (captures_cache.rs), one file.  The temporary name is a function of the *)
(* final one, so writers of one name share it: opening truncates the       *)
(* other's file, and a rename moves it from under its hands.               *)
(***************************************************************************)
EXTENDS Naturals, FiniteSets, FiniteSetsExt

CONSTANTS
    Writers,
    Aliases,    \* each names a directory of run bodies
    Captures,   \* the directory of captures
    Runs,       \* run ids in their lexicographic order, as numbers
    Keep,       \* keep_n of a trim
    Parts,      \* a body is written in this many pieces
    MaxFiles    \* bound: files ever opened

\* What the constants are.
FilesAssumption ==
    /\ Runs \subseteq Nat \ {0}
    /\ Captures \notin Aliases
    /\ Parts \in Nat \ {0}
    /\ {Keep, MaxFiles} \subseteq Nat

VARIABLES
    dirs,       \* the directories there are
    disk,       \* the files: directory, name, temporary or not, inode
    inodes,     \* per inode and place of a piece, the write it came from, or 0
    used,       \* inodes so far
    writer,     \* what each writer is doing
    writes,     \* writes so far
    shared      \* history: inodes that two writers had open, or one renamed for another

fileVars == << dirs, disk, inodes, used, writer, writes, shared >>

Resting == [pc |-> "rest"]
Blank == [i \in 1 .. Parts |-> 0]

\* The names in use: run ids under an alias, one note's file under the captures.
Names == (Aliases \X Runs) \union {<< Captures, 0 >>}

FileInit ==
    /\ dirs = {}
    /\ disk = {}
    /\ inodes = [n \in 1 .. MaxFiles |-> Blank]
    /\ used = 0
    /\ writer = [w \in Writers |-> Resting]
    /\ writes = 0
    /\ shared = {}

At(d, f, tmp) == {x \in disk : x.dir = d /\ x.file = f /\ x.tmp = tmp}
Writing(w) == writer[w].pc \in {"write", "rename"}
Finals(d) == {x \in disk : x.dir = d /\ ~x.tmp}

\* (A mistake: the final file is written in place.)
OpenFinal(w, d, f) ==
    LET there == At(d, f, FALSE)
        n == IF there = {} THEN used + 1 ELSE (CHOOSE x \in there : TRUE).inode
    IN
    /\ writer[w].pc = "rest" /\ used < MaxFiles /\ writes < MaxFiles
    /\ writes' = writes + 1
    /\ used' = IF there = {} THEN used + 1 ELSE used
    /\ disk' = disk \union {[dir |-> d, file |-> f, tmp |-> FALSE, inode |-> n]}
    /\ inodes' = [inodes EXCEPT ![n] = Blank]
    /\ dirs' = dirs \union {d}
    /\ UNCHANGED shared
    /\ writer' = [writer EXCEPT ![w] = [pc |-> "write", dir |-> d, file |-> f, inode |-> n,
                                        write |-> writes', next |-> 1]]

\* fs::write opens the temporary file: truncated if it is there, else a new inode.
Open(w, d, f) ==
    LET there == At(d, f, TRUE)
        n == IF there = {} THEN used + 1 ELSE (CHOOSE x \in there : TRUE).inode
    IN
    /\ writer[w].pc = "rest" /\ used < MaxFiles /\ writes < MaxFiles
    /\ writes' = writes + 1
    /\ used' = IF there = {} THEN used + 1 ELSE used
    /\ disk' = disk \union {[dir |-> d, file |-> f, tmp |-> TRUE, inode |-> n]}
    /\ inodes' = [inodes EXCEPT ![n] = Blank]
    /\ dirs' = dirs \union {d}
    /\ shared' = IF \E v \in Writers : Writing(v) /\ writer[v].inode = n
                 THEN shared \union {n} ELSE shared
    /\ writer' = [writer EXCEPT ![w] = [pc |-> "write", dir |-> d, file |-> f, inode |-> n,
                                        write |-> writes', next |-> 1]]

\* A piece goes to the inode, whatever its name has become.
WritePiece(w) ==
    LET m == writer[w] IN
    /\ m.pc = "write"
    /\ inodes' = [inodes EXCEPT ![m.inode][m.next] = m.write]
    /\ writer' = [writer EXCEPT ![w] = IF m.next < Parts THEN [m EXCEPT !.next = @ + 1]
                                       ELSE [m EXCEPT !.pc = "rename"]]
    /\ UNCHANGED << dirs, disk, used, writes, shared >>

\* The rename takes whatever has the temporary name; if nothing has it, it fails.
Rename(w) ==
    LET m == writer[w] tmp == At(m.dir, m.file, TRUE) IN
    /\ m.pc = "rename"
    /\ disk' = IF tmp = {} THEN disk
               ELSE ((disk \ tmp) \ At(m.dir, m.file, FALSE))
                      \union {[x EXCEPT !.tmp = FALSE] : x \in tmp}
    /\ shared' = shared \union {x.inode : x \in {y \in tmp : y.inode # m.inode}}
    /\ writer' = [writer EXCEPT ![w] = Resting]
    /\ UNCHANGED << dirs, inodes, used, writes >>

\* A write fails, or the process dies; the temporary file stays.
Abandon(w) ==
    /\ Writing(w)
    /\ writer' = [writer EXCEPT ![w] = Resting]
    /\ UNCHANGED << dirs, disk, inodes, used, writes, shared >>

-----------------------------------------------------------------------------
(* The other operations on a directory.                                    *)

\* trim_run_bodies lists the directory, newest id first,
ListOld(w, d) ==
    LET old == {x.file : x \in {y \in Finals(d) :
                  Cardinality({z \in Finals(d) : z.file > y.file}) >= Keep}}
    IN
    /\ writer[w].pc = "rest" /\ old # {}
    /\ writer' = [writer EXCEPT ![w] = [pc |-> "trim", dir |-> d, old |-> old]]
    /\ UNCHANGED << dirs, disk, inodes, used, writes, shared >>

\* and removes the files one by one, by name; a removal that fails is not counted.
RemoveOld(w) ==
    LET m == writer[w] f == Max(m.old) IN
    /\ m.pc = "trim"
    /\ disk' = disk \ At(m.dir, f, FALSE)
    /\ writer' = [writer EXCEPT ![w] = IF m.old = {f} THEN Resting ELSE [m EXCEPT !.old = @ \ {f}]]
    /\ UNCHANGED << dirs, inodes, used, writes, shared >>

\* rename_alias_runs moves the directory with all it holds, unless there is one of
\* the new name.
RenameAlias(old, new) ==
    /\ old \in dirs /\ new \notin dirs
    /\ dirs' = (dirs \ {old}) \union {new}
    /\ disk' = {[x EXCEPT !.dir = IF @ = old THEN new ELSE @] : x \in disk}
    /\ UNCHANGED << inodes, used, writer, writes, shared >>

\* delete_captures_file.
DeleteCaptures ==
    /\ At(Captures, 0, FALSE) # {}
    /\ disk' = disk \ At(Captures, 0, FALSE)
    /\ UNCHANGED << dirs, inodes, used, writer, writes, shared >>

FileNext ==
    \/ \E w \in Writers :
         \/ \E n \in Names : Open(w, n[1], n[2])
         \/ \E d \in Aliases : ListOld(w, d)
         \/ WritePiece(w) \/ Rename(w) \/ RemoveOld(w) \/ Abandon(w)
    \/ \E d \in Aliases : \E e \in Aliases \ {d} : RenameAlias(d, e)
    \/ DeleteCaptures

FileSpec == FileInit /\ [][FileNext]_fileVars

-----------------------------------------------------------------------------
(* Properties.                                                             *)

\* "Writes are atomic so a crash can't leave a half-written file the next read
\* mistakes for valid": a file under its final name is one write's body from the
\* first piece to the last, whoever died, renamed the directory or left a temporary
\* file behind; unless two writers had its temporary file open at once, or one renamed
\* what the other had made under the same name.
FilesWhole ==
    \A x \in disk :
      ~x.tmp /\ x.inode \notin shared =>
        /\ inodes[x.inode][1] # 0
        /\ \A i \in 1 .. Parts : inodes[x.inode][i] = inodes[x.inode][1]
=============================================================================
