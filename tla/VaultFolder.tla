---------------------------- MODULE VaultFolder ----------------------------
(***************************************************************************)
(* The folder of a vault while it comes into being and while its notes are *)
(* worked on: create_new_vault (vault_config/create.rs),                   *)
(* scaffold_new_vault (vault_config/scaffold.rs) with the ignore file      *)
(* (vault_config/gitignore.rs), and the calls on notes (fs/mod.rs).  Each  *)
(* asks for a file and then writes it, in two accesses, between which      *)
(* other calls and the user's own programs are at work in the folder.      *)
(*                                                                         *)
(* A file has a text, told apart only by who wrote it, and for the ignore  *)
(* file whether the patterns of local files are in it.                     *)
(***************************************************************************)
EXTENDS Integers, Sequences, SequencesExt

CONSTANTS
    Callers,
    Notes,
    MaxTexts, \* texts users write
    MaxCalls

VARIABLES
    folder, \* whether the folder is there
    repo,   \* whether it has a .git
    disk,   \* file -> its content
    opened, \* caller -> the name that the file it has open goes by now, or Nowhere
    call,   \* caller -> the call under way
    texts,  \* texts written so far
    calls,  \* calls made so far
    whole   \* a creation has succeeded, and no user has undone it since

folderVars == << folder, repo, disk, opened, call, texts, calls, whole >>

Ignore == ".gitignore"
Scaffold == << "connections.toml", "envs/local.toml", "workspace.toml", Ignore >>
Files == Range(Scaffold) \union Notes

\* In the trash, or a file that another has replaced.
Nowhere == "nowhere"

\* The tree shows users no file but "*.md", and a scaffold writes no such file.
FolderAssumption ==
    /\ Notes \intersect (Range(Scaffold) \union {Nowhere}) = {}
    /\ {MaxTexts, MaxCalls} \subseteq Nat

Ours == 0  \* what the program writes of itself, an empty note included
Torn == -1 \* a file that was emptied to be written
Content(text, patterns) == [text |-> text, patterns |-> patterns]
NoFile == Content(-2, FALSE)
Exists(f) == disk[f] # NoFile

Call(op, pc, f, t, text) ==
    [op |-> op, pc |-> pc, item |-> 1, file |-> f, to |-> t, text |-> text, seen |-> NoFile]
Idle == Call("none", "idle", Ignore, Ignore, Ours)

FolderInit ==
    /\ folder \in BOOLEAN
    /\ repo = FALSE
    /\ disk = [f \in Files |-> NoFile]
    /\ opened = [p \in Callers |-> Nowhere]
    /\ call = [p \in Callers |-> Idle]
    /\ texts = 0
    /\ calls = 0
    /\ whole = FALSE

At(p, pc) == call[p].pc = pc
Goto(p, pc) == call' = [call EXCEPT ![p].pc = pc]
Return(p) == call' = [call EXCEPT ![p] = Idle]
Put(f, content) == disk' = [disk EXCEPT ![f] = content]
Opens(p, f) == opened' = [opened EXCEPT ![p] = f]
\* A file is moved to another name, over what had that name.
Moves(f, t) ==
    opened' = [p \in Callers |-> IF opened[p] = f THEN t ELSE IF opened[p] = t THEN Nowhere ELSE opened[p]]

Begin(p, op, pc, f, t, text) ==
    /\ At(p, "idle")
    /\ calls < MaxCalls
    /\ calls' = calls + 1
    /\ call' = [call EXCEPT ![p] = Call(op, pc, f, t, text)]
    /\ UNCHANGED << folder, repo, disk, opened, whole >>

\* An access fails, or the program dies: the call ends where it is.
Fail(p) ==
    /\ ~At(p, "idle")
    /\ Return(p)
    /\ Opens(p, Nowhere)
    /\ UNCHANGED << folder, repo, disk, texts, calls, whole >>

-----------------------------------------------------------------------------
(* create_new_vault.                                                       *)

BeginCreate(p) == Begin(p, "create", "folder", Ignore, Ignore, Ours) /\ UNCHANGED texts

\* An empty folder is taken, one with anything in it refused.
CheckFolder(p) ==
    /\ At(p, "folder")
    /\ IF ~folder THEN Goto(p, "mkdir")
       ELSE IF ~repo /\ \A f \in Files : ~Exists(f) THEN Goto(p, "git")
       ELSE Return(p)
    /\ UNCHANGED << folder, repo, disk, opened, texts, calls, whole >>

\* create_dir fails if another call has made it.
MakeFolder(p) ==
    /\ At(p, "mkdir")
    /\ folder' = TRUE
    /\ IF folder THEN Return(p) ELSE Goto(p, "git")
    /\ UNCHANGED << repo, disk, opened, texts, calls, whole >>

GitInit(p) ==
    /\ At(p, "git")
    /\ repo' = TRUE
    /\ Goto(p, "dirs")
    /\ UNCHANGED << folder, disk, opened, texts, calls, whole >>

-----------------------------------------------------------------------------
(* scaffold_new_vault.                                                     *)

BeginScaffold(p) == Begin(p, "scaffold", "dirs", Ignore, Ignore, Ours) /\ UNCHANGED texts

MakeDirs(p) ==
    /\ At(p, "dirs")
    /\ folder' = TRUE
    /\ Goto(p, "look")
    /\ UNCHANGED << repo, disk, opened, texts, calls, whole >>

\* On with the next file, or the end of a scaffold that has succeeded.
Advance(p) ==
    IF call[p].item = Len(Scaffold)
    THEN Return(p) /\ whole' = TRUE
    ELSE call' = [call EXCEPT ![p].item = @ + 1, ![p].pc = "look", ![p].seen = NoFile] /\ UNCHANGED whole

Target(p) == Scaffold[call[p].item]

\* Mutant: the first file that is there makes the folder a vault already.
InPlaceAlready(p) ==
    /\ Exists(Target(p))
    /\ Return(p)
    /\ whole' = TRUE

\* A file that is there is left alone, the ignore file if it has all patterns.
InPlace(p) ==
    /\ Exists(Target(p))
    /\ Target(p) = Ignore => disk[Ignore].patterns
    /\ Advance(p)

Wanted(p) ==
    /\ Exists(Target(p)) => Target(p) = Ignore /\ ~disk[Ignore].patterns
    /\ call' = [call EXCEPT ![p].pc = "write", ![p].seen = disk[Target(p)]]
    /\ UNCHANGED whole

LookFor(p) ==
    /\ At(p, "look")
    /\ InPlace(p) \/ Wanted(p)
    /\ UNCHANGED << folder, repo, disk, opened, texts, calls >>

\* write_atomic: the defaults, or what the ignore file said and the patterns after it.
WriteWanted(p) ==
    /\ At(p, "write")
    /\ LET seen == call[p].seen
       IN Put(Target(p), Content(IF seen = NoFile THEN Ours ELSE seen.text, Target(p) = Ignore))
    /\ Advance(p)
    /\ UNCHANGED << folder, repo, opened, texts, calls >>

-----------------------------------------------------------------------------
(* Notes.                                                                  *)

BeginCreateNote(p, f) == folder /\ Begin(p, "create_note", "absent", f, f, Ours) /\ UNCHANGED texts
BeginDelete(p, f) == folder /\ Begin(p, "delete_note", "delete", f, f, Ours) /\ UNCHANGED texts
BeginRename(p, f, t) == folder /\ f # t /\ Begin(p, "rename_note", "absent", f, t, Ours) /\ UNCHANGED texts
BeginWrite(p, f) ==
    /\ folder
    /\ texts < MaxTexts
    /\ texts' = texts + 1
    /\ Begin(p, "write_note", "empty", f, f, texts + 1)

\* create_note and rename_note: the name must be free, and the note to rename be there.
CheckFree(p) ==
    /\ At(p, "absent")
    /\ IF Exists(call[p].to) \/ (call[p].op = "rename_note" /\ ~Exists(call[p].file))
       THEN Return(p)
       ELSE call' = [call EXCEPT ![p].pc = "place", ![p].seen = disk[call[p].to]]
    /\ UNCHANGED << folder, repo, disk, opened, texts, calls, whole >>

\* std::fs::write and std::fs::rename take the place of what is there by now.  The one
\* empties it, the other moves a file that is being written as it is.
Place(p) ==
    /\ At(p, "place")
    /\ LET f == call[p].file
           t == call[p].to
       IN IF call[p].op = "create_note" THEN Put(t, Content(Ours, FALSE)) /\ UNCHANGED opened
          ELSE IF Exists(f) THEN disk' = [disk EXCEPT ![t] = disk[f], ![f] = NoFile] /\ Moves(f, t)
          ELSE UNCHANGED << disk, opened >>
    /\ Return(p)
    /\ UNCHANGED << folder, repo, texts, calls, whole >>

\* write_note: std::fs::write opens the file and empties it.
Truncate(p) ==
    /\ At(p, "empty")
    /\ Put(call[p].file, Content(Torn, FALSE))
    /\ Opens(p, call[p].file)
    /\ Goto(p, "fill")
    /\ UNCHANGED << folder, repo, texts, calls, whole >>

\* It fills the file it has opened, whatever its name is by now.
Fill(p) ==
    /\ At(p, "fill")
    /\ IF opened[p] = Nowhere THEN UNCHANGED disk ELSE Put(opened[p], Content(call[p].text, FALSE))
    /\ Opens(p, Nowhere)
    /\ Return(p)
    /\ UNCHANGED << folder, repo, texts, calls, whole >>

\* delete_note moves the note to the trash, or finds none.
Delete(p) ==
    /\ At(p, "delete")
    /\ Put(call[p].file, NoFile)
    /\ Moves(call[p].file, Nowhere)
    /\ Return(p)
    /\ UNCHANGED << folder, repo, texts, calls, whole >>

-----------------------------------------------------------------------------
\* A user's own program saves a file: in place, or with another that replaces it.
Save(f, patterns) ==
    /\ folder
    /\ texts < MaxTexts
    /\ f # Ignore => ~patterns
    /\ texts' = texts + 1
    /\ Put(f, Content(texts + 1, patterns))
    /\ UNCHANGED opened \/ Moves(f, Nowhere)
    /\ whole' = (whole /\ (f = Ignore => patterns))
    /\ UNCHANGED << folder, repo, call, calls >>

FolderNext ==
    \/ \E p \in Callers :
        \/ BeginCreate(p) \/ CheckFolder(p) \/ MakeFolder(p) \/ GitInit(p)
        \/ BeginScaffold(p) \/ MakeDirs(p) \/ LookFor(p) \/ WriteWanted(p)
        \/ CheckFree(p) \/ Place(p) \/ Truncate(p) \/ Fill(p) \/ Delete(p)
        \/ Fail(p)
        \/ \E f \in Notes :
            \/ BeginCreateNote(p, f) \/ BeginDelete(p, f) \/ BeginWrite(p, f)
            \/ \E t \in Notes : BeginRename(p, f, t)
    \/ \E f \in Files, patterns \in BOOLEAN : Save(f, patterns)

FolderSpec == FolderInit /\ [][FolderNext]_folderVars

-----------------------------------------------------------------------------
(* Properties.                                                             *)

FolderTypeOK ==
    /\ folder \in BOOLEAN /\ repo \in BOOLEAN /\ whole \in BOOLEAN
    /\ disk \in [Files -> [text : -2 .. MaxTexts, patterns : BOOLEAN]]
    /\ opened \in [Callers -> Notes \union {Nowhere}]
    /\ DOMAIN call = Callers
    /\ texts \in 0 .. MaxTexts
    /\ calls \in 0 .. MaxCalls

\* The call was asked to change this very file.
Asked(p, f) ==
    \/ call[p].op \in {"write_note", "delete_note"} /\ call[p].file = f
    \/ /\ call[p].op = "rename_note"
       /\ call[p].file = f
       /\ disk'[call[p].to] = disk[f]

\* The call has looked at the file, and another has written it since.
Overtaken(p, f) ==
    /\ \/ At(p, "place") /\ call[p].to = f
       \/ At(p, "write") /\ Target(p) = f
    /\ call[p].seen # disk[f]

\* The call has opened the file under a name it has been renamed from.
Carried(p, f) == At(p, "fill") /\ opened[p] = f /\ call[p].file # f

TextsKept ==
    \A f \in Files :
        disk[f].text > 0 /\ disk'[f].text # disk[f].text =>
            \/ texts' # texts
            \/ \E p \in Callers : call'[p] # call[p] /\ (Asked(p, f) \/ Overtaken(p, f) \/ Carried(p, f))

Complete ==
    whole => /\ \A f \in Range(Scaffold) : Exists(f)
             /\ disk[Ignore].patterns

\* Once a creation or a scaffold has succeeded, in a new folder, in one with files of
\* the user's or after calls that were cut short, every file of a vault is there and the
\* local ones are ignored; and no text a user has written is lost to a call that was not
\* asked to change that file, the ignore file's and the target of a rename included.
\* The exceptions are a file that came or changed between a call's look and its write,
\* and a note that is renamed while it is being written: the rest of the write goes to
\* its new name, over what a user has saved there since.
VaultKept == [][TextsKept /\ Complete']_folderVars
=============================================================================
