----------------------------- MODULE InternalDb -----------------------------
(***************************************************************************)
(* The components of the internal database whose calls are a few           *)
(* statements each, the files beside it, and the folder of a vault.  They  *)
(* share no state, so a behaviour exercises one of them: `part`, chosen at *)
(* the start.  What is said in a chat and the rules for its tools are two  *)
(* parts.  What the constants stand for is said in the modules.            *)
(***************************************************************************)
EXTENDS Naturals

CONSTANTS
    Tasks, None, Sentinel,
    Envs, EnvNames, Keys, Texts, OldNames, OldSecrets, MaxRows, MaxSets,
    Sessions, Workspaces, ToolUses, MaxMessages, MaxRules, MaxTokens,
    Conns, Servers, Schemas, TTL, MaxNow, MaxSaves,
    Retentions, DefaultCap, MaxClock, MaxEntries, MaxSetBacks,
    Vaults, MaxOps,
    Aliases, Captures, Runs, KeepRuns, Parts, MaxFiles,
    ConnNames, Hosts, Passwords, Empty, Keep, MaxEdits,
    Notes, MaxNotes, MaxFolderCalls

VARIABLES part,
    names, active, rows, vault, call, made, sets, spent, blurred, raced,
    sessions, messages, tools, rules, tokens, chat,
    cached, save, now, saves, settled,
    history, entries, retention, clock, setBacks, record, unfair,
    vaults, selected, op, ops, torn,
    dirs, disk, inodes, used, writer, writes, shared,
    conns, keychain, calls, begun, asked, spoilt,
    folder, repo, saved, opened, worker, texts, jobs, whole

envVars == << names, active, rows, vault, call, made, sets, spent, blurred, raced >>
chatVars == << sessions, messages, tools, rules, tokens, chat >>
cacheVars == << cached, save, now, saves, settled >>
histVars == << history, entries, retention, clock, setBacks, record, unfair >>
vaultVars == << vaults, selected, op, ops, torn >>
fileVars == << dirs, disk, inodes, used, writer, writes, shared >>
connVars == << conns, keychain, calls, begun, asked, spoilt >>
folderVars == << folder, repo, saved, opened, worker, texts, jobs, whole >>

Env == INSTANCE SqliteEnvironments WITH Callers <- Tasks, Names <- EnvNames
Chat == INSTANCE ChatStore WITH Clients <- Tasks
Cache == INSTANCE SchemaCache WITH Panes <- Tasks
Hist == INSTANCE RunHistory WITH Runners <- Tasks
Vault == INSTANCE VaultRegistry WITH Programs <- Tasks
File == INSTANCE RunFiles WITH Writers <- Tasks, Keep <- KeepRuns
Conn == INSTANCE SqliteConnections WITH Callers <- Tasks, Names <- ConnNames, MaxCalls <- MaxEdits
Folder == INSTANCE VaultFolder WITH Callers <- Tasks, MaxTexts <- MaxNotes, MaxCalls <- MaxFolderCalls,
            disk <- saved, call <- worker, calls <- jobs

ASSUME BoundsAssumption ==
    /\ Env!EnvAssumption /\ Chat!ChatAssumption /\ Cache!CacheAssumption
    /\ Hist!HistoryAssumption /\ Vault!VaultAssumption /\ File!FilesAssumption
    /\ Conn!ConnAssumption /\ Folder!FolderAssumption

Init ==
    /\ part \in {"environments", "chat", "permissions",
                "schemas", "history", "vaults", "files", "connections", "folder"}
    /\ Env!EnvInit /\ Chat!ChatInit /\ Cache!CacheInit
    /\ Vault!VaultInit /\ File!FileInit /\ Conn!ConnInit
    /\ Folder!FolderInit /\ (part = "folder" \/ ~folder)
    /\ Hist!HistInit /\ (part = "history" \/ retention = 0)

EnvStep == part = "environments" /\ Env!EnvNext
    /\ UNCHANGED << part, chatVars, cacheVars, histVars, vaultVars, fileVars, connVars, folderVars >>
TalkStep == part = "chat" /\ Chat!TalkNext
    /\ UNCHANGED << part, envVars, cacheVars, histVars, vaultVars, fileVars, connVars, folderVars >>
PermissionStep == part = "permissions" /\ Chat!PermissionNext
    /\ UNCHANGED << part, envVars, cacheVars, histVars, vaultVars, fileVars, connVars, folderVars >>
CacheStep == part = "schemas" /\ Cache!CacheNext
    /\ UNCHANGED << part, envVars, chatVars, histVars, vaultVars, fileVars, connVars, folderVars >>
HistStep == part = "history" /\ Hist!HistNext
    /\ UNCHANGED << part, envVars, chatVars, cacheVars, vaultVars, fileVars, connVars, folderVars >>
VaultStep == part = "vaults" /\ Vault!VaultNext
    /\ UNCHANGED << part, envVars, chatVars, cacheVars, histVars, fileVars, connVars, folderVars >>
FileStep == part = "files" /\ File!FileNext
    /\ UNCHANGED << part, envVars, chatVars, cacheVars, histVars, vaultVars, connVars, folderVars >>
ConnStep == part = "connections" /\ Conn!ConnNext
    /\ UNCHANGED << part, envVars, chatVars, cacheVars, histVars, vaultVars, fileVars, folderVars >>
FolderStep == part = "folder" /\ Folder!FolderNext
    /\ UNCHANGED << part, envVars, chatVars, cacheVars, histVars, vaultVars, fileVars, connVars >>

Next == EnvStep \/ TalkStep \/ PermissionStep \/ CacheStep \/ HistStep \/ VaultStep \/ FileStep
        \/ ConnStep \/ FolderStep

vars == << part, envVars, chatVars, cacheVars, histVars, vaultVars, fileVars, connVars, folderVars >>

Spec == Init /\ [][Next]_vars

\* See the modules: never two active environments but by calls that overlap.
OneActive == part = "environments" => Env!OneActive
\* A secret variable has its keychain entry.
SecretRowsResolve == part = "environments" => Env!SecretRowsResolve
\* Turns follow the order of messages.
TurnsApart == part = "chat" => Chat!TurnsApart
\* The answer to a permission check was right at some moment of it.
AnswerHeld == part = "permissions" => Chat!AnswerHeld
\* A cached schema is whole or absent.
SchemaWhole == part = "schemas" => Cache!SchemaWhole
\* A trim drops entries for newer ones.
LeavesForNewer == [][part = "history" => Hist!TrimLeavesNewer]_<< part, histVars >>
\* The active vault is registered.
ActiveRegistered == part = "vaults" => Vault!ActiveRegistered
\* A file under its final name is one write's.
FilesWhole == part = "files" => File!FilesWhole
\* A connection has what the last calls gave it.
EditsKept == part = "connections" => Conn!EditsKept
\* A vault's files are all there, and no text of a user is lost.
VaultKept == [][part = "folder" => Folder!TextsKept /\ Folder!Complete']_<< part, folderVars >>
=============================================================================
