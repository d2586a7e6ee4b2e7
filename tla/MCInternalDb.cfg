CONSTANTS
    t1 = t1
    t2 = t2
    a = a
    b = b
    Tasks <- MCTasks
    None = None
    Sentinel = Sentinel
    Envs = {a, b}
    EnvNames = {"dev", "prod"}
    Keys = {"token"}
    Texts = {"xyz"}
    OldNames <- MCOldNames
    OldSecrets <- MCOldSecrets
    MaxRows = 2
    MaxSets = 2
    Sessions = {a}
    Workspaces = {b}
    ToolUses = {1}
    MaxMessages = 3
    MaxRules = 2
    MaxTokens = 1
    Conns = {a, b}
    Servers = {a}
    Schemas <- MCSchemas
    TTL = 1
    MaxNow = 2
    MaxSaves = 2
    Retentions = {0, 1}
    DefaultCap = 2
    MaxClock = 4
    MaxEntries = 3
    MaxSetBacks = 1
    Vaults = {a, b}
    MaxOps = 4
    Aliases = {a, b}
    Captures = None
    Runs = {1, 2}
    KeepRuns = 1
    Parts = 2
    MaxFiles = 3
    n1 = n1
    n2 = n2
    h1 = h1
    h2 = h2
    p1 = p1
    p2 = p2
    ConnNames = {n1, n2}
    Hosts = {h1, h2}
    Passwords = {p1, p2}
    Empty = Empty
    Keep = Keep
    MaxEdits = 3
    Notes = {a, b}
    MaxNotes = 2
    MaxFolderCalls = 2
SPECIFICATION Spec
SYMMETRY Symmetry
INVARIANTS
    OneActive
    SecretRowsResolve
    TurnsApart
    AnswerHeld
    SchemaWhole
    ActiveRegistered
    FilesWhole
    EditsKept
PROPERTIES
    LeavesForNewer
    VaultKept
CHECK_DEADLOCK FALSE
