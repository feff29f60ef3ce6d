SPECIFICATION PartsSpec
CONSTANTS
    Moving = {"workspace", "database", "logger", "probe", "transcription", "tag"}
    r1 = r1
    r2 = r2
    r3 = r3
    Reservations = {r1, r2, r3}
    TemporaryByteBudget = 4
    MinimumFreeBytes = 1
    Available <- MCAvailable
    Sizes = {0, 1, 2, 3}
    AvailableMigrations = {1, 2, 3, 4, 5}
    OldVersions = {0, 2, 5, 6}
    MaxFaults = 3
    Capacity = 2
    MaxEntries = 5
    Closers = {1, 2}
    Asks = {1, 2, 3}
    Processes = {"old", "new"}
    TagFaults = 1
    Calls = {1, 2, 3}
    Nobody = 0
    PageCounts = {2, 3, 4}
    MaxDocumentPages = 3
    DirectPages = 2
    BatchSize = 2
    ModelAttempts = 3
    PageTexts <- MCPageTexts
    MaxRawBytes = 8
    MaxPageBytes = 4
    MaxBatchBytes = 7
    MaxJoinedBytes = 22
    MaxRuns = 2
INVARIANTS PartsTypeOK BudgetRespected AccountingExact DiskIsCharged
           SchemaMatchesVersion EntriesAccounted OneFlight ProbeTruthful JoinReadable TagsAgree
PROPERTIES DatabaseOpens TranscriptionEnds FallbackIsFinal
CHECK_DEADLOCK FALSE
