SPECIFICATION IntakeSpec
CONSTANTS
    d1 = d1
    d2 = d2
    p2 = p2
    p3 = p3
    p4 = p4
    first = first
    Docs = {d1, d2}
    Checksums = {1, 2}
    Contracts = {k1}
    Priorities = {0, 100}
    Owners = {}
    Tokens = {}
    Texts = {}
    None = None
    Plans <- NoPlans
    MaxJobs = 4
    MaxAttempts = 1
    LeaseDuration = 1
    MaxDelay = 1
    First = First
    Cursors = {p2, p3, p4, first}
    Aliases = {first}
    Archives <- MCArchives
    MaxCandidatesPerPass = 1
    MaxArchivePagesPerPass = 2
    MaxArchivePagesPerScan = 3
    IntakeBudget <- MCEvents
INVARIANTS IntakeTypeOK AcceptedWebhookKept CheckpointBehindWork CheckpointWellFormed
PROPERTIES WebhookServed ArchiveBackfilled
