SPECIFICATION ServiceSpec
CONSTANTS
    Docs = {d1}
    Checksums = {c1, c2}
    Contracts = {k1, k2}
    Priorities = {0, 1}
    Owners = {o1, o2, o3, o4}
    Tokens = {t1}
    Takes = {1}
    Texts <- AllTexts
    None = None
    Plans <- BothPlans
    DirectPlan <- Direct2
    ImagePlan <- Images2
    Capabilities = {"images"}
    Budget <- Replaced
    PromptRestart = FALSE
    MaxJobs = 2
    MaxAttempts = 4
    LeaseDuration = 1
    MaxDelay = 1
INVARIANTS ContentIsWholeResult FailedTagHasCause
PROPERTIES OthersTagsKept StaleOnlyByRace
