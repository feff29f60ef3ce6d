SPECIFICATION ServiceSpec
CONSTANTS
    Docs = {d1}
    Checksums = {c1}
    Contracts = {k1}
    Priorities = {0}
    Owners = {o1, o2, o3}
    Tokens = {t1}
    Takes = {1}
    Texts <- AllTexts
    None = None
    Plans <- BothPlans
    DirectPlan <- Direct2
    ImagePlan <- Images2
    Capabilities = {"images"}
    Budget <- CrashedAndFailed
    PromptRestart = FALSE
    MaxJobs = 1
    MaxAttempts = 3
    LeaseDuration = 1
    MaxDelay = 1
INVARIANTS FailureLeavesNativeText
