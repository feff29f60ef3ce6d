SPECIFICATION ServiceSpec
CONSTANTS
    Docs = {d1}
    Checksums = {c1}
    Contracts = {k1}
    Priorities = {0}
    Owners = {o1, o2, o3, o4}
    Tokens = {t1}
    Takes = {1, 2}
    Texts <- AllTexts
    None = None
    Plans <- BothPlans
    DirectPlan <- Direct2
    ImagePlan <- Images2
    Capabilities = {"direct", "images"}
    Budget <- AnyOf
    PromptRestart = FALSE
    MaxJobs = 1
    MaxAttempts = 4
    LeaseDuration = 1
    MaxDelay = 1
INVARIANTS AtMostOneDispatch CleanExitLeavesNoClaim NoOrphanedClaim
PROPERTIES DispatchSeesResult ImplementsCorrection
