SPECIFICATION ServiceSpec
CONSTANTS
    Docs = {d1}
    Checksums = {c1, c2}
    Contracts = {k1}
    Priorities = {0}
    Owners = {o1, o2}
    Tokens = {t1}
    Takes = {1}
    Texts <- AllTexts
    None = None
    Plans <- BothPlans
    DirectPlan <- Direct2
    ImagePlan <- Images2
    Capabilities = {"images"}
    Budget <- ReplacedOnly
    PromptRestart = FALSE
    MaxJobs = 2
    MaxAttempts = 2
    LeaseDuration = 1
    MaxDelay = 1
PROPERTIES StaleResultNotWritten
