SPECIFICATION Spec
CONSTANTS
    o1 = o1
    o2 = o2
    t1 = t1
    t2 = t2
    d1 = d1
    d2 = d2
    Docs = {d1, d2}
    Checksums = {c1, c2}
    Contracts = {k1}
    Priorities = {0, 1}
    Owners = {o1, o2}
    Tokens = {t1, t2}
    Texts = {x1, x2}
    None = None
    Plans <- MCPlans
    MaxJobs = 3
    MaxAttempts = 2
    LeaseDuration = 2
    MaxDelay = 1
CONSTRAINT Focus
SYMMETRY NameSymmetry
INVARIANTS SingleActiveJob OneJobPerSource LeaseIffProcessing FailureExcludesSuccess PlanPartitionsPages
PROPERTIES GenerationIssuedOnce ExpiredClaimIsFenced CheckpointsImmutable StagesInOrder OneFinalizerPerClaim
