CONSTANTS
    r1 = r1
    r2 = r2
    ann = ann
    Runs = {r1, r2}
    Pages = {}
    NoRun = NoRun
    Elsewhere = {r1, r2}
    UserOf <- AllOfOneUser
    KeyOf <- RetryOfFirst
    MaxActiveRuns = 2
    MaxToolSteps = 2
    MaxPlanSteps = 2
    MaxFailures = 2
    MaxCalls = 2
    MaxChunks = 1
    MaxCrashes = 1
    MaxDrops = 0
    MaxReloads = 0
SPECIFICATION FairSpec
PROPERTIES
    EveryRunEnds
    KeepsPromise
CHECK_DEADLOCK FALSE
