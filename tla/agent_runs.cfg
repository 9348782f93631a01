CONSTANTS
    r1 = r1
    r2 = r2
    ann = ann
    Runs = {r1, r2}
    Pages = {}
    NoRun = NoRun
    Elsewhere = {r1, r2}
    UserOf <- AllOfOneUser
    KeyOf <- OwnKeys
    MaxActiveRuns = 2
    MaxToolSteps = 1
    MaxPlanSteps = 2
    MaxFailures = 1
    MaxCalls = 1
    MaxChunks = 1
    MaxCrashes = 1
    MaxDrops = 0
    MaxReloads = 0
SYMMETRY SameUserRuns
SPECIFICATION Spec
INVARIANTS
    LogTellsTheEnd
    PermitsMatchHolders
    ActiveRunIsDriven
PROPERTIES
    EndedStaysEnded
CHECK_DEADLOCK FALSE
