CONSTANTS
    r1 = r1
    r2 = r2
    ann = ann
    Runs = {r1, r2}
    Pages = {p1}
    NoRun = NoRun
    Elsewhere = {}
    UserOf <- AllOfOneUser
    KeyOf <- OwnKeys
    MaxActiveRuns = 2
    MaxToolSteps = 1
    MaxPlanSteps = 1
    MaxFailures = 1
    MaxCalls = 1
    MaxChunks = 2
    MaxCrashes = 1
    MaxDrops = 1
    MaxReloads = 1
SYMMETRY SameUserRuns
CONSTRAINT FewUpsets
SPECIFICATION Spec
INVARIANTS
    TypeOK
    PageShowsPrefix
    PageEndsAsRun
CHECK_DEADLOCK FALSE
