\* Two requests at a time on the shop floor, then in quality control.
SPECIFICATION Spec
CONSTANTS
    Sessions = {s1, s2}
    Desks = {"floor", "handover", "inspection"}
    Dates = {1, 2}
    Reports = {1, 2}
    Notices = {1, 2}
    Submissions = {1, 2}
    Records = {1, 2, 3}
    Receipts = {1, 2}
    MaxQty = 2
    Target = 2
SYMMETRY Symmetry
\* Ids are finite: the system stops when all are used up.
CHECK_DEADLOCK FALSE
INVARIANTS
    EachStageWithinTheLast
    InspectionFollowsQc
    LiveGoodsHaveQc
    AlertsFollowReports
PROPERTIES
    CancelledStaysCancelled
    CompletionIsLookedAt
