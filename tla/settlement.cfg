CONSTANTS
    Debts = {1, 2}
    Payments = {p1, p2}
    NoOne = NoOne
    Others = {2}
    Exposed = {1}
    Booked = {}
    MaxAmount = 2
    MaxLines = 2
SPECIFICATION Spec
SYMMETRY SamePayments
INVARIANTS
    TypeOK
    AllocationsFit
    PaidDebtStands
    StatusFollowsPayments
PROPERTIES
    ImplementsDebtLedger
CHECK_DEADLOCK FALSE
