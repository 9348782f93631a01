CONSTANTS
    Debts = {1}
    Payments = {p1}
    NoOne = NoOne
    Others = {}
    Exposed = {}
    Booked = {1}
    MaxAmount = 1
    MaxLines = 1
SPECIFICATION Spec
INVARIANTS
    RevenueBookedOnce
CHECK_DEADLOCK FALSE
