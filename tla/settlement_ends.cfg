CONSTANTS
    Debts = {1, 2}
    Payments = {p1, p2}
    NoOne = NoOne
    Others = {2}
    Exposed = {}
    Booked = {2}
    MaxAmount = 1
    MaxLines = 2
SPECIFICATION FairSpec
PROPERTIES
    EveryPaymentEnds
CHECK_DEADLOCK FALSE
