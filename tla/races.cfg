\* Every request, whatever it locks.
SPECIFICATION Spec
CONSTANTS
    NoOne = NoOne
    Sessions = {s1, s2}
    Inbounds = {i1}
    Defectives = {}
    Outbounds = {o1}
    Returns = {r1}
    Notices = {n1}
    ProductionOrder = "production_order"
    QcRecords = {q1}
    QcOf <- OneRecord
    Endpoints <- Everything
    MaxQty = 1
    QcAccepted = 1
    QcRejected = 0
SYMMETRY Symmetry
\* Ids are finite: the system stops when all are used up.
CHECK_DEADLOCK FALSE
INVARIANTS
    TypeOK
    NoStaleDocument
    LedgerMatchesDocuments
    ReceivableFollowsOutbound
PROPERTIES
    ImplementsLedger
    FinalStaysFinal
