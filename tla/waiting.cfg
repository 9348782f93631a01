\* Fair service of requests that wait for each other.
SPECIFICATION FairSpec
CONSTANTS
    NoOne = NoOne
    Sessions = {s1, s2}
    Inbounds = {i1}
    Defectives = {}
    Outbounds = {o1, o2}
    Returns = {}
    Notices = {n1}
    ProductionOrder = "production_order"
    QcRecords = {q1}
    QcOf <- OneRecord
    Endpoints <- Contending
    MaxQty = 1
    QcAccepted = 1
    QcRejected = 0
\* Ids are finite: the system stops when all are used up.
CHECK_DEADLOCK FALSE
PROPERTIES
    EveryRequestEnds
