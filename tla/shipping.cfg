\* Receipts compete for one QC record, shipments for stock and one notice,
\* all of them under the lock of the order or the record; the notice may be
\* cancelled meanwhile, which takes no lock.
SPECIFICATION Spec
CONSTANTS
    NoOne = NoOne
    Sessions = {s1, s2}
    Inbounds = {i1, i2}
    Defectives = {d1}
    Outbounds = {o1, o2}
    Returns = {}
    Notices = {n1}
    ProductionOrder = "production_order"
    QcRecords = {q1}
    QcOf <- OneRecord
    Endpoints <- Shipping
    MaxQty = 2
    QcAccepted = 3
    QcRejected = 1
SYMMETRY Symmetry
\* Ids are finite: the system stops when all are used up.
CHECK_DEADLOCK FALSE
INVARIANTS
    ReceiptsWithinQc
    InNoticeReflectsDrafts
    NonNegativeStock
    NoticeNotOvershipped
    NoticeReflectsOutbounds
    NoDanglingDraft
