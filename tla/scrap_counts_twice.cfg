\* A return or scrap against a posted issue.
SPECIFICATION Spec
CONSTANTS
    NoDoc = NoDoc
    Sessions = {s1, s2}
    Batches = {i1}
    Inbounds = {b1, b2}
    Movements = {m1, m2, m3}
    Stocktakes = {c1}
    Desks = {"goods_in", "finance", "stores", "count"}
    MaxQty = 2
    MaxRejected = 1
SYMMETRY Symmetry
\* Ids are finite: the system stops when all are used up.
CHECK_DEADLOCK FALSE
PROPERTIES
    ScrapKeepsBalance
