---------------------------- MODULE WarehouseDb ----------------------------
(***************************************************************************)
(* The rows the finished-goods handlers of one production order share, and *)
(* the way a request works on them: an unlocked first read, a transaction  *)
(* at READ COMMITTED that takes its row locks (SELECT ... FOR UPDATE) in a *)
(* fixed order, reads, and then saves everything it writes.  What a        *)
(* transaction writes becomes visible, and its locks are released, when it *)
(* commits.                                                                *)
(*                                                                         *)
(* One production order is enough: every balance, reservation and lock of  *)
(* these handlers is scoped by production_order_id.                        *)
(***************************************************************************)
EXTENDS Integers, Sequences, FiniteSets

CONSTANTS
    Sessions,         \* requests served at the same time
    Inbounds,         \* finished_goods_inbounds rows (ids)
    Defectives,       \* finished_goods_defectives rows
    Outbounds,        \* finished_goods_outbounds rows
    Returns,          \* customer_returns rows
    Notices,          \* finished_goods_outbound_notices rows
    ProductionOrder,  \* the production_orders row, used as a mutex
    QcRecords,        \* active finished_goods_qc_records rows, all inspected
                      \* for one inbound notice
    QcOf,             \* the QC record an inbound or defective is created for
    NoOne,            \* NULL: no row, no lock holder
    Endpoints,        \* the requests the environment may send
    MaxQty,           \* largest quantity a request asks for
    QcAccepted,       \* qualified + conditionally accepted quantity of a record
    QcRejected        \* rejected quantity of a record

Docs  == Inbounds \cup Defectives \cup Outbounds \cup Returns
Rows  == Docs \cup Notices \cup {ProductionOrder} \cup QcRecords
Quantities == 1..MaxQty

ASSUME FiniteIds ==
    /\ IsFiniteSet(Docs)
    /\ MaxQty \in Nat \ {0}
    /\ QcAccepted \in Nat
    /\ QcRejected \in Nat

ASSUME ReceiptQc == QcOf \in [Inbounds \cup Defectives -> QcRecords]

ASSUME DistinctIds ==
    /\ NoOne \notin Sessions \cup Rows
    /\ ProductionOrder \notin Docs \cup Notices \cup QcRecords
    /\ QcRecords \cap (Docs \cup Notices) = {}
    /\ Notices \cap Docs = {}
    /\ Inbounds \cap (Defectives \cup Outbounds \cup Returns) = {}
    /\ Defectives \cap (Outbounds \cup Returns) = {}
    /\ Outbounds \cap Returns = {}

VARIABLES
    doc,         \* document rows: status, quantity, stock category, notice
    notice,      \* outbound-notice rows: status, quantity, shipped_quantity
    receivable,  \* status of the receivable_sources row of each outbound
    accrued,     \* receivables that have an accrual voucher
    stock,       \* SUM(inventory_facts.quantity_delta) per stock category
    facts,       \* source types of the inventory_facts rows of each document
    inNotice,    \* status of the inbound notice the QC records are for
    lock,        \* holder of each row lock
    req          \* what each session is doing

data == <<doc, notice, receivable, accrued, stock, facts, inNotice>>
vars == <<doc, notice, receivable, accrued, stock, facts, inNotice, lock, req>>

Categories == {"finished_goods", "defective_goods"}
LiveStatus == {"posted", "shipped", "signed"}
OpenNotice == {"pending", "outbound_created", "partially_outbound"}

DocRow     == [st : {"absent", "draft", "reversed", "cancelled"} \cup LiveStatus,
               qty : Quantities, cat : Categories, notice : Notices \cup {NoOne}]
NoticeRow  == [st : {"absent", "completed", "cancelled"} \cup OpenNotice,
               qty : Quantities, shipped : Nat]
InNoticeSt == {"partially_inbound", "completed"}

(***************************************************************************)
(* The notice row a handler has worked out and is about to UPDATE.  Keep   *)
(* stands for "no UPDATE": the early returns of the two sync functions.    *)
(***************************************************************************)
Sync == [st : {"keep", "completed"} \cup OpenNotice \cup InNoticeSt, shipped : Nat]
Keep == [st |-> "keep", shipped |-> 0]

Request == [op : Endpoints \cup {"idle"}, doc : Docs \cup {NoOne},
            notice : Notices \cup {NoOne}, qty : Quantities,
            plan : Seq(Rows), held : Nat, step : {"check", "update", "save"},
            bal : Int, sync : Sync]

NewRequest(op, d, n, q, plan) ==
    [op |-> op, doc |-> d, notice |-> n, qty |-> q, plan |-> plan, held |-> 0,
     step |-> "check", bal |-> 0, sync |-> Keep]
Idle == NewRequest("idle", NoOne, NoOne, 1, << >>)

Init ==
    /\ doc = [d \in Docs |-> [st |-> "absent", qty |-> 1, notice |-> NoOne,
                              cat |-> IF d \in Defectives THEN "defective_goods"
                                                          ELSE "finished_goods"]]
    /\ notice = [n \in Notices |-> [st |-> "absent", qty |-> 1, shipped |-> 0]]
    /\ receivable = [o \in Outbounds |-> "absent"]
    /\ accrued = {}
    /\ stock = [c \in Categories |-> 0]
    /\ facts = [d \in Docs |-> {}]
    /\ inNotice = "completed"
    /\ lock = [x \in Rows |-> NoOne]
    /\ req = [s \in Sessions |-> Idle]

-----------------------------------------------------------------------------
(***************************************************************************)
(* SUM(quantity) over a set of documents, written as the size of a set of  *)
(* unit pieces so that facts about it follow from facts about cardinality. *)
(***************************************************************************)
Total(rows, S) ==
    Cardinality({p \in S \X Quantities : p[2] <= rows[p[1]].qty})

InStatus(rows, S, statuses) == {d \in S : rows[d].st \in statuses}
SetStatus(d, st) == [doc EXCEPT ![d].st = st]

(***************************************************************************)
(* A new id is a fresh UUID: nobody else is creating that row.             *)
(***************************************************************************)
FreshDoc(d)    == doc[d].st = "absent" /\ \A t \in Sessions : req[t].doc # d
FreshNotice(n) == notice[n].st = "absent" /\ \A t \in Sessions : req[t].notice # n

(***************************************************************************)
(* Steps common to all requests.                                           *)
(***************************************************************************)
Begin(s, r) ==
    /\ req[s].op = "idle"
    /\ r.op \in Endpoints
    /\ req' = [req EXCEPT ![s] = r]
    /\ UNCHANGED <<data, lock>>

(***************************************************************************)
(* The condition of every reversal: the document is still posted and its   *)
(* stock category covers what goes out.  (ReversibleByBalance is a faulty  *)
(* variant: it forgets to read the status again under the lock.)           *)
(***************************************************************************)
ReversibleByBalance(d) == stock[doc[d].cat] - doc[d].qty >= 0
Reversible(d) == doc[d].st = "posted" /\ stock[doc[d].cat] - doc[d].qty >= 0

\* SELECT ... FOR UPDATE of the next row of the handler's plan.
TakeLock(s) ==
    /\ req[s].held < Len(req[s].plan)
    /\ LET row == req[s].plan[req[s].held + 1]
       IN  /\ lock[row] = NoOne
           /\ lock' = [lock EXCEPT ![row] = s]
    /\ req' = [req EXCEPT ![s].held = @ + 1]
    /\ UNCHANGED data

At(s, op, step) ==
    /\ req[s].op = op
    /\ req[s].step = step
    /\ req[s].held = Len(req[s].plan)

RowFree(s, x) == lock[x] \in {NoOne, s}

\* The foreign key of a new document or inventory fact: its INSERT waits while
\* another transaction holds the production order FOR UPDATE.
InsertFree(s) == RowFree(s, ProductionOrder)

\* COMMIT or ROLLBACK: the request ends and its row locks go.
Finish(s) ==
    /\ req' = [req EXCEPT ![s] = Idle]
    /\ lock' = [x \in Rows |-> IF lock[x] = s THEN NoOne ELSE lock[x]]

\* A failed check throws: the transaction rolls back.
Refuse(s) == Finish(s) /\ UNCHANGED data

\* The check passed; "sync" is the notice row the handler has computed.
Proceed(s, step, sync) ==
    /\ req' = [req EXCEPT ![s].step = step, ![s].sync = sync]
    /\ UNCHANGED <<data, lock>>

\* The connection drops, the transaction times out or the process dies.
Abort(s) ==
    /\ "abort" \in Endpoints
    /\ req[s].op # "idle"
    /\ Refuse(s)
=============================================================================
