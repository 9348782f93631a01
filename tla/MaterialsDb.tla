----------------------------- MODULE MaterialsDb -----------------------------
(***************************************************************************)
(* Tables and requests of the raw-material side: inspected batches of      *)
(* deliveries, their inbound documents and payables, the issues and        *)
(* returns of production, and the stock facts of both.                     *)
(*                                                                         *)
(* A request that decides on what it read and writes later occupies job[s] *)
(* in between.  The inbound side runs READ COMMITTED with row locks; the   *)
(* movement side runs SERIALIZABLE, where PostgreSQL rolls a transaction   *)
(* back ("doomed") whose reads and writes conflict with a committed one.   *)
(* All quantities are of one material in one unit; a document has one line.*)
(***************************************************************************)
EXTENDS Sums, FiniteSets

CONSTANTS Sessions,   \* concurrent requests
          Batches,    \* deliveries, each with its inspection
          Inbounds,   \* raw-material inbound ids
          Movements,  \* movement ids: issues, returns, scraps, reversals
          Stocktakes, \* stocktake ids
          Desks,      \* the desks a behaviour may follow
          MaxQty,     \* bound on an inspected, received or issued quantity
          MaxRejected, \* bound on a rejected one
          NoDoc

ASSUME MaterialsAssumption ==
    /\ MaxQty \in Nat \ {0} /\ MaxRejected \in Nat
    /\ Desks \subseteq {"goods_in", "finance", "stores", "count", "all"}
    /\ NoDoc \notin UNION {Batches, Inbounds, Movements, Stocktakes}
    /\ Inbounds \cap Movements = {} /\ Stocktakes \cap (Inbounds \cup Movements) = {}
    /\ \A S \in {Inbounds, Movements, Stocktakes} : IsFiniteSet(S)

VARIABLES batch,      \* the inspection of each delivery
          notice,     \* the inbound notice of each batch
          inb, mov,   \* inbound and movement documents
          fact,       \* sum of the inventory facts written for a document
          job,        \* what each request holds between its read and its write
          desk,       \* whose requests arrive
          peak,       \* history: the most that QC ever accepted of a batch
          overtaken,  \* history: movements withdrawn after they were posted
          overdrawn   \* history: batches of which a negative remainder was drafted

tables == <<batch, notice, inb, mov, fact>>
past == <<peak, overtaken, overdrawn>>
vars == <<tables, job, desk, past>>

Qty == 1..MaxQty

BatchRows ==
    [status   : {"pending", "inspecting", "accepted", "rejected", "completed", "cancelled"},
     accepted : 0..MaxQty,
     rejected : 0..MaxRejected,
     qc       : {"none", "inbound", "rejected"}]

InboundRows ==
    [status  : {"none", "draft", "posted", "reversed"},
     deleted : BOOLEAN,
     qty     : -MaxQty..MaxQty,
     batch   : Batches \cup {NoDoc},
     linked  : BOOLEAN,
     source  : {"none", "pending_finance", "received", "voided"},
     entry   : {"none", "draft", "confirmed", "voided"}]

NoInbound ==
    [status |-> "none", deleted |-> FALSE, qty |-> 0, batch |-> NoDoc,
     linked |-> FALSE, source |-> "none", entry |-> "none"]

MovementRows ==
    [kind    : {"none", "issue", "return", "scrap", "reversal"},
     status  : {"none", "draft", "pending_outbound", "posted", "reversed"},
     deleted : BOOLEAN,
     qty     : 0..MaxQty,
     of      : Movements \cup {NoDoc},
     cat     : {"raw_material", "scrap"}]

NoMovement ==
    [kind |-> "none", status |-> "none", deleted |-> FALSE, qty |-> 0,
     of |-> NoDoc, cat |-> "raw_material"]

NoRow == [status |-> "pending", accepted |-> 0, rejected |-> 0, qc |-> "none"]

Idle == [op |-> "idle", doc |-> NoDoc, arg |-> 0, row |-> NoRow, doomed |-> FALSE]

Serializable == {"postIssue", "reopen", "reverseMovement", "postDerived"}

\* The two ways to confirm a payable: the entry itself, or a statement of many.
Confirmations == {"confirmEntry", "confirmStatement"}

Start(s, op, doc, arg) ==
    /\ job[s] = Idle
    /\ job' = [job EXCEPT ![s] = [Idle EXCEPT !.op = op, !.doc = doc, !.arg = arg]]

\* A request that will write this row to the inspection of i.
StartWrite(s, op, i, row) ==
    /\ job[s] = Idle
    /\ job' = [job EXCEPT ![s] = [Idle EXCEPT !.op = op, !.doc = i, !.row = row]]

Working(s, op) == job[s].op = op

Done(s) == job' = [job EXCEPT ![s] = Idle]

\* FOR UPDATE on the inspection and on the inbound, held to the end.
BatchLocked(i) ==
    \E s \in Sessions : job[s].op \in {"correct", "transition", "return", "register"} /\ job[s].doc = i

InboundLocked(b) ==
    \E s \in Sessions : job[s].op \in {"postInbound", "reverseInbound"} /\ job[s].doc = b

\* FOR UPDATE on the payable entry of an inbound.
EntryLocked(b) ==
    \E s \in Sessions : job[s].op = "confirmEntry" /\ job[s].doc = b

\* The documents that write inventory facts.
Booked == UNION {Inbounds, Movements, Stocktakes}

\* InventoryService.rawMaterialBalance: categories raw_material and scrap.
Balance == SumOf(fact, Booked)

\* Rows with deletedAt: null of a batch.
InboundsOf(i) == {b \in Inbounds : inb[b].batch = i /\ ~inb[b].deleted}

QtyOf(B) == SumOf([b \in Inbounds |-> inb[b].qty], B)

\* Mutant: documents that are posted do not count.
UsedByDrafts(B) == QtyOf({b \in B : inb[b].status = "draft"})

\* What the handlers call "used": everything registered and not reversed.
Used(B) == QtyOf({b \in B : inb[b].status # "reversed"})

Live(m, status) == mov[m].status = status /\ ~mov[m].deleted

\* Posted documents whose line points at the line of m.
Dependents(m) == {d \in Movements : mov[d].of = m /\ Live(d, "posted")}

Consumers(m) == {d \in Dependents(m) : mov[d].kind \in {"return", "scrap"}}

Consumed(m) == SumOf([d \in Movements |-> mov[d].qty], Consumers(m))
=============================================================================
