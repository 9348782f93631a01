------------------------------ MODULE Receipts ------------------------------
(***************************************************************************)
(* FinishedGoodsInventoryService: goods that passed quality control enter  *)
(* finished-goods stock through inbounds; rejected ones are registered as  *)
(* defectives.  Both kinds of document go through draft, posted, reversed  *)
(* with the same code, an inbound also refreshing its inbound notice.      *)
(***************************************************************************)
EXTENDS WarehouseDb

Receipts == Inbounds \cup Defectives

\* acceptedAvailable / rejectedAvailable: what the QC record of d still
\* allows, not counting the documents in "except".
QcUsed(S, d, except) ==
    Total(doc, {x \in InStatus(doc, S \ except, {"draft", "posted"}) : QcOf[x] = QcOf[d]})
QcAvailable(d, except) ==
    IF d \in Inbounds THEN QcAccepted - QcUsed(Inbounds, d, except)
                      ELSE QcRejected - QcUsed(Defectives, d, except)

(***************************************************************************)
(* syncFinishedGoodsInboundNoticeStatus for a notice whose whole quantity  *)
(* has been submitted to inspection: completed unless an inbound draft is  *)
(* still open; no UPDATE when the status is already that one.              *)
(***************************************************************************)
InNoticeStatus(rows) == IF InStatus(rows, Inbounds, {"draft"}) = {}
                        THEN "completed" ELSE "partially_inbound"
SyncInNotice(rows) ==
    IF InNoticeStatus(rows) = inNotice
    THEN Keep
    ELSE [st |-> InNoticeStatus(rows), shipped |-> 0]

SyncFor(d, rows) == IF d \in Inbounds THEN SyncInNotice(rows) ELSE Keep

SaveInNotice(sync) == inNotice' = IF sync = Keep THEN inNotice ELSE sync.st

-----------------------------------------------------------------------------
(***************************************************************************)
(* createInbound, createDefective: the draft may not take more than the QC *)
(* record still allows; the QC row is locked first.  (NoLocks is a faulty  *)
(* variant: it trusts the figures it reads.)                               *)
(***************************************************************************)
NoLocks(d) == << >>
CreateReceiptLocks(d) == <<QcOf[d]>>

BeginCreateReceipt(s) ==
    \E d \in Receipts, q \in Quantities :
        /\ FreshDoc(d)
        /\ Begin(s, NewRequest("createReceipt", d, NoOne, q, CreateReceiptLocks(d)))

NewReceipt(s) == [doc[req[s].doc] EXCEPT !.st = "draft", !.qty = req[s].qty]

CheckCreateReceipt(s) ==
    LET d == req[s].doc
    IN  /\ At(s, "createReceipt", "check")
        /\ IF req[s].qty <= QcAvailable(d, {})
           THEN Proceed(s, "save", SyncFor(d, [doc EXCEPT ![d] = NewReceipt(s)]))
           ELSE Refuse(s)

SaveCreateReceipt(s) ==
    /\ At(s, "createReceipt", "save")
    /\ InsertFree(s)
    /\ doc' = [doc EXCEPT ![req[s].doc] = NewReceipt(s)]
    /\ SaveInNotice(req[s].sync)
    /\ Finish(s)
    /\ UNCHANGED <<notice, receivable, accrued, stock, facts>>

(***************************************************************************)
(* postInbound, postDefective: draft to posted with one positive inventory *)
(* fact, under the locks of the document and of the QC record.             *)
(***************************************************************************)
BeginPostReceipt(s) ==
    \E d \in Receipts :
        /\ doc[d].st = "draft"
        /\ Begin(s, NewRequest("postReceipt", d, NoOne, 1, <<d, QcOf[d]>>))

CheckPostReceipt(s) ==
    LET d == req[s].doc
    IN  /\ At(s, "postReceipt", "check")
        /\ IF /\ doc[d].st = "draft"
              /\ "post" \notin facts[d]
              /\ doc[d].qty <= QcAvailable(d, {d})
           THEN Proceed(s, "save", SyncFor(d, SetStatus(d, "posted")))
           ELSE Refuse(s)

SavePostReceipt(s) ==
    LET d == req[s].doc
    IN  /\ At(s, "postReceipt", "save")
        /\ InsertFree(s)
        /\ doc' = SetStatus(d, "posted")
        /\ facts' = [facts EXCEPT ![d] = @ \cup {"post"}]
        /\ stock' = [stock EXCEPT ![doc[d].cat] = @ + doc[d].qty]
        /\ SaveInNotice(req[s].sync)
        /\ Finish(s)
        /\ UNCHANGED <<notice, receivable, accrued>>

(***************************************************************************)
(* reverseInbound, reverseDefective: posted to reversed with a negative    *)
(* fact.  Only the document row is locked: the balance that must cover the *)
(* reversal is read without the production-order lock.                     *)
(***************************************************************************)
BeginReverseReceipt(s) ==
    \E d \in Receipts :
        /\ doc[d].st = "posted"
        /\ Begin(s, NewRequest("reverseReceipt", d, NoOne, 1, <<d>>))

CheckReverseReceipt(s) ==
    LET d == req[s].doc
    IN  /\ At(s, "reverseReceipt", "check")
        /\ IF Reversible(d)
           THEN Proceed(s, "save", SyncFor(d, SetStatus(d, "reversed")))
           ELSE Refuse(s)

SaveReverseReceipt(s) ==
    LET d == req[s].doc
    IN  /\ At(s, "reverseReceipt", "save")
        /\ InsertFree(s)
        /\ doc' = SetStatus(d, "reversed")
        /\ facts' = [facts EXCEPT ![d] = @ \cup {"reverse"}]
        /\ stock' = [stock EXCEPT ![doc[d].cat] = @ - doc[d].qty]
        /\ SaveInNotice(req[s].sync)
        /\ Finish(s)
        /\ UNCHANGED <<notice, receivable, accrued>>

BeginReceipt(s) ==
    BeginCreateReceipt(s) \/ BeginPostReceipt(s) \/ BeginReverseReceipt(s)

ReceiptStep(s) ==
    \/ CheckCreateReceipt(s)  \/ SaveCreateReceipt(s)
    \/ CheckPostReceipt(s)    \/ SavePostReceipt(s)
    \/ CheckReverseReceipt(s) \/ SaveReverseReceipt(s)
=============================================================================
