----------------------------- MODULE Shipments -----------------------------
(***************************************************************************)
(* Goods leave finished-goods stock.  FinishedGoodsOutboundNoticeService   *)
(* (sales) reserves stock with notices; FinishedGoodsOutboundService       *)
(* (warehouse) turns notices into outbounds, posts, ships, signs, cancels  *)
(* and reverses them, and takes customer returns back.  Posting an         *)
(* outbound creates the draft receivable that ReceivableService confirms,  *)
(* reopens or cancels.                                                     *)
(***************************************************************************)
EXTENDS WarehouseDb

OfNotice(rows, n, statuses) ==
    {o \in InStatus(rows, Outbounds, statuses) : rows[o].notice = n}

\* openNoticePendingQuantity: what open notices still reserve.
Reserved ==
    Cardinality({p \in Notices \X Quantities :
        /\ notice[p[1]].st \in OpenNotice
        /\ p[2] <= notice[p[1]].qty
        /\ p[2] > notice[p[1]].shipped})

\* productionQuantities: what a new notice may still ask for.
Available == stock["finished_goods"] - Reserved

\* noticeRemaining: notified, not shipped and not on a draft.  (NotShipped is
\* a faulty variant: it forgets the drafts.)
NotShipped(n) == notice[n].qty - notice[n].shipped
Remaining(n) ==
    notice[n].qty - notice[n].shipped - Total(doc, OfNotice(doc, n, {"draft"}))

(***************************************************************************)
(* syncNoticeStatus: derive the notice's status and shipped quantity from  *)
(* its outbounds.  "rows" is what the transaction sees: the committed rows *)
(* and its own UPDATE.  A cancelled notice is left alone.                  *)
(***************************************************************************)
SyncNoticeStatus(rows, n) ==
    LET shipped == Total(rows, OfNotice(rows, n, LiveStatus))
        drafts  == Total(rows, OfNotice(rows, n, {"draft"}))
        st == IF shipped >= notice[n].qty THEN "completed"
              ELSE IF drafts > 0 THEN "outbound_created"
              ELSE IF shipped > 0 THEN "partially_outbound"
              ELSE "pending"
    IN  IF n = NoOne \/ notice[n].st = "cancelled"
        THEN Keep
        ELSE [st |-> st, shipped |-> shipped]

SaveNotice(n, sync) ==
    notice' = IF sync = Keep
              THEN notice
              ELSE [notice EXCEPT ![n].st = sync.st, ![n].shipped = sync.shipped]

\* The UPDATE of the notice waits while another transaction holds its row.
NoticeFree(s, n) == n # NoOne => RowFree(s, n)

NewOutbound(s) == [doc[req[s].doc] EXCEPT !.st = "draft", !.qty = req[s].qty,
                                          !.notice = req[s].notice]

-----------------------------------------------------------------------------
(***************************************************************************)
(* createNotices: reserve stock that nothing else reserves, under the      *)
(* production-order lock.                                                  *)
(***************************************************************************)
BeginCreateNotice(s) ==
    \E n \in Notices, q \in Quantities :
        /\ FreshNotice(n)
        /\ Available > 0
        /\ Begin(s, NewRequest("createNotices", NoOne, n, q, <<ProductionOrder>>))

CommitCreateNotice(s) ==
    /\ At(s, "createNotices", "check")
    /\ IF req[s].qty <= Available
       THEN /\ notice' = [notice EXCEPT ![req[s].notice] =
                            [st |-> "pending", qty |-> req[s].qty, shipped |-> 0]]
            /\ Finish(s)
            /\ UNCHANGED <<doc, receivable, accrued, stock, facts, inNotice>>
       ELSE Refuse(s)

(***************************************************************************)
(* cancelNotice: read the status, count the drafts, then a conditional     *)
(* UPDATE, each a statement of its own with no lock held in between.       *)
(* (IsOpen is a faulty condition: it lets outbound_created through.)       *)
(***************************************************************************)
IsOpen(n) == notice[n].st \in OpenNotice
Cancellable(n) == notice[n].st \in {"pending", "partially_outbound"}

BeginCancelNotice(s) ==
    \E n \in Notices :
        /\ Cancellable(n)
        /\ Begin(s, NewRequest("cancelNotice", NoOne, n, 1, << >>))

CountDrafts(s) ==
    /\ At(s, "cancelNotice", "check")
    /\ IF OfNotice(doc, req[s].notice, {"draft"}) = {}
       THEN Proceed(s, "save", Keep)
       ELSE Refuse(s)

CommitCancelNotice(s) ==
    LET n == req[s].notice
    IN  /\ At(s, "cancelNotice", "save")
        /\ RowFree(s, n)
        /\ IF Cancellable(n)
           THEN /\ notice' = [notice EXCEPT ![n].st = "cancelled"]
                /\ Finish(s)
                /\ UNCHANGED <<doc, receivable, accrued, stock, facts, inNotice>>
           ELSE Refuse(s)

-----------------------------------------------------------------------------
(***************************************************************************)
(* createOutbound: the manual draft.  No transaction: the balance, the     *)
(* reservations and the INSERT are separate statements.                    *)
(***************************************************************************)
BeginCreateOutbound(s) ==
    \E o \in Outbounds, q \in Quantities :
        /\ FreshDoc(o)
        /\ q <= stock["finished_goods"]
        /\ Begin(s, [NewRequest("createOutbound", o, NoOne, q, << >>)
                        EXCEPT !.bal = stock["finished_goods"]])

\* assertNoticeReservationAvailable
CheckReservation(s) ==
    /\ At(s, "createOutbound", "check")
    /\ IF Reserved <= 0 \/ req[s].qty <= req[s].bal - Reserved
       THEN Proceed(s, "save", Keep)
       ELSE Refuse(s)

SaveCreateOutbound(s) ==
    /\ At(s, "createOutbound", "save")
    /\ InsertFree(s)
    /\ doc' = [doc EXCEPT ![req[s].doc] = NewOutbound(s)]
    /\ Finish(s)
    /\ UNCHANGED <<notice, receivable, accrued, stock, facts, inNotice>>

(***************************************************************************)
(* createOutboundFromNotice: a draft for part or all of what the notice    *)
(* has left, under the locks of the production order and the notice.       *)
(***************************************************************************)
BeginFromNotice(s) ==
    \E o \in Outbounds, n \in Notices, q \in Quantities :
        /\ FreshDoc(o)
        /\ notice[n].st \in OpenNotice
        /\ Begin(s, NewRequest("createOutboundFromNotice", o, n, q,
                               <<ProductionOrder, n>>))

CommitFromNotice(s) ==
    LET n == req[s].notice
        rows == [doc EXCEPT ![req[s].doc] = NewOutbound(s)]
    IN  /\ At(s, "createOutboundFromNotice", "check")
        /\ IF /\ notice[n].st \in OpenNotice
              /\ req[s].qty <= Remaining(n)
              /\ req[s].qty <= stock["finished_goods"]
           THEN /\ doc' = rows
                /\ SaveNotice(n, SyncNoticeStatus(rows, n))
                /\ Finish(s)
                /\ UNCHANGED <<receivable, accrued, stock, facts, inNotice>>
           ELSE Refuse(s)

(***************************************************************************)
(* cancelOutbound: draft to cancelled under the outbound's lock; the       *)
(* notice is recomputed without its lock or the production order's.        *)
(***************************************************************************)
BeginCancelOutbound(s) ==
    \E o \in Outbounds :
        /\ doc[o].st = "draft"
        /\ Begin(s, NewRequest("cancelOutbound", o, doc[o].notice, 1, <<o>>))

CheckCancelOutbound(s) ==
    LET o == req[s].doc
    IN  /\ At(s, "cancelOutbound", "check")
        /\ IF doc[o].st = "draft"
           THEN Proceed(s, "save",
                    SyncNoticeStatus(SetStatus(o, "cancelled"), req[s].notice))
           ELSE Refuse(s)

SaveCancelOutbound(s) ==
    /\ At(s, "cancelOutbound", "save")
    /\ NoticeFree(s, req[s].notice)
    /\ doc' = SetStatus(req[s].doc, "cancelled")
    /\ SaveNotice(req[s].notice, req[s].sync)
    /\ Finish(s)
    /\ UNCHANGED <<receivable, accrued, stock, facts, inNotice>>

(***************************************************************************)
(* postOutbound: draft to posted with one negative fact and a draft        *)
(* receivable, under the locks of the production order and the outbound.   *)
(* (The other three plans are faulty: a lock is missing or they come in an *)
(* order that another handler reverses.)                                   *)
(***************************************************************************)
OrderOnly(o)         == <<ProductionOrder>>
OutboundOnly(o)      == <<o>>
OutboundFirst(o)     == <<o, ProductionOrder>>
PostOutboundLocks(o) == <<ProductionOrder, o>>

BeginPostOutbound(s) ==
    \E o \in Outbounds :
        /\ doc[o].st = "draft"
        /\ Begin(s, NewRequest("postOutbound", o, doc[o].notice, 1,
                               PostOutboundLocks(o)))

CheckPostOutbound(s) ==
    LET o == req[s].doc
    IN  /\ At(s, "postOutbound", "check")
        /\ IF /\ doc[o].st = "draft"
              /\ "post" \notin facts[o]
              /\ doc[o].qty <= stock["finished_goods"]
           THEN Proceed(s, "save",
                    SyncNoticeStatus(SetStatus(o, "posted"), req[s].notice))
           ELSE Refuse(s)

SavePostOutbound(s) ==
    LET o == req[s].doc
    IN  /\ At(s, "postOutbound", "save")
        /\ NoticeFree(s, req[s].notice)
        /\ doc' = SetStatus(o, "posted")
        /\ facts' = [facts EXCEPT ![o] = @ \cup {"post"}]
        /\ stock' = [stock EXCEPT !["finished_goods"] = @ - doc[o].qty]
        /\ receivable' = [receivable EXCEPT ![o] = "draft"]
        /\ SaveNotice(req[s].notice, req[s].sync)
        /\ Finish(s)
        /\ UNCHANGED <<accrued, inNotice>>

(***************************************************************************)
(* updateShipping and signOutbound: an unlocked read of the status, then   *)
(* an UPDATE that repeats the status condition (assertStatusTransition).   *)
(* (UpdateById is the faulty UPDATE without that condition, CasToDelivered *)
(* writes a status the table does not have.)                               *)
(***************************************************************************)
CasFrom == [updateShipping |-> {"posted", "shipped"}, signOutbound |-> {"shipped", "signed"}]
CasToDelivered == [updateShipping |-> "shipped", signOutbound |-> "delivered"]
CasTo == [updateShipping |-> "shipped", signOutbound |-> "signed"]

BeginCas(s) ==
    \E o \in Outbounds, op \in DOMAIN CasFrom :
        /\ doc[o].st \in CasFrom[op]
        /\ Begin(s, NewRequest(op, o, NoOne, 1, << >>))

UpdateById(s) ==
    /\ \E op \in DOMAIN CasFrom : At(s, op, "check")
    /\ RowFree(s, req[s].doc)
    /\ doc' = SetStatus(req[s].doc, CasTo[req[s].op])
    /\ Finish(s)
    /\ UNCHANGED <<notice, receivable, accrued, stock, facts, inNotice>>

AssertStatusTransition(s) ==
    LET o == req[s].doc
    IN  /\ \E op \in DOMAIN CasFrom : At(s, op, "check")
        /\ RowFree(s, o)
        /\ IF doc[o].st \in CasFrom[req[s].op]
           THEN /\ doc' = SetStatus(o, CasTo[req[s].op])
                /\ Finish(s)
                /\ UNCHANGED <<notice, receivable, accrued, stock, facts, inNotice>>
           ELSE Refuse(s)

(***************************************************************************)
(* reverseOutbound: a live outbound becomes reversed, its goods return to  *)
(* stock and its draft receivable is cancelled.  The transaction locks the *)
(* production order, reads the receivable without a lock ("check"), and    *)
(* meets the row locks of the receivable and the outbound only when it     *)
(* UPDATEs them ("update"); one lock entry stands for both, since nothing  *)
(* else locks the receivable of a live outbound together with its outbound.*)
(***************************************************************************)
BeginReverseOutbound(s) ==
    \E o \in Outbounds :
        /\ doc[o].st \in LiveStatus
        /\ Begin(s, NewRequest("reverseOutbound", o, doc[o].notice, 1,
                               <<ProductionOrder>>))

CheckReverseOutbound(s) ==
    LET o == req[s].doc
    IN  /\ At(s, "reverseOutbound", "check")
        /\ IF "reverse" \notin facts[o] /\ receivable[o] = "draft"
           THEN Proceed(s, "update", Keep)
           ELSE Refuse(s)

UpdateReverseOutbound(s) ==
    LET o == req[s].doc
    IN  /\ At(s, "reverseOutbound", "update")
        /\ lock[o] = NoOne
        /\ lock' = [lock EXCEPT ![o] = s]
        /\ req' = [req EXCEPT ![s].step = "save",
                     ![s].sync = SyncNoticeStatus(SetStatus(o, "reversed"), req[s].notice)]
        /\ UNCHANGED data

SaveReverseOutbound(s) ==
    LET o == req[s].doc
    IN  /\ At(s, "reverseOutbound", "save")
        /\ NoticeFree(s, req[s].notice)
        /\ doc' = SetStatus(o, "reversed")
        /\ facts' = [facts EXCEPT ![o] = @ \cup {"reverse"}]
        /\ stock' = [stock EXCEPT !["finished_goods"] = @ + doc[o].qty]
        /\ receivable' = [receivable EXCEPT ![o] = "cancelled"]
        /\ SaveNotice(req[s].notice, req[s].sync)
        /\ Finish(s)
        /\ UNCHANGED <<accrued, inNotice>>
=============================================================================
