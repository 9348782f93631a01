----------------------------- MODULE Warehouse -----------------------------
(***************************************************************************)
(* The finished-goods warehouse: receipts, shipments, customer returns and *)
(* the receivables of shipments, served concurrently over the same rows.   *)
(***************************************************************************)
EXTENDS Receipts, Shipments, CustomerReturns, Receivables

BeginRequest(s) ==
    \/ BeginReceipt(s)
    \/ BeginCreateNotice(s)   \/ BeginCancelNotice(s)
    \/ BeginCreateOutbound(s) \/ BeginFromNotice(s)
    \/ BeginCancelOutbound(s) \/ BeginPostOutbound(s)
    \/ BeginCas(s)            \/ BeginReverseOutbound(s)
    \/ BeginPostReturn(s)     \/ BeginReverseReturn(s)
    \/ BeginConfirm(s)

\* What a request that has begun does next.
RequestStep(s) ==
    \/ TakeLock(s)
    \/ ReceiptStep(s)
    \/ CommitCreateNotice(s)
    \/ CountDrafts(s)           \/ CommitCancelNotice(s)
    \/ CheckReservation(s)      \/ SaveCreateOutbound(s)
    \/ CommitFromNotice(s)
    \/ CheckCancelOutbound(s)   \/ SaveCancelOutbound(s)
    \/ CheckPostOutbound(s)     \/ SavePostOutbound(s)
    \/ AssertStatusTransition(s)
    \/ CheckReverseOutbound(s)  \/ UpdateReverseOutbound(s)
    \/ SaveReverseOutbound(s)
    \/ CommitPostReturn(s)
    \/ CheckReverseReturn(s)    \/ SaveReverseReturn(s)
    \/ Accrue(s)

Next ==
    \/ \E s \in Sessions : BeginRequest(s) \/ RequestStep(s) \/ Abort(s)
    \/ CreateReturn \/ Reopen \/ CancelReceivable

Spec == Init /\ [][Next]_vars

(***************************************************************************)
(* Every request the server accepted is carried on.  PostgreSQL hands a    *)
(* row lock to its waiters in the order they came, so a waiter that finds  *)
(* the lock free again and again gets it: strong fairness.                 *)
(***************************************************************************)
FairSpec == Spec /\ \A s \in Sessions : SF_vars(RequestStep(s))

-----------------------------------------------------------------------------
(***************************************************************************)
(* Every row, lock and request has the shape of its table.                 *)
(***************************************************************************)
TypeOK ==
    /\ doc \in [Docs -> DocRow]
    /\ notice \in [Notices -> NoticeRow]
    /\ receivable \in [Outbounds -> {"absent", "draft", "confirmed", "cancelled"}]
    /\ accrued \subseteq Outbounds
    /\ stock \in [Categories -> Int]
    /\ facts \in [Docs -> SUBSET {"post", "reverse"}]
    /\ inNotice \in InNoticeSt
    /\ lock \in [Rows -> Sessions \cup {NoOne}]
    /\ req \in [Sessions -> Request]

(***************************************************************************)
(* Interleaved, locked in different orders and aborted half-way, the       *)
(* handlers look like a ledger of documents that change in one step each:  *)
(* no request works on a document another one has changed since it looked. *)
(***************************************************************************)
Ledger == INSTANCE StockLedger
ImplementsLedger == Ledger!Spec

(***************************************************************************)
(* The inventory ledger agrees with the documents: whatever the requests   *)
(* interleave, each document has moved its quantity exactly as often as    *)
(* its status says - no posting or reversal is applied twice or lost       *)
(* (postInbound, postOutbound, reverseOutbound, postReturn ...).           *)
(***************************************************************************)
Incoming(c) == {d \in InStatus(doc, Receipts \cup Returns, {"posted"}) : doc[d].cat = c}
Outgoing(c) == IF c = "finished_goods" THEN InStatus(doc, Outbounds, LiveStatus) ELSE {}
LedgerMatchesDocuments ==
    \A c \in Categories : stock[c] = Total(doc, Incoming(c)) - Total(doc, Outgoing(c))

(***************************************************************************)
(* No stock category is ever negative: what a handler takes out is there   *)
(* when its transaction commits, not only when it checked the balance.     *)
(***************************************************************************)
NonNegativeStock == \A c \in Categories : stock[c] >= 0

(***************************************************************************)
(* Drafts and posted receipts never claim more than quality control        *)
(* accepted (inbounds) or rejected (defectives), although every createX    *)
(* and postX checks the quantity some steps before it commits.             *)
(***************************************************************************)
ReceiptsWithinQc == \A d \in Receipts : QcAvailable(d, {}) >= 0

(***************************************************************************)
(* A receivable exists exactly for the outbounds that left the warehouse,  *)
(* and the reversal of an outbound always ends its receivable, whatever    *)
(* finance does to it in the meantime.                                     *)
(***************************************************************************)
ReceivableFollowsOutbound ==
    \A o \in Outbounds :
        /\ receivable[o] = "absent" <=> doc[o].st \in {"absent", "draft", "cancelled"}
        /\ doc[o].st = "reversed" => receivable[o] = "cancelled"

(***************************************************************************)
(* The outbounds of a notice never ship more than sales notified, although *)
(* each draft is measured against a shipped_quantity column another        *)
(* transaction may have recomputed from older rows.                        *)
(***************************************************************************)
NoticeNotOvershipped ==
    \A n \in Notices : Total(doc, OfNotice(doc, n, LiveStatus)) <= notice[n].qty

(***************************************************************************)
(* When no request is working on an open notice, its status and shipped    *)
(* quantity are the ones its outbounds imply: no syncNoticeStatus has      *)
(* overwritten the result of another with older figures.                   *)
(***************************************************************************)
AtRest(n) == \A s \in Sessions : req[s].notice # n
NoticeReflectsOutbounds ==
    \A n \in Notices :
        AtRest(n) /\ notice[n].st \notin {"absent", "cancelled"} =>
            SyncNoticeStatus(doc, n) = [st |-> notice[n].st, shipped |-> notice[n].shipped]

(***************************************************************************)
(* A cancelled notice leaves no draft behind that could still be posted    *)
(* (the reason cancelNotice counts drafts and repeats its status test).    *)
(* A claim about traffic without cancelOutbound, which may write a status  *)
(* it computed before the newest draft was created.                        *)
(***************************************************************************)
NoDanglingDraft ==
    \A n \in Notices : notice[n].st = "cancelled" => OfNotice(doc, n, {"draft"}) = {}

(***************************************************************************)
(* When no receipt request is in flight, the inbound notice is "completed" *)
(* exactly if no inbound draft of it is open.                              *)
(***************************************************************************)
InNoticeReflectsDrafts ==
    (\A s \in Sessions : req[s].doc \notin Inbounds) =>
        (inNotice = "completed" <=> InStatus(doc, Inbounds, {"draft"}) = {})

-----------------------------------------------------------------------------
(***************************************************************************)
(* Reversed and cancelled documents are final: no late post, shipping      *)
(* update or signature brings one back (updateShipping races a reversal,   *)
(* postOutbound races cancelOutbound).                                     *)
(***************************************************************************)
FinalStaysFinal ==
    [][\A d \in Docs : doc[d].st \in {"reversed", "cancelled"} => doc'[d] = doc[d]]_vars

(***************************************************************************)
(* Every accepted request ends: the order in which the handlers take their *)
(* row locks lets none of them wait for ever.                              *)
(***************************************************************************)
EveryRequestEnds == \A s \in Sessions : req[s].op # "idle" ~> req[s].op = "idle"
=============================================================================
