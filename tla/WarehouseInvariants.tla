------------------------ MODULE WarehouseInvariants ------------------------
(***************************************************************************)
(* What the requests of Warehouse rely on between two steps: the inductive *)
(* strengthening of the safety properties.  The proof modules prove it for *)
(* every instance, TLC checks it on those of the runs.                     *)
(***************************************************************************)
EXTENDS Warehouse

ReceiptOps  == {"createReceipt", "postReceipt", "reverseReceipt"}
NoticeOps   == {"createNotices", "cancelNotice", "createOutboundFromNotice"}
OutboundOps == {"createOutbound", "createOutboundFromNotice", "cancelOutbound",
                "postOutbound", "updateShipping", "signOutbound",
                "reverseOutbound", "confirm"}
ReturnOps   == {"postReturn", "reverseReturn"}

(***************************************************************************)
(* A request names rows of the table its handler works on, and a notice    *)
(* row it is about to UPDATE has a status of that kind of notice.          *)
(***************************************************************************)
Shape(r) ==
    /\ r.op \in ReceiptOps =>
         /\ r.doc \in Receipts
         /\ r.sync = Keep \/ r.sync.st \in InNoticeSt
    /\ r.op \in NoticeOps => r.notice \in Notices
    /\ r.op \in OutboundOps =>
         /\ r.doc \in Outbounds
         /\ \/ r.sync = Keep
            \/ r.notice \in Notices /\ r.sync.st \in OpenNotice \cup {"completed"}
    /\ r.op \in ReturnOps => r.doc \in Returns

TypeInv == TypeOK /\ \A s \in Sessions : Shape(req[s])

(***************************************************************************)
(* A request locks the rows its handler names, in that order, and is past  *)
(* its check only when it has them all.                                    *)
(***************************************************************************)
OneLock == {"reverseReceipt", "cancelOutbound", "postReturn", "reverseReturn"}
Planned(r) ==
    /\ r.held <= Len(r.plan)
    /\ r.step # "check" => r.held = Len(r.plan)
    /\ r.op = "postReceipt"     => r.plan = <<r.doc, QcOf[r.doc]>>
    /\ r.op \in OneLock         => r.plan = <<r.doc>>
    /\ r.op = "postOutbound"    => r.plan = <<ProductionOrder, r.doc>>
    /\ r.op = "reverseOutbound" => r.plan = <<ProductionOrder>>
    /\ r.op = "createReceipt"   => r.plan = <<QcOf[r.doc]>>
    /\ r.op = "createOutboundFromNotice" => r.plan = <<ProductionOrder, r.notice>>

\* What a request has locked is its own.
Holds(s) ==
    /\ \A i \in 1..req[s].held : lock[req[s].plan[i]] = s
    /\ req[s].op = "reverseOutbound" /\ req[s].step = "save" => lock[req[s].doc] = s

\* The row a request is about to INSERT is nobody else's business.
Creating == {"createReceipt", "createOutbound", "createOutboundFromNotice"}
Creates(s) ==
    req[s].op \in Creating =>
        /\ doc[req[s].doc].st = "absent"
        /\ \A t \in Sessions \ {s} : req[t].doc = req[s].doc => req[t].op = "confirm"

\* What a request found in its document when it checked it still holds.
Found(s) ==
    LET st == doc[req[s].doc].st
    IN  /\ req[s].op \in {"postReceipt", "postOutbound", "cancelOutbound"} /\ req[s].step = "save"
           => st = "draft"
        /\ req[s].op \in {"reverseReceipt", "reverseReturn"} /\ req[s].step = "save"
           => st = "posted"
        /\ req[s].op \in DOMAIN CasFrom => st \in LiveStatus \cup {"reversed"}
        /\ req[s].op = "reverseOutbound"
           => st \in IF req[s].step = "check" THEN LiveStatus \cup {"reversed"} ELSE LiveStatus

Reversals == \A o \in Outbounds : "reverse" \in facts[o] <=> doc[o].st = "reversed"

(***************************************************************************)
(* No request acts on a stale document: whatever the others do, the row it *)
(* checked is the row it saves, because every writer of a document either  *)
(* holds its lock or repeats the status condition in the UPDATE.           *)
(***************************************************************************)
NoStaleDocument ==
    /\ \A s \in Sessions : Planned(req[s]) /\ Holds(s) /\ Creates(s) /\ Found(s)
    /\ Reversals

DocInv == TypeInv /\ NoStaleDocument

(***************************************************************************)
(* What keeps stock from going negative: while an outbound is being posted *)
(* the stock it was checked against stays there.                           *)
(***************************************************************************)
Covered(s) ==
    req[s].op = "postOutbound" /\ req[s].step = "save" =>
        doc[req[s].doc].qty <= stock["finished_goods"]
StockCovers == NonNegativeStock /\ \A s \in Sessions : Covered(s)

(***************************************************************************)
(* What keeps receipts within quality control: the quantity a new one was  *)
(* checked for stays available until it is saved.                          *)
(***************************************************************************)
Allowed(s) ==
    req[s].op = "createReceipt" /\ req[s].step = "save" =>
        req[s].qty <= QcAvailable(req[s].doc, {})
QcInv == ReceiptsWithinQc /\ \A s \in Sessions : Allowed(s)

(***************************************************************************)
(* What keeps the outbound notices right while no cancelOutbound is under  *)
(* way: the figures of a notice follow from its outbounds after every      *)
(* step, and so will the figures a request is about to save.               *)
(***************************************************************************)
Figures(rows, n, qty) ==
    LET shipped == Total(rows, OfNotice(rows, n, LiveStatus))
        drafts  == Total(rows, OfNotice(rows, n, {"draft"}))
    IN  [st |-> IF shipped >= qty THEN "completed"
                ELSE IF drafts > 0 THEN "outbound_created"
                ELSE IF shipped > 0 THEN "partially_outbound"
                ELSE "pending",
         shipped |-> shipped]

NoticeRight(n) ==
    /\ notice[n].st \notin {"absent", "cancelled"} =>
         [st |-> notice[n].st, shipped |-> notice[n].shipped] = Figures(doc, n, notice[n].qty)
    /\ Total(doc, OfNotice(doc, n, LiveStatus)) + Total(doc, OfNotice(doc, n, {"draft"}))
         <= notice[n].qty
    /\ notice[n].st = "absent" => \A o \in Outbounds : doc[o].notice # n
    /\ notice[n].st = "cancelled" => OfNotice(doc, n, {"draft"}) = {}

PostOrReverse == [postOutbound |-> "posted", reverseOutbound |-> "reversed"]
CarriesFigures(s) ==
    /\ req[s].op = "createOutbound" => req[s].notice = NoOne
    /\ req[s].op = "createNotices" =>
         /\ notice[req[s].notice].st = "absent"
         /\ \A t \in Sessions \ {s} : req[t].notice # req[s].notice
    /\ req[s].op \in DOMAIN PostOrReverse =>
         /\ doc[req[s].doc].st # "absent"
         /\ req[s].notice = doc[req[s].doc].notice
    /\ req[s].op \in DOMAIN PostOrReverse /\ req[s].step = "save" =>
         LET n == req[s].notice
         IN  IF req[s].sync = Keep
             THEN n = NoOne \/ notice[n].st = "cancelled"
             ELSE req[s].sync = Figures(SetStatus(req[s].doc, PostOrReverse[req[s].op]),
                                        n, notice[n].qty)
NoticeInv == /\ \A n \in Notices : NoticeRight(n)
             /\ \A s \in Sessions : CarriesFigures(s)
=============================================================================
