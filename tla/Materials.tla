------------------------------ MODULE Materials ------------------------------
(***************************************************************************)
(* Raw materials: goods in, the stores and the stocktake share one stock.  *)
(* A behaviour follows the requests of one desk: goods in from the first   *)
(* inspection on, finance from a batch accepted before, or, on top of an   *)
(* inbound posted before, the stores or the stocktake beside issues; or    *)
(* all of them at once.                                                    *)
(***************************************************************************)
EXTENDS Receiving, Issuing, Stocktaking

OpeningInbound(i) ==
    [status |-> "posted", deleted |-> FALSE, qty |-> MaxQty, batch |-> i,
     linked |-> TRUE, source |-> "pending_finance", entry |-> "none"]

Inspected(a) == [status |-> IF a = 0 THEN "pending" ELSE "accepted", accepted |-> a, rejected |-> 0,
                 qc |-> IF a = 0 THEN "none" ELSE "inbound"]

\* Nothing has been booked; QC has accepted a of each batch.
Delivered(a) ==
    /\ batch = [i \in Batches |-> Inspected(a)]
    /\ notice = [i \in Batches |-> IF a = 0 THEN "none" ELSE "acknowledged"]
    /\ peak = [i \in Batches |-> a]

NothingIn ==
    /\ inb = [b \in Inbounds |-> NoInbound]
    /\ fact = [d \in Booked |-> 0]

\* One inbound of all that was accepted has been posted.
InStock ==
    \E i \in Batches, o \in Inbounds :
        /\ inb = [b \in Inbounds |-> IF b = o THEN OpeningInbound(i) ELSE NoInbound]
        /\ fact = [d \in Booked |-> IF d = o THEN MaxQty ELSE 0]

Init ==
    /\ mov = [m \in Movements |-> NoMovement]
    /\ count = [c \in Stocktakes |-> NoStocktake]
    /\ job = [s \in Sessions |-> Idle]
    /\ overtaken = {} /\ overdrawn = {}
    /\ desk \in Desks
    /\ \/ desk \in {"goods_in", "all"} /\ Delivered(0) /\ NothingIn
       \/ desk = "finance" /\ Delivered(MaxQty) /\ NothingIn
       \/ desk \in {"stores", "count"} /\ Delivered(MaxQty) /\ InStock

Next ==
    \/ /\ \/ desk \in {"goods_in", "all"} /\ InspectionStep
          \/ desk \in {"goods_in", "finance", "all"} /\ InboundStep
          \/ desk \in {"finance", "all"} /\ PayableStep
          \/ desk \in {"stores", "count", "all"} /\ OutboundStep
          \/ desk \in {"stores", "all"} /\ CorrectingStep
          \/ ReversalStep
          \/ \E s \in Sessions : Rollback(s)
       /\ UNCHANGED count
    \/ desk \in {"count", "all"} /\ StocktakeStep

Spec == Init /\ [][Next]_<<vars, count>>

-----------------------------------------------------------------------------
Jobs ==
    [op : {"idle", "inspect", "correct", "transition", "return", "register", "postInbound",
           "removeInbound", "reverseInbound", "withdraw", "updateLine", "removeLine",
           "removeStocktake", "confirmCount"} \cup Serializable \cup Confirmations,
     doc : Batches \cup Booked \cup {NoDoc},
     arg : Int, row : BatchRows, doomed : BOOLEAN]

TypeOK ==
    /\ batch \in [Batches -> BatchRows]
    /\ notice \in [Batches -> {"none", "pending", "acknowledged"}]
    /\ inb \in [Inbounds -> InboundRows]
    /\ mov \in [Movements -> MovementRows]
    /\ count \in [Stocktakes -> StocktakeRows]
    /\ fact \in [Booked -> Int]
    /\ job \in [Sessions -> Jobs]
    /\ desk \in Desks
    /\ peak \in [Batches -> 0..MaxQty]
    /\ overtaken \subseteq Movements /\ overdrawn \subseteq Batches

(* The facts of every document add up to what its status says happened:    *)
(* a document posted twice, reversed twice or reopened and posted again    *)
(* counts once (reverse nets the facts, reopen offsets them all).  The one *)
(* exception the code leaves is a withdrawal that overtakes the posting.   *)
MovementEffect(m) ==
    IF mov[m].status \notin {"posted", "reversed"} THEN 0
    ELSE CASE mov[m].kind = "return" -> mov[m].qty
           [] mov[m].kind = "reversal" -> -fact[mov[m].of]
           [] OTHER -> -mov[m].qty

LedgerFollowsDocuments ==
    /\ \A b \in Inbounds : fact[b] = IF inb[b].status = "posted" THEN inb[b].qty ELSE 0
    /\ \A m \in Movements \ overtaken :
         (mov[m].kind = "reversal" => mov[m].of \notin overtaken \cup {NoDoc})
            => fact[m] = MovementEffect(m)
    /\ \A c \in Stocktakes : count[c].line =>
         fact[c] = IF count[c].status = "confirmed" THEN count[c].applied ELSE 0

(* Returns and scraps posted against an issue never exceed it, and the     *)
(* issue they dispose of is posted: postDerived, reopen and reverse only   *)
(* have the serializable isolation level to agree on that.                 *)
DisposedWithinIssue ==
    \A m \in Movements :
        /\ mov[m].kind = "issue" /\ ~mov[m].deleted => Consumed(m) <= mov[m].qty
        /\ m \notin overtaken /\ Consumers(m) # {} => Live(m, "posted")

(* Issues never take out more than was ever received or found, although    *)
(* stocktakes, their reversals and the reversals of inbounds change the    *)
(* balance without a lock: those may make it negative, an issue may not.   *)
(* (What scraps subtract a second time is left out, see ScrapKeepsBalance.)*)
EverReceived == QtyOf({b \in Inbounds : inb[b].status \in {"posted", "reversed"} /\ inb[b].qty > 0})
EverFound == SumOf([c \in Stocktakes |-> count[c].applied], {c \in Stocktakes : count[c].applied > 0})
Goods == {m \in Movements : mov[m].cat = "raw_material"}

IssuedWithinReceived ==
    EverReceived + EverFound + SumOf(fact, Goods) >= 0

(* What is in stock of a batch was at some time accepted by QC, although   *)
(* inspections are corrected while inbounds are registered and posted.     *)
(* A draft of a negative remainder makes room for more than that; batches  *)
(* that had one are left out.                                              *)
PostedWithinInspection ==
    \A i \in Batches \ overdrawn :
        QtyOf({b \in InboundsOf(i) : inb[b].status = "posted"}) <= peak[i]

(* Once an inbound is reversed, no request begins to confirm its payable,  *)
(* however taking over the source and reversing interleave: what confirms  *)
(* it still has read the source before the reversal committed.  (Nothing   *)
(* stops that request: it does not lock the source.)                       *)
Confirming(b) == {s \in Sessions : job[s].op \in Confirmations /\ job[s].doc = b}

ReversedIsOwedOnlyBelatedly ==
    [][\A b \in Inbounds : inb[b].status = "reversed" =>
         /\ Confirming(b)' \subseteq Confirming(b)
         /\ Confirming(b) = {} /\ inb[b].entry # "confirmed" => inb'[b].entry # "confirmed"]_vars

(* The design document of the issue/return/scrap chain: posting a scrap    *)
(* writes no quantity to the available stock, the goods have left it with  *)
(* the issue.  The code writes -q in category "scrap", which the balance   *)
(* sums up with the raw material.                                          *)
ScrapKeepsBalance ==
    [][\A m \in Movements :
         mov[m].kind = "scrap" /\ mov[m].status = "draft" /\ mov'[m].status = "posted"
           => Balance' = Balance]_vars
=============================================================================
