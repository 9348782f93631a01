----------------------------- MODULE Production -----------------------------
(***************************************************************************)
(* Production from the first daily report to goods in stock.  A behaviour  *)
(* follows the requests of one desk: the shop floor from a draft order on; *)
(* the handover of a day's work to quality control; or the inspection of   *)
(* what was handed over and its way into stock; or all of them at once,    *)
(* again from a draft order on.                                            *)
(***************************************************************************)
EXTENDS ShopFloor, Quality

\* One employee reported as much as fits on one day; its alert is open.
FirstDay == CHOOSE d \in Dates : TRUE
FirstReport == CHOOSE r \in Reports : TRUE

Reporting ==
    /\ order = "in_progress"
    /\ rep = [r \in Reports |-> IF r = FirstReport
                               THEN [status |-> "live", kind |-> "employee", date |-> FirstDay, qty |-> MaxQty]
                               ELSE NoReport]
    /\ alert = [k \in AlertKeys |-> IF k = <<"daily_discrepancy", FirstDay>>
                                    THEN [status |-> "pending", seen |-> <<0, MaxQty>>] ELSE NoAlert]

\* It was announced and handed in as one lot.
FirstNotice == CHOOSE n \in Notices : TRUE
FirstLot == CHOOSE u \in Submissions : TRUE

HandedIn ==
    /\ notice = [n \in Notices |-> IF n = FirstNotice THEN [status |-> "open", qty |-> MaxQty] ELSE NoNotice]
    /\ sub = [u \in Submissions |-> IF u = FirstLot
                                   THEN [status |-> "submitted", notice |-> FirstNotice, qty |-> MaxQty]
                                   ELSE NoSubmission]

NothingYet ==
    /\ notice = [n \in Notices |-> NoNotice]
    /\ sub = [u \in Submissions |-> NoSubmission]

Init ==
    /\ operation = "active"
    /\ qc = [q \in Records |-> NoRecord]
    /\ rcpt = [g \in Receipts |-> NoReceipt]
    /\ job = [s \in Sessions |-> Idle]
    /\ untold = {} /\ late = {}
    /\ desk \in Desks
    /\ \/ /\ desk \in {"floor", "all"} /\ NothingYet /\ backed = 0
          /\ order = "draft"
          /\ rep = [r \in Reports |-> NoReport]
          /\ alert = [k \in AlertKeys |-> NoAlert]
       \/ desk = "handover" /\ Reporting /\ NothingYet /\ backed = 0
       \/ desk = "inspection" /\ Reporting /\ HandedIn /\ backed = MaxQty

Next ==
    \/ desk \in {"floor", "all"} /\ (ReportStep \/ OrderStep)
    \/ desk \in {"handover", "all"} /\ (NoticeStep \/ SubmissionStep)
    \/ desk \in {"handover", "inspection", "all"} /\ InspectionStep
    \/ desk \in {"inspection", "all"} /\ (CorrectionStep \/ ReceiptStep)
    \/ \E s \in Sessions : Rollback(s)

Spec == Init /\ [][Next]_vars

-----------------------------------------------------------------------------
(* Documents and requests have the shape of the tables and of the requests. *)
TypeOK ==
    /\ order \in {"draft", "in_progress", "paused", "completed", "closed"}
    /\ operation \in {"active", "cancelled"}
    /\ rep \in [Reports -> ReportRows]
    /\ notice \in [Notices -> NoticeRows]
    /\ sub \in [Submissions -> SubmissionRows]
    /\ qc \in [Records -> RecordRows]
    /\ rcpt \in [Receipts -> ReceiptRows]
    /\ job \in [Sessions -> Jobs]
    /\ desk \in Desks
    /\ untold \subseteq Dates \cup {0} /\ late \subseteq Submissions /\ backed \in Nat

(* Nothing grows on its way to the stock: notices announce no more than    *)
(* was reported when the last of them was written (reports may shrink      *)
(* later), submissions hand in no more than their notice announces (and    *)
(* none of a cancelled one), receipts take in no more than their QC record *)
(* accepts and rejects.                                                    *)
EachStageWithinTheLast ==
    /\ Notified <= backed
    /\ \A n \in Notices :
         Submitted(n, {}) <= IF OpenNotice(n) THEN notice[n].qty ELSE 0
    /\ \A q \in Records, kind \in {"inbound", "defective"} : Left(q, kind, {}) >= 0

(* A submission is inspected at most once over, and it counts as           *)
(* inspected exactly when all of it is, whatever corrections run beside    *)
(* new inspections.  The exception the code leaves is a submission edited  *)
(* on the strength of a status it had left.                                *)
InspectionFollowsQc ==
    \A u \in Submissions \ late :
        LET inspected == Inspected(ActiveRecords(u))
        IN /\ inspected <= sub[u].qty
           /\ sub[u].status = "qc_completed" => inspected = sub[u].qty
           /\ inspected > 0 => sub[u].status \in {"inspecting", "qc_completed"}

(* Goods taken in, drafts included, rest on a QC record that still stands  *)
(* and on a submission that was not withdrawn, although records are        *)
(* corrected while inbounds of them are created.                           *)
LiveGoodsHaveQc ==
    \A g \in Receipts :
        rcpt[g].status \in {"draft", "posted"}
          => /\ qc[rcpt[g].qc].status = "active"
             /\ sub[qc[rcpt[g].qc].sub].status \in {"inspecting", "qc_completed"}

(* Cancelling is final: submitting or cancelling a submission refreshes    *)
(* the notice it read without locking it, and never revives one that was   *)
(* cancelled meanwhile; a cancelled submission is never inspected.         *)
CancelledStaysCancelled ==
    [][/\ \A n \in Notices : notice[n].status = "cancelled" => notice'[n].status = "cancelled"
       /\ \A u \in Submissions : sub[u].status = "cancelled" => sub'[u].status = "cancelled"]_vars

(* The alerts tell what the reports show: where the two kinds of report    *)
(* disagree a discrepancy is open with the figures of that date, and where *)
(* they agree none waits for confirmation; an over-order alert is open     *)
(* when the operation exceeds its target, and none waits when it does not. *)
(* The exception the code leaves is a date that a report moved to behind   *)
(* the back of another correction.                                         *)
AlertsFollowReports ==
    /\ \A d \in Dates \ untold :
         LET row == alert[<<"daily_discrepancy", d>>]
             figures == <<ReportedOn(rep, "operation", d), ReportedOn(rep, "employee", d)>>
         IN IF figures[1] # figures[2]
            THEN row.status \in {"pending", "confirmed"} /\ row.seen = figures
            ELSE row.status # "pending"
    /\ IF Reported(rep, "operation") > Target
       THEN Open(alert, "over_order") # {}
       ELSE \A d \in Open(alert, "over_order") : alert[<<"over_order", d>>].status = "confirmed"

(* No order is completed over a discrepancy nobody has confirmed, nor with *)
(* less reported than its target.                                          *)
CompletionIsLookedAt ==
    [][order # "completed" /\ order' = "completed" /\ operation = "active"
         => /\ PackagingReported(rep) >= Target
            /\ \A d \in Dates \ untold :
                 ReportedOn(rep, "operation", d) # ReportedOn(rep, "employee", d)
                   => alert[<<"daily_discrepancy", d>>].status = "confirmed"]_vars
=============================================================================
