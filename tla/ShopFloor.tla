------------------------------ MODULE ShopFloor ------------------------------
(***************************************************************************)
(* The order from draft to closed, its daily reports by operation and by   *)
(* employee, and the alerts that tell where the two disagree or where the  *)
(* operation exceeds its target.                                           *)
(***************************************************************************)
EXTENDS ProductionDb

\* reconcileDailyDiscrepancy of one date.
Reconciled(R, row, d) ==
    LET figures == <<ReportedOn(R, "operation", d), ReportedOn(R, "employee", d)>>
        unchanged == row.status = "confirmed" /\ row.seen = figures
    IN IF figures[1] # figures[2]
       THEN [status |-> IF unchanged THEN "confirmed" ELSE "pending", seen |-> figures]
       ELSE [row EXCEPT !.status = IF @ = "none" THEN @ ELSE "recovered"]

\* Mutant: a report that moves is reconciled where it arrives only.
ArrivalOnly(old, new) == {new}

\* The dates an update reconciles.
DatesOf(old, new) == {old, new}

Open(A, type) == {d \in Dates : A[<<type, d>>].status \in {"pending", "confirmed"}}

\* recomputeOverOrder: the possible tables of alerts after it.  Over the target
\* an open alert stays open, confirmed or (when its figures changed, which is
\* not followed here) pending; the first one opens on the latest date.
OverOrderAfter(R, A) ==
    LET open == Open(A, "over_order")
        reports == LiveReports(R, "operation")
        latest == {R[r].date : r \in {x \in reports : \A y \in reports : R[y].date <= R[x].date}}
        Set(D, status) == [k \in AlertKeys |-> IF k \in {"over_order"} \X D
                                              THEN [A[k] EXCEPT !.status = status] ELSE A[k]]
    IN IF Reported(R, "operation") <= Target THEN {Set(open, "recovered")}
       ELSE UNION {{Set({d}, status) : status \in {"pending", A[<<"over_order", d>>].status} \ {"none", "recovered"}}
                     : d \in IF open = {} THEN latest ELSE open}

\* Writes reports and what follows from them: the alerts of the given dates,
\* not those of a date the report had moved to since it was read.
WriteReports(R, kind, dates, moved) ==
    /\ rep' = R
    /\ \E A \in IF kind = "operation" THEN OverOrderAfter(R, alert) ELSE {alert} :
         alert' = [k \in AlertKeys |->
                     IF k[1] = "daily_discrepancy" /\ k[2] \in dates
                     THEN Reconciled(R, A[k], k[2]) ELSE A[k]]
    /\ untold' = (untold \cup moved) \ dates
    /\ UNCHANGED <<order, operation, goods, desk>>

-----------------------------------------------------------------------------
CreateEmployeeReport(r, d, q) ==
    /\ ~OrderLocked
    /\ order = "in_progress" /\ operation = "active"
    /\ Fresh(r, rep)
    /\ WriteReports([rep EXCEPT ![r] = [status |-> "live", kind |-> "employee", date |-> d, qty |-> q]],
                    "employee", {d}, {})
    /\ UNCHANGED job

\* A second report of the same date is added to the first.
CreateOperationReport(r, d, q) ==
    /\ ~OrderLocked
    /\ order = "in_progress" /\ operation = "active"
    /\ LET same == {x \in LiveReports(rep, "operation") : rep[x].date = d}
       IN r \in same \/ (same = {} /\ Fresh(r, rep))
    /\ rep[r].qty + q <= MaxQty
    /\ WriteReports([rep EXCEPT ![r] = [status |-> "live", kind |-> "operation", date |-> d, qty |-> @.qty + q]],
                    "operation", {d}, {})
    /\ UNCHANGED job

\* The report is read before the transaction.  Its version is compared again
\* under the locks only when the caller names one.
UpdateReportBegin(s, r) ==
    /\ rep[r].status = "live"
    /\ Start(s, [Idle EXCEPT !.op = "updateReport", !.doc = r, !.date = rep[r].date])
    /\ UNCHANGED <<floor, goods, desk>>

UpdateReportCommit(s, d, q) ==
    LET r == job[s].doc
        kind == rep[r].kind
    IN /\ Working(s, "updateReport")
       /\ ~OrderLocked
       /\ order \in {"in_progress", "completed"} /\ operation = "active"
       /\ rep[r].status = "live"
       /\ kind = "operation" => {x \in LiveReports(rep, kind) : rep[x].date = d} \subseteq {r}
       /\ WriteReports([rep EXCEPT ![r].date = d, ![r].qty = q],
                       kind, DatesOf(job[s].date, d), {rep[r].date} \ {job[s].date})
       /\ Done(s)

RemoveReportBegin(s, r) ==
    /\ rep[r].status = "live"
    /\ Start(s, [Idle EXCEPT !.op = "removeReport", !.doc = r, !.date = rep[r].date])
    /\ UNCHANGED <<floor, goods, desk>>

\* Reports of a cancelled operation may be removed.
RemoveReportCommit(s) ==
    LET r == job[s].doc
    IN /\ Working(s, "removeReport")
       /\ ~OrderLocked
       /\ order \in {"in_progress", "completed"}
       /\ rep[r].status = "live"
       /\ WriteReports([rep EXCEPT ![r] = [NoReport EXCEPT !.status = "deleted"]],
                       rep[r].kind, {job[s].date}, {rep[r].date} \ {job[s].date})
       /\ Done(s)

-----------------------------------------------------------------------------
ConfirmBegin(s, k) ==
    /\ alert[k].status \in {"pending", "confirmed"}
    /\ Start(s, [Idle EXCEPT !.op = "confirm", !.kind = k[1], !.date = k[2]])
    /\ UNCHANGED <<floor, goods, desk>>

\* By id, whatever has become of the alert.
ConfirmCommit(s) ==
    /\ Working(s, "confirm")
    /\ alert' = [alert EXCEPT ![<<job[s].kind, job[s].date>>].status = "confirmed"]
    /\ Done(s)
    /\ UNCHANGED <<order, operation, rep, untold, goods, desk>>

\* Mutant: over-order alerts alone are waited for.
OverOrderConfirmed ==
    \A d \in Dates : alert[<<"over_order", d>>].status # "pending"

AlertsConfirmed == \A k \in AlertKeys : alert[k].status # "pending"

\* assertCompletionReady: cancelled operations are not looked at.
CompletionReady ==
    operation = "active" => AlertsConfirmed /\ PackagingReported(rep) >= Target

AllowedTransitions ==
    {<<"draft", "in_progress">>, <<"in_progress", "paused">>, <<"in_progress", "completed">>,
     <<"paused", "in_progress">>, <<"completed", "closed">>, <<"completed", "in_progress">>}

Transition(target) ==
    /\ ~OrderLocked
    /\ <<order, target>> \in AllowedTransitions
    /\ order = "draft" => operation = "active"
    /\ target = "completed" => CompletionReady
    /\ order' = target
    /\ UNCHANGED <<operation, rep, alert, untold, goods, job, desk>>

CancelOperation ==
    /\ ~OrderLocked
    /\ order \in {"draft", "in_progress"}
    /\ operation' = "cancelled"
    /\ UNCHANGED <<order, rep, alert, untold, goods, job, desk>>

ReportStep ==
    \/ \E r \in Reports, d \in Dates, q \in Qty : CreateEmployeeReport(r, d, q) \/ CreateOperationReport(r, d, q)
    \/ \E s \in Sessions, r \in Reports : UpdateReportBegin(s, r) \/ RemoveReportBegin(s, r)
    \/ \E s \in Sessions, d \in Dates, q \in Qty : UpdateReportCommit(s, d, q)
    \/ \E s \in Sessions : RemoveReportCommit(s)

OrderStep ==
    \/ \E s \in Sessions, k \in AlertKeys : ConfirmBegin(s, k)
    \/ \E s \in Sessions : ConfirmCommit(s)
    \/ \E target \in {"in_progress", "paused", "completed", "closed"} : Transition(target)
    \/ CancelOperation
=============================================================================
