---------------------------- MODULE ProductionDb ----------------------------
(***************************************************************************)
(* One in-house production order with its packaging operation: what is     *)
(* reported of it day by day, what is announced to the warehouse, handed   *)
(* to quality control, inspected and taken into stock.                     *)
(*                                                                         *)
(* A request that reads in one step and writes in a later one occupies     *)
(* job[s] in between, with the row locks it holds then.  What its caller   *)
(* asks for is fixed in the step that first depends on it.                 *)
(***************************************************************************)
EXTENDS Sums, FiniteSets

CONSTANTS Sessions,     \* concurrent requests
          Desks,        \* the desks a behaviour may follow
          Dates,        \* report dates
          Reports,      \* ids of daily reports of either kind, in order of use
          Notices,      \* inbound notices
          Submissions,  \* inspection submissions
          Records,      \* QC records
          Receipts,     \* inbounds and defectives
          MaxQty,       \* bound on the quantity of a document
          Target        \* target quantity of the operation

Ids == UNION {Reports, Notices, Submissions, Records, Receipts}
NoDoc == 0

ASSUME ProductionAssumption ==
    /\ Desks \subseteq {"floor", "handover", "inspection", "all"}
    /\ Dates \subseteq Nat \ {0} /\ IsFiniteSet(Dates) /\ Dates # {}
    /\ Reports # {} /\ Notices # {} /\ MaxQty \in Nat \ {0} /\ Target \in Nat \ {0}
    /\ Ids \subseteq Nat \ {NoDoc} /\ IsFiniteSet(Ids)

VARIABLES order,      \* status of the production order
          operation,  \* status of its packaging operation
          rep,        \* daily reports
          alert,      \* daily alerts, one per type and date
          notice, sub, qc, rcpt,  \* the documents on the way to the stock
          job,        \* what each request holds between its read and its write
          desk,       \* whose requests arrive
          untold,     \* history: dates changed by a report that had moved
          late,       \* history: submissions edited after they were submitted
          backed      \* history: what was reported when the last notice was written

floor == <<order, operation, rep, alert, untold>>
past == <<late, backed>>
goods == <<notice, sub, qc, rcpt, past>>
vars == <<floor, goods, job, desk>>

Qty == 1..MaxQty

\* The next unused id of a table.
Fresh(id, rows) ==
    /\ rows[id].status = "none"
    /\ \A other \in DOMAIN rows : other < id => rows[other].status # "none"

-----------------------------------------------------------------------------
ReportRows ==
    [status : {"none", "live", "deleted"}, kind : {"operation", "employee"},
     date : Dates \cup {0}, qty : 0..MaxQty]

AlertKeys == {"daily_discrepancy", "over_order"} \X Dates

NoticeRows == [status : {"none", "open", "cancelled"}, qty : 0..MaxQty]

SubmissionRows ==
    [status : {"none", "draft", "submitted", "inspecting", "qc_completed", "cancelled"},
     notice : Notices \cup {NoDoc}, qty : 0..MaxQty]

RecordRows ==
    [status : {"none", "active", "corrected"}, sub : Submissions \cup {NoDoc},
     accepted : 0..MaxQty, rejected : 0..MaxQty]

ReceiptRows ==
    [status : {"none", "draft", "posted", "reversed"}, qc : Records \cup {NoDoc},
     kind : {"inbound", "defective"}, qty : 0..MaxQty]

NoReport == [status |-> "none", kind |-> "operation", date |-> 0, qty |-> 0]
NoAlert == [status |-> "none", seen |-> <<0, 0>>]
NoNotice == [status |-> "none", qty |-> 0]
NoSubmission == [status |-> "none", notice |-> NoDoc, qty |-> 0]
NoRecord == [status |-> "none", sub |-> NoDoc, accepted |-> 0, rejected |-> 0]
NoReceipt == [status |-> "none", qc |-> NoDoc, kind |-> "inbound", qty |-> 0]

-----------------------------------------------------------------------------
Idle == [op |-> "idle", doc |-> NoDoc, of |-> NoDoc, kind |-> "none",
         date |-> 0, qty |-> 0, rejected |-> 0]

Jobs ==
    [op : {"idle", "updateReport", "removeReport", "confirm", "createNotice",
           "createSubmission", "updateSubmission", "submit", "cancelSubmission",
           "createQc", "correctQc", "createReceipt"},
     doc : Ids \cup {NoDoc}, of : Ids \cup {NoDoc},
     kind : {"none", "inbound", "defective", "daily_discrepancy", "over_order"},
     date : Dates \cup {0}, qty : 0..MaxQty, rejected : 0..MaxQty]

Start(s, request) ==
    /\ job[s] = Idle
    /\ job' = [job EXCEPT ![s] = request]

Working(s, op) == job[s].op = op

Done(s) == job' = [job EXCEPT ![s] = Idle]

\* FOR UPDATE on the order, the submission, the QC record, to the end of the job.
OrderLocked == \E s \in Sessions : job[s].op = "createSubmission"

SubmissionLocked(u) ==
    \E s \in Sessions :
        \/ job[s].op \in {"submit", "cancelSubmission"} /\ job[s].doc = u
        \/ job[s].op = "createQc" /\ job[s].of = u

RecordLocked(q) == \E s \in Sessions : job[s].op = "createReceipt" /\ job[s].of = q

\* A request is refused, times out or loses its connection.
Rollback(s) ==
    /\ job[s] # Idle
    /\ Done(s)
    /\ UNCHANGED <<floor, goods, desk>>

-----------------------------------------------------------------------------
LiveReports(R, kind) == {r \in Reports : R[r].status = "live" /\ R[r].kind = kind}

QtyIn(R) == [r \in Reports |-> R[r].qty]

Reported(R, kind) == SumOf(QtyIn(R), LiveReports(R, kind))

ReportedOn(R, kind, d) == SumOf(QtyIn(R), {r \in LiveReports(R, kind) : R[r].date = d})

\* The larger of the two sums: both surfaces report the same work.
PackagingReported(R) ==
    LET byOperation == Reported(R, "operation")
        byEmployee == Reported(R, "employee")
    IN IF byEmployee > byOperation THEN byEmployee ELSE byOperation

OpenNotice(n) == notice[n].status = "open"

Notified == SumOf([n \in Notices |-> notice[n].qty], {n \in Notices : OpenNotice(n)})
=============================================================================
