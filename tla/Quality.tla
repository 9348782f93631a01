------------------------------- MODULE Quality -------------------------------
(***************************************************************************)
(* From the packaging operation to the shelf: inbound notices, inspection  *)
(* submissions against them, QC records and their corrections, and the     *)
(* inbounds and defectives that take inspected goods into stock.           *)
(***************************************************************************)
EXTENDS ProductionDb

\* Mutant: drafts are not yet counted.
CountedIn(n) == {u \in Submissions : sub[u].notice = n /\ sub[u].status \notin {"none", "cancelled", "draft"}}

\* Submissions of a notice that are not cancelled.
SubmissionsOf(n) == {u \in Submissions : sub[u].notice = n /\ sub[u].status \notin {"none", "cancelled"}}

Submitted(n, except) == SumOf([u \in Submissions |-> sub[u].qty], SubmissionsOf(n) \ except)

NoticeAvailable(n, except) == IF OpenNotice(n) THEN notice[n].qty - Submitted(n, except) ELSE 0

ActiveRecords(u) == {q \in Records : qc[q].sub = u /\ qc[q].status = "active"}

Inspected(Q) == SumOf([q \in Records |-> qc[q].accepted + qc[q].rejected], Q)

\* Mutant: a draft is no fact yet.
PostedGoods(q) == {g \in Receipts : rcpt[g].qc = q /\ rcpt[g].status = "posted"}

\* Inbounds and defectives of a QC record, drafts included.
GoodsOf(q) == {g \in Receipts : rcpt[g].qc = q /\ rcpt[g].status \in {"draft", "posted"}}

Left(q, kind, except) ==
    (IF kind = "inbound" THEN qc[q].accepted ELSE qc[q].rejected)
      - SumOf([g \in Receipts |-> rcpt[g].qty], {g \in GoodsOf(q) \ except : rcpt[g].kind = kind})

-----------------------------------------------------------------------------
\* The status of the order and of the operation is read before the lock only.
CreateNoticeBegin(s) ==
    /\ order \in {"in_progress", "completed"} /\ operation = "active"
    /\ Start(s, [Idle EXCEPT !.op = "createNotice"])
    /\ UNCHANGED <<floor, goods, desk>>

CreateNoticeCommit(s, n, q) ==
    /\ Working(s, "createNotice")
    /\ ~OrderLocked
    /\ q <= PackagingReported(rep) - Notified
    /\ Fresh(n, notice)
    /\ notice' = [notice EXCEPT ![n] = [status |-> "open", qty |-> q]]
    /\ backed' = PackagingReported(rep)
    /\ Done(s)
    /\ UNCHANGED <<floor, sub, qc, rcpt, late, desk>>

CancelNotice(n) ==
    /\ ~OrderLocked
    /\ OpenNotice(n)
    /\ SubmissionsOf(n) = {}
    /\ notice' = [notice EXCEPT ![n].status = "cancelled"]
    /\ UNCHANGED <<floor, sub, qc, rcpt, past, job, desk>>

-----------------------------------------------------------------------------
\* Mutant: the remainder is computed before the order is locked.
UnlockedSubmission(s, n, q) ==
    /\ q <= NoticeAvailable(n, {})
    /\ Start(s, [Idle EXCEPT !.op = "createSubmission", !.of = n, !.qty = q])
    /\ UNCHANGED <<floor, goods, desk>>

\* The order was running when it was read, before the lock; since then it may
\* have been paused, completed or closed.
CreateSubmissionBegin(s, n, q) ==
    /\ ~OrderLocked
    /\ q <= NoticeAvailable(n, {})
    /\ Start(s, [Idle EXCEPT !.op = "createSubmission", !.of = n, !.qty = q])
    /\ UNCHANGED <<floor, goods, desk>>

CreateSubmissionCommit(s, u) ==
    /\ Working(s, "createSubmission")
    /\ Fresh(u, sub)
    /\ sub' = [sub EXCEPT ![u] = [status |-> "draft", notice |-> job[s].of, qty |-> job[s].qty]]
    /\ Done(s)
    /\ UNCHANGED <<floor, notice, qc, rcpt, past, desk>>

\* The status is read before the lock and not again.
UpdateSubmissionBegin(s, u) ==
    /\ sub[u].status = "draft"
    /\ Start(s, [Idle EXCEPT !.op = "updateSubmission", !.doc = u])
    /\ UNCHANGED <<floor, goods, desk>>

UpdateSubmissionCommit(s, q) ==
    LET u == job[s].doc
    IN /\ Working(s, "updateSubmission")
       /\ ~OrderLocked /\ ~SubmissionLocked(u)
       /\ q <= NoticeAvailable(sub[u].notice, {u})
       /\ sub' = [sub EXCEPT ![u].qty = q]
       /\ late' = IF sub[u].status = "draft" THEN late ELSE late \cup {u}
       /\ Done(s)
       /\ UNCHANGED <<floor, notice, qc, rcpt, backed, desk>>

SubmitBegin(s, u) ==
    /\ ~SubmissionLocked(u)
    /\ sub[u].status = "draft"
    /\ Start(s, [Idle EXCEPT !.op = "submit", !.doc = u])
    /\ UNCHANGED <<floor, goods, desk>>

CancelSubmissionBegin(s, u) ==
    /\ ~SubmissionLocked(u)
    /\ sub[u].status \in {"draft", "submitted"}
    /\ {q \in Records : qc[q].sub = u} = {}
    /\ Start(s, [Idle EXCEPT !.op = "cancelSubmission", !.doc = u])
    /\ UNCHANGED <<floor, goods, desk>>

\* The notice's status follows, written from what the job read of it: it saw
\* an open notice, since its own submission was live.
SubmissionCommit(s) ==
    LET u == job[s].doc
    IN /\ job[s].op \in {"submit", "cancelSubmission"}
       /\ sub' = [sub EXCEPT ![u].status = IF Working(s, "submit") THEN "submitted" ELSE "cancelled"]
       /\ notice' = [notice EXCEPT ![sub[u].notice].status = "open"]
       /\ Done(s)
       /\ UNCHANGED <<floor, qc, rcpt, past, desk>>

-----------------------------------------------------------------------------
\* Mutant: without the lock of the submission.
UnlockedQc(s, u, a, r) ==
    /\ sub[u].status \in {"submitted", "inspecting"}
    /\ a + r > 0
    /\ Inspected(ActiveRecords(u)) + a + r <= sub[u].qty
    /\ Start(s, [Idle EXCEPT !.op = "createQc", !.of = u, !.qty = a, !.rejected = r])
    /\ UNCHANGED <<floor, goods, desk>>

CreateQcBegin(s, u, a, r) ==
    /\ ~SubmissionLocked(u)
    /\ sub[u].status \in {"submitted", "inspecting"}
    /\ a + r > 0
    /\ Inspected(ActiveRecords(u)) + a + r <= sub[u].qty
    /\ Start(s, [Idle EXCEPT !.op = "createQc", !.of = u, !.qty = a, !.rejected = r])
    /\ UNCHANGED <<floor, goods, desk>>

\* nextStatus of a submission of which that much is inspected.
StatusAfter(u, inspected) == IF inspected = sub[u].qty THEN "qc_completed" ELSE "inspecting"

CreateQcCommit(s, q) ==
    LET u == job[s].of
        inspected == Inspected(ActiveRecords(u)) + job[s].qty + job[s].rejected
    IN /\ Working(s, "createQc")
       /\ Fresh(q, qc)
       /\ qc' = [qc EXCEPT ![q] = [status |-> "active", sub |-> u,
                                   accepted |-> job[s].qty, rejected |-> job[s].rejected]]
       /\ sub' = [sub EXCEPT ![u].status = StatusAfter(u, inspected)]
       /\ Done(s)
       /\ UNCHANGED <<floor, notice, rcpt, past, desk>>

\* What it reads here it reads again under the locks.
CorrectQcBegin(s, q) ==
    /\ qc[q].status = "active"
    /\ GoodsOf(q) = {}
    /\ Start(s, [Idle EXCEPT !.op = "correctQc", !.doc = q])
    /\ UNCHANGED <<floor, goods, desk>>

CorrectQcCommit(s, replacement, a, r) ==
    LET q == job[s].doc
        u == qc[q].sub
        inspected == Inspected(ActiveRecords(u) \ {q}) + a + r
    IN /\ Working(s, "correctQc")
       /\ ~SubmissionLocked(u) /\ ~RecordLocked(q)
       /\ qc[q].status = "active"
       /\ GoodsOf(q) = {}
       /\ a + r > 0
       /\ inspected <= sub[u].qty
       /\ Fresh(replacement, qc)
       /\ qc' = [qc EXCEPT ![q].status = "corrected",
                           ![replacement] = [status |-> "active", sub |-> u, accepted |-> a, rejected |-> r]]
       /\ sub' = [sub EXCEPT ![u].status = StatusAfter(u, inspected)]
       /\ Done(s)
       /\ UNCHANGED <<floor, notice, rcpt, past, desk>>

-----------------------------------------------------------------------------
CreateReceiptBegin(s, q, kind, n) ==
    /\ ~RecordLocked(q)
    /\ qc[q].status = "active"
    /\ sub[qc[q].sub].status \in {"submitted", "inspecting", "qc_completed"}
    /\ n <= Left(q, kind, {})
    /\ Start(s, [Idle EXCEPT !.op = "createReceipt", !.of = q, !.kind = kind, !.qty = n])
    /\ UNCHANGED <<floor, goods, desk>>

CreateReceiptCommit(s, g) ==
    /\ Working(s, "createReceipt")
    /\ Fresh(g, rcpt)
    /\ rcpt' = [rcpt EXCEPT ![g] = [status |-> "draft", qc |-> job[s].of,
                                    kind |-> job[s].kind, qty |-> job[s].qty]]
    /\ Done(s)
    /\ UNCHANGED <<floor, notice, sub, qc, past, desk>>

PostReceipt(g) ==
    LET q == rcpt[g].qc
    IN /\ rcpt[g].status = "draft"
       /\ ~RecordLocked(q)
       /\ qc[q].status = "active"
       /\ rcpt[g].qty <= Left(q, rcpt[g].kind, {g})
       /\ rcpt' = [rcpt EXCEPT ![g].status = "posted"]
       /\ UNCHANGED <<floor, notice, sub, qc, past, job, desk>>

\* Refused when the goods are not in stock any more.
ReverseReceipt(g) ==
    /\ rcpt[g].status = "posted"
    /\ rcpt' = [rcpt EXCEPT ![g].status = "reversed"]
    /\ UNCHANGED <<floor, notice, sub, qc, past, job, desk>>

NoticeStep ==
    \/ \E s \in Sessions : CreateNoticeBegin(s)
    \/ \E s \in Sessions, n \in Notices, q \in Qty : CreateNoticeCommit(s, n, q)
    \/ \E n \in Notices : CancelNotice(n)

SubmissionStep ==
    \/ \E s \in Sessions, n \in Notices, q \in Qty : CreateSubmissionBegin(s, n, q)
    \/ \E s \in Sessions, u \in Submissions :
         \/ CreateSubmissionCommit(s, u) \/ UpdateSubmissionBegin(s, u)
         \/ SubmitBegin(s, u) \/ CancelSubmissionBegin(s, u)
    \/ \E s \in Sessions, q \in Qty : UpdateSubmissionCommit(s, q)
    \/ \E s \in Sessions : SubmissionCommit(s)

InspectionStep ==
    \/ \E s \in Sessions, u \in Submissions, a, r \in 0..MaxQty : CreateQcBegin(s, u, a, r)
    \/ \E s \in Sessions, q \in Records : CreateQcCommit(s, q)

CorrectionStep ==
    \/ \E s \in Sessions, q \in Records : CorrectQcBegin(s, q)
    \/ \E s \in Sessions, q \in Records, a, r \in 0..MaxQty : CorrectQcCommit(s, q, a, r)

ReceiptStep ==
    \/ \E s \in Sessions, q \in Records, kind \in {"inbound", "defective"}, n \in Qty :
         CreateReceiptBegin(s, q, kind, n)
    \/ \E s \in Sessions, g \in Receipts : CreateReceiptCommit(s, g)
    \/ \E g \in Receipts : PostReceipt(g) \/ ReverseReceipt(g)
=============================================================================
