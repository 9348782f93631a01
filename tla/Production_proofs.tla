-------------------------- MODULE Production_proofs --------------------------
(***************************************************************************)
(* From the daily report to goods in stock, for any number of requests and *)
(* documents: first what follows from the locks and from the status of the *)
(* documents (Inv), then the sums of one stage against the next (Fits),    *)
(* then the alerts against the reports (AlertsInv).                        *)
(***************************************************************************)
EXTENDS Production, Sums_proofs

USE ProductionAssumption

docs == <<notice, sub, qc, rcpt>>

\* Documents in use name the document they come from.
References ==
    /\ \A u \in Submissions : sub[u].status # "none" => sub[u].notice \in Notices
    /\ \A q \in Records : qc[q].status # "none" => qc[q].sub \in Submissions
    /\ \A g \in Receipts : rcpt[g].status # "none" => rcpt[g].qc \in Records

\* What a live document rests on is live.
Chain ==
    /\ \A u \in Submissions : sub[u].status \notin {"none", "cancelled"} => OpenNotice(sub[u].notice)
    /\ \A q \in Records : qc[q].status # "none" => sub[qc[q].sub].status \in {"inspecting", "qc_completed"}
    /\ \A g \in Receipts : rcpt[g].status \in {"draft", "posted"} => qc[rcpt[g].qc].status = "active"

Ending == {"submit", "cancelSubmission"}

\* What a request read under its lock still holds.
InFlight(s) ==
    LET j == job[s]
    IN /\ j.op \in {"updateReport", "removeReport"} => j.doc \in Reports
       /\ j.op = "createSubmission" => j.of \in Notices /\ OpenNotice(j.of)
       /\ j.op = "updateSubmission" => j.doc \in Submissions
       /\ j.op \in Ending => j.doc \in Submissions /\ sub[j.doc].status \in {"draft", "submitted"}
       /\ j.op = "createQc" => j.of \in Submissions /\ sub[j.of].status \in {"submitted", "inspecting"}
       /\ j.op = "correctQc" => j.doc \in Records
       /\ j.op = "createReceipt" => /\ j.of \in Records /\ qc[j.of].status = "active"
                                    /\ j.kind \in {"inbound", "defective"}

\* The lock of a submission, request by request.
Holds(s, u) ==
    \/ job[s].op \in Ending /\ job[s].doc = u
    \/ job[s].op = "createQc" /\ job[s].of = u

OneHolder == \A s, t \in Sessions, u \in Submissions : Holds(s, u) /\ Holds(t, u) => s = t

Inv == TypeOK /\ References /\ Chain /\ (\A s \in Sessions : InFlight(s)) /\ OneHolder

-----------------------------------------------------------------------------
LEMMA IdleJob == Idle \in Jobs /\ Idle.op = "idle"
BY DEF Idle, Jobs

LEMMA NoDocNoId == /\ NoDoc \notin Ids /\ Ids \subseteq Nat
                   /\ Reports \subseteq Ids /\ Notices \subseteq Ids /\ Submissions \subseteq Ids
                   /\ Records \subseteq Ids /\ Receipts \subseteq Ids
BY DEF Ids, NoDoc

LEMMA Quantities == Qty \subseteq 0..MaxQty /\ 0 \in 0..MaxQty /\ MaxQty \in Qty /\ \A n \in Qty : n >= 1
BY DEF Qty

LEMMA OpenWhenAvailable ==
    ASSUME NEW n \in Notices, NEW q \in Qty, q <= NoticeAvailable(n, {})
    PROVE  OpenNotice(n)
<1>1. ASSUME ~ OpenNotice(n) PROVE NoticeAvailable(n, {}) = 0
  BY <1>1 DEF NoticeAvailable
<1>2. q \in Nat /\ q >= 1
  BY Quantities
<1> QED
  BY <1>1, <1>2

LEMMA FiniteTables ==
    /\ IsFiniteSet(Reports) /\ IsFiniteSet(Notices) /\ IsFiniteSet(Submissions)
    /\ IsFiniteSet(Records) /\ IsFiniteSet(Receipts)
BY NoDocNoId, FS_Subset

\* Quantities in a table of reports, and their sums.
LEMMA ReportSums ==
    ASSUME NEW R \in [Reports -> ReportRows], NEW S \in SUBSET Reports
    PROVE  IsFiniteSet(S) /\ (\A r \in S : QtyIn(R)[r] = R[r].qty /\ R[r].qty \in Nat)
           /\ SumOf(QtyIn(R), S) \in Nat
<1>1. IsFiniteSet(S)
  BY FiniteTables, FS_Subset
<1>2. \A r \in S : QtyIn(R)[r] = R[r].qty /\ R[r].qty \in Nat
  BY DEF QtyIn, ReportRows
<1> QED
  BY <1>1, <1>2, SumNat

LEMMA ReportedNat ==
    ASSUME NEW R \in [Reports -> ReportRows]
    PROVE  PackagingReported(R) \in Nat /\ \A kind : Reported(R, kind) \in Nat
<1>1. \A kind : Reported(R, kind) \in Nat
  BY ReportSums DEF Reported, LiveReports
<1> QED
  BY <1>1 DEF PackagingReported

\* The locks by name.
LEMMA LockedMeansHeld ==
    ASSUME NEW u PROVE SubmissionLocked(u) <=> \E s \in Sessions : Holds(s, u)
BY DEF SubmissionLocked, Holds, Ending

-----------------------------------------------------------------------------
LEMMA InvInit == Init => Inv
<1> SUFFICES ASSUME Init PROVE Inv
  OBVIOUS
<1> USE IdleJob, Quantities
<1>1. FirstNotice \in Notices
  BY DEF FirstNotice
<1>2. FirstDay \in Dates
  BY DEF FirstDay
<1>3. /\ operation = "active" /\ order \in {"draft", "in_progress"}
      /\ qc = [q \in Records |-> NoRecord] /\ rcpt = [g \in Receipts |-> NoReceipt]
      /\ job = [s \in Sessions |-> Idle] /\ late = {} /\ untold = {}
      /\ desk \in Desks /\ backed \in Nat
      /\ (NothingYet \/ HandedIn)
  BY DEF Init, Reporting
<1>4. rep \in [Reports -> ReportRows]
  BY <1>2 DEF Init, Reporting, ReportRows, NoReport
<1>5. notice \in [Notices -> NoticeRows] /\ sub \in [Submissions -> SubmissionRows]
  BY <1>1, <1>3 DEF NothingYet, HandedIn, NoticeRows, SubmissionRows, NoNotice, NoSubmission
<1>6. qc \in [Records -> RecordRows] /\ rcpt \in [Receipts -> ReceiptRows]
  BY <1>3 DEF RecordRows, ReceiptRows, NoRecord, NoReceipt
<1>7. TypeOK
  BY <1>3, <1>4, <1>5, <1>6 DEF TypeOK
<1>8. References /\ Chain
  BY <1>1, <1>3 DEF References, Chain, NothingYet, HandedIn, NoNotice, NoSubmission, NoRecord,
     NoReceipt, OpenNotice
<1>9. (\A s \in Sessions : InFlight(s)) /\ OneHolder
  BY <1>3 DEF InFlight, OneHolder, Holds, Ending
<1> QED
  BY <1>7, <1>8, <1>9 DEF Inv

\* The documents stay; one request starts, goes on or ends.
LEMMA DocsKept ==
    ASSUME Inv, TypeOK', UNCHANGED docs, NEW s \in Sessions,
           \A t \in Sessions \ {s} : job'[t] = job[t],
           InFlight(s)',
           \A u \in Submissions : Holds(s, u)' => Holds(s, u) \/ ~ SubmissionLocked(u)
    PROVE  Inv'
<1> USE DEF Inv, docs
<1>1. References' /\ Chain'
  BY DEF References, Chain, OpenNotice
<1>2. \A t \in Sessions \ {s} : InFlight(t)'
  BY DEF InFlight, OpenNotice
<1>3. \A t \in Sessions \ {s}, u \in Submissions : Holds(t, u)' <=> Holds(t, u)
  BY DEF Holds
<1>4. OneHolder'
  BY <1>3, LockedMeansHeld DEF OneHolder
<1> QED
  BY <1>1, <1>2, <1>4

LEMMA Ended ==
    ASSUME TypeOK, NEW s \in Sessions, Done(s)
    PROVE  /\ job'[s] = Idle /\ \A t \in Sessions \ {s} : job'[t] = job[t]
           /\ job' \in [Sessions -> Jobs]
           /\ InFlight(s)' /\ \A u \in Submissions : ~ Holds(s, u)'
<1>1. job'[s] = Idle /\ (\A t \in Sessions \ {s} : job'[t] = job[t]) /\ job' \in [Sessions -> Jobs]
  BY IdleJob DEF Done, TypeOK
<1> QED
  BY <1>1, IdleJob DEF InFlight, Holds, Ending

LEMMA Started ==
    ASSUME TypeOK, NEW s \in Sessions, NEW request \in Jobs, Start(s, request)
    PROVE  /\ job[s] = Idle /\ job'[s] = request
           /\ \A t \in Sessions \ {s} : job'[t] = job[t]
           /\ job' \in [Sessions -> Jobs]
BY DEF Start, TypeOK

\* The end of a request that leaves the documents alone.
LEMMA DocsKeptAtEnd ==
    ASSUME Inv, TypeOK', UNCHANGED docs, NEW s \in Sessions, Done(s)
    PROVE  Inv'
BY Ended, DocsKept DEF Inv

LEMMA DocsKeptAtStart ==
    ASSUME Inv, UNCHANGED <<floor, goods, desk>>, NEW s \in Sessions,
           NEW request \in Jobs, Start(s, request), InFlight(s)',
           \A u \in Submissions : Holds(s, u)' => ~ SubmissionLocked(u)
    PROVE  Inv'
<1>1. TypeOK'
  BY Started DEF Inv, TypeOK, floor, past, goods
<1> QED
  BY <1>1, Started, DocsKept DEF Inv, docs, goods

LEMMA JobsKept ==
    ASSUME Inv, TypeOK', UNCHANGED docs, UNCHANGED job
    PROVE  Inv'
<1>1. References' /\ Chain'
  BY DEF Inv, docs, References, Chain, OpenNotice
<1>2. \A t \in Sessions : InFlight(t)'
  BY DEF Inv, docs, InFlight, OpenNotice
<1>3. OneHolder'
  BY DEF Inv, OneHolder, Holds
<1> QED
  BY <1>1, <1>2, <1>3 DEF Inv

-----------------------------------------------------------------------------
(***************************************************************************)
(* The shop floor.                                                         *)
(***************************************************************************)
LEMMA WrittenReports ==
    ASSUME TypeOK, NEW R \in [Reports -> ReportRows], NEW kind, NEW dates,
           NEW moved \in SUBSET (Dates \cup {0}), WriteReports(R, kind, dates, moved),
           job' \in [Sessions -> Jobs]
    PROVE  TypeOK' /\ UNCHANGED docs
BY DEF WriteReports, TypeOK, goods, docs, past

LEMMA InvOfReportStep ==
    ASSUME Inv, ReportStep
    PROVE  Inv'
<1> USE Quantities
<1>0. TypeOK
  BY DEF Inv
<1>1. ASSUME NEW r \in Reports, NEW d \in Dates, NEW q \in Qty, CreateEmployeeReport(r, d, q)
      PROVE  Inv'
  <2> DEFINE R == [rep EXCEPT ![r] = [status |-> "live", kind |-> "employee", date |-> d, qty |-> q]]
  <2>1. R \in [Reports -> ReportRows]
    BY <1>0 DEF TypeOK, ReportRows
  <2>2. WriteReports(R, "employee", {d}, {}) /\ UNCHANGED job
    BY <1>1 DEF CreateEmployeeReport
  <2>3. job' \in [Sessions -> Jobs]
    BY <1>0, <2>2 DEF TypeOK
  <2> HIDE DEF R
  <2>4. TypeOK' /\ UNCHANGED docs
    BY <1>0, <2>1, <2>2, <2>3, WrittenReports
  <2> QED
    BY <2>2, <2>4, JobsKept
<1>2. ASSUME NEW r \in Reports, NEW d \in Dates, NEW q \in Qty, CreateOperationReport(r, d, q)
      PROVE  Inv'
  <2> DEFINE row == [status |-> "live", kind |-> "operation", date |-> d, qty |-> rep[r].qty + q]
             R == [rep EXCEPT ![r] = row]
  <2>1. WriteReports(R, "operation", {d}, {}) /\ UNCHANGED job
    BY <1>2 DEF CreateOperationReport
  <2>2. rep[r].qty + q \in 0..MaxQty
    <3>1. rep[r].qty + q <= MaxQty
      BY <1>2 DEF CreateOperationReport
    <3>2. rep[r].qty \in 0..MaxQty /\ q \in 1..MaxQty
      BY <1>0 DEF TypeOK, ReportRows, Qty
    <3> QED
      BY <3>1, <3>2
  <2>3. R \in [Reports -> ReportRows]
    BY <1>0, <2>2 DEF TypeOK, ReportRows
  <2>4. job' \in [Sessions -> Jobs]
    BY <1>0, <2>1 DEF TypeOK
  <2> HIDE DEF R
  <2>5. TypeOK' /\ UNCHANGED docs
    BY <1>0, <2>1, <2>3, <2>4, WrittenReports
  <2> QED
    BY <2>1, <2>5, JobsKept
<1>3. ASSUME NEW s \in Sessions, NEW r \in Reports, UpdateReportBegin(s, r) \/ RemoveReportBegin(s, r)
      PROVE  Inv'
  <2>1. PICK request : /\ Start(s, request) /\ UNCHANGED <<floor, goods, desk>>
                       /\ \/ request = [Idle EXCEPT !.op = "updateReport", !.doc = r, !.date = rep[r].date]
                          \/ request = [Idle EXCEPT !.op = "removeReport", !.doc = r, !.date = rep[r].date]
    BY <1>3 DEF UpdateReportBegin, RemoveReportBegin
  <2>2. request \in Jobs
    <3>1. rep[r].date \in Dates \cup {0} /\ r \in Ids \cup {NoDoc}
      BY <1>0, NoDocNoId DEF TypeOK, ReportRows
    <3>2. request.op \in {"updateReport", "removeReport"} /\ request.doc = r /\ request.date = rep[r].date
          /\ request.of = NoDoc /\ request.kind = "none" /\ request.qty = 0 /\ request.rejected = 0
      BY <2>1 DEF Idle
    <3>3. request = [op |-> request.op, doc |-> r, of |-> NoDoc, kind |-> "none",
                     date |-> rep[r].date, qty |-> 0, rejected |-> 0]
      BY <2>1 DEF Idle
    <3>4. 0 \in 0..MaxQty
      BY Quantities
    <3> QED
      BY <3>1, <3>2, <3>3, <3>4 DEF Jobs
  <2>3. request.op \in {"updateReport", "removeReport"} /\ request.doc = r
    BY <2>1 DEF Idle
  <2>4. InFlight(s)' /\ \A u \in Submissions : ~ Holds(s, u)'
    BY <1>0, <2>1, <2>2, <2>3, Started DEF InFlight, Holds, Ending
  <2> QED
    BY <2>1, <2>2, <2>4, DocsKeptAtStart
<1>4. ASSUME NEW s \in Sessions, NEW d \in Dates, NEW q \in Qty, UpdateReportCommit(s, d, q)
      PROVE  Inv'
  <2> DEFINE r == job[s].doc
             R == [rep EXCEPT ![r].date = d, ![r].qty = q]
  <2>1. /\ WriteReports(R, rep[r].kind, {job[s].date, d}, {rep[r].date} \ {job[s].date})
        /\ Done(s) /\ job[s].op = "updateReport"
    BY <1>4 DEF UpdateReportCommit, DatesOf, Working
  <2>2. r \in Reports
    BY <2>1 DEF Inv, InFlight
  <2>3. R \in [Reports -> ReportRows]
    BY <1>0, <2>2 DEF TypeOK, ReportRows
  <2>4. job' \in [Sessions -> Jobs]
    BY <1>0, <2>1, Ended
  <2>6. {rep[r].date} \ {job[s].date} \subseteq Dates \cup {0}
    BY <1>0, <2>2 DEF TypeOK, ReportRows
  <2> HIDE DEF R
  <2>5. TypeOK' /\ UNCHANGED docs
    BY <1>0, <2>1, <2>3, <2>4, <2>6, WrittenReports
  <2> QED
    BY <2>1, <2>5, DocsKeptAtEnd
<1>5. ASSUME NEW s \in Sessions, RemoveReportCommit(s) PROVE Inv'
  <2> DEFINE r == job[s].doc
             R == [rep EXCEPT ![r] = [NoReport EXCEPT !.status = "deleted"]]
  <2>1. /\ WriteReports(R, rep[r].kind, {job[s].date}, {rep[r].date} \ {job[s].date})
        /\ Done(s) /\ job[s].op = "removeReport"
    BY <1>5 DEF RemoveReportCommit, Working
  <2>2. R \in [Reports -> ReportRows]
    BY <1>0 DEF TypeOK, ReportRows, NoReport
  <2>3. job' \in [Sessions -> Jobs]
    BY <1>0, <2>1, Ended
  <2>5. r \in Reports
    BY <2>1 DEF Inv, InFlight
  <2>6. {rep[r].date} \ {job[s].date} \subseteq Dates \cup {0}
    BY <1>0, <2>5 DEF TypeOK, ReportRows
  <2> HIDE DEF R
  <2>4. TypeOK' /\ UNCHANGED docs
    BY <1>0, <2>1, <2>2, <2>3, <2>6, WrittenReports
  <2> QED
    BY <2>1, <2>4, DocsKeptAtEnd
<1> QED
  BY <1>1, <1>2, <1>3, <1>4, <1>5 DEF ReportStep

LEMMA InvOfOrderStep ==
    ASSUME Inv, OrderStep
    PROVE  Inv'
<1>0. TypeOK
  BY DEF Inv
<1>1. ASSUME NEW s \in Sessions, NEW k \in AlertKeys, ConfirmBegin(s, k) PROVE Inv'
  <2> DEFINE request == [Idle EXCEPT !.op = "confirm", !.kind = k[1], !.date = k[2]]
  <2>1. Start(s, request) /\ UNCHANGED <<floor, goods, desk>>
    BY <1>1 DEF ConfirmBegin
  <2>2. k[1] \in {"daily_discrepancy", "over_order"} /\ k[2] \in Dates
    BY DEF AlertKeys
  <2>3. request \in Jobs /\ request.op = "confirm"
    BY <2>2, IdleJob DEF Jobs
  <2> HIDE DEF request
  <2>4. InFlight(s)' /\ \A u \in Submissions : ~ Holds(s, u)'
    BY <1>0, <2>1, <2>3, Started DEF InFlight, Holds, Ending
  <2> QED
    BY <2>1, <2>3, <2>4, DocsKeptAtStart
<1>2. ASSUME NEW s \in Sessions, ConfirmCommit(s) PROVE Inv'
  <2>1. TypeOK' /\ UNCHANGED docs /\ Done(s)
    BY <1>0, <1>2, Ended DEF ConfirmCommit, TypeOK, goods, docs, past
  <2> QED
    BY <2>1, DocsKeptAtEnd
<1>3. ASSUME NEW target \in {"in_progress", "paused", "completed", "closed"}, Transition(target)
      PROVE  Inv'
  <2>1. TypeOK' /\ UNCHANGED docs /\ UNCHANGED job
    BY <1>0, <1>3 DEF Transition, TypeOK, goods, docs, past
  <2> QED
    BY <2>1, JobsKept
<1>4. CASE CancelOperation
  <2>1. TypeOK' /\ UNCHANGED docs /\ UNCHANGED job
    BY <1>0, <1>4 DEF CancelOperation, TypeOK, goods, docs, past
  <2> QED
    BY <2>1, JobsKept
<1> QED
  BY <1>1, <1>2, <1>3, <1>4 DEF OrderStep

-----------------------------------------------------------------------------
(***************************************************************************)
(* Requests that begin.                                                    *)
(***************************************************************************)
LEMMA InvOfSubmissionBegin ==
    ASSUME Inv, NEW s \in Sessions, NEW u \in Submissions,
           UpdateSubmissionBegin(s, u) \/ SubmitBegin(s, u) \/ CancelSubmissionBegin(s, u)
    PROVE  Inv'
<1>1. PICK request :
         /\ Start(s, request) /\ UNCHANGED <<floor, goods, desk>>
         /\ \/ request = [Idle EXCEPT !.op = "updateSubmission", !.doc = u]
            \/ /\ request = [Idle EXCEPT !.op = "submit", !.doc = u] \/ request = [Idle EXCEPT !.op = "cancelSubmission", !.doc = u]
               /\ ~ SubmissionLocked(u) /\ sub[u].status \in {"draft", "submitted"}
  BY DEF UpdateSubmissionBegin, SubmitBegin, CancelSubmissionBegin
<1>2. request \in Jobs /\ request.doc = u
      /\ \/ request.op = "updateSubmission"
         \/ request.op \in Ending /\ ~ SubmissionLocked(u) /\ sub[u].status \in {"draft", "submitted"}
  BY <1>1, NoDocNoId, Quantities DEF Idle, Jobs, Ending
<1>3. job'[s] = request /\ sub' = sub
  BY <1>1, <1>2, Started DEF Inv, goods
<1>4. InFlight(s)' /\ \A v \in Submissions : Holds(s, v)' => ~ SubmissionLocked(v)
  BY <1>2, <1>3 DEF InFlight, Holds, Ending
<1> QED
  BY <1>1, <1>2, <1>4, DocsKeptAtStart

LEMMA InvOfOtherBegin ==
    ASSUME Inv, NEW s \in Sessions,
           \/ CreateNoticeBegin(s)
           \/ \E n \in Notices, q \in Qty : CreateSubmissionBegin(s, n, q)
           \/ \E u \in Submissions, a, r \in 0..MaxQty : CreateQcBegin(s, u, a, r)
           \/ \E q \in Records : CorrectQcBegin(s, q)
           \/ \E q \in Records, kind \in {"inbound", "defective"}, n \in Qty :
                CreateReceiptBegin(s, q, kind, n)
    PROVE  Inv'
<1> USE NoDocNoId, Quantities
<1>0. TypeOK
  BY DEF Inv
<1>1. CASE CreateNoticeBegin(s)
  <2> DEFINE request == [Idle EXCEPT !.op = "createNotice"]
  <2>1. Start(s, request) /\ UNCHANGED <<floor, goods, desk>>
    BY <1>1 DEF CreateNoticeBegin
  <2>2. request \in Jobs /\ request.op = "createNotice"
    BY IdleJob DEF Jobs
  <2> HIDE DEF request
  <2>3. InFlight(s)' /\ \A u \in Submissions : ~ Holds(s, u)'
    BY <1>0, <2>1, <2>2, Started DEF InFlight, Holds, Ending
  <2> QED
    BY <2>1, <2>2, <2>3, DocsKeptAtStart
<1>2. ASSUME NEW n \in Notices, NEW q \in Qty, CreateSubmissionBegin(s, n, q) PROVE Inv'
  <2> DEFINE request == [Idle EXCEPT !.op = "createSubmission", !.of = n, !.qty = q]
  <2>1. Start(s, request) /\ UNCHANGED <<floor, goods, desk>> /\ OpenNotice(n)
    BY <1>2, OpenWhenAvailable DEF CreateSubmissionBegin
  <2>2. request \in Jobs /\ request.op = "createSubmission" /\ request.of = n
    BY DEF Jobs, Idle
  <2> HIDE DEF request
  <2>3. InFlight(s)' /\ \A u \in Submissions : ~ Holds(s, u)'
    BY <1>0, <2>1, <2>2, Started DEF InFlight, Holds, Ending, OpenNotice, goods
  <2> QED
    BY <2>1, <2>2, <2>3, DocsKeptAtStart
<1>3. ASSUME NEW u \in Submissions, NEW a \in 0..MaxQty, NEW r \in 0..MaxQty, CreateQcBegin(s, u, a, r)
      PROVE  Inv'
  <2> DEFINE request == [Idle EXCEPT !.op = "createQc", !.of = u, !.qty = a, !.rejected = r]
  <2>1. /\ Start(s, request) /\ UNCHANGED <<floor, goods, desk>>
        /\ ~ SubmissionLocked(u) /\ sub[u].status \in {"submitted", "inspecting"}
    BY <1>3 DEF CreateQcBegin
  <2>2. request \in Jobs /\ request.op = "createQc" /\ request.of = u
    BY DEF Jobs, Idle
  <2> HIDE DEF request
  <2>3. InFlight(s)' /\ \A v \in Submissions : Holds(s, v)' => ~ SubmissionLocked(v)
    BY <1>0, <2>1, <2>2, Started DEF InFlight, Holds, Ending, goods
  <2> QED
    BY <2>1, <2>2, <2>3, DocsKeptAtStart
<1>4. ASSUME NEW q \in Records, CorrectQcBegin(s, q) PROVE Inv'
  <2> DEFINE request == [Idle EXCEPT !.op = "correctQc", !.doc = q]
  <2>1. Start(s, request) /\ UNCHANGED <<floor, goods, desk>>
    BY <1>4 DEF CorrectQcBegin
  <2>2. request \in Jobs /\ request.op = "correctQc" /\ request.doc = q
    BY DEF Jobs, Idle
  <2> HIDE DEF request
  <2>3. InFlight(s)' /\ \A u \in Submissions : ~ Holds(s, u)'
    BY <1>0, <2>1, <2>2, Started DEF InFlight, Holds, Ending
  <2> QED
    BY <2>1, <2>2, <2>3, DocsKeptAtStart
<1>5. ASSUME NEW q \in Records, NEW kind \in {"inbound", "defective"}, NEW n \in Qty,
             CreateReceiptBegin(s, q, kind, n)
      PROVE  Inv'
  <2> DEFINE request == [Idle EXCEPT !.op = "createReceipt", !.of = q, !.kind = kind, !.qty = n]
  <2>1. Start(s, request) /\ UNCHANGED <<floor, goods, desk>> /\ qc[q].status = "active"
    BY <1>5 DEF CreateReceiptBegin
  <2>2. request \in Jobs /\ request.op = "createReceipt" /\ request.of = q /\ request.kind = kind
    BY DEF Jobs, Idle
  <2> HIDE DEF request
  <2>3. InFlight(s)' /\ \A u \in Submissions : ~ Holds(s, u)'
    BY <1>0, <2>1, <2>2, Started DEF InFlight, Holds, Ending, goods
  <2> QED
    BY <2>1, <2>2, <2>3, DocsKeptAtStart
<1> QED
  BY <1>1, <1>2, <1>3, <1>4, <1>5

-----------------------------------------------------------------------------
(***************************************************************************)
(* Requests that change a document.                                        *)
(***************************************************************************)
LEMMA HoldersAtEnd ==
    ASSUME Inv, (\E s \in Sessions : Done(s)) \/ UNCHANGED job
    PROVE  OneHolder'
<1>1. \A t \in Sessions, u \in Submissions : Holds(t, u)' => Holds(t, u)
  <2>1. CASE UNCHANGED job
    BY <2>1 DEF Holds
  <2>2. ASSUME NEW s \in Sessions, Done(s)
        PROVE  \A t \in Sessions, u \in Submissions : Holds(t, u)' => Holds(t, u)
    <3>1. \A t \in Sessions \ {s}, u \in Submissions : Holds(t, u)' => Holds(t, u)
      BY <2>2, Ended DEF Holds, Inv
    <3>2. \A u \in Submissions : ~ Holds(s, u)'
      BY <2>2, Ended DEF Inv
    <3> QED
      BY <3>1, <3>2
  <2> QED
    BY <2>1, <2>2
<1> QED
  BY <1>1 DEF Inv, OneHolder

LEMMA InvOfNoticeCommit ==
    ASSUME Inv, NEW s \in Sessions, NEW n \in Notices, NEW q \in Qty, CreateNoticeCommit(s, n, q)
    PROVE  Inv'
<1> USE DEF Inv
<1>1. /\ Done(s) /\ notice[n].status = "none" /\ UNCHANGED <<floor, sub, qc, rcpt, late, desk>>
      /\ notice' = [notice EXCEPT ![n] = [status |-> "open", qty |-> q]]
  BY DEF CreateNoticeCommit, Fresh
<1>2. \A m \in Notices : OpenNotice(m) => OpenNotice(m)'
  BY <1>1 DEF OpenNotice, TypeOK
<1>3. TypeOK'
  <2>1. [status |-> "open", qty |-> q] \in NoticeRows
    BY Quantities DEF NoticeRows
  <2>2. backed' \in Nat
    BY ReportedNat DEF CreateNoticeCommit, TypeOK
  <2> QED
    BY <1>1, <2>1, <2>2, Ended DEF TypeOK, floor
<1>4. References' /\ Chain'
  BY <1>1, <1>2 DEF References, Chain
<1>5. \A t \in Sessions \ {s} : InFlight(t)'
  BY <1>1, <1>2, Ended DEF InFlight
<1> QED
  BY <1>1, <1>3, <1>4, <1>5, Ended, HoldersAtEnd

LEMMA InvOfCancelNotice ==
    ASSUME Inv, NEW n \in Notices, CancelNotice(n)
    PROVE  Inv'
<1> USE DEF Inv
<1>1. /\ UNCHANGED <<floor, sub, qc, rcpt, past, job, desk>> /\ ~ OrderLocked /\ SubmissionsOf(n) = {}
      /\ notice' = [notice EXCEPT ![n].status = "cancelled"]
  BY DEF CancelNotice
<1>2. \A m \in Notices \ {n} : OpenNotice(m) => OpenNotice(m)'
  BY <1>1 DEF OpenNotice, TypeOK
<1>3. TypeOK'
  BY <1>1 DEF TypeOK, floor, past, NoticeRows
<1>4. \A u \in Submissions : sub[u].status \notin {"none", "cancelled"} => sub[u].notice # n
  BY <1>1 DEF SubmissionsOf
<1>5. References' /\ Chain'
  BY <1>1, <1>2, <1>4 DEF References, Chain
<1>6. \A t \in Sessions : InFlight(t)'
  BY <1>1, <1>2 DEF InFlight, OrderLocked
<1> QED
  BY <1>1, <1>3, <1>5, <1>6, HoldersAtEnd

LEMMA InvOfSubmissionCreated ==
    ASSUME Inv, NEW s \in Sessions, NEW u \in Submissions, CreateSubmissionCommit(s, u)
    PROVE  Inv'
<1> USE DEF Inv
<1> DEFINE row == [status |-> "draft", notice |-> job[s].of, qty |-> job[s].qty]
<1>1. /\ Done(s) /\ sub[u].status = "none" /\ UNCHANGED <<floor, notice, qc, rcpt, past, desk>>
      /\ sub' = [sub EXCEPT ![u] = row] /\ job[s].op = "createSubmission"
  BY DEF CreateSubmissionCommit, Fresh, Working
<1>2. job[s].of \in Notices /\ OpenNotice(job[s].of)
  BY <1>1 DEF InFlight
<1>3. row \in SubmissionRows
  BY <1>2 DEF SubmissionRows, TypeOK, Jobs
<1>4. TypeOK'
  BY <1>1, <1>3, Ended DEF TypeOK, floor, past
<1>5. sub'[u] = row /\ \A v \in Submissions \ {u} : sub'[v] = sub[v]
  BY <1>1 DEF TypeOK
<1>6. References'
  BY <1>1, <1>2, <1>5 DEF References
<1>7. Chain'
  BY <1>1, <1>2, <1>5 DEF Chain, References, OpenNotice
<1>8. \A t \in Sessions \ {s} : InFlight(t)'
  BY <1>1, <1>5, Ended DEF InFlight, OpenNotice
<1> QED
  BY <1>1, <1>4, <1>6, <1>7, <1>8, Ended, HoldersAtEnd

\* A submission that is live, or that a request is about to change, stays so.
LEMMA InvOfSubmissionUpdated ==
    ASSUME Inv, NEW s \in Sessions, NEW q \in Qty, UpdateSubmissionCommit(s, q)
    PROVE  Inv'
<1> USE DEF Inv
<1> DEFINE u == job[s].doc
<1>1. /\ Done(s) /\ UNCHANGED <<floor, notice, qc, rcpt, backed, desk>> /\ job[s].op = "updateSubmission"
      /\ sub' = [sub EXCEPT ![u].qty = q] /\ late' \subseteq late \cup {u}
  BY DEF UpdateSubmissionCommit, Working
<1>2. u \in Submissions
  BY <1>1 DEF InFlight
<1>3. TypeOK'
  <2>1. sub' \in [Submissions -> SubmissionRows]
    BY <1>1, <1>2, Quantities DEF TypeOK, SubmissionRows
  <2>2. late' \subseteq Submissions
    BY <1>1, <1>2 DEF TypeOK
  <2> QED
    BY <1>1, <2>1, <2>2, Ended DEF TypeOK, floor
<1>4. \A v \in Submissions : sub'[v].status = sub[v].status /\ sub'[v].notice = sub[v].notice
  BY <1>1, <1>2 DEF TypeOK, SubmissionRows
<1> HIDE DEF u
<1>5. References' /\ Chain'
  BY <1>1, <1>4 DEF References, Chain, OpenNotice
<1>6. \A t \in Sessions \ {s} : InFlight(t)'
  BY <1>1, <1>4, Ended DEF InFlight, OpenNotice
<1> QED
  BY <1>1, <1>3, <1>5, <1>6, Ended, HoldersAtEnd

LEMMA InvOfSubmissionEnded ==
    ASSUME Inv, NEW s \in Sessions, SubmissionCommit(s)
    PROVE  /\ Inv' /\ UNCHANGED notice
           /\ \A u \in Submissions : sub[u].status = "cancelled" => sub'[u].status = "cancelled"
<1> USE DEF Inv
<1> DEFINE u == job[s].doc
<1> DEFINE ended == IF Working(s, "submit") THEN "submitted" ELSE "cancelled"
<1>1. /\ Done(s) /\ UNCHANGED <<floor, qc, rcpt, past, desk>> /\ job[s].op \in Ending
      /\ sub' = [sub EXCEPT ![u].status = ended]
      /\ notice' = [notice EXCEPT ![sub[u].notice].status = "open"]
  BY DEF SubmissionCommit, Ending
<1>2. u \in Submissions /\ sub[u].status \in {"draft", "submitted"}
  BY <1>1 DEF InFlight
<1>3. PICK status \in {"submitted", "cancelled"} : sub' = [sub EXCEPT ![u].status = status]
  <2>1. ended \in {"submitted", "cancelled"}
    OBVIOUS
  <2> HIDE DEF ended, u
  <2> QED
    BY <1>1, <2>1
<1>4. Holds(s, u)
  BY <1>1 DEF Holds
<1> HIDE DEF u
<1>5. sub[u].notice \in Notices /\ OpenNotice(sub[u].notice)
  BY <1>2 DEF References, Chain
<1>6. notice' = notice
  BY <1>1, <1>5 DEF TypeOK, OpenNotice, NoticeRows
<1>7. /\ sub'[u].status = status /\ sub'[u].notice = sub[u].notice
      /\ \A v \in Submissions \ {u} : sub'[v] = sub[v]
  BY <1>2, <1>3 DEF TypeOK, SubmissionRows
<1>8. TypeOK'
  <2>1. sub' \in [Submissions -> SubmissionRows]
    BY <1>2, <1>3 DEF TypeOK, SubmissionRows
  <2> QED
    BY <1>1, <1>6, <2>1, Ended DEF TypeOK, floor, past
<1>9. References'
  BY <1>1, <1>2, <1>5, <1>6, <1>7 DEF References
<1>10. \A q \in Records : qc[q].status # "none" => qc[q].sub # u
  BY <1>2 DEF Chain
<1>11. Chain'
  BY <1>1, <1>2, <1>6, <1>7, <1>10 DEF Chain, References, OpenNotice
<1>12. ASSUME NEW t \in Sessions \ {s} PROVE InFlight(t)'
  <2>1. ~ Holds(t, u)
    BY <1>2, <1>4 DEF OneHolder
  <2> QED
    BY <1>1, <1>6, <1>7, <2>1, Ended DEF InFlight, Holds, OpenNotice
<1>13. \A v \in Submissions : sub[v].status = "cancelled" => sub'[v].status = "cancelled"
  BY <1>2, <1>7
<1> QED
  BY <1>1, <1>6, <1>8, <1>9, <1>11, <1>12, <1>13, Ended, HoldersAtEnd

LEMMA StatusAfterLive == ASSUME NEW u, NEW n PROVE StatusAfter(u, n) \in {"inspecting", "qc_completed"}
BY DEF StatusAfter

\* What an inspection does to a submission that is under inspection or about to be.
LEMMA InspectedSubmission ==
    ASSUME Inv, NEW u \in Submissions, sub[u].status \in {"submitted", "inspecting", "qc_completed"},
           NEW status \in {"inspecting", "qc_completed"}, sub' = [sub EXCEPT ![u].status = status]
    PROVE  /\ sub' \in [Submissions -> SubmissionRows]
           /\ sub'[u].status = status
           /\ \A v \in Submissions : sub'[v].notice = sub[v].notice
           /\ \A v \in Submissions \ {u} : sub'[v] = sub[v]
           /\ \A v \in Submissions : sub[v].status = "cancelled" => sub'[v].status = "cancelled"
BY DEF Inv, TypeOK, SubmissionRows

LEMMA InvOfQcCreated ==
    ASSUME Inv, NEW s \in Sessions, NEW q \in Records, CreateQcCommit(s, q)
    PROVE  /\ Inv' /\ UNCHANGED notice
           /\ \A u \in Submissions : sub[u].status = "cancelled" => sub'[u].status = "cancelled"
<1> USE DEF Inv
<1> DEFINE u == job[s].of
           row == [status |-> "active", sub |-> u, accepted |-> job[s].qty, rejected |-> job[s].rejected]
<1>1. /\ Done(s) /\ UNCHANGED <<floor, notice, rcpt, past, desk>> /\ job[s].op = "createQc"
      /\ qc[q].status = "none" /\ qc' = [qc EXCEPT ![q] = row]
  BY DEF CreateQcCommit, Working, Fresh
<1>2. PICK status \in {"inspecting", "qc_completed"} : sub' = [sub EXCEPT ![u].status = status]
  BY StatusAfterLive DEF CreateQcCommit
<1>3. u \in Submissions /\ sub[u].status \in {"submitted", "inspecting"}
  BY <1>1 DEF InFlight
<1>4. row \in RecordRows
  BY <1>3 DEF RecordRows, TypeOK, Jobs
<1>5. Holds(s, u) /\ row.sub = u /\ row.status = "active"
  BY <1>1 DEF Holds
<1> HIDE DEF u, row
<1>6. /\ sub' \in [Submissions -> SubmissionRows]
      /\ sub'[u].status = status /\ \A v \in Submissions : sub'[v].notice = sub[v].notice
      /\ \A v \in Submissions \ {u} : sub'[v] = sub[v]
      /\ \A v \in Submissions : sub[v].status = "cancelled" => sub'[v].status = "cancelled"
  BY <1>2, <1>3, InspectedSubmission
<1>7. qc'[q] = row /\ \A p \in Records \ {q} : qc'[p] = qc[p]
  BY <1>1 DEF TypeOK
<1>8. TypeOK'
  BY <1>1, <1>4, <1>6, Ended DEF TypeOK, floor, past
<1>9. References'
  BY <1>1, <1>3, <1>5, <1>6, <1>7 DEF References
<1>10. Chain'
  <2>1. \A v \in Submissions : sub'[v].status \notin {"none", "cancelled"} => notice'[sub'[v].notice].status = "open"
    BY <1>1, <1>3, <1>6 DEF Chain, OpenNotice
  <2>2. \A p \in Records : qc'[p].status # "none" => sub'[qc'[p].sub].status \in {"inspecting", "qc_completed"}
    BY <1>3, <1>5, <1>6, <1>7 DEF Chain, References
  <2>3. \A g \in Receipts : rcpt'[g].status \in {"draft", "posted"} => qc'[rcpt'[g].qc].status = "active"
    BY <1>1, <1>5, <1>7 DEF Chain
  <2> QED
    BY <2>1, <2>2, <2>3 DEF Chain, OpenNotice
<1>11. ASSUME NEW t \in Sessions \ {s} PROVE InFlight(t)'
  <2>1. ~ Holds(t, u)
    BY <1>3, <1>5 DEF OneHolder
  <2>2. InFlight(t) /\ job'[t] = job[t]
    BY <1>1, Ended
  <2>3. job[t].op \in Ending => job[t].doc # u
    BY <2>1 DEF Holds
  <2>4. job[t].op = "createQc" => job[t].of # u
    BY <2>1 DEF Holds
  <2>5. job[t].op = "createReceipt" => qc'[job[t].of].status = "active"
    BY <1>5, <1>7, <2>2 DEF InFlight
  <2> QED
    BY <1>1, <1>6, <2>2, <2>3, <2>4, <2>5 DEF InFlight, OpenNotice, Ending
<1> QED
  BY <1>1, <1>6, <1>8, <1>9, <1>10, <1>11, Ended, HoldersAtEnd

LEMMA InvOfQcCorrected ==
    ASSUME Inv, NEW s \in Sessions, NEW replacement \in Records, NEW a \in 0..MaxQty, NEW r \in 0..MaxQty,
           CorrectQcCommit(s, replacement, a, r)
    PROVE  /\ Inv' /\ UNCHANGED notice
           /\ \A u \in Submissions : sub[u].status = "cancelled" => sub'[u].status = "cancelled"
<1> USE DEF Inv
<1> DEFINE q == job[s].doc
           u == qc[q].sub
           row == [status |-> "active", sub |-> u, accepted |-> a, rejected |-> r]
<1>1. /\ Done(s) /\ UNCHANGED <<floor, notice, rcpt, past, desk>> /\ job[s].op = "correctQc"
      /\ qc[q].status = "active" /\ GoodsOf(q) = {} /\ qc[replacement].status = "none"
      /\ ~ SubmissionLocked(u) /\ ~ RecordLocked(q)
      /\ qc' = [qc EXCEPT ![q].status = "corrected", ![replacement] = row]
  BY DEF CorrectQcCommit, Working, Fresh
<1>2. PICK status \in {"inspecting", "qc_completed"} : sub' = [sub EXCEPT ![u].status = status]
  BY StatusAfterLive DEF CorrectQcCommit
<1>3. q \in Records
  BY <1>1 DEF InFlight
<1> HIDE DEF q
<1>4. u \in Submissions /\ sub[u].status \in {"inspecting", "qc_completed"}
  BY <1>1, <1>3 DEF References, Chain
<1>5. row \in RecordRows /\ row.sub = u /\ row.status = "active"
  BY <1>4 DEF RecordRows
<1>6. /\ qc'[replacement] = row /\ qc'[q].status = "corrected" /\ qc'[q].sub = u /\ q # replacement
      /\ \A p \in Records \ {q, replacement} : qc'[p] = qc[p]
      /\ qc' \in [Records -> RecordRows]
  BY <1>1, <1>3, <1>5 DEF TypeOK, RecordRows
<1> HIDE DEF u, row
<1>7. /\ sub' \in [Submissions -> SubmissionRows]
      /\ sub'[u].status = status /\ \A v \in Submissions : sub'[v].notice = sub[v].notice
      /\ \A v \in Submissions \ {u} : sub'[v] = sub[v]
      /\ \A v \in Submissions : sub[v].status = "cancelled" => sub'[v].status = "cancelled"
  BY <1>2, <1>4, InspectedSubmission
<1>8. TypeOK'
  BY <1>1, <1>6, <1>7, Ended DEF TypeOK, floor, past
<1>9. References'
  BY <1>1, <1>4, <1>5, <1>6, <1>7 DEF References
<1>10. Chain'
  <2>1. \A v \in Submissions : sub'[v].status \notin {"none", "cancelled"} => notice'[sub'[v].notice].status = "open"
    BY <1>1, <1>4, <1>7 DEF Chain, OpenNotice
  <2>2. \A p \in Records : qc'[p].status # "none" => sub'[qc'[p].sub].status \in {"inspecting", "qc_completed"}
    BY <1>4, <1>5, <1>6, <1>7 DEF Chain, References
  <2>3. ASSUME NEW g \in Receipts, rcpt'[g].status \in {"draft", "posted"}
        PROVE  qc'[rcpt'[g].qc].status = "active"
    <3>1. rcpt[g].qc # q
      BY <1>1, <2>3 DEF GoodsOf
    <3>2. rcpt[g].qc \in Records /\ qc[rcpt[g].qc].status = "active"
      BY <1>1, <2>3 DEF Chain, References
    <3> QED
      BY <1>1, <1>5, <1>6, <3>1, <3>2
  <2> QED
    BY <2>1, <2>2, <2>3 DEF Chain, OpenNotice
<1>11. ASSUME NEW t \in Sessions \ {s} PROVE InFlight(t)'
  <2>1. ~ Holds(t, u)
    BY <1>1, LockedMeansHeld
  <2>2. InFlight(t) /\ job'[t] = job[t]
    BY <1>1, Ended
  <2>3. job[t].op \in Ending => job[t].doc # u
    BY <2>1 DEF Holds
  <2>4. job[t].op = "createQc" => job[t].of # u
    BY <2>1 DEF Holds
  <2>5. job[t].op = "createReceipt" => qc'[job[t].of].status = "active"
    BY <1>1, <1>5, <1>6, <2>2 DEF InFlight, RecordLocked
  <2> QED
    BY <1>1, <1>7, <2>2, <2>3, <2>4, <2>5 DEF InFlight, OpenNotice, Ending
<1> QED
  BY <1>1, <1>7, <1>8, <1>9, <1>10, <1>11, Ended, HoldersAtEnd

LEMMA InvOfReceiptCreated ==
    ASSUME Inv, NEW s \in Sessions, NEW g \in Receipts, CreateReceiptCommit(s, g)
    PROVE  Inv'
<1> USE DEF Inv
<1> DEFINE row == [status |-> "draft", qc |-> job[s].of, kind |-> job[s].kind, qty |-> job[s].qty]
<1>1. /\ Done(s) /\ UNCHANGED <<floor, notice, sub, qc, past, desk>> /\ job[s].op = "createReceipt"
      /\ rcpt' = [rcpt EXCEPT ![g] = row]
  BY DEF CreateReceiptCommit, Working
<1>2. /\ job[s].of \in Records /\ qc[job[s].of].status = "active"
      /\ job[s].kind \in {"inbound", "defective"}
  BY <1>1 DEF InFlight
<1>3. row \in ReceiptRows /\ row.qc = job[s].of
  BY <1>2 DEF ReceiptRows, TypeOK, Jobs
<1> HIDE DEF row
<1>4. rcpt'[g] = row /\ \A h \in Receipts \ {g} : rcpt'[h] = rcpt[h]
  BY <1>1 DEF TypeOK
<1>5. TypeOK'
  BY <1>1, <1>3, Ended DEF TypeOK, floor, past
<1>6. References' /\ Chain'
  BY <1>1, <1>2, <1>3, <1>4 DEF References, Chain, OpenNotice
<1>7. \A t \in Sessions \ {s} : InFlight(t)'
  BY <1>1, Ended DEF InFlight, OpenNotice
<1> QED
  BY <1>1, <1>5, <1>6, <1>7, Ended, HoldersAtEnd

LEMMA InvOfReceiptMoved ==
    ASSUME Inv, NEW g \in Receipts, PostReceipt(g) \/ ReverseReceipt(g)
    PROVE  Inv'
<1> USE DEF Inv
<1>1. PICK status \in {"posted", "reversed"} : rcpt' = [rcpt EXCEPT ![g].status = status]
  BY DEF PostReceipt, ReverseReceipt
<1>2. UNCHANGED <<floor, notice, sub, qc, past, job, desk>> /\ rcpt[g].status \in {"draft", "posted"}
  BY DEF PostReceipt, ReverseReceipt
<1>3. /\ rcpt'[g].qc = rcpt[g].qc /\ rcpt' \in [Receipts -> ReceiptRows]
      /\ \A h \in Receipts \ {g} : rcpt'[h] = rcpt[h]
  BY <1>1 DEF TypeOK, ReceiptRows
<1>4. TypeOK'
  BY <1>2, <1>3 DEF TypeOK, floor, past
<1>5. References' /\ Chain'
  BY <1>2, <1>3 DEF References, Chain, OpenNotice
<1>6. \A t \in Sessions : InFlight(t)'
  BY <1>2 DEF InFlight, OpenNotice
<1> QED
  BY <1>2, <1>4, <1>5, <1>6, HoldersAtEnd

-----------------------------------------------------------------------------
\* No step takes a cancellation back.
Kept ==
    /\ \A n \in Notices : notice[n].status = "cancelled" => notice'[n].status = "cancelled"
    /\ \A u \in Submissions : sub[u].status = "cancelled" => sub'[u].status = "cancelled"

LEMMA KeptIfSame == ASSUME UNCHANGED <<notice, sub>> PROVE Kept
BY DEF Kept

LEMMA Step ==
    Inv /\ [Next]_vars => Inv' /\ Kept
<1> SUFFICES ASSUME Inv, [Next]_vars PROVE Inv' /\ Kept
  OBVIOUS
<1>1. CASE ReportStep
  <2>1. UNCHANGED <<notice, sub>>
    <3>1. ASSUME NEW R, NEW kind, NEW dates, NEW moved, WriteReports(R, kind, dates, moved)
          PROVE  UNCHANGED <<notice, sub>>
      BY <3>1 DEF WriteReports, goods
    <3>2. ASSUME NEW r \in Reports, NEW d \in Dates, NEW q \in Qty,
                 CreateEmployeeReport(r, d, q) \/ CreateOperationReport(r, d, q)
          PROVE  UNCHANGED <<notice, sub>>
      BY <3>1, <3>2 DEF CreateEmployeeReport, CreateOperationReport
    <3>3. ASSUME NEW s \in Sessions, NEW r \in Reports, UpdateReportBegin(s, r) \/ RemoveReportBegin(s, r)
          PROVE  UNCHANGED <<notice, sub>>
      BY <3>3 DEF UpdateReportBegin, RemoveReportBegin, goods
    <3>4. ASSUME NEW s \in Sessions, NEW d \in Dates, NEW q \in Qty, UpdateReportCommit(s, d, q)
          PROVE  UNCHANGED <<notice, sub>>
      BY <3>1, <3>4 DEF UpdateReportCommit
    <3>5. ASSUME NEW s \in Sessions, RemoveReportCommit(s) PROVE UNCHANGED <<notice, sub>>
      BY <3>1, <3>5 DEF RemoveReportCommit
    <3> QED
      BY <1>1, <3>2, <3>3, <3>4, <3>5 DEF ReportStep
  <2> QED
    BY <1>1, <2>1, InvOfReportStep, KeptIfSame
<1>2. CASE OrderStep
  <2>1. UNCHANGED <<notice, sub>>
    BY <1>2 DEF OrderStep, ConfirmBegin, ConfirmCommit, Transition, CancelOperation, goods
  <2> QED
    BY <1>2, <2>1, InvOfOrderStep, KeptIfSame
<1>3. CASE NoticeStep
  <2>1. ASSUME NEW s \in Sessions, CreateNoticeBegin(s) PROVE Inv' /\ Kept
    BY <2>1, InvOfOtherBegin DEF CreateNoticeBegin, goods, Kept
  <2>2. ASSUME NEW s \in Sessions, NEW n \in Notices, NEW q \in Qty, CreateNoticeCommit(s, n, q)
        PROVE  Inv' /\ Kept
    <3>1. \A m \in Notices : notice[m].status = "cancelled" => notice'[m] = notice[m]
      BY <2>2 DEF CreateNoticeCommit, Fresh, Inv, TypeOK
    <3> QED
      BY <2>2, <3>1, InvOfNoticeCommit DEF CreateNoticeCommit, Kept
  <2>3. ASSUME NEW n \in Notices, CancelNotice(n) PROVE Inv' /\ Kept
    <3>1. \A m \in Notices : notice[m].status = "cancelled" => notice'[m].status = "cancelled"
      BY <2>3 DEF CancelNotice, Inv, TypeOK, NoticeRows
    <3> QED
      BY <2>3, <3>1, InvOfCancelNotice DEF CancelNotice, Kept
  <2> QED
    BY <1>3, <2>1, <2>2, <2>3 DEF NoticeStep
<1>4. CASE SubmissionStep
  <2>1. ASSUME NEW s \in Sessions, NEW n \in Notices, NEW q \in Qty, CreateSubmissionBegin(s, n, q)
        PROVE  Inv' /\ Kept
    BY <2>1, InvOfOtherBegin DEF CreateSubmissionBegin, goods, Kept
  <2>2. ASSUME NEW s \in Sessions, NEW u \in Submissions, CreateSubmissionCommit(s, u)
        PROVE  Inv' /\ Kept
    <3>1. \A v \in Submissions : sub[v].status = "cancelled" => sub'[v] = sub[v]
      BY <2>2 DEF CreateSubmissionCommit, Fresh, Inv, TypeOK
    <3> QED
      BY <2>2, <3>1, InvOfSubmissionCreated DEF CreateSubmissionCommit, Kept
  <2>3. ASSUME NEW s \in Sessions, NEW u \in Submissions,
               UpdateSubmissionBegin(s, u) \/ SubmitBegin(s, u) \/ CancelSubmissionBegin(s, u)
        PROVE  Inv' /\ Kept
    BY <2>3, InvOfSubmissionBegin DEF UpdateSubmissionBegin, SubmitBegin, CancelSubmissionBegin, goods, Kept
  <2>4. ASSUME NEW s \in Sessions, NEW q \in Qty, UpdateSubmissionCommit(s, q) PROVE Inv' /\ Kept
    <3>1. \A v \in Submissions : sub'[v].status = sub[v].status
      BY <2>4 DEF UpdateSubmissionCommit, Inv, TypeOK, SubmissionRows
    <3> QED
      BY <2>4, <3>1, InvOfSubmissionUpdated DEF UpdateSubmissionCommit, Kept
  <2>5. ASSUME NEW s \in Sessions, SubmissionCommit(s) PROVE Inv' /\ Kept
    BY <2>5, InvOfSubmissionEnded DEF Kept
  <2> QED
    BY <1>4, <2>1, <2>2, <2>3, <2>4, <2>5 DEF SubmissionStep
<1>5. CASE InspectionStep
  <2>1. ASSUME NEW s \in Sessions, NEW u \in Submissions, NEW a \in 0..MaxQty, NEW r \in 0..MaxQty,
               CreateQcBegin(s, u, a, r)
        PROVE  Inv' /\ Kept
    BY <2>1, InvOfOtherBegin DEF CreateQcBegin, goods, Kept
  <2> QED
    BY <1>5, <2>1, InvOfQcCreated DEF InspectionStep, Kept
<1>6. CASE CorrectionStep
  <2>1. ASSUME NEW s \in Sessions, NEW q \in Records, CorrectQcBegin(s, q) PROVE Inv' /\ Kept
    BY <2>1, InvOfOtherBegin DEF CorrectQcBegin, goods, Kept
  <2> QED
    BY <1>6, <2>1, InvOfQcCorrected DEF CorrectionStep, Kept
<1>7. CASE ReceiptStep
  <2>1. ASSUME NEW s \in Sessions, NEW q \in Records, NEW kind \in {"inbound", "defective"}, NEW n \in Qty,
               CreateReceiptBegin(s, q, kind, n)
        PROVE  Inv' /\ Kept
    BY <2>1, InvOfOtherBegin DEF CreateReceiptBegin, goods, Kept
  <2>2. ASSUME NEW s \in Sessions, NEW g \in Receipts, CreateReceiptCommit(s, g) PROVE Inv' /\ Kept
    BY <2>2, InvOfReceiptCreated DEF CreateReceiptCommit, Kept
  <2>3. ASSUME NEW g \in Receipts, PostReceipt(g) \/ ReverseReceipt(g) PROVE Inv' /\ Kept
    BY <2>3, InvOfReceiptMoved DEF PostReceipt, ReverseReceipt, Kept
  <2> QED
    BY <1>7, <2>1, <2>2, <2>3 DEF ReceiptStep
<1>8. ASSUME NEW s \in Sessions, Rollback(s) PROVE Inv' /\ Kept
  <2>1. TypeOK' /\ UNCHANGED docs /\ Done(s)
    BY <1>8, Ended DEF Rollback, Inv, TypeOK, floor, goods, past, docs
  <2> QED
    BY <2>1, DocsKeptAtEnd DEF docs, Kept
<1>9. CASE UNCHANGED vars
  <2>1. UNCHANGED <<floor, goods, job, desk>>
    BY <1>9 DEF vars
  <2>2. TypeOK' /\ UNCHANGED docs /\ UNCHANGED job
    BY <2>1 DEF Inv, TypeOK, floor, goods, past, docs
  <2> QED
    BY <2>2, JobsKept DEF docs, Kept
<1> QED
  BY <1>1, <1>2, <1>3, <1>4, <1>5, <1>6, <1>7, <1>8, <1>9 DEF Next

LEMMA SpecInv == Spec => []Inv
BY InvInit, Step, PTL DEF Spec

(***************************************************************************)
(* The documents and the requests always have their shape.                 *)
(***************************************************************************)
THEOREM ProductionTypes == Spec => []TypeOK
<1>1. Inv => TypeOK
  BY DEF Inv
<1> QED
  BY <1>1, SpecInv, PTL

(***************************************************************************)
(* Cancelling is final, although submit and cancelSubmission refresh the   *)
(* notice without locking it (syncFinishedGoodsInboundNoticeStatus).       *)
(***************************************************************************)
THEOREM CancellationIsFinal == Spec => CancelledStaysCancelled
<1>1. Inv /\ [Next]_vars =>
        [/\ \A n \in Notices : notice[n].status = "cancelled" => notice'[n].status = "cancelled"
         /\ \A u \in Submissions : sub[u].status = "cancelled" => sub'[u].status = "cancelled"]_vars
  BY Step DEF Kept
<1> QED
  BY <1>1, SpecInv, PTL DEF Spec, CancelledStaysCancelled

(***************************************************************************)
(* Goods taken in rest on a standing QC record of a submission that was    *)
(* not withdrawn (correctQc against createInbound, createDefective).       *)
(***************************************************************************)
THEOREM GoodsRestOnQc == Spec => []LiveGoodsHaveQc
<1>1. Inv => LiveGoodsHaveQc
  <2> SUFFICES ASSUME Inv, NEW g \in Receipts, rcpt[g].status \in {"draft", "posted"}
               PROVE  /\ qc[rcpt[g].qc].status = "active"
                      /\ sub[qc[rcpt[g].qc].sub].status \in {"inspecting", "qc_completed"}
    BY DEF LiveGoodsHaveQc
  <2>1. rcpt[g].qc \in Records /\ qc[rcpt[g].qc].status = "active"
    BY DEF Inv, References, Chain
  <2> QED
    BY <2>1 DEF Inv, Chain
<1> QED
  BY <1>1, SpecInv, PTL

-----------------------------------------------------------------------------
(***************************************************************************)
(* Quantities.  Each document is a summand of one stage; a request keeps   *)
(* what it checked because its lock keeps the other summands as they are.  *)
(***************************************************************************)
\* What is handed in fits its notice, with what is being handed in.
HandedInFits ==
    /\ \A n \in Notices : Submitted(n, {}) <= IF OpenNotice(n) THEN notice[n].qty ELSE 0
    /\ \A s \in Sessions : job[s].op = "createSubmission"
         => Submitted(job[s].of, {}) + job[s].qty <= notice[job[s].of].qty
    /\ \A s, t \in Sessions :
         job[s].op = "createSubmission" /\ job[t].op = "createSubmission" => s = t

\* What is inspected fits its submission, with what is being inspected.
InspectedFits ==
    /\ \A u \in Submissions \ late :
         /\ Inspected(ActiveRecords(u)) <= sub[u].qty
         /\ sub[u].status = "qc_completed" => Inspected(ActiveRecords(u)) = sub[u].qty
    /\ \A s \in Sessions : job[s].op = "createQc" /\ job[s].of \notin late
         => Inspected(ActiveRecords(job[s].of)) + job[s].qty + job[s].rejected <= sub[job[s].of].qty

\* What is taken in fits its QC record, with what is being taken in.
TakenFits ==
    /\ \A q \in Records, kind \in {"inbound", "defective"} : Left(q, kind, {}) >= 0
    /\ \A s \in Sessions : job[s].op = "createReceipt"
         => job[s].qty <= Left(job[s].of, job[s].kind, {})
    /\ \A s, t \in Sessions :
         job[s].op = "createReceipt" /\ job[t].op = "createReceipt" /\ job[s].of = job[t].of => s = t

Fits == Notified <= backed /\ HandedInFits /\ InspectedFits /\ TakenFits

-----------------------------------------------------------------------------
\* The sums over each table: numbers, and how one row moves them.
LEMMA SubmittedNat ==
    ASSUME TypeOK, NEW n, NEW except
    PROVE  /\ IsFiniteSet(SubmissionsOf(n)) /\ Submitted(n, except) \in Nat
           /\ \A u \in Submissions : sub[u].qty \in Nat
<1> DEFINE f == [u \in Submissions |-> sub[u].qty]
<1>1. \A u \in Submissions : sub[u].qty \in Nat
  BY DEF TypeOK, SubmissionRows
<1>2. IsFiniteSet(SubmissionsOf(n)) /\ IsFiniteSet(SubmissionsOf(n) \ except)
  <2>1. SubmissionsOf(n) \subseteq Submissions /\ SubmissionsOf(n) \ except \subseteq Submissions
    BY DEF SubmissionsOf
  <2> QED
    BY <2>1, FiniteTables, FS_Subset
<1>3. \A u \in SubmissionsOf(n) \ except : f[u] \in Nat
  BY <1>1 DEF SubmissionsOf
<1> HIDE DEF f
<1>4. SumOf(f, SubmissionsOf(n) \ except) \in Nat
  BY <1>2, <1>3, SumNat
<1> QED
  BY <1>1, <1>2, <1>4 DEF Submitted, f

\* One submission may be counted apart.
SubmittedApart ==
    \A u \in Submissions, n \in Notices :
      Submitted(n, {}) = Submitted(n, {u}) + IF u \in SubmissionsOf(n) THEN sub[u].qty ELSE 0

LEMMA SubmittedWithout == TypeOK => SubmittedApart
<1> SUFFICES ASSUME TypeOK, NEW u \in Submissions, NEW n \in Notices
             PROVE  Submitted(n, {}) = Submitted(n, {u}) + IF u \in SubmissionsOf(n) THEN sub[u].qty ELSE 0
  BY DEF SubmittedApart
<1> DEFINE f == [v \in Submissions |-> sub[v].qty]
           S == SubmissionsOf(n)
<1>1. Submitted(n, {}) = SumOf(f, S) /\ Submitted(n, {u}) = SumOf(f, S \ {u})
  <2>1. S \ {} = S
    OBVIOUS
  <2> QED
    BY <2>1 DEF Submitted
<1>2. /\ IsFiniteSet(S) /\ Submitted(n, {u}) \in Nat /\ \A v \in Submissions : sub[v].qty \in Nat
  BY SubmittedNat
<1>3. S \subseteq Submissions /\ \A v \in Submissions : f[v] = sub[v].qty
  BY DEF SubmissionsOf
<1> HIDE DEF f, S
<1>4. CASE u \in S
  <2>1. \A v \in S : f[v] \in Int
    BY <1>2, <1>3
  <2>2. SumOf(f, S) = f[u] + SumOf(f, S \ {u})
    BY <1>2, <1>4, <2>1, SumOut
  <2> QED
    BY <1>1, <1>2, <1>3, <1>4, <2>2 DEF S
<1>5. CASE u \notin S
  <2>1. S \ {u} = S
    BY <1>5
  <2> QED
    <3>1. Submitted(n, {}) = Submitted(n, {u})
      BY <1>1, <2>1
    <3>2. u \notin SubmissionsOf(n)
      BY <1>5 DEF S
    <3> QED
      BY <1>2, <3>1, <3>2
<1> QED
  BY <1>4, <1>5

LEMMA SubmittedWithoutLater == TypeOK' => SubmittedApart'
BY SubmittedWithout, PTL

LEMMA SubmittedOthers ==
    ASSUME TypeOK, TypeOK', NEW u \in Submissions, NEW n \in Notices,
           \A v \in Submissions \ {u} : sub'[v] = sub[v]
    PROVE  Submitted(n, {u})' = Submitted(n, {u})
<1> DEFINE f == [v \in Submissions |-> sub[v].qty]
           g == [v \in Submissions |-> sub'[v].qty]
           S == SubmissionsOf(n) \ {u}
<1>1. SubmissionsOf(n)' \ {u} = S
  BY DEF SubmissionsOf
<1>2. IsFiniteSet(S) /\ \A v \in S : f[v] \in Int /\ g[v] = f[v]
  <2>1. IsFiniteSet(SubmissionsOf(n))
    BY SubmittedNat
  <2>2. IsFiniteSet(S)
    BY <2>1, FS_Subset
  <2>3. \A v \in S : v \in Submissions \ {u}
    BY DEF SubmissionsOf
  <2>4. \A v \in Submissions : sub[v].qty \in Nat
    BY SubmittedNat
  <2>5. \A v \in S : f[v] = sub[v].qty /\ g[v] = f[v]
    BY <2>3
  <2> QED
    BY <2>2, <2>3, <2>4, <2>5
<1>3. Submitted(n, {u})' = SumOf(g, S) /\ Submitted(n, {u}) = SumOf(f, S)
  BY <1>1 DEF Submitted
<1> HIDE DEF f, g, S
<1> QED
  BY <1>2, <1>3, SumSame

\* One submission changes.
LEMMA SubmittedChange ==
    ASSUME TypeOK, TypeOK', NEW u \in Submissions, NEW n \in Notices,
           \A v \in Submissions \ {u} : sub'[v] = sub[v]
    PROVE  Submitted(n, {})' = Submitted(n, {u}) + IF u \in SubmissionsOf(n)' THEN sub'[u].qty ELSE 0
BY SubmittedWithoutLater, SubmittedOthers DEF SubmittedApart

LEMMA SubmittedKept ==
    ASSUME TypeOK, TypeOK', NEW n, SubmissionsOf(n)' = SubmissionsOf(n),
           \A u \in SubmissionsOf(n) : sub'[u].qty = sub[u].qty
    PROVE  Submitted(n, {})' = Submitted(n, {})
<1> DEFINE f == [v \in Submissions |-> sub[v].qty]
           g == [v \in Submissions |-> sub'[v].qty]
           S == SubmissionsOf(n)
<1>1. Submitted(n, {})' = SumOf(g, S) /\ Submitted(n, {}) = SumOf(f, S)
  <2>1. S \ {} = S /\ SubmissionsOf(n)' \ {} = S
    OBVIOUS
  <2> QED
    BY <2>1 DEF Submitted
<1>2. S \subseteq Submissions
  BY DEF SubmissionsOf
<1>3. IsFiniteSet(S) /\ \A v \in Submissions : sub[v].qty \in Nat
  BY SubmittedNat
<1>4. \A v \in S : f[v] \in Int /\ g[v] = f[v]
  BY <1>2, <1>3
<1> HIDE DEF f, g, S
<1> QED
  BY <1>1, <1>3, <1>4, SumSame

-----------------------------------------------------------------------------
LEMMA RecordNat ==
    ASSUME TypeOK
    PROVE  \A q \in Records : qc[q].accepted \in Nat /\ qc[q].rejected \in Nat
BY DEF TypeOK, RecordRows

LEMMA InspectedNat ==
    ASSUME TypeOK, NEW S \in SUBSET Records
    PROVE  IsFiniteSet(S) /\ Inspected(S) \in Nat
<1> DEFINE f == [q \in Records |-> qc[q].accepted + qc[q].rejected]
<1>1. IsFiniteSet(S)
  BY FiniteTables, FS_Subset
<1>2. \A q \in S : f[q] \in Nat
  BY RecordNat
<1> HIDE DEF f
<1>3. SumOf(f, S) \in Nat
  BY <1>1, <1>2, SumNat
<1> QED
  BY <1>1, <1>3 DEF Inspected, f

\* The records of a submission stay.
LEMMA InspectedKept ==
    ASSUME TypeOK, NEW u, ActiveRecords(u)' = ActiveRecords(u),
           \A q \in ActiveRecords(u) : qc'[q] = qc[q]
    PROVE  Inspected(ActiveRecords(u))' = Inspected(ActiveRecords(u))
<1> DEFINE f == [q \in Records |-> qc[q].accepted + qc[q].rejected]
           g == [q \in Records |-> qc'[q].accepted + qc'[q].rejected]
           S == ActiveRecords(u)
<1>1. Inspected(ActiveRecords(u))' = SumOf(g, S) /\ Inspected(ActiveRecords(u)) = SumOf(f, S)
  BY DEF Inspected
<1>2. S \in SUBSET Records
  BY DEF ActiveRecords
<1>3. IsFiniteSet(S)
  BY <1>2, InspectedNat
<1>4. \A q \in S : f[q] \in Int /\ g[q] = f[q]
  <2> SUFFICES ASSUME NEW q \in S PROVE f[q] \in Int /\ g[q] = f[q]
    OBVIOUS
  <2>1. q \in Records /\ qc'[q] = qc[q] /\ qc[q].accepted \in Nat /\ qc[q].rejected \in Nat
    BY <1>2, RecordNat
  <2> QED
    BY <2>1
<1> HIDE DEF f, g, S
<1> QED
  BY <1>1, <1>3, <1>4, SumSame

\* A record joins those of a submission that stay.
LEMMA InspectedAdds ==
    ASSUME TypeOK, TypeOK', NEW u, NEW S \in SUBSET Records, NEW q \in Records, q \notin S,
           ActiveRecords(u)' = S \cup {q}, \A p \in S : qc'[p] = qc[p]
    PROVE  Inspected(ActiveRecords(u))' = Inspected(S) + qc'[q].accepted + qc'[q].rejected
<1> DEFINE f == [p \in Records |-> qc[p].accepted + qc[p].rejected]
           g == [p \in Records |-> qc'[p].accepted + qc'[p].rejected]
<1>1. Inspected(ActiveRecords(u))' = SumOf(g, S \cup {q}) /\ Inspected(S) = SumOf(f, S)
  BY DEF Inspected
<1>2. IsFiniteSet(S) /\ Inspected(S) \in Nat
  BY InspectedNat
<1>3. \A p \in S : f[p] \in Int /\ g[p] = f[p]
  <2> SUFFICES ASSUME NEW p \in S PROVE f[p] \in Int /\ g[p] = f[p]
    OBVIOUS
  <2>1. p \in Records /\ qc'[p] = qc[p] /\ qc[p].accepted \in Nat /\ qc[p].rejected \in Nat
    BY RecordNat
  <2> QED
    BY <2>1
<1>4. qc'[q].accepted \in Nat /\ qc'[q].rejected \in Nat /\ g[q] = qc'[q].accepted + qc'[q].rejected
  BY DEF TypeOK, RecordRows
<1> HIDE DEF f, g
<1>5. SumOf(g, S) = SumOf(f, S)
  BY <1>2, <1>3, SumSame
<1>6. \A p \in S \cup {q} : g[p] \in Int
  BY <1>3, <1>4
<1>7. SumOf(g, S \cup {q}) = g[q] + SumOf(g, S)
  BY <1>2, <1>6, SumAdd
<1> QED
  BY <1>1, <1>2, <1>4, <1>5, <1>7

-----------------------------------------------------------------------------
\* Goods of one kind taken in of a record.
Taken(q, kind, except) ==
    SumOf([g \in Receipts |-> rcpt[g].qty], {g \in GoodsOf(q) \ except : rcpt[g].kind = kind})

Counts(g, q, kind) == g \in GoodsOf(q) /\ rcpt[g].kind = kind

Accounted(q, kind) == IF kind = "inbound" THEN qc[q].accepted ELSE qc[q].rejected

LEMMA LeftIs ==
    ASSUME NEW q, NEW kind, NEW except
    PROVE  Left(q, kind, except) = Accounted(q, kind) - Taken(q, kind, except)
BY DEF Left, Accounted, Taken

LEMMA LeftIsLater ==
    ASSUME NEW q, NEW kind
    PROVE  Left(q, kind, {})' = Accounted(q, kind)' - Taken(q, kind, {})'
BY DEF Left, Accounted, Taken

LEMMA TakenNat ==
    ASSUME TypeOK, NEW q, NEW kind, NEW except
    PROVE  Taken(q, kind, except) \in Nat /\ \A g \in Receipts : rcpt[g].qty \in Nat
<1> DEFINE f == [g \in Receipts |-> rcpt[g].qty]
           S == {g \in GoodsOf(q) \ except : rcpt[g].kind = kind}
<1>1. \A g \in Receipts : rcpt[g].qty \in Nat
  BY DEF TypeOK, ReceiptRows
<1>2. S \subseteq Receipts
  BY DEF GoodsOf
<1>3. IsFiniteSet(S)
  BY <1>2, FiniteTables, FS_Subset
<1>4. \A g \in S : f[g] \in Nat
  BY <1>1, <1>2
<1>5. Taken(q, kind, except) = SumOf(f, S)
  BY DEF Taken
<1> HIDE DEF f, S
<1> QED
  BY <1>1, <1>3, <1>4, <1>5, SumNat

TakenApart ==
    \A g \in Receipts, q \in Records, kind \in {"inbound", "defective"} :
      Taken(q, kind, {}) = Taken(q, kind, {g}) + IF Counts(g, q, kind) THEN rcpt[g].qty ELSE 0

LEMMA TakenWithout == TypeOK => TakenApart
<1> SUFFICES ASSUME TypeOK, NEW g \in Receipts, NEW q \in Records, NEW kind \in {"inbound", "defective"}
             PROVE  Taken(q, kind, {}) = Taken(q, kind, {g}) + IF Counts(g, q, kind) THEN rcpt[g].qty ELSE 0
  BY DEF TakenApart
<1> DEFINE f == [h \in Receipts |-> rcpt[h].qty]
           S == {h \in GoodsOf(q) : rcpt[h].kind = kind}
<1>1. Taken(q, kind, {}) = SumOf(f, S) /\ Taken(q, kind, {g}) = SumOf(f, S \ {g})
  <2>1. {h \in GoodsOf(q) \ {} : rcpt[h].kind = kind} = S
        /\ {h \in GoodsOf(q) \ {g} : rcpt[h].kind = kind} = S \ {g}
    OBVIOUS
  <2> QED
    BY <2>1 DEF Taken
<1>2. S \subseteq Receipts /\ (g \in S <=> Counts(g, q, kind))
  BY DEF GoodsOf, Counts
<1>3. IsFiniteSet(S)
  BY <1>2, FiniteTables, FS_Subset
<1>4. (\A h \in Receipts : f[h] = rcpt[h].qty /\ rcpt[h].qty \in Nat) /\ Taken(q, kind, {g}) \in Nat
  BY TakenNat
<1> HIDE DEF f, S
<1>5. CASE g \in S
  <2>1. \A h \in S : f[h] \in Int
    BY <1>2, <1>4
  <2>2. SumOf(f, S) = f[g] + SumOf(f, S \ {g})
    BY <1>3, <1>5, <2>1, SumOut
  <2> QED
    BY <1>1, <1>2, <1>4, <1>5, <2>2
<1>6. CASE g \notin S
  <2>1. S \ {g} = S
    BY <1>6
  <2>2. Taken(q, kind, {}) = Taken(q, kind, {g})
    BY <1>1, <2>1
  <2> QED
    BY <1>2, <1>4, <1>6, <2>2
<1> QED
  BY <1>5, <1>6

LEMMA TakenWithoutLater == TypeOK' => TakenApart'
BY TakenWithout, PTL

LEMMA TakenOthers ==
    ASSUME TypeOK, NEW g, NEW q, NEW kind,
           \A h \in Receipts \ {g} : rcpt'[h] = rcpt[h]
    PROVE  Taken(q, kind, {g})' = Taken(q, kind, {g})
<1> DEFINE f == [h \in Receipts |-> rcpt[h].qty]
           e == [h \in Receipts |-> rcpt'[h].qty]
           S == {h \in GoodsOf(q) \ {g} : rcpt[h].kind = kind}
<1>1. {h \in GoodsOf(q)' \ {g} : rcpt'[h].kind = kind} = S
  BY DEF GoodsOf
<1>2. S \subseteq Receipts \ {g}
  BY DEF GoodsOf
<1>3. IsFiniteSet(S) /\ \A h \in Receipts : rcpt[h].qty \in Nat
  BY <1>2, FiniteTables, FS_Subset, TakenNat
<1>4. \A h \in S : f[h] \in Int /\ e[h] = f[h]
  <2> SUFFICES ASSUME NEW h \in S PROVE f[h] \in Int /\ e[h] = f[h]
    OBVIOUS
  <2>1. h \in Receipts /\ rcpt'[h] = rcpt[h] /\ rcpt[h].qty \in Nat
    BY <1>2, <1>3
  <2> QED
    BY <2>1
<1>5. Taken(q, kind, {g})' = SumOf(e, S) /\ Taken(q, kind, {g}) = SumOf(f, S)
  BY <1>1 DEF Taken
<1> HIDE DEF f, e, S
<1> QED
  BY <1>3, <1>4, <1>5, SumSame

\* One receipt changes.
LEMMA TakenChange ==
    ASSUME TypeOK, TypeOK', NEW g \in Receipts, NEW q \in Records, NEW kind \in {"inbound", "defective"},
           \A h \in Receipts \ {g} : rcpt'[h] = rcpt[h]
    PROVE  Taken(q, kind, {})' = Taken(q, kind, {g}) + IF Counts(g, q, kind)' THEN rcpt'[g].qty ELSE 0
<1>1. Taken(q, kind, {})' = Taken(q, kind, {g})' + IF Counts(g, q, kind)' THEN rcpt'[g].qty ELSE 0
  BY TakenWithoutLater DEF TakenApart, Counts
<1>2. Taken(q, kind, {g})' = Taken(q, kind, {g})
  BY TakenOthers
<1> QED
  BY <1>1, <1>2

LEMMA NotifiedNat ==
    ASSUME TypeOK
    PROVE  Notified \in Nat /\ \A n \in Notices : notice[n].qty \in Nat
<1> DEFINE f == [n \in Notices |-> notice[n].qty]
           S == {n \in Notices : OpenNotice(n)}
<1>1. \A n \in Notices : notice[n].qty \in Nat
  BY DEF TypeOK, NoticeRows
<1>2. IsFiniteSet(S) /\ \A n \in S : f[n] \in Nat
  BY <1>1, FiniteTables, FS_Subset
<1>3. Notified = SumOf(f, S)
  BY DEF Notified
<1> HIDE DEF f, S
<1> QED
  BY <1>1, <1>2, <1>3, SumNat

\* A notice is opened, or an open one is cancelled.
LEMMA NotifiedOpened ==
    ASSUME TypeOK, TypeOK', NEW n \in Notices, ~ OpenNotice(n), OpenNotice(n)',
           \A m \in Notices \ {n} : notice'[m] = notice[m]
    PROVE  Notified' = Notified + notice'[n].qty
<1> DEFINE f == [m \in Notices |-> notice[m].qty]
           g == [m \in Notices |-> notice'[m].qty]
           S == {m \in Notices : OpenNotice(m)}
<1>1. {m \in Notices : OpenNotice(m)}' = S \cup {n}
  BY DEF OpenNotice
<1>2. Notified = SumOf(f, S) /\ Notified' = SumOf(g, S \cup {n})
  BY <1>1 DEF Notified
<1>3. S \subseteq Notices /\ n \notin S
  OBVIOUS
<1>4. IsFiniteSet(S) /\ Notified \in Nat /\ \A m \in Notices : notice[m].qty \in Nat
  BY <1>3, FiniteTables, FS_Subset, NotifiedNat
<1>5. g[n] = notice'[n].qty /\ notice'[n].qty \in Nat
  BY DEF TypeOK, NoticeRows
<1>6. \A m \in S : f[m] \in Int /\ g[m] = f[m]
  <2> SUFFICES ASSUME NEW m \in S PROVE f[m] \in Int /\ g[m] = f[m]
    OBVIOUS
  <2>1. m \in Notices /\ notice'[m] = notice[m] /\ notice[m].qty \in Nat
    BY <1>3, <1>4
  <2> QED
    BY <2>1
<1> HIDE DEF f, g, S
<1>7. SumOf(g, S) = SumOf(f, S)
  BY <1>4, <1>6, SumSame
<1>8. SumOf(g, S \cup {n}) = g[n] + SumOf(g, S)
  <2>1. \A m \in S \cup {n} : g[m] \in Int
    BY <1>5, <1>6
  <2> QED
    BY <1>3, <1>4, <2>1, SumAdd
<1> QED
  BY <1>2, <1>4, <1>5, <1>7, <1>8

LEMMA NotifiedCancelled ==
    ASSUME TypeOK, NEW n \in Notices, ~ OpenNotice(n)',
           \A m \in Notices \ {n} : notice'[m] = notice[m]
    PROVE  Notified' <= Notified
<1> DEFINE f == [m \in Notices |-> notice[m].qty]
           g == [m \in Notices |-> notice'[m].qty]
           S == {m \in Notices : OpenNotice(m)}
           T == S \ {n}
<1>1. {m \in Notices : OpenNotice(m)}' = T
  BY DEF OpenNotice
<1>2. Notified = SumOf(f, S) /\ Notified' = SumOf(g, T)
  BY <1>1 DEF Notified
<1>3. S \subseteq Notices /\ T \in SUBSET S /\ T \subseteq Notices \ {n}
  OBVIOUS
<1>4. IsFiniteSet(S) /\ IsFiniteSet(T) /\ \A m \in Notices : notice[m].qty \in Nat
  BY <1>3, FiniteTables, FS_Subset, NotifiedNat
<1>5. \A m \in S : f[m] \in Nat
  BY <1>3, <1>4
<1>6. \A m \in T : f[m] \in Int /\ g[m] = f[m]
  <2> SUFFICES ASSUME NEW m \in T PROVE f[m] \in Int /\ g[m] = f[m]
    OBVIOUS
  <2>1. m \in Notices /\ notice'[m] = notice[m] /\ notice[m].qty \in Nat
    BY <1>3, <1>4
  <2> QED
    BY <2>1
<1> HIDE DEF f, g, S, T
<1>7. SumOf(g, T) = SumOf(f, T)
  BY <1>4, <1>6, SumSame
<1>8. SumOf(f, T) <= SumOf(f, S)
  BY <1>3, <1>4, <1>5, SumSubset
<1> QED
  BY <1>2, <1>7, <1>8

-----------------------------------------------------------------------------
\* What a step that leaves a table alone does to its stage.
Stays(op) == \A s \in Sessions : job'[s] = job[s] \/ job'[s].op # op

LEMMA NoticesStay ==
    ASSUME UNCHANGED <<notice, backed>>, Notified <= backed PROVE Notified' <= backed'
<1>1. Notified' = Notified
  BY DEF Notified, OpenNotice
<1> QED
  BY <1>1

LEMMA HandedInStays ==
    ASSUME UNCHANGED notice, HandedInFits, Stays("createSubmission"),
           \A n \in Notices : Submitted(n, {})' = Submitted(n, {}),
           \A s \in Sessions : InFlight(s)
    PROVE  HandedInFits'
<1>1. \A n \in Notices : OpenNotice(n)' = OpenNotice(n)
  BY DEF OpenNotice
<1>2. \A n \in Notices : Submitted(n, {})' <= IF OpenNotice(n)' THEN notice'[n].qty ELSE 0
  BY <1>1 DEF HandedInFits
<1>3. \A s \in Sessions : job'[s].op = "createSubmission" => job'[s] = job[s] /\ job[s].of \in Notices
  BY DEF Stays, InFlight
<1>4. ASSUME NEW s \in Sessions, job'[s].op = "createSubmission", NEW n \in Notices, n = job'[s].of
      PROVE  Submitted(n, {})' + job'[s].qty <= notice'[n].qty
  BY <1>3, <1>4 DEF HandedInFits
<1> QED
  BY <1>2, <1>3, <1>4 DEF HandedInFits

LEMMA InspectedStays ==
    ASSUME InspectedFits, Stays("createQc"), late \subseteq late',
           \A u \in Submissions \ late' :
             /\ Inspected(ActiveRecords(u))' = Inspected(ActiveRecords(u))
             /\ sub'[u].qty = sub[u].qty
             /\ sub'[u].status = "qc_completed" => sub[u].status = "qc_completed",
           \A s \in Sessions : InFlight(s)
    PROVE  InspectedFits'
<1>1. \A s \in Sessions : job'[s].op = "createQc" => job'[s] = job[s] /\ job[s].of \in Submissions
  BY DEF Stays, InFlight
<1>2. ASSUME NEW u \in Submissions \ late'
      PROVE  /\ Inspected(ActiveRecords(u))' <= sub'[u].qty
             /\ sub'[u].status = "qc_completed" => Inspected(ActiveRecords(u))' = sub'[u].qty
  BY <1>2 DEF InspectedFits
<1>3. ASSUME NEW s \in Sessions, job'[s].op = "createQc", NEW u \in Submissions \ late', u = job'[s].of
      PROVE  Inspected(ActiveRecords(u))' + job'[s].qty + job'[s].rejected <= sub'[u].qty
  BY <1>1, <1>3 DEF InspectedFits
<1> QED
  BY <1>1, <1>2, <1>3 DEF InspectedFits

LEMMA TakenStays ==
    ASSUME TakenFits, Stays("createReceipt"),
           \A q \in Records, kind \in {"inbound", "defective"} :
             \/ Left(q, kind, {})' >= Left(q, kind, {})
             \/ qc[q].status # "active" /\ Left(q, kind, {})' >= 0,
           \A q \in Records, kind \in {"inbound", "defective"} : Left(q, kind, {}) \in Int /\ Left(q, kind, {})' \in Int,
           TypeOK, \A s \in Sessions : InFlight(s)
    PROVE  TakenFits'
<1>1. \A s \in Sessions : job'[s].op = "createReceipt"
         => job'[s] = job[s] /\ job[s].of \in Records /\ qc[job[s].of].status = "active" /\ job[s].kind \in {"inbound", "defective"}
  BY DEF Stays, InFlight
<1>2. \A q \in Records, kind \in {"inbound", "defective"} : Left(q, kind, {})' >= 0
  BY DEF TakenFits
<1>3. ASSUME NEW s \in Sessions, job'[s].op = "createReceipt",
             NEW q \in Records, q = job'[s].of,
             NEW kind \in {"inbound", "defective"}, kind = job'[s].kind
      PROVE  job'[s].qty <= Left(q, kind, {})'
  <2>1. job[s].qty <= Left(q, kind, {})
    BY <1>1, <1>3 DEF TakenFits
  <2>2. job[s].qty \in Int
    BY DEF TypeOK, Jobs
  <2>3. Left(q, kind, {})' >= Left(q, kind, {}) /\ Left(q, kind, {}) \in Int /\ Left(q, kind, {})' \in Int
    BY <1>1, <1>3
  <2> QED
    BY <1>1, <1>3, <2>1, <2>2, <2>3
<1>4. \A s, t \in Sessions :
         job'[s].op = "createReceipt" /\ job'[t].op = "createReceipt" /\ job'[s].of = job'[t].of => s = t
  BY <1>1 DEF TakenFits
<1> QED
  BY <1>1, <1>2, <1>3, <1>4 DEF TakenFits

LeftTyped == \A q \in Records, kind \in {"inbound", "defective"} : Left(q, kind, {}) \in Int

LEMMA LeftIsTyped == TypeOK => LeftTyped
<1> SUFFICES ASSUME TypeOK, NEW q \in Records, NEW kind \in {"inbound", "defective"}
             PROVE  Left(q, kind, {}) \in Int
  BY DEF LeftTyped
<1>1. Accounted(q, kind) \in Nat /\ Taken(q, kind, {}) \in Nat
  BY RecordNat, TakenNat DEF Accounted
<1> QED
  BY <1>1, LeftIs

NotifiedTyped == Notified \in Nat

LEMMA NotifiedIsTyped == TypeOK => NotifiedTyped
BY NotifiedNat DEF NotifiedTyped

LEMMA NotifiedStaysTyped == TypeOK' => NotifiedTyped'
BY NotifiedIsTyped, PTL

SubmittedTyped == \A n \in Notices : Submitted(n, {}) \in Nat

LEMMA SubmittedIsTyped == TypeOK => SubmittedTyped
BY SubmittedNat DEF SubmittedTyped

LEMMA SubmittedStaysTyped == TypeOK' => SubmittedTyped'
BY SubmittedIsTyped, PTL

LEMMA LeftStaysTyped == TypeOK' => LeftTyped'
BY LeftIsTyped, PTL

\* Sums over a table that stays.
LEMMA SubmittedSame ==
    ASSUME UNCHANGED sub PROVE \A n : Submitted(n, {})' = Submitted(n, {})
BY DEF Submitted, SubmissionsOf

LEMMA InspectedSame ==
    ASSUME UNCHANGED qc PROVE \A u : Inspected(ActiveRecords(u))' = Inspected(ActiveRecords(u))
BY DEF Inspected, ActiveRecords

LEMMA LeftSame ==
    ASSUME UNCHANGED <<qc, rcpt>> PROVE \A q, kind : Left(q, kind, {})' = Left(q, kind, {})
BY DEF Left, GoodsOf

\* Stages whose tables a step leaves alone.
LEMMA HandedInKept ==
    ASSUME Inv, HandedInFits, UNCHANGED <<notice, sub>>, Stays("createSubmission")
    PROVE  HandedInFits'
BY SubmittedSame, HandedInStays DEF Inv

LEMMA InspectedKeptAll ==
    ASSUME Inv, InspectedFits, UNCHANGED <<sub, qc, late>>, Stays("createQc")
    PROVE  InspectedFits'
BY InspectedSame, InspectedStays DEF Inv

LEMMA TakenKeptAll ==
    ASSUME Inv, Inv', TakenFits, UNCHANGED <<qc, rcpt>>, Stays("createReceipt")
    PROVE  TakenFits'
<1>1. \A q \in Records, kind \in {"inbound", "defective"} :
        Left(q, kind, {}) \in Int /\ Left(q, kind, {})' \in Int /\ Left(q, kind, {})' = Left(q, kind, {})
  BY LeftSame, LeftIsTyped, LeftStaysTyped DEF Inv, LeftTyped
<1> QED
  BY <1>1, TakenStays DEF Inv

Entering == {"createSubmission", "createQc", "createReceipt"}

\* A step that leaves the documents alone, and starts no request that adds to them.
LEMMA QuietFits ==
    ASSUME Inv, Inv', Fits, UNCHANGED <<docs, past>>,
           \A s \in Sessions : job'[s] = job[s] \/ job'[s].op \notin Entering
    PROVE  Fits'
<1>1. UNCHANGED <<notice, sub, qc, rcpt, late, backed>>
  BY DEF docs, past
<1>2. Stays("createSubmission") /\ Stays("createQc") /\ Stays("createReceipt")
  BY DEF Stays, Entering
<1> QED
  BY <1>1, <1>2, NoticesStay, HandedInKept, InspectedKeptAll, TakenKeptAll DEF Fits

LEMMA DoneStays ==
    ASSUME TypeOK, NEW s \in Sessions, Done(s), NEW op, op # "idle" PROVE Stays(op)
BY Ended, IdleJob DEF Stays

LEMMA StartStays ==
    ASSUME TypeOK, NEW s \in Sessions, NEW request \in Jobs, Start(s, request),
           NEW op, request.op # op
    PROVE  Stays(op)
BY Started DEF Stays

-----------------------------------------------------------------------------
\* Notices.
LEMMA FitsAfterNotice ==
    ASSUME Inv, Inv', Fits, NEW s \in Sessions, NEW n \in Notices, NEW q \in Qty, CreateNoticeCommit(s, n, q)
    PROVE  Fits'
<1> USE DEF Inv
<1>1. /\ Done(s) /\ notice[n].status = "none" /\ UNCHANGED <<sub, qc, rcpt, late>>
      /\ q <= PackagingReported(rep) - Notified /\ backed' = PackagingReported(rep)
      /\ notice' = [notice EXCEPT ![n] = [status |-> "open", qty |-> q]]
  BY DEF CreateNoticeCommit, Fresh
<1>2. /\ notice'[n].status = "open" /\ notice'[n].qty = q
      /\ \A m \in Notices \ {n} : notice'[m] = notice[m]
  BY <1>1 DEF TypeOK
<1>3. Stays("createSubmission") /\ Stays("createQc") /\ Stays("createReceipt")
  BY <1>1, DoneStays
<1>4. Notified' <= backed'
  <2>1. ~ OpenNotice(n) /\ OpenNotice(n)'
    BY <1>1, <1>2 DEF OpenNotice
  <2>2. Notified' = Notified + q
    BY <1>2, <2>1, NotifiedOpened
  <2>3. Notified \in Nat /\ PackagingReported(rep) \in Nat /\ q \in Nat
    BY NotifiedNat, ReportedNat, Quantities DEF TypeOK, Qty
  <2> QED
    BY <1>1, <2>2, <2>3
<1>5. \A m \in Notices : Submitted(m, {})' = Submitted(m, {})
  BY <1>1, SubmittedSame
<1>6. HandedInFits'
  <2>1. ASSUME NEW m \in Notices
        PROVE  Submitted(m, {})' <= IF OpenNotice(m)' THEN notice'[m].qty ELSE 0
    <3>1. Submitted(m, {}) <= IF OpenNotice(m) THEN notice[m].qty ELSE 0
      BY DEF Fits, HandedInFits
    <3>2. CASE m # n
      BY <1>2, <1>5, <3>1, <3>2 DEF OpenNotice
    <3>3. CASE m = n
      <4>1. Submitted(m, {}) <= 0 /\ Submitted(m, {}) \in Nat /\ q >= 0
        BY <1>1, <3>1, <3>3, SubmittedNat, Quantities DEF OpenNotice, Qty
      <4> QED
        BY <1>2, <1>5, <3>3, <4>1, Quantities DEF OpenNotice, Qty
    <3> QED
      BY <3>2, <3>3
  <2>2. ASSUME NEW t \in Sessions PROVE job'[t].op # "createSubmission"
    BY <1>1, Ended, IdleJob DEF CreateNoticeCommit, OrderLocked
  <2> QED
    BY <2>1, <2>2 DEF HandedInFits
<1>7. InspectedFits' /\ TakenFits'
  BY <1>1, <1>3, InspectedKeptAll, TakenKeptAll DEF Fits
<1> QED
  BY <1>4, <1>6, <1>7 DEF Fits

LEMMA FitsAfterCancelling ==
    ASSUME Inv, Inv', Fits, NEW n \in Notices, CancelNotice(n)
    PROVE  Fits'
<1> USE DEF Inv
<1>1. /\ UNCHANGED <<sub, qc, rcpt, late, backed, job>> /\ ~ OrderLocked /\ SubmissionsOf(n) = {}
      /\ notice' = [notice EXCEPT ![n].status = "cancelled"]
  BY DEF CancelNotice, past
<1>2. notice'[n].status = "cancelled" /\ \A m \in Notices \ {n} : notice'[m] = notice[m]
  BY <1>1 DEF TypeOK, NoticeRows
<1>3. Stays("createSubmission") /\ Stays("createQc") /\ Stays("createReceipt")
  BY <1>1 DEF Stays
<1>4. Notified' <= backed'
  <2>1. Notified' <= Notified
    BY <1>2, NotifiedCancelled DEF OpenNotice
  <2>2. Notified \in Nat /\ Notified <= backed /\ backed' \in Nat /\ backed' = backed
    BY <1>1, NotifiedNat DEF Fits, TypeOK
  <2>3. Notified' \in Nat
    BY NotifiedStaysTyped DEF NotifiedTyped
  <2> QED
    BY <2>1, <2>2, <2>3
<1>5. \A m \in Notices : Submitted(m, {})' = Submitted(m, {})
  BY <1>1, SubmittedSame
<1>6. HandedInFits'
  <2>1. ASSUME NEW m \in Notices
        PROVE  Submitted(m, {})' <= IF OpenNotice(m)' THEN notice'[m].qty ELSE 0
    <3>1. Submitted(m, {}) <= IF OpenNotice(m) THEN notice[m].qty ELSE 0
      BY DEF Fits, HandedInFits
    <3>2. CASE m # n
      BY <1>2, <1>5, <3>1, <3>2 DEF OpenNotice
    <3>3. CASE m = n
      <4>1. SubmissionsOf(n) \ {} = {}
        BY <1>1
      <4>2. Submitted(n, {}) = 0
        BY <4>1, SumEmpty DEF Submitted
      <4> QED
        BY <1>2, <1>5, <3>3, <4>2 DEF OpenNotice
    <3> QED
      BY <3>2, <3>3
  <2>2. \A t \in Sessions : job'[t].op # "createSubmission"
    BY <1>1 DEF OrderLocked
  <2> QED
    BY <2>1, <2>2 DEF HandedInFits
<1>7. InspectedFits' /\ TakenFits'
  BY <1>1, <1>3, InspectedKeptAll, TakenKeptAll DEF Fits
<1> QED
  BY <1>4, <1>6, <1>7 DEF Fits

\* Submissions.
LEMMA FitsAfterSubmissionBegin ==
    ASSUME Inv, Inv', Fits, NEW s \in Sessions, NEW n \in Notices, NEW q \in Qty, CreateSubmissionBegin(s, n, q)
    PROVE  Fits'
<1> USE DEF Inv
<1> DEFINE request == [Idle EXCEPT !.op = "createSubmission", !.of = n, !.qty = q]
<1>1. Start(s, request) /\ UNCHANGED <<notice, sub, qc, rcpt, late, backed>> /\ q <= NoticeAvailable(n, {}) /\ ~ OrderLocked
  BY DEF CreateSubmissionBegin, goods, past
<1>2. request \in Jobs /\ request.op = "createSubmission" /\ request.of = n /\ request.qty = q
  BY NoDocNoId, Quantities DEF Jobs, Idle
<1> HIDE DEF request
<1>3. job'[s] = request /\ \A t \in Sessions \ {s} : job'[t] = job[t]
  BY <1>1, <1>2, Started
<1>4. Stays("createQc") /\ Stays("createReceipt")
  BY <1>2, <1>3 DEF Stays
<1>5. OpenNotice(n) /\ Submitted(n, {}) + q <= notice[n].qty
  <2>1. OpenNotice(n)
    BY <1>1, OpenWhenAvailable
  <2>2. Submitted(n, {}) \in Nat /\ notice[n].qty \in Nat /\ q \in Nat
    BY SubmittedNat, NotifiedNat, Quantities DEF Qty
  <2> QED
    BY <1>1, <2>1, <2>2 DEF NoticeAvailable
<1>6. \A m \in Notices : Submitted(m, {})' = Submitted(m, {}) /\ OpenNotice(m)' = OpenNotice(m)
  BY <1>1, SubmittedSame DEF OpenNotice
<1>7. HandedInFits'
  <2>1. \A m \in Notices : Submitted(m, {})' <= IF OpenNotice(m)' THEN notice'[m].qty ELSE 0
    BY <1>1, <1>6 DEF Fits, HandedInFits
  <2>2. \A t \in Sessions : job'[t].op = "createSubmission" => t = s
    BY <1>1, <1>3 DEF OrderLocked
  <2>3. Submitted(n, {})' + q <= notice'[n].qty
    BY <1>1, <1>5, <1>6
  <2>4. job'[s].of = n /\ job'[s].qty = q
    BY <1>2, <1>3
  <2> QED
    BY <2>1, <2>2, <2>3, <2>4 DEF HandedInFits
<1> QED
  BY <1>1, <1>4, <1>7, NoticesStay, InspectedKeptAll, TakenKeptAll DEF Fits

LEMMA FitsAfterSubmission ==
    ASSUME Inv, Inv', Fits, NEW s \in Sessions, NEW u \in Submissions, CreateSubmissionCommit(s, u)
    PROVE  Fits'
<1> USE DEF Inv
<1> DEFINE row == [status |-> "draft", notice |-> job[s].of, qty |-> job[s].qty]
<1>1. /\ Done(s) /\ sub[u].status = "none" /\ UNCHANGED <<notice, qc, rcpt, late, backed>>
      /\ sub' = [sub EXCEPT ![u] = row] /\ job[s].op = "createSubmission"
  BY DEF CreateSubmissionCommit, Fresh, Working, past
<1>2. sub'[u] = row /\ \A v \in Submissions \ {u} : sub'[v] = sub[v]
  BY <1>1 DEF TypeOK
<1>3. row.status = "draft" /\ row.notice = job[s].of /\ row.qty = job[s].qty
  OBVIOUS
<1> HIDE DEF row
<1>4. Stays("createQc") /\ Stays("createReceipt")
  BY <1>1, DoneStays
<1>5. \A m \in Notices : Submitted(m, {})' = Submitted(m, {}) + IF m = job[s].of THEN job[s].qty ELSE 0
  <2> SUFFICES ASSUME NEW m \in Notices
               PROVE  Submitted(m, {})' = Submitted(m, {}) + IF m = job[s].of THEN job[s].qty ELSE 0
    OBVIOUS
  <2>1. Submitted(m, {})' = Submitted(m, {u}) + IF u \in SubmissionsOf(m)' THEN sub'[u].qty ELSE 0
    BY <1>2, SubmittedChange
  <2>2. u \in SubmissionsOf(m)' <=> m = job[s].of
    BY <1>2, <1>3 DEF SubmissionsOf
  <2>3. u \notin SubmissionsOf(m)
    BY <1>1 DEF SubmissionsOf
  <2>4. Submitted(m, {}) = Submitted(m, {u})
    <3>1. Submitted(m, {u}) \in Nat
      BY SubmittedNat
    <3>2. Submitted(m, {}) = Submitted(m, {u}) + IF u \in SubmissionsOf(m) THEN sub[u].qty ELSE 0
      BY SubmittedWithout DEF SubmittedApart
    <3> QED
      BY <2>3, <3>1, <3>2
  <2> QED
    BY <1>2, <1>3, <2>1, <2>2, <2>4
<1>6. HandedInFits'
  <2>1. \A t \in Sessions : job'[t].op # "createSubmission"
    <3>1. \A t \in Sessions \ {s} : job[t].op # "createSubmission"
      BY <1>1 DEF Fits, HandedInFits
    <3> QED
      BY <1>1, <3>1, Ended, IdleJob
  <2>2. ASSUME NEW m \in Notices
        PROVE  Submitted(m, {})' <= IF OpenNotice(m)' THEN notice'[m].qty ELSE 0
    <3>1. OpenNotice(m)' = OpenNotice(m) /\ notice' = notice /\ Submitted(m, {}) \in Nat
      BY <1>1, SubmittedNat DEF OpenNotice
    <3>2. CASE m = job[s].of
      <4>1. OpenNotice(m) /\ Submitted(m, {}) + job[s].qty <= notice[m].qty
        BY <1>1, <3>2 DEF Fits, HandedInFits, InFlight
      <4> QED
        BY <1>5, <3>1, <3>2, <4>1
    <3>3. CASE m # job[s].of
      <4>1. Submitted(m, {})' = Submitted(m, {})
        BY <1>5, <3>1, <3>3
      <4> QED
        BY <3>1, <4>1 DEF Fits, HandedInFits
    <3> QED
      BY <3>2, <3>3
  <2> QED
    BY <2>1, <2>2 DEF HandedInFits
<1>7. InspectedFits'
  <2>1. \A v \in Submissions \ late' :
          /\ Inspected(ActiveRecords(v))' = Inspected(ActiveRecords(v))
          /\ v # u => sub'[v] = sub[v]
    BY <1>1, <1>2, InspectedSame
  <2>2. ActiveRecords(u) = {}
    BY <1>1 DEF ActiveRecords, Chain
  <2>3. Inspected(ActiveRecords(u)) = 0
    BY <2>2, SumEmpty DEF Inspected
  <2>4. sub'[u].qty \in Nat /\ sub'[u].status = "draft"
    BY <1>2, <1>3 DEF TypeOK, SubmissionRows
  <2>5. \A v \in Submissions \ late' :
          /\ Inspected(ActiveRecords(v))' <= sub'[v].qty
          /\ sub'[v].status = "qc_completed" => Inspected(ActiveRecords(v))' = sub'[v].qty
    BY <1>1, <2>1, <2>3, <2>4 DEF Fits, InspectedFits
  <2>6. ASSUME NEW t \in Sessions, job'[t].op = "createQc", NEW v \in Submissions \ late', v = job'[t].of
        PROVE  Inspected(ActiveRecords(v))' + job'[t].qty + job'[t].rejected <= sub'[v].qty
    <3>1. job'[t] = job[t]
      BY <1>4, <2>6 DEF Stays
    <3>2. v # u
      BY <1>1, <2>6, <3>1 DEF InFlight
    <3>3. Inspected(ActiveRecords(v)) + job[t].qty + job[t].rejected <= sub[v].qty
      BY <1>1, <2>6, <3>1 DEF Fits, InspectedFits
    <3> QED
      BY <2>1, <3>1, <3>2, <3>3
  <2>7. \A t \in Sessions : job'[t].op = "createQc" => job'[t].of \in Submissions
    BY DEF InFlight
  <2> QED
    BY <2>5, <2>6, <2>7 DEF InspectedFits
<1> QED
  BY <1>1, <1>4, <1>6, <1>7, NoticesStay, TakenKeptAll DEF Fits

LEMMA FitsAfterSubmissionUpdate ==
    ASSUME Inv, Inv', Fits, NEW s \in Sessions, NEW q \in Qty, UpdateSubmissionCommit(s, q)
    PROVE  Fits'
<1> USE DEF Inv
<1> DEFINE u == job[s].doc
<1>1. /\ Done(s) /\ UNCHANGED <<notice, qc, rcpt, backed>> /\ job[s].op = "updateSubmission"
      /\ ~ OrderLocked /\ ~ SubmissionLocked(u)
      /\ q <= NoticeAvailable(sub[u].notice, {u})
      /\ sub' = [sub EXCEPT ![u].qty = q]
      /\ late' = IF sub[u].status = "draft" THEN late ELSE late \cup {u}
  BY DEF UpdateSubmissionCommit, Working
<1>2. u \in Submissions
  BY <1>1 DEF InFlight
<1> HIDE DEF u
<1>3. /\ sub'[u].qty = q /\ sub'[u].status = sub[u].status /\ sub'[u].notice = sub[u].notice
      /\ \A v \in Submissions \ {u} : sub'[v] = sub[v]
  BY <1>1, <1>2 DEF TypeOK, SubmissionRows
<1>4. Stays("createQc") /\ Stays("createReceipt")
  BY <1>1, DoneStays
<1>5. HandedInFits'
  <2>1. \A t \in Sessions : job'[t].op # "createSubmission"
    BY <1>1, Ended, IdleJob DEF OrderLocked
  <2>2. ASSUME NEW m \in Notices
        PROVE  Submitted(m, {})' <= IF OpenNotice(m)' THEN notice'[m].qty ELSE 0
    <3>1. OpenNotice(m)' = OpenNotice(m) /\ notice' = notice /\ notice[m].qty \in Nat
      BY <1>1, NotifiedNat DEF OpenNotice
    <3>2. Submitted(m, {})' = Submitted(m, {u}) + IF u \in SubmissionsOf(m)' THEN sub'[u].qty ELSE 0
      BY <1>2, <1>3, SubmittedChange
    <3>3. Submitted(m, {}) = Submitted(m, {u}) + IF u \in SubmissionsOf(m) THEN sub[u].qty ELSE 0
      BY <1>2, SubmittedWithout DEF SubmittedApart
    <3>4. u \in SubmissionsOf(m)' <=> u \in SubmissionsOf(m)
      BY <1>2, <1>3 DEF SubmissionsOf
    <3>5. Submitted(m, {u}) \in Nat /\ q \in Nat
      BY SubmittedNat, Quantities DEF Qty
    <3>6. CASE u \in SubmissionsOf(m)
      <4>1. m = sub[u].notice /\ OpenNotice(m)
        BY <3>6 DEF SubmissionsOf, Chain
      <4>2. q <= notice[m].qty - Submitted(m, {u})
        BY <1>1, <4>1 DEF NoticeAvailable
      <4> QED
        BY <1>3, <3>1, <3>2, <3>4, <3>5, <3>6, <4>1, <4>2
    <3>7. CASE u \notin SubmissionsOf(m)
      <4>1. Submitted(m, {})' = Submitted(m, {})
        BY <3>2, <3>3, <3>4, <3>5, <3>7
      <4> QED
        BY <3>1, <4>1 DEF Fits, HandedInFits
    <3> QED
      BY <3>6, <3>7
  <2> QED
    BY <2>1, <2>2 DEF HandedInFits
<1>6. InspectedFits'
  <2>1. \A v \in Submissions : Inspected(ActiveRecords(v))' = Inspected(ActiveRecords(v))
    BY <1>1, InspectedSame
  <2>2. u \notin late' => sub[u].status = "draft"
    BY <1>1
  <2>3. sub[u].status = "draft" => ActiveRecords(u) = {}
    BY DEF ActiveRecords, Chain
  <2>4. sub[u].status = "draft" => Inspected(ActiveRecords(u)) = 0
    BY <2>3, SumEmpty DEF Inspected
  <2>5. q \in Nat
    BY DEF Qty
  <2>6. \A v \in Submissions \ late' : v # u => v \notin late
    BY <1>1
  <2>7. \A v \in Submissions \ late' :
          /\ Inspected(ActiveRecords(v))' <= sub'[v].qty
          /\ sub'[v].status = "qc_completed" => Inspected(ActiveRecords(v))' = sub'[v].qty
    BY <1>3, <2>1, <2>2, <2>4, <2>5, <2>6 DEF Fits, InspectedFits
  <2>8. ASSUME NEW t \in Sessions, job'[t].op = "createQc", NEW v \in Submissions \ late', v = job'[t].of
        PROVE  Inspected(ActiveRecords(v))' + job'[t].qty + job'[t].rejected <= sub'[v].qty
    <3>1. job'[t] = job[t]
      BY <1>4, <2>8 DEF Stays
    <3>2. v # u
      BY <1>1, <2>8, <3>1 DEF SubmissionLocked
    <3>3. Inspected(ActiveRecords(v)) + job[t].qty + job[t].rejected <= sub[v].qty
      BY <2>6, <2>8, <3>1, <3>2 DEF Fits, InspectedFits
    <3> QED
      BY <1>3, <2>1, <3>1, <3>2, <3>3
  <2>9. \A t \in Sessions : job'[t].op = "createQc" => job'[t].of \in Submissions
    BY DEF InFlight
  <2> QED
    BY <2>7, <2>8, <2>9 DEF InspectedFits
<1> QED
  BY <1>1, <1>4, <1>5, <1>6, NoticesStay, TakenKeptAll DEF Fits

LEMMA FitsAfterSubmissionEnd ==
    ASSUME Inv, Inv', Fits, NEW s \in Sessions, SubmissionCommit(s)
    PROVE  Fits'
<1> USE DEF Inv
<1> DEFINE u == job[s].doc
<1>1. /\ Done(s) /\ UNCHANGED <<qc, rcpt, late, backed>> /\ job[s].op \in Ending
      /\ \E status \in {"submitted", "cancelled"} : sub' = [sub EXCEPT ![u].status = status]
  BY DEF SubmissionCommit, Ending, past
<1>2. u \in Submissions /\ sub[u].status \in {"draft", "submitted"}
  BY <1>1 DEF InFlight
<1>3. notice' = notice
  BY InvOfSubmissionEnded
<1> HIDE DEF u
<1>4. /\ sub'[u].qty = sub[u].qty /\ sub'[u].status \in {"submitted", "cancelled"} /\ sub'[u].notice = sub[u].notice
      /\ \A v \in Submissions \ {u} : sub'[v] = sub[v]
  BY <1>1, <1>2 DEF TypeOK, SubmissionRows
<1>5. Stays("createSubmission") /\ Stays("createQc") /\ Stays("createReceipt")
  BY <1>1, DoneStays
<1>6. \A m \in Notices : Submitted(m, {})' <= Submitted(m, {})
  <2> SUFFICES ASSUME NEW m \in Notices PROVE Submitted(m, {})' <= Submitted(m, {})
    OBVIOUS
  <2>1. Submitted(m, {})' = Submitted(m, {u}) + IF u \in SubmissionsOf(m)' THEN sub'[u].qty ELSE 0
    BY <1>2, <1>4, SubmittedChange
  <2>2. Submitted(m, {}) = Submitted(m, {u}) + IF u \in SubmissionsOf(m) THEN sub[u].qty ELSE 0
    BY <1>2, SubmittedWithout DEF SubmittedApart
  <2>3. u \in SubmissionsOf(m)' => u \in SubmissionsOf(m)
    BY <1>2, <1>4 DEF SubmissionsOf
  <2>4. Submitted(m, {u}) \in Nat /\ sub[u].qty \in Nat
    BY <1>2, SubmittedNat
  <2> QED
    BY <1>4, <2>1, <2>2, <2>3, <2>4
<1>7. \A m \in Notices : Submitted(m, {}) \in Nat /\ Submitted(m, {})' \in Nat /\ notice[m].qty \in Nat
  BY SubmittedIsTyped, SubmittedStaysTyped, NotifiedNat DEF SubmittedTyped
<1>8. HandedInFits'
  <2>1. ASSUME NEW m \in Notices
        PROVE  Submitted(m, {})' <= IF OpenNotice(m)' THEN notice'[m].qty ELSE 0
    <3>1. Submitted(m, {}) <= IF OpenNotice(m) THEN notice[m].qty ELSE 0
      BY DEF Fits, HandedInFits
    <3> QED
      BY <1>3, <1>6, <1>7, <3>1 DEF OpenNotice
  <2>2. ASSUME NEW t \in Sessions, job'[t].op = "createSubmission", NEW m \in Notices, m = job'[t].of
        PROVE  Submitted(m, {})' + job'[t].qty <= notice'[m].qty
    <3>1. job'[t] = job[t] /\ job[t].qty \in Nat
      BY <1>5, <2>2 DEF Stays, TypeOK, Jobs
    <3>2. Submitted(m, {}) + job[t].qty <= notice[m].qty
      BY <2>2, <3>1 DEF Fits, HandedInFits
    <3> QED
      BY <1>3, <1>6, <1>7, <3>1, <3>2
  <2>3. \A t \in Sessions : job'[t].op = "createSubmission" => job'[t] = job[t] /\ job'[t].of \in Notices
    BY <1>5 DEF Stays, InFlight
  <2>4. \A r, t \in Sessions : job'[r].op = "createSubmission" /\ job'[t].op = "createSubmission" => r = t
    BY <2>3 DEF Fits, HandedInFits
  <2> QED
    BY <2>1, <2>2, <2>3, <2>4 DEF HandedInFits
<1>9. InspectedFits'
  <2>1. \A v \in Submissions \ late' :
             /\ Inspected(ActiveRecords(v))' = Inspected(ActiveRecords(v))
             /\ sub'[v].qty = sub[v].qty
             /\ sub'[v].status = "qc_completed" => sub[v].status = "qc_completed"
    BY <1>1, <1>2, <1>4, InspectedSame
  <2> QED
    BY <1>1, <1>5, <2>1, InspectedStays DEF Fits
<1> QED
  BY <1>1, <1>3, <1>5, <1>8, <1>9, NoticesStay, TakenKeptAll DEF Fits

-----------------------------------------------------------------------------
\* Inspections.
LEMMA FitsAfterQcBegin ==
    ASSUME Inv, Inv', Fits, NEW s \in Sessions, NEW u \in Submissions, NEW a \in 0..MaxQty, NEW r \in 0..MaxQty,
           CreateQcBegin(s, u, a, r)
    PROVE  Fits'
<1> USE DEF Inv
<1> DEFINE request == [Idle EXCEPT !.op = "createQc", !.of = u, !.qty = a, !.rejected = r]
<1>1. /\ Start(s, request) /\ UNCHANGED <<notice, sub, qc, rcpt, late, backed>>
      /\ Inspected(ActiveRecords(u)) + a + r <= sub[u].qty
  BY DEF CreateQcBegin, goods, past
<1>2. request \in Jobs /\ request.op = "createQc" /\ request.of = u /\ request.qty = a /\ request.rejected = r
  BY NoDocNoId, Quantities DEF Jobs, Idle
<1> HIDE DEF request
<1>3. job'[s] = request /\ \A t \in Sessions \ {s} : job'[t] = job[t]
  BY <1>1, <1>2, Started
<1>4. Stays("createSubmission") /\ Stays("createReceipt")
  BY <1>2, <1>3 DEF Stays
<1>5. InspectedFits'
  <2>1. \A v : Inspected(ActiveRecords(v))' = Inspected(ActiveRecords(v))
    BY <1>1, InspectedSame
  <2>2. \A v \in Submissions \ late' :
          /\ Inspected(ActiveRecords(v))' <= sub'[v].qty
          /\ sub'[v].status = "qc_completed" => Inspected(ActiveRecords(v))' = sub'[v].qty
    BY <1>1, <2>1 DEF Fits, InspectedFits
  <2>3. ASSUME NEW t \in Sessions, job'[t].op = "createQc", NEW v \in Submissions \ late', v = job'[t].of
        PROVE  Inspected(ActiveRecords(v))' + job'[t].qty + job'[t].rejected <= sub'[v].qty
    <3>1. CASE t = s
      BY <1>1, <1>2, <1>3, <2>1, <2>3, <3>1
    <3>2. CASE t # s
      BY <1>1, <1>3, <2>1, <2>3, <3>2 DEF Fits, InspectedFits
    <3> QED
      BY <3>1, <3>2
  <2>4. \A t \in Sessions : job'[t].op = "createQc" => job'[t].of \in Submissions
    BY DEF InFlight
  <2> QED
    BY <2>2, <2>3, <2>4 DEF InspectedFits
<1> QED
  BY <1>1, <1>4, <1>5, NoticesStay, HandedInKept, TakenKeptAll DEF Fits

\* A submission goes on under inspection: n of it are inspected after the step.
Inspects(s, u, n) ==
    /\ Done(s) /\ UNCHANGED <<notice, rcpt, late, backed>>
    /\ sub[u].status \in {"submitted", "inspecting", "qc_completed"}
    /\ sub' = [sub EXCEPT ![u].status = StatusAfter(u, n)]
    /\ u \notin late => n <= sub[u].qty
    /\ Inspected(ActiveRecords(u))' = n
    /\ \A v \in Submissions \ {u} : Inspected(ActiveRecords(v))' = Inspected(ActiveRecords(v))
    /\ \A t \in Sessions \ {s} : job[t].op = "createQc" => job[t].of # u
    /\ \A q \in Records, kind \in {"inbound", "defective"} :
         \/ Left(q, kind, {})' >= Left(q, kind, {})
         \/ qc[q].status # "active" /\ Left(q, kind, {})' >= 0

LEMMA FitsAfterInspection ==
    ASSUME Inv, Inv', Fits, NEW s \in Sessions, NEW u \in Submissions, NEW n \in Int, Inspects(s, u, n)
    PROVE  Fits'
<1>0. /\ Done(s) /\ UNCHANGED <<notice, rcpt, late, backed>>
      /\ sub[u].status \in {"submitted", "inspecting", "qc_completed"}
      /\ sub' = [sub EXCEPT ![u].status = StatusAfter(u, n)]
      /\ u \notin late => n <= sub[u].qty
      /\ Inspected(ActiveRecords(u))' = n
      /\ \A v \in Submissions \ {u} : Inspected(ActiveRecords(v))' = Inspected(ActiveRecords(v))
      /\ \A t \in Sessions \ {s} : job[t].op = "createQc" => job[t].of # u
      /\ \A q \in Records, kind \in {"inbound", "defective"} :
           \/ Left(q, kind, {})' >= Left(q, kind, {})
           \/ qc[q].status # "active" /\ Left(q, kind, {})' >= 0
  BY DEF Inspects
<1> USE DEF Inv
<1>1. StatusAfter(u, n) \in {"inspecting", "qc_completed"}
  BY <1>0, StatusAfterLive
<1>2. /\ sub'[u].qty = sub[u].qty /\ sub'[u].notice = sub[u].notice /\ sub'[u].status = StatusAfter(u, n)
      /\ \A v \in Submissions \ {u} : sub'[v] = sub[v]
  BY <1>0, <1>1 DEF TypeOK, SubmissionRows
<1>3. Stays("createSubmission") /\ Stays("createQc") /\ Stays("createReceipt")
  BY <1>0, DoneStays
<1>4. \A m \in Notices : Submitted(m, {})' = Submitted(m, {})
  <2> SUFFICES ASSUME NEW m \in Notices PROVE Submitted(m, {})' = Submitted(m, {})
    OBVIOUS
  <2>1. SubmissionsOf(m)' = SubmissionsOf(m)
    BY <1>0, <1>1, <1>2 DEF SubmissionsOf
  <2>2. \A v \in SubmissionsOf(m) : sub'[v].qty = sub[v].qty
    BY <1>0, <1>2 DEF SubmissionsOf
  <2> QED
    BY <2>1, <2>2, SubmittedKept
<1>5. HandedInFits'
  BY <1>0, <1>3, <1>4, HandedInStays DEF Fits
<1>6. InspectedFits'
  <2>1. u \notin late' => /\ Inspected(ActiveRecords(u))' <= sub'[u].qty
                          /\ sub'[u].status = "qc_completed" => Inspected(ActiveRecords(u))' = sub'[u].qty
    BY <1>0, <1>2 DEF StatusAfter
  <2>2. \A v \in Submissions \ late' :
          /\ Inspected(ActiveRecords(v))' <= sub'[v].qty
          /\ sub'[v].status = "qc_completed" => Inspected(ActiveRecords(v))' = sub'[v].qty
    BY <1>0, <1>2, <2>1 DEF Fits, InspectedFits
  <2>3. ASSUME NEW t \in Sessions, job'[t].op = "createQc", NEW v \in Submissions \ late', v = job'[t].of
        PROVE  Inspected(ActiveRecords(v))' + job'[t].qty + job'[t].rejected <= sub'[v].qty
    <3>1. job'[t] = job[t] /\ t # s
      BY <1>0, <1>3, <2>3, Ended, IdleJob DEF Stays
    <3>2. v # u
      BY <1>0, <2>3, <3>1
    <3>3. Inspected(ActiveRecords(v)) + job[t].qty + job[t].rejected <= sub[v].qty
      BY <1>0, <2>3, <3>1 DEF Fits, InspectedFits
    <3> QED
      BY <1>0, <1>2, <3>1, <3>2, <3>3
  <2>4. \A t \in Sessions : job'[t].op = "createQc" => job'[t].of \in Submissions
    BY DEF InFlight
  <2> QED
    BY <1>0, <2>2, <2>3, <2>4 DEF InspectedFits
<1>7. TakenFits'
  <2>1. \A q \in Records, kind \in {"inbound", "defective"} : Left(q, kind, {}) \in Int /\ Left(q, kind, {})' \in Int
    BY LeftIsTyped, LeftStaysTyped DEF LeftTyped
  <2> QED
    BY <1>0, <1>3, <2>1, TakenStays DEF Fits
<1> QED
  BY <1>0, <1>5, <1>6, <1>7, NoticesStay DEF Fits

\* A QC record that is not used yet is written; the goods of the others stay.
LEMMA LeftAfterRecord ==
    ASSUME Inv, Inv', UNCHANGED rcpt, NEW q \in Records, qc[q].status = "none",
           \A p \in Records \ {q} : qc'[p].accepted = qc[p].accepted /\ qc'[p].rejected = qc[p].rejected
    PROVE  \A p \in Records, kind \in {"inbound", "defective"} :
             \/ Left(p, kind, {})' >= Left(p, kind, {})
             \/ qc[p].status # "active" /\ Left(p, kind, {})' >= 0
<1> USE DEF Inv
<1> SUFFICES ASSUME NEW p \in Records, NEW kind \in {"inbound", "defective"}
             PROVE  \/ Left(p, kind, {})' >= Left(p, kind, {})
                    \/ qc[p].status # "active" /\ Left(p, kind, {})' >= 0
  OBVIOUS
<1>1. Taken(p, kind, {})' = Taken(p, kind, {})
  BY DEF Taken, GoodsOf
<1>2. Taken(p, kind, {}) \in Nat
  BY TakenNat
<1>3. CASE p # q
  <2>1. Accounted(p, kind)' = Accounted(p, kind) /\ Accounted(p, kind) \in Nat
    BY <1>3, RecordNat DEF Accounted
  <2> QED
    BY <1>1, <1>2, <2>1, LeftIs, LeftIsLater
<1>4. CASE p = q
  <2>1. GoodsOf(q) = {}
    BY DEF GoodsOf, Chain
  <2>2. Taken(p, kind, {}) = 0
    <3>1. {g \in GoodsOf(q) \ {} : rcpt[g].kind = kind} = {}
      BY <2>1
    <3> QED
      BY <1>4, <3>1, SumEmpty DEF Taken
  <2>3. Accounted(p, kind)' \in Nat
    BY DEF Accounted, TypeOK, RecordRows
  <2> QED
    BY <1>1, <1>4, <2>2, <2>3, LeftIsLater
<1> QED
  BY <1>3, <1>4

LEMMA FitsAfterQc ==
    ASSUME Inv, Inv', Fits, NEW s \in Sessions, NEW q \in Records, CreateQcCommit(s, q)
    PROVE  Fits'
<1> USE DEF Inv
<1>1. PICK u : u = job[s].of
  OBVIOUS
<1>2. PICK a, r : a = job[s].qty /\ r = job[s].rejected
  OBVIOUS
<1>3. PICK n : n = Inspected(ActiveRecords(u)) + a + r
  OBVIOUS
<1>4. /\ Done(s) /\ UNCHANGED <<notice, rcpt, late, backed>> /\ job[s].op = "createQc"
      /\ qc[q].status = "none"
      /\ qc' = [qc EXCEPT ![q] = [status |-> "active", sub |-> u, accepted |-> a, rejected |-> r]]
      /\ sub' = [sub EXCEPT ![u].status = StatusAfter(u, n)]
  BY <1>1, <1>2, <1>3 DEF CreateQcCommit, Working, Fresh, past
<1>5. u \in Submissions /\ sub[u].status \in {"submitted", "inspecting"} /\ a \in Nat /\ r \in Nat
  BY <1>1, <1>2, <1>4 DEF InFlight, TypeOK, Jobs
<1>6. /\ qc'[q].status = "active" /\ qc'[q].sub = u /\ qc'[q].accepted = a /\ qc'[q].rejected = r
      /\ \A p \in Records \ {q} : qc'[p] = qc[p]
  BY <1>4 DEF TypeOK
<1>7. ActiveRecords(u) \in SUBSET Records /\ q \notin ActiveRecords(u) /\ Inspected(ActiveRecords(u)) \in Nat
  <2>1. ActiveRecords(u) \in SUBSET Records /\ q \notin ActiveRecords(u)
    BY <1>4 DEF ActiveRecords
  <2> QED
    BY <2>1, InspectedNat
<1>8. Inspected(ActiveRecords(u))' = n
  <2>1. ActiveRecords(u)' = ActiveRecords(u) \cup {q}
    BY <1>4, <1>6 DEF ActiveRecords
  <2>2. \A p \in ActiveRecords(u) : qc'[p] = qc[p]
    BY <1>4, <1>6 DEF ActiveRecords
  <2>3. Inspected(ActiveRecords(u))' = Inspected(ActiveRecords(u)) + qc'[q].accepted + qc'[q].rejected
    BY <1>7, <2>1, <2>2, InspectedAdds
  <2> QED
    BY <1>3, <1>6, <2>3
<1>9. \A v \in Submissions \ {u} : Inspected(ActiveRecords(v))' = Inspected(ActiveRecords(v))
  <2> SUFFICES ASSUME NEW v \in Submissions \ {u}
               PROVE  Inspected(ActiveRecords(v))' = Inspected(ActiveRecords(v))
    OBVIOUS
  <2>1. ActiveRecords(v)' = ActiveRecords(v)
    BY <1>4, <1>6 DEF ActiveRecords
  <2>2. \A p \in ActiveRecords(v) : qc'[p] = qc[p]
    BY <1>4, <1>6 DEF ActiveRecords
  <2> QED
    BY <2>1, <2>2, InspectedKept
<1>10. u \notin late => n <= sub[u].qty
  BY <1>1, <1>2, <1>3, <1>4, <1>5 DEF Fits, InspectedFits
<1>11. \A t \in Sessions \ {s} : job[t].op = "createQc" => job[t].of # u
  BY <1>1, <1>4, <1>5 DEF OneHolder, Holds
<1>12. \A p \in Records, kind \in {"inbound", "defective"} :
          \/ Left(p, kind, {})' >= Left(p, kind, {})
          \/ qc[p].status # "active" /\ Left(p, kind, {})' >= 0
  <2>1. \A p \in Records \ {q} : qc'[p].accepted = qc[p].accepted /\ qc'[p].rejected = qc[p].rejected
    BY <1>6
  <2> QED
    BY <1>4, <2>1, LeftAfterRecord
<1>13. n \in Int
  BY <1>3, <1>5, <1>7
<1>14. sub[u].status \in {"submitted", "inspecting", "qc_completed"}
  BY <1>5
<1>15. UNCHANGED <<notice, rcpt, late, backed>> /\ Done(s) /\ sub' = [sub EXCEPT ![u].status = StatusAfter(u, n)]
  BY <1>4
<1>16. Inspects(s, u, n)
  BY <1>8, <1>9, <1>10, <1>11, <1>12, <1>14, <1>15 DEF Inspects
<1> QED
  BY <1>5, <1>13, <1>16, FitsAfterInspection

LEMMA FitsAfterCorrection ==
    ASSUME Inv, Inv', Fits, NEW s \in Sessions, NEW replacement \in Records, NEW a \in 0..MaxQty, NEW r \in 0..MaxQty,
           CorrectQcCommit(s, replacement, a, r)
    PROVE  Fits'
<1> USE DEF Inv
<1>1. PICK q : q = job[s].doc
  OBVIOUS
<1>2. PICK u : u = qc[q].sub
  OBVIOUS
<1>3. PICK S : S = ActiveRecords(u) \ {q}
  OBVIOUS
<1>4. PICK n : n = Inspected(S) + a + r
  OBVIOUS
<1>5. /\ Done(s) /\ UNCHANGED <<notice, rcpt, late, backed>> /\ job[s].op = "correctQc"
      /\ qc[q].status = "active" /\ qc[replacement].status = "none" /\ ~ SubmissionLocked(u)
      /\ n <= sub[u].qty
      /\ qc' = [qc EXCEPT ![q].status = "corrected",
                          ![replacement] = [status |-> "active", sub |-> u, accepted |-> a, rejected |-> r]]
      /\ sub' = [sub EXCEPT ![u].status = StatusAfter(u, n)]
  BY <1>1, <1>2, <1>3, <1>4 DEF CorrectQcCommit, Working, Fresh, past
<1>6. q \in Records /\ u \in Submissions /\ sub[u].status \in {"submitted", "inspecting", "qc_completed"}
  <2>1. q \in Records
    BY <1>1, <1>5 DEF InFlight
  <2> QED
    BY <1>2, <1>5, <2>1 DEF References, Chain
<1>7. /\ qc'[replacement].status = "active" /\ qc'[replacement].sub = u
      /\ qc'[replacement].accepted = a /\ qc'[replacement].rejected = r
      /\ qc'[q].status = "corrected" /\ qc'[q].sub = u /\ q # replacement
      /\ qc'[q].accepted = qc[q].accepted /\ qc'[q].rejected = qc[q].rejected
      /\ \A p \in Records \ {q, replacement} : qc'[p] = qc[p]
  BY <1>2, <1>5, <1>6 DEF TypeOK, RecordRows
<1>8. S \in SUBSET Records /\ replacement \notin S
  BY <1>3, <1>5 DEF ActiveRecords
<1>9. Inspected(S) \in Nat /\ n \in Int
  BY <1>4, <1>8, InspectedNat
<1>10. Inspected(ActiveRecords(u))' = n
  <2>1. ActiveRecords(u)' = S \cup {replacement}
    <3>1. ASSUME NEW p \in Records PROVE p \in ActiveRecords(u)' <=> p \in S \cup {replacement}
      BY <1>3, <1>5, <1>6, <1>7 DEF ActiveRecords
    <3>2. ActiveRecords(u)' \subseteq Records
      BY DEF ActiveRecords
    <3> QED
      BY <1>8, <3>1, <3>2
  <2>2. \A p \in S : qc'[p] = qc[p]
    BY <1>3, <1>7, <1>8
  <2>3. Inspected(ActiveRecords(u))' = Inspected(S) + qc'[replacement].accepted + qc'[replacement].rejected
    BY <1>8, <2>1, <2>2, InspectedAdds
  <2> QED
    BY <1>4, <1>7, <2>3
<1>11. \A v \in Submissions \ {u} : Inspected(ActiveRecords(v))' = Inspected(ActiveRecords(v))
  <2> SUFFICES ASSUME NEW v \in Submissions \ {u}
               PROVE  Inspected(ActiveRecords(v))' = Inspected(ActiveRecords(v))
    OBVIOUS
  <2>0. ASSUME NEW p \in Records
        PROVE  (qc'[p].sub = v /\ qc'[p].status = "active") <=> (qc[p].sub = v /\ qc[p].status = "active")
    <3>1. CASE p \in {q, replacement}
      BY <1>2, <1>5, <1>7, <3>1
    <3>2. CASE p \notin {q, replacement}
      BY <1>7, <3>2
    <3> QED
      BY <3>1, <3>2
  <2>1. ActiveRecords(v)' = ActiveRecords(v)
    BY <2>0 DEF ActiveRecords
  <2>2. \A p \in ActiveRecords(v) : qc'[p] = qc[p]
    BY <1>2, <1>5, <1>7 DEF ActiveRecords
  <2> QED
    BY <2>1, <2>2, InspectedKept
<1>12. \A t \in Sessions \ {s} : job[t].op = "createQc" => job[t].of # u
  BY <1>5 DEF SubmissionLocked
<1>13. \A p \in Records, kind \in {"inbound", "defective"} :
          \/ Left(p, kind, {})' >= Left(p, kind, {})
          \/ qc[p].status # "active" /\ Left(p, kind, {})' >= 0
  <2>1. \A p \in Records \ {replacement} : qc'[p].accepted = qc[p].accepted /\ qc'[p].rejected = qc[p].rejected
    BY <1>7
  <2> QED
    BY <1>5, <2>1, LeftAfterRecord
<1>14. Inspects(s, u, n)
  BY <1>5, <1>6, <1>10, <1>11, <1>12, <1>13 DEF Inspects
<1> QED
  BY <1>6, <1>9, <1>14, FitsAfterInspection

-----------------------------------------------------------------------------
\* Goods taken in.
LEMMA FitsAfterReceiptBegin ==
    ASSUME Inv, Inv', Fits, NEW s \in Sessions, NEW q \in Records, NEW kind \in {"inbound", "defective"},
           NEW n \in Qty, CreateReceiptBegin(s, q, kind, n)
    PROVE  Fits'
<1> USE DEF Inv
<1> DEFINE request == [Idle EXCEPT !.op = "createReceipt", !.of = q, !.kind = kind, !.qty = n]
<1>1. /\ Start(s, request) /\ UNCHANGED <<notice, sub, qc, rcpt, late, backed>>
      /\ n <= Left(q, kind, {}) /\ ~ RecordLocked(q)
  BY DEF CreateReceiptBegin, goods, past
<1>2. /\ request \in Jobs /\ request.op = "createReceipt" /\ request.of = q
      /\ request.qty = n /\ request.kind = kind
  BY NoDocNoId, Quantities DEF Jobs, Idle
<1> HIDE DEF request
<1>3. job'[s] = request /\ \A t \in Sessions \ {s} : job'[t] = job[t]
  BY <1>1, <1>2, Started
<1>4. Stays("createSubmission") /\ Stays("createQc")
  BY <1>2, <1>3 DEF Stays
<1>5. TakenFits'
  <2>1. \A p, k : Left(p, k, {})' = Left(p, k, {})
    BY <1>1, LeftSame
  <2>2. \A p \in Records, k \in {"inbound", "defective"} : Left(p, k, {})' >= 0
    BY <2>1 DEF Fits, TakenFits
  <2>3. ASSUME NEW t \in Sessions, job'[t].op = "createReceipt", NEW p, p = job'[t].of, NEW k, k = job'[t].kind
        PROVE  job'[t].qty <= Left(p, k, {})'
    <3>1. CASE t = s
      BY <1>1, <1>2, <1>3, <2>1, <2>3, <3>1
    <3>2. CASE t # s
      BY <1>3, <2>1, <2>3, <3>2 DEF Fits, TakenFits
    <3> QED
      BY <3>1, <3>2
  <2>4. \A t \in Sessions \ {s} : job[t].op = "createReceipt" => job[t].of # q
    BY <1>1 DEF RecordLocked
  <2>5. \A t, w \in Sessions :
          job'[t].op = "createReceipt" /\ job'[w].op = "createReceipt" /\ job'[t].of = job'[w].of => t = w
    BY <1>2, <1>3, <2>4 DEF Fits, TakenFits
  <2> QED
    BY <2>2, <2>3, <2>5 DEF TakenFits
<1> QED
  BY <1>1, <1>4, <1>5, NoticesStay, HandedInKept, InspectedKeptAll DEF Fits

\* One receipt changes: what is left of each record and kind.
LEMMA LeftChange ==
    ASSUME Inv, Inv', UNCHANGED qc, NEW g \in Receipts, \A h \in Receipts \ {g} : rcpt'[h] = rcpt[h],
           NEW q \in Records, NEW kind \in {"inbound", "defective"}
    PROVE  /\ Left(q, kind, {})' = Left(q, kind, {g}) - IF Counts(g, q, kind)' THEN rcpt'[g].qty ELSE 0
           /\ Left(q, kind, {}) = Left(q, kind, {g}) - IF Counts(g, q, kind) THEN rcpt[g].qty ELSE 0
           /\ Left(q, kind, {g}) \in Int /\ rcpt[g].qty \in Nat
<1> USE DEF Inv
<1>1. Taken(q, kind, {})' = Taken(q, kind, {g}) + IF Counts(g, q, kind)' THEN rcpt'[g].qty ELSE 0
  BY TakenChange
<1>2. Taken(q, kind, {}) = Taken(q, kind, {g}) + IF Counts(g, q, kind) THEN rcpt[g].qty ELSE 0
  BY TakenWithout DEF TakenApart
<1>3. Taken(q, kind, {g}) \in Nat /\ rcpt[g].qty \in Nat
  BY TakenNat
<1>4. rcpt'[g].qty \in Nat
  BY DEF TypeOK, ReceiptRows
<1>5. Accounted(q, kind)' = Accounted(q, kind) /\ Accounted(q, kind) \in Nat
  BY RecordNat DEF Accounted
<1>6. /\ Left(q, kind, {})' = Accounted(q, kind)' - Taken(q, kind, {})'
      /\ Left(q, kind, {}) = Accounted(q, kind) - Taken(q, kind, {})
      /\ Left(q, kind, {g}) = Accounted(q, kind) - Taken(q, kind, {g})
  BY LeftIs, LeftIsLater
<1> QED
  BY <1>1, <1>2, <1>3, <1>4, <1>5, <1>6

LEMMA FitsAfterReceipt ==
    ASSUME Inv, Inv', Fits, NEW s \in Sessions, NEW g \in Receipts, CreateReceiptCommit(s, g)
    PROVE  Fits'
<1> USE DEF Inv
<1>1. PICK q, kind, n : q = job[s].of /\ kind = job[s].kind /\ n = job[s].qty
  OBVIOUS
<1>2. /\ Done(s) /\ UNCHANGED <<notice, sub, qc, late, backed>> /\ job[s].op = "createReceipt"
      /\ rcpt[g].status = "none"
      /\ rcpt' = [rcpt EXCEPT ![g] = [status |-> "draft", qc |-> q, kind |-> kind, qty |-> n]]
  BY <1>1 DEF CreateReceiptCommit, Working, Fresh, past
<1>3. /\ rcpt'[g].status = "draft" /\ rcpt'[g].qc = q /\ rcpt'[g].kind = kind /\ rcpt'[g].qty = n
      /\ \A h \in Receipts \ {g} : rcpt'[h] = rcpt[h]
  BY <1>2 DEF TypeOK
<1>4. Stays("createSubmission") /\ Stays("createQc") /\ Stays("createReceipt")
  BY <1>2, DoneStays
<1>5. q \in Records /\ kind \in {"inbound", "defective"} /\ n \in Nat /\ n <= Left(q, kind, {})
  BY <1>1, <1>2 DEF InFlight, Fits, TakenFits, TypeOK, Jobs
<1>6. ASSUME NEW p \in Records, NEW k \in {"inbound", "defective"}
      PROVE  /\ Left(p, k, {})' = Left(p, k, {}) - IF p = q /\ k = kind THEN n ELSE 0
             /\ Left(p, k, {}) \in Int /\ Left(p, k, {}) >= 0
  <2>1. Counts(g, p, k)' <=> p = q /\ k = kind
    BY <1>3 DEF Counts, GoodsOf
  <2>2. ~ Counts(g, p, k)
    BY <1>2 DEF Counts, GoodsOf
  <2>3. Left(p, k, {}) >= 0
    BY DEF Fits, TakenFits
  <2>4. /\ Left(p, k, {})' = Left(p, k, {g}) - IF Counts(g, p, k)' THEN rcpt'[g].qty ELSE 0
        /\ Left(p, k, {}) = Left(p, k, {g}) - IF Counts(g, p, k) THEN rcpt[g].qty ELSE 0
        /\ Left(p, k, {g}) \in Int
    BY <1>2, <1>3, LeftChange
  <2> QED
    BY <1>3, <1>5, <2>1, <2>2, <2>3, <2>4
<1>7. TakenFits'
  <2>1. ASSUME NEW p \in Records, NEW k \in {"inbound", "defective"} PROVE Left(p, k, {})' >= 0
    BY <1>5, <1>6
  <2>2. ASSUME NEW t \in Sessions, job'[t].op = "createReceipt", NEW p, p = job'[t].of, NEW k, k = job'[t].kind
        PROVE  job'[t].qty <= Left(p, k, {})'
    <3>1. job'[t] = job[t] /\ t # s
      BY <1>2, <1>4, <2>2, Ended, IdleJob DEF Stays
    <3>2. p # q
      BY <1>1, <1>2, <2>2, <3>1 DEF Fits, TakenFits
    <3>3. p \in Records /\ k \in {"inbound", "defective"} /\ job[t].qty <= Left(p, k, {})
      BY <2>2, <3>1 DEF Fits, TakenFits, InFlight
    <3> QED
      BY <1>6, <3>1, <3>2, <3>3
  <2>3. \A t, w \in Sessions :
          job'[t].op = "createReceipt" /\ job'[w].op = "createReceipt" /\ job'[t].of = job'[w].of => t = w
    BY <1>4 DEF Stays, Fits, TakenFits
  <2> QED
    BY <2>1, <2>2, <2>3 DEF TakenFits
<1> QED
  BY <1>2, <1>4, <1>7, NoticesStay, HandedInKept, InspectedKeptAll DEF Fits

LEMMA FitsAfterReceiptMove ==
    ASSUME Inv, Inv', Fits, NEW g \in Receipts, PostReceipt(g) \/ ReverseReceipt(g)
    PROVE  Fits'
<1> USE DEF Inv
<1>1. PICK status \in {"posted", "reversed"} : rcpt' = [rcpt EXCEPT ![g].status = status]
  BY DEF PostReceipt, ReverseReceipt
<1>2. UNCHANGED <<notice, sub, qc, late, backed, job>> /\ rcpt[g].status \in {"draft", "posted"}
  BY DEF PostReceipt, ReverseReceipt, past
<1>3. /\ rcpt'[g].status = status /\ rcpt'[g].qc = rcpt[g].qc /\ rcpt'[g].kind = rcpt[g].kind
      /\ rcpt'[g].qty = rcpt[g].qty /\ \A h \in Receipts \ {g} : rcpt'[h] = rcpt[h]
  BY <1>1 DEF TypeOK, ReceiptRows
<1>4. Stays("createSubmission") /\ Stays("createQc") /\ Stays("createReceipt")
  BY <1>2 DEF Stays
<1>5. ASSUME NEW q \in Records, NEW kind \in {"inbound", "defective"}
      PROVE  Left(q, kind, {})' >= Left(q, kind, {}) /\ Left(q, kind, {}) \in Int /\ Left(q, kind, {})' \in Int
  <2>1. Counts(g, q, kind)' => Counts(g, q, kind)
    BY <1>2, <1>3 DEF Counts, GoodsOf
  <2>2. /\ Left(q, kind, {})' = Left(q, kind, {g}) - IF Counts(g, q, kind)' THEN rcpt'[g].qty ELSE 0
        /\ Left(q, kind, {}) = Left(q, kind, {g}) - IF Counts(g, q, kind) THEN rcpt[g].qty ELSE 0
        /\ Left(q, kind, {g}) \in Int /\ rcpt[g].qty \in Nat
    BY <1>2, <1>3, LeftChange
  <2> QED
    BY <1>3, <2>1, <2>2
<1>6. TakenFits'
  BY <1>4, <1>5, TakenStays DEF Fits
<1> QED
  BY <1>2, <1>4, <1>6, NoticesStay, HandedInKept, InspectedKeptAll DEF Fits

-----------------------------------------------------------------------------
\* Requests that begin and add nothing.
LEMMA FitsAfterQuietBegin ==
    ASSUME Inv, Inv', Fits, NEW s \in Sessions, NEW request, Start(s, request), request.op \notin Entering,
           UNCHANGED goods
    PROVE  Fits'
<1>1. job'[s] = request /\ \A t \in Sessions \ {s} : job'[t] = job[t]
  BY DEF Start, Inv, TypeOK
<1>2. UNCHANGED <<docs, past>>
  BY DEF goods, docs
<1> QED
  BY <1>1, <1>2, QuietFits

LEMMA FitsAfterQuietEnd ==
    ASSUME Inv, Inv', Fits, NEW s \in Sessions, Done(s), UNCHANGED goods
    PROVE  Fits'
<1>1. job'[s].op = "idle" /\ \A t \in Sessions \ {s} : job'[t] = job[t]
  BY Ended, IdleJob DEF Inv
<1>2. UNCHANGED <<docs, past>> /\ "idle" \notin Entering
  BY DEF goods, docs, Entering
<1> QED
  BY <1>1, <1>2, QuietFits

LEMMA FitsAfterQuietStep ==
    ASSUME Inv, Inv', Fits, UNCHANGED goods, UNCHANGED job
    PROVE  Fits'
<1>1. UNCHANGED <<docs, past>>
  BY DEF goods, docs
<1> QED
  BY <1>1, QuietFits

LEMMA FitsStep ==
    Inv /\ Inv' /\ Fits /\ [Next]_vars => Fits'
<1> SUFFICES ASSUME Inv, Inv', Fits, [Next]_vars PROVE Fits'
  OBVIOUS
<1>1. CASE ReportStep
  <2>1. ASSUME NEW R, NEW kind, NEW dates, NEW moved, WriteReports(R, kind, dates, moved)
        PROVE  UNCHANGED goods
    BY <2>1 DEF WriteReports
  <2>2. ASSUME NEW r \in Reports, NEW d \in Dates, NEW q \in Qty,
               CreateEmployeeReport(r, d, q) \/ CreateOperationReport(r, d, q)
        PROVE  Fits'
    <3>1. UNCHANGED goods /\ UNCHANGED job
      BY <2>1, <2>2 DEF CreateEmployeeReport, CreateOperationReport
    <3> QED
      BY <3>1, FitsAfterQuietStep
  <2>3. ASSUME NEW s \in Sessions, NEW r \in Reports, UpdateReportBegin(s, r) \/ RemoveReportBegin(s, r)
        PROVE  Fits'
    <3>1. PICK request : Start(s, request) /\ request.op \in {"updateReport", "removeReport"} /\ UNCHANGED goods
      BY <2>3 DEF UpdateReportBegin, RemoveReportBegin, Idle
    <3> QED
      BY <3>1, FitsAfterQuietBegin DEF Entering
  <2>4. ASSUME NEW s \in Sessions, NEW d \in Dates, NEW q \in Qty, UpdateReportCommit(s, d, q)
        PROVE  Fits'
    <3>1. UNCHANGED goods /\ Done(s)
      BY <2>1, <2>4 DEF UpdateReportCommit
    <3> QED
      BY <3>1, FitsAfterQuietEnd
  <2>5. ASSUME NEW s \in Sessions, RemoveReportCommit(s) PROVE Fits'
    <3>1. UNCHANGED goods /\ Done(s)
      BY <2>1, <2>5 DEF RemoveReportCommit
    <3> QED
      BY <3>1, FitsAfterQuietEnd
  <2> QED
    BY <1>1, <2>2, <2>3, <2>4, <2>5 DEF ReportStep
<1>2. CASE OrderStep
  <2>1. ASSUME NEW s \in Sessions, NEW k \in AlertKeys, ConfirmBegin(s, k) PROVE Fits'
    <3>1. PICK request : Start(s, request) /\ request.op = "confirm" /\ UNCHANGED goods
      BY <2>1 DEF ConfirmBegin, Idle
    <3> QED
      BY <3>1, FitsAfterQuietBegin DEF Entering
  <2>2. ASSUME NEW s \in Sessions, ConfirmCommit(s) PROVE Fits'
    BY <2>2, FitsAfterQuietEnd DEF ConfirmCommit
  <2>3. ASSUME NEW target, Transition(target) PROVE Fits'
    BY <2>3, FitsAfterQuietStep DEF Transition
  <2>4. CASE CancelOperation
    BY <2>4, FitsAfterQuietStep DEF CancelOperation
  <2> QED
    BY <1>2, <2>1, <2>2, <2>3, <2>4 DEF OrderStep
<1>3. CASE NoticeStep
  <2>1. ASSUME NEW s \in Sessions, CreateNoticeBegin(s) PROVE Fits'
    <3>1. PICK request : Start(s, request) /\ request.op = "createNotice" /\ UNCHANGED goods
      BY <2>1 DEF CreateNoticeBegin, Idle
    <3> QED
      BY <3>1, FitsAfterQuietBegin DEF Entering
  <2> QED
    BY <1>3, <2>1, FitsAfterNotice, FitsAfterCancelling DEF NoticeStep
<1>4. CASE SubmissionStep
  <2>1. ASSUME NEW s \in Sessions, NEW u \in Submissions,
               UpdateSubmissionBegin(s, u) \/ SubmitBegin(s, u) \/ CancelSubmissionBegin(s, u)
        PROVE  Fits'
    <3>1. PICK request : /\ Start(s, request) /\ UNCHANGED goods
                         /\ request.op \in {"updateSubmission", "submit", "cancelSubmission"}
      <4>1. [Idle EXCEPT !.op = "updateSubmission", !.doc = u].op = "updateSubmission"
            /\ [Idle EXCEPT !.op = "submit", !.doc = u].op = "submit"
            /\ [Idle EXCEPT !.op = "cancelSubmission", !.doc = u].op = "cancelSubmission"
        BY DEF Idle
      <4>2. CASE UpdateSubmissionBegin(s, u)
        BY <4>1, <4>2 DEF UpdateSubmissionBegin
      <4>3. CASE SubmitBegin(s, u)
        BY <4>1, <4>3 DEF SubmitBegin
      <4>4. CASE CancelSubmissionBegin(s, u)
        BY <4>1, <4>4 DEF CancelSubmissionBegin
      <4> QED
        BY <2>1, <4>2, <4>3, <4>4
    <3> QED
      BY <3>1, FitsAfterQuietBegin DEF Entering
  <2> QED
    BY <1>4, <2>1, FitsAfterSubmissionBegin, FitsAfterSubmission, FitsAfterSubmissionUpdate,
       FitsAfterSubmissionEnd DEF SubmissionStep
<1>5. CASE InspectionStep
  BY <1>5, FitsAfterQcBegin, FitsAfterQc DEF InspectionStep
<1>6. CASE CorrectionStep
  <2>1. ASSUME NEW s \in Sessions, NEW q \in Records, CorrectQcBegin(s, q) PROVE Fits'
    <3>1. PICK request : Start(s, request) /\ request.op = "correctQc" /\ UNCHANGED goods
      BY <2>1 DEF CorrectQcBegin, Idle
    <3> QED
      BY <3>1, FitsAfterQuietBegin DEF Entering
  <2> QED
    BY <1>6, <2>1, FitsAfterCorrection DEF CorrectionStep
<1>7. CASE ReceiptStep
  BY <1>7, FitsAfterReceiptBegin, FitsAfterReceipt, FitsAfterReceiptMove DEF ReceiptStep
<1>8. ASSUME NEW s \in Sessions, Rollback(s) PROVE Fits'
  BY <1>8, FitsAfterQuietEnd DEF Rollback
<1>9. CASE UNCHANGED vars
  BY <1>9, FitsAfterQuietStep DEF vars
<1> QED
  BY <1>1, <1>2, <1>3, <1>4, <1>5, <1>6, <1>7, <1>8, <1>9 DEF Next

LEMMA FitsInit == Init => Fits
<1> SUFFICES ASSUME Init PROVE Fits
  OBVIOUS
<1>0. Inv
  BY InvInit
<1>1. /\ qc = [q \in Records |-> NoRecord] /\ rcpt = [g \in Receipts |-> NoReceipt]
      /\ job = [s \in Sessions |-> Idle] /\ late = {}
      /\ \/ NothingYet /\ backed = 0
         \/ HandedIn /\ backed = MaxQty
  BY DEF Init
<1>2. \A u : ActiveRecords(u) = {}
  BY <1>1 DEF ActiveRecords, NoRecord
<1>3. \A q : GoodsOf(q) = {}
  BY <1>1 DEF GoodsOf, NoReceipt
<1>4. \A s \in Sessions : job[s].op = "idle"
  BY <1>1, IdleJob
<1>5. \A u : Inspected(ActiveRecords(u)) = 0
  BY <1>2, SumEmpty DEF Inspected
<1>6. \A u \in Submissions : sub[u].qty \in Nat /\ sub[u].status # "qc_completed"
  BY <1>0, <1>1 DEF Inv, TypeOK, SubmissionRows, NothingYet, HandedIn, NoSubmission
<1>7. InspectedFits
  BY <1>4, <1>5, <1>6 DEF InspectedFits
<1>8. TakenFits
  <2>1. ASSUME NEW q \in Records, NEW kind \in {"inbound", "defective"} PROVE Left(q, kind, {}) >= 0
    <3>1. {g \in GoodsOf(q) \ {} : rcpt[g].kind = kind} = {}
      BY <1>3
    <3>2. Taken(q, kind, {}) = 0
      BY <3>1, SumEmpty DEF Taken
    <3>3. Accounted(q, kind) \in Nat
      BY <1>0, RecordNat DEF Accounted, Inv
    <3> QED
      BY <3>2, <3>3, LeftIs
  <2> QED
    BY <1>4, <2>1 DEF TakenFits
<1>9. Notified <= backed /\ HandedInFits
  <2>1. CASE NothingYet /\ backed = 0
    <3>1. {n \in Notices : OpenNotice(n)} = {}
      BY <2>1 DEF NothingYet, OpenNotice, NoNotice
    <3>2. Notified = 0
      BY <3>1, SumEmpty DEF Notified
    <3>3. ASSUME NEW n \in Notices PROVE Submitted(n, {}) = 0 /\ ~ OpenNotice(n)
      <4>1. SubmissionsOf(n) \ {} = {}
        BY <2>1 DEF SubmissionsOf, NothingYet, NoSubmission
      <4> QED
        BY <3>1, <4>1, SumEmpty DEF Submitted
    <3> QED
      BY <1>4, <2>1, <3>2, <3>3 DEF HandedInFits
  <2>2. CASE HandedIn /\ backed = MaxQty
    <3>1. FirstNotice \in Notices /\ MaxQty \in Nat
      BY ProductionAssumption DEF FirstNotice
    <3>2. \A n \in Notices : notice[n] = IF n = FirstNotice THEN [status |-> "open", qty |-> MaxQty] ELSE NoNotice
      BY <2>2 DEF HandedIn
    <3>3. {n \in Notices : OpenNotice(n)} = {} \cup {FirstNotice}
      BY <3>1, <3>2 DEF OpenNotice, NoNotice
    <3>4. Notified = MaxQty
      <4> DEFINE f == [n \in Notices |-> notice[n].qty]
      <4>1. f[FirstNotice] = MaxQty
        BY <3>1, <3>2
      <4>2. Notified = SumOf(f, {} \cup {FirstNotice})
        BY <3>3 DEF Notified
      <4> HIDE DEF f
      <4>3. SumOf(f, {} \cup {FirstNotice}) = f[FirstNotice] + SumOf(f, {})
        BY <3>1, <4>1, FS_EmptySet, SumAdd
      <4> QED
        BY <3>1, <4>1, <4>2, <4>3, SumEmpty
    <3>5. ASSUME NEW n \in Notices
          PROVE  Submitted(n, {}) <= IF OpenNotice(n) THEN notice[n].qty ELSE 0
      <4>1. \A u \in Submissions : sub[u] = IF u = FirstLot
                                             THEN [status |-> "submitted", notice |-> FirstNotice, qty |-> MaxQty]
                                             ELSE NoSubmission
        BY <2>2 DEF HandedIn
      <4> DEFINE f == [u \in Submissions |-> sub[u].qty]
      <4>2. SubmissionsOf(n) \ {} \subseteq {FirstLot} /\ (n # FirstNotice => SubmissionsOf(n) \ {} = {})
            /\ SubmissionsOf(n) \subseteq Submissions
        BY <4>1 DEF SubmissionsOf, NoSubmission
      <4>3. \A u \in SubmissionsOf(n) : f[u] = MaxQty
        BY <4>1, <4>2
      <4>4. Submitted(n, {}) = SumOf(f, SubmissionsOf(n) \ {})
        BY DEF Submitted
      <4> HIDE DEF f
      <4>5. CASE SubmissionsOf(n) \ {} = {}
        <5>1. Submitted(n, {}) = 0
          BY <4>4, <4>5, SumEmpty
        <5> QED
          BY <3>1, <3>2, <5>1 DEF OpenNotice, NoNotice
      <4>6. CASE SubmissionsOf(n) \ {} # {}
        <5>1. SubmissionsOf(n) \ {} = {} \cup {FirstLot} /\ f[FirstLot] = MaxQty /\ n = FirstNotice
          BY <4>2, <4>3, <4>6
        <5>2. SumOf(f, {} \cup {FirstLot}) = f[FirstLot] + SumOf(f, {})
          BY <3>1, <5>1, FS_EmptySet, SumAdd
        <5>3. Submitted(n, {}) = MaxQty
          BY <3>1, <4>4, <5>1, <5>2, SumEmpty
        <5> QED
          BY <3>1, <3>2, <5>1, <5>3 DEF OpenNotice
      <4> QED
        BY <4>5, <4>6
    <3> QED
      BY <1>4, <2>2, <3>1, <3>4, <3>5 DEF HandedInFits
  <2> QED
    BY <1>1, <2>1, <2>2
<1> QED
  BY <1>7, <1>8, <1>9 DEF Fits

(***************************************************************************)
(* Whatever is announced, handed in, inspected and taken in at the same    *)
(* time, no stage of the goods exceeds the one before.                     *)
(***************************************************************************)
THEOREM NothingGrows == Spec => []EachStageWithinTheLast
<1>1. Inv /\ Fits /\ [Next]_vars => Inv' /\ Fits'
  BY Step, FitsStep
<1>2. Init => Inv /\ Fits
  BY InvInit, FitsInit
<1>3. Fits => EachStageWithinTheLast
  BY DEF Fits, HandedInFits, TakenFits, EachStageWithinTheLast
<1> QED
  BY <1>1, <1>2, <1>3, PTL DEF Spec

(***************************************************************************)
(* No part of a submission is inspected twice, and it counts as inspected  *)
(* when all of it is (createQcRecord against correctQc, updateSubmission). *)
(***************************************************************************)
THEOREM InspectionsAddUp == Spec => []InspectionFollowsQc
<1>1. Inv /\ Fits /\ [Next]_vars => Inv' /\ Fits'
  BY Step, FitsStep
<1>2. Init => Inv /\ Fits
  BY InvInit, FitsInit
<1>3. Inv /\ Fits => InspectionFollowsQc
  <2> SUFFICES ASSUME Inv, Fits, NEW u \in Submissions \ late
               PROVE  /\ Inspected(ActiveRecords(u)) <= sub[u].qty
                      /\ sub[u].status = "qc_completed" => Inspected(ActiveRecords(u)) = sub[u].qty
                      /\ Inspected(ActiveRecords(u)) > 0 => sub[u].status \in {"inspecting", "qc_completed"}
    BY DEF InspectionFollowsQc
  <2>1. ActiveRecords(u) = {} => Inspected(ActiveRecords(u)) = 0
    BY SumEmpty DEF Inspected
  <2>2. ActiveRecords(u) # {} => sub[u].status \in {"inspecting", "qc_completed"}
    BY DEF ActiveRecords, Inv, Chain
  <2> QED
    BY <2>1, <2>2 DEF Fits, InspectedFits
<1> QED
  BY <1>1, <1>2, <1>3, PTL DEF Spec

-----------------------------------------------------------------------------
(***************************************************************************)
(* Alerts.  Every write of a report reconciles the dates it touched, except*)
(* the one the report had moved to since it was read.                      *)
(***************************************************************************)
AlertRows == [status : {"none", "pending", "confirmed", "recovered"}, seen : Nat \X Nat]

LiveDates(R) == \A r \in Reports : R[r].status = "live" => R[r].date \in Dates

\* What the over-order alerts of A tell of the reports R.
OverOrderTold(R, A) ==
    IF Reported(R, "operation") > Target
    THEN Open(A, "over_order") # {}
    ELSE \A d \in Open(A, "over_order") : A[<<"over_order", d>>].status = "confirmed"

\* What a discrepancy row tells of the reports R of its date.
Figures(R, d) == <<ReportedOn(R, "operation", d), ReportedOn(R, "employee", d)>>

Told(R, row, d) ==
    IF Figures(R, d)[1] # Figures(R, d)[2]
    THEN row.status \in {"pending", "confirmed"} /\ row.seen = Figures(R, d)
    ELSE row.status # "pending"

\* The alerts tell what the reports show.
Telling ==
    /\ alert \in [AlertKeys -> AlertRows]
    /\ LiveDates(rep)
    /\ \A d \in Dates \ untold : Told(rep, alert[<<"daily_discrepancy", d>>], d)
    /\ OverOrderTold(rep, alert)

ConfirmsKnown == \A s \in Sessions : job[s].op = "confirm" => <<job[s].kind, job[s].date>> \in AlertKeys

AlertsInv == Telling /\ ConfirmsKnown

LEMMA AlertKey ==
    /\ \A type \in {"daily_discrepancy", "over_order"}, d \in Dates : <<type, d>> \in AlertKeys
    /\ \A k \in AlertKeys : k[1] \in {"daily_discrepancy", "over_order"} /\ k[2] \in Dates /\ k = <<k[1], k[2]>>
BY DEF AlertKeys

LEMMA FiguresNat ==
    ASSUME NEW R \in [Reports -> ReportRows], NEW d
    PROVE  Figures(R, d) \in Nat \X Nat
<1>1. \A kind : ReportedOn(R, kind, d) \in Nat
  BY ReportSums DEF ReportedOn, LiveReports
<1> QED
  BY <1>1 DEF Figures

LEMMA ReconciledTells ==
    ASSUME NEW R \in [Reports -> ReportRows], NEW row \in AlertRows, NEW d
    PROVE  Reconciled(R, row, d) \in AlertRows /\ Told(R, Reconciled(R, row, d), d)
<1> DEFINE figures == Figures(R, d)
           unchanged == row.status = "confirmed" /\ row.seen = figures
<1>1. figures \in Nat \X Nat
  BY FiguresNat
<1>2. Reconciled(R, row, d) =
        IF figures[1] # figures[2]
        THEN [status |-> IF unchanged THEN "confirmed" ELSE "pending", seen |-> figures]
        ELSE [row EXCEPT !.status = IF @ = "none" THEN @ ELSE "recovered"]
  BY DEF Reconciled, Figures
<1>3. Told(R, Reconciled(R, row, d), d) =
        IF figures[1] # figures[2]
        THEN Reconciled(R, row, d).status \in {"pending", "confirmed"} /\ Reconciled(R, row, d).seen = figures
        ELSE Reconciled(R, row, d).status # "pending"
  BY DEF Told
<1> HIDE DEF figures
<1>4. CASE figures[1] # figures[2]
  <2>1. PICK status \in {"pending", "confirmed"} :
          Reconciled(R, row, d) = [status |-> status, seen |-> figures]
    BY <1>2, <1>4
  <2> QED
    <3>1. [status |-> status, seen |-> figures] \in AlertRows
      BY <1>1 DEF AlertRows
    <3>2. Reconciled(R, row, d).status = status /\ Reconciled(R, row, d).seen = figures
      BY <2>1
    <3> QED
      BY <1>3, <1>4, <2>1, <3>1, <3>2
<1>5. CASE figures[1] = figures[2]
  BY <1>1, <1>2, <1>3, <1>5 DEF AlertRows
<1> QED
  BY <1>4, <1>5

LEMMA LatestExists ==
    ASSUME NEW R \in [Reports -> ReportRows], LiveDates(R), NEW S \in SUBSET LiveReports(R, "operation"), S # {}
    PROVE  \E x \in S : \A y \in S : R[y].date <= R[x].date
<1> DEFINE D == {R[y].date : y \in S}
<1>1. S \subseteq Reports /\ IsFiniteSet(S)
  BY FiniteTables, FS_Subset DEF LiveReports
<1>2. D \subseteq Dates /\ D # {}
  <2>1. \A y \in S : R[y].date \in Dates
    BY <1>1 DEF LiveReports, LiveDates
  <2>2. PICK y : y \in S
    OBVIOUS
  <2> QED
    BY <2>1, <2>2
<1>3. IsFiniteSet(D) /\ D \subseteq Nat
  BY <1>2, FS_Subset
<1>4. PICK m \in D : \A d \in D : d <= m
  BY <1>2, <1>3, Largest
<1> QED
  BY <1>4

LEMMA OverOrderTells ==
    ASSUME NEW R \in [Reports -> ReportRows], LiveDates(R),
           NEW B \in [AlertKeys -> AlertRows], NEW A \in OverOrderAfter(R, B)
    PROVE  /\ A \in [AlertKeys -> AlertRows] /\ OverOrderTold(R, A)
           /\ \A d \in Dates : A[<<"daily_discrepancy", d>>] = B[<<"daily_discrepancy", d>>]
<1> DEFINE open == Open(B, "over_order")
           reports == LiveReports(R, "operation")
           latest == {R[r].date : r \in {x \in reports : \A y \in reports : R[y].date <= R[x].date}}
           Set(D, status) == [k \in AlertKeys |-> IF k \in {"over_order"} \X D
                                                 THEN [B[k] EXCEPT !.status = status] ELSE B[k]]
<1>1. OverOrderAfter(R, B) =
        IF Reported(R, "operation") <= Target THEN {Set(open, "recovered")}
        ELSE UNION {{Set({d}, status) : status \in {"pending", B[<<"over_order", d>>].status} \ {"none", "recovered"}}
                      : d \in IF open = {} THEN latest ELSE open}
  BY DEF OverOrderAfter
<1>2. Reported(R, "operation") \in Nat
  BY ReportedNat
<1>3. open \subseteq Dates
  BY DEF Open
<1>4. \A D \in SUBSET Dates, status \in {"pending", "confirmed", "recovered"} :
        /\ Set(D, status) \in [AlertKeys -> AlertRows]
        /\ \A d \in Dates : Set(D, status)[<<"daily_discrepancy", d>>] = B[<<"daily_discrepancy", d>>]
        /\ \A d \in D : Set(D, status)[<<"over_order", d>>].status = status
        /\ \A d \in Dates \ D : Set(D, status)[<<"over_order", d>>] = B[<<"over_order", d>>]
  <2> SUFFICES ASSUME NEW D \in SUBSET Dates, NEW status \in {"pending", "confirmed", "recovered"}
               PROVE  /\ Set(D, status) \in [AlertKeys -> AlertRows]
                      /\ \A d \in Dates : Set(D, status)[<<"daily_discrepancy", d>>] = B[<<"daily_discrepancy", d>>]
                      /\ \A d \in D : Set(D, status)[<<"over_order", d>>].status = status
                      /\ \A d \in Dates \ D : Set(D, status)[<<"over_order", d>>] = B[<<"over_order", d>>]
    OBVIOUS
  <2>1. \A row \in AlertRows : [row EXCEPT !.status = status] \in AlertRows
                              /\ [row EXCEPT !.status = status].status = status
    BY DEF AlertRows
  <2>2. Set(D, status) \in [AlertKeys -> AlertRows]
    BY <2>1
  <2>3. ASSUME NEW d \in Dates PROVE Set(D, status)[<<"daily_discrepancy", d>>] = B[<<"daily_discrepancy", d>>]
    BY AlertKey
  <2>4. ASSUME NEW d \in D PROVE Set(D, status)[<<"over_order", d>>].status = status
    BY <2>1, AlertKey
  <2>5. ASSUME NEW d \in Dates \ D PROVE Set(D, status)[<<"over_order", d>>] = B[<<"over_order", d>>]
    BY AlertKey
  <2> QED
    BY <2>2, <2>3, <2>4, <2>5
<1> HIDE DEF Set
<1>5. CASE Reported(R, "operation") <= Target
  <2>1. A = Set(open, "recovered")
    BY <1>1, <1>5
  <2>2. \A d \in Dates : A[<<"over_order", d>>].status \notin {"pending", "confirmed"}
    <3> SUFFICES ASSUME NEW d \in Dates PROVE A[<<"over_order", d>>].status \notin {"pending", "confirmed"}
      OBVIOUS
    <3>1. CASE d \in open
      BY <1>3, <1>4, <2>1, <3>1
    <3>2. CASE d \notin open
      <4>1. A[<<"over_order", d>>] = B[<<"over_order", d>>]
        BY <1>3, <1>4, <2>1, <3>2
      <4>2. B[<<"over_order", d>>].status \notin {"pending", "confirmed"}
        BY <3>2 DEF Open
      <4> QED
        BY <4>1, <4>2
    <3> QED
      BY <3>1, <3>2
  <2>3. OverOrderTold(R, A)
    BY <1>2, <1>5, <2>2 DEF OverOrderTold, Open
  <2> QED
    BY <1>3, <1>4, <2>1, <2>3
<1>6. CASE ~ (Reported(R, "operation") <= Target)
  <2>1. PICK d \in IF open = {} THEN latest ELSE open :
          \E status \in {"pending", B[<<"over_order", d>>].status} \ {"none", "recovered"} : A = Set({d}, status)
    <3> DEFINE Tables(e) == {Set({e}, status) :
                 status \in {"pending", B[<<"over_order", e>>].status} \ {"none", "recovered"}}
    <3>1. A \in UNION {Tables(e) : e \in IF open = {} THEN latest ELSE open}
      BY <1>1, <1>6
    <3> HIDE DEF Tables, open, latest
    <3>2. PICK e \in IF open = {} THEN latest ELSE open : A \in Tables(e)
      BY <3>1
    <3> QED
      BY <3>2 DEF Tables
  <2>2. d \in Dates
    <3>1. latest \subseteq Dates
      BY DEF LiveReports, LiveDates
    <3> QED
      BY <1>3, <2>1, <3>1
  <2>3. B[<<"over_order", d>>].status \in {"none", "pending", "confirmed", "recovered"}
    BY <2>2, AlertKey DEF AlertRows
  <2>4. PICK status \in {"pending", "confirmed"} : A = Set({d}, status)
    BY <2>1, <2>3
  <2>5. A \in [AlertKeys -> AlertRows] /\ A[<<"over_order", d>>].status = status
        /\ \A e \in Dates : A[<<"daily_discrepancy", e>>] = B[<<"daily_discrepancy", e>>]
    BY <1>4, <2>2, <2>4
  <2>6. OverOrderTold(R, A)
    BY <1>2, <1>6, <2>2, <2>5 DEF OverOrderTold, Open
  <2> QED
    BY <2>5, <2>6
<1> QED
  BY <1>5, <1>6

-----------------------------------------------------------------------------
\* A report of another date leaves the figures of a date alone.
LEMMA FiguresKept ==
    ASSUME NEW Q \in [Reports -> ReportRows], NEW R \in [Reports -> ReportRows],
           NEW r \in Reports, NEW d, \A x \in Reports \ {r} : R[x] = Q[x],
           Q[r].status = "live" => Q[r].date # d,
           R[r].status = "live" => R[r].date # d
    PROVE  Figures(R, d) = Figures(Q, d)
<1>1. ASSUME NEW kind PROVE ReportedOn(R, kind, d) = ReportedOn(Q, kind, d)
  <2> DEFINE S == {x \in LiveReports(Q, kind) : Q[x].date = d}
  <2>1. S = {x \in LiveReports(R, kind) : R[x].date = d}
    <3>1. ASSUME NEW x \in Reports
          PROVE  (Q[x].status = "live" /\ Q[x].kind = kind /\ Q[x].date = d)
                   <=> (R[x].status = "live" /\ R[x].kind = kind /\ R[x].date = d)
      BY <3>1
    <3> QED
      BY <3>1 DEF LiveReports
  <2>2. S \in SUBSET Reports /\ \A x \in S : QtyIn(R)[x] = QtyIn(Q)[x]
    <3>1. S \subseteq Reports /\ r \notin S
      BY DEF LiveReports
    <3> QED
      BY <3>1 DEF QtyIn
  <2> HIDE DEF S
  <2>3. IsFiniteSet(S) /\ \A x \in S : QtyIn(Q)[x] \in Nat
    BY <2>2, ReportSums
  <2>4. SumOf(QtyIn(R), S) = SumOf(QtyIn(Q), S)
    BY <2>2, <2>3, SumSame
  <2> QED
    BY <2>1, <2>4 DEF ReportedOn, S
<1> QED
  BY <1>1 DEF Figures

\* A report by an employee leaves what is reported by operation alone.
LEMMA OperationsKept ==
    ASSUME NEW Q \in [Reports -> ReportRows], NEW R \in [Reports -> ReportRows],
           NEW r \in Reports, \A x \in Reports \ {r} : R[x] = Q[x],
           Q[r].status = "live" => Q[r].kind # "operation",
           R[r].status = "live" => R[r].kind # "operation"
    PROVE  Reported(R, "operation") = Reported(Q, "operation")
<1> DEFINE S == LiveReports(Q, "operation")
<1>1. S = LiveReports(R, "operation")
  <2>1. ASSUME NEW x \in Reports
        PROVE  (Q[x].status = "live" /\ Q[x].kind = "operation")
                 <=> (R[x].status = "live" /\ R[x].kind = "operation")
    BY <2>1
  <2> QED
    BY <2>1 DEF LiveReports
<1>2. S \in SUBSET Reports /\ \A x \in S : QtyIn(R)[x] = QtyIn(Q)[x]
  <2>1. S \subseteq Reports /\ r \notin S
    BY DEF LiveReports
  <2> QED
    BY <2>1 DEF QtyIn
<1> HIDE DEF S
<1>3. IsFiniteSet(S) /\ \A x \in S : QtyIn(Q)[x] \in Nat
  BY <1>2, ReportSums
<1>4. SumOf(QtyIn(R), S) = SumOf(QtyIn(Q), S)
  BY <1>2, <1>3, SumSame
<1> QED
  BY <1>1, <1>4 DEF Reported, S

\* One report is written, and the dates it touched are reconciled except the
\* one it had moved to.
LEMMA TellingWritten ==
    ASSUME TypeOK, Telling, NEW R \in [Reports -> ReportRows], NEW r \in Reports,
           NEW kind \in {"operation", "employee"}, NEW dates, NEW moved,
           WriteReports(R, kind, dates, moved), \A x \in Reports \ {r} : R[x] = rep[x],
           rep[r].status = "live" => rep[r].kind = kind /\ rep[r].date \in dates \cup moved,
           R[r].status = "live" => R[r].kind = kind /\ R[r].date \in dates \cap Dates
    PROVE  Telling'
<1>1. rep \in [Reports -> ReportRows] /\ alert \in [AlertKeys -> AlertRows] /\ LiveDates(rep)
  BY DEF TypeOK, Telling
<1>2. rep' = R /\ untold' = (untold \cup moved) \ dates
  BY DEF WriteReports
<1>3. LiveDates(R)
  <2> SUFFICES ASSUME NEW x \in Reports, R[x].status = "live" PROVE R[x].date \in Dates
    BY DEF LiveDates
  <2>1. CASE x = r
    BY <2>1
  <2>2. CASE x # r
    BY <1>1, <2>2 DEF LiveDates
  <2> QED
    BY <2>1, <2>2
<1>4. PICK A : /\ A \in IF kind = "operation" THEN OverOrderAfter(R, alert) ELSE {alert}
               /\ alert' = [k \in AlertKeys |->
                              IF k[1] = "daily_discrepancy" /\ k[2] \in dates
                              THEN Reconciled(R, A[k], k[2]) ELSE A[k]]
  BY DEF WriteReports
<1>5. /\ A \in [AlertKeys -> AlertRows] /\ OverOrderTold(R, A)
      /\ \A d \in Dates : A[<<"daily_discrepancy", d>>] = alert[<<"daily_discrepancy", d>>]
  <2>1. CASE kind = "operation"
    BY <1>1, <1>3, <1>4, <2>1, OverOrderTells
  <2>2. CASE kind = "employee"
    <3>1. A = alert
      BY <1>4, <2>2
    <3>2. Reported(R, "operation") = Reported(rep, "operation")
      BY <1>1, <2>2, OperationsKept
    <3> QED
      BY <1>1, <3>1, <3>2 DEF OverOrderTold, Telling
  <2> QED
    BY <2>1, <2>2
<1>6. \A k \in AlertKeys : Reconciled(R, A[k], k[2]) \in AlertRows /\ Told(R, Reconciled(R, A[k], k[2]), k[2])
  BY <1>5, ReconciledTells
<1>7. alert' \in [AlertKeys -> AlertRows]
  BY <1>4, <1>5, <1>6
<1>8. ASSUME NEW d \in Dates \ untold' PROVE Told(R, alert'[<<"daily_discrepancy", d>>], d)
  <2>1. <<"daily_discrepancy", d>> \in AlertKeys
    BY AlertKey
  <2>2. CASE d \in dates
    <3>1. alert'[<<"daily_discrepancy", d>>] = Reconciled(R, A[<<"daily_discrepancy", d>>], d)
      BY <1>4, <2>1, <2>2
    <3> QED
      BY <1>6, <2>1, <3>1
  <2>3. CASE d \notin dates
    <3>1. alert'[<<"daily_discrepancy", d>>] = alert[<<"daily_discrepancy", d>>]
      BY <1>4, <1>5, <2>1, <2>3
    <3>2. d \notin moved /\ d \notin untold
      BY <1>2, <2>3
    <3>3. Figures(R, d) = Figures(rep, d)
      BY <1>1, <2>3, <3>2, FiguresKept
    <3>4. Told(rep, alert[<<"daily_discrepancy", d>>], d)
      BY <3>2 DEF Telling
    <3> QED
      BY <3>1, <3>3, <3>4 DEF Told
  <2> QED
    BY <2>2, <2>3
<1>9. OverOrderTold(R, alert')
  <2>1. \A d \in Dates : alert'[<<"over_order", d>>] = A[<<"over_order", d>>]
    BY <1>4, AlertKey
  <2>2. Open(alert', "over_order") = Open(A, "over_order")
    BY <2>1 DEF Open
  <2>3. Open(A, "over_order") \subseteq Dates
    BY DEF Open
  <2> QED
    BY <1>5, <2>1, <2>2, <2>3 DEF OverOrderTold
<1> QED
  BY <1>2, <1>3, <1>7, <1>8, <1>9 DEF Telling

-----------------------------------------------------------------------------
told == <<rep, alert, untold>>

LEMMA TellingKept ==
    ASSUME Telling, UNCHANGED told PROVE Telling'
BY DEF Telling, told

LEMMA ConfirmsAtEnd ==
    ASSUME TypeOK, ConfirmsKnown, NEW s \in Sessions, Done(s)
    PROVE  ConfirmsKnown'
BY Ended, IdleJob DEF ConfirmsKnown

LEMMA ConfirmsAtStart ==
    ASSUME TypeOK, ConfirmsKnown, NEW s \in Sessions, NEW request, Start(s, request),
           request.op = "confirm" => <<request.kind, request.date>> \in AlertKeys
    PROVE  ConfirmsKnown'
<1>1. job'[s] = request /\ \A t \in Sessions \ {s} : job'[t] = job[t]
  BY DEF Start, TypeOK
<1> QED
  BY <1>1 DEF ConfirmsKnown

\* What leaves reports and alerts alone and asks for no confirmation.
LEMMA AlertsAtStart ==
    ASSUME TypeOK, AlertsInv, UNCHANGED told, NEW s \in Sessions, NEW request, Start(s, request),
           request.op # "confirm"
    PROVE  AlertsInv'
BY TellingKept, ConfirmsAtStart DEF AlertsInv

LEMMA AlertsAtEnd ==
    ASSUME TypeOK, AlertsInv, UNCHANGED told, NEW s \in Sessions, Done(s)
    PROVE  AlertsInv'
BY TellingKept, ConfirmsAtEnd DEF AlertsInv

LEMMA AlertsAlone ==
    ASSUME AlertsInv, UNCHANGED told, UNCHANGED job
    PROVE  AlertsInv'
BY TellingKept DEF AlertsInv, ConfirmsKnown

-----------------------------------------------------------------------------
LEMMA AlertsAfterReport ==
    ASSUME Inv, AlertsInv, ReportStep
    PROVE  AlertsInv'
<1>0. TypeOK /\ Telling /\ ConfirmsKnown /\ rep \in [Reports -> ReportRows] /\ LiveDates(rep)
  BY DEF Inv, AlertsInv, TypeOK, Telling
<1> USE Quantities
<1>1. ASSUME NEW r \in Reports, NEW d \in Dates, NEW q \in Qty, CreateEmployeeReport(r, d, q)
      PROVE  AlertsInv'
  <2> DEFINE row == [status |-> "live", kind |-> "employee", date |-> d, qty |-> q]
             R == [rep EXCEPT ![r] = row]
  <2>1. R \in [Reports -> ReportRows] /\ R[r] = row /\ \A x \in Reports \ {r} : R[x] = rep[x]
    BY <1>0 DEF ReportRows
  <2>2. row.status = "live" /\ row.kind = "employee" /\ row.date = d
    OBVIOUS
  <2>3. WriteReports(R, "employee", {d}, {}) /\ UNCHANGED job /\ rep[r].status = "none"
    BY <1>1 DEF CreateEmployeeReport, Fresh
  <2> HIDE DEF R, row
  <2>4. Telling'
    BY <1>0, <2>1, <2>2, <2>3, TellingWritten
  <2> QED
    BY <1>0, <2>3, <2>4 DEF AlertsInv, ConfirmsKnown
<1>2. ASSUME NEW r \in Reports, NEW d \in Dates, NEW q \in Qty, CreateOperationReport(r, d, q)
      PROVE  AlertsInv'
  <2> DEFINE row == [status |-> "live", kind |-> "operation", date |-> d, qty |-> rep[r].qty + q]
             R == [rep EXCEPT ![r] = row]
  <2>1. rep[r].qty + q \in 0..MaxQty
    <3>1. rep[r].qty + q <= MaxQty
      BY <1>2 DEF CreateOperationReport
    <3>2. rep[r].qty \in 0..MaxQty /\ q \in 1..MaxQty
      BY <1>0 DEF ReportRows, Qty
    <3> QED
      BY <3>1, <3>2
  <2>2. R \in [Reports -> ReportRows] /\ R[r] = row /\ \A x \in Reports \ {r} : R[x] = rep[x]
    BY <1>0, <2>1 DEF ReportRows
  <2>3. row.status = "live" /\ row.kind = "operation" /\ row.date = d
    OBVIOUS
  <2>4. WriteReports(R, "operation", {d}, {}) /\ UNCHANGED job
    BY <1>2 DEF CreateOperationReport
  <2>5. rep[r].status = "live" => rep[r].kind = "operation" /\ rep[r].date = d
    BY <1>2 DEF CreateOperationReport, LiveReports, Fresh
  <2> HIDE DEF R, row
  <2>6. Telling'
    BY <1>0, <2>2, <2>3, <2>4, <2>5, TellingWritten
  <2> QED
    BY <1>0, <2>4, <2>6 DEF AlertsInv, ConfirmsKnown
<1>3. ASSUME NEW s \in Sessions, NEW r \in Reports, UpdateReportBegin(s, r) \/ RemoveReportBegin(s, r)
      PROVE  AlertsInv'
  <2>1. PICK request : Start(s, request) /\ request.op \in {"updateReport", "removeReport"} /\ UNCHANGED told
    BY <1>3 DEF UpdateReportBegin, RemoveReportBegin, Idle, floor, told
  <2> QED
    BY <1>0, <2>1, AlertsAtStart
<1>4. ASSUME NEW s \in Sessions, NEW d \in Dates, NEW q \in Qty, UpdateReportCommit(s, d, q)
      PROVE  AlertsInv'
  <2>0. PICK r : r = job[s].doc
    OBVIOUS
  <2> DEFINE R == [rep EXCEPT ![r].date = d, ![r].qty = q]
  <2>1. /\ WriteReports(R, rep[r].kind, {job[s].date, d}, {rep[r].date} \ {job[s].date})
        /\ Done(s) /\ job[s].op = "updateReport" /\ rep[r].status = "live"
    BY <1>4, <2>0 DEF UpdateReportCommit, DatesOf, Working
  <2>2. r \in Reports
    BY <2>0, <2>1 DEF Inv, InFlight
  <2>3. PICK kind \in {"operation", "employee"} : kind = rep[r].kind
    BY <1>0, <2>2 DEF ReportRows
  <2>4. R \in [Reports -> ReportRows] /\ \A x \in Reports \ {r} : R[x] = rep[x]
    BY <1>0, <2>2 DEF ReportRows
  <2>5. R[r].kind = kind /\ R[r].date = d
    BY <1>0, <2>2, <2>3 DEF ReportRows
  <2> HIDE DEF R
  <2>6. Telling'
    <3>1. PICK dates : dates = {job[s].date, d}
      OBVIOUS
    <3>2. PICK moved : moved = {rep[r].date} \ {job[s].date}
      OBVIOUS
    <3>3. WriteReports(R, kind, dates, moved)
      BY <2>1, <2>3, <3>1, <3>2
    <3>4. rep[r].date \in dates \cup moved /\ d \in dates \cap Dates
      BY <3>1, <3>2
    <3> QED
      BY <1>0, <2>2, <2>3, <2>4, <2>5, <3>3, <3>4, TellingWritten
  <2> QED
    BY <1>0, <2>1, <2>6, ConfirmsAtEnd DEF AlertsInv
<1>5. ASSUME NEW s \in Sessions, RemoveReportCommit(s) PROVE AlertsInv'
  <2>0. PICK r : r = job[s].doc
    OBVIOUS
  <2> DEFINE R == [rep EXCEPT ![r] = [NoReport EXCEPT !.status = "deleted"]]
  <2>1. /\ WriteReports(R, rep[r].kind, {job[s].date}, {rep[r].date} \ {job[s].date})
        /\ Done(s) /\ job[s].op = "removeReport" /\ rep[r].status = "live"
    BY <1>5, <2>0 DEF RemoveReportCommit, Working
  <2>2. r \in Reports
    BY <2>0, <2>1 DEF Inv, InFlight
  <2>3. PICK kind \in {"operation", "employee"} : kind = rep[r].kind
    BY <1>0, <2>2 DEF ReportRows
  <2>4. R \in [Reports -> ReportRows] /\ (\A x \in Reports \ {r} : R[x] = rep[x])
        /\ R[r].status = "deleted"
    BY <1>0, <2>2 DEF ReportRows, NoReport
  <2> HIDE DEF R
  <2>6. Telling'
    <3>1. PICK dates : dates = {job[s].date}
      OBVIOUS
    <3>2. PICK moved : moved = {rep[r].date} \ {job[s].date}
      OBVIOUS
    <3>3. WriteReports(R, kind, dates, moved)
      BY <2>1, <2>3, <3>1, <3>2
    <3>4. rep[r].date \in dates \cup moved
      BY <3>1, <3>2
    <3> QED
      BY <1>0, <2>2, <2>3, <2>4, <3>3, <3>4, TellingWritten
  <2> QED
    BY <1>0, <2>1, <2>6, ConfirmsAtEnd DEF AlertsInv
<1> QED
  BY <1>1, <1>2, <1>3, <1>4, <1>5 DEF ReportStep

\* A confirmation keeps the figures and confirms even what had recovered.
LEMMA AlertsAfterOrder ==
    ASSUME Inv, AlertsInv, OrderStep
    PROVE  AlertsInv'
<1>0. TypeOK /\ Telling /\ ConfirmsKnown
  BY DEF Inv, AlertsInv
<1>1. ASSUME NEW s \in Sessions, NEW k \in AlertKeys, ConfirmBegin(s, k) PROVE AlertsInv'
  <2> DEFINE request == [Idle EXCEPT !.op = "confirm", !.kind = k[1], !.date = k[2]]
  <2>1. Start(s, request) /\ UNCHANGED told
    BY <1>1 DEF ConfirmBegin, floor, told
  <2>2. <<request.kind, request.date>> \in AlertKeys
    BY AlertKey DEF Idle
  <2> HIDE DEF request
  <2> QED
    BY <1>0, <2>1, <2>2, TellingKept, ConfirmsAtStart DEF AlertsInv
<1>2. ASSUME NEW s \in Sessions, ConfirmCommit(s) PROVE AlertsInv'
  <2>1. PICK key : key = <<job[s].kind, job[s].date>>
    OBVIOUS
  <2>2. /\ alert' = [alert EXCEPT ![key].status = "confirmed"]
        /\ UNCHANGED <<rep, untold>> /\ Done(s) /\ key \in AlertKeys
    BY <1>0, <1>2, <2>1 DEF ConfirmCommit, Working, ConfirmsKnown
  <2>3. /\ alert' \in [AlertKeys -> AlertRows]
        /\ \A k \in AlertKeys : /\ alert'[k].seen = alert[k].seen
                                /\ alert'[k] = alert[k] \/ alert'[k].status = "confirmed"
    BY <1>0, <2>2 DEF Telling, AlertRows
  <2>4. ASSUME NEW d \in Dates \ untold
        PROVE  Told(rep, alert'[<<"daily_discrepancy", d>>], d)
    <3>1. Told(rep, alert[<<"daily_discrepancy", d>>], d) /\ <<"daily_discrepancy", d>> \in AlertKeys
      BY <1>0, AlertKey DEF Telling
    <3> QED
      BY <2>3, <3>1 DEF Told
  <2>5. OverOrderTold(rep, alert')
    <3>1. \A d \in Dates : /\ alert'[<<"over_order", d>>] = alert[<<"over_order", d>>]
                              \/ alert'[<<"over_order", d>>].status = "confirmed"
      BY <2>3, AlertKey
    <3>2. Open(alert, "over_order") \subseteq Open(alert', "over_order")
      BY <3>1 DEF Open
    <3>3. ASSUME NEW d \in Open(alert', "over_order")
          PROVE  \/ alert'[<<"over_order", d>>].status = "confirmed"
                 \/ /\ d \in Open(alert, "over_order")
                    /\ alert'[<<"over_order", d>>] = alert[<<"over_order", d>>]
      <4>1. d \in Dates /\ alert'[<<"over_order", d>>].status \in {"pending", "confirmed"}
        BY <3>3 DEF Open
      <4>2. CASE alert'[<<"over_order", d>>].status = "confirmed"
        BY <4>2
      <4>3. CASE alert'[<<"over_order", d>>].status # "confirmed"
        <5>1. alert'[<<"over_order", d>>] = alert[<<"over_order", d>>]
          BY <3>1, <4>1, <4>3
        <5>2. d \in Open(alert, "over_order")
          BY <4>1, <5>1 DEF Open
        <5> QED
          BY <5>1, <5>2
      <4> QED
        BY <4>2, <4>3
    <3>4. OverOrderTold(rep, alert)
      BY <1>0 DEF Telling
    <3>5. CASE Reported(rep, "operation") > Target
      BY <3>2, <3>4, <3>5 DEF OverOrderTold
    <3>6. CASE ~ (Reported(rep, "operation") > Target)
      BY <3>3, <3>4, <3>6 DEF OverOrderTold
    <3> QED
      BY <3>5, <3>6
  <2>6. Telling'
    BY <1>0, <2>2, <2>3, <2>4, <2>5 DEF Telling
  <2> QED
    BY <1>0, <2>2, <2>6, ConfirmsAtEnd DEF AlertsInv
<1>3. ASSUME NEW target, Transition(target) PROVE AlertsInv'
  BY <1>3, AlertsAlone DEF Transition, told
<1>4. CASE CancelOperation
  BY <1>4, AlertsAlone DEF CancelOperation, told
<1> QED
  BY <1>1, <1>2, <1>3, <1>4 DEF OrderStep

-----------------------------------------------------------------------------
LEMMA AlertsAfterGoods ==
    ASSUME TypeOK, AlertsInv, NoticeStep \/ SubmissionStep \/ InspectionStep \/ CorrectionStep \/ ReceiptStep
    PROVE  AlertsInv'
<1> USE DEF floor, told
<1>1. ASSUME NEW s \in Sessions, CreateNoticeBegin(s) PROVE AlertsInv'
  BY <1>1, AlertsAtStart DEF CreateNoticeBegin, Idle
<1>2. ASSUME NEW s \in Sessions, NEW n, NEW q, CreateNoticeCommit(s, n, q) PROVE AlertsInv'
  BY <1>2, AlertsAtEnd DEF CreateNoticeCommit
<1>3. ASSUME NEW n, CancelNotice(n) PROVE AlertsInv'
  BY <1>3, AlertsAlone DEF CancelNotice
<1>4. ASSUME NEW s \in Sessions, NEW n, NEW q, CreateSubmissionBegin(s, n, q) PROVE AlertsInv'
  BY <1>4, AlertsAtStart DEF CreateSubmissionBegin, Idle
<1>5. ASSUME NEW s \in Sessions, NEW u, CreateSubmissionCommit(s, u) PROVE AlertsInv'
  BY <1>5, AlertsAtEnd DEF CreateSubmissionCommit
<1>6. ASSUME NEW s \in Sessions, NEW u, UpdateSubmissionBegin(s, u) PROVE AlertsInv'
  BY <1>6, AlertsAtStart DEF UpdateSubmissionBegin, Idle
<1>7. ASSUME NEW s \in Sessions, NEW u, SubmitBegin(s, u) PROVE AlertsInv'
  BY <1>7, AlertsAtStart DEF SubmitBegin, Idle
<1>8. ASSUME NEW s \in Sessions, NEW u, CancelSubmissionBegin(s, u) PROVE AlertsInv'
  BY <1>8, AlertsAtStart DEF CancelSubmissionBegin, Idle
<1>9. ASSUME NEW s \in Sessions, NEW q, UpdateSubmissionCommit(s, q) PROVE AlertsInv'
  BY <1>9, AlertsAtEnd DEF UpdateSubmissionCommit
<1>10. ASSUME NEW s \in Sessions, SubmissionCommit(s) PROVE AlertsInv'
  BY <1>10, AlertsAtEnd DEF SubmissionCommit
<1>11. ASSUME NEW s \in Sessions, NEW u, NEW a, NEW r, CreateQcBegin(s, u, a, r) PROVE AlertsInv'
  BY <1>11, AlertsAtStart DEF CreateQcBegin, Idle
<1>12. ASSUME NEW s \in Sessions, NEW q, CreateQcCommit(s, q) PROVE AlertsInv'
  BY <1>12, AlertsAtEnd DEF CreateQcCommit
<1>13. ASSUME NEW s \in Sessions, NEW q, CorrectQcBegin(s, q) PROVE AlertsInv'
  BY <1>13, AlertsAtStart DEF CorrectQcBegin, Idle
<1>14. ASSUME NEW s \in Sessions, NEW q, NEW a, NEW r, CorrectQcCommit(s, q, a, r) PROVE AlertsInv'
  BY <1>14, AlertsAtEnd DEF CorrectQcCommit
<1>15. ASSUME NEW s \in Sessions, NEW q, NEW kind, NEW n, CreateReceiptBegin(s, q, kind, n) PROVE AlertsInv'
  BY <1>15, AlertsAtStart DEF CreateReceiptBegin, Idle
<1>16. ASSUME NEW s \in Sessions, NEW g, CreateReceiptCommit(s, g) PROVE AlertsInv'
  BY <1>16, AlertsAtEnd DEF CreateReceiptCommit
<1>17. ASSUME NEW g, PostReceipt(g) \/ ReverseReceipt(g) PROVE AlertsInv'
  BY <1>17, AlertsAlone DEF PostReceipt, ReverseReceipt
<1>18. CASE NoticeStep
  BY <1>18, <1>1, <1>2, <1>3 DEF NoticeStep
<1>19. CASE SubmissionStep
  BY <1>19, <1>4, <1>5, <1>6, <1>7, <1>8, <1>9, <1>10 DEF SubmissionStep
<1>20. CASE InspectionStep
  BY <1>20, <1>11, <1>12 DEF InspectionStep
<1>21. CASE CorrectionStep
  BY <1>21, <1>13, <1>14 DEF CorrectionStep
<1>22. CASE ReceiptStep
  BY <1>22, <1>15, <1>16, <1>17 DEF ReceiptStep
<1> QED
  BY <1>18, <1>19, <1>20, <1>21, <1>22

LEMMA AlertsStep == Inv /\ AlertsInv /\ [Next]_vars => AlertsInv'
<1> SUFFICES ASSUME Inv, AlertsInv, [Next]_vars PROVE AlertsInv'
  OBVIOUS
<1>0. TypeOK
  BY DEF Inv
<1>1. ASSUME NEW s \in Sessions, Rollback(s) PROVE AlertsInv'
  BY <1>0, <1>1, AlertsAtEnd DEF Rollback, floor, told
<1>2. CASE UNCHANGED vars
  BY <1>2, AlertsAlone DEF vars, floor, told
<1> QED
  BY <1>0, <1>1, <1>2, AlertsAfterReport, AlertsAfterOrder, AlertsAfterGoods DEF Next

LEMMA NothingReported ==
    ASSUME NEW R, \A r \in Reports : R[r].status # "live", NEW kind
    PROVE  Reported(R, kind) = 0 /\ \A d : ReportedOn(R, kind, d) = 0
<1>1. LiveReports(R, kind) = {}
  BY DEF LiveReports
<1> QED
  BY <1>1, SumEmpty DEF Reported, ReportedOn

LEMMA FirstsExist == FirstReport \in Reports /\ FirstDay \in Dates
BY DEF FirstReport, FirstDay

LEMMA AlertsInit == Init => AlertsInv
<1> SUFFICES ASSUME Init PROVE AlertsInv
  OBVIOUS
<1>0. NoAlert \in AlertRows /\ NoAlert.status = "none"
  BY DEF NoAlert, AlertRows
<1>1. ConfirmsKnown
  BY IdleJob DEF Init, ConfirmsKnown
<1>2. CASE rep = [r \in Reports |-> NoReport] /\ alert = [k \in AlertKeys |-> NoAlert]
  <2>1. \A r \in Reports : rep[r].status # "live"
    BY <1>2 DEF NoReport
  <2>2. \A kind : Reported(rep, kind) = 0 /\ \A d : ReportedOn(rep, kind, d) = 0
    BY <2>1, NothingReported
  <2>3. alert \in [AlertKeys -> AlertRows] /\ \A k \in AlertKeys : alert[k].status = "none"
    BY <1>0, <1>2
  <2>4. LiveDates(rep)
    BY <2>1 DEF LiveDates
  <2>5. \A d \in Dates : Told(rep, alert[<<"daily_discrepancy", d>>], d)
    BY <2>2, <2>3, AlertKey DEF Told, Figures
  <2>6. OverOrderTold(rep, alert)
    BY <2>2, <2>3, AlertKey DEF OverOrderTold, Open
  <2> QED
    BY <1>1, <2>3, <2>4, <2>5, <2>6 DEF AlertsInv, Telling
<1>3. CASE Reporting
  <2> USE FirstsExist
  <2>1. \A r \in Reports : rep[r] = IF r = FirstReport
                   THEN [status |-> "live", kind |-> "employee", date |-> FirstDay, qty |-> MaxQty]
                   ELSE NoReport
    BY <1>3 DEF Reporting
  <2>2. \A k \in AlertKeys : alert[k] = IF k = <<"daily_discrepancy", FirstDay>>
                   THEN [status |-> "pending", seen |-> <<0, MaxQty>>] ELSE NoAlert
    BY <1>3 DEF Reporting
  <2>3. LiveDates(rep)
    BY <2>1 DEF LiveDates, NoReport
  <2>4. [status |-> "pending", seen |-> <<0, MaxQty>>] \in AlertRows
    BY DEF AlertRows
  <2>5. alert \in [AlertKeys -> AlertRows]
    BY <1>0, <1>3, <2>4 DEF Reporting
  <2>6. LiveReports(rep, "operation") = {}
    BY <2>1 DEF LiveReports, NoReport
  <2>7. Reported(rep, "operation") = 0 /\ \A d : ReportedOn(rep, "operation", d) = 0
    BY <2>6, SumEmpty DEF Reported, ReportedOn
  <2>8. OverOrderTold(rep, alert)
    BY <1>0, <2>2, <2>7, AlertKey DEF OverOrderTold, Open
  <2>9. ASSUME NEW d \in Dates PROVE Told(rep, alert[<<"daily_discrepancy", d>>], d)
    <3>0. <<"daily_discrepancy", d>> \in AlertKeys
      BY AlertKey
    <3>1. CASE d # FirstDay
      <4>1. {x \in LiveReports(rep, "employee") : rep[x].date = d} = {}
        BY <2>1, <3>1 DEF LiveReports, NoReport
      <4>2. ReportedOn(rep, "employee", d) = 0
        BY <4>1, SumEmpty DEF ReportedOn
      <4>3. alert[<<"daily_discrepancy", d>>].status = "none"
        BY <1>0, <2>2, <3>0, <3>1
      <4> QED
        BY <2>7, <4>2, <4>3 DEF Told, Figures
    <3>2. CASE d = FirstDay
      <4>1. {x \in LiveReports(rep, "employee") : rep[x].date = d} = {} \cup {FirstReport}
        <5>1. ASSUME NEW x \in Reports
              PROVE  (rep[x].status = "live" /\ rep[x].kind = "employee" /\ rep[x].date = d) <=> x = FirstReport
          BY <2>1, <3>2 DEF NoReport
        <5> QED
          BY <5>1 DEF LiveReports
      <4>2. QtyIn(rep)[FirstReport] = MaxQty /\ MaxQty \in Nat /\ MaxQty # 0
        BY <2>1 DEF QtyIn
      <4>3. SumOf(QtyIn(rep), {} \cup {FirstReport}) = QtyIn(rep)[FirstReport] + SumOf(QtyIn(rep), {})
        BY <4>2, FS_EmptySet, SumAdd
      <4>4. ReportedOn(rep, "employee", d) = MaxQty
        <5>1. ReportedOn(rep, "employee", d) = SumOf(QtyIn(rep), {x \in LiveReports(rep, "employee") : rep[x].date = d})
          BY DEF ReportedOn
        <5>2. ReportedOn(rep, "employee", d) = SumOf(QtyIn(rep), {} \cup {FirstReport})
          BY <4>1, <5>1
        <5> QED
          BY <4>2, <4>3, <5>2, SumEmpty
      <4>5. alert[<<"daily_discrepancy", d>>] = [status |-> "pending", seen |-> <<0, MaxQty>>]
        BY <2>2, <3>0, <3>2
      <4>6. Figures(rep, d) = <<0, MaxQty>>
        BY <2>7, <4>4 DEF Figures
      <4> HIDE DEF Figures
      <4> QED
        BY <4>2, <4>5, <4>6 DEF Told
    <3> QED
      BY <3>1, <3>2
  <2> QED
    BY <1>1, <2>3, <2>5, <2>8, <2>9 DEF AlertsInv, Telling
<1> QED
  BY <1>2, <1>3 DEF Init

(***************************************************************************)
(* Whatever reports are written and confirmed at the same time, the alerts *)
(* tell what the reports show (reconcileDailyDiscrepancy,                  *)
(* recomputeOverOrder).                                                    *)
(***************************************************************************)
THEOREM AlertsTell == Spec => []AlertsFollowReports
<1>1. Inv /\ AlertsInv /\ [Next]_vars => Inv' /\ AlertsInv'
  BY Step, AlertsStep
<1>2. Init => Inv /\ AlertsInv
  BY InvInit, AlertsInit
<1>3. AlertsInv => AlertsFollowReports
  <2> SUFFICES ASSUME AlertsInv PROVE AlertsFollowReports
    OBVIOUS
  <2>1. \A d \in Dates \ untold : Told(rep, alert[<<"daily_discrepancy", d>>], d)
    BY DEF AlertsInv, Telling
  <2>2. OverOrderTold(rep, alert)
    BY DEF AlertsInv, Telling
  <2> QED
    BY <2>1, <2>2 DEF Told, Figures, OverOrderTold, AlertsFollowReports
<1> QED
  BY <1>1, <1>2, <1>3, PTL DEF Spec

\* Only transitions change the status of the order.
LEMMA OrderMoves ==
    ASSUME [Next]_vars, order' # order
    PROVE  \E target \in {"in_progress", "paused", "completed", "closed"} : Transition(target)
<1>1. ASSUME NEW R, NEW kind, NEW dates, NEW moved, WriteReports(R, kind, dates, moved)
      PROVE  order' = order
  BY <1>1 DEF WriteReports
<1>2. ~ ReportStep
  BY <1>1 DEF ReportStep, CreateEmployeeReport, CreateOperationReport, UpdateReportBegin, RemoveReportBegin,
         UpdateReportCommit, RemoveReportCommit, floor
<1>3. ~ NoticeStep
  BY DEF NoticeStep, CreateNoticeBegin, CreateNoticeCommit, CancelNotice, floor
<1>4. ~ SubmissionStep
  BY DEF SubmissionStep, CreateSubmissionBegin, CreateSubmissionCommit, UpdateSubmissionBegin, SubmitBegin,
         CancelSubmissionBegin, UpdateSubmissionCommit, SubmissionCommit, floor
<1>5. ~ InspectionStep /\ ~ CorrectionStep
  BY DEF InspectionStep, CreateQcBegin, CreateQcCommit, CorrectionStep, CorrectQcBegin, CorrectQcCommit, floor
<1>6. ~ ReceiptStep
  BY DEF ReceiptStep, CreateReceiptBegin, CreateReceiptCommit, PostReceipt, ReverseReceipt, floor
<1>7. ~ UNCHANGED vars /\ \A s \in Sessions : ~ Rollback(s)
  BY DEF vars, floor, Rollback
<1>8. OrderStep
  BY <1>2, <1>3, <1>4, <1>5, <1>6, <1>7 DEF Next
<1> QED
  BY <1>8 DEF OrderStep, ConfirmBegin, ConfirmCommit, CancelOperation, floor

(***************************************************************************)
(* The order is completed on what is reported, and over confirmed          *)
(* discrepancies only (assertCompletionReady), whatever reports were       *)
(* corrected in between.                                                   *)
(***************************************************************************)
THEOREM CompletionRestsOnReports == Spec => CompletionIsLookedAt
<1> DEFINE Looked ==
             order # "completed" /\ order' = "completed" /\ operation = "active"
               => /\ PackagingReported(rep) >= Target
                  /\ \A d \in Dates \ untold :
                       ReportedOn(rep, "operation", d) # ReportedOn(rep, "employee", d)
                         => alert[<<"daily_discrepancy", d>>].status = "confirmed"
<1>1. Inv /\ AlertsInv /\ [Next]_vars => Inv' /\ AlertsInv'
  BY Step, AlertsStep
<1>2. Init => Inv /\ AlertsInv
  BY InvInit, AlertsInit
<1>3. AlertsInv /\ [Next]_vars => Looked
  <2> SUFFICES ASSUME AlertsInv, [Next]_vars, order # "completed", order' = "completed", operation = "active"
               PROVE  /\ PackagingReported(rep) >= Target
                      /\ \A d \in Dates \ untold :
                           ReportedOn(rep, "operation", d) # ReportedOn(rep, "employee", d)
                             => alert[<<"daily_discrepancy", d>>].status = "confirmed"
    OBVIOUS
  <2>1. CompletionReady
    BY OrderMoves DEF Transition
  <2>2. AlertsConfirmed /\ PackagingReported(rep) >= Target
    BY <2>1 DEF CompletionReady
  <2>3. ASSUME NEW d \in Dates \ untold,
               ReportedOn(rep, "operation", d) # ReportedOn(rep, "employee", d)
        PROVE  alert[<<"daily_discrepancy", d>>].status = "confirmed"
    <3>1. Told(rep, alert[<<"daily_discrepancy", d>>], d)
      BY DEF AlertsInv, Telling
    <3>2. alert[<<"daily_discrepancy", d>>].status \in {"pending", "confirmed"}
      BY <2>3, <3>1 DEF Told, Figures
    <3> QED
      BY <2>2, <3>2, AlertKey DEF AlertsConfirmed
  <2> QED
    BY <2>2, <2>3
<1>4. Looked => [Looked]_vars
  OBVIOUS
<1> HIDE DEF Looked
<1>5. Inv /\ AlertsInv /\ [Next]_vars => [Looked]_vars
  BY <1>3, <1>4
<1>6. Spec => [][Looked]_vars
  BY <1>1, <1>2, <1>5, PTL DEF Spec
<1> QED
  BY <1>6 DEF CompletionIsLookedAt, Looked
=============================================================================
