-------------------------- MODULE Warehouse_proofs --------------------------
(***************************************************************************)
(* Proofs about Warehouse, for any number of requests, documents and       *)
(* notices and any quantities.                                             *)
(***************************************************************************)
EXTENDS WarehouseInvariants, FiniteSetTheorems, TLAPS

USE FiniteIds, DistinctIds

-----------------------------------------------------------------------------
(***************************************************************************)
(* The sum of the quantities of any set of documents is a natural number.  *)
(***************************************************************************)
LEMMA TotalNat ==
    ASSUME NEW rows, NEW S \in SUBSET Docs
    PROVE  Total(rows, S) \in Nat
<1>1. IsFiniteSet(S)
  BY FS_Subset
<1>2. IsFiniteSet(Quantities)
  BY FS_Interval DEF Quantities
<1>3. IsFiniteSet(S \X Quantities)
  BY <1>1, <1>2, FS_Product
<1>4. IsFiniteSet({p \in S \X Quantities : p[2] <= rows[p[1]].qty})
  BY <1>3, FS_Subset
<1> QED
  BY <1>4, FS_CardinalityType DEF Total

(***************************************************************************)
(* What syncNoticeStatus computes is a notice row, and it computes none    *)
(* for a missing notice.                                                   *)
(***************************************************************************)
LEMMA SyncShape ==
    ASSUME NEW rows, NEW n
    PROVE  /\ SyncNoticeStatus(rows, n) \in Sync
           /\ \/ SyncNoticeStatus(rows, n) = Keep
              \/ /\ n # NoOne
                 /\ SyncNoticeStatus(rows, n).st \in OpenNotice \cup {"completed"}
<1>1. OfNotice(rows, n, LiveStatus) \in SUBSET Docs
  BY DEF OfNotice, InStatus, Docs
<1>2. Total(rows, OfNotice(rows, n, LiveStatus)) \in Nat
  BY <1>1, TotalNat
<1> QED
  BY <1>2 DEF SyncNoticeStatus, Sync, Keep, OpenNotice

LEMMA SyncInShape ==
    ASSUME NEW rows, NEW d
    PROVE  /\ SyncFor(d, rows) \in Sync
           /\ SyncFor(d, rows) = Keep \/ SyncFor(d, rows).st \in InNoticeSt
BY DEF SyncFor, SyncInNotice, InNoticeStatus, Sync, Keep, InNoticeSt

-----------------------------------------------------------------------------
LEMMA TypeInit == Init => TypeInv
<1> SUFFICES ASSUME Init PROVE TypeInv
  OBVIOUS
<1>1. Idle \in Request
  BY DEF Idle, NewRequest, Request, Quantities, Sync, Keep
<1>2. TypeOK
  BY <1>1 DEF Init, TypeOK, DocRow, NoticeRow, InNoticeSt, Categories, Quantities, Docs
<1>3. \A s \in Sessions : Shape(req[s])
  BY DEF Init, Idle, NewRequest, Shape, ReceiptOps, NoticeOps, OutboundOps, ReturnOps
<1> QED
  BY <1>2, <1>3 DEF TypeInv

-----------------------------------------------------------------------------
(***************************************************************************)
(* The common steps of a request keep the types.                           *)
(***************************************************************************)
LEMMA NewRequestType ==
    ASSUME NEW op \in Endpoints, NEW d \in Docs \cup {NoOne},
           NEW n \in Notices \cup {NoOne}, NEW q \in Quantities,
           NEW plan \in Seq(Rows)
    PROVE  /\ NewRequest(op, d, n, q, plan) \in Request
           /\ NewRequest(op, d, n, q, plan).op = op
           /\ NewRequest(op, d, n, q, plan).doc = d
           /\ NewRequest(op, d, n, q, plan).notice = n
           /\ NewRequest(op, d, n, q, plan).sync = Keep
BY DEF NewRequest, Request, Sync, Keep

LEMMA ChangedHeld ==
    \A r \in Request, h \in Nat :
        [r EXCEPT !.held = h] \in Request /\ (Shape(r) => Shape([r EXCEPT !.held = h]))
BY DEF Request, Shape

Stepped(r, st, sync) == [r EXCEPT !.step = st, !.sync = sync]

LEMMA ChangedStep ==
    ASSUME NEW r \in Request, NEW st \in {"check", "update", "save"}, NEW sync \in Sync
    PROVE  LET q == Stepped(r, st, sync)
           IN  /\ q \in Request
               /\ q.op = r.op /\ q.doc = r.doc /\ q.notice = r.notice
               /\ q.sync = sync
BY DEF Request, Stepped

LEMMA BeginType ==
    ASSUME TypeInv, NEW s \in Sessions, NEW r \in Request, Shape(r), Begin(s, r)
    PROVE  TypeInv'
BY DEF TypeInv, TypeOK, Begin, data, Shape

LEMMA IdleType == Idle \in Request /\ Shape(Idle)
BY DEF Idle, NewRequest, Request, Quantities, Sync, Keep, Shape,
       ReceiptOps, NoticeOps, OutboundOps, ReturnOps

LEMMA FinishType ==
    ASSUME TypeInv, NEW s \in Sessions, Finish(s)
    PROVE  /\ lock' \in [Rows -> Sessions \cup {NoOne}]
           /\ req' \in [Sessions -> Request]
           /\ \A t \in Sessions : Shape(req'[t])
BY IdleType DEF TypeInv, TypeOK, Finish, Shape

LEMMA RefuseType ==
    ASSUME TypeInv, NEW s \in Sessions, Refuse(s)
    PROVE  TypeInv'
BY FinishType DEF TypeInv, TypeOK, Refuse, data, Shape

LEMMA ProceedType ==
    ASSUME TypeInv, NEW s \in Sessions, NEW step \in {"check", "update", "save"},
           NEW sync \in Sync, Proceed(s, step, sync),
           Shape(Stepped(req[s], step, sync))
    PROVE  TypeInv'
<1>1. req[s] \in Request
  BY DEF TypeInv, TypeOK
<1>2. Stepped(req[s], step, sync) \in Request
  BY <1>1, ChangedStep
<1>3. req' = [req EXCEPT ![s] = Stepped(req[s], step, sync)]
  BY DEF Proceed, TypeInv, TypeOK, Stepped
<1>4. UNCHANGED <<data, lock>>
  BY DEF Proceed
<1> QED
  BY <1>2, <1>3, <1>4 DEF TypeInv, TypeOK, data

LEMMA TakeLockType ==
    ASSUME TypeInv, NEW s \in Sessions, TakeLock(s)
    PROVE  TypeInv'
<1> DEFINE r == [req[s] EXCEPT !.held = @ + 1]
<1>0. req[s] \in Request /\ req[s].held + 1 \in Nat
  BY DEF TypeInv, TypeOK, Request
<1>1. r \in Request /\ Shape(r)
  BY <1>0, ChangedHeld DEF TypeInv
<1>2. req' = [req EXCEPT ![s] = r]
  BY DEF TakeLock, TypeInv, TypeOK
<1>3. req[s].plan[req[s].held + 1] \in Rows
  BY DEF TypeInv, TypeOK, Request, TakeLock
<1>4. lock' \in [Rows -> Sessions \cup {NoOne}]
  BY <1>3 DEF TakeLock, TypeInv, TypeOK
<1>5. UNCHANGED data
  BY DEF TakeLock
<1> HIDE DEF r
<1> QED
  BY <1>1, <1>2, <1>4, <1>5 DEF TypeInv, TypeOK, data

(***************************************************************************)
(* One lemma per kind of step: a request begins, a receipt, a notice, an   *)
(* outbound, a customer return or a receivable moves on.                   *)
(***************************************************************************)
LEMMA BeginNew ==
    ASSUME TypeInv, NEW s \in Sessions,
           NEW op, NEW d \in Docs \cup {NoOne}, NEW n \in Notices \cup {NoOne},
           NEW q \in Quantities, NEW plan \in Seq(Rows),
           op \in ReceiptOps  => d \in Receipts,
           op \in NoticeOps   => n \in Notices,
           op \in OutboundOps => d \in Outbounds,
           op \in ReturnOps   => d \in Returns,
           Begin(s, NewRequest(op, d, n, q, plan))
    PROVE  TypeInv'
<1> DEFINE r == NewRequest(op, d, n, q, plan)
<1>1. r.op = op
  BY DEF NewRequest
<1>2. op \in Endpoints
  BY <1>1 DEF Begin
<1>3. /\ r \in Request
      /\ r.op = op /\ r.doc = d /\ r.notice = n /\ r.sync = Keep
  BY <1>2, NewRequestType
<1> HIDE DEF r
<1>4. Shape(r)
  BY <1>3 DEF Shape
<1> QED
  BY <1>3, <1>4, BeginType DEF r

LEMMA Plans ==
    /\ << >> \in Seq(Rows)
    /\ \A x \in Rows : <<x>> \in Seq(Rows)
    /\ \A x, y \in Rows : <<x, y>> \in Seq(Rows)
OBVIOUS

LEMMA ReceiptPlans ==
    \A d \in Receipts : <<QcOf[d]>> \in Seq(Rows) /\ <<d, QcOf[d]>> \in Seq(Rows)
<1>1. \A d \in Receipts : d \in Rows /\ QcOf[d] \in Rows
  BY ReceiptQc DEF Receipts, Docs, Rows
<1> QED
  BY <1>1, Plans

LEMMA TypeBeginReceipt ==
    ASSUME TypeInv, NEW s \in Sessions, BeginReceipt(s)
    PROVE  TypeInv'
<1> USE DEF Receipts, Docs, Rows, ReceiptOps, NoticeOps, OutboundOps, ReturnOps
<1>0. 1 \in Quantities
  BY DEF Quantities
<1>1. CASE BeginCreateReceipt(s)
  <2>1. \A d \in Receipts : CreateReceiptLocks(d) \in Seq(Rows)
    BY ReceiptPlans DEF CreateReceiptLocks
  <2> QED
    BY <1>1, <2>1, BeginNew DEF BeginCreateReceipt
<1>2. CASE BeginPostReceipt(s)
  <2> PICK d \in Receipts : Begin(s, NewRequest("postReceipt", d, NoOne, 1, <<d, QcOf[d]>>))
    BY <1>2 DEF BeginPostReceipt
  <2>1. <<d, QcOf[d]>> \in Seq(Rows) /\ d \in Docs
    BY ReceiptPlans
  <2> DEFINE plan == <<d, QcOf[d]>>
  <2>2. plan \in Seq(Rows) /\ Begin(s, NewRequest("postReceipt", d, NoOne, 1, plan))
    BY <2>1
  <2> HIDE DEF plan
  <2> QED
    BY <1>0, <2>1, <2>2, BeginNew
<1>3. CASE BeginReverseReceipt(s)
  BY <1>0, <1>3, Plans, BeginNew DEF BeginReverseReceipt
<1> QED
  BY <1>1, <1>2, <1>3 DEF BeginReceipt

LEMMA TypeBeginShipment ==
    ASSUME TypeInv, NEW s \in Sessions,
           \/ BeginCreateNotice(s)   \/ BeginCancelNotice(s)
           \/ BeginCreateOutbound(s) \/ BeginFromNotice(s)
           \/ BeginCancelOutbound(s) \/ BeginPostOutbound(s)
           \/ BeginCas(s)            \/ BeginReverseOutbound(s)
    PROVE  TypeInv'
<1> USE DEF Docs, Rows, ReceiptOps, NoticeOps, OutboundOps, ReturnOps
<1>0. 1 \in Quantities
  BY DEF Quantities
<1>n. \A o \in Outbounds : doc[o].notice \in Notices \cup {NoOne}
  BY DEF TypeInv, TypeOK, DocRow
<1>1. CASE BeginCreateNotice(s)
  BY <1>1, Plans, BeginNew DEF BeginCreateNotice
<1>2. CASE BeginCancelNotice(s)
  BY <1>0, <1>2, Plans, BeginNew DEF BeginCancelNotice
<1>3. CASE BeginCreateOutbound(s)
  <2> PICK o \in Outbounds, q \in Quantities :
        Begin(s, [NewRequest("createOutbound", o, NoOne, q, << >>)
                    EXCEPT !.bal = stock["finished_goods"]])
    BY <1>3 DEF BeginCreateOutbound
  <2> DEFINE r == [NewRequest("createOutbound", o, NoOne, q, << >>)
                    EXCEPT !.bal = stock["finished_goods"]]
  <2>1. stock["finished_goods"] \in Int
    BY DEF TypeInv, TypeOK, Categories
  <2> DEFINE R == [op : {"createOutbound"}, doc : {o}, notice : {NoOne}, qty : {q},
                   plan : Seq(Rows), held : {0}, step : {"check"},
                   bal : Int, sync : {Keep}]
  <2>8. NewRequest("createOutbound", o, NoOne, q, << >>) \in R
    BY Plans DEF NewRequest
  <2>9. \A x \in R, b \in Int : [x EXCEPT !.bal = b] \in R
    OBVIOUS
  <2>2. r \in R
    BY <2>1, <2>8, <2>9
  <2> HIDE DEF r
  <2>3. "createOutbound" \in Endpoints
    BY <2>2 DEF Begin, r
  <2>4. r.op = "createOutbound" /\ r.doc = o /\ r.sync = Keep
    BY <2>2
  <2>5. Shape(r)
    BY <2>4 DEF Shape
  <2>6. Keep \in Sync
    BY DEF Keep, Sync
  <2>7. r \in Request
    BY <2>2, <2>3, <2>6, Plans DEF Request
  <2> QED
    BY <2>5, <2>7, BeginType DEF r
<1>4. CASE BeginFromNotice(s)
  BY <1>4, Plans, BeginNew DEF BeginFromNotice
<1>5. CASE BeginCancelOutbound(s)
  BY <1>0, <1>n, <1>5, Plans, BeginNew DEF BeginCancelOutbound
<1>6. CASE BeginPostOutbound(s)
  BY <1>0, <1>n, <1>6, Plans, BeginNew DEF BeginPostOutbound, PostOutboundLocks
<1>7. CASE BeginCas(s)
  BY <1>0, <1>7, Plans, BeginNew DEF BeginCas, CasFrom
<1>8. CASE BeginReverseOutbound(s)
  BY <1>0, <1>n, <1>8, Plans, BeginNew DEF BeginReverseOutbound
<1> QED
  BY <1>1, <1>2, <1>3, <1>4, <1>5, <1>6, <1>7, <1>8

LEMMA TypeBeginReturn ==
    ASSUME TypeInv, NEW s \in Sessions,
           BeginPostReturn(s) \/ BeginReverseReturn(s)
    PROVE  TypeInv'
<1> USE DEF Docs, Rows, ReceiptOps, NoticeOps, OutboundOps, ReturnOps
<1>0. 1 \in Quantities
  BY DEF Quantities
<1>1. CASE BeginPostReturn(s)
  BY <1>0, <1>1, Plans, BeginNew DEF BeginPostReturn
<1>2. CASE BeginReverseReturn(s)
  BY <1>0, <1>2, Plans, BeginNew DEF BeginReverseReturn
<1> QED
  BY <1>1, <1>2

-----------------------------------------------------------------------------
LEMMA ProceedReceipt ==
    ASSUME TypeInv, NEW s \in Sessions, req[s].op \in ReceiptOps,
           NEW step \in {"check", "update", "save"}, NEW sync \in Sync,
           sync = Keep \/ sync.st \in InNoticeSt, Proceed(s, step, sync)
    PROVE  TypeInv'
<1> DEFINE r == Stepped(req[s], step, sync)
<1>1. req[s] \in Request /\ Shape(req[s])
  BY DEF TypeInv, TypeOK
<1>2. r.op = req[s].op /\ r.doc = req[s].doc /\ r.sync = sync
  BY <1>1, ChangedStep
<1> HIDE DEF r
<1>3. Shape(r)
  BY <1>1, <1>2 DEF Shape, ReceiptOps, NoticeOps, OutboundOps, ReturnOps
<1> QED
  BY <1>3, ProceedType DEF r

LEMMA ProceedOther ==
    ASSUME TypeInv, NEW s \in Sessions, req[s].op \notin ReceiptOps,
           NEW step \in {"check", "update", "save"}, NEW sync \in Sync,
           \/ sync = Keep
           \/ req[s].notice # NoOne /\ sync.st \in OpenNotice \cup {"completed"},
           Proceed(s, step, sync)
    PROVE  TypeInv'
<1> DEFINE r == Stepped(req[s], step, sync)
<1>1. req[s] \in Request /\ Shape(req[s])
  BY DEF TypeInv, TypeOK
<1>2. /\ r.op = req[s].op /\ r.doc = req[s].doc /\ r.sync = sync
      /\ r.notice = req[s].notice
  BY <1>1, ChangedStep
<1>3. req[s].notice \in Notices \cup {NoOne}
  BY <1>1 DEF Request
<1> HIDE DEF r
<1>4. Shape(r)
  BY <1>1, <1>2, <1>3 DEF Shape
<1> QED
  BY <1>4, ProceedType DEF r

LEMMA FinishedType ==
    ASSUME TypeInv, NEW s \in Sessions, Finish(s),
           doc' \in [Docs -> DocRow], notice' \in [Notices -> NoticeRow],
           receivable' \in [Outbounds -> {"absent", "draft", "confirmed", "cancelled"}],
           accrued' \subseteq Outbounds, stock' \in [Categories -> Int],
           facts' \in [Docs -> SUBSET {"post", "reverse"}], inNotice' \in InNoticeSt
    PROVE  TypeInv'
BY FinishType DEF TypeInv, TypeOK

LEMMA SetStatusType ==
    ASSUME TypeInv, NEW d \in Docs,
           NEW st \in {"draft", "reversed", "cancelled"} \cup LiveStatus
    PROVE  SetStatus(d, st) \in [Docs -> DocRow]
<1>1. doc[d] \in DocRow /\ doc \in [Docs -> DocRow]
  BY DEF TypeInv, TypeOK
<1>2. [doc[d] EXCEPT !.st = st] \in DocRow
  BY <1>1 DEF DocRow
<1>3. SetStatus(d, st) = [doc EXCEPT ![d] = [doc[d] EXCEPT !.st = st]]
  BY <1>1 DEF SetStatus
<1> QED
  BY <1>1, <1>2, <1>3

LEMMA FactsType ==
    ASSUME TypeInv, NEW d \in Docs, NEW f \in {"post", "reverse"}
    PROVE  [facts EXCEPT ![d] = @ \cup {f}] \in [Docs -> SUBSET {"post", "reverse"}]
BY DEF TypeInv, TypeOK

LEMMA DocType ==
    ASSUME TypeInv, NEW d \in Docs
    PROVE  doc[d].qty \in Quantities /\ doc[d].qty \in Nat /\ doc[d].cat \in Categories
BY DEF TypeInv, TypeOK, DocRow, Quantities

LEMMA StockType ==
    ASSUME TypeInv, NEW c \in Categories, NEW q \in Nat
    PROVE  /\ stock[c] \in Int
           /\ [stock EXCEPT ![c] = @ + q] \in [Categories -> Int]
           /\ [stock EXCEPT ![c] = @ - q] \in [Categories -> Int]
BY DEF TypeInv, TypeOK

LEMMA SaveInNoticeType ==
    ASSUME TypeInv, NEW s \in Sessions, req[s].op \in ReceiptOps, SaveInNotice(req[s].sync)
    PROVE  inNotice' \in InNoticeSt
BY DEF TypeInv, TypeOK, Shape, SaveInNotice

LEMMA NewDraftType ==
    ASSUME TypeInv, NEW s \in Sessions, req[s].doc \in Docs
    PROVE  /\ [doc EXCEPT ![req[s].doc] = NewReceipt(s)] \in [Docs -> DocRow]
           /\ [doc EXCEPT ![req[s].doc] = NewOutbound(s)] \in [Docs -> DocRow]
<1> DEFINE d == req[s].doc
<1>1. doc[d] \in DocRow /\ doc \in [Docs -> DocRow]
  BY DEF TypeInv, TypeOK
<1>2. req[s].qty \in Quantities /\ req[s].notice \in Notices \cup {NoOne}
  BY DEF TypeInv, TypeOK, Request
<1>3. \A x \in DocRow, q \in Quantities, n \in Notices \cup {NoOne} :
        /\ [x EXCEPT !.st = "draft", !.qty = q] \in DocRow
        /\ [x EXCEPT !.st = "draft", !.qty = q, !.notice = n] \in DocRow
  BY DEF DocRow
<1>4. NewReceipt(s) \in DocRow /\ NewOutbound(s) \in DocRow
  BY <1>1, <1>2, <1>3 DEF NewReceipt, NewOutbound
<1> QED
  BY <1>1, <1>4

LEMMA ReceiptRequest ==
    ASSUME TypeInv, NEW s \in Sessions, req[s].op \in ReceiptOps
    PROVE  req[s].doc \in Receipts /\ req[s].doc \in Docs
BY DEF TypeInv, Shape, Receipts, Docs

LEMMA TypeReceiptStep ==
    ASSUME TypeInv, NEW s \in Sessions, ReceiptStep(s)
    PROVE  TypeInv'
<1> DEFINE d == req[s].doc
<1> USE DEF At, ReceiptOps
<1>0. TypeOK
  BY DEF TypeInv
<1>1. CASE CheckCreateReceipt(s)
  BY <1>1, SyncInShape, ProceedReceipt, RefuseType DEF CheckCreateReceipt
<1>2. CASE SaveCreateReceipt(s)
  <2>1. req[s].op \in ReceiptOps /\ d \in Docs
    BY <1>2, ReceiptRequest DEF SaveCreateReceipt
  <2> QED
    BY <1>0, <1>2, <2>1, NewDraftType, SaveInNoticeType, FinishedType
       DEF SaveCreateReceipt, TypeOK
<1>3. CASE CheckPostReceipt(s)
  BY <1>3, SyncInShape, ProceedReceipt, RefuseType DEF CheckPostReceipt
<1>4. CASE SavePostReceipt(s)
  <2>1. req[s].op \in ReceiptOps /\ d \in Docs
    BY <1>4, ReceiptRequest DEF SavePostReceipt
  <2>2. doc' \in [Docs -> DocRow]
    BY <1>4, <2>1, SetStatusType DEF SavePostReceipt, LiveStatus
  <2>3. facts' \in [Docs -> SUBSET {"post", "reverse"}]
    BY <1>4, <2>1, FactsType DEF SavePostReceipt
  <2>4. stock' \in [Categories -> Int]
    BY <1>4, <2>1, DocType, StockType DEF SavePostReceipt
  <2> QED
    BY <1>0, <1>4, <2>1, <2>2, <2>3, <2>4, SaveInNoticeType, FinishedType
       DEF SavePostReceipt, TypeOK
<1>5. CASE CheckReverseReceipt(s)
  BY <1>5, SyncInShape, ProceedReceipt, RefuseType DEF CheckReverseReceipt
<1>6. CASE SaveReverseReceipt(s)
  <2>1. req[s].op \in ReceiptOps /\ d \in Docs
    BY <1>6, ReceiptRequest DEF SaveReverseReceipt
  <2>2. doc' \in [Docs -> DocRow]
    BY <1>6, <2>1, SetStatusType DEF SaveReverseReceipt
  <2>3. facts' \in [Docs -> SUBSET {"post", "reverse"}]
    BY <1>6, <2>1, FactsType DEF SaveReverseReceipt
  <2>4. stock' \in [Categories -> Int]
    BY <1>6, <2>1, DocType, StockType DEF SaveReverseReceipt
  <2> QED
    BY <1>0, <1>6, <2>1, <2>2, <2>3, <2>4, SaveInNoticeType, FinishedType
       DEF SaveReverseReceipt, TypeOK
<1> QED
  BY <1>1, <1>2, <1>3, <1>4, <1>5, <1>6 DEF ReceiptStep

(***************************************************************************)
(* The notice row that a save step writes is a notice row.                 *)
(***************************************************************************)
LEMMA SaveNoticeType ==
    ASSUME TypeInv, NEW n, NEW sync \in Sync,
           \/ sync = Keep
           \/ n \in Notices /\ sync.st \in OpenNotice \cup {"completed"},
           SaveNotice(n, sync)
    PROVE  notice' \in [Notices -> NoticeRow]
<1>1. notice \in [Notices -> NoticeRow]
  BY DEF TypeInv, TypeOK
<1>2. CASE sync = Keep
  BY <1>1, <1>2 DEF SaveNotice
<1>3. CASE sync # Keep
  <2>1. n \in Notices /\ sync.st \in OpenNotice \cup {"completed"} /\ sync.shipped \in Nat
    BY <1>3 DEF Sync
  <2>2. \A x \in NoticeRow : [x EXCEPT !.st = sync.st, !.shipped = sync.shipped] \in NoticeRow
    BY <2>1 DEF NoticeRow
  <2>3. notice' = [notice EXCEPT ![n] =
                     [notice[n] EXCEPT !.st = sync.st, !.shipped = sync.shipped]]
    BY <1>1, <1>3, <2>1 DEF SaveNotice
  <2> QED
    BY <1>1, <2>1, <2>2, <2>3
<1> QED
  BY <1>2, <1>3

LEMMA OutboundRequest ==
    ASSUME TypeInv, NEW s \in Sessions, req[s].op \in OutboundOps
    PROVE  /\ req[s].doc \in Outbounds /\ req[s].doc \in Docs
           /\ req[s].op \notin ReceiptOps
           /\ req[s].sync \in Sync
           /\ \/ req[s].sync = Keep
              \/ /\ req[s].notice \in Notices
                 /\ req[s].sync.st \in OpenNotice \cup {"completed"}
BY DEF TypeInv, TypeOK, Request, Shape, Docs, ReceiptOps, OutboundOps

LEMMA NoticeRequest ==
    ASSUME TypeInv, NEW s \in Sessions, req[s].op \in NoticeOps
    PROVE  req[s].notice \in Notices /\ req[s].op \notin ReceiptOps
BY DEF TypeInv, Shape, ReceiptOps, NoticeOps

LEMMA TypeNoticeStep ==
    ASSUME TypeInv, NEW s \in Sessions,
           CommitCreateNotice(s) \/ CountDrafts(s) \/ CommitCancelNotice(s)
    PROVE  TypeInv'
<1> DEFINE n == req[s].notice
<1> USE DEF At, NoticeOps
<1>0. TypeOK /\ Keep \in Sync
  BY DEF TypeInv, Keep, Sync
<1>1. CASE CommitCreateNotice(s)
  <2>1. n \in Notices
    BY <1>1, NoticeRequest DEF CommitCreateNotice
  <2>2. req[s].qty \in Quantities
    BY <1>0 DEF TypeOK, Request
  <2>3. [st |-> "pending", qty |-> req[s].qty, shipped |-> 0] \in NoticeRow
    BY <2>2 DEF NoticeRow, OpenNotice
  <2> QED
    BY <1>0, <1>1, <2>1, <2>3, FinishedType, RefuseType DEF CommitCreateNotice, TypeOK
<1>2. CASE CountDrafts(s)
  BY <1>0, <1>2, NoticeRequest, ProceedOther, RefuseType DEF CountDrafts
<1>3. CASE CommitCancelNotice(s)
  <2>1. n \in Notices
    BY <1>3, NoticeRequest DEF CommitCancelNotice
  <2>2. \A x \in NoticeRow : [x EXCEPT !.st = "cancelled"] \in NoticeRow
    BY DEF NoticeRow
  <2>3. [notice EXCEPT ![n].st = "cancelled"] \in [Notices -> NoticeRow]
    <3>1. notice \in [Notices -> NoticeRow]
      BY <1>0 DEF TypeOK
    <3>2. [notice EXCEPT ![n].st = "cancelled"]
            = [notice EXCEPT ![n] = [notice[n] EXCEPT !.st = "cancelled"]]
      BY <2>1, <3>1
    <3> QED
      BY <2>1, <2>2, <3>1, <3>2
  <2> QED
    BY <1>0, <1>3, <2>3, FinishedType, RefuseType DEF CommitCancelNotice, TypeOK
<1> QED
  BY <1>1, <1>2, <1>3

LEMMA TypeDraftStep ==
    ASSUME TypeInv, NEW s \in Sessions,
           \/ CheckReservation(s) \/ SaveCreateOutbound(s) \/ CommitFromNotice(s)
           \/ CheckCancelOutbound(s) \/ SaveCancelOutbound(s)
    PROVE  TypeInv'
<1> DEFINE o == req[s].doc
<1> DEFINE n == req[s].notice
<1> USE DEF At, OutboundOps
<1>0. TypeOK /\ Keep \in Sync
  BY DEF TypeInv, Keep, Sync
<1>1. CASE CheckReservation(s)
  BY <1>0, <1>1, OutboundRequest, ProceedOther, RefuseType DEF CheckReservation
<1>2. CASE SaveCreateOutbound(s)
  <2>1. o \in Docs
    BY <1>2, OutboundRequest DEF SaveCreateOutbound
  <2> QED
    BY <1>0, <1>2, <2>1, NewDraftType, FinishedType DEF SaveCreateOutbound, TypeOK
<1>3. CASE CommitFromNotice(s)
  <2> DEFINE rows == [doc EXCEPT ![o] = NewOutbound(s)]
  <2>1. o \in Docs /\ n \in Notices
    BY <1>3, OutboundRequest, NoticeRequest DEF CommitFromNotice, NoticeOps
  <2>2. rows \in [Docs -> DocRow]
    BY <2>1, NewDraftType
  <2>3. CASE Refuse(s)
    BY <2>3, RefuseType
  <2>4. CASE ~ Refuse(s)
    <3>1. /\ doc' = rows
          /\ SaveNotice(n, SyncNoticeStatus(rows, n))
          /\ Finish(s)
          /\ UNCHANGED <<receivable, accrued, stock, facts, inNotice>>
      BY <1>3, <2>4 DEF CommitFromNotice
    <3> HIDE DEF rows
    <3>2. notice' \in [Notices -> NoticeRow]
      BY <2>1, <3>1, SyncShape, SaveNoticeType
    <3> QED
      BY <1>0, <2>2, <3>1, <3>2, FinishedType DEF TypeOK
  <2> QED
    BY <2>3, <2>4
<1>4. CASE CheckCancelOutbound(s)
  BY <1>4, SyncShape, OutboundRequest, ProceedOther, RefuseType DEF CheckCancelOutbound
<1>5. CASE SaveCancelOutbound(s)
  <2>1. o \in Docs /\ req[s].op \in OutboundOps
    BY <1>5, OutboundRequest DEF SaveCancelOutbound
  <2>2. doc' \in [Docs -> DocRow]
    BY <1>5, <2>1, SetStatusType DEF SaveCancelOutbound
  <2>3. notice' \in [Notices -> NoticeRow]
    BY <1>5, <2>1, OutboundRequest, SaveNoticeType DEF SaveCancelOutbound
  <2> QED
    BY <1>0, <1>5, <2>2, <2>3, FinishedType DEF SaveCancelOutbound, TypeOK
<1> QED
  BY <1>1, <1>2, <1>3, <1>4, <1>5

LEMMA TypeShippedStep ==
    ASSUME TypeInv, NEW s \in Sessions,
           \/ CheckPostOutbound(s) \/ SavePostOutbound(s) \/ AssertStatusTransition(s)
           \/ CheckReverseOutbound(s) \/ UpdateReverseOutbound(s) \/ SaveReverseOutbound(s)
    PROVE  TypeInv'
<1> DEFINE o == req[s].doc
<1> DEFINE n == req[s].notice
<1> USE DEF At, OutboundOps
<1>0. TypeOK /\ Keep \in Sync /\ "finished_goods" \in Categories
  BY DEF TypeInv, Keep, Sync, Categories
<1>1. CASE CheckPostOutbound(s)
  BY <1>1, SyncShape, OutboundRequest, ProceedOther, RefuseType DEF CheckPostOutbound
<1>2. CASE SavePostOutbound(s)
  <2>1. o \in Docs /\ o \in Outbounds /\ req[s].op \in OutboundOps
    BY <1>2, OutboundRequest DEF SavePostOutbound
  <2>2. doc' \in [Docs -> DocRow]
    BY <1>2, <2>1, SetStatusType DEF SavePostOutbound, LiveStatus
  <2>3. notice' \in [Notices -> NoticeRow]
    BY <1>2, <2>1, OutboundRequest, SaveNoticeType DEF SavePostOutbound
  <2>4. facts' \in [Docs -> SUBSET {"post", "reverse"}]
    BY <1>2, <2>1, FactsType DEF SavePostOutbound
  <2>5. stock' \in [Categories -> Int]
    BY <1>0, <1>2, <2>1, DocType, StockType DEF SavePostOutbound
  <2>6. receivable' \in [Outbounds -> {"absent", "draft", "confirmed", "cancelled"}]
    BY <1>0, <1>2, <2>1 DEF SavePostOutbound, TypeOK
  <2> QED
    BY <1>0, <1>2, <2>2, <2>3, <2>4, <2>5, <2>6, FinishedType
       DEF SavePostOutbound, TypeOK
<1>3. CASE AssertStatusTransition(s)
  <2>1. o \in Docs /\ CasTo[req[s].op] \in LiveStatus
    BY <1>3, OutboundRequest DEF AssertStatusTransition, CasFrom, CasTo, LiveStatus
  <2>2. CASE Refuse(s)
    BY <2>2, RefuseType
  <2>3. CASE ~ Refuse(s)
    <3>1. /\ doc' = SetStatus(o, CasTo[req[s].op])
          /\ Finish(s)
          /\ UNCHANGED <<notice, receivable, accrued, stock, facts, inNotice>>
      BY <1>3, <2>3 DEF AssertStatusTransition
    <3>2. doc' \in [Docs -> DocRow]
      BY <2>1, <3>1, SetStatusType
    <3> QED
      BY <1>0, <3>1, <3>2, FinishedType DEF TypeOK
  <2> QED
    BY <2>2, <2>3
<1>4. CASE CheckReverseOutbound(s)
  BY <1>0, <1>4, OutboundRequest, ProceedOther, RefuseType DEF CheckReverseOutbound
<1>5. CASE UpdateReverseOutbound(s)
  <2> DEFINE sync == SyncNoticeStatus(SetStatus(o, "reversed"), n)
  <2>1. /\ o \in Docs /\ o \in Rows /\ o \in Outbounds
        /\ n \in Notices \cup {NoOne}
        /\ req[s] \in Request /\ Shape(req[s]) /\ req[s].op \in OutboundOps
        /\ req[s].op \notin ReceiptOps
    BY <1>0, <1>5, OutboundRequest DEF UpdateReverseOutbound, Rows, TypeInv, TypeOK, Request
  <2>2. lock' \in [Rows -> Sessions \cup {NoOne}]
    BY <1>0, <1>5, <2>1 DEF UpdateReverseOutbound, TypeOK
  <2>3. /\ sync \in Sync
        /\ \/ sync = Keep
           \/ n \in Notices /\ sync.st \in OpenNotice \cup {"completed"}
    BY <2>1, SyncShape
  <2> HIDE DEF sync
  <2>4. req' = [req EXCEPT ![s] = Stepped(req[s], "save", sync)]
    BY <1>0, <1>5 DEF UpdateReverseOutbound, TypeOK, Stepped, sync
  <2>5. /\ Stepped(req[s], "save", sync) \in Request
        /\ Stepped(req[s], "save", sync).op = req[s].op
        /\ Stepped(req[s], "save", sync).doc = o
        /\ Stepped(req[s], "save", sync).notice = n
        /\ Stepped(req[s], "save", sync).sync = sync
    BY <2>1, <2>3, ChangedStep
  <2>6. Shape(Stepped(req[s], "save", sync))
    BY <2>1, <2>3, <2>5 DEF Shape
  <2>7. UNCHANGED data
    BY <1>5 DEF UpdateReverseOutbound
  <2> QED
    BY <2>2, <2>4, <2>5, <2>6, <2>7 DEF TypeInv, TypeOK, data
<1>6. CASE SaveReverseOutbound(s)
  <2>1. o \in Docs /\ o \in Outbounds /\ req[s].op \in OutboundOps
    BY <1>6, OutboundRequest DEF SaveReverseOutbound
  <2>2. doc' \in [Docs -> DocRow]
    BY <1>6, <2>1, SetStatusType DEF SaveReverseOutbound
  <2>3. notice' \in [Notices -> NoticeRow]
    BY <1>6, <2>1, OutboundRequest, SaveNoticeType DEF SaveReverseOutbound
  <2>4. facts' \in [Docs -> SUBSET {"post", "reverse"}]
    BY <1>6, <2>1, FactsType DEF SaveReverseOutbound
  <2>5. stock' \in [Categories -> Int]
    BY <1>0, <1>6, <2>1, DocType, StockType DEF SaveReverseOutbound
  <2>6. receivable' \in [Outbounds -> {"absent", "draft", "confirmed", "cancelled"}]
    BY <1>0, <1>6, <2>1 DEF SaveReverseOutbound, TypeOK
  <2> QED
    BY <1>0, <1>6, <2>2, <2>3, <2>4, <2>5, <2>6, FinishedType
       DEF SaveReverseOutbound, TypeOK
<1> QED
  BY <1>1, <1>2, <1>3, <1>4, <1>5, <1>6

LEMMA TypeReturnStep ==
    ASSUME TypeInv, NEW s \in Sessions,
           CommitPostReturn(s) \/ CheckReverseReturn(s) \/ SaveReverseReturn(s)
    PROVE  TypeInv'
<1> DEFINE r == req[s].doc
<1>0. TypeOK /\ Keep \in Sync
  BY DEF TypeInv, Keep, Sync
<1>1. r \in Docs /\ req[s].op \notin ReceiptOps
  BY DEF TypeInv, Shape, ReturnOps, ReceiptOps, Docs, At,
         CommitPostReturn, CheckReverseReturn, SaveReverseReturn
<1>2. /\ SetStatus(r, "posted") \in [Docs -> DocRow]
      /\ SetStatus(r, "reversed") \in [Docs -> DocRow]
  BY <1>1, SetStatusType DEF LiveStatus
<1>3. /\ [facts EXCEPT ![r] = @ \cup {"post"}] \in [Docs -> SUBSET {"post", "reverse"}]
      /\ [facts EXCEPT ![r] = @ \cup {"reverse"}] \in [Docs -> SUBSET {"post", "reverse"}]
  BY <1>1, FactsType
<1>4. /\ [stock EXCEPT ![doc[r].cat] = @ + doc[r].qty] \in [Categories -> Int]
      /\ [stock EXCEPT ![doc[r].cat] = @ - doc[r].qty] \in [Categories -> Int]
  BY <1>1, DocType, StockType
<1>5. CASE CommitPostReturn(s)
  BY <1>0, <1>2, <1>3, <1>4, <1>5, FinishedType, RefuseType DEF CommitPostReturn, TypeOK
<1>6. CASE CheckReverseReturn(s)
  BY <1>0, <1>1, <1>6, ProceedOther, RefuseType DEF CheckReverseReturn
<1>7. CASE SaveReverseReturn(s)
  BY <1>0, <1>2, <1>3, <1>4, <1>7, FinishedType DEF SaveReverseReturn, TypeOK
<1> QED
  BY <1>5, <1>6, <1>7

LEMMA TypeReceivable ==
    ASSUME TypeInv,
           \/ \E s \in Sessions : BeginConfirm(s) \/ Accrue(s) \/ Abort(s)
           \/ CreateReturn \/ Reopen \/ CancelReceivable
    PROVE  TypeInv'
<1> USE DEF Docs
<1>0. TypeOK
  BY DEF TypeInv
<1>1. ASSUME NEW s \in Sessions, BeginConfirm(s) PROVE TypeInv'
  <2> PICK o \in Outbounds :
        /\ receivable' = [receivable EXCEPT ![o] = "confirmed"]
        /\ req' = [req EXCEPT ![s] = NewRequest("confirm", o, NoOne, 1, << >>)]
        /\ "confirm" \in Endpoints
        /\ UNCHANGED <<doc, notice, accrued, stock, facts, inNotice, lock>>
    BY <1>1 DEF BeginConfirm
  <2> DEFINE r == NewRequest("confirm", o, NoOne, 1, << >>)
  <2>1. r \in Request /\ r.op = "confirm" /\ r.doc = o /\ r.sync = Keep
    <3>1. 1 \in Quantities /\ o \in Docs \cup {NoOne} /\ "confirm" \in Endpoints
      BY DEF Quantities
    <3>2. r.op = "confirm" /\ r.doc = o /\ r.sync = Keep
      BY DEF NewRequest
    <3>3. << >> \in Seq(Rows) /\ NoOne \in Notices \cup {NoOne}
      BY Plans
    <3>4. r \in Request
      BY <3>1, <3>3, NewRequestType
    <3> QED
      BY <3>2, <3>4
  <2> HIDE DEF r
  <2>2. Shape(r)
    BY <2>1 DEF Shape, ReceiptOps, NoticeOps, OutboundOps, ReturnOps
  <2>3. req' = [req EXCEPT ![s] = r]
    BY DEF r
  <2> QED
    BY <2>1, <2>2, <2>3 DEF TypeInv, TypeOK
<1>2. ASSUME NEW s \in Sessions, Accrue(s) PROVE TypeInv'
  <2>1. req[s].doc \in Outbounds
    BY <1>2, OutboundRequest DEF Accrue, At, OutboundOps
  <2> QED
    BY <1>0, <1>2, <2>1, FinishedType DEF Accrue, TypeOK
<1>3. ASSUME NEW s \in Sessions, Abort(s) PROVE TypeInv'
  BY <1>3, RefuseType DEF Abort
<1>4. CASE CreateReturn
  <2> PICK r \in Returns, q \in Quantities, c \in Categories :
        doc' = [doc EXCEPT ![r] = NewReturn(r, q, c)]
    BY <1>4 DEF CreateReturn
  <2>1. \A x \in DocRow : [x EXCEPT !.st = "draft", !.qty = q, !.cat = c] \in DocRow
    BY DEF DocRow
  <2>2. NewReturn(r, q, c) \in DocRow
    BY <1>0, <2>1 DEF NewReturn, TypeOK
  <2>3. doc' \in [Docs -> DocRow]
    BY <1>0, <2>1, <2>2 DEF TypeOK
  <2> QED
    BY <1>4, <2>3 DEF CreateReturn, TypeInv, TypeOK
<1>5. CASE Reopen
  BY <1>0, <1>5 DEF Reopen, TypeInv, TypeOK
<1>6. CASE CancelReceivable
  BY <1>0, <1>6 DEF CancelReceivable, TypeInv, TypeOK
<1> QED
  BY <1>1, <1>2, <1>3, <1>4, <1>5, <1>6

LEMMA TypeNext == TypeInv /\ [Next]_vars => TypeInv'
<1> SUFFICES ASSUME TypeInv, [Next]_vars PROVE TypeInv'
  OBVIOUS
<1>1. ASSUME NEW s \in Sessions, BeginRequest(s) PROVE TypeInv'
  BY <1>1, TypeBeginReceipt, TypeBeginShipment, TypeBeginReturn, TypeReceivable DEF BeginRequest
<1>2. ASSUME NEW s \in Sessions, RequestStep(s) PROVE TypeInv'
  BY <1>2, TakeLockType, TypeReceiptStep, TypeNoticeStep, TypeDraftStep,
     TypeShippedStep, TypeReturnStep, TypeReceivable DEF RequestStep
<1>3. ASSUME NEW s \in Sessions, Abort(s) PROVE TypeInv'
  BY <1>3, TypeReceivable
<1>4. CASE CreateReturn \/ Reopen \/ CancelReceivable
  BY <1>4, TypeReceivable
<1>5. CASE UNCHANGED vars
  BY <1>5 DEF TypeInv, TypeOK, vars
<1> QED
  BY <1>1, <1>2, <1>3, <1>4, <1>5 DEF Next

LEMMA TypeInvariant == Spec => []TypeInv
BY TypeInit, TypeNext, PTL DEF Spec

(***************************************************************************)
(* Every row, lock and request always has the shape of its table.          *)
(***************************************************************************)
THEOREM TypeCorrect == Spec => []TypeOK
<1>1. TypeInv => TypeOK
  BY DEF TypeInv
<1> QED
  BY <1>1, TypeInvariant, PTL
=============================================================================
