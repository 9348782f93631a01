------------------------ MODULE WarehouseDocs_proofs ------------------------
(***************************************************************************)
(* No request acts on a stale document: every step keeps what a request    *)
(* has locked its own, and what it has checked true.  The warehouse        *)
(* therefore implements the ledger, step by step.                          *)
(***************************************************************************)
EXTENDS Warehouse_proofs

-----------------------------------------------------------------------------
(***************************************************************************)
(* What the types say about the requests of DocInv.                        *)
(***************************************************************************)
LEMMA RequestFacts ==
    ASSUME TypeInv, NEW s \in Sessions
    PROVE  /\ req[s].held \in Nat /\ Len(req[s].plan) \in Nat
           /\ \A i \in 1..Len(req[s].plan) : req[s].plan[i] \in Rows
           /\ s # NoOne
           /\ req[s].op \in Creating => req[s].doc \in Docs
           /\ req[s].op \in {"updateShipping", "signOutbound", "reverseOutbound"}
                => req[s].doc \in Outbounds /\ req[s].doc \in Docs
           /\ NoOne \notin Docs
<1>1. req[s] \in Request /\ Shape(req[s])
  BY DEF TypeInv, TypeOK
<1>2. NoOne \notin Docs /\ s # NoOne
  BY DistinctIds DEF Rows
<1>3. /\ req[s].held \in Nat /\ Len(req[s].plan) \in Nat
      /\ \A i \in 1..Len(req[s].plan) : req[s].plan[i] \in Rows
  BY <1>1 DEF Request
<1>4. /\ req[s].op \in Creating => req[s].doc \in Docs
      /\ req[s].op \in {"updateShipping", "signOutbound", "reverseOutbound"}
           => req[s].doc \in Outbounds /\ req[s].doc \in Docs
  BY <1>1 DEF Shape, Creating, ReceiptOps, OutboundOps, Receipts, Docs
<1> QED
  BY <1>2, <1>3, <1>4

LEMMA DocInit == Init => NoStaleDocument
<1> SUFFICES ASSUME Init PROVE NoStaleDocument
  OBVIOUS
<1>1. \A s \in Sessions : req[s] = Idle
  BY DEF Init
<1>2. /\ Idle.op = "idle" /\ Idle.held = 0 /\ Idle.step = "check" /\ Idle.plan = << >>
  BY DEF Idle, NewRequest
<1>3. \A s \in Sessions : Planned(req[s]) /\ Holds(s) /\ Creates(s) /\ Found(s)
  BY <1>1, <1>2 DEF Planned, Holds, Creates, Found, OneLock, Creating, CasFrom
<1>4. Reversals
  BY DEF Init, Reversals, Docs
<1> QED
  BY <1>3, <1>4 DEF NoStaleDocument

(***************************************************************************)
(* A request begins: it holds nothing yet, and the row it names is either  *)
(* its own new one or one that exists.                                     *)
(***************************************************************************)
LEMMA BeginDoc ==
    ASSUME DocInv, NEW s \in Sessions, NEW r, Begin(s, r),
           r.held = 0, r.step = "check", Planned(r),
           r.op \in Creating => FreshDoc(r.doc),
           r.doc = NoOne \/ FreshDoc(r.doc) \/ doc[r.doc].st # "absent",
           r.op \in DOMAIN CasFrom \cup {"reverseOutbound"} => doc[r.doc].st \in LiveStatus
    PROVE  NoStaleDocument'
<1> USE DEF DocInv, NoStaleDocument
<1>1. /\ req'[s] = r /\ \A t \in Sessions \ {s} : req'[t] = req[t]
      /\ doc' = doc /\ facts' = facts /\ lock' = lock
  BY DEF Begin, data, TypeInv, TypeOK
<1>2. \A t \in Sessions : Planned(req'[t])
  BY <1>1
<1>3. \A t \in Sessions : Holds(t)'
  BY <1>1 DEF Holds
<1>4. ASSUME NEW t \in Sessions PROVE Creates(t)'
  <2>1. CASE t = s
    BY <1>1, <2>1 DEF Creates, FreshDoc
  <2>2. CASE t # s
    BY <1>1, <2>2, RequestFacts DEF Creates, FreshDoc
  <2> QED
    BY <2>1, <2>2
<1>5. ASSUME NEW t \in Sessions PROVE Found(t)'
  <2>1. CASE t = s
    BY <1>1, <2>1 DEF Found
  <2>2. CASE t # s
    BY <1>1, <2>2 DEF Found
  <2> QED
    BY <2>1, <2>2
<1>6. Reversals'
  BY <1>1 DEF Reversals
<1> QED
  BY <1>2, <1>3, <1>4, <1>5, <1>6

(***************************************************************************)
(* A request that locks its next row takes nobody's lock.                  *)
(***************************************************************************)
LEMMA TakeLockDoc ==
    ASSUME DocInv, NEW s \in Sessions, TakeLock(s)
    PROVE  NoStaleDocument'
<1> USE DEF DocInv, NoStaleDocument
<1> DEFINE row == req[s].plan[req[s].held + 1]
<1>1. /\ req'[s].held = req[s].held + 1 /\ req'[s].op = req[s].op
      /\ req'[s].plan = req[s].plan /\ req'[s].doc = req[s].doc
      /\ req'[s].step = req[s].step /\ req'[s].notice = req[s].notice
  BY DEF TakeLock, TypeInv, TypeOK, Request
<1>2. \A t \in Sessions \ {s} : req'[t] = req[t]
  BY DEF TakeLock, TypeInv, TypeOK
<1>3. doc' = doc /\ facts' = facts
  BY DEF TakeLock, data
<1>4. /\ lock[row] = NoOne /\ lock' = [lock EXCEPT ![row] = s]
      /\ req[s].held < Len(req[s].plan)
  BY DEF TakeLock
<1>5. lock \in [Rows -> Sessions \cup {NoOne}] /\ row \in Rows
  BY <1>4, RequestFacts DEF TypeInv, TypeOK
<1> HIDE DEF row
<1>6. \A t \in Sessions : Planned(req'[t])
  BY <1>1, <1>2, <1>4, RequestFacts DEF Planned
<1>7. ASSUME NEW t \in Sessions PROVE Holds(t)'
  <2> DEFINE p == req[t].plan
  <2>1. \A x \in Rows : lock[x] = t => lock'[x] = t
    BY <1>4, <1>5, RequestFacts
  <2>2. \A i \in 1..req[t].held : p[i] \in Rows /\ lock[p[i]] = t
    BY RequestFacts DEF Holds, Planned
  <2>3. \A i \in 1..req[t].held : lock'[p[i]] = t
    BY <2>1, <2>2
  <2>4. t = s => lock'[p[req[t].held + 1]] = t
    BY <1>4, <1>5 DEF row
  <2>5. /\ req'[t].plan = p /\ req'[t].op = req[t].op /\ req'[t].doc = req[t].doc
        /\ req'[t].step = req[t].step
        /\ req'[t].held = IF t = s THEN req[t].held + 1 ELSE req[t].held
        /\ req[t].held \in Nat
    BY <1>1, <1>2, RequestFacts
  <2>6. req[t].op = "reverseOutbound" /\ req[t].step = "save" => lock'[req[t].doc] = t
    BY <2>1, RequestFacts DEF Holds, Rows
  <2> HIDE DEF p
  <2>7. \A i \in 1..req'[t].held : lock'[p[i]] = t
    BY <2>3, <2>4, <2>5
  <2> QED
    BY <2>5, <2>6, <2>7 DEF Holds
<1>8. \A t \in Sessions : Creates(t)' /\ Found(t)'
  BY <1>1, <1>2, <1>3 DEF Creates, Found
<1>9. Reversals'
  BY <1>3 DEF Reversals
<1> QED
  BY <1>6, <1>7, <1>8, <1>9

(***************************************************************************)
(* A document that another request has locked for its save step is not the *)
(* one a request may write.                                                *)
(***************************************************************************)
Guarded == {"postReceipt", "postOutbound", "cancelOutbound",
            "reverseReceipt", "reverseReturn", "reverseOutbound"}

LEMMA SaveHoldsDoc ==
    ASSUME DocInv, NEW t \in Sessions, req[t].op \in Guarded, req[t].step = "save"
    PROVE  lock[req[t].doc] = t
<1>1. Planned(req[t]) /\ Holds(t)
  BY DEF DocInv, NoStaleDocument
<1>2. req[t].held = Len(req[t].plan)
  BY <1>1 DEF Planned
<1>3. CASE req[t].op = "postOutbound"
  <2>1. req[t].plan = <<ProductionOrder, req[t].doc>>
    BY <1>1, <1>3 DEF Planned
  <2> QED
    BY <1>1, <1>2, <2>1 DEF Holds
<1>4. CASE req[t].op = "postReceipt"
  <2>1. req[t].plan = <<req[t].doc, QcOf[req[t].doc]>>
    BY <1>1, <1>4 DEF Planned
  <2> QED
    BY <1>1, <1>2, <2>1 DEF Holds
<1>5. CASE req[t].op \in OneLock
  <2>1. req[t].plan = <<req[t].doc>>
    BY <1>1, <1>5 DEF Planned
  <2> QED
    BY <1>1, <1>2, <2>1 DEF Holds
<1>6. CASE req[t].op = "reverseOutbound"
  BY <1>1, <1>6 DEF Holds
<1> QED
  BY <1>3, <1>4, <1>5, <1>6 DEF Guarded, OneLock

\* Past its check, a request that takes stock or reverses an outbound has
\* the production order.
LEMMA HoldsOrder ==
    ASSUME DocInv, NEW t \in Sessions, req[t].op \in {"postOutbound", "reverseOutbound"},
           req[t].held = Len(req[t].plan)
    PROVE  lock[ProductionOrder] = t
<1>1. Planned(req[t]) /\ Holds(t)
  BY DEF DocInv, NoStaleDocument
<1>2. CASE req[t].op = "postOutbound"
  <2>1. req[t].plan = <<ProductionOrder, req[t].doc>>
    BY <1>1, <1>2 DEF Planned
  <2> QED
    BY <1>1, <2>1 DEF Holds
<1>3. CASE req[t].op = "reverseOutbound"
  <2>1. req[t].plan = <<ProductionOrder>>
    BY <1>1, <1>3 DEF Planned
  <2> QED
    BY <1>1, <2>1 DEF Holds
<1> QED
  BY <1>2, <1>3

(***************************************************************************)
(* A request ends.  Its own invariants become those of an idle session,    *)
(* and the locks of the others are untouched.                              *)
(***************************************************************************)
LEMMA FinishFacts ==
    ASSUME DocInv, NEW s \in Sessions, Finish(s)
    PROVE  /\ req'[s] = Idle /\ \A t \in Sessions \ {s} : req'[t] = req[t]
           /\ \A t \in Sessions : Planned(req'[t]) /\ Holds(t)'
           /\ Creates(s)' /\ Found(s)'
<1> USE DEF DocInv, NoStaleDocument
<1>1. req'[s] = Idle /\ \A t \in Sessions \ {s} : req'[t] = req[t]
  BY DEF Finish, TypeInv, TypeOK
<1>2. /\ Idle.op = "idle" /\ Idle.held = 0 /\ Idle.step = "check" /\ Idle.plan = << >>
  BY DEF Idle, NewRequest
<1>3. \A t \in Sessions : Planned(req'[t])
  BY <1>1, <1>2 DEF Planned, OneLock
<1>4. \A t \in Sessions \ {s}, x \in Rows : lock[x] = t => lock'[x] = t
  BY DEF Finish
<1>5. ASSUME NEW t \in Sessions PROVE Holds(t)'
  <2>1. CASE t = s
    BY <1>1, <1>2, <2>1 DEF Holds
  <2>2. CASE t # s
    <3> DEFINE p == req[t].plan
    <3>1. \A i \in 1..req[t].held : p[i] \in Rows /\ lock[p[i]] = t
      BY RequestFacts DEF Holds, Planned
    <3>2. \A i \in 1..req[t].held : lock'[p[i]] = t
      BY <1>4, <2>2, <3>1
    <3>3. req[t].op = "reverseOutbound" => req[t].doc \in Rows
      BY RequestFacts DEF Rows
    <3>4. req'[t] = req[t]
      BY <1>1, <2>2
    <3> QED
      BY <1>4, <2>2, <3>2, <3>3, <3>4 DEF Holds
  <2> QED
    BY <2>1, <2>2
<1>6. Creates(s)' /\ Found(s)'
  BY <1>1, <1>2 DEF Creates, Found, Creating, CasFrom
<1> QED
  BY <1>1, <1>3, <1>5, <1>6

LEMMA FinishClean ==
    ASSUME DocInv, NEW s \in Sessions, Finish(s), doc' = doc, facts' = facts
    PROVE  NoStaleDocument'
<1> USE DEF DocInv, NoStaleDocument
<1>1. Idle.doc = NoOne
  BY DEF Idle, NewRequest
<1>2. \A t \in Sessions \ {s} : Creates(t)' /\ Found(t)'
  BY <1>1, FinishFacts, RequestFacts DEF Creates, Found
<1>3. Reversals'
  BY DEF Reversals
<1> QED
  BY <1>2, <1>3, FinishFacts

(***************************************************************************)
(* A request writes its document and ends: either nobody else has locked   *)
(* that row, or it is a new one.                                           *)
(***************************************************************************)
LEMMA FinishWrite ==
    ASSUME DocInv, NEW s \in Sessions, Finish(s),
           req[s].op # "confirm",
           req[s].doc \in Docs,
           \A x \in Docs \ {req[s].doc} : doc'[x] = doc[x],
           lock[req[s].doc] \in {NoOne, s} \/ req[s].op \in Creating,
           \A t \in Sessions \ {s} :
               /\ req[t].doc = req[s].doc
               /\ req[t].op \in DOMAIN CasFrom \cup {"reverseOutbound"}
               => Found(t)',
           Reversals'
    PROVE  NoStaleDocument'
<1> USE DEF DocInv, NoStaleDocument
<1>1. Idle.doc = NoOne
  BY DEF Idle, NewRequest
<1>2. ASSUME NEW t \in Sessions \ {s} PROVE Creates(t)'
  BY <1>1, FinishFacts, RequestFacts DEF Creates, Creating
<1>3. ASSUME NEW t \in Sessions \ {s} PROVE Found(t)'
  <2>1. CASE req[t].doc # req[s].doc /\ req[t].doc \in Docs
    BY <2>1, FinishFacts DEF Found
  <2>2. CASE req[t].doc = req[s].doc
    <3>1. CASE req[s].op \in Creating
      <4>1. req[t].op = "confirm"
        BY <2>2, <3>1 DEF Creates
      <4> QED
        BY <4>1, FinishFacts DEF Found, CasFrom
    <3>2. CASE req[s].op \notin Creating
      <4>1. ~ (req[t].op \in Guarded /\ req[t].step = "save")
        BY <2>2, <3>2, SaveHoldsDoc, RequestFacts
      <4> QED
        BY <2>2, <4>1, FinishFacts DEF Found, Guarded
    <3> QED
      BY <3>1, <3>2
  <2>3. CASE req[t].doc \notin Docs
    <3>1. req[t].op \notin Guarded \cup DOMAIN CasFrom
      BY <2>3 DEF TypeInv, Shape, Guarded, CasFrom, ReceiptOps, OutboundOps, ReturnOps,
                  Receipts, Docs
    <3> QED
      BY <3>1, FinishFacts DEF Found, Guarded
  <2> QED
    BY <2>1, <2>2, <2>3
<1> QED
  BY <1>2, <1>3, FinishFacts

(***************************************************************************)
(* A check that passed: the document it read is locked, or settled.        *)
(***************************************************************************)
LEMMA ProceedDoc ==
    ASSUME DocInv, NEW s \in Sessions, NEW step \in {"update", "save"}, NEW sync \in Sync,
           Proceed(s, step, sync), req[s].held = Len(req[s].plan),
           req[s].op \notin DOMAIN CasFrom,
           req[s].op = "reverseOutbound" => step = "update" /\ doc[req[s].doc].st \in LiveStatus,
           req[s].op \in {"postReceipt", "postOutbound", "cancelOutbound"}
             => doc[req[s].doc].st = "draft",
           req[s].op \in {"reverseReceipt", "reverseReturn"} => doc[req[s].doc].st = "posted"
    PROVE  NoStaleDocument'
<1> USE DEF DocInv, NoStaleDocument
<1>1. req[s] \in Request /\ req' = [req EXCEPT ![s] = Stepped(req[s], step, sync)]
  BY DEF Proceed, Stepped, TypeInv, TypeOK
<1>2. /\ Stepped(req[s], step, sync).op = req[s].op
      /\ Stepped(req[s], step, sync).doc = req[s].doc
      /\ Stepped(req[s], step, sync).plan = req[s].plan
      /\ Stepped(req[s], step, sync).held = req[s].held
      /\ Stepped(req[s], step, sync).step = step
      /\ Stepped(req[s], step, sync).notice = req[s].notice
  BY <1>1 DEF Stepped, Request
<1>3. /\ req'[s].op = req[s].op /\ req'[s].doc = req[s].doc
      /\ req'[s].plan = req[s].plan /\ req'[s].held = req[s].held /\ req'[s].step = step
      /\ req'[s].notice = req[s].notice
      /\ \A t \in Sessions \ {s} : req'[t] = req[t]
  BY <1>1, <1>2 DEF TypeInv, TypeOK
<1>4. doc' = doc /\ facts' = facts /\ lock' = lock
  BY DEF Proceed, data
<1>5. \A t \in Sessions : Planned(req'[t])
  BY <1>3 DEF Planned
<1>6. \A t \in Sessions : Holds(t)'
  BY <1>3, <1>4 DEF Holds
<1>7. \A t \in Sessions : Creates(t)'
  BY <1>3, <1>4 DEF Creates
<1>8. ASSUME NEW t \in Sessions PROVE Found(t)'
  <2>1. CASE t = s
    BY <1>3, <1>4, <2>1 DEF Found
  <2>2. CASE t # s
    BY <1>3, <1>4, <2>2 DEF Found
  <2> QED
    BY <2>1, <2>2
<1>9. Reversals'
  BY <1>4 DEF Reversals
<1> QED
  BY <1>5, <1>6, <1>7, <1>8, <1>9

-----------------------------------------------------------------------------
(***************************************************************************)
(* The actions.                                                            *)
(***************************************************************************)
LEMMA BeginNewDoc ==
    ASSUME DocInv, NEW s \in Sessions, NEW op, NEW d, NEW n, NEW q, NEW plan \in Seq(Rows),
           Begin(s, NewRequest(op, d, n, q, plan)),
           op = "postReceipt"     => plan = <<d, QcOf[d]>>,
           op \in OneLock         => plan = <<d>>,
           op = "postOutbound"    => plan = <<ProductionOrder, d>>,
           op = "reverseOutbound" => plan = <<ProductionOrder>>,
           op = "createReceipt"   => plan = <<QcOf[d]>>,
           op = "createOutboundFromNotice" => plan = <<ProductionOrder, n>>,
           op \in Creating => FreshDoc(d),
           d = NoOne \/ FreshDoc(d) \/ doc[d].st # "absent",
           op \in DOMAIN CasFrom \cup {"reverseOutbound"} => doc[d].st \in LiveStatus
    PROVE  NoStaleDocument'
<1> DEFINE r == NewRequest(op, d, n, q, plan)
<1>1. /\ r.op = op /\ r.doc = d /\ r.notice = n /\ r.plan = plan
      /\ r.held = 0 /\ r.step = "check"
  BY DEF NewRequest
<1> HIDE DEF r
<1>2. Planned(r)
  BY <1>1 DEF Planned
<1> QED
  BY <1>1, <1>2, BeginDoc DEF r

LEMMA DocBegin ==
    ASSUME DocInv, NEW s \in Sessions, BeginRequest(s), ~ BeginConfirm(s)
    PROVE  NoStaleDocument'
<1> USE DEF OneLock, Creating, Docs, Rows, Receipts, CasFrom, LiveStatus
<1>1. CASE BeginReceipt(s)
  <2>1. CASE BeginCreateReceipt(s)
    BY <2>1, ReceiptPlans, BeginNewDoc DEF BeginCreateReceipt, CreateReceiptLocks
  <2>2. CASE BeginPostReceipt(s)
    <3> PICK d \in Receipts :
          /\ doc[d].st = "draft"
          /\ Begin(s, NewRequest("postReceipt", d, NoOne, 1, <<d, QcOf[d]>>))
      BY <2>2 DEF BeginPostReceipt
    <3> DEFINE plan == <<d, QcOf[d]>>
    <3>1. plan \in Seq(Rows) /\ plan = <<d, QcOf[d]>> /\ d \in Receipts
      BY ReceiptPlans
    <3>2. Begin(s, NewRequest("postReceipt", d, NoOne, 1, plan))
      OBVIOUS
    <3>3. /\ doc[d].st # "absent"
          /\ "postReceipt" \notin Creating \cup OneLock \cup DOMAIN CasFrom
      OBVIOUS
    <3> HIDE DEF plan, OneLock, Creating, CasFrom, Docs, Rows, Receipts
    <3> QED
      BY <3>1, <3>2, <3>3, BeginNewDoc
  <2>3. CASE BeginReverseReceipt(s)
    BY <2>3, Plans, BeginNewDoc DEF BeginReverseReceipt
  <2> QED
    BY <1>1, <2>1, <2>2, <2>3 DEF BeginReceipt
<1>2. CASE BeginCreateNotice(s) \/ BeginCancelNotice(s)
  BY <1>2, Plans, BeginNewDoc DEF BeginCreateNotice, BeginCancelNotice
<1>3. CASE BeginCreateOutbound(s)
  <2> PICK o \in Outbounds, q \in Quantities :
        /\ FreshDoc(o)
        /\ Begin(s, [NewRequest("createOutbound", o, NoOne, q, << >>)
                       EXCEPT !.bal = stock["finished_goods"]])
    BY <1>3 DEF BeginCreateOutbound
  <2> DEFINE r == [NewRequest("createOutbound", o, NoOne, q, << >>)
                    EXCEPT !.bal = stock["finished_goods"]]
  <2>1. \A x : /\ x \in [op : {"createOutbound"}, doc : {o}, notice : {NoOne}, qty : {q},
                         plan : Seq(Rows), held : {0}, step : {"check"},
                         bal : Int, sync : {Keep}]
               => LET y == [x EXCEPT !.bal = stock["finished_goods"]]
                  IN  /\ y.op = "createOutbound" /\ y.doc = o /\ y.plan = x.plan
                      /\ y.held = 0 /\ y.step = "check"
    OBVIOUS
  <2>2. NewRequest("createOutbound", o, NoOne, q, << >>)
          \in [op : {"createOutbound"}, doc : {o}, notice : {NoOne}, qty : {q},
               plan : Seq(Rows), held : {0}, step : {"check"}, bal : Int, sync : {Keep}]
    BY Plans DEF NewRequest
  <2>3. r.op = "createOutbound" /\ r.doc = o /\ r.held = 0 /\ r.step = "check"
        /\ r.plan = NewRequest("createOutbound", o, NoOne, q, << >>).plan
    BY <2>1, <2>2
  <2>4. r.plan = << >>
    BY <2>3 DEF NewRequest
  <2> HIDE DEF r
  <2>5. Planned(r)
    BY <2>3, <2>4 DEF Planned
  <2>6. Begin(s, r)
    BY DEF r
  <2>7. r.op \notin DOMAIN CasFrom \cup {"reverseOutbound"}
    BY <2>3
  <2> QED
    BY <2>3, <2>5, <2>6, <2>7, BeginDoc
<1>4. CASE BeginFromNotice(s)
  BY <1>4, Plans, BeginNewDoc DEF BeginFromNotice
<1>5. CASE BeginCancelOutbound(s)
  BY <1>5, Plans, BeginNewDoc DEF BeginCancelOutbound
<1>6. CASE BeginPostOutbound(s)
  BY <1>6, Plans, BeginNewDoc DEF BeginPostOutbound, PostOutboundLocks
<1>7. CASE BeginCas(s)
  <2> PICK o \in Outbounds, op \in DOMAIN CasFrom :
        doc[o].st \in CasFrom[op] /\ Begin(s, NewRequest(op, o, NoOne, 1, << >>))
    BY <1>7 DEF BeginCas
  <2>1. op \in {"updateShipping", "signOutbound"} /\ doc[o].st \in LiveStatus
    OBVIOUS
  <2> QED
    BY <2>1, Plans, BeginNewDoc
<1>8. CASE BeginReverseOutbound(s)
  BY <1>8, Plans, BeginNewDoc DEF BeginReverseOutbound
<1>9. CASE BeginPostReturn(s) \/ BeginReverseReturn(s)
  BY <1>9, Plans, BeginNewDoc DEF BeginPostReturn, BeginReverseReturn
<1> QED
  BY <1>1, <1>2, <1>3, <1>4, <1>5, <1>6, <1>7, <1>8, <1>9 DEF BeginRequest

\* Only requests on outbounds wait for, or update, a live outbound.
LEMMA OutboundOnlyOps ==
    ASSUME TypeInv, NEW t \in Sessions,
           req[t].op \in DOMAIN CasFrom \cup {"reverseOutbound"}
    PROVE  req[t].doc \in Outbounds
BY DEF TypeInv, Shape, OutboundOps, CasFrom

\* Changing the status of one document changes no other.
LEMMA SetStatusFacts ==
    ASSUME TypeInv, NEW d \in Docs, NEW st, doc' = SetStatus(d, st)
    PROVE  doc'[d].st = st /\ \A x \in Docs \ {d} : doc'[x] = doc[x]
<1>1. doc \in [Docs -> DocRow] /\ doc[d] \in DocRow
  BY DEF TypeInv, TypeOK
<1>2. doc' = [doc EXCEPT ![d] = [doc[d] EXCEPT !.st = st]]
  BY <1>1 DEF SetStatus
<1>3. \A x \in DocRow : [x EXCEPT !.st = st].st = st
  BY DEF DocRow
<1> QED
  BY <1>1, <1>2, <1>3

\* A request that INSERTs its new document.
LEMMA CreateDoc ==
    ASSUME DocInv, NEW s \in Sessions, Finish(s), req[s].op \in Creating,
           NEW row, row.st = "draft",
           doc' = [doc EXCEPT ![req[s].doc] = row], facts' = facts
    PROVE  NoStaleDocument'
<1> DEFINE d == req[s].doc
<1>1. d \in Docs /\ req[s].op # "confirm"
  BY RequestFacts DEF DocInv, Creating
<1>2. doc'[d] = row /\ \A x \in Docs \ {d} : doc'[x] = doc[x]
  BY <1>1 DEF DocInv, TypeInv, TypeOK
<1>3. doc[d].st = "absent" /\ \A t \in Sessions \ {s} : req[t].doc = d => req[t].op = "confirm"
  BY DEF DocInv, NoStaleDocument, Creates
<1>4. Reversals'
  BY <1>1, <1>2, <1>3 DEF DocInv, NoStaleDocument, Reversals, Docs
<1> QED
  BY <1>1, <1>2, <1>3, <1>4, FinishWrite DEF CasFrom

\* A receipt or a customer return changes status.
LEMMA WriteReceiptOrReturn ==
    ASSUME DocInv, NEW s \in Sessions, Finish(s), req[s].op # "confirm",
           req[s].doc \in Receipts \cup Returns, lock[req[s].doc] = s, NEW st,
           doc' = SetStatus(req[s].doc, st), \A o \in Outbounds : facts'[o] = facts[o]
    PROVE  NoStaleDocument'
<1> DEFINE d == req[s].doc
<1>1. d \in Docs /\ d \notin Outbounds
  BY DistinctIds DEF Receipts, Docs
<1>2. \A x \in Docs \ {d} : doc'[x] = doc[x]
  BY <1>1, SetStatusFacts DEF DocInv
<1>3. Reversals'
  BY <1>1, <1>2 DEF DocInv, NoStaleDocument, Reversals, Docs
<1>4. \A t \in Sessions : req[t].doc = d
        => req[t].op \notin DOMAIN CasFrom \cup {"reverseOutbound"}
  BY <1>1, OutboundOnlyOps DEF DocInv
<1> QED
  BY <1>1, <1>2, <1>3, <1>4, FinishWrite

LEMMA DocReceiptStep ==
    ASSUME DocInv, NEW s \in Sessions, ReceiptStep(s)
    PROVE  NoStaleDocument'
<1> USE DEF At, CasFrom
<1>0. TypeInv /\ (req[s].op \in ReceiptOps => req[s].doc \in Receipts /\ req[s].doc \in Docs)
  BY ReceiptRequest DEF DocInv
<1>1. CASE CheckCreateReceipt(s)
  BY <1>1, SyncInShape, ProceedDoc, FinishClean DEF CheckCreateReceipt, Refuse, data
<1>2. CASE SaveCreateReceipt(s)
  <2>1. req[s].op \in ReceiptOps /\ req[s].op \in Creating
    BY <1>2 DEF SaveCreateReceipt, ReceiptOps, Creating
  <2>2. doc[req[s].doc] \in DocRow
    BY <1>0, <2>1 DEF TypeInv, TypeOK
  <2>3. \A q : \A x \in DocRow : [x EXCEPT !.st = "draft", !.qty = q].st = "draft"
    BY DEF DocRow
  <2>4. NewReceipt(s).st = "draft"
    BY <2>2, <2>3 DEF NewReceipt
  <2> QED
    BY <1>2, <2>1, <2>4, CreateDoc DEF SaveCreateReceipt
<1>3. CASE CheckPostReceipt(s)
  BY <1>3, SyncInShape, ProceedDoc, FinishClean DEF CheckPostReceipt, Refuse, data
<1>4. CASE SavePostReceipt(s)
  <2>1. /\ req[s].op = "postReceipt" /\ req[s].step = "save" /\ Finish(s)
        /\ doc' = SetStatus(req[s].doc, "posted")
        /\ facts' = [facts EXCEPT ![req[s].doc] = @ \cup {"post"}]
    BY <1>4 DEF SavePostReceipt
  <2>2. req[s].doc \in Receipts /\ lock[req[s].doc] = s
    BY <1>0, <2>1, SaveHoldsDoc DEF ReceiptOps, Guarded
  <2>3. \A o \in Outbounds : facts'[o] = facts[o]
    BY <1>0, <2>1, <2>2, DistinctIds DEF TypeInv, TypeOK, Receipts, Docs
  <2> QED
    BY <2>1, <2>2, <2>3, WriteReceiptOrReturn
<1>5. CASE CheckReverseReceipt(s)
  BY <1>5, SyncInShape, ProceedDoc, FinishClean DEF CheckReverseReceipt, Reversible, Refuse, data
<1>6. CASE SaveReverseReceipt(s)
  <2>1. /\ req[s].op = "reverseReceipt" /\ req[s].step = "save" /\ Finish(s)
        /\ doc' = SetStatus(req[s].doc, "reversed")
        /\ facts' = [facts EXCEPT ![req[s].doc] = @ \cup {"reverse"}]
    BY <1>6 DEF SaveReverseReceipt
  <2>2. req[s].doc \in Receipts /\ lock[req[s].doc] = s
    BY <1>0, <2>1, SaveHoldsDoc DEF ReceiptOps, Guarded
  <2>3. \A o \in Outbounds : facts'[o] = facts[o]
    BY <1>0, <2>1, <2>2, DistinctIds DEF TypeInv, TypeOK, Receipts, Docs
  <2> QED
    BY <2>1, <2>2, <2>3, WriteReceiptOrReturn
<1> QED
  BY <1>1, <1>2, <1>3, <1>4, <1>5, <1>6 DEF ReceiptStep

LEMMA DocNoticeStep ==
    ASSUME DocInv, NEW s \in Sessions,
           CommitCreateNotice(s) \/ CountDrafts(s) \/ CommitCancelNotice(s)
    PROVE  NoStaleDocument'
<1> USE DEF At, CasFrom
<1>0. Keep \in Sync
  BY DEF Keep, Sync
<1>1. CASE CommitCreateNotice(s)
  BY <1>1, FinishClean DEF CommitCreateNotice, Refuse, data
<1>2. CASE CountDrafts(s)
  BY <1>0, <1>2, ProceedDoc, FinishClean DEF CountDrafts, Refuse, data
<1>3. CASE CommitCancelNotice(s)
  BY <1>3, FinishClean DEF CommitCancelNotice, Refuse, data
<1> QED
  BY <1>1, <1>2, <1>3

LEMMA DocDraftStep ==
    ASSUME DocInv, NEW s \in Sessions,
           \/ CheckReservation(s) \/ SaveCreateOutbound(s) \/ CommitFromNotice(s)
           \/ CheckCancelOutbound(s) \/ SaveCancelOutbound(s)
    PROVE  NoStaleDocument'
<1> USE DEF At, CasFrom
<1>0. Keep \in Sync
  BY DEF Keep, Sync
<1>1. CASE CheckReservation(s)
  BY <1>0, <1>1, ProceedDoc, FinishClean DEF CheckReservation, Refuse, data
<1>2. ASSUME req[s].op \in Creating PROVE NewOutbound(s).st = "draft"
  <2>1. doc[req[s].doc] \in DocRow
    BY <1>2, RequestFacts DEF DocInv, TypeInv, TypeOK
  <2>2. \A q, n : \A x \in DocRow :
          [x EXCEPT !.st = "draft", !.qty = q, !.notice = n].st = "draft"
    BY DEF DocRow
  <2> QED
    BY <2>1, <2>2 DEF NewOutbound
<1>3. CASE SaveCreateOutbound(s)
  BY <1>2, <1>3, CreateDoc DEF SaveCreateOutbound, Creating
<1>4. CASE CommitFromNotice(s)
  BY <1>2, <1>4, CreateDoc, FinishClean DEF CommitFromNotice, Creating, Refuse, data
<1>5. CASE CheckCancelOutbound(s)
  BY <1>5, SyncShape, ProceedDoc, FinishClean DEF CheckCancelOutbound, Refuse, data
<1>6. CASE SaveCancelOutbound(s)
  <2> DEFINE o == req[s].doc
  <2>1. /\ req[s].op = "cancelOutbound" /\ req[s].step = "save" /\ Finish(s)
        /\ doc' = SetStatus(o, "cancelled") /\ facts' = facts
    BY <1>6 DEF SaveCancelOutbound
  <2>2. o \in Outbounds /\ o \in Docs /\ lock[o] = s /\ doc[o].st = "draft"
    BY <2>1, OutboundRequest, SaveHoldsDoc
       DEF DocInv, NoStaleDocument, Found, OutboundOps, Guarded
  <2>3. doc'[o].st = "cancelled" /\ \A x \in Docs \ {o} : doc'[x] = doc[x]
    BY <2>1, <2>2, SetStatusFacts DEF DocInv
  <2>4. Reversals'
    BY <2>1, <2>2, <2>3 DEF DocInv, NoStaleDocument, Reversals, Docs
  <2>5. \A t \in Sessions \ {s} : req[t].doc = o
          => req[t].op \notin DOMAIN CasFrom \cup {"reverseOutbound"}
    BY <2>2 DEF DocInv, NoStaleDocument, Found, LiveStatus
  <2> QED
    BY <2>1, <2>2, <2>3, <2>4, <2>5, FinishWrite
<1> QED
  BY <1>1, <1>3, <1>4, <1>5, <1>6

LEMMA DocReturnStep ==
    ASSUME DocInv, NEW s \in Sessions,
           CommitPostReturn(s) \/ CheckReverseReturn(s) \/ SaveReverseReturn(s)
    PROVE  NoStaleDocument'
<1> DEFINE r == req[s].doc
<1> USE DEF At, CasFrom
<1>0. Keep \in Sync
  BY DEF Keep, Sync
<1>1. r \in Returns /\ req[s].op \in {"postReturn", "reverseReturn"}
  BY DEF DocInv, TypeInv, Shape, ReturnOps, CommitPostReturn, CheckReverseReturn,
         SaveReverseReturn
<1>2. lock[r] = s
  <2>1. Planned(req[s]) /\ Holds(s) /\ req[s].held = Len(req[s].plan)
    BY DEF DocInv, NoStaleDocument, CommitPostReturn, CheckReverseReturn, SaveReverseReturn
  <2>2. req[s].plan = <<r>>
    BY <1>1, <2>1 DEF Planned, OneLock
  <2> QED
    BY <2>1, <2>2 DEF Holds
<1>3. \A f : facts' = [facts EXCEPT ![r] = @ \cup {f}]
             => \A o \in Outbounds : facts'[o] = facts[o]
  BY <1>1, DistinctIds DEF DocInv, TypeInv, TypeOK, Docs
<1>4. CASE CommitPostReturn(s)
  <2>1. CASE Refuse(s)
    BY <2>1, FinishClean DEF Refuse, data
  <2>2. CASE ~ Refuse(s)
    <3>1. /\ Finish(s) /\ doc' = SetStatus(r, "posted")
          /\ facts' = [facts EXCEPT ![r] = @ \cup {"post"}]
      BY <1>4, <2>2 DEF CommitPostReturn
    <3> QED
      BY <1>1, <1>2, <1>3, <3>1, WriteReceiptOrReturn
  <2> QED
    BY <2>1, <2>2
<1>5. CASE CheckReverseReturn(s)
  BY <1>0, <1>5, ProceedDoc, FinishClean DEF CheckReverseReturn, Reversible, Refuse, data
<1>6. CASE SaveReverseReturn(s)
  <2>1. /\ Finish(s) /\ doc' = SetStatus(r, "reversed")
        /\ facts' = [facts EXCEPT ![r] = @ \cup {"reverse"}]
    BY <1>6 DEF SaveReverseReturn
  <2> QED
    BY <1>1, <1>2, <1>3, <2>1, WriteReceiptOrReturn
<1> QED
  BY <1>4, <1>5, <1>6

LEMMA DocShippedStep ==
    ASSUME DocInv, NEW s \in Sessions,
           \/ CheckPostOutbound(s) \/ SavePostOutbound(s) \/ AssertStatusTransition(s)
           \/ CheckReverseOutbound(s) \/ UpdateReverseOutbound(s) \/ SaveReverseOutbound(s)
    PROVE  NoStaleDocument'
<1> DEFINE o == req[s].doc
<1> USE DEF At, CasFrom
<1>0. /\ Keep \in Sync /\ TypeInv
      /\ req[s].op \in OutboundOps => o \in Outbounds /\ o \in Docs
  BY OutboundRequest DEF Keep, Sync, DocInv
<1>1. CASE CheckPostOutbound(s)
  BY <1>1, SyncShape, ProceedDoc, FinishClean DEF CheckPostOutbound, Refuse, data
<1>2. CASE SavePostOutbound(s)
  <2>1. /\ req[s].op = "postOutbound" /\ req[s].step = "save" /\ Finish(s)
        /\ doc' = SetStatus(o, "posted")
        /\ facts' = [facts EXCEPT ![o] = @ \cup {"post"}]
    BY <1>2 DEF SavePostOutbound
  <2>2. o \in Outbounds /\ o \in Docs /\ lock[o] = s /\ doc[o].st = "draft"
    BY <1>0, <2>1, SaveHoldsDoc
       DEF DocInv, NoStaleDocument, Found, OutboundOps, Guarded
  <2>3. doc'[o].st = "posted" /\ \A x \in Docs \ {o} : doc'[x] = doc[x]
    BY <1>0, <2>1, <2>2, SetStatusFacts
  <2>4. Reversals'
    BY <1>0, <2>1, <2>2, <2>3 DEF DocInv, NoStaleDocument, Reversals, Docs, TypeInv, TypeOK
  <2>5. \A t \in Sessions \ {s} : req[t].doc = o
          => req[t].op \notin DOMAIN CasFrom \cup {"reverseOutbound"}
    BY <2>2 DEF DocInv, NoStaleDocument, Found, LiveStatus
  <2> QED
    BY <2>1, <2>2, <2>3, <2>4, <2>5, FinishWrite
<1>3. CASE AssertStatusTransition(s)
  <2>1. CASE Refuse(s)
    BY <2>1, FinishClean DEF Refuse, data
  <2>2. CASE ~ Refuse(s)
    <3>1. /\ req[s].op \in {"updateShipping", "signOutbound"} /\ Finish(s)
          /\ doc' = SetStatus(o, CasTo[req[s].op]) /\ facts' = facts
          /\ doc[o].st \in CasFrom[req[s].op] /\ RowFree(s, o)
      BY <1>3, <2>2 DEF AssertStatusTransition
    <3>2. o \in Outbounds /\ o \in Docs /\ lock[o] \in {NoOne, s}
      BY <1>0, <3>1 DEF OutboundOps, RowFree
    <3>3. doc[o].st \in LiveStatus /\ CasTo[req[s].op] \in LiveStatus
      BY <3>1 DEF LiveStatus, CasTo
    <3>4. doc'[o].st \in LiveStatus /\ \A x \in Docs \ {o} : doc'[x] = doc[x]
      BY <1>0, <3>1, <3>2, <3>3, SetStatusFacts
    <3>5. Reversals'
      BY <3>1, <3>2, <3>3, <3>4 DEF DocInv, NoStaleDocument, Reversals, Docs, LiveStatus
    <3>6. ASSUME NEW t \in Sessions \ {s}, req[t].doc = o,
                 req[t].op \in DOMAIN CasFrom \cup {"reverseOutbound"}
          PROVE  Found(t)'
      <4>1. req'[t] = req[t]
        BY <3>1, FinishFacts
      <4> QED
        BY <3>4, <3>6, <4>1 DEF Found
    <3> QED
      BY <3>1, <3>2, <3>4, <3>5, <3>6, FinishWrite
  <2> QED
    BY <2>1, <2>2
<1>4. CASE CheckReverseOutbound(s)
  <2>1. CASE Refuse(s)
    BY <2>1, FinishClean DEF Refuse, data
  <2>2. CASE ~ Refuse(s)
    <3>1. /\ req[s].op = "reverseOutbound" /\ req[s].step = "check"
          /\ req[s].held = Len(req[s].plan)
          /\ "reverse" \notin facts[o] /\ Proceed(s, "update", Keep)
      BY <1>4, <2>2 DEF CheckReverseOutbound
    <3>2. doc[o].st \in LiveStatus
      BY <1>0, <3>1 DEF DocInv, NoStaleDocument, Found, Reversals, OutboundOps
    <3> QED
      BY <1>0, <3>1, <3>2, ProceedDoc
  <2> QED
    BY <2>1, <2>2
<1>5. CASE UpdateReverseOutbound(s)
  <2> DEFINE sync == SyncNoticeStatus(SetStatus(o, "reversed"), req[s].notice)
  <2>1. /\ req[s].op = "reverseOutbound" /\ req[s].step = "update"
        /\ lock[o] = NoOne /\ lock' = [lock EXCEPT ![o] = s]
        /\ doc' = doc /\ facts' = facts
    BY <1>5 DEF UpdateReverseOutbound, data
  <2>2. o \in Rows
    BY <1>0, <2>1 DEF OutboundOps, Rows
  <2> HIDE DEF sync
  <2>3. req' = [req EXCEPT ![s] = Stepped(req[s], "save", sync)] /\ req[s] \in Request
    BY <1>0, <1>5 DEF UpdateReverseOutbound, Stepped, TypeInv, TypeOK, sync
  <2>4. /\ Stepped(req[s], "save", sync).op = req[s].op
        /\ Stepped(req[s], "save", sync).doc = req[s].doc
        /\ Stepped(req[s], "save", sync).plan = req[s].plan
        /\ Stepped(req[s], "save", sync).held = req[s].held
        /\ Stepped(req[s], "save", sync).step = "save"
    BY <2>3 DEF Stepped, Request
  <2>5. /\ req'[s].op = req[s].op /\ req'[s].doc = req[s].doc
        /\ req'[s].plan = req[s].plan /\ req'[s].held = req[s].held /\ req'[s].step = "save"
        /\ \A t \in Sessions \ {s} : req'[t] = req[t]
    BY <1>0, <2>3, <2>4 DEF TypeInv, TypeOK
  <2>6. \A t \in Sessions : Planned(req'[t])
    BY <2>1, <2>5 DEF Planned, DocInv, NoStaleDocument
  <2>7. ASSUME NEW t \in Sessions PROVE Holds(t)'
    <3>1. lock'[o] = s /\ \A x \in Rows : lock[x] = t => lock'[x] = t
      BY <1>0, <2>1, <2>2, RequestFacts DEF TypeInv, TypeOK
    <3> DEFINE p == req[t].plan
    <3>2. \A i \in 1..req[t].held : p[i] \in Rows /\ lock[p[i]] = t
      BY <1>0, RequestFacts DEF Holds, Planned, DocInv, NoStaleDocument
    <3>3. \A i \in 1..req[t].held : lock'[p[i]] = t
      BY <3>1, <3>2
    <3>4. req[t].op = "reverseOutbound" /\ req[t].step = "save" => lock'[req[t].doc] = t
      BY <1>0, <3>1, RequestFacts DEF Holds, Rows, DocInv, NoStaleDocument
    <3>5. req'[t].held = req[t].held /\ req'[t].plan = p
      BY <2>5
    <3> HIDE DEF p
    <3>6. \A i \in 1..req'[t].held : lock'[req'[t].plan[i]] = t
      BY <3>3, <3>5
    <3> QED
      BY <2>5, <3>1, <3>4, <3>6 DEF Holds
  <2>8. \A t \in Sessions : Creates(t)'
    BY <2>1, <2>5 DEF Creates, DocInv, NoStaleDocument
  <2>9. ASSUME NEW t \in Sessions PROVE Found(t)'
    <3>1. CASE t = s
      BY <2>1, <2>5, <3>1 DEF Found, DocInv, NoStaleDocument
    <3>2. CASE t # s
      BY <2>1, <2>5, <3>2 DEF Found, DocInv, NoStaleDocument
    <3> QED
      BY <3>1, <3>2
  <2>10. Reversals'
    BY <2>1 DEF Reversals, DocInv, NoStaleDocument
  <2> QED
    BY <2>6, <2>7, <2>8, <2>9, <2>10 DEF NoStaleDocument
<1>6. CASE SaveReverseOutbound(s)
  <2>1. /\ req[s].op = "reverseOutbound" /\ req[s].step = "save" /\ Finish(s)
        /\ req[s].held = Len(req[s].plan)
        /\ doc' = SetStatus(o, "reversed")
        /\ facts' = [facts EXCEPT ![o] = @ \cup {"reverse"}]
    BY <1>6 DEF SaveReverseOutbound
  <2>2. o \in Outbounds /\ o \in Docs /\ lock[o] = s /\ doc[o].st \in LiveStatus
    BY <1>0, <2>1, SaveHoldsDoc
       DEF DocInv, NoStaleDocument, Found, OutboundOps, Guarded
  <2>3. doc'[o].st = "reversed" /\ \A x \in Docs \ {o} : doc'[x] = doc[x]
    BY <1>0, <2>1, <2>2, SetStatusFacts
  <2>4. Reversals'
    BY <1>0, <2>1, <2>2, <2>3 DEF DocInv, NoStaleDocument, Reversals, Docs, TypeInv, TypeOK
  <2>5. ASSUME NEW t \in Sessions \ {s}, req[t].doc = o,
               req[t].op \in DOMAIN CasFrom \cup {"reverseOutbound"}
        PROVE  Found(t)'
    <3>1. req'[t] = req[t]
      BY <2>1, FinishFacts
    <3>2. req[t].op = "reverseOutbound" => req[t].step = "check"
      <4> SUFFICES ASSUME req[t].op = "reverseOutbound", req[t].step # "check" PROVE FALSE
        OBVIOUS
      <4>1. req[t].held = Len(req[t].plan)
        BY DEF DocInv, NoStaleDocument, Planned
      <4> QED
        BY <2>1, <4>1, HoldsOrder
    <3> QED
      BY <2>3, <2>5, <3>1, <3>2 DEF Found
  <2> QED
    BY <2>1, <2>2, <2>3, <2>4, <2>5, FinishWrite
<1> QED
  BY <1>1, <1>2, <1>3, <1>4, <1>5, <1>6

-----------------------------------------------------------------------------
(***************************************************************************)
(* Every save is one change of the ledger.                                 *)
(***************************************************************************)
LEMMA UnchangedDoc ==
    ASSUME DocInv, UNCHANGED <<doc, facts, lock, req>>
    PROVE  NoStaleDocument'
<1>1. \A t \in Sessions : Planned(req'[t])
  BY DEF DocInv, NoStaleDocument
<1>2. \A t \in Sessions : Holds(t)'
  BY DEF DocInv, NoStaleDocument, Holds
<1>3. \A t \in Sessions : Creates(t)'
  BY DEF DocInv, NoStaleDocument, Creates
<1>4. \A t \in Sessions : Found(t)'
  BY DEF DocInv, NoStaleDocument, Found
<1>5. Reversals'
  BY DEF DocInv, NoStaleDocument, Reversals
<1> QED
  BY <1>1, <1>2, <1>3, <1>4, <1>5 DEF NoStaleDocument

LEMMA DocNext == DocInv /\ [Next]_vars => DocInv'
<1> SUFFICES ASSUME DocInv, [Next]_vars PROVE NoStaleDocument'
  BY TypeNext DEF DocInv
<1>2. ASSUME NEW s \in Sessions, BeginConfirm(s) PROVE NoStaleDocument'
  <2> PICK o \in Outbounds :
        /\ req[s].op = "idle"
        /\ req' = [req EXCEPT ![s] = NewRequest("confirm", o, NoOne, 1, << >>)]
        /\ UNCHANGED <<doc, facts, lock>>
    BY <1>2 DEF BeginConfirm
  <2> DEFINE r == NewRequest("confirm", o, NoOne, 1, << >>)
  <2>1. r.op = "confirm" /\ r.held = 0 /\ r.step = "check" /\ r.plan = << >>
    BY DEF NewRequest
  <2>2. req'[s] = r /\ \A t \in Sessions \ {s} : req'[t] = req[t]
    BY DEF DocInv, TypeInv, TypeOK
  <2> HIDE DEF r
  <2>3. \A t \in Sessions : Planned(req'[t])
    BY <2>1, <2>2 DEF Planned, OneLock, DocInv, NoStaleDocument
  <2>4. \A t \in Sessions : Holds(t)'
    BY <2>1, <2>2 DEF Holds, DocInv, NoStaleDocument
  <2>5. \A t \in Sessions : Creates(t)'
    BY <2>1, <2>2 DEF Creates, Creating, DocInv, NoStaleDocument
  <2>6. \A t \in Sessions : Found(t)'
    BY <2>1, <2>2 DEF Found, CasFrom, DocInv, NoStaleDocument
  <2>7. Reversals'
    BY DEF Reversals, DocInv, NoStaleDocument
  <2> QED
    BY <2>3, <2>4, <2>5, <2>6, <2>7 DEF NoStaleDocument
<1>3. ASSUME NEW s \in Sessions, BeginRequest(s) PROVE NoStaleDocument'
  BY <1>2, <1>3, DocBegin
<1>4. ASSUME NEW s \in Sessions, Accrue(s) \/ Abort(s) PROVE NoStaleDocument'
  BY <1>4, FinishClean DEF Accrue, Abort, Refuse, data
<1>5. ASSUME NEW s \in Sessions, RequestStep(s) PROVE NoStaleDocument'
  BY <1>4, <1>5, TakeLockDoc, DocReceiptStep, DocNoticeStep, DocDraftStep,
     DocShippedStep, DocReturnStep DEF RequestStep
<1>6. CASE CreateReturn
  <2> PICK r \in Returns, q \in Quantities, c \in Categories :
        /\ FreshDoc(r)
        /\ doc' = [doc EXCEPT ![r] = NewReturn(r, q, c)]
        /\ UNCHANGED <<facts, lock, req>>
    BY <1>6 DEF CreateReturn
  <2>1. /\ \A x \in Docs \ {r} : doc'[x] = doc[x]
        /\ r \in Docs /\ r \notin Outbounds
    BY DistinctIds DEF DocInv, TypeInv, TypeOK, Docs
  <2>2. Reversals'
    BY <2>1 DEF Reversals, DocInv, NoStaleDocument, Docs
  <2>3. ASSUME NEW t \in Sessions PROVE Holds(t)' /\ Creates(t)' /\ Found(t)'
    <3>1. req[t].doc # r
      BY DEF FreshDoc
    <3>2. CASE req[t].doc \in Docs
      BY <2>1, <3>1, <3>2 DEF Holds, Creates, Found, DocInv, NoStaleDocument
    <3>3. CASE req[t].doc \notin Docs
      <4>1. req[t].op \notin Guarded \cup DOMAIN CasFrom \cup Creating
        BY <3>3 DEF DocInv, TypeInv, Shape, Guarded, CasFrom, Creating, ReceiptOps,
                    OutboundOps, ReturnOps, Receipts, Docs
      <4> QED
        BY <4>1 DEF Holds, Creates, Found, Guarded, DocInv, NoStaleDocument
    <3> QED
      BY <3>2, <3>3
  <2>4. \A t \in Sessions : Planned(req'[t])
    BY DEF DocInv, NoStaleDocument
  <2> QED
    BY <2>2, <2>3, <2>4 DEF NoStaleDocument
<1>7. CASE Reopen \/ CancelReceivable
  BY <1>7, UnchangedDoc DEF Reopen, CancelReceivable
<1>8. CASE UNCHANGED vars
  BY <1>8, UnchangedDoc DEF vars
<1> QED
  BY <1>3, <1>4, <1>5, <1>6, <1>7, <1>8 DEF Next

LEMMA DocInvariant == Spec => []DocInv
BY TypeInit, DocInit, DocNext, PTL DEF Spec, DocInv

(***************************************************************************)
(* Whatever the requests interleave, the document a request saves is still *)
(* the one it checked.                                                     *)
(***************************************************************************)
THEOREM DocumentsAreNotStale == Spec => []NoStaleDocument
<1>1. DocInv => NoStaleDocument
  BY DEF DocInv
<1> QED
  BY <1>1, DocInvariant, PTL

-----------------------------------------------------------------------------
LEMMA LedgerInit == Init => Ledger!Init
<1> SUFFICES ASSUME Init PROVE Ledger!Init
  OBVIOUS
<1>1. doc \in [Docs -> {row \in DocRow : row.st = "absent"}]
  <2>1. \A d \in Docs : [st |-> "absent", qty |-> 1, notice |-> NoOne,
                         cat |-> IF d \in Defectives THEN "defective_goods"
                                                      ELSE "finished_goods"]
                        \in {row \in DocRow : row.st = "absent"}
    BY FiniteIds DEF DocRow, Quantities, Categories
  <2> QED
    BY <2>1 DEF Init
<1> QED
  BY <1>1 DEF Init, Ledger!Init

\* A request is refused, or it ends without touching the ledger.
LEMMA RefuseLedger ==
    ASSUME NEW s \in Sessions, Refuse(s)
    PROVE  UNCHANGED Ledger!lvars
BY DEF Refuse, data, Ledger!lvars

\* INSERT of a document.
LEMMA DraftLedger ==
    ASSUME NEW d \in Docs, doc[d].st = "absent",
           NEW row \in DocRow, row.st = "draft",
           doc' = [doc EXCEPT ![d] = row], UNCHANGED <<stock, receivable>>
    PROVE  Ledger!Next
BY DEF Ledger!Next, Ledger!Draft

LEMMA ReceiptLedger ==
    ASSUME DocInv, NEW s \in Sessions, ReceiptStep(s)
    PROVE  [Ledger!Next]_(Ledger!lvars)
<1> DEFINE d == req[s].doc
<1> USE DEF At
<1>0. req[s].op \in ReceiptOps => d \in Docs \ Outbounds
  BY ReceiptRequest, DistinctIds DEF DocInv, Receipts, Docs
<1>1. CASE CheckCreateReceipt(s) \/ CheckPostReceipt(s) \/ CheckReverseReceipt(s)
  BY <1>1, RefuseLedger
     DEF CheckCreateReceipt, CheckPostReceipt, CheckReverseReceipt, Proceed, data, Ledger!lvars
<1>2. CASE SaveCreateReceipt(s)
  <2>1. d \in Docs /\ doc[d].st = "absent"
    BY <1>0, <1>2 DEF SaveCreateReceipt, ReceiptOps, Creating, Creates, DocInv, NoStaleDocument
  <2>2. doc[d] \in DocRow /\ req[s].qty \in Quantities
    BY <2>1 DEF DocInv, TypeInv, TypeOK, Request
  <2>3. \A x \in DocRow, q \in Quantities : /\ [x EXCEPT !.st = "draft", !.qty = q] \in DocRow
                                           /\ [x EXCEPT !.st = "draft", !.qty = q].st = "draft"
    BY DEF DocRow
  <2>4. NewReceipt(s) \in DocRow /\ NewReceipt(s).st = "draft"
    BY <2>2, <2>3 DEF NewReceipt
  <2> QED
    BY <1>2, <2>1, <2>4, DraftLedger DEF SaveCreateReceipt
<1>3. CASE SavePostReceipt(s)
  <2>1. d \in Docs \ Outbounds /\ doc[d].st = "draft"
    BY <1>0, <1>3 DEF SavePostReceipt, ReceiptOps, Found, DocInv, NoStaleDocument
  <2>2. /\ doc' = [doc EXCEPT ![d].st = "posted"]
        /\ stock' = [stock EXCEPT ![doc[d].cat] = @ + doc[d].qty]
        /\ receivable' = receivable
    BY <1>3 DEF SavePostReceipt, SetStatus
  <2>3. Ledger!Receive(d)
    BY <2>1, <2>2 DEF Ledger!Receive, Ledger!Become, Ledger!BringIn, Ledger!Category
  <2> QED
    BY <2>1, <2>3 DEF Ledger!Next
<1>4. CASE SaveReverseReceipt(s)
  <2>1. d \in Docs \ Outbounds /\ doc[d].st = "posted"
    BY <1>0, <1>4 DEF SaveReverseReceipt, ReceiptOps, Found, DocInv, NoStaleDocument
  <2>2. /\ doc' = [doc EXCEPT ![d].st = "reversed"]
        /\ stock' = [stock EXCEPT ![doc[d].cat] = @ - doc[d].qty]
        /\ receivable' = receivable
    BY <1>4 DEF SaveReverseReceipt, SetStatus
  <2>3. Ledger!TakeBack(d)
    BY <2>1, <2>2 DEF Ledger!TakeBack, Ledger!Become, Ledger!TakeOut, Ledger!Category
  <2> QED
    BY <2>1, <2>3 DEF Ledger!Next
<1> QED
  BY <1>1, <1>2, <1>3, <1>4 DEF ReceiptStep

LEMMA ReturnLedger ==
    ASSUME DocInv, NEW s \in Sessions,
           CommitPostReturn(s) \/ CheckReverseReturn(s) \/ SaveReverseReturn(s)
    PROVE  [Ledger!Next]_(Ledger!lvars)
<1> DEFINE r == req[s].doc
<1> USE DEF At
<1>0. r \in Docs \ Outbounds
  BY DistinctIds DEF DocInv, TypeInv, Shape, ReturnOps, Docs, CommitPostReturn,
                     CheckReverseReturn, SaveReverseReturn
<1>1. CASE Refuse(s) \/ CheckReverseReturn(s)
  BY <1>1, RefuseLedger DEF CheckReverseReturn, Proceed, data, Ledger!lvars
<1>2. CASE CommitPostReturn(s) /\ ~ Refuse(s)
  <2>1. /\ doc[r].st = "draft"
        /\ doc' = [doc EXCEPT ![r].st = "posted"]
        /\ stock' = [stock EXCEPT ![doc[r].cat] = @ + doc[r].qty]
        /\ receivable' = receivable
    BY <1>2 DEF CommitPostReturn, SetStatus
  <2>2. Ledger!Receive(r)
    BY <1>0, <2>1 DEF Ledger!Receive, Ledger!Become, Ledger!BringIn, Ledger!Category
  <2> QED
    BY <1>0, <2>2 DEF Ledger!Next
<1>3. CASE SaveReverseReturn(s)
  <2>1. doc[r].st = "posted"
    BY <1>3 DEF SaveReverseReturn, Found, DocInv, NoStaleDocument
  <2>2. /\ doc' = [doc EXCEPT ![r].st = "reversed"]
        /\ stock' = [stock EXCEPT ![doc[r].cat] = @ - doc[r].qty]
        /\ receivable' = receivable
    BY <1>3 DEF SaveReverseReturn, SetStatus
  <2>3. Ledger!TakeBack(r)
    BY <1>0, <2>1, <2>2 DEF Ledger!TakeBack, Ledger!Become, Ledger!TakeOut, Ledger!Category
  <2> QED
    BY <1>0, <2>3 DEF Ledger!Next
<1> QED
  BY <1>1, <1>2, <1>3

LEMMA DraftOutboundLedger ==
    ASSUME DocInv, NEW s \in Sessions, req[s].op \in Creating \ ReceiptOps,
           doc' = [doc EXCEPT ![req[s].doc] = NewOutbound(s)],
           UNCHANGED <<stock, receivable>>
    PROVE  Ledger!Next
<1> DEFINE o == req[s].doc
<1>1. o \in Docs /\ doc[o].st = "absent"
  BY RequestFacts DEF DocInv, NoStaleDocument, Creates
<1>2. doc[o] \in DocRow /\ req[s].qty \in Quantities /\ req[s].notice \in Notices \cup {NoOne}
  BY <1>1 DEF DocInv, TypeInv, TypeOK, Request
<1>3. \A x \in DocRow, q \in Quantities, n \in Notices \cup {NoOne} :
        /\ [x EXCEPT !.st = "draft", !.qty = q, !.notice = n] \in DocRow
        /\ [x EXCEPT !.st = "draft", !.qty = q, !.notice = n].st = "draft"
  BY DEF DocRow
<1>4. NewOutbound(s) \in DocRow /\ NewOutbound(s).st = "draft"
  BY <1>2, <1>3 DEF NewOutbound
<1> QED
  BY <1>1, <1>4, DraftLedger

LEMMA ShipmentLedger ==
    ASSUME DocInv, NEW s \in Sessions,
           \/ SaveCreateOutbound(s) \/ CommitFromNotice(s) \/ SaveCancelOutbound(s)
           \/ SavePostOutbound(s) \/ AssertStatusTransition(s) \/ SaveReverseOutbound(s)
    PROVE  [Ledger!Next]_(Ledger!lvars)
<1> DEFINE o == req[s].doc
<1> USE DEF At
<1>0. req[s].op \in OutboundOps => o \in Outbounds /\ o \in Docs
  BY OutboundRequest DEF DocInv
<1>1. CASE Refuse(s)
  BY <1>1, RefuseLedger
<1>2. CASE SaveCreateOutbound(s)
  BY <1>2, DraftOutboundLedger DEF SaveCreateOutbound, Creating, ReceiptOps
<1>3. CASE CommitFromNotice(s) /\ ~ Refuse(s)
  BY <1>3, DraftOutboundLedger DEF CommitFromNotice, Creating, ReceiptOps
<1>4. CASE SaveCancelOutbound(s)
  <2>1. o \in Outbounds /\ doc[o].st = "draft"
    BY <1>0, <1>4 DEF SaveCancelOutbound, OutboundOps, Found, DocInv, NoStaleDocument
  <2>2. doc' = [doc EXCEPT ![o].st = "cancelled"] /\ UNCHANGED <<stock, receivable>>
    BY <1>4 DEF SaveCancelOutbound, SetStatus
  <2>3. Ledger!Cancel(o)
    BY <2>1, <2>2 DEF Ledger!Cancel, Ledger!Become
  <2> QED
    BY <2>1, <2>3 DEF Ledger!Next
<1>5. CASE SavePostOutbound(s)
  <2>1. o \in Outbounds /\ doc[o].st = "draft"
    BY <1>0, <1>5 DEF SavePostOutbound, OutboundOps, Found, DocInv, NoStaleDocument
  <2>2. /\ doc' = [doc EXCEPT ![o].st = "posted"]
        /\ stock' = [stock EXCEPT !["finished_goods"] = @ - doc[o].qty]
        /\ receivable' = [receivable EXCEPT ![o] = "draft"]
    BY <1>5 DEF SavePostOutbound, SetStatus
  <2>3. Ledger!Ship(o)
    BY <2>1, <2>2 DEF Ledger!Ship, Ledger!Become, Ledger!TakeOut, Ledger!Category, Ledger!Owe
  <2> QED
    BY <2>1, <2>3 DEF Ledger!Next
<1>6. CASE AssertStatusTransition(s) /\ ~ Refuse(s)
  <2>1. /\ req[s].op \in {"updateShipping", "signOutbound"}
        /\ doc[o].st \in CasFrom[req[s].op]
        /\ doc' = [doc EXCEPT ![o].st = CasTo[req[s].op]]
        /\ UNCHANGED <<stock, receivable>>
    BY <1>6 DEF AssertStatusTransition, SetStatus, CasFrom
  <2>2. doc[o].st \in LiveStatus /\ CasTo[req[s].op] \in LiveStatus
    BY <2>1 DEF CasFrom, CasTo, LiveStatus
  <2>3. o \in Outbounds
    BY <1>0, <2>1 DEF OutboundOps
  <2>4. Ledger!Deliver(o)
    BY <2>1, <2>2 DEF Ledger!Deliver, Ledger!Become
  <2> QED
    BY <2>3, <2>4 DEF Ledger!Next
<1>7. CASE SaveReverseOutbound(s)
  <2>1. o \in Outbounds /\ doc[o].st \in LiveStatus
    BY <1>0, <1>7 DEF SaveReverseOutbound, OutboundOps, Found, DocInv, NoStaleDocument
  <2>2. /\ doc' = [doc EXCEPT ![o].st = "reversed"]
        /\ stock' = [stock EXCEPT !["finished_goods"] = @ + doc[o].qty]
        /\ receivable' = [receivable EXCEPT ![o] = "cancelled"]
    BY <1>7 DEF SaveReverseOutbound, SetStatus
  <2>3. Ledger!Reverse(o)
    BY <2>1, <2>2 DEF Ledger!Reverse, Ledger!Become, Ledger!BringIn, Ledger!Category, Ledger!Owe
  <2> QED
    BY <2>1, <2>3 DEF Ledger!Next
<1> QED
  BY <1>1, <1>2, <1>3, <1>4, <1>5, <1>6, <1>7

LEMMA LedgerStep == DocInv /\ [Next]_vars => [Ledger!Next]_(Ledger!lvars)
<1> SUFFICES ASSUME DocInv, [Next]_vars PROVE [Ledger!Next]_(Ledger!lvars)
  OBVIOUS
<1>1. ASSUME NEW s \in Sessions, BeginRequest(s) PROVE [Ledger!Next]_(Ledger!lvars)
  <2>1. CASE BeginConfirm(s)
    <3> PICK o \in Outbounds :
          /\ receivable[o] = "draft"
          /\ receivable' = [receivable EXCEPT ![o] = "confirmed"]
          /\ UNCHANGED <<doc, stock>>
      BY <2>1 DEF BeginConfirm
    <3>1. Ledger!Settle(o)
      BY DEF Ledger!Settle, Ledger!Owe
    <3> QED
      BY <3>1 DEF Ledger!Next
  <2>2. CASE ~ BeginConfirm(s)
    <3>1. UNCHANGED data
      BY <1>1, <2>2 DEF BeginRequest, BeginReceipt, Begin, BeginCreateReceipt, BeginPostReceipt,
         BeginReverseReceipt, BeginCreateNotice, BeginCancelNotice, BeginCreateOutbound,
         BeginFromNotice, BeginCancelOutbound, BeginPostOutbound, BeginCas,
         BeginReverseOutbound, BeginPostReturn, BeginReverseReturn
    <3> QED
      BY <3>1 DEF data, Ledger!lvars
  <2> QED
    BY <2>1, <2>2
<1>2. ASSUME NEW s \in Sessions, RequestStep(s) PROVE [Ledger!Next]_(Ledger!lvars)
  <2>1. CASE UNCHANGED <<doc, stock, receivable>>
    BY <2>1 DEF Ledger!lvars
  <2>2. TakeLock(s) \/ CountDrafts(s) \/ CheckReservation(s) \/ CheckCancelOutbound(s)
        \/ CheckPostOutbound(s) \/ CheckReverseOutbound(s) \/ UpdateReverseOutbound(s)
        \/ CommitCreateNotice(s) \/ CommitCancelNotice(s) \/ Accrue(s)
        => UNCHANGED <<doc, stock, receivable>>
    BY DEF TakeLock, CountDrafts, CheckReservation, CheckCancelOutbound, CheckPostOutbound,
           CheckReverseOutbound, UpdateReverseOutbound, CommitCreateNotice, CommitCancelNotice,
           Accrue, Proceed, Refuse, data
  <2> QED
    BY <1>2, <2>1, <2>2, ReceiptLedger, ReturnLedger, ShipmentLedger DEF RequestStep
<1>3. ASSUME NEW s \in Sessions, Abort(s) PROVE [Ledger!Next]_(Ledger!lvars)
  BY <1>3, RefuseLedger DEF Abort
<1>4. CASE CreateReturn
  <2> PICK r \in Returns, q \in Quantities, c \in Categories :
        /\ FreshDoc(r)
        /\ doc' = [doc EXCEPT ![r] = NewReturn(r, q, c)]
        /\ UNCHANGED <<stock, receivable>>
    BY <1>4 DEF CreateReturn
  <2>1. r \in Docs /\ doc[r].st = "absent" /\ doc[r] \in DocRow
    BY DEF FreshDoc, Docs, DocInv, TypeInv, TypeOK
  <2>2. \A x \in DocRow : /\ [x EXCEPT !.st = "draft", !.qty = q, !.cat = c] \in DocRow
                         /\ [x EXCEPT !.st = "draft", !.qty = q, !.cat = c].st = "draft"
    BY DEF DocRow
  <2>3. NewReturn(r, q, c) \in DocRow /\ NewReturn(r, q, c).st = "draft"
    BY <2>1, <2>2 DEF NewReturn
  <2> QED
    BY <2>1, <2>3, DraftLedger
<1>5. CASE Reopen \/ CancelReceivable
  BY <1>5 DEF Reopen, CancelReceivable, Ledger!Next, Ledger!Settle, Ledger!Owe
<1>6. CASE UNCHANGED vars
  BY <1>6 DEF vars, Ledger!lvars
<1> QED
  BY <1>1, <1>2, <1>3, <1>4, <1>5, <1>6 DEF Next

(***************************************************************************)
(* The interleaved handlers implement the ledger of one-step documents.    *)
(***************************************************************************)
THEOREM WarehouseImplementsLedger == Spec => ImplementsLedger
BY LedgerInit, LedgerStep, DocInvariant, PTL DEF Spec, Ledger!Spec, ImplementsLedger
=============================================================================
