--------------------------- MODULE Materials_proofs ---------------------------
(***************************************************************************)
(* Raw materials, for any number of requests, documents and batches, and   *)
(* whether a behaviour follows one desk or all of them.                    *)
(***************************************************************************)
EXTENDS MaterialsInvariants, Sums_proofs

USE MaterialsAssumption

allVars == <<vars, count>>

-----------------------------------------------------------------------------
(* Types.  Every step starts one request, ends one, or ends one and dooms  *)
(* others.                                                                 *)
LEMMA IdleTyped == Idle \in Jobs /\ Idle.op = "idle" /\ Shaped(Idle)
BY DEF Idle, Jobs, NoRow, BatchRows, Shaped, BatchOps, InboundOps, MovementOps, CountOps, Serializable, Confirmations

LEMMA StartTyped ==
    ASSUME TypeInv, NEW s \in Sessions, NEW op, NEW doc, NEW arg \in Int, Start(s, op, doc, arg),
           \/ op \in InboundOps /\ doc \in Inbounds
           \/ op \in MovementOps /\ doc \in Movements
           \/ op \in CountOps /\ doc \in Stocktakes
           \/ op = "register" /\ doc \in Batches /\ arg \in Qty
    PROVE  job' \in [Sessions -> Jobs] /\ JobShape'
<1> DEFINE j == [Idle EXCEPT !.op = op, !.doc = doc, !.arg = arg]
<1>1. j \in Jobs
  BY IdleTyped DEF Jobs, InboundOps, MovementOps, CountOps, Booked, Confirmations
<1>2. job' = [job EXCEPT ![s] = j]
  BY DEF Start
<1>3. j.op = op /\ j.doc = doc /\ j.arg = arg
  BY DEF Idle
<1> HIDE DEF j
<1>4. Shaped(j)
  BY <1>3 DEF Shaped, BatchOps, InboundOps, MovementOps, CountOps, Serializable, Confirmations
<1>5. job' \in [Sessions -> Jobs] /\ \A t \in Sessions : job'[t] = IF t = s THEN j ELSE job[t]
  BY <1>1, <1>2 DEF TypeInv, TypeOK
<1> QED
  BY <1>4, <1>5 DEF TypeInv, JobShape

LEMMA StartWriteTyped ==
    ASSUME TypeInv, NEW s \in Sessions, NEW op, NEW i \in Batches, NEW row \in BatchRows,
           StartWrite(s, op, i, row), op \in {"inspect", "correct", "transition", "return"}
    PROVE  job' \in [Sessions -> Jobs] /\ JobShape'
<1> DEFINE j == [Idle EXCEPT !.op = op, !.doc = i, !.row = row]
<1>1. j \in Jobs /\ Shaped(j)
  BY IdleTyped DEF Jobs, Shaped, BatchOps, InboundOps, MovementOps, CountOps, Serializable, Confirmations
<1>2. job' = [job EXCEPT ![s] = j]
  BY DEF StartWrite
<1> HIDE DEF j
<1> QED
  BY <1>1, <1>2 DEF TypeInv, TypeOK, JobShape

LEMMA DoneTyped ==
    ASSUME TypeInv, NEW s \in Sessions, Done(s)
    PROVE  job' \in [Sessions -> Jobs] /\ JobShape'
<1>1. job' \in [Sessions -> Jobs] /\ \A t \in Sessions : job'[t] = IF t = s THEN Idle ELSE job[t]
  BY IdleTyped DEF TypeInv, TypeOK, Done
<1> QED
  BY <1>1, IdleTyped DEF TypeInv, JobShape

\* Others may be doomed, and nothing else.
DoomsOnly(idle, doomed) ==
    job' = [t \in Sessions |-> IF t \in idle THEN Idle
                               ELSE [job[t] EXCEPT !.doomed = @ \/ t \in doomed]]

LEMMA DoomTyped ==
    ASSUME TypeInv, NEW idle, NEW doomed, DoomsOnly(idle, doomed)
    PROVE  job' \in [Sessions -> Jobs] /\ JobShape'
<1>1. ASSUME NEW t \in Sessions PROVE job'[t] \in Jobs /\ Shaped(job'[t])
  <2>1. job[t] \in Jobs /\ Shaped(job[t])
    BY DEF TypeInv, TypeOK, JobShape
  <2> DEFINE d == job[t].doomed \/ t \in doomed
             j == [job[t] EXCEPT !.doomed = d]
  <2>2. d \in BOOLEAN
    BY Zenon
  <2>3. job'[t] = IF t \in idle THEN Idle ELSE j
    BY Zenon DEF DoomsOnly
  <2> HIDE DEF d
  <2>4. j \in Jobs /\ j.op = job[t].op /\ j.doc = job[t].doc /\ j.arg = job[t].arg
    BY <2>1, <2>2 DEF Jobs
  <2>5. Shaped(j)
    BY <2>1, <2>4 DEF Shaped
  <2> HIDE DEF j
  <2> QED BY <2>3, <2>4, <2>5, IdleTyped
<1>2. job' = [t \in Sessions |-> job'[t]]
  BY DEF DoomsOnly
<1> QED BY <1>1, <1>2 DEF JobShape

LEMMA CommitDooms ==
    ASSUME NEW s \in Sessions, CommitSerializable(s)
    PROVE  DoomsOnly({s}, {t \in Sessions : Conflict(job[s], job[t])})
BY DEF CommitSerializable, DoomsOnly

LEMMA OverwriteDooms ==
    ASSUME NEW m, NEW idle, Overwrites(m, idle)
    PROVE  DoomsOnly(idle, {t \in Sessions : job[t].op \in Serializable /\ job[t].doc = m})
BY DEF Overwrites, DoomsOnly

-----------------------------------------------------------------------------
\* Balances and quantities are integers.
LEMMA BookedFinite == IsFiniteSet(Booked)
<1>1. Booked = (Inbounds \cup Movements) \cup Stocktakes
  BY DEF Booked
<1> QED BY <1>1, FS_Union

LEMMA BalanceTyped == ASSUME TypeInv PROVE Balance \in Int
<1>1. \A x \in Booked : fact[x] \in Int
  BY DEF TypeInv, TypeOK
<1> QED BY <1>1, BookedFinite, SumOut DEF Balance

LEMMA QtyTyped == ASSUME TypeInv, NEW B \in SUBSET Inbounds PROVE QtyOf(B) \in Int
<1> DEFINE q == [b \in Inbounds |-> inb[b].qty]
<1>1. \A x \in B : q[x] \in Int
  BY DEF TypeInv, TypeOK, InboundRows
<1>2. IsFiniteSet(B)
  BY FS_Subset
<1> HIDE DEF q
<1>3. SumOf(q, B) \in Int
  BY <1>1, <1>2, SumOut
<1> QED BY <1>3 DEF QtyOf, q

LEMMA GradedTyped ==
    ASSUME NEW row \in BatchRows, NEW a \in 0..MaxQty, NEW r \in 0..MaxRejected,
           NEW none \in {"pending", "inspecting", "accepted", "rejected", "completed", "cancelled"}
    PROVE  Graded(row, a, r, none) \in BatchRows
BY DEF Graded, BatchRows

LEMMA InspectionTyped == ASSUME TypeInv, InspectionStep, UNCHANGED count PROVE TypeInv'
<1>1. batch \in [Batches -> BatchRows]
  BY DEF TypeInv, TypeOK
<1>2. ASSUME NEW s \in Sessions, NEW i \in Batches, NEW op \in {"inspect", "correct", "transition", "return"},
             NEW row \in BatchRows, StartWrite(s, op, i, row), UNCHANGED <<tables, desk, past>>
      PROVE  TypeInv'
  <2>1. job' \in [Sessions -> Jobs] /\ JobShape'
    BY <1>2, StartWriteTyped
  <2> QED BY <1>2, <2>1 DEF TypeInv, TypeOK, tables, past
<1>3. ASSUME NEW s \in Sessions, WriteBatch(s), job[s].op \in BatchOps PROVE TypeInv'
  <2>1. job' \in [Sessions -> Jobs] /\ JobShape'
    BY <1>3, DoneTyped DEF WriteBatch
  <2>2. job[s].doc \in Batches /\ job[s].row \in BatchRows
    BY <1>3 DEF TypeInv, TypeOK, JobShape, Shaped, Jobs
  <2>3. job[s].row.accepted \in 0..MaxQty
    BY <2>2 DEF BatchRows
  <2>4. peak' \in [Batches -> 0..MaxQty] /\ batch' \in [Batches -> BatchRows]
    BY <1>3, <2>2, <2>3 DEF WriteBatch, TypeInv, TypeOK
  <2> QED BY <1>3, <2>1, <2>4 DEF WriteBatch, TypeInv, TypeOK
<1>4. ASSUME NEW s \in Sessions, NEW i \in Batches, NEW a \in 0..MaxQty, NEW r \in 0..MaxRejected,
             InspectBegin(s, i, a, r)
      PROVE  TypeInv'
  <2>1. batch[i] \in BatchRows /\ batch[i].accepted \in 0..MaxQty /\ batch[i].rejected \in 0..MaxRejected
    BY <1>1 DEF BatchRows
  <2>2. batch[i].accepted + a \in 0..MaxQty /\ batch[i].rejected + r \in 0..MaxRejected
    BY <1>4, <2>1 DEF InspectBegin
  <2>3. Graded(batch[i], batch[i].accepted + a, batch[i].rejected + r, "pending") \in BatchRows
    BY <2>1, <2>2, GradedTyped
  <2> QED BY <1>2, <1>4, <2>3 DEF InspectBegin
<1>5. ASSUME NEW s \in Sessions, NEW i \in Batches, NEW a \in 0..MaxQty, NEW r \in 0..MaxRejected,
             CorrectBegin(s, i, a, r)
      PROVE  TypeInv'
  <2>1. batch[i] \in BatchRows
        /\ batch[i].status \in {"pending", "inspecting", "accepted", "rejected", "completed", "cancelled"}
    BY <1>1 DEF BatchRows
  <2>2. Graded(batch[i], a, r, batch[i].status) \in BatchRows
    BY <2>1, GradedTyped
  <2> QED BY <1>2, <1>5, <2>2 DEF CorrectBegin
<1>6. ASSUME NEW i \in Batches, NEW st \in {"pending", "inspecting", "completed", "cancelled"}
      PROVE  [batch[i] EXCEPT !.status = st] \in BatchRows
  BY <1>1 DEF BatchRows
<1>7. ASSUME NEW s \in Sessions, NEW i \in Batches, NEW target \in {"pending", "inspecting", "completed", "cancelled"},
             TransitionBegin(s, i, target)
      PROVE  TypeInv'
  BY <1>2, <1>6, <1>7 DEF TransitionBegin
<1>8. ASSUME NEW s \in Sessions, NEW i \in Batches, ReturnToSupplierBegin(s, i) PROVE TypeInv'
  BY <1>2, <1>6, <1>8 DEF ReturnToSupplierBegin
<1>9. ASSUME NEW s \in Sessions, InspectCommit(s) \/ LockedWriteCommit(s) PROVE TypeInv'
  BY <1>3, <1>9 DEF InspectCommit, LockedWriteCommit, Working, BatchOps
<1> QED BY <1>4, <1>5, <1>7, <1>8, <1>9 DEF InspectionStep

LEMMA NoInboundTyped ==
    NoInbound \in InboundRows /\ [NoInbound EXCEPT !.status = "draft"] \in InboundRows
<1>1. 0 \in -MaxQty..MaxQty
  OBVIOUS
<1> QED BY <1>1 DEF InboundRows, NoInbound

LEMMA DraftTyped ==
    ASSUME NEW i \in Batches, NEW q \in -MaxQty..MaxQty
    PROVE  /\ [NoInbound EXCEPT !.status = "draft", !.qty = q, !.batch = i] \in InboundRows
           /\ [NoInbound EXCEPT !.status = "draft", !.qty = q, !.batch = i, !.linked = TRUE] \in InboundRows
BY DEF InboundRows, NoInbound

\* A request on an inbound finds a row and a number in its facts.
LEMMA InboundJobTyped ==
    ASSUME TypeInv, NEW s \in Sessions, job[s].op \in InboundOps
    PROVE  LET b == job[s].doc
           IN b \in Inbounds /\ inb[b] \in InboundRows /\ inb[b].qty \in Int /\ fact[b] \in Int /\ b \in Booked
<1>1. job[s].doc \in Inbounds
  BY DEF TypeInv, JobShape, Shaped
<1>2. inb[job[s].doc] \in InboundRows /\ inb[job[s].doc].qty \in Int
  BY <1>1 DEF TypeInv, TypeOK, InboundRows
<1>3. job[s].doc \in Booked
  BY <1>1 DEF Booked
<1> QED BY <1>1, <1>2, <1>3 DEF TypeInv, TypeOK

LEMMA FactTyped ==
    ASSUME TypeInv, NEW d \in Booked, NEW x \in Int, fact' = [fact EXCEPT ![d] = x]
    PROVE  fact' \in [Booked -> Int]
BY DEF TypeInv, TypeOK

LEMMA InboundStepTyped == ASSUME TypeInv, InboundStep, UNCHANGED count PROVE TypeInv'
<1>1. inb \in [Inbounds -> InboundRows] /\ notice \in [Batches -> {"none", "pending", "acknowledged"}]
  BY DEF TypeInv, TypeOK
<1>2. \A b \in Inbounds : b \in Booked
  BY DEF Booked
<1>3. ASSUME NEW s \in Sessions, NEW i \in Batches, NEW q \in Qty, RegisterBegin(s, i, q) PROVE TypeInv'
  <2>2. job' \in [Sessions -> Jobs] /\ JobShape'
    BY <1>3, StartTyped DEF RegisterBegin, Qty
  <2> QED BY <1>3, <2>2 DEF RegisterBegin, TypeInv, TypeOK, tables, past
<1>4. ASSUME NEW s \in Sessions, NEW b \in Inbounds, RegisterCommit(s, b) PROVE TypeInv'
  <2>1. job' \in [Sessions -> Jobs] /\ JobShape'
    BY <1>4, DoneTyped DEF RegisterCommit
  <2>2. job[s].doc \in Batches /\ job[s].arg \in -MaxQty..MaxQty
    BY <1>4 DEF RegisterCommit, Working, TypeInv, JobShape, Shaped, BatchOps, Qty
  <2>3. inb' \in [Inbounds -> InboundRows]
    BY <1>1, <1>4, <2>2, DraftTyped DEF RegisterCommit
  <2> QED BY <1>4, <2>1, <2>3 DEF RegisterCommit, TypeInv, TypeOK, past
<1>5. ASSUME NEW s \in Sessions, NEW b \in Inbounds, PostInboundBegin(s, b) \/ RemoveInboundBegin(s, b)
      PROVE  TypeInv'
  <2>1. PICK op \in InboundOps : Start(s, op, b, 0) /\ UNCHANGED <<tables, desk, past>>
    BY <1>5 DEF PostInboundBegin, RemoveInboundBegin, InboundOps
  <2>3. job' \in [Sessions -> Jobs] /\ JobShape'
    BY <2>1, StartTyped
  <2> QED BY <2>1, <2>3 DEF TypeInv, TypeOK, tables, past
<1>6. ASSUME NEW s \in Sessions, PostInboundCommit(s) PROVE TypeInv'
  <2> DEFINE b == job[s].doc
  <2>1. job' \in [Sessions -> Jobs] /\ JobShape'
    BY <1>6, DoneTyped DEF PostInboundCommit
  <2>2. b \in Inbounds /\ inb[b] \in InboundRows /\ fact[b] + inb[b].qty \in Int /\ b \in Booked
    BY <1>6, InboundJobTyped DEF PostInboundCommit, Working, InboundOps
  <2>3. inb[b].source \in {"none", "pending_finance", "received", "voided"}
    BY <2>2 DEF InboundRows
  <2> HIDE DEF b
  <2>4. inb' \in [Inbounds -> InboundRows]
    BY <1>1, <1>6, <2>2, <2>3 DEF PostInboundCommit, b, InboundRows
  <2>5. fact' \in [Booked -> Int]
    BY <1>6, <2>2, FactTyped DEF PostInboundCommit, b
  <2> QED BY <1>6, <2>1, <2>4, <2>5 DEF PostInboundCommit, TypeInv, TypeOK, past
<1>7. ASSUME NEW s \in Sessions, RemoveInboundCommit(s) PROVE TypeInv'
  <2> DEFINE b == job[s].doc
  <2>1. job' \in [Sessions -> Jobs] /\ JobShape'
    BY <1>7, DoneTyped DEF RemoveInboundCommit
  <2>2. b \in Inbounds /\ inb[b] \in InboundRows
    BY <1>7, InboundJobTyped DEF RemoveInboundCommit, Working, InboundOps
  <2>3. inb' \in [Inbounds -> InboundRows]
    <3> DEFINE row == IF inb[b].status = "draft" THEN [NoInbound EXCEPT !.status = "draft"] ELSE inb[b]
    <3>1. row \in InboundRows
      BY <2>2, NoInboundTyped
    <3>2. inb' = [inb EXCEPT ![b] = [row EXCEPT !.deleted = TRUE]]
      BY <1>7 DEF RemoveInboundCommit
    <3> HIDE DEF row
    <3>3. [row EXCEPT !.deleted = TRUE] \in InboundRows
      BY <3>1 DEF InboundRows
    <3> QED BY <1>1, <3>2, <3>3
  <2> QED BY <1>7, <2>1, <2>3 DEF RemoveInboundCommit, TypeInv, TypeOK, past
<1>8. ASSUME NEW i \in Batches, CreateNotice(i) PROVE TypeInv'
  BY <1>1, <1>8 DEF CreateNotice, TypeInv, TypeOK, JobShape, past
<1>9. ASSUME NEW i \in Batches, Acknowledge(i) PROVE TypeInv'
  <2>1. notice' \in [Batches -> {"none", "pending", "acknowledged"}]
    BY <1>1, <1>9 DEF Acknowledge
  <2>2. inb' \in [Inbounds -> InboundRows] /\ overdrawn' \subseteq Batches
    <3>1. ASSUME NEW b \in Inbounds, inb' = [inb EXCEPT ![b].linked = TRUE], UNCHANGED overdrawn 
                PROVE  inb' \in [Inbounds -> InboundRows] /\ overdrawn' \subseteq Batches
      <4>1. [inb[b] EXCEPT !.linked = TRUE] \in InboundRows
        <5>1. inb[b] \in InboundRows
          BY <1>1
        <5> QED BY <5>1 DEF InboundRows
      <4>2. inb' = [inb EXCEPT ![b] = [inb[b] EXCEPT !.linked = TRUE]]
        BY <3>1
      <4> QED BY <1>1, <3>1, <4>1, <4>2 DEF TypeInv, TypeOK
    <3>2. ASSUME NEW b \in Inbounds, NewDraft(i, b) 
                PROVE  inb' \in [Inbounds -> InboundRows] /\ overdrawn' \subseteq Batches
      BY <1>1, <3>2, DraftTyped DEF NewDraft, TypeInv, TypeOK
    <3>3. ASSUME UNCHANGED <<inb, overdrawn>> 
                PROVE  inb' \in [Inbounds -> InboundRows] /\ overdrawn' \subseteq Batches
      BY <1>1, <3>3 DEF TypeInv, TypeOK
    <3> QED BY <1>9, <3>1, <3>2, <3>3 DEF Acknowledge, InboundsOf
  <2> QED BY <1>9, <2>1, <2>2 DEF Acknowledge, TypeInv, TypeOK, JobShape
<1>10. ASSUME NEW b \in Inbounds, NEW q \in Qty, UpdateInbound(b, q) PROVE TypeInv'
  <2>1. inb' \in [Inbounds -> InboundRows]
    BY <1>1, <1>10 DEF UpdateInbound, Qty, InboundRows
  <2> QED BY <1>10, <2>1 DEF UpdateInbound, TypeInv, TypeOK, JobShape, past
<1> QED BY <1>3, <1>4, <1>5, <1>6, <1>7, <1>8, <1>9, <1>10 DEF InboundStep

LEMMA ReversalTyped == ASSUME TypeInv, ReversalStep, UNCHANGED count PROVE TypeInv'
<1>1. inb \in [Inbounds -> InboundRows]
  BY DEF TypeInv, TypeOK
<1>2. ASSUME NEW s \in Sessions, NEW b \in Inbounds, ReverseInboundBegin(s, b) PROVE TypeInv'
  <2>1. PICK x \in {0, 1} : Start(s, "reverseInbound", b, x) /\ UNCHANGED <<tables, desk, past>>
    BY <1>2 DEF ReverseInboundBegin
  <2>3. job' \in [Sessions -> Jobs] /\ JobShape'
    BY <2>1, StartTyped DEF InboundOps
  <2> QED BY <2>1, <2>3 DEF TypeInv, TypeOK, tables, past
<1>3. ASSUME NEW s \in Sessions, ReverseInboundCommit(s) PROVE TypeInv'
  <2> DEFINE b == job[s].doc
  <2>1. job' \in [Sessions -> Jobs] /\ JobShape'
    BY <1>3, DoneTyped DEF ReverseInboundCommit
  <2>2. b \in Inbounds /\ inb[b] \in InboundRows /\ fact[b] - inb[b].qty \in Int /\ b \in Booked
    BY <1>3, InboundJobTyped DEF ReverseInboundCommit, Working, InboundOps
  <2>3. inb[b].entry \in {"none", "draft", "confirmed", "voided"}
    BY <2>2 DEF InboundRows
  <2> HIDE DEF b
  <2>4. inb' \in [Inbounds -> InboundRows]
    BY <1>1, <1>3, <2>2, <2>3 DEF ReverseInboundCommit, b, InboundRows
  <2>5. fact' \in [Booked -> Int]
    BY <1>3, <2>2, FactTyped DEF ReverseInboundCommit, b
  <2> QED BY <1>3, <2>1, <2>4, <2>5 DEF ReverseInboundCommit, TypeInv, TypeOK, past
<1> QED BY <1>2, <1>3 DEF ReversalStep

LEMMA PayableTyped == ASSUME TypeInv, PayableStep, UNCHANGED count PROVE TypeInv'
<1>1. inb \in [Inbounds -> InboundRows]
  BY DEF TypeInv, TypeOK
<1>2. ASSUME NEW b \in Inbounds, CreateFromSource(b) PROVE TypeInv'
  <2>1. inb[b].entry \in {"none", "draft", "confirmed", "voided"}
    BY <1>1 DEF InboundRows
  <2>2. inb' \in [Inbounds -> InboundRows]
    <3> DEFINE row == [inb[b] EXCEPT !.source = "received",
                                     !.entry = IF inb[b].entry = "none" THEN "draft" ELSE inb[b].entry]
    <3>1. row \in InboundRows
      BY <1>1, <2>1 DEF InboundRows
    <3>2. inb' = [inb EXCEPT ![b] = row]
      BY <1>2 DEF CreateFromSource
    <3> QED BY <1>1, <3>1, <3>2
  <2> QED BY <1>2, <2>2 DEF CreateFromSource, TypeInv, TypeOK, JobShape, past
<1>3. ASSUME NEW s \in Sessions, NEW b \in Inbounds, NEW op \in Confirmations, ConfirmBegin(s, b, op) PROVE TypeInv'
  <2>1. job' \in [Sessions -> Jobs] /\ JobShape'
    BY <1>3, StartTyped DEF ConfirmBegin, InboundOps
  <2> QED BY <1>3, <2>1 DEF ConfirmBegin, TypeInv, TypeOK, tables, past
<1>4. ASSUME NEW s \in Sessions, ConfirmCommit(s) PROVE TypeInv'
  <2>1. job' \in [Sessions -> Jobs] /\ JobShape'
    BY <1>4, DoneTyped DEF ConfirmCommit
  <2>2. inb' \in [Inbounds -> InboundRows]
    <3>1. \A row \in InboundRows : [row EXCEPT !.entry = "confirmed"] \in InboundRows
      BY DEF InboundRows
    <3>2. inb' = [inb EXCEPT ![job[s].doc] = [inb[job[s].doc] EXCEPT !.entry = "confirmed"]]
      BY <1>4 DEF ConfirmCommit
    <3> QED BY <1>1, <3>1, <3>2
  <2> QED BY <1>4, <2>1, <2>2 DEF ConfirmCommit, TypeInv, TypeOK, past
<1> QED BY <1>2, <1>3, <1>4 DEF PayableStep

-----------------------------------------------------------------------------
\* A request on a movement finds a row and a number in its facts.
LEMMA MovementTyped ==
    ASSUME TypeInv, NEW m \in Movements
    PROVE  mov[m] \in MovementRows /\ mov[m].qty \in Nat /\ fact[m] \in Int /\ m \in Booked
<1>1. mov[m] \in MovementRows /\ m \in Booked
  BY DEF TypeInv, TypeOK, Booked
<1>2. mov[m].qty \in Nat
  BY <1>1 DEF MovementRows
<1> QED BY <1>1, <1>2 DEF TypeInv, TypeOK

LEMMA MovementJob ==
    ASSUME TypeInv, NEW s \in Sessions, job[s].op \in MovementOps
    PROVE  job[s].doc \in Movements /\ job[s].arg \in Int
BY DEF TypeInv, TypeOK, JobShape, Shaped, Jobs

LEMMA EffectTyped ==
    ASSUME TypeInv, NEW s \in Sessions, job[s].op \in MovementOps
    PROVE  Effect(job[s]) \in Int
BY MovementJob, MovementTyped DEF Effect

LEMMA OverwritesTyped ==
    ASSUME TypeInv, NEW m, NEW idle, Overwrites(m, idle)
    PROVE  job' \in [Sessions -> Jobs] /\ JobShape'
BY OverwriteDooms, DoomTyped

LEMMA CommitTyped ==
    ASSUME TypeInv, NEW s \in Sessions, CommitSerializable(s)
    PROVE  job' \in [Sessions -> Jobs] /\ JobShape'
BY CommitDooms, DoomTyped

LEMMA QtyRange == 0 \in 0..MaxQty /\ \A q \in Qty : q \in 0..MaxQty /\ q \in Nat
BY DEF Qty

LEMMA NoMovementTyped == NoMovement \in MovementRows /\ NoInbound \in InboundRows
BY NoInboundTyped DEF NoMovement, MovementRows

LEMMA OutboundTyped == ASSUME TypeInv, OutboundStep, UNCHANGED count PROVE TypeInv'
<1>1. mov \in [Movements -> MovementRows]
  BY DEF TypeInv, TypeOK
<1>2. ASSUME NEW m \in Movements, NEW q \in Qty, CreateIssue(m, q) PROVE TypeInv'
  <2>1. [NoMovement EXCEPT !.kind = "issue", !.status = "draft", !.qty = q] \in MovementRows
    BY QtyRange DEF NoMovement, MovementRows
  <2>2. mov' \in [Movements -> MovementRows]
    BY <1>1, <1>2, <2>1 DEF CreateIssue
  <2> QED BY <1>2, <2>2 DEF CreateIssue, TypeInv, TypeOK, JobShape, past
<1>3. ASSUME NEW m \in Movements, SubmitOutbound(m) PROVE TypeInv'
  <2>1. job' \in [Sessions -> Jobs] /\ JobShape'
    BY <1>3, OverwritesTyped DEF SubmitOutbound
  <2>2. mov' \in [Movements -> MovementRows]
    BY <1>1, <1>3 DEF SubmitOutbound, MovementRows
  <2> QED BY <1>3, <2>1, <2>2 DEF SubmitOutbound, TypeInv, TypeOK, past
<1>4. ASSUME NEW s \in Sessions, NEW m \in Movements, PostOutboundBegin(s, m) PROVE TypeInv'
  <2>1. job' \in [Sessions -> Jobs] /\ JobShape'
    BY <1>4, StartTyped DEF PostOutboundBegin, MovementOps, Serializable
  <2> QED BY <1>4, <2>1 DEF PostOutboundBegin, TypeInv, TypeOK, tables, past
<1>5. ASSUME NEW s \in Sessions, PostCommit(s) PROVE TypeInv'
  <2>1. job' \in [Sessions -> Jobs] /\ JobShape'
    BY <1>5, CommitTyped DEF PostCommit
  <2>2. job[s].op \in MovementOps
    BY <1>5 DEF PostCommit, MovementOps, Serializable
  <2>3. job[s].doc \in Movements /\ job[s].doc \in Booked /\ fact[job[s].doc] + Effect(job[s]) \in Int
    BY <2>2, MovementJob, MovementTyped, EffectTyped
  <2>4. mov' \in [Movements -> MovementRows]
    BY <1>1, <1>5, <2>3 DEF PostCommit, MovementRows
  <2>5. fact' \in [Booked -> Int]
    BY <1>5, <2>3, FactTyped DEF PostCommit
  <2> QED BY <1>5, <2>1, <2>4, <2>5 DEF PostCommit, TypeInv, TypeOK, past
<1> QED BY <1>2, <1>3, <1>4, <1>5 DEF OutboundStep

LEMMA CorrectingTyped == ASSUME TypeInv, CorrectingStep, UNCHANGED count PROVE TypeInv'
<1>1. mov \in [Movements -> MovementRows]
  BY DEF TypeInv, TypeOK
<1>2. ASSUME NEW m \in Movements, NEW q \in Qty, UpdateIssue(m, q) PROVE TypeInv'
  <2>1. job' \in [Sessions -> Jobs] /\ JobShape'
    BY <1>2, OverwritesTyped DEF UpdateIssue
  <2>2. ASSUME NEW d \in Movements
        PROVE  [mov[d] EXCEPT !.qty = q, !.of = NoDoc] \in MovementRows
               /\ [mov[d] EXCEPT !.of = NoDoc] \in MovementRows /\ mov[d] \in MovementRows
    <3>1. mov[d] \in MovementRows
      BY <1>1
    <3>2. q \in 0..MaxQty
      BY QtyRange
    <3> QED BY <3>1, <3>2 DEF MovementRows
  <2>3. mov' \in [Movements -> MovementRows]
    BY <1>2, <2>2 DEF UpdateIssue
  <2> QED BY <1>2, <2>1, <2>3 DEF UpdateIssue, TypeInv, TypeOK, past
<1>3. ASSUME NEW m \in Movements, NEW of \in Movements, NEW kind \in {"return", "scrap"}, NEW q \in Qty,
             CreateDerived(m, kind, of, q)
      PROVE  TypeInv'
  <2>1. [NoMovement EXCEPT !.kind = kind, !.status = "draft", !.qty = q, !.of = of,
                           !.cat = IF kind = "return" THEN "raw_material" ELSE "scrap"] \in MovementRows
    BY QtyRange DEF NoMovement, MovementRows
  <2>2. mov' \in [Movements -> MovementRows]
    BY <1>1, <1>3, <2>1 DEF CreateDerived
  <2> QED BY <1>3, <2>2 DEF CreateDerived, TypeInv, TypeOK, JobShape, past
<1>4. ASSUME NEW m \in Movements, RemoveIssue(m) PROVE TypeInv'
  <2>1. job' \in [Sessions -> Jobs] /\ JobShape'
    BY <1>4, OverwritesTyped DEF RemoveIssue
  <2>2. mov' \in [Movements -> MovementRows]
    <3>1. mov[m] \in MovementRows
      BY <1>1
    <3>2. [mov[m] EXCEPT !.deleted = TRUE, !.qty = 0, !.of = NoDoc] \in MovementRows
      BY <3>1, QtyRange DEF MovementRows
    <3>3. mov' = [mov EXCEPT ![m] = [mov[m] EXCEPT !.deleted = TRUE, !.qty = 0, !.of = NoDoc]]
      BY <1>4 DEF RemoveIssue
    <3> QED BY <1>1, <3>2, <3>3
  <2> QED BY <1>4, <2>1, <2>2 DEF RemoveIssue, TypeInv, TypeOK, past
<1>5. ASSUME NEW s \in Sessions, NEW m \in Movements,
             PostDerivedBegin(s, m) \/ WithdrawBegin(s, m) \/ ReopenBegin(s, m) \/ ReverseBegin(s, m)
      PROVE  TypeInv'
  <2>1. PICK op \in MovementOps, x \in {0, fact[m]} : Start(s, op, m, x) /\ UNCHANGED <<tables, desk, past>>
    BY <1>5 DEF PostDerivedBegin, WithdrawBegin, ReopenBegin, ReverseBegin, MovementOps, Serializable
  <2>2. x \in Int
    BY <2>1, MovementTyped
  <2>3. job' \in [Sessions -> Jobs] /\ JobShape'
    BY <2>1, <2>2, StartTyped
  <2> QED BY <2>1, <2>3 DEF TypeInv, TypeOK, tables, past
<1>6. ASSUME NEW s \in Sessions, NEW r \in Movements, ReverseCommit(s, r) PROVE TypeInv'
  <2> DEFINE m == job[s].doc
  <2>1. job' \in [Sessions -> Jobs] /\ JobShape'
    BY <1>6, CommitTyped DEF ReverseCommit
  <2>2. job[s].op \in MovementOps
    BY <1>6 DEF ReverseCommit, Working, MovementOps, Serializable
  <2>3. m \in Movements /\ mov[m] \in MovementRows /\ r \in Booked /\ Effect(job[s]) \in Int
    BY <2>2, MovementJob, MovementTyped, EffectTyped
  <2>4. mov' \in [Movements -> MovementRows]
    <3> DEFINE row == [kind |-> "reversal", status |-> "posted", deleted |-> FALSE,
                       qty |-> mov[m].qty, of |-> m, cat |-> mov[m].cat]
    <3>1. row \in MovementRows
      BY <2>3 DEF MovementRows
    <3>2. mov' = [mov EXCEPT ![m].status = "reversed", ![r] = row]
      BY <1>6 DEF ReverseCommit
    <3> HIDE DEF row, m
    <3>3. [mov[m] EXCEPT !.status = "reversed"] \in MovementRows
      BY <2>3 DEF MovementRows
    <3> QED BY <1>1, <2>3, <3>1, <3>2, <3>3
  <2>5. fact' \in [Booked -> Int]
    BY <1>6, <2>3, FactTyped DEF ReverseCommit
  <2> QED BY <1>6, <2>1, <2>4, <2>5 DEF ReverseCommit, TypeInv, TypeOK, past
<1>7. ASSUME NEW s \in Sessions, WithdrawCommit(s) PROVE TypeInv'
  <2>1. job' \in [Sessions -> Jobs] /\ JobShape'
    BY <1>7, OverwritesTyped DEF WithdrawCommit
  <2>2. job[s].doc \in Movements
    BY <1>7, MovementJob DEF WithdrawCommit, Working, MovementOps
  <2>3. mov' \in [Movements -> MovementRows] /\ overtaken' \subseteq Movements
    BY <1>1, <1>7, <2>2 DEF WithdrawCommit, MovementRows, TypeInv, TypeOK
  <2> QED BY <1>7, <2>1, <2>3 DEF WithdrawCommit, TypeInv, TypeOK
<1>8. ASSUME NEW s \in Sessions, ReopenCommit(s) PROVE TypeInv'
  <2>1. job' \in [Sessions -> Jobs] /\ JobShape'
    BY <1>8, CommitTyped DEF ReopenCommit
  <2>2. job[s].op \in MovementOps
    BY <1>8 DEF ReopenCommit, Working, MovementOps, Serializable
  <2>3. job[s].doc \in Movements /\ job[s].doc \in Booked /\ fact[job[s].doc] + Effect(job[s]) \in Int
    BY <2>2, MovementJob, MovementTyped, EffectTyped
  <2>4. mov' \in [Movements -> MovementRows]
    BY <1>1, <1>8, <2>3 DEF ReopenCommit, MovementRows
  <2>5. fact' \in [Booked -> Int]
    BY <1>8, <2>3, FactTyped DEF ReopenCommit
  <2> QED BY <1>8, <2>1, <2>4, <2>5 DEF ReopenCommit, TypeInv, TypeOK, past
<1> QED BY <1>2, <1>3, <1>4, <1>5, <1>6, <1>7, <1>8 DEF CorrectingStep

LEMMA CountTyped ==
    ASSUME TypeInv, NEW c \in Stocktakes
    PROVE  count[c] \in StocktakeRows /\ count[c].applied \in Int /\ count[c].actual \in Int
           /\ fact[c] \in Int /\ c \in Booked
<1>1. count[c] \in StocktakeRows /\ c \in Booked
  BY DEF TypeInv, TypeOK, Booked
<1>2. count[c].applied \in Int /\ count[c].actual \in Int
  BY <1>1 DEF StocktakeRows
<1> QED BY <1>1, <1>2 DEF TypeInv, TypeOK

LEMMA CountJob ==
    ASSUME TypeInv, NEW s \in Sessions, job[s].op \in CountOps
    PROVE  job[s].doc \in Stocktakes /\ job[s].arg \in Int
BY DEF TypeInv, TypeOK, JobShape, Shaped, Jobs

LEMMA StocktakeTyped == ASSUME TypeInv, StocktakeStep PROVE TypeInv'
<1> USE DEF otherTables, history, past
<1>1. count \in [Stocktakes -> StocktakeRows]
  BY DEF TypeInv, TypeOK
<1>2. ASSUME NEW c \in Stocktakes, NEW n \in 0..MaxQty, Upload(c, n) PROVE TypeInv'
  <2>1. [NoStocktake EXCEPT !.status = "draft", !.line = TRUE, !.actual = n] \in StocktakeRows
    <3>1. NoStocktake \in StocktakeRows
      BY DEF NoStocktake, StocktakeRows
    <3>2. [NoStocktake EXCEPT !.status = "draft"] \in StocktakeRows
      BY <3>1 DEF StocktakeRows
    <3>3. \A row \in StocktakeRows : [row EXCEPT !.line = TRUE] \in StocktakeRows
      BY DEF StocktakeRows
    <3>4. \A row \in StocktakeRows : [row EXCEPT !.actual = n] \in StocktakeRows
      BY DEF StocktakeRows
    <3> QED BY <3>2, <3>3, <3>4
  <2>2. count' \in [Stocktakes -> StocktakeRows]
    BY <1>1, <1>2, <2>1 DEF Upload
  <2> QED BY <1>2, <2>2 DEF Upload, TypeInv, TypeOK, JobShape
<1>3. ASSUME NEW s \in Sessions, NEW c \in Stocktakes, NEW op \in {"updateLine", "removeLine", "removeStocktake"},
             EditBegin(s, c, op)
      PROVE  TypeInv'
  <2>1. job' \in [Sessions -> Jobs] /\ JobShape'
    BY <1>3, StartTyped DEF EditBegin, CountOps
  <2> QED BY <1>3, <2>1 DEF EditBegin, TypeInv, TypeOK
<1>4. ASSUME NEW s \in Sessions, NEW row \in StocktakeRows, EditCommit(s, row), job[s].op \in CountOps
      PROVE  TypeInv'
  <2>1. job' \in [Sessions -> Jobs] /\ JobShape'
    BY <1>4, DoneTyped DEF EditCommit
  <2>2. count' \in [Stocktakes -> StocktakeRows]
    BY <1>1, <1>4, CountJob DEF EditCommit
  <2> QED BY <1>4, <2>1, <2>2 DEF EditCommit, TypeInv, TypeOK
<1>5. ASSUME NEW c \in Stocktakes, NEW n \in 0..MaxQty
      PROVE  /\ [count[c] EXCEPT !.actual = n] \in StocktakeRows
             /\ [count[c] EXCEPT !.line = FALSE] \in StocktakeRows
             /\ [count[c] EXCEPT !.deleted = TRUE] \in StocktakeRows
  <2>1. count[c] \in StocktakeRows
    BY <1>1
  <2> QED BY <2>1 DEF StocktakeRows
<1>6. ASSUME NEW s \in Sessions, NEW n \in 0..MaxQty, UpdateLineCommit(s, n) PROVE TypeInv'
  <2>1. job[s].op \in CountOps
    BY <1>6 DEF UpdateLineCommit, Working, CountOps
  <2> QED BY <1>4, <1>5, <1>6, <2>1, CountJob DEF UpdateLineCommit
<1>7. ASSUME NEW s \in Sessions, RemoveLineCommit(s) PROVE TypeInv'
  <2>1. job[s].op \in CountOps /\ 0 \in 0..MaxQty
    BY <1>7 DEF RemoveLineCommit, Working, CountOps
  <2> QED BY <1>4, <1>5, <1>7, <2>1, CountJob DEF RemoveLineCommit
<1>8. ASSUME NEW s \in Sessions, RemoveStocktakeCommit(s) PROVE TypeInv'
  <2>1. job[s].op \in CountOps /\ 0 \in 0..MaxQty
    BY <1>8 DEF RemoveStocktakeCommit, Working, CountOps
  <2> QED BY <1>4, <1>5, <1>8, <2>1, CountJob DEF RemoveStocktakeCommit
<1>9. ASSUME NEW s \in Sessions, NEW c \in Stocktakes, ConfirmCountBegin(s, c) PROVE TypeInv'
  <2>1. count[c].actual - Balance \in Int
    BY CountTyped, BalanceTyped
  <2>2. job' \in [Sessions -> Jobs] /\ JobShape'
    BY <1>9, <2>1, StartTyped DEF ConfirmCountBegin, CountOps
  <2> QED BY <1>9, <2>2 DEF ConfirmCountBegin, TypeInv, TypeOK
<1>10. ASSUME NEW s \in Sessions, ConfirmCountCommit(s) PROVE TypeInv'
  <2> DEFINE c == job[s].doc
  <2>1. job' \in [Sessions -> Jobs] /\ JobShape'
    BY <1>10, DoneTyped DEF ConfirmCountCommit
  <2>2. c \in Stocktakes /\ job[s].arg \in Int
    BY <1>10, CountJob DEF ConfirmCountCommit, Working, CountOps
  <2> HIDE DEF c
  <2>3. c \in Booked /\ count[c] \in StocktakeRows /\ fact[c] + job[s].arg \in Int
    BY <2>2, CountTyped
  <2>4. count' \in [Stocktakes -> StocktakeRows]
    BY <1>1, <1>10, <2>2, <2>3 DEF ConfirmCountCommit, StocktakeRows, c
  <2>5. fact' \in [Booked -> Int]
    BY <1>10, <2>3, FactTyped DEF ConfirmCountCommit, c
  <2> QED BY <1>10, <2>1, <2>4, <2>5 DEF ConfirmCountCommit, TypeInv, TypeOK
<1>11. ASSUME NEW c \in Stocktakes, ReverseCount(c) PROVE TypeInv'
  <2>1. c \in Booked /\ count[c] \in StocktakeRows /\ fact[c] - count[c].applied \in Int /\ fact[c] \in Int
    BY CountTyped
  <2>2. count' \in [Stocktakes -> StocktakeRows]
    BY <1>1, <1>11, <2>1 DEF ReverseCount, StocktakeRows
  <2>3. fact' \in [Booked -> Int]
    BY <1>11, <2>1, FactTyped DEF ReverseCount
  <2> QED BY <1>11, <2>2, <2>3 DEF ReverseCount, TypeInv, TypeOK, JobShape
<1> QED BY <1>2, <1>3, <1>6, <1>7, <1>8, <1>9, <1>10, <1>11 DEF StocktakeStep

LEMMA RollbackTyped ==
    ASSUME TypeInv, NEW s \in Sessions, Rollback(s), UNCHANGED count
    PROVE  TypeInv'
<1>1. job' \in [Sessions -> Jobs] /\ JobShape'
  BY DoneTyped DEF Rollback
<1> QED BY <1>1 DEF Rollback, TypeInv, TypeOK, tables, past

LEMMA NextTyped == ASSUME TypeInv, [Next]_allVars PROVE TypeInv'
<1>1. CASE UNCHANGED allVars
  BY <1>1 DEF allVars, vars, tables, past, TypeInv, TypeOK, JobShape
<1>2. CASE Next
  BY <1>2, InspectionTyped, InboundStepTyped, PayableTyped, OutboundTyped, CorrectingTyped, ReversalTyped,
     RollbackTyped, StocktakeTyped DEF Next
<1> QED BY <1>1, <1>2

LEMMA InitTyped == Init => TypeInv
<1>1. SUFFICES ASSUME Init PROVE TypeInv
  OBVIOUS
<1> USE <1>1
<1>2. mov \in [Movements -> MovementRows] /\ count \in [Stocktakes -> StocktakeRows]
  BY NoMovementTyped DEF Init, NoStocktake, StocktakeRows
<1>3. job \in [Sessions -> Jobs] /\ JobShape
  BY IdleTyped DEF Init, JobShape
<1>4. \A a \in {0, MaxQty} : Delivered(a) =>
        /\ batch \in [Batches -> BatchRows] /\ peak \in [Batches -> 0..MaxQty]
        /\ notice \in [Batches -> {"none", "pending", "acknowledged"}]
  BY DEF Delivered, Inspected, BatchRows
<1>5. /\ batch \in [Batches -> BatchRows] /\ peak \in [Batches -> 0..MaxQty]
      /\ notice \in [Batches -> {"none", "pending", "acknowledged"}]
  BY <1>4 DEF Init
<1>6. NothingIn => inb \in [Inbounds -> InboundRows] /\ fact \in [Booked -> Int]
  BY NoInboundTyped DEF NothingIn
<1>7. InStock => inb \in [Inbounds -> InboundRows] /\ fact \in [Booked -> Int]
  <2>1. \A i \in Batches : OpeningInbound(i) \in InboundRows
    BY DEF OpeningInbound, InboundRows
  <2> QED BY <2>1, NoInboundTyped DEF InStock
<1> QED BY <1>2, <1>3, <1>5, <1>6, <1>7 DEF Init, TypeInv, TypeOK

(* Every variable of the raw-material side keeps its type, and requests    *)
(* name documents of the kind their operation is about.                    *)
THEOREM MaterialsTypeInv == Spec => []TypeInv
<1>1. TypeInv /\ [Next]_<<vars, count>> => TypeInv'
  BY NextTyped DEF allVars
<1> QED BY InitTyped, <1>1, PTL DEF Spec

(* Whatever the desks do, every row keeps its shape: no accepted quantity  *)
(* leaves its bounds, no document gets a status it does not have.          *)
THEOREM MaterialsTypeOK == Spec => []TypeOK
<1>1. TypeInv => TypeOK
  BY DEF TypeInv
<1> QED BY <1>1, MaterialsTypeInv, PTL

-----------------------------------------------------------------------------
(* Who leaves what alone.  A step adds no request of these operations and  *)
(* changes none, unless it dooms it.                                       *)
Keeps(Ops) ==
    \A t \in Sessions : job'[t].op \in Ops =>
        /\ job'[t].op = job[t].op /\ job'[t].doc = job[t].doc
        /\ job'[t].arg = job[t].arg /\ job'[t].row = job[t].row
        /\ ~job'[t].doomed => ~job[t].doomed

AllOps == BatchOps \cup InboundOps \cup MovementOps \cup CountOps

LEMMA OpsApart ==
    /\ BatchOps \cap (InboundOps \cup MovementOps \cup CountOps) = {}
    /\ InboundOps \cap (MovementOps \cup CountOps) = {}
    /\ MovementOps \cap CountOps = {}
    /\ "idle" \notin AllOps
BY DEF BatchOps, InboundOps, MovementOps, CountOps, Serializable, AllOps, Confirmations

LEMMA SameKeeps == ASSUME UNCHANGED job, NEW Ops PROVE Keeps(Ops)
BY DEF Keeps

LEMMA StartKeeps ==
    ASSUME TypeInv, NEW s \in Sessions, NEW op, NEW doc, NEW arg, Start(s, op, doc, arg)
    PROVE  /\ \A Ops : op \notin Ops => Keeps(Ops)
           /\ \A t \in Sessions : t # s => job'[t] = job[t]
           /\ job[s] = Idle /\ job'[s].op = op /\ job'[s].doc = doc /\ job'[s].arg = arg /\ ~job'[s].doomed
<1>1. /\ \A t \in Sessions : t # s => job'[t] = job[t]
      /\ job'[s] = [Idle EXCEPT !.op = op, !.doc = doc, !.arg = arg]
  BY DEF Start, TypeInv, TypeOK
<1>2. job'[s].op = op /\ job'[s].doc = doc /\ job'[s].arg = arg /\ job'[s].doomed = FALSE
  BY <1>1 DEF Idle
<1> QED BY <1>1, <1>2 DEF Keeps, Start

LEMMA StartWriteKeeps ==
    ASSUME TypeInv, NEW s \in Sessions, NEW op, NEW i, NEW row, StartWrite(s, op, i, row)
    PROVE  /\ \A Ops : op \notin Ops => Keeps(Ops)
           /\ \A t \in Sessions : t # s => job'[t] = job[t]
           /\ job[s] = Idle /\ job'[s].op = op /\ job'[s].doc = i /\ job'[s].row = row
<1>1. /\ \A t \in Sessions : t # s => job'[t] = job[t]
      /\ job'[s] = [Idle EXCEPT !.op = op, !.doc = i, !.row = row]
  BY DEF StartWrite, TypeInv, TypeOK
<1>2. job'[s].op = op /\ job'[s].doc = i /\ job'[s].row = row
  BY <1>1 DEF Idle
<1> QED BY <1>1, <1>2 DEF Keeps, StartWrite

LEMMA DoneKeeps ==
    ASSUME TypeInv, NEW s \in Sessions, Done(s)
    PROVE  /\ Keeps(AllOps)
           /\ \A t \in Sessions : job'[t] = IF t = s THEN Idle ELSE job[t]
<1>1. \A t \in Sessions : job'[t] = IF t = s THEN Idle ELSE job[t]
  BY DEF Done, TypeInv, TypeOK
<1> QED BY <1>1, IdleTyped, OpsApart DEF Keeps

LEMMA DoomKeeps ==
    ASSUME TypeInv, NEW idle, NEW doomed, DoomsOnly(idle, doomed)
    PROVE  /\ Keeps(AllOps)
           /\ \A t \in Sessions : t \in idle => job'[t] = Idle
           /\ \A t \in Sessions : job'[t].op # "idle" /\ ~job'[t].doomed => t \notin idle /\ t \notin doomed
<1>1. ASSUME NEW t \in Sessions
      PROVE  /\ t \in idle => job'[t] = Idle
             /\ t \notin idle =>
                  /\ job'[t].op = job[t].op /\ job'[t].doc = job[t].doc
                  /\ job'[t].arg = job[t].arg /\ job'[t].row = job[t].row
                  /\ ~job'[t].doomed => ~job[t].doomed /\ t \notin doomed
  <2> DEFINE d == job[t].doomed \/ t \in doomed
             j == [job[t] EXCEPT !.doomed = d]
  <2>1. job[t] \in Jobs
    BY DEF TypeInv, TypeOK
  <2>2. job'[t] = IF t \in idle THEN Idle ELSE j
    BY Zenon DEF DoomsOnly
  <2>3. d \in BOOLEAN /\ (~d => ~job[t].doomed /\ t \notin doomed)
    BY Zenon
  <2> HIDE DEF d
  <2>4. j.op = job[t].op /\ j.doc = job[t].doc /\ j.arg = job[t].arg /\ j.row = job[t].row /\ j.doomed = d
    BY <2>1, <2>3 DEF Jobs
  <2> HIDE DEF j
  <2>5. t \in idle => job'[t] = Idle
    BY <2>2
  <2>6. ASSUME t \notin idle PROVE job'[t] = j
    BY <2>2, <2>6
  <2> QED BY <2>3, <2>4, <2>5, <2>6, Zenon
<1>2. \A t \in Sessions : job'[t].op # "idle" /\ ~job'[t].doomed => t \notin idle /\ t \notin doomed
  BY <1>1, IdleTyped, Zenon
<1>3. Keeps(AllOps)
  BY <1>1, IdleTyped, OpsApart DEF Keeps
<1> QED BY <1>1, <1>2, <1>3, Zenon

LEMMA KeepsFewer == ASSUME NEW A, NEW B \in SUBSET A, Keeps(A) PROVE Keeps(B)
BY DEF Keeps

Untouched(D) == \A d \in D : fact'[d] = fact[d]

LEMMA SameFacts == ASSUME UNCHANGED fact, NEW D PROVE Untouched(D)
BY DEF Untouched

LEMMA FactChange ==
    ASSUME TypeInv, NEW d \in Booked, NEW x \in Int, fact' = [fact EXCEPT ![d] = x]
    PROVE  /\ fact'[d] = x
           /\ \A e \in Booked \ {d} : fact'[e] = fact[e]
BY DEF TypeInv, TypeOK

\* Inspections keep everything but the inspection.
LEMMA InspectionFrame ==
    ASSUME TypeInv, InspectionStep
    PROVE  Keeps(InboundOps \cup MovementOps \cup CountOps) /\ UNCHANGED <<notice, inb, mov, fact, overtaken, overdrawn>>
<1> DEFINE Others == InboundOps \cup MovementOps \cup CountOps
<1>1. Others \subseteq AllOps /\ Others \cap BatchOps = {}
  BY OpsApart DEF AllOps
<1>2. ASSUME NEW s \in Sessions, NEW i \in Batches, NEW op \in BatchOps, NEW row, StartWrite(s, op, i, row)
      PROVE  Keeps(Others)
  BY <1>1, <1>2, StartWriteKeeps
<1>3. ASSUME NEW s \in Sessions, WriteBatch(s)
      PROVE  Keeps(Others) /\ UNCHANGED <<notice, inb, mov, fact, overtaken, overdrawn>>
  BY <1>1, <1>3, DoneKeeps, KeepsFewer DEF WriteBatch
<1>4. {"inspect", "correct", "transition", "return"} \subseteq BatchOps
  BY DEF BatchOps
<1> HIDE DEF Others
<1>5. ASSUME NEW s \in Sessions, NEW i \in Batches, NEW a \in 0..MaxQty, NEW r \in 0..MaxRejected,
             InspectBegin(s, i, a, r) \/ CorrectBegin(s, i, a, r)
      PROVE  Keeps(Others) /\ UNCHANGED <<notice, inb, mov, fact, overtaken, overdrawn>>
  BY <1>2, <1>4, <1>5 DEF InspectBegin, CorrectBegin, tables, past
<1>6. ASSUME NEW s \in Sessions, NEW i \in Batches, NEW target \in {"pending", "inspecting", "completed", "cancelled"},
             TransitionBegin(s, i, target) \/ ReturnToSupplierBegin(s, i)
      PROVE  Keeps(Others) /\ UNCHANGED <<notice, inb, mov, fact, overtaken, overdrawn>>
  BY <1>2, <1>4, <1>6 DEF TransitionBegin, ReturnToSupplierBegin, tables, past
<1>7. \A s \in Sessions, i \in Batches : ReturnToSupplierBegin(s, i)
        => Keeps(Others) /\ UNCHANGED <<notice, inb, mov, fact, overtaken, overdrawn>>
  BY <1>6
<1>8. Keeps(Others) /\ UNCHANGED <<notice, inb, mov, fact, overtaken, overdrawn>>
  BY <1>3, <1>5, <1>6, <1>7 DEF InspectionStep, InspectCommit, LockedWriteCommit
<1> QED BY <1>8 DEF Others

\* Goods in and finance keep movements and stocktakes.
LEMMA ReceivingFrame ==
    ASSUME TypeInv, InspectionStep \/ InboundStep \/ PayableStep \/ ReversalStep
    PROVE  /\ Keeps(MovementOps \cup CountOps)
           /\ UNCHANGED <<mov, overtaken>>
           /\ Untouched(Movements \cup Stocktakes)
<1> DEFINE Others == MovementOps \cup CountOps
           Docs == Movements \cup Stocktakes
           Kept == Keeps(Others) /\ UNCHANGED <<mov, overtaken>> /\ Untouched(Docs)
<1> SUFFICES Kept
  OBVIOUS
<1>1. Others \subseteq AllOps /\ Others \cap (BatchOps \cup InboundOps) = {}
  BY OpsApart DEF AllOps
<1>2. Docs \subseteq Booked /\ Inbounds \subseteq Booked /\ Docs \cap Inbounds = {}
  BY DEF Booked
<1>3. CASE InspectionStep
  <2>1. Keeps(Others)
    BY <1>3, InspectionFrame, KeepsFewer
  <2> QED BY <1>3, <2>1, InspectionFrame, SameFacts
<1> HIDE DEF Others, Docs
<1>4. ASSUME NEW s \in Sessions, NEW op \in InboundOps \cup {"register"},
             NEW doc, NEW arg, Start(s, op, doc, arg), UNCHANGED <<tables, desk, past>>
      PROVE  Kept
  <2>1. op \notin Others
    BY <1>1 DEF BatchOps, InboundOps
  <2> QED BY <1>4, <2>1, StartKeeps, SameFacts DEF tables, past
<1>5. ASSUME NEW s \in Sessions, Done(s) PROVE Keeps(Others)
  BY <1>1, <1>5, DoneKeeps, KeepsFewer
<1>6. ASSUME NEW s \in Sessions, job[s].op \in InboundOps, NEW x \in Int, fact' = [fact EXCEPT ![job[s].doc] = x]
      PROVE  Untouched(Docs)
  BY <1>2, <1>6, InboundJobTyped, FactChange DEF Untouched
<1>7. CASE InboundStep
  <2>1. ASSUME NEW s \in Sessions, NEW i \in Batches, NEW q \in Qty, RegisterBegin(s, i, q) PROVE Kept
    BY <1>4, <2>1 DEF RegisterBegin
  <2>2. ASSUME NEW s \in Sessions, NEW b \in Inbounds, RegisterCommit(s, b) PROVE Kept
    BY <1>5, <2>2, SameFacts DEF RegisterCommit, past
  <2>3. ASSUME NEW s \in Sessions, NEW b \in Inbounds, PostInboundBegin(s, b) \/ RemoveInboundBegin(s, b) PROVE Kept
    BY <1>4, <2>3 DEF PostInboundBegin, RemoveInboundBegin, InboundOps
  <2>4. ASSUME NEW s \in Sessions, PostInboundCommit(s) PROVE Kept
    <3>1. job[s].op \in InboundOps /\ fact[job[s].doc] + inb[job[s].doc].qty \in Int
      BY <2>4, InboundJobTyped DEF PostInboundCommit, Working, InboundOps
    <3> QED BY <1>5, <1>6, <2>4, <3>1 DEF PostInboundCommit, past
  <2>5. ASSUME NEW s \in Sessions, RemoveInboundCommit(s) PROVE Kept
    BY <1>5, <2>5, SameFacts DEF RemoveInboundCommit, past
  <2>6. ASSUME NEW i \in Batches, CreateNotice(i) \/ Acknowledge(i) PROVE Kept
    BY <2>6, SameKeeps, SameFacts DEF CreateNotice, Acknowledge, past
  <2>7. ASSUME NEW b \in Inbounds, NEW q \in Qty, UpdateInbound(b, q) PROVE Kept
    BY <2>7, SameKeeps, SameFacts DEF UpdateInbound, past
  <2> HIDE DEF Kept
  <2> QED BY <1>7, <2>1, <2>2, <2>3, <2>4, <2>5, <2>6, <2>7 DEF InboundStep
<1>8. CASE PayableStep
  <2>1. ASSUME NEW b \in Inbounds, CreateFromSource(b) PROVE Kept
    BY <2>1, SameKeeps, SameFacts DEF CreateFromSource, past
  <2>2. ASSUME NEW s \in Sessions, NEW b \in Inbounds, NEW op \in Confirmations, ConfirmBegin(s, b, op) PROVE Kept
    BY <1>4, <2>2 DEF ConfirmBegin, InboundOps
  <2>3. ASSUME NEW s \in Sessions, ConfirmCommit(s) PROVE Kept
    BY <1>5, <2>3, SameFacts DEF ConfirmCommit, past
  <2> HIDE DEF Kept
  <2> QED BY <1>8, <2>1, <2>2, <2>3 DEF PayableStep
<1>9. CASE ReversalStep
  <2>1. ASSUME NEW s \in Sessions, NEW b \in Inbounds, ReverseInboundBegin(s, b) PROVE Kept
    BY <1>4, <2>1 DEF ReverseInboundBegin, InboundOps
  <2>2. ASSUME NEW s \in Sessions, ReverseInboundCommit(s) PROVE Kept
    <3>1. job[s].op \in InboundOps /\ fact[job[s].doc] - inb[job[s].doc].qty \in Int
      BY <2>2, InboundJobTyped DEF ReverseInboundCommit, Working, InboundOps
    <3> QED BY <1>5, <1>6, <2>2, <3>1 DEF ReverseInboundCommit, past
  <2> HIDE DEF Kept
  <2> QED BY <1>9, <2>1, <2>2 DEF ReversalStep
<1> HIDE DEF Kept
<1> QED BY <1>3, <1>7, <1>8, <1>9

\* The stores keep everything about inbounds and stocktakes.
LEMMA IssuingFrame ==
    ASSUME TypeInv, OutboundStep \/ CorrectingStep
    PROVE  /\ Keeps(BatchOps \cup InboundOps \cup CountOps)
           /\ UNCHANGED <<batch, notice, inb, peak, overdrawn>>
           /\ Untouched(Inbounds \cup Stocktakes)
<1> DEFINE Others == BatchOps \cup InboundOps \cup CountOps
           Docs == Inbounds \cup Stocktakes
           Same == UNCHANGED <<batch, notice, inb, peak, overdrawn>>
           Kept == Keeps(Others) /\ Same /\ Untouched(Docs)
<1> SUFFICES Kept
  OBVIOUS
<1>1. Others \subseteq AllOps /\ Others \cap MovementOps = {}
  BY OpsApart DEF AllOps
<1>2. Docs \subseteq Booked /\ Movements \subseteq Booked /\ Docs \cap Movements = {}
  BY DEF Booked
<1> HIDE DEF Others, Docs
<1>3. ASSUME NEW s \in Sessions, NEW op \in MovementOps, NEW doc, NEW arg, Start(s, op, doc, arg),
             UNCHANGED <<tables, desk, past>>
      PROVE  Kept
  BY <1>1, <1>3, StartKeeps, SameFacts DEF tables, past
<1>4. ASSUME NEW m, NEW idle, Overwrites(m, idle) PROVE Keeps(Others)
  BY <1>1, <1>4, OverwriteDooms, DoomKeeps, KeepsFewer
<1>5. ASSUME NEW s \in Sessions, CommitSerializable(s) PROVE Keeps(Others)
  BY <1>1, <1>5, CommitDooms, DoomKeeps, KeepsFewer
<1>6. ASSUME NEW m \in Movements, NEW x \in Int, fact' = [fact EXCEPT ![m] = x] PROVE Untouched(Docs)
  BY <1>2, <1>6, FactChange DEF Untouched
<1>7. ASSUME NEW m \in Movements, NEW q \in Qty, CreateIssue(m, q) \/ UpdateIssue(m, q) PROVE Kept
  BY <1>4, <1>7, SameKeeps, SameFacts DEF CreateIssue, UpdateIssue, past
<1>8. ASSUME NEW m \in Movements, SubmitOutbound(m) \/ RemoveIssue(m) PROVE Kept
  BY <1>4, <1>8, SameFacts DEF SubmitOutbound, RemoveIssue, past
<1>9. ASSUME NEW s \in Sessions, NEW m \in Movements,
             \/ PostOutboundBegin(s, m) \/ PostDerivedBegin(s, m) \/ WithdrawBegin(s, m)
             \/ ReopenBegin(s, m) \/ ReverseBegin(s, m)
      PROVE  Kept
  BY <1>3, <1>9 DEF PostOutboundBegin, PostDerivedBegin, WithdrawBegin, ReopenBegin, ReverseBegin,
                    MovementOps, Serializable
<1>10. ASSUME NEW s \in Sessions, PostCommit(s) \/ ReopenCommit(s) PROVE Kept
  <2>1. job[s].op \in MovementOps
    BY <1>10 DEF PostCommit, ReopenCommit, Working, MovementOps, Serializable
  <2>2. job[s].doc \in Movements /\ fact[job[s].doc] + Effect(job[s]) \in Int
    BY <2>1, MovementJob, MovementTyped, EffectTyped
  <2> QED BY <1>5, <1>6, <1>10, <2>2 DEF PostCommit, ReopenCommit, past
<1>11. ASSUME NEW s \in Sessions, NEW r \in Movements, ReverseCommit(s, r) PROVE Kept
  <2>1. job[s].op \in MovementOps
    BY <1>11 DEF ReverseCommit, Working, MovementOps, Serializable
  <2>2. Effect(job[s]) \in Int
    BY <2>1, EffectTyped
  <2> QED BY <1>5, <1>6, <1>11, <2>2 DEF ReverseCommit, past
<1>12. ASSUME NEW s \in Sessions, WithdrawCommit(s) PROVE Kept
  BY <1>4, <1>12, SameFacts DEF WithdrawCommit
<1>13. ASSUME NEW m \in Movements, NEW of \in Movements, NEW kind \in {"return", "scrap"}, NEW q \in Qty,
              CreateDerived(m, kind, of, q)
       PROVE  Kept
  BY <1>13, SameKeeps, SameFacts DEF CreateDerived, past
<1> HIDE DEF Kept
<1>14. CASE OutboundStep
  BY <1>14, <1>7, <1>8, <1>9, <1>10 DEF OutboundStep
<1>15. CASE CorrectingStep
  BY <1>15, <1>7, <1>8, <1>9, <1>10, <1>11, <1>12, <1>13 DEF CorrectingStep
<1> QED BY <1>14, <1>15

\* Stocktakes keep everything about inbounds and movements.
LEMMA StocktakeFrame ==
    ASSUME TypeInv, StocktakeStep
    PROVE  /\ Keeps(BatchOps \cup InboundOps \cup MovementOps)
           /\ UNCHANGED <<batch, notice, inb, mov, peak, overtaken, overdrawn>>
           /\ Untouched(Inbounds \cup Movements)
<1> DEFINE Others == BatchOps \cup InboundOps \cup MovementOps
           Docs == Inbounds \cup Movements
           Same == UNCHANGED <<batch, notice, inb, mov, peak, overtaken, overdrawn>>
           Kept == Keeps(Others) /\ Same /\ Untouched(Docs)
<1> USE DEF otherTables, history, past
<1> SUFFICES Kept
  OBVIOUS
<1>1. Others \subseteq AllOps /\ Others \cap CountOps = {}
  BY OpsApart DEF AllOps
<1>2. Docs \subseteq Booked /\ Stocktakes \subseteq Booked /\ Docs \cap Stocktakes = {}
  BY DEF Booked
<1> HIDE DEF Others, Docs
<1>3. ASSUME NEW s \in Sessions, NEW op \in CountOps, NEW doc, NEW arg, Start(s, op, doc, arg),
             UNCHANGED <<otherTables, fact, count, history>>
      PROVE  Kept
  BY <1>1, <1>3, StartKeeps, SameFacts
<1>4. ASSUME NEW s \in Sessions, Done(s) PROVE Keeps(Others)
  BY <1>1, <1>4, DoneKeeps, KeepsFewer
<1>5. ASSUME NEW c \in Stocktakes, NEW x \in Int, fact' = [fact EXCEPT ![c] = x] PROVE Untouched(Docs)
  BY <1>2, <1>5, FactChange DEF Untouched
<1>6. ASSUME NEW c \in Stocktakes, NEW n \in 0..MaxQty, Upload(c, n) PROVE Kept
  BY <1>6, SameKeeps, SameFacts DEF Upload
<1>7. ASSUME NEW s \in Sessions, NEW c \in Stocktakes, NEW op \in {"updateLine", "removeLine", "removeStocktake"},
             EditBegin(s, c, op)
      PROVE  Kept
  BY <1>3, <1>7 DEF EditBegin, CountOps
<1>8. ASSUME NEW s \in Sessions, NEW row, EditCommit(s, row) PROVE Kept
  BY <1>4, <1>8, SameFacts DEF EditCommit
<1>9. ASSUME NEW s \in Sessions, NEW n \in 0..MaxQty, UpdateLineCommit(s, n) PROVE Kept
  BY <1>8, <1>9 DEF UpdateLineCommit
<1>10. ASSUME NEW s \in Sessions, RemoveLineCommit(s) \/ RemoveStocktakeCommit(s) PROVE Kept
  BY <1>8, <1>10 DEF RemoveLineCommit, RemoveStocktakeCommit
<1>11. ASSUME NEW s \in Sessions, NEW c \in Stocktakes, ConfirmCountBegin(s, c) PROVE Kept
  BY <1>3, <1>11 DEF ConfirmCountBegin, CountOps
<1>12. ASSUME NEW s \in Sessions, ConfirmCountCommit(s) PROVE Kept
  <2>1. job[s].op \in CountOps
    BY <1>12 DEF ConfirmCountCommit, Working, CountOps
  <2>2. job[s].doc \in Stocktakes /\ fact[job[s].doc] + job[s].arg \in Int
    BY <2>1, CountJob, CountTyped
  <2> QED BY <1>4, <1>5, <1>12, <2>2 DEF ConfirmCountCommit
<1>13. ASSUME NEW c \in Stocktakes, ReverseCount(c) PROVE Kept
  <2>1. fact[c] - count[c].applied \in Int /\ fact[c] \in Int
    BY CountTyped
  <2> QED BY <1>5, <1>13, <2>1, SameKeeps DEF ReverseCount
<1> HIDE DEF Kept
<1> QED BY <1>6, <1>7, <1>9, <1>10, <1>11, <1>12, <1>13 DEF StocktakeStep

\* A failing request keeps everything.
LEMMA RollbackFrame ==
    ASSUME TypeInv, (\E s \in Sessions : Rollback(s)) \/ UNCHANGED vars
    PROVE  Keeps(AllOps) /\ UNCHANGED <<tables, past>>
<1>1. CASE UNCHANGED vars
  BY <1>1, SameKeeps DEF vars
<1>2. CASE \E s \in Sessions : Rollback(s)
  BY <1>2, DoneKeeps DEF Rollback
<1> QED BY <1>1, <1>2

\* A step of Materials by the part of the state it is about.
LEMMA Steps ==
    ASSUME TypeInv, [Next]_allVars
    PROVE  \/ (InspectionStep \/ InboundStep \/ PayableStep \/ ReversalStep) /\ UNCHANGED count
           \/ (OutboundStep \/ CorrectingStep) /\ UNCHANGED count
           \/ StocktakeStep
           \/ Keeps(AllOps) /\ UNCHANGED <<tables, past, count>>
<1>1. CASE Next
  BY <1>1, RollbackFrame DEF Next
<1>2. CASE UNCHANGED allVars
  BY <1>2, RollbackFrame DEF allVars
<1> QED BY <1>1, <1>2

-----------------------------------------------------------------------------
(* Inbounds: their facts follow their status, and a request that holds the *)
(* lock of a row writes what it has seen.                                  *)
LEMMA InboundKept ==
    ASSUME TypeInv, InboundInv, Keeps(InboundOps), UNCHANGED inb, Untouched(Inbounds)
    PROVE  InboundInv'
<1>1. \A t \in Sessions : job'[t].op \in InboundOps => job'[t].op = job[t].op /\ job'[t].doc = job[t].doc
  BY DEF Keeps
<1>2. InboundsHeld'
  BY <1>1 DEF InboundInv, InboundsHeld, Holding, InboundOps
<1>3. InboundRowsFit'
  BY DEF InboundInv, InboundRowsFit
<1>4. InboundLedger'
  BY DEF InboundInv, InboundLedger, Untouched
<1> QED BY <1>2, <1>3, <1>4 DEF InboundInv

Rewritten(b, row) == inb' = [inb EXCEPT ![b] = row]

\* One row changes, and with it no more than the request that holds it.
LEMMA InboundChange ==
    ASSUME TypeInv, InboundInv, Keeps(InboundOps), NEW b \in Inbounds, NEW row, Rewritten(b, row),
           Untouched(Inbounds \ {b}), fact'[b] = IF row.status = "posted" THEN row.qty ELSE 0,
           row.status # "none", ~row.deleted => row.batch \in Batches,
           row.status = "reversed" => row.source = "voided",
           \A t \in Sessions : job'[t].doc = b =>
             /\ job'[t].op = "postInbound" => row.status = "draft" /\ ~row.deleted
             /\ job'[t].op = "reverseInbound" => row.status = "posted"
    PROVE  InboundInv'
<1>1. \A t \in Sessions : job'[t].op \in InboundOps => job'[t].op = job[t].op /\ job'[t].doc = job[t].doc
  BY DEF Keeps
<1>2. \A x \in Inbounds : inb'[x] = IF x = b THEN row ELSE inb[x]
  BY DEF TypeInv, TypeOK, Rewritten
<1>3. \A t \in Sessions : job[t].op \in InboundOps => job[t].doc \in Inbounds
  BY DEF TypeInv, JobShape, Shaped
<1>4. InboundsHeld'
  BY <1>1, <1>2, <1>3 DEF InboundInv, InboundsHeld, Holding, InboundOps
<1>5. InboundRowsFit'
  BY <1>2 DEF InboundInv, InboundRowsFit
<1>6. InboundLedger'
  BY <1>2 DEF InboundInv, InboundLedger, Untouched
<1> QED BY <1>4, <1>5, <1>6 DEF InboundInv

\* A request takes the lock of a row that no other holds.
LEMMA InboundTaken ==
    ASSUME TypeInv, InboundInv, NEW s \in Sessions, NEW b \in Inbounds, NEW op \in InboundOps, NEW arg \in Int,
           Start(s, op, b, arg), UNCHANGED <<tables, desk, past>>,
           op \in {"postInbound", "reverseInbound"} => ~InboundLocked(b),
           op = "postInbound" => inb[b].status = "draft" /\ ~inb[b].deleted,
           op = "reverseInbound" => inb[b].status = "posted",
           inb[b].status # "none"
    PROVE  InboundInv'
<1>1. \A t \in Sessions : t # s => job'[t] = job[t]
  BY StartKeeps
<1>2. job'[s].op = op /\ job'[s].doc = b
  BY StartKeeps
<1>3. inb[b].status # "none" /\ ~inb[b].deleted => inb[b].batch \in Batches
  BY DEF InboundInv, InboundRowsFit
<1>4. InboundsHeld'
  BY <1>1, <1>2, <1>3 DEF InboundInv, InboundsHeld, Holding, InboundLocked, InboundOps, tables
<1> QED BY <1>4 DEF InboundInv, InboundRowsFit, InboundLedger, tables

\* The lock of a row keeps everyone else from posting or reversing it.
LEMMA InboundFree ==
    ASSUME TypeInv, InboundInv, NEW b \in Inbounds, ~InboundLocked(b), Keeps(InboundOps)
    PROVE  \A t \in Sessions : job'[t].doc = b => job'[t].op \notin {"postInbound", "reverseInbound"}
BY DEF InboundLocked, Keeps, InboundOps

LEMMA InboundStepInv == ASSUME TypeInv, InboundInv, InboundStep, UNCHANGED count PROVE InboundInv'
<1>1. inb \in [Inbounds -> InboundRows] /\ Inbounds \subseteq Booked
  BY DEF TypeInv, TypeOK, Booked
<1>2. InboundOps \subseteq AllOps /\ \A op \in BatchOps : op \notin InboundOps
  BY OpsApart DEF AllOps
<1>3. \A s \in Sessions : Done(s) => Keeps(InboundOps)
  BY <1>2, DoneKeeps, KeepsFewer
<1>4. ASSUME NEW s \in Sessions, NEW i \in Batches, NEW q \in Qty, RegisterBegin(s, i, q) PROVE InboundInv'
  <2>1. Keeps(InboundOps)
    BY <1>2, <1>4, StartKeeps DEF RegisterBegin, BatchOps
  <2> QED BY <1>4, <2>1, InboundKept, SameFacts DEF RegisterBegin, tables
<1>5. ASSUME NEW s \in Sessions, NEW b \in Inbounds, RegisterCommit(s, b) PROVE InboundInv'
  <2> DEFINE row == [NoInbound EXCEPT !.status = "draft", !.qty = job[s].arg, !.batch = job[s].doc]
  <2>1. row.status = "draft" /\ row.batch = job[s].doc
    BY DEF NoInbound
  <2>2. Keeps(InboundOps) /\ Rewritten(b, row) /\ UNCHANGED fact /\ inb[b].status = "none"
    BY <1>3, <1>5 DEF RegisterCommit, Rewritten
  <2>3. job[s].doc \in Batches
    BY <1>5 DEF RegisterCommit, Working, TypeInv, JobShape, Shaped, BatchOps
  <2>4. fact'[b] = 0
    BY <2>2 DEF InboundInv, InboundLedger
  <2>5. \A t \in Sessions : job'[t].doc = b => job'[t].op \notin {"postInbound", "reverseInbound"}
    BY <2>2 DEF Keeps, InboundInv, InboundsHeld, InboundOps
  <2> HIDE DEF row
  <2>6. Untouched(Inbounds \ {b})
    BY <2>2, SameFacts
  <2> QED BY <2>1, <2>2, <2>3, <2>4, <2>5, <2>6, InboundChange
<1>6. ASSUME NEW s \in Sessions, NEW b \in Inbounds, PostInboundBegin(s, b) PROVE InboundInv'
  BY <1>6, InboundTaken DEF PostInboundBegin, InboundOps
<1>7. ASSUME NEW s \in Sessions, NEW b \in Inbounds, RemoveInboundBegin(s, b) PROVE InboundInv'
  BY <1>7, InboundTaken DEF RemoveInboundBegin, InboundOps
<1>8. ASSUME NEW s \in Sessions, PostInboundCommit(s) PROVE InboundInv'
  <2> DEFINE b == job[s].doc
             row == [inb[b] EXCEPT !.status = "posted",
                                   !.source = IF @ \in {"none", "voided"} THEN "pending_finance" ELSE @]
  <2>1. b \in Inbounds /\ inb[b] \in InboundRows /\ fact[b] + inb[b].qty \in Int /\ b \in Booked /\ inb[b].qty \in Int
    BY <1>8, InboundJobTyped DEF PostInboundCommit, Working, InboundOps
  <2>2. inb[b].status = "draft" /\ ~inb[b].deleted /\ inb[b].batch \in Batches /\ fact[b] = 0
    BY <1>8, <2>1 DEF PostInboundCommit, Working, InboundInv, InboundsHeld, InboundLedger
  <2>3. row.status = "posted" /\ row.qty = inb[b].qty /\ row.batch = inb[b].batch
    BY <2>1 DEF InboundRows
  <2>4. Keeps(InboundOps) /\ Rewritten(b, row)
    BY <1>3, <1>8 DEF PostInboundCommit, Rewritten
  <2>5. fact'[b] = inb[b].qty /\ Untouched(Inbounds \ {b})
    <3>1. fact' = [fact EXCEPT ![b] = fact[b] + inb[b].qty]
      BY <1>8 DEF PostInboundCommit
    <3>2. fact'[b] = fact[b] + inb[b].qty /\ \A e \in Booked \ {b} : fact'[e] = fact[e]
      BY <2>1, <3>1, FactChange
    <3> QED BY <1>1, <2>1, <2>2, <3>2 DEF Untouched
  <2>6. \A t \in Sessions : job'[t].doc = b => job'[t].op \notin {"postInbound", "reverseInbound"}
    BY <1>8, DoneKeeps DEF PostInboundCommit, Working, InboundInv, InboundsHeld, Holding, Idle
  <2> HIDE DEF row, b
  <2> QED BY <2>1, <2>2, <2>3, <2>4, <2>5, <2>6, InboundChange
<1>9. ASSUME NEW s \in Sessions, RemoveInboundCommit(s) PROVE InboundInv'
  <2> DEFINE b == job[s].doc
             old == IF inb[b].status = "draft" THEN [NoInbound EXCEPT !.status = "draft"] ELSE inb[b]
             row == [old EXCEPT !.deleted = TRUE]
  <2>1. b \in Inbounds /\ inb[b] \in InboundRows /\ inb[b].status # "none"
    BY <1>9, InboundJobTyped DEF RemoveInboundCommit, Working, InboundOps, InboundInv, InboundsHeld
  <2>2. old \in InboundRows /\ old.status = inb[b].status
        /\ (inb[b].status # "draft" => old.qty = inb[b].qty /\ old.source = inb[b].source)
    BY <2>1, NoInboundTyped DEF NoInbound
  <2>3. Keeps(InboundOps) /\ Rewritten(b, row) /\ UNCHANGED fact /\ ~InboundLocked(b)
    BY <1>3, <1>9 DEF RemoveInboundCommit, Rewritten
  <2> HIDE DEF old
  <2>4. row.status = old.status /\ row.qty = old.qty /\ row.source = old.source /\ row.deleted
    BY <2>2 DEF InboundRows
  <2> HIDE DEF row, b
  <2>5. fact'[b] = IF row.status = "posted" THEN row.qty ELSE 0
    BY <2>1, <2>2, <2>3, <2>4 DEF InboundInv, InboundLedger
  <2>6. row.status = "reversed" => row.source = "voided"
    BY <2>1, <2>2, <2>4 DEF InboundInv, InboundRowsFit
  <2>7. \A t \in Sessions : job'[t].doc = b => job'[t].op \notin {"postInbound", "reverseInbound"}
    BY <2>1, <2>3, InboundFree
  <2>8. Untouched(Inbounds \ {b})
    BY <2>3, SameFacts
  <2> QED BY <2>1, <2>2, <2>3, <2>4, <2>5, <2>6, <2>7, <2>8, InboundChange
<1>10. ASSUME NEW i \in Batches, CreateNotice(i) PROVE InboundInv'
  BY <1>10, InboundKept, SameKeeps, SameFacts DEF CreateNotice
<1>11. ASSUME NEW i \in Batches, Acknowledge(i) PROVE InboundInv'
  <2>1. Keeps(InboundOps) /\ UNCHANGED fact
    BY <1>11, SameKeeps DEF Acknowledge
  <2>2. ASSUME NEW b \in InboundsOf(i), inb[b].status = "draft", ~InboundLocked(b), inb' = [inb EXCEPT ![b].linked = TRUE]
        PROVE  InboundInv'
    <3> DEFINE row == [inb[b] EXCEPT !.linked = TRUE]
    <3>1. b \in Inbounds /\ inb[b] \in InboundRows /\ inb[b].batch = i
      BY <1>1 DEF InboundsOf
    <3>2. Rewritten(b, row)
      BY <2>2 DEF Rewritten
    <3>3. row.status = "draft" /\ row.batch = i
      BY <2>2, <3>1 DEF InboundRows
    <3>4. fact'[b] = 0
      BY <2>1, <2>2, <3>1 DEF InboundInv, InboundLedger
    <3>5. \A t \in Sessions : job'[t].doc = b => job'[t].op \notin {"postInbound", "reverseInbound"}
      BY <2>1, <2>2, <3>1, InboundFree
    <3> HIDE DEF row
    <3>6. Untouched(Inbounds \ {b})
      BY <2>1, SameFacts
    <3> QED BY <2>1, <3>1, <3>2, <3>3, <3>4, <3>5, <3>6, InboundChange
  <2>3. ASSUME NEW b \in Inbounds, NewDraft(i, b) PROVE InboundInv'
    <3> DEFINE rest == batch[i].accepted - Used(InboundsOf(i))
               row == [NoInbound EXCEPT !.status = "draft", !.qty = rest, !.batch = i, !.linked = TRUE]
    <3>1. row.status = "draft" /\ row.batch = i
      BY DEF NoInbound
    <3>2. Rewritten(b, row) /\ inb[b].status = "none"
      BY <2>3 DEF NewDraft, Rewritten
    <3>3. fact'[b] = 0
      BY <2>1, <3>2 DEF InboundInv, InboundLedger
    <3>4. \A t \in Sessions : job'[t].doc = b => job'[t].op \notin {"postInbound", "reverseInbound"}
      BY <2>1, <3>2 DEF Keeps, InboundInv, InboundsHeld, InboundOps
    <3> HIDE DEF row
    <3>5. Untouched(Inbounds \ {b})
      BY <2>1, SameFacts
    <3> QED BY <2>1, <3>1, <3>2, <3>3, <3>4, <3>5, InboundChange
  <2>4. ASSUME UNCHANGED inb PROVE InboundInv'
    BY <2>1, <2>4, InboundKept, SameFacts
  <2> QED BY <1>11, <2>2, <2>3, <2>4 DEF Acknowledge
<1>12. ASSUME NEW b \in Inbounds, NEW q \in Qty, UpdateInbound(b, q) PROVE InboundInv'
  <2> DEFINE row == [inb[b] EXCEPT !.qty = q]
  <2>1. Keeps(InboundOps) /\ UNCHANGED fact /\ Rewritten(b, row)
    BY <1>12, SameKeeps DEF UpdateInbound, Rewritten
  <2>2. row.status = "draft" /\ row.batch = inb[b].batch /\ inb[b].status = "draft" /\ ~inb[b].deleted
    BY <1>1, <1>12 DEF UpdateInbound, InboundRows
  <2>3. fact'[b] = 0 /\ inb[b].batch \in Batches
    BY <2>1, <2>2 DEF InboundInv, InboundLedger, InboundRowsFit
  <2>4. \A t \in Sessions : job'[t].doc = b => job'[t].op \notin {"postInbound", "reverseInbound"}
    BY <1>12, <2>1, InboundFree DEF UpdateInbound
  <2> HIDE DEF row
  <2>5. Untouched(Inbounds \ {b})
    BY <2>1, SameFacts
  <2> QED BY <2>1, <2>2, <2>3, <2>4, <2>5, InboundChange
<1> QED BY <1>4, <1>5, <1>6, <1>7, <1>8, <1>9, <1>10, <1>11, <1>12 DEF InboundStep

LEMMA PayableInv == ASSUME TypeInv, InboundInv, PayableStep, UNCHANGED count PROVE InboundInv'
<1>1. inb \in [Inbounds -> InboundRows] /\ Confirmations \subseteq InboundOps
  BY DEF TypeInv, TypeOK, InboundOps
<1>2. ASSUME NEW b \in Inbounds, Keeps(InboundOps), UNCHANGED fact,
             inb'[b].status = inb[b].status, inb'[b].deleted = inb[b].deleted, inb'[b].batch = inb[b].batch,
             inb'[b].qty = inb[b].qty, inb[b].source = "voided" => inb'[b].source = "voided",
             inb[b].status # "none", \A x \in Inbounds \ {b} : inb'[x] = inb[x]
      PROVE  InboundInv'
  <2>1. \A t \in Sessions : job'[t].op \in InboundOps => job'[t].op = job[t].op /\ job'[t].doc = job[t].doc
    BY <1>2 DEF Keeps
  <2>2. \A t \in Sessions : job[t].op \in InboundOps => job[t].doc \in Inbounds
    BY DEF TypeInv, JobShape, Shaped
  <2>3. InboundsHeld'
    BY <1>2, <2>1, <2>2 DEF InboundInv, InboundsHeld, Holding, InboundOps
  <2>4. InboundRowsFit'
    BY <1>2 DEF InboundInv, InboundRowsFit
  <2>5. InboundLedger'
    BY <1>2 DEF InboundInv, InboundLedger
  <2> QED BY <2>3, <2>4, <2>5 DEF InboundInv
<1>3. ASSUME NEW b \in Inbounds, inb[b].source # "none" \/ inb[b].entry # "none" PROVE inb[b].status # "none"
  BY <1>3 DEF InboundInv, InboundRowsFit, NoInbound
<1>4. ASSUME NEW b \in Inbounds, CreateFromSource(b) PROVE InboundInv'
  BY <1>1, <1>2, <1>3, <1>4, SameKeeps DEF CreateFromSource, InboundRows
<1>5. ASSUME NEW s \in Sessions, NEW b \in Inbounds, NEW op \in Confirmations, ConfirmBegin(s, b, op)
      PROVE  InboundInv'
  <2>1. op \in InboundOps /\ op \notin {"postInbound", "reverseInbound"}
    BY <1>1 DEF Confirmations
  <2>2. Start(s, op, b, 0) /\ UNCHANGED <<tables, desk, past>> /\ inb[b].status # "none"
    BY <1>3, <1>5 DEF ConfirmBegin
  <2> QED BY <2>1, <2>2, InboundTaken
<1>6. ASSUME NEW s \in Sessions, ConfirmCommit(s) PROVE InboundInv'
  <2> DEFINE b == job[s].doc
  <2>1. b \in Inbounds /\ inb[b].status # "none"
    BY <1>1, <1>6, InboundJobTyped DEF ConfirmCommit, InboundInv, InboundsHeld
  <2>2. Keeps(InboundOps)
    BY <1>6, DoneKeeps, KeepsFewer DEF ConfirmCommit, AllOps
  <2> QED BY <1>1, <1>2, <1>6, <2>1, <2>2 DEF ConfirmCommit, InboundRows
<1> QED BY <1>4, <1>5, <1>6 DEF PayableStep

LEMMA ReversalInv == ASSUME TypeInv, InboundInv, ReversalStep, UNCHANGED count PROVE InboundInv'
<1>1. ASSUME NEW s \in Sessions, NEW b \in Inbounds, ReverseInboundBegin(s, b) PROVE InboundInv'
  <2>1. PICK x \in {0, 1} : Start(s, "reverseInbound", b, x) /\ UNCHANGED <<tables, desk, past>>
    BY <1>1 DEF ReverseInboundBegin
  <2> QED BY <1>1, <2>1, InboundTaken DEF ReverseInboundBegin, InboundOps
<1>2. ASSUME NEW s \in Sessions, ReverseInboundCommit(s) PROVE InboundInv'
  <2> DEFINE b == job[s].doc
             row == [inb[b] EXCEPT !.status = "reversed", !.source = "voided",
                                   !.entry = IF job[s].arg = 1 THEN "voided" ELSE @]
  <2>1. b \in Inbounds /\ inb[b] \in InboundRows /\ fact[b] - inb[b].qty \in Int /\ b \in Booked /\ inb[b].qty \in Int
    BY <1>2, InboundJobTyped DEF ReverseInboundCommit, Working, InboundOps
  <2>2. inb[b].status = "posted" /\ fact[b] = inb[b].qty
    BY <1>2, <2>1 DEF ReverseInboundCommit, Working, InboundInv, InboundsHeld, InboundLedger
  <2>3. row.status = "reversed" /\ row.source = "voided" /\ row.batch = inb[b].batch /\ row.deleted = inb[b].deleted
    BY <2>1 DEF InboundRows
  <2>4. Keeps(InboundOps) /\ Rewritten(b, row)
    BY <1>2, DoneKeeps, KeepsFewer DEF ReverseInboundCommit, Rewritten, AllOps
  <2>5. fact'[b] = 0 /\ Untouched(Inbounds \ {b})
    <3>1. fact' = [fact EXCEPT ![b] = fact[b] - inb[b].qty]
      BY <1>2 DEF ReverseInboundCommit
    <3>2. fact'[b] = fact[b] - inb[b].qty /\ \A e \in Booked \ {b} : fact'[e] = fact[e]
      BY <2>1, <3>1, FactChange
    <3>3. Inbounds \subseteq Booked
      BY DEF Booked
    <3> QED BY <2>1, <2>2, <3>2, <3>3 DEF Untouched
  <2>6. \A t \in Sessions : job'[t].doc = b => job'[t].op \notin {"postInbound", "reverseInbound"}
    BY <1>2, DoneKeeps DEF ReverseInboundCommit, Working, InboundInv, InboundsHeld, Holding, Idle
  <2>7. ~inb[b].deleted => inb[b].batch \in Batches
    BY <2>1, <2>2 DEF InboundInv, InboundRowsFit
  <2> HIDE DEF row, b
  <2> QED BY <2>1, <2>2, <2>3, <2>4, <2>5, <2>6, <2>7, InboundChange
<1> QED BY <1>1, <1>2 DEF ReversalStep

LEMMA NextInboundInv == ASSUME TypeInv, InboundInv, [Next]_allVars PROVE InboundInv'
<1>1. CASE InspectionStep
  <2>1. Keeps(InboundOps)
    BY <1>1, InspectionFrame, KeepsFewer
  <2> QED BY <1>1, <2>1, InspectionFrame, InboundKept, SameFacts
<1>2. CASE OutboundStep \/ CorrectingStep
  <2>1. Keeps(InboundOps) /\ Untouched(Inbounds)
    BY <1>2, IssuingFrame, KeepsFewer DEF Untouched
  <2> QED BY <1>2, <2>1, IssuingFrame, InboundKept
<1>3. CASE StocktakeStep
  <2>1. Keeps(InboundOps) /\ Untouched(Inbounds)
    BY <1>3, StocktakeFrame, KeepsFewer DEF Untouched
  <2> QED BY <1>3, <2>1, StocktakeFrame, InboundKept
<1>4. CASE Keeps(AllOps) /\ UNCHANGED <<tables, past, count>>
  <2>1. Keeps(InboundOps)
    BY <1>4, KeepsFewer DEF AllOps
  <2> QED BY <1>4, <2>1, InboundKept, SameFacts DEF tables
<1> QED BY <1>1, <1>2, <1>3, <1>4, Steps, InboundStepInv, PayableInv, ReversalInv

LEMMA InitInboundInv == Init => InboundInv
<1>1. SUFFICES ASSUME Init PROVE InboundInv
  OBVIOUS
<1>2. \A s \in Sessions : job[s].op = "idle"
  BY <1>1, IdleTyped DEF Init
<1>3. InboundsHeld
  BY <1>2 DEF InboundsHeld, Holding, Confirmations
<1>4. InboundRowsFit /\ InboundLedger
  <2>1. CASE NothingIn
    BY <2>1 DEF NothingIn, NoInbound, InboundRowsFit, InboundLedger, Booked
  <2>2. CASE InStock
    <3>1. PICK i \in Batches, o \in Inbounds :
            /\ inb = [b \in Inbounds |-> IF b = o THEN OpeningInbound(i) ELSE NoInbound]
            /\ fact = [d \in Booked |-> IF d = o THEN MaxQty ELSE 0]
      BY <2>2 DEF InStock
    <3>2. Inbounds \subseteq Booked
      BY DEF Booked
    <3>3. \A b \in Inbounds : fact[b] = IF b = o THEN MaxQty ELSE 0
      BY <3>1, <3>2
    <3>4. \A b \in Inbounds : inb[b] = IF b = o THEN OpeningInbound(i) ELSE NoInbound
      BY <3>1
    <3>5. /\ OpeningInbound(i).status = "posted" /\ OpeningInbound(i).batch = i /\ OpeningInbound(i).qty = MaxQty
          /\ NoInbound.status = "none"
      BY DEF OpeningInbound, NoInbound
    <3>6. InboundRowsFit
      BY <3>4, <3>5 DEF InboundRowsFit
    <3>7. InboundLedger
      BY <3>3, <3>4, <3>5 DEF InboundLedger
    <3> QED BY <3>6, <3>7
  <2> QED BY <1>1, <2>1, <2>2 DEF Init
<1> QED BY <1>3, <1>4 DEF InboundInv

(* A reversed inbound is owed by a request that was under way only: its    *)
(* source is voided for good, and nothing but a confirmation that has read *)
(* an unvoided source confirms its entry.                                  *)
EntriesKept ==
    \A b \in Inbounds :
        inb[b].status = "reversed" /\ inb[b].entry # "confirmed" /\ Confirming(b) = {} => inb'[b].entry # "confirmed"

NoneConfirming == \A b \in Inbounds : inb[b].status = "reversed" => Confirming(b)' \subseteq Confirming(b)

LEMMA ConfirmingKept == ASSUME Keeps(InboundOps) PROVE NoneConfirming
BY DEF NoneConfirming, Confirming, Keeps, InboundOps

\* A request that is not a confirmation begins.
LEMMA OthersBegin ==
    ASSUME TypeInv, NEW s \in Sessions, NEW op, op \notin Confirmations, NEW doc, NEW arg, Start(s, op, doc, arg)
    PROVE  NoneConfirming
<1>1. Keeps(Confirmations)
  BY StartKeeps
<1> QED BY <1>1 DEF NoneConfirming, Confirming, Keeps

LEMMA NextNoneConfirming == ASSUME TypeInv, InboundInv, [Next]_allVars PROVE NoneConfirming
<1>1. InboundOps \subseteq AllOps /\ \A op \in {"register", "postInbound", "removeInbound", "reverseInbound"} : op \notin Confirmations
  BY DEF AllOps, Confirmations
<1>2. ASSUME NEW s \in Sessions, Done(s) PROVE NoneConfirming
  BY <1>1, <1>2, DoneKeeps, KeepsFewer, ConfirmingKept
<1>3. CASE InspectionStep \/ OutboundStep \/ CorrectingStep \/ StocktakeStep \/ Keeps(AllOps)
  <2>1. Keeps(InboundOps)
    BY <1>1, <1>3, InspectionFrame, IssuingFrame, StocktakeFrame, KeepsFewer
  <2> QED BY <2>1, ConfirmingKept
<1>4. ASSUME UNCHANGED job PROVE NoneConfirming
  BY <1>4, SameKeeps, ConfirmingKept
<1>5. CASE InboundStep
  <2>1. ASSUME NEW s \in Sessions, NEW i \in Batches, NEW q \in Qty, RegisterBegin(s, i, q) PROVE NoneConfirming
    BY <1>1, <2>1, OthersBegin DEF RegisterBegin
  <2>2. ASSUME NEW s \in Sessions, NEW b \in Inbounds, PostInboundBegin(s, b) \/ RemoveInboundBegin(s, b)
        PROVE  NoneConfirming
    BY <1>1, <2>2, OthersBegin DEF PostInboundBegin, RemoveInboundBegin
  <2> QED BY <1>2, <1>4, <1>5, <2>1, <2>2
          DEF InboundStep, RegisterCommit, PostInboundCommit, RemoveInboundCommit, CreateNotice, Acknowledge, UpdateInbound
<1>6. CASE ReversalStep
  <2>1. ASSUME NEW s \in Sessions, NEW b \in Inbounds, ReverseInboundBegin(s, b) PROVE NoneConfirming
    BY <1>1, <2>1, OthersBegin DEF ReverseInboundBegin
  <2> QED BY <1>2, <1>6, <2>1 DEF ReversalStep, ReverseInboundCommit
<1>7. CASE PayableStep
  <2>1. ASSUME NEW s \in Sessions, NEW b \in Inbounds, NEW op \in Confirmations, ConfirmBegin(s, b, op)
        PROVE  NoneConfirming
    <3>1. inb[b].status # "reversed"
      BY <2>1 DEF ConfirmBegin, InboundInv, InboundRowsFit
    <3>2. job'[s].doc = b /\ \A t \in Sessions : t # s => job'[t] = job[t]
      BY <2>1, StartKeeps DEF ConfirmBegin
    <3> QED BY <3>1, <3>2 DEF NoneConfirming, Confirming
  <2> QED BY <1>2, <1>4, <1>7, <2>1 DEF PayableStep, CreateFromSource, ConfirmCommit
<1> QED BY <1>3, <1>4, <1>5, <1>6, <1>7, Steps DEF tables

LEMMA NextEntriesKept == ASSUME TypeInv, InboundInv, [Next]_allVars PROVE EntriesKept
<1>1. inb \in [Inbounds -> InboundRows] /\ \A b \in Inbounds : inb[b].status = "reversed" => inb[b].source = "voided"
  BY DEF TypeInv, TypeOK, InboundInv, InboundRowsFit
<1>2. CASE UNCHANGED inb
  BY <1>2 DEF EntriesKept
<1>3. CASE PayableStep
  <2>1. ASSUME NEW b \in Inbounds, CreateFromSource(b) PROVE EntriesKept
    BY <1>1, <2>1 DEF CreateFromSource, EntriesKept, InboundRows
  <2>2. ASSUME NEW s \in Sessions, NEW b \in Inbounds, NEW op \in Confirmations, ConfirmBegin(s, b, op)
        PROVE  EntriesKept
    BY <1>2, <2>2 DEF ConfirmBegin, tables
  <2>3. ASSUME NEW s \in Sessions, ConfirmCommit(s) PROVE EntriesKept
    BY <1>1, <2>3 DEF ConfirmCommit, EntriesKept, Confirming
  <2> QED BY <1>3, <2>1, <2>2, <2>3 DEF PayableStep
<1>4. ASSUME NEW s \in Sessions, job[s].op \in InboundOps PROVE job[s].doc \in Inbounds
  BY <1>4 DEF TypeInv, JobShape, Shaped
<1>5. CASE ReversalStep
  <2>1. ASSUME NEW s \in Sessions, ReverseInboundCommit(s) PROVE EntriesKept
    <3>1. job[s].doc \in Inbounds
      BY <1>4, <2>1 DEF ReverseInboundCommit, Working, InboundOps
    <3> QED BY <1>1, <2>1, <3>1 DEF ReverseInboundCommit, EntriesKept, InboundRows
  <2>2. ASSUME NEW s \in Sessions, NEW b \in Inbounds, ReverseInboundBegin(s, b) PROVE EntriesKept
    BY <1>2, <2>2 DEF ReverseInboundBegin, tables
  <2> QED BY <1>5, <2>1, <2>2 DEF ReversalStep
<1>6. CASE InboundStep
  <2>1. ASSUME NEW s \in Sessions, NEW b \in Inbounds, RegisterCommit(s, b) PROVE EntriesKept
    BY <1>1, <2>1 DEF RegisterCommit, EntriesKept, NoInbound
  <2>2. ASSUME NEW s \in Sessions, PostInboundCommit(s) PROVE EntriesKept
    <3>1. job[s].doc \in Inbounds
      BY <1>4, <2>2 DEF PostInboundCommit, Working, InboundOps
    <3> QED BY <1>1, <2>2, <3>1 DEF PostInboundCommit, EntriesKept, InboundRows
  <2>3. ASSUME NEW s \in Sessions, RemoveInboundCommit(s) PROVE EntriesKept
    <3>1. job[s].doc \in Inbounds
      BY <1>4, <2>3 DEF RemoveInboundCommit, Working, InboundOps
    <3>2. \A row \in InboundRows : [row EXCEPT !.deleted = TRUE].entry = row.entry
      BY DEF InboundRows
    <3>3. inb[job[s].doc].status = "reversed" => inb'[job[s].doc].entry = inb[job[s].doc].entry
      BY <1>1, <2>3, <3>1, <3>2 DEF RemoveInboundCommit
    <3>4. \A b \in Inbounds \ {job[s].doc} : inb'[b] = inb[b]
      BY <1>1, <2>3 DEF RemoveInboundCommit
    <3> QED BY <3>3, <3>4 DEF EntriesKept
  <2>4. ASSUME NEW i \in Batches, Acknowledge(i) PROVE EntriesKept
    <3>1. ASSUME NEW b \in Inbounds, inb' = [inb EXCEPT ![b].linked = TRUE] PROVE EntriesKept
      BY <1>1, <3>1 DEF EntriesKept, InboundRows
    <3>2. ASSUME NEW b \in Inbounds, NewDraft(i, b) PROVE EntriesKept
      BY <1>1, <3>2 DEF NewDraft, EntriesKept, NoInbound
    <3> QED BY <1>2, <2>4, <3>1, <3>2 DEF Acknowledge, InboundsOf
  <2>5. ASSUME NEW b \in Inbounds, NEW q \in Qty, UpdateInbound(b, q) PROVE EntriesKept
    BY <1>1, <2>5 DEF UpdateInbound, EntriesKept, InboundRows
  <2>6. ASSUME UNCHANGED inb PROVE EntriesKept
    BY <1>2, <2>6
  <2> QED BY <1>6, <2>1, <2>2, <2>3, <2>4, <2>5, <2>6
          DEF InboundStep, RegisterBegin, PostInboundBegin, RemoveInboundBegin, CreateNotice, tables
<1> QED BY <1>2, <1>3, <1>5, <1>6, Steps, InspectionFrame, IssuingFrame, StocktakeFrame DEF tables

(* A request that has locked an inbound finds it as it was, and what an    *)
(* inbound has booked is what its status says.                             *)
THEOREM MaterialsInboundInv == Spec => [](TypeInv /\ InboundInv)
<1>1. TypeInv /\ InboundInv /\ [Next]_<<vars, count>> => (TypeInv /\ InboundInv)'
  BY NextTyped, NextInboundInv DEF allVars
<1>2. Init => TypeInv /\ InboundInv
  BY InitTyped, InitInboundInv
<1> QED BY <1>1, <1>2, PTL DEF Spec

(* Once an inbound is reversed, no request begins to confirm its payable,  *)
(* and one that was under way is all that can still confirm it.            *)
THEOREM MaterialsReversedIsOwedOnlyBelatedly == Spec => ReversedIsOwedOnlyBelatedly
<1>1. TypeInv /\ InboundInv /\ [Next]_<<vars, count>> => [NoneConfirming /\ EntriesKept]_vars
  BY NextNoneConfirming, NextEntriesKept DEF allVars
<1>2. Spec => [][NoneConfirming /\ EntriesKept]_vars
  BY <1>1, MaterialsInboundInv, PTL DEF Spec
<1> DEFINE Belatedly ==
      \A b \in Inbounds : inb[b].status = "reversed" =>
        /\ Confirming(b)' \subseteq Confirming(b)
        /\ Confirming(b) = {} /\ inb[b].entry # "confirmed" => inb'[b].entry # "confirmed"
<1>3. [NoneConfirming /\ EntriesKept]_vars => [Belatedly]_vars
  BY DEF NoneConfirming, EntriesKept
<1> HIDE DEF Belatedly
<1>4. Spec => [][Belatedly]_vars
  BY <1>2, <1>3, PTL
<1> QED BY <1>4 DEF ReversedIsOwedOnlyBelatedly, Belatedly

-----------------------------------------------------------------------------
(* Stocktakes: a line stands for what was applied, and a confirmation that *)
(* holds the header finds a draft with no facts.                           *)
LEMMA CountKept ==
    ASSUME TypeInv, CountInv, Keeps(CountOps), UNCHANGED count, Untouched(Stocktakes)
    PROVE  CountInv'
<1>1. \A t \in Sessions : job'[t].op \in CountOps => job'[t].op = job[t].op /\ job'[t].doc = job[t].doc
  BY DEF Keeps
<1>2. CountsHeld'
  BY <1>1 DEF CountInv, CountsHeld, CountOps
<1>3. CountLedger'
  BY DEF CountInv, CountLedger, Untouched
<1> QED BY <1>2, <1>3 DEF CountInv

LineFits(row, f) ==
    /\ row.line => f = IF row.status = "confirmed" THEN row.applied ELSE 0
    /\ row.status \in {"none", "draft"} => f = 0 /\ row.applied = 0
    /\ f \in {0, row.applied}

LEMMA CountChange ==
    ASSUME TypeInv, CountInv, Keeps(CountOps), NEW c \in Stocktakes, NEW row, count' = [count EXCEPT ![c] = row],
           \A x \in Stocktakes \ {c} : fact'[x] = fact[x], LineFits(row, fact'[c]),
           row.status # "draft" => \A t \in Sessions : job'[t].doc = c => job'[t].op # "confirmCount"
    PROVE  CountInv'
<1>1. \A t \in Sessions : job'[t].op \in CountOps => job'[t].op = job[t].op /\ job'[t].doc = job[t].doc
  BY DEF Keeps
<1>2. \A x \in Stocktakes : count'[x] = IF x = c THEN row ELSE count[x]
  BY DEF TypeInv, TypeOK
<1>3. \A t \in Sessions : job[t].op \in CountOps => job[t].doc \in Stocktakes
  BY DEF TypeInv, JobShape, Shaped
<1>4. CountsHeld'
  BY <1>1, <1>2, <1>3 DEF CountInv, CountsHeld, CountOps
<1>5. CountLedger'
  BY <1>2 DEF CountInv, CountLedger, LineFits
<1> QED BY <1>4, <1>5 DEF CountInv

LEMMA StocktakeInv == ASSUME TypeInv, CountInv, StocktakeStep PROVE CountInv'
<1> USE DEF otherTables, history, past
<1>1. count \in [Stocktakes -> StocktakeRows] /\ Stocktakes \subseteq Booked
  BY DEF TypeInv, TypeOK, Booked
<1>2. ASSUME NEW s \in Sessions, Done(s) PROVE Keeps(CountOps)
  BY <1>2, DoneKeeps, KeepsFewer DEF AllOps
<1>3. \A c \in Stocktakes : LineFits(count[c], fact[c])
  BY DEF CountInv, CountLedger, LineFits
<1>4. ASSUME NEW c \in Stocktakes, NEW n \in 0..MaxQty, Upload(c, n) PROVE CountInv'
  <2> DEFINE row == [NoStocktake EXCEPT !.status = "draft", !.line = TRUE, !.actual = n]
  <2>1. row.status = "draft" /\ row.applied = 0
    BY DEF NoStocktake
  <2>2. fact'[c] = 0 /\ UNCHANGED fact
    BY <1>4 DEF Upload, CountInv, CountLedger
  <2>3. LineFits(row, fact'[c])
    BY <2>1, <2>2 DEF LineFits
  <2>4. Keeps(CountOps) /\ count' = [count EXCEPT ![c] = row]
    BY <1>4, SameKeeps DEF Upload
  <2> HIDE DEF row
  <2> QED BY <2>1, <2>2, <2>3, <2>4, CountChange
<1>5. ASSUME NEW s \in Sessions, NEW c \in Stocktakes, NEW op \in {"updateLine", "removeLine", "removeStocktake"},
             EditBegin(s, c, op)
      PROVE  CountInv'
  <2>1. /\ \A t \in Sessions : t # s => job'[t] = job[t]
        /\ job'[s].op # "confirmCount"
    BY <1>5, StartKeeps DEF EditBegin
  <2> QED BY <1>5, <2>1 DEF EditBegin, CountInv, CountsHeld, CountLedger
<1>6. ASSUME NEW s \in Sessions, NEW row, EditCommit(s, row), job[s].op \in CountOps, job[s].op # "confirmCount",
             row.status = count[job[s].doc].status, row.applied = count[job[s].doc].applied,
             row.line => count[job[s].doc].line
      PROVE  CountInv'
  <2> DEFINE c == job[s].doc
  <2>1. c \in Stocktakes
    BY <1>6, CountJob
  <2>2. Keeps(CountOps) /\ UNCHANGED fact /\ count' = [count EXCEPT ![c] = row]
    BY <1>2, <1>6 DEF EditCommit
  <2>3. LineFits(row, fact'[c])
    BY <1>3, <1>6, <2>1, <2>2 DEF LineFits
  <2>4. row.status # "draft" => \A t \in Sessions : job'[t].doc = c => job'[t].op # "confirmCount"
    BY <1>6, <2>1, <2>2 DEF Keeps, CountOps, CountInv, CountsHeld
  <2> HIDE DEF c
  <2> QED BY <2>1, <2>2, <2>3, <2>4, CountChange
<1>7. ASSUME NEW row \in StocktakeRows, NEW n
      PROVE  /\ [row EXCEPT !.actual = n].status = row.status /\ [row EXCEPT !.actual = n].applied = row.applied
             /\ [row EXCEPT !.actual = n].line = row.line
             /\ [row EXCEPT !.line = FALSE].status = row.status /\ [row EXCEPT !.line = FALSE].applied = row.applied
             /\ [row EXCEPT !.line = FALSE].line = FALSE
             /\ [row EXCEPT !.deleted = TRUE].status = row.status
             /\ [row EXCEPT !.deleted = TRUE].applied = row.applied
             /\ [row EXCEPT !.deleted = TRUE].line = row.line
  BY DEF StocktakeRows
<1>8. ASSUME NEW s \in Sessions, NEW n \in 0..MaxQty, UpdateLineCommit(s, n) PROVE CountInv'
  <2>1. job[s].op \in CountOps /\ job[s].op # "confirmCount"
    BY <1>8 DEF UpdateLineCommit, Working, CountOps
  <2>2. count[job[s].doc] \in StocktakeRows
    BY <2>1, CountJob, <1>1
  <2> DEFINE row == [count[job[s].doc] EXCEPT !.actual = n]
  <2>3. row.status = count[job[s].doc].status /\ row.applied = count[job[s].doc].applied
        /\ row.line = count[job[s].doc].line
    BY <1>7, <2>2
  <2>4. EditCommit(s, row)
    BY <1>8 DEF UpdateLineCommit
  <2> HIDE DEF row
  <2> QED BY <1>6, <2>1, <2>3, <2>4
<1>9. ASSUME NEW s \in Sessions, RemoveLineCommit(s) PROVE CountInv'
  <2>1. job[s].op \in CountOps /\ job[s].op # "confirmCount"
    BY <1>9 DEF RemoveLineCommit, Working, CountOps
  <2>2. count[job[s].doc] \in StocktakeRows
    BY <2>1, CountJob, <1>1
  <2> QED BY <1>6, <1>7, <1>9, <2>1, <2>2 DEF RemoveLineCommit
<1>10. ASSUME NEW s \in Sessions, RemoveStocktakeCommit(s) PROVE CountInv'
  <2>1. job[s].op \in CountOps /\ job[s].op # "confirmCount"
    BY <1>10 DEF RemoveStocktakeCommit, Working, CountOps
  <2>2. count[job[s].doc] \in StocktakeRows
    BY <2>1, CountJob, <1>1
  <2> QED BY <1>6, <1>7, <1>10, <2>1, <2>2 DEF RemoveStocktakeCommit
<1>11. ASSUME NEW s \in Sessions, NEW c \in Stocktakes, ConfirmCountBegin(s, c) PROVE CountInv'
  <2>1. \A t \in Sessions : t # s => job'[t] = job[t]
    BY <1>11, StartKeeps DEF ConfirmCountBegin
  <2>2. job'[s].doc = c
    BY <1>11, StartKeeps DEF ConfirmCountBegin
  <2>3. CountsHeld'
    BY <1>11, <2>1, <2>2 DEF ConfirmCountBegin, CountInv, CountsHeld, CountLocked, IsDraftCount
  <2> QED BY <1>11, <2>3 DEF ConfirmCountBegin, CountInv, CountLedger
<1>12. ASSUME NEW s \in Sessions, ConfirmCountCommit(s) PROVE CountInv'
  <2> DEFINE c == job[s].doc
             row == [count[c] EXCEPT !.status = "confirmed", !.applied = job[s].arg]
  <2>1. c \in Stocktakes /\ job[s].arg \in Int
    BY <1>12, CountJob DEF ConfirmCountCommit, Working, CountOps
  <2>2. count[c].status = "draft" /\ fact[c] = 0 /\ count[c] \in StocktakeRows /\ c \in Booked
    BY <1>1, <1>12, <2>1 DEF ConfirmCountCommit, Working, CountInv, CountsHeld, CountLedger
  <2>3. row.status = "confirmed" /\ row.applied = job[s].arg
    BY <2>2 DEF StocktakeRows
  <2>4. Keeps(CountOps) /\ count' = [count EXCEPT ![c] = row]
    BY <1>2, <1>12 DEF ConfirmCountCommit
  <2>5. fact' = [fact EXCEPT ![c] = fact[c] + job[s].arg] /\ fact[c] + job[s].arg = job[s].arg
    BY <1>12, <2>1, <2>2 DEF ConfirmCountCommit
  <2>6. fact'[c] = job[s].arg /\ \A x \in Stocktakes \ {c} : fact'[x] = fact[x]
    BY <1>1, <2>1, <2>2, <2>5, FactChange
  <2>7. \A t \in Sessions : job'[t].doc = c => job'[t].op # "confirmCount"
    BY <1>12, DoneKeeps DEF ConfirmCountCommit, Working, CountInv, CountsHeld, Idle
  <2>8. LineFits(row, fact'[c])
    BY <2>3, <2>6 DEF LineFits
  <2> HIDE DEF row, c
  <2> QED BY <2>1, <2>4, <2>6, <2>7, <2>8, CountChange
<1>13. ASSUME NEW c \in Stocktakes, ReverseCount(c) PROVE CountInv'
  <2> DEFINE row == [count[c] EXCEPT !.status = "reversed"]
             f == IF count[c].line THEN fact[c] - count[c].applied ELSE fact[c]
  <2>1. count[c] \in StocktakeRows /\ fact[c] \in Int /\ count[c].applied \in Int /\ c \in Booked
    BY CountTyped
  <2>2. row.status = "reversed" /\ row.applied = count[c].applied /\ row.line = count[c].line
    BY <2>1 DEF StocktakeRows
  <2>3. f \in Int /\ (row.line => f = 0) /\ f \in {0, row.applied}
    BY <1>3, <1>13, <2>1, <2>2 DEF ReverseCount, LineFits
  <2>4. fact' = [fact EXCEPT ![c] = f] /\ count' = [count EXCEPT ![c] = row] /\ Keeps(CountOps)
    BY <1>13, SameKeeps DEF ReverseCount
  <2> HIDE DEF row, f
  <2>5. fact'[c] = f /\ \A x \in Stocktakes \ {c} : fact'[x] = fact[x]
    BY <1>1, <2>1, <2>3, <2>4, FactChange
  <2>6. LineFits(row, fact'[c])
    BY <2>2, <2>3, <2>5 DEF LineFits
  <2>7. \A t \in Sessions : job'[t].doc = c => job'[t].op # "confirmCount"
    BY <1>13, <2>4 DEF ReverseCount, CountLocked
  <2> QED BY <2>4, <2>5, <2>6, <2>7, CountChange
<1> QED BY <1>4, <1>5, <1>8, <1>9, <1>10, <1>11, <1>12, <1>13 DEF StocktakeStep

LEMMA NextCountInv == ASSUME TypeInv, CountInv, [Next]_allVars PROVE CountInv'
<1>1. CASE (InspectionStep \/ InboundStep \/ PayableStep \/ ReversalStep) /\ UNCHANGED count
  <2>1. Keeps(CountOps) /\ Untouched(Stocktakes)
    BY <1>1, ReceivingFrame, KeepsFewer DEF Untouched
  <2> QED BY <1>1, <2>1, CountKept
<1>2. CASE (OutboundStep \/ CorrectingStep) /\ UNCHANGED count
  <2>1. Keeps(CountOps) /\ Untouched(Stocktakes)
    BY <1>2, IssuingFrame, KeepsFewer DEF Untouched
  <2> QED BY <1>2, <2>1, CountKept
<1>3. CASE Keeps(AllOps) /\ UNCHANGED <<tables, past, count>>
  <2>1. Keeps(CountOps)
    BY <1>3, KeepsFewer DEF AllOps
  <2> QED BY <1>3, <2>1, CountKept, SameFacts DEF tables
<1> QED BY <1>1, <1>2, <1>3, Steps, StocktakeInv

LEMMA InitCountInv == Init => CountInv
<1>1. SUFFICES ASSUME Init PROVE CountInv
  OBVIOUS
<1>2. \A s \in Sessions : job[s].op = "idle"
  BY <1>1, IdleTyped DEF Init
<1>3. CountsHeld
  BY <1>2 DEF CountsHeld
<1>4. \A c \in Stocktakes : fact[c] = 0
  BY <1>1 DEF Init, NothingIn, InStock, Booked
<1>5. \A c \in Stocktakes : count[c].status = "none" /\ count[c].applied = 0 /\ ~count[c].line
  BY <1>1 DEF Init, NoStocktake
<1>6. CountLedger
  BY <1>4, <1>5 DEF CountLedger
<1> QED BY <1>3, <1>6 DEF CountInv

-----------------------------------------------------------------------------
(* Movements.  A serializable request that is not doomed by a commit works *)
(* on another document, and nothing it read was written.                   *)
LEMMA MovementOpsKnown ==
    /\ MovementOps \subseteq AllOps /\ Serializable \subseteq MovementOps
    /\ \A op \in MovementOps : op \notin BatchOps \cup InboundOps \cup CountOps /\ op # "idle"
BY OpsApart DEF AllOps, MovementOps

LEMMA RowsConflict ==
    ASSUME NEW j, NEW k, j.op \in Serializable, k.op \in Serializable, j.doc = k.doc
    PROVE  Conflict(j, k)
<1>1. Row(j.doc) \in Reads(j) /\ Row(j.doc) \in Writes(j) /\ Row(j.doc) \in Reads(k) /\ Row(j.doc) \in Writes(k)
  BY DEF Reads, Writes
<1> QED BY <1>1 DEF Conflict

LEMMA CommitSpares ==
    ASSUME TypeInv, NEW s \in Sessions, CommitSerializable(s), job[s].op \in Serializable,
           NEW t \in Sessions, job'[t].op \in Serializable, ~job'[t].doomed
    PROVE  /\ t # s /\ ~job[t].doomed /\ job[t].op = job'[t].op /\ job[t].doc = job'[t].doc
           /\ job[t].arg = job'[t].arg
           /\ job[t].doc # job[s].doc /\ ~Conflict(job[s], job[t])
<1> DEFINE doomed == {u \in Sessions : Conflict(job[s], job[u])}
<1>1. DoomsOnly({s}, doomed)
  BY CommitDooms
<1>2. job'[t].op \in AllOps /\ job'[t].op # "idle"
  BY MovementOpsKnown
<1>3. t \notin {s} /\ t \notin doomed /\ Keeps(AllOps)
  <2> HIDE DEF doomed
  <2> QED BY <1>1, <1>2, DoomKeeps
<1>4. ~job[t].doomed /\ job[t].op = job'[t].op /\ job[t].doc = job'[t].doc /\ job[t].arg = job'[t].arg
  BY <1>2, <1>3 DEF Keeps
<1> QED BY <1>3, <1>4, RowsConflict

LEMMA OverwriteSpares ==
    ASSUME TypeInv, NEW m, NEW idle, Overwrites(m, idle),
           NEW t \in Sessions, job'[t].op \in Serializable, ~job'[t].doomed
    PROVE  /\ t \notin idle /\ ~job[t].doomed /\ job[t].op = job'[t].op /\ job[t].doc = job'[t].doc
           /\ job[t].arg = job'[t].arg /\ job[t].doc # m
<1> DEFINE doomed == {u \in Sessions : job[u].op \in Serializable /\ job[u].doc = m}
<1>1. DoomsOnly(idle, doomed)
  BY OverwriteDooms
<1>2. job'[t].op \in AllOps /\ job'[t].op # "idle"
  BY MovementOpsKnown
<1>3. t \notin idle /\ t \notin doomed /\ Keeps(AllOps)
  <2> HIDE DEF doomed
  <2> QED BY <1>1, <1>2, DoomKeeps
<1>4. ~job[t].doomed /\ job[t].op = job'[t].op /\ job[t].doc = job'[t].doc /\ job[t].arg = job'[t].arg
  BY <1>2, <1>3 DEF Keeps
<1> QED BY <1>3, <1>4

LEMMA MovementKept ==
    ASSUME TypeInv, MovementInv, Keeps(MovementOps), UNCHANGED <<mov, overtaken>>, Untouched(Movements)
    PROVE  MovementInv'
<1>1. \A t \in Sessions : job'[t].op \in MovementOps =>
        /\ job'[t].op = job[t].op /\ job'[t].doc = job[t].doc /\ job'[t].arg = job[t].arg
        /\ ~job'[t].doomed => ~job[t].doomed
        /\ job[t].doc \in Movements
  BY DEF Keeps, TypeInv, JobShape, Shaped
<1>2. MovementRowsFit'
  BY DEF MovementInv, MovementRowsFit, MovementRowFits, Untouched
<1>3. \A m : Dependents(m)' = Dependents(m)
  BY DEF Dependents, Live
<1>4. ASSUME NEW t \in Sessions PROVE Sees(t)'
  <2>1. CASE job'[t].op \notin MovementOps
    BY <2>1 DEF Sees, Undoomed, MovementOps, Serializable
  <2>2. CASE job'[t].op \in MovementOps
    <3>1. Sees(t) /\ fact'[job[t].doc] = fact[job[t].doc]
      BY <1>1, <2>2 DEF MovementInv, Snapshots, Untouched
    <3> QED BY <1>1, <1>3, <2>2, <3>1 DEF Sees, Undoomed, Live
  <2> QED BY <2>1, <2>2
<1>5. \A m \in Movements : mov[m].of \in Movements \cup {NoDoc}
  BY DEF TypeInv, TypeOK, MovementRows
<1>6. MovementLedger'
  BY <1>5 DEF MovementInv, MovementLedger, MovementEffect, Untouched
<1> QED BY <1>2, <1>4, <1>6 DEF MovementInv, Snapshots

\* What a request on another document than m sees.
Spares(m) ==
    \A t \in Sessions : job'[t].op \in MovementOps =>
        /\ job'[t].op = job[t].op /\ job'[t].doc = job[t].doc /\ job'[t].arg = job[t].arg
        /\ job'[t].op \in Serializable /\ ~job'[t].doomed => ~job[t].doomed /\ job[t].doc # m

\* Nobody is taking back m.
NoReverser(m) ==
    \A t \in Sessions : job'[t].op \in {"reopen", "reverseMovement"} /\ ~job'[t].doomed => job[t].doc # m

\* The row of m becomes row, and the sum of its facts f.
Revised(m, row, f) ==
    /\ mov' = [mov EXCEPT ![m] = row]
    /\ fact'[m] = f
    /\ \A d \in Movements \ {m} : fact'[d] = fact[d]
    /\ overtaken \subseteq overtaken' /\ overtaken' \subseteq overtaken \cup {m}

RowOk(row, f) ==
    /\ row.status # "none" /\ row.kind \in {"issue", "return", "scrap"}
    /\ row.deleted => row.status = "draft"
    /\ ~row.deleted => row.qty > 0
    /\ row.kind = "issue" => row.of = NoDoc /\ f <= 0
    /\ row.kind \in {"issue", "return"} => row.cat = "raw_material"
    /\ row.kind = "scrap" => row.cat = "scrap"

BooksOk(row, f) ==
    f = IF row.status \notin {"posted", "reversed"} THEN 0
        ELSE IF row.kind = "return" THEN row.qty ELSE -row.qty

LEMMA MovementChange ==
    ASSUME TypeInv, MovementInv, NEW m \in Movements, NEW row \in MovementRows, NEW f \in Int,
           Revised(m, row, f), RowOk(row, f), m \notin overtaken' => BooksOk(row, f), Spares(m),
           mov[m].kind # "reversal", mov[m].kind = "issue" => row.kind = "issue",
           row.kind \in {"return", "scrap"} /\ row.of # NoDoc => row.of # m /\ mov[row.of].kind = "issue",
           mov[m].status = "reversed" => m \in overtaken',
           m \in overtaken' => row.kind = "issue",
           row.status = "posted" /\ row.of # NoDoc => NoReverser(row.of)
    PROVE  MovementInv'
<1>1. \A d \in Movements : mov'[d] = IF d = m THEN row ELSE mov[d]
  BY DEF Revised, TypeInv, TypeOK
<1>2. \A d \in Movements : mov[d].of \in Movements \cup {NoDoc} /\ row.of \in Movements \cup {NoDoc}
  BY DEF TypeInv, TypeOK, MovementRows
<1>3. ASSUME NEW d \in Movements PROVE MovementRowFits(d)'
  <2>1. CASE d = m
    BY <1>1, <1>2, <2>1 DEF MovementRowFits, RowOk, Revised
  <2>2. CASE d # m
    <3>1. mov'[d] = mov[d] /\ fact'[d] = fact[d] /\ (d \in overtaken' <=> d \in overtaken)
      BY <1>1, <2>2 DEF Revised
    <3>2. MovementRowFits(d)
      BY DEF MovementInv, MovementRowsFit
    <3>3. d \in overtaken' => mov'[d].kind = "issue"
      BY <3>1, <3>2 DEF MovementRowFits
    <3>4. mov'[d].kind = "reversal" /\ mov'[d].of # NoDoc =>
            mov'[mov'[d].of].status = "reversed" \/ mov'[d].of \in overtaken'
      BY <1>1, <1>2, <3>1, <3>2 DEF MovementRowFits, Revised
    <3>5. mov'[d].kind \in {"return", "scrap"} /\ mov'[d].of # NoDoc => mov'[mov'[d].of].kind = "issue"
      BY <1>1, <1>2, <3>1, <3>2 DEF MovementRowFits
    <3> QED BY <3>1, <3>2, <3>3, <3>4, <3>5 DEF MovementRowFits
  <2> QED BY <2>1, <2>2
<1>4. ASSUME NEW d \in Movements \ overtaken',
             mov'[d].kind = "reversal" => mov'[d].of \notin overtaken' \cup {NoDoc}
      PROVE  fact'[d] = MovementEffect(d)'
  <2>1. CASE d = m
    BY <1>1, <1>4, <2>1 DEF BooksOk, MovementEffect, RowOk, Revised
  <2>2. CASE d # m
    <3>1. mov'[d] = mov[d] /\ fact'[d] = fact[d] /\ d \notin overtaken
      BY <1>1, <1>4, <2>2 DEF Revised
    <3>2. mov[d].kind = "reversal" => mov[d].of # m /\ mov[d].of \in Movements /\ mov[d].of \notin overtaken
      BY <1>2, <1>4, <3>1 DEF MovementInv, MovementRowsFit, MovementRowFits, Revised
    <3>3. fact[d] = MovementEffect(d)
      BY <3>1, <3>2 DEF MovementInv, MovementLedger
    <3> QED BY <3>1, <3>2, <3>3 DEF MovementEffect, Revised
  <2> QED BY <2>1, <2>2
<1>5. ASSUME NEW t \in Sessions PROVE Sees(t)'
  <2>1. CASE job'[t].op \notin MovementOps
    BY <2>1 DEF Sees, Undoomed, MovementOps, Serializable
  <2>2. CASE job'[t].op = "withdraw"
    <3>1. job'[t].doc = job[t].doc /\ job[t].op = "withdraw" /\ job[t].doc \in Movements
      BY <2>2 DEF Spares, TypeInv, JobShape, Shaped, MovementOps
    <3>2. mov[job[t].doc].kind = "issue"
      BY <2>2, <3>1 DEF MovementInv, Snapshots, Sees
    <3>3. "withdraw" \notin Serializable
      BY DEF Serializable
    <3> QED BY <1>1, <2>2, <3>1, <3>2, <3>3 DEF Sees, Undoomed, Serializable
  <2>3. CASE job'[t].op \in Serializable /\ ~job'[t].doomed
    <3>0. PICK x : x = job[t].doc
      OBVIOUS
    <3>1. /\ job'[t].op = job[t].op /\ job'[t].doc = x /\ job'[t].arg = job[t].arg
          /\ ~job[t].doomed /\ x # m /\ x \in Movements
      BY <2>3, <3>0 DEF Spares, TypeInv, JobShape, Shaped, MovementOps
    <3>2. mov'[x] = mov[x] /\ fact'[x] = fact[x] /\ Sees(t)
      BY <1>1, <3>0, <3>1 DEF Revised, MovementInv, Snapshots
    <3>3. row.status = "posted" /\ job[t].op \in {"reopen", "reverseMovement"} => row.of # x
      BY <1>2, <2>3, <3>0, <3>1 DEF NoReverser
    <3>4. ASSUME Dependents(x) = {}, job[t].op \in {"reopen", "reverseMovement"} PROVE Dependents(x)' = {}
      BY <1>1, <3>3, <3>4 DEF Dependents, Live
    <3>5. (Live(x, "posted") <=> Live(x, "posted")') /\ (Live(x, "draft") <=> Live(x, "draft")')
          /\ (Live(x, "pending_outbound") <=> Live(x, "pending_outbound")')
      BY <3>2 DEF Live
    <3> QED BY <2>3, <3>0, <3>1, <3>2, <3>4, <3>5 DEF Sees, Undoomed, Serializable
  <2>4. CASE job'[t].op \in Serializable /\ job'[t].doomed
    BY <2>4 DEF Sees, Undoomed, Serializable
  <2> QED BY <2>1, <2>2, <2>3, <2>4 DEF MovementOps
<1> QED BY <1>3, <1>4, <1>5 DEF MovementInv, MovementRowsFit, MovementLedger, Snapshots

\* A request begins and sees the document as it is.
LEMMA MovementBegun ==
    ASSUME TypeInv, MovementInv, NEW s \in Sessions, NEW m \in Movements, NEW op \in MovementOps, NEW arg \in Int,
           Start(s, op, m, arg), UNCHANGED <<tables, desk, past>>,
           op = "postIssue" => mov[m].kind = "issue" /\ Live(m, "pending_outbound"),
           op = "postDerived" => mov[m].kind \in {"return", "scrap"} /\ Live(m, "draft"),
           op \in {"reopen", "withdraw"} => mov[m].kind = "issue",
           op \in {"reopen", "reverseMovement"} =>
             /\ Live(m, "posted") /\ arg = fact[m]
             /\ mov[m].kind = "issue" => Dependents(m) = {}
    PROVE  MovementInv'
<1>1. \A t \in Sessions : t # s => job'[t] = job[t]
  BY StartKeeps
<1>2. job'[s].op = op /\ job'[s].doc = m /\ job'[s].arg = arg
  BY StartKeeps
<1>3. UNCHANGED <<mov, fact, overtaken>>
  BY DEF tables, past
<1>4. MovementRowsFit' /\ MovementLedger'
  BY <1>3 DEF MovementInv, MovementRowsFit, MovementRowFits, MovementLedger, MovementEffect
<1>5. \A x : Dependents(x)' = Dependents(x)
  BY <1>3 DEF Dependents, Live
<1>6. ASSUME NEW t \in Sessions PROVE Sees(t)'
  <2>1. CASE t = s
    BY <1>2, <1>3, <1>5, <2>1 DEF Sees, Undoomed, Live
  <2>2. CASE t # s
    <3>1. Sees(t) /\ job'[t] = job[t]
      BY <1>1, <2>2 DEF MovementInv, Snapshots
    <3> QED BY <1>3, <1>5, <3>1 DEF Sees, Undoomed, Live
  <2> QED BY <2>1, <2>2
<1> QED BY <1>4, <1>6 DEF MovementInv, Snapshots

\* Nobody saw a document that does not exist yet.
LEMMA NoneSpared ==
    ASSUME TypeInv, MovementInv, NEW m \in Movements, mov[m].status = "none", UNCHANGED job
    PROVE  Spares(m) /\ m \notin overtaken /\ fact[m] = 0 /\ mov[m].kind = "none"
<1>1. MovementRowFits(m) /\ mov[m].kind = "none"
  <2>1. MovementRowFits(m)
    BY DEF MovementInv, MovementRowsFit
  <2>2. mov[m] = NoMovement
    BY <2>1 DEF MovementRowFits
  <2> QED BY <2>1, <2>2 DEF NoMovement
<1>2. m \notin overtaken
  BY <1>1 DEF MovementRowFits
<1>3. fact[m] = 0
  BY <1>1, <1>2 DEF MovementInv, MovementLedger, MovementEffect
<1>4. ASSUME NEW t \in Sessions, job[t].op \in Serializable, ~job[t].doomed PROVE job[t].doc # m
  <2>1. Sees(t)
    BY DEF MovementInv, Snapshots
  <2> QED BY <1>4, <2>1 DEF Sees, Undoomed, Live, Serializable
<1> QED BY <1>1, <1>2, <1>3, <1>4 DEF Spares

LEMMA OverwriteLeaves ==
    ASSUME TypeInv, NEW m, NEW idle, Overwrites(m, idle)
    PROVE  Spares(m)
<1>1. Keeps(MovementOps)
  BY OverwriteDooms, DoomKeeps, KeepsFewer, MovementOpsKnown
<1> QED BY <1>1, OverwriteSpares DEF Spares, Keeps

LEMMA CommitLeaves ==
    ASSUME TypeInv, NEW s \in Sessions, CommitSerializable(s), job[s].op \in Serializable
    PROVE  Spares(job[s].doc)
<1>1. Keeps(MovementOps)
  BY CommitDooms, DoomKeeps, KeepsFewer, MovementOpsKnown
<1> QED BY <1>1, CommitSpares DEF Spares, Keeps

LEMMA RevisedRow ==
    ASSUME TypeInv, NEW m \in Movements, NEW row, mov' = [mov EXCEPT ![m] = row], UNCHANGED fact,
           overtaken \subseteq overtaken', overtaken' \subseteq overtaken \cup {m}
    PROVE  Revised(m, row, fact[m])
BY DEF Revised

\* A draft carries no facts, unless a withdrawal made it one.
LEMMA DraftFacts ==
    ASSUME TypeInv, MovementInv, NEW m \in Movements, mov[m].status \in {"none", "draft", "pending_outbound"}
    PROVE  /\ m \notin overtaken => fact[m] = 0
           /\ mov[m].kind # "reversal"
           /\ mov[m].kind = "issue" => fact[m] <= 0
<1>1. MovementRowFits(m)
  BY DEF MovementInv, MovementRowsFit
<1>2. mov[m].kind # "reversal"
  BY <1>1 DEF MovementRowFits
<1>3. MovementEffect(m) = 0
  BY DEF MovementEffect
<1>4. m \notin overtaken => fact[m] = 0
  BY <1>2, <1>3 DEF MovementInv, MovementLedger
<1> QED BY <1>1, <1>2, <1>4 DEF MovementRowFits

LEMMA OutboundInv == ASSUME TypeInv, MovementInv, OutboundStep, UNCHANGED count PROVE MovementInv'
<1>1. \A m \in Movements : MovementRowFits(m) /\ mov[m] \in MovementRows /\ fact[m] \in Int
  BY MovementTyped DEF MovementInv, MovementRowsFit
<1>2. ASSUME NEW m \in Movements, NEW q \in Qty, CreateIssue(m, q) PROVE MovementInv'
  <2> DEFINE row == [NoMovement EXCEPT !.kind = "issue", !.status = "draft", !.qty = q]
  <2>1. /\ row.kind = "issue" /\ row.status = "draft" /\ row.deleted = FALSE /\ row.qty = q /\ row.of = NoDoc
        /\ row.cat = "raw_material"
    BY DEF NoMovement
  <2>2. row \in MovementRows
    BY QtyRange DEF MovementRows, NoMovement
  <2>3. mov' = [mov EXCEPT ![m] = row] /\ UNCHANGED <<fact, job, overtaken>> /\ mov[m].status = "none"
    BY <1>2 DEF CreateIssue, past
  <2>4. Spares(m) /\ m \notin overtaken /\ fact[m] = 0 /\ mov[m].kind = "none"
    BY <2>3, NoneSpared
  <2>5. Revised(m, row, fact[m])
    BY <2>3, RevisedRow
  <2>6. RowOk(row, fact[m]) /\ BooksOk(row, fact[m])
    BY <2>1, <2>4 DEF RowOk, BooksOk, Qty
  <2>7. row.kind = "issue" /\ row.status = "draft"
    BY <2>1
  <2> HIDE DEF row
  <2> QED BY <1>1, <2>2, <2>3, <2>4, <2>5, <2>6, <2>7, MovementChange
<1>3. ASSUME NEW m \in Movements, SubmitOutbound(m) PROVE MovementInv'
  <2> DEFINE row == [mov[m] EXCEPT !.status = "pending_outbound"]
  <2>1. mov' = [mov EXCEPT ![m] = row] /\ UNCHANGED <<fact, overtaken>> /\ mov[m].kind = "issue" /\ Live(m, "draft")
        /\ Spares(m)
    BY <1>3, OverwriteLeaves DEF SubmitOutbound, IsDraft, past
  <2>2. /\ row \in MovementRows /\ row.status = "pending_outbound" /\ row.kind = "issue" /\ row.deleted = mov[m].deleted
        /\ row.qty = mov[m].qty /\ row.of = mov[m].of /\ row.cat = mov[m].cat
    BY <1>1, <2>1 DEF MovementRows
  <2>3. Revised(m, row, fact[m])
    BY <2>1, RevisedRow
  <2>4. (m \notin overtaken => fact[m] = 0) /\ fact[m] <= 0
    BY <2>1, DraftFacts DEF Live
  <2> HIDE DEF row
  <2>5. RowOk(row, fact[m]) /\ (m \notin overtaken => BooksOk(row, fact[m]))
    BY <1>1, <2>1, <2>2, <2>4 DEF RowOk, BooksOk, MovementRowFits, Live
  <2> QED BY <1>1, <2>1, <2>2, <2>3, <2>5, MovementChange DEF Live
<1>4. ASSUME NEW s \in Sessions, NEW m \in Movements, PostOutboundBegin(s, m) PROVE MovementInv'
  BY <1>4, MovementBegun DEF PostOutboundBegin, MovementOps, Serializable
<1>5. ASSUME NEW s \in Sessions, PostCommit(s) PROVE MovementInv'
  <2>1. PICK m : m = job[s].doc
    OBVIOUS
  <2> DEFINE row == [mov[m] EXCEPT !.status = "posted"]
             f == fact[m] + Effect(job[s])
  <2>2. job[s].op \in {"postIssue", "postDerived"} /\ job[s].op \in Serializable /\ job[s].op \in MovementOps
        /\ CommitSerializable(s) /\ ~job[s].doomed
    BY <1>5 DEF PostCommit, CommitSerializable, Serializable, MovementOps
  <2>3. m \in Movements /\ Effect(job[s]) \in Int /\ Spares(m) /\ f \in Int /\ m \in Booked
    BY <1>1, <2>1, <2>2, MovementJob, EffectTyped, CommitLeaves, MovementTyped
  <2>4. /\ job[s].op = "postIssue" => mov[m].kind = "issue" /\ Live(m, "pending_outbound")
        /\ job[s].op = "postDerived" => mov[m].kind \in {"return", "scrap"} /\ Live(m, "draft")
    BY <2>1, <2>2 DEF MovementInv, Snapshots, Sees, Undoomed
  <2>5. /\ row \in MovementRows /\ row.status = "posted" /\ row.kind = mov[m].kind /\ row.deleted = mov[m].deleted
        /\ row.qty = mov[m].qty /\ row.of = mov[m].of /\ row.cat = mov[m].cat
    BY <1>1, <2>3 DEF MovementRows
  <2>6. Effect(job[s]) = IF mov[m].kind = "return" THEN mov[m].qty ELSE -mov[m].qty
    BY <2>1, <2>2, <2>4 DEF Effect
  <2>7. (m \notin overtaken => fact[m] = 0) /\ (mov[m].kind = "issue" => fact[m] <= 0)
    BY <2>2, <2>3, <2>4, DraftFacts DEF Live
  <2>8. Revised(m, row, f)
    <3>1. mov' = [mov EXCEPT ![m] = row] /\ fact' = [fact EXCEPT ![m] = f] /\ UNCHANGED overtaken
      BY <1>5, <2>1 DEF PostCommit, past
    <3>2. Movements \subseteq Booked
      BY DEF Booked
    <3> HIDE DEF row, f
    <3> QED BY <2>3, <3>1, <3>2, FactChange DEF Revised
  <2>9. UNCHANGED overtaken
    BY <1>5 DEF PostCommit, past
  <2>10. mov[m].qty > 0 /\ mov[m].qty \in Int
    BY <1>1, <2>2, <2>3, <2>4, MovementTyped DEF MovementRowFits, Live
  <2>11. RowOk(row, f) /\ (m \notin overtaken => BooksOk(row, f))
    <3> HIDE DEF row
    <3> QED BY <1>1, <2>2, <2>3, <2>4, <2>5, <2>6, <2>7, <2>10 DEF RowOk, BooksOk, MovementRowFits, Live
  <2>12. row.kind \in {"return", "scrap"} /\ row.of # NoDoc => row.of # m /\ mov[row.of].kind = "issue"
    <3> HIDE DEF row
    <3> QED BY <1>1, <2>3, <2>4, <2>5 DEF MovementRowFits
  <2>13. row.of # NoDoc => NoReverser(row.of)
    <3>1. SUFFICES ASSUME mov[m].of # NoDoc PROVE NoReverser(mov[m].of)
      BY <2>5
    <3> DEFINE of == mov[m].of
    <3>2. job[s].op = "postDerived" /\ mov[m].kind \in {"return", "scrap"} /\ mov[of].kind = "issue"
      BY <1>1, <2>2, <2>3, <2>4, <3>1 DEF MovementRowFits
    <3>4. ASSUME NEW t \in Sessions, job'[t].op \in {"reopen", "reverseMovement"}, ~job'[t].doomed, job[t].doc = of
          PROVE  FALSE
      <4>1. job[t].op \in {"reopen", "reverseMovement"} /\ job[t].op \in Serializable /\ ~Conflict(job[s], job[t])
        BY <2>2, <3>4, CommitSpares DEF Serializable
      <4>2. Row(of) \in Reads(job[s]) /\ Derived(of) \in Reads(job[s]) /\ Derived(of) \in Writes(job[s])
        BY <2>1, <3>1, <3>2 DEF Reads, Writes, SourceOf
      <4>3. Row(of) \in Writes(job[t])
        BY <3>4 DEF Writes
      <4>4. Derived(of) \in Reads(job[t])
        BY <3>2, <3>4, <4>1 DEF Reads
      <4> QED BY <2>2, <4>1, <4>2, <4>3, <4>4 DEF Conflict
    <3> QED BY <3>4 DEF NoReverser
  <2> HIDE DEF row, f
  <2> QED BY <1>1, <2>2, <2>3, <2>4, <2>5, <2>8, <2>9, <2>11, <2>12, <2>13, MovementChange DEF Live, MovementRowFits
<1> QED BY <1>2, <1>3, <1>4, <1>5 DEF OutboundStep

\* UpdateIssue rewrites a draft and detaches what was derived from it.
LEMMA UpdateIssueInv ==
    ASSUME TypeInv, MovementInv, NEW m \in Movements, NEW q \in Qty, UpdateIssue(m, q)
    PROVE  MovementInv'
<1>1. \A d \in Movements : MovementRowFits(d) /\ mov[d] \in MovementRows /\ fact[d] \in Int
  BY MovementTyped DEF MovementInv, MovementRowsFit
<1>2. UNCHANGED <<fact, overtaken>> /\ mov[m].status = "draft" /\ ~mov[m].deleted /\ Spares(m) /\ q > 0
  BY OverwriteLeaves DEF UpdateIssue, past, IsDraft, Live, Qty
<1>3. \A d \in Movements :
        /\ mov'[d].status = mov[d].status /\ mov'[d].kind = mov[d].kind /\ mov'[d].deleted = mov[d].deleted
        /\ mov'[d].cat = mov[d].cat
        /\ mov'[d].qty = IF d = m THEN q ELSE mov[d].qty
        /\ mov'[d].of \in {mov[d].of, NoDoc} /\ (d = m \/ mov[d].of = m => mov'[d].of = NoDoc)
        /\ d # m /\ mov[d].of # m => mov'[d] = mov[d]
  BY <1>1 DEF UpdateIssue, MovementRows
<1>4. mov[m].kind # "reversal" /\ mov[m].kind # "none"
  <2>1. MovementRowFits(m)
    BY <1>1
  <2>2. mov[m] # NoMovement
    BY <1>2 DEF NoMovement
  <2>3. NoMovement.status = "none"
    BY DEF NoMovement
  <2> QED BY <1>2, <2>1, <2>2, <2>3 DEF MovementRowFits
<1>5. \A d \in Movements : mov[d].of \in Movements \cup {NoDoc}
  BY <1>1 DEF MovementRows
<1>6. ASSUME NEW d \in Movements PROVE MovementRowFits(d)'
  <2>1. mov'[d].status = "none" => mov'[d] = NoMovement
    <3>1. mov[d].status = "none" => mov[d].of # m /\ d # m
      BY <1>1, <1>2 DEF MovementRowFits, NoMovement
    <3> QED BY <1>1, <1>3, <3>1 DEF MovementRowFits
  <2>2. MovementRowFits(d)
    BY <1>1
  <2>3. mov'[d].kind \in {"return", "scrap", "reversal"} /\ mov'[d].of # NoDoc => mov'[d].of = mov[d].of
    BY <1>3
  <2>4. \A x \in Movements : mov'[x].kind = mov[x].kind /\ mov'[x].status = mov[x].status
    BY <1>3
  <2>5. mov'[d].kind # "none" /\ ~mov'[d].deleted => mov'[d].qty > 0
    BY <1>2, <1>3, <2>2 DEF MovementRowFits
  <2> QED BY <1>2, <1>3, <1>5, <2>1, <2>2, <2>3, <2>4, <2>5 DEF MovementRowFits
<1>7. ASSUME NEW d \in Movements \ overtaken',
             mov'[d].kind = "reversal" => mov'[d].of \notin overtaken' \cup {NoDoc}
      PROVE  fact'[d] = MovementEffect(d)'
  <2>1. CASE d = m
    BY <1>2, <1>3, <1>4, <1>7, <2>1 DEF MovementEffect, MovementInv, MovementLedger
  <2>2. CASE d # m
    <3>1. mov'[d].kind = "reversal" => mov'[d].of = mov[d].of
      BY <1>3, <1>7
    <3>2. fact[d] = MovementEffect(d)
      BY <1>2, <1>3, <1>7, <3>1 DEF MovementInv, MovementLedger
    <3> QED BY <1>2, <1>3, <2>2, <3>1, <3>2 DEF MovementEffect
  <2> QED BY <2>1, <2>2
<1>8. ASSUME NEW x, Dependents(x) = {}, x # NoDoc PROVE Dependents(x)' = {}
  BY <1>3, <1>8 DEF Dependents, Live
<1>9. ASSUME NEW t \in Sessions PROVE Sees(t)'
  <2>1. CASE job'[t].op \notin MovementOps
    BY <2>1 DEF Sees, Undoomed, MovementOps, Serializable
  <2>2. CASE job'[t].op \in MovementOps
    <3>1. PICK x : x = job[t].doc
      OBVIOUS
    <3>2. job'[t].op = job[t].op /\ job'[t].doc = x /\ job'[t].arg = job[t].arg /\ x \in Movements
      BY <1>2, <2>2, <3>1 DEF Spares, TypeInv, JobShape, Shaped
    <3>3. ~job'[t].doomed /\ job'[t].op \in Serializable => ~job[t].doomed
      BY <1>2, <2>2 DEF Spares
    <3>4. Sees(t)
      BY DEF MovementInv, Snapshots
    <3> QED BY <1>2, <1>3, <1>8, <3>1, <3>2, <3>3, <3>4 DEF Sees, Undoomed, Live, Serializable
  <2> QED BY <2>1, <2>2
<1> QED BY <1>6, <1>7, <1>9 DEF MovementInv, MovementRowsFit, MovementLedger, Snapshots

\* ReverseCommit marks a posted document and enters its opposite.
LEMMA ReverseCommitInv ==
    ASSUME TypeInv, MovementInv, NEW s \in Sessions, NEW r \in Movements, ReverseCommit(s, r)
    PROVE  MovementInv'
<1>1. \A d \in Movements : MovementRowFits(d) /\ mov[d] \in MovementRows /\ fact[d] \in Int /\ d \in Booked
  BY MovementTyped DEF MovementInv, MovementRowsFit
<1>2. PICK m : m = job[s].doc
  OBVIOUS
<1>3. job[s].op = "reverseMovement" /\ job[s].op \in Serializable /\ job[s].op \in MovementOps
      /\ CommitSerializable(s) /\ ~job[s].doomed /\ UNCHANGED overtaken /\ mov[r].status = "none"
  BY DEF ReverseCommit, Working, CommitSerializable, Serializable, MovementOps, past
<1>4. m \in Movements /\ Live(m, "posted") /\ job[s].arg = fact[m] /\ Spares(m)
  BY <1>2, <1>3, MovementJob, CommitLeaves DEF MovementInv, Snapshots, Sees, Undoomed
<1>5. mov[r].kind = "none" /\ r \notin overtaken /\ r # m
  <2>1. mov[r] = NoMovement
    BY <1>1, <1>3 DEF MovementRowFits
  <2> QED BY <1>1, <1>3, <1>4, <2>1 DEF MovementRowFits, NoMovement, Live
<1>6. /\ \A d \in Movements : d # m /\ d # r => mov'[d] = mov[d]
      /\ mov'[m].status = "reversed" /\ mov'[m].kind = mov[m].kind /\ mov'[m].deleted = mov[m].deleted
      /\ mov'[m].qty = mov[m].qty /\ mov'[m].of = mov[m].of /\ mov'[m].cat = mov[m].cat
      /\ mov'[r].status = "posted" /\ mov'[r].kind = "reversal" /\ mov'[r].deleted = FALSE
      /\ mov'[r].qty = mov[m].qty /\ mov'[r].of = m /\ mov'[r].cat = mov[m].cat
  <2> DEFINE row == [kind |-> "reversal", status |-> "posted", deleted |-> FALSE,
                     qty |-> mov[m].qty, of |-> m, cat |-> mov[m].cat]
  <2>1. mov \in [Movements -> MovementRows] /\ mov' = [mov EXCEPT ![m].status = "reversed", ![r] = row]
    BY <1>2 DEF ReverseCommit, TypeInv, TypeOK
  <2>2. /\ row.status = "posted" /\ row.kind = "reversal" /\ row.deleted = FALSE
        /\ row.qty = mov[m].qty /\ row.of = m /\ row.cat = mov[m].cat
    OBVIOUS
  <2> HIDE DEF row
  <2> QED BY <1>1, <1>4, <1>5, <2>1, <2>2 DEF MovementRows
<1>7. fact'[r] = -fact[m] /\ \A d \in Movements : d # r => fact'[d] = fact[d]
  <2>1. Effect(job[s]) = -fact[m] /\ -fact[m] \in Int
    BY <1>1, <1>3, <1>4 DEF Effect
  <2>2. fact' = [fact EXCEPT ![r] = -fact[m]]
    BY <2>1 DEF ReverseCommit
  <2> QED BY <1>1, <2>1, <2>2, FactChange
<1>8. \A d \in Movements : mov[d].of \in Movements \cup {NoDoc}
  BY <1>1 DEF MovementRows
<1>9. mov[m].kind # "none" /\ ~mov[m].deleted
  <2>1. NoMovement.status = "none"
    BY DEF NoMovement
  <2> QED BY <1>1, <1>4, <2>1 DEF MovementRowFits, Live
<1>10. ASSUME NEW d \in Movements PROVE MovementRowFits(d)'
  <2>1. MovementRowFits(d)
    BY <1>1
  <2>2. CASE d = r
    BY <1>1, <1>3, <1>4, <1>5, <1>6, <1>9, <2>2 DEF MovementRowFits
  <2>3. CASE d = m
    <3>1. mov[m].of # NoDoc /\ mov[m].kind \in {"return", "scrap", "reversal"} => mov[m].of # r
      BY <1>1, <1>3, <1>4, <1>5 DEF MovementRowFits
    <3>2. mov[m].of # NoDoc /\ mov[m].kind = "reversal" => mov'[mov[m].of].status = "reversed" \/ mov[m].of \in overtaken
      BY <1>4, <1>6, <1>8, <2>1, <2>3, <3>1 DEF MovementRowFits
    <3>3. mov[m].of # NoDoc /\ mov[m].kind \in {"return", "scrap"} => mov'[mov[m].of].kind = "issue"
      BY <1>4, <1>6, <1>8, <2>1, <2>3, <3>1 DEF MovementRowFits
    <3> QED BY <1>3, <1>5, <1>6, <1>7, <1>9, <2>1, <2>3, <3>2, <3>3 DEF MovementRowFits
  <2>4. CASE d # r /\ d # m
    <3>1. mov[d].of # NoDoc /\ mov[d].kind \in {"return", "scrap", "reversal"} => mov[d].of # r
      BY <1>1, <1>3, <1>5 DEF MovementRowFits
    <3>2. mov[d].of # NoDoc /\ mov[d].kind = "reversal" => mov'[mov[d].of].status = "reversed" \/ mov[d].of \in overtaken
      BY <1>6, <1>8, <2>1, <3>1 DEF MovementRowFits
    <3>3. mov[d].of # NoDoc /\ mov[d].kind \in {"return", "scrap"} => mov'[mov[d].of].kind = "issue"
      BY <1>6, <1>8, <2>1, <3>1 DEF MovementRowFits
    <3> QED BY <1>3, <1>6, <1>7, <2>1, <2>4, <3>2, <3>3 DEF MovementRowFits
  <2> QED BY <2>2, <2>3, <2>4
<1>11. ASSUME NEW d \in Movements \ overtaken',
              mov'[d].kind = "reversal" => mov'[d].of \notin overtaken' \cup {NoDoc}
       PROVE  fact'[d] = MovementEffect(d)'
  <2>1. CASE d = r
    BY <1>4, <1>5, <1>6, <1>7, <2>1 DEF MovementEffect
  <2>2. CASE d # r
    <3>1. mov'[d].kind = mov[d].kind /\ mov'[d].of = mov[d].of /\ mov'[d].qty = mov[d].qty
          /\ (mov'[d].status \in {"posted", "reversed"} <=> mov[d].status \in {"posted", "reversed"})
      BY <1>4, <1>6, <2>2 DEF Live
    <3>2. fact[d] = MovementEffect(d)
      BY <1>3, <1>11, <3>1 DEF MovementInv, MovementLedger
    <3>3. mov[d].kind = "reversal" => mov[d].of # r /\ mov[d].of \in Movements
      BY <1>1, <1>3, <1>5, <1>8, <1>11, <3>1 DEF MovementRowFits
    <3> QED BY <1>7, <2>2, <3>1, <3>2, <3>3 DEF MovementEffect
  <2> QED BY <2>1, <2>2
<1>12. ASSUME NEW t \in Sessions PROVE Sees(t)'
  <2>1. CASE job'[t].op \notin MovementOps
    BY <2>1 DEF Sees, Undoomed, MovementOps, Serializable
  <2>2. CASE job'[t].op \in MovementOps
    <3>1. PICK x : x = job[t].doc
      OBVIOUS
    <3>2. job'[t].op = job[t].op /\ job'[t].doc = x /\ job'[t].arg = job[t].arg /\ x \in Movements
      BY <1>4, <2>2, <3>1 DEF Spares, TypeInv, JobShape, Shaped
    <3>3. ~job'[t].doomed /\ job'[t].op \in Serializable => ~job[t].doomed /\ x # m
      BY <1>4, <2>2, <3>1 DEF Spares
    <3>4. Sees(t)
      BY DEF MovementInv, Snapshots
    <3>5. ~job'[t].doomed /\ job'[t].op \in Serializable => x # r
      BY <1>3, <3>1, <3>2, <3>3, <3>4 DEF Sees, Undoomed, Live, Serializable
    <3>6. job'[t].op = "withdraw" => x # r
      BY <1>5, <3>1, <3>2, <3>4 DEF Sees
    <3>7. ASSUME x # m, Dependents(x) = {} PROVE Dependents(x)' = {}
      BY <1>6, <3>7 DEF Dependents, Live
    <3>8. CASE ~job'[t].doomed /\ job'[t].op \in Serializable
      <4>1. mov'[x] = mov[x] /\ fact'[x] = fact[x]
        BY <1>6, <1>7, <3>2, <3>3, <3>5, <3>8
      <4> QED BY <3>1, <3>2, <3>3, <3>4, <3>7, <3>8, <4>1 DEF Sees, Undoomed, Live, Serializable
    <3>9. CASE job'[t].op = "withdraw"
      <4>1. mov'[x].kind = mov[x].kind
        BY <1>6, <3>2, <3>6, <3>9
      <4> QED BY <3>1, <3>2, <3>4, <3>9, <4>1 DEF Sees, Undoomed
    <3>10. CASE job'[t].doomed /\ job'[t].op \in Serializable
      BY <3>10 DEF Sees, Undoomed, Serializable
    <3> QED BY <2>2, <3>8, <3>9, <3>10 DEF MovementOps
  <2> QED BY <2>1, <2>2
<1> QED BY <1>10, <1>11, <1>12 DEF MovementInv, MovementRowsFit, MovementLedger, Snapshots

LEMMA CorrectingInv == ASSUME TypeInv, MovementInv, CorrectingStep, UNCHANGED count PROVE MovementInv'
<1>1. \A m \in Movements : MovementRowFits(m) /\ mov[m] \in MovementRows /\ fact[m] \in Int /\ m \in Booked
  BY MovementTyped DEF MovementInv, MovementRowsFit
<1>2. ASSUME NEW m \in Movements, NEW of \in Movements, NEW kind \in {"return", "scrap"}, NEW q \in Qty,
             CreateDerived(m, kind, of, q)
      PROVE  MovementInv'
  <2> DEFINE row == [NoMovement EXCEPT !.kind = kind, !.status = "draft", !.qty = q, !.of = of,
                                       !.cat = IF kind = "return" THEN "raw_material" ELSE "scrap"]
  <2>1. /\ row.kind = kind /\ row.status = "draft" /\ row.deleted = FALSE /\ row.qty = q /\ row.of = of
        /\ row.cat = IF kind = "return" THEN "raw_material" ELSE "scrap"
    BY DEF NoMovement
  <2>2. row \in MovementRows
    BY QtyRange DEF MovementRows, NoMovement
  <2>3. mov' = [mov EXCEPT ![m] = row] /\ UNCHANGED <<fact, job, overtaken>> /\ mov[m].status = "none"
    BY <1>2 DEF CreateDerived, past
  <2>4. Spares(m) /\ m \notin overtaken /\ fact[m] = 0 /\ mov[m].kind = "none"
    BY <2>3, NoneSpared
  <2>5. Revised(m, row, fact[m])
    BY <2>3, RevisedRow
  <2> HIDE DEF row
  <2>6. RowOk(row, fact[m]) /\ BooksOk(row, fact[m])
    BY <2>1, <2>4 DEF RowOk, BooksOk, Qty
  <2>7. mov[of].kind = "issue" /\ of # m
    BY <1>2, <2>4 DEF CreateDerived, DerivedLinesFit
  <2> QED BY <1>1, <2>1, <2>2, <2>3, <2>4, <2>5, <2>6, <2>7, MovementChange
<1>3. ASSUME NEW m \in Movements, RemoveIssue(m) PROVE MovementInv'
  <2> DEFINE row == [mov[m] EXCEPT !.deleted = TRUE, !.qty = 0, !.of = NoDoc]
  <2>1. mov' = [mov EXCEPT ![m] = row] /\ UNCHANGED <<fact, overtaken>> /\ mov[m].status = "draft" /\ Spares(m)
    BY <1>3, OverwriteLeaves DEF RemoveIssue, IsDraft, Live, past
  <2>2. /\ row.status = "draft" /\ row.kind = mov[m].kind /\ row.deleted
        /\ row.of = NoDoc /\ row.cat = mov[m].cat
    BY <1>1, <2>1 DEF MovementRows
  <2>3. row \in MovementRows
    BY <1>1, QtyRange DEF MovementRows
  <2>4. Revised(m, row, fact[m])
    BY <2>1, RevisedRow
  <2>5. (m \notin overtaken => fact[m] = 0) /\ mov[m].kind # "reversal"
        /\ (mov[m].kind = "issue" => fact[m] <= 0)
    BY <2>1, DraftFacts
  <2>6. mov[m].kind \in {"issue", "return", "scrap"}
    BY <1>1, <2>1, <2>5 DEF MovementRowFits, MovementRows
  <2> HIDE DEF row
  <2>7. RowOk(row, fact[m]) /\ (m \notin overtaken => BooksOk(row, fact[m]))
    BY <1>1, <2>2, <2>5, <2>6 DEF RowOk, BooksOk, MovementRowFits
  <2> QED BY <1>1, <2>1, <2>2, <2>3, <2>4, <2>5, <2>7, MovementChange DEF MovementRowFits
<1>4. ASSUME NEW s \in Sessions, NEW m \in Movements,
             PostDerivedBegin(s, m) \/ WithdrawBegin(s, m) \/ ReopenBegin(s, m) \/ ReverseBegin(s, m)
      PROVE  MovementInv'
  <2>1. CASE PostDerivedBegin(s, m)
    BY <2>1, MovementBegun DEF PostDerivedBegin, IsDraft, MovementOps, Serializable
  <2>2. CASE WithdrawBegin(s, m)
    BY <2>2, MovementBegun DEF WithdrawBegin, MovementOps, Serializable
  <2>3. CASE ReopenBegin(s, m)
    BY <1>1, <2>3, MovementBegun DEF ReopenBegin, MovementOps, Serializable
  <2>4. CASE ReverseBegin(s, m)
    BY <1>1, <2>4, MovementBegun DEF ReverseBegin, MovementOps, Serializable
  <2> QED BY <1>4, <2>1, <2>2, <2>3, <2>4
<1>5. ASSUME NEW s \in Sessions, WithdrawCommit(s) PROVE MovementInv'
  <2>1. PICK m : m = job[s].doc
    OBVIOUS
  <2> DEFINE row == [mov[m] EXCEPT !.status = "draft"]
  <2>2. m \in Movements /\ mov[m].kind = "issue" /\ Spares(m)
    BY <1>5, <2>1, MovementJob, OverwriteLeaves DEF WithdrawCommit, Working, MovementOps, MovementInv, Snapshots, Sees
  <2>3. mov' = [mov EXCEPT ![m] = row] /\ UNCHANGED fact
        /\ overtaken' = IF mov[m].status \in {"posted", "reversed"} THEN overtaken \cup {m} ELSE overtaken
    BY <1>5, <2>1 DEF WithdrawCommit
  <2>4. /\ row.status = "draft" /\ row.kind = "issue" /\ row.deleted = mov[m].deleted
        /\ row.of = mov[m].of /\ row.cat = mov[m].cat /\ row.qty = mov[m].qty
    BY <1>1, <2>2 DEF MovementRows
  <2>5. row \in MovementRows
    BY <1>1, <2>2 DEF MovementRows
  <2>6. Revised(m, row, fact[m])
    BY <2>2, <2>3, RevisedRow
  <2>7. mov[m].status \in {"draft", "pending_outbound", "posted", "reversed"}
    <3>1. mov[m].status # "none"
      <4>1. NoMovement.kind = "none"
        BY DEF NoMovement
      <4> QED BY <1>1, <2>2, <4>1 DEF MovementRowFits
    <3> QED BY <1>1, <2>2, <3>1 DEF MovementRows
  <2>8. m \notin overtaken' => fact[m] = 0
    BY <2>2, <2>3, <2>7, DraftFacts
  <2> HIDE DEF row
  <2>9. RowOk(row, fact[m]) /\ (m \notin overtaken' => BooksOk(row, fact[m]))
    BY <1>1, <2>2, <2>4, <2>8 DEF RowOk, BooksOk, MovementRowFits
  <2> QED BY <1>1, <2>2, <2>3, <2>4, <2>5, <2>6, <2>9, MovementChange
<1>6. ASSUME NEW s \in Sessions, ReopenCommit(s) PROVE MovementInv'
  <2>1. PICK m : m = job[s].doc
    OBVIOUS
  <2> DEFINE row == [mov[m] EXCEPT !.status = "draft"]
  <2>2. job[s].op = "reopen" /\ job[s].op \in Serializable /\ job[s].op \in MovementOps
        /\ CommitSerializable(s) /\ ~job[s].doomed
    BY <1>6 DEF ReopenCommit, Working, CommitSerializable, Serializable, MovementOps
  <2>3. m \in Movements /\ mov[m].kind = "issue" /\ Live(m, "posted") /\ job[s].arg = fact[m] /\ Spares(m)
    BY <2>1, <2>2, MovementJob, CommitLeaves DEF MovementInv, Snapshots, Sees, Undoomed
  <2>4. fact[m] + Effect(job[s]) = 0
    BY <1>1, <2>2, <2>3 DEF Effect
  <2>5. mov' = [mov EXCEPT ![m] = row] /\ fact' = [fact EXCEPT ![m] = 0] /\ UNCHANGED overtaken
    BY <1>6, <2>1, <2>4 DEF ReopenCommit, past
  <2>6. /\ row.status = "draft" /\ row.kind = "issue" /\ row.deleted = mov[m].deleted
        /\ row.of = mov[m].of /\ row.cat = mov[m].cat /\ row.qty = mov[m].qty
    BY <1>1, <2>3 DEF MovementRows
  <2>7. row \in MovementRows
    BY <1>1, <2>3 DEF MovementRows
  <2> HIDE DEF row
  <2>8. Revised(m, row, 0)
    <3>1. Movements \subseteq Booked /\ m \in Booked
      BY <2>3 DEF Booked
    <3>2. fact'[m] = 0 /\ \A e \in Booked : e # m => fact'[e] = fact[e]
      BY <2>5, <3>1 DEF TypeInv, TypeOK
    <3> QED BY <2>3, <2>5, <3>1, <3>2 DEF Revised
  <2>9. RowOk(row, 0) /\ BooksOk(row, 0)
    BY <1>1, <2>3, <2>6 DEF RowOk, BooksOk, MovementRowFits
  <2> QED BY <1>1, <2>3, <2>5, <2>6, <2>7, <2>8, <2>9, MovementChange DEF Live
<1> QED BY <1>2, <1>3, <1>4, <1>5, <1>6, UpdateIssueInv, ReverseCommitInv DEF CorrectingStep


LEMMA NextMovementInv == ASSUME TypeInv, MovementInv, [Next]_allVars PROVE MovementInv'
<1>1. CASE (InspectionStep \/ InboundStep \/ PayableStep \/ ReversalStep) /\ UNCHANGED count
  <2>1. Keeps(MovementOps) /\ Untouched(Movements)
    BY <1>1, ReceivingFrame, KeepsFewer DEF Untouched
  <2> QED BY <1>1, <2>1, ReceivingFrame, MovementKept
<1>2. CASE StocktakeStep
  <2>1. Keeps(MovementOps) /\ Untouched(Movements)
    BY <1>2, StocktakeFrame, KeepsFewer DEF Untouched
  <2> QED BY <1>2, <2>1, StocktakeFrame, MovementKept
<1>3. CASE Keeps(AllOps) /\ UNCHANGED <<tables, past, count>>
  <2>1. Keeps(MovementOps)
    BY <1>3, KeepsFewer, MovementOpsKnown
  <2> QED BY <1>3, <2>1, MovementKept, SameFacts DEF tables, past
<1> QED BY <1>1, <1>2, <1>3, Steps, OutboundInv, CorrectingInv

LEMMA InitMovementInv == Init => MovementInv
<1>1. SUFFICES ASSUME Init PROVE MovementInv
  OBVIOUS
<1>2. \A s \in Sessions : job[s].op = "idle"
  BY <1>1, IdleTyped DEF Init
<1>3. Snapshots
  BY <1>2 DEF Snapshots, Sees, Undoomed
<1>4. \A m \in Movements : fact[m] = 0
  BY <1>1 DEF Init, NothingIn, InStock, Booked
<1>5. \A m \in Movements : mov[m] = NoMovement
  BY <1>1 DEF Init
<1>6. overtaken = {}
  BY <1>1 DEF Init
<1>7. MovementRowsFit
  <2>1. NoMovement.status = "none" /\ NoMovement.kind = "none" /\ NoMovement.deleted = FALSE
    BY DEF NoMovement
  <2> QED BY <1>5, <1>6, <2>1 DEF MovementRowsFit, MovementRowFits
<1>8. MovementLedger
  BY <1>4, <1>5 DEF MovementLedger, MovementEffect, NoMovement
<1> QED BY <1>3, <1>7, <1>8 DEF MovementInv

(* The three ledgers together, and what their requests hold meanwhile.     *)
LedgerInv == TypeInv /\ InboundInv /\ CountInv /\ MovementInv

LEMMA InitLedger == Init => LedgerInv
BY InitTyped, InitInboundInv, InitCountInv, InitMovementInv DEF LedgerInv

LEMMA NextLedger == ASSUME LedgerInv, [Next]_allVars PROVE LedgerInv'
BY NextTyped, NextInboundInv, NextCountInv, NextMovementInv DEF LedgerInv

(* Types, inbounds, stocktakes and movements together: what every step     *)
(* relies on and keeps.                                                    *)
THEOREM MaterialsLedgerInv == Spec => []LedgerInv
<1>1. LedgerInv /\ [Next]_<<vars, count>> => LedgerInv'
  BY NextLedger DEF allVars
<1> QED BY InitLedger, <1>1, PTL DEF Spec

(* Whatever interleaves, the facts of every inbound, movement and          *)
(* stocktake add up to what its status says happened: nothing is posted,   *)
(* reversed or reopened twice.                                             *)
THEOREM MaterialsLedgerFollowsDocuments == Spec => []LedgerFollowsDocuments
<1>1. LedgerInv => LedgerFollowsDocuments
  BY DEF LedgerInv, InboundInv, InboundLedger, CountInv, CountLedger, MovementInv, MovementLedger,
         LedgerFollowsDocuments
<1> QED BY <1>1, MaterialsLedgerInv, PTL

-----------------------------------------------------------------------------
(* What the steps of the stores do, field by field.                        *)
OthersSame(m) == \A d \in Movements : d # m => mov'[d] = mov[d]

\* The row of m keeps everything but its status.
StatusOnly(m, status) ==
    /\ mov'[m].status = status /\ mov'[m].kind = mov[m].kind /\ mov'[m].deleted = mov[m].deleted
    /\ mov'[m].qty = mov[m].qty /\ mov'[m].of = mov[m].of /\ mov'[m].cat = mov[m].cat

LEMMA LedgerRows ==
    ASSUME LedgerInv, NEW m \in Movements
    PROVE  /\ TypeInv /\ MovementInv /\ MovementRowFits(m) /\ mov[m] \in MovementRows /\ fact[m] \in Int /\ m \in Booked
           /\ mov[m].qty \in Nat /\ mov[m].of \in Movements \cup {NoDoc} /\ mov[m].deleted \in BOOLEAN
<1>1. mov[m] \in MovementRows /\ fact[m] \in Int /\ m \in Booked /\ mov[m].qty \in Nat
  BY MovementTyped DEF LedgerInv
<1> QED BY <1>1 DEF LedgerInv, MovementInv, MovementRowsFit, MovementRows

LEMMA StatusChange ==
    ASSUME LedgerInv, NEW m \in Movements, NEW status, mov' = [mov EXCEPT ![m].status = status]
    PROVE  OthersSame(m) /\ StatusOnly(m, status)
<1>1. mov \in [Movements -> MovementRows] /\ mov[m] \in MovementRows
  BY LedgerRows DEF LedgerInv, TypeInv, TypeOK
<1>2. mov'[m] = [mov[m] EXCEPT !.status = status] /\ OthersSame(m)
  BY <1>1 DEF OthersSame
<1> QED BY <1>1, <1>2 DEF StatusOnly, MovementRows

\* A new document.
Created(m) ==
    /\ OthersSame(m) /\ UNCHANGED <<fact, job, overtaken>> /\ Spares(m)
    /\ mov[m].status = "none" /\ mov[m].kind = "none" /\ fact[m] = 0 /\ m \notin overtaken
    /\ mov'[m].status = "draft" /\ mov'[m].kind \in {"issue", "return", "scrap"}
    /\ mov'[m].cat = IF mov'[m].kind = "scrap" THEN "scrap" ELSE "raw_material"
    /\ mov[m].cat = "raw_material"
    /\ \A d \in Movements : mov[d].kind \in {"return", "scrap"} => mov[d].of # m

LEMMA CreateDoes ==
    ASSUME LedgerInv, NEW m \in Movements, NEW q \in Qty,
           \/ CreateIssue(m, q)
           \/ \E of \in Movements, kind \in {"return", "scrap"} : CreateDerived(m, kind, of, q)
    PROVE  Created(m)
<1>1. TypeInv /\ MovementInv /\ mov \in [Movements -> MovementRows]
  BY DEF LedgerInv, TypeInv, TypeOK
<1>2. UNCHANGED <<fact, job, overtaken>> /\ mov[m].status = "none"
  BY DEF CreateIssue, CreateDerived, past
<1>3. Spares(m) /\ m \notin overtaken /\ fact[m] = 0 /\ mov[m].kind = "none"
  BY <1>1, <1>2, NoneSpared
<1>4. /\ OthersSame(m) /\ mov'[m].status = "draft" /\ mov'[m].kind \in {"issue", "return", "scrap"}
      /\ mov'[m].cat = IF mov'[m].kind = "scrap" THEN "scrap" ELSE "raw_material"
  <2>1. CASE CreateIssue(m, q)
    BY <1>1, <2>1 DEF CreateIssue, NoMovement, OthersSame
  <2>2. ASSUME NEW of \in Movements, NEW kind \in {"return", "scrap"}, CreateDerived(m, kind, of, q)
        PROVE  <1>4
    BY <1>1, <2>2 DEF CreateDerived, NoMovement, OthersSame
  <2> QED BY <2>1, <2>2
<1>5. mov[m].cat = "raw_material"
  <2>1. mov[m] = NoMovement
    BY <1>2, LedgerRows DEF MovementRowFits
  <2> QED BY <2>1 DEF NoMovement
<1>6. \A d \in Movements : mov[d].kind \in {"return", "scrap"} => mov[d].of # m
  BY <1>3, LedgerRows DEF MovementRowFits
<1> QED BY <1>2, <1>3, <1>4, <1>5, <1>6 DEF Created

\* A draft leaves the list or goes to the stores.
LEMMA RemoveDoes ==
    ASSUME LedgerInv, NEW m \in Movements, RemoveIssue(m)
    PROVE  /\ OthersSame(m) /\ UNCHANGED <<fact, overtaken>> /\ Spares(m)
           /\ mov[m].status = "draft" /\ mov'[m].status = "draft" /\ mov'[m].deleted
           /\ mov'[m].kind = mov[m].kind /\ mov'[m].cat = mov[m].cat /\ mov'[m].of = NoDoc
<1>1. mov \in [Movements -> MovementRows] /\ mov[m] \in MovementRows /\ TypeInv
  BY LedgerRows DEF LedgerInv, TypeInv, TypeOK
<1>2. mov'[m] = [mov[m] EXCEPT !.deleted = TRUE, !.qty = 0, !.of = NoDoc] /\ OthersSame(m)
  BY <1>1 DEF OthersSame, RemoveIssue
<1>3. Spares(m)
  BY <1>1, OverwriteLeaves DEF RemoveIssue
<1>4. /\ mov'[m].status = mov[m].status /\ mov'[m].deleted
      /\ mov'[m].kind = mov[m].kind /\ mov'[m].cat = mov[m].cat /\ mov'[m].of = NoDoc
  BY <1>1, <1>2 DEF MovementRows
<1> QED BY <1>2, <1>3, <1>4 DEF RemoveIssue, IsDraft, Live, past

LEMMA SubmitDoes ==
    ASSUME LedgerInv, NEW m \in Movements, SubmitOutbound(m)
    PROVE  /\ OthersSame(m) /\ UNCHANGED <<fact, overtaken>> /\ Spares(m)
           /\ StatusOnly(m, "pending_outbound") /\ Live(m, "draft") /\ mov[m].kind = "issue"
<1>1. TypeInv
  BY DEF LedgerInv
<1> QED BY <1>1, StatusChange, OverwriteLeaves DEF SubmitOutbound, IsDraft, past

\* The document of a serializable request, as the request saw it.
LEMMA SerializableJob ==
    ASSUME LedgerInv, NEW s \in Sessions, CommitSerializable(s), job[s].op \in Serializable
    PROVE  /\ job[s].doc \in Movements /\ Spares(job[s].doc) /\ ~job[s].doomed /\ Sees(s)
           /\ job[s].arg \in Int /\ Effect(job[s]) \in Int
<1>1. TypeInv /\ MovementInv /\ job[s].op \in MovementOps
  BY MovementOpsKnown DEF LedgerInv
<1> QED BY <1>1, MovementJob, CommitLeaves, EffectTyped DEF CommitSerializable, MovementInv, Snapshots

LEMMA FactMoves ==
    ASSUME LedgerInv, NEW m \in Movements, NEW x \in Int, fact' = [fact EXCEPT ![m] = x]
    PROVE  fact'[m] = x /\ \A d \in Booked : d # m => fact'[d] = fact[d]
<1>1. TypeInv /\ m \in Booked
  BY LedgerRows
<1> QED BY <1>1, FactChange

LEMMA PostDoes ==
    ASSUME LedgerInv, NEW s \in Sessions, PostCommit(s), NEW m, m = job[s].doc
    PROVE  /\ m \in Movements /\ OthersSame(m) /\ UNCHANGED overtaken /\ Spares(m) /\ StatusOnly(m, "posted")
           /\ \/ job[s].op = "postIssue" /\ mov[m].kind = "issue" /\ Live(m, "pending_outbound")
              \/ job[s].op = "postDerived" /\ mov[m].kind \in {"return", "scrap"} /\ Live(m, "draft")
           /\ fact'[m] = fact[m] + (IF mov[m].kind = "return" THEN mov[m].qty ELSE -mov[m].qty)
           /\ \A d \in Booked : d # m => fact'[d] = fact[d]
           /\ job[s].op \in Serializable /\ CommitSerializable(s) /\ ~job[s].doomed
           /\ mov[m].qty > 0
<1>1. job[s].op \in {"postIssue", "postDerived"} /\ job[s].op \in Serializable /\ CommitSerializable(s)
  BY DEF PostCommit, Serializable
<1>2. m \in Movements /\ Spares(m) /\ ~job[s].doomed /\ Sees(s) /\ Effect(job[s]) \in Int
  BY <1>1, SerializableJob
<1>3. \/ job[s].op = "postIssue" /\ mov[m].kind = "issue" /\ Live(m, "pending_outbound")
      \/ job[s].op = "postDerived" /\ mov[m].kind \in {"return", "scrap"} /\ Live(m, "draft")
  BY <1>1, <1>2 DEF Sees, Undoomed
<1>4. OthersSame(m) /\ StatusOnly(m, "posted")
  BY <1>2, StatusChange DEF PostCommit
<1>5. Effect(job[s]) = IF mov[m].kind = "return" THEN mov[m].qty ELSE -mov[m].qty
  BY <1>3 DEF Effect
<1>6. fact[m] + Effect(job[s]) \in Int /\ fact' = [fact EXCEPT ![m] = fact[m] + Effect(job[s])]
  BY <1>2, LedgerRows DEF PostCommit
<1>7. fact'[m] = fact[m] + Effect(job[s]) /\ \A d \in Booked : d # m => fact'[d] = fact[d]
  BY <1>2, <1>6, FactMoves
<1>8. mov[m].qty > 0
  BY <1>2, <1>3, LedgerRows DEF MovementRowFits, Live
<1> QED BY <1>1, <1>2, <1>3, <1>4, <1>5, <1>7, <1>8 DEF PostCommit, past

LEMMA WithdrawDoes ==
    ASSUME LedgerInv, NEW s \in Sessions, WithdrawCommit(s), NEW m, m = job[s].doc
    PROVE  /\ m \in Movements /\ OthersSame(m) /\ UNCHANGED fact /\ Spares(m) /\ StatusOnly(m, "draft")
           /\ mov[m].kind = "issue"
           /\ overtaken' = IF mov[m].status \in {"posted", "reversed"} THEN overtaken \cup {m} ELSE overtaken
<1>1. TypeInv /\ MovementInv
  BY DEF LedgerInv
<1>2. m \in Movements /\ Sees(s) /\ Overwrites(m, {s})
  BY <1>1, MovementJob DEF WithdrawCommit, Working, MovementOps, MovementInv, Snapshots
<1>3. Spares(m) /\ mov[m].kind = "issue"
  BY <1>1, <1>2, OverwriteLeaves DEF WithdrawCommit, Working, Sees
<1> QED BY <1>2, <1>3, StatusChange DEF WithdrawCommit

LEMMA ReopenDoes ==
    ASSUME LedgerInv, NEW s \in Sessions, ReopenCommit(s), NEW m, m = job[s].doc
    PROVE  /\ m \in Movements /\ OthersSame(m) /\ UNCHANGED overtaken /\ Spares(m) /\ StatusOnly(m, "draft")
           /\ mov[m].kind = "issue" /\ Live(m, "posted") /\ Dependents(m) = {}
           /\ fact'[m] = 0 /\ \A d \in Booked : d # m => fact'[d] = fact[d]
           /\ job[s].op = "reopen" /\ CommitSerializable(s) /\ job[s].op \in Serializable
           /\ job[s].arg = fact[m] /\ ~job[s].doomed
<1>1. job[s].op = "reopen" /\ job[s].op \in Serializable /\ CommitSerializable(s)
  BY DEF ReopenCommit, Working, Serializable
<1>2. m \in Movements /\ Spares(m) /\ ~job[s].doomed /\ Sees(s)
  BY <1>1, SerializableJob
<1>3. mov[m].kind = "issue" /\ Live(m, "posted") /\ Dependents(m) = {} /\ job[s].arg = fact[m]
  BY <1>1, <1>2 DEF Sees, Undoomed
<1>4. OthersSame(m) /\ StatusOnly(m, "draft")
  BY <1>2, StatusChange DEF ReopenCommit
<1>5. fact[m] + Effect(job[s]) = 0 /\ 0 \in Int
  BY <1>1, <1>2, <1>3, LedgerRows DEF Effect
<1>6. fact' = [fact EXCEPT ![m] = 0]
  BY <1>5 DEF ReopenCommit
<1>7. fact'[m] = 0 /\ \A d \in Booked : d # m => fact'[d] = fact[d]
  BY <1>2, <1>6, LedgerRows DEF LedgerInv, TypeInv, TypeOK
<1> QED BY <1>1, <1>2, <1>3, <1>4, <1>7 DEF ReopenCommit, past

\* The posted m is reversed by the new document r.
Reversed(s, r, m) ==
    /\ m \in Movements /\ m # r /\ UNCHANGED overtaken /\ Spares(m) /\ Spares(r) /\ r \notin overtaken
    /\ \A d \in Movements : d # m /\ d # r => mov'[d] = mov[d]
    /\ StatusOnly(m, "reversed") /\ Live(m, "posted") /\ job[s].arg = fact[m]
    /\ mov[m].kind = "issue" => Dependents(m) = {}
    /\ mov[r].status = "none" /\ mov[r].kind = "none" /\ fact[r] = 0 /\ mov[r].cat = "raw_material"
    /\ mov'[r].status = "posted" /\ mov'[r].kind = "reversal" /\ mov'[r].deleted = FALSE
    /\ mov'[r].of = m /\ mov'[r].cat = mov[m].cat
    /\ fact'[r] = -fact[m] /\ \A d \in Booked : d # r => fact'[d] = fact[d]
    /\ job[s].op = "reverseMovement" /\ CommitSerializable(s) /\ job[s].op \in Serializable
    /\ ~job[s].doomed

LEMMA ReverseDoes ==
    ASSUME LedgerInv, NEW s \in Sessions, NEW r \in Movements, ReverseCommit(s, r), NEW m, m = job[s].doc
    PROVE  Reversed(s, r, m)
<1>1. job[s].op = "reverseMovement" /\ job[s].op \in Serializable /\ CommitSerializable(s) /\ mov[r].status = "none"
      /\ TypeInv /\ MovementInv
  BY DEF ReverseCommit, Working, Serializable, LedgerInv
<1>2. m \in Movements /\ Spares(m) /\ ~job[s].doomed /\ Sees(s)
  BY <1>1, SerializableJob
<1>3. Live(m, "posted") /\ job[s].arg = fact[m] /\ (mov[m].kind = "issue" => Dependents(m) = {})
  BY <1>1, <1>2 DEF Sees, Undoomed
<1>4. mov[r].kind = "none" /\ m # r /\ mov[r].cat = "raw_material" /\ r \notin overtaken /\ fact[r] = 0
  <2>1. mov[r] = NoMovement
    BY <1>1, LedgerRows DEF MovementRowFits
  <2>2. mov[r].kind = "none" /\ m # r /\ mov[r].cat = "raw_material"
    BY <1>1, <1>3, <2>1 DEF NoMovement, Live
  <2>3. r \notin overtaken
    BY <2>2, LedgerRows DEF MovementRowFits
  <2> QED BY <1>1, <2>2, <2>3, DraftFacts
<1>5. /\ \A d \in Movements : d # m /\ d # r => mov'[d] = mov[d]
      /\ StatusOnly(m, "reversed")
      /\ mov'[r].status = "posted" /\ mov'[r].kind = "reversal" /\ mov'[r].deleted = FALSE
      /\ mov'[r].of = m /\ mov'[r].cat = mov[m].cat
  <2> DEFINE row == [kind |-> "reversal", status |-> "posted", deleted |-> FALSE,
                     qty |-> mov[m].qty, of |-> m, cat |-> mov[m].cat]
  <2>1. mov \in [Movements -> MovementRows] /\ mov' = [mov EXCEPT ![m].status = "reversed", ![r] = row]
    BY <1>1 DEF ReverseCommit, TypeInv, TypeOK
  <2>2. row.status = "posted" /\ row.kind = "reversal" /\ row.deleted = FALSE /\ row.of = m /\ row.cat = mov[m].cat
    OBVIOUS
  <2>3. mov[m] \in MovementRows
    BY <1>2, LedgerRows
  <2> HIDE DEF row
  <2> QED BY <1>2, <1>4, <2>1, <2>2, <2>3 DEF MovementRows, StatusOnly
<1>6. fact'[r] = -fact[m] /\ \A d \in Booked : d # r => fact'[d] = fact[d]
  <2>1. Effect(job[s]) = -fact[m] /\ -fact[m] \in Int
    BY <1>1, <1>2, <1>3, LedgerRows DEF Effect
  <2> QED BY <2>1, FactMoves DEF ReverseCommit
<1>7. Spares(r)
  <2>1. Keeps(MovementOps)
    BY <1>1, CommitDooms, DoomKeeps, KeepsFewer, MovementOpsKnown
  <2>2. ASSUME NEW t \in Sessions, job'[t].op \in Serializable, ~job'[t].doomed PROVE ~job[t].doomed /\ job[t].doc # r
    <3>1. ~job[t].doomed /\ job[t].op \in Serializable /\ Sees(t)
      BY <1>1, <2>2, CommitSpares DEF MovementInv, Snapshots
    <3> QED BY <1>1, <3>1 DEF Sees, Undoomed, Live, Serializable
  <2> QED BY <2>1, <2>2 DEF Spares, Keeps
<1> QED BY <1>1, <1>2, <1>3, <1>4, <1>5, <1>6, <1>7 DEF Reversed, ReverseCommit, past

LEMMA UpdateDoes ==
    ASSUME LedgerInv, NEW m \in Movements, NEW q \in Qty, UpdateIssue(m, q)
    PROVE  /\ UNCHANGED <<fact, overtaken>> /\ Live(m, "draft") /\ Spares(m) /\ q \in Nat
           /\ \A d \in Movements :
                /\ mov'[d].status = mov[d].status /\ mov'[d].kind = mov[d].kind /\ mov'[d].deleted = mov[d].deleted
                /\ mov'[d].cat = mov[d].cat
                /\ d # m => mov'[d].qty = mov[d].qty
                /\ mov'[d].of = IF d = m \/ mov[d].of = m THEN NoDoc ELSE mov[d].of
           /\ mov'[m].qty = q
<1>1. \A d \in Movements : mov[d] \in MovementRows
  BY LedgerRows
<1>2. Spares(m)
  BY OverwriteLeaves DEF UpdateIssue, LedgerInv
<1>3. /\ mov'[m] = [mov[m] EXCEPT !.qty = q, !.of = NoDoc]
      /\ \A d \in Movements \ {m} : mov'[d] = IF mov[d].of = m THEN [mov[d] EXCEPT !.of = NoDoc] ELSE mov[d]
  BY DEF UpdateIssue
<1>4. ASSUME NEW row \in MovementRows
      PROVE  /\ [row EXCEPT !.of = NoDoc].status = row.status /\ [row EXCEPT !.of = NoDoc].kind = row.kind
             /\ [row EXCEPT !.of = NoDoc].deleted = row.deleted /\ [row EXCEPT !.of = NoDoc].cat = row.cat
             /\ [row EXCEPT !.of = NoDoc].qty = row.qty /\ [row EXCEPT !.of = NoDoc].of = NoDoc
  BY DEF MovementRows
<1>5. ASSUME NEW row \in MovementRows
      PROVE  LET new == [row EXCEPT !.qty = q, !.of = NoDoc]
             IN /\ new.status = row.status /\ new.kind = row.kind /\ new.deleted = row.deleted
                /\ new.cat = row.cat /\ new.qty = q /\ new.of = NoDoc
  BY DEF MovementRows
<1>6. /\ mov'[m].status = mov[m].status /\ mov'[m].kind = mov[m].kind /\ mov'[m].deleted = mov[m].deleted
      /\ mov'[m].cat = mov[m].cat /\ mov'[m].qty = q /\ mov'[m].of = NoDoc
  BY <1>1, <1>3, <1>5
<1>7. ASSUME NEW d \in Movements, d # m
      PROVE  /\ mov'[d].status = mov[d].status /\ mov'[d].kind = mov[d].kind /\ mov'[d].deleted = mov[d].deleted
             /\ mov'[d].cat = mov[d].cat /\ mov'[d].qty = mov[d].qty
             /\ mov'[d].of = IF mov[d].of = m THEN NoDoc ELSE mov[d].of
  <2>1. mov[d] \in MovementRows
    BY <1>1
  <2>2. CASE mov[d].of = m
    <3>1. mov'[d] = [mov[d] EXCEPT !.of = NoDoc]
      BY <1>3, <1>7, <2>2
    <3> QED BY <1>4, <2>1, <2>2, <3>1
  <2>3. CASE mov[d].of # m
    BY <1>3, <1>7, <2>3
  <2> QED BY <2>2, <2>3
<1>8. q \in Nat
  BY QtyRange
<1>9. UNCHANGED <<fact, overtaken>> /\ Live(m, "draft")
  BY DEF UpdateIssue, IsDraft, past
<1> QED BY <1>2, <1>6, <1>7, <1>8, <1>9

-----------------------------------------------------------------------------
(* Returns and scraps.  A step leaves what is disposed of an issue alone   *)
(* or makes it less; only the posting of a disposal makes it more, and the *)
(* requests that saw it otherwise are doomed with its commit.              *)
\* m is what a return or a scrap of it was checked against.
Firm(m) ==
    /\ \/ mov'[m].deleted
       \/ mov'[m].deleted = mov[m].deleted /\ mov'[m].kind = mov[m].kind /\ mov'[m].qty = mov[m].qty
    /\ m \in overtaken' \/ (Live(m, "posted") => Live(m, "posted")')

Fewer(m) == \A d \in Movements : d \in Consumers(m)' => d \in Consumers(m) /\ mov'[d].qty = mov[d].qty

\* The facts about rows and sums hold after the step, too.
SumsTyped ==
    /\ \A m \in Movements : mov[m].qty \in Nat /\ Consumed(m) \in Nat
    /\ \A m \in Movements : Consumers(m) = {} => Consumed(m) = 0

LEMMA ConsumersTyped ==
    ASSUME LedgerInv, NEW m
    PROVE  /\ Consumers(m) \in SUBSET Movements /\ IsFiniteSet(Consumers(m)) /\ Consumed(m) \in Nat
           /\ Consumers(m) = {} => Consumed(m) = 0
<1> DEFINE q == [d \in Movements |-> mov[d].qty]
<1>1. Consumers(m) \in SUBSET Movements
  BY DEF Consumers, Dependents
<1>2. IsFiniteSet(Consumers(m))
  BY <1>1, FS_Subset
<1>3. \A d \in Consumers(m) : q[d] \in Nat
  BY <1>1, LedgerRows
<1> HIDE DEF q
<1>4. SumOf(q, Consumers(m)) \in Nat
  BY <1>2, <1>3, SumNat
<1>5. Consumers(m) = {} => SumOf(q, Consumers(m)) = 0
  BY SumEmpty
<1> QED BY <1>1, <1>2, <1>4, <1>5 DEF Consumed, q

LEMMA SumsAreTyped == LedgerInv => SumsTyped
BY ConsumersTyped, LedgerRows DEF SumsTyped

LEMMA SumsStayTyped == LedgerInv' => SumsTyped'
BY SumsAreTyped, PTL

LEMMA ConsumedFewer ==
    ASSUME LedgerInv, LedgerInv', NEW m, Fewer(m)
    PROVE  Consumed(m)' <= Consumed(m)
<1> DEFINE q == [d \in Movements |-> mov[d].qty]
           r == [d \in Movements |-> mov'[d].qty]
           C == Consumers(m)'
<1>1. C \in SUBSET Movements /\ IsFiniteSet(C)
  <2>1. C \in SUBSET Movements
    BY DEF Consumers, Dependents
  <2> QED BY <2>1, FS_Subset
<1>2. C \in SUBSET Consumers(m) /\ IsFiniteSet(Consumers(m)) /\ Consumers(m) \in SUBSET Movements
  BY <1>1, ConsumersTyped DEF Fewer
<1>3. \A d \in C : r[d] = q[d]
  BY <1>1 DEF Fewer
<1>4. \A d \in Consumers(m) : q[d] \in Nat
  BY <1>2, LedgerRows
<1>5. Consumed(m) = SumOf(q, Consumers(m)) /\ Consumed(m)' = SumOf(r, C)
  BY DEF Consumed
<1> HIDE DEF q, r, C
<1>6. SumOf(r, C) = SumOf(q, C)
  BY <1>1, <1>2, <1>3, <1>4, SumSame
<1>7. SumOf(q, C) <= SumOf(q, Consumers(m))
  BY <1>2, <1>4, SumSubset
<1> QED BY <1>5, <1>6, <1>7

\* A disposal that was about to be posted still is, of the same quantity and issue.
Pending(t) ==
    Undoomed(t, "postDerived")' =>
      /\ Undoomed(t, "postDerived") /\ job'[t].doc = job[t].doc
      /\ mov'[job[t].doc].of # NoDoc =>
           /\ mov'[job[t].doc].of = mov[job[t].doc].of /\ mov'[job[t].doc].qty = mov[job[t].doc].qty
           /\ Firm(mov[job[t].doc].of)

LEMMA DisposalKept ==
    ASSUME LedgerInv, LedgerInv', DisposalInv, overtaken \subseteq overtaken',
           \A m \in Movements : Fewer(m) /\ (Consumers(m)' # {} => Firm(m)),
           \A t \in Sessions : Pending(t)
    PROVE  DisposalInv'
<1>1. ASSUME NEW m \in Movements
      PROVE  /\ Consumed(m) \in Nat /\ Consumed(m)' \in Nat /\ Consumed(m)' <= Consumed(m)
             /\ Consumers(m)' = {} => Consumed(m)' = 0
             /\ mov'[m].qty \in Nat /\ mov[m].qty \in Nat
             /\ Consumers(m)' # {} => Consumers(m) # {}
  <2>1. Consumed(m) \in Nat /\ mov[m].qty \in Nat
    BY ConsumersTyped, LedgerRows
  <2>2. Consumed(m)' \in Nat /\ (Consumers(m)' = {} => Consumed(m)' = 0)
    BY SumsStayTyped DEF SumsTyped
  <2>3. mov'[m].qty \in Nat
    BY SumsStayTyped DEF SumsTyped
  <2>4. Consumers(m)' \subseteq Movements
    BY DEF Consumers, Dependents
  <2> QED BY <2>1, <2>2, <2>3, <2>4, ConsumedFewer DEF Fewer
<1>2. ASSUME NEW m \in Movements, mov'[m].kind = "issue", ~mov'[m].deleted PROVE Consumed(m)' <= mov'[m].qty
  <2>1. CASE Consumers(m)' = {}
    BY <1>1, <2>1
  <2>2. CASE Consumers(m)' # {}
    <3>1. mov[m].kind = "issue" /\ ~mov[m].deleted /\ mov'[m].qty = mov[m].qty
      BY <1>2, <2>2, LedgerRows DEF Firm
    <3>2. Consumed(m) <= mov[m].qty
      BY <3>1 DEF DisposalInv, DisposedWithinIssue
    <3> QED BY <1>1, <3>1, <3>2
  <2> QED BY <2>1, <2>2
<1>3. ASSUME NEW m \in Movements, m \notin overtaken', Consumers(m)' # {} PROVE Live(m, "posted")'
  <2>1. Consumers(m) # {} /\ m \notin overtaken
    BY <1>1, <1>3
  <2>2. Live(m, "posted")
    BY <2>1 DEF DisposalInv, DisposedWithinIssue
  <2> QED BY <1>3, <2>2 DEF Firm
<1>4. ASSUME NEW t \in Sessions, Undoomed(t, "postDerived")', mov'[job'[t].doc].of # NoDoc
      PROVE  /\ mov'[mov'[job'[t].doc].of].deleted
                \/ mov'[job'[t].doc].qty + Consumed(mov[job[t].doc].of)' <= mov'[mov'[job'[t].doc].of].qty
             /\ mov'[job'[t].doc].of \in overtaken' \/ Live(mov[job[t].doc].of, "posted")'
  <2>1. PICK d, m : d = job[t].doc /\ m = mov[d].of
    OBVIOUS
  <2>2. /\ Undoomed(t, "postDerived") /\ job'[t].doc = d /\ mov'[d].of = m /\ mov'[d].qty = mov[d].qty
        /\ m # NoDoc /\ Firm(m)
    BY <1>4, <2>1 DEF Pending
  <2>3. d \in Movements /\ m \in Movements /\ mov[d].qty \in Nat
    <3>1. d \in Movements
      BY <2>1, <2>2, MovementJob DEF LedgerInv, Undoomed, MovementOps, Serializable
    <3> QED BY <2>1, <2>2, <3>1, LedgerRows
  <2>4. /\ mov[m].deleted \/ mov[d].qty + Consumed(m) <= mov[m].qty
        /\ m \in overtaken \/ Live(m, "posted")
    BY <2>1, <2>2 DEF DisposalInv, DisposalsFit
  <2>5. mov[m].deleted \in BOOLEAN /\ mov[m].deleted => mov'[m].deleted
    BY <2>2, <2>3, LedgerRows DEF Firm
  <2>6. mov'[m].deleted \/ mov'[d].qty + Consumed(m)' <= mov'[m].qty
    <3>1. CASE ~mov[m].deleted /\ ~mov'[m].deleted
      <4>1. mov'[m].qty = mov[m].qty /\ mov[d].qty + Consumed(m) <= mov[m].qty
        BY <2>2, <2>4, <3>1 DEF Firm
      <4> QED BY <1>1, <2>2, <2>3, <4>1
    <3> QED BY <2>5, <3>1
  <2>7. m \in overtaken' \/ Live(m, "posted")'
    BY <2>2, <2>4 DEF Firm
  <2>8. job'[t].doc = d /\ mov'[d].of = m
    BY <2>2
  <2> QED BY <2>6, <2>7, <2>8
<1>5. DisposedWithinIssue'
  BY <1>2, <1>3 DEF DisposedWithinIssue
<1>6. DisposalsFit'
  BY <1>4 DEF DisposalsFit
<1> QED BY <1>5, <1>6 DEF DisposalInv

\* What the rows say about the source of a return or a scrap.
LEMMA SourceIsIssue ==
    ASSUME LedgerInv, NEW d \in Movements, mov[d].kind \in {"return", "scrap"}, mov[d].of # NoDoc
    PROVE  mov[d].of \in Movements /\ mov[mov[d].of].kind = "issue" /\ mov[d].of # d
<1>1. mov[d].of \in Movements /\ MovementRowFits(d)
  BY LedgerRows
<1>2. mov[mov[d].of].kind = "issue"
  BY <1>1 DEF MovementRowFits
<1> QED BY <1>1, <1>2

LEMMA PendingDisposal ==
    ASSUME LedgerInv, NEW t \in Sessions, Undoomed(t, "postDerived")
    PROVE  /\ job[t].doc \in Movements /\ mov[job[t].doc].kind \in {"return", "scrap"} /\ Live(job[t].doc, "draft")
           /\ mov[job[t].doc].of # NoDoc =>
                /\ mov[job[t].doc].of \in Movements /\ mov[mov[job[t].doc].of].kind = "issue"
<1>1. job[t].doc \in Movements /\ Sees(t)
  BY MovementJob DEF LedgerInv, Undoomed, MovementOps, Serializable, MovementInv, Snapshots
<1>2. mov[job[t].doc].kind \in {"return", "scrap"} /\ Live(job[t].doc, "draft")
  BY <1>1 DEF Sees
<1> QED BY <1>1, <1>2, SourceIsIssue

\* A step that spares m leaves a disposal of another document to be posted.
LEMMA SparedDisposal ==
    ASSUME LedgerInv, NEW m, Spares(m), NEW t \in Sessions, Undoomed(t, "postDerived")'
    PROVE  Undoomed(t, "postDerived") /\ job'[t].doc = job[t].doc /\ job[t].doc # m
<1>1. "postDerived" \in MovementOps /\ "postDerived" \in Serializable
  BY DEF MovementOps, Serializable
<1> QED BY <1>1 DEF Undoomed, Spares

\* A step on the row of m that gives it status, when m is no return or scrap being posted.
LEMMA DisposalStatus ==
    ASSUME LedgerInv, LedgerInv', DisposalInv, NEW m \in Movements, NEW status, StatusOnly(m, status), OthersSame(m),
           Spares(m), overtaken \subseteq overtaken',
           mov[m].kind \in {"return", "scrap"} => status # "posted",
           \/ m \in overtaken' \/ ~Live(m, "posted") \/ status = "posted"
           \/ /\ mov[m].kind = "issue" => Consumers(m) = {}
              /\ \A t \in Sessions : Undoomed(t, "postDerived")' /\ mov[m].kind = "issue" => mov[job[t].doc].of # m
    PROVE  DisposalInv'
<1>1. \A d \in Movements : /\ mov'[d].kind = mov[d].kind /\ mov'[d].qty = mov[d].qty /\ mov'[d].of = mov[d].of
                           /\ mov'[d].deleted = mov[d].deleted
                           /\ mov'[d].status = IF d = m THEN status ELSE mov[d].status
  BY DEF StatusOnly, OthersSame
<1>2. ASSUME NEW x \in Movements PROVE Fewer(x)
  BY <1>1 DEF Fewer, Consumers, Dependents, Live
<1>3. ASSUME NEW x \in Movements, x # m \/ m \in overtaken' \/ ~Live(m, "posted") \/ status = "posted" PROVE Firm(x)
  BY <1>1, <1>3 DEF Firm, Live
<1>4. ASSUME NEW x \in Movements, Consumers(x)' # {} PROVE Firm(x)
  <2>1. PICK d \in Movements : d \in Consumers(x)
    BY <1>2, <1>4 DEF Fewer, Consumers, Dependents
  <2>2. mov[x].kind = "issue"
    <3>1. x # NoDoc
      OBVIOUS
    <3> QED BY <2>1, <3>1, SourceIsIssue DEF Consumers, Dependents
  <2> QED BY <1>3, <2>1, <2>2
<1>5. ASSUME NEW t \in Sessions PROVE Pending(t)
  <2>1. SUFFICES ASSUME Undoomed(t, "postDerived")' PROVE Pending(t)
    BY DEF Pending
  <2>2. Undoomed(t, "postDerived") /\ job'[t].doc = job[t].doc /\ job[t].doc # m
    BY <2>1, SparedDisposal
  <2>3. PICK d : d = job[t].doc
    OBVIOUS
  <2>4. d \in Movements /\ d # m /\ (mov[d].of # NoDoc => mov[d].of \in Movements /\ mov[mov[d].of].kind = "issue")
    BY <2>2, <2>3, PendingDisposal
  <2>5. mov[d].of # NoDoc => Firm(mov[d].of)
    BY <1>3, <2>1, <2>3, <2>4
  <2> QED BY <1>1, <2>2, <2>3, <2>4, <2>5 DEF Pending
<1> QED BY <1>2, <1>4, <1>5, DisposalKept

LEMMA CreateDisposal ==
    ASSUME LedgerInv, LedgerInv', DisposalInv, NEW m \in Movements, Created(m)
    PROVE  DisposalInv'
<1>1. \A d \in Movements : d # m => mov'[d] = mov[d]
  BY DEF Created, OthersSame
<1>2. ASSUME NEW x \in Movements PROVE Fewer(x)
  BY <1>1 DEF Created, Fewer, Consumers, Dependents, Live
<1>3. ASSUME NEW x \in Movements, x # m PROVE Firm(x)
  BY <1>1, <1>3 DEF Firm, Live
<1>4. ASSUME NEW x \in Movements, Consumers(x)' # {} PROVE Firm(x)
  <2>1. PICK d \in Movements : d \in Consumers(x)
    BY <1>2, <1>4 DEF Fewer, Consumers, Dependents
  <2>2. x # m
    BY <2>1 DEF Created, Consumers, Dependents
  <2> QED BY <1>3, <2>2
<1>5. ASSUME NEW t \in Sessions PROVE Pending(t)
  <2>1. SUFFICES ASSUME Undoomed(t, "postDerived")' PROVE Pending(t)
    BY DEF Pending
  <2>2. Undoomed(t, "postDerived") /\ job'[t].doc = job[t].doc /\ job[t].doc # m
    BY <2>1, SparedDisposal DEF Created
  <2>3. PICK d : d = job[t].doc
    OBVIOUS
  <2>4. /\ d \in Movements /\ d # m /\ (mov[d].of # NoDoc => mov[d].of \in Movements)
        /\ mov[d].kind \in {"return", "scrap"}
    BY <2>2, <2>3, PendingDisposal
  <2>5. mov[d].of # NoDoc => Firm(mov[d].of)
    BY <1>3, <2>4 DEF Created
  <2> QED BY <1>1, <2>2, <2>3, <2>4, <2>5 DEF Pending
<1> QED BY <1>2, <1>4, <1>5, DisposalKept DEF Created

LEMMA RemoveDisposal ==
    ASSUME LedgerInv, LedgerInv', DisposalInv, NEW m \in Movements, RemoveIssue(m)
    PROVE  DisposalInv'
<1>1. /\ \A d \in Movements : d # m => mov'[d] = mov[d]
      /\ mov[m].status = "draft" /\ mov'[m].status = "draft" /\ mov'[m].deleted /\ Spares(m) /\ UNCHANGED overtaken
  BY RemoveDoes DEF OthersSame
<1>2. ASSUME NEW x \in Movements PROVE Fewer(x)
  BY <1>1 DEF Fewer, Consumers, Dependents, Live
<1>3. ASSUME NEW x \in Movements PROVE Firm(x)
  BY <1>1 DEF Firm, Live
<1>4. ASSUME NEW t \in Sessions PROVE Pending(t)
  <2>1. SUFFICES ASSUME Undoomed(t, "postDerived")' PROVE Pending(t)
    BY DEF Pending
  <2>2. Undoomed(t, "postDerived") /\ job'[t].doc = job[t].doc /\ job[t].doc # m
    BY <1>1, <2>1, SparedDisposal
  <2> QED BY <1>1, <1>3, <2>2, PendingDisposal DEF Pending
<1> QED BY <1>1, <1>2, <1>3, <1>4, DisposalKept

LEMMA UpdateDisposal ==
    ASSUME LedgerInv, LedgerInv', DisposalInv, NEW m \in Movements, NEW q \in Qty, UpdateIssue(m, q)
    PROVE  DisposalInv'
<1>1. /\ UNCHANGED overtaken /\ Live(m, "draft") /\ Spares(m)
      /\ \A d \in Movements :
           /\ mov'[d].status = mov[d].status /\ mov'[d].kind = mov[d].kind /\ mov'[d].deleted = mov[d].deleted
           /\ d # m => mov'[d].qty = mov[d].qty
           /\ mov'[d].of = IF d = m \/ mov[d].of = m THEN NoDoc ELSE mov[d].of
  BY UpdateDoes
<1>2. ASSUME NEW x \in Movements PROVE Fewer(x)
  <2>1. ASSUME NEW d \in Movements, d \in Consumers(x)' PROVE d # m /\ d \in Consumers(x) /\ x # m
    BY <1>1, <2>1 DEF Consumers, Dependents, Live
  <2> QED BY <1>1, <2>1 DEF Fewer
<1>3. ASSUME NEW x \in Movements, x # m PROVE Firm(x)
  BY <1>1, <1>3 DEF Firm, Live
<1>4. ASSUME NEW x \in Movements, Consumers(x)' # {} PROVE Firm(x)
  <2>1. x # m
    BY <1>1, <1>4 DEF Consumers, Dependents
  <2> QED BY <1>3, <2>1
<1>5. ASSUME NEW t \in Sessions PROVE Pending(t)
  <2>1. SUFFICES ASSUME Undoomed(t, "postDerived")' PROVE Pending(t)
    BY DEF Pending
  <2>2. Undoomed(t, "postDerived") /\ job'[t].doc = job[t].doc /\ job[t].doc # m
    BY <1>1, <2>1, SparedDisposal
  <2>3. PICK d : d = job[t].doc
    OBVIOUS
  <2>4. d \in Movements /\ d # m /\ (mov[d].of # NoDoc => mov[d].of \in Movements)
    BY <2>2, <2>3, PendingDisposal
  <2>5. mov'[d].of # NoDoc => mov'[d].of = mov[d].of /\ mov'[d].qty = mov[d].qty /\ Firm(mov[d].of)
    BY <1>1, <1>3, <2>4
  <2> QED BY <2>2, <2>3, <2>5 DEF Pending
<1> QED BY <1>1, <1>2, <1>4, <1>5, DisposalKept

\* Two requests about the same issue of which one posts a disposal: the later cannot commit.
LEMMA DisposalsConflict ==
    ASSUME NEW j, NEW k, j.op \in Serializable, k.op = "postDerived",
           mov[k.doc].kind \in {"return", "scrap"}, mov[k.doc].of # NoDoc,
           \/ j.op \in {"reopen", "reverseMovement"} /\ j.doc = mov[k.doc].of /\ mov[j.doc].kind = "issue"
           \/ /\ j.op = "postDerived" /\ mov[j.doc].kind \in {"return", "scrap"}
              /\ mov[j.doc].of = mov[k.doc].of
    PROVE  Conflict(j, k)
<1> DEFINE m == mov[k.doc].of
<1>1. k.op \in Serializable
  BY DEF Serializable
<1>2. SourceOf(k.doc) = {m}
  BY DEF SourceOf
<1>3. Derived(m) \in Writes(k)
  BY <1>2 DEF Writes
<1>4. Row(m) \in Reads(k) /\ Derived(m) \in Reads(k)
  BY <1>2 DEF Reads
<1>5. CASE j.op \in {"reopen", "reverseMovement"} /\ j.doc = m /\ mov[j.doc].kind = "issue"
  <2>1. Derived(m) \in Reads(j)
    BY <1>5 DEF Reads
  <2>2. Row(m) \in Writes(j)
    BY <1>5 DEF Writes
  <2> QED BY <1>1, <1>3, <1>4, <2>1, <2>2 DEF Conflict
<1>6. CASE j.op = "postDerived" /\ mov[j.doc].kind \in {"return", "scrap"} /\ mov[j.doc].of = m
  <2>1. SourceOf(j.doc) = {m}
    BY <1>6 DEF SourceOf
  <2>2. Derived(m) \in Reads(j)
    BY <1>6, <2>1 DEF Reads
  <2>3. Derived(m) \in Writes(j)
    BY <2>1 DEF Writes
  <2> QED BY <1>1, <1>3, <1>4, <2>2, <2>3 DEF Conflict
<1> QED BY <1>5, <1>6

\* What is left of the disposals of m once a request about m has committed.
LEMMA NoneLeft ==
    ASSUME LedgerInv, NEW s \in Sessions, CommitSerializable(s), job[s].op \in Serializable,
           NEW t \in Sessions, Undoomed(t, "postDerived")', NEW m, m # NoDoc,
           \/ job[s].op \in {"reopen", "reverseMovement"} /\ job[s].doc = m /\ mov[m].kind = "issue"
           \/ job[s].op = "postDerived" /\ mov[job[s].doc].kind \in {"return", "scrap"} /\ mov[job[s].doc].of = m
    PROVE  mov[job[t].doc].of # m
<1>1. /\ t # s /\ ~job[t].doomed /\ job[t].op = "postDerived" /\ ~Conflict(job[s], job[t])
  BY CommitSpares DEF LedgerInv, Undoomed, Serializable
<1>2. mov[job[t].doc].kind \in {"return", "scrap"}
  BY <1>1, PendingDisposal DEF Undoomed
<1> QED BY <1>1, <1>2, DisposalsConflict

LEMMA PostIssueDisposal ==
    ASSUME LedgerInv, LedgerInv', DisposalInv, NEW s \in Sessions, PostCommit(s), job[s].op = "postIssue"
    PROVE  DisposalInv'
<1>1. PICK m : m = job[s].doc
  OBVIOUS
<1>2. /\ m \in Movements /\ OthersSame(m) /\ UNCHANGED overtaken /\ Spares(m) /\ StatusOnly(m, "posted")
      /\ mov[m].kind = "issue"
  BY <1>1, PostDoes
<1> QED BY <1>2, DisposalStatus

LEMMA WithdrawDisposal ==
    ASSUME LedgerInv, LedgerInv', DisposalInv, NEW s \in Sessions, WithdrawCommit(s)
    PROVE  DisposalInv'
<1>1. PICK m : m = job[s].doc
  OBVIOUS
<1>2. /\ m \in Movements /\ OthersSame(m) /\ Spares(m) /\ StatusOnly(m, "draft")
      /\ mov[m].kind = "issue"
      /\ overtaken' = IF mov[m].status \in {"posted", "reversed"} THEN overtaken \cup {m} ELSE overtaken
  BY <1>1, WithdrawDoes
<1>3. m \in overtaken' \/ ~Live(m, "posted")
  BY <1>2 DEF Live
<1> QED BY <1>2, <1>3, DisposalStatus

LEMMA ReopenDisposal ==
    ASSUME LedgerInv, LedgerInv', DisposalInv, NEW s \in Sessions, ReopenCommit(s)
    PROVE  DisposalInv'
<1>1. PICK m : m = job[s].doc
  OBVIOUS
<1>2. /\ m \in Movements /\ OthersSame(m) /\ UNCHANGED overtaken /\ Spares(m) /\ StatusOnly(m, "draft")
      /\ mov[m].kind = "issue" /\ Dependents(m) = {}
      /\ job[s].op = "reopen" /\ CommitSerializable(s) /\ job[s].op \in Serializable
  BY <1>1, ReopenDoes
<1>3. Consumers(m) = {}
  BY <1>2 DEF Consumers
<1>4. \A t \in Sessions : Undoomed(t, "postDerived")' => mov[job[t].doc].of # m
  BY <1>1, <1>2, NoneLeft
<1> QED BY <1>2, <1>3, <1>4, DisposalStatus

LEMMA ReverseDisposal ==
    ASSUME LedgerInv, LedgerInv', DisposalInv, NEW s \in Sessions, NEW r \in Movements, ReverseCommit(s, r)
    PROVE  DisposalInv'
<1>1. PICK m : m = job[s].doc
  OBVIOUS
<1>2. /\ m \in Movements /\ m # r /\ UNCHANGED overtaken /\ Spares(m) /\ Spares(r)
      /\ \A d \in Movements : d # m /\ d # r => mov'[d] = mov[d]
      /\ StatusOnly(m, "reversed") /\ Live(m, "posted")
      /\ mov[m].kind = "issue" => Dependents(m) = {}
      /\ mov[r].status = "none" /\ mov[r].kind = "none" /\ mov'[r].kind = "reversal"
      /\ job[s].op = "reverseMovement" /\ CommitSerializable(s) /\ job[s].op \in Serializable
  <2>1. Reversed(s, r, m)
    BY <1>1, ReverseDoes
  <2> QED BY <2>1 DEF Reversed
<1>3. ASSUME NEW x \in Movements PROVE Fewer(x)
  <2>1. ASSUME NEW d \in Movements, d \in Consumers(x)' PROVE mov'[d] = mov[d]
    BY <1>2, <2>1 DEF Consumers, Dependents, Live, StatusOnly
  <2> QED BY <2>1 DEF Fewer, Consumers, Dependents, Live
<1>4. ASSUME NEW x \in Movements, x # m, x # r PROVE Firm(x)
  BY <1>2, <1>4 DEF Firm, Live
<1>5. ASSUME NEW x \in Movements, Consumers(x)' # {} PROVE Firm(x)
  <2>1. PICK d \in Movements : d \in Consumers(x)
    BY <1>3, <1>5 DEF Fewer, Consumers, Dependents
  <2>2. mov[x].kind = "issue"
    <3>1. x # NoDoc
      OBVIOUS
    <3> QED BY <2>1, <3>1, SourceIsIssue DEF Consumers, Dependents
  <2>3. x # r /\ x # m
    BY <1>2, <2>1, <2>2 DEF Consumers
  <2> QED BY <1>4, <2>3
<1>6. ASSUME NEW t \in Sessions PROVE Pending(t)
  <2>1. SUFFICES ASSUME Undoomed(t, "postDerived")' PROVE Pending(t)
    BY DEF Pending
  <2>2. Undoomed(t, "postDerived") /\ job'[t].doc = job[t].doc /\ job[t].doc # m /\ job[t].doc # r
    BY <1>2, <2>1, SparedDisposal
  <2>3. PICK d : d = job[t].doc
    OBVIOUS
  <2>4. d \in Movements /\ d # m /\ d # r
        /\ (mov[d].of # NoDoc => mov[d].of \in Movements /\ mov[mov[d].of].kind = "issue")
    BY <2>2, <2>3, PendingDisposal
  <2>5. mov[d].of # NoDoc => mov[d].of # m /\ mov[d].of # r
    BY <1>1, <1>2, <2>1, <2>3, <2>4, NoneLeft
  <2>6. mov[d].of # NoDoc => Firm(mov[d].of)
    BY <1>4, <2>4, <2>5
  <2> QED BY <1>2, <2>2, <2>3, <2>4, <2>6 DEF Pending
<1> QED BY <1>2, <1>3, <1>5, <1>6, DisposalKept

\* The posted disposal d joins what its issue m has lost.
LEMMA ConsumedMore ==
    ASSUME LedgerInv, LedgerInv', NEW m, NEW d \in Movements, d \notin Consumers(m),
           Consumers(m)' = Consumers(m) \cup {d},
           \A x \in Movements : mov'[x].qty = mov[x].qty
    PROVE  Consumed(m)' = mov[d].qty + Consumed(m)
<1> DEFINE q == [x \in Movements |-> mov[x].qty]
           r == [x \in Movements |-> mov'[x].qty]
           C == Consumers(m)
<1>1. C \in SUBSET Movements /\ IsFiniteSet(C)
  BY ConsumersTyped
<1>2. \A x \in Movements : q[x] \in Int /\ r[x] = q[x]
  BY LedgerRows
<1>3. IsFiniteSet(C \cup {d}) /\ C \cup {d} \in SUBSET Movements
  BY <1>1, FS_AddElement
<1>4. Consumed(m) = SumOf(q, C) /\ Consumed(m)' = SumOf(r, C \cup {d}) /\ q[d] = mov[d].qty /\ d \notin C
  BY DEF Consumed
<1> HIDE DEF q, r, C
<1>5. SumOf(r, C \cup {d}) = SumOf(q, C \cup {d})
  BY <1>2, <1>3, SumSame
<1>6. SumOf(q, C \cup {d}) = q[d] + SumOf(q, C)
  BY <1>1, <1>2, <1>4, SumAdd
<1> QED BY <1>4, <1>5, <1>6

LEMMA PostDerivedDisposal ==
    ASSUME LedgerInv, LedgerInv', DisposalInv, NEW s \in Sessions, PostCommit(s), job[s].op = "postDerived"
    PROVE  DisposalInv'
<1>1. PICK d, m : d = job[s].doc /\ m = mov[d].of
  OBVIOUS
<1>2. /\ d \in Movements /\ OthersSame(d) /\ UNCHANGED overtaken /\ Spares(d) /\ StatusOnly(d, "posted")
      /\ mov[d].kind \in {"return", "scrap"} /\ Live(d, "draft")
      /\ job[s].op \in Serializable /\ CommitSerializable(s) /\ ~job[s].doomed
  <2>1. job[s].op # "postIssue"
    OBVIOUS
  <2> QED BY <1>1, <2>1, PostDoes
<1>3. \A x \in Movements : /\ mov'[x].kind = mov[x].kind /\ mov'[x].qty = mov[x].qty /\ mov'[x].of = mov[x].of
                           /\ mov'[x].deleted = mov[x].deleted
                           /\ mov'[x].status = IF x = d THEN "posted" ELSE mov[x].status
  BY <1>2 DEF StatusOnly, OthersSame
<1>4. ASSUME NEW x \in Movements PROVE Firm(x)
  BY <1>2, <1>3 DEF Firm, Live
<1>5. ASSUME NEW x \in Movements, x # m PROVE Fewer(x)
  BY <1>1, <1>2, <1>3, <1>5 DEF Fewer, Consumers, Dependents, Live
<1>6. ASSUME NEW t \in Sessions PROVE /\ Pending(t)
                                      /\ Undoomed(t, "postDerived")' /\ m # NoDoc => mov[job[t].doc].of # m
  <2>1. SUFFICES ASSUME Undoomed(t, "postDerived")'
                 PROVE  Pending(t) /\ (m # NoDoc => mov[job[t].doc].of # m)
    BY DEF Pending
  <2>2. Undoomed(t, "postDerived") /\ job'[t].doc = job[t].doc /\ job[t].doc # d
    BY <1>2, <2>1, SparedDisposal
  <2>3. job[t].doc \in Movements /\ (mov[job[t].doc].of # NoDoc => mov[job[t].doc].of \in Movements)
    BY <2>2, PendingDisposal
  <2>4. m # NoDoc => mov[job[t].doc].of # m
    BY <1>1, <1>2, <2>1, NoneLeft
  <2> QED BY <1>3, <1>4, <2>2, <2>3, <2>4 DEF Pending
<1>7. CASE m = NoDoc
  BY <1>2, <1>4, <1>5, <1>6, <1>7, DisposalKept
<1>8. CASE m # NoDoc
  <2>1. m \in Movements /\ mov[m].kind = "issue" /\ m # d
    BY <1>1, <1>2, <1>8, SourceIsIssue
  <2>2. /\ mov[m].deleted \/ mov[d].qty + Consumed(m) <= mov[m].qty
        /\ m \in overtaken \/ Live(m, "posted")
    BY <1>1, <1>2, <1>8 DEF DisposalInv, DisposalsFit, Undoomed
  <2>3. Consumers(m)' = Consumers(m) \cup {d} /\ d \notin Consumers(m)
    BY <1>1, <1>2, <1>3 DEF Consumers, Dependents, Live
  <2>4. Consumed(m)' = mov[d].qty + Consumed(m)
    BY <1>2, <1>3, <2>3, ConsumedMore
  <2>5. ASSUME NEW x \in Movements
        PROVE  /\ Consumed(x) \in Nat /\ Consumed(x)' \in Nat /\ mov[x].qty \in Nat
               /\ x # m => Consumed(x)' <= Consumed(x) /\ (Consumers(x)' # {} => Consumers(x) # {})
    <3>1. Consumed(x) \in Nat /\ mov[x].qty \in Nat /\ Consumed(x)' \in Nat
      BY ConsumersTyped, LedgerRows, SumsStayTyped DEF SumsTyped
    <3>2. Consumers(x)' \subseteq Movements
      BY DEF Consumers, Dependents
    <3> QED BY <1>5, <3>1, <3>2, ConsumedFewer DEF Fewer
  <2>6. ASSUME NEW x \in Movements
        PROVE  /\ mov'[x].kind = "issue" /\ ~mov'[x].deleted => Consumed(x)' <= mov'[x].qty
               /\ x \notin overtaken' /\ Consumers(x)' # {} => Live(x, "posted")'
    <3>1. CASE x = m
      <4>1. Live(m, "posted") => Live(m, "posted")'
        BY <1>3, <2>1 DEF Live
      <4> QED BY <1>2, <1>3, <2>2, <2>4, <3>1, <4>1
    <3>2. CASE x # m
      <4>1. Live(x, "posted") => Live(x, "posted")'
        BY <1>3 DEF Live
      <4>2. /\ mov[x].kind = "issue" /\ ~mov[x].deleted => Consumed(x) <= mov[x].qty
            /\ x \notin overtaken /\ Consumers(x) # {} => Live(x, "posted")
        BY DEF DisposalInv, DisposedWithinIssue
      <4> QED BY <1>2, <1>3, <2>5, <3>2, <4>1, <4>2
    <3> QED BY <3>1, <3>2
  <2>7. ASSUME NEW t \in Sessions, Undoomed(t, "postDerived")', mov'[job'[t].doc].of # NoDoc
        PROVE  /\ mov'[mov'[job'[t].doc].of].deleted
                  \/ mov'[job'[t].doc].qty + Consumed(mov[job[t].doc].of)' <= mov'[mov'[job'[t].doc].of].qty
               /\ mov'[job'[t].doc].of \in overtaken' \/ Live(mov[job[t].doc].of, "posted")'
    <3>1. PICK e, x : e = job[t].doc /\ x = mov[e].of
      OBVIOUS
    <3>2. Undoomed(t, "postDerived") /\ job'[t].doc = e /\ mov'[e].of = x /\ mov'[e].qty = mov[e].qty /\ x # NoDoc /\ x # m
      BY <1>6, <1>8, <2>7, <3>1 DEF Pending
    <3>3. e \in Movements /\ x \in Movements /\ mov[e].qty \in Nat
      BY <3>1, <3>2, PendingDisposal, LedgerRows
    <3>4. /\ mov[x].deleted \/ mov[e].qty + Consumed(x) <= mov[x].qty
          /\ x \in overtaken \/ Live(x, "posted")
      BY <3>1, <3>2 DEF DisposalInv, DisposalsFit
    <3>5. mov'[x].deleted \/ mov'[e].qty + Consumed(x)' <= mov'[x].qty
      BY <1>3, <2>5, <3>2, <3>3, <3>4
    <3>6. x \in overtaken' \/ Live(x, "posted")'
      BY <1>2, <1>3, <3>3, <3>4 DEF Live
    <3> QED BY <3>2, <3>5, <3>6
  <2> QED BY <2>6, <2>7 DEF DisposalInv, DisposedWithinIssue, DisposalsFit
<1> QED BY <1>7, <1>8

\* The stores' books untouched: requests may begin and end.
LEMMA DisposalSame ==
    ASSUME LedgerInv, DisposalInv, UNCHANGED <<mov, overtaken>>,
           \A t \in Sessions : Undoomed(t, "postDerived")' => Undoomed(t, "postDerived") /\ job'[t].doc = job[t].doc
    PROVE  DisposalInv'
<1>1. \A m : Consumers(m)' = Consumers(m) /\ Consumed(m)' = Consumed(m) /\ (Live(m, "posted")' <=> Live(m, "posted"))
  BY DEF Consumers, Dependents, Consumed, Live
<1>2. DisposedWithinIssue'
  BY <1>1 DEF DisposalInv, DisposedWithinIssue
<1>3. DisposalsFit'
  BY <1>1 DEF DisposalInv, DisposalsFit
<1> QED BY <1>2, <1>3 DEF DisposalInv

LEMMA DisposalForeign ==
    ASSUME LedgerInv, DisposalInv, Keeps(MovementOps), UNCHANGED <<mov, overtaken>>
    PROVE  DisposalInv'
<1>1. "postDerived" \in MovementOps
  BY DEF MovementOps, Serializable
<1> QED BY <1>1, DisposalSame DEF Keeps, Undoomed

LEMMA BeginDisposal ==
    ASSUME LedgerInv, DisposalInv, NEW s \in Sessions, NEW op, NEW m, NEW arg,
           Start(s, op, m, arg), op # "postDerived", UNCHANGED <<tables, desk, past>>
    PROVE  DisposalInv'
<1>1. TypeInv
  BY DEF LedgerInv
<1>2. (\A t \in Sessions : t # s => job'[t] = job[t]) /\ job'[s].op = op
  BY <1>1, StartKeeps
<1> QED BY <1>2, DisposalSame DEF Undoomed, tables, past

LEMMA PostDerivedBegun ==
    ASSUME LedgerInv, DisposalInv, NEW s \in Sessions, NEW m \in Movements, PostDerivedBegin(s, m)
    PROVE  DisposalInv'
<1>1. TypeInv /\ Start(s, "postDerived", m, 0) /\ DerivedLinesFit(mov[m].of, mov[m].qty) /\ UNCHANGED <<mov, overtaken>>
  BY DEF LedgerInv, PostDerivedBegin, tables, past
<1>2. (\A t \in Sessions : t # s => job'[t] = job[t]) /\ job'[s].doc = m
  BY <1>1, StartKeeps
<1>3. \A x : Consumers(x)' = Consumers(x) /\ Consumed(x)' = Consumed(x) /\ (Live(x, "posted")' <=> Live(x, "posted"))
  BY <1>1 DEF Consumers, Dependents, Consumed, Live
<1>4. DisposedWithinIssue'
  BY <1>1, <1>3 DEF DisposalInv, DisposedWithinIssue
<1>5. mov[m].qty + Consumed(mov[m].of) <= mov[mov[m].of].qty /\ Live(mov[m].of, "posted")
  <2>1. mov[m].of \in Movements /\ mov[m].qty \in Nat
    BY <1>1, LedgerRows DEF DerivedLinesFit
  <2>2. Consumed(mov[m].of) \in Nat /\ mov[mov[m].of].qty \in Nat
    BY <2>1, ConsumersTyped, LedgerRows
  <2> QED BY <1>1, <2>1, <2>2 DEF DerivedLinesFit
<1>6. DisposalsFit'
  BY <1>1, <1>2, <1>3, <1>5 DEF DisposalInv, DisposalsFit, Undoomed
<1> QED BY <1>4, <1>6 DEF DisposalInv

LEMMA NextDisposal == ASSUME LedgerInv, DisposalInv, [Next]_allVars PROVE DisposalInv'
<1>1. TypeInv /\ LedgerInv'
  BY NextLedger DEF LedgerInv
<1>2. CASE OutboundStep
  <2>1. ASSUME NEW m \in Movements, NEW q \in Qty, CreateIssue(m, q) PROVE DisposalInv'
    BY <1>1, <2>1, CreateDoes, CreateDisposal
  <2>2. ASSUME NEW m \in Movements, SubmitOutbound(m) PROVE DisposalInv'
    <3>1. /\ OthersSame(m) /\ UNCHANGED overtaken /\ Spares(m) /\ StatusOnly(m, "pending_outbound")
          /\ ~Live(m, "posted")
      BY <2>2, SubmitDoes DEF Live
    <3> QED BY <1>1, <3>1, DisposalStatus
  <2>3. ASSUME NEW s \in Sessions, NEW m \in Movements, PostOutboundBegin(s, m) PROVE DisposalInv'
    BY <2>3, BeginDisposal DEF PostOutboundBegin
  <2>4. ASSUME NEW s \in Sessions, PostCommit(s) PROVE DisposalInv'
    BY <1>1, <2>4, PostIssueDisposal, PostDerivedDisposal DEF PostCommit
  <2> QED BY <1>2, <2>1, <2>2, <2>3, <2>4 DEF OutboundStep
<1>3. CASE CorrectingStep
  <2>1. ASSUME NEW m \in Movements, NEW q \in Qty, UpdateIssue(m, q) PROVE DisposalInv'
    BY <1>1, <2>1, UpdateDisposal
  <2>2. ASSUME NEW m \in Movements, NEW of \in Movements, NEW kind \in {"return", "scrap"}, NEW q \in Qty,
               CreateDerived(m, kind, of, q)
        PROVE  DisposalInv'
    BY <1>1, <2>2, CreateDoes, CreateDisposal
  <2>3. ASSUME NEW m \in Movements, RemoveIssue(m) PROVE DisposalInv'
    BY <1>1, <2>3, RemoveDisposal
  <2>4. ASSUME NEW s \in Sessions, NEW m \in Movements, PostDerivedBegin(s, m) PROVE DisposalInv'
    BY <2>4, PostDerivedBegun
  <2>5. ASSUME NEW s \in Sessions, NEW m \in Movements, WithdrawBegin(s, m) PROVE DisposalInv'
    BY <2>5, BeginDisposal DEF WithdrawBegin
  <2>6. ASSUME NEW s \in Sessions, NEW m \in Movements, ReopenBegin(s, m) PROVE DisposalInv'
    BY <2>6, BeginDisposal DEF ReopenBegin
  <2>7. ASSUME NEW s \in Sessions, NEW m \in Movements, ReverseBegin(s, m) PROVE DisposalInv'
    BY <2>7, BeginDisposal DEF ReverseBegin
  <2>8. ASSUME NEW s \in Sessions, NEW r \in Movements, ReverseCommit(s, r) PROVE DisposalInv'
    BY <1>1, <2>8, ReverseDisposal
  <2>9. ASSUME NEW s \in Sessions, WithdrawCommit(s) PROVE DisposalInv'
    BY <1>1, <2>9, WithdrawDisposal
  <2>10. ASSUME NEW s \in Sessions, ReopenCommit(s) PROVE DisposalInv'
    BY <1>1, <2>10, ReopenDisposal
  <2> QED BY <1>3, <2>1, <2>2, <2>3, <2>4, <2>5, <2>6, <2>7, <2>8, <2>9, <2>10 DEF CorrectingStep
<1>4. CASE Keeps(MovementOps) /\ UNCHANGED <<mov, overtaken>>
  BY <1>4, DisposalForeign
<1>5. CASE InspectionStep \/ InboundStep \/ PayableStep \/ ReversalStep
  BY <1>1, <1>4, <1>5, ReceivingFrame, KeepsFewer
<1>6. CASE StocktakeStep
  BY <1>1, <1>4, <1>6, StocktakeFrame, KeepsFewer
<1>7. CASE Keeps(AllOps) /\ UNCHANGED <<tables, past, count>>
  BY <1>4, <1>7, KeepsFewer, MovementOpsKnown DEF tables, past
<1> QED BY <1>1, <1>2, <1>3, <1>5, <1>6, <1>7, Steps

LEMMA InitDisposal == Init => DisposalInv
<1>1. SUFFICES ASSUME Init PROVE DisposalInv
  OBVIOUS
<1>2. \A s \in Sessions : job[s].op = "idle"
  BY <1>1, IdleTyped DEF Init
<1>3. \A m \in Movements : mov[m] = NoMovement
  BY <1>1 DEF Init
<1>4. \A m : Consumers(m) = {}
  BY <1>3 DEF Consumers, Dependents, Live, NoMovement
<1>5. DisposedWithinIssue
  BY <1>3, <1>4 DEF DisposedWithinIssue, NoMovement
<1>6. DisposalsFit
  BY <1>2 DEF DisposalsFit, Undoomed
<1> QED BY <1>5, <1>6 DEF DisposalInv

(* The ledger and the disposals, which rely on it.                         *)
THEOREM MaterialsDisposalInv == Spec => [](LedgerInv /\ DisposalInv)
<1>1. LedgerInv /\ DisposalInv /\ [Next]_<<vars, count>> => (LedgerInv /\ DisposalInv)'
  BY NextLedger, NextDisposal DEF allVars
<1>2. Init => LedgerInv /\ DisposalInv
  BY InitLedger, InitDisposal
<1> QED BY <1>1, <1>2, PTL DEF Spec

(* However many returns and scraps of an issue are posted at the same      *)
(* time, and whatever is reopened or reversed meanwhile: together they     *)
(* never dispose of more than was issued, and the issue is still posted.   *)
THEOREM MaterialsDisposedWithinIssue == Spec => []DisposedWithinIssue
<1>1. LedgerInv /\ DisposalInv => DisposedWithinIssue
  BY DEF DisposalInv
<1> QED BY <1>1, MaterialsDisposalInv, PTL

-----------------------------------------------------------------------------
(* Inspections.  What of a batch is in stock or about to be was within the *)
(* accepted quantity when the last of it was let in, and that quantity is  *)
(* below the peak ever after.                                              *)
LEMMA InboundRowTyped ==
    ASSUME TypeInv, NEW b \in Inbounds
    PROVE  inb[b] \in InboundRows /\ inb[b].qty \in Int /\ inb[b].deleted \in BOOLEAN
<1>1. inb[b] \in InboundRows
  BY DEF TypeInv, TypeOK
<1> QED BY <1>1 DEF InboundRows

LEMMA QtyFewer ==
    ASSUME TypeInv, NEW A, NEW B \in SUBSET Inbounds, A \subseteq B, \A b \in B : inb[b].qty > 0
    PROVE  QtyOf(A) \in Nat /\ QtyOf(B) \in Nat /\ QtyOf(A) <= QtyOf(B)
<1> DEFINE q == [b \in Inbounds |-> inb[b].qty]
<1>1. \A b \in B : q[b] \in Nat
  BY InboundRowTyped
<1>2. IsFiniteSet(B) /\ IsFiniteSet(A)
  BY FS_Subset
<1> HIDE DEF q
<1>3. SumOf(q, A) \in Nat /\ SumOf(q, B) \in Nat /\ SumOf(q, A) <= SumOf(q, B)
  BY <1>1, <1>2, SumNat, SumSubset
<1> QED BY <1>3 DEF QtyOf, q

LEMMA QtyMore ==
    ASSUME TypeInv, NEW B \in SUBSET Inbounds, NEW b \in Inbounds, b \notin B
    PROVE  QtyOf(B \cup {b}) = inb[b].qty + QtyOf(B)
<1> DEFINE q == [x \in Inbounds |-> inb[x].qty]
<1>1. \A x \in Inbounds : q[x] \in Int
  BY InboundRowTyped
<1>2. IsFiniteSet(B) /\ q[b] = inb[b].qty
  BY FS_Subset
<1> HIDE DEF q
<1>3. SumOf(q, B \cup {b}) = q[b] + SumOf(q, B)
  BY <1>1, <1>2, SumAdd
<1> QED BY <1>2, <1>3 DEF QtyOf, q

LEMMA QtyKept ==
    ASSUME TypeInv, NEW B \in SUBSET Inbounds, \A b \in B : inb'[b].qty = inb[b].qty
    PROVE  SumOf([b \in Inbounds |-> inb'[b].qty], B) = QtyOf(B)
<1> DEFINE q == [b \in Inbounds |-> inb[b].qty]
           r == [b \in Inbounds |-> inb'[b].qty]
<1>1. IsFiniteSet(B) /\ \A b \in B : q[b] \in Int /\ r[b] = q[b]
  BY FS_Subset, InboundRowTyped
<1> HIDE DEF q, r
<1>2. SumOf(r, B) = SumOf(q, B)
  BY <1>1, SumSame
<1> QED BY <1>2 DEF QtyOf, q, r

LEMMA InspectionKept ==
    ASSUME TypeInv, TypeInv', InspectionInv, overdrawn \subseteq overdrawn',
           \A i \in Batches : peak[i] <= peak'[i] /\ batch'[i].accepted <= peak'[i],
           \A i \in Batches \ overdrawn' : \A b \in Inbounds :
             /\ b \in InboundsOf(i)' => inb'[b].qty > 0
             /\ b \in Admitted(i)' => b \in Admitted(i) /\ inb'[b].qty = inb[b].qty
    PROVE  InspectionInv'
<1>1. WithinPeak'
  BY DEF WithinPeak
<1>2. ASSUME NEW i \in Batches \ overdrawn' PROVE QtyOf(Admitted(i))' <= peak'[i]
  <2>1. PICK A : A = Admitted(i)'
    OBVIOUS
  <2>2. A \in SUBSET Inbounds /\ Admitted(i) \in SUBSET Inbounds /\ A \subseteq Admitted(i)
        /\ \A b \in A : inb'[b].qty = inb[b].qty
    BY <2>1 DEF Admitted, InboundsOf
  <2>3. QtyOf(Admitted(i)) <= peak[i] /\ \A b \in Admitted(i) : inb[b].qty > 0
    BY DEF InspectionInv, AdmittedWithinInspection, Admitted
  <2>4. QtyOf(A) \in Nat /\ QtyOf(Admitted(i)) \in Nat /\ QtyOf(A) <= QtyOf(Admitted(i))
    BY <2>2, <2>3, QtyFewer
  <2>5. QtyOf(Admitted(i))' = QtyOf(A)
    BY <2>1, <2>2, QtyKept DEF QtyOf
  <2>6. peak[i] \in Nat /\ peak'[i] \in Nat /\ peak[i] <= peak'[i]
    BY DEF TypeInv, TypeOK
  <2> QED BY <2>3, <2>4, <2>5, <2>6
<1>3. AdmittedWithinInspection'
  BY <1>2 DEF AdmittedWithinInspection, InboundsOf
<1> QED BY <1>1, <1>3 DEF InspectionInv

\* Inbounds, or requests about them, change; inspections do not.
LEMMA InboundsChange ==
    ASSUME TypeInv, TypeInv', InspectionInv, UNCHANGED <<batch, peak>>, overdrawn \subseteq overdrawn',
           \A i \in Batches \ overdrawn' : \A b \in Inbounds :
             /\ b \in InboundsOf(i)' => inb'[b].qty > 0
             /\ b \in Admitted(i)' => b \in Admitted(i) /\ inb'[b].qty = inb[b].qty
    PROVE  InspectionInv'
<1>1. \A i \in Batches : peak[i] <= peak'[i] /\ batch'[i].accepted <= peak'[i]
  BY DEF InspectionInv, WithinPeak, TypeInv, TypeOK
<1> QED BY <1>1, InspectionKept

\* No inbound changes, and none is let in.
LEMMA NoneAdmitted ==
    ASSUME TypeInv, TypeInv', InspectionInv, UNCHANGED <<batch, peak, inb, overdrawn>>,
           \A t \in Sessions : job'[t].op = "postInbound" => job[t].op = "postInbound" /\ job'[t].doc = job[t].doc
    PROVE  InspectionInv'
<1>1. \A i \in Batches : InboundsOf(i)' = InboundsOf(i) /\ Admitted(i)' \subseteq Admitted(i)
  BY DEF InboundsOf, Admitted
<1>2. \A i \in Batches \ overdrawn : \A b \in InboundsOf(i) : inb[b].qty > 0
  BY DEF InspectionInv, AdmittedWithinInspection
<1>3. overdrawn \subseteq overdrawn'
  OBVIOUS
<1>4. ASSUME NEW i \in Batches \ overdrawn', NEW b \in Inbounds
      PROVE  /\ b \in InboundsOf(i)' => inb'[b].qty > 0
             /\ b \in Admitted(i)' => b \in Admitted(i) /\ inb'[b].qty = inb[b].qty
  BY <1>1, <1>2
<1> QED BY <1>3, <1>4, InboundsChange

\* The row of b becomes row; whoever was about to post an inbound still is.
LEMMA RowChange ==
    ASSUME TypeInv, TypeInv', InspectionInv, UNCHANGED <<batch, peak>>, overdrawn \subseteq overdrawn',
           NEW b \in Inbounds, NEW row, \A x \in Inbounds : inb'[x] = IF x = b THEN row ELSE inb[x],
           \A t \in Sessions : job'[t].op = "postInbound" => job[t].op = "postInbound" /\ job'[t].doc = job[t].doc,
           ~row.deleted /\ row.batch \in Batches \ overdrawn' => row.qty > 0,
           \A i \in Batches : b \in Admitted(i)' => b \in Admitted(i) /\ row.qty = inb[b].qty
    PROVE  InspectionInv'
<1>1. ASSUME NEW i \in Batches \ overdrawn', NEW x \in Inbounds
      PROVE  /\ x \in InboundsOf(i)' => inb'[x].qty > 0
             /\ x \in Admitted(i)' => x \in Admitted(i) /\ inb'[x].qty = inb[x].qty
  <2>1. CASE x = b
    BY <2>1 DEF InboundsOf
  <2>2. CASE x # b
    <3>1. inb'[x] = inb[x]
      BY <2>2
    <3>2. x \in InboundsOf(i) => inb[x].qty > 0
      BY DEF InspectionInv, AdmittedWithinInspection
    <3>3. x \in InboundsOf(i)' <=> x \in InboundsOf(i)
      BY <3>1 DEF InboundsOf
    <3>4. x \in Admitted(i)' => x \in Admitted(i)
      BY <3>1, <3>3 DEF Admitted
    <3> QED BY <3>1, <3>2, <3>3, <3>4
  <2> QED BY <2>1, <2>2
<1> QED BY <1>1, InboundsChange

\* The row of b becomes row: b leaves the stock, or is not in it yet.
LEMMA RowOut ==
    ASSUME TypeInv, TypeInv', InspectionInv, UNCHANGED <<batch, peak>>, overdrawn \subseteq overdrawn',
           NEW b \in Inbounds, NEW row, Rewritten(b, row), Keeps(InboundOps),
           ~row.deleted /\ row.batch \in Batches \ overdrawn' => row.qty > 0,
           \/ row.deleted
           \/ row.status # "posted" /\ \A t \in Sessions : job'[t].doc = b => job'[t].op # "postInbound"
    PROVE  InspectionInv'
<1>1. \A x \in Inbounds : inb'[x] = IF x = b THEN row ELSE inb[x]
  BY DEF Rewritten, TypeInv, TypeOK
<1>2. \A t \in Sessions : job'[t].op = "postInbound" => job[t].op = "postInbound" /\ job'[t].doc = job[t].doc
  BY DEF Keeps, InboundOps
<1>3. \A i \in Batches : b \notin Admitted(i)'
  BY <1>1 DEF Admitted, InboundsOf
<1> QED BY <1>1, <1>2, <1>3, RowChange

\* Only what Admitted does not look at changes.
LEMMA RowIn ==
    ASSUME TypeInv, TypeInv', InboundInv, InspectionInv, UNCHANGED <<batch, peak, overdrawn>>,
           NEW b \in Inbounds, NEW row, Rewritten(b, row), Keeps(InboundOps),
           row.deleted = inb[b].deleted, row.batch = inb[b].batch, row.qty = inb[b].qty,
           row.status = "posted" => inb[b].status = "posted" \/ \E s \in Sessions : job[s].op = "postInbound" /\ job[s].doc = b
    PROVE  InspectionInv'
<1>1. \A x \in Inbounds : inb'[x] = IF x = b THEN row ELSE inb[x]
  BY DEF Rewritten, TypeInv, TypeOK
<1>2. \A t \in Sessions : job'[t].op = "postInbound" => job[t].op = "postInbound" /\ job'[t].doc = job[t].doc
  BY DEF Keeps, InboundOps
<1>3. ASSUME NEW i \in Batches, b \in Admitted(i)' PROVE b \in Admitted(i) /\ row.qty = inb[b].qty
  BY <1>1, <1>2, <1>3 DEF Admitted, InboundsOf
<1>4. ~row.deleted /\ row.batch \in Batches \ overdrawn' => row.qty > 0
  BY DEF InspectionInv, AdmittedWithinInspection, InboundsOf
<1>5. overdrawn \subseteq overdrawn'
  OBVIOUS
<1> QED BY <1>1, <1>2, <1>3, <1>4, <1>5, RowChange

\* A request about something else than posting begins, or one ends.
LEMMA InspectionSame ==
    ASSUME TypeInv, TypeInv', InspectionInv, UNCHANGED <<batch, peak, inb, overdrawn>>, Keeps({"postInbound"})
    PROVE  InspectionInv'
BY NoneAdmitted DEF Keeps

LEMMA InspectionStepInv == ASSUME TypeInv, TypeInv', InspectionInv, InspectionStep PROVE InspectionInv'
<1>1. Keeps({"postInbound"}) /\ UNCHANGED <<inb, overdrawn>>
  BY InspectionFrame, KeepsFewer DEF InboundOps
<1>2. ASSUME NEW s \in Sessions, WriteBatch(s), job[s].op \in BatchOps PROVE InspectionInv'
  <2>1. PICK i, row : i = job[s].doc /\ row = job[s].row
    OBVIOUS
  <2>2. i \in Batches /\ row \in BatchRows
    BY <1>2, <2>1 DEF TypeInv, TypeOK, JobShape, Shaped, Jobs
  <2>3. row.accepted \in Nat
    BY <2>2 DEF BatchRows
  <2>4. batch' = [batch EXCEPT ![i] = row]
        /\ peak' = [peak EXCEPT ![i] = IF row.accepted > peak[i] THEN row.accepted ELSE peak[i]]
    BY <1>2, <2>1 DEF WriteBatch
  <2>5. \A x \in Batches : peak[x] \in Nat /\ batch[x].accepted <= peak[x]
    BY DEF TypeInv, TypeOK, InspectionInv, WithinPeak
  <2>6. \A x \in Batches : peak[x] <= peak'[x] /\ batch'[x].accepted <= peak'[x]
    <3>1. \A x \in Batches : /\ batch'[x] = IF x = i THEN row ELSE batch[x]
                             /\ peak'[x] = IF x = i /\ row.accepted > peak[i] THEN row.accepted ELSE peak[x]
      BY <2>2, <2>4 DEF TypeInv, TypeOK
    <3> QED BY <2>2, <2>3, <2>5, <3>1
  <2>7. ASSUME NEW x \in Batches \ overdrawn', NEW b \in Inbounds
        PROVE  /\ b \in InboundsOf(x)' => inb'[b].qty > 0
               /\ b \in Admitted(x)' => b \in Admitted(x) /\ inb'[b].qty = inb[b].qty
    BY <1>1 DEF InspectionInv, AdmittedWithinInspection, InboundsOf, Admitted, Keeps
  <2>8. overdrawn \subseteq overdrawn'
    BY <1>1
  <2> QED BY <2>6, <2>7, <2>8, InspectionKept
<1>3. ASSUME UNCHANGED <<batch, peak>> PROVE InspectionInv'
  BY <1>1, <1>3, InspectionSame
<1>4. (\E s \in Sessions : WriteBatch(s) /\ job[s].op \in BatchOps) \/ UNCHANGED <<batch, peak>>
  BY DEF InspectionStep, InspectBegin, CorrectBegin, TransitionBegin, ReturnToSupplierBegin, InspectCommit,
         LockedWriteCommit, Working, tables, past, BatchOps
<1> QED BY <1>2, <1>3, <1>4

LEMMA PostingAdmitted ==
    ASSUME TypeInv, TypeInv', InboundInv, InspectionInv, NEW s \in Sessions, NEW b \in Inbounds, PostInboundBegin(s, b)
    PROVE  InspectionInv'
<1>1. PICK i : i = inb[b].batch
  OBVIOUS
<1>2. /\ ~InboundLocked(b) /\ inb[b].status = "draft" /\ ~inb[b].deleted
      /\ inb[b].qty + Used(InboundsOf(i) \ {b}) <= batch[i].accepted
      /\ Start(s, "postInbound", b, 0) /\ UNCHANGED <<batch, peak, inb, overdrawn>>
  BY <1>1 DEF PostInboundBegin, tables, past
<1>3. i \in Batches
  BY <1>1, <1>2 DEF InboundInv, InboundRowsFit
<1>4. (\A t \in Sessions : t # s => job'[t] = job[t]) /\ job'[s].op = "postInbound" /\ job'[s].doc = b /\ job[s] = Idle
  BY <1>2, StartKeeps
<1>5. ASSUME NEW x \in Batches PROVE /\ InboundsOf(x)' = InboundsOf(x)
                                     /\ Admitted(x)' = IF x = i THEN Admitted(x) \cup {b} ELSE Admitted(x)
  <2>1. InboundsOf(x)' = InboundsOf(x) /\ (b \in InboundsOf(x) <=> x = i)
    BY <1>1, <1>2 DEF InboundsOf
  <2>2. job[s].op # "postInbound"
    BY <1>4, IdleTyped
  <2>3. ASSUME NEW c \in InboundsOf(x) PROVE c \in Admitted(x)' <=> c \in Admitted(x) \/ c = b
    BY <1>2, <1>4, <2>1, <2>2 DEF Admitted
  <2>4. Admitted(x) \subseteq InboundsOf(x) /\ Admitted(x)' \subseteq InboundsOf(x)
    BY <2>1 DEF Admitted
  <2> QED BY <2>1, <2>3, <2>4
<1>6. WithinPeak'
  BY <1>2 DEF InspectionInv, WithinPeak
<1>7. ASSUME i \notin overdrawn PROVE QtyOf(Admitted(i) \cup {b}) <= peak[i]
  <2>1. \A c \in InboundsOf(i) : inb[c].qty > 0
    BY <1>3, <1>7 DEF InspectionInv, AdmittedWithinInspection
  <2>2. InboundsOf(i) \in SUBSET Inbounds /\ Admitted(i) \subseteq InboundsOf(i)
    BY DEF InboundsOf, Admitted
  <2>3. ASSUME NEW c \in Admitted(i) PROVE c # b /\ inb[c].status # "reversed"
    <3>1. inb[c].status = "posted" \/ \E t \in Sessions : job[t].op = "postInbound" /\ job[t].doc = c
      BY DEF Admitted
    <3>2. (\E t \in Sessions : job[t].op = "postInbound" /\ job[t].doc = c) => c # b /\ inb[c].status = "draft"
      BY <1>2 DEF InboundLocked, InboundInv, InboundsHeld
    <3> QED BY <1>2, <3>1, <3>2
  <2>4. PICK U : U = {c \in InboundsOf(i) \ {b} : inb[c].status # "reversed"}
    OBVIOUS
  <2>5. Admitted(i) \subseteq U /\ U \in SUBSET Inbounds /\ \A c \in U : inb[c].qty > 0
    BY <2>1, <2>2, <2>3, <2>4
  <2>6. QtyOf(Admitted(i)) \in Nat /\ QtyOf(U) \in Nat /\ QtyOf(Admitted(i)) <= QtyOf(U)
    BY <2>5, QtyFewer
  <2>7. Used(InboundsOf(i) \ {b}) = QtyOf(U)
    BY <2>4 DEF Used
  <2>8. QtyOf(Admitted(i) \cup {b}) = inb[b].qty + QtyOf(Admitted(i))
    BY <2>2, <2>3, QtyMore
  <2>9. batch[i].accepted <= peak[i] /\ peak[i] \in Nat /\ batch[i].accepted \in Nat /\ inb[b].qty \in Int
    <3>1. batch[i] \in BatchRows
      BY <1>3 DEF TypeInv, TypeOK
    <3>2. batch[i].accepted \in Nat
      BY <3>1 DEF BatchRows
    <3> QED BY <1>3, <3>2, InboundRowTyped DEF InspectionInv, WithinPeak, TypeInv, TypeOK
  <2> QED BY <1>2, <2>6, <2>7, <2>8, <2>9
<1>8. ASSUME NEW x \in Batches \ overdrawn PROVE QtyOf(Admitted(x))' <= peak[x]
  <2>1. QtyOf(Admitted(x))' = QtyOf(IF x = i THEN Admitted(x) \cup {b} ELSE Admitted(x))
    BY <1>2, <1>5 DEF QtyOf
  <2>2. QtyOf(Admitted(x)) <= peak[x]
    BY DEF InspectionInv, AdmittedWithinInspection
  <2> QED BY <1>7, <2>1, <2>2
<1>9. AdmittedWithinInspection'
  BY <1>2, <1>5, <1>8 DEF InspectionInv, AdmittedWithinInspection
<1> QED BY <1>6, <1>9 DEF InspectionInv

LEMMA InboundInspection ==
    ASSUME TypeInv, TypeInv', InboundInv, InspectionInv, InboundStep PROVE InspectionInv'
<1>1. InboundOps \subseteq AllOps /\ \A op \in BatchOps : op \notin InboundOps
  BY OpsApart DEF AllOps
<1>2. \A s \in Sessions : Done(s) => Keeps(InboundOps)
  BY <1>1, DoneKeeps, KeepsFewer
<1>3. ASSUME Keeps(InboundOps) PROVE Keeps({"postInbound"})
  BY <1>3, KeepsFewer DEF InboundOps
<1>4. ASSUME NEW s \in Sessions, NEW i \in Batches, NEW q \in Qty, RegisterBegin(s, i, q) PROVE InspectionInv'
  <2>1. Keeps({"postInbound"})
    BY <1>1, <1>3, <1>4, StartKeeps DEF RegisterBegin, BatchOps
  <2> QED BY <1>4, <2>1, InspectionSame DEF RegisterBegin, tables, past
<1>5. ASSUME NEW s \in Sessions, NEW b \in Inbounds, RegisterCommit(s, b) PROVE InspectionInv'
  <2> DEFINE row == [NoInbound EXCEPT !.status = "draft", !.qty = job[s].arg, !.batch = job[s].doc]
  <2>1. row.status = "draft" /\ row.qty = job[s].arg
    BY DEF NoInbound
  <2>2. Keeps(InboundOps) /\ Rewritten(b, row) /\ inb[b].status = "none" /\ UNCHANGED <<batch, peak, overdrawn>>
    BY <1>2, <1>5 DEF RegisterCommit, Rewritten, past
  <2>3. job[s].arg > 0
    BY <1>5 DEF RegisterCommit, Working, TypeInv, JobShape, Shaped, Qty
  <2>4. \A t \in Sessions : job'[t].doc = b => job'[t].op # "postInbound"
    BY <2>2 DEF Keeps, InboundInv, InboundsHeld, InboundOps
  <2> HIDE DEF row
  <2>5. overdrawn \subseteq overdrawn' /\ UNCHANGED <<batch, peak>>
    BY <2>2
  <2> QED BY <2>1, <2>2, <2>3, <2>4, <2>5, RowOut
<1>6. ASSUME NEW s \in Sessions, NEW b \in Inbounds, PostInboundBegin(s, b) PROVE InspectionInv'
  BY <1>6, PostingAdmitted
<1>7. ASSUME NEW s \in Sessions, NEW b \in Inbounds, RemoveInboundBegin(s, b) PROVE InspectionInv'
  <2>1. Keeps({"postInbound"})
    BY <1>7, StartKeeps DEF RemoveInboundBegin
  <2> QED BY <1>7, <2>1, InspectionSame DEF RemoveInboundBegin, tables, past
<1>8. ASSUME NEW s \in Sessions, PostInboundCommit(s) PROVE InspectionInv'
  <2> DEFINE b == job[s].doc
             row == [inb[b] EXCEPT !.status = "posted",
                                   !.source = IF @ \in {"none", "voided"} THEN "pending_finance" ELSE @]
  <2>1. b \in Inbounds /\ inb[b] \in InboundRows
    BY <1>8, InboundJobTyped DEF PostInboundCommit, Working, InboundOps
  <2>2. row.deleted = inb[b].deleted /\ row.qty = inb[b].qty /\ row.batch = inb[b].batch
    BY <2>1 DEF InboundRows
  <2>3. Keeps(InboundOps) /\ Rewritten(b, row) /\ UNCHANGED <<batch, peak, overdrawn>>
    BY <1>2, <1>8 DEF PostInboundCommit, Rewritten, past
  <2>4. \E t \in Sessions : job[t].op = "postInbound" /\ job[t].doc = b
    BY <1>8 DEF PostInboundCommit, Working
  <2> HIDE DEF row, b
  <2> QED BY <2>1, <2>2, <2>3, <2>4, RowIn
<1>9. ASSUME NEW s \in Sessions, RemoveInboundCommit(s) PROVE InspectionInv'
  <2> DEFINE b == job[s].doc
             old == IF inb[b].status = "draft" THEN [NoInbound EXCEPT !.status = "draft"] ELSE inb[b]
             row == [old EXCEPT !.deleted = TRUE]
  <2>1. b \in Inbounds /\ inb[b] \in InboundRows
    BY <1>9, InboundJobTyped DEF RemoveInboundCommit, Working, InboundOps
  <2>2. old \in InboundRows
    BY <2>1, NoInboundTyped DEF NoInbound
  <2>3. Keeps(InboundOps) /\ Rewritten(b, row) /\ UNCHANGED <<batch, peak, overdrawn>>
    BY <1>2, <1>9 DEF RemoveInboundCommit, Rewritten, past
  <2> HIDE DEF old
  <2>4. row.deleted
    BY <2>2 DEF InboundRows
  <2> HIDE DEF row, b
  <2>5. overdrawn \subseteq overdrawn' /\ UNCHANGED <<batch, peak>>
    BY <2>3
  <2> QED BY <2>1, <2>3, <2>4, <2>5, RowOut
<1>10. ASSUME NEW i \in Batches, CreateNotice(i) PROVE InspectionInv'
  BY <1>3, <1>10, InspectionSame, SameKeeps DEF CreateNotice, past
<1>11. ASSUME NEW i \in Batches, Acknowledge(i) PROVE InspectionInv'
  <2>1. Keeps(InboundOps) /\ UNCHANGED <<job, batch, peak>>
    BY <1>11, SameKeeps DEF Acknowledge
  <2>2. ASSUME NEW b \in InboundsOf(i), inb[b].status = "draft", inb' = [inb EXCEPT ![b].linked = TRUE], UNCHANGED overdrawn
        PROVE  InspectionInv'
    <3> DEFINE row == [inb[b] EXCEPT !.linked = TRUE]
    <3>1. b \in Inbounds /\ inb[b] \in InboundRows
      BY InboundRowTyped DEF InboundsOf
    <3>2. row.status = inb[b].status /\ row.deleted = inb[b].deleted /\ row.batch = inb[b].batch /\ row.qty = inb[b].qty
      BY <3>1 DEF InboundRows
    <3>3. Rewritten(b, row)
      BY <2>2 DEF Rewritten
    <3> HIDE DEF row
    <3> QED BY <2>1, <2>2, <3>1, <3>2, <3>3, RowIn
  <2>3. ASSUME NEW b \in Inbounds, NewDraft(i, b) PROVE InspectionInv'
    <3> DEFINE rest == batch[i].accepted - Used(InboundsOf(i))
               row == [NoInbound EXCEPT !.status = "draft", !.qty = rest, !.batch = i, !.linked = TRUE]
    <3>1. row.status = "draft" /\ row.batch = i /\ row.qty = rest
      BY DEF NoInbound
    <3>2. Rewritten(b, row) /\ inb[b].status = "none"
      BY <2>3 DEF NewDraft, Rewritten
    <3>3. rest \in (-MaxQty..MaxQty) \ {0} /\ overdrawn' = IF rest < 0 THEN overdrawn \cup {i} ELSE overdrawn
      BY <2>3 DEF NewDraft
    <3> HIDE DEF row, rest
    <3>4. overdrawn \subseteq overdrawn' /\ (i \notin overdrawn' => rest > 0)
      BY <3>3
    <3>5. \A t \in Sessions : job'[t].doc = b => job'[t].op # "postInbound"
      BY <2>1, <3>2 DEF Keeps, InboundInv, InboundsHeld, InboundOps
    <3> QED BY <2>1, <3>1, <3>2, <3>4, <3>5, RowOut
  <2>4. ASSUME UNCHANGED <<inb, overdrawn>> PROVE InspectionInv'
    BY <1>3, <2>1, <2>4, InspectionSame
  <2> QED BY <1>11, <2>2, <2>3, <2>4 DEF Acknowledge
<1>12. ASSUME NEW b \in Inbounds, NEW q \in Qty, UpdateInbound(b, q) PROVE InspectionInv'
  <2> DEFINE row == [inb[b] EXCEPT !.qty = q]
  <2>1. Keeps(InboundOps) /\ Rewritten(b, row) /\ UNCHANGED <<batch, peak, overdrawn>> /\ ~InboundLocked(b)
        /\ inb[b].status = "draft"
    BY <1>12, SameKeeps DEF UpdateInbound, Rewritten, past
  <2>2. row.status = inb[b].status /\ row.qty = q
    BY InboundRowTyped DEF InboundRows
  <2>3. q > 0
    BY DEF Qty
  <2>4. \A t \in Sessions : job'[t].doc = b => job'[t].op # "postInbound"
    BY <2>1, InboundFree
  <2> HIDE DEF row
  <2>5. overdrawn \subseteq overdrawn' /\ UNCHANGED <<batch, peak>>
    BY <2>1
  <2> QED BY <2>1, <2>2, <2>3, <2>4, <2>5, RowOut
<1> QED BY <1>4, <1>5, <1>6, <1>7, <1>8, <1>9, <1>10, <1>11, <1>12 DEF InboundStep

LEMMA PayableInspection ==
    ASSUME TypeInv, TypeInv', InboundInv, InspectionInv, PayableStep PROVE InspectionInv'
<1>1. inb \in [Inbounds -> InboundRows] /\ Confirmations \subseteq InboundOps
  BY DEF TypeInv, TypeOK, InboundOps
<1>2. ASSUME NEW b \in Inbounds, CreateFromSource(b) PROVE InspectionInv'
  <2> DEFINE row == [inb[b] EXCEPT !.source = "received", !.entry = IF @ = "none" THEN "draft" ELSE @]
  <2>1. Rewritten(b, row) /\ Keeps(InboundOps) /\ UNCHANGED <<batch, peak, overdrawn>>
    BY <1>2, SameKeeps DEF CreateFromSource, Rewritten, past
  <2>2. row.status = inb[b].status /\ row.deleted = inb[b].deleted /\ row.batch = inb[b].batch /\ row.qty = inb[b].qty
    BY <1>1 DEF InboundRows
  <2> HIDE DEF row
  <2> QED BY <2>1, <2>2, RowIn
<1>3. ASSUME NEW s \in Sessions, NEW b \in Inbounds, NEW op \in Confirmations, ConfirmBegin(s, b, op)
      PROVE  InspectionInv'
  <2>1. op # "postInbound"
    BY DEF Confirmations
  <2>2. Keeps({"postInbound"})
    BY <1>3, <2>1, StartKeeps DEF ConfirmBegin
  <2> QED BY <1>3, <2>2, InspectionSame DEF ConfirmBegin, tables, past
<1>4. ASSUME NEW s \in Sessions, ConfirmCommit(s) PROVE InspectionInv'
  <2> DEFINE b == job[s].doc
             row == [inb[b] EXCEPT !.entry = "confirmed"]
  <2>1. b \in Inbounds /\ inb[b] \in InboundRows
    BY <1>1, <1>4, InboundJobTyped DEF ConfirmCommit
  <2>2. row.status = inb[b].status /\ row.deleted = inb[b].deleted /\ row.batch = inb[b].batch /\ row.qty = inb[b].qty
    BY <2>1 DEF InboundRows
  <2>3. Keeps(InboundOps) /\ Rewritten(b, row) /\ UNCHANGED <<batch, peak, overdrawn>>
    BY <1>4, DoneKeeps, KeepsFewer DEF ConfirmCommit, Rewritten, AllOps, past
  <2> HIDE DEF row, b
  <2> QED BY <2>1, <2>2, <2>3, RowIn
<1> QED BY <1>2, <1>3, <1>4 DEF PayableStep

LEMMA ReversalInspection ==
    ASSUME TypeInv, TypeInv', InboundInv, InspectionInv, ReversalStep PROVE InspectionInv'
<1>1. ASSUME NEW s \in Sessions, NEW b \in Inbounds, ReverseInboundBegin(s, b) PROVE InspectionInv'
  <2>1. Keeps({"postInbound"})
    BY <1>1, StartKeeps DEF ReverseInboundBegin
  <2> QED BY <1>1, <2>1, InspectionSame DEF ReverseInboundBegin, tables, past
<1>2. ASSUME NEW s \in Sessions, ReverseInboundCommit(s) PROVE InspectionInv'
  <2> DEFINE b == job[s].doc
             row == [inb[b] EXCEPT !.status = "reversed", !.source = "voided",
                                   !.entry = IF job[s].arg = 1 THEN "voided" ELSE @]
  <2>1. b \in Inbounds /\ inb[b] \in InboundRows
    BY <1>2, InboundJobTyped DEF ReverseInboundCommit, Working, InboundOps
  <2>2. row.status = "reversed" /\ row.deleted = inb[b].deleted /\ row.qty = inb[b].qty /\ row.batch = inb[b].batch
    BY <2>1 DEF InboundRows
  <2>3. Keeps(InboundOps) /\ Rewritten(b, row) /\ UNCHANGED <<batch, peak, overdrawn>>
    BY <1>2, DoneKeeps, KeepsFewer DEF ReverseInboundCommit, Rewritten, AllOps, past
  <2> HIDE DEF row, b
  <2> QED BY <2>1, <2>2, <2>3, RowIn
<1> QED BY <1>1, <1>2 DEF ReversalStep

LEMMA NextInspection == ASSUME LedgerInv, InspectionInv, [Next]_allVars PROVE InspectionInv'
<1>1. TypeInv /\ TypeInv' /\ InboundInv
  BY NextLedger DEF LedgerInv
<1>2. ASSUME Keeps(InboundOps) PROVE Keeps({"postInbound"})
  BY <1>2, KeepsFewer DEF InboundOps
<1>3. CASE OutboundStep \/ CorrectingStep
  <2>1. Keeps(InboundOps) /\ UNCHANGED <<batch, peak, inb, overdrawn>>
    BY <1>1, <1>3, IssuingFrame, KeepsFewer
  <2> QED BY <1>1, <1>2, <2>1, InspectionSame
<1>4. CASE StocktakeStep
  <2>1. Keeps(InboundOps) /\ UNCHANGED <<batch, peak, inb, overdrawn>>
    BY <1>1, <1>4, StocktakeFrame, KeepsFewer
  <2> QED BY <1>1, <1>2, <2>1, InspectionSame
<1>5. CASE Keeps(AllOps) /\ UNCHANGED <<tables, past, count>>
  <2>1. Keeps(InboundOps)
    BY <1>5, KeepsFewer DEF AllOps
  <2> QED BY <1>1, <1>2, <1>5, <2>1, InspectionSame DEF tables, past
<1> QED BY <1>1, <1>3, <1>4, <1>5, Steps, InspectionStepInv, InboundInspection, PayableInspection, ReversalInspection

LEMMA InitInspection == Init => InspectionInv
<1>1. SUFFICES ASSUME Init PROVE InspectionInv
  OBVIOUS
<1>2. \A s \in Sessions : job[s].op = "idle"
  BY <1>1, IdleTyped DEF Init
<1>3. TypeInv
  BY <1>1, InitTyped
<1>4. \A i \in Batches : batch[i].accepted = peak[i] /\ peak[i] \in Nat
  BY <1>1, <1>3 DEF Init, Delivered, Inspected, TypeInv, TypeOK
<1>5. CASE NothingIn
  <2>1. \A b \in Inbounds : inb[b].batch = NoDoc
    BY <1>5 DEF NothingIn, NoInbound
  <2>2. \A i \in Batches : InboundsOf(i) = {} /\ Admitted(i) = {}
    BY <2>1 DEF InboundsOf, Admitted
  <2>3. QtyOf({}) = 0
    BY SumEmpty DEF QtyOf
  <2>4. ASSUME NEW i \in Batches PROVE QtyOf(Admitted(i)) <= peak[i] /\ \A b \in InboundsOf(i) : inb[b].qty > 0
    <3>1. Admitted(i) = {} /\ InboundsOf(i) = {} /\ peak[i] \in Nat
      BY <1>4, <2>2
    <3>2. QtyOf(Admitted(i)) = 0
      BY <2>3, <3>1
    <3> QED BY <3>1, <3>2
  <2>5. WithinPeak
    BY <1>4 DEF WithinPeak
  <2> QED BY <2>4, <2>5 DEF InspectionInv, AdmittedWithinInspection
<1>6. CASE InStock /\ Delivered(MaxQty)
  <2>1. PICK i \in Batches, o \in Inbounds : inb = [b \in Inbounds |-> IF b = o THEN OpeningInbound(i) ELSE NoInbound]
    BY <1>6 DEF InStock
  <2>2. /\ inb[o].batch = i /\ inb[o].qty = MaxQty /\ inb[o].status = "posted"
        /\ \A b \in Inbounds : b # o => inb[b].batch = NoDoc
    BY <2>1 DEF OpeningInbound, NoInbound
  <2>3. ASSUME NEW x \in Batches PROVE QtyOf(Admitted(x)) <= peak[x] /\ \A b \in InboundsOf(x) : inb[b].qty > 0
    <3>1. InboundsOf(x) \subseteq {o} /\ Admitted(x) \subseteq {o}
      BY <2>2 DEF InboundsOf, Admitted
    <3>2. QtyOf({}) = 0 /\ QtyOf({o}) = inb[o].qty + QtyOf({})
      <4>1. QtyOf({} \cup {o}) = inb[o].qty + QtyOf({}) /\ {} \cup {o} = {o}
        BY <1>3, QtyMore
      <4> QED BY <4>1, SumEmpty DEF QtyOf
    <3>3. peak[x] = MaxQty
      BY <1>6 DEF Delivered
    <3>4. CASE Admitted(x) = {}
      <4>1. QtyOf(Admitted(x)) = 0
        BY <3>2, <3>4
      <4>2. \A b \in InboundsOf(x) : inb[b].qty > 0
        BY <2>2, <3>1
      <4> QED BY <3>3, <4>1, <4>2
    <3>5. CASE Admitted(x) = {o}
      <4>1. QtyOf({}) = 0
        BY SumEmpty DEF QtyOf
      <4>2. QtyOf(Admitted(x)) = MaxQty + 0
        BY <2>2, <3>2, <3>5, <4>1
      <4>3. \A b \in InboundsOf(x) : inb[b].qty > 0
        BY <2>2, <3>1
      <4> QED BY <3>3, <4>2, <4>3
    <3>6. Admitted(x) = {} \/ Admitted(x) = {o}
      BY <3>1
    <3> QED BY <3>4, <3>5, <3>6
  <2>4. WithinPeak
    BY <1>4 DEF WithinPeak
  <2> QED BY <2>3, <2>4 DEF InspectionInv, AdmittedWithinInspection
<1> QED BY <1>1, <1>5, <1>6 DEF Init

(* The inspections and the inbounds of their batches.                      *)
THEOREM MaterialsInspectionInv == Spec => [](LedgerInv /\ InspectionInv)
<1>1. LedgerInv /\ InspectionInv /\ [Next]_<<vars, count>> => (LedgerInv /\ InspectionInv)'
  BY NextLedger, NextInspection DEF allVars
<1>2. Init => LedgerInv /\ InspectionInv
  BY InitLedger, InitInspection
<1> QED BY <1>1, <1>2, PTL DEF Spec

(* What is in stock of a batch was at some time accepted by QC: correcting *)
(* an inspection never slips in between the check of a posting and the     *)
(* posting, unless a negative remainder was drafted before.                *)
THEOREM MaterialsPostedWithinInspection == Spec => []PostedWithinInspection
<1>1. LedgerInv /\ InspectionInv => PostedWithinInspection
  <2>1. SUFFICES ASSUME LedgerInv, InspectionInv, NEW i \in Batches \ overdrawn
                 PROVE  QtyOf({b \in InboundsOf(i) : inb[b].status = "posted"}) <= peak[i]
    BY DEF PostedWithinInspection
  <2>2. PICK P : P = {b \in InboundsOf(i) : inb[b].status = "posted"}
    OBVIOUS
  <2>3. TypeInv /\ WithinPeak /\ QtyOf(Admitted(i)) <= peak[i] /\ \A b \in InboundsOf(i) : inb[b].qty > 0
    BY <2>1 DEF LedgerInv, InspectionInv, AdmittedWithinInspection
  <2>4. P \subseteq Admitted(i) /\ Admitted(i) \subseteq InboundsOf(i)
    BY <2>2 DEF Admitted
  <2>5. P \subseteq Admitted(i) /\ Admitted(i) \in SUBSET Inbounds /\ \A b \in Admitted(i) : inb[b].qty > 0
    BY <2>3, <2>4 DEF InboundsOf
  <2>6. QtyOf(P) \in Nat /\ QtyOf(Admitted(i)) \in Nat /\ QtyOf(P) <= QtyOf(Admitted(i))
    BY <2>3, <2>5, QtyFewer
  <2>7. QtyOf(Admitted(i)) <= peak[i] /\ peak[i] \in Nat
    BY <2>3 DEF TypeInv, TypeOK
  <2> QED BY <2>2, <2>6, <2>7
<1> QED BY <1>1, MaterialsInspectionInv, PTL

-----------------------------------------------------------------------------
(* Issues.  What was received or found and not issued covers the balance,  *)
(* so an issue that the balance covers takes out no more than there is;    *)
(* of two requests that take from the balance the later one is doomed.     *)
Came == {b \in Inbounds : inb[b].status \in {"posted", "reversed"} /\ inb[b].qty > 0}
Found == {c \in Stocktakes : count[c].applied > 0}

IssueTyped ==
    /\ EverReceived \in Nat /\ EverFound \in Nat
    /\ SumOf(fact, Goods) \in Int /\ Unissued \in Int
    /\ \A m \in Movements : fact[m] \in Int /\ Standing[m] \in Int /\ mov[m].qty \in Nat
    /\ Goods \in SUBSET Movements /\ Scraps \in SUBSET Movements

LEMMA IssueIsTyped == LedgerInv => IssueTyped
<1>1. SUFFICES ASSUME LedgerInv PROVE IssueTyped
  OBVIOUS
<1>2. Goods \in SUBSET Movements /\ Scraps \in SUBSET Movements
  BY DEF Goods, Scraps
<1>3. \A m \in Movements : fact[m] \in Int /\ mov[m].qty \in Nat
  BY <1>1, LedgerRows
<1>4. \A m \in Movements : Standing[m] \in Int
  BY <1>3 DEF Standing
<1>5. EverReceived \in Nat
  <2>1. TypeInv /\ Came \in SUBSET Inbounds /\ (\A b \in Came : inb[b].qty > 0) /\ EverReceived = QtyOf(Came)
    BY <1>1 DEF LedgerInv, Came, EverReceived
  <2> QED BY <2>1, QtyFewer
<1>6. EverFound \in Nat
  <2> DEFINE a == [c \in Stocktakes |-> count[c].applied]
  <2>1. \A c \in Found : a[c] \in Nat
    BY <1>1, CountTyped DEF Found, LedgerInv
  <2>2. IsFiniteSet(Found) /\ EverFound = SumOf(a, Found)
    BY FS_Subset DEF Found, EverFound
  <2> HIDE DEF a
  <2> QED BY <2>1, <2>2, SumNat
<1>7. SumOf(fact, Goods) \in Int
  <2>1. IsFiniteSet(Goods) /\ \A m \in Goods : fact[m] \in Int
    BY <1>2, <1>3, FS_Subset
  <2> QED BY <2>1, SumOut
<1> QED BY <1>2, <1>3, <1>4, <1>5, <1>6, <1>7 DEF IssueTyped, Unissued

LEMMA IssueStaysTyped == LedgerInv' => IssueTyped'
BY IssueIsTyped, PTL

LEMMA GoodsFinite == IsFiniteSet(Goods) /\ IsFiniteSet(Scraps)
<1>1. Goods \subseteq Movements /\ Scraps \subseteq Movements
  BY DEF Goods, Scraps
<1> QED BY <1>1, FS_Subset

LEMMA InboundsBelow == ASSUME LedgerInv PROVE SumOf(fact, Inbounds) <= EverReceived
<1> DEFINE q == [b \in Inbounds |-> inb[b].qty]
<1>1. TypeInv /\ InboundInv
  BY DEF LedgerInv
<1>2. \A b \in Inbounds : fact[b] \in Int /\ q[b] \in Int
  BY <1>1, InboundRowTyped DEF TypeInv, TypeOK, Booked
<1>3. Came \in SUBSET Inbounds /\ EverReceived = SumOf(q, Came)
  BY DEF Came, EverReceived, QtyOf
<1>4. \A b \in Inbounds : fact[b] = IF inb[b].status = "posted" THEN q[b] ELSE 0
  BY <1>1 DEF InboundInv, InboundLedger
<1>5. (\A b \in Came : q[b] > 0) /\ \A b \in Inbounds \ Came : inb[b].status = "posted" => ~(q[b] > 0)
  BY DEF Came
<1> HIDE DEF q
<1>6. \A b \in Came : q[b] \in Int /\ fact[b] <= q[b]
  BY <1>2, <1>3, <1>4, <1>5
<1>7. \A b \in Inbounds \ Came : fact[b] <= 0
  BY <1>2, <1>4, <1>5
<1> QED BY <1>2, <1>3, <1>6, <1>7, SumBelow

LEMMA StocktakesBelow == ASSUME LedgerInv PROVE SumOf(fact, Stocktakes) <= EverFound
<1> DEFINE a == [c \in Stocktakes |-> count[c].applied]
<1>1. TypeInv /\ CountInv
  BY DEF LedgerInv
<1>2. \A c \in Stocktakes : fact[c] \in Int /\ a[c] \in Int
  BY <1>1, CountTyped
<1>3. Found \in SUBSET Stocktakes /\ EverFound = SumOf(a, Found)
  BY DEF Found, EverFound
<1>4. \A c \in Stocktakes : fact[c] \in {0, a[c]}
  BY <1>1 DEF CountInv, CountLedger
<1>5. (\A c \in Found : a[c] > 0) /\ \A c \in Stocktakes \ Found : ~(a[c] > 0)
  BY DEF Found
<1> HIDE DEF a
<1>6. \A c \in Found : a[c] \in Int /\ fact[c] <= a[c]
  BY <1>2, <1>3, <1>4, <1>5
<1>7. \A c \in Stocktakes \ Found : fact[c] <= 0
  BY <1>2, <1>4, <1>5
<1> QED BY <1>2, <1>3, <1>6, <1>7, SumBelow

LEMMA ScrapsBelow == ASSUME LedgerInv, ScrapsNet PROVE SumOf(fact, Scraps) <= 0 /\ SumOf(fact, Scraps) \in Int
<1>1. Scraps \in SUBSET Movements /\ IsFiniteSet(Scraps) /\ \A m \in Movements : fact[m] \in Int /\ Standing[m] \in Int
  BY IssueIsTyped, GoodsFinite DEF IssueTyped
<1>2. \A m \in Scraps : Standing[m] <= 0
  BY <1>1 DEF Standing
<1> DEFINE z == [m \in Movements |-> 0]
<1>3. \A m \in Scraps : z[m] = 0
  BY <1>1
<1> HIDE DEF z
<1>4. SumOf(Standing, Scraps) <= SumOf(z, Scraps) /\ SumOf(z, Scraps) = 0
  BY <1>1, <1>2, <1>3, SumMonotonic, SumZero
<1>5. SumOf(fact, Scraps) \in Int
  BY <1>1, SumOut
<1> QED BY <1>4, <1>5 DEF ScrapsNet

LEMMA UnissuedAboveBalance == ASSUME LedgerInv, ScrapsNet PROVE Balance <= Unissued
<1>1. TypeInv /\ \A x \in Booked : fact[x] \in Int
  BY DEF LedgerInv, TypeInv, TypeOK
<1>2. /\ Inbounds \in SUBSET Booked /\ Movements \in SUBSET (Booked \ Inbounds) /\ Goods \in SUBSET Movements
      /\ (Booked \ Inbounds) \ Movements = Stocktakes /\ Movements \ Goods = Scraps
  BY DEF Booked, Goods, Scraps
<1>3. IsFiniteSet(Booked) /\ IsFiniteSet(Booked \ Inbounds) /\ IsFiniteSet(Movements) /\ IsFiniteSet(Goods)
  BY <1>2, BookedFinite, FS_Subset, GoodsFinite
<1>4. SumOf(fact, Booked) = SumOf(fact, Inbounds) + SumOf(fact, Booked \ Inbounds)
  BY <1>1, <1>2, <1>3, SumSplit
<1>5. SumOf(fact, Booked \ Inbounds) = SumOf(fact, Movements) + SumOf(fact, Stocktakes)
  <2>1. \A x \in Booked \ Inbounds : fact[x] \in Int
    BY <1>1
  <2> QED BY <1>2, <1>3, <2>1, SumSplit
<1>6. SumOf(fact, Movements) = SumOf(fact, Goods) + SumOf(fact, Scraps)
  <2>1. \A x \in Movements : fact[x] \in Int
    BY <1>1, <1>2
  <2> QED BY <1>2, <1>3, <2>1, SumSplit
<1>7. SumOf(fact, Inbounds) \in Int /\ SumOf(fact, Stocktakes) \in Int /\ SumOf(fact, Goods) \in Int
  BY <1>1, <1>2, <1>3, FS_Subset, SumOut
<1>8. EverReceived \in Nat /\ EverFound \in Nat
  BY IssueIsTyped DEF IssueTyped
<1> QED BY <1>4, <1>5, <1>6, <1>7, <1>8, InboundsBelow, StocktakesBelow, ScrapsBelow DEF Balance, Unissued

\* What has come in stays in the books.
StaysReceived ==
    \A b \in Inbounds : inb[b].status \in {"posted", "reversed"} =>
        inb'[b].status \in {"posted", "reversed"} /\ inb'[b].qty = inb[b].qty

LEMMA NextStaysReceived == ASSUME LedgerInv, [Next]_allVars PROVE StaysReceived
<1>1. TypeInv /\ InboundInv /\ inb \in [Inbounds -> InboundRows]
  BY DEF LedgerInv, TypeInv, TypeOK
<1>2. ASSUME UNCHANGED inb PROVE StaysReceived
  BY <1>2 DEF StaysReceived
<1>3. CASE PayableStep
  <2>1. ASSUME NEW b \in Inbounds, CreateFromSource(b) PROVE StaysReceived
    BY <1>1, <2>1 DEF CreateFromSource, StaysReceived, InboundRows
  <2>2. ASSUME NEW s \in Sessions, NEW b \in Inbounds, NEW op \in Confirmations, ConfirmBegin(s, b, op)
        PROVE  StaysReceived
    BY <1>2, <2>2 DEF ConfirmBegin, tables
  <2>3. ASSUME NEW s \in Sessions, ConfirmCommit(s) PROVE StaysReceived
    BY <1>1, <2>3 DEF ConfirmCommit, StaysReceived, InboundRows
  <2> QED BY <1>3, <2>1, <2>2, <2>3 DEF PayableStep
<1>4. ASSUME NEW s \in Sessions, job[s].op \in InboundOps PROVE job[s].doc \in Inbounds
  BY <1>1, <1>4 DEF TypeInv, JobShape, Shaped
<1>5. CASE ReversalStep
  <2>1. ASSUME NEW s \in Sessions, ReverseInboundCommit(s) PROVE StaysReceived
    <3>1. job[s].doc \in Inbounds
      BY <1>4, <2>1 DEF ReverseInboundCommit, Working, InboundOps
    <3> QED BY <1>1, <2>1, <3>1 DEF ReverseInboundCommit, StaysReceived, InboundRows
  <2>2. ASSUME NEW s \in Sessions, NEW b \in Inbounds, ReverseInboundBegin(s, b) PROVE StaysReceived
    BY <1>2, <2>2 DEF ReverseInboundBegin, tables
  <2> QED BY <1>5, <2>1, <2>2 DEF ReversalStep
<1>6. CASE InboundStep
  <2>1. ASSUME NEW s \in Sessions, NEW b \in Inbounds, RegisterCommit(s, b) PROVE StaysReceived
    BY <1>1, <2>1 DEF RegisterCommit, StaysReceived
  <2>2. ASSUME NEW s \in Sessions, PostInboundCommit(s) PROVE StaysReceived
    <3>1. job[s].doc \in Inbounds
      BY <1>4, <2>2 DEF PostInboundCommit, Working, InboundOps
    <3> QED BY <1>1, <2>2, <3>1 DEF PostInboundCommit, StaysReceived, InboundRows
  <2>3. ASSUME NEW s \in Sessions, RemoveInboundCommit(s) PROVE StaysReceived
    <3>1. PICK b : b = job[s].doc
      OBVIOUS
    <3>2. b \in Inbounds /\ inb[b] \in InboundRows
      BY <1>1, <1>4, <2>3, <3>1 DEF RemoveInboundCommit, Working, InboundOps
    <3>3. \A row \in InboundRows : [row EXCEPT !.deleted = TRUE].status = row.status
                                   /\ [row EXCEPT !.deleted = TRUE].qty = row.qty
      BY DEF InboundRows
    <3>4. inb[b].status # "draft" => inb'[b].status = inb[b].status /\ inb'[b].qty = inb[b].qty
      BY <1>1, <2>3, <3>1, <3>2, <3>3 DEF RemoveInboundCommit
    <3>5. \A x \in Inbounds \ {b} : inb'[x] = inb[x]
      BY <1>1, <2>3, <3>1 DEF RemoveInboundCommit
    <3> QED BY <3>4, <3>5 DEF StaysReceived
  <2>4. ASSUME NEW i \in Batches, Acknowledge(i) PROVE StaysReceived
    <3>1. ASSUME NEW b \in Inbounds, inb' = [inb EXCEPT ![b].linked = TRUE] PROVE StaysReceived
      BY <1>1, <3>1 DEF StaysReceived, InboundRows
    <3>2. ASSUME NEW b \in Inbounds, NewDraft(i, b) PROVE StaysReceived
      BY <1>1, <3>2 DEF NewDraft, StaysReceived
    <3> QED BY <1>2, <2>4, <3>1, <3>2 DEF Acknowledge, InboundsOf
  <2>5. ASSUME NEW b \in Inbounds, NEW q \in Qty, UpdateInbound(b, q) PROVE StaysReceived
    BY <1>1, <2>5 DEF UpdateInbound, StaysReceived, InboundRows
  <2>6. ASSUME UNCHANGED inb PROVE StaysReceived
    BY <1>2, <2>6
  <2> QED BY <1>6, <2>1, <2>2, <2>3, <2>4, <2>5, <2>6
          DEF InboundStep, RegisterBegin, PostInboundBegin, RemoveInboundBegin, CreateNotice, tables
<1> QED BY <1>1, <1>2, <1>3, <1>5, <1>6, Steps, InspectionFrame, IssuingFrame, StocktakeFrame DEF tables

LEMMA ReceivedGrows == ASSUME LedgerInv, LedgerInv', StaysReceived PROVE EverReceived <= EverReceived'
<1> DEFINE q == [b \in Inbounds |-> inb[b].qty]
           r == [b \in Inbounds |-> inb'[b].qty]
<1>1. TypeInv /\ TypeInv'
  BY DEF LedgerInv
<1>2. PICK C, D : C = Came /\ D = Came'
  OBVIOUS
<1>3. C \in SUBSET Inbounds /\ D \in SUBSET Inbounds /\ C \in SUBSET D /\ \A b \in C : r[b] = q[b]
  BY <1>2 DEF Came, StaysReceived
<1>4. IsFiniteSet(C) /\ IsFiniteSet(D)
  BY <1>3, FS_Subset
<1>5. \A b \in D : r[b] \in Nat
  <2>1. \A b \in Inbounds : inb'[b].qty \in Int
    BY <1>1 DEF TypeInv, TypeOK, InboundRows
  <2>2. \A b \in D : inb'[b].qty > 0
    BY <1>2 DEF Came
  <2> QED BY <1>3, <2>1, <2>2
<1>6. \A b \in C : q[b] \in Int
  BY <1>1, <1>3, InboundRowTyped
<1>7. EverReceived = SumOf(q, C) /\ EverReceived' = SumOf(r, D)
  BY <1>2 DEF EverReceived, QtyOf, Came
<1> HIDE DEF q, r
<1>8. SumOf(r, C) = SumOf(q, C) /\ SumOf(r, C) <= SumOf(r, D)
  BY <1>3, <1>4, <1>5, <1>6, SumSame, SumSubset
<1> QED BY <1>7, <1>8

StaysFound == \A c \in Stocktakes : count[c].applied > 0 => count'[c].applied = count[c].applied

LEMMA StocktakeStaysFound == ASSUME LedgerInv, StocktakeStep PROVE StaysFound
<1>1. TypeInv /\ CountInv /\ count \in [Stocktakes -> StocktakeRows]
  BY DEF LedgerInv, TypeInv, TypeOK
<1>2. ASSUME NEW s \in Sessions, job[s].op \in CountOps PROVE job[s].doc \in Stocktakes
  BY <1>1, <1>2 DEF TypeInv, JobShape, Shaped
<1>3. \A c \in Stocktakes : count[c].status \in {"none", "draft"} => ~(count[c].applied > 0)
  BY <1>1 DEF CountInv, CountLedger
<1>4. ASSUME NEW c \in Stocktakes, NEW n \in 0..MaxQty, Upload(c, n) PROVE StaysFound
  BY <1>1, <1>3, <1>4 DEF Upload, StaysFound
<1>5. ASSUME NEW s \in Sessions, NEW row, EditCommit(s, row), job[s].op \in CountOps,
             row.applied = count[job[s].doc].applied
      PROVE  StaysFound
  <2>1. job[s].doc \in Stocktakes
    BY <1>2, <1>5
  <2> QED BY <1>1, <1>5, <2>1 DEF EditCommit, StaysFound
<1>6. ASSUME NEW row \in StocktakeRows, NEW n
      PROVE  /\ [row EXCEPT !.actual = n].applied = row.applied
             /\ [row EXCEPT !.line = FALSE].applied = row.applied
             /\ [row EXCEPT !.deleted = TRUE].applied = row.applied
             /\ [row EXCEPT !.status = "reversed"].applied = row.applied
  BY DEF StocktakeRows
<1>7. ASSUME NEW s \in Sessions, job[s].op \in CountOps PROVE count[job[s].doc] \in StocktakeRows
  BY <1>1, <1>2, <1>7
<1>8. ASSUME NEW s \in Sessions, NEW n \in 0..MaxQty, UpdateLineCommit(s, n) PROVE StaysFound
  BY <1>5, <1>6, <1>7, <1>8 DEF UpdateLineCommit, Working, CountOps
<1>9. ASSUME NEW s \in Sessions, RemoveLineCommit(s) PROVE StaysFound
  BY <1>5, <1>6, <1>7, <1>9 DEF RemoveLineCommit, Working, CountOps
<1>10. ASSUME NEW s \in Sessions, RemoveStocktakeCommit(s) PROVE StaysFound
  BY <1>5, <1>6, <1>7, <1>10 DEF RemoveStocktakeCommit, Working, CountOps
<1>11. ASSUME NEW s \in Sessions, ConfirmCountCommit(s) PROVE StaysFound
  <2>1. PICK c : c = job[s].doc
    OBVIOUS
  <2>2. c \in Stocktakes /\ count[c].status = "draft"
    BY <1>1, <1>2, <1>11, <2>1 DEF ConfirmCountCommit, Working, CountOps, CountInv, CountsHeld
  <2>3. \A x \in Stocktakes \ {c} : count'[x] = count[x]
    BY <1>1, <1>11, <2>1 DEF ConfirmCountCommit
  <2> QED BY <1>3, <2>2, <2>3 DEF StaysFound
<1>12. ASSUME NEW c \in Stocktakes, ReverseCount(c) PROVE StaysFound
  BY <1>1, <1>6, <1>12 DEF ReverseCount, StaysFound
<1>13. ASSUME UNCHANGED count PROVE StaysFound
  BY <1>13 DEF StaysFound
<1> QED BY <1>4, <1>8, <1>9, <1>10, <1>11, <1>12, <1>13 DEF StocktakeStep, EditBegin, ConfirmCountBegin

LEMMA FoundGrows == ASSUME LedgerInv, LedgerInv', StaysFound PROVE EverFound <= EverFound'
<1> DEFINE q == [c \in Stocktakes |-> count[c].applied]
           r == [c \in Stocktakes |-> count'[c].applied]
<1>1. TypeInv /\ TypeInv'
  BY DEF LedgerInv
<1>2. PICK C, D : C = Found /\ D = Found'
  OBVIOUS
<1>3. C \in SUBSET Stocktakes /\ D \in SUBSET Stocktakes /\ C \in SUBSET D /\ \A c \in C : r[c] = q[c]
  BY <1>2 DEF Found, StaysFound
<1>4. IsFiniteSet(C) /\ IsFiniteSet(D)
  BY <1>3, FS_Subset
<1>5. \A c \in D : r[c] \in Nat
  <2>1. \A c \in Stocktakes : count'[c].applied \in Int
    BY <1>1 DEF TypeInv, TypeOK, StocktakeRows
  <2>2. \A c \in D : count'[c].applied > 0
    BY <1>2 DEF Found
  <2> QED BY <1>3, <2>1, <2>2
<1>6. \A c \in C : q[c] \in Int
  BY <1>1, <1>3, CountTyped
<1>7. EverFound = SumOf(q, C) /\ EverFound' = SumOf(r, D)
  BY <1>2 DEF EverFound, Found
<1> HIDE DEF q, r
<1>8. SumOf(r, C) = SumOf(q, C) /\ SumOf(r, C) <= SumOf(r, D)
  BY <1>3, <1>4, <1>5, <1>6, SumSame, SumSubset
<1> QED BY <1>7, <1>8

\* What an issue or a reversal was checked against is there until it is posted.
StillIssues(t) ==
    Undoomed(t, "postIssue")' =>
      /\ Undoomed(t, "postIssue") /\ job'[t].doc = job[t].doc
      /\ mov'[job[t].doc].qty = mov[job[t].doc].qty

StillReverses(t) ==
    Undoomed(t, "reverseMovement")' =>
      /\ Undoomed(t, "reverseMovement") /\ job'[t].doc = job[t].doc /\ job'[t].arg = job[t].arg
      /\ mov'[job[t].doc].cat = mov[job[t].doc].cat

LEMMA TakingJob ==
    ASSUME LedgerInv, NEW t \in Sessions
    PROVE  /\ Undoomed(t, "postIssue") => job[t].doc \in Movements /\ mov[job[t].doc].qty \in Nat
           /\ Undoomed(t, "reverseMovement") => job[t].doc \in Movements /\ job[t].arg \in Int
BY MovementJob, LedgerRows DEF LedgerInv, Undoomed, MovementOps, Serializable

LEMMA IssueKept ==
    ASSUME LedgerInv, LedgerInv', IssueInv, ScrapsNet', Unissued <= Unissued',
           \A t \in Sessions : StillIssues(t) /\ StillReverses(t)
    PROVE  IssueInv'
<1>1. Unissued \in Int /\ Unissued' \in Int
  BY IssueIsTyped, IssueStaysTyped DEF IssueTyped
<1>2. Unissued >= 0
  BY DEF IssueInv, IssuedWithinReceived, Unissued
<1>3. Unissued' >= 0
  BY <1>1, <1>2
<1>4. IssuedWithinReceived'
  BY <1>3 DEF IssuedWithinReceived, Unissued
<1>5. ASSUME NEW t \in Sessions, Undoomed(t, "postIssue")' PROVE Unissued' >= mov'[job'[t].doc].qty
  <2>1. PICK d : d = job[t].doc
    OBVIOUS
  <2>2. Undoomed(t, "postIssue") /\ job'[t].doc = d /\ mov'[d].qty = mov[d].qty
    BY <1>5, <2>1 DEF StillIssues
  <2>3. Unissued >= mov[d].qty /\ mov[d].qty \in Nat
    BY <2>1, <2>2, TakingJob DEF IssueInv, IssuesFit
  <2> QED BY <1>1, <2>2, <2>3
<1>6. ASSUME NEW t \in Sessions, Undoomed(t, "reverseMovement")', mov'[job'[t].doc].cat = "raw_material"
      PROVE  Unissued' >= job'[t].arg
  <2>1. PICK d : d = job[t].doc
    OBVIOUS
  <2>2. Undoomed(t, "reverseMovement") /\ job'[t].doc = d /\ job'[t].arg = job[t].arg /\ mov[d].cat = "raw_material"
    BY <1>6, <2>1 DEF StillReverses
  <2>3. Unissued >= job[t].arg /\ job[t].arg \in Int
    BY <2>1, <2>2, TakingJob DEF IssueInv, IssuesFit
  <2> QED BY <1>1, <2>2, <2>3
<1>7. IssuesFit'
  BY <1>5, <1>6 DEF IssuesFit
<1> QED BY <1>4, <1>7 DEF IssueInv

\* The same, for a step on the documents of D.
LEMMA IssueSpared ==
    ASSUME LedgerInv, LedgerInv', IssueInv, ScrapsNet', UNCHANGED <<inb, count>>,
           SumOf(fact, Goods) <= SumOf(fact, Goods)',
           NEW D, D # {}, \A d \in D : Spares(d),
           \A x \in Movements : x \notin D => mov'[x].qty = mov[x].qty /\ mov'[x].cat = mov[x].cat
    PROVE  IssueInv'
<1>1. EverReceived' = EverReceived /\ EverFound' = EverFound
  BY DEF EverReceived, EverFound, QtyOf
<1>2. Unissued <= Unissued'
  <2>1. Unissued = EverReceived + EverFound + SumOf(fact, Goods)
        /\ Unissued' = EverReceived + EverFound + SumOf(fact, Goods)'
    BY <1>1 DEF Unissued
  <2>2. EverReceived \in Nat /\ EverFound \in Nat /\ SumOf(fact, Goods) \in Int /\ SumOf(fact, Goods)' \in Int
    BY IssueIsTyped, IssueStaysTyped DEF IssueTyped
  <2> QED BY <2>1, <2>2
<1>3. ASSUME NEW t \in Sessions PROVE StillIssues(t) /\ StillReverses(t)
  <2>1. {"postIssue", "reverseMovement"} \subseteq MovementOps \cap Serializable
    BY DEF MovementOps, Serializable
  <2>2. ASSUME NEW op \in {"postIssue", "reverseMovement"}, Undoomed(t, op)'
        PROVE  /\ Undoomed(t, op) /\ job'[t].doc = job[t].doc /\ job'[t].arg = job[t].arg
               /\ job[t].doc \notin D /\ job[t].doc \in Movements
    <3>1. /\ Undoomed(t, op) /\ job'[t].doc = job[t].doc /\ job'[t].arg = job[t].arg
          /\ job[t].doc \notin D
      BY <2>1, <2>2 DEF Undoomed, Spares
    <3>2. job[t].doc \in Movements
      BY <2>2, <3>1, TakingJob
    <3> QED BY <3>1, <3>2
  <2> QED BY <2>2 DEF StillIssues, StillReverses
<1> QED BY <1>2, <1>3, IssueKept

\* A step that takes from the balance dooms everybody else who would.
LEMMA IssueTaken ==
    ASSUME LedgerInv, LedgerInv', ScrapsNet', Unissued' >= 0,
           NEW s \in Sessions, CommitSerializable(s), job[s].op \in Serializable,
           TheBalance \in Reads(job[s]) \cap Writes(job[s]),
           \A t \in Sessions : Undoomed(t, "reverseMovement")' => mov'[job[t].doc].cat = mov[job[t].doc].cat
    PROVE  IssueInv'
<1>1. TypeInv /\ Unissued' \in Int
  BY IssueStaysTyped DEF IssueTyped, LedgerInv
<1>2. ASSUME NEW t \in Sessions, job'[t].op \in Serializable, ~job'[t].doomed
      PROVE  /\ ~job[t].doomed /\ job[t].op = job'[t].op /\ job[t].doc = job'[t].doc /\ job[t].arg = job'[t].arg
             /\ ~(TheBalance \in Reads(job[t]) \cap Writes(job[t]))
  <2>1. /\ ~job[t].doomed /\ job[t].op = job'[t].op /\ job[t].doc = job'[t].doc /\ job[t].arg = job'[t].arg
        /\ ~Conflict(job[s], job[t])
    BY <1>1, <1>2, CommitSpares
  <2> QED BY <1>2, <2>1 DEF Conflict
<1>3. ASSUME NEW t \in Sessions, Undoomed(t, "postIssue")' PROVE FALSE
  <2>1. Undoomed(t, "postIssue") /\ ~(TheBalance \in Reads(job[t]) \cap Writes(job[t]))
    BY <1>2, <1>3 DEF Undoomed, Serializable
  <2>2. job[t].doc \in Movements /\ Sees(t)
    BY <2>1, TakingJob DEF LedgerInv, MovementInv, Snapshots
  <2>3. mov[job[t].doc].qty > 0 /\ mov[job[t].doc].qty \in Nat
    BY <2>1, <2>2, LedgerRows DEF Sees, MovementRowFits, Live
  <2>4. Effect(job[t]) # 0
    BY <2>1, <2>3 DEF Effect, Undoomed
  <2> QED BY <2>1, <2>4 DEF Reads, Writes, Undoomed
<1>4. ASSUME NEW t \in Sessions, Undoomed(t, "reverseMovement")', mov'[job'[t].doc].cat = "raw_material"
      PROVE  Unissued' >= job'[t].arg
  <2>1. /\ Undoomed(t, "reverseMovement") /\ ~(TheBalance \in Reads(job[t]) \cap Writes(job[t]))
        /\ job'[t].arg = job[t].arg /\ job'[t].doc = job[t].doc
    BY <1>2, <1>4 DEF Undoomed, Serializable
  <2>2. job[t].arg \in Int /\ mov[job[t].doc].cat = "raw_material"
    BY <1>4, <2>1, TakingJob
  <2>3. ASSUME job[t].arg > 0 PROVE FALSE
    <3>1. Effect(job[t]) = -job[t].arg
      BY <2>1 DEF Effect, Undoomed
    <3>2. Effect(job[t]) # 0
      BY <2>2, <2>3, <3>1
    <3> QED BY <2>1, <2>2, <2>3, <3>2 DEF Reads, Writes, Undoomed
  <2> QED BY <1>1, <2>1, <2>2, <2>3
<1>5. IssuesFit'
  BY <1>3, <1>4 DEF IssuesFit
<1>6. IssuedWithinReceived'
  BY DEF IssuedWithinReceived, Unissued
<1> QED BY <1>5, <1>6 DEF IssueInv

-----------------------------------------------------------------------------
(* The sums over goods and over scraps when one document changes.          *)
LEMMA FactSumSame ==
    ASSUME LedgerInv, NEW S \in SUBSET Movements, \A x \in S : fact'[x] = fact[x]
    PROVE  SumOf(fact', S) = SumOf(fact, S)
<1>1. IsFiniteSet(S) /\ \A x \in S : fact[x] \in Int
  BY FS_Subset, IssueIsTyped DEF IssueTyped
<1> QED BY <1>1, SumSame

LEMMA FactSumChange ==
    ASSUME LedgerInv, LedgerInv', NEW S \in SUBSET Movements, NEW x \in S, \A y \in S : y # x => fact'[y] = fact[y]
    PROVE  SumOf(fact', S) = SumOf(fact, S) - fact[x] + fact'[x]
<1>1. IsFiniteSet(S) /\ \A y \in S : fact[y] \in Int /\ fact'[y] \in Int
  BY FS_Subset, IssueIsTyped, IssueStaysTyped DEF IssueTyped
<1> QED BY <1>1, SumChange

LEMMA ScrapsSame ==
    ASSUME LedgerInv, ScrapsNet, Scraps' = Scraps,
           \A x \in Scraps : fact'[x] = fact[x] /\ (Live(x, "posted")' <=> Live(x, "posted"))
    PROVE  ScrapsNet'
<1>1. Scraps \in SUBSET Movements /\ IsFiniteSet(Scraps) /\ \A x \in Scraps : Standing[x] \in Int
  BY IssueIsTyped, GoodsFinite DEF IssueTyped
<1>2. PICK g : g = Standing'
  OBVIOUS
<1>3. \A x \in Scraps : g[x] = Standing[x]
  BY <1>1, <1>2 DEF Standing
<1>4. SumOf(g, Scraps) = SumOf(Standing, Scraps)
  BY <1>1, <1>3, SumSame
<1>5. SumOf(fact', Scraps) = SumOf(fact, Scraps)
  BY <1>1, FactSumSame
<1> QED BY <1>2, <1>4, <1>5 DEF ScrapsNet

\* A draft joins the scraps.
LEMMA ScrapDrafted ==
    ASSUME LedgerInv, LedgerInv', ScrapsNet, NEW m \in Movements, m \notin Scraps, Scraps' = Scraps \cup {m},
           fact'[m] = 0, \A x \in Scraps : fact'[x] = fact[x] /\ (Live(x, "posted")' <=> Live(x, "posted"))
    PROVE  ScrapsNet'
<1>1. Scraps \in SUBSET Movements /\ IsFiniteSet(Scraps) /\ \A x \in Scraps : Standing[x] \in Int
  BY IssueIsTyped, GoodsFinite DEF IssueTyped
<1>2. PICK g : g = Standing'
  OBVIOUS
<1>3. (\A x \in Scraps : g[x] = Standing[x]) /\ g[m] = 0
  BY <1>1, <1>2 DEF Standing
<1>4. \A x \in Scraps \cup {m} : g[x] \in Int /\ fact'[x] \in Int
  BY <1>1, <1>2, IssueStaysTyped DEF IssueTyped
<1>5. SumOf(g, Scraps \cup {m}) = g[m] + SumOf(g, Scraps) /\ SumOf(fact', Scraps \cup {m}) = fact'[m] + SumOf(fact', Scraps)
  BY <1>1, <1>4, SumAdd
<1>6. SumOf(g, Scraps) = SumOf(Standing, Scraps) /\ SumOf(fact', Scraps) = SumOf(fact, Scraps)
  BY <1>1, <1>3, SumSame, FactSumSame
<1> QED BY <1>2, <1>3, <1>5, <1>6 DEF ScrapsNet

\* The scrap m is posted.
LEMMA ScrapPosted ==
    ASSUME LedgerInv, LedgerInv', ScrapsNet, NEW m \in Scraps, Scraps' = Scraps, ~Live(m, "posted"), Live(m, "posted")',
           fact[m] = 0, fact'[m] <= 0,
           \A x \in Scraps : x # m => fact'[x] = fact[x] /\ (Live(x, "posted")' <=> Live(x, "posted"))
    PROVE  ScrapsNet'
<1>1. /\ Scraps \in SUBSET Movements /\ IsFiniteSet(Scraps)
      /\ \A x \in Scraps : Standing[x] \in Int /\ fact'[x] \in Int
  BY IssueIsTyped, IssueStaysTyped, GoodsFinite DEF IssueTyped
<1>2. PICK g : g = Standing'
  OBVIOUS
<1>3. \A x \in Scraps : g[x] \in Int /\ (x # m => g[x] = Standing[x])
  BY <1>1, <1>2 DEF Standing
<1>4. g[m] = fact'[m] /\ Standing[m] = 0
  BY <1>1, <1>2 DEF Standing
<1>5. SumOf(g, Scraps) = SumOf(Standing, Scraps) - Standing[m] + g[m]
  BY <1>1, <1>3, SumChange
<1>6. SumOf(fact', Scraps) = SumOf(fact, Scraps) - fact[m] + fact'[m]
  BY <1>1, FactSumChange
<1> QED BY <1>2, <1>4, <1>5, <1>6 DEF ScrapsNet

\* The posted scrap m is reversed by r.
LEMMA ScrapReversed ==
    ASSUME LedgerInv, LedgerInv', ScrapsNet, NEW m \in Scraps, NEW r \in Movements, r \notin Scraps,
           Scraps' = Scraps \cup {r},
           Live(m, "posted"), ~Live(m, "posted")', Live(r, "posted")', fact'[r] = -fact[m],
           \A x \in Scraps : fact'[x] = fact[x] /\ (x # m => (Live(x, "posted")' <=> Live(x, "posted")))
    PROVE  ScrapsNet'
<1>1. /\ Scraps \in SUBSET Movements /\ IsFiniteSet(Scraps)
      /\ \A x \in Movements : Standing[x] \in Int /\ fact'[x] \in Int /\ fact[x] \in Int
  BY IssueIsTyped, IssueStaysTyped, GoodsFinite DEF IssueTyped
<1>2. PICK g : g = Standing'
  OBVIOUS
<1>3. \A x \in Movements : g[x] \in Int
  BY <1>2, IssueStaysTyped DEF IssueTyped
<1>4. \A x \in Scraps : x # m => g[x] = Standing[x]
  BY <1>1, <1>2 DEF Standing
<1>5. /\ g[m] = 0 /\ Standing[m] = IF fact[m] < 0 THEN fact[m] ELSE 0
      /\ g[r] = IF -fact[m] < 0 THEN -fact[m] ELSE 0
  BY <1>1, <1>2 DEF Standing
<1>6. SumOf(g, Scraps) = SumOf(Standing, Scraps) - Standing[m] + g[m]
  BY <1>1, <1>3, <1>4, SumChange
<1>7. SumOf(g, Scraps \cup {r}) = g[r] + SumOf(g, Scraps) /\ SumOf(fact', Scraps \cup {r}) = fact'[r] + SumOf(fact', Scraps)
  BY <1>1, <1>3, SumAdd
<1>8. SumOf(fact', Scraps) = SumOf(fact, Scraps)
  BY <1>1, FactSumSame
<1>9. SumOf(Standing, Scraps) \in Int /\ SumOf(fact, Scraps) \in Int
  BY <1>1, SumOut
<1>10. SumOf(Standing, Scraps) = SumOf(fact, Scraps)
  BY DEF ScrapsNet
<1>11. SumOf(g, Scraps \cup {r}) = SumOf(fact', Scraps \cup {r})
  BY <1>1, <1>5, <1>6, <1>7, <1>8, <1>9, <1>10
<1> QED BY <1>2, <1>11 DEF ScrapsNet

LEMMA InGoods ==
    /\ \A m : m \in Goods <=> m \in Movements /\ mov[m].cat = "raw_material"
    /\ \A m : m \in Scraps <=> m \in Movements /\ mov[m].cat # "raw_material"
BY DEF Goods, Scraps

LEMMA OneDocument ==
    ASSUME LedgerInv, LedgerInv', IssueInv, UNCHANGED <<inb, count>>, NEW m \in Movements,
           OthersSame(m), Spares(m), mov'[m].cat = mov[m].cat,
           \A d \in Movements : d # m => fact'[d] = fact[d], fact[m] <= fact'[m],
           m \in Goods \/ (fact'[m] = fact[m] /\ (Live(m, "posted")' <=> Live(m, "posted")))
    PROVE  IssueInv'
<1>1. \A d \in Movements : mov'[d].cat = mov[d].cat /\ (d # m => mov'[d] = mov[d])
  BY DEF OthersSame
<1>2. Goods' = Goods /\ Scraps' = Scraps
  BY <1>1 DEF Goods, Scraps
<1>3. /\ Goods \in SUBSET Movements /\ SumOf(fact, Goods) \in Int /\ fact[m] \in Int /\ fact'[m] \in Int
  BY IssueIsTyped, IssueStaysTyped DEF IssueTyped
<1>4. SumOf(fact, Goods) <= SumOf(fact, Goods)'
  <2>1. SumOf(fact, Goods)' = SumOf(fact', Goods)
    BY <1>2
  <2>2. CASE m \in Goods
    <3>1. SumOf(fact', Goods) = SumOf(fact, Goods) - fact[m] + fact'[m]
      BY <1>3, <2>2, FactSumChange
    <3> QED BY <1>3, <2>1, <3>1
  <2>3. CASE m \notin Goods
    <3>1. SumOf(fact', Goods) = SumOf(fact, Goods)
      BY <1>3, <2>3, FactSumSame
    <3> QED BY <1>3, <2>1, <3>1
  <2> QED BY <2>2, <2>3
<1>5. ScrapsNet'
  <2>1. \A x \in Scraps : fact'[x] = fact[x] /\ (Live(x, "posted")' <=> Live(x, "posted"))
    BY <1>1, InGoods DEF Live
  <2> QED BY <1>2, <2>1, ScrapsSame DEF IssueInv
<1>6. {m} # {} /\ (\A d \in {m} : Spares(d))
      /\ \A x \in Movements : x \notin {m} => mov'[x].qty = mov[x].qty /\ mov'[x].cat = mov[x].cat
  BY <1>1
<1> QED BY <1>4, <1>5, <1>6, IssueSpared

LEMMA CreateIssued ==
    ASSUME LedgerInv, LedgerInv', IssueInv, UNCHANGED <<inb, count>>, NEW m \in Movements, Created(m)
    PROVE  IssueInv'
<1>1. /\ OthersSame(m) /\ UNCHANGED fact /\ Spares(m) /\ fact[m] = 0 /\ mov[m].cat = "raw_material"
      /\ mov'[m].status = "draft" /\ mov[m].status = "none"
      /\ mov'[m].cat = IF mov'[m].kind = "scrap" THEN "scrap" ELSE "raw_material"
  BY DEF Created
<1>2. CASE mov'[m].cat = "raw_material"
  BY <1>1, <1>2, OneDocument, InGoods, IssueIsTyped DEF IssueTyped
<1>3. CASE mov'[m].cat = "scrap"
  <2>1. Goods' = Goods \ {m} /\ Scraps' = Scraps \cup {m} /\ m \in Goods /\ m \notin Scraps
    BY <1>1, <1>3 DEF OthersSame, Goods, Scraps
  <2>2. IsFiniteSet(Goods) /\ \A x \in Goods : fact[x] \in Int
    BY GoodsFinite, IssueIsTyped DEF IssueTyped
  <2>3. SumOf(fact, Goods)' = SumOf(fact, Goods) /\ SumOf(fact, Goods) \in Int
    BY <1>1, <2>1, <2>2, SumWithout, IssueIsTyped DEF IssueTyped
  <2>4. \A x \in Scraps : fact'[x] = fact[x] /\ (Live(x, "posted")' <=> Live(x, "posted"))
    BY <1>1, <2>1, InGoods DEF OthersSame, Live
  <2>5. ScrapsNet'
    BY <1>1, <2>1, <2>4, ScrapDrafted DEF IssueInv
  <2>6. {m} # {} /\ (\A d \in {m} : Spares(d))
        /\ \A x \in Movements : x \notin {m} => mov'[x].qty = mov[x].qty /\ mov'[x].cat = mov[x].cat
    BY <1>1 DEF OthersSame
  <2>7. SumOf(fact, Goods) <= SumOf(fact, Goods)'
    BY <2>3
  <2> QED BY <2>5, <2>6, <2>7, IssueSpared
<1> QED BY <1>1, <1>2, <1>3

LEMMA UpdateIssued ==
    ASSUME LedgerInv, LedgerInv', IssueInv, UNCHANGED <<inb, count>>, NEW m \in Movements, NEW q \in Qty, UpdateIssue(m, q)
    PROVE  IssueInv'
<1>1. /\ UNCHANGED fact /\ Spares(m)
      /\ \A d \in Movements :
           /\ mov'[d].status = mov[d].status /\ mov'[d].deleted = mov[d].deleted /\ mov'[d].cat = mov[d].cat
           /\ d # m => mov'[d].qty = mov[d].qty
  BY UpdateDoes
<1>2. Goods' = Goods /\ Scraps' = Scraps
  BY <1>1 DEF Goods, Scraps
<1>3. SumOf(fact, Goods)' = SumOf(fact, Goods) /\ SumOf(fact, Goods) \in Int
  BY <1>1, <1>2, IssueIsTyped DEF IssueTyped
<1>4. ScrapsNet'
  <2>1. \A x \in Scraps : fact'[x] = fact[x] /\ (Live(x, "posted")' <=> Live(x, "posted"))
    BY <1>1, InGoods DEF Live
  <2> QED BY <1>2, <2>1, ScrapsSame DEF IssueInv
<1>5. {m} # {} /\ (\A d \in {m} : Spares(d))
      /\ \A x \in Movements : x \notin {m} => mov'[x].qty = mov[x].qty /\ mov'[x].cat = mov[x].cat
  BY <1>1
<1>6. SumOf(fact, Goods) <= SumOf(fact, Goods)'
  BY <1>3
<1> QED BY <1>4, <1>5, <1>6, IssueSpared

LEMMA RemoveIssued ==
    ASSUME LedgerInv, LedgerInv', IssueInv, UNCHANGED <<inb, count>>, NEW m \in Movements, RemoveIssue(m)
    PROVE  IssueInv'
<1>1. /\ OthersSame(m) /\ UNCHANGED fact /\ Spares(m) /\ mov'[m].cat = mov[m].cat
      /\ mov[m].status = "draft" /\ mov'[m].status = "draft"
  BY RemoveDoes
<1>2. (Live(m, "posted")' <=> Live(m, "posted")) /\ fact[m] <= fact'[m] /\ fact'[m] = fact[m]
  BY <1>1, IssueIsTyped DEF Live, IssueTyped
<1> QED BY <1>1, <1>2, OneDocument

LEMMA SubmitIssued ==
    ASSUME LedgerInv, LedgerInv', IssueInv, UNCHANGED <<inb, count>>, NEW m \in Movements, SubmitOutbound(m)
    PROVE  IssueInv'
<1>1. OthersSame(m) /\ UNCHANGED fact /\ Spares(m) /\ mov'[m].cat = mov[m].cat /\ mov[m].kind = "issue"
  BY SubmitDoes DEF StatusOnly
<1>2. m \in Goods
  BY <1>1, LedgerRows, InGoods DEF MovementRowFits
<1>3. fact[m] <= fact'[m]
  BY <1>1, IssueIsTyped DEF IssueTyped
<1> QED BY <1>1, <1>2, <1>3, OneDocument

LEMMA WithdrawIssued ==
    ASSUME LedgerInv, LedgerInv', IssueInv, UNCHANGED <<inb, count>>, NEW s \in Sessions, WithdrawCommit(s)
    PROVE  IssueInv'
<1>1. PICK m : m = job[s].doc
  OBVIOUS
<1>2. /\ m \in Movements /\ OthersSame(m) /\ UNCHANGED fact /\ Spares(m) /\ mov'[m].cat = mov[m].cat
      /\ mov[m].kind = "issue"
  BY <1>1, WithdrawDoes DEF StatusOnly
<1>3. m \in Goods
  BY <1>2, LedgerRows, InGoods DEF MovementRowFits
<1>4. fact[m] <= fact'[m]
  BY <1>2, IssueIsTyped DEF IssueTyped
<1> QED BY <1>2, <1>3, <1>4, OneDocument

LEMMA ReopenIssued ==
    ASSUME LedgerInv, LedgerInv', IssueInv, UNCHANGED <<inb, count>>, NEW s \in Sessions, ReopenCommit(s)
    PROVE  IssueInv'
<1>1. PICK m : m = job[s].doc
  OBVIOUS
<1>2. /\ m \in Movements /\ OthersSame(m) /\ Spares(m) /\ mov'[m].cat = mov[m].cat
      /\ mov[m].kind = "issue" /\ fact'[m] = 0 /\ \A d \in Booked : d # m => fact'[d] = fact[d]
  BY <1>1, ReopenDoes DEF StatusOnly
<1>3. m \in Goods /\ fact[m] <= 0
  BY <1>2, LedgerRows, InGoods DEF MovementRowFits
<1>4. \A d \in Movements : d # m => fact'[d] = fact[d]
  BY <1>2 DEF Booked
<1> QED BY <1>2, <1>3, <1>4, OneDocument

LEMMA PostDerivedIssued ==
    ASSUME LedgerInv, LedgerInv', IssueInv, UNCHANGED <<inb, count>>,
           NEW s \in Sessions, PostCommit(s), job[s].op = "postDerived"
    PROVE  IssueInv'
<1>1. PICK m : m = job[s].doc
  OBVIOUS
<1>2. /\ m \in Movements /\ OthersSame(m) /\ Spares(m) /\ StatusOnly(m, "posted") /\ mov[m].qty > 0
      /\ mov[m].kind \in {"return", "scrap"} /\ Live(m, "draft")
      /\ fact'[m] = fact[m] + (IF mov[m].kind = "return" THEN mov[m].qty ELSE -mov[m].qty)
      /\ \A d \in Booked : d # m => fact'[d] = fact[d]
  <2>1. job[s].op # "postIssue"
    OBVIOUS
  <2> QED BY <1>1, <2>1, PostDoes
<1>3. /\ mov'[m].cat = mov[m].cat /\ mov'[m].status = "posted" /\ mov'[m].deleted = mov[m].deleted
      /\ \A d \in Movements : d # m => mov'[d] = mov[d]
  BY <1>2 DEF StatusOnly, OthersSame
<1>4. mov[m].qty \in Nat /\ fact[m] \in Int /\ \A d \in Movements : d # m => fact'[d] = fact[d]
  BY <1>2, LedgerRows DEF Booked
<1>5. CASE mov[m].kind = "return"
  <2>1. m \in Goods
    BY <1>2, <1>5, LedgerRows, InGoods DEF MovementRowFits
  <2>2. fact[m] <= fact'[m]
    BY <1>2, <1>4, <1>5
  <2> QED BY <1>2, <1>3, <1>4, <2>1, <2>2, OneDocument
<1>6. CASE mov[m].kind = "scrap"
  <2>1. m \in Scraps /\ m \notin overtaken
    BY <1>2, <1>6, LedgerRows, InGoods DEF MovementRowFits
  <2>2. fact[m] = 0
    BY <1>2, <2>1, <1>6 DEF LedgerInv, MovementInv, MovementLedger, MovementEffect, Live
  <2>3. fact'[m] <= 0
    BY <1>2, <1>4, <1>6, <2>2
  <2>4. Scraps' = Scraps /\ Goods' = Goods
    BY <1>3 DEF Goods, Scraps
  <2>5. ~Live(m, "posted") /\ Live(m, "posted")'
    BY <1>2, <1>3 DEF Live
  <2>6. \A x \in Scraps : x # m => fact'[x] = fact[x] /\ (Live(x, "posted")' <=> Live(x, "posted"))
    BY <1>3, <1>4, InGoods DEF Live
  <2>7. ScrapsNet'
    BY <2>1, <2>2, <2>3, <2>4, <2>5, <2>6, ScrapPosted DEF IssueInv
  <2>8. SumOf(fact, Goods) <= SumOf(fact, Goods)'
    <3>1. Goods \in SUBSET Movements /\ m \notin Goods /\ SumOf(fact, Goods) \in Int
      BY <2>1, InGoods, IssueIsTyped DEF IssueTyped
    <3>2. SumOf(fact', Goods) = SumOf(fact, Goods)
      BY <1>4, <3>1, FactSumSame
    <3> QED BY <2>4, <3>1, <3>2
  <2>9. {m} # {} /\ (\A d \in {m} : Spares(d))
        /\ \A x \in Movements : x \notin {m} => mov'[x].qty = mov[x].qty /\ mov'[x].cat = mov[x].cat
    BY <1>2, <1>3
  <2> QED BY <2>7, <2>8, <2>9, IssueSpared
<1> QED BY <1>2, <1>5, <1>6

LEMMA PostIssueIssued ==
    ASSUME LedgerInv, LedgerInv', IssueInv, UNCHANGED <<inb, count>>,
           NEW s \in Sessions, PostCommit(s), job[s].op = "postIssue"
    PROVE  IssueInv'
<1>1. PICK m : m = job[s].doc
  OBVIOUS
<1>2. /\ m \in Movements /\ OthersSame(m) /\ Spares(m) /\ StatusOnly(m, "posted") /\ mov[m].qty > 0
      /\ mov[m].kind = "issue" /\ ~job[s].doomed
      /\ fact'[m] = fact[m] + (IF mov[m].kind = "return" THEN mov[m].qty ELSE -mov[m].qty)
      /\ \A d \in Booked : d # m => fact'[d] = fact[d]
      /\ job[s].op \in Serializable /\ CommitSerializable(s)
  BY <1>1, PostDoes
<1>3. mov'[m].cat = mov[m].cat /\ \A d \in Movements : d # m => mov'[d] = mov[d]
  BY <1>2 DEF StatusOnly, OthersSame
<1>4. mov[m].qty \in Nat /\ fact[m] \in Int /\ \A d \in Movements : d # m => fact'[d] = fact[d]
  BY <1>2, LedgerRows DEF Booked
<1>5. m \in Goods /\ fact'[m] = fact[m] - mov[m].qty
  BY <1>2, <1>4, LedgerRows, InGoods DEF MovementRowFits
<1>6. Goods' = Goods /\ Scraps' = Scraps
  BY <1>3 DEF Goods, Scraps
<1>7. ScrapsNet'
  <2>1. \A x \in Scraps : fact'[x] = fact[x] /\ (Live(x, "posted")' <=> Live(x, "posted"))
    BY <1>3, <1>4, <1>5, InGoods DEF Live
  <2> QED BY <1>6, <2>1, ScrapsSame DEF IssueInv
<1>8. Unissued' >= 0
  <2>1. Goods \in SUBSET Movements /\ SumOf(fact, Goods) \in Int /\ EverReceived \in Nat /\ EverFound \in Nat
    BY IssueIsTyped DEF IssueTyped
  <2>2. SumOf(fact', Goods) = SumOf(fact, Goods) - fact[m] + fact'[m]
    BY <1>4, <1>5, <2>1, FactSumChange
  <2>3. Unissued >= mov[m].qty
    BY <1>1, <1>2 DEF IssueInv, IssuesFit, Undoomed
  <2>4. EverReceived' = EverReceived /\ EverFound' = EverFound
    BY DEF EverReceived, EverFound, QtyOf
  <2>5. Unissued' = EverReceived + EverFound + SumOf(fact', Goods)
    BY <1>6, <2>4 DEF Unissued
  <2> QED BY <1>4, <1>5, <2>1, <2>2, <2>3, <2>5 DEF Unissued
<1>9. TheBalance \in Reads(job[s]) \cap Writes(job[s])
  <2>1. Effect(job[s]) = -mov[m].qty
    BY <1>1 DEF Effect
  <2>2. Effect(job[s]) # 0
    BY <1>2, <1>4, <2>1
  <2> QED BY <2>2 DEF Reads, Writes
<1>10. ASSUME NEW t \in Sessions, Undoomed(t, "reverseMovement")' PROVE mov'[job[t].doc].cat = mov[job[t].doc].cat
  <2>1. Undoomed(t, "reverseMovement") /\ job[t].doc # m
    BY <1>2, <1>10 DEF Spares, Undoomed, MovementOps, Serializable
  <2>2. job[t].doc \in Movements
    BY <2>1, TakingJob
  <2> QED BY <1>3, <2>1, <2>2
<1> QED BY <1>2, <1>7, <1>8, <1>9, <1>10, IssueTaken

\* A reversal of goods takes back what they brought, if that is still there.
LEMMA ReverseGoods ==
    ASSUME LedgerInv, LedgerInv', IssueInv, UNCHANGED <<inb, count>>,
           NEW s \in Sessions, NEW r \in Movements, NEW m, m = job[s].doc, Reversed(s, r, m),
           mov[m].cat = "raw_material"
    PROVE  IssueInv'
<1>1. /\ m \in Movements /\ m # r /\ Spares(m) /\ Spares(r) /\ mov'[m].cat = mov[m].cat
      /\ \A d \in Movements : d # m /\ d # r => mov'[d] = mov[d]
      /\ mov[r].cat = "raw_material" /\ mov'[r].cat = mov[m].cat /\ fact[r] = 0 /\ fact'[r] = -fact[m]
      /\ job[s].op = "reverseMovement" /\ CommitSerializable(s) /\ job[s].op \in Serializable
      /\ ~job[s].doomed /\ job[s].arg = fact[m]
      /\ \A d \in Booked : d # r => fact'[d] = fact[d]
  BY DEF Reversed, StatusOnly
<1>2. \A d \in Movements : d # r => fact'[d] = fact[d]
  BY <1>1 DEF Booked
<1>3. \A d \in Movements : mov'[d].cat = mov[d].cat
  BY <1>1
<1>4. Goods' = Goods /\ Scraps' = Scraps /\ r \in Goods
  BY <1>1, <1>3 DEF Goods, Scraps
<1>5. ScrapsNet'
  <2>1. \A x \in Scraps : fact'[x] = fact[x] /\ (Live(x, "posted")' <=> Live(x, "posted"))
    BY <1>1, <1>2, InGoods DEF Live
  <2> QED BY <1>4, <2>1, ScrapsSame DEF IssueInv
<1>6. /\ Goods \in SUBSET Movements /\ SumOf(fact, Goods) \in Int /\ EverReceived \in Nat /\ EverFound \in Nat
      /\ fact[m] \in Int
  BY <1>1, IssueIsTyped DEF IssueTyped
<1>7. SumOf(fact', Goods) = SumOf(fact, Goods) - fact[r] + fact'[r]
  BY <1>2, <1>4, <1>6, FactSumChange
<1>8. SumOf(fact', Goods) = SumOf(fact, Goods) - fact[m]
  BY <1>1, <1>6, <1>7
<1>9. CASE fact[m] > 0
  <2>1. Unissued' >= 0
    <3>1. Unissued >= fact[m]
      BY <1>1 DEF IssueInv, IssuesFit, Undoomed
    <3>2. EverReceived' = EverReceived /\ EverFound' = EverFound
      BY DEF EverReceived, EverFound, QtyOf
    <3>3. Unissued' = EverReceived + EverFound + SumOf(fact', Goods)
      BY <1>4, <3>2 DEF Unissued
    <3> QED BY <1>6, <1>8, <3>1, <3>3 DEF Unissued
  <2>2. TheBalance \in Reads(job[s]) \cap Writes(job[s])
    <3>1. Effect(job[s]) = -fact[m]
      BY <1>1 DEF Effect
    <3>2. Effect(job[s]) # 0
      BY <1>6, <1>9, <3>1
    <3> QED BY <1>1, <1>9, <3>2 DEF Reads, Writes
  <2>3. ASSUME NEW t \in Sessions, Undoomed(t, "reverseMovement")' PROVE mov'[job[t].doc].cat = mov[job[t].doc].cat
    <3>1. Undoomed(t, "reverseMovement")
      BY <1>1, <2>3 DEF Spares, Undoomed, MovementOps, Serializable
    <3>2. job[t].doc \in Movements
      BY <3>1, TakingJob
    <3> QED BY <1>3, <3>2
  <2> QED BY <1>1, <1>5, <2>1, <2>2, <2>3, IssueTaken
<1>10. CASE ~(fact[m] > 0)
  <2>1. SumOf(fact, Goods) <= SumOf(fact, Goods)'
    BY <1>4, <1>6, <1>8, <1>10
  <2>2. {m, r} # {} /\ (\A d \in {m, r} : Spares(d))
        /\ \A x \in Movements : x \notin {m, r} => mov'[x].qty = mov[x].qty /\ mov'[x].cat = mov[x].cat
    BY <1>1
  <2> QED BY <1>5, <2>1, <2>2, IssueSpared
<1> QED BY <1>9, <1>10

\* A reversal of a scrap leaves the goods alone.
LEMMA ReverseScrap ==
    ASSUME LedgerInv, LedgerInv', IssueInv, UNCHANGED <<inb, count>>,
           NEW s \in Sessions, NEW r \in Movements, NEW m, Reversed(s, r, m), mov[m].cat # "raw_material"
    PROVE  IssueInv'
<1>1. /\ m \in Movements /\ m # r /\ Spares(m) /\ Spares(r)
      /\ mov'[m].cat = mov[m].cat /\ mov'[m].status = "reversed" /\ Live(m, "posted")
      /\ \A d \in Movements : d # m /\ d # r => mov'[d] = mov[d]
      /\ mov[r].cat = "raw_material" /\ mov'[r].cat = mov[m].cat /\ fact[r] = 0 /\ fact'[r] = -fact[m]
      /\ mov'[r].status = "posted" /\ mov'[r].deleted = FALSE
      /\ \A d \in Booked : d # r => fact'[d] = fact[d]
  BY DEF Reversed, StatusOnly
<1>2. \A d \in Movements : d # r => fact'[d] = fact[d]
  BY <1>1 DEF Booked
<1>3. Goods' = Goods \ {r} /\ Scraps' = Scraps \cup {r} /\ m \in Scraps /\ r \notin Scraps
  BY <1>1 DEF Goods, Scraps
<1>4. ScrapsNet'
  <2>1. \A x \in Scraps : fact'[x] = fact[x] /\ (x # m => (Live(x, "posted")' <=> Live(x, "posted")))
    BY <1>1, <1>2, <1>3, InGoods DEF Live
  <2>2. ~Live(m, "posted")' /\ Live(r, "posted")'
    BY <1>1 DEF Live
  <2> QED BY <1>1, <1>3, <2>1, <2>2, ScrapReversed DEF IssueInv
<1>5. SumOf(fact, Goods)' = SumOf(fact, Goods) /\ SumOf(fact, Goods) \in Int
  <2>1. IsFiniteSet(Goods) /\ Goods \in SUBSET Movements /\ SumOf(fact, Goods) \in Int /\ \A y \in Goods : fact[y] \in Int
    BY GoodsFinite, IssueIsTyped DEF IssueTyped
  <2>2. SumOf(fact, Goods \ {r}) = SumOf(fact, Goods)
    BY <1>1, <2>1, SumWithout
  <2>3. SumOf(fact', Goods \ {r}) = SumOf(fact, Goods \ {r})
    BY <1>2, <2>1, FactSumSame
  <2> QED BY <1>3, <2>1, <2>2, <2>3
<1>6. SumOf(fact, Goods) <= SumOf(fact, Goods)'
  BY <1>5
<1>7. {m, r} # {} /\ (\A d \in {m, r} : Spares(d))
      /\ \A x \in Movements : x \notin {m, r} => mov'[x].qty = mov[x].qty /\ mov'[x].cat = mov[x].cat
  BY <1>1
<1> QED BY <1>4, <1>6, <1>7, IssueSpared

LEMMA ReverseIssued ==
    ASSUME LedgerInv, LedgerInv', IssueInv, UNCHANGED <<inb, count>>,
           NEW s \in Sessions, NEW r \in Movements, ReverseCommit(s, r)
    PROVE  IssueInv'
<1>1. PICK m : m = job[s].doc
  OBVIOUS
<1>2. Reversed(s, r, m)
  BY <1>1, ReverseDoes
<1> QED BY <1>1, <1>2, ReverseGoods, ReverseScrap

-----------------------------------------------------------------------------
(* The documents of the stores untouched.                                  *)
LEMMA IssueSame ==
    ASSUME LedgerInv, UNCHANGED mov, Untouched(Movements)
    PROVE  /\ Goods' = Goods /\ SumOf(fact, Goods)' = SumOf(fact, Goods)
           /\ ScrapsNet => ScrapsNet'
<1>1. Goods' = Goods /\ Scraps' = Scraps
  BY DEF Goods, Scraps
<1>2. SumOf(fact', Goods) = SumOf(fact, Goods)
  BY FactSumSame, IssueIsTyped DEF Untouched, IssueTyped
<1>3. ASSUME ScrapsNet PROVE ScrapsNet'
  <2>1. \A x \in Scraps : fact'[x] = fact[x] /\ (Live(x, "posted")' <=> Live(x, "posted"))
    BY InGoods DEF Live, Untouched
  <2> QED BY <1>1, <1>3, <2>1, ScrapsSame
<1> QED BY <1>1, <1>2, <1>3

LEMMA IssueForeign ==
    ASSUME LedgerInv, LedgerInv', IssueInv, UNCHANGED mov, Untouched(Movements), Keeps(MovementOps),
           EverReceived <= EverReceived', EverFound <= EverFound'
    PROVE  IssueInv'
<1>1. SumOf(fact, Goods)' = SumOf(fact, Goods) /\ ScrapsNet'
  BY IssueSame DEF IssueInv
<1>2. Unissued <= Unissued'
  <2>1. /\ EverReceived \in Nat /\ EverFound \in Nat /\ SumOf(fact, Goods) \in Int
        /\ EverReceived' \in Nat /\ EverFound' \in Nat
    BY IssueIsTyped, IssueStaysTyped DEF IssueTyped
  <2>2. Unissued = EverReceived + EverFound + SumOf(fact, Goods)
        /\ Unissued' = EverReceived' + EverFound' + SumOf(fact, Goods)
    BY <1>1 DEF Unissued
  <2> QED BY <2>1, <2>2
<1>3. {"postIssue", "reverseMovement"} \subseteq MovementOps
  BY DEF MovementOps, Serializable
<1>4. \A t \in Sessions : StillIssues(t) /\ StillReverses(t)
  BY <1>3 DEF Keeps, StillIssues, StillReverses, Undoomed
<1> QED BY <1>1, <1>2, <1>4, IssueKept

\* A request has read that the balance covers what it will take.
LEMMA BeginIssued ==
    ASSUME LedgerInv, LedgerInv', IssueInv, UNCHANGED <<inb, count>>, UNCHANGED <<tables, desk, past>>,
           NEW s \in Sessions, NEW op, NEW m, NEW arg, Start(s, op, m, arg),
           op = "postIssue" => Unissued >= mov[m].qty,
           op = "reverseMovement" /\ mov[m].cat = "raw_material" => Unissued >= arg
    PROVE  IssueInv'
<1>1. TypeInv /\ UNCHANGED <<mov, fact>>
  BY DEF LedgerInv, tables
<1>2. (\A t \in Sessions : t # s => job'[t] = job[t]) /\ job'[s].op = op /\ job'[s].doc = m /\ job'[s].arg = arg
  BY <1>1, StartKeeps
<1>3. Goods' = Goods /\ ScrapsNet'
  BY <1>1, IssueSame, SameFacts DEF IssueInv
<1>4. Unissued' = Unissued
  BY <1>1, <1>3 DEF Unissued, EverReceived, EverFound, QtyOf
<1>5. IssuedWithinReceived'
  BY <1>4 DEF IssueInv, IssuedWithinReceived, Unissued
<1>6. IssuesFit'
  BY <1>1, <1>2, <1>4 DEF IssueInv, IssuesFit, Undoomed
<1> QED BY <1>3, <1>5, <1>6 DEF IssueInv

LEMMA PostIssueBegun ==
    ASSUME LedgerInv, LedgerInv', IssueInv, UNCHANGED <<inb, count>>,
           NEW s \in Sessions, NEW m \in Movements, PostOutboundBegin(s, m)
    PROVE  IssueInv'
<1>1. Start(s, "postIssue", m, 0) /\ UNCHANGED <<tables, desk, past>> /\ Balance - mov[m].qty >= 0 /\ TypeInv
  BY DEF PostOutboundBegin, LedgerInv
<1>2. Balance <= Unissued /\ Unissued \in Int /\ mov[m].qty \in Nat /\ Balance \in Int
  BY <1>1, UnissuedAboveBalance, IssueIsTyped, BalanceTyped DEF IssueInv, IssueTyped
<1>3. Unissued >= mov[m].qty
  BY <1>1, <1>2
<1> QED BY <1>1, <1>3, BeginIssued

LEMMA ReverseBegun ==
    ASSUME LedgerInv, LedgerInv', IssueInv, UNCHANGED <<inb, count>>,
           NEW s \in Sessions, NEW m \in Movements, ReverseBegin(s, m)
    PROVE  IssueInv'
<1>1. /\ Start(s, "reverseMovement", m, fact[m]) /\ UNCHANGED <<tables, desk, past>> /\ TypeInv
      /\ fact[m] > 0 /\ mov[m].cat = "raw_material" => Balance - fact[m] >= 0
  BY DEF ReverseBegin, LedgerInv
<1>2. Balance <= Unissued /\ Unissued \in Int /\ fact[m] \in Int /\ Balance \in Int
  BY <1>1, UnissuedAboveBalance, IssueIsTyped, BalanceTyped DEF IssueInv, IssueTyped
<1>3. Unissued >= 0
  BY DEF IssueInv, IssuedWithinReceived, Unissued
<1>4. mov[m].cat = "raw_material" => Unissued >= fact[m]
  BY <1>1, <1>2, <1>3
<1> QED BY <1>1, <1>4, BeginIssued

LEMMA NextIssue == ASSUME LedgerInv, IssueInv, [Next]_allVars PROVE IssueInv'
<1>1. TypeInv /\ LedgerInv'
  BY NextLedger DEF LedgerInv
<1>2. CASE OutboundStep /\ UNCHANGED count
  <2>0. UNCHANGED <<inb, count>>
    BY <1>1, <1>2, IssuingFrame
  <2>1. ASSUME NEW m \in Movements, NEW q \in Qty, CreateIssue(m, q) PROVE IssueInv'
    BY <1>1, <2>0, <2>1, CreateDoes, CreateIssued
  <2>2. ASSUME NEW m \in Movements, SubmitOutbound(m) PROVE IssueInv'
    BY <1>1, <2>0, <2>2, SubmitIssued
  <2>3. ASSUME NEW s \in Sessions, NEW m \in Movements, PostOutboundBegin(s, m) PROVE IssueInv'
    BY <1>1, <2>0, <2>3, PostIssueBegun
  <2>4. ASSUME NEW s \in Sessions, PostCommit(s) PROVE IssueInv'
    BY <1>1, <2>0, <2>4, PostIssueIssued, PostDerivedIssued DEF PostCommit
  <2> QED BY <1>2, <2>1, <2>2, <2>3, <2>4 DEF OutboundStep
<1>3. CASE CorrectingStep /\ UNCHANGED count
  <2>0. UNCHANGED <<inb, count>>
    BY <1>1, <1>3, IssuingFrame
  <2>1. ASSUME NEW m \in Movements, NEW q \in Qty, UpdateIssue(m, q) PROVE IssueInv'
    BY <1>1, <2>0, <2>1, UpdateIssued
  <2>2. ASSUME NEW m \in Movements, NEW of \in Movements, NEW kind \in {"return", "scrap"}, NEW q \in Qty,
               CreateDerived(m, kind, of, q)
        PROVE  IssueInv'
    BY <1>1, <2>0, <2>2, CreateDoes, CreateIssued
  <2>3. ASSUME NEW m \in Movements, RemoveIssue(m) PROVE IssueInv'
    BY <1>1, <2>0, <2>3, RemoveIssued
  <2>4. ASSUME NEW s \in Sessions, NEW m \in Movements, PostDerivedBegin(s, m) PROVE IssueInv'
    BY <1>1, <2>0, <2>4, BeginIssued DEF PostDerivedBegin
  <2>5. ASSUME NEW s \in Sessions, NEW m \in Movements, WithdrawBegin(s, m) PROVE IssueInv'
    BY <1>1, <2>0, <2>5, BeginIssued DEF WithdrawBegin
  <2>6. ASSUME NEW s \in Sessions, NEW m \in Movements, ReopenBegin(s, m) PROVE IssueInv'
    BY <1>1, <2>0, <2>6, BeginIssued DEF ReopenBegin
  <2>7. ASSUME NEW s \in Sessions, NEW m \in Movements, ReverseBegin(s, m) PROVE IssueInv'
    BY <1>1, <2>0, <2>7, ReverseBegun
  <2>8. ASSUME NEW s \in Sessions, NEW r \in Movements, ReverseCommit(s, r) PROVE IssueInv'
    BY <1>1, <2>0, <2>8, ReverseIssued
  <2>9. ASSUME NEW s \in Sessions, WithdrawCommit(s) PROVE IssueInv'
    BY <1>1, <2>0, <2>9, WithdrawIssued
  <2>10. ASSUME NEW s \in Sessions, ReopenCommit(s) PROVE IssueInv'
    BY <1>1, <2>0, <2>10, ReopenIssued
  <2> QED BY <1>3, <2>1, <2>2, <2>3, <2>4, <2>5, <2>6, <2>7, <2>8, <2>9, <2>10 DEF CorrectingStep
<1>4. EverReceived <= EverReceived'
  BY <1>1, NextStaysReceived, ReceivedGrows
<1>5. ASSUME UNCHANGED count PROVE EverFound <= EverFound'
  <2>1. EverFound' = EverFound /\ EverFound \in Nat
    BY <1>5, IssueIsTyped DEF EverFound, IssueTyped
  <2> QED BY <2>1
<1>6. CASE (InspectionStep \/ InboundStep \/ PayableStep \/ ReversalStep) /\ UNCHANGED count
  <2>1. Keeps(MovementOps) /\ UNCHANGED mov /\ Untouched(Movements)
    BY <1>1, <1>6, ReceivingFrame, KeepsFewer DEF Untouched
  <2> QED BY <1>1, <1>4, <1>5, <1>6, <2>1, IssueForeign
<1>7. CASE StocktakeStep
  <2>1. Keeps(MovementOps) /\ UNCHANGED mov /\ Untouched(Movements)
    BY <1>1, <1>7, StocktakeFrame, KeepsFewer DEF Untouched
  <2>2. EverFound <= EverFound'
    BY <1>1, <1>7, StocktakeStaysFound, FoundGrows
  <2> QED BY <1>1, <1>4, <2>1, <2>2, IssueForeign
<1>8. CASE Keeps(AllOps) /\ UNCHANGED <<tables, past, count>>
  <2>1. Keeps(MovementOps) /\ UNCHANGED mov /\ Untouched(Movements) /\ UNCHANGED count
    BY <1>8, KeepsFewer, MovementOpsKnown, SameFacts DEF tables
  <2> QED BY <1>1, <1>4, <1>5, <2>1, IssueForeign
<1> QED BY <1>1, <1>2, <1>3, <1>6, <1>7, <1>8, Steps

LEMMA InitIssue == Init => IssueInv
<1>1. SUFFICES ASSUME Init PROVE IssueInv
  OBVIOUS
<1>2. LedgerInv /\ \A s \in Sessions : job[s].op = "idle"
  BY <1>1, IdleTyped, InitLedger DEF Init
<1>3. \A m \in Movements : mov[m] = NoMovement
  BY <1>1 DEF Init
<1>4. \A m \in Movements : fact[m] = 0
  BY <1>1, <1>3, <1>2, LedgerRows DEF Init, InStock, NothingIn, Booked
<1>5. SumOf(fact, Goods) = 0 /\ SumOf(fact, Scraps) = 0
  BY <1>4, GoodsFinite, SumZero, InGoods
<1>6. IssuedWithinReceived
  BY <1>2, <1>5, IssueIsTyped DEF IssueTyped, IssuedWithinReceived
<1>7. ScrapsNet
  <2>1. Scraps = {}
    BY <1>3, InGoods DEF NoMovement
  <2> QED BY <2>1, SumEmpty DEF ScrapsNet
<1>8. IssuesFit
  BY <1>2 DEF IssuesFit, Undoomed
<1> QED BY <1>6, <1>7, <1>8 DEF IssueInv

(* The ledger and the issues, which rely on it.                            *)
THEOREM MaterialsIssueInv == Spec => [](LedgerInv /\ IssueInv)
<1>1. LedgerInv /\ IssueInv /\ [Next]_<<vars, count>> => (LedgerInv /\ IssueInv)'
  BY NextLedger, NextIssue DEF allVars
<1>2. Init => LedgerInv /\ IssueInv
  BY InitLedger, InitIssue
<1> QED BY <1>1, <1>2, PTL DEF Spec

(* Whatever is posted, reversed, counted and taken back at the same time:  *)
(* the stores never hand out more than was ever received or found.         *)
THEOREM MaterialsIssuedWithinReceived == Spec => []IssuedWithinReceived
<1>1. LedgerInv /\ IssueInv => IssuedWithinReceived
  BY DEF IssueInv
<1> QED BY <1>1, MaterialsIssueInv, PTL

=============================================================================
