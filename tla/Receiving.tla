------------------------------ MODULE Receiving ------------------------------
(***************************************************************************)
(* Goods in: inspection of a delivery, the inbound notice, the inbound     *)
(* document from draft to posted or reversed, and the supplier payable     *)
(* that posting creates.                                                   *)
(***************************************************************************)
EXTENDS MaterialsDb

CompletedStatuses == {"accepted", "rejected", "completed"}
InboundableStatuses == {"accepted", "completed"}
Acknowledged(i) == notice[i] = "acknowledged"

\* The row an inspection result a (accepted) / r (rejected) turns into.
Graded(row, a, r, ifNothing) ==
    LET status == IF a + r = 0 THEN ifNothing
                  ELSE IF a = 0 THEN "rejected" ELSE "accepted"
    IN [status |-> status, accepted |-> a, rejected |-> r,
        qc |-> CASE status = "rejected" -> "rejected"
                 [] status = "accepted" -> "inbound"
                 [] OTHER -> "none"]

WriteBatch(s) ==
    LET i == job[s].doc
        row == job[s].row
    IN /\ batch' = [batch EXCEPT ![i] = row]
       /\ peak' = [peak EXCEPT ![i] = IF row.accepted > @ THEN row.accepted ELSE @]
       /\ Done(s)
       /\ UNCHANGED <<notice, inb, mov, fact, desk, overtaken, overdrawn>>

-----------------------------------------------------------------------------
\* create locks the receipt, not the inspection it adds the quantities to.
InspectBegin(s, i, a, r) ==
    /\ ~ \E t \in Sessions : job[t].op = "inspect" /\ job[t].doc = i
    /\ InboundsOf(i) = {}
    /\ batch[i].rejected + r <= MaxRejected
    /\ batch[i].accepted + a + batch[i].rejected + r <= MaxQty
    /\ StartWrite(s, "inspect", i, Graded(batch[i], batch[i].accepted + a, batch[i].rejected + r, "pending"))
    /\ UNCHANGED <<tables, desk, past>>

InspectCommit(s) ==
    /\ Working(s, "inspect")
    /\ ~BatchLocked(job[s].doc)
    /\ WriteBatch(s)

CorrectBegin(s, i, a, r) ==
    /\ ~BatchLocked(i)
    /\ a + r <= MaxQty
    /\ batch[i].status # "cancelled"
    /\ InboundsOf(i) = {}
    /\ StartWrite(s, "correct", i, Graded(batch[i], a, r, batch[i].status))
    /\ UNCHANGED <<tables, desk, past>>

TransitionBegin(s, i, target) ==
    /\ ~BatchLocked(i)
    /\ \/ batch[i].status = "pending" /\ target = "inspecting"
       \/ /\ batch[i].status = "inspecting" /\ target = "completed"
          /\ batch[i].accepted + batch[i].rejected # 0
       \/ /\ batch[i].status \in CompletedStatuses /\ target \in {"pending", "cancelled"}
          /\ InboundsOf(i) = {}
    /\ StartWrite(s, "transition", i, [batch[i] EXCEPT !.status = target])
    /\ UNCHANGED <<tables, desk, past>>

\* The payable sources it voids are those of receipts, which nothing creates.
ReturnToSupplierBegin(s, i) ==
    /\ ~BatchLocked(i)
    /\ batch[i].status # "cancelled"
    /\ InboundsOf(i) = {}
    /\ StartWrite(s, "return", i, [batch[i] EXCEPT !.status = "cancelled"])
    /\ UNCHANGED <<tables, desk, past>>

LockedWriteCommit(s) ==
    /\ job[s].op \in {"correct", "transition", "return"}
    /\ WriteBatch(s)

-----------------------------------------------------------------------------
CreateNotice(i) ==
    /\ ~BatchLocked(i)
    /\ notice[i] = "none"
    /\ batch[i].status \in InboundableStatuses
    /\ batch[i].qc # "rejected"
    /\ batch[i].accepted > Used(InboundsOf(i))
    /\ notice' = [notice EXCEPT ![i] = "pending"]
    /\ UNCHANGED <<batch, inb, mov, fact, job, desk, past>>

\* The remainder may be negative: only zero is refused.
NewDraft(i, b) ==
    LET rest == batch[i].accepted - Used(InboundsOf(i))
    IN /\ inb[b].status = "none"
       /\ batch[i].status \in InboundableStatuses
       /\ rest \in (-MaxQty..MaxQty) \ {0}
       /\ inb' = [inb EXCEPT ![b] = [NoInbound EXCEPT !.status = "draft", !.qty = rest,
                                                      !.batch = i, !.linked = TRUE]]
       /\ overdrawn' = IF rest < 0 THEN overdrawn \cup {i} ELSE overdrawn

\* acknowledge takes the lock of the notice only, never the inspection's.
Acknowledge(i) ==
    /\ notice[i] \in {"pending", "acknowledged"}
    /\ LET drafts == {b \in InboundsOf(i) : inb[b].status = "draft"}
       IN \/ \E b \in drafts :
               /\ ~InboundLocked(b)
               /\ inb' = [inb EXCEPT ![b].linked = TRUE]
               /\ UNCHANGED overdrawn
          \/ drafts = {} /\ \E b \in Inbounds : NewDraft(i, b)
          \/ /\ drafts = {}
             /\ \/ batch[i].status \notin InboundableStatuses
                \/ batch[i].accepted = Used(InboundsOf(i))
             /\ InboundsOf(i) # {}
             /\ UNCHANGED <<inb, overdrawn>>
    /\ notice' = [notice EXCEPT ![i] = "acknowledged"]
    /\ UNCHANGED <<batch, mov, fact, job, desk, peak, overtaken>>

-----------------------------------------------------------------------------
RegisterBegin(s, i, q) ==
    /\ ~BatchLocked(i)
    /\ batch[i].status \in InboundableStatuses
    /\ batch[i].qc # "rejected"
    /\ Acknowledged(i)
    /\ q + Used(InboundsOf(i)) <= batch[i].accepted
    /\ Start(s, "register", i, q)
    /\ UNCHANGED <<tables, desk, past>>

\* A registered inbound is linked to its notice by the next acknowledge only.
RegisterCommit(s, b) ==
    /\ Working(s, "register")
    /\ inb[b].status = "none"
    /\ inb' = [inb EXCEPT ![b] = [NoInbound EXCEPT !.status = "draft", !.qty = job[s].arg,
                                                   !.batch = job[s].doc]]
    /\ Done(s)
    /\ UNCHANGED <<batch, notice, mov, fact, desk, past>>

UpdateInbound(b, q) ==
    LET i == inb[b].batch
    IN /\ inb[b].status = "draft" /\ ~inb[b].deleted
       /\ ~InboundLocked(b) /\ ~BatchLocked(i)
       /\ Acknowledged(i)
       /\ batch[i].qc # "rejected"
       /\ q + Used(InboundsOf(i) \ {b}) <= batch[i].accepted
       /\ inb' = [inb EXCEPT ![b].qty = q]
       /\ UNCHANGED <<batch, notice, mov, fact, job, desk, past>>

\* post decides on what it read before it waits for the inspection's lock.
PostInboundBegin(s, b) ==
    LET i == inb[b].batch
    IN /\ ~InboundLocked(b)
       /\ inb[b].status = "draft" /\ ~inb[b].deleted
       /\ inb[b].linked /\ Acknowledged(i)
       /\ batch[i].status \in InboundableStatuses
       /\ inb[b].qty + Used(InboundsOf(i) \ {b}) <= batch[i].accepted
       /\ Start(s, "postInbound", b, 0)
       /\ UNCHANGED <<tables, desk, past>>

PostInboundCommit(s) ==
    LET b == job[s].doc
    IN /\ Working(s, "postInbound")
       /\ ~BatchLocked(inb[b].batch)
       /\ inb' = [inb EXCEPT ![b].status = "posted",
                             ![b].source = IF @ \in {"none", "voided"} THEN "pending_finance" ELSE @]
       /\ fact' = [fact EXCEPT ![b] = @ + inb[b].qty]
       /\ Done(s)
       /\ UNCHANGED <<batch, notice, mov, desk, past>>

RemoveInboundBegin(s, b) ==
    /\ inb[b].status = "draft" /\ ~inb[b].deleted
    /\ Start(s, "removeInbound", b, 0)
    /\ UNCHANGED <<tables, desk, past>>

\* The row is deleted by id, whatever it has become meanwhile.  Nothing reads
\* the rest of a deleted draft.
RemoveInboundCommit(s) ==
    LET b == job[s].doc
    IN /\ Working(s, "removeInbound")
       /\ ~InboundLocked(b)
       /\ inb' = [inb EXCEPT ![b] =
                    [(IF @.status = "draft" THEN [NoInbound EXCEPT !.status = "draft"] ELSE @)
                       EXCEPT !.deleted = TRUE]]
       /\ Done(s)
       /\ UNCHANGED <<batch, notice, mov, fact, desk, past>>

\* arg: the payable entry is a draft when it is read, so it will be voided.
ReverseInboundBegin(s, b) ==
    /\ ~InboundLocked(b)
    /\ inb[b].status = "posted" /\ ~inb[b].deleted
    /\ inb[b].entry \in {"none", "draft"}
    /\ Balance - inb[b].qty >= 0
    /\ Start(s, "reverseInbound", b, IF inb[b].entry = "draft" THEN 1 ELSE 0)
    /\ UNCHANGED <<tables, desk, past>>

ReverseInboundCommit(s) ==
    LET b == job[s].doc
    IN /\ Working(s, "reverseInbound")
       /\ job[s].arg = 1 => ~EntryLocked(b)
       /\ inb' = [inb EXCEPT ![b].status = "reversed",
                             ![b].source = "voided",
                             ![b].entry = IF job[s].arg = 1 THEN "voided" ELSE @]
       /\ fact' = [fact EXCEPT ![b] = @ - inb[b].qty]
       /\ Done(s)
       /\ UNCHANGED <<batch, notice, mov, desk, past>>

-----------------------------------------------------------------------------
\* Mutant: the source gets a status of the payable entry.
TakeOverAsConfirmed(b) ==
    /\ inb[b].source \in {"pending_finance", "received"}
    /\ ~inb[b].deleted
    /\ inb' = [inb EXCEPT ![b].source = "confirmed",
                          ![b].entry = IF @ = "none" THEN "draft" ELSE @]
    /\ UNCHANGED <<batch, notice, mov, fact, job, desk, past>>

\* Mutant: confirm looks at the entry only.
ConfirmAnyDraft(s, b, op) ==
    /\ inb[b].entry = "draft"
    /\ op = "confirmEntry" => ~EntryLocked(b)
    /\ Start(s, op, b, 0)
    /\ UNCHANGED <<tables, desk, past>>

\* Finance takes over the payable of an inbound.
CreateFromSource(b) ==
    /\ inb[b].source \in {"pending_finance", "received"}
    /\ ~inb[b].deleted
    /\ inb' = [inb EXCEPT ![b].source = "received",
                          ![b].entry = IF @ = "none" THEN "draft" ELSE @]
    /\ UNCHANGED <<batch, notice, mov, fact, job, desk, past>>

\* confirm and batchConfirm lock the entry before they read it, confirmPayables
\* of a statement reads it first; none of them locks the source it reads.
ConfirmBegin(s, b, op) ==
    /\ inb[b].entry = "draft"
    /\ inb[b].source # "voided"
    /\ op = "confirmEntry" => ~EntryLocked(b)
    /\ Start(s, op, b, 0)
    /\ UNCHANGED <<tables, desk, past>>

\* The entry is confirmed by its id, whatever it has become meanwhile.
ConfirmCommit(s) ==
    LET b == job[s].doc
    IN /\ job[s].op \in Confirmations
       /\ Working(s, "confirmStatement") => ~EntryLocked(b)
       /\ inb' = [inb EXCEPT ![b].entry = "confirmed"]
       /\ Done(s)
       /\ UNCHANGED <<batch, notice, mov, fact, desk, past>>

InspectionStep ==
    \/ \E s \in Sessions, i \in Batches, a \in 0..MaxQty, r \in 0..MaxRejected :
         InspectBegin(s, i, a, r) \/ CorrectBegin(s, i, a, r)
    \/ \E s \in Sessions, i \in Batches, target \in {"pending", "inspecting", "completed", "cancelled"} :
         TransitionBegin(s, i, target)
    \/ \E s \in Sessions, i \in Batches : ReturnToSupplierBegin(s, i)
    \/ \E s \in Sessions : InspectCommit(s) \/ LockedWriteCommit(s)

InboundStep ==
    \/ \E s \in Sessions, i \in Batches, q \in Qty : RegisterBegin(s, i, q)
    \/ \E s \in Sessions, b \in Inbounds :
         RegisterCommit(s, b) \/ PostInboundBegin(s, b) \/ RemoveInboundBegin(s, b)
    \/ \E s \in Sessions : PostInboundCommit(s) \/ RemoveInboundCommit(s)
    \/ \E i \in Batches : CreateNotice(i) \/ Acknowledge(i)
    \/ \E b \in Inbounds, q \in Qty : UpdateInbound(b, q)

ReversalStep ==
    \/ \E s \in Sessions, b \in Inbounds : ReverseInboundBegin(s, b)
    \/ \E s \in Sessions : ReverseInboundCommit(s)

PayableStep ==
    \/ \E b \in Inbounds : CreateFromSource(b)
    \/ \E s \in Sessions, b \in Inbounds, op \in Confirmations : ConfirmBegin(s, b, op)
    \/ \E s \in Sessions : ConfirmCommit(s)
=============================================================================
