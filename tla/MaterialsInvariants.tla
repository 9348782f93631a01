------------------------- MODULE MaterialsInvariants -------------------------
(***************************************************************************)
(* What the requests of Materials rely on between two steps: the formulae  *)
(* that make its invariants inductive.                                     *)
(***************************************************************************)
EXTENDS Materials

BatchOps == {"inspect", "correct", "transition", "return", "register"}
InboundOps == {"postInbound", "removeInbound", "reverseInbound"} \cup Confirmations
MovementOps == Serializable \cup {"withdraw"}
CountOps == {"updateLine", "removeLine", "removeStocktake", "confirmCount"}

\* Requests name what their operation is about.
Shaped(j) ==
    /\ j.op \in BatchOps => j.doc \in Batches
    /\ j.op \in InboundOps => j.doc \in Inbounds
    /\ j.op \in MovementOps => j.doc \in Movements
    /\ j.op \in CountOps => j.doc \in Stocktakes
    /\ j.op = "register" => j.arg \in Qty

JobShape == \A s \in Sessions : Shaped(job[s])

TypeInv == TypeOK /\ JobShape

-----------------------------------------------------------------------------
\* A request that has the row lock of an inbound finds it as it was.
Holding(s) == job[s].op \in {"postInbound", "reverseInbound"}

InboundsHeld ==
    /\ \A s \in Sessions :
         LET b == job[s].doc
         IN /\ job[s].op = "postInbound" => inb[b].status = "draft" /\ ~inb[b].deleted /\ inb[b].batch \in Batches
            /\ job[s].op = "reverseInbound" => inb[b].status = "posted"
            /\ job[s].op \in {"removeInbound"} \cup Confirmations => inb[b].status # "none"
    /\ \A s, t \in Sessions : Holding(s) /\ Holding(t) /\ job[s].doc = job[t].doc => s = t

InboundRowsFit ==
    \A b \in Inbounds :
        /\ inb[b].status = "none" => inb[b] = NoInbound
        /\ inb[b].status # "none" /\ ~inb[b].deleted => inb[b].batch \in Batches
        /\ inb[b].status = "reversed" => inb[b].source = "voided"

InboundLedger == \A b \in Inbounds : fact[b] = IF inb[b].status = "posted" THEN inb[b].qty ELSE 0

InboundInv == InboundsHeld /\ InboundRowsFit /\ InboundLedger

-----------------------------------------------------------------------------
\* A stocktake whose header is locked is still a draft.
CountsHeld ==
    /\ \A s \in Sessions : job[s].op = "confirmCount" => count[job[s].doc].status = "draft"
    /\ \A s, t \in Sessions :
         job[s].op = "confirmCount" /\ job[t].op = "confirmCount" /\ job[s].doc = job[t].doc => s = t

CountLedger ==
    \A c \in Stocktakes :
        /\ count[c].line => fact[c] = IF count[c].status = "confirmed" THEN count[c].applied ELSE 0
        /\ count[c].status \in {"none", "draft"} => fact[c] = 0 /\ count[c].applied = 0
        /\ fact[c] \in {0, count[c].applied}

CountInv == CountsHeld /\ CountLedger

-----------------------------------------------------------------------------
\* What the rows of movements have in common.
MovementRowFits(m) ==
    LET d == mov[m]
    IN /\ d.status = "none" => d = NoMovement
       /\ d.kind = "none" => d.status = "none"
       /\ d.deleted => d.status = "draft"
       /\ d.kind # "none" /\ ~d.deleted => d.qty > 0
       /\ d.kind = "issue" => d.of = NoDoc /\ fact[m] <= 0
       /\ d.kind \in {"issue", "return"} => d.cat = "raw_material"
       /\ d.kind = "scrap" => d.cat = "scrap"
       /\ d.kind = "reversal" => d.status \in {"posted", "reversed"}
       /\ d.kind = "reversal" /\ d.of # NoDoc => mov[d.of].status = "reversed" \/ d.of \in overtaken
       /\ d.kind \in {"return", "scrap"} /\ d.of # NoDoc => mov[d.of].kind = "issue"
       /\ m \in overtaken => d.kind = "issue"

MovementRowsFit == \A m \in Movements : MovementRowFits(m)

\* A serializable request that is not doomed finds what it read.
Undoomed(s, op) == job[s].op = op /\ ~job[s].doomed

Sees(s) ==
    LET m == job[s].doc
    IN /\ Undoomed(s, "postIssue") => mov[m].kind = "issue" /\ Live(m, "pending_outbound")
       /\ Undoomed(s, "postDerived") => mov[m].kind \in {"return", "scrap"} /\ Live(m, "draft")
       /\ Undoomed(s, "reopen") => mov[m].kind = "issue"
       /\ Undoomed(s, "reopen") \/ Undoomed(s, "reverseMovement") =>
            /\ Live(m, "posted") /\ job[s].arg = fact[m]
            /\ mov[m].kind = "issue" => Dependents(m) = {}
       /\ job[s].op = "withdraw" => mov[m].kind = "issue"

Snapshots == \A s \in Sessions : Sees(s)

MovementLedger ==
    \A m \in Movements \ overtaken :
        (mov[m].kind = "reversal" => mov[m].of \notin overtaken \cup {NoDoc})
            => fact[m] = MovementEffect(m)

MovementInv == MovementRowsFit /\ Snapshots /\ MovementLedger

-----------------------------------------------------------------------------
\* What a return or a scrap was checked against is there until it is posted.
DisposalsFit ==
    \A s \in Sessions :
        LET d == job[s].doc
            m == mov[d].of
        IN Undoomed(s, "postDerived") /\ m # NoDoc =>
             /\ mov[m].deleted \/ mov[d].qty + Consumed(m) <= mov[m].qty
             /\ m \in overtaken \/ Live(m, "posted")

DisposalInv == DisposedWithinIssue /\ DisposalsFit

-----------------------------------------------------------------------------
\* What was ever received or found and has not been issued.
Unissued == EverReceived + EverFound + SumOf(fact, Goods)

Scraps == Movements \ Goods

\* A posted document stands for the chain of reversals that ends in it.
Standing == [m \in Movements |-> IF Live(m, "posted") /\ fact[m] < 0 THEN fact[m] ELSE 0]

ScrapsNet == SumOf(fact, Scraps) = SumOf(Standing, Scraps)

IssuesFit ==
    \A s \in Sessions :
        LET m == job[s].doc
        IN /\ Undoomed(s, "postIssue") => Unissued >= mov[m].qty
           /\ Undoomed(s, "reverseMovement") /\ mov[m].cat = "raw_material" => Unissued >= job[s].arg

IssueInv == IssuedWithinReceived /\ ScrapsNet /\ IssuesFit

-----------------------------------------------------------------------------
\* The inbounds of a batch that are posted or about to be.
Admitted(i) ==
    {b \in InboundsOf(i) :
        \/ inb[b].status = "posted"
        \/ \E s \in Sessions : job[s].op = "postInbound" /\ job[s].doc = b}

AdmittedWithinInspection ==
    \A i \in Batches \ overdrawn :
        /\ QtyOf(Admitted(i)) <= peak[i]
        /\ \A b \in InboundsOf(i) : inb[b].qty > 0

WithinPeak == \A i \in Batches : batch[i].accepted <= peak[i]

InspectionInv == WithinPeak /\ AdmittedWithinInspection
=============================================================================
