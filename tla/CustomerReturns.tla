-------------------------- MODULE CustomerReturns --------------------------
(***************************************************************************)
(* Customer returns: a draft names the stock category the goods go back    *)
(* to, posting adds them there and reversing takes them out again.         *)
(***************************************************************************)
EXTENDS WarehouseDb

\* createReturn: one INSERT.
NewReturn(r, q, c) == [doc[r] EXCEPT !.st = "draft", !.qty = q, !.cat = c]
CreateReturn ==
    /\ "createReturn" \in Endpoints
    /\ lock[ProductionOrder] = NoOne
    /\ \E r \in Returns, q \in Quantities, c \in Categories :
        /\ FreshDoc(r)
        /\ doc' = [doc EXCEPT ![r] = NewReturn(r, q, c)]
    /\ UNCHANGED <<notice, receivable, accrued, stock, facts, inNotice, lock, req>>

\* postReturn: everything it reads is covered by the lock of the return.
BeginPostReturn(s) ==
    \E r \in Returns :
        /\ doc[r].st = "draft"
        /\ Begin(s, NewRequest("postReturn", r, NoOne, 1, <<r>>))

CommitPostReturn(s) ==
    LET r == req[s].doc
    IN  /\ At(s, "postReturn", "check")
        /\ IF doc[r].st = "draft" /\ "post" \notin facts[r]
           THEN /\ InsertFree(s)
                /\ doc' = SetStatus(r, "posted")
                /\ facts' = [facts EXCEPT ![r] = @ \cup {"post"}]
                /\ stock' = [stock EXCEPT ![doc[r].cat] = @ + doc[r].qty]
                /\ Finish(s)
                /\ UNCHANGED <<notice, receivable, accrued, inNotice>>
           ELSE Refuse(s)

\* reverseReturn: as for receipts, the balance is read without the
\* production-order lock.
BeginReverseReturn(s) ==
    \E r \in Returns :
        /\ doc[r].st = "posted"
        /\ Begin(s, NewRequest("reverseReturn", r, NoOne, 1, <<r>>))

CheckReverseReturn(s) ==
    LET r == req[s].doc
    IN  /\ At(s, "reverseReturn", "check")
        /\ IF Reversible(r)
           THEN Proceed(s, "save", Keep)
           ELSE Refuse(s)

SaveReverseReturn(s) ==
    LET r == req[s].doc
    IN  /\ At(s, "reverseReturn", "save")
        /\ InsertFree(s)
        /\ doc' = SetStatus(r, "reversed")
        /\ facts' = [facts EXCEPT ![r] = @ \cup {"reverse"}]
        /\ stock' = [stock EXCEPT ![doc[r].cat] = @ - doc[r].qty]
        /\ Finish(s)
        /\ UNCHANGED <<notice, receivable, accrued, inNotice>>
=============================================================================
