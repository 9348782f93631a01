---------------------------- MODULE Receivables ----------------------------
(***************************************************************************)
(* ReceivableService on the receivables that posted outbounds leave, as    *)
(* far as they are unpaid: confirm (two transactions: the status, then the *)
(* accrual voucher), reopen and cancel.  Each locks the receivable row it  *)
(* changes and nothing else, so its transaction is one step; it waits for  *)
(* a reversal that has already UPDATEd the row.                            *)
(***************************************************************************)
EXTENDS WarehouseDb

\* confirm: the status transaction ...
BeginConfirm(s) ==
    \E o \in Outbounds :
        /\ receivable[o] = "draft"
        /\ req[s].op = "idle"
        /\ "confirm" \in Endpoints
        /\ lock[o] = NoOne
        /\ receivable' = [receivable EXCEPT ![o] = "confirmed"]
        /\ req' = [req EXCEPT ![s] = NewRequest("confirm", o, NoOne, 1, << >>)]
        /\ UNCHANGED <<doc, notice, accrued, stock, facts, inNotice, lock>>

\* ... and, after it committed, the accrual voucher, one per receivable.
Accrue(s) ==
    /\ At(s, "confirm", "check")
    /\ accrued' = accrued \cup {req[s].doc}
    /\ Finish(s)
    /\ UNCHANGED <<doc, notice, receivable, stock, facts, inNotice>>

\* reopen: back to draft while nothing is paid.
Reopen ==
    /\ "reopen" \in Endpoints
    /\ \E o \in Outbounds :
        /\ receivable[o] = "confirmed"
        /\ lock[o] = NoOne
        /\ receivable' = [receivable EXCEPT ![o] = "draft"]
    /\ UNCHANGED <<doc, notice, accrued, stock, facts, inNotice, lock, req>>

\* cancel: any receivable that is not paid.
CancelReceivable ==
    /\ "cancelReceivable" \in Endpoints
    /\ \E o \in Outbounds :
        /\ receivable[o] \in {"draft", "confirmed"}
        /\ lock[o] = NoOne
        /\ receivable' = [receivable EXCEPT ![o] = "cancelled"]
    /\ UNCHANGED <<doc, notice, accrued, stock, facts, inNotice, lock, req>>
=============================================================================
