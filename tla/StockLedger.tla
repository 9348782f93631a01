----------------------------- MODULE StockLedger -----------------------------
(***************************************************************************)
(* What the warehouse promises its users: stock documents that change in   *)
(* one step each.  A document is drafted, posted, delivered, reversed or   *)
(* cancelled, and the same step moves its quantity and its receivable;     *)
(* nobody sees a document between two states.                              *)
(***************************************************************************)
EXTENDS Integers

CONSTANTS Docs,        \* stock documents
          Outbounds,   \* those that take stock out; the others bring it in
          Categories,  \* stock categories
          DocRow,      \* the rows of documents
          LiveStatus   \* the statuses of a posted, not reversed document

VARIABLES doc, stock, receivable

lvars == <<doc, stock, receivable>>

Init ==
    /\ doc \in [Docs -> {row \in DocRow : row.st = "absent"}]
    /\ stock = [c \in Categories |-> 0]
    /\ receivable = [o \in Outbounds |-> "absent"]

Become(d, st)  == doc' = [doc EXCEPT ![d].st = st]
Category(d)    == IF d \in Outbounds THEN "finished_goods" ELSE doc[d].cat
BringIn(d)     == stock' = [stock EXCEPT ![Category(d)] = @ + doc[d].qty]
TakeOut(d)     == stock' = [stock EXCEPT ![Category(d)] = @ - doc[d].qty]
Owe(o, status) == receivable' = [receivable EXCEPT ![o] = status]

Draft(d) ==
    /\ doc[d].st = "absent"
    /\ \E row \in DocRow : row.st = "draft" /\ doc' = [doc EXCEPT ![d] = row]
    /\ UNCHANGED <<stock, receivable>>

\* Goods arrive: an inbound, a defective or a customer return.
Receive(d) ==
    /\ doc[d].st = "draft"
    /\ Become(d, "posted") /\ BringIn(d)
    /\ UNCHANGED receivable

TakeBack(d) ==
    /\ doc[d].st = "posted"
    /\ Become(d, "reversed") /\ TakeOut(d)
    /\ UNCHANGED receivable

\* Goods leave: the customer owes from the posting to the reversal.
Ship(o) ==
    /\ doc[o].st = "draft"
    /\ Become(o, "posted") /\ TakeOut(o) /\ Owe(o, "draft")

Deliver(o) ==
    /\ doc[o].st \in LiveStatus
    /\ \E st \in LiveStatus : Become(o, st)
    /\ UNCHANGED <<stock, receivable>>

Reverse(o) ==
    /\ doc[o].st \in LiveStatus
    /\ Become(o, "reversed") /\ BringIn(o) /\ Owe(o, "cancelled")

Cancel(o) ==
    /\ doc[o].st = "draft"
    /\ Become(o, "cancelled")
    /\ UNCHANGED <<stock, receivable>>

\* Finance confirms, reopens or cancels a receivable.
Settle(o) ==
    /\ \/ receivable[o] = "draft" /\ Owe(o, "confirmed")
       \/ receivable[o] = "confirmed" /\ Owe(o, "draft")
       \/ receivable[o] \in {"draft", "confirmed"} /\ Owe(o, "cancelled")
    /\ UNCHANGED <<doc, stock>>

Next ==
    \/ \E d \in Docs : Draft(d)
    \/ \E d \in Docs \ Outbounds : Receive(d) \/ TakeBack(d)
    \/ \E o \in Outbounds : Ship(o) \/ Deliver(o) \/ Reverse(o) \/ Cancel(o) \/ Settle(o)

Spec == Init /\ [][Next]_lvars
=============================================================================
