------------------------------ MODULE Settlement ------------------------------
(***************************************************************************)
(* Receivables settled by customer payments, and payables settled by       *)
(* supplier payments: the same tables and nearly the same handlers, told   *)
(* apart by "side" (they share no row, so a behaviour shows one of them).  *)
(* A transaction first locks its payment and then the debts one by one;    *)
(* the requests on a debt lock that row before they read it, so each is    *)
(* one step.  Two writers do not: the confirmation of a statement and the  *)
(* reversal of a source document read a debt first and write it, by its    *)
(* id, when they get the row.                                              *)
(***************************************************************************)
EXTENDS Integers, Sequences, FiniteSets

CONSTANTS
    Debts,       \* ids of receivable_sources or supplier_payable_entries
    Payments,    \* ids of customer_payments or supplier_payments
    NoOne,       \* the holder of a free row
    Others,      \* payables entered by hand (sourceType "other")
    Exposed,     \* bound: debts on a statement, or whose source document may be reversed
    Booked,      \* bound: debts whose vouchers and cash entries are followed
    MaxAmount,   \* bound: amounts are 1..MaxAmount
    MaxLines     \* bound: allocation lines of a payment

ASSUME SettlementAssumption ==
    /\ Debts \subseteq Nat /\ IsFiniteSet(Debts)
    /\ IsFiniteSet(Payments) /\ NoOne \notin Payments
    /\ {Others, Booked, Exposed} \subseteq SUBSET Debts
    /\ {MaxAmount, MaxLines} \subseteq Nat \ {0}

VARIABLES
    side,    \* which of the two ledgers this behaviour shows
    debt,    \* status of each debt, "removed" when soft-deleted
    amount,  \* its amount
    pay,     \* status of each payment
    funds,   \* its amount
    alloc,   \* its allocation lines, in force while it is posted
    tx,      \* the transaction that has locked the payment
    holder,  \* the payment whose transaction holds the lock of a debt
    batch,    \* the drafts that a statement's confirmation has read
    retract,  \* the reversal of the source document of each debt
    late,     \* history: debts confirmed by a statement after they had left draft
    accruing, \* debts whose confirming request has still to write the voucher
    accrued, \* debts with an accrual voucher
    book,    \* what the posting request has still to do for the cash entry
    undo,    \* payments whose request has still to reverse the cash entry
    cash     \* the cash-flow entry of each payment: the account it settles

tables == <<debt, amount, pay, funds, alloc>>
claims == <<batch, retract, late>>
flow   == <<claims, accruing, accrued, book, undo, cash>>
vars   == <<side, tables, tx, holder, flow>>

Amounts == 1..MaxAmount
Line    == [debt : Debts, amount : Amounts]
Lines   == UNION {[1..n -> Line] : n \in 1..MaxLines}

Open       == {"confirmed", "partially_paid"}
Standing   == Open \cup {"paid"}
DebtStatus == Standing \cup {"draft", "cancelled", "reversed", "voided", "removed"}
PayStatus  == {"absent", "draft", "posted", "reversed"}

NoChange == [d \in Debts |-> "same"]
Tx   == [op : {"none", "post", "reverse"}, todo : Seq(Line), done : Seq(Line),
         seen : DebtStatus \cup {"same"}, fresh : [Debts -> DebtStatus \cup {"same"}]]
NoTx == [op |-> "none", todo |-> << >>, done |-> << >>, seen |-> "same", fresh |-> NoChange]

(***************************************************************************)
(* Money as a set of unit pieces, so that a sum is a cardinality: piece u  *)
(* of line i.                                                              *)
(***************************************************************************)
Pieces == (1..MaxLines) \X Amounts
PiecesOf(lines)  == {x \in Pieces : x[1] \in DOMAIN lines /\ x[2] <= lines[x[1]].amount}
PiecesOn(lines, d) == {x \in PiecesOf(lines) : lines[x[1]].debt = d}
Total(lines) == Cardinality(PiecesOf(lines))

PaidPieces(P, d) ==
    {x \in P \X Pieces : pay[x[1]] = "posted" /\ x[2] \in PiecesOn(alloc[x[1]], d)}
Paid(d) == Cardinality(PaidPieces(Payments, d))
DebtsOf(lines) == {lines[i].debt : i \in DOMAIN lines}

\* refreshStatus, given what has been paid.
After(d, paid) == IF paid = amount[d] THEN "paid"
                  ELSE IF paid > 0 THEN "partially_paid" ELSE "confirmed"

Init ==
    /\ side \in {"receivable", "payable"}
    /\ debt = [d \in Debts |-> "draft"]
    /\ amount \in [Debts -> Amounts]
    /\ pay = [p \in Payments |-> "absent"]
    /\ funds = [p \in Payments |-> 1]
    /\ alloc = [p \in Payments |-> << >>]
    /\ tx = [p \in Payments |-> NoTx]
    /\ holder = [d \in Debts |-> NoOne]
    /\ batch = {} /\ late = {}
    /\ retract = [d \in Debts |-> "no"]
    /\ accruing = {} /\ accrued = {} /\ undo = {}
    /\ book = [p \in Payments |-> "no"]
    /\ cash = [p \in Payments |-> "none"]

-----------------------------------------------------------------------------
(***************************************************************************)
(* The debt itself.                                                        *)
(***************************************************************************)
Free(d) == holder[d] = NoOne
SetDebt(d, status) ==
    /\ debt' = [debt EXCEPT ![d] = status]
    /\ UNCHANGED <<side, amount, pay, funds, alloc, tx, holder, flow>>

\* A faulty variant: an amount of zero is accepted.
EditToZero(d) ==
    /\ Free(d) /\ debt[d] = "draft"
    /\ \E n \in 0..MaxAmount : amount' = [amount EXCEPT ![d] = n]
    /\ UNCHANGED <<side, debt, pay, funds, alloc, tx, holder, flow>>

EditDebt(d) ==
    /\ Free(d) /\ debt[d] = "draft"
    /\ \E n \in Amounts : amount' = [amount EXCEPT ![d] = n]
    /\ UNCHANGED <<side, debt, pay, funds, alloc, tx, holder, flow>>

\* confirm, and batchConfirm of several: what is no draft is skipped.
ConfirmDebts(D) ==
    /\ \A d \in D : Free(d)
    /\ \E d \in D : debt[d] = "draft"
    /\ LET drafts == {d \in D : debt[d] = "draft"}
       IN  /\ debt' = [d \in Debts |-> IF d \in drafts THEN "confirmed" ELSE debt[d]]
           /\ accruing' = accruing \cup (drafts \cap Booked)
    /\ UNCHANGED <<side, amount, pay, funds, alloc, tx, holder, claims, accrued, book, undo, cash>>

\* confirmReceivables and confirmPayables of a statement read the drafts it
\* covers without a lock (bound: one statement at a time) ...
ReadDrafts(D) ==
    /\ batch = {} /\ D # {} /\ D \subseteq Exposed /\ \A d \in D : debt[d] = "draft"
    /\ batch' = D
    /\ UNCHANGED <<side, tables, tx, holder, retract, late, accruing, accrued, book, undo, cash>>

\* ... and confirm each by its id, whatever has become of it.
ConfirmStatement ==
    /\ batch # {} /\ \A d \in batch : Free(d)
    /\ debt' = [d \in Debts |-> IF d \in batch /\ debt[d] # "removed" THEN "confirmed" ELSE debt[d]]
    /\ late' = late \cup {d \in batch : debt[d] # "draft"}
    /\ accruing' = accruing \cup (batch \cap Booked)
    /\ batch' = {}
    /\ UNCHANGED <<side, amount, pay, funds, alloc, tx, holder, retract, accrued, book, undo, cash>>

LeaveStatement ==
    /\ batch # {}
    /\ batch' = {}
    /\ UNCHANGED <<side, tables, tx, holder, retract, late, accruing, accrued, book, undo, cash>>

\* A faulty variant: a debt with payments goes back to draft.
ReopenPaid(d) ==
    /\ Free(d) /\ debt[d] \in Open
    /\ SetDebt(d, "draft")

ReopenDebt(d) ==
    /\ Free(d) /\ debt[d] = "confirmed" /\ Paid(d) = 0
    /\ SetDebt(d, "draft")

CancelReceivable(d) ==
    /\ side = "receivable" /\ Free(d)
    /\ debt[d] # "paid" /\ Paid(d) = 0
    /\ SetDebt(d, "cancelled")

ReversePayable(d) ==
    /\ side = "payable" /\ Free(d)
    /\ debt[d] \in Standing /\ Paid(d) = 0
    /\ SetDebt(d, "reversed")

\* A faulty variant: removeOther does not look at the allocations.
RemovePaid(d) ==
    /\ side = "payable" /\ d \in Others /\ Free(d)
    /\ debt[d] \in {"draft"} \cup Standing
    /\ SetDebt(d, "removed")

RemoveOther(d) ==
    /\ side = "payable" /\ d \in Others /\ Free(d)
    /\ debt[d] \in {"draft", "confirmed"} /\ Paid(d) = 0
    /\ SetDebt(d, "removed")

\* The reversal of an outbound, or of an inbound, wants its debt to be a draft
\* that nothing is paid on ...
Retraction(d, stage) ==
    /\ retract' = [retract EXCEPT ![d] = stage]
    /\ UNCHANGED <<side, amount, pay, funds, alloc, tx, holder, batch, late, accruing, accrued,
                   book, undo, cash>>

ReadForReversal(d) ==
    /\ d \in Exposed /\ (side = "payable" => d \notin Others)
    /\ retract[d] = "no" /\ debt[d] = "draft" /\ Paid(d) = 0
    /\ Retraction(d, "seen") /\ UNCHANGED debt

\* ... and takes it back by its id; only the UPDATE waits for the row.
Retract(d) ==
    /\ retract[d] = "seen" /\ Free(d)
    /\ debt' = [debt EXCEPT ![d] = IF side = "receivable" THEN "cancelled" ELSE "voided"]
    /\ Retraction(d, "done")

LeaveReversal(d) == retract[d] = "seen" /\ Retraction(d, "no") /\ UNCHANGED debt

DebtStep(d) ==
    \/ EditDebt(d) \/ ReopenDebt(d)
    \/ CancelReceivable(d) \/ ReversePayable(d) \/ RemoveOther(d)
    \/ ReadForReversal(d) \/ Retract(d) \/ LeaveReversal(d)

-----------------------------------------------------------------------------
(***************************************************************************)
(* The payment: drafts, posting, reversal.                                 *)
(***************************************************************************)
Idle(p) == tx[p].op = "none"

\* The guard against a second equal draft reads before the INSERT: it only advises.
CreatePayment(p) ==
    /\ pay[p] = "absent"
    /\ pay' = [pay EXCEPT ![p] = "draft"]
    /\ \E n \in Amounts : funds' = [funds EXCEPT ![p] = n]
    /\ UNCHANGED <<side, debt, amount, alloc, tx, holder, flow>>

EditPayment(p) ==
    /\ Idle(p) /\ pay[p] = "draft"
    /\ \E n \in Amounts : funds' = [funds EXCEPT ![p] = n]
    /\ UNCHANGED <<side, debt, amount, pay, alloc, tx, holder, flow>>

\* A payment names a debt once: supplier-payment checks it, and both
\* allocation tables have a unique key on payment and debt.
Distinct(lines) == \A i, j \in DOMAIN lines : lines[i].debt = lines[j].debt => i = j

BeginPost(p) ==
    /\ Idle(p) /\ pay[p] = "draft"
    /\ \E lines \in Lines :
         /\ Distinct(lines)
         /\ tx' = [tx EXCEPT ![p] = [NoTx EXCEPT !.op = "post", !.todo = lines]]
    /\ UNCHANGED <<side, tables, holder, flow>>

Release(p) == [d \in Debts |-> IF holder[d] = p THEN NoOne ELSE holder[d]]
Rollback(p) ==
    /\ tx' = [tx EXCEPT ![p] = NoTx]
    /\ holder' = Release(p)
    /\ UNCHANGED <<side, tables, flow>>

Mine(p, d) == holder[d] \in {NoOne, p}
Allocatable(line) ==
    debt[line.debt] \in Open /\ line.amount <= amount[line.debt] - Paid(line.debt)

\* A faulty variant: the lines are checked before the debts are locked.
LockLater(p) ==
    /\ tx[p].op = "post" /\ tx[p].todo # << >>
    /\ LET line == Head(tx[p].todo)
       IN  IF Allocatable(line)
             THEN /\ tx' = [tx EXCEPT ![p].todo = Tail(@), ![p].done = Append(@, line)]
                  /\ UNCHANGED <<side, tables, holder, flow>>
             ELSE Rollback(p)

\* A faulty variant: a line the debt cannot take yet is waited for.
LockAndWait(p) ==
    /\ tx[p].op = "post" /\ tx[p].todo # << >>
    /\ LET line == Head(tx[p].todo)
       IN  /\ Mine(p, line.debt) /\ Allocatable(line)
           /\ tx' = [tx EXCEPT ![p].todo = Tail(@), ![p].done = Append(@, line)]
           /\ holder' = [holder EXCEPT ![line.debt] = p]
    /\ UNCHANGED <<side, tables, flow>>

LockLine(p) ==
    /\ tx[p].op = "post" /\ tx[p].todo # << >>
    /\ LET line == Head(tx[p].todo)
       IN  /\ Mine(p, line.debt)
           /\ IF Allocatable(line)
                THEN /\ tx' = [tx EXCEPT ![p].todo = Tail(@), ![p].done = Append(@, line)]
                     /\ holder' = [holder EXCEPT ![line.debt] = p]
                     /\ UNCHANGED <<side, tables, flow>>
                ELSE Rollback(p)

\* What has been paid on d once the lines of p are these.
PaidWith(p, lines, d) ==
    Cardinality(PaidPieces(Payments \ {p}, d)) + Cardinality(PiecesOn(lines, d))

Committed(p, status, lines) ==
    /\ pay' = [pay EXCEPT ![p] = status]
    /\ alloc' = [alloc EXCEPT ![p] = lines]
    /\ tx' = [tx EXCEPT ![p] = NoTx]
    /\ holder' = Release(p)
    /\ late' = late \ DebtsOf(lines)
    /\ UNCHANGED <<side, amount, funds, batch, retract, accruing, accrued, cash>>

CommitPost(p) ==
    /\ tx[p].op = "post" /\ tx[p].todo = << >>
    /\ LET lines == tx[p].done
       IN  IF Total(lines) <= funds[p]
             THEN /\ Committed(p, "posted", lines)
                  /\ debt' = [d \in Debts |-> IF d \in DebtsOf(lines)
                                                THEN After(d, PaidWith(p, lines, d))
                                                ELSE debt[d]]
                  /\ book' = IF DebtsOf(lines) \subseteq Booked THEN [book EXCEPT ![p] = "due"] ELSE book
                  /\ UNCHANGED undo
             ELSE Rollback(p)

BeginReverse(p) ==
    /\ Idle(p) /\ pay[p] = "posted"
    /\ tx' = [tx EXCEPT ![p] = [NoTx EXCEPT !.op = "reverse", !.todo = alloc[p]]]
    /\ UNCHANGED <<side, tables, holder, flow>>

\* customer-payment locks the receivables first, in the order of their ids.
NextToLock(p) == CHOOSE d \in DebtsOf(alloc[p]) :
                     holder[d] # p /\ \A e \in DebtsOf(alloc[p]) : holder[e] = p \/ d <= e
AllLocked(p)  == \A d \in DebtsOf(alloc[p]) : holder[d] = p

LockReceivable(p) ==
    /\ side = "receivable" /\ tx[p].op = "reverse" /\ ~ AllLocked(p)
    /\ Free(NextToLock(p))
    /\ holder' = [holder EXCEPT ![NextToLock(p)] = p]
    /\ UNCHANGED <<side, tables, tx, flow>>

\* A faulty variant: the reversal does not lock the receivables first.
CommitUnlocked(p) ==
    /\ side = "receivable" /\ tx[p].op = "reverse"
    /\ Committed(p, "reversed", alloc[p])
    /\ debt' = [d \in Debts |-> IF d \in DebtsOf(alloc[p]) THEN "confirmed" ELSE debt[d]]
    /\ undo' = IF DebtsOf(alloc[p]) \subseteq Booked THEN undo \cup {p} ELSE undo
    /\ UNCHANGED book

CommitReverseReceivable(p) ==
    /\ side = "receivable" /\ tx[p].op = "reverse" /\ AllLocked(p)
    /\ Committed(p, "reversed", alloc[p])
    /\ debt' = [d \in Debts |-> IF d \in DebtsOf(alloc[p])
                                  THEN After(d, PaidWith(p, << >>, d)) ELSE debt[d]]
    /\ undo' = IF DebtsOf(alloc[p]) \subseteq Booked THEN undo \cup {p} ELSE undo
    /\ UNCHANGED book

\* supplier-payment locks no payable: it computes each status from what it
\* reads, and only the UPDATE waits for the row.
RefreshRead(p) ==
    /\ side = "payable" /\ tx[p].op = "reverse"
    /\ tx[p].todo # << >> /\ tx[p].seen = "same"
    /\ LET d == Head(tx[p].todo).debt
       IN  CASE debt[d] = "removed"  -> Rollback(p)
             [] debt[d] \in {"reversed", "voided"} ->
                    /\ tx' = [tx EXCEPT ![p].todo = Tail(@)]
                    /\ UNCHANGED <<side, tables, holder, flow>>
             [] OTHER ->
                    /\ tx' = [tx EXCEPT ![p].seen = After(d, PaidWith(p, << >>, d))]
                    /\ UNCHANGED <<side, tables, holder, flow>>

RefreshWrite(p) ==
    /\ side = "payable" /\ tx[p].op = "reverse" /\ tx[p].seen # "same"
    /\ LET d == Head(tx[p].todo).debt
       IN  /\ Mine(p, d)
           /\ holder' = [holder EXCEPT ![d] = p]
           /\ tx' = [tx EXCEPT ![p].todo = Tail(@), ![p].seen = "same",
                               ![p].fresh[d] = tx[p].seen]
    /\ UNCHANGED <<side, tables, flow>>

CommitReversePayable(p) ==
    /\ side = "payable" /\ tx[p].op = "reverse" /\ tx[p].todo = << >>
    /\ Committed(p, "reversed", alloc[p])
    /\ debt' = [d \in Debts |-> IF tx[p].fresh[d] = "same" THEN debt[d] ELSE tx[p].fresh[d]]
    /\ undo' = IF DebtsOf(alloc[p]) \subseteq Booked THEN undo \cup {p} ELSE undo
    /\ UNCHANGED book

-----------------------------------------------------------------------------
(***************************************************************************)
(* After its transaction a confirmation writes the accrual voucher, a      *)
(* posting the cash-flow entry, and a reversal reverses that entry; each   *)
(* request may die before it does.                                         *)
(***************************************************************************)
RowsUnchanged == UNCHANGED <<side, tables, tx, holder, claims>>

\* createAccrual: one voucher a source, and none for a payable that only
\* moves cash between accounts.
Accrue(d) ==
    /\ d \in accruing
    /\ accruing' = accruing \ {d}
    /\ \/ accrued' = accrued \cup {d}
       \/ side = "payable" /\ d \in Others /\ UNCHANGED accrued
    /\ RowsUnchanged /\ UNCHANGED <<book, undo, cash>>

\* accruedSourceIds: only if all its debts are accrued does the payment
\* settle them; otherwise it is booked as revenue, or as cost.
ReadAccruals(p) ==
    /\ book[p] = "due"
    /\ book' = [book EXCEPT ![p] = IF DebtsOf(alloc[p]) \subseteq accrued THEN "arrears" ELSE "revenue"]
    /\ RowsUnchanged /\ UNCHANGED <<accruing, accrued, undo, cash>>

WriteCash(p) ==
    /\ book[p] \in {"arrears", "revenue"}
    /\ cash' = [cash EXCEPT ![p] = book[p]]
    /\ book' = [book EXCEPT ![p] = "no"]
    /\ RowsUnchanged /\ UNCHANGED <<accruing, accrued, undo>>

InForce(entry) == entry \in {"arrears", "revenue"}
ReverseCash(p) ==
    /\ p \in undo
    /\ cash' = [cash EXCEPT ![p] = IF InForce(@) THEN "reversed" ELSE @]
    /\ undo' = undo \ {p}
    /\ RowsUnchanged /\ UNCHANGED <<accruing, accrued, book>>

\* cash-flow reverse, by hand.
ReverseEntry(p) ==
    /\ InForce(cash[p])
    /\ cash' = [cash EXCEPT ![p] = "reversed"]
    /\ RowsUnchanged /\ UNCHANGED <<accruing, accrued, book, undo>>

Die ==
    /\ \/ \E d \in accruing : accruing' = accruing \ {d} /\ UNCHANGED <<book, undo>>
       \/ \E p \in Payments : /\ book[p] # "no"
                              /\ book' = [book EXCEPT ![p] = "no"]
                              /\ UNCHANGED <<accruing, undo>>
       \/ \E p \in undo : undo' = undo \ {p} /\ UNCHANGED <<accruing, book>>
    /\ RowsUnchanged /\ UNCHANGED <<accrued, cash>>

\* A transaction times out or its connection is lost.
Abort(p) == ~ Idle(p) /\ Rollback(p)

(***************************************************************************)
(* The row a transaction is about to lock; PostgreSQL ends one of those    *)
(* that wait in a circle.                                                  *)
(***************************************************************************)
Wants(p) ==
    IF tx[p].op = "post" /\ tx[p].todo # << >> THEN {Head(tx[p].todo).debt}
    ELSE IF tx[p].op = "reverse" /\ side = "receivable" /\ ~ AllLocked(p) THEN {NextToLock(p)}
    ELSE IF tx[p].op = "reverse" /\ tx[p].seen # "same" THEN {Head(tx[p].todo).debt}
    ELSE {}
Circle(P) == \A p \in P : \E d \in Wants(p) : holder[d] \in P \ {p}
Victim(p) == (\E P \in SUBSET Payments : p \in P /\ Circle(P)) /\ Rollback(p)

TxStep(p) ==
    \/ LockLine(p) \/ CommitPost(p)
    \/ LockReceivable(p) \/ CommitReverseReceivable(p)
    \/ RefreshRead(p) \/ RefreshWrite(p) \/ CommitReversePayable(p)

Request(p) == CreatePayment(p) \/ EditPayment(p) \/ BeginPost(p) \/ BeginReverse(p)
CashStep(p) == ReadAccruals(p) \/ WriteCash(p) \/ ReverseCash(p) \/ ReverseEntry(p)

Next ==
    \/ \E d \in Debts : DebtStep(d) \/ Accrue(d)
    \/ \E D \in SUBSET Debts : ConfirmDebts(D) \/ ReadDrafts(D)
    \/ ConfirmStatement \/ LeaveStatement
    \/ \E p \in Payments : Request(p) \/ TxStep(p) \/ Abort(p) \/ Victim(p) \/ CashStep(p)
    \/ Die

Spec == Init /\ [][Next]_vars

(***************************************************************************)
(* A request goes on when it can; PostgreSQL queues those that wait for a  *)
(* row and finds every deadlock.                                           *)
(***************************************************************************)
FairSpec == Spec /\ WF_vars(\E p \in Payments : Victim(p))
                 /\ \A p \in Payments : SF_vars(TxStep(p))

-----------------------------------------------------------------------------
(***************************************************************************)
(* Tables, transactions and locks have their types.                        *)
(***************************************************************************)
TypeOK ==
    /\ side \in {"receivable", "payable"}
    /\ debt \in [Debts -> DebtStatus] /\ amount \in [Debts -> Amounts]
    /\ pay \in [Payments -> PayStatus] /\ funds \in [Payments -> Amounts]
    /\ alloc \in [Payments -> Lines \cup {<< >>}]
    /\ tx \in [Payments -> Tx]
    /\ holder \in [Debts -> Payments \cup {NoOne}]
    /\ batch \subseteq Debts /\ late \subseteq Debts
    /\ retract \in [Debts -> {"no", "seen", "done"}]
    /\ accruing \subseteq Debts /\ accrued \subseteq Debts /\ undo \subseteq Payments
    /\ book \in [Payments -> {"no", "due", "arrears", "revenue"}]
    /\ cash \in [Payments -> {"none", "arrears", "revenue", "reversed"}]

(***************************************************************************)
(* However posting, reversal and the requests on the debts interleave, no  *)
(* debt is paid beyond its amount and no payment spends more than it has   *)
(* (customer-payment post, supplier-payment post, allocationBalance).      *)
(***************************************************************************)
AllocationsFit ==
    /\ \A d \in Debts : Paid(d) <= amount[d]
    /\ \A p \in Payments : pay[p] = "posted" => Total(alloc[p]) <= funds[p]

(***************************************************************************)
(* A debt that something has been paid on stays in force: it is not        *)
(* reopened, cancelled, reversed or removed under a payment that is being  *)
(* posted (reopen, cancel, reverse, removeOther against post).  Only the   *)
(* reversal of its source document, which looked while it was an unpaid    *)
(* draft, can take it back; from then on nothing is promised of it.        *)
(***************************************************************************)
PaidDebtStands ==
    \A d \in Debts : Paid(d) > 0 => debt[d] \in Standing \/ retract[d] = "done"

(***************************************************************************)
(* The status of a receivable says how much of it has been paid:           *)
(* refreshStatus of two payments never leaves the older answer.  A         *)
(* statement that confirms what it read as a draft may blur it; the next   *)
(* payment or reversal puts it right.                                      *)
(***************************************************************************)
StatusFollowsPayments ==
    side = "receivable" =>
        \A d \in Debts \ late : debt[d] \in Standing => debt[d] = After(d, Paid(d))

(***************************************************************************)
(* Revenue is booked once: what the accrual voucher has booked is not      *)
(* booked again by the payment (customer-payment post, createAccrual).     *)
(***************************************************************************)
RevenueBookedOnce ==
    \A p \in Payments :
        cash[p] = "revenue" => ~ (DebtsOf(alloc[p]) \subseteq accrued)

(***************************************************************************)
(* Every posting and every reversal that has started ends, although posts  *)
(* lock the debts in the order of their lines and reversals in another.    *)
(***************************************************************************)
EveryPaymentEnds == \A p \in Payments : tx[p].op # "none" ~> tx[p].op = "none"

(***************************************************************************)
(* The tables implement the ledger of DebtLedger: a debt keeps its amount  *)
(* from its first payment on.                                              *)
(***************************************************************************)
Ledger == INSTANCE DebtLedger WITH
            Accounts <- Debts, owed <- amount, paid <- [d \in Debts |-> Paid(d)]
ImplementsDebtLedger == Ledger!Spec
=============================================================================
