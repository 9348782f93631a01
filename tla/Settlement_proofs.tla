-------------------------- MODULE Settlement_proofs --------------------------
(***************************************************************************)
(* Receivables and payables under payment, for any number of debts,        *)
(* payments and lines.  The inductive invariant says what the locks are    *)
(* for: a posting holds every debt it has checked, and what it checked     *)
(* stays true until it commits; a reversal holds every debt whose new      *)
(* status it has written.                                                  *)
(***************************************************************************)
EXTENDS Settlement, FiniteSetTheorems, TLAPS

USE SettlementAssumption

\* What a posting has checked and still holds.
PostOK(p) ==
    tx[p].op = "post" =>
        /\ pay[p] = "draft"
        /\ Len(tx[p].done) + Len(tx[p].todo) <= MaxLines
        /\ Distinct(tx[p].done) /\ Distinct(tx[p].todo)
        /\ \A i \in DOMAIN tx[p].done, j \in DOMAIN tx[p].todo :
               tx[p].done[i].debt # tx[p].todo[j].debt
        /\ \A i \in DOMAIN tx[p].done :
               holder[tx[p].done[i].debt] = p /\ Allocatable(tx[p].done[i])

\* What a reversal has written and still holds.
ReverseOK(p) ==
    /\ tx[p].op = "reverse" => pay[p] = "posted"
    /\ tx[p].seen # "same" => /\ tx[p].op = "reverse" /\ tx[p].todo # << >>
                              /\ tx[p].seen \in Standing
    /\ \A d \in Debts : tx[p].fresh[d] # "same"
                          => holder[d] = p /\ tx[p].fresh[d] \in Standing

LocksHold == \A p \in Payments : PostOK(p) /\ ReverseOK(p)

\* Nothing is paid on a draft.
DraftsUnpaid == \A d \in Debts : debt[d] = "draft" => Paid(d) = 0

Inv == TypeOK /\ LocksHold /\ AllocationsFit /\ PaidDebtStands /\ DraftsUnpaid

-----------------------------------------------------------------------------
(***************************************************************************)
(* Sums as cardinalities.                                                  *)
(***************************************************************************)
LEMMA PiecesFinite == IsFiniteSet(Pieces)
<1>1. IsFiniteSet(1..MaxLines) /\ IsFiniteSet(Amounts)
  BY FS_Interval DEF Amounts
<1> QED
  BY <1>1, FS_Product DEF Pieces

LEMMA PaidFinite ==
    ASSUME NEW P \in SUBSET Payments, NEW d \in Debts
    PROVE  IsFiniteSet(PaidPieces(P, d)) /\ Cardinality(PaidPieces(P, d)) \in Nat
<1>1. IsFiniteSet(P)
  BY FS_Subset
<1>2. IsFiniteSet(P \X Pieces)
  BY <1>1, PiecesFinite, FS_Product
<1>3. PaidPieces(P, d) \subseteq P \X Pieces
  BY DEF PaidPieces
<1>4. IsFiniteSet(PaidPieces(P, d))
  BY <1>2, <1>3, FS_Subset
<1> QED
  BY <1>4, FS_CardinalityType

LEMMA PaidNat == ASSUME NEW d \in Debts PROVE Paid(d) \in Nat
BY PaidFinite DEF Paid

LEMMA PaidNatNext == ASSUME NEW d \in Debts PROVE Paid(d)' \in Nat
<1>1. IsFiniteSet(Payments \X Pieces)
  BY PiecesFinite, FS_Product
<1>2. PaidPieces(Payments, d)' \subseteq Payments \X Pieces
  BY DEF PaidPieces
<1>3. IsFiniteSet(PaidPieces(Payments, d)')
  BY <1>1, <1>2, FS_Subset
<1> QED
  BY <1>3, FS_CardinalityType DEF Paid

LEMMA PiecesOnFinite ==
    ASSUME NEW lines, NEW d
    PROVE  IsFiniteSet(PiecesOn(lines, d)) /\ Cardinality(PiecesOn(lines, d)) \in Nat
<1>1. PiecesOn(lines, d) \subseteq Pieces
  BY DEF PiecesOn, PiecesOf
<1>2. IsFiniteSet(PiecesOn(lines, d))
  BY <1>1, PiecesFinite, FS_Subset
<1> QED
  BY <1>2, FS_CardinalityType

\* The one line on a debt carries all its pieces there.
LEMMA OneLine ==
    ASSUME NEW lines \in Lines \cup {<< >>}, Distinct(lines), NEW i \in DOMAIN lines
    PROVE  Cardinality(PiecesOn(lines, lines[i].debt)) = lines[i].amount
<1> DEFINE d == lines[i].debt
           n == lines[i].amount
<1>1. DOMAIN lines \subseteq 1..MaxLines /\ lines[i] \in Line
  BY DEF Lines
<1>2. n \in Amounts /\ n \in Nat /\ n <= MaxAmount
  BY <1>1 DEF Line, Amounts
<1>3. PiecesOn(lines, d) = {i} \X (1..n)
  <2>1. ASSUME NEW x \in PiecesOn(lines, d) PROVE x \in {i} \X (1..n)
    <3>1. x \in (1..MaxLines) \X Amounts /\ x[1] \in DOMAIN lines
          /\ x[2] <= lines[x[1]].amount /\ lines[x[1]].debt = d
      BY <2>1 DEF PiecesOn, PiecesOf, Pieces
    <3>2. x[1] = i
      BY <3>1 DEF Distinct
    <3> QED
      BY <3>1, <3>2, <1>2 DEF Amounts
  <2>2. ASSUME NEW x \in {i} \X (1..n) PROVE x \in PiecesOn(lines, d)
    <3>1. x[1] = i /\ x[2] \in 1..n /\ x = <<x[1], x[2]>>
      BY <2>2
    <3>2. x \in (1..MaxLines) \X Amounts
      BY <3>1, <1>1, <1>2 DEF Amounts
    <3> QED
      BY <3>1, <3>2 DEF PiecesOn, PiecesOf, Pieces
  <2> QED
    BY <2>1, <2>2
<1>4. IsFiniteSet({i}) /\ Cardinality({i}) = 1
  BY FS_Singleton
<1>5. IsFiniteSet(1..n) /\ Cardinality(1..n) = n
  <2>1. 1 \in Int /\ n \in Int /\ ~ (1 > n)
    BY <1>2 DEF Amounts
  <2> HIDE DEF n
  <2>2. Cardinality(1..n) = IF 1 > n THEN 0 ELSE n - 1 + 1
    BY <2>1, FS_Interval
  <2> QED
    BY <2>1, <2>2, FS_Interval
<1>6. Cardinality({i} \X (1..n)) = 1 * n
  BY <1>4, <1>5, FS_Product
<1> QED
  BY <1>2, <1>3, <1>6

LEMMA NoLine ==
    ASSUME NEW lines, NEW d, d \notin DebtsOf(lines)
    PROVE  PiecesOn(lines, d) = {} /\ Cardinality(PiecesOn(lines, d)) = 0
<1>1. PiecesOn(lines, d) = {}
  BY DEF PiecesOn, PiecesOf, DebtsOf
<1> QED
  BY <1>1, FS_EmptySet

\* Steps that post nothing and reverse nothing leave the sums alone.
LEMMA SamePaid ==
    ASSUME NEW P \in SUBSET Payments, alloc' = alloc,
           \A p \in P : pay'[p] = "posted" <=> pay[p] = "posted"
    PROVE  \A d \in Debts : PaidPieces(P, d)' = PaidPieces(P, d)
BY DEF PaidPieces, PiecesOn, PiecesOf

LEMMA PaidUnchanged ==
    ASSUME alloc' = alloc, \A p \in Payments : pay'[p] = "posted" <=> pay[p] = "posted"
    PROVE  \A d \in Debts : Paid(d)' = Paid(d)
BY SamePaid DEF Paid

\* All that is paid on d: by the others, and by p with its own lines.
LEMMA SplitPaid ==
    ASSUME NEW p \in Payments, NEW d \in Debts, NEW lines
    PROVE  LET others == PaidPieces(Payments \ {p}, d)
               mine == {p} \X PiecesOn(lines, d)
           IN  Cardinality(others \cup mine) = PaidWith(p, lines, d)
<1> DEFINE others == PaidPieces(Payments \ {p}, d)
           mine == {p} \X PiecesOn(lines, d)
<1>1. IsFiniteSet(others) /\ Cardinality(others) \in Nat
  BY PaidFinite
<1>2. IsFiniteSet({p}) /\ Cardinality({p}) = 1
  BY FS_Singleton
<1>3. IsFiniteSet(mine) /\ Cardinality(mine) = 1 * Cardinality(PiecesOn(lines, d))
  BY <1>2, PiecesOnFinite, FS_Product
<1>4. others \cap mine = {}
  BY DEF PaidPieces
<1>5. Cardinality(others \cap mine) = 0
  BY <1>4, FS_EmptySet
<1>6. Cardinality(others \cup mine) = Cardinality(others) + Cardinality(mine) - Cardinality(others \cap mine)
  BY <1>1, <1>3, FS_Union
<1> QED
  BY <1>1, <1>3, <1>5, <1>6, PiecesOnFinite DEF PaidWith

LEMMA PaidBefore ==
    ASSUME NEW p \in Payments, NEW d \in Debts
    PROVE  Paid(d) = PaidWith(p, IF pay[p] = "posted" THEN alloc[p] ELSE << >>, d)
<1> DEFINE lines == IF pay[p] = "posted" THEN alloc[p] ELSE << >>
<1>1. PiecesOn(lines, d) \subseteq Pieces
  BY DEF PiecesOn, PiecesOf
<1>2. PaidPieces(Payments, d) = PaidPieces(Payments \ {p}, d) \cup ({p} \X PiecesOn(lines, d))
  <2>1. CASE pay[p] = "posted"
    BY <1>1, <2>1 DEF PaidPieces
  <2>2. CASE pay[p] # "posted"
    <3>1. PiecesOn(lines, d) = {}
      BY <2>2 DEF PiecesOn, PiecesOf
    <3> QED
      BY <2>2, <3>1 DEF PaidPieces
  <2> QED
    BY <2>1, <2>2
<1> QED
  BY <1>2, SplitPaid DEF Paid

\* After a commit of p.
LEMMA PaidAfter ==
    ASSUME TypeOK, NEW p \in Payments, NEW d \in Debts, NEW status, NEW lines,
           Committed(p, status, lines)
    PROVE  Paid(d)' = PaidWith(p, IF status = "posted" THEN lines ELSE << >>, d)
<1> DEFINE mine == IF status = "posted" THEN lines ELSE << >>
<1>1. pay' = [pay EXCEPT ![p] = status] /\ alloc' = [alloc EXCEPT ![p] = lines]
  BY DEF Committed
<1>2. pay'[p] = status /\ alloc'[p] = lines
  BY <1>1 DEF TypeOK
<1>3. PaidPieces(Payments \ {p}, d)' = PaidPieces(Payments \ {p}, d)
  BY <1>1 DEF TypeOK, PaidPieces, PiecesOn, PiecesOf
<1>4. PiecesOn(mine, d) \subseteq Pieces
  BY DEF PiecesOn, PiecesOf
<1>5. PaidPieces(Payments, d)' = PaidPieces(Payments \ {p}, d) \cup ({p} \X PiecesOn(mine, d))
  <2>1. CASE status = "posted"
    BY <1>2, <1>3, <1>4, <2>1 DEF PaidPieces, PiecesOn, PiecesOf
  <2>2. CASE status # "posted"
    <3>1. PiecesOn(mine, d) = {}
      BY <2>2 DEF PiecesOn, PiecesOf
    <3> QED
      BY <1>2, <1>3, <2>2, <3>1 DEF PaidPieces, PiecesOn, PiecesOf
  <2> QED
    BY <2>1, <2>2
<1> QED
  BY <1>5, SplitPaid DEF Paid

-----------------------------------------------------------------------------
(***************************************************************************)
(* Types.                                                                  *)
(***************************************************************************)
LEMMA AfterStands == ASSUME NEW d, NEW n PROVE After(d, n) \in Standing
BY DEF After, Standing, Open

LEMMA LinesAreSequences ==
    ASSUME NEW lines \in Lines
    PROVE  lines \in Seq(Line) /\ Len(lines) \in 1..MaxLines /\ lines # << >>
BY DEF Lines

LEMMA SequencesAreLines ==
    ASSUME NEW lines \in Seq(Line), Len(lines) <= MaxLines
    PROVE  lines \in Lines \cup {<< >>}
<1>1. CASE lines = << >>
  BY <1>1
<1>2. CASE lines # << >>
  <2>1. Len(lines) \in 1..MaxLines
    BY <1>2
  <2>2. lines \in [1..Len(lines) -> Line]
    OBVIOUS
  <2> QED
    BY <2>1, <2>2 DEF Lines
<1> QED
  BY <1>1, <1>2

LEMMA TxTypes ==
    /\ NoTx \in Tx
    /\ \A t \in Tx : /\ t.todo \in Seq(Line) /\ t.done \in Seq(Line)
                     /\ t.op \in {"none", "post", "reverse"}
                     /\ t.seen \in DebtStatus \cup {"same"}
                     /\ t.fresh \in [Debts -> DebtStatus \cup {"same"}]
<1>1. << >> \in Seq(Line)
  OBVIOUS
<1> QED
  BY <1>1 DEF NoTx, Tx, NoChange

LEMMA ReleaseType ==
    ASSUME TypeOK, NEW p \in Payments
    PROVE  /\ Release(p) \in [Debts -> Payments \cup {NoOne}]
           /\ \A d \in Debts, q \in Payments \ {p} : Release(p)[d] = q <=> holder[d] = q
BY DEF TypeOK, Release

LEMMA TypeInit == Init => TypeOK
<1>1. 1 \in Amounts
  BY DEF Amounts
<1> QED
  BY <1>1, TxTypes DEF Init, TypeOK, DebtStatus, PayStatus

LEMMA TypeOfDebtSteps ==
    ASSUME TypeOK, NEW d \in Debts, DebtStep(d)
    PROVE  TypeOK'
<1> USE DEF TypeOK, DebtStatus, Standing, Open
<1>1. CASE EditDebt(d)
  BY <1>1 DEF EditDebt, flow, claims
<1>2. ASSUME NEW status \in DebtStatus, SetDebt(d, status) PROVE TypeOK'
  BY <1>2 DEF SetDebt, flow, claims
<1>3. CASE ReadForReversal(d) \/ LeaveReversal(d)
  BY <1>3 DEF ReadForReversal, LeaveReversal, Retraction
<1>4. CASE Retract(d)
  BY <1>4 DEF Retract, Retraction
<1> QED
  BY <1>1, <1>2, <1>3, <1>4 DEF DebtStep, ReopenDebt, CancelReceivable, ReversePayable, RemoveOther

LEMMA TypeOfConfirm ==
    ASSUME TypeOK, NEW D \in SUBSET Debts, ConfirmDebts(D)
    PROVE  TypeOK'
BY DEF TypeOK, DebtStatus, Standing, Open, ConfirmDebts, claims

LEMMA TypeOfStatement ==
    ASSUME TypeOK, (\E D \in SUBSET Debts : ReadDrafts(D)) \/ ConfirmStatement \/ LeaveStatement
    PROVE  TypeOK'
<1> USE DEF TypeOK, tables
<1>1. ASSUME NEW D \in SUBSET Debts, ReadDrafts(D) PROVE TypeOK'
  BY <1>1 DEF ReadDrafts
<1>2. CASE ConfirmStatement
  BY <1>2 DEF ConfirmStatement, DebtStatus, Standing, Open
<1>3. CASE LeaveStatement
  BY <1>3 DEF LeaveStatement
<1> QED
  BY <1>1, <1>2, <1>3

LEMMA TypeOfRequests ==
    ASSUME TypeOK, NEW p \in Payments, Request(p)
    PROVE  TypeOK'
<1>1. CASE CreatePayment(p)
  BY <1>1 DEF TypeOK, PayStatus, CreatePayment, flow, claims
<1>2. CASE EditPayment(p)
  BY <1>2 DEF TypeOK, PayStatus, EditPayment, flow, claims
<1>3. CASE BeginPost(p)
  <2>1. PICK lines \in Lines : tx' = [tx EXCEPT ![p] = [NoTx EXCEPT !.op = "post", !.todo = lines]]
    BY <1>3 DEF BeginPost
  <2>2. [NoTx EXCEPT !.op = "post", !.todo = lines] \in Tx
    BY TxTypes, LinesAreSequences DEF Tx, NoTx
  <2> QED
    BY <1>3, <2>1, <2>2 DEF TypeOK, BeginPost, tables, flow, claims
<1>4. CASE BeginReverse(p)
  <2>1. alloc[p] \in Seq(Line)
    <3>1. alloc[p] \in Lines \cup {<< >>} /\ << >> \in Seq(Line)
      BY DEF TypeOK
    <3> QED
      BY <3>1, LinesAreSequences
  <2>2. [NoTx EXCEPT !.op = "reverse", !.todo = alloc[p]] \in Tx
    BY <2>1, TxTypes DEF Tx, NoTx
  <2> QED
    BY <1>4, <2>2 DEF TypeOK, BeginReverse, tables, flow, claims
<1> QED
  BY <1>1, <1>2, <1>3, <1>4 DEF Request

LEMMA TypeOfRollback ==
    ASSUME TypeOK, NEW p \in Payments, Rollback(p)
    PROVE  TypeOK'
BY TxTypes, ReleaseType DEF TypeOK, Rollback, tables, flow, claims

\* Every commit: only the status of the debts is left to see to.
LEMMA TypeOfCommit ==
    ASSUME TypeOK, NEW p \in Payments, NEW status \in PayStatus,
           NEW lines \in Lines \cup {<< >>}, Committed(p, status, lines),
           debt' \in [Debts -> DebtStatus],
           book' \in [Payments -> {"no", "due", "arrears", "revenue"}],
           undo' \subseteq Payments
    PROVE  TypeOK'
BY TxTypes, ReleaseType DEF TypeOK, Committed

LEMMA HeadTail ==
    ASSUME NEW S, NEW s \in Seq(S), s # << >>
    PROVE  /\ Head(s) = s[1] /\ 1 \in DOMAIN s /\ Head(s) \in S
           /\ Tail(s) \in Seq(S) /\ Len(Tail(s)) = Len(s) - 1
           /\ \A i \in DOMAIN Tail(s) : i + 1 \in DOMAIN s /\ i + 1 # 1 /\ Tail(s)[i] = s[i + 1]
OBVIOUS

LEMMA AppendLast ==
    ASSUME NEW S, NEW s \in Seq(S), NEW x \in S
    PROVE  /\ Append(s, x) \in Seq(S) /\ Len(Append(s, x)) = Len(s) + 1
           /\ \A i \in DOMAIN Append(s, x) :
                  \/ i \in DOMAIN s /\ Append(s, x)[i] = s[i]
                  \/ i = Len(s) + 1 /\ i \notin DOMAIN s /\ Append(s, x)[i] = x
OBVIOUS

LEMMA HeadLine ==
    ASSUME TypeOK, NEW p \in Payments, tx[p].todo # << >>
    PROVE  /\ Head(tx[p].todo) \in Line /\ Head(tx[p].todo).debt \in Debts
           /\ Head(tx[p].todo) = tx[p].todo[1] /\ 1 \in DOMAIN tx[p].todo
           /\ Tail(tx[p].todo) \in Seq(Line) /\ Len(Tail(tx[p].todo)) = Len(tx[p].todo) - 1
<1>1. tx[p].todo \in Seq(Line)
  BY TxTypes DEF TypeOK
<1>2. Head(tx[p].todo) \in Line
  BY <1>1, HeadTail
<1> QED
  BY <1>1, <1>2, HeadTail DEF Line

LEMMA TypeOfTxSteps ==
    ASSUME TypeOK, LocksHold, NEW p \in Payments, TxStep(p)
    PROVE  TypeOK'
<1>0. tx[p] \in Tx /\ pay[p] \in PayStatus /\ alloc[p] \in Lines \cup {<< >>}
      /\ Standing \subseteq DebtStatus
  BY DEF TypeOK, DebtStatus
<1>1. CASE LockLine(p)
  <2>1. CASE Rollback(p)
    BY <2>1, TypeOfRollback
  <2>2. CASE ~ Rollback(p)
    <3> DEFINE line == Head(tx[p].todo)
               new == [tx[p] EXCEPT !.todo = Tail(@), !.done = Append(@, line)]
    <3>1. /\ tx' = [tx EXCEPT ![p] = new] /\ holder' = [holder EXCEPT ![line.debt] = p]
          /\ tx[p].todo # << >> /\ UNCHANGED <<side, tables, flow>>
      BY <1>1, <2>2 DEF LockLine
    <3>2. line \in Line /\ line.debt \in Debts /\ Tail(tx[p].todo) \in Seq(Line)
      BY <3>1, HeadLine
    <3>3. new \in Tx
      <4>1. Append(tx[p].done, line) \in Seq(Line)
        BY <1>0, <3>2, TxTypes, AppendLast
      <4>2. new = [tx[p] EXCEPT !.todo = Tail(tx[p].todo), !.done = Append(tx[p].done, line)]
        OBVIOUS
      <4> QED
        BY <1>0, <3>2, <4>1 DEF Tx
    <3> QED
      BY <3>1, <3>2, <3>3 DEF TypeOK, tables, flow, claims
  <2> QED
    BY <2>1, <2>2
<1>2. CASE CommitPost(p)
  <2>1. CASE Rollback(p)
    BY <2>1, TypeOfRollback
  <2>2. CASE ~ Rollback(p)
    <3> DEFINE lines == tx[p].done
    <3>1. lines \in Lines \cup {<< >>}
      <4>1. Len(tx[p].done) + Len(tx[p].todo) <= MaxLines
        BY <1>2 DEF LocksHold, PostOK, CommitPost
      <4>2. Len(tx[p].todo) = 0 /\ lines \in Seq(Line)
        BY <1>0, <1>2, TxTypes DEF CommitPost
      <4> QED
        BY <4>1, <4>2, SequencesAreLines
    <3>2. /\ Committed(p, "posted", lines) /\ UNCHANGED undo
          /\ debt' = [d \in Debts |-> IF d \in DebtsOf(lines)
                                        THEN After(d, PaidWith(p, lines, d)) ELSE debt[d]]
          /\ book' = IF DebtsOf(lines) \subseteq Booked THEN [book EXCEPT ![p] = "due"] ELSE book
      BY <1>2, <2>2 DEF CommitPost
    <3>3. debt' \in [Debts -> DebtStatus]
      BY <1>0, <3>2, AfterStands DEF TypeOK
    <3>4. /\ book' \in [Payments -> {"no", "due", "arrears", "revenue"}]
          /\ undo' \subseteq Payments
      BY <3>2 DEF TypeOK
    <3> QED
      BY <3>1, <3>2, <3>3, <3>4, TypeOfCommit DEF PayStatus
  <2> QED
    BY <2>1, <2>2
<1>3. CASE LockReceivable(p)
  BY <1>3 DEF LockReceivable, TypeOK, tables, flow, claims
<1>4. CASE CommitReverseReceivable(p)
  <2>1. debt' \in [Debts -> DebtStatus]
    BY <1>0, <1>4, AfterStands DEF CommitReverseReceivable, TypeOK
  <2>2. /\ Committed(p, "reversed", alloc[p]) /\ UNCHANGED book /\ undo' \subseteq Payments
    BY <1>4 DEF CommitReverseReceivable, TypeOK
  <2> QED
    BY <1>0, <2>1, <2>2, TypeOfCommit DEF PayStatus, TypeOK
<1>5. CASE RefreshRead(p)
  <2>1. CASE Rollback(p)
    BY <2>1, TypeOfRollback
  <2>2. CASE ~ Rollback(p)
    <3> DEFINE skip == [tx[p] EXCEPT !.todo = Tail(@)]
               d == Head(tx[p].todo).debt
               read == [tx[p] EXCEPT !.seen = After(d, PaidWith(p, << >>, d))]
    <3>1. /\ tx' = [tx EXCEPT ![p] = skip] \/ tx' = [tx EXCEPT ![p] = read]
          /\ tx[p].todo # << >> /\ UNCHANGED <<side, tables, holder, flow>>
      BY <1>5, <2>2 DEF RefreshRead
    <3>2. skip \in Tx
      BY <1>0, <3>1, HeadLine DEF Tx
    <3>3. read \in Tx
      BY <1>0, AfterStands DEF Tx
    <3> HIDE DEF skip, read
    <3> QED
      BY <3>1, <3>2, <3>3 DEF TypeOK, tables, flow, claims
  <2> QED
    BY <2>1, <2>2
<1>6. CASE RefreshWrite(p)
  <2> DEFINE d == Head(tx[p].todo).debt
             new == [tx[p] EXCEPT !.todo = Tail(@), !.seen = "same", !.fresh[d] = tx[p].seen]
  <2>1. /\ tx' = [tx EXCEPT ![p] = new] /\ holder' = [holder EXCEPT ![d] = p]
        /\ UNCHANGED <<side, tables, flow>>
    BY <1>6 DEF RefreshWrite
  <2>2. tx[p].todo # << >>
    BY <1>6 DEF RefreshWrite, LocksHold, ReverseOK
  <2>3. d \in Debts /\ Tail(tx[p].todo) \in Seq(Line)
    BY <2>2, HeadLine
  <2>4. [tx[p].fresh EXCEPT ![d] = tx[p].seen] \in [Debts -> DebtStatus \cup {"same"}]
    BY <1>0, TxTypes
  <2>5. new \in Tx
    BY <1>0, <2>3, <2>4 DEF Tx
  <2> HIDE DEF new
  <2> QED
    BY <2>1, <2>3, <2>5 DEF TypeOK, tables, flow, claims
<1>7. CASE CommitReversePayable(p)
  <2>1. debt' \in [Debts -> DebtStatus]
    BY <1>0, <1>7, TxTypes DEF CommitReversePayable, TypeOK
  <2>2. /\ Committed(p, "reversed", alloc[p]) /\ UNCHANGED book /\ undo' \subseteq Payments
    BY <1>7 DEF CommitReversePayable, TypeOK
  <2> QED
    BY <1>0, <2>1, <2>2, TypeOfCommit DEF PayStatus, TypeOK
<1> QED
  BY <1>1, <1>2, <1>3, <1>4, <1>5, <1>6, <1>7 DEF TxStep

LEMMA TypeOfOthers ==
    ASSUME TypeOK, (\E d \in Debts : Accrue(d)) \/ (\E p \in Payments : CashStep(p)) \/ Die
    PROVE  TypeOK' /\ RowsUnchanged
<1>1. ASSUME NEW d \in Debts, Accrue(d) PROVE TypeOK' /\ RowsUnchanged
  BY <1>1 DEF Accrue, RowsUnchanged, TypeOK, tables, claims
<1>2. ASSUME NEW p \in Payments, CashStep(p) PROVE TypeOK' /\ RowsUnchanged
  <2> USE DEF RowsUnchanged, TypeOK, tables, claims
  <2>1. CASE ReadAccruals(p)
    BY <2>1 DEF ReadAccruals
  <2>2. CASE WriteCash(p)
    BY <2>2 DEF WriteCash
  <2>3. CASE ReverseCash(p)
    BY <2>3 DEF ReverseCash
  <2>4. CASE ReverseEntry(p)
    BY <2>4 DEF ReverseEntry
  <2> QED
    BY <1>2, <2>1, <2>2, <2>3, <2>4 DEF CashStep
<1>3. CASE Die
  BY <1>3 DEF Die, RowsUnchanged, TypeOK, tables, claims
<1> QED
  BY <1>1, <1>2, <1>3

-----------------------------------------------------------------------------
(***************************************************************************)
(* The invariant, action by action.  What a request holds is disturbed by  *)
(* no other request.                                                       *)
(***************************************************************************)
LEMMA AmountNat == ASSUME TypeOK PROVE \A d \in Debts : amount[d] \in Nat /\ amount[d] >= 1
<1> SUFFICES ASSUME TypeOK PROVE \A d \in Debts : amount[d] \in Nat /\ amount[d] >= 1
  OBVIOUS
<1>1. amount \in [Debts -> Amounts]
  BY DEF TypeOK
<1> QED
  BY <1>1 DEF Amounts

LEMMA Undisturbed ==
    ASSUME TypeOK, TypeOK', NEW q \in Payments, PostOK(q), ReverseOK(q),
           tx'[q] = tx[q], tx[q].op = "none" \/ pay'[q] = pay[q],
           \A d \in Debts : holder[d] = q =>
               /\ holder'[d] = q /\ debt'[d] = debt[d] /\ amount'[d] = amount[d]
               /\ Paid(d)' <= Paid(d)
    PROVE  PostOK(q)' /\ ReverseOK(q)'
<1>1. PostOK(q)'
  <2> SUFFICES ASSUME tx[q].op = "post"
               PROVE  PostOK(q)'
    BY DEF PostOK
  <2>1. ASSUME NEW line \in Line, holder[line.debt] = q, Allocatable(line)
        PROVE  holder'[line.debt] = q /\ Allocatable(line)'
    <3>1. line.debt \in Debts /\ line.amount \in Nat
      BY DEF Line, Amounts
    <3>2. Paid(line.debt) \in Nat /\ Paid(line.debt)' \in Nat /\ amount[line.debt] \in Nat
      <4>1. ASSUME NEW d \in Debts PROVE Paid(d) \in Nat /\ Paid(d)' \in Nat
        BY PaidNat, PaidNatNext
      <4>2. amount[line.debt] \in Nat
        BY <3>1, AmountNat
      <4>3. Paid(line.debt) \in Nat
        BY <3>1, <4>1
      <4>4. Paid(line.debt)' \in Nat
        BY <3>1, <4>1
      <4> QED
        BY <4>2, <4>3, <4>4
    <3>3. /\ holder'[line.debt] = q /\ debt'[line.debt] = debt[line.debt]
          /\ amount'[line.debt] = amount[line.debt] /\ Paid(line.debt)' <= Paid(line.debt)
      BY <2>1, <3>1
    <3>4. debt[line.debt] \in Open /\ line.amount <= amount[line.debt] - Paid(line.debt)
      BY <2>1 DEF Allocatable
    <3>5. line.amount <= amount[line.debt] - Paid(line.debt)'
      BY <3>1, <3>2, <3>3, <3>4
    <3> QED
      BY <3>3, <3>4, <3>5 DEF Allocatable
  <2>2. tx[q].done \in Seq(Line)
    BY TxTypes DEF TypeOK
  <2>3. \A i \in DOMAIN tx[q].done : tx[q].done[i] \in Line
    BY <2>2
  <2>4. ASSUME NEW i \in DOMAIN tx[q].done
        PROVE  holder'[tx'[q].done[i].debt] = q /\ Allocatable(tx[q].done[i])'
    <3>1. holder[tx[q].done[i].debt] = q /\ Allocatable(tx[q].done[i])
      BY DEF PostOK
    <3>2. PICK line \in Line : line = tx[q].done[i]
      BY <2>3
    <3>3. holder'[line.debt] = q /\ Allocatable(line)'
      BY <2>1, <3>1, <3>2
    <3> QED
      BY <3>2, <3>3 DEF Allocatable
  <2>5. /\ pay'[q] = "draft"
        /\ Len(tx'[q].done) + Len(tx'[q].todo) <= MaxLines
        /\ \A i \in DOMAIN tx'[q].done, j \in DOMAIN tx'[q].todo :
               tx'[q].done[i].debt # tx'[q].todo[j].debt
    <3>1. /\ pay[q] = "draft"
          /\ Len(tx[q].done) + Len(tx[q].todo) <= MaxLines
          /\ \A i \in DOMAIN tx[q].done, j \in DOMAIN tx[q].todo :
                 tx[q].done[i].debt # tx[q].todo[j].debt
      BY DEF PostOK
    <3>2. pay'[q] = pay[q] /\ tx'[q] = tx[q]
      OBVIOUS
    <3>3. tx'[q].done = tx[q].done /\ tx'[q].todo = tx[q].todo
      BY <3>2
    <3>4. Len(tx'[q].done) + Len(tx'[q].todo) <= MaxLines
      BY <3>1, <3>3
    <3>5. \A i \in DOMAIN tx'[q].done, j \in DOMAIN tx'[q].todo :
             tx'[q].done[i].debt # tx'[q].todo[j].debt
      BY <3>1, <3>3
    <3> QED
      BY <3>1, <3>2, <3>4, <3>5
  <2>6. Distinct(tx[q].done)' /\ Distinct(tx[q].todo)'
    BY DEF PostOK, Distinct
  <2>7. \A i \in DOMAIN tx'[q].done :
           holder'[tx'[q].done[i].debt] = q /\ Allocatable(tx[q].done[i])'
    BY <2>4
  <2> QED
    BY <2>5, <2>6, <2>7 DEF PostOK
<1>2. ReverseOK(q)'
  BY DEF ReverseOK, TypeOK
<1> QED
  BY <1>1, <1>2

LEMMA TablesSame ==
    ASSUME AllocationsFit, PaidDebtStands, DraftsUnpaid, UNCHANGED <<tables, retract>>
    PROVE  /\ AllocationsFit' /\ PaidDebtStands' /\ DraftsUnpaid'
           /\ \A d \in Debts : Paid(d)' = Paid(d)
<1>1. \A d \in Debts : Paid(d)' = Paid(d)
  BY PaidUnchanged DEF tables
<1> QED
  BY <1>1 DEF AllocationsFit, PaidDebtStands, DraftsUnpaid, tables, Total, PiecesOf

LEMMA InvInit == Init => Inv
<1> SUFFICES ASSUME Init PROVE Inv
  OBVIOUS
<1>1. TypeOK
  BY TypeInit
<1>2. LocksHold
  BY DEF Init, LocksHold, PostOK, ReverseOK, NoTx, NoChange
<1>3. \A d \in Debts : Paid(d) = 0
  <2>1. \A d \in Debts : PaidPieces(Payments, d) = {}
    BY DEF Init, PaidPieces
  <2> QED
    BY <2>1, FS_EmptySet DEF Paid
<1>4. AllocationsFit
  BY <1>3 DEF Init, AllocationsFit, Amounts
<1> QED
  BY <1>1, <1>2, <1>3, <1>4 DEF Inv, PaidDebtStands, DraftsUnpaid

LEMMA InvOfDebtSteps ==
    ASSUME Inv, NEW d \in Debts, DebtStep(d)
    PROVE  Inv'
<1> USE DEF Inv
<1>0. TypeOK'
  BY TypeOfDebtSteps
<1>1. /\ UNCHANGED <<pay, funds, alloc, tx, holder>>
      /\ \A e \in Debts \ {d} : /\ debt'[e] = debt[e] /\ amount'[e] = amount[e]
                                /\ retract'[e] = retract[e]
      /\ amount'[d] # amount[d] => debt[d] = "draft"
  BY DEF DebtStep, EditDebt, ReopenDebt, CancelReceivable, ReversePayable, RemoveOther, SetDebt,
     ReadForReversal, Retract, LeaveReversal, Retraction, TypeOK, flow, claims
<1>2. \A e \in Debts : Paid(e)' = Paid(e) /\ Paid(e) \in Nat
  BY <1>1, PaidUnchanged, PaidNat
<1>3. Free(d) \/ (debt'[d] = debt[d] /\ amount'[d] = amount[d])
  BY DEF DebtStep, EditDebt, ReopenDebt, CancelReceivable, ReversePayable, RemoveOther,
     ReadForReversal, Retract, LeaveReversal, Retraction
<1>4. ASSUME NEW q \in Payments PROVE PostOK(q)' /\ ReverseOK(q)'
  <2>1. \A e \in Debts : holder[e] = q => debt'[e] = debt[e] /\ amount'[e] = amount[e]
    BY <1>1, <1>3 DEF Free
  <2>2. PostOK(q) /\ ReverseOK(q)
    BY DEF LocksHold
  <2>3. ASSUME NEW e \in Debts, holder[e] = q PROVE holder'[e] = q /\ Paid(e)' <= Paid(e)
    <3>1. Paid(e)' = Paid(e) /\ Paid(e) \in Nat
      BY <1>2
    <3> QED
      BY <1>1, <2>3, <3>1
  <2>4. tx'[q] = tx[q] /\ pay'[q] = pay[q]
    BY <1>1
  <2> QED
    BY <1>0, <2>1, <2>2, <2>3, <2>4, Undisturbed
<1>5. AllocationsFit'
  <2>1. ASSUME NEW e \in Debts PROVE Paid(e)' <= amount'[e]
    <3>1. CASE amount'[e] = amount[e]
      BY <1>2, <3>1 DEF AllocationsFit
    <3>2. CASE amount'[e] # amount[e]
      <4>1. Paid(e)' = 0
        BY <1>1, <1>2, <3>2 DEF DraftsUnpaid
      <4>2. amount' \in [Debts -> Amounts]
        BY <1>0 DEF TypeOK
      <4>3. amount'[e] \in Nat
        BY <4>2 DEF Amounts
      <4> QED
        BY <4>1, <4>3
    <3> QED
      BY <3>1, <3>2
  <2> QED
    BY <1>1, <2>1 DEF AllocationsFit, Total, PiecesOf
<1>6. Paid(d) = 0 \/ retract'[d] = "done" \/ (debt'[d] = debt[d] /\ retract[d] # "done")
  <2>1. ASSUME Paid(d) # 0 PROVE Retract(d) \/ LeaveReversal(d)
    BY <2>1 DEF DebtStep, DraftsUnpaid, EditDebt, ReopenDebt, CancelReceivable, ReversePayable,
       RemoveOther, ReadForReversal
  <2> QED
    BY <2>1 DEF Retract, LeaveReversal, Retraction, TypeOK
<1>7. PaidDebtStands'
  BY <1>1, <1>2, <1>6 DEF PaidDebtStands
<1>8. debt'[d] = "draft" => debt[d] = "draft" \/ Paid(d) = 0
  BY DEF DebtStep, EditDebt, ReopenDebt, CancelReceivable, ReversePayable, RemoveOther, SetDebt,
     ReadForReversal, Retract, LeaveReversal, TypeOK
<1>9. DraftsUnpaid'
  BY <1>1, <1>2, <1>8 DEF DraftsUnpaid
<1> QED
  BY <1>0, <1>4, <1>5, <1>7, <1>9 DEF LocksHold

\* A batch that is confirmed: the locks are free and nothing is changed but
\* statuses, to one in force.
LEMMA InvOfConfirmed ==
    ASSUME Inv, TypeOK', UNCHANGED <<pay, funds, alloc, tx, holder, amount, retract>>,
           \A e \in Debts : debt'[e] = debt[e] \/ (Free(e) /\ debt'[e] = "confirmed")
    PROVE  Inv'
<1> USE DEF Inv
<1>1. \A e \in Debts : Paid(e)' = Paid(e) /\ Paid(e) \in Nat
  BY PaidUnchanged, PaidNat
<1>2. ASSUME NEW q \in Payments PROVE PostOK(q)' /\ ReverseOK(q)'
  <2>1. \A e \in Debts : holder[e] = q => debt'[e] = debt[e]
    BY DEF Free
  <2>2. PostOK(q) /\ ReverseOK(q)
    BY DEF LocksHold
  <2> QED
    BY <1>1, <2>1, <2>2, Undisturbed
<1>3. AllocationsFit'
  BY <1>1 DEF AllocationsFit, Total, PiecesOf
<1>4. PaidDebtStands' /\ DraftsUnpaid'
  BY <1>1 DEF PaidDebtStands, DraftsUnpaid, Standing, Open
<1> QED
  BY <1>2, <1>3, <1>4 DEF LocksHold

LEMMA InvOfConfirm ==
    ASSUME Inv, NEW D \in SUBSET Debts, ConfirmDebts(D)
    PROVE  Inv'
<1>1. TypeOK'
  BY TypeOfConfirm DEF Inv
<1>2. UNCHANGED <<pay, funds, alloc, tx, holder, amount, retract>>
      /\ \A e \in Debts : debt'[e] = debt[e] \/ (Free(e) /\ debt'[e] = "confirmed")
  BY DEF ConfirmDebts, Inv, TypeOK, claims
<1> QED
  BY <1>1, <1>2, InvOfConfirmed

LEMMA InvOfStatement ==
    ASSUME Inv, (\E D \in SUBSET Debts : ReadDrafts(D)) \/ ConfirmStatement \/ LeaveStatement
    PROVE  Inv'
<1>1. TypeOK'
  BY TypeOfStatement DEF Inv
<1>2. UNCHANGED <<pay, funds, alloc, tx, holder, amount, retract>>
      /\ \A e \in Debts : debt'[e] = debt[e] \/ (Free(e) /\ debt'[e] = "confirmed")
  BY DEF ReadDrafts, ConfirmStatement, LeaveStatement, Inv, TypeOK, tables
<1> QED
  BY <1>1, <1>2, InvOfConfirmed

LEMMA InvOfOthers ==
    ASSUME Inv, (\E d \in Debts : Accrue(d)) \/ (\E p \in Payments : CashStep(p)) \/ Die
    PROVE  Inv'
<1>1. TypeOK' /\ RowsUnchanged
  BY TypeOfOthers DEF Inv
<1>2. UNCHANGED <<debt, amount, pay, funds, alloc, tx, holder, retract>>
  BY <1>1 DEF RowsUnchanged, tables, claims
<1>3. AllocationsFit' /\ PaidDebtStands' /\ DraftsUnpaid' /\ \A d \in Debts : Paid(d)' = Paid(d)
  BY <1>2, TablesSame DEF Inv, tables
<1>4. LocksHold'
  BY <1>1, <1>2, <1>3, PaidNat, Undisturbed DEF Inv, LocksHold
<1> QED
  BY <1>1, <1>3, <1>4 DEF Inv

LEMMA InvOfRollback ==
    ASSUME Inv, NEW p \in Payments, Rollback(p)
    PROVE  Inv'
<1> USE DEF Inv
<1>1. TypeOK'
  BY TypeOfRollback
<1>2. UNCHANGED <<tables, retract>> /\ tx' = [tx EXCEPT ![p] = NoTx] /\ holder' = Release(p)
  BY DEF Rollback, flow, claims
<1>3. AllocationsFit' /\ PaidDebtStands' /\ DraftsUnpaid' /\ \A d \in Debts : Paid(d)' = Paid(d)
  BY <1>2, TablesSame
<1>4. PostOK(p)' /\ ReverseOK(p)'
  BY <1>2 DEF TypeOK, PostOK, ReverseOK, NoTx, NoChange
<1>5. ASSUME NEW q \in Payments \ {p} PROVE PostOK(q)' /\ ReverseOK(q)'
  <2>1. \A d \in Debts : holder[d] = q => holder'[d] = q
    BY <1>2, ReleaseType
  <2>2. PostOK(q) /\ ReverseOK(q) /\ tx'[q] = tx[q]
    BY <1>2 DEF LocksHold, TypeOK
  <2> QED
    BY <1>1, <1>2, <1>3, <2>1, <2>2, PaidNat, Undisturbed DEF tables
<1> QED
  BY <1>1, <1>3, <1>4, <1>5 DEF LocksHold


LEMMA InvOfRequests ==
    ASSUME Inv, NEW p \in Payments, Request(p)
    PROVE  Inv'
<1> USE DEF Inv
<1>0. TypeOK' /\ tx[p] \in Tx /\ PostOK(p) /\ ReverseOK(p)
  BY TypeOfRequests DEF TypeOK, LocksHold
<1>1. /\ UNCHANGED <<debt, amount, alloc, holder, retract>>
      /\ \A q \in Payments : pay'[q] = "posted" <=> pay[q] = "posted"
      /\ \A q \in Payments : pay[q] = "posted" => funds'[q] = funds[q]
      /\ \A q \in Payments \ {p} : tx'[q] = tx[q] /\ pay'[q] = pay[q]
      /\ tx[p].op = "none"
  <2> USE DEF TypeOK, tables, flow, claims
  <2>1. CASE CreatePayment(p)
    BY <1>0, <2>1 DEF CreatePayment, PostOK, ReverseOK, Tx
  <2>2. CASE EditPayment(p)
    BY <2>2 DEF EditPayment, Idle
  <2>3. CASE BeginPost(p)
    BY <2>3 DEF BeginPost, Idle
  <2>4. CASE BeginReverse(p)
    BY <2>4 DEF BeginReverse, Idle
  <2> QED
    BY <2>1, <2>2, <2>3, <2>4 DEF Request
<1>2. \A d \in Debts : Paid(d)' = Paid(d) /\ Paid(d) \in Nat
  BY <1>1, PaidUnchanged, PaidNat
<1>3. ASSUME NEW q \in Payments, tx'[q] = tx[q], q # p \/ tx[q].op = "none"
      PROVE  PostOK(q)' /\ ReverseOK(q)'
  <2>1. PostOK(q) /\ ReverseOK(q)
    BY DEF LocksHold
  <2>2. tx[q].op = "none" \/ pay'[q] = pay[q]
    BY <1>1, <1>3
  <2> QED
    BY <1>0, <1>1, <1>2, <1>3, <2>1, <2>2, Undisturbed
<1>4. PostOK(p)' /\ ReverseOK(p)'
  <2>1. CASE CreatePayment(p) \/ EditPayment(p)
    BY <1>1, <1>3, <2>1 DEF CreatePayment, EditPayment
  <2>2. CASE BeginPost(p)
    <3>1. PICK lines \in Lines :
             Distinct(lines) /\ tx' = [tx EXCEPT ![p] = [NoTx EXCEPT !.op = "post", !.todo = lines]]
      BY <2>2 DEF BeginPost
    <3>2. /\ tx'[p].op = "post" /\ tx'[p].todo = lines /\ tx'[p].done = << >>
          /\ tx'[p].seen = "same" /\ tx'[p].fresh = NoChange
      BY <3>1 DEF TypeOK, NoTx
    <3>3. pay'[p] = "draft"
      BY <2>2 DEF BeginPost, tables
    <3>4. Len(lines) <= MaxLines /\ lines \in Seq(Line)
      BY LinesAreSequences
    <3>5. Distinct(tx[p].done)' /\ Distinct(tx[p].todo)'
      BY <3>1, <3>2 DEF Distinct
    <3>6. Len(tx'[p].done) + Len(tx'[p].todo) <= MaxLines
      <4>1. Len(tx'[p].done) = 0
        BY <3>2
      <4>2. Len(lines) \in Nat /\ MaxLines \in Nat
        BY <3>4
      <4> QED
        BY <3>2, <3>4, <4>1, <4>2
    <3>7. DOMAIN tx'[p].done = {}
      BY <3>2
    <3>8. PostOK(p)'
      BY <3>2, <3>3, <3>5, <3>6, <3>7 DEF PostOK
    <3>9. ReverseOK(p)'
      BY <3>2 DEF ReverseOK, NoChange
    <3> QED
      BY <3>8, <3>9
  <2>3. CASE BeginReverse(p)
    <3>1. /\ tx'[p].op = "reverse" /\ tx'[p].seen = "same" /\ tx'[p].fresh = NoChange
      BY <2>3 DEF BeginReverse, TypeOK, NoTx
    <3>2. pay'[p] = "posted"
      BY <2>3 DEF BeginReverse, tables
    <3>3. PostOK(p)'
      BY <3>1 DEF PostOK
    <3>4. ReverseOK(p)'
      BY <3>1, <3>2 DEF ReverseOK, NoChange
    <3> QED
      BY <3>3, <3>4
  <2> QED
    BY <2>1, <2>2, <2>3 DEF Request
<1>5. AllocationsFit'
  BY <1>1, <1>2 DEF AllocationsFit, Total, PiecesOf
<1>6. PaidDebtStands' /\ DraftsUnpaid'
  BY <1>1, <1>2 DEF PaidDebtStands, DraftsUnpaid
<1>7. LocksHold'
  BY <1>1, <1>3, <1>4 DEF LocksHold
<1> QED
  BY <1>0, <1>5, <1>6, <1>7

\* Steps that change no table but the transaction and the locks of p.
LEMMA InvOfOwnStep ==
    ASSUME Inv, TypeOK', NEW p \in Payments, UNCHANGED <<tables, retract>>,
           \A q \in Payments \ {p} : tx'[q] = tx[q],
           \A q \in Payments \ {p}, d \in Debts : holder[d] = q => holder'[d] = q,
           PostOK(p)', ReverseOK(p)'
    PROVE  Inv'
<1> USE DEF Inv
<1>1. AllocationsFit' /\ PaidDebtStands' /\ DraftsUnpaid' /\ \A d \in Debts : Paid(d)' = Paid(d)
  BY TablesSame
<1>2. ASSUME NEW q \in Payments \ {p} PROVE PostOK(q)' /\ ReverseOK(q)'
  <2>1. PostOK(q) /\ ReverseOK(q)
    BY DEF LocksHold
  <2> QED
    BY <1>1, <2>1, PaidNat, Undisturbed DEF tables
<1> QED
  BY <1>1, <1>2 DEF LocksHold

LEMMA InvOfLockLine ==
    ASSUME Inv, NEW p \in Payments, LockLine(p), ~ Rollback(p)
    PROVE  Inv'
<1> USE DEF Inv
<1> DEFINE line == Head(tx[p].todo)
           todo == tx[p].todo
           done == tx[p].done
           new == [tx[p] EXCEPT !.todo = Tail(@), !.done = Append(@, line)]
<1>0. TypeOK' /\ tx[p] \in Tx /\ PostOK(p) /\ ReverseOK(p)
  BY TypeOfTxSteps DEF TxStep, TypeOK, LocksHold
<1>1. /\ tx' = [tx EXCEPT ![p] = new] /\ holder' = [holder EXCEPT ![line.debt] = p]
      /\ todo # << >> /\ UNCHANGED <<tables, retract>> /\ Mine(p, line.debt) /\ Allocatable(line)
      /\ tx[p].op = "post"
  BY DEF LockLine, flow, claims
<1>2. line \in Line /\ line.debt \in Debts /\ line = todo[1] /\ 1 \in DOMAIN todo
  BY <1>1, HeadLine
<1>3. todo \in Seq(Line) /\ done \in Seq(Line)
  BY <1>0, TxTypes
<1>4. /\ Tail(todo) \in Seq(Line) /\ Len(Tail(todo)) = Len(todo) - 1
      /\ \A i \in DOMAIN Tail(todo) : i + 1 \in DOMAIN todo /\ i + 1 # 1 /\ Tail(todo)[i] = todo[i + 1]
      /\ \A i, j \in DOMAIN Tail(todo) : i + 1 = j + 1 => i = j
  BY <1>1, <1>3, HeadTail
<1>5. /\ Append(done, line) \in Seq(Line) /\ Len(Append(done, line)) = Len(done) + 1
      /\ \A i \in DOMAIN Append(done, line) :
             \/ i \in DOMAIN done /\ Append(done, line)[i] = done[i]
             \/ i = Len(done) + 1 /\ i \notin DOMAIN done /\ Append(done, line)[i] = line
  BY <1>2, <1>3, AppendLast
<1>6. /\ tx'[p].op = "post" /\ tx'[p].todo = Tail(todo) /\ tx'[p].done = Append(done, line)
      /\ tx'[p].seen = tx[p].seen /\ tx'[p].fresh = tx[p].fresh
  BY <1>0, <1>1 DEF TypeOK, Tx
<1>7. /\ pay[p] = "draft" /\ Len(done) + Len(todo) <= MaxLines
      /\ Distinct(done) /\ Distinct(todo)
      /\ \A i \in DOMAIN done, j \in DOMAIN todo : done[i].debt # todo[j].debt
      /\ \A i \in DOMAIN done : holder[done[i].debt] = p /\ Allocatable(done[i])
  BY <1>0, <1>1 DEF PostOK
<1>8. holder'[line.debt] = p /\ \A d \in Debts : holder[d] = p => holder'[d] = p
  BY <1>1, <1>2 DEF TypeOK
<1> HIDE DEF new, todo, done, line
<1>9. \A d \in Debts : Paid(d)' = Paid(d)
  BY <1>1, PaidUnchanged DEF tables
<1>10. ASSUME NEW l \in Line, Allocatable(l) PROVE Allocatable(l)'
  <2>1. l.debt \in Debts
    BY DEF Line
  <2> QED
    BY <1>1, <1>9, <1>10, <2>1 DEF Allocatable, tables
<1>11. PostOK(p)'
  <2>1. Len(Tail(todo)) + Len(Append(done, line)) <= MaxLines
    <3>1. Len(todo) \in Nat /\ Len(done) \in Nat
      BY <1>3
    <3> QED
      BY <3>1, <1>4, <1>5, <1>7
  <2>2. \A i, j \in DOMAIN Tail(todo) : Tail(todo)[i].debt = Tail(todo)[j].debt => i = j
    BY <1>4, <1>7 DEF Distinct
  <2>3. \A i, j \in DOMAIN Append(done, line) :
           Append(done, line)[i].debt = Append(done, line)[j].debt => i = j
    BY <1>2, <1>5, <1>7 DEF Distinct
  <2>4. \A i \in DOMAIN Append(done, line), j \in DOMAIN Tail(todo) :
           Append(done, line)[i].debt # Tail(todo)[j].debt
    <3> SUFFICES ASSUME NEW i \in DOMAIN Append(done, line), NEW j \in DOMAIN Tail(todo)
                 PROVE  Append(done, line)[i].debt # Tail(todo)[j].debt
      OBVIOUS
    <3>1. j + 1 \in DOMAIN todo /\ j + 1 # 1 /\ Tail(todo)[j] = todo[j + 1]
      BY <1>4
    <3>2. line.debt # todo[j + 1].debt
      BY <1>2, <1>7, <3>1 DEF Distinct
    <3>3. \/ i \in DOMAIN done /\ Append(done, line)[i] = done[i]
          \/ Append(done, line)[i] = line
      BY <1>5
    <3> QED
      BY <1>7, <3>1, <3>2, <3>3
  <2>5. ASSUME NEW i \in DOMAIN Append(done, line)
        PROVE  /\ Append(done, line)[i] \in Line
               /\ holder'[Append(done, line)[i].debt] = p /\ Allocatable(Append(done, line)[i])
    <3>1. CASE i \in DOMAIN done /\ Append(done, line)[i] = done[i]
      <4>1. done[i] \in Line
        BY <1>3, <3>1
      <4>2. done[i].debt \in Debts
        BY <4>1 DEF Line
      <4> QED
        BY <1>7, <1>8, <3>1, <4>1, <4>2
    <3>2. CASE Append(done, line)[i] = line
      BY <1>1, <1>2, <1>8, <3>2
    <3> QED
      BY <1>5, <3>1, <3>2
  <2>6. ASSUME NEW i \in DOMAIN tx'[p].done
        PROVE  holder'[tx'[p].done[i].debt] = p /\ Allocatable(tx[p].done[i])'
    <3>1. PICK l \in Line : l = tx'[p].done[i]
      BY <1>6, <2>5
    <3>2. holder'[l.debt] = p /\ Allocatable(l)
      BY <1>6, <2>5, <3>1
    <3>3. Allocatable(l)'
      BY <1>10, <3>2
    <3> QED
      BY <3>1, <3>2, <3>3 DEF Allocatable
  <2>7. \A i \in DOMAIN tx'[p].done :
           holder'[tx'[p].done[i].debt] = p /\ Allocatable(tx[p].done[i])'
    BY <2>6
  <2>8. pay'[p] = "draft" /\ Len(tx'[p].done) + Len(tx'[p].todo) <= MaxLines
    <3>1. pay'[p] = "draft"
      BY <1>1, <1>7 DEF tables
    <3>2. Len(tx'[p].done) = Len(Append(done, line)) /\ Len(tx'[p].todo) = Len(Tail(todo))
      BY <1>6
    <3> DEFINE m == Len(Append(done, line))
               n == Len(Tail(todo))
    <3>3. m \in Nat /\ n \in Nat /\ n + m <= MaxLines /\ MaxLines \in Nat
      BY <1>4, <1>5, <2>1
    <3> HIDE DEF m, n
    <3>4. m + n <= MaxLines
      BY <3>3
    <3>5. Len(tx'[p].done) + Len(tx'[p].todo) <= MaxLines
      BY <3>2, <3>4 DEF m, n
    <3> QED
      BY <3>1, <3>5
  <2>9. Distinct(tx[p].done)' /\ Distinct(tx[p].todo)'
    BY <1>6, <2>2, <2>3 DEF Distinct
  <2>10. \A i \in DOMAIN tx'[p].done, j \in DOMAIN tx'[p].todo :
            tx'[p].done[i].debt # tx'[p].todo[j].debt
    BY <1>6, <2>4
  <2> QED
    BY <2>7, <2>8, <2>9, <2>10 DEF PostOK
<1>12. ReverseOK(p)'
  BY <1>0, <1>1, <1>6, <1>8 DEF ReverseOK
<1>13. \A q \in Payments \ {p} : tx'[q] = tx[q]
  BY <1>1 DEF TypeOK
<1>14. \A q \in Payments \ {p}, d \in Debts : holder[d] = q => holder'[d] = q
  BY <1>1, <1>2 DEF TypeOK, Mine
<1> QED
  BY <1>0, <1>1, <1>11, <1>12, <1>13, <1>14, InvOfOwnStep

LEMMA InvOfLockReceivable ==
    ASSUME Inv, NEW p \in Payments, LockReceivable(p)
    PROVE  Inv'
<1> USE DEF Inv
<1>0. TypeOK' /\ tx[p] \in Tx /\ PostOK(p) /\ ReverseOK(p)
  BY TypeOfTxSteps DEF TxStep, TypeOK, LocksHold
<1> DEFINE d == NextToLock(p)
<1>1. /\ UNCHANGED <<side, tables, tx, flow>> /\ tx[p].op = "reverse"
      /\ holder' = [holder EXCEPT ![d] = p] /\ holder[d] = NoOne
  BY DEF LockReceivable, Free
<1> HIDE DEF d
<1>2. \A e \in Debts : holder[e] \in Payments => holder'[e] = holder[e]
  BY <1>1 DEF TypeOK
<1>3. PostOK(p)' /\ ReverseOK(p)'
  BY <1>0, <1>1, <1>2 DEF PostOK, ReverseOK, tables
<1> QED
  BY <1>0, <1>1, <1>2, <1>3, InvOfOwnStep DEF flow, claims

LEMMA InvOfRefresh ==
    ASSUME Inv, NEW p \in Payments, RefreshRead(p) \/ RefreshWrite(p), ~ Rollback(p)
    PROVE  Inv'
<1> USE DEF Inv
<1>0. TypeOK' /\ tx[p] \in Tx /\ PostOK(p) /\ ReverseOK(p)
  BY TypeOfTxSteps DEF TxStep, TypeOK, LocksHold
<1>1. CASE RefreshRead(p)
  <2> DEFINE d == Head(tx[p].todo).debt
             skip == [tx[p] EXCEPT !.todo = Tail(@)]
             read == [tx[p] EXCEPT !.seen = After(d, PaidWith(p, << >>, d))]
  <2>1. /\ UNCHANGED <<side, tables, holder, flow>> /\ tx[p].op = "reverse"
        /\ tx[p].todo # << >> /\ tx[p].seen = "same"
        /\ tx' = [tx EXCEPT ![p] = skip] \/ tx' = [tx EXCEPT ![p] = read]
    BY <1>1 DEF RefreshRead
  <2>2. After(d, PaidWith(p, << >>, d)) \in Standing
    BY AfterStands
  <2>3. /\ tx'[p].op = "reverse" /\ tx'[p].fresh = tx[p].fresh
        /\ \/ tx'[p].seen = "same"
           \/ tx'[p].seen \in Standing /\ tx'[p].todo # << >>
    <3>1. CASE tx' = [tx EXCEPT ![p] = skip]
      BY <1>0, <2>1, <3>1 DEF TypeOK, Tx
    <3>2. CASE tx' = [tx EXCEPT ![p] = read]
      <4> HIDE DEF d
      <4>1. tx'[p] = read
        BY <3>2 DEF TypeOK
      <4>2. read.op = "reverse" /\ read.fresh = tx[p].fresh /\ read.todo = tx[p].todo
            /\ read.seen = After(d, PaidWith(p, << >>, d))
        BY <1>0, <2>1 DEF Tx
      <4> QED
        BY <2>1, <2>2, <4>1, <4>2
    <3> QED
      BY <2>1, <3>1, <3>2
  <2>4. \A q \in Payments \ {p} : tx'[q] = tx[q]
    BY <2>1 DEF TypeOK
  <2>5. PostOK(p)' /\ ReverseOK(p)'
    BY <1>0, <2>1, <2>3 DEF PostOK, ReverseOK, tables
  <2> QED
    BY <1>0, <2>1, <2>4, <2>5, InvOfOwnStep DEF flow, claims
<1>2. CASE RefreshWrite(p)
  <2> DEFINE d == Head(tx[p].todo).debt
             new == [tx[p] EXCEPT !.todo = Tail(@), !.seen = "same", !.fresh[d] = tx[p].seen]
  <2>1. /\ tx' = [tx EXCEPT ![p] = new] /\ holder' = [holder EXCEPT ![d] = p]
        /\ UNCHANGED <<side, tables, flow>> /\ Mine(p, d)
        /\ tx[p].op = "reverse" /\ tx[p].seen # "same"
    BY <1>2 DEF RefreshWrite
  <2>2. tx[p].todo # << >> /\ tx[p].seen \in Standing
    BY <1>0, <2>1 DEF ReverseOK
  <2>3. d \in Debts
    BY <2>2, HeadLine
  <2>4. tx[p].fresh \in [Debts -> DebtStatus \cup {"same"}]
    BY <1>0, TxTypes
  <2>5. /\ tx'[p].op = "reverse" /\ tx'[p].seen = "same"
        /\ tx'[p].fresh = [tx[p].fresh EXCEPT ![d] = tx[p].seen]
    <3> HIDE DEF d
    <3> QED
      BY <1>0, <2>1 DEF TypeOK, Tx
  <2> HIDE DEF d, new
  <2>6. holder'[d] = p /\ \A e \in Debts \ {d} : holder'[e] = holder[e]
    BY <2>1, <2>3 DEF TypeOK
  <2>7. ReverseOK(p)'
    BY <1>0, <2>1, <2>2, <2>3, <2>4, <2>5, <2>6 DEF ReverseOK, tables
  <2>8. PostOK(p)'
    BY <2>5 DEF PostOK
  <2>9. \A q \in Payments \ {p} : tx'[q] = tx[q]
    BY <2>1 DEF TypeOK
  <2>10. \A q \in Payments \ {p}, e \in Debts : holder[e] = q => holder'[e] = q
    BY <2>1, <2>3, <2>6 DEF Mine
  <2> QED
    BY <1>0, <2>1, <2>7, <2>8, <2>9, <2>10, InvOfOwnStep DEF flow, claims
<1> QED
  BY <1>1, <1>2

\* What a commit of p changes of the sums: nothing on the debts it does not name.
LEMMA CommitSums ==
    ASSUME TypeOK, NEW p \in Payments, NEW status, NEW lines, Committed(p, status, lines),
           pay[p] = "posted" => lines = alloc[p]
    PROVE  \A d \in Debts :
             /\ Paid(d)' = PaidWith(p, IF status = "posted" THEN lines ELSE << >>, d)
             /\ d \notin DebtsOf(lines) => Paid(d)' = Paid(d)
<1> SUFFICES ASSUME NEW d \in Debts
             PROVE  /\ Paid(d)' = PaidWith(p, IF status = "posted" THEN lines ELSE << >>, d)
                    /\ d \notin DebtsOf(lines) => Paid(d)' = Paid(d)
  OBVIOUS
<1>1. Paid(d)' = PaidWith(p, IF status = "posted" THEN lines ELSE << >>, d)
  BY PaidAfter
<1>2. ASSUME d \notin DebtsOf(lines) PROVE Paid(d)' = Paid(d)
  <2>1. DebtsOf(<< >>) = {}
    BY DEF DebtsOf
  <2>2. Cardinality(PiecesOn(lines, d)) = 0 /\ Cardinality(PiecesOn(<< >>, d)) = 0
    BY <1>2, <2>1, NoLine
  <2>3. Paid(d) = PaidWith(p, IF pay[p] = "posted" THEN alloc[p] ELSE << >>, d)
    BY PaidBefore
  <2> QED
    BY <1>1, <2>2, <2>3 DEF PaidWith
<1> QED
  BY <1>1, <1>2

\* What the others hold, a commit of p leaves alone.
LEMMA OthersKept ==
    ASSUME Inv, TypeOK', NEW p \in Payments, NEW status, NEW lines, Committed(p, status, lines),
           \A d \in Debts : holder[d] # p => debt'[d] = debt[d] /\ Paid(d)' <= Paid(d)
    PROVE  LocksHold'
<1> USE DEF Inv
<1>1. /\ tx' = [tx EXCEPT ![p] = NoTx] /\ holder' = Release(p) /\ UNCHANGED amount
      /\ pay' = [pay EXCEPT ![p] = status]
  BY DEF Committed
<1>2. PostOK(p)' /\ ReverseOK(p)'
  BY <1>1 DEF TypeOK, PostOK, ReverseOK, NoTx, NoChange
<1>3. ASSUME NEW q \in Payments \ {p} PROVE PostOK(q)' /\ ReverseOK(q)'
  <2>1. PostOK(q) /\ ReverseOK(q)
    BY DEF LocksHold
  <2>2. tx'[q] = tx[q] /\ pay'[q] = pay[q]
    BY <1>1 DEF TypeOK
  <2>3. \A d \in Debts : holder[d] = q => holder'[d] = q
    BY <1>1, ReleaseType
  <2> QED
    BY <1>1, <2>1, <2>2, <2>3, Undisturbed
<1> QED
  BY <1>2, <1>3 DEF LocksHold

LEMMA InvOfCommitPost ==
    ASSUME Inv, NEW p \in Payments, CommitPost(p), ~ Rollback(p)
    PROVE  Inv'
<1> USE DEF Inv
<1> DEFINE lines == tx[p].done
<1>0. TypeOK' /\ tx[p] \in Tx /\ PostOK(p)
  BY TypeOfTxSteps DEF TxStep, TypeOK, LocksHold
<1>1. /\ tx[p].op = "post" /\ Total(lines) <= funds[p] /\ Committed(p, "posted", lines)
      /\ debt' = [d \in Debts |-> IF d \in DebtsOf(lines)
                                    THEN After(d, PaidWith(p, lines, d)) ELSE debt[d]]
  BY DEF CommitPost
<1>2. /\ pay[p] = "draft" /\ Distinct(lines)
      /\ \A i \in DOMAIN lines : holder[lines[i].debt] = p /\ Allocatable(lines[i])
  BY <1>0, <1>1 DEF PostOK
<1>3. lines \in Seq(Line)
  BY <1>0, TxTypes
<1>4. UNCHANGED <<amount, funds, retract>> /\ pay' = [pay EXCEPT ![p] = "posted"]
      /\ alloc' = [alloc EXCEPT ![p] = lines]
  BY <1>1 DEF Committed
<1>5. lines \in Lines \cup {<< >>}
  BY <1>0, <1>4 DEF TypeOK
<1> HIDE DEF lines
<1>6. \A d \in Debts : /\ Paid(d)' = PaidWith(p, lines, d)
                       /\ d \notin DebtsOf(lines) => Paid(d)' = Paid(d)
  BY <1>1, <1>2, CommitSums
<1>7. ASSUME NEW d \in DebtsOf(lines)
      PROVE  d \in Debts /\ holder[d] = p /\ Paid(d)' <= amount[d]
  <2>1. PICK i \in DOMAIN lines : d = lines[i].debt
    BY DEF DebtsOf
  <2>2. lines[i] \in Line
    BY <1>3
  <2>3. d \in Debts /\ lines[i].amount \in Nat
    BY <2>1, <2>2 DEF Line, Amounts
  <2>4. Allocatable(lines[i]) /\ holder[d] = p
    BY <1>2, <2>1
  <2>5. lines[i].amount <= amount[d] - Paid(d)
    BY <2>1, <2>4 DEF Allocatable
  <2>6. Cardinality(PiecesOn(lines, d)) = lines[i].amount
    BY <1>2, <1>5, <2>1, OneLine
  <2>7. Paid(d) = PaidWith(p, << >>, d)
    BY <1>2, <2>3, PaidBefore
  <2>8. Cardinality(PiecesOn(<< >>, d)) = 0
    BY NoLine DEF DebtsOf
  <2>9. /\ Cardinality(PaidPieces(Payments \ {p}, d)) \in Nat
        /\ amount[d] \in Nat
    BY <2>3, PaidFinite, AmountNat
  <2>10. Paid(d)' = Cardinality(PaidPieces(Payments \ {p}, d)) + lines[i].amount
    BY <1>6, <2>3, <2>6 DEF PaidWith
  <2>11. Paid(d) = Cardinality(PaidPieces(Payments \ {p}, d))
    BY <2>7, <2>8, <2>9 DEF PaidWith
  <2>12. Paid(d)' <= amount[d]
    <3> DEFINE others == Cardinality(PaidPieces(Payments \ {p}, d))
               n == lines[i].amount
    <3>1. others \in Nat /\ n \in Nat /\ amount[d] \in Nat /\ n <= amount[d] - others
      BY <2>3, <2>5, <2>9, <2>11
    <3> HIDE DEF others, n
    <3>2. others + n <= amount[d]
      BY <3>1
    <3> QED
      BY <2>10, <3>2 DEF others, n
  <2> QED
    BY <2>3, <2>4, <2>12
<1>8. \A d \in Debts : Paid(d) \in Nat /\ Paid(d)' \in Nat
  BY PaidNat, PaidNatNext
<1>9. \A d \in Debts : holder[d] # p => debt'[d] = debt[d] /\ Paid(d)' <= Paid(d)
  BY <1>1, <1>6, <1>7, <1>8
<1>10. LocksHold'
  BY <1>0, <1>1, <1>9, OthersKept
<1>11. AllocationsFit'
  <2>1. \A d \in Debts : Paid(d)' <= amount'[d]
    BY <1>4, <1>6, <1>7 DEF AllocationsFit
  <2>2. \A q \in Payments : pay'[q] = "posted" => Total(alloc[q])' <= funds'[q]
    <3>1. \A q \in Payments \ {p} : pay'[q] = pay[q] /\ alloc'[q] = alloc[q]
      BY <1>4 DEF TypeOK
    <3>2. alloc'[p] = lines
      BY <1>4 DEF TypeOK
    <3> QED
      BY <1>1, <1>4, <3>1, <3>2 DEF AllocationsFit, Total, PiecesOf
  <2> QED
    BY <2>1, <2>2 DEF AllocationsFit
<1>12. PaidDebtStands' /\ DraftsUnpaid'
  BY <1>1, <1>4, <1>6, AfterStands DEF PaidDebtStands, DraftsUnpaid, Standing, Open
<1> QED
  BY <1>0, <1>10, <1>11, <1>12

\* Either way of reversing: p holds every debt whose status it changes.
LEMMA InvOfReversal ==
    ASSUME Inv, TypeOK', NEW p \in Payments, pay[p] = "posted",
           Committed(p, "reversed", alloc[p]),
           \A d \in Debts : debt'[d] = debt[d] \/ (holder[d] = p /\ debt'[d] \in Standing)
    PROVE  Inv'
<1> USE DEF Inv
<1>1. /\ UNCHANGED <<amount, funds, retract>> /\ pay' = [pay EXCEPT ![p] = "reversed"]
      /\ alloc' = [alloc EXCEPT ![p] = alloc[p]]
  BY DEF Committed
<1>2. \A d \in Debts : Paid(d)' <= Paid(d) /\ Paid(d) \in Nat /\ Paid(d)' \in Nat
  <2> SUFFICES ASSUME NEW d \in Debts
               PROVE  Paid(d)' <= Paid(d) /\ Paid(d) \in Nat /\ Paid(d)' \in Nat
    OBVIOUS
  <2> DEFINE others == Cardinality(PaidPieces(Payments \ {p}, d))
             mine == Cardinality(PiecesOn(alloc[p], d))
  <2>1. Paid(d)' = PaidWith(p, << >>, d)
    BY CommitSums
  <2>2. Paid(d) = PaidWith(p, alloc[p], d)
    BY PaidBefore
  <2>3. Cardinality(PiecesOn(<< >>, d)) = 0
    BY NoLine DEF DebtsOf
  <2>4. others \in Nat /\ mine \in Nat
    BY PaidFinite, PiecesOnFinite
  <2>5. Paid(d)' = others + 0 /\ Paid(d) = others + mine
    BY <2>1, <2>2, <2>3 DEF PaidWith
  <2> HIDE DEF others, mine
  <2> QED
    BY <2>4, <2>5
<1>3. LocksHold'
  BY <1>2, OthersKept
<1>4. AllocationsFit'
  <2>1. \A d \in Debts : Paid(d)' <= amount'[d]
    BY <1>1, <1>2, AmountNat DEF AllocationsFit
  <2>2. \A q \in Payments : pay'[q] = "posted" => Total(alloc[q])' <= funds'[q]
    <3>1. \A q \in Payments : /\ pay'[q] = "posted" => pay[q] = "posted"
                              /\ alloc'[q] = alloc[q]
      BY <1>1 DEF TypeOK
    <3> QED
      BY <1>1, <3>1 DEF AllocationsFit, Total, PiecesOf
  <2> QED
    BY <2>1, <2>2 DEF AllocationsFit
<1>5. PaidDebtStands' /\ DraftsUnpaid'
  BY <1>1, <1>2 DEF PaidDebtStands, DraftsUnpaid, Standing, Open
<1> QED
  BY <1>3, <1>4, <1>5

LEMMA InvOfCommitReverse ==
    ASSUME Inv, NEW p \in Payments, CommitReverseReceivable(p) \/ CommitReversePayable(p)
    PROVE  Inv'
<1> USE DEF Inv
<1>0. TypeOK' /\ PostOK(p) /\ ReverseOK(p)
  BY TypeOfTxSteps DEF TxStep, LocksHold
<1>1. pay[p] = "posted" /\ Committed(p, "reversed", alloc[p])
  BY <1>0 DEF ReverseOK, CommitReverseReceivable, CommitReversePayable
<1>2. ASSUME NEW d \in Debts
      PROVE  debt'[d] = debt[d] \/ (holder[d] = p /\ debt'[d] \in Standing)
  <2>1. CASE CommitReverseReceivable(p)
    BY <2>1, AfterStands DEF CommitReverseReceivable, AllLocked
  <2>2. CASE CommitReversePayable(p)
    BY <1>0, <2>2 DEF CommitReversePayable, ReverseOK
  <2> QED
    BY <2>1, <2>2
<1> QED
  BY <1>0, <1>1, <1>2, InvOfReversal

LEMMA InvStep == Inv /\ [Next]_vars => Inv'
<1> SUFFICES ASSUME Inv, [Next]_vars PROVE Inv'
  OBVIOUS
<1>1. ASSUME NEW d \in Debts, DebtStep(d) PROVE Inv'
  BY <1>1, InvOfDebtSteps
<1>2. ASSUME NEW d \in Debts, Accrue(d) PROVE Inv'
  BY <1>2, InvOfOthers
<1>3. ASSUME NEW D \in SUBSET Debts, ConfirmDebts(D) PROVE Inv'
  BY <1>3, InvOfConfirm
<1>10. CASE (\E D \in SUBSET Debts : ReadDrafts(D)) \/ ConfirmStatement \/ LeaveStatement
  BY <1>10, InvOfStatement
<1>4. ASSUME NEW p \in Payments, Request(p) PROVE Inv'
  BY <1>4, InvOfRequests
<1>5. ASSUME NEW p \in Payments, TxStep(p) PROVE Inv'
  <2>1. CASE Rollback(p)
    BY <2>1, InvOfRollback
  <2>2. CASE ~ Rollback(p)
    BY <1>5, <2>2, InvOfLockLine, InvOfCommitPost, InvOfLockReceivable, InvOfRefresh,
       InvOfCommitReverse DEF TxStep
  <2> QED
    BY <2>1, <2>2
<1>6. ASSUME NEW p \in Payments, Abort(p) \/ Victim(p) PROVE Inv'
  BY <1>6, InvOfRollback DEF Abort, Victim
<1>7. ASSUME NEW p \in Payments, CashStep(p) PROVE Inv'
  BY <1>7, InvOfOthers
<1>8. CASE Die
  BY <1>8, InvOfOthers
<1>9. CASE UNCHANGED vars
  <2>0. UNCHANGED <<side, tables, tx, holder, flow>>
    BY <1>9 DEF vars
  <2>1. UNCHANGED <<side, debt, amount, pay, funds, alloc, tx, holder, retract>> /\ UNCHANGED tables
    BY <2>0 DEF tables, flow, claims
  <2>2. TypeOK'
    BY <2>0, <2>1 DEF Inv, TypeOK, flow, claims
  <2>3. AllocationsFit' /\ PaidDebtStands' /\ DraftsUnpaid' /\ \A d \in Debts : Paid(d)' = Paid(d)
    BY <2>1, TablesSame DEF Inv
  <2>4. LocksHold'
    BY <2>1, <2>2, <2>3, PaidNat, Undisturbed DEF Inv, LocksHold
  <2> QED
    BY <2>2, <2>3, <2>4 DEF Inv
<1> QED
  BY <1>1, <1>2, <1>3, <1>4, <1>5, <1>6, <1>7, <1>8, <1>9, <1>10 DEF Next

LEMMA SpecInv == Spec => []Inv
BY InvInit, InvStep, PTL DEF Spec

(***************************************************************************)
(* The tables, the transactions and the locks always have their types.     *)
(***************************************************************************)
THEOREM SettlementTypes == Spec => []TypeOK
<1>1. Inv => TypeOK
  BY DEF Inv
<1> QED
  BY <1>1, SpecInv, PTL

(***************************************************************************)
(* No debt is paid beyond its amount and no payment spends more than it    *)
(* has (customer-payment post, supplier-payment post, allocationBalance).  *)
(***************************************************************************)
THEOREM NoOverpayment == Spec => []AllocationsFit
<1>1. Inv => AllocationsFit
  BY DEF Inv
<1> QED
  BY <1>1, SpecInv, PTL

(***************************************************************************)
(* A debt that something has been paid on is never reopened, cancelled,    *)
(* reversed or removed (reopen, cancel, reverse, removeOther): only the    *)
(* reversal of its source document takes it back, when it looked at it     *)
(* while it was an unpaid draft.                                           *)
(***************************************************************************)
THEOREM PaidDebtsStand == Spec => []PaidDebtStands
<1>1. Inv => PaidDebtStands
  BY DEF Inv
<1> QED
  BY <1>1, SpecInv, PTL

-----------------------------------------------------------------------------
LEMMA StatusInit == Init => StatusFollowsPayments
BY DEF Init, StatusFollowsPayments, Standing, Open

\* The status follows when neither it, the amount nor the sum changes.
LEMMA StatusKept ==
    ASSUME StatusFollowsPayments, NEW d \in Debts, d \notin late, side' = "receivable", side = "receivable",
           debt'[d] = debt[d], amount'[d] = amount[d], Paid(d)' = Paid(d), debt'[d] \in Standing
    PROVE  debt'[d] = After(d, Paid(d))'
BY DEF StatusFollowsPayments, After

LEMMA SideKept == [Next]_vars => side' = side
<1> SUFFICES ASSUME [Next]_vars PROVE side' = side
  OBVIOUS
<1>1. ASSUME NEW d \in Debts, DebtStep(d) \/ Accrue(d) PROVE side' = side
  BY <1>1 DEF DebtStep, EditDebt, ReopenDebt, CancelReceivable, ReversePayable, RemoveOther,
     SetDebt, ReadForReversal, Retract, LeaveReversal, Retraction, Accrue, RowsUnchanged
<1>2. ASSUME NEW D \in SUBSET Debts, ConfirmDebts(D) PROVE side' = side
  BY <1>2 DEF ConfirmDebts
<1>8. CASE (\E D \in SUBSET Debts : ReadDrafts(D)) \/ ConfirmStatement \/ LeaveStatement
  BY <1>8 DEF ReadDrafts, ConfirmStatement, LeaveStatement
<1>3. ASSUME NEW p \in Payments, Rollback(p) PROVE side' = side
  BY <1>3 DEF Rollback
<1>4. ASSUME NEW p \in Payments, Request(p) \/ CashStep(p) PROVE side' = side
  BY <1>4 DEF Request, CreatePayment, EditPayment, BeginPost, BeginReverse, CashStep,
     ReadAccruals, WriteCash, ReverseCash, ReverseEntry, RowsUnchanged
<1>5. ASSUME NEW p \in Payments, TxStep(p) PROVE side' = side
  BY <1>3, <1>5 DEF TxStep, LockLine, CommitPost, LockReceivable, CommitReverseReceivable,
     RefreshRead, RefreshWrite, CommitReversePayable, Committed
<1>6. CASE Die
  BY <1>6 DEF Die, RowsUnchanged
<1>7. CASE UNCHANGED vars
  BY <1>7 DEF vars
<1> QED
  BY <1>1, <1>2, <1>3, <1>4, <1>5, <1>6, <1>7, <1>8 DEF Next, Abort, Victim

LEMMA StatusOfCommit ==
    ASSUME Inv, StatusFollowsPayments, NEW p \in Payments, NEW status, NEW lines,
           Committed(p, status, lines), pay[p] = "posted" => lines = alloc[p],
           debt' = [d \in Debts |-> IF d \in DebtsOf(lines)
                                      THEN After(d, PaidWith(p, IF status = "posted" THEN lines ELSE << >>, d))
                                      ELSE debt[d]]
    PROVE  StatusFollowsPayments'
<1> SUFFICES ASSUME side' = "receivable", NEW d \in Debts \ late', debt'[d] \in Standing
             PROVE  debt'[d] = After(d, Paid(d))'
  BY DEF StatusFollowsPayments
<1>1. side = "receivable" /\ amount' = amount /\ (d \in DebtsOf(lines) \/ d \notin late)
  BY DEF Committed
<1>2. /\ Paid(d)' = PaidWith(p, IF status = "posted" THEN lines ELSE << >>, d)
      /\ d \notin DebtsOf(lines) => Paid(d)' = Paid(d)
  BY CommitSums DEF Inv
<1>3. CASE d \in DebtsOf(lines)
  BY <1>1, <1>2, <1>3 DEF After
<1>4. CASE d \notin DebtsOf(lines)
  BY <1>1, <1>2, <1>4, StatusKept
<1> QED
  BY <1>3, <1>4

LEMMA StatusOfSteadySums ==
    ASSUME Inv, StatusFollowsPayments, [Next]_vars,
           alloc' = alloc, \A p \in Payments : pay'[p] = "posted" <=> pay[p] = "posted",
           \A d \in Debts \ late' :
             \/ debt'[d] = debt[d] /\ (amount'[d] = amount[d] \/ debt[d] = "draft") /\ d \notin late
             \/ debt'[d] \notin Standing
             \/ debt[d] = "draft" /\ debt'[d] = "confirmed" /\ amount'[d] = amount[d]
             \/ side = "payable"
    PROVE  StatusFollowsPayments'
<1> SUFFICES ASSUME side' = "receivable", NEW d \in Debts \ late', debt'[d] \in Standing
             PROVE  debt'[d] = After(d, Paid(d))'
  BY DEF StatusFollowsPayments
<1>1. side = "receivable"
  BY SideKept
<1>2. Paid(d)' = Paid(d)
  BY PaidUnchanged
<1>3. CASE debt'[d] = debt[d] /\ amount'[d] = amount[d] /\ d \notin late
  BY <1>1, <1>2, <1>3, StatusKept
<1>4. CASE debt[d] = "draft" /\ debt'[d] = "confirmed" /\ amount'[d] = amount[d]
  <2>1. Paid(d) = 0 /\ amount[d] >= 1 /\ amount[d] \in Nat
    BY <1>4, AmountNat DEF Inv, DraftsUnpaid
  <2> QED
    BY <1>2, <1>4, <2>1 DEF After
<1> QED
  BY <1>1, <1>3, <1>4 DEF Standing, Open

LEMMA StatusStep == Inv /\ StatusFollowsPayments /\ [Next]_vars => StatusFollowsPayments'
<1> SUFFICES ASSUME Inv, StatusFollowsPayments, [Next]_vars PROVE StatusFollowsPayments'
  OBVIOUS
<1>1. ASSUME NEW d \in Debts, DebtStep(d) PROVE StatusFollowsPayments'
  <2>1. /\ UNCHANGED <<pay, alloc, late>>
        /\ \A e \in Debts :
             \/ debt'[e] = debt[e] /\ (amount'[e] = amount[e] \/ debt[e] = "draft")
             \/ debt'[e] \notin Standing
             \/ side = "payable"
    BY <1>1 DEF DebtStep, EditDebt, ReopenDebt, CancelReceivable, ReversePayable, RemoveOther,
       SetDebt, ReadForReversal, Retract, LeaveReversal, Retraction, Inv, TypeOK, Standing, Open,
       flow, claims
  <2> QED
    BY <2>1, StatusOfSteadySums
<1>2. ASSUME NEW D \in SUBSET Debts, ConfirmDebts(D) PROVE StatusFollowsPayments'
  <2>1. /\ UNCHANGED <<pay, alloc, amount, late>>
        /\ \A e \in Debts : debt'[e] = debt[e] \/ (debt[e] = "draft" /\ debt'[e] = "confirmed")
    BY <1>2 DEF ConfirmDebts, Inv, TypeOK, claims
  <2> QED
    BY <2>1, StatusOfSteadySums
<1>12. CASE ConfirmStatement
  <2>1. /\ UNCHANGED <<pay, alloc, amount>>
        /\ \A e \in Debts \ late' :
             \/ debt'[e] = debt[e] /\ e \notin late
             \/ debt[e] = "draft" /\ debt'[e] = "confirmed"
    BY <1>12 DEF ConfirmStatement, Inv, TypeOK
  <2> QED
    BY <2>1, StatusOfSteadySums
<1>3. ASSUME NEW p \in Payments, Request(p) PROVE StatusFollowsPayments'
  <2>1. /\ UNCHANGED <<debt, amount, alloc, late>>
        /\ \A q \in Payments : pay'[q] = "posted" <=> pay[q] = "posted"
    BY <1>3 DEF Request, CreatePayment, EditPayment, BeginPost, BeginReverse, tables, Inv, TypeOK,
       flow, claims
  <2> QED
    BY <2>1, StatusOfSteadySums
<1>4. ASSUME UNCHANGED <<debt, amount, pay, alloc, late>> PROVE StatusFollowsPayments'
  BY <1>4, StatusOfSteadySums
<1>5. ASSUME NEW p \in Payments, CommitPost(p), ~ Rollback(p) PROVE StatusFollowsPayments'
  <2>1. pay[p] = "draft"
    BY <1>5 DEF Inv, LocksHold, PostOK, CommitPost
  <2> DEFINE lines == tx[p].done
  <2>2. /\ Committed(p, "posted", lines)
        /\ debt' = [d \in Debts |-> IF d \in DebtsOf(lines)
                                      THEN After(d, PaidWith(p, lines, d)) ELSE debt[d]]
    BY <1>5 DEF CommitPost
  <2> HIDE DEF lines
  <2> QED
    BY <2>1, <2>2, StatusOfCommit
<1>6. ASSUME NEW p \in Payments, CommitReverseReceivable(p) PROVE StatusFollowsPayments'
  <2>1. /\ Committed(p, "reversed", alloc[p])
        /\ debt' = [d \in Debts |-> IF d \in DebtsOf(alloc[p])
                                      THEN After(d, PaidWith(p, << >>, d)) ELSE debt[d]]
    BY <1>6 DEF CommitReverseReceivable
  <2> QED
    BY <2>1, StatusOfCommit
<1>7. ASSUME NEW p \in Payments, CommitReversePayable(p) PROVE StatusFollowsPayments'
  BY <1>7, SideKept DEF StatusFollowsPayments, CommitReversePayable
<1>8. ASSUME NEW p \in Payments, Rollback(p) PROVE StatusFollowsPayments'
  BY <1>4, <1>8 DEF Rollback, tables, flow, claims
<1>9. ASSUME NEW p \in Payments, TxStep(p) PROVE StatusFollowsPayments'
  BY <1>4, <1>5, <1>6, <1>7, <1>8, <1>9
     DEF TxStep, LockLine, LockReceivable, RefreshRead, RefreshWrite, tables, flow, claims
<1>10. ASSUME (\E d \in Debts : Accrue(d)) \/ (\E p \in Payments : CashStep(p)) \/ Die
       PROVE  StatusFollowsPayments'
  BY <1>4, <1>10, TypeOfOthers DEF Inv, RowsUnchanged, tables, claims
<1>11. CASE UNCHANGED vars
  <2>1. UNCHANGED <<tables, late>>
    BY <1>11 DEF vars, flow, claims
  <2> QED
    BY <1>4, <2>1 DEF tables
<1>13. CASE (\E D \in SUBSET Debts : ReadDrafts(D)) \/ LeaveStatement
  BY <1>4, <1>13 DEF ReadDrafts, LeaveStatement, tables
<1> QED
  BY <1>1, <1>2, <1>3, <1>8, <1>9, <1>10, <1>11, <1>12, <1>13 DEF Next, Abort, Victim

(***************************************************************************)
(* The status of a receivable says how much of it has been paid: two       *)
(* payments that refresh it never leave the older answer.  Only a late     *)
(* statement blurs it, until the next payment or reversal.                 *)
(***************************************************************************)
THEOREM StatusIsCurrent == Spec => []StatusFollowsPayments
BY StatusInit, StatusStep, SpecInv, PTL DEF Spec

-----------------------------------------------------------------------------
(***************************************************************************)
(* The tables implement the ledger: an edit of a draft agrees an amount,   *)
(* everything else settles, if it changes anything.                        *)
(***************************************************************************)
LEMMA LedgerInit == Init => Ledger!Init
<1>1. ASSUME Init PROVE \A d \in Debts : Paid(d) = 0
  <2>1. \A d \in Debts : PaidPieces(Payments, d) = {}
    BY <1>1 DEF Init, PaidPieces
  <2> QED
    BY <2>1, FS_EmptySet DEF Paid
<1> QED
  BY <1>1 DEF Init, Ledger!Init

LEMMA LedgerStep ==
    Inv /\ Inv' /\ [Next]_vars => [Ledger!Next]_<<amount, [d \in Debts |-> Paid(d)]>>
<1> SUFFICES ASSUME Inv, Inv', [Next]_vars
             PROVE  Ledger!Next \/ UNCHANGED <<amount, [d \in Debts |-> Paid(d)]>>
  OBVIOUS
<1>1. ASSUME UNCHANGED amount PROVE Ledger!Next
  <2>1. \A d \in Debts : Paid(d)' \in Nat /\ Paid(d)' <= amount'[d]
    BY PaidNatNext DEF Inv, AllocationsFit
  <2>2. Ledger!Settle
    BY <1>1, <2>1 DEF Ledger!Settle
  <2> QED
    BY <2>2 DEF Ledger!Next
<1>2. ASSUME NEW d \in Debts, EditDebt(d) PROVE Ledger!Next
  <2>1. PICK n \in Amounts : amount' = [amount EXCEPT ![d] = n]
    BY <1>2 DEF EditDebt
  <2>2. UNCHANGED <<pay, alloc>> /\ debt[d] = "draft"
    BY <1>2 DEF EditDebt
  <2>3. Paid(d) = 0
    BY <2>2 DEF Inv, DraftsUnpaid
  <2>4. \A e \in Debts : Paid(e)' = Paid(e)
    BY <2>2, PaidUnchanged
  <2>5. Ledger!Agree(d)
    BY <2>1, <2>3, <2>4 DEF Ledger!Agree
  <2> QED
    BY <2>5 DEF Ledger!Next
<1>3. (\E d \in Debts : EditDebt(d)) \/ UNCHANGED amount
  <2>1. ASSUME NEW d \in Debts, DebtStep(d) \/ Accrue(d) PROVE EditDebt(d) \/ UNCHANGED amount
    BY <2>1 DEF DebtStep, ReopenDebt, CancelReceivable, ReversePayable, RemoveOther, SetDebt,
       ReadForReversal, Retract, LeaveReversal, Retraction, Accrue, RowsUnchanged, tables
  <2>2. ASSUME NEW D \in SUBSET Debts, ConfirmDebts(D) PROVE UNCHANGED amount
    BY <2>2 DEF ConfirmDebts
  <2>8. CASE (\E D \in SUBSET Debts : ReadDrafts(D)) \/ ConfirmStatement \/ LeaveStatement
    BY <2>8 DEF ReadDrafts, ConfirmStatement, LeaveStatement, tables
  <2>3. ASSUME NEW p \in Payments, Rollback(p) PROVE UNCHANGED amount
    BY <2>3 DEF Rollback, tables
  <2>4. ASSUME NEW p \in Payments, Request(p) \/ CashStep(p) PROVE UNCHANGED amount
    BY <2>4 DEF Request, CreatePayment, EditPayment, BeginPost, BeginReverse, CashStep,
       ReadAccruals, WriteCash, ReverseCash, ReverseEntry, RowsUnchanged, tables
  <2>5. ASSUME NEW p \in Payments, TxStep(p) PROVE UNCHANGED amount
    BY <2>3, <2>5 DEF TxStep, LockLine, CommitPost, LockReceivable, CommitReverseReceivable,
       RefreshRead, RefreshWrite, CommitReversePayable, Committed, tables
  <2>6. CASE Die
    BY <2>6 DEF Die, RowsUnchanged, tables
  <2>7. CASE UNCHANGED vars
    BY <2>7 DEF vars, tables
  <2> QED
    BY <2>1, <2>2, <2>3, <2>4, <2>5, <2>6, <2>7, <2>8 DEF Next, Abort, Victim
<1> QED
  BY <1>1, <1>2, <1>3

(***************************************************************************)
(* The tables implement the ledger of DebtLedger: the amount of a debt is  *)
(* agreed while nothing is paid on it, and payments never exceed it.       *)
(***************************************************************************)
THEOREM TablesImplementLedger == Spec => ImplementsDebtLedger
<1>1. Inv /\ Inv' /\ [Next]_vars => [Ledger!Next]_<<amount, [d \in Debts |-> Paid(d)]>>
  BY LedgerStep
<1> QED
  BY <1>1, LedgerInit, SpecInv, PTL DEF Spec, ImplementsDebtLedger, Ledger!Spec
=============================================================================
