----------------------- MODULE WarehouseStock_proofs ------------------------
(***************************************************************************)
(* What the ledger promises and the warehouse therefore keeps: final       *)
(* documents stay final, a receivable follows its outbound, and stock is   *)
(* the sum of the documents, and never negative where the order is locked. *)
(* Then quantities: receipts stay within their inspection, and each        *)
(* outbound notice adds up its outbounds and ships no more than notified.  *)
(***************************************************************************)
EXTENDS WarehouseDocs_proofs

(***************************************************************************)
(* A step of the ledger changes at most one document, and never a final    *)
(* one.                                                                    *)
(***************************************************************************)
Final == {"reversed", "cancelled"}

LEMMA LedgerDocument ==
    ASSUME TypeOK, Ledger!Next
    PROVE  \E d \in Docs :
             /\ \A x \in Docs \ {d} : doc'[x] = doc[x]
             /\ \A o \in Outbounds \ {d} : receivable'[o] = receivable[o]
             /\ doc[d].st \in Final => doc'[d] = doc[d]
<1>0. doc \in [Docs -> DocRow] /\ Outbounds \subseteq Docs
      /\ receivable \in [Outbounds -> {"absent", "draft", "confirmed", "cancelled"}]
  BY DEF TypeOK, Docs
<1>1. ASSUME NEW d \in Docs, Ledger!Draft(d) PROVE \A x \in Docs \ {d} : doc'[x] = doc[x]
  BY <1>0, <1>1 DEF Ledger!Draft
<1>2. ASSUME NEW d \in Docs, NEW st, Ledger!Become(d, st)
      PROVE  \A x \in Docs \ {d} : doc'[x] = doc[x]
  BY <1>0, <1>2 DEF Ledger!Become
<1>3. ASSUME NEW o \in Outbounds, NEW st, Ledger!Owe(o, st)
      PROVE  \A x \in Outbounds \ {o} : receivable'[x] = receivable[x]
  BY <1>0, <1>3 DEF Ledger!Owe
<1>4. CASE \E d \in Docs : Ledger!Draft(d)
  BY <1>1, <1>4 DEF Ledger!Draft, Final
<1>5. CASE \E d \in Docs \ Outbounds : Ledger!Receive(d) \/ Ledger!TakeBack(d)
  BY <1>2, <1>5 DEF Ledger!Receive, Ledger!TakeBack, Final
<1>6. ASSUME NEW o \in Outbounds,
             Ledger!Ship(o) \/ Ledger!Deliver(o) \/ Ledger!Reverse(o) \/ Ledger!Cancel(o)
      PROVE  /\ \A x \in Docs \ {o} : doc'[x] = doc[x]
             /\ \A x \in Outbounds \ {o} : receivable'[x] = receivable[x]
             /\ doc[o].st \notin Final
  BY <1>2, <1>3, <1>0, <1>6
     DEF Ledger!Ship, Ledger!Deliver, Ledger!Reverse, Ledger!Cancel, Final, LiveStatus
<1>7. ASSUME NEW o \in Outbounds, Ledger!Settle(o)
      PROVE  doc' = doc /\ \A x \in Outbounds \ {o} : receivable'[x] = receivable[x]
  BY <1>3, <1>7 DEF Ledger!Settle
<1> QED
  BY <1>0, <1>4, <1>5, <1>6, <1>7 DEF Ledger!Next

(***************************************************************************)
(* Reversed and cancelled documents never change again.                    *)
(***************************************************************************)
THEOREM FinalDocuments == Spec => FinalStaysFinal
<1> DEFINE Keeps == \A d \in Docs : doc[d].st \in {"reversed", "cancelled"} => doc'[d] = doc[d]
<1>1. DocInv /\ [Next]_vars => [Keeps]_vars
  <2> SUFFICES ASSUME DocInv, [Next]_vars PROVE Keeps
    OBVIOUS
  <2>1. CASE Ledger!Next
    BY <2>1, LedgerDocument DEF Final, DocInv, TypeInv
  <2>2. CASE UNCHANGED Ledger!lvars
    BY <2>2 DEF Ledger!lvars
  <2> QED
    BY <2>1, <2>2, LedgerStep
<1> QED
  BY <1>1, DocInvariant, PTL DEF Spec, FinalStaysFinal

-----------------------------------------------------------------------------
\* The status of the document a ledger step changes.
LEMMA BecomeFacts ==
    ASSUME TypeOK, NEW d \in Docs, NEW st, Ledger!Become(d, st)
    PROVE  /\ doc'[d].st = st /\ doc'[d].qty = doc[d].qty /\ doc'[d].cat = doc[d].cat
           /\ \A x \in Docs \ {d} : doc'[x] = doc[x]
<1>1. doc \in [Docs -> DocRow] /\ doc[d] \in DocRow
  BY DEF TypeOK
<1>2. doc' = [doc EXCEPT ![d] = [doc[d] EXCEPT !.st = st]]
  BY <1>1 DEF Ledger!Become
<1>3. \A x \in DocRow : /\ [x EXCEPT !.st = st].st = st
                       /\ [x EXCEPT !.st = st].qty = x.qty
                       /\ [x EXCEPT !.st = st].cat = x.cat
  BY DEF DocRow
<1> QED
  BY <1>1, <1>2, <1>3

LEMMA DraftFacts ==
    ASSUME TypeOK, NEW d \in Docs, Ledger!Draft(d)
    PROVE  /\ doc[d].st = "absent" /\ doc'[d].st = "draft"
           /\ \A x \in Docs \ {d} : doc'[x] = doc[x]
           /\ stock' = stock /\ receivable' = receivable
BY DEF TypeOK, Ledger!Draft

LEMMA OweFacts ==
    ASSUME TypeOK, NEW o \in Outbounds, NEW st, Ledger!Owe(o, st)
    PROVE  receivable'[o] = st /\ \A x \in Outbounds \ {o} : receivable'[x] = receivable[x]
BY DEF TypeOK, Ledger!Owe

LEMMA ReceivableStep ==
    ASSUME TypeOK, ReceivableFollowsOutbound, [Ledger!Next]_(Ledger!lvars)
    PROVE  ReceivableFollowsOutbound'
<1> DEFINE Follows(o) ==
      /\ receivable[o] = "absent" <=> doc[o].st \in {"absent", "draft", "cancelled"}
      /\ doc[o].st = "reversed" => receivable[o] = "cancelled"
<1> SUFFICES ASSUME NEW o \in Outbounds PROVE Follows(o)'
  BY DEF ReceivableFollowsOutbound
<1>0. Follows(o) /\ o \in Docs
  BY DEF ReceivableFollowsOutbound, Docs
<1>1. CASE doc'[o] = doc[o] /\ receivable'[o] = receivable[o]
  BY <1>0, <1>1
<1>2. CASE Ledger!Draft(o)
  BY <1>0, <1>2, DraftFacts
<1>3. CASE Ledger!Ship(o)
  BY <1>0, <1>3, BecomeFacts, OweFacts DEF Ledger!Ship
<1>4. CASE Ledger!Deliver(o)
  BY <1>0, <1>4, BecomeFacts DEF Ledger!Deliver, LiveStatus
<1>5. CASE Ledger!Reverse(o)
  BY <1>0, <1>5, BecomeFacts, OweFacts DEF Ledger!Reverse
<1>6. CASE Ledger!Cancel(o)
  BY <1>0, <1>6, BecomeFacts DEF Ledger!Cancel
<1>7. CASE Ledger!Settle(o)
  BY <1>0, <1>7, OweFacts DEF Ledger!Settle
<1>8. ASSUME NEW d \in Docs \ {o}, Ledger!Draft(d)
      PROVE  doc'[o] = doc[o] /\ receivable'[o] = receivable[o]
  BY <1>0, <1>8, DraftFacts
<1>9. ASSUME NEW d \in Docs \ Outbounds, Ledger!Receive(d) \/ Ledger!TakeBack(d)
      PROVE  doc'[o] = doc[o] /\ receivable'[o] = receivable[o]
  BY <1>0, <1>9, BecomeFacts DEF Ledger!Receive, Ledger!TakeBack
<1>10. ASSUME NEW x \in Outbounds \ {o},
              Ledger!Ship(x) \/ Ledger!Deliver(x) \/ Ledger!Reverse(x)
                \/ Ledger!Cancel(x) \/ Ledger!Settle(x)
       PROVE  doc'[o] = doc[o] /\ receivable'[o] = receivable[o]
  <2>1. x \in Docs
    BY DEF Docs
  <2> QED
    BY <1>0, <1>10, <2>1, BecomeFacts, OweFacts
       DEF Ledger!Ship, Ledger!Deliver, Ledger!Reverse, Ledger!Cancel, Ledger!Settle
<1>11. CASE UNCHANGED Ledger!lvars
  BY <1>0, <1>11 DEF Ledger!lvars
<1> HIDE DEF Follows
<1> QED
  BY <1>1, <1>2, <1>3, <1>4, <1>5, <1>6, <1>7, <1>8, <1>9, <1>10, <1>11 DEF Ledger!Next

(***************************************************************************)
(* A receivable exists exactly while its outbound is, or was, shipped, and *)
(* a reversal always ends it.                                              *)
(***************************************************************************)
THEOREM ReceivablesFollow == Spec => []ReceivableFollowsOutbound
<1>1. Init => ReceivableFollowsOutbound
  BY DEF Init, ReceivableFollowsOutbound, Docs
<1>2. DocInv /\ ReceivableFollowsOutbound /\ [Next]_vars => ReceivableFollowsOutbound'
  BY LedgerStep, ReceivableStep DEF DocInv, TypeInv
<1> QED
  BY <1>1, <1>2, DocInvariant, PTL DEF Spec

-----------------------------------------------------------------------------
(***************************************************************************)
(* Sums of quantities.                                                     *)
(***************************************************************************)
Pieces(rows, S) == {p \in S \X Quantities : p[2] <= rows[p[1]].qty}

LEMMA PiecesFinite ==
    ASSUME NEW rows, NEW S \in SUBSET Docs
    PROVE  IsFiniteSet(Pieces(rows, S))
<1>1. IsFiniteSet(S) /\ IsFiniteSet(Quantities)
  BY FiniteIds, FS_Subset, FS_Interval DEF Quantities
<1>2. IsFiniteSet(S \X Quantities)
  BY <1>1, FS_Product
<1> QED
  BY <1>2, FS_Subset DEF Pieces

\* The sum depends on nothing but the quantities.
LEMMA TotalSame ==
    ASSUME NEW rows, NEW other, NEW S \in SUBSET Docs,
           \A d \in S : rows[d].qty = other[d].qty
    PROVE  Total(rows, S) = Total(other, S)
<1>1. {p \in S \X Quantities : p[2] <= rows[p[1]].qty}
        = {p \in S \X Quantities : p[2] <= other[p[1]].qty}
  OBVIOUS
<1> QED
  BY <1>1 DEF Total

\* The pieces of one document.
LEMMA Slab ==
    ASSUME NEW d, NEW q \in Nat
    PROVE  IsFiniteSet({d} \X (1..q)) /\ Cardinality({d} \X (1..q)) = q
<1>1. IsFiniteSet(1..q) /\ Cardinality(1..q) = q
  <2>1. 1 \in Int /\ q \in Int
    OBVIOUS
  <2>2. IsFiniteSet(1..q) /\ Cardinality(1..q) = IF 1 > q THEN 0 ELSE q - 1 + 1
    BY <2>1, FS_Interval
  <2> QED
    BY <2>2
<1>2. IsFiniteSet({d}) /\ Cardinality({d}) = 1
  BY FS_Singleton
<1>3. Cardinality({d} \X (1..q)) = Cardinality({d}) * Cardinality(1..q)
  BY <1>1, <1>2, FS_Product
<1> QED
  BY <1>1, <1>2, <1>3, FS_Product

\* One more document adds its quantity.
LEMMA TotalAdd ==
    ASSUME NEW rows, NEW S \in SUBSET Docs, NEW d \in Docs \ S,
           rows[d].qty \in Quantities
    PROVE  Total(rows, S \cup {d}) = Total(rows, S) + rows[d].qty
<1> DEFINE P == {d} \X (1..rows[d].qty)
<1>1. rows[d].qty \in Nat /\ rows[d].qty \in 1..MaxQty /\ MaxQty \in Nat
  BY FiniteIds DEF Quantities
<1>2. IsFiniteSet(P) /\ Cardinality(P) = rows[d].qty
  BY <1>1, Slab
<1>3. Pieces(rows, S \cup {d}) = Pieces(rows, S) \cup P
  <2>1. ASSUME NEW p \in Pieces(rows, S \cup {d}) PROVE p \in Pieces(rows, S) \cup P
    <3>1. p \in (S \cup {d}) \X Quantities /\ p[2] <= rows[p[1]].qty
      BY DEF Pieces
    <3>2. CASE p[1] \in S
      BY <3>1, <3>2 DEF Pieces
    <3>3. CASE p[1] = d
      <4>1. p[2] \in 1..rows[d].qty
        BY <1>1, <3>1, <3>3 DEF Quantities
      <4> QED
        BY <3>1, <3>3, <4>1
    <3> QED
      BY <3>1, <3>2, <3>3
  <2>2. ASSUME NEW p \in P PROVE p \in Pieces(rows, S \cup {d})
    BY <1>1 DEF Pieces, Quantities
  <2>3. Pieces(rows, S) \subseteq Pieces(rows, S \cup {d})
    BY DEF Pieces
  <2> QED
    BY <2>1, <2>2, <2>3
<1>4. Pieces(rows, S) \cap P = {}
  BY DEF Pieces
<1>5. IsFiniteSet(Pieces(rows, S)) /\ Cardinality(Pieces(rows, S)) \in Nat
  BY PiecesFinite, FS_CardinalityType
<1> HIDE DEF P
<1>6. Cardinality(Pieces(rows, S) \cup P)
        = Cardinality(Pieces(rows, S)) + rows[d].qty - Cardinality({})
  BY <1>2, <1>4, <1>5, FS_Union
<1>7. Cardinality({}) = 0
  BY FS_EmptySet
<1>8. /\ Total(rows, S) = Cardinality(Pieces(rows, S))
      /\ Total(rows, S \cup {d}) = Cardinality(Pieces(rows, S \cup {d}))
  BY DEF Total, Pieces
<1>9. Cardinality(Pieces(rows, S)) + rows[d].qty - 0 = Total(rows, S) + rows[d].qty
  BY <1>1, <1>5, <1>8
<1> QED
  BY <1>3, <1>6, <1>7, <1>8, <1>9

\* A document joins a sum whose other documents keep their quantities.
LEMMA TotalJoin ==
    ASSUME NEW rows, NEW other, NEW S \in SUBSET Docs, NEW d \in Docs \ S, NEW T, T = S \cup {d},
           rows[d].qty \in Quantities, \A x \in T : rows[x].qty = other[x].qty
    PROVE  /\ Total(other, T) = Total(rows, S) + rows[d].qty
           /\ Total(rows, S) = Total(other, T) - rows[d].qty
<1>1. Total(other, T) = Total(rows, T)
  BY TotalSame
<1>2. Total(rows, T) = Total(rows, S) + rows[d].qty
  BY TotalAdd
<1>3. rows[d].qty \in Nat /\ Total(rows, S) \in Nat
  BY FiniteIds, TotalNat DEF Quantities
<1> QED
  BY <1>1, <1>2, <1>3

LEMMA SumSets ==
    ASSUME NEW c
    PROVE  Incoming(c) \in SUBSET Docs /\ Outgoing(c) \in SUBSET Docs
BY DEF Incoming, Outgoing, InStatus, Docs, Receipts

Balanced(c) == stock[c] = Total(doc, Incoming(c)) - Total(doc, Outgoing(c))

LEMMA BalancedStill ==
    ASSUME NEW c, Balanced(c), stock'[c] = stock[c],
           Incoming(c)' = Incoming(c), Outgoing(c)' = Outgoing(c),
           \A d \in Incoming(c) \cup Outgoing(c) : doc'[d].qty = doc[d].qty
    PROVE  Balanced(c)'
<1>1. Total(doc', Incoming(c)) = Total(doc, Incoming(c))
  BY SumSets, TotalSame
<1>2. Total(doc', Outgoing(c)) = Total(doc, Outgoing(c))
  BY SumSets, TotalSame
<1> QED
  BY <1>1, <1>2 DEF Balanced

\* A document comes in (or, read backwards, is taken back).
LEMMA BalancedMove ==
    ASSUME TypeOK, NEW d \in Docs, NEW c \in Categories, Balanced(c),
           doc'[d].qty = doc[d].qty, \A x \in Docs \ {d} : doc'[x] = doc[x],
           \/ /\ d \notin Incoming(c) /\ Incoming(c)' = Incoming(c) \cup {d}
              /\ Outgoing(c)' = Outgoing(c) /\ stock'[c] = stock[c] + doc[d].qty
           \/ /\ d \notin Incoming(c)' /\ Incoming(c) = Incoming(c)' \cup {d}
              /\ Outgoing(c)' = Outgoing(c) /\ stock'[c] = stock[c] - doc[d].qty
           \/ /\ d \notin Outgoing(c) /\ Outgoing(c)' = Outgoing(c) \cup {d}
              /\ Incoming(c)' = Incoming(c) /\ stock'[c] = stock[c] - doc[d].qty
           \/ /\ d \notin Outgoing(c)' /\ Outgoing(c) = Outgoing(c)' \cup {d}
              /\ Incoming(c)' = Incoming(c) /\ stock'[c] = stock[c] + doc[d].qty
    PROVE  Balanced(c)'
<1> DEFINE I == Incoming(c)
<1> DEFINE O == Outgoing(c)
<1>1. I \in SUBSET Docs /\ O \in SUBSET Docs
  BY SumSets
<1>2. I' \in SUBSET Docs /\ O' \in SUBSET Docs
  BY DEF Incoming, Outgoing, InStatus, Docs, Receipts
<1>3. doc[d].qty \in Quantities /\ doc[d].qty \in Nat /\ stock[c] \in Int
  BY FiniteIds DEF TypeOK, DocRow, Quantities
<1>4. \A x \in Docs : doc'[x].qty = doc[x].qty
  OBVIOUS
<1>5. /\ Total(doc, I) \in Nat /\ Total(doc, O) \in Nat
      /\ Total(doc', I') \in Nat /\ Total(doc', O') \in Nat
  BY <1>1, <1>2, TotalNat
<1>6. I' = I => Total(doc', I') = Total(doc, I)
  BY <1>1, <1>4, TotalSame
<1>7. O' = O => Total(doc', O') = Total(doc, O)
  BY <1>1, <1>4, TotalSame
<1>8. d \notin I /\ I' = I \cup {d} => Total(doc', I') = Total(doc, I) + doc[d].qty
  BY <1>1, <1>2, <1>3, <1>4, TotalJoin
<1>9. d \notin O /\ O' = O \cup {d} => Total(doc', O') = Total(doc, O) + doc[d].qty
  BY <1>1, <1>2, <1>3, <1>4, TotalJoin
<1>10. d \notin I' /\ I = I' \cup {d} => Total(doc', I') = Total(doc, I) - doc[d].qty
  BY <1>1, <1>2, <1>3, <1>4, TotalJoin
<1>11. d \notin O' /\ O = O' \cup {d} => Total(doc', O') = Total(doc, O) - doc[d].qty
  BY <1>1, <1>2, <1>3, <1>4, TotalJoin
<1>12. stock[c] = Total(doc, I) - Total(doc, O)
  BY DEF Balanced
<1> HIDE DEF I, O
<1>13. stock'[c] = Total(doc', I') - Total(doc', O')
  BY <1>3, <1>5, <1>6, <1>7, <1>8, <1>9, <1>10, <1>11, <1>12 DEF I, O
<1> QED
  BY <1>13 DEF Balanced, I, O

LEMMA LedgerSumStep ==
    ASSUME TypeOK, NEW c \in Categories, Balanced(c), [Ledger!Next]_(Ledger!lvars)
    PROVE  Balanced(c)'
<1> USE DEF Incoming, Outgoing, InStatus
<1>0. /\ stock \in [Categories -> Int] /\ "finished_goods" \in Categories
      /\ Receipts \cup Returns = Docs \ Outbounds /\ Outbounds \subseteq Docs
      /\ \A d \in Docs : doc[d].qty \in Nat /\ doc[d].cat \in Categories
  <2>1. \A d \in Docs : doc[d].qty \in Nat /\ doc[d].cat \in Categories
    BY FiniteIds DEF TypeOK, DocRow, Quantities
  <2> QED
    BY <2>1, DistinctIds DEF TypeOK, Docs, Receipts, Categories
<1>1. ASSUME NEW d \in Docs, Ledger!Draft(d) PROVE Balanced(c)'
  BY <1>0, <1>1, DraftFacts, BalancedStill DEF LiveStatus
<1>2. ASSUME NEW d \in Docs \ Outbounds, Ledger!Receive(d) PROVE Balanced(c)'
  <2>1. /\ doc[d].st = "draft" /\ doc'[d].st = "posted"
        /\ doc'[d].qty = doc[d].qty /\ doc'[d].cat = doc[d].cat
        /\ \A x \in Docs \ {d} : doc'[x] = doc[x]
    BY <1>2, BecomeFacts DEF Ledger!Receive
  <2>2. stock' = [stock EXCEPT ![doc[d].cat] = @ + doc[d].qty]
    BY <1>2 DEF Ledger!Receive, Ledger!BringIn, Ledger!Category
  <2>3. Outgoing(c)' = Outgoing(c)
    BY <1>0, <2>1
  <2>4. CASE c = doc[d].cat
    <3>1. Incoming(c)' = Incoming(c) \cup {d} /\ d \notin Incoming(c)
      BY <1>0, <2>1, <2>4
    <3>2. stock'[c] = stock[c] + doc[d].qty
      BY <1>0, <2>2, <2>4
    <3> QED
      BY <2>1, <2>3, <3>1, <3>2, BalancedMove
  <2>5. CASE c # doc[d].cat
    <3>1. Incoming(c)' = Incoming(c)
      BY <1>0, <2>1, <2>5
    <3>2. stock'[c] = stock[c]
      BY <1>0, <2>2, <2>5
    <3> QED
      BY <1>0, <2>1, <2>3, <3>1, <3>2, BalancedStill
  <2> QED
    BY <2>4, <2>5
<1>3. ASSUME NEW d \in Docs \ Outbounds, Ledger!TakeBack(d) PROVE Balanced(c)'
  <2>1. /\ doc[d].st = "posted" /\ doc'[d].st = "reversed"
        /\ doc'[d].qty = doc[d].qty /\ doc'[d].cat = doc[d].cat
        /\ \A x \in Docs \ {d} : doc'[x] = doc[x]
    BY <1>3, BecomeFacts DEF Ledger!TakeBack
  <2>2. stock' = [stock EXCEPT ![doc[d].cat] = @ - doc[d].qty]
    BY <1>3 DEF Ledger!TakeBack, Ledger!TakeOut, Ledger!Category
  <2>3. Outgoing(c)' = Outgoing(c)
    BY <1>0, <2>1
  <2>4. CASE c = doc[d].cat
    <3>1. Incoming(c) = Incoming(c)' \cup {d} /\ d \notin Incoming(c)'
      BY <1>0, <2>1, <2>4
    <3>2. stock'[c] = stock[c] - doc[d].qty
      BY <1>0, <2>2, <2>4
    <3> QED
      BY <2>1, <2>3, <3>1, <3>2, BalancedMove
  <2>5. CASE c # doc[d].cat
    <3>1. Incoming(c)' = Incoming(c)
      BY <1>0, <2>1, <2>5
    <3>2. stock'[c] = stock[c]
      BY <1>0, <2>2, <2>5
    <3> QED
      BY <1>0, <2>1, <2>3, <3>1, <3>2, BalancedStill
  <2> QED
    BY <2>4, <2>5
<1>4. ASSUME NEW o \in Outbounds, Ledger!Ship(o) PROVE Balanced(c)'
  <2>1. /\ o \in Docs /\ doc[o].st = "draft" /\ doc'[o].st = "posted"
        /\ doc'[o].qty = doc[o].qty
        /\ \A x \in Docs \ {o} : doc'[x] = doc[x]
    BY <1>0, <1>4, BecomeFacts DEF Ledger!Ship
  <2>2. stock' = [stock EXCEPT !["finished_goods"] = @ - doc[o].qty]
    BY <1>4 DEF Ledger!Ship, Ledger!TakeOut, Ledger!Category
  <2>3. Incoming(c)' = Incoming(c)
    BY <1>0, <2>1
  <2>4. CASE c = "finished_goods"
    <3>1. Outgoing(c)' = Outgoing(c) \cup {o} /\ o \notin Outgoing(c)
      BY <1>0, <2>1, <2>4 DEF LiveStatus
    <3>2. stock'[c] = stock[c] - doc[o].qty
      BY <1>0, <2>2, <2>4
    <3> QED
      BY <2>1, <2>3, <3>1, <3>2, BalancedMove
  <2>5. CASE c # "finished_goods"
    <3>1. Outgoing(c)' = Outgoing(c)
      BY <2>5
    <3>2. stock'[c] = stock[c]
      BY <1>0, <2>2, <2>5
    <3>3. \A d \in Incoming(c) \cup Outgoing(c) : d \in Docs /\ doc'[d].qty = doc[d].qty
      BY <1>0, <2>1, <2>5
    <3> QED
      BY <2>3, <3>1, <3>2, <3>3, BalancedStill
  <2> QED
    BY <2>4, <2>5
<1>5. ASSUME NEW o \in Outbounds, Ledger!Reverse(o) PROVE Balanced(c)'
  <2>1. /\ o \in Docs /\ doc[o].st \in LiveStatus /\ doc'[o].st = "reversed"
        /\ doc'[o].qty = doc[o].qty
        /\ \A x \in Docs \ {o} : doc'[x] = doc[x]
    BY <1>0, <1>5, BecomeFacts DEF Ledger!Reverse
  <2>2. stock' = [stock EXCEPT !["finished_goods"] = @ + doc[o].qty]
    BY <1>5 DEF Ledger!Reverse, Ledger!BringIn, Ledger!Category
  <2>3. Incoming(c)' = Incoming(c)
    BY <1>0, <2>1
  <2>4. CASE c = "finished_goods"
    <3>1. Outgoing(c) = Outgoing(c)' \cup {o} /\ o \notin Outgoing(c)'
      BY <1>0, <2>1, <2>4 DEF LiveStatus
    <3>2. stock'[c] = stock[c] + doc[o].qty
      BY <1>0, <2>2, <2>4
    <3> QED
      BY <2>1, <2>3, <3>1, <3>2, BalancedMove
  <2>5. CASE c # "finished_goods"
    <3>1. Outgoing(c)' = Outgoing(c)
      BY <2>5
    <3>2. stock'[c] = stock[c]
      BY <1>0, <2>2, <2>5
    <3>3. \A d \in Incoming(c) \cup Outgoing(c) : d \in Docs /\ doc'[d].qty = doc[d].qty
      BY <1>0, <2>1, <2>5
    <3> QED
      BY <2>3, <3>1, <3>2, <3>3, BalancedStill
  <2> QED
    BY <2>4, <2>5
<1>6. ASSUME NEW o \in Outbounds, Ledger!Deliver(o) \/ Ledger!Cancel(o) PROVE Balanced(c)'
  <2>1. /\ o \in Docs /\ doc'[o].qty = doc[o].qty
        /\ doc[o].st \in LiveStatus <=> doc'[o].st \in LiveStatus
        /\ \A x \in Docs \ {o} : doc'[x] = doc[x]
        /\ stock' = stock
    BY <1>0, <1>6, BecomeFacts DEF Ledger!Deliver, Ledger!Cancel, LiveStatus
  <2>2. Incoming(c)' = Incoming(c) /\ Outgoing(c)' = Outgoing(c)
    BY <1>0, <2>1
  <2>3. \A d \in Incoming(c) \cup Outgoing(c) : doc'[d].qty = doc[d].qty
    BY <1>0, <2>1
  <2> QED
    BY <2>1, <2>2, <2>3, BalancedStill
<1>7. CASE UNCHANGED <<doc, stock>>
  BY <1>7, BalancedStill
<1> QED
  BY <1>1, <1>2, <1>3, <1>4, <1>5, <1>6, <1>7 DEF Ledger!Next, Ledger!Settle, Ledger!lvars

(***************************************************************************)
(* Stock is what the posted documents say: nothing is moved twice, and     *)
(* nothing is lost.                                                        *)
(***************************************************************************)
THEOREM LedgerIsRight == Spec => []LedgerMatchesDocuments
<1>1. LedgerMatchesDocuments <=> \A c \in Categories : Balanced(c)
  BY DEF LedgerMatchesDocuments, Balanced
<1>2. Init => LedgerMatchesDocuments
  <2> SUFFICES ASSUME Init, NEW c \in Categories PROVE Balanced(c)
    BY <1>1
  <2>1. Incoming(c) = {} /\ Outgoing(c) = {}
    BY DEF Init, Incoming, Outgoing, InStatus, LiveStatus, Docs, Receipts
  <2>2. Total(doc, {}) = 0
    <3>1. {p \in {} \X Quantities : p[2] <= doc[p[1]].qty} = {}
      OBVIOUS
    <3> QED
      BY <3>1, FS_EmptySet DEF Total
  <2> QED
    BY <2>1, <2>2 DEF Init, Balanced
<1>3. DocInv /\ LedgerMatchesDocuments /\ [Next]_vars => LedgerMatchesDocuments'
  <2> SUFFICES ASSUME DocInv, LedgerMatchesDocuments, [Next]_vars, NEW c \in Categories
               PROVE  Balanced(c)'
    BY <1>1 DEF LedgerMatchesDocuments, Balanced
  <2> QED
    BY <1>1, LedgerStep, LedgerSumStep DEF DocInv, TypeInv
<1> QED
  BY <1>2, <1>3, DocInvariant, PTL DEF Spec

-----------------------------------------------------------------------------
(***************************************************************************)
(* The promise that depends on the production-order lock: as long as only  *)
(* requests that hold it take stock out, stock never goes negative.  The   *)
(* two that take stock out without it are reverseReceipt and reverseReturn *)
(* (the README tells what they can do); the theorem says they are the only *)
(* ones to mend.                                                           *)
(***************************************************************************)
\* A document keeps its quantity from its draft on.
LEMMA QuantityKept ==
    ASSUME DocInv, [Next]_vars, NEW d \in Docs, doc[d].st # "absent"
    PROVE  doc'[d].qty = doc[d].qty
<1>0. TypeOK /\ Outbounds \subseteq Docs
  BY DEF DocInv, TypeInv, Docs
<1>1. [Ledger!Next]_(Ledger!lvars)
  BY LedgerStep
<1>2. ASSUME NEW x \in Docs, Ledger!Draft(x) PROVE doc'[d].qty = doc[d].qty
  BY <1>0, <1>2, DraftFacts
<1>3. ASSUME NEW x \in Docs, NEW st, Ledger!Become(x, st) PROVE doc'[d].qty = doc[d].qty
  <2>1. CASE x = d
    BY <1>0, <1>3, <2>1, BecomeFacts
  <2>2. CASE x # d
    BY <1>0, <1>3, <2>2, BecomeFacts
  <2> QED
    BY <2>1, <2>2
<1>4. CASE \E x \in Docs : Ledger!Draft(x)
  BY <1>2, <1>4
<1>5. CASE \E x \in Docs \ Outbounds : Ledger!Receive(x) \/ Ledger!TakeBack(x)
  BY <1>3, <1>5 DEF Ledger!Receive, Ledger!TakeBack
<1>6. ASSUME NEW o \in Outbounds,
             Ledger!Ship(o) \/ Ledger!Deliver(o) \/ Ledger!Reverse(o) \/ Ledger!Cancel(o)
      PROVE  doc'[d].qty = doc[d].qty
  BY <1>0, <1>3, <1>6 DEF Ledger!Ship, Ledger!Deliver, Ledger!Reverse, Ledger!Cancel
<1>7. ASSUME NEW o \in Outbounds, Ledger!Settle(o) PROVE doc'[d].qty = doc[d].qty
  BY <1>7 DEF Ledger!Settle
<1>8. CASE UNCHANGED Ledger!lvars
  BY <1>8 DEF Ledger!lvars
<1> QED
  BY <1>1, <1>4, <1>5, <1>6, <1>7, <1>8 DEF Ledger!Next

(***************************************************************************)
(* A step that takes no stock and brings nobody to the point of posting an *)
(* outbound.                                                               *)
(***************************************************************************)
Quiet ==
    /\ \A c \in Categories : stock'[c] >= stock[c]
    /\ \A t \in Sessions : \/ req'[t] = req[t]
                           \/ req'[t].op # "postOutbound"
                           \/ req'[t].step = "check"

LEMMA PostingRequest ==
    ASSUME DocInv, NEW t \in Sessions, req[t].op = "postOutbound", req[t].step = "save"
    PROVE  /\ req[t].doc \in Outbounds /\ req[t].doc \in Docs
           /\ doc[req[t].doc].st = "draft" /\ doc[req[t].doc].qty \in Nat
           /\ req[t].held = Len(req[t].plan)
           /\ lock[ProductionOrder] = t
<1>1. req[t].doc \in Outbounds /\ req[t].doc \in Docs
  BY DEF DocInv, TypeInv, Shape, OutboundOps, Docs
<1>2. doc[req[t].doc].st = "draft" /\ req[t].held = Len(req[t].plan)
  BY DEF DocInv, NoStaleDocument, Found, Planned
<1>3. doc[req[t].doc] \in DocRow
  BY <1>1 DEF DocInv, TypeInv, TypeOK
<1>4. doc[req[t].doc].qty \in Nat
  BY <1>3, FiniteIds DEF DocRow, Quantities
<1> QED
  BY <1>1, <1>2, <1>4, HoldsOrder

LEMMA StockInt ==
    ASSUME DocInv, [Next]_vars
    PROVE  \A c \in Categories : stock[c] \in Int /\ stock'[c] \in Int
<1>1. TypeInv'
  BY TypeNext DEF DocInv
<1> QED
  BY <1>1 DEF DocInv, TypeInv, TypeOK

LEMMA QuietCovers ==
    ASSUME DocInv, StockCovers, [Next]_vars, Quiet
    PROVE  StockCovers'
<1>1. NonNegativeStock'
  BY StockInt DEF StockCovers, NonNegativeStock, Quiet
<1>2. ASSUME NEW t \in Sessions PROVE Covered(t)'
  <2> SUFFICES ASSUME req'[t].op = "postOutbound", req'[t].step = "save"
               PROVE  doc'[req'[t].doc].qty <= stock'["finished_goods"]
    BY DEF Covered
  <2>1. req'[t] = req[t]
    BY DEF Quiet
  <2>2. req[t].doc \in Docs /\ doc[req[t].doc].st = "draft" /\ doc[req[t].doc].qty \in Nat
    BY <2>1, PostingRequest
  <2>3. doc'[req[t].doc].qty = doc[req[t].doc].qty
    BY <2>2, QuantityKept
  <2>4. doc[req[t].doc].qty <= stock["finished_goods"]
    BY <2>1 DEF StockCovers, Covered
  <2>5. stock'["finished_goods"] >= stock["finished_goods"]
    BY DEF Quiet, Categories
  <2>6. stock["finished_goods"] \in Int /\ stock'["finished_goods"] \in Int
    BY StockInt DEF Categories
  <2> QED
    BY <2>1, <2>2, <2>3, <2>4, <2>5, <2>6
<1> QED
  BY <1>1, <1>2 DEF StockCovers

-----------------------------------------------------------------------------
(***************************************************************************)
(* The quiet steps.                                                        *)
(***************************************************************************)
LEMMA StockStill ==
    ASSUME TypeOK, stock' = stock
    PROVE  \A c \in Categories : stock'[c] >= stock[c]
BY DEF TypeOK

LEMMA FinishQuiet ==
    ASSUME DocInv, NEW s \in Sessions, Finish(s), \A c \in Categories : stock'[c] >= stock[c]
    PROVE  Quiet
<1>1. Idle.op = "idle"
  BY DEF Idle, NewRequest
<1> QED
  BY <1>1, FinishFacts DEF Quiet

LEMMA RefuseQuiet ==
    ASSUME DocInv, NEW s \in Sessions, Refuse(s)
    PROVE  Quiet
BY FinishQuiet, StockStill DEF Refuse, data, DocInv, TypeInv

LEMMA BeginQuiet ==
    ASSUME DocInv, NEW s \in Sessions, NEW op, NEW d, NEW n, NEW q, NEW plan,
           Begin(s, NewRequest(op, d, n, q, plan))
    PROVE  Quiet
<1>1. NewRequest(op, d, n, q, plan).step = "check"
  BY DEF NewRequest
<1> HIDE DEF NewRequest
<1> QED
  BY <1>1, StockStill DEF Begin, data, Quiet, DocInv, TypeInv, TypeOK

LEMMA ProceedQuiet ==
    ASSUME DocInv, NEW s \in Sessions, NEW st \in {"check", "update", "save"},
           NEW sync \in Sync, Proceed(s, st, sync), req[s].op # "postOutbound"
    PROVE  Quiet
<1>1. req[s] \in Request
  BY DEF DocInv, TypeInv, TypeOK
<1>2. req' = [req EXCEPT ![s] = Stepped(req[s], st, sync)]
  BY DEF Proceed, Stepped
<1>3. Stepped(req[s], st, sync).op = req[s].op
  BY <1>1, ChangedStep
<1> HIDE DEF Stepped
<1> QED
  BY <1>2, <1>3, StockStill DEF Proceed, data, Quiet, DocInv, TypeInv, TypeOK

LEMMA TakeLockQuiet ==
    ASSUME DocInv, NEW s \in Sessions, TakeLock(s)
    PROVE  Quiet
<1>1. req[s] \in Request /\ req[s].held \in Nat
  BY RequestFacts DEF DocInv, TypeInv, TypeOK
<1>2. req[s].step = "check"
  BY <1>1, RequestFacts DEF TakeLock, DocInv, NoStaleDocument, Planned
<1>3. \A r \in Request, h \in Nat : [r EXCEPT !.held = h].step = r.step
  BY DEF Request
<1>4. req' = [req EXCEPT ![s] = [req[s] EXCEPT !.held = req[s].held + 1]]
  BY <1>1 DEF TakeLock, DocInv, TypeInv, TypeOK
<1>5. req'[s].step = "check"
  BY <1>1, <1>2, <1>3, <1>4 DEF DocInv, TypeInv, TypeOK
<1> QED
  BY <1>4, <1>5, StockStill DEF TakeLock, data, Quiet, DocInv, TypeInv, TypeOK

LEMMA StockUp ==
    ASSUME TypeOK, NEW c \in Categories, NEW q \in Nat, stock' = [stock EXCEPT ![c] = @ + q]
    PROVE  \A x \in Categories : stock'[x] >= stock[x]
BY DEF TypeOK

LEMMA QtyNat ==
    ASSUME TypeOK, NEW d \in Docs
    PROVE  doc[d].qty \in Nat /\ doc[d].cat \in Categories
<1>1. doc[d] \in DocRow
  BY DEF TypeOK
<1> QED
  BY <1>1, FiniteIds DEF DocRow, Quantities

LEMMA BeginRequestQuiet ==
    ASSUME DocInv, NEW s \in Sessions, BeginRequest(s)
    PROVE  Quiet
<1> USE DEF NewRequest
<1>1. CASE BeginCreateOutbound(s)
  <2> PICK o \in Outbounds, q \in Quantities :
        Begin(s, [NewRequest("createOutbound", o, NoOne, q, << >>)
                    EXCEPT !.bal = stock["finished_goods"]])
    BY <1>1 DEF BeginCreateOutbound
  <2>1. [NewRequest("createOutbound", o, NoOne, q, << >>)
           EXCEPT !.bal = stock["finished_goods"]].step = "check"
    OBVIOUS
  <2> QED
    BY <2>1, StockStill DEF Begin, data, Quiet, DocInv, TypeInv, TypeOK
<1>2. CASE BeginConfirm(s)
  BY <1>2, StockStill DEF BeginConfirm, Quiet, DocInv, TypeInv, TypeOK
<1> USE BeginQuiet
<1> HIDE DEF NewRequest
<1>3. CASE BeginReceipt(s)
  BY <1>3 DEF BeginReceipt, BeginCreateReceipt, BeginPostReceipt, BeginReverseReceipt
<1>4. CASE BeginCreateNotice(s) \/ BeginCancelNotice(s) \/ BeginFromNotice(s)
  BY <1>4 DEF BeginCreateNotice, BeginCancelNotice, BeginFromNotice
<1>5. CASE BeginCancelOutbound(s) \/ BeginPostOutbound(s)
  BY <1>5 DEF BeginCancelOutbound, BeginPostOutbound
<1>6. CASE BeginCas(s) \/ BeginReverseOutbound(s)
  BY <1>6 DEF BeginCas, BeginReverseOutbound
<1>7. CASE BeginPostReturn(s) \/ BeginReverseReturn(s)
  BY <1>7 DEF BeginPostReturn, BeginReverseReturn
<1> QED
  BY <1>1, <1>2, <1>3, <1>4, <1>5, <1>6, <1>7 DEF BeginRequest

(***************************************************************************)
(* The step that takes stock out.  It holds the production-order lock, so  *)
(* nobody else is at that point.                                           *)
(***************************************************************************)
LEMMA PostingCovers ==
    ASSUME DocInv, StockCovers, [Next]_vars, NEW s \in Sessions, SavePostOutbound(s)
    PROVE  StockCovers'
<1>1. req[s].op = "postOutbound" /\ req[s].step = "save" /\ Finish(s)
  BY DEF SavePostOutbound, At
<1>2. doc[req[s].doc].qty \in Nat /\ lock[ProductionOrder] = s
  BY <1>1, PostingRequest
<1>3. doc[req[s].doc].qty <= stock["finished_goods"]
  BY <1>1 DEF StockCovers, Covered
<1>4. stock' = [stock EXCEPT !["finished_goods"] = @ - doc[req[s].doc].qty]
  BY DEF SavePostOutbound
<1>5. NonNegativeStock'
  BY <1>2, <1>3, <1>4, StockInt
     DEF StockCovers, NonNegativeStock, DocInv, TypeInv, TypeOK
<1>6. ASSUME NEW t \in Sessions PROVE Covered(t)'
  <2>1. CASE t = s
    BY <1>1, <2>1, FinishFacts DEF Covered, Idle, NewRequest
  <2>2. CASE t # s
    <3>1. req'[t] = req[t]
      BY <1>1, <2>2, FinishFacts
    <3>2. ~ (req[t].op = "postOutbound" /\ req[t].step = "save")
      BY <1>2, <2>2, PostingRequest
    <3> QED
      BY <3>1, <3>2 DEF Covered
  <2> QED
    BY <2>1, <2>2
<1> QED
  BY <1>5, <1>6 DEF StockCovers

\* The step that finds the stock there.
LEMMA CheckCovers ==
    ASSUME DocInv, StockCovers, [Next]_vars, NEW s \in Sessions, CheckPostOutbound(s)
    PROVE  StockCovers'
<1>1. CASE Refuse(s)
  BY <1>1, RefuseQuiet, QuietCovers
<1>2. CASE ~ Refuse(s)
  <2> DEFINE sync == SyncNoticeStatus(SetStatus(req[s].doc, "posted"), req[s].notice)
  <2>1. /\ Proceed(s, "save", sync)
        /\ doc[req[s].doc].qty <= stock["finished_goods"]
    BY <1>2 DEF CheckPostOutbound
  <2> HIDE DEF sync
  <2>2. /\ \A t \in Sessions \ {s} : req'[t] = req[t]
        /\ req' = [req EXCEPT ![s] = Stepped(req[s], "save", sync)]
        /\ doc' = doc /\ stock' = stock
    BY <2>1 DEF Proceed, data, Stepped, DocInv, TypeInv, TypeOK
  <2>3. req'[s].doc = req[s].doc
    <3>1. req[s] \in Request
      BY DEF DocInv, TypeInv, TypeOK
    <3>2. Stepped(req[s], "save", sync).doc = req[s].doc
      BY <3>1 DEF Stepped, Request
    <3> QED
      BY <2>2, <3>2 DEF DocInv, TypeInv, TypeOK
  <2>4. NonNegativeStock'
    BY <2>2 DEF StockCovers, NonNegativeStock
  <2>5. \A t \in Sessions : Covered(t)'
    BY <2>1, <2>2, <2>3 DEF StockCovers, Covered
  <2> QED
    BY <2>4, <2>5 DEF StockCovers
<1> QED
  BY <1>1, <1>2

LEMMA ReceiptQuiet ==
    ASSUME DocInv, NEW s \in Sessions, ReceiptStep(s), ~ SaveReverseReceipt(s)
    PROVE  Quiet
<1>0. TypeOK /\ TypeInv
  BY DEF DocInv, TypeInv
<1>1. CASE CheckCreateReceipt(s) \/ CheckPostReceipt(s) \/ CheckReverseReceipt(s)
  <2>1. Refuse(s) \/ \E rows : Proceed(s, "save", SyncFor(req[s].doc, rows))
    BY <1>1 DEF CheckCreateReceipt, CheckPostReceipt, CheckReverseReceipt
  <2>2. req[s].op # "postOutbound"
    BY <1>1 DEF CheckCreateReceipt, CheckPostReceipt, CheckReverseReceipt, At
  <2>3. \A rows : SyncFor(req[s].doc, rows) \in Sync
    BY SyncInShape
  <2> QED
    BY <2>1, <2>2, <2>3, RefuseQuiet, ProceedQuiet
<1>2. CASE SaveCreateReceipt(s)
  BY <1>0, <1>2, StockStill, FinishQuiet DEF SaveCreateReceipt
<1>3. CASE SavePostReceipt(s)
  <2>1. req[s].doc \in Docs
    BY <1>0, <1>3 DEF SavePostReceipt, At, TypeInv, Shape, ReceiptOps, Receipts, Docs
  <2> QED
    BY <1>0, <1>3, <2>1, QtyNat, StockUp, FinishQuiet DEF SavePostReceipt
<1> QED
  BY <1>1, <1>2, <1>3 DEF ReceiptStep

LEMMA ShipmentQuiet ==
    ASSUME DocInv, NEW s \in Sessions, RequestStep(s),
           ~ ReceiptStep(s), ~ SaveReverseReturn(s), ~ TakeLock(s),
           ~ CheckPostOutbound(s), ~ SavePostOutbound(s)
    PROVE  Quiet
<1>0. TypeOK /\ TypeInv
  BY DEF DocInv, TypeInv
<1>1. CASE CountDrafts(s) \/ CheckReservation(s) \/ CheckReverseOutbound(s)
           \/ CheckReverseReturn(s)
  <2>1. Refuse(s) \/ \E st \in {"update", "save"} : Proceed(s, st, Keep)
    BY <1>1 DEF CountDrafts, CheckReservation, CheckReverseOutbound, CheckReverseReturn
  <2>2. req[s].op # "postOutbound" /\ Keep \in Sync
    BY <1>1 DEF CountDrafts, CheckReservation, CheckReverseOutbound, CheckReverseReturn, At,
                Keep, Sync
  <2> QED
    BY <2>1, <2>2, RefuseQuiet, ProceedQuiet
<1>2. CASE CheckCancelOutbound(s)
  <2>1. Refuse(s) \/ \E rows : Proceed(s, "save", SyncNoticeStatus(rows, req[s].notice))
    BY <1>2 DEF CheckCancelOutbound
  <2>2. req[s].op # "postOutbound"
    BY <1>2 DEF CheckCancelOutbound, At
  <2> QED
    BY <2>1, <2>2, SyncShape, RefuseQuiet, ProceedQuiet
<1>3. CASE CommitCreateNotice(s) \/ CommitCancelNotice(s) \/ CommitFromNotice(s)
           \/ AssertStatusTransition(s)
  <2>1. CASE Refuse(s)
    BY <2>1, RefuseQuiet
  <2>2. CASE ~ Refuse(s)
    <3>1. Finish(s)
      BY <1>3, <2>2 DEF CommitCreateNotice, CommitCancelNotice, CommitFromNotice,
                        AssertStatusTransition
    <3>2. stock' = stock
      BY <1>3, <2>2 DEF CommitCreateNotice, CommitCancelNotice, CommitFromNotice,
                        AssertStatusTransition
    <3> QED
      BY <1>0, <3>1, <3>2, FinishQuiet, StockStill
  <2> QED
    BY <2>1, <2>2
<1>4. CASE SaveCreateOutbound(s) \/ SaveCancelOutbound(s) \/ Accrue(s)
  <2>1. Finish(s) /\ stock' = stock
    BY <1>4 DEF SaveCreateOutbound, SaveCancelOutbound, Accrue
  <2> QED
    BY <1>0, <2>1, FinishQuiet, StockStill
<1>5. CASE UpdateReverseOutbound(s)
  <2> DEFINE sync == SyncNoticeStatus(SetStatus(req[s].doc, "reversed"), req[s].notice)
  <2>1. /\ req' = [req EXCEPT ![s] = Stepped(req[s], "save", sync)]
        /\ req[s].op = "reverseOutbound" /\ stock' = stock
    BY <1>5 DEF UpdateReverseOutbound, At, data, Stepped
  <2>2. Stepped(req[s], "save", sync).op = "reverseOutbound"
    BY <1>0, <2>1, SyncShape, ChangedStep DEF TypeOK
  <2> HIDE DEF sync
  <2> QED
    BY <1>0, <2>1, <2>2, StockStill DEF Quiet, TypeOK
<1>6. CASE SaveReverseOutbound(s)
  <2>1. req[s].doc \in Docs
    BY <1>0, <1>6 DEF SaveReverseOutbound, At, TypeInv, Shape, OutboundOps, Docs
  <2> QED
    BY <1>0, <1>6, <2>1, QtyNat, StockUp, FinishQuiet DEF SaveReverseOutbound, Categories
<1>7. CASE CommitPostReturn(s)
  <2>1. req[s].doc \in Docs
    BY <1>0, <1>7 DEF CommitPostReturn, At, TypeInv, Shape, ReturnOps, Docs
  <2>2. CASE Refuse(s)
    BY <2>2, RefuseQuiet
  <2>3. CASE ~ Refuse(s)
    BY <1>0, <1>7, <2>1, <2>3, QtyNat, StockUp, FinishQuiet DEF CommitPostReturn
  <2> QED
    BY <2>2, <2>3
<1> QED
  BY <1>1, <1>2, <1>3, <1>4, <1>5, <1>6, <1>7 DEF RequestStep

LEMMA CoversStep ==
    ASSUME {"reverseReceipt", "reverseReturn"} \cap Endpoints = {},
           DocInv, StockCovers, [Next]_vars
    PROVE  StockCovers'
<1>0. TypeOK
  BY DEF DocInv, TypeInv
<1>1. ASSUME NEW s \in Sessions PROVE ~ SaveReverseReceipt(s) /\ ~ SaveReverseReturn(s)
  <2>1. req[s].op \in Endpoints \cup {"idle"}
    BY <1>0 DEF TypeOK, Request
  <2> QED
    BY <2>1 DEF SaveReverseReceipt, SaveReverseReturn, At
<1>2. ASSUME NEW s \in Sessions, BeginRequest(s) PROVE StockCovers'
  BY <1>2, BeginRequestQuiet, QuietCovers
<1>3. ASSUME NEW s \in Sessions, RequestStep(s) PROVE StockCovers'
  BY <1>1, <1>3, CheckCovers, PostingCovers, TakeLockQuiet, ReceiptQuiet, ShipmentQuiet,
     QuietCovers
<1>4. ASSUME NEW s \in Sessions, Abort(s) PROVE StockCovers'
  BY <1>4, RefuseQuiet, QuietCovers DEF Abort
<1>5. CASE CreateReturn \/ Reopen \/ CancelReceivable
  <2>1. stock' = stock /\ req' = req
    BY <1>5 DEF CreateReturn, Reopen, CancelReceivable
  <2> QED
    BY <1>0, <2>1, StockStill, QuietCovers DEF Quiet
<1>6. CASE UNCHANGED vars
  <2>1. stock' = stock /\ req' = req
    BY <1>6 DEF vars
  <2> QED
    BY <1>0, <2>1, StockStill, QuietCovers DEF Quiet
<1> QED
  BY <1>2, <1>3, <1>4, <1>5, <1>6 DEF Next

(***************************************************************************)
(* Without the two reversals that do not lock the production order, stock  *)
(* is never negative, whatever else the warehouse, sales and finance do at *)
(* the same time.                                                          *)
(***************************************************************************)
THEOREM StockNeverNegative ==
    ASSUME {"reverseReceipt", "reverseReturn"} \cap Endpoints = {}
    PROVE  Spec => []NonNegativeStock
<1>1. Init => StockCovers
  BY DEF Init, StockCovers, NonNegativeStock, Covered, Idle, NewRequest
<1>2. DocInv /\ StockCovers /\ [Next]_vars => StockCovers'
  BY CoversStep
<1>3. StockCovers => NonNegativeStock
  BY DEF StockCovers
<1> QED
  BY <1>1, <1>2, <1>3, DocInvariant, PTL DEF Spec

-----------------------------------------------------------------------------
(***************************************************************************)
(* Who writes what: a document row, a notice row and the request of a      *)
(* session change in a few steps only.                                     *)
(***************************************************************************)
SavesReceipt(s)  == SaveCreateReceipt(s) \/ SavePostReceipt(s) \/ SaveReverseReceipt(s)
SavesOutbound(s) == \/ SaveCreateOutbound(s) \/ CommitFromNotice(s) \/ SaveCancelOutbound(s)
                    \/ SavePostOutbound(s) \/ AssertStatusTransition(s) \/ SaveReverseOutbound(s)
SavesReturn(s)   == CommitPostReturn(s) \/ SaveReverseReturn(s)
SavesNotice(s)   == \/ CommitCreateNotice(s) \/ CommitCancelNotice(s) \/ CommitFromNotice(s)
                    \/ SaveCancelOutbound(s) \/ SavePostOutbound(s) \/ SaveReverseOutbound(s)

LEMMA SavesOwnDocument ==
    ASSUME DocInv, NEW s \in Sessions, SavesReceipt(s) \/ SavesOutbound(s) \/ SavesReturn(s)
    PROVE  /\ \A x \in Docs \ {req[s].doc} : doc'[x] = doc[x]
           /\ SavesReceipt(s)  => req[s].doc \in Receipts
           /\ SavesOutbound(s) => req[s].doc \in Outbounds
           /\ SavesReturn(s)   => req[s].doc \in Returns
<1>0. TypeInv /\ doc \in [Docs -> DocRow]
  BY DEF DocInv, TypeInv, TypeOK
<1>1. ASSUME NEW row, doc' = [doc EXCEPT ![req[s].doc] = row]
      PROVE  \A x \in Docs \ {req[s].doc} : doc'[x] = doc[x]
  BY <1>0, <1>1
<1>2. ASSUME NEW st, doc' = SetStatus(req[s].doc, st)
      PROVE  \A x \in Docs \ {req[s].doc} : doc'[x] = doc[x]
  BY <1>0, <1>2 DEF SetStatus
<1>3. CASE SavesReceipt(s)
  <2>1. req[s].op \in ReceiptOps /\ req[s].op \notin OutboundOps \cup ReturnOps
    BY <1>3 DEF SavesReceipt, SaveCreateReceipt, SavePostReceipt, SaveReverseReceipt, At,
                ReceiptOps, OutboundOps, ReturnOps
  <2>2. ~ SavesOutbound(s) /\ ~ SavesReturn(s)
    BY <2>1 DEF SavesOutbound, SavesReturn, SaveCreateOutbound, CommitFromNotice,
         SaveCancelOutbound, SavePostOutbound, AssertStatusTransition, SaveReverseOutbound,
         CommitPostReturn, SaveReverseReturn, At, OutboundOps, ReturnOps, CasFrom
  <2>3. \A x \in Docs \ {req[s].doc} : doc'[x] = doc[x]
    BY <1>1, <1>2, <1>3 DEF SavesReceipt, SaveCreateReceipt, SavePostReceipt, SaveReverseReceipt
  <2> QED
    BY <1>0, <2>1, <2>2, <2>3, ReceiptRequest
<1>4. CASE SavesOutbound(s)
  <2>1. req[s].op \in OutboundOps /\ req[s].op \notin ReceiptOps \cup ReturnOps
    BY <1>4 DEF SavesOutbound, SaveCreateOutbound, CommitFromNotice,
         SaveCancelOutbound, SavePostOutbound, AssertStatusTransition, SaveReverseOutbound,
         At, ReceiptOps, OutboundOps, ReturnOps, CasFrom
  <2>2. ~ SavesReceipt(s) /\ ~ SavesReturn(s)
    BY <2>1 DEF SavesReceipt, SavesReturn, SaveCreateReceipt, SavePostReceipt,
         SaveReverseReceipt, CommitPostReturn, SaveReverseReturn, At, ReceiptOps, ReturnOps
  <2>3. CASE doc' = doc
    BY <1>0, <2>1, <2>2, <2>3 DEF TypeInv, Shape
  <2>4. CASE doc' # doc
    <3>1. ~ Refuse(s)
      BY <2>4 DEF Refuse, data
    <3>2. \A x \in Docs \ {req[s].doc} : doc'[x] = doc[x]
      BY <1>1, <1>2, <1>4, <3>1
         DEF SavesOutbound, SaveCreateOutbound, CommitFromNotice,
             SaveCancelOutbound, SavePostOutbound, AssertStatusTransition, SaveReverseOutbound
    <3> QED
      BY <1>0, <2>1, <2>2, <3>2 DEF TypeInv, Shape
  <2> QED
    BY <2>3, <2>4
<1>5. CASE SavesReturn(s)
  <2>1. req[s].op \in ReturnOps /\ req[s].op \notin OutboundOps \cup ReceiptOps
    BY <1>5 DEF SavesReturn, CommitPostReturn, SaveReverseReturn, At,
                ReceiptOps, OutboundOps, ReturnOps
  <2>2. ~ SavesOutbound(s) /\ ~ SavesReceipt(s)
    BY <2>1 DEF SavesOutbound, SavesReceipt, SaveCreateOutbound, CommitFromNotice,
         SaveCancelOutbound, SavePostOutbound, AssertStatusTransition, SaveReverseOutbound,
         SaveCreateReceipt, SavePostReceipt, SaveReverseReceipt, At, OutboundOps, ReceiptOps,
         CasFrom
  <2>3. \A x \in Docs \ {req[s].doc} : doc'[x] = doc[x]
    BY <1>1, <1>2, <1>5 DEF SavesReturn, CommitPostReturn, SaveReverseReturn, Refuse, data
  <2> QED
    BY <1>0, <2>1, <2>2, <2>3 DEF TypeInv, Shape
<1> QED
  BY <1>3, <1>4, <1>5

LEMMA DocWriter ==
    ASSUME DocInv, [Next]_vars, doc' # doc
    PROVE  \/ \E s \in Sessions : SavesReceipt(s) \/ SavesOutbound(s) \/ SavesReturn(s)
           \/ CreateReturn
<1> SUFFICES ASSUME ~ CreateReturn
             PROVE  \E s \in Sessions : SavesReceipt(s) \/ SavesOutbound(s) \/ SavesReturn(s)
  OBVIOUS
<1>1. ~ Reopen /\ ~ CancelReceivable /\ ~ UNCHANGED vars
  BY DEF Reopen, CancelReceivable, vars
<1> PICK s \in Sessions : BeginRequest(s) \/ RequestStep(s) \/ Abort(s)
  BY <1>1 DEF Next
<1>2. ~ BeginRequest(s) /\ ~ Abort(s) /\ ~ TakeLock(s)
  BY DEF BeginRequest, BeginReceipt, BeginCreateReceipt, BeginPostReceipt, BeginReverseReceipt,
         BeginCreateNotice, BeginCancelNotice, BeginCreateOutbound, BeginFromNotice,
         BeginCancelOutbound, BeginPostOutbound, BeginCas, BeginReverseOutbound,
         BeginPostReturn, BeginReverseReturn, BeginConfirm, Begin, data, Abort, Refuse, TakeLock
<1>3. /\ ~ CommitCreateNotice(s) /\ ~ CountDrafts(s) /\ ~ CommitCancelNotice(s)
      /\ ~ CheckReservation(s) /\ ~ CheckCancelOutbound(s) /\ ~ CheckPostOutbound(s)
      /\ ~ CheckReverseOutbound(s) /\ ~ UpdateReverseOutbound(s) /\ ~ CheckReverseReturn(s)
      /\ ~ Accrue(s)
  BY DEF CommitCreateNotice, CountDrafts, CommitCancelNotice, CheckReservation,
         CheckCancelOutbound, CheckPostOutbound, CheckReverseOutbound, UpdateReverseOutbound,
         CheckReverseReturn, Accrue, Refuse, Proceed, data
<1>4. ReceiptStep(s) => SavesReceipt(s)
  BY DEF ReceiptStep, SavesReceipt, CheckCreateReceipt, CheckPostReceipt, CheckReverseReceipt,
         Refuse, Proceed, data
<1> QED
  BY <1>2, <1>3, <1>4 DEF RequestStep, SavesOutbound, SavesReturn

LEMMA ReceiptWriter ==
    ASSUME DocInv, [Next]_vars, NEW d \in Receipts, doc'[d] # doc[d]
    PROVE  \E s \in Sessions : req[s].doc = d /\ SavesReceipt(s)
<1>0. d \in Docs /\ d \notin Outbounds \cup Returns
  BY DistinctIds DEF Receipts, Docs
<1>1. ~ CreateReturn
  <2> SUFFICES ASSUME CreateReturn PROVE doc'[d] = doc[d]
    OBVIOUS
  <2>1. doc \in [Docs -> DocRow]
    BY DEF DocInv, TypeInv, TypeOK
  <2> QED
    BY <1>0, <2>1 DEF CreateReturn
<1>2. PICK s \in Sessions : SavesReceipt(s) \/ SavesOutbound(s) \/ SavesReturn(s)
  BY <1>1, DocWriter
<1> QED
  BY <1>0, <1>2, SavesOwnDocument

LEMMA OutboundWriter ==
    ASSUME DocInv, [Next]_vars, NEW d \in Outbounds, doc'[d] # doc[d]
    PROVE  \E s \in Sessions : req[s].doc = d /\ SavesOutbound(s)
<1>0. d \in Docs /\ d \notin Receipts \cup Returns
  BY DistinctIds DEF Receipts, Docs
<1>1. ~ CreateReturn
  <2> SUFFICES ASSUME CreateReturn PROVE doc'[d] = doc[d]
    OBVIOUS
  <2>1. doc \in [Docs -> DocRow]
    BY DEF DocInv, TypeInv, TypeOK
  <2> QED
    BY <1>0, <2>1 DEF CreateReturn
<1>2. PICK s \in Sessions : SavesReceipt(s) \/ SavesOutbound(s) \/ SavesReturn(s)
  BY <1>1, DocWriter
<1> QED
  BY <1>0, <1>2, SavesOwnDocument

LEMMA NoticeWriter ==
    ASSUME [Next]_vars, notice' # notice
    PROVE  \E s \in Sessions : SavesNotice(s)
<1>1. ~ CreateReturn /\ ~ Reopen /\ ~ CancelReceivable /\ ~ UNCHANGED vars
  BY DEF CreateReturn, Reopen, CancelReceivable, vars
<1> PICK s \in Sessions : BeginRequest(s) \/ RequestStep(s) \/ Abort(s)
  BY <1>1 DEF Next
<1>2. ~ BeginRequest(s) /\ ~ Abort(s) /\ ~ TakeLock(s)
  BY DEF BeginRequest, BeginReceipt, BeginCreateReceipt, BeginPostReceipt, BeginReverseReceipt,
         BeginCreateNotice, BeginCancelNotice, BeginCreateOutbound, BeginFromNotice,
         BeginCancelOutbound, BeginPostOutbound, BeginCas, BeginReverseOutbound,
         BeginPostReturn, BeginReverseReturn, BeginConfirm, Begin, data, Abort, Refuse, TakeLock
<1>3. /\ ~ CountDrafts(s) /\ ~ SaveCreateOutbound(s) /\ ~ AssertStatusTransition(s)
      /\ ~ CheckReservation(s) /\ ~ CheckCancelOutbound(s) /\ ~ CheckPostOutbound(s)
      /\ ~ CheckReverseOutbound(s) /\ ~ UpdateReverseOutbound(s) /\ ~ CheckReverseReturn(s)
      /\ ~ Accrue(s) /\ ~ CommitPostReturn(s) /\ ~ SaveReverseReturn(s)
  BY DEF CountDrafts, SaveCreateOutbound, AssertStatusTransition, CheckReservation,
         CheckCancelOutbound, CheckPostOutbound, CheckReverseOutbound, UpdateReverseOutbound,
         CheckReverseReturn, Accrue, CommitPostReturn, SaveReverseReturn, Refuse, Proceed, data
<1>4. ~ ReceiptStep(s)
  BY DEF ReceiptStep, CheckCreateReceipt, CheckPostReceipt, CheckReverseReceipt,
         SaveCreateReceipt, SavePostReceipt, SaveReverseReceipt, Refuse, Proceed, data
<1> QED
  BY <1>2, <1>3, <1>4 DEF RequestStep, SavesNotice

(***************************************************************************)
(* The ways a request moves: it starts, ends, takes its next lock or       *)
(* passes a check.                                                         *)
(***************************************************************************)
Passes(s) == \E step \in {"update", "save"}, sync \in Sync :
                 req' = [req EXCEPT ![s] = Stepped(req[s], step, sync)]

LEMMA StepMoves ==
    ASSUME DocInv, NEW s \in Sessions, RequestStep(s) \/ Abort(s)
    PROVE  TakeLock(s) \/ Finish(s) \/ Passes(s)
<1>1. \A sync \in Sync, step \in {"update", "save"} : Proceed(s, step, sync) => Passes(s)
  BY DEF Proceed, Passes, Stepped
<1>2. Keep \in Sync
  BY DEF Keep, Sync
<1>3. CASE Abort(s)
  BY <1>3 DEF Abort, Refuse
<1>4. CASE ReceiptStep(s)
  <2>1. \A rows : SyncFor(req[s].doc, rows) \in Sync
    BY SyncInShape
  <2> QED
    BY <1>1, <1>4, <2>1 DEF ReceiptStep, CheckCreateReceipt, CheckPostReceipt,
       CheckReverseReceipt, SaveCreateReceipt, SavePostReceipt, SaveReverseReceipt, Refuse
<1>5. CASE CheckCancelOutbound(s) \/ CheckPostOutbound(s)
  <2>1. \A rows : SyncNoticeStatus(rows, req[s].notice) \in Sync
    BY SyncShape
  <2> QED
    BY <1>1, <1>5, <2>1 DEF CheckCancelOutbound, CheckPostOutbound, Refuse
<1>6. CASE UpdateReverseOutbound(s)
  <2>1. SyncNoticeStatus(SetStatus(req[s].doc, "reversed"), req[s].notice) \in Sync
    BY SyncShape
  <2>2. req' = [req EXCEPT ![s] = Stepped(req[s], "save",
                  SyncNoticeStatus(SetStatus(req[s].doc, "reversed"), req[s].notice))]
    BY <1>6 DEF UpdateReverseOutbound, Stepped
  <2> QED
    BY <2>1, <2>2 DEF Passes
<1>7. CASE CountDrafts(s) \/ CheckReservation(s) \/ CheckReverseOutbound(s)
           \/ CheckReverseReturn(s)
  BY <1>1, <1>2, <1>7 DEF CountDrafts, CheckReservation, CheckReverseOutbound,
     CheckReverseReturn, Refuse
<1>8. CASE CommitCreateNotice(s) \/ CommitCancelNotice(s) \/ CommitFromNotice(s)
           \/ SaveCreateOutbound(s) \/ SaveCancelOutbound(s) \/ SavePostOutbound(s)
           \/ AssertStatusTransition(s) \/ SaveReverseOutbound(s)
  BY <1>8 DEF CommitCreateNotice, CommitCancelNotice, CommitFromNotice, SaveCreateOutbound,
     SaveCancelOutbound, SavePostOutbound, AssertStatusTransition, SaveReverseOutbound, Refuse
<1>9. CASE CommitPostReturn(s) \/ SaveReverseReturn(s) \/ Accrue(s)
  BY <1>9 DEF CommitPostReturn, SaveReverseReturn, Accrue, Refuse
<1> QED
  BY <1>3, <1>4, <1>5, <1>6, <1>7, <1>8, <1>9 DEF RequestStep

LEMMA BeginMoves ==
    ASSUME DocInv, NEW s \in Sessions, BeginRequest(s)
    PROVE  /\ \A t \in Sessions \ {s} : req'[t] = req[t]
           /\ req'[s].step = "check"
           /\ doc' = doc /\ notice' = notice /\ inNotice' = inNotice
<1>0. req \in [Sessions -> Request]
  BY DEF DocInv, TypeInv, TypeOK
<1>1. ASSUME NEW r, Begin(s, r)
      PROVE  /\ \A t \in Sessions \ {s} : req'[t] = req[t]
             /\ req'[s] = r
             /\ doc' = doc /\ notice' = notice /\ inNotice' = inNotice
  BY <1>0, <1>1 DEF Begin, data
<1>2. \A op, d, n, q, plan : NewRequest(op, d, n, q, plan).step = "check"
  BY DEF NewRequest
<1>3. CASE BeginCreateOutbound(s)
  <2> PICK o \in Outbounds, q \in Quantities :
        Begin(s, [NewRequest("createOutbound", o, NoOne, q, << >>)
                    EXCEPT !.bal = stock["finished_goods"]])
    BY <1>3 DEF BeginCreateOutbound
  <2>1. [NewRequest("createOutbound", o, NoOne, q, << >>)
           EXCEPT !.bal = stock["finished_goods"]].step = "check"
    BY DEF NewRequest
  <2> QED
    BY <1>1, <2>1
<1>4. CASE BeginConfirm(s)
  BY <1>0, <1>2, <1>4 DEF BeginConfirm
<1>5. CASE ~ BeginCreateOutbound(s) /\ ~ BeginConfirm(s)
  <2>1. \E op, d, n, q, plan : Begin(s, NewRequest(op, d, n, q, plan))
    BY <1>5 DEF BeginRequest, BeginReceipt, BeginCreateReceipt, BeginPostReceipt,
         BeginReverseReceipt, BeginCreateNotice, BeginCancelNotice, BeginFromNotice,
         BeginCancelOutbound, BeginPostOutbound, BeginCas, BeginReverseOutbound,
         BeginPostReturn, BeginReverseReturn
  <2> QED
    BY <1>1, <1>2, <2>1
<1> QED
  BY <1>3, <1>4, <1>5

\* A request belongs to its session.
LEMMA RequestMoves ==
    ASSUME DocInv, [Next]_vars, NEW t \in Sessions, req'[t] # req[t]
    PROVE  /\ BeginRequest(t) \/ RequestStep(t) \/ Abort(t)
           /\ \/ BeginRequest(t)
              \/ req'[t] = Idle
              \/ /\ req'[t].op = req[t].op /\ req'[t].doc = req[t].doc
                 /\ req'[t].notice = req[t].notice /\ req'[t].qty = req[t].qty
                 /\ req'[t].plan = req[t].plan
<1>0. req \in [Sessions -> Request]
  BY DEF DocInv, TypeInv, TypeOK
<1>1. ~ CreateReturn /\ ~ Reopen /\ ~ CancelReceivable /\ ~ UNCHANGED vars
  BY DEF CreateReturn, Reopen, CancelReceivable, vars
<1> PICK s \in Sessions : BeginRequest(s) \/ RequestStep(s) \/ Abort(s)
  BY <1>1 DEF Next
<1>2. CASE BeginRequest(s)
  BY <1>2, BeginMoves
<1>3. CASE RequestStep(s) \/ Abort(s)
  <2>1. CASE TakeLock(s)
    BY <1>0, <1>3, <2>1 DEF TakeLock, Request
  <2>2. CASE Finish(s)
    BY <1>0, <1>3, <2>2 DEF Finish
  <2>3. CASE Passes(s)
    <3> PICK step \in {"update", "save"}, sync \in Sync :
          req' = [req EXCEPT ![s] = Stepped(req[s], step, sync)]
      BY <2>3 DEF Passes
    <3>1. s = t /\ req'[t] = Stepped(req[t], step, sync) /\ req[t] \in Request
      BY <1>0
    <3>2. /\ Stepped(req[t], step, sync).op = req[t].op
          /\ Stepped(req[t], step, sync).doc = req[t].doc
          /\ Stepped(req[t], step, sync).notice = req[t].notice
          /\ Stepped(req[t], step, sync).qty = req[t].qty
          /\ Stepped(req[t], step, sync).plan = req[t].plan
      BY <3>1 DEF Stepped, Request
    <3> QED
      BY <1>3, <3>1, <3>2
  <2> QED
    BY <1>3, <2>1, <2>2, <2>3, StepMoves
<1> QED
  BY <1>2, <1>3

Checks(t) ==
    \/ CheckCreateReceipt(t)   \/ CheckPostReceipt(t)     \/ CheckReverseReceipt(t)
    \/ CountDrafts(t)          \/ CheckReservation(t)     \/ CheckCancelOutbound(t)
    \/ CheckPostOutbound(t)    \/ CheckReverseOutbound(t) \/ UpdateReverseOutbound(t)
    \/ CheckReverseReturn(t)

LEMMA FinishIdles ==
    ASSUME DocInv, NEW s \in Sessions, Finish(s)
    PROVE  req'[s].step = "check" /\ req'[s].op = "idle" /\ req'[s].notice = NoOne
           /\ req'[s].doc = NoOne
<1>1. req'[s] = Idle
  BY DEF Finish, DocInv, TypeInv, TypeOK
<1> QED
  BY <1>1 DEF Idle, NewRequest

\* Whoever is past a check has just passed it or was past it before.
LEMMA PassedCheck ==
    ASSUME DocInv, [Next]_vars, NEW t \in Sessions, req'[t] # req[t], req'[t].step # "check"
    PROVE  /\ Checks(t) /\ ~ Refuse(t)
           /\ doc' = doc /\ notice' = notice /\ inNotice' = inNotice
           /\ req'[t].op = req[t].op /\ req'[t].doc = req[t].doc
           /\ req'[t].notice = req[t].notice /\ req'[t].qty = req[t].qty
<1>1. ~ BeginRequest(t)
  BY BeginMoves
<1>2. RequestStep(t) \/ Abort(t)
  BY <1>1, RequestMoves
<1>3. ~ Finish(t)
  BY FinishIdles
<1>4. ~ TakeLock(t)
  <2> SUFFICES ASSUME TakeLock(t) PROVE req'[t].step = "check"
    OBVIOUS
  <2>1. req'[t].step = req[t].step /\ req[t].held < Len(req[t].plan)
    BY DEF TakeLock, DocInv, TypeInv, TypeOK, Request
  <2>2. req[t].held \in Nat /\ Len(req[t].plan) \in Nat
    BY RequestFacts DEF DocInv
  <2> QED
    BY <2>1, <2>2 DEF DocInv, NoStaleDocument, Planned
<1>5. Checks(t)
  BY <1>2, <1>3, <1>4 DEF Checks, RequestStep, ReceiptStep, Abort, Refuse,
     SaveCreateReceipt, SavePostReceipt, SaveReverseReceipt,
     CommitCreateNotice, CommitCancelNotice, CommitFromNotice, SaveCreateOutbound,
     SaveCancelOutbound, SavePostOutbound, AssertStatusTransition, SaveReverseOutbound,
     CommitPostReturn, SaveReverseReturn, Accrue
<1>6. doc' = doc /\ notice' = notice /\ inNotice' = inNotice
  BY <1>3, <1>5 DEF Checks, CheckCreateReceipt, CheckPostReceipt, CheckReverseReceipt,
     CountDrafts, CheckReservation, CheckCancelOutbound, CheckPostOutbound,
     CheckReverseOutbound, UpdateReverseOutbound, CheckReverseReturn, Proceed, Refuse, data
<1>7. req'[t] # Idle
  BY DEF Idle, NewRequest
<1> QED
  BY <1>1, <1>3, <1>5, <1>6, <1>7, RequestMoves DEF Refuse

\* The step and the row a request carries when it has passed a check.
LEMMA ProceedFacts ==
    ASSUME DocInv, NEW t \in Sessions, NEW step, NEW sync, Proceed(t, step, sync)
    PROVE  req'[t].step = step /\ req'[t].sync = sync
<1>1. req[t] \in Request /\ req' = [req EXCEPT ![t] = Stepped(req[t], step, sync)]
  BY DEF Proceed, Stepped, DocInv, TypeInv, TypeOK
<1>2. Stepped(req[t], step, sync).step = step /\ Stepped(req[t], step, sync).sync = sync
  BY <1>1 DEF Stepped, Request
<1> QED
  BY <1>1, <1>2 DEF DocInv, TypeInv, TypeOK

-----------------------------------------------------------------------------
(***************************************************************************)
(* Receipts stay within quality control.                                   *)
(***************************************************************************)
LEMMA TotalMono ==
    ASSUME NEW rows, NEW other, NEW S \in SUBSET Docs, NEW T \in SUBSET S,
           \A d \in T : other[d].qty = rows[d].qty
    PROVE  Total(other, T) <= Total(rows, S)
<1>1. Pieces(other, T) \subseteq Pieces(rows, S)
  BY DEF Pieces
<1>2. IsFiniteSet(Pieces(rows, S))
  BY PiecesFinite
<1>3. Cardinality(Pieces(other, T)) <= Cardinality(Pieces(rows, S))
  BY <1>1, <1>2, FS_Subset
<1> QED
  BY <1>3 DEF Total, Pieces

Kind(d) == IF d \in Inbounds THEN Inbounds ELSE Defectives
Quota(d) == IF d \in Inbounds THEN QcAccepted ELSE QcRejected
Counted(rows, d) == {x \in InStatus(rows, Kind(d), {"draft", "posted"}) : QcOf[x] = QcOf[d]}

LEMMA AvailableIs ==
    ASSUME NEW d \in Receipts
    PROVE  /\ QcAvailable(d, {}) = Quota(d) - Total(doc, Counted(doc, d))
           /\ Counted(doc, d) \in SUBSET Docs /\ Total(doc, Counted(doc, d)) \in Nat
           /\ Quota(d) \in Nat
<1>1. \A S : S \ {} = S
  OBVIOUS
<1>2. QcAvailable(d, {}) = Quota(d) - Total(doc, Counted(doc, d))
  BY <1>1 DEF QcAvailable, QcUsed, Quota, Counted, Kind
<1>3. Counted(doc, d) \in SUBSET Docs
  BY DEF Counted, InStatus, Kind, Docs
<1>4. Total(doc, Counted(doc, d)) \in Nat
  BY <1>3, TotalNat
<1> QED
  BY <1>2, <1>3, <1>4, FiniteIds DEF Quota

LEMMA AvailableIsNext ==
    ASSUME NEW d \in Receipts
    PROVE  /\ QcAvailable(d, {})' = Quota(d) - Total(doc', Counted(doc', d))
           /\ Counted(doc', d) \in SUBSET Docs /\ Total(doc', Counted(doc', d)) \in Nat
<1>1. \A S : S \ {} = S
  OBVIOUS
<1>2. QcAvailable(d, {})' = Quota(d) - Total(doc', Counted(doc', d))
  BY <1>1 DEF QcAvailable, QcUsed, Quota, Counted, Kind
<1>3. Counted(doc', d) \in SUBSET Docs
  BY DEF Counted, InStatus, Kind, Docs
<1>4. Total(doc', Counted(doc', d)) \in Nat
  BY <1>3, TotalNat
<1> QED
  BY <1>2, <1>3, <1>4

\* A receipt that counts after a step that creates none counted before.
LEMMA NoNewReceipt ==
    ASSUME DocInv, [Next]_vars, NEW d \in Receipts,
           \A s \in Sessions : ~ SaveCreateReceipt(s) \/ req[s].doc # d,
           doc'[d].st \in {"draft", "posted"}
    PROVE  doc[d].st \in {"draft", "posted"} /\ doc'[d].qty = doc[d].qty
<1>0. TypeInv /\ d \in Docs
  BY DEF DocInv, Receipts, Docs
<1>1. doc[d].st \in {"draft", "posted"}
  <2>1. CASE doc'[d] = doc[d]
    BY <2>1
  <2>2. CASE doc'[d] # doc[d]
    <3> PICK s \in Sessions : req[s].doc = d /\ SavesReceipt(s)
      BY <2>2, ReceiptWriter
    <3>1. CASE SavePostReceipt(s)
      BY <3>1 DEF SavePostReceipt, At, DocInv, NoStaleDocument, Found
    <3>2. CASE SaveReverseReceipt(s)
      BY <3>2 DEF SaveReverseReceipt, At, DocInv, NoStaleDocument, Found
    <3> QED
      BY <3>1, <3>2 DEF SavesReceipt
  <2> QED
    BY <2>1, <2>2
<1> QED
  BY <1>0, <1>1, QuantityKept

\* What a record allows shrinks only when a receipt for it is created.
LEMMA AvailableKept ==
    ASSUME DocInv, [Next]_vars, NEW d \in Receipts,
           \A s \in Sessions : ~ SaveCreateReceipt(s) \/ req[s].doc \notin Kind(d)
                                 \/ QcOf[req[s].doc] # QcOf[d]
    PROVE  QcAvailable(d, {})' >= QcAvailable(d, {})
<1>1. ASSUME NEW x \in Counted(doc', d)
      PROVE  x \in Counted(doc, d) /\ doc'[x].qty = doc[x].qty
  <2>1. x \in Receipts /\ x \in Kind(d) /\ QcOf[x] = QcOf[d] /\ doc'[x].st \in {"draft", "posted"}
    BY <1>1 DEF Counted, InStatus, Kind, Receipts
  <2>2. doc[x].st \in {"draft", "posted"} /\ doc'[x].qty = doc[x].qty
    BY <2>1, NoNewReceipt
  <2> QED
    BY <2>1, <2>2 DEF Counted, InStatus
<1>2. Counted(doc', d) \subseteq Counted(doc, d)
  BY <1>1
<1>3. Total(doc', Counted(doc', d)) <= Total(doc, Counted(doc, d))
  BY <1>1, <1>2, AvailableIs, TotalMono
<1> QED
  BY <1>3, AvailableIs, AvailableIsNext

\* Creating a receipt takes its quantity from what its record allows.
LEMMA ReceiptCreated ==
    ASSUME DocInv, [Next]_vars, NEW s \in Sessions, SaveCreateReceipt(s),
           NEW d \in Receipts, req[s].doc \in Kind(d), QcOf[req[s].doc] = QcOf[d]
    PROVE  QcAvailable(d, {})' = QcAvailable(req[s].doc, {}) - req[s].qty
<1> DEFINE e == req[s].doc
<1>0. TypeInv /\ doc \in [Docs -> DocRow] /\ req[s] \in Request
  BY DEF DocInv, TypeInv, TypeOK
<1>1. e \in Receipts /\ e \in Docs /\ doc[e].st = "absent"
  <2>1. req[s].op = "createReceipt"
    BY DEF SaveCreateReceipt, At
  <2> QED
    BY <1>0, <2>1, ReceiptRequest DEF ReceiptOps, DocInv, NoStaleDocument, Creates, Creating
<1>2. Kind(e) = Kind(d) /\ Quota(e) = Quota(d)
  BY DistinctIds DEF Kind, Quota
<1>3. doc' = [doc EXCEPT ![e] = NewReceipt(s)]
  BY DEF SaveCreateReceipt
<1>4. NewReceipt(s).st = "draft" /\ NewReceipt(s).qty = req[s].qty
  <2>1. \A q : \A x \in DocRow : /\ [x EXCEPT !.st = "draft", !.qty = q].st = "draft"
                                 /\ [x EXCEPT !.st = "draft", !.qty = q].qty = q
    BY DEF DocRow
  <2>2. doc[e] \in DocRow
    BY <1>0, <1>1
  <2> QED
    BY <2>1, <2>2 DEF NewReceipt
<1>5. doc'[e].st = "draft" /\ doc'[e].qty = req[s].qty /\ \A x \in Docs \ {e} : doc'[x] = doc[x]
  BY <1>0, <1>1, <1>3, <1>4
<1> DEFINE S == Counted(doc, e)
<1> DEFINE T == Counted(doc', d)
<1>6. S \in SUBSET Docs /\ T \in SUBSET Docs /\ e \notin S
  BY <1>1 DEF Counted, InStatus, Kind, Docs
<1>7. \A x \in Docs : x \in T <=> x \in S \cup {e}
  BY <1>1, <1>2, <1>5 DEF Counted, InStatus
<1>8. T = S \cup {e}
  BY <1>1, <1>6, <1>7
<1>9. req[s].qty \in Quantities
  BY <1>0 DEF Request
<1> HIDE DEF S, T
<1>10. Total(doc', S \cup {e}) = Total(doc', S) + doc'[e].qty
  BY <1>1, <1>5, <1>6, <1>9, TotalAdd
<1>11. Total(doc', S) = Total(doc, S)
  BY <1>5, <1>6, TotalSame
<1>12. QcAvailable(e, {}) = Quota(e) - Total(doc, S) /\ Total(doc, S) \in Nat
       /\ QcAvailable(d, {})' = Quota(d) - Total(doc', T) /\ Quota(e) \in Nat
  BY <1>1, AvailableIs, AvailableIsNext DEF S, T
<1>13. req[s].qty \in Nat
  BY <1>9, FiniteIds DEF Quantities
<1> QED
  BY <1>2, <1>5, <1>8, <1>10, <1>11, <1>12, <1>13

\* Two sessions do not save new receipts for one QC record at a time.
LEMMA OneCreator ==
    ASSUME DocInv, NEW s \in Sessions, NEW t \in Sessions,
           req[s].op \in {"createReceipt", "postReceipt"}, req[s].held = Len(req[s].plan),
           req[t].op \in {"createReceipt", "postReceipt"}, req[t].held = Len(req[t].plan),
           QcOf[req[s].doc] = QcOf[req[t].doc]
    PROVE  s = t
<1>1. ASSUME NEW u \in Sessions, req[u].op \in {"createReceipt", "postReceipt"},
             req[u].held = Len(req[u].plan)
      PROVE  lock[QcOf[req[u].doc]] = u
  <2>1. Planned(req[u]) /\ Holds(u)
    BY DEF DocInv, NoStaleDocument
  <2>2. CASE req[u].op = "createReceipt"
    <3>1. req[u].plan = <<QcOf[req[u].doc]>>
      BY <2>1, <2>2 DEF Planned
    <3> QED
      BY <1>1, <2>1, <3>1 DEF Holds
  <2>3. CASE req[u].op = "postReceipt"
    <3>1. req[u].plan = <<req[u].doc, QcOf[req[u].doc]>>
      BY <2>1, <2>3 DEF Planned
    <3> QED
      BY <1>1, <2>1, <3>1 DEF Holds
  <2> QED
    BY <1>1, <2>2, <2>3
<1> QED
  BY <1>1

LEMMA QcStep ==
    ASSUME DocInv, QcInv, [Next]_vars
    PROVE  QcInv'
<1>0. TypeInv
  BY DEF DocInv
<1>1. ASSUME NEW s \in Sessions, SaveCreateReceipt(s)
      PROVE  /\ req[s].doc \in Receipts /\ req[s].op = "createReceipt" /\ req[s].step = "save"
             /\ req[s].held = Len(req[s].plan)
             /\ req[s].qty <= QcAvailable(req[s].doc, {})
             /\ req[s].qty \in Int /\ QcAvailable(req[s].doc, {}) \in Int
  <2>1. req[s].op = "createReceipt" /\ req[s].step = "save" /\ req[s].held = Len(req[s].plan)
    BY <1>1 DEF SaveCreateReceipt, At
  <2>2. req[s].doc \in Receipts
    BY <1>0, <2>1, ReceiptRequest DEF ReceiptOps
  <2>3. req[s].qty <= QcAvailable(req[s].doc, {})
    BY <2>1 DEF QcInv, Allowed
  <2>4. req[s].qty \in Int
    <3>1. req[s] \in Request
      BY <1>0 DEF TypeInv, TypeOK
    <3> QED
      BY <3>1, FiniteIds DEF Request, Quantities
  <2> QED
    BY <2>1, <2>2, <2>3, <2>4, AvailableIs
<1>2. ASSUME NEW d \in Receipts PROVE QcAvailable(d, {})' >= 0
  <2>1. CASE \E s \in Sessions : /\ SaveCreateReceipt(s) /\ req[s].doc \in Kind(d)
                                 /\ QcOf[req[s].doc] = QcOf[d]
    <3> PICK s \in Sessions : /\ SaveCreateReceipt(s) /\ req[s].doc \in Kind(d)
                              /\ QcOf[req[s].doc] = QcOf[d]
      BY <2>1
    <3>1. QcAvailable(d, {})' = QcAvailable(req[s].doc, {}) - req[s].qty
      BY ReceiptCreated
    <3> QED
      BY <1>1, <3>1
  <2>2. CASE \A s \in Sessions : ~ SaveCreateReceipt(s) \/ req[s].doc \notin Kind(d)
                                   \/ QcOf[req[s].doc] # QcOf[d]
    <3>1. QcAvailable(d, {})' >= QcAvailable(d, {})
      BY <2>2, AvailableKept
    <3>2. QcAvailable(d, {}) >= 0
      BY DEF QcInv, ReceiptsWithinQc
    <3>3. QcAvailable(d, {}) \in Int /\ QcAvailable(d, {})' \in Int
      BY AvailableIs, AvailableIsNext
    <3> QED
      BY <3>1, <3>2, <3>3
  <2> QED
    BY <2>1, <2>2
<1>3. ASSUME NEW t \in Sessions, req'[t].op = "createReceipt", req'[t].step = "save",
             NEW d, d = req'[t].doc
      PROVE  req'[t].qty <= QcAvailable(d, {})'
  <2>1. CASE req'[t] = req[t]
    <3>1. req[t].op = "createReceipt" /\ req[t].step = "save"
      BY <1>3, <2>1
    <3>d. d = req[t].doc
      BY <1>3, <2>1
    <3>2. d \in Receipts /\ req[t].held = Len(req[t].plan)
      BY <1>0, <3>1, <3>d, ReceiptRequest DEF ReceiptOps, DocInv, NoStaleDocument, Planned
    <3>3. req[t].qty <= QcAvailable(d, {})
      BY <3>1, <3>d DEF QcInv, Allowed
    <3>4. \A s \in Sessions : SaveCreateReceipt(s) => QcOf[req[s].doc] # QcOf[d]
      <4> SUFFICES ASSUME NEW s \in Sessions, SaveCreateReceipt(s), QcOf[req[s].doc] = QcOf[d]
                   PROVE  FALSE
        OBVIOUS
      <4>1. s = t
        BY <1>1, <3>1, <3>2, <3>d, OneCreator
      <4>2. Finish(t)
        BY <4>1 DEF SaveCreateReceipt
      <4> QED
        BY <1>3, <4>2, FinishIdles
    <3>5. QcAvailable(d, {})' >= QcAvailable(d, {})
      BY <3>2, <3>4, AvailableKept
    <3>6. QcAvailable(d, {}) \in Int /\ QcAvailable(d, {})' \in Int
      BY <3>2, AvailableIs, AvailableIsNext
    <3>7. req[t].qty \in Int
      <4>1. req[t] \in Request
        BY <1>0 DEF TypeInv, TypeOK
      <4> QED
        BY <4>1, FiniteIds DEF Request, Quantities
    <3> QED
      BY <2>1, <3>3, <3>5, <3>6, <3>7
  <2>2. CASE req'[t] # req[t]
    <3>1. /\ Checks(t) /\ ~ Refuse(t) /\ doc' = doc
          /\ req[t].op = "createReceipt" /\ req'[t].doc = req[t].doc /\ req'[t].qty = req[t].qty
      BY <1>3, <2>2, PassedCheck
    <3>2. CheckCreateReceipt(t)
      BY <3>1 DEF Checks, CheckPostReceipt, CheckReverseReceipt, CountDrafts, CheckReservation,
         CheckCancelOutbound, CheckPostOutbound, CheckReverseOutbound, UpdateReverseOutbound,
         CheckReverseReturn, At
    <3>3. req[t].qty <= QcAvailable(d, {})
      BY <1>3, <3>1, <3>2 DEF CheckCreateReceipt
    <3>4. QcAvailable(d, {}) = QcAvailable(d, {})'
      BY <3>1 DEF QcAvailable, QcUsed, InStatus
    <3> QED
      BY <3>1, <3>3, <3>4
  <2> QED
    BY <2>1, <2>2
<1>4. ReceiptsWithinQc'
  BY <1>2 DEF ReceiptsWithinQc
<1>5. \A t \in Sessions : Allowed(t)'
  BY <1>3 DEF Allowed, QcAvailable, QcUsed
<1> QED
  BY <1>4, <1>5 DEF QcInv

(***************************************************************************)
(* Whatever the warehouse does at the same time, the inbounds (defectives) *)
(* of a QC record never claim more than it accepted (rejected).            *)
(***************************************************************************)
THEOREM ReceiptsStayWithinQc == Spec => []ReceiptsWithinQc
<1>1. Init => QcInv
  <2> SUFFICES ASSUME Init PROVE QcInv
    OBVIOUS
  <2>1. ASSUME NEW d \in Receipts PROVE QcAvailable(d, {}) >= 0
    <3>1. Counted(doc, d) = {}
      BY DEF Init, Counted, InStatus, Kind, Docs
    <3>2. Total(doc, {}) = 0
      <4>1. {p \in {} \X Quantities : p[2] <= doc[p[1]].qty} = {}
        OBVIOUS
      <4> QED
        BY <4>1, FS_EmptySet DEF Total
    <3> QED
      BY <3>1, <3>2, AvailableIs, FiniteIds
  <2>2. \A s \in Sessions : Allowed(s)
    BY DEF Init, Allowed, Idle, NewRequest
  <2> QED
    BY <2>1, <2>2 DEF QcInv, ReceiptsWithinQc
<1>2. DocInv /\ QcInv /\ [Next]_vars => QcInv'
  BY QcStep
<1>3. QcInv => ReceiptsWithinQc
  BY DEF QcInv
<1> QED
  BY <1>1, <1>2, <1>3, DocInvariant, PTL DEF Spec

-----------------------------------------------------------------------------
(***************************************************************************)
(* The outbound notices.                                                   *)
(***************************************************************************)
Live(rows, n)    == OfNotice(rows, n, LiveStatus)
Drafted(rows, n) == OfNotice(rows, n, {"draft"})

LEMMA OfNoticeDocs ==
    ASSUME NEW rows, NEW n
    PROVE  /\ Live(rows, n) \in SUBSET Docs /\ Drafted(rows, n) \in SUBSET Docs
           /\ Total(rows, Live(rows, n)) \in Nat /\ Total(rows, Drafted(rows, n)) \in Nat
<1>1. Live(rows, n) \in SUBSET Docs /\ Drafted(rows, n) \in SUBSET Docs
  BY DEF Live, Drafted, OfNotice, InStatus, Docs
<1> QED
  BY <1>1, TotalNat

LEMMA FiguresAre ==
    ASSUME NEW rows, NEW n, NEW qty
    PROVE  /\ Figures(rows, n, qty).st =
                IF Total(rows, Live(rows, n)) >= qty THEN "completed"
                ELSE IF Total(rows, Drafted(rows, n)) > 0 THEN "outbound_created"
                ELSE IF Total(rows, Live(rows, n)) > 0 THEN "partially_outbound"
                ELSE "pending"
           /\ Figures(rows, n, qty).shipped = Total(rows, Live(rows, n))
           /\ Figures(rows, n, qty).st \in OpenNotice \cup {"completed"}
           /\ Figures(rows, n, qty) = [st |-> Figures(rows, n, qty).st,
                                       shipped |-> Figures(rows, n, qty).shipped]
           /\ Figures(rows, n, qty) # Keep
<1>1. Figures(rows, n, qty).st \in OpenNotice \cup {"completed"}
  BY DEF Figures, OpenNotice
<1>2. Keep.st \notin OpenNotice \cup {"completed"}
  BY DEF Keep, OpenNotice
<1>3. Figures(rows, n, qty) # Keep
  BY <1>1, <1>2
<1> QED
  BY <1>1, <1>3 DEF Figures, Live, Drafted

LEMMA SyncIsFigures ==
    ASSUME NEW rows, NEW n
    PROVE  SyncNoticeStatus(rows, n) = IF n = NoOne \/ notice[n].st = "cancelled"
                                       THEN Keep ELSE Figures(rows, n, notice[n].qty)
BY DEF SyncNoticeStatus, Figures

(***************************************************************************)
(* Two states of the outbounds that mean the same to a notice.             *)
(***************************************************************************)
SameOf(rows, other, n) ==
    \A o \in Outbounds :
        /\ o \in Live(other, n) <=> o \in Live(rows, n)
        /\ o \in Drafted(other, n) <=> o \in Drafted(rows, n)
        /\ o \in Live(rows, n) \cup Drafted(rows, n) => other[o].qty = rows[o].qty

LEMMA SameFigures ==
    ASSUME NEW rows, NEW other, NEW n, SameOf(rows, other, n)
    PROVE  /\ Drafted(other, n) = Drafted(rows, n)
           /\ Total(other, Live(other, n)) = Total(rows, Live(rows, n))
           /\ Total(other, Drafted(other, n)) = Total(rows, Drafted(rows, n))
           /\ \A qty : Figures(other, n, qty) = Figures(rows, n, qty)
<1>0. /\ Live(rows, n) \subseteq Outbounds /\ Live(other, n) \subseteq Outbounds
      /\ Drafted(rows, n) \subseteq Outbounds /\ Drafted(other, n) \subseteq Outbounds
  BY DEF Live, Drafted, OfNotice, InStatus
<1>1. Live(other, n) = Live(rows, n) /\ Drafted(other, n) = Drafted(rows, n)
  BY <1>0 DEF SameOf
<1>2. \A o \in Live(rows, n) \cup Drafted(rows, n) : rows[o].qty = other[o].qty
  BY <1>0 DEF SameOf
<1>3. Total(rows, Live(rows, n)) = Total(other, Live(rows, n))
  BY <1>2, OfNoticeDocs, TotalSame
<1>4. Total(rows, Drafted(rows, n)) = Total(other, Drafted(rows, n))
  BY <1>2, OfNoticeDocs, TotalSame
<1>5. \A qty : Figures(other, n, qty) = Figures(rows, n, qty)
  BY <1>1, <1>3, <1>4 DEF Figures, Live, Drafted
<1> QED
  BY <1>1, <1>3, <1>4, <1>5

\* A notice nobody writes and whose outbounds mean the same stays right.
LEMMA NoticeStill ==
    ASSUME NEW n \in Notices, NoticeRight(n), SameOf(doc, doc', n), notice'[n] = notice[n],
           notice[n].st = "absent" => \A o \in Outbounds : doc'[o].notice = n => doc[o].notice = n
    PROVE  NoticeRight(n)'
<1>1. /\ Drafted(doc', n) = Drafted(doc, n)
      /\ Total(doc', Live(doc', n)) = Total(doc, Live(doc, n))
      /\ Total(doc', Drafted(doc', n)) = Total(doc, Drafted(doc, n))
      /\ Figures(doc', n, notice[n].qty) = Figures(doc, n, notice[n].qty)
  BY SameFigures
<1> QED
  BY <1>1 DEF NoticeRight, Live, Drafted

LEMMA SameRows ==
    ASSUME \A o \in Outbounds : doc'[o] = doc[o], NEW n
    PROVE  SameOf(doc, doc', n)
BY DEF SameOf, Live, Drafted, OfNotice, InStatus

-----------------------------------------------------------------------------
(***************************************************************************)
(* How the outbounds change.                                               *)
(***************************************************************************)
LEMMA ChangedStatus ==
    ASSUME TypeInv, NEW o \in Outbounds, NEW st
    PROVE  /\ SetStatus(o, st)[o].st = st
           /\ SetStatus(o, st)[o].qty = doc[o].qty /\ SetStatus(o, st)[o].notice = doc[o].notice
           /\ \A x \in Docs \ {o} : SetStatus(o, st)[x] = doc[x]
<1>1. doc \in [Docs -> DocRow] /\ o \in Docs /\ doc[o] \in DocRow
  BY DEF TypeInv, TypeOK, Docs
<1>2. SetStatus(o, st) = [doc EXCEPT ![o] = [doc[o] EXCEPT !.st = st]]
  BY <1>1 DEF SetStatus
<1>3. \A x \in DocRow : /\ [x EXCEPT !.st = st].st = st
                       /\ [x EXCEPT !.st = st].qty = x.qty
                       /\ [x EXCEPT !.st = st].notice = x.notice
  BY DEF DocRow
<1> QED
  BY <1>1, <1>2, <1>3

\* A new outbound is the draft its request asked for.
LEMMA OutboundCreated ==
    ASSUME DocInv, NEW s \in Sessions,
           \/ SaveCreateOutbound(s)
           \/ CommitFromNotice(s) /\ ~ Refuse(s)
    PROVE  LET o == req[s].doc
           IN  /\ o \in Outbounds /\ o \in Docs /\ doc[o].st = "absent"
               /\ doc' = [doc EXCEPT ![o] = NewOutbound(s)]
               /\ doc'[o].st = "draft" /\ doc'[o].qty = req[s].qty
               /\ doc'[o].notice = req[s].notice
               /\ \A x \in Docs \ {o} : doc'[x] = doc[x]
               /\ req[s].qty \in Quantities
<1> DEFINE o == req[s].doc
<1>0. doc \in [Docs -> DocRow] /\ req[s] \in Request /\ TypeInv
  BY DEF DocInv, TypeInv, TypeOK
<1>1. o \in Outbounds /\ o \in Docs /\ doc[o].st = "absent"
  <2>1. req[s].op \in {"createOutbound", "createOutboundFromNotice"}
    BY DEF SaveCreateOutbound, CommitFromNotice, At
  <2> QED
    BY <1>0, <2>1 DEF TypeInv, Shape, OutboundOps, Docs, DocInv, NoStaleDocument, Creates, Creating
<1>2. doc' = [doc EXCEPT ![o] = NewOutbound(s)]
  BY DEF SaveCreateOutbound, CommitFromNotice
<1>3. /\ NewOutbound(s).st = "draft" /\ NewOutbound(s).qty = req[s].qty
      /\ NewOutbound(s).notice = req[s].notice
  <2>1. \A q, n : \A x \in DocRow :
            LET y == [x EXCEPT !.st = "draft", !.qty = q, !.notice = n]
            IN  y.st = "draft" /\ y.qty = q /\ y.notice = n
    BY DEF DocRow
  <2>2. doc[o] \in DocRow
    BY <1>0, <1>1
  <2> QED
    BY <2>1, <2>2 DEF NewOutbound
<1>4. req[s].qty \in Quantities
  BY <1>0 DEF Request
<1> QED
  BY <1>0, <1>1, <1>2, <1>3, <1>4

\* Shipping and signing keep a live outbound live.
LEMMA Delivered ==
    ASSUME DocInv, NEW s \in Sessions, AssertStatusTransition(s), ~ Refuse(s)
    PROVE  LET o == req[s].doc
           IN  /\ o \in Outbounds /\ o \in Docs
               /\ doc[o].st \in LiveStatus /\ doc'[o].st \in LiveStatus
               /\ doc'[o].qty = doc[o].qty /\ doc'[o].notice = doc[o].notice
               /\ \A x \in Docs \ {o} : doc'[x] = doc[x]
<1> DEFINE o == req[s].doc
<1>1. req[s].op \in DOMAIN CasFrom /\ TypeInv
  BY DEF AssertStatusTransition, At, DocInv
<1>2. o \in Outbounds /\ o \in Docs
  BY <1>1, OutboundOnlyOps DEF Docs
<1>3. doc[o].st \in CasFrom[req[s].op] /\ doc' = SetStatus(o, CasTo[req[s].op])
  BY DEF AssertStatusTransition
<1>4. doc[o].st \in LiveStatus /\ CasTo[req[s].op] \in LiveStatus
  BY <1>1, <1>3 DEF CasFrom, CasTo, LiveStatus
<1> QED
  BY <1>1, <1>2, <1>3, <1>4, ChangedStatus

\* Posting and reversing.
LEMMA MovedOutbound ==
    ASSUME DocInv, NEW s \in Sessions, SavePostOutbound(s) \/ SaveReverseOutbound(s)
    PROVE  LET o == req[s].doc
           IN  /\ o \in Outbounds /\ o \in Docs
               /\ req[s].op \in DOMAIN PostOrReverse /\ req[s].step = "save"
               /\ req[s].held = Len(req[s].plan) /\ Finish(s)
               /\ req[s].op = "postOutbound" => doc[o].st = "draft"
               /\ req[s].op = "reverseOutbound" => doc[o].st \in LiveStatus
               /\ doc' = SetStatus(o, PostOrReverse[req[s].op])
               /\ doc'[o].st = PostOrReverse[req[s].op]
               /\ doc'[o].qty = doc[o].qty /\ doc'[o].notice = doc[o].notice
               /\ \A x \in Docs \ {o} : doc'[x] = doc[x]
               /\ SaveNotice(req[s].notice, req[s].sync)
<1> DEFINE o == req[s].doc
<1>1. /\ req[s].op \in DOMAIN PostOrReverse /\ req[s].step = "save"
      /\ req[s].held = Len(req[s].plan) /\ Finish(s) /\ TypeInv
      /\ SaveNotice(req[s].notice, req[s].sync)
      /\ doc' = SetStatus(o, PostOrReverse[req[s].op])
  BY DEF SavePostOutbound, SaveReverseOutbound, At, PostOrReverse, DocInv
<1>2. o \in Outbounds /\ o \in Docs
  BY <1>1 DEF TypeInv, Shape, OutboundOps, PostOrReverse, Docs
<1>3. /\ req[s].op = "postOutbound" => doc[o].st = "draft"
      /\ req[s].op = "reverseOutbound" => doc[o].st \in LiveStatus
  BY <1>1 DEF DocInv, NoStaleDocument, Found
<1> QED
  BY <1>1, <1>2, <1>3, ChangedStatus

\* A document never loses its notice, nor comes to be absent.
LEMMA NoticeFieldKept ==
    ASSUME "cancelOutbound" \notin Endpoints, DocInv, [Next]_vars,
           NEW o \in Outbounds, doc[o].st # "absent"
    PROVE  doc'[o].st # "absent" /\ doc'[o].notice = doc[o].notice
<1>1. CASE doc'[o] = doc[o]
  BY <1>1
<1>2. CASE doc'[o] # doc[o]
  <2> PICK s \in Sessions : req[s].doc = o /\ SavesOutbound(s)
    BY <1>2, OutboundWriter
  <2>1. ~ Refuse(s)
    BY <1>2 DEF Refuse, data
  <2>2. ~ SaveCreateOutbound(s) /\ ~ CommitFromNotice(s)
    BY <2>1, OutboundCreated
  <2>3. ~ SaveCancelOutbound(s)
    <3>1. req[s].op \in Endpoints \cup {"idle"}
      BY DEF DocInv, TypeInv, TypeOK, Request
    <3> QED
      BY <3>1 DEF SaveCancelOutbound, At
  <2>4. CASE AssertStatusTransition(s)
    BY <2>1, <2>4, Delivered DEF LiveStatus
  <2>5. CASE SavePostOutbound(s) \/ SaveReverseOutbound(s)
    BY <2>5, MovedOutbound DEF PostOrReverse
  <2> QED
    BY <2>2, <2>3, <2>4, <2>5 DEF SavesOutbound
<1> QED
  BY <1>1, <1>2

\* A request writes its own notice only.
LEMMA SavesOwnNotice ==
    ASSUME DocInv, NEW s \in Sessions, SavesNotice(s)
    PROVE  /\ \A n \in Notices : n # req[s].notice => notice'[n] = notice[n]
           /\ Finish(s)
<1>0. notice \in [Notices -> NoticeRow]
  BY DEF DocInv, TypeInv, TypeOK
<1>1. ASSUME NEW sync, SaveNotice(req[s].notice, sync)
      PROVE  \A n \in Notices : n # req[s].notice => notice'[n] = notice[n]
  BY <1>0, <1>1 DEF SaveNotice
<1>2. CASE Refuse(s)
  BY <1>2 DEF Refuse, data
<1>3. CASE CommitCreateNotice(s) /\ ~ Refuse(s)
  BY <1>0, <1>3 DEF CommitCreateNotice
<1>4. CASE CommitCancelNotice(s) /\ ~ Refuse(s)
  BY <1>0, <1>4 DEF CommitCancelNotice
<1>5. CASE CommitFromNotice(s) /\ ~ Refuse(s)
  BY <1>1, <1>5 DEF CommitFromNotice
<1>6. CASE SaveCancelOutbound(s) \/ SavePostOutbound(s) \/ SaveReverseOutbound(s)
  BY <1>1, <1>6 DEF SaveCancelOutbound, SavePostOutbound, SaveReverseOutbound
<1> QED
  BY <1>2, <1>3, <1>4, <1>5, <1>6 DEF SavesNotice

-----------------------------------------------------------------------------
(***************************************************************************)
(* Every step leaves the figures of every notice right.                    *)
(***************************************************************************)
\* Where the drafts add up to nothing there are none.
LEMMA NoDrafts ==
    ASSUME TypeInv, NEW n, Total(doc, Drafted(doc, n)) <= 0
    PROVE  Drafted(doc, n) = {}
<1> SUFFICES ASSUME NEW o \in Drafted(doc, n) PROVE FALSE
  OBVIOUS
<1>1. o \in Docs /\ Drafted(doc, n) \in SUBSET Docs /\ Total(doc, Drafted(doc, n)) \in Nat
  BY OfNoticeDocs
<1>2. doc[o].qty \in Quantities
  BY <1>1 DEF TypeInv, TypeOK, DocRow
<1> DEFINE S == Drafted(doc, n) \ {o}
<1>3. S \in SUBSET Docs /\ o \in Docs \ S /\ S \cup {o} = Drafted(doc, n)
  BY <1>1
<1> HIDE DEF S
<1>4. Total(doc, S \cup {o}) = Total(doc, S) + doc[o].qty /\ Total(doc, S) \in Nat
  BY <1>2, <1>3, TotalAdd, TotalNat
<1>5. doc[o].qty >= 1 /\ doc[o].qty \in Nat
  BY <1>2, FiniteIds DEF Quantities
<1> QED
  BY <1>1, <1>3, <1>4, <1>5

LEMMA NoticeTypes ==
    ASSUME TypeInv, NEW n \in Notices
    PROVE  /\ notice \in [Notices -> NoticeRow]
           /\ notice[n].st \in {"absent", "completed", "cancelled"} \cup OpenNotice
           /\ notice[n].qty \in Nat /\ notice[n].qty >= 1 /\ notice[n].shipped \in Nat
           /\ n # NoOne
<1>1. notice \in [Notices -> NoticeRow]
  BY DEF TypeInv, TypeOK
<1>2. notice[n] \in NoticeRow
  BY <1>1
<1>3. notice[n].qty \in Quantities
  BY <1>2 DEF NoticeRow
<1>4. notice[n].qty \in Nat /\ notice[n].qty >= 1
  BY <1>3, FiniteIds DEF Quantities
<1>5. n # NoOne
  BY DistinctIds DEF Rows
<1> QED
  BY <1>1, <1>2, <1>4, <1>5 DEF NoticeRow

\* The UPDATE of a notice with the figures of its outbounds.
LEMMA FiguresSaved ==
    ASSUME TypeInv, NEW n \in Notices, NEW rows,
           SaveNotice(n, Figures(rows, n, notice[n].qty))
    PROVE  LET f == Figures(rows, n, notice[n].qty)
           IN  /\ notice'[n].st = f.st /\ notice'[n].shipped = f.shipped
               /\ notice'[n].qty = notice[n].qty
               /\ notice'[n].st \notin {"absent", "cancelled"}
               /\ [st |-> notice'[n].st, shipped |-> notice'[n].shipped] = f
<1> DEFINE f == Figures(rows, n, notice[n].qty)
<1>1. /\ f # Keep /\ f.st \in OpenNotice \cup {"completed"}
      /\ f = [st |-> f.st, shipped |-> f.shipped]
  BY FiguresAre
<1>2. notice \in [Notices -> NoticeRow] /\ notice[n] \in NoticeRow
  BY DEF TypeInv, TypeOK
<1> HIDE DEF f
<1>3. notice' = [notice EXCEPT ![n] = [notice[n] EXCEPT !.st = f.st, !.shipped = f.shipped]]
  BY <1>1, <1>2 DEF SaveNotice, f
<1>4. \A st, shipped : \A x \in NoticeRow :
          LET y == [x EXCEPT !.st = st, !.shipped = shipped]
          IN  y.st = st /\ y.shipped = shipped /\ y.qty = x.qty
  BY DEF NoticeRow
<1>5. notice'[n].st = f.st /\ notice'[n].shipped = f.shipped /\ notice'[n].qty = notice[n].qty
  BY <1>2, <1>3, <1>4
<1>6. notice'[n].st \notin {"absent", "cancelled"}
  BY <1>1, <1>5 DEF OpenNotice
<1>7. [st |-> notice'[n].st, shipped |-> notice'[n].shipped] = f
  BY <1>1, <1>5
<1> QED
  BY <1>5, <1>6, <1>7 DEF f

\* createOutboundFromNotice takes what the notice has left.
LEMMA RightFromNotice ==
    ASSUME DocInv, NEW s \in Sessions, CommitFromNotice(s), ~ Refuse(s),
           NEW n \in Notices, NoticeRight(n)
    PROVE  NoticeRight(n)'
<1> DEFINE o == req[s].doc
<1> DEFINE m == req[s].notice
<1>0. TypeInv /\ m \in Notices
  BY NoticeRequest DEF DocInv, CommitFromNotice, At, NoticeOps
<1>1. /\ o \in Outbounds /\ o \in Docs /\ doc[o].st = "absent"
      /\ doc' = [doc EXCEPT ![o] = NewOutbound(s)]
      /\ doc'[o].st = "draft" /\ doc'[o].qty = req[s].qty /\ doc'[o].notice = m
      /\ \A x \in Docs \ {o} : doc'[x] = doc[x]
      /\ req[s].qty \in Quantities
  BY OutboundCreated
<1>2. /\ notice[m].st \in OpenNotice /\ req[s].qty <= Remaining(m)
      /\ SaveNotice(m, SyncNoticeStatus(doc', m))
  BY <1>1 DEF CommitFromNotice
<1>3. SaveNotice(m, Figures(doc', m, notice[m].qty))
  BY <1>0, <1>2, SyncIsFigures, NoticeTypes DEF OpenNotice
<1>4. o \notin Live(doc, n) \cup Drafted(doc, n)
  BY <1>1 DEF Live, Drafted, OfNotice, InStatus, LiveStatus
<1>5. \A x \in Outbounds \ {o} : doc'[x] = doc[x]
  BY <1>1 DEF Docs
<1> HIDE DEF o, m
<1>6. CASE n # m
  <2>1. SameOf(doc, doc', n)
    BY <1>1, <1>4, <1>5, <1>6 DEF SameOf, Live, Drafted, OfNotice, InStatus
  <2>2. notice'[n] = notice[n]
    BY <1>0, <1>3, <1>6 DEF SaveNotice, TypeInv, TypeOK
  <2>3. \A x \in Outbounds : doc'[x].notice = n => doc[x].notice = n
    BY <1>1, <1>5, <1>6
  <2> QED
    BY <2>1, <2>2, <2>3, NoticeStill
<1>7. CASE n = m
  <2>1. /\ notice'[n].qty = notice[n].qty
        /\ notice'[n].st \notin {"absent", "cancelled"}
        /\ [st |-> notice'[n].st, shipped |-> notice'[n].shipped]
             = Figures(doc', n, notice[n].qty)
    BY <1>0, <1>3, <1>7, FiguresSaved
  <2>2. notice[n].shipped = Total(doc, Live(doc, n))
    <3>1. [st |-> notice[n].st, shipped |-> notice[n].shipped] = Figures(doc, n, notice[n].qty)
      BY <1>2, <1>7 DEF NoticeRight, OpenNotice
    <3>2. Figures(doc, n, notice[n].qty).shipped = Total(doc, Live(doc, n))
      BY FiguresAre
    <3> QED
      BY <3>1, <3>2
  <2>3. Live(doc', n) = Live(doc, n) /\ Drafted(doc', n) = Drafted(doc, n) \cup {o}
    <3>1. \A x \in Outbounds : /\ x \in Live(doc', n) <=> x \in Live(doc, n)
                               /\ x \in Drafted(doc', n) <=> x \in Drafted(doc, n) \cup {o}
      BY <1>1, <1>4, <1>5, <1>7 DEF Live, Drafted, OfNotice, InStatus, LiveStatus
    <3>2. /\ Live(doc', n) \subseteq Outbounds /\ Live(doc, n) \subseteq Outbounds
          /\ Drafted(doc', n) \subseteq Outbounds /\ Drafted(doc, n) \subseteq Outbounds
      BY DEF Live, Drafted, OfNotice, InStatus
    <3> QED
      BY <1>1, <3>1, <3>2
  <2>4. /\ Live(doc, n) \in SUBSET Docs /\ Drafted(doc, n) \in SUBSET Docs
        /\ Total(doc, Live(doc, n)) \in Nat /\ Total(doc, Drafted(doc, n)) \in Nat
    BY OfNoticeDocs
  <2> DEFINE L == Live(doc, n)
  <2> DEFINE D == Drafted(doc, n)
  <2>a. /\ L \in SUBSET Docs /\ D \in SUBSET Docs /\ o \in Docs \ D
        /\ \A x \in L : doc[x].qty = doc'[x].qty
        /\ \A x \in D : doc[x].qty = doc'[x].qty
    BY <1>1, <1>4, <2>4
  <2> HIDE DEF L, D
  <2>5. Total(doc, L) = Total(doc', L)
    BY <2>a, TotalSame
  <2>6. Total(doc, D) = Total(doc', D)
    BY <2>a, TotalSame
  <2>7. Total(doc', D \cup {o}) = Total(doc', D) + req[s].qty
    <3>1. doc'[o].qty \in Quantities /\ doc'[o].qty = req[s].qty
      BY <1>1
    <3>2. Total(doc', D \cup {o}) = Total(doc', D) + doc'[o].qty
      BY <2>a, <3>1, TotalAdd
    <3> QED
      BY <3>1, <3>2
  <2>8. req[s].qty <= notice[n].qty - notice[n].shipped - Total(doc, Drafted(doc, n))
    BY <1>2, <1>7 DEF Remaining, Drafted
  <2>9. req[s].qty \in Nat /\ notice[n].qty \in Nat
    BY <1>0, <1>1, FiniteIds, NoticeTypes DEF Quantities
  <2>10. Total(doc', Live(doc', n)) + Total(doc', Drafted(doc', n)) <= notice[n].qty
    BY <2>2, <2>3, <2>4, <2>5, <2>6, <2>7, <2>8, <2>9 DEF L, D
  <2> QED
    BY <2>1, <2>10 DEF NoticeRight, Live, Drafted
<1> QED
  BY <1>6, <1>7

\* A manual draft is of no notice.
LEMMA RightManualDraft ==
    ASSUME DocInv, NEW s \in Sessions, SaveCreateOutbound(s), req[s].notice = NoOne,
           NEW n \in Notices, NoticeRight(n)
    PROVE  NoticeRight(n)'
<1> DEFINE o == req[s].doc
<1>1. /\ o \in Outbounds /\ o \in Docs /\ doc[o].st = "absent"
      /\ doc'[o].st = "draft" /\ doc'[o].notice = NoOne
      /\ \A x \in Docs \ {o} : doc'[x] = doc[x]
  BY OutboundCreated
<1>2. notice' = notice /\ n # NoOne
  BY NoticeTypes DEF SaveCreateOutbound, DocInv
<1>3. \A x \in Outbounds \ {o} : doc'[x] = doc[x]
  BY <1>1 DEF Docs
<1> HIDE DEF o
<1>4. SameOf(doc, doc', n)
  BY <1>1, <1>2, <1>3 DEF SameOf, Live, Drafted, OfNotice, InStatus, LiveStatus
<1>5. \A x \in Outbounds : doc'[x].notice = n => doc[x].notice = n
  BY <1>1, <1>2, <1>3
<1> QED
  BY <1>2, <1>4, <1>5, NoticeStill

LEMMA RightDelivered ==
    ASSUME DocInv, NEW s \in Sessions, AssertStatusTransition(s), ~ Refuse(s),
           NEW n \in Notices, NoticeRight(n)
    PROVE  NoticeRight(n)'
<1> DEFINE o == req[s].doc
<1>1. /\ o \in Outbounds /\ o \in Docs
      /\ doc[o].st \in LiveStatus /\ doc'[o].st \in LiveStatus
      /\ doc'[o].qty = doc[o].qty /\ doc'[o].notice = doc[o].notice
      /\ \A x \in Docs \ {o} : doc'[x] = doc[x]
  BY Delivered
<1>2. notice' = notice
  BY DEF AssertStatusTransition
<1>3. \A x \in Outbounds \ {o} : doc'[x] = doc[x]
  BY <1>1 DEF Docs
<1> HIDE DEF o
<1>4. SameOf(doc, doc', n)
  BY <1>1, <1>3 DEF SameOf, Live, Drafted, OfNotice, InStatus, LiveStatus
<1>5. \A x \in Outbounds : doc'[x].notice = n => doc[x].notice = n
  BY <1>1, <1>3
<1> QED
  BY <1>2, <1>4, <1>5, NoticeStill

\* The sums of a notice when one of its outbounds is posted or reversed.
LEMMA MovedTotals ==
    ASSUME DocInv, NEW s \in Sessions, SavePostOutbound(s) \/ SaveReverseOutbound(s), NEW n
    PROVE  /\ Total(doc', Live(doc', n)) + Total(doc', Drafted(doc', n))
                <= Total(doc, Live(doc, n)) + Total(doc, Drafted(doc, n))
           /\ Drafted(doc', n) \subseteq Drafted(doc, n)
<1> DEFINE o == req[s].doc
<1>0. TypeInv
  BY DEF DocInv
<1>1. /\ o \in Outbounds /\ o \in Docs
      /\ req[s].op \in DOMAIN PostOrReverse
      /\ req[s].op = "postOutbound" => doc[o].st = "draft"
      /\ req[s].op = "reverseOutbound" => doc[o].st \in LiveStatus
      /\ doc'[o].st = PostOrReverse[req[s].op]
      /\ doc'[o].qty = doc[o].qty /\ doc'[o].notice = doc[o].notice
      /\ \A x \in Docs \ {o} : doc'[x] = doc[x]
  BY MovedOutbound
<1>2. \A x \in Outbounds \ {o} : doc'[x] = doc[x]
  BY <1>1 DEF Docs
<1>3. /\ Live(doc, n) \in SUBSET Docs /\ Drafted(doc, n) \in SUBSET Docs
      /\ Live(doc', n) \in SUBSET Docs /\ Drafted(doc', n) \in SUBSET Docs
      /\ Total(doc, Live(doc, n)) \in Nat /\ Total(doc, Drafted(doc, n)) \in Nat
      /\ Total(doc', Live(doc', n)) \in Nat /\ Total(doc', Drafted(doc', n)) \in Nat
  BY OfNoticeDocs
<1>4. /\ Live(doc', n) \subseteq Outbounds /\ Live(doc, n) \subseteq Outbounds
      /\ Drafted(doc', n) \subseteq Outbounds /\ Drafted(doc, n) \subseteq Outbounds
  BY DEF Live, Drafted, OfNotice, InStatus
<1>5. doc[o].qty \in Quantities /\ doc[o].qty \in Nat /\ \A x \in Docs : doc'[x].qty = doc[x].qty
  <2>1. doc[o].qty \in Quantities
    BY <1>0, <1>1 DEF TypeInv, TypeOK, DocRow
  <2> QED
    BY <1>1, <2>1, FiniteIds DEF Quantities
<1> HIDE DEF o
<1>6. CASE doc[o].notice # n
  <2>1. SameOf(doc, doc', n)
    BY <1>1, <1>2, <1>6 DEF SameOf, Live, Drafted, OfNotice, InStatus
  <2> QED
    BY <1>3, <2>1, SameFigures
<1>7. CASE doc[o].notice = n /\ req[s].op = "postOutbound"
  <2>1. \A x \in Outbounds : /\ x \in Live(doc', n) <=> x \in Live(doc, n) \cup {o}
                             /\ x \in Drafted(doc, n) <=> x \in Drafted(doc', n) \cup {o}
    BY <1>1, <1>2, <1>7 DEF Live, Drafted, OfNotice, InStatus, LiveStatus, PostOrReverse
  <2>2. o \notin Live(doc, n) /\ o \notin Drafted(doc', n)
    BY <1>1, <1>7 DEF Live, Drafted, OfNotice, InStatus, LiveStatus, PostOrReverse
  <2>3. Live(doc', n) = Live(doc, n) \cup {o} /\ Drafted(doc, n) = Drafted(doc', n) \cup {o}
    BY <1>1, <1>4, <2>1
  <2>4. Total(doc', Live(doc', n)) = Total(doc, Live(doc, n)) + doc[o].qty
    BY <1>1, <1>3, <1>5, <2>2, <2>3, TotalJoin
  <2>5. Total(doc', Drafted(doc', n)) = Total(doc, Drafted(doc, n)) - doc[o].qty
    BY <1>1, <1>3, <1>5, <2>2, <2>3, TotalJoin
  <2> QED
    BY <1>3, <1>5, <2>3, <2>4, <2>5
<1>8. CASE doc[o].notice = n /\ req[s].op = "reverseOutbound"
  <2>1. \A x \in Outbounds : /\ x \in Live(doc, n) <=> x \in Live(doc', n) \cup {o}
                             /\ x \in Drafted(doc, n) <=> x \in Drafted(doc', n)
    BY <1>1, <1>2, <1>8 DEF Live, Drafted, OfNotice, InStatus, LiveStatus, PostOrReverse
  <2>2. o \notin Live(doc', n)
    BY <1>1, <1>8 DEF Live, OfNotice, InStatus, LiveStatus, PostOrReverse
  <2>3. Live(doc, n) = Live(doc', n) \cup {o} /\ Drafted(doc, n) = Drafted(doc', n)
    BY <1>1, <1>4, <2>1
  <2>4. Total(doc', Live(doc', n)) = Total(doc, Live(doc, n)) - doc[o].qty
    BY <1>1, <1>3, <1>5, <2>2, <2>3, TotalJoin
  <2>5. Total(doc', Drafted(doc', n)) = Total(doc, Drafted(doc, n))
    BY <1>3, <1>5, <2>3, TotalSame
  <2> QED
    BY <1>3, <1>5, <2>3, <2>4, <2>5
<1> QED
  BY <1>1, <1>6, <1>7, <1>8 DEF PostOrReverse

LEMMA RightMoved ==
    ASSUME DocInv, NoticeInv, NEW s \in Sessions, SavePostOutbound(s) \/ SaveReverseOutbound(s),
           NEW n \in Notices
    PROVE  NoticeRight(n)'
<1> DEFINE o == req[s].doc
<1> DEFINE m == req[s].notice
<1>0. TypeInv /\ NoticeRight(n) /\ CarriesFigures(s)
  BY DEF DocInv, NoticeInv
<1>1. /\ o \in Outbounds /\ o \in Docs
      /\ req[s].op \in DOMAIN PostOrReverse /\ req[s].step = "save"
      /\ doc' = SetStatus(o, PostOrReverse[req[s].op])
      /\ doc'[o].notice = doc[o].notice
      /\ \A x \in Docs \ {o} : doc'[x] = doc[x]
      /\ SaveNotice(m, req[s].sync)
  BY MovedOutbound
<1>2. m = doc[o].notice
  BY <1>0, <1>1 DEF CarriesFigures
<1>3. /\ req[s].sync = Keep => m = NoOne \/ notice[m].st = "cancelled"
      /\ req[s].sync # Keep => req[s].sync = Figures(doc', m, notice[m].qty)
  BY <1>0, <1>1 DEF CarriesFigures
<1>4. \A x \in Outbounds \ {o} : doc'[x] = doc[x]
  BY <1>1 DEF Docs
<1>5. \A x \in Outbounds : doc'[x].notice = doc[x].notice
  BY <1>1, <1>4
<1> HIDE DEF o, m
<1>6. /\ Total(doc', Live(doc', n)) + Total(doc', Drafted(doc', n))
           <= Total(doc, Live(doc, n)) + Total(doc, Drafted(doc, n))
      /\ Drafted(doc', n) \subseteq Drafted(doc, n)
  BY MovedTotals
<1>7. /\ Total(doc, Live(doc, n)) \in Nat /\ Total(doc, Drafted(doc, n)) \in Nat
      /\ Total(doc', Live(doc', n)) \in Nat /\ Total(doc', Drafted(doc', n)) \in Nat
      /\ notice[n].qty \in Nat /\ n # NoOne
  BY <1>0, OfNoticeDocs, NoticeTypes
<1>8. Total(doc', Live(doc', n)) + Total(doc', Drafted(doc', n)) <= notice[n].qty
  <2>1. Total(doc, Live(doc, n)) + Total(doc, Drafted(doc, n)) <= notice[n].qty
    BY <1>0 DEF NoticeRight, Live, Drafted
  <2> QED
    BY <1>6, <1>7, <2>1
<1>9. CASE n # m
  <2>1. SameOf(doc, doc', n)
    BY <1>1, <1>2, <1>4, <1>5, <1>9 DEF SameOf, Live, Drafted, OfNotice, InStatus
  <2>2. notice'[n] = notice[n]
    BY <1>0, <1>1, <1>9 DEF SaveNotice, TypeInv, TypeOK
  <2> QED
    BY <1>0, <1>5, <2>1, <2>2, NoticeStill
<1>10. CASE n = m /\ req[s].sync = Keep
  <2>1. notice' = notice /\ notice[n].st = "cancelled"
    BY <1>1, <1>3, <1>7, <1>10 DEF SaveNotice
  <2>2. Drafted(doc', n) = {}
    BY <1>0, <1>6, <2>1 DEF NoticeRight, Drafted
  <2> QED
    BY <1>8, <2>1, <2>2 DEF NoticeRight, Live, Drafted
<1>11. CASE n = m /\ req[s].sync # Keep
  <2>1. SaveNotice(n, Figures(doc', n, notice[n].qty))
    BY <1>1, <1>3, <1>11
  <2>2. /\ notice'[n].qty = notice[n].qty
        /\ notice'[n].st \notin {"absent", "cancelled"}
        /\ [st |-> notice'[n].st, shipped |-> notice'[n].shipped]
             = Figures(doc', n, notice[n].qty)
    BY <1>0, <2>1, FiguresSaved
  <2> QED
    BY <1>8, <2>2 DEF NoticeRight, Live, Drafted
<1> QED
  BY <1>9, <1>10, <1>11

\* createNotices: a notice nobody has shipped anything for.
LEMMA RightNew ==
    ASSUME DocInv, NEW s \in Sessions, CommitCreateNotice(s), ~ Refuse(s),
           CarriesFigures(s), NEW n \in Notices, NoticeRight(n)
    PROVE  NoticeRight(n)'
<1> DEFINE m == req[s].notice
<1>0. TypeInv /\ m \in Notices /\ req[s].qty \in Nat /\ req[s].qty >= 1
  <2>1. req[s].qty \in Quantities
    BY DEF DocInv, TypeInv, TypeOK, Request
  <2>2. req[s].qty \in Nat /\ req[s].qty >= 1
    BY <2>1, FiniteIds DEF Quantities
  <2> QED
    BY <2>2, NoticeRequest DEF DocInv, CommitCreateNotice, At, NoticeOps
<1>1. /\ doc' = doc
      /\ notice' = [notice EXCEPT ![m] = [st |-> "pending", qty |-> req[s].qty, shipped |-> 0]]
  BY DEF CommitCreateNotice
<1>2. notice[m].st = "absent"
  BY DEF CommitCreateNotice, At, CarriesFigures
<1> HIDE DEF m
<1>3. CASE n # m
  <2>1. notice'[n] = notice[n]
    BY <1>0, <1>1, <1>3 DEF TypeInv, TypeOK
  <2> QED
    BY <1>1, <2>1, SameRows, NoticeStill
<1>4. CASE n = m
  <2>1. notice'[n] = [st |-> "pending", qty |-> req[s].qty, shipped |-> 0]
    BY <1>0, <1>1, <1>4, NoticeTypes
  <2>2. Live(doc, n) = {} /\ Drafted(doc, n) = {}
    BY <1>2, <1>4 DEF NoticeRight, Live, Drafted, OfNotice, InStatus
  <2>3. Total(doc, {}) = 0
    <3>1. {p \in {} \X Quantities : p[2] <= doc[p[1]].qty} = {}
      OBVIOUS
    <3> QED
      BY <3>1, FS_EmptySet DEF Total
  <2>4. Figures(doc, n, req[s].qty) = [st |-> "pending", shipped |-> 0]
    BY <1>0, <2>2, <2>3 DEF Figures, Live, Drafted
  <2> QED
    BY <1>0, <1>1, <2>1, <2>2, <2>3, <2>4 DEF NoticeRight, Live, Drafted
<1> QED
  BY <1>3, <1>4

\* cancelNotice: what is pending or partly shipped has no drafts.
LEMMA RightCancelled ==
    ASSUME DocInv, NEW s \in Sessions, CommitCancelNotice(s), ~ Refuse(s),
           NEW n \in Notices, NoticeRight(n)
    PROVE  NoticeRight(n)'
<1> DEFINE m == req[s].notice
<1>0. TypeInv /\ m \in Notices
  BY NoticeRequest DEF DocInv, CommitCancelNotice, At, NoticeOps
<1>1. /\ doc' = doc /\ notice' = [notice EXCEPT ![m].st = "cancelled"]
      /\ notice[m].st \in {"pending", "partially_outbound"}
  BY DEF CommitCancelNotice, Cancellable
<1> HIDE DEF m
<1>2. CASE n # m
  <2>1. notice'[n] = notice[n]
    BY <1>0, <1>1, <1>2 DEF TypeInv, TypeOK
  <2> QED
    BY <1>1, <2>1, SameRows, NoticeStill
<1>3. CASE n = m
  <2>1. notice'[n].st = "cancelled" /\ notice'[n].qty = notice[n].qty
    <3>1. \A x \in NoticeRow : LET y == [x EXCEPT !.st = "cancelled"]
                               IN  y.st = "cancelled" /\ y.qty = x.qty
      BY DEF NoticeRow
    <3>2. notice \in [Notices -> NoticeRow]
      BY <1>0 DEF TypeInv, TypeOK
    <3>3. notice' = [notice EXCEPT ![n] = [notice[n] EXCEPT !.st = "cancelled"]]
      BY <1>1, <1>3, <3>2
    <3> QED
      BY <3>1, <3>2, <3>3
  <2>2. Figures(doc, n, notice[n].qty).st \in {"pending", "partially_outbound"}
    <3>1. [st |-> notice[n].st, shipped |-> notice[n].shipped] = Figures(doc, n, notice[n].qty)
      BY <1>1, <1>3 DEF NoticeRight
    <3> QED
      BY <1>1, <1>3, <3>1
  <2>3. ~ (Total(doc, Drafted(doc, n)) > 0)
    BY <2>2, FiguresAre
  <2>4. Drafted(doc, n) = {}
    BY <1>0, <2>3, NoDrafts, OfNoticeDocs
  <2> QED
    BY <1>1, <2>1, <2>4 DEF NoticeRight, Live, Drafted
<1> QED
  BY <1>2, <1>3

LEMMA NoticesStayRight ==
    ASSUME "cancelOutbound" \notin Endpoints, DocInv, NoticeInv, [Next]_vars, NEW n \in Notices
    PROVE  NoticeRight(n)'
<1>0. NoticeRight(n) /\ \A s \in Sessions : CarriesFigures(s)
  BY DEF NoticeInv
<1>1. ASSUME NEW s \in Sessions PROVE ~ SaveCancelOutbound(s)
  <2>1. req[s].op \in Endpoints \cup {"idle"}
    BY DEF DocInv, TypeInv, TypeOK, Request
  <2> QED
    BY <2>1 DEF SaveCancelOutbound, At
<1>2. CASE notice' = notice /\ \A o \in Outbounds : doc'[o] = doc[o]
  BY <1>0, <1>2, SameRows, NoticeStill
<1>3. ASSUME NEW s \in Sessions, SavesNotice(s) \/ SavesOutbound(s), ~ Refuse(s)
      PROVE  NoticeRight(n)'
  <2>1. CASE SaveCreateOutbound(s)
    <3>1. req[s].notice = NoOne
      BY <1>0, <2>1 DEF SaveCreateOutbound, At, CarriesFigures
    <3> QED
      BY <1>0, <2>1, <3>1, RightManualDraft
  <2> QED
    BY <1>0, <1>1, <1>3, <2>1, RightFromNotice, RightDelivered, RightMoved, RightNew,
       RightCancelled DEF SavesNotice, SavesOutbound
<1>4. CASE notice' # notice
  <2> PICK s \in Sessions : SavesNotice(s)
    BY <1>4, NoticeWriter
  <2>1. ~ Refuse(s)
    BY <1>4 DEF Refuse, data
  <2> QED
    BY <1>3, <2>1
<1>5. ASSUME NEW o \in Outbounds, doc'[o] # doc[o] PROVE NoticeRight(n)'
  <2> PICK s \in Sessions : SavesOutbound(s)
    BY <1>5, OutboundWriter
  <2>1. ~ Refuse(s)
    BY <1>5 DEF Refuse, data
  <2> QED
    BY <1>3, <2>1
<1> QED
  BY <1>2, <1>4, <1>5

-----------------------------------------------------------------------------
(***************************************************************************)
(* What the requests carry stays right.                                    *)
(***************************************************************************)
\* What a request names when it begins.
LEMMA BeginNames ==
    ASSUME "cancelOutbound" \notin Endpoints, DocInv, NEW s \in Sessions, BeginRequest(s)
    PROVE  /\ \/ req'[s].notice = NoOne
              \/ req'[s].notice \in Notices /\ notice[req'[s].notice].st # "absent"
              \/ FreshNotice(req'[s].notice)
              \/ \E o \in Outbounds : doc[o].notice = req'[s].notice
           /\ req'[s].op = "createOutbound" => req'[s].notice = NoOne
           /\ req'[s].op = "createNotices" => FreshNotice(req'[s].notice)
           /\ req'[s].op \in DOMAIN PostOrReverse =>
                /\ doc[req'[s].doc].st # "absent"
                /\ req'[s].notice = doc[req'[s].doc].notice
<1> USE DEF PostOrReverse
<1>0. req \in [Sessions -> Request]
  BY DEF DocInv, TypeInv, TypeOK
<1>1. ASSUME NEW r, Begin(s, r) PROVE req'[s] = r
  BY <1>0, <1>1 DEF Begin
<1>2. \A op, d, n, q, plan : /\ NewRequest(op, d, n, q, plan).op = op
                             /\ NewRequest(op, d, n, q, plan).doc = d
                             /\ NewRequest(op, d, n, q, plan).notice = n
  BY DEF NewRequest
<1>3. ASSUME NEW op, NEW d, NEW n, NEW q, NEW plan, Begin(s, NewRequest(op, d, n, q, plan))
      PROVE  req'[s].op = op /\ req'[s].doc = d /\ req'[s].notice = n /\ op \in Endpoints
  <2> DEFINE r == NewRequest(op, d, n, q, plan)
  <2>1. r.op = op /\ r.doc = d /\ r.notice = n /\ Begin(s, r)
    BY <1>2, <1>3
  <2> HIDE DEF r
  <2>2. r.op \in Endpoints
    BY <2>1 DEF Begin
  <2> QED
    BY <1>1, <2>1, <2>2
<1> HIDE DEF PostOrReverse
<1>a. ASSUME req'[s].notice = NoOne,
             req'[s].op \notin {"createNotices", "postOutbound", "reverseOutbound"}
      PROVE  /\ \/ req'[s].notice = NoOne
                \/ req'[s].notice \in Notices /\ notice[req'[s].notice].st # "absent"
                \/ FreshNotice(req'[s].notice)
                \/ \E o \in Outbounds : doc[o].notice = req'[s].notice
             /\ req'[s].op = "createOutbound" => req'[s].notice = NoOne
             /\ req'[s].op = "createNotices" => FreshNotice(req'[s].notice)
             /\ req'[s].op \in DOMAIN PostOrReverse =>
                  /\ doc[req'[s].doc].st # "absent"
                  /\ req'[s].notice = doc[req'[s].doc].notice
  BY <1>a DEF PostOrReverse
<1>4. CASE BeginReceipt(s)
  <2>1. \E op \in {"createReceipt", "postReceipt", "reverseReceipt"} : \E d, q, plan :
          Begin(s, NewRequest(op, d, NoOne, q, plan))
    BY <1>4 DEF BeginReceipt, BeginCreateReceipt, BeginPostReceipt, BeginReverseReceipt
  <2> QED
    BY <1>3, <1>a, <2>1
<1> USE DEF PostOrReverse
<1>5. CASE BeginCreateNotice(s)
  BY <1>3, <1>5 DEF BeginCreateNotice
<1>6. CASE BeginCancelNotice(s) \/ BeginFromNotice(s)
  BY <1>3, <1>6 DEF BeginCancelNotice, BeginFromNotice, Cancellable, OpenNotice
<1>7. CASE BeginCreateOutbound(s)
  <2> PICK o \in Outbounds, q \in Quantities :
        Begin(s, [NewRequest("createOutbound", o, NoOne, q, << >>)
                    EXCEPT !.bal = stock["finished_goods"]])
    BY <1>7 DEF BeginCreateOutbound
  <2>1. LET r == [NewRequest("createOutbound", o, NoOne, q, << >>)
                    EXCEPT !.bal = stock["finished_goods"]]
        IN  r.op = "createOutbound" /\ r.notice = NoOne
    BY DEF NewRequest
  <2> QED
    BY <1>1, <2>1
<1>8. CASE BeginCancelOutbound(s)
  BY <1>3, <1>8 DEF BeginCancelOutbound
<1>9. CASE BeginPostOutbound(s)
  BY <1>3, <1>9 DEF BeginPostOutbound
<1>10. CASE BeginCas(s)
  <2> PICK o \in Outbounds, op \in DOMAIN CasFrom : Begin(s, NewRequest(op, o, NoOne, 1, << >>))
    BY <1>10 DEF BeginCas
  <2>1. op \in {"updateShipping", "signOutbound"}
    BY DEF CasFrom
  <2> QED
    BY <1>3, <2>1
<1>11. CASE BeginReverseOutbound(s)
  BY <1>3, <1>11 DEF BeginReverseOutbound, LiveStatus
<1>12. CASE BeginPostReturn(s) \/ BeginReverseReturn(s)
  <2>1. \E op \in {"postReturn", "reverseReturn"} : \E d, q, plan :
          Begin(s, NewRequest(op, d, NoOne, q, plan))
    BY <1>12 DEF BeginPostReturn, BeginReverseReturn
  <2> QED
    BY <1>3, <1>a, <2>1
<1>13. CASE BeginConfirm(s)
  <2> PICK o \in Outbounds : req' = [req EXCEPT ![s] = NewRequest("confirm", o, NoOne, 1, << >>)]
    BY <1>13 DEF BeginConfirm
  <2> QED
    BY <1>0, <1>2
<1> QED
  BY <1>4, <1>5, <1>6, <1>7, <1>8, <1>9, <1>10, <1>11, <1>12, <1>13 DEF BeginRequest

\* A notice that a request is about to create is left to it.
LEMMA NewNoticeKept ==
    ASSUME "cancelOutbound" \notin Endpoints, DocInv, NoticeInv, [Next]_vars, NEW t \in Sessions,
           req[t].op = "createNotices", req'[t].op = "createNotices",
           req'[t].notice = req[t].notice
    PROVE  /\ notice'[req[t].notice].st = "absent"
           /\ \A u \in Sessions \ {t} : req'[u].notice # req[t].notice
<1> DEFINE n == req[t].notice
<1>0. TypeInv /\ n \in Notices /\ n # NoOne /\ NoticeRight(n)
  BY NoticeRequest, NoticeTypes DEF DocInv, NoticeOps, NoticeInv
<1>1. notice[n].st = "absent" /\ \A u \in Sessions \ {t} : req[u].notice # n
  BY DEF NoticeInv, CarriesFigures
<1> HIDE DEF n
<1>2. notice'[n] = notice[n]
  <2> SUFFICES ASSUME notice'[n] # notice[n] PROVE FALSE
    OBVIOUS
  <2> PICK s \in Sessions : SavesNotice(s)
    BY NoticeWriter
  <2>1. n = req[s].notice /\ Finish(s)
    BY <1>0, SavesOwnNotice
  <2>2. s = t
    BY <1>1, <2>1
  <2> QED
    BY <2>1, <2>2, FinishIdles
<1>3. ASSUME NEW u \in Sessions \ {t} PROVE req'[u].notice # n
  <2>1. CASE req'[u].notice = req[u].notice
    BY <1>1, <2>1
  <2>2. CASE req'[u] = Idle
    BY <1>0, <2>2 DEF Idle, NewRequest
  <2>3. CASE BeginRequest(u)
    <3>1. ~ FreshNotice(n)
      BY DEF FreshNotice, n
    <3>2. \A o \in Outbounds : doc[o].notice # n
      BY <1>0, <1>1 DEF NoticeRight
    <3> QED
      BY <1>0, <1>1, <2>3, <3>1, <3>2, BeginNames
  <2> QED
    BY <2>1, <2>2, <2>3, RequestMoves
<1> QED
  BY <1>1, <1>2, <1>3 DEF n

\* While an outbound is being posted or reversed, the others only ship and
\* sign.
LEMMA OrderHeld ==
    ASSUME "cancelOutbound" \notin Endpoints, DocInv, [Next]_vars, NEW t \in Sessions,
           req'[t] = req[t], req[t].op \in DOMAIN PostOrReverse, req[t].step = "save",
           NEW o \in Outbounds
    PROVE  \/ doc'[o] = doc[o]
           \/ /\ doc[o].st \in LiveStatus /\ doc'[o].st \in LiveStatus
              /\ doc'[o].qty = doc[o].qty /\ doc'[o].notice = doc[o].notice
<1>1. lock[ProductionOrder] = t /\ t # NoOne
  BY HoldsOrder, RequestFacts DEF PostOrReverse, DocInv, NoStaleDocument, Planned
<1> SUFFICES ASSUME doc'[o] # doc[o]
             PROVE  /\ doc[o].st \in LiveStatus /\ doc'[o].st \in LiveStatus
                    /\ doc'[o].qty = doc[o].qty /\ doc'[o].notice = doc[o].notice
  OBVIOUS
<1> PICK s \in Sessions : req[s].doc = o /\ SavesOutbound(s)
  BY OutboundWriter
<1>2. ~ Refuse(s)
  BY DEF Refuse, data
<1>3. Finish(s)
  BY <1>2 DEF SavesOutbound, SaveCreateOutbound, CommitFromNotice, SaveCancelOutbound,
     SavePostOutbound, AssertStatusTransition, SaveReverseOutbound
<1>4. s # t
  BY <1>3, FinishIdles DEF PostOrReverse
<1>5. ~ SaveCreateOutbound(s)
  BY <1>1, <1>4 DEF SaveCreateOutbound, InsertFree, RowFree
<1>6. ~ CommitFromNotice(s)
  <2> SUFFICES ASSUME CommitFromNotice(s) PROVE FALSE
    OBVIOUS
  <2>1. req[s].plan = <<ProductionOrder, req[s].notice>> /\ req[s].held = Len(req[s].plan)
    BY DEF CommitFromNotice, At, DocInv, NoStaleDocument, Planned
  <2>2. lock[ProductionOrder] = s
    BY <2>1 DEF DocInv, NoStaleDocument, Holds
  <2> QED
    BY <1>1, <1>4, <2>2
<1>7. ~ SavePostOutbound(s) /\ ~ SaveReverseOutbound(s)
  BY <1>1, <1>4, MovedOutbound, HoldsOrder DEF PostOrReverse
<1>8. ~ SaveCancelOutbound(s)
  <2>1. req[s].op \in Endpoints \cup {"idle"}
    BY DEF DocInv, TypeInv, TypeOK, Request
  <2> QED
    BY <2>1 DEF SaveCancelOutbound, At
<1> QED
  BY <1>2, <1>5, <1>6, <1>7, <1>8, Delivered DEF SavesOutbound

\* ... and its notice can only be cancelled.
LEMMA NoticeHeld ==
    ASSUME "cancelOutbound" \notin Endpoints, DocInv, [Next]_vars, NEW t \in Sessions,
           req'[t] = req[t], req[t].op \in DOMAIN PostOrReverse, req[t].step = "save",
           NEW n \in Notices, notice[n].st # "absent", NoticeInv
    PROVE  /\ notice'[n].qty = notice[n].qty
           /\ notice[n].st = "cancelled" => notice'[n].st = "cancelled"
<1>1. lock[ProductionOrder] = t /\ t # NoOne
  BY HoldsOrder, RequestFacts DEF PostOrReverse, DocInv, NoStaleDocument, Planned
<1> SUFFICES ASSUME notice'[n] # notice[n]
             PROVE  /\ notice'[n].qty = notice[n].qty
                    /\ notice[n].st = "cancelled" => notice'[n].st = "cancelled"
  OBVIOUS
<1> PICK s \in Sessions : SavesNotice(s)
  BY NoticeWriter
<1>2. ~ Refuse(s)
  BY DEF Refuse, data
<1>3. Finish(s) /\ req[s].notice = n
  BY SavesOwnNotice
<1>4. s # t
  BY <1>3, FinishIdles DEF PostOrReverse
<1>5. ~ CommitCreateNotice(s)
  BY <1>3 DEF CommitCreateNotice, At, NoticeInv, CarriesFigures
<1>6. ~ CommitFromNotice(s)
  <2> SUFFICES ASSUME CommitFromNotice(s) PROVE FALSE
    OBVIOUS
  <2>1. req[s].plan = <<ProductionOrder, req[s].notice>> /\ req[s].held = Len(req[s].plan)
    BY DEF CommitFromNotice, At, DocInv, NoStaleDocument, Planned
  <2>2. lock[ProductionOrder] = s
    BY <2>1 DEF DocInv, NoStaleDocument, Holds
  <2> QED
    BY <1>1, <1>4, <2>2
<1>7. ~ SavePostOutbound(s) /\ ~ SaveReverseOutbound(s)
  BY <1>1, <1>4, MovedOutbound, HoldsOrder DEF PostOrReverse
<1>8. ~ SaveCancelOutbound(s)
  <2>1. req[s].op \in Endpoints \cup {"idle"}
    BY DEF DocInv, TypeInv, TypeOK, Request
  <2> QED
    BY <2>1 DEF SaveCancelOutbound, At
<1>9. CommitCancelNotice(s)
  BY <1>5, <1>6, <1>7, <1>8 DEF SavesNotice
<1>10. notice' = [notice EXCEPT ![n].st = "cancelled"]
  BY <1>2, <1>3, <1>9 DEF CommitCancelNotice
<1>11. \A x \in NoticeRow : LET y == [x EXCEPT !.st = "cancelled"]
                            IN  y.st = "cancelled" /\ y.qty = x.qty
  BY DEF NoticeRow
<1>12. notice \in [Notices -> NoticeRow]
  BY DEF DocInv, TypeInv, TypeOK
<1>13. notice' = [notice EXCEPT ![n] = [notice[n] EXCEPT !.st = "cancelled"]]
  BY <1>10, <1>12
<1> QED
  BY <1>11, <1>12, <1>13

\* The row a posting or reversing request is about to save.
LEMMA MovedRequest ==
    ASSUME DocInv, NoticeInv, NEW t \in Sessions, req[t].op \in DOMAIN PostOrReverse
    PROVE  /\ req[t].doc \in Outbounds /\ doc[req[t].doc].st # "absent"
           /\ req[t].notice = doc[req[t].doc].notice
           /\ req[t].notice \in Notices \cup {NoOne}
           /\ req[t].notice \in Notices => notice[req[t].notice].st # "absent"
           /\ req[t].sync = Keep \/ req[t].notice \in Notices
<1>1. /\ req[t].doc \in Outbounds /\ req[t].notice \in Notices \cup {NoOne}
      /\ req[t].sync = Keep \/ req[t].notice \in Notices
  BY DEF DocInv, TypeInv, TypeOK, Request, Shape, OutboundOps, PostOrReverse
<1>2. doc[req[t].doc].st # "absent" /\ req[t].notice = doc[req[t].doc].notice
  BY DEF NoticeInv, CarriesFigures
<1>3. req[t].notice \in Notices => notice[req[t].notice].st # "absent"
  BY <1>1, <1>2 DEF NoticeInv, NoticeRight
<1> QED
  BY <1>1, <1>2, <1>3

\* The figures it carries.
CarriesSync(t) ==
    LET n == req[t].notice
    IN  IF req[t].sync = Keep
        THEN n = NoOne \/ notice[n].st = "cancelled"
        ELSE req[t].sync = Figures(SetStatus(req[t].doc, PostOrReverse[req[t].op]),
                                   n, notice[n].qty)

LEMMA SyncPassed ==
    ASSUME DocInv, NoticeInv, [Next]_vars, NEW t \in Sessions, req'[t] # req[t],
           req'[t].op \in DOMAIN PostOrReverse, req'[t].step = "save"
    PROVE  CarriesSync(t)'
<1>1. /\ Checks(t) /\ ~ Refuse(t) /\ doc' = doc /\ notice' = notice
      /\ req'[t].op = req[t].op /\ req'[t].doc = req[t].doc /\ req'[t].notice = req[t].notice
  BY PassedCheck
<1>2. CheckPostOutbound(t) \/ UpdateReverseOutbound(t) \/ CheckReverseOutbound(t)
  BY <1>1 DEF Checks, CheckCreateReceipt, CheckPostReceipt, CheckReverseReceipt, CountDrafts,
     CheckReservation, CheckCancelOutbound, CheckReverseReturn, At, PostOrReverse
<1>3. req'[t].sync = SyncNoticeStatus(SetStatus(req[t].doc, PostOrReverse[req[t].op]),
                                      req[t].notice)
  <2>1. CASE CheckPostOutbound(t)
    <3>1. Proceed(t, "save", SyncNoticeStatus(SetStatus(req[t].doc, "posted"), req[t].notice))
          /\ req[t].op = "postOutbound"
      BY <1>1, <2>1 DEF CheckPostOutbound, At
    <3> QED
      BY <3>1, ProceedFacts DEF PostOrReverse
  <2>2. CASE UpdateReverseOutbound(t)
    <3> DEFINE sync == SyncNoticeStatus(SetStatus(req[t].doc, "reversed"), req[t].notice)
    <3>1. /\ req' = [req EXCEPT ![t] = Stepped(req[t], "save", sync)]
          /\ req[t].op = "reverseOutbound"
      BY <2>2 DEF UpdateReverseOutbound, At, Stepped
    <3> HIDE DEF sync
    <3>2. Stepped(req[t], "save", sync).sync = sync /\ req[t] \in Request
      BY DEF Stepped, DocInv, TypeInv, TypeOK, Request
    <3>3. req'[t].sync = sync
      BY <3>1, <3>2 DEF DocInv, TypeInv, TypeOK
    <3> QED
      BY <3>1, <3>3 DEF sync, PostOrReverse
  <2>3. CASE CheckReverseOutbound(t)
    <3>1. Proceed(t, "update", Keep)
      BY <1>1, <2>3 DEF CheckReverseOutbound
    <3> QED
      BY <3>1, ProceedFacts
  <2> QED
    BY <1>2, <2>1, <2>2, <2>3
<1>4. req'[t].sync = IF req[t].notice = NoOne \/ notice[req[t].notice].st = "cancelled"
                     THEN Keep
                     ELSE Figures(SetStatus(req[t].doc, PostOrReverse[req[t].op]),
                                  req[t].notice, notice[req[t].notice].qty)
  BY <1>3, SyncIsFigures
<1>5. Figures(SetStatus(req[t].doc, PostOrReverse[req[t].op]),
              req[t].notice, notice[req[t].notice].qty) # Keep
  BY FiguresAre
<1> QED
  BY <1>1, <1>4, <1>5 DEF CarriesSync, SetStatus

LEMMA SyncKept ==
    ASSUME "cancelOutbound" \notin Endpoints, DocInv, NoticeInv, [Next]_vars,
           NEW t \in Sessions, req'[t] = req[t],
           req[t].op \in DOMAIN PostOrReverse, req[t].step = "save"
    PROVE  CarriesSync(t)'
<1> DEFINE d == req[t].doc
<1> DEFINE n == req[t].notice
<1> DEFINE st == PostOrReverse[req[t].op]
<1>0. CarriesSync(t) /\ TypeInv /\ TypeInv'
  BY TypeNext DEF NoticeInv, CarriesFigures, CarriesSync, DocInv
<1>1. /\ d \in Outbounds
      /\ n \in Notices \cup {NoOne}
      /\ n # NoOne => n \in Notices
      /\ n \in Notices => notice[n].st # "absent"
      /\ req[t].sync = Keep \/ n \in Notices
  BY MovedRequest
<1>2. n \in Notices => /\ notice'[n].qty = notice[n].qty
                       /\ notice[n].st = "cancelled" => notice'[n].st = "cancelled"
  BY <1>1, NoticeHeld
<1> DEFINE rows  == SetStatus(d, st)
<1> DEFINE other == [doc' EXCEPT ![d].st = st]
<1>3. ASSUME NEW o \in Outbounds
      PROVE  \/ other[o] = rows[o]
             \/ /\ o # d /\ rows[o].st \in LiveStatus /\ other[o].st \in LiveStatus
                /\ other[o].qty = rows[o].qty /\ other[o].notice = rows[o].notice
             \/ /\ o = d /\ rows[o].st = st /\ other[o].st = st
                /\ other[o].qty = rows[o].qty /\ other[o].notice = rows[o].notice
  <2>1. /\ doc \in [Docs -> DocRow]
        /\ doc' \in [Docs -> DocRow]
        /\ o \in Docs
        /\ d \in Docs
    <3>1. doc \in [Docs -> DocRow] /\ doc' \in [Docs -> DocRow]
      BY <1>0 DEF TypeInv, TypeOK
    <3>2. o \in Docs /\ d \in Docs
      BY <1>1, <1>3 DEF Docs
    <3> QED
      BY <3>1, <3>2
  <2>2. \/ doc'[o] = doc[o]
        \/ /\ doc[o].st \in LiveStatus /\ doc'[o].st \in LiveStatus
           /\ doc'[o].qty = doc[o].qty /\ doc'[o].notice = doc[o].notice
    BY OrderHeld
  <2>3. CASE o # d
    BY <2>1, <2>2, <2>3 DEF SetStatus
  <2>4. CASE o = d
    <3>1. rows[o] = [doc[o] EXCEPT !.st = st] /\ other[o] = [doc'[o] EXCEPT !.st = st]
      BY <2>1, <2>4 DEF SetStatus
    <3>2. \A x \in DocRow : LET y == [x EXCEPT !.st = st]
                            IN  y.st = st /\ y.qty = x.qty /\ y.notice = x.notice
      BY DEF DocRow
    <3>3. doc[o] \in DocRow /\ doc'[o] \in DocRow
      BY <2>1
    <3>4. doc'[o].qty = doc[o].qty /\ doc'[o].notice = doc[o].notice
      BY <2>2
    <3> HIDE DEF rows, other
    <3> QED
      BY <2>4, <3>1, <3>2, <3>3, <3>4
  <2> QED
    BY <2>3, <2>4
<1> HIDE DEF rows, other
<1>4. SameOf(rows, other, n)
  BY <1>3 DEF SameOf, Live, Drafted, OfNotice, InStatus, LiveStatus
<1>5. \A qty : Figures(other, n, qty) = Figures(rows, n, qty)
  BY <1>4, SameFigures
<1>6. IF req[t].sync = Keep
      THEN n = NoOne \/ notice[n].st = "cancelled"
      ELSE req[t].sync = Figures(rows, n, notice[n].qty)
  BY <1>0 DEF CarriesSync, rows
<1>7. IF req'[t].sync = Keep
      THEN n = NoOne \/ notice'[n].st = "cancelled"
      ELSE req'[t].sync = Figures(other, n, notice'[n].qty)
  <2>1. CASE req[t].sync = Keep
    BY <1>1, <1>2, <1>6, <2>1
  <2>2. CASE req[t].sync # Keep
    <3>1. n \in Notices
      BY <1>1, <2>2
    <3>2. notice'[n].qty = notice[n].qty
      BY <1>2, <3>1
    <3>3. Figures(other, n, notice[n].qty) = Figures(rows, n, notice[n].qty)
      BY <1>5
    <3> QED
      BY <1>6, <2>2, <3>2, <3>3
  <2> QED
    BY <2>1, <2>2
<1> QED
  BY <1>7 DEF CarriesSync, SetStatus, other

LEMMA CarriedStaysRight ==
    ASSUME "cancelOutbound" \notin Endpoints, DocInv, NoticeInv, [Next]_vars, NEW t \in Sessions
    PROVE  CarriesFigures(t)'
<1>0. CarriesFigures(t)
  BY DEF NoticeInv
<1>1. CASE BeginRequest(t)
  <2>1. req'[t].step = "check" /\ doc' = doc /\ notice' = notice
        /\ \A u \in Sessions \ {t} : req'[u] = req[u]
    BY <1>1, BeginMoves
  <2>2. /\ req'[t].op = "createOutbound" => req'[t].notice = NoOne
        /\ req'[t].op = "createNotices" => FreshNotice(req'[t].notice)
        /\ req'[t].op \in DOMAIN PostOrReverse =>
             /\ doc[req'[t].doc].st # "absent"
             /\ req'[t].notice = doc[req'[t].doc].notice
    BY <1>1, BeginNames
  <2> QED
    BY <2>1, <2>2 DEF CarriesFigures, FreshNotice
<1>2. CASE req'[t] = Idle
  BY <1>2 DEF CarriesFigures, PostOrReverse, Idle, NewRequest
<1>3. CASE /\ req'[t].op = req[t].op /\ req'[t].doc = req[t].doc
           /\ req'[t].notice = req[t].notice
  <2>1. req'[t].op = "createOutbound" => req'[t].notice = NoOne
    BY <1>0, <1>3 DEF CarriesFigures
  <2>2. req'[t].op = "createNotices" =>
          /\ notice'[req'[t].notice].st = "absent"
          /\ \A u \in Sessions \ {t} : req'[u].notice # req'[t].notice
    BY <1>3, NewNoticeKept
  <2>3. req'[t].op \in DOMAIN PostOrReverse =>
          /\ doc'[req'[t].doc].st # "absent"
          /\ req'[t].notice = doc'[req'[t].doc].notice
    BY <1>3, MovedRequest, NoticeFieldKept
  <2>4. req'[t].op \in DOMAIN PostOrReverse /\ req'[t].step = "save" => CarriesSync(t)'
    BY <1>3, SyncPassed, SyncKept
  <2> QED
    BY <2>1, <2>2, <2>3, <2>4 DEF CarriesFigures, CarriesSync
<1> QED
  BY <1>1, <1>2, <1>3, RequestMoves

LEMMA NoticeInvariant ==
    ASSUME "cancelOutbound" \notin Endpoints
    PROVE  Spec => []NoticeInv
<1>1. Init => NoticeInv
  <2> SUFFICES ASSUME Init PROVE NoticeInv
    OBVIOUS
  <2>1. ASSUME NEW n \in Notices PROVE NoticeRight(n)
    <3>1. Live(doc, n) = {} /\ Drafted(doc, n) = {}
      BY DEF Init, Live, Drafted, OfNotice, InStatus, LiveStatus, Docs
    <3>2. Total(doc, {}) = 0
      <4>1. {p \in {} \X Quantities : p[2] <= doc[p[1]].qty} = {}
        OBVIOUS
      <4> QED
        BY <4>1, FS_EmptySet DEF Total
    <3>3. notice[n].st = "absent" /\ notice[n].qty = 1
      BY DEF Init
    <3>4. \A o \in Outbounds : doc[o].notice # n
      BY DistinctIds DEF Init, Docs, Rows
    <3> QED
      BY <3>1, <3>2, <3>3, <3>4 DEF NoticeRight, Live, Drafted
  <2>2. \A s \in Sessions : CarriesFigures(s)
    BY DEF Init, CarriesFigures, PostOrReverse, Idle, NewRequest
  <2> QED
    BY <2>1, <2>2 DEF NoticeInv
<1>2. DocInv /\ NoticeInv /\ [Next]_vars => NoticeInv'
  BY NoticesStayRight, CarriedStaysRight DEF NoticeInv
<1> QED
  BY <1>1, <1>2, DocInvariant, PTL DEF Spec

(***************************************************************************)
(* As long as no outbound is cancelled, the figures of every open notice   *)
(* are those of its outbounds - even while requests are working on it.     *)
(***************************************************************************)
THEOREM NoticesFollowOutbounds ==
    ASSUME "cancelOutbound" \notin Endpoints
    PROVE  Spec => []NoticeReflectsOutbounds
<1>1. NoticeInv => NoticeReflectsOutbounds
  <2> SUFFICES ASSUME NoticeInv, NEW n \in Notices, notice[n].st \notin {"absent", "cancelled"}
               PROVE  SyncNoticeStatus(doc, n) = [st |-> notice[n].st, shipped |-> notice[n].shipped]
    BY DEF NoticeReflectsOutbounds
  <2>1. n # NoOne
    BY DistinctIds DEF Rows
  <2> QED
    BY <2>1, SyncIsFigures DEF NoticeInv, NoticeRight
<1> QED
  BY <1>1, NoticeInvariant, PTL

(***************************************************************************)
(* ... no notice is shipped, or drafted, beyond its quantity ...           *)
(***************************************************************************)
THEOREM NoticesAreNotOvershipped ==
    ASSUME "cancelOutbound" \notin Endpoints
    PROVE  Spec => []NoticeNotOvershipped
<1>1. DocInv /\ NoticeInv => NoticeNotOvershipped
  <2> SUFFICES ASSUME DocInv, NoticeInv, NEW n \in Notices
               PROVE  Total(doc, Live(doc, n)) <= notice[n].qty
    BY DEF NoticeNotOvershipped, Live
  <2>1. Total(doc, Live(doc, n)) + Total(doc, Drafted(doc, n)) <= notice[n].qty
    BY DEF NoticeInv, NoticeRight, Live, Drafted
  <2>2. /\ Total(doc, Live(doc, n)) \in Nat /\ Total(doc, Drafted(doc, n)) \in Nat
        /\ notice[n].qty \in Nat
    BY OfNoticeDocs, NoticeTypes DEF DocInv
  <2> QED
    BY <2>1, <2>2
<1> QED
  BY <1>1, DocInvariant, NoticeInvariant, PTL

(***************************************************************************)
(* ... and a notice that is cancelled has no draft left, although          *)
(* cancelNotice counts the drafts without a lock.                          *)
(***************************************************************************)
THEOREM CancelledNoticesHaveNoDraft ==
    ASSUME "cancelOutbound" \notin Endpoints
    PROVE  Spec => []NoDanglingDraft
<1>1. NoticeInv => NoDanglingDraft
  BY DEF NoticeInv, NoticeRight, NoDanglingDraft
<1> QED
  BY <1>1, NoticeInvariant, PTL
=============================================================================
