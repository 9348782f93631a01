------------------------------- MODULE Issuing -------------------------------
(***************************************************************************)
(* Raw-material movements: an issue is drafted, submitted to the stores,   *)
(* posted, withdrawn, reopened or reversed; returns and scraps dispose of  *)
(* what a posted issue took out.  A replenishment is an issue here.        *)
(***************************************************************************)
EXTENDS MaterialsDb

IsDraft(m) == Live(m, "draft")

-----------------------------------------------------------------------------
(* What PostgreSQL's serializable snapshots see: the row of a document,    *)
(* the documents derived from it, the balance of the material.             *)
Row(m) == <<"row", m>>
Derived(m) == <<"derived", m>>
TheBalance == <<"balance", NoDoc>>

SourceOf(m) == IF mov[m].kind \in {"return", "scrap"} THEN {mov[m].of} \ {NoDoc} ELSE {}

\* The stock effect of a job: what it adds to the facts of the material.
Effect(j) ==
    LET m == j.doc
    IN CASE j.op = "postIssue" -> -mov[m].qty
         [] j.op = "postDerived" -> IF mov[m].kind = "return" THEN mov[m].qty ELSE -mov[m].qty
         [] OTHER -> -j.arg

\* Mutant: the disposed quantity is checked before the transaction.
ReadsItsRow(j) ==
    {Row(j.doc)} \cup (IF j.op = "postIssue" THEN {TheBalance} ELSE {})

Reads(j) ==
    LET m == j.doc
    IN {Row(m)}
       \cup (IF j.op = "postIssue" THEN {TheBalance} ELSE {})
       \cup (IF j.op \in {"reopen", "reverseMovement"} /\ mov[m].kind = "issue" THEN {Derived(m)} ELSE {})
       \cup (IF j.op = "reverseMovement" /\ j.arg > 0 /\ mov[m].cat = "raw_material" THEN {TheBalance} ELSE {})
       \cup (IF j.op = "postDerived" THEN UNION {{Row(d), Derived(d)} : d \in SourceOf(m)} ELSE {})

Writes(j) ==
    LET m == j.doc
    IN {Row(m)}
       \cup (IF Effect(j) # 0 THEN {TheBalance} ELSE {})
       \cup {Derived(d) : d \in SourceOf(m)}

\* Mutant: only a concurrent update of the same row is noticed.
SameRow(j, k) ==
    j.op \in Serializable /\ k.op \in Serializable /\ j.doc = k.doc

Conflict(j, k) ==
    /\ j.op \in Serializable /\ k.op \in Serializable
    /\ Reads(j) \cap Writes(k) # {}
    /\ Reads(k) \cap Writes(j) # {}

\* Mutant: READ COMMITTED.
CommitReadCommitted(s) == job' = [job EXCEPT ![s] = Idle]

\* A serializable job commits: no concurrent one that conflicts with it can.
CommitSerializable(s) ==
    /\ ~job[s].doomed
    /\ job' = [t \in Sessions |->
                 IF t = s THEN Idle
                 ELSE [job[t] EXCEPT !.doomed = @ \/ Conflict(job[s], job[t])]]

\* Another transaction wrote the row of m: its readers cannot update it any more.
Overwrites(m, idle) ==
    job' = [t \in Sessions |->
              IF t \in idle THEN Idle
              ELSE [job[t] EXCEPT !.doomed = @ \/ (job[t].op \in Serializable /\ job[t].doc = m)]]

\* Any request may fail without a trace, a doomed one must.
Rollback(s) ==
    /\ job[s] # Idle
    /\ Done(s)
    /\ UNCHANGED <<tables, desk, past>>

-----------------------------------------------------------------------------
CreateIssue(m, q) ==
    /\ mov[m].status = "none"
    /\ mov' = [mov EXCEPT ![m] = [NoMovement EXCEPT !.kind = "issue", !.status = "draft", !.qty = q]]
    /\ UNCHANGED <<batch, notice, inb, fact, job, desk, past>>

\* derivedLines: the source is a posted issue and has that much left.
DerivedLinesFit(of, q) ==
    /\ of # NoDoc
    /\ mov[of].kind = "issue" /\ Live(of, "posted")
    /\ q <= mov[of].qty - Consumed(of)

CreateDerived(m, kind, of, q) ==
    /\ mov[m].status = "none"
    /\ DerivedLinesFit(of, q)
    /\ mov' = [mov EXCEPT ![m] = [NoMovement EXCEPT !.kind = kind, !.status = "draft", !.qty = q, !.of = of,
                                    !.cat = IF kind = "return" THEN "raw_material" ELSE "scrap"]]
    /\ UNCHANGED <<batch, notice, inb, fact, job, desk, past>>

\* The line is replaced: it has no source, and documents derived from the
\* old line have lost theirs.  Any draft may be edited, a return too.
UpdateIssue(m, q) ==
    /\ IsDraft(m)
    /\ mov' = [d \in Movements |->
                 IF d = m THEN [mov[m] EXCEPT !.qty = q, !.of = NoDoc]
                 ELSE IF mov[d].of = m THEN [mov[d] EXCEPT !.of = NoDoc] ELSE mov[d]]
    /\ Overwrites(m, {})
    /\ UNCHANGED <<batch, notice, inb, fact, desk, past>>

\* Nothing reads the quantity or the source of a deleted draft.
RemoveIssue(m) ==
    /\ IsDraft(m)
    /\ mov' = [mov EXCEPT ![m].deleted = TRUE, ![m].qty = 0, ![m].of = NoDoc]
    /\ Overwrites(m, {})
    /\ UNCHANGED <<batch, notice, inb, fact, desk, past>>

SubmitOutbound(m) ==
    /\ IsDraft(m) /\ mov[m].kind = "issue"
    /\ Balance - mov[m].qty >= 0
    /\ mov' = [mov EXCEPT ![m].status = "pending_outbound"]
    /\ Overwrites(m, {})
    /\ UNCHANGED <<batch, notice, inb, fact, desk, past>>

-----------------------------------------------------------------------------
\* The advisory locks order the waiters; the snapshot is older than the wait.
PostOutboundBegin(s, m) ==
    /\ mov[m].kind = "issue" /\ Live(m, "pending_outbound")
    /\ Balance - mov[m].qty >= 0
    /\ Start(s, "postIssue", m, 0)
    /\ UNCHANGED <<tables, desk, past>>

PostDerivedBegin(s, m) ==
    /\ mov[m].kind \in {"return", "scrap"} /\ IsDraft(m)
    /\ DerivedLinesFit(mov[m].of, mov[m].qty)
    /\ Start(s, "postDerived", m, 0)
    /\ UNCHANGED <<tables, desk, past>>

PostCommit(s) ==
    LET m == job[s].doc
    IN /\ job[s].op \in {"postIssue", "postDerived"}
       /\ CommitSerializable(s)
       /\ mov' = [mov EXCEPT ![m].status = "posted"]
       /\ fact' = [fact EXCEPT ![m] = @ + Effect(job[s])]
       /\ UNCHANGED <<batch, notice, inb, desk, past>>

\* reopen of a pending document: READ COMMITTED, no lock, update by id.
WithdrawBegin(s, m) ==
    /\ mov[m].kind = "issue" /\ Live(m, "pending_outbound")
    /\ Start(s, "withdraw", m, 0)
    /\ UNCHANGED <<tables, desk, past>>

WithdrawCommit(s) ==
    LET m == job[s].doc
    IN /\ Working(s, "withdraw")
       /\ mov' = [mov EXCEPT ![m].status = "draft"]
       /\ overtaken' = IF mov[m].status \in {"posted", "reversed"} THEN overtaken \cup {m} ELSE overtaken
       /\ Overwrites(m, {s})
       /\ UNCHANGED <<batch, notice, inb, fact, desk, peak, overdrawn>>

\* arg: the net of the facts of the document, which the offset facts negate.
ReopenBegin(s, m) ==
    /\ mov[m].kind = "issue" /\ Live(m, "posted")
    /\ Dependents(m) = {}
    /\ Start(s, "reopen", m, fact[m])
    /\ UNCHANGED <<tables, desk, past>>

ReopenCommit(s) ==
    LET m == job[s].doc
    IN /\ Working(s, "reopen")
       /\ CommitSerializable(s)
       /\ mov' = [mov EXCEPT ![m].status = "draft"]
       /\ fact' = [fact EXCEPT ![m] = @ + Effect(job[s])]
       /\ UNCHANGED <<batch, notice, inb, desk, past>>

\* No test on the type: a reversal can itself be reversed.
ReverseBegin(s, m) ==
    /\ Live(m, "posted")
    /\ mov[m].kind = "issue" => Dependents(m) = {}
    /\ fact[m] > 0 /\ mov[m].cat = "raw_material" => Balance - fact[m] >= 0
    /\ Start(s, "reverseMovement", m, fact[m])
    /\ UNCHANGED <<tables, desk, past>>

ReverseCommit(s, r) ==
    LET m == job[s].doc
    IN /\ Working(s, "reverseMovement")
       /\ mov[r].status = "none"
       /\ CommitSerializable(s)
       /\ mov' = [mov EXCEPT ![m].status = "reversed",
                             ![r] = [kind |-> "reversal", status |-> "posted", deleted |-> FALSE,
                                     qty |-> mov[m].qty, of |-> m, cat |-> mov[m].cat]]
       /\ fact' = [fact EXCEPT ![r] = Effect(job[s])]
       /\ UNCHANGED <<batch, notice, inb, desk, past>>

\* From the draft of an issue to its posting.
OutboundStep ==
    \/ \E m \in Movements, q \in Qty : CreateIssue(m, q)
    \/ \E m \in Movements : SubmitOutbound(m)
    \/ \E s \in Sessions, m \in Movements : PostOutboundBegin(s, m)
    \/ \E s \in Sessions : PostCommit(s)

\* Everything else that happens to issues and what is derived from them.
CorrectingStep ==
    \/ \E m \in Movements, q \in Qty : UpdateIssue(m, q)
    \/ \E m, of \in Movements, kind \in {"return", "scrap"}, q \in Qty : CreateDerived(m, kind, of, q)
    \/ \E m \in Movements : RemoveIssue(m)
    \/ \E s \in Sessions, m \in Movements :
         \/ PostDerivedBegin(s, m) \/ WithdrawBegin(s, m)
         \/ ReopenBegin(s, m) \/ ReverseBegin(s, m) \/ ReverseCommit(s, m)
    \/ \E s \in Sessions : WithdrawCommit(s) \/ ReopenCommit(s)
=============================================================================
