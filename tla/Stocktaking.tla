----------------------------- MODULE Stocktaking -----------------------------
(***************************************************************************)
(* The monthly stocktake: what was counted is uploaded as a draft, edited, *)
(* and confirmed into an adjustment of the stock, which a reversal takes   *)
(* back.  Requests lock the stocktake itself or nothing, and never the     *)
(* material whose balance they read.  A stocktake has one line here, as    *)
(* one file may name a material only once.                                 *)
(***************************************************************************)
EXTENDS MaterialsDb

VARIABLE count   \* stocktakes, each with its line

StocktakeRows ==
    [status : {"none", "draft", "confirmed", "reversed"}, deleted : BOOLEAN,
     line : BOOLEAN, actual : 0..MaxQty, applied : Int]

NoStocktake ==
    [status |-> "none", deleted |-> FALSE, line |-> FALSE, actual |-> 0, applied |-> 0]

otherTables == <<batch, notice, inb, mov>>
history == <<desk, past>>

IsDraftCount(c) == count[c].status = "draft"

\* FOR UPDATE on the stocktake, held to the end.
CountLocked(c) == \E s \in Sessions : job[s].op = "confirmCount" /\ job[s].doc = c

\* Uploading the same file again makes a second draft.
Upload(c, n) ==
    /\ count[c].status = "none"
    /\ count' = [count EXCEPT ![c] = [NoStocktake EXCEPT !.status = "draft", !.line = TRUE, !.actual = n]]
    /\ UNCHANGED <<otherTables, fact, job, history>>

-----------------------------------------------------------------------------
\* The three edits of a draft test the status in a read of its own and write
\* by id.
EditBegin(s, c, op) ==
    /\ op \in {"updateLine", "removeLine"} => count[c].line
    /\ op = "removeStocktake" => ~count[c].deleted
    /\ IsDraftCount(c)
    /\ Start(s, op, c, 0)
    /\ UNCHANGED <<otherTables, fact, count, history>>

EditCommit(s, row) ==
    /\ count' = [count EXCEPT ![job[s].doc] = row]
    /\ Done(s)
    /\ UNCHANGED <<otherTables, fact, history>>

UpdateLineCommit(s, n) ==
    LET c == job[s].doc
    IN /\ Working(s, "updateLine") /\ count[c].line
       /\ EditCommit(s, [count[c] EXCEPT !.actual = n])

\* A fact that names the line keeps its quantity (ON DELETE SET NULL).
RemoveLineCommit(s) ==
    LET c == job[s].doc
    IN /\ Working(s, "removeLine") /\ count[c].line
       /\ EditCommit(s, [count[c] EXCEPT !.line = FALSE])

RemoveStocktakeCommit(s) ==
    LET c == job[s].doc
    IN /\ Working(s, "removeStocktake") /\ ~CountLocked(c)
       /\ EditCommit(s, [count[c] EXCEPT !.deleted = TRUE])

-----------------------------------------------------------------------------
\* Mutant: the status is tested before the lock is taken.
ConfirmCountUnlocked(s, c) ==
    /\ IsDraftCount(c) /\ ~count[c].deleted /\ count[c].line
    /\ Start(s, "confirmCount", c, count[c].actual - Balance)
    /\ UNCHANGED <<otherTables, fact, count, history>>

\* arg: what the balance lacks of the counted quantity, as the request sees it.
ConfirmCountBegin(s, c) ==
    /\ ~CountLocked(c)
    /\ IsDraftCount(c) /\ ~count[c].deleted /\ count[c].line
    /\ Start(s, "confirmCount", c, count[c].actual - Balance)
    /\ UNCHANGED <<otherTables, fact, count, history>>

ConfirmCountCommit(s) ==
    LET c == job[s].doc
    IN /\ Working(s, "confirmCount") /\ count[c].line
       /\ count' = [count EXCEPT ![c].status = "confirmed", ![c].applied = job[s].arg]
       /\ fact' = [fact EXCEPT ![c] = @ + job[s].arg]
       /\ Done(s)
       /\ UNCHANGED <<otherTables, history>>

\* The adjustment of the line is negated, whatever moved since.
ReverseCount(c) ==
    /\ ~CountLocked(c)
    /\ count[c].status = "confirmed" /\ ~count[c].deleted
    /\ count' = [count EXCEPT ![c].status = "reversed"]
    /\ fact' = [fact EXCEPT ![c] = IF count[c].line THEN @ - count[c].applied ELSE @]
    /\ UNCHANGED <<otherTables, job, history>>

StocktakeStep ==
    \/ \E c \in Stocktakes, n \in 0..MaxQty : Upload(c, n)
    \/ \E s \in Sessions, c \in Stocktakes, op \in {"updateLine", "removeLine", "removeStocktake"} :
         EditBegin(s, c, op)
    \/ \E s \in Sessions, n \in 0..MaxQty : UpdateLineCommit(s, n)
    \/ \E s \in Sessions, c \in Stocktakes : ConfirmCountBegin(s, c)
    \/ \E s \in Sessions : RemoveLineCommit(s) \/ RemoveStocktakeCommit(s) \/ ConfirmCountCommit(s)
    \/ \E c \in Stocktakes : ReverseCount(c)
=============================================================================
