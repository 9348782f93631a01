------------------------------- MODULE RunLog -------------------------------
(***************************************************************************)
(* The agent's own tables: one row per run (one question of one user) and  *)
(* the numbered events of the run.  Every change of a run goes through the *)
(* conditional update of transitionAndAppend, which moves the row and adds *)
(* the events in one database transaction.                                 *)
(***************************************************************************)
EXTENDS Integers, Sequences, FiniteSets

CONSTANT Runs          \* ids of the runs the requests would create

ASSUME FiniteRuns == IsFiniteSet(Runs)

VARIABLES
    run,    \* agent_runs.state of each run, "absent" before the INSERT
    log     \* agent_run_events of each run, in the order of seq

Active   == {"planning", "querying", "responding"}
Terminal == {"completed", "failed", "cancelled"}
RunState == {"absent"} \cup Active \cup Terminal

Transitions ==
    [planning   |-> {"querying", "responding", "failed", "cancelled"},
     querying   |-> {"responding", "failed", "cancelled"},
     responding |-> {"completed", "failed", "cancelled"}]

(***************************************************************************)
(* An event has a type; a "state" event also names the new state.          *)
(***************************************************************************)
TerminalTypes == {"completed", "error", "cancelled"}
InternalTypes == {"tool_args"}
EventTypes == {"state", "tool_args", "tool_status", "source", "answer_delta"}
                 \cup TerminalTypes
Events == [type : EventTypes, state : RunState]

Event(type)  == [type |-> type, state |-> "absent"]
StateEvent(s) == [type |-> "state", state |-> s]

\* The event that tells the reader how the run ended.
EndEvent(s) == Event(IF s = "failed" THEN "error" ELSE s)

InsertRun(r) ==
    /\ run[r] = "absent"
    /\ run' = [run EXCEPT ![r] = "planning"]
    /\ log' = [log EXCEPT ![r] = <<StateEvent("planning")>>]

\* A faulty variant: an UPDATE that does not look at the state it replaces.
WriteAnyway(r, from, to, events) ==
    /\ to = from \/ to \in Transitions[from]
    /\ run' = [run EXCEPT ![r] = to]
    /\ log' = [log EXCEPT ![r] =
                 @ \o (IF to = from THEN << >> ELSE <<StateEvent(to)>>) \o events]

\* transitionAndAppend: UPDATE ... WHERE state = from, then the events.
Write(r, from, to, events) ==
    /\ run[r] = from
    /\ to = from \/ to \in Transitions[from]
    /\ run' = [run EXCEPT ![r] = to]
    /\ log' = [log EXCEPT ![r] =
                 @ \o (IF to = from THEN << >> ELSE <<StateEvent(to)>>) \o events]

\* A caller that swallows the error of a refused update.
WriteIfStill(r, from, to, events) ==
    IF run[r] = from THEN Write(r, from, to, events) ELSE UNCHANGED <<run, log>>

\* The pieces of the answer among the first n events.
DeltasUpTo(r, n) == Cardinality({i \in 1..n : log[r][i].type = "answer_delta"})
Deltas(r) == DeltasUpTo(r, Len(log[r]))
=============================================================================
