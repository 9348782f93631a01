------------------------------- MODULE MCAgent -------------------------------
(***************************************************************************)
(* Small instances of the business-query agent for TLC.                    *)
(***************************************************************************)
EXTENDS AgentPages, TLC

CONSTANTS r1, r2, ann

AllOfOneUser == [r \in Runs |-> ann]
OwnKeys == [r \in Runs |-> r]
\* r2 is r1 sent again: the same session and client_message_id.
RetryOfFirst == [r \in Runs |-> IF r = r2 THEN r1 ELSE r]

\* Sound where nothing tells two runs apart: AllOfOneUser and no liveness.
SameUserRuns == Permutations(Runs)

(***************************************************************************)
(* Bounds of agent_pages.  While one question has been asked: two things   *)
(* go wrong.  Beside a second one: one connection lost or one reload, no   *)
(* tool calls, one piece of an answer, and the service deals with one run  *)
(* at a time (the runs' own interleavings are agent_runs').                *)
(***************************************************************************)
Asked == {r \in Runs : ask[r] # "idle"}
Upsets == drops + reloads + crashes + Cardinality(denied)
InWork(r) == \/ orch[r].pc # "none" \/ canc[r] # "no" \/ ask[r] \in {"looked", "insert"}
             \/ \E p \in Pages : Stops(p, r)
OneQuestion == Cardinality(Asked) <= 1 /\ Upsets <= 2
TwoQuestions ==
    /\ drops + reloads <= 1 /\ crashes = 0 /\ denied = {}
    /\ Cardinality({r \in Runs : InWork(r)}) <= 1
    /\ \A r, q \in Runs : r # q => Deltas(r) + Deltas(q) <= 1
    /\ \A r \in Runs : \A i \in 1..Len(log[r]) : log[r][i].type # "tool_status"
FewUpsets == OneQuestion \/ TwoQuestions
=============================================================================
