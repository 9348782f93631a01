------------------------------ MODULE AgentRuns ------------------------------
(***************************************************************************)
(* The service side of the business-query agent: the controller that       *)
(* creates and cancels runs, the in-process gate, the orchestrator that    *)
(* drives one run, and what a crash and a restart of the API process do.   *)
(* Every await of the code is a point where other requests may act.        *)
(***************************************************************************)
EXTENDS RunLog

CONSTANTS
    UserOf,        \* the user a creation request belongs to
    KeyOf,         \* its session and client_message_id
    MaxActiveRuns, \* AGENT_MAX_ACTIVE_RUNS
    MaxToolSteps,  \* AGENT_MAX_TOOL_STEPS
    MaxPlanSteps,  \* AGENT_MAX_PLAN_STEPS
    MaxFailures,   \* AGENT_MAX_RECOVERABLE_TOOL_FAILURES
    MaxCalls,      \* bound: tool calls in one plan of the model
    MaxChunks,     \* bound: pieces the model streams
    MaxCrashes     \* bound: crashes of the process

ASSUME Bounds ==
    /\ {MaxActiveRuns, MaxToolSteps, MaxPlanSteps, MaxFailures} \subseteq Nat \ {0}
    /\ {MaxCalls, MaxChunks, MaxCrashes} \subseteq Nat

VARIABLES
    ask,      \* progress of the POST that would create each run
    active,   \* ConcurrencyGate.active
    orch,     \* the orchestrator's local state for each run
    aborted,  \* runs whose AbortController has been aborted
    canc,     \* progress of a cancel request for each run
    up,       \* the process serves requests
    crashes,  \* crashes so far
    denied    \* users who lost the role their runs were created with

service == <<ask, active, orch, aborted, canc, up, crashes, denied>>
runVars == <<run, log, service>>
db      == <<run, log>>

AskStates == {"idle", "looked", "insert", "created", "replayed", "refused", "conflict"}
Steps == {"none", "start", "plan", "call", "act", "tool", "authorize", "answer",
          "failing", "end"}
Orch  == [pc : Steps, calls : Int, tried : Nat, fails : Nat, plans : Nat,
          seen : {"none"} \cup Active]
NoOrch == [pc |-> "none", calls |-> 0, tried |-> 0, fails |-> 0, plans |-> 0,
           seen |-> "none"]

RunsInit ==
    /\ run = [r \in Runs |-> "absent"]
    /\ log = [r \in Runs |-> << >>]
    /\ ask = [r \in Runs |-> "idle"]
    /\ active = 0
    /\ orch = [r \in Runs |-> NoOrch]
    /\ aborted = {}
    /\ canc = [r \in Runs |-> "no"]
    /\ up = TRUE
    /\ crashes = 0
    /\ denied = {}

-----------------------------------------------------------------------------
(***************************************************************************)
(* POST /sessions/:id/runs: look the key up, look for an active run, take  *)
(* a permit, insert.  Only the unique indexes see a concurrent request.    *)
(***************************************************************************)
Answered(r, how) == ask' = [ask EXCEPT ![r] = how]
KeyTaken(r)  == \E q \in Runs : KeyOf[q] = KeyOf[r] /\ run[q] # "absent"
UserBusy(r)  == \E q \in Runs : UserOf[q] = UserOf[r] /\ run[q] \in Active

LookupKey(r) ==
    /\ up /\ ask[r] = "idle" /\ UserOf[r] \notin denied
    /\ Answered(r, IF KeyTaken(r) THEN "replayed" ELSE "looked")
    /\ UNCHANGED <<db, active, orch, aborted, canc, up, crashes, denied>>

CheckActive(r) ==
    /\ ask[r] = "looked"
    /\ IF UserBusy(r) \/ active >= MaxActiveRuns
         THEN Answered(r, "refused") /\ UNCHANGED active
         ELSE Answered(r, "insert") /\ active' = active + 1
    /\ UNCHANGED <<db, orch, aborted, canc, up, crashes, denied>>

Create(r) ==
    /\ ask[r] = "insert"
    /\ ~ KeyTaken(r) /\ ~ UserBusy(r)
    /\ InsertRun(r)
    /\ Answered(r, "created")
    /\ orch' = [orch EXCEPT ![r] = [NoOrch EXCEPT !.pc = "start"]]
    /\ UNCHANGED <<active, aborted, canc, up, crashes, denied>>

\* A faulty variant: the error path forgets permit.release().
ConflictKeepsPermit(r) ==
    /\ ask[r] = "insert"
    /\ KeyTaken(r) \/ UserBusy(r)
    /\ Answered(r, "conflict")
    /\ UNCHANGED <<db, active, orch, aborted, canc, up, crashes, denied>>

CreateConflict(r) ==
    /\ ask[r] = "insert"
    /\ KeyTaken(r) \/ UserBusy(r)
    /\ Answered(r, "conflict")
    /\ active' = active - 1
    /\ UNCHANGED <<db, orch, aborted, canc, up, crashes, denied>>

-----------------------------------------------------------------------------
(***************************************************************************)
(* The orchestrator.  A refused conditional update throws, and every       *)
(* exception ends in failRun.                                              *)
(***************************************************************************)
At(r, pc) == orch[r].pc = pc
Goto(r, o, pc) == orch' = [orch EXCEPT ![r] = [o EXCEPT !.pc = pc]]
Others == <<ask, active, aborted, canc, up, crashes, denied>>

WriteOrThrow(r, from, to, events, o, pc) ==
    \/ Write(r, from, to, events) /\ Goto(r, o, pc)
    \/ run[r] # from /\ UNCHANGED db /\ Goto(r, o, "failing")

Throw(r) == Goto(r, orch[r], "failing") /\ UNCHANGED db

Budget(o) == o.tried < MaxToolSteps /\ o.plans < MaxPlanSteps

\* Where the loop goes after a call: the next call, the next plan, the answer.
AfterCall(o) ==
    IF o.fails >= MaxFailures THEN "authorize"
    ELSE IF o.calls > 0 THEN "call"
    ELSE IF Budget(o) THEN "plan" ELSE "authorize"

Start(r) ==
    /\ At(r, "start")
    /\ Goto(r, orch[r], IF run[r] = "planning" THEN "plan" ELSE "end")
    /\ UNCHANGED <<db, Others>>

\* The model answers with n tool calls; the first such plan starts querying.
Plan(r) ==
    /\ At(r, "plan") /\ r \notin aborted
    /\ \E n \in 0..MaxCalls :
         LET o  == [orch[r] EXCEPT !.plans = @ + 1, !.calls = n]
             pc == IF n > 0 /\ Budget(o) THEN "call" ELSE "authorize"
         IN  IF orch[r].plans = 0 /\ n > 0
               THEN WriteOrThrow(r, "planning", "querying", << >>, o, pc)
               ELSE Goto(r, o, pc) /\ UNCHANGED db
    /\ UNCHANGED Others

\* A call beyond the budget is dropped; another leaves a trace of its arguments.
Call(r) ==
    /\ At(r, "call")
    /\ LET o == [orch[r] EXCEPT !.calls = @ - 1]
       IN  IF o.tried >= MaxToolSteps
             THEN Goto(r, o, AfterCall(o)) /\ UNCHANGED db
             ELSE /\ Goto(r, [o EXCEPT !.tried = @ + 1], "act")
                  /\ \/ WriteIfStill(r, "querying", "querying", <<Event("tool_args")>>)
                     \/ UNCHANGED db
    /\ UNCHANGED Others

Failed(r) == [orch[r] EXCEPT !.fails = @ + 1]

\* resolveRootCall finds no such order: both events at once, error swallowed.
Reject(r) ==
    /\ At(r, "act")
    /\ WriteIfStill(r, "querying", "querying",
                    <<Event("tool_status"), Event("tool_status")>>)
    /\ Goto(r, Failed(r), AfterCall(Failed(r)))
    /\ UNCHANGED Others

Execute(r) ==
    /\ At(r, "act")
    /\ WriteOrThrow(r, "querying", "querying", <<Event("tool_status")>>, orch[r], "tool")
    /\ UNCHANGED Others

ToolAnswers(r) ==
    /\ At(r, "tool")
    /\ WriteOrThrow(r, "querying", "querying",
                    <<Event("tool_status"), Event("source")>>, orch[r], AfterCall(orch[r]))
    /\ UNCHANGED Others

\* A recoverable error goes back to the model, any other one ends the run.
ToolFails(r) ==
    /\ At(r, "tool")
    /\ WriteIfStill(r, "querying", "querying", <<Event("tool_status")>>)
    /\ \/ Goto(r, Failed(r), AfterCall(Failed(r)))
       \/ Goto(r, orch[r], "failing")
    /\ UNCHANGED Others

Authorize(r) ==
    /\ At(r, "authorize")
    /\ IF UserOf[r] \in denied
         THEN Throw(r)
         ELSE WriteOrThrow(r, IF orch[r].tried > 0 THEN "querying" ELSE "planning",
                           "responding", << >>, orch[r], "answer")
    /\ UNCHANGED Others

StreamAnswer(r) ==
    /\ At(r, "answer") /\ r \notin aborted /\ Deltas(r) < MaxChunks
    /\ WriteOrThrow(r, "responding", "responding", <<Event("answer_delta")>>,
                    orch[r], "answer")
    /\ UNCHANGED Others

Complete(r) ==
    /\ At(r, "answer") /\ r \notin aborted
    /\ WriteOrThrow(r, "responding", "completed", <<EndEvent("completed")>>,
                    orch[r], "end")
    /\ UNCHANGED Others

\* The provider fails, the run times out, or the signal is aborted.
ModelFails(r) ==
    /\ orch[r].pc \in {"plan", "answer"}
    /\ Throw(r)
    /\ UNCHANGED Others

\* A faulty variant: a list of active states that misses responding.
ReadForFailEarly(r) ==
    /\ At(r, "failing") /\ orch[r].seen = "none"
    /\ IF run[r] \in {"planning", "querying"}
         THEN orch' = [orch EXCEPT ![r].seen = run[r]]
         ELSE Goto(r, orch[r], "end")
    /\ UNCHANGED <<db, Others>>

\* failRun reads the state first and then updates from what it read.
ReadForFail(r) ==
    /\ At(r, "failing") /\ orch[r].seen = "none"
    /\ IF run[r] \in Active
         THEN orch' = [orch EXCEPT ![r].seen = run[r]]
         ELSE Goto(r, orch[r], "end")
    /\ UNCHANGED <<db, Others>>

FailRun(r) ==
    /\ At(r, "failing") /\ orch[r].seen # "none"
    /\ WriteIfStill(r, orch[r].seen, "failed", <<EndEvent("failed")>>)
    /\ Goto(r, orch[r], "end")
    /\ UNCHANGED Others

\* The finally of the controller: forget the controller, release the permit.
Finish(r) ==
    /\ At(r, "end")
    /\ orch' = [orch EXCEPT ![r] = NoOrch]
    /\ aborted' = aborted \ {r}
    /\ active' = active - 1
    /\ UNCHANGED <<db, ask, canc, up, crashes, denied>>

OrchestratorStep(r) ==
    \/ Start(r) \/ Plan(r) \/ Call(r) \/ Reject(r) \/ Execute(r)
    \/ ToolAnswers(r) \/ ToolFails(r) \/ Authorize(r)
    \/ StreamAnswer(r) \/ Complete(r) \/ ModelFails(r)
    \/ ReadForFail(r) \/ FailRun(r) \/ Finish(r)

-----------------------------------------------------------------------------
(***************************************************************************)
(* POST /runs/:id/cancel: read the state, update from it, then abort the   *)
(* driver whether or not the update found the row still in that state.     *)
(***************************************************************************)
\* A faulty variant: the terminal states are not told apart.
CancelReadAny(r) ==
    /\ up /\ canc[r] = "no" /\ run[r] # "absent"
    /\ canc' = [canc EXCEPT ![r] = run[r]]
    /\ UNCHANGED <<db, ask, active, orch, aborted, up, crashes, denied>>

CancelRead(r) ==
    /\ up /\ canc[r] = "no" /\ run[r] # "absent"
    /\ canc' = [canc EXCEPT ![r] = IF run[r] \in Active THEN run[r] ELSE "abort"]
    /\ UNCHANGED <<db, ask, active, orch, aborted, up, crashes, denied>>

\* A faulty variant: cancels whatever the run has become since.
CancelAnyway(r) ==
    /\ canc[r] \in Active
    /\ WriteAnyway(r, canc[r], "cancelled", <<EndEvent("cancelled")>>)
    /\ canc' = [canc EXCEPT ![r] = "abort"]
    /\ UNCHANGED <<ask, active, orch, aborted, up, crashes, denied>>

CancelWrite(r) ==
    /\ canc[r] \in Active
    /\ WriteIfStill(r, canc[r], "cancelled", <<EndEvent("cancelled")>>)
    /\ canc' = [canc EXCEPT ![r] = "abort"]
    /\ UNCHANGED <<ask, active, orch, aborted, up, crashes, denied>>

CancelAbort(r) ==
    /\ canc[r] = "abort"
    /\ aborted' = IF At(r, "none") THEN aborted ELSE aborted \cup {r}
    /\ canc' = [canc EXCEPT ![r] = "no"]
    /\ UNCHANGED <<db, ask, active, orch, up, crashes, denied>>

-----------------------------------------------------------------------------
(***************************************************************************)
(* The process dies: everything in memory goes.  On the way up every run   *)
(* still active fails as interrupted before the first request is served.   *)
(***************************************************************************)
Crash ==
    /\ up /\ crashes < MaxCrashes
    /\ up' = FALSE
    /\ crashes' = crashes + 1
    /\ ask' = [r \in Runs |-> IF ask[r] \in {"looked", "insert"} THEN "refused" ELSE ask[r]]
    /\ active' = 0
    /\ orch' = [r \in Runs |-> NoOrch]
    /\ aborted' = {}
    /\ canc' = [r \in Runs |-> "no"]
    /\ UNCHANGED <<db, denied>>

Recover(r) ==
    /\ ~ up /\ run[r] \in Active
    /\ Write(r, run[r], "failed", <<EndEvent("failed")>>)
    /\ UNCHANGED service

\* A faulty variant: requests are served before recovery is through.
ListenEarly ==
    /\ ~ up
    /\ up' = TRUE
    /\ UNCHANGED <<db, ask, active, orch, aborted, canc, crashes, denied>>

Listen ==
    /\ ~ up /\ \A r \in Runs : run[r] \notin Active
    /\ up' = TRUE
    /\ UNCHANGED <<db, ask, active, orch, aborted, canc, crashes, denied>>

Revoke(u) ==
    /\ denied' = denied \cup {u}
    /\ UNCHANGED <<db, ask, active, orch, aborted, canc, up, crashes>>

(***************************************************************************)
(* Rows, logs and the local state of every task have their types.          *)
(***************************************************************************)
RunsTypeOK ==
    /\ run \in [Runs -> RunState]
    /\ log \in [Runs -> Seq(Events)]
    /\ ask \in [Runs -> AskStates]
    /\ active \in Int
    /\ orch \in [Runs -> Orch]
    /\ aborted \subseteq Runs
    /\ canc \in [Runs -> {"no", "abort"} \cup Active]
    /\ up \in BOOLEAN
    /\ denied \subseteq {UserOf[r] : r \in Runs}

RunStep(r) ==
    \/ CheckActive(r) \/ Create(r) \/ CreateConflict(r)
    \/ OrchestratorStep(r)
    \/ CancelWrite(r)
    \/ Recover(r)
=============================================================================
