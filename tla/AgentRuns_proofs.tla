-------------------------- MODULE AgentRuns_proofs --------------------------
(***************************************************************************)
(* Proofs about the business-query agent: the service, and the pages that  *)
(* read it.                                                                *)
(*                                                                         *)
(* Every step changes at most one run's row and log, in one of four ways   *)
(* (DbStep): a run is inserted, goes on to another active state, gets      *)
(* events that do not end it, or ends with its terminal event.  What is    *)
(* said about logs and about the promise to the user follows from that;    *)
(* the permits are counted separately.                                     *)
(*                                                                         *)
(* The pages only read.  What a page holds of a log remains true because   *)
(* logs only grow and an ended run stays (Grows); what is still on the     *)
(* wire continues where its reader is (InStep), and the page is no further *)
(* behind than that (Attuned), until an event of another run reaches it.   *)
(***************************************************************************)
EXTENDS AgentPages, FiniteSetTheorems, TLAPS

\* What the service does for a run: it takes a request up, or goes on with it.
ServiceRun(r) == LookupKey(r) \/ CancelRead(r) \/ RunStep(r)

ServiceStep ==
    \/ \E r \in Runs : ServiceRun(r) \/ CancelAbort(r) \/ Revoke(UserOf[r])
    \/ Listen \/ Crash

(***************************************************************************)
(* The pages read the service and never write it.                          *)
(***************************************************************************)
LEMMA PagesOnlyRead == [Next]_vars => [ServiceStep]_runVars
  <1>1. ASSUME Next PROVE ServiceStep \/ UNCHANGED runVars
    <2>1. CASE \E r \in Runs : Received(r) \/ RunStep(r)
      BY <2>1 DEF ServiceStep, ServiceRun, Received
    <2>2. CASE \E r \in Runs : CancelAnswered(r)
      BY <2>2 DEF ServiceStep, CancelAnswered
    <2>3. CASE Listen
      BY <2>3 DEF ServiceStep
    <2>4. CASE \E r \in Runs : Revoke(UserOf[r])
      BY <2>4 DEF ServiceStep
    <2>5. CASE CrashAll
      BY <2>5 DEF ServiceStep, CrashAll
    <2>6. ASSUME NEW p \in Pages, ReaderStep(p) \/ UserStep(p) PROVE UNCHANGED runVars
      <3>1. UNCHANGED <<db, service>>
        <4>1. CASE ReaderStep(p)
          BY <4>1 DEF ReaderStep, Posted, Open, GiveUp, Send, SendRevoked, Deliver, Restore, Resume, CancelShown
        <4>2. CASE UserStep(p)
          BY <4>2 DEF UserStep, Submit, PostFailed, AskStop, Drop, Reload, Switch, Load, Leave
        <4>3. QED BY <2>6, <4>1, <4>2
      <3>2. QED BY <3>1 DEF db, service, runVars
    <2>7. QED BY <1>1, <2>1, <2>2, <2>3, <2>4, <2>5, <2>6 DEF Next
  <1>2. ASSUME UNCHANGED vars PROVE UNCHANGED runVars
    BY <1>2 DEF vars, runVars, service
  <1>3. QED BY <1>1, <1>2

-----------------------------------------------------------------------------
\* The four ways a row and its log change.
Quiet == {<<Event("tool_args")>>, <<Event("tool_status")>>,
          <<Event("tool_status"), Event("tool_status")>>,
          <<Event("tool_status"), Event("source")>>, <<Event("answer_delta")>>}
Asked(r) == run[r] = "absent" /\ InsertRun(r)
Moved(r) ==
    \E to \in {"querying", "responding"} :
        /\ run[r] \in Active
        /\ run' = [run EXCEPT ![r] = to]
        /\ log' = [log EXCEPT ![r] = @ \o <<StateEvent(to)>>]
Added(r) ==
    \E events \in Quiet :
        /\ run[r] \in Active
        /\ run' = run
        /\ log' = [log EXCEPT ![r] = @ \o events]
Ended(r) ==
    \E to \in Terminal :
        /\ run[r] \in Active
        /\ run' = [run EXCEPT ![r] = to]
        /\ log' = [log EXCEPT ![r] = @ \o <<StateEvent(to), EndEvent(to)>>]
Changed(r) == Asked(r) \/ Moved(r) \/ Added(r) \/ Ended(r)

LEMMA WriteMoves ==
    ASSUME RunsTypeOK, NEW r \in Runs, NEW from \in Active, NEW to \in {"querying", "responding"},
           to # from, Write(r, from, to, << >>)
    PROVE  Moved(r)
  <1>1. log[r] \in Seq(Events) /\ StateEvent(to) \in Events
    BY DEF RunsTypeOK, StateEvent, Events, EventTypes, RunState, Active
  <1>2. log[r] \o <<StateEvent(to)>> \o << >> = log[r] \o <<StateEvent(to)>>
    BY <1>1
  <1>3. QED BY <1>2 DEF Write, Moved

LEMMA WriteAdds ==
    ASSUME RunsTypeOK, NEW r \in Runs, NEW from \in Active, NEW events \in Quiet,
           Write(r, from, from, events)
    PROVE  Added(r)
  <1>1. log[r] \in Seq(Events)
    BY DEF RunsTypeOK
  <1>2. log[r] \o << >> = log[r]
    BY <1>1
  <1>3. run' = run
    BY DEF Write, RunsTypeOK
  <1>4. QED BY <1>2, <1>3 DEF Write, Added

LEMMA WriteEnds ==
    ASSUME RunsTypeOK, NEW r \in Runs, NEW from \in Active, NEW to \in Terminal,
           Write(r, from, to, <<EndEvent(to)>>)
    PROVE  Ended(r)
  <1>1. log[r] \in Seq(Events) /\ to # from
    BY DEF RunsTypeOK, Active, Terminal
  <1>2. StateEvent(to) \in Events /\ EndEvent(to) \in Events
    BY DEF StateEvent, EndEvent, Event, Events, EventTypes, TerminalTypes, RunState, Terminal
  <1>3. log[r] \o <<StateEvent(to)>> \o <<EndEvent(to)>> = log[r] \o <<StateEvent(to), EndEvent(to)>>
    BY <1>1, <1>2
  <1>4. QED BY <1>1, <1>3 DEF Write, Ended

-----------------------------------------------------------------------------
(***************************************************************************)
(* Every step of the service changes the tables in one of the four ways.   *)
(***************************************************************************)
LEMMA QuietWrites ==
    ASSUME RunsTypeOK, NEW r \in Runs, NEW from \in Active, NEW events \in Quiet,
           Write(r, from, from, events) \/ WriteIfStill(r, from, from, events) \/ UNCHANGED db
    PROVE  Added(r) \/ UNCHANGED db
  BY WriteAdds DEF WriteIfStill, db

LEMMA EndingWrites ==
    ASSUME RunsTypeOK, NEW r \in Runs, NEW from \in Active, NEW to \in Terminal,
           WriteIfStill(r, from, to, <<EndEvent(to)>>)
    PROVE  Ended(r) \/ UNCHANGED db
  BY WriteEnds DEF WriteIfStill, db

LEMMA OrchestratorDb ==
    ASSUME RunsTypeOK, NEW r \in Runs, OrchestratorStep(r)
    PROVE  Changed(r) \/ UNCHANGED db
  <1> DEFINE P == Moved(r) \/ Added(r) \/ Ended(r) \/ UNCHANGED db
  <1> SUFFICES P
    BY DEF Changed
  <1>a. {"planning", "querying", "responding"} = Active /\ {"failed", "completed"} \subseteq Terminal
    BY DEF Active, Terminal
  <1>1. CASE Start(r) \/ ModelFails(r) \/ ReadForFail(r) \/ Finish(r)
    BY <1>1 DEF Start, ModelFails, Throw, ReadForFail, Finish, db
  <1>2. CASE Plan(r)
    BY <1>2, <1>a, WriteMoves DEF Plan, WriteOrThrow
  <1>3. CASE Call(r)
    BY <1>3, <1>a, QuietWrites DEF Call, Quiet
  <1>4. CASE Reject(r)
    BY <1>4, <1>a, QuietWrites DEF Reject, Quiet
  <1>5. CASE Execute(r)
    BY <1>5, <1>a, QuietWrites DEF Execute, WriteOrThrow, Quiet
  <1>6. CASE ToolAnswers(r)
    BY <1>6, <1>a, QuietWrites DEF ToolAnswers, WriteOrThrow, Quiet
  <1>7. CASE ToolFails(r)
    BY <1>7, <1>a, QuietWrites DEF ToolFails, Quiet
  <1>8. CASE Authorize(r)
    BY <1>8, <1>a, WriteMoves DEF Authorize, WriteOrThrow, Throw
  <1>9. CASE StreamAnswer(r)
    BY <1>9, <1>a, QuietWrites DEF StreamAnswer, WriteOrThrow, Quiet
  <1>10. CASE Complete(r)
    BY <1>10, <1>a, WriteEnds DEF Complete, WriteOrThrow
  <1>11. CASE FailRun(r)
    <2>1. orch[r].seen \in Active
      BY <1>11 DEF FailRun, RunsTypeOK, Orch
    <2>2. QED BY <1>11, <2>1, <1>a, EndingWrites DEF FailRun
  <1>12. QED
    BY <1>1, <1>2, <1>3, <1>4, <1>5, <1>6, <1>7, <1>8, <1>9, <1>10, <1>11
       DEF OrchestratorStep

LEMMA DbStep ==
    ASSUME RunsTypeOK, ServiceStep
    PROVE  UNCHANGED db \/ \E r \in Runs : Changed(r)
  <1>1. ASSUME NEW r \in Runs, ServiceRun(r)
        PROVE  Changed(r) \/ UNCHANGED db
    <2>1. CASE LookupKey(r) \/ CheckActive(r) \/ CreateConflict(r) \/ CancelRead(r)
      BY <2>1 DEF LookupKey, CheckActive, CreateConflict, CancelRead, db
    <2>2. CASE Create(r)
      BY <2>2 DEF Create, Changed, Asked, InsertRun
    <2>3. CASE OrchestratorStep(r)
      BY <2>3, OrchestratorDb
    <2>4. CASE CancelWrite(r)
      BY <2>4, EndingWrites DEF CancelWrite, Terminal, Changed
    <2>5. CASE Recover(r)
      BY <2>5, WriteEnds DEF Recover, Terminal, Changed
    <2>6. QED BY <1>1, <2>1, <2>2, <2>3, <2>4, <2>5 DEF ServiceRun, RunStep
  <1>2. ASSUME NEW r \in Runs, CancelAbort(r) \/ Revoke(UserOf[r])
        PROVE  UNCHANGED db
    BY <1>2 DEF CancelAbort, Revoke, db
  <1>3. ASSUME Listen \/ Crash PROVE UNCHANGED db
    BY <1>3 DEF Listen, Crash, db
  <1>4. QED BY <1>1, <1>2, <1>3 DEF ServiceStep

LEMMA ChangedTypes ==
    ASSUME RunsTypeOK, NEW r \in Runs, Changed(r)
    PROVE  run' \in [Runs -> RunState] /\ log' \in [Runs -> Seq(Events)]
  <1>1. log[r] \in Seq(Events) /\ run \in [Runs -> RunState] /\ log \in [Runs -> Seq(Events)]
    BY DEF RunsTypeOK
  <1>2. \A to \in RunState : StateEvent(to) \in Events
    BY DEF StateEvent, Events, EventTypes
  <1>3. \A to \in Terminal : EndEvent(to) \in Events
    BY DEF EndEvent, Event, Events, EventTypes, TerminalTypes, RunState, Terminal
  <1>4. Quiet \subseteq Seq(Events)
    BY DEF Quiet, Event, Events, EventTypes, RunState
  <1>5. CASE Asked(r)
    BY <1>1, <1>2, <1>5 DEF Asked, InsertRun, RunState, Active
  <1>6. CASE Moved(r)
    BY <1>1, <1>2, <1>6 DEF Moved, RunState, Active
  <1>7. CASE Added(r)
    BY <1>1, <1>4, <1>7 DEF Added
  <1>8. CASE Ended(r)
    <2>1. PICK to \in Terminal : /\ run' = [run EXCEPT ![r] = to]
                                 /\ log' = [log EXCEPT ![r] = @ \o <<StateEvent(to), EndEvent(to)>>]
      BY <1>8 DEF Ended
    <2>2. to \in RunState
      BY DEF RunState
    <2>3. <<StateEvent(to), EndEvent(to)>> \in Seq(Events)
      BY <1>2, <1>3, <2>2
    <2>4. QED BY <1>1, <2>1, <2>2, <2>3
  <1>9. QED BY <1>5, <1>6, <1>7, <1>8 DEF Changed

-----------------------------------------------------------------------------
(***************************************************************************)
(* Types.                                                                  *)
(***************************************************************************)
LEMMA GotoTypes ==
    ASSUME RunsTypeOK, NEW r \in Runs, NEW o \in Orch, NEW pc \in Steps, Goto(r, o, pc)
    PROVE  orch' \in [Runs -> Orch]
  BY DEF RunsTypeOK, Goto, Orch

LEMMA OrchestratorTypes ==
    ASSUME RunsTypeOK, NEW r \in Runs, OrchestratorStep(r)
    PROVE  orch' \in [Runs -> Orch]
  <1> DEFINE o == orch[r]
  <1>0. o \in Orch
    BY DEF RunsTypeOK
  <1>1. /\ Failed(r) \in Orch
        /\ \A n \in Int : [[o EXCEPT !.plans = @ + 1] EXCEPT !.calls = n] \in Orch
        /\ [o EXCEPT !.calls = @ - 1] \in Orch
        /\ [[o EXCEPT !.calls = @ - 1] EXCEPT !.tried = @ + 1] \in Orch
    <2>1. Failed(r) \in Orch
      BY <1>0 DEF Orch, Failed
    <2>a. ASSUME NEW q \in Orch, NEW n \in Int PROVE [q EXCEPT !.calls = n] \in Orch
      BY DEF Orch
    <2>b. ASSUME NEW q \in Orch, NEW n \in Nat PROVE [q EXCEPT !.tried = n] \in Orch
      BY DEF Orch
    <2>c. [o EXCEPT !.plans = @ + 1] \in Orch
      BY <1>0 DEF Orch
    <2>2. ASSUME NEW n \in Int
          PROVE  [[o EXCEPT !.plans = @ + 1] EXCEPT !.calls = n] \in Orch
      BY <2>a, <2>c
    <2>3. [o EXCEPT !.calls = @ - 1] \in Orch
      BY <1>0 DEF Orch
    <2>d. ASSUME NEW q \in Orch PROVE q.tried + 1 \in Nat
      BY DEF Orch
    <2>4. [[o EXCEPT !.calls = @ - 1] EXCEPT !.tried = @ + 1] \in Orch
      BY <2>3, <2>b, <2>d
    <2>5. QED BY <2>1, <2>2, <2>3, <2>4
  <1>2. \A q : AfterCall(q) \in Steps
    BY DEF AfterCall, Steps
  <1>3. {"start", "plan", "call", "act", "tool", "authorize", "answer", "failing", "end"} \subseteq Steps
    BY DEF Steps
  <1>4. CASE Start(r)
    BY <1>4, <1>0, <1>3, GotoTypes DEF Start
  <1>5. CASE Plan(r)
    <2>1. PICK n \in 0..MaxCalls, pc \in {"call", "authorize", "failing"} :
            Goto(r, [[o EXCEPT !.plans = @ + 1] EXCEPT !.calls = n], pc)
      BY <1>5 DEF Plan, WriteOrThrow
    <2>2. n \in Int
      BY Bounds
    <2>3. QED BY <2>1, <2>2, <1>1, <1>3, GotoTypes
  <1>6. CASE Call(r)
    BY <1>6, <1>1, <1>2, <1>3, GotoTypes DEF Call
  <1>7. CASE Reject(r) \/ ToolFails(r)
    BY <1>7, <1>0, <1>1, <1>2, <1>3, GotoTypes DEF Reject, ToolFails
  <1>8. CASE Execute(r) \/ ToolAnswers(r) \/ Authorize(r) \/ StreamAnswer(r) \/ Complete(r)
    <2>1. \E pc \in Steps : Goto(r, o, pc)
      BY <1>8, <1>2, <1>3
         DEF Execute, ToolAnswers, Authorize, StreamAnswer, Complete, WriteOrThrow, Throw
    <2>2. QED BY <2>1, <1>0, GotoTypes
  <1>9. CASE ModelFails(r) \/ FailRun(r)
    BY <1>9, <1>0, <1>3, GotoTypes DEF ModelFails, Throw, FailRun
  <1>10. CASE ReadForFail(r)
    <2>1. CASE run[r] \in Active
      <3>1. [o EXCEPT !.seen = run[r]] \in Orch
        BY <2>1, <1>0 DEF Orch
      <3>2. orch' = [orch EXCEPT ![r] = [o EXCEPT !.seen = run[r]]]
        BY <1>10, <2>1 DEF ReadForFail
      <3>3. QED BY <3>1, <3>2 DEF RunsTypeOK
    <2>2. CASE run[r] \notin Active
      BY <1>10, <2>2, <1>0, <1>3, GotoTypes DEF ReadForFail
    <2>3. QED BY <2>1, <2>2
  <1>11. CASE Finish(r)
    BY <1>11 DEF Finish, NoOrch, Orch, Steps, RunsTypeOK
  <1>12. QED
    BY <1>4, <1>5, <1>6, <1>7, <1>8, <1>9, <1>10, <1>11 DEF OrchestratorStep

LEMMA TypesKept ==
    ASSUME RunsTypeOK, [ServiceStep]_runVars
    PROVE  RunsTypeOK'
  <1>a. CASE UNCHANGED runVars
    BY <1>a DEF runVars, service, RunsTypeOK
  <1>b. CASE ServiceStep
    <2>1. run' \in [Runs -> RunState] /\ log' \in [Runs -> Seq(Events)]
      <3>1. CASE UNCHANGED db
        BY <3>1 DEF db, RunsTypeOK
      <3>2. QED BY <1>b, <3>1, DbStep, ChangedTypes
    <2>2. ASSUME NEW r \in Runs, OrchestratorStep(r) PROVE RunsTypeOK'
      <3>1. orch' \in [Runs -> Orch]
        BY <2>2, OrchestratorTypes
      <3>2. UNCHANGED <<ask, canc, up, denied>>
        BY <2>2 DEF OrchestratorStep, Others, Start, Plan, Call, Reject, Execute, ToolAnswers,
                    ToolFails, Authorize, StreamAnswer, Complete, ModelFails, ReadForFail,
                    FailRun, Finish
      <3>3. (UNCHANGED <<active, aborted>>) \/ (active' = active - 1 /\ aborted' = aborted \ {r})
        BY <2>2 DEF OrchestratorStep, Others, Start, Plan, Call, Reject, Execute, ToolAnswers,
                    ToolFails, Authorize, StreamAnswer, Complete, ModelFails, ReadForFail,
                    FailRun, Finish
      <3>4. QED BY <2>1, <3>1, <3>2, <3>3 DEF RunsTypeOK
    <2>3. ASSUME NEW r \in Runs, LookupKey(r) \/ CheckActive(r) \/ CreateConflict(r)
          PROVE  RunsTypeOK'
      <3>1. CASE LookupKey(r)
        BY <2>1, <3>1 DEF RunsTypeOK, LookupKey, Answered, AskStates
      <3>2. CASE CheckActive(r)
        <4>a. active' = active \/ active' = active + 1
          BY <3>2 DEF CheckActive
        <4>b. \E how \in AskStates : ask' = [ask EXCEPT ![r] = how]
          BY <3>2 DEF CheckActive, Answered, AskStates
        <4>1. ask' \in [Runs -> AskStates] /\ active' \in Int
          BY <4>a, <4>b DEF RunsTypeOK
        <4>2. UNCHANGED <<orch, aborted, canc, up, denied>>
          BY <3>2 DEF CheckActive
        <4>3. QED BY <2>1, <4>1, <4>2 DEF RunsTypeOK
      <3>3. CASE CreateConflict(r)
        BY <2>1, <3>3 DEF RunsTypeOK, CreateConflict, Answered, AskStates
      <3>4. QED BY <2>3, <3>1, <3>2, <3>3
    <2>4. ASSUME NEW r \in Runs, Create(r) PROVE RunsTypeOK'
      <3>1. [NoOrch EXCEPT !.pc = "start"] \in Orch
        BY DEF NoOrch, Orch, Steps
      <3>2. QED BY <2>1, <2>4, <3>1 DEF RunsTypeOK, Create, Answered, AskStates
    <2>5. ASSUME NEW r \in Runs,
                 CancelRead(r) \/ CancelWrite(r) \/ Recover(r) \/ CancelAbort(r) \/ Revoke(UserOf[r])
          PROVE  RunsTypeOK'
      BY <2>1, <2>5 DEF RunsTypeOK, CancelRead, CancelWrite, Recover, CancelAbort, Revoke, service
    <2>6. CASE Listen
      BY <2>1, <2>6 DEF RunsTypeOK, Listen
    <2>7. CASE Crash
      <3>1. NoOrch \in Orch
        BY DEF NoOrch, Orch, Steps
      <3>2. ask' \in [Runs -> AskStates]
        BY <2>7 DEF RunsTypeOK, Crash, AskStates
      <3>3. UNCHANGED denied /\ up' = FALSE /\ active' \in Int /\ aborted' \subseteq Runs
        BY <2>7 DEF Crash
      <3>4. orch' \in [Runs -> Orch] /\ canc' \in [Runs -> {"no", "abort"} \cup Active]
        BY <2>7, <3>1 DEF Crash
      <3>5. QED BY <2>1, <3>2, <3>3, <3>4 DEF RunsTypeOK
    <2>8. QED BY <1>b, <2>2, <2>3, <2>4, <2>5, <2>6, <2>7 DEF ServiceStep, ServiceRun, RunStep
  <1>c. QED BY <1>a, <1>b

LEMMA TypesInit == Init => RunsTypeOK
  <1>1. NoOrch \in Orch
    BY DEF NoOrch, Orch, Steps
  <1>2. QED BY <1>1 DEF Init, RunsInit, RunsTypeOK, RunState, AskStates

(***************************************************************************)
(* The rows, the logs and the tasks of the service keep their types.       *)
(***************************************************************************)
THEOREM RunsTypeCorrect == Spec => []RunsTypeOK
  <1>1. RunsTypeOK /\ [Next]_vars => RunsTypeOK'
    BY TypesKept, PagesOnlyRead
  <1>2. QED BY <1>1, TypesInit, PTL DEF Spec

-----------------------------------------------------------------------------
(***************************************************************************)
(* The log of a run has its terminal event last and only when it ended.    *)
(* The invariant adds that a run that was never asked has an empty log.    *)
(***************************************************************************)
LEMMA AppendedEvents ==
    ASSUME RunsTypeOK, NEW r \in Runs, NEW events \in Seq(Events),
           log' = [log EXCEPT ![r] = @ \o events]
    PROVE  /\ log'[r] = log[r] \o events
           /\ Len(log'[r]) = Len(log[r]) + Len(events)
           /\ \A i \in 1..Len(log'[r]) :
                 log'[r][i] = IF i <= Len(log[r]) THEN log[r][i] ELSE events[i - Len(log[r])]
           /\ \A q \in Runs \ {r} : log'[q] = log[q]
  BY DEF RunsTypeOK

LEMMA LogKept ==
    ASSUME RunsTypeOK, LogTellsTheEnd, NEW r \in Runs, Changed(r)
    PROVE  LogTellsTheEnd'
  <1> DEFINE Good(q) ==
        /\ \A i \in 1..Len(log[q]) :
              log[q][i].type \in TerminalTypes => i = Len(log[q]) /\ run[q] \in Terminal
        /\ run[q] \in Terminal =>
              log[q] # << >> /\ log[q][Len(log[q])] = EndEvent(run[q])
  <1>1. \A q \in Runs : Good(q)
    BY DEF LogTellsTheEnd
  <1>2. \A q \in Runs \ {r} : run'[q] = run[q] /\ log'[q] = log[q]
    BY DEF Changed, Asked, InsertRun, Moved, Added, Ended, RunsTypeOK
  <1>3. \A q \in Runs \ {r} : Good(q)'
    BY <1>1, <1>2
  <1>z. SUFFICES Good(r)'
    BY <1>3 DEF LogTellsTheEnd
  <1>t. \A to : StateEvent(to).type \notin TerminalTypes
    BY DEF StateEvent, TerminalTypes
  <1>n. log[r] \in Seq(Events) /\ Active \cap Terminal = {} /\ run[r] \in RunState
    BY DEF RunsTypeOK, Active, Terminal
  <1>4. CASE Asked(r)
    <2>1. run'[r] = "planning" /\ log'[r] = <<StateEvent("planning")>>
      BY <1>4 DEF Asked, InsertRun, RunsTypeOK
    <2>2. QED BY <2>1, <1>t DEF Terminal
  <1>o. ASSUME run[r] \in Active
        PROVE  \A i \in 1..Len(log[r]) : log[r][i].type \notin TerminalTypes
    BY <1>o, <1>1, <1>n
  <1>5. CASE Moved(r)
    <2>1. PICK to \in {"querying", "responding"} :
            /\ run' = [run EXCEPT ![r] = to]
            /\ log' = [log EXCEPT ![r] = @ \o <<StateEvent(to)>>]
      BY <1>5 DEF Moved
    <2>2. run[r] \in Active /\ run'[r] = to /\ to \notin Terminal
      BY <1>5, <2>1 DEF Moved, RunsTypeOK, Terminal
    <2>3. StateEvent(to) \in Events
      BY DEF StateEvent, Events, EventTypes, RunState, Active
    <2>4. QED BY <2>1, <2>2, <2>3, <1>o, <1>t, <1>n, AppendedEvents
  <1>6. CASE Added(r)
    <2>1. PICK events \in Quiet :
            run[r] \in Active /\ run' = run /\ log' = [log EXCEPT ![r] = @ \o events]
      BY <1>6 DEF Added
    <2>a. \A type \in {"tool_args", "tool_status", "source", "answer_delta"} :
            Event(type) \in Events /\ Event(type).type \notin TerminalTypes
      BY DEF Event, Events, EventTypes, RunState, TerminalTypes
    <2>2. /\ events \in Seq(Events)
          /\ \A i \in 1..Len(events) : events[i].type \notin TerminalTypes
      <3>1. CASE events = <<Event("tool_args")>>
        BY <3>1, <2>a
      <3>2. CASE events = <<Event("tool_status")>>
        BY <3>2, <2>a
      <3>3. CASE events = <<Event("tool_status"), Event("tool_status")>>
        BY <3>3, <2>a
      <3>4. CASE events = <<Event("tool_status"), Event("source")>>
        BY <3>4, <2>a
      <3>5. CASE events = <<Event("answer_delta")>>
        BY <3>5, <2>a
      <3>6. QED BY <2>1, <3>1, <3>2, <3>3, <3>4, <3>5 DEF Quiet
    <2>3. QED BY <2>1, <2>2, <1>o, <1>n, AppendedEvents
  <1>7. CASE Ended(r)
    <2>1. PICK to \in Terminal :
            /\ run[r] \in Active
            /\ run' = [run EXCEPT ![r] = to]
            /\ log' = [log EXCEPT ![r] = @ \o <<StateEvent(to), EndEvent(to)>>]
      BY <1>7 DEF Ended
    <2> DEFINE events == <<StateEvent(to), EndEvent(to)>>
    <2>2. StateEvent(to) \in Events /\ EndEvent(to) \in Events
      BY DEF StateEvent, EndEvent, Event, Events, EventTypes, TerminalTypes, RunState, Terminal
    <2>3. events \in Seq(Events) /\ Len(events) = 2 /\ events[1] = StateEvent(to) /\ events[2] = EndEvent(to)
      BY <2>2
    <2>4. run'[r] = to
      BY <2>1 DEF RunsTypeOK
    <2> HIDE DEF events
    <2>5. /\ Len(log'[r]) = Len(log[r]) + 2
          /\ \A i \in 1..Len(log'[r]) :
               log'[r][i] = IF i <= Len(log[r]) THEN log[r][i] ELSE events[i - Len(log[r])]
      BY <2>1, <2>3, AppendedEvents DEF events
    <2>6. log'[r][Len(log'[r])] = EndEvent(to) /\ log'[r] # << >>
      BY <2>3, <2>5, <1>n
    <2>7. ASSUME NEW i \in 1..Len(log'[r]), log'[r][i].type \in TerminalTypes
          PROVE  i = Len(log'[r])
      <3>1. CASE i <= Len(log[r])
        BY <3>1, <2>1, <2>5, <2>7, <1>o, <1>n
      <3>2. CASE i = Len(log[r]) + 1
        BY <3>2, <2>3, <2>5, <2>7, <1>t, <1>n
      <3>3. QED BY <3>1, <3>2, <2>5, <1>n
    <2>8. QED BY <2>4, <2>6, <2>7
  <1>8. QED BY <1>4, <1>5, <1>6, <1>7 DEF Changed

(***************************************************************************)
(* Whatever races to end a run, its log has one terminal event, the last.  *)
(***************************************************************************)
THEOREM LogAlwaysTellsTheEnd == Spec => []LogTellsTheEnd
  <1>1. Init => LogTellsTheEnd
    BY DEF Init, RunsInit, LogTellsTheEnd, Terminal
  <1>2. RunsTypeOK /\ LogTellsTheEnd /\ [Next]_vars => LogTellsTheEnd'
    <2>1. SUFFICES ASSUME RunsTypeOK, LogTellsTheEnd, [ServiceStep]_runVars
                   PROVE  LogTellsTheEnd'
      BY PagesOnlyRead
    <2>2. CASE UNCHANGED db
      <3>1. run' = run /\ log' = log
        BY <2>2 DEF db
      <3>2. QED BY <2>1, <3>1 DEF LogTellsTheEnd
    <2>3. CASE UNCHANGED runVars
      BY <2>2, <2>3 DEF runVars, db
    <2>4. QED BY <2>1, <2>2, <2>3, DbStep, LogKept
  <1>3. QED BY <1>1, <1>2, RunsTypeCorrect, PTL DEF Spec

(***************************************************************************)
(* Nobody who still works on a run changes it once it has ended.           *)
(***************************************************************************)
THEOREM EndedRunsAreFinal == Spec => EndedStaysEnded
  <1>1. ASSUME RunsTypeOK, [Next]_vars
        PROVE  \A r \in Runs : run[r] \in Terminal => run'[r] = run[r] /\ log'[r] = log[r]
    <2>1. UNCHANGED db \/ \E r \in Runs : Changed(r)
      BY <1>1, DbStep, PagesOnlyRead DEF runVars, db
    <2>2. ASSUME NEW r \in Runs, Changed(r), NEW q \in Runs, run[q] \in Terminal
          PROVE  run'[q] = run[q] /\ log'[q] = log[q]
      <3>1. run[r] \notin Terminal
        BY <2>2 DEF Changed, Asked, Moved, Added, Ended, Active, Terminal
      <3>2. q # r
        BY <2>2, <3>1
      <3>3. QED
        BY <1>1, <2>2, <3>2 DEF Changed, Asked, InsertRun, Moved, Added, Ended, RunsTypeOK
    <2>3. QED BY <2>1, <2>2 DEF db
  <1>2. QED BY <1>1, RunsTypeCorrect, PTL DEF Spec, EndedStaysEnded

-----------------------------------------------------------------------------
(***************************************************************************)
(* Drivers and permits.  A driver exists from the INSERT to the finally;   *)
(* only a cancel request changes the row under it, and then the row has    *)
(* ended.  That is why a driver that stops - it found the row no longer    *)
(* planning, no longer active, or other than it had read - leaves no       *)
(* active run behind.                                                      *)
(***************************************************************************)
DriverOf(r) ==
    /\ ask[r] \in {"idle", "looked", "insert"} => run[r] = "absent"
    /\ orch[r].pc # "none" => run[r] # "absent" /\ up
    /\ orch[r].pc = "start" => run[r] \in {"planning"} \cup Terminal
    /\ orch[r].pc = "end" => run[r] \in Terminal
    /\ orch[r].seen # "none" =>
          orch[r].pc \in {"failing", "end"} /\ run[r] \in {orch[r].seen} \cup Terminal
    /\ canc[r] # "no" => run[r] # "absent" /\ up
    /\ ask[r] \in {"looked", "insert"} => up
    /\ run[r] \in Active /\ up => orch[r].pc # "none"
DriverInv == \A r \in Runs : DriverOf(r)

\* What a step of the orchestrator does to the row and the driver of its run.
LEMMA OrchestratorDriver ==
    ASSUME RunsTypeOK, NEW r \in Runs, DriverOf(r), OrchestratorStep(r)
    PROVE  DriverOf(r)'
  <1> DEFINE o == orch[r]
  <1>0. /\ o \in Orch /\ run \in [Runs -> RunState] /\ orch \in [Runs -> Orch]
        /\ ask \in [Runs -> AskStates]
    BY DEF RunsTypeOK
  <1>d. Active = {"planning", "querying", "responding"} /\ Terminal = {"completed", "failed", "cancelled"}
    BY DEF Active, Terminal
  <1>r. run[r] \in Active \cup Terminal
    BY <1>0 DEF OrchestratorStep, Start, Plan, Call, Reject, Execute, ToolAnswers, ToolFails, Authorize,
           StreamAnswer, Complete, ModelFails, ReadForFail, FailRun, Finish, At, DriverOf, RunState
  <1>u. up /\ ask[r] \notin {"idle", "looked", "insert"}
    BY <1>r, <1>d DEF OrchestratorStep, Start, Plan, Call, Reject, Execute, ToolAnswers, ToolFails, Authorize,
           StreamAnswer, Complete, ModelFails, ReadForFail, FailRun, Finish, At, DriverOf
  <1>k. UNCHANGED <<ask, canc, up>>
    BY DEF OrchestratorStep, Others, Start, Plan, Call, Reject, Execute, ToolAnswers,
           ToolFails, Authorize, StreamAnswer, Complete, ModelFails, ReadForFail, FailRun, Finish
  \* It is enough to know the next row and the next driver.
  <1>e. ASSUME run'[r] \in Active \cup Terminal,
               orch'[r].pc = "start" => run'[r] \in {"planning"} \cup Terminal,
               orch'[r].pc = "end" => run'[r] \in Terminal,
               orch'[r].seen # "none" =>
                 orch'[r].pc \in {"failing", "end"} /\ run'[r] \in {orch'[r].seen} \cup Terminal,
               orch'[r].pc = "none" => run'[r] \in Terminal
        PROVE  DriverOf(r)'
    BY <1>e, <1>d, <1>u, <1>k DEF DriverOf
  <1>x. run'[r] \in Active \cup Terminal
    <2>1. CASE UNCHANGED db
      BY <2>1, <1>r DEF db
    <2>2. CASE Changed(r)
      BY <2>2, <1>0, <1>d DEF Changed, Asked, InsertRun, Moved, Added, Ended
    <2>3. QED BY <2>1, <2>2, OrchestratorDb
  \* A step in the middle of the work: neither starting nor stopping.
  <1>g. ASSUME orch'[r].pc \notin {"start", "end", "none"}, orch'[r].seen = "none"
        PROVE  DriverOf(r)'
    BY <1>g, <1>e, <1>x
  <1>w. ASSUME NEW q \in Orch, NEW pc \in Steps, q.seen = "none", Goto(r, q, pc)
        PROVE  orch'[r].pc = pc /\ orch'[r].seen = "none"
    BY <1>w, <1>0 DEF Goto, Orch
  <1>q. ASSUME orch[r].pc \notin {"failing", "end"}
        PROVE  o.seen = "none"
    BY <1>q DEF DriverOf
  <1>s. {"plan", "call", "act", "tool", "authorize", "answer", "failing", "end"} \subseteq Steps
    BY DEF Steps
  <1>c. \A q : AfterCall(q) \in {"authorize", "call", "plan"}
    BY DEF AfterCall
  <1>f. ASSUME o.seen = "none"
        PROVE  Failed(r) \in Orch /\ Failed(r).seen = "none"
    BY <1>f, <1>0 DEF Failed, Orch
  <1>1. CASE Start(r)
    <2>1. o.seen = "none"
      BY <1>1, <1>q DEF Start, At
    <2>2. CASE run[r] = "planning"
      BY <1>1, <2>1, <2>2, <1>0, <1>w, <1>s, <1>g DEF Start
    <2>3. CASE run[r] # "planning"
      <3>1. orch'[r].pc = "end" /\ orch'[r].seen = "none"
        BY <1>1, <2>1, <2>3, <1>0, <1>w, <1>s DEF Start
      <3>2. run'[r] \in Terminal
        BY <1>1, <2>3 DEF Start, db, At, DriverOf
      <3>3. QED BY <3>1, <3>2, <1>e, <1>d
    <2>4. QED BY <2>2, <2>3
  <1>2. CASE Plan(r)
    <2>1. o.seen = "none"
      BY <1>2, <1>q DEF Plan, At
    <2>2. PICK n \in 0..MaxCalls, pc \in {"call", "authorize", "failing"} :
            Goto(r, [[o EXCEPT !.plans = @ + 1] EXCEPT !.calls = n], pc)
      BY <1>2 DEF Plan, WriteOrThrow
    <2>3. [o EXCEPT !.plans = @ + 1] \in Orch /\ [o EXCEPT !.plans = @ + 1].seen = "none"
      BY <2>1, <1>0 DEF Orch
    <2>4. ASSUME NEW q \in Orch, q.seen = "none", NEW k \in Int
          PROVE  [q EXCEPT !.calls = k] \in Orch /\ [q EXCEPT !.calls = k].seen = "none"
      BY <2>4 DEF Orch
    <2>5. n \in Int
      BY Bounds
    <2>6. QED BY <2>2, <2>3, <2>4, <2>5, <1>s, <1>w, <1>g
  <1>3. CASE Call(r)
    <2>1. o.seen = "none"
      BY <1>3, <1>q DEF Call, At
    <2> DEFINE q1 == [o EXCEPT !.calls = @ - 1]
    <2>2. q1 \in Orch /\ q1.seen = "none"
      BY <2>1, <1>0 DEF Orch
    <2>3. [q1 EXCEPT !.tried = @ + 1] \in Orch /\ [q1 EXCEPT !.tried = @ + 1].seen = "none"
      <3> HIDE DEF q1
      <3>1. QED BY <2>2 DEF Orch
    <2>4. Goto(r, q1, AfterCall(q1)) \/ Goto(r, [q1 EXCEPT !.tried = @ + 1], "act")
      BY <1>3 DEF Call
    <2> HIDE DEF q1
    <2>5. QED BY <2>2, <2>3, <2>4, <1>s, <1>c, <1>w, <1>g
  <1>4. CASE Reject(r) \/ ToolFails(r)
    <2>1. o.seen = "none"
      BY <1>4, <1>q DEF Reject, ToolFails, At
    <2>2. Goto(r, Failed(r), AfterCall(Failed(r))) \/ Goto(r, o, "failing")
      BY <1>4 DEF Reject, ToolFails
    <2>3. QED BY <2>1, <2>2, <1>0, <1>f, <1>s, <1>c, <1>w, <1>g
  <1>5. CASE Execute(r) \/ ToolAnswers(r) \/ Authorize(r) \/ StreamAnswer(r) \/ ModelFails(r)
    <2>1. o.seen = "none"
      BY <1>5, <1>q DEF Execute, ToolAnswers, Authorize, StreamAnswer, ModelFails, At
    <2>2. \E pc \in {"tool", "authorize", "call", "plan", "answer", "failing"} : Goto(r, o, pc)
      BY <1>5, <1>c DEF Execute, ToolAnswers, Authorize, StreamAnswer, ModelFails, WriteOrThrow, Throw
    <2>3. QED BY <2>1, <2>2, <1>0, <1>s, <1>w, <1>g
  <1>6. CASE Complete(r)
    <2>1. o.seen = "none"
      BY <1>6, <1>q DEF Complete, At
    <2>2. CASE Write(r, "responding", "completed", <<EndEvent("completed")>>) /\ Goto(r, o, "end")
      <3>1. run'[r] = "completed"
        BY <2>2, <1>0 DEF Write
      <3>2. QED BY <2>1, <2>2, <3>1, <1>0, <1>d, <1>s, <1>w, <1>e
    <2>3. CASE Goto(r, o, "failing")
      BY <2>1, <2>3, <1>0, <1>s, <1>w, <1>g
    <2>4. QED BY <1>6, <2>2, <2>3 DEF Complete, WriteOrThrow
  <1>7. CASE ReadForFail(r)
    <2>1. CASE run[r] \in Active
      <3>1. orch'[r].seen = run[r] /\ orch'[r].pc = "failing" /\ run'[r] = run[r]
        BY <1>7, <2>1, <1>0 DEF ReadForFail, At, Orch, db
      <3>2. QED BY <3>1, <1>e, <1>x
    <2>2. CASE run[r] \notin Active
      <3>1. orch'[r].pc = "end" /\ orch'[r].seen = "none" /\ run'[r] = run[r]
        BY <1>7, <2>2, <1>0, <1>w, <1>s DEF ReadForFail, At, db
      <3>2. QED BY <3>1, <2>2, <1>r, <1>e
    <2>3. QED BY <2>1, <2>2
  <1>8. CASE FailRun(r)
    <2>1. orch'[r].pc = "end" /\ orch'[r].seen = o.seen
      BY <1>8, <1>0 DEF FailRun, Goto, Orch
    <2>2. run'[r] \in Terminal
      <3>1. CASE run[r] = o.seen
        BY <3>1, <1>8, <1>0, <1>d DEF FailRun, WriteIfStill, Write
      <3>2. CASE run[r] # o.seen
        BY <3>2, <1>8 DEF FailRun, WriteIfStill, DriverOf
      <3>3. QED BY <3>1, <3>2
    <2>3. QED BY <2>1, <2>2, <1>d, <1>e
  <1>9. CASE Finish(r)
    <2>1. run'[r] = run[r] /\ run[r] \in Terminal /\ orch'[r] = NoOrch
      BY <1>9, <1>0 DEF Finish, At, db, DriverOf
    <2>2. QED BY <2>1, <1>e DEF NoOrch
  <1>10. QED
    BY <1>1, <1>2, <1>3, <1>4, <1>5, <1>6, <1>7, <1>8, <1>9 DEF OrchestratorStep

\* A step of another request leaves the row, or cancels it, or inserts it.
LEMMA DriversKept ==
    ASSUME RunsTypeOK, DriverInv, [ServiceStep]_runVars
    PROVE  DriverInv'
  <1>0. /\ run \in [Runs -> RunState] /\ orch \in [Runs -> Orch] /\ ask \in [Runs -> AskStates]
        /\ canc \in [Runs -> {"no", "abort"} \cup Active]
    BY DEF RunsTypeOK
  <1>d. Active = {"planning", "querying", "responding"} /\ Terminal = {"completed", "failed", "cancelled"}
    BY DEF Active, Terminal
  <1>1. CASE UNCHANGED runVars
    BY <1>1 DEF runVars, service, DriverInv, DriverOf
  <1>2. ASSUME NEW r \in Runs, OrchestratorStep(r) PROVE DriverInv'
    <2>1. DriverOf(r)'
      BY <1>2, OrchestratorDriver DEF DriverInv
    <2>2. UNCHANGED <<ask, canc, up>> /\ orch' = [orch EXCEPT ![r] = orch'[r]]
      BY <1>2, <1>0 DEF OrchestratorStep, Others, Start, Plan, Call, Reject, Execute, ToolAnswers,
           ToolFails, Authorize, StreamAnswer, Complete, ModelFails, ReadForFail, FailRun, Finish,
           WriteOrThrow, Throw, Goto
    <2>3. \A q \in Runs \ {r} : run'[q] = run[q]
      <3>1. Changed(r) \/ UNCHANGED db
        BY <1>2, OrchestratorDb
      <3>2. QED BY <3>1, <1>0 DEF db, Changed, Asked, InsertRun, Moved, Added, Ended
    <2>4. \A q \in Runs \ {r} : DriverOf(q)'
      BY <2>2, <2>3, <1>0 DEF DriverInv, DriverOf
    <2>5. QED BY <2>1, <2>4 DEF DriverInv
  <1>3. ASSUME NEW r \in Runs, LookupKey(r) \/ CheckActive(r) \/ CreateConflict(r) PROVE DriverInv'
    <2>1. UNCHANGED <<run, orch, canc, up>>
      BY <1>3 DEF LookupKey, CheckActive, CreateConflict, db
    <2>2. \/ ask[r] \in {"looked", "insert"} \/ (ask[r] = "idle" /\ up)
      BY <1>3 DEF LookupKey, CheckActive, CreateConflict
    <2>3. \E how \in {"replayed", "looked", "refused", "insert", "conflict"} :
            ask' = [ask EXCEPT ![r] = how]
      BY <1>3 DEF LookupKey, CheckActive, CreateConflict, Answered
    <2>4. QED BY <2>1, <2>2, <2>3, <1>0 DEF DriverInv, DriverOf
  <1>4. ASSUME NEW r \in Runs, Create(r) PROVE DriverInv'
    <2>1. run' = [run EXCEPT ![r] = "planning"] /\ ask' = [ask EXCEPT ![r] = "created"]
      BY <1>4 DEF Create, InsertRun, Answered
    <2>2. UNCHANGED <<canc, up>> /\ up
      BY <1>4 DEF Create, DriverInv, DriverOf
    <2>3. orch' = [orch EXCEPT ![r] = [NoOrch EXCEPT !.pc = "start"]]
      BY <1>4 DEF Create
    <2>4. [NoOrch EXCEPT !.pc = "start"].pc = "start" /\ [NoOrch EXCEPT !.pc = "start"].seen = "none"
      BY DEF NoOrch
    <2>5. QED BY <2>1, <2>2, <2>3, <2>4, <1>0, <1>d DEF DriverInv, DriverOf
  <1>5. ASSUME NEW r \in Runs, CancelRead(r) \/ CancelAbort(r) \/ Revoke(UserOf[r]) PROVE DriverInv'
    <2>1. CASE CancelRead(r)
      BY <2>1, <1>0 DEF CancelRead, DriverInv, DriverOf, db
    <2>2. CASE CancelAbort(r)
      BY <2>2, <1>0 DEF CancelAbort, DriverInv, DriverOf, db
    <2>3. CASE Revoke(UserOf[r])
      BY <2>3 DEF Revoke, DriverInv, DriverOf, db
    <2>4. QED BY <1>5, <2>1, <2>2, <2>3
  <1>6. ASSUME NEW r \in Runs, CancelWrite(r) PROVE DriverInv'
    <2>1. UNCHANGED <<ask, orch, up>> /\ canc' = [canc EXCEPT ![r] = "abort"]
      BY <1>6 DEF CancelWrite
    <2>2. run' = run \/ (run[r] \in Active /\ run' = [run EXCEPT ![r] = "cancelled"])
      BY <1>6 DEF CancelWrite, WriteIfStill, Write
    <2>3. canc[r] # "no"
      BY <1>6, <1>d DEF CancelWrite
    <2>4. QED BY <2>1, <2>2, <2>3, <1>0, <1>d DEF DriverInv, DriverOf
  <1>7. ASSUME NEW r \in Runs, Recover(r) PROVE DriverInv'
    <2>1. UNCHANGED <<ask, orch, up, canc>> /\ run' = [run EXCEPT ![r] = "failed"] /\ ~ up
      BY <1>7 DEF Recover, Write, service
    <2>2. run[r] # "absent"
      BY <1>7, <1>d DEF Recover
    <2>3. QED BY <2>1, <2>2, <1>0, <1>d DEF DriverInv, DriverOf
  <1>8. CASE Listen
    BY <1>8 DEF Listen, DriverInv, DriverOf, db
  <1>9. CASE Crash
    <2>1. UNCHANGED run /\ ~ up'
      BY <1>9 DEF Crash, db
    <2>2. orch' = [r \in Runs |-> NoOrch] /\ canc' = [r \in Runs |-> "no"]
      BY <1>9 DEF Crash
    <2>3. ask' = [r \in Runs |-> IF ask[r] \in {"looked", "insert"} THEN "refused" ELSE ask[r]]
      BY <1>9 DEF Crash
    <2>4. QED BY <2>1, <2>2, <2>3 DEF DriverInv, DriverOf, NoOrch
  <1>10. QED
    BY <1>1, <1>2, <1>3, <1>4, <1>5, <1>6, <1>7, <1>8, <1>9 DEF ServiceStep, ServiceRun, RunStep

(***************************************************************************)
(* The relation between rows, drivers and requests in flight is inductive. *)
(***************************************************************************)
THEOREM DriversCorrect == Spec => []DriverInv
  <1>1. Init => DriverInv
    BY DEF Init, RunsInit, DriverInv, DriverOf, NoOrch, Active
  <1>2. RunsTypeOK /\ DriverInv /\ [Next]_vars => DriverInv'
    BY DriversKept, PagesOnlyRead
  <1>3. QED BY <1>1, <1>2, RunsTypeCorrect, PTL DEF Spec

(***************************************************************************)
(* A run that keeps its user from asking again always has a driver, unless *)
(* the process is down and recovery will end it.                           *)
(***************************************************************************)
THEOREM ActiveRunsAreDriven == Spec => []ActiveRunIsDriven
  <1>1. DriverInv => ActiveRunIsDriven
    BY DEF DriverInv, DriverOf, ActiveRunIsDriven
  <1>2. QED BY <1>1, DriversCorrect, PTL

-----------------------------------------------------------------------------
(***************************************************************************)
(* Permits: a step adds one holder and counts up, removes one and counts   *)
(* down, or changes neither.                                               *)
(***************************************************************************)
LEMMA OneMore ==
    ASSUME RunsTypeOK, PermitsMatchHolders, NEW r \in Runs, r \notin Holders,
           Holders' = Holders \cup {r}, active' = active + 1, active < MaxActiveRuns
    PROVE  PermitsMatchHolders'
  <1>1. IsFiniteSet(Holders)
    BY FiniteRuns, FS_Subset DEF Holders
  <1>2. Cardinality(Holders \cup {r}) = Cardinality(Holders) + 1
    BY <1>1, FS_AddElement
  <1>3. active \in Int /\ MaxActiveRuns \in Int
    BY Bounds DEF RunsTypeOK
  <1>4. QED BY <1>2, <1>3 DEF PermitsMatchHolders

LEMMA OneLess ==
    ASSUME RunsTypeOK, PermitsMatchHolders, NEW r \in Holders,
           Holders' = Holders \ {r}, active' = active - 1
    PROVE  PermitsMatchHolders'
  <1>1. IsFiniteSet(Holders)
    BY FiniteRuns, FS_Subset DEF Holders
  <1>2. Cardinality(Holders \ {r}) = Cardinality(Holders) - 1
    BY <1>1, FS_RemoveElement
  <1>3. active \in Int /\ MaxActiveRuns \in Int
    BY Bounds DEF RunsTypeOK
  <1>4. QED BY <1>2, <1>3 DEF PermitsMatchHolders

\* A driver that has not come to its finally stays.
LEMMA DriverGoesOn ==
    ASSUME RunsTypeOK, NEW r \in Runs, OrchestratorStep(r), ~ Finish(r)
    PROVE  /\ orch[r].pc # "none" /\ orch'[r].pc # "none"
           /\ \A q \in Runs \ {r} : orch'[q] = orch[q]
           /\ UNCHANGED <<ask, active>>
  <1>0. orch \in [Runs -> Orch]
    BY DEF RunsTypeOK
  <1>1. ASSUME NEW q, NEW pc \in Steps \ {"none"}, Goto(r, [orch[r] EXCEPT !.calls = q], pc)
        PROVE  orch'[r].pc = pc
    BY <1>1, <1>0 DEF Goto, Orch
  <1>2. \A q : AfterCall(q) \in {"authorize", "call", "plan"}
    BY DEF AfterCall
  <1>3. orch[r].pc # "none" /\ UNCHANGED <<ask, active>>
    BY DEF OrchestratorStep, Others, At, Start, Plan, Call, Reject, Execute, ToolAnswers,
           ToolFails, Authorize, StreamAnswer, Complete, ModelFails, ReadForFail, FailRun
  <1>4. CASE \E q, pc : Goto(r, q, pc) /\ pc # "none" /\ DOMAIN q = DOMAIN NoOrch
    BY <1>0, <1>3, <1>4 DEF Goto, NoOrch
  <1>5. CASE ReadForFail(r) /\ run[r] \in Active
    BY <1>0, <1>3, <1>5 DEF ReadForFail, Orch, At
  <1>6. DOMAIN orch[r] = DOMAIN NoOrch
    BY <1>0 DEF Orch, NoOrch
  <1>7. CASE Start(r) \/ Execute(r) \/ ToolAnswers(r) \/ Authorize(r) \/ StreamAnswer(r)
             \/ Complete(r) \/ ModelFails(r) \/ FailRun(r) \/ (ReadForFail(r) /\ run[r] \notin Active)
    <2>1. \E pc \in {"plan", "end", "tool", "answer", "authorize", "call", "failing"} : Goto(r, orch[r], pc)
      BY <1>7, <1>2 DEF Start, Execute, ToolAnswers, Authorize, StreamAnswer, Complete,
                        ModelFails, FailRun, ReadForFail, WriteOrThrow, Throw
    <2>2. QED BY <2>1, <1>6, <1>4
  <1>8. CASE Plan(r)
    <2>1. PICK n \in 0..MaxCalls, pc \in {"call", "authorize", "failing"} :
            Goto(r, [[orch[r] EXCEPT !.plans = @ + 1] EXCEPT !.calls = n], pc)
      BY <1>8 DEF Plan, WriteOrThrow
    <2>2. DOMAIN [[orch[r] EXCEPT !.plans = @ + 1] EXCEPT !.calls = n] = DOMAIN NoOrch
      BY <1>6
    <2>3. QED BY <2>1, <2>2, <1>4
  <1>9. CASE Call(r)
    <2> DEFINE o == [orch[r] EXCEPT !.calls = @ - 1]
    <2>1. Goto(r, o, AfterCall(o)) \/ Goto(r, [o EXCEPT !.tried = @ + 1], "act")
      BY <1>9 DEF Call
    <2>2. DOMAIN o = DOMAIN NoOrch /\ DOMAIN [o EXCEPT !.tried = @ + 1] = DOMAIN NoOrch
      BY <1>6
    <2> HIDE DEF o
    <2>3. QED BY <2>1, <2>2, <1>2, <1>4
  <1>10. CASE Reject(r) \/ ToolFails(r)
    <2>1. Goto(r, Failed(r), AfterCall(Failed(r))) \/ Goto(r, orch[r], "failing")
      BY <1>10 DEF Reject, ToolFails
    <2>2. DOMAIN Failed(r) = DOMAIN NoOrch
      BY <1>6 DEF Failed
    <2>3. QED BY <2>1, <2>2, <1>2, <1>4, <1>6
  <1>11. QED BY <1>5, <1>7, <1>8, <1>9, <1>10 DEF OrchestratorStep

LEMMA PermitsKept ==
    ASSUME RunsTypeOK, DriverInv, PermitsMatchHolders, [ServiceStep]_runVars
    PROVE  PermitsMatchHolders'
  <1>0. orch \in [Runs -> Orch] /\ ask \in [Runs -> AskStates]
    BY DEF RunsTypeOK
  <1>s. ASSUME Holders' = Holders, active' = active PROVE PermitsMatchHolders'
    BY <1>s DEF PermitsMatchHolders
  <1>u. ASSUME UNCHANGED <<orch, ask, active>> PROVE PermitsMatchHolders'
    BY <1>u, <1>s DEF Holders
  <1>1. CASE UNCHANGED runVars
    BY <1>1, <1>u DEF runVars, service
  <1>2. ASSUME NEW r \in Runs, OrchestratorStep(r), ~ Finish(r) PROVE PermitsMatchHolders'
    BY <1>2, <1>s, DriverGoesOn DEF Holders
  <1>3. ASSUME NEW r \in Runs, Finish(r) PROVE PermitsMatchHolders'
    <2>1. orch[r].pc = "end" /\ ask[r] # "insert"
      BY <1>3 DEF Finish, At, DriverInv, DriverOf
    <2>2. orch' = [orch EXCEPT ![r] = NoOrch] /\ ask' = ask /\ active' = active - 1
      BY <1>3 DEF Finish
    <2>3. r \in Holders /\ Holders' = Holders \ {r}
      BY <2>1, <2>2, <1>0 DEF Holders, NoOrch
    <2>4. QED BY <2>2, <2>3, OneLess
  <1>4. ASSUME NEW r \in Runs, ask[r] \in {"looked", "insert"} PROVE orch[r].pc = "none"
    BY <1>4 DEF DriverInv, DriverOf
  <1>5. ASSUME NEW r \in Runs, CheckActive(r) PROVE PermitsMatchHolders'
    <2>1. ask[r] = "looked" /\ orch' = orch
      BY <1>5 DEF CheckActive
    <2>2. CASE ask' = [ask EXCEPT ![r] = "refused"] /\ active' = active
      BY <2>1, <2>2, <1>0, <1>s DEF Holders
    <2>3. CASE ask' = [ask EXCEPT ![r] = "insert"] /\ active' = active + 1 /\ ~ (active >= MaxActiveRuns)
      <3>1. r \notin Holders /\ Holders' = Holders \cup {r}
        BY <2>1, <2>3, <1>0, <1>4 DEF Holders
      <3>2. active < MaxActiveRuns
        BY <2>3, Bounds DEF RunsTypeOK
      <3>3. QED BY <2>3, <3>1, <3>2, OneMore
    <2>4. QED BY <1>5, <2>2, <2>3 DEF CheckActive, Answered
  <1>6. ASSUME NEW r \in Runs, LookupKey(r) PROVE PermitsMatchHolders'
    <2>1. orch' = orch /\ active' = active /\ ask[r] = "idle"
      BY <1>6 DEF LookupKey
    <2>2. \E how \in {"replayed", "looked"} : ask' = [ask EXCEPT ![r] = how]
      BY <1>6 DEF LookupKey, Answered
    <2>3. QED BY <2>1, <2>2, <1>0, <1>s DEF Holders
  <1>7. ASSUME NEW r \in Runs, Create(r) PROVE PermitsMatchHolders'
    <2>1. ask[r] = "insert" /\ active' = active /\ ask' = [ask EXCEPT ![r] = "created"]
      BY <1>7 DEF Create, Answered
    <2>2. orch' = [orch EXCEPT ![r] = [NoOrch EXCEPT !.pc = "start"]]
      BY <1>7 DEF Create
    <2>3. [NoOrch EXCEPT !.pc = "start"].pc = "start"
      BY DEF NoOrch
    <2>4. QED BY <2>1, <2>2, <2>3, <1>0, <1>s DEF Holders
  <1>8. ASSUME NEW r \in Runs, CreateConflict(r) PROVE PermitsMatchHolders'
    <2>1. ask[r] = "insert" /\ active' = active - 1 /\ orch' = orch /\ ask' = [ask EXCEPT ![r] = "conflict"]
      BY <1>8 DEF CreateConflict, Answered
    <2>2. r \in Holders /\ Holders' = Holders \ {r}
      BY <2>1, <1>0, <1>4 DEF Holders
    <2>3. QED BY <2>1, <2>2, OneLess
  <1>9. ASSUME NEW r \in Runs,
               CancelRead(r) \/ CancelWrite(r) \/ CancelAbort(r) \/ Recover(r) \/ Revoke(UserOf[r])
        PROVE  PermitsMatchHolders'
    BY <1>9, <1>u DEF CancelRead, CancelWrite, CancelAbort, Recover, Revoke, service
  <1>10. CASE Listen
    BY <1>10, <1>u DEF Listen
  <1>11. CASE Crash
    <2>1. active' = 0 /\ Holders' = {}
      BY <1>11, <1>0 DEF Crash, Holders, NoOrch
    <2>2. QED BY <2>1, FS_EmptySet, Bounds DEF PermitsMatchHolders
  <1>12. QED
    BY <1>1, <1>2, <1>3, <1>5, <1>6, <1>7, <1>8, <1>9, <1>10, <1>11 DEF ServiceStep, ServiceRun, RunStep

(***************************************************************************)
(* Permits neither leak nor are released twice, for every limit and load.  *)
(***************************************************************************)
THEOREM PermitsAreAccounted == Spec => []PermitsMatchHolders
  <1>1. Init => PermitsMatchHolders
    <2>1. Init => Holders = {} /\ active = 0
      BY DEF Init, RunsInit, Holders, NoOrch
    <2>2. QED BY <2>1, FS_EmptySet, Bounds DEF PermitsMatchHolders
  <1>2. RunsTypeOK /\ DriverInv /\ PermitsMatchHolders /\ [Next]_vars => PermitsMatchHolders'
    BY PermitsKept, PagesOnlyRead
  <1>3. QED BY <1>1, <1>2, RunsTypeCorrect, DriversCorrect, PTL DEF Spec

-----------------------------------------------------------------------------
(***************************************************************************)
(* The promise to the user.                                                *)
(***************************************************************************)
Pieces(r) == {i \in 1..Len(log[r]) : log[r][i].type = "answer_delta"}

LEMMA PiecesFinite ==
    ASSUME RunsTypeOK, NEW r \in Runs
    PROVE  IsFiniteSet(Pieces(r)) /\ Deltas(r) = Cardinality(Pieces(r)) /\ Deltas(r) \in Nat
  <1>1. Len(log[r]) \in Nat
    BY DEF RunsTypeOK
  <1>2. IsFiniteSet(1..Len(log[r]))
    BY <1>1, FS_Interval
  <1>3. IsFiniteSet(Pieces(r))
    BY <1>2, FS_Subset DEF Pieces
  <1>4. QED BY <1>3, FS_CardinalityType DEF Pieces, Deltas, DeltasUpTo

LEMMA PiecesKept ==
    ASSUME RunsTypeOK, NEW r \in Runs, NEW events \in Seq(Events),
           \A i \in 1..Len(events) : events[i].type # "answer_delta",
           log' = [log EXCEPT ![r] = @ \o events]
    PROVE  \A q \in Runs : Deltas(q)' = Deltas(q)
  <1>1. log[r] \in Seq(Events)
    BY DEF RunsTypeOK
  <1>2. Pieces(r)' = Pieces(r)
    BY <1>1, AppendedEvents DEF Pieces
  <1>3. \A q \in Runs \ {r} : Pieces(q)' = Pieces(q)
    BY AppendedEvents DEF Pieces
  <1>4. QED BY <1>2, <1>3 DEF Pieces, Deltas, DeltasUpTo

LEMMA OnePiece ==
    ASSUME RunsTypeOK, NEW r \in Runs,
           log' = [log EXCEPT ![r] = @ \o <<Event("answer_delta")>>]
    PROVE  Deltas(r)' = Deltas(r) + 1 /\ \A q \in Runs \ {r} : Deltas(q)' = Deltas(q)
  <1> DEFINE events == <<Event("answer_delta")>>
  <1>1. log[r] \in Seq(Events)
    BY DEF RunsTypeOK
  <1>2. events \in Seq(Events) /\ Len(events) = 1 /\ events[1].type = "answer_delta"
    BY DEF Event, Events, EventTypes, RunState
  <1>3. log' = [log EXCEPT ![r] = @ \o events]
    OBVIOUS
  <1> HIDE DEF events
  <1>4. Pieces(r)' = Pieces(r) \cup {Len(log[r]) + 1}
    <2>1. /\ Len(log'[r]) = Len(log[r]) + 1
          /\ \A i \in 1..Len(log'[r]) :
                log'[r][i] = IF i <= Len(log[r]) THEN log[r][i] ELSE events[i - Len(log[r])]
      <3>1. events \in Seq(Events) /\ log' = [log EXCEPT ![r] = @ \o events]
        BY <1>2, <1>3
      <3>2. Len(log'[r]) = Len(log[r]) + Len(events)
        BY <3>1, AppendedEvents
      <3>3. \A i \in 1..Len(log'[r]) :
              log'[r][i] = IF i <= Len(log[r]) THEN log[r][i] ELSE events[i - Len(log[r])]
        BY <3>1, AppendedEvents
      <3>4. QED BY <1>2, <3>2, <3>3
    <2>2. Len(log[r]) \in Nat
      BY <1>1
    <2>3. QED BY <1>2, <2>1, <2>2 DEF Pieces
  <1>5. Len(log[r]) + 1 \notin Pieces(r)
    BY <1>1 DEF Pieces
  <1>6. Cardinality(Pieces(r)') = Cardinality(Pieces(r)) + 1
    BY <1>4, <1>5, PiecesFinite, FS_AddElement
  <1>7. \A q \in Runs \ {r} : Pieces(q)' = Pieces(q)
    BY <1>2, <1>3, AppendedEvents DEF Pieces
  <1>8. QED BY <1>6, <1>7 DEF Pieces, Deltas, DeltasUpTo

UnaskedIsSilent == \A r \in Runs : run[r] = "absent" => log[r] = << >>

LEMMA SilenceKept ==
    ASSUME RunsTypeOK, UnaskedIsSilent, NEW r \in Runs, Changed(r)
    PROVE  UnaskedIsSilent'
  BY DEF UnaskedIsSilent, Changed, Asked, InsertRun, Moved, Added, Ended, RunsTypeOK, Active, Terminal

\* A step on one run is a step of the promise.
LEMMA PromiseStep ==
    ASSUME RunsTypeOK, UnaskedIsSilent, NEW r \in Runs, Changed(r)
    PROVE  [Promise!Next]_(Promise!pvars)
  <1> DEFINE stage == [q \in Runs |-> Stage(q)]
  <1> DEFINE pieces == [q \in Runs |-> Deltas(q)]
  <1>0. run \in [Runs -> RunState]
    BY DEF RunsTypeOK
  <1>d. Active = {"planning", "querying", "responding"} /\ Terminal = {"completed", "failed", "cancelled"}
    BY DEF Active, Terminal
  <1>o. \A q \in Runs \ {r} : Stage(q)' = Stage(q)
    BY <1>0 DEF Changed, Asked, InsertRun, Moved, Added, Ended, Stage
  <1>e. \A to \in RunState : StateEvent(to) \in Events /\ StateEvent(to).type # "answer_delta"
    BY DEF StateEvent, Events, EventTypes
  <1>w. ASSUME run[r] \in Active PROVE stage[r] = "working"
    BY <1>w, <1>d DEF Stage
  <1>1. CASE Asked(r)
    <2>1. stage[r] = "unasked" /\ Stage(r)' = "working"
      BY <1>1, <1>0, <1>d DEF Asked, InsertRun, Stage
    <2>2. stage' = [stage EXCEPT ![r] = "working"]
      BY <2>1, <1>o
    <2>3. log'[r] = <<StateEvent("planning")>> /\ \A q \in Runs \ {r} : log'[q] = log[q]
      BY <1>1 DEF Asked, InsertRun, RunsTypeOK
    <2>4. Pieces(r)' = {} /\ Pieces(r) = {}
      <3>1. log[r] = << >>
        BY <1>1 DEF Asked, UnaskedIsSilent
      <3>2. QED BY <2>3, <3>1 DEF Pieces, StateEvent
    <2>5. Deltas(r)' = Deltas(r)
      BY <2>4 DEF Pieces, Deltas, DeltasUpTo
    <2>6. \A q \in Runs \ {r} : Deltas(q)' = Deltas(q)
      BY <2>3 DEF Deltas, DeltasUpTo
    <2>7. pieces' = pieces
      BY <2>5, <2>6
    <2>8. Promise!Ask(r)
      BY <2>1, <2>2, <2>7 DEF Promise!Ask
    <2>9. QED BY <2>8 DEF Promise!Next
  <1>2. CASE Moved(r)
    <2>1. PICK to \in {"querying", "responding"} :
            run' = [run EXCEPT ![r] = to] /\ log' = [log EXCEPT ![r] = @ \o <<StateEvent(to)>>]
      BY <1>2 DEF Moved
    <2>2. \A q \in Runs : Deltas(q)' = Deltas(q)
      <3>1. to \in RunState
        BY DEF RunState, Active
      <3>2. <<StateEvent(to)>> \in Seq(Events)
        BY <1>e, <3>1
      <3>3. \A i \in 1..Len(<<StateEvent(to)>>) : <<StateEvent(to)>>[i].type # "answer_delta"
        BY <1>e, <3>1
      <3>4. QED BY <2>1, <3>2, <3>3, PiecesKept
    <2>3. Stage(r)' = Stage(r)
      BY <1>2, <2>1, <1>0, <1>d DEF Moved, Stage
    <2>4. QED BY <2>2, <2>3, <1>o DEF Promise!pvars
  <1>3. CASE Added(r)
    <2>1. PICK events \in Quiet :
            run[r] \in Active /\ run' = run /\ log' = [log EXCEPT ![r] = @ \o events]
      BY <1>3 DEF Added
    <2>2. stage' = stage
      BY <2>1 DEF Stage
    <2>3. CASE events = <<Event("answer_delta")>>
      <3>1. Deltas(r)' = Deltas(r) + 1 /\ \A q \in Runs \ {r} : Deltas(q)' = Deltas(q)
        BY <2>1, <2>3, OnePiece
      <3>2. pieces' = [pieces EXCEPT ![r] = @ + 1]
        BY <3>1
      <3>3. Promise!Grow(r)
        BY <1>w, <2>1, <2>2, <3>2 DEF Promise!Grow
      <3>4. QED BY <3>3 DEF Promise!Next
    <2>4. CASE events # <<Event("answer_delta")>>
      <3>1. \A type \in {"tool_args", "tool_status", "source"} :
              Event(type) \in Events /\ Event(type).type # "answer_delta"
        BY DEF Event, Events, EventTypes, RunState
      <3>2. events \in Seq(Events) /\ \A i \in 1..Len(events) : events[i].type # "answer_delta"
        <4>1. CASE events = <<Event("tool_args")>> BY <4>1, <3>1
        <4>2. CASE events = <<Event("tool_status")>> BY <4>2, <3>1
        <4>3. CASE events = <<Event("tool_status"), Event("tool_status")>> BY <4>3, <3>1
        <4>4. CASE events = <<Event("tool_status"), Event("source")>> BY <4>4, <3>1
        <4>5. QED BY <2>1, <2>4, <4>1, <4>2, <4>3, <4>4 DEF Quiet
      <3>3. \A q \in Runs : Deltas(q)' = Deltas(q)
        BY <2>1, <3>2, PiecesKept
      <3>4. QED BY <2>2, <3>3 DEF Promise!pvars
    <2>5. QED BY <2>3, <2>4
  <1>4. CASE Ended(r)
    <2>1. PICK to \in Terminal :
            /\ run[r] \in Active
            /\ run' = [run EXCEPT ![r] = to]
            /\ log' = [log EXCEPT ![r] = @ \o <<StateEvent(to), EndEvent(to)>>]
      BY <1>4 DEF Ended
    <2>2. StateEvent(to) \in Events /\ StateEvent(to).type # "answer_delta"
      BY <1>e DEF RunState
    <2>3. EndEvent(to) \in Events /\ EndEvent(to).type # "answer_delta"
      BY <1>d DEF EndEvent, Event, Events, EventTypes, TerminalTypes, RunState
    <2>4. \A q \in Runs : Deltas(q)' = Deltas(q)
      <3>1. <<StateEvent(to), EndEvent(to)>> \in Seq(Events)
        BY <2>2, <2>3
      <3>2. \A i \in 1..Len(<<StateEvent(to), EndEvent(to)>>) :
              <<StateEvent(to), EndEvent(to)>>[i].type # "answer_delta"
        BY <2>2, <2>3
      <3>3. QED BY <2>1, <3>1, <3>2, PiecesKept
    <2>5. Stage(r)' = to
      BY <2>1, <1>0, <1>d DEF Stage
    <2>6. stage' = [stage EXCEPT ![r] = to] /\ pieces' = pieces
      BY <2>4, <2>5, <1>o
    <2>7. Promise!End(r)
      BY <2>1, <2>6, <1>w, <1>d DEF Promise!End
    <2>8. QED BY <2>7 DEF Promise!Next
  <1>5. QED BY <1>1, <1>2, <1>3, <1>4 DEF Changed

(***************************************************************************)
(* The service, with its races, crashes and restarts, keeps its promise.   *)
(***************************************************************************)
THEOREM ServiceKeepsPromise == Spec => KeepsPromise
  <1>1. Init => Promise!Init
    <2>1. SUFFICES ASSUME Init PROVE Promise!Init
      OBVIOUS
    <2>2. \A r \in Runs : Stage(r) = "unasked" /\ Pieces(r) = {}
      BY <2>1 DEF Init, RunsInit, Stage, Pieces
    <2>3. \A r \in Runs : Deltas(r) = 0
      BY <2>2, FS_EmptySet DEF Pieces, Deltas, DeltasUpTo
    <2>4. QED BY <2>2, <2>3 DEF Promise!Init
  <1>2. Init => UnaskedIsSilent
    BY DEF Init, RunsInit, UnaskedIsSilent
  <1>3. RunsTypeOK /\ UnaskedIsSilent /\ [Next]_vars
          => UnaskedIsSilent' /\ [Promise!Next]_(Promise!pvars)
    <2>1. SUFFICES ASSUME RunsTypeOK, UnaskedIsSilent, [ServiceStep]_runVars
                   PROVE  UnaskedIsSilent' /\ [Promise!Next]_(Promise!pvars)
      BY PagesOnlyRead
    <2>2. CASE UNCHANGED db
      <3>1. run' = run /\ log' = log
        BY <2>2 DEF db
      <3>2. \A r \in Runs : Stage(r)' = Stage(r) /\ Deltas(r)' = Deltas(r)
        BY <3>1 DEF Stage, Deltas, DeltasUpTo
      <3>3. QED BY <2>1, <3>1, <3>2 DEF UnaskedIsSilent, Promise!pvars
    <2>3. CASE \E r \in Runs : Changed(r)
      BY <2>1, <2>3, SilenceKept, PromiseStep
    <2>4. QED BY <2>1, <2>2, <2>3, DbStep DEF runVars, db
  <1>4. QED BY <1>1, <1>2, <1>3, RunsTypeCorrect, PTL DEF Spec, KeepsPromise, Promise!Spec

-----------------------------------------------------------------------------
(***************************************************************************)
(* Pages.  Logs only grow and an ended run stays, so what a page has seen  *)
(* remains true; what is on the wire follows what its reader has received  *)
(* (InStep), and of a run the page follows it has seen at least that much  *)
(* (Attuned).                                                              *)
(***************************************************************************)
\* A state event that names an end tells how the run ended.
StatesTold ==
    \A r \in Runs : \A i \in 1..Len(log[r]) :
        log[r][i].type = "state" /\ log[r][i].state \in Terminal => run[r] = log[r][i].state

ServiceInv == RunsTypeOK /\ UnaskedIsSilent /\ LogTellsTheEnd /\ StatesTold

\* A stream that may still bring something.
Fed(p) == conn[p] \in {"open", "closing"} \/ wire[p] # << >>

\* The wire holds, in order, what a reader may see between the last event it
\* has received and the last one the service has sent.
InStep(p) ==
    /\ got[p] <= cursor[p] /\ cursor[p] <= Len(log[feed[p]])
    /\ \A i \in 1..Len(wire[p]) : wire[p][i] # 0 => got[p] < wire[p][i] /\ wire[p][i] <= cursor[p]
    /\ \A i, j \in 1..Len(wire[p]) : i < j => wire[p][i] # 0 /\ (wire[p][j] # 0 => wire[p][i] < wire[p][j])
    /\ \A k \in (got[p] + 1)..cursor[p] :
          log[feed[p]][k].type \notin InternalTypes => \E i \in 1..Len(wire[p]) : wire[p][i] = k
    /\ conn[p] = "open" => \A i \in 1..Len(wire[p]) : wire[p][i] # 0

StreamInv(p) ==
    /\ conn[p] = "off" => wire[p] = << >>
    /\ feed[p] \in Runs => got[p] <= Len(log[feed[p]])
    /\ Fed(p) => feed[p] \in Runs /\ InStep(p)
    /\ \A i \in 1..Len(wire[p]) : wire[p][i] = 0 => UserOf[feed[p]] \in denied

\* What the page has been told, and not shown yet, is true of the run it asked for.
AnswersInv(p) ==
    /\ snap[p].run \in Runs =>
         /\ snap[p].state \in Active \cup Terminal
         /\ snap[p].state \in Terminal => run[snap[p].run] = snap[p].state
    /\ stop[p].said = "cancelled" => stop[p].run \in Runs /\ run[stop[p].run] = "cancelled"

PrefixShown(row) ==
    row.phase \in {"busy", "done"} => row.seen <= Len(log[row.run]) /\ row.shown = DeltasUpTo(row.run, row.seen)

EndShown(row) ==
    /\ row.phase = "done" => run[row.run] = "completed"
    /\ row.phase = "cancelled" => run[row.run] = "cancelled"
    /\ row.phase = "error" => run[row.run] = "failed" \/ UserOf[row.run] \in denied

\* What a page shows that has heard of no other run than its own.
True(row) ==
    /\ row.run = NoRun => row.seen = 0 /\ row.shown = 0 /\ row.phase \notin Settled
    /\ row.run \in Runs => PrefixShown(row) /\ EndShown(row)

\* A page that follows its own run has seen all that its reader has received.
Attuned(p) ==
    page[p].phase = "busy" /\ page[p].run = feed[p] /\ feed[p] \in Runs => got[p] <= page[p].seen

RowInv(p) ==
    /\ page[p].phase \in {"idle", "submitting"} => page[p].run = NoRun
    /\ ~ Ready(p) => page[p].run = NoRun /\ page[p].phase # "submitting"
    /\ ~ page[p].stray => True(page[p]) /\ Attuned(p)

PageInv(p) == StreamInv(p) /\ AnswersInv(p) /\ RowInv(p)

-----------------------------------------------------------------------------
LogGrows(q) ==
    /\ Len(log'[q]) >= Len(log[q])
    /\ \A i \in 1..Len(log[q]) : log'[q][i] = log[q][i]

\* What the service may do while a page reads.
Grows ==
    /\ \A q \in Runs : LogGrows(q) /\ (run[q] \in Terminal => run'[q] = run[q])
    /\ denied \subseteq denied'

LEMMA LogTyped == ASSUME RunsTypeOK, NEW q \in Runs PROVE log[q] \in Seq(Events) /\ Len(log[q]) \in Nat
BY DEF RunsTypeOK

LEMMA AppendedGrows ==
    ASSUME RunsTypeOK, NEW r \in Runs, NEW events \in Seq(Events),
           log' = [log EXCEPT ![r] = @ \o events]
    PROVE  \A q \in Runs : LogGrows(q)
<1>1. \A q \in Runs \ {r} : LogGrows(q)
  BY LogTyped, AppendedEvents DEF LogGrows
<1>2. LogGrows(r)
  <2>1. log[r] \in Seq(Events) /\ Len(log[r]) \in Nat /\ Len(events) \in Nat
    BY LogTyped
  <2>2. /\ Len(log'[r]) = Len(log[r]) + Len(events)
        /\ \A i \in 1..Len(log'[r]) :
              log'[r][i] = IF i <= Len(log[r]) THEN log[r][i] ELSE events[i - Len(log[r])]
    BY AppendedEvents
  <2> QED
    BY <2>1, <2>2 DEF LogGrows
<1> QED
  BY <1>1, <1>2

LEMMA ChangedRun ==
    ASSUME RunsTypeOK, NEW r \in Runs, Changed(r)
    PROVE  run[r] \notin Terminal /\ \A q \in Runs \ {r} : run'[q] = run[q] /\ log'[q] = log[q]
BY DEF RunsTypeOK, Changed, Asked, InsertRun, Moved, Added, Ended, Active, Terminal

LEMMA QuietEvents == ASSUME NEW events \in Quiet
    PROVE  events \in Seq(Events) /\ \A i \in 1..Len(events) : events[i].type # "state"
<1>1. \A type \in {"tool_args", "tool_status", "source", "answer_delta"} :
        Event(type) \in Events /\ Event(type).type # "state"
  BY DEF Event, Events, EventTypes, RunState
<1>2. CASE events = <<Event("tool_args")>>
  BY <1>1, <1>2
<1>3. CASE events = <<Event("tool_status")>>
  BY <1>1, <1>3
<1>4. CASE events = <<Event("tool_status"), Event("tool_status")>>
  BY <1>1, <1>4
<1>5. CASE events = <<Event("tool_status"), Event("source")>>
  BY <1>1, <1>5
<1>6. CASE events = <<Event("answer_delta")>>
  BY <1>1, <1>6
<1> QED
  BY <1>2, <1>3, <1>4, <1>5, <1>6 DEF Quiet

\* What a change appends, and what becomes of the run.
LEMMA ChangeAppends ==
    ASSUME RunsTypeOK, UnaskedIsSilent, NEW r \in Runs, Changed(r)
    PROVE  \E events \in Seq(Events) :
             /\ log' = [log EXCEPT ![r] = @ \o events]
             /\ \A i \in 1..Len(events) : events[i].type = "state" /\ events[i].state \in Terminal
                                            => run'[r] = events[i].state
<1>1. \A to \in RunState : StateEvent(to) \in Events /\ StateEvent(to).state = to
  BY DEF StateEvent, Events, EventTypes
<1>2. log[r] \in Seq(Events)
  BY LogTyped
<1>3. CASE Asked(r)
  <2>1. log[r] = << >>
    BY <1>3 DEF Asked, UnaskedIsSilent
  <2>2. <<StateEvent("planning")>> \in Seq(Events) /\ << >> \o <<StateEvent("planning")>> = <<StateEvent("planning")>>
    BY <1>1 DEF RunState, Active
  <2>3. log' = [log EXCEPT ![r] = @ \o <<StateEvent("planning")>>]
    BY <1>3, <2>1, <2>2 DEF Asked, InsertRun
  <2>4. \A i \in 1..Len(<<StateEvent("planning")>>) : <<StateEvent("planning")>>[i].state \notin Terminal
    BY <1>1 DEF RunState, Active, Terminal
  <2> QED
    BY <2>2, <2>3, <2>4
<1>4. CASE Moved(r)
  <2>1. PICK to \in {"querying", "responding"} : log' = [log EXCEPT ![r] = @ \o <<StateEvent(to)>>]
    BY <1>4 DEF Moved
  <2>2. <<StateEvent(to)>> \in Seq(Events) /\ \A i \in 1..Len(<<StateEvent(to)>>) : <<StateEvent(to)>>[i].state \notin Terminal
    BY <1>1 DEF RunState, Active, Terminal
  <2> QED
    BY <2>1, <2>2
<1>5. CASE Added(r)
  BY <1>5, QuietEvents DEF Added
<1>6. CASE Ended(r)
  <2>1. PICK to \in Terminal : /\ run' = [run EXCEPT ![r] = to]
                               /\ log' = [log EXCEPT ![r] = @ \o <<StateEvent(to), EndEvent(to)>>]
    BY <1>6 DEF Ended
  <2>2. EndEvent(to) \in Events /\ EndEvent(to).type # "state"
    BY DEF EndEvent, Event, Events, EventTypes, TerminalTypes, RunState, Terminal
  <2> DEFINE events == <<StateEvent(to), EndEvent(to)>>
  <2>3. StateEvent(to) \in Events /\ StateEvent(to).state = to
    BY <1>1 DEF RunState
  <2>4. events \in Seq(Events) /\ Len(events) = 2 /\ events[1] = StateEvent(to) /\ events[2] = EndEvent(to)
    BY <2>2, <2>3
  <2> HIDE DEF events
  <2>5. run'[r] = to /\ log' = [log EXCEPT ![r] = @ \o events]
    BY <2>1 DEF RunsTypeOK, events
  <2>6. ASSUME NEW i \in 1..Len(events), events[i].type = "state" PROVE run'[r] = events[i].state
    <3>1. i = 1
      BY <2>2, <2>4, <2>6
    <3> QED
      BY <2>3, <2>4, <2>5, <3>1
  <2> QED
    BY <2>4, <2>5, <2>6
<1> QED
  BY <1>3, <1>4, <1>5, <1>6 DEF Changed

LEMMA ServiceGrows ==
    ASSUME RunsTypeOK, UnaskedIsSilent, [ServiceStep]_runVars
    PROVE  Grows
<1>1. denied \subseteq denied'
  <2>1. CASE UNCHANGED runVars
    BY <2>1 DEF runVars, service
  <2>2. ASSUME NEW r \in Runs, OrchestratorStep(r) PROVE denied' = denied
    BY <2>2 DEF OrchestratorStep, Others, Start, Plan, Call, Reject, Execute, ToolAnswers,
                ToolFails, Authorize, StreamAnswer, Complete, ModelFails, ReadForFail, FailRun, Finish
  <2>3. ASSUME NEW r \in Runs, ServiceRun(r) PROVE denied' = denied
    BY <2>2, <2>3 DEF ServiceRun, RunStep, LookupKey, CheckActive, Create, CreateConflict, CancelRead, CancelWrite, Recover, service
  <2>4. ASSUME NEW r \in Runs, CancelAbort(r) \/ Revoke(UserOf[r]) PROVE denied \subseteq denied'
    BY <2>4 DEF CancelAbort, Revoke
  <2>5. ASSUME Listen \/ Crash PROVE denied' = denied
    BY <2>5 DEF Listen, Crash
  <2> QED
    BY <2>1, <2>3, <2>4, <2>5 DEF ServiceStep
<1>2. CASE UNCHANGED db
  <2>1. run' = run /\ log' = log
    BY <1>2 DEF db
  <2>2. \A q \in Runs : LogGrows(q)
    BY <2>1, LogTyped DEF LogGrows
  <2> QED
    BY <1>1, <2>1, <2>2 DEF Grows
<1>3. ASSUME NEW r \in Runs, Changed(r) PROVE Grows
  <2>1. \A q \in Runs : LogGrows(q)
    BY <1>3, ChangeAppends, AppendedGrows
  <2> QED
    BY <1>1, <1>3, <2>1, ChangedRun DEF Grows
<1> QED
  BY <1>2, <1>3, DbStep DEF runVars, db

LEMMA StatesKept ==
    ASSUME RunsTypeOK, UnaskedIsSilent, StatesTold, [ServiceStep]_runVars
    PROVE  StatesTold'
<1>1. CASE UNCHANGED db
  BY <1>1 DEF db, StatesTold
<1>2. ASSUME NEW r \in Runs, Changed(r) PROVE StatesTold'
  <2>1. PICK events \in Seq(Events) :
             /\ log' = [log EXCEPT ![r] = @ \o events]
             /\ \A i \in 1..Len(events) : events[i].type = "state" /\ events[i].state \in Terminal
                                            => run'[r] = events[i].state
    BY <1>2, ChangeAppends
  <2>2. ASSUME NEW i \in 1..Len(log'[r]), log'[r][i].type = "state", log'[r][i].state \in Terminal
        PROVE  run'[r] = log'[r][i].state
    <3>1. log'[r][i] = (IF i <= Len(log[r]) THEN log[r][i] ELSE events[i - Len(log[r])])
          /\ Len(log'[r]) = Len(log[r]) + Len(events)
      BY <2>1, AppendedEvents
    <3>2. Len(log[r]) \in Nat /\ Len(events) \in Nat
      BY LogTyped
    <3>3. CASE i <= Len(log[r])
      <4>1. run[r] = log[r][i].state
        BY <2>2, <3>1, <3>2, <3>3 DEF StatesTold
      <4> QED
        BY <1>2, <2>2, <3>1, <3>3, <4>1, ChangedRun
    <3>4. CASE ~ (i <= Len(log[r]))
      <4>1. i - Len(log[r]) \in 1..Len(events)
        BY <3>1, <3>2, <3>4
      <4> QED
        BY <2>1, <2>2, <3>1, <3>4, <4>1
    <3> QED
      BY <3>3, <3>4
  <2> QED
    BY <1>2, <2>2, ChangedRun DEF StatesTold
<1> QED
  BY <1>1, <1>2, DbStep DEF runVars, db

-----------------------------------------------------------------------------
ReaderTypes ==
    /\ page \in [Pages -> Page]
    /\ post \in [Pages -> RunId]
    /\ stop \in [Pages -> Stop]
    /\ snap \in [Pages -> Snapshot]
    /\ feed \in [Pages -> RunId]
    /\ got \in [Pages -> Nat]
    /\ conn \in [Pages -> {"off", "open", "closing", "over"}]
    /\ cursor \in [Pages -> Nat]
    /\ wire \in [Pages -> Seq(Nat)]

PiecesIn(events, n) == {i \in 1..n : events[i].type = "answer_delta"}

LEMMA PiecesNumbered ==
    ASSUME NEW events, NEW n \in Nat
    PROVE  IsFiniteSet(PiecesIn(events, n)) /\ Cardinality(PiecesIn(events, n)) \in Nat
<1>1. IsFiniteSet(1..n)
  BY FS_Interval
<1>2. PiecesIn(events, n) \subseteq 1..n
  BY DEF PiecesIn
<1> QED
  BY <1>1, <1>2, FS_Subset, FS_CardinalityType

\* Events that are no pieces of the answer do not count.
LEMMA NextPiece ==
    ASSUME NEW events, NEW m \in Nat, NEW n \in Nat, m < n,
           \A k \in (m + 1)..(n - 1) : events[k].type # "answer_delta"
    PROVE  Cardinality(PiecesIn(events, n)) =
             IF events[n].type = "answer_delta" THEN Cardinality(PiecesIn(events, m)) + 1
             ELSE Cardinality(PiecesIn(events, m))
<1>1. CASE events[n].type = "answer_delta"
  <2>1. \A i : i \in PiecesIn(events, n) <=> i \in PiecesIn(events, m) \cup {n}
    BY <1>1 DEF PiecesIn
  <2>2. PiecesIn(events, n) = PiecesIn(events, m) \cup {n}
    BY <2>1
  <2>3. n \notin PiecesIn(events, m)
    BY DEF PiecesIn
  <2> QED
    BY <1>1, <2>2, <2>3, PiecesNumbered, FS_AddElement
<1>2. CASE events[n].type # "answer_delta"
  <2>1. \A i : i \in PiecesIn(events, n) <=> i \in PiecesIn(events, m)
    BY <1>2 DEF PiecesIn
  <2> QED
    BY <1>2, <2>1
<1> QED
  BY <1>1, <1>2

LEMMA DeltasArePieces == \A r, n : DeltasUpTo(r, n) = Cardinality(PiecesIn(log[r], n))
BY DEF DeltasUpTo, PiecesIn

LEMMA SamePieces ==
    ASSUME NEW before, NEW after, NEW n \in Nat, \A i \in 1..n : after[i] = before[i]
    PROVE  PiecesIn(after, n) = PiecesIn(before, n)
<1>1. ASSUME NEW i \in PiecesIn(after, n) PROVE i \in PiecesIn(before, n)
  <2>1. i \in 1..n /\ after[i].type = "answer_delta"
    BY DEF PiecesIn
  <2>2. after[i] = before[i]
    BY <2>1
  <2>3. before[i].type = "answer_delta"
    BY <2>1, <2>2, Zenon
  <2> QED
    BY <2>1, <2>3 DEF PiecesIn
<1>2. ASSUME NEW i \in PiecesIn(before, n) PROVE i \in PiecesIn(after, n)
  <2>1. i \in 1..n /\ before[i].type = "answer_delta"
    BY DEF PiecesIn
  <2>2. after[i] = before[i]
    BY <2>1
  <2> QED
    BY <2>1, <2>2 DEF PiecesIn
<1> QED
  BY <1>1, <1>2 DEF PiecesIn

-----------------------------------------------------------------------------
SameStream(p) ==
    /\ feed'[p] = feed[p] /\ got'[p] = got[p] /\ conn'[p] = conn[p]
    /\ cursor'[p] = cursor[p] /\ wire'[p] = wire[p]
SameAnswers(p) == snap'[p] = snap[p] /\ stop'[p] = stop[p]
Same(p) == page'[p] = page[p] /\ SameAnswers(p) /\ SameStream(p)

LEMMA RowTypes ==
    ASSUME ReaderTypes, NEW p \in Pages
    PROVE  /\ page[p] \in Page /\ page[p].seen \in Nat /\ page[p].shown \in Nat
           /\ page[p].run \in RunId /\ page[p].phase \in Phases /\ page[p].stray \in BOOLEAN
           /\ stop[p] \in Stop /\ stop[p].run \in RunId /\ stop[p].seq \in Nat
           /\ snap[p] \in Snapshot /\ snap[p].run \in RunId
           /\ feed[p] \in RunId /\ got[p] \in Nat
           /\ conn[p] \in {"off", "open", "closing", "over"}
           /\ cursor[p] \in Nat /\ wire[p] \in Seq(Nat) /\ Len(wire[p]) \in Nat
<1>1. page[p] \in Page /\ stop[p] \in Stop /\ snap[p] \in Snapshot
  BY DEF ReaderTypes
<1> QED
  BY <1>1 DEF ReaderTypes, Page, Stop, Snapshot

\* The service goes on: what is on the wire remains in step.
LEMMA StreamKept ==
    ASSUME RunsTypeOK, ReaderTypes, Grows, NEW p \in Pages, StreamInv(p), SameStream(p)
    PROVE  StreamInv(p)'
<1>1. ASSUME feed[p] \in Runs
      PROVE  /\ LogGrows(feed[p]) /\ Len(log[feed[p]]) \in Nat /\ Len(log'[feed[p]]) \in Nat
             /\ Len(log'[feed[p]]) >= Len(log[feed[p]])
  BY <1>1, LogTyped DEF Grows, LogGrows
<1>2. got[p] \in Nat /\ cursor[p] \in Nat
  BY RowTypes
<1>3. ASSUME Fed(p) PROVE InStep(p)'
  <2>1. feed[p] \in Runs /\ InStep(p)
    BY <1>3 DEF StreamInv
  <2>2. cursor[p] <= Len(log'[feed[p]])
    BY <1>1, <1>2, <2>1 DEF InStep
  <2>3. \A k \in (got[p] + 1)..cursor[p] : log'[feed[p]][k] = log[feed[p]][k]
    BY <1>1, <1>2, <2>1 DEF InStep, LogGrows
  <2> QED
    BY <2>1, <2>2, <2>3 DEF InStep, SameStream
<1>4. ASSUME feed[p] \in Runs PROVE got[p] <= Len(log'[feed[p]])
  BY <1>1, <1>2, <1>4 DEF StreamInv
<1>5. (\A i \in 1..Len(wire[p]) : wire[p][i] = 0 => UserOf[feed[p]] \in denied)'
  BY DEF StreamInv, SameStream, Grows
<1> QED
  BY <1>3, <1>4, <1>5 DEF StreamInv, SameStream, Fed

LEMMA AnswersKept ==
    ASSUME Grows, NEW p \in Pages, AnswersInv(p), SameAnswers(p)
    PROVE  AnswersInv(p)'
BY DEF AnswersInv, SameAnswers, Grows, Terminal

\* What is true of a row remains true.
LEMMA TrueKept ==
    ASSUME RunsTypeOK, Grows, NEW row \in Page, True(row)
    PROVE  True(row)'
<1>1. row.seen \in Nat
  BY DEF Page
<1>2. ASSUME row.run \in Runs PROVE EndShown(row)'
  BY <1>2 DEF True, EndShown, Grows, Terminal
<1>3. ASSUME row.run \in Runs, row.phase \in {"busy", "done"} PROVE PrefixShown(row)'
  <2>1. row.seen <= Len(log[row.run]) /\ row.shown = Cardinality(PiecesIn(log[row.run], row.seen))
    BY <1>3, DeltasArePieces DEF True, PrefixShown
  <2>2. LogGrows(row.run) /\ Len(log[row.run]) \in Nat /\ Len(log'[row.run]) \in Nat
    BY <1>3, LogTyped DEF Grows, LogGrows
  <2>3. \A i \in 1..row.seen : log'[row.run][i] = log[row.run][i]
    BY <1>1, <2>1, <2>2 DEF LogGrows
  <2>4. PiecesIn(log'[row.run], row.seen) = PiecesIn(log[row.run], row.seen)
    <3>1. \A before, after : (\A i \in 1..row.seen : after[i] = before[i])
                                => PiecesIn(after, row.seen) = PiecesIn(before, row.seen)
      BY <1>1, SamePieces
    <3> QED
      BY <2>3, <3>1
  <2>5. row.seen <= Len(log'[row.run])
    BY <1>1, <2>1, <2>2 DEF LogGrows
  <2>6. row.shown = Cardinality({i \in 1..row.seen : log'[row.run][i].type = "answer_delta"})
    BY <2>1, <2>4 DEF PiecesIn
  <2> QED
    BY <2>5, <2>6 DEF PrefixShown, DeltasUpTo
<1> QED
  BY <1>2, <1>3 DEF True, PrefixShown

\* A page that keeps its row; a reader that starts anew must be attuned.
LEMMA RowKept ==
    ASSUME RunsTypeOK, ReaderTypes, Grows, NEW p \in Pages, RowInv(p), page'[p] = page[p],
           ~ Ready(p)' => ~ Ready(p), ~ page[p].stray => Attuned(p)'
    PROVE  RowInv(p)'
<1>1. page[p] \in Page
  BY RowTypes
<1>2. ~ page[p].stray => True(page[p])'
  BY <1>1, TrueKept DEF RowInv
<1> QED
  BY <1>2 DEF RowInv, True, PrefixShown, EndShown

LEMMA AttunedKept ==
    ASSUME NEW p \in Pages, Attuned(p), page'[p] = page[p], feed'[p] = feed[p], got'[p] = got[p]
    PROVE  Attuned(p)'
BY DEF Attuned

LEMMA PageKept ==
    ASSUME RunsTypeOK, ReaderTypes, Grows, NEW p \in Pages, PageInv(p), Same(p)
    PROVE  PageInv(p)'
<1>1. page'[p] = page[p] /\ SameAnswers(p) /\ SameStream(p) /\ (~ Ready(p)' => ~ Ready(p))
  BY DEF Same, SameAnswers, Ready
<1>2. StreamInv(p)' /\ AnswersInv(p)'
  BY <1>1, StreamKept, AnswersKept DEF PageInv
<1>3. ~ page[p].stray => Attuned(p)'
  BY <1>1, AttunedKept DEF PageInv, RowInv, SameStream
<1>4. RowInv(p)'
  BY <1>1, <1>3, RowKept DEF PageInv
<1> QED
  BY <1>2, <1>4 DEF PageInv

LEMMA ServiceAway ==
    ASSUME RunsTypeOK, UNCHANGED <<db, service>>
    PROVE  Grows
BY LogTyped DEF Grows, LogGrows, db, service

\* A page that acts does not disturb the others.
LEMMA OnePage ==
    ASSUME RunsTypeOK, ReaderTypes, \A q \in Pages : PageInv(q), Grows,
           NEW p \in Pages, \A q \in Pages \ {p} : Same(q), PageInv(p)'
    PROVE  \A q \in Pages : PageInv(q)'
<1>1. ASSUME NEW q \in Pages \ {p} PROVE PageInv(q)'
  <2>1. q \in Pages /\ PageInv(q) /\ Same(q)
    OBVIOUS
  <2> QED
    BY <2>1, PageKept
<1> QED
  BY <1>1

-----------------------------------------------------------------------------
LEMMA ServiceSame ==
    ASSUME UNCHANGED <<db, service>>
    PROVE  run' = run /\ log' = log /\ denied' = denied
BY DEF db, service

\* A stream that carries nothing yet, or any more.
LEMMA StreamIdle ==
    ASSUME NEW p \in Pages, conn'[p] \in {"off", "over"}, wire'[p] = << >>,
           feed'[p] \in Runs => got'[p] <= Len(log'[feed'[p]])
    PROVE  StreamInv(p)'
<1>1. ~ Fed(p)'
  BY DEF Fed
<1>2. Len(wire'[p]) = 0
  OBVIOUS
<1> QED
  BY <1>1, <1>2 DEF StreamInv

LEMMA StreamStarts ==
    ASSUME ReaderTypes, NEW p \in Pages, NEW r, NEW seq, FollowFrom(p, r, seq),
           r \in Runs => seq <= Len(log'[r])
    PROVE  StreamInv(p)' /\ feed'[p] = r /\ got'[p] = seq
<1>1. feed'[p] = r /\ got'[p] = seq /\ conn'[p] = "off" /\ wire'[p] = << >>
  BY DEF FollowFrom, Stream, ReaderTypes
<1> QED
  BY <1>1, StreamIdle

LEMMA OpenStream ==
    ASSUME RunsTypeOK, ReaderTypes, NEW p \in Pages, StreamInv(p), Open(p)
    PROVE  StreamInv(p)'
<1>1. log' = log /\ denied' = denied /\ feed' = feed /\ got' = got /\ feed[p] \in Runs
  BY ServiceSame, RowTypes DEF Open, RunId
<1>2. conn'[p] = "open" /\ cursor'[p] = got[p] /\ wire'[p] = << >>
  BY DEF Open, Stream, ReaderTypes
<1>3. got[p] \in Nat /\ got[p] <= Len(log[feed[p]])
  BY <1>1, RowTypes DEF StreamInv
<1> QED
  BY <1>1, <1>2, <1>3 DEF StreamInv, InStep

LEMMA SendStream ==
    ASSUME RunsTypeOK, ReaderTypes, NEW p \in Pages, StreamInv(p), Send(p)
    PROVE  StreamInv(p)'
<1> DEFINE r == feed[p]
           next == cursor[p] + 1
           quiet == log[r][next].type \in InternalTypes
<1>1. log' = log /\ denied' = denied /\ feed' = feed /\ got' = got
  BY ServiceSame DEF Send
<1>2. /\ conn'[p] \in {"closing", "open"} /\ cursor'[p] = next
      /\ wire'[p] = IF quiet THEN wire[p] ELSE Append(wire[p], next)
  BY DEF Send, Stream, ReaderTypes
<1>3. conn[p] = "open" /\ cursor[p] < Len(log[r]) /\ r \in Runs /\ InStep(p)
  BY DEF Send, StreamInv, Fed
<1>4. cursor[p] \in Nat /\ wire[p] \in Seq(Nat) /\ got[p] \in Nat /\ Len(wire[p]) \in Nat
      /\ Len(log[r]) \in Nat
  BY <1>3, RowTypes, LogTyped
<1>5. /\ ~ quiet => Len(wire'[p]) = Len(wire[p]) + 1 /\ wire'[p][Len(wire'[p])] = next
      /\ Len(wire'[p]) \in {Len(wire[p]), Len(wire[p]) + 1}
      /\ \A i \in 1..Len(wire'[p]) : wire'[p][i] = IF i <= Len(wire[p]) THEN wire[p][i] ELSE next
      /\ \A i \in 1..Len(wire[p]) : i \in 1..Len(wire'[p]) /\ wire'[p][i] = wire[p][i]
  <2>1. CASE quiet
    BY <1>2, <1>4, <2>1
  <2>2. CASE ~ quiet
    BY <1>2, <1>4, <2>2
  <2> QED
    BY <2>1, <2>2
<1>a. /\ got[p] <= cursor[p] /\ cursor[p] <= Len(log[r])
      /\ \A i \in 1..Len(wire[p]) : wire[p][i] # 0 => got[p] < wire[p][i] /\ wire[p][i] <= cursor[p]
      /\ \A i, j \in 1..Len(wire[p]) : i < j => wire[p][i] # 0 /\ (wire[p][j] # 0 => wire[p][i] < wire[p][j])
      /\ \A k \in (got[p] + 1)..cursor[p] :
            log[r][k].type \notin InternalTypes => \E i \in 1..Len(wire[p]) : wire[p][i] = k
      /\ \A i \in 1..Len(wire[p]) : wire[p][i] # 0
  BY <1>3 DEF InStep
<1>w. \A i \in 1..Len(wire[p]) : wire[p][i] \in Nat
  BY <1>4
<1>6. got[p] <= next /\ next <= Len(log[r])
  BY <1>3, <1>4, <1>a
<1>7. ASSUME NEW i \in 1..Len(wire'[p])
      PROVE  wire'[p][i] # 0 /\ got[p] < wire'[p][i] /\ wire'[p][i] <= next
  <2>1. CASE i <= Len(wire[p])
    <3>1. i \in 1..Len(wire[p]) /\ wire'[p][i] = wire[p][i]
      BY <1>4, <1>5, <2>1
    <3>2. wire[p][i] # 0 /\ got[p] < wire[p][i] /\ wire[p][i] <= cursor[p] /\ wire[p][i] \in Nat
      BY <1>a, <1>w, <3>1
    <3> QED
      BY <1>4, <3>1, <3>2
  <2>2. CASE ~ (i <= Len(wire[p]))
    BY <1>4, <1>5, <1>a, <2>2
  <2> QED
    BY <2>1, <2>2
<1>8. ASSUME NEW i \in 1..Len(wire'[p]), NEW j \in 1..Len(wire'[p]), i < j
      PROVE  wire'[p][i] < wire'[p][j]
  <2>1. i <= Len(wire[p]) /\ wire'[p][i] = wire[p][i]
    BY <1>4, <1>5, <1>8
  <2>2. CASE j <= Len(wire[p])
    BY <1>4, <1>5, <1>8, <1>a, <2>1, <2>2
  <2>3. CASE ~ (j <= Len(wire[p]))
    <3>1. wire'[p][j] = next
      BY <1>5, <2>3
    <3>2. i \in 1..Len(wire[p]) /\ wire[p][i] \in Nat /\ wire[p][i] <= cursor[p]
      BY <1>4, <1>a, <1>w, <2>1
    <3> QED
      BY <1>4, <2>1, <3>1, <3>2
  <2> QED
    BY <2>2, <2>3
<1>9. ASSUME NEW k \in (got[p] + 1)..next, log[r][k].type \notin InternalTypes
      PROVE  \E i \in 1..Len(wire'[p]) : wire'[p][i] = k
  <2>1. CASE k = next
    <3>1. ~ quiet
      BY <1>9, <2>1
    <3>2. Len(wire'[p]) \in 1..Len(wire'[p]) /\ wire'[p][Len(wire'[p])] = next
      BY <1>4, <1>5, <3>1
    <3> QED
      BY <2>1, <3>2
  <2>2. CASE k # next
    <3>1. k \in (got[p] + 1)..cursor[p]
      BY <1>4, <1>9, <2>2
    <3> QED
      BY <1>5, <1>9, <1>a, <3>1
  <2> QED
    BY <2>1, <2>2
<1>10. r \in Runs => got[p] <= Len(log[r])
  BY DEF StreamInv
<1> HIDE DEF next, quiet
<1>11. InStep(p)'
  BY <1>1, <1>2, <1>6, <1>7, <1>8, <1>9 DEF InStep
<1> QED
  BY <1>1, <1>2, <1>3, <1>7, <1>10, <1>11 DEF StreamInv

LEMMA SendRevokedStream ==
    ASSUME RunsTypeOK, ReaderTypes, NEW p \in Pages, StreamInv(p), SendRevoked(p)
    PROVE  StreamInv(p)'
<1>1. log' = log /\ denied' = denied /\ feed' = feed /\ got' = got
  BY ServiceSame DEF SendRevoked
<1>2. conn'[p] = "closing" /\ cursor'[p] = cursor[p] /\ wire'[p] = Append(wire[p], 0)
  BY DEF SendRevoked, Stream, ReaderTypes
<1>3. conn[p] = "open" /\ UserOf[feed[p]] \in denied /\ feed[p] \in Runs /\ InStep(p)
  BY DEF SendRevoked, StreamInv, Fed
<1>4. wire[p] \in Seq(Nat) /\ Len(wire[p]) \in Nat
  BY RowTypes
<1>5. /\ Len(wire'[p]) = Len(wire[p]) + 1
      /\ \A i \in 1..Len(wire'[p]) : wire'[p][i] = IF i <= Len(wire[p]) THEN wire[p][i] ELSE 0
      /\ \A i \in 1..Len(wire[p]) : i \in 1..Len(wire'[p]) /\ wire'[p][i] = wire[p][i]
  BY <1>2, <1>4
<1>6. \A i \in 1..Len(wire'[p]) : wire'[p][i] # 0 => i <= Len(wire[p])
  BY <1>5
<1>7. \A i, j \in 1..Len(wire'[p]) : i < j => i <= Len(wire[p])
  BY <1>4, <1>5
<1>8. \A i \in 1..Len(wire[p]) : wire[p][i] # 0
  BY <1>3 DEF InStep
<1>9. ASSUME NEW i \in 1..Len(wire'[p]), wire'[p][i] # 0
      PROVE  got[p] < wire'[p][i] /\ wire'[p][i] <= cursor[p]
  <2>1. i \in 1..Len(wire[p]) /\ wire'[p][i] = wire[p][i]
    BY <1>4, <1>5, <1>6, <1>9
  <2>2. wire[p][i] # 0
    BY <1>9, <2>1
  <2>3. \A x \in 1..Len(wire[p]) : wire[p][x] # 0 => got[p] < wire[p][x] /\ wire[p][x] <= cursor[p]
    BY <1>3 DEF InStep
  <2> QED
    BY <2>1, <2>2, <2>3
<1>10. ASSUME NEW i \in 1..Len(wire'[p]), NEW j \in 1..Len(wire'[p]), i < j
       PROVE  wire'[p][i] # 0 /\ (wire'[p][j] # 0 => wire'[p][i] < wire'[p][j])
  <2>1. i \in 1..Len(wire[p]) /\ wire'[p][i] = wire[p][i]
    BY <1>4, <1>5, <1>7, <1>10
  <2>2. wire'[p][j] # 0 => j \in 1..Len(wire[p]) /\ wire'[p][j] = wire[p][j]
    BY <1>4, <1>5, <1>6
  <2> QED
    BY <1>3, <1>8, <1>10, <2>1, <2>2 DEF InStep
<1>11. ASSUME NEW k \in (got[p] + 1)..cursor[p], log[feed[p]][k].type \notin InternalTypes
       PROVE  \E i \in 1..Len(wire'[p]) : wire'[p][i] = k
  BY <1>3, <1>5, <1>11 DEF InStep
<1>12. InStep(p)'
  BY <1>1, <1>2, <1>3, <1>9, <1>10, <1>11 DEF InStep
<1> QED
  BY <1>1, <1>2, <1>3, <1>12 DEF StreamInv

-----------------------------------------------------------------------------
\* The first event on the wire; those the reader has missed before it are internal.
LEMMA FirstOnWire ==
    ASSUME RunsTypeOK, ReaderTypes, NEW p \in Pages, InStep(p), feed[p] \in Runs,
           wire[p] # << >>, wire[p][1] # 0
    PROVE  /\ wire[p][1] \in Nat /\ got[p] < wire[p][1] /\ wire[p][1] <= cursor[p]
           /\ wire[p][1] <= Len(log[feed[p]])
           /\ \A k \in (got[p] + 1)..(wire[p][1] - 1) : log[feed[p]][k].type \in InternalTypes
<1>1. /\ wire[p] \in Seq(Nat) /\ Len(wire[p]) \in Nat /\ got[p] \in Nat /\ cursor[p] \in Nat
      /\ Len(log[feed[p]]) \in Nat
  BY RowTypes, LogTyped
<1>2. 1 \in 1..Len(wire[p])
  BY <1>1
<1>3. \A i \in 1..Len(wire[p]) : wire[p][i] \in Nat
  BY <1>1
<1>4. /\ wire[p][1] \in Nat /\ got[p] < wire[p][1] /\ wire[p][1] <= cursor[p]
      /\ cursor[p] <= Len(log[feed[p]])
  BY <1>2, <1>3 DEF InStep
<1>5. ASSUME NEW k \in (got[p] + 1)..(wire[p][1] - 1), log[feed[p]][k].type \notin InternalTypes
      PROVE  FALSE
  <2>1. k \in (got[p] + 1)..cursor[p]
    BY <1>1, <1>4, <1>5
  <2>2. PICK i \in 1..Len(wire[p]) : wire[p][i] = k
    BY <1>5, <2>1 DEF InStep
  <2>3. wire[p][i] < wire[p][1] /\ wire[p][i] # 0
    BY <1>1, <1>4, <1>5, <2>2
  <2>4. i # 1
    BY <1>4, <2>3
  <2>5. 1 < i
    BY <1>1, <2>4
  <2>6. wire[p][1] < wire[p][i]
    BY <1>2, <2>3, <2>5 DEF InStep
  <2> QED
    BY <1>3, <1>4, <2>2, <2>3, <2>6
<1>6. \A k \in (got[p] + 1)..(wire[p][1] - 1) : log[feed[p]][k].type \in InternalTypes
  BY <1>5
<1>7. wire[p][1] <= Len(log[feed[p]])
  BY <1>1, <1>4
<1> QED
  BY <1>4, <1>6, <1>7

\* What Deliver takes from the wire.
LEMMA Delivered ==
    ASSUME ReaderTypes, NEW p \in Pages, StreamInv(p), Deliver(p)
    PROVE  /\ wire[p] # << >> /\ wire[p][1] \in Nat /\ feed[p] \in Runs /\ InStep(p) /\ conn[p] # "off"
           /\ run' = run /\ log' = log /\ denied' = denied /\ snap' = snap /\ stop' = stop
           /\ feed'[p] = feed[p] /\ got'[p] = Later(wire[p][1], got[p])
           /\ page'[p] = IF wire[p][1] = 0 THEN Revoked(p, feed[p])
                         ELSE Reduce(p, feed[p], wire[p][1], log[feed[p]][wire[p][1]])
           /\ conn'[p] = IF EndsStream(feed[p], wire[p][1]) THEN "over" ELSE conn[p]
           /\ cursor'[p] = cursor[p] /\ wire'[p] = Tail(wire[p])
<1>1. wire[p] # << >> /\ wire[p] \in Seq(Nat) /\ Len(wire[p]) \in Nat
  BY RowTypes DEF Deliver
<1>2. Head(wire[p]) = wire[p][1] /\ wire[p][1] \in Nat
  BY <1>1
<1>3. feed[p] \in Runs /\ InStep(p) /\ conn[p] # "off"
  BY <1>1 DEF StreamInv, Fed
<1>4. run' = run /\ log' = log /\ denied' = denied /\ snap' = snap /\ stop' = stop /\ feed' = feed
  BY ServiceSame DEF Deliver
<1>5. /\ got'[p] = Later(wire[p][1], got[p])
      /\ page'[p] = IF wire[p][1] = 0 THEN Revoked(p, feed[p])
                    ELSE Reduce(p, feed[p], wire[p][1], log[feed[p]][wire[p][1]])
      /\ conn'[p] = IF EndsStream(feed[p], wire[p][1]) THEN "over" ELSE conn[p]
      /\ cursor'[p] = cursor[p] /\ wire'[p] = Tail(wire[p])
  BY <1>2 DEF Deliver, Stream, Shows, ReaderTypes, Later
<1> QED
  BY <1>1, <1>2, <1>3, <1>4, <1>5

LEMMA DeliverStream ==
    ASSUME RunsTypeOK, ReaderTypes, NEW p \in Pages, StreamInv(p), Deliver(p)
    PROVE  StreamInv(p)'
<1> DEFINE seq == wire[p][1]
           r == feed[p]
<1>1. /\ wire[p] # << >> /\ seq \in Nat /\ r \in Runs /\ InStep(p) /\ conn[p] # "off"
      /\ log' = log /\ denied' = denied /\ feed'[p] = r /\ got'[p] = Later(seq, got[p])
      /\ conn'[p] = IF EndsStream(r, seq) THEN "over" ELSE conn[p]
      /\ cursor'[p] = cursor[p] /\ wire'[p] = Tail(wire[p])
  BY Delivered
<1>2. wire[p] \in Seq(Nat) /\ Len(wire[p]) \in Nat /\ got[p] \in Nat /\ cursor[p] \in Nat /\ Len(log[r]) \in Nat
  BY <1>1, RowTypes, LogTyped
<1>3. /\ Len(wire'[p]) = Len(wire[p]) - 1
      /\ \A i \in 1..Len(wire'[p]) : i + 1 \in 1..Len(wire[p]) /\ wire'[p][i] = wire[p][i + 1]
      /\ \A i \in 1..Len(wire[p]) : i # 1 => i - 1 \in 1..Len(wire'[p]) /\ wire'[p][i - 1] = wire[p][i]
  <2>1. wire[p] # << >> /\ wire'[p] = Tail(wire[p])
    BY <1>1
  <2> HIDE DEF seq, r
  <2> QED
    BY <1>2, <2>1
<1>4. /\ got[p] <= cursor[p] /\ cursor[p] <= Len(log[r])
      /\ \A i \in 1..Len(wire[p]) : wire[p][i] # 0 => got[p] < wire[p][i] /\ wire[p][i] <= cursor[p]
      /\ \A i, j \in 1..Len(wire[p]) : i < j => wire[p][i] # 0 /\ (wire[p][j] # 0 => wire[p][i] < wire[p][j])
      /\ \A k \in (got[p] + 1)..cursor[p] :
            log[r][k].type \notin InternalTypes => \E i \in 1..Len(wire[p]) : wire[p][i] = k
      /\ conn[p] = "open" => \A i \in 1..Len(wire[p]) : wire[p][i] # 0
  BY <1>1 DEF InStep
<1>5. got'[p] <= Len(log[r])
  <2>1. seq # 0 => seq <= Len(log[r])
    BY <1>1, FirstOnWire
  <2>2. r \in Runs => got[p] <= Len(log[r])
    BY DEF StreamInv
  <2> QED
    BY <1>1, <1>2, <2>1, <2>2 DEF Later
<1>6. \A i \in 1..Len(wire'[p]) : wire'[p][i] = 0 => UserOf[r] \in denied
  BY <1>3 DEF StreamInv
<1>7. CASE seq = 0
  <2>1. Len(wire[p]) = 1
    <3>1. ASSUME Len(wire[p]) # 1 PROVE FALSE
      <4>1. wire[p] # << >> /\ wire[p] \in Seq(Nat) /\ Len(wire[p]) \in Nat
        BY <1>1, <1>2
      <4>2. 1 \in 1..Len(wire[p])
        BY <4>1
      <4>3. 2 \in 1..Len(wire[p]) /\ 1 < 2
        <5>1. \A n \in Nat : n # 1 /\ 1 \in 1..n => 2 \in 1..n /\ 1 < 2
          OBVIOUS
        <5> QED
          BY <3>1, <4>1, <4>2, <5>1
      <4> QED
        BY <1>4, <1>7, <4>2, <4>3
    <3> QED
      BY <3>1
  <2>2. wire'[p] = << >> /\ conn'[p] = "over"
    BY <1>1, <1>2, <1>3, <1>7, <2>1 DEF EndsStream
  <2> HIDE DEF seq, r
  <2> QED
    BY <1>1, <1>5, <2>2, StreamIdle
<1>8. CASE seq # 0
  <2>1. got[p] < seq /\ seq <= cursor[p] /\ got'[p] = seq
    BY <1>1, <1>2, <1>8, FirstOnWire DEF Later
  <2>f. 1 \in 1..Len(wire[p])
    BY <1>1, <1>2
  <2>2. ASSUME NEW i \in 1..Len(wire'[p]), wire'[p][i] # 0
        PROVE  seq < wire'[p][i] /\ wire'[p][i] <= cursor[p]
    <3>1. i + 1 \in 1..Len(wire[p]) /\ wire'[p][i] = wire[p][i + 1] /\ 1 < i + 1
      BY <1>3
    <3> QED
      BY <1>4, <2>2, <2>f, <3>1
  <2>3. ASSUME NEW i \in 1..Len(wire'[p]), NEW j \in 1..Len(wire'[p]), i < j
        PROVE  wire'[p][i] # 0 /\ (wire'[p][j] # 0 => wire'[p][i] < wire'[p][j])
    <3>1. /\ i + 1 \in 1..Len(wire[p]) /\ wire'[p][i] = wire[p][i + 1]
          /\ j + 1 \in 1..Len(wire[p]) /\ wire'[p][j] = wire[p][j + 1]
      BY <1>3
    <3>2. i + 1 < j + 1
      BY <2>3
    <3> QED
      BY <1>4, <3>1, <3>2
  <2>4. ASSUME NEW k \in (seq + 1)..cursor[p], log[r][k].type \notin InternalTypes
        PROVE  \E i \in 1..Len(wire'[p]) : wire'[p][i] = k
    <3>1. k \in (got[p] + 1)..cursor[p] /\ k # seq
      BY <1>1, <1>2, <2>1, <2>4
    <3>2. PICK i \in 1..Len(wire[p]) : wire[p][i] = k
      BY <1>4, <2>4, <3>1
    <3>3. i # 1
      BY <3>1, <3>2
    <3> QED
      BY <1>3, <3>2, <3>3
  <2>5. conn'[p] = "open" => \A i \in 1..Len(wire'[p]) : wire'[p][i] # 0
    BY <1>1, <1>3, <1>4
  <2> HIDE DEF seq, r
  <2>6. InStep(p)'
    BY <1>1, <1>4, <2>1, <2>2, <2>3, <2>4, <2>5 DEF InStep
  <2> QED
    BY <1>1, <1>5, <1>6, <2>6 DEF StreamInv
<1> QED
  BY <1>7, <1>8

-----------------------------------------------------------------------------
LEMMA DeltasNumbered == ASSUME RunsTypeOK, NEW r \in Runs PROVE Deltas(r) \in Nat
BY PiecesFinite

LEMMA LogLength ==
    ASSUME RunsTypeOK, NEW r \in Runs
    PROVE  Len(log[r]) \in Nat /\ Deltas(r) = DeltasUpTo(r, Len(log[r]))
BY LogTyped DEF Deltas

\* What a page has been told when it starts to wait for another answer.
LEMMA AnswersMove ==
    ASSUME Grows, NEW p \in Pages, AnswersInv(p),
           \/ snap'[p] = snap[p]
           \/ snap'[p].run \notin Runs
           \/ snap'[p].state \in Active \cup Terminal /\ run'[snap'[p].run] = snap'[p].state,
           \/ stop'[p] = stop[p]
           \/ stop'[p].said # "cancelled"
           \/ stop'[p].run \in Runs /\ run'[stop'[p].run] = "cancelled"
    PROVE  AnswersInv(p)'
BY DEF AnswersInv, Grows, Terminal

\* A page that has been reset.
LEMMA RowReset ==
    ASSUME NEW p \in Pages,
           \/ page'[p] = NoPage
           \/ page'[p] = [NoPage EXCEPT !.phase = "submitting"] /\ Ready(p)'
    PROVE  RowInv(p)'
<1>1. /\ page'[p].run = NoRun /\ page'[p].seen = 0 /\ page'[p].shown = 0
      /\ page'[p].phase \in {"idle", "submitting"}
      /\ ~ Ready(p)' => page'[p].phase # "submitting"
  BY DEF NoPage
<1>2. True(page[p])'
  BY <1>1, PageBounds DEF True, Settled
<1>3. Attuned(p)'
  BY <1>1 DEF Attuned
<1> QED
  BY <1>1, <1>2, <1>3 DEF RowInv

\* CONNECTED and DISCONNECTED.
LEMMA RowStirred ==
    ASSUME RunsTypeOK, ReaderTypes, NEW p \in Pages, RowInv(p), UNCHANGED <<db, service, snap, feed, got>>,
           page'[p] = Stirred(p)
    PROVE  RowInv(p)'
<1>1. page[p] \in Page /\ snap'[p] = snap[p] /\ feed'[p] = feed[p] /\ got'[p] = got[p] /\ Grows
  BY RowTypes, ServiceAway
<1>2. CASE page[p].phase # "submitting"
  <2>1. page'[p] = page[p]
    BY <1>1, <1>2 DEF Stirred, Page
  <2> QED
    BY <1>1, <2>1, RowKept, AttunedKept DEF RowInv, Ready
<1>3. CASE page[p].phase = "submitting"
  <2>1. /\ page'[p].phase = "busy" /\ page'[p].run = page[p].run /\ page'[p].stray = page[p].stray
        /\ page'[p].seen = page[p].seen /\ page'[p].shown = page[p].shown
    BY <1>1, <1>3 DEF Stirred, Page
  <2>2. page[p].run = NoRun /\ Ready(p)'
    BY <1>1, <1>3 DEF RowInv, Ready
  <2>3. ~ page[p].stray => True(page[p])' /\ Attuned(p)'
    BY <1>3, <2>1, <2>2, PageBounds DEF RowInv, True, Attuned, Settled
  <2> QED
    BY <2>1, <2>2, <2>3 DEF RowInv
<1> QED
  BY <1>2, <1>3

\* An event, or the refusal to send more, that changes the page.
LEMMA RowReduced ==
    ASSUME ReaderTypes, NEW p \in Pages, RowInv(p), NEW r \in Runs,
           page[p].phase \notin Settled, snap'[p] = snap[p],
           page'[p].run = page[p].run, page'[p].phase # "submitting",
           page'[p].phase = "idle" => page[p].phase = "idle",
           ~ page'[p].stray => ~ page[p].stray /\ page[p].run = r,
           ~ page[p].stray /\ page[p].run = r /\ page[p].phase = "busy"
             => PrefixShown(page[p])' /\ EndShown(page[p])' /\ Attuned(p)'
    PROVE  RowInv(p)'
<1>1. page[p] \in Page
  BY RowTypes
<1>3. ASSUME ~ page'[p].stray PROVE True(page[p])' /\ Attuned(p)'
  <2>1. ~ page[p].stray /\ page[p].run = r
    BY <1>3
  <2>2. page[p].phase = "busy"
    BY <1>1, <2>1, PageBounds DEF RowInv, Page, Phases
  <2> QED
    BY <2>1, <2>2, PageBounds DEF True
<1>4. ~ Ready(p)' => page'[p].run = NoRun
  BY DEF RowInv, Ready
<1> QED
  BY <1>3, <1>4 DEF RowInv

-----------------------------------------------------------------------------
\* What an event of a run's log tells of the run.
LEMMA EventsTell ==
    ASSUME ServiceInv, NEW r \in Runs, NEW seq \in 1..Len(log[r]), NEW e, e = log[r][seq]
    PROVE  /\ e.type \in TerminalTypes => seq = Len(log[r])
           /\ e.type = "completed" => run[r] = "completed"
           /\ e.type = "cancelled" \/ (e.type = "state" /\ e.state = "cancelled") => run[r] = "cancelled"
           /\ e.type = "error" \/ (e.type = "state" /\ e.state = "failed") => run[r] = "failed"
<1>1. e.type \in TerminalTypes => seq = Len(log[r]) /\ e = EndEvent(run[r]) /\ run[r] \in Terminal
  BY DEF ServiceInv, LogTellsTheEnd
<1>2. e.type = "state" /\ e.state \in Terminal => run[r] = e.state
  BY DEF ServiceInv, StatesTold
<1>3. e.type = "completed" => run[r] = "completed"
  BY <1>1 DEF TerminalTypes, EndEvent, Event, Terminal
<1>4. e.type = "cancelled" => run[r] = "cancelled"
  BY <1>1 DEF TerminalTypes, EndEvent, Event, Terminal
<1>5. e.type = "error" => run[r] = "failed"
  BY <1>1 DEF TerminalTypes, EndEvent, Event, Terminal
<1> QED
  BY <1>1, <1>2, <1>3, <1>4, <1>5 DEF Terminal

LEMMA PhasesTell ==
    ASSUME NEW phase, NEW e
    PROVE  /\ PhaseAfter(phase, e) = "done" => e.type = "completed"
           /\ PhaseAfter(phase, e) = "cancelled"
                => e.type = "cancelled" \/ (e.type = "state" /\ e.state = "cancelled")
           /\ PhaseAfter(phase, e) = "error"
                => e.type = "error" \/ (e.type = "state" /\ e.state = "failed")
           /\ PhaseAfter(phase, e) \in {"idle", "busy"} \cup Settled
           /\ PhaseAfter(phase, e) = "idle" => phase = "idle"
BY DEF PhaseAfter, Settled

LEMMA DeliverRow ==
    ASSUME ServiceInv, ReaderTypes, NEW p \in Pages, PageInv(p), Deliver(p)
    PROVE  RowInv(p)'
<1> DEFINE seq == wire[p][1]
           r == feed[p]
           e == log[r][seq]
<1>t. RunsTypeOK /\ StreamInv(p) /\ RowInv(p)
  BY DEF ServiceInv, PageInv
<1>1. /\ wire[p] # << >> /\ seq \in Nat /\ r \in Runs /\ InStep(p)
      /\ run' = run /\ log' = log /\ denied' = denied /\ snap' = snap
      /\ feed'[p] = r /\ got'[p] = Later(seq, got[p])
      /\ page'[p] = IF seq = 0 THEN Revoked(p, r) ELSE Reduce(p, r, seq, e)
  BY <1>t, Delivered
<1>n. /\ page[p].seen \in Nat /\ page[p].shown \in Nat /\ page[p] \in Page /\ Len(log[r]) \in Nat
      /\ got[p] \in Nat
  BY <1>t, <1>1, RowTypes, LogTyped
<1>g. Grows
  BY <1>t, ServiceAway DEF Deliver
<1>2. CASE seq = 0
  <2>1. page'[p] = [page[p] EXCEPT !.phase = "error", !.shown = 0, !.stray = @ \/ page[p].run # r]
    BY <1>1, <1>2 DEF Revoked
  <2>2. /\ page'[p].run = page[p].run /\ page'[p].phase = "error"
        /\ page'[p].stray = (page[p].stray \/ page[p].run # r)
    BY <1>n, <2>1 DEF Page
  <2>3. UserOf[r] \in denied
    <3>1. 1 \in 1..Len(wire[p])
      BY <1>1, RowTypes
    <3> QED
      BY <1>2, <1>t, <3>1 DEF StreamInv
  <2>4. ~ page'[p].stray => True(page[p])' /\ Attuned(p)'
    BY <1>1, <2>2, <2>3, PageBounds DEF True, Attuned, PrefixShown, EndShown
  <2>5. ~ Ready(p)' => page'[p].run = NoRun
    BY <1>t, <1>1, <2>2 DEF RowInv, Ready
  <2> QED
    BY <2>2, <2>4, <2>5 DEF RowInv
<1>3. CASE seq # 0 /\ (page[p].phase \in Settled \/ seq <= page[p].seen)
  <2>1. page'[p] = page[p]
    BY <1>1, <1>3 DEF Reduce
  <2>2. ~ page[p].stray => Attuned(p)'
    BY <1>t, <1>1, <1>n, <1>3, <2>1 DEF RowInv, Attuned, Later, Settled
  <2>3. ~ Ready(p)' => ~ Ready(p)
    BY <1>1 DEF Ready
  <2> QED
    BY <1>t, <1>g, <2>1, <2>2, <2>3, RowKept
<1>4. CASE seq # 0 /\ page[p].phase \notin Settled /\ seq > page[p].seen
  <2>1. page'[p] = [page[p] EXCEPT !.seen = seq, !.phase = PhaseAfter(page[p].phase, e),
                                   !.shown = ShownAfter(page[p].shown, r, e),
                                   !.stray = @ \/ page[p].run # r]
    BY <1>1, <1>n, <1>4 DEF Reduce, Page
  <2>2. /\ page'[p].run = page[p].run /\ page'[p].seen = seq
        /\ page'[p].phase = PhaseAfter(page[p].phase, e) /\ page'[p].shown = ShownAfter(page[p].shown, r, e)
    BY <1>n, <2>1 DEF Page
  <2>3. /\ got[p] < seq /\ seq <= Len(log[r])
        /\ \A k \in (got[p] + 1)..(seq - 1) : log[r][k].type \in InternalTypes
    BY <1>t, <1>1, <1>4, FirstOnWire
  <2>4. seq \in 1..Len(log[r])
    BY <1>1, <1>n, <1>4, <2>3
  <2>5. ASSUME ~ page[p].stray, page[p].run = r, page[p].phase = "busy"
        PROVE  PrefixShown(page[p])' /\ EndShown(page[p])' /\ Attuned(p)'
    <3>1. got[p] <= page[p].seen /\ page[p].seen <= Len(log[r]) /\ page[p].shown = DeltasUpTo(r, page[p].seen)
      BY <1>t, <1>1, <2>5 DEF RowInv, True, PrefixShown, Attuned
    <3>2. \A k \in (page[p].seen + 1)..(seq - 1) : log[r][k].type # "answer_delta"
      BY <1>n, <2>3, <3>1 DEF InternalTypes
    <3>3. page[p].seen \in Nat /\ seq \in Nat /\ page[p].seen < seq
      BY <1>1, <1>n, <1>4
    <3>e. e = log[r][seq]
      OBVIOUS
    <3>c. e.type = "completed" => Deltas(r) = DeltasUpTo(r, seq)
      <4>1. e.type = "completed" => seq = Len(log[r])
        BY <1>1, <2>4, EventsTell DEF TerminalTypes
      <4> QED
        BY <4>1 DEF Deltas
    <3>s. /\ EndShown(page[p])'
      <4>1. /\ e.type = "completed" => run[r] = "completed"
            /\ e.type = "cancelled" \/ (e.type = "state" /\ e.state = "cancelled") => run[r] = "cancelled"
            /\ e.type = "error" \/ (e.type = "state" /\ e.state = "failed") => run[r] = "failed"
        BY <1>1, <2>4, EventsTell
      <4> HIDE DEF e
      <4> QED
        BY <1>1, <2>2, <2>5, <4>1, PhasesTell DEF EndShown
    <3> HIDE DEF seq, r, e
    <3>4. Cardinality(PiecesIn(log[r], seq)) =
            IF log[r][seq].type = "answer_delta" THEN Cardinality(PiecesIn(log[r], page[p].seen)) + 1
            ELSE Cardinality(PiecesIn(log[r], page[p].seen))
      BY <3>2, <3>3, NextPiece
    <3>5. DeltasUpTo(r, seq) = ShownAfter(page[p].shown, r, e)
      <4>1. DeltasUpTo(r, seq) = IF e.type = "answer_delta" THEN page[p].shown + 1 ELSE page[p].shown
        BY <3>1, <3>4, <3>e, DeltasArePieces
      <4> QED
        BY <3>c, <4>1 DEF ShownAfter
    <3>6. DeltasUpTo(page[p].run, page[p].seen)' = DeltasUpTo(r, seq)
      <4>1. DeltasUpTo(page[p].run, page[p].seen)'
              = Cardinality({i \in 1..page'[p].seen : log'[page'[p].run][i].type = "answer_delta"})
        BY DEF DeltasUpTo
      <4> QED
        BY <1>1, <2>2, <2>5, <4>1 DEF DeltasUpTo
    <3>7. PrefixShown(page[p])'
      BY <1>1, <2>2, <2>3, <2>5, <3>5, <3>6 DEF PrefixShown
    <3>8. Attuned(p)'
      BY <1>1, <1>n, <2>2, <2>3 DEF Attuned, Later
    <3> QED
      BY <3>7, <3>8, <3>s
  <2>6. /\ PhaseAfter(page[p].phase, e) # "submitting"
        /\ PhaseAfter(page[p].phase, e) = "idle" => page[p].phase = "idle"
    BY PhasesTell DEF Settled
  <2>7. page'[p].stray = (page[p].stray \/ page[p].run # r)
    BY <1>n, <2>1 DEF Page
  <2>8. r \in Runs /\ snap'[p] = snap[p]
    BY <1>1
  <2> HIDE DEF seq, r, e
  <2>9. /\ page'[p].run = page[p].run /\ page'[p].phase # "submitting"
        /\ page'[p].phase = "idle" => page[p].phase = "idle"
        /\ ~ page'[p].stray => ~ page[p].stray /\ page[p].run = r
    BY <2>2, <2>6, <2>7
  <2> QED
    BY <1>t, <1>4, <2>5, <2>8, <2>9, RowReduced
<1> QED
  BY <1>1, <1>n, <1>2, <1>3, <1>4

-----------------------------------------------------------------------------
\* A page that keeps its row while something else about it moves.
LEMMA RowUnmoved ==
    ASSUME RunsTypeOK, ReaderTypes, Grows, NEW p \in Pages, RowInv(p),
           page'[p] = page[p], snap'[p] = snap[p], feed'[p] = feed[p], got'[p] = got[p]
    PROVE  RowInv(p)'
<1>1. ~ Ready(p)' => ~ Ready(p)
  BY DEF Ready
<1>2. ~ page[p].stray => Attuned(p)'
  BY AttunedKept DEF RowInv
<1> QED
  BY <1>1, <1>2, RowKept

LEMMA SubmitKeeps ==
    ASSUME RunsTypeOK, ReaderTypes, Grows, NEW p \in Pages, PageInv(p), NEW r \in Runs, Submit(p, r)
    PROVE  PageInv(p)'
<1>1. /\ page'[p] = [NoPage EXCEPT !.phase = "submitting"] /\ Ready(p)'
      /\ SameStream(p) /\ SameAnswers(p)
  BY DEF Submit, Shows, ReaderTypes, Ready, SameStream, SameAnswers, stream
<1> QED
  BY <1>1, RowReset, StreamKept, AnswersKept DEF PageInv

LEMMA PostedKeeps ==
    ASSUME RunsTypeOK, ReaderTypes, Grows, NEW p \in Pages, PageInv(p), Posted(p)
    PROVE  PageInv(p)'
<1>1. PICK q \in Runs : /\ FollowFrom(p, q, 0)
                        /\ IF page[p].phase = "submitting"
                             THEN Shows(p, [page[p] EXCEPT !.phase = "busy", !.run = q])
                             ELSE UNCHANGED page
  BY DEF Posted
<1>2. SameAnswers(p) /\ run' = run /\ log' = log /\ denied' = denied
  BY ServiceSame DEF Posted, SameAnswers
<1>3. StreamInv(p)' /\ feed'[p] = q /\ got'[p] = 0
  <2>1. q \in Runs => 0 <= Len(log'[q])
    BY <1>2, LogTyped
  <2> QED
    BY <1>1, <2>1, StreamStarts
<1>4. page[p] \in Page /\ page[p].seen \in Nat
  BY RowTypes
<1>5. CASE page[p].phase = "submitting"
  <2>1. page'[p] = [page[p] EXCEPT !.phase = "busy", !.run = q]
    BY <1>1, <1>5 DEF Shows, ReaderTypes
  <2>2. /\ page'[p].phase = "busy" /\ page'[p].run = q /\ page'[p].stray = page[p].stray
        /\ page'[p].seen = page[p].seen /\ page'[p].shown = page[p].shown
    BY <1>4, <2>1 DEF Page
  <2>3. Ready(p)' /\ page[p].run = NoRun
    BY <1>2, <1>5 DEF PageInv, RowInv, Ready, SameAnswers
  <2>4. ASSUME ~ page[p].stray PROVE True(page[p])' /\ Attuned(p)'
    <3>1. page[p].seen = 0 /\ page[p].shown = 0
      BY <2>3, <2>4 DEF PageInv, RowInv, True
    <3>2. DeltasUpTo(page[p].run, page[p].seen)' = 0
      <4>1. {i \in 1..page'[p].seen : log'[page'[p].run][i].type = "answer_delta"} = {}
        BY <2>2, <3>1
      <4> QED
        BY <4>1, FS_EmptySet DEF DeltasUpTo
    <3>3. PrefixShown(page[p])' /\ EndShown(page[p])'
      BY <1>2, <2>2, <3>1, <3>2, LogTyped DEF PrefixShown, EndShown
    <3>4. page'[p].run # NoRun
      BY <2>2, PageBounds
    <3> QED
      BY <1>3, <1>4, <2>2, <3>3, <3>4 DEF True, Attuned
  <2>5. RowInv(p)'
    BY <2>2, <2>3, <2>4 DEF RowInv
  <2> QED
    BY <1>2, <1>3, <2>5, AnswersKept DEF PageInv
<1>6. CASE page[p].phase # "submitting"
  <2>1. page'[p] = page[p] /\ (~ Ready(p)' => ~ Ready(p))
    BY <1>1, <1>2, <1>6 DEF Ready, SameAnswers
  <2>2. Attuned(p)'
    BY <1>3, <1>4, <2>1 DEF Attuned
  <2>3. RowInv(p)'
    BY <2>1, <2>2, RowKept DEF PageInv
  <2> QED
    BY <1>2, <1>3, <2>3, AnswersKept DEF PageInv
<1> QED
  BY <1>5, <1>6

LEMMA PostFailedKeeps ==
    ASSUME RunsTypeOK, ReaderTypes, Grows, NEW p \in Pages, PageInv(p), PostFailed(p)
    PROVE  PageInv(p)'
<1>1. page'[p] = NoPage /\ SameStream(p) /\ SameAnswers(p)
  BY DEF PostFailed, Shows, ReaderTypes, SameStream, SameAnswers, stream
<1> QED
  BY <1>1, RowReset, StreamKept, AnswersKept DEF PageInv

LEMMA OpenKeeps ==
    ASSUME RunsTypeOK, ReaderTypes, Grows, NEW p \in Pages, PageInv(p), Open(p)
    PROVE  PageInv(p)'
<1>1. /\ page'[p] = Stirred(p) /\ SameAnswers(p) /\ UNCHANGED <<db, service, snap, feed, got>>
  BY DEF Open, Shows, ReaderTypes, SameAnswers
<1> QED
  BY <1>1, RowStirred, OpenStream, AnswersKept DEF PageInv

LEMMA DropKeeps ==
    ASSUME RunsTypeOK, ReaderTypes, Grows, NEW p \in Pages, PageInv(p), Drop(p)
    PROVE  PageInv(p)'
<1>1. /\ page'[p] = Stirred(p) /\ SameAnswers(p) /\ UNCHANGED <<db, service, snap, feed, got>>
      /\ conn'[p] = "off" /\ wire'[p] = << >> /\ log' = log
  BY ServiceSame DEF Drop, Stream, Shows, ReaderTypes, SameAnswers
<1>2. StreamInv(p)'
  BY <1>1, StreamIdle DEF PageInv, StreamInv
<1> QED
  BY <1>1, <1>2, RowStirred, AnswersKept DEF PageInv

LEMMA GiveUpKeeps ==
    ASSUME RunsTypeOK, ReaderTypes, Grows, NEW p \in Pages, PageInv(p), GiveUp(p)
    PROVE  PageInv(p)'
<1>1. /\ page'[p] = page[p] /\ SameAnswers(p) /\ UNCHANGED <<snap, feed, got>>
      /\ conn'[p] = "over" /\ wire'[p] = << >> /\ log' = log
  BY ServiceSame DEF GiveUp, Stream, ReaderTypes, SameAnswers
<1>2. StreamInv(p)'
  BY <1>1, StreamIdle DEF PageInv, StreamInv
<1> QED
  BY <1>1, <1>2, RowUnmoved, AnswersKept DEF PageInv

LEMMA SendKeeps ==
    ASSUME RunsTypeOK, ReaderTypes, Grows, NEW p \in Pages, PageInv(p), Send(p) \/ SendRevoked(p)
    PROVE  PageInv(p)'
<1>1. page'[p] = page[p] /\ SameAnswers(p) /\ UNCHANGED <<snap, feed, got>>
  BY DEF Send, SendRevoked, SameAnswers
<1> QED
  BY <1>1, SendStream, SendRevokedStream, RowUnmoved, AnswersKept DEF PageInv

LEMMA DeliverKeeps ==
    ASSUME ServiceInv, ReaderTypes, Grows, NEW p \in Pages, PageInv(p), Deliver(p)
    PROVE  PageInv(p)'
<1>1. SameAnswers(p) /\ RunsTypeOK
  BY DEF Deliver, SameAnswers, ServiceInv
<1> QED
  BY <1>1, DeliverRow, DeliverStream, AnswersKept DEF PageInv

-----------------------------------------------------------------------------
LEMMA LoadKeeps ==
    ASSUME RunsTypeOK, ReaderTypes, Grows, NEW p \in Pages, PageInv(p), Reload(p) \/ Switch(p)
    PROVE  PageInv(p)'
<1>1. Load(p) /\ (stop'[p] = stop[p] \/ stop'[p].said # "cancelled")
  BY DEF Reload, Switch, NoStop, ReaderTypes
<1>2. FollowFrom(p, NoRun, 0) /\ page'[p] = NoPage /\ run' = run
  BY <1>1, ServiceSame DEF Load, Shows, ReaderTypes
<1>3. PICK r \in Runs : run[r] # "absent" /\ snap' = [snap EXCEPT ![p] = [run |-> r, state |-> run[r]]]
  BY <1>1 DEF Load
<1>4. snap'[p].run = r /\ snap'[p].state = run[r] /\ run[r] \in Active \cup Terminal
  BY <1>3 DEF ReaderTypes, RunsTypeOK, RunState
<1>5. AnswersInv(p)'
  BY <1>1, <1>2, <1>4, AnswersMove DEF PageInv
<1> QED
  BY <1>2, <1>5, RowReset, StreamStarts, PageBounds DEF PageInv

LEMMA LeaveKeeps ==
    ASSUME RunsTypeOK, ReaderTypes, Grows, NEW p \in Pages, PageInv(p), Leave(p)
    PROVE  PageInv(p)'
<1>1. FollowFrom(p, NoRun, 0) /\ page'[p] = NoPage /\ SameAnswers(p)
  BY DEF Leave, Shows, ReaderTypes, SameAnswers
<1> QED
  BY <1>1, RowReset, StreamStarts, AnswersKept, PageBounds DEF PageInv

LEMMA RestoreKeeps ==
    ASSUME RunsTypeOK, ReaderTypes, Grows, NEW p \in Pages, PageInv(p), Restore(p)
    PROVE  PageInv(p)'
<1> DEFINE r == snap[p].run
           state == snap[p].state
<1>1. /\ r \in Runs /\ snap'[p] = NoSnap /\ stop'[p] = stop[p]
      /\ run' = run /\ log' = log /\ denied' = denied
      /\ IF state \in Active THEN FollowFrom(p, r, Len(log[r])) ELSE UNCHANGED stream
  BY RowTypes, ServiceSame DEF Restore, Resume, ReaderTypes, RunId
<1>2. IF page[p].phase \in Settled THEN page' = page
      ELSE page'[p] = [page[p] EXCEPT !.run = r, !.shown = Deltas(r),
                                      !.seen = Later(@, Len(log[r])), !.phase = PhaseOf(state)]
  BY DEF Restore, Shows, ReaderTypes
<1>3. /\ page[p].run = NoRun /\ state \in Active \cup Terminal
      /\ state \in Terminal => run[r] = state
  BY <1>1, PageBounds DEF PageInv, RowInv, AnswersInv, Ready, NoSnap
<1>4. page[p] \in Page /\ page[p].seen \in Nat /\ Len(log[r]) \in Nat
  BY <1>1, RowTypes, LogTyped
<1>5. StreamInv(p)' /\ (state \in Active => feed'[p] = r /\ got'[p] = Len(log[r]))
  <2>1. CASE state \in Active
    <3>1. FollowFrom(p, r, Len(log[r])) /\ (r \in Runs => Len(log[r]) <= Len(log'[r]))
      BY <1>1, <1>4, <2>1
    <3> HIDE DEF r, state
    <3> QED
      BY <3>1, StreamStarts
  <2>2. CASE state \notin Active
    <3>1. SameStream(p)
      BY <1>1, <2>2 DEF stream, SameStream
    <3> QED
      BY <2>2, <3>1, StreamKept DEF PageInv
  <2> QED
    BY <2>1, <2>2
<1>6. AnswersInv(p)'
  <2>1. snap'[p].run \notin Runs
    BY <1>1, PageBounds DEF NoSnap
  <2> QED
    BY <1>1, <2>1, AnswersMove DEF PageInv
<1>7. Ready(p)'
  BY <1>1 DEF Ready
<1>8. CASE page[p].phase \in Settled
  <2>1. page'[p] = page[p] /\ Attuned(p)'
    BY <1>2, <1>8 DEF Attuned, Settled
  <2>2. RowInv(p)'
    BY <1>7, <2>1, RowKept DEF PageInv
  <2> QED
    BY <1>5, <1>6, <2>2 DEF PageInv
<1>9. CASE page[p].phase \notin Settled
  <2>1. /\ page'[p].run = r /\ page'[p].shown = Deltas(r) /\ page'[p].phase = PhaseOf(state)
        /\ page'[p].seen = Later(page[p].seen, Len(log[r])) /\ page'[p].stray = page[p].stray
    BY <1>2, <1>4, <1>9 DEF Page
  <2>2. /\ state \in Active => PhaseOf(state) = "busy"
        /\ PhaseOf(state) = "busy" => state \in Active
        /\ PhaseOf(state) = "done" => state = "completed"
        /\ PhaseOf(state) = "error" => state = "failed"
        /\ PhaseOf(state) = "cancelled" => state = "cancelled"
        /\ PhaseOf(state) \notin {"idle", "submitting"}
    BY <1>3 DEF PhaseOf, Active, Terminal
  <2>3. ASSUME ~ page[p].stray PROVE True(page[p])' /\ Attuned(p)'
    <3>1. page'[p].seen = Len(log[r])
      BY <1>3, <1>4, <2>1, <2>3 DEF PageInv, RowInv, True, Later
    <3>2. DeltasUpTo(page[p].run, page[p].seen)' = Deltas(r)
      <4>1. DeltasUpTo(page[p].run, page[p].seen)'
              = Cardinality({i \in 1..page'[p].seen : log'[page'[p].run][i].type = "answer_delta"})
        BY DEF DeltasUpTo
      <4> QED
        BY <1>1, <2>1, <3>1, <4>1 DEF Deltas, DeltasUpTo
    <3>3. PrefixShown(page[p])'
      BY <1>1, <1>4, <2>1, <3>1, <3>2 DEF PrefixShown
    <3>4. EndShown(page[p])'
      BY <1>1, <1>3, <2>1, <2>2 DEF EndShown, Terminal
    <3>5. Attuned(p)'
      BY <1>4, <1>5, <2>1, <2>2, <3>1 DEF Attuned
    <3> QED
      BY <1>1, <2>1, <3>3, <3>4, <3>5, PageBounds DEF True
  <2>4. RowInv(p)'
    BY <1>7, <2>1, <2>2, <2>3 DEF RowInv
  <2> QED
    BY <1>5, <1>6, <2>4 DEF PageInv
<1> QED
  BY <1>8, <1>9

-----------------------------------------------------------------------------
LEMMA AskStopKeeps ==
    ASSUME RunsTypeOK, ReaderTypes, Grows, NEW p \in Pages, PageInv(p), AskStop(p)
    PROVE  PageInv(p)'
<1>1. /\ page'[p] = page[p] /\ snap'[p] = snap[p] /\ feed'[p] = feed[p] /\ got'[p] = got[p]
      /\ SameStream(p) /\ stop'[p].said = "asked"
  BY DEF AskStop, SameStream, stream, ReaderTypes
<1> QED
  BY <1>1, StreamKept, RowUnmoved, AnswersMove DEF PageInv

LEMMA CancelShownKeeps ==
    ASSUME RunsTypeOK, ReaderTypes, Grows, NEW p \in Pages, PageInv(p), CancelShown(p)
    PROVE  PageInv(p)'
<1> DEFINE r == stop[p].run
           seq == stop[p].seq
<1>1. /\ snap'[p] = snap[p] /\ feed'[p] = feed[p] /\ got'[p] = got[p] /\ SameStream(p)
      /\ stop'[p].said = "asked" /\ run' = run /\ log' = log /\ denied' = denied
      /\ page'[p] = IF stop[p].said = "cancelled" THEN Reduce(p, r, seq, EndEvent("cancelled")) ELSE page[p]
  BY ServiceSame DEF CancelShown, Shows, SameStream, stream, ReaderTypes, NoStop
<1>2. StreamInv(p)' /\ AnswersInv(p)'
  BY <1>1, StreamKept, AnswersMove DEF PageInv
<1>3. CASE page'[p] = page[p]
  BY <1>1, <1>2, <1>3, RowUnmoved DEF PageInv
<1>4. CASE page'[p] # page[p]
  <2>1. stop[p].said = "cancelled" /\ page[p].phase \notin Settled
    BY <1>1, <1>4 DEF Reduce
  <2>2. r \in Runs /\ run[r] = "cancelled"
    BY <2>1 DEF PageInv, AnswersInv
  <2>3. PhaseAfter(page[p].phase, EndEvent("cancelled")) = "cancelled"
    BY DEF PhaseAfter, EndEvent, Event
  <2>4. page'[p] = [page[p] EXCEPT !.seen = seq, !.phase = PhaseAfter(@, EndEvent("cancelled")),
                                   !.shown = ShownAfter(@, r, EndEvent("cancelled")),
                                   !.stray = @ \/ page[p].run # r]
    BY <1>1, <1>4, <2>1 DEF Reduce
  <2>5. page'[p].phase = "cancelled" /\ page'[p].run = page[p].run
        /\ page'[p].stray = (page[p].stray \/ page[p].run # r)
    BY <2>3, <2>4, RowTypes DEF Page
  <2>6. page[p].run = r => PrefixShown(page[p])' /\ EndShown(page[p])' /\ Attuned(p)'
    BY <1>1, <2>2, <2>5 DEF PrefixShown, EndShown, Attuned
  <2> HIDE DEF r, seq
  <2>7. RowInv(p)'
    BY <1>1, <2>1, <2>2, <2>5, <2>6, RowReduced DEF PageInv
  <2> QED
    BY <1>2, <2>7 DEF PageInv
<1> QED
  BY <1>3, <1>4

\* The answer to a cancel request reaches the page that asked, if one did.
LEMMA CancelAnsweredKeeps ==
    ASSUME RunsTypeOK, ReaderTypes, Grows, NEW p \in Pages, PageInv(p), NEW r \in Runs, CancelAnswered(r)
    PROVE  PageInv(p)'
<1>1. /\ page'[p] = page[p] /\ snap'[p] = snap[p] /\ feed'[p] = feed[p] /\ got'[p] = got[p]
      /\ SameStream(p) /\ run' = run
  BY DEF CancelAnswered, CancelAbort, SameStream, stream, db
<1>2. \/ stop'[p] = stop[p]
      \/ stop'[p].run = r /\ stop'[p].said = run[r]
  <2>1. stop \in [Pages -> Stop] /\ stop[p] \in Stop
    BY DEF ReaderTypes
  <2> QED
    BY <2>1 DEF CancelAnswered, Stops, Stop
<1>3. AnswersInv(p)'
  BY <1>1, <1>2, AnswersMove DEF PageInv
<1> QED
  BY <1>1, <1>3, StreamKept, RowUnmoved DEF PageInv

LEMMA CrashKeeps ==
    ASSUME RunsTypeOK, ReaderTypes, Grows, NEW p \in Pages, PageInv(p), CrashAll
    PROVE  PageInv(p)'
<1>1. /\ page'[p] = (IF post[p] # NoRun THEN NoPage ELSE page[p])
      /\ stop'[p] = NoStop /\ wire'[p] = << >> /\ feed'[p] = feed[p] /\ got'[p] = got[p]
      /\ snap'[p] = IF Ready(p) THEN NoSnap ELSE [run |-> NoRun, state |-> "lost"]
      /\ conn'[p] = IF conn[p] \in {"open", "closing"} THEN "off" ELSE conn[p]
      /\ log' = log
  BY DEF CrashAll, Crash, db
<1>2. conn'[p] \in {"off", "over"}
  BY <1>1, RowTypes
<1>3. StreamInv(p)'
  BY <1>1, <1>2, StreamIdle DEF PageInv, StreamInv
<1>4. AnswersInv(p)'
  <2>1. snap'[p].run \notin Runs /\ stop'[p].said # "cancelled"
    BY <1>1, PageBounds DEF NoSnap, NoStop
  <2> QED
    BY <2>1, AnswersMove DEF PageInv
<1>5. RowInv(p)'
  <2>1. ~ Ready(p)' => ~ Ready(p)
    BY <1>1 DEF Ready
  <2>2. CASE page'[p] = NoPage
    BY <2>2, RowReset
  <2>3. CASE page'[p] = page[p]
    BY <1>1, <2>1, <2>3, RowKept, AttunedKept DEF PageInv, RowInv
  <2> QED
    BY <1>1, <2>2, <2>3
<1> QED
  BY <1>3, <1>4, <1>5 DEF PageInv

-----------------------------------------------------------------------------
\* One page acts: of every variable of the readers only its own entry changes.
Updated(new, old, p, S) == new = old \/ \E x \in S : new = [old EXCEPT ![p] = x]

StreamMoves(p) ==
    /\ Updated(conn', conn, p, {"off", "open", "closing", "over"})
    /\ Updated(cursor', cursor, p, Nat)
    /\ Updated(wire', wire, p, Seq(Nat))
ReaderMoves(p) == Updated(feed', feed, p, RunId) /\ Updated(got', got, p, Nat) /\ StreamMoves(p)
AnswersMoves(p) ==
    /\ Updated(post', post, p, RunId)
    /\ Updated(stop', stop, p, Stop)
    /\ Updated(snap', snap, p, Snapshot)
Moves(p) == Updated(page', page, p, Page) /\ AnswersMoves(p) /\ ReaderMoves(p)

LEMMA MovesTyped ==
    ASSUME ReaderTypes, NEW p \in Pages, Moves(p)
    PROVE  ReaderTypes' /\ \A q \in Pages \ {p} : Same(q)
<1>1. page' \in [Pages -> Page] /\ \A q \in Pages \ {p} : page'[q] = page[q]
  BY DEF ReaderTypes, Moves, Updated
<1>2. /\ post' \in [Pages -> RunId] /\ stop' \in [Pages -> Stop] /\ snap' \in [Pages -> Snapshot]
      /\ \A q \in Pages \ {p} : SameAnswers(q)
  BY DEF ReaderTypes, Moves, AnswersMoves, Updated, SameAnswers
<1>3. /\ feed' \in [Pages -> RunId] /\ got' \in [Pages -> Nat]
      /\ conn' \in [Pages -> {"off", "open", "closing", "over"}]
      /\ cursor' \in [Pages -> Nat] /\ wire' \in [Pages -> Seq(Nat)]
      /\ \A q \in Pages \ {p} : SameStream(q)
  <2>1. feed' \in [Pages -> RunId] /\ \A q \in Pages \ {p} : feed'[q] = feed[q]
    BY DEF ReaderTypes, Moves, ReaderMoves, Updated
  <2>2. got' \in [Pages -> Nat] /\ \A q \in Pages \ {p} : got'[q] = got[q]
    BY DEF ReaderTypes, Moves, ReaderMoves, Updated
  <2>3. /\ conn' \in [Pages -> {"off", "open", "closing", "over"}]
        /\ \A q \in Pages \ {p} : conn'[q] = conn[q]
    BY DEF ReaderTypes, Moves, ReaderMoves, StreamMoves, Updated
  <2>4. cursor' \in [Pages -> Nat] /\ \A q \in Pages \ {p} : cursor'[q] = cursor[q]
    BY DEF ReaderTypes, Moves, ReaderMoves, StreamMoves, Updated
  <2>5. wire' \in [Pages -> Seq(Nat)] /\ \A q \in Pages \ {p} : wire'[q] = wire[q]
    BY DEF ReaderTypes, Moves, ReaderMoves, StreamMoves, Updated
  <2> QED
    BY <2>1, <2>2, <2>3, <2>4, <2>5 DEF SameStream
<1> QED
  BY <1>1, <1>2, <1>3 DEF ReaderTypes, Same

LEMMA StreamTyped ==
    ASSUME NEW p \in Pages, NEW c \in {"off", "open", "closing", "over"},
           NEW sent \in Nat, NEW w \in Seq(Nat), Stream(p, c, sent, w)
    PROVE  StreamMoves(p)
BY DEF StreamMoves, Stream, Updated

LEMMA FollowTyped ==
    ASSUME NEW p \in Pages, NEW r \in RunId, NEW seq \in Nat, FollowFrom(p, r, seq)
    PROVE  ReaderMoves(p)
<1>1. << >> \in Seq(Nat)
  OBVIOUS
<1>2. StreamMoves(p)
  BY <1>1, StreamTyped DEF FollowFrom
<1> QED
  BY <1>2 DEF ReaderMoves, FollowFrom, Updated

LEMMA StreamStays == ASSUME NEW p \in Pages, UNCHANGED stream PROVE ReaderMoves(p)
BY DEF stream, ReaderMoves, StreamMoves, Updated

LEMMA AnswersStay == ASSUME NEW p \in Pages, UNCHANGED <<post, stop, snap>> PROVE AnswersMoves(p)
BY DEF AnswersMoves, Updated

LEMMA RowMoves ==
    ASSUME NEW p \in Pages, NEW row \in Page, Shows(p, row)
    PROVE  Updated(page', page, p, Page)
BY DEF Shows, Updated

LEMMA Rows ==
    ASSUME ReaderTypes, NEW p \in Pages
    PROVE  /\ NoPage \in Page /\ [NoPage EXCEPT !.phase = "submitting"] \in Page
           /\ NoStop \in Stop /\ NoSnap \in Snapshot /\ Stirred(p) \in Page
<1>1. page[p] \in Page /\ 0 \in Nat
  BY RowTypes
<1> QED
  BY <1>1 DEF NoPage, NoStop, NoSnap, Page, Stop, Snapshot, RunId, Phases, RunState, Stirred

LEMMA ReducedRow ==
    ASSUME RunsTypeOK, ReaderTypes, NEW p \in Pages, NEW r \in Runs, NEW seq \in Nat, NEW e
    PROVE  Reduce(p, r, seq, e) \in Page /\ Revoked(p, r) \in Page
<1>1. page[p] \in Page /\ page[p].shown \in Nat /\ page[p].stray \in BOOLEAN
  BY RowTypes
<1>2. ShownAfter(page[p].shown, r, e) \in Nat
  BY <1>1, DeltasNumbered DEF ShownAfter
<1>3. PhaseAfter(page[p].phase, e) \in Phases
  BY PhasesTell DEF Phases
<1>4. (page[p].stray \/ page[p].run # r) \in BOOLEAN
  OBVIOUS
<1>5. ASSUME NEW phase \in Phases, NEW shown \in Nat, NEW stray \in BOOLEAN
      PROVE  [page[p] EXCEPT !.seen = seq, !.phase = phase, !.shown = shown, !.stray = stray] \in Page
  BY <1>1 DEF Page
<1>6. Reduce(p, r, seq, e) \in Page
  BY <1>1, <1>2, <1>3, <1>4, <1>5 DEF Reduce
<1>7. Revoked(p, r) \in Page
  <2>1. PICK stray \in BOOLEAN : stray = (page[p].stray \/ page[p].run # r)
    BY <1>4
  <2>2. Revoked(p, r) = [page[p] EXCEPT !.phase = "error", !.shown = 0, !.stray = stray]
    BY <1>1, <2>1 DEF Revoked, Page
  <2>3. [page[p] EXCEPT !.phase = "error", !.shown = 0, !.stray = stray] \in Page
    BY <1>1 DEF Page, Phases, Settled
  <2> QED
    BY <2>2, <2>3
<1> QED
  BY <1>6, <1>7

LEMMA ReaderStepMoves ==
    ASSUME RunsTypeOK, ReaderTypes, NEW p \in Pages, PageInv(p), ReaderStep(p)
    PROVE  Moves(p)
<1>1. /\ page[p] \in Page /\ page[p].seen \in Nat /\ cursor[p] \in Nat /\ got[p] \in Nat /\ 0 \in Nat
      /\ wire[p] \in Seq(Nat) /\ << >> \in Seq(Nat) /\ conn[p] \in {"off", "open", "closing", "over"}
      /\ NoRun \in RunId /\ Runs \subseteq RunId
  BY RowTypes DEF RunId
<1>2. CASE Posted(p)
  <2>1. Updated(post', post, p, RunId) /\ UNCHANGED <<stop, snap>>
    BY <1>1, <1>2 DEF Posted, Updated
  <2>2. PICK q \in Runs : /\ FollowFrom(p, q, 0)
                          /\ IF page[p].phase = "submitting"
                               THEN Shows(p, [page[p] EXCEPT !.phase = "busy", !.run = q])
                               ELSE UNCHANGED page
    BY <1>2 DEF Posted
  <2>3. [page[p] EXCEPT !.phase = "busy", !.run = q] \in Page
    BY <1>1 DEF Page, Phases
  <2>4. Updated(page', page, p, Page)
    BY <2>2, <2>3, RowMoves DEF Updated
  <2> QED
    BY <1>1, <2>1, <2>2, <2>4, FollowTyped DEF Moves, AnswersMoves, Updated
<1>3. CASE Open(p)
  <2>1. Stream(p, "open", got[p], << >>) /\ Shows(p, Stirred(p)) /\ UNCHANGED <<post, stop, snap, feed, got>>
    BY <1>3 DEF Open
  <2>2. StreamMoves(p)
    BY <1>1, <2>1, StreamTyped
  <2> QED
    BY <2>1, <2>2, RowMoves, Rows, AnswersStay DEF Moves, ReaderMoves, Updated
<1>4. CASE GiveUp(p)
  <2>1. Stream(p, "over", 0, << >>) /\ UNCHANGED <<page, post, stop, snap, feed, got>>
    BY <1>4 DEF GiveUp
  <2>2. StreamMoves(p)
    BY <1>1, <2>1, StreamTyped
  <2> QED
    BY <2>1, <2>2, AnswersStay DEF Moves, ReaderMoves, Updated
<1>5. CASE Send(p) \/ SendRevoked(p)
  <2>1. \E c \in {"open", "closing"}, n \in Nat, w \in Seq(Nat) : Stream(p, c, n, w)
    <3>1. Append(wire[p], 0) \in Seq(Nat) /\ Append(wire[p], cursor[p] + 1) \in Seq(Nat) /\ cursor[p] + 1 \in Nat
      BY <1>1
    <3> QED
      BY <1>1, <1>5, <3>1 DEF Send, SendRevoked
  <2>2. UNCHANGED <<page, post, stop, snap, feed, got>>
    BY <1>5 DEF Send, SendRevoked
  <2>3. StreamMoves(p)
    BY <2>1, StreamTyped
  <2> QED
    BY <2>2, <2>3, AnswersStay DEF Moves, ReaderMoves, Updated
<1>6. CASE Deliver(p)
  <2>1. wire[p] # << >> /\ feed[p] \in Runs
    BY <1>6, Delivered DEF PageInv
  <2>2. Head(wire[p]) \in Nat /\ Tail(wire[p]) \in Seq(Nat)
    BY <1>1, <2>1
  <2>3. \E c \in {"off", "open", "closing", "over"} : Stream(p, c, cursor[p], Tail(wire[p]))
    BY <1>1, <1>6 DEF Deliver
  <2>4. StreamMoves(p)
    BY <1>1, <2>2, <2>3, StreamTyped
  <2>5. \E row \in Page : Shows(p, row)
    BY <1>6, <2>1, <2>2, ReducedRow DEF Deliver
  <2>6. Updated(got', got, p, Nat)
    BY <1>1, <1>6, <2>2 DEF Deliver, Updated
  <2>7. UNCHANGED <<post, stop, snap, feed>>
    BY <1>6 DEF Deliver
  <2> QED
    BY <2>4, <2>5, <2>6, <2>7, RowMoves, AnswersStay DEF Moves, ReaderMoves, Updated
<1>7. CASE Restore(p)
  <2>1. /\ snap[p].run \in Runs /\ snap' = [snap EXCEPT ![p] = NoSnap] /\ UNCHANGED <<post, stop>>
        /\ FollowFrom(p, snap[p].run, Len(log[snap[p].run])) \/ UNCHANGED stream
    BY <1>7, RowTypes DEF Restore, Resume, RunId
  <2>2. Len(log[snap[p].run]) \in Nat /\ Deltas(snap[p].run) \in Nat /\ PhaseOf(snap[p].state) \in Phases
    BY <2>1, LogTyped, DeltasNumbered DEF PhaseOf, Phases, Settled
  <2>3. ReaderMoves(p)
    BY <1>1, <2>1, <2>2, FollowTyped, StreamStays
  <2>4. Later(page[p].seen, Len(log[snap[p].run])) \in Nat
    BY <1>1, <2>2 DEF Later
  <2>5. [page[p] EXCEPT !.run = snap[p].run, !.shown = Deltas(snap[p].run),
                        !.seen = Later(@, Len(log[snap[p].run])), !.phase = PhaseOf(snap[p].state)] \in Page
    BY <1>1, <2>1, <2>2, <2>4 DEF Page
  <2>6. page' = page \/ Shows(p, [page[p] EXCEPT !.run = snap[p].run, !.shown = Deltas(snap[p].run),
                                               !.seen = Later(@, Len(log[snap[p].run])),
                                               !.phase = PhaseOf(snap[p].state)])
    BY <1>7 DEF Restore
  <2>7. Updated(page', page, p, Page)
    BY <2>5, <2>6, RowMoves DEF Updated
  <2> QED
    BY <2>1, <2>3, <2>7, Rows DEF Moves, AnswersMoves, Updated
<1>8. CASE CancelShown(p)
  <2>1. /\ stop' = [stop EXCEPT ![p] = NoStop] /\ UNCHANGED <<post, snap, stream>>
        /\ \/ stop[p].said = "cancelled" /\ Shows(p, Reduce(p, stop[p].run, stop[p].seq, EndEvent("cancelled")))
           \/ UNCHANGED page
    BY <1>8 DEF CancelShown
  <2>2. stop[p].said = "cancelled" => stop[p].run \in Runs
    BY DEF PageInv, AnswersInv
  <2>3. Updated(page', page, p, Page)
    BY <2>1, <2>2, RowTypes, ReducedRow, RowMoves DEF Updated
  <2> QED
    BY <2>1, <2>3, StreamStays, Rows DEF Moves, AnswersMoves, Updated
<1> QED
  BY <1>2, <1>3, <1>4, <1>5, <1>6, <1>7, <1>8 DEF ReaderStep

LEMMA UserStepMoves ==
    ASSUME RunsTypeOK, ReaderTypes, NEW p \in Pages, UserStep(p)
    PROVE  Moves(p)
<1>1. /\ 0 \in Nat /\ << >> \in Seq(Nat) /\ NoRun \in RunId /\ Runs \subseteq RunId
      /\ page[p].run \in RunId /\ page[p].seen + 1 \in Nat
  BY RowTypes DEF RunId
<1>2. ASSUME NEW r \in Runs, Submit(p, r) PROVE Moves(p)
  <2>1. /\ Shows(p, [NoPage EXCEPT !.phase = "submitting"]) /\ post' = [post EXCEPT ![p] = r]
        /\ UNCHANGED <<stop, snap, stream>>
    BY <1>2 DEF Submit
  <2> QED
    BY <1>1, <2>1, RowMoves, Rows, StreamStays DEF Moves, AnswersMoves, Updated
<1>3. CASE PostFailed(p)
  <2>1. Shows(p, NoPage) /\ post' = [post EXCEPT ![p] = NoRun] /\ UNCHANGED <<stop, snap, stream>>
    BY <1>3 DEF PostFailed
  <2> QED
    BY <1>1, <2>1, RowMoves, Rows, StreamStays DEF Moves, AnswersMoves, Updated
<1>4. CASE AskStop(p)
  <2>1. /\ stop' = [stop EXCEPT ![p] = [run |-> page[p].run, seq |-> page[p].seen + 1, said |-> "asked"]]
        /\ UNCHANGED <<page, post, snap, stream>>
    BY <1>4 DEF AskStop
  <2>2. [run |-> page[p].run, seq |-> page[p].seen + 1, said |-> "asked"] \in Stop
    BY <1>1 DEF Stop
  <2> QED
    BY <2>1, <2>2, StreamStays DEF Moves, AnswersMoves, Updated
<1>5. CASE Drop(p)
  <2>1. Stream(p, "off", 0, << >>) /\ Shows(p, Stirred(p)) /\ UNCHANGED <<post, stop, snap, feed, got>>
    BY <1>5 DEF Drop
  <2>2. StreamMoves(p)
    BY <1>1, <2>1, StreamTyped
  <2> QED
    BY <2>1, <2>2, RowMoves, Rows, AnswersStay DEF Moves, ReaderMoves, Updated
<1>6. CASE Reload(p) \/ Switch(p)
  <2>1. Load(p) /\ Updated(post', post, p, RunId) /\ Updated(stop', stop, p, Stop)
    BY <1>1, <1>6, Rows DEF Reload, Switch, Updated
  <2>2. FollowFrom(p, NoRun, 0) /\ Shows(p, NoPage)
    BY <2>1 DEF Load
  <2>3. Updated(snap', snap, p, Snapshot)
    <3>1. PICK r \in Runs : snap' = [snap EXCEPT ![p] = [run |-> r, state |-> run[r]]]
      BY <2>1 DEF Load
    <3>2. [run |-> r, state |-> run[r]] \in Snapshot
      BY <1>1 DEF Snapshot, RunsTypeOK
    <3> QED
      BY <3>1, <3>2 DEF Updated
  <2> QED
    BY <1>1, <2>1, <2>2, <2>3, FollowTyped, RowMoves, Rows DEF Moves, AnswersMoves
<1>7. CASE Leave(p)
  <2>1. FollowFrom(p, NoRun, 0) /\ Shows(p, NoPage) /\ UNCHANGED <<post, stop, snap>>
    BY <1>7 DEF Leave
  <2> QED
    BY <1>1, <2>1, FollowTyped, RowMoves, Rows, AnswersStay DEF Moves
<1> QED
  BY <1>2, <1>3, <1>4, <1>5, <1>6, <1>7 DEF UserStep

-----------------------------------------------------------------------------
PagesInv == ServiceInv /\ ReaderTypes /\ \A p \in Pages : PageInv(p)

LEMMA ServiceKept == ServiceInv /\ [Next]_vars => ServiceInv' /\ Grows
<1>1. SUFFICES ASSUME ServiceInv, [ServiceStep]_runVars PROVE ServiceInv' /\ Grows
  BY PagesOnlyRead
<1>2. RunsTypeOK /\ UnaskedIsSilent /\ LogTellsTheEnd /\ StatesTold
  BY <1>1 DEF ServiceInv
<1>3. RunsTypeOK' /\ StatesTold' /\ Grows
  BY <1>1, <1>2, TypesKept, StatesKept, ServiceGrows
<1>4. CASE UNCHANGED db
  <2>1. run' = run /\ log' = log
    BY <1>4 DEF db
  <2> QED
    BY <1>2, <1>3, <2>1 DEF ServiceInv, UnaskedIsSilent, LogTellsTheEnd
<1>5. ASSUME NEW r \in Runs, Changed(r) PROVE ServiceInv' /\ Grows
  BY <1>2, <1>3, <1>5, LogKept, SilenceKept DEF ServiceInv
<1> QED
  BY <1>1, <1>2, <1>4, <1>5, DbStep DEF runVars, db

LEMMA ActsKeep ==
    ASSUME ServiceInv, ReaderTypes, Grows, NEW p \in Pages, PageInv(p), ReaderStep(p) \/ UserStep(p)
    PROVE  PageInv(p)'
<1>1. RunsTypeOK
  BY DEF ServiceInv
<1>2. CASE ReaderStep(p)
  BY <1>1, <1>2, PostedKeeps, OpenKeeps, GiveUpKeeps, SendKeeps, DeliverKeeps, RestoreKeeps,
     CancelShownKeeps DEF ReaderStep
<1>3. CASE UserStep(p)
  BY <1>1, <1>3, SubmitKeeps, PostFailedKeeps, AskStopKeeps, DropKeeps, LoadKeeps, LeaveKeeps DEF UserStep
<1> QED
  BY <1>2, <1>3

LEMMA PagesKept == PagesInv /\ [Next]_vars => PagesInv'
<1> SUFFICES ASSUME PagesInv, [Next]_vars PROVE PagesInv'
  OBVIOUS
<1>1. ServiceInv /\ RunsTypeOK /\ ReaderTypes /\ \A p \in Pages : PageInv(p)
  BY DEF PagesInv, ServiceInv
<1>2. ServiceInv' /\ Grows
  BY <1>1, ServiceKept
<1>3. ASSUME UNCHANGED reader PROVE PagesInv'
  <2>1. UNCHANGED <<page, post, stop, snap, feed, got, conn, cursor, wire>>
    BY <1>3 DEF reader, stream
  <2>2. \A p \in Pages : Same(p)
    BY <2>1 DEF Same, SameStream, SameAnswers
  <2>3. ReaderTypes'
    BY <1>1, <2>1 DEF ReaderTypes
  <2> QED
    BY <1>1, <1>2, <2>2, <2>3, PageKept DEF PagesInv
<1>4. ASSUME NEW p \in Pages, ReaderStep(p) \/ UserStep(p) PROVE PagesInv'
  <2>1. PageInv(p)' /\ Moves(p)
    BY <1>1, <1>2, <1>4, ActsKeep, ReaderStepMoves, UserStepMoves
  <2>2. ReaderTypes' /\ \A q \in Pages \ {p} : Same(q)
    BY <1>1, <2>1, MovesTyped
  <2>3. \A q \in Pages : PageInv(q)'
    BY <1>1, <1>2, <2>1, <2>2, OnePage
  <2> QED
    BY <1>2, <2>2, <2>3 DEF PagesInv
<1>5. ASSUME NEW r \in Runs, CancelAnswered(r) PROVE PagesInv'
  <2>1. \A p \in Pages : PageInv(p)'
    BY <1>1, <1>2, <1>5, CancelAnsweredKeeps
  <2>2. UNCHANGED <<page, post, snap, feed, got, conn, cursor, wire>> /\ run[r] \in RunState
    BY <1>1, <1>5 DEF CancelAnswered, stream, RunsTypeOK
  <2>3. stop' \in [Pages -> Stop]
    BY <1>1, <1>5, <2>2 DEF CancelAnswered, ReaderTypes, Stop
  <2> QED
    BY <1>1, <1>2, <2>1, <2>2, <2>3 DEF PagesInv, ReaderTypes
<1>6. CASE CrashAll
  <2>1. \A p \in Pages : PageInv(p)'
    BY <1>1, <1>2, <1>6, CrashKeeps
  <2>2. ReaderTypes'
    <3>1. /\ NoPage \in Page /\ << >> \in Seq(Nat) /\ NoRun \in RunId /\ NoStop \in Stop
          /\ NoSnap \in Snapshot /\ [run |-> NoRun, state |-> "lost"] \in Snapshot
      BY DEF NoPage, NoStop, NoSnap, Page, Stop, Snapshot, RunId, Phases
    <3>2. /\ page' \in [Pages -> Page] /\ post' \in [Pages -> RunId]
          /\ stop' \in [Pages -> Stop] /\ snap' \in [Pages -> Snapshot]
      BY <1>1, <1>6, <3>1 DEF ReaderTypes, CrashAll
    <3>3. /\ conn' \in [Pages -> {"off", "open", "closing", "over"}]
          /\ cursor' \in [Pages -> Nat] /\ wire' \in [Pages -> Seq(Nat)] /\ UNCHANGED <<feed, got>>
      BY <1>1, <1>6, <3>1 DEF ReaderTypes, CrashAll
    <3> QED
      BY <1>1, <3>2, <3>3 DEF ReaderTypes
  <2> QED
    BY <1>2, <2>1, <2>2 DEF PagesInv
<1>7. CASE UNCHANGED vars
  BY <1>3, <1>7 DEF vars
<1> QED
  BY <1>3, <1>4, <1>5, <1>6, <1>7 DEF Next

LEMMA PagesInit == Init => PagesInv
<1> SUFFICES ASSUME Init PROVE PagesInv
  OBVIOUS
<1>1. ServiceInv
  BY TypesInit DEF Init, RunsInit, ServiceInv, UnaskedIsSilent, LogTellsTheEnd, StatesTold, Terminal
<1>2. ReaderTypes
  <2>1. NoPage \in Page /\ NoStop \in Stop /\ NoSnap \in Snapshot /\ NoRun \in RunId /\ << >> \in Seq(Nat)
    BY DEF NoPage, NoStop, NoSnap, Page, Stop, Snapshot, RunId, Phases
  <2> QED
    BY <2>1 DEF Init, ReaderTypes
<1>3. ASSUME NEW p \in Pages PROVE PageInv(p)
  <2>1. /\ page[p] = NoPage /\ snap[p] = NoSnap /\ stop[p] = NoStop /\ feed[p] = NoRun
        /\ conn[p] = "off" /\ wire[p] = << >>
    BY DEF Init
  <2>2. StreamInv(p)
    BY <2>1, PageBounds DEF StreamInv, Fed
  <2>3. AnswersInv(p)
    BY <2>1, PageBounds DEF AnswersInv, NoSnap, NoStop
  <2>4. RowInv(p)
    BY <2>1, PageBounds DEF RowInv, Ready, True, Attuned, NoPage, Settled
  <2> QED
    BY <2>2, <2>3, <2>4 DEF PageInv
<1> QED
  BY <1>1, <1>2, <1>3 DEF PagesInv

LEMMA PagesCorrect == Spec => []PagesInv
BY PagesInit, PagesKept, PTL DEF Spec

(***************************************************************************)
(* Pages, snapshots and streams keep their types, next to the service's.   *)
(***************************************************************************)
THEOREM PagesTypeCorrect == Spec => []TypeOK
<1>1. PagesInv => TypeOK
  BY DEF PagesInv, ServiceInv, ReaderTypes, TypeOK
<1> QED
  BY <1>1, PagesCorrect, PTL

(***************************************************************************)
(* However often a page reconnects, is reloaded or switched to another     *)
(* session, it shows each piece of the answer up to the last event it has  *)
(* seen, once - for as long as no other run's event reaches it.            *)
(***************************************************************************)
THEOREM PagesShowThePrefix == Spec => []PageShowsPrefix
<1>1. ASSUME PagesInv PROVE PageShowsPrefix
  <2>1. ASSUME NEW p \in Pages, page[p].phase \in {"busy", "done"}, ~ page[p].stray
        PROVE  page[p].shown = DeltasUpTo(page[p].run, page[p].seen)
    <3>1. page[p].run \in RunId /\ True(page[p])
      BY <1>1, <2>1, RowTypes DEF PagesInv, PageInv, RowInv
    <3>2. CASE page[p].run \in Runs
      BY <2>1, <3>1, <3>2 DEF True, PrefixShown
    <3>3. CASE page[p].run = NoRun
      <4>1. page[p].seen = 0 /\ page[p].shown = 0
        BY <3>1, <3>3 DEF True
      <4>2. {i \in 1..page[p].seen : log[page[p].run][i].type = "answer_delta"} = {}
        BY <4>1
      <4> QED
        BY <4>1, <4>2, FS_EmptySet DEF DeltasUpTo
    <3> QED
      BY <3>1, <3>2, <3>3 DEF RunId
  <2> QED
    BY <2>1 DEF PageShowsPrefix
<1> QED
  BY <1>1, PagesCorrect, PTL

(***************************************************************************)
(* A page that has settled and has met the events of one run only says how *)
(* that run ended, whichever of the stream, a snapshot and the answer to a *)
(* cancel request settled it, for any number of runs, pages, reconnections *)
(* and cancel requests.                                                    *)
(***************************************************************************)
THEOREM PagesEndAsTheirRuns == Spec => []PageEndsAsRun
<1>1. ASSUME PagesInv PROVE PageEndsAsRun
  <2>1. ASSUME NEW p \in Pages, ~ page[p].stray, page[p].phase \in Settled
        PROVE  EndShown(page[p])
    <3>1. page[p].run \in RunId /\ True(page[p])
      BY <1>1, <2>1, RowTypes DEF PagesInv, PageInv, RowInv
    <3> QED
      BY <2>1, <3>1 DEF True, RunId
  <2> QED
    BY <2>1 DEF PageEndsAsRun, EndShown, Settled
<1> QED
  BY <1>1, PagesCorrect, PTL
=============================================================================
