----------------------------- MODULE AgentPages -----------------------------
(***************************************************************************)
(* The reader's side of a run: the event stream of the service, the stream *)
(* reader of the browser that reconnects from the last event it saw, the   *)
(* page's reducer, and the snapshot a reloaded page starts from.           *)
(***************************************************************************)
EXTENDS AgentRuns

CONSTANTS
    Pages,      \* browser pages
    NoRun,      \* a page that follows nothing
    Elsewhere,  \* runs that other clients than Pages may ask for and cancel, too
    MaxDrops,   \* bound: connections lost
    MaxReloads  \* bound: page reloads and session switches

ASSUME PageBounds ==
    NoRun \notin Runs /\ Elsewhere \subseteq Runs /\ {MaxDrops, MaxReloads} \subseteq Nat

VARIABLES
    page,     \* what the reducer holds, and "stray": it applied another run's event
    post,     \* the creation request the page waits for
    stop,     \* the page's cancel request: its run, the seq its event will get, the answer
    snap,     \* a snapshot request: its run and the state it read before the events
    feed,     \* the run the page's stream reader follows
    got,      \* the last seq the reader has received
    conn,     \* its event stream: off, open, closing, over
    cursor,   \* the last event the service put on the wire
    wire,     \* seqs on their way to the page
    drops, reloads

stream == <<feed, got, conn, cursor, wire>>
reader == <<page, post, stop, snap, stream, drops, reloads>>
vars   == <<run, log, service, reader>>

Settled == {"done", "error", "cancelled"}
Phases == {"idle", "submitting", "busy"} \cup Settled
RunId == Runs \cup {NoRun}
Page == [run : RunId, phase : Phases, seen : Nat, shown : Nat, stray : BOOLEAN]
Stop == [run : RunId, seq : Nat, said : {"asked"} \cup RunState]
Snapshot == [run : RunId, state : {"none", "lost"} \cup RunState]
NoPage == [run |-> NoRun, phase |-> "idle", seen |-> 0, shown |-> 0, stray |-> FALSE]
NoStop == [run |-> NoRun, seq |-> 0, said |-> "asked"]
NoSnap == [run |-> NoRun, state |-> "none"]

Init ==
    /\ RunsInit
    /\ page = [p \in Pages |-> NoPage]
    /\ post = [p \in Pages |-> NoRun]
    /\ stop = [p \in Pages |-> NoStop]
    /\ snap = [p \in Pages |-> NoSnap]
    /\ feed = [p \in Pages |-> NoRun]
    /\ got = [p \in Pages |-> 0]
    /\ conn = [p \in Pages |-> "off"]
    /\ cursor = [p \in Pages |-> 0]
    /\ wire = [p \in Pages |-> << >>]
    /\ drops = 0
    /\ reloads = 0

Shows(p, state) == page' = [page EXCEPT ![p] = state]
Ready(p) == snap[p] = NoSnap

Stream(p, c, sent, w) ==
    /\ conn' = [conn EXCEPT ![p] = c]
    /\ cursor' = [cursor EXCEPT ![p] = sent]
    /\ wire' = [wire EXCEPT ![p] = w]

\* followStream: the old stream is aborted, whatever was on it is lost.
FollowFrom(p, r, seq) ==
    /\ feed' = [feed EXCEPT ![p] = r]
    /\ got' = [got EXCEPT ![p] = seq]
    /\ Stream(p, "off", 0, << >>)

-----------------------------------------------------------------------------
(***************************************************************************)
(* The reducer: an event with a seq already seen, or one that comes after  *)
(* the page has settled, changes nothing; it does not ask whose event it   *)
(* is.                                                                     *)
(***************************************************************************)
PhaseAfter(phase, e) ==
    CASE e.type = "completed" -> "done"
      [] e.type = "error" \/ (e.type = "state" /\ e.state = "failed") -> "error"
      [] e.type = "cancelled" \/ (e.type = "state" /\ e.state = "cancelled") -> "cancelled"
      [] OTHER -> IF phase = "idle" THEN "idle" ELSE "busy"

ShownAfter(shown, r, e) ==
    CASE e.type = "answer_delta" -> shown + 1
      [] e.type = "completed" -> Deltas(r)
      [] OTHER -> shown

\* An event e of run r, numbered seq.
Reduce(p, r, seq, e) ==
    IF page[p].phase \in Settled \/ seq <= page[p].seen THEN page[p]
    ELSE [page[p] EXCEPT !.seen = seq, !.phase = PhaseAfter(@, e),
                         !.shown = ShownAfter(@, r, e),
                         !.stray = @ \/ page[p].run # r]

Revoked(p, r) ==
    [page[p] EXCEPT !.phase = "error", !.shown = 0, !.stray = @ \/ page[p].run # r]

\* CONNECTED and DISCONNECTED: a page that waits for its run is taken for one
\* that has it.
Stirred(p) == [page[p] EXCEPT !.phase = IF @ = "submitting" THEN "busy" ELSE @]

-----------------------------------------------------------------------------
(***************************************************************************)
(* submit: the page forgets the old question, posts the new one, and       *)
(* follows the new run from the start.  Until then the old stream is open. *)
(***************************************************************************)
Submit(p, r) ==
    /\ up /\ ask[r] = "idle" /\ post[p] = NoRun /\ Ready(p)
    /\ page[p].phase \in {"idle"} \cup Settled
    /\ Shows(p, [NoPage EXCEPT !.phase = "submitting"])
    /\ post' = [post EXCEPT ![p] = r]
    /\ UNCHANGED <<db, service, stop, snap, stream, drops, reloads>>

\* RUN_CREATED counts only on a page that still waits; the stream starts anyhow.
Posted(p) ==
    /\ post[p] # NoRun /\ ask[post[p]] \in {"created", "replayed"}
    /\ \E q \in Runs :
         /\ KeyOf[q] = KeyOf[post[p]] /\ ask[q] = "created"
         /\ FollowFrom(p, q, 0)
         /\ IF page[p].phase = "submitting"
              THEN Shows(p, [page[p] EXCEPT !.phase = "busy", !.run = q])
              ELSE UNCHANGED page
    /\ post' = [post EXCEPT ![p] = NoRun]
    /\ UNCHANGED <<db, service, stop, snap, drops, reloads>>

\* A refusal or a lost answer: RESET, whatever the page shows by now.
PostFailed(p) ==
    /\ post[p] # NoRun
    /\ \/ ask[post[p]] \in {"refused", "conflict"} /\ UNCHANGED drops
       \/ drops < MaxDrops /\ drops' = drops + 1
    /\ Shows(p, NoPage)
    /\ post' = [post EXCEPT ![p] = NoRun]
    /\ UNCHANGED <<db, service, stop, snap, stream, reloads>>

-----------------------------------------------------------------------------
\* GET /runs/:id/events with the last seq the reader has received.
Open(p) ==
    /\ up /\ feed[p] # NoRun /\ conn[p] = "off" /\ UserOf[feed[p]] \notin denied
    /\ Stream(p, "open", got[p], << >>)
    /\ Shows(p, Stirred(p))
    /\ UNCHANGED <<db, service, post, stop, snap, feed, got, drops, reloads>>

\* A 403, or too many attempts while the service is down: the reader gives up
\* and leaves the page as it is.
GiveUp(p) ==
    /\ feed[p] # NoRun /\ conn[p] = "off" /\ (~ up \/ UserOf[feed[p]] \in denied)
    /\ Stream(p, "over", 0, << >>)
    /\ UNCHANGED <<db, service, page, post, stop, snap, feed, got, drops, reloads>>

\* Replay and polling: the next event, unless it is internal, and the end of
\* the stream after a terminal event.
Send(p) ==
    /\ conn[p] = "open" /\ UserOf[feed[p]] \notin denied
    /\ cursor[p] < Len(log[feed[p]])
    /\ LET next == cursor[p] + 1
           type == log[feed[p]][next].type
       IN  Stream(p, IF type \in TerminalTypes THEN "closing" ELSE "open", next,
                  IF type \in InternalTypes THEN wire[p] ELSE Append(wire[p], next))
    /\ UNCHANGED <<db, service, page, post, stop, snap, feed, got, drops, reloads>>

\* The role is checked before every batch: a single frame without number.
SendRevoked(p) ==
    /\ conn[p] = "open" /\ UserOf[feed[p]] \in denied
    /\ Stream(p, "closing", cursor[p], Append(wire[p], 0))
    /\ UNCHANGED <<db, service, page, post, stop, snap, feed, got, drops, reloads>>

EndsStream(r, seq) == seq = 0 \/ log[r][seq].type \in TerminalTypes

Deliver(p) ==
    /\ wire[p] # << >>
    /\ LET seq == Head(wire[p])
           r   == feed[p]
       IN  /\ Shows(p, IF seq = 0 THEN Revoked(p, r) ELSE Reduce(p, r, seq, log[r][seq]))
           /\ got' = [got EXCEPT ![p] = IF seq > @ THEN seq ELSE @]
           /\ Stream(p, IF EndsStream(r, seq) THEN "over" ELSE conn[p], cursor[p], Tail(wire[p]))
    /\ UNCHANGED <<db, service, post, stop, snap, feed, drops, reloads>>

\* The connection is lost with everything on it; the reader will reconnect.
Drop(p) ==
    /\ conn[p] \in {"open", "closing"} /\ drops < MaxDrops
    /\ drops' = drops + 1
    /\ Stream(p, "off", 0, << >>)
    /\ Shows(p, Stirred(p))
    /\ UNCHANGED <<db, service, post, stop, snap, feed, got, reloads>>

-----------------------------------------------------------------------------
(***************************************************************************)
(* A reload or another session: the page is reset, the stream aborted, and *)
(* the session's last run read, its row first.                             *)
(***************************************************************************)
Load(p) ==
    /\ up /\ reloads < MaxReloads
    /\ reloads' = reloads + 1
    /\ FollowFrom(p, NoRun, 0)
    /\ Shows(p, NoPage)
    /\ \E r \in Runs :
         /\ run[r] # "absent" /\ UserOf[r] \notin denied
         /\ snap' = [snap EXCEPT ![p] = [run |-> r, state |-> run[r]]]
    /\ UNCHANGED <<db, service, drops>>

\* A reload forgets the requests in flight, a switch does not.
Reload(p) ==
    /\ Load(p)
    /\ post' = [post EXCEPT ![p] = NoRun]
    /\ stop' = [stop EXCEPT ![p] = NoStop]
Switch(p) == Ready(p) /\ Load(p) /\ UNCHANGED <<post, stop>>

\* A new conversation, or a session in which nothing was asked.
Leave(p) ==
    /\ Ready(p) /\ page[p].run # NoRun
    /\ FollowFrom(p, NoRun, 0)
    /\ Shows(p, NoPage)
    /\ UNCHANGED <<db, service, post, stop, snap, drops, reloads>>

PhaseOf(state) ==
    CASE state = "completed" -> "done"
      [] state = "failed" -> "error"
      [] state = "cancelled" -> "cancelled"
      [] OTHER -> "busy"

\* A run that still works is followed from the last event of the snapshot.
Resume(p) ==
    LET r == snap[p].run
    IN  /\ snap[p].run # NoRun
        /\ IF snap[p].state \in Active THEN FollowFrom(p, r, Len(log[r])) ELSE UNCHANGED stream
        /\ snap' = [snap EXCEPT ![p] = NoSnap]
        /\ UNCHANGED <<db, service, post, stop, drops, reloads>>

Later(i, j) == IF i > j THEN i ELSE j

\* A faulty variant: the page takes the answer but not latest_seq.
RestoreFromStart(p) ==
    /\ Resume(p)
    /\ LET r == snap[p].run
       IN  IF page[p].phase \in Settled THEN UNCHANGED page
           ELSE Shows(p, [page[p] EXCEPT !.run = r, !.shown = Deltas(r),
                                         !.phase = PhaseOf(snap[p].state)])

\* ... and, a query later, its events; the page goes on from the last of them.
Restore(p) ==
    /\ Resume(p)
    /\ LET r == snap[p].run
       IN  IF page[p].phase \in Settled THEN UNCHANGED page
           ELSE Shows(p, [page[p] EXCEPT !.run = r, !.shown = Deltas(r),
                                         !.seen = Later(@, Len(log[r])),
                                         !.phase = PhaseOf(snap[p].state)])

-----------------------------------------------------------------------------
(***************************************************************************)
(* cancel: the request fixes the run and the seq of the event the page     *)
(* will give itself; the answer comes to whatever the page shows by then.  *)
(***************************************************************************)
Stops(p, r) == stop[p].run = r /\ stop[p].said = "asked"

AskStop(p) ==
    /\ up /\ Ready(p) /\ page[p].phase = "busy" /\ page[p].run # NoRun /\ stop[p] = NoStop
    /\ stop' = [stop EXCEPT ![p] = [run |-> page[p].run, seq |-> page[p].seen + 1,
                                     said |-> "asked"]]
    /\ UNCHANGED <<db, service, page, post, snap, stream, drops, reloads>>

CancelAnswered(r) ==
    /\ CancelAbort(r)
    /\ \/ /\ r \in Elsewhere \/ \A p \in Pages : ~ Stops(p, r)
          /\ UNCHANGED stop
       \/ \E p \in Pages : Stops(p, r) /\ stop' = [stop EXCEPT ![p].said = run[r]]
    /\ UNCHANGED <<page, post, snap, stream, drops, reloads>>

\* A faulty variant: the page does not look at the state in the answer.
CancelShownBlindly(p) ==
    /\ stop[p].said # "asked"
    /\ Shows(p, Reduce(p, stop[p].run, stop[p].seq, EndEvent("cancelled")))
    /\ stop' = [stop EXCEPT ![p] = NoStop]
    /\ UNCHANGED <<db, service, post, snap, stream, drops, reloads>>

\* The event carries no run: a page that shows another question takes it too.
CancelShown(p) ==
    /\ stop[p].said # "asked"
    /\ IF stop[p].said = "cancelled"
         THEN Shows(p, Reduce(p, stop[p].run, stop[p].seq, EndEvent("cancelled")))
         ELSE UNCHANGED page
    /\ stop' = [stop EXCEPT ![p] = NoStop]
    /\ UNCHANGED <<db, service, post, snap, stream, drops, reloads>>

\* A crash fails every request and closes every stream; a snapshot that failed
\* leaves a page that can only be reloaded.
CrashAll ==
    /\ Crash
    /\ page' = [p \in Pages |-> IF post[p] # NoRun THEN NoPage ELSE page[p]]
    /\ post' = [p \in Pages |-> NoRun]
    /\ stop' = [p \in Pages |-> NoStop]
    /\ snap' = [p \in Pages |-> IF Ready(p) THEN NoSnap ELSE [run |-> NoRun, state |-> "lost"]]
    /\ conn' = [p \in Pages |-> IF conn[p] \in {"open", "closing"} THEN "off" ELSE conn[p]]
    /\ cursor' = [p \in Pages |-> 0]
    /\ wire' = [p \in Pages |-> << >>]
    /\ UNCHANGED <<feed, got, drops, reloads>>

ReaderStep(p) ==
    \/ Posted(p) \/ Open(p) \/ GiveUp(p) \/ Send(p) \/ SendRevoked(p) \/ Deliver(p)
    \/ Restore(p) \/ CancelShown(p)
UserStep(p) ==
    \/ \E r \in Runs : Submit(p, r)
    \/ PostFailed(p) \/ AskStop(p) \/ Drop(p) \/ Reload(p) \/ Switch(p) \/ Leave(p)

\* The service takes up a request that a page, or another client, has sent.
Received(r) ==
    \/ LookupKey(r) /\ (r \in Elsewhere \/ \E p \in Pages : post[p] = r)
    \/ CancelRead(r) /\ (r \in Elsewhere \/ \E p \in Pages : Stops(p, r))

Next ==
    \/ \E r \in Runs : (Received(r) \/ RunStep(r)) /\ UNCHANGED reader
    \/ \E r \in Runs : CancelAnswered(r)
    \/ Listen /\ UNCHANGED reader
    \/ \E r \in Runs : Revoke(UserOf[r]) /\ UNCHANGED reader
    \/ CrashAll
    \/ \E p \in Pages : ReaderStep(p) \/ UserStep(p)

Spec == Init /\ [][Next]_vars

(***************************************************************************)
(* The model answers or the run's time-out ends the wait, a process that   *)
(* died is started again, and a browser with a stream keeps reading it.    *)
(***************************************************************************)
FairSpec ==
    /\ Spec
    /\ \A r \in Runs : WF_vars(OrchestratorStep(r) /\ UNCHANGED reader)
    /\ \A r \in Runs : WF_vars(Recover(r) /\ UNCHANGED reader)
    /\ WF_vars(Listen /\ UNCHANGED reader)
    /\ \A p \in Pages : WF_vars(ReaderStep(p))

-----------------------------------------------------------------------------
(***************************************************************************)
(* Rows, logs and the local state of every task have their types.          *)
(***************************************************************************)
TypeOK ==
    /\ RunsTypeOK
    /\ page \in [Pages -> Page]
    /\ post \in [Pages -> RunId]
    /\ stop \in [Pages -> Stop]
    /\ snap \in [Pages -> Snapshot]
    /\ feed \in [Pages -> RunId]
    /\ got \in [Pages -> Nat]
    /\ conn \in [Pages -> {"off", "open", "closing", "over"}]
    /\ cursor \in [Pages -> Nat]
    /\ wire \in [Pages -> Seq(Nat)]

(***************************************************************************)
(* A reader that stops at the terminal event has missed nothing, and one   *)
(* that waits for it will get it: the log of a run has its terminal event  *)
(* last and exactly when the run has ended, with the matching type - also  *)
(* when the answer, a cancel, a failure and a restart race to write it     *)
(* (transitionAndAppend, cancel, failRun, failInterrupted).                *)
(***************************************************************************)
LogTellsTheEnd ==
    \A r \in Runs :
        /\ \A i \in 1..Len(log[r]) :
              log[r][i].type \in TerminalTypes => i = Len(log[r]) /\ run[r] \in Terminal
        /\ run[r] \in Terminal =>
              log[r] # << >> /\ log[r][Len(log[r])] = EndEvent(run[r])

(***************************************************************************)
(* No permit leaks and none is released twice, whichever of creation,      *)
(* conflict, completion, failure and crash ends the holder                 *)
(* (ConcurrencyGate, the finally of createRun).                            *)
(***************************************************************************)
Holders == {r \in Runs : orch[r].pc # "none" \/ ask[r] = "insert"}
PermitsMatchHolders == active = Cardinality(Holders) /\ active <= MaxActiveRuns

(***************************************************************************)
(* A run that blocks its user from asking again is being driven, or the    *)
(* process is down and recovery will end it.                               *)
(***************************************************************************)
ActiveRunIsDriven ==
    \A r \in Runs : run[r] \in Active => ~ up \/ orch[r].pc # "none"

(***************************************************************************)
(* Across reconnections, reloads, session switches and a restart a page    *)
(* shows exactly the pieces of the answer that precede the last event it   *)
(* has seen: none twice, none skipped (followRunStream, reduceEvent,       *)
(* reduceSnapshot) - unless an event of another run has reached it since   *)
(* it was reset, which nothing in the page prevents.                       *)
(***************************************************************************)
PageShowsPrefix ==
    \A p \in Pages : page[p].phase \in {"busy", "done"} /\ ~ page[p].stray =>
        page[p].shown = DeltasUpTo(page[p].run, page[p].seen)

(***************************************************************************)
(* What a settled page says of its run is how that run ended, whichever of *)
(* the stream, a snapshot and the answer to its cancel request settled it, *)
(* under the same condition: no event of another run has reached it.       *)
(***************************************************************************)
PageEndsAsRun ==
    \A p \in Pages : ~ page[p].stray =>
        /\ page[p].phase = "done" => run[page[p].run] = "completed"
        /\ page[p].phase = "cancelled" => run[page[p].run] = "cancelled"
        /\ page[p].phase = "error" =>
             run[page[p].run] = "failed" \/ UserOf[page[p].run] \in denied

(***************************************************************************)
(* A run that has ended stays as it ended, whoever still works on it.      *)
(***************************************************************************)
EndedStaysEnded ==
    [][\A r \in Runs : run[r] \in Terminal =>
           run'[r] = run[r] /\ log'[r] = log[r]]_vars

(***************************************************************************)
(* Every run ends, so that its user can ask again and its permit returns.  *)
(***************************************************************************)
EveryRunEnds == \A r \in Runs : run[r] \in Active ~> run[r] \in Terminal

-----------------------------------------------------------------------------
(***************************************************************************)
(* What a user is promised of a question, RunPromise, is what the service  *)
(* does: the answer only grows while the run works and ends once.          *)
(***************************************************************************)
Stage(r) == IF run[r] = "absent" THEN "unasked"
            ELSE IF run[r] \in Active THEN "working" ELSE run[r]
Promise == INSTANCE RunPromise WITH
             Questions <- Runs,
             stage <- [r \in Runs |-> Stage(r)],
             pieces <- [r \in Runs |-> Deltas(r)]
KeepsPromise == Promise!Spec
=============================================================================
