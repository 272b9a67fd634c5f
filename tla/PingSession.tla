---------------------------- MODULE PingSession ----------------------------
(***************************************************************************)
(* A continuous-ping session of RustyTools: the UI thread, which draws one *)
(* frame at a time, the worker threads it spawns (one per target), the     *)
(* unbounded FIFO channel they report on, and the log files they write.    *)
(*                                                                         *)
(* A frame is: drain the channel, compute `running`, draw the ping page    *)
(* (at most one click), decide whether another frame is requested.  The    *)
(* workers run between any two of these steps.                             *)
(***************************************************************************)
EXTENDS Naturals, Sequences, FiniteSets

CONSTANTS
  Targets,      \* names the user may type in the target list
  MaxSessions,  \* bound: how often Start gets as far as spawning workers
  MaxProbes,    \* bound: probes of one worker
  Outcomes,     \* PingStatus: "ok", "timeout", "toobig", and "error" for
                \* PingErr::Other and a failed name resolution
  LogCap        \* lines the log panel keeps (2000 in the code)

ASSUME PingAssumption ==
  /\ Targets # {}
  /\ MaxSessions \in Nat \ {0}
  /\ MaxProbes \in Nat
  /\ LogCap \in Nat \ {0}
  /\ {"ok", "error"} \subseteq Outcomes

Sessions == 1 .. MaxSessions
Workers == Sessions \X Targets
WorkersOf(s) == {s} \X Targets

\* A report: a CSV line, then the PingEvent with the same content.  The
\* worker in it stands for the target; the program does not transmit the
\* session a report belongs to.
Reports == [w : Workers, seq : Nat, st : Outcomes]

WorkerPCs == {"none", "resolve", "loop", "ping", "send", "done"}
WorkerStates == [pc : WorkerPCs, seq : Nat, st : Outcomes]
Unborn == [pc |-> "none", seq |-> 0, st |-> "ok"]

\* PingTargetState: whether the row exists, and its Stats counters.
Rows == [listed : BOOLEAN, sent : Nat, received : Nat]
NoRow == [listed |-> FALSE, sent |-> 0, received |-> 0]
FreshRow == [listed |-> TRUE, sent |-> 0, received |-> 0]

UIStates == {"out", "drain", "poll", "tab", "start", "end"}

VARIABLES
  ui,        \* where the UI thread is in its frame ("out": between frames)
  input,     \* the frame handles user input
  repaint,   \* a further frame has been requested
  running,   \* the local `running` of ui_ping
  session,   \* ping_session: the session it holds, 0 for None
  nsess,     \* sessions whose workers have begun to be spawned
  todo,      \* in start(): targets whose worker is not spawned yet
  rows,      \* ping_targets_state
  panel,     \* ping_log: the lines of the log panel, oldest first
  chan,      \* the event channel, tx to rx
  stop,      \* the stop flag of each session
  wk,        \* the worker threads
  written,   \* lines each worker has written to its own log file
  aborted,   \* history: sessions whose start() returned an error half-way
  logCleared \* history: the panel was cleared later than the table

vars == <<ui, input, repaint, running, session, nsess, todo, rows,
          panel, chan, stop, wk, written, aborted, logCleared>>
uiVars == <<ui, input, repaint, running, session, nsess, todo,
            rows, panel, aborted, logCleared>>
workerVars == <<stop, wk, written>>

Live(w) == wk[w].pc \notin {"none", "done"}
SessionLive(s) == \E w \in WorkersOf(s) : Live(w)
\* PingSession::is_running on ping_session.
IsRunning == session # 0 /\ SessionLive(session)

Init ==
  /\ ui = "out" /\ input = FALSE /\ repaint = TRUE
  /\ running = FALSE
  /\ session = 0 /\ nsess = 0 /\ todo = {}
  /\ rows = [t \in Targets |-> NoRow] /\ panel = <<>> /\ chan = <<>>
  /\ stop = [s \in Sessions |-> FALSE]
  /\ wk = [w \in Workers |-> Unborn]
  /\ written = [w \in Workers |-> 0]
  /\ aborted = {} /\ logCleared = FALSE

-----------------------------------------------------------------------------
(* The worker thread of one target.                                        *)

\* resolve_host: on success the probe loop begins; on failure the worker
\* logs one line with sequence number 0, reports it, and ends.
Resolve(w) ==
  /\ wk[w].pc = "resolve"
  /\ \/ /\ wk' = [wk EXCEPT ![w] = [@ EXCEPT !.pc = "loop"]]
        /\ UNCHANGED written
     \/ /\ wk' = [wk EXCEPT ![w] = [@ EXCEPT !.pc = "send", !.st = "error"]]
        /\ written' = [written EXCEPT ![w] = @ + 1]
  /\ UNCHANGED <<uiVars, chan, stop>>

\* Fault: the probe loop does not test the stop flag.
NextProbeUnstoppable(w) ==
  /\ wk[w].pc = "loop" /\ wk[w].st # "error"
  /\ wk[w].seq < MaxProbes
  /\ wk' = [wk EXCEPT ![w] = [@ EXCEPT !.pc = "ping", !.seq = wk[w].seq + 1]]
  /\ UNCHANGED <<uiVars, chan, stop, written>>

\* The test of the probe loop, on entry and after the interruptible wait.
NextProbe(w) ==
  /\ wk[w].pc = "loop" /\ wk[w].st # "error"
  /\ ~stop[w[1]]
  /\ wk[w].seq < MaxProbes
  /\ wk' = [wk EXCEPT ![w] = [@ EXCEPT !.pc = "ping", !.seq = wk[w].seq + 1]]
  /\ UNCHANGED <<uiVars, chan, stop, written>>

\* backend.ping returns; the result goes to the log file first.
Ping(w) ==
  /\ wk[w].pc = "ping"
  /\ \E o \in Outcomes :
       wk' = [wk EXCEPT ![w] = [@ EXCEPT !.pc = "send", !.st = o]]
  /\ written' = [written EXCEPT ![w] = @ + 1]
  /\ UNCHANGED <<uiVars, chan, stop>>

Send(w) ==
  /\ wk[w].pc = "send"
  /\ chan' = Append(chan, [w |-> w, seq |-> wk[w].seq, st |-> wk[w].st])
  /\ wk' = [wk EXCEPT ![w] = [@ EXCEPT !.pc = "loop"]]
  /\ UNCHANGED <<uiVars, stop, written>>

\* Fault: the wait between probes does not look at the stop flag.
FinishOnlyFatal(w) ==
  /\ wk[w].pc = "loop" /\ wk[w].st = "error"
  /\ wk' = [wk EXCEPT ![w] = [@ EXCEPT !.pc = "done"]]
  /\ UNCHANGED <<uiVars, chan, stop, written>>

\* The thread ends: stop was seen, or the last result was fatal.
Finish(w) ==
  /\ wk[w].pc = "loop"
  /\ stop[w[1]] \/ wk[w].st = "error"
  /\ wk' = [wk EXCEPT ![w] = [@ EXCEPT !.pc = "done"]]
  /\ UNCHANGED <<uiVars, chan, stop, written>>

Worker(w) == Resolve(w) \/ NextProbe(w) \/ Ping(w) \/ Send(w) \/ Finish(w)

-----------------------------------------------------------------------------
(* The frames of the UI thread.                                            *)

\* A frame begins because one was requested, or on user input.
RepaintFrame ==
  /\ ui = "out" /\ repaint
  /\ ui' = "drain" /\ input' = FALSE /\ repaint' = FALSE
  /\ UNCHANGED <<running, session, nsess, todo, rows, panel, chan,
                 aborted, logCleared, workerVars>>

InputFrame ==
  /\ ui = "out"
  /\ ui' = "drain" /\ input' = TRUE /\ repaint' = FALSE
  /\ UNCHANGED <<running, session, nsess, todo, rows, panel, chan,
                 aborted, logCleared, workerVars>>

\* Fault: a failed resolution counts as a probe.
CountedEveryError(row, e) ==
  [listed   |-> TRUE,
   sent     |-> row.sent + 1,
   received |-> IF e.st = "ok" THEN row.received + 1 ELSE row.received]

\* Fault: a lost probe takes an answer back.
CountedBackwards(row, e) ==
  [listed   |-> TRUE,
   sent     |-> IF e.seq > 0 THEN row.sent + 1 ELSE row.sent,
   received |-> IF e.st = "ok" THEN row.received + 1 ELSE row.received - 1]

\* Stats of a row after one more report: an error with sequence number 0 is
\* a failed resolution, no probe was sent.
Counted(row, e) ==
  [listed   |-> TRUE,
   sent     |-> IF e.seq > 0 THEN row.sent + 1 ELSE row.sent,
   received |-> IF e.st = "ok" THEN row.received + 1 ELSE row.received]

\* Fault: a full panel refuses the new line.
PushRefused(lines, e) ==
  IF Len(lines) < LogCap THEN Append(lines, e) ELSE lines

\* push_capped: the oldest line leaves when the panel is full.
PushCapped(lines, e) ==
  IF Len(lines) < LogCap THEN Append(lines, e) ELSE Tail(Append(lines, e))

\* on_ping_event for the oldest event; its row is found by target name, or
\* created.
DrainOne ==
  /\ ui = "drain" /\ chan # <<>>
  /\ LET e == Head(chan)  t == e.w[2]
     IN  /\ rows' = [rows EXCEPT ![t] = Counted(@, e)]
         /\ panel' = PushCapped(panel, e)
  /\ chan' = Tail(chan)
  /\ UNCHANGED <<ui, input, repaint, running, session, nsess, todo,
                 aborted, logCleared, workerVars>>

\* try_recv finds the channel empty.
DrainEnd ==
  /\ ui = "drain" /\ chan = <<>>
  /\ ui' = "poll"
  /\ UNCHANGED <<input, repaint, running, session, nsess, todo,
                 rows, panel, chan, aborted, logCleared, workerVars>>

\* Fault: a session is dropped as soon as it was asked to stop.
PollDropsStopped ==
  /\ ui = "poll"
  /\ ui' = "tab"
  /\ running' = (IsRunning /\ ~stop[session])
  /\ session' = IF running' THEN session ELSE 0
  /\ UNCHANGED <<input, repaint, nsess, todo, rows, panel, chan, aborted,
                 logCleared, workerVars>>

\* ui_ping reads is_running and drops a session whose workers have ended.
Poll ==
  /\ ui = "poll"
  /\ ui' = "tab"
  /\ running' = IsRunning
  /\ session' = IF IsRunning THEN session ELSE 0
  /\ UNCHANGED <<input, repaint, nsess, todo, rows, panel, chan,
                 aborted, logCleared, workerVars>>

\* Another page is shown: ui_ping does not run in this frame.
OtherPage ==
  /\ ui = "poll" /\ ui' = "end"
  /\ UNCHANGED <<input, repaint, running, session, nsess, todo,
                 rows, panel, chan, aborted, logCleared, workerVars>>

NoClick ==
  /\ ui = "tab" /\ ui' = "end"
  /\ UNCHANGED <<input, repaint, running, session, nsess, todo,
                 rows, panel, chan, aborted, logCleared, workerVars>>

\* Fault: the repaint is decided by the `running` of the ping page.
EndFrameByPage ==
  /\ ui = "end" /\ ui' = "out"
  /\ repaint' = (input \/ running)
  /\ input' = FALSE /\ running' = FALSE
  /\ UNCHANGED <<session, nsess, todo, rows, panel, chan, aborted,
                 logCleared, workerVars>>

\* The end of update(): a further frame is requested while the session runs;
\* egui itself draws one more frame after any input.
EndFrame ==
  /\ ui = "end" /\ ui' = "out"
  /\ repaint' = (input \/ IsRunning)
  /\ input' = FALSE /\ running' = FALSE
  /\ UNCHANGED <<session, nsess, todo, rows, panel, chan, aborted,
                 logCleared, workerVars>>

-----------------------------------------------------------------------------
(* Clicks on the ping page.                                                *)

Click == ui = "tab" /\ input

StopClicked ==
  /\ Click /\ running
  /\ stop' = [stop EXCEPT ![session] = TRUE]
  /\ ui' = "end"
  /\ UNCHANGED <<input, repaint, running, session, nsess, todo,
                 rows, panel, chan, wk, written, aborted, logCleared>>

\* start_ping with targets T: the results of the last session are dropped
\* before anything can fail.
ResetResults(T) ==
  /\ rows' = [t \in Targets |-> IF t \in T THEN FreshRow ELSE NoRow]
  /\ panel' = <<>> /\ logCleared' = FALSE

\* The source selection is invalid or the log folder cannot be created.
StartRefused ==
  /\ Click /\ ~running
  /\ \E T \in (SUBSET Targets) \ {{}} : ResetResults(T)
  /\ ui' = "end"
  /\ UNCHANGED <<input, repaint, running, session, nsess, todo,
                 chan, aborted, workerVars>>

StartClicked ==
  /\ Click /\ ~running
  /\ nsess < MaxSessions
  /\ nsess' = nsess + 1
  /\ \E T \in (SUBSET Targets) \ {{}} : ResetResults(T) /\ todo' = T
  /\ ui' = "start"
  /\ UNCHANGED <<input, repaint, running, session, chan, aborted,
                 workerVars>>

\* One turn of the loop of start(): the log file is created, the worker
\* spawned.
SpawnNext ==
  /\ ui = "start"
  /\ \E t \in todo :
       /\ todo' = todo \ {t}
       /\ wk' = [wk EXCEPT ![<<nsess, t>>] = [@ EXCEPT !.pc = "resolve"]]
  /\ UNCHANGED <<ui, input, repaint, running, session, nsess, rows,
                 panel, chan, stop, written, aborted, logCleared>>

\* File::create fails: start() returns the error, the handles and the stop
\* flag of the workers spawned so far are dropped with it.
StartFails ==
  /\ ui = "start" /\ todo # {}
  /\ todo' = {} /\ ui' = "end"
  /\ aborted' = aborted \cup {nsess}
  /\ UNCHANGED <<input, repaint, running, session, nsess, rows,
                 panel, chan, logCleared, workerVars>>

StartReturns ==
  /\ ui = "start" /\ todo = {}
  /\ session' = nsess
  /\ ui' = "end"
  /\ UNCHANGED <<input, repaint, running, nsess, todo, rows, panel,
                 chan, aborted, logCleared, workerVars>>

\* "Clear results": rows stay while the session runs, their counters restart.
ClearClicked ==
  /\ Click
  /\ rows' = [t \in Targets |->
                IF running /\ rows[t].listed THEN FreshRow ELSE NoRow]
  /\ panel' = <<>> /\ logCleared' = FALSE
  /\ ui' = "end"
  /\ UNCHANGED <<input, repaint, running, session, nsess, todo,
                 chan, aborted, workerVars>>

\* "Clear" of the event log: the table keeps its counters.
LogClearClicked ==
  /\ Click
  /\ panel' = <<>> /\ logCleared' = TRUE
  /\ ui' = "end"
  /\ UNCHANGED <<input, repaint, running, session, nsess, todo, rows,
                 chan, aborted, workerVars>>

-----------------------------------------------------------------------------
\* What the UI thread does without the user.
UIStep ==
  \/ RepaintFrame \/ DrainOne \/ DrainEnd \/ Poll \/ OtherPage \/ NoClick
  \/ EndFrame \/ SpawnNext \/ StartFails \/ StartReturns

UserStep ==
  \/ InputFrame \/ StopClicked \/ StartRefused \/ StartClicked
  \/ ClearClicked \/ LogClearClicked

Next == UIStep \/ UserStep \/ \E w \in Workers : Worker(w)

Spec == Init /\ [][Next]_vars

\* The UI thread finishes its frames and draws those it requested; a worker
\* is never stuck: resolution and probes end by their time-outs.
Fairness == WF_vars(UIStep) /\ \A w \in Workers : WF_vars(Worker(w))

FairSpec == Spec /\ Fairness

-----------------------------------------------------------------------------
(* Properties.                                                             *)

\* The type invariant.
TypeOK ==
  /\ ui \in UIStates
  /\ input \in BOOLEAN /\ repaint \in BOOLEAN
  /\ running \in BOOLEAN
  /\ nsess \in 0 .. MaxSessions /\ (ui = "start" => nsess > 0)
  /\ session \in 0 .. nsess
  /\ todo \in SUBSET Targets
  /\ rows \in [Targets -> Rows]
  /\ panel \in Seq(Reports) /\ chan \in Seq(Reports)
  /\ stop \in [Sessions -> BOOLEAN]
  /\ wk \in [Workers -> WorkerStates]
  /\ written \in [Workers -> Nat]
  /\ aborted \in SUBSET Sessions /\ logCleared \in BOOLEAN

\* A thread that still probes and writes its log belongs to the session the
\* UI can stop, or to the one being started, unless start() failed half-way
\* through spawning (ping.rs start, ui_ping dropping ping_session).  So two
\* healthy sessions never ping the same target at once.
OnlyFailedStartsOrphan ==
  \A w \in Workers : Live(w) =>
    \/ w[1] = session
    \/ w[1] = nsess /\ ui = "start"
    \/ w[1] \in aborted

\* Everything a worker has sent reaches the log panel once and in order: in
\* the panel followed by the events in the channel, a worker's line is followed
\* by one of it with the next sequence number, up to the last report it sent;
\* and none is ahead of the worker's log file (probe_loop, worker,
\* drain_events, push_capped).
Stream == panel \o chan
LaterLines(i) == {j \in DOMAIN Stream : i < j /\ Stream[j].w = Stream[i].w}
LastSent(w) == IF wk[w].pc \in {"ping", "send"} /\ wk[w].seq > 0
               THEN wk[w].seq - 1 ELSE wk[w].seq
ReportsInOrder ==
  \A i \in DOMAIN Stream :
    LET w == Stream[i].w
    IN  IF LaterLines(i) = {}
        THEN Stream[i].seq = LastSent(w) /\ LastSent(w) <= written[w]
        ELSE \E j \in LaterLines(i) : /\ Stream[j].seq = Stream[i].seq + 1
                                      /\ \A k \in LaterLines(i) : j <= k

\* The table agrees with the log panel it is shown beside, as long as the
\* panel has lost no line, at its cap or by a Clear of its own: as many probes
\* sent, and as many answered, as it lists for that target (on_ping_event,
\* Clear results, start_ping).
LinesOf(t) == {i \in DOMAIN panel : panel[i].w[2] = t}
TableMatchesPanel ==
  Len(panel) < LogCap /\ ~logCleared =>
    \A t \in Targets :
      /\ rows[t].sent = Cardinality({i \in LinesOf(t) : panel[i].seq > 0})
      /\ rows[t].received = Cardinality({i \in LinesOf(t) : panel[i].st = "ok"})
      /\ LinesOf(t) # {} => rows[t].listed

\* Every probe the workers of a target have reported, in whichever session, is
\* counted in its row exactly once: it waits in the channel, then it is in the
\* row's counter, until a click clears that row.  No session, late report or
\* worker nobody holds, and no cap or Clear of the panel, makes the table miss
\* a probe or count it twice (worker, on_ping_event, start_ping, ui_ping).
ProbesOf(t) ==
  {p \in Sessions \X (1 .. MaxProbes) : p[2] <= LastSent(<<p[1], t>>)}
WaitingOf(t) == {i \in DOMAIN chan : chan[i].w[2] = t /\ chan[i].seq > 0}
Forgotten(t) ==
  Cardinality(ProbesOf(t)) - Cardinality(WaitingOf(t)) - rows[t].sent
ProbesCountedOnce ==
  [][\A t \in Targets :
       \/ Forgotten(t)' = Forgotten(t)
       \/ /\ ui = "tab" /\ rows'[t].sent = 0
          /\ Forgotten(t)' = Forgotten(t) + rows[t].sent]_vars

\* A session the UI holds keeps the frames coming while a worker is alive, so
\* its results are shown without user input (update, request_repaint_after).
RepaintWhileRunning == ui = "out" /\ IsRunning => repaint

\* The inductive invariant behind the two invariants above and the refinement
\* below: when the page would start a session, ping_session is None; threads
\* and stop flags exist only for sessions begun, and the session being
\* started has not been stopped.
SessionInv ==
  /\ OnlyFailedStartsOrphan
  /\ RepaintWhileRunning
  /\ ui = "start" => session = 0
  /\ ui = "tab" => (running <=> session # 0)
  /\ \A w \in Workers : wk[w].pc # "none" => w[1] <= nsess
  /\ \A s \in Sessions : stop[s] => s <= nsess /\ (ui = "start" => s < nsess)

\* PingSession implements the abstract session of module Session: after Stop
\* every worker reports at most once more, and the UI drops the session only
\* when all its workers have ended.
Phase == IF session = 0 THEN "idle"
         ELSE IF stop[session] THEN "stopping" ELSE "running"
LiveMembers == {t \in Targets : session # 0 /\ Live(<<session, t>>)}
Owed == {t \in Targets : /\ session # 0 /\ stop[session]
                         /\ wk[<<session, t>>].pc \in {"resolve", "ping"}}
Reported == [t \in Targets |->
               IF session = 0 THEN 0 ELSE written[<<session, t>>]]
Promise == INSTANCE Session WITH
  Members <- Targets, phase <- Phase, live <- LiveMembers, owed <- Owed,
  reports <- Reported
ImplementsSession == Promise!Spec

\* Stop ends every thread of the session (StopClicked, probe_loop).
StopEndsWorkers == \A s \in Sessions : stop[s] ~> ~SessionLive(s)

\* While the session runs, what its workers report is shown, even if the user
\* touches nothing.
ShownWhileRunning == (chan # <<>> /\ IsRunning) ~> (chan = <<>> \/ ~IsRunning)

\* app.rs on the rows: samples are timed in "seconds since session start" and
\* the README calls the table's jitter the session average.  What is listed
\* and counted while a session runs was reported by that session (reports of
\* a session whose start failed left aside).
ShowsOnlyThisSession ==
  session # 0 =>
    \A i \in 1 .. Len(panel) : panel[i].w[1] \in aborted \cup {session}

\* app.rs on the log actions: deleting is "disabled while a session is
\* writing".  Where the page enables "Delete log files", no thread writes.
DeleteOfferedOnlyWhenQuiet ==
  ui = "tab" /\ ~running => \A w \in Workers : ~Live(w)
=============================================================================
