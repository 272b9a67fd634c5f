---------------------------- MODULE TraceSession ----------------------------
(***************************************************************************)
(* One MTR-style traceroute session: the target worker of each target (run *)
(* the system traceroute as a child process, read its output, then spawn   *)
(* and join one probing thread per responding hop), the child map and its  *)
(* mutex shared with the UI thread's Stop, and the events the UI shows.    *)
(*                                                                         *)
(* The child process and the operating system are external: they are       *)
(* modelled from what the code asks of them (pipes, kill, wait).           *)
(***************************************************************************)
EXTENDS Naturals, Sequences, FiniteSets

CONSTANTS
  Targets,     \* names in the target list
  MaxHops,     \* the hop limit given to traceroute
  MaxLines,    \* bound: hop lines traceroute prints for a target
  MaxProbes,   \* bound: probes of one hop thread
  StderrFits   \* the child's error output fits the pipe to its reader

ASSUME TraceAssumption ==
  /\ MaxHops \in 1 .. 254
  /\ MaxLines \in Nat /\ MaxProbes \in Nat
  /\ StderrFits \in BOOLEAN
  /\ "free" \notin Targets

\* A hop list, by hop number: no entry, a silent hop, an address on the way,
\* or the destination, which may come after the last hop discovered.
HopNumbers == 1 .. MaxHops + 1
Answers == {"silent", "router", "dest"}
HopLists == [HopNumbers -> Answers \cup {"absent"}]
NoHops == [h \in HopNumbers |-> "absent"]
Listed(hops) == {h \in HopNumbers : hops[h] # "absent"}
Answering(hops) == {h \in HopNumbers : hops[h] \in {"router", "dest"}}

HopThreads == Targets \X HopNumbers

TargetPCs == {"none", "resolve", "spawn", "register", "stdout", "stderr",
              "wait", "decide", "names", "join", "done"}
HopPCs == {"none", "loop", "ping", "send", "done"}

\* "closing": it has exited or been killed, its pipes are closed; "exited":
\* it can be waited for; "blocked": it waits for room in the stderr pipe.
ChildStates == {"none", "running", "blocked", "closing", "exited", "reaped"}

Messages == {"discovering", "monitoring", "error", "nohops", "stopped"}
FinalMessages == {"error", "nohops", "stopped"}

\* TraceEvent.
Events == [k : {"status"}, t : Targets, m : Messages]
          \cup [k : {"hops"}, t : Targets, hops : HopLists]
          \cup [k : {"sample"}, t : Targets, h : HopNumbers]

VARIABLES
  held,     \* trace_session is Some
  stop,     \* the stop flag
  ui,       \* "free", or "kill": Stop is about to lock the child map
  lock,     \* the mutex of the child map: "free", or the target holding it
  inMap,    \* targets whose child is in the map
  child,    \* the child process of each target
  pc,       \* the target workers
  lines,    \* hop lines read
  path,     \* `hops` of the target worker: what traceroute printed
  hopPC,    \* the hop threads
  seq,      \* probes of each hop thread
  last,     \* the last probe failed fatally
  csv,      \* lines of each hop thread in the mtr log
  chan,     \* the event channel
  status,   \* TraceTargetState::status shown
  rows,     \* TraceTargetState::hops shown
  samples,  \* Stats::sent of each row
  missed    \* history: children put in the map after Stop had killed

workerVars == <<child, pc, lines, path, hopPC, seq, last, csv>>
shownVars == <<status, rows, samples>>
vars == <<held, stop, ui, lock, inMap, workerVars, chan, shownVars, missed>>

Init ==
  /\ held = FALSE /\ stop = FALSE /\ ui = "free" /\ lock = "free"
  /\ inMap = {} /\ missed = {}
  /\ child = [t \in Targets |-> "none"]
  /\ pc = [t \in Targets |-> "none"]
  /\ lines = [t \in Targets |-> 0]
  /\ path = [t \in Targets |-> NoHops]
  /\ hopPC = [x \in HopThreads |-> "none"]
  /\ seq = [x \in HopThreads |-> 0]
  /\ last = [x \in HopThreads |-> "ok"]
  /\ csv = [x \in HopThreads |-> 0]
  /\ chan = <<>>
  /\ status = [t \in Targets |-> "starting"]
  /\ rows = [t \in Targets |-> NoHops]
  /\ samples = [x \in HopThreads |-> 0]

StatusEvent(t, m) == [k |-> "status", t |-> t, m |-> m]
HopsEvent(t, hops) == [k |-> "hops", t |-> t, hops |-> hops]

\* build_hop_infos: the list ends with the first hop that is the destination,
\* or with the destination put after the last hop.
BuildHopInfos(hops) ==
  LET reached == {h \in HopNumbers : hops[h] = "dest"}
      end == CHOOSE h \in HopNumbers :
               IF reached # {}
               THEN h \in reached /\ \A g \in reached : h <= g
               ELSE /\ \A g \in Listed(hops) : g < h
                    /\ h = 1 \/ h - 1 \in Listed(hops)
  IN  [h \in HopNumbers |->
         IF h < end THEN hops[h] ELSE IF h = end THEN "dest" ELSE "absent"]

TargetLive(t) == pc[t] \notin {"none", "done"}
HopLive(x) == hopPC[x] \notin {"none", "done"}
\* TraceSession::is_running looks at the target workers only.
IsRunning == held /\ \E t \in Targets : TargetLive(t)

-----------------------------------------------------------------------------
(* The UI thread.                                                          *)

\* start(): without error the session is handed to the UI; when a log file
\* cannot be created, the workers spawned before it run on unheld.
Start ==
  /\ \A t \in Targets : pc[t] = "none"
  /\ \E T \in (SUBSET Targets) \ {{}}, ok \in BOOLEAN :
       /\ held' = ok
       /\ pc' = [t \in Targets |-> IF t \in T THEN "resolve" ELSE "none"]
       /\ ~ok => T # Targets
  /\ UNCHANGED <<stop, ui, lock, inMap, child, lines, path, hopPC, seq, last,
                 csv, chan, shownVars, missed>>

\* TraceSession::stop, first half: the flag.  The page offers Stop on what
\* is_running said earlier in the frame.
StopClicked ==
  /\ ui = "free" /\ held
  /\ stop' = TRUE /\ ui' = "kill"
  /\ UNCHANGED <<held, lock, inMap, workerVars, chan, shownVars, missed>>

\* Fault: Stop gives up when the child map is locked.
KillAllIfUnlocked ==
  /\ ui = "kill"
  /\ child' = [t \in Targets |->
                 IF lock = "free" /\ t \in inMap
                      /\ child[t] \in {"running", "blocked"}
                 THEN "closing" ELSE child[t]]
  /\ missed' = {}
  /\ ui' = "free"
  /\ UNCHANGED <<held, stop, lock, inMap, pc, lines, path, hopPC, seq, last,
                 csv, chan, shownVars>>

\* Second half: lock the map, kill every child in it.
KillAll ==
  /\ ui = "kill" /\ lock = "free"
  /\ child' = [t \in Targets |->
                 IF t \in inMap /\ child[t] \in {"running", "blocked"}
                 THEN "closing" ELSE child[t]]
  /\ missed' = {}
  /\ ui' = "free"
  /\ UNCHANGED <<held, stop, lock, inMap, pc, lines, path, hopPC, seq, last,
                 csv, chan, shownVars>>

\* ui_trace drops a session that is no longer running.
Drop ==
  /\ ui = "free" /\ held /\ ~IsRunning
  /\ held' = FALSE
  /\ UNCHANGED <<stop, ui, lock, inMap, workerVars, chan, shownVars, missed>>

\* on_trace_event for the oldest event.  A sample whose hop has no row is
\* dropped; a row keeps its counters while its hop keeps its address.
Show ==
  /\ ui = "free" /\ chan # <<>>
  /\ chan' = Tail(chan)
  /\ LET e == Head(chan)
     IN  \/ /\ e.k = "status"
            /\ status' = [status EXCEPT ![e.t] = e.m]
            /\ UNCHANGED <<rows, samples>>
         \/ /\ e.k = "hops"
            /\ rows' = [rows EXCEPT ![e.t] = e.hops]
            /\ samples' = [x \in HopThreads |->
                 IF x[1] = e.t /\ rows[e.t][x[2]] # e.hops[x[2]]
                 THEN 0 ELSE samples[x]]
            /\ UNCHANGED status
         \/ /\ e.k = "sample"
            /\ samples' = [samples EXCEPT ![<<e.t, e.h>>] =
                             IF e.h \in Listed(rows[e.t]) THEN @ + 1 ELSE @]
            /\ UNCHANGED <<status, rows>>
  /\ UNCHANGED <<held, stop, ui, lock, inMap, workerVars, missed>>

-----------------------------------------------------------------------------
(* The target worker.                                                      *)

Goto(t, p) == pc' = [pc EXCEPT ![t] = p]
\* status(m); return
ReturnWith(t, m) == Goto(t, "done") /\ chan' = Append(chan, StatusEvent(t, m))

Resolve(t) ==
  /\ pc[t] = "resolve"
  /\ \/ /\ Goto(t, "spawn")
        /\ chan' = Append(chan, StatusEvent(t, "discovering"))
     \/ ReturnWith(t, "error")
  /\ UNCHANGED <<held, stop, ui, lock, inMap, child, lines, path, hopPC, seq,
                 last, csv, shownVars, missed>>

\* spawn_traceroute
Spawn(t) ==
  /\ pc[t] = "spawn"
  /\ \/ /\ child' = [child EXCEPT ![t] = "running"]
        /\ Goto(t, "register") /\ UNCHANGED chan
     \/ ReturnWith(t, "error") /\ UNCHANGED child
  /\ UNCHANGED <<held, stop, ui, lock, inMap, lines, path, hopPC, seq, last,
                 csv, shownVars, missed>>

\* children.lock().insert(...)
Register(t) ==
  /\ pc[t] = "register" /\ lock = "free"
  /\ inMap' = inMap \cup {t}
  /\ missed' = IF stop /\ ui = "free" THEN missed \cup {t} ELSE missed
  /\ Goto(t, "stdout")
  /\ UNCHANGED <<held, stop, ui, lock, child, lines, path, hopPC, seq, last,
                 csv, chan, shownVars>>

\* A line on stdout that parses as a hop; the first address of a hop counts.
ReadLine(t) ==
  /\ pc[t] = "stdout" /\ lines[t] < MaxLines
  /\ lines' = [lines EXCEPT ![t] = @ + 1]
  /\ \E h \in 1 .. MaxHops, a \in Answers :
       path' = [path EXCEPT ![t] =
                  IF @[h] \in {"absent", "silent"} THEN [@ EXCEPT ![h] = a]
                  ELSE @]
  /\ chan' = Append(chan, HopsEvent(t, BuildHopInfos(path'[t])))
  /\ UNCHANGED <<held, stop, ui, lock, inMap, child, pc, hopPC, seq, last,
                 csv, shownVars, missed>>

\* Fault: a stopped worker returns without waiting for its child.
StdoutEndUnlessStopped(t) ==
  /\ pc[t] = "stdout" /\ child[t] \in {"closing", "exited"}
  /\ \/ stop /\ ReturnWith(t, "stopped")
     \/ ~stop /\ Goto(t, "stderr") /\ UNCHANGED chan
  /\ UNCHANGED <<held, stop, ui, lock, inMap, child, lines, path, hopPC, seq,
                 last, csv, shownVars, missed>>

\* End of stdout: the child has closed it.  Stderr is read only from here.
StdoutEnd(t) ==
  /\ pc[t] = "stdout" /\ child[t] \in {"closing", "exited"}
  /\ Goto(t, "stderr")
  /\ UNCHANGED <<held, stop, ui, lock, inMap, child, lines, path, hopPC, seq,
                 last, csv, chan, shownVars, missed>>

\* Fault: the child is waited for without reading its output to the end.
RemoveUnread(t) ==
  /\ pc[t] \in {"stdout", "stderr"} /\ lock = "free"
  /\ inMap' = inMap \ {t} /\ lock' = t
  /\ Goto(t, "wait")
  /\ UNCHANGED <<held, stop, ui, child, lines, path, hopPC, seq, last, csv,
                 chan, shownVars, missed>>

\* Take the child out of the map; the guard of the lock lives to the end of
\* the `if let`, so the lock is held while waiting for the child.
Remove(t) ==
  /\ pc[t] = "stderr" /\ lock = "free"
  /\ inMap' = inMap \ {t} /\ lock' = t
  /\ Goto(t, "wait")
  /\ UNCHANGED <<held, stop, ui, child, lines, path, hopPC, seq, last, csv,
                 chan, shownVars, missed>>

\* Fault: the guard of the child map lives as long as the worker.
WaitKeepsLock(t) ==
  /\ pc[t] = "wait" /\ child[t] = "exited"
  /\ child' = [child EXCEPT ![t] = "reaped"]
  /\ Goto(t, "decide")
  /\ UNCHANGED <<held, stop, ui, lock, inMap, lines, path, hopPC, seq, last,
                 csv, chan, shownVars, missed>>

Wait(t) ==
  /\ pc[t] = "wait" /\ child[t] = "exited"
  /\ child' = [child EXCEPT ![t] = "reaped"]
  /\ lock' = "free"
  /\ Goto(t, "decide")
  /\ UNCHANGED <<held, stop, ui, inMap, lines, path, hopPC, seq, last, csv,
                 chan, shownVars, missed>>

\* Stopped, or nothing discovered.
Decide(t) ==
  /\ pc[t] = "decide"
  /\ \/ stop /\ ReturnWith(t, "stopped")
     \/ ~stop /\ Listed(path[t]) = {} /\ ReturnWith(t, "nohops")
     \/ ~stop /\ Listed(path[t]) # {} /\ Goto(t, "names") /\ UNCHANGED chan
  /\ UNCHANGED <<held, stop, ui, lock, inMap, child, lines, path, hopPC, seq,
                 last, csv, shownVars, missed>>

\* Fault: the threads are spawned before the final list is sent, from the
\* list with the destination; the list sent is the one printed.
MonitorPrinted(t) ==
  /\ pc[t] = "names"
  /\ chan' = Append(Append(chan, HopsEvent(t, path[t])),
                    StatusEvent(t, "monitoring"))
  /\ hopPC' = [x \in HopThreads |->
       IF x[1] = t /\ x[2] \in Answering(BuildHopInfos(path[t]))
       THEN "loop" ELSE hopPC[x]]
  /\ Goto(t, "join")
  /\ UNCHANGED <<held, stop, ui, lock, inMap, child, lines, path, seq, last,
                 csv, shownVars, missed>>

\* The name lookups are over, or Stop cut them short: the final hop list is
\* sent, then one thread is spawned per answering hop, stopped or not.
Monitor(t) ==
  /\ pc[t] = "names"
  /\ LET infos == BuildHopInfos(path[t])
     IN  /\ chan' = Append(Append(chan, HopsEvent(t, infos)),
                           StatusEvent(t, "monitoring"))
         /\ hopPC' = [x \in HopThreads |->
              IF x[1] = t /\ x[2] \in Answering(infos)
              THEN "loop" ELSE hopPC[x]]
  /\ Goto(t, "join")
  /\ UNCHANGED <<held, stop, ui, lock, inMap, child, lines, path, seq, last,
                 csv, shownVars, missed>>

\* Fault: the target worker does not wait for the hop threads.
JoinNothing(t) ==
  /\ pc[t] = "join" /\ stop
  /\ ReturnWith(t, "stopped")
  /\ UNCHANGED <<held, stop, ui, lock, inMap, child, lines, path, hopPC, seq,
                 last, csv, shownVars, missed>>

\* Fault: the end of the monitoring is not announced.
JoinSilently(t) ==
  /\ pc[t] = "join"
  /\ \A h \in HopNumbers : ~HopLive(<<t, h>>)
  /\ Goto(t, "done")
  /\ UNCHANGED <<held, stop, ui, lock, inMap, child, lines, path, hopPC, seq,
                 last, csv, chan, shownVars, missed>>

Join(t) ==
  /\ pc[t] = "join"
  /\ \A h \in HopNumbers : ~HopLive(<<t, h>>)
  /\ ReturnWith(t, "stopped")
  /\ UNCHANGED <<held, stop, ui, lock, inMap, child, lines, path, hopPC, seq,
                 last, csv, shownVars, missed>>

TargetWorker(t) ==
  \/ Resolve(t) \/ Spawn(t) \/ Register(t) \/ ReadLine(t) \/ StdoutEnd(t)
  \/ Remove(t) \/ Wait(t) \/ Decide(t) \/ Monitor(t) \/ Join(t)

-----------------------------------------------------------------------------
(* A hop thread: probe_loop with the hop_worker closure.                   *)

hopFrame == <<held, stop, ui, lock, inMap, child, pc, lines, path,
              shownVars, missed>>

\* Fault: the probe loop does not test the stop flag.
NextProbeUnstoppable(x) ==
  /\ hopPC[x] = "loop" /\ last[x] = "ok" /\ seq[x] < MaxProbes
  /\ hopPC' = [hopPC EXCEPT ![x] = "ping"]
  /\ seq' = [seq EXCEPT ![x] = @ + 1]
  /\ UNCHANGED <<hopFrame, last, csv, chan>>

NextProbe(x) ==
  /\ hopPC[x] = "loop" /\ ~stop /\ last[x] = "ok" /\ seq[x] < MaxProbes
  /\ hopPC' = [hopPC EXCEPT ![x] = "ping"]
  /\ seq' = [seq EXCEPT ![x] = @ + 1]
  /\ UNCHANGED <<hopFrame, last, csv, chan>>

\* The probe ends; its line goes to the shared log, under the log's mutex.
Ping(x) ==
  /\ hopPC[x] = "ping"
  /\ \E r \in {"ok", "fatal"} : last' = [last EXCEPT ![x] = r]
  /\ csv' = [csv EXCEPT ![x] = @ + 1]
  /\ hopPC' = [hopPC EXCEPT ![x] = "send"]
  /\ UNCHANGED <<hopFrame, seq, chan>>

Send(x) ==
  /\ hopPC[x] = "send"
  /\ chan' = Append(chan, [k |-> "sample", t |-> x[1], h |-> x[2]])
  /\ hopPC' = [hopPC EXCEPT ![x] = "loop"]
  /\ UNCHANGED <<hopFrame, seq, last, csv>>

Finish(x) ==
  /\ hopPC[x] = "loop" /\ (stop \/ last[x] = "fatal")
  /\ hopPC' = [hopPC EXCEPT ![x] = "done"]
  /\ UNCHANGED <<hopFrame, seq, last, csv, chan>>

HopWorker(x) == NextProbe(x) \/ Ping(x) \/ Send(x) \/ Finish(x)

-----------------------------------------------------------------------------
(* The child process (external).                                           *)

childFrame == <<held, stop, ui, lock, inMap, pc, lines, path, hopPC, seq,
                last, csv, chan, shownVars, missed>>

\* It ends by itself and its pipes close, or it writes more to stderr than
\* the pipe holds and blocks.
ChildEnds(t) ==
  /\ child[t] = "running"
  /\ child' = [child EXCEPT ![t] = "closing"]
  /\ UNCHANGED childFrame

ChildBlocks(t) ==
  /\ ~StderrFits /\ child[t] = "running"
  /\ child' = [child EXCEPT ![t] = "blocked"]
  /\ UNCHANGED childFrame

ChildExits(t) ==
  /\ child[t] = "closing"
  /\ child' = [child EXCEPT ![t] = "exited"]
  /\ UNCHANGED childFrame

Child(t) == ChildEnds(t) \/ ChildBlocks(t) \/ ChildExits(t)

-----------------------------------------------------------------------------
Next ==
  \/ Start \/ StopClicked \/ KillAll \/ Drop \/ Show
  \/ \E t \in Targets : TargetWorker(t) \/ Child(t)
  \/ \E x \in HopThreads : HopWorker(x)

Spec == Init /\ [][Next]_vars

\* Threads run, Stop gets the lock when it stays free, traceroute ends.
Fairness ==
  /\ WF_vars(KillAll)
  /\ \A t \in Targets : WF_vars(TargetWorker(t)) /\ WF_vars(Child(t))
  /\ \A x \in HopThreads : WF_vars(HopWorker(x))

FairSpec == Spec /\ Fairness

-----------------------------------------------------------------------------
(* Properties.                                                             *)

\* The type invariant; the lock is held only across the wait for a child.
TypeOK ==
  /\ held \in BOOLEAN /\ stop \in BOOLEAN /\ ui \in {"free", "kill"}
  /\ lock \in Targets \cup {"free"}
  /\ \A t \in Targets : lock = t <=> pc[t] = "wait"
  /\ inMap \in SUBSET Targets /\ missed \in SUBSET Targets
  /\ child \in [Targets -> ChildStates]
  /\ pc \in [Targets -> TargetPCs]
  /\ lines \in [Targets -> Nat] /\ path \in [Targets -> HopLists]
  /\ hopPC \in [HopThreads -> HopPCs]
  /\ seq \in [HopThreads -> Nat] /\ csv \in [HopThreads -> Nat]
  /\ last \in [HopThreads -> {"ok", "fatal"}]
  /\ chan \in Seq(Events)
  /\ status \in [Targets -> Messages \cup {"starting"}]
  /\ rows \in [Targets -> HopLists]
  /\ samples \in [HopThreads -> Nat]

\* Stop leaves no traceroute of the session running, except one whose worker
\* put it in the child map only after Stop had gone through the map
\* (TraceSession::stop against target_worker's spawn and insert).
StopKillsChildren ==
  stop /\ ui = "free" =>
    \A t \in Targets : child[t] \in {"running", "blocked"} =>
      t \in missed \/ pc[t] \in {"register", "none"}

\* A target worker ends only after its child was waited for, and no child
\* still in the map was: what Stop kills is never a process long gone.
ChildrenReaped ==
  \A t \in Targets :
    /\ pc[t] = "done" => child[t] \in {"none", "reaped"}
    /\ t \in inMap => child[t] \notin {"none", "reaped"}

\* Each probe in the mtr log is counted in its hop's row exactly once: it has
\* been counted, is on its way, or is about to be sent.  In particular no
\* sample arrives before the row of its hop (target_worker sends the hop list
\* before it spawns the threads; on_trace_event keeps the rows' counters).
InFlight(x) ==
  Cardinality({i \in 1 .. Len(chan) :
                 chan[i].k = "sample" /\ <<chan[i].t, chan[i].h>> = x})
NoSampleLost ==
  \A x \in HopThreads :
    csv[x] = samples[x] + InFlight(x) + (IF hopPC[x] = "send" THEN 1 ELSE 0)

\* A final status is the last thing a target reports, and every target worker
\* that ended reported one: the page never says "stopped" and then moves on,
\* nor "monitoring" for ever.
IsFinal(e) == e.k = "status" /\ e.m \in FinalMessages
FinalStatusIsLast ==
  /\ \A i, j \in 1 .. Len(chan) :
       IsFinal(chan[i]) /\ chan[j].t = chan[i].t => j <= i
  /\ \A i \in 1 .. Len(chan) : status[chan[i].t] \notin FinalMessages
  /\ \A t \in Targets : pc[t] = "done" =>
       \/ status[t] \in FinalMessages
       \/ \E i \in 1 .. Len(chan) : chan[i].t = t /\ IsFinal(chan[i])

\* The session implements the abstract one with the hop threads as members:
\* it is dropped only when no hop thread is left (is_running looks only at
\* the target workers), and Stop leaves each at most one report.
Phase == IF ~held THEN "idle" ELSE IF stop THEN "stopping" ELSE "running"
Live == {x \in HopThreads :
           held /\ (HopLive(x) \/ (TargetLive(x[1]) /\ hopPC[x] = "none"))}
Owed == {x \in HopThreads : held /\ stop /\ hopPC[x] = "ping"}
Reported == [x \in HopThreads |-> IF held THEN csv[x] ELSE 0]

Promise == INSTANCE Session WITH
  Members <- HopThreads, phase <- Phase, live <- Live, owed <- Owed,
  reports <- Reported
ImplementsSession == Promise!Spec

\* Pressing Stop never freezes the window for good: the lock of the child map
\* is given back (TraceSession::stop, the wait under the lock).
StopReturns == ui = "kill" ~> ui = "free"

\* After Stop every thread of the session ends, even when a child is stuck on
\* its stderr, unless that child was put in the map too late to be killed.
StopEndsThreads ==
  stop ~> \/ missed # {}
          \/ \A t \in Targets : ~TargetLive(t)
=============================================================================
