------------------------ MODULE PingSession_proofs ------------------------
(* Theorems about PingSession, for any targets and any bounds.             *)
EXTENDS PingSession, SequenceTheorems, FiniteSetTheorems, TLAPS

USE PingAssumption

-----------------------------------------------------------------------------
(* Type correctness.                                                       *)

\* A row with one more report counted is a row.
LEMMA CountedType ==
  ASSUME NEW row \in Rows, NEW e \in Reports
  PROVE  Counted(row, e) \in Rows
BY DEF Counted, Rows, Reports

\* The capped panel holds reports only.
LEMMA PushCappedType ==
  ASSUME NEW lines \in Seq(Reports), NEW e \in Reports
  PROVE  PushCapped(lines, e) \in Seq(Reports)
<1>1. Append(lines, e) \in Seq(Reports)
  OBVIOUS
<1>2. Append(lines, e) # <<>>
  OBVIOUS
<1>3. Tail(Append(lines, e)) \in Seq(Reports)
  BY <1>1, <1>2
<1> QED
  BY <1>1, <1>3 DEF PushCapped

\* The initial state has the types.
LEMMA InitType == Init => TypeOK
<1> SUFFICES ASSUME Init PROVE TypeOK
  OBVIOUS
<1>1. Unborn \in WorkerStates /\ NoRow \in Rows
  BY DEF Unborn, WorkerStates, WorkerPCs, NoRow, Rows
<1>2. rows \in [Targets -> Rows] /\ wk \in [Workers -> WorkerStates]
  BY <1>1 DEF Init
<1>3. written \in [Workers -> Nat] /\ stop \in [Sessions -> BOOLEAN]
  BY DEF Init
<1>4. panel \in Seq(Reports) /\ chan \in Seq(Reports)
  BY DEF Init
<1>5. /\ nsess \in 0 .. MaxSessions /\ (ui = "start" => nsess > 0)
      /\ session \in 0 .. nsess
  BY DEF Init
<1> QED
  BY <1>2, <1>3, <1>4, <1>5 DEF Init, TypeOK, UIStates

\* Changing the fields of a worker keeps it a worker.
LEMMA WorkerStateType ==
  ASSUME NEW r \in WorkerStates, NEW p \in WorkerPCs, NEW o \in Outcomes
  PROVE  /\ [r EXCEPT !.pc = p] \in WorkerStates
         /\ [r EXCEPT !.pc = p, !.st = o] \in WorkerStates
         /\ [r EXCEPT !.pc = p, !.seq = r.seq + 1] \in WorkerStates
<1>1. /\ [r EXCEPT !.pc = p] \in WorkerStates
      /\ [r EXCEPT !.pc = p, !.st = o] \in WorkerStates
  BY DEF WorkerStates
<1>2. ASSUME NEW n \in Nat
      PROVE  [r EXCEPT !.pc = p, !.seq = n] \in WorkerStates
  BY DEF WorkerStates
<1>3. r.seq + 1 \in Nat
  BY DEF WorkerStates
<1> QED
  BY <1>1, <1>2, <1>3

\* A worker's step keeps the types.
LEMMA WorkerType ==
  ASSUME TypeOK, NEW w \in Workers, Worker(w)
  PROVE  TypeOK'
<1> USE DEF TypeOK
<1>1. wk' \in [Workers -> WorkerStates]
  <2> DEFINE r == wk[w]
  <2>1. r \in WorkerStates
    OBVIOUS
  <2>2. \A p \in WorkerPCs : [r EXCEPT !.pc = p] \in WorkerStates
    BY <2>1, WorkerStateType
  <2>3. \A p \in WorkerPCs, o \in Outcomes :
          [r EXCEPT !.pc = p, !.st = o] \in WorkerStates
    BY <2>1, WorkerStateType
  <2>4. [r EXCEPT !.pc = "ping", !.seq = r.seq + 1] \in WorkerStates
    BY <2>1, WorkerStateType DEF WorkerPCs
  <2>5. CASE Send(w) \/ Finish(w)
    BY <2>5, <2>2 DEF Send, Finish, WorkerPCs
  <2>6. CASE Resolve(w)
    <3>1. [r EXCEPT !.pc = "loop"] \in WorkerStates
      BY <2>2 DEF WorkerPCs
    <3>2. [r EXCEPT !.pc = "send", !.st = "error"] \in WorkerStates
      BY <2>3 DEF WorkerPCs
    <3> QED
      BY <2>6, <3>1, <3>2 DEF Resolve
  <2>7. CASE NextProbe(w)
    <3> DEFINE q == [r EXCEPT !.pc = "ping", !.seq = r.seq + 1]
    <3>1. wk' = [wk EXCEPT ![w] = q]
      BY <2>7 DEF NextProbe
    <3>2. q \in WorkerStates
      BY <2>4
    <3> HIDE DEF q
    <3> QED
      BY <3>1, <3>2
  <2>8. CASE Ping(w)
    <3>1. \A o \in Outcomes : [r EXCEPT !.pc = "send", !.st = o] \in WorkerStates
      BY <2>3 DEF WorkerPCs
    <3> QED
      BY <2>8, <3>1 DEF Ping
  <2> QED
    BY <2>5, <2>6, <2>7, <2>8 DEF Worker
<1>2. written' \in [Workers -> Nat]
  <2>1. written[w] + 1 \in Nat
    OBVIOUS
  <2> QED
    BY <2>1 DEF Worker, Resolve, NextProbe, Ping, Send, Finish
<1>3. chan' \in Seq(Reports)
  <2>1. CASE Send(w)
    <3>1. [w |-> w, seq |-> wk[w].seq, st |-> wk[w].st] \in Reports
      BY DEF Reports, WorkerStates
    <3> QED
      BY <2>1, <3>1 DEF Send
  <2>2. CASE ~Send(w)
    BY <2>2 DEF Worker, Resolve, NextProbe, Ping, Finish
  <2> QED
    BY <2>1, <2>2
<1>4. UNCHANGED <<uiVars, stop>>
  BY DEF Worker, Resolve, NextProbe, Ping, Send, Finish
<1> QED
  BY <1>1, <1>2, <1>3, <1>4 DEF uiVars

\* So does a step of the UI thread.
LEMMA UIType ==
  ASSUME TypeOK, UIStep \/ UserStep
  PROVE  TypeOK'
<1> USE DEF TypeOK, UIStates, workerVars
<1>1. CASE RepaintFrame \/ InputFrame
  BY <1>1 DEF RepaintFrame, InputFrame
<1>2. CASE DrainOne
  <2> DEFINE e == Head(chan)
  <2>1. e \in Reports /\ Tail(chan) \in Seq(Reports)
    BY <1>2 DEF DrainOne
  <2>2. e.w[2] \in Targets
    BY <2>1 DEF Reports, Workers
  <2>3. rows' \in [Targets -> Rows]
    BY <1>2, <2>1, <2>2, CountedType DEF DrainOne
  <2>4. panel' \in Seq(Reports)
    BY <1>2, <2>1, PushCappedType DEF DrainOne
  <2> QED
    BY <1>2, <2>1, <2>3, <2>4 DEF DrainOne
<1>3. CASE DrainEnd \/ OtherPage \/ NoClick
  BY <1>3 DEF DrainEnd, OtherPage, NoClick
<1>4. CASE Poll
  BY <1>4 DEF Poll, IsRunning
<1>5. CASE EndFrame
  BY <1>5 DEF EndFrame, IsRunning
<1>6. CASE SpawnNext
  <2>1. PICK t \in todo :
          /\ todo' = todo \ {t}
          /\ wk' = [wk EXCEPT ![<<nsess, t>>] = [@ EXCEPT !.pc = "resolve"]]
    BY <1>6 DEF SpawnNext
  <2>2. <<nsess, t>> \in Workers
    BY <1>6, <2>1 DEF Workers, Sessions, SpawnNext
  <2>3. wk' \in [Workers -> WorkerStates]
    BY <2>1, <2>2, WorkerStateType DEF WorkerPCs
  <2> QED
    BY <1>6, <2>1, <2>3 DEF SpawnNext
<1>7. CASE StartFails \/ StartReturns
  <2>1. nsess \in Sessions
    BY <1>7 DEF StartFails, StartReturns, Sessions
  <2>2. CASE StartFails
    BY <2>1, <2>2 DEF StartFails
  <2>3. CASE StartReturns
    BY <2>1, <2>3 DEF StartReturns
  <2> QED
    BY <1>7, <2>2, <2>3
<1>8. CASE StopClicked
  BY <1>8 DEF StopClicked
<1>9. CASE StartRefused \/ StartClicked \/ ClearClicked \/ LogClearClicked
  <2>1. FreshRow \in Rows /\ NoRow \in Rows
    BY DEF FreshRow, NoRow, Rows
  <2>2. rows' \in [Targets -> Rows]
    <3>1. ASSUME NEW T, ResetResults(T) PROVE rows' \in [Targets -> Rows]
      BY <3>1, <2>1 DEF ResetResults
    <3>2. CASE ClearClicked
      BY <3>2, <2>1 DEF ClearClicked
    <3>3. CASE LogClearClicked
      BY <3>3 DEF LogClearClicked
    <3> QED
      BY <1>9, <3>1, <3>2, <3>3 DEF StartRefused, StartClicked
  <2>3. panel' = <<>> /\ logCleared' \in BOOLEAN
    BY <1>9 DEF StartRefused, StartClicked, ClearClicked, LogClearClicked,
       ResetResults
  <2>4. panel' \in Seq(Reports)
    BY <2>3
  <2> QED
    BY <1>9, <2>2, <2>3, <2>4 DEF StartRefused, StartClicked, ClearClicked, LogClearClicked, ResetResults
<1> QED
  BY <1>1, <1>2, <1>3, <1>4, <1>5, <1>6, <1>7, <1>8, <1>9
     DEF UIStep, UserStep

\* Every variable keeps its type: rows, panel and channel hold reports of
\* existing workers, and ping_session never names a session not yet begun.
THEOREM TypeCorrect == Spec => []TypeOK
<1>1. Init => TypeOK
  BY InitType
<1>2. TypeOK /\ [Next]_vars => TypeOK'
  <2> SUFFICES ASSUME TypeOK, [Next]_vars PROVE TypeOK'
    OBVIOUS
  <2>1. CASE UNCHANGED vars
    BY <2>1 DEF TypeOK, vars
  <2>2. CASE Next
    BY <2>2, WorkerType, UIType DEF Next
  <2> QED
    BY <2>1, <2>2
<1> QED
  BY <1>1, <1>2, PTL DEF Spec

-----------------------------------------------------------------------------
(* Who owns the running threads.                                           *)

\* A worker's step never brings a thread to life, and changes nothing that
\* the UI thread reads or writes other than that.
LEMMA WorkerFacts ==
  ASSUME TypeOK, NEW w \in Workers, Worker(w)
  PROVE  /\ \A v \in Workers : Live(v)' => Live(v)
         /\ \A v \in Workers : v # w => wk'[v] = wk[v]
         /\ wk[w].pc # "none" /\ wk'[w].pc # "none"
         /\ UNCHANGED <<ui, input, repaint, running, session, nsess, todo,
                        aborted, stop>>
<1> USE DEF TypeOK
<1>1. /\ UNCHANGED <<uiVars, stop>>
      /\ \A v \in Workers : v # w => wk'[v] = wk[v]
  BY DEF Worker, Resolve, NextProbe, Ping, Send, Finish
<1>2. Live(w) /\ wk[w].pc # "none" /\ wk'[w].pc # "none"
  <2>1. CASE Resolve(w)
    BY <2>1 DEF Resolve, Live, WorkerStates
  <2>2. CASE NextProbe(w) \/ Ping(w)
    BY <2>2 DEF NextProbe, Ping, Live, WorkerStates
  <2>3. CASE Send(w) \/ Finish(w)
    BY <2>3 DEF Send, Finish, Live, WorkerStates
  <2> QED
    BY <2>1, <2>2, <2>3 DEF Worker
<1> QED
  BY <1>1, <1>2 DEF Live, uiVars

\* No thread exists yet.
LEMMA InitSession == Init => SessionInv
BY DEF Init, SessionInv, OnlyFailedStartsOrphan, RepaintWhileRunning,
       IsRunning, Live, Unborn

\* Nothing in the invariant depends on a thread staying alive.
LEMMA WorkerKeepsSession ==
  ASSUME TypeOK, SessionInv, NEW w \in Workers, Worker(w)
  PROVE  SessionInv'
<1>1. IsRunning' => IsRunning
  <2>1. session' = session /\ \A v \in Workers : Live(v)' => Live(v)
    BY WorkerFacts
  <2>2. session # 0 => WorkersOf(session) \subseteq Workers
    BY DEF WorkersOf, Workers, TypeOK, Sessions
  <2> QED
    BY <2>1, <2>2 DEF IsRunning, SessionLive, WorkersOf
<1> QED
  BY <1>1, WorkerFacts
     DEF SessionInv, OnlyFailedStartsOrphan, RepaintWhileRunning

\* The UI thread's steps other than spawning: no thread is born, ping_session
\* changes only where no thread depends on it.
LEMMA UIKeepsSession ==
  ASSUME TypeOK, TypeOK', SessionInv, UIStep \/ UserStep
  PROVE  SessionInv'
<1> USE DEF SessionInv, OnlyFailedStartsOrphan, RepaintWhileRunning,
            workerVars, Live
<1>1. CASE RepaintFrame \/ InputFrame
  BY <1>1 DEF RepaintFrame, InputFrame
<1>2. CASE DrainOne \/ DrainEnd \/ OtherPage \/ NoClick
  BY <1>2 DEF DrainOne, DrainEnd, OtherPage, NoClick
<1>3. CASE Poll
  <2>1. ASSUME NEW w \in Workers, Live(w), w[1] = session
        PROVE  IsRunning
    BY <2>1 DEF IsRunning, SessionLive, WorkersOf, Workers, Sessions
  <2>2. IsRunning => session # 0
    BY DEF IsRunning
  <2> QED
    BY <1>3, <2>1, <2>2 DEF Poll
<1>4. CASE EndFrame
  <2>1. IsRunning' = IsRunning
    BY <1>4 DEF EndFrame, IsRunning, SessionLive
  <2> QED
    BY <1>4, <2>1 DEF EndFrame
<1>5. CASE StopClicked
  <2>1. session \in Sessions /\ session <= nsess
    BY <1>5 DEF StopClicked, Click, TypeOK, Sessions
  <2>2. \A s \in Sessions : stop'[s] => s = session \/ stop[s]
    BY <1>5 DEF StopClicked, TypeOK
  <2>3. ui = "tab" /\ ui' = "end"
    BY <1>5 DEF StopClicked, Click
  <2> QED
    BY <1>5, <2>1, <2>2, <2>3 DEF StopClicked
<1>6. CASE StartRefused \/ ClearClicked \/ LogClearClicked
  <2>1. ui = "tab" /\ ui' = "end"
    BY <1>6 DEF StartRefused, ClearClicked, LogClearClicked, Click
  <2>2. UNCHANGED <<running, session, nsess, aborted, stop, wk>>
    BY <1>6 DEF StartRefused, ClearClicked, LogClearClicked
  <2> QED
    BY <2>1, <2>2
<1>7. CASE StartClicked
  BY <1>7 DEF StartClicked, Click, TypeOK, Sessions, Workers
<1>8. CASE SpawnNext
  <2>1. PICK t \in todo :
          wk' = [wk EXCEPT ![<<nsess, t>>] = [@ EXCEPT !.pc = "resolve"]]
    BY <1>8 DEF SpawnNext
  <2>2. \A w \in Workers : w # <<nsess, t>> => wk'[w] = wk[w]
    BY <2>1 DEF TypeOK
  <2> QED
    BY <1>8, <2>2 DEF SpawnNext, TypeOK
<1>9. CASE StartFails
  BY <1>9 DEF StartFails
<1>10. CASE StartReturns
  <2>1. session' = nsess /\ nsess # 0 /\ ui' = "end"
    BY <1>10 DEF StartReturns, TypeOK, Sessions
  <2>2. \A w \in Workers : w[1] # 0
    BY DEF Workers, Sessions
  <2> QED
    BY <1>10, <2>1, <2>2 DEF StartReturns
<1> QED
  BY <1>1, <1>2, <1>3, <1>4, <1>5, <1>6, <1>7, <1>8, <1>9, <1>10
     DEF UIStep, UserStep

\* In every reachable state: ping_session is None when a session is started
\* or the page offers Start, and no thread, stop flag or missing repaint is
\* out of step with it.
THEOREM SessionInvariant == Spec => []SessionInv
<1>1. Init => SessionInv
  BY InitSession
<1>2. TypeOK /\ TypeOK' /\ SessionInv /\ [Next]_vars => SessionInv'
  <2> SUFFICES ASSUME TypeOK, TypeOK', SessionInv, [Next]_vars
               PROVE  SessionInv'
    OBVIOUS
  <2>1. CASE UNCHANGED vars
    BY <2>1 DEF SessionInv, OnlyFailedStartsOrphan, RepaintWhileRunning,
                IsRunning, SessionLive, Live, vars
  <2>2. CASE Next
    BY <2>2, WorkerKeepsSession, UIKeepsSession DEF Next
  <2> QED
    BY <2>1, <2>2
<1> QED
  BY <1>1, <1>2, TypeCorrect, PTL DEF Spec

\* The only threads out of the user's reach are those of a start() that
\* failed half-way: every other live worker belongs to the session in
\* ping_session or to the one being started.
THEOREM ThreadsAreOwned == Spec => []OnlyFailedStartsOrphan
<1>1. SessionInv => OnlyFailedStartsOrphan
  BY DEF SessionInv
<1> QED
  BY <1>1, SessionInvariant, PTL

\* Between two frames, a running session always has the next one requested.
THEOREM FramesKeepComing == Spec => []RepaintWhileRunning
<1>1. SessionInv => RepaintWhileRunning
  BY DEF SessionInv
<1> QED
  BY <1>1, SessionInvariant, PTL

-----------------------------------------------------------------------------
(* PingSession implements Session.                                         *)

\* No session, no members, no reports.
LEMMA InitRefines == Init => Promise!Init
BY DEF Init, Promise!Init, Promise!NoReports, Phase, LiveMembers, Owed,
       Reported

\* A step that leaves the threads and the session alone, or that happens
\* while there is no session, is invisible in the abstract session.
LEMMA Invisible ==
  ASSUME \/ UNCHANGED <<session, stop, wk, written>>
         \/ session = 0 /\ session' = 0
  PROVE  UNCHANGED <<Phase, LiveMembers, Owed, Reported>>
BY DEF Phase, LiveMembers, Owed, Reported, Live

\* What the worker of target t in the session can change of the abstract one.
LEMMA MemberStep ==
  ASSUME TypeOK, NEW w \in Workers, Worker(w)
  PROVE  \/ UNCHANGED <<Phase, LiveMembers, Owed, Reported>>
         \/ \E t \in Targets :
              Promise!Report(t) \/ Promise!Decline(t) \/ Promise!Exit({t})
<1> PICK s \in Sessions, t \in Targets : w = <<s, t>>
  BY DEF Workers
<1> USE DEF TypeOK
<1>1. UNCHANGED <<session, stop>> /\ UNCHANGED Phase
  BY WorkerFacts DEF Phase
<1>2. \A v \in Workers : v # w => wk'[v] = wk[v] /\ written'[v] = written[v]
  BY DEF Worker, Resolve, NextProbe, Ping, Send, Finish
<1>3. CASE s # session
  <2>1. \A u \in Targets : session # 0 =>
          <<session, u>> \in Workers /\ <<session, u>> # w
    BY <1>3 DEF Workers, Sessions
  <2> QED
    BY <1>1, <1>2, <2>1 DEF LiveMembers, Owed, Reported, Live
<1>4. CASE s = session
  <2>0. session # 0 /\ w = <<session, t>> /\ w[1] = session
    BY <1>4 DEF Sessions
  <2>1. \A u \in Targets : u # t =>
          /\ <<session, u>> \in Workers /\ <<session, u>> # w
          /\ wk'[<<session, u>>] = wk[<<session, u>>]
          /\ written'[<<session, u>>] = written[<<session, u>>]
    BY <1>2, <2>0, <1>4 DEF Workers
  <2>2. \A u \in Targets : u # t =>
          /\ u \in LiveMembers' <=> u \in LiveMembers
          /\ u \in Owed' <=> u \in Owed
          /\ Reported'[u] = Reported[u]
    BY <1>1, <2>1 DEF LiveMembers, Owed, Reported, Live
  <2>3. /\ t \in LiveMembers <=> wk[w].pc \notin {"none", "done"}
        /\ t \in LiveMembers' <=> wk'[w].pc \notin {"none", "done"}
        /\ t \in Owed <=> stop[session] /\ wk[w].pc \in {"resolve", "ping"}
        /\ t \in Owed' <=> stop[session] /\ wk'[w].pc \in {"resolve", "ping"}
        /\ Reported[t] = written[w] /\ Reported'[t] = written'[w]
    BY <1>1, <2>0 DEF LiveMembers, Owed, Reported, Live
  <2>4. /\ Phase = IF stop[session] THEN "stopping" ELSE "running"
        /\ LiveMembers \subseteq Targets /\ LiveMembers' \subseteq Targets
        /\ Owed \subseteq Targets /\ Owed' \subseteq Targets
        /\ Reported \in [Targets -> Nat]
        /\ Reported = [u \in Targets |-> Reported[u]]
        /\ Reported' = [u \in Targets |-> Reported'[u]]
    BY <1>1, <2>0, <1>4 DEF Phase, LiveMembers, Owed, Reported, Workers
  <2>a. ASSUME t \in LiveMembers <=> t \in LiveMembers'
        PROVE  LiveMembers' = LiveMembers
    <3>1. ASSUME NEW u PROVE u \in LiveMembers' <=> u \in LiveMembers
      <4>1. CASE u \in Targets /\ u # t
        BY <4>1, <2>2
      <4>2. CASE u = t
        BY <4>2, <2>a
      <4>3. CASE u \notin Targets
        BY <4>3, <2>4
      <4> QED
        BY <4>1, <4>2, <4>3
    <3> QED
      BY <3>1
  <2>b. ASSUME t \in Owed <=> t \in Owed'
        PROVE  Owed' = Owed
    <3>1. ASSUME NEW u PROVE u \in Owed' <=> u \in Owed
      <4>1. CASE u \in Targets /\ u # t
        BY <4>1, <2>2
      <4>2. CASE u = t
        BY <4>2, <2>b
      <4>3. CASE u \notin Targets
        BY <4>3, <2>4
      <4> QED
        BY <4>1, <4>2, <4>3
    <3> QED
      BY <3>1
  <2> DEFINE Logs == wk'[w].pc = "send" /\ written'[w] = written[w] + 1
             Quiet == written'[w] = written[w]
  <2>5. CASE Quiet /\ wk'[w].pc # "done"
             /\ (t \in LiveMembers <=> t \in LiveMembers')
             /\ (t \in Owed <=> t \in Owed')
    <3>1. LiveMembers' = LiveMembers /\ Owed' = Owed
      BY <2>a, <2>b, <2>5
    <3>2. Reported' = Reported
      BY <2>2, <2>3, <2>4, <2>5
    <3> QED
      BY <1>1, <3>1, <3>2
  <2>6. CASE Logs /\ wk[w].pc \in {"resolve", "ping"}
    <3>1. LiveMembers' = LiveMembers /\ t \in LiveMembers
      BY <2>a, <2>3, <2>6
    <3>2. Reported' = [Reported EXCEPT ![t] = @ + 1]
      BY <2>2, <2>3, <2>4, <2>6
    <3>3. IF stop[session] THEN t \in Owed /\ Owed' = Owed \ {t}
          ELSE Owed' = Owed
      BY <2>b, <2>2, <2>3, <2>4, <2>6
    <3> QED
      BY <1>1, <2>4, <3>1, <3>2, <3>3 DEF Promise!Report
  <2>7. CASE Quiet /\ wk[w].pc = "resolve" /\ wk'[w].pc = "loop"
             /\ stop[session]
    <3>1. LiveMembers' = LiveMembers
      BY <2>a, <2>3, <2>7
    <3>2. Reported' = Reported
      BY <2>2, <2>3, <2>4, <2>7
    <3>3. t \in Owed /\ Owed' = Owed \ {t}
      BY <2>2, <2>3, <2>4, <2>7
    <3> QED
      BY <1>1, <3>1, <3>2, <3>3 DEF Promise!Decline
  <2>8. CASE Quiet /\ wk[w].pc = "loop" /\ wk'[w].pc = "done"
    <3>1. t \in LiveMembers /\ LiveMembers' = LiveMembers \ {t}
      BY <2>2, <2>3, <2>4, <2>8
    <3>2. Reported' = Reported
      BY <2>2, <2>3, <2>4, <2>8
    <3>3. Owed' = Owed \ {t}
      BY <2>2, <2>3, <2>4, <2>8
    <3> QED
      BY <1>1, <3>1, <3>2, <3>3 DEF Promise!Exit
  <2>9. CASE Resolve(w)
    <3>1. \/ Quiet /\ wk[w].pc = "resolve" /\ wk'[w].pc = "loop"
          \/ Logs /\ wk[w].pc = "resolve"
      <4>1. wk[w].pc = "resolve" /\ wk[w] \in WorkerStates /\ written[w] \in Nat
        BY <2>9 DEF Resolve
      <4>2. CASE wk' = [wk EXCEPT ![w] = [@ EXCEPT !.pc = "loop"]] /\ UNCHANGED written
        BY <4>1, <4>2 DEF WorkerStates
      <4>3. CASE /\ wk' = [wk EXCEPT ![w] = [@ EXCEPT !.pc = "send", !.st = "error"]]
                 /\ written' = [written EXCEPT ![w] = @ + 1]
        BY <4>1, <4>3 DEF WorkerStates
      <4> QED
        BY <2>9, <4>2, <4>3 DEF Resolve
    <3> QED
      BY <3>1, <2>3, <2>5, <2>6, <2>7
  <2>10. CASE NextProbe(w)
    <3>1. /\ Quiet /\ wk[w].pc = "loop" /\ wk'[w].pc = "ping"
          /\ ~stop[session]
      BY <2>10, <2>0 DEF NextProbe, WorkerStates
    <3> QED
      BY <3>1, <2>3, <2>5
  <2>11. CASE Ping(w)
    <3>1. Logs /\ wk[w].pc = "ping"
      BY <2>11 DEF Ping, WorkerStates
    <3> QED
      BY <3>1, <2>6
  <2>12. CASE Send(w)
    <3>1. Quiet /\ wk[w].pc = "send" /\ wk'[w].pc = "loop"
      BY <2>12 DEF Send, WorkerStates
    <3> QED
      BY <3>1, <2>3, <2>5
  <2>13. CASE Finish(w)
    <3>1. Quiet /\ wk[w].pc = "loop" /\ wk'[w].pc = "done"
      BY <2>13 DEF Finish, WorkerStates
    <3> QED
      BY <3>1, <2>8
  <2> QED
    BY <2>9, <2>10, <2>11, <2>12, <2>13 DEF Worker
<1> QED
  BY <1>3, <1>4

\* A step of the UI thread starts, stops or closes the abstract session, or
\* is invisible in it.
LEMMA FrameStep ==
  ASSUME TypeOK, TypeOK', SessionInv, UIStep \/ UserStep
  PROVE  \/ UNCHANGED <<Phase, LiveMembers, Owed, Reported>>
         \/ Promise!Start \/ Promise!Stop \/ Promise!Close
<1> USE DEF TypeOK
<1>1. CASE StartReturns
  <2>1. /\ session = 0 /\ session' = nsess /\ nsess \in Sessions
        /\ UNCHANGED <<stop, wk, written>>
    BY <1>1 DEF StartReturns, SessionInv, workerVars, Sessions
  <2>2. ~stop[nsess] /\ nsess # 0
    BY <1>1, <2>1 DEF StartReturns, SessionInv, Sessions
  <2>3. Phase = "idle" /\ Phase' = "running" /\ Owed' = {}
    BY <2>1, <2>2 DEF Phase, Owed
  <2>4. LiveMembers' \in SUBSET Targets /\ Reported' \in [Targets -> Nat]
    BY <2>1 DEF LiveMembers, Reported, Workers
  <2> QED
    BY <2>3, <2>4 DEF Promise!Start
<1>2. CASE StopClicked
  <2>1. /\ session # 0 /\ session \in Sessions
        /\ session' = session /\ UNCHANGED <<wk, written>>
        /\ stop' = [stop EXCEPT ![session] = TRUE]
    BY <1>2 DEF StopClicked, Click, SessionInv, Sessions
  <2>2. LiveMembers' = LiveMembers /\ Reported' = Reported
    BY <2>1 DEF LiveMembers, Reported, Live
  <2>3. CASE stop[session]
    <3>1. stop' = stop
      BY <2>1, <2>3
    <3> QED
      BY <2>1, <3>1, Invisible
  <2>4. CASE ~stop[session]
    <3>1. Phase = "running" /\ Phase' = "stopping"
      BY <2>1, <2>4 DEF Phase
    <3>2. Owed' \in SUBSET LiveMembers
      BY <2>1 DEF Owed, LiveMembers, Live
    <3> QED
      BY <2>2, <3>1, <3>2 DEF Promise!Stop
  <2> QED
    BY <2>3, <2>4
<1>3. CASE Poll
  <2>1. UNCHANGED <<stop, wk, written>>
    BY <1>3 DEF Poll, workerVars
  <2>2. CASE session' = session
    BY <2>1, <2>2, Invisible
  <2>3. CASE session' # session
    <3>1. session # 0 /\ session' = 0 /\ ~IsRunning
      BY <1>3, <2>3 DEF Poll
    <3>2. LiveMembers = {} /\ LiveMembers' = {}
      BY <3>1 DEF LiveMembers, IsRunning, SessionLive, WorkersOf
    <3>3. Phase # "idle" /\ Phase' = "idle"
      BY <3>1 DEF Phase
    <3>4. Owed' = {} /\ Reported' = [m \in Targets |-> 0]
      BY <3>1 DEF Owed, Reported
    <3> QED
      BY <3>2, <3>3, <3>4 DEF Promise!Close, Promise!NoReports
  <2> QED
    BY <2>2, <2>3
<1>4. CASE SpawnNext
  <2>1. session = 0 /\ session' = 0
    BY <1>4 DEF SpawnNext, SessionInv
  <2> QED
    BY <2>1, Invisible
<1>5. CASE ~(StartReturns \/ StopClicked \/ Poll \/ SpawnNext)
  <2>1. UNCHANGED <<session, stop, wk, written>>
    BY <1>5 DEF UIStep, UserStep, RepaintFrame, InputFrame, DrainOne,
       DrainEnd, OtherPage, NoClick, EndFrame, StartFails, StartRefused,
       StartClicked, ClearClicked, LogClearClicked, workerVars
  <2> QED
    BY <2>1, Invisible
<1> QED
  BY <1>1, <1>2, <1>3, <1>4, <1>5

\* PingSession keeps what Session promises: the session closes only when all
\* its workers have ended, and after Stop each reports at most once more.
THEOREM SessionRefinement == Spec => ImplementsSession
<1>1. Init => Promise!Init
  BY InitRefines
<1>2. TypeOK /\ TypeOK' /\ SessionInv /\ [Next]_vars
        => [Promise!Next]_<<Phase, LiveMembers, Owed, Reported>>
  <2> SUFFICES ASSUME TypeOK, TypeOK', SessionInv, [Next]_vars
               PROVE  Promise!Next
                        \/ UNCHANGED <<Phase, LiveMembers, Owed, Reported>>
    OBVIOUS
  <2>1. CASE UNCHANGED vars
    BY <2>1, Invisible DEF vars
  <2>2. CASE UIStep \/ UserStep
    BY <2>2, FrameStep DEF Promise!Next
  <2>3. CASE \E w \in Workers : Worker(w)
    <3>1. \A t \in Targets : {t} \in SUBSET Targets
      OBVIOUS
    <3> QED
      BY <2>3, <3>1, MemberStep DEF Promise!Next
  <2> QED
    BY <2>1, <2>2, <2>3 DEF Next
<1> QED
  BY <1>1, <1>2, TypeCorrect, SessionInvariant, PTL
     DEF Spec, ImplementsSession, Promise!Spec, Promise!sessionVars

-----------------------------------------------------------------------------
(* What is shown.                                                          *)

\* The inductive invariant of the reports: a worker whose first report is
\* still to come has no line anywhere, and none of a worker to be spawned.
OrderInv ==
  /\ ReportsInOrder
  /\ ui = "start" => \A t \in todo : wk[<<nsess, t>>].pc = "none"
  /\ \A w \in Workers :
       /\ wk[w].pc \in {"none", "resolve"} => wk[w].seq = 0
       /\ wk[w].pc = "ping" => wk[w].seq > 0
       /\ wk[w].pc = "send" => wk[w].seq <= written[w]
       /\ LastSent(w) <= written[w]
       /\ (wk[w].pc \in {"none", "resolve"} \/ (wk[w].pc = "send" /\ wk[w].seq = 0))
            => \A i \in DOMAIN Stream : Stream[i].w # w

\* The panel and the channel are a sequence of reports.
LEMMA StreamType ==
  ASSUME TypeOK
  PROVE  /\ Stream \in Seq(Reports) /\ Len(Stream) \in Nat
         /\ DOMAIN Stream = 1 .. Len(Stream) /\ Len(Stream) = Len(panel) + Len(chan)
         /\ \A i \in 1 .. Len(Stream) : Stream[i].seq \in Nat /\ Stream[i].w \in Workers
<1>1. Stream \in Seq(Reports) /\ Len(Stream) = Len(panel) + Len(chan)
  BY DEF TypeOK, Stream
<1>2. \A i \in 1 .. Len(Stream) : Stream[i] \in Reports
  BY <1>1
<1> QED BY <1>1, <1>2 DEF Reports

\* The oldest k lines leave, and no worker sends: the others stay in order.
LEMMA OrderShift ==
  ASSUME TypeOK, TypeOK', ReportsInOrder, NEW k \in 0 .. Len(Stream),
         Len(Stream') = Len(Stream) - k,
         \A i \in 1 .. Len(Stream) - k : Stream'[i] = Stream[i + k],
         \A w \in Workers : LastSent(w)' = LastSent(w),
         \A w \in Workers : LastSent(w) <= written[w] => LastSent(w) <= written'[w]
  PROVE  ReportsInOrder'
<1> DEFINE n == Len(Stream)
           m == Len(Stream')
<1>1. /\ n \in Nat /\ m \in Nat /\ m = n - k /\ k \in Nat
      /\ DOMAIN Stream = 1 .. n /\ DOMAIN Stream' = 1 .. m
      /\ \A i \in 1 .. m : i + k \in 1 .. n /\ Stream'[i] = Stream[i + k]
      /\ \A i \in 1 .. n : Stream[i].w \in Workers
  <2>1. n \in Nat /\ DOMAIN Stream = 1 .. n /\ \A i \in 1 .. n : Stream[i].w \in Workers
    BY StreamType
  <2>2. m \in Nat /\ DOMAIN Stream' = 1 .. m
    BY StreamType
  <2> HIDE DEF n, m
  <2>3. m = n - k /\ k \in Nat /\ \A i \in 1 .. n - k : Stream'[i] = Stream[i + k]
    BY DEF n, m
  <2> QED BY <2>1, <2>2, <2>3
<1> HIDE DEF n, m
<1>2. ASSUME NEW i \in 1 .. m
      PROVE  /\ LaterLines(i)' \subseteq 1 .. m
             /\ \A j \in 1 .. m : j \in LaterLines(i)' <=> j + k \in LaterLines(i + k)
             /\ \A j \in LaterLines(i + k) : j - k \in 1 .. m /\ j \in 1 .. n
  <2>1. LaterLines(i)' \subseteq 1 .. m
    BY <1>1 DEF LaterLines
  <2>2. ASSUME NEW j \in 1 .. m
        PROVE  j \in LaterLines(i)' <=> j + k \in LaterLines(i + k)
    BY <1>1 DEF LaterLines
  <2>3. ASSUME NEW j \in LaterLines(i + k)
        PROVE  j - k \in 1 .. m /\ j \in 1 .. n
    BY <1>1 DEF LaterLines
  <2> QED BY <2>1, <2>2, <2>3
<1>3. ASSUME NEW i \in 1 .. m, NEW w \in Workers, w = Stream'[i].w
      PROVE  IF LaterLines(i)' = {}
             THEN Stream'[i].seq = LastSent(w)' /\ LastSent(w)' <= written'[w]
             ELSE \E j \in LaterLines(i)' : /\ Stream'[j].seq = Stream'[i].seq + 1
                                            /\ \A l \in LaterLines(i)' : j <= l
  <2>0. i + k \in 1 .. n /\ Stream'[i] = Stream[i + k] /\ Stream[i + k].w = w
    BY <1>1, <1>3
  <2>1. LaterLines(i)' = {} <=> LaterLines(i + k) = {}
    <3>1. ASSUME NEW j \in LaterLines(i + k) PROVE j - k \in LaterLines(i)'
      <4>0. j \in 1 .. n /\ j - k \in 1 .. m
        BY <1>2
      <4>1. j - k \in 1 .. m /\ (j - k) + k = j
        BY <1>1, <4>0
      <4>2. j - k \in LaterLines(i)' <=> (j - k) + k \in LaterLines(i + k)
        BY <1>2, <4>1
      <4> QED BY <4>1, <4>2
    <3> QED BY <1>2, <3>1
  <2>2. CASE LaterLines(i + k) = {}
    <3>1. Stream[i + k].seq = LastSent(w) /\ LastSent(w) <= written[w]
      BY <1>1, <2>0, <2>2 DEF ReportsInOrder
    <3>2. LastSent(w)' = LastSent(w) /\ LastSent(w) <= written'[w]
      BY <3>1
    <3> QED BY <2>0, <2>1, <2>2, <3>1, <3>2
  <2>3. CASE LaterLines(i + k) # {}
    <3>1. PICK j \in LaterLines(i + k) : /\ Stream[j].seq = Stream[i + k].seq + 1
                                         /\ \A l \in LaterLines(i + k) : j <= l
      BY <1>1, <2>0, <2>3 DEF ReportsInOrder
    <3>2. j \in 1 .. n /\ j - k \in 1 .. m /\ (j - k) + k = j
      BY <1>1, <1>2, <3>1
    <3>3. j - k \in LaterLines(i)' /\ Stream'[j - k].seq = Stream'[i].seq + 1
      BY <1>1, <1>2, <2>0, <3>1, <3>2
    <3>4. ASSUME NEW l \in LaterLines(i)' PROVE j - k <= l
      <4>1. l \in 1 .. m /\ l + k \in LaterLines(i + k)
        BY <1>2
      <4>2. j <= l + k
        BY <3>1, <4>1
      <4> QED BY <1>1, <3>2, <4>1, <4>2
    <3> QED BY <2>1, <2>3, <3>3, <3>4
  <2> QED BY <2>2, <2>3
<1>4. \A i \in 1 .. m : Stream'[i].w \in Workers
  BY <1>1
<1> QED BY <1>1, <1>3, <1>4 DEF ReportsInOrder, LastSent

\* A worker sends the report after the last one it sent.
LEMMA OrderSend ==
  ASSUME TypeOK, TypeOK', OrderInv, NEW w \in Workers, Send(w)
  PROVE  ReportsInOrder'
<1> DEFINE e == [w |-> w, seq |-> wk[w].seq, st |-> wk[w].st]
<1>0. PICK n \in Nat : n = Len(Stream)
  BY StreamType
<1>1. /\ DOMAIN Stream = 1 .. n /\ DOMAIN Stream' = 1 .. n + 1 /\ Stream'[n + 1] = e
      /\ \A i \in 1 .. n : Stream'[i] = Stream[i]
      /\ \A i \in 1 .. n : Stream[i].seq \in Nat /\ Stream[i].w \in Workers
  <2>1. /\ DOMAIN Stream = 1 .. n /\ Stream \in Seq(Reports)
        /\ \A i \in 1 .. n : Stream[i].seq \in Nat /\ Stream[i].w \in Workers
    BY <1>0, StreamType
  <2>2. panel' = panel /\ chan' = Append(chan, e) /\ e \in Reports
    BY DEF Send, uiVars, TypeOK, Reports, WorkerStates
  <2>3. Stream' = Append(Stream, e)
    BY <2>2 DEF Stream, TypeOK
  <2> HIDE DEF e
  <2> QED BY <1>0, <2>1, <2>2, <2>3
<1>2. /\ e.w = w /\ e.seq = wk[w].seq /\ wk[w].seq \in Nat
      /\ LastSent(w)' = wk[w].seq /\ written' = written /\ wk[w].seq <= written[w]
      /\ \A v \in Workers : v # w => LastSent(v)' = LastSent(v)
      /\ wk[w].seq = 0 => \A i \in 1 .. n : Stream[i].w # w
      /\ wk[w].seq > 0 => LastSent(w) = wk[w].seq - 1
  BY <1>1 DEF Send, TypeOK, LastSent, WorkerStates, OrderInv
<1> HIDE DEF e
<1>3. LaterLines(n + 1)' = {}
  BY <1>1 DEF LaterLines
<1>4. ASSUME NEW i \in 1 .. n
      PROVE  /\ LaterLines(i)' = IF Stream[i].w = w THEN LaterLines(i) \cup {n + 1}
                                 ELSE LaterLines(i)
             /\ LaterLines(i) \subseteq 1 .. n
  <2>1. LaterLines(i) \subseteq 1 .. n /\ LaterLines(i)' \subseteq 1 .. n + 1
    BY <1>1 DEF LaterLines
  <2>2. ASSUME NEW j \in 1 .. n PROVE j \in LaterLines(i)' <=> j \in LaterLines(i)
    BY <1>1 DEF LaterLines
  <2>3. n + 1 \in LaterLines(i)' <=> Stream[i].w = w
    BY <1>1, <1>2 DEF LaterLines
  <2>4. \A j \in 1 .. n + 1 : j \in 1 .. n \/ j = n + 1
    OBVIOUS
  <2>5. n + 1 \notin 1 .. n
    OBVIOUS
  <2> QED BY <2>1, <2>2, <2>3, <2>4, <2>5
<1>5. ASSUME NEW i \in 1 .. n + 1, NEW v \in Workers, v = Stream'[i].w
      PROVE  IF LaterLines(i)' = {}
             THEN Stream'[i].seq = LastSent(v)' /\ LastSent(v)' <= written'[v]
             ELSE \E j \in LaterLines(i)' : /\ Stream'[j].seq = Stream'[i].seq + 1
                                            /\ \A l \in LaterLines(i)' : j <= l
  <2>1. CASE i = n + 1
    BY <1>1, <1>2, <1>3, <1>5, <2>1
  <2>2. CASE i \in 1 .. n /\ LaterLines(i) # {}
    <3>1. PICK j \in LaterLines(i) : /\ Stream[j].seq = Stream[i].seq + 1
                                     /\ \A l \in LaterLines(i) : j <= l
      BY <1>1, <2>2 DEF OrderInv, ReportsInOrder
    <3>2. j \in 1 .. n /\ j \in LaterLines(i)' /\ Stream'[j].seq = Stream'[i].seq + 1
      BY <1>1, <1>4, <2>2, <3>1
    <3>3. \A l \in LaterLines(i)' : l \in LaterLines(i) \/ l = n + 1
      BY <1>4, <2>2
    <3>4. \A l \in LaterLines(i)' : j <= l
      BY <3>1, <3>2, <3>3
    <3> QED BY <3>2, <3>4
  <2>3. CASE i \in 1 .. n /\ LaterLines(i) = {}
    <3>1. v = Stream[i].w /\ Stream'[i] = Stream[i]
      BY <1>1, <1>5, <2>3
    <3>2. Stream[i].seq = LastSent(v) /\ LastSent(v) <= written[v]
      BY <1>1, <2>3, <3>1 DEF OrderInv, ReportsInOrder
    <3>3. CASE v = w
      <4>1. wk[w].seq > 0 /\ Stream[i].seq = wk[w].seq - 1
        <5>1. wk[w].seq # 0
          BY <1>2, <2>3, <3>1, <3>3
        <5>2. wk[w].seq > 0
          BY <1>2, <5>1
        <5> QED BY <1>2, <3>2, <3>3, <5>2
      <4>2. LaterLines(i)' = {n + 1}
        BY <1>4, <2>3, <3>1, <3>3
      <4>3. Stream'[n + 1].seq = Stream'[i].seq + 1
        BY <1>1, <1>2, <3>1, <4>1
      <4> QED BY <4>2, <4>3
    <3>4. CASE v # w
      <4>1. LaterLines(i)' = {}
        BY <1>4, <2>3, <3>1, <3>4
      <4>2. LastSent(v)' = LastSent(v) /\ written' = written
        BY <1>2, <3>4
      <4> QED BY <3>1, <3>2, <4>1, <4>2
    <3> QED BY <3>3, <3>4
  <2>4. i \in 1 .. n \/ i = n + 1
    OBVIOUS
  <2> QED BY <2>1, <2>2, <2>3, <2>4
<1>6. \A i \in 1 .. n + 1 : Stream'[i].w \in Workers
  <2>1. \A i \in 1 .. n + 1 : i \in 1 .. n \/ i = n + 1
    OBVIOUS
  <2> QED BY <1>1, <1>2, <2>1
<1> QED BY <1>1, <1>5, <1>6 DEF ReportsInOrder, LastSent

\* A worker's step leaves the other workers and the panel alone.
LEMMA WorkerFrame ==
  ASSUME TypeOK, TypeOK', NEW w \in Workers, Worker(w)
  PROVE  /\ \A v \in Workers : v # w => wk'[v] = wk[v] /\ written'[v] = written[v]
         /\ \A v \in Workers : wk[v].seq \in Nat /\ written[v] \in Nat
         /\ \A v \in Workers : written'[v] \in Nat /\ written[v] <= written'[v]
         /\ wk[w].pc # "none" /\ UNCHANGED <<ui, nsess, todo, panel>>
<1>1. \A v \in Workers : v # w => wk'[v] = wk[v] /\ written'[v] = written[v]
  BY DEF Worker, Resolve, NextProbe, Ping, Send, Finish, TypeOK
<1>2. \A v \in Workers : wk[v].seq \in Nat /\ written[v] \in Nat /\ written'[v] \in Nat
  BY DEF TypeOK, WorkerStates
<1>3. written'[w] = written[w] \/ written'[w] = written[w] + 1
  BY DEF Worker, Resolve, NextProbe, Ping, Send, Finish, TypeOK
<1>4. UNCHANGED panel
  BY DEF Worker, Resolve, NextProbe, Ping, Send, Finish, uiVars
<1> QED BY <1>1, <1>2, <1>3, <1>4, WorkerFacts

\* Only a send changes what a worker has sent.
LEMMA LastSentStays ==
  ASSUME TypeOK, TypeOK', OrderInv, NEW w \in Workers, Worker(w), ~Send(w)
  PROVE  /\ LastSent(w)' = LastSent(w) /\ LastSent(w) \in Nat
         /\ wk'[w].pc \in {"loop", "ping", "send", "done"}
         /\ wk'[w].pc = "ping" => wk'[w].seq > 0
         /\ wk'[w].pc = "send" => wk'[w].seq <= written'[w]
         /\ (wk'[w].pc = "send" /\ wk'[w].seq = 0) => wk[w].pc = "resolve"
         /\ \A v \in Workers : LastSent(v)' = LastSent(v) /\ LastSent(v) \in Nat
<1>1. /\ LastSent(w)' = LastSent(w) /\ LastSent(w) \in Nat
      /\ wk'[w].pc \in {"loop", "ping", "send", "done"}
      /\ wk'[w].pc = "ping" => wk'[w].seq > 0
      /\ wk'[w].pc = "send" => wk'[w].seq <= written'[w]
      /\ (wk'[w].pc = "send" /\ wk'[w].seq = 0) => wk[w].pc = "resolve"
  <2> USE DEF TypeOK, WorkerStates, LastSent
  <2>1. CASE Resolve(w)
    <3>1. wk[w].pc = "resolve" /\ wk[w].seq = 0
      BY <2>1 DEF Resolve, OrderInv
    <3>2. wk'[w].pc \in {"loop", "send"} /\ wk'[w].seq = wk[w].seq
      <4>1. \/ wk' = [wk EXCEPT ![w] = [@ EXCEPT !.pc = "loop"]]
            \/ wk' = [wk EXCEPT ![w] = [@ EXCEPT !.pc = "send", !.st = "error"]]
        BY <2>1 DEF Resolve
      <4>2. wk[w] \in WorkerStates /\ w \in DOMAIN wk
        OBVIOUS
      <4>3. \/ wk'[w] = [wk[w] EXCEPT !.pc = "loop"]
            \/ wk'[w] = [wk[w] EXCEPT !.pc = "send", !.st = "error"]
        BY <4>1, <4>2
      <4> QED BY <4>2, <4>3
    <3> QED BY WorkerFrame, <3>1, <3>2
  <2>2. CASE NextProbe(w)
    <3>1. /\ wk[w].pc = "loop" /\ wk[w] \in WorkerStates
          /\ wk' = [wk EXCEPT ![w] = [@ EXCEPT !.pc = "ping", !.seq = wk[w].seq + 1]]
      BY <2>2 DEF NextProbe
    <3>2. wk'[w] = [wk[w] EXCEPT !.pc = "ping", !.seq = wk[w].seq + 1]
      BY <3>1
    <3>3. wk'[w].pc = "ping" /\ wk'[w].seq = wk[w].seq + 1
      BY <3>1, <3>2
    <3>4. wk[w].seq \in Nat
      BY <3>1
    <3> QED BY <3>1, <3>3, <3>4
  <2>3. CASE Ping(w)
    <3>1. /\ wk'[w].pc = "send" /\ wk'[w].seq = wk[w].seq /\ wk[w].pc = "ping"
          /\ written'[w] = written[w] + 1
      BY <2>3 DEF Ping
    <3>2. wk[w].seq > 0 /\ LastSent(w) <= written[w]
      BY <3>1 DEF OrderInv
    <3> QED BY WorkerFrame, <3>1, <3>2
  <2>4. CASE Finish(w)
    BY WorkerFrame, <2>4 DEF Finish
  <2> QED BY <2>1, <2>2, <2>3, <2>4 DEF Worker
<1>2. \A v \in Workers : LastSent(v)' = LastSent(v) /\ LastSent(v) \in Nat
  <2>1. \A v \in Workers : v # w => LastSent(v)' = LastSent(v) /\ LastSent(v) \in Nat
    BY WorkerFrame DEF LastSent
  <2> QED BY <1>1, <2>1
<1> QED BY <1>1, <1>2

\* What the worker has still to report, and what its log file holds.
LEMMA OrderWorker ==
  ASSUME TypeOK, TypeOK', OrderInv, NEW w \in Workers, Worker(w)
  PROVE  OrderInv'
<1>0. /\ \A v \in Workers : v # w => wk'[v] = wk[v] /\ written'[v] = written[v]
      /\ \A v \in Workers : wk[v].seq \in Nat /\ written[v] \in Nat
      /\ \A v \in Workers : written'[v] \in Nat /\ written[v] <= written'[v]
      /\ wk[w].pc # "none" /\ UNCHANGED <<ui, nsess, todo, panel>>
  BY WorkerFrame
<1>1. ui' = "start" => \A t \in todo' : wk'[<<nsess', t>>].pc = "none"
  <2>1. ui = "start" => \A t \in todo : <<nsess, t>> \in Workers /\ <<nsess, t>> # w
    BY <1>0 DEF TypeOK, Workers, Sessions, OrderInv
  <2> QED BY <1>0, <2>1 DEF OrderInv
<1>2. CASE Send(w)
  <2>1. wk' = [wk EXCEPT ![w] = [@ EXCEPT !.pc = "loop"]] /\ written' = written /\ wk[w].pc = "send"
    BY <1>2 DEF Send
  <2>2. wk'[w].pc = "loop" /\ wk'[w].seq = wk[w].seq
    BY <2>1 DEF TypeOK, WorkerStates
  <2>3. \A v \in Workers : v # w /\ (\A i \in DOMAIN Stream : Stream[i].w # v) =>
          \A i \in DOMAIN Stream' : Stream'[i].w # v
    <3> DEFINE e == [w |-> w, seq |-> wk[w].seq, st |-> wk[w].st]
    <3>1. panel' = panel /\ chan' = Append(chan, e) /\ e \in Reports /\ e.w = w
      BY <1>0, <1>2 DEF Send, TypeOK, Reports, WorkerStates
    <3> HIDE DEF e
    <3>2. Stream' = Append(Stream, e)
      BY <3>1 DEF Stream, TypeOK
    <3>3. Stream \in Seq(Reports)
      BY StreamType
    <3> QED BY <3>1, <3>2, <3>3
  <2>4. ASSUME NEW v \in Workers
        PROVE  /\ wk'[v].pc \in {"none", "resolve"} => wk'[v].seq = 0
               /\ wk'[v].pc = "ping" => wk'[v].seq > 0
               /\ wk'[v].pc = "send" => wk'[v].seq <= written'[v]
               /\ LastSent(v)' <= written'[v]
               /\ (wk'[v].pc \in {"none", "resolve"} \/ (wk'[v].pc = "send" /\ wk'[v].seq = 0))
                    => \A i \in DOMAIN Stream' : Stream'[i].w # v
    <3>1. CASE v = w
      BY <1>0, <2>1, <2>2, <3>1 DEF OrderInv, LastSent
    <3>2. CASE v # w
      BY <1>0, <2>3, <3>2 DEF OrderInv, LastSent
    <3> QED BY <3>1, <3>2
  <2>5. ReportsInOrder'
    BY <1>2, OrderSend
  <2> QED BY <1>1, <2>4, <2>5 DEF OrderInv, LastSent
<1>3. CASE ~Send(w)
  <2>1. Stream' = Stream
    BY <1>3 DEF Worker, Resolve, NextProbe, Ping, Finish, uiVars, Stream
  <2>2. /\ LastSent(w)' = LastSent(w) /\ LastSent(w) \in Nat
        /\ wk'[w].pc \in {"loop", "ping", "send", "done"}
        /\ wk'[w].pc = "ping" => wk'[w].seq > 0
        /\ wk'[w].pc = "send" => wk'[w].seq <= written'[w]
        /\ (wk'[w].pc = "send" /\ wk'[w].seq = 0) => wk[w].pc = "resolve"
    BY <1>3, LastSentStays
  <2>3. \A v \in Workers : LastSent(v)' = LastSent(v) /\ LastSent(v) \in Nat
    BY <1>3, LastSentStays
  <2>4. ReportsInOrder'
    <3>1. Len(Stream) \in Nat /\ 0 \in 0 .. Len(Stream) /\ Len(Stream') = Len(Stream) - 0
      BY <2>1, StreamType
    <3>2. \A i \in 1 .. Len(Stream) - 0 : Stream'[i] = Stream[i + 0]
      BY <2>1, StreamType
    <3>3. \A v \in Workers : LastSent(v) <= written[v] => LastSent(v) <= written'[v]
      BY <1>0, <2>3
    <3> QED BY <2>3, <3>1, <3>2, <3>3, OrderShift DEF OrderInv
  <2>5. ASSUME NEW v \in Workers
        PROVE  /\ wk'[v].pc \in {"none", "resolve"} => wk'[v].seq = 0
               /\ wk'[v].pc = "ping" => wk'[v].seq > 0
               /\ wk'[v].pc = "send" => wk'[v].seq <= written'[v]
               /\ LastSent(v)' <= written'[v]
               /\ (wk'[v].pc \in {"none", "resolve"} \/ (wk'[v].pc = "send" /\ wk'[v].seq = 0))
                    => \A i \in DOMAIN Stream' : Stream'[i].w # v
    <3>0. LastSent(v)' <= written'[v]
      <4>1. LastSent(v) <= written[v]
        BY DEF OrderInv
      <4> QED BY <1>0, <2>3, <4>1
    <3>1. CASE v = w
      BY <2>1, <2>2, <3>0, <3>1 DEF OrderInv
    <3>2. CASE v # w
      BY <1>0, <2>1, <3>0, <3>2 DEF OrderInv
    <3> QED BY <3>1, <3>2
  <2> QED BY <1>1, <2>4, <2>5 DEF OrderInv, LastSent
<1> QED BY <1>2, <1>3

\* The elements of a concatenation, first those of p and then those of y.
LEMMA JoinElements ==
  ASSUME NEW p \in Seq(Reports), NEW y \in Seq(Reports)
  PROVE  /\ \A i \in 1 .. Len(p) : (p \o y)[i] = p[i]
         /\ \A i \in 1 .. Len(p) + Len(y) : i > Len(p) => (p \o y)[i] = y[i - Len(p)]
<1>1. Len(p) \in Nat /\ Len(y) \in Nat
  BY LenProperties
<1>2. \A i \in 1 .. Len(p) + Len(y) :
        (p \o y)[i] = IF i <= Len(p) THEN p[i] ELSE y[i - Len(p)]
  BY ConcatProperties
<1> QED BY <1>1, <1>2

\* The UI thread moves lines from the channel to the panel, and drops the
\* oldest, or all, of those in the panel.
LEMMA UIStream ==
  ASSUME TypeOK, TypeOK', UIStep \/ UserStep
  PROVE  \E k \in 0 .. Len(Stream) :
           /\ Len(Stream') = Len(Stream) - k
           /\ \A i \in 1 .. Len(Stream) - k : Stream'[i] = Stream[i + k]
<1> USE DEF TypeOK
<1>0. Len(Stream) \in Nat /\ Len(Stream) = Len(panel) + Len(chan) /\ Len(panel) \in Nat
      /\ Len(chan) \in Nat
  BY StreamType
<1>1. CASE UNCHANGED <<panel, chan>>
  <2>1. Stream' = Stream
    BY <1>1 DEF Stream
  <2> WITNESS 0 \in 0 .. Len(Stream)
  <2> QED BY <1>0, <2>1
<1>2. CASE panel' = <<>> /\ chan' = chan
  <2>1. Stream' = chan
    BY <1>2 DEF Stream
  <2>2. \A i \in 1 .. Len(chan) : Stream[i + Len(panel)] = chan[i]
    BY <1>0 DEF Stream
  <2>3. Len(panel) \in 0 .. Len(Stream)
    BY <1>0
  <2> WITNESS Len(panel) \in 0 .. Len(Stream)
  <2> QED BY <1>0, <2>1, <2>2
<1>3. CASE DrainOne
  <2> DEFINE e == Head(chan)
             p == Append(panel, e)
  <2>1. chan # <<>> /\ e \in Reports /\ chan' = Tail(chan) /\ panel' = PushCapped(panel, e)
    BY <1>3 DEF DrainOne
  <2>2. p \in Seq(Reports) /\ Len(p) = Len(panel) + 1 /\ p \o Tail(chan) = Stream
    BY <2>1 DEF Stream
  <2>3. CASE Len(panel) < LogCap
    <3>1. Stream' = Stream
      BY <2>1, <2>2, <2>3 DEF Stream, PushCapped
    <3> WITNESS 0 \in 0 .. Len(Stream)
    <3> QED BY <1>0, <3>1
  <2>4. CASE ~(Len(panel) < LogCap)
    <3>1. Stream' = Tail(p) \o Tail(chan)
      BY <2>1, <2>4 DEF Stream, PushCapped
    <3> DEFINE y == Tail(chan)
               q == Tail(p)
    <3>2. /\ y \in Seq(Reports) /\ p \in Seq(Reports) /\ q \in Seq(Reports)
          /\ Len(p) \in Nat /\ Len(p) # 0 /\ Len(q) = Len(p) - 1
          /\ \A i \in 1 .. Len(q) : q[i] = p[i + 1]
      <4> HIDE DEF p
      <4>1. p # <<>> /\ Len(p) \in Nat /\ Len(p) # 0
        BY <1>0, <2>2
      <4>2. y \in Seq(Reports)
        BY <2>1
      <4> QED BY <1>0, <2>2, <4>1, <4>2, HeadTailProperties
    <3>3. Stream = p \o y /\ Stream' = q \o y
      BY <2>2, <3>1
    <3> HIDE DEF p, q, y
    <3>4. Len(Stream') = Len(q) + Len(y) /\ Len(Stream) = Len(p) + Len(y) /\ Len(y) \in Nat
      BY <3>2, <3>3, LenProperties, ConcatProperties
    <3>5. ASSUME NEW i \in 1 .. Len(Stream) - 1 PROVE Stream'[i] = Stream[i + 1]
      <4>0. i \in Nat /\ i >= 1 /\ i + 1 \in 1 .. Len(p) + Len(y)
            /\ i \in 1 .. Len(q) + Len(y)
        BY <3>2, <3>4
      <4>1. CASE i <= Len(q)
        <5>1. i \in 1 .. Len(q) /\ i + 1 <= Len(p)
          BY <3>2, <4>0, <4>1
        <5>2. Stream'[i] = q[i] /\ Stream[i + 1] = p[i + 1]
          BY <3>2, <3>3, <4>0, <5>1, JoinElements
        <5> QED BY <3>2, <5>1, <5>2
      <4>2. CASE i > Len(q)
        <5>1. Stream'[i] = y[i - Len(q)]
          BY <3>2, <3>3, <4>0, <4>2, JoinElements
        <5>2. Stream[i + 1] = y[i + 1 - Len(p)]
          <6>1. i + 1 > Len(p)
            BY <3>2, <4>0, <4>2
          <6> QED BY <3>2, <3>3, <4>0, <6>1, JoinElements
        <5>3. i - Len(q) = i + 1 - Len(p)
          BY <3>2, <3>4
        <5> QED BY <5>1, <5>2, <5>3
      <4> QED BY <3>2, <3>4, <4>1, <4>2
    <3>6. 1 \in 0 .. Len(Stream)
      BY <3>2, <3>4
    <3>7. Len(Stream') = Len(Stream) - 1
      BY <3>2, <3>4
    <3> WITNESS 1 \in 0 .. Len(Stream)
    <3> QED BY <3>5, <3>7
  <2> QED BY <2>3, <2>4
<1>4. CASE ~DrainOne
  <2>1. UNCHANGED <<panel, chan>> \/ (panel' = <<>> /\ chan' = chan)
    BY <1>4 DEF UIStep, UserStep, RepaintFrame, InputFrame, DrainEnd, Poll, OtherPage,
       NoClick, EndFrame, SpawnNext, StartFails, StartReturns, StopClicked, StartRefused,
       StartClicked, ClearClicked, LogClearClicked, ResetResults
  <2> QED BY <1>1, <1>2, <2>1
<1> QED BY <1>3, <1>4

\* A session begins with workers that have said nothing.
LEMMA OrderUI ==
  ASSUME TypeOK, TypeOK', SessionInv, OrderInv, UIStep \/ UserStep
  PROVE  OrderInv'
<1> USE DEF TypeOK
<1>1. PICK k \in 0 .. Len(Stream) :
        /\ Len(Stream') = Len(Stream) - k
        /\ \A i \in 1 .. Len(Stream) - k : Stream'[i] = Stream[i + k]
  BY UIStream
<1>2. written' = written
  BY DEF UIStep, UserStep, RepaintFrame, InputFrame, DrainOne, DrainEnd, Poll, OtherPage,
     NoClick, EndFrame, SpawnNext, StartFails, StartReturns, StopClicked, StartRefused,
     StartClicked, ClearClicked, LogClearClicked, workerVars
<1>3. /\ ui' = "start" => \A t \in todo' : wk'[<<nsess', t>>].pc = "none"
      /\ \A w \in Workers : \/ wk'[w] = wk[w]
                            \/ /\ wk[w].pc = "none" /\ wk'[w].pc = "resolve"
                               /\ wk'[w].seq = wk[w].seq
  <2>1. CASE SpawnNext
    <3>1. PICK t \in todo : /\ todo' = todo \ {t}
                            /\ wk' = [wk EXCEPT ![<<nsess, t>>] = [@ EXCEPT !.pc = "resolve"]]
      BY <2>1 DEF SpawnNext
    <3>2. nsess' = nsess /\ ui = "start" /\ \A u \in todo : <<nsess, u>> \in Workers
      BY <2>1 DEF SpawnNext, Workers, Sessions
    <3>3. wk[<<nsess, t>>].pc = "none" /\ wk[<<nsess, t>>] \in WorkerStates
      BY <3>2 DEF OrderInv
    <3>4. wk'[<<nsess, t>>].pc = "resolve" /\ wk'[<<nsess, t>>].seq = wk[<<nsess, t>>].seq
      BY <3>1, <3>2, <3>3 DEF WorkerStates
    <3>5. \A w \in Workers : w # <<nsess, t>> => wk'[w] = wk[w]
      BY <3>1
    <3>6. \A u \in todo' : <<nsess, u>> # <<nsess, t>> /\ wk[<<nsess, u>>].pc = "none"
      BY <3>1, <3>2 DEF OrderInv
    <3>7. \A u \in todo' : wk'[<<nsess', u>>].pc = "none"
      BY <3>1, <3>2, <3>5, <3>6
    <3> QED BY <3>3, <3>4, <3>5, <3>7
  <2>2. CASE StartClicked
    <3>1. wk' = wk /\ nsess' = nsess + 1 /\ nsess' \in Sessions /\ todo' \in SUBSET Targets
      BY <2>2 DEF StartClicked, workerVars, Sessions
    <3>2. \A t \in todo' : <<nsess', t>> \in Workers /\ <<nsess', t>>[1] > nsess
      BY <3>1 DEF Workers
    <3>3. \A t \in todo' : wk[<<nsess', t>>].pc = "none"
      <4> SUFFICES ASSUME NEW t \in todo', wk[<<nsess', t>>].pc # "none" PROVE FALSE
        OBVIOUS
      <4>1. <<nsess', t>>[1] <= nsess
        BY <3>2 DEF SessionInv
      <4> QED BY <3>1, <4>1
    <3> QED BY <3>1, <3>3
  <2>3. CASE ~SpawnNext /\ ~StartClicked
    <3>1. wk' = wk /\ nsess' = nsess /\ (ui' = "start" => ui = "start" /\ todo' = todo)
      BY <2>3 DEF UIStep, UserStep, RepaintFrame, InputFrame, DrainOne, DrainEnd, Poll,
         OtherPage, NoClick, EndFrame, StartFails, StartReturns, StopClicked,
         StartRefused, ClearClicked, LogClearClicked, workerVars, Click
    <3> QED BY <3>1 DEF OrderInv
  <2> QED BY <2>1, <2>2, <2>3
<1>4. \A w \in Workers : LastSent(w)' = LastSent(w)
  <2> SUFFICES ASSUME NEW w \in Workers PROVE LastSent(w)' = LastSent(w)
    OBVIOUS
  <2>1. wk'[w] = wk[w] \/ (wk[w].pc = "none" /\ wk'[w].pc = "resolve" /\ wk'[w].seq = wk[w].seq)
    BY <1>3
  <2> QED BY <2>1 DEF LastSent
<1>5. ReportsInOrder'
  BY <1>1, <1>2, <1>4, OrderShift DEF OrderInv
<1>6. \A w \in Workers : (\A i \in DOMAIN Stream : Stream[i].w # w) =>
        \A i \in DOMAIN Stream' : Stream'[i].w # w
  <2>1. /\ DOMAIN Stream = 1 .. Len(Stream) /\ Len(Stream) \in Nat
        /\ DOMAIN Stream' = 1 .. Len(Stream') /\ Len(Stream') \in Nat
    BY StreamType
  <2>2. k \in Nat /\ \A i \in 1 .. Len(Stream') : /\ i + k \in 1 .. Len(Stream)
                                                 /\ Stream'[i] = Stream[i + k]
    <3>1. Len(Stream') = Len(Stream) - k /\ k \in Nat
      BY <1>1
    <3>2. \A i \in 1 .. Len(Stream') : i + k \in 1 .. Len(Stream) /\ i \in 1 .. Len(Stream) - k
      BY <2>1, <3>1
    <3> QED BY <1>1, <3>1, <3>2
  <2> QED BY <2>1, <2>2
<1>7. ASSUME NEW w \in Workers
      PROVE  /\ wk'[w].pc \in {"none", "resolve"} => wk'[w].seq = 0
             /\ wk'[w].pc = "ping" => wk'[w].seq > 0
             /\ wk'[w].pc = "send" => wk'[w].seq <= written'[w]
             /\ LastSent(w)' <= written'[w]
             /\ (wk'[w].pc \in {"none", "resolve"} \/ (wk'[w].pc = "send" /\ wk'[w].seq = 0))
                  => \A i \in DOMAIN Stream' : Stream'[i].w # w
  <2>1. wk'[w] = wk[w] \/ (wk[w].pc = "none" /\ wk'[w].pc = "resolve" /\ wk'[w].seq = wk[w].seq)
    BY <1>3
  <2>2. LastSent(w)' <= written'[w]
    <3>1. LastSent(w) <= written[w]
      BY DEF OrderInv
    <3> QED BY <1>2, <1>4, <3>1
  <2>3. /\ wk[w].pc \in {"none", "resolve"} => wk[w].seq = 0
        /\ wk[w].pc = "ping" => wk[w].seq > 0
        /\ wk[w].pc = "send" => wk[w].seq <= written[w]
        /\ (wk[w].pc \in {"none", "resolve"} \/ (wk[w].pc = "send" /\ wk[w].seq = 0))
                  => \A i \in DOMAIN Stream : Stream[i].w # w
    BY DEF OrderInv
  <2> QED BY <1>2, <1>6, <2>1, <2>2, <2>3
<1> QED BY <1>3, <1>5, <1>7 DEF OrderInv, LastSent

\* No line anywhere.
LEMMA OrderInit == Init => OrderInv
<1> SUFFICES ASSUME Init PROVE OrderInv
  OBVIOUS
<1>1. DOMAIN Stream = {}
  BY DEF Init, Stream
<1>2. \A w \in Workers : wk[w].pc = "none" /\ wk[w].seq = 0 /\ written[w] = 0
  BY DEF Init, Unborn
<1> QED BY <1>1, <1>2 DEF Init, OrderInv, ReportsInOrder, LastSent

\* The reports stay in order in every reachable state, with what the workers
\* have still to report.
THEOREM OrderInvariant == Spec => []OrderInv
<1>1. Init => OrderInv
  BY OrderInit
<1>2. TypeOK /\ TypeOK' /\ SessionInv /\ OrderInv /\ [Next]_vars => OrderInv'
  <2> SUFFICES ASSUME TypeOK, TypeOK', SessionInv, OrderInv, [Next]_vars
               PROVE  OrderInv'
    OBVIOUS
  <2>1. CASE UNCHANGED vars
    <3>1. Stream' = Stream /\ UNCHANGED <<ui, todo, nsess, wk, written>>
      BY <2>1 DEF Stream, vars
    <3> QED
      BY <3>1 DEF OrderInv, ReportsInOrder, LaterLines, LastSent
  <2>2. CASE Next
    BY <2>2, OrderWorker, OrderUI DEF Next
  <2> QED
    BY <2>1, <2>2
<1> QED
  BY <1>1, <1>2, TypeCorrect, SessionInvariant, PTL DEF Spec

\* What the user reads of a target, in the panel and in the file, is what its
\* worker reported: each result once, in order, none left out on the way.
THEOREM ReportsAreOrdered == Spec => []ReportsInOrder
<1>1. OrderInv => ReportsInOrder
  BY DEF OrderInv
<1> QED
  BY <1>1, OrderInvariant, PTL

\* One more line of those counted.
LEMMA OneMore ==
  ASSUME NEW n \in Nat, NEW S \in SUBSET (1 .. n)
  PROVE  Cardinality(S \cup {n + 1}) = Cardinality(S) + 1
<1>1. IsFiniteSet(S)
  <2>1. IsFiniteSet(1 .. n)
    BY FS_Interval
  <2> QED BY <2>1, FS_Subset
<1>2. n + 1 \notin S
  OBVIOUS
<1> QED BY <1>1, <1>2, FS_AddElement

\* A report is counted in its row as it is shown in the panel.
LEMMA TableDrain ==
  ASSUME TypeOK, TypeOK', TableMatchesPanel, DrainOne, Len(panel') < LogCap,
         ~logCleared'
  PROVE  \A t \in Targets :
           /\ rows'[t].sent = Cardinality({i \in LinesOf(t)' : panel'[i].seq > 0})
           /\ rows'[t].received = Cardinality({i \in LinesOf(t)' : panel'[i].st = "ok"})
           /\ LinesOf(t)' # {} => rows'[t].listed
<1> PICK n \in Nat : n = Len(panel)
  BY DEF TypeOK
<1> PICK e \in Reports : e = Head(chan)
  BY DEF TypeOK, DrainOne
<1> SUFFICES ASSUME NEW t \in Targets
             PROVE  /\ rows'[t].sent = Cardinality({i \in LinesOf(t)' : panel'[i].seq > 0})
                    /\ rows'[t].received = Cardinality({i \in LinesOf(t)' : panel'[i].st = "ok"})
                    /\ LinesOf(t)' # {} => rows'[t].listed
  OBVIOUS
<1>1. panel' = Append(panel, e) /\ n < LogCap
  <2>1. panel' = PushCapped(panel, e) /\ panel \in Seq(Reports)
    BY DEF DrainOne, TypeOK
  <2>2. Len(Tail(Append(panel, e))) = n
    BY <2>1
  <2> QED BY <2>1, <2>2 DEF PushCapped
<1>2. /\ DOMAIN panel = 1 .. n /\ DOMAIN panel' = 1 .. n + 1 /\ panel'[n + 1] = e
      /\ \A i \in 1 .. n : panel'[i] = panel[i]
  BY <1>1 DEF TypeOK
<1>3. rows' = [rows EXCEPT ![e.w[2]] = Counted(rows[e.w[2]], e)]
  BY DEF DrainOne
<1>4. /\ rows[t].sent = Cardinality({i \in LinesOf(t) : panel[i].seq > 0})
      /\ rows[t].received = Cardinality({i \in LinesOf(t) : panel[i].st = "ok"})
      /\ LinesOf(t) # {} => rows[t].listed
  BY <1>1 DEF TableMatchesPanel, DrainOne
<1>5. LinesOf(t) \subseteq 1 .. n
  BY <1>2 DEF LinesOf
<1>6. /\ {i \in LinesOf(t) : panel[i].seq > 0} \in SUBSET (1 .. n)
      /\ {i \in LinesOf(t) : panel[i].st = "ok"} \in SUBSET (1 .. n)
  BY <1>5
<1>7. /\ e.w[2] = t => LinesOf(t)' = LinesOf(t) \cup {n + 1}
      /\ e.w[2] # t => LinesOf(t)' = LinesOf(t)
  <2>1. \A i \in 1 .. n : i \in LinesOf(t)' <=> i \in LinesOf(t)
    BY <1>2 DEF LinesOf
  <2>2. n + 1 \in LinesOf(t)' <=> e.w[2] = t
    BY <1>2 DEF LinesOf
  <2>3. LinesOf(t)' \subseteq 1 .. n + 1 /\ n + 1 \notin 1 .. n
    BY <1>2 DEF LinesOf
  <2>4. \A i \in 1 .. n + 1 : i \in 1 .. n \/ i = n + 1
    OBVIOUS
  <2>5. CASE e.w[2] = t
    <3>1. ASSUME NEW i \in 1 .. n + 1
          PROVE  i \in LinesOf(t)' <=> i \in LinesOf(t) \cup {n + 1}
      BY <2>1, <2>2, <2>3, <2>4, <2>5
    <3>2. LinesOf(t) \cup {n + 1} \subseteq 1 .. n + 1
      BY <1>5
    <3>3. LinesOf(t)' = LinesOf(t) \cup {n + 1}
      BY <2>3, <3>1, <3>2
    <3> QED BY <2>5, <3>3
  <2>6. CASE e.w[2] # t
    BY <1>5, <2>1, <2>2, <2>3, <2>4, <2>6
  <2> QED BY <2>5, <2>6
<1>8. CASE e.w[2] # t
  <2>1. LinesOf(t)' = LinesOf(t) /\ rows'[t] = rows[t]
    BY <1>3, <1>7, <1>8 DEF TypeOK
  <2>2. \A i \in LinesOf(t) : panel'[i] = panel[i]
    BY <1>2, <1>5
  <2>3. /\ {i \in LinesOf(t)' : panel'[i].seq > 0} = {i \in LinesOf(t) : panel[i].seq > 0}
        /\ {i \in LinesOf(t)' : panel'[i].st = "ok"} = {i \in LinesOf(t) : panel[i].st = "ok"}
    BY <2>1, <2>2
  <2> QED BY <1>4, <2>1, <2>3
<1>9. CASE e.w[2] = t
  <2>1. LinesOf(t)' = LinesOf(t) \cup {n + 1} /\ rows'[t] = Counted(rows[t], e)
    BY <1>3, <1>7, <1>9 DEF TypeOK
  <2>2. rows'[t].listed
    BY <2>1 DEF Counted
  <2>3. \A i \in LinesOf(t) : panel'[i] = panel[i]
    BY <1>2, <1>5
  <2>4. {i \in LinesOf(t)' : panel'[i].seq > 0} =
          IF e.seq > 0 THEN {i \in LinesOf(t) : panel[i].seq > 0} \cup {n + 1}
          ELSE {i \in LinesOf(t) : panel[i].seq > 0}
    BY <1>2, <2>1, <2>3
  <2>5. {i \in LinesOf(t)' : panel'[i].st = "ok"} =
          IF e.st = "ok" THEN {i \in LinesOf(t) : panel[i].st = "ok"} \cup {n + 1}
          ELSE {i \in LinesOf(t) : panel[i].st = "ok"}
    BY <1>2, <2>1, <2>3
  <2>6. rows'[t].sent = IF e.seq > 0 THEN rows[t].sent + 1 ELSE rows[t].sent
    BY <2>1 DEF Counted
  <2>7. rows'[t].received = IF e.st = "ok" THEN rows[t].received + 1 ELSE rows[t].received
    BY <2>1 DEF Counted
  <2>8. /\ Cardinality({i \in LinesOf(t) : panel[i].seq > 0} \cup {n + 1}) =
             Cardinality({i \in LinesOf(t) : panel[i].seq > 0}) + 1
        /\ Cardinality({i \in LinesOf(t) : panel[i].st = "ok"} \cup {n + 1}) =
             Cardinality({i \in LinesOf(t) : panel[i].st = "ok"}) + 1
    BY <1>6, OneMore
  <2>9. rows'[t].sent = Cardinality({i \in LinesOf(t)' : panel'[i].seq > 0})
    BY <1>4, <2>4, <2>6, <2>8
  <2>10. rows'[t].received = Cardinality({i \in LinesOf(t)' : panel'[i].st = "ok"})
    BY <1>4, <2>5, <2>7, <2>8
  <2> QED BY <2>2, <2>9, <2>10
<1> QED BY <1>8, <1>9

\* While the panel has lost no line, at its cap or by its own Clear, the table
\* counts what it lists: late reports, Clear results and a new Start leave no
\* count without its line.
THEOREM TableAgrees == Spec => []TableMatchesPanel
<1>1. Init => TableMatchesPanel
  <2> SUFFICES ASSUME Init, NEW t \in Targets
               PROVE  /\ rows[t].sent = 0 /\ rows[t].received = 0 /\ LinesOf(t) = {}
    BY FS_EmptySet DEF TableMatchesPanel
  <2> QED BY DEF Init, NoRow, LinesOf
<1>2. TypeOK /\ TypeOK' /\ TableMatchesPanel /\ [Next]_vars => TableMatchesPanel'
  <2> SUFFICES ASSUME TypeOK, TypeOK', TableMatchesPanel, [Next]_vars
               PROVE  TableMatchesPanel'
    OBVIOUS
  <2>1. CASE UNCHANGED <<rows, panel, logCleared>>
    BY <2>1 DEF TableMatchesPanel, LinesOf
  <2>2. CASE DrainOne
    BY <2>2, TableDrain DEF TableMatchesPanel, LinesOf
  <2>3. CASE panel' = <<>> /\ \A t \in Targets : rows'[t].sent = 0 /\ rows'[t].received = 0
    <3>1. \A t \in Targets : LinesOf(t)' = {}
      BY <2>3 DEF LinesOf
    <3>2. \A t \in Targets : /\ {i \in LinesOf(t)' : panel'[i].seq > 0} = {}
                             /\ {i \in LinesOf(t)' : panel'[i].st = "ok"} = {}
      BY <3>1
    <3> QED BY <2>3, <3>1, <3>2, FS_EmptySet DEF TableMatchesPanel, LinesOf
  <2>4. ~DrainOne => \/ UNCHANGED <<rows, panel, logCleared>>
                     \/ StartRefused \/ StartClicked \/ ClearClicked \/ LogClearClicked
    BY DEF Next, UIStep, UserStep, RepaintFrame, InputFrame, DrainEnd, Poll, OtherPage,
       NoClick, EndFrame, SpawnNext, StartFails, StartReturns, StopClicked, Worker,
       Resolve, NextProbe, Ping, Send, Finish, uiVars, vars
  <2>5. StartRefused \/ StartClicked \/ ClearClicked =>
          panel' = <<>> /\ \A t \in Targets : rows'[t].sent = 0 /\ rows'[t].received = 0
    BY DEF StartRefused, StartClicked, ClearClicked, ResetResults, FreshRow, NoRow
  <2>6. CASE LogClearClicked
    BY <2>6 DEF LogClearClicked, TableMatchesPanel
  <2> QED
    BY <2>1, <2>2, <2>3, <2>4, <2>5, <2>6
<1> QED
  BY <1>1, <1>2, TypeCorrect, PTL DEF Spec

-----------------------------------------------------------------------------
(* What is counted.                                                        *)

\* No worker numbers a probe beyond the bound.
SeqBound == \A w \in Workers : wk[w].seq <= MaxProbes

\* Reports of probes to t in a queue.
Waiting(q, t) == {i \in 1 .. Len(q) : q[i].w[2] = t /\ q[i].seq > 0}

\* They are finitely many.
LEMMA WaitingFinite ==
  ASSUME NEW q \in Seq(Reports), NEW t
  PROVE  IsFiniteSet(Waiting(q, t)) /\ Cardinality(Waiting(q, t)) \in Nat
<1>1. Len(q) \in Nat /\ IsFiniteSet(1 .. Len(q))
  BY FS_Interval, LenProperties
<1>2. IsFiniteSet(Waiting(q, t))
  BY <1>1, FS_Subset DEF Waiting
<1> QED BY <1>2, FS_CardinalityType

\* So are the probes reported.
LEMMA ProbesFinite ==
  ASSUME NEW t
  PROVE  IsFiniteSet(ProbesOf(t)) /\ Cardinality(ProbesOf(t)) \in Nat
<1>1. IsFiniteSet(Sessions) /\ IsFiniteSet(1 .. MaxProbes)
  BY FS_Interval DEF Sessions
<1>2. IsFiniteSet(Sessions \X (1 .. MaxProbes))
  BY <1>1, FS_Product
<1>3. ProbesOf(t) \subseteq Sessions \X (1 .. MaxProbes)
  BY DEF ProbesOf
<1>4. IsFiniteSet(ProbesOf(t))
  BY <1>2, <1>3, FS_Subset
<1> QED BY <1>4, FS_CardinalityType

\* Sending a report adds it to the channel, if it is one of a probe to t.
LEMMA ReportSent ==
  ASSUME NEW q \in Seq(Reports), NEW e \in Reports, NEW t
  PROVE  Cardinality(Waiting(Append(q, e), t))
           = Cardinality(Waiting(q, t)) + IF e.w[2] = t /\ e.seq > 0 THEN 1 ELSE 0
<1> DEFINE S == Waiting(q, t)
           n == Len(q) + 1
<1>1. /\ Len(q) \in Nat /\ Len(Append(q, e)) = n /\ Append(q, e)[n] = e
      /\ \A i \in 1 .. Len(q) : Append(q, e)[i] = q[i]
  BY AppendProperties, LenProperties
<1>2. n \notin S /\ IsFiniteSet(S) /\ Cardinality(S) \in Nat
  <2>1. n \notin S
    BY <1>1 DEF Waiting
  <2> QED BY <2>1, WaitingFinite
<1>3. Waiting(Append(q, e), t) = IF e.w[2] = t /\ e.seq > 0 THEN S \cup {n} ELSE S
  BY <1>1 DEF Waiting
<1>4. Cardinality(S \cup {n}) = Cardinality(S) + 1
  BY <1>2, FS_AddElement
<1> QED BY <1>2, <1>3, <1>4

\* Draining the oldest report takes it from the channel.
LEMMA ReportDrained ==
  ASSUME NEW q \in Seq(Reports), q # <<>>, NEW t
  PROVE  Cardinality(Waiting(q, t))
           = Cardinality(Waiting(Tail(q), t))
               + IF Head(q).w[2] = t /\ Head(q).seq > 0 THEN 1 ELSE 0
<1> DEFINE S == Waiting(q, t)
           T == Waiting(Tail(q), t)
           f == [i \in T |-> i + 1]
<1>1. /\ Len(q) \in Nat \ {0} /\ Len(Tail(q)) = Len(q) - 1
      /\ \A i \in 1 .. Len(Tail(q)) : Tail(q)[i] = q[i + 1]
      /\ Head(q) = q[1] /\ Tail(q) \in Seq(Reports)
  BY HeadTailProperties, EmptySeq
<1>2. IsFiniteSet(S) /\ IsFiniteSet(T) /\ Cardinality(S) \in Nat /\ Cardinality(T) \in Nat
  BY <1>1, WaitingFinite
<1>3. \A i \in T : i \in Nat /\ i + 1 \in S \ {1}
  BY <1>1 DEF Waiting
<1>4. \A j \in S \ {1} : j \in Nat /\ j - 1 \in T /\ (j - 1) + 1 = j
  BY <1>1 DEF Waiting
<1>5. f \in Bijection(T, S \ {1})
  <2> HIDE DEF S, T
  <2>1. f \in [T -> S \ {1}]
    BY <1>3
  <2>2. \A a, b \in T : f[a] = f[b] => a = b
    BY <1>3
  <2>3. \A j \in S \ {1} : \E i \in T : f[i] = j
    BY <1>4
  <2> QED BY <2>1, <2>2, <2>3 DEF Bijection, Injection, Surjection, IsInjective
<1>6. Cardinality(S \ {1}) = Cardinality(T)
  <2> HIDE DEF f, S, T
  <2>1. ExistsBijection(T, S \ {1})
    BY <1>5 DEF ExistsBijection
  <2> QED BY <1>2, <2>1, FS_Bijection
<1>7. 1 \in S <=> Head(q).w[2] = t /\ Head(q).seq > 0
  BY <1>1 DEF Waiting
<1>8. Cardinality(S \ {1}) = IF 1 \in S THEN Cardinality(S) - 1 ELSE Cardinality(S)
  BY <1>2, FS_RemoveElement
<1> QED BY <1>2, <1>6, <1>7, <1>8

\* Reports that wait are those in the channel.
LEMMA WaitingInChannel ==
  ASSUME TypeOK, TypeOK', NEW t
  PROVE  WaitingOf(t) = Waiting(chan, t) /\ WaitingOf(t)' = Waiting(chan', t)
<1>1. DOMAIN chan = 1 .. Len(chan) /\ DOMAIN chan' = 1 .. Len(chan')
  BY DEF TypeOK
<1> QED BY <1>1 DEF WaitingOf, Waiting

\* Where no worker has sent more, no probe more has been reported.
LEMMA SameProbes ==
  ASSUME NEW t \in Targets, \A w \in Workers : LastSent(w)' = LastSent(w)
  PROVE  ProbesOf(t)' = ProbesOf(t)
<1>1. \A s \in Sessions : LastSent(<<s, t>>)' = LastSent(<<s, t>>)
  BY DEF Workers
<1> QED BY <1>1 DEF ProbesOf

\* A worker that has sent one report more has reported one probe more.
LEMMA OneMoreProbe ==
  ASSUME NEW w \in Workers, NEW n \in Nat, n < MaxProbes,
         LastSent(w) = n, LastSent(w)' = n + 1,
         \A v \in Workers : v # w => LastSent(v)' = LastSent(v)
  PROVE  /\ Cardinality(ProbesOf(w[2])') = Cardinality(ProbesOf(w[2])) + 1
         /\ \A t \in Targets : t # w[2] => ProbesOf(t)' = ProbesOf(t)
<1> PICK s \in Sessions, u \in Targets : w = <<s, u>>
  BY DEF Workers
<1>1. ASSUME NEW t \in Targets, t # u PROVE ProbesOf(t)' = ProbesOf(t)
  <2>1. \A r \in Sessions : <<r, t>> \in Workers /\ <<r, t>> # w
    BY <1>1 DEF Workers
  <2> QED BY <2>1 DEF ProbesOf
<1> DEFINE new == <<s, n + 1>>
<1>2. new \notin ProbesOf(u) /\ new \in ProbesOf(u)'
  BY DEF ProbesOf
<1>3. ProbesOf(u)' = ProbesOf(u) \cup {new}
  <2>1. ASSUME NEW r \in Sessions, NEW m \in 1 .. MaxProbes
        PROVE  <<r, m>> \in ProbesOf(u)' <=> <<r, m>> \in ProbesOf(u) \cup {new}
    <3>1. CASE r = s
      BY <3>1 DEF ProbesOf
    <3>2. CASE r # s
      <4>1. <<r, u>> \in Workers /\ <<r, u>> # w
        BY <3>2 DEF Workers
      <4> QED BY <3>2, <4>1 DEF ProbesOf
    <3> QED BY <3>1, <3>2
  <2>2. /\ ProbesOf(u)' \subseteq Sessions \X (1 .. MaxProbes)
        /\ ProbesOf(u) \cup {new} \subseteq Sessions \X (1 .. MaxProbes)
    BY DEF ProbesOf
  <2> QED BY <2>1, <2>2
<1>4. Cardinality(ProbesOf(u) \cup {new}) = Cardinality(ProbesOf(u)) + 1
  BY <1>2, ProbesFinite, FS_AddElement
<1> QED BY <1>1, <1>3, <1>4

\* The three numbers of the account of a target.
LEMMA AccountType ==
  ASSUME TypeOK, TypeOK', NEW t \in Targets
  PROVE  /\ Cardinality(ProbesOf(t)) \in Nat /\ Cardinality(WaitingOf(t)) \in Nat
         /\ rows[t].sent \in Nat
         /\ Cardinality(WaitingOf(t)') \in Nat /\ rows'[t].sent \in Nat
<1>1. Cardinality(Waiting(chan, t)) \in Nat /\ Cardinality(Waiting(chan', t)) \in Nat
  BY WaitingFinite DEF TypeOK
<1>2. rows[t].sent \in Nat /\ rows'[t].sent \in Nat
  BY DEF TypeOK, Rows
<1> QED BY <1>1, <1>2, WaitingInChannel, ProbesFinite

\* Sending moves one probe to the channel, unless the name was not resolved.
LEMMA SendCounts ==
  ASSUME TypeOK, TypeOK', OrderInv, SeqBound, NEW w \in Workers, Send(w),
         NEW t \in Targets
  PROVE  Forgotten(t)' = Forgotten(t)
<1> DEFINE e == [w |-> w, seq |-> wk[w].seq, st |-> wk[w].st]
<1>1. /\ wk[w] \in WorkerStates /\ wk[w].pc = "send"
      /\ wk' = [wk EXCEPT ![w] = [@ EXCEPT !.pc = "loop"]]
      /\ UNCHANGED rows /\ chan' = Append(chan, e)
  BY DEF Send, TypeOK, uiVars
<1>2. /\ e \in Reports /\ e.w = w /\ e.seq = wk[w].seq /\ w[2] \in Targets
      /\ wk[w].seq \in Nat /\ wk[w].seq <= MaxProbes
  BY <1>1 DEF Reports, WorkerStates, SeqBound, Workers
<1>3. wk'[w].pc = "loop" /\ wk'[w].seq = wk[w].seq
  BY <1>1 DEF WorkerStates, TypeOK
<1>4. \A v \in Workers : v # w => LastSent(v)' = LastSent(v)
  BY <1>1 DEF LastSent, TypeOK
<1> HIDE DEF e
<1>5. Cardinality(WaitingOf(t)') = Cardinality(WaitingOf(t))
        + IF w[2] = t /\ wk[w].seq > 0 THEN 1 ELSE 0
  <2>1. chan \in Seq(Reports)
    BY DEF TypeOK
  <2> QED BY <1>1, <1>2, <2>1, ReportSent, WaitingInChannel
<1>6. CASE wk[w].seq = 0
  <2>1. LastSent(w)' = LastSent(w)
    BY <1>1, <1>3, <1>6 DEF LastSent
  <2>2. ProbesOf(t)' = ProbesOf(t)
    BY <1>4, <2>1, SameProbes
  <2>3. Cardinality(WaitingOf(t)') = Cardinality(WaitingOf(t))
    BY <1>5, <1>6, AccountType
  <2> QED BY <1>1, <2>2, <2>3 DEF Forgotten
<1>7. CASE wk[w].seq > 0
  <2> DEFINE n == wk[w].seq - 1
  <2>1. n \in Nat /\ n < MaxProbes /\ n + 1 = wk[w].seq
    BY <1>2, <1>7
  <2>2. LastSent(w) = n /\ LastSent(w)' = n + 1
    BY <1>1, <1>2, <1>3, <1>7 DEF LastSent
  <2> HIDE DEF n
  <2>3. /\ Cardinality(ProbesOf(w[2])') = Cardinality(ProbesOf(w[2])) + 1
        /\ \A u \in Targets : u # w[2] => ProbesOf(u)' = ProbesOf(u)
    BY <1>4, <2>1, <2>2, OneMoreProbe
  <2>4. CASE w[2] = t
    <3>1. Cardinality(WaitingOf(t)') = Cardinality(WaitingOf(t)) + 1
      BY <1>5, <1>7, <2>4
    <3>2. Cardinality(ProbesOf(t)') = Cardinality(ProbesOf(t)) + 1
      BY <2>3, <2>4
    <3> QED BY <1>1, <3>1, <3>2, AccountType DEF Forgotten
  <2>5. CASE w[2] # t
    <3>1. Cardinality(WaitingOf(t)') = Cardinality(WaitingOf(t))
      BY <1>5, <2>5, AccountType
    <3>2. ProbesOf(t)' = ProbesOf(t)
      BY <2>3, <2>5
    <3> QED BY <1>1, <3>1, <3>2 DEF Forgotten
  <2> QED BY <2>4, <2>5
<1> QED BY <1>2, <1>6, <1>7

\* Draining moves one probe from the channel to the row.
LEMMA DrainCounts ==
  ASSUME TypeOK, TypeOK', DrainOne, NEW t \in Targets
  PROVE  Forgotten(t)' = Forgotten(t)
<1> PICK e \in Reports : e = Head(chan)
  BY DEF TypeOK, DrainOne
<1>1. /\ chan \in Seq(Reports) /\ chan # <<>> /\ chan' = Tail(chan)
      /\ rows' = [rows EXCEPT ![e.w[2]] = Counted(rows[e.w[2]], e)]
      /\ wk' = wk
  BY DEF DrainOne, workerVars, TypeOK
<1>2. ProbesOf(t)' = ProbesOf(t)
  BY <1>1, SameProbes DEF LastSent
<1>3. Cardinality(WaitingOf(t)) = Cardinality(WaitingOf(t)')
        + IF e.w[2] = t /\ e.seq > 0 THEN 1 ELSE 0
  BY <1>1, ReportDrained, WaitingInChannel
<1>4. rows'[t].sent = rows[t].sent + IF e.w[2] = t /\ e.seq > 0 THEN 1 ELSE 0
  <2>1. CASE e.w[2] = t
    <3>1. rows'[t] = Counted(rows[t], e)
      BY <1>1, <2>1 DEF TypeOK
    <3> QED BY <2>1, <3>1, AccountType DEF Counted
  <2>2. CASE e.w[2] # t
    <3>1. rows'[t] = rows[t]
      BY <1>1, <2>2 DEF TypeOK
    <3> QED BY <2>2, <3>1, AccountType
  <2> QED BY <2>1, <2>2
<1>5. /\ Cardinality(WaitingOf(t)) \in Nat /\ Cardinality(WaitingOf(t)') \in Nat
      /\ Cardinality(ProbesOf(t)) \in Nat
      /\ rows[t].sent \in Nat /\ rows'[t].sent \in Nat
  BY AccountType
<1>6. Cardinality(ProbesOf(t)') = Cardinality(ProbesOf(t))
  BY <1>2
<1>7. CASE e.w[2] = t /\ e.seq > 0
  <2>1. /\ Cardinality(WaitingOf(t)) = Cardinality(WaitingOf(t)') + 1
        /\ rows'[t].sent = rows[t].sent + 1
    BY <1>3, <1>4, <1>7
  <2> QED BY <1>5, <1>6, <2>1 DEF Forgotten
<1>8. CASE ~(e.w[2] = t /\ e.seq > 0)
  <2>1. /\ Cardinality(WaitingOf(t)) = Cardinality(WaitingOf(t)')
        /\ rows'[t].sent = rows[t].sent
    BY <1>3, <1>4, <1>5, <1>8
  <2> QED BY <1>6, <2>1 DEF Forgotten
<1> QED BY <1>7, <1>8

\* The other steps of the UI thread send nothing and receive nothing; a row is
\* cleared by a click, or stays.
LEMMA ClicksCount ==
  ASSUME TypeOK, TypeOK', UIStep \/ UserStep, ~DrainOne, OrderInv,
         NEW t \in Targets
  PROVE  \/ Forgotten(t)' = Forgotten(t)
         \/ /\ ui = "tab" /\ rows'[t].sent = 0
            /\ Forgotten(t)' = Forgotten(t) + rows[t].sent
<1>1. chan' = chan
  BY DEF UIStep, UserStep, RepaintFrame, InputFrame, DrainEnd, Poll, OtherPage,
     NoClick, EndFrame, SpawnNext, StartFails, StartReturns, StopClicked,
     StartRefused, StartClicked, ClearClicked, LogClearClicked
<1>2. ProbesOf(t)' = ProbesOf(t)
  <2>1. CASE SpawnNext
    <3>1. PICK u \in todo : wk' = [wk EXCEPT ![<<nsess, u>>] = [@ EXCEPT !.pc = "resolve"]]
      BY <2>1 DEF SpawnNext
    <3> DEFINE w == <<nsess, u>>
    <3>2. wk[w].pc = "none" /\ w \in Workers
      BY <2>1 DEF SpawnNext, OrderInv, TypeOK, Workers, Sessions
    <3>3. wk'[w].pc = "resolve" /\ wk'[w].seq = wk[w].seq
      BY <3>1, <3>2 DEF TypeOK, WorkerStates
    <3>4. \A v \in Workers : v # w => wk'[v] = wk[v]
      BY <3>1 DEF TypeOK
    <3> HIDE DEF w
    <3>5. \A v \in Workers : LastSent(v)' = LastSent(v)
      BY <3>2, <3>3, <3>4 DEF LastSent
    <3> QED BY <3>5, SameProbes
  <2>2. CASE ~SpawnNext
    <3>1. wk' = wk
      BY <2>2 DEF UIStep, UserStep, RepaintFrame, InputFrame, DrainEnd, Poll,
         OtherPage, NoClick, EndFrame, StartFails, StartReturns, StopClicked,
         StartRefused, StartClicked, ClearClicked, LogClearClicked, workerVars
    <3> QED BY <3>1, SameProbes DEF LastSent
  <2> QED BY <2>1, <2>2
<1>3. WaitingOf(t)' = WaitingOf(t)
  BY <1>1 DEF WaitingOf
<1>4. CASE rows' = rows
  BY <1>2, <1>3, <1>4 DEF Forgotten
<1>5. CASE StartRefused \/ StartClicked \/ ClearClicked
  <2>1. ui = "tab" /\ rows'[t].sent = 0
    BY <1>5 DEF StartRefused, StartClicked, ClearClicked, Click, ResetResults,
       FreshRow, NoRow
  <2> QED BY <1>2, <1>3, <2>1, AccountType DEF Forgotten
<1> QED
  BY <1>4, <1>5 DEF UIStep, UserStep, RepaintFrame, InputFrame, DrainEnd, Poll,
     OtherPage, NoClick, EndFrame, SpawnNext, StartFails, StartReturns,
     StopClicked, LogClearClicked

\* The probes of a worker are numbered up to the bound.
LEMMA SeqBoundStays ==
  ASSUME TypeOK, TypeOK', SeqBound, [Next]_vars
  PROVE  SeqBound'
<1>1. ASSUME NEW w \in Workers, Worker(w), NEW v \in Workers
      PROVE  wk'[v].seq <= MaxProbes
  <2>1. CASE v # w
    BY <1>1, <2>1, WorkerFacts DEF SeqBound
  <2>2. CASE v = w /\ NextProbe(w)
    <3>1. /\ wk[w] \in WorkerStates /\ wk[w].seq < MaxProbes
          /\ wk' = [wk EXCEPT ![w] = [@ EXCEPT !.pc = "ping", !.seq = wk[w].seq + 1]]
      BY <2>2 DEF NextProbe, TypeOK
    <3>2. wk'[w].seq = wk[w].seq + 1 /\ wk[w].seq \in Nat
      BY <3>1 DEF TypeOK, WorkerStates
    <3> QED BY <2>2, <3>1, <3>2
  <2>3. CASE v = w /\ ~NextProbe(w)
    <3>1. wk[w] \in WorkerStates
      BY DEF TypeOK
    <3>2. CASE Resolve(w)
      <4>1. \/ wk'[w] = [wk[w] EXCEPT !.pc = "loop"]
            \/ wk'[w] = [wk[w] EXCEPT !.pc = "send", !.st = "error"]
        BY <3>2 DEF Resolve, TypeOK
      <4>2. wk'[w].seq = wk[w].seq
        BY <3>1, <4>1 DEF WorkerStates
      <4> QED BY <2>3, <4>2 DEF SeqBound
    <3>3. CASE Ping(w)
      <4>1. \E o \in Outcomes : wk'[w] = [wk[w] EXCEPT !.pc = "send", !.st = o]
        BY <3>3 DEF Ping, TypeOK
      <4> QED BY <2>3, <3>1, <4>1 DEF SeqBound
    <3>4. CASE Send(w) \/ Finish(w)
      <4>1. \E p \in {"loop", "done"} : wk'[w] = [wk[w] EXCEPT !.pc = p]
        BY <3>4 DEF Send, Finish, TypeOK
      <4> QED BY <2>3, <3>1, <4>1 DEF SeqBound
    <3> QED BY <1>1, <2>3, <3>2, <3>3, <3>4 DEF Worker
  <2> QED BY <2>1, <2>2, <2>3
<1>2. CASE UIStep \/ UserStep
  <2>1. CASE SpawnNext
    <3>1. PICK u \in todo : wk' = [wk EXCEPT ![<<nsess, u>>] = [@ EXCEPT !.pc = "resolve"]]
      BY <2>1 DEF SpawnNext
    <3>2. ASSUME NEW v \in Workers PROVE wk'[v].seq = wk[v].seq
      BY <3>1 DEF TypeOK, WorkerStates
    <3> QED BY <3>2 DEF SeqBound
  <2>2. CASE ~SpawnNext
    <3>1. wk' = wk
      BY <1>2, <2>2 DEF UIStep, UserStep, RepaintFrame, InputFrame, DrainOne,
         DrainEnd, Poll, OtherPage, NoClick, EndFrame, StartFails, StartReturns,
         StopClicked, StartRefused, StartClicked, ClearClicked, LogClearClicked,
         workerVars
    <3> QED BY <3>1 DEF SeqBound
  <2> QED BY <2>1, <2>2
<1>3. CASE UNCHANGED vars
  BY <1>3 DEF vars, SeqBound
<1> QED BY <1>1, <1>2, <1>3 DEF Next, SeqBound

\* Every probe reported by a worker of a target, of any session, is counted in
\* the row of the target exactly once; only a click that clears the row takes it
\* out again.
THEOREM ProbesAreCounted == Spec => ProbesCountedOnce
<1> DEFINE Account ==
      \A t \in Targets :
        \/ Forgotten(t)' = Forgotten(t)
        \/ /\ ui = "tab" /\ rows'[t].sent = 0
           /\ Forgotten(t)' = Forgotten(t) + rows[t].sent
<1>1. Init => SeqBound
  BY DEF Init, SeqBound, Unborn
<1>2. TypeOK /\ TypeOK' /\ SeqBound /\ [Next]_vars => SeqBound'
  BY SeqBoundStays
<1>3. TypeOK /\ TypeOK' /\ OrderInv /\ SeqBound /\ [Next]_vars => [Account]_vars
  <2> SUFFICES ASSUME TypeOK, TypeOK', OrderInv, SeqBound, Next,
                      NEW t \in Targets
               PROVE  \/ Forgotten(t)' = Forgotten(t)
                      \/ /\ ui = "tab" /\ rows'[t].sent = 0
                         /\ Forgotten(t)' = Forgotten(t) + rows[t].sent
    OBVIOUS
  <2>1. ASSUME NEW w \in Workers, Worker(w), ~Send(w)
        PROVE  Forgotten(t)' = Forgotten(t)
    <3>1. ProbesOf(t)' = ProbesOf(t)
      BY <2>1, LastSentStays, SameProbes
    <3>2. UNCHANGED <<chan, rows>>
      BY <2>1 DEF Worker, Resolve, NextProbe, Ping, Finish, uiVars
    <3> QED BY <3>1, <3>2 DEF Forgotten, WaitingOf
  <2> QED BY <2>1, SendCounts, DrainCounts, ClicksCount DEF Next
<1> QED
  BY <1>1, <1>2, <1>3, TypeCorrect, OrderInvariant, PTL
     DEF Spec, ProbesCountedOnce
=============================================================================
