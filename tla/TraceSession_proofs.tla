------------------------ MODULE TraceSession_proofs ------------------------
(***************************************************************************)
(* Theorems about TraceSession, for any targets, hop limit and bounds.     *)
(*                                                                         *)
(* WorkersInv follows each target worker with its child and the child map; *)
(* EventsInv follows the hop threads and what the channel holds of them.   *)
(***************************************************************************)
EXTENDS TraceSession, FiniteSetTheorems, SequenceTheorems, TLAPS

USE TraceAssumption

\* A child lives from the spawn to the wait, in the map until it is removed;
\* its worker has read all its output by then.
ChildPlace(t) ==
  /\ pc[t] \in {"none", "resolve", "spawn"} => child[t] = "none"
  /\ pc[t] \in {"register", "stdout", "stderr", "wait"} =>
       child[t] \in {"running", "blocked", "closing", "exited"}
  /\ pc[t] \in {"stderr", "wait"} => child[t] \in {"closing", "exited"}
  /\ pc[t] \in {"decide", "names", "join"} => child[t] = "reaped"
  /\ pc[t] = "done" => child[t] \in {"none", "reaped"}
  /\ t \in inMap <=> pc[t] \in {"stdout", "stderr"}
  /\ t \in missed => pc[t] # "none"

\* Target workers and children; only a started session is held or stopped.
WorkersInv ==
  /\ TypeOK
  /\ \A t \in Targets : ChildPlace(t)
  /\ held \/ stop \/ ui = "kill" => \E t \in Targets : pc[t] # "none"
  /\ StopKillsChildren

\* No event at a place from i on is a hop list of t.
NoListFrom(i, t) == \A j \in i .. Len(chan) : chan[j].k = "hops" => chan[j].t # t

\* The newest list of the target lists the hop: in the channel, or shown.
Announced(x) ==
  \/ NoListFrom(1, x[1]) /\ x[2] \in Listed(rows[x[1]])
  \/ \E i \in 1 .. Len(chan) :
       /\ chan[i].k = "hops" /\ chan[i].t = x[1] /\ x[2] \in Listed(chan[i].hops)
       /\ NoListFrom(i + 1, x[1])

\* A hop thread was spawned by a worker that joins it, after its hop was
\* announced; its samples come behind the announcement.
HopPlace(x) ==
  /\ hopPC[x] # "none" => pc[x[1]] \in {"join", "done"} /\ Announced(x)
  /\ HopLive(x) => pc[x[1]] = "join"
  /\ samples[x] # 0 => hopPC[x] # "none" /\ NoListFrom(1, x[1])
SamplePlace(i) ==
  chan[i].k = "sample" =>
    hopPC[<<chan[i].t, chan[i].h>>] # "none" /\ NoListFrom(i, chan[i].t)

\* Only a worker that has ended has reported a final status.
Finals ==
  /\ FinalStatusIsLast
  /\ \A i \in 1 .. Len(chan) : IsFinal(chan[i]) => pc[chan[i].t] = "done"
  /\ \A t \in Targets : status[t] \in FinalMessages => pc[t] = "done"

EventsInv ==
  /\ \A x \in HopThreads : HopPlace(x)
  /\ \A i \in 1 .. Len(chan) : SamplePlace(i)
  /\ Finals
  /\ NoSampleLost

TraceInv == WorkersInv /\ EventsInv

-----------------------------------------------------------------------------
(* Type correctness.                                                       *)

\* A hop list closed with its destination is a hop list.
LEMMA BuildType ==
  ASSUME NEW hops \in HopLists
  PROVE  BuildHopInfos(hops) \in HopLists
BY DEF BuildHopInfos, HopLists, Answers

\* The events workers and hop threads send.
LEMMA SentTypes ==
  /\ \A t \in Targets, m \in Messages : StatusEvent(t, m) \in Events
  /\ \A t \in Targets, hops \in HopLists : HopsEvent(t, hops) \in Events
  /\ \A x \in HopThreads : [k |-> "sample", t |-> x[1], h |-> x[2]] \in Events
BY DEF StatusEvent, HopsEvent, Events, HopThreads

\* What an event received carries.
LEMMA EventTypes ==
  ASSUME NEW e \in Events
  PROVE  /\ e.k \in {"status", "hops", "sample"} /\ e.t \in Targets
         /\ e.k = "status" => e.m \in Messages
         /\ e.k = "hops" => e.hops \in HopLists
         /\ e.k = "sample" => e.h \in HopNumbers /\ <<e.t, e.h>> \in HopThreads
BY DEF Events, HopThreads

\* The UI's steps keep the types.
LEMMA TypeUI ==
  ASSUME TypeOK, Start \/ StopClicked \/ KillAll \/ Drop \/ Show
  PROVE  TypeOK'
<1> USE DEF TypeOK, workerVars, shownVars
<1>1. CASE Start
  BY <1>1 DEF Start, TargetPCs
<1>2. CASE StopClicked
  BY <1>2 DEF StopClicked
<1>5. CASE Drop
  BY <1>5 DEF Drop
<1>3. CASE KillAll
  BY <1>3 DEF KillAll, ChildStates
<1>4. CASE Show
  <2> DEFINE e == Head(chan)
  <2>1. e \in Events /\ Tail(chan) \in Seq(Events)
    BY <1>4, HeadTailProperties DEF Show
  <2>2. status' \in [Targets -> Messages \cup {"starting"}]
    BY <1>4, <2>1, EventTypes DEF Show
  <2>3. rows' \in [Targets -> HopLists]
    BY <1>4, <2>1, EventTypes DEF Show
  <2>4. samples' \in [HopThreads -> Nat]
    <3>1. \A x \in HopThreads : 0 \in Nat /\ samples[x] \in Nat /\ samples[x] + 1 \in Nat
      OBVIOUS
    <3>2. CASE samples' = samples
      BY <3>2
    <3>3. CASE samples' = [x \in HopThreads |->
                IF x[1] = e.t /\ rows[e.t][x[2]] # e.hops[x[2]]
                THEN 0 ELSE samples[x]]
      <4> DEFINE reset(x) == x[1] = e.t /\ rows[e.t][x[2]] # e.hops[x[2]]
      <4>1. samples' = [x \in HopThreads |-> IF reset(x) THEN 0 ELSE samples[x]]
        BY <3>3
      <4> HIDE DEF reset
      <4> QED BY <3>1, <4>1
    <3>4. CASE samples' = [samples EXCEPT ![<<e.t, e.h>>] =
                             IF e.h \in Listed(rows[e.t]) THEN @ + 1 ELSE @]
      BY <3>1, <3>4
    <3> QED BY <1>4, <3>2, <3>3, <3>4 DEF Show
  <2> QED BY <1>4, <2>1, <2>2, <2>3, <2>4 DEF Show
<1> QED BY <1>1, <1>2, <1>3, <1>4, <1>5

\* So do a target worker's.
LEMMA TypeTarget ==
  ASSUME TypeOK, NEW t \in Targets, TargetWorker(t)
  PROVE  TypeOK'
<1> USE DEF TypeOK, workerVars, shownVars, Goto, ReturnWith
<1>1. chan' \in Seq(Events)
  <2>1. \A m \in Messages : Append(chan, StatusEvent(t, m)) \in Seq(Events)
    BY SentTypes
  <2>2. {"discovering", "monitoring", "error", "nohops", "stopped"} \subseteq Messages
    BY DEF Messages
  <2>3. CASE ReadLine(t)
    <3>1. path'[t] \in HopLists
      BY <2>3 DEF ReadLine, HopLists, Answers, HopNumbers
    <3> QED BY <2>3, <3>1, BuildType, SentTypes DEF ReadLine
  <2>4. CASE Monitor(t)
    <3>1. Append(chan, HopsEvent(t, BuildHopInfos(path[t]))) \in Seq(Events)
      BY BuildType, SentTypes
    <3>2. StatusEvent(t, "monitoring") \in Events
      BY <2>2, SentTypes
    <3> QED BY <2>4, <3>1, <3>2 DEF Monitor
  <2>5. CASE ~ReadLine(t) /\ ~Monitor(t)
    <3>1. chan' = chan \/ \E m \in Messages : chan' = Append(chan, StatusEvent(t, m))
      BY <2>2, <2>5
      DEF TargetWorker, Resolve, Spawn, Register, StdoutEnd, Remove, Wait, Decide, Join
    <3>2. CASE chan' = chan
      BY <3>2
    <3>3. ASSUME NEW m \in Messages, chan' = Append(chan, StatusEvent(t, m))
          PROVE  chan' \in Seq(Events)
      BY <2>1, <3>3
    <3> QED BY <3>1, <3>2, <3>3
  <2> QED BY <2>3, <2>4, <2>5
<1>2. pc' \in [Targets -> TargetPCs]
  <2>1. pc' = pc \/ \E p \in TargetPCs : Goto(t, p)
    BY DEF TargetWorker, Resolve, Spawn, Register, ReadLine, StdoutEnd, Remove,
           Wait, Decide, Monitor, Join, TargetPCs
  <2> QED BY <2>1
<1>3. lock' \in Targets \cup {"free"} /\ \A u \in Targets : lock' = u <=> pc'[u] = "wait"
  <2>1. CASE Remove(t)
    BY <2>1 DEF Remove
  <2>2. CASE Wait(t)
    BY <2>2 DEF Wait
  <2>3. CASE ~Remove(t) /\ ~Wait(t)
    <3>1. UNCHANGED lock /\ pc[t] # "wait" /\ pc'[t] # "wait"
      BY <2>3 DEF TargetWorker, Resolve, Spawn, Register, ReadLine, StdoutEnd,
                  Decide, Monitor, Join
    <3>2. \A u \in Targets \ {t} : pc'[u] = pc[u]
      BY <2>3 DEF TargetWorker, Resolve, Spawn, Register, ReadLine, StdoutEnd,
                  Decide, Monitor, Join
    <3> QED BY <3>1, <3>2
  <2> QED BY <2>1, <2>2, <2>3
<1>4. child' \in [Targets -> ChildStates]
  <2>1. child' = child \/ \E c \in ChildStates : child' = [child EXCEPT ![t] = c]
    BY DEF TargetWorker, Resolve, Spawn, Register, ReadLine, StdoutEnd, Remove,
           Wait, Decide, Monitor, Join, ChildStates
  <2> QED BY <2>1
<1>5. inMap' \in SUBSET Targets /\ missed' \in SUBSET Targets
  BY DEF TargetWorker, Resolve, Spawn, Register, ReadLine, StdoutEnd, Remove,
         Wait, Decide, Monitor, Join
<1>6. lines' \in [Targets -> Nat] /\ path' \in [Targets -> HopLists]
  <2>1. CASE ReadLine(t)
    <3>1. path' \in [Targets -> HopLists]
      BY <2>1 DEF ReadLine, HopLists, Answers, HopNumbers
    <3>2. lines' \in [Targets -> Nat]
      BY <2>1 DEF ReadLine
    <3> QED BY <3>1, <3>2
  <2>2. CASE ~ReadLine(t)
    BY <2>2 DEF TargetWorker, Resolve, Spawn, Register, StdoutEnd, Remove, Wait,
                Decide, Monitor, Join
  <2> QED BY <2>1, <2>2
<1>7. hopPC' \in [HopThreads -> HopPCs]
  <2>1. CASE Monitor(t)
    BY <2>1 DEF Monitor, HopPCs
  <2>2. CASE ~Monitor(t)
    BY <2>2 DEF TargetWorker, Resolve, Spawn, Register, ReadLine, StdoutEnd,
                Remove, Wait, Decide, Join
  <2> QED BY <2>1, <2>2
<1>8. UNCHANGED <<held, stop, ui, seq, last, csv, status, rows, samples>>
  BY DEF TargetWorker, Resolve, Spawn, Register, ReadLine, StdoutEnd, Remove,
         Wait, Decide, Monitor, Join
<1> QED BY <1>1, <1>2, <1>3, <1>4, <1>5, <1>6, <1>7, <1>8

\* So do a hop thread's and a child's.
LEMMA TypeHop ==
  ASSUME TypeOK, NEW x \in HopThreads, HopWorker(x)
  PROVE  TypeOK'
<1>1. UNCHANGED hopFrame
  BY DEF HopWorker, NextProbe, Ping, Send, Finish, hopFrame, shownVars
<1>2. chan' \in Seq(Events)
  <2>1. CASE Send(x)
    BY <2>1, SentTypes DEF Send, TypeOK
  <2>2. CASE ~Send(x)
    BY <2>2 DEF HopWorker, NextProbe, Ping, Finish, TypeOK
  <2> QED BY <2>1, <2>2
<1>3. hopPC' \in [HopThreads -> HopPCs]
  <2>1. \E p \in HopPCs : hopPC' = [hopPC EXCEPT ![x] = p]
    BY DEF HopWorker, NextProbe, Ping, Send, Finish, HopPCs
  <2>2. hopPC \in [HopThreads -> HopPCs]
    BY DEF TypeOK
  <2> QED BY <2>1, <2>2
<1>4. seq' \in [HopThreads -> Nat]
  <2>1. seq' = seq \/ seq' = [seq EXCEPT ![x] = @ + 1]
    BY DEF HopWorker, NextProbe, Ping, Send, Finish
  <2>2. seq \in [HopThreads -> Nat]
    BY DEF TypeOK
  <2> QED BY <2>1, <2>2
<1>5. csv' \in [HopThreads -> Nat]
  <2>1. csv' = csv \/ csv' = [csv EXCEPT ![x] = @ + 1]
    BY DEF HopWorker, NextProbe, Ping, Send, Finish
  <2>2. csv \in [HopThreads -> Nat]
    BY DEF TypeOK
  <2> QED BY <2>1, <2>2
<1>6. last' \in [HopThreads -> {"ok", "fatal"}]
  <2>1. last' = last \/ \E r \in {"ok", "fatal"} : last' = [last EXCEPT ![x] = r]
    BY DEF HopWorker, NextProbe, Ping, Send, Finish
  <2>2. last \in [HopThreads -> {"ok", "fatal"}]
    BY DEF TypeOK
  <2> QED BY <2>1, <2>2
<1> QED BY <1>1, <1>2, <1>3, <1>4, <1>5, <1>6 DEF TypeOK, hopFrame, shownVars

\* A step of a child keeps the types.
LEMMA TypeChild ==
  ASSUME TypeOK, NEW t \in Targets, Child(t)
  PROVE  TypeOK'
<1>1. UNCHANGED childFrame
  BY DEF Child, ChildEnds, ChildBlocks, ChildExits
<1>2. child' \in [Targets -> ChildStates]
  BY DEF TypeOK, Child, ChildEnds, ChildBlocks, ChildExits, ChildStates
<1> QED BY <1>1, <1>2 DEF TypeOK, childFrame, shownVars

-----------------------------------------------------------------------------
(* Target workers, children and the child map.                             *)

\* No worker has been spawned.
LEMMA WorkersInit == Init => WorkersInv
<1> SUFFICES ASSUME Init PROVE WorkersInv
  OBVIOUS
<1> USE DEF Init
<1>1. NoHops \in HopLists
  BY DEF NoHops, HopLists
<1>2. <<>> \in Seq(Events)
  OBVIOUS
<1>3. /\ path \in [Targets -> HopLists] /\ rows \in [Targets -> HopLists]
      /\ lines \in [Targets -> Nat]
      /\ seq \in [HopThreads -> Nat] /\ csv \in [HopThreads -> Nat]
      /\ samples \in [HopThreads -> Nat]
  BY <1>1
<1>4. /\ pc \in [Targets -> TargetPCs] /\ child \in [Targets -> ChildStates]
      /\ hopPC \in [HopThreads -> HopPCs]
      /\ last \in [HopThreads -> {"ok", "fatal"}]
      /\ status \in [Targets -> Messages \cup {"starting"}]
  BY DEF TargetPCs, ChildStates, HopPCs
<1>5. \A t \in Targets : lock = t <=> pc[t] = "wait"
  OBVIOUS
<1>6. TypeOK
  BY <1>2, <1>3, <1>4, <1>5 DEF TypeOK
<1>7. \A t \in Targets : ChildPlace(t)
  BY DEF ChildPlace
<1> QED BY <1>6, <1>7 DEF WorkersInv, StopKillsChildren

\* A target worker moves itself, its child and its entry only.
LEMMA TargetOwn ==
  ASSUME TypeOK, NEW t \in Targets, TargetWorker(t)
  PROVE  /\ UNCHANGED <<held, stop, ui>>
         /\ \A u \in Targets \ {t} :
              /\ pc'[u] = pc[u] /\ child'[u] = child[u]
              /\ (u \in inMap' <=> u \in inMap) /\ (u \in missed' <=> u \in missed)
         /\ pc[t] \notin {"none", "done"} /\ pc'[t] \in TargetPCs \ {"none"}
<1> USE DEF TypeOK, Goto, ReturnWith
<1>1. \A u \in Targets \ {t} : pc'[u] = pc[u]
  BY DEF TargetWorker, Resolve, Spawn, Register, ReadLine, StdoutEnd, Remove,
         Wait, Decide, Monitor, Join
<1>2. \A u \in Targets \ {t} : child'[u] = child[u]
  BY DEF TargetWorker, Resolve, Spawn, Register, ReadLine, StdoutEnd, Remove,
         Wait, Decide, Monitor, Join
<1>3. \A u \in Targets \ {t} :
        (u \in inMap' <=> u \in inMap) /\ (u \in missed' <=> u \in missed)
  BY DEF TargetWorker, Resolve, Spawn, Register, ReadLine, StdoutEnd, Remove,
         Wait, Decide, Monitor, Join
<1>4. pc[t] \notin {"none", "done"} /\ pc'[t] \in TargetPCs \ {"none"}
  BY DEF TargetWorker, Resolve, Spawn, Register, ReadLine, StdoutEnd, Remove,
         Wait, Decide, Monitor, Join, TargetPCs
<1>5. UNCHANGED <<held, stop, ui>>
  BY DEF TargetWorker, Resolve, Spawn, Register, ReadLine, StdoutEnd, Remove,
         Wait, Decide, Monitor, Join
<1> QED BY <1>1, <1>2, <1>3, <1>4, <1>5

\* A target worker and its child go through their lives together.
LEMMA WorkersTarget ==
  ASSUME WorkersInv, NEW t \in Targets, TargetWorker(t)
  PROVE  WorkersInv'
<1> USE DEF WorkersInv
<1>1. TypeOK'
  BY TypeTarget
<1>2. ChildPlace(t)'
  <2> USE DEF ChildPlace, Goto, ReturnWith, TypeOK
  <2>1. CASE Resolve(t)
    BY <2>1 DEF Resolve
  <2>2. CASE Spawn(t)
    <3>1. pc[t] = "spawn" /\ child[t] = "none" /\ t \notin inMap
          /\ inMap' = inMap /\ missed' = missed
      BY <2>2 DEF Spawn
    <3>2. \/ child'[t] = "running" /\ pc'[t] = "register"
          \/ child'[t] = "none" /\ pc'[t] = "done"
      BY <2>2, <3>1 DEF Spawn
    <3> QED BY <3>1, <3>2
  <2>3. CASE Register(t)
    BY <2>3 DEF Register
  <2>4. CASE ReadLine(t)
    BY <2>4 DEF ReadLine
  <2>5. CASE StdoutEnd(t)
    BY <2>5 DEF StdoutEnd
  <2>6. CASE Remove(t)
    BY <2>6 DEF Remove
  <2>7. CASE Wait(t)
    BY <2>7 DEF Wait
  <2>8. CASE Decide(t)
    BY <2>8 DEF Decide
  <2>9. CASE Monitor(t)
    BY <2>9 DEF Monitor
  <2>10. CASE Join(t)
    BY <2>10 DEF Join
  <2> QED BY <2>1, <2>2, <2>3, <2>4, <2>5, <2>6, <2>7, <2>8, <2>9, <2>10
          DEF TargetWorker
<1>3. \A u \in Targets : ChildPlace(u)'
  BY <1>2, TargetOwn DEF ChildPlace
<1>4. \E u \in Targets : pc'[u] # "none"
  BY TargetOwn
<1>5. StopKillsChildren'
  <2> SUFFICES ASSUME stop, ui = "free", NEW u \in Targets,
                      child'[u] \in {"running", "blocked"}
               PROVE  u \in missed' \/ pc'[u] \in {"register", "none"}
    BY TargetOwn DEF StopKillsChildren
  <2>1. CASE u # t
    BY <2>1, TargetOwn DEF StopKillsChildren
  <2>2. CASE u = t
    <3>1. CASE Register(t)
      BY <2>2, <3>1 DEF Register
    <3>2. CASE ~Register(t)
      <4>1. t \in missed \/ pc[t] \in {"register", "none"} \/ Spawn(t)
        BY <2>2, <3>2
        DEF StopKillsChildren, TargetWorker, Resolve, ReadLine, StdoutEnd, Remove,
            Wait, Decide, Monitor, Join, TypeOK
      <4>2. missed' = missed
        BY <3>2
        DEF TargetWorker, Resolve, Spawn, ReadLine, StdoutEnd, Remove, Wait, Decide,
            Monitor, Join
      <4>3. pc[t] \notin {"register", "none"}
        BY <3>2
        DEF TargetWorker, Resolve, Spawn, ReadLine, StdoutEnd, Remove, Wait, Decide,
            Monitor, Join
      <4>4. CASE Spawn(t)
        <5>1. child[t] = "none"
          BY <4>4 DEF Spawn, ChildPlace
        <5> QED BY <2>2, <4>4, <5>1 DEF Spawn, Goto, ReturnWith, TypeOK
      <4> QED BY <2>2, <4>1, <4>2, <4>3, <4>4
    <3> QED BY <3>1, <3>2
  <2> QED BY <2>1, <2>2
<1> QED BY <1>1, <1>3, <1>4, <1>5

\* Stop kills what is in the map; the page's other steps touch no worker.
LEMMA WorkersUI ==
  ASSUME WorkersInv, Start \/ StopClicked \/ KillAll \/ Drop \/ Show
  PROVE  WorkersInv'
<1> USE DEF WorkersInv, workerVars, shownVars
<1>1. TypeOK'
  BY TypeUI
<1>2. CASE Start
  <2>1. \A t \in Targets : child'[t] = "none"
    BY <1>2 DEF Start, ChildPlace
  <2>2. \A t \in Targets : ChildPlace(t)'
    BY <1>2 DEF Start, ChildPlace
  <2>3. \E t \in Targets : pc'[t] # "none"
    <3>1. PICK T \in (SUBSET Targets) \ {{}}, ok \in BOOLEAN :
            pc' = [t \in Targets |-> IF t \in T THEN "resolve" ELSE "none"]
      BY <1>2 DEF Start
    <3>2. PICK t \in Targets : t \in T
      BY <3>1
    <3> QED BY <3>1, <3>2
  <2>4. StopKillsChildren'
    BY <1>2, <2>1 DEF Start, StopKillsChildren
  <2> QED BY <1>1, <2>2, <2>3, <2>4
<1>3. CASE StopClicked
  <2>1. \A t \in Targets : ChildPlace(t)'
    BY <1>3 DEF StopClicked, ChildPlace
  <2>2. held /\ UNCHANGED pc /\ ui' = "kill"
    BY <1>3 DEF StopClicked
  <2> QED BY <1>1, <2>1, <2>2 DEF StopKillsChildren
<1>4. CASE KillAll
  <2>1. UNCHANGED <<held, stop, inMap, pc>> /\ missed' = {} /\ ui = "kill"
    BY <1>4 DEF KillAll
  <2>2. \A t \in Targets :
          \/ child'[t] = child[t]
             /\ ~(t \in inMap /\ child[t] \in {"running", "blocked"})
          \/ child'[t] = "closing" /\ child[t] \in {"running", "blocked"}
    BY <1>4 DEF KillAll
  <2>3. \A t \in Targets : ChildPlace(t)'
    BY <2>1, <2>2 DEF ChildPlace
  <2>4. \A t \in Targets : child'[t] \in {"running", "blocked"} =>
          pc[t] \in {"register", "none"}
    BY <2>2 DEF ChildPlace, TypeOK, TargetPCs
  <2> QED BY <1>1, <2>1, <2>3, <2>4 DEF StopKillsChildren
<1>5. CASE Drop \/ Show
  <2>1. /\ UNCHANGED <<stop, ui, inMap, child, pc, missed>> /\ (held' => held)
    BY <1>5 DEF Drop, Show
  <2>2. \A t \in Targets : ChildPlace(t)'
    BY <2>1 DEF ChildPlace
  <2> QED BY <1>1, <2>1, <2>2 DEF StopKillsChildren
<1> QED BY <1>2, <1>3, <1>4, <1>5

\* Hop threads touch neither, and a child that ends moves on its own.
LEMMA WorkersOthers ==
  ASSUME WorkersInv,
         \/ \E x \in HopThreads : HopWorker(x)
         \/ \E t \in Targets : Child(t)
         \/ UNCHANGED vars
  PROVE  WorkersInv'
<1> USE DEF WorkersInv
<1>1. TypeOK'
  <2>1. CASE UNCHANGED vars
    BY <2>1 DEF vars, workerVars, shownVars, TypeOK
  <2> QED BY <2>1, TypeHop, TypeChild
<1>2. UNCHANGED <<held, stop, ui, inMap, pc, missed>>
  BY DEF HopWorker, NextProbe, Ping, Send, Finish, hopFrame, Child, ChildEnds,
         ChildBlocks, ChildExits, childFrame, vars, workerVars
<1>3. \A t \in Targets :
        \/ child'[t] = child[t]
        \/ child[t] = "running" /\ child'[t] \in {"closing", "blocked"}
        \/ child[t] = "closing" /\ child'[t] = "exited"
  BY DEF HopWorker, NextProbe, Ping, Send, Finish, hopFrame, Child, ChildEnds,
         ChildBlocks, ChildExits, childFrame, vars, workerVars, TypeOK
<1>4. \A t \in Targets : ChildPlace(t)'
  BY <1>2, <1>3 DEF ChildPlace
<1>5. StopKillsChildren'
  BY <1>2, <1>3 DEF StopKillsChildren
<1> QED BY <1>1, <1>2, <1>4, <1>5

\* Every step keeps the invariant of workers and children.
LEMMA WorkersStep == WorkersInv /\ [Next]_vars => WorkersInv'
BY WorkersTarget, WorkersUI, WorkersOthers DEF Next

\* The variables have their types, and the child map is locked just while a
\* worker waits for its child (target_worker).
THEOREM TraceTypeCorrect == Spec => []TypeOK
<1>1. WorkersInv => TypeOK
  BY DEF WorkersInv
<1> QED BY <1>1, WorkersInit, WorkersStep, PTL DEF Spec

\* After Stop no child of the session runs but those put in the map too late
\* (TraceSession::stop, target_worker).
THEOREM StopLeavesNoChild == Spec => []StopKillsChildren
<1>1. WorkersInv => StopKillsChildren
  BY DEF WorkersInv
<1> QED BY <1>1, WorkersInit, WorkersStep, PTL DEF Spec

\* No worker ends before its child was waited for, and no child in the map was
\* (target_worker).
THEOREM NoZombies == Spec => []ChildrenReaped
<1>1. ASSUME WorkersInv PROVE ChildrenReaped
  <2> SUFFICES ASSUME NEW t \in Targets
               PROVE  /\ pc[t] = "done" => child[t] \in {"none", "reaped"}
                      /\ t \in inMap => child[t] \notin {"none", "reaped"}
    BY DEF ChildrenReaped
  <2> QED BY <1>1 DEF WorkersInv, ChildPlace
<1> QED BY <1>1, WorkersInit, WorkersStep, PTL DEF Spec

-----------------------------------------------------------------------------
(* The channel.                                                            *)

IsSample(e, x) == e.k = "sample" /\ <<e.t, e.h>> = x

\* Samples of x in a queue of events.
SamplesIn(q, x) == {i \in 1 .. Len(q) : IsSample(q[i], x)}

\* They are finitely many.
LEMMA SamplesFinite ==
  ASSUME NEW q \in Seq(Events), NEW x
  PROVE  IsFiniteSet(SamplesIn(q, x)) /\ Cardinality(SamplesIn(q, x)) \in Nat
<1>1. Len(q) \in Nat /\ IsFiniteSet(1 .. Len(q))
  BY FS_Interval, LenProperties
<1>2. IsFiniteSet(SamplesIn(q, x))
  BY <1>1, FS_Subset DEF SamplesIn
<1> QED BY <1>2, FS_CardinalityType

\* Sending an event adds it to the samples, if it is one.
LEMMA SentSamples ==
  ASSUME NEW q \in Seq(Events), NEW e \in Events, NEW x
  PROVE  Cardinality(SamplesIn(Append(q, e), x))
           = Cardinality(SamplesIn(q, x)) + IF IsSample(e, x) THEN 1 ELSE 0
<1> DEFINE S == SamplesIn(q, x)
           n == Len(q) + 1
<1>1. /\ Len(q) \in Nat /\ Len(Append(q, e)) = n /\ Append(q, e)[n] = e
      /\ \A i \in 1 .. Len(q) : Append(q, e)[i] = q[i]
  BY AppendProperties, LenProperties
<1>2. n \notin S /\ IsFiniteSet(S) /\ Cardinality(S) \in Nat
  <2>1. n \notin S
    BY <1>1 DEF SamplesIn
  <2> QED BY <2>1, SamplesFinite
<1>3. SamplesIn(Append(q, e), x) = IF IsSample(e, x) THEN S \cup {n} ELSE S
  BY <1>1 DEF SamplesIn
<1>4. Cardinality(S \cup {n}) = Cardinality(S) + 1
  BY <1>2, FS_AddElement
<1> QED BY <1>2, <1>3, <1>4

\* Receiving the oldest event takes it from the samples, if it is one.
LEMMA ReceivedSamples ==
  ASSUME NEW q \in Seq(Events), q # <<>>, NEW x
  PROVE  Cardinality(SamplesIn(q, x))
           = Cardinality(SamplesIn(Tail(q), x)) + IF IsSample(Head(q), x) THEN 1 ELSE 0
<1> DEFINE S == SamplesIn(q, x)
           T == SamplesIn(Tail(q), x)
           f == [i \in T |-> i + 1]
<1>1. /\ Len(q) \in Nat \ {0} /\ Len(Tail(q)) = Len(q) - 1
      /\ \A i \in 1 .. Len(Tail(q)) : Tail(q)[i] = q[i + 1]
      /\ Head(q) = q[1] /\ Tail(q) \in Seq(Events)
  BY HeadTailProperties, EmptySeq
<1>2. IsFiniteSet(S) /\ IsFiniteSet(T) /\ Cardinality(S) \in Nat /\ Cardinality(T) \in Nat
  BY <1>1, SamplesFinite
<1>3. \A i \in T : i \in Nat /\ i + 1 \in S \ {1}
  BY <1>1 DEF SamplesIn
<1>4. \A j \in S \ {1} : j \in Nat /\ j - 1 \in T /\ (j - 1) + 1 = j
  BY <1>1 DEF SamplesIn
<1>5. f \in Bijection(T, S \ {1})
  <2> HIDE DEF S, T
  <2>1. f \in [T -> S \ {1}]
    BY <1>3
  <2>2. \A a, b \in T : f[a] = f[b] => a = b
    BY <1>3
  <2>3. \A j \in S \ {1} : \E i \in T : f[i] = j
    BY <1>4
  <2> QED BY <2>1, <2>2, <2>3 DEF Bijection, Injection, Surjection, IsInjective
<1>6. Cardinality(S \ {1}) = Cardinality(T)
  <2> HIDE DEF f, S, T
  <2>1. ExistsBijection(T, S \ {1})
    BY <1>5 DEF ExistsBijection
  <2> QED BY <1>2, <2>1, FS_Bijection
<1>7. 1 \in S <=> IsSample(Head(q), x)
  BY <1>1 DEF SamplesIn
<1>8. Cardinality(S \ {1}) = IF 1 \in S THEN Cardinality(S) - 1 ELSE Cardinality(S)
  BY <1>2, FS_RemoveElement
<1> QED BY <1>2, <1>6, <1>7, <1>8

\* The samples under way are those in the channel.
LEMMA InFlightSamples ==
  \A x : /\ InFlight(x) = Cardinality(SamplesIn(chan, x))
         /\ InFlight(x)' = Cardinality(SamplesIn(chan', x))
BY DEF InFlight, SamplesIn, IsSample

\* The channel with one more event.
LEMMA Sent ==
  ASSUME TypeOK, NEW e \in Events, chan' = Append(chan, e)
  PROVE  /\ Len(chan) \in Nat /\ Len(chan') = Len(chan) + 1
         /\ \A i \in 1 .. Len(chan) : chan'[i] = chan[i] /\ chan[i] \in Events
         /\ chan'[Len(chan) + 1] = e
         /\ \A i \in 1 .. Len(chan') : i = Len(chan) + 1 \/ i \in 1 .. Len(chan)
         /\ \A i \in 1 .. Len(chan) : i \in 1 .. Len(chan') /\ i \in Nat \ {0}
<1> DEFINE n == Len(chan)
           m == Len(chan')
<1>1. /\ n \in Nat /\ m = n + 1 /\ chan'[n + 1] = e
      /\ \A i \in 1 .. n : chan'[i] = chan[i] /\ chan[i] \in Events
  BY AppendProperties, LenProperties, ElementOfSeq DEF TypeOK
<1> HIDE DEF n, m
<1>2. /\ \A i \in 1 .. m : i = n + 1 \/ i \in 1 .. n
      /\ \A i \in 1 .. n : i \in 1 .. m /\ i \in Nat \ {0}
  BY <1>1
<1> QED BY <1>1, <1>2 DEF n, m

\* A list of another target hides no announcement.
LEMMA AnnouncedStays ==
  ASSUME TypeOK, NEW e \in Events, chan' = Append(chan, e), NEW x, UNCHANGED rows,
         e.k = "hops" => e.t # x[1], Announced(x)
  PROVE  Announced(x)'
<1>1. /\ Len(chan) \in Nat /\ Len(chan') = Len(chan) + 1
      /\ \A i \in 1 .. Len(chan) : chan'[i] = chan[i]
      /\ chan'[Len(chan) + 1] = e
  BY Sent
<1>2. \A i \in Nat \ {0} : NoListFrom(i, x[1]) => NoListFrom(i, x[1])'
  <2> SUFFICES ASSUME NEW i \in Nat \ {0}, NoListFrom(i, x[1]),
                      NEW j \in i .. Len(chan'), chan'[j].k = "hops"
               PROVE  chan'[j].t # x[1]
    BY DEF NoListFrom
  <2>1. CASE j = Len(chan) + 1
    BY <1>1, <2>1
  <2>2. CASE j # Len(chan) + 1
    <3>1. j \in i .. Len(chan)
      BY <1>1, <2>2
    <3>2. j \in 1 .. Len(chan)
      BY <3>1
    <3> QED BY <1>1, <3>1, <3>2 DEF NoListFrom
  <2> QED BY <2>1, <2>2
<1>3. CASE NoListFrom(1, x[1]) /\ x[2] \in Listed(rows[x[1]])
  BY <1>2, <1>3 DEF Announced, Listed
<1>4. ASSUME NEW i \in 1 .. Len(chan), chan[i].k = "hops", chan[i].t = x[1],
             x[2] \in Listed(chan[i].hops), NoListFrom(i + 1, x[1])
      PROVE  Announced(x)'
  <2>1. i \in 1 .. Len(chan') /\ chan'[i] = chan[i] /\ i + 1 \in Nat \ {0}
    BY <1>1
  <2> QED BY <1>2, <1>4, <2>1 DEF Announced, Listed
<1> QED BY <1>3, <1>4 DEF Announced

-----------------------------------------------------------------------------
(* Target workers.                                                         *)

\* Before the join a target has no hop threads, samples or final status.
LEMMA BeforeJoin ==
  ASSUME EventsInv, TypeOK, NEW t \in Targets, pc[t] \notin {"join", "done"}
  PROVE  /\ \A x \in HopThreads : x[1] = t => hopPC[x] = "none" /\ samples[x] = 0
         /\ \A i \in 1 .. Len(chan) :
              chan[i].t = t => chan[i].k # "sample" /\ ~IsFinal(chan[i])
         /\ status[t] \notin FinalMessages
<1> USE DEF EventsInv, HopPlace
<1>1. \A x \in HopThreads : x[1] = t => hopPC[x] = "none" /\ samples[x] = 0
  OBVIOUS
<1>2. ASSUME NEW i \in 1 .. Len(chan), chan[i].t = t
      PROVE  chan[i].k # "sample" /\ ~IsFinal(chan[i])
  <2>1. chan[i] \in Events
    BY ElementOfSeq DEF TypeOK
  <2>2. SamplePlace(i) /\ (IsFinal(chan[i]) => pc[chan[i].t] = "done")
    BY <1>2 DEF Finals
  <2>3. chan[i].k = "sample" => <<t, chan[i].h>> \in HopThreads
    BY <1>2, <2>1, EventTypes
  <2>4. chan[i].k = "sample" => hopPC[<<t, chan[i].h>>] # "none"
    BY <1>2, <2>2 DEF SamplePlace
  <2> QED BY <1>1, <1>2, <2>2, <2>3, <2>4
<1> QED BY <1>1, <1>2 DEF Finals

\* Steps that send nothing and start no hop thread, by workers before the join.
LEMMA QuietKeeps ==
  ASSUME EventsInv, TypeOK,
         UNCHANGED <<chan, hopPC, csv, samples, rows, status>>,
         \A t \in Targets : pc'[t] = pc[t]
                            \/ (pc[t] \notin {"join", "done"} /\ pc'[t] # "done")
  PROVE  EventsInv'
<1> USE DEF EventsInv
<1>1. \A i, t : NoListFrom(i, t)' = NoListFrom(i, t)
  BY DEF NoListFrom
<1>2. \A x : Announced(x)' = Announced(x)
  BY <1>1 DEF Announced, Listed
<1>3. \A x \in HopThreads : HopPlace(x)'
  <2> SUFFICES ASSUME NEW x \in HopThreads PROVE HopPlace(x)'
    OBVIOUS
  <2>1. HopPlace(x) /\ x[1] \in Targets
    BY DEF HopThreads
  <2>2. HopLive(x)' = HopLive(x) /\ (HopLive(x) => hopPC[x] # "none")
    BY DEF HopLive
  <2> QED BY <1>1, <1>2, <2>1, <2>2 DEF HopPlace
<1>4. \A i \in 1 .. Len(chan) : SamplePlace(i)'
  BY <1>1 DEF SamplePlace
<1>5. Finals'
  <2>1. \A t \in Targets : pc'[t] = "done" <=> pc[t] = "done"
    OBVIOUS
  <2>2. \A i \in 1 .. Len(chan) : chan[i] \in Events /\ chan[i].t \in Targets
    BY ElementOfSeq, EventTypes DEF TypeOK
  <2>3. FinalStatusIsLast'
    BY <2>1 DEF Finals, FinalStatusIsLast
  <2>4. \A i \in 1 .. Len(chan) : IsFinal(chan[i]) => pc'[chan[i].t] = "done"
    BY <2>1, <2>2 DEF Finals
  <2>5. \A t \in Targets : status[t] \in FinalMessages => pc'[t] = "done"
    BY <2>1 DEF Finals
  <2> QED BY <2>3, <2>4, <2>5 DEF Finals
<1>6. NoSampleLost'
  BY DEF NoSampleLost, InFlight
<1> QED BY <1>3, <1>4, <1>5, <1>6

\* A target worker sends one event of its own, and ends with a final status.
LEMMA ReportKeeps ==
  ASSUME EventsInv, TypeOK, NEW t \in Targets, NEW e \in Events,
         UNCHANGED <<hopPC, csv, samples, rows, status>>,
         chan' = Append(chan, e), e.t = t, e.k # "sample",
         e.k = "hops" => pc[t] # "join",
         pc[t] # "done", pc'[t] = "done" <=> IsFinal(e),
         pc[t] = "join" => pc'[t] = "done",
         \A u \in Targets \ {t} : pc'[u] = pc[u],
         pc[t] = "join" => \A h \in HopNumbers : ~HopLive(<<t, h>>)
  PROVE  EventsInv'
<1> USE DEF EventsInv
<1>1. /\ Len(chan) \in Nat /\ Len(chan') = Len(chan) + 1
      /\ \A i \in 1 .. Len(chan) :
           /\ chan'[i] = chan[i] /\ chan[i] \in Events /\ chan[i].t \in Targets
           /\ chan[i].k = "sample" => <<chan[i].t, chan[i].h>> \in HopThreads
      /\ chan'[Len(chan) + 1] = e
  BY Sent, EventTypes
<1>2. ASSUME NEW u, u = t => e.k # "hops", NEW i \in Nat \ {0}, NoListFrom(i, u)
      PROVE  NoListFrom(i, u)'
  <2> SUFFICES ASSUME NEW j \in i .. Len(chan'), chan'[j].k = "hops"
               PROVE  chan'[j].t # u
    BY DEF NoListFrom
  <2>1. CASE j = Len(chan) + 1
    BY <1>1, <1>2, <2>1
  <2>2. CASE j # Len(chan) + 1
    <3>1. j \in i .. Len(chan) /\ j \in 1 .. Len(chan)
      BY <1>1, <2>2
    <3> QED BY <1>1, <1>2, <3>1 DEF NoListFrom
  <2> QED BY <2>1, <2>2
<1>3. \A x \in HopThreads : hopPC[x] # "none" => x[1] # t \/ e.k # "hops"
  BY BeforeJoin
<1>4. \A x \in HopThreads : HopPlace(x)'
  <2> SUFFICES ASSUME NEW x \in HopThreads PROVE HopPlace(x)'
    OBVIOUS
  <2>1. HopPlace(x) /\ x[1] \in Targets /\ x[2] \in HopNumbers /\ x = <<x[1], x[2]>>
    BY DEF HopThreads
  <2>2. HopLive(x)' = HopLive(x) /\ (HopLive(x) => hopPC[x] # "none")
    BY DEF HopLive
  <2>3. hopPC[x] # "none" => Announced(x)'
    <3> SUFFICES ASSUME hopPC[x] # "none" PROVE Announced(x)'
      OBVIOUS
    <3>1. (e.k = "hops" => e.t # x[1]) /\ Announced(x)
      BY <1>3, <2>1 DEF HopPlace
    <3> QED BY <3>1, AnnouncedStays
  <2>4. samples[x] # 0 => NoListFrom(1, x[1])'
    BY <1>2, <1>3, <2>1 DEF HopPlace
  <2>5. hopPC[x] # "none" => pc'[x[1]] \in {"join", "done"}
    BY <2>1 DEF HopPlace
  <2>6. HopLive(x) => pc'[x[1]] = "join"
    <3>1. HopLive(x) => pc[x[1]] = "join"
      BY <2>1 DEF HopPlace
    <3>2. HopLive(x) => x[1] # t
      BY <2>1, <3>1
    <3> QED BY <2>1, <3>1, <3>2
  <2> QED BY <2>1, <2>2, <2>3, <2>4, <2>5, <2>6 DEF HopPlace
<1>5. ASSUME NEW i \in 1 .. Len(chan') PROVE SamplePlace(i)'
  <2>1. CASE i = Len(chan) + 1
    BY <1>1, <2>1 DEF SamplePlace
  <2>2. CASE i # Len(chan) + 1 /\ chan[i].k = "sample"
    <3>1. i \in 1 .. Len(chan) /\ i \in Nat \ {0} /\ chan'[i] = chan[i]
      BY <1>1, <2>2
    <3>2. <<chan[i].t, chan[i].h>> \in HopThreads
      BY <1>1, <2>2, <3>1
    <3>3. hopPC[<<chan[i].t, chan[i].h>>] # "none" /\ NoListFrom(i, chan[i].t)
      BY <2>2, <3>1 DEF SamplePlace
    <3>4. chan[i].t = t => e.k # "hops"
      BY <1>3, <3>2, <3>3
    <3>5. NoListFrom(i, chan[i].t)'
      BY <1>2, <3>1, <3>3, <3>4
    <3> QED BY <3>1, <3>3, <3>5 DEF SamplePlace
  <2>3. CASE i # Len(chan) + 1 /\ chan[i].k # "sample"
    BY <1>1, <2>3 DEF SamplePlace
  <2> QED BY <2>1, <2>2, <2>3
<1>6. Finals'
  <2>1. /\ \A i \in 1 .. Len(chan) : chan[i].t = t => ~IsFinal(chan[i])
        /\ status[t] \notin FinalMessages
    BY DEF Finals
  <2>2. \A i, j \in 1 .. Len(chan') :
          IsFinal(chan'[i]) /\ chan'[j].t = chan'[i].t => j <= i
    <3> SUFFICES ASSUME NEW i \in 1 .. Len(chan'), NEW j \in 1 .. Len(chan'),
                        IsFinal(chan'[i]), chan'[j].t = chan'[i].t
                 PROVE  j <= i
      OBVIOUS
    <3>1. CASE i = Len(chan) + 1
      BY <1>1, <3>1
    <3>2. CASE i # Len(chan) + 1
      <4>1. i \in 1 .. Len(chan) /\ chan'[i] = chan[i]
        BY <1>1, <3>2
      <4>2. j # Len(chan) + 1
        BY <1>1, <2>1, <4>1
      <4>3. j \in 1 .. Len(chan) /\ chan'[j] = chan[j]
        BY <1>1, <4>2
      <4> QED BY <4>1, <4>3 DEF Finals, FinalStatusIsLast
    <3> QED BY <3>1, <3>2
  <2>3. \A i \in 1 .. Len(chan') : status[chan'[i].t] \notin FinalMessages
    BY <1>1, <2>1 DEF Finals, FinalStatusIsLast
  <2>4. \A u \in Targets : pc'[u] = "done" =>
          \/ status[u] \in FinalMessages
          \/ \E i \in 1 .. Len(chan') : chan'[i].t = u /\ IsFinal(chan'[i])
    <3> SUFFICES ASSUME NEW u \in Targets, pc'[u] = "done"
                 PROVE  \/ status[u] \in FinalMessages
                        \/ \E i \in 1 .. Len(chan') :
                             chan'[i].t = u /\ IsFinal(chan'[i])
      OBVIOUS
    <3>1. CASE u = t
      <4>1. Len(chan) + 1 \in 1 .. Len(chan')
        BY <1>1
      <4> QED BY <1>1, <3>1, <4>1
    <3>2. CASE u # t
      <4>1. \/ status[u] \in FinalMessages
            \/ \E i \in 1 .. Len(chan) : chan[i].t = u /\ IsFinal(chan[i])
        BY <3>2 DEF Finals, FinalStatusIsLast
      <4>2. \A i \in 1 .. Len(chan) : i \in 1 .. Len(chan') /\ chan'[i] = chan[i]
        BY <1>1
      <4> QED BY <4>1, <4>2
    <3> QED BY <3>1, <3>2
  <2>5. \A i \in 1 .. Len(chan') : IsFinal(chan'[i]) => pc'[chan'[i].t] = "done"
    <3> SUFFICES ASSUME NEW i \in 1 .. Len(chan'), IsFinal(chan'[i])
                 PROVE  pc'[chan'[i].t] = "done"
      OBVIOUS
    <3>1. CASE i = Len(chan) + 1
      BY <1>1, <3>1
    <3>2. CASE i # Len(chan) + 1
      <4>1. i \in 1 .. Len(chan) /\ chan'[i] = chan[i]
        BY <1>1, <3>2
      <4>2. pc[chan[i].t] = "done" /\ chan[i].t \in Targets \ {t}
        BY <1>1, <2>1, <4>1 DEF Finals
      <4> QED BY <4>1, <4>2
    <3> QED BY <3>1, <3>2
  <2>6. \A u \in Targets : status[u] \in FinalMessages => pc'[u] = "done"
    BY <2>1 DEF Finals
  <2> QED BY <2>2, <2>3, <2>4, <2>5, <2>6 DEF Finals, FinalStatusIsLast, IsFinal
<1>7. NoSampleLost'
  <2>1. \A x : InFlight(x)' = InFlight(x)
    <3> TAKE x
    <3>1. chan \in Seq(Events) /\ ~IsSample(e, x)
      BY DEF TypeOK, IsSample
    <3>2. Cardinality(SamplesIn(Append(chan, e), x)) = Cardinality(SamplesIn(chan, x)) + 0
      BY <3>1, SentSamples
    <3> QED BY <3>1, <3>2, SamplesFinite, InFlightSamples
  <2> QED BY <2>1 DEF NoSampleLost
<1> QED BY <1>4, <1>5, <1>6, <1>7

\* The final hop list goes before the threads of the hops it lists.
LEMMA MonitorKeeps ==
  ASSUME EventsInv, TypeOK, NEW t \in Targets, Monitor(t)
  PROVE  EventsInv'
<1> USE DEF EventsInv
<1> DEFINE infos == BuildHopInfos(path[t])
           listing == HopsEvent(t, infos)
           telling == StatusEvent(t, "monitoring")
           mid == Append(chan, listing)
           n == Len(chan)
<1>1. /\ listing \in Events /\ telling \in Events
      /\ chan' = Append(mid, telling) /\ pc[t] = "names"
      /\ pc' = [pc EXCEPT ![t] = "join"]
      /\ UNCHANGED <<csv, samples, rows, status>>
  <2>1. infos \in HopLists /\ "monitoring" \in Messages
    BY BuildType DEF TypeOK, Messages
  <2> QED BY <2>1, SentTypes DEF Monitor, Goto, shownVars
<1>2. hopPC' = [x \in HopThreads |-> IF x[1] = t /\ x[2] \in Answering(infos)
                                     THEN "loop" ELSE hopPC[x]]
  BY DEF Monitor
<1>3. /\ listing.k = "hops" /\ listing.t = t /\ listing.hops = infos
      /\ telling.k = "status" /\ telling.t = t /\ ~IsFinal(listing) /\ ~IsFinal(telling)
  BY DEF HopsEvent, StatusEvent, IsFinal, FinalMessages
<1> HIDE DEF listing, telling, infos
<1>4. /\ n \in Nat /\ Len(chan') = n + 2 /\ mid \in Seq(Events)
      /\ chan'[n + 1] = listing /\ chan'[n + 2] = telling
      /\ \A i \in 1 .. n :
           /\ chan'[i] = chan[i] /\ chan[i] \in Events /\ chan[i].t \in Targets
           /\ chan[i].k = "sample" => <<chan[i].t, chan[i].h>> \in HopThreads
  <2>1. /\ n \in Nat /\ Len(mid) = n + 1 /\ mid \in Seq(Events)
        /\ mid[n + 1] = listing /\ \A i \in 1 .. n : mid[i] = chan[i]
    BY <1>1, AppendProperties, LenProperties DEF TypeOK
  <2>2. /\ Len(chan') = n + 2 /\ chan'[n + 2] = telling
        /\ \A i \in 1 .. n + 1 : chan'[i] = mid[i]
    BY <1>1, <2>1, AppendProperties
  <2>3. \A i \in 1 .. n : chan[i] \in Events
    BY ElementOfSeq DEF TypeOK
  <2> QED BY <2>1, <2>2, <2>3, EventTypes
<1> HIDE DEF mid
<1>11. /\ \A i \in 1 .. n : i \in 1 .. Len(chan') /\ i \in Nat \ {0} /\ i + 1 \in Nat \ {0}
       /\ \A i \in 1 .. Len(chan') : i \in 1 .. n \/ i = n + 1 \/ i = n + 2
       /\ n + 1 \in 1 .. Len(chan')
  <2> DEFINE m == Len(chan')
  <2>1. n \in Nat /\ m = n + 2
    BY <1>4
  <2> HIDE DEF n, m
  <2>2. /\ \A i \in 1 .. n : i \in 1 .. m /\ i \in Nat \ {0} /\ i + 1 \in Nat \ {0}
        /\ \A i \in 1 .. m : i \in 1 .. n \/ i = n + 1 \/ i = n + 2
        /\ n + 1 \in 1 .. m
    BY <2>1
  <2> QED BY <2>2 DEF m
<1>5. ASSUME NEW u, u # t, NEW i \in Nat \ {0}, NoListFrom(i, u)
      PROVE  NoListFrom(i, u)'
  <2> SUFFICES ASSUME NEW j \in i .. Len(chan'), chan'[j].k = "hops"
               PROVE  chan'[j].t # u
    BY DEF NoListFrom
  <2>1. CASE j > n
    <3>1. j = n + 1 \/ j = n + 2
      BY <1>4, <2>1
    <3> QED BY <1>3, <1>4, <1>5, <3>1
  <2>2. CASE ~(j > n)
    <3>1. j \in i .. n /\ j \in 1 .. n
      BY <1>4, <2>2
    <3> QED BY <1>4, <1>5, <3>1 DEF NoListFrom
  <2> QED BY <2>1, <2>2
<1>6. /\ \A x \in HopThreads : x[1] = t => hopPC[x] = "none" /\ samples[x] = 0
      /\ \A i \in 1 .. n : chan[i].t = t => chan[i].k # "sample" /\ ~IsFinal(chan[i])
      /\ status[t] \notin FinalMessages
  BY <1>1, BeforeJoin
<1>7. ASSUME NEW x \in HopThreads PROVE HopPlace(x)'
  <2>1. HopPlace(x) /\ x[1] \in Targets
    BY DEF HopThreads
  <2>2. CASE x[1] # t
    <3>1. hopPC'[x] = hopPC[x] /\ pc'[x[1]] = pc[x[1]]
      BY <1>1, <1>2, <2>1, <2>2 DEF TypeOK
    <3>2. NoListFrom(1, x[1]) => NoListFrom(1, x[1])'
      BY <1>5, <2>2
    <3>3. Announced(x) => Announced(x)'
      <4>1. ASSUME NEW i \in 1 .. n, chan[i].k = "hops", chan[i].t = x[1],
                   x[2] \in Listed(chan[i].hops), NoListFrom(i + 1, x[1])
            PROVE  Announced(x)'
        <5>1. i \in 1 .. Len(chan') /\ i + 1 \in Nat \ {0} /\ chan'[i] = chan[i]
          BY <1>4, <1>11
        <5>2. NoListFrom(i + 1, x[1])'
          BY <1>5, <2>2, <4>1, <5>1
        <5> QED BY <4>1, <5>1, <5>2 DEF Announced, Listed
      <4>2. CASE NoListFrom(1, x[1]) /\ x[2] \in Listed(rows[x[1]])
        BY <1>1, <3>2, <4>2 DEF Announced, Listed
      <4> QED BY <4>1, <4>2 DEF Announced
    <3> QED BY <1>1, <2>1, <3>1, <3>2, <3>3 DEF HopPlace, HopLive
  <2>3. CASE x[1] = t
    <3>1. samples'[x] = 0 /\ pc'[t] = "join"
      BY <1>1, <1>6, <2>3 DEF TypeOK
    <3>2. hopPC'[x] # "none" => x[2] \in Answering(infos)
      BY <1>2, <1>6, <2>3
    <3>3. x[2] \in Answering(infos) => Announced(x)'
      <4>0. PICK m \in Nat : m = n + 1
        BY <1>4
      <4>1. m \in 1 .. Len(chan') /\ chan'[m] = listing
        BY <1>4, <1>11, <4>0
      <4>2. NoListFrom(m + 1, x[1])'
        <5> SUFFICES ASSUME NEW j \in n + 2 .. Len(chan')
                     PROVE  chan'[j].k # "hops"
          BY <1>4, <2>3, <4>0 DEF NoListFrom
        <5>1. j = n + 2
          BY <1>4
        <5> QED BY <1>3, <1>4, <5>1
      <4>3. x[2] \in Answering(infos) => x[2] \in HopNumbers /\ infos[x[2]] # "absent"
        BY DEF Answering
      <4>4. /\ chan'[m].k = "hops" /\ chan'[m].t = x[1]
            /\ chan'[m].hops = infos
        BY <1>3, <2>3, <4>1
      <4> SUFFICES ASSUME x[2] \in Answering(infos) PROVE Announced(x)'
        OBVIOUS
      <4>5. x[2] \in {h \in HopNumbers : chan'[m].hops[h] # "absent"}
        BY <4>3, <4>4
      <4> QED BY <4>1, <4>2, <4>4, <4>5 DEF Announced, Listed
    <3> QED BY <2>3, <3>1, <3>2, <3>3 DEF HopPlace, HopLive
  <2> QED BY <2>2, <2>3
<1>8. ASSUME NEW i \in 1 .. Len(chan') PROVE SamplePlace(i)'
  <2>1. CASE i > n
    <3>1. i = n + 1 \/ i = n + 2
      BY <1>4, <2>1
    <3> QED BY <1>3, <1>4, <3>1 DEF SamplePlace
  <2>2. CASE ~(i > n) /\ chan[i].k = "sample"
    <3>1. i \in 1 .. n /\ i \in Nat \ {0} /\ chan'[i] = chan[i]
      <4>1. i \in 1 .. n
        BY <1>4, <1>11, <2>2
      <4> QED BY <4>1, <1>4, <1>11
    <3>2. <<chan[i].t, chan[i].h>> \in HopThreads
      BY <1>4, <2>2, <3>1
    <3>3. hopPC[<<chan[i].t, chan[i].h>>] # "none" /\ NoListFrom(i, chan[i].t)
      BY <2>2, <3>1 DEF SamplePlace
    <3>4. chan[i].t # t
      BY <1>6, <2>2, <3>1
    <3>5. NoListFrom(i, chan[i].t)'
      BY <1>5, <3>1, <3>3, <3>4
    <3>6. hopPC'[<<chan[i].t, chan[i].h>>] # "none"
      BY <1>2, <3>2, <3>3
    <3> QED BY <3>1, <3>5, <3>6 DEF SamplePlace
  <2>3. CASE ~(i > n) /\ chan[i].k # "sample"
    <3>1. i \in 1 .. n
      BY <1>4, <1>11, <2>3
    <3> QED BY <1>4, <2>3, <3>1 DEF SamplePlace
  <2> QED BY <2>1, <2>2, <2>3
<1>9. Finals'
  <2>1. \A i \in 1 .. Len(chan') : IsFinal(chan'[i]) =>
          i \in 1 .. n /\ chan'[i] = chan[i] /\ chan[i].t # t
    <3> SUFFICES ASSUME NEW i \in 1 .. Len(chan'), IsFinal(chan'[i])
                 PROVE  i \in 1 .. n /\ chan'[i] = chan[i] /\ chan[i].t # t
      OBVIOUS
    <3>1. i # n + 1 /\ i # n + 2
      BY <1>3, <1>4
    <3>2. i \in 1 .. n
      BY <1>4, <3>1
    <3> QED BY <1>4, <1>6, <3>2
  <2>2. \A j \in 1 .. Len(chan') : chan'[j].t = t \/ (j \in 1 .. n /\ chan'[j] = chan[j])
    <3> SUFFICES ASSUME NEW j \in 1 .. Len(chan')
                 PROVE  chan'[j].t = t \/ (j \in 1 .. n /\ chan'[j] = chan[j])
      OBVIOUS
    <3>1. j \in 1 .. n \/ j = n + 1 \/ j = n + 2
      BY <1>4
    <3> QED BY <1>3, <1>4, <3>1
  <2>3. \A u \in Targets : pc'[u] = "done" <=> pc[u] = "done"
    BY <1>1 DEF TypeOK
  <2>4. \A i, j \in 1 .. Len(chan') :
          IsFinal(chan'[i]) /\ chan'[j].t = chan'[i].t => j <= i
    <3> SUFFICES ASSUME NEW i \in 1 .. Len(chan'), NEW j \in 1 .. Len(chan'),
                        IsFinal(chan'[i]), chan'[j].t = chan'[i].t
                 PROVE  j <= i
      OBVIOUS
    <3>1. i \in 1 .. n /\ chan'[i] = chan[i] /\ chan[i].t # t
      BY <2>1
    <3>2. j \in 1 .. n /\ chan'[j] = chan[j]
      BY <2>2, <3>1
    <3> QED BY <3>1, <3>2 DEF Finals, FinalStatusIsLast
  <2>5. \A i \in 1 .. Len(chan') : status'[chan'[i].t] \notin FinalMessages
    BY <1>1, <1>6, <2>2 DEF Finals, FinalStatusIsLast
  <2>6. \A u \in Targets : pc'[u] = "done" =>
          \/ status'[u] \in FinalMessages
          \/ \E i \in 1 .. Len(chan') : chan'[i].t = u /\ IsFinal(chan'[i])
    <3> SUFFICES ASSUME NEW u \in Targets, pc[u] = "done"
                 PROVE  \/ status[u] \in FinalMessages
                        \/ \E i \in 1 .. Len(chan') :
                             chan'[i].t = u /\ IsFinal(chan'[i])
      BY <1>1, <2>3
    <3>1. \/ status[u] \in FinalMessages
          \/ \E i \in 1 .. n : chan[i].t = u /\ IsFinal(chan[i])
      BY DEF Finals, FinalStatusIsLast
    <3>2. \A i \in 1 .. n : i \in 1 .. Len(chan') /\ chan'[i] = chan[i]
      BY <1>4, <1>11
    <3> QED BY <3>1, <3>2
  <2>7. \A i \in 1 .. Len(chan') : IsFinal(chan'[i]) => pc'[chan'[i].t] = "done"
    BY <1>4, <2>1, <2>3 DEF Finals
  <2>8. \A u \in Targets : status'[u] \in FinalMessages => pc'[u] = "done"
    BY <1>1, <2>3 DEF Finals
  <2> QED BY <2>4, <2>5, <2>6, <2>7, <2>8 DEF Finals, FinalStatusIsLast, IsFinal
<1>10. NoSampleLost'
  <2> SUFFICES ASSUME NEW x \in HopThreads
               PROVE  csv'[x] = samples'[x] + InFlight(x)'
                                  + (IF hopPC'[x] = "send" THEN 1 ELSE 0)
    BY DEF NoSampleLost
  <2>1. hopPC'[x] = "send" <=> hopPC[x] = "send"
    BY <1>2, <1>6
  <2>2. InFlight(x)' = InFlight(x)
    <3>1. chan \in Seq(Events) /\ ~IsSample(listing, x) /\ ~IsSample(telling, x)
      BY <1>3 DEF TypeOK, IsSample
    <3>2. Cardinality(SamplesIn(mid, x)) = Cardinality(SamplesIn(chan, x)) + 0
      BY <1>1, <3>1, SentSamples DEF mid
    <3>3. Cardinality(SamplesIn(chan', x)) = Cardinality(SamplesIn(mid, x)) + 0
      BY <1>1, <1>4, <3>1, SentSamples
    <3> QED BY <3>1, <3>2, <3>3, SamplesFinite, InFlightSamples
  <2> QED BY <1>1, <2>1, <2>2 DEF NoSampleLost
<1> QED BY <1>7, <1>8, <1>9, <1>10

-----------------------------------------------------------------------------
(* Hop threads and the page.                                               *)

\* A probe is counted when its line is in the log.
LEMMA ProbeKeeps ==
  ASSUME EventsInv, TypeOK, NEW x \in HopThreads,
         NextProbe(x) \/ Ping(x) \/ Finish(x)
  PROVE  EventsInv'
<1> USE DEF EventsInv
<1>1. /\ UNCHANGED <<chan, pc, rows, samples, status>>
      /\ hopPC[x] \in {"loop", "ping"} /\ hopPC'[x] \in {"ping", "send", "done"}
      /\ \A y \in HopThreads \ {x} : hopPC'[y] = hopPC[y] /\ csv'[y] = csv[y]
  BY DEF NextProbe, Ping, Finish, hopFrame, shownVars, TypeOK
<1>2. csv'[x] = csv[x] + IF hopPC'[x] = "send" THEN 1 ELSE 0
  BY DEF NextProbe, Ping, Finish, TypeOK
<1>3. \A i, t : NoListFrom(i, t)' = NoListFrom(i, t)
  BY <1>1 DEF NoListFrom
<1>4. \A y : Announced(y)' = Announced(y)
  BY <1>1, <1>3 DEF Announced, Listed
<1>5. ASSUME NEW y \in HopThreads PROVE HopPlace(y)'
  <2>1. HopPlace(y) /\ (hopPC'[y] # "none" <=> hopPC[y] # "none")
    BY <1>1
  <2>2. HopLive(y)' => HopLive(y)
    BY <1>1 DEF HopLive
  <2> QED BY <1>1, <1>3, <1>4, <2>1, <2>2 DEF HopPlace
<1>6. ASSUME NEW i \in 1 .. Len(chan) PROVE SamplePlace(i)'
  <2>1. chan[i] \in Events /\ SamplePlace(i)
    BY ElementOfSeq DEF TypeOK
  <2>2. chan[i].k = "sample" => <<chan[i].t, chan[i].h>> \in HopThreads
    BY <2>1, EventTypes
  <2>3. chan[i].k = "sample" => hopPC'[<<chan[i].t, chan[i].h>>] # "none"
    BY <1>1, <2>1, <2>2 DEF SamplePlace
  <2> QED BY <1>1, <1>3, <2>1, <2>3 DEF SamplePlace
<1>7. Finals'
  BY <1>1 DEF Finals, FinalStatusIsLast, IsFinal
<1>8. NoSampleLost'
  <2> SUFFICES ASSUME NEW y \in HopThreads
               PROVE  csv'[y] = samples'[y] + InFlight(y)'
                                  + (IF hopPC'[y] = "send" THEN 1 ELSE 0)
    BY DEF NoSampleLost
  <2>1. csv[y] = samples[y] + InFlight(y) + (IF hopPC[y] = "send" THEN 1 ELSE 0)
    BY DEF NoSampleLost
  <2>2. InFlight(y)' = InFlight(y) /\ samples'[y] = samples[y]
    BY <1>1 DEF InFlight
  <2>3. InFlight(y) \in Nat /\ samples[y] \in Nat
    BY SamplesFinite, InFlightSamples DEF TypeOK
  <2> QED BY <1>1, <1>2, <2>1, <2>2, <2>3
<1> QED BY <1>1, <1>5, <1>6, <1>7, <1>8

\* A sample is sent behind the list of its hop, before its worker ends.
LEMMA SendKeeps ==
  ASSUME EventsInv, TypeOK, NEW x \in HopThreads, Send(x)
  PROVE  EventsInv'
<1> USE DEF EventsInv
<1> DEFINE e == [k |-> "sample", t |-> x[1], h |-> x[2]]
<1>1. /\ UNCHANGED <<pc, rows, samples, status, csv>> /\ chan' = Append(chan, e)
      /\ hopPC[x] = "send" /\ hopPC'[x] = "loop"
      /\ \A y \in HopThreads \ {x} : hopPC'[y] = hopPC[y]
  BY DEF Send, hopFrame, shownVars, TypeOK
<1>2. /\ e \in Events /\ e.k = "sample" /\ e.t = x[1] /\ <<e.t, e.h>> = x
      /\ x[1] \in Targets /\ ~IsFinal(e)
  BY SentTypes DEF HopThreads, IsFinal
<1> HIDE DEF e
<1>3. /\ Len(chan) \in Nat /\ Len(chan') = Len(chan) + 1
      /\ \A i \in 1 .. Len(chan) :
           /\ chan'[i] = chan[i] /\ chan[i] \in Events
           /\ chan[i].k = "sample" => <<chan[i].t, chan[i].h>> \in HopThreads
      /\ chan'[Len(chan) + 1] = e
      /\ \A i \in 1 .. Len(chan') : i = Len(chan) + 1 \/ i \in 1 .. Len(chan)
      /\ \A i \in 1 .. Len(chan) : i \in 1 .. Len(chan') /\ i \in Nat \ {0}
  BY <1>1, <1>2, Sent, EventTypes
<1>4. ASSUME NEW u, NEW i \in Nat \ {0}, NoListFrom(i, u) PROVE NoListFrom(i, u)'
  <2> SUFFICES ASSUME NEW j \in i .. Len(chan'), chan'[j].k = "hops"
               PROVE  chan'[j].t # u
    BY DEF NoListFrom
  <2>1. j # Len(chan) + 1
    BY <1>2, <1>3
  <2>2. j \in i .. Len(chan) /\ j \in 1 .. Len(chan)
    BY <1>3, <2>1
  <2> QED BY <1>3, <1>4, <2>2 DEF NoListFrom
<1>5. ASSUME NEW y \in HopThreads PROVE HopPlace(y)'
  <2>1. HopPlace(y) /\ (hopPC'[y] # "none" <=> hopPC[y] # "none")
    BY <1>1
  <2>2. HopLive(y)' => HopLive(y)
    BY <1>1 DEF HopLive
  <2>3. Announced(y) => Announced(y)'
    BY <1>1, <1>2, AnnouncedStays
  <2>4. NoListFrom(1, y[1]) => NoListFrom(1, y[1])'
    BY <1>4
  <2> QED BY <1>1, <2>1, <2>2, <2>3, <2>4 DEF HopPlace
<1>6. ASSUME NEW i \in 1 .. Len(chan') PROVE SamplePlace(i)'
  <2>1. CASE i = Len(chan) + 1
    <3>1. NoListFrom(i, x[1])'
      <4> SUFFICES ASSUME NEW j \in i .. Len(chan') PROVE chan'[j].k # "hops"
        BY DEF NoListFrom
      <4>1. j = Len(chan) + 1
        BY <1>3, <2>1
      <4> QED BY <1>2, <1>3, <4>1
    <3>2. chan'[i] = e
      BY <1>3, <2>1
    <3> QED BY <1>1, <1>2, <3>1, <3>2 DEF SamplePlace
  <2>2. CASE i # Len(chan) + 1 /\ chan[i].k = "sample"
    <3>1. i \in 1 .. Len(chan) /\ i \in Nat \ {0} /\ chan'[i] = chan[i]
      BY <1>3, <2>2
    <3>2. <<chan[i].t, chan[i].h>> \in HopThreads
      BY <1>3, <2>2, <3>1
    <3>3. hopPC[<<chan[i].t, chan[i].h>>] # "none" /\ NoListFrom(i, chan[i].t)
      BY <2>2, <3>1 DEF SamplePlace
    <3>4. NoListFrom(i, chan[i].t)' /\ hopPC'[<<chan[i].t, chan[i].h>>] # "none"
      BY <1>1, <1>4, <3>1, <3>2, <3>3
    <3> QED BY <3>1, <3>4 DEF SamplePlace
  <2>3. CASE i # Len(chan) + 1 /\ chan[i].k # "sample"
    <3>1. i \in 1 .. Len(chan)
      BY <1>3, <2>3
    <3> QED BY <1>3, <2>3, <3>1 DEF SamplePlace
  <2> QED BY <2>1, <2>2, <2>3
<1>7. Finals'
  <2>1. pc[x[1]] = "join"
    BY <1>1, <1>2 DEF HopPlace, HopLive
  <2>2. /\ \A i \in 1 .. Len(chan) : IsFinal(chan[i]) => chan[i].t # x[1]
        /\ status[x[1]] \notin FinalMessages
    BY <1>2, <2>1 DEF Finals
  <2>3. \A i \in 1 .. Len(chan') : IsFinal(chan'[i]) =>
          i \in 1 .. Len(chan) /\ chan'[i] = chan[i] /\ chan[i].t # x[1]
    <3> SUFFICES ASSUME NEW i \in 1 .. Len(chan'), IsFinal(chan'[i])
                 PROVE  i \in 1 .. Len(chan) /\ chan'[i] = chan[i] /\ chan[i].t # x[1]
      OBVIOUS
    <3>1. i # Len(chan) + 1
      BY <1>2, <1>3
    <3>2. i \in 1 .. Len(chan)
      BY <1>3, <3>1
    <3> QED BY <1>3, <2>2, <3>2
  <2>4. \A i, j \in 1 .. Len(chan') :
          IsFinal(chan'[i]) /\ chan'[j].t = chan'[i].t => j <= i
    <3> SUFFICES ASSUME NEW i \in 1 .. Len(chan'), NEW j \in 1 .. Len(chan'),
                        IsFinal(chan'[i]), chan'[j].t = chan'[i].t
                 PROVE  j <= i
      OBVIOUS
    <3>1. i \in 1 .. Len(chan) /\ chan'[i] = chan[i] /\ chan[i].t # x[1]
      BY <2>3
    <3>2. j # Len(chan) + 1
      BY <1>2, <1>3, <3>1
    <3>3. j \in 1 .. Len(chan) /\ chan'[j] = chan[j]
      BY <1>3, <3>2
    <3> QED BY <3>1, <3>3 DEF Finals, FinalStatusIsLast
  <2>5. \A i \in 1 .. Len(chan') : status[chan'[i].t] \notin FinalMessages
    <3> SUFFICES ASSUME NEW i \in 1 .. Len(chan')
                 PROVE  status[chan'[i].t] \notin FinalMessages
      OBVIOUS
    <3>1. CASE i = Len(chan) + 1
      BY <1>2, <1>3, <2>2, <3>1
    <3>2. CASE i # Len(chan) + 1
      <4>1. i \in 1 .. Len(chan) /\ chan'[i] = chan[i]
        BY <1>3, <3>2
      <4> QED BY <4>1 DEF Finals, FinalStatusIsLast
    <3> QED BY <3>1, <3>2
  <2>6. \A u \in Targets : pc[u] = "done" =>
          \/ status[u] \in FinalMessages
          \/ \E i \in 1 .. Len(chan') : chan'[i].t = u /\ IsFinal(chan'[i])
    <3> SUFFICES ASSUME NEW u \in Targets, pc[u] = "done"
                 PROVE  \/ status[u] \in FinalMessages
                        \/ \E i \in 1 .. Len(chan') :
                             chan'[i].t = u /\ IsFinal(chan'[i])
      OBVIOUS
    <3>1. \/ status[u] \in FinalMessages
          \/ \E i \in 1 .. Len(chan) : chan[i].t = u /\ IsFinal(chan[i])
      BY DEF Finals, FinalStatusIsLast
    <3>2. \A i \in 1 .. Len(chan) : i \in 1 .. Len(chan') /\ chan'[i] = chan[i]
      BY <1>3
    <3> QED BY <3>1, <3>2
  <2>7. \A i \in 1 .. Len(chan') : IsFinal(chan'[i]) => pc[chan'[i].t] = "done"
    BY <2>3 DEF Finals
  <2>8. \A u \in Targets : status[u] \in FinalMessages => pc[u] = "done"
    BY DEF Finals
  <2> QED BY <1>1, <2>4, <2>5, <2>6, <2>7, <2>8 DEF Finals, FinalStatusIsLast, IsFinal
<1>8. NoSampleLost'
  <2> SUFFICES ASSUME NEW y \in HopThreads
               PROVE  csv'[y] = samples'[y] + InFlight(y)'
                                  + (IF hopPC'[y] = "send" THEN 1 ELSE 0)
    BY DEF NoSampleLost
  <2>1. csv[y] = samples[y] + InFlight(y) + (IF hopPC[y] = "send" THEN 1 ELSE 0)
    BY DEF NoSampleLost
  <2>2. Cardinality(SamplesIn(Append(chan, e), y))
          = Cardinality(SamplesIn(chan, y)) + IF IsSample(e, y) THEN 1 ELSE 0
    BY <1>2, SentSamples DEF TypeOK
  <2>3. IsSample(e, y) <=> y = x
    BY <1>2 DEF IsSample
  <2>4. InFlight(y)' = InFlight(y) + IF y = x THEN 1 ELSE 0
    BY <1>1, <2>2, <2>3, InFlightSamples
  <2>5. InFlight(y) \in Nat /\ samples[y] \in Nat
    BY SamplesFinite, InFlightSamples DEF TypeOK
  <2> QED BY <1>1, <2>1, <2>4, <2>5
<1> QED BY <1>5, <1>6, <1>7, <1>8

\* The oldest event leaves the channel for the page.
LEMMA Received ==
  ASSUME TypeOK, chan # <<>>, chan' = Tail(chan)
  PROVE  /\ Len(chan) \in Nat \ {0} /\ Head(chan) = chan[1] /\ chan[1] \in Events
         /\ 1 \in 1 .. Len(chan)
         /\ \A i \in 1 .. Len(chan') :
              /\ i \in Nat \ {0} /\ i + 1 \in 1 .. Len(chan)
              /\ chan'[i] = chan[i + 1] /\ chan'[i] \in Events
         /\ \A i \in 1 .. Len(chan) : i = 1 \/ (i - 1 \in 1 .. Len(chan') /\ (i - 1) + 1 = i)
<1> DEFINE n == Len(chan)
           m == Len(chan')
<1>1. /\ n \in Nat \ {0} /\ m = n - 1 /\ Head(chan) = chan[1]
      /\ \A i \in 1 .. m : chan'[i] = chan[i + 1]
      /\ \A i \in 1 .. n : chan[i] \in Events
  BY HeadTailProperties, EmptySeq, ElementOfSeq DEF TypeOK
<1> HIDE DEF n, m
<1>2. /\ \A i \in 1 .. m : i \in Nat \ {0} /\ i + 1 \in 1 .. n
      /\ \A i \in 1 .. n : i = 1 \/ (i - 1 \in 1 .. m /\ (i - 1) + 1 = i)
      /\ 1 \in 1 .. n
  BY <1>1
<1> QED BY <1>1, <1>2 DEF n, m

\* No list from a place on, seen one place later.
LEMMA ListsShift ==
  ASSUME TypeOK, chan # <<>>, chan' = Tail(chan), NEW i \in Nat \ {0}, NEW t,
         NoListFrom(i + 1, t)
  PROVE  NoListFrom(i, t)'
<1> SUFFICES ASSUME NEW j \in i .. Len(chan'), chan'[j].k = "hops"
             PROVE  chan'[j].t # t
  BY DEF NoListFrom
<1> DEFINE n == Len(chan)
           m == Len(chan')
<1>1. n \in Nat \ {0} /\ m = n - 1 /\ \A k \in 1 .. m : chan'[k] = chan[k + 1]
  BY HeadTailProperties, EmptySeq DEF TypeOK
<1>2. NoListFrom(i + 1, t) <=>
        \A k \in i + 1 .. n : chan[k].k = "hops" => chan[k].t # t
  BY DEF NoListFrom
<1> HIDE DEF n, m
<1>3. j \in 1 .. m /\ j + 1 \in i + 1 .. n
  BY <1>1 DEF m
<1> QED BY <1>1, <1>2, <1>3

\* Nor does one appear.
LEMMA NoListStays ==
  ASSUME TypeOK, chan # <<>>, chan' = Tail(chan), NEW t, NoListFrom(1, t)
  PROVE  NoListFrom(1, t)'
<1>1. NoListFrom(1 + 1, t)
  BY DEF NoListFrom, TypeOK
<1> QED BY <1>1, ListsShift

\* What was announced in the oldest event is shown, the rest is still to come.
LEMMA AnnouncedShown ==
  ASSUME TypeOK, chan # <<>>, chan' = Tail(chan), NEW x \in HopThreads, Announced(x),
         rows'[x[1]] = IF chan[1].k = "hops" /\ chan[1].t = x[1] THEN chan[1].hops
                       ELSE rows[x[1]]
  PROVE  Announced(x)'
<1>1. CASE NoListFrom(1, x[1]) /\ x[2] \in Listed(rows[x[1]])
  <2>1. rows'[x[1]] = rows[x[1]]
    BY <1>1, Received DEF NoListFrom
  <2>2. NoListFrom(1, x[1])'
    BY <1>1, NoListStays
  <2> QED BY <1>1, <2>1, <2>2 DEF Announced, Listed
<1>2. ASSUME NEW i \in 1 .. Len(chan), chan[i].k = "hops", chan[i].t = x[1],
             x[2] \in Listed(chan[i].hops), NoListFrom(i + 1, x[1])
      PROVE  Announced(x)'
  <2>1. CASE i = 1
    <3>1. NoListFrom(1, x[1])'
      BY <1>2, <2>1, ListsShift
    <3> QED BY <1>2, <2>1, <3>1 DEF Announced, Listed
  <2>2. CASE i # 1
    <3>1. PICK k \in 1 .. Len(chan') : i = k + 1
      BY <2>2, Received
    <3>2. chan'[k] = chan[i] /\ k \in Nat \ {0}
      BY <3>1, Received
    <3>3. NoListFrom(k + 1, x[1])'
      BY <1>2, <3>1, <3>2, ListsShift
    <3> QED BY <1>2, <3>1, <3>2, <3>3 DEF Announced, Listed
  <2> QED BY <2>1, <2>2
<1> QED BY <1>1, <1>2 DEF Announced

\* The page counts each sample in its row, and shows a final status last.
LEMMA ShowKeeps ==
  ASSUME EventsInv, TypeOK, Show
  PROVE  EventsInv'
<1> USE DEF EventsInv
<1> DEFINE e == chan[1]
<1>1. /\ chan # <<>> /\ chan' = Tail(chan) /\ Head(chan) = e /\ e \in Events
      /\ UNCHANGED <<pc, hopPC, csv>>
      /\ \A i \in 1 .. Len(chan') :
           /\ i \in Nat \ {0} /\ i + 1 \in 1 .. Len(chan)
           /\ chan'[i] = chan[i + 1] /\ chan'[i] \in Events
      /\ \A i \in 1 .. Len(chan) : i = 1 \/ (i - 1 \in 1 .. Len(chan') /\ (i - 1) + 1 = i)
      /\ 1 \in 1 .. Len(chan)
  BY Received DEF Show, workerVars
<1>2. /\ e.k \in {"status", "hops", "sample"} /\ e.t \in Targets
      /\ e.k = "sample" => <<e.t, e.h>> \in HopThreads
  BY <1>1, EventTypes
<1>3. \A x \in HopThreads : rows'[x[1]] = IF e.k = "hops" /\ e.t = x[1] THEN e.hops
                                          ELSE rows[x[1]]
  <2>1. CASE e.k = "hops"
    BY <1>1, <2>1 DEF Show, TypeOK, HopThreads
  <2>2. CASE e.k # "hops"
    BY <1>1, <2>2 DEF Show
  <2> QED BY <2>1, <2>2
<1>4. ASSUME NEW x \in HopThreads
      PROVE  samples'[x] = samples[x] + IF IsSample(e, x) THEN 1 ELSE 0
  <2>0. samples[x] \in Nat /\ HopPlace(x)
    BY DEF TypeOK
  <2>1. CASE e.k = "status"
    BY <1>1, <2>0, <2>1 DEF Show, IsSample
  <2>2. CASE e.k = "hops"
    <3>1. samples'[x] = IF x[1] = e.t /\ rows[e.t][x[2]] # e.hops[x[2]] THEN 0
                        ELSE samples[x]
      BY <1>1, <2>2 DEF Show
    <3>2. x[1] = e.t => samples[x] = 0
      BY <1>1, <2>0, <2>2 DEF HopPlace, NoListFrom
    <3> QED BY <2>0, <2>2, <3>1, <3>2 DEF IsSample
  <2>3. CASE e.k = "sample"
    <3> DEFINE y == <<e.t, e.h>>
    <3>1. y \in HopThreads /\ hopPC[y] # "none" /\ NoListFrom(1, e.t) /\ HopPlace(y)
      BY <1>1, <1>2, <2>3 DEF SamplePlace
    <3>2. y[1] = e.t /\ y[2] = e.h
      OBVIOUS
    <3>3. e.h \in Listed(rows[e.t])
      BY <3>1, <3>2 DEF HopPlace, Announced, NoListFrom
    <3>4. samples' = [samples EXCEPT ![y] = samples[y] + 1]
      BY <1>1, <2>3, <3>3 DEF Show
    <3>5. IsSample(e, x) <=> x = y
      BY <2>3 DEF IsSample
    <3> HIDE DEF y
    <3>6. samples'[y] = samples[y] + 1 /\ (x # y => samples'[x] = samples[x])
      BY <3>1, <3>4 DEF TypeOK
    <3>7. CASE x = y
      BY <3>5, <3>6, <3>7
    <3>8. CASE x # y
      BY <2>0, <3>5, <3>6, <3>8
    <3> QED BY <3>7, <3>8
  <2> QED BY <1>2, <2>1, <2>2, <2>3
<1>5. ASSUME NEW x \in HopThreads PROVE HopPlace(x)'
  <2>1. HopPlace(x)
    OBVIOUS
  <2>2. Announced(x) => Announced(x)'
    BY <1>1, <1>3, AnnouncedShown
  <2>3. samples'[x] # 0 => hopPC[x] # "none" /\ NoListFrom(1, x[1])
    <3>1. CASE IsSample(e, x)
      <4>1. x[1] = e.t /\ e.k = "sample" /\ x = <<e.t, e.h>>
        BY <3>1 DEF IsSample
      <4> QED BY <1>1, <4>1 DEF SamplePlace
    <3>2. CASE ~IsSample(e, x)
      <4>1. samples'[x] = samples[x] + 0 /\ samples[x] \in Nat
        BY <1>4, <3>2 DEF TypeOK
      <4>2. samples'[x] = samples[x]
        BY <4>1
      <4> QED BY <2>1, <4>2 DEF HopPlace
    <3> QED BY <3>1, <3>2
  <2>4. NoListFrom(1, x[1]) => NoListFrom(1, x[1])'
    BY <1>1, NoListStays
  <2> QED BY <1>1, <2>1, <2>2, <2>3, <2>4 DEF HopPlace, HopLive
<1>6. ASSUME NEW i \in 1 .. Len(chan') PROVE SamplePlace(i)'
  <2>1. SamplePlace(i + 1) /\ chan'[i] = chan[i + 1] /\ i \in Nat \ {0}
    BY <1>1
  <2>2. PICK u : u = chan[i + 1].t
    OBVIOUS
  <2>3. NoListFrom(i + 1, u) => NoListFrom(i, u)'
    BY <1>1, <2>1, ListsShift
  <2>4. NoListFrom(i, u)' => NoListFrom(i, chan[i].t)'
    BY <2>1, <2>2 DEF NoListFrom
  <2> QED BY <1>1, <2>1, <2>2, <2>3, <2>4 DEF SamplePlace
<1>7. Finals'
  <2>1. \A u \in Targets : status'[u] = IF e.k = "status" /\ e.t = u THEN e.m ELSE status[u]
    <3>1. CASE e.k = "status"
      BY <1>1, <3>1 DEF Show, TypeOK
    <3>2. CASE e.k # "status"
      BY <1>1, <3>2 DEF Show
    <3> QED BY <3>1, <3>2
  <2>2. \A i, j \in 1 .. Len(chan') :
          IsFinal(chan'[i]) /\ chan'[j].t = chan'[i].t => j <= i
    <3> SUFFICES ASSUME NEW i \in 1 .. Len(chan'), NEW j \in 1 .. Len(chan'),
                        IsFinal(chan'[i]), chan'[j].t = chan'[i].t
                 PROVE  j <= i
      OBVIOUS
    <3>1. j + 1 <= i + 1
      BY <1>1 DEF Finals, FinalStatusIsLast
    <3> QED BY <1>1, <3>1
  <2>3. \A i \in 1 .. Len(chan') : status'[chan'[i].t] \notin FinalMessages
    <3> SUFFICES ASSUME NEW i \in 1 .. Len(chan')
                 PROVE  status'[chan'[i].t] \notin FinalMessages
      OBVIOUS
    <3>1. chan'[i].t \in Targets /\ status[chan'[i].t] \notin FinalMessages
      <4>1. chan'[i] = chan[i + 1] /\ i + 1 \in 1 .. Len(chan) /\ chan'[i] \in Events
        BY <1>1
      <4>2. status[chan[i + 1].t] \notin FinalMessages
        BY <4>1 DEF Finals, FinalStatusIsLast
      <4> QED BY <4>1, <4>2, EventTypes
    <3>2. CASE e.k = "status" /\ e.t = chan'[i].t
      <4>1. ~IsFinal(e)
        <5>1. IsFinal(e) => i + 1 <= 1
          BY <1>1, <3>2 DEF Finals, FinalStatusIsLast
        <5> QED BY <1>1, <5>1
      <4> QED BY <2>1, <3>1, <3>2, <4>1 DEF IsFinal
    <3>3. CASE ~(e.k = "status" /\ e.t = chan'[i].t)
      BY <2>1, <3>1, <3>3
    <3> QED BY <3>2, <3>3
  <2>4. \A u \in Targets : pc[u] = "done" =>
          \/ status'[u] \in FinalMessages
          \/ \E i \in 1 .. Len(chan') : chan'[i].t = u /\ IsFinal(chan'[i])
    <3> SUFFICES ASSUME NEW u \in Targets, pc[u] = "done"
                 PROVE  \/ status'[u] \in FinalMessages
                        \/ \E i \in 1 .. Len(chan') :
                             chan'[i].t = u /\ IsFinal(chan'[i])
      OBVIOUS
    <3>1. CASE status[u] \in FinalMessages
      BY <1>1, <2>1, <3>1 DEF Finals, FinalStatusIsLast
    <3>2. ASSUME NEW i \in 1 .. Len(chan), chan[i].t = u, IsFinal(chan[i])
          PROVE  \/ status'[u] \in FinalMessages
                 \/ \E j \in 1 .. Len(chan') :
                      chan'[j].t = u /\ IsFinal(chan'[j])
      <4>1. CASE i = 1
        BY <2>1, <3>2, <4>1 DEF IsFinal
      <4>2. CASE i # 1
        <5>1. PICK k \in 1 .. Len(chan') : k + 1 = i
          BY <1>1, <4>2
        <5> QED BY <1>1, <3>2, <5>1
      <4> QED BY <4>1, <4>2
    <3> QED BY <3>1, <3>2 DEF Finals, FinalStatusIsLast
  <2>5. \A i \in 1 .. Len(chan') : IsFinal(chan'[i]) => pc[chan'[i].t] = "done"
    BY <1>1 DEF Finals
  <2>6. \A u \in Targets : status'[u] \in FinalMessages => pc[u] = "done"
    BY <1>1, <2>1 DEF Finals, IsFinal
  <2> QED BY <1>1, <2>2, <2>3, <2>4, <2>5, <2>6
          DEF Finals, FinalStatusIsLast, IsFinal
<1>8. NoSampleLost'
  <2> SUFFICES ASSUME NEW x \in HopThreads
               PROVE  csv'[x] = samples'[x] + InFlight(x)'
                                  + (IF hopPC'[x] = "send" THEN 1 ELSE 0)
    BY DEF NoSampleLost
  <2>1. Cardinality(SamplesIn(chan, x))
          = Cardinality(SamplesIn(Tail(chan), x)) + IF IsSample(e, x) THEN 1 ELSE 0
    BY <1>1, ReceivedSamples DEF TypeOK
  <2>2. Tail(chan) \in Seq(Events)
    BY <1>1, HeadTailProperties DEF TypeOK
  <2>3. /\ Cardinality(SamplesIn(chan, x)) \in Nat
        /\ Cardinality(SamplesIn(Tail(chan), x)) \in Nat /\ samples[x] \in Nat
    BY <2>2, SamplesFinite DEF TypeOK
  <2>4. csv[x] = samples[x] + InFlight(x) + (IF hopPC[x] = "send" THEN 1 ELSE 0)
    BY DEF NoSampleLost
  <2>5. InFlight(x) = Cardinality(SamplesIn(chan, x))
        /\ InFlight(x)' = Cardinality(SamplesIn(Tail(chan), x))
    BY <1>1, InFlightSamples
  <2>6. samples'[x] = samples[x] + IF IsSample(e, x) THEN 1 ELSE 0
    BY <1>4
  <2> QED BY <1>1, <2>1, <2>3, <2>4, <2>5, <2>6
<1> QED BY <1>5, <1>6, <1>7, <1>8

-----------------------------------------------------------------------------
(* Events and samples: the results.                                        *)

\* Nothing has been sent.
LEMMA EventsInit == Init => EventsInv
<1> SUFFICES ASSUME Init PROVE EventsInv
  OBVIOUS
<1> USE DEF Init
<1>1. chan = <<>> /\ <<>> \in Seq(Events) /\ Len(chan) = 0
  OBVIOUS
<1>2. \A x \in HopThreads : HopPlace(x)
  BY DEF HopPlace, HopLive
<1>3. \A i \in 1 .. Len(chan) : SamplePlace(i)
  BY <1>1
<1>4. Finals
  BY <1>1 DEF Finals, FinalStatusIsLast, FinalMessages
<1>5. NoSampleLost
  <2>1. \A x : SamplesIn(chan, x) = {}
    BY <1>1 DEF SamplesIn
  <2>2. \A x : InFlight(x) = 0
    BY <2>1, FS_EmptySet, InFlightSamples
  <2> QED BY <2>2 DEF NoSampleLost
<1> QED BY <1>2, <1>3, <1>4, <1>5 DEF EventsInv

\* A target worker's step is quiet, a report, or the start of the monitoring.
LEMMA EventsTarget ==
  ASSUME EventsInv, TypeOK, NEW t \in Targets, TargetWorker(t)
  PROVE  EventsInv'
<1> USE DEF TypeOK, Goto, shownVars
<1>1. CASE Register(t) \/ StdoutEnd(t) \/ Remove(t) \/ Wait(t)
  <2>1. UNCHANGED <<chan, hopPC, csv, samples, rows, status>>
    BY <1>1 DEF Register, StdoutEnd, Remove, Wait
  <2>2. \A u \in Targets : pc'[u] = pc[u]
                           \/ (pc[u] \notin {"join", "done"} /\ pc'[u] # "done")
    BY <1>1 DEF Register, StdoutEnd, Remove, Wait
  <2> QED BY <2>1, <2>2, QuietKeeps
<1>2. ASSUME UNCHANGED <<chan, hopPC, csv, samples, rows, status>>,
             Goto(t, "register") \/ Goto(t, "names"), pc[t] \in {"spawn", "decide"}
      PROVE  EventsInv'
  <2>1. \A u \in Targets : pc'[u] = pc[u]
                           \/ (pc[u] \notin {"join", "done"} /\ pc'[u] # "done")
    BY <1>2
  <2> QED BY <1>2, <2>1, QuietKeeps
<1>3. ASSUME NEW m \in FinalMessages, ReturnWith(t, m),
             UNCHANGED <<hopPC, csv, samples, rows, status>>,
             pc[t] \in {"resolve", "spawn", "decide", "join"},
             pc[t] = "join" => \A h \in HopNumbers : ~HopLive(<<t, h>>)
      PROVE  EventsInv'
  <2> DEFINE e == StatusEvent(t, m)
  <2>1. e \in Events /\ e.t = t /\ e.k = "status" /\ IsFinal(e)
    <3>1. m \in Messages
      BY DEF FinalMessages, Messages
    <3> QED BY <3>1, SentTypes DEF StatusEvent, IsFinal
  <2> HIDE DEF e
  <2>2. /\ chan' = Append(chan, e) /\ pc'[t] = "done"
        /\ \A u \in Targets \ {t} : pc'[u] = pc[u]
    BY <1>3 DEF ReturnWith, e
  <2>3. pc[t] # "done"
    BY <1>3
  <2> QED BY <1>3, <2>1, <2>2, <2>3, ReportKeeps
<1>4. CASE Resolve(t)
  <2>1. CASE ReturnWith(t, "error")
    BY <1>3, <1>4, <2>1 DEF Resolve, FinalMessages
  <2>2. CASE Goto(t, "spawn") /\ chan' = Append(chan, StatusEvent(t, "discovering"))
    <3> DEFINE e == StatusEvent(t, "discovering")
    <3>1. e \in Events /\ e.t = t /\ e.k = "status" /\ ~IsFinal(e)
      <4>1. "discovering" \in Messages
        BY DEF Messages
      <4> QED BY <4>1, SentTypes DEF StatusEvent, IsFinal, FinalMessages
    <3> HIDE DEF e
    <3>2. /\ chan' = Append(chan, e) /\ pc[t] = "resolve" /\ pc'[t] = "spawn"
          /\ \A u \in Targets \ {t} : pc'[u] = pc[u]
          /\ UNCHANGED <<hopPC, csv, samples, rows, status>>
      BY <1>4, <2>2 DEF Resolve, e
    <3> QED BY <3>1, <3>2, ReportKeeps
  <2> QED BY <1>4, <2>1, <2>2 DEF Resolve
<1>5. CASE Spawn(t)
  <2>1. CASE ReturnWith(t, "error")
    BY <1>3, <1>5, <2>1 DEF Spawn, FinalMessages
  <2>2. CASE Goto(t, "register") /\ UNCHANGED chan
    BY <1>2, <1>5, <2>2 DEF Spawn
  <2> QED BY <1>5, <2>1, <2>2 DEF Spawn
<1>6. CASE Decide(t)
  <2>1. CASE ReturnWith(t, "stopped") \/ ReturnWith(t, "nohops")
    BY <1>3, <1>6, <2>1 DEF Decide, FinalMessages
  <2>2. CASE Goto(t, "names") /\ UNCHANGED chan
    BY <1>2, <1>6, <2>2 DEF Decide
  <2> QED BY <1>6, <2>1, <2>2 DEF Decide
<1>7. CASE ReadLine(t)
  <2>1. path'[t] \in HopLists
    BY TypeTarget, <1>7 DEF TargetWorker
  <2>2. PICK e : e = HopsEvent(t, BuildHopInfos(path'[t]))
    OBVIOUS
  <2>3. e \in Events /\ e.t = t /\ e.k = "hops" /\ ~IsFinal(e)
    <3>1. BuildHopInfos(path'[t]) \in HopLists
      BY <2>1, BuildType
    <3>2. e.t = t /\ e.k = "hops"
      BY <2>2 DEF HopsEvent
    <3> QED BY <2>2, <3>1, <3>2, SentTypes DEF IsFinal
  <2>4. /\ chan' = Append(chan, e) /\ pc[t] = "stdout" /\ pc' = pc
        /\ UNCHANGED <<hopPC, csv, samples, rows, status>>
    BY <1>7, <2>2 DEF ReadLine
  <2> QED BY <2>3, <2>4, ReportKeeps
<1>8. CASE Join(t)
  BY <1>3, <1>8 DEF Join, FinalMessages
<1>9. CASE Monitor(t)
  BY <1>9, MonitorKeeps
<1> QED BY <1>1, <1>4, <1>5, <1>6, <1>7, <1>8, <1>9 DEF TargetWorker

\* Every step keeps both invariants.
LEMMA EventsStep == WorkersInv /\ EventsInv /\ [Next]_vars => EventsInv'
<1> SUFFICES ASSUME WorkersInv, EventsInv, [Next]_vars PROVE EventsInv'
  OBVIOUS
<1>1. TypeOK
  BY DEF WorkersInv
<1>2. CASE Start
  <2>1. UNCHANGED <<chan, hopPC, csv, samples, rows, status>>
    BY <1>2 DEF Start, shownVars
  <2>2. \A u \in Targets : pc[u] = "none" /\ pc'[u] # "done"
    BY <1>2 DEF Start
  <2>3. \A u \in Targets : pc[u] \notin {"join", "done"} /\ pc'[u] # "done"
    BY <2>2
  <2> QED BY <1>1, <2>1, <2>3, QuietKeeps
<1>3. CASE StopClicked \/ KillAll \/ Drop \/ (\E t \in Targets : Child(t)) \/ UNCHANGED vars
  <2>1. UNCHANGED <<pc, chan, hopPC, csv, samples, rows, status>>
    BY <1>3 DEF StopClicked, KillAll, Drop, Child, ChildEnds, ChildBlocks, ChildExits,
                childFrame, workerVars, shownVars, vars
  <2> QED BY <1>1, <2>1, QuietKeeps
<1>4. CASE Show
  BY <1>1, <1>4, ShowKeeps
<1>5. CASE \E t \in Targets : TargetWorker(t)
  BY <1>1, <1>5, EventsTarget
<1>6. CASE \E x \in HopThreads : HopWorker(x)
  BY <1>1, <1>6, ProbeKeeps, SendKeeps DEF HopWorker
<1> QED BY <1>2, <1>3, <1>4, <1>5, <1>6 DEF Next

\* Workers, children, events and samples are in their places (target_worker).
THEOREM TraceInvariant == Spec => []TraceInv
<1>1. Init => TraceInv
  BY WorkersInit, EventsInit DEF TraceInv
<1>2. TraceInv /\ [Next]_vars => TraceInv'
  BY WorkersStep, EventsStep DEF TraceInv
<1> QED BY <1>1, <1>2, PTL DEF Spec

\* Every probe in the log is counted once in the row of its hop, or under way;
\* none arrives before its row (hop_worker, on_trace_event).
THEOREM SamplesAreCounted == Spec => []NoSampleLost
<1>1. TraceInv => NoSampleLost
  BY DEF TraceInv, EventsInv
<1> QED BY <1>1, TraceInvariant, PTL

\* A final status is the last word of a target, and no worker ends without one
\* (target_worker).
THEOREM FinalStatusEnds == Spec => []FinalStatusIsLast
<1>1. TraceInv => FinalStatusIsLast
  BY DEF TraceInv, EventsInv, Finals
<1> QED BY <1>1, TraceInvariant, PTL

-----------------------------------------------------------------------------
(* The refinement of Session.                                              *)

\* Steps that leave threads and logs alone, and all without a session held,
\* are none of the session's.
LEMMA SameSession ==
  \/ UNCHANGED <<held, stop, hopPC, csv>> /\ \A t \in Targets : TargetLive(t)' = TargetLive(t)
  \/ ~held /\ ~held'
  => UNCHANGED <<Phase, Live, Owed, Reported>>
<1>1. ASSUME UNCHANGED <<held, stop, hopPC, csv>>,
             \A t \in Targets : TargetLive(t)' = TargetLive(t)
      PROVE  UNCHANGED <<Phase, Live, Owed, Reported>>
  <2>1. \A x \in HopThreads : x[1] \in Targets
    BY DEF HopThreads
  <2>2. Live' = Live
    BY <1>1, <2>1 DEF Live, HopLive
  <2> QED BY <1>1, <2>2 DEF Phase, Owed, Reported
<1>2. ASSUME ~held, ~held'
      PROVE  UNCHANGED <<Phase, Live, Owed, Reported>>
  BY <1>2 DEF Phase, Live, Owed, Reported
<1> QED BY <1>1, <1>2

\* Start hands the session over; Drop closes it when no thread is left.
LEMMA SessionUI ==
  ASSUME WorkersInv, EventsInv, Start \/ StopClicked \/ Drop
  PROVE  Promise!Next \/ UNCHANGED <<Phase, Live, Owed, Reported>>
<1> USE DEF WorkersInv, EventsInv
<1>1. CASE Start
  <2>1. ~held /\ ~stop /\ stop' = stop /\ csv' = csv
    BY <1>1 DEF Start
  <2>2. CASE held'
    <3>1. Phase = "idle" /\ Phase' = "running"
      BY <2>1, <2>2 DEF Phase
    <3>2. Live' \in SUBSET HopThreads /\ Owed' = {}
      BY <2>1 DEF Live, Owed
    <3>3. Reported' \in [HopThreads -> Nat]
      BY <2>1 DEF Reported, TypeOK
    <3> QED BY <3>1, <3>2, <3>3 DEF Promise!Next, Promise!Start
  <2>3. CASE ~held'
    BY <2>1, <2>3, SameSession
  <2> QED BY <2>2, <2>3
<1>2. CASE StopClicked
  <2>1. held /\ stop' = TRUE /\ UNCHANGED <<held, pc, hopPC, csv>>
    BY <1>2 DEF StopClicked, workerVars
  <2>2. CASE stop
    BY <2>1, <2>2, SameSession DEF TargetLive, TypeOK
  <2>3. CASE ~stop
    <3>1. Phase = "running" /\ Phase' = "stopping"
      BY <2>1, <2>3 DEF Phase
    <3>2. Live' = Live /\ Reported' = Reported
      BY <2>1 DEF Live, HopLive, TargetLive, Reported
    <3>3. Owed' \in SUBSET Live
      BY <2>1 DEF Owed, Live, HopLive
    <3> QED BY <3>1, <3>2, <3>3 DEF Promise!Next, Promise!Stop
  <2> QED BY <2>2, <2>3
<1>3. CASE Drop
  <2>1. held /\ ~held' /\ \A t \in Targets : ~TargetLive(t)
    BY <1>3 DEF Drop, IsRunning
  <2>2. \A x \in HopThreads : x[1] \in Targets /\ HopPlace(x)
    BY DEF HopThreads
  <2>3. \A x \in HopThreads : ~HopLive(x)
    BY <2>1, <2>2 DEF HopPlace, TargetLive
  <2>4. Live = {} /\ Live' = {} /\ Owed' = {}
    BY <2>1, <2>2, <2>3 DEF Live, Owed
  <2>5. Phase # "idle" /\ Phase' = "idle" /\ Reported' = [x \in HopThreads |-> 0]
    BY <2>1 DEF Phase, Reported
  <2> QED BY <2>4, <2>5 DEF Promise!Next, Promise!Close, Promise!NoReports
<1> QED BY <1>1, <1>2, <1>3

\* A target worker that ends takes the threads it has not spawned along.
LEMMA SessionTarget ==
  ASSUME WorkersInv, EventsInv, NEW t \in Targets, TargetWorker(t)
  PROVE  Promise!Next \/ UNCHANGED <<Phase, Live, Owed, Reported>>
<1> USE DEF WorkersInv, EventsInv
<1>1. /\ UNCHANGED <<held, stop>> /\ pc[t] \notin {"none", "done"} /\ pc'[t] # "none"
      /\ \A u \in Targets \ {t} : pc'[u] = pc[u]
  BY TargetOwn
<1>2. UNCHANGED csv /\ (hopPC' = hopPC \/ Monitor(t))
  BY DEF TargetWorker, Resolve, Spawn, Register, ReadLine, StdoutEnd, Remove, Wait,
         Decide, Monitor, Join
<1>3. \A x \in HopThreads : x[1] \in Targets /\ x[2] \in HopNumbers /\ x = <<x[1], x[2]>>
                            /\ HopPlace(x)
  BY DEF HopThreads
<1>4. CASE Monitor(t)
  <2>1. pc[t] = "names" /\ pc'[t] = "join"
    BY <1>4 DEF Monitor, Goto, TypeOK
  <2>2. \A x \in HopThreads : x[1] = t => hopPC[x] = "none"
    BY <2>1, BeforeJoin
  <2>3. \A x \in HopThreads : hopPC'[x] = hopPC[x]
                              \/ (x[1] = t /\ hopPC[x] = "none" /\ hopPC'[x] = "loop")
    BY <1>4, <2>2 DEF Monitor
  <2>4. \A u \in Targets : TargetLive(u)' <=> TargetLive(u)
    BY <1>1, <2>1 DEF TargetLive
  <2>5. \A x \in HopThreads :
          (HopLive(x) \/ (TargetLive(x[1]) /\ hopPC[x] = "none"))'
            <=> (HopLive(x) \/ (TargetLive(x[1]) /\ hopPC[x] = "none"))
    <3> SUFFICES ASSUME NEW x \in HopThreads
                 PROVE (HopLive(x) \/ (TargetLive(x[1]) /\ hopPC[x] = "none"))'
                         <=> (HopLive(x) \/ (TargetLive(x[1]) /\ hopPC[x] = "none"))
      OBVIOUS
    <3>1. x[1] \in Targets /\ TargetLive(t)
      BY <1>1, <1>3 DEF TargetLive
    <3>2. CASE hopPC'[x] = hopPC[x]
      BY <2>4, <3>1, <3>2 DEF HopLive
    <3>3. CASE x[1] = t /\ hopPC[x] = "none" /\ hopPC'[x] = "loop"
      BY <3>1, <3>3 DEF HopLive
    <3> QED BY <2>3, <3>2, <3>3
  <2>6. Live' = Live
    BY <1>1, <2>5 DEF Live
  <2>7. Owed' = Owed
    BY <1>1, <2>3 DEF Owed
  <2> QED BY <1>1, <1>2, <2>6, <2>7 DEF Phase, Reported
<1>5. CASE hopPC' = hopPC /\ pc'[t] # "done"
  <2>1. \A u \in Targets : TargetLive(u)' = TargetLive(u)
    BY <1>1, <1>5 DEF TargetLive
  <2> QED BY <1>1, <1>2, <1>5, <2>1, SameSession
<1>6. CASE hopPC' = hopPC /\ pc'[t] = "done" /\ held
  <2>1. pc[t] = "join" => Join(t)
    BY <1>6 DEF TargetWorker, Resolve, Spawn, Register, ReadLine, StdoutEnd, Remove,
                Wait, Decide, Monitor, Join
  <2>2. \A x \in HopThreads : x[1] = t => ~HopLive(x)
    BY <1>3, <2>1 DEF Join, HopPlace
  <2> DEFINE M == {x \in HopThreads : x[1] = t /\ hopPC[x] = "none"}
  <2>3. M \in SUBSET HopThreads /\ M \subseteq Live
    BY <1>1, <1>6 DEF Live, TargetLive
  <2>4. \A x \in HopThreads : x \in Live' <=> x \in Live /\ x \notin M
    <3> TAKE x \in HopThreads
    <3>1. CASE x[1] = t
      BY <1>1, <1>6, <2>2, <3>1 DEF Live, TargetLive, HopLive
    <3>2. CASE x[1] # t
      BY <1>1, <1>3, <1>6, <3>2 DEF Live, TargetLive, HopLive
    <3> QED BY <3>1, <3>2
  <2>5. Live' = Live \ M
    BY <2>4 DEF Live
  <2>6. Owed' = Owed \ M
    BY <1>1, <1>6 DEF Owed
  <2>7. Phase' = Phase /\ Reported' = Reported
    BY <1>1, <1>2 DEF Phase, Reported
  <2> HIDE DEF M
  <2>8. Promise!Exit(M)
    BY <2>3, <2>5, <2>6, <2>7 DEF Promise!Exit
  <2> QED BY <2>3, <2>8 DEF Promise!Next
<1>7. CASE ~held
  BY <1>1, <1>7, SameSession
<1> QED BY <1>2, <1>4, <1>5, <1>6, <1>7

\* A hop thread reports once more after Stop at most.
LEMMA SessionHop ==
  ASSUME WorkersInv, EventsInv, NEW x \in HopThreads, HopWorker(x)
  PROVE  Promise!Next \/ UNCHANGED <<Phase, Live, Owed, Reported>>
<1> USE DEF WorkersInv
<1>1. UNCHANGED <<held, stop, pc>> /\ \A y \in HopThreads \ {x} : hopPC'[y] = hopPC[y]
  BY DEF HopWorker, NextProbe, Ping, Send, Finish, hopFrame, TypeOK
<1>2. \A t \in Targets : TargetLive(t)' = TargetLive(t)
  BY <1>1 DEF TargetLive
<1>3. CASE ~held
  BY <1>1, <1>3, SameSession
<1>4. CASE held /\ (NextProbe(x) \/ Send(x))
  <2>1. /\ hopPC[x] \in {"loop", "send"} /\ hopPC'[x] \in {"ping", "loop"} /\ csv' = csv
        /\ hopPC'[x] = "ping" => ~stop
    BY <1>4 DEF NextProbe, Send, TypeOK
  <2>2. Live' = Live
    BY <1>1, <2>1 DEF Live, HopLive, TargetLive
  <2>3. Owed' = Owed
    BY <1>1, <2>1 DEF Owed
  <2> QED BY <1>1, <2>1, <2>2, <2>3 DEF Phase, Reported
<1>5. CASE held /\ Ping(x)
  <2>1. hopPC[x] = "ping" /\ hopPC'[x] = "send" /\ csv' = [csv EXCEPT ![x] = @ + 1]
    BY <1>5 DEF Ping, TypeOK
  <2>2. Live' = Live /\ x \in Live
    BY <1>1, <1>5, <2>1 DEF Live, HopLive, TargetLive
  <2>3. Reported' = [Reported EXCEPT ![x] = @ + 1]
    BY <1>1, <1>5, <2>1 DEF Reported, TypeOK
  <2>4. \/ Phase = "running" /\ Owed' = Owed
        \/ Phase = "stopping" /\ x \in Owed /\ Owed' = Owed \ {x}
    BY <1>1, <1>5, <2>1 DEF Phase, Owed, TypeOK
  <2>5. Phase' = Phase
    BY <1>1 DEF Phase
  <2>6. Promise!Report(x)
    BY <2>2, <2>3, <2>4, <2>5 DEF Promise!Report
  <2> QED BY <2>6 DEF Promise!Next
<1>6. CASE held /\ Finish(x)
  <2>1. hopPC[x] = "loop" /\ hopPC'[x] = "done" /\ csv' = csv
    BY <1>6 DEF Finish, TypeOK
  <2>2. Live' = Live \ {x} /\ x \in Live
    BY <1>1, <1>6, <2>1 DEF Live, HopLive, TargetLive
  <2>3. Owed' = Owed \ {x}
    BY <1>1, <2>1 DEF Owed
  <2>4. Phase' = Phase /\ Reported' = Reported
    BY <1>1, <2>1 DEF Phase, Reported
  <2> DEFINE M == {x}
  <2>5. M \in SUBSET HopThreads /\ M \subseteq Live
    BY <2>2
  <2>6. Promise!Exit(M)
    BY <2>2, <2>3, <2>4, <2>5 DEF Promise!Exit
  <2> HIDE DEF M
  <2> QED BY <2>5, <2>6 DEF Promise!Next
<1> QED BY <1>3, <1>4, <1>5, <1>6 DEF HopWorker

\* The traceroute session keeps what Session promises, for any targets and
\* hops: dropped only when no thread is left, at most one report per hop
\* after Stop (TraceSession::stop, is_running, target_worker, probe_loop).
THEOREM TraceRefinement == Spec => ImplementsSession
<1>1. Init => Promise!Init
  BY DEF Init, Promise!Init, Promise!NoReports, Phase, Live, Owed, Reported
<1>2. TraceInv /\ [Next]_vars => [Promise!Next]_<<Phase, Live, Owed, Reported>>
  <2> SUFFICES ASSUME WorkersInv, EventsInv, [Next]_vars
               PROVE  Promise!Next \/ UNCHANGED <<Phase, Live, Owed, Reported>>
    BY DEF TraceInv
  <2>1. CASE KillAll \/ Show \/ (\E t \in Targets : Child(t)) \/ UNCHANGED vars
    <3>1. UNCHANGED <<held, stop, hopPC, csv, pc>>
      BY <2>1 DEF KillAll, Show, Child, ChildEnds, ChildBlocks, ChildExits, childFrame,
                  workerVars, vars
    <3>2. \A t \in Targets : TargetLive(t)' = TargetLive(t)
      BY <3>1 DEF TargetLive
    <3> QED BY <3>1, <3>2, SameSession
  <2> QED BY <2>1, SessionUI, SessionTarget, SessionHop DEF Next
<1>3. Init => TraceInv
  BY WorkersInit, EventsInit DEF TraceInv
<1>4. TraceInv /\ [Next]_vars => TraceInv'
  BY WorkersStep, EventsStep DEF TraceInv
<1> QED
  BY <1>1, <1>2, <1>3, <1>4, PTL
     DEF Spec, ImplementsSession, Promise!Spec, Promise!sessionVars
=============================================================================
