--------------------------- MODULE ArpScan_proofs ---------------------------
(***************************************************************************)
(* Theorems about ArpScan, for any pool, subnet and number of scans.       *)
(*                                                                         *)
(* The counters are shared, so the argument counts workers: a step of one  *)
(* worker moves it from one place of its loop to the next (Moved), and     *)
(* every counter is in balance with the workers at some of these places.   *)
(***************************************************************************)
EXTENDS ArpScan, FiniteSetTheorems, SequenceTheorems, TLAPS

USE ScanAssumption

\* Hosts drawn so far.
Drawn == IF next < total THEN next ELSE total

\* A draw that found no host has ended a worker.
DrawsBalance == Between({"exit"}) = (IF next < total THEN 0 ELSE next - total)

\* Every host drawn has been probed once or is being probed by one worker, and
\* only probed hosts have answered.
HostsBalance ==
  /\ \A w \in Pool : pc[w] = "ping" => host[w] \in 1 .. Drawn
  /\ \A v, w \in Pool :
       pc[v] = "ping" /\ pc[w] = "ping" /\ host[v] = host[w] => v = w
  /\ \A h \in HostIds :
       probed[h] = IF h <= Drawn /\ \A w \in Pool : ~(pc[w] = "ping" /\ host[w] = h)
                   THEN 1 ELSE 0
  /\ \A h \in answered : probed[h] = 1

\* The counters against the workers' places.
CountersBalance ==
  /\ done + Between({"ping", "alive", "count"}) = Drawn
  /\ alive + Between({"alive"}) = Cardinality(answered)
  /\ \A w \in Pool : up[w] <= alive /\ mine[w] <= done

\* The scan's course: workers, then the join, then ScanDone in the channel,
\* behind everything else, then nothing.
Course ==
  /\ scanning => total > 0 /\ pc[1] # "none"
  /\ ~joining => \A w \in Pool : pc[w] \in {"none", "exit"}
  /\ ~scanning => ~joining /\ chan = <<>>
  /\ scanning /\ ~joining => chan # <<>> /\ chan[Len(chan)].k = "done"
  /\ \A i \in 1 .. Len(chan) :
       chan[i].k = "done" => ~joining /\ i = Len(chan) /\ chan[i].alive = alive

\* Counts reported, or about to be, are counts reached, each by one worker.
ReportsBalance ==
  /\ ProgressOnce
  /\ \A i \in 1 .. Len(chan) : chan[i].k = "progress" => chan[i].done <= done

\* The inductive invariant.
ScanInv == /\ TypeOK /\ DrawsBalance /\ HostsBalance /\ CountersBalance
           /\ Course /\ ReportsBalance

-----------------------------------------------------------------------------
(* Counting workers.                                                       *)

\* Workers are finitely many, so those at some places, now or after a step, are
\* a number of at most the size of the pool.
LEMMA Places ==
  ASSUME NEW f, NEW ps
  PROVE  /\ IsFiniteSet({w \in Pool : f[w] \in ps})
         /\ Cardinality({w \in Pool : f[w] \in ps}) \in 0 .. PoolSize
         /\ Cardinality({w \in Pool : f[w] \in ps}) = 0
              <=> \A w \in Pool : f[w] \notin ps
<1> DEFINE S == {w \in Pool : f[w] \in ps}
<1>1. IsFiniteSet(Pool) /\ Cardinality(Pool) = PoolSize
  BY FS_Interval DEF Pool
<1>2. IsFiniteSet(S) /\ Cardinality(S) <= PoolSize
  BY <1>1, FS_Subset
<1>3. Cardinality(S) \in Nat /\ (Cardinality(S) = 0 <=> S = {})
  BY <1>2, FS_CardinalityType, FS_EmptySet
<1> QED BY <1>2, <1>3

\* The count of the workers in some places, as a number.
LEMMA BetweenType ==
  \A ps : /\ Between(ps) \in 0 .. PoolSize
          /\ Between(ps)' \in 0 .. PoolSize
          /\ Between(ps) = 0 <=> \A w \in Pool : pc[w] \notin ps
BY Places DEF Between

\* Steps that move no worker.
LEMMA Unmoved ==
  ASSUME UNCHANGED pc
  PROVE  \A ps : Between(ps)' = Between(ps)
BY DEF Between

\* n, after something left (p) and something came (q).
Change(n, p, q) == IF p THEN IF q THEN n ELSE n - 1 ELSE IF q THEN n + 1 ELSE n

\* A worker that goes from one place to another takes itself along.
LEMMA Moved ==
  ASSUME pc \in [Pool -> PCs], NEW w \in Pool, NEW p, NEW q,
         pc[w] = p, Goto(w, q)
  PROVE  \A ps : Between(ps)' = Change(Between(ps), p \in ps, q \in ps)
<1> TAKE ps
<1> DEFINE S == {v \in Pool : pc[v] \in ps}
           T == {v \in Pool : pc'[v] \in ps}
<1>1. IsFiniteSet(S) /\ (w \in S <=> p \in ps)
  BY Places
<1>2. Between(ps) = Cardinality(S) /\ Between(ps)' = Cardinality(T)
  BY DEF Between
<1>3. q \in ps => T = S \cup {w}
  BY DEF Goto
<1>4. q \notin ps => T = S \ {w}
  BY DEF Goto
<1> HIDE DEF S, T
<1>5. Cardinality(S \cup {w}) = IF w \in S THEN Cardinality(S) ELSE Cardinality(S) + 1
  BY <1>1, FS_AddElement
<1>6. Cardinality(S \ {w}) = IF w \in S THEN Cardinality(S) - 1 ELSE Cardinality(S)
  BY <1>1, FS_RemoveElement
<1>7. Cardinality(S) \in Nat
  BY <1>1, FS_CardinalityType
<1> QED BY <1>1, <1>2, <1>3, <1>4, <1>5, <1>6, <1>7 DEF Change

\* The counters, as numbers.
LEMMA Numbers ==
  ASSUME TypeOK, CountersBalance
  PROVE  /\ done \in Nat /\ alive \in Nat
         /\ Drawn \in Nat /\ Cardinality(answered) \in Nat
         /\ \A ps : Between(ps) \in Nat
         /\ done + Between({"ping", "alive", "count"}) = Drawn
         /\ alive + Between({"alive"}) = Cardinality(answered)
<1>1. done \in Nat /\ alive \in Nat /\ Drawn \in Nat
  BY DEF TypeOK, Counts, Drawn
<1>2. \A ps : Between(ps) \in Nat
  BY BetweenType
<1>3. Cardinality(answered) = alive + Between({"alive"})
  BY DEF CountersBalance
<1>4. Cardinality(answered) \in Nat
  BY <1>1, <1>2, <1>3
<1> QED BY <1>1, <1>2, <1>3, <1>4 DEF CountersBalance

-----------------------------------------------------------------------------
(* The workers.                                                            *)

\* A worker that is not about to report leaves the reports as they are.
LEMMA ReportsStay ==
  ASSUME ReportsBalance, UNCHANGED chan, done' = done,
         \A v \in Pool : pc'[v] \in {"load", "send"} =>
                           pc[v] \in {"load", "send"} /\ mine'[v] = mine[v]
  PROVE  ReportsBalance'
<1> DEFINE held == {v \in Pool : pc[v] \in {"load", "send"}}
           heldNext == {v \in Pool : pc'[v] \in {"load", "send"}}
<1>1. heldNext \subseteq held /\ \A v \in heldNext : mine'[v] = mine[v]
  OBVIOUS
<1> QED BY <1>1 DEF ReportsBalance, ProgressOnce

\* next.fetch_add with a host left: it is drawn, and in this worker's hands.
LEMMA DrawHost ==
  ASSUME ScanInv, NEW w \in Pool, Draw(w), next < total
  PROVE  ScanInv'
<1> USE DEF ScanInv, Counts
<1>1. /\ Goto(w, "ping") /\ host' = [host EXCEPT ![w] = next + 1]
      /\ next' = next + 1
      /\ UNCHANGED <<uiVars, chan, joining, done, alive, mine, up, probed, answered>>
  BY DEF Draw, TypeOK
<1>2. pc[w] = "draw" /\ pc' = [pc EXCEPT ![w] = "ping"] /\ joining /\ scanning
  BY <1>1 DEF Draw, Goto, Course
<1>3. /\ Between({"exit"})' = Between({"exit"})
      /\ Between({"alive"})' = Between({"alive"})
      /\ Between({"ping", "alive", "count"})' = Between({"ping", "alive", "count"}) + 1
  <2>1. \A ps : Between(ps)' = Change(Between(ps), "draw" \in ps, "ping" \in ps)
    BY <1>1, <1>2, Moved DEF TypeOK
  <2> QED BY <2>1, BetweenType DEF Change
<1>4. Drawn = next /\ Drawn' = next + 1
  BY <1>1 DEF Drawn, uiVars, TypeOK
<1>5. TypeOK'
  BY <1>1, <1>2 DEF TypeOK, uiVars, PCs
<1>6. DrawsBalance'
  BY <1>1, <1>3 DEF DrawsBalance, TypeOK, uiVars
<1>7. HostsBalance'
  BY <1>1, <1>2, <1>4 DEF HostsBalance, TypeOK, HostIds
<1>8. CountersBalance'
  <2>1. \A v \in Pool : up'[v] <= alive' /\ mine'[v] <= done'
    BY <1>1 DEF CountersBalance
  <2>2. /\ done' + Between({"ping", "alive", "count"})' = Drawn'
        /\ alive' + Between({"alive"})' = Cardinality(answered')
    BY <1>1, <1>3, <1>4, Numbers
  <2> QED BY <2>1, <2>2 DEF CountersBalance
<1>9. Course'
  BY <1>1, <1>2 DEF Course, uiVars, TypeOK
<1>10. ReportsBalance'
  BY <1>1, <1>2, ReportsStay DEF TypeOK
<1> QED BY <1>5, <1>6, <1>7, <1>8, <1>9, <1>10

\* Without one: the worker ends.
LEMMA DrawNone ==
  ASSUME ScanInv, NEW w \in Pool, Draw(w), ~(next < total)
  PROVE  ScanInv'
<1> USE DEF ScanInv, Counts
<1>1. /\ Goto(w, "exit") /\ next' = next + 1
      /\ UNCHANGED <<uiVars, chan, joining, done, alive, host, mine, up, probed, answered>>
  BY DEF Draw, TypeOK
<1>2. pc[w] = "draw" /\ pc' = [pc EXCEPT ![w] = "exit"] /\ joining /\ scanning
  BY <1>1 DEF Draw, Goto, Course
<1>3. /\ Between({"exit"})' = Between({"exit"}) + 1
      /\ Between({"alive"})' = Between({"alive"})
      /\ Between({"ping", "alive", "count"})' = Between({"ping", "alive", "count"})
  <2>1. \A ps : Between(ps)' = Change(Between(ps), "draw" \in ps, "exit" \in ps)
    BY <1>1, <1>2, Moved DEF TypeOK
  <2> QED BY <2>1, BetweenType DEF Change
<1>4. Drawn = total /\ Drawn' = total
  BY <1>1 DEF Drawn, uiVars, TypeOK
<1>5. DrawsBalance'
  BY <1>1, <1>3, BetweenType DEF DrawsBalance, TypeOK, uiVars
<1>6. TypeOK'
  <2>1. next' \in 0 .. MaxHosts + PoolSize
    BY <1>1, <1>5, BetweenType DEF DrawsBalance, TypeOK, uiVars
  <2> QED BY <1>1, <1>2, <2>1 DEF TypeOK, uiVars, PCs
<1>7. HostsBalance'
  BY <1>1, <1>2, <1>4 DEF HostsBalance, TypeOK, HostIds
<1>8. CountersBalance'
  <2>1. \A v \in Pool : up'[v] <= alive' /\ mine'[v] <= done'
    BY <1>1 DEF CountersBalance
  <2>2. /\ done' + Between({"ping", "alive", "count"})' = Drawn'
        /\ alive' + Between({"alive"})' = Cardinality(answered')
    BY <1>1, <1>3, <1>4, Numbers
  <2> QED BY <2>1, <2>2 DEF CountersBalance
<1>9. Course'
  <2>1. UNCHANGED <<scanning, total, chan, joining, alive>> /\ pc'[1] # "none"
    BY <1>1, <1>2 DEF Course, uiVars, TypeOK
  <2> QED BY <1>2, <2>1 DEF Course
<1>10. ReportsBalance'
  BY <1>1, <1>2, ReportsStay DEF TypeOK
<1> QED BY <1>5, <1>6, <1>7, <1>8, <1>9, <1>10

\* The host in a worker's hands is probed, for the first time.
LEMMA PingKeeps ==
  ASSUME ScanInv, NEW w \in Pool, Ping(w)
  PROVE  ScanInv'
<1> USE DEF ScanInv, Counts
<1> DEFINE h == host[w]
<1>1. /\ probed' = [probed EXCEPT ![h] = @ + 1]
      /\ UNCHANGED <<uiVars, chan, joining, counters, host, mine, up>>
  BY DEF Ping
<1>2. PICK q \in {"alive", "count"} :
        /\ Goto(w, q) /\ pc' = [pc EXCEPT ![w] = q]
        /\ q = "alive" => answered' = answered \cup {h}
        /\ q = "count" => answered' = answered
  BY DEF Ping, Goto
<1>3. pc[w] = "ping" /\ joining /\ scanning
  BY DEF Ping, Course
<1>4. /\ Between({"exit"})' = Between({"exit"})
      /\ Between({"alive"})' = IF q = "alive" THEN Between({"alive"}) + 1
                               ELSE Between({"alive"})
      /\ Between({"ping", "alive", "count"})' = Between({"ping", "alive", "count"})
  <2>1. \A ps : Between(ps)' = Change(Between(ps), "ping" \in ps, q \in ps)
    BY <1>2, <1>3, Moved DEF TypeOK
  <2> QED BY <2>1, BetweenType DEF Change
<1>5. Drawn' = Drawn /\ Drawn \in 0 .. MaxHosts
  BY <1>1 DEF Drawn, uiVars, counters, TypeOK
<1>6. h \in 1 .. Drawn /\ h \in HostIds /\ probed[h] = 0
  BY <1>3, <1>5 DEF HostsBalance, HostIds
<1>7. h \notin answered
  BY <1>6 DEF HostsBalance
<1>8. TypeOK'
  <2>1. probed[h] + 1 = 1
    BY <1>6
  <2> QED BY <1>1, <1>2, <1>6, <2>1 DEF TypeOK, uiVars, counters, PCs
<1>9. DrawsBalance'
  BY <1>1, <1>4 DEF DrawsBalance, uiVars, counters
<1>10. HostsBalance'
  <2>1. \A v \in Pool : pc'[v] = "ping" => v # w /\ pc[v] = "ping" /\ host[v] # h
    BY <1>2, <1>3 DEF TypeOK, HostsBalance
  <2>2. /\ probed'[h] = 1
        /\ \A g \in HostIds : g # h => probed'[g] = probed[g]
    BY <1>1, <1>6 DEF TypeOK
  <2>3. \A v \in Pool : v # w => pc'[v] = pc[v]
    BY <1>2 DEF TypeOK
  <2>4. ASSUME NEW g \in HostIds
        PROVE  probed'[g] = IF g <= Drawn /\ \A v \in Pool : ~(pc'[v] = "ping" /\ host[v] = g)
                            THEN 1 ELSE 0
    <3>1. CASE g = h
      BY <3>1, <1>6, <2>1, <2>2, <1>5
    <3>2. CASE g # h
      <4>1. (\A v \in Pool : ~(pc'[v] = "ping" /\ host[v] = g))
              <=> \A v \in Pool : ~(pc[v] = "ping" /\ host[v] = g)
        BY <3>2, <2>1, <2>3
      <4> QED BY <3>2, <4>1, <2>2 DEF HostsBalance
    <3> QED BY <3>1, <3>2
  <2>5. answered' \subseteq answered \cup {h} /\ answered \subseteq HostIds
    <3>1. answered \subseteq HostIds
      BY DEF TypeOK
    <3> QED BY <1>2, <3>1
  <2>6. \A g \in answered' : probed'[g] = 1
    BY <1>7, <2>2, <2>5 DEF HostsBalance
  <2> QED BY <1>1, <1>5, <2>1, <2>4, <2>6 DEF HostsBalance
<1>11. Cardinality(answered') = IF q = "alive" THEN Cardinality(answered) + 1
                                ELSE Cardinality(answered)
  <2>1. IsFiniteSet(HostIds)
    BY FS_Interval DEF HostIds
  <2>2. IsFiniteSet(answered)
    BY <2>1, FS_Subset DEF TypeOK
  <2> QED BY <1>2, <1>7, <2>2, FS_AddElement
<1>12. CountersBalance'
  <2>1. done' = done /\ alive' = alive /\ mine' = mine /\ up' = up
    BY <1>1 DEF counters
  <2>2. \A v \in Pool : up'[v] <= alive' /\ mine'[v] <= done'
    BY <2>1 DEF CountersBalance
  <2>3. done' + Between({"ping", "alive", "count"})' = Drawn'
    BY <2>1, <1>4, <1>5, Numbers
  <2>4. alive' + Between({"alive"})' = Cardinality(answered')
    BY <2>1, <1>2, <1>4, <1>11, Numbers
  <2> QED BY <2>2, <2>3, <2>4 DEF CountersBalance
<1>13. Course'
  BY <1>1, <1>2, <1>3 DEF Course, uiVars, counters, TypeOK
<1>14. ReportsBalance'
  BY <1>1, <1>2, ReportsStay DEF TypeOK, counters
<1> QED BY <1>8, <1>9, <1>10, <1>12, <1>13, <1>14

\* A step that draws and probes nothing, of a worker that pings neither before
\* nor after, leaves the hosts as they are.
LEMMA HostsStay ==
  ASSUME HostsBalance, UNCHANGED <<next, total, host, probed, answered>>,
         \A v \in Pool : pc[v] = "ping" <=> pc'[v] = "ping"
  PROVE  HostsBalance' /\ Drawn' = Drawn
BY DEF HostsBalance, Drawn

\* alive.fetch_add
LEMMA CountAliveKeeps ==
  ASSUME ScanInv, NEW w \in Pool, CountAlive(w)
  PROVE  ScanInv'
<1> USE DEF ScanInv, Counts
<1>1. /\ Goto(w, "count") /\ alive' = alive + 1
      /\ up' = [up EXCEPT ![w] = alive + 1]
      /\ UNCHANGED <<uiVars, chan, joining, next, done, host, mine, probed, answered>>
  BY DEF CountAlive
<1>2. pc[w] = "alive" /\ pc' = [pc EXCEPT ![w] = "count"] /\ joining /\ scanning
  BY <1>1 DEF CountAlive, Goto, Course
<1>3. /\ Between({"exit"})' = Between({"exit"})
      /\ Between({"alive"})' = Between({"alive"}) - 1
      /\ Between({"ping", "alive", "count"})' = Between({"ping", "alive", "count"})
  <2>1. \A ps : Between(ps)' = Change(Between(ps), "alive" \in ps, "count" \in ps)
    BY <1>1, <1>2, Moved DEF TypeOK
  <2> QED BY <2>1, BetweenType DEF Change
<1>4. HostsBalance' /\ Drawn' = Drawn
  <2>1. \A v \in Pool : pc[v] = "ping" <=> pc'[v] = "ping"
    BY <1>2 DEF TypeOK
  <2> QED BY <1>1, <2>1, HostsStay DEF uiVars
<1>5. DrawsBalance'
  BY <1>1, <1>3 DEF DrawsBalance, uiVars
<1>6. CountersBalance'
  <2>1. \A v \in Pool : up'[v] <= alive' /\ mine'[v] <= done'
    BY <1>1 DEF CountersBalance, TypeOK
  <2>2. /\ done' + Between({"ping", "alive", "count"})' = Drawn'
        /\ alive' + Between({"alive"})' = Cardinality(answered')
    BY <1>1, <1>3, <1>4, Numbers
  <2> QED BY <2>1, <2>2 DEF CountersBalance
<1>7. alive' \in Counts
  <2>1. IsFiniteSet(HostIds) /\ Cardinality(HostIds) = MaxHosts
    BY FS_Interval DEF HostIds
  <2>2. Cardinality(answered) <= MaxHosts /\ Cardinality(answered) \in Nat
    BY <2>1, FS_Subset, FS_CardinalityType DEF TypeOK
  <2> QED BY <1>1, <1>6, <2>2, BetweenType DEF CountersBalance, TypeOK
<1>8. TypeOK'
  BY <1>1, <1>2, <1>7 DEF TypeOK, uiVars, PCs
<1>9. Course'
  BY <1>1, <1>2 DEF Course, uiVars, TypeOK
<1>10. ReportsBalance'
  BY <1>1, <1>2, ReportsStay DEF TypeOK
<1> QED BY <1>4, <1>5, <1>6, <1>8, <1>9, <1>10

\* What a report in the channel holds.
LEMMA ReportTypes ==
  ASSUME TypeOK, NEW i \in 1 .. Len(chan)
  PROVE  /\ chan[i] \in Events
         /\ chan[i].k = "progress" => chan[i].done \in Counts /\ chan[i].alive \in Counts
<1>1. chan[i] \in Events
  BY DEF TypeOK
<1> QED BY <1>1 DEF Events

\* done.fetch_add: a count nobody had before is about to be reported.
LEMMA CountDoneKeeps ==
  ASSUME ScanInv, NEW w \in Pool, CountDone(w)
  PROVE  ScanInv'
<1> USE DEF ScanInv, Counts
<1>1. /\ Goto(w, "load") /\ done' = done + 1
      /\ mine' = [mine EXCEPT ![w] = done + 1]
      /\ UNCHANGED <<uiVars, chan, joining, next, alive, host, up, probed, answered>>
  BY DEF CountDone
<1>2. pc[w] = "count" /\ pc' = [pc EXCEPT ![w] = "load"] /\ joining /\ scanning
  BY <1>1 DEF CountDone, Goto, Course
<1>3. /\ Between({"exit"})' = Between({"exit"})
      /\ Between({"alive"})' = Between({"alive"})
      /\ Between({"ping", "alive", "count"})' = Between({"ping", "alive", "count"}) - 1
  <2>1. \A ps : Between(ps)' = Change(Between(ps), "count" \in ps, "load" \in ps)
    BY <1>1, <1>2, Moved DEF TypeOK
  <2> QED BY <2>1, BetweenType DEF Change
<1>4. HostsBalance' /\ Drawn' = Drawn
  <2>1. \A v \in Pool : pc[v] = "ping" <=> pc'[v] = "ping"
    BY <1>2 DEF TypeOK
  <2> QED BY <1>1, <2>1, HostsStay DEF uiVars
<1>5. DrawsBalance'
  BY <1>1, <1>3 DEF DrawsBalance, uiVars
<1>6. CountersBalance'
  <2>1. \A v \in Pool : up'[v] <= alive' /\ mine'[v] <= done'
    BY <1>1 DEF CountersBalance, TypeOK
  <2>2. /\ done' + Between({"ping", "alive", "count"})' = Drawn'
        /\ alive' + Between({"alive"})' = Cardinality(answered')
    BY <1>1, <1>3, <1>4, Numbers
  <2> QED BY <2>1, <2>2 DEF CountersBalance
<1>7. done' \in Counts
  <2>1. Drawn \in 0 .. MaxHosts
    BY DEF Drawn, TypeOK
  <2> QED BY <1>1, <1>4, <1>6, <2>1, BetweenType DEF CountersBalance, TypeOK
<1>8. TypeOK'
  BY <1>1, <1>2, <1>7 DEF TypeOK, uiVars, PCs
<1>9. Course'
  BY <1>1, <1>2 DEF Course, uiVars, TypeOK
<1>10. ReportsBalance'
  <2>1. \A i \in 1 .. Len(chan) : chan[i].k = "progress" => chan[i].done # done + 1
    <3> SUFFICES ASSUME NEW i \in 1 .. Len(chan), chan[i].k = "progress"
                 PROVE  chan[i].done # done + 1
      OBVIOUS
    <3>1. chan[i].done \in Counts /\ chan[i].done <= done /\ done \in Nat
      BY ReportTypes DEF ReportsBalance, TypeOK
    <3> QED BY <3>1
  <2>2. \A v \in Pool : mine[v] # done + 1
    BY DEF CountersBalance, TypeOK
  <2>3. /\ mine'[w] = done + 1
        /\ \A v \in Pool : v # w => mine'[v] = mine[v] /\ pc'[v] = pc[v]
    BY <1>1, <1>2 DEF TypeOK
  <2>4. ProgressOnce'
    BY <1>1, <2>1, <2>2, <2>3 DEF ReportsBalance, ProgressOnce
  <2>5. \A i \in 1 .. Len(chan) : chan[i].k = "progress" => chan[i].done <= done + 1
    <3> SUFFICES ASSUME NEW i \in 1 .. Len(chan), chan[i].k = "progress"
                 PROVE  chan[i].done <= done + 1
      OBVIOUS
    <3>1. chan[i].done \in Counts /\ chan[i].done <= done /\ done \in Nat
      BY ReportTypes DEF ReportsBalance, TypeOK
    <3> QED BY <3>1
  <2> QED BY <1>1, <2>4, <2>5 DEF ReportsBalance
<1> QED BY <1>4, <1>5, <1>6, <1>8, <1>9, <1>10

\* alive.load, for the report
LEMMA LoadAliveKeeps ==
  ASSUME ScanInv, NEW w \in Pool, LoadAlive(w)
  PROVE  ScanInv'
<1> USE DEF ScanInv, Counts
<1>1. PICK a \in up[w] .. alive :
        /\ up' = [up EXCEPT ![w] = a] /\ Goto(w, "send")
        /\ UNCHANGED <<uiVars, chan, joining, counters, host, mine, probed, answered>>
  BY DEF LoadAlive
<1>2. pc[w] = "load" /\ pc' = [pc EXCEPT ![w] = "send"] /\ joining /\ scanning
  BY <1>1 DEF LoadAlive, Goto, Course
<1>3. a \in Counts /\ a <= alive
  BY DEF TypeOK
<1>4. /\ Between({"exit"})' = Between({"exit"})
      /\ Between({"alive"})' = Between({"alive"})
      /\ Between({"ping", "alive", "count"})' = Between({"ping", "alive", "count"})
  <2>1. \A ps : Between(ps)' = Change(Between(ps), "load" \in ps, "send" \in ps)
    BY <1>1, <1>2, Moved DEF TypeOK
  <2> QED BY <2>1, BetweenType DEF Change
<1>5. HostsBalance' /\ Drawn' = Drawn
  <2>1. \A v \in Pool : pc[v] = "ping" <=> pc'[v] = "ping"
    BY <1>2 DEF TypeOK
  <2> QED BY <1>1, <2>1, HostsStay DEF uiVars, counters
<1>6. DrawsBalance'
  BY <1>1, <1>4 DEF DrawsBalance, uiVars, counters
<1>7. CountersBalance'
  BY <1>1, <1>3, <1>4, <1>5 DEF CountersBalance, TypeOK, counters
<1>8. TypeOK'
  BY <1>1, <1>2, <1>3 DEF TypeOK, uiVars, counters, PCs
<1>9. Course'
  BY <1>1, <1>2 DEF Course, uiVars, counters, TypeOK
<1>10. ReportsBalance'
  BY <1>1, <1>2, ReportsStay DEF TypeOK, counters
<1> QED BY <1>5, <1>6, <1>7, <1>8, <1>9, <1>10

\* The report is sent: what was held is now in the channel.
LEMMA SendKeeps ==
  ASSUME ScanInv, NEW w \in Pool, Send(w)
  PROVE  ScanInv'
<1> USE DEF ScanInv, Counts
<1> DEFINE e == [k |-> "progress", done |-> mine[w], alive |-> up[w]]
           l == Len(chan)
<1>1. /\ Goto(w, "draw") /\ chan' = Append(chan, e)
      /\ UNCHANGED <<uiVars, joining, counters, host, mine, up, probed, answered>>
  BY DEF Send
<1>2. pc[w] = "send" /\ pc' = [pc EXCEPT ![w] = "draw"] /\ joining /\ scanning
  BY <1>1 DEF Send, Goto, Course
<1>3. /\ Between({"exit"})' = Between({"exit"})
      /\ Between({"alive"})' = Between({"alive"})
      /\ Between({"ping", "alive", "count"})' = Between({"ping", "alive", "count"})
  <2>1. \A ps : Between(ps)' = Change(Between(ps), "send" \in ps, "draw" \in ps)
    BY <1>1, <1>2, Moved DEF TypeOK
  <2> QED BY <2>1, BetweenType DEF Change
<1>4. HostsBalance' /\ Drawn' = Drawn
  <2>1. \A v \in Pool : pc[v] = "ping" <=> pc'[v] = "ping"
    BY <1>2 DEF TypeOK
  <2> QED BY <1>1, <2>1, HostsStay DEF uiVars, counters
<1>5. DrawsBalance'
  BY <1>1, <1>3 DEF DrawsBalance, uiVars, counters
<1>6. CountersBalance'
  BY <1>1, <1>3, <1>4 DEF CountersBalance, counters
<1>7. e \in Events /\ mine[w] <= done /\ chan \in Seq(Events)
  BY DEF Events, TypeOK, CountersBalance
<1>8. /\ chan' \in Seq(Events) /\ Len(chan') = l + 1 /\ l \in Nat
      /\ chan'[l + 1] = e /\ \A i \in 1 .. l : chan'[i] = chan[i]
  BY <1>1, <1>7, AppendProperties
<1>9. TypeOK'
  BY <1>1, <1>2, <1>8 DEF TypeOK, uiVars, counters, PCs
<1>10. Course'
  <2>1. \A i \in 1 .. Len(chan') : chan'[i].k # "done"
    BY <1>2, <1>8 DEF Course
  <2>2. UNCHANGED <<scanning, total, joining>> /\ pc'[1] # "none"
    BY <1>1, <1>2 DEF Course, uiVars, TypeOK
  <2> QED BY <1>2, <2>1, <2>2 DEF Course
<1>11. ReportsBalance'
  <2>1. /\ \A v \in Pool : pc'[v] \in {"load", "send"} => v # w /\ pc[v] \in {"load", "send"}
        /\ UNCHANGED <<mine, done>>
    BY <1>1, <1>2 DEF TypeOK, counters
  <2>2. \A i \in 1 .. l, v \in Pool :
          chan[i].k = "progress" /\ pc[v] \in {"load", "send"} => chan[i].done # mine[v]
    BY <1>8 DEF ReportsBalance, ProgressOnce
  <2>3. \A i, j \in 1 .. l :
          chan[i].k = "progress" /\ chan[j].k = "progress" /\ chan[i].done = chan[j].done
            => i = j
    BY <1>8 DEF ReportsBalance, ProgressOnce
  <2>4. \A u, v \in Pool :
          pc[u] \in {"load", "send"} /\ pc[v] \in {"load", "send"} /\ mine[u] = mine[v]
            => u = v
    BY DEF ReportsBalance, ProgressOnce
  <2>5. e.k = "progress" /\ e.done = mine[w]
    OBVIOUS
  <2> HIDE DEF e, l
  <2>6. \A i, j \in 1 .. l + 1 :
          chan'[i].k = "progress" /\ chan'[j].k = "progress" /\ chan'[i].done = chan'[j].done
            => i = j
    BY <1>2, <1>8, <2>2, <2>3, <2>5
  <2>7. \A i \in 1 .. l + 1, v \in Pool :
          chan'[i].k = "progress" /\ pc'[v] \in {"load", "send"} => chan'[i].done # mine[v]
    BY <1>2, <1>8, <2>1, <2>2, <2>4, <2>5
  <2>8. \A i \in 1 .. l + 1 : chan'[i].k = "progress" => chan'[i].done <= done
    BY <1>7, <1>8, <2>5 DEF ReportsBalance, l
  <2>9. ProgressOnce'
    BY <1>8, <2>1, <2>4, <2>6, <2>7 DEF ProgressOnce
  <2> QED BY <1>8, <2>1, <2>8, <2>9 DEF ReportsBalance
<1> QED BY <1>4, <1>5, <1>6, <1>9, <1>10, <1>11

\* A step of any worker.
LEMMA WorkerKeeps ==
  ASSUME ScanInv, NEW w \in Pool, Worker(w)
  PROVE  ScanInv'
BY DrawHost, DrawNone, PingKeeps, CountAliveKeeps, CountDoneKeeps, LoadAliveKeeps,
   SendKeeps DEF Worker

-----------------------------------------------------------------------------
(* The coordinator and the UI thread.                                      *)

\* The scan's last event.
LEMMA JoinKeeps ==
  ASSUME ScanInv, Join
  PROVE  ScanInv'
<1> USE DEF ScanInv, Counts
<1> DEFINE e == [k |-> "done", alive |-> alive]
           l == Len(chan)
<1>1. /\ joining /\ joining' = FALSE /\ chan' = Append(chan, e)
      /\ \A w \in Pool : pc[w] \in {"none", "exit"}
      /\ UNCHANGED <<uiVars, counters, pc, host, mine, up, probed, answered>>
  BY DEF Join
<1>2. scanning /\ \A i \in 1 .. l : chan[i].k # "done"
  BY <1>1 DEF Course
<1>3. e \in Events /\ chan \in Seq(Events)
  BY DEF Events, TypeOK
<1>4. /\ chan' \in Seq(Events) /\ Len(chan') = l + 1 /\ l \in Nat /\ chan' # <<>>
      /\ chan'[l + 1] = e /\ \A i \in 1 .. l : chan'[i] = chan[i]
  BY <1>1, <1>3, AppendProperties
<1>5. TypeOK'
  BY <1>1, <1>4 DEF TypeOK, uiVars, counters
<1>6. DrawsBalance' /\ HostsBalance' /\ CountersBalance'
  BY <1>1, Unmoved, HostsStay
  DEF DrawsBalance, CountersBalance, uiVars, counters
<1>7. Course'
  BY <1>1, <1>2, <1>4 DEF Course, uiVars, counters
<1>8. ReportsBalance'
  <2>1. \A i \in 1 .. l + 1 : chan'[i].k = "progress" => i \in 1 .. l /\ chan'[i] = chan[i]
    BY <1>4
  <2>2. ProgressOnce'
    BY <1>1, <1>4, <2>1 DEF ReportsBalance, ProgressOnce
  <2> QED BY <1>1, <1>4, <2>1, <2>2 DEF ReportsBalance, counters
<1> QED BY <1>5, <1>6, <1>7, <1>8

\* The oldest event is shown; ScanDone is the only one left then.
LEMMA ShowKeeps ==
  ASSUME ScanInv, Show
  PROVE  ScanInv'
<1> USE DEF ScanInv, Counts
<1> DEFINE e == Head(chan)
           l == Len(chan)
<1>1. /\ chan # <<>> /\ chan' = Tail(chan)
      /\ UNCHANGED <<scans, total, joining, counters, pc, host, mine, up, probed, answered>>
  BY DEF Show
<1>2. \/ /\ e.k = "progress" /\ UNCHANGED scanning
         /\ shown' = [done |-> e.done, alive |-> e.alive]
      \/ /\ e.k = "done" /\ scanning' = FALSE
         /\ shown' = [done |-> 0, alive |-> 0]
  BY DEF Show
<1>3. /\ chan' \in Seq(Events) /\ Len(chan') = l - 1 /\ l \in Nat \ {0}
      /\ \A i \in 1 .. l - 1 : chan'[i] = chan[i + 1]
      /\ e = chan[1]
  BY <1>1, HeadTailProperties, EmptySeq DEF TypeOK
<1>4. e.k = "progress" => e.done \in Counts /\ e.alive \in Counts
  BY <1>3, ReportTypes
<1>5. TypeOK'
  <2>1. /\ [done |-> 0, alive |-> 0] \in [done : Counts, alive : Counts]
        /\ e.k = "progress" =>
             [done |-> e.done, alive |-> e.alive] \in [done : Counts, alive : Counts]
    BY <1>4
  <2>2. shown' \in [done : Counts, alive : Counts] /\ scanning' \in BOOLEAN
    BY <1>2, <2>1 DEF TypeOK
  <2> QED BY <1>1, <1>3, <2>2 DEF TypeOK, counters
<1>6. DrawsBalance' /\ HostsBalance' /\ CountersBalance'
  BY <1>1, Unmoved, HostsStay
  DEF DrawsBalance, CountersBalance, uiVars, counters
<1>7. scanning
  BY <1>1 DEF Course
<1>8. \A i \in 1 .. l - 1 : i + 1 \in 1 .. l
  BY <1>3
<1>9. Course'
  <2>1. \A i \in 1 .. l - 1 :
          chan'[i].k = "done" => ~joining /\ i = l - 1 /\ chan'[i].alive = alive
    BY <1>3, <1>8 DEF Course
  <2>2. CASE e.k = "done"
    <3>1. l = 1 /\ ~joining /\ scanning' = FALSE
      BY <2>2, <1>2, <1>3 DEF Course
    <3>2. chan' = <<>>
      BY <1>3, <3>1
    <3>3. Len(chan') = 0
      BY <1>3, <3>1
    <3>4. \A i \in 1 .. Len(chan') : FALSE
      BY <3>3
    <3>5. ~joining' /\ \A w \in Pool : pc'[w] \in {"none", "exit"}
      BY <1>1, <3>1 DEF Course
    <3> QED BY <3>1, <3>2, <3>4, <3>5 DEF Course
  <2>3. CASE e.k # "done"
    <3>1. scanning' = scanning
      BY <2>3, <1>2
    <3>2. ~joining => l # 1 /\ chan[l].k = "done"
      BY <1>3, <1>7, <2>3 DEF Course
    <3>3. ~joining => chan' # <<>> /\ chan'[Len(chan')].k = "done"
      BY <1>3, <3>2
    <3> QED BY <1>1, <1>3, <1>7, <2>1, <3>1, <3>3 DEF Course, counters
  <2> QED BY <2>2, <2>3
<1>10. ReportsBalance'
  <2>1. \A i \in 1 .. l - 1 : chan'[i].k = "progress" => chan'[i].done <= done
    BY <1>3, <1>8 DEF ReportsBalance
  <2>2. \A i, j \in 1 .. l - 1 :
          chan'[i].k = "progress" /\ chan'[j].k = "progress" /\ chan'[i].done = chan'[j].done
            => i = j
    <3> SUFFICES ASSUME NEW i \in 1 .. l - 1, NEW j \in 1 .. l - 1,
                        chan[i + 1].k = "progress", chan[j + 1].k = "progress",
                        chan[i + 1].done = chan[j + 1].done
                 PROVE  i = j
      BY <1>3
    <3>1. i + 1 = j + 1
      BY <1>8 DEF ReportsBalance, ProgressOnce
    <3> QED BY <3>1, <1>3
  <2>3. \A i \in 1 .. l - 1, w \in Pool :
          chan'[i].k = "progress" /\ pc[w] \in {"load", "send"} => chan'[i].done # mine[w]
    BY <1>3, <1>8 DEF ReportsBalance, ProgressOnce
  <2>4. ProgressOnce'
    BY <1>1, <1>3, <2>2, <2>3 DEF ReportsBalance, ProgressOnce
  <2> QED BY <1>1, <1>3, <2>1, <2>4 DEF ReportsBalance, counters
<1> QED BY <1>5, <1>6, <1>9, <1>10

\* A new scan begins where nothing is left of the last one.
LEMMA ScanClickedKeeps ==
  ASSUME ScanInv, NEW n \in HostIds, ScanClicked(n)
  PROVE  ScanInv'
<1> USE DEF ScanInv, Counts
<1>1. chan = <<>> /\ n \in 1 .. MaxHosts
  BY DEF ScanClicked, Course, HostIds
<1>2. /\ pc' = [w \in Pool |-> IF w <= n THEN "draw" ELSE "none"]
      /\ next' = 0 /\ total' = n /\ done' = 0 /\ alive' = 0 /\ answered' = {}
      /\ probed' = [h \in HostIds |-> 0] /\ chan' = chan
      /\ scanning' = TRUE /\ joining' = TRUE
  BY DEF ScanClicked
<1>3. \A w \in Pool : pc'[w] \in {"draw", "none"}
  BY <1>2
<1>4. Cardinality({}) = 0 /\ \A ps : (\A w \in Pool : pc'[w] \notin ps) => Between(ps)' = 0
  BY FS_EmptySet, Places DEF Between
<1>5. /\ Between({"exit"})' = 0 /\ Between({"alive"})' = 0
      /\ Between({"ping", "alive", "count"})' = 0
  BY <1>3, <1>4
<1>6. TypeOK'
  BY <1>1 DEF ScanClicked, TypeOK, PCs, Pool
<1>7. Drawn' = 0
  BY <1>1, <1>2 DEF Drawn
<1>8. DrawsBalance'
  BY <1>1, <1>2, <1>5 DEF DrawsBalance
<1>9. HostsBalance'
  BY <1>2, <1>3, <1>7 DEF HostsBalance, HostIds
<1>10. CountersBalance'
  BY <1>2, <1>4, <1>5, <1>7 DEF CountersBalance, ScanClicked
<1>11. Course'
  BY <1>1, <1>2 DEF Course, Pool
<1>12. ReportsBalance'
  BY <1>1, <1>2, <1>3 DEF ReportsBalance, ProgressOnce
<1> QED BY <1>6, <1>8, <1>9, <1>10, <1>11, <1>12

-----------------------------------------------------------------------------
(* The results.                                                            *)

\* No scan has begun.
LEMMA ScanInvInit == Init => ScanInv
<1> SUFFICES ASSUME Init PROVE ScanInv
  OBVIOUS
<1> USE DEF Init, Counts
<1>1. \A w \in Pool : pc[w] = "none"
  OBVIOUS
<1>2. Cardinality({}) = 0 /\ \A ps : "none" \notin ps => Between(ps) = 0
  BY <1>1, FS_EmptySet, BetweenType
<1>3. TypeOK
  <2>1. 0 \in Counts /\ 0 \in 0 .. MaxScans /\ 0 \in 0 .. MaxHosts + PoolSize
    OBVIOUS
  <2>2. <<>> \in Seq(Events)
    OBVIOUS
  <2>3. shown \in [done : Counts, alive : Counts]
    BY <2>1
  <2>4. /\ pc \in [Pool -> PCs] /\ host \in [Pool -> Counts]
        /\ mine \in [Pool -> Counts] /\ up \in [Pool -> Counts]
        /\ probed \in [HostIds -> Nat]
    BY <2>1 DEF PCs
  <2> QED BY <2>1, <2>2, <2>3, <2>4 DEF TypeOK
<1>4. DrawsBalance /\ HostsBalance /\ CountersBalance
  BY <1>1, <1>2
  DEF DrawsBalance, HostsBalance, CountersBalance, Drawn, HostIds
<1>5. Course /\ ReportsBalance
  BY <1>1 DEF Course, ReportsBalance, ProgressOnce
<1> QED BY <1>3, <1>4, <1>5 DEF ScanInv

\* A step that changes nothing.
LEMMA StutterKeeps ==
  ASSUME ScanInv, UNCHANGED vars
  PROVE  ScanInv'
BY Unmoved, HostsStay
DEF vars, uiVars, counters, ScanInv, TypeOK, DrawsBalance, HostsBalance,
    CountersBalance, Course, ReportsBalance, ProgressOnce, Drawn

\* Every step keeps the inductive invariant.
LEMMA ScanInvStep == ScanInv /\ [Next]_vars => ScanInv'
BY StutterKeeps, ScanClickedKeeps, ShowKeeps, JoinKeeps, WorkerKeeps DEF Next

\* The inductive invariant holds: the counters, the workers' places and the
\* events are in balance (scan_subnet).
THEOREM ScanInvariant == Spec => []ScanInv
<1> QED BY ScanInvInit, ScanInvStep, PTL DEF Spec

\* The variables have their types, the counters their ranges (scan_subnet).
THEOREM ScanTypeCorrect == Spec => []TypeOK
<1>1. ScanInv => TypeOK
  BY DEF ScanInv
<1> QED BY <1>1, ScanInvariant, PTL

\* When all workers have ended every host has been drawn.
LEMMA AllDrawn ==
  ASSUME ScanInv, scanning, \A w \in Pool : pc[w] \in {"none", "exit"}
  PROVE  Drawn = total /\ alive = Cardinality(answered)
<1> USE DEF ScanInv, Counts
<1>1. pc[1] = "exit" /\ 1 \in Pool
  BY DEF Course, Pool
<1>2. Between({"exit"}) # 0 /\ Between({"alive"}) = 0
  BY <1>1, BetweenType
<1>3. ~(next < total)
  BY <1>2 DEF DrawsBalance
<1>4. alive + 0 = Cardinality(answered)
  BY <1>2 DEF CountersBalance
<1> QED BY <1>3, <1>4 DEF Drawn, TypeOK

\* Every host drawn is counted or in one worker's hands, every answer is
\* counted or about to be: no relaxed counter loses one (scan_subnet).
THEOREM CountersNeverDrift == Spec => []CountersAgree
<1>1. ASSUME ScanInv PROVE CountersAgree
  <2> USE DEF ScanInv, Counts
  <2>1. done + Between({"ping", "alive", "count"}) = Drawn
    BY <1>1 DEF CountersBalance
  <2>2. Cardinality(answered) = alive + Between({"alive"})
    BY <1>1 DEF CountersBalance
  <2>3. \A w \in Pool : up[w] <= alive /\ mine[w] <= done
    BY <1>1 DEF CountersBalance
  <2>4. \A v, w \in Pool :
          v # w /\ pc[v] = "ping" /\ pc[w] = "ping" => host[v] # host[w]
    BY <1>1 DEF HostsBalance
  <2> QED BY <2>1, <2>2, <2>3, <2>4 DEF CountersAgree, Drawn
<1> QED BY <1>1, ScanInvariant, PTL

\* ScanDone comes last and tells the truth: every host was probed once, and as
\* many answered as it says (scan_subnet, drain_events).
THEOREM DoneTellsTheTruth == Spec => []DoneIsFinal
<1>1. ASSUME ScanInv PROVE DoneIsFinal
  <2> SUFFICES ASSUME NEW i \in 1 .. Len(chan), chan[i].k = "done"
               PROVE  /\ i = Len(chan)
                      /\ chan[i].alive = Cardinality(answered)
                      /\ \A h \in HostIds : probed[h] = IF h <= total THEN 1 ELSE 0
    BY DEF DoneIsFinal
  <2> USE DEF ScanInv
  <2>1. /\ ~joining /\ i = Len(chan) /\ chan[i].alive = alive
        /\ \A w \in Pool : pc[w] \in {"none", "exit"}
    BY <1>1 DEF Course
  <2>2. chan # <<>>
    BY <1>1 DEF TypeOK
  <2>3. scanning
    BY <1>1, <2>2 DEF Course
  <2>4. Drawn = total /\ alive = Cardinality(answered)
    BY <1>1, <2>1, <2>3, AllDrawn
  <2>5. \A h \in HostIds : probed[h] = IF h <= total THEN 1 ELSE 0
    BY <1>1, <2>1, <2>4 DEF HostsBalance
  <2> QED BY <2>1, <2>4, <2>5
<1> QED BY <1>1, ScanInvariant, PTL

\* Every step of the progress is reported by one worker, once (scan_subnet).
THEOREM ProgressReportedOnce == Spec => []ProgressOnce
<1>1. ScanInv => ProgressOnce
  BY DEF ScanInv, ReportsBalance
<1> QED BY <1>1, ScanInvariant, PTL

\* When the button is offered again, no thread and no event of the old scan is
\* left to disturb the next one (drain_events, scan_subnet).
THEOREM ScanLeavesNothing == Spec => []NoThreadWhenIdle
<1>1. ScanInv => NoThreadWhenIdle
  BY DEF ScanInv, Course, NoThreadWhenIdle
<1> QED BY <1>1, ScanInvariant, PTL

-----------------------------------------------------------------------------
(* The refinement of Job.                                                  *)

\* The hosts the scan still has to probe.
Left == {h \in HostIds : scanning /\ h <= total /\ probed[h] = 0}

\* What a click leaves to be done was not left before.
LEMMA ClickStarts ==
  ASSUME NEW n \in HostIds, ScanClicked(n)
  PROVE  Promise!Start
BY DEF ScanClicked, Promise!Start

\* A probe settles the host in the worker's hands, which none has settled.
LEMMA PingDoes ==
  ASSUME ScanInv, NEW w \in Pool, Ping(w)
  PROVE  Promise!Do({host[w]})
<1> USE DEF ScanInv, Counts
<1>1. /\ pc[w] = "ping" /\ probed' = [probed EXCEPT ![host[w]] = @ + 1]
      /\ scanning' = scanning /\ total' = total
  BY DEF Ping, uiVars
<1>2. scanning
  BY <1>1 DEF Course
<1>3. host[w] \in 1 .. Drawn /\ host[w] \in HostIds /\ host[w] <= total
  BY <1>1 DEF HostsBalance, HostIds, TypeOK, Drawn
<1>4. probed[host[w]] = 0
  BY <1>1, <1>3 DEF HostsBalance
<1>5. probed'[host[w]] = 1 /\ \A h \in HostIds \ {host[w]} : probed'[h] = probed[h]
  BY <1>1, <1>3, <1>4 DEF TypeOK
<1>6. host[w] \in Left /\ Left' = Left \ {host[w]}
  BY <1>1, <1>2, <1>3, <1>4, <1>5 DEF Left
<1> QED BY <1>1, <1>2, <1>6 DEF Promise!Do, Left

\* The page hears the end when no host is left.
LEMMA ShowFinishes ==
  ASSUME ScanInv, Show
  PROVE  Promise!Finish \/ UNCHANGED <<scanning, Left>>
<1> USE DEF ScanInv, Counts
<1>1. /\ chan # <<>> /\ UNCHANGED <<total, probed>>
      /\ scanning' = scanning \/ (Head(chan).k = "done" /\ scanning' = FALSE)
  BY DEF Show
<1>2. CASE scanning' = scanning
  BY <1>1, <1>2 DEF Left
<1>3. CASE Head(chan).k = "done" /\ scanning' = FALSE
  <2>1. 1 \in 1 .. Len(chan) /\ chan[1].k = "done"
    BY <1>1, <1>3 DEF TypeOK
  <2>2. ~joining /\ (\A w \in Pool : pc[w] \in {"none", "exit"}) /\ scanning
    BY <1>1, <2>1 DEF Course
  <2>3. Drawn = total
    BY <2>2, AllDrawn
  <2>4. \A h \in HostIds : h <= total => probed[h] = 1
    BY <2>2, <2>3 DEF HostsBalance
  <2>5. Left = {} /\ Left' = {}
    BY <1>3, <2>4 DEF Left
  <2> QED BY <1>3, <2>2, <2>5 DEF Promise!Finish, Left
<1> QED BY <1>1, <1>2, <1>3

\* Every step of the scan is one of the job's, or none.
LEMMA ScanJobStep ==
  ASSUME ScanInv, [Next]_vars
  PROVE  [Promise!Next]_<<scanning, Left>>
<1>1. CASE UNCHANGED <<scanning, total, probed>>
  BY <1>1 DEF Left
<1>2. ASSUME NEW n \in HostIds, ScanClicked(n) PROVE Promise!Next
  BY <1>2, ClickStarts DEF Promise!Next
<1>3. CASE Show
  BY <1>3, ShowFinishes DEF Promise!Next
<1>4. CASE Join
  BY <1>1, <1>4 DEF Join, uiVars
<1>5. ASSUME NEW w \in Pool, Worker(w)
      PROVE  [Promise!Next]_<<scanning, Left>>
  <2>1. CASE Ping(w)
    <3>1. host[w] \in HostIds
      BY <2>1 DEF Ping, ScanInv, HostsBalance, HostIds, Drawn, TypeOK, Counts
    <3>2. {host[w]} \in SUBSET HostIds
      BY <3>1
    <3>3. Promise!Do({host[w]})
      BY <2>1, PingDoes
    <3>4. \E I \in SUBSET HostIds : Promise!Do(I)
      BY <3>2, <3>3 DEF Promise!Do
    <3> QED BY <3>4 DEF Promise!Next
  <2>2. CASE Draw(w) \/ CountAlive(w) \/ CountDone(w) \/ LoadAlive(w) \/ Send(w)
    BY <1>1, <2>2 DEF Draw, CountAlive, CountDone, LoadAlive, Send, uiVars
  <2> QED BY <1>5, <2>1, <2>2 DEF Worker
<1> QED BY <1>1, <1>2, <1>3, <1>4, <1>5 DEF Next, vars, uiVars

\* A scan keeps what Job promises, for any subnet and any pool: one at a time,
\* no host probed twice, over only when every host has been (scan_subnet).
THEOREM ScanRefinement == Spec => ImplementsJob
<1>1. Init => Promise!Init
  BY DEF Init, Promise!Init
<1>2. ScanInv /\ [Next]_vars => [Promise!Next]_<<scanning, Left>>
  BY ScanJobStep
<1> QED
  BY <1>1, <1>2, ScanInvInit, ScanInvStep, PTL
     DEF Spec, ImplementsJob, Promise!Spec, Promise!jobVars, Left
=============================================================================
