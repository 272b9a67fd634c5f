------------------------------ MODULE ArpScan ------------------------------
(***************************************************************************)
(* The ICMP scan of a subnet: a coordinator thread spawns a pool of        *)
(* workers that draw host indices from a shared counter, probe the host,   *)
(* count, and report their progress; it joins them and reports the end.    *)
(* The ARP page offers the next scan when it has handled that report.      *)
(*                                                                         *)
(* All counters are relaxed atomics: an addition acts on the latest value, *)
(* a load may return an older one, but none older than what the thread has *)
(* seen, unless a join orders it.                                          *)
(***************************************************************************)
EXTENDS Naturals, Sequences, FiniteSets

CONSTANTS
  PoolSize,   \* threads of the pool (64 in the code)
  MaxHosts,   \* hosts of the largest subnet (1024 in the code)
  MaxScans    \* bound: scans started

ASSUME ScanAssumption ==
  PoolSize \in Nat \ {0} /\ MaxHosts \in Nat \ {0} /\ MaxScans \in Nat

Pool == 1 .. PoolSize
HostIds == 1 .. MaxHosts
Counts == 0 .. MaxHosts

PCs == {"none", "draw", "ping", "alive", "count", "load", "send", "exit"}

\* ScanProgress and ScanDone.
Events == [k : {"progress"}, done : Counts, alive : Counts]
          \cup [k : {"done"}, alive : Counts]

VARIABLES
  scanning,  \* arp_scanning
  shown,     \* arp_scan: done and alive as displayed
  scans,     \* scans started so far
  chan,      \* scan events in the event channel
  total,     \* hosts of the scan under way
  joining,   \* the coordinator is joining the workers
  next, done, alive,  \* the shared counters
  pc,        \* the workers
  host,      \* index a worker has drawn
  mine,      \* its value of `done`
  up,        \* the value of `alive` it last saw
  probed,    \* history: how often each host was probed
  answered   \* history: hosts that answered

uiVars == <<scanning, shown, scans, total>>
counters == <<next, done, alive>>
vars == <<uiVars, chan, joining, counters, pc, host, mine, up, probed, answered>>

Init ==
  /\ scanning = FALSE /\ shown = [done |-> 0, alive |-> 0]
  /\ scans = 0 /\ chan = <<>> /\ total = 0 /\ joining = FALSE
  /\ next = 0 /\ done = 0 /\ alive = 0
  /\ pc = [w \in Pool |-> "none"] /\ host = [w \in Pool |-> 0]
  /\ mine = [w \in Pool |-> 0] /\ up = [w \in Pool |-> 0]
  /\ probed = [h \in HostIds |-> 0] /\ answered = {}

-----------------------------------------------------------------------------
(* The UI thread.                                                          *)

\* Fault: the button stays enabled during a scan.
ScanClickedAgain(n) ==
  /\ scans < MaxScans /\ scans' = scans + 1
  /\ scanning' = TRUE /\ shown' = [done |-> 0, alive |-> 0]
  /\ total' = n /\ joining' = TRUE
  /\ next' = 0 /\ done' = 0 /\ alive' = 0
  /\ pc' = [w \in Pool |-> IF w <= n THEN "draw" ELSE "none"]
  /\ host' = [w \in Pool |-> 0] /\ mine' = [w \in Pool |-> 0]
  /\ up' = [w \in Pool |-> 0]
  /\ probed' = [h \in HostIds |-> 0] /\ answered' = {}
  /\ UNCHANGED chan

\* "Scan subnet" on a subnet of n hosts: the coordinator spawns as many
\* workers as there are hosts, up to the pool size.
ScanClicked(n) ==
  /\ ~scanning
  /\ scans < MaxScans /\ scans' = scans + 1
  /\ scanning' = TRUE /\ shown' = [done |-> 0, alive |-> 0]
  /\ total' = n /\ joining' = TRUE
  /\ next' = 0 /\ done' = 0 /\ alive' = 0
  /\ pc' = [w \in Pool |-> IF w <= n THEN "draw" ELSE "none"]
  /\ host' = [w \in Pool |-> 0] /\ mine' = [w \in Pool |-> 0]
  /\ up' = [w \in Pool |-> 0]
  /\ probed' = [h \in HostIds |-> 0] /\ answered' = {}
  /\ UNCHANGED chan

\* Fault: ScanDone does not clear arp_scanning.
ShowKeepsScanning ==
  /\ chan # <<>> /\ chan' = Tail(chan)
  /\ shown' = [done |-> 0, alive |-> 0]
  /\ UNCHANGED <<scanning, scans, total, joining, counters, pc, host, mine, up,
                 probed, answered>>

\* drain_events on the oldest event; after ScanDone it re-reads the ARP table.
Show ==
  /\ chan # <<>> /\ chan' = Tail(chan)
  /\ LET e == Head(chan)
     IN  \/ /\ e.k = "progress"
            /\ shown' = [done |-> e.done, alive |-> e.alive]
            /\ UNCHANGED scanning
         \/ /\ e.k = "done"
            /\ scanning' = FALSE /\ shown' = [done |-> 0, alive |-> 0]
  /\ UNCHANGED <<scans, total, joining, counters, pc, host, mine, up, probed,
                 answered>>

-----------------------------------------------------------------------------
(* The workers.                                                            *)

Goto(w, p) == pc' = [pc EXCEPT ![w] = p]

\* Fault: the index is read and written in two steps; the second draws what
\* another worker may have drawn.
DrawStale(w) ==
  /\ pc[w] = "draw"
  /\ \E n \in {next, IF next > 0 THEN next - 1 ELSE next} :
       /\ next' = n + 1
       /\ host' = [host EXCEPT ![w] = n + 1]
       /\ Goto(w, IF n < total THEN "ping" ELSE "exit")
  /\ UNCHANGED <<uiVars, chan, joining, done, alive, mine, up, probed, answered>>

\* next.fetch_add: the next host, or none left.
Draw(w) ==
  /\ pc[w] = "draw"
  /\ next' = next + 1
  /\ \/ next < total /\ host' = [host EXCEPT ![w] = next + 1] /\ Goto(w, "ping")
     \/ next >= total /\ Goto(w, "exit") /\ UNCHANGED host
  /\ UNCHANGED <<uiVars, chan, joining, done, alive, mine, up, probed, answered>>

\* backend.ping returns, within its time-out.
Ping(w) ==
  /\ pc[w] = "ping"
  /\ probed' = [probed EXCEPT ![host[w]] = @ + 1]
  /\ \/ Goto(w, "alive") /\ answered' = answered \cup {host[w]}
     \/ Goto(w, "count") /\ UNCHANGED answered
  /\ UNCHANGED <<uiVars, chan, joining, counters, host, mine, up>>

\* Fault: the answer is counted by load and store.
CountAliveStale(w) ==
  /\ pc[w] = "alive"
  /\ alive' = up[w] + 1
  /\ up' = [up EXCEPT ![w] = up[w] + 1]
  /\ Goto(w, "count")
  /\ UNCHANGED <<uiVars, chan, joining, next, done, host, mine, probed, answered>>

CountAlive(w) ==
  /\ pc[w] = "alive"
  /\ alive' = alive + 1
  /\ up' = [up EXCEPT ![w] = alive + 1]
  /\ Goto(w, "count")
  /\ UNCHANGED <<uiVars, chan, joining, next, done, host, mine, probed, answered>>

CountDone(w) ==
  /\ pc[w] = "count"
  /\ done' = done + 1
  /\ mine' = [mine EXCEPT ![w] = done + 1]
  /\ Goto(w, "load")
  /\ UNCHANGED <<uiVars, chan, joining, next, alive, host, up, probed, answered>>

\* Fault: the report re-reads both counters.
LoadBoth(w) ==
  /\ pc[w] = "load"
  /\ up' = [up EXCEPT ![w] = alive] /\ mine' = [mine EXCEPT ![w] = done]
  /\ Goto(w, "send")
  /\ UNCHANGED <<uiVars, chan, joining, counters, host, probed, answered>>

LoadAlive(w) ==
  /\ pc[w] = "load"
  /\ \E a \in up[w] .. alive : up' = [up EXCEPT ![w] = a]
  /\ Goto(w, "send")
  /\ UNCHANGED <<uiVars, chan, joining, counters, host, mine, probed, answered>>

Send(w) ==
  /\ pc[w] = "send"
  /\ chan' = Append(chan, [k |-> "progress", done |-> mine[w], alive |-> up[w]])
  /\ Goto(w, "draw")
  /\ UNCHANGED <<uiVars, joining, counters, host, mine, up, probed, answered>>

Worker(w) == \/ Draw(w) \/ Ping(w) \/ CountAlive(w) \/ CountDone(w)
             \/ LoadAlive(w) \/ Send(w)

-----------------------------------------------------------------------------
(* The coordinator.                                                        *)

\* Fault: it waits for the first worker only.
JoinFirst ==
  /\ joining /\ pc[1] = "exit"
  /\ joining' = FALSE
  /\ chan' = Append(chan, [k |-> "done", alive |-> alive])
  /\ UNCHANGED <<uiVars, counters, pc, host, mine, up, probed, answered>>

\* Every worker has been joined: its counting is visible.
Join ==
  /\ joining /\ \A w \in Pool : pc[w] \in {"none", "exit"}
  /\ joining' = FALSE
  /\ chan' = Append(chan, [k |-> "done", alive |-> alive])
  /\ UNCHANGED <<uiVars, counters, pc, host, mine, up, probed, answered>>

-----------------------------------------------------------------------------
Next ==
  \/ \E n \in HostIds : ScanClicked(n)
  \/ Show \/ Join
  \/ \E w \in Pool : Worker(w)

Spec == Init /\ [][Next]_vars

\* Threads run and probes time out; the UI drains its channel because update()
\* asks for the next frame while arp_scanning is set.
Fairness == WF_vars(Show) /\ WF_vars(Join) /\ \A w \in Pool : WF_vars(Worker(w))

FairSpec == Spec /\ Fairness

-----------------------------------------------------------------------------
(* Properties.                                                             *)

\* Number of workers at one of the steps ps.
Between(ps) == Cardinality({w \in Pool : pc[w] \in ps})

\* The type invariant.
TypeOK ==
  /\ scanning \in BOOLEAN /\ joining \in BOOLEAN
  /\ shown \in [done : Counts, alive : Counts]
  /\ scans \in 0 .. MaxScans /\ total \in Counts
  /\ chan \in Seq(Events)
  /\ next \in 0 .. MaxHosts + PoolSize /\ done \in Counts /\ alive \in Counts
  /\ pc \in [Pool -> PCs] /\ host \in [Pool -> Counts]
  /\ mine \in [Pool -> Counts] /\ up \in [Pool -> Counts]
  /\ probed \in [HostIds -> Nat] /\ answered \in SUBSET HostIds

\* The counters agree with what the workers did: every host drawn is counted
\* or in the hands of one worker, every answer is counted or about to be.
CountersAgree ==
  /\ (IF next < total THEN next ELSE total)
       = done + Between({"ping", "alive", "count"})
  /\ Cardinality(answered) = alive + Between({"alive"})
  /\ \A w \in Pool : up[w] <= alive /\ mine[w] <= done
  /\ \A v, w \in Pool :
       v # w /\ pc[v] = "ping" /\ pc[w] = "ping" => host[v] # host[w]

\* ScanDone is the last event of its scan and tells the truth: every host has
\* been probed exactly once and as many answered as it says.  The page uses it
\* to re-read the ARP table (scan_subnet, drain_events).
DoneIsFinal ==
  \A i \in 1 .. Len(chan) : chan[i].k = "done" =>
    /\ i = Len(chan)
    /\ chan[i].alive = Cardinality(answered)
    /\ \A h \in HostIds : probed[h] = IF h <= total THEN 1 ELSE 0

\* Each step of the progress is reported once: no two reports, in the channel
\* or about to be sent, carry the same count, though they may be out of order.
ProgressOnce ==
  LET sent == {i \in 1 .. Len(chan) : chan[i].k = "progress"}
      held == {w \in Pool : pc[w] \in {"load", "send"}}
  IN  /\ \A i, j \in sent : chan[i].done = chan[j].done => i = j
      /\ \A v, w \in held : mine[v] = mine[w] => v = w
      /\ \A i \in sent, w \in held : chan[i].done # mine[w]

\* A scan is the abstract job: while the page shows it no second one starts,
\* no host is probed twice, and the page shows it until every host is probed.
Promise == INSTANCE Job WITH
  Items <- HostIds,
  busy  <- scanning,
  todo  <- {h \in HostIds : scanning /\ h <= total /\ probed[h] = 0}
ImplementsJob == Promise!Spec

\* When the button is enabled again no thread and no event of the old scan is
\* left, so none can disturb the next one (drain_events, scan_subnet).
NoThreadWhenIdle == ~scanning => ~joining /\ chan = <<>>
                                 /\ \A w \in Pool : pc[w] \in {"none", "exit"}

\* A scan ends (the workers run out of hosts, the coordinator reports).
ScanEnds == []<>~scanning
=============================================================================
