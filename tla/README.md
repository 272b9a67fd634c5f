# RustyTools in TLA+

RustyTools is a desktop toolbox for networks (continuous ping, MTR-style
traceroute, DNS, ARP scan, packet sender, network configuration).  It is one
egui program: a UI thread that draws frames and background threads that do the
blocking work.  This directory holds a TLA+ model of its core, the TLC
configurations that check it and the TLAPS proofs about it.

## The system

| component (source) | state | operations | talks to |
|---|---|---|---|
| ping session (`ping.rs`, `app/ping_tab.rs`) | `ping_session`, table rows, log panel, one thread and one log file per target, a stop flag | start, stop, clear, poll, one probe | UI thread through `tx`/`rx`; file system |
| traceroute session (`traceroute.rs`, `app/trace_tab.rs`) | `trace_session`, hop rows, a thread per target, a child process per target in a map under a mutex, a thread per hop | start, stop (kills the children), discover, monitor | UI thread; the system traceroute |
| UI frame (`app.rs`) | the receiver, all of the above, `delete_confirm`, `config_dirty` | drain events, draw a page (clicks), save settings, ask for another frame | everything |
| ARP (`arp.rs`, `app/arp_tab.rs`) | table, scan counters, vendor cache | refresh, scan a subnet with a pool of threads, look vendors up | UI thread |
| DNS (`dns.rs`, `app/dns_tab.rs`) | results, `dns_running` | query every name at every server | UI thread; log file |
| packet sender (`packet.rs`, `app/packet_tab.rs`) | `packet_session`, a send counter | start, stop, send | UI thread; log file |
| ICMP engine (`icmp.rs`) | a socket per probe | send an echo request, match the answer | ping, traceroute and ARP threads |
| log files (`util.rs`) | six sub-folders of a folder the user chooses | create, delete own files, delete folders | all sessions |
| settings (`settings.rs`, `app/settings_tab.rs`) | `AppConfig`, its JSON file | load, save, remove traces and quit | log files |
| network configuration (`netconfig.rs`) | the last report | read system tools in a thread | UI thread |
| start-up, theme, logo | - | drawing | - |

Threads share three things with the UI: an unbounded FIFO channel of events
(`std::sync::mpsc`), an atomic stop flag per session, and, for traceroute, the
map of child processes under a mutex.  The UI thread never blocks on a worker
except in `TraceSession::stop`, which takes that mutex.

What is hard to test here: threads that outlive the session that started them;
reports sent between two steps of one frame; a UI that sleeps unless a frame
was requested; Stop racing the spawn, the wait for and the removal of a child
process; pipes read one after the other; two-step confirmations whose guard is
tested only at the first step; a settings file rewritten in place.  The list,
with the line each one bites at, is under `hazards` in `PROJECT.json`.

What makes each part correct:

* a session: every thread belongs to a session the user can stop; Stop ends
  them all, each with at most one more report; the session is dropped only when
  they have ended; every result reaches its file, the table and the panel once
  and in order; what is on screen belongs to the session shown;
* traceroute besides: no child process survives its worker or Stop; the UI
  never waits for ever for the child map; hop rows exist before their samples;
* the frame: while anything runs, another frame is coming;
* DNS, vendors, network report: a job is shown until it is over, is over at last,
  and has by then delivered every result it owes, in order and of this run only;
* ARP scan: every host is probed once, the counters end at their totals, Done
  comes last; ICMP: an answer is taken only by its own request;
* log files and settings: nothing being written is deleted, nothing foreign is
  deleted, after "remove traces" nothing is left, a crash loses no settings.

## Modules

| module | models |
|---|---|
| `Session` | abstract: what the user is promised about a stoppable session |
| `PingSession` | UI frame + ping page + workers + channel + log files |
| `PingSession_proofs` | theorems about `PingSession` |
| `TraceSession` | target workers, child processes and their mutex, hop threads, hop page |
| `TraceSession_proofs` | theorems about `TraceSession` |
| `LogStore` | log folder, log files, the two-step deletions, removal of all traces, settings file, end and restart of the process |
| `LogStore_proofs` | theorems about `LogStore` |
| `Job` | abstract: what the user is promised about a background job that cannot be stopped |
| `ArpScan` | subnet scan: button, coordinator, pool of threads, shared counters, reports |
| `ArpScan_proofs` | theorems about `ArpScan` |
| `Frame` | the UI thread as the pages below share it: drain, draw, request of a further frame; the event channel |
| `DnsRun`, `VendorLookup`, `NetRefresh`, `PacketRun` | one job each on top of `Frame`: DNS page, vendors of the ARP page, network configuration page, packet page |
| `Pages` | the composition of these four on one UI thread and one channel |
| `Pages_proofs`, `PagesResults_proofs` | theorems about `Pages`: its threads; what it shows |
| `IcmpProbe` | sockets, requests, late, duplicate and foreign answers, matching, deadline |
| `IcmpProbe_proofs` | theorems about `IcmpProbe` |
| `SourceSelection`, `SourceSelection_proofs` | the source selectors of four features over one list of interfaces, and a theorem |
| `MCPing`, `MCTrace`, `MCLogs`, `MCPages`, `MCParts` | instances for TLC |

Operators whose comment begins with "Fault" are wrong variants of the operator
after them (a dropped guard, a missing step, a swapped order).  They are used
by no specification; each shows that some property notices that bug.

### PingSession and the code

A frame of `update()` is a walk of `ui`: `drain` (`drain_events`), `poll` (the
first lines of `ui_ping`), `tab` (the rest of it, at most one click), `end` (the
test that requests another frame).  The workers run between any two of these
steps, which is what makes a report arrive after the drain and before the poll.
egui draws a frame when one was requested (`RepaintFrame`) or on user input
(`InputFrame`), and one more after an input.  `start()` runs inside the click
(`ui = "start"`): it creates a file and spawns a thread per target, while the
threads already spawned run; if `File::create` fails it returns through `?`.

A worker is `resolve -> loop -> ping -> send -> loop ... -> done`.  The log line
(`Ping`) and the event (`Send`) are two steps.  A failed resolution skips the
loop with sequence number 0.  The wait between probes is not a step: at `loop`
a worker may go on, or end when it sees the flag.

A report carries the worker, of which the program transmits only the target;
the session number in it is a history variable, used only by properties.

Two buttons clear the log panel: "Clear results" (`ClearClicked`), which restarts
the counters too, and the "Clear" of the event log (`LogClearClicked`), after which
the rows count lines the panel no longer has.  The history variable `logCleared`
is set by the second and reset when table and panel are emptied together.
Abstracted: round-trip times, jitter, addresses, the graph, texts.

### TraceSession and the code

A target worker is `resolve -> spawn -> register -> stdout -> stderr -> wait ->
decide -> names -> join -> done`.  `lock` is the mutex of the child map: insertion
takes it for one step; `Remove` takes it and `Wait` gives it back, because the
guard of the map lives to the end of the `if let` that waits for the child.
Stop is two steps, the flag and the kill, since the second waits for the mutex;
the whole UI thread waits with it.  A child runs, may block on its stderr pipe
(if `StderrFits` is FALSE), closes its pipes, exits, is waited for.  Hop lists
are functions from hop numbers to silent / an address on the way / destination;
`BuildHopInfos` cuts them at the destination or adds it.  One session per run:
starting again, Clear results and the names of hops are left out.

### LogStore and the code

One step is what the UI thread does with a click, or the end of a session or of
the process.  `Create` is `ensure_log_dir` and the creation of a file, by a
session (which keeps it open: `writing`) or by an export (which does not).  The
three deletions have an arming step with its guard and a confirming step:
`log_action_buttons` on each page (one `delete_confirm` for all of them, so
arming one page disarms another), "Delete all logs" and "Remove all traces and
quit" in `ui_settings`.  `clear_log_files` stops at the first file it cannot
delete, in the order of the directory, which is any; `delete_log_dir` stops at
the first sub-folder, in the order of `LOG_FILES` (`DeletedByDir`).  A session
writes one file here; ping and traceroute write one or two per target, which makes
no difference to the deletions because they are deleted together.

Where a file per target does make a difference is a start that fails half-way
(`StartFails`): the page holds no session, so the guards of all three deletions are
open, while a thread writes its log (`orphans`, until `OrphanEnds`).  `Running` and
`Busy` look at the sessions the pages hold (`Held`), as `is_running` does, and what
the guards achieve is stated of these.  For the others nothing holds: finding 1.

`Edit` is a change of the log folder and stands for every setting.
`config_dirty` is `ui = "save"`; `save()` truncates the file (`SaveTruncates`)
and writes it (`SaveWrites`), each may fail and the process may end (`Ends`)
before, between and after.  The history variables `late`, `failed`, `wiped`
appear in properties only, but for `late`, which depends on what is armed.
Abstracted: names of files, files of other programs, removal of empty folders.

### ArpScan and the code

A thread of the pool goes round `draw -> ping -> alive -> count -> load -> send`
and ends at `exit`: `next.fetch_add`, the probe, `alive.fetch_add` if it was
answered, `done.fetch_add`, `alive.load` for the report, the send.  The counters
are relaxed atomics: `LoadAlive` may return any value between the last one the
thread has seen and the latest one; an addition acts on the latest.  The joins of
the coordinator are one step (`Join`), enabled when all threads have ended, which
also sends `ScanDone`.  The subnets offered have at least two hosts
(`enumerate_hosts` with a prefix up to 30), so the branch for an empty list is
never taken; an instance also scans a single host.  Reading the ARP table is one
system call and text parsing; vendors are in `VendorLookup`.

Reports of two threads may arrive in either order, so what the page shows may go
back by a few hosts, and a report may count more answers than another with a
higher count; neither the code nor its documents promise otherwise, and
`ProgressOnce` says what does hold.

### Pages and the code

`Frame` is coarser than the frame of `PingSession`, and its comment says why
nothing is lost: a thread only appends to the channel, so draining is one step,
and drawing a page and the test at the end of `update()` look at each thread
once, so they are another.  Threads run between the two, which is where a report
misses its frame.  Which page is shown is free, a frame has at most one click.
A start that is refused (no name, bad address, log file not created) changes
nothing but a message and is left out.

* `DnsRun`: `start_dns` and `dns::start` are `ResolveClicked`; the thread sets up
  a resolver per server (`SetUpServer`, a failure is an event of its own), then
  asks every name at every server (`Query`), then sends Done, also when no server
  is left.  Clear results may be pressed at any time.
* `VendorLookup`: "Resolve vendors" empties `arp_vendors` and looks the whole
  table up, "Resolve" in a row adds one; embedded or online.  An address without
  prefix is skipped, online also one already asked; a database that does not load
  is an error followed by Done.  The pause between online requests is no step.
* `NetRefresh`: `refresh_netconfig` refuses while `net_loading`; the page calls it
  at its top (no report yet, or automatic refresh due) and by its button.  Both
  calls in one frame are one `Refresh`: the first sets `net_loading`, so the second
  returns at once.
* `PacketRun`: resolution, the loop with its interruptible wait, one line for each
  packet.  There is no Done event: the page asks the thread whether it has
  finished, so `FinishPacket` changes what the page shows without an event.

The numbers `run` in threads and events, `failed`, `dnsCleared` and `lastBulk` are
history: no guard reads them (a number is given at `Launch`, which is also
where the bound `MaxStarts` applies).

### IcmpProbe and the code

One step of `SendRequest` is `Backend::ping` as far as the send: the socket is kept
while the address stays the same (ping and hop workers) and replaced when it
changes (scan workers); each socket takes the next identifier, process id xor
`IDENT_COUNTER`.  `requests` is everything ever sent, and a packet that arrives is
about any of them, at any time, any number of times: that is loss, duplication,
delay and reordering in one.  `Reaching` is what the kernel hands over: to a
datagram socket of Linux (`kernel`) the replies to its own identifier, to a raw or
macOS socket every reply of its peer and every error.  `Matches` is `classify`.
Linux reports errors through the return codes of send and recv, without naming
the request; they may be about an earlier request of the same socket, which
`AnswerIsOurs` allows and nothing in the code excludes.  `Clock` is the deadline in
`Slices`; an unrelated packet does not renew it.  Identifier and sequence number
wrap (`Ident`, `AsSeq`); `AnswerIsOurs` says what wrapping costs.

### SourceSelection and the code

`advanced_source_ui` is `SelectSource` and `RefreshIfaces`, `source_config` is
`StartFrom`.  The list is shared by all features, the selection is an index into it.
After a refresh an index within the list may name another interface than before;
the page shows the label it now has, and the code promises no more.

### MCParts

`ArpScan`, `IcmpProbe` and `SourceSelection` share no state and are checked in one
run.  `part` chooses which of them a behaviour is about; the other two rest.

| run | instance | shows |
|---|---|---|
| `ping_session` | 2 targets, 2 sessions, 1 probe, panel of 3, outcomes ok and error; symmetric targets | thread ownership, no missed repaint, the inductive invariant, every probe counted once, refinement of `Session` |
| `ping_results` | 2 targets, 1 session, 2 probes, outcomes ok, timeout, error; fair | order and completeness of the panel, table against panel, Stop ends the threads, results are shown |
| `ping_delete_offered` | 2 targets, 1 session | **violated**: after a failed start, deletion is offered while orphans write |
| `ping_stale_report` | 2 targets, 2 sessions | **violated**: a late report is counted in the next session |
| `trace_session` | 1 target, hop limit 2, 2 lines, 2 probes | children waited for, no sample lost, final status last, refinement of `Session` |
| `trace_stop` | 2 targets, hop limit 1, 1 line, stderr may block; fair | Stop kills, returns, and ends the threads |
| `log_store` | 2 folders, a session and an export, 3 files | guards of deletions, removal of traces, settings of a process killed between frames, the inductive invariant |
| `log_deleted_open` | the same | **violated**: an armed deletion confirmed after Start deletes the open log |
| `traces_left` | the same | **violated**: logs in a formerly selected folder survive the removal |
| `scan_probe_source` | scan: 2 threads, subnets of 1 to 3 hosts, 2 scans; probes: a ping and a scan worker, 2 addresses, 2 identifiers, 2 sequence numbers, 3 requests, a deadline of 2; source: 4 features, every list of up to 3 interfaces; fair | every host once, counters, ScanDone last and true, nothing left of a scan when the next may start, refinement of `Job`, termination; no result is about another request, every probe ends; no selection outside the list |
| `app_pages` | 2 jobs in any combination: 2 names at 2 servers, 2 addresses of 1 prefix, 2 packets with a panel of 1 line; fair | each job in sight until over, answers complete and in order, vendors of the latest run, refinement of `Job` three times and of `Session`, jobs end |
| `packet_last_line` | 1 job of 1 packet; fair | **violated**: the last line of a packet session may stay in the channel |

The bounds.  Two targets are needed for a start that fails half-way and for two
workers competing for the child map; two sessions for a report that crosses
from one to the next; a panel of three lines overflows with four reports; two
probes make an order.  A hop limit of two gives a hop before the destination
and a destination beyond the limit.  `ping_results` has one session because
`ping_session` already covers what two of them do to the threads; `trace_stop`
has no hop probes because its subject is discovery.  In `log_store` two folders make one
a formerly selected one, and three files give a log written before a deletion was
armed, one written after it or left to a thread of a failed start, and an export.  Two threads and three hosts let one
thread overtake the other and give a thread more than one host; fewer hosts than
threads is the case of one host; a second scan shows what the first leaves behind.  `CHECK_DEADLOCK FALSE` stands in the
traceroute runs because a session may be over and nothing follows it in the
model; that no thread is stuck before is what the liveness properties say.  In
`scan_probe_source` and `app_pages` it stands because scans, requests and starts
are bounded.  Two identifiers, two sequence numbers and three requests make both
numbers wrap, so that the exceptions of `AnswerIsOurs` are met and not only
stated; two slices make the deadline pass between two packets.  Two jobs in
`app_pages` are two of one page, or one each of two pages, whose events mix in
the channel; two addresses of one prefix, or one without, are the cases of the
online lookup; a panel of one line overflows with two packets.

### Fairness

Weak fairness of each thread: a worker at `resolve` or `ping` returns because
name resolution and probes have time-outs, and the operating system schedules
it.  The UI thread finishes a frame it is in and draws a frame that was
requested; clicks and input are not fair.  `KillAll` is fair because the mutex
is free again and again and the UI thread is waiting for it.  The child is fair
while it is not blocked: traceroute ends by its own hop limit and time-outs.
In `ArpScan` a probe has a time-out of a second, threads are scheduled, and
`Show` is fair because `update()` asks for the next frame while `arp_scanning`.
In `Pages` each page's thread and `UIStep` (a frame that was requested) are fair:
queries, packets and curl have time-outs; that the system tools of the network
report end is an assumption, the code gives them none.  In `IcmpProbe` only the
clock is fair; the network owes nothing.

### What was found

1. `start()` leaks running workers when a later log file cannot be created
   (`ping.rs:82`, the same at `traceroute.rs:97`): nothing can stop them, and
   `app.rs:471` ("disabled while a session is writing") no longer holds:
   `ping_delete_offered`.  `TraceSession` and `LogStore` contain such starts too
   (`Start` with `ok` false, `StartFails`); no run of theirs is about the deletion
   that the traceroute page then offers.
2. A report sent between the drain and the poll of a frame in which Start is
   clicked lands in the table of the new session (`ping_tab.rs:116`).
3. `StopKillsChildren` and `StopEndsThreads` carry an exception, the history
   variable `missed`: a child inserted into the map after Stop has gone through
   it runs to its own end; a second press of Stop kills it.
4. The guard of a deletion is tested only when it is armed.  Armed, Start, "Yes,
   delete" removes the log the session is writing (`app.rs:487`, the same at
   `settings_tab.rs:85` and `:128`), against "disabled while a session is
   writing".  `OnlyLateStartsLoseLogs` is what the guards do achieve for the
   sessions the pages hold.
5. "Remove all traces" goes through the folder selected now; logs written to a
   folder selected earlier stay (`settings_tab.rs:130`).
6. A process killed inside a save, after the truncation, finds no valid JSON and
   starts with the defaults (`settings.rs:72`), and a failed save is not tried again
   before the next edit (`app.rs:608`), against "Settings are saved automatically
   and persist across restarts" (`settings_tab.rs:155`).  `LogStore` has both, and
   both are what `SettingsSurvive`, which passes, exempts; no run shows them.  It
   does cover what follows: the process started next works with what it finds.
7. The packet page has no Done event: a line sent after the drain by a thread
   that ends before the test at the end of the same frame (`app.rs:617`) stays in
   the channel until the user moves the mouse, against "every result line goes to
   the log file and to the UI" (`packet.rs:67`).  The ping and traceroute pages ask
   their threads in the same way and have the same gap for their last report, which
   is why `ShownWhileRunning` promises nothing once the threads have ended.  The
   pages that drop their flag on a Done event do not have it:
   `JobsKeepFramesComing`, `JobsEnd`.

## Proofs

`PingSession_proofs` is checked by TLAPS for all values of the constants that
satisfy `PingAssumption`.

* `TypeCorrect`: `TypeOK` is inductive as it stands, by cases on the actions.
* `SessionInvariant`: `SessionInv` is the inductive strengthening.  Ownership
  alone is not inductive: dropping the session at `Poll` keeps it only because
  no worker of it lives; handing over a new session at `StartReturns` keeps it
  only because no session is held (`ui = "start" => session = 0`), which in
  turn needs that the page offers Start only without a session (`ui = "tab" =>
  (running <=> session # 0)`), and that threads exist only of sessions begun.
  `WorkerFacts` isolates what a worker can do to it: nothing is born.
* `ThreadsAreOwned` and `FramesKeepComing` are its two conclusions; the second is
  checked by TLC as the conjunct `RepaintWhileRunning` of `SessionInv`.
* `SessionRefinement`: `PingSession` implements `Session`.  `FrameStep` maps a
  step of the UI thread to Start, Stop, Close or a stutter; `MemberStep` maps a
  worker's step to Report, Decline, Exit or a stutter; both under `TypeOK` and
  `SessionInv` (Start needs that the flag of a new session is not set).
* `ReportsAreOrdered`: `ReportsInOrder` speaks of panel and channel as one sequence
  (`Stream`).  The UI only moves the border between the two and drops the oldest
  lines (`UIStream`), which keeps the order (`OrderShift`); a worker appends the
  number after the last it sent (`OrderSend`).  `OrderInv` adds why the first report
  of a worker is the first: a worker still to be spawned, or about to report a
  failed resolution, has no line anywhere, and a session being started has threads
  only for targets no longer in `todo`.
* `TableAgrees`: `TableMatchesPanel` is inductive with `TypeOK`; the one case is a
  drained report, which is a line more in the panel and one more in its row
  (`TableDrain`, `OneMore`), and never makes a full panel less than full.  Once the
  panel has lost a line, at its cap or by its own Clear, it says nothing.
* `ProbesAreCounted`: `ProbesCountedOnce` says it without the panel.  `Forgotten` is
  the number of probes reported for a target, less those in the channel, less those
  in its row; only a click that clears the row changes it.  A send adds a probe to
  the first two (`SendCounts`: the last number a worker has sent goes up by one,
  `OneMoreProbe`), a drain moves one from the second to the third (`DrainCounts`),
  and no other step changes any of them but a click (`LastSentStays`, `ClicksCount`).
  It needs `OrderInv`, for a failed resolution has the number 0, and that a worker
  stays within its probes (`SeqBound`).

`LogStore_proofs` is checked for any folders and any number of files, from
`LogAssumption`.

* `TypeCorrect`, with the lemmas on new files (younger than all others, so never
  mistaken for a deleted one).
* `StoreInvariant`: `StoreInv` is inductive with `TypeOK`.  "Logs of held sessions
  exist or are late" is not: a confirmed deletion keeps it only because such a log
  that is not late has no deletion armed (`LogsSafe`), which arming keeps by its
  guard and starting by calling the new log late if its deletion is armed.  A start
  that fails adds no log to those of held sessions.
  `WipeClears` needs that the program handles no click after the removal.
* `GuardsProtectLogs`, `WipeIsComplete`, `SettingsAreKept` are its conclusions.

`SourceSelection_proofs`: `SourceSelectionsValid`, by cases on the three
operations; `SourceIndexValid` is inductive as it stands, because a refresh treats
the selections of all features, not only of its own page.

`Pages_proofs` and `PagesResults_proofs` are checked for any number of jobs, names,
servers, addresses and packets and any panel, from the assumptions of the
components; those about bounds ask only that the sets of counts an instance offers
are finite, since the types speak of their maxima.  The first is about the threads.

* `JobsStayInSight`: `JobsKeepFramesComing` is not inductive.  The drain drops a
  flag when it sees a Done, which is right only because Done is the last event of a
  thread that is over (`DoneIsLast`), and a page starts a job only when its flag is
  down (`FlagsOK` gives the flags their types).  `DrainKeeps`, `EndKeeps` and one
  lemma per component are the cases of the step.
* `JobsRefinement`: the three jobs implement `Job`.  Besides `JobsInv` it needs that
  the counters of a thread only go forward and stay within what it was started with,
  and that the query loop has not moved during set-up (`JobsShape`).  `DnsSettles`
  and `VendorSettles` show that a thread's step takes items out of its set and adds
  none, the lemmas `...JobStep` map every step.
* `PacketRefinement`: the packet page implements `Session` with one member; the
  mapping is `PacketPhase`, `PacketAtWork`, `PacketOwed`, `PacketReports`.  `PacketInv`
  says what a thread at each place has sent, so that after Stop it owes a line only
  while it resolves or has a packet under way.

The second is about what the pages show.  A drain takes the whole channel, and each
page gets its own events in their order: `Kept`.  It is a recursive function, so
nothing about it is had by expanding it.  Its laws (`KeptExists`, `KeptSolution`,
`KeptNone`, `KeptTypes`, `KeptMore`: what is kept of a longer channel) are proved
without induction over sequences: a law that failed would fail first at some
smallest place (`Smallest`, `UpTo`), and the place before it says that it does not.

* `DnsAnswersComplete`: `AnswersComplete` speaks of the answers on the page and in the
  channel as one sequence, which a drain leaves alone.  `Settles` is the set of
  queries the thread has behind it; `AnswersInv` says that the answers of this run are
  settled queries in their order, and that what is settled without an answer was
  cleared, before all of those (`InOrder`).  That a new answer comes last needs that
  all that is settled comes before what is not (`Ahead`), hence that the list of
  servers that could be set up is ordered and complete (`Placed`).  `OrderMore`,
  `OrderCleared` and `OrderNew` are an answer, Clear results and a start.
* `VendorsReplacedByRuns`: not inductive, for a vendor may be missing while the lookup
  runs.  `VendorInv` says that an address behind the thread has its vendor on the page
  or on its way there (`Found`), and so has a prefix the online lookup skips because
  it was asked before; that only vendors of the last run are on their way
  (`AllOfLastRun`) is what keeps an old one from replacing a new one.
* `PagesTypeCorrect`: `TypeOK` is not inductive with its parts alone.  That a query
  index has its type needs that it stays within the servers set up (`Placed`), that an
  event in the channel has its type needs that the thread was within its list;
  `PagesInv` is the conjunction of all the invariants above and `TypesInv`.

`TraceSession_proofs`: for any targets, hop limit, lines, probes and either size of
the stderr pipe, from `TraceAssumption` (which takes no target to be called as the
mutex is when nobody holds it).  `TraceInv` is inductive and has two halves.

* `WorkersInv` ties the place of a target worker to the state of its child and to
  the map (`ChildPlace`): a child is in the map while its pipes are read, reaped
  when the worker goes on, and Stop has passed by a living child only if it was
  inserted later.  `StopLeavesNoChild`, `NoZombies` and `TraceTypeCorrect` follow.
* `EventsInv` follows what the hop threads send.  That a sample is counted needs that
  its row exists, which needs that the list of hops was sent before the thread was
  spawned and that no other list of this target comes behind it (`Announced`,
  `SamplePlace`); that a final status is last needs that the worker has joined its hop
  threads.  `SamplesAreCounted` counts the samples in flight as a set of places in the
  channel; `FinalStatusEnds` is the other conclusion.
* `TraceRefinement`: `TraceSession` implements `Session` with the hop threads as
  members; the mapping is `Phase`, `Live`, `Owed`, `Reported`.

`ArpScan_proofs`: for any pool, hosts and number of scans.  The counters are shared by
all threads, so `ScanInv` counts threads: hosts drawn are those counted as done and
those in the hands of a thread at `ping`, `alive` or `count`, answers are those
counted and those of threads at `alive`, draws beyond the last host are the threads
that have ended.  `Between` is the number of threads at some places; a step moves one
thread from one place to the next (`Moved`, `Change`), and adds one to a counter when it
leaves the places this counter is in balance with.  From that:
`CountersNeverDrift`, `DoneTellsTheTruth` (with all threads at their end both sums are
the counters themselves), `ProgressReportedOnce` (a count is drawn by one thread),
`ScanLeavesNothing`, `ScanTypeCorrect`, and `ScanRefinement`, the refinement of `Job`.

`IcmpProbe_proofs`: `AnswersAreOurs`, for any threads, addresses, requests and widths of
the two numbers.  `ProbeInv` says that a socket has one owner and one address, that its
requests carry rising counts, and that the request awaited is the newest on its
socket (`RequestsInv`, `ProberInv`).  A packet that matches then is about a request
with the same remainder on the same socket, or on one with the same identifier; two
numbers with the same remainder are equal or a whole turn apart (`SameRemainder`), and
that is what `AnswerIsOurs` allows.  `OwnStep` and `SentStep` are the two kinds of
step, without and with a new request; `MatchIsOurs` is the argument above.

The inductive invariants (`SessionInv`, `OrderInv`, `StoreInv`, `JobsInv`, `AnswersInv`,
`VendorInv`, `TraceInv`, `ScanInv`, `ProbeInv`) hold in TLC on instances of the size of
the runs as well.

Every invariant, action property and refinement of a run that passes is a theorem.
Only model-checked are the properties under fairness, which are out of reach of the
prover: `StopEndsWorkers`, `ShownWhileRunning`, `StopReturns`, `StopEndsThreads`,
`ScanEnds`, `ProbesEnd`, `JobsEnd`.

## Not modelled, and the plan

1. `TraceSession` with several sessions and Clear results; `HopList`: parsing a line
   of traceroute and `build_hop_infos` as pure operators with their laws.
2. `FileNames`: targets that sanitise to one name and so share one log file
   (`util.rs:17`), foreign files in the log folder.

Not planned: rendering, theme, logo, texts and number formats; the parsers and the
report text of `netconfig.rs` and of the ARP table (text in, records out, no
state); the embedded OUI database and what curl answers; the bytes of an ICMP
packet, its checksum and Don't Fragment; identifiers the kernel reuses for its
datagram sockets; the Windows back ends.
