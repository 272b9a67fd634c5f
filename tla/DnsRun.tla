------------------------------- MODULE DnsRun -------------------------------
(***************************************************************************)
(* The DNS page: "Resolve" starts one thread that sets up a resolver per   *)
(* server and asks every server for every name, writing each answer to     *)
(* the log and to the channel, then reports Done.                          *)
(***************************************************************************)
EXTENDS Frame, FiniteSetsExt

CONSTANTS
  NameCounts,   \* bound: how many names one run may have,
  ServerCounts  \* and how many servers

ASSUME DnsAssumption ==
  /\ NameCounts # {} /\ NameCounts \subseteq Nat \ {0} /\ IsFiniteSet(NameCounts)
  /\ ServerCounts # {} /\ ServerCounts \subseteq Nat \ {0}
  /\ IsFiniteSet(ServerCounts)

MaxNames == Max(NameCounts)
MaxServers == Max(ServerCounts)

VARIABLES
  dnsRunning,  \* dns_running
  dnsResults,  \* dns_results
  dnsThread,   \* the thread of the last run
  dnsCleared   \* history: results cleared since it was started

dnsVars == <<dnsRunning, dnsResults, dnsThread, dnsCleared>>

\* Servers and names are numbered in the order of the settings; the system
\* resolver is the first server.  `ready` are those set up, `name` and `at`
\* the two loop counters, `failed` is history.  Of a run that is over, run,
\* names, servers and failed are kept, as history.
DnsThreads ==
  [live : BOOLEAN, run : Nat, names : 0 .. MaxNames, servers : 0 .. MaxServers,
   next : 1 .. MaxServers + 1, ready : Seq(1 .. MaxServers),
   failed : SUBSET (1 .. MaxServers), name : 1 .. MaxNames + 1,
   at : 1 .. MaxServers + 1]
NoDns ==
  [live |-> FALSE, run |-> 0, names |-> 0, servers |-> 0, next |-> 1,
   ready |-> <<>>, failed |-> {}, name |-> 1, at |-> 1]

\* DnsEvent.  The name 0 stands for "(resolver setup)".
DnsAnswers == [job : {"dns"}, run : Nat, server : 1 .. MaxServers,
               name : 0 .. MaxNames]
DnsEvents == DnsAnswers \cup [job : {"dns"}, done : {TRUE}]
DnsDone == [job |-> "dns", done |-> TRUE]

DnsInit ==
  /\ dnsRunning = FALSE /\ dnsResults = <<>> /\ dnsThread = NoDns
  /\ dnsCleared = FALSE

-----------------------------------------------------------------------------
\* dns::start with n names and s servers, at least one of each, and its log
\* file created; a start that is refused only has a message for the page.
Started(n, s) ==
  [NoDns EXCEPT !.live = TRUE, !.run = starts', !.names = n, !.servers = s]

\* "Resolve", enabled while no run is shown: start_dns.
ResolveClicked ==
  /\ Click /\ ~dnsRunning /\ Launch
  /\ \E n \in NameCounts, s \in ServerCounts : dnsThread' = Started(n, s)
  /\ dnsRunning' = TRUE /\ dnsCleared' = FALSE
  /\ UNCHANGED dnsResults

\* "Clear results", offered during a run too.
ClearDns ==
  /\ Click /\ UNCHANGED starts
  /\ dnsResults' = <<>> /\ dnsCleared' = TRUE
  /\ UNCHANGED <<dnsRunning, dnsThread>>

\* drain_events.
DrainDns ==
  /\ dnsResults' = dnsResults \o Kept(chan, DnsAnswers)
  /\ dnsRunning' = (dnsRunning /\ ~InChan({DnsDone}))
  /\ UNCHANGED <<dnsThread, dnsCleared>>

-----------------------------------------------------------------------------
SettingUp == dnsThread.live /\ dnsThread.next <= dnsThread.servers
Queries == dnsThread.ready # <<>> /\ dnsThread.name <= dnsThread.names

DnsOver == [NoDns EXCEPT !.run = dnsThread.run, !.names = dnsThread.names,
                         !.servers = dnsThread.servers,
                         !.failed = dnsThread.failed]

Answer(s, n) == [job |-> "dns", run |-> dnsThread.run, server |-> s, name |-> n]

\* The resolver of the next server; on failure setup_error reports it.
SetUpServer ==
  /\ SettingUp
  /\ LET s == dnsThread.next
     IN  \/ /\ dnsThread' = [dnsThread EXCEPT !.next = s + 1,
                                              !.ready = Append(@, s)]
            /\ Quiet
         \/ /\ dnsThread' = [dnsThread EXCEPT !.next = s + 1,
                                              !.failed = @ \cup {s}]
            /\ SendEvent(Answer(s, 0))
  /\ UNCHANGED <<dnsRunning, dnsResults, dnsCleared>>

\* Fault: a name is done with when its first server has answered.
QueryFirstServer ==
  /\ dnsThread.live /\ ~SettingUp /\ Queries
  /\ SendEvent(Answer(dnsThread.ready[1], dnsThread.name))
  /\ dnsThread' = [dnsThread EXCEPT !.name = @ + 1]
  /\ UNCHANGED <<dnsRunning, dnsResults, dnsCleared>>

\* One turn of the inner loop: the lookup returns, with records or an error;
\* log_answer, then the event.
Query ==
  /\ dnsThread.live /\ ~SettingUp /\ Queries
  /\ SendEvent(Answer(dnsThread.ready[dnsThread.at], dnsThread.name))
  /\ dnsThread' =
       IF dnsThread.at < Len(dnsThread.ready)
       THEN [dnsThread EXCEPT !.at = @ + 1]
       ELSE [dnsThread EXCEPT !.at = 1, !.name = @ + 1]
  /\ UNCHANGED <<dnsRunning, dnsResults, dnsCleared>>

\* Fault: a run without a usable server ends without a word.
FinishDnsSilently ==
  /\ dnsThread.live /\ ~SettingUp /\ ~Queries
  /\ IF dnsThread.ready = <<>> THEN Quiet ELSE SendEvent(DnsDone)
  /\ dnsThread' = DnsOver
  /\ UNCHANGED <<dnsRunning, dnsResults, dnsCleared>>

\* All asked, or no server left to ask.
FinishDns ==
  /\ dnsThread.live /\ ~SettingUp /\ ~Queries
  /\ SendEvent(DnsDone)
  /\ dnsThread' = DnsOver
  /\ UNCHANGED <<dnsRunning, dnsResults, dnsCleared>>

DnsStep == SetUpServer \/ Query \/ FinishDns

-----------------------------------------------------------------------------
(* Properties.                                                             *)

DnsTypeOK ==
  /\ dnsRunning \in BOOLEAN /\ dnsCleared \in BOOLEAN
  /\ dnsResults \in Seq(DnsAnswers) /\ dnsThread \in DnsThreads

\* The answers the last run owes: an error of every server that could not be
\* set up, and every name at every other server; and the order they come in.
Expected ==
  (dnsThread.failed \X {0}) \cup
  (((1 .. dnsThread.servers) \ dnsThread.failed) \X (1 .. dnsThread.names))
Before(p, q) == p[2] < q[2] \/ (p[2] = q[2] /\ p[1] < q[1])

\* All answers, shown and then still in the channel; where the last run's are.
Answers == dnsResults \o Kept(chan, DnsAnswers)
Own == {i \in 1 .. Len(Answers) : Answers[i].run = dnsThread.run}
AnswerAt(i) == <<Answers[i].server, Answers[i].name>>
Delivered == {AnswerAt(i) : i \in Own}

\* A lookup answers every name at every server once and in order.  What is
\* missing was cleared, with all before it, or is still to come, behind all
\* that came; and nothing is to come once the page says the run is over, or its
\* Done is in the channel (dns::start, drain_events, ui_dns).
AnswersComplete ==
  LET over == ~dnsRunning \/ InChan({DnsDone})
  IN  /\ Delivered \subseteq Expected
      /\ \A i, j \in Own : i < j => Before(AnswerAt(i), AnswerAt(j))
      /\ \A q \in Expected \ Delivered :
           \/ dnsCleared /\ \A p \in Delivered : Before(q, p)
           \/ ~over /\ \A p \in Delivered : Before(p, q)

\* A DNS run as a job (see Job): the queries still to be settled.
DnsTodo ==
  {q \in (1 .. MaxServers) \X (1 .. MaxNames) :
     /\ dnsThread.live
     /\ q[1] <= dnsThread.servers /\ q[2] <= dnsThread.names
     /\ q[1] \notin dnsThread.failed
     /\ \/ q[2] > dnsThread.name
        \/ q[2] = dnsThread.name /\
           \A i \in 1 .. dnsThread.at - 1 : dnsThread.ready[i] # q[1]}
DnsJob == INSTANCE Job WITH
  Items <- (1 .. MaxServers) \X (1 .. MaxNames),
  busy <- dnsRunning, todo <- DnsTodo
=============================================================================
