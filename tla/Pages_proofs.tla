---------------------------- MODULE Pages_proofs ----------------------------
(***************************************************************************)
(* What the threads of Pages promise: their jobs stay in sight, the three  *)
(* that report a Done implement Job, and a packet session Session.         *)
(*                                                                         *)
(* JobsKeepFramesComing is not inductive: that a page shows a job while    *)
(* one of its events is in the channel is lost by a drain, unless the      *)
(* event that clears the flag is known to be the last one.  JobsInv adds   *)
(* that: a thread that still runs has not said Done.                       *)
(***************************************************************************)
EXTENDS Pages, SequenceTheorems, TLAPS

\* The frame and the flags have their types; the channel is a sequence of the
\* events it holds.
FlagsOK ==
  /\ ui \in UIStates /\ input \in BOOLEAN /\ repaint \in BOOLEAN
  /\ dnsRunning \in BOOLEAN /\ vendorRunning \in BOOLEAN
  /\ netLoading \in BOOLEAN
  /\ netThreads \in 0 .. 1
  /\ chan \in Seq({chan[i] : i \in DOMAIN chan})

\* Done is the last event of a thread.
DoneIsLast ==
  /\ dnsThread.live => ~InChan({DnsDone})
  /\ vendorThread.pc # "none" => ~InChan({VendorDone})
  /\ netThreads > 0 => ~InChan({NetReady})

\* The inductive invariant.
JobsInv == FlagsOK /\ DoneIsLast /\ JobsKeepFramesComing

-----------------------------------------------------------------------------
\* The channel after one more event, whatever it is.
LEMMA Sent ==
  ASSUME FlagsOK, NEW e, SendEvent(e)
  PROVE  /\ chan' \in Seq({chan'[i] : i \in DOMAIN chan'})
         /\ \A j : Pending(j)' <=> Pending(j) \/ e.job = j
         /\ \A x : InChan({x})' <=> InChan({x}) \/ e = x
<1> DEFINE S == {chan[i] : i \in DOMAIN chan} \cup {e}
<1>1. chan \in Seq(S) /\ e \in S
  BY SeqMonotonic DEF FlagsOK
<1>2. /\ chan' \in Seq(S) /\ Len(chan) \in Nat /\ Len(chan') = Len(chan) + 1
      /\ \A i \in 1 .. Len(chan) : chan'[i] = chan[i]
      /\ chan'[Len(chan) + 1] = e
  <2> HIDE DEF S
  <2> QED BY <1>1, AppendProperties, LenProperties DEF SendEvent
<1>3. chan' \in Seq({chan'[i] : i \in DOMAIN chan'})
  BY <1>2, IsASeq, LenProperties
<1>4. \A i \in 1 .. Len(chan') : i \in 1 .. Len(chan) \/ i = Len(chan) + 1
  BY <1>2
<1>5. 1 .. Len(chan) \subseteq 1 .. Len(chan') /\ Len(chan) + 1 \in 1 .. Len(chan')
  BY <1>2
<1>6. ASSUME NEW j PROVE Pending(j)' <=> Pending(j) \/ e.job = j
  BY <1>2, <1>4, <1>5 DEF Pending
<1>7. ASSUME NEW x PROVE InChan({x})' <=> InChan({x}) \/ e = x
  BY <1>2, <1>4, <1>5 DEF InChan
<1> QED BY <1>3, <1>6, <1>7

\* An emptied channel.
LEMMA Emptied ==
  ASSUME chan' = <<>>
  PROVE  /\ chan' \in Seq({chan'[i] : i \in DOMAIN chan'})
         /\ \A j : ~Pending(j)'
         /\ \A x : ~InChan({x})'
<1>1. chan' \in Seq({chan'[i] : i \in DOMAIN chan'}) /\ Len(chan') = 0
  BY EmptySeq
<1> QED BY <1>1 DEF Pending, InChan

-----------------------------------------------------------------------------
\* No job has begun: every flag is down, the channel empty.
LEMMA JobsInvInit == Init => JobsInv
<1> SUFFICES ASSUME Init PROVE JobsInv
  OBVIOUS
<1> USE DEF Init, FrameInit, DnsInit, VendorInit, NetInit
<1>1. FlagsOK
  <2>1. chan \in Seq({chan[i] : i \in DOMAIN chan})
    BY EmptySeq
  <2>2. ui \in UIStates /\ netThreads \in 0 .. 1
    BY DEF UIStates
  <2> QED BY <2>1, <2>2 DEF FlagsOK
<1>2. \A j : ~Pending(j)
  <2>1. Len(chan) = 0
    OBVIOUS
  <2> QED BY <2>1 DEF Pending
<1>3. dnsThread.live = FALSE /\ vendorThread.pc = "none"
  BY DEF NoDns, NoVendorThread
<1> QED BY <1>1, <1>2, <1>3 DEF JobsInv, DoneIsLast, JobsKeepFramesComing

\* The beginning of a frame: the channel is empty, and the flags that fall are
\* those of jobs whose thread is over.
LEMMA DrainKeeps ==
  ASSUME JobsInv, BeginFrame, DrainAll, input' \in BOOLEAN
  PROVE  JobsInv'
<1> USE DEF JobsInv
<1>1. ui' = "page" /\ repaint' = FALSE /\ chan' = <<>>
  BY DEF BeginFrame
<1>2. /\ dnsRunning' = (dnsRunning /\ ~InChan({DnsDone}))
      /\ vendorRunning' = (vendorRunning /\ ~InChan({VendorDone}))
      /\ netLoading' = (netLoading /\ ~InChan({NetReady}))
      /\ UNCHANGED <<dnsThread, vendorThread, netThreads>>
  BY DEF DrainAll, DrainDns, DrainVendors, DrainNet
<1>3. FlagsOK'
  BY <1>1, <1>2, Emptied DEF FlagsOK, UIStates
<1>4. DoneIsLast'
  BY <1>1, <1>2, Emptied DEF DoneIsLast
<1>5. JobsKeepFramesComing'
  BY <1>1, <1>2, Emptied DEF JobsKeepFramesComing, DoneIsLast
<1> QED BY <1>3, <1>4, <1>5

\* The end of a frame in which the jobs of the pages are as before, or new.
LEMMA EndKeeps ==
  ASSUME JobsInv, DrawPage, EndFrame,
         dnsRunning' \in BOOLEAN, vendorRunning' \in BOOLEAN,
         netLoading' \in BOOLEAN, netThreads' \in 0 .. 1,
         dnsThread'.live => dnsThread.live \/ ~dnsRunning,
         vendorThread'.pc # "none" =>
           vendorThread.pc # "none" \/ ~vendorRunning,
         netThreads' > 0 => netThreads > 0 \/ ~netLoading,
         dnsRunning \/ dnsThread'.live => dnsRunning',
         vendorRunning \/ vendorThread'.pc # "none" => vendorRunning',
         netLoading \/ netThreads' > 0 => netLoading'
  PROVE  JobsInv'
<1> USE DEF JobsInv
<1>1. ui' = "out" /\ input' = FALSE /\ chan' = chan
  BY DEF DrawPage
<1>2. /\ \A j : Pending(j)' <=> Pending(j)
      /\ \A x : InChan({x})' <=> InChan({x})
  BY <1>1 DEF Pending, InChan
<1>3. repaint' = (input \/ Busy')
  BY DEF EndFrame
<1>4. repaint' \in BOOLEAN
  BY <1>3
<1>5. FlagsOK'
  BY <1>1, <1>4 DEF FlagsOK, UIStates
<1>6. /\ InChan({DnsDone}) => Pending("dns")
      /\ InChan({VendorDone}) => Pending("vendor")
      /\ InChan({NetReady}) => Pending("net")
  BY DEF InChan, Pending, DnsDone, VendorDone, NetReady
<1>7. DoneIsLast'
  BY <1>2, <1>6 DEF DoneIsLast, JobsKeepFramesComing
<1>8. JobsKeepFramesComing'
  BY <1>1, <1>2, <1>3 DEF JobsKeepFramesComing, Busy, FlagsOK
<1> QED BY <1>5, <1>7, <1>8

-----------------------------------------------------------------------------
\* The channel and the frame as a thread's silent step leaves them.
LEMMA Silent ==
  ASSUME FlagsOK, Quiet
  PROVE  /\ chan' \in Seq({chan'[i] : i \in DOMAIN chan'})
         /\ \A j : Pending(j)' <=> Pending(j)
         /\ \A x : InChan({x})' <=> InChan({x})
BY DEF FlagsOK, Quiet, Pending, InChan

\* A thread that goes on, or ends with its Done; its page shows it all along.
LEMMA DnsKeeps ==
  ASSUME JobsInv, DnsStep, DnsOnly
  PROVE  JobsInv'
<1> USE DEF JobsInv, DnsStep
<1>1. /\ dnsThread.live /\ dnsRunning' = dnsRunning
      /\ UNCHANGED <<frameVars, vendorVars, netVars, packetVars>>
  BY DEF SetUpServer, Query, FinishDns, SettingUp, Quiet, SendEvent, DnsOnly
<1>2. \/ Quiet
      \/ \E s, n : SendEvent(Answer(s, n))
      \/ SendEvent(DnsDone) /\ dnsThread' = DnsOver
  BY DEF SetUpServer, Query, FinishDns
<1>3. dnsRunning /\ ~InChan({DnsDone})
  BY <1>1 DEF DoneIsLast, JobsKeepFramesComing
<1>4. \A s, n : /\ Answer(s, n).job = "dns"
                /\ Answer(s, n) \notin {DnsDone, VendorDone, NetReady}
  BY DEF Answer, DnsDone, VendorDone, NetReady
<1>5. DnsDone.job = "dns" /\ DnsDone \notin {VendorDone, NetReady}
  BY DEF DnsDone, VendorDone, NetReady
<1>6. DnsOver.live = FALSE
  BY DEF DnsOver, NoDns
<1>7. /\ chan' \in Seq({chan'[i] : i \in DOMAIN chan'})
      /\ \A j : Pending(j)' => Pending(j) \/ j = "dns"
      /\ dnsThread'.live => ~InChan({DnsDone})'
      /\ InChan({VendorDone})' <=> InChan({VendorDone})
      /\ InChan({NetReady})' <=> InChan({NetReady})
  <2>1. CASE Quiet
    BY <1>3, <2>1, Silent
  <2>2. ASSUME NEW s, NEW n, SendEvent(Answer(s, n))
        PROVE  <1>7!:
    <3>1. PICK e : SendEvent(e) /\ e.job = "dns"
                   /\ e \notin {DnsDone, VendorDone, NetReady}
      BY <1>4, <2>2
    <3> QED BY <1>3, <3>1, Sent
  <2>3. CASE SendEvent(DnsDone) /\ dnsThread' = DnsOver
    BY <1>5, <1>6, <2>3, Sent
  <2> QED BY <1>2, <2>1, <2>2, <2>3
<1>8. FlagsOK'
  BY <1>1, <1>7 DEF FlagsOK, frameVars, vendorVars, netVars
<1>9. DoneIsLast'
  BY <1>1, <1>7 DEF DoneIsLast, vendorVars, netVars
<1>10. JobsKeepFramesComing'
  BY <1>1, <1>3, <1>7
  DEF JobsKeepFramesComing, frameVars, vendorVars, netVars, packetVars, PacketLive
<1> QED BY <1>8, <1>9, <1>10

\* The same for the vendor lookup.
LEMMA VendorKeeps ==
  ASSUME JobsInv, VendorStep, VendorOnly
  PROVE  JobsInv'
<1> USE DEF JobsInv, VendorStep
<1>1. /\ vendorThread.pc # "none" /\ vendorRunning' = vendorRunning
      /\ UNCHANGED <<frameVars, dnsVars, netVars, packetVars>>
  BY DEF OpenDatabase, LookUpNext, FinishVendors, Quiet, SendEvent, VendorOnly
<1>2. \/ Quiet
      \/ SendEvent(VendorError)
      \/ \E o, r : SendEvent([job |-> "vendor", oui |-> o, run |-> r])
      \/ SendEvent(VendorDone) /\ vendorThread'.pc = "none"
  BY DEF OpenDatabase, LookUpNext, FinishVendors, NoVendorThread
<1>3. vendorRunning /\ ~InChan({VendorDone})
  BY <1>1 DEF DoneIsLast, JobsKeepFramesComing
<1>4. \A o, r :
        LET e == [job |-> "vendor", oui |-> o, run |-> r]
        IN  e.job = "vendor" /\ e \notin {DnsDone, VendorDone, NetReady}
  BY DEF DnsDone, VendorDone, NetReady
<1>5. /\ VendorDone.job = "vendor" /\ VendorDone \notin {DnsDone, NetReady}
      /\ VendorError.job = "vendor"
      /\ VendorError \notin {DnsDone, VendorDone, NetReady}
  BY DEF DnsDone, VendorDone, VendorError, NetReady
<1>6. /\ chan' \in Seq({chan'[i] : i \in DOMAIN chan'})
      /\ \A j : Pending(j)' => Pending(j) \/ j = "vendor"
      /\ vendorThread'.pc # "none" => ~InChan({VendorDone})'
      /\ InChan({DnsDone})' <=> InChan({DnsDone})
      /\ InChan({NetReady})' <=> InChan({NetReady})
  <2>1. CASE Quiet
    BY <1>3, <2>1, Silent
  <2>2. ASSUME NEW o, NEW r,
               SendEvent([job |-> "vendor", oui |-> o, run |-> r])
        PROVE  <1>6!:
    <3>1. PICK e : SendEvent(e) /\ e.job = "vendor"
                   /\ e \notin {DnsDone, VendorDone, NetReady}
      BY <1>4, <2>2
    <3> QED BY <1>3, <3>1, Sent
  <2>3. CASE SendEvent(VendorError)
    BY <1>3, <1>5, <2>3, Sent
  <2>4. CASE SendEvent(VendorDone) /\ vendorThread'.pc = "none"
    BY <1>5, <2>4, Sent
  <2> QED BY <1>2, <2>1, <2>2, <2>3, <2>4
<1>7. FlagsOK'
  BY <1>1, <1>6 DEF FlagsOK, frameVars, dnsVars, netVars
<1>8. DoneIsLast'
  BY <1>1, <1>6 DEF DoneIsLast, dnsVars, netVars
<1>9. JobsKeepFramesComing'
  BY <1>1, <1>3, <1>6
  DEF JobsKeepFramesComing, frameVars, dnsVars, netVars, packetVars, PacketLive
<1> QED BY <1>7, <1>8, <1>9

\* The same for a network report, whose only event is its Done.
LEMMA NetKeeps ==
  ASSUME JobsInv, Gathered, NetOnly
  PROVE  JobsInv'
<1> USE DEF JobsInv
<1>1. /\ netThreads = 1 /\ netThreads' = 0 /\ netLoading' = netLoading
      /\ SendEvent(NetReady)
      /\ UNCHANGED <<frameVars, dnsVars, vendorVars, packetVars>>
  BY DEF Gathered, SendEvent, NetOnly, FlagsOK
<1>2. netLoading
  BY <1>1 DEF JobsKeepFramesComing
<1>3. NetReady.job = "net" /\ NetReady \notin {DnsDone, VendorDone}
  BY DEF DnsDone, VendorDone, NetReady
<1>4. /\ chan' \in Seq({chan'[i] : i \in DOMAIN chan'})
      /\ \A j : Pending(j)' => Pending(j) \/ j = "net"
      /\ InChan({DnsDone})' <=> InChan({DnsDone})
      /\ InChan({VendorDone})' <=> InChan({VendorDone})
  BY <1>1, <1>3, Sent
<1>5. FlagsOK'
  BY <1>1, <1>4 DEF FlagsOK, frameVars, dnsVars, vendorVars
<1>6. DoneIsLast'
  BY <1>1, <1>4 DEF DoneIsLast, dnsVars, vendorVars
<1>7. JobsKeepFramesComing'
  BY <1>1, <1>2, <1>4
  DEF JobsKeepFramesComing, frameVars, dnsVars, vendorVars, packetVars, PacketLive
<1> QED BY <1>5, <1>6, <1>7

\* The packet thread says no Done; that it ends leaves the request of a frame.
LEMMA PacketKeeps ==
  ASSUME JobsInv, PacketStep, PacketOnly
  PROVE  JobsInv'
<1> USE DEF JobsInv, PacketStep
<1>1. /\ PacketLive
      /\ UNCHANGED <<frameVars, dnsVars, vendorVars, netVars>>
  BY DEF Resolve, NextPacket, Emit, FinishPacket, Quiet, SendEvent, PacketOnly,
         PacketLive
<1>2. \/ Quiet
      \/ \E r, i : SendEvent([job |-> "packet", run |-> r, i |-> i])
  BY DEF Resolve, NextPacket, Emit, FinishPacket
<1>3. \A r, i :
        LET e == [job |-> "packet", run |-> r, i |-> i]
        IN  e.job = "packet" /\ e \notin {DnsDone, VendorDone, NetReady}
  BY DEF DnsDone, VendorDone, NetReady
<1>4. /\ chan' \in Seq({chan'[i] : i \in DOMAIN chan'})
      /\ \A j : Pending(j)' => Pending(j) \/ j = "packet"
      /\ InChan({DnsDone})' <=> InChan({DnsDone})
      /\ InChan({VendorDone})' <=> InChan({VendorDone})
      /\ InChan({NetReady})' <=> InChan({NetReady})
  <2>1. CASE Quiet
    BY <2>1, Silent
  <2>2. ASSUME NEW r, NEW i,
               SendEvent([job |-> "packet", run |-> r, i |-> i])
        PROVE  <1>4!:
    <3>1. PICK e : SendEvent(e) /\ e.job = "packet"
                   /\ e \notin {DnsDone, VendorDone, NetReady}
      BY <1>3, <2>2
    <3> QED BY <3>1, Sent
  <2> QED BY <1>2, <2>1, <2>2
<1>5. FlagsOK'
  BY <1>1, <1>4 DEF FlagsOK, frameVars, dnsVars, vendorVars, netVars
<1>6. DoneIsLast'
  BY <1>1, <1>4 DEF DoneIsLast, dnsVars, vendorVars, netVars
<1>7. JobsKeepFramesComing'
  BY <1>1, <1>4
  DEF JobsKeepFramesComing, frameVars, dnsVars, vendorVars, netVars
<1> QED BY <1>5, <1>6, <1>7

-----------------------------------------------------------------------------
\* A refresh starts a thread only when the last one is over.
LEMMA Refreshed ==
  ASSUME JobsInv, Refresh \/ UNCHANGED <<netLoading, netThreads, starts>>
  PROVE  /\ netLoading' \in BOOLEAN /\ netThreads' \in 0 .. 1
         /\ netThreads' > 0 => netThreads > 0 \/ ~netLoading
         /\ netLoading \/ netThreads' > 0 => netLoading'
<1>1. netThreads \in 0 .. 1 /\ netLoading \in BOOLEAN /\ (netThreads > 0 => netLoading)
  BY DEF JobsInv, FlagsOK, JobsKeepFramesComing
<1>2. CASE UNCHANGED <<netLoading, netThreads, starts>>
  BY <1>1, <1>2
<1>3. CASE ~netLoading /\ netLoading' = TRUE /\ netThreads' = netThreads + 1
  BY <1>1, <1>3
<1> QED BY <1>2, <1>3 DEF Refresh

\* What a page that is drawn leaves alone.
LEMMA Unclicked ==
  ASSUME JobsInv
  PROVE  /\ dnsRunning \in BOOLEAN /\ (dnsThread.live => dnsRunning)
         /\ vendorRunning \in BOOLEAN
         /\ vendorThread.pc # "none" => vendorRunning
         /\ netLoading \in BOOLEAN /\ netThreads \in 0 .. 1
         /\ netThreads > 0 => netLoading
BY DEF JobsInv, FlagsOK, JobsKeepFramesComing

\* A page drawn, with any click on it.
LEMMA PageKeeps ==
  ASSUME JobsInv, EndFrame,
         \/ ShowPage
         \/ (ResolveClicked \/ ClearDns) /\ DnsOnly
         \/ (BulkClicked \/ OneClicked) /\ VendorOnly
         \/ (RefreshClicked \/ AutoClicked) /\ NetOnly
         \/ (SendClicked \/ StopPacket \/ ClearPacket) /\ PacketOnly
  PROVE  JobsInv'
<1> USE DEF dnsVars, vendorVars, netVars, packetVars
<1>1. CASE ShowPage
  <2>1. Refresh \/ UNCHANGED <<netLoading, netThreads, starts>>
    BY <1>1 DEF ShowPage, ShowNet, NetPageTop
  <2>2. DrawPage /\ UNCHANGED <<dnsVars, vendorVars>>
    BY <1>1 DEF ShowPage, NetOnly
  <2> QED BY <2>1, <2>2, Refreshed, Unclicked, EndKeeps
<1>2. CASE ResolveClicked /\ DnsOnly
  <2>1. DrawPage /\ ~dnsRunning /\ dnsRunning' = TRUE
        /\ UNCHANGED <<vendorVars, netVars>>
    BY <1>2 DEF ResolveClicked, Click, DnsOnly
  <2> QED BY <2>1, Unclicked, EndKeeps
<1>3. CASE ClearDns /\ DnsOnly
  <2>1. DrawPage /\ UNCHANGED <<dnsRunning, dnsThread, vendorVars, netVars>>
    BY <1>3 DEF ClearDns, Click, DnsOnly
  <2> QED BY <2>1, Unclicked, EndKeeps
<1>4. CASE (BulkClicked \/ OneClicked) /\ VendorOnly
  <2>1. DrawPage /\ ~vendorRunning /\ vendorRunning' = TRUE
        /\ UNCHANGED <<dnsVars, netVars>>
    BY <1>4 DEF BulkClicked, OneClicked, Click, VendorOnly
  <2> QED BY <2>1, Unclicked, EndKeeps
<1>5. CASE (RefreshClicked \/ AutoClicked) /\ NetOnly
  <2>1. Refresh \/ UNCHANGED <<netLoading, netThreads, starts>>
    BY <1>5 DEF RefreshClicked, AutoClicked, NetPageTop
  <2>2. DrawPage /\ UNCHANGED <<dnsVars, vendorVars>>
    BY <1>5 DEF RefreshClicked, AutoClicked, Click, NetOnly
  <2> QED BY <2>1, <2>2, Refreshed, Unclicked, EndKeeps
<1>6. CASE (SendClicked \/ StopPacket \/ ClearPacket) /\ PacketOnly
  <2>1. DrawPage /\ UNCHANGED <<dnsVars, vendorVars, netVars>>
    BY <1>6 DEF SendClicked, StopPacket, ClearPacket, Click, PacketOnly
  <2> QED BY <2>1, Unclicked, EndKeeps
<1> QED BY <1>1, <1>2, <1>3, <1>4, <1>5, <1>6

\* Every step keeps the inductive invariant.
LEMMA JobsInvStep == JobsInv /\ [Next]_vars => JobsInv'
<1> SUFFICES ASSUME JobsInv, [Next]_vars PROVE JobsInv'
  OBVIOUS
<1>1. CASE (RepaintFrame \/ InputFrame) /\ DrainAll
  BY <1>1, DrainKeeps DEF RepaintFrame, InputFrame
<1>2. CASE DnsStep /\ DnsOnly
  BY <1>2, DnsKeeps
<1>3. CASE VendorStep /\ VendorOnly
  BY <1>3, VendorKeeps
<1>4. CASE Gathered /\ NetOnly
  BY <1>4, NetKeeps
<1>5. CASE PacketStep /\ PacketOnly
  BY <1>5, PacketKeeps
<1>6. CASE UNCHANGED vars
  BY <1>6 DEF vars, frameVars, dnsVars, vendorVars, netVars, packetVars,
              JobsInv, FlagsOK, DoneIsLast, JobsKeepFramesComing, Pending,
              InChan, PacketLive
<1>7. CASE UIStep \/ UserStep
  BY <1>1, <1>7, PageKeeps DEF UIStep, UserStep
<1> QED BY <1>2, <1>3, <1>4, <1>5, <1>6, <1>7 DEF Next, Threads

\* No job is lost from sight, and the UI does not sleep on one it shows
\* (update, drain_events): for any number of names, servers, addresses and
\* packets, and any number of jobs.
THEOREM JobsStayInSight == Spec => []JobsKeepFramesComing
<1>1. JobsInv => JobsKeepFramesComing
  BY DEF JobsInv
<1> QED BY <1>1, JobsInvInit, JobsInvStep, PTL DEF Spec

-----------------------------------------------------------------------------
(* DNS runs, vendor lookups and network reports implement Job.  Each step  *)
(* of a thread settles what is no longer to be done, the click starts, and *)
(* the drain of Done finishes; JobsInv says that nothing is left then, and *)
(* JobsShape that the threads' counters only move forwards.                *)

\* The threads, with the fields the work left depends on.
DnsRecords ==
  [live : BOOLEAN, run : Nat, names : Nat, servers : Nat, next : Nat,
   ready : Seq(Nat), failed : SUBSET Nat, name : Nat, at : Nat]
VendorRecords ==
  [pc : {"none", "open", "run"}, online : BOOLEAN, run : Nat,
   macs : {<<>>} \cup MacLists, at : Nat \ {0}, seen : SUBSET Ouis,
   failed : BOOLEAN]

\* No query has been settled while servers are set up.
JobsShape ==
  /\ starts \in Nat
  /\ dnsThread \in DnsRecords /\ vendorThread \in VendorRecords
  /\ SettingUp => dnsThread.at = 1

-----------------------------------------------------------------------------
(* The shapes.                                                             *)

\* A list of addresses is a sequence no longer than the bound.
LEMMA MacListLength ==
  ASSUME NEW m \in {<<>>} \cup MacLists
  PROVE  Len(m) \in 0 .. MaxMacs
<1>1. CASE m = <<>>
  BY <1>1, VendorAssumption
<1>2. CASE m \in MacLists
  <2>1. PICK n \in 1 .. MaxMacs : m \in [1 .. n -> Ouis \cup {NoOui}]
    BY <1>2 DEF MacLists
  <2>2. Len(m) = n
    BY <2>1, VendorAssumption
  <2> QED BY <2>1, <2>2, VendorAssumption
<1> QED BY <1>1, <1>2

\* At the start no thread has counted anything.
LEMMA ShapeInit == Init => JobsShape
<1> SUFFICES ASSUME Init PROVE JobsShape
  OBVIOUS
<1> USE DEF Init, FrameInit, DnsInit, VendorInit
<1>1. dnsThread \in DnsRecords
  BY DEF DnsRecords, NoDns
<1>2. vendorThread \in VendorRecords
  BY DEF VendorRecords, NoVendorThread
<1> QED BY <1>1, <1>2 DEF JobsShape, SettingUp, NoDns

\* Numbers of started jobs are naturals, before and after a click.
LEMMA Launched ==
  ASSUME starts \in Nat, Launch
  PROVE  starts' \in Nat
BY DEF Launch

\* The DNS thread after each of its steps.
LEMMA DnsSetUp ==
  ASSUME NEW r \in DnsRecords, NEW n \in Nat
  PROVE  /\ \A q \in Seq(Nat) : [r EXCEPT !.next = n, !.ready = q] \in DnsRecords
         /\ \A F \in SUBSET Nat : [r EXCEPT !.next = n, !.failed = F] \in DnsRecords
<1>1. ASSUME NEW q \in Seq(Nat)
      PROVE  [r EXCEPT !.next = n, !.ready = q] \in DnsRecords
  BY DEF DnsRecords
<1>2. ASSUME NEW F \in SUBSET Nat
      PROVE  [r EXCEPT !.next = n, !.failed = F] \in DnsRecords
  BY DEF DnsRecords
<1> QED BY <1>1, <1>2

\* A query moves the loop counters.
LEMMA DnsCounters ==
  ASSUME NEW r \in DnsRecords, NEW n \in Nat
  PROVE  /\ [r EXCEPT !.at = n] \in DnsRecords
         /\ [r EXCEPT !.at = 1, !.name = n] \in DnsRecords
<1>1. [r EXCEPT !.at = n] \in DnsRecords
  BY DEF DnsRecords
<1>2. [r EXCEPT !.at = 1, !.name = n] \in DnsRecords
  BY DEF DnsRecords
<1> QED BY <1>1, <1>2

\* A thread that ends keeps its history.
LEMMA DnsHistory ==
  ASSUME NEW r \in DnsRecords, NEW a \in Nat, NEW b \in Nat, NEW c \in Nat,
         NEW F \in SUBSET Nat
  PROVE  [r EXCEPT !.run = a, !.names = b, !.servers = c, !.failed = F]
           \in DnsRecords
BY DEF DnsRecords

\* No step of the DNS thread takes its counters back.
LEMMA DnsShapeStep ==
  ASSUME JobsShape, DnsStep
  PROVE  dnsThread' \in DnsRecords /\ (SettingUp' => dnsThread'.at = 1)
<1> USE DEF JobsShape
<1>1. CASE SetUpServer
  <2>1. /\ SettingUp /\ dnsThread.next + 1 \in Nat
        /\ Append(dnsThread.ready, dnsThread.next) \in Seq(Nat)
        /\ dnsThread.failed \cup {dnsThread.next} \in SUBSET Nat
    BY <1>1 DEF SetUpServer, DnsRecords
  <2>2. \/ dnsThread' = [dnsThread EXCEPT !.next = dnsThread.next + 1,
             !.ready = Append(dnsThread.ready, dnsThread.next)]
        \/ dnsThread' = [dnsThread EXCEPT !.next = dnsThread.next + 1,
             !.failed = dnsThread.failed \cup {dnsThread.next}]
    BY <1>1 DEF SetUpServer, DnsRecords
  <2>3. dnsThread' \in DnsRecords
    BY <2>1, <2>2, DnsSetUp
  <2>4. dnsThread'.at = dnsThread.at
    BY <2>2 DEF DnsRecords
  <2> QED BY <2>1, <2>3, <2>4
<1>2. CASE Query
  <2>1. ~SettingUp /\ dnsThread.at + 1 \in Nat /\ dnsThread.name + 1 \in Nat
    <3>1. ~SettingUp
      BY <1>2 DEF Query
    <3>2. dnsThread.at \in Nat /\ dnsThread.name \in Nat
      BY DEF DnsRecords
    <3> QED BY <3>1, <3>2
  <2>2. \/ dnsThread' = [dnsThread EXCEPT !.at = dnsThread.at + 1]
        \/ dnsThread' = [dnsThread EXCEPT !.at = 1, !.name = dnsThread.name + 1]
    BY <1>2 DEF Query, DnsRecords
  <2>3. dnsThread' \in DnsRecords
    BY <2>1, <2>2, DnsCounters
  <2>4. /\ dnsThread'.live = dnsThread.live /\ dnsThread'.next = dnsThread.next
        /\ dnsThread'.servers = dnsThread.servers
    BY <2>2 DEF DnsRecords
  <2> QED BY <2>1, <2>3, <2>4 DEF SettingUp
<1>3. CASE FinishDns
  <2>1. /\ dnsThread.run \in Nat /\ dnsThread.names \in Nat
        /\ dnsThread.servers \in Nat /\ dnsThread.failed \in SUBSET Nat
    BY DEF DnsRecords
  <2>2. NoDns \in DnsRecords
    BY DEF DnsRecords, NoDns
  <2>3. DnsOver \in DnsRecords
    BY <2>1, <2>2, DnsHistory DEF DnsOver
  <2>4. ~DnsOver.live
    BY DEF DnsOver, NoDns
  <2> QED BY <1>3, <2>3, <2>4 DEF FinishDns, SettingUp
<1> QED BY <1>1, <1>2, <1>3 DEF DnsStep

\* The vendor thread after each of its steps.
LEMMA VendorFields ==
  ASSUME NEW r \in VendorRecords, NEW n \in Nat \ {0}, NEW S \in SUBSET Ouis
  PROVE  /\ [r EXCEPT !.pc = "run"] \in VendorRecords
         /\ [r EXCEPT !.pc = "run", !.failed = TRUE, !.at = n] \in VendorRecords
         /\ [r EXCEPT !.at = n, !.seen = S] \in VendorRecords
<1>1. [r EXCEPT !.pc = "run"] \in VendorRecords
  BY DEF VendorRecords
<1>2. [r EXCEPT !.pc = "run", !.failed = TRUE, !.at = n] \in VendorRecords
  BY DEF VendorRecords
<1>3. [r EXCEPT !.at = n, !.seen = S] \in VendorRecords
  BY DEF VendorRecords
<1> QED BY <1>1, <1>2, <1>3

\* Nor does a step of the vendor thread.
LEMMA VendorShapeStep ==
  ASSUME JobsShape, VendorStep
  PROVE  vendorThread' \in VendorRecords
<1> USE DEF JobsShape
<1> DEFINE l == Len(vendorThread.macs)
<1>1. vendorThread.macs \in {<<>>} \cup MacLists /\ vendorThread.at \in Nat \ {0}
  BY DEF VendorRecords
<1>2. l \in 0 .. MaxMacs /\ MaxMacs \in Nat \ {0}
  BY <1>1, MacListLength, VendorAssumption
<1>3. CASE OpenDatabase
  <2>1. l + 1 \in Nat \ {0}
    BY <1>2
  <2> QED BY <1>3, <2>1, VendorFields DEF OpenDatabase
<1>4. CASE LookUpNext
  <2> DEFINE o == vendorThread.macs[vendorThread.at]
  <2>1. o \in Ouis \cup {NoOui}
    <3>1. vendorThread.at \in 1 .. l /\ vendorThread.macs # <<>>
      BY <1>1, <1>2, <1>4 DEF LookUpNext, VendorLeft
    <3>2. PICK n \in 1 .. MaxMacs :
            vendorThread.macs \in [1 .. n -> Ouis \cup {NoOui}]
      BY <1>1, <3>1 DEF MacLists
    <3>3. l = n
      BY <1>2, <3>2
    <3> QED BY <3>1, <3>2, <3>3
  <2>2. PICK S \in SUBSET Ouis :
          vendorThread' = [vendorThread EXCEPT !.at = vendorThread.at + 1, !.seen = S]
    <3>1. vendorThread.seen \in SUBSET Ouis
      BY DEF VendorRecords
    <3>2. vendorThread' = [vendorThread EXCEPT !.at = vendorThread.at + 1,
            !.seen = IF vendorThread.online
                     THEN vendorThread.seen \cup ({o} \ {NoOui})
                     ELSE vendorThread.seen]
      BY <1>4 DEF LookUpNext, VendorRecords
    <3> QED BY <2>1, <3>1, <3>2
  <2>3. vendorThread.at + 1 \in Nat \ {0}
    BY <1>1
  <2> QED BY <2>2, <2>3, VendorFields
<1>5. CASE FinishVendors
  <2>1. vendorThread' =
          [pc |-> "none", online |-> FALSE, run |-> vendorThread.run,
           macs |-> vendorThread.macs, at |-> 1, seen |-> {},
           failed |-> vendorThread.failed]
    BY <1>5 DEF FinishVendors, NoVendorThread
  <2> QED BY <2>1 DEF VendorRecords
<1> QED BY <1>3, <1>4, <1>5 DEF VendorStep

\* A click that starts a run starts it with a thread of its own.
LEMMA DnsStarts ==
  ASSUME JobsShape, ResolveClicked
  PROVE  /\ dnsThread' \in DnsRecords /\ dnsThread'.at = 1
         /\ starts' \in Nat
<1>1. starts' \in Nat
  BY Launched DEF ResolveClicked, JobsShape
<1>2. PICK n \in NameCounts, s \in ServerCounts : dnsThread' = Started(n, s)
  BY DEF ResolveClicked
<1>3. n \in Nat /\ s \in Nat
  BY DnsAssumption
<1>4. NoDns \in DnsRecords /\ NoDns.at = 1
  BY DEF DnsRecords, NoDns
<1>5. Started(n, s) \in DnsRecords /\ Started(n, s).at = 1
  BY <1>1, <1>3, <1>4 DEF Started, DnsRecords
<1> QED BY <1>1, <1>2, <1>5

\* The same for both buttons of the vendors.
LEMMA VendorStarts ==
  ASSUME JobsShape, BulkClicked \/ OneClicked
  PROVE  /\ vendorThread' \in VendorRecords /\ vendorThread'.at = 1
         /\ vendorThread'.pc # "none" /\ vendorThread'.seen = {}
         /\ vendorThread'.run = starts' /\ starts' \in Nat
<1>1. starts' \in Nat
  BY Launched DEF BulkClicked, OneClicked, JobsShape
<1>2. PICK m \in MacLists : LookUp(m)
  <2>1. CASE BulkClicked
    BY <2>1 DEF BulkClicked
  <2>2. CASE OneClicked
    <3>1. PICK o \in Ouis \cup {NoOui} : LookUp(<<o>>)
      BY <2>2 DEF OneClicked
    <3>2. <<o>> \in [1 .. 1 -> Ouis \cup {NoOui}] /\ 1 \in 1 .. MaxMacs
      BY VendorAssumption
    <3>3. <<o>> \in MacLists
      BY <3>2 DEF MacLists
    <3> QED BY <3>1, <3>3
  <2> QED BY <2>1, <2>2
<1>3. PICK o \in BOOLEAN : vendorThread' =
        [NoVendorThread EXCEPT !.pc = IF o THEN "run" ELSE "open",
           !.online = o, !.run = starts', !.macs = m]
  BY <1>2 DEF LookUp
<1>4. vendorThread' =
        [pc |-> IF o THEN "run" ELSE "open", online |-> o, run |-> starts',
         macs |-> m, at |-> 1, seen |-> {}, failed |-> FALSE]
  BY <1>3 DEF NoVendorThread
<1> QED BY <1>1, <1>4 DEF VendorRecords

\* Every step keeps the shapes.
LEMMA ShapeStep ==
  ASSUME JobsShape, [Next]_vars
  PROVE  JobsShape'
<1> USE DEF JobsShape
<1>1. CASE UNCHANGED <<dnsThread, vendorThread>> /\ starts' \in Nat
  BY <1>1 DEF SettingUp
<1>2. CASE DnsStep /\ DnsOnly
  <2>1. UNCHANGED <<starts, vendorThread>>
    BY <1>2 DEF DnsStep, SetUpServer, Query, FinishDns, Quiet, SendEvent,
                DnsOnly, vendorVars
  <2> QED BY <1>2, <2>1, DnsShapeStep
<1>3. CASE VendorStep /\ VendorOnly
  <2>1. UNCHANGED <<starts, dnsThread>>
    BY <1>3 DEF VendorStep, OpenDatabase, LookUpNext, FinishVendors, Quiet,
                SendEvent, VendorOnly, dnsVars
  <2> QED BY <1>3, <2>1, VendorShapeStep DEF SettingUp
<1>4. CASE (Gathered /\ NetOnly) \/ (PacketStep /\ PacketOnly)
  <2>1. UNCHANGED <<starts, dnsThread, vendorThread>>
    BY <1>4 DEF Gathered, PacketStep, Resolve, NextPacket, Emit, FinishPacket,
                Quiet, SendEvent, NetOnly, PacketOnly, dnsVars, vendorVars
  <2> QED BY <1>1, <2>1
<1>5. CASE (RepaintFrame \/ InputFrame) /\ DrainAll
  <2>1. UNCHANGED <<starts, dnsThread, vendorThread>>
    BY <1>5 DEF RepaintFrame, InputFrame, BeginFrame, DrainAll, DrainDns,
                DrainVendors
  <2> QED BY <1>1, <2>1
<1>6. CASE ResolveClicked /\ DnsOnly
  BY <1>6, DnsStarts DEF DnsOnly, vendorVars
<1>7. CASE (BulkClicked \/ OneClicked) /\ VendorOnly
  BY <1>7, VendorStarts DEF VendorOnly, dnsVars, SettingUp
<1>8. CASE ShowPage \/ ((RefreshClicked \/ AutoClicked) /\ NetOnly)
  <2>1. UNCHANGED <<dnsThread, vendorThread>>
    BY <1>8 DEF ShowPage, NetOnly, dnsVars, vendorVars
  <2>2. Launch \/ UNCHANGED starts
    BY <1>8 DEF ShowPage, ShowNet, RefreshClicked, AutoClicked, NetPageTop, Refresh
  <2> QED BY <1>1, <2>1, <2>2, Launched
<1>9. CASE (ClearDns /\ DnsOnly)
           \/ ((SendClicked \/ StopPacket \/ ClearPacket) /\ PacketOnly)
  <2>1. UNCHANGED <<dnsThread, vendorThread>> /\ (Launch \/ UNCHANGED starts)
    BY <1>9 DEF ClearDns, SendClicked, StopPacket, ClearPacket, DnsOnly,
                PacketOnly, dnsVars, vendorVars
  <2> QED BY <1>1, <2>1, Launched
<1>10. CASE UNCHANGED vars
  BY <1>1, <1>10 DEF vars, dnsVars, vendorVars
<1>11. CASE UIStep
  BY <1>5, <1>8, <1>11 DEF UIStep
<1>12. CASE UserStep
  BY <1>5, <1>6, <1>7, <1>8, <1>9, <1>12 DEF UserStep
<1>13. CASE Threads
  BY <1>2, <1>3, <1>4, <1>13 DEF Threads
<1> QED BY <1>10, <1>11, <1>12, <1>13 DEF Next

-----------------------------------------------------------------------------
(* The jobs.                                                               *)

\* What a thread may do to the work left: settle some of it.
LEMMA DnsSettles ==
  ASSUME JobsShape, DnsStep
  PROVE  DnsTodo' \subseteq DnsTodo
<1> USE DEF JobsShape
<1> DEFINE Items == (1 .. MaxServers) \X (1 .. MaxNames)
<1>1. CASE SetUpServer
  <2>1. /\ SettingUp /\ dnsThread.at = 1
        /\ \/ dnsThread' = [dnsThread EXCEPT !.next = dnsThread.next + 1,
                 !.ready = Append(dnsThread.ready, dnsThread.next)]
           \/ dnsThread' = [dnsThread EXCEPT !.next = dnsThread.next + 1,
                 !.failed = dnsThread.failed \cup {dnsThread.next}]
    BY <1>1 DEF SetUpServer, DnsRecords
  <2>2. /\ dnsThread'.live = dnsThread.live /\ dnsThread'.names = dnsThread.names
        /\ dnsThread'.servers = dnsThread.servers
        /\ dnsThread'.name = dnsThread.name /\ dnsThread'.at = 1
        /\ dnsThread.failed \subseteq dnsThread'.failed
    BY <2>1 DEF DnsRecords
  <2>3. 1 .. dnsThread.at - 1 = {}
    BY <2>1
  <2> QED BY <2>1, <2>2, <2>3 DEF DnsTodo
<1>2. CASE Query
  <2>1. \/ dnsThread' = [dnsThread EXCEPT !.at = dnsThread.at + 1]
        \/ dnsThread' = [dnsThread EXCEPT !.at = 1, !.name = dnsThread.name + 1]
    BY <1>2 DEF Query, DnsRecords
  <2>2. /\ dnsThread'.live = dnsThread.live /\ dnsThread'.names = dnsThread.names
        /\ dnsThread'.servers = dnsThread.servers
        /\ dnsThread'.failed = dnsThread.failed
        /\ dnsThread'.ready = dnsThread.ready
        /\ dnsThread.name \in Nat /\ dnsThread.at \in Nat
    BY <2>1 DEF DnsRecords
  <2>3. CASE dnsThread'.at = dnsThread.at + 1 /\ dnsThread'.name = dnsThread.name
    <3>1. 1 .. dnsThread.at - 1 \subseteq 1 .. dnsThread'.at - 1
      BY <2>2, <2>3
    <3> QED BY <2>2, <2>3, <3>1 DEF DnsTodo
  <2>4. CASE dnsThread'.name = dnsThread.name + 1
    <3>1. \A n \in 1 .. MaxNames :
            n > dnsThread'.name \/ n = dnsThread'.name => n > dnsThread.name
      BY <2>2, <2>4
    <3> QED BY <2>2, <3>1 DEF DnsTodo
  <2> QED BY <2>1, <2>3, <2>4 DEF DnsRecords
<1>3. CASE FinishDns
  <2>1. ~dnsThread'.live
    BY <1>3 DEF FinishDns, DnsOver, NoDns
  <2> QED BY <2>1 DEF DnsTodo
<1> QED BY <1>1, <1>2, <1>3 DEF DnsStep

\* Nor does the vendor thread add an address.
LEMMA VendorSettles ==
  ASSUME JobsShape, VendorStep
  PROVE  VendorTodo' \subseteq VendorTodo
<1> USE DEF JobsShape
<1>1. /\ Len(vendorThread.macs) \in Nat /\ vendorThread.at \in Nat
      /\ vendorThread.pc # "none"
  BY MacListLength, VendorAssumption
  DEF VendorRecords, VendorStep, OpenDatabase, LookUpNext, FinishVendors
<1>2. VendorTodo = vendorThread.at .. Len(vendorThread.macs)
  BY <1>1 DEF VendorTodo
<1>3. CASE OpenDatabase
  <2>1. /\ vendorThread'.macs = vendorThread.macs
        /\ \/ vendorThread'.at = vendorThread.at
           \/ vendorThread'.at = Len(vendorThread.macs) + 1
    BY <1>3 DEF OpenDatabase, VendorRecords
  <2> QED BY <1>1, <1>2, <2>1 DEF VendorTodo
<1>4. CASE LookUpNext
  <2>1. /\ vendorThread'.macs = vendorThread.macs
        /\ vendorThread'.at = vendorThread.at + 1
    BY <1>4 DEF LookUpNext, VendorRecords
  <2> QED BY <1>1, <1>2, <2>1 DEF VendorTodo
<1>5. CASE FinishVendors
  <2>1. vendorThread'.pc = "none"
    BY <1>5 DEF FinishVendors, NoVendorThread
  <2> QED BY <2>1 DEF VendorTodo
<1> QED BY <1>3, <1>4, <1>5 DEF VendorStep

\* The DNS page is not concerned.
DnsOthers == UNCHANGED dnsVars

\* What a step of Pages is for the DNS page.
LEMMA StepsForDns ==
  ASSUME [Next]_vars
  PROVE  \/ (RepaintFrame \/ InputFrame) /\ DrainAll
         \/ DnsStep /\ DnsOnly
         \/ ResolveClicked
         \/ ClearDns
         \/ DnsOthers
<1>1. CASE UNCHANGED vars
  BY <1>1 DEF vars, DnsOthers
<1>2. CASE UIStep
  BY <1>2 DEF UIStep, ShowPage, NetOnly, DnsOthers
<1>3. CASE UserStep
  BY <1>3 DEF UserStep, VendorOnly, NetOnly, PacketOnly, DnsOthers
<1>4. CASE Threads
  BY <1>4 DEF Threads, VendorOnly, NetOnly, PacketOnly, DnsOthers
<1> QED BY <1>1, <1>2, <1>3, <1>4 DEF Next

\* How it looks to a job: it starts, settles items, finishes, or is not
\* concerned.
LEMMA DnsJobStep ==
  ASSUME JobsInv, JobsShape, [Next]_vars
  PROVE  [DnsJob!Next]_<<dnsRunning, DnsTodo>>
<1> USE DEF JobsInv
<1>1. CASE UNCHANGED <<dnsRunning, dnsThread>>
  BY <1>1 DEF DnsTodo
<1>2. CASE DnsStep /\ DnsOnly
  <2>1. dnsRunning /\ UNCHANGED dnsRunning
    BY <1>2 DEF DnsStep, SetUpServer, Query, FinishDns, SettingUp,
                JobsKeepFramesComing
  <2>2. DnsTodo' \subseteq DnsTodo
    BY <1>2, DnsSettles
  <2>3. DnsTodo \subseteq (1 .. MaxServers) \X (1 .. MaxNames)
    BY DEF DnsTodo
  <2>4. CASE DnsTodo' # DnsTodo
    <3> DEFINE I == DnsTodo \ DnsTodo'
    <3>1. I # {} /\ I \subseteq DnsTodo /\ DnsTodo' = DnsTodo \ I
      BY <2>2, <2>4
    <3>2. DnsJob!Do(I)
      BY <2>1, <3>1 DEF DnsJob!Do
    <3>3. I \in SUBSET ((1 .. MaxServers) \X (1 .. MaxNames))
      BY <2>3
    <3> QED BY <3>2, <3>3 DEF DnsJob!Next
  <2> QED BY <2>1, <2>4
<1>3. CASE (RepaintFrame \/ InputFrame) /\ DrainAll
  <2>1. /\ dnsRunning' = (dnsRunning /\ ~InChan({DnsDone}))
        /\ dnsThread' = dnsThread
    BY <1>3 DEF DrainAll, DrainDns
  <2>2. CASE dnsRunning /\ InChan({DnsDone})
    <3>1. DnsTodo = {} /\ DnsTodo' = {}
      BY <2>1, <2>2 DEF DoneIsLast, DnsTodo
    <3> QED BY <2>1, <2>2, <3>1 DEF DnsJob!Next, DnsJob!Finish
  <2>3. CASE ~(dnsRunning /\ InChan({DnsDone}))
    BY <1>1, <2>1, <2>3 DEF FlagsOK
  <2> QED BY <2>2, <2>3
<1>4. CASE ResolveClicked
  <2>1. ~dnsRunning /\ dnsRunning' = TRUE
    BY <1>4 DEF ResolveClicked
  <2>2. DnsTodo' \in SUBSET ((1 .. MaxServers) \X (1 .. MaxNames))
    BY DEF DnsTodo
  <2> QED BY <2>1, <2>2 DEF DnsJob!Next, DnsJob!Start
<1>5. CASE ClearDns \/ DnsOthers
  BY <1>1, <1>5 DEF ClearDns, DnsOthers, dnsVars
<1> QED BY <1>2, <1>3, <1>4, <1>5, StepsForDns

\* Vendors are not concerned.
VendorOthers == UNCHANGED vendorVars

\* The same for the vendors.
LEMMA StepsForVendors ==
  ASSUME [Next]_vars
  PROVE  \/ (RepaintFrame \/ InputFrame) /\ DrainAll
         \/ VendorStep /\ VendorOnly
         \/ BulkClicked \/ OneClicked
         \/ VendorOthers
<1>1. CASE UNCHANGED vars
  BY <1>1 DEF vars, VendorOthers
<1>2. CASE UIStep
  BY <1>2 DEF UIStep, ShowPage, NetOnly, VendorOthers
<1>3. CASE UserStep
  BY <1>3 DEF UserStep, DnsOnly, NetOnly, PacketOnly, VendorOthers
<1>4. CASE Threads
  BY <1>4 DEF Threads, DnsOnly, NetOnly, PacketOnly, VendorOthers
<1> QED BY <1>1, <1>2, <1>3, <1>4 DEF Next

\* A lookup as a job: it starts, settles addresses, finishes, or rests.
LEMMA VendorJobStep ==
  ASSUME JobsInv, JobsShape, [Next]_vars
  PROVE  [VendorJob!Next]_<<vendorRunning, VendorTodo>>
<1> USE DEF JobsInv
<1>1. CASE UNCHANGED <<vendorRunning, vendorThread>>
  BY <1>1 DEF VendorTodo
<1>2. CASE VendorStep /\ VendorOnly
  <2>1. vendorRunning /\ UNCHANGED vendorRunning
    BY <1>2 DEF VendorStep, OpenDatabase, LookUpNext, FinishVendors,
                JobsKeepFramesComing
  <2>2. VendorTodo' \subseteq VendorTodo
    BY <1>2, VendorSettles
  <2>3. VendorTodo \subseteq 1 .. MaxMacs
    BY MacListLength, VendorAssumption DEF JobsShape, VendorRecords, VendorTodo
  <2>4. CASE VendorTodo' # VendorTodo
    <3> DEFINE I == VendorTodo \ VendorTodo'
    <3>1. I # {} /\ I \subseteq VendorTodo /\ VendorTodo' = VendorTodo \ I
      BY <2>2, <2>4
    <3>2. VendorJob!Do(I)
      BY <2>1, <3>1 DEF VendorJob!Do
    <3>3. I \in SUBSET (1 .. MaxMacs)
      BY <2>3
    <3> QED BY <3>2, <3>3 DEF VendorJob!Next
  <2> QED BY <2>1, <2>4
<1>3. CASE (RepaintFrame \/ InputFrame) /\ DrainAll
  <2>1. /\ vendorRunning' = (vendorRunning /\ ~InChan({VendorDone}))
        /\ vendorThread' = vendorThread
    BY <1>3 DEF DrainAll, DrainVendors
  <2>2. CASE vendorRunning /\ InChan({VendorDone})
    <3>1. VendorTodo = {} /\ VendorTodo' = {}
      BY <2>1, <2>2 DEF DoneIsLast, VendorTodo
    <3> QED BY <2>1, <2>2, <3>1 DEF VendorJob!Next, VendorJob!Finish
  <2>3. CASE ~(vendorRunning /\ InChan({VendorDone}))
    BY <1>1, <2>1, <2>3 DEF FlagsOK
  <2> QED BY <2>2, <2>3
<1>4. CASE BulkClicked \/ OneClicked
  <2>1. ~vendorRunning /\ vendorRunning' = TRUE
    BY <1>4 DEF BulkClicked, OneClicked
  <2>2. VendorTodo' \in SUBSET (1 .. MaxMacs)
    <3>1. vendorThread' \in VendorRecords
      BY <1>4, VendorStarts
    <3>2. Len(vendorThread'.macs) \in 0 .. MaxMacs /\ vendorThread'.at \in Nat \ {0}
      BY <3>1, MacListLength DEF VendorRecords
    <3> QED BY <3>2, VendorAssumption DEF VendorTodo
  <2> QED BY <2>1, <2>2 DEF VendorJob!Next, VendorJob!Start
<1>5. CASE VendorOthers
  BY <1>1, <1>5 DEF VendorOthers, vendorVars
<1> QED BY <1>2, <1>3, <1>4, <1>5, StepsForVendors

\* The network report is not concerned.
NetOthers == UNCHANGED <<netLoading, netThreads>>

\* The same for the network report.
LEMMA StepsForNet ==
  ASSUME [Next]_vars
  PROVE  \/ (RepaintFrame \/ InputFrame) /\ DrainAll
         \/ Gathered /\ NetOnly
         \/ Refresh
         \/ NetOthers
<1>1. CASE UNCHANGED vars
  BY <1>1 DEF vars, netVars, NetOthers
<1>2. CASE UIStep
  BY <1>2 DEF UIStep, ShowPage, ShowNet, NetPageTop, netVars, NetOthers
<1>3. CASE UserStep
  BY <1>3 DEF UserStep, DnsOnly, VendorOnly, PacketOnly, RefreshClicked,
              AutoClicked, NetPageTop, netVars, NetOthers
<1>4. CASE Threads
  BY <1>4 DEF Threads, DnsOnly, VendorOnly, PacketOnly, netVars, NetOthers
<1> QED BY <1>1, <1>2, <1>3, <1>4 DEF Next

\* The work left of a report.
NetTodo == IF netThreads > 0 THEN {1} ELSE {}

\* A report as a job of one item.
LEMMA NetJobStep ==
  ASSUME JobsInv, [Next]_vars
  PROVE  [NetJob!Next]_<<netLoading, NetTodo>>
<1> USE DEF JobsInv
<1>1. CASE UNCHANGED <<netLoading, netThreads>>
  BY <1>1 DEF NetTodo
<1>2. CASE Gathered /\ NetOnly
  <2>1. netLoading /\ UNCHANGED netLoading /\ NetTodo = {1} /\ NetTodo' = {}
    BY <1>2 DEF Gathered, JobsKeepFramesComing, FlagsOK, NetTodo
  <2>2. NetJob!Do({1})
    BY <2>1 DEF NetJob!Do, NetTodo
  <2> QED BY <2>2 DEF NetJob!Next
<1>3. CASE (RepaintFrame \/ InputFrame) /\ DrainAll
  <2>1. /\ netLoading' = (netLoading /\ ~InChan({NetReady}))
        /\ netThreads' = netThreads
    BY <1>3 DEF DrainAll, DrainNet
  <2>2. CASE netLoading /\ InChan({NetReady})
    <3>1. NetTodo = {} /\ NetTodo' = {}
      BY <2>1, <2>2 DEF DoneIsLast, NetTodo
    <3> QED BY <2>1, <2>2, <3>1 DEF NetJob!Next, NetJob!Finish, NetTodo
  <2>3. CASE ~(netLoading /\ InChan({NetReady}))
    BY <1>1, <2>1, <2>3 DEF FlagsOK
  <2> QED BY <2>2, <2>3
<1>4. CASE Refresh
  <2>1. CASE ~netLoading /\ netLoading' = TRUE
    BY <2>1 DEF NetJob!Next, NetJob!Start, NetTodo
  <2>2. CASE UNCHANGED <<netLoading, netThreads>>
    BY <1>1, <2>2
  <2> QED BY <1>4, <2>1, <2>2 DEF Refresh
<1> QED BY <1>1, <1>2, <1>3, <1>4, StepsForNet DEF NetOthers

\* DNS runs, vendor lookups and reports keep what Job promises: one at a time,
\* each item settled once, over only when all are, for any number of names,
\* servers, addresses and jobs, whatever the other pages do.
THEOREM JobsRefinement == Spec => ImplementsJobs
<1>1. Init => DnsJob!Init /\ VendorJob!Init /\ NetJob!Init
  <2>1. Init => dnsRunning = FALSE /\ DnsTodo = {}
    BY DEF Init, DnsInit, NoDns, DnsTodo
  <2>2. Init => vendorRunning = FALSE /\ VendorTodo = {}
    BY DEF Init, VendorInit, NoVendorThread, VendorTodo
  <2>3. Init => netLoading = FALSE /\ NetTodo = {}
    BY DEF Init, NetInit, NetTodo
  <2> QED BY <2>1, <2>2, <2>3 DEF DnsJob!Init, VendorJob!Init, NetJob!Init, NetTodo
<1>2. JobsInv /\ JobsShape /\ [Next]_vars => JobsInv' /\ JobsShape'
  BY JobsInvStep, ShapeStep
<1>3. JobsInv /\ JobsShape /\ [Next]_vars => [DnsJob!Next]_<<dnsRunning, DnsTodo>>
  BY DnsJobStep
<1>4. JobsInv /\ JobsShape /\ [Next]_vars
        => [VendorJob!Next]_<<vendorRunning, VendorTodo>>
  BY VendorJobStep
<1>5. JobsInv /\ JobsShape /\ [Next]_vars => [NetJob!Next]_<<netLoading, NetTodo>>
  BY NetJobStep
<1> QED
  BY <1>1, <1>2, <1>3, <1>4, <1>5, JobsInvInit, ShapeInit, PTL
     DEF Spec, ImplementsJobs, DnsJob!Spec, VendorJob!Spec, NetJob!Spec,
         DnsJob!jobVars, VendorJob!jobVars, NetJob!jobVars, NetTodo

-----------------------------------------------------------------------------
(* A packet session implements Session: its one member is at work until it *)
(* leaves the loop, and owes a line after Stop while it resolves the       *)
(* destination or has a packet under way.                                  *)

\* A packet is under way only after the first turn of the loop, and the line of
\* a destination that cannot be resolved is the only one of no packets.
PacketInv ==
  /\ packet \in [pc : PacketPCs, run : Nat, count : Nat, i : Nat, stop : BOOLEAN]
  /\ starts \in Nat
  /\ packet.i <= packet.count
  /\ packet.pc = "resolve" => packet.i = 0 /\ packet.count > 0
  /\ packet.pc = "send" /\ packet.count > 0 => packet.i > 0

\* The session seen by Session.
PacketPhase == IF ~PacketLive THEN "idle"
               ELSE IF packet.stop THEN "stopping" ELSE "running"
PacketAtWork == IF packet.pc \in {"resolve", "loop", "send"} THEN {1} ELSE {}
PacketOwed == IF packet.stop /\ packet.pc \in {"resolve", "send"} THEN {1} ELSE {}
PacketReports == [m \in {1} |-> IF PacketLive THEN EmittedLines ELSE 0]

\* Packets are not concerned.
PacketOthers == UNCHANGED packetVars /\ (Launch \/ UNCHANGED starts)

\* What a step of Pages is for the packet page.
LEMMA StepsForPackets ==
  ASSUME [Next]_vars
  PROVE  \/ UNCHANGED <<packet, starts>>
         \/ PacketStep /\ UNCHANGED starts
         \/ SendClicked
         \/ StopPacket
         \/ PacketOthers
<1>1. CASE UNCHANGED vars
  BY <1>1 DEF vars, packetVars
<1>2. CASE (RepaintFrame \/ InputFrame) /\ DrainAll
  BY <1>2 DEF RepaintFrame, InputFrame, BeginFrame, DrainAll, DrainPackets
<1>3. CASE ShowPage
  BY <1>3 DEF ShowPage, ShowNet, NetPageTop, Refresh, NetOnly, PacketOthers
<1>4. CASE \/ (ResolveClicked \/ ClearDns) /\ DnsOnly
           \/ (BulkClicked \/ OneClicked) /\ VendorOnly
  BY <1>4 DEF ResolveClicked, ClearDns, BulkClicked, OneClicked, DnsOnly,
              VendorOnly, PacketOthers
<1>5. CASE (RefreshClicked \/ AutoClicked) /\ NetOnly
  BY <1>5 DEF RefreshClicked, AutoClicked, NetPageTop, Refresh, NetOnly,
              PacketOthers
<1>6. CASE (SendClicked \/ StopPacket \/ ClearPacket) /\ PacketOnly
  BY <1>6 DEF ClearPacket
<1>7. CASE (DnsStep /\ DnsOnly) \/ (VendorStep /\ VendorOnly)
  BY <1>7 DEF DnsStep, SetUpServer, Query, FinishDns, VendorStep, OpenDatabase,
              LookUpNext, FinishVendors, Quiet, SendEvent, DnsOnly, VendorOnly,
              packetVars
<1>8. CASE (Gathered /\ NetOnly) \/ (PacketStep /\ PacketOnly)
  BY <1>8 DEF Gathered, PacketStep, Resolve, NextPacket, Emit, FinishPacket,
              Quiet, SendEvent, NetOnly, packetVars
<1>9. CASE UIStep
  BY <1>2, <1>3, <1>9 DEF UIStep
<1>10. CASE UserStep
  BY <1>2, <1>4, <1>5, <1>6, <1>10 DEF UserStep
<1>11. CASE Threads
  BY <1>7, <1>8, <1>11 DEF Threads
<1> QED BY <1>1, <1>9, <1>10, <1>11 DEF Next

\* Where each step of the session leads.
LEMMA PacketMoves ==
  ASSUME PacketInv
  PROVE  /\ SendClicked => \E n \in PacketCounts, r \in Nat : packet' =
               [pc |-> "resolve", run |-> r, count |-> n, i |-> 0, stop |-> FALSE]
         /\ StopPacket => packet' = [packet EXCEPT !.stop = TRUE]
         /\ Resolve => \/ packet' = [packet EXCEPT !.pc = "loop"]
                       \/ packet' = [packet EXCEPT !.pc = "send", !.count = 0]
         /\ NextPacket =>
              \/ packet' = [packet EXCEPT !.pc = "ending"]
              \/ /\ ~packet.stop /\ packet.i < packet.count
                 /\ packet' = [packet EXCEPT !.pc = "send", !.i = packet.i + 1]
         /\ Emit => packet' = [packet EXCEPT !.pc = "loop"]
         /\ FinishPacket => packet' = NoPacket
<1>1. ASSUME SendClicked
      PROVE  \E n \in PacketCounts, r \in Nat : packet' =
               [pc |-> "resolve", run |-> r, count |-> n, i |-> 0, stop |-> FALSE]
  <2>1. starts' \in Nat
    BY <1>1, Launched DEF SendClicked, PacketInv
  <2>2. PICK n \in PacketCounts : packet' = Sending(n)
    BY <1>1 DEF SendClicked
  <2> QED BY <2>1, <2>2 DEF Sending, NoPacket
<1>2. ASSUME NextPacket
      PROVE  \/ packet' = [packet EXCEPT !.pc = "ending"]
             \/ /\ ~packet.stop /\ packet.i < packet.count
                /\ packet' = [packet EXCEPT !.pc = "send", !.i = packet.i + 1]
  BY <1>2 DEF NextPacket, PacketInv
<1> QED BY <1>1, <1>2 DEF StopPacket, Resolve, Emit, FinishPacket

\* The session's invariant holds at the start and is kept by every step.
LEMMA PacketInvStep ==
  /\ Init => PacketInv
  /\ PacketInv /\ [Next]_vars => PacketInv'
<1>1. Init => PacketInv
  BY DEF Init, FrameInit, PacketInit, NoPacket, PacketInv, PacketPCs
<1>2. ASSUME PacketInv, [Next]_vars
      PROVE  PacketInv'
  <2> USE <1>2 DEF PacketInv
  <2>1. starts' \in Nat
    BY StepsForPackets, Launched
    DEF PacketOthers, SendClicked, StopPacket
  <2>2. CASE UNCHANGED packet
    BY <2>1, <2>2
  <2>3. CASE SendClicked
    <3>1. PICK n \in PacketCounts, r \in Nat : packet' =
            [pc |-> "resolve", run |-> r, count |-> n, i |-> 0, stop |-> FALSE]
      BY <2>3, PacketMoves
    <3>2. n \in Nat /\ n > 0
      BY PacketAssumption
    <3> QED BY <2>1, <3>1, <3>2 DEF PacketPCs
  <2>4. CASE StopPacket
    <3>1. packet' = [packet EXCEPT !.stop = TRUE]
      BY <2>4, PacketMoves
    <3> QED BY <2>1, <3>1
  <2>5. CASE Resolve
    <3>1. packet.pc = "resolve"
      BY <2>5 DEF Resolve
    <3>2. CASE packet' = [packet EXCEPT !.pc = "loop"]
      BY <2>1, <3>2 DEF PacketPCs
    <3>3. CASE packet' = [packet EXCEPT !.pc = "send", !.count = 0]
      <4>1. /\ packet'.pc = "send" /\ packet'.count = 0 /\ packet'.i = packet.i
            /\ packet' \in [pc : PacketPCs, run : Nat, count : Nat, i : Nat,
                            stop : BOOLEAN]
        BY <3>3 DEF PacketPCs
      <4> QED BY <2>1, <3>1, <4>1
    <3> QED BY <2>5, <3>2, <3>3, PacketMoves
  <2>6. CASE NextPacket
    <3>1. CASE packet' = [packet EXCEPT !.pc = "ending"]
      BY <2>1, <3>1 DEF PacketPCs
    <3>2. CASE /\ packet.i < packet.count
               /\ packet' = [packet EXCEPT !.pc = "send", !.i = packet.i + 1]
      <4> DEFINE k == packet.i + 1
      <4>1. k \in Nat /\ k > 0 /\ k <= packet.count
        BY <3>2
      <4>2. packet' = [packet EXCEPT !.pc = "send", !.i = k]
        BY <3>2
      <4> HIDE DEF k
      <4>3. /\ packet'.pc = "send" /\ packet'.count = packet.count /\ packet'.i = k
            /\ packet' \in [pc : PacketPCs, run : Nat, count : Nat, i : Nat,
                            stop : BOOLEAN]
        BY <4>1, <4>2 DEF PacketPCs
      <4> QED BY <2>1, <4>1, <4>3
    <3> QED BY <2>6, <3>1, <3>2, PacketMoves
  <2>7. CASE Emit
    <3>1. packet' = [packet EXCEPT !.pc = "loop"]
      BY <2>7, PacketMoves
    <3> QED BY <2>1, <3>1 DEF PacketPCs
  <2>8. CASE FinishPacket
    <3>1. packet' = NoPacket
      BY <2>8, PacketMoves
    <3> QED BY <2>1, <3>1 DEF PacketPCs, NoPacket
  <2> QED BY <2>2, <2>3, <2>4, <2>5, <2>6, <2>7, <2>8, StepsForPackets
          DEF PacketStep, PacketOthers, packetVars
<1> QED BY <1>1, <1>2

\* A step of the session is a step of Session, or none.
LEMMA PacketSessionStep ==
  ASSUME PacketInv, [Next]_vars
  PROVE  [PacketPromise!Next]_<<PacketPhase, PacketAtWork, PacketOwed, PacketReports>>
<1> USE DEF PacketInv
<1> USE DEF PacketPhase, PacketAtWork, PacketOwed, PacketReports, PacketLive,
            EmittedLines
<1>1. CASE UNCHANGED packet
  BY <1>1
<1>2. CASE SendClicked
  <2>1. PICK n \in PacketCounts, r \in Nat : packet' =
          [pc |-> "resolve", run |-> r, count |-> n, i |-> 0, stop |-> FALSE]
    BY <1>2, PacketMoves
  <2>2. packet.pc = "none"
    BY <1>2 DEF SendClicked
  <2>3. PacketReports' \in [{1} -> Nat] /\ PacketAtWork' \in SUBSET {1}
    BY <2>1
  <2> QED BY <2>1, <2>2, <2>3 DEF PacketPromise!Next, PacketPromise!Start
<1>3. CASE StopPacket
  <2>1. packet' = [packet EXCEPT !.stop = TRUE] /\ packet.pc # "none"
    BY <1>3, PacketMoves DEF StopPacket
  <2>2. packet'.pc = packet.pc /\ packet'.i = packet.i
        /\ packet'.count = packet.count /\ packet'.stop
    BY <2>1
  <2>3. UNCHANGED <<PacketAtWork, PacketReports>>
    BY <2>2
  <2>4. CASE packet.stop
    BY <2>1, <2>2, <2>3, <2>4
  <2>5. CASE ~packet.stop
    <3>1. PacketOwed' \in SUBSET PacketAtWork
      BY <2>2
    <3> QED BY <2>1, <2>2, <2>3, <2>5, <3>1 DEF PacketPromise!Next, PacketPromise!Stop
  <2> QED BY <2>4, <2>5
<1>4. CASE Resolve
  <2>1. packet.pc = "resolve" /\ packet.i = 0 /\ packet.count > 0
    BY <1>4 DEF Resolve
  <2>2. CASE packet' = [packet EXCEPT !.pc = "loop"]
    <3>1. /\ packet'.pc = "loop" /\ packet'.i = packet.i
          /\ packet'.count = packet.count /\ packet'.stop = packet.stop
      BY <2>2
    <3>2. UNCHANGED <<PacketPhase, PacketAtWork, PacketReports>> /\ PacketOwed' = {}
      BY <2>1, <3>1
    <3>3. CASE packet.stop
      <4>1. PacketPromise!Decline(1)
        BY <2>1, <3>2, <3>3 DEF PacketPromise!Decline
      <4> QED BY <4>1 DEF PacketPromise!Next
    <3>4. CASE ~packet.stop
      BY <3>2, <3>4
    <3> QED BY <3>3, <3>4
  <2>3. CASE packet' = [packet EXCEPT !.pc = "send", !.count = 0]
    <3>1. /\ packet'.pc = "send" /\ packet'.count = 0
          /\ packet'.stop = packet.stop
      BY <2>3
    <3> QED BY <2>1, <3>1
  <2> QED BY <1>4, <2>2, <2>3, PacketMoves
<1>5. CASE NextPacket
  <2>1. packet.pc = "loop"
    BY <1>5 DEF NextPacket
  <2>2. CASE packet' = [packet EXCEPT !.pc = "ending"]
    <3>1. /\ packet'.pc = "ending" /\ packet'.i = packet.i
          /\ packet'.count = packet.count /\ packet'.stop = packet.stop
      BY <2>2
    <3>2. /\ UNCHANGED <<PacketPhase, PacketOwed, PacketReports>>
          /\ PacketAtWork = {1} /\ PacketAtWork' = {} /\ PacketOwed = {}
      BY <2>1, <3>1
    <3>3. PacketPromise!Exit({1})
      BY <3>2 DEF PacketPromise!Exit
    <3> QED BY <3>3 DEF PacketPromise!Next
  <2>3. CASE /\ ~packet.stop /\ packet.i < packet.count
             /\ packet' = [packet EXCEPT !.pc = "send", !.i = packet.i + 1]
    <3>1. /\ packet'.pc = "send" /\ packet'.i = packet.i + 1
          /\ packet'.count = packet.count /\ packet'.stop = packet.stop
          /\ packet.count > 0
      BY <2>3
    <3>2. UNCHANGED <<PacketPhase, PacketAtWork, PacketOwed>>
      BY <2>1, <2>3, <3>1
    <3>3. UNCHANGED PacketReports
      BY <2>1, <2>3, <3>1
    <3> QED BY <3>2, <3>3
  <2> QED BY <1>5, <2>2, <2>3, PacketMoves
<1>6. CASE Emit
  <2>1. packet.pc = "send" /\ packet' = [packet EXCEPT !.pc = "loop"]
    BY <1>6, PacketMoves DEF Emit
  <2>2. /\ packet'.pc = "loop" /\ packet'.i = packet.i
        /\ packet'.count = packet.count /\ packet'.stop = packet.stop
    BY <2>1
  <2>3. /\ UNCHANGED <<PacketPhase, PacketAtWork>> /\ PacketOwed' = {}
        /\ PacketOwed = IF packet.stop THEN {1} ELSE {}
        /\ PacketAtWork = {1}
        /\ PacketPhase = IF packet.stop THEN "stopping" ELSE "running"
    BY <2>1, <2>2
  <2>4. EmittedLines' = EmittedLines + 1
    BY <2>1, <2>2
  <2>5. PacketReports' = [PacketReports EXCEPT ![1] = @ + 1]
    <3> HIDE DEF EmittedLines
    <3> QED BY <2>1, <2>2, <2>4
  <2>6. PacketPromise!Report(1)
    BY <2>3, <2>5 DEF PacketPromise!Report
  <2> QED BY <2>6 DEF PacketPromise!Next
<1>7. CASE FinishPacket
  <2>1. packet.pc = "ending" /\ packet' = NoPacket
    BY <1>7, PacketMoves DEF FinishPacket
  <2>2. packet'.pc = "none"
    BY <2>1 DEF NoPacket
  <2>3. PacketPromise!Close
    BY <2>1, <2>2 DEF PacketPromise!Close, PacketPromise!NoReports
  <2> QED BY <2>3 DEF PacketPromise!Next
<1> QED BY <1>1, <1>2, <1>3, <1>4, <1>5, <1>6, <1>7, StepsForPackets
        DEF PacketStep, PacketOthers, packetVars

\* Stop lets a packet session finish the packet it is sending, and "Send" is
\* offered again only when it is over (packet::start, is_running), for any
\* number of packets.
THEOREM PacketRefinement == Spec => PacketImplementsSession
<1>1. Init => PacketPromise!Init
  BY DEF Init, PacketInit, NoPacket, PacketLive, PacketPromise!Init,
         PacketPromise!NoReports
<1>2. PacketInv /\ [Next]_vars
        => [PacketPromise!Next]_<<PacketPhase, PacketAtWork, PacketOwed, PacketReports>>
  BY PacketSessionStep
<1> QED
  BY <1>1, <1>2, PacketInvStep, PTL
     DEF Spec, PacketImplementsSession, PacketPromise!Spec,
         PacketPromise!sessionVars, PacketPhase, PacketAtWork, PacketOwed,
         PacketReports
=============================================================================
