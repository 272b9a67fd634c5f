------------------------------- MODULE Pages -------------------------------
(***************************************************************************)
(* The DNS, ARP (vendors), packet and network pages on one UI thread and   *)
(* one event channel: their jobs run side by side, each page starts its    *)
(* own while the others are at work, and one test at the end of update()   *)
(* keeps frames coming for all of them.                                    *)
(***************************************************************************)
EXTENDS DnsRun, VendorLookup, NetRefresh, PacketRun

vars == <<frameVars, chan, starts, dnsVars, vendorVars, netVars, packetVars>>

PagesEvents == DnsEvents \cup VendorEvents \cup {NetReady} \cup PacketLines

Init == FrameInit /\ DnsInit /\ VendorInit /\ NetInit /\ PacketInit

-----------------------------------------------------------------------------
\* A step of one component leaves the others alone.
DnsOnly    == UNCHANGED <<vendorVars, netVars, packetVars>>
VendorOnly == UNCHANGED <<dnsVars, netVars, packetVars>>
NetOnly    == UNCHANGED <<dnsVars, vendorVars, packetVars>>
PacketOnly == UNCHANGED <<dnsVars, vendorVars, netVars>>

DrainAll == DrainDns /\ DrainVendors /\ DrainNet /\ DrainPackets

\* A page drawn without a click on it: the network page, or another one.
ShowPage ==
  /\ DrawPage
  /\ ShowNet \/ UNCHANGED <<netVars, starts>>
  /\ NetOnly

\* Fault: the test forgets the vendor lookup.
BusyWithoutVendors == dnsRunning \/ netLoading \/ PacketLive \/ netAuto

\* The test at the end of update(), without the pages not modelled here.
Busy == dnsRunning \/ vendorRunning \/ netLoading \/ PacketLive \/ netAuto

\* A further frame is requested while a job is seen to be running; egui draws
\* one more after any input.
EndFrame == repaint' = (input \/ Busy')

\* What the UI thread does without the user.
UIStep ==
  \/ RepaintFrame /\ DrainAll
  \/ ShowPage /\ EndFrame

UserStep ==
  \/ InputFrame /\ DrainAll
  \/ (ResolveClicked \/ ClearDns) /\ DnsOnly /\ EndFrame
  \/ (BulkClicked \/ OneClicked) /\ VendorOnly /\ EndFrame
  \/ (RefreshClicked \/ AutoClicked) /\ NetOnly /\ EndFrame
  \/ (SendClicked \/ StopPacket \/ ClearPacket) /\ PacketOnly /\ EndFrame

Threads ==
  \/ DnsStep /\ DnsOnly
  \/ VendorStep /\ VendorOnly
  \/ Gathered /\ NetOnly
  \/ PacketStep /\ PacketOnly

Next == UIStep \/ UserStep \/ Threads

Spec == Init /\ [][Next]_vars

\* update() returns, a frame requested comes, and threads run: a query, a
\* packet and the curl of a lookup have time-outs, the tools of the network
\* report are taken to end.  Nothing is assumed of the user.
FairSpec ==
  /\ Spec /\ WF_vars(UIStep)
  /\ WF_vars(DnsStep /\ DnsOnly) /\ WF_vars(VendorStep /\ VendorOnly)
  /\ WF_vars(Gathered /\ NetOnly) /\ WF_vars(PacketStep /\ PacketOnly)

-----------------------------------------------------------------------------
(* Properties.                                                             *)

\* The type invariant.
TypeOK ==
  /\ ui \in UIStates /\ input \in BOOLEAN /\ repaint \in BOOLEAN
  /\ starts \in 0 .. MaxStarts /\ chan \in Seq(PagesEvents)
  /\ DnsTypeOK /\ VendorTypeOK /\ NetTypeOK /\ PacketTypeOK

Pending(j) == \E i \in 1 .. Len(chan) : chan[i].job = j

\* No job is lost from sight: while its thread runs, or one of its events is
\* still in the channel, its page shows it as running, and the UI never goes to
\* sleep on a job it shows as running (update, drain_events).
JobsKeepFramesComing ==
  /\ dnsThread.live \/ Pending("dns") => dnsRunning
  /\ vendorThread.pc # "none" \/ Pending("vendor") => vendorRunning
  /\ netThreads > 0 \/ Pending("net") => netLoading
  /\ ui = "out" /\ (dnsRunning \/ vendorRunning \/ netLoading \/ PacketLive)
       => repaint

\* DNS runs, vendor lookups and reports are jobs: none starts while its page
\* shows one, and none is shown as over with work left, whatever the others do.
ImplementsJobs == DnsJob!Spec /\ VendorJob!Spec /\ NetJob!Spec

\* Every job a page shows comes to its end there, though the user does nothing
\* (the Done events, the repaint requests of update()).
JobsEnd == []<>~dnsRunning /\ []<>~vendorRunning /\ []<>~netLoading

\* "every result line goes to the log file and to the UI" (packet.rs): a line
\* in the channel is shown, without the user's help.
EveryLineShown == Pending("packet") ~> ~Pending("packet")
=============================================================================
