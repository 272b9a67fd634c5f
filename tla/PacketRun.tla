----------------------------- MODULE PacketRun -----------------------------
(***************************************************************************)
(* The packet page: "Send" starts one thread that resolves the             *)
(* destination and sends a number of packets, with an interruptible wait   *)
(* between them, each with a line to the log and to the channel.  There is *)
(* no Done event: the page looks at the thread itself.                     *)
(***************************************************************************)
EXTENDS Frame, FiniteSetsExt

CONSTANTS
  PacketCounts,  \* bound: how many packets one run may have (1 to 1000)
  PacketCap      \* lines the page keeps (2000 in the code)

ASSUME PacketAssumption ==
  /\ PacketCounts # {} /\ PacketCounts \subseteq Nat \ {0}
  /\ IsFiniteSet(PacketCounts)
  /\ PacketCap \in Nat \ {0}

MaxCount == Max(PacketCounts)

PacketPCs == {"none", "resolve", "loop", "send", "ending"}

VARIABLES
  packet,      \* the thread of packet_session, until it has finished
  packetLog    \* packet_log

packetVars == <<packet, packetLog>>

\* `i` is the packet under way; a destination that cannot be resolved has its
\* line sent as packet 0 of 0.
Packets == [pc : PacketPCs, run : Nat, count : 0 .. MaxCount,
            i : 0 .. MaxCount, stop : BOOLEAN]
NoPacket == [pc |-> "none", run |-> 0, count |-> 0, i |-> 0, stop |-> FALSE]
PacketLines == [job : {"packet"}, run : Nat, i : 0 .. MaxCount]

\* PacketSession::is_running: the thread has not finished.
PacketLive == packet.pc # "none"

PacketInit == packet = NoPacket /\ packetLog = <<>>

-----------------------------------------------------------------------------
\* packet::start, accepted, for n packets: a new thread, its stop flag clear.
Sending(n) ==
  [NoPacket EXCEPT !.pc = "resolve", !.run = starts', !.count = n]

\* Fault: "Send" stays while a session runs.
SendAgain ==
  /\ Click /\ Launch
  /\ \E n \in PacketCounts : packet' = Sending(n)
  /\ UNCHANGED packetLog

\* "Send", shown in place of "Stop" while no session runs.
SendClicked ==
  /\ Click /\ ~PacketLive /\ Launch
  /\ \E n \in PacketCounts : packet' = Sending(n)
  /\ UNCHANGED packetLog

\* "Stop".
StopPacket ==
  /\ Click /\ PacketLive /\ UNCHANGED starts
  /\ packet' = [packet EXCEPT !.stop = TRUE]
  /\ UNCHANGED packetLog

\* "Clear results".
ClearPacket ==
  /\ Click /\ UNCHANGED starts
  /\ packetLog' = <<>>
  /\ UNCHANGED packet

LinesSent == Kept(chan, PacketLines)

\* Fault: the page keeps every line.
DrainUncapped ==
  /\ packetLog' = packetLog \o LinesSent
  /\ UNCHANGED packet

\* drain_events: push_capped keeps the latest lines.
DrainPackets ==
  /\ LET all == packetLog \o LinesSent
         old == IF Len(all) > PacketCap THEN Len(all) - PacketCap ELSE 0
     IN  packetLog' = SubSeq(all, old + 1, Len(all))
  /\ UNCHANGED packet

-----------------------------------------------------------------------------
\* resolve_host and bind_ip_for.
Resolve ==
  /\ packet.pc = "resolve"
  /\ \/ packet' = [packet EXCEPT !.pc = "loop"]
     \/ packet' = [packet EXCEPT !.pc = "send", !.count = 0]
  /\ UNCHANGED packetLog /\ Quiet

\* The top of the loop, and the wait before it: Stop ends either.
NextPacket ==
  /\ packet.pc = "loop"
  /\ packet' =
       IF packet.stop \/ packet.i >= packet.count
       THEN [packet EXCEPT !.pc = "ending"]
       ELSE [packet EXCEPT !.pc = "send", !.i = @ + 1]
  /\ UNCHANGED packetLog /\ Quiet

\* send_one returns, within its time-outs, and its outcome is emitted.
Emit ==
  /\ packet.pc = "send"
  /\ SendEvent([job |-> "packet", run |-> packet.run, i |-> packet.i])
  /\ packet' = [packet EXCEPT !.pc = "loop"]
  /\ UNCHANGED packetLog

\* The thread has finished: is_running turns false, with nothing sent.
FinishPacket ==
  /\ packet.pc = "ending"
  /\ packet' = NoPacket
  /\ UNCHANGED packetLog /\ Quiet

PacketStep == Resolve \/ NextPacket \/ Emit \/ FinishPacket

-----------------------------------------------------------------------------
(* Properties.                                                             *)

PacketTypeOK ==
  /\ packet \in Packets
  /\ packetLog \in Seq(PacketLines) /\ Len(packetLog) <= PacketCap

\* The lines emitted by the last run.
EmittedLines ==
  CASE packet.pc = "send" -> IF packet.count = 0 THEN 0 ELSE packet.i - 1
    [] packet.count = 0 /\ packet.pc \in {"loop", "ending"} -> 1
    [] OTHER -> packet.i

\* A packet session is a Session of one member: Stop lets it finish the
\* packet it is sending and no further one, and the page offers "Send" again
\* only when it is over.
PacketPromise == INSTANCE Session WITH
  Members <- {1},
  phase   <- IF ~PacketLive THEN "idle"
             ELSE IF packet.stop THEN "stopping" ELSE "running",
  live    <- IF packet.pc \in {"resolve", "loop", "send"} THEN {1} ELSE {},
  owed    <- IF packet.stop /\ packet.pc \in {"resolve", "send"} THEN {1} ELSE {},
  reports <- [m \in {1} |-> IF PacketLive THEN EmittedLines ELSE 0]
PacketImplementsSession == PacketPromise!Spec
=============================================================================
