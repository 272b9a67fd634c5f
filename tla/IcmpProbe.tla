----------------------------- MODULE IcmpProbe -----------------------------
(***************************************************************************)
(* ICMP probes: threads that send echo requests on sockets of their own    *)
(* and wait for the answer until a deadline, and a network that answers a  *)
(* request any number of times, at any later time, in any order, or never. *)
(*                                                                         *)
(* A ping or hop worker probes one address with sequence numbers 1, 2, ... *)
(* A scan worker probes one address after the other, each numbered by its  *)
(* place in the subnet.  Identifier and sequence number wrap.              *)
(***************************************************************************)
EXTENDS Naturals, Sequences

CONSTANTS
  Probers,     \* the threads that may probe,
  Scanners,    \* those of them that are scan workers
  HostCount,   \* addresses
  IdentSize,   \* number of identifiers (2^16 in the code)
  SeqSize,     \* number of sequence numbers (2^16 in the code)
  MaxRequests, \* bound: requests sent, and numbered by one worker
  MaxPingers,  \* bound: sockets opened
  Slices       \* steps of the clock to a deadline

ASSUME ProbeAssumption ==
  /\ Scanners \subseteq Probers
  /\ IdentSize \in Nat \ {0} /\ SeqSize \in Nat \ {0}
  /\ HostCount \in Nat /\ MaxRequests \in Nat /\ MaxPingers \in Nat
  /\ Slices \in Nat \ {0}

Addresses == 1 .. HostCount

VARIABLES
  kernel,    \* kernel_ident: datagram sockets of Linux, else raw or macOS
  requests,  \* requests sent, oldest first
  pingers,   \* IDENT_COUNTER: sockets opened
  prober     \* the threads

probeVars == <<kernel, requests, pingers, prober>>

\* A request: socket, address, sequence number, and its count on the socket.
EchoRequests == [pinger : 1 .. MaxPingers, ip : Addresses,
                 seq : 0 .. SeqSize - 1, nth : Nat]

Results == {"none", "ok", "lost", "toobig", "other"}

\* `on`: a worker is at work; `ip` is the address probed, `pinger` and `peer`
\* the socket of the Backend and its address, `nth` the requests numbered so
\* far, `req` the one awaited.  `res` is the last result, if a packet or the
\* kernel gave it, and `by`, as history, the request that was about.
ProberStates ==
  [on : BOOLEAN, pc : {"idle", "wait"},
   ip : 0 .. HostCount, pinger : 0 .. MaxPingers, peer : 0 .. HostCount,
   nth : Nat, req : 0 .. MaxRequests, left : 0 .. Slices,
   res : Results, by : 0 .. MaxRequests]
NoProber == [on |-> FALSE, pc |-> "idle", ip |-> 0, pinger |-> 0, peer |-> 0,
             nth |-> 0, req |-> 0, left |-> 0, res |-> "none", by |-> 0]

ProbeInit ==
  /\ kernel \in BOOLEAN /\ requests = <<>> /\ pingers = 0
  /\ prober = [t \in Probers |-> NoProber]

\* The identifier: process id xor counter, one to one with the counter.
Ident(p) == p % IdentSize

\* Fault: sequence numbers do not wrap.
NoWrap(n) == n

\* `seq as u16`.
AsSeq(n) == n % SeqSize

-----------------------------------------------------------------------------
(* The threads.                                                            *)

\* A worker starts with a Backend that has no socket yet.
SpawnProber(t) ==
  /\ prober[t].pc = "idle"
  /\ \E a \in IF t \in Scanners THEN {0} ELSE Addresses :
       prober' = [prober EXCEPT ![t] = [NoProber EXCEPT !.on = TRUE, !.ip = a]]
  /\ UNCHANGED <<kernel, requests, pingers>>

\* The result of t is r; a fatal error ends probe_loop.
Settle(t, w, r, b) ==
  IF r = "other" /\ t \notin Scanners THEN NoProber
  ELSE [w EXCEPT !.pc = "idle", !.left = 0, !.by = b,
                 !.res = IF b = 0 THEN "none" ELSE r]

\* The thread turns to its next request: the same address, or the next host.
Turn(t, a) ==
  /\ prober[t].pc = "idle" /\ prober[t].on
  /\ IF t \notin Scanners
     THEN a = prober[t].ip /\ prober[t].nth < MaxRequests
     ELSE a # prober[t].peer

Numbered(t, a) ==
  [prober[t] EXCEPT !.ip = a, !.res = "none", !.by = 0,
                    !.nth = IF t \in Scanners THEN a ELSE @ + 1]

\* Pinger::new fails: no permission, no route, no address of this family.
OpenFails(t, a) ==
  /\ Turn(t, a) /\ prober[t].peer # a
  /\ prober' = [prober EXCEPT ![t] = Settle(t, Numbered(t, a), "other", 0)]
  /\ UNCHANGED <<kernel, requests, pingers>>

\* Backend::ping keeps the socket for the same address.
Socket(w, a) == IF w.peer = a THEN w
                ELSE [w EXCEPT !.pinger = pingers + 1, !.peer = a]

\* Pinger::ping as far as send: the request is under way, or the send fails,
\* for a reason of its own or with an error the kernel had in store for an
\* earlier request of this socket.
SendRequest(t, a) ==
  /\ Turn(t, a) /\ Len(requests) < MaxRequests
  /\ LET w == Socket(Numbered(t, a), a)
         q == [pinger |-> w.pinger, ip |-> w.peer, seq |-> AsSeq(w.nth),
               nth |-> w.nth]
     IN  /\ w.pinger <= MaxPingers
         /\ pingers' = IF w.pinger > pingers THEN w.pinger ELSE pingers
         /\ \/ /\ requests' = Append(requests, q)
               /\ prober' = [prober EXCEPT ![t] = [w EXCEPT !.pc = "wait",
                               !.req = Len(requests) + 1, !.left = Slices]]
            \/ /\ \E r \in {"lost", "toobig", "other"} :
                    prober' = [prober EXCEPT ![t] = Settle(t, w, r, 0)]
               /\ UNCHANGED requests
            \/ /\ kernel
               /\ \E r \in {"lost", "toobig", "other"}, b \in DOMAIN requests :
                    /\ requests[b].pinger = w.pinger
                    /\ prober' = [prober EXCEPT ![t] = Settle(t, w, r, b)]
               /\ UNCHANGED requests
  /\ UNCHANGED kernel

\* Packets that may reach the socket of t, each about a request.  The kernel
\* hands a datagram socket its own echo replies only; the others see every
\* reply of their peer, and its errors about anybody's requests.
Reaching(t) ==
  {p \in [about : DOMAIN requests, what : {"ok", "lost", "toobig"}] :
     IF kernel THEN /\ p.what = "ok"
                    /\ requests[p.about].pinger = prober[t].pinger
     ELSE p.what = "ok" => requests[p.about].ip = prober[t].peer}

\* Fault: the sequence number is not compared.
IdentOnly(t, b) ==
  kernel \/ Ident(requests[b].pinger) = Ident(prober[t].pinger)

\* classify, on the reply or on the request quoted in an error.
Matches(t, b) ==
  /\ kernel \/ Ident(requests[b].pinger) = Ident(prober[t].pinger)
  /\ requests[b].seq = requests[prober[t].req].seq

\* Fault: an unrelated packet starts the wait anew.
ReceiveRestarts(t) ==
  /\ prober[t].pc = "wait" /\ prober[t].left > 0
  /\ \E p \in Reaching(t) :
       prober' = [prober EXCEPT ![t] = IF Matches(t, p.about)
                    THEN Settle(t, @, p.what, p.about)
                    ELSE [@ EXCEPT !.left = Slices]]
  /\ UNCHANGED <<kernel, requests, pingers>>

\* recv returns a packet before the deadline; an unrelated one is ignored.
Receive(t) ==
  /\ prober[t].pc = "wait" /\ prober[t].left > 0
  /\ \E p \in Reaching(t) :
       prober' = [prober EXCEPT ![t] = IF Matches(t, p.about)
                    THEN Settle(t, @, p.what, p.about) ELSE @]
  /\ UNCHANGED <<kernel, requests, pingers>>

\* recv returns an error: a failure of its own, or an ICMP error about a
\* request of this socket, which map_io_error sorts by its code.
ReceiveFails(t) ==
  /\ prober[t].pc = "wait" /\ prober[t].left > 0
  /\ \/ prober' = [prober EXCEPT ![t] = Settle(t, @, "other", 0)]
     \/ /\ kernel
        /\ \E b \in DOMAIN requests, r \in {"lost", "toobig", "other"} :
             /\ requests[b].pinger = prober[t].pinger
             /\ prober' = [prober EXCEPT ![t] = Settle(t, @, r, b)]
  /\ UNCHANGED <<kernel, requests, pingers>>

\* Time passes; at the deadline the request is lost.
Clock(t) ==
  /\ prober[t].pc = "wait"
  /\ prober' = [prober EXCEPT ![t] = IF @.left = 0 THEN Settle(t, @, "lost", 0)
                                     ELSE [prober[t] EXCEPT !.left = @ - 1]]
  /\ UNCHANGED <<kernel, requests, pingers>>

ProbeNext ==
  \E t \in Probers :
    \/ SpawnProber(t) \/ Receive(t) \/ ReceiveFails(t) \/ Clock(t)
    \/ \E a \in Addresses : OpenFails(t, a) \/ SendRequest(t, a)

ProbeSpec == ProbeInit /\ [][ProbeNext]_probeVars

\* Time passes, whatever the network does.
ProbeFairness == \A t \in Probers : WF_probeVars(Clock(t))

-----------------------------------------------------------------------------
(* Properties.                                                             *)

\* The type invariant.
ProbeTypeOK ==
  /\ kernel \in BOOLEAN /\ pingers \in 0 .. MaxPingers
  /\ requests \in Seq(EchoRequests) /\ Len(requests) <= MaxRequests
  /\ prober \in [Probers -> ProberStates]

Distance(m, n) == IF m < n THEN n - m ELSE m - n

\* A result is about the request that was awaited: never about one of another
\* thread, another address, or an earlier one of the same thread, as late,
\* duplicated and foreign packets come in, unless all sequence numbers, or all
\* identifiers, have been used in between ("every reply must be an echo-reply
\* whose identifier and sequence number match the probe").  Only the errors
\* the kernel reports may stem from an earlier request of the socket.
AnswerIsOurs ==
  \A t \in Probers :
    LET w == prober[t]
    IN  w.by # 0 /\ w.req # 0 =>
          LET a == requests[w.by]  q == requests[w.req]
          IN  IF w.res = "ok" \/ ~kernel
              THEN /\ w.res = "ok" => a.ip = w.ip
                   /\ \/ w.by = w.req
                      \/ a.pinger = q.pinger /\ q.nth - a.nth >= SeqSize
                      \/ /\ ~kernel /\ a.pinger # q.pinger
                         /\ Distance(a.pinger, q.pinger) >= IdentSize
              ELSE a.pinger = w.pinger

\* A probe ends: packets that are not its own do not put off its deadline
\* (ping's loop).
ProbesEnd == \A t \in Probers : []<>(prober[t].pc = "idle")
=============================================================================
