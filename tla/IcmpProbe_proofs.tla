-------------------------- MODULE IcmpProbe_proofs --------------------------
(***************************************************************************)
(* Theorems about IcmpProbe, for any threads, addresses and widths of the  *)
(* identifier and the sequence number.                                     *)
(*                                                                         *)
(* A socket has one owner, which numbers its requests upwards; so packets  *)
(* that carry the number of the request awaited are about it, or about one *)
(* at least a whole turn of a counter away.                                *)
(***************************************************************************)
EXTENDS IcmpProbe, SequenceTheorems, TLAPS

\* Two numbers with the same remainder are equal or a whole turn apart.
LEMMA SameRemainder ==
  ASSUME NEW n \in Nat \ {0}, NEW p \in Nat, NEW q \in Nat, p % n = q % n, p < q
  PROVE  q - p >= n
<1>1. p = n * (p \div n) + (p % n)
  OBVIOUS
<1>2. q = n * (q \div n) + (q % n)
  OBVIOUS
<1>3. p \div n \in Int /\ q \div n \in Int /\ p % n \in Int
  OBVIOUS
<1> DEFINE a == p \div n
           b == q \div n
           m == p % n
<1>4. p = n * a + m /\ q = n * b + m /\ a \in Int /\ b \in Int /\ m \in Int
  BY <1>1, <1>2, <1>3
<1> HIDE DEF a, b, m
<1>5. b - a >= 1
  <2> SUFFICES ASSUME b <= a PROVE FALSE
    BY <1>4
  <2>1. n * b <= n * a
    BY <1>4
  <2> QED BY <1>4, <2>1
<1>6. n * b >= n * (a + 1)
  BY <1>4, <1>5
<1>7. n * (a + 1) = n * a + n
  BY <1>4
<1>8. n * a \in Int /\ n * b \in Int /\ n * (a + 1) \in Int
  BY <1>4
<1> QED BY <1>4, <1>6, <1>7, <1>8

USE ProbeAssumption

\* Requests say truly who sent them: one address per socket, numbered upwards.
RequestsInv ==
  /\ \A i \in 1 .. Len(requests) :
       requests[i].pinger <= pingers /\ requests[i].seq = AsSeq(requests[i].nth)
  /\ \A i, j \in 1 .. Len(requests) :
       i < j /\ requests[i].pinger = requests[j].pinger =>
         requests[i].nth < requests[j].nth

\* A thread's socket is its own, of one address; what it awaits is the newest
\* request of it, and what it last heard was about a request.
ProberInv(t) ==
  LET w == prober[t]
  IN  /\ w.pinger <= pingers /\ (w.peer = 0 <=> w.pinger = 0)
      /\ w.by <= Len(requests) /\ w.req <= Len(requests)
      /\ \A u \in Probers : u # t /\ w.pinger # 0 => prober[u].pinger # w.pinger
      /\ \A i \in 1 .. Len(requests) :
           requests[i].pinger = w.pinger =>
             /\ requests[i].ip = w.peer
             /\ t \notin Scanners => requests[i].nth <= w.nth
      /\ w.pc = "wait" =>
           /\ w.by = 0 /\ w.req # 0 /\ w.pinger # 0 /\ w.peer = w.ip
           /\ requests[w.req].pinger = w.pinger
           /\ \A i \in 1 .. Len(requests) : requests[i].pinger = w.pinger => i <= w.req

\* What AnswerIsOurs says of one thread.
Ours(w) ==
  w.by # 0 /\ w.req # 0 =>
    LET a == requests[w.by]  q == requests[w.req]
    IN  IF w.res = "ok" \/ ~kernel
        THEN /\ w.res = "ok" => a.ip = w.ip
             /\ \/ w.by = w.req
                \/ a.pinger = q.pinger /\ q.nth - a.nth >= SeqSize
                \/ /\ ~kernel /\ a.pinger # q.pinger
                   /\ Distance(a.pinger, q.pinger) >= IdentSize
        ELSE a.pinger = w.pinger

\* The inductive invariant.
ProbeInv == /\ ProbeTypeOK /\ RequestsInv /\ AnswerIsOurs
            /\ \A t \in Probers : ProberInv(t)

-----------------------------------------------------------------------------
(* Numbers and records.                                                    *)

\* What the counts in a thread's state range over.
LEMMA ProberFields ==
  ASSUME NEW w \in ProberStates
  PROVE  /\ w.pinger \in Nat /\ w.peer \in Nat /\ w.nth \in Nat
         /\ w.req \in Nat /\ w.by \in Nat
BY DEF ProberStates

\* A thread whose request has a result.
LEMMA SettledState ==
  ASSUME NEW t \in Probers, NEW w \in ProberStates, NEW r \in Results,
         NEW b \in 0 .. MaxRequests
  PROVE  LET v == Settle(t, w, r, b)
         IN  /\ v \in ProberStates /\ v.pc = "idle"
             /\ \/ /\ v.pinger = w.pinger /\ v.peer = w.peer /\ v.nth = w.nth
                   /\ v.req = w.req /\ v.ip = w.ip /\ v.by = b
                   /\ v.res = IF b = 0 THEN "none" ELSE r
                \/ v.pinger = 0 /\ v.peer = 0 /\ v.req = 0 /\ v.by = 0
<1>1. NoProber \in ProberStates
  BY DEF NoProber, ProberStates, Results
<1>2. CASE r = "other" /\ t \notin Scanners
  BY <1>1, <1>2 DEF Settle, NoProber
<1>3. CASE ~(r = "other" /\ t \notin Scanners)
  <2> DEFINE x == IF b = 0 THEN "none" ELSE r
  <2>1. x \in Results /\ 0 \in 0 .. Slices
    BY DEF Results
  <2>2. Settle(t, w, r, b) = [w EXCEPT !.pc = "idle", !.left = 0, !.by = b, !.res = x]
    BY <1>3 DEF Settle
  <2> HIDE DEF x
  <2>3. Settle(t, w, r, b) \in ProberStates
    BY <2>1, <2>2 DEF ProberStates
  <2> QED BY <2>2, <2>3 DEF ProberStates, x
<1> QED BY <1>2, <1>3

\* A thread that turns to its next request.
LEMMA NumberedState ==
  ASSUME ProbeTypeOK, NEW t \in Probers, NEW a \in Addresses
  PROVE  LET v == Numbered(t, a)  w == prober[t]
         IN  /\ v \in ProberStates /\ v.by = 0 /\ v.res = "none" /\ v.ip = a
             /\ v.pinger = w.pinger /\ v.peer = w.peer /\ v.req = w.req /\ v.pc = w.pc
             /\ v.nth = IF t \in Scanners THEN a ELSE w.nth + 1
<1>1. prober[t] \in ProberStates /\ a \in 0 .. HostCount /\ a \in Nat
  BY DEF ProbeTypeOK, Addresses
<1>2. prober[t].nth + 1 \in Nat
  BY <1>1 DEF ProberStates
<1> DEFINE n == IF t \in Scanners THEN a ELSE prober[t].nth + 1
<1>3. n \in Nat /\ "none" \in Results /\ 0 \in 0 .. MaxRequests
  BY <1>1, <1>2 DEF Results
<1>4. Numbered(t, a) = [prober[t] EXCEPT !.ip = a, !.res = "none", !.by = 0, !.nth = n]
  BY DEF Numbered
<1> HIDE DEF n
<1>5. Numbered(t, a) \in ProberStates
  BY <1>1, <1>3, <1>4 DEF ProberStates
<1> QED BY <1>1, <1>4, <1>5 DEF ProberStates, n

\* A thread with a socket for its address.
LEMMA SocketState ==
  ASSUME ProbeTypeOK, NEW w \in ProberStates, NEW a \in Addresses,
         Socket(w, a).pinger <= MaxPingers
  PROVE  LET v == Socket(w, a)
         IN  /\ v \in ProberStates /\ v.by = w.by /\ v.res = w.res /\ v.ip = w.ip
             /\ v.nth = w.nth /\ v.req = w.req /\ v.pc = w.pc /\ v.peer = a
             /\ v.pinger = IF w.peer = a THEN w.pinger ELSE pingers + 1
<1>1. a \in 0 .. HostCount
  BY DEF Addresses
<1>2. CASE w.peer = a
  BY <1>2 DEF Socket
<1>3. CASE w.peer # a
  <2>1. Socket(w, a) = [w EXCEPT !.pinger = pingers + 1, !.peer = a]
    BY <1>3 DEF Socket
  <2>2. pingers + 1 <= MaxPingers
    BY <2>1 DEF ProberStates
  <2>3. pingers + 1 \in 0 .. MaxPingers
    BY <2>2 DEF ProbeTypeOK
  <2> QED BY <1>1, <1>3, <2>1, <2>3 DEF ProberStates
<1> QED BY <1>2, <1>3

-----------------------------------------------------------------------------
(* The steps.                                                              *)

\* What one thread does to itself, keeping, leaving or opening a socket, with
\* no request sent, preserves the invariant if its last result is about the
\* request awaited.
LEMMA OwnStep ==
  ASSUME ProbeInv, NEW t \in Probers, NEW v \in ProberStates,
         prober' = [prober EXCEPT ![t] = v], kernel' = kernel, requests' = requests,
         pingers' \in pingers .. MaxPingers,
         \/ /\ v.pinger = prober[t].pinger /\ v.peer = prober[t].peer
            /\ t \notin Scanners => prober[t].nth <= v.nth
         \/ v.pinger = 0 /\ v.peer = 0
         \/ v.pinger = pingers + 1 /\ pingers' = pingers + 1 /\ v.peer # 0,
         v.by <= Len(requests), v.req \in {prober[t].req, 0}, Ours(v),
         v.pc = "wait" =>
           /\ prober[t].pc = "wait" /\ v.by = 0 /\ v.req = prober[t].req
           /\ v.ip = prober[t].ip /\ v.pinger = prober[t].pinger
           /\ v.peer = prober[t].peer
  PROVE  ProbeInv'
<1>1. /\ prober'[t] = v /\ \A u \in Probers \ {t} : prober'[u] = prober[u]
      /\ \A u \in Probers : prober[u] \in ProberStates /\ prober'[u] \in ProberStates
      /\ pingers \in 0 .. MaxPingers /\ pingers' \in 0 .. MaxPingers
  BY DEF ProbeInv, ProbeTypeOK
<1>2. \A i \in 1 .. Len(requests) : requests[i] \in EchoRequests
  BY DEF ProbeInv, ProbeTypeOK
<1>3. ProbeTypeOK'
  BY <1>1 DEF ProbeInv, ProbeTypeOK
<1>4. RequestsInv'
  <2>1. \A i \in 1 .. Len(requests) : requests[i].pinger \in Nat /\ requests[i].pinger <= pingers'
    BY <1>1, <1>2 DEF ProbeInv, RequestsInv, EchoRequests
  <2> QED BY <2>1 DEF ProbeInv, RequestsInv, AsSeq
<1>5. AnswerIsOurs'
  <2>1. \A u \in Probers : Ours(prober[u])
    BY DEF ProbeInv, AnswerIsOurs, Ours
  <2>2. \A u \in Probers : Ours(prober[u])'
    BY <1>1, <2>1 DEF Ours
  <2> QED BY <2>2 DEF AnswerIsOurs, Ours
<1>6. ASSUME NEW u \in Probers PROVE ProberInv(u)'
  <2>0. /\ ProberInv(u) /\ ProberInv(t) /\ Len(requests) \in Nat
        /\ v.pinger \in Nat /\ v.peer \in Nat /\ v.nth \in Nat /\ prober[t].nth \in Nat
        /\ \A x \in Probers : prober[x].pinger \in Nat /\ prober[x].pinger <= pingers
    <3>1. \A x \in Probers : ProberInv(x)
      BY DEF ProbeInv
    <3>2. \A x \in Probers : prober[x].pinger \in Nat /\ prober[x].nth \in Nat
      BY <1>1, ProberFields
    <3>3. \A x \in Probers : prober[x].pinger <= pingers
      BY <3>1 DEF ProberInv
    <3>4. Len(requests) \in Nat
      BY DEF ProbeInv, ProbeTypeOK
    <3>5. v.pinger \in Nat /\ v.peer \in Nat /\ v.nth \in Nat
      BY DEF ProberStates
    <3> QED BY <3>1, <3>2, <3>3, <3>4, <3>5
  <2>1. \A i \in 1 .. Len(requests) :
          requests[i].pinger \in 1 .. pingers /\ requests[i].nth \in Nat
    BY <1>1, <1>2 DEF ProbeInv, RequestsInv, EchoRequests
  <2>2. CASE u = t
    <3>1. v.pinger <= pingers' /\ (v.peer = 0 <=> v.pinger = 0)
      BY <1>1, <2>0 DEF ProberInv
    <3>2. v.by <= Len(requests) /\ v.req <= Len(requests)
      BY <2>0 DEF ProberInv
    <3>3. \A x \in Probers : x # t /\ v.pinger # 0 => prober[x].pinger # v.pinger
      BY <1>1, <2>0 DEF ProberInv
    <3>4. \A i \in 1 .. Len(requests) :
            requests[i].pinger = v.pinger =>
              requests[i].ip = v.peer /\ (t \notin Scanners => requests[i].nth <= v.nth)
      <4> SUFFICES ASSUME NEW i \in 1 .. Len(requests), requests[i].pinger = v.pinger
                   PROVE  /\ requests[i].ip = v.peer
                          /\ t \notin Scanners => requests[i].nth <= v.nth
        OBVIOUS
      <4>1. v.pinger = prober[t].pinger /\ v.peer = prober[t].peer
            /\ (t \notin Scanners => prober[t].nth <= v.nth)
        BY <1>1, <2>0, <2>1
      <4>2. requests[i].ip = prober[t].peer
            /\ (t \notin Scanners => requests[i].nth <= prober[t].nth)
        BY <2>0, <4>1 DEF ProberInv
      <4> QED BY <2>0, <2>1, <4>1, <4>2
    <3>5. v.pc = "wait" =>
            /\ v.by = 0 /\ v.req # 0 /\ v.pinger # 0 /\ v.peer = v.ip
            /\ requests[v.req].pinger = v.pinger
            /\ \A i \in 1 .. Len(requests) : requests[i].pinger = v.pinger => i <= v.req
      BY <2>0 DEF ProberInv
    <3> QED BY <1>1, <2>2, <3>1, <3>2, <3>3, <3>4, <3>5 DEF ProberInv
  <2>3. CASE u # t
    <3>1. prober'[u] = prober[u] /\ prober[u].pinger <= pingers'
      BY <1>1, <2>0, <2>3
    <3>2. \A x \in Probers : x # u /\ prober[u].pinger # 0 => prober'[x].pinger # prober[u].pinger
      <4> SUFFICES ASSUME NEW x \in Probers, x # u, prober[u].pinger # 0
                   PROVE  prober'[x].pinger # prober[u].pinger
        OBVIOUS
      <4>1. prober[x].pinger # prober[u].pinger
        BY <2>0 DEF ProberInv
      <4>2. CASE x # t
        BY <1>1, <4>1, <4>2
      <4>3. CASE x = t
        BY <1>1, <2>0, <4>1, <4>3
      <4> QED BY <4>2, <4>3
    <3> QED BY <2>0, <3>1, <3>2 DEF ProberInv
  <2> QED BY <2>2, <2>3
<1> QED BY <1>3, <1>4, <1>5, <1>6 DEF ProbeInv

\* A request sent on the thread's own socket, with a number above those it
\* sent there before, preserves the invariant.
LEMMA SentStep ==
  ASSUME ProbeInv, NEW t \in Probers, NEW v \in ProberStates, NEW q \in EchoRequests,
         prober' = [prober EXCEPT ![t] = v], kernel' = kernel,
         requests' = Append(requests, q), Len(requests) < MaxRequests,
         pingers' \in pingers .. MaxPingers,
         q.pinger = v.pinger, q.ip = v.peer, q.nth = v.nth, q.seq = AsSeq(q.nth),
         v.pc = "wait", v.by = 0, v.req = Len(requests) + 1, v.peer = v.ip,
         \/ /\ v.pinger = prober[t].pinger /\ v.peer = prober[t].peer
            /\ t \notin Scanners /\ v.nth = prober[t].nth + 1
         \/ v.pinger = pingers + 1 /\ pingers' = pingers + 1
  PROVE  ProbeInv'
<1> DEFINE n == Len(requests)
           m == Len(requests')
<1>1. /\ prober'[t] = v /\ \A u \in Probers \ {t} : prober'[u] = prober[u]
      /\ \A u \in Probers : prober[u] \in ProberStates /\ prober'[u] \in ProberStates
      /\ pingers \in 0 .. MaxPingers /\ pingers' \in 0 .. MaxPingers
      /\ pingers <= pingers' /\ requests \in Seq(EchoRequests)
  BY DEF ProbeInv, ProbeTypeOK
<1>2. /\ n \in Nat /\ m = n + 1 /\ requests'[n + 1] = q
      /\ \A i \in 1 .. n : requests'[i] = requests[i] /\ requests[i] \in EchoRequests
      /\ requests' \in Seq(EchoRequests) /\ m <= MaxRequests
  BY <1>1
<1>3. ProbeTypeOK'
  BY <1>1, <1>2 DEF ProbeInv, ProbeTypeOK
<1>4. /\ q.pinger \in Nat /\ q.nth \in Nat /\ q.pinger # 0 /\ q.ip # 0 /\ q.ip \in Nat
      /\ q.pinger <= pingers'
      /\ \A i \in 1 .. n : /\ requests[i].pinger \in 1 .. pingers /\ requests[i].nth \in Nat
                           /\ requests[i].seq = AsSeq(requests[i].nth)
      /\ \A x \in Probers : ProberInv(x) /\ prober[x].pinger \in Nat /\ prober[x].pinger <= pingers
      /\ prober[t].nth \in Nat
  <2>1. /\ q.pinger \in Nat /\ q.nth \in Nat /\ q.pinger # 0 /\ q.ip # 0 /\ q.ip \in Nat
    BY DEF EchoRequests, Addresses
  <2>2. \A x \in Probers : ProberInv(x)
    BY DEF ProbeInv
  <2>3. \A x \in Probers : prober[x].pinger \in Nat /\ prober[x].nth \in Nat
    BY <1>1, ProberFields
  <2>4. \A x \in Probers : prober[x].pinger <= pingers
    BY <2>2 DEF ProberInv
  <2>5. q.pinger <= pingers'
    BY <1>1, <2>3, <2>4
  <2>6. \A i \in 1 .. n : /\ requests[i].pinger \in 1 .. pingers /\ requests[i].nth \in Nat
                          /\ requests[i].seq = AsSeq(requests[i].nth)
    <3> SUFFICES ASSUME NEW i \in 1 .. n
                 PROVE  /\ requests[i].pinger \in 1 .. pingers /\ requests[i].nth \in Nat
                        /\ requests[i].seq = AsSeq(requests[i].nth)
      OBVIOUS
    <3>1. requests[i].pinger \in 1 .. MaxPingers /\ requests[i].nth \in Nat
      BY <1>2 DEF EchoRequests
    <3>2. requests[i].pinger <= pingers /\ requests[i].seq = AsSeq(requests[i].nth)
      BY DEF ProbeInv, RequestsInv
    <3> QED BY <1>1, <3>1, <3>2
  <2> QED BY <2>1, <2>2, <2>3, <2>4, <2>5, <2>6
<1>5. \A i \in 1 .. n : requests[i].pinger = q.pinger =>
        requests[i].ip = q.ip /\ requests[i].nth < q.nth /\ t \notin Scanners
  <2> SUFFICES ASSUME NEW i \in 1 .. n, requests[i].pinger = q.pinger
               PROVE  requests[i].ip = q.ip /\ requests[i].nth < q.nth /\ t \notin Scanners
    OBVIOUS
  <2>1. /\ v.pinger = prober[t].pinger /\ v.peer = prober[t].peer
        /\ t \notin Scanners /\ v.nth = prober[t].nth + 1
    BY <1>1, <1>4
  <2>2. requests[i].ip = prober[t].peer /\ requests[i].nth <= prober[t].nth
    BY <1>4, <2>1 DEF ProberInv
  <2> QED BY <1>4, <2>1, <2>2
<1>kept. ASSUME NEW u \in Probers, u # t
         PROVE  prober'[u] = prober[u] /\ prober[u].by \in 0 .. n /\ prober[u].req \in 0 .. n
  <2>1. prober'[u] = prober[u] /\ prober[u] \in ProberStates
    BY <1>1, <1>kept
  <2>2. prober[u].by \in Nat /\ prober[u].req \in Nat
    BY <2>1, ProberFields
  <2>3. prober[u].by <= n /\ prober[u].req <= n
    BY <1>4 DEF ProberInv
  <2> QED BY <1>2, <2>1, <2>2, <2>3
<1>6. RequestsInv'
  <2>1. ASSUME NEW i \in 1 .. m
        PROVE  requests'[i].pinger <= pingers' /\ requests'[i].seq = AsSeq(requests'[i].nth)
    <3>1. CASE i \in 1 .. n
      BY <1>1, <1>2, <1>4, <3>1
    <3>2. CASE i = n + 1
      BY <1>2, <1>4, <3>2
    <3> QED BY <1>2, <3>1, <3>2
  <2>2. ASSUME NEW i \in 1 .. m, NEW j \in 1 .. m, i < j,
               requests'[i].pinger = requests'[j].pinger
        PROVE  requests'[i].nth < requests'[j].nth
    <3>0. i \in 1 .. n /\ requests'[i] = requests[i]
      BY <1>2, <2>2
    <3>1. CASE j \in 1 .. n
      BY <1>2, <2>2, <3>0, <3>1 DEF ProbeInv, RequestsInv
    <3>2. CASE j = n + 1
      BY <1>2, <1>5, <2>2, <3>0, <3>2
    <3> QED BY <1>2, <3>1, <3>2
  <2> QED BY <2>1, <2>2 DEF RequestsInv, AsSeq
<1>7. AnswerIsOurs'
  <2> SUFFICES ASSUME NEW u \in Probers PROVE Ours(prober[u])'
    BY DEF AnswerIsOurs, Ours
  <2>1. CASE u = t
    BY <1>1, <2>1 DEF Ours
  <2>2. CASE u # t
    <3>1. prober'[u] = prober[u] /\ prober[u].by \in 0 .. n /\ prober[u].req \in 0 .. n
      BY <1>kept, <2>2
    <3>2. Ours(prober[u])
      BY DEF ProbeInv, AnswerIsOurs, Ours
    <3>3. /\ prober[u].by # 0 => requests'[prober[u].by] = requests[prober[u].by]
          /\ prober[u].req # 0 => requests'[prober[u].req] = requests[prober[u].req]
      BY <1>2, <3>1
    <3> QED BY <3>1, <3>2, <3>3 DEF Ours
  <2> QED BY <2>1, <2>2
<1>8. ASSUME NEW u \in Probers PROVE ProberInv(u)'
  <2> DEFINE w == prober'[u]
  <2>1. CASE u = t
    <3>0. w = v
      BY <1>1, <2>1
    <3>1. \A x \in Probers : x # t => prober'[x].pinger # v.pinger
      BY <1>1, <1>4 DEF ProberInv
    <3>2. \A i \in 1 .. m : requests'[i].pinger = v.pinger =>
            requests'[i].ip = v.peer /\ (t \notin Scanners => requests'[i].nth <= v.nth)
      <4> SUFFICES ASSUME NEW i \in 1 .. m, requests'[i].pinger = v.pinger
                   PROVE  requests'[i].ip = v.peer /\ (t \notin Scanners => requests'[i].nth <= v.nth)
        OBVIOUS
      <4>1. CASE i \in 1 .. n
        BY <1>2, <1>4, <1>5, <4>1
      <4>2. CASE i = n + 1
        BY <1>2, <1>4, <4>2
      <4> QED BY <1>2, <4>1, <4>2
    <3>3. \A i \in 1 .. m : i <= v.req
      BY <1>2
    <3>4. v.req <= m /\ v.by <= m /\ v.req # 0 /\ requests'[v.req].pinger = v.pinger
      BY <1>2
    <3> HIDE DEF n
    <3> QED BY <1>4, <2>1, <3>0, <3>1, <3>2, <3>3, <3>4 DEF ProberInv
  <2>2. CASE u # t
    <3>1. prober'[u] = prober[u] /\ prober[u].by \in 0 .. n /\ prober[u].req \in 0 .. n
      BY <1>kept, <2>2
    <3>2. prober[u].pinger # q.pinger \/ prober[u].pinger = 0
      BY <1>1, <1>4, <2>2 DEF ProberInv
    <3>3. prober[u].pinger # q.pinger /\ prober[u].pinger <= pingers'
      BY <1>1, <1>4, <3>2
    <3>4. \A x \in Probers : x # u /\ prober[u].pinger # 0 => prober'[x].pinger # prober[u].pinger
      <4> SUFFICES ASSUME NEW x \in Probers, x # u, prober[u].pinger # 0
                   PROVE  prober'[x].pinger # prober[u].pinger
        OBVIOUS
      <4>1. CASE x # t
        BY <1>1, <1>4, <4>1 DEF ProberInv
      <4>2. CASE x = t
        BY <1>1, <3>3, <4>2
      <4> QED BY <4>1, <4>2
    <3>5. \A i \in 1 .. m : requests'[i].pinger = prober[u].pinger =>
            i \in 1 .. n /\ requests'[i] = requests[i]
      BY <1>2, <3>3
    <3>6. prober[u].req # 0 => requests'[prober[u].req] = requests[prober[u].req]
      BY <1>2, <3>1
    <3>7. prober[u].by <= m /\ prober[u].req <= m
      BY <1>2, <3>1
    <3> HIDE DEF n
    <3>8. \A i \in 1 .. m : requests'[i].pinger = prober[u].pinger =>
             /\ requests'[i].ip = prober[u].peer
             /\ u \notin Scanners => requests'[i].nth <= prober[u].nth
      BY <1>4, <3>5 DEF ProberInv, n
    <3>9. prober[u].pc = "wait" =>
            /\ prober[u].by = 0 /\ prober[u].req # 0 /\ prober[u].pinger # 0
            /\ prober[u].peer = prober[u].ip
            /\ requests'[prober[u].req].pinger = prober[u].pinger
            /\ \A i \in 1 .. m : requests'[i].pinger = prober[u].pinger => i <= prober[u].req
      BY <1>4, <3>5, <3>6 DEF ProberInv, n
    <3>10. prober[u].peer = 0 <=> prober[u].pinger = 0
      BY <1>4 DEF ProberInv
    <3> QED BY <3>1, <3>3, <3>4, <3>7, <3>8, <3>9, <3>10 DEF ProberInv
  <2> QED BY <2>1, <2>2
<1> QED BY <1>3, <1>6, <1>7, <1>8 DEF ProbeInv

\* A packet that matches the request awaited, after it reached the socket, is
\* about it, or about one a whole turn of a counter away.
LEMMA MatchIsOurs ==
  ASSUME ProbeInv, NEW t \in Probers, prober[t].pc = "wait", NEW p \in Reaching(t),
         Matches(t, p.about), NEW v \in ProberStates, v.by = p.about,
         v.req = prober[t].req, v.ip = prober[t].ip, v.res = p.what
  PROVE  Ours(v)
<1> DEFINE a == requests[p.about]
           q == requests[prober[t].req]
<1>1. /\ p.about \in 1 .. Len(requests) /\ prober[t].req \in 1 .. Len(requests)
      /\ IF kernel THEN p.what = "ok" /\ a.pinger = prober[t].pinger
         ELSE p.what = "ok" => a.ip = prober[t].peer
  <2>1. prober[t].req \in Nat /\ Len(requests) \in Nat /\ DOMAIN requests = 1 .. Len(requests)
    BY DEF ProbeInv, ProbeTypeOK, ProberStates
  <2> QED BY <2>1 DEF Reaching, ProbeInv, ProberInv
<1>2. /\ a \in EchoRequests /\ q \in EchoRequests
      /\ a.seq = AsSeq(a.nth) /\ q.seq = AsSeq(q.nth) /\ q.pinger = prober[t].pinger
      /\ prober[t].peer = prober[t].ip
  BY <1>1 DEF ProbeInv, ProbeTypeOK, RequestsInv, ProberInv
<1>3. /\ a.seq = q.seq
      /\ kernel \/ Ident(a.pinger) = Ident(q.pinger)
  BY <1>2 DEF Matches
<1>4. /\ a.nth \in Nat /\ q.nth \in Nat /\ a.pinger \in Nat /\ q.pinger \in Nat
  BY <1>2 DEF EchoRequests
<1>5. v.res = "ok" => a.ip = v.ip
  <2>1. CASE kernel
    BY <1>1, <1>2, <2>1 DEF ProbeInv, ProberInv
  <2>2. CASE ~kernel
    BY <1>1, <1>2, <2>2
  <2> QED BY <2>1, <2>2
<1>6. CASE a.pinger = q.pinger
  <2>1. CASE p.about = prober[t].req
    <3>1. v.res = "ok" \/ ~kernel
      BY <1>1
    <3>2. v.by = v.req
      BY <2>1
    <3> QED BY <1>5, <3>1, <3>2 DEF Ours
  <2>2. CASE p.about # prober[t].req
    <3>1. p.about < prober[t].req
      BY <1>1, <1>2, <1>6, <2>2 DEF ProbeInv, ProberInv
    <3>2. a.nth < q.nth
      BY <1>1, <1>6, <3>1 DEF ProbeInv, RequestsInv
    <3>3. a.nth % SeqSize = q.nth % SeqSize
      BY <1>2, <1>3 DEF AsSeq
    <3>4. q.nth - a.nth >= SeqSize
      BY <1>4, <3>2, <3>3, SameRemainder
    <3>5. v.res = "ok" \/ ~kernel
      BY <1>1
    <3> QED BY <1>5, <1>6, <3>4, <3>5 DEF Ours
  <2> QED BY <2>1, <2>2
<1>7. CASE a.pinger # q.pinger
  <2>1. ~kernel
    BY <1>1, <1>2, <1>7
  <2>2. a.pinger % IdentSize = q.pinger % IdentSize
    BY <1>3, <2>1 DEF Ident
  <2>3. Distance(a.pinger, q.pinger) >= IdentSize
    <3>1. CASE a.pinger < q.pinger
      <4>1. q.pinger - a.pinger >= IdentSize
        BY <1>4, <2>2, <3>1, SameRemainder
      <4> QED BY <3>1, <4>1 DEF Distance
    <3>2. CASE q.pinger < a.pinger
      <4>1. a.pinger - q.pinger >= IdentSize
        BY <1>4, <2>2, <3>2, SameRemainder
      <4> QED BY <1>4, <3>2, <4>1 DEF Distance
    <3> QED BY <1>4, <1>7, <3>1, <3>2
  <2> QED BY <1>5, <1>7, <2>1, <2>3 DEF Ours
<1> QED BY <1>6, <1>7

\* A result about no request, or an error of the kernel about a request of
\* this socket, preserves the invariant.
LEMMA SettleStep ==
  ASSUME ProbeInv, NEW t \in Probers, NEW w \in ProberStates,
         \/ /\ w.pinger = prober[t].pinger /\ w.peer = prober[t].peer
            /\ t \notin Scanners => prober[t].nth <= w.nth
         \/ w.pinger = pingers + 1 /\ pingers' = pingers + 1 /\ w.peer # 0,
         w.req = prober[t].req, pingers' \in pingers .. MaxPingers,
         NEW r \in Results, NEW b \in 0 .. Len(requests),
         Ours(Settle(t, w, r, b)) \/ b = 0 \/ (kernel /\ r # "ok" /\ requests[b].pinger = w.pinger),
         prober' = [prober EXCEPT ![t] = Settle(t, w, r, b)],
         UNCHANGED <<kernel, requests>>
  PROVE  ProbeInv'
<1> DEFINE v == Settle(t, w, r, b)
<1>1. b \in 0 .. MaxRequests /\ Len(requests) \in Nat
  BY DEF ProbeInv, ProbeTypeOK
<1>2. /\ v \in ProberStates /\ v.pc = "idle"
      /\ \/ /\ v.pinger = w.pinger /\ v.peer = w.peer /\ v.nth = w.nth
            /\ v.req = w.req /\ v.ip = w.ip /\ v.by = b
            /\ v.res = IF b = 0 THEN "none" ELSE r
         \/ v.pinger = 0 /\ v.peer = 0 /\ v.req = 0 /\ v.by = 0
  BY <1>1, SettledState
<1>3. Ours(v)
  <2>1. CASE v.by = 0
    BY <2>1 DEF Ours
  <2>2. CASE v.by # 0 /\ (b = 0 \/ Ours(v))
    BY <1>2, <2>2
  <2>3. CASE v.by # 0 /\ b # 0 /\ kernel /\ r # "ok" /\ requests[b].pinger = w.pinger
    BY <1>2, <2>3 DEF Ours
  <2> QED BY <2>1, <2>2, <2>3
<1>4. v.by <= Len(requests) /\ v.req \in {prober[t].req, 0}
  BY <1>1, <1>2
<1>5. prober' = [prober EXCEPT ![t] = v]
  OBVIOUS
<1> HIDE DEF v
<1> QED BY <1>1, <1>2, <1>3, <1>4, <1>5, OwnStep

\* Every step preserves the invariant.
LEMMA ProbeStep == ProbeInv /\ [ProbeNext]_probeVars => ProbeInv'
<1> SUFFICES ASSUME ProbeInv, [ProbeNext]_probeVars PROVE ProbeInv'
  OBVIOUS
<1>1. CASE UNCHANGED probeVars
  BY <1>1 DEF probeVars, ProbeInv, ProbeTypeOK, RequestsInv, AnswerIsOurs, ProberInv, AsSeq
<1>2. ASSUME NEW t \in Probers, ProbeNext,
             \/ SpawnProber(t) \/ Receive(t) \/ ReceiveFails(t) \/ Clock(t)
             \/ \E a \in Addresses : OpenFails(t, a) \/ SendRequest(t, a)
      PROVE  ProbeInv'
  <2>0. /\ prober[t] \in ProberStates /\ prober \in [Probers -> ProberStates]
        /\ pingers \in 0 .. MaxPingers /\ Len(requests) \in Nat
        /\ Len(requests) <= MaxRequests /\ DOMAIN requests = 1 .. Len(requests)
        /\ ProberInv(t) /\ ProbeTypeOK
    BY DEF ProbeInv, ProbeTypeOK
  <2>f. /\ prober[t].nth \in Nat /\ prober[t].req \in Nat /\ prober[t].by \in Nat
        /\ prober[t].nth <= prober[t].nth /\ pingers \in pingers .. MaxPingers
    <3>1. prober[t].nth \in Nat /\ prober[t].req \in Nat /\ prober[t].by \in Nat
      BY <2>0, ProberFields
    <3> QED BY <2>0, <3>1
  <2>1. CASE SpawnProber(t)
    <3>1. PICK a \in 0 .. HostCount :
            prober' = [prober EXCEPT ![t] = [NoProber EXCEPT !.on = TRUE, !.ip = a]]
      <4>1. (IF t \in Scanners THEN {0} ELSE Addresses) \subseteq 0 .. HostCount
        BY DEF Addresses
      <4> QED BY <2>1, <4>1 DEF SpawnProber
    <3> DEFINE v == [NoProber EXCEPT !.on = TRUE, !.ip = a]
    <3>2. /\ v \in ProberStates /\ v.pinger = 0 /\ v.peer = 0 /\ v.by = 0 /\ v.req = 0
          /\ v.pc = "idle"
      <4>1. NoProber \in ProberStates
        BY DEF NoProber, ProberStates, Results
      <4> QED BY <4>1 DEF NoProber, ProberStates, Results
    <3>3. prober' = [prober EXCEPT ![t] = v]
      BY <3>1
    <3> HIDE DEF v
    <3>4. Ours(v) /\ v.by <= Len(requests)
      BY <2>0, <3>2 DEF Ours
    <3>5. kernel' = kernel /\ requests' = requests /\ pingers' \in pingers .. MaxPingers
      BY <2>0, <2>1 DEF SpawnProber
    <3> QED BY <3>2, <3>3, <3>4, <3>5, OwnStep
  <2>2. CASE Receive(t)
    <3>1. PICK p \in Reaching(t) :
            prober' = [prober EXCEPT ![t] = IF Matches(t, p.about)
                         THEN Settle(t, @, p.what, p.about) ELSE @]
      BY <2>2 DEF Receive
    <3>2. /\ p.about \in 0 .. Len(requests) /\ p.about # 0 /\ p.what \in Results
          /\ p.about \in 0 .. MaxRequests
      BY <2>0 DEF Reaching, Results
    <3>3. prober[t].pc = "wait" /\ UNCHANGED <<kernel, requests, pingers>>
      BY <2>2 DEF Receive
    <3>4. CASE Matches(t, p.about)
      <4> DEFINE v == Settle(t, prober[t], p.what, p.about)
      <4>1. prober' = [prober EXCEPT ![t] = v]
        BY <2>0, <3>1, <3>4
      <4>2. /\ v \in ProberStates
            /\ \/ /\ v.req = prober[t].req /\ v.ip = prober[t].ip
                  /\ v.by = p.about /\ v.res = p.what
               \/ v.by = 0
        BY <2>0, <3>2, SettledState
      <4>3. Ours(v)
        <5> HIDE DEF v
        <5>1. CASE v.by = 0
          BY <5>1 DEF Ours
        <5>2. CASE v.by # 0
          BY <3>3, <3>4, <4>2, <5>2, MatchIsOurs
        <5> QED BY <5>1, <5>2
      <4> QED BY <2>0, <2>f, <3>2, <3>3, <4>1, <4>3, SettleStep
    <3>5. CASE ~Matches(t, p.about)
      <4>1. prober' = prober
        BY <2>0, <3>1, <3>5
      <4> QED BY <1>1, <3>3, <4>1 DEF probeVars
    <3> QED BY <3>4, <3>5
  <2>3. CASE ReceiveFails(t)
    <3>1. /\ prober[t].pc = "wait" /\ UNCHANGED <<kernel, requests, pingers>>
          /\ \/ prober' = [prober EXCEPT ![t] = Settle(t, prober[t], "other", 0)]
             \/ /\ kernel
                /\ \E b \in 1 .. Len(requests), r \in {"lost", "toobig", "other"} :
                     /\ requests[b].pinger = prober[t].pinger
                     /\ prober' = [prober EXCEPT ![t] = Settle(t, prober[t], r, b)]
      BY <2>0, <2>3 DEF ReceiveFails
    <3>2. PICK r \in Results \ {"ok"}, b \in 0 .. Len(requests) :
            /\ b = 0 \/ (kernel /\ requests[b].pinger = prober[t].pinger)
            /\ prober' = [prober EXCEPT ![t] = Settle(t, prober[t], r, b)]
      BY <2>0, <3>1 DEF Results
    <3> QED BY <2>0, <2>f, <3>1, <3>2, SettleStep
  <2>4. CASE Clock(t)
    <3> DEFINE v == [prober[t] EXCEPT !.left = prober[t].left - 1]
    <3>1. /\ prober[t].pc = "wait" /\ UNCHANGED <<kernel, requests, pingers>>
          /\ prober' = [prober EXCEPT ![t] = IF prober[t].left = 0
                          THEN Settle(t, prober[t], "lost", 0) ELSE v]
      BY <2>0, <2>4 DEF Clock
    <3>2. CASE prober[t].left # 0
      <4>1. prober' = [prober EXCEPT ![t] = v]
        BY <3>1, <3>2
      <4>2. prober[t].left - 1 \in 0 .. Slices
        BY <2>0, <3>2 DEF ProberStates
      <4>3. /\ v \in ProberStates /\ v.pinger = prober[t].pinger /\ v.peer = prober[t].peer
            /\ v.nth = prober[t].nth /\ v.req = prober[t].req /\ v.by = prober[t].by
            /\ v.ip = prober[t].ip
        BY <2>0, <4>2 DEF ProberStates
      <4>4. v.by = 0
        BY <2>0, <3>1, <4>3 DEF ProberInv
      <4> HIDE DEF v
      <4>5. Ours(v) /\ pingers' \in pingers .. MaxPingers
        BY <2>0, <3>1, <4>4 DEF Ours
      <4>6. v.by <= Len(requests) /\ kernel' = kernel /\ requests' = requests
        BY <2>0, <3>1, <4>4
      <4>7. v.req \in {prober[t].req, 0} /\ (t \notin Scanners => prober[t].nth <= v.nth)
        BY <2>f, <4>3
      <4> QED BY <3>1, <4>1, <4>3, <4>4, <4>5, <4>6, <4>7, OwnStep
    <3>3. CASE prober[t].left = 0
      <4>1. prober' = [prober EXCEPT ![t] = Settle(t, prober[t], "lost", 0)]
        BY <3>1, <3>3
      <4>2. "lost" \in Results /\ 0 \in 0 .. Len(requests)
        BY <2>0 DEF Results
      <4> QED BY <2>0, <2>f, <3>1, <4>1, <4>2, SettleStep
    <3> QED BY <3>2, <3>3
  <2>5. ASSUME NEW a \in Addresses, OpenFails(t, a) PROVE ProbeInv'
    <3> DEFINE w == Numbered(t, a)
    <3>1. /\ w \in ProberStates /\ w.pinger = prober[t].pinger /\ w.peer = prober[t].peer
          /\ w.req = prober[t].req /\ w.nth = IF t \in Scanners THEN a ELSE prober[t].nth + 1
      BY <2>0, NumberedState
    <3>2. /\ prober' = [prober EXCEPT ![t] = Settle(t, w, "other", 0)]
          /\ UNCHANGED <<kernel, requests, pingers>>
      BY <2>5 DEF OpenFails
    <3>3. "other" \in Results /\ 0 \in 0 .. Len(requests)
      BY <2>0 DEF Results
    <3> HIDE DEF w
    <3>4. t \notin Scanners => prober[t].nth <= w.nth
      BY <2>f, <3>1
    <3> QED BY <2>f, <3>1, <3>2, <3>3, <3>4, SettleStep
  <2>6. ASSUME NEW a \in Addresses, SendRequest(t, a) PROVE ProbeInv'
    <3> DEFINE w == Socket(Numbered(t, a), a)
               q == [pinger |-> w.pinger, ip |-> w.peer, seq |-> AsSeq(w.nth), nth |-> w.nth]
    <3>1. /\ Turn(t, a) /\ Len(requests) < MaxRequests /\ w.pinger <= MaxPingers
          /\ pingers' = IF w.pinger > pingers THEN w.pinger ELSE pingers
          /\ kernel' = kernel
      BY <2>6 DEF SendRequest
    <3>2. /\ w \in ProberStates /\ w.by = 0 /\ w.res = "none" /\ w.ip = a /\ w.peer = a
          /\ w.nth = IF t \in Scanners THEN a ELSE prober[t].nth + 1
          /\ w.req = prober[t].req /\ w.pc = prober[t].pc
          /\ w.pinger = IF prober[t].peer = a THEN prober[t].pinger ELSE pingers + 1
      <4> DEFINE y == Numbered(t, a)
      <4>1. /\ y \in ProberStates /\ y.by = 0 /\ y.res = "none" /\ y.ip = a
            /\ y.pinger = prober[t].pinger /\ y.peer = prober[t].peer
            /\ y.req = prober[t].req /\ y.pc = prober[t].pc
            /\ y.nth = IF t \in Scanners THEN a ELSE prober[t].nth + 1
        BY <2>0, NumberedState
      <4>2. Socket(y, a).pinger <= MaxPingers
        BY <3>1
      <4> HIDE DEF y
      <4>3. LET v == Socket(y, a)
            IN  /\ v \in ProberStates /\ v.by = y.by /\ v.res = y.res /\ v.ip = y.ip
                /\ v.nth = y.nth /\ v.req = y.req /\ v.pc = y.pc /\ v.peer = a
                /\ v.pinger = IF y.peer = a THEN y.pinger ELSE pingers + 1
        BY <2>0, <4>1, <4>2, SocketState
      <4>4. w = Socket(y, a)
        BY DEF y
      <4> HIDE DEF w
      <4> QED BY <4>1, <4>3, <4>4
    <3>3. a \in 1 .. HostCount /\ prober[t].pinger <= pingers /\ prober[t].pc = "idle"
          /\ (t \in Scanners => prober[t].peer # a)
      BY <2>0, <3>1 DEF Addresses, ProberInv, Turn
    <3>4. /\ \/ /\ w.pinger = prober[t].pinger /\ w.peer = prober[t].peer
                /\ t \notin Scanners /\ w.nth = prober[t].nth + 1 /\ pingers' = pingers
             \/ w.pinger = pingers + 1 /\ pingers' = pingers + 1 /\ w.peer # 0
          /\ pingers' \in pingers .. MaxPingers /\ w.nth \in Nat /\ w.pinger \in 1 .. MaxPingers
      <4> HIDE DEF w
      <4>1. prober[t].pinger # 0 \/ prober[t].peer = 0
        BY <2>0, ProberFields DEF ProberInv
      <4>2. w.pinger \in Nat /\ w.nth \in Nat /\ prober[t].pinger \in Nat
        BY <2>0, <3>2, ProberFields
      <4>3. CASE prober[t].peer = a
        BY <2>0, <3>1, <3>2, <3>3, <4>1, <4>2, <4>3
      <4>4. CASE prober[t].peer # a
        BY <2>0, <3>1, <3>2, <3>3, <4>2, <4>4
      <4> QED BY <4>3, <4>4
    <3>5. CASE /\ requests' = Append(requests, q)
               /\ prober' = [prober EXCEPT ![t] = [w EXCEPT !.pc = "wait",
                               !.req = Len(requests) + 1, !.left = Slices]]
      <4> DEFINE v == [w EXCEPT !.pc = "wait", !.req = Len(requests) + 1, !.left = Slices]
      <4> HIDE DEF w
      <4>1. Len(requests) + 1 \in 0 .. MaxRequests /\ Slices \in 0 .. Slices
        BY <2>0, <3>1
      <4>2. /\ v \in ProberStates /\ v.by = 0 /\ v.ip = w.ip /\ v.peer = w.peer
            /\ v.nth = w.nth /\ v.pinger = w.pinger /\ v.req = Len(requests) + 1
            /\ v.pc = "wait"
        BY <3>2, <4>1 DEF ProberStates
      <4>3. w.nth % SeqSize \in 0 .. SeqSize - 1
        BY <3>4
      <4>4. /\ q \in EchoRequests /\ q.pinger = v.pinger /\ q.ip = v.peer /\ q.nth = v.nth
            /\ q.seq = AsSeq(q.nth)
        BY <3>2, <3>3, <3>4, <4>2, <4>3 DEF EchoRequests, Addresses, AsSeq
      <4>5. /\ prober' = [prober EXCEPT ![t] = v] /\ requests' = Append(requests, q)
        BY <3>5
      <4> HIDE DEF v, q
      <4>6. \/ /\ v.pinger = prober[t].pinger /\ v.peer = prober[t].peer
               /\ t \notin Scanners /\ v.nth = prober[t].nth + 1
            \/ v.pinger = pingers + 1 /\ pingers' = pingers + 1
        BY <3>4, <4>2
      <4>7. v.peer = v.ip
        BY <3>2, <4>2
      <4> QED BY <3>1, <3>4, <4>2, <4>4, <4>5, <4>6, <4>7, SentStep
    <3>6. ASSUME NEW r \in {"lost", "toobig", "other"}, NEW b \in 0 .. Len(requests),
                 b = 0 \/ (kernel /\ requests[b].pinger = w.pinger),
                 prober' = [prober EXCEPT ![t] = Settle(t, w, r, b)], requests' = requests
          PROVE  ProbeInv'
      <4> HIDE DEF w
      <4>1. r \in Results /\ r # "ok"
        BY DEF Results
      <4>2. \/ /\ w.pinger = prober[t].pinger /\ w.peer = prober[t].peer
               /\ t \notin Scanners => prober[t].nth <= w.nth
            \/ w.pinger = pingers + 1 /\ pingers' = pingers + 1 /\ w.peer # 0
        BY <2>f, <3>4
      <4> QED BY <3>1, <3>2, <3>4, <3>6, <4>1, <4>2, SettleStep
    <3>7. \/ /\ requests' = Append(requests, q)
             /\ prober' = [prober EXCEPT ![t] = [w EXCEPT !.pc = "wait",
                             !.req = Len(requests) + 1, !.left = Slices]]
          \/ \E r \in {"lost", "toobig", "other"}, b \in 0 .. Len(requests) :
               /\ b = 0 \/ (kernel /\ requests[b].pinger = w.pinger)
               /\ prober' = [prober EXCEPT ![t] = Settle(t, w, r, b)] /\ requests' = requests
      <4>1. 0 \in 0 .. Len(requests) /\ DOMAIN requests \subseteq 0 .. Len(requests)
        BY <2>0
      <4>2. \/ /\ requests' = Append(requests, q)
               /\ prober' = [prober EXCEPT ![t] = [w EXCEPT !.pc = "wait",
                               !.req = Len(requests) + 1, !.left = Slices]]
            \/ /\ \E r \in {"lost", "toobig", "other"} :
                    prober' = [prober EXCEPT ![t] = Settle(t, w, r, 0)]
               /\ requests' = requests
            \/ /\ kernel
               /\ \E r \in {"lost", "toobig", "other"}, b \in DOMAIN requests :
                    /\ requests[b].pinger = w.pinger
                    /\ prober' = [prober EXCEPT ![t] = Settle(t, w, r, b)]
               /\ requests' = requests
        BY <2>6 DEF SendRequest
      <4> HIDE DEF w, q
      <4> QED BY <4>1, <4>2
    <3> HIDE DEF w, q
    <3> QED BY <3>5, <3>6, <3>7
  <2> QED BY <1>2, <2>1, <2>2, <2>3, <2>4, <2>5, <2>6
<1> QED BY <1>1, <1>2 DEF ProbeNext

\* The invariant holds at the start.
LEMMA ProbeStart == ProbeInit => ProbeInv
<1> SUFFICES ASSUME ProbeInit PROVE ProbeInv
  OBVIOUS
<1>1. NoProber \in ProberStates /\ Len(requests) = 0
  BY DEF ProbeInit, NoProber, ProberStates, Results
<1>2. ProbeTypeOK
  BY <1>1 DEF ProbeInit, ProbeTypeOK
<1>3. RequestsInv
  BY <1>1 DEF RequestsInv
<1>4. AnswerIsOurs
  BY DEF ProbeInit, AnswerIsOurs, NoProber
<1>5. ASSUME NEW t \in Probers PROVE ProberInv(t)
  BY <1>1 DEF ProbeInit, ProberInv, NoProber
<1> QED BY <1>2, <1>3, <1>4, <1>5 DEF ProbeInv

-----------------------------------------------------------------------------
(* The theorems.                                                           *)

\* Sockets have one owner and one address, and number their requests upwards,
\* in every state of every thread (Backend::ping, Pinger::ping).
THEOREM ProbeInvariant == ProbeSpec => []ProbeInv
<1>1. ProbeInit => ProbeInv
  BY ProbeStart
<1>2. ProbeInv /\ [ProbeNext]_probeVars => ProbeInv'
  BY ProbeStep
<1> QED BY <1>1, <1>2, PTL DEF ProbeSpec

\* Type correctness of the probes.
THEOREM ProbeTypeCorrect == ProbeSpec => []ProbeTypeOK
<1>1. ProbeInv => ProbeTypeOK
  BY DEF ProbeInv
<1> QED BY <1>1, ProbeInvariant, PTL

\* A result is about the request awaited, however late, often or in what order
\* packets come in, save one that a whole turn of the sequence numbers or of
\* the identifiers lies between (Pinger::ping, classify, AnswerIsOurs).
THEOREM AnswersAreOurs == ProbeSpec => []AnswerIsOurs
<1>1. ProbeInv => AnswerIsOurs
  BY DEF ProbeInv
<1> QED BY <1>1, ProbeInvariant, PTL
=============================================================================
