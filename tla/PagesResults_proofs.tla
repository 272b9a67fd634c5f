------------------------ MODULE PagesResults_proofs ------------------------
(***************************************************************************)
(* What the pages of Pages show: the answers of a DNS run are complete and *)
(* in order, the vendors are those of the last lookup of the whole table,  *)
(* and everything has its type.                                            *)
(*                                                                         *)
(* A result is with its thread, in the channel or on its page.  The proofs *)
(* take page and channel as one sequence, of which a drain moves only the  *)
(* border; the laws of Kept say so.  A thread appends to it the next       *)
(* result it owes.                                                         *)
(***************************************************************************)
EXTENDS Pages_proofs, FiniteSetTheorems, WellFoundedInduction

-----------------------------------------------------------------------------
(* What a drain takes from the channel.  Kept is recursive, so its laws are *)
(* proved from the smallest place at which they could fail.                *)

\* A set of naturals that is not empty has a smallest member.
LEMMA Smallest ==
  ASSUME NEW S \in SUBSET Nat, S # {}
  PROVE  \E m \in S : \A k \in S : m <= k
<1> DEFINE R == OpToRel(<, Nat)
<1>1. IsWellFoundedOn(R, Nat)
  BY NatLessThanWellFounded
<1>2. \A x, y \in Nat : x < y => <<x, y>> \in R
  BY DEF OpToRel
<1> HIDE DEF R
<1>3. PICK x \in S : \A y \in S : ~(<<y, x>> \in R)
  BY <1>1, WFMin
<1>4. \A y \in S : x <= y
  <2> TAKE y \in S
  <2>1. x \in Nat /\ y \in Nat /\ ~(y < x)
    BY <1>2, <1>3
  <2> QED BY <2>1
<1> QED BY <1>4

\* So a property of naturals, as a set, that each gets from the one before holds
\* of all up to a bound.
LEMMA UpTo ==
  ASSUME NEW l \in Nat, NEW P, 0 \in P,
         \A n \in 1 .. l : n - 1 \in P => n \in P
  PROVE  \A n \in 0 .. l : n \in P
<1> DEFINE S == (0 .. l) \ P
<1> SUFFICES ASSUME S # {} PROVE FALSE
  OBVIOUS
<1>1. PICK m \in S : \A k \in S : m <= k
  <2>1. S \in SUBSET Nat
    OBVIOUS
  <2> HIDE DEF S
  <2> QED BY <2>1, Smallest
<1>2. m \in 1 .. l /\ m - 1 \in 0 .. l
  BY <1>1
<1>3. m - 1 \in P
  BY <1>1, <1>2
<1> QED BY <1>1, <1>2, <1>3

\* What is kept of the first n events, from what is kept of those before.
KeptNext(f, s, E, n) ==
  IF n = 0 THEN <<>> ELSE IF s[n] \in E THEN Append(f[n - 1], s[n]) ELSE f[n - 1]

\* The recursion of Kept has a solution.
LEMMA KeptExists ==
  ASSUME NEW s, NEW E, NEW l \in Nat
  PROVE  \E f : f = [n \in 0 .. l |-> KeptNext(f, s, E, n)]
<1> DEFINE P == {k \in Nat : \E f : f = [n \in 0 .. k |-> KeptNext(f, s, E, n)]}
<1>1. 0 \in P
  <2> DEFINE f == [n \in 0 .. 0 |-> <<>>]
  <2>1. f = [n \in 0 .. 0 |-> KeptNext(f, s, E, n)]
    BY DEF KeptNext
  <2> QED BY <2>1
<1>2. ASSUME NEW k \in 1 .. l, k - 1 \in P
      PROVE  k \in P
  <2>1. PICK g : g = [n \in 0 .. k - 1 |-> KeptNext(g, s, E, n)]
    BY <1>2
  <2> DEFINE f == [n \in 0 .. k |-> IF n = k THEN KeptNext(g, s, E, k) ELSE g[n]]
  <2>2. \A n \in 0 .. k - 1 : f[n] = g[n]
    OBVIOUS
  <2>3. \A n \in 0 .. k : KeptNext(f, s, E, n) = KeptNext(g, s, E, n)
    <3> TAKE n \in 0 .. k
    <3>1. n # 0 => n - 1 \in 0 .. k - 1
      OBVIOUS
    <3> HIDE DEF f
    <3> QED BY <2>2, <3>1 DEF KeptNext
  <2>4. \A n \in 0 .. k - 1 : g[n] = KeptNext(g, s, E, n)
    BY <2>1
  <2>5. \A n \in 0 .. k : f[n] = KeptNext(g, s, E, n)
    <3> TAKE n \in 0 .. k
    <3>1. n = k \/ n \in 0 .. k - 1
      OBVIOUS
    <3> QED BY <2>4, <3>1
  <2>6. f = [n \in 0 .. k |-> f[n]]
    OBVIOUS
  <2>7. f = [n \in 0 .. k |-> KeptNext(f, s, E, n)]
    <3> HIDE DEF f
    <3> QED BY <2>3, <2>5, <2>6
  <2>8. \E h : h = [n \in 0 .. k |-> KeptNext(h, s, E, n)]
    <3> HIDE DEF f
    <3> QED BY <2>7
  <2>9. k \in Nat
    OBVIOUS
  <2> QED BY <2>8, <2>9
<1> HIDE DEF P
<1>3. l \in P
  BY <1>1, <1>2, UpTo
<1> QED BY <1>3 DEF P

\* What is kept is the value at the end of a solution.
LEMMA KeptSolution ==
  ASSUME NEW s, NEW E, Len(s) \in Nat
  PROVE  \E f : /\ \A n \in 0 .. Len(s) : f[n] = KeptNext(f, s, E, n)
                /\ Kept(s, E) = f[Len(s)]
<1> DEFINE F == CHOOSE f : f = [n \in 0 .. Len(s) |-> KeptNext(f, s, E, n)]
<1>1. F = [n \in 0 .. Len(s) |-> KeptNext(F, s, E, n)]
  <2>1. \E f : f = [n \in 0 .. Len(s) |-> KeptNext(f, s, E, n)]
    BY KeptExists
  <2> QED BY <2>1
<1>2. Kept(s, E) = F[Len(s)]
  BY DEF Kept, KeptNext
<1> HIDE DEF F
<1>3. \A n \in 0 .. Len(s) : F[n] = KeptNext(F, s, E, n)
  BY <1>1
<1> QED BY <1>2, <1>3

\* Of nothing, nothing is kept.
LEMMA KeptNone == \A E : Kept(<<>>, E) = <<>>
<1> TAKE E
<1>1. Len(<<>>) = 0
  OBVIOUS
<1>2. PICK f : /\ \A n \in 0 .. Len(<<>>) : f[n] = KeptNext(f, <<>>, E, n)
               /\ Kept(<<>>, E) = f[Len(<<>>)]
  BY <1>1, KeptSolution
<1>3. f[0] = KeptNext(f, <<>>, E, 0)
  BY <1>1, <1>2
<1> QED BY <1>1, <1>2, <1>3 DEF KeptNext

\* Every event kept is one of s and of E, and some are if there are any.
LEMMA KeptTypes ==
  ASSUME NEW s, Len(s) \in Nat, NEW E
  PROVE  /\ Kept(s, E) \in Seq({s[i] : i \in 1 .. Len(s)} \cap E)
         /\ Kept(s, E) = <<>> <=> \A i \in 1 .. Len(s) : s[i] \notin E
<1> DEFINE T == {s[i] : i \in 1 .. Len(s)} \cap E
<1>1. PICK f : /\ \A n \in 0 .. Len(s) : f[n] = KeptNext(f, s, E, n)
               /\ Kept(s, E) = f[Len(s)]
  BY KeptSolution
<1> DEFINE P == {n \in Nat : /\ f[n] \in Seq(T)
                             /\ f[n] = <<>> <=> \A i \in 1 .. n : s[i] \notin E}
<1>2. 0 \in P
  <2>1. f[0] = <<>>
    BY <1>1 DEF KeptNext
  <2>2. 1 .. 0 = {}
    OBVIOUS
  <2> QED BY <2>1, <2>2, EmptySeq
<1>3. ASSUME NEW n \in 1 .. Len(s), n - 1 \in P
      PROVE  n \in P
  <2> DEFINE g == f[n - 1]
  <2>1. g \in Seq(T) /\ (g = <<>> <=> \A i \in 1 .. n - 1 : s[i] \notin E)
    BY <1>3
  <2>2. f[n] = IF s[n] \in E THEN Append(g, s[n]) ELSE g
    BY <1>1 DEF KeptNext
  <2>3. 1 .. n = (1 .. n - 1) \cup {n}
    OBVIOUS
  <2>4. n \in Nat
    OBVIOUS
  <2>5. CASE s[n] \in E
    <3>1. s[n] \in T
      BY <2>5
    <3> HIDE DEF T, g
    <3>2. f[n] \in Seq(T) /\ f[n] # <<>>
      BY <2>1, <2>2, <2>5, <3>1, AppendProperties, EmptySeq
    <3> QED BY <2>3, <2>4, <2>5, <3>2
  <2>6. CASE s[n] \notin E
    <3> HIDE DEF T, g
    <3> QED BY <2>1, <2>2, <2>3, <2>4, <2>6
  <2> QED BY <2>5, <2>6
<1> HIDE DEF P
<1>4. \A n \in 0 .. Len(s) : n \in P
  BY <1>2, <1>3, UpTo
<1>5. Len(s) \in P
  BY <1>4
<1> QED BY <1>1, <1>5 DEF P

\* One more event is kept or not, behind what was kept.
LEMMA KeptMore ==
  ASSUME NEW s, Len(s) \in Nat, NEW t, Len(t) = Len(s) + 1,
         \A i \in 1 .. Len(s) : t[i] = s[i], NEW E
  PROVE  Kept(t, E) = IF t[Len(t)] \in E THEN Append(Kept(s, E), t[Len(t)])
                      ELSE Kept(s, E)
<1> DEFINE l == Len(s)
<1>1. PICK f : /\ \A n \in 0 .. l : f[n] = KeptNext(f, s, E, n)
               /\ Kept(s, E) = f[l]
  BY KeptSolution
<1>2. PICK g : /\ \A n \in 0 .. l + 1 : g[n] = KeptNext(g, t, E, n)
               /\ Kept(t, E) = g[l + 1]
  BY KeptSolution
<1> DEFINE P == {n \in Nat : g[n] = f[n]}
<1>3. 0 \in P
  BY <1>1, <1>2 DEF KeptNext
<1>4. ASSUME NEW n \in 1 .. l, n - 1 \in P
      PROVE  n \in P
  <2>1. g[n] = KeptNext(g, t, E, n) /\ f[n] = KeptNext(f, s, E, n)
    BY <1>1, <1>2
  <2>2. g[n - 1] = f[n - 1] /\ t[n] = s[n] /\ n \in Nat
    BY <1>4
  <2>3. g[n] = f[n]
    BY <2>1, <2>2 DEF KeptNext
  <2> QED BY <2>2, <2>3
<1> HIDE DEF P
<1>5. l \in P
  BY <1>3, <1>4, UpTo
<1>6. g[l] = f[l]
  BY <1>5 DEF P
<1>7. g[l + 1] = KeptNext(g, t, E, l + 1) /\ l + 1 # 0 /\ (l + 1) - 1 = l
  BY <1>2
<1> QED BY <1>1, <1>2, <1>6, <1>7 DEF KeptNext

-----------------------------------------------------------------------------
(* The bounds of the model.                                                *)

\* A finite set of naturals that is not empty has a greatest member.
LEMMA Greatest ==
  ASSUME NEW S \in SUBSET Nat, IsFiniteSet(S), S # {}
  PROVE  Max(S) \in S /\ \A x \in S : x <= Max(S)
<1>0. PICK n \in Nat : ExistsSurjection(1 .. n, S)
  BY FS_NatSurjection
<1>1. PICK f \in [1 .. n -> S] : \A x \in S : \E k \in 1 .. n : f[k] = x
  BY <1>0 DEF ExistsSurjection, Surjection
<1> DEFINE P == {k \in Nat : \E b \in Nat : \A j \in 1 .. k : j <= n => f[j] <= b}
<1>2. 0 \in P
  OBVIOUS
<1>3. ASSUME NEW k \in 1 .. n, k - 1 \in P
      PROVE  k \in P
  <2>1. PICK b \in Nat : \A j \in 1 .. k - 1 : j <= n => f[j] <= b
    BY <1>3
  <2>2. f[k] \in S /\ f[k] \in Nat /\ k \in Nat
    <3> HIDE DEF P
    <3>1. f[k] \in S
      OBVIOUS
    <3>2. k \in Nat
      OBVIOUS
    <3> QED BY <3>1, <3>2
  <2>3. PICK c \in Nat : f[k] <= c /\ b <= c
    BY <2>2
  <2>4. \A j \in 1 .. k : j <= n => f[j] <= c
    <3> TAKE j \in 1 .. k
    <3>1. HAVE j <= n
    <3>2. CASE j = k
      BY <2>3, <3>2
    <3>3. CASE j # k
      <4>1. j \in 1 .. k - 1 /\ j \in 1 .. n
        BY <3>1, <3>3
      <4>2. f[j] \in S
        BY <4>1
      <4>3. f[j] <= b /\ f[j] \in Nat
        BY <2>1, <3>1, <4>1, <4>2
      <4> QED BY <2>3, <4>3
    <3> QED BY <3>2, <3>3
  <2> QED BY <2>2, <2>4
<1> HIDE DEF P
<1>4. \A k \in 0 .. n : k \in P
  BY <1>2, <1>3, UpTo
<1>5. PICK b \in Nat : \A j \in 1 .. n : f[j] <= b
  <2>1. n \in P
    BY <1>4
  <2>2. PICK b \in Nat : \A j \in 1 .. n : j <= n => f[j] <= b
    BY <2>1 DEF P
  <2>3. \A j \in 1 .. n : f[j] <= b
    BY <2>2
  <2> QED BY <2>3
<1>6. \A x \in S : x <= b
  BY <1>1, <1>5
<1> DEFINE T == {b - x : x \in S}
<1>7. T \in SUBSET Nat /\ T # {}
  <2>1. ASSUME NEW x \in S PROVE b - x \in Nat
    <3>1. x \in Nat /\ x <= b
      BY <1>6
    <3> QED BY <3>1
  <2>2. T # {}
    OBVIOUS
  <2> QED BY <2>1, <2>2
<1>8. PICK m \in T : \A k \in T : m <= k
  <2> HIDE DEF T
  <2> QED BY <1>7, Smallest
<1>9. PICK y \in S : m = b - y
  BY <1>8
<1>10. \A x \in S : y >= x
  <2> TAKE x \in S
  <2>1. b - x \in T /\ x \in Nat /\ y \in Nat
    OBVIOUS
  <2>2. m <= b - x
    BY <1>8, <2>1
  <2> QED BY <1>9, <2>1, <2>2
<1>11. \E z \in S : \A x \in S : z >= x
  BY <1>10
<1>12. Max(S) \in S /\ \A x \in S : Max(S) >= x
  BY <1>11 DEF Max
<1> QED BY <1>12

\* The greatest numbers of names, servers and packets are those of some run.
LEMMA Bounds ==
  /\ MaxNames \in Nat \ {0} /\ \A n \in NameCounts : n \in 1 .. MaxNames
  /\ MaxServers \in Nat \ {0} /\ \A n \in ServerCounts : n \in 1 .. MaxServers
  /\ MaxCount \in Nat \ {0} /\ \A n \in PacketCounts : n \in 1 .. MaxCount
<1>1. \A S : S # {} /\ S \subseteq Nat \ {0} /\ IsFiniteSet(S)
        => Max(S) \in Nat \ {0} /\ \A n \in S : n \in 1 .. Max(S)
  <2> TAKE S
  <2> HAVE S # {} /\ S \subseteq Nat \ {0} /\ IsFiniteSet(S)
  <2>1. S \in SUBSET Nat
    OBVIOUS
  <2>2. Max(S) \in S /\ \A x \in S : x <= Max(S)
    BY <2>1, Greatest
  <2>3. Max(S) \in Nat \ {0}
    BY <2>2
  <2>4. ASSUME NEW n \in S PROVE n \in 1 .. Max(S)
    <3>1. n \in Nat /\ n # 0 /\ n <= Max(S)
      BY <2>2
    <3> QED BY <2>3, <3>1
  <2> QED BY <2>3, <2>4
<1> QED BY <1>1, DnsAssumption, PacketAssumption DEF MaxNames, MaxServers, MaxCount

-----------------------------------------------------------------------------
(* The DNS thread.                                                         *)

\* Where a DNS thread may be: set-up goes through the servers in order, each
\* ends up ready or failed, and the queries through names and ready servers.
Placed(d) ==
  /\ d \in DnsRecords
  /\ d.names <= MaxNames /\ d.servers <= MaxServers
  /\ d.next \in 1 .. d.servers + 1 /\ d.failed \subseteq 1 .. d.servers
  /\ d.name \in 1 .. d.names + 1
  /\ d.live /\ d.next <= d.servers => d.name = 1 /\ d.at = 1
  /\ d.at = 1 \/ d.at \in 1 .. Len(d.ready)
  /\ Len(d.ready) <= d.next - 1
  /\ \A i \in 1 .. Len(d.ready) : d.ready[i] \in 1 .. d.next - 1
  /\ \A i, j \in 1 .. Len(d.ready) : i < j => d.ready[i] < d.ready[j]
  /\ d.live =>
       /\ d.failed \subseteq 1 .. d.next - 1
       /\ \A s \in 1 .. d.next - 1 :
            s \in d.failed <=> \A i \in 1 .. Len(d.ready) : d.ready[i] # s

\* The next server is ready.
LEMMA PlacedReady ==
  ASSUME NEW d, Placed(d), d.live, d.next <= d.servers
  PROVE  Placed([d EXCEPT !.next = d.next + 1, !.ready = Append(d.ready, d.next)])
<1> DEFINE r == Append(d.ready, d.next)
           e == [d EXCEPT !.next = d.next + 1, !.ready = r]
<1>1. /\ d.next \in Nat /\ d.ready \in Seq(Nat) /\ d.servers \in Nat
      /\ d.next + 1 \in 1 .. d.servers + 1
      /\ Len(d.ready) \in Nat
  BY LenProperties DEF Placed, DnsRecords
<1>2. /\ r \in Seq(Nat) /\ Len(r) = Len(d.ready) + 1
      /\ \A i \in 1 .. Len(d.ready) : r[i] = d.ready[i]
      /\ r[Len(d.ready) + 1] = d.next
  BY <1>1, AppendProperties
<1> HIDE DEF r
<1>3. e \in DnsRecords
  <2>1. d \in DnsRecords /\ d.next + 1 \in Nat
    BY <1>1 DEF Placed
  <2> QED BY <1>2, <2>1, DnsSetUp
<1>4. /\ e.next = d.next + 1 /\ e.ready = r /\ e.names = d.names
      /\ e.servers = d.servers /\ e.failed = d.failed /\ e.name = d.name
      /\ e.at = d.at /\ e.live = d.live
  BY DEF Placed, DnsRecords
<1> HIDE DEF e
<1>5. \A i \in 1 .. Len(r) : i \in 1 .. Len(d.ready) \/ i = Len(d.ready) + 1
  BY <1>1, <1>2
<1>6. \A i \in 1 .. Len(r) : r[i] \in 1 .. e.next - 1
  <2> TAKE i \in 1 .. Len(r)
  <2>1. e.next - 1 = d.next /\ d.next \in 1 .. d.next
    BY <1>1, <1>4 DEF Placed
  <2>2. CASE i \in 1 .. Len(d.ready)
    <3>1. r[i] = d.ready[i] /\ d.ready[i] \in 1 .. d.next - 1
      BY <1>2, <2>2 DEF Placed
    <3> QED BY <1>1, <2>1, <3>1
  <2>3. CASE i = Len(d.ready) + 1
    BY <1>2, <2>1, <2>3
  <2> QED BY <1>5, <2>2, <2>3
<1>7. \A i, j \in 1 .. Len(r) : i < j => r[i] < r[j]
  <2> TAKE i, j \in 1 .. Len(r)
  <2> HAVE i < j
  <2>1. i \in 1 .. Len(d.ready)
    BY <1>1, <1>2
  <2>2. CASE j \in 1 .. Len(d.ready)
    BY <1>2, <2>1, <2>2 DEF Placed
  <2>3. CASE j = Len(d.ready) + 1
    <3>1. d.ready[i] \in 1 .. d.next - 1
      BY <2>1 DEF Placed
    <3> QED BY <1>1, <1>2, <2>1, <2>3, <3>1
  <2> QED BY <1>5, <2>2, <2>3
<1>8. e.failed \subseteq 1 .. e.next - 1
  BY <1>1, <1>4 DEF Placed
<1>9. \A s \in 1 .. e.next - 1 :
        s \in e.failed <=> \A i \in 1 .. Len(r) : r[i] # s
  <2> TAKE s \in 1 .. e.next - 1
  <2>1. CASE s = d.next
    <3>1. Len(d.ready) + 1 \in 1 .. Len(r) /\ s \notin e.failed
      BY <1>1, <1>2, <1>4, <2>1 DEF Placed
    <3> QED BY <1>2, <2>1, <3>1
  <2>2. CASE s # d.next
    <3>1. s \in 1 .. d.next - 1
      BY <1>1, <1>4, <2>2
    <3>2. (\A i \in 1 .. Len(r) : r[i] # s)
            <=> \A i \in 1 .. Len(d.ready) : d.ready[i] # s
      <4>1. \A i \in 1 .. Len(d.ready) : i \in 1 .. Len(r) /\ r[i] = d.ready[i]
        <5>1. \A i \in 1 .. Len(d.ready) : i \in 1 .. Len(d.ready) + 1
          BY <1>1
        <5> QED BY <1>2, <5>1
      <4>2. \A i \in 1 .. Len(r) : r[i] = s => i \in 1 .. Len(d.ready)
        BY <1>2, <1>5, <2>2
      <4> QED BY <4>1, <4>2
    <3> QED BY <1>4, <3>1, <3>2 DEF Placed
  <2> QED BY <2>1, <2>2
<1>10. /\ e.names <= MaxNames /\ e.servers <= MaxServers
       /\ e.next \in 1 .. e.servers + 1 /\ e.failed \subseteq 1 .. e.servers
       /\ e.name \in 1 .. e.names + 1 /\ e.name = 1 /\ e.at = 1
       /\ Len(e.ready) <= e.next - 1
  BY <1>1, <1>2, <1>4 DEF Placed
<1>11. Placed(e)
  BY <1>3, <1>4, <1>6, <1>7, <1>8, <1>9, <1>10 DEF Placed
<1> QED BY <1>11 DEF e, r

\* The next server has failed.
LEMMA PlacedFailed ==
  ASSUME NEW d, Placed(d), d.live, d.next <= d.servers
  PROVE  Placed([d EXCEPT !.next = d.next + 1, !.failed = d.failed \cup {d.next}])
<1> DEFINE F == d.failed \cup {d.next}
           e == [d EXCEPT !.next = d.next + 1, !.failed = F]
<1>1. /\ d.next \in Nat /\ d.servers \in Nat /\ d.failed \in SUBSET Nat
      /\ d.next + 1 \in 1 .. d.servers + 1
      /\ Len(d.ready) \in Nat
  BY LenProperties DEF Placed, DnsRecords
<1>2. e \in DnsRecords
  <2>1. d \in DnsRecords /\ d.next + 1 \in Nat /\ F \in SUBSET Nat
    BY <1>1 DEF Placed
  <2> HIDE DEF F
  <2> QED BY <2>1, DnsSetUp
<1>3. F \subseteq 1 .. d.servers /\ F \subseteq 1 .. d.next
  BY <1>1 DEF Placed
<1>4. \A s \in 1 .. d.next : s \in F <=> \A i \in 1 .. Len(d.ready) : d.ready[i] # s
  <2> TAKE s \in 1 .. d.next
  <2>1. CASE s = d.next
    <3>1. \A i \in 1 .. Len(d.ready) : d.ready[i] \in 1 .. d.next - 1
      BY DEF Placed
    <3>2. \A i \in 1 .. Len(d.ready) : d.ready[i] # s
      BY <1>1, <2>1, <3>1
    <3> QED BY <2>1, <3>2
  <2>2. CASE s # d.next
    <3>1. s \in 1 .. d.next - 1
      BY <1>1, <2>2
    <3> QED BY <2>2, <3>1 DEF Placed
  <2> QED BY <2>1, <2>2
<1> HIDE DEF F
<1>5. /\ e.next = d.next + 1 /\ e.ready = d.ready /\ e.names = d.names
      /\ e.servers = d.servers /\ e.failed = F /\ e.name = d.name
      /\ e.at = d.at /\ e.live = d.live
  BY DEF Placed, DnsRecords
<1> HIDE DEF e
<1>6. \A i \in 1 .. Len(d.ready) : d.ready[i] \in 1 .. d.next
  <2> TAKE i \in 1 .. Len(d.ready)
  <2>1. d.ready[i] \in 1 .. d.next - 1
    BY DEF Placed
  <2> QED BY <1>1, <2>1
<1>7. /\ e.names <= MaxNames /\ e.servers <= MaxServers
      /\ e.next \in 1 .. e.servers + 1 /\ e.next - 1 = d.next
      /\ e.name \in 1 .. e.names + 1 /\ e.name = 1 /\ e.at = 1
      /\ Len(e.ready) <= e.next - 1
      /\ \A i, j \in 1 .. Len(e.ready) : i < j => e.ready[i] < e.ready[j]
  BY <1>1, <1>5 DEF Placed
<1>8. Placed(e)
  BY <1>2, <1>3, <1>4, <1>5, <1>6, <1>7 DEF Placed
<1> QED BY <1>8 DEF e, F

\* A query of one of the names at one of the servers, the next or the first of
\* the next name.
LEMMA PlacedQuery ==
  ASSUME NEW d, Placed(d), d.next > d.servers
  PROVE  /\ d.at < Len(d.ready) => Placed([d EXCEPT !.at = d.at + 1])
         /\ d.name <= d.names => Placed([d EXCEPT !.at = 1, !.name = d.name + 1])
<1>1. /\ d.at \in Nat /\ d.name \in Nat /\ d.names \in Nat
      /\ d.next \in Nat /\ d.servers \in Nat
      /\ Len(d.ready) \in Nat /\ d \in DnsRecords
  BY LenProperties DEF Placed, DnsRecords
<1>2. ASSUME d.at < Len(d.ready)
      PROVE  Placed([d EXCEPT !.at = d.at + 1])
  <2> DEFINE k == d.at + 1
             e == [d EXCEPT !.at = k]
  <2>1. k \in Nat /\ k \in 1 .. Len(d.ready)
    BY <1>1, <1>2
  <2> HIDE DEF k
  <2>2. e \in DnsRecords
    BY <1>1, <2>1, DnsCounters
  <2>3. /\ e.next = d.next /\ e.ready = d.ready /\ e.names = d.names
        /\ e.servers = d.servers /\ e.failed = d.failed /\ e.name = d.name
        /\ e.at = k /\ e.live = d.live
    BY <1>1 DEF DnsRecords
  <2> HIDE DEF e
  <2>4. /\ ~(e.live /\ e.next <= e.servers) /\ e.at \in 1 .. Len(e.ready)
        /\ Placed(d)
    BY <1>1, <2>1, <2>3
  <2>5. Placed(e)
    BY <2>2, <2>3, <2>4 DEF Placed
  <2> QED BY <2>5 DEF e, k
<1>3. ASSUME d.name <= d.names
      PROVE  Placed([d EXCEPT !.at = 1, !.name = d.name + 1])
  <2> DEFINE k == d.name + 1
             e == [d EXCEPT !.at = 1, !.name = k]
  <2>1. k \in Nat /\ k \in 1 .. d.names + 1
    BY <1>1, <1>3
  <2> HIDE DEF k
  <2>2. e \in DnsRecords
    BY <1>1, <2>1, DnsCounters
  <2>3. /\ e.next = d.next /\ e.ready = d.ready /\ e.names = d.names
        /\ e.servers = d.servers /\ e.failed = d.failed /\ e.name = k
        /\ e.at = 1 /\ e.live = d.live
    BY <1>1 DEF DnsRecords
  <2> HIDE DEF e
  <2>4. Placed(e)
    BY <1>1, <2>1, <2>2, <2>3 DEF Placed
  <2> QED BY <2>4 DEF e, k
<1> QED BY <1>2, <1>3

\* A thread that starts, and what is kept of one that is over.
LEMMA PlacedEnds ==
  ASSUME NEW r \in Nat, NEW n \in 0 .. MaxNames, NEW s \in 0 .. MaxServers
  PROVE  /\ Placed([NoDns EXCEPT !.live = TRUE, !.run = r, !.names = n, !.servers = s])
         /\ \A F \in SUBSET (1 .. s) :
              Placed([NoDns EXCEPT !.run = r, !.names = n, !.servers = s, !.failed = F])
<1>1. n \in Nat /\ s \in Nat /\ n <= MaxNames /\ s <= MaxServers
  BY Bounds
<1>2. Len(<<>>) = 0 /\ 1 .. 0 = {} /\ NoDns \in DnsRecords
  BY DEF NoDns, DnsRecords
<1>3. ASSUME NEW d \in DnsRecords,
             d.names = n, d.servers = s, d.next = 1, d.ready = <<>>, d.name = 1,
             d.at = 1, d.failed \in SUBSET (1 .. s), d.live => d.failed = {}
      PROVE  Placed(d)
  <2>1. \A i \in 1 .. Len(d.ready) : FALSE
    BY <1>2, <1>3
  <2>2. 1 \in 1 .. s + 1 /\ 1 \in 1 .. n + 1 /\ 1 - 1 = 0
    BY <1>1
  <2> QED BY <1>1, <1>2, <1>3, <2>1, <2>2 DEF Placed
<1>4. Placed([NoDns EXCEPT !.live = TRUE, !.run = r, !.names = n, !.servers = s])
  <2> DEFINE d == [NoDns EXCEPT !.live = TRUE, !.run = r, !.names = n, !.servers = s]
  <2>1. d \in DnsRecords
    BY <1>1, <1>2 DEF DnsRecords
  <2>2. /\ d.names = n /\ d.servers = s /\ d.next = 1 /\ d.ready = <<>>
        /\ d.name = 1 /\ d.at = 1 /\ d.failed = {}
    BY DEF NoDns
  <2> HIDE DEF d
  <2>3. d.failed \in SUBSET (1 .. s) /\ (d.live => d.failed = {})
    BY <2>2
  <2>4. Placed(d)
    BY <1>3, <2>1, <2>2, <2>3
  <2> QED BY <2>4 DEF d
<1>5. ASSUME NEW F \in SUBSET (1 .. s)
      PROVE  Placed([NoDns EXCEPT !.run = r, !.names = n, !.servers = s, !.failed = F])
  <2> DEFINE d == [NoDns EXCEPT !.run = r, !.names = n, !.servers = s, !.failed = F]
  <2>1. F \in SUBSET Nat
    OBVIOUS
  <2>2. d \in DnsRecords
    BY <1>1, <1>2, <2>1 DEF DnsRecords
  <2>3. /\ d.names = n /\ d.servers = s /\ d.next = 1 /\ d.ready = <<>>
        /\ d.name = 1 /\ d.at = 1 /\ d.failed = F /\ d.live = FALSE
    BY DEF NoDns
  <2> HIDE DEF d
  <2>4. d.failed \in SUBSET (1 .. s) /\ (d.live => d.failed = {})
    BY <2>3
  <2>5. Placed(d)
    BY <1>3, <2>2, <2>3, <2>4
  <2> QED BY <2>5 DEF d
<1> QED BY <1>4, <1>5

-----------------------------------------------------------------------------
(* The answers of the last run.                                            *)

\* The answers owed by a thread, and those it is done with: set-up errors, the
\* names before the one under way, and that one at the servers before.
Owes(d) ==
  (d.failed \X {0}) \cup (((1 .. d.servers) \ d.failed) \X (1 .. d.names))
Settles(d) ==
  (d.failed \X {0}) \cup
  {q \in ((1 .. d.servers) \ d.failed) \X (1 .. d.names) :
     \/ ~d.live
     \/ q[2] < d.name
     \/ q[2] = d.name /\ \E i \in 1 .. d.at - 1 : d.ready[i] = q[1]}

\* The fields of a thread, with their types.
LEMMA PlacedTypes ==
  ASSUME NEW d, Placed(d)
  PROVE  /\ d.at \in Nat /\ d.name \in Nat /\ d.name >= 1 /\ d.names \in Nat
         /\ d.next \in Nat /\ d.servers \in Nat /\ d.failed \in SUBSET Nat
         /\ Len(d.ready) \in Nat /\ d.run \in Nat /\ d.ready \in Seq(Nat)
         /\ \A i \in 1 .. Len(d.ready) : d.ready[i] \in Nat
BY LenProperties DEF Placed, DnsRecords

\* While servers are set up, only errors have been reported.
LEMMA SettlesSetUp ==
  ASSUME NEW d, Placed(d), d.live, d.name = 1, d.at = 1
  PROVE  Settles(d) = d.failed \X {0}
<1>1. 1 .. d.at - 1 = {}
  OBVIOUS
<1>2. \A n \in 1 .. d.names : ~(n < d.name)
  BY PlacedTypes
<1> QED BY <1>1, <1>2 DEF Settles

\* A name under way has been asked at servers before the next one.
LEMMA AskedBefore ==
  ASSUME NEW d, Placed(d), NEW i \in 1 .. d.at - 1, NEW k \in 1 .. Len(d.ready),
         k >= d.at
  PROVE  d.ready[i] < d.ready[k]
<1>1. i \in 1 .. Len(d.ready) /\ i < k
  BY PlacedTypes
<1> QED BY <1>1 DEF Placed

\* What is not settled comes later than all that is, and the thread is at work.
LEMMA Ahead ==
  ASSUME NEW d, Placed(d), NEW p \in Settles(d), NEW q \in Owes(d) \ Settles(d)
  PROVE  d.live /\ Before(p, q)
<1> USE PlacedTypes
<1>1. /\ q[1] \in (1 .. d.servers) \ d.failed /\ q[2] \in 1 .. d.names
      /\ d.live /\ ~(q[2] < d.name)
      /\ ~(q[2] = d.name /\ \E i \in 1 .. d.at - 1 : d.ready[i] = q[1])
  BY DEF Owes, Settles
<1>2. CASE p \in d.failed \X {0}
  <2>1. p[2] < q[2]
    BY <1>1, <1>2
  <2> QED BY <1>1, <2>1 DEF Before
<1>3. CASE p[2] < d.name /\ p[2] \in Nat
  <2>1. p[2] < q[2]
    BY <1>1, <1>3
  <2> QED BY <1>1, <2>1 DEF Before
<1>4. ASSUME p[2] = d.name, NEW i \in 1 .. d.at - 1, d.ready[i] = p[1]
      PROVE  Before(p, q)
  <2>1. CASE q[2] # d.name
    <3>1. p[2] < q[2]
      BY <1>1, <1>4, <2>1
    <3> QED BY <3>1 DEF Before
  <2>2. CASE q[2] = d.name
    <3>1. d.at # 1
      BY <1>4
    <3>2. q[1] \in 1 .. d.next - 1
      <4>1. ~(d.next <= d.servers) /\ d.next \in 1 .. d.servers + 1
        BY <1>1, <3>1 DEF Placed
      <4>2. d.next - 1 = d.servers
        BY <4>1
      <4> QED BY <1>1, <4>2
    <3>3. PICK k \in 1 .. Len(d.ready) : d.ready[k] = q[1]
      BY <1>1, <3>2 DEF Placed
    <3>4. k \notin 1 .. d.at - 1
      BY <1>1, <2>2, <3>3
    <3>5. k >= d.at
      BY <3>4
    <3>6. p[1] < q[1]
      BY <1>4, <3>3, <3>5, AskedBefore
    <3> QED BY <1>4, <2>2, <3>6 DEF Before
  <2> QED BY <2>1, <2>2
<1>5. \/ p \in d.failed \X {0}
      \/ p[2] < d.name /\ p[2] \in Nat
      \/ p[2] = d.name /\ \E i \in 1 .. d.at - 1 : d.ready[i] = p[1]
  BY <1>1 DEF Settles
<1> QED BY <1>1, <1>2, <1>3, <1>4, <1>5

\* A server that is ready settles nothing.
LEMMA SettlesReady ==
  ASSUME NEW d, Placed(d), d.live, d.next <= d.servers,
         NEW e, e = [d EXCEPT !.next = d.next + 1, !.ready = Append(d.ready, d.next)]
  PROVE  Settles(e) = Settles(d)
<1>1. d.name = 1 /\ d.at = 1
  BY DEF Placed
<1>2. /\ e.live = d.live /\ e.name = 1 /\ e.at = 1 /\ e.failed = d.failed
  BY <1>1 DEF Placed, DnsRecords
<1>3. Placed(e)
  BY PlacedReady
<1> QED BY <1>1, <1>2, <1>3, SettlesSetUp

\* A server that failed settles its error.
LEMMA SettlesFailed ==
  ASSUME NEW d, Placed(d), d.live, d.next <= d.servers,
         NEW e, e = [d EXCEPT !.next = d.next + 1, !.failed = d.failed \cup {d.next}]
  PROVE  /\ Settles(e) = Settles(d) \cup {<<d.next, 0>>}
         /\ \A p \in Settles(d) : Before(p, <<d.next, 0>>)
<1>1. d.name = 1 /\ d.at = 1
  BY DEF Placed
<1>2. /\ e.live = d.live /\ e.name = 1 /\ e.at = 1
      /\ e.failed = d.failed \cup {d.next}
  BY <1>1 DEF Placed, DnsRecords
<1>3. Placed(e)
  BY PlacedFailed
<1>4. Settles(d) = d.failed \X {0} /\ Settles(e) = e.failed \X {0}
  BY <1>1, <1>2, <1>3, SettlesSetUp
<1>5. ASSUME NEW p \in d.failed \X {0} PROVE Before(p, <<d.next, 0>>)
  <2>1. p[1] \in 1 .. d.next - 1 /\ p[2] = 0
    BY DEF Placed
  <2>2. p[1] < d.next
    BY <2>1, PlacedTypes
  <2> QED BY <2>1, <2>2 DEF Before
<1> QED BY <1>2, <1>4, <1>5

\* Set-up ends behind the last server.
LEMMA SetUpOver ==
  ASSUME NEW d, Placed(d), d.next > d.servers
  PROVE  d.next - 1 = d.servers
<1>1. d.next \in 1 .. d.servers + 1
  BY DEF Placed
<1> QED BY <1>1, PlacedTypes

\* A query settles one name at one server, behind all before it.
LEMMA SettlesQuery ==
  ASSUME NEW d, Placed(d), d.live, d.next > d.servers,
         d.ready # <<>>, d.name <= d.names,
         NEW e, e = IF d.at < Len(d.ready) THEN [d EXCEPT !.at = d.at + 1]
                    ELSE [d EXCEPT !.at = 1, !.name = d.name + 1]
  PROVE  /\ Settles(e) = Settles(d) \cup {<<d.ready[d.at], d.name>>}
         /\ \A p \in Settles(d) : Before(p, <<d.ready[d.at], d.name>>)
<1> DEFINE s == d.ready[d.at]
<1>0. /\ d.at \in Nat /\ d.name \in Nat /\ d.name >= 1 /\ d.names \in Nat
      /\ d.next \in Nat /\ d.servers \in Nat /\ d.failed \in SUBSET Nat
      /\ Len(d.ready) \in Nat
      /\ \A i \in 1 .. Len(d.ready) : d.ready[i] \in Nat
  BY PlacedTypes
<1> USE <1>0
<1>1. d.at \in 1 .. Len(d.ready)
  <2>1. Len(d.ready) # 0
    BY EmptySeq, LenProperties DEF Placed
  <2> QED BY <2>1 DEF Placed
<1>2. d.next - 1 = d.servers
  BY SetUpOver
<1>3. s \in (1 .. d.servers) \ d.failed
  <2>1. s \in 1 .. d.next - 1
    BY <1>1 DEF Placed
  <2> QED BY <1>1, <1>2, <2>1 DEF Placed
<1>4. \A t \in (1 .. d.servers) \ d.failed : \E i \in 1 .. Len(d.ready) : d.ready[i] = t
  BY <1>2 DEF Placed
<1>5. /\ e.live = d.live /\ e.failed = d.failed /\ e.servers = d.servers
      /\ e.names = d.names /\ e.ready = d.ready
  BY DEF Placed, DnsRecords
<1> DEFINE Items == ((1 .. d.servers) \ d.failed) \X (1 .. d.names)
           Now(q) == \/ ~d.live
                     \/ q[2] < d.name
                     \/ q[2] = d.name /\ \E i \in 1 .. d.at - 1 : d.ready[i] = q[1]
           Then(q) == \/ ~d.live
                      \/ q[2] < e.name
                      \/ q[2] = e.name /\ \E i \in 1 .. e.at - 1 : d.ready[i] = q[1]
<1>6. /\ Settles(d) = (d.failed \X {0}) \cup {q \in Items : Now(q)}
      /\ Settles(e) = (d.failed \X {0}) \cup {q \in Items : Then(q)}
  BY <1>5 DEF Settles
<1>7. d.name \in 1 .. d.names
  OBVIOUS
<1>8. ASSUME NEW q \in Items
      PROVE  Then(q) <=> Now(q) \/ q = <<s, d.name>>
  <2>1. q = <<q[1], q[2]>> /\ q[2] \in Nat
    OBVIOUS
  <2>2. CASE d.at < Len(d.ready)
    <3>1. e.name = d.name /\ e.at = d.at + 1
      BY <2>2 DEF Placed, DnsRecords
    <3>2. (\E i \in 1 .. e.at - 1 : d.ready[i] = q[1])
            <=> (\E i \in 1 .. d.at - 1 : d.ready[i] = q[1]) \/ q[1] = s
      <4>1. \A i : i \in 1 .. e.at - 1 <=> i \in 1 .. d.at - 1 \/ i = d.at
        BY <1>1, <3>1
      <4> QED BY <4>1
    <3>3. q = <<s, d.name>> <=> q[1] = s /\ q[2] = d.name
      BY <2>1
    <3>4. Then(q) <=> \/ q[2] < d.name
                      \/ q[2] = d.name /\ \E i \in 1 .. e.at - 1 : d.ready[i] = q[1]
      BY <3>1
    <3>5. Now(q) <=> \/ q[2] < d.name
                     \/ q[2] = d.name /\ \E i \in 1 .. d.at - 1 : d.ready[i] = q[1]
      OBVIOUS
    <3> HIDE DEF s, Now, Then
    <3> QED BY <3>2, <3>3, <3>4, <3>5
  <2>3. CASE ~(d.at < Len(d.ready))
    <3>1. e.name = d.name + 1 /\ e.at = 1 /\ d.at = Len(d.ready)
      BY <1>1, <2>3 DEF Placed, DnsRecords
    <3>2. Then(q) <=> q[2] <= d.name
      <4>1. 1 .. e.at - 1 = {}
        BY <3>1
      <4> QED BY <2>1, <3>1, <4>1
    <3>3. (\E i \in 1 .. d.at - 1 : d.ready[i] = q[1]) \/ q[1] = s
      <4>1. PICK i \in 1 .. Len(d.ready) : d.ready[i] = q[1]
        BY <1>4
      <4>2. i \in 1 .. d.at - 1 \/ i = d.at
        BY <3>1
      <4> QED BY <4>1, <4>2
    <3> HIDE DEF s, Then
    <3> QED BY <2>1, <3>2, <3>3
  <2> QED BY <2>2, <2>3
<1>9. <<s, d.name>> \in Items
  BY <1>3, <1>7
<1>10. Settles(e) = Settles(d) \cup {<<s, d.name>>}
  <2> HIDE DEF Items, Now, Then, s
  <2> QED BY <1>6, <1>8, <1>9
<1>11. ASSUME NEW p \in Settles(d) PROVE Before(p, <<s, d.name>>)
  <2>1. CASE p \in d.failed \X {0}
    <3>1. p[2] < d.name
      BY <2>1
    <3> QED BY <3>1 DEF Before
  <2>2. CASE p[2] < d.name
    BY <2>2 DEF Before
  <2>3. ASSUME p[2] = d.name, NEW i \in 1 .. d.at - 1, d.ready[i] = p[1]
        PROVE  Before(p, <<s, d.name>>)
    <3>1. d.at >= d.at
      OBVIOUS
    <3>2. d.ready[i] < d.ready[d.at]
      BY <1>1, <3>1, AskedBefore
    <3> QED BY <2>3, <3>2 DEF Before
  <2> QED BY <1>6, <2>1, <2>2, <2>3
<1> QED BY <1>10, <1>11

\* The end of a thread settles nothing.
LEMMA SettlesOver ==
  ASSUME NEW d, Placed(d), d.live, d.next > d.servers,
         d.ready = <<>> \/ d.name > d.names,
         NEW e, e = [NoDns EXCEPT !.run = d.run, !.names = d.names,
                                  !.servers = d.servers, !.failed = d.failed]
  PROVE  Placed(e) /\ Settles(e) = Settles(d) /\ ~e.live /\ e.run = d.run
<1> USE PlacedTypes
<1>1. Placed(e)
  <2>1. /\ d.names \in 0 .. MaxNames /\ d.servers \in 0 .. MaxServers
        /\ d.failed \in SUBSET (1 .. d.servers)
    <3>1. /\ d.names <= MaxNames /\ d.servers <= MaxServers
          /\ d.failed \subseteq 1 .. d.servers
      BY DEF Placed
    <3> QED BY <3>1, Bounds
  <2> QED BY <2>1, PlacedEnds
<1>2. /\ e.live = FALSE /\ e.failed = d.failed /\ e.servers = d.servers
      /\ e.names = d.names /\ e.run = d.run
  BY DEF NoDns
<1>3. Settles(e) = Owes(d)
  BY <1>2 DEF Settles, Owes
<1>4. CASE d.ready = <<>>
  <2>1. d.next - 1 = d.servers /\ Len(d.ready) = 0
    BY <1>4 DEF Placed
  <2>2. (1 .. d.servers) \ d.failed = {}
    BY <2>1 DEF Placed
  <2> QED BY <1>1, <1>2, <1>3, <2>2 DEF Settles, Owes
<1>5. CASE d.name > d.names
  <2>1. \A n \in 1 .. d.names : n < d.name
    BY <1>5
  <2>2. Settles(d) = Owes(d)
    BY <2>1 DEF Settles, Owes
  <2> QED BY <1>1, <1>2, <1>3, <2>2
<1> QED BY <1>4, <1>5

\* A thread just started has settled nothing.
LEMMA SettlesNew ==
  ASSUME NEW r \in Nat, NEW n \in NameCounts, NEW s \in ServerCounts,
         NEW e, e = [NoDns EXCEPT !.live = TRUE, !.run = r, !.names = n, !.servers = s]
  PROVE  Placed(e) /\ Settles(e) = {} /\ e.run = r
<1>1. n \in 0 .. MaxNames /\ s \in 0 .. MaxServers
  BY Bounds
<1>2. Placed(e)
  BY <1>1, PlacedEnds
<1>3. e.live = TRUE /\ e.name = 1 /\ e.at = 1 /\ e.failed = {} /\ e.run = r
  BY DEF NoDns
<1>4. Settles(e) = {}
  <2>1. Settles(e) = e.failed \X {0}
    <3>1. e.live
      BY <1>3
    <3> QED BY <1>2, <1>3, <3>1, SettlesSetUp
  <2> QED BY <1>3, <2>1
<1> QED BY <1>2, <1>3, <1>4

\* Of the answers A, those of run r are settled ones in their order, and what
\* is settled without an answer was cleared (c), before all of those.
At(a) == <<a.server, a.name>>
Got(A, r) == {At(A[i]) : i \in {i \in 1 .. Len(A) : A[i].run = r}}
InOrder(A, r, S, c) ==
  /\ Got(A, r) \subseteq S
  /\ \A i, j \in 1 .. Len(A) :
       A[i].run = r /\ A[j].run = r /\ i < j => Before(At(A[i]), At(A[j]))
  /\ \A q \in S \ Got(A, r) : c /\ \A p \in Got(A, r) : Before(q, p)

\* One more answer, behind all that is settled.
LEMMA OrderMore ==
  ASSUME NEW X, NEW A \in Seq(X), NEW a \in X, NEW r, NEW S, NEW c,
         InOrder(A, r, S, c), a.run = r, \A p \in S : Before(p, At(a))
  PROVE  InOrder(Append(A, a), r, S \cup {At(a)}, c)
<1> DEFINE B == Append(A, a)
<1>1. /\ Len(A) \in Nat /\ Len(B) = Len(A) + 1 /\ B[Len(A) + 1] = a
      /\ \A i \in 1 .. Len(A) : B[i] = A[i]
  BY AppendProperties, LenProperties
<1> HIDE DEF B
<1>2. \A i : i \in 1 .. Len(B) <=> i \in 1 .. Len(A) \/ i = Len(A) + 1
  BY <1>1
<1>3. Got(B, r) = Got(A, r) \cup {At(a)}
  <2>1. ASSUME NEW q \in Got(B, r) PROVE q \in Got(A, r) \cup {At(a)}
    <3>1. PICK i \in 1 .. Len(B) : B[i].run = r /\ q = At(B[i])
      BY <2>1 DEF Got
    <3>2. CASE i \in 1 .. Len(A)
      BY <1>1, <3>1, <3>2 DEF Got
    <3>3. CASE i = Len(A) + 1
      BY <1>1, <3>1, <3>3
    <3> QED BY <1>2, <3>2, <3>3
  <2>2. ASSUME NEW q \in Got(A, r) PROVE q \in Got(B, r)
    <3>1. PICK i \in 1 .. Len(A) : A[i].run = r /\ q = At(A[i])
      BY <2>2 DEF Got
    <3>2. i \in 1 .. Len(B) /\ B[i].run = r /\ q = At(B[i])
      BY <1>1, <1>2, <3>1
    <3> QED BY <3>2 DEF Got
  <2>3. At(a) \in Got(B, r)
    <3>1. Len(A) + 1 \in 1 .. Len(B)
      BY <1>2
    <3> QED BY <1>1, <3>1 DEF Got
  <2> QED BY <2>1, <2>2, <2>3
<1>4. Got(B, r) \subseteq S \cup {At(a)}
  BY <1>3 DEF InOrder
<1>5. ASSUME NEW i \in 1 .. Len(B), NEW j \in 1 .. Len(B), B[i].run = r,
             B[j].run = r, i < j
      PROVE  Before(At(B[i]), At(B[j]))
  <2>1. i \in 1 .. Len(A)
    BY <1>1, <1>5
  <2>2. A[i] = B[i]
    BY <1>1, <2>1
  <2>3. CASE j \in 1 .. Len(A)
    <3>1. A[j] = B[j]
      BY <1>1, <2>3
    <3> QED BY <1>5, <2>1, <2>2, <2>3, <3>1 DEF InOrder
  <2>4. CASE j = Len(A) + 1
    <3>1. At(A[i]) \in Got(A, r)
      BY <1>5, <2>1, <2>2 DEF Got
    <3>2. At(A[i]) \in S
      BY <3>1 DEF InOrder
    <3> QED BY <1>1, <2>2, <2>4, <3>2
  <2> QED BY <1>2, <2>3, <2>4
<1>6. ASSUME NEW q \in (S \cup {At(a)}) \ Got(B, r)
      PROVE  c /\ \A p \in Got(B, r) : Before(q, p)
  <2>1. q \in S \ Got(A, r)
    BY <1>3
  <2> QED BY <1>3, <2>1 DEF InOrder
<1>7. InOrder(B, r, S \cup {At(a)}, c)
  BY <1>4, <1>5, <1>6 DEF InOrder
<1> QED BY <1>7 DEF B

\* What is left when the first answers are cleared.
LEMMA OrderCleared ==
  ASSUME NEW X, NEW B \in Seq(X), NEW C \in Seq(X), NEW r, NEW S, NEW c,
         InOrder(B \o C, r, S, c)
  PROVE  InOrder(C, r, S, TRUE)
<1> DEFINE A == B \o C
           n == Len(B)
<1>1. /\ n \in Nat /\ Len(C) \in Nat /\ Len(A) = n + Len(C)
      /\ \A i \in 1 .. Len(A) : A[i] = IF i <= n THEN B[i] ELSE C[i - n]
  BY ConcatProperties, LenProperties
<1>2. InOrder(A, r, S, c)
  OBVIOUS
<1> HIDE DEF A, n
<1>3. \A i \in 1 .. Len(C) : i + n \in 1 .. Len(A) /\ A[i + n] = C[i]
  <2> TAKE i \in 1 .. Len(C)
  <2>1. i + n \in 1 .. Len(A) /\ ~(i + n <= n) /\ (i + n) - n = i
    BY <1>1
  <2> QED BY <1>1, <2>1
<1>4. \A i \in 1 .. Len(C) : C[i].run = r => At(C[i]) \in Got(A, r)
  BY <1>3 DEF Got
<1>5. Got(C, r) \subseteq Got(A, r)
  BY <1>4 DEF Got
<1>6. Got(C, r) \subseteq S
  BY <1>2, <1>5 DEF InOrder
<1>7. ASSUME NEW i \in 1 .. Len(C), NEW j \in 1 .. Len(C), C[i].run = r,
             C[j].run = r, i < j
      PROVE  Before(At(C[i]), At(C[j]))
  <2>1. i + n < j + n /\ i + n \in 1 .. Len(A) /\ j + n \in 1 .. Len(A)
        /\ A[i + n] = C[i] /\ A[j + n] = C[j]
    BY <1>1, <1>3, <1>7
  <2> QED BY <1>2, <1>7, <2>1 DEF InOrder
<1>8. ASSUME NEW q \in S \ Got(C, r), NEW p \in Got(C, r)
      PROVE  Before(q, p)
  <2>1. CASE q \notin Got(A, r)
    BY <1>2, <1>5, <2>1 DEF InOrder
  <2>2. CASE q \in Got(A, r)
    <3>1. PICK k \in 1 .. Len(A) : A[k].run = r /\ q = At(A[k])
      BY <2>2 DEF Got
    <3>2. PICK i \in 1 .. Len(C) : C[i].run = r /\ p = At(C[i])
      BY DEF Got
    <3>3. k <= n
      <4>1. SUFFICES ASSUME ~(k <= n) PROVE FALSE
        OBVIOUS
      <4>2. k - n \in 1 .. Len(C) /\ A[k] = C[k - n]
        BY <1>1, <4>1
      <4> QED BY <3>1, <4>2 DEF Got
    <3>4. k < i + n /\ i + n \in 1 .. Len(A) /\ A[i + n] = C[i]
      BY <1>1, <1>3, <3>3
    <3> QED BY <1>2, <3>1, <3>2, <3>4 DEF InOrder
  <2> QED BY <2>1, <2>2
<1> QED BY <1>6, <1>7, <1>8 DEF InOrder

\* A run without answers so far.
LEMMA OrderNew ==
  ASSUME NEW A, NEW r, NEW c, \A i \in 1 .. Len(A) : A[i].run # r
  PROVE  InOrder(A, r, {}, c)
<1>1. Got(A, r) = {}
  BY DEF Got
<1> QED BY <1>1 DEF InOrder

\* The inductive invariant.
AnswersInv ==
  /\ Placed(dnsThread) /\ dnsThread.run <= starts /\ starts \in Nat
  /\ dnsResults \in Seq(DnsAnswers)
  /\ \A i \in 1 .. Len(Answers) : Answers[i].run <= starts
  /\ InOrder(Answers, dnsThread.run, Settles(dnsThread), dnsCleared)

\* What is kept of the channel, and all answers, are sequences of answers.
LEMMA AnswersTypes ==
  ASSUME FlagsOK, dnsResults \in Seq(DnsAnswers)
  PROVE  /\ Len(chan) \in Nat /\ Kept(chan, DnsAnswers) \in Seq(DnsAnswers)
         /\ Answers \in Seq(DnsAnswers)
<1>1. Len(chan) \in Nat
  BY LenProperties DEF FlagsOK
<1>2. Kept(chan, DnsAnswers) \in Seq(DnsAnswers)
  <2> DEFINE T == {chan[i] : i \in 1 .. Len(chan)} \cap DnsAnswers
  <2>1. Kept(chan, DnsAnswers) \in Seq(T) /\ T \subseteq DnsAnswers
    BY <1>1, KeptTypes
  <2> HIDE DEF T
  <2> QED BY <2>1, SeqMonotonic
<1>3. Answers \in Seq(DnsAnswers)
  BY <1>2, ConcatProperties DEF Answers
<1> QED BY <1>1, <1>2, <1>3

\* An event more is an answer more if it is one.
LEMMA AnswersSent ==
  ASSUME FlagsOK, dnsResults \in Seq(DnsAnswers), NEW e, SendEvent(e),
         UNCHANGED dnsResults
  PROVE  Answers' = IF e \in DnsAnswers THEN Append(Answers, e) ELSE Answers
<1> DEFINE S == {chan[i] : i \in DOMAIN chan} \cup {e}
           K == Kept(chan, DnsAnswers)
<1>1. /\ Len(chan) \in Nat /\ K \in Seq(DnsAnswers)
  BY AnswersTypes
<1>2. /\ Len(chan') = Len(chan) + 1 /\ chan'[Len(chan')] = e
      /\ \A i \in 1 .. Len(chan) : chan'[i] = chan[i]
  <2>1. chan \in Seq(S) /\ e \in S
    BY SeqMonotonic DEF FlagsOK
  <2> HIDE DEF S
  <2> QED BY <2>1, AppendProperties, LenProperties DEF SendEvent
<1>3. Kept(chan', DnsAnswers) = IF e \in DnsAnswers THEN Append(K, e) ELSE K
  <2> HIDE DEF K
  <2>1. Kept(chan', DnsAnswers) = IF chan'[Len(chan')] \in DnsAnswers
             THEN Append(Kept(chan, DnsAnswers), chan'[Len(chan')])
             ELSE Kept(chan, DnsAnswers)
    BY <1>1, <1>2, KeptMore
  <2> QED BY <1>2, <2>1 DEF K
<1>4. Answers' = dnsResults \o Kept(chan', DnsAnswers) /\ Answers = dnsResults \o K
  BY DEF Answers
<1>5. CASE e \in DnsAnswers
  <2>1. dnsResults \o Append(K, e) = Append(dnsResults \o K, e)
    <3> HIDE DEF K
    <3> QED BY <1>1, <1>5
  <2> QED BY <1>3, <1>4, <1>5, <2>1
<1>6. CASE e \notin DnsAnswers
  BY <1>3, <1>4, <1>6
<1> QED BY <1>5, <1>6

\* A step of the thread settles nothing, and says so by silence or by Done, or
\* it settles the answer it sends, behind all before.
LEMMA DnsAnswering ==
  ASSUME Placed(dnsThread), DnsStep
  PROVE  /\ Placed(dnsThread') /\ dnsThread'.run = dnsThread.run
         /\ \/ /\ Quiet \/ SendEvent(DnsDone)
               /\ Settles(dnsThread') = Settles(dnsThread)
            \/ \E s \in 1 .. MaxServers, n \in 0 .. MaxNames :
                 /\ SendEvent(Answer(s, n))
                 /\ Settles(dnsThread') = Settles(dnsThread) \cup {<<s, n>>}
                 /\ \A p \in Settles(dnsThread) : Before(p, <<s, n>>)
<1>1. PICK d, e : d = dnsThread /\ e = dnsThread'
  OBVIOUS
<1>2. Placed(d)
  BY <1>1
<1>3. /\ d.next \in Nat /\ d.servers \in Nat /\ d.servers <= MaxServers
      /\ d.name \in Nat /\ d.names \in Nat /\ d.names <= MaxNames
      /\ d.at \in Nat /\ d.next >= 1 /\ d.name >= 1 /\ d \in DnsRecords
  <2>1. d.next \in 1 .. d.servers + 1 /\ d.servers <= MaxServers
        /\ d.names <= MaxNames /\ d \in DnsRecords
    BY <1>2 DEF Placed
  <2> QED BY <1>2, <2>1, PlacedTypes
<1>4. ASSUME d.live, d.next <= d.servers,
             e = [d EXCEPT !.next = d.next + 1, !.ready = Append(d.ready, d.next)]
      PROVE  Placed(e) /\ e.run = d.run /\ Settles(e) = Settles(d)
  <2>1. e.run = d.run
    BY <1>3, <1>4 DEF DnsRecords
  <2>2. Placed(e)
    BY <1>2, <1>4, PlacedReady
  <2> QED BY <1>2, <1>4, <2>1, <2>2, SettlesReady
<1>5. ASSUME d.live, d.next <= d.servers,
             e = [d EXCEPT !.next = d.next + 1, !.failed = d.failed \cup {d.next}]
      PROVE  /\ Placed(e) /\ e.run = d.run
             /\ Settles(e) = Settles(d) \cup {<<d.next, 0>>}
             /\ \A p \in Settles(d) : Before(p, <<d.next, 0>>)
             /\ d.next \in 1 .. MaxServers /\ 0 \in 0 .. MaxNames
  <2>1. e.run = d.run
    BY <1>3, <1>5 DEF DnsRecords
  <2>2. Placed(e)
    BY <1>2, <1>5, PlacedFailed
  <2>3. d.next \in 1 .. MaxServers /\ 0 \in 0 .. MaxNames
    BY <1>3, <1>5, Bounds
  <2> QED BY <1>2, <1>5, <2>1, <2>2, <2>3, SettlesFailed
<1>6. ASSUME d.live, d.next > d.servers, d.ready # <<>>, d.name <= d.names,
             e = IF d.at < Len(d.ready) THEN [d EXCEPT !.at = d.at + 1]
                 ELSE [d EXCEPT !.at = 1, !.name = d.name + 1]
      PROVE  /\ Placed(e) /\ e.run = d.run
             /\ Settles(e) = Settles(d) \cup {<<d.ready[d.at], d.name>>}
             /\ \A p \in Settles(d) : Before(p, <<d.ready[d.at], d.name>>)
             /\ d.ready[d.at] \in 1 .. MaxServers /\ d.name \in 0 .. MaxNames
  <2>1. e.run = d.run
    BY <1>3, <1>6 DEF DnsRecords
  <2>2. Placed(e)
    BY <1>2, <1>6, PlacedQuery
  <2>3. d.ready[d.at] \in 1 .. MaxServers /\ d.name \in 0 .. MaxNames
    <3>1. Len(d.ready) # 0 /\ Len(d.ready) \in Nat
      BY <1>3, <1>6, EmptySeq, LenProperties DEF DnsRecords
    <3>2. d.at \in 1 .. Len(d.ready)
      BY <1>2, <3>1 DEF Placed
    <3>3. d.ready[d.at] \in 1 .. d.next - 1 /\ d.next - 1 = d.servers
      BY <1>2, <1>6, <3>2, SetUpOver DEF Placed
    <3> QED BY <1>3, <1>6, <3>3, Bounds
  <2>4. /\ Settles(e) = Settles(d) \cup {<<d.ready[d.at], d.name>>}
        /\ \A p \in Settles(d) : Before(p, <<d.ready[d.at], d.name>>)
    BY <1>2, <1>6, SettlesQuery
  <2> QED BY <2>1, <2>2, <2>3, <2>4
<1>7. ASSUME d.live, d.next > d.servers, d.ready = <<>> \/ d.name > d.names,
             e = [NoDns EXCEPT !.run = d.run, !.names = d.names,
                               !.servers = d.servers, !.failed = d.failed]
      PROVE  Placed(e) /\ e.run = d.run /\ Settles(e) = Settles(d)
  BY <1>2, <1>7, SettlesOver
<1>8. CASE SetUpServer
  <2>1. d.live /\ d.next <= d.servers
    BY <1>1, <1>8 DEF SetUpServer, SettingUp
  <2>2. CASE /\ e = [d EXCEPT !.next = d.next + 1, !.ready = Append(d.ready, d.next)]
             /\ Quiet
    BY <1>1, <1>4, <2>1, <2>2
  <2>3. CASE /\ e = [d EXCEPT !.next = d.next + 1, !.failed = d.failed \cup {d.next}]
             /\ SendEvent(Answer(d.next, 0))
    BY <1>1, <1>5, <2>1, <2>3
  <2> QED BY <1>1, <1>3, <1>8, <2>2, <2>3 DEF SetUpServer, DnsRecords
<1>9. CASE Query
  <2>1. d.live /\ d.next > d.servers /\ d.ready # <<>> /\ d.name <= d.names
    BY <1>1, <1>3, <1>9 DEF Query, Queries, SettingUp
  <2>2. /\ e = IF d.at < Len(d.ready) THEN [d EXCEPT !.at = d.at + 1]
               ELSE [d EXCEPT !.at = 1, !.name = d.name + 1]
        /\ SendEvent(Answer(d.ready[d.at], d.name))
    BY <1>1, <1>3, <1>9 DEF Query, DnsRecords
  <2> QED BY <1>1, <1>6, <2>1, <2>2
<1>10. CASE FinishDns
  <2>1. d.live /\ d.next > d.servers /\ (d.ready = <<>> \/ d.name > d.names)
    BY <1>1, <1>3, <1>10 DEF FinishDns, Queries, SettingUp
  <2>2. e = [NoDns EXCEPT !.run = d.run, !.names = d.names,
                          !.servers = d.servers, !.failed = d.failed]
        /\ SendEvent(DnsDone)
    BY <1>1, <1>10 DEF FinishDns, DnsOver
  <2> QED BY <1>1, <1>7, <2>1, <2>2
<1> QED BY <1>8, <1>9, <1>10 DEF DnsStep

\* A step that sends at most one event, of job j.
Sends(j) == UNCHANGED chan \/ \E e : SendEvent(e) /\ e.job = j
\* Each thread sends events of its own job only.
LEMMA ThreadsSend ==
  /\ DnsStep => UNCHANGED starts /\ Sends("dns")
  /\ VendorStep => UNCHANGED starts /\ Sends("vendor")
  /\ Gathered => UNCHANGED starts /\ Sends("net")
  /\ PacketStep => UNCHANGED starts /\ Sends("packet")
<1> USE DEF Quiet, Sends
<1>1. \A e : SendEvent(e) => UNCHANGED starts
  BY DEF SendEvent
<1>2. ASSUME DnsStep PROVE UNCHANGED starts /\ Sends("dns")
  <2>1. (\A s, n : Answer(s, n).job = "dns") /\ DnsDone.job = "dns"
    BY DEF Answer, DnsDone
  <2>2. Quiet \/ (\E s, n : SendEvent(Answer(s, n))) \/ SendEvent(DnsDone)
    BY <1>2 DEF DnsStep, SetUpServer, Query, FinishDns
  <2> QED BY <1>1, <2>1, <2>2
<1>3. ASSUME VendorStep PROVE UNCHANGED starts /\ Sends("vendor")
  <2>1. /\ \A o, r : [job |-> "vendor", oui |-> o, run |-> r].job = "vendor"
        /\ VendorError.job = "vendor" /\ VendorDone.job = "vendor"
    BY DEF VendorError, VendorDone
  <2>2. \/ Quiet
        \/ \E o, r : SendEvent([job |-> "vendor", oui |-> o, run |-> r])
        \/ SendEvent(VendorError) \/ SendEvent(VendorDone)
    BY <1>3 DEF VendorStep, OpenDatabase, LookUpNext, FinishVendors
  <2> QED BY <1>1, <2>1, <2>2
<1>4. ASSUME Gathered PROVE UNCHANGED starts /\ Sends("net")
  <2>1. NetReady.job = "net" /\ SendEvent(NetReady)
    BY <1>4 DEF NetReady, Gathered
  <2> QED BY <1>1, <2>1
<1>5. ASSUME PacketStep PROVE UNCHANGED starts /\ Sends("packet")
  <2>1. \A r, i : [job |-> "packet", run |-> r, i |-> i].job = "packet"
    OBVIOUS
  <2>2. Quiet \/ \E r, i : SendEvent([job |-> "packet", run |-> r, i |-> i])
    BY <1>5 DEF PacketStep, Resolve, NextPacket, Emit, FinishPacket
  <2> QED BY <1>1, <2>1, <2>2
<1> QED BY <1>2, <1>3, <1>4, <1>5

\* A page drawn or a click sends nothing.
LEMMA PagesSend ==
  ASSUME \/ ShowPage \/ ResolveClicked \/ ClearDns \/ BulkClicked \/ OneClicked
         \/ RefreshClicked \/ AutoClicked \/ SendClicked \/ StopPacket \/ ClearPacket
  PROVE  UNCHANGED chan /\ (Launch \/ UNCHANGED starts)
BY DEF ShowPage, ShowNet, NetPageTop, Refresh, ResolveClicked, ClearDns,
       BulkClicked, OneClicked, RefreshClicked, AutoClicked, SendClicked,
       StopPacket, ClearPacket, Click, DrawPage

\* The other components send no answers.
LEMMA StepsForAnswers ==
  ASSUME [Next]_vars
  PROVE  \/ (RepaintFrame \/ InputFrame) /\ DrainAll
         \/ DnsStep /\ DnsOnly
         \/ ResolveClicked
         \/ ClearDns
         \/ /\ DnsOthers /\ (Launch \/ UNCHANGED starts)
            /\ UNCHANGED chan \/ \E e : SendEvent(e) /\ e.job # "dns"
<1> USE DEF Sends
<1>1. CASE UNCHANGED vars
  BY <1>1 DEF vars, DnsOthers
<1>2. CASE UIStep
  BY <1>2, PagesSend DEF UIStep, ShowPage, NetOnly, DnsOthers
<1>3. CASE UserStep
  BY <1>3, PagesSend DEF UserStep, VendorOnly, NetOnly, PacketOnly, DnsOthers
<1>4. CASE Threads
  <2>1. CASE VendorStep /\ VendorOnly
    BY <2>1, ThreadsSend DEF VendorOnly, DnsOthers
  <2>2. CASE Gathered /\ NetOnly
    BY <2>2, ThreadsSend DEF NetOnly, DnsOthers
  <2>3. CASE PacketStep /\ PacketOnly
    BY <2>3, ThreadsSend DEF PacketOnly, DnsOthers
  <2> QED BY <1>4, <2>1, <2>2, <2>3 DEF Threads
<1> QED BY <1>1, <1>2, <1>3, <1>4 DEF Next

\* Nothing has been asked at the start.
LEMMA AnswersInit == Init => AnswersInv
<1> SUFFICES ASSUME Init PROVE AnswersInv
  OBVIOUS
<1> USE DEF Init, FrameInit, DnsInit
<1>1. Placed(dnsThread)
  <2>1. PICK d : d = NoDns
    OBVIOUS
  <2>2. /\ d \in DnsRecords /\ d.live = FALSE /\ d.run = 0 /\ d.names = 0
        /\ d.servers = 0 /\ d.next = 1 /\ d.ready = <<>> /\ d.failed = {}
        /\ d.name = 1 /\ d.at = 1
    BY <2>1 DEF NoDns, DnsRecords
  <2>3. 0 <= MaxNames /\ 0 <= MaxServers
    BY Bounds
  <2>4. Len(d.ready) = 0 /\ \A i \in 1 .. Len(d.ready) : FALSE
    BY <2>2
  <2>5. Placed(d)
    BY <2>2, <2>3, <2>4 DEF Placed
  <2> QED BY <2>1, <2>5
<1>2. Answers = <<>>
  BY KeptNone DEF Answers
<1>3. \A i \in 1 .. Len(Answers) : FALSE
  BY <1>2
<1>4. Settles(dnsThread) = {}
  BY DEF Settles, NoDns
<1>5. InOrder(Answers, dnsThread.run, {}, dnsCleared)
  BY <1>3, OrderNew
<1>6. dnsThread.run <= starts /\ starts \in Nat
  BY DEF NoDns
<1> QED BY <1>1, <1>3, <1>4, <1>5, <1>6 DEF AnswersInv

\* Draining moves answers from the channel to the page.
LEMMA AnswersDrained ==
  ASSUME FlagsOK, dnsResults \in Seq(DnsAnswers), chan' = <<>>, DrainDns
  PROVE  dnsResults' \in Seq(DnsAnswers) /\ Answers' = Answers
<1>1. dnsResults' = Answers /\ Answers \in Seq(DnsAnswers)
  BY AnswersTypes DEF DrainDns, Answers
<1>2. Kept(chan', DnsAnswers) = <<>>
  BY KeptNone
<1>3. Answers' = dnsResults' \o <<>>
  BY <1>2 DEF Answers
<1> QED BY <1>1, <1>3

\* Of one more answer, the run is that of the thread.
LEMMA RunsKept ==
  ASSUME NEW X, NEW A \in Seq(X), NEW a \in X, NEW n, a.run <= n,
         \A i \in 1 .. Len(A) : A[i].run <= n
  PROVE  \A i \in 1 .. Len(Append(A, a)) : Append(A, a)[i].run <= n
<1> DEFINE B == Append(A, a)
<1>1. /\ Len(A) \in Nat /\ Len(B) = Len(A) + 1 /\ B[Len(A) + 1] = a
      /\ \A i \in 1 .. Len(A) : B[i] = A[i]
  BY AppendProperties, LenProperties
<1> HIDE DEF B
<1>2. \A i \in 1 .. Len(B) : i \in 1 .. Len(A) \/ i = Len(A) + 1
  BY <1>1
<1>3. \A i \in 1 .. Len(B) : B[i].run <= n
  BY <1>1, <1>2
<1> QED BY <1>3 DEF B

\* Every step keeps the inductive invariant.
LEMMA AnswersStep ==
  ASSUME JobsInv, AnswersInv, [Next]_vars
  PROVE  AnswersInv'
<1>1. /\ FlagsOK /\ Placed(dnsThread) /\ dnsThread.run <= starts /\ starts \in Nat
      /\ dnsThread.run \in Nat
      /\ dnsResults \in Seq(DnsAnswers) /\ Answers \in Seq(DnsAnswers)
      /\ \A i \in 1 .. Len(Answers) : Answers[i].run <= starts
      /\ InOrder(Answers, dnsThread.run, Settles(dnsThread), dnsCleared)
  BY AnswersTypes, PlacedTypes DEF JobsInv, AnswersInv
<1>2. CASE (RepaintFrame \/ InputFrame) /\ DrainAll
  <2>1. /\ chan' = <<>> /\ DrainDns /\ UNCHANGED <<starts, dnsThread, dnsCleared>>
    BY <1>2 DEF RepaintFrame, InputFrame, BeginFrame, DrainAll, DrainDns
  <2>2. dnsResults' \in Seq(DnsAnswers) /\ Answers' = Answers
    BY <1>1, <2>1, AnswersDrained
  <2> QED BY <1>1, <2>1, <2>2 DEF AnswersInv
<1>3. CASE DnsStep /\ DnsOnly
  <2>1. UNCHANGED <<starts, dnsResults, dnsCleared>>
    BY <1>3, ThreadsSend DEF DnsStep, SetUpServer, Query, FinishDns
  <2>2. Placed(dnsThread') /\ dnsThread'.run = dnsThread.run
    BY <1>1, <1>3, DnsAnswering
  <2>3. CASE /\ Quiet \/ SendEvent(DnsDone)
             /\ Settles(dnsThread') = Settles(dnsThread)
    <3>1. DnsDone \notin DnsAnswers
      BY DEF DnsDone, DnsAnswers
    <3>2. Answers' = Answers
      <4>1. CASE Quiet
        BY <2>1, <4>1 DEF Quiet, Answers
      <4>2. CASE SendEvent(DnsDone)
        BY <1>1, <2>1, <3>1, <4>2, AnswersSent
      <4> QED BY <2>3, <4>1, <4>2
    <3> QED BY <1>1, <2>1, <2>2, <2>3, <3>2 DEF AnswersInv
  <2>4. ASSUME NEW s \in 1 .. MaxServers, NEW n \in 0 .. MaxNames,
               SendEvent(Answer(s, n)),
               Settles(dnsThread') = Settles(dnsThread) \cup {<<s, n>>},
               \A p \in Settles(dnsThread) : Before(p, <<s, n>>)
        PROVE  AnswersInv'
    <3>1. PICK a : a = Answer(s, n)
      OBVIOUS
    <3>2. a \in DnsAnswers /\ a.run = dnsThread.run /\ At(a) = <<s, n>>
      BY <1>1, <3>1 DEF Answer, DnsAnswers, At
    <3>3. Answers' = Append(Answers, a)
      BY <1>1, <2>1, <2>4, <3>1, <3>2, AnswersSent
    <3>4. PICK A, S, r, c, m : /\ A = Answers /\ S = Settles(dnsThread) /\ r = dnsThread.run
                               /\ c = dnsCleared /\ m = starts
      OBVIOUS
    <3>5. InOrder(Append(A, a), r, S \cup {At(a)}, c)
      BY <1>1, <2>4, <3>2, <3>4, OrderMore
    <3>6. \A i \in 1 .. Len(Append(A, a)) : Append(A, a)[i].run <= m
      BY <1>1, <3>2, <3>4, RunsKept
    <3> QED BY <1>1, <2>1, <2>2, <2>4, <3>2, <3>3, <3>4, <3>5, <3>6 DEF AnswersInv
  <2> QED BY <1>1, <1>3, <2>3, <2>4, DnsAnswering
<1>4. CASE ResolveClicked
  <2>1. starts' = starts + 1 /\ UNCHANGED <<chan, dnsResults>>
    BY <1>4 DEF ResolveClicked, Launch, Click, DrawPage
  <2>2. PICK n \in NameCounts, s \in ServerCounts : dnsThread' = Started(n, s)
    BY <1>4 DEF ResolveClicked
  <2>3. starts' \in Nat /\ starts < starts'
    BY <1>1, <2>1
  <2>4. Placed(dnsThread') /\ Settles(dnsThread') = {} /\ dnsThread'.run = starts'
    BY <2>2, <2>3, SettlesNew DEF Started
  <2>5. Answers' = Answers
    BY <2>1 DEF Answers
  <2>6. \A i \in 1 .. Len(Answers) : /\ Answers[i].run <= starts'
                                     /\ Answers[i].run # starts'
    <3> TAKE i \in 1 .. Len(Answers)
    <3>1. Answers[i] \in DnsAnswers /\ Answers[i].run <= starts
      BY <1>1, ElementOfSeq
    <3>2. Answers[i].run \in Nat
      BY <3>1 DEF DnsAnswers
    <3> QED BY <1>1, <2>3, <3>1, <3>2
  <2>7. InOrder(Answers, starts', {}, dnsCleared')
    BY <2>6, OrderNew
  <2> QED BY <1>1, <2>1, <2>3, <2>4, <2>5, <2>6, <2>7 DEF AnswersInv
<1>5. CASE ClearDns
  <2>1. /\ UNCHANGED <<starts, chan, dnsThread>>
        /\ dnsResults' = <<>> /\ dnsCleared' = TRUE
    BY <1>5 DEF ClearDns, Click, DrawPage
  <2>2. PICK B, C, S, r, c : /\ B = dnsResults /\ C = Kept(chan, DnsAnswers)
                             /\ S = Settles(dnsThread) /\ r = dnsThread.run
                             /\ c = dnsCleared
    OBVIOUS
  <2>3. B \in Seq(DnsAnswers) /\ C \in Seq(DnsAnswers) /\ InOrder(B \o C, r, S, c)
    BY <1>1, <2>2, AnswersTypes DEF Answers
  <2>4. InOrder(C, r, S, TRUE)
    BY <2>3, OrderCleared
  <2>5. Answers' = C
    BY <2>1, <2>2, <2>3 DEF Answers
  <2>6. \A i \in 1 .. Len(C) : C[i].run <= starts
    <3>1. /\ Len(B) \in Nat /\ Len(C) \in Nat /\ Len(B \o C) = Len(B) + Len(C)
          /\ \A i \in 1 .. Len(B) + Len(C) :
               (B \o C)[i] = IF i <= Len(B) THEN B[i] ELSE C[i - Len(B)]
      BY <2>3, ConcatProperties, LenProperties
    <3> TAKE i \in 1 .. Len(C)
    <3>2. i + Len(B) \in 1 .. Len(B) + Len(C) /\ ~(i + Len(B) <= Len(B))
          /\ (i + Len(B)) - Len(B) = i
      BY <3>1
    <3>3. (B \o C)[i + Len(B)] = C[i]
      BY <3>1, <3>2
    <3> QED BY <1>1, <2>2, <3>1, <3>2, <3>3 DEF Answers
  <2>7. dnsResults' \in Seq(DnsAnswers)
    BY <2>1, EmptySeq
  <2> QED BY <1>1, <2>1, <2>2, <2>4, <2>5, <2>6, <2>7 DEF AnswersInv
<1>6. CASE /\ DnsOthers /\ (Launch \/ UNCHANGED starts)
           /\ UNCHANGED chan \/ \E e : SendEvent(e) /\ e.job # "dns"
  <2>1. UNCHANGED <<dnsResults, dnsThread, dnsCleared>>
    BY <1>6 DEF DnsOthers, dnsVars
  <2>2. starts' \in Nat /\ starts <= starts'
    BY <1>1, <1>6 DEF Launch
  <2>3. Answers' = Answers
    <3>1. CASE UNCHANGED chan
      BY <2>1, <3>1 DEF Answers
    <3>2. ASSUME NEW e, SendEvent(e), e.job # "dns" PROVE Answers' = Answers
      <4>1. e \notin DnsAnswers
        BY <3>2 DEF DnsAnswers
      <4> QED BY <1>1, <2>1, <3>2, <4>1, AnswersSent
    <3> QED BY <1>6, <3>1, <3>2
  <2>4. \A i \in 1 .. Len(Answers) : Answers[i].run <= starts'
    <3> TAKE i \in 1 .. Len(Answers)
    <3>1. Answers[i] \in DnsAnswers /\ Answers[i].run <= starts
      BY <1>1, ElementOfSeq
    <3>2. Answers[i].run \in Nat
      BY <3>1 DEF DnsAnswers
    <3> QED BY <1>1, <2>2, <3>1, <3>2
  <2>5. dnsThread.run <= starts'
    BY <1>1, <2>2
  <2> QED BY <1>1, <2>1, <2>2, <2>3, <2>4, <2>5 DEF AnswersInv
<1> QED BY <1>2, <1>3, <1>4, <1>5, <1>6, StepsForAnswers

\* No answer of a lookup is lost, doubled or out of order, whatever is cleared
\* (dns::start, drain_events, ui_dns): for any number of names, servers and
\* runs, and beside any other jobs.
THEOREM DnsAnswersComplete == Spec => []AnswersComplete
<1>1. JobsInv /\ AnswersInv => AnswersComplete
  <2> SUFFICES ASSUME JobsInv, AnswersInv PROVE AnswersComplete
    OBVIOUS
  <2> DEFINE d == dnsThread
             S == Settles(d)
  <2>1. Placed(d) /\ InOrder(Answers, d.run, S, dnsCleared)
    BY DEF AnswersInv
  <2>2. Expected = Owes(d) /\ S \subseteq Owes(d)
    BY DEF Expected, Owes, Settles
  <2>3. Delivered = Got(Answers, d.run)
    BY DEF Delivered, Own, AnswerAt, Got, At
  <2>4. Delivered \subseteq Expected
    BY <2>1, <2>2, <2>3 DEF InOrder
  <2>5. \A i, j \in Own : i < j => Before(AnswerAt(i), AnswerAt(j))
    BY <2>1 DEF InOrder, Own, AnswerAt, At
  <2>6. ASSUME NEW q \in Expected \ Delivered
        PROVE  \/ dnsCleared /\ \A p \in Delivered : Before(q, p)
               \/ /\ ~(~dnsRunning \/ InChan({DnsDone}))
                  /\ \A p \in Delivered : Before(p, q)
    <3>1. CASE q \in S
      BY <2>1, <2>3, <2>6, <3>1 DEF InOrder
    <3>2. CASE q \notin S
      <4>1. ASSUME NEW p \in Delivered PROVE Before(p, q)
        <5>1. p \in S
          BY <2>1, <2>3, <4>1 DEF InOrder
        <5> HIDE DEF d
        <5> QED BY <2>1, <2>2, <3>2, <5>1, Ahead
      <4>2. d.live
        BY <2>2, <2>6, <3>2 DEF Owes, Settles
      <4>3. dnsRunning /\ ~InChan({DnsDone})
        BY <4>2 DEF JobsInv, DoneIsLast, JobsKeepFramesComing
      <4> QED BY <4>1, <4>3
    <3> QED BY <3>1, <3>2
  <2> QED BY <2>4, <2>5, <2>6 DEF AnswersComplete
<1> QED
  BY <1>1, JobsInvInit, JobsInvStep, AnswersInit, AnswersStep, PTL DEF Spec

-----------------------------------------------------------------------------
(* The vendors.  An address behind the thread has its vendor, on the page   *)
(* or on its way there.                                                     *)

\* The last run has found this vendor.
OnItsWay(o) == \E i \in 1 .. Len(chan) : chan[i] \in VendorFound /\ chan[i].oui = o
Found(o) == vendors[o] = vendorThread.run \/ OnItsWay(o)

\* Only the last run's vendors are still to be shown.
AllOfLastRun ==
  \A i \in 1 .. Len(chan) :
    chan[i] \in VendorFound => chan[i].run = vendorThread.run

\* The inductive invariant.
VendorInv ==
  /\ vendors \in [Ouis -> Nat] /\ lastBulk \in Nat
  /\ lastBulk <= vendorThread.run /\ vendorThread.run <= starts
  /\ vendorThread.at <= Len(vendorThread.macs) + 1
  /\ \A o \in Ouis : vendors[o] # 0 => vendors[o] >= lastBulk
  /\ AllOfLastRun
  /\ \A o \in vendorThread.seen : Found(o)
  /\ ~vendorThread.failed =>
       \A i \in 1 .. Len(vendorThread.macs) :
         (vendorThread.pc = "none" \/ i < vendorThread.at)
           /\ vendorThread.macs[i] \in Ouis => Found(vendorThread.macs[i])

\* A list of addresses is a sequence of them.
LEMMA MacListMembers ==
  ASSUME NEW m \in {<<>>} \cup MacLists
  PROVE  /\ DOMAIN m = 1 .. Len(m) /\ Len(m) \in Nat
         /\ \A i \in 1 .. Len(m) : m[i] \in Ouis \cup {NoOui}
<1>1. CASE m = <<>>
  <2>1. DOMAIN m = {} /\ Len(m) = 0 /\ 1 .. 0 = {}
    BY <1>1
  <2> QED BY <2>1
<1>2. CASE m \in MacLists
  <2>1. PICK n \in 1 .. MaxMacs : m \in [1 .. n -> Ouis \cup {NoOui}]
    BY <1>2 DEF MacLists
  <2>2. Len(m) = n /\ n \in Nat
    BY <2>1, VendorAssumption
  <2> QED BY <2>1, <2>2
<1> QED BY <1>1, <1>2

\* The channel after one more event.
LEMMA ChanMore ==
  ASSUME FlagsOK, NEW e, SendEvent(e)
  PROVE  /\ Len(chan) \in Nat /\ Len(chan') = Len(chan) + 1
         /\ chan'[Len(chan')] = e
         /\ \A i \in 1 .. Len(chan) : i \in 1 .. Len(chan') /\ chan'[i] = chan[i]
         /\ \A i \in 1 .. Len(chan') : i \in 1 .. Len(chan) \/ i = Len(chan')
<1> DEFINE S == {chan[i] : i \in DOMAIN chan} \cup {e}
<1>1. chan \in Seq(S) /\ e \in S
  BY SeqMonotonic DEF FlagsOK
<1>2. /\ Len(chan) \in Nat /\ Len(chan') = Len(chan) + 1 /\ chan'[Len(chan) + 1] = e
      /\ \A i \in 1 .. Len(chan) : chan'[i] = chan[i]
  <2> HIDE DEF S
  <2> QED BY <1>1, AppendProperties, LenProperties DEF SendEvent
<1> QED BY <1>2

\* The other components send no vendors.
LEMMA StepsForVendorEvents ==
  ASSUME [Next]_vars
  PROVE  \/ (RepaintFrame \/ InputFrame) /\ DrainAll
         \/ VendorStep /\ VendorOnly
         \/ BulkClicked
         \/ OneClicked
         \/ /\ VendorOthers /\ (Launch \/ UNCHANGED starts)
            /\ UNCHANGED chan \/ \E e : SendEvent(e) /\ e.job # "vendor"
<1> USE DEF Sends
<1>1. CASE UNCHANGED vars
  BY <1>1 DEF vars, VendorOthers
<1>2. CASE UIStep
  BY <1>2, PagesSend DEF UIStep, ShowPage, NetOnly, VendorOthers
<1>3. CASE UserStep
  BY <1>3, PagesSend DEF UserStep, DnsOnly, NetOnly, PacketOnly, VendorOthers
<1>4. CASE Threads
  <2>1. CASE DnsStep /\ DnsOnly
    BY <2>1, ThreadsSend DEF DnsOnly, VendorOthers
  <2>2. CASE Gathered /\ NetOnly
    BY <2>2, ThreadsSend DEF NetOnly, VendorOthers
  <2>3. CASE PacketStep /\ PacketOnly
    BY <2>3, ThreadsSend DEF PacketOnly, VendorOthers
  <2> QED BY <1>4, <2>1, <2>2, <2>3 DEF Threads
<1> QED BY <1>1, <1>2, <1>3, <1>4 DEF Next

\* A drain shows what was on its way.
LEMMA VendorsDrained ==
  ASSUME FlagsOK, AllOfLastRun, DrainVendors, NEW o \in Ouis
  PROVE  vendors'[o] = IF OnItsWay(o) THEN vendorThread.run ELSE vendors[o]
<1> DEFINE E == {e \in VendorFound : e.oui = o}
           T == {chan[i] : i \in 1 .. Len(chan)} \cap E
           K == Kept(chan, E)
<1>1. Len(chan) \in Nat
  BY LenProperties DEF FlagsOK
<1>2. K \in Seq(T) /\ (K = <<>> <=> \A i \in 1 .. Len(chan) : chan[i] \notin E)
  <2> HIDE DEF E
  <2> QED BY <1>1, KeptTypes
<1>3. vendors'[o] = IF K = <<>> THEN vendors[o] ELSE K[Len(K)].run
  BY DEF DrainVendors
<1>4. OnItsWay(o) <=> K # <<>>
  <2>1. OnItsWay(o) <=> \E i \in 1 .. Len(chan) : chan[i] \in E
    BY DEF OnItsWay
  <2> HIDE DEF E, K
  <2> QED BY <1>2, <2>1
<1>5. ASSUME K # <<>> PROVE K[Len(K)].run = vendorThread.run
  <2>1. K[Len(K)] \in T
    <3> HIDE DEF K, T
    <3>1. Len(K) \in Nat /\ Len(K) # 0
      BY <1>2, <1>5, EmptySeq, LenProperties
    <3>2. Len(K) \in 1 .. Len(K)
      BY <3>1
    <3> QED BY <1>2, <3>2, ElementOfSeq
  <2>2. PICK x : x = K[Len(K)]
    OBVIOUS
  <2>3. PICK i \in 1 .. Len(chan) : x = chan[i] /\ x \in VendorFound
    BY <2>1, <2>2
  <2> HIDE DEF K, T, E
  <2> QED BY <2>2, <2>3 DEF AllOfLastRun
<1> HIDE DEF K
<1> QED BY <1>3, <1>4, <1>5

\* What is found stays found when something is sent.
LEMMA FoundStays ==
  ASSUME FlagsOK, UNCHANGED vendors, vendorThread'.run = vendorThread.run,
         UNCHANGED chan \/ \E e : SendEvent(e), NEW o, Found(o)
  PROVE  Found(o)'
<1>1. CASE UNCHANGED chan
  BY <1>1 DEF Found, OnItsWay
<1>2. ASSUME NEW e, SendEvent(e) PROVE Found(o)'
  BY <1>2, ChanMore DEF Found, OnItsWay
<1> QED BY <1>1, <1>2

\* Nor does an event that is no vendor, or one of this run, bring an old one.
LEMMA LastRunStays ==
  ASSUME FlagsOK, AllOfLastRun, vendorThread'.run = vendorThread.run,
         \/ UNCHANGED chan
         \/ \E e : SendEvent(e) /\ (e \in VendorFound => e.run = vendorThread.run)
  PROVE  AllOfLastRun'
<1>1. CASE UNCHANGED chan
  BY <1>1 DEF AllOfLastRun
<1>2. ASSUME NEW e, SendEvent(e), e \in VendorFound => e.run = vendorThread.run
      PROVE  AllOfLastRun'
  BY <1>2, ChanMore DEF AllOfLastRun
<1> QED BY <1>1, <1>2

\* No vendor has been found at the start.
LEMMA VendorInvInit == Init => VendorInv
<1> SUFFICES ASSUME Init PROVE VendorInv
  OBVIOUS
<1>1. /\ chan = <<>> /\ vendors = [o \in Ouis |-> 0] /\ lastBulk = 0 /\ starts = 0
      /\ vendorThread = NoVendorThread
  BY DEF Init, FrameInit, VendorInit
<1>2. Len(chan) = 0 /\ \A i \in 1 .. Len(chan) : FALSE
  BY <1>1
<1>3. /\ vendorThread.run = 0 /\ vendorThread.at = 1 /\ vendorThread.seen = {}
      /\ vendorThread.macs = <<>>
  BY <1>1 DEF NoVendorThread
<1>4. Len(vendorThread.macs) = 0 /\ \A i \in 1 .. Len(vendorThread.macs) : FALSE
  BY <1>3
<1> QED BY <1>1, <1>2, <1>3, <1>4 DEF VendorInv, AllOfLastRun

\* A drain loses no vendor.
LEMMA VendorInvDrained ==
  ASSUME FlagsOK, JobsShape, VendorInv, chan' = <<>>, DrainVendors, UNCHANGED starts
  PROVE  VendorInv'
<1>1. /\ vendorThread.run \in Nat /\ vendorThread.seen \subseteq Ouis
      /\ vendors \in [Ouis -> Nat] /\ AllOfLastRun /\ lastBulk \in Nat
      /\ lastBulk <= vendorThread.run
  BY DEF JobsShape, VendorRecords, VendorInv
<1>2. UNCHANGED <<vendorThread, lastBulk>>
  BY DEF DrainVendors
<1>3. \A o \in Ouis :
        vendors'[o] = IF OnItsWay(o) THEN vendorThread.run ELSE vendors[o]
  BY <1>1, VendorsDrained
<1>4. vendors' \in [Ouis -> Nat]
  <2>1. PICK V : V = vendors'
    OBVIOUS
  <2>2. \A o \in Ouis : V[o] \in Nat
    BY <1>1, <1>3, <2>1
  <2>3. V = [o \in Ouis |-> V[o]]
    BY <2>1 DEF DrainVendors
  <2> QED BY <2>1, <2>2, <2>3
<1>5. \A o \in Ouis : vendors'[o] # 0 => vendors'[o] >= lastBulk
  BY <1>1, <1>3 DEF VendorInv
<1>6. ASSUME NEW o \in Ouis, Found(o) PROVE Found(o)'
  BY <1>2, <1>3, <1>6 DEF Found
<1>7. AllOfLastRun'
  <2>1. Len(chan') = 0 /\ \A i \in 1 .. Len(chan') : FALSE
    OBVIOUS
  <2> QED BY <2>1 DEF AllOfLastRun
<1> QED BY <1>1, <1>2, <1>4, <1>5, <1>6, <1>7 DEF VendorInv

\* A lookup answers each address, but for those of before.
LEMMA VendorInvLookedUp ==
  ASSUME FlagsOK, JobsShape, VendorInv, VendorStep, UNCHANGED starts
  PROVE  VendorInv'
<1>1. PICK t, u : t = vendorThread /\ u = vendorThread'
  OBVIOUS
<1> DEFINE l == Len(t.macs)
<1>2. /\ t \in VendorRecords /\ t.run \in Nat /\ t.seen \subseteq Ouis
      /\ t.at \in Nat \ {0} /\ l \in Nat
      /\ \A i \in 1 .. l : t.macs[i] \in Ouis \cup {NoOui}
  <2>1. t \in VendorRecords
    BY <1>1 DEF JobsShape
  <2>2. t.macs \in {<<>>} \cup MacLists
    BY <2>1 DEF VendorRecords
  <2> QED BY <2>1, <2>2, MacListMembers DEF VendorRecords
<1>3. /\ AllOfLastRun /\ t.at <= l + 1
      /\ \A o \in t.seen : Found(o)
      /\ ~t.failed => \A i \in 1 .. l :
           (t.pc = "none" \/ i < t.at) /\ t.macs[i] \in Ouis => Found(t.macs[i])
  BY <1>1 DEF VendorInv
<1>4. UNCHANGED <<vendors, lastBulk>>
  BY DEF VendorStep, OpenDatabase, LookUpNext, FinishVendors
<1>5. SUFFICES
        /\ u.run = t.run /\ u.macs = t.macs /\ u.at <= l + 1
        /\ AllOfLastRun'
        /\ \A o \in u.seen : Found(o)'
        /\ ~u.failed => \A i \in 1 .. l :
             (u.pc = "none" \/ i < u.at) /\ t.macs[i] \in Ouis => Found(t.macs[i])'
  BY <1>1, <1>4 DEF VendorInv
<1>6. VendorError \notin VendorFound /\ VendorDone \notin VendorFound
  BY DEF VendorError, VendorDone, VendorFound
<1> HIDE DEF l
<1>7. CASE OpenDatabase
  <2>1. CASE u = [t EXCEPT !.pc = "run"] /\ Quiet
    <3>1. /\ u.run = t.run /\ u.macs = t.macs /\ u.at = t.at /\ u.seen = t.seen
          /\ u.failed = t.failed /\ u.pc = "run"
      BY <1>2, <2>1 DEF VendorRecords
    <3>2. UNCHANGED chan
      BY <2>1 DEF Quiet
    <3>3. AllOfLastRun' /\ \A o : Found(o) => Found(o)'
      BY <1>1, <1>3, <1>4, <3>1, <3>2, LastRunStays, FoundStays
    <3> QED BY <1>3, <3>1, <3>3
  <2>2. CASE /\ u = [t EXCEPT !.pc = "run", !.failed = TRUE, !.at = l + 1]
             /\ SendEvent(VendorError)
    <3>1. /\ u.run = t.run /\ u.macs = t.macs /\ u.at = l + 1 /\ u.seen = t.seen
          /\ u.failed = TRUE
      BY <1>2, <2>2 DEF VendorRecords
    <3>2. AllOfLastRun' /\ \A o : Found(o) => Found(o)'
      BY <1>1, <1>3, <1>4, <1>6, <2>2, <3>1, LastRunStays, FoundStays
    <3> QED BY <1>2, <1>3, <3>1, <3>2
  <2> QED BY <1>1, <1>7, <2>1, <2>2 DEF OpenDatabase, l
<1>8. CASE LookUpNext
  <2>1. PICK o : o = t.macs[t.at]
    OBVIOUS
  <2>2. t.pc = "run" /\ t.at \in 1 .. l /\ o \in Ouis \cup {NoOui}
    BY <1>1, <1>2, <1>8, <2>1 DEF LookUpNext, VendorLeft, l
  <2>3. PICK S : /\ S = t.seen \/ S = t.seen \cup ({o} \ {NoOui})
                 /\ u = [t EXCEPT !.at = t.at + 1, !.seen = S]
    BY <1>1, <1>2, <1>8, <2>1 DEF LookUpNext, VendorRecords
  <2>4. /\ u.run = t.run /\ u.macs = t.macs /\ u.at = t.at + 1 /\ u.seen = S
        /\ u.failed = t.failed /\ u.pc = "run"
    BY <1>2, <2>2, <2>3 DEF VendorRecords
  <2>5. PICK e : e = [job |-> "vendor", oui |-> o, run |-> t.run]
    OBVIOUS
  <2>6. \/ (o = NoOui \/ o \in t.seen) /\ UNCHANGED chan
        \/ o \in Ouis /\ SendEvent(e)
    BY <1>1, <1>8, <2>1, <2>2, <2>5 DEF LookUpNext, Quiet
  <2>7. e.run = t.run
    BY <2>5
  <2>8. AllOfLastRun' /\ \A p : Found(p) => Found(p)'
    BY <1>1, <1>3, <1>4, <2>4, <2>6, <2>7, LastRunStays, FoundStays
  <2>9. o \in Ouis => Found(o)'
    <3>1. CASE o \in t.seen
      BY <1>3, <2>8, <3>1
    <3>2. CASE o \in Ouis /\ SendEvent(e)
      <4>1. e \in VendorFound /\ e.oui = o
        BY <1>2, <2>5, <3>2 DEF VendorFound
      <4>2. Len(chan') \in 1 .. Len(chan') /\ chan'[Len(chan')] = e
        BY <3>2, ChanMore
      <4> QED BY <4>1, <4>2 DEF Found, OnItsWay
    <3> QED BY <2>6, <3>1, <3>2, VendorAssumption
  <2>10. \A p \in S : Found(p)'
    BY <1>3, <2>2, <2>3, <2>8, <2>9
  <2>11. ASSUME ~t.failed, NEW i \in 1 .. l, i < t.at + 1, t.macs[i] \in Ouis
         PROVE  Found(t.macs[i])'
    <3>1. i < t.at \/ i = t.at
      BY <1>2, <2>11
    <3> QED BY <1>3, <2>1, <2>8, <2>9, <2>11, <3>1
  <2>12. u.at <= l + 1
    BY <1>2, <2>2, <2>4
  <2> QED BY <2>4, <2>8, <2>10, <2>11, <2>12
<1>9. CASE FinishVendors
  <2>1. u = [pc |-> "none", online |-> FALSE, run |-> t.run, macs |-> t.macs,
             at |-> 1, seen |-> {}, failed |-> t.failed]
        /\ SendEvent(VendorDone)
    BY <1>1, <1>9 DEF FinishVendors, NoVendorThread
  <2>2. ~(t.at <= l)
    BY <1>1, <1>9 DEF FinishVendors, VendorLeft, l
  <2>3. /\ u.run = t.run /\ u.macs = t.macs /\ u.at = 1 /\ u.seen = {}
        /\ u.failed = t.failed
    BY <2>1
  <2>4. AllOfLastRun' /\ \A o : Found(o) => Found(o)'
    BY <1>1, <1>3, <1>4, <1>6, <2>1, <2>3, LastRunStays, FoundStays
  <2>5. \A i \in 1 .. l : i < t.at
    BY <1>2, <2>2
  <2>6. u.at <= l + 1
    BY <1>2, <2>3
  <2> QED BY <1>3, <2>3, <2>4, <2>5, <2>6
<1> QED BY <1>7, <1>8, <1>9 DEF VendorStep

\* A new lookup finds no vendor of the last one in the channel.
LEMMA VendorInvStarted ==
  ASSUME JobsInv, JobsShape, VendorInv, BulkClicked \/ OneClicked
  PROVE  VendorInv'
<1>1. /\ vendorThread' \in VendorRecords /\ vendorThread'.at = 1
      /\ vendorThread'.pc # "none" /\ vendorThread'.seen = {}
      /\ vendorThread'.run = starts' /\ starts' \in Nat
  BY VendorStarts
<1>2. Len(vendorThread'.macs) \in Nat
  <2>1. vendorThread'.macs \in {<<>>} \cup MacLists
    BY <1>1 DEF VendorRecords
  <2> QED BY <2>1, MacListMembers
<1>3. /\ starts \in Nat /\ starts' = starts + 1 /\ UNCHANGED chan /\ ~vendorRunning
  BY DEF JobsShape, BulkClicked, OneClicked, Launch, Click, DrawPage
<1>4. AllOfLastRun'
  <2>1. ~Pending("vendor")
    BY <1>3 DEF JobsInv, JobsKeepFramesComing
  <2>2. \A i \in 1 .. Len(chan) : chan[i] \notin VendorFound
    BY <2>1 DEF Pending, VendorFound
  <2> QED BY <1>3, <2>2 DEF AllOfLastRun
<1>5. /\ vendors \in [Ouis -> Nat] /\ lastBulk \in Nat /\ vendorThread.run \in Nat
      /\ lastBulk <= vendorThread.run /\ vendorThread.run <= starts
      /\ \A o \in Ouis : vendors[o] # 0 => vendors[o] >= lastBulk
  BY DEF JobsShape, VendorRecords, VendorInv
<1>6. /\ vendors' \in [Ouis -> Nat] /\ lastBulk' \in Nat /\ lastBulk' <= starts'
      /\ \A o \in Ouis : vendors'[o] # 0 => vendors'[o] >= lastBulk'
  <2>1. CASE BulkClicked
    <3>1. vendors' = [o \in Ouis |-> 0] /\ lastBulk' = starts'
      BY <2>1 DEF BulkClicked
    <3> QED BY <1>1, <3>1
  <2>2. CASE OneClicked
    <3>1. UNCHANGED <<vendors, lastBulk>>
      BY <2>2 DEF OneClicked
    <3>2. lastBulk <= starts'
      BY <1>3, <1>5
    <3> QED BY <1>5, <3>1, <3>2
  <2> QED BY <2>1, <2>2
<1>7. \A i \in 1 .. Len(vendorThread'.macs) : ~(i < vendorThread'.at)
  BY <1>1, <1>2
<1>8. vendorThread'.at <= Len(vendorThread'.macs) + 1 /\ starts' <= starts'
  BY <1>1, <1>2
<1> QED BY <1>1, <1>4, <1>6, <1>7, <1>8 DEF VendorInv

\* Every step keeps the inductive invariant.
LEMMA VendorInvStep ==
  ASSUME JobsInv, JobsShape, VendorInv, [Next]_vars
  PROVE  VendorInv'
<1>0. FlagsOK
  BY DEF JobsInv
<1>1. CASE (RepaintFrame \/ InputFrame) /\ DrainAll
  <2>1. chan' = <<>> /\ DrainVendors /\ UNCHANGED starts
    BY <1>1 DEF RepaintFrame, InputFrame, BeginFrame, DrainAll
  <2> QED BY <1>0, <2>1, VendorInvDrained
<1>2. CASE VendorStep /\ VendorOnly
  <2>1. UNCHANGED starts
    BY <1>2, ThreadsSend
  <2> QED BY <1>0, <1>2, <2>1, VendorInvLookedUp
<1>3. CASE BulkClicked \/ OneClicked
  BY <1>3, VendorInvStarted
<1>4. CASE /\ VendorOthers /\ (Launch \/ UNCHANGED starts)
           /\ UNCHANGED chan \/ \E e : SendEvent(e) /\ e.job # "vendor"
  <2>1. UNCHANGED <<vendors, vendorThread, lastBulk>>
    BY <1>4 DEF VendorOthers, vendorVars
  <2>2. \A e : e.job # "vendor" => e \notin VendorFound
    BY DEF VendorFound
  <2>3. AllOfLastRun' /\ \A o : Found(o) => Found(o)'
    BY <1>0, <1>4, <2>1, <2>2, LastRunStays, FoundStays DEF VendorInv
  <2>4. vendorThread.run <= starts'
    BY <1>4 DEF Launch, JobsShape, VendorRecords, VendorInv
  <2> QED BY <2>1, <2>3, <2>4 DEF VendorInv
<1> QED BY <1>1, <1>2, <1>3, <1>4, StepsForVendorEvents

\* "A new run replaces the previous results" (ui_arp), and its own are complete
\* when the page shows it as over: for any number of addresses, prefixes and
\* runs, and beside any other jobs.
THEOREM VendorsReplacedByRuns == Spec => []VendorsReplaced
<1>1. JobsInv /\ JobsShape /\ VendorInv => VendorsReplaced
  <2> SUFFICES ASSUME JobsInv, JobsShape, VendorInv PROVE VendorsReplaced
    OBVIOUS
  <2>1. \A o \in Ouis : vendors[o] # 0 => vendors[o] >= lastBulk
    BY DEF VendorInv
  <2>2. \A i \in 1 .. Len(chan) :
          chan[i] \in VendorFound => chan[i].run = vendorThread.run
    BY DEF VendorInv, AllOfLastRun
  <2>3. ASSUME ~vendorRunning, ~vendorThread.failed,
               NEW i \in DOMAIN vendorThread.macs, vendorThread.macs[i] \in Ouis
        PROVE  vendors[vendorThread.macs[i]] = vendorThread.run
    <3>1. vendorThread.pc = "none" /\ ~Pending("vendor")
      BY <2>3 DEF JobsInv, JobsKeepFramesComing
    <3>2. i \in 1 .. Len(vendorThread.macs)
      <4>1. vendorThread.macs \in {<<>>} \cup MacLists
        BY DEF JobsShape, VendorRecords
      <4> QED BY <4>1, MacListMembers
    <3>3. Found(vendorThread.macs[i])
      BY <2>3, <3>1, <3>2 DEF VendorInv
    <3>4. ~OnItsWay(vendorThread.macs[i])
      BY <3>1 DEF Pending, OnItsWay, VendorFound
    <3> QED BY <3>3, <3>4 DEF Found
  <2> QED BY <2>1, <2>2, <2>3 DEF VendorsReplaced
<1> QED
  BY <1>1, JobsInvInit, JobsInvStep, ShapeInit, ShapeStep, VendorInvInit,
     VendorInvStep, PTL DEF Spec

-----------------------------------------------------------------------------
(* The types of all pages, from the invariants of each and what the rest   *)
(* needs: the events in the channel are those of the components, and the   *)
(* packet page keeps no more lines than it should.                         *)
TypesInv ==
  /\ starts <= MaxStarts /\ chan \in Seq(PagesEvents)
  /\ dnsCleared \in BOOLEAN /\ netAuto \in BOOLEAN /\ netReport \in BOOLEAN
  /\ packet.count <= MaxCount
  /\ packetLog \in Seq(PacketLines) /\ Len(packetLog) <= PacketCap

\* The invariants of the parts.
PagesInv ==
  JobsInv /\ JobsShape /\ PacketInv /\ AnswersInv /\ VendorInv /\ TypesInv

\* A step starts at most one job, while the bound of the model allows it.
LEMMA StepsStart ==
  ASSUME [Next]_vars
  PROVE  Launch \/ UNCHANGED starts
<1>1. CASE (RepaintFrame \/ InputFrame) /\ DrainAll
  BY <1>1 DEF RepaintFrame, InputFrame, BeginFrame
<1> QED BY <1>1, StepsForAnswers, ThreadsSend DEF ResolveClicked, ClearDns

\* Every event is one of the components'.
LEMMA StepsSend ==
  ASSUME PagesInv, [Next]_vars
  PROVE  chan' = <<>> \/ UNCHANGED chan \/ \E e \in PagesEvents : SendEvent(e)
<1> USE DEF PagesEvents
<1>1. CASE UNCHANGED vars
  BY <1>1 DEF vars
<1>2. CASE UIStep
  BY <1>2, PagesSend DEF UIStep, RepaintFrame, BeginFrame
<1>3. CASE UserStep
  BY <1>3, PagesSend DEF UserStep, InputFrame, BeginFrame
<1>4. CASE DnsStep
  <2>1. Placed(dnsThread) /\ dnsThread.run \in Nat
    BY PlacedTypes DEF PagesInv, AnswersInv
  <2>2. \A s \in 1 .. MaxServers, n \in 0 .. MaxNames : Answer(s, n) \in DnsEvents
    BY <2>1 DEF Answer, DnsEvents, DnsAnswers
  <2>3. DnsDone \in DnsEvents
    BY DEF DnsDone, DnsEvents
  <2> QED BY <1>4, <2>1, <2>2, <2>3, DnsAnswering DEF Quiet
<1>5. CASE VendorStep
  <2>1. VendorError \in VendorEvents /\ VendorDone \in VendorEvents
    BY DEF VendorError, VendorDone, VendorEvents
  <2>2. CASE LookUpNext
    <3>1. PICK t : t = vendorThread
      OBVIOUS
    <3>2. t \in VendorRecords
      BY <3>1 DEF PagesInv, JobsShape
    <3>3. t.macs \in {<<>>} \cup MacLists /\ t.run \in Nat /\ t.at \in Nat \ {0}
      BY <3>2 DEF VendorRecords
    <3>4. t.macs[t.at] \in Ouis \cup {NoOui}
      <4>1. t.at <= Len(t.macs)
        BY <2>2, <3>1 DEF LookUpNext, VendorLeft
      <4> QED BY <3>3, <4>1, MacListMembers
    <3>5. PICK e : e = [job |-> "vendor", oui |-> t.macs[t.at], run |-> t.run]
      OBVIOUS
    <3>6. Quiet \/ (t.macs[t.at] # NoOui /\ SendEvent(e))
      BY <2>2, <3>1, <3>5 DEF LookUpNext
    <3>7. t.macs[t.at] # NoOui => e \in VendorEvents
      BY <3>3, <3>4, <3>5 DEF VendorEvents, VendorFound
    <3> QED BY <3>6, <3>7 DEF Quiet
  <2> QED BY <1>5, <2>1, <2>2 DEF VendorStep, OpenDatabase, FinishVendors, Quiet
<1>6. CASE Gathered
  BY <1>6 DEF Gathered
<1>7. CASE PacketStep
  <2>1. CASE Emit
    <3>1. /\ packet.i \in Nat /\ packet.count \in Nat /\ packet.i <= packet.count
          /\ packet.count <= MaxCount /\ packet.run \in Nat /\ MaxCount \in Nat
      BY Bounds DEF PagesInv, PacketInv, TypesInv
    <3>2. packet.i \in 0 .. MaxCount
      BY <3>1
    <3>3. [job |-> "packet", run |-> packet.run, i |-> packet.i] \in PacketLines
      BY <3>1, <3>2 DEF PacketLines
    <3> QED BY <2>1, <3>3 DEF Emit
  <2> QED BY <1>7, <2>1 DEF PacketStep, Resolve, NextPacket, FinishPacket, Quiet
<1> QED BY <1>1, <1>2, <1>3, <1>4, <1>5, <1>6, <1>7 DEF Next, Threads

\* The flags of the pages.
LEMMA FlagsStep ==
  ASSUME TypesInv, [Next]_vars
  PROVE  dnsCleared' \in BOOLEAN /\ netAuto' \in BOOLEAN /\ netReport' \in BOOLEAN
<1>1. dnsCleared' \in BOOLEAN
  <2>1. dnsCleared \in BOOLEAN
    BY DEF TypesInv
  <2> QED BY <2>1, StepsForDns DEF DrainAll, DrainDns, DnsStep, SetUpServer, Query,
             FinishDns, ResolveClicked, ClearDns, DnsOthers, dnsVars
<1>2. netAuto \in BOOLEAN /\ netReport \in BOOLEAN
  BY DEF TypesInv
<1>3. CASE UNCHANGED vars
  BY <1>1, <1>2, <1>3 DEF vars, netVars
<1>4. CASE UIStep
  BY <1>1, <1>2, <1>4 DEF UIStep, DrainAll, DrainNet, ShowPage, ShowNet, netVars
<1>5. CASE UserStep
  BY <1>1, <1>2, <1>5 DEF UserStep, DrainAll, DrainNet, DnsOnly, VendorOnly, PacketOnly,
                    RefreshClicked, AutoClicked, netVars
<1>6. CASE Threads
  BY <1>1, <1>2, <1>6 DEF Threads, DnsOnly, VendorOnly, PacketOnly, Gathered, netVars
<1> QED BY <1>1, <1>3, <1>4, <1>5, <1>6 DEF Next

\* No more packets than the bound of a run.
LEMMA CountStep ==
  ASSUME PacketInv, packet.count <= MaxCount, [Next]_vars
  PROVE  packet'.count <= MaxCount
<1>1. CASE UNCHANGED packet
  BY <1>1
<1>2. CASE SendClicked
  <2>1. PICK n \in PacketCounts, r \in Nat : packet' =
          [pc |-> "resolve", run |-> r, count |-> n, i |-> 0, stop |-> FALSE]
    BY <1>2, PacketMoves
  <2> QED BY <2>1, Bounds
<1>3. CASE StopPacket
  BY <1>3, PacketMoves DEF PacketInv
<1>4. CASE PacketStep
  <2>1. \/ packet'.count = packet.count \/ packet'.count = 0
    <3>1. CASE Resolve
      BY <3>1, PacketMoves DEF PacketInv
    <3>2. CASE NextPacket
      BY <3>2, PacketMoves DEF PacketInv
    <3>3. CASE Emit
      BY <3>3, PacketMoves DEF PacketInv
    <3>4. CASE FinishPacket
      BY <3>4, PacketMoves DEF NoPacket
    <3> QED BY <1>4, <3>1, <3>2, <3>3, <3>4 DEF PacketStep
  <2> QED BY <2>1, Bounds
<1> QED BY <1>1, <1>2, <1>3, <1>4, StepsForPackets DEF PacketOthers, packetVars

\* The page keeps the latest lines, no more than its cap.
LEMMA LogStep ==
  ASSUME FlagsOK, packetLog \in Seq(PacketLines), Len(packetLog) <= PacketCap,
         DrainPackets
  PROVE  packetLog' \in Seq(PacketLines) /\ Len(packetLog') <= PacketCap
<1> DEFINE T == {chan[i] : i \in 1 .. Len(chan)} \cap PacketLines
           all == packetLog \o LinesSent
           n == Len(all)
           old == IF n > PacketCap THEN n - PacketCap ELSE 0
<1>1. LinesSent \in Seq(PacketLines)
  <2>1. Len(chan) \in Nat
    BY LenProperties DEF FlagsOK
  <2>2. LinesSent \in Seq(T) /\ T \subseteq PacketLines
    BY <2>1, KeptTypes DEF LinesSent
  <2> HIDE DEF T
  <2> QED BY <2>2, SeqMonotonic
<1>2. all \in Seq(PacketLines)
  BY <1>1, ConcatProperties
<1>3. packetLog' = SubSeq(all, old + 1, n)
  BY DEF DrainPackets
<1>4. PICK A, m, k : A = all /\ m = n /\ k = old
  OBVIOUS
<1>5. /\ A \in Seq(PacketLines) /\ m = Len(A) /\ m \in Nat
      /\ k = IF m > PacketCap THEN m - PacketCap ELSE 0
  <2>1. A \in Seq(PacketLines) /\ m = Len(A)
    BY <1>2, <1>4
  <2>2. k = IF m > PacketCap THEN m - PacketCap ELSE 0
    BY <1>4
  <2> QED BY <2>1, <2>2, LenProperties
<1>6. PacketCap \in Nat \ {0}
  BY PacketAssumption
<1>7. k \in Nat /\ k <= m /\ m - k <= PacketCap
  BY <1>5, <1>6
<1>8. \A i \in k + 1 .. m : A[i] \in PacketLines
  BY <1>5, <1>7, ElementOfSeq
<1>9. /\ SubSeq(A, k + 1, m) \in Seq(PacketLines)
      /\ Len(SubSeq(A, k + 1, m)) = IF k + 1 <= m THEN m - (k + 1) + 1 ELSE 0
  BY <1>5, <1>7, <1>8, SubSeqProperties
<1>10. Len(SubSeq(A, k + 1, m)) <= PacketCap
  BY <1>5, <1>6, <1>7, <1>9
<1>11. packetLog' = SubSeq(A, k + 1, m)
  BY <1>3, <1>4
<1> QED BY <1>9, <1>10, <1>11

\* Nothing but a drain adds a line.
LEMMA StepsForLog ==
  ASSUME [Next]_vars
  PROVE  DrainPackets \/ packetLog' = <<>> \/ UNCHANGED packetLog
<1>1. CASE UNCHANGED vars
  BY <1>1 DEF vars, packetVars
<1>2. CASE UIStep
  BY <1>2 DEF UIStep, DrainAll, ShowPage, NetOnly, packetVars
<1>3. CASE UserStep
  BY <1>3 DEF UserStep, DrainAll, DnsOnly, VendorOnly, NetOnly, packetVars,
              SendClicked, StopPacket, ClearPacket
<1>4. CASE Threads
  BY <1>4 DEF Threads, DnsOnly, VendorOnly, NetOnly, packetVars, PacketStep,
              Resolve, NextPacket, Emit, FinishPacket
<1> QED BY <1>1, <1>2, <1>3, <1>4 DEF Next

\* Every step keeps these types.
LEMMA TypesStep ==
  ASSUME PagesInv, [Next]_vars
  PROVE  TypesInv'
<1>1. FlagsOK /\ TypesInv /\ PacketInv /\ starts \in Nat
  BY DEF PagesInv, JobsInv, JobsShape
<1>2. starts' <= MaxStarts
  BY <1>1, StepsStart, FrameAssumption DEF Launch, TypesInv
<1>3. chan' \in Seq(PagesEvents)
  <2>1. chan \in Seq(PagesEvents)
    BY <1>1 DEF TypesInv
  <2>2. CASE chan' = <<>>
    BY <2>2, EmptySeq
  <2>3. ASSUME NEW e \in PagesEvents, SendEvent(e)
        PROVE  chan' \in Seq(PagesEvents)
    BY <2>1, <2>3, AppendProperties DEF SendEvent
  <2> QED BY <2>1, <2>2, <2>3, StepsSend
<1>4. dnsCleared' \in BOOLEAN /\ netAuto' \in BOOLEAN /\ netReport' \in BOOLEAN
  BY <1>1, FlagsStep
<1>5. packet'.count <= MaxCount
  BY <1>1, CountStep DEF TypesInv
<1>6. packetLog' \in Seq(PacketLines) /\ Len(packetLog') <= PacketCap
  <2>1. packetLog \in Seq(PacketLines) /\ Len(packetLog) <= PacketCap
    BY <1>1 DEF TypesInv
  <2>2. CASE DrainPackets
    BY <1>1, <2>1, <2>2, LogStep
  <2>3. CASE packetLog' = <<>>
    <3>1. Len(packetLog') = 0 /\ 0 <= PacketCap
      BY <2>3, PacketAssumption
    <3> QED BY <2>3, <3>1, EmptySeq
  <2> QED BY <2>1, <2>2, <2>3, StepsForLog
<1> QED BY <1>2, <1>3, <1>4, <1>5, <1>6 DEF TypesInv

\* Nothing has been sent at the start.
LEMMA TypesInit == Init => TypesInv
<1> SUFFICES ASSUME Init PROVE TypesInv
  OBVIOUS
<1> USE DEF Init, FrameInit, DnsInit, NetInit, PacketInit
<1>1. starts <= MaxStarts /\ packet.count <= MaxCount
  BY FrameAssumption, Bounds DEF NoPacket
<1>2. chan \in Seq(PagesEvents) /\ packetLog \in Seq(PacketLines)
  BY EmptySeq
<1>3. Len(packetLog) <= PacketCap
  BY PacketAssumption
<1> QED BY <1>1, <1>2, <1>3 DEF TypesInv

\* The invariants of the parts hold together.
LEMMA PagesInvKept ==
  /\ Init => PagesInv
  /\ PagesInv /\ [Next]_vars => PagesInv'
<1>1. Init => PagesInv
  BY JobsInvInit, ShapeInit, PacketInvStep, AnswersInit, VendorInvInit, TypesInit
  DEF PagesInv
<1>2. ASSUME PagesInv, [Next]_vars PROVE PagesInv'
  <2>1. JobsInv /\ JobsShape /\ PacketInv /\ AnswersInv /\ VendorInv
    BY <1>2 DEF PagesInv
  <2> QED BY <1>2, <2>1, JobsInvStep, ShapeStep, PacketInvStep, AnswersStep,
             VendorInvStep, TypesStep DEF PagesInv
<1> QED BY <1>1, <1>2

\* A sequence is one of any set that holds its members.
LEMMA SeqOfMembers ==
  ASSUME NEW S, NEW T, NEW s \in Seq(S), \A i \in 1 .. Len(s) : s[i] \in T
  PROVE  s \in Seq(T)
<1>1. Len(s) \in Nat /\ DOMAIN s = 1 .. Len(s) /\ s = [i \in 1 .. Len(s) |-> s[i]]
  BY LenProperties
<1> QED BY <1>1, IsASeq

\* A thread where one may be is one within the bounds.
LEMMA DnsTyped ==
  ASSUME NEW d, Placed(d)
  PROVE  d \in DnsThreads
<1>1. /\ d \in DnsRecords /\ d.live \in BOOLEAN /\ d.run \in Nat
      /\ d.servers \in Nat /\ d.names \in Nat /\ d.at \in Nat /\ d.next \in Nat
      /\ Len(d.ready) \in Nat /\ d.ready \in Seq(Nat)
  BY PlacedTypes DEF Placed, DnsRecords
<1>2. /\ d.names <= MaxNames /\ d.servers <= MaxServers
      /\ d.next \in 1 .. d.servers + 1 /\ d.failed \subseteq 1 .. d.servers
      /\ d.name \in 1 .. d.names + 1
      /\ d.at = 1 \/ d.at \in 1 .. Len(d.ready)
      /\ Len(d.ready) <= d.next - 1
      /\ \A i \in 1 .. Len(d.ready) : d.ready[i] \in 1 .. d.next - 1
  BY DEF Placed
<1>3. MaxNames \in Nat /\ MaxServers \in Nat
  BY Bounds
<1>4. /\ d.names \in 0 .. MaxNames /\ d.servers \in 0 .. MaxServers
      /\ d.next \in 1 .. MaxServers + 1 /\ d.failed \in SUBSET (1 .. MaxServers)
      /\ d.name \in 1 .. MaxNames + 1 /\ d.at \in 1 .. MaxServers + 1
  <2>1. d.names \in 0 .. MaxNames /\ d.servers \in 0 .. MaxServers
    BY <1>1, <1>2, <1>3
  <2>2. d.next \in 1 .. MaxServers + 1 /\ d.name \in 1 .. MaxNames + 1
    BY <1>1, <1>2, <1>3
  <2>3. d.failed \in SUBSET (1 .. MaxServers)
    BY <1>1, <1>2, <1>3
  <2>4. d.at \in 1 .. MaxServers + 1
    <3>1. d.at = 1 \/ (1 <= d.at /\ d.at <= Len(d.ready))
      BY <1>1, <1>2
    <3>2. Len(d.ready) <= MaxServers
      BY <1>1, <1>2, <1>3
    <3> QED BY <1>1, <1>3, <3>1, <3>2
  <2> QED BY <2>1, <2>2, <2>3, <2>4
<1>5. d.ready \in Seq(1 .. MaxServers)
  <2>1. \A k \in 1 .. d.next - 1 : k \in 1 .. MaxServers
    <3>1. d.next - 1 <= MaxServers
      BY <1>1, <1>2, <1>3
    <3> QED BY <1>1, <1>3, <3>1
  <2>2. \A i \in 1 .. Len(d.ready) : d.ready[i] \in 1 .. MaxServers
    BY <1>2, <2>1
  <2> QED BY <1>1, <2>2, SeqOfMembers
<1> QED BY <1>1, <1>4, <1>5 DEF DnsRecords, DnsThreads

\* The same for the thread of the vendors.
LEMMA VendorTyped ==
  ASSUME NEW t \in VendorRecords, t.at <= Len(t.macs) + 1
  PROVE  t \in VendorThreads
<1>1. t.macs \in {<<>>} \cup MacLists /\ t.at \in Nat \ {0}
  BY DEF VendorRecords
<1>2. Len(t.macs) \in 0 .. MaxMacs /\ MaxMacs \in Nat
  BY <1>1, MacListLength, VendorAssumption
<1>3. t.at \in 1 .. MaxMacs + 1
  BY <1>1, <1>2
<1> QED BY <1>3 DEF VendorRecords, VendorThreads

\* The same for the thread of the packets.
LEMMA PacketTyped ==
  ASSUME PacketInv, packet.count <= MaxCount
  PROVE  packet \in Packets
<1>1. packet.count \in 0 .. MaxCount /\ packet.i \in 0 .. MaxCount
  BY Bounds DEF PacketInv
<1> QED BY <1>1 DEF PacketInv, Packets

\* Type correctness of all pages, their threads and the channel, for every
\* value of the constants.
THEOREM PagesTypeCorrect == Spec => []TypeOK
<1>1. PagesInv => TypeOK
  <2> SUFFICES ASSUME PagesInv PROVE TypeOK
    OBVIOUS
  <2>1. JobsInv /\ JobsShape /\ PacketInv /\ AnswersInv /\ VendorInv /\ TypesInv
    BY DEF PagesInv
  <2>2. /\ ui \in UIStates /\ input \in BOOLEAN /\ repaint \in BOOLEAN
        /\ chan \in Seq(PagesEvents)
    BY <2>1 DEF JobsInv, FlagsOK, TypesInv
  <2>3. starts \in 0 .. MaxStarts
    BY <2>1, FrameAssumption DEF JobsShape, TypesInv
  <2>4. DnsTypeOK
    BY <2>1, DnsTyped DEF JobsInv, FlagsOK, TypesInv, AnswersInv, DnsTypeOK
  <2>5. VendorTypeOK
    BY <2>1, VendorTyped DEF JobsInv, FlagsOK, JobsShape, VendorInv, VendorTypeOK
  <2>6. NetTypeOK
    BY <2>1 DEF JobsInv, FlagsOK, TypesInv, NetTypeOK
  <2>7. PacketTypeOK
    BY <2>1, PacketTyped DEF TypesInv, PacketTypeOK
  <2> QED BY <2>2, <2>3, <2>4, <2>5, <2>6, <2>7 DEF TypeOK
<1> QED BY <1>1, PagesInvKept, PTL DEF Spec
=============================================================================
