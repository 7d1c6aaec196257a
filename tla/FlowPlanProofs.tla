--------------------------- MODULE FlowPlanProofs ---------------------------
(***************************************************************************)
(* The plan of the flows, for every list of nodes, every host and every    *)
(* number of failing nodes: what the probing keeps, how many interfaces    *)
(* are made, with which addresses, and which are left at the end.          *)
(***************************************************************************)
EXTENDS FlowPlan, TLAPS, SequenceTheorems, WellFoundedInduction

Listing  == {"probe", "validate", "plan"}
Creating == {"create", "alias"}

\* Every node of the list that has been there all the time is still in the array: an
\* entry is overwritten only when its node did not answer.
ProbeInv ==
    /\ numHops = Len(found)
    /\ pc # "probe" => i = numHops
    /\ "stray" \notin odd => Kept \subseteq everUp
    /\ "loss" \notin odd =>
          \A n \in ToSet(found) \cap steady : \E j \in 1 .. numHops : hops[j] = n

\* The number of sources is that of the interfaces as long as every creation succeeds and
\* the counter is not at its bound, and each interface was needed when it was made.
Needed == numSrcs > Len(host) => (numSrcs - 1) * numDsts < numHops

SourceInv ==
    /\ pc \in Listing => ifaces = HostList /\ failed = 0
    /\ pc \in Creating =>
          /\ numSrcs <= MaxSrcs /\ Needed
          /\ failed = 0 => numSrcs = Len(ifaces) \/ (numSrcs = MaxSrcs /\ NeedsInterface)
    /\ pc = "alias" => NeedsInterface /\ octet >= 1 /\ Primary.e
    /\ pc \in {"relist", "flows"} /\ failed = 0 => numSrcs * numDsts >= numHops /\ Needed

\* The host's interfaces come first, unchanged; the macvlan links follow, each with an m
\* in its name.
OnlyMacvlans ==
    /\ Len(ifaces) >= Len(host)
    /\ \A a \in 1 .. Len(host) : ifaces[a] = HostList[a]
    /\ \A a \in Len(host) + 1 .. Len(ifaces) : ifaces[a].m

LinksInv ==
    ~Primary.e =>
        /\ pc # "done" => OnlyMacvlans
        /\ pc = "done" /\ (\A h \in ToSet(host) : ~h.m) => ifaces = HostList

PlanInv == TypeOK /\ ProbeInv /\ SourceInv /\ AddressesFree /\ LinksInv
-----------------------------------------------------------------------------
(* Sequences.                                                              *)

\* A set of naturals that is not empty has a least element.
LEMMA Least ==
    ASSUME NEW I \in SUBSET Nat, I # {}
    PROVE  \E m \in I : \A k \in I : m <= k
<1>1. PICK m \in I : \A k \in I : ~(<<k, m>> \in OpToRel(<, Nat))
  BY NatLessThanWellFounded, WFMin
<1>2. \A k \in I : ~(k < m)
  BY <1>1 DEF OpToRel
<1> QED BY <1>2

\* An interface has what it was made with.
LEMMA IfaceFields ==
    ASSUME NEW k, NEW o, NEW w
    PROVE  /\ Iface(k, o, w).kind = k /\ Iface(k, o, w).octet = o /\ Iface(k, o, w).m = w
BY Zenon DEF Iface

\* The interfaces of the host, as the kernel lists them.
LEMMA HostTypes ==
    ASSUME host \in Hosts
    PROVE  /\ Len(host) \in Nat /\ Len(host) >= 1 /\ Len(host) <= MaxSrcs
           /\ HostList \in Seq(Ifaces) /\ Len(HostList) = Len(host)
           /\ \A a \in 1 .. Len(host) : /\ HostList[a].octet = host[a].octet
                                        /\ HostList[a].m = host[a].m
                                        /\ HostList[a].kind = "host"
           /\ \A a, b \in 1 .. Len(host) : HostList[a].octet = HostList[b].octet => a = b
           /\ Primary = host[Len(host)] /\ Primary.octet \in 1 .. MaxOctet
           /\ Primary.m \in BOOLEAN /\ Primary.e \in BOOLEAN
<1> DEFINE R == [octet : 1 .. MaxOctet, e : BOOLEAN, m : BOOLEAN]
<1>1. /\ host \in Seq(R) /\ host # <<>> /\ Len(host) <= MaxSrcs
      /\ \A a, b \in 1 .. Len(host) : host[a].octet = host[b].octet => a = b
  BY FlowPlanAssumption
<1>2. Len(host) \in Nat /\ Len(host) >= 1 /\ \A a \in 1 .. Len(host) : host[a] \in R
  <2> HIDE DEF R
  <2>1. Len(host) \in Nat /\ \A a \in 1 .. Len(host) : host[a] \in R
    BY <1>1
  <2>2. Len(host) # 0
    BY <1>1, EmptySeq
  <2> QED BY <2>1, <2>2
<1>3. \A a \in 1 .. Len(host) :
         /\ host[a].octet \in 1 .. MaxOctet /\ host[a].m \in BOOLEAN /\ host[a].e \in BOOLEAN
         /\ Iface("host", host[a].octet, host[a].m) \in Ifaces
  BY <1>2 DEF Iface, Ifaces
<1>4. HostList \in Seq(Ifaces) /\ Len(HostList) = Len(host)
  BY <1>2, <1>3 DEF HostList
<1>5. \A a \in 1 .. Len(host) : HostList[a] = Iface("host", host[a].octet, host[a].m)
  BY DEF HostList
<1>6. \A a \in 1 .. Len(host) : /\ HostList[a].octet = host[a].octet
                                /\ HostList[a].m = host[a].m
                                /\ HostList[a].kind = "host"
  BY <1>5, IfaceFields
<1>7. Primary = host[Len(host)] /\ Len(host) \in 1 .. Len(host)
  BY <1>2 DEF Primary, Last
<1> QED BY <1>1, <1>2, <1>3, <1>4, <1>6, <1>7

\* The loop of clean_virtual_interfaces, unrolled.
LEMMA LeftLoop ==
    ASSUME NEW S, NEW q \in Seq(S)
    PROVE  \E f : /\ f[0] = <<>> /\ Left(q) = f[Len(q)]
                  /\ \A j \in 1 .. Len(q) :
                        f[j] = IF Deletes(q[j]) THEN f[j - 1] ELSE Append(f[j - 1], q[j])
<1> DEFINE Body(f, j) == IF j = 0 THEN <<>>
                         ELSE IF Deletes(q[j]) THEN f[j - 1] ELSE Append(f[j - 1], q[j])
           Loop(n) == \E f : f = [j \in 0 .. n |-> Body(f, j)]
           Bad == {n \in 0 .. Len(q) : ~Loop(n)}
<1>1. Loop(0)
  <2> DEFINE f == [j \in {0} |-> <<>>]
  <2>1. 0 .. 0 = {0}
    OBVIOUS
  <2>2. f = [j \in 0 .. 0 |-> Body(f, j)]
    BY <2>1
  <2> QED BY <2>2
<1>2. ASSUME NEW n \in Nat, Loop(n) PROVE Loop(n + 1)
  <2>1. PICK f : f = [j \in 0 .. n |-> Body(f, j)]
    BY <1>2
  <2> DEFINE g == [j \in 0 .. n + 1 |-> IF j <= n THEN f[j] ELSE Body(f, n + 1)]
  <2>2. ASSUME NEW j \in 0 .. n + 1 PROVE g[j] = Body(g, j)
    <3>1. CASE j <= n
      <4>0. j \in 0 .. n /\ g[j] = f[j]
        BY <3>1
      <4>1. g[j] = f[j] /\ f[j] = Body(f, j)
        <5> HIDE DEF g, Body
        <5> QED BY <2>1, <4>0
      <4>2. j # 0 => j - 1 \in 0 .. n + 1 /\ j - 1 <= n /\ g[j - 1] = f[j - 1]
        BY <3>1
      <4> HIDE DEF g
      <4> QED BY <4>1, <4>2
    <3>2. CASE j = n + 1
      <4>1. g[j] = Body(f, n + 1) /\ g[n] = f[n] /\ n + 1 # 0 /\ n + 1 - 1 = n
        BY <3>2
      <4> HIDE DEF g
      <4> QED BY <3>2, <4>1
    <3> QED BY <3>1, <3>2
  <2>3. g = [j \in 0 .. n + 1 |-> g[j]]
    OBVIOUS
  <2>4. g = [j \in 0 .. n + 1 |-> Body(g, j)]
    <3> HIDE DEF g, Body
    <3> QED BY <2>2, <2>3
  <2> QED BY <2>4
<1>3. Bad = {}
  <2> SUFFICES ASSUME Bad # {} PROVE FALSE
    OBVIOUS
  <2> HIDE DEF Loop
  <2>1. Bad \in SUBSET Nat
    OBVIOUS
  <2>2. \E m \in Bad : \A k \in Bad : m <= k
    <3> HIDE DEF Bad
    <3> QED BY <2>1, Least
  <2>3. PICK m \in Bad : \A k \in Bad : m <= k
    BY <2>2
  <2>4. m \in 0 .. Len(q) /\ ~Loop(m) /\ m # 0
    BY <1>1, <2>3
  <2>5. m - 1 \in Nat /\ m - 1 \notin Bad /\ m - 1 \in 0 .. Len(q)
    BY <2>3, <2>4
  <2>6. Loop(m - 1)
    BY <2>5
  <2>7. Loop((m - 1) + 1)
    BY <1>2, <2>5, <2>6
  <2>8. (m - 1) + 1 = m
    BY <2>4
  <2> QED BY <2>4, <2>7, <2>8
<1>4. Loop(Len(q))
  BY <1>3
<1> DEFINE left == CHOOSE f : f = [j \in 0 .. Len(q) |-> Body(f, j)]
<1>5. left = [j \in 0 .. Len(q) |-> Body(left, j)]
  BY <1>4
<1>6. Left(q) = left[Len(q)]
  BY DEF Left
<1> HIDE DEF left
<1>7. Len(q) \in Nat /\ \A j \in 0 .. Len(q) : left[j] = Body(left, j)
  <2> HIDE DEF Body
  <2> QED BY <1>5
<1>8. left[0] = <<>>
  BY <1>7
<1>9. \A j \in 1 .. Len(q) :
         left[j] = IF Deletes(q[j]) THEN left[j - 1] ELSE Append(left[j - 1], q[j])
  BY <1>7
<1> QED BY <1>6, <1>8, <1>9

\* A set that holds 0 and, with each number, the next one up to n.
LEMMA CountUp ==
    ASSUME NEW n \in Nat, NEW G, 0 \in G, \A j \in 1 .. n : j - 1 \in G => j \in G
    PROVE  \A j \in 0 .. n : j \in G
<1> DEFINE B == {j \in 0 .. n : j \notin G}
<1> SUFFICES ASSUME B # {} PROVE FALSE
  OBVIOUS
<1>1. B \in SUBSET Nat
  OBVIOUS
<1>2. \E m \in B : \A k \in B : m <= k
  <2> HIDE DEF B
  <2> QED BY <1>1, Least
<1>3. PICK m \in B : \A k \in B : m <= k
  BY <1>2
<1>4. m \in 1 .. n
  BY <1>3
<1>5. m - 1 \in 0 .. n /\ m - 1 \notin B
  BY <1>3, <1>4
<1> QED BY <1>3, <1>4, <1>5

\* Cleaning invents no interface and keeps addresses apart.
LEMMA LeftDistinct ==
    ASSUME NEW q \in Seq(Ifaces)
    PROVE  /\ Left(q) \in Seq(Ifaces)
           /\ \A a \in 1 .. Len(Left(q)) : \E b \in 1 .. Len(q) : Left(q)[a] = q[b]
           /\ (\A a, b \in 1 .. Len(q) : q[a].octet = q[b].octet => a = b) =>
              (\A a, b \in 1 .. Len(Left(q)) : Left(q)[a].octet = Left(q)[b].octet => a = b)
<1>1. PICK f : /\ f[0] = <<>> /\ Left(q) = f[Len(q)]
               /\ \A j \in 1 .. Len(q) :
                     f[j] = IF Deletes(q[j]) THEN f[j - 1] ELSE Append(f[j - 1], q[j])
  BY LeftLoop
<1> DEFINE From(j)  == \A a \in 1 .. Len(f[j]) : \E b \in 1 .. j : f[j][a] = q[b]
           Apart(j) == (\A a, b \in 1 .. Len(q) : q[a].octet = q[b].octet => a = b) =>
                       (\A a, b \in 1 .. Len(f[j]) : f[j][a].octet = f[j][b].octet => a = b)
           Good(j) == f[j] \in Seq(Ifaces) /\ From(j) /\ Apart(j)
           G == {j \in 0 .. Len(q) : Good(j)}
<1>2. Len(q) \in Nat /\ \A j \in 1 .. Len(q) : q[j] \in Ifaces
  OBVIOUS
<1>3. 0 \in G
  <2>1. <<>> \in Seq(Ifaces) /\ 1 .. Len(<<>>) = {}
    OBVIOUS
  <2>2. Good(0)
    BY <1>1, <2>1
  <2> HIDE DEF Good
  <2> QED BY <1>2, <2>2
<1>4. ASSUME NEW j \in 1 .. Len(q), j - 1 \in G PROVE j \in G
  <2> SUFFICES Good(j)
    <3> HIDE DEF Good
    <3> QED BY <1>2
  <2>0. Good(j - 1)
    <3> HIDE DEF Good
    <3> QED BY <1>4
  <2>1. f[j - 1] \in Seq(Ifaces) /\ From(j - 1) /\ Apart(j - 1)
    BY <2>0
  <2>2. CASE Deletes(q[j])
    <3>1. f[j] = f[j - 1]
      BY <1>1, <2>2
    <3>2. 1 .. j - 1 \subseteq 1 .. j
      BY <1>2
    <3>3. From(j)
      BY <2>1, <3>1, <3>2
    <3> QED BY <2>1, <3>1, <3>3
  <2>3. CASE ~Deletes(q[j])
    <3> DEFINE g == f[j - 1]
               e == q[j]
               n == Len(g)
    <3>1. f[j] = Append(g, e) /\ e \in Ifaces
      BY <1>1, <1>2, <2>3
    <3>2. /\ Append(g, e) \in Seq(Ifaces) /\ Len(Append(g, e)) = n + 1 /\ n \in Nat
          /\ \A a \in 1 .. n : Append(g, e)[a] = g[a]
          /\ Append(g, e)[n + 1] = e
      <4> HIDE DEF g, e
      <4>1. g \in Seq(Ifaces) /\ e \in Ifaces
        BY <2>1, <3>1 DEF g
      <4> HIDE DEF Ifaces
      <4> QED BY <4>1 DEF n
    <3> HIDE DEF g, e, n
    <3>3. /\ f[j] \in Seq(Ifaces) /\ Len(f[j]) = n + 1
          /\ \A a \in 1 .. n : f[j][a] = g[a] /\ f[j][n + 1] = e
      BY <3>1, <3>2
    <3>4. \A a \in 1 .. n + 1 : a \in 1 .. n \/ a = n + 1
      BY <3>2
    <3>5. \A a \in 1 .. n : \E b \in 1 .. j - 1 : g[a] = q[b]
      BY <2>1 DEF g, n
    <3>6. From(j)
      <4> SUFFICES ASSUME NEW a \in 1 .. n + 1 PROVE \E b \in 1 .. j : f[j][a] = q[b]
        BY <3>3
      <4>1. CASE a \in 1 .. n
        <5>1. PICK b \in 1 .. j - 1 : g[a] = q[b]
          BY <3>5, <4>1
        <5>2. b \in 1 .. j /\ f[j][a] = q[b]
          BY <3>3, <4>1, <5>1
        <5> QED BY <5>2
      <4>2. CASE a = n + 1
        <5>1. j \in 1 .. j /\ f[j][a] = q[j]
          BY <3>1, <3>2, <4>2 DEF e
        <5> QED BY <5>1
      <4> QED BY <3>4, <4>1, <4>2
    <3>7. Apart(j)
      <4> SUFFICES ASSUME \A a, b \in 1 .. Len(q) : q[a].octet = q[b].octet => a = b,
                          NEW a \in 1 .. n + 1, NEW b \in 1 .. n + 1,
                          f[j][a].octet = f[j][b].octet
                   PROVE  a = b
        BY <3>3
      <4>1. CASE a \in 1 .. n /\ b \in 1 .. n
        <5>1. g[a].octet = g[b].octet
          BY <3>3, <4>1
        <5> QED BY <2>1, <4>1, <5>1 DEF g, n
      <4>2. ASSUME NEW c \in 1 .. n, g[c].octet = e.octet PROVE FALSE
        <5>1. PICK k \in 1 .. j - 1 : g[c] = q[k]
          BY <3>5
        <5>2. q[k].octet = q[j].octet /\ k \in 1 .. Len(q) /\ k # j
          BY <4>2, <5>1 DEF e
        <5> QED BY <5>2
      <4>3. CASE a \in 1 .. n /\ b = n + 1
        BY <3>1, <3>2, <3>3, <4>2, <4>3
      <4>4. CASE a = n + 1 /\ b \in 1 .. n
        BY <3>1, <3>2, <3>3, <4>2, <4>4
      <4> QED BY <3>4, <4>1, <4>3, <4>4
    <3> HIDE DEF From, Apart
    <3> QED BY <3>3, <3>6, <3>7
  <2> QED BY <2>2, <2>3
<1>5. Len(q) \in G
  <2> HIDE DEF G
  <2>1. \A j \in 0 .. Len(q) : j \in G
    BY <1>2, <1>3, <1>4, CountUp
  <2> QED BY <1>2, <2>1
<1> QED BY <1>1, <1>5

\* Cleaning leaves the host's interfaces if it is the others that have an m.
LEMMA LeftHost ==
    ASSUME host \in Hosts, \A a \in 1 .. Len(host) : ~host[a].m, ifaces \in Seq(Ifaces),
           OnlyMacvlans
    PROVE  Left(ifaces) = HostList
<1> DEFINE q == ifaces
           n == Len(host)
<1>1. PICK f : /\ f[0] = <<>> /\ Left(q) = f[Len(q)]
               /\ \A j \in 1 .. Len(q) :
                     f[j] = IF Deletes(q[j]) THEN f[j - 1] ELSE Append(f[j - 1], q[j])
  BY LeftLoop
<1>2. /\ Len(q) \in Nat /\ n \in Nat /\ n <= Len(q) /\ HostList \in Seq(Ifaces)
      /\ Len(HostList) = n
  BY HostTypes DEF OnlyMacvlans
<1>3. ASSUME NEW j \in 1 .. n PROVE ~Deletes(q[j]) /\ q[j] = HostList[j]
  <2>1. q[j] = HostList[j] /\ HostList[j].m = host[j].m /\ ~host[j].m
    BY HostTypes DEF OnlyMacvlans
  <2> QED BY <2>1 DEF Deletes
<1>4. ASSUME NEW j \in n + 1 .. Len(q) PROVE Deletes(q[j])
  BY DEF OnlyMacvlans, Deletes
<1> DEFINE Size(j) == IF j <= n THEN j ELSE n
           Good(j) == /\ f[j] \in Seq(Ifaces) /\ Len(f[j]) = Size(j)
                      /\ \A a \in 1 .. Size(j) : f[j][a] = HostList[a]
           G == {j \in 0 .. Len(q) : Good(j)}
<1> HIDE DEF q, n
<1>5. 0 \in G
  <2>1. <<>> \in Seq(Ifaces) /\ Len(<<>>) = 0 /\ Size(0) = 0
    BY <1>2
  <2>2. Good(0)
    BY <1>1, <2>1
  <2> HIDE DEF Good
  <2> QED BY <1>2, <2>2
<1>6. ASSUME NEW j \in 1 .. Len(q), j - 1 \in G PROVE j \in G
  <2> SUFFICES Good(j)
    <3> HIDE DEF Good
    <3> QED BY <1>2
  <2> DEFINE g == f[j - 1]
  <2>0. Good(j - 1)
    <3> HIDE DEF Good
    <3> QED BY <1>6
  <2>1. /\ g \in Seq(Ifaces) /\ Len(g) = Size(j - 1)
        /\ \A a \in 1 .. Size(j - 1) : g[a] = HostList[a]
    BY <2>0
  <2>2. CASE j <= n
    <3>1. j \in 1 .. n /\ Size(j) = j /\ Size(j - 1) = j - 1
      BY <1>2, <2>2
    <3>2. f[j] = Append(g, HostList[j]) /\ HostList[j] \in Ifaces
      <4>1. f[j] = Append(g, HostList[j])
        BY <1>1, <1>3, <3>1
      <4> HIDE DEF Ifaces
      <4>2. HostList[j] \in Ifaces
        BY <1>2, <3>1
      <4> QED BY <4>1, <4>2
    <3> HIDE DEF g, Size, Ifaces
    <3>3. /\ Append(g, HostList[j]) \in Seq(Ifaces) /\ Len(Append(g, HostList[j])) = j
          /\ \A a \in 1 .. j - 1 : Append(g, HostList[j])[a] = g[a]
          /\ Append(g, HostList[j])[j] = HostList[j]
      BY <2>1, <3>1, <3>2
    <3>4. \A a \in 1 .. j : a \in 1 .. j - 1 \/ a = j
      BY <1>2
    <3> QED BY <2>1, <3>1, <3>2, <3>3, <3>4
  <2>3. CASE ~(j <= n)
    <3>1. j \in n + 1 .. Len(q) /\ Size(j) = n /\ Size(j - 1) = n
      BY <1>2, <2>3
    <3>2. f[j] = g
      BY <1>1, <1>4, <3>1
    <3> QED BY <2>1, <3>1, <3>2
  <2> QED BY <2>2, <2>3
<1>7. Len(q) \in G
  <2> HIDE DEF G
  <2>1. \A j \in 0 .. Len(q) : j \in G
    BY <1>2, <1>5, <1>6, CountUp
  <2> QED BY <1>2, <2>1
<1>8. /\ Left(q) \in Seq(Ifaces) /\ Len(Left(q)) = Len(HostList)
      /\ \A a \in 1 .. Len(HostList) : Left(q)[a] = HostList[a]
  BY <1>1, <1>2, <1>7
<1> HIDE DEF Ifaces
<1>9. Left(q) = HostList
  BY <1>2, <1>8, SeqEqual
<1> QED BY <1>9 DEF q
-----------------------------------------------------------------------------
(* Types.                                                                  *)

\* The interface that AliasFree or CreateMacvlan adds goes to the end of the list.
LEMMA AppendIface ==
    ASSUME NEW q \in Seq(Ifaces), NEW k \in {"alias", "macvlan"}, NEW o \in 1 .. MaxOctet,
           NEW w \in BOOLEAN
    PROVE  LET e == Iface(k, o, w) IN
           /\ e \in Ifaces /\ Append(q, e) \in Seq(Ifaces) /\ Len(Append(q, e)) = Len(q) + 1
           /\ \A a \in 1 .. Len(q) : Append(q, e)[a] = q[a]
           /\ Append(q, e)[Len(q) + 1] = e
<1> DEFINE e == Iface(k, o, w)
<1>1. e \in Ifaces
  BY DEF Iface, Ifaces
<1> HIDE DEF e, Ifaces
<1>2. /\ Append(q, e) \in Seq(Ifaces) /\ Len(Append(q, e)) = Len(q) + 1
      /\ \A a \in 1 .. Len(q) : Append(q, e)[a] = q[a]
      /\ Append(q, e)[Len(q) + 1] = e
  BY <1>1
<1> QED BY <1>1, <1>2 DEF e

\* A ping leaves the counter of sockets within its bound.
LEMMA PingTypes ==
    ASSUME NEW w, NEW r \in {1, -1}, Ping(w, r), leaked \in 0 .. MaxFds, odd \subseteq {"loss", "stray"}
    PROVE  leaked' \in 0 .. MaxFds /\ odd' \subseteq {"loss", "stray"} /\ odd \subseteq odd'
<1>1. leaked' \in 0 .. MaxFds
  BY FlowPlanAssumption DEF Ping
<1>2. odd' \subseteq {"loss", "stray"} /\ odd \subseteq odd'
  BY DEF Ping
<1> QED BY <1>1, <1>2

\* The sender starts well-typed.
LEMMA TypeInit == Init => TypeOK /\ numHops = Len(found)
<1> SUFFICES ASSUME Init PROVE TypeOK /\ numHops = Len(found)
  OBVIOUS
<1>1. found \in Seq(Nodes) /\ Len(found) < MaxFlows /\ Len(found) \in Nat /\ MaxFlows \in Nat
  BY FlowPlanAssumption DEF Init
<1>2. hops \in [1 .. MaxFlows -> Nodes \cup {Junk}]
  BY <1>1 DEF Init
<1>3. ifaces \in Seq(Ifaces)
  BY HostTypes DEF Init
<1>4. up \subseteq Nodes
  BY <1>1 DEF Init, ToSet
<1> HIDE DEF Ifaces
<1> QED BY <1>1, <1>2, <1>3, <1>4, FlowPlanAssumption DEF Init, TypeOK

\* Every step keeps the types.
LEMMA TypeNext ==
    ASSUME TypeOK, numHops = Len(found), SourceInv, [Next]_vars
    PROVE  TypeOK' /\ numHops' = Len(found')
<1> USE DEF fixedVars, probeVars, nodeVars, pingVars
<1>1. /\ Len(found) \in Nat /\ numHops \in Nat /\ numHops < MaxFlows /\ MaxFlows \in Nat
      /\ MaxSrcs \in Nat /\ MaxFds \in Nat /\ MaxFlips \in Nat /\ MaxOctet \in Nat
      /\ DstCounts \subseteq Nat
  BY FlowPlanAssumption DEF TypeOK
<1>2. CASE ProbeKept
  <2>1. i' = i + 1 /\ i < numHops /\ pc = "probe"
        /\ UNCHANGED <<pc, found, hops, numHops, up, steady, everUp, flips, numDsts, numSrcs,
                       host, ifaces, octet, failed>>
    BY <1>2 DEF ProbeKept
  <2>2. leaked' \in 0 .. MaxFds /\ odd' \subseteq {"loss", "stray"}
    BY <1>2, PingTypes DEF ProbeKept, TypeOK
  <2>3. i' \in 0 .. numHops
    BY <1>1, <2>1 DEF TypeOK
  <2> HIDE DEF Ifaces
  <2> QED BY <2>1, <2>2, <2>3 DEF TypeOK
<1>3. CASE ProbeReplaced
  <2>1. /\ i < numHops /\ hops' = [hops EXCEPT ![i + 1] = hops[i + 2]]
        /\ UNCHANGED <<pc, found, i, numHops, up, steady, everUp, flips, numDsts, numSrcs,
                       host, ifaces, octet, failed>>
    BY <1>3 DEF ProbeReplaced
  <2>2. leaked' \in 0 .. MaxFds /\ odd' \subseteq {"loss", "stray"}
    BY <1>3, PingTypes DEF ProbeReplaced, TypeOK
  <2>3. hops' \in [1 .. MaxFlows -> Nodes \cup {Junk}]
    <3>1. /\ hops \in [1 .. MaxFlows -> Nodes \cup {Junk}] /\ i + 2 \in 1 .. MaxFlows
      BY <1>1, <2>1 DEF TypeOK
    <3> QED BY <2>1, <3>1
  <2> HIDE DEF Ifaces
  <2> QED BY <2>1, <2>2, <2>3 DEF TypeOK
<1>4. CASE ProbeReturns \/ Validate
  <2>1. /\ pc' \in {"validate", "exited", "plan"} /\ (numDsts' = numDsts \/ numDsts' \in DstCounts)
        /\ UNCHANGED <<found, hops, i, numHops, up, steady, everUp, flips, leaked, odd, numSrcs,
                       host, ifaces, octet, failed>>
    BY <1>4 DEF ProbeReturns, Validate
  <2>2. numDsts' \in Nat
    BY <1>1, <2>1 DEF TypeOK
  <2> HIDE DEF Ifaces
  <2> QED BY <2>1, <2>2 DEF TypeOK
<1>5. ASSUME NEW n \in Nodes, NodeFlips(n) PROVE TypeOK' /\ numHops' = Len(found')
  <2>1. /\ flips < MaxFlips /\ flips' = flips + 1
        /\ up' = (IF n \in up THEN up \ {n} ELSE up \cup {n})
        /\ steady' = steady \ {n} /\ everUp' = everUp \cup {n}
        /\ UNCHANGED <<pc, found, hops, i, numHops, leaked, odd, numDsts, numSrcs,
                       host, ifaces, octet, failed>>
    BY <1>5 DEF NodeFlips
  <2>2. flips' \in 0 .. MaxFlips
    BY <1>1, <2>1 DEF TypeOK
  <2>3. up' \subseteq Nodes /\ steady' \subseteq up' /\ up' \subseteq everUp'
    BY <2>1 DEF TypeOK
  <2> HIDE DEF Ifaces
  <2> QED BY <2>1, <2>2, <2>3 DEF TypeOK
<1>6. CASE ListInterfaces \/ Relist \/ BeginFlows
  <2>1. /\ pc' \in {"create", "relist", "crashed", "flows"}
        /\ numSrcs' = numSrcs \/ numSrcs' = Len(ifaces)
        /\ UNCHANGED <<found, hops, i, numHops, up, steady, everUp, flips, leaked, odd, numDsts,
                       host, ifaces, octet, failed>>
    BY <1>6 DEF ListInterfaces, Relist, BeginFlows
  <2> HIDE DEF Ifaces
  <2>2. numSrcs' \in Nat
    BY <2>1 DEF TypeOK
  <2>3. /\ pc' \in {"probe", "validate", "plan", "create", "alias", "relist", "flows",
                        "done", "exited", "crashed"}
        /\ UNCHANGED <<found, hops, i, numHops, up, steady, everUp, flips, leaked, odd, numDsts,
                       host, ifaces, octet, failed>>
    BY <2>1
  <2> QED BY <2>2, <2>3 DEF TypeOK
<1>7. CASE StartAlias
  <2>1. /\ pc' = "alias" /\ octet' = Primary.octet
        /\ UNCHANGED <<found, hops, i, numHops, up, steady, everUp, flips, leaked, odd, numDsts,
                       numSrcs, host, ifaces, failed>>
    BY <1>7 DEF StartAlias
  <2>2. octet' \in Nat
    BY <1>1, <2>1, HostTypes DEF TypeOK
  <2> HIDE DEF Ifaces
  <2> QED BY <2>1, <2>2 DEF TypeOK
<1>8. CASE AliasTaken
  <2>1. /\ octet' = octet + numSrcs
        /\ UNCHANGED <<pc, found, hops, i, numHops, up, steady, everUp, flips, numDsts,
                       numSrcs, host, ifaces, failed>>
    BY <1>8 DEF AliasTaken
  <2>2. leaked' \in 0 .. MaxFds /\ odd' \subseteq {"loss", "stray"}
    BY <1>8, PingTypes DEF AliasTaken, TypeOK
  <2>3. octet' \in Nat
    BY <2>1 DEF TypeOK
  <2> HIDE DEF Ifaces
  <2> QED BY <2>1, <2>2, <2>3 DEF TypeOK
<1>9. ASSUME NextSrc PROVE numSrcs' \in Nat
  BY <1>1, <1>9 DEF NextSrc, TypeOK
<1>10. (IF failed < MaxSrcs THEN failed + 1 ELSE failed) \in 0 .. MaxSrcs
  BY <1>1 DEF TypeOK
<1>11. CASE AliasFree
  <2>1. /\ octet' = octet + numSrcs /\ pc' = "create" /\ NextSrc /\ pc = "alias"
        /\ UNCHANGED <<found, hops, i, numHops, up, steady, everUp, flips, numDsts, host>>
        /\ \/ ifaces' = ifaces
           \/ octet' <= MaxOctet /\ ifaces' = Append(ifaces, Iface("alias", octet', Primary.m))
        /\ failed' = failed \/ failed' = IF failed < MaxSrcs THEN failed + 1 ELSE failed
    BY <1>11 DEF AliasFree
  <2>2. leaked' \in 0 .. MaxFds /\ odd' \subseteq {"loss", "stray"}
    BY <1>11, PingTypes DEF AliasFree, TypeOK
  <2>3. octet' \in Nat /\ octet' >= 1
    <3>1. octet \in Nat /\ numSrcs \in Nat /\ octet >= 1
      BY <2>1 DEF TypeOK, SourceInv
    <3> QED BY <2>1, <3>1
  <2>4. ifaces' \in Seq(Ifaces)
    <3>1. ifaces \in Seq(Ifaces) /\ Primary.m \in BOOLEAN
      BY HostTypes DEF TypeOK
    <3>2. octet' <= MaxOctet => octet' \in 1 .. MaxOctet
      BY <1>1, <2>3
    <3> HIDE DEF Ifaces
    <3> QED BY <2>1, <3>1, <3>2, AppendIface
  <2>5. failed' \in 0 .. MaxSrcs
    BY <1>10, <2>1 DEF TypeOK
  <2>6. numSrcs' \in Nat
    BY <1>9, <2>1
  <2> HIDE DEF Ifaces, NextSrc
  <2> QED BY <2>1, <2>2, <2>3, <2>4, <2>5, <2>6 DEF TypeOK
<1>12. CASE CreateMacvlan
  <2>1. /\ pc' \in {"create", "crashed"} /\ (numSrcs' = numSrcs \/ NextSrc)
        /\ UNCHANGED <<found, hops, i, numHops, up, steady, everUp, flips, leaked, odd, numDsts,
                       host, octet>>
        /\ \/ ifaces' = ifaces
           \/ \E o \in 1 .. MaxOctet : ifaces' = Append(ifaces, Iface("macvlan", o, TRUE))
        /\ failed' = failed \/ failed' = IF failed < MaxSrcs THEN failed + 1 ELSE failed
    BY <1>12 DEF CreateMacvlan
  <2>2. ifaces' \in Seq(Ifaces)
    <3>1. ifaces \in Seq(Ifaces) /\ TRUE \in BOOLEAN
      BY DEF TypeOK
    <3> HIDE DEF Ifaces
    <3> QED BY <2>1, <3>1, AppendIface
  <2>3. failed' \in 0 .. MaxSrcs
    BY <1>10, <2>1 DEF TypeOK
  <2>4. numSrcs' \in Nat
    BY <1>9, <2>1 DEF TypeOK
  <2>5. /\ pc' \in {"probe", "validate", "plan", "create", "alias", "relist", "flows",
                        "done", "exited", "crashed"}
        /\ UNCHANGED <<found, hops, i, numHops, up, steady, everUp, flips, leaked, odd, numDsts,
                       host, octet>>
    BY <2>1
  <2> HIDE DEF Ifaces
  <2> QED BY <2>2, <2>3, <2>4, <2>5 DEF TypeOK
<1>13. CASE CleanVirtualInterfaces
  <2>1. /\ pc' = "done" /\ ifaces' = Left(ifaces)
        /\ UNCHANGED <<found, hops, i, numHops, up, steady, everUp, flips, leaked, odd, numDsts,
                       numSrcs, host, octet, failed>>
    BY <1>13 DEF CleanVirtualInterfaces
  <2>2. ifaces' \in Seq(Ifaces)
    BY <2>1, LeftDistinct DEF TypeOK
  <2> HIDE DEF Ifaces
  <2> QED BY <2>1, <2>2 DEF TypeOK
<1>14. CASE UNCHANGED vars
  BY <1>14 DEF vars, TypeOK, Ifaces
<1> QED BY <1>2, <1>3, <1>4, <1>5, <1>6, <1>7, <1>8, <1>11, <1>12, <1>13, <1>14 DEF Next, Sender
-----------------------------------------------------------------------------
(* What the probing keeps.                                                 *)

\* The array holds the manager's list at first.
LEMMA ProbeInit == Init => ProbeInv
<1> SUFFICES ASSUME Init PROVE ProbeInv
  OBVIOUS
<1>1. numHops = Len(found) /\ pc = "probe" /\ i = 0
  BY DEF Init
<1>2. Kept = {}
  BY <1>1 DEF Kept
<1>3. ASSUME NEW n \in ToSet(found) PROVE \E j \in 1 .. numHops : hops[j] = n
  <2>1. found \in Seq(Nodes) /\ Len(found) < MaxFlows /\ Len(found) \in Nat /\ MaxFlows \in Nat
    BY FlowPlanAssumption DEF Init
  <2>2. PICK j \in 1 .. Len(found) : found[j] = n
    BY <2>1 DEF ToSet
  <2>3. j \in 1 .. MaxFlows /\ hops[j] = n
    BY <2>1, <2>2 DEF Init
  <2> QED BY <1>1, <2>3
<1> QED BY <1>1, <1>2, <1>3 DEF ProbeInv

\* Every step keeps what was probed and what is still to be probed.
LEMMA ProbeNext == ASSUME TypeOK, ProbeInv, [Next]_vars PROVE ProbeInv'
<1> USE DEF fixedVars, probeVars, nodeVars, pingVars
<1>1. /\ i \in Nat /\ numHops \in Nat /\ i <= numHops /\ numHops < MaxFlows /\ MaxFlows \in Nat
      /\ hops \in [1 .. MaxFlows -> Nodes \cup {Junk}]
  BY FlowPlanAssumption DEF TypeOK, ProbeInv
<1>2. steady \subseteq up /\ up \subseteq everUp
  BY DEF TypeOK
<1>3. CASE ProbeKept
  <2>1. /\ i' = i + 1 /\ i < numHops /\ pc = "probe" /\ Ping(hops[i + 1] \in up, 1)
        /\ UNCHANGED <<pc, found, hops, numHops, steady, everUp>>
    BY <1>3 DEF ProbeKept
  <2>2. Kept' \subseteq Kept \cup {hops[i + 1]}
    BY <1>1, <2>1 DEF Kept
  <2>3. "stray" \notin odd' => hops[i + 1] \in up /\ "stray" \notin odd
    BY <2>1 DEF Ping
  <2>4. "stray" \notin odd' => Kept' \subseteq everUp
    BY <1>2, <2>2, <2>3 DEF ProbeInv
  <2>5. "loss" \notin odd' => "loss" \notin odd
    BY <2>1 DEF Ping
  <2> QED BY <2>1, <2>4, <2>5 DEF ProbeInv
<1>4. CASE ProbeReplaced
  <2>1. /\ i < numHops /\ pc = "probe" /\ hops' = [hops EXCEPT ![i + 1] = hops[i + 2]]
        /\ Ping(hops[i + 1] \in up, -1)
        /\ UNCHANGED <<pc, found, i, numHops, steady, everUp>>
    BY <1>4 DEF ProbeReplaced
  <2>2. /\ "stray" \notin odd' => "stray" \notin odd
        /\ "loss" \notin odd' => "loss" \notin odd /\ hops[i + 1] \notin up
    BY <2>1 DEF Ping
  <2>3. \A j \in 1 .. MaxFlows : j # i + 1 => hops'[j] = hops[j]
    BY <1>1, <2>1
  <2>4. Kept' = Kept
    BY <1>1, <2>1, <2>3 DEF Kept
  <2>5. ASSUME "loss" \notin odd', NEW n \in ToSet(found) \cap steady
        PROVE  \E j \in 1 .. numHops : hops'[j] = n
    <3>1. PICK j \in 1 .. numHops : hops[j] = n
      BY <2>2, <2>5 DEF ProbeInv
    <3>2. j # i + 1
      BY <1>2, <2>2, <2>5, <3>1
    <3>3. hops'[j] = n
      BY <1>1, <2>3, <3>1, <3>2
    <3> QED BY <3>3
  <2> QED BY <2>1, <2>2, <2>4, <2>5 DEF ProbeInv
<1>5. ASSUME NEW n \in Nodes, NodeFlips(n) PROVE ProbeInv'
  <2>1. /\ steady' \subseteq steady /\ everUp \subseteq everUp'
        /\ UNCHANGED <<pc, found, hops, i, numHops, odd>>
    BY <1>5 DEF NodeFlips
  <2>2. Kept' = Kept
    BY <2>1 DEF Kept
  <2> QED BY <2>1, <2>2 DEF ProbeInv
<1>6. ASSUME UNCHANGED <<found, hops, i, numHops, steady, everUp>>, odd \subseteq odd',
             pc' = "probe" \/ i = numHops
      PROVE  ProbeInv'
  <2>1. Kept' = Kept
    BY <1>6 DEF Kept
  <2> QED BY <1>6, <2>1 DEF ProbeInv
<1>7. CASE ProbeReturns \/ Validate \/ ListInterfaces \/ StartAlias \/ CreateMacvlan \/ Relist
           \/ BeginFlows \/ CleanVirtualInterfaces
  <2>1. UNCHANGED <<found, hops, i, numHops, steady, everUp, odd>> /\ i = numHops
    BY <1>7 DEF ProbeReturns, Validate, ListInterfaces, StartAlias, CreateMacvlan, Relist,
                BeginFlows, CleanVirtualInterfaces, ProbeInv
  <2> QED BY <1>6, <2>1
<1>8. CASE AliasTaken \/ AliasFree
  <2>1. UNCHANGED <<found, hops, i, numHops, steady, everUp>> /\ i = numHops
    BY <1>8 DEF AliasTaken, AliasFree, ProbeInv
  <2>2. odd \subseteq odd'
    BY <1>8 DEF AliasTaken, AliasFree, Ping
  <2> QED BY <1>6, <2>1, <2>2
<1>9. CASE UNCHANGED vars
  <2>1. /\ UNCHANGED <<pc, found, hops, i, numHops, steady, everUp, odd>>
        /\ pc = "probe" \/ i = numHops
    BY <1>9 DEF vars, ProbeInv
  <2> QED BY <1>6, <2>1
<1> QED BY <1>3, <1>4, <1>5, <1>7, <1>8, <1>9 DEF Next, Sender

-----------------------------------------------------------------------------
(* How many interfaces are made.                                           *)

\* Another source for the hops that have no flow, whether it exists or not.
LEMMA SourceStep ==
    ASSUME TypeOK, SourceInv, pc \in Creating, NeedsInterface, NextSrc, pc' = "create",
           UNCHANGED <<numDsts, numHops, host>>, ifaces' \in Seq(Ifaces),
           (failed' = 0) => /\ failed = 0
                            /\ Len(ifaces') = Len(ifaces) + 1
    PROVE  SourceInv'
<1>1. /\ numSrcs \in Nat /\ MaxSrcs \in Nat /\ Len(ifaces) \in Nat /\ numDsts \in Nat
      /\ numHops \in Int /\ Len(host) \in Nat
  <2>1. Len(host) \in Nat
    BY HostTypes DEF TypeOK
  <2> HIDE DEF Ifaces
  <2> QED BY <2>1, FlowPlanAssumption DEF TypeOK
<1>2. /\ numSrcs <= MaxSrcs /\ Needed
      /\ failed = 0 => numSrcs = Len(ifaces) \/ (numSrcs = MaxSrcs /\ NeedsInterface)
  BY DEF SourceInv
<1>3. CASE numSrcs < MaxSrcs
  <2>1. numSrcs' = numSrcs + 1 /\ numSrcs' - 1 = numSrcs /\ numSrcs' <= MaxSrcs
    BY <1>1, <1>3 DEF NextSrc
  <2>2. Needed'
    <3>1. (numSrcs' - 1) * numDsts = numSrcs * numDsts
      BY <2>1
    <3> QED BY <3>1 DEF Needed, NeedsInterface
  <2>3. failed' = 0 => numSrcs' = Len(ifaces')
    BY <1>1, <1>2, <1>3, <2>1
  <2> QED BY <2>1, <2>2, <2>3 DEF SourceInv, Listing, Creating
<1>4. CASE ~(numSrcs < MaxSrcs)
  <2>1. numSrcs' = numSrcs /\ numSrcs = MaxSrcs
    BY <1>1, <1>2, <1>4 DEF NextSrc
  <2>2. Needed' /\ NeedsInterface'
    BY <1>2, <2>1 DEF Needed, NeedsInterface
  <2> QED BY <1>2, <2>1, <2>2 DEF SourceInv, Listing, Creating
<1> QED BY <1>3, <1>4

\* Every step keeps the count of the sources.
LEMMA SourceNext ==
    ASSUME TypeOK, TypeOK', SourceInv, [Next]_vars
    PROVE  SourceInv'
<1> USE DEF fixedVars, probeVars, nodeVars, pingVars
<1>1. /\ numSrcs \in Nat /\ numDsts \in Nat /\ numHops \in Int /\ octet \in Nat
      /\ Len(host) \in Nat /\ Len(host) <= MaxSrcs /\ Len(HostList) = Len(host)
      /\ Primary.octet >= 1 /\ failed \in Nat /\ MaxSrcs \in Nat
  <2>1. /\ Len(host) \in Nat /\ Len(host) <= MaxSrcs /\ Len(HostList) = Len(host)
        /\ Primary.octet \in 1 .. MaxOctet
    BY HostTypes DEF TypeOK
  <2>2. Primary.octet >= 1
    BY <2>1, FlowPlanAssumption
  <2> HIDE DEF Ifaces
  <2>3. numSrcs \in Nat /\ numDsts \in Nat /\ octet \in Nat
    BY DEF TypeOK
  <2>4. numHops \in Int /\ failed \in Nat /\ MaxSrcs \in Nat
    BY FlowPlanAssumption DEF TypeOK
  <2> QED BY <2>1, <2>2, <2>3, <2>4
<1>2. CASE UNCHANGED <<pc, numSrcs, numDsts, numHops, host, ifaces, octet, failed>>
  <2>1. UNCHANGED <<HostList, Needed, NeedsInterface, Primary>>
    BY <1>2 DEF HostList, Needed, NeedsInterface, Primary
  <2> QED BY <1>2, <2>1 DEF SourceInv
<1>3. CASE ProbeReturns \/ Validate
  <2>1. pc \in Listing /\ UNCHANGED <<host, ifaces, failed>>
        /\ pc' \in {"validate", "exited", "plan"}
    BY <1>3 DEF ProbeReturns, Validate, Listing
  <2>2. HostList' = HostList
    BY <2>1 DEF HostList
  <2> QED BY <2>1, <2>2 DEF SourceInv, Listing, Creating
<1>4. CASE ListInterfaces
  <2>1. /\ pc = "plan" /\ pc' = "create" /\ numSrcs' = Len(ifaces)
        /\ UNCHANGED <<host, ifaces, failed, numDsts, numHops>>
    BY <1>4 DEF ListInterfaces
  <2>2. ifaces = HostList
    BY <2>1 DEF SourceInv, Listing
  <2>3. numSrcs' = Len(host) /\ numSrcs' <= MaxSrcs
    BY <1>1, <2>1, <2>2
  <2>4. Needed'
    BY <1>1, <2>1, <2>3 DEF Needed
  <2> QED BY <2>1, <2>3, <2>4 DEF SourceInv, Listing, Creating
<1>5. CASE StartAlias
  <2>1. /\ pc = "create" /\ NeedsInterface /\ Primary.e /\ pc' = "alias" /\ octet' = Primary.octet
        /\ UNCHANGED <<numSrcs, numDsts, numHops, host, ifaces, failed>>
    BY <1>5 DEF StartAlias
  <2>2. UNCHANGED <<Needed, NeedsInterface, Primary>>
    BY <2>1 DEF Needed, NeedsInterface, Primary
  <2> QED BY <1>1, <2>1, <2>2 DEF SourceInv, Listing, Creating
<1>6. CASE AliasTaken
  <2>1. /\ pc = "alias" /\ octet' = octet + numSrcs
        /\ UNCHANGED <<pc, numSrcs, numDsts, numHops, host, ifaces, failed>>
    BY <1>6 DEF AliasTaken
  <2>2. UNCHANGED <<Needed, NeedsInterface, Primary>>
    BY <2>1 DEF Needed, NeedsInterface, Primary
  <2>3. octet >= 1 /\ octet' >= 1
    BY <1>1, <2>1 DEF SourceInv
  <2> QED BY <2>1, <2>2, <2>3 DEF SourceInv, Listing, Creating
<1>7. CASE AliasFree
  <2>1. /\ pc = "alias" /\ pc' = "create" /\ NextSrc
        /\ UNCHANGED <<numDsts, numHops, host>>
        /\ \/ ifaces' = Append(ifaces, Iface("alias", octet', Primary.m)) /\ failed' = failed
           \/ failed' = IF failed < MaxSrcs THEN failed + 1 ELSE failed
    BY <1>7 DEF AliasFree
  <2>2. ASSUME failed' = 0 PROVE failed = 0 /\ Len(ifaces') = Len(ifaces) + 1
    <3>1. \/ failed' = failed /\ ifaces' = Append(ifaces, Iface("alias", octet', Primary.m))
          \/ MaxSrcs = 0
      BY <1>1, <2>1, <2>2
    <3>2. MaxSrcs # 0
      BY HostTypes, <1>1 DEF TypeOK
    <3>3. ifaces \in Seq(Ifaces)
      BY DEF TypeOK
    <3> HIDE DEF Ifaces
    <3>4. Len(Append(ifaces, Iface("alias", octet', Primary.m))) = Len(ifaces) + 1
      BY <3>3
    <3> QED BY <2>2, <3>1, <3>2, <3>4
  <2>3. pc \in Creating /\ NeedsInterface /\ ifaces' \in Seq(Ifaces)
    BY <2>1 DEF SourceInv, Creating, TypeOK
  <2> QED BY <2>1, <2>2, <2>3, SourceStep
<1>8. CASE CreateMacvlan
  <2>1. /\ pc = "create" /\ NeedsInterface /\ UNCHANGED <<numDsts, numHops, host>>
        /\ \/ pc' = "crashed"
           \/ /\ NextSrc /\ pc' = "create" /\ failed' = failed
              /\ \E o \in 1 .. MaxOctet : ifaces' = Append(ifaces, Iface("macvlan", o, TRUE))
           \/ /\ NextSrc /\ pc' = "create"
              /\ failed' = IF failed < MaxSrcs THEN failed + 1 ELSE failed
    BY <1>8 DEF CreateMacvlan
  <2>2. CASE pc' = "crashed"
    BY <2>2 DEF SourceInv, Listing, Creating
  <2>3. CASE pc' # "crashed"
    <3>1. NextSrc /\ pc' = "create"
      BY <2>1, <2>3
    <3>2. ASSUME failed' = 0 PROVE failed = 0 /\ Len(ifaces') = Len(ifaces) + 1
      <4>1. MaxSrcs # 0
        BY HostTypes, <1>1 DEF TypeOK
      <4>2. ifaces \in Seq(Ifaces)
        BY DEF TypeOK
      <4>3. /\ failed' = failed
            /\ \E o \in 1 .. MaxOctet : ifaces' = Append(ifaces, Iface("macvlan", o, TRUE))
        <5>1. (IF failed < MaxSrcs THEN failed + 1 ELSE failed) # 0
          BY <1>1, <4>1
        <5> QED BY <2>1, <2>3, <3>2, <5>1
      <4> HIDE DEF Ifaces
      <4>4. \A e : Len(Append(ifaces, e)) = Len(ifaces) + 1
        BY <4>2
      <4> QED BY <3>2, <4>3, <4>4
    <3>3. pc \in Creating /\ ifaces' \in Seq(Ifaces)
      BY <2>1 DEF Creating, TypeOK
    <3> QED BY <2>1, <3>1, <3>2, <3>3, SourceStep
  <2> QED BY <2>2, <2>3
<1>9. CASE Relist
  <2>1. /\ pc = "create" /\ ~NeedsInterface /\ pc' = "relist" /\ numSrcs' = Len(ifaces)
        /\ UNCHANGED <<numDsts, numHops, host, failed>>
    BY <1>9 DEF Relist
  <2>2. ASSUME failed' = 0 PROVE numSrcs' * numDsts' >= numHops' /\ Needed'
    <3>1. numSrcs' = numSrcs /\ Needed
      BY <2>1, <2>2 DEF SourceInv, Creating
    <3>2. numSrcs * numDsts >= numHops
      <4>1. numSrcs * numDsts \in Nat
        BY <1>1
      <4> QED BY <1>1, <2>1, <4>1 DEF NeedsInterface
    <3> QED BY <2>1, <3>1, <3>2 DEF Needed
  <2> QED BY <2>1, <2>2 DEF SourceInv, Listing, Creating
<1>10. CASE BeginFlows
  <2>1. /\ pc = "relist" /\ pc' \in {"crashed", "flows"}
        /\ UNCHANGED <<numSrcs, numDsts, numHops, host, failed>>
    BY <1>10 DEF BeginFlows
  <2>2. Needed' = Needed
    BY <2>1 DEF Needed
  <2> QED BY <2>1, <2>2 DEF SourceInv, Listing, Creating
<1>11. CASE CleanVirtualInterfaces
  BY <1>11 DEF CleanVirtualInterfaces, SourceInv, Listing, Creating
<1>12. CASE ProbeKept \/ ProbeReplaced \/ (\E n \in Nodes : NodeFlips(n)) \/ UNCHANGED vars
  <2>1. UNCHANGED <<pc, numSrcs, numDsts, numHops, host, ifaces, octet, failed>>
    BY <1>12 DEF ProbeKept, ProbeReplaced, NodeFlips, vars
  <2> QED BY <1>2, <2>1
<1> QED BY <1>3, <1>4, <1>5, <1>6, <1>7, <1>8, <1>9, <1>10, <1>11, <1>12 DEF Next, Sender
-----------------------------------------------------------------------------
(* The addresses of the interfaces, and which of them are left.            *)

\* No two places of the list hold the same address, and no alias or macvlan
\* has the address of another machine.
Apart(q)  == \A a, b \in 1 .. Len(q) : q[a].octet = q[b].octet => a = b
Clear(q)  == \A a \in 1 .. Len(q) : q[a].kind # "host" => q[a].octet \notin Neighbours

\* AddressesFree and the ping's verdict, by the places in the list.
LEMMA ByPlace ==
    ASSUME ifaces \in Seq(Ifaces)
    PROVE  /\ AddressesFree <=> ("loss" \notin odd => Apart(ifaces) /\ Clear(ifaces))
           /\ \A o : ~InUse(o) => /\ o \notin Neighbours
                                  /\ \A a \in 1 .. Len(ifaces) : ifaces[a].octet # o
<1>1. DOMAIN ifaces = 1 .. Len(ifaces) /\ ToSet(ifaces) = {ifaces[a] : a \in 1 .. Len(ifaces)}
  BY DEF ToSet
<1>2. AddressesFree <=> ("loss" \notin odd => Apart(ifaces) /\ Clear(ifaces))
  BY <1>1 DEF AddressesFree, Apart, Clear
<1>3. \A o : ~InUse(o) => /\ o \notin Neighbours
                          /\ \A a \in 1 .. Len(ifaces) : ifaces[a].octet # o
  BY <1>1 DEF InUse
<1> QED BY <1>2, <1>3

\* An address nobody uses may be added.
LEMMA AppendApart ==
    ASSUME NEW q \in Seq(Ifaces), NEW k \in {"alias", "macvlan"}, NEW o \in 1 .. MaxOctet,
           NEW w \in BOOLEAN, Apart(q), Clear(q), o \notin Neighbours,
           \A a \in 1 .. Len(q) : q[a].octet # o
    PROVE  Apart(Append(q, Iface(k, o, w))) /\ Clear(Append(q, Iface(k, o, w)))
<1> DEFINE e == Iface(k, o, w)
           p == Append(q, e)
<1>1. /\ Len(p) = Len(q) + 1 /\ \A a \in 1 .. Len(q) : p[a] = q[a]
      /\ p[Len(q) + 1] = e
  BY AppendIface
<1>2. e.octet = o
  BY IfaceFields
<1>3. Len(q) \in Nat
  BY LenProperties
<1> HIDE DEF e, p
<1>4. ASSUME NEW a \in 1 .. Len(p) PROVE a \in 1 .. Len(q) \/ (a = Len(q) + 1 /\ p[a].octet = o)
  BY <1>1, <1>2, <1>3
<1>5. Apart(p)
  <2> SUFFICES ASSUME NEW a \in 1 .. Len(p), NEW b \in 1 .. Len(p), p[a].octet = p[b].octet
               PROVE  a = b
    BY DEF Apart
  <2>1. CASE a \in 1 .. Len(q) /\ b \in 1 .. Len(q)
    BY <1>1, <2>1 DEF Apart
  <2>2. CASE a \in 1 .. Len(q) /\ b \notin 1 .. Len(q)
    BY <1>1, <1>4, <2>2
  <2>3. CASE a \notin 1 .. Len(q) /\ b \in 1 .. Len(q)
    BY <1>1, <1>4, <2>3
  <2>4. CASE a \notin 1 .. Len(q) /\ b \notin 1 .. Len(q)
    BY <1>4, <2>4
  <2> QED BY <2>1, <2>2, <2>3, <2>4
<1>6. Clear(p)
  BY <1>1, <1>4 DEF Clear
<1> QED BY <1>5, <1>6 DEF e, p

\* The host's own addresses differ.
LEMMA AddressInit == Init => AddressesFree
<1> SUFFICES ASSUME Init PROVE AddressesFree
  OBVIOUS
<1>1. host \in Hosts /\ ifaces = HostList
  BY DEF Init
<1>2. ifaces \in Seq(Ifaces) /\ Apart(ifaces) /\ Clear(ifaces)
  BY <1>1, HostTypes DEF Apart, Clear
<1> QED BY <1>2, ByPlace

\* Every step keeps the addresses apart.
LEMMA AddressNext == ASSUME TypeOK, TypeOK', SourceInv, AddressesFree, [Next]_vars PROVE AddressesFree'
<1> USE DEF fixedVars, probeVars, nodeVars, pingVars
<1>1. ifaces \in Seq(Ifaces) /\ ifaces' \in Seq(Ifaces) /\ MaxOctet \in Nat
  BY FlowPlanAssumption DEF TypeOK
<1>2. AddressesFree' <=> ("loss" \notin odd' => Apart(ifaces') /\ Clear(ifaces'))
  <2>1. /\ DOMAIN ifaces' = 1 .. Len(ifaces')
        /\ ToSet(ifaces') = {ifaces'[a] : a \in 1 .. Len(ifaces')}
    <3> HIDE DEF Ifaces
    <3> QED BY <1>1 DEF ToSet
  <2> QED BY <2>1 DEF AddressesFree, Apart, Clear
<1>3. "loss" \notin odd => Apart(ifaces) /\ Clear(ifaces)
  BY <1>1, ByPlace
<1>4. odd \subseteq odd'
  <2>1. \A w, r : Ping(w, r) => odd \subseteq odd'
    BY DEF Ping
  <2> QED BY <2>1 DEF Next, Sender, ProbeKept, ProbeReplaced, ProbeReturns, Validate, NodeFlips,
         ListInterfaces, StartAlias, AliasTaken, AliasFree, CreateMacvlan, Relist, BeginFlows,
         CleanVirtualInterfaces, vars
<1>5. CASE ifaces' = ifaces
  BY <1>2, <1>3, <1>4, <1>5
<1>6. CASE AliasFree
  <2>1. /\ pc = "alias" /\ octet' = octet + numSrcs
        /\ Ping(octet + numSrcs <= MaxOctet /\ InUse(octet + numSrcs), -1)
        /\ \/ ifaces' = ifaces
           \/ octet' <= MaxOctet /\ ifaces' = Append(ifaces, Iface("alias", octet', Primary.m))
    BY <1>6 DEF AliasFree
  <2>2. CASE ifaces' # ifaces
    <3> SUFFICES ASSUME "loss" \notin odd' PROVE Apart(ifaces') /\ Clear(ifaces')
      BY <1>2
    <3>1. octet' <= MaxOctet /\ ifaces' = Append(ifaces, Iface("alias", octet', Primary.m))
      BY <2>1, <2>2
    <3>2. ~InUse(octet')
      BY <2>1, <3>1 DEF Ping
    <3>3. octet' \in 1 .. MaxOctet
      <4>1. octet \in Nat /\ numSrcs \in Nat /\ octet >= 1
        BY <2>1 DEF TypeOK, SourceInv
      <4> QED BY <1>1, <2>1, <3>1, <4>1
    <3>4. octet' \notin Neighbours /\ \A a \in 1 .. Len(ifaces) : ifaces[a].octet # octet'
      BY <1>1, <3>2, ByPlace
    <3>5. Primary.m \in BOOLEAN
      BY HostTypes DEF TypeOK
    <3>6. Apart(ifaces) /\ Clear(ifaces)
      BY <1>3, <1>4
    <3> HIDE DEF Ifaces
    <3> QED BY <1>1, <3>1, <3>3, <3>4, <3>5, <3>6, AppendApart
  <2> QED BY <1>5, <2>2
<1>7. CASE CreateMacvlan
  <2>1. CASE ifaces' # ifaces
    <3> SUFFICES ASSUME "loss" \notin odd' PROVE Apart(ifaces') /\ Clear(ifaces')
      BY <1>2
    <3>1. PICK o \in 1 .. MaxOctet : ~InUse(o) /\ ifaces' = Append(ifaces, Iface("macvlan", o, TRUE))
      BY <1>7, <2>1 DEF CreateMacvlan
    <3>2. o \notin Neighbours /\ \A a \in 1 .. Len(ifaces) : ifaces[a].octet # o
      BY <1>1, <3>1, ByPlace
    <3>3. Apart(ifaces) /\ Clear(ifaces) /\ TRUE \in BOOLEAN
      BY <1>3, <1>4
    <3> HIDE DEF Ifaces
    <3> QED BY <1>1, <3>1, <3>2, <3>3, AppendApart
  <2> QED BY <1>5, <2>1
<1>8. CASE CleanVirtualInterfaces
  <2> SUFFICES ASSUME "loss" \notin odd' PROVE Apart(ifaces') /\ Clear(ifaces')
    BY <1>2
  <2>1. ifaces' = Left(ifaces) /\ Apart(ifaces) /\ Clear(ifaces)
    BY <1>3, <1>4, <1>8 DEF CleanVirtualInterfaces
  <2> HIDE DEF Ifaces
  <2>2. /\ \A a \in 1 .. Len(Left(ifaces)) : \E b \in 1 .. Len(ifaces) : Left(ifaces)[a] = ifaces[b]
        /\ Apart(ifaces) => Apart(Left(ifaces))
    BY <1>1, LeftDistinct DEF Apart
  <2>3. Clear(Left(ifaces))
    BY <2>1, <2>2 DEF Clear
  <2> QED BY <2>1, <2>2, <2>3
<1>9. \/ ifaces' = ifaces \/ AliasFree \/ CreateMacvlan \/ CleanVirtualInterfaces
  BY DEF Next, Sender, ProbeKept, ProbeReplaced, ProbeReturns, Validate, NodeFlips,
         ListInterfaces, StartAlias, AliasTaken, Relist, BeginFlows, vars
<1> QED BY <1>5, <1>6, <1>7, <1>8, <1>9

\* Nothing but the host's interfaces is there at first.
LEMMA LinksInit == Init => LinksInv
<1> SUFFICES ASSUME Init PROVE pc # "done" /\ OnlyMacvlans
  BY DEF LinksInv
<1>1. Len(HostList) = Len(host) /\ Len(host) \in Nat
  BY HostTypes DEF Init
<1> QED BY <1>1 DEF Init, OnlyMacvlans

\* Every step of a sender whose primary interface has no e keeps its host's interfaces.
LEMMA LinksNext == ASSUME TypeOK, TypeOK', SourceInv, LinksInv, [Next]_vars PROVE LinksInv'
<1> USE DEF fixedVars, probeVars, nodeVars, pingVars
<1>1. UNCHANGED host
  BY DEF Next, Sender, ProbeKept, ProbeReplaced, ProbeReturns, Validate, NodeFlips,
         ListInterfaces, StartAlias, AliasTaken, AliasFree, CreateMacvlan, Relist, BeginFlows,
         CleanVirtualInterfaces, vars
<1>2. UNCHANGED <<Primary, HostList>>
  BY <1>1 DEF Primary, HostList
<1> SUFFICES ASSUME ~Primary.e PROVE LinksInv'
  BY <1>2 DEF LinksInv
<1>3. ifaces \in Seq(Ifaces) /\ host \in Hosts /\ Len(host) \in Nat
  BY HostTypes DEF TypeOK
<1>4. CASE ifaces' = ifaces /\ (pc' = pc \/ (pc # "done" /\ pc' # "done"))
  <2>1. OnlyMacvlans' = OnlyMacvlans
    BY <1>1, <1>2, <1>4 DEF OnlyMacvlans
  <2> QED BY <1>1, <1>2, <1>4, <2>1 DEF LinksInv
<1>5. CASE AliasFree
  BY <1>5 DEF AliasFree, SourceInv
<1>6. CASE CreateMacvlan
  <2>1. pc = "create" /\ pc' # "done"
    BY <1>6 DEF CreateMacvlan
  <2>2. CASE ifaces' # ifaces
    <3>1. PICK o \in 1 .. MaxOctet : ifaces' = Append(ifaces, Iface("macvlan", o, TRUE))
      BY <1>6, <2>2 DEF CreateMacvlan
    <3> DEFINE e == Iface("macvlan", o, TRUE)
    <3>2. /\ Len(ifaces') = Len(ifaces) + 1 /\ \A a \in 1 .. Len(ifaces) : ifaces'[a] = ifaces[a]
          /\ ifaces'[Len(ifaces) + 1] = e
      <4>1. TRUE \in BOOLEAN
        OBVIOUS
      <4> HIDE DEF Ifaces
      <4> QED BY <1>3, <3>1, <4>1, AppendIface
    <3>3. e.m
      BY Zenon DEF Iface
    <3>4. Len(ifaces) \in Nat
      BY <1>3, LenProperties
    <3> HIDE DEF e
    <3>5. OnlyMacvlans
      BY <2>1 DEF LinksInv
    <3>6. Len(ifaces') >= Len(host') /\ \A a \in 1 .. Len(host') : ifaces'[a] = HostList'[a]
      BY <1>1, <1>2, <1>3, <3>2, <3>4, <3>5 DEF OnlyMacvlans
    <3>7. ASSUME NEW a \in Len(host') + 1 .. Len(ifaces') PROVE ifaces'[a].m
      <4>1. CASE a \in Len(host) + 1 .. Len(ifaces)
        <5>1. a \in 1 .. Len(ifaces) /\ ifaces[a].m
          BY <1>3, <3>4, <3>5, <4>1 DEF OnlyMacvlans
        <5> QED BY <3>2, <5>1
      <4>2. CASE a = Len(ifaces) + 1
        BY <3>2, <3>3, <4>2
      <4>3. a \in Len(host) + 1 .. Len(ifaces) \/ a = Len(ifaces) + 1
        BY <1>1, <1>3, <3>2, <3>4
      <4> QED BY <4>1, <4>2, <4>3
    <3> QED BY <2>1, <3>6, <3>7 DEF LinksInv, OnlyMacvlans
  <2> QED BY <1>4, <2>1, <2>2
<1>7. CASE CleanVirtualInterfaces
  <2>1. pc = "flows" /\ pc' = "done" /\ ifaces' = Left(ifaces)
    BY <1>7 DEF CleanVirtualInterfaces
  <2>2. OnlyMacvlans
    BY <2>1 DEF LinksInv
  <2>3. ASSUME \A h \in ToSet(host) : ~h.m PROVE ifaces' = HostList
    <3>1. \A a \in 1 .. Len(host) : ~host[a].m
      <4>1. DOMAIN host = 1 .. Len(host)
        BY <1>3, FlowPlanAssumption
      <4> QED BY <2>3, <4>1 DEF ToSet
    <3> QED BY <1>3, <2>1, <2>2, <3>1, LeftHost
  <2> QED BY <1>1, <1>2, <2>1, <2>3 DEF LinksInv
<1>8. \/ ifaces' = ifaces /\ (pc' = pc \/ (pc # "done" /\ pc' # "done"))
      \/ AliasFree \/ CreateMacvlan \/ CleanVirtualInterfaces
  BY DEF Next, Sender, ProbeKept, ProbeReplaced, ProbeReturns, Validate, NodeFlips,
         ListInterfaces, StartAlias, AliasTaken, Relist, BeginFlows, vars
<1> QED BY <1>4, <1>5, <1>6, <1>7, <1>8

-----------------------------------------------------------------------------
(* The theorems.                                                           *)

\* The invariant of the plan holds in every behaviour.
LEMMA PlanAlways == Spec => []PlanInv
<1>1. Init => PlanInv
  <2>1. Init => SourceInv
    BY DEF Init, SourceInv, Listing, Creating
  <2> QED BY <2>1, TypeInit, ProbeInit, AddressInit, LinksInit DEF PlanInv
<1>2. PlanInv /\ [Next]_vars => PlanInv'
  <2> SUFFICES ASSUME PlanInv, [Next]_vars PROVE PlanInv'
    OBVIOUS
  <2>1. TypeOK /\ ProbeInv /\ SourceInv /\ AddressesFree /\ LinksInv /\ numHops = Len(found)
    BY DEF PlanInv, ProbeInv
  <2>2. TypeOK'
    BY <2>1, TypeNext
  <2>3. ProbeInv' /\ SourceInv' /\ AddressesFree' /\ LinksInv'
    BY <2>1, <2>2, ProbeNext, SourceNext, AddressNext, LinksNext
  <2> QED BY <2>2, <2>3 DEF PlanInv
<1> QED BY <1>1, <1>2, PTL DEF Spec

\* The plan's variables keep their types: probing never reads past the array.
THEOREM PlanTypes == Spec => []TypeOK
BY PlanAlways, PTL DEF PlanInv

\* Without stray packets every hop kept answered once; without lost ones every node that
\* was there all the time is kept.
THEOREM ProbeSoundAlways == Spec => []ProbeSound
<1>1. ASSUME PlanInv PROVE ProbeSound
  <2>1. ProbeInv
    BY <1>1 DEF PlanInv
  <2>2. ASSUME "loss" \notin odd, Probed, NEW n \in ToSet(found) \cap steady PROVE n \in Kept
    <3>1. PICK j \in 1 .. numHops : hops[j] = n
      BY <2>1, <2>2 DEF ProbeInv
    <3>2. i = numHops
      BY <2>1, <2>2 DEF ProbeInv, Probed
    <3> QED BY <3>1, <3>2 DEF Kept
  <2> QED BY <2>1, <2>2 DEF ProbeInv, ProbeSound
<1> QED BY <1>1, PlanAlways, PTL

\* When each creation succeeded, every hop has a flow, and no interface too many was made.
THEOREM FlowsCoverHopsAlways == Spec => []FlowsCoverHops
<1>1. PlanInv => FlowsCoverHops
  BY DEF PlanInv, SourceInv, FlowsCoverHops, Needed
<1> QED BY <1>1, PlanAlways, PTL

\* Unless echoes are lost, no interface has an address that another one has.
THEOREM AddressesFreeAlways == Spec => []AddressesFree
BY PlanAlways, PTL DEF PlanInv

\* A teardown restores the interfaces of a host without e in the name of the primary one
\* and without m in any.
THEOREM MacvlansRemovedAlways == Spec => []MacvlansRemoved
<1>1. PlanInv => MacvlansRemoved
  BY DEF PlanInv, LinksInv, MacvlansRemoved
<1> QED BY <1>1, PlanAlways, PTL
=============================================================================
