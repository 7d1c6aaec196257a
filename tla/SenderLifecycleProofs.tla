------------------------ MODULE SenderLifecycleProofs ------------------------
(***************************************************************************)
(* For every number of sessions, flows and alerts: a teardown that no      *)
(* other thread joins leaves nothing behind, and rules outlive their       *)
(* connection.  The argument is about a thread that is alone with the      *)
(* overlay connections: whatever earlier sessions left in the nodes'       *)
(* queues, its second echo for a flow means that the queue is empty, the   *)
(* node alive and the spec applied, for a dead node ends the process with  *)
(* the second send.                                                        *)
(***************************************************************************)
EXTENDS SenderLifecycle, FiniteSetTheorems, SequenceTheorems, TLAPS

\* Setup has not yet reached the connection to the receiver.
Preparing == adding \/ pc[Main] \in Connecting \ {"pause"}

\* The monitoring is yet to begin.
Early == {"discover", "add", "monitor", "spawn"}

-----------------------------------------------------------------------------
(* The threads.                                                            *)

\* Where each alert that was sent is: on a DAR socket, counted by a DAR thread, or
\* gone.  It bounds the counters without a sum over the threads.
Spot(s, p)       == <<s, p>>
Spots            == {Spot(s, p) : s \in Dars, p \in {"queued", "counted", "gone"}}
InPlace(n, h, x) == {i \in 1 .. n : h[i] = x}
AlertInv ==
    \E h \in [1 .. sent -> Spots] :
        \A s \in Dars : /\ inbox[s] = Cardinality(InPlace(sent, h, Spot(s, "queued")))
                        /\ count[s] = Cardinality(InPlace(sent, h, Spot(s, "counted")))

\* Which places a thread reaches, and where the loop counters start.
PlaceInv(t) ==
    /\ IF t = Main THEN pc[t] \notin {"none", "read", "reading", "raise", "ended"}
                   ELSE pc[t] \notin Connecting \cup {"app", "answer"}
    /\ pc[t] \notin Exchanging \cup {"add", "own"} => flow[t] = 1
    /\ t > session => pc[t] = "none"
    /\ t # Main /\ pc[t] \in Cleaning \cup {"raise"} => count[t] >= 1

\* Setup and teardown, and who is in begun.
PhaseInv ==
    /\ adding => pc[Main] \in Exchanging \cup {"add"}
    /\ pc[Main] = "add" => adding
    /\ pc[Main] = "pause" => session < Sessions
    /\ pc[session] # "none" => ~adding /\ pc[Main] \notin Early
    /\ \A t \in Dars : pc[t] \in Cleaning => t \in begun
    /\ session \in begun => pc[session] # "none"
    /\ Main \in begun <=> pc[Main] \in (Cleaning \cup {"pause"}) /\ ~adding

-----------------------------------------------------------------------------
(* The network.                                                            *)

\* The pass that a thread is in, or that it begins next.
Latest(t) == IF t = Main /\ pc[t] = "discover" THEN 2 * session - 1 ELSE Pass(t)

\* <<t, p, k>> is still to be opened.
Ahead(t, p, k) ==
    \/ p > Latest(t)
    \/ /\ p = Latest(t)
       /\ pc[t] \notin {"own", "final", "exit", "pause", "none", "read", "reading", "ended"}
       /\ pc[t] \in {"add", "open"} => k >= flow[t]
       /\ pc[t] \in Exchanging \ {"open"} => k > flow[t]

FreshInv == \A o \in Conns : Ahead(o[1], o[2], o[3]) => net[o] = "none"

\* A connection that was not opened carries nothing.
ConnInv(o) ==
    /\ acks[o] <= stage[o]
    /\ net[o] = "none" => inq[o] = <<>> /\ stage[o] = 0

\* A node has each of its connections in the queue once, as long as it has not read
\* both specs; a dead one has none.
QueueInv(k) ==
    /\ \A i \in 1 .. Len(queue[k]) :
          LET o == queue[k][i] IN o[3] = k /\ net[o] = "ok" /\ stage[o] < 2
    /\ \A i, j \in 1 .. Len(queue[k]) : queue[k][i] = queue[k][j] => i = j
    /\ k \in down => queue[k] = <<>>

NetInv == (\A o \in Conns : ConnInv(o)) /\ (\A k \in Flows : QueueInv(k))

\* Descriptors and blocked calls name connections that were opened.
Opened(x) == x.kind = "ov" => net[x.id] # "none"
NamedInv  == (\A f \in Fds : Opened(fds[f])) /\ (\A t \in Threads : Opened(on[t]))

-----------------------------------------------------------------------------
(* A thread that shares the overlay connections with no other.             *)

Alone(t)   == t \in {Main, session} /\ begun \subseteq {t}
Adds(t)    == t = Main /\ adding
Conn(t)    == <<t, Pass(t), flow[t]>>
Spec3(t)   == <<leg[t], flow[t], IF Adds(t) THEN "A" ELSE "D">>

\* Nothing is left to do at node k in this pass, or to go wrong.
Settled(k)  == queue[k] = <<>> /\ k \notin down
Through(t, k) == Settled(k) /\ (~Adds(t) => k \notin rules)

\* The node has not begun with the connection; it has answered the first spec; both.
\* Nobody is queued behind.
Last(t)    == LET q == queue[flow[t]] IN q # <<>> /\ q[Len(q)] = Conn(t)
Queued(t)  == Last(t) /\ stage[Conn(t)] = 0 /\ acks[Conn(t)] = 0
Begun1(t)  == /\ Last(t) /\ Len(queue[flow[t]]) = 1 /\ stage[Conn(t)] = 1
              /\ ~Adds(t) => flow[t] \notin rules

Specs(t)   == inq[Conn(t)]

\* How far an exchange over a connection that works is ...
Proceeds(t) ==
    /\ net[Conn(t)] = "ok"
    /\ \/ leg[t] = "fwd" /\ pc[t] = "send" /\ Queued(t) /\ Specs(t) = <<>>
       \/ leg[t] = "fwd" /\ pc[t] # "send" /\ Queued(t) /\ Specs(t) = <<Spec3(t)>>
       \/ leg[t] = "fwd" /\ pc[t] # "send" /\ Begun1(t) /\ Specs(t) = <<>> /\ acks[Conn(t)] = 1
       \/ leg[t] = "dar" /\ pc[t] = "send" /\ Begun1(t) /\ Specs(t) = <<>> /\ acks[Conn(t)] = 0
       \/ leg[t] = "dar" /\ pc[t] # "send" /\ Begun1(t) /\ Specs(t) = <<Spec3(t)>> /\ acks[Conn(t)] = 0
       \/ leg[t] = "dar" /\ pc[t] # "send" /\ Through(t, flow[t])
    /\ pc[t] = "closeOv" => Through(t, flow[t])

\* ... and over one that does not: the second send() ends the process.
Fails(t) ==
    /\ net[Conn(t)] \in {"rst", "broken"} /\ acks[Conn(t)] = 0 /\ pc[t] # "closeOv"
    /\ leg[t] = "fwd" \/ (pc[t] = "send" /\ net[Conn(t)] = "broken")

Holds(t) == /\ fds[myfd[t]] = Overlay(Conn(t))
            /\ pc[t] = "wait" => on[t] = Overlay(Conn(t))

\* The flows it is through with, the one it is at, ...
Before(t)  == pc[t] \in Exchanging \cup {"add"} =>
                  \A k \in Flows : k < flow[t] => Through(t, k)
Present(t) == pc[t] \in Exchanging \ {"open"} => Holds(t) /\ (Proceeds(t) \/ Fails(t))

\* ... what the last loop of clean_rules leaves, and the pause between two passes.
After(t)   == pc[t] \in {"own", "final", "exit"} =>
                  \A k \in Flows : Through(t, k) /\ (k < flow[t] \/ pc[t] # "own" => k \notin own)
Between(t) == begun = {} /\ t = Main /\ ~adding /\ pc[t] # "discover" => \A k \in Flows : Settled(k)

AloneInv(t) == Alone(t) => Before(t) /\ Present(t) /\ After(t) /\ Between(t)

-----------------------------------------------------------------------------
(* The connection to the receiver.                                         *)

Receiving == {f \in Fds : fds[f].kind = "receiver"}

\* Its descriptor is the main thread's; a teardown that begins while it stands closes it
\* before anything else, and finds the nodes idle.
WhereInv == \A f \in Receiving : \/ pc[Main] = "return" /\ f = myfd[Main]
                                 \/ pc[Main] \in {"app", "answer", "close"} /\ f = connfd
EarlyInv == ~early /\ Preparing => begun = {}
QuietInv == ~early /\ Receiving # {} =>
                (\A t \in begun : pc[t] = "close") /\ (\A k \in Flows : queue[k] = <<>>)
ReceiverInv == WhereInv /\ EarlyInv /\ QuietInv

RunningInv ==
    /\ \A t \in Threads : PlaceInv(t)
    /\ PhaseInv /\ FreshInv /\ NamedInv /\ (\A t \in Threads : AloneInv(t)) /\ ReceiverInv

EndedInv == (\A t \in Threads : pc[t] = "ended") /\ (\A f \in Fds : fds[f] = Free)

\* The inductive strengthening of both properties.
LifecycleInv ==
    /\ TypeOK /\ AlertInv /\ NetInv
    /\ IF fate = "running" THEN RunningInv ELSE EndedInv

-----------------------------------------------------------------------------
(* What descriptors name, and connections.                                 *)

\* The kinds of files tell them apart, and a connection is named by one file only.
LEMMA FileFacts ==
    /\ Free \in Files /\ Stdin \in Files /\ Free.kind = "free" /\ Stdin.kind = "stdin"
    /\ \A s \in Dars : \A k \in {"alerts", "receiver"} :
          /\ File(k, s) \in Files /\ File(k, s).kind = k /\ File(k, s) # Free
    /\ \A o \in Conns : /\ Overlay(o) \in Files /\ Overlay(o).kind = "ov"
                        /\ Overlay(o).id = o /\ Overlay(o) # Free
    /\ \A x \in Files : /\ x.kind = "ov" => x.id \in Conns
                        /\ x.kind = "alerts" => x.id[1] \in Dars
<1>1. \A o \in Conns : Overlay(o) \in Files
  BY DEF Files
<1>2. \A s \in Dars : \A k \in {"alerts", "receiver"} : File(k, s) \in Files
  BY DEF Files
<1>3. ASSUME NEW x \in Files PROVE /\ x.kind = "ov" => x.id \in Conns
                                   /\ x.kind = "alerts" => x.id[1] \in Dars
  <2>1. CASE x \in {Free, Stdin}
    BY <2>1 DEF Free, Stdin, File
  <2>2. CASE \E s \in Dars : \E k \in {"alerts", "receiver"} : x = File(k, s)
    BY <2>2 DEF File
  <2>3. CASE \E o \in Conns : x = Overlay(o)
    BY <2>3 DEF Overlay
  <2> QED BY <2>1, <2>2, <2>3 DEF Files
<1>4. Free \in Files /\ Stdin \in Files
  BY DEF Files
<1> QED BY <1>1, <1>2, <1>3, <1>4 DEF Free, Stdin, File, Overlay

\* Threads, flows and descriptors.
LEMMA ThreadFacts ==
    /\ Main \in Threads /\ Dars \subseteq Threads /\ Main \notin Dars /\ 1 \in Dars
    /\ \A t \in Threads : t = Main \/ t \in Dars
    /\ \A t \in Threads : t \in Int /\ t <= Sessions /\ (t # Main => t >= 1)
    /\ \A t \in Dars : t \in Nat /\ t >= 1 /\ t <= Sessions
    /\ 1 \in Flows /\ NumFlows \in Flows /\ Flows \subseteq Nat
    /\ \A k \in Flows : 1 <= k /\ k <= NumFlows /\ (k # NumFlows => k + 1 \in Flows)
    /\ 0 \in Fds
BY LifecycleAssumption DEF Threads, Dars, Main, Flows, Fds

\* The parts of a connection's name.
LEMMA ConnFacts ==
    /\ \A o \in Conns : /\ o[1] \in Threads /\ o[2] \in Nat /\ o[3] \in Flows
                        /\ o = <<o[1], o[2], o[3]>>
    /\ \A p \in 1 .. 2 * Sessions : \A k \in Flows : <<Main, p, k>> \in Conns
    /\ \A t \in Dars : \A p \in 1 .. MaxSent : \A k \in Flows : <<t, p, k>> \in Conns
BY LifecycleAssumption DEF Conns, Threads, Dars

-----------------------------------------------------------------------------
(* Alerts.                                                                 *)

\* As many alerts at most are in one place as were sent.
LEMMA CountBound ==
    ASSUME NEW n \in Nat, NEW h, NEW x
    PROVE  /\ IsFiniteSet(InPlace(n, h, x)) /\ Cardinality(InPlace(n, h, x)) \in 0 .. n
<1>1. IsFiniteSet(1 .. n) /\ Cardinality(1 .. n) = n
  BY FS_Interval
<1>2. InPlace(n, h, x) \subseteq 1 .. n
  BY DEF InPlace
<1>3. IsFiniteSet(InPlace(n, h, x)) /\ Cardinality(InPlace(n, h, x)) <= n
  BY <1>1, <1>2, FS_Subset
<1> QED BY <1>3, FS_CardinalityType

\* An alert moves from one place to another.
Moved(n, h, g, i, a, b) ==
    /\ n \in Nat /\ i \in 1 .. n /\ a # b /\ h[i] = a /\ g[i] = b
    /\ \A j \in 1 .. n : j # i => g[j] = h[j]

\* The numbers of alerts in its old and in its new place change by one.
LEMMA CountMove ==
    ASSUME NEW n, NEW h, NEW g, NEW i, NEW a, NEW b, Moved(n, h, g, i, a, b)
    PROVE  /\ Cardinality(InPlace(n, g, a)) = Cardinality(InPlace(n, h, a)) - 1
           /\ Cardinality(InPlace(n, g, b)) = Cardinality(InPlace(n, h, b)) + 1
           /\ \A x : x # a /\ x # b => InPlace(n, g, x) = InPlace(n, h, x)
<1>1. InPlace(n, g, a) = InPlace(n, h, a) \ {i} /\ i \in InPlace(n, h, a)
  BY DEF InPlace, Moved
<1>2. InPlace(n, g, b) = InPlace(n, h, b) \cup {i} /\ i \notin InPlace(n, h, b)
  BY DEF InPlace, Moved
<1>3. Cardinality(InPlace(n, g, a)) = Cardinality(InPlace(n, h, a)) - 1
  BY <1>1, CountBound, FS_RemoveElement DEF Moved
<1>4. Cardinality(InPlace(n, g, b)) = Cardinality(InPlace(n, h, b)) + 1
  BY <1>2, CountBound, FS_AddElement DEF Moved
<1>5. \A x : x # a /\ x # b => InPlace(n, g, x) = InPlace(n, h, x)
  BY DEF InPlace, Moved
<1> QED BY <1>3, <1>4, <1>5

\* An alert is sent.
LEMMA CountSend ==
    ASSUME NEW n \in Nat, NEW h \in [1 .. n -> Spots], NEW g \in [1 .. n + 1 -> Spots],
           NEW b \in Spots, g[n + 1] = b, \A j \in 1 .. n : g[j] = h[j]
    PROVE  /\ Cardinality(InPlace(n + 1, g, b)) = Cardinality(InPlace(n, h, b)) + 1
           /\ \A x \in Spots : x # b => InPlace(n + 1, g, x) = InPlace(n, h, x)
<1>1. \A j \in 1 .. n : j \in 1 .. n + 1 /\ j # n + 1
  OBVIOUS
<1>2. \A j \in 1 .. n + 1 : j = n + 1 \/ j \in 1 .. n
  OBVIOUS
<1>3. n + 1 \in 1 .. n + 1 /\ n + 1 \notin 1 .. n
  OBVIOUS
<1>4. InPlace(n + 1, g, b) = InPlace(n, h, b) \cup {n + 1} /\ n + 1 \notin InPlace(n, h, b)
  BY <1>1, <1>2, <1>3 DEF InPlace
<1>5. Cardinality(InPlace(n + 1, g, b)) = Cardinality(InPlace(n, h, b)) + 1
  BY <1>4, CountBound, FS_AddElement
<1>6. \A x \in Spots : x # b => InPlace(n + 1, g, x) = InPlace(n, h, x)
  BY <1>1, <1>2, <1>3 DEF InPlace
<1> QED BY <1>5, <1>6

\* The places of an alert differ.
LEMMA SpotFacts ==
    \A s, t \in Dars : \A p, q \in {"queued", "counted", "gone"} :
        Spot(s, p) \in Spots /\ (Spot(s, p) = Spot(t, q) => s = t /\ p = q)
BY DEF Spots, Spot

\* No step but three moves alerts.
LEMMA AlertStay == ASSUME AlertInv, UNCHANGED <<inbox, sent, count>> PROVE AlertInv'
BY DEF AlertInv

\* An alert is taken from a DAR socket, by a DAR thread that counts it or by a teardown
\* whose descriptor names that socket.
LEMMA AlertTaken ==
    ASSUME TypeOK, AlertInv, NEW s \in Dars, inbox[s] > 0,
           inbox' = [inbox EXCEPT ![s] = @ - 1], UNCHANGED sent,
           \/ UNCHANGED count
           \/ \E t \in Dars : count' = [count EXCEPT ![t] = @ + 1]
    PROVE  AlertInv' /\ sent' \in 0 .. MaxSent
<1>1. PICK h \in [1 .. sent -> Spots] :
         \A u \in Dars : /\ inbox[u] = Cardinality(InPlace(sent, h, Spot(u, "queued")))
                         /\ count[u] = Cardinality(InPlace(sent, h, Spot(u, "counted")))
  BY DEF AlertInv
<1>2. sent \in Nat /\ sent \in 0 .. MaxSent /\ inbox \in [Dars -> Nat] /\ count \in [Dars -> Nat]
  BY LifecycleAssumption DEF TypeOK
<1>3. PICK i \in 1 .. sent : h[i] = Spot(s, "queued")
  <2>1. Cardinality(InPlace(sent, h, Spot(s, "queued"))) # 0
    BY <1>1, <1>2
  <2>2. IsFiniteSet(InPlace(sent, h, Spot(s, "queued")))
    BY <1>2, CountBound
  <2>3. InPlace(sent, h, Spot(s, "queued")) # {}
    BY <2>1, FS_EmptySet
  <2> QED BY <2>3 DEF InPlace
<1>4. CASE UNCHANGED count
  <2> DEFINE a == Spot(s, "queued")
             b == Spot(s, "gone")
  <2>1. a \in Spots /\ b \in Spots /\ a # b /\ h[i] = a
    BY <1>3, SpotFacts
  <2> HIDE DEF a, b
  <2>2. PICK g \in [1 .. sent -> Spots] : g = [h EXCEPT ![i] = b]
    BY <2>1
  <2>5. Moved(sent, h, g, i, a, b)
    BY <1>2, <2>1, <2>2 DEF Moved
  <2>3. /\ Cardinality(InPlace(sent, g, a)) = Cardinality(InPlace(sent, h, a)) - 1
        /\ \A x : x # a /\ x # b => InPlace(sent, g, x) = InPlace(sent, h, x)
    BY <2>5, CountMove
  <2>4. \A u \in Dars : /\ inbox'[u] = Cardinality(InPlace(sent, g, Spot(u, "queued")))
                        /\ count'[u] = Cardinality(InPlace(sent, g, Spot(u, "counted")))
    BY <1>1, <1>2, <1>4, <2>3, SpotFacts DEF a, b
  <2> QED BY <1>2, <2>4 DEF AlertInv
<1>5. CASE \E t \in Dars : count' = [count EXCEPT ![t] = @ + 1]
  <2>0. PICK t \in Dars : count' = [count EXCEPT ![t] = @ + 1]
    BY <1>5
  <2> DEFINE a == Spot(s, "queued")
             b == Spot(t, "counted")
  <2>1. a \in Spots /\ b \in Spots /\ a # b /\ h[i] = a
    BY <1>3, SpotFacts
  <2> HIDE DEF a, b
  <2>2. PICK g \in [1 .. sent -> Spots] : g = [h EXCEPT ![i] = b]
    BY <2>1
  <2>5. Moved(sent, h, g, i, a, b)
    BY <1>2, <2>1, <2>2 DEF Moved
  <2>3. /\ Cardinality(InPlace(sent, g, a)) = Cardinality(InPlace(sent, h, a)) - 1
        /\ Cardinality(InPlace(sent, g, b)) = Cardinality(InPlace(sent, h, b)) + 1
        /\ \A x : x # a /\ x # b => InPlace(sent, g, x) = InPlace(sent, h, x)
    BY <2>5, CountMove
  <2>4. \A u \in Dars : /\ inbox'[u] = Cardinality(InPlace(sent, g, Spot(u, "queued")))
                        /\ count'[u] = Cardinality(InPlace(sent, g, Spot(u, "counted")))
    BY <1>1, <1>2, <2>0, <2>3, SpotFacts DEF a, b
  <2> QED BY <1>2, <2>4 DEF AlertInv
<1> QED BY <1>4, <1>5

\* An alert is sent, to a DAR socket or to none.
LEMMA AlertSent == ASSUME TypeOK, AlertInv, SendAlert PROVE AlertInv' /\ sent' \in 0 .. MaxSent
<1>1. PICK h \in [1 .. sent -> Spots] :
         \A u \in Dars : /\ inbox[u] = Cardinality(InPlace(sent, h, Spot(u, "queued")))
                         /\ count[u] = Cardinality(InPlace(sent, h, Spot(u, "counted")))
  BY DEF AlertInv
<1>2. /\ sent \in Nat /\ sent' = sent + 1 /\ sent' \in 0 .. MaxSent
      /\ inbox \in [Dars -> Nat] /\ count \in [Dars -> Nat] /\ count' = count
  BY LifecycleAssumption DEF TypeOK, SendAlert
<1>3. PICK s \in Dars : inbox' = inbox \/ inbox' = [inbox EXCEPT ![s] = @ + 1]
  BY ThreadFacts DEF SendAlert
<1> DEFINE b == IF inbox' = inbox THEN Spot(s, "gone") ELSE Spot(s, "queued")
<1>4. b \in Spots
  BY SpotFacts
<1>8. PICK g \in [1 .. sent + 1 -> Spots] : g[sent + 1] = b /\ \A j \in 1 .. sent : g[j] = h[j]
  <2> DEFINE k == [j \in 1 .. sent + 1 |-> IF j = sent + 1 THEN b ELSE h[j]]
  <2>1. k \in [1 .. sent + 1 -> Spots]
    BY <1>2, <1>4
  <2>2. k[sent + 1] = b /\ \A j \in 1 .. sent : k[j] = h[j]
    BY <1>2
  <2> QED BY <2>1, <2>2
<1> HIDE DEF b
<1>5. /\ Cardinality(InPlace(sent + 1, g, b)) = Cardinality(InPlace(sent, h, b)) + 1
      /\ \A x \in Spots : x # b => InPlace(sent + 1, g, x) = InPlace(sent, h, x)
  BY <1>2, <1>4, <1>8, CountSend
<1>6. \A u \in Dars : /\ inbox'[u] = Cardinality(InPlace(sent + 1, g, Spot(u, "queued")))
                      /\ count'[u] = Cardinality(InPlace(sent + 1, g, Spot(u, "counted")))
  <2>1. CASE inbox' = inbox
    <3>1. b = Spot(s, "gone")
      BY <2>1 DEF b
    <3> QED BY <1>1, <1>2, <1>5, <2>1, <3>1, SpotFacts
  <2>2. CASE inbox' # inbox
    <3>1. b = Spot(s, "queued") /\ inbox' = [inbox EXCEPT ![s] = @ + 1]
      BY <1>3, <2>2 DEF b
    <3> QED BY <1>1, <1>2, <1>5, <3>1, SpotFacts
  <2> QED BY <2>1, <2>2
<1>7. \E k \in [1 .. sent' -> Spots] :
         \A u \in Dars : /\ inbox'[u] = Cardinality(InPlace(sent', k, Spot(u, "queued")))
                         /\ count'[u] = Cardinality(InPlace(sent', k, Spot(u, "counted")))
  BY <1>2, <1>5, <1>6
<1> QED BY <1>2, <1>7 DEF AlertInv

\* The counters stay in their range.
LEMMA AlertTypes ==
    ASSUME AlertInv', sent' \in 0 .. MaxSent, DOMAIN inbox' = Dars, DOMAIN count' = Dars,
           inbox' = [s \in DOMAIN inbox' |-> inbox'[s]], count' = [s \in DOMAIN count' |-> count'[s]]
    PROVE  inbox' \in [Dars -> 0 .. MaxSent] /\ count' \in [Dars -> 0 .. MaxSent]
<1>1. PICK h \in [1 .. sent' -> Spots] :
         \A u \in Dars : /\ inbox'[u] = Cardinality(InPlace(sent', h, Spot(u, "queued")))
                         /\ count'[u] = Cardinality(InPlace(sent', h, Spot(u, "counted")))
  BY DEF AlertInv
<1>2. sent' \in Nat /\ sent' <= MaxSent
  BY LifecycleAssumption
<1>3. ASSUME NEW u \in Dars PROVE inbox'[u] \in 0 .. sent' /\ count'[u] \in 0 .. sent'
  <2>1. Cardinality(InPlace(sent', h, Spot(u, "queued"))) \in 0 .. sent'
    BY <1>2, CountBound
  <2>2. Cardinality(InPlace(sent', h, Spot(u, "counted"))) \in 0 .. sent'
    BY <1>2, CountBound
  <2> QED BY <1>1, <2>1, <2>2
<1>4. \A u \in Dars : inbox'[u] \in 0 .. MaxSent /\ count'[u] \in 0 .. MaxSent
  BY <1>2, <1>3, LifecycleAssumption
<1> QED BY <1>4
-----------------------------------------------------------------------------
(* Types.                                                                  *)

\* The connection that a thread opens or uses.
LEMMA ConnIs ==
    ASSUME TypeOK, RunningInv, NEW t \in Threads, pc[t] \in Exchanging
    PROVE  /\ Conn(t) \in Conns /\ Conn(t)[1] = t /\ Conn(t)[2] = Pass(t) /\ Conn(t)[3] = flow[t]
           /\ flow[t] \in Flows /\ Pass(t) \in Nat
<1>1. flow[t] \in Flows /\ session \in Dars /\ adding \in BOOLEAN
  BY DEF TypeOK
<1>2. CASE t = Main
  <2>1. Pass(t) \in 1 .. 2 * Sessions
    BY <1>1, <1>2, ThreadFacts, LifecycleAssumption DEF Pass
  <2> QED BY <1>1, <1>2, <2>1, ConnFacts DEF Conn
<1>3. CASE t \in Dars
  <2>1. count[t] >= 1 /\ t # Main
    BY <1>3, ThreadFacts DEF RunningInv, PlaceInv, Cleaning
  <2>2. Pass(t) \in 1 .. MaxSent
    BY <1>3, <2>1, LifecycleAssumption DEF Pass, TypeOK
  <2> QED BY <1>1, <1>3, <2>2, ConnFacts DEF Conn
<1> QED BY <1>2, <1>3, ThreadFacts

\* The end of the process.
LEMMA EndsTypes ==
    ASSUME TypeOK, NEW h \in {"done", "exited", "killed", "crashed"}, Ends(h)
    PROVE  /\ pc' \in [Threads -> {"ended"}] /\ fate' = h /\ fate' # "running"
           /\ fds' \in [Fds -> Files] /\ on' \in [Threads -> Files]
           /\ UNCHANGED <<reaction, session, adding, disposition>>
BY FileFacts DEF Ends

\* Setup of the connections to the overlay nodes.
LEMMA OpenTypes ==
    ASSUME TypeOK, RunningInv, NEW t \in Threads, OpenOverlay(t) PROVE TypeOK'
<1>1. Conn(t) \in Conns /\ flow[t] \in Flows /\ Overlay(Conn(t)) \in Files
  BY ConnIs, FileFacts DEF OpenOverlay, At, Exchanging
<1>2. queue' \in [Flows -> Seq(Conns)]
  BY <1>1 DEF TypeOK, OpenOverlay, Conn
<1> QED BY <1>1, <1>2 DEF TypeOK, OpenOverlay, Conn, Socket, Goto, sharedVars, alertVars, historyVars,
                        Cleaning, Exchanging

\* The steps of setup_sender and of the application.
LEMMA MainTypes ==
    ASSUME TypeOK, RunningInv, MainSetup \/ Application PROVE TypeOK'
<1> USE DEF kernelVars, sharedVars, alertVars, threadVars, networkVars, historyVars
<1>1. Main \in Threads /\ session \in Dars /\ session \in Threads
  BY ThreadFacts DEF TypeOK
<1>2. CASE \E h \in {"done", "exited", "killed", "crashed"} : Ends(h)
  <2>1. PICK h \in {"done", "exited", "killed", "crashed"} : Ends(h)
    BY <1>2
  <2>2. /\ pc' \in [Threads -> {"ended"}] /\ fate' = h
        /\ fds' \in [Fds -> Files] /\ on' \in [Threads -> Files]
        /\ UNCHANGED <<reaction, session, adding, disposition>>
    BY <2>1, EndsTypes
  <2>3. UNCHANGED <<connfd, alertfd, clock, alertVars, myfd, flow, leg, networkVars, own, historyVars>>
        /\ log' \in {log, "open"}
    BY <1>1, <2>2 DEF MainSetup, Application, Discover, StartMonitoring, ConnectReceiver, ApplicationDies,
          AddOwnRules, StartDarHandler, RegisterHandler, BeginConnectionClock, SetupReturns,
          NextExperiment, SendHello, ReceiveEcho, Teardown, Goto, At
  <2> QED BY <2>2, <2>3 DEF TypeOK
<1>3. CASE ~(\E h \in {"done", "exited", "killed", "crashed"} : Ends(h))
  <2>1. CASE Discover
    BY <1>1, <1>3, <2>1 DEF TypeOK, Discover, Connecting
  <2>2. CASE AddOwnRules
    BY <1>1, <2>2 DEF TypeOK, AddOwnRules, Goto, Exchanging, Cleaning
  <2>3. CASE StartMonitoring
    BY <1>1, <1>3, <2>3, FileFacts DEF TypeOK, StartMonitoring, Goto, Socket, Connecting
  <2>4. CASE StartDarHandler
    BY <1>1, <2>4 DEF TypeOK, StartDarHandler, Connecting
  <2>5. CASE RegisterHandler
    BY <1>1, <2>5 DEF TypeOK, RegisterHandler, Connecting
  <2>6. CASE BeginConnectionClock
    BY <1>1, <2>6 DEF TypeOK, BeginConnectionClock, Goto, Connecting
  <2>7. CASE ConnectReceiver
    <3>1. PICK f \in Fds : fds' = [fds EXCEPT ![f] = File("receiver", session)]
                           /\ myfd' = [myfd EXCEPT ![Main] = f]
      BY <1>3, <2>7 DEF ConnectReceiver, Socket
    <3>2. Goto(Main, "return") /\ UNCHANGED on
      BY <1>3, <2>7 DEF ConnectReceiver
    <3>3. fds' \in [Fds -> Files] /\ myfd' \in [Threads -> Fds]
      BY <1>1, <3>1, FileFacts DEF TypeOK
    <3> QED BY <1>1, <2>7, <3>2, <3>3 DEF TypeOK, ConnectReceiver, Goto, Connecting
  <2>8. CASE SetupReturns
    BY <1>1, <2>8 DEF TypeOK, SetupReturns, Goto
  <2>9. CASE NextExperiment
    <3>1. session' \in Dars
      BY <1>1, <2>9, LifecycleAssumption DEF NextExperiment, At, RunningInv, PhaseInv, Dars
    <3> QED BY <1>1, <2>9, <3>1, ThreadFacts DEF TypeOK, NextExperiment, Connecting
  <2>10. CASE SendHello
    BY <1>1, <2>10 DEF TypeOK, SendHello, Goto
  <2>11. CASE ReceiveEcho
    BY <1>1, <2>11, FileFacts DEF TypeOK, ReceiveEcho, Goto
  <2>12. CASE ApplicationDies
    BY <1>3, <2>12 DEF ApplicationDies
  <2>13. CASE Teardown
    BY <1>1, <2>13, FileFacts DEF TypeOK, Teardown, Goto, Cleaning
  <2> QED BY <2>1, <2>2, <2>3, <2>4, <2>5, <2>6, <2>7, <2>8, <2>9, <2>10, <2>11, <2>12, <2>13
             DEF MainSetup, Application
<1> QED BY <1>2, <1>3

\* The steps of teardown_sender.
LEMMA TeardownTypes ==
    ASSUME TypeOK, AlertInv, AlertInv', RunningInv, NEW t \in Threads, TeardownStep(t) PROVE TypeOK'
<1> USE DEF kernelVars, sharedVars, alertVars, threadVars, networkVars, historyVars
<1>1. CASE \E h \in {"done", "exited", "killed", "crashed"} : Ends(h)
  <2>1. PICK h \in {"done", "exited", "killed", "crashed"} : Ends(h)
    BY <1>1
  <2>2. /\ pc' \in [Threads -> {"ended"}] /\ fate' = h /\ fate' # "running"
        /\ fds' \in [Fds -> Files] /\ on' \in [Threads -> Files]
        /\ UNCHANGED <<reaction, session, adding, disposition>>
    BY <2>1, EndsTypes
  <2>3. UNCHANGED <<sharedVars, alertVars, threadVars, networkVars, own, historyVars>>
    BY <2>2 DEF TeardownStep, CloseReceiver, EndClock, UseAfterFree, StopMonitoring, OpenOverlay, SendSpec,
                EnterRecv, LeaveRecv, CloseOverlay, RemoveOwnRules, CloseLog, Exit, Goto, At, AfterRecv
  <2> QED BY <2>2, <2>3 DEF TypeOK
<1>2. CASE ~(\E h \in {"done", "exited", "killed", "crashed"} : Ends(h))
  <2>1. CASE CloseReceiver(t)
    BY <2>1, FileFacts DEF TypeOK, CloseReceiver, Goto, Closed, Cleaning
  <2>2. CASE EndClock(t)
    BY <1>2, <2>2 DEF TypeOK, EndClock, Goto, Cleaning
  <2>3. CASE UseAfterFree(t)
    BY <1>2, <2>3 DEF UseAfterFree
  <2>4. CASE StopMonitoring(t)
    BY <2>4, FileFacts, ThreadFacts DEF TypeOK, StopMonitoring, Goto, Closed, Cleaning, Exchanging
  <2>5. CASE OpenOverlay(t)
    BY <2>5, OpenTypes
  <2>6. CASE SendSpec(t)
    <3> DEFINE x == fds[myfd[t]]
               spec == <<leg[t], flow[t], IF t = Main /\ adding THEN "A" ELSE "D">>
    <3>1. x \in Files /\ (x.kind = "ov" => x.id \in Conns)
      BY FileFacts DEF TypeOK
    <3>2. spec \in {"fwd", "dar"} \X Flows \X {"A", "D"}
      BY DEF TypeOK
    <3>3. UNCHANGED <<fds, on>> /\ Goto(t, "recv")
      BY <1>2, <2>6 DEF SendSpec
    <3>4. inq' \in [Conns -> Seq({"fwd", "dar"} \X Flows \X {"A", "D"})]
      <4>1. CASE inq' = inq
        BY <4>1 DEF TypeOK
      <4>2. CASE inq' # inq
        <5>1. inq' = [inq EXCEPT ![x.id] = Append(@, spec)] /\ x.id \in Conns
          BY <1>2, <2>6, <3>1, <4>2 DEF SendSpec
        <5> HIDE DEF x, spec
        <5> QED BY <3>2, <5>1 DEF TypeOK
      <4> QED BY <4>1, <4>2
    <3>5. net' \in [Conns -> {"none", "ok", "rst", "broken"}]
      BY <2>6, <3>1 DEF SendSpec, TypeOK
    <3>6. pc' \in [Threads -> Connecting \cup Cleaning
                     \cup {"app", "answer", "none", "read", "reading", "raise", "ended"}]
      BY <3>3 DEF TypeOK, Goto, Cleaning, Exchanging
    <3> QED BY <2>6, <3>3, <3>4, <3>5, <3>6 DEF TypeOK, SendSpec, Goto
  <2>7. CASE EnterRecv(t)
    BY <2>7 DEF TypeOK, EnterRecv, AfterRecv, Goto, Cleaning, Exchanging
  <2>8. CASE LeaveRecv(t)
    <3> DEFINE x == on[t]
    <3>1. x \in Files /\ (x.kind = "ov" => x.id \in Conns)
      BY FileFacts DEF TypeOK
    <3>2. acks' \in [Conns -> 0 .. 2] /\ net' \in [Conns -> {"none", "ok", "rst", "broken"}]
      <4>1. CASE UNCHANGED <<acks, net>>
        BY <4>1 DEF TypeOK
      <4>2. CASE ~UNCHANGED <<acks, net>>
        <5>1. /\ acks' = [acks EXCEPT ![x.id] = IF @ > 0 THEN @ - 1 ELSE @]
              /\ net' = [net EXCEPT ![x.id] = IF acks[x.id] = 0 THEN "broken" ELSE @]
              /\ x.id \in Conns
          BY <2>8, <3>1, <4>2 DEF LeaveRecv
        <5> HIDE DEF x
        <5>2. acks[x.id] \in 0 .. 2 /\ net[x.id] \in {"none", "ok", "rst", "broken"}
          BY <5>1 DEF TypeOK
        <5>3. (IF acks[x.id] > 0 THEN acks[x.id] - 1 ELSE acks[x.id]) \in 0 .. 2
          BY <5>2
        <5> QED BY <5>1, <5>2, <5>3 DEF TypeOK
      <4> QED BY <4>1, <4>2
    <3>3. inbox' \in [Dars -> 0 .. MaxSent] /\ count' \in [Dars -> 0 .. MaxSent]
      <4>1. UNCHANGED <<sent, count>> /\ DOMAIN inbox' = Dars /\ inbox' = [s \in Dars |-> inbox'[s]]
        BY <2>8 DEF LeaveRecv, TypeOK
      <4> QED BY <4>1, AlertTypes DEF TypeOK
    <3>4. /\ pc' \in [Threads -> Connecting \cup Cleaning
                     \cup {"app", "answer", "none", "read", "reading", "raise", "ended"}]
          /\ leg' \in [Threads -> {"fwd", "dar"}] /\ on' \in [Threads -> Files]
      BY <2>8, FileFacts DEF TypeOK, LeaveRecv, AfterRecv, Goto, Cleaning, Exchanging
    <3> QED BY <2>8, <3>2, <3>3, <3>4 DEF TypeOK, LeaveRecv, AfterRecv, Goto
  <2>9. CASE CloseOverlay(t)
    BY <2>9, FileFacts, ThreadFacts DEF TypeOK, CloseOverlay, Closed, Cleaning, Exchanging, Connecting
  <2>10. CASE RemoveOwnRules(t)
    BY <2>10, ThreadFacts DEF TypeOK, RemoveOwnRules, Goto, Cleaning
  <2>11. CASE CloseLog(t)
    BY <2>11 DEF TypeOK, CloseLog, Goto, Cleaning
  <2>12. CASE Exit(t)
    BY <1>2, <2>12 DEF TypeOK, Exit, Goto, Connecting
  <2> QED BY <2>1, <2>2, <2>3, <2>4, <2>5, <2>6, <2>7, <2>8, <2>9, <2>10, <2>11, <2>12 DEF TeardownStep
<1> QED BY <1>1, <1>2

\* The steps of a DAR thread.
LEMMA DarTypes ==
    ASSUME TypeOK, AlertInv', NEW t \in Dars, DarLoop(t) PROVE TypeOK'
<1> USE DEF kernelVars, sharedVars, alertVars, threadVars, networkVars, historyVars
<1>0. t \in Threads
  BY ThreadFacts
<1>1. CASE EnterRead(t)
  BY <1>0, <1>1 DEF TypeOK, EnterRead, Goto
<1>2. CASE ReadAlert(t)
  <2>1. inbox' \in [Dars -> 0 .. MaxSent] /\ count' \in [Dars -> 0 .. MaxSent]
    <3>1. /\ DOMAIN inbox' = Dars /\ inbox' = [s \in Dars |-> inbox'[s]]
          /\ DOMAIN count' = Dars /\ count' = [s \in Dars |-> count'[s]] /\ sent' = sent
      BY <1>2 DEF ReadAlert, TypeOK
    <3> QED BY <3>1, AlertTypes DEF TypeOK
  <2>2. /\ pc' \in [Threads -> Connecting \cup Cleaning
                   \cup {"app", "answer", "none", "read", "reading", "raise", "ended"}]
        /\ on' \in [Threads -> Files]
    BY <1>0, <1>2, FileFacts DEF TypeOK, ReadAlert, Goto
  <2> QED BY <1>2, <2>1, <2>2 DEF TypeOK, ReadAlert, Goto
<1>3. CASE ReadStray(t)
  <2>1. Ends("crashed") /\ UNCHANGED <<sharedVars, alertVars, threadVars, networkVars, own, historyVars>>
    BY <1>3 DEF ReadStray
  <2> QED BY <2>1, EndsTypes DEF TypeOK
<1>4. CASE RaiseSignal(t)
  <2>0. UNCHANGED <<sharedVars, alertVars, threadVars, networkVars, own>>
    BY <1>4 DEF RaiseSignal
  <2>1. CASE Ends("killed") /\ UNCHANGED historyVars
    BY <2>0, <2>1, EndsTypes DEF TypeOK
  <2>2. CASE Goto(t, "read") /\ UNCHANGED <<historyVars, kernelVars>>
    BY <1>0, <2>0, <2>2 DEF TypeOK, Goto
  <2>3. CASE /\ Goto(t, "close") /\ UNCHANGED kernelVars /\ begun' = begun \cup {t}
             /\ early' = (early \/ Unconnected)
    BY <1>0, <2>0, <2>3 DEF TypeOK, Goto, Unconnected, Cleaning
  <2> QED BY <1>4, <2>1, <2>2, <2>3 DEF RaiseSignal
<1> QED BY <1>1, <1>2, <1>3, <1>4 DEF DarLoop

\* The steps of the Darshana clients and of the nodes.
LEMMA AlertSentTypes == ASSUME TypeOK, AlertInv, SendAlert PROVE TypeOK'
<1> USE DEF procVars, kernelVars, sharedVars, threadVars, networkVars, historyVars
<1>1. AlertInv' /\ sent' \in 0 .. MaxSent
  BY AlertSent
<1>2. /\ DOMAIN inbox' = Dars /\ inbox' = [s \in Dars |-> inbox'[s]]
      /\ DOMAIN count' = Dars /\ count' = [s \in Dars |-> count'[s]]
  BY DEF SendAlert, TypeOK
<1>3. inbox' \in [Dars -> 0 .. MaxSent] /\ count' \in [Dars -> 0 .. MaxSent]
  BY <1>1, <1>2, AlertTypes
<1> QED BY <1>1, <1>3 DEF TypeOK, SendAlert

\* The steps of the nodes.
LEMMA NodeTypes ==
    ASSUME TypeOK, NetInv, NEW k \in Flows, NodeStep(k) PROVE TypeOK'
<1> USE DEF procVars, kernelVars, sharedVars, alertVars, threadVars, historyVars
<1>1. queue[k] \in Seq(Conns) /\ queue[k] # <<>>
  BY DEF NodeStep, NodeAnswers, NodeDies, TypeOK
<1> DEFINE o == Head(queue[k])
<1>2. o \in Conns /\ o = queue[k][1] /\ 1 \in 1 .. Len(queue[k])
  BY <1>1
<1>3. stage[o] < 2 /\ acks[o] <= stage[o] /\ stage[o] \in 0 .. 2 /\ acks[o] \in 0 .. 2
  BY <1>2 DEF NetInv, QueueInv, ConnInv, TypeOK
<1>4. CASE NodeAnswers(k)
  <2>1. /\ inq' = [inq EXCEPT ![o] = Tail(@)] /\ acks' = [acks EXCEPT ![o] = @ + 1]
        /\ stage' = [stage EXCEPT ![o] = @ + 1] /\ inq[o] # <<>>
        /\ queue' \in {queue, [queue EXCEPT ![k] = Tail(@)]}
        /\ rules' \in {rules, rules \cup {k}, rules \ {k}}
    BY <1>4 DEF NodeAnswers
  <2> HIDE DEF o
  <2>2. acks' \in [Conns -> 0 .. 2] /\ stage' \in [Conns -> 0 .. 2]
    BY <1>2, <1>3, <2>1 DEF TypeOK
  <2>3. inq' \in [Conns -> Seq({"fwd", "dar"} \X Flows \X {"A", "D"})]
    <3>1. inq[o] \in Seq({"fwd", "dar"} \X Flows \X {"A", "D"})
      BY <1>2 DEF TypeOK
    <3>2. Tail(inq[o]) \in Seq({"fwd", "dar"} \X Flows \X {"A", "D"})
      BY <2>1, <3>1
    <3> QED BY <1>2, <2>1, <3>2 DEF TypeOK
  <2>4. queue' \in [Flows -> Seq(Conns)]
    <3>1. Tail(queue[k]) \in Seq(Conns)
      BY <1>1
    <3> QED BY <2>1, <3>1 DEF TypeOK
  <2>5. rules' \subseteq Flows
    BY <2>1 DEF TypeOK
  <2> QED BY <1>4, <2>2, <2>3, <2>4, <2>5 DEF TypeOK, NodeAnswers
<1>5. CASE NodeDies(k)
  BY <1>5 DEF TypeOK, NodeDies
<1> QED BY <1>4, <1>5 DEF NodeStep

-----------------------------------------------------------------------------
(* The steps' shapes, once for all the parts of the invariant.             *)

\* Every step keeps the alerts in their places.
LEMMA AlertStep == ASSUME TypeOK, AlertInv, [Next]_vars PROVE AlertInv'
<1>1. CASE SendAlert
  BY <1>1, AlertSent
<1>2. CASE \E t \in Dars : ReadAlert(t)
  <2>1. PICK t \in Dars : ReadAlert(t)
    BY <1>2
  <2>2. on[t] \in Files /\ on[t].id[1] \in Dars
    BY <2>1, FileFacts, ThreadFacts DEF TypeOK, ReadAlert
  <2>3. /\ inbox[on[t].id[1]] > 0 /\ inbox' = [inbox EXCEPT ![on[t].id[1]] = @ - 1]
        /\ UNCHANGED sent /\ count' = [count EXCEPT ![t] = @ + 1]
    BY <2>1 DEF ReadAlert
  <2> QED BY <2>2, <2>3, AlertTaken
<1>3. CASE \E t \in Threads : LeaveRecv(t)
  <2>1. PICK t \in Threads : LeaveRecv(t)
    BY <1>3
  <2>2. UNCHANGED <<sent, count>>
    BY <2>1 DEF LeaveRecv
  <2>3. CASE UNCHANGED inbox
    BY <2>2, <2>3, AlertStay
  <2>4. CASE ~UNCHANGED inbox
    <3>1. on[t].kind = "alerts" /\ inbox[on[t].id[1]] > 0 /\ inbox' = [inbox EXCEPT ![on[t].id[1]] = @ - 1]
      BY <2>1, <2>4 DEF LeaveRecv
    <3>2. on[t].id[1] \in Dars
      BY <3>1, FileFacts DEF TypeOK
    <3> QED BY <2>2, <3>1, <3>2, AlertTaken
  <2> QED BY <2>3, <2>4
<1>4. CASE ~(SendAlert \/ (\E t \in Dars : ReadAlert(t)) \/ (\E t \in Threads : LeaveRecv(t)))
  <2>1. UNCHANGED <<inbox, sent, count>>
    <3> USE DEF alertVars
    <3>1. CASE MainSetup \/ Application
      BY <3>1 DEF MainSetup, Application, Discover, StartMonitoring, ConnectReceiver, ApplicationDies,
          AddOwnRules, StartDarHandler, RegisterHandler, BeginConnectionClock, SetupReturns,
          NextExperiment, SendHello, ReceiveEcho, Teardown
    <3>2. ASSUME NEW t \in Threads, TeardownStep(t) PROVE UNCHANGED <<inbox, sent, count>>
      BY <1>4, <3>2 DEF TeardownStep, CloseReceiver, EndClock, UseAfterFree, StopMonitoring, OpenOverlay,
          SendSpec, EnterRecv, CloseOverlay, RemoveOwnRules, CloseLog, Exit
    <3>3. ASSUME NEW t \in Dars, DarLoop(t) PROVE UNCHANGED <<inbox, sent, count>>
      BY <1>4, <3>3 DEF DarLoop, EnterRead, ReadStray, RaiseSignal
    <3>4. ASSUME NEW k \in Flows, NodeStep(k) PROVE UNCHANGED <<inbox, sent, count>>
      BY <3>4 DEF NodeStep, NodeAnswers, NodeDies
    <3>5. CASE UNCHANGED vars
      BY <3>5 DEF vars
    <3> QED BY <1>4, <3>1, <3>2, <3>3, <3>4, <3>5 DEF Next
  <2> QED BY <2>1, AlertStay
<1> QED BY <1>1, <1>2, <1>3, <1>4

-----------------------------------------------------------------------------
(* The network.                                                            *)

\* A step that leaves the connections and the nodes alone.
LEMMA NetStay == ASSUME NetInv, UNCHANGED <<inq, acks, stage, net, queue, down>> PROVE NetInv'
BY DEF NetInv, ConnInv, QueueInv

\* A connection that a thread opens was never used.
LEMMA OpensFresh ==
    ASSUME TypeOK, RunningInv, NetInv, NEW t \in Threads, OpenOverlay(t)
    PROVE  /\ net[Conn(t)] = "none" /\ inq[Conn(t)] = <<>> /\ stage[Conn(t)] = 0 /\ acks[Conn(t)] = 0
           /\ Conn(t) \in Conns /\ flow[t] \in Flows /\ Conn(t)[3] = flow[t]
<1>1. Conn(t) \in Conns /\ Conn(t)[1] = t /\ Conn(t)[2] = Pass(t) /\ Conn(t)[3] = flow[t]
      /\ flow[t] \in Flows /\ pc[t] = "open"
  BY ConnIs DEF OpenOverlay, At, Exchanging
<1>2. Ahead(t, Pass(t), flow[t])
  <2>1. Latest(t) = Pass(t)
    BY <1>1 DEF Latest
  <2>2. flow[t] \in Nat
    BY <1>1 DEF Flows
  <2> QED BY <1>1, <2>1, <2>2 DEF Ahead, Exchanging
<1>3. net[Conn(t)] = "none"
  BY <1>1, <1>2 DEF RunningInv, FreshInv
<1>4. acks[Conn(t)] \in 0 .. 2 /\ acks[Conn(t)] <= stage[Conn(t)]
      /\ inq[Conn(t)] = <<>> /\ stage[Conn(t)] = 0
  BY <1>1, <1>3 DEF NetInv, ConnInv, TypeOK
<1> QED BY <1>1, <1>3, <1>4

\* A connection that is opened enters its node's queue.
LEMMA NetOpen ==
    ASSUME TypeOK, RunningInv, NetInv, NEW t \in Threads, OpenOverlay(t) PROVE NetInv'
<1> DEFINE o == Conn(t)
           k == flow[t]
<1>1. /\ net[o] = "none" /\ inq[o] = <<>> /\ stage[o] = 0 /\ acks[o] = 0
      /\ o \in Conns /\ k \in Flows /\ o[3] = k
  BY OpensFresh
<1>2. /\ net' = [net EXCEPT ![o] = IF k \in down THEN "broken" ELSE "ok"]
      /\ queue' = IF k \in down THEN queue ELSE [queue EXCEPT ![k] = Append(@, o)]
      /\ UNCHANGED <<inq, acks, stage, down>>
  BY DEF OpenOverlay, Conn
<1> HIDE DEF o, k
<1>3. ASSUME NEW c \in Conns PROVE ConnInv(c)'
  BY <1>1, <1>2, <1>3 DEF NetInv, ConnInv, TypeOK
<1>4. ASSUME NEW j \in Flows PROVE QueueInv(j)'
  <2>1. queue[j] \in Seq(Conns) /\ QueueInv(j)
    BY <1>4 DEF TypeOK, NetInv
  <2>2. \A i \in 1 .. Len(queue[j]) : queue[j][i] \in Conns /\ queue[j][i] # o
    BY <1>1, <2>1 DEF QueueInv
  <2>3. \A i \in 1 .. Len(queue[j]) : net'[queue[j][i]] = "ok"
    BY <1>2, <2>1, <2>2 DEF QueueInv, TypeOK
  <2>4. CASE queue'[j] = queue[j]
    BY <1>2, <2>1, <2>3, <2>4 DEF QueueInv
  <2>5. CASE queue'[j] # queue[j]
    <3>1. j = k /\ k \notin down /\ queue'[j] = Append(queue[j], o) /\ net'[o] = "ok"
      BY <1>1, <1>2, <2>5 DEF TypeOK
    <3>2. /\ Len(queue'[j]) = Len(queue[j]) + 1 /\ Len(queue[j]) \in Nat
          /\ \A i \in 1 .. Len(queue'[j]) :
               \/ i \in 1 .. Len(queue[j]) /\ queue'[j][i] = queue[j][i]
               \/ i = Len(queue[j]) + 1 /\ queue'[j][i] = o
      BY <2>1, <3>1
    <3> QED BY <1>1, <1>2, <2>1, <2>2, <2>3, <3>1, <3>2 DEF QueueInv
  <2> QED BY <2>4, <2>5
<1> QED BY <1>3, <1>4 DEF NetInv

\* Members of a queue.
LEMMA QueuedFacts ==
    ASSUME TypeOK, NetInv, NEW k \in Flows, NEW i \in 1 .. Len(queue[k])
    PROVE  /\ queue[k][i] \in Conns /\ queue[k][i][3] = k /\ net[queue[k][i]] = "ok"
           /\ stage[queue[k][i]] < 2 /\ k \notin down
BY DEF TypeOK, NetInv, QueueInv

\* What is sent or read on a connection does not disturb the queues.
LEMMA NetUsed ==
    ASSUME TypeOK, NetInv, UNCHANGED <<stage, queue, down>>,
           \A o \in Conns : /\ net[o] = "ok" => net'[o] = "ok"
                            /\ net'[o] = "none" => net[o] = "none" /\ inq'[o] = inq[o]
                            /\ acks'[o] <= acks[o],
           acks' \in [Conns -> 0 .. 2]
    PROVE  NetInv'
<1>1. ASSUME NEW c \in Conns PROVE ConnInv(c)'
  <2>1. /\ acks[c] \in 0 .. 2 /\ acks'[c] \in 0 .. 2 /\ stage[c] \in 0 .. 2
        /\ acks[c] <= stage[c] /\ stage'[c] = stage[c] /\ acks'[c] <= acks[c]
    BY <1>1 DEF NetInv, ConnInv, TypeOK
  <2>2. acks'[c] <= stage'[c]
    BY <2>1
  <2> QED BY <1>1, <2>1, <2>2 DEF NetInv, ConnInv
<1>2. ASSUME NEW j \in Flows PROVE QueueInv(j)'
  <2>1. \A i \in 1 .. Len(queue[j]) : queue[j][i] \in Conns /\ net[queue[j][i]] = "ok"
    BY <1>2, QueuedFacts
  <2> QED BY <2>1 DEF NetInv, QueueInv
<1> QED BY <1>1, <1>2 DEF NetInv

\* A spec is sent.
LEMMA NetSend ==
    ASSUME TypeOK, NetInv, NEW t \in Threads, SendSpec(t) PROVE NetInv'
<1> DEFINE x == fds[myfd[t]]
           spec == <<leg[t], flow[t], IF t = Main /\ adding THEN "A" ELSE "D">>
<1>1. x.kind = "ov" => x.id \in Conns
  BY FileFacts DEF TypeOK
<1>2. \/ UNCHANGED <<inq, net>>
      \/ x.kind = "ov" /\ net[x.id] = "ok" /\ inq' = [inq EXCEPT ![x.id] = Append(@, spec)] /\ UNCHANGED net
      \/ x.kind = "ov" /\ net[x.id] = "rst" /\ net' = [net EXCEPT ![x.id] = "broken"] /\ UNCHANGED inq
  BY DEF SendSpec
<1>3. UNCHANGED <<acks, stage, queue, down>>
  BY DEF SendSpec
<1> HIDE DEF x, spec
<1>4. \A o \in Conns : /\ net[o] = "ok" => net'[o] = "ok"
                       /\ net'[o] = "none" => net[o] = "none" /\ inq'[o] = inq[o]
  BY <1>1, <1>2 DEF TypeOK
<1>5. \A o \in Conns : acks'[o] <= acks[o]
  <2>1. \A o \in Conns : acks[o] \in 0 .. 2
    BY DEF TypeOK
  <2> QED BY <1>3, <2>1
<1> QED BY <1>3, <1>4, <1>5, NetUsed DEF TypeOK

\* An echo, an alert or the application's answer is taken, or recv() fails.
LEMMA NetLeave ==
    ASSUME TypeOK, TypeOK', NetInv, NEW t \in Threads, LeaveRecv(t) PROVE NetInv'
<1> DEFINE x == on[t]
<1>1. x.kind = "ov" => x.id \in Conns
  BY FileFacts DEF TypeOK
<1>2. \/ UNCHANGED <<acks, net>>
      \/ /\ x.kind = "ov" /\ (acks[x.id] > 0 \/ net[x.id] # "ok")
         /\ acks' = [acks EXCEPT ![x.id] = IF @ > 0 THEN @ - 1 ELSE @]
         /\ net' = [net EXCEPT ![x.id] = IF acks[x.id] = 0 THEN "broken" ELSE @]
  BY DEF LeaveRecv
<1>3. UNCHANGED <<inq, stage, queue, down>>
  BY DEF LeaveRecv
<1> HIDE DEF x
<1>4. \A o \in Conns : net[o] = "ok" => net'[o] = "ok"
  BY <1>1, <1>2 DEF TypeOK
<1>5. \A o \in Conns : net'[o] = "none" => net[o] = "none"
  BY <1>1, <1>2 DEF TypeOK
<1>6. \A o \in Conns : acks'[o] <= acks[o]
  <2>1. \A o \in Conns : acks[o] \in 0 .. 2
    BY DEF TypeOK
  <2>2. CASE UNCHANGED acks
    BY <2>1, <2>2
  <2>3. CASE ~UNCHANGED acks
    <3>1. x.id \in Conns /\ acks' = [acks EXCEPT ![x.id] = IF @ > 0 THEN @ - 1 ELSE @]
      BY <1>1, <1>2, <2>3
    <3>2. acks'[x.id] <= acks[x.id] /\ \A o \in Conns : o # x.id => acks'[o] = acks[o]
      BY <2>1, <3>1 DEF TypeOK
    <3> QED BY <2>1, <3>2
  <2> QED BY <2>2, <2>3
<1> QED BY <1>3, <1>4, <1>5, <1>6, NetUsed DEF TypeOK

\* What a node does with the head of its queue.
LEMMA AnswerFacts ==
    ASSUME TypeOK, NetInv, NEW k \in Flows, NodeAnswers(k), NEW o, o = Head(queue[k])
    PROVE  /\ o \in Conns /\ o[3] = k /\ net[o] = "ok" /\ k \notin down
           /\ queue[k] \in Seq(Conns) /\ queue[k] # <<>> /\ o = queue[k][1] /\ 1 \in 1 .. Len(queue[k])
           /\ stage[o] \in {0, 1} /\ acks[o] \in 0 .. 2 /\ acks[o] <= stage[o]
           /\ inq[o] # <<>> /\ inq[o] \in Seq({"fwd", "dar"} \X Flows \X {"A", "D"})
           /\ inq' = [inq EXCEPT ![o] = Tail(@)] /\ acks' = [acks EXCEPT ![o] = @ + 1]
           /\ stage' = [stage EXCEPT ![o] = @ + 1] /\ UNCHANGED <<net, down>>
           /\ queue' = IF stage[o] = 1 THEN [queue EXCEPT ![k] = Tail(@)] ELSE queue
           /\ rules' = IF stage[o] = 1 \/ Head(inq[o])[1] # "fwd" \/ Head(inq[o])[2] # k THEN rules
                       ELSE IF Head(inq[o])[3] = "A" THEN rules \cup {k} ELSE rules \ {k}
<1>1. queue[k] \in Seq(Conns) /\ queue[k] # <<>>
  BY DEF NodeAnswers, TypeOK
<1>2. o = queue[k][1] /\ 1 \in 1 .. Len(queue[k])
  BY <1>1
<1>3. o \in Conns /\ o[3] = k /\ net[o] = "ok" /\ stage[o] < 2 /\ k \notin down
  BY <1>2, QueuedFacts
<1>4. stage[o] \in 0 .. 2 /\ acks[o] \in 0 .. 2 /\ acks[o] <= stage[o]
      /\ inq[o] \in Seq({"fwd", "dar"} \X Flows \X {"A", "D"})
  BY <1>3 DEF TypeOK, NetInv, ConnInv
<1>5. stage[o] \in {0, 1}
  BY <1>3, <1>4
<1> QED BY <1>1, <1>2, <1>3, <1>4, <1>5 DEF NodeAnswers

\* A node answers the head of its queue.
LEMMA NetAnswers ==
    ASSUME TypeOK, NetInv, NEW k \in Flows, NodeAnswers(k) PROVE NetInv'
<1>1. PICK o : o = Head(queue[k])
  OBVIOUS
<1>2. /\ o \in Conns /\ o[3] = k /\ net[o] = "ok" /\ k \notin down
      /\ queue[k] \in Seq(Conns) /\ queue[k] # <<>> /\ o = queue[k][1] /\ 1 \in 1 .. Len(queue[k])
      /\ stage[o] \in {0, 1} /\ acks[o] \in 0 .. 2 /\ acks[o] <= stage[o]
      /\ inq' = [inq EXCEPT ![o] = Tail(@)] /\ acks' = [acks EXCEPT ![o] = @ + 1]
      /\ stage' = [stage EXCEPT ![o] = @ + 1] /\ UNCHANGED <<net, down>>
      /\ queue' = IF stage[o] = 1 THEN [queue EXCEPT ![k] = Tail(@)] ELSE queue
  BY <1>1, AnswerFacts
<1>3. ASSUME NEW c \in Conns PROVE ConnInv(c)'
  <2>1. CASE c = o
    BY <1>2, <2>1 DEF ConnInv, TypeOK
  <2>2. CASE c # o
    BY <1>2, <1>3, <2>2 DEF NetInv, ConnInv, TypeOK
  <2> QED BY <2>1, <2>2
<1>4. ASSUME NEW j \in Flows PROVE QueueInv(j)'
  <2>1. QueueInv(j) /\ queue[j] \in Seq(Conns) /\ Len(queue[j]) \in Nat
    BY <1>4 DEF NetInv, TypeOK
  <2>2. \A i \in 1 .. Len(queue[j]) : queue[j][i] \in Conns
    BY <2>1
  <2>3. CASE j # k
    <3>1. queue'[j] = queue[j] /\ \A i \in 1 .. Len(queue[j]) : queue[j][i] # o
      BY <1>2, <2>1, <2>3 DEF QueueInv, TypeOK
    <3>2. \A i \in 1 .. Len(queue[j]) : stage'[queue[j][i]] = stage[queue[j][i]]
      BY <1>2, <2>2, <3>1 DEF TypeOK
    <3> QED BY <1>2, <2>1, <3>1, <3>2 DEF QueueInv
  <2>4. CASE j = k /\ stage[o] = 0
    <3>1. queue' = queue /\ \A c \in Conns : stage[c] < 2 => stage'[c] < 2
      BY <1>2, <2>4 DEF TypeOK
    <3> QED BY <1>2, <2>1, <2>2, <3>1 DEF QueueInv
  <2>5. CASE j = k /\ stage[o] = 1
    <3>1. /\ queue'[j] = Tail(queue[j]) /\ Len(queue'[j]) = Len(queue[j]) - 1
          /\ \A i \in 1 .. Len(queue'[j]) : /\ queue'[j][i] = queue[j][i + 1]
                                           /\ i + 1 \in 1 .. Len(queue[j])
      BY <1>2, <2>1, <2>5 DEF TypeOK
    <3>2. \A i \in 1 .. Len(queue'[j]) : queue'[j][i] # o
      BY <1>2, <2>1, <2>5, <3>1 DEF QueueInv
    <3>3. \A i \in 1 .. Len(queue'[j]) : queue'[j][i] \in Conns /\ stage'[queue'[j][i]] = stage[queue'[j][i]]
      BY <1>2, <2>2, <3>1, <3>2 DEF TypeOK
    <3>4. \A i \in 1 .. Len(queue'[j]) :
             queue'[j][i][3] = j /\ net'[queue'[j][i]] = "ok" /\ stage'[queue'[j][i]] < 2
      BY <1>2, <2>1, <3>1, <3>3 DEF QueueInv
    <3>5. \A i, l \in 1 .. Len(queue'[j]) : queue'[j][i] = queue'[j][l] => i = l
      <4> SUFFICES ASSUME NEW i \in 1 .. Len(queue'[j]), NEW l \in 1 .. Len(queue'[j]),
                          queue'[j][i] = queue'[j][l]
                   PROVE  i = l
        OBVIOUS
      <4>1. i + 1 = l + 1
        BY <2>1, <3>1 DEF QueueInv
      <4> QED BY <2>1, <3>1, <4>1
    <3> QED BY <1>2, <2>5, <3>4, <3>5 DEF QueueInv
  <2> QED BY <1>2, <2>3, <2>4, <2>5
<1> QED BY <1>3, <1>4 DEF NetInv

\* A node dies, and its queue with it.
LEMMA NetDies ==
    ASSUME TypeOK, NetInv, NEW k \in Flows, NodeDies(k) PROVE NetInv'
<1>1. /\ down' = down \cup {k} /\ queue' = [queue EXCEPT ![k] = <<>>] /\ UNCHANGED <<inq, acks, stage>>
      /\ \A c \in Conns : net'[c] = IF \E i \in DOMAIN queue[k] : queue[k][i] = c THEN "rst" ELSE net[c]
  BY DEF NodeDies
<1>2. ASSUME NEW c \in Conns PROVE ConnInv(c)'
  BY <1>1, <1>2 DEF NetInv, ConnInv
<1>3. ASSUME NEW j \in Flows PROVE QueueInv(j)'
  <2>1. CASE j = k
    BY <1>1, <2>1 DEF QueueInv, TypeOK
  <2>2. CASE j # k
    <3>1. queue'[j] = queue[j] /\ (j \in down' => j \in down)
      BY <1>1, <2>2 DEF TypeOK
    <3>2. DOMAIN queue[k] = 1 .. Len(queue[k])
      BY DEF TypeOK
    <3>3. \A i \in 1 .. Len(queue[j]) : queue[j][i] \in Conns /\ queue[j][i][3] = j
      BY <1>3, QueuedFacts
    <3>4. \A i \in 1 .. Len(queue[k]) : queue[k][i][3] = k
      BY QueuedFacts
    <3>5. \A i \in 1 .. Len(queue[j]) : net'[queue[j][i]] = net[queue[j][i]]
      BY <1>1, <2>2, <3>2, <3>3, <3>4
    <3> QED BY <1>1, <1>3, <3>1, <3>5 DEF NetInv, QueueInv
  <2> QED BY <2>1, <2>2
<1> QED BY <1>2, <1>3 DEF NetInv

-----------------------------------------------------------------------------
(* The threads.                                                            *)

\* Types that the next lemmas use.
LEMMA PlaceTypes ==
    ASSUME TypeOK
    PROVE  /\ DOMAIN pc = Threads /\ session \in Dars /\ session \in Threads
           /\ count \in [Dars -> Nat] /\ flow \in [Threads -> Flows]
<1>1. DOMAIN pc = Threads
  BY DEF TypeOK
<1>2. count \in [Dars -> Nat]
  BY LifecycleAssumption DEF TypeOK
<1> QED BY <1>1, <1>2, ThreadFacts DEF TypeOK

\* Each thread's places, loop counter and count of alerts.
LEMMA PlaceMain ==
    ASSUME TypeOK, RunningInv, MainSetup \/ Application, fate' = "running", NEW u \in Threads
    PROVE  PlaceInv(u)'
<1> USE ThreadFacts DEF alertVars, threadVars, historyVars, PlaceInv, Connecting, Exchanging, Cleaning
<1>1. PlaceInv(u) /\ PlaceInv(Main) /\ PhaseInv
  BY DEF RunningInv
<1>2. /\ DOMAIN pc = Threads /\ session \in Dars /\ session \in Threads
      /\ count \in [Dars -> Nat] /\ flow \in [Threads -> Flows]
  BY PlaceTypes
<1>3. CASE Discover
  BY <1>1, <1>2, <1>3 DEF At, Discover, Ends
<1>4. CASE AddOwnRules
  BY <1>1, <1>2, <1>4 DEF At, AddOwnRules, Goto
<1>5. CASE StartMonitoring
  BY <1>1, <1>2, <1>5 DEF At, StartMonitoring, Goto, Ends
<1>6. CASE StartDarHandler
  BY <1>1, <1>2, <1>6 DEF At, StartDarHandler, PhaseInv, Early
<1>7. CASE RegisterHandler
  BY <1>1, <1>2, <1>7 DEF At, RegisterHandler
<1>8. CASE BeginConnectionClock
  BY <1>1, <1>2, <1>8 DEF At, BeginConnectionClock, Goto
<1>9. CASE ConnectReceiver
  BY <1>1, <1>2, <1>9 DEF At, ConnectReceiver, Goto, Ends
<1>10. CASE SetupReturns
  BY <1>1, <1>2, <1>10 DEF At, SetupReturns, Goto
<1>11. CASE NextExperiment
  BY <1>1, <1>2, <1>11 DEF At, NextExperiment
<1>12. CASE SendHello
  BY <1>1, <1>2, <1>12 DEF At, SendHello, Goto
<1>13. CASE ReceiveEcho
  BY <1>1, <1>2, <1>13 DEF At, ReceiveEcho, Goto
<1>14. CASE ApplicationDies
  BY <1>1, <1>2, <1>14 DEF At, ApplicationDies, Ends
<1>15. CASE Teardown
  BY <1>1, <1>2, <1>15 DEF At, Teardown, Goto
<1> QED BY <1>3, <1>4, <1>5, <1>6, <1>7, <1>8, <1>9, <1>10, <1>11, <1>12, <1>13, <1>14, <1>15 DEF MainSetup, Application

\* The same, of a teardown ...
LEMMA PlaceTeardown ==
    ASSUME TypeOK, RunningInv, NEW t \in Threads, TeardownStep(t), fate' = "running", NEW u \in Threads
    PROVE  PlaceInv(u)'
<1> USE ThreadFacts DEF alertVars, threadVars, PlaceInv, Connecting, Exchanging, Cleaning
<1>1. PlaceInv(u) /\ PlaceInv(t)
  BY DEF RunningInv
<1>2. /\ DOMAIN pc = Threads /\ session \in Dars /\ session \in Threads
      /\ count \in [Dars -> Nat] /\ flow \in [Threads -> Flows]
  BY PlaceTypes
<1>3. CASE CloseReceiver(t)
  BY <1>1, <1>2, <1>3 DEF At, CloseReceiver, Goto
<1>4. CASE EndClock(t)
  BY <1>1, <1>2, <1>4 DEF At, EndClock, Goto, Ends
<1>5. CASE UseAfterFree(t)
  BY <1>1, <1>2, <1>5 DEF At, UseAfterFree, Ends
<1>6. CASE StopMonitoring(t)
  BY <1>1, <1>2, <1>6 DEF At, StopMonitoring, Goto
<1>7. CASE OpenOverlay(t)
  BY <1>1, <1>2, <1>7 DEF At, OpenOverlay, Goto
<1>8. CASE SendSpec(t)
  BY <1>1, <1>2, <1>8 DEF At, SendSpec, Goto, Ends
<1>9. CASE EnterRecv(t)
  BY <1>1, <1>2, <1>9 DEF At, EnterRecv, Goto, AfterRecv
<1>10. CASE LeaveRecv(t)
  BY <1>1, <1>2, <1>10 DEF At, LeaveRecv, Goto, AfterRecv
<1>11. CASE CloseOverlay(t)
  BY <1>1, <1>2, <1>11 DEF At, CloseOverlay
<1>12. CASE RemoveOwnRules(t)
  BY <1>1, <1>2, <1>12 DEF At, RemoveOwnRules, Goto
<1>13. CASE CloseLog(t)
  BY <1>1, <1>2, <1>13 DEF At, CloseLog, Goto
<1>14. CASE Exit(t)
  BY <1>1, <1>2, <1>14 DEF At, Exit, Goto, Ends
<1> QED BY <1>3, <1>4, <1>5, <1>6, <1>7, <1>8, <1>9, <1>10, <1>11, <1>12, <1>13, <1>14 DEF TeardownStep

\* ... and of a DAR thread's loop.
LEMMA PlaceDar ==
    ASSUME TypeOK, RunningInv, NEW t \in Dars, DarLoop(t), fate' = "running", NEW u \in Threads
    PROVE  PlaceInv(u)'
<1> USE ThreadFacts DEF alertVars, threadVars, PlaceInv, Connecting, Exchanging, Cleaning
<1>1. PlaceInv(u) /\ PlaceInv(t)
  BY DEF RunningInv
<1>2. /\ DOMAIN pc = Threads /\ session \in Dars /\ session \in Threads
      /\ count \in [Dars -> Nat] /\ flow \in [Threads -> Flows]
  BY PlaceTypes
<1>3. CASE EnterRead(t)
  BY <1>1, <1>2, <1>3 DEF At, EnterRead, Goto
<1>4. CASE ReadAlert(t)
  BY <1>1, <1>2, <1>4 DEF At, ReadAlert, Goto
<1>5. CASE ReadStray(t)
  BY <1>1, <1>2, <1>5 DEF At, ReadStray, Ends
<1>6. CASE RaiseSignal(t)
  BY <1>1, <1>2, <1>6 DEF At, RaiseSignal, Goto, Ends
<1> QED BY <1>3, <1>4, <1>5, <1>6 DEF DarLoop

\* Setup, teardown and who is in begun.
LEMMA PhaseMain ==
    ASSUME TypeOK, RunningInv, MainSetup \/ Application, fate' = "running" PROVE PhaseInv'
<1> USE ThreadFacts DEF historyVars, PhaseInv, Connecting, Exchanging, Cleaning, Early
<1>1. PlaceInv(Main) /\ PhaseInv
  BY ThreadFacts DEF RunningInv
<1>2. DOMAIN pc = Threads /\ session \in Dars /\ session \in Threads /\ adding \in BOOLEAN
  BY PlaceTypes DEF TypeOK
<1>3. CASE Discover
  BY <1>1, <1>2, <1>3 DEF At, Discover, Ends, PlaceInv
<1>4. CASE AddOwnRules
  BY <1>1, <1>2, <1>4 DEF At, AddOwnRules, Goto, PlaceInv
<1>5. CASE StartMonitoring
  BY <1>1, <1>2, <1>5 DEF At, StartMonitoring, Goto, Ends, PlaceInv
<1>6. CASE StartDarHandler
  BY <1>1, <1>2, <1>6 DEF At, StartDarHandler, PlaceInv
<1>7. CASE RegisterHandler
  BY <1>1, <1>2, <1>7 DEF At, RegisterHandler, PlaceInv
<1>8. CASE BeginConnectionClock
  BY <1>1, <1>2, <1>8 DEF At, BeginConnectionClock, Goto, PlaceInv
<1>9. CASE ConnectReceiver
  BY <1>1, <1>2, <1>9 DEF At, ConnectReceiver, Goto, Ends, PlaceInv
<1>10. CASE SetupReturns
  BY <1>1, <1>2, <1>10 DEF At, SetupReturns, Goto, PlaceInv
<1>11. CASE NextExperiment
  <2>1. session' \in Dars /\ pc[session'] = "none" /\ session' # Main
    BY <1>1, <1>2, <1>11, LifecycleAssumption DEF At, NextExperiment, RunningInv, PlaceInv, Dars, Threads, Main
  <2> QED BY <1>1, <1>2, <1>11, <2>1 DEF At, NextExperiment
<1>12. CASE SendHello
  BY <1>1, <1>2, <1>12 DEF At, SendHello, Goto, PlaceInv
<1>13. CASE ReceiveEcho
  BY <1>1, <1>2, <1>13 DEF At, ReceiveEcho, Goto, PlaceInv
<1>14. CASE ApplicationDies
  BY <1>1, <1>2, <1>14 DEF At, ApplicationDies, Ends, PlaceInv
<1>15. CASE Teardown
  BY <1>1, <1>2, <1>15 DEF At, Teardown, Goto, PlaceInv
<1> QED BY <1>3, <1>4, <1>5, <1>6, <1>7, <1>8, <1>9, <1>10, <1>11, <1>12, <1>13, <1>14, <1>15 DEF MainSetup, Application

\* The same, of a teardown ...
LEMMA PhaseTeardown ==
    ASSUME TypeOK, RunningInv, NEW t \in Threads, TeardownStep(t), fate' = "running" PROVE PhaseInv'
<1> USE ThreadFacts DEF historyVars, PhaseInv, Connecting, Exchanging, Cleaning, Early
<1>1. PlaceInv(t) /\ PhaseInv
  BY ThreadFacts DEF RunningInv
<1>2. DOMAIN pc = Threads /\ session \in Dars /\ session \in Threads /\ adding \in BOOLEAN
  BY PlaceTypes DEF TypeOK
<1>3. CASE CloseReceiver(t)
  BY <1>1, <1>2, <1>3 DEF At, CloseReceiver, Goto, PlaceInv
<1>4. CASE EndClock(t)
  BY <1>1, <1>2, <1>4 DEF At, EndClock, Goto, Ends, PlaceInv
<1>5. CASE UseAfterFree(t)
  BY <1>1, <1>2, <1>5 DEF At, UseAfterFree, Ends, PlaceInv
<1>6. CASE StopMonitoring(t)
  BY <1>1, <1>2, <1>6 DEF At, StopMonitoring, Goto, PlaceInv
<1>7. CASE OpenOverlay(t)
  BY <1>1, <1>2, <1>7 DEF At, OpenOverlay, Goto, PlaceInv
<1>8. CASE SendSpec(t)
  BY <1>1, <1>2, <1>8 DEF At, SendSpec, Goto, Ends, PlaceInv
<1>9. CASE EnterRecv(t)
  BY <1>1, <1>2, <1>9 DEF At, EnterRecv, Goto, AfterRecv, PlaceInv
<1>10. CASE LeaveRecv(t)
  BY <1>1, <1>2, <1>10 DEF At, LeaveRecv, Goto, AfterRecv, PlaceInv
<1>11. CASE CloseOverlay(t)
  BY <1>1, <1>2, <1>11 DEF At, CloseOverlay, PlaceInv
<1>12. CASE RemoveOwnRules(t)
  BY <1>1, <1>2, <1>12 DEF At, RemoveOwnRules, Goto, PlaceInv
<1>13. CASE CloseLog(t)
  BY <1>1, <1>2, <1>13 DEF At, CloseLog, Goto, PlaceInv
<1>14. CASE Exit(t)
  BY <1>1, <1>2, <1>14 DEF At, Exit, Goto, Ends, PlaceInv
<1> QED BY <1>3, <1>4, <1>5, <1>6, <1>7, <1>8, <1>9, <1>10, <1>11, <1>12, <1>13, <1>14 DEF TeardownStep

\* ... and of a DAR thread's loop.
LEMMA PhaseDar ==
    ASSUME TypeOK, RunningInv, NEW t \in Dars, DarLoop(t), fate' = "running" PROVE PhaseInv'
<1> USE ThreadFacts DEF historyVars, PhaseInv, Connecting, Exchanging, Cleaning, Early
<1>1. PlaceInv(t) /\ PhaseInv
  BY ThreadFacts DEF RunningInv
<1>2. DOMAIN pc = Threads /\ session \in Dars /\ session \in Threads /\ adding \in BOOLEAN
  BY PlaceTypes DEF TypeOK
<1>3. CASE EnterRead(t)
  BY <1>1, <1>2, <1>3 DEF At, EnterRead, Goto, PlaceInv
<1>4. CASE ReadAlert(t)
  BY <1>1, <1>2, <1>4 DEF At, ReadAlert, Goto, PlaceInv
<1>5. CASE ReadStray(t)
  BY <1>1, <1>2, <1>5 DEF At, ReadStray, Ends, PlaceInv
<1>6. CASE RaiseSignal(t)
  BY <1>1, <1>2, <1>6 DEF At, RaiseSignal, Goto, Ends, PlaceInv
<1> QED BY <1>3, <1>4, <1>5, <1>6 DEF DarLoop

\* Flows and sessions are numbers.
LEMMA FlowNat ==
    ASSUME TypeOK
    PROVE  /\ flow \in [Threads -> Nat] /\ session \in Nat /\ adding \in BOOLEAN
           /\ \A k \in Flows : k \in Nat /\ k >= 1
<1>1. \A k \in Flows : k \in Nat /\ k >= 1
  BY LifecycleAssumption DEF Flows
<1> QED BY <1>1, ThreadFacts DEF TypeOK

\* No step makes a connection one that is still to be opened.
LEMMA AheadMain ==
    ASSUME TypeOK, RunningInv, MainSetup \/ Application, fate' = "running",
           NEW u \in Threads, NEW p \in Nat, NEW k \in Flows, Ahead(u, p, k)'
    PROVE  Ahead(u, p, k)
<1> USE ThreadFacts DEF alertVars, threadVars, Ahead, Latest, Pass, Connecting, Exchanging, Cleaning
<1>1. PlaceInv(Main) /\ PlaceInv(u) /\ PhaseInv
  BY ThreadFacts DEF RunningInv
<1>2. /\ DOMAIN pc = Threads /\ session \in Dars /\ session \in Threads /\ adding \in BOOLEAN
      /\ session \in Nat /\ count \in [Dars -> Nat] /\ flow \in [Threads -> Nat] /\ k \in Nat /\ k >= 1
  BY PlaceTypes, FlowNat
<1>3. CASE Discover
  BY <1>1, <1>2, <1>3 DEF At, Discover, Ends, PlaceInv, PhaseInv
<1>4. CASE AddOwnRules
  BY <1>1, <1>2, <1>4 DEF At, AddOwnRules, Goto, PlaceInv, PhaseInv
<1>5. CASE StartMonitoring
  BY <1>1, <1>2, <1>5 DEF At, StartMonitoring, Goto, Ends, PlaceInv, PhaseInv
<1>6. CASE StartDarHandler
  BY <1>1, <1>2, <1>6 DEF At, StartDarHandler, PlaceInv, PhaseInv
<1>7. CASE RegisterHandler
  BY <1>1, <1>2, <1>7 DEF At, RegisterHandler, PlaceInv, PhaseInv
<1>8. CASE BeginConnectionClock
  BY <1>1, <1>2, <1>8 DEF At, BeginConnectionClock, Goto, PlaceInv, PhaseInv
<1>9. CASE ConnectReceiver
  BY <1>1, <1>2, <1>9 DEF At, ConnectReceiver, Goto, Ends, PlaceInv, PhaseInv
<1>10. CASE SetupReturns
  BY <1>1, <1>2, <1>10 DEF At, SetupReturns, Goto, PlaceInv, PhaseInv
<1>11. CASE NextExperiment
  BY <1>1, <1>2, <1>11 DEF At, NextExperiment, PlaceInv, PhaseInv
<1>12. CASE SendHello
  BY <1>1, <1>2, <1>12 DEF At, SendHello, Goto, PlaceInv, PhaseInv
<1>13. CASE ReceiveEcho
  BY <1>1, <1>2, <1>13 DEF At, ReceiveEcho, Goto, PlaceInv, PhaseInv
<1>14. CASE ApplicationDies
  BY <1>1, <1>2, <1>14 DEF At, ApplicationDies, Ends, PlaceInv, PhaseInv
<1>15. CASE Teardown
  BY <1>1, <1>2, <1>15 DEF At, Teardown, Goto, PlaceInv, PhaseInv
<1> QED BY <1>3, <1>4, <1>5, <1>6, <1>7, <1>8, <1>9, <1>10, <1>11, <1>12, <1>13, <1>14, <1>15 DEF MainSetup, Application

\* The same, of a teardown ...
LEMMA AheadTeardown ==
    ASSUME TypeOK, RunningInv, NEW t \in Threads, TeardownStep(t), fate' = "running",
           NEW u \in Threads, NEW p \in Nat, NEW k \in Flows, Ahead(u, p, k)'
    PROVE  Ahead(u, p, k)
<1> USE ThreadFacts DEF alertVars, threadVars, Ahead, Latest, Pass, Connecting, Exchanging, Cleaning
<1>1. PlaceInv(t) /\ PlaceInv(u) /\ PhaseInv
  BY ThreadFacts DEF RunningInv
<1>2. /\ DOMAIN pc = Threads /\ session \in Dars /\ session \in Threads /\ adding \in BOOLEAN
      /\ session \in Nat /\ count \in [Dars -> Nat] /\ flow \in [Threads -> Nat] /\ k \in Nat /\ k >= 1
  BY PlaceTypes, FlowNat
<1>3. CASE CloseReceiver(t)
  BY <1>1, <1>2, <1>3 DEF At, CloseReceiver, Goto, PlaceInv, PhaseInv
<1>4. CASE EndClock(t)
  BY <1>1, <1>2, <1>4 DEF At, EndClock, Goto, Ends, PlaceInv, PhaseInv
<1>5. CASE UseAfterFree(t)
  BY <1>1, <1>2, <1>5 DEF At, UseAfterFree, Ends, PlaceInv, PhaseInv
<1>6. CASE StopMonitoring(t)
  BY <1>1, <1>2, <1>6 DEF At, StopMonitoring, Goto, PlaceInv, PhaseInv
<1>7. CASE OpenOverlay(t)
  BY <1>1, <1>2, <1>7 DEF At, OpenOverlay, Goto, PlaceInv, PhaseInv
<1>8. CASE SendSpec(t)
  <2>1. Goto(t, "recv") /\ pc[t] = "send" /\ UNCHANGED <<count, flow>>
    BY <1>8 DEF At, SendSpec, Ends
  <2> QED BY <1>1, <1>2, <2>1 DEF Goto
<1>9. CASE EnterRecv(t)
  BY <1>1, <1>2, <1>9 DEF At, EnterRecv, Goto, AfterRecv, PlaceInv, PhaseInv
<1>10. CASE LeaveRecv(t)
  BY <1>1, <1>2, <1>10 DEF At, LeaveRecv, Goto, AfterRecv, PlaceInv, PhaseInv
<1>11. CASE CloseOverlay(t)
  <2>1. /\ pc[t] = "closeOv" /\ UNCHANGED <<session, count>>
        /\ flow' = [flow EXCEPT ![t] = IF flow[t] = NumFlows THEN 1 ELSE @ + 1]
        /\ pc' = [pc EXCEPT ![t] =
                     IF t = Main /\ adding THEN IF flow[t] = NumFlows THEN "monitor" ELSE "add"
                                            ELSE IF flow[t] = NumFlows THEN "own" ELSE "open"]
        /\ adding' = IF t = Main THEN adding /\ flow[t] # NumFlows ELSE adding
    BY <1>11 DEF At, CloseOverlay
  <2>2. CASE u # t
    <3>1. pc'[u] = pc[u] /\ flow'[u] = flow[u] /\ Latest(u)' = Latest(u)
      BY <1>2, <2>1, <2>2
    <3> QED BY <2>1, <3>1
  <2>3. CASE u = t /\ ~(t = Main /\ adding)
    BY <1>2, <2>1, <2>3
  <2>4. CASE u = t /\ t = Main /\ adding
    <3>1. CASE flow[t] = NumFlows
      <4>1. Latest(u)' = 2 * session /\ Latest(u) = 2 * session - 1
        BY <1>2, <2>1, <2>4, <3>1
      <4>2. p >= Latest(u)' /\ 2 * session \in Int
        BY <1>2, <4>1
      <4> QED BY <4>1, <4>2
    <3>2. CASE flow[t] # NumFlows
      BY <1>2, <2>1, <2>4, <3>2
    <3> QED BY <3>1, <3>2
  <2> QED BY <2>2, <2>3, <2>4
<1>12. CASE RemoveOwnRules(t)
  BY <1>1, <1>2, <1>12 DEF At, RemoveOwnRules, Goto, PlaceInv, PhaseInv
<1>13. CASE CloseLog(t)
  BY <1>1, <1>2, <1>13 DEF At, CloseLog, Goto, PlaceInv, PhaseInv
<1>14. CASE Exit(t)
  BY <1>1, <1>2, <1>14 DEF At, Exit, Goto, Ends, PlaceInv, PhaseInv
<1> QED BY <1>3, <1>4, <1>5, <1>6, <1>7, <1>8, <1>9, <1>10, <1>11, <1>12, <1>13, <1>14 DEF TeardownStep

\* ... and of a DAR thread's loop.
LEMMA AheadDar ==
    ASSUME TypeOK, RunningInv, NEW t \in Dars, DarLoop(t), fate' = "running",
           NEW u \in Threads, NEW p \in Nat, NEW k \in Flows, Ahead(u, p, k)'
    PROVE  Ahead(u, p, k)
<1> USE ThreadFacts DEF alertVars, threadVars, Ahead, Latest, Pass, Connecting, Exchanging, Cleaning
<1>1. PlaceInv(t) /\ PlaceInv(u) /\ PhaseInv
  BY ThreadFacts DEF RunningInv
<1>2. /\ DOMAIN pc = Threads /\ session \in Dars /\ session \in Threads /\ adding \in BOOLEAN
      /\ session \in Nat /\ count \in [Dars -> Nat] /\ flow \in [Threads -> Nat] /\ k \in Nat /\ k >= 1
  BY PlaceTypes, FlowNat
<1>3. CASE EnterRead(t)
  BY <1>1, <1>2, <1>3 DEF At, EnterRead, Goto, PlaceInv, PhaseInv
<1>4. CASE ReadAlert(t)
  BY <1>1, <1>2, <1>4 DEF At, ReadAlert, Goto, PlaceInv, PhaseInv
<1>5. CASE ReadStray(t)
  BY <1>1, <1>2, <1>5 DEF At, ReadStray, Ends, PlaceInv, PhaseInv
<1>6. CASE RaiseSignal(t)
  BY <1>1, <1>2, <1>6 DEF At, RaiseSignal, Goto, Ends, PlaceInv, PhaseInv
<1> QED BY <1>3, <1>4, <1>5, <1>6 DEF DarLoop

\* Which connections were opened, over all the steps that touch net.
LEMMA NoneSame ==
    ASSUME TypeOK, NetInv, NamedInv,
           \/ UNCHANGED net
           \/ \E t \in Threads : SendSpec(t) \/ LeaveRecv(t)
           \/ \E k \in Flows : NodeDies(k),
           NEW o \in Conns
    PROVE  net'[o] = "none" <=> net[o] = "none"
<1>1. CASE UNCHANGED net
  BY <1>1
<1>2. CASE \E t \in Threads : SendSpec(t)
  <2>1. PICK t \in Threads : SendSpec(t)
    BY <1>2
  <2>2. PICK x : x = fds[myfd[t]]
    OBVIOUS
  <2>3. x.kind = "ov" => x.id \in Conns
    BY <2>2, FileFacts DEF TypeOK
  <2>4. \/ UNCHANGED net
        \/ x.kind = "ov" /\ net[x.id] = "rst" /\ net' = [net EXCEPT ![x.id] = "broken"]
    BY <2>1, <2>2 DEF SendSpec
  <2> QED BY <2>3, <2>4 DEF TypeOK
<1>3. CASE \E t \in Threads : LeaveRecv(t)
  <2>1. PICK t \in Threads : LeaveRecv(t)
    BY <1>3
  <2>2. PICK x : x = on[t]
    OBVIOUS
  <2>3. x.kind = "ov" => x.id \in Conns /\ net[x.id] # "none"
    BY <2>2, FileFacts DEF TypeOK, NamedInv, Opened
  <2>4. \/ UNCHANGED net
        \/ x.kind = "ov" /\ net' = [net EXCEPT ![x.id] = IF acks[x.id] = 0 THEN "broken" ELSE @]
    BY <2>1, <2>2 DEF LeaveRecv
  <2> QED BY <2>3, <2>4 DEF TypeOK
<1>4. CASE \E k \in Flows : NodeDies(k)
  <2>1. PICK k \in Flows : NodeDies(k)
    BY <1>4
  <2>2. DOMAIN queue[k] = 1 .. Len(queue[k])
    BY DEF TypeOK
  <2>3. \A i \in 1 .. Len(queue[k]) : net[queue[k][i]] = "ok"
    BY QueuedFacts
  <2> QED BY <2>1, <2>2, <2>3 DEF NodeDies
<1> QED BY <1>1, <1>2, <1>3, <1>4

\* Descriptors that a step adds name no connection, or one that was opened.
LEMMA NamedFrame ==
    ASSUME TypeOK, NamedInv,
           \A o \in Conns : net[o] # "none" => net'[o] # "none",
           \A f \in Fds : \/ fds'[f].kind = "ov" => net'[fds'[f].id] # "none"
                          \/ fds'[f] = fds[f],
           \A t \in Threads : \/ on'[t].kind # "ov" \/ on'[t] = on[t]
                              \/ \E f \in Fds : on'[t] = fds[f]
    PROVE  NamedInv'
<1>1. \A f \in Fds : fds[f].kind = "ov" => fds[f].id \in Conns /\ net[fds[f].id] # "none"
  BY FileFacts DEF TypeOK, NamedInv, Opened
<1>2. \A t \in Threads : on[t].kind = "ov" => on[t].id \in Conns /\ net[on[t].id] # "none"
  BY FileFacts DEF TypeOK, NamedInv, Opened
<1>3. \A f \in Fds : fds'[f].kind = "ov" => net'[fds'[f].id] # "none"
  BY <1>1
<1>4. \A t \in Threads : on'[t].kind = "ov" => net'[on'[t].id] # "none"
  BY <1>1, <1>2
<1> QED BY <1>3, <1>4 DEF NamedInv, Opened

\* A step that touches neither connections nor descriptors.
LEMMA NamedStay == ASSUME NamedInv, UNCHANGED <<net, fds, on>> PROVE NamedInv'
BY DEF NamedInv, Opened

\* setup_sender and the application name no overlay connection.
LEMMA NamedMain ==
    ASSUME TypeOK, NamedInv, MainSetup \/ Application, fate' = "running" PROVE NamedInv'
<1> USE ThreadFacts, FileFacts DEF kernelVars, networkVars, At, Goto, Ends
<1>1. /\ DOMAIN fds = Fds /\ DOMAIN on = Threads /\ session \in Dars /\ connfd \in Fds
      /\ UNCHANGED net
  BY DEF TypeOK, MainSetup, Application, Discover, StartMonitoring, ConnectReceiver, ApplicationDies,
         AddOwnRules, StartDarHandler, RegisterHandler, BeginConnectionClock, SetupReturns,
         NextExperiment, SendHello, ReceiveEcho, Teardown
<1>2. \A f \in Fds : fds'[f].kind # "ov" \/ fds'[f] = fds[f]
  <2>1. CASE StartMonitoring
    BY <1>1, <2>1 DEF StartMonitoring, Socket
  <2>2. CASE ConnectReceiver
    BY <1>1, <2>2 DEF ConnectReceiver, Socket
  <2>3. CASE ~StartMonitoring /\ ~ConnectReceiver
    BY <1>1, <2>3 DEF MainSetup, Application, Discover, ApplicationDies,
         AddOwnRules, StartDarHandler, RegisterHandler, BeginConnectionClock, SetupReturns,
         NextExperiment, SendHello, ReceiveEcho, Teardown
  <2> QED BY <2>1, <2>2, <2>3
<1>3. \A t \in Threads : on'[t].kind # "ov" \/ on'[t] = on[t] \/ \E f \in Fds : on'[t] = fds[f]
  BY <1>1 DEF MainSetup, Application, Discover, StartMonitoring, ConnectReceiver, ApplicationDies,
         AddOwnRules, StartDarHandler, RegisterHandler, BeginConnectionClock, SetupReturns,
         NextExperiment, SendHello, ReceiveEcho, Teardown
<1> QED BY <1>1, <1>2, <1>3, NamedFrame

\* A teardown names what it opened; recv() names what a descriptor does.
LEMMA NamedTeardown ==
    ASSUME TypeOK, RunningInv, NetInv, NEW t \in Threads, TeardownStep(t), fate' = "running"
    PROVE  NamedInv'
<1> USE DEF At, Goto, Ends
<1>0. /\ DOMAIN fds = Fds /\ DOMAIN on = Threads /\ myfd[t] \in Fds /\ NamedInv
      /\ Free.kind # "ov"
  BY FileFacts DEF TypeOK, RunningInv
<1>1. CASE OpenOverlay(t)
  <2>1. Conn(t) \in Conns /\ Overlay(Conn(t)).id = Conn(t)
    BY <1>1, OpensFresh, FileFacts
  <2>2. /\ net' = [net EXCEPT ![Conn(t)] = IF flow[t] \in down THEN "broken" ELSE "ok"]
        /\ \E f \in Fds : fds' = [fds EXCEPT ![f] = Overlay(Conn(t))]
        /\ UNCHANGED on
    BY <1>1 DEF OpenOverlay, Conn, Socket
  <2>3. net'[Conn(t)] # "none" /\ \A o \in Conns : net[o] # "none" => net'[o] # "none"
    BY <2>1, <2>2 DEF TypeOK
  <2>4. \A f \in Fds : \/ fds'[f].kind = "ov" => net'[fds'[f].id] # "none"
                       \/ fds'[f] = fds[f]
    BY <1>0, <2>1, <2>2, <2>3
  <2> QED BY <1>0, <2>2, <2>3, <2>4, NamedFrame
<1>2. CASE ~OpenOverlay(t)
  <2>1. \A o \in Conns : net[o] # "none" => net'[o] # "none"
    <3>1. CASE SendSpec(t) \/ LeaveRecv(t)
      BY <1>0, <3>1, NoneSame
    <3>2. CASE ~(SendSpec(t) \/ LeaveRecv(t))
      BY <1>2, <3>2 DEF networkVars, TeardownStep, CloseReceiver, EndClock, UseAfterFree, StopMonitoring,
          EnterRecv, CloseOverlay, RemoveOwnRules, CloseLog, Exit
    <3> QED BY <3>1, <3>2
  <2>2. \A f \in Fds : fds'[f].kind # "ov" \/ fds'[f] = fds[f]
    BY <1>0, <1>2 DEF kernelVars, TeardownStep, CloseReceiver, EndClock, UseAfterFree, StopMonitoring,
        SendSpec, EnterRecv, LeaveRecv, CloseOverlay, RemoveOwnRules, CloseLog, Exit, Closed
  <2>3. \A u \in Threads : on'[u].kind # "ov" \/ on'[u] = on[u] \/ \E f \in Fds : on'[u] = fds[f]
    BY <1>0, <1>2 DEF kernelVars, TeardownStep, CloseReceiver, EndClock, UseAfterFree, StopMonitoring,
        SendSpec, EnterRecv, LeaveRecv, CloseOverlay, RemoveOwnRules, CloseLog, Exit
  <2> QED BY <1>0, <2>1, <2>2, <2>3, NamedFrame
<1> QED BY <1>1, <1>2

\* read() names what a descriptor does.
LEMMA NamedDar ==
    ASSUME TypeOK, NamedInv, NEW t \in Dars, DarLoop(t), fate' = "running" PROVE NamedInv'
<1>1. t \in Threads /\ darfd[t] \in Fds /\ Free.kind # "ov" /\ DOMAIN on = Threads
  BY ThreadFacts, FileFacts DEF TypeOK
<1>2. UNCHANGED <<fds, net>>
  BY DEF DarLoop, EnterRead, ReadAlert, ReadStray, RaiseSignal, kernelVars, networkVars, Ends
<1>3. \A u \in Threads : on'[u].kind # "ov" \/ on'[u] = on[u] \/ \E f \in Fds : on'[u] = fds[f]
  BY <1>1 DEF DarLoop, EnterRead, ReadAlert, ReadStray, RaiseSignal, kernelVars, Ends
<1> QED BY <1>2, <1>3, NamedFrame

\* Connections that are still to be opened are unused.
LEMMA FreshFrame ==
    ASSUME FreshInv, \A o \in Conns : Ahead(o[1], o[2], o[3])' => Ahead(o[1], o[2], o[3]),
           \A o \in Conns : net[o] = "none" => net'[o] = "none"
    PROVE  FreshInv'
BY DEF FreshInv

\* Setup and the application open no overlay connection.
LEMMA FreshMain ==
    ASSUME TypeOK, RunningInv, MainSetup \/ Application, fate' = "running" PROVE FreshInv'
<1>1. \A o \in Conns : Ahead(o[1], o[2], o[3])' => Ahead(o[1], o[2], o[3])
  BY AheadMain, ConnFacts
<1>2. UNCHANGED net
  BY DEF networkVars, MainSetup, Application, Discover, StartMonitoring, ConnectReceiver, ApplicationDies,
         AddOwnRules, StartDarHandler, RegisterHandler, BeginConnectionClock, SetupReturns,
         NextExperiment, SendHello, ReceiveEcho, Teardown
<1> QED BY <1>1, <1>2, FreshFrame DEF RunningInv

\* Nor does the DAR loop.
LEMMA FreshDar ==
    ASSUME TypeOK, RunningInv, NEW t \in Dars, DarLoop(t), fate' = "running" PROVE FreshInv'
<1>1. \A o \in Conns : Ahead(o[1], o[2], o[3])' => Ahead(o[1], o[2], o[3])
  BY AheadDar, ConnFacts
<1>2. UNCHANGED net
  BY DEF DarLoop, EnterRead, ReadAlert, ReadStray, RaiseSignal, networkVars
<1> QED BY <1>1, <1>2, FreshFrame DEF RunningInv

\* A teardown opens the connections in their order.
LEMMA FreshTeardown ==
    ASSUME TypeOK, RunningInv, NetInv, NEW t \in Threads, TeardownStep(t), fate' = "running"
    PROVE  FreshInv'
<1>1. \A o \in Conns : Ahead(o[1], o[2], o[3])' => Ahead(o[1], o[2], o[3])
  BY AheadTeardown, ConnFacts
<1>2. CASE OpenOverlay(t)
  <2>1. /\ net' = [net EXCEPT ![Conn(t)] = IF flow[t] \in down THEN "broken" ELSE "ok"]
        /\ UNCHANGED <<flow, session, adding, count>> /\ pc' = [pc EXCEPT ![t] = "send"]
    BY <1>2 DEF OpenOverlay, Conn, Goto, alertVars
  <2>2. /\ Conn(t) \in Conns /\ Conn(t)[1] = t /\ Conn(t)[2] = Pass(t) /\ Conn(t)[3] = flow[t]
        /\ Pass(t) \in Nat /\ flow[t] \in Nat /\ pc'[t] = "send"
    BY <1>2, <2>1, ConnIs, FlowNat DEF OpenOverlay, At, Exchanging, TypeOK
  <2>3. Latest(t)' = Pass(t)
    BY <2>1, <2>2 DEF Latest, Pass
  <2>4. ASSUME NEW p, NEW k, p = Pass(t), k = flow[t] PROVE ~Ahead(t, p, k)'
    <3>1. flow'[t] = flow[t] /\ ~(k > flow[t]) /\ ~(p > Pass(t))
      BY <2>1, <2>2, <2>4
    <3> QED BY <2>2, <2>3, <3>1 DEF Ahead, Exchanging
  <2>5. ASSUME NEW o \in Conns, Ahead(o[1], o[2], o[3])' PROVE o # Conn(t)
    <3>1. SUFFICES ASSUME o = Conn(t) PROVE FALSE
      OBVIOUS
    <3>2. o[1] = t /\ o[2] = Pass(t) /\ o[3] = flow[t]
      BY <2>2, <3>1
    <3>3. ~Ahead(t, o[2], o[3])'
      BY <2>4, <3>2
    <3> QED BY <2>5, <3>2, <3>3
  <2> QED BY <1>1, <2>1, <2>5 DEF FreshInv, RunningInv, TypeOK
<1>3. CASE SendSpec(t) \/ LeaveRecv(t)
  BY <1>1, <1>3, NoneSame, FreshFrame DEF RunningInv
<1>4. CASE ~(OpenOverlay(t) \/ SendSpec(t) \/ LeaveRecv(t))
  <2>1. UNCHANGED net
    BY <1>4 DEF networkVars, TeardownStep, CloseReceiver, EndClock, UseAfterFree, StopMonitoring,
          EnterRecv, CloseOverlay, RemoveOwnRules, CloseLog, Exit
  <2> QED BY <1>1, <2>1, FreshFrame DEF RunningInv
<1> QED BY <1>2, <1>3, <1>4

-----------------------------------------------------------------------------
(* A thread that is alone.                                                 *)

\* What it relies on is unchanged by a step that leaves its own state, its connection
\* and the nodes as they are.
Undisturbed(t) ==
    /\ Alone(t)' => Alone(t)
    /\ begun' = {} => begun = {}
    /\ pc'[t] = pc[t] /\ flow'[t] = flow[t] /\ leg'[t] = leg[t] /\ Pass(t)' = Pass(t)
    /\ UNCHANGED <<adding, networkVars, own>>
    /\ Alone(t) /\ pc[t] \in Exchanging \ {"open"} => fds'[myfd'[t]] = fds[myfd[t]] /\ on'[t] = on[t]

\* Then it stays as it was.
LEMMA AloneFrame ==
    ASSUME NEW t \in Threads, AloneInv(t), Undisturbed(t) PROVE AloneInv(t)'
<1> SUFFICES ASSUME Alone(t)' PROVE (Before(t) /\ Present(t) /\ After(t) /\ Between(t))'
  BY DEF AloneInv
<1>1. /\ pc'[t] = pc[t] /\ flow'[t] = flow[t] /\ leg'[t] = leg[t] /\ Pass(t)' = Pass(t)
      /\ adding' = adding /\ inq' = inq /\ acks' = acks /\ stage' = stage /\ net' = net
      /\ queue' = queue /\ down' = down /\ rules' = rules /\ own' = own
      /\ Alone(t) /\ Before(t) /\ Present(t) /\ After(t) /\ Between(t)
      /\ begun' = {} => begun = {}
  BY DEF Undisturbed, AloneInv, networkVars
<1>2. pc[t] \in Exchanging \ {"open"} => fds'[myfd'[t]] = fds[myfd[t]] /\ on'[t] = on[t]
  BY <1>1 DEF Undisturbed
<1>3. Conn(t)' = Conn(t) /\ Adds(t)' = Adds(t) /\ Spec3(t)' = Spec3(t)
  BY <1>1 DEF Conn, Adds, Spec3
<1>4. ASSUME NEW k PROVE Settled(k)' = Settled(k) /\ Through(t, k)' = Through(t, k)
  BY <1>1, <1>3 DEF Settled, Through
<1>5. Through(t, flow[t])' = Through(t, flow[t])
  BY <1>1, <1>3 DEF Settled, Through
<1>6. Last(t)' = Last(t) /\ Specs(t)' = Specs(t)
  BY <1>1, <1>3 DEF Last, Specs
<1>7. Queued(t)' = Queued(t) /\ Begun1(t)' = Begun1(t)
  BY <1>1, <1>3, <1>6 DEF Queued, Begun1
<1>8. Before(t)' /\ After(t)' /\ Between(t)'
  BY <1>1, <1>4 DEF Before, After, Between
<1>9. Present(t)'
  <2>1. Proceeds(t)' = Proceeds(t)
    BY <1>1, <1>3, <1>5, <1>6, <1>7 DEF Proceeds
  <2>2. Fails(t)' = Fails(t)
    BY <1>1, <1>3 DEF Fails
  <2>3. pc[t] \in Exchanging \ {"open"} => Holds(t)' = Holds(t)
    BY <1>1, <1>2, <1>3 DEF Holds
  <2> QED BY <1>1, <2>1, <2>2, <2>3 DEF Present
<1> QED BY <1>8, <1>9

\* A thread outside these places has nothing at stake.
LEMMA AloneIdle ==
    ASSUME NEW t \in Threads, pc'[t] \notin Exchanging \cup {"add", "own", "final", "exit"}, Between(t)'
    PROVE  AloneInv(t)'
BY DEF AloneInv, Before, Present, After

\* A DAR thread that tears down alone runs after setup, so no other thread uses overlay
\* connections; nor does one while the main thread is alone.
LEMMA Lonely ==
    ASSUME TypeOK, RunningInv, NEW t \in Threads, NEW u \in Threads, u # t, Alone(t),
           t = Main \/ pc[t] \in Cleaning
    PROVE  /\ pc[u] \notin Cleaning
           /\ u = Main => ~adding /\ pc[Main] \notin Early \cup {"pause"}
<1>1. PhaseInv /\ session \in Dars
  BY DEF RunningInv, TypeOK
<1>2. CASE u \in Dars
  BY <1>1, <1>2, ThreadFacts DEF PhaseInv, Alone
<1>3. CASE u = Main
  <2>1. t = session /\ pc[session] # "none" /\ Main \notin begun
    BY <1>3, ThreadFacts DEF Alone, Cleaning, Exchanging
  <2> QED BY <1>1, <1>3, <2>1 DEF PhaseInv
<1> QED BY <1>2, <1>3, ThreadFacts

\* The steps of setup_sender and of the application.
LEMMA AloneMain ==
    ASSUME TypeOK, RunningInv, MainSetup \/ Application, fate' = "running", NEW t \in Threads
    PROVE  AloneInv(t)'
<1> USE DEF historyVars, networkVars, At, Goto, Ends
<1>1. /\ DOMAIN pc = Threads /\ session \in Dars /\ session \in Threads /\ PhaseInv
      /\ PlaceInv(t) /\ PlaceInv(Main) /\ AloneInv(t)
  BY PlaceTypes, ThreadFacts DEF RunningInv
<1>2. CASE t = Main
  <2>1. CASE Discover
    <3>1. pc'[t] = "add" /\ adding' /\ flow'[t] = 1
      BY <1>1, <1>2, <2>1, ThreadFacts DEF Discover, threadVars, PlaceInv, Exchanging
    <3>2. \A k \in Flows : ~(k < 1)
      BY ThreadFacts
    <3> QED BY <3>1, <3>2 DEF AloneInv, Before, Present, After, Between, Exchanging
  <2>2. CASE AddOwnRules
    <3>1. /\ pc[t] = "add" /\ pc'[t] = "open" /\ UNCHANGED <<adding, flow, session, begun, queue, down, rules>>
          /\ adding
      BY <1>1, <1>2, <2>2, ThreadFacts DEF AddOwnRules, threadVars, PhaseInv
    <3>2. ASSUME Alone(t)' PROVE Before(t)'
      BY <1>1, <3>1, <3>2 DEF AloneInv, Alone, Before, Through, Settled, Adds
    <3> QED BY <3>1, <3>2 DEF AloneInv, Present, After, Between, Exchanging
  <2>3. CASE NextExperiment
    <3>1. pc'[t] = "discover"
      BY <1>1, <1>2, <2>3, ThreadFacts DEF NextExperiment
    <3> QED BY <3>1, AloneIdle DEF Between, Exchanging
  <2>4. CASE Teardown
    <3>1. pc'[t] = "close" /\ begun' # {}
      BY <1>1, <1>2, <2>4, ThreadFacts DEF Teardown
    <3> QED BY <3>1, AloneIdle DEF Between, Exchanging
  <2>5. CASE ~(Discover \/ AddOwnRules \/ NextExperiment \/ Teardown)
    <3>1. /\ UNCHANGED <<adding, session, begun, queue, down>>
          /\ pc[Main] # "discover"
      BY <1>1, <2>5 DEF MainSetup, Application, StartMonitoring, ConnectReceiver, ApplicationDies,
         StartDarHandler, RegisterHandler, BeginConnectionClock, SetupReturns, SendHello, ReceiveEcho
    <3>2. pc'[t] \notin Exchanging \cup {"add", "own", "final", "exit"}
      BY <1>1, <1>2, <2>5, ThreadFacts DEF MainSetup, Application, StartMonitoring, ConnectReceiver,
         ApplicationDies, StartDarHandler, RegisterHandler, BeginConnectionClock, SetupReturns, SendHello,
         ReceiveEcho, Exchanging
    <3>3. Between(t)'
      <4>1. begun = {} /\ t = Main => Alone(t)
        BY DEF Alone
      <4> QED BY <1>1, <1>2, <3>1, <4>1 DEF AloneInv, Between, Settled
    <3> QED BY <3>2, <3>3, AloneIdle
  <2> QED BY <2>1, <2>2, <2>3, <2>4, <2>5
<1>3. CASE t \in Dars
  <2>0. t # Main /\ ~(t = Main)
    BY <1>3, ThreadFacts
  <2>1. SUFFICES ASSUME Alone(t)' PROVE AloneInv(t)'
    BY DEF AloneInv
  <2>2. CASE pc'[t] \notin Cleaning
    BY <2>0, <2>2, AloneIdle, <1>1, PlaceMain DEF Between, Cleaning, Exchanging, PlaceInv, Connecting
  <2>3. CASE pc'[t] \in Cleaning
    <3>1. pc[t] = pc'[t]
      BY <1>1, <2>0, <2>3 DEF MainSetup, Application, Discover, StartMonitoring, ConnectReceiver,
         ApplicationDies, AddOwnRules, StartDarHandler, RegisterHandler, BeginConnectionClock, SetupReturns,
         NextExperiment, SendHello, ReceiveEcho, Teardown, Cleaning, Exchanging
    <3>2. CASE NextExperiment
      <4>1. t = session + 1
        BY <2>0, <2>1, <3>2 DEF Alone, NextExperiment
      <4>2. t > session
        BY <1>1, <4>1, ThreadFacts
      <4> QED BY <1>1, <2>3, <3>1, <4>2 DEF PlaceInv, Cleaning, Exchanging
    <3>3. CASE ~NextExperiment
      <4>1. UNCHANGED session /\ begun \subseteq begun'
        BY <3>3 DEF MainSetup, Application, Discover, StartMonitoring, ConnectReceiver,
         ApplicationDies, AddOwnRules, StartDarHandler, RegisterHandler, BeginConnectionClock, SetupReturns,
         SendHello, ReceiveEcho, Teardown
      <4>2. Alone(t)
        BY <2>1, <4>1 DEF Alone
      <4>3. ~adding /\ pc[Main] \notin Early /\ pc[Main] # "pause"
        BY <2>0, <2>3, <3>1, <4>2, Lonely, ThreadFacts
      <4>4. ~Teardown
        BY <2>0, <2>1 DEF Alone, Teardown
      <4>5. \/ RegisterHandler \/ BeginConnectionClock \/ ConnectReceiver \/ SetupReturns
            \/ SendHello \/ ReceiveEcho
        BY <3>3, <4>3, <4>4 DEF MainSetup, Application, Discover, AddOwnRules, StartMonitoring,
            StartDarHandler, ApplicationDies, Early
      <4>6. fds[myfd[t]] # Free => fds'[myfd'[t]] = fds[myfd[t]] /\ on'[t] = on[t]
        <5>1. CASE ConnectReceiver
          <6>1. PICK f \in Fds : /\ fds[f] = Free /\ fds' = [fds EXCEPT ![f] = File("receiver", session)]
                                 /\ myfd' = [myfd EXCEPT ![Main] = f] /\ on' = on
            BY <5>1 DEF ConnectReceiver, Socket
          <6>2. myfd'[t] = myfd[t] /\ myfd[t] \in Fds
            BY <2>0, <6>1 DEF TypeOK
          <6> QED BY <6>1, <6>2 DEF TypeOK
        <5>2. CASE ~ConnectReceiver
          BY <2>0, <4>5, <5>2 DEF RegisterHandler, BeginConnectionClock, SetupReturns, SendHello, ReceiveEcho,
             kernelVars, threadVars, TypeOK
        <5> QED BY <5>1, <5>2
      <4>7. Holds(t) => fds[myfd[t]] # Free
        <5>1. pc[t] \in Exchanging => Conn(t) \in Conns
          BY ConnIs
        <5> QED BY FileFacts DEF Holds, Overlay, Free, File
      <4>8. Undisturbed(t)
        <5>1. /\ UNCHANGED <<adding, session, begun, networkVars, own, flow, leg, count>>
          BY <4>5 DEF RegisterHandler, BeginConnectionClock, ConnectReceiver, SetupReturns, SendHello,
               ReceiveEcho, threadVars, alertVars
        <5>2. Pass(t)' = Pass(t)
          BY <5>1, <2>0 DEF Pass
        <5>3. pc[t] \in Exchanging \ {"open"} => Holds(t)
          BY <1>1, <4>2 DEF AloneInv, Present
        <5> QED BY <3>1, <4>2, <4>6, <4>7, <5>1, <5>2, <5>3 DEF Undisturbed
      <4> QED BY <1>1, <4>8, AloneFrame
    <3> QED BY <3>2, <3>3
  <2> QED BY <2>2, <2>3
<1> QED BY <1>2, <1>3, ThreadFacts

\* The steps of a DAR thread's loop.
LEMMA AloneDar ==
    ASSUME TypeOK, RunningInv, NEW u \in Dars, DarLoop(u), fate' = "running", NEW t \in Threads
    PROVE  AloneInv(t)'
<1> USE DEF At, Goto, Ends
<1>1. /\ DOMAIN pc = Threads /\ DOMAIN on = Threads /\ DOMAIN count = Dars /\ u \in Threads /\ u # Main
      /\ AloneInv(t)
  BY PlaceTypes, ThreadFacts DEF RunningInv, TypeOK
<1>2. CASE t = u
  <2>1. pc'[t] \in {"reading", "ended", "raise", "read", "close"}
    BY <1>1, <1>2 DEF DarLoop, EnterRead, ReadAlert, ReadStray, RaiseSignal
  <2> QED BY <1>1, <1>2, <2>1, AloneIdle DEF Between, Exchanging
<1>3. CASE t # u
  <2>1. /\ UNCHANGED <<adding, session, networkVars, own, fds, flow, leg, myfd>> /\ begun \subseteq begun'
        /\ pc'[t] = pc[t] /\ on'[t] = on[t]
    BY <1>1, <1>3 DEF DarLoop, EnterRead, ReadAlert, ReadStray, RaiseSignal, kernelVars, threadVars,
                      networkVars, historyVars
  <2>2. t # Main => count'[t] = count[t]
    <3>1. t # Main => t \in Dars
      BY ThreadFacts
    <3>2. count' = count \/ count' = [count EXCEPT ![u] = @ + 1]
      BY DEF DarLoop, EnterRead, ReadAlert, ReadStray, RaiseSignal, alertVars
    <3> QED BY <1>1, <1>3, <3>1, <3>2
  <2>3. Pass(t)' = Pass(t)
    BY <2>1, <2>2 DEF Pass
  <2>4. Undisturbed(t)
    BY <2>1, <2>3 DEF Undisturbed, Alone
  <2> QED BY <1>1, <2>4, AloneFrame
<1> QED BY <1>2, <1>3

\* A teardown on another thread.
LEMMA AloneOther ==
    ASSUME TypeOK, RunningInv, NEW u \in Threads, TeardownStep(u), fate' = "running",
           NEW t \in Threads, u # t
    PROVE  AloneInv(t)'
<1> USE DEF At, Goto, Ends
<1>1. DOMAIN pc = Threads /\ PlaceInv(t)
  BY PlaceTypes DEF RunningInv
<1>2. pc[u] \in Cleaning /\ pc'[t] = pc[t] /\ UNCHANGED <<session, begun>>
  BY <1>1 DEF TeardownStep, CloseReceiver, EndClock, UseAfterFree, StopMonitoring, OpenOverlay, SendSpec,
              EnterRecv, LeaveRecv, CloseOverlay, RemoveOwnRules, CloseLog, Exit, AfterRecv, historyVars,
              Cleaning, Exchanging
<1>3. CASE t # Main /\ pc[t] \notin Cleaning
  <2>1. pc[t] \notin Connecting
    BY <1>1, <1>3 DEF PlaceInv
  <2> QED BY <1>2, <1>3, <2>1, AloneIdle DEF Between, Cleaning, Exchanging, Connecting
<1>4. CASE t = Main \/ pc[t] \in Cleaning
  <2>1. ASSUME Alone(t)' PROVE FALSE
    BY <1>2, <1>4, <2>1, Lonely DEF Alone
  <2> QED BY <2>1 DEF AloneInv
<1> QED BY <1>3, <1>4

\* What the thread knows of its connection while it uses it.
LEMMA PresentFacts ==
    ASSUME TypeOK, RunningInv, NEW t \in Threads, Alone(t), pc[t] \in Exchanging \ {"open"}
    PROVE  /\ Holds(t) /\ (Proceeds(t) \/ Fails(t)) /\ Before(t)
           /\ Conn(t) \in Conns /\ Conn(t)[3] = flow[t] /\ flow[t] \in Flows
           /\ Overlay(Conn(t)).kind = "ov" /\ Overlay(Conn(t)).id = Conn(t)
           /\ acks[Conn(t)] \in 0 .. 2
           /\ ~(begun = {} /\ t = Main /\ ~adding)
<1>1. Holds(t) /\ (Proceeds(t) \/ Fails(t)) /\ Before(t)
  BY DEF RunningInv, AloneInv, Present
<1>2. Conn(t) \in Conns /\ Conn(t)[3] = flow[t] /\ flow[t] \in Flows
  BY ConnIs
<1>3. ~(begun = {} /\ t = Main /\ ~adding)
  BY DEF RunningInv, PhaseInv, Cleaning
<1> QED BY <1>1, <1>2, <1>3, FileFacts DEF TypeOK

\* Steps within an exchange keep the flow, the connection and those before it.
LEMMA Within ==
    ASSUME TypeOK, RunningInv, NEW t \in Threads, Alone(t), pc[t] \in Exchanging \ {"open"},
           pc'[t] \in Exchanging \ {"open"},
           UNCHANGED <<flow, adding, session, count, begun, queue, down, rules>>
    PROVE  /\ Conn(t)' = Conn(t) /\ Adds(t)' = Adds(t) /\ flow'[t] = flow[t]
           /\ Last(t)' = Last(t) /\ Through(t, flow[t])' = Through(t, flow[t])
           /\ Holds(t)' /\ (Proceeds(t) \/ Fails(t))' => AloneInv(t)'
<1>1. Conn(t)' = Conn(t) /\ Adds(t)' = Adds(t) /\ flow'[t] = flow[t]
  BY DEF Conn, Adds, Pass
<1>2. Last(t)' = Last(t) /\ Through(t, flow[t])' = Through(t, flow[t])
  BY <1>1 DEF Last, Through, Settled
<1>3. \A k \in Flows : Through(t, k)' = Through(t, k)
  BY <1>1 DEF Through, Settled
<1>4. Before(t)'
  BY <1>1, <1>3, PresentFacts DEF Before
<1>5. After(t)' /\ Between(t)'
  BY PresentFacts DEF After, Between, Exchanging
<1> QED BY <1>1, <1>2, <1>4, <1>5 DEF AloneInv, Present

\* setup_overlay_node, on the thread that is alone.
LEMMA AloneOpen ==
    ASSUME TypeOK, RunningInv, NetInv, NEW t \in Threads, OpenOverlay(t) PROVE AloneInv(t)'
<1> SUFFICES ASSUME Alone(t)' PROVE (Before(t) /\ Present(t) /\ After(t) /\ Between(t))'
  BY DEF AloneInv
<1>1. /\ pc[t] = "open" /\ pc'[t] = "send" /\ leg'[t] = "fwd" /\ queue \in [Flows -> Seq(Conns)]
      /\ UNCHANGED <<flow, adding, session, count, begun, inq, acks, stage, down, rules>>
  BY DEF OpenOverlay, Goto, At, TypeOK, alertVars, historyVars
<1>2. Conn(t)' = Conn(t) /\ Adds(t)' = Adds(t) /\ flow'[t] = flow[t]
  BY <1>1 DEF Conn, Adds, Pass
<1>3. /\ net[Conn(t)] = "none" /\ inq[Conn(t)] = <<>> /\ stage[Conn(t)] = 0 /\ acks[Conn(t)] = 0
      /\ Conn(t) \in Conns /\ flow[t] \in Flows
  BY OpensFresh
<1>4. /\ net' = [net EXCEPT ![Conn(t)] = IF flow[t] \in down THEN "broken" ELSE "ok"]
      /\ queue' = IF flow[t] \in down THEN queue
                  ELSE [queue EXCEPT ![flow[t]] = Append(@, Conn(t))]
      /\ fds'[myfd'[t]] = Overlay(Conn(t))
  BY DEF OpenOverlay, Conn, Socket, TypeOK
<1>5. Before(t)'
  <2>1. Before(t)
    BY <1>1 DEF RunningInv, AloneInv, Alone
  <2>2. \A k \in Flows : k < flow[t] => Through(t, k)' = Through(t, k)
    <3> SUFFICES ASSUME NEW k \in Flows, k < flow[t] PROVE Through(t, k)' = Through(t, k)
      OBVIOUS
    <3>1. k # flow[t]
      BY FlowNat, <1>3
    <3>2. queue'[k] = queue[k]
      BY <1>4, <3>1
    <3> QED BY <1>1, <1>2, <3>2 DEF Through, Settled
  <2> QED BY <1>1, <1>2, <2>1, <2>2 DEF Before, Exchanging
<1>6. Present(t)'
  <2>1. Holds(t)'
    BY <1>1, <1>2, <1>4 DEF Holds
  <2>2. CASE flow[t] \in down
    <3>1. net'[Conn(t)] = "broken"
      BY <1>3, <1>4, <2>2 DEF TypeOK
    <3>2. Fails(t)'
      BY <1>1, <1>2, <1>3, <3>1 DEF Fails
    <3> QED BY <2>1, <3>2 DEF Present
  <2>3. CASE flow[t] \notin down
    <3>1. net'[Conn(t)] = "ok" /\ queue'[flow[t]] = Append(queue[flow[t]], Conn(t))
      BY <1>1, <1>3, <1>4, <2>3 DEF TypeOK
    <3>2. Last(t)'
      <4>1. PICK q \in Seq(Conns) : q = queue[flow[t]]
        BY <1>1, <1>3
      <4>2. PICK o \in Conns : o = Conn(t)
        BY <1>3
      <4>3. Append(q, o) # <<>> /\ Append(q, o)[Len(Append(q, o))] = o
        OBVIOUS
      <4> QED BY <1>2, <3>1, <4>1, <4>2, <4>3 DEF Last
    <3>3. Queued(t)' /\ Specs(t)' = <<>>
      BY <1>1, <1>2, <1>3, <3>2 DEF Queued, Specs
    <3>4. Proceeds(t)'
      BY <1>1, <1>2, <3>1, <3>3 DEF Proceeds
    <3> QED BY <2>1, <3>4 DEF Present
  <2> QED BY <2>2, <2>3
<1>7. After(t)' /\ Between(t)'
  <2>1. ~(begun = {} /\ t = Main /\ ~adding)
    BY <1>1 DEF RunningInv, PhaseInv, Cleaning, Exchanging
  <2> QED BY <1>1, <2>1 DEF After, Between
<1> QED BY <1>5, <1>6, <1>7

\* send(), on the thread that is alone: the second one over a dead connection ends the process.
LEMMA AloneSend ==
    ASSUME TypeOK, RunningInv, NEW t \in Threads, Alone(t), SendSpec(t), fate' = "running"
    PROVE  AloneInv(t)'
<1>1. /\ pc[t] = "send" /\ pc'[t] = "recv" /\ leg' = leg
      /\ UNCHANGED <<flow, adding, session, count, begun, queue, down, rules, acks, stage, fds, myfd>>
  BY PlaceTypes DEF SendSpec, At, Goto, Ends, threadVars, alertVars, historyVars, kernelVars
<1>2. pc[t] \in Exchanging \ {"open"} /\ pc'[t] \in Exchanging \ {"open"}
  BY <1>1 DEF Exchanging
<1>3. /\ Holds(t) /\ (Proceeds(t) \/ Fails(t)) /\ Conn(t) \in Conns
      /\ Overlay(Conn(t)).kind = "ov" /\ Overlay(Conn(t)).id = Conn(t)
  BY <1>2, PresentFacts
<1>4. /\ Conn(t)' = Conn(t) /\ Adds(t)' = Adds(t) /\ flow'[t] = flow[t]
      /\ Last(t)' = Last(t) /\ Through(t, flow[t])' = Through(t, flow[t])
      /\ Holds(t)' /\ (Proceeds(t) \/ Fails(t))' => AloneInv(t)'
  BY <1>1, <1>2, Within
<1>5. Holds(t)'
  BY <1>1, <1>3, <1>4 DEF Holds
<1>6. Queued(t)' = Queued(t) /\ Begun1(t)' = Begun1(t) /\ Spec3(t)' = Spec3(t)
  BY <1>1, <1>4 DEF Queued, Begun1, Spec3
<1>7. fds[myfd[t]] = Overlay(Conn(t))
  BY <1>3 DEF Holds
<1>8. CASE Proceeds(t)
  <2>1. net[Conn(t)] = "ok"
    BY <1>8 DEF Proceeds
  <2>2. inq' = [inq EXCEPT ![Conn(t)] = Append(@, Spec3(t))] /\ net' = net
    BY <1>3, <1>7, <2>1 DEF SendSpec, Spec3, Adds
  <2>3. Specs(t) = <<>>
    BY <1>1, <1>8 DEF Proceeds
  <2>4. inq'[Conn(t)] = Append(<<>>, Spec3(t))
    BY <1>3, <2>2, <2>3 DEF Specs, TypeOK
  <2>5. Append(<<>>, Spec3(t)) = <<Spec3(t)>>
    OBVIOUS
  <2>6. Specs(t)' = <<Spec3(t)>>
    BY <1>4, <2>4, <2>5 DEF Specs
  <2>7. Proceeds(t)'
    <3>1. CASE leg[t] = "fwd"
      <4>1. Queued(t)
        BY <1>1, <1>8, <3>1 DEF Proceeds
      <4> QED BY <1>1, <1>4, <1>6, <2>1, <2>2, <2>6, <3>1, <4>1 DEF Proceeds
    <3>2. CASE leg[t] = "dar"
      <4>1. Begun1(t) /\ acks[Conn(t)] = 0
        BY <1>1, <1>8, <3>2 DEF Proceeds
      <4> QED BY <1>1, <1>4, <1>6, <2>1, <2>2, <2>6, <3>2, <4>1 DEF Proceeds
    <3> QED BY <3>1, <3>2 DEF TypeOK
  <2> QED BY <1>4, <1>5, <2>7
<1>9. CASE Fails(t)
  <2>1. net[Conn(t)] = "rst"
    BY <1>3, <1>7, <1>9 DEF Fails, SendSpec, Ends
  <2>2. leg[t] = "fwd"
    BY <1>9, <2>1 DEF Fails
  <2>3. net' = [net EXCEPT ![Conn(t)] = "broken"]
    BY <1>3, <1>7, <2>1 DEF SendSpec
  <2>4. net'[Conn(t)] = "broken"
    BY <1>3, <2>3 DEF TypeOK
  <2>5. Fails(t)'
    BY <1>1, <1>4, <1>9, <2>2, <2>4 DEF Fails
  <2> QED BY <1>4, <1>5, <2>5
<1> QED BY <1>3, <1>8, <1>9

\* recv() blocks.
LEMMA AloneEnter ==
    ASSUME TypeOK, RunningInv, NEW t \in Threads, Alone(t), EnterRecv(t) PROVE AloneInv(t)'
<1>0. pc[t] = "recv" /\ pc[t] \in Exchanging \ {"open"}
  BY DEF EnterRecv, At, Exchanging
<1>1. /\ Holds(t) /\ (Proceeds(t) \/ Fails(t)) /\ Conn(t) \in Conns
      /\ Overlay(Conn(t)).kind = "ov" /\ Overlay(Conn(t)).id = Conn(t)
  BY <1>0, PresentFacts
<1>2. fds[myfd[t]] = Overlay(Conn(t))
  BY <1>1 DEF Holds
<1>3. /\ pc'[t] = "wait" /\ leg' = leg /\ on'[t] = Overlay(Conn(t))
      /\ UNCHANGED <<flow, adding, session, count, begun, inq, net, queue, down, rules, acks, stage, fds, myfd>>
  BY <1>1, <1>2 DEF EnterRecv, Goto, TypeOK, alertVars, historyVars, networkVars
<1>4. /\ Conn(t)' = Conn(t) /\ Adds(t)' = Adds(t) /\ flow'[t] = flow[t]
      /\ Last(t)' = Last(t) /\ Through(t, flow[t])' = Through(t, flow[t])
      /\ Holds(t)' /\ (Proceeds(t) \/ Fails(t))' => AloneInv(t)'
  <2>1. pc'[t] \in Exchanging \ {"open"}
    BY <1>3 DEF Exchanging
  <2> QED BY <1>0, <1>3, <2>1, Within
<1>5. Holds(t)'
  BY <1>2, <1>3, <1>4 DEF Holds
<1>6. /\ Queued(t)' = Queued(t) /\ Begun1(t)' = Begun1(t) /\ Spec3(t)' = Spec3(t)
      /\ Specs(t)' = Specs(t)
  BY <1>3, <1>4 DEF Queued, Begun1, Spec3, Specs
<1>7. Proceeds(t) => Proceeds(t)'
  BY <1>0, <1>3, <1>4, <1>6 DEF Proceeds
<1>8. Fails(t) => Fails(t)'
  BY <1>0, <1>3, <1>4 DEF Fails
<1> QED BY <1>1, <1>4, <1>5, <1>7, <1>8

\* recv() returns: the second echo means that the node has applied the first spec.
LEMMA AloneLeave ==
    ASSUME TypeOK, RunningInv, NEW t \in Threads, Alone(t), LeaveRecv(t) PROVE AloneInv(t)'
<1>0. pc[t] = "wait" /\ pc[t] \in Exchanging \ {"open"}
  BY DEF LeaveRecv, At, Exchanging
<1>1. /\ Holds(t) /\ (Proceeds(t) \/ Fails(t)) /\ Conn(t) \in Conns /\ acks[Conn(t)] \in 0 .. 2
      /\ Overlay(Conn(t)).kind = "ov" /\ Overlay(Conn(t)).id = Conn(t)
  BY <1>0, PresentFacts
<1>2. on[t] = Overlay(Conn(t)) /\ fds[myfd[t]] = Overlay(Conn(t))
  BY <1>0, <1>1 DEF Holds
<1>3. /\ pc'[t] = (IF leg[t] = "fwd" THEN "send" ELSE "closeOv") /\ leg'[t] = "dar"
      /\ UNCHANGED <<flow, adding, session, count, begun, inq, queue, down, rules, stage, fds, myfd>>
  BY DEF LeaveRecv, AfterRecv, Goto, TypeOK, historyVars
<1>4. /\ acks[Conn(t)] > 0 \/ net[Conn(t)] # "ok"
      /\ acks'[Conn(t)] = IF acks[Conn(t)] > 0 THEN acks[Conn(t)] - 1 ELSE acks[Conn(t)]
      /\ net'[Conn(t)] = IF acks[Conn(t)] = 0 THEN "broken" ELSE net[Conn(t)]
  BY <1>1, <1>2 DEF LeaveRecv, TypeOK
<1>5. /\ Conn(t)' = Conn(t) /\ Adds(t)' = Adds(t) /\ flow'[t] = flow[t]
      /\ Last(t)' = Last(t) /\ Through(t, flow[t])' = Through(t, flow[t])
      /\ Holds(t)' /\ (Proceeds(t) \/ Fails(t))' => AloneInv(t)'
  <2>1. pc'[t] \in Exchanging \ {"open"}
    BY <1>3 DEF Exchanging
  <2> QED BY <1>0, <1>3, <2>1, Within
<1>6. Holds(t)'
  BY <1>2, <1>3, <1>5 DEF Holds
<1>7. Begun1(t)' = Begun1(t) /\ Specs(t)' = Specs(t)
  BY <1>3, <1>5 DEF Begun1, Specs
<1>8. CASE Proceeds(t)
  <2>1. acks[Conn(t)] > 0 /\ net'[Conn(t)] = "ok"
    BY <1>1, <1>4, <1>8 DEF Proceeds
  <2>2. CASE leg[t] = "fwd"
    <3>1. Begun1(t) /\ Specs(t) = <<>> /\ acks[Conn(t)] = 1
      BY <1>0, <1>8, <2>1, <2>2 DEF Proceeds, Queued
    <3>2. Proceeds(t)'
      BY <1>3, <1>4, <1>5, <1>7, <2>1, <2>2, <3>1 DEF Proceeds
    <3> QED BY <1>5, <1>6, <3>2
  <2>3. CASE leg[t] = "dar"
    <3>1. Through(t, flow[t])
      BY <1>0, <1>8, <2>1, <2>3 DEF Proceeds
    <3>2. Proceeds(t)'
      BY <1>3, <1>5, <2>1, <2>3, <3>1 DEF Proceeds
    <3> QED BY <1>5, <1>6, <3>2
  <2> QED BY <2>2, <2>3 DEF TypeOK
<1>9. CASE Fails(t)
  <2>1. Fails(t)'
    BY <1>0, <1>3, <1>4, <1>5, <1>9 DEF Fails
  <2> QED BY <1>5, <1>6, <2>1
<1> QED BY <1>1, <1>8, <1>9

\* The flow is done with.
LEMMA AloneClose ==
    ASSUME TypeOK, RunningInv, NEW t \in Threads, Alone(t), CloseOverlay(t) PROVE AloneInv(t)'
<1>0. pc[t] = "closeOv" /\ pc[t] \in Exchanging \ {"open"}
  BY DEF CloseOverlay, At, Exchanging
<1>1. /\ Proceeds(t) \/ Fails(t)
      /\ Before(t) /\ flow[t] \in Flows /\ ~(begun = {} /\ t = Main /\ ~adding)
  BY <1>0, PresentFacts
<1>2. Through(t, flow[t])
  BY <1>0, <1>1 DEF Proceeds, Fails
<1>3. \A k \in Flows : k <= flow[t] => Through(t, k)
  <2> SUFFICES ASSUME NEW k \in Flows, k <= flow[t] PROVE Through(t, k)
    OBVIOUS
  <2>1. k < flow[t] \/ k = flow[t]
    BY <1>1, FlowNat
  <2> QED BY <1>0, <1>1, <1>2, <2>1 DEF Before
<1>4. /\ flow'[t] = (IF flow[t] = NumFlows THEN 1 ELSE flow[t] + 1)
      /\ pc'[t] = (IF Adds(t) THEN IF flow[t] = NumFlows THEN "monitor" ELSE "add"
                             ELSE IF flow[t] = NumFlows THEN "own" ELSE "open")
      /\ adding' = (IF t = Main THEN adding /\ flow[t] # NumFlows ELSE adding)
      /\ UNCHANGED <<session, begun, queue, down, rules, own>>
  BY DEF CloseOverlay, TypeOK, Adds, networkVars, historyVars
<1>5. \A k \in Flows : k <= NumFlows /\ k \in Nat /\ k >= 1
  BY FlowNat, ThreadFacts
<1>6. CASE flow[t] # NumFlows
  <2>1. Adds(t)' = Adds(t)
    BY <1>4, <1>6 DEF Adds, TypeOK
  <2>2. \A k \in Flows : Through(t, k)' = Through(t, k)
    BY <1>4, <2>1 DEF Through, Settled
  <2>3. \A k \in Flows : k < flow[t] + 1 => k <= flow[t]
    BY <1>1, <1>5
  <2>4. Before(t)'
    BY <1>3, <1>4, <1>6, <2>2, <2>3 DEF Before
  <2>5. pc'[t] \in {"add", "open"} /\ ~(begun' = {} /\ t = Main /\ ~adding')
    BY <1>1, <1>4, <1>6 DEF Adds
  <2> QED BY <2>4, <2>5 DEF AloneInv, Present, After, Between, Exchanging
<1>7. CASE flow[t] = NumFlows /\ Adds(t)
  <2>1. \A k \in Flows : Settled(k)'
    BY <1>3, <1>4, <1>5, <1>7 DEF Through, Settled
  <2> QED BY <1>4, <1>7, <2>1, AloneIdle DEF Between, Exchanging
<1>8. CASE flow[t] = NumFlows /\ ~Adds(t)
  <2>1. ~Adds(t)'
    BY <1>4, <1>8 DEF Adds
  <2>2. \A k \in Flows : Through(t, k)'
    BY <1>3, <1>4, <1>5, <1>8, <2>1 DEF Through, Settled
  <2>3. pc'[t] = "own" /\ flow'[t] = 1 /\ \A k \in Flows : ~(k < 1)
    BY <1>4, <1>5, <1>8
  <2>4. After(t)'
    BY <2>2, <2>3 DEF After
  <2>5. ~(begun' = {} /\ t = Main /\ ~adding')
    BY <1>1, <1>4, <1>8 DEF Adds
  <2> QED BY <2>3, <2>4, <2>5 DEF AloneInv, Before, Present, Between, Exchanging
<1> QED BY <1>6, <1>7, <1>8

\* The last loop of clean_rules.
LEMMA AloneRemoves ==
    ASSUME TypeOK, RunningInv, NEW t \in Threads, Alone(t), RemoveOwnRules(t) PROVE AloneInv(t)'
<1>1. /\ pc[t] = "own" /\ flow[t] \in Flows
      /\ flow'[t] = (IF flow[t] = NumFlows THEN 1 ELSE flow[t] + 1)
      /\ pc'[t] = (IF flow[t] = NumFlows THEN "final" ELSE "own") /\ own' = own \ {flow[t]}
      /\ UNCHANGED <<adding, session, begun, queue, down, rules>>
  BY DEF RemoveOwnRules, At, Goto, TypeOK, networkVars, historyVars
<1>2. \A k \in Flows : Through(t, k) /\ (k < flow[t] => k \notin own)
  BY <1>1 DEF RunningInv, AloneInv, After
<1>3. \A k \in Flows : Through(t, k)'
  BY <1>1, <1>2 DEF Through, Settled, Adds
<1>4. \A k \in Flows : k <= flow[t] => k \notin own'
  <2> SUFFICES ASSUME NEW k \in Flows, k <= flow[t] PROVE k \notin own'
    OBVIOUS
  <2>1. k < flow[t] \/ k = flow[t]
    BY <1>1, FlowNat
  <2> QED BY <1>1, <1>2, <2>1
<1>5. \A k \in Flows : k <= NumFlows /\ k \in Nat
  BY FlowNat, ThreadFacts
<1>6. After(t)'
  <2>1. CASE flow[t] = NumFlows
    BY <1>1, <1>3, <1>4, <1>5, <2>1 DEF After
  <2>2. CASE flow[t] # NumFlows
    <3>1. \A k \in Flows : k < flow[t] + 1 => k <= flow[t]
      BY <1>1, <1>5
    <3> QED BY <1>1, <1>3, <1>4, <2>2, <3>1 DEF After
  <2> QED BY <2>1, <2>2
<1>7. Between(t)'
  <2>1. t = Main => Main \in begun
    BY <1>1 DEF RunningInv, PhaseInv, Cleaning, Exchanging
  <2> QED BY <1>1, <2>1 DEF Between
<1> QED BY <1>1, <1>6, <1>7 DEF AloneInv, Before, Present, Exchanging

\* teardown_sender, on the thread that is alone.
LEMMA AloneTeardown ==
    ASSUME TypeOK, RunningInv, NetInv, NEW t \in Threads, TeardownStep(t), fate' = "running"
    PROVE  AloneInv(t)'
<1> USE DEF At, Goto, Ends, historyVars, networkVars
<1>1. SUFFICES ASSUME Alone(t)' PROVE AloneInv(t)'
  BY DEF AloneInv
<1>2. Alone(t) /\ UNCHANGED <<session, begun>>
  BY <1>1 DEF Alone, TeardownStep, CloseReceiver, EndClock, UseAfterFree, StopMonitoring, OpenOverlay,
      SendSpec, EnterRecv, LeaveRecv, CloseOverlay, RemoveOwnRules, CloseLog, Exit, AfterRecv
<1>3. DOMAIN pc = Threads /\ DOMAIN flow = Threads /\ PlaceInv(t) /\ AloneInv(t)
  BY PlaceTypes DEF RunningInv, TypeOK
<1>4. CASE OpenOverlay(t)
  BY <1>4, AloneOpen
<1>5. CASE SendSpec(t)
  BY <1>2, <1>5, AloneSend
<1>6. CASE EnterRecv(t)
  BY <1>2, <1>6, AloneEnter
<1>7. CASE LeaveRecv(t)
  BY <1>2, <1>7, AloneLeave
<1>8. CASE CloseOverlay(t)
  BY <1>2, <1>8, AloneClose
<1>9. CASE RemoveOwnRules(t)
  BY <1>2, <1>9, AloneRemoves
<1>10. CASE \/ CloseReceiver(t) \/ EndClock(t) \/ UseAfterFree(t) \/ StopMonitoring(t)
            \/ CloseLog(t) \/ Exit(t)
  <2>1. /\ UNCHANGED <<adding, queue, down, rules, own>>
        /\ pc[t] \in {"close", "clock", "stop", "final", "exit"}
    BY <1>10 DEF CloseReceiver, EndClock, UseAfterFree, StopMonitoring, CloseLog, Exit
  <2>2. Between(t)'
    <3>1. t = Main => Main \in begun
      BY <2>1 DEF RunningInv, PhaseInv, Cleaning, Exchanging
    <3> QED BY <1>2, <3>1 DEF Between
  <2>3. CASE StopMonitoring(t)
    <3>1. pc'[t] = "open" /\ flow'[t] = 1 /\ \A k \in Flows : ~(k < 1)
      BY <1>3, <2>3, ThreadFacts DEF StopMonitoring
    <3> QED BY <2>2, <3>1 DEF AloneInv, Before, Present, After, Exchanging
  <2>4. CASE CloseLog(t)
    <3>1. pc[t] = "final" /\ pc'[t] = "exit"
      BY <1>3, <2>4 DEF CloseLog
    <3>2. After(t)'
      BY <1>2, <1>3, <2>1, <3>1 DEF AloneInv, After, Through, Settled, Adds
    <3> QED BY <2>2, <3>1, <3>2 DEF AloneInv, Before, Present, Exchanging
  <2>5. CASE CloseReceiver(t) \/ EndClock(t) \/ UseAfterFree(t) \/ Exit(t)
    <3>1. pc'[t] \in {"clock", "stop", "pause", "read"}
      BY <1>3, <2>5 DEF CloseReceiver, EndClock, UseAfterFree, Exit
    <3> QED BY <2>2, <3>1, AloneIdle DEF Exchanging
  <2> QED BY <1>10, <2>3, <2>4, <2>5
<1> QED BY <1>4, <1>5, <1>6, <1>7, <1>8, <1>9, <1>10 DEF TeardownStep

\* A node answers: if it is the thread's own, that is the progress it waits for.
LEMMA AloneAnswers ==
    ASSUME TypeOK, RunningInv, NetInv, NEW k \in Flows, NodeAnswers(k), NEW t \in Threads
    PROVE  AloneInv(t)'
<1>1. /\ UNCHANGED <<pc, flow, leg, adding, session, count, begun, fds, on, myfd, own>>
  BY DEF NodeAnswers, procVars, kernelVars, alertVars, threadVars, historyVars
<1>2. /\ Conn(t)' = Conn(t) /\ Adds(t)' = Adds(t) /\ Spec3(t)' = Spec3(t) /\ Holds(t)' = Holds(t)
      /\ Alone(t)' = Alone(t)
  BY <1>1 DEF Conn, Adds, Spec3, Pass, Holds, Alone
<1> SUFFICES ASSUME Alone(t) PROVE (Before(t) /\ Present(t) /\ After(t) /\ Between(t))'
  BY <1>2 DEF AloneInv
<1>3. Before(t) /\ Present(t) /\ After(t) /\ Between(t)
  BY DEF RunningInv, AloneInv
<1>4. PICK o : o = Head(queue[k])
  OBVIOUS
<1>5. /\ inq[o] # <<>> /\ inq[o] \in Seq({"fwd", "dar"} \X Flows \X {"A", "D"})
      /\ rules' = IF stage[o] = 1 \/ Head(inq[o])[1] # "fwd" \/ Head(inq[o])[2] # k THEN rules
                  ELSE IF Head(inq[o])[3] = "A" THEN rules \cup {k} ELSE rules \ {k}
  BY <1>4, AnswerFacts
<1>6. /\ o \in Conns /\ o[3] = k /\ net[o] = "ok" /\ k \notin down
      /\ queue[k] \in Seq(Conns) /\ queue[k] # <<>> /\ o = queue[k][1] /\ 1 \in 1 .. Len(queue[k])
      /\ stage[o] \in {0, 1} /\ acks[o] \in 0 .. 2 /\ acks[o] <= stage[o]
      /\ inq' = [inq EXCEPT ![o] = Tail(@)] /\ acks' = [acks EXCEPT ![o] = @ + 1]
      /\ stage' = [stage EXCEPT ![o] = @ + 1] /\ UNCHANGED <<net, down>>
      /\ queue' = IF stage[o] = 1 THEN [queue EXCEPT ![k] = Tail(@)] ELSE queue
  BY <1>4, AnswerFacts
<1>7. \A j \in Flows : j # k => queue'[j] = queue[j] /\ (j \in rules' <=> j \in rules)
  BY <1>5, <1>6
<1>8. \A j \in Flows : Settled(j) => Settled(j)'
  BY <1>5, <1>6, <1>7 DEF Settled
<1>9. \A j \in Flows : Through(t, j) => Through(t, j)'
  BY <1>2, <1>5, <1>6, <1>7, <1>8 DEF Through, Settled
<1>10. Before(t)' /\ After(t)' /\ Between(t)'
  BY <1>1, <1>3, <1>8, <1>9 DEF Before, After, Between
<1>11. ASSUME pc[t] \in Exchanging \ {"open"} PROVE (Proceeds(t) \/ Fails(t))'
  <2>1. /\ Proceeds(t) \/ Fails(t)
        /\ Conn(t) \in Conns /\ Conn(t)[3] = flow[t] /\ flow[t] \in Flows
    BY <1>11, PresentFacts
  <2>2. o # Conn(t) => /\ inq'[Conn(t)] = inq[Conn(t)] /\ acks'[Conn(t)] = acks[Conn(t)]
                       /\ stage'[Conn(t)] = stage[Conn(t)]
    BY <1>5, <1>6, <2>1 DEF TypeOK
  <2>3. CASE Fails(t)
    <3>1. o # Conn(t)
      BY <1>5, <1>6, <2>3 DEF Fails
    <3> QED BY <1>1, <1>2, <1>5, <1>6, <2>2, <2>3, <3>1 DEF Fails
  <2>4. CASE Proceeds(t) /\ flow[t] # k
    <3>1. o # Conn(t) /\ queue'[flow[t]] = queue[flow[t]] /\ (flow[t] \in rules' <=> flow[t] \in rules)
      BY <1>5, <1>6, <1>7, <2>1, <2>4
    <3>2. Last(t)' = Last(t) /\ Specs(t)' = Specs(t)
      BY <1>1, <1>2, <2>2, <3>1 DEF Last, Specs
    <3>3. Queued(t)' = Queued(t) /\ Begun1(t)' = Begun1(t)
      BY <1>1, <1>2, <2>2, <3>1, <3>2 DEF Queued, Begun1
    <3>4. Through(t, flow[t]) => Through(t, flow[t])'
      BY <1>1, <1>9, <2>1
    <3> QED BY <1>1, <1>2, <1>5, <1>6, <2>2, <2>4, <3>1, <3>2, <3>3, <3>4 DEF Proceeds
  <2>5. CASE Proceeds(t) /\ flow[t] = k
    <3>1. ~Through(t, flow[t]) /\ net[Conn(t)] = "ok" /\ pc[t] # "closeOv"
      BY <1>5, <1>6, <2>5 DEF Through, Settled, Proceeds
    <3>2. /\ Last(t) /\ Len(queue[k]) \in Nat /\ QueueInv(k) /\ Len(queue[k]) >= 1
          /\ queue[k][Len(queue[k])] = Conn(t)
      <4>1. Last(t) /\ QueueInv(k)
        BY <2>5, <3>1 DEF Proceeds, Queued, Begun1, NetInv
      <4>2. Len(queue[k]) \in Nat /\ Len(queue[k]) >= 1
        BY <1>6
      <4> QED BY <2>5, <4>1, <4>2 DEF Last
    <3>3. o = Conn(t) => Len(queue[k]) = 1
      <4>1. Len(queue[k]) \in 1 .. Len(queue[k])
        BY <3>2
      <4> QED BY <1>6, <3>2, <4>1 DEF QueueInv
    <3>4. Len(queue[k]) = 1 => o = Conn(t)
      BY <1>5, <1>6, <2>5, <3>2 DEF Last
    <3>5. CASE o # Conn(t)
      <4>1. Len(queue[k]) >= 2
        <5>1. PICK n \in Nat : n = Len(queue[k])
          BY <3>2
        <5>2. n >= 1 /\ n # 1
          BY <3>2, <3>4, <3>5, <5>1
        <5>3. n >= 2
          BY <5>2
        <5> QED BY <5>1, <5>3
      <4>2. Queued(t) /\ leg[t] = "fwd" /\ Specs(t) \in {<<>>, <<Spec3(t)>>}
        BY <2>5, <3>1, <3>4, <3>5 DEF Proceeds, Begun1
      <4>3. Last(t)'
        <5>1. CASE stage[o] = 1
          <6>1. PICK q \in Seq(Conns) : q = queue[k]
            BY <1>5, <1>6
          <6>2. queue'[k] = Tail(q)
            BY <1>5, <1>6, <5>1, <6>1 DEF TypeOK
          <6>3. Len(q) >= 2 /\ Len(q) \in Nat /\ q # <<>>
            BY <1>5, <1>6, <3>2, <4>1, <6>1
          <6>4. Len(Tail(q)) = Len(q) - 1 /\ Tail(q)[Len(q) - 1] = q[Len(q)]
            BY <6>3
          <6>5. Tail(q) # <<>>
            <7>1. Len(Tail(q)) # 0
              BY <6>3, <6>4
            <7> QED BY <7>1, EmptySeq
          <6> QED BY <1>1, <1>2, <2>5, <3>2, <6>1, <6>2, <6>4, <6>5 DEF Last
        <5>2. CASE stage[o] # 1
          BY <1>1, <1>2, <1>5, <1>6, <3>2, <5>2 DEF Last
        <5> QED BY <5>1, <5>2
      <4>4. Queued(t)' /\ Specs(t)' = Specs(t)
        BY <1>2, <2>2, <3>5, <4>2, <4>3 DEF Queued, Specs
      <4>5. CASE pc[t] = "send"
        <5>1. Specs(t) = <<>>
          BY <2>5, <4>5 DEF Proceeds
        <5> QED BY <1>1, <1>2, <1>5, <1>6, <3>1, <4>2, <4>4, <4>5, <5>1 DEF Proceeds
      <4>6. CASE pc[t] # "send"
        <5>1. Specs(t) = <<Spec3(t)>>
          BY <2>5, <3>1, <3>4, <3>5, <4>2, <4>6 DEF Proceeds, Begun1
        <5> QED BY <1>1, <1>2, <1>5, <1>6, <3>1, <4>2, <4>4, <4>6, <5>1 DEF Proceeds
      <4> QED BY <4>5, <4>6
    <3>6. CASE o = Conn(t)
      <4>1. Len(queue[k]) = 1 /\ Specs(t) # <<>>
        BY <1>5, <1>6, <3>3, <3>6 DEF Specs
      <4>2. /\ Specs(t) = <<Spec3(t)>> /\ pc[t] # "send" /\ acks[Conn(t)] = 0
            /\ \/ leg[t] = "fwd" /\ Queued(t)
               \/ leg[t] = "dar" /\ Begun1(t)
        BY <2>5, <3>1, <4>1 DEF Proceeds, Queued
      <4>3. /\ Specs(t)' = Tail(<<Spec3(t)>>) /\ acks'[Conn(t)] = 1
            /\ stage'[Conn(t)] = stage[Conn(t)] + 1 /\ Head(inq[o]) = Head(<<Spec3(t)>>)
        BY <1>2, <1>5, <1>6, <2>1, <3>6, <4>2 DEF Specs, TypeOK
      <4>4. Tail(<<Spec3(t)>>) = <<>> /\ Head(<<Spec3(t)>>) = Spec3(t)
        OBVIOUS
      <4>5. CASE leg[t] = "fwd" /\ Queued(t)
        <5>1. stage[o] = 0
          BY <3>6, <4>5 DEF Queued
        <5>2. queue' = queue /\ rules' = IF Adds(t) THEN rules \cup {k} ELSE rules \ {k}
          <6>1. Spec3(t)[1] = "fwd" /\ Spec3(t)[2] = k /\ Spec3(t)[3] = IF Adds(t) THEN "A" ELSE "D"
            BY <2>5, <4>5 DEF Spec3
          <6> QED BY <1>5, <1>6, <4>3, <4>4, <5>1, <6>1
        <5>3. Begun1(t)'
          BY <1>1, <1>2, <2>5, <3>2, <3>6, <4>1, <4>3, <5>1, <5>2 DEF Begun1, Last
        <5> QED BY <1>1, <1>2, <1>5, <1>6, <3>1, <4>2, <4>3, <4>4, <4>5, <5>3 DEF Proceeds
      <4>6. CASE leg[t] = "dar" /\ Begun1(t)
        <5>1. stage[o] = 1
          BY <3>6, <4>6 DEF Begun1
        <5>2. queue'[k] = Tail(queue[k]) /\ rules' = rules
          BY <1>5, <1>6, <5>1 DEF TypeOK
        <5>3. Tail(queue[k]) = <<>>
          <6>1. PICK q \in Seq(Conns) : q = queue[k] /\ q # <<>> /\ Len(q) = 1
            BY <1>6, <4>1
          <6>2. Tail(q) \in Seq(Conns) /\ Len(Tail(q)) = 0
            BY <6>1
          <6> QED BY <6>1, <6>2, EmptySeq
        <5>4. Through(t, flow[t])'
          BY <1>1, <1>2, <1>5, <1>6, <2>5, <4>6, <5>2, <5>3 DEF Through, Settled, Begun1
        <5> QED BY <1>1, <1>2, <1>5, <1>6, <3>1, <4>2, <4>6, <5>4 DEF Proceeds
      <4> QED BY <4>2, <4>5, <4>6
    <3> QED BY <3>5, <3>6
  <2> QED BY <2>1, <2>3, <2>4, <2>5
<1>12. Present(t)'
  BY <1>1, <1>2, <1>3, <1>11 DEF Present
<1> QED BY <1>10, <1>12

\* A node dies: not of the thread's connection, which is open, and then the thread's
\* second send() ends the process.
LEMMA AloneDies ==
    ASSUME TypeOK, RunningInv, NetInv, NEW k \in Flows, NodeDies(k), NEW t \in Threads
    PROVE  AloneInv(t)'
<1>1. /\ UNCHANGED <<pc, flow, leg, adding, session, count, begun, fds, on, myfd, own, inq, acks, stage, rules>>
      /\ queue[k] # <<>> /\ queue[k] \in Seq(Conns)
      /\ down' = down \cup {k} /\ queue' = [queue EXCEPT ![k] = <<>>]
  BY DEF NodeDies, procVars, kernelVars, alertVars, threadVars, historyVars, TypeOK
<1>2. /\ Conn(t)' = Conn(t) /\ Adds(t)' = Adds(t) /\ Spec3(t)' = Spec3(t) /\ Holds(t)' = Holds(t)
      /\ Alone(t)' = Alone(t)
  BY <1>1 DEF Conn, Adds, Spec3, Pass, Holds, Alone
<1> SUFFICES ASSUME Alone(t) PROVE (Before(t) /\ Present(t) /\ After(t) /\ Between(t))'
  BY <1>2 DEF AloneInv
<1>3. Before(t) /\ Present(t) /\ After(t) /\ Between(t)
  BY DEF RunningInv, AloneInv
<1>4. \A j \in Flows : j # k => queue'[j] = queue[j] /\ (j \in down' <=> j \in down)
  BY <1>1 DEF TypeOK
<1>5. \A j \in Flows : (Settled(j) => Settled(j)') /\ (Through(t, j) => Through(t, j)')
  BY <1>1, <1>2, <1>4 DEF Settled, Through
<1>6. Before(t)' /\ After(t)' /\ Between(t)'
  BY <1>1, <1>3, <1>5 DEF Before, After, Between
<1>7. ASSUME pc[t] \in Exchanging \ {"open"} PROVE (Proceeds(t) \/ Fails(t))'
  <2>1. /\ Holds(t) /\ (Proceeds(t) \/ Fails(t))
        /\ Conn(t) \in Conns /\ Conn(t)[3] = flow[t] /\ flow[t] \in Flows
    BY <1>7, PresentFacts
  <2>2. Head(queue[k]) # Conn(t) /\ Head(queue[k]) = queue[k][1]
    <3>1. Alive(Overlay(Conn(t)))
      BY <2>1 DEF Alive, Holds, TypeOK
    <3> QED BY <1>1, <3>1 DEF NodeDies
  <2>3. DOMAIN queue[k] = 1 .. Len(queue[k]) /\ Len(queue[k]) \in Nat
    BY <1>1
  <2>4. net'[Conn(t)] = IF \E i \in 1 .. Len(queue[k]) : queue[k][i] = Conn(t) THEN "rst" ELSE net[Conn(t)]
    BY <2>1, <2>3 DEF NodeDies
  <2>5. \A i \in 1 .. Len(queue[k]) : queue[k][i][3] = k /\ net[queue[k][i]] = "ok"
    BY QueuedFacts
  <2>6. CASE Fails(t)
    <3>1. net'[Conn(t)] = net[Conn(t)]
      BY <2>4, <2>5, <2>6 DEF Fails
    <3> QED BY <1>1, <1>2, <2>6, <3>1 DEF Fails
  <2>7. CASE Proceeds(t) /\ flow[t] # k
    <3>1. net'[Conn(t)] = net[Conn(t)] /\ queue'[flow[t]] = queue[flow[t]]
      BY <1>4, <2>1, <2>4, <2>5, <2>7
    <3>2. Last(t)' = Last(t) /\ Specs(t)' = Specs(t)
      BY <1>1, <1>2, <3>1 DEF Last, Specs
    <3>3. Queued(t)' = Queued(t) /\ Begun1(t)' = Begun1(t)
      BY <1>1, <1>2, <3>1, <3>2 DEF Queued, Begun1
    <3>4. Through(t, flow[t]) => Through(t, flow[t])'
      BY <1>1, <1>5, <2>1
    <3> QED BY <1>1, <1>2, <2>7, <3>1, <3>2, <3>3, <3>4 DEF Proceeds
  <2>8. CASE Proceeds(t) /\ flow[t] = k
    <3>1. ~Through(t, flow[t]) /\ pc[t] # "closeOv"
      BY <1>1, <2>8 DEF Through, Settled, Proceeds
    <3>2. ~Begun1(t)
      BY <1>1, <2>2, <2>8 DEF Begun1, Last
    <3>3. Queued(t) /\ leg[t] = "fwd"
      BY <2>8, <3>1, <3>2 DEF Proceeds
    <3>4. net'[Conn(t)] = "rst" /\ acks[Conn(t)] = 0
      <4>1. Len(queue[k]) \in 1 .. Len(queue[k]) /\ queue[k][Len(queue[k])] = Conn(t)
        BY <1>1, <2>3, <2>8, <3>3 DEF Queued, Last
      <4> QED BY <2>4, <3>3, <4>1 DEF Queued
    <3> QED BY <1>1, <1>2, <3>1, <3>3, <3>4 DEF Fails
  <2> QED BY <2>1, <2>6, <2>7, <2>8
<1>8. Present(t)'
  BY <1>1, <1>2, <1>3, <1>7 DEF Present
<1> QED BY <1>6, <1>8

-----------------------------------------------------------------------------
(* The connection to the receiver.                                         *)

\* The main thread knows its connection's descriptor.
LEMMA WhereMain ==
    ASSUME TypeOK, RunningInv, MainSetup \/ Application, fate' = "running" PROVE WhereInv'
<1> USE ThreadFacts DEF At, Goto, Ends
<1>1. DOMAIN pc = Threads /\ WhereInv /\ session \in Dars /\ DOMAIN fds = Fds /\ DOMAIN myfd = Threads
  BY PlaceTypes DEF RunningInv, ReceiverInv, TypeOK
<1>2. CASE StartMonitoring
  <2>1. PICK f \in Fds : fds' = [fds EXCEPT ![f] = File("alerts", session)]
    BY <1>2 DEF StartMonitoring, Socket
  <2>2. Receiving = {}
    BY <1>1, <1>2 DEF WhereInv, StartMonitoring
  <2>3. Receiving' = {}
    BY <1>1, <2>1, <2>2, FileFacts DEF Receiving
  <2> QED BY <2>3 DEF WhereInv
<1>3. CASE ConnectReceiver
  <2>1. PICK f \in Fds : /\ fds' = [fds EXCEPT ![f] = File("receiver", session)]
                         /\ myfd' = [myfd EXCEPT ![Main] = f] /\ pc' = [pc EXCEPT ![Main] = "return"]
    BY <1>3 DEF ConnectReceiver, Socket
  <2>2. Receiving = {}
    BY <1>1, <1>3 DEF WhereInv, ConnectReceiver
  <2>3. \A g \in Receiving' : g = f
    BY <1>1, <2>1, <2>2 DEF Receiving
  <2> QED BY <1>1, <2>1, <2>3 DEF WhereInv
<1>4. CASE SetupReturns
  BY <1>1, <1>4 DEF SetupReturns, WhereInv, Receiving, kernelVars
<1>5. CASE SendHello \/ ReceiveEcho \/ Teardown
  BY <1>1, <1>5 DEF SendHello, ReceiveEcho, Teardown, WhereInv, Receiving, sharedVars
<1>6. CASE \/ Discover \/ AddOwnRules \/ StartDarHandler \/ RegisterHandler \/ BeginConnectionClock
           \/ NextExperiment \/ ApplicationDies
  <2>1. fds' = fds /\ pc[Main] \notin {"return", "app", "answer", "close"}
    BY <1>6 DEF Discover, AddOwnRules, StartDarHandler, RegisterHandler, BeginConnectionClock,
                NextExperiment, ApplicationDies, kernelVars
  <2> QED BY <1>1, <2>1 DEF WhereInv, Receiving
<1> QED BY <1>2, <1>3, <1>4, <1>5, <1>6 DEF MainSetup, Application

\* No step of a teardown connects to the receiver.
LEMMA ReceivingShrinks ==
    ASSUME TypeOK, RunningInv, NEW t \in Threads, TeardownStep(t), fate' = "running"
    PROVE  Receiving' \subseteq Receiving
<1> USE DEF At, Goto, Ends
<1>1. CASE OpenOverlay(t)
  <2>1. /\ Overlay(Conn(t)).kind = "ov"
        /\ \E f \in Fds : fds' = [fds EXCEPT ![f] = Overlay(Conn(t))]
    BY <1>1 DEF OpenOverlay, Conn, Socket, Overlay
  <2> QED BY <2>1 DEF Receiving, TypeOK
<1>2. CASE ~OpenOverlay(t)
  <2>1. fds' = fds \/ \E f \in Fds : fds' = [fds EXCEPT ![f] = Free]
    BY <1>2 DEF TypeOK, kernelVars, TeardownStep, CloseReceiver, EndClock, UseAfterFree, StopMonitoring,
        SendSpec, EnterRecv, LeaveRecv, CloseOverlay, RemoveOwnRules, CloseLog, Exit, Closed
  <2> QED BY <2>1, FileFacts DEF Receiving, TypeOK
<1> QED BY <1>1, <1>2

\* A teardown closes it or leaves it.
LEMMA WhereTeardown ==
    ASSUME TypeOK, RunningInv, NEW t \in Threads, TeardownStep(t), fate' = "running" PROVE WhereInv'
<1> USE DEF At, Goto, Ends
<1>1. DOMAIN pc = Threads /\ WhereInv /\ DOMAIN fds = Fds /\ DOMAIN myfd = Threads /\ Main \in Threads
  BY PlaceTypes, ThreadFacts DEF RunningInv, ReceiverInv, TypeOK
<1>2. Receiving' \subseteq Receiving
  BY ReceivingShrinks
<1>3. CASE t = Main
  <2>1. CASE CloseReceiver(t)
    <3>1. \A f \in Receiving : f = connfd
      BY <1>1, <1>3, <2>1 DEF WhereInv, CloseReceiver
    <3>2. connfd \notin Receiving'
      BY <1>1, <2>1, FileFacts DEF Receiving, CloseReceiver, Closed
    <3> QED BY <1>2, <3>1, <3>2 DEF WhereInv
  <2>2. CASE ~CloseReceiver(t)
    <3>1. pc[Main] \notin {"return", "app", "answer", "close"}
      BY <1>3, <2>2 DEF TeardownStep, EndClock, UseAfterFree, StopMonitoring, OpenOverlay, SendSpec,
          EnterRecv, LeaveRecv, CloseOverlay, RemoveOwnRules, CloseLog, Exit
    <3> QED BY <1>1, <1>2, <3>1 DEF WhereInv
  <2> QED BY <2>1, <2>2
<1>4. CASE t # Main
  <2>1. pc'[Main] = pc[Main] /\ connfd' = connfd
    BY <1>1, <1>4 DEF TeardownStep, CloseReceiver, EndClock, UseAfterFree, StopMonitoring, OpenOverlay,
          SendSpec, EnterRecv, LeaveRecv, CloseOverlay, RemoveOwnRules, CloseLog, Exit, AfterRecv, sharedVars
  <2>2. myfd'[Main] = myfd[Main]
    BY <1>1, <1>4 DEF TeardownStep, CloseReceiver, EndClock, UseAfterFree, StopMonitoring, OpenOverlay,
          SendSpec, EnterRecv, LeaveRecv, CloseOverlay, RemoveOwnRules, CloseLog, Exit, threadVars
  <2> QED BY <1>1, <1>2, <2>1, <2>2 DEF WhereInv
<1> QED BY <1>3, <1>4

\* Setup begins without a teardown, or early says so.
LEMMA EarlyMain ==
    ASSUME TypeOK, RunningInv, MainSetup \/ Application, fate' = "running" PROVE EarlyInv'
<1> USE ThreadFacts DEF At, Goto, Ends, historyVars
<1>1. DOMAIN pc = Threads /\ EarlyInv /\ PhaseInv /\ session \in Dars
  BY PlaceTypes DEF RunningInv, ReceiverInv
<1>2. CASE NextExperiment
  BY <1>1, <1>2 DEF NextExperiment, EarlyInv
<1>3. CASE SendHello \/ ReceiveEcho \/ Teardown \/ ApplicationDies
  <2>1. pc'[Main] \in {"answer", "app", "close"} /\ ~adding'
    BY <1>1, <1>3 DEF SendHello, ReceiveEcho, Teardown, ApplicationDies, PhaseInv, Exchanging
  <2> QED BY <2>1 DEF EarlyInv, Preparing, Connecting
<1>4. CASE \/ Discover \/ AddOwnRules \/ StartMonitoring \/ StartDarHandler \/ RegisterHandler
           \/ BeginConnectionClock \/ ConnectReceiver \/ SetupReturns
  <2>1. UNCHANGED <<begun, early>>
    BY <1>4 DEF Discover, AddOwnRules, StartMonitoring, StartDarHandler, RegisterHandler,
                BeginConnectionClock, ConnectReceiver, SetupReturns
  <2>2. Preparing
    BY <1>1, <1>4 DEF Discover, AddOwnRules, StartMonitoring, StartDarHandler, RegisterHandler,
                BeginConnectionClock, ConnectReceiver, SetupReturns, Preparing, Connecting
  <2> QED BY <1>1, <2>1, <2>2 DEF EarlyInv
<1> QED BY <1>2, <1>3, <1>4 DEF MainSetup, Application

\* A teardown does not lead back to setup.
LEMMA EarlyTeardown ==
    ASSUME TypeOK, RunningInv, NEW t \in Threads, TeardownStep(t), fate' = "running" PROVE EarlyInv'
<1> USE DEF At, Goto, Ends, historyVars
<1>1. DOMAIN pc = Threads /\ EarlyInv /\ PhaseInv /\ Main \in Threads /\ PlaceInv(t)
  BY PlaceTypes, ThreadFacts DEF RunningInv, ReceiverInv
<1>2. UNCHANGED <<begun, early>>
  BY DEF TeardownStep, CloseReceiver, EndClock, UseAfterFree, StopMonitoring, OpenOverlay,
          SendSpec, EnterRecv, LeaveRecv, CloseOverlay, RemoveOwnRules, CloseLog, Exit
<1>3. Preparing' => Preparing
  <2>1. CASE t # Main
    BY <1>1, <2>1 DEF TeardownStep, CloseReceiver, EndClock, UseAfterFree, StopMonitoring, OpenOverlay,
          SendSpec, EnterRecv, LeaveRecv, CloseOverlay, RemoveOwnRules, CloseLog, Exit, AfterRecv, Preparing
  <2>2. CASE t = Main /\ ~adding
    BY <1>1, <2>2 DEF TeardownStep, CloseReceiver, EndClock, UseAfterFree, StopMonitoring, OpenOverlay,
          SendSpec, EnterRecv, LeaveRecv, CloseOverlay, RemoveOwnRules, CloseLog, Exit, AfterRecv, Preparing,
          Connecting
  <2>3. CASE adding
    BY <2>3 DEF Preparing
  <2> QED BY <2>1, <2>2, <2>3
<1> QED BY <1>1, <1>2, <1>3 DEF EarlyInv

\* The connection is made when the nodes are idle.
LEMMA QuietMain ==
    ASSUME TypeOK, RunningInv, MainSetup \/ Application, fate' = "running" PROVE QuietInv'
<1> USE ThreadFacts DEF At, Goto, Ends, historyVars, networkVars
<1>1. /\ DOMAIN pc = Threads /\ WhereInv /\ EarlyInv /\ QuietInv /\ PhaseInv /\ session \in Dars
      /\ begun \subseteq Threads
  BY PlaceTypes DEF RunningInv, ReceiverInv, TypeOK
<1>2. WhereInv'
  BY WhereMain
<1>3. CASE ConnectReceiver
  <2>1. UNCHANGED <<begun, early, queue, adding>> /\ pc[Main] = "connect"
    BY <1>3 DEF ConnectReceiver
  <2>2. CASE early
    BY <2>1, <2>2 DEF QuietInv
  <2>3. CASE ~early
    <3>1. begun = {} /\ ~adding
      BY <1>1, <2>1, <2>3 DEF EarlyInv, Preparing, Connecting, PhaseInv, Exchanging
    <3>2. Alone(Main)
      BY <3>1 DEF Alone
    <3>3. \A k \in Flows : queue[k] = <<>>
      BY <2>1, <3>1, <3>2 DEF RunningInv, AloneInv, Between, Settled
    <3> QED BY <2>1, <3>1, <3>3 DEF QuietInv
  <2> QED BY <2>2, <2>3
<1>4. CASE SendHello \/ ReceiveEcho \/ Teardown \/ ApplicationDies \/ SetupReturns
  <2>1. /\ UNCHANGED <<early, queue, fds>>
        /\ begun' = begun \/ (begun' = begun \cup {Main} /\ pc'[Main] = "close")
        /\ \A t \in Threads : t # Main => pc'[t] = pc[t]
    BY <1>1, <1>4 DEF SendHello, ReceiveEcho, Teardown, ApplicationDies, SetupReturns, kernelVars
  <2>2. Main \notin begun
    BY <1>1, <1>4 DEF SendHello, ReceiveEcho, Teardown, ApplicationDies, SetupReturns, PhaseInv, Cleaning,
                      Exchanging
  <2> QED BY <1>1, <2>1, <2>2 DEF QuietInv, Receiving
<1>5. CASE \/ Discover \/ AddOwnRules \/ StartMonitoring \/ StartDarHandler \/ RegisterHandler
           \/ BeginConnectionClock \/ NextExperiment
  <2>1. pc'[Main] \notin {"return", "app", "answer", "close"}
    BY <1>1, <1>5 DEF Discover, AddOwnRules, StartMonitoring, StartDarHandler, RegisterHandler,
                BeginConnectionClock, NextExperiment
  <2>2. Receiving' = {}
    BY <1>2, <2>1 DEF WhereInv
  <2> QED BY <2>2 DEF QuietInv
<1> QED BY <1>3, <1>4, <1>5 DEF MainSetup, Application

\* While the connection stands, and no teardown began before it did, no thread is past the
\* beginning of a teardown.
LEMMA QuietFacts ==
    ASSUME TypeOK, RunningInv, NEW t \in Threads, ~early, Receiving # {}, pc[t] \in Cleaning
    PROVE  pc[t] = "close"
<1>1. WhereInv /\ QuietInv /\ PhaseInv
  BY DEF RunningInv, ReceiverInv
<1>2. CASE t = Main
  <2>1. pc[Main] \in {"return", "app", "answer", "close"}
    BY <1>1 DEF WhereInv
  <2> QED BY <1>2, <2>1 DEF Cleaning, Exchanging
<1>3. CASE t \in Dars
  BY <1>1, <1>3 DEF QuietInv, PhaseInv
<1> QED BY <1>2, <1>3, ThreadFacts

\* A teardown begins by closing it.
LEMMA QuietTeardown ==
    ASSUME TypeOK, RunningInv, NEW t \in Threads, TeardownStep(t), fate' = "running" PROVE QuietInv'
<1> USE DEF At, Goto, Ends, historyVars, networkVars
<1>1. SUFFICES ASSUME ~early', Receiving' # {} PROVE FALSE
  BY DEF QuietInv
<1>2. Receiving # {} /\ ~early
  <2>1. early' = early
    BY DEF TeardownStep, CloseReceiver, EndClock, UseAfterFree, StopMonitoring, OpenOverlay,
          SendSpec, EnterRecv, LeaveRecv, CloseOverlay, RemoveOwnRules, CloseLog, Exit
  <2> QED BY <1>1, <2>1, ReceivingShrinks
<1>3. CASE CloseReceiver(t)
  <2>1. pc[Main] # "return"
    <3>1. ASSUME pc[Main] = "return" PROVE FALSE
      <4>1. begun = {}
        BY <1>2, <3>1 DEF RunningInv, ReceiverInv, EarlyInv, Preparing, Connecting
      <4>2. t # Main
        BY <1>3, <3>1 DEF CloseReceiver
      <4>3. t \in begun
        BY <1>3, <4>2, ThreadFacts DEF CloseReceiver, RunningInv, PhaseInv, Cleaning
      <4> QED BY <4>1, <4>3
    <3> QED BY <3>1
  <2>2. \A f \in Receiving : f = connfd
    BY <2>1 DEF RunningInv, ReceiverInv, WhereInv
  <2>3. connfd \notin Receiving'
    BY <1>3, FileFacts DEF Receiving, CloseReceiver, Closed, TypeOK
  <2> QED BY <1>1, <2>2, <2>3, ReceivingShrinks
<1>4. CASE ~CloseReceiver(t)
  <2>1. pc[t] \in Cleaning \ {"close"}
    BY <1>4 DEF TeardownStep, EndClock, UseAfterFree, StopMonitoring, OpenOverlay, SendSpec,
          EnterRecv, LeaveRecv, CloseOverlay, RemoveOwnRules, CloseLog, Exit, Cleaning, Exchanging
  <2> QED BY <1>2, <2>1, QuietFacts
<1> QED BY <1>3, <1>4

\* A DAR thread that begins a teardown does so with the connection standing, or early.
LEMMA ReceiverDar ==
    ASSUME TypeOK, RunningInv, NEW t \in Dars, DarLoop(t), fate' = "running" PROVE ReceiverInv'
<1> USE DEF At, Goto, Ends
<1>1. /\ DOMAIN pc = Threads /\ WhereInv /\ EarlyInv /\ QuietInv /\ t \in Threads /\ t # Main
      /\ Main \in Threads /\ begun \subseteq Threads
  BY PlaceTypes, ThreadFacts DEF RunningInv, ReceiverInv, TypeOK
<1>2. UNCHANGED <<fds, myfd, connfd, queue, adding>> /\ \A u \in Threads : u # t => pc'[u] = pc[u]
  BY <1>1 DEF DarLoop, EnterRead, ReadAlert, ReadStray, RaiseSignal, kernelVars, networkVars, threadVars,
              sharedVars
<1>3. \/ UNCHANGED <<begun, early>>
      \/ begun' = begun \cup {t} /\ early' = (early \/ Unconnected) /\ pc'[t] = "close"
  BY <1>1 DEF DarLoop, EnterRead, ReadAlert, ReadStray, RaiseSignal, historyVars
<1>4. pc[t] # "close"
  BY DEF DarLoop, EnterRead, ReadAlert, ReadStray, RaiseSignal
<1>5. pc'[Main] = pc[Main]
  BY <1>1, <1>2
<1>6. WhereInv'
  BY <1>1, <1>2, <1>5 DEF WhereInv, Receiving
<1>7. EarlyInv'
  <2>1. Preparing' = Preparing /\ (Preparing => Unconnected)
    BY <1>2, <1>5 DEF Preparing, Unconnected
  <2> QED BY <1>1, <1>3, <2>1 DEF EarlyInv
<1>8. QuietInv'
  <2>1. Receiving' = Receiving /\ (~early' => ~early)
    <3>1. Receiving' = Receiving
      BY <1>2 DEF Receiving
    <3>2. CASE UNCHANGED early
      BY <3>1, <3>2
    <3>3. CASE early' = (early \/ Unconnected)
      <4>1. early => early'
        BY <3>3, Zenon
      <4> QED BY <3>1, <4>1
    <3> QED BY <1>3, <3>2, <3>3
  <2>2. SUFFICES ASSUME ~early', Receiving' # {}
                 PROVE  (\A u \in begun' : pc'[u] = "close") /\ (\A k \in Flows : queue'[k] = <<>>)
    BY DEF QuietInv
  <2>3. (\A u \in begun : pc[u] = "close") /\ (\A k \in Flows : queue[k] = <<>>)
    BY <1>1, <2>1, <2>2 DEF QuietInv
  <2> QED BY <1>1, <1>2, <1>3, <1>4, <2>3
<1> QED BY <1>6, <1>7, <1>8 DEF ReceiverInv

-----------------------------------------------------------------------------
(* The inductive invariant.                                                *)

\* A step that leaves the threads, the connections and the descriptors alone.
LEMMA RunningStay ==
    ASSUME RunningInv,
           UNCHANGED <<procVars, kernelVars, sharedVars, count, threadVars, networkVars, own, historyVars>>
    PROVE  RunningInv'
<1> USE DEF procVars, kernelVars, sharedVars, threadVars, historyVars
<1>1. \A t \in Threads : PlaceInv(t)'
  BY DEF RunningInv, PlaceInv
<1>2. PhaseInv'
  BY DEF RunningInv, PhaseInv
<1>3. FreshInv'
  <2>1. \A o \in Conns : Ahead(o[1], o[2], o[3])' => Ahead(o[1], o[2], o[3])
    BY DEF Ahead, Latest, Pass
  <2> QED BY <2>1, FreshFrame DEF RunningInv, networkVars
<1>4. NamedInv'
  BY NamedStay DEF RunningInv, networkVars
<1>5. ASSUME NEW t \in Threads PROVE AloneInv(t)'
  <2>1. Undisturbed(t)
    BY DEF Undisturbed, Alone, Pass
  <2> QED BY <1>5, <2>1, AloneFrame DEF RunningInv
<1>6. ReceiverInv'
  BY DEF RunningInv, ReceiverInv, WhereInv, EarlyInv, QuietInv, Receiving, Preparing, networkVars
<1> QED BY <1>1, <1>2, <1>3, <1>4, <1>5, <1>6 DEF RunningInv

\* A node's step.
LEMMA RunningNode ==
    ASSUME TypeOK, NetInv, RunningInv, NEW k \in Flows, NodeStep(k) PROVE RunningInv'
<1> USE DEF procVars, kernelVars, sharedVars, alertVars, threadVars, historyVars
<1>0. UNCHANGED <<procVars, kernelVars, sharedVars, alertVars, threadVars, own, historyVars>>
  BY DEF NodeStep, NodeAnswers, NodeDies
<1>1. \A t \in Threads : PlaceInv(t)'
  BY <1>0 DEF RunningInv, PlaceInv
<1>2. PhaseInv'
  BY <1>0 DEF RunningInv, PhaseInv
<1>3. \A o \in Conns : net'[o] = "none" <=> net[o] = "none"
  <2>1. UNCHANGED net \/ \E j \in Flows : NodeDies(j)
    BY DEF NodeStep, NodeAnswers
  <2> QED BY <2>1, NoneSame DEF RunningInv
<1>4. FreshInv'
  <2>1. \A o \in Conns : Ahead(o[1], o[2], o[3])' => Ahead(o[1], o[2], o[3])
    BY <1>0 DEF Ahead, Latest, Pass
  <2> QED BY <1>3, <2>1, FreshFrame DEF RunningInv
<1>5. NamedInv'
  BY <1>0, <1>3, NamedFrame DEF RunningInv
<1>6. ASSUME NEW t \in Threads PROVE AloneInv(t)'
  BY <1>6, AloneAnswers, AloneDies DEF NodeStep
<1>7. ReceiverInv'
  <2>1. WhereInv' /\ EarlyInv'
    BY <1>0 DEF RunningInv, ReceiverInv, WhereInv, EarlyInv, Receiving, Preparing
  <2>2. queue[k] # <<>>
    BY DEF NodeStep, NodeAnswers, NodeDies
  <2>3. QuietInv'
    BY <1>0, <2>2 DEF RunningInv, ReceiverInv, QuietInv, Receiving
  <2> QED BY <2>1, <2>3 DEF ReceiverInv
<1> QED BY <1>1, <1>2, <1>4, <1>5, <1>6, <1>7 DEF RunningInv

\* The steps of a process that runs on.
LEMMA RunningStep ==
    ASSUME TypeOK, NetInv, RunningInv, fate = "running", [Next]_vars, fate' = "running"
    PROVE  RunningInv'
<1>1. CASE MainSetup \/ Application
  <2>1. ReceiverInv'
    BY <1>1, WhereMain, EarlyMain, QuietMain DEF ReceiverInv
  <2>2. NamedInv'
    BY <1>1, NamedMain DEF RunningInv
  <2> QED BY <1>1, <2>1, <2>2, PlaceMain, PhaseMain, FreshMain, AloneMain DEF RunningInv
<1>2. ASSUME NEW t \in Threads, TeardownStep(t) PROVE RunningInv'
  <2>1. ReceiverInv'
    BY <1>2, WhereTeardown, EarlyTeardown, QuietTeardown DEF ReceiverInv
  <2>2. ASSUME NEW u \in Threads PROVE AloneInv(u)'
    <3>1. CASE u = t
      BY <1>2, <3>1, AloneTeardown
    <3>2. CASE u # t
      BY <1>2, <2>2, <3>2, AloneOther
    <3> QED BY <3>1, <3>2
  <2> QED BY <1>2, <2>1, <2>2, PlaceTeardown, PhaseTeardown, FreshTeardown, NamedTeardown DEF RunningInv
<1>3. ASSUME NEW t \in Dars, DarLoop(t) PROVE RunningInv'
  <2>1. NamedInv'
    BY <1>3, NamedDar DEF RunningInv
  <2> QED BY <1>3, <2>1, ReceiverDar, PlaceDar, PhaseDar, FreshDar, AloneDar DEF RunningInv
<1>4. ASSUME NEW k \in Flows, NodeStep(k) PROVE RunningInv'
  BY <1>4, RunningNode
<1>5. CASE SendAlert
  BY <1>5, RunningStay DEF SendAlert
<1>6. CASE UNCHANGED vars
  BY <1>6, RunningStay DEF vars, alertVars
<1> QED BY <1>1, <1>2, <1>3, <1>4, <1>5, <1>6 DEF Next

\* The process ends, or has ended: no thread moves any more.
LEMMA EndedStep ==
    ASSUME TypeOK, fate = "running" \/ EndedInv, [Next]_vars, fate' # "running" PROVE EndedInv'
<1> USE DEF procVars, kernelVars, At, Goto
<1>1. CASE \E h \in {"done", "exited", "killed", "crashed"} : Ends(h)
  BY <1>1 DEF Ends, EndedInv
<1>2. CASE ~(\E h \in {"done", "exited", "killed", "crashed"} : Ends(h))
  <2>1. UNCHANGED fate
    <3>1. CASE MainSetup \/ Application
      BY <1>2, <3>1 DEF MainSetup, Application, Discover, StartMonitoring, ConnectReceiver, ApplicationDies,
          AddOwnRules, StartDarHandler, RegisterHandler, BeginConnectionClock, SetupReturns,
          NextExperiment, SendHello, ReceiveEcho, Teardown
    <3>2. ASSUME NEW t \in Threads, TeardownStep(t) PROVE UNCHANGED fate
      BY <1>2, <3>2 DEF TeardownStep, CloseReceiver, EndClock, UseAfterFree, StopMonitoring, OpenOverlay,
          SendSpec, EnterRecv, LeaveRecv, CloseOverlay, RemoveOwnRules, CloseLog, Exit, AfterRecv
    <3>3. ASSUME NEW t \in Dars, DarLoop(t) PROVE UNCHANGED fate
      BY <1>2, <3>3 DEF DarLoop, EnterRead, ReadAlert, ReadStray, RaiseSignal
    <3>4. ASSUME NEW k \in Flows, NodeStep(k) PROVE UNCHANGED fate
      BY <3>4 DEF NodeStep, NodeAnswers, NodeDies
    <3>5. CASE SendAlert \/ UNCHANGED vars
      BY <3>5 DEF SendAlert, vars
    <3> QED BY <3>1, <3>2, <3>3, <3>4, <3>5 DEF Next
  <2>2. EndedInv /\ fate # "running"
    BY <2>1
  <2>3. UNCHANGED <<pc, fds>>
    <3>1. CASE MainSetup \/ Application
      BY <2>2, <3>1 DEF MainSetup, Application, Discover, StartMonitoring, ConnectReceiver, ApplicationDies,
          AddOwnRules, StartDarHandler, RegisterHandler, BeginConnectionClock, SetupReturns,
          NextExperiment, SendHello, ReceiveEcho, Teardown
    <3>2. ASSUME NEW t \in Threads, TeardownStep(t) PROVE FALSE
      BY <2>2, <3>2 DEF TeardownStep, CloseReceiver, EndClock, UseAfterFree, StopMonitoring, OpenOverlay,
          SendSpec, EnterRecv, LeaveRecv, CloseOverlay, RemoveOwnRules, CloseLog, Exit
    <3>3. ASSUME NEW t \in Dars, DarLoop(t) PROVE FALSE
      BY <2>2, <3>3 DEF DarLoop, EnterRead, ReadAlert, ReadStray, RaiseSignal
    <3>4. ASSUME NEW k \in Flows, NodeStep(k) PROVE UNCHANGED <<pc, fds>>
      BY <3>4 DEF NodeStep, NodeAnswers, NodeDies
    <3>5. CASE SendAlert \/ UNCHANGED vars
      BY <3>5 DEF SendAlert, vars
    <3> QED BY <3>1, <3>2, <3>3, <3>4, <3>5 DEF Next
  <2> QED BY <2>2, <2>3 DEF EndedInv
<1> QED BY <1>1, <1>2

\* Types, over all steps.
LEMMA TypeStep ==
    ASSUME TypeOK, AlertInv, NetInv, fate = "running" => RunningInv, [Next]_vars PROVE TypeOK'
<1>0. AlertInv'
  BY AlertStep
<1>1. CASE MainSetup \/ Application
  <2>1. fate = "running"
    BY <1>1 DEF MainSetup, Application, Discover, StartMonitoring, ConnectReceiver, ApplicationDies,
          AddOwnRules, StartDarHandler, RegisterHandler, BeginConnectionClock, SetupReturns,
          NextExperiment, SendHello, ReceiveEcho, Teardown, At
  <2> QED BY <1>1, <2>1, MainTypes
<1>2. ASSUME NEW t \in Threads, TeardownStep(t) PROVE TypeOK'
  <2>1. fate = "running"
    BY <1>2 DEF TeardownStep, CloseReceiver, EndClock, UseAfterFree, StopMonitoring, OpenOverlay,
          SendSpec, EnterRecv, LeaveRecv, CloseOverlay, RemoveOwnRules, CloseLog, Exit, At
  <2> QED BY <1>0, <1>2, <2>1, TeardownTypes
<1>3. ASSUME NEW t \in Dars, DarLoop(t) PROVE TypeOK'
  BY <1>0, <1>3, DarTypes
<1>4. ASSUME NEW k \in Flows, NodeStep(k) PROVE TypeOK'
  BY <1>4, NodeTypes
<1>5. CASE SendAlert
  BY <1>5, AlertSentTypes
<1>6. CASE UNCHANGED vars
  BY <1>6 DEF vars, procVars, kernelVars, sharedVars, alertVars, threadVars, networkVars, historyVars, TypeOK
<1> QED BY <1>1, <1>2, <1>3, <1>4, <1>5, <1>6 DEF Next

\* The network, over all steps.
LEMMA NetStep ==
    ASSUME TypeOK, TypeOK', NetInv, fate = "running" => RunningInv, [Next]_vars PROVE NetInv'
<1> USE DEF networkVars
<1>1. CASE MainSetup \/ Application
  <2>1. UNCHANGED <<inq, acks, stage, net, queue, down>>
    BY <1>1 DEF MainSetup, Application, Discover, StartMonitoring, ConnectReceiver, ApplicationDies,
          AddOwnRules, StartDarHandler, RegisterHandler, BeginConnectionClock, SetupReturns,
          NextExperiment, SendHello, ReceiveEcho, Teardown
  <2> QED BY <2>1, NetStay
<1>2. ASSUME NEW t \in Threads, TeardownStep(t) PROVE NetInv'
  <2>1. CASE OpenOverlay(t)
    BY <2>1, NetOpen DEF OpenOverlay, At
  <2>2. CASE SendSpec(t)
    BY <2>2, NetSend
  <2>3. CASE LeaveRecv(t)
    BY <2>3, NetLeave
  <2>4. CASE ~(OpenOverlay(t) \/ SendSpec(t) \/ LeaveRecv(t))
    <3>1. UNCHANGED <<inq, acks, stage, net, queue, down>>
      BY <1>2, <2>4 DEF TeardownStep, CloseReceiver, EndClock, UseAfterFree, StopMonitoring,
            EnterRecv, CloseOverlay, RemoveOwnRules, CloseLog, Exit
    <3> QED BY <3>1, NetStay
  <2> QED BY <2>1, <2>2, <2>3, <2>4
<1>3. ASSUME NEW t \in Dars, DarLoop(t) PROVE NetInv'
  <2>1. UNCHANGED <<inq, acks, stage, net, queue, down>>
    BY <1>3 DEF DarLoop, EnterRead, ReadAlert, ReadStray, RaiseSignal
  <2> QED BY <2>1, NetStay
<1>4. ASSUME NEW k \in Flows, NodeStep(k) PROVE NetInv'
  BY <1>4, NetAnswers, NetDies DEF NodeStep
<1>5. CASE SendAlert \/ UNCHANGED vars
  <2>1. UNCHANGED <<inq, acks, stage, net, queue, down>>
    BY <1>5 DEF SendAlert, vars
  <2> QED BY <2>1, NetStay
<1> QED BY <1>1, <1>2, <1>3, <1>4, <1>5 DEF Next

\* The invariant holds initially ...
LEMMA LifecycleInit == ASSUME Init PROVE LifecycleInv
<1>1. TypeOK
  <2>1. /\ pc \in [Threads -> Connecting \cup Cleaning
                     \cup {"app", "answer", "none", "read", "reading", "raise", "ended"}]
        /\ session \in Dars /\ fds \in [Fds -> Files] /\ on \in [Threads -> Files]
    BY ThreadFacts, FileFacts DEF Init, Connecting
  <2>2. /\ inbox \in [Dars -> 0 .. MaxSent] /\ sent \in 0 .. MaxSent /\ count \in [Dars -> 0 .. MaxSent]
        /\ darfd \in [Dars -> Fds] /\ myfd \in [Threads -> Fds] /\ flow \in [Threads -> Flows]
        /\ connfd \in Fds /\ alertfd \in Fds
    BY ThreadFacts, LifecycleAssumption DEF Init
  <2>3. /\ inq \in [Conns -> Seq({"fwd", "dar"} \X Flows \X {"A", "D"})]
        /\ queue \in [Flows -> Seq(Conns)]
    <3>1. <<>> \in Seq({"fwd", "dar"} \X Flows \X {"A", "D"}) /\ <<>> \in Seq(Conns)
      BY EmptySeq
    <3> QED BY <3>1 DEF Init
  <2>4. /\ leg \in [Threads -> {"fwd", "dar"}] /\ acks \in [Conns -> 0 .. 2] /\ stage \in [Conns -> 0 .. 2]
        /\ net \in [Conns -> {"none", "ok", "rst", "broken"}]
    BY DEF Init
  <2>5. /\ reaction \in Reactions /\ adding \in BOOLEAN /\ early \in BOOLEAN
        /\ down \subseteq Flows /\ rules \subseteq Flows /\ own \subseteq Flows /\ begun \subseteq Threads
        /\ fate = "running" /\ disposition = "default" /\ clock = "null" /\ log = "closed"
    BY DEF Init
  <2> QED BY <2>1, <2>2, <2>3, <2>4, <2>5 DEF TypeOK
<1>2. AlertInv
  <2>1. PICK h \in [1 .. sent -> Spots] : TRUE
    <3>1. [i \in 1 .. sent |-> Spot(1, "gone")] \in [1 .. sent -> Spots]
      BY ThreadFacts, SpotFacts
    <3> QED BY <3>1
  <2>2. ASSUME NEW x PROVE Cardinality(InPlace(sent, h, x)) = 0
    <3>1. sent \in Nat /\ sent = 0
      BY DEF Init
    <3>2. Cardinality(InPlace(sent, h, x)) \in 0 .. sent
      BY <3>1, CountBound
    <3> QED BY <3>1, <3>2
  <2>3. \A s \in Dars : inbox[s] = 0 /\ count[s] = 0
    BY DEF Init
  <2> QED BY <2>1, <2>2, <2>3 DEF AlertInv
<1>3. NetInv
  BY DEF Init, NetInv, ConnInv, QueueInv
<1>4. RunningInv
  <2>1. /\ pc[Main] = "discover" /\ (\A t \in Dars : pc[t] = "none") /\ session = 1 /\ ~adding
        /\ begun = {} /\ (\A t \in Threads : flow[t] = 1) /\ (\A o \in Conns : net[o] = "none")
        /\ (\A t \in Threads : on[t] = Free) /\ (\A f \in Fds : fds[f] \in {Free, Stdin})
    BY ThreadFacts DEF Init
  <2>2. \A t \in Threads : PlaceInv(t)
    <3>1. PlaceInv(Main)
      BY <2>1, ThreadFacts DEF PlaceInv, Exchanging, Cleaning, Main
    <3>2. ASSUME NEW t \in Dars PROVE PlaceInv(t)
      BY <2>1, ThreadFacts DEF PlaceInv, Connecting, Exchanging, Cleaning
    <3> QED BY <3>1, <3>2, ThreadFacts
  <2>3. PhaseInv
    BY <2>1, ThreadFacts DEF PhaseInv, Early, Exchanging, Cleaning
  <2>4. FreshInv /\ NamedInv
    BY <2>1, FileFacts DEF FreshInv, NamedInv, Opened
  <2>5. ASSUME NEW t \in Threads PROVE AloneInv(t)
    BY <2>1, ThreadFacts DEF AloneInv, Before, Present, After, Between, Exchanging
  <2>6. Receiving = {}
    BY <2>1, FileFacts DEF Receiving
  <2>7. ReceiverInv
    BY <2>1, <2>6 DEF ReceiverInv, WhereInv, EarlyInv, QuietInv
  <2> QED BY <2>2, <2>3, <2>4, <2>5, <2>7 DEF RunningInv
<1> QED BY <1>1, <1>2, <1>3, <1>4 DEF LifecycleInv, Init

\* ... and is preserved by every step.
LEMMA LifecycleStep == ASSUME LifecycleInv, [Next]_vars PROVE LifecycleInv'
<1>1. TypeOK /\ AlertInv /\ NetInv /\ (fate = "running" => RunningInv) /\ (fate = "running" \/ EndedInv)
  BY DEF LifecycleInv
<1>2. AlertInv'
  BY <1>1, AlertStep
<1>3. TypeOK'
  BY <1>1, TypeStep
<1>4. NetInv'
  BY <1>1, <1>3, NetStep
<1>5. CASE fate' # "running"
  BY <1>1, <1>2, <1>3, <1>4, <1>5, EndedStep DEF LifecycleInv
<1>6. CASE fate' = "running"
  <2>1. fate = "running"
    <3>1. ASSUME fate # "running" PROVE FALSE
      <4>1. UNCHANGED fate
        BY <1>6, <3>1 DEF Next, MainSetup, Application, Discover, StartMonitoring, ConnectReceiver,
          ApplicationDies, AddOwnRules, StartDarHandler, RegisterHandler, BeginConnectionClock,
          SetupReturns, NextExperiment, SendHello, ReceiveEcho, Teardown, TeardownStep, CloseReceiver,
          EndClock, UseAfterFree, StopMonitoring, OpenOverlay, SendSpec, EnterRecv, LeaveRecv,
          CloseOverlay, RemoveOwnRules, CloseLog, Exit, DarLoop, EnterRead, ReadAlert, ReadStray,
          RaiseSignal, NodeStep, NodeAnswers, NodeDies, SendAlert, At, vars, procVars
      <4> QED BY <1>6, <3>1, <4>1
    <3> QED BY <3>1
  <2> QED BY <1>1, <1>2, <1>3, <1>4, <1>6, <2>1, RunningStep DEF LifecycleInv
<1> QED BY <1>5, <1>6

\* LifecycleInv holds in every reachable state of the sender process.
THEOREM LifecycleInductive == Spec => []LifecycleInv
BY LifecycleInit, LifecycleStep, PTL DEF Spec

-----------------------------------------------------------------------------
(* What a sender promises.                                                 *)

\* The descriptors, counters and places of the main thread and of the DAR threads stay
\* in their ranges, whatever the order in which setup_sender, the DAR threads and
\* teardown_sender run: a DAR thread counts no more alerts than were sent, no thread
\* uses a connection of a pass it is not in, and a node sends two echoes at most.
THEOREM LifecycleTypes == Spec => []TypeOK
<1>1. LifecycleInv => TypeOK
  BY DEF LifecycleInv
<1> QED BY <1>1, LifecycleInductive, PTL

\* When teardown_sender ends on a thread that no other thread joined in it, no rule is
\* left at a node or at the sender, and no node was killed.
THEOREM SoloTeardownCleansAlways == Spec => []SoloTeardownCleans
<1>1. LifecycleInv => SoloTeardownCleans
  <2> SUFFICES ASSUME LifecycleInv, NEW t \in {Main, session}, begun = {t}, pc[t] = "exit"
               PROVE  rules = {} /\ own = {} /\ down = {}
    BY DEF SoloTeardownCleans
  <2>1. t \in Threads /\ rules \subseteq Flows /\ own \subseteq Flows /\ down \subseteq Flows
    BY ThreadFacts DEF LifecycleInv, TypeOK
  <2>2. RunningInv
    BY <2>1 DEF LifecycleInv, EndedInv
  <2>3. ~Adds(t)
    BY <2>2 DEF RunningInv, PhaseInv, Adds, Exchanging
  <2>4. \A k \in Flows : Through(t, k) /\ k \notin own
    BY <2>1, <2>2 DEF RunningInv, AloneInv, Alone, After
  <2>5. \A k \in Flows : k \notin rules /\ k \notin down
    BY <2>3, <2>4 DEF Through, Settled
  <2> QED BY <2>1, <2>4, <2>5
<1> QED BY <1>1, LifecycleInductive, PTL

\* Nodes and sender drop rules only when no connection to the receiver stands, unless a
\* teardown began before there was one.
THEOREM RulesOutliveConnectionAlways == Spec => RulesOutliveConnection
<1>1. ASSUME LifecycleInv, [Next]_vars, rules \ rules' # {} \/ own \ own' # {}
      PROVE  early \/ \A f \in Fds : fds[f].kind # "receiver"
  <2>1. SUFFICES ASSUME ~early, Receiving # {} PROVE FALSE
    BY DEF Receiving
  <2>2. TypeOK /\ RunningInv
    <3>1. PICK f \in Fds : fds[f].kind = "receiver"
      BY <2>1 DEF Receiving
    <3>2. ~EndedInv
      BY <3>1, FileFacts DEF EndedInv
    <3> QED BY <1>1, <3>2 DEF LifecycleInv
  <2>3. WhereInv /\ QuietInv
    BY <2>2 DEF RunningInv, ReceiverInv
  <2>4. ASSUME NEW k \in Flows, NodeAnswers(k) PROVE FALSE
    BY <2>1, <2>3, <2>4 DEF QuietInv, NodeAnswers
  <2>5. ASSUME NEW t \in Threads, RemoveOwnRules(t) PROVE FALSE
    BY <2>1, <2>2, <2>5, QuietFacts DEF RemoveOwnRules, At, Cleaning
  <2>6. ~NextExperiment
    BY <2>1, <2>3 DEF NextExperiment, At, WhereInv
  <2>7. rules' = rules /\ own \subseteq own'
    <3> USE DEF networkVars
    <3>1. CASE MainSetup \/ Application
      BY <2>6, <3>1 DEF MainSetup, Application, Discover, StartMonitoring, ConnectReceiver, ApplicationDies,
          AddOwnRules, StartDarHandler, RegisterHandler, BeginConnectionClock, SetupReturns,
          SendHello, ReceiveEcho, Teardown
    <3>2. ASSUME NEW t \in Threads, TeardownStep(t) PROVE rules' = rules /\ own \subseteq own'
      BY <2>5, <3>2 DEF TeardownStep, CloseReceiver, EndClock, UseAfterFree, StopMonitoring, OpenOverlay,
          SendSpec, EnterRecv, LeaveRecv, CloseOverlay, CloseLog, Exit
    <3>3. ASSUME NEW t \in Dars, DarLoop(t) PROVE rules' = rules /\ own \subseteq own'
      BY <3>3 DEF DarLoop, EnterRead, ReadAlert, ReadStray, RaiseSignal
    <3>4. ASSUME NEW k \in Flows, NodeStep(k) PROVE rules' = rules /\ own \subseteq own'
      BY <2>4, <3>4 DEF NodeStep, NodeDies
    <3>5. CASE SendAlert \/ UNCHANGED vars
      BY <3>5 DEF SendAlert, vars
    <3> QED BY <1>1, <3>1, <3>2, <3>3, <3>4, <3>5 DEF Next
  <2> QED BY <1>1, <2>7
<1>2. LifecycleInv /\ [Next]_vars =>
         [rules \ rules' # {} \/ own \ own' # {}
            => early \/ \A f \in Fds : fds[f].kind # "receiver"]_vars
  BY <1>1
<1> QED BY <1>2, LifecycleInductive, PTL DEF Spec, RulesOutliveConnection
=============================================================================
