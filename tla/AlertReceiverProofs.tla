------------------------- MODULE AlertReceiverProofs -------------------------
(***************************************************************************)
(* For every list of paths, limit of alerts and number of alerts: what DAR *)
(* makes of the alerts it receives, lost and reordered as they may be.     *)
(***************************************************************************)
EXTENDS AlertReceiver, SequenceTheorems, FiniteSetTheorems, TLAPS

\* How often SIGUSR1 is to be raised for n alerts.
Signals(n) == Max({0, n - Max({1, MaxDarAlerts}) + 1})

\* The alerts of the history about the i-th path.
AlertsAbout(i) == {n \in DOMAIN history : About(history[n], i)}

\* What the status of a path tells of the alerts H about it: last is the greatest of
\* them, and prev the greatest of the others.
Tells(p, H) ==
    /\ p.hijacked <=> H # {}
    /\ H # {} => p.last \in H /\ \A n \in H : n <= p.last
    /\ \A n \in H \ {p.last} : p.prev \in H \ {p.last} /\ n <= p.prev

\* Alerts are not made up, and no time stamp leaves its range.
CountInv ==
    /\ Len(history) + Len(inbox) <= sent /\ raised <= Len(history)
    /\ pc \in {"flows", "setup", "bind"} => history = <<>> /\ inbox = <<>>

\* The sender forgets its paths when it sets DAR up.
SenderInv ==
    program = "sender" =>
        /\ pc # "setup" /\ (pc # "flows" => monitored = <<>>)
        /\ raised = Signals(Len(history))

\* The standalone program has its three paths in order, each with its status.
StandaloneInv ==
    program = "standalone" =>
        /\ pc # "flows" /\ Len(Paths) = 3
        /\ IF pc = "setup" THEN monitored = <<>>
           ELSE /\ Len(monitored) = 3
                /\ \A i \in 1 .. 3 : /\ monitored[i].relay = Paths[i].relay
                                     /\ Tells(monitored[i], AlertsAbout(i))

\* The inductive strengthening of both invariants.
AlertInv == TypeOK /\ CountInv /\ SenderInv /\ StandaloneInv
-----------------------------------------------------------------------------
\* The greatest of a set, where it has one.
LEMMA MaxIs == ASSUME NEW S \in SUBSET Int, NEW x \in S, \A y \in S : y <= x
               PROVE  Max(S) = x
<1>1. \E m \in S : \A y \in S : m >= y
  OBVIOUS
<1>2. Max(S) \in S /\ \A y \in S : Max(S) >= y
  BY <1>1 DEF Max
<1>3. Max(S) \in Int /\ x \in Int /\ Max(S) >= x /\ Max(S) <= x
  BY <1>2
<1> QED BY <1>3

\* The greatest of two.
LEMMA MaxOfTwo == ASSUME NEW a \in Int, NEW b \in Int
                  PROVE  Max({a, b}) = IF a >= b THEN a ELSE b
<1>1. CASE a >= b
  BY <1>1, MaxIs
<1>2. CASE ~(a >= b)
  BY <1>2, MaxIs
<1> QED BY <1>1, <1>2

\* The number of signals, as the difference that it is.
LEMMA SignalsIs ==
    ASSUME NEW n \in Nat
    PROVE  Signals(n) = IF MaxDarAlerts <= 1 THEN n
                        ELSE IF n >= MaxDarAlerts THEN n - MaxDarAlerts + 1 ELSE 0
<1> DEFINE m == Max({1, MaxDarAlerts})
           d == n - m + 1
<1>1. m \in Nat /\ m = IF MaxDarAlerts <= 1 THEN 1 ELSE MaxDarAlerts
  BY AlertAssumption, MaxOfTwo
<1>2. Signals(n) = Max({0, d})
  BY DEF Signals
<1> HIDE DEF m
<1>3. d \in Int
  BY <1>1
<1> HIDE DEF d
<1>4. Signals(n) = IF 0 >= d THEN 0 ELSE d
  BY <1>2, <1>3, MaxOfTwo
<1> QED BY <1>1, <1>4, AlertAssumption DEF d

\* The first of the places of three paths, where there is one.
LEMMA MinOfThree == ASSUME NEW S \in SUBSET (1 .. 3), S # {}
                    PROVE  Min(S) \in S /\ \A y \in S : Min(S) <= y
<1>1. \E m \in S : \A y \in S : m =< y
  <2>1. CASE 1 \in S
    BY <2>1
  <2>2. CASE 1 \notin S /\ 2 \in S
    BY <2>2
  <2>3. CASE 1 \notin S /\ 2 \notin S
    <3>1. \A y \in S : y = 3
      BY <2>3
    <3>2. PICK m \in S : TRUE
      OBVIOUS
    <3> QED BY <3>1, <3>2
  <2> QED BY <2>1, <2>2, <2>3
<1> QED BY <1>1 DEF Min

\* Taking one datagram out of the queue leaves a shorter queue.
LEMMA RemoveAtType ==
    ASSUME NEW S, NEW q \in Seq(S), NEW i \in 1 .. Len(q)
    PROVE  RemoveAt(q, i) \in Seq(S) /\ Len(RemoveAt(q, i)) = Len(q) - 1
<1> DEFINE l == SubSeq(q, 1, i - 1)
           r == SubSeq(q, i + 1, Len(q))
<1>1. l \in Seq(S) /\ Len(l) = i - 1 /\ r \in Seq(S) /\ Len(r) = Len(q) - i
  OBVIOUS
<1>2. RemoveAt(q, i) = l \o r
  BY DEF RemoveAt
<1> HIDE DEF l, r
<1>3. l \o r \in Seq(S) /\ Len(l \o r) = Len(l) + Len(r)
  BY <1>1, ConcatProperties
<1> QED BY <1>1, <1>2, <1>3

\* The search through the list finds the path that the order of the paths determines.
LEMMA FoundIsAbout ==
    ASSUME Len(monitored) = 3, Len(Paths) = 3, Paths \in Seq(ToSet(Paths)),
           monitored \in Seq(PathStatus), \A i \in 1 .. 3 : monitored[i].relay = Paths[i].relay,
           NEW a
    PROVE  Found(a) \in 0 .. 3 /\ \A i \in 1 .. 3 : About(a, i) <=> i = Found(a)
<1> DEFINE By(ip) == {n \in DOMAIN Paths : Paths[n].relay = ip}
<1>1. DOMAIN Paths = 1 .. 3 /\ DOMAIN monitored = 1 .. 3
  OBVIOUS
<1>2. ASSUME NEW ip
      PROVE  /\ By(ip) \in SUBSET (1 .. 3)
             /\ Lookup(ip) = IF By(ip) = {} THEN 0 ELSE Min(By(ip))
  <2>1. By(ip) = {n \in DOMAIN monitored : monitored[n].relay = ip}
    BY <1>1
  <2> QED BY <1>1, <2>1 DEF Lookup
<1>3. \A i : About(a, i) <=> \/ i \in By(a.source) /\ \A n \in By(a.source) : i <= n
                             \/ By(a.source) = {} /\ i \in By(a.destination)
                                  /\ \A n \in By(a.destination) : i <= n
  BY DEF About
<1> HIDE DEF By
<1>4. ASSUME NEW ip, By(ip) # {}
      PROVE  /\ Lookup(ip) \in By(ip) /\ Lookup(ip) \in 1 .. 3
             /\ \A n \in By(ip) : Lookup(ip) <= n
  BY <1>2, <1>4, MinOfThree
<1>5. \A ip : By(ip) = {} => Lookup(ip) = 0
  BY <1>2
<1>6. CASE By(a.source) # {}
  <2>1. Found(a) = Lookup(a.source)
    BY <1>4, <1>6 DEF Found
  <2> QED BY <1>3, <1>4, <1>6, <2>1
<1>7. CASE By(a.source) = {}
  <2>1. Found(a) = Lookup(a.destination)
    BY <1>5, <1>7 DEF Found
  <2>2. CASE By(a.destination) # {}
    BY <1>3, <1>4, <1>7, <2>1, <2>2
  <2>3. CASE By(a.destination) = {}
    BY <1>3, <1>5, <1>7, <2>1, <2>3
  <2> QED BY <2>2, <2>3
<1> QED BY <1>6, <1>7

\* One more alert about a path, later than all the others, is what the update records.
LEMMA UpdateTells ==
    ASSUME NEW p \in PathStatus, NEW H \in SUBSET (Nat \ {0}), Tells(p, H), NEW now \in 1 .. MaxSent,
           \A n \in H : n < now
    PROVE  /\ Tells(UpdatePathStatus(p, now), H \cup {now})
           /\ UpdatePathStatus(p, now) \in PathStatus
           /\ UpdatePathStatus(p, now).relay = p.relay
<1> DEFINE u == UpdatePathStatus(p, now)
<1>1. /\ u.hijacked = TRUE /\ u.last = now /\ u.relay = p.relay
      /\ u.prev = IF p.last = Null THEN p.prev ELSE p.last
  BY DEF UpdatePathStatus, PathStatus
<1>2. now \in Times /\ u \in PathStatus
  BY AlertAssumption DEF UpdatePathStatus, PathStatus, Times
<1> HIDE DEF u
<1>3. H # {} => u.prev = p.last /\ p.last \in H
  BY <1>1 DEF Tells, Null
<1>4. Tells(u, H \cup {now})
  BY <1>1, <1>3 DEF Tells
<1> QED BY <1>1, <1>2, <1>4 DEF u
-----------------------------------------------------------------------------
\* DAR starts in the strengthened invariant.
LEMMA AlertInit == Init => AlertInv
<1> SUFFICES ASSUME Init PROVE AlertInv
  OBVIOUS
<1>1. Len(Paths) \in Nat /\ Len(history) = 0 /\ Len(inbox) = 0 /\ raised = 0 /\ sent = 0
  BY AlertAssumption DEF Init
<1>2. TypeOK
  <2>1. DOMAIN monitored = {} /\ history \in Seq(Alerts) /\ inbox \in Seq(Alerts)
    BY DEF Init
  <2>2. k \in 0 .. Len(Paths) /\ sent \in 0 .. MaxSent /\ raised \in 0 .. MaxSent
    BY <1>1, AlertAssumption DEF Init
  <2> QED BY <2>1, <2>2 DEF Init, TypeOK
<1>3. CountInv
  BY <1>1 DEF Init, CountInv
<1>4. Signals(0) = 0
  BY SignalsIs, AlertAssumption
<1>5. SenderInv
  BY <1>1, <1>4 DEF Init, SenderInv
<1>6. StandaloneInv
  BY AlertAssumption DEF Init, StandaloneInv
<1> QED BY <1>2, <1>3, <1>5, <1>6 DEF AlertInv

\* The status with which a path is added.
LEMMA NewStatus ==
    ASSUME NEW i \in 1 .. Len(Paths)
    PROVE  /\ NewPathStatus(Paths[i]) \in PathStatus
           /\ \A s \in NewTestPathStatuses(Paths[i]) :
                 s \in PathStatus /\ s.relay = Paths[i].relay /\ s.hijacked = FALSE
<1>1. Paths[i] \in ToSet(Paths)
  BY AlertAssumption DEF ToSet
<1>2. Null \in Times /\ Junk \in Times
  BY DEF Times
<1>3. NewPathStatus(Paths[i]) \in PathStatus
  BY <1>1, <1>2 DEF NewPathStatus, PathStatus
<1>4. ASSUME NEW s \in NewTestPathStatuses(Paths[i])
      PROVE  s \in PathStatus /\ s.relay = Paths[i].relay /\ s.hijacked = FALSE
  <2>1. PICK t \in {Null, Junk}, u \in {Null, Junk} :
           s = [NewPathStatus(Paths[i]) EXCEPT !.prev = t, !.last = u]
    BY <1>4 DEF NewTestPathStatuses
  <2> QED BY <1>1, <1>2, <2>1 DEF NewPathStatus, PathStatus
<1> QED BY <1>3, <1>4

\* setup_each_flow and setup_dar in the sender.
LEMMA SetupStep ==
    ASSUME AlertInv, AddMonitoredPath \/ SetupDar PROVE AlertInv'
<1>1. /\ program = "sender" /\ pc = "flows" /\ Len(Paths) \in Nat
      /\ history' = <<>> /\ history = <<>> /\ UNCHANGED <<program, inbox, sent, raised>>
  BY AlertAssumption DEF AlertInv, TypeOK, CountInv, StandaloneInv, AddMonitoredPath, SetupDar
<1>2. monitored' \in Seq(PathStatus) /\ k' \in 0 .. Len(Paths) /\ pc' \in {"flows", "bind"}
      /\ (pc' # "flows" => monitored' = <<>>)
  <2>1. CASE AddMonitoredPath
    <3>1. k + 1 \in 1 .. Len(Paths)
      BY <1>1, <2>1 DEF AddMonitoredPath, AlertInv, TypeOK
    <3>2. NewPathStatus(Paths[k + 1]) \in PathStatus
      BY <3>1, NewStatus
    <3> QED BY <1>1, <2>1, <3>1, <3>2 DEF AddMonitoredPath, AlertInv, TypeOK, CountInv, InsertEnd
  <2>2. CASE SetupDar
    BY <2>2 DEF SetupDar, AlertInv, TypeOK
  <2> QED BY <2>1, <2>2
<1>3. TypeOK'
  BY <1>1, <1>2 DEF AlertInv, TypeOK
<1>4. CountInv' /\ SenderInv' /\ StandaloneInv'
  BY <1>1, <1>2 DEF AlertInv, CountInv, SenderInv, StandaloneInv
<1> QED BY <1>3, <1>4 DEF AlertInv

\* init() of the standalone program: three paths, in order, no alert about any.
LEMMA InitStandaloneStep == ASSUME AlertInv, InitStandalone PROVE AlertInv'
<1>1. /\ program = "standalone" /\ Len(Paths) = 3 /\ pc = "setup" /\ pc' = "bind"
      /\ history' = <<>> /\ history = <<>> /\ UNCHANGED <<program, k, inbox, sent, raised>>
  BY AlertAssumption DEF AlertInv, TypeOK, CountInv, StandaloneInv, SenderInv, InitStandalone
<1>2. PICK a, b, c \in PathStatus :
         /\ a.relay = Paths[1].relay /\ b.relay = Paths[2].relay /\ c.relay = Paths[3].relay
         /\ a.hijacked = FALSE /\ b.hijacked = FALSE /\ c.hijacked = FALSE
         /\ monitored' = Append(Append(Append(<<>>, a), b), c)
  <2>1. ASSUME NEW i \in 1 .. 3, NEW s \in NewTestPathStatuses(Paths[i])
        PROVE  s \in PathStatus /\ s.relay = Paths[i].relay /\ s.hijacked = FALSE
    BY <1>1, <2>1, NewStatus
  <2>2. PICK a \in NewTestPathStatuses(Paths[1]), b \in NewTestPathStatuses(Paths[2]),
             c \in NewTestPathStatuses(Paths[3]) :
                monitored' = Append(Append(Append(<<>>, a), b), c)
    BY DEF InitStandalone, InsertEnd
  <2>3. /\ a \in PathStatus /\ a.relay = Paths[1].relay /\ a.hijacked = FALSE
        /\ b \in PathStatus /\ b.relay = Paths[2].relay /\ b.hijacked = FALSE
        /\ c \in PathStatus /\ c.relay = Paths[3].relay /\ c.hijacked = FALSE
    <3>1. 1 \in 1 .. 3 /\ 2 \in 1 .. 3 /\ 3 \in 1 .. 3
      OBVIOUS
    <3> QED BY <2>1, <3>1, Zenon
  <2> QED BY <2>2, <2>3
<1>3. /\ monitored' \in Seq(PathStatus) /\ Len(monitored') = 3
      /\ monitored'[1] = a /\ monitored'[2] = b /\ monitored'[3] = c
  BY <1>2
<1>4. \A i \in 1 .. 3 : AlertsAbout(i)' = {}
  BY <1>1 DEF AlertsAbout
<1>5. TypeOK'
  BY <1>1, <1>3 DEF AlertInv, TypeOK
<1>6. CountInv' /\ SenderInv'
  BY <1>1, <1>3 DEF AlertInv, CountInv, SenderInv
<1>7. \A i \in 1 .. 3 : /\ monitored'[i].relay = Paths[i].relay
                        /\ Tells(monitored'[i], {})
  BY <1>2, <1>3 DEF Tells
<1>8. StandaloneInv'
  BY <1>1, <1>3, <1>4, <1>7 DEF StandaloneInv
<1> QED BY <1>5, <1>6, <1>8 DEF AlertInv

\* The steps that change the place alone, and the sending of alerts.
LEMMA PlaceStep ==
    ASSUME AlertInv, InitDarSocket \/ BindStandalone \/ ReadFails \/ SendAlert PROVE AlertInv'
<1>1. /\ UNCHANGED <<program, k, monitored, history, raised>>
      /\ pc' = pc \/ (pc \in {"bind", "loop"} /\ pc' \in {"loop", "deaf", "exited"})
  BY DEF InitDarSocket, BindStandalone, ReadFails, SendAlert
<1>2. inbox' \in Seq(Alerts) /\ Len(inbox) \in Nat /\ sent' \in 0 .. MaxSent
      /\ Len(history) + Len(inbox') <= sent' /\ (pc # "loop" => inbox' = inbox)
  <2>1. inbox \in Seq(Alerts) /\ Len(inbox) \in Nat /\ sent \in 0 .. MaxSent
        /\ Len(history) \in Nat /\ Len(history) + Len(inbox) <= sent
    BY DEF AlertInv, TypeOK, CountInv
  <2>2. CASE UNCHANGED <<inbox, sent>>
    BY <2>1, <2>2
  <2>3. CASE SendAlert
    <3>1. sent' \in 0 .. MaxSent /\ sent' = sent + 1
      BY <2>1, <2>3, AlertAssumption DEF SendAlert
    <3>2. CASE inbox' = inbox
      BY <2>1, <3>1, <3>2
    <3>3. ASSUME NEW a \in Alerts, inbox' = Append(inbox, a)
          PROVE  inbox' \in Seq(Alerts) /\ Len(inbox') = Len(inbox) + 1
      BY <2>1, <3>3
    <3> QED BY <2>1, <2>3, <3>1, <3>2, <3>3 DEF SendAlert
  <2> QED BY <2>2, <2>3 DEF InitDarSocket, BindStandalone, ReadFails
<1>3. TypeOK'
  BY <1>1, <1>2 DEF AlertInv, TypeOK
<1>4. CountInv' /\ SenderInv'
  BY <1>1, <1>2 DEF AlertInv, CountInv, SenderInv
<1>5. StandaloneInv'
  BY <1>1 DEF AlertInv, StandaloneInv, AlertsAbout, Tells
<1> QED BY <1>3, <1>4, <1>5 DEF AlertInv
-----------------------------------------------------------------------------
\* An alert moves from the queue to the end of the history.
LEMMA AlertMoves ==
    ASSUME AlertInv, NEW i \in DOMAIN inbox, HandleClientAlert(i)
    PROVE  /\ inbox[i] \in Alerts /\ inbox' \in Seq(Alerts) /\ Len(inbox') = Len(inbox) - 1
           /\ history' = Append(history, inbox[i]) /\ history' \in Seq(Alerts)
           /\ Len(history') = Len(history) + 1 /\ Len(history') \in 1 .. MaxSent
           /\ Len(history') + Len(inbox') <= sent
<1>1. /\ inbox \in Seq(Alerts) /\ history \in Seq(Alerts) /\ Len(inbox) \in Nat
      /\ Len(history) \in Nat /\ sent \in 0 .. MaxSent /\ Len(history) + Len(inbox) <= sent
  BY DEF AlertInv, TypeOK, CountInv
<1>2. i \in 1 .. Len(inbox) /\ inbox[i] \in Alerts
  BY <1>1
<1>3. inbox' \in Seq(Alerts) /\ Len(inbox') = Len(inbox) - 1
  BY <1>1, <1>2, RemoveAtType DEF HandleClientAlert
<1>4. history' = Append(history, inbox[i])
  BY DEF HandleClientAlert, InsertEnd
<1>5. history' \in Seq(Alerts) /\ Len(history') = Len(history) + 1
  BY <1>1, <1>2, <1>4
<1> QED BY <1>1, <1>2, <1>3, <1>4, <1>5, AlertAssumption

\* The sender, whose list is empty, counts the alert and signals from the limit on.
LEMMA SenderAlertStep == ASSUME AlertInv, HandleAlert PROVE AlertInv'
<1>1. PICK i \in DOMAIN inbox : HandleClientAlert(i)
  BY DEF HandleAlert
<1>2. /\ pc = "loop" /\ pc' = "loop" /\ program = "sender" /\ monitored = <<>>
      /\ UNCHANGED <<program, k, sent>> /\ raised = Signals(Len(history))
      /\ Len(history) \in Nat
  BY DEF HandleAlert, AlertInv, SenderInv, TypeOK
<1>3. monitored' = <<>>
  <2>1. \A ip : Lookup(ip) = 0
    BY <1>2 DEF Lookup
  <2> QED BY <1>1, <1>2, <2>1 DEF HandleClientAlert, Found
<1>4. raised' = Signals(Len(history')) /\ raised' \in 0 .. MaxSent /\ raised' <= Len(history')
  <2>1. Len(history') = Len(history) + 1 /\ Len(history') \in 1 .. MaxSent
    BY <1>1, AlertMoves
  <2>2. raised' = IF Len(history') >= MaxDarAlerts THEN raised + 1 ELSE raised
    BY DEF HandleAlert, Reaches
  <2>3. Signals(Len(history')) = IF MaxDarAlerts <= 1 THEN Len(history')
           ELSE IF Len(history') >= MaxDarAlerts THEN Len(history') - MaxDarAlerts + 1 ELSE 0
    BY <2>1, SignalsIs
  <2>4. Signals(Len(history)) = IF MaxDarAlerts <= 1 THEN Len(history)
           ELSE IF Len(history) >= MaxDarAlerts THEN Len(history) - MaxDarAlerts + 1 ELSE 0
    BY <1>2, SignalsIs
  <2> QED BY <1>2, <2>1, <2>2, <2>3, <2>4, AlertAssumption
<1>5. <<>> \in Seq(PathStatus)
  OBVIOUS
<1>6. TypeOK'
  BY <1>1, <1>2, <1>3, <1>4, <1>5, AlertMoves DEF AlertInv, TypeOK
<1>7. CountInv' /\ SenderInv' /\ StandaloneInv'
  BY <1>1, <1>2, <1>3, <1>4, AlertMoves DEF CountInv, SenderInv, StandaloneInv
<1> QED BY <1>6, <1>7 DEF AlertInv

\* The standalone program: the alert adds its time to the path it is about, and to
\* no other.
LEMMA StandaloneAlertStep == ASSUME AlertInv, HandleStandaloneAlert PROVE AlertInv'
<1>1. PICK i \in DOMAIN inbox : HandleClientAlert(i)
  BY DEF HandleStandaloneAlert
<1>2. /\ pc = "loop" /\ pc' \in {"loop", "crashed"} /\ program = "standalone"
      /\ UNCHANGED <<program, k, sent, raised>> /\ history \in Seq(Alerts)
      /\ Len(monitored) = 3 /\ Len(Paths) = 3 /\ monitored \in Seq(PathStatus)
      /\ \A j \in 1 .. 3 : monitored[j].relay = Paths[j].relay
      /\ \A j \in 1 .. 3 : Tells(monitored[j], AlertsAbout(j))
  BY DEF HandleStandaloneAlert, ShowAllPaths, AlertInv, StandaloneInv, TypeOK
<1> DEFINE a   == inbox[i]
           f   == Found(a)
           now == Len(history) + 1
<1>3. f \in 0 .. 3 /\ \A j \in 1 .. 3 : About(a, j) <=> j = f
  BY <1>2, FoundIsAbout, AlertAssumption
<1>4. now \in 1 .. MaxSent /\ DOMAIN history = 1 .. now - 1 /\ DOMAIN history' = 1 .. now
      /\ history'[now] = a /\ \A n \in 1 .. now - 1 : history'[n] = history[n]
  <2>1. history' = Append(history, a) /\ a \in Alerts /\ now \in 1 .. MaxSent
    BY <1>1, AlertMoves
  <2>2. Len(history) \in Nat /\ DOMAIN history = 1 .. Len(history)
    BY <1>2
  <2> HIDE DEF a
  <2> QED BY <1>2, <2>1, <2>2
<1>5. \A j \in 1 .. 3 : /\ AlertsAbout(j) \in SUBSET (Nat \ {0})
                        /\ \A n \in AlertsAbout(j) : n < now
  BY <1>2, <1>4 DEF AlertsAbout
<1>6. \A j \in 1 .. 3 : AlertsAbout(j)' = IF j = f THEN AlertsAbout(j) \cup {now}
                                          ELSE AlertsAbout(j)
  <2>1. ASSUME NEW j \in 1 .. 3
        PROVE  AlertsAbout(j)' = {n \in 1 .. now : About(history'[n], j)}
    BY <1>4 DEF AlertsAbout, About
  <2>2. ASSUME NEW j \in 1 .. 3
        PROVE  AlertsAbout(j) = {n \in 1 .. now - 1 : About(history[n], j)}
    BY <1>4 DEF AlertsAbout
  <2> HIDE DEF f, now, a
  <2>3. 1 .. now = (1 .. now - 1) \cup {now}
    BY <1>4
  <2> QED BY <1>3, <1>4, <2>1, <2>2, <2>3
<1>7. monitored' = IF f = 0 THEN monitored
                   ELSE [monitored EXCEPT ![f] = UpdatePathStatus(@, now)]
  BY <1>1 DEF HandleClientAlert
<1> HIDE DEF f, now, a
<1>8. \A j \in 1 .. 3 : monitored[j] \in PathStatus
  BY <1>2, ElementOfSeq
<1>9. ASSUME f # 0
      PROVE  /\ Tells(UpdatePathStatus(monitored[f], now), AlertsAbout(f) \cup {now})
             /\ UpdatePathStatus(monitored[f], now) \in PathStatus
             /\ UpdatePathStatus(monitored[f], now).relay = monitored[f].relay
  <2>1. f \in 1 .. 3 /\ now \in 1 .. MaxSent
    BY <1>3, <1>4, <1>9
  <2>2. /\ monitored[f] \in PathStatus /\ Tells(monitored[f], AlertsAbout(f))
        /\ AlertsAbout(f) \in SUBSET (Nat \ {0}) /\ \A n \in AlertsAbout(f) : n < now
    BY <1>2, <1>5, <1>8, <2>1
  <2> QED BY <2>1, <2>2, UpdateTells
<1>10. /\ monitored' \in Seq(PathStatus) /\ Len(monitored') = 3
       /\ \A j \in 1 .. 3 : monitored'[j] = IF j = f THEN UpdatePathStatus(monitored[f], now)
                                            ELSE monitored[j]
  <2>1. CASE f = 0
    BY <1>2, <1>7, <2>1
  <2>2. CASE f # 0
    BY <1>2, <1>3, <1>7, <1>9, <2>2
  <2> QED BY <2>1, <2>2
<1>11. \A j \in 1 .. 3 : /\ monitored'[j].relay = Paths[j].relay
                         /\ Tells(monitored'[j], AlertsAbout(j)')
  <2>1. ASSUME NEW j \in 1 .. 3, j = f
        PROVE  /\ monitored'[j].relay = Paths[j].relay
               /\ Tells(monitored'[j], AlertsAbout(j)')
    <3>1. /\ monitored'[j] = UpdatePathStatus(monitored[f], now)
          /\ AlertsAbout(j)' = AlertsAbout(f) \cup {now} /\ f # 0
      BY <1>6, <1>10, <2>1
    <3> QED BY <1>2, <1>9, <2>1, <3>1
  <2>2. ASSUME NEW j \in 1 .. 3, j # f
        PROVE  /\ monitored'[j].relay = Paths[j].relay
               /\ Tells(monitored'[j], AlertsAbout(j)')
    <3>1. monitored'[j] = monitored[j] /\ AlertsAbout(j)' = AlertsAbout(j)
      BY <1>6, <1>10, <2>2
    <3> QED BY <1>2, <3>1
  <2> QED BY <2>1, <2>2
<1>12. TypeOK'
  BY <1>1, <1>2, <1>10, AlertMoves DEF AlertInv, TypeOK
<1>13. CountInv' /\ SenderInv'
  BY <1>1, <1>2, AlertMoves, AlertAssumption DEF AlertInv, TypeOK, CountInv, SenderInv
<1>14. StandaloneInv'
  BY <1>2, <1>10, <1>11 DEF StandaloneInv
<1> QED BY <1>12, <1>13, <1>14 DEF AlertInv
-----------------------------------------------------------------------------
\* Every step keeps the strengthened invariant.
LEMMA AlertNext == AlertInv /\ [Next]_vars => AlertInv'
<1> SUFFICES ASSUME AlertInv, [Next]_vars PROVE AlertInv'
  OBVIOUS
<1>1. CASE Next
  BY <1>1, SetupStep, InitStandaloneStep, PlaceStep, SenderAlertStep, StandaloneAlertStep
     DEF Next
<1>2. CASE UNCHANGED vars
  <2>1. \A j : AlertsAbout(j)' = AlertsAbout(j)
    BY <1>2 DEF vars, AlertsAbout, About
  <2> QED BY <1>2, <2>1 DEF vars, AlertInv, TypeOK, CountInv, SenderInv, StandaloneInv
<1> QED BY <1>1, <1>2

\* The strengthened invariant holds throughout.
LEMMA AlertInvariant == Spec => []AlertInv
BY AlertInit, AlertNext, PTL DEF Spec

\* The lists of DAR and its counters keep their types; in particular no more alerts
\* are saved than were sent, and no more signals raised than alerts saved.
THEOREM AlertTypes == Spec => []TypeOK
<1>1. AlertInv => TypeOK
  BY DEF AlertInv
<1> QED BY <1>1, AlertInvariant, PTL

\* For every limit max_dar_alerts and every sequence of alerts: the sender raises
\* SIGUSR1 once for each alert from the limit on, about its paths or not.
THEOREM SignalsMatchAlertsAlways == Spec => []SignalsMatchAlerts
<1>1. AlertInv => SignalsMatchAlerts
  BY DEF AlertInv, SenderInv, SignalsMatchAlerts, Signals
<1> QED BY <1>1, AlertInvariant, PTL

\* For every list of three paths, relays shared or not, and every sequence of alerts:
\* the status that update_path_status keeps of a path tells whether an alert was about
\* it, and when the last two were.
THEOREM StatusReflectsHistoryAlways == Spec => []StatusReflectsHistory
<1>1. ASSUME AlertInv PROVE StatusReflectsHistory
  <2>1. ASSUME program = "standalone", NEW j \in DOMAIN monitored
        PROVE  /\ monitored[j].hijacked <=> AlertsAbout(j) # {}
               /\ AlertsAbout(j) # {} => monitored[j].last = Max(AlertsAbout(j))
               /\ Cardinality(AlertsAbout(j)) > 1 =>
                     monitored[j].prev = Max(AlertsAbout(j) \ {Max(AlertsAbout(j))})
    <3> DEFINE H == AlertsAbout(j)
               p == monitored[j]
    <3>1. Tells(p, H) /\ H \in SUBSET Int
      <4>1. history \in Seq(Alerts) /\ monitored \in Seq(PathStatus)
        BY <1>1 DEF AlertInv, TypeOK
      <4>2. DOMAIN history \subseteq Int /\ DOMAIN monitored = 1 .. Len(monitored)
        BY <4>1
      <4>3. Len(monitored) = 3 /\ \A i \in 1 .. 3 : Tells(monitored[i], AlertsAbout(i))
        BY <1>1, <2>1 DEF AlertInv, StandaloneInv
      <4>4. H \in SUBSET Int
        BY <4>2 DEF AlertsAbout
      <4> QED BY <2>1, <4>2, <4>3, <4>4
    <3> HIDE DEF H, p
    <3>2. H # {} => Max(H) = p.last
      BY <3>1, MaxIs DEF Tells
    <3>3. ASSUME Cardinality(H) > 1 PROVE p.prev = Max(H \ {p.last}) /\ H # {}
      <4>1. H # {} /\ H # {p.last}
        <5>1. Cardinality({}) = 0 /\ Cardinality({p.last}) = 1
          BY FS_EmptySet, FS_Singleton, Zenon
        <5> QED BY <3>3, <5>1
      <4>2. PICK n \in H \ {p.last} : TRUE
        BY <3>1, <4>1 DEF Tells
      <4>3. p.prev \in H \ {p.last} /\ \A m \in H \ {p.last} : m <= p.prev
        BY <3>1, <4>2 DEF Tells
      <4>4. H \ {p.last} \in SUBSET Int
        BY <3>1
      <4>5. Max(H \ {p.last}) = p.prev
        BY <4>3, <4>4, MaxIs
      <4> QED BY <4>1, <4>5
    <3>4. /\ p.hijacked <=> H # {} 
          /\ H # {} => p.last = Max(H)
          /\ Cardinality(H) > 1 => p.prev = Max(H \ {Max(H)})
      BY <3>1, <3>2, <3>3 DEF Tells
    <3> QED BY <3>4 DEF H, p
  <2> QED BY <2>1 DEF StatusReflectsHistory, AlertsAbout
<1> QED BY <1>1, AlertInvariant, PTL
=============================================================================
