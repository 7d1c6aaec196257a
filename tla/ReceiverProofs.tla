---------------------------- MODULE ReceiverProofs ----------------------------
(***************************************************************************)
(* For every number of clients, files, descriptors, restarts and hang-ups, *)
(* and every width of an int: what the receiver stores and what brings it  *)
(* down.                                                                   *)
(***************************************************************************)
EXTENDS Receiver, SequenceTheorems, FiniteSetTheorems, TLAPS

\* The clients that a thread of this process serves.
Served == {c \in Clients : tpc[c] \in {"first", "length", "open", "data", "reply"}}

\* Neither cut short by the client nor by the receiver.
Whole(c) == cpc[c] \notin {"hungup", "failed"}

\* Every thread has the socket it was started with, and accept() its reserve; no
\* thread outlives the process.
SocketInv ==
    /\ Cardinality(Served) <= sockets
    /\ rpc = "waiting" => sockets < MaxFds[mode]
    /\ rpc = "dead" => Served = {}

\* The two ends of a session.
SessionInv(c) ==
    /\ tpc[c] = "none" <=> cpc[c] \in {"idle", "refused"}
    /\ cpc[c] = "idle" => name[c] = Other /\ out[c] = 0
    /\ cpc[c] = "hungup" => hangups > 0
    /\ cpc[c] = "failed" => tpc[c] = "reset"
    /\ Open(c) \/ cpc[c] = "idle" => back[c] < Hellos
    /\ inn[c] <= out[c]

\* The file server reads what the client of a whole session sends, item by item.
FileSessionInv(c) ==
    mode = "file" =>
        /\ tpc[c] # "reply" /\ cpc[c] # "awaiting"
        /\ out[c] <= ToSend(c) /\ (cpc[c] = "done" => out[c] = ToSend(c))
        /\ tpc[c] \in {"none", "backlog", "first", "length", "open"} => got[c] = 0
        /\ Whole(c) =>
              /\ tpc[c] \in {"none", "backlog", "first"} => inn[c] = 0
              /\ tpc[c] = "length" => inn[c] = 1
              /\ tpc[c] = "open" => inn[c] = 2
              /\ tpc[c] = "data" => inn[c] = 2 + got[c]
              /\ tpc[c] = "ended" => /\ got[c] <= SendMax
                                     /\ size[c] <= SendMax => got[c] = size[c]

\* The echo server and its client take turns.
EchoSessionInv(c) ==
    mode = "echo" =>
        /\ tpc[c] \notin {"length", "open", "data"}
        /\ Whole(c) =>
              /\ out[c] = back[c] + (IF cpc[c] = "awaiting" THEN 1 ELSE 0)
              /\ tpc[c] \in {"none", "backlog", "first"} => inn[c] = back[c]
              /\ tpc[c] = "reply" => inn[c] = back[c] + 1

\* A file without a clash belongs to the thread that opened it last: still empty
\* while it is open, then what that thread received.
ContentInv(c) ==
    fname[c] \notin clash =>
        /\ tpc[c] = "data" => latest[fname[c]] = c /\ files[fname[c]] = <<>>
        /\ mode = "file" /\ tpc[c] = "ended" /\ latest[fname[c]] = c
              => files[fname[c]] = [i \in 1 .. got[c] |-> c]

\* The inductive strengthening of both invariants.
ReceiverInv ==
    /\ TypeOK /\ SocketInv /\ OrderlyClientsHarmless
    /\ \A c \in Clients : /\ SessionInv(c) /\ FileSessionInv(c) /\ EchoSessionInv(c)
                          /\ ContentInv(c)
-----------------------------------------------------------------------------
\* The receiver starts in the strengthened invariant.
LEMMA ReceiverInit == Init => ReceiverInv
<1> SUFFICES ASSUME Init PROVE ReceiverInv
  OBVIOUS
<1>1. TypeOK
  <2>1. (CHOOSE c \in Clients : TRUE) \in Clients
    BY ReceiverAssumption
  <2>2. <<>> \in Seq(Clients)
    OBVIOUS
  <2>3. 0 \in 0 .. MaxFds[mode] /\ 0 \in 0 .. MaxRestarts /\ 0 \in 0 .. MaxHangUps
        /\ 0 \in 0 .. Hellos
    BY ReceiverAssumption DEF Init
  <2>4. /\ files \in [AllNames -> Seq(Clients)] /\ latest \in [AllNames -> Clients]
        /\ clash \subseteq AllNames
    BY <2>1, <2>2 DEF Init
  <2>5. /\ name \in [Clients -> AllNames] /\ fname \in [Clients -> AllNames]
        /\ size \in [Clients -> Nat] /\ out \in [Clients -> Nat] /\ inn \in [Clients -> Nat]
        /\ got \in [Clients -> Nat] /\ back \in [Clients -> 0 .. Hellos]
    BY <2>3 DEF Init, AllNames
  <2>6. /\ cpc \in [Clients -> {"idle", "sending", "awaiting", "refused", "failed", "hungup",
                                "done"}]
        /\ tpc \in [Clients -> {"none", "backlog", "first", "length", "open", "data", "reply",
                                "ended", "reset", "orphaned"}]
    BY DEF Init
  <2>7. registered \in BOOLEAN /\ deaf \in BOOLEAN /\ lingers \in BOOLEAN /\ held \in BOOLEAN
        /\ orphan \in BOOLEAN
    BY DEF Init
  <2> QED BY <2>3, <2>4, <2>5, <2>6, <2>7 DEF Init, TypeOK
<1>2. SocketInv
  <2>1. Served = {}
    BY DEF Init, Served
  <2>2. Cardinality({}) = 0
    BY FS_EmptySet
  <2> QED BY <2>1, <2>2 DEF Init, SocketInv
<1>3. OrderlyClientsHarmless
  BY DEF Init, OrderlyClientsHarmless
<1>4. ASSUME NEW c \in Clients
      PROVE  SessionInv(c) /\ FileSessionInv(c) /\ EchoSessionInv(c) /\ ContentInv(c)
  BY ReceiverAssumption DEF Init, SessionInv, FileSessionInv, EchoSessionInv, ContentInv, ToSend,
     Open, Whole
<1> QED BY <1>1, <1>2, <1>3, <1>4 DEF ReceiverInv

\* What a session is about is kept by steps that leave it alone.
LEMMA SessionFrame ==
    ASSUME NEW c \in Clients, ReceiverInv, mode' = mode, hangups \in Nat, hangups' \in Nat,
           hangups <= hangups', tpc'[c] = tpc[c], cpc'[c] = cpc[c], inn'[c] = inn[c],
           out'[c] = out[c], back'[c] = back[c], name'[c] = name[c], size'[c] = size[c],
           got'[c] = got[c]
    PROVE  SessionInv(c)' /\ FileSessionInv(c)' /\ EchoSessionInv(c)'
<1>1. SessionInv(c) /\ FileSessionInv(c) /\ EchoSessionInv(c)
  BY DEF ReceiverInv
<1>2. SessionInv(c)'
  BY <1>1 DEF SessionInv, Open
<1>3. FileSessionInv(c)'
  BY <1>1 DEF FileSessionInv, ToSend, Whole
<1>4. EchoSessionInv(c)'
  BY <1>1 DEF EchoSessionInv, Whole
<1> QED BY <1>2, <1>3, <1>4

\* The clients are finitely many, so that those served can be counted.
LEMMA ServedFinite == IsFiniteSet(Served) /\ Cardinality(Served) \in Nat
<1>1. IsFiniteSet(Served)
  BY FS_Subset, ReceiverAssumption DEF Served
<1> QED BY <1>1, FS_CardinalityType

\* No more are served if no thread is started.
LEMMA ServedShrinks ==
    ASSUME SocketInv, sockets \in Nat, sockets' = sockets, mode' = mode,
           rpc' = "waiting" => sockets < MaxFds[mode],
           rpc' = "dead" => rpc = "dead" \/ Served' = {},
           Served' \subseteq Served
    PROVE  SocketInv'
<1>1. Cardinality(Served') <= Cardinality(Served) /\ Cardinality(Served') \in Nat
  BY ServedFinite, FS_Subset, FS_CardinalityType
<1> QED BY <1>1, ServedFinite DEF SocketInv

\* The threads that write use no more descriptors than those served.
LEMMA UsedBound ==
    ASSUME ReceiverInv
    PROVE  /\ Used \in Nat /\ sockets \in Nat /\ sockets <= Used
           /\ Used <= 2 * sockets + (IF rpc = "waiting" THEN 1 ELSE 0)
<1> DEFINE W == {c \in Clients : tpc[c] = "data"}
<1>1. W \subseteq Served
  BY DEF Served
<1>2. IsFiniteSet(W) /\ Cardinality(W) \in Nat /\ Cardinality(W) <= Cardinality(Served)
  BY <1>1, ServedFinite, FS_Subset, FS_CardinalityType
<1>3. sockets \in Nat /\ Cardinality(Served) <= sockets /\ Cardinality(Served) \in Nat
  BY ServedFinite, ReceiverAssumption DEF ReceiverInv, SocketInv, TypeOK
<1>4. Used = sockets + Cardinality(W) + (IF rpc = "waiting" THEN 1 ELSE 0)
  BY DEF Used
<1> HIDE DEF W
<1> QED BY <1>2, <1>3, <1>4
-----------------------------------------------------------------------------
\* The main thread's steps that concern no client, and the start of the CryptoPing
\* server.
LEMMA MainStep ==
    ASSUME ReceiverInv, \/ GetInterfaces \/ RegisterToManager \/ RunDarshanaServer \/ RunCommand
                        \/ Listen \/ CallAccept
    PROVE  ReceiverInv'
<1>1. UNCHANGED <<mode, sockets, clientVars, threadVars, fileVars, restarts>>
  BY DEF GetInterfaces, RegisterToManager, RunDarshanaServer, RunCommand, Listen, CallAccept
<1>2. /\ rpc' \in {"interfaces", "register", "darshana", "listen", "accept", "waiting", "dead"}
      /\ fork' \in {"none", "pending", "done"}
      /\ rpc' = "dead" => rpc = "dead"
  BY DEF GetInterfaces, RegisterToManager, RunDarshanaServer, RunCommand, Listen, CallAccept,
         Main, ReceiverInv, TypeOK
<1>3. /\ registered' \in BOOLEAN /\ deaf' \in BOOLEAN /\ lingers' \in BOOLEAN
      /\ held' \in BOOLEAN /\ orphan' \in BOOLEAN
  <2>1. /\ registered \in BOOLEAN /\ deaf \in BOOLEAN /\ lingers \in BOOLEAN
        /\ held \in BOOLEAN /\ orphan \in BOOLEAN
    BY DEF ReceiverInv, TypeOK
  <2>2. UNCHANGED <<lingers, orphan>> /\ (registered' = registered \/ registered' = TRUE)
    BY DEF GetInterfaces, RegisterToManager, RunDarshanaServer, RunCommand, Listen, CallAccept
  <2>3. deaf' = deaf \/ deaf' \in BOOLEAN
    <3>1. CASE Listen
      BY <3>1 DEF Listen
    <3>2. CASE ~Listen
      BY <3>2 DEF GetInterfaces, RegisterToManager, RunDarshanaServer, RunCommand, CallAccept
    <3> QED BY <3>1, <3>2
  <2>4. held' = held \/ held' \in BOOLEAN
    <3>1. CASE RunCommand
      BY <3>1 DEF RunCommand
    <3>2. CASE ~RunCommand
      BY <3>2 DEF GetInterfaces, RegisterToManager, RunDarshanaServer, Listen, CallAccept
    <3> QED BY <3>1, <3>2
  <2> QED BY <2>1, <2>2, <2>3, <2>4, Zenon
<1>4. TypeOK'
  BY <1>1, <1>2, <1>3 DEF ReceiverInv, TypeOK, clientVars, threadVars, fileVars
<1>5. SocketInv'
  <2>1. rpc' = "waiting" => sockets < MaxFds[mode]
    <3>1. CASE CallAccept
      <4>1. Used < MaxFds[mode] /\ mode \in Modes /\ MaxFds[mode] \in Nat
        BY <3>1, ReceiverAssumption DEF CallAccept, ReceiverInv, TypeOK
      <4> QED BY <4>1, UsedBound
    <3>2. CASE ~CallAccept
      <4>1. rpc' = "waiting" => rpc = "waiting"
        BY <3>2 DEF GetInterfaces, RegisterToManager, RunDarshanaServer, RunCommand, Listen, Main
      <4> QED BY <4>1 DEF ReceiverInv, SocketInv
    <3> QED BY <3>1, <3>2
  <2>2. Served' = Served
    BY <1>1 DEF Served, threadVars
  <2> QED BY <1>1, <1>2, <2>1, <2>2, ServedShrinks, UsedBound DEF ReceiverInv
<1>6. OrderlyClientsHarmless'
  BY <1>1, <1>2 DEF ReceiverInv, OrderlyClientsHarmless, clientVars
<1>7. ASSUME NEW c \in Clients
      PROVE  SessionInv(c)' /\ FileSessionInv(c)' /\ EchoSessionInv(c)'
  <2>1. hangups \in Nat
    BY ReceiverAssumption DEF ReceiverInv, TypeOK
  <2> QED BY <1>1, <2>1, SessionFrame DEF clientVars, threadVars
<1>8. \A c \in Clients : ContentInv(c)'
  BY <1>1 DEF ReceiverInv, ContentInv, threadVars, fileVars
<1> QED BY <1>4, <1>5, <1>6, <1>7, <1>8 DEF ReceiverInv

\* What the end of the process does to its threads.
LEMMA DiesThreads ==
    ASSUME TypeOK, Dies, NEW c \in Clients
    PROVE  \/ tpc'[c] = tpc[c] /\ tpc[c] \in {"none", "reset", "orphaned", "ended"}
           \/ tpc'[c] \in {"reset", "orphaned"} /\ tpc[c] \notin {"none", "reset", "orphaned"}
BY DEF TypeOK, Dies

\* The end of the process is survived by what is on the disk and by the sessions that
\* were over, and is excused.
LEMMA DiesStep ==
    ASSUME ReceiverInv, Dies, UNCHANGED clientVars,
           \/ hangups > 0
           \/ mode = "file" /\ \E c \in Clients : name[c] \in Missing
           \/ mode = "file" /\ 2 * sockets + 1 >= MaxFds[mode]
    PROVE  ReceiverInv'
<1>1. /\ UNCHANGED <<mode, sockets, restarts, inn, fname, got, files, latest, clash, registered,
                     deaf, held, name, size, cpc, out, back, hangups>>
      /\ rpc' = "dead" /\ fork' = "none"
  BY DEF Dies, fileVars, clientVars
<1>2. \A c \in Clients :
         \/ tpc'[c] = tpc[c] /\ tpc[c] \in {"none", "reset", "orphaned", "ended"}
         \/ tpc'[c] \in {"reset", "orphaned"} /\ tpc[c] \notin {"none", "reset", "orphaned"}
  BY DiesThreads DEF ReceiverInv
<1>3. TypeOK'
  <2>1. lingers' \in BOOLEAN /\ orphan' \in BOOLEAN
    BY DEF Dies
  <2>2. tpc' \in [Clients -> {"none", "backlog", "first", "length", "open", "data", "reply",
                              "ended", "reset", "orphaned"}]
    <3>1. \A c \in Clients : tpc'[c] \in {"none", "ended", "reset", "orphaned"}
      BY <1>2
    <3>2. tpc' = [c \in Clients |-> tpc'[c]]
      BY DEF Dies
    <3> QED BY <3>1, <3>2
  <2> QED BY <1>1, <2>1, <2>2 DEF ReceiverInv, TypeOK
<1>4. SocketInv'
  <2>1. Served' = {}
    BY <1>2 DEF Served
  <2> QED BY <1>1, <2>1, ServedShrinks, UsedBound DEF ReceiverInv
<1>5. OrderlyClientsHarmless'
  BY <1>1 DEF OrderlyClientsHarmless
<1>6. ASSUME NEW c \in Clients
      PROVE  SessionInv(c)' /\ FileSessionInv(c)' /\ EchoSessionInv(c)' /\ ContentInv(c)'
  <2>1. SessionInv(c) /\ FileSessionInv(c) /\ EchoSessionInv(c) /\ ContentInv(c)
    BY DEF ReceiverInv
  <2>2. SessionInv(c)'
    BY <1>1, <1>2, <2>1 DEF SessionInv, Open
  <2>3. FileSessionInv(c)'
    BY <1>1, <1>2, <2>1 DEF FileSessionInv, ToSend, Whole
  <2>4. EchoSessionInv(c)'
    BY <1>1, <1>2, <2>1 DEF EchoSessionInv, Whole
  <2>5. ContentInv(c)'
    BY <1>1, <1>2, <2>1 DEF ContentInv
  <2> QED BY <2>2, <2>3, <2>4, <2>5
<1> QED BY <1>3, <1>4, <1>5, <1>6 DEF ReceiverInv
\* A restart begins without threads; those of the dead process have ended.
LEMMA RestartStep ==
    ASSUME ReceiverInv, Restart PROVE ReceiverInv'
<1>1. /\ rpc = "dead" /\ UNCHANGED <<mode, registered, lingers, fork, orphan, clientVars, threadVars, fileVars>>
      /\ rpc' = "interfaces" /\ sockets' = 0 /\ restarts < MaxRestarts
      /\ restarts' = restarts + 1 /\ held' = FALSE /\ deaf' = FALSE
  BY DEF Restart, Main
<1>2. restarts' \in 0 .. MaxRestarts /\ hangups \in Nat /\ 0 \in 0 .. MaxFds[mode]
  BY <1>1, ReceiverAssumption DEF ReceiverInv, TypeOK
<1>3. TypeOK'
  BY <1>1, <1>2 DEF ReceiverInv, TypeOK, clientVars, threadVars, fileVars
<1>4. SocketInv'
  <2>1. Served' = {} /\ Cardinality({}) = 0
    BY <1>1, FS_EmptySet DEF Served, threadVars, ReceiverInv, SocketInv
  <2> QED BY <1>1, <2>1 DEF SocketInv
<1>5. OrderlyClientsHarmless'
  BY <1>1 DEF OrderlyClientsHarmless
<1>6. ASSUME NEW c \in Clients
      PROVE  SessionInv(c)' /\ FileSessionInv(c)' /\ EchoSessionInv(c)'
  BY <1>1, <1>2, SessionFrame DEF clientVars, threadVars
<1>7. \A c \in Clients : ContentInv(c)'
  BY <1>1 DEF ReceiverInv, ContentInv, threadVars, fileVars
<1> QED BY <1>3, <1>4, <1>5, <1>6, <1>7 DEF ReceiverInv
\* What the invariant says of one client.
LEMMA OfClient ==
    ASSUME ReceiverInv, NEW c \in Clients
    PROVE  /\ TypeOK /\ SocketInv /\ OrderlyClientsHarmless
           /\ SessionInv(c) /\ FileSessionInv(c) /\ EchoSessionInv(c) /\ ContentInv(c)
           /\ hangups \in 0 .. MaxHangUps /\ hangups \in Nat /\ sockets \in Nat
           /\ mode \in {"file", "echo"} /\ mode \in Modes
           /\ out[c] \in Nat /\ inn[c] \in Nat /\ back[c] \in Nat /\ got[c] \in Nat
           /\ size[c] \in Nat /\ ToSend(c) \in Nat /\ ToSend(c) <= 2 + SendMax
<1>1. /\ TypeOK /\ SocketInv /\ OrderlyClientsHarmless
      /\ SessionInv(c) /\ FileSessionInv(c) /\ EchoSessionInv(c) /\ ContentInv(c)
  BY DEF ReceiverInv
<1>2. /\ hangups \in 0 .. MaxHangUps /\ hangups \in Nat /\ sockets \in Nat
      /\ mode \in {"file", "echo"} /\ mode \in Modes
  BY <1>1, ReceiverAssumption DEF TypeOK
<1>3. /\ out[c] \in Nat /\ inn[c] \in Nat /\ back[c] \in Nat /\ got[c] \in Nat
      /\ size[c] \in Nat
  BY <1>1, ReceiverAssumption DEF TypeOK
<1>4. ToSend(c) \in Nat /\ ToSend(c) <= 2 + SendMax
  BY <1>3, ReceiverAssumption DEF ToSend
<1> QED BY <1>1, <1>2, <1>3, <1>4

\* A file is left alone by the steps of threads that neither open nor close one.
LEMMA ContentFrame ==
    ASSUME NEW c \in Clients, ReceiverInv, UNCHANGED <<mode, files, latest, clash>>,
           fname'[c] = fname[c], got'[c] = got[c] \/ tpc'[c] = "data",
           \/ tpc'[c] = tpc[c] \/ tpc'[c] \notin {"data", "ended"}
           \/ mode = "echo" /\ tpc'[c] = "ended"
    PROVE  ContentInv(c)'
<1>1. ContentInv(c)
  BY DEF ReceiverInv
<1> QED BY <1>1 DEF ContentInv

\* The accepted connection has a thread and a socket more.
LEMMA AcceptStep == ASSUME ReceiverInv, NEW c \in Clients, AcceptClient(c) PROVE ReceiverInv'
<1>1. /\ UNCHANGED <<mode, registered, deaf, lingers, fork, held, orphan, restarts, inn, fname,
                     got, files, latest, clash, name, size, cpc, out, back, hangups>>
      /\ rpc = "waiting" /\ rpc' = "accept" /\ tpc[c] = "backlog" /\ sockets' = sockets + 1
      /\ tpc' = [tpc EXCEPT ![c] = "first"]
  BY DEF AcceptClient, Accepted, Main, clientVars, fileVars
<1>2. /\ TypeOK /\ SocketInv /\ SessionInv(c) /\ FileSessionInv(c) /\ EchoSessionInv(c)
      /\ hangups \in Nat
  BY OfClient
<1>3. tpc'[c] = "first" /\ \A d \in Clients \ {c} : tpc'[d] = tpc[d]
  BY <1>1, <1>2 DEF TypeOK
<1>4. sockets \in Nat /\ MaxFds[mode] \in Nat /\ sockets < MaxFds[mode]
  BY <1>1, <1>2, ReceiverAssumption DEF TypeOK, SocketInv
<1>5. sockets' \in 0 .. MaxFds[mode]
  BY <1>1, <1>4
<1>6. TypeOK'
  BY <1>1, <1>2, <1>5 DEF TypeOK
<1>7. SocketInv'
  <2>1. Served' = Served \cup {c} /\ c \notin Served
    BY <1>1, <1>3 DEF Served
  <2>2. Cardinality(Served') = Cardinality(Served) + 1
    BY <2>1, ServedFinite, FS_AddElement
  <2> QED BY <1>1, <1>2, <1>4, <2>2, ServedFinite DEF SocketInv
<1>8. OrderlyClientsHarmless'
  BY <1>1 DEF OrderlyClientsHarmless
<1>9. ASSUME NEW d \in Clients
      PROVE  SessionInv(d)' /\ FileSessionInv(d)' /\ EchoSessionInv(d)' /\ ContentInv(d)'
  <2>1. ContentInv(d)'
    BY <1>1, <1>3, ContentFrame
  <2>2. CASE d # c
    BY <1>1, <1>2, <1>3, <2>1, <2>2, SessionFrame
  <2>3. CASE d = c
    <3>1. SessionInv(c)'
      BY <1>1, <1>2, <1>3 DEF SessionInv, Open
    <3>2. FileSessionInv(c)'
      BY <1>1, <1>2, <1>3 DEF FileSessionInv, ToSend, Whole
    <3>3. EchoSessionInv(c)'
      BY <1>1, <1>2, <1>3 DEF EchoSessionInv, Whole
    <3> QED BY <2>1, <2>3, <3>1, <3>2, <3>3
  <2> QED BY <2>2, <2>3
<1> QED BY <1>6, <1>7, <1>8, <1>9 DEF ReceiverInv
-----------------------------------------------------------------------------
\* What the steps of a client have in common: they concern its own session, and no
\* thread is started or file touched.
LEMMA ClientFrame ==
    ASSUME ReceiverInv, NEW c \in Clients,
           UNCHANGED <<mode, rpc, registered, deaf, lingers, fork, held, orphan, restarts,
                       sockets, inn, fname, got, files, latest, clash>>,
           TypeOK', hangups <= hangups',
           \A d \in Clients \ {c} :
              /\ tpc'[d] = tpc[d] /\ cpc'[d] = cpc[d] /\ out'[d] = out[d] /\ back'[d] = back[d]
              /\ name'[d] = name[d] /\ size'[d] = size[d],
           tpc'[c] = tpc[c] \/ tpc'[c] \in {"backlog", "orphaned"},
           name'[c] = name[c] \/ cpc[c] = "idle",
           SessionInv(c)', FileSessionInv(c)', EchoSessionInv(c)'
    PROVE  ReceiverInv'
<1>1. hangups \in Nat /\ hangups' \in Nat /\ sockets \in Nat
  BY ReceiverAssumption DEF ReceiverInv, TypeOK
<1>2. SocketInv'
  <2>1. Served' \subseteq Served
    BY DEF Served
  <2>2. rpc = "waiting" => sockets < MaxFds[mode]
    BY DEF ReceiverInv, SocketInv
  <2> QED BY <1>1, <2>1, <2>2, ServedShrinks DEF ReceiverInv
<1>3. OrderlyClientsHarmless'
  <2>1. \A d \in Clients : name[d] \in Missing => name'[d] \in Missing
    BY ReceiverAssumption DEF ReceiverInv, SessionInv
  <2> QED BY <1>1, <2>1 DEF ReceiverInv, OrderlyClientsHarmless
<1>4. ASSUME NEW d \in Clients
      PROVE  SessionInv(d)' /\ FileSessionInv(d)' /\ EchoSessionInv(d)' /\ ContentInv(d)'
  <2>1. ContentInv(d)'
    BY ContentFrame
  <2>2. CASE d # c
    BY <1>1, <2>1, <2>2, SessionFrame
  <2>3. CASE d = c
    BY <2>1, <2>3
  <2> QED BY <2>2, <2>3
<1> QED BY <1>2, <1>3, <1>4 DEF ReceiverInv

\* A new session starts with nothing sent, in the backlog of this receiver or in that
\* of a dead one.
LEMMA ConnectStep == ASSUME ReceiverInv, NEW c \in Clients, ConnectReceiver(c) PROVE ReceiverInv'
<1>1. /\ UNCHANGED <<mode, rpc, registered, deaf, lingers, fork, held, orphan, restarts, sockets,
                     inn, fname, got, files, latest, clash, out, back, hangups>>
      /\ cpc[c] = "idle"
  BY DEF ConnectReceiver, mainVars, fileVars
<1>2. /\ TypeOK /\ SessionInv(c) /\ FileSessionInv(c) /\ EchoSessionInv(c) /\ hangups \in Nat
      /\ tpc[c] = "none" /\ out[c] = 0 /\ inn[c] = 0 /\ Whole(c) /\ back[c] \in Nat
  <2>1. tpc[c] = "none" /\ out[c] = 0 /\ inn[c] = 0 /\ Whole(c)
    BY <1>1, OfClient DEF SessionInv, Whole
  <2> QED BY <2>1, OfClient
<1>3. CASE To(c, "refused") /\ UNCHANGED tpc
  <2>1. /\ cpc'[c] = "refused" /\ UNCHANGED <<name, size, tpc>>
        /\ \A d \in Clients \ {c} : cpc'[d] = cpc[d]
    BY <1>2, <1>3 DEF To, TypeOK
  <2>2. TypeOK'
    BY <1>1, <1>2, <1>3 DEF TypeOK, To
  <2>3. SessionInv(c)' /\ FileSessionInv(c)' /\ EchoSessionInv(c)'
    BY <1>1, <1>2, <2>1 DEF SessionInv, FileSessionInv, EchoSessionInv, Whole, Open, ToSend
  <2> QED BY <1>1, <1>2, <2>1, <2>2, <2>3, ClientFrame
<1>4. CASE ~(To(c, "refused") /\ UNCHANGED tpc)
  <2>1. /\ tpc' = [tpc EXCEPT ![c] = "backlog"] \/ tpc' = [tpc EXCEPT ![c] = "orphaned"]
        /\ cpc' = [cpc EXCEPT ![c] = "sending"]
        /\ \/ \E f \in Files : /\ name' = [name EXCEPT ![c] = f[1]]
                               /\ size' = [size EXCEPT ![c] = f[2]]
           \/ UNCHANGED <<name, size>>
    BY <1>4 DEF ConnectReceiver
  <2>2. name' \in [Clients -> AllNames] /\ size' \in [Clients -> Nat]
        /\ \A d \in Clients \ {c} : name'[d] = name[d] /\ size'[d] = size[d]
    BY <1>2, <2>1, ReceiverAssumption DEF TypeOK, AllNames
  <2>3. /\ tpc'[c] \in {"backlog", "orphaned"} /\ cpc'[c] = "sending"
        /\ \A d \in Clients \ {c} : tpc'[d] = tpc[d] /\ cpc'[d] = cpc[d]
    BY <1>2, <2>1 DEF TypeOK
  <2>4. TypeOK'
    <3>1. /\ cpc' \in [Clients -> {"idle", "sending", "awaiting", "refused", "failed", "hungup",
                                   "done"}]
          /\ tpc' \in [Clients -> {"none", "backlog", "first", "length", "open", "data",
                                   "reply", "ended", "reset", "orphaned"}]
      BY <1>2, <2>1 DEF TypeOK
    <3> QED BY <1>1, <1>2, <2>2, <3>1 DEF TypeOK
  <2>5. SessionInv(c)'
    BY <1>1, <1>2, <2>3 DEF SessionInv, Open
  <2>6. FileSessionInv(c)'
    <3>1. ToSend(c)' \in Nat
      BY <2>2, ReceiverAssumption DEF ToSend
    <3> QED BY <1>1, <1>2, <2>3, <3>1 DEF FileSessionInv, Whole
  <2>7. EchoSessionInv(c)'
    BY <1>1, <1>2, <2>3 DEF EchoSessionInv, Whole
  <2> QED BY <1>1, <1>2, <2>2, <2>3, <2>4, <2>5, <2>6, <2>7, ClientFrame
<1> QED BY <1>3, <1>4

\* The client of the file server sends what there is to send and is done.
LEMMA FileClientStep ==
    ASSUME ReceiverInv, NEW c \in Clients, SendFile(c) \/ FinishFile(c) PROVE ReceiverInv'
<1>1. /\ UNCHANGED <<mode, rpc, registered, deaf, lingers, fork, held, orphan, restarts, sockets,
                     inn, fname, got, files, latest, clash, back, hangups, tpc, name, size>>
      /\ cpc[c] = "sending" /\ mode = "file"
  BY DEF SendFile, FinishFile, mainVars, fileVars, threadVars, To
<1>2. /\ TypeOK /\ SessionInv(c) /\ FileSessionInv(c) /\ EchoSessionInv(c) /\ hangups \in Nat
      /\ ToSend(c) \in Nat /\ out[c] \in Nat
  BY OfClient
<1>3. /\ \/ cpc'[c] = "failed" /\ tpc[c] = "reset" /\ out'[c] = out[c]
         \/ cpc'[c] = "sending" /\ out'[c] = out[c] + 1 /\ out[c] < ToSend(c)
         \/ cpc'[c] = "done" /\ out'[c] = out[c] /\ out[c] = ToSend(c)
      /\ \A d \in Clients \ {c} : cpc'[d] = cpc[d] /\ out'[d] = out[d]
  BY <1>2 DEF SendFile, FinishFile, To, TypeOK
<1>4. TypeOK'
  <2>1. /\ cpc' \in [Clients -> {"idle", "sending", "awaiting", "refused", "failed", "hungup",
                                 "done"}]
        /\ out' \in [Clients -> Nat]
    <3>1. cpc' \in [Clients -> {"idle", "sending", "awaiting", "refused", "failed", "hungup",
                                 "done"}]
      BY <1>2 DEF SendFile, FinishFile, To, TypeOK
    <3>2. out' = out \/ out' = [out EXCEPT ![c] = @ + 1]
      BY DEF SendFile, FinishFile
    <3>3. out \in [Clients -> Nat]
      BY <1>2 DEF TypeOK
    <3>4. out' \in [Clients -> Nat]
      <4>1. out[c] + 1 \in Nat
        BY <1>2
      <4> QED BY <3>2, <3>3, <4>1
    <3> QED BY <3>1, <3>4
  <2> QED BY <1>1, <1>2, <2>1 DEF TypeOK
<1>5. inn[c] \in Nat /\ out[c] \in Nat /\ ToSend(c)' = ToSend(c)
  BY <1>1, <1>2 DEF TypeOK, ToSend
<1>6. SessionInv(c)'
  BY <1>1, <1>2, <1>3, <1>5 DEF SessionInv, Open
<1>7. FileSessionInv(c)'
  BY <1>1, <1>2, <1>3, <1>5 DEF FileSessionInv, Whole
<1>8. EchoSessionInv(c)'
  BY <1>1 DEF EchoSessionInv
<1> QED BY <1>1, <1>2, <1>3, <1>4, <1>6, <1>7, <1>8, ClientFrame

\* The client of the echo server sends in its turn, or finds the connection reset.
LEMMA EchoClientStep ==
    ASSUME ReceiverInv, NEW c \in Clients, SendHello(c) \/ EchoFails(c) PROVE ReceiverInv'
<1>1. /\ UNCHANGED <<mode, rpc, registered, deaf, lingers, fork, held, orphan, restarts, sockets,
                     inn, fname, got, files, latest, clash, back, hangups, tpc, name, size>>
      /\ Open(c)
  BY DEF SendHello, EchoFails, mainVars, fileVars, threadVars, To, Open
<1>2. /\ TypeOK /\ SessionInv(c) /\ FileSessionInv(c) /\ EchoSessionInv(c) /\ hangups \in Nat
      /\ mode \in {"file", "echo"} /\ inn[c] \in Nat /\ out[c] \in Nat /\ back[c] \in Nat
  BY OfClient
<1>3. /\ \/ /\ cpc[c] = "awaiting" /\ cpc'[c] = "failed" /\ tpc[c] = "reset" /\ out'[c] = out[c]
            /\ mode = "echo"
         \/ cpc[c] = "sending" /\ cpc'[c] = "awaiting" /\ out'[c] = out[c] + 1 /\ mode = "echo"
      /\ \A d \in Clients \ {c} : cpc'[d] = cpc[d] /\ out'[d] = out[d]
  BY <1>2 DEF SendHello, EchoFails, To, TypeOK, FileSessionInv
<1>4. TypeOK'
  <2>1. /\ cpc' \in [Clients -> {"idle", "sending", "awaiting", "refused", "failed", "hungup",
                                 "done"}]
        /\ out' \in [Clients -> Nat]
    <3>1. cpc' \in [Clients -> {"idle", "sending", "awaiting", "refused", "failed", "hungup",
                                 "done"}]
      BY <1>2 DEF SendHello, EchoFails, To, TypeOK
    <3>2. out' = out \/ out' = [out EXCEPT ![c] = @ + 1]
      BY DEF SendHello, EchoFails
    <3>3. out \in [Clients -> Nat]
      BY <1>2 DEF TypeOK
    <3>4. out' \in [Clients -> Nat]
      <4>1. out[c] + 1 \in Nat
        BY <1>2
      <4> QED BY <3>2, <3>3, <4>1
    <3> QED BY <3>1, <3>4
  <2> QED BY <1>1, <1>2, <2>1 DEF TypeOK
<1>5. SessionInv(c)'
  BY <1>1, <1>2, <1>3 DEF SessionInv, Open
<1>6. FileSessionInv(c)'
  BY <1>1, <1>3 DEF FileSessionInv
<1>7. EchoSessionInv(c)'
  BY <1>1, <1>2, <1>3 DEF EchoSessionInv, Whole
<1> QED BY <1>1, <1>2, <1>3, <1>4, <1>5, <1>6, <1>7, ClientFrame

\* A client that vanishes is counted.
LEMMA HangUpStep == ASSUME ReceiverInv, NEW c \in Clients, HangUp(c) PROVE ReceiverInv'
<1>1. /\ UNCHANGED <<mode, rpc, registered, deaf, lingers, fork, held, orphan, restarts, sockets,
                     inn, fname, got, files, latest, clash, back, tpc, name, size, out>>
      /\ Open(c) /\ hangups' = hangups + 1 /\ hangups < MaxHangUps
  BY DEF HangUp, mainVars, fileVars, threadVars, To, Open
<1>2. /\ TypeOK /\ SessionInv(c) /\ FileSessionInv(c) /\ EchoSessionInv(c)
      /\ hangups' \in 0 .. MaxHangUps /\ hangups' > 0 /\ hangups <= hangups'
  <2>1. hangups' \in 0 .. MaxHangUps /\ hangups' > 0 /\ hangups <= hangups'
    BY <1>1, OfClient, ReceiverAssumption
  <2> QED BY <2>1, OfClient
<1>3. cpc'[c] = "hungup" /\ \A d \in Clients \ {c} : cpc'[d] = cpc[d]
  BY <1>2 DEF HangUp, To, TypeOK
<1>4. TypeOK'
  <2>1. cpc' \in [Clients -> {"idle", "sending", "awaiting", "refused", "failed", "hungup",
                              "done"}]
    BY <1>2 DEF HangUp, To, TypeOK
  <2> QED BY <1>1, <1>2, <2>1 DEF TypeOK
<1>5. SessionInv(c)' /\ EchoSessionInv(c)'
  BY <1>1, <1>2, <1>3 DEF SessionInv, Open, EchoSessionInv, Whole
<1>6. FileSessionInv(c)'
  BY <1>1, <1>2, <1>3 DEF FileSessionInv, Whole, ToSend
<1> QED BY <1>1, <1>2, <1>3, <1>4, <1>5, <1>6, ClientFrame
-----------------------------------------------------------------------------
\* What the steps of a thread have in common: they concern the session it serves.
LEMMA ThreadFrame ==
    ASSUME ReceiverInv, NEW c \in Clients, c \in Served,
           UNCHANGED <<mode, rpc, registered, deaf, lingers, fork, held, orphan, restarts,
                       sockets, hangups, name, size, out>>,
           TypeOK',
           \A d \in Clients \ {c} :
              /\ tpc'[d] = tpc[d] /\ cpc'[d] = cpc[d] /\ inn'[d] = inn[d] /\ back'[d] = back[d]
              /\ fname'[d] = fname[d] /\ got'[d] = got[d],
           SessionInv(c)', FileSessionInv(c)', EchoSessionInv(c)',
           \A d \in Clients : ContentInv(d)'
    PROVE  ReceiverInv'
<1>1. hangups \in Nat /\ sockets \in Nat
  BY OfClient
<1>2. SocketInv'
  <2>1. Served' \subseteq Served
    BY DEF Served
  <2>2. rpc = "waiting" => sockets < MaxFds[mode]
    BY DEF ReceiverInv, SocketInv
  <2> QED BY <1>1, <2>1, <2>2, ServedShrinks DEF ReceiverInv
<1>3. OrderlyClientsHarmless'
  BY DEF ReceiverInv, OrderlyClientsHarmless
<1>4. ASSUME NEW d \in Clients
      PROVE  SessionInv(d)' /\ FileSessionInv(d)' /\ EchoSessionInv(d)'
  <2>1. CASE d # c
    BY <1>1, <2>1, SessionFrame
  <2>2. CASE d = c
    BY <2>2
  <2> QED BY <2>1, <2>2
<1> QED BY <1>2, <1>3, <1>4 DEF ReceiverInv

\* A thread moves on, and has read an item or not.
LEMMA ThreadTypes ==
    ASSUME TypeOK, NEW c \in Clients,
           NEW l \in {"first", "length", "open", "data", "reply", "ended"},
           tpc' = tpc \/ Thread(c, l), Read(c) \/ UNCHANGED inn
    PROVE  /\ tpc' \in [Clients -> {"none", "backlog", "first", "length", "open", "data",
                                    "reply", "ended", "reset", "orphaned"}]
           /\ inn' \in [Clients -> Nat]
           /\ \A d \in Clients \ {c} : tpc'[d] = tpc[d] /\ inn'[d] = inn[d]
           /\ Thread(c, l) => tpc'[c] = l
           /\ Read(c) => inn'[c] = inn[c] + 1
<1>1. /\ tpc \in [Clients -> {"none", "backlog", "first", "length", "open", "data",
                              "reply", "ended", "reset", "orphaned"}]
      /\ inn \in [Clients -> Nat]
  BY DEF TypeOK
<1>2. inn[c] + 1 \in Nat
  BY <1>1
<1> QED BY <1>1, <1>2 DEF Thread, Read

\* The header is read item by item, and its end is not looked at.
LEMMA HeaderStep == ASSUME ReceiverInv, NEW c \in Clients, ReceiveHeader(c) PROVE ReceiverInv'
<1>1. /\ UNCHANGED <<mode, rpc, registered, deaf, lingers, fork, held, orphan, restarts, sockets,
                     fname, got, files, latest, clash, name, size, cpc, out, back, hangups>>
      /\ mode = "file"
      /\ \/ tpc[c] = "first" /\ Thread(c, "length")
         \/ tpc[c] = "length" /\ Thread(c, "open")
      /\ \/ Unread(c) /\ Read(c)
         \/ AtEnd(c) /\ UNCHANGED inn
  BY DEF ReceiveHeader, mainVars, clientVars, fileVars
<1>2. /\ TypeOK /\ SessionInv(c) /\ FileSessionInv(c) /\ EchoSessionInv(c)
      /\ out[c] \in Nat /\ inn[c] \in Nat /\ got[c] \in Nat /\ ToSend(c) \in Nat
  BY OfClient
<1>3. /\ tpc' \in [Clients -> {"none", "backlog", "first", "length", "open", "data",
                               "reply", "ended", "reset", "orphaned"}]
      /\ inn' \in [Clients -> Nat]
      /\ \A d \in Clients \ {c} : tpc'[d] = tpc[d] /\ inn'[d] = inn[d]
      /\ \/ tpc[c] = "first" /\ tpc'[c] = "length"
         \/ tpc[c] = "length" /\ tpc'[c] = "open"
      /\ \/ inn[c] < out[c] /\ inn'[c] = inn[c] + 1
         \/ ~(inn[c] < out[c]) /\ ~Open(c) /\ inn'[c] = inn[c]
  BY <1>1, <1>2, ThreadTypes DEF Unread, AtEnd
<1>4. TypeOK'
  BY <1>1, <1>2, <1>3 DEF TypeOK
<1>5. SessionInv(c)'
  BY <1>1, <1>2, <1>3 DEF SessionInv, Open
<1>6. FileSessionInv(c)'
  <2>1. ToSend(c) >= 2
    BY OfClient, ReceiverAssumption DEF ToSend
  <2>2. ~Open(c) /\ Whole(c) => cpc[c] = "done"
    BY <1>2, <1>3 DEF TypeOK, SessionInv, Open, Whole
  <2>3. Whole(c) => inn'[c] = inn[c] + 1
    BY <1>1, <1>2, <1>3, <2>1, <2>2 DEF FileSessionInv
  <2> QED BY <1>1, <1>2, <1>3, <2>3 DEF FileSessionInv, Whole, ToSend
<1>7. EchoSessionInv(c)'
  BY <1>1 DEF EchoSessionInv
<1>8. \A d \in Clients : ContentInv(d)'
  BY <1>1, <1>3, ContentFrame
<1>9. c \in Served
  BY <1>3 DEF Served
<1> QED BY <1>1, <1>3, <1>4, <1>5, <1>6, <1>7, <1>8, <1>9, ThreadFrame

\* The echo server reads a message or the end of the stream.
LEMMA MessageStep == ASSUME ReceiverInv, NEW c \in Clients, ReceiveMessage(c) PROVE ReceiverInv'
<1>1. /\ UNCHANGED <<mode, rpc, registered, deaf, lingers, fork, held, orphan, restarts, sockets,
                     fname, got, files, latest, clash, name, size, cpc, out, back, hangups>>
      /\ mode = "echo" /\ tpc[c] = "first"
      /\ \/ Unread(c) /\ Read(c) /\ Thread(c, "reply")
         \/ AtEnd(c) /\ Thread(c, "ended") /\ UNCHANGED inn
  BY DEF ReceiveMessage, mainVars, clientVars, fileVars
<1>2. /\ TypeOK /\ SessionInv(c) /\ FileSessionInv(c) /\ EchoSessionInv(c)
      /\ out[c] \in Nat /\ inn[c] \in Nat /\ back[c] \in Nat
  BY OfClient
<1>3. /\ tpc' \in [Clients -> {"none", "backlog", "first", "length", "open", "data",
                               "reply", "ended", "reset", "orphaned"}]
      /\ inn' \in [Clients -> Nat]
      /\ \A d \in Clients \ {c} : tpc'[d] = tpc[d] /\ inn'[d] = inn[d]
      /\ \/ tpc'[c] = "reply" /\ inn[c] < out[c] /\ inn'[c] = inn[c] + 1
         \/ tpc'[c] = "ended" /\ inn'[c] = inn[c]
  BY <1>1, <1>2, ThreadTypes DEF Unread
<1>4. TypeOK'
  BY <1>1, <1>2, <1>3 DEF TypeOK
<1>5. SessionInv(c)'
  BY <1>1, <1>2, <1>3 DEF SessionInv, Open
<1>6. FileSessionInv(c)'
  BY <1>1 DEF FileSessionInv
<1>7. EchoSessionInv(c)'
  BY <1>1, <1>2, <1>3 DEF EchoSessionInv, Whole
<1>8. \A d \in Clients : ContentInv(d)'
  BY <1>1, <1>3, ContentFrame
<1>9. c \in Served
  BY <1>1 DEF Served
<1> QED BY <1>1, <1>3, <1>4, <1>5, <1>6, <1>7, <1>8, <1>9, ThreadFrame
\* A session that is neither open nor whole is one that hung up: only a reset makes a
\* client fail, and no thread serves a connection that was reset.
LEMMA NotWhole ==
    ASSUME ReceiverInv, NEW c \in Clients, c \in Served, ~Whole(c)
    PROVE  hangups > 0
<1>1. SessionInv(c)
  BY OfClient
<1> QED BY <1>1 DEF SessionInv, Whole, Served

\* The echo reaches its client, is lost, or brings the receiver down: the latter two
\* only if the client has hung up.
LEMMA EchoStep == ASSUME ReceiverInv, NEW c \in Clients, SendEcho(c) PROVE ReceiverInv'
<1>1. tpc[c] = "reply" /\ c \in Served
  BY DEF SendEcho, Served
<1>2. /\ TypeOK /\ SessionInv(c) /\ FileSessionInv(c) /\ EchoSessionInv(c)
      /\ out[c] \in Nat /\ inn[c] \in Nat /\ back[c] \in Nat /\ mode \in {"file", "echo"}
  BY OfClient
<1>3. mode = "echo"
  BY <1>1, <1>2 DEF FileSessionInv
<1>4. Whole(c) => cpc[c] = "awaiting"
  BY <1>1, <1>2, <1>3 DEF EchoSessionInv, SessionInv, Whole
<1>5. CASE Dies /\ UNCHANGED clientVars /\ ~Open(c)
  <2>1. hangups > 0
    BY <1>1, <1>4, <1>5, NotWhole DEF Open
  <2> QED BY <1>5, <2>1, DiesStep
<1>6. CASE ~(Dies /\ UNCHANGED clientVars /\ ~Open(c))
  <2>1. /\ UNCHANGED <<mode, rpc, registered, deaf, lingers, fork, held, orphan, restarts,
                       sockets, inn, fname, got, files, latest, clash, name, size, out, hangups>>
        /\ Thread(c, "first")
        /\ \/ /\ Open(c) /\ back' = [back EXCEPT ![c] = @ + 1]
              /\ cpc' = [cpc EXCEPT ![c] = IF back[c] + 1 = Hellos THEN "done" ELSE "sending"]
           \/ ~Open(c) /\ UNCHANGED <<cpc, back>>
    BY <1>6 DEF SendEcho, mainVars, clientVars, fileVars, To
  <2>2. /\ tpc' \in [Clients -> {"none", "backlog", "first", "length", "open", "data",
                                 "reply", "ended", "reset", "orphaned"}]
        /\ tpc'[c] = "first" /\ \A d \in Clients \ {c} : tpc'[d] = tpc[d]
    BY <1>2, <2>1, ThreadTypes
  <2>3. /\ cpc \in [Clients -> {"idle", "sending", "awaiting", "refused", "failed", "hungup",
                                "done"}]
        /\ back \in [Clients -> 0 .. Hellos] /\ Hellos \in Nat
    BY <1>2, ReceiverAssumption DEF TypeOK
  <2>4. Open(c) => back[c] + 1 \in 0 .. Hellos
    BY <1>2, <2>3 DEF SessionInv
  <2>5. /\ cpc' \in [Clients -> {"idle", "sending", "awaiting", "refused", "failed", "hungup",
                                 "done"}]
        /\ back' \in [Clients -> 0 .. Hellos]
        /\ \A d \in Clients \ {c} : cpc'[d] = cpc[d] /\ back'[d] = back[d]
    BY <2>1, <2>3, <2>4
  <2>6. \/ /\ Open(c) /\ back'[c] = back[c] + 1
           /\ cpc'[c] = IF back[c] + 1 = Hellos THEN "done" ELSE "sending"
        \/ ~Open(c) /\ back'[c] = back[c] /\ cpc'[c] = cpc[c]
    BY <2>1, <2>3
  <2>7. TypeOK'
    BY <1>2, <2>1, <2>2, <2>5 DEF TypeOK
  <2>8. SessionInv(c)'
    <3>1. Open(c) => back[c] + 1 <= Hellos
      BY <2>3, <2>4
    <3>2. (Open(c) \/ cpc[c] = "idle")' => back'[c] < Hellos
      BY <1>2, <2>3, <2>6, <3>1 DEF Open, SessionInv
    <3> QED BY <1>1, <1>2, <2>1, <2>2, <2>6, <3>2 DEF SessionInv, Open
  <2>9. EchoSessionInv(c)'
    <3>1. CASE Open(c)
      BY <1>1, <1>2, <1>3, <1>4, <2>1, <2>2, <2>6, <3>1 DEF EchoSessionInv, Whole, Open
    <3>2. CASE ~Open(c)
      BY <1>1, <1>2, <1>3, <1>4, <2>1, <2>2, <2>6, <3>2 DEF EchoSessionInv, Whole, Open
    <3> QED BY <3>1, <3>2
  <2>10. FileSessionInv(c)'
    BY <1>3, <2>1 DEF FileSessionInv
  <2>11. \A d \in Clients : ContentInv(d)'
    BY <2>1, <2>2, ContentFrame
  <2> QED BY <1>1, <2>1, <2>2, <2>5, <2>7, <2>8, <2>9, <2>10, <2>11, ThreadFrame
<1> QED BY <1>5, <1>6

\* accept() without a descriptor ends the file server: the sockets have used them up.
LEMMA AcceptFailsStep == ASSUME ReceiverInv, AcceptFails PROVE ReceiverInv'
<1>1. Used >= MaxFds[mode] /\ mode = "file" /\ Dies /\ UNCHANGED clientVars /\ rpc = "accept"
  BY DEF AcceptFails
<1>2. MaxFds[mode] \in Nat
  BY ReceiverAssumption DEF ReceiverInv, TypeOK
<1>3. 2 * sockets + 1 >= MaxFds[mode]
  BY <1>1, <1>2, UsedBound
<1> QED BY <1>1, <1>3, DiesStep
\* A file is opened, empty; or none can be, which ends the receiver: because the client
\* hung up before it had sent the name, because the directory is missing, or because
\* the sockets and files have used up the descriptors.
LEMMA OpenStep == ASSUME ReceiverInv, NEW c \in Clients, OpenFile(c) PROVE ReceiverInv'
<1>1. tpc[c] = "open" /\ c \in Served /\ UNCHANGED clientVars
  BY DEF OpenFile, Served
<1>2. /\ TypeOK /\ SessionInv(c) /\ FileSessionInv(c) /\ EchoSessionInv(c)
      /\ inn[c] \in Nat /\ got[c] \in Nat /\ mode \in {"file", "echo"} /\ mode \in Modes
  BY OfClient
<1>3. mode = "file" /\ got[c] = 0 /\ (Whole(c) => inn[c] = 2)
  BY <1>1, <1>2 DEF EchoSessionInv, FileSessionInv
<1>4. CASE Dies
  <2>1. Junk(c) \/ name[c] \in Missing \/ Used >= MaxFds[mode]
    <3>1. tpc'[c] # "data"
      BY <1>1, <1>2, <1>4, DiesThreads
    <3>2. ~Thread(c, "data")
      BY <1>2, <3>1 DEF Thread, TypeOK
    <3> QED BY <3>2 DEF OpenFile
  <2>2. CASE Junk(c)
    <3>1. ~Whole(c)
      BY <1>3, <2>2 DEF Junk
    <3> QED BY <1>1, <1>4, <3>1, NotWhole, DiesStep
  <2>3. CASE name[c] \in Missing
    BY <1>1, <1>3, <1>4, <2>3, DiesStep
  <2>4. CASE Used >= MaxFds[mode]
    <3>1. MaxFds[mode] \in Nat
      BY <1>2, ReceiverAssumption
    <3>2. 2 * sockets + 1 >= MaxFds[mode]
      BY <2>4, <3>1, UsedBound
    <3> QED BY <1>1, <1>3, <1>4, <3>2, DiesStep
  <2> QED BY <2>1, <2>2, <2>3, <2>4
<1>5. CASE ~Dies
  <2>1. PICK n \in IF Junk(c) THEN {Other} ELSE {name[c], Other} :
           /\ fname' = [fname EXCEPT ![c] = n]
           /\ files' = [files EXCEPT ![n] = <<>>]
           /\ latest' = [latest EXCEPT ![n] = c]
           /\ clash' = IF Writing(n) = {} THEN clash ELSE clash \cup {n}
    BY <1>5 DEF OpenFile
  <2>2. /\ UNCHANGED <<mode, rpc, registered, deaf, lingers, fork, held, orphan, restarts,
                       sockets, inn, got, name, size, cpc, out, back, hangups>>
        /\ Thread(c, "data")
    BY <1>1, <1>5 DEF OpenFile, mainVars, clientVars
  <2>3. n \in AllNames
    BY <1>2, <2>1 DEF TypeOK, AllNames
  <2>4. /\ tpc' \in [Clients -> {"none", "backlog", "first", "length", "open", "data",
                                 "reply", "ended", "reset", "orphaned"}]
        /\ tpc'[c] = "data" /\ \A d \in Clients \ {c} : tpc'[d] = tpc[d]
    BY <1>2, <2>2, ThreadTypes
  <2>5. /\ fname \in [Clients -> AllNames] /\ files \in [AllNames -> Seq(Clients)]
        /\ latest \in [AllNames -> Clients] /\ clash \subseteq AllNames
    BY <1>2 DEF TypeOK
  <2>6. /\ fname'[c] = n /\ files'[n] = <<>> /\ latest'[n] = c
        /\ \A d \in Clients \ {c} : fname'[d] = fname[d]
        /\ \A m \in AllNames \ {n} : files'[m] = files[m] /\ latest'[m] = latest[m]
    BY <2>1, <2>3, <2>5
  <2>7. TypeOK'
    <3>1. /\ fname' \in [Clients -> AllNames] /\ latest' \in [AllNames -> Clients]
          /\ clash' \subseteq AllNames
      BY <2>1, <2>3, <2>5
    <3>2. <<>> \in Seq(Clients)
      OBVIOUS
    <3>3. files' \in [AllNames -> Seq(Clients)]
      BY <2>1, <2>3, <2>5, <3>2
    <3> QED BY <1>2, <2>2, <2>4, <3>1, <3>3 DEF TypeOK
  <2>8. SessionInv(c)'
    BY <1>1, <1>2, <2>2, <2>4 DEF SessionInv, Open
  <2>9. FileSessionInv(c)' /\ EchoSessionInv(c)'
    BY <1>1, <1>2, <1>3, <2>2, <2>4 DEF FileSessionInv, EchoSessionInv, Whole, ToSend
  <2>10. ASSUME NEW d \in Clients PROVE ContentInv(d)'
    <3>1. CASE d = c
      BY <2>4, <2>6, <3>1 DEF ContentInv
    <3>2. CASE d # c /\ fname[d] = n
      <4>1. latest'[fname'[d]] # d /\ tpc'[d] = tpc[d] /\ fname'[d] = n
        BY <2>4, <2>6, <3>2
      <4>2. n \notin clash' => tpc[d] # "data"
        BY <2>1, <3>2 DEF Writing
      <4> QED BY <4>1, <4>2 DEF ContentInv
    <3>3. CASE d # c /\ fname[d] # n
      <4>1. /\ tpc'[d] = tpc[d] /\ fname'[d] = fname[d] /\ files'[fname[d]] = files[fname[d]]
            /\ latest'[fname[d]] = latest[fname[d]] /\ got'[d] = got[d] /\ mode' = mode
        BY <2>2, <2>4, <2>5, <2>6, <3>3
      <4>2. fname[d] \notin clash' => fname[d] \notin clash
        BY <2>1
      <4>3. ContentInv(d)
        BY OfClient
      <4> QED BY <4>1, <4>2, <4>3 DEF ContentInv
    <3> QED BY <3>1, <3>2, <3>3
  <2> QED BY <1>1, <2>2, <2>4, <2>6, <2>7, <2>8, <2>9, <2>10, ThreadFrame
<1> QED BY <1>4, <1>5

\* A size that fits an int is what the receiver takes it for.
LEMMA AsIntIs == ASSUME NEW z \in 0 .. IntMax PROVE AsInt(z) = z
<1>1. IntMax \in Nat
  BY ReceiverAssumption
<1> DEFINE x == z + IntMax + 1
           n == 2 * (IntMax + 1)
<1>2. x \in Nat /\ n \in Nat \ {0} /\ x < n
  BY <1>1
<1>3. x % n = x
  <2> HIDE DEF x, n
  <2> QED BY <1>2
<1> QED BY <1>1, <1>3 DEF AsInt

\* Flushing k units of a client to an empty file.
LEMMA Flushed ==
    ASSUME NEW c \in Clients, NEW k \in Nat, NEW s \in Seq(Clients)
    PROVE  /\ [i \in 1 .. k |-> c] \o SubSeq(s, k + 1, Len(s)) \in Seq(Clients)
           /\ s = <<>> => [i \in 1 .. k |-> c] \o SubSeq(s, k + 1, Len(s)) = [i \in 1 .. k |-> c]
<1> DEFINE t == [i \in 1 .. k |-> c]
           u == SubSeq(s, k + 1, Len(s))
<1>1. t \in Seq(Clients) /\ Len(t) = k
  OBVIOUS
<1>2. u \in Seq(Clients)
  BY SubSeqProperties
<1>3. t \o u \in Seq(Clients)
  <2> HIDE DEF t, u
  <2> QED BY <1>1, <1>2
<1>4. ASSUME s = <<>> PROVE t \o u = t
  <2>1. u = <<>>
    BY <1>4
  <2> HIDE DEF t, u
  <2> QED BY <1>1, <2>1
<1> QED BY <1>3, <1>4
\* A thread that flushes and closes its file disturbs no file but those with a clash.
LEMMA FlushContent ==
    ASSUME ReceiverInv, NEW c \in Clients, tpc[c] = "data", tpc'[c] = "ended",
           UNCHANGED <<mode, fname, got, latest, clash>>,
           \A d \in Clients \ {c} : tpc'[d] = tpc[d],
           files' = [files EXCEPT ![fname[c]] = [i \in 1 .. got[c] |-> c]
                                                  \o SubSeq(@, got[c] + 1, Len(@))]
    PROVE  /\ files' \in [AllNames -> Seq(Clients)]
           /\ \A d \in Clients : ContentInv(d)'
<1> DEFINE n == fname[c]
           flushed == [i \in 1 .. got[c] |-> c] \o SubSeq(files[n], got[c] + 1, Len(files[n]))
<1>1. TypeOK /\ got[c] \in Nat /\ ContentInv(c)
  BY OfClient
<1>2. n \in AllNames /\ files \in [AllNames -> Seq(Clients)] /\ fname \in [Clients -> AllNames]
  BY <1>1 DEF TypeOK
<1>3. files[n] \in Seq(Clients)
  BY <1>2
<1>4. /\ flushed \in Seq(Clients)
      /\ files[n] = <<>> => flushed = [i \in 1 .. got[c] |-> c]
  BY <1>1, <1>3, Flushed
<1>5. files' = [files EXCEPT ![n] = flushed]
  OBVIOUS
<1> HIDE DEF flushed
<1>6. files' \in [AllNames -> Seq(Clients)]
  BY <1>2, <1>4, <1>5
<1>7. files'[n] = flushed /\ \A m \in AllNames \ {n} : files'[m] = files[m]
  BY <1>2, <1>5
<1>8. ASSUME NEW d \in Clients PROVE ContentInv(d)'
  <2>1. CASE d = c
    <3>1. n \notin clash => files'[n] = [i \in 1 .. got[c] |-> c]
      BY <1>1, <1>4, <1>7 DEF ContentInv
    <3> QED BY <2>1, <3>1 DEF ContentInv
  <2>2. CASE d # c /\ fname[d] = n
    <3>1. n \notin clash => latest[n] = c
      BY <1>1 DEF ContentInv
    <3>2. ContentInv(d) /\ tpc'[d] = tpc[d]
      BY <2>2, OfClient
    <3> QED BY <2>2, <3>1, <3>2 DEF ContentInv
  <2>3. CASE d # c /\ fname[d] # n
    <3>1. ContentInv(d) /\ tpc'[d] = tpc[d] /\ files'[fname[d]] = files[fname[d]]
      BY <1>2, <1>7, <2>3, OfClient
    <3> QED BY <2>3, <3>1 DEF ContentInv
  <2> QED BY <2>1, <2>2, <2>3
<1> QED BY <1>6, <1>8

\* The end of the stream closes the file: of a whole session, all that was sent is in it.
LEMMA CloseStep == ASSUME ReceiverInv, NEW c \in Clients, CloseFile(c) PROVE ReceiverInv'
<1>1. /\ UNCHANGED <<mode, rpc, registered, deaf, lingers, fork, held, orphan, restarts, sockets,
                     inn, fname, got, latest, clash, name, size, cpc, out, back, hangups>>
      /\ tpc[c] = "data" /\ Thread(c, "ended") /\ ~(inn[c] < out[c]) /\ ~Open(c)
  BY DEF CloseFile, mainVars, clientVars, AtEnd, Unread
<1>2. /\ TypeOK /\ SessionInv(c) /\ FileSessionInv(c) /\ EchoSessionInv(c)
      /\ out[c] \in Nat /\ inn[c] \in Nat /\ got[c] \in Nat /\ size[c] \in Nat
      /\ mode \in {"file", "echo"}
  BY OfClient
<1>3. /\ tpc' \in [Clients -> {"none", "backlog", "first", "length", "open", "data",
                               "reply", "ended", "reset", "orphaned"}]
      /\ tpc'[c] = "ended" /\ \A d \in Clients \ {c} : tpc'[d] = tpc[d]
  BY <1>1, <1>2, ThreadTypes
<1>4. /\ files' \in [AllNames -> Seq(Clients)]
      /\ \A d \in Clients : ContentInv(d)'
  BY <1>1, <1>3, FlushContent DEF CloseFile
<1>5. TypeOK'
  BY <1>1, <1>2, <1>3, <1>4 DEF TypeOK
<1>6. SessionInv(c)'
  BY <1>1, <1>2, <1>3 DEF SessionInv, Open
<1>7. mode = "file" /\ EchoSessionInv(c)'
  BY <1>1, <1>2 DEF EchoSessionInv
<1>8. FileSessionInv(c)'
  <2>1. Whole(c) => cpc[c] = "done"
    BY <1>1, <1>2 DEF TypeOK, SessionInv, Open, Whole
  <2>2. Whole(c) => inn[c] = 2 + got[c] /\ inn[c] = ToSend(c)
    BY <1>1, <1>2, <1>7, <2>1 DEF FileSessionInv, SessionInv
  <2>3. Whole(c) => got[c] <= SendMax /\ (size[c] <= SendMax => got[c] = size[c])
    BY <1>2, <2>2, ReceiverAssumption DEF ToSend
  <2> QED BY <1>1, <1>2, <1>3, <1>7, <2>3 DEF FileSessionInv, Whole, ToSend
<1>9. c \in Served
  BY <1>1 DEF Served
<1> QED BY <1>1, <1>3, <1>4, <1>5, <1>6, <1>7, <1>8, <1>9, ThreadFrame

\* A unit is added to the file, or is the first beyond the size that was announced: a
\* whole session has none for a size of which one sendfile() takes all.
LEMMA DataStep == ASSUME ReceiverInv, NEW c \in Clients, ReceiveData(c) PROVE ReceiverInv'
<1>1. /\ UNCHANGED <<mode, rpc, registered, deaf, lingers, fork, held, orphan, restarts, sockets,
                     fname, latest, clash, name, size, cpc, out, back, hangups>>
      /\ tpc[c] = "data" /\ inn[c] < out[c] /\ Read(c)
      /\ \/ More(c) /\ got' = [got EXCEPT ![c] = @ + 1] /\ UNCHANGED <<tpc, files>>
         \/ ~More(c) /\ Thread(c, "ended") /\ UNCHANGED got
  BY DEF ReceiveData, mainVars, clientVars, Unread
<1>2. /\ TypeOK /\ SessionInv(c) /\ FileSessionInv(c) /\ EchoSessionInv(c)
      /\ out[c] \in Nat /\ inn[c] \in Nat /\ got[c] \in Nat /\ size[c] \in Nat
      /\ mode \in {"file", "echo"} /\ ToSend(c) \in Nat /\ ToSend(c) <= 2 + SendMax
  BY OfClient
<1>3. /\ tpc' \in [Clients -> {"none", "backlog", "first", "length", "open", "data",
                               "reply", "ended", "reset", "orphaned"}]
      /\ inn' \in [Clients -> Nat] /\ inn'[c] = inn[c] + 1
      /\ \A d \in Clients \ {c} : tpc'[d] = tpc[d] /\ inn'[d] = inn[d]
      /\ Thread(c, "ended") => tpc'[c] = "ended"
  BY <1>1, <1>2, ThreadTypes
<1>4. mode = "file" /\ EchoSessionInv(c)' /\ c \in Served
  BY <1>1, <1>2 DEF EchoSessionInv, Served
<1>5. CASE More(c) /\ got' = [got EXCEPT ![c] = @ + 1] /\ UNCHANGED <<tpc, files>>
  <2>1. got \in [Clients -> Nat]
    BY <1>2 DEF TypeOK
  <2>2. /\ got' \in [Clients -> Nat] /\ got'[c] = got[c] + 1
        /\ \A d \in Clients \ {c} : got'[d] = got[d]
    <3>1. got[c] + 1 \in Nat
      BY <1>2
    <3> QED BY <1>5, <2>1, <3>1
  <2>3. TypeOK'
    BY <1>1, <1>2, <1>3, <1>5, <2>2 DEF TypeOK
  <2>4. SessionInv(c)'
    BY <1>1, <1>2, <1>3, <1>5 DEF SessionInv, Open
  <2>5. FileSessionInv(c)'
    BY <1>1, <1>2, <1>3, <1>4, <1>5, <2>2 DEF FileSessionInv, Whole, ToSend
  <2>6. \A d \in Clients : ContentInv(d)'
    BY <1>1, <1>5, <2>2, ContentFrame
  <2> QED BY <1>1, <1>3, <1>4, <1>5, <2>2, <2>3, <2>4, <2>5, <2>6, ThreadFrame
<1>6. CASE ~More(c) /\ Thread(c, "ended") /\ UNCHANGED got
  <2>1. tpc'[c] = "ended"
    BY <1>3, <1>6
  <2>2. /\ files' \in [AllNames -> Seq(Clients)]
        /\ \A d \in Clients : ContentInv(d)'
    BY <1>1, <1>3, <1>6, <2>1, FlushContent DEF ReceiveData
  <2>3. TypeOK'
    BY <1>1, <1>2, <1>3, <1>6, <2>2 DEF TypeOK
  <2>4. SessionInv(c)'
    BY <1>1, <1>2, <1>3, <2>1 DEF SessionInv, Open
  <2>5. FileSessionInv(c)'
    <3>1. Whole(c) => inn[c] = 2 + got[c] /\ out[c] <= ToSend(c)
      BY <1>1, <1>2, <1>4 DEF FileSessionInv
    <3>2. Whole(c) => got[c] < SendMax /\ got[c] < size[c]
      BY <1>1, <1>2, <3>1, ReceiverAssumption DEF ToSend
    <3>3. size[c] <= SendMax => AsInt(size[c]) = size[c]
      BY <1>2, AsIntIs, ReceiverAssumption
    <3>4. ~(Whole(c) /\ size[c] <= SendMax)
      <4>1. Whole(c) => Remain(c) = AsInt(size[c]) - got[c]
        BY <1>2, <3>1 DEF Remain
      <4> HIDE DEF AsInt
      <4> QED BY <1>2, <1>6, <3>2, <3>3, <4>1 DEF More
    <3>5. SendMax \in Nat
      BY ReceiverAssumption
    <3> QED BY <1>1, <1>2, <1>4, <1>6, <2>1, <3>2, <3>4, <3>5 DEF FileSessionInv, Whole, ToSend
  <2> QED BY <1>1, <1>3, <1>4, <1>6, <2>2, <2>3, <2>4, <2>5, ThreadFrame
<1> QED BY <1>1, <1>5, <1>6

\* Every step keeps the strengthened invariant.
LEMMA ReceiverNext == ReceiverInv /\ [Next]_vars => ReceiverInv'
<1> SUFFICES ASSUME ReceiverInv, [Next]_vars PROVE ReceiverInv'
  OBVIOUS
<1>1. CASE MainThread
  BY <1>1, MainStep, AcceptFailsStep, AcceptStep DEF MainThread
<1>2. CASE RunCommand \/ Restart
  BY <1>2, MainStep, RestartStep
<1>3. ASSUME NEW c \in Clients, ConnectReceiver(c) \/ Session(c) \/ HangUp(c) PROVE ReceiverInv'
  BY <1>3, ConnectStep, FileClientStep, EchoClientStep, HangUpStep DEF Session
<1>4. ASSUME NEW c \in Clients, Serve(c) PROVE ReceiverInv'
  BY <1>4, HeaderStep, OpenStep, DataStep, CloseStep, MessageStep, EchoStep DEF Serve
<1>5. CASE UNCHANGED vars
  <2>1. UNCHANGED <<mode, rpc, registered, deaf, lingers, fork, held, orphan, restarts, sockets,
                    name, size, cpc, out, back, hangups, tpc, inn, fname, got, files, latest,
                    clash>>
    BY <1>5 DEF vars, mainVars, clientVars, threadVars, fileVars
  <2>2. TypeOK' /\ SocketInv' /\ OrderlyClientsHarmless'
    <3>1. TypeOK'
      BY <2>1 DEF ReceiverInv, TypeOK
    <3>2. SocketInv' /\ OrderlyClientsHarmless'
      BY <2>1 DEF ReceiverInv, SocketInv, Served, OrderlyClientsHarmless
    <3> QED BY <3>1, <3>2
  <2>3. ASSUME NEW c \in Clients
        PROVE  SessionInv(c)' /\ FileSessionInv(c)' /\ EchoSessionInv(c)' /\ ContentInv(c)'
    BY <2>1, OfClient DEF SessionInv, FileSessionInv, EchoSessionInv, ContentInv, Open, Whole, ToSend
  <2> QED BY <2>2, <2>3 DEF ReceiverInv
<1> QED BY <1>1, <1>2, <1>3, <1>4, <1>5 DEF Next

\* The strengthened invariant holds in every reachable state of the receiver.
LEMMA ReceiverInvariant == Spec => []ReceiverInv
BY ReceiverInit, ReceiverNext, PTL DEF Spec
-----------------------------------------------------------------------------
\* Every variable of the receiver keeps its type; in particular it never has more
\* sockets than descriptors.
THEOREM ReceiverTypes == Spec => []TypeOK
<1>1. ReceiverInv => TypeOK
  BY DEF ReceiverInv
<1> QED BY <1>1, ReceiverInvariant, PTL

\* What is on the disk after a transfer that the client finished is the file, exactly
\* if one sendfile() could send it.
THEOREM StoredWholeAlways == Spec => []StoredWhole
<1>1. ReceiverInv => StoredWhole
  <2> SUFFICES ASSUME ReceiverInv, NEW c \in Clients,
                      mode = "file" /\ cpc[c] = "done" /\ tpc[c] = "ended",
                      latest[fname[c]] = c /\ fname[c] \notin clash
               PROVE  files[fname[c]] = [i \in 1 .. size[c] |-> c] <=> size[c] <= SendMax
    BY DEF StoredWhole
  <2>1. /\ FileSessionInv(c) /\ ContentInv(c) /\ size[c] \in Nat /\ got[c] \in Nat
        /\ SendMax \in Nat
    BY OfClient, ReceiverAssumption
  <2>2. got[c] <= SendMax /\ (size[c] <= SendMax => got[c] = size[c])
    BY <2>1 DEF FileSessionInv, Whole
  <2>3. files[fname[c]] = [i \in 1 .. got[c] |-> c]
    BY <2>1 DEF ContentInv
  <2>4. [i \in 1 .. got[c] |-> c] = [i \in 1 .. size[c] |-> c] => 1 .. got[c] = 1 .. size[c]
    <3>1. DOMAIN [i \in 1 .. got[c] |-> c] = 1 .. got[c]
      OBVIOUS
    <3>2. DOMAIN [i \in 1 .. size[c] |-> c] = 1 .. size[c]
      OBVIOUS
    <3> QED BY <3>1, <3>2
  <2>5. 1 .. got[c] = 1 .. size[c] => size[c] <= got[c]
    <3> SUFFICES ASSUME 1 .. got[c] = 1 .. size[c], size[c] > 0 PROVE size[c] \in 1 .. got[c]
      BY <2>1
    <3> QED BY <2>1
  <2> QED BY <2>1, <2>2, <2>3, <2>4, <2>5
<1> QED BY <1>1, ReceiverInvariant, PTL

\* The receiver dies only of a client that hung up, of a directory that is missing, or
\* of the sockets it never closes.
THEOREM OrderlyClientsHarmlessAlways == Spec => []OrderlyClientsHarmless
<1>1. ReceiverInv => OrderlyClientsHarmless
  BY DEF ReceiverInv
<1> QED BY <1>1, ReceiverInvariant, PTL
=============================================================================
