------------------------- MODULE PathAndPingProofs -------------------------
(***************************************************************************)
(* Two parts of Darshana, the monitor's path mode and CryptoPing.          *)
(* The path monitor, for every set of autonomous systems and routes and    *)
(* every threshold up to 1: what it compares with, and that it declares    *)
(* nothing while the route is the same.                                    *)
(* For every number of servers, monitors, pings and kills: the keys of the *)
(* cryptographic ping match, its verdicts are sound and its pings measured.*)
(***************************************************************************)
EXTENDS PathMonitor, CryptoPing, FiniteSetTheorems, TLAPS

-----------------------------------------------------------------------------
(* The path monitor.                                                       *)

\* The inductive strengthening: what is stored is what the measured paths have in
\* common, and while they are all the same it is the first of them, entry by entry,
\* so that comparing with it again finds no change.
MonitorInv ==
    /\ PathTypeOK
    /\ pc \notin {"init", "dead"} =>
          /\ Members(stored) = common
          /\ ~changed => stored = first
    /\ alarmed => changed

\* retainAll on the list itself returns a path.
LEMMA RetainType == ASSUME NEW p \in Path, NEW q \in Path PROVE RetainAll(p, q) \in Path
BY DEF RetainAll, Path

\* Intersecting a path with itself leaves it as it is.
LEMMA RetainSelf == ASSUME NEW p \in Path PROVE RetainAll(p, p) = p
BY DEF RetainAll, Members

\* The members of an intersection are the common members.
LEMMA RetainMembers ==
    ASSUME NEW p \in Path, NEW q \in Path
    PROVE  Members(RetainAll(p, q)) = Members(p) \cap Members(q)
BY DEF RetainAll, Members

\* The members of a path are autonomous systems.
LEMMA MembersType == ASSUME NEW p \in Path PROVE Members(p) \subseteq ASes
BY DEF Members, Path

\* A path has a length.
LEMMA PathFinite == ASSUME NEW p \in Path PROVE IsFiniteSet(p) /\ Cardinality(p) \in Nat
<1>1. IsFiniteSet({1, 2})
  <2>1. IsFiniteSet({1})
    BY FS_Singleton
  <2>2. IsFiniteSet({1} \cup {2})
    BY <2>1, FS_AddElement
  <2>3. {1} \cup {2} = {1, 2}
    OBVIOUS
  <2> QED BY <2>2, <2>3
<1>2. IsFiniteSet(ASes \X {1, 2})
  BY <1>1, FS_Product, PathAssumption
<1>3. IsFiniteSet(p)
  BY <1>2, FS_Subset DEF Path
<1> QED BY <1>3, FS_CardinalityType

\* A path does not differ from itself: its similarity is 1, or there is none.
LEMMA SameNotDifferent == ASSUME NEW p \in Path PROVE ~Different(p, p)
<1>1. RetainAll(p, p) = p
  BY RetainSelf
<1>2. PICK n \in Nat : n = Cardinality(p)
  BY PathFinite
<1>3. 2 * n * ThDen >= ThNum * (n + n)
  <2>1. n * ThDen >= n * ThNum
    BY PathAssumption, SMT
  <2> QED BY <2>1, PathAssumption, SMT
<1> QED BY <1>1, <1>2, <1>3, PathAssumption, SMT DEF Different
-----------------------------------------------------------------------------
\* The monitor starts in the strengthened invariant.
LEMMA MonitorInit == PathInit => MonitorInv
<1> SUFFICES ASSUME PathInit PROVE MonitorInv
  OBVIOUS
<1>1. {} \in Path
  BY DEF Path
<1>2. 0 \in 0 .. MaxSims
  BY PathAssumption
<1>3. PathTypeOK
  BY <1>1, <1>2 DEF PathInit, PathTypeOK
<1> QED BY <1>3 DEF PathInit, MonitorInv

\* The trace before the loop stores the first path measured.
LEMMA TraceStep == ASSUME MonitorInv, ExecuteTrace PROVE MonitorInv'
<1>1. CASE Dies
  <2>1. changed' = changed /\ alarmed' = alarmed /\ pc' = "dead"
    BY <1>1 DEF Dies, histVars
  <2>2. PathTypeOK'
    BY <1>1 DEF MonitorInv, PathTypeOK, Dies, histVars, simVars
  <2> QED BY <2>1, <2>2 DEF MonitorInv
<1>2. CASE ~Dies
  <2>1. PICK r \in Routes :
           /\ stored' = TracePath(r)
           /\ first' = TracePath(r) /\ common' = r
           /\ pc' = "check"
           /\ UNCHANGED <<fresh, hijack, deviated, hijackedPath, simVars, changed, alarmed>>
    BY <1>2 DEF ExecuteTrace
  <2>2. TracePath(r) \in Path
    BY PathAssumption DEF TracePath, Path
  <2>3. PathTypeOK'
    BY <2>1, <2>2, PathAssumption DEF MonitorInv, PathTypeOK, simVars
  <2>4. Members(stored') = common'
    <3>1. \A a \in r : <<a, 1>> \in stored' /\ <<a, 1>>[1] = a
      BY <2>1 DEF TracePath
    <3>2. \A e \in stored' : e[1] \in r
      BY <2>1 DEF TracePath
    <3> QED BY <2>1, <3>1, <3>2 DEF Members
  <2> QED BY <2>1, <2>3, <2>4 DEF MonitorInv, Members
<1> QED BY <1>1, <1>2

\* The comparison: a further path is measured, what is stored is intersected.
LEMMA VerifyStep == ASSUME MonitorInv, VerifyPathSimilarity PROVE MonitorInv'
<1>1. /\ pc = "verify" /\ pc' = "check" /\ stored' = RetainAll(fresh, stored)
      /\ fresh' = {} /\ first' = first /\ common' = common \cap Members(fresh)
      /\ changed' = (changed \/ fresh # first)
      /\ alarmed' = (alarmed \/ Different(fresh, stored))
      /\ UNCHANGED <<hijack, deviated, hijackedPath, sim, closing, sims, hijacker>>
  BY DEF VerifyPathSimilarity, Kept, simVars
<1>2. /\ PathTypeOK /\ stored \in Path /\ fresh \in Path
      /\ Members(stored) = common
      /\ ~changed => stored = first
      /\ alarmed => changed
  BY <1>1 DEF MonitorInv, PathTypeOK
<1>3. RetainAll(fresh, stored) \in Path
  BY <1>2, RetainType
<1>4. Different(fresh, stored) \in BOOLEAN
  BY DEF Different
<1>5. PathTypeOK'
  BY <1>1, <1>2, <1>3, <1>4 DEF PathTypeOK, Path
<1>6. Members(stored') = common'
  BY <1>1, <1>2, RetainMembers
<1>7. ASSUME ~changed' PROVE stored' = first' /\ ~alarmed'
  <2>1. fresh = first /\ stored = first /\ ~alarmed
    BY <1>1, <1>2, <1>7
  <2>2. RetainAll(fresh, stored) = fresh /\ ~Different(fresh, stored)
    BY <1>2, <2>1, RetainSelf, SameNotDifferent
  <2> QED BY <1>1, <2>1, <2>2
<1> QED BY <1>1, <1>5, <1>6, <1>7 DEF MonitorInv, Members

\* The other steps leave what is stored and measured alone.
LEMMA OtherSteps ==
    ASSUME MonitorInv, PathTypeOK', UNCHANGED <<stored, first, common, changed, alarmed>>,
           pc' = pc \/ (pc # "init" /\ pc' # "init" /\ pc # "dead") \/ pc' = "dead"
    PROVE  MonitorInv'
<1>1. Members(stored)' = Members(stored)
  BY DEF Members
<1>2. /\ pc' = "init" => pc = "init"
      /\ pc' \notin {"init", "dead"} => pc \notin {"init", "dead"}
  OBVIOUS
<1> QED BY <1>1, <1>2 DEF MonitorInv, Members

\* Every step keeps the strengthened invariant.
LEMMA MonitorNext == ASSUME MonitorInv, [PathNext]_pathVars PROVE MonitorInv'
<1>1. CASE ExecuteTrace
  BY <1>1, TraceStep
<1>2. CASE VerifyPathSimilarity
  BY <1>2, VerifyStep
<1>3. CASE CheckSimulation
  <2>1. PathTypeOK'
    BY <1>3 DEF MonitorInv, PathTypeOK, CheckSimulation, simVars, histVars
  <2> QED BY <1>3, <2>1, OtherSteps DEF CheckSimulation, histVars
<1>4. CASE Intercepted
  <2>1. PathTypeOK'
    BY <1>4 DEF MonitorInv, PathTypeOK, Intercepted, Dies, simVars, histVars
  <2> QED BY <1>4, <2>1, OtherSteps DEF Intercepted, Dies, histVars
<1>5. CASE MeasurePath
  <2>1. fresh' \in Path
    BY <1>5, PathAssumption DEF MonitorInv, PathTypeOK, MeasurePath, TracePath, Deviated, Path
  <2>2. PathTypeOK'
    BY <1>5, <2>1 DEF MonitorInv, PathTypeOK, MeasurePath, simVars, histVars
  <2> QED BY <1>5, <2>2, OtherSteps DEF MeasurePath, histVars
<1>6. CASE Simulator
  <2>1. PathTypeOK'
    <3>1. CASE SimListens
      BY <3>1 DEF MonitorInv, PathTypeOK, SimListens, histVars
    <3>2. CASE SimConnects
      <4>1. sims' \in 0 .. MaxSims
        BY <3>2, PathAssumption DEF MonitorInv, PathTypeOK, SimConnects
      <4> QED BY <3>2, <4>1 DEF MonitorInv, PathTypeOK, SimConnects, histVars
    <3>3. CASE SimCloses
      BY <3>3 DEF MonitorInv, PathTypeOK, SimCloses, histVars
    <3> QED BY <1>6, <3>1, <3>2, <3>3 DEF Simulator
  <2> QED BY <1>6, <2>1, OtherSteps DEF Simulator, SimListens, SimConnects, SimCloses, histVars
<1>7. CASE UNCHANGED pathVars
  <2>1. PathTypeOK'
    BY <1>7 DEF MonitorInv, PathTypeOK, pathVars, simVars, histVars
  <2> QED BY <1>7, <2>1, OtherSteps DEF pathVars, histVars
<1>8. CASE ConnectHijacker
  <2>1. PathTypeOK'
    BY <1>8 DEF MonitorInv, PathTypeOK, ConnectHijacker, HandleHijackerGone, Dies, simVars, histVars
  <2> QED BY <1>8, <2>1, OtherSteps DEF ConnectHijacker, HandleHijackerGone, Dies, histVars
<1>9. CASE ReadHijacked
  <2>1. hijackedPath' \in SUBSET ASes
    BY <1>9, PathAssumption DEF MonitorInv, PathTypeOK, ReadHijacked, SavedPath
  <2>2. pc' \in {"measure", "dead"}
    BY <1>9 DEF ReadHijacked
  <2>3. PathTypeOK'
    BY <1>9, <2>1, <2>2 DEF MonitorInv, PathTypeOK, ReadHijacked, simVars, histVars
  <2> QED BY <1>9, <2>2, <2>3, OtherSteps DEF ReadHijacked, histVars
<1>10. CASE Hijacker
  <2>1. PathTypeOK'
    BY <1>10 DEF MonitorInv, PathTypeOK, Hijacker, TracerouteServer, HijackerHangs,
                 HijackerEnds, histVars
  <2> QED BY <1>10, <2>1, OtherSteps DEF Hijacker, TracerouteServer, HijackerHangs,
                                         HijackerEnds, histVars
<1> QED BY <1>1, <1>2, <1>3, <1>4, <1>5, <1>6, <1>7, <1>8, <1>9, <1>10 DEF PathNext, Monitor

\* The strengthened invariant holds in every reachable state.
LEMMA MonitorAlways == PathSpec => []MonitorInv
<1>1. PathInit => MonitorInv
  BY MonitorInit
<1>2. MonitorInv /\ [PathNext]_pathVars => MonitorInv'
  BY MonitorNext
<1> QED BY <1>1, <1>2, PTL DEF PathSpec

\* RouteMon's monitoringOnlyPath compares each measurement with what all the
\* earlier ones have in common, for any routes, threshold and simulated hijackers.
THEOREM StoredIsCommonAlways == PathSpec => []StoredIsCommon
<1>1. MonitorInv => StoredIsCommon
  BY DEF MonitorInv, StoredIsCommon
<1> QED BY <1>1, MonitorAlways, PTL

\* RouteMon's monitoringOnlyPath declares no hijack before it has measured two
\* different paths, for any threshold up to 1.
THEOREM NoFalseAlarmAlways == PathSpec => []NoFalseAlarm
<1>1. MonitorInv => NoFalseAlarm
  BY DEF MonitorInv, NoFalseAlarm
<1> QED BY <1>1, MonitorAlways, PTL
-----------------------------------------------------------------------------
(* CryptoPing.                                                             *)

\* The servers have found or created the key files, and nobody will change them.
Settled == pub # NoFile /\ \A s \in Servers : ~Generating(s)

\* Between the opening and the closing of a connection.
Connected(m) == cpc[m] \notin {"start", "done"}

\* What a monitor has still to do and has measured adds up, and only a process that
\* was killed leaves a torn file.
CountInv ==
    /\ \A m \in Monitors : /\ cpc[m] = "done" \/ todo[m] >= 1
                           /\ rtts[m] + todo[m] <= Pings
    /\ torn => kills > 0

\* One server at a time creates keys, its place tells what is in the files, and
\* those it leaves half written are torn.
FilesInv ==
    /\ \A s, t \in Servers : Generating(s) /\ Generating(t) => s = t
    /\ \A s \in Servers :
          /\ spc[s] \in {"openPri", "openPub"} => pub = NoFile
          /\ spc[s] = "openPub" => pri = Empty
          /\ spc[s] = "closePub" => pub = Empty /\ pri = Empty
          /\ spc[s] = "closePri" => pub = s /\ pri = Empty
          /\ spc[s] \in {"bind", "listening"} => Settled
    /\ IF pub = NoFile THEN pri \in {NoFile, Empty} ELSE pri \in {Empty, pub}
    /\ Settled /\ ~torn => pri = pub /\ pub \in Servers

\* The copy of the monitors and the keys in their memory come from settled files.
CopyInv ==
    /\ cache # NoFile => Settled
    /\ cache \in {NoFile, Empty, pub}
    /\ cache = Empty /\ ~torn => \E m \in Monitors : cpc[m] = "close"
    /\ \A m \in Monitors :
          /\ Connected(m) => /\ Settled /\ peer[m] \in Servers
                             /\ spc[peer[m]] = "listening" \/ kills > 0
          /\ cpc[m] \in {"write", "close", "nonce"} => key[m] = pub
          /\ cpc[m] = "import" => cache # NoFile

\* The inductive strengthening of KeysMatch and VerdictsSound.
PingInv ==
    /\ TypeOK /\ CountInv /\ VerdictsSound
    /\ ~raced => FilesInv /\ CopyInv
-----------------------------------------------------------------------------
\* The system starts in the strengthened invariant: no keys, no connections.
LEMMA PingInit == Init => PingInv
<1> SUFFICES ASSUME Init PROVE PingInv
  OBVIOUS
<1>1. TypeOK
  <2>1. Pings \in 0 .. Pings /\ 0 \in 0 .. Pings /\ 0 \in 0 .. MaxKills
    BY PingAssumption
  <2> QED BY <2>1 DEF Init, TypeOK, File
<1>2. CountInv /\ VerdictsSound
  BY PingAssumption DEF Init, CountInv, VerdictsSound
<1>3. FilesInv
  BY PingAssumption DEF Init, FilesInv, Settled, Generating
<1>4. CopyInv
  BY PingAssumption DEF Init, CopyInv, Settled, Connected
<1> QED BY <1>1, <1>2, <1>3, <1>4 DEF PingInv

\* The end of a ping keeps the types and the counts of its monitor.
LEMMA PingEndsType ==
    ASSUME TypeOK, CountInv, NEW m \in Monitors, cpc[m] # "done",
           NEW o \in {"refused", "early", "cut", "unverified", "verified"}, PingEndsWith(m, o)
    PROVE  /\ cpc' \in [Monitors -> {"start", "check", "get", "write", "close", "import",
                                     "nonce", "done"}]
           /\ peer' \in [Monitors -> Servers \cup {NoFile}] /\ key' \in [Monitors -> File]
           /\ todo' \in [Monitors -> 0 .. Pings] /\ rtts' \in [Monitors -> 0 .. Pings]
           /\ hit' \in [Monitors -> {"none", "refused", "early", "cut", "unverified",
                                     "verified"}]
           /\ \A n \in Monitors : /\ cpc'[n] = "done" \/ todo'[n] >= 1
                                  /\ rtts'[n] + todo'[n] <= Pings
<1>1. todo[m] - 1 \in 0 .. Pings /\ rtts[m] + 1 \in 0 .. Pings /\ todo[m] \in 1 .. Pings
  BY PingAssumption, SMT DEF TypeOK, CountInv
<1>2. /\ cpc' \in [Monitors -> {"start", "check", "get", "write", "close", "import",
                                "nonce", "done"}]
      /\ peer' \in [Monitors -> Servers \cup {NoFile}] /\ key' \in [Monitors -> File]
      /\ hit' \in [Monitors -> {"none", "refused", "early", "cut", "unverified",
                                "verified"}]
  BY DEF TypeOK, PingEndsWith, File
<1>3. todo' \in [Monitors -> 0 .. Pings] /\ rtts' \in [Monitors -> 0 .. Pings]
  BY <1>1 DEF TypeOK, PingEndsWith
<1>4. ASSUME NEW n \in Monitors
      PROVE  (cpc'[n] = "done" \/ todo'[n] >= 1) /\ rtts'[n] + todo'[n] <= Pings
  BY <1>1, PingAssumption, SMT DEF TypeOK, CountInv, PingEndsWith
<1> QED BY <1>2, <1>3, <1>4

\* A step of a server keeps the types and the counts.
LEMMA ServerType ==
    ASSUME TypeOK, CountInv, NEW s \in Servers, StartServer(s) \/ Server(s) \/ KillServer(s)
    PROVE  TypeOK' /\ CountInv'
<1> USE PingAssumption DEF TypeOK, CountInv, pingVars, history, keyFiles, Goto, File
<1>1. CASE StartServer(s)
  BY <1>1 DEF StartServer
<1>2. CASE CheckKeys(s)
  BY <1>2 DEF CheckKeys
<1>3. CASE OpenPri(s)
  BY <1>3 DEF OpenPri
<1>4. CASE OpenPub(s)
  BY <1>4 DEF OpenPub
<1>5. CASE ClosePub(s)
  BY <1>5 DEF ClosePub
<1>6. CASE ClosePri(s)
  BY <1>6 DEF ClosePri
<1>7. CASE Bind(s)
  BY <1>7 DEF Bind
<1>8. CASE KillServer(s)
  BY <1>8 DEF KillServer
<1> QED BY <1>1, <1>2, <1>3, <1>4, <1>5, <1>6, <1>7, <1>8 DEF Server

\* A step of a monitor keeps the types and the counts.
LEMMA MonitorType ==
    ASSUME TypeOK, CountInv, NEW m \in Monitors, Ping(m) \/ KillClient(m)
    PROVE  TypeOK' /\ CountInv'
<1> USE PingAssumption DEF history, keyFiles
<1>1. CASE Connect(m)
  <2>1. CASE \E s \in Servers :
                /\ spc[s] = "listening"
                /\ peer' = [peer EXCEPT ![m] = s] /\ served' = TRUE
                /\ Step(m, "check") /\ UNCHANGED key
    BY <1>1, <2>1 DEF Connect, TypeOK, CountInv, Step
  <2>2. CASE PingEndsWith(m, "refused") /\ UNCHANGED served
    BY <1>1, <2>2, PingEndsType DEF Connect, TypeOK, CountInv
  <2> QED BY <1>1, <2>1, <2>2 DEF Connect
<1>2. CASE CheckCache(m)
  BY <1>2 DEF CheckCache, Step, TypeOK, CountInv
<1>3. CASE GetPub(m)
  <2>1. CASE /\ Up(m) /\ key' = [key EXCEPT ![m] = pub]
             /\ Step(m, "write") /\ UNCHANGED peer
    BY <1>3, <2>1 DEF GetPub, Step, TypeOK, CountInv
  <2>2. CASE PingEndsWith(m, "cut")
    BY <1>3, <2>2, PingEndsType DEF GetPub, TypeOK, CountInv
  <2> QED BY <1>3, <2>1, <2>2 DEF GetPub
<1>4. CASE OpenCache(m)
  BY <1>4 DEF OpenCache, Step, TypeOK, CountInv, File
<1>5. CASE CloseCache(m)
  BY <1>5 DEF CloseCache, Step, TypeOK, CountInv
<1>6. CASE ImportKey(m)
  <2>1. CASE /\ cache # Empty /\ key' = [key EXCEPT ![m] = cache]
             /\ Step(m, "nonce") /\ UNCHANGED peer
    BY <1>6, <2>1 DEF ImportKey, Step, TypeOK, CountInv
  <2>2. CASE PingEndsWith(m, "early")
    BY <1>6, <2>2, PingEndsType DEF ImportKey, TypeOK, CountInv
  <2> QED BY <1>6, <2>1, <2>2 DEF ImportKey
<1>7. CASE SignNonce(m)
  <2> DEFINE o == IF ~Up(m) \/ pri = Empty THEN "cut" ELSE Verdict(m)
  <2>1. o \in {"refused", "early", "cut", "unverified", "verified"}
    BY DEF Verdict
  <2>2. PingEndsWith(m, o) /\ cpc[m] # "done"
    BY <1>7 DEF SignNonce
  <2> HIDE DEF o
  <2> QED BY <1>7, <2>1, <2>2, PingEndsType DEF SignNonce, TypeOK, CountInv
<1>8. CASE KillClient(m)
  <2>1. kills' \in 0 .. MaxKills /\ kills' > 0 /\ torn' \in BOOLEAN
    BY <1>8 DEF KillClient, TypeOK
  <2> QED BY <1>8, <2>1, PingEndsType DEF KillClient, TypeOK, CountInv
<1> QED BY <1>1, <1>2, <1>3, <1>4, <1>5, <1>6, <1>7, <1>8 DEF Ping
-----------------------------------------------------------------------------
\* A server that looks for keys finds them settled, or is the only one to create
\* them, or raced.
LEMMA CheckKeysFiles ==
    ASSUME PingInv, NEW s \in Servers, CheckKeys(s), ~raced'
    PROVE  FilesInv' /\ CopyInv'
<1>1. /\ ~raced /\ FilesInv /\ CopyInv /\ TypeOK
      /\ \A t \in Servers : ~Generating(t)
      /\ UNCHANGED <<pri, pub, cache, cpc, peer, key, kills, torn>>
  BY DEF CheckKeys, PingInv, keyFiles, pingVars
<1>2. \A t \in Servers : spc'[t] = IF t = s THEN (IF pub = NoFile THEN "openPri" ELSE "bind")
                                            ELSE spc[t]
  BY <1>1 DEF CheckKeys, Goto, TypeOK
<1>3. spc[s] = "check"
  BY DEF CheckKeys
<1>4. Settled => Settled'
  BY <1>1, <1>2 DEF Settled, Generating
<1>5. pub # NoFile => Settled
  BY <1>1 DEF Settled
<1>6. Settled' => Settled
  BY <1>1, <1>5 DEF Settled
<1>7. FilesInv'
  BY <1>1, <1>2, <1>3, <1>4, <1>5, <1>6 DEF FilesInv, Generating
<1>8. CopyInv'
  BY <1>1, <1>2, <1>3, <1>4 DEF CopyInv, Connected
<1> QED BY <1>7, <1>8

\* While a server creates keys nothing is settled, so nothing depends on the files.
LEMMA NotSettled ==
    ASSUME TypeOK, FilesInv, CopyInv, ~Settled
    PROVE  /\ \A s \in Servers : spc[s] \notin {"bind", "listening"}
           /\ cache = NoFile /\ \A m \in Monitors : cpc[m] \in {"start", "done"}
BY DEF FilesInv, CopyInv, TypeOK, Connected

\* A server that creates keys works on the files alone.
LEMMA GenerateFiles ==
    ASSUME PingInv, NEW s \in Servers, ~raced,
           OpenPri(s) \/ OpenPub(s) \/ ClosePub(s) \/ ClosePri(s)
    PROVE  FilesInv' /\ CopyInv'
<1>1. /\ TypeOK /\ FilesInv /\ CopyInv /\ Generating(s) /\ ~Settled
      /\ UNCHANGED <<cache, cpc, peer, key, kills, torn>>
  BY DEF PingInv, OpenPri, OpenPub, ClosePub, ClosePri, Generating, Settled, pingVars, history
<1>2. /\ \A t \in Servers \ {s} : ~Generating(t) /\ spc[t] \notin {"bind", "listening"}
      /\ cache = NoFile /\ \A m \in Monitors : cpc[m] \in {"start", "done"}
  BY <1>1, NotSettled DEF FilesInv
<1>3. CopyInv'
  BY <1>1, <1>2, PingAssumption DEF CopyInv, Connected
<1>4. \A t \in Servers \ {s} : spc'[t] = spc[t]
  BY <1>1 DEF OpenPri, OpenPub, ClosePub, ClosePri, Goto, TypeOK
<1>5. CASE OpenPri(s)
  <2>1. spc'[s] = "openPub" /\ pub' = NoFile /\ pri' = Empty
    BY <1>1, <1>5 DEF OpenPri, Goto, TypeOK, FilesInv
  <2> QED BY <1>2, <1>3, <1>4, <2>1 DEF FilesInv, Settled, Generating
<1>6. CASE OpenPub(s)
  <2>1. spc'[s] = "closePub" /\ pub' = Empty /\ pri' = Empty
    BY <1>1, <1>6 DEF OpenPub, Goto, TypeOK, FilesInv
  <2> QED BY <1>2, <1>3, <1>4, <2>1, PingAssumption DEF FilesInv, Settled, Generating
<1>7. CASE ClosePub(s)
  <2>1. spc'[s] = "closePri" /\ pub' = s /\ pri' = Empty
    BY <1>1, <1>7 DEF ClosePub, Goto, TypeOK, FilesInv
  <2> QED BY <1>2, <1>3, <1>4, <2>1, PingAssumption DEF FilesInv, Settled, Generating
<1>8. CASE ClosePri(s)
  <2>1. spc'[s] = "bind" /\ pub' = s /\ pri' = s
    BY <1>1, <1>8 DEF ClosePri, Goto, TypeOK, FilesInv
  <2> QED BY <1>2, <1>3, <1>4, <2>1, PingAssumption DEF FilesInv, Settled, Generating
<1> QED BY <1>5, <1>6, <1>7, <1>8

\* A server that starts, binds its port or fails to, changes no file.
LEMMA BindFiles ==
    ASSUME PingInv, NEW s \in Servers, ~raced, StartServer(s) \/ Bind(s)
    PROVE  FilesInv' /\ CopyInv'
<1>1. /\ TypeOK /\ FilesInv /\ CopyInv
      /\ UNCHANGED <<pri, pub, cache, cpc, peer, key, kills, torn>>
  BY DEF PingInv, StartServer, Bind, keyFiles, pingVars, history
<1>2. /\ spc[s] \in {"off", "bind"}
      /\ spc'[s] = "check" \/ (spc[s] = "bind" /\ spc'[s] \in {"listening", "ended"})
      /\ \A t \in Servers \ {s} : spc'[t] = spc[t]
  BY <1>1 DEF StartServer, Bind, Goto, TypeOK
<1>3. Settled' <=> Settled
  BY <1>1, <1>2 DEF Settled, Generating
<1>4. FilesInv'
  BY <1>1, <1>2, <1>3 DEF FilesInv, Generating
<1>5. CopyInv'
  BY <1>1, <1>2, <1>3 DEF CopyInv, Connected
<1> QED BY <1>4, <1>5

\* The kill of a server that was creating keys leaves nothing, an empty pri.key, or
\* a torn file; that of a server with connections is counted.
LEMMA KillServerFiles ==
    ASSUME PingInv, NEW s \in Servers, ~raced, KillServer(s)
    PROVE  FilesInv' /\ CopyInv'
<1>1. /\ TypeOK /\ FilesInv /\ CopyInv /\ kills' > 0
      /\ torn' = (torn \/ spc[s] \in {"closePub", "closePri"})
      /\ UNCHANGED <<pri, pub, cache, cpc, peer, key>>
  BY DEF PingInv, KillServer, keyFiles, pingVars, TypeOK
<1>2. spc'[s] = "ended" /\ \A t \in Servers \ {s} : spc'[t] = spc[t]
  BY <1>1 DEF KillServer, Goto, TypeOK
<1>3. Settled => Settled'
  BY <1>1, <1>2 DEF Settled, Generating
<1>4. Settled' /\ ~torn' => Settled /\ ~torn
  BY <1>1, <1>2 DEF Settled, Generating, FilesInv
<1>5. FilesInv'
  BY <1>1, <1>2, <1>3, <1>4 DEF FilesInv, Generating
<1>6. CopyInv'
  BY <1>1, <1>3 DEF CopyInv, Connected
<1> QED BY <1>5, <1>6
-----------------------------------------------------------------------------
\* Monitors write no key file: what they find settled stays settled.
LEMMA MonitorFrame ==
    ASSUME NEW m \in Monitors, Ping(m) \/ KillClient(m)
    PROVE  /\ UNCHANGED <<pri, pub, spc, raced>> /\ (Settled' <=> Settled)
           /\ FilesInv => FilesInv'
<1>1. UNCHANGED <<pri, pub, spc, raced>>
  BY DEF Ping, Connect, CheckCache, GetPub, OpenCache, CloseCache, ImportKey, SignNonce,
         KillClient, keyFiles, history
<1>2. Settled' <=> Settled
  BY <1>1 DEF Settled, Generating
<1>3. torn => torn'
  <2>1. CASE Ping(m)
    BY <2>1 DEF Ping, Connect, CheckCache, GetPub, OpenCache, CloseCache, ImportKey,
                SignNonce, history
  <2>2. CASE KillClient(m)
    BY <2>2, Zenon DEF KillClient
  <2> QED BY <2>1, <2>2
<1> QED BY <1>1, <1>2, <1>3 DEF FilesInv, Generating

\* The end of a ping takes its monitor out of what the copy depends on.
LEMMA PingEndsCopy ==
    ASSUME PingInv, FilesInv, CopyInv, NEW m \in Monitors, NEW o, PingEndsWith(m, o),
           UNCHANGED <<pri, pub, cache, spc>>, kills <= kills', kills' \in Nat,
           cpc[m] = "close" => torn', torn => torn'
    PROVE  CopyInv'
<1>1. Settled' <=> Settled
  BY DEF Settled, Generating
<1>2. /\ cpc'[m] \in {"start", "done"}
      /\ \A n \in Monitors \ {m} :
            cpc'[n] = cpc[n] /\ peer'[n] = peer[n] /\ key'[n] = key[n]
  BY DEF PingInv, TypeOK, PingEndsWith
<1>3. kills \in Nat
  BY PingAssumption DEF PingInv, TypeOK
<1>4. cache' = Empty /\ ~torn' => \E n \in Monitors : cpc'[n] = "close"
  BY <1>2 DEF CopyInv
<1>5. ASSUME NEW n \in Monitors
      PROVE  /\ Connected(n)' => /\ Settled' /\ peer'[n] \in Servers
                                 /\ spc'[peer'[n]] = "listening" \/ kills' > 0
             /\ cpc'[n] \in {"write", "close", "nonce"} => key'[n] = pub'
             /\ cpc'[n] = "import" => cache' # NoFile
  <2>1. CASE n = m
    BY <1>2, <2>1 DEF Connected
  <2>2. CASE n # m
    BY <1>1, <1>2, <1>3, <2>2 DEF Connected, CopyInv
  <2> QED BY <2>1, <2>2
<1> QED BY <1>1, <1>4, <1>5 DEF CopyInv

\* What a ping that ends may have met while no servers raced.
LEMMA PingEndsVerdict ==
    ASSUME PingInv, NEW m \in Monitors, NEW o, PingEndsWith(m, o), raced' = raced,
           kills <= kills', kills' \in Nat,
           o = "unverified" => raced, o = "cut" => raced \/ kills' > 0
    PROVE  VerdictsSound'
<1>1. hit'[m] = o /\ \A n \in Monitors \ {m} : hit'[n] = hit[n]
  BY DEF PingInv, TypeOK, PingEndsWith
<1>2. kills \in Nat
  BY PingAssumption DEF PingInv, TypeOK
<1> QED BY <1>1, <1>2 DEF PingInv, VerdictsSound

\* A connection is made to a server that listens, so the files are settled.
LEMMA ConnectStep == ASSUME PingInv, NEW m \in Monitors, Connect(m)
                     PROVE  VerdictsSound' /\ (~raced => CopyInv')
<1>1. UNCHANGED <<pri, pub, cache, spc, kills, raced, torn>> /\ TypeOK
  BY DEF Connect, keyFiles, PingInv
<1>2. CASE PingEndsWith(m, "refused")
  <2>1. kills \in Nat
    BY <1>1, PingAssumption DEF TypeOK
  <2> QED BY <1>1, <1>2, <2>1, PingEndsVerdict, PingEndsCopy DEF Connect, PingInv
<1>3. ASSUME NEW s \in Servers, spc[s] = "listening", peer' = [peer EXCEPT ![m] = s],
             Step(m, "check"), UNCHANGED key
      PROVE  VerdictsSound' /\ (~raced => CopyInv')
  <2>1. Settled' <=> Settled
    BY <1>1 DEF Settled, Generating
  <2>2. /\ cpc'[m] = "check" /\ peer'[m] = s /\ UNCHANGED <<key, hit>>
        /\ \A n \in Monitors \ {m} : cpc'[n] = cpc[n] /\ peer'[n] = peer[n]
    BY <1>1, <1>3 DEF TypeOK, Step
  <2>3. ~raced => Settled
    BY <1>3 DEF PingInv, FilesInv
  <2>4. cpc[m] = "start"
    BY DEF Connect
  <2>5. ~raced => CopyInv'
    BY <1>1, <1>3, <2>1, <2>2, <2>3, <2>4 DEF CopyInv, Connected, PingInv
  <2> QED BY <1>1, <2>2, <2>5 DEF VerdictsSound, PingInv
<1> QED BY <1>2, <1>3 DEF Connect

\* The other steps before the end of a ping: the copy is settled, and the key comes
\* from settled files.
LEMMA FetchStep ==
    ASSUME PingInv, NEW m \in Monitors,
           CheckCache(m) \/ OpenCache(m) \/ CloseCache(m)
    PROVE  VerdictsSound' /\ (~raced => CopyInv')
<1>1. UNCHANGED <<pri, pub, spc, kills, raced, torn, peer, key, hit>> /\ TypeOK
  BY DEF CheckCache, OpenCache, CloseCache, Step, keyFiles, history, PingInv
<1>2. Settled' <=> Settled
  BY <1>1 DEF Settled, Generating
<1>3. \A n \in Monitors \ {m} : cpc'[n] = cpc[n]
  BY <1>1 DEF TypeOK, CheckCache, OpenCache, CloseCache, Step
<1>4. ASSUME ~raced PROVE CopyInv'
  <2>1. FilesInv /\ CopyInv /\ Connected(m) /\ Settled
    BY <1>4 DEF PingInv, CopyInv, Connected, CheckCache, OpenCache, CloseCache
  <2>2. CASE CheckCache(m)
    <3>1. cpc[m] = "check" /\ cpc'[m] = (IF cache = NoFile THEN "get" ELSE "import") /\ cache' = cache
      BY <1>1, <2>2 DEF TypeOK, CheckCache, Step
    <3> QED BY <1>1, <1>2, <1>3, <2>1, <3>1 DEF CopyInv, Connected
  <2>3. CASE OpenCache(m)
    <3>1. cpc[m] = "write" /\ cpc'[m] = "close" /\ cache' = Empty
      BY <1>1, <2>3 DEF TypeOK, OpenCache, Step
    <3> QED BY <1>1, <1>2, <1>3, <2>1, <3>1, PingAssumption DEF CopyInv, Connected
  <2>4. CASE CloseCache(m)
    <3>1. cpc[m] = "close" /\ cpc'[m] = "import" /\ cache' = pub
      BY <1>1, <2>1, <2>4 DEF TypeOK, CloseCache, Step, CopyInv
    <3>2. cache' # NoFile /\ (~torn => cache' # Empty)
      BY <2>1, <3>1, PingAssumption DEF Settled, FilesInv
    <3> QED BY <1>1, <1>2, <1>3, <2>1, <3>1, <3>2 DEF CopyInv, Connected
  <2> QED BY <2>2, <2>3, <2>4
<1> QED BY <1>1, <1>4 DEF VerdictsSound, PingInv

\* The server answers with the settled key, or was killed.
LEMMA GetPubStep == ASSUME PingInv, NEW m \in Monitors, GetPub(m)
                    PROVE  VerdictsSound' /\ (~raced => CopyInv')
<1>1. UNCHANGED <<pri, pub, cache, spc, kills, raced, torn>> /\ TypeOK /\ kills \in Nat
  BY PingAssumption DEF GetPub, keyFiles, history, PingInv, TypeOK
<1>2. ~raced => Settled /\ (Up(m) \/ kills > 0) /\ FilesInv /\ CopyInv
  BY DEF PingInv, CopyInv, Connected, GetPub, Up
<1>3. CASE ~Up(m) /\ PingEndsWith(m, "cut")
  BY <1>1, <1>2, <1>3, PingEndsVerdict, PingEndsCopy DEF GetPub
<1>4. CASE Up(m) /\ key' = [key EXCEPT ![m] = pub] /\ Step(m, "write") /\ UNCHANGED peer
  <2>1. Settled' <=> Settled
    BY <1>1 DEF Settled, Generating
  <2>2. /\ cpc[m] = "get" /\ cpc'[m] = "write" /\ key'[m] = pub /\ hit' = hit
        /\ \A n \in Monitors \ {m} : cpc'[n] = cpc[n] /\ key'[n] = key[n]
    BY <1>1, <1>4 DEF TypeOK, Step, GetPub
  <2>3. ~raced => CopyInv'
    BY <1>1, <1>2, <1>4, <2>1, <2>2 DEF CopyInv, Connected
  <2> QED BY <1>1, <2>2, <2>3 DEF VerdictsSound, PingInv
<1> QED BY <1>3, <1>4 DEF GetPub

\* What is imported is the settled key; an empty copy ends the ping early.
LEMMA ImportStep == ASSUME PingInv, NEW m \in Monitors, ImportKey(m)
                    PROVE  VerdictsSound' /\ (~raced => CopyInv')
<1>1. UNCHANGED <<pri, pub, cache, spc, kills, raced, torn>> /\ TypeOK /\ kills \in Nat
  BY PingAssumption DEF ImportKey, keyFiles, history, PingInv, TypeOK
<1>2. ~raced => Settled /\ FilesInv /\ CopyInv
  BY DEF PingInv, CopyInv, Connected, ImportKey
<1>3. CASE PingEndsWith(m, "early")
  BY <1>1, <1>2, <1>3, PingEndsVerdict, PingEndsCopy DEF ImportKey
<1>4. CASE /\ cache # Empty /\ key' = [key EXCEPT ![m] = cache]
           /\ Step(m, "nonce") /\ UNCHANGED peer
  <2>1. Settled' <=> Settled
    BY <1>1 DEF Settled, Generating
  <2>2. /\ cpc[m] = "import" /\ cpc'[m] = "nonce" /\ key'[m] = cache /\ hit' = hit
        /\ \A n \in Monitors \ {m} : cpc'[n] = cpc[n] /\ key'[n] = key[n]
    BY <1>1, <1>4 DEF TypeOK, Step, ImportKey
  <2>3. ~raced => cache = pub
    BY <1>2, <1>4, <2>2 DEF CopyInv
  <2>4. ~raced => CopyInv'
    BY <1>1, <1>2, <1>4, <2>1, <2>2, <2>3 DEF CopyInv, Connected
  <2> QED BY <1>1, <2>2, <2>4 DEF VerdictsSound, PingInv
<1> QED BY <1>3, <1>4 DEF ImportKey

\* The settled private key signs, and what it signed the settled public key verifies.
LEMMA SignStep == ASSUME PingInv, NEW m \in Monitors, SignNonce(m)
                  PROVE  VerdictsSound' /\ (~raced => CopyInv')
<1> DEFINE o == IF ~Up(m) \/ pri = Empty THEN "cut" ELSE Verdict(m)
<1>1. UNCHANGED <<pri, pub, cache, spc, kills, raced, torn>> /\ TypeOK /\ kills \in Nat
  BY PingAssumption DEF SignNonce, keyFiles, history, PingInv, TypeOK
<1>2. PingEndsWith(m, o) /\ cpc[m] = "nonce"
  BY DEF SignNonce
<1>3. ~raced => /\ Settled /\ FilesInv /\ CopyInv /\ key[m] = pub
                /\ Up(m) \/ kills > 0
  BY <1>2 DEF PingInv, CopyInv, Connected, Up
<1>4. o = "unverified" => raced
  BY <1>3 DEF Verdict, FilesInv, Settled
<1>5. o = "cut" => raced \/ kills > 0
  <2>1. ~raced /\ pri = Empty => torn
    BY <1>3, PingAssumption DEF FilesInv
  <2> QED BY <1>3, <2>1 DEF Verdict, PingInv, CountInv
<1> HIDE DEF o
<1> QED BY <1>1, <1>2, <1>3, <1>4, <1>5, PingEndsVerdict, PingEndsCopy

\* A client killed while it writes the copy leaves it torn.
LEMMA KillClientStep == ASSUME PingInv, NEW m \in Monitors, KillClient(m)
                        PROVE  VerdictsSound' /\ (~raced => CopyInv')
<1>1. /\ UNCHANGED <<pri, pub, cache, spc, raced>> /\ kills' = kills + 1
      /\ kills \in Nat /\ kills <= kills' /\ kills' \in Nat /\ kills' > 0
  BY PingAssumption DEF KillClient, keyFiles, PingInv, TypeOK
<1>2. (torn => torn') /\ (cpc[m] = "close" => torn')
  BY Zenon DEF KillClient
<1> QED BY <1>1, <1>2, PingEndsVerdict, PingEndsCopy DEF KillClient, PingInv
-----------------------------------------------------------------------------
\* Every step keeps the strengthened invariant.
LEMMA PingNext == PingInv /\ [Next]_vars => PingInv'
<1> SUFFICES ASSUME PingInv, [Next]_vars PROVE PingInv'
  OBVIOUS
<1>1. ASSUME NEW s \in Servers, StartServer(s) \/ Server(s) \/ KillServer(s)
      PROVE  PingInv'
  <2>1. TypeOK' /\ CountInv'
    BY <1>1, ServerType DEF PingInv
  <2>2. hit' = hit /\ kills' >= kills /\ (raced => raced') /\ kills \in Nat /\ kills' \in Nat
    BY <1>1, PingAssumption DEF StartServer, Server, CheckKeys, OpenPri, OpenPub, ClosePub,
       ClosePri, Bind, KillServer, pingVars, history, PingInv, TypeOK
  <2>3. VerdictsSound'
    BY <2>2 DEF VerdictsSound, PingInv
  <2>4. CASE CheckKeys(s)
    BY <2>1, <2>3, <2>4, CheckKeysFiles DEF PingInv
  <2>5. ~CheckKeys(s) => raced' = raced
    BY <1>1 DEF StartServer, Server, OpenPri, OpenPub, ClosePub, ClosePri, Bind, KillServer,
                history
  <2> QED BY <1>1, <2>1, <2>3, <2>4, <2>5, GenerateFiles, BindFiles, KillServerFiles
          DEF Server, PingInv
<1>2. ASSUME NEW m \in Monitors, Ping(m) \/ KillClient(m)
      PROVE  PingInv'
  <2>1. TypeOK' /\ CountInv'
    BY <1>2, MonitorType DEF PingInv
  <2>2. VerdictsSound' /\ (~raced => CopyInv')
    BY <1>2, ConnectStep, FetchStep, GetPubStep, ImportStep, SignStep, KillClientStep DEF Ping
  <2> QED BY <1>2, <2>1, <2>2, MonitorFrame DEF PingInv
<1>3. CASE UNCHANGED vars
  BY <1>3 DEF vars, keyFiles, pingVars, history, PingInv, TypeOK, CountInv, VerdictsSound,
     FilesInv, CopyInv, Settled, Generating, Connected
<1> QED BY <1>1, <1>2, <1>3 DEF Next

\* The strengthened invariant holds throughout.
LEMMA PingInvariant == Spec => []PingInv
BY PingInit, PingNext, PTL DEF Spec

\* The types of the key files, the processes' places and the counts (CryptoPingServer.py,
\* CryptoPingClient.py, runPing) are kept; in particular no monitor counts more round
\* trips than it made pings.
THEOREM PingTypes == Spec => []TypeOK
<1>1. PingInv => TypeOK
  BY DEF PingInv
<1> QED BY <1>1, PingInvariant, PTL

\* For any number of servers that are started, killed and restarted, and of monitors
\* that fetch the key at once: a server that listens signs with the key it hands out,
\* and the monitors' copy is that key or being written, unless servers raced for the
\* files or a kill tore one (generate_keys, create_file).
THEOREM KeysMatchAlways == Spec => []KeysMatch
<1>1. PingInv => KeysMatch
  BY DEF PingInv, KeysMatch, FilesInv, CopyInv
<1> QED BY <1>1, PingInvariant, PTL

\* For any number of processes: runPing reports a wrong signature only when servers
\* raced for the key files, and loses a connection only then or by a kill.
THEOREM VerdictsSoundAlways == Spec => []VerdictsSound
<1>1. PingInv => VerdictsSound
  BY DEF PingInv
<1> QED BY <1>1, PingInvariant, PTL

\* For any number of processes: while nothing was killed and no servers raced, a ping
\* goes unmeasured only if no server listens or another monitor is writing the copy.
THEOREM PingsMeasuredAlways == Spec => PingsMeasured
<1> DEFINE Excuse(m) == \/ \A s \in Servers : spc[s] # "listening"
                        \/ \E n \in Monitors \ {m} : cpc[n] = "close"
<1>1. ASSUME PingInv, Next, NEW m \in Monitors, todo'[m] # todo[m], rtts'[m] = rtts[m],
             kills' = 0, ~raced
      PROVE  Excuse(m)
  <2>1. PICK n \in Monitors : Ping(n) \/ KillClient(n)
    BY <1>1 DEF Next, StartServer, Server, CheckKeys, OpenPri, OpenPub, ClosePub, ClosePri,
                Bind, KillServer, pingVars
  <2>2. TypeOK /\ FilesInv /\ CopyInv /\ CountInv /\ kills \in Nat
    BY <1>1, PingAssumption DEF PingInv, TypeOK
  <2>3. Ping(n) /\ kills = 0 /\ ~torn
    BY <1>1, <2>1, <2>2 DEF KillClient, Ping, Connect, CheckCache, GetPub, OpenCache,
       CloseCache, ImportKey, SignNonce, history, CountInv
  <2>4. n = m
    BY <1>1, <2>2, <2>3 DEF Ping, Connect, CheckCache, GetPub, OpenCache, CloseCache,
       ImportKey, SignNonce, Step, PingEndsWith, TypeOK
  <2>5. ASSUME Connected(m), PingEndsWith(m, "cut"), ~Up(m) PROVE FALSE
    BY <2>2, <2>3, <2>5 DEF CopyInv, Up
  <2>6. CASE Connect(m)
    BY <1>1, <2>6 DEF Connect, Step
  <2>7. CASE GetPub(m)
    BY <1>1, <2>5, <2>7 DEF GetPub, Step, Connected
  <2>8. CASE ImportKey(m)
    BY <1>1, <2>2, <2>3, <2>8 DEF ImportKey, Step, CopyInv
  <2>9. CASE SignNonce(m)
    <3>1. cpc[m] = "nonce" /\ Settled /\ Up(m) /\ key[m] = pub
      BY <2>2, <2>3, <2>9 DEF SignNonce, CopyInv, Connected, Up
    <3>2. pri = pub /\ pri # Empty
      BY <2>2, <2>3, <3>1, PingAssumption DEF FilesInv
    <3>3. rtts'[m] = rtts[m] + 1
      BY <2>2, <2>9, <3>1, <3>2 DEF SignNonce, Verdict, PingEndsWith, TypeOK
    <3> QED BY <1>1, <2>2, <3>3 DEF TypeOK
  <2>10. CASE CheckCache(m) \/ OpenCache(m) \/ CloseCache(m)
    BY <1>1, <2>10 DEF CheckCache, OpenCache, CloseCache, Step
  <2> QED BY <2>3, <2>4, <2>6, <2>7, <2>8, <2>9, <2>10 DEF Ping
<1>2. PingInv /\ [Next]_vars =>
        [\A m \in Monitors : /\ todo'[m] # todo[m] /\ rtts'[m] = rtts[m] /\ kills' = 0 /\ ~raced
                             => Excuse(m)]_vars
  BY <1>1
<1> QED BY <1>2, PingInvariant, PTL DEF Spec, PingsMeasured
=============================================================================
