-------------------------- MODULE RouteMonitorProofs --------------------------
(***************************************************************************)
(* For every rota, threshold, set of traces and number of experiments and  *)
(* of hijackers: what the route monitor measures before it decides, and    *)
(* how often.                                                              *)
(***************************************************************************)
EXTENDS RouteMonitor, SequenceTheorems, TLAPS

\* Which places a mode reaches, and where intercepted returns to.
ModeInv ==
    /\ pc \in {"act", "rtt"} => mode \in {"full", "lat"}
    /\ pc = "hop" => mode \in {"full", "hop"}
    /\ pc \in {"route", "wait", "decide"} => mode = "full"
    /\ pc \in {"prop", "after"} => mode = "prop"
    /\ pc = "intercept" => \/ ret = "next" /\ mode = "full"
                           \/ ret = (IF mode \in {"full", "lat"} THEN "act" ELSE mode)

\* Experiments are counted in the full mode alone, and none is begun after the last.
ExpInv ==
    /\ mode # "full" => numExp = 0
    /\ pc \in {"init", "check", "decide"} \/ (pc = "intercept" /\ ret = "next")
          => numExp <= MaxExp

\* An experiment that has been counted and has not yet used the rota.
Fresh == pc \in {"act", "dead"} \/ (pc = "intercept" /\ ret = "act")

\* The place in the rota bounds the experiments since a route was measured; a
\* conclusion means that it was measured in this very experiment, which is why the
\* counters can be reset with it.
RotaInv ==
    /\ mode = "full" =>
          since <= pings + hopCounts * (MaxPings + 1) + (IF Fresh THEN 1 ELSE 0)
    /\ conclusion # "EMPTY" =>
          /\ since = 0
          /\ pc \in {"wait", "decide", "dead", "index", "exited"}
                \/ (pc = "intercept" /\ ret = "next")

\* A conclusion was drawn from the route that is kept with it.
BlindInv == conclusion = "UNCONCLUSIVE" => route.nones >= route.hops

\* How far the initialisation has filled the lists, without a hijacker.
ListInv ==
    sims = 0 =>
        /\ ~hijack /\ pc # "index"
        /\ pc \notin {"init", "dead"} => todo = 0
        /\ mode \in {"full", "prop"} =>
              /\ todo <= 4 => hops >= 1 /\ paths >= 1
              /\ todo <= 3 => hops = 2 /\ paths = 2
              /\ todo <= 2 => Len(lats) >= 1
              /\ todo <= 1 => Len(lats) = 2
        /\ mode = "lat" => /\ todo = 0 => Len(lats) >= 1
                           /\ pc = "rtt" => Len(lats) = 2
        /\ mode = "hop" => (todo = 0 => hops >= 1)

\* The inductive strengthening of the three invariants.
RouteInv == TypeOK /\ ModeInv /\ ExpInv /\ RotaInv /\ BlindInv /\ ListInv
-----------------------------------------------------------------------------
\* The lists of latencies that are told apart.
Lats == {<<>>} \cup {<<k>> : k \in Kinds} \cup (Kinds \X Kinds)

\* Appending to a list of one entry.
LEMMA AppendOne == ASSUME NEW K, NEW j \in K, NEW k \in K PROVE Append(<<j>>, k) = <<j, k>>
<1> DEFINE a == Append(<<j>>, k)
           b == <<j, k>>
<1>1. a \in Seq(K) /\ b \in Seq(K)
  OBVIOUS
<1>2. Len(a) = 2 /\ Len(b) = 2
  OBVIOUS
<1>3. a[1] = b[1] /\ a[2] = b[2]
  OBVIOUS
<1> HIDE DEF a, b
<1>4. \A i \in 1 .. Len(a) : a[i] = b[i]
  BY <1>2, <1>3
<1>5. a = b
  BY <1>1, <1>2, <1>4, SeqEqual
<1> QED BY <1>5 DEF a, b

\* A latency more: the list grows to two entries and stays there.
LEMMA LatencyAdded ==
    ASSUME NEW l \in Lats, NEW k \in Kinds,
           NEW r, r = IF Len(l) < 2 THEN Append(l, k) ELSE <<l[2], k>>
    PROVE  r \in Lats /\ Len(l) \in 0 .. 2 /\ Len(r) = IF Len(l) < 2 THEN Len(l) + 1 ELSE 2
<1>1. CASE l = <<>>
  <2>1. Len(l) = 0
    BY <1>1
  <2>2. Append(<<>>, k) = <<k>>
    OBVIOUS
  <2>3. r = <<k>>
    BY <1>1, <2>1, <2>2
  <2>4. Len(<<k>>) = 1
    OBVIOUS
  <2> QED BY <2>1, <2>3, <2>4 DEF Lats
<1>2. ASSUME NEW j \in Kinds, l = <<j>> PROVE r = <<j, k>> /\ Len(l) = 1
  <2>1. Len(<<j>>) = 1
    OBVIOUS
  <2>2. Append(<<j>>, k) = <<j, k>>
    BY <1>2, AppendOne
  <2> QED BY <1>2, <2>1, <2>2
<1>3. ASSUME NEW i \in Kinds, NEW j \in Kinds, l = <<i, j>> PROVE r = <<j, k>> /\ Len(l) = 2
  BY <1>3
<1>4. \A i, j \in Kinds : <<i, j>> \in Lats /\ Len(<<i, j>>) = 2
  BY DEF Lats
<1> QED BY <1>1, <1>2, <1>3, <1>4 DEF Lats

\* A ping keeps the type of the latencies; it adds one unless a hijacker is awaited.
LEMMA PingType ==
    ASSUME TypeOK, ExecutePing
    PROVE  /\ lats' \in Lats /\ hasNaN' \in BOOLEAN /\ Len(lats) \in 0 .. 2
           /\ ~hijack => Len(lats') = IF Len(lats) < 2 THEN Len(lats) + 1 ELSE 2
<1>1. lats \in Lats /\ hasNaN \in BOOLEAN
  BY DEF TypeOK, Lats
<1>2. "low" \in Kinds
  BY DEF Kinds
<1>3. Len(lats) \in 0 .. 2
  BY <1>1, <1>2, LatencyAdded
<1>4. ASSUME NEW k \in Kinds, AddLatency(k)
      PROVE  /\ lats' \in Lats /\ hasNaN' \in BOOLEAN
             /\ Len(lats') = IF Len(lats) < 2 THEN Len(lats) + 1 ELSE 2
  <2>1. hasNaN' \in BOOLEAN
    BY <1>4 DEF AddLatency
  <2> QED BY <1>1, <1>4, <2>1, LatencyAdded DEF AddLatency
<1> QED BY <1>1, <1>3, <1>4 DEF ExecutePing

\* A trace adds a path and a hop count, both counted to two.
LEMMA TraceType ==
    ASSUME TypeOK, ExecuteTrace
    PROVE  /\ methodTwo' \in BOOLEAN /\ paths' \in 0 .. 2 /\ hops' \in 0 .. 2 /\ since' = 0
           /\ paths' = One(paths) /\ hops' = One(hops)
<1>1. methodTwo' \in BOOLEAN
  BY DEF ExecuteTrace
<1> QED BY <1>1 DEF ExecuteTrace, One, TypeOK

\* So does a hop count, unless a hijacker is awaited.
LEMMA HopsType ==
    ASSUME TypeOK, AddHops
    PROVE  /\ hops' \in 0 .. 2 /\ UNCHANGED <<lats, hasNaN, paths, methodTwo>>
           /\ ~hijack => hops' = One(hops)
BY DEF AddHops, One, TypeOK
-----------------------------------------------------------------------------
\* The monitor starts in the strengthened invariant.
LEMMA RouteInit == Init => RouteInv
<1> SUFFICES ASSUME Init PROVE RouteInv
  OBVIOUS
<1>1. TypeOK
  <2>1. /\ 0 \in 0 .. MaxPings /\ 0 \in 0 .. MaxHopCounts /\ 0 \in 0 .. MaxExp + 1
        /\ 0 \in 0 .. MaxSims /\ todo \in 0 .. 5
    BY RouteAssumption DEF Init
  <2>2. lats \in {<<>>} \cup {<<k>> : k \in Kinds} \cup (Kinds \X Kinds)
    BY DEF Init
  <2>3. /\ mode \in Modes /\ pc = "init" /\ ret = "act" /\ avRtt = "null"
        /\ route \in Traces /\ conclusion = "EMPTY" /\ since \in Nat
        /\ hops \in 0 .. 2 /\ paths \in 0 .. 2
    BY DEF Init
  <2>4. /\ hasNaN \in BOOLEAN /\ methodTwo \in BOOLEAN /\ alert \in BOOLEAN
        /\ hijack \in BOOLEAN /\ dev \in BOOLEAN /\ devRoute \in BOOLEAN
        /\ obj \in BOOLEAN /\ sim \in BOOLEAN
    BY DEF Init
  <2>5. /\ pings \in 0 .. MaxPings /\ hopCounts \in 0 .. MaxHopCounts
        /\ numExp \in 0 .. MaxExp + 1 /\ sims \in 0 .. MaxSims
    BY <2>1 DEF Init
  <2> QED BY <2>1, <2>2, <2>3, <2>4, <2>5 DEF TypeOK
<1>2. ModeInv /\ BlindInv
  BY DEF Init, ModeInv, BlindInv
<1>3. ExpInv /\ RotaInv
  BY RouteAssumption DEF Init, ExpInv, RotaInv, Fresh
<1>4. ListInv
  BY RouteAssumption DEF Init, ListInv
<1> QED BY <1>1, <1>2, <1>3, <1>4 DEF RouteInv

\* The two ways to die keep everything but the place.
LEMMA Throws ==
    ASSUME RouteInv, ToolThrows PROVE RouteInv'
<1> USE DEF ToolThrows, lists, rota, verdict, simVars
<1>1. TypeOK'
  BY DEF RouteInv, TypeOK
<1>2. ModeInv' /\ ExpInv' /\ BlindInv'
  BY DEF RouteInv, ModeInv, ExpInv, BlindInv
<1>3. RotaInv'
  BY RouteAssumption DEF RouteInv, RotaInv, Fresh, TypeOK
<1>4. ListInv'
  BY DEF RouteInv, ListInv
<1> QED BY <1>1, <1>2, <1>3, <1>4 DEF RouteInv
-----------------------------------------------------------------------------
\* The types, the places of the modes and the number of experiments: one step per
\* action.
LEMMA PlacesNext ==
    ASSUME TypeOK, ModeInv, ExpInv, Next, ~ToolThrows
    PROVE  TypeOK' /\ ModeInv' /\ ExpInv'
<1> USE RouteAssumption DEF lists, rota, verdict, simVars
<1>1. CASE Initialize
  <2>1. todo' \in 0 .. 5 /\ UNCHANGED <<mode, pc, ret, numExp>>
    BY <1>1 DEF Initialize, TypeOK
  <2>2. CASE ExecuteTrace /\ TraceOnly
    BY <1>1, <2>1, <2>2, TraceType DEF Initialize, TraceOnly, TypeOK, ModeInv, ExpInv
  <2>3. CASE ExecutePing /\ PingOnly
    BY <1>1, <2>1, <2>3, PingType DEF Initialize, PingOnly, TypeOK, ModeInv, ExpInv, Lats
  <2> QED BY <1>1, <2>2, <2>3 DEF Initialize
<1>2. CASE Begin
  BY <1>2 DEF Begin, TypeOK, ModeInv, ExpInv
<1>3. CASE CheckSimulation
  <2>1. numExp <= MaxExp
    BY <1>3 DEF CheckSimulation, ExpInv
  <2>2. numExp' \in 0 .. MaxExp + 1 /\ since' \in Nat
    BY <1>3, <2>1 DEF CheckSimulation, TypeOK
  <2>3. pc' \in {"intercept", "act", "hop", "prop"} /\ ret' \in {"act", "hop", "prop"}
    BY <1>3 DEF CheckSimulation, TypeOK
  <2>4. TypeOK'
    BY <1>3, <2>2, <2>3 DEF CheckSimulation, TypeOK
  <2>5. ModeInv' /\ ExpInv'
    BY <1>3, <2>3 DEF CheckSimulation, TypeOK, ModeInv, ExpInv
  <2> QED BY <2>4, <2>5
<1>4. CASE Intercepted
  <2>1. pc' \in {"act", "hop", "prop", "check", "decide"} /\ UNCHANGED <<mode, ret, numExp>>
    BY <1>4 DEF Intercepted, AfterWait, TypeOK, ModeInv
  <2>2. /\ UNCHANGED <<mode, todo, ret, lists, avRtt, rota, verdict, sims>>
        /\ dev' = TRUE /\ devRoute' = TRUE
    BY <1>4 DEF Intercepted
  <2>3. (obj' = obj \/ obj' = TRUE) /\ (hijack' = hijack \/ hijack' = FALSE)
        /\ (sim' = sim \/ sim' = TRUE)
    BY <1>4 DEF Intercepted
  <2>4. obj' \in BOOLEAN /\ hijack' \in BOOLEAN /\ sim' \in BOOLEAN
    BY <2>3, Zenon DEF TypeOK
  <2>5. TypeOK'
    BY <2>1, <2>2, <2>4 DEF TypeOK
  <2>6. ModeInv' /\ ExpInv'
    BY <1>4, <2>1 DEF Intercepted, AfterWait, TypeOK, ModeInv, ExpInv
  <2> QED BY <2>5, <2>6
<1>5. CASE Act
  <2>1. pc' \in {"rtt", "index"} /\ UNCHANGED <<mode, ret, numExp, todo, avRtt, verdict, simVars>>
    BY <1>5 DEF Act, ExecuteTool
  <2>2. ModeInv' /\ ExpInv'
    BY <1>5, <2>1 DEF Act, ModeInv, ExpInv
  <2>3. CASE mode = "lat" /\ ExecutePing /\ PingOnly /\ UNCHANGED <<pings, hopCounts>>
    BY <2>1, <2>2, <2>3, PingType DEF PingOnly, TypeOK, Lats
  <2>4. CASE mode = "full" /\ ExecuteTool
    <3>1. pings' \in 0 .. MaxPings /\ hopCounts' \in 0 .. MaxHopCounts
      BY <2>4 DEF ExecuteTool, TypeOK
    <3>2. CASE ExecutePing /\ PingOnly
      BY <2>1, <2>2, <3>1, <3>2, PingType DEF PingOnly, TypeOK, Lats
    <3>3. CASE ExecuteTrace /\ TraceOnly
      BY <2>1, <2>2, <3>1, <3>3, TraceType DEF TraceOnly, TypeOK
    <3>4. CASE AddHops /\ UNCHANGED since
      BY <2>1, <2>2, <3>1, <3>4, HopsType DEF TypeOK
    <3>5. CASE UNCHANGED lists /\ UNCHANGED since
      BY <2>1, <2>2, <3>1, <3>5 DEF TypeOK
    <3> QED BY <2>4, <3>2, <3>3, <3>4, <3>5 DEF ExecuteTool
  <2> QED BY <1>5, <2>3, <2>4 DEF Act
<1>6. CASE RttMeasurement
  <2>1. pc' \in {"index", "check", "hop", "wait"} /\ UNCHANGED <<mode, ret, numExp>>
    BY <1>6 DEF RttMeasurement, IndexThrows, ModeInv
  <2>2. avRtt' \in {"null", "low", "mixed", "nan"} /\ alert' \in BOOLEAN
    BY <1>6 DEF RttMeasurement, IndexThrows, TypeOK, Average
  <2>3. TypeOK'
    BY <1>6, <2>1, <2>2 DEF RttMeasurement, IndexThrows, TypeOK
  <2>4. ModeInv' /\ ExpInv'
    BY <1>6, <2>1 DEF RttMeasurement, IndexThrows, ModeInv, ExpInv, TypeOK
  <2> QED BY <2>3, <2>4
<1>7. CASE HopCountMeasurement
  <2>1. pc' \in {"index", "check", "route", "wait"} /\ UNCHANGED <<mode, ret, numExp>>
    BY <1>7 DEF HopCountMeasurement, IndexThrows
  <2>2. alert' \in BOOLEAN
    BY <1>7 DEF HopCountMeasurement, IndexThrows, TypeOK
  <2>3. hops' \in 0 .. 2 /\ UNCHANGED <<lats, hasNaN, paths, methodTwo>>
    BY <1>7, HopsType DEF HopCountMeasurement, TypeOK
  <2>4. TypeOK'
    BY <1>7, <2>1, <2>2, <2>3 DEF HopCountMeasurement, IndexThrows, TypeOK
  <2>5. ModeInv' /\ ExpInv'
    BY <1>7, <2>1 DEF HopCountMeasurement, IndexThrows, ModeInv, ExpInv, TypeOK
  <2> QED BY <2>4, <2>5
<1>8. CASE MeasureRoute
  <2>1. /\ pc' = "wait" /\ UNCHANGED <<mode, todo, ret, lats, hasNaN, hops, methodTwo, avRtt,
               pings, hopCounts, numExp, alert, hijack, dev, obj, sim, sims>>
        /\ route' \in Traces /\ conclusion' \in {"CONCLUSIVE", "UNCONCLUSIVE"}
        /\ devRoute' \in BOOLEAN /\ since' = 0
    BY <1>8 DEF MeasureRoute
  <2>2. paths' \in 0 .. 2
    BY <1>8 DEF MeasureRoute, One, TypeOK
  <2>3. TypeOK'
    BY <2>1, <2>2 DEF TypeOK
  <2> QED BY <1>8, <2>1, <2>3 DEF MeasureRoute, ModeInv, ExpInv
<1>9. CASE Wait
  <2>1. /\ pc' \in {"exited", "intercept", "decide", "check"} /\ ret' \in {ret, "next"}
        /\ UNCHANGED <<mode, numExp>> /\ mode = "full"
    BY <1>9 DEF Wait, AfterWait, ModeInv
  <2>2. TypeOK'
    BY <1>9, <2>1 DEF Wait, TypeOK
  <2>3. ModeInv'
    BY <1>9, <2>1 DEF Wait, ModeInv, AfterWait
  <2>4. numExp <= MaxExp \/ pc' = "exited"
    BY <1>9 DEF Wait, TypeOK
  <2> QED BY <2>1, <2>2, <2>3, <2>4 DEF ExpInv
<1>10. CASE Decide
  <2>1. /\ pc' \in {"index", "check"} /\ UNCHANGED <<mode, todo, ret, lists, avRtt, numExp, since, route, simVars>>
        /\ conclusion' \in {conclusion, "EMPTY"} /\ pings' \in {pings, 0}
        /\ hopCounts' \in {hopCounts, 0}
    BY <1>10 DEF Decide, IndexThrows
  <2>2. alert' \in BOOLEAN
    BY <1>10 DEF Decide, IndexThrows, PropVerdicts, TypeOK
  <2>3. pings' \in 0 .. MaxPings /\ hopCounts' \in 0 .. MaxHopCounts
    BY <2>1 DEF TypeOK
  <2>4. TypeOK'
    BY <2>1, <2>2, <2>3 DEF TypeOK
  <2> QED BY <1>10, <2>1, <2>4 DEF Decide, ModeInv, ExpInv
<1>11. CASE PropMeasurement
  <2>1. /\ pc' \in {"index", "after"} /\ mode = "prop"
        /\ UNCHANGED <<mode, todo, ret, avRtt, rota, route, conclusion, simVars, lats, hasNaN,
                       hops, methodTwo>>
    BY <1>11 DEF PropMeasurement, IndexThrows, ModeInv
  <2>2. alert' \in BOOLEAN
    BY <1>11 DEF PropMeasurement, IndexThrows, PropVerdicts, TypeOK
  <2>3. paths' \in 0 .. 2
    BY <1>11 DEF PropMeasurement, One, TypeOK
  <2>4. TypeOK'
    BY <2>1, <2>2, <2>3 DEF TypeOK
  <2> QED BY <2>1, <2>4 DEF ModeInv, ExpInv
<1>12. CASE AfterProp
  <2>1. /\ ExecutePing /\ ExecuteTrace /\ pc' = "check" /\ mode = "prop"
        /\ UNCHANGED <<mode, todo, ret, avRtt, pings, hopCounts, numExp, verdict, simVars>>
    BY <1>12 DEF AfterProp, ModeInv
  <2>2. TypeOK'
    BY <2>1, PingType, TraceType DEF TypeOK, Lats
  <2> QED BY <2>1, <2>2 DEF ModeInv, ExpInv
<1>13. CASE SimConnects
  <2>1. sims' \in 0 .. MaxSims /\ sim' \in BOOLEAN /\ hijack' \in BOOLEAN
    <3>1. sims' \in 0 .. MaxSims
      BY <1>13 DEF SimConnects, TypeOK
    <3>2. sim' \in BOOLEAN /\ hijack' \in BOOLEAN
      BY <1>13 DEF SimConnects
    <3> QED BY <3>1, <3>2
  <2>2. TypeOK'
    <3>1. UNCHANGED <<mode, pc, todo, ret, lists, avRtt, rota, verdict, dev, devRoute, obj>>
      BY <1>13 DEF SimConnects
    <3> QED BY <2>1, <3>1 DEF TypeOK
  <2> QED BY <1>13, <2>2 DEF SimConnects, ModeInv, ExpInv
<1> QED BY <1>1, <1>2, <1>3, <1>4, <1>5, <1>6, <1>7, <1>8, <1>9, <1>10, <1>11, <1>12, <1>13
        DEF Next, Monitor
\* A ratio that, truncated, exceeds a threshold that is not negative is at least 1.
LEMMA Truncated == ASSUME NEW t \in Traces, Unconclusive(t) PROVE t.nones >= t.hops
<1>1. PICK n \in Nat, h \in Nat \ {0} : n = t.nones /\ h = t.hops
  BY RouteAssumption
<1>2. n < h => n \div h = 0
  BY SMT
<1>3. (n \div h) * NonesDen > NonesNum
  BY <1>1 DEF Unconclusive
<1> QED BY <1>1, <1>2, <1>3, RouteAssumption

\* A conclusion keeps its route: only MeasureRoute draws one, from the route it stores.
LEMMA BlindNext == ASSUME BlindInv, Next PROVE BlindInv'
<1>1. CASE MeasureRoute
  <2>1. CASE ToolThrows
    BY <2>1 DEF ToolThrows, verdict, BlindInv
  <2>2. CASE ~ToolThrows
    <3>1. PICK t \in Traces :
            /\ route' = t
            /\ conclusion' = IF Unconclusive(t) THEN "UNCONCLUSIVE" ELSE "CONCLUSIVE"
      BY <1>1, <2>2 DEF MeasureRoute
    <3> QED BY <3>1, Truncated DEF BlindInv
  <2> QED BY <2>1, <2>2
<1>2. CASE ~MeasureRoute
  <2>1. route' = route /\ conclusion' \in {conclusion, "EMPTY"}
    BY <1>2 DEF Next, Monitor, Initialize, Begin, CheckSimulation, Intercepted, Act,
       ExecuteTool, RttMeasurement, HopCountMeasurement, Wait, Decide, PropMeasurement,
       AfterProp, SimConnects, ToolThrows, IndexThrows, verdict
  <2> QED BY <2>1 DEF BlindInv
<1> QED BY <1>1, <1>2

\* One hop count more is one round of pings more.
LEMMA OneRound == ASSUME NEW h \in Nat
                  PROVE  (h + 1) * (MaxPings + 1) = h * (MaxPings + 1) + MaxPings + 1
BY RouteAssumption, SMT

\* The rota: every experiment moves it on by one, and it is begun again only when a
\* route has just been measured.
LEMMA RotaNext ==
    ASSUME TypeOK, ModeInv, ExpInv, RotaInv, Next, ~ToolThrows PROVE RotaInv'
<1> USE DEF lists, rota, verdict, simVars
<1> DEFINE R == hopCounts * (MaxPings + 1)
<1>1. /\ R \in Nat /\ pings \in Nat /\ since \in Nat /\ hopCounts \in Nat
      /\ 0 * (MaxPings + 1) = 0 /\ mode \in {"full", "lat", "hop", "prop"}
  BY RouteAssumption, SMT DEF TypeOK
<1>2. (hopCounts + 1) * (MaxPings + 1) = R + MaxPings + 1
  BY <1>1, OneRound
<1>3. CASE Act
  <2>1. conclusion = "EMPTY" /\ conclusion' = "EMPTY" /\ pc' \in {"rtt", "index"} /\ mode' = mode
    BY <1>3 DEF Act, ExecuteTool, RotaInv
  <2>2. mode = "full" => since <= pings + R + 1
    BY <1>3 DEF Act, RotaInv, Fresh
  <2>3. CASE mode = "full" /\ ExecuteTool
    <3>1. CASE pings < MaxPings /\ PingOnly /\ pings' = pings + 1 /\ UNCHANGED hopCounts
      BY <1>1, <2>1, <2>2, <2>3, <3>1 DEF PingOnly, RotaInv, Fresh
    <3>2. CASE pings = MaxPings /\ hopCounts' = hopCounts + 1 /\ pings' = 0 /\ UNCHANGED since
      <4>1. hopCounts' * (MaxPings + 1) = R + MaxPings + 1
        BY <1>2, <3>2
      <4>2. since' <= pings' + hopCounts' * (MaxPings + 1)
        BY <1>1, <2>2, <2>3, <3>2, <4>1
      <4>3. hopCounts' * (MaxPings + 1) \in Nat /\ pings' \in Nat
        BY <1>1, <3>2, <4>1, RouteAssumption
      <4> QED BY <2>1, <4>2, <4>3 DEF RotaInv, Fresh
    <3>3. CASE ExecuteTrace /\ hopCounts' = 0 /\ pings' = 0
      BY <1>1, <2>1, <3>3 DEF ExecuteTrace, RotaInv, Fresh
    <3> QED BY <2>3, <3>1, <3>2, <3>3 DEF ExecuteTool
  <2>4. CASE mode = "lat"
    BY <2>1, <2>4 DEF RotaInv
  <2> QED BY <1>3, <2>3, <2>4 DEF Act
<1>4. CASE CheckSimulation
  <2>1. /\ conclusion = "EMPTY" /\ UNCHANGED <<mode, conclusion, pings, hopCounts>>
        /\ mode = "full" => since' = since + 1 /\ Fresh' /\ ~Fresh
    BY <1>4 DEF CheckSimulation, RotaInv, Fresh
  <2> QED BY <1>1, <2>1 DEF RotaInv
<1>5. CASE MeasureRoute
  <2>1. since' = 0 /\ pc' = "wait" /\ UNCHANGED <<pings, hopCounts, mode>>
    BY <1>5 DEF MeasureRoute
  <2> QED BY <1>1, <2>1 DEF RotaInv, Fresh
<1>6. CASE Decide
  <2>1. /\ since = 0 /\ since' = 0 /\ ~Fresh /\ ~Fresh' /\ mode' = mode
        /\ \/ UNCHANGED <<pings, hopCounts, conclusion>> /\ pc' = "index"
           \/ pings' = 0 /\ hopCounts' = 0 /\ conclusion' = "EMPTY"
    BY <1>6 DEF Decide, IndexThrows, RotaInv, Fresh
  <2> QED BY <1>1, <2>1 DEF RotaInv
<1>7. CASE Wait \/ Intercepted
  <2>1. UNCHANGED <<mode, conclusion, since, pings, hopCounts>> /\ (Fresh => Fresh')
    BY <1>7 DEF Wait, Intercepted, AfterWait, Fresh
  <2>2. conclusion # "EMPTY" => since = 0 /\ \/ pc' \in {"exited", "decide"}
                                             \/ pc' = "intercept" /\ ret' = "next"
    BY <1>7 DEF RotaInv, Wait, Intercepted, AfterWait
  <2> QED BY <1>1, <2>1, <2>2 DEF RotaInv
<1>8. CASE Initialize \/ AfterProp
  <2>1. /\ since' \in {since, 0} /\ UNCHANGED <<mode, conclusion, pings, hopCounts>>
        /\ conclusion = "EMPTY" /\ ~Fresh /\ ~Fresh'
    BY <1>8 DEF Initialize, AfterProp, ExecuteTrace, PingOnly, RotaInv, Fresh
  <2> QED BY <1>1, <2>1 DEF RotaInv
<1>9. CASE Begin \/ RttMeasurement \/ HopCountMeasurement \/ PropMeasurement
  <2>1. /\ UNCHANGED <<mode, conclusion, since, pings, hopCounts>>
        /\ conclusion = "EMPTY" /\ ~Fresh
    BY <1>9 DEF Begin, RttMeasurement, HopCountMeasurement, PropMeasurement, IndexThrows,
                RotaInv, Fresh
  <2> QED BY <1>1, <2>1 DEF RotaInv
<1>10. CASE SimConnects
  BY <1>10 DEF SimConnects, RotaInv, Fresh
<1> QED BY <1>3, <1>4, <1>5, <1>6, <1>7, <1>8, <1>9, <1>10 DEF Next, Monitor
\* Without a hijacker every measurement is recorded, so that the initialisation and
\* the measurement that comes before each comparison fill the lists.
LEMMA ListNext ==
    ASSUME TypeOK, ModeInv, ListInv, Next, ~ToolThrows PROVE ListInv'
<1> USE DEF lists, rota, verdict, simVars
<1> SUFFICES ASSUME sims' = 0 PROVE ListInv'
  BY DEF ListInv
<1>1. sims = 0 /\ ~SimConnects
  BY RouteAssumption DEF Next, Monitor, Initialize, Begin, CheckSimulation, Intercepted, Act,
     ExecuteTool, RttMeasurement, HopCountMeasurement, MeasureRoute, Wait, Decide,
     PropMeasurement, AfterProp, SimConnects, IndexThrows, TypeOK
<1>2. ~hijack /\ ListInv /\ mode \in {"full", "lat", "hop", "prop"}
      /\ (pc \notin {"init", "dead"} => todo = 0)
  BY <1>1, RouteAssumption DEF ListInv, TypeOK
<1>3. CASE Initialize
  <2>1. /\ pc = "init" /\ pc' = "init" /\ todo \in 1 .. 5 /\ todo' = todo - 1
        /\ UNCHANGED <<mode, hijack>>
    BY <1>3 DEF Initialize, TypeOK
  <2>2. CASE (mode = "hop" \/ todo > 3) /\ ExecuteTrace /\ TraceOnly
    <3>1. hops' = One(hops) /\ paths' = One(paths) /\ lats' = lats
      BY <2>2 DEF ExecuteTrace, TraceOnly
    <3>2. hops \in 0 .. 2 /\ paths \in 0 .. 2
      BY DEF TypeOK
    <3> QED BY <1>1, <1>2, <2>1, <2>2, <3>1, <3>2 DEF ListInv, One
  <2>3. CASE mode # "hop" /\ todo <= 3 /\ ExecutePing /\ PingOnly
    <3>1. /\ Len(lats') = IF Len(lats) < 2 THEN Len(lats) + 1 ELSE 2
          /\ Len(lats) \in 0 .. 2 /\ UNCHANGED <<hops, paths>>
      BY <1>2, <2>3, PingType DEF PingOnly
    <3> QED BY <1>1, <1>2, <2>1, <2>3, <3>1 DEF ListInv
  <2> QED BY <1>3, <2>1, <2>2, <2>3 DEF Initialize
<1>4. CASE Begin \/ CheckSimulation \/ Wait
  <2>1. /\ UNCHANGED <<mode, todo, lists, hijack>> /\ todo = 0
        /\ pc' \in {"check", "intercept", "act", "hop", "prop", "exited", "decide"}
    BY <1>2, <1>4 DEF Begin, CheckSimulation, Wait, AfterWait
  <2> QED BY <1>1, <1>2, <2>1 DEF ListInv
<1>5. CASE Intercepted
  <2>1. /\ UNCHANGED <<mode, todo, lists>> /\ todo = 0 /\ hijack' \in {hijack, FALSE}
        /\ pc' \in {"check", "act", "hop", "prop", "decide"}
    BY <1>2, <1>5 DEF Intercepted, AfterWait, ModeInv
  <2> QED BY <1>1, <1>2, <2>1 DEF ListInv
<1>6. CASE Act
  <2>1. UNCHANGED <<mode, todo, hijack>> /\ todo = 0 /\ pc' \in {"rtt", "index"}
    BY <1>2, <1>6 DEF Act, ExecuteTool
  <2>2. CASE ExecutePing /\ PingOnly /\ pc' = "rtt"
    <3>1. /\ Len(lats') = IF Len(lats) < 2 THEN Len(lats) + 1 ELSE 2
          /\ Len(lats) \in 0 .. 2 /\ UNCHANGED <<hops, paths>>
      BY <1>2, <2>2, PingType DEF PingOnly
    <3> QED BY <1>1, <1>2, <2>1, <2>2, <3>1 DEF ListInv
  <2>3. CASE mode = "full" /\ ExecuteTrace /\ TraceOnly /\ pc' = "rtt"
    BY <1>1, <1>2, <2>1, <2>3 DEF ExecuteTrace, TraceOnly, ListInv, One
  <2>4. CASE /\ mode = "full"
             /\ IF methodTwo THEN UNCHANGED lists ELSE AddHops
             /\ pc' = IF ~methodTwo /\ hops' < 2 THEN "index" ELSE "rtt"
    <3>1. hops = 2 /\ UNCHANGED <<lats, paths>>
      BY <1>1, <1>2, <2>1, <2>4 DEF ListInv, AddHops
    <3>2. hops' = 2
      BY <1>2, <2>4, <3>1 DEF AddHops, One
    <3>3. pc' = "rtt"
      BY <2>4, <3>2
    <3> QED BY <1>1, <1>2, <2>1, <2>4, <3>1, <3>2, <3>3 DEF ListInv
  <2> QED BY <1>6, <2>2, <2>3, <2>4 DEF Act, ExecuteTool
<1>7. CASE RttMeasurement
  <2>1. todo = 0 /\ Len(lats) = 2
    BY <1>1, <1>2, <1>7 DEF RttMeasurement, ListInv, ModeInv
  <2>2. UNCHANGED <<mode, todo, lists, hijack>> /\ pc' \in {"check", "hop", "wait"}
    BY <1>7, <2>1 DEF RttMeasurement, ModeInv
  <2> QED BY <1>1, <1>2, <2>1, <2>2 DEF ListInv
<1>8. CASE HopCountMeasurement
  <2>1. todo = 0 /\ hops \in 1 .. 2
    BY <1>1, <1>2, <1>8 DEF HopCountMeasurement, ListInv, ModeInv, TypeOK
  <2>2. ~methodTwo => hops' = 2
    BY <1>2, <1>8, <2>1, HopsType DEF HopCountMeasurement, One
  <2>3. /\ UNCHANGED <<mode, todo, lats, paths, hijack>> /\ hops' \in {hops, 2}
        /\ pc' \in {"check", "route", "wait"}
    BY <1>8, <2>2 DEF HopCountMeasurement, AddHops
  <2> QED BY <1>1, <1>2, <2>1, <2>3 DEF ListInv
<1>9. CASE MeasureRoute
  BY <1>1, <1>2, <1>9 DEF MeasureRoute, ListInv, One, ModeInv
<1>10. CASE Decide
  <2>1. todo = 0 /\ paths = 2 /\ Len(lats) = 2
    BY <1>1, <1>2, <1>10 DEF Decide, ListInv, ModeInv
  <2>2. UNCHANGED <<mode, todo, lists, hijack>> /\ pc' = "check"
    BY <1>10, <2>1 DEF Decide
  <2> QED BY <1>1, <1>2, <2>1, <2>2 DEF ListInv
<1>11. CASE PropMeasurement
  <2>1. mode = "prop" /\ todo = 0 /\ paths = 2 /\ Len(lats) = 2
    BY <1>1, <1>2, <1>11 DEF PropMeasurement, ListInv, ModeInv
  <2>2. /\ UNCHANGED <<mode, todo, lats, hops, hijack>> /\ pc' = "after"
        /\ paths' = One(paths)
    BY <1>11, <2>1 DEF PropMeasurement
  <2> QED BY <1>1, <1>2, <2>1, <2>2 DEF ListInv, One
<1>12. CASE AfterProp
  <2>1. /\ mode = "prop" /\ todo = 0 /\ pc' = "check" /\ ExecutePing /\ ExecuteTrace
        /\ hops = 2 /\ paths = 2 /\ Len(lats) = 2 /\ UNCHANGED <<mode, todo, hijack>>
    BY <1>1, <1>2, <1>12 DEF AfterProp, ListInv, ModeInv
  <2>2. Len(lats') = 2
    BY <1>2, <2>1, PingType
  <2>3. hops' = 2 /\ paths' = 2
    BY <2>1 DEF ExecuteTrace, One
  <2>4. sims' = 0 /\ ~hijack' /\ todo' = 0 /\ mode' = "prop" /\ pc' = "check"
    BY <1>1, <1>2, <2>1
  <2> QED BY <2>2, <2>3, <2>4 DEF ListInv
<1> QED BY <1>1, <1>3, <1>4, <1>5, <1>6, <1>7, <1>8, <1>9, <1>10, <1>11, <1>12 DEF Next, Monitor
-----------------------------------------------------------------------------
\* Every step keeps the strengthened invariant.
LEMMA RouteNext == RouteInv /\ [Next]_vars => RouteInv'
<1> SUFFICES ASSUME RouteInv, [Next]_vars PROVE RouteInv'
  OBVIOUS
<1>1. CASE ToolThrows
  BY <1>1, Throws
<1>2. CASE Next /\ ~ToolThrows
  BY <1>2, PlacesNext, RotaNext, BlindNext, ListNext DEF RouteInv
<1>3. CASE UNCHANGED vars
  BY <1>3 DEF vars, lists, rota, verdict, simVars, RouteInv, TypeOK, ModeInv, ExpInv, RotaInv,
     Fresh, BlindInv, ListInv
<1> QED BY <1>1, <1>2, <1>3

\* The strengthened invariant holds throughout.
LEMMA RouteInvariant == Spec => []RouteInv
BY RouteInit, RouteNext, PTL DEF Spec

\* Whatever the tools return: the state of the monitor keeps its types; in particular
\* it never begins more than one experiment after the last (monitor, numExp).
THEOREM RouteTypes == Spec => []TypeOK
<1>1. RouteInv => TypeOK
  BY DEF RouteInv
<1> QED BY <1>1, RouteInvariant, PTL

\* For every threshold that is not negative and all routes: the propagation delay
\* decides (checkIfWasHijacked) only when the route just measured shows no hop at all.
THEOREM BlindRoutesOnlyAlways == Spec => []BlindRoutesOnly
<1>1. RouteInv => BlindRoutesOnly
  BY DEF RouteInv, BlindInv, BlindRoutesOnly
<1> QED BY <1>1, RouteInvariant, PTL

\* For every length of the rota of executeTool: the route is measured at least once in
\* every round of it, however often monitor starts its counters again.
THEOREM RouteMeasuredInRotaAlways == Spec => []RouteMeasuredInRota
<1>1. ASSUME RouteInv PROVE RouteMeasuredInRota
  <2>1. /\ pings \in 0 .. MaxPings /\ hopCounts \in 0 .. MaxHopCounts /\ since \in Nat
        /\ MaxPings \in Nat /\ MaxHopCounts \in Nat
    BY <1>1, RouteAssumption DEF RouteInv, TypeOK
  <2>2. hopCounts * (MaxPings + 1) <= MaxHopCounts * (MaxPings + 1)
    BY <2>1, SMT
  <2>3. (MaxPings + 1) * (MaxHopCounts + 1) = MaxHopCounts * (MaxPings + 1) + MaxPings + 1
    BY <2>1, SMT
  <2>4. hopCounts * (MaxPings + 1) \in Nat /\ MaxHopCounts * (MaxPings + 1) \in Nat
    BY <2>1, SMT
  <2>5. mode = "full" => since <= pings + hopCounts * (MaxPings + 1) + 1
    BY <1>1, <2>1, <2>4 DEF RouteInv, RotaInv
  <2> QED BY <2>1, <2>2, <2>3, <2>4, <2>5 DEF RouteMeasuredInRota
<1> QED BY <1>1, RouteInvariant, PTL

\* For every behaviour of the tools: without a simulated hijacker no mode reads an
\* entry that its list does not have (rttMeasurement, hopCountMeasurement, the
\* comparison of paths, verifyPropDelay).
THEOREM ListsLongEnoughAlways == Spec => []ListsLongEnough
<1>1. RouteInv => ListsLongEnough
  BY DEF RouteInv, ListInv, ListsLongEnough
<1> QED BY <1>1, RouteInvariant, PTL
=============================================================================
