------------------------------- MODULE RouteMonitor -------------------------------
(***************************************************************************)
(* Darshana's client in the modes "full", "lat", "hop" and "prop": the     *)
(* measurements it makes, the lists it keeps them in, the moving average,  *)
(* the cascade of latency, hop count and path in the full mode, and the    *)
(* flag by which a simulated hijacker's thread changes what is measured.   *)
(* PathMonitor is the mode "path" and the comparison of two paths.         *)
(*                                                                         *)
(* Abstractions.  A latency is low, high (more than the threshold times a  *)
(* low one) or NaN (all five pings of the measurement failed); the average *)
(* is low, mixed or NaN.  Of the lists of measurements the last two        *)
(* entries count.  A tool that prints nothing makes the parser throw.      *)
(***************************************************************************)
EXTENDS Integers, Sequences, SequencesExt

CONSTANTS Modes,     \* the monitoring modes to start in
          Traces,    \* what a traceroute may find: [nones, hops, complete]
          NonesNum, NonesDen,  \* _pathNonesThreshold = NonesNum / NonesDen
          MaxPings, MaxHopCounts,  \* 5 and 5, the rota of executeTool
          MaxExp,    \* 150, after which the monitor exits
          MaxSims,   \* bound: simulated hijackers
          ToolsFail  \* may ping and traceroute print nothing

ASSUME RouteAssumption ==
    /\ Modes \subseteq {"full", "lat", "hop", "prop"}
    /\ \A t \in Traces : t \in [nones : Nat, hops : Nat \ {0}, complete : BOOLEAN]
    /\ NonesNum \in Nat /\ NonesDen \in Nat \ {0}
    /\ MaxPings \in Nat /\ MaxHopCounts \in Nat /\ MaxExp \in Nat /\ MaxSims \in Nat
    /\ ToolsFail \in BOOLEAN

VARIABLES
    mode, pc,
    todo,        \* measurements the initialisation has yet to make
    ret,         \* where intercepted returns to
    lats,        \* the last two of myLatencies
    hasNaN,      \* some latency is NaN
    hops, paths, \* entries of myHops and myPaths, counted to two
    avRtt,       \* av_RTT: null, low, mixed, nan
    methodTwo,   \* method_two = 1
    pings, hopCounts,  \* the Counters of executeTool
    numExp,
    route,       \* the last newRoute
    conclusion,
    hijack,      \* RouteMon.hijack = 1
    dev,         \* deviatedRTT and deviatedHopCount are set
    devRoute,    \* deviatedRoute is set
    obj,         \* hijackedObj is set
    sim, sims,   \* a SimHijack thread listens; hijackers so far
    alert,       \* history: the last verdict was an alert
    since        \* history: experiments since a route was measured

simVars == <<hijack, dev, devRoute, obj, sim, sims>>
lists   == <<lats, hasNaN, hops, paths, methodTwo>>
rota    == <<pings, hopCounts, numExp, since>>
verdict == <<route, conclusion, alert>>
vars == <<mode, pc, todo, ret, lists, avRtt, rota, verdict, simVars>>

Kinds == {"low", "high", "nan"}

TypeOK ==
    /\ mode \in Modes
    /\ pc \in {"init", "check", "intercept", "act", "rtt", "hop", "route", "wait",
               "decide", "prop", "after", "dead", "index", "exited"}
    /\ todo \in 0 .. 5 /\ ret \in {"act", "hop", "prop", "next"}
    /\ lats \in {<<>>} \cup {<<k>> : k \in Kinds} \cup (Kinds \X Kinds)
    /\ hasNaN \in BOOLEAN /\ hops \in 0 .. 2 /\ paths \in 0 .. 2
    /\ avRtt \in {"null", "low", "mixed", "nan"} /\ methodTwo \in BOOLEAN
    /\ pings \in 0 .. MaxPings /\ hopCounts \in 0 .. MaxHopCounts
    /\ numExp \in 0 .. MaxExp + 1
    /\ route \in Traces /\ conclusion \in {"EMPTY", "CONCLUSIVE", "UNCONCLUSIVE"}
    /\ hijack \in BOOLEAN /\ dev \in BOOLEAN /\ devRoute \in BOOLEAN /\ obj \in BOOLEAN
    /\ sim \in BOOLEAN /\ sims \in 0 .. MaxSims
    /\ alert \in BOOLEAN /\ since \in Nat

Init ==
    /\ mode \in Modes /\ pc = "init"
    /\ todo = IF mode \in {"full", "prop"} THEN 5 ELSE 1
    /\ ret = "act"
    /\ lats = <<>> /\ hasNaN = FALSE /\ hops = 0 /\ paths = 0 /\ avRtt = "null"
    /\ methodTwo = FALSE /\ pings = 0 /\ hopCounts = 0 /\ numExp = 0
    /\ route \in Traces /\ conclusion = "EMPTY" /\ alert = FALSE /\ since = 0
    /\ hijack = FALSE /\ dev = FALSE /\ devRoute = FALSE /\ obj = FALSE
    /\ sim = TRUE /\ sims = 0

-----------------------------------------------------------------------------
\* The measurements.

One(n) == IF n < 2 THEN n + 1 ELSE 2    \* one more entry, counted to two

AddLatency(k) ==
    /\ lats' = IF Len(lats) < 2 THEN Append(lats, k) ELSE <<lats[2], k>>
    /\ hasNaN' = (hasNaN \/ k = "nan")

\* executePing: the mean of five pings; in a simulation the deviated latency
\* plus the hijacker's, or nothing while these are not known.
ExecutePing ==
    \/ (hijack => dev /\ obj) /\ \E k \in Kinds : AddLatency(k)
    \/ hijack /\ ~(dev /\ obj) /\ UNCHANGED <<lats, hasNaN>>

\* Mutant of ExecuteTrace: the hop count is not recorded.
ExecuteTraceNoCount ==
    /\ \E t \in Traces : methodTwo' = (methodTwo \/ ~t.complete)
    /\ paths' = One(paths) /\ since' = 0 /\ UNCHANGED hops

\* executeTrace: a route that does not reach the destination sets method_two.
ExecuteTrace ==
    /\ \E t \in Traces : methodTwo' = (methodTwo \/ ~t.complete)
    /\ paths' = One(paths) /\ hops' = One(hops) /\ since' = 0

\* What ExecutePing and ExecuteTrace leave alone.
PingOnly  == UNCHANGED <<hops, paths, methodTwo, since>>
TraceOnly == UNCHANGED <<lats, hasNaN>>

\* executeNumHops adds a hop count like executePing a latency.
AddHops ==
    /\ hops' = IF hijack /\ ~(dev /\ obj) THEN hops ELSE One(hops)
    /\ UNCHANGED <<lats, hasNaN, paths, methodTwo>>

\* The thread's exceptions: from a tool, or from an index below the list.
ToolThrows ==
    /\ ToolsFail /\ pc' = "dead"
    /\ UNCHANGED <<mode, todo, ret, lists, avRtt, rota, verdict, simVars>>

IndexThrows ==
    /\ pc' = "index"
    /\ UNCHANGED <<mode, todo, ret, avRtt, rota, verdict, simVars>>

-----------------------------------------------------------------------------
\* main: initialize for "full" and "prop" (two traces, three pings), one ping
\* for "lat", one trace for "hop".
Initialize ==
    /\ pc = "init" /\ todo > 0
    /\ \/ /\ todo' = todo - 1
          /\ IF mode = "hop" \/ todo > 3 THEN ExecuteTrace /\ TraceOnly
             ELSE ExecutePing /\ PingOnly
          /\ UNCHANGED <<mode, pc, ret, avRtt, pings, hopCounts, numExp, verdict, simVars>>
       \/ ToolThrows

Begin ==
    /\ pc = "init" /\ todo = 0
    /\ pc' = "check"
    /\ UNCHANGED <<mode, todo, ret, lists, avRtt, rota, verdict, simVars>>

\* Mutant of CheckSimulation: the experiments are not counted.
CheckUncounted ==
    /\ pc = "check"
    /\ ret' = IF mode \in {"full", "lat"} THEN "act" ELSE mode
    /\ pc' = IF hijack THEN "intercept" ELSE ret'
    /\ UNCHANGED <<mode, todo, lists, avRtt, rota, verdict, simVars>>

\* The top of each mode's loop looks at the flag; monitor counts the experiment.
CheckSimulation ==
    /\ pc = "check"
    /\ ret' = IF mode \in {"full", "lat"} THEN "act" ELSE mode
    /\ pc' = IF hijack THEN "intercept" ELSE ret'
    /\ numExp' = IF mode = "full" THEN numExp + 1 ELSE numExp
    /\ since' = IF mode = "full" THEN since + 1 ELSE since
    /\ UNCHANGED <<mode, todo, lists, avRtt, pings, hopCounts, verdict, simVars>>

\* What follows the second look at the flag in monitor: return with a
\* conclusion, or another experiment.
AfterWait == IF conclusion # "EMPTY" THEN "decide" ELSE "check"

\* intercepted: what the deviation is, then the hijacker's measures, nothing, or
\* the hijacker gone.
Intercepted ==
    /\ pc = "intercept"
    /\ \/ /\ dev' = TRUE /\ devRoute' = TRUE
          /\ \/ obj' = TRUE /\ UNCHANGED <<hijack, sim>>
             \/ UNCHANGED <<hijack, obj, sim>>
             \/ hijack' = FALSE /\ sim' = TRUE /\ UNCHANGED obj
          /\ pc' = IF ret = "next" THEN AfterWait ELSE ret
          /\ UNCHANGED <<mode, todo, ret, lists, avRtt, rota, verdict, sims>>
       \/ ToolThrows

\* Mutant of ExecuteTool: a hop count takes the place of the trace.
ExecuteToolHopsFirst ==
    /\ \/ /\ pings < MaxPings
          /\ ExecutePing /\ PingOnly
          /\ pings' = pings + 1 /\ UNCHANGED hopCounts /\ pc' = "rtt"
       \/ /\ pings = MaxPings /\ hopCounts <= MaxHopCounts
          /\ IF methodTwo THEN UNCHANGED lists ELSE AddHops
          /\ hopCounts' = IF hopCounts < MaxHopCounts THEN hopCounts + 1 ELSE 0
          /\ pings' = 0 /\ UNCHANGED since
          /\ pc' = IF ~methodTwo /\ hops' < 2 THEN "index" ELSE "rtt"
    /\ UNCHANGED <<mode, todo, ret, avRtt, numExp, verdict, simVars>>

\* executeTool: five pings, then a hop count, and after five of these a trace.
ExecuteTool ==
    /\ \/ /\ pings < MaxPings
          /\ ExecutePing /\ PingOnly
          /\ pings' = pings + 1 /\ UNCHANGED hopCounts /\ pc' = "rtt"
       \/ /\ pings = MaxPings /\ hopCounts < MaxHopCounts
          /\ IF methodTwo THEN UNCHANGED lists ELSE AddHops
          /\ hopCounts' = hopCounts + 1 /\ pings' = 0 /\ UNCHANGED since
          /\ pc' = IF ~methodTwo /\ hops' < 2 THEN "index" ELSE "rtt"
       \/ /\ pings = MaxPings /\ hopCounts = MaxHopCounts
          /\ ExecuteTrace /\ TraceOnly
          /\ hopCounts' = 0 /\ pings' = 0 /\ pc' = "rtt"
    /\ UNCHANGED <<mode, todo, ret, avRtt, numExp, verdict, simVars>>

Act ==
    /\ pc = "act"
    /\ \/ mode = "full" /\ ExecuteTool
       \/ /\ mode = "lat" /\ ExecutePing /\ PingOnly /\ pc' = "rtt"
          /\ UNCHANGED <<mode, todo, ret, avRtt, pings, hopCounts, numExp, verdict, simVars>>
       \/ ToolThrows

\* ExponentialMovingAverage.average, fed the last latency but one.
Average(v) ==
    IF v = "nan" \/ avRtt = "nan" THEN "nan"
    ELSE IF v = "low" /\ avRtt \in {"null", "low"} THEN "low" ELSE "mixed"

\* onVerifyMetricThreshold: NaN exceeds nothing.
Exceeds(new, av) ==
    IF new = "nan" \/ av = "nan" THEN {FALSE}
    ELSE IF av = "low" THEN {new = "high"} ELSE BOOLEAN

\* rttMeasurement, and what the mode makes of its result.
RttMeasurement ==
    /\ pc = "rtt"
    /\ \/ /\ Len(lats) < 2
          /\ IndexThrows /\ UNCHANGED lists
       \/ /\ Len(lats) = 2
          /\ avRtt' = Average(lats[1])
          /\ \E e \in Exceeds(lats[2], avRtt') :
                /\ alert' = (mode = "lat" /\ e)
                /\ pc' = CASE mode = "lat" -> "check"
                           [] mode = "full" /\ e -> "hop"
                           [] mode = "full" /\ ~e -> "wait"
          /\ UNCHANGED <<mode, todo, ret, lists, rota, route, conclusion, simVars>>

\* hopCountMeasurement: true without a measurement once method_two is set.
HopCountMeasurement ==
    /\ pc = "hop"
    /\ \/ /\ ~methodTwo
          /\ AddHops
          /\ IF hops' < 2 THEN IndexThrows
             ELSE /\ \E e \in BOOLEAN :
                        /\ alert' = (mode = "hop" /\ e)
                        /\ pc' = IF mode = "hop" THEN "check" ELSE IF e THEN "route" ELSE "wait"
                  /\ UNCHANGED <<mode, todo, ret, avRtt, rota, route, conclusion, simVars>>
       \/ /\ methodTwo
          /\ alert' = (mode = "hop")
          /\ pc' = IF mode = "hop" THEN "check" ELSE "route"
          /\ UNCHANGED <<mode, todo, ret, lists, avRtt, rota, route, conclusion, simVars>>
       \/ ToolThrows

\* Mutant of Unconclusive: the ratio is scaled before it is truncated.
UnconclusiveScaled(t) == (t.nones * NonesDen) \div t.hops >= NonesNum

\* numNones / numHops, a division of integers, against the threshold.
Unconclusive(t) == (t.nones \div t.hops) * NonesDen > NonesNum

\* The rest of the cascade in monitor: a new route, or the deviated one.
MeasureRoute ==
    /\ pc = "route"
    /\ \/ /\ \E t \in Traces :
                /\ route' = t
                /\ conclusion' = IF Unconclusive(t) THEN "UNCONCLUSIVE" ELSE "CONCLUSIVE"
          /\ paths' = One(paths) /\ devRoute' = FALSE /\ since' = 0 /\ pc' = "wait"
          /\ UNCHANGED <<mode, todo, ret, lats, hasNaN, hops, methodTwo, avRtt, pings,
                         hopCounts, numExp, alert, hijack, dev, obj, sim, sims>>
       \/ ~devRoute /\ ToolThrows

\* The end of an experiment: exit after MaxExp of them, look at the flag again.
Wait ==
    /\ pc = "wait"
    /\ IF numExp > MaxExp THEN pc' = "exited" /\ UNCHANGED ret
       ELSE ret' = "next" /\ pc' = IF hijack THEN "intercept" ELSE AfterWait
    /\ UNCHANGED <<mode, todo, lists, avRtt, rota, verdict, simVars>>

\* verifyPropDelay: the greatest latency before the last must exist; one NaN
\* among them all makes the quotient NaN.
PropVerdicts == IF hasNaN THEN {FALSE} ELSE BOOLEAN

\* checkIfWasHijacked and declareHijack; monitor starts anew with its rota.
Decide ==
    /\ pc = "decide"
    /\ \/ /\ conclusion = "CONCLUSIVE"
          /\ IF paths < 2 THEN IndexThrows /\ UNCHANGED lists
             ELSE /\ alert' \in BOOLEAN /\ pc' = "check" /\ conclusion' = "EMPTY"
                  /\ pings' = 0 /\ hopCounts' = 0
                  /\ UNCHANGED <<mode, todo, ret, lists, avRtt, numExp, since, route, simVars>>
       \/ /\ conclusion = "UNCONCLUSIVE"
          /\ IF Len(lats) < 2 THEN IndexThrows /\ UNCHANGED lists
             ELSE /\ alert' \in PropVerdicts /\ pc' = "check" /\ conclusion' = "EMPTY"
                  /\ pings' = 0 /\ hopCounts' = 0
                  /\ UNCHANGED <<mode, todo, ret, lists, avRtt, numExp, since, route, simVars>>

\* propMeasurement: a route that is stored and not looked at, then the verdict.
PropMeasurement ==
    /\ pc = "prop"
    /\ \/ /\ paths' = One(paths)
          /\ IF Len(lats) < 2 THEN IndexThrows
             ELSE /\ alert' \in PropVerdicts /\ pc' = "after"
                  /\ UNCHANGED <<mode, todo, ret, avRtt, rota, route, conclusion, simVars>>
          /\ UNCHANGED <<lats, hasNaN, hops, methodTwo>>
       \/ ToolThrows

\* The end of monitoringOnlyProp's loop: another ping, another trace.
AfterProp ==
    /\ pc = "after"
    /\ \/ /\ ExecutePing /\ ExecuteTrace
          /\ pc' = "check"
          /\ UNCHANGED <<mode, todo, ret, avRtt, pings, hopCounts, numExp, verdict, simVars>>
       \/ ToolThrows

\* SimHijack: a hijacker connects.
SimConnects ==
    /\ sim /\ sims < MaxSims
    /\ sims' = sims + 1 /\ sim' = FALSE /\ hijack' = TRUE
    /\ UNCHANGED <<mode, pc, todo, ret, lists, avRtt, rota, verdict, dev, devRoute, obj>>

-----------------------------------------------------------------------------
Monitor == \/ Initialize \/ Begin \/ CheckSimulation \/ Intercepted \/ Act
           \/ RttMeasurement \/ HopCountMeasurement \/ MeasureRoute \/ Wait \/ Decide
           \/ PropMeasurement \/ AfterProp

Next == Monitor \/ SimConnects

Spec == Init /\ [][Next]_vars

\* The monitor's thread runs.
FairSpec == Spec /\ WF_vars(Monitor)

-----------------------------------------------------------------------------
\* Without a simulated hijacker no mode ever reads a measurement that is not
\* there, whatever the tools return and whichever of its branches it takes: the
\* initialisation has filled the lists enough.
ListsLongEnough == sims = 0 => pc # "index"

\* In the full mode the route itself is measured at least once in every round
\* of executeTool's rota, in the rota or because of an anomaly, however often
\* monitor returns and starts its counters again.
RouteMeasuredInRota ==
    mode = "full" => since <= (MaxPings + 1) * (MaxHopCounts + 1)

\* The propagation delay decides only when the route just measured showed no hop
\* at all, however low _pathNonesThreshold is: the ratio it is compared with is
\* truncated.  A single visible hop makes the comparison of paths decide.
BlindRoutesOnly ==
    pc = "decide" /\ conclusion = "UNCONCLUSIVE" => route.nones >= route.hops

\* The full mode ends: after MaxExp experiments, anomalies or not (FairSpec).
FullEnds == mode = "full" => <>(pc \in {"exited", "dead", "index"})
=============================================================================
