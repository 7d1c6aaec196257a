------------------------------- MODULE PathMonitor -------------------------------
(***************************************************************************)
(* Darshana's client in the mode "path": it measures the route to the      *)
(* destination again and again, compares each route with the one before    *)
(* and declares a hijack when they differ too much.  Beside it runs the    *)
(* thread of SimHijack, on which a simulated hijacker announces itself;    *)
(* the monitor then measures the route through the hijacker instead.  The  *)
(* hijacker is a program of its own, BeginHijack, which listens for the    *)
(* monitor only after it has announced itself, and serves as long as its   *)
(* tools do.                                                               *)
(*                                                                         *)
(* Abstractions.  A path is a list of autonomous systems of which the code *)
(* uses the members and the length, so it is a set of occurrences          *)
(* <<AS, part>>: a measured route has each AS once, in part 1, and a       *)
(* deviated one is the route to the hijacker followed by the hijacker's    *)
(* own, in part 2.  The similarity is compared exactly.                    *)
(***************************************************************************)
EXTENDS Integers, FiniteSets

CONSTANTS ASes,       \* autonomous systems
          Routes,     \* the sets of ASes a traceroute may find
          ThNum, ThDen,  \* _pathThreshold = ThNum / ThDen
          MaxSims     \* bound: simulated hijackers

ASSUME PathAssumption ==
    /\ IsFiniteSet(ASes) /\ Routes \subseteq SUBSET ASes
    /\ ThNum \in Nat /\ ThDen \in Nat /\ ThNum <= ThDen
    /\ MaxSims \in Nat

VARIABLES
    pc,            \* init, check, intercept, ask, read, measure, verify, dead
    stored,        \* the last entry of myPaths
    fresh,         \* the entry just added, before the comparison
    hijack,        \* RouteMon.hijack = 1
    deviated,      \* deviatedRoute: a set with it, or the empty set for null
    hijackedPath,
    sim,           \* the newest SimHijack thread: start, listening, gone
    closing,       \* an older one has set the flag, its listener is still open
    sims,
    hijacker,      \* the BeginHijack at hijackerIP: none, told, serving, hung, gone
    first, common, \* history: the first path measured, the ASes all of them have
    changed,       \* history: two different paths have been measured
    alarmed        \* history: some comparison declared a hijack

simVars  == <<sim, closing, sims, hijacker>>
histVars == <<first, common, changed, alarmed>>
pathVars == <<pc, stored, fresh, hijack, deviated, hijackedPath, simVars, histVars>>

Path == SUBSET (ASes \X {1, 2})

Members(p) == {e[1] : e \in p}

PathTypeOK ==
    /\ pc \in {"init", "check", "intercept", "ask", "read", "measure", "verify", "dead"}
    /\ stored \in Path /\ fresh \in Path
    /\ hijack \in BOOLEAN
    /\ deviated \in SUBSET Routes
    /\ hijackedPath \in SUBSET ASes
    /\ sim \in {"start", "listening", "gone"} /\ closing \in BOOLEAN
    /\ sims \in 0 .. MaxSims
    /\ hijacker \in {"none", "told", "serving", "hung", "gone"}
    /\ first \in Path /\ common \subseteq ASes
    /\ changed \in BOOLEAN /\ alarmed \in BOOLEAN

PathInit ==
    /\ pc = "init" /\ stored = {} /\ fresh = {}
    /\ hijack = FALSE /\ deviated = {} /\ hijackedPath = {}
    /\ sim = "start" /\ closing = FALSE /\ sims = 0 /\ hijacker = "none"
    /\ first = {} /\ common = {} /\ changed = FALSE /\ alarmed = FALSE

-----------------------------------------------------------------------------
\* runTraceroute: the distinct ASes of the most complete of three traces; it
\* throws when a command printed nothing.
TracePath(r) == r \X {1}

Dies ==
    /\ pc' = "dead"
    /\ UNCHANGED <<stored, fresh, hijack, deviated, hijackedPath, simVars, histVars>>

\* executeTrace, once, before the loop of monitoringOnlyPath.
ExecuteTrace ==
    /\ pc = "init"
    /\ \/ \E r \in Routes :
             /\ stored' = TracePath(r)
             /\ first' = TracePath(r) /\ common' = r
             /\ pc' = "check"
             /\ UNCHANGED <<fresh, hijack, deviated, hijackedPath, simVars, changed, alarmed>>
       \/ Dies

\* Mutant of CheckSimulation: the flag is not looked at.
CheckNothing ==
    /\ pc = "check"
    /\ pc' = "measure"
    /\ UNCHANGED <<stored, fresh, hijack, deviated, hijackedPath, simVars, histVars>>

CheckSimulation ==
    /\ pc = "check"
    /\ pc' = IF hijack THEN "intercept" ELSE "measure"
    /\ UNCHANGED <<stored, fresh, hijack, deviated, hijackedPath, simVars, histVars>>

\* intercepted: first the route to the hijacker; no answer at all ends the monitor.
Intercepted ==
    /\ pc = "intercept"
    /\ \/ /\ \E r \in Routes : deviated' = {r}
          /\ pc' = "ask"
          /\ UNCHANGED <<stored, fresh, hijack, hijackedPath, simVars, histVars>>
       \/ Dies

\* A refused connection: the flag is cleared, a new SimHijack thread starts, the
\* deviated route stays.
HandleHijackerGone ==
    /\ hijack' = FALSE /\ sim' = "start" /\ pc' = "measure"
    /\ UNCHANGED <<stored, fresh, deviated, hijackedPath, closing, sims, hijacker, histVars>>

\* rcvHijacked connects to the hijacker's port, which is open once it serves.
ConnectHijacker ==
    /\ pc = "ask"
    /\ \/ /\ hijacker \in {"serving", "hung"}
          /\ pc' = "read"
          /\ UNCHANGED <<stored, fresh, hijack, deviated, hijackedPath, simVars, histVars>>
       \/ hijacker \notin {"serving", "hung"} /\ HandleHijackerGone
       \/ Dies

\* Mutant of SavedPath: what the hijacker sends is only printed.
SavedPathNot(h) == UNCHANGED hijackedPath

\* The lines after the first become hijackedPath.
SavedPath(h) == hijackedPath' = h

\* The loop on readLine ends when the hijacker closes the connection: after its
\* whole path, or before, when its tools fail or it is killed: then nothing is
\* saved, or as much of the path as came.  A reset ends the monitor.
ReadHijacked ==
    /\ pc = "read"
    /\ \/ /\ hijacker = "serving"
          /\ \E h \in Routes : SavedPath(h)
          /\ pc' = "measure"
       \/ /\ hijacker = "gone"
          /\ \/ UNCHANGED hijackedPath
             \/ \E h \in Routes : \E part \in SUBSET h : hijackedPath' = part
          /\ pc' \in {"measure", "dead"}
    /\ UNCHANGED <<stored, fresh, hijack, deviated, simVars, histVars>>

Deviated(r) == (r \X {1}) \cup (hijackedPath \X {2})

\* The measurement of pathMeasurement: the route, or the deviated one if it is set.
MeasurePath ==
    /\ pc = "measure"
    /\ \/ /\ deviated = {}
          /\ \/ /\ \E r \in Routes : fresh' = TracePath(r)
                /\ pc' = "verify"
             \/ pc' = "dead" /\ UNCHANGED fresh
       \/ /\ \E r \in deviated : fresh' = Deviated(r)
          /\ pc' = "verify"
    /\ deviated' = {}
    /\ UNCHANGED <<stored, hijack, hijackedPath, simVars, histVars>>

\* path.retainAll(oldPath)
RetainAll(p, old) == {e \in p : e[1] \in Members(old)}

\* Mutant of Different: the sizes are not doubled.
DifferentUndoubled(p, old) ==
    Cardinality(RetainAll(p, old)) * ThDen < ThNum * (Cardinality(p) + Cardinality(old))

\* calcSorensen < _pathThreshold; 0 / 0 compares as false, as NaN does.
Different(p, old) ==
    2 * Cardinality(RetainAll(p, old)) * ThDen < ThNum * (Cardinality(p) + Cardinality(old))

\* Mutant of Kept: the comparison leaves the new path as it was measured.
KeptWhole(p, old) == p

\* What the comparison leaves of the new path in myPaths: the reference it
\* intersects is the list's own entry.
Kept(p, old) == RetainAll(p, old)

\* verifyPathSimilarity, and declareHijack on what it returns.
VerifyPathSimilarity ==
    /\ pc = "verify"
    /\ pc' = "check"
    /\ stored' = Kept(fresh, stored) /\ fresh' = {}
    /\ first' = first /\ common' = common \cap Members(fresh)
    /\ changed' = (changed \/ fresh # first)
    /\ alarmed' = (alarmed \/ Different(fresh, stored))
    /\ UNCHANGED <<hijack, deviated, hijackedPath, simVars>>

-----------------------------------------------------------------------------
\* rcvConnect binds its port, which fails while the last listener is open; the
\* exception is printed and the thread ends.
SimListens ==
    /\ sim = "start"
    /\ sim' = IF closing THEN "gone" ELSE "listening"
    /\ UNCHANGED <<pc, stored, fresh, hijack, deviated, hijackedPath, closing, sims, hijacker, histVars>>

\* A hijacker connects and tells its address: the flag is set, then the listener
\* closed.  One that ends before it told it leaves the flag with no address.  On
\* the machine of an earlier one that still serves, that one is what answers.
SimConnects ==
    /\ sim = "listening" /\ sims < MaxSims
    /\ sims' = sims + 1 /\ sim' = "gone" /\ closing' = TRUE
    /\ hijack' = TRUE
    /\ hijacker' \in {"told", "gone"} \cup ({hijacker} \ {"none"})
    /\ UNCHANGED <<pc, stored, fresh, deviated, hijackedPath, histVars>>

SimCloses ==
    /\ closing /\ closing' = FALSE
    /\ UNCHANGED <<pc, stored, fresh, hijack, deviated, hijackedPath, sim, sims, hijacker, histVars>>

-----------------------------------------------------------------------------
\* BeginHijack, after it has told its address: tracerouteServer opens the port.
TracerouteServer ==
    /\ hijacker = "told" /\ hijacker' = "serving"
    /\ UNCHANGED <<pc, stored, fresh, hijack, deviated, hijackedPath, sim, closing, sims, histVars>>

\* Its ping waits for an answer that does not come: it stays in one connection.
HijackerHangs ==
    /\ hijacker = "serving" /\ hijacker' = "hung"
    /\ UNCHANGED <<pc, stored, fresh, hijack, deviated, hijackedPath, sim, closing, sims, histVars>>

\* The port is taken, a tool fails, or it is killed: main catches all, and ends.
HijackerEnds ==
    /\ hijacker \in {"told", "serving", "hung"} /\ hijacker' = "gone"
    /\ UNCHANGED <<pc, stored, fresh, hijack, deviated, hijackedPath, sim, closing, sims, histVars>>

-----------------------------------------------------------------------------
Monitor == \/ ExecuteTrace \/ CheckSimulation \/ Intercepted \/ ConnectHijacker
           \/ ReadHijacked \/ MeasurePath \/ VerifyPathSimilarity

Simulator == SimListens \/ SimConnects \/ SimCloses

Hijacker == TracerouteServer \/ HijackerHangs \/ HijackerEnds

PathNext == Monitor \/ Simulator \/ Hijacker

PathSpec == PathInit /\ [][PathNext]_pathVars

\* The monitor's thread runs; the simulator's and the hijacker need not.
PathFairSpec == PathSpec /\ WF_pathVars(Monitor)

-----------------------------------------------------------------------------
\* Each comparison is made with what all the routes measured so far have in
\* common, not with the last one: calcSorensen intersects the stored list itself.
StoredIsCommon ==
    pc \notin {"init", "dead"} => Members(stored) = common

\* No hijack is declared as long as every measurement has found the same path,
\* simulated hijackers coming and going included.
NoFalseAlarm == alarmed => changed

\* A simulated hijacker is measured: its flag leads to a deviated route, or to
\* the monitor's end (PathFairSpec).
SimulationNoticed == hijack ~> (deviated # {} \/ pc = "dead")

\* A hijacker found serving is measured with its own part of the path: what it
\* sends reaches the next comparison, unless it ends or hangs first, or the
\* monitor has ended (PathFairSpec).
HijackerMeasured ==
    (hijack /\ hijacker = "serving") ~>
        \/ \E e \in fresh : e[2] = 2
        \/ hijacker # "serving"
        \/ pc = "dead"
=============================================================================
