----------------------------- MODULE AlertReceiver -----------------------------
(***************************************************************************)
(* DAR, the Darshana Alert Receiver: its list of monitored paths, its      *)
(* history of alerts and what it does with an alert.  It exists twice:     *)
(* inside the MACHETE sender, where setup_each_flow registers the paths    *)
(* and start_path_monitoring_module then initialises the module, and as a  *)
(* program of its own with a fixed list of paths.                          *)
(*                                                                         *)
(* Abstractions.  The time stamp of an alert is its place in the history.  *)
(* Alerts are well formed, as AlertsBroadcaster formats them; datagrams    *)
(* may be lost and may overtake each other.                                *)
(* What SIGUSR1 does to the sender is SenderLifecycle's subject.           *)
(***************************************************************************)
EXTENDS Integers, Sequences, FiniteSets, SequencesExt, FiniteSetsExt

CONSTANTS Programs,      \* "sender", "standalone" or both
          Paths,         \* the paths to monitor: a sequence of [relay |-> ...]
          Alerts,        \* the [source |-> ..., destination |-> ...] alerts carry
          MaxDarAlerts,  \* max_dar_alerts
          MaxSent        \* bound: alerts sent

ASSUME AlertAssumption ==
    /\ Programs \subseteq {"sender", "standalone"}
    /\ MaxDarAlerts \in Nat /\ MaxSent \in Nat
    /\ Paths \in Seq(ToSet(Paths))
    /\ "standalone" \in Programs => Len(Paths) = 3

Null == 0    \* a NULL time
Junk == -1   \* a time pointer that was never assigned

VARIABLES
    program,    \* which of the two this process is
    pc,         \* its place: flows, setup, bind, loop; deaf once the sender's DAR
                \* thread has ended, exited or crashed once the process has
    k,          \* setup_each_flow: paths registered so far
    monitored,  \* monitored_paths_list
    history,    \* alerts_history
    inbox,      \* datagrams in the socket's queue
    sent, raised

vars == <<program, pc, k, monitored, history, inbox, sent, raised>>

Times == {Junk, Null} \cup 1 .. MaxSent

\* struct path_status.
PathStatus == [relay : {p.relay : p \in ToSet(Paths)}, hijacked : BOOLEAN,
               prev : Times, last : Times]

TypeOK ==
    /\ program \in Programs
    /\ pc \in {"flows", "setup", "bind", "loop", "deaf", "exited", "crashed"}
    /\ k \in 0 .. Len(Paths)
    /\ monitored \in Seq(PathStatus)
    /\ history \in Seq(Alerts) /\ inbox \in Seq(Alerts)
    /\ sent \in 0 .. MaxSent /\ raised \in 0 .. MaxSent

Init ==
    /\ program \in Programs
    /\ pc = IF program = "sender" THEN "flows" ELSE "setup"
    /\ k = 0 /\ monitored = <<>> /\ history = <<>> /\ inbox = <<>>
    /\ sent = 0 /\ raised = 0

NewPathStatus(p) == [relay |-> p.relay, hijacked |-> FALSE, prev |-> Null, last |-> Null]

\* The standalone copy leaves both times as malloc finds them.
NewTestPathStatuses(p) ==
    {[NewPathStatus(p) EXCEPT !.prev = t, !.last = u] : t, u \in {Null, Junk}}

\* insert_end_p and insert_end_h: the loop to the end of the list.
InsertEnd(list, item) == Append(list, item)

\* One iteration of setup_each_flow: monitor_path.
AddMonitoredPath ==
    /\ pc = "flows" /\ k < Len(Paths)
    /\ monitored' = InsertEnd(monitored, NewPathStatus(Paths[k + 1]))
    /\ k' = k + 1
    /\ UNCHANGED <<program, pc, history, inbox, sent, raised>>

\* start_path_monitoring_module calls setup_dar, which empties both lists.
SetupDar ==
    /\ pc = "flows" /\ k = Len(Paths)
    /\ pc' = "bind"
    /\ history' = <<>> /\ monitored' = <<>>
    /\ UNCHANGED <<program, k, inbox, sent, raised>>

\* The standalone init(): the list is filled after it was emptied.
InitStandalone ==
    /\ pc = "setup"
    /\ pc' = "bind"
    /\ history' = <<>>
    /\ \E a \in NewTestPathStatuses(Paths[1]), b \in NewTestPathStatuses(Paths[2]),
          c \in NewTestPathStatuses(Paths[3]) :
          monitored' = InsertEnd(InsertEnd(InsertEnd(<<>>, a), b), c)
    /\ UNCHANGED <<program, k, inbox, sent, raised>>

\* init_dar_socket.  Without a socket the sender goes on: its DAR thread ends
\* at the first read; an address in use ends the sender, rules and all.
InitDarSocket ==
    /\ pc = "bind" /\ program = "sender"
    /\ pc' \in {"loop", "deaf", "exited"}
    /\ UNCHANGED <<program, k, monitored, history, inbox, sent, raised>>

\* The standalone main() up to its loop.
BindStandalone ==
    /\ pc = "bind" /\ program = "standalone"
    /\ pc' \in {"loop", "exited"}
    /\ UNCHANGED <<program, k, monitored, history, inbox, sent, raised>>

\* read() fails: the sender's loop ends, and so does the standalone program.
ReadFails ==
    /\ pc = "loop"
    /\ pc' = IF program = "sender" THEN "deaf" ELSE "exited"
    /\ UNCHANGED <<program, k, monitored, history, inbox, sent, raised>>

\* lookup_path_by_relay_ip: the first entry with this relay, 0 for NULL.
Lookup(ip) ==
    LET S == {i \in DOMAIN monitored : monitored[i].relay = ip}
    IN IF S = {} THEN 0 ELSE Min(S)

\* analyse_hijack_alert: by the alert's source, else by its destination.
Found(a) == IF Lookup(a.source) # 0 THEN Lookup(a.source) ELSE Lookup(a.destination)

\* Mutant of UpdatePathStatus: the earlier time is lost.
UpdateLastOnly(p, now) == [p EXCEPT !.hijacked = TRUE, !.last = now]

UpdatePathStatus(p, now) ==
    [p EXCEPT !.hijacked = TRUE,
              !.prev = IF p.last = Null THEN p.prev ELSE p.last, !.last = now]

\* Mutant of Reaches: only the alert that reaches the limit counts.
ReachesExactly(n) == n = MaxDarAlerts

\* The limit an alert must reach for alert_machete to raise SIGUSR1.
Reaches(n) == n >= MaxDarAlerts

\* handle_client_alert: the alert is parsed, saved and compared with the paths.
HandleClientAlert(i) ==
    LET a   == inbox[i]
        j   == Found(a)
        now == Len(history) + 1
    IN /\ inbox' = RemoveAt(inbox, i)
       /\ history' = InsertEnd(history, a)
       /\ monitored' = IF j = 0 THEN monitored
                       ELSE [monitored EXCEPT ![j] = UpdatePathStatus(@, now)]

\* The sender's loop: handle_client_alert, then the comparison with
\* max_dar_alerts.
HandleAlert ==
    /\ pc = "loop" /\ program = "sender"
    /\ \E i \in DOMAIN inbox : HandleClientAlert(i)
    /\ raised' = IF Reaches(Len(history')) THEN raised + 1 ELSE raised
    /\ UNCHANGED <<program, pc, k, sent>>

\* show_all_paths formats every time that is not NULL.
ShowAllPaths(list) ==
    \/ pc' = "loop"
    \/ pc' = "crashed" /\ \E p \in ToSet(list) : Junk \in {p.prev, p.last}

\* The standalone program's loop prints every path, with times it may never
\* have assigned.
HandleStandaloneAlert ==
    /\ pc = "loop" /\ program = "standalone"
    /\ \E i \in DOMAIN inbox : HandleClientAlert(i)
    /\ ShowAllPaths(monitored')
    /\ UNCHANGED <<program, k, sent, raised>>

\* A Darshana client sends an alert, which may get lost, and does before the
\* socket is bound.
SendAlert ==
    /\ sent < MaxSent
    /\ sent' = sent + 1
    /\ \/ UNCHANGED inbox
       \/ pc = "loop" /\ \E a \in Alerts : inbox' = Append(inbox, a)
    /\ UNCHANGED <<program, pc, k, monitored, history, raised>>

Next == \/ AddMonitoredPath \/ SetupDar \/ InitStandalone \/ InitDarSocket \/ BindStandalone
        \/ ReadFails \/ HandleAlert \/ HandleStandaloneAlert \/ SendAlert

Spec == Init /\ [][Next]_vars

-----------------------------------------------------------------------------
\* The entry an alert is about, by the order of the paths alone: the first with
\* its source as relay, or if there is none the first with its destination.
About(a, i) ==
    LET By(ip) == {n \in DOMAIN Paths : Paths[n].relay = ip}
    IN \/ i \in By(a.source) /\ \A n \in By(a.source) : i <= n
       \/ By(a.source) = {} /\ i \in By(a.destination)
            /\ \A n \in By(a.destination) : i <= n

\* The status of every path of the standalone program tells exactly what the
\* history says: whether an alert was about it, and when the last two were,
\* however many alerts about other paths came between (unless its times were
\* garbage from the start, which malloc decides).
StatusReflectsHistory ==
    program = "standalone" =>
        \A i \in DOMAIN monitored :
            LET H == {n \in DOMAIN history : About(history[n], i)}
                p == monitored[i]
            IN /\ p.hijacked <=> H # {}
               /\ H # {} => p.last = Max(H)
               /\ Cardinality(H) > 1 => p.prev = Max(H \ {Max(H)})

\* SIGUSR1 is raised for every alert from the max_dar_alerts-th on, so an alert
\* sent before the socket is bound delays the reaction by one, and alerts about
\* no path of the sender count as well.
SignalsMatchAlerts ==
    program = "sender" => raised = Max({0, Len(history) - Max({1, MaxDarAlerts}) + 1})

\* path_monitoring.c:64, monitor_path adds "a path structure that is inspected
\* whenever a alert is received by DAR": in the sender, too, an alert about the
\* relay of a configured flow marks a monitored path as hijacked.
MonitoredPathsInspected ==
    \A n \in DOMAIN history :
        (\E i \in DOMAIN Paths : About(history[n], i)) =>
            \E j \in DOMAIN monitored : monitored[j].hijacked
=============================================================================
