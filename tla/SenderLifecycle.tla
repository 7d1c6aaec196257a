--------------------------- MODULE SenderLifecycle ---------------------------
(***************************************************************************)
(* One MACHETE sender process: the main thread (setup_sender, application, *)
(* teardown_sender, and in hi_client_eval all of it again for the next     *)
(* experiment) and the DAR thread of each session, which reads hijack      *)
(* alerts and, from the alert that reaches max_dar_alerts on, raises       *)
(* SIGUSR1 in itself: handle_dar_signal then runs teardown_sender on the   *)
(* DAR thread, with nothing to keep the main thread out of it.  No DAR     *)
(* thread is ever stopped: those of earlier sessions are still there.      *)
(*                                                                         *)
(* The threads share the descriptor table, connection_sock_fd,             *)
(* alert_receiver_socket_fd, begin_connection_time and log_file.  socket() *)
(* takes the lowest free descriptor; close() frees a descriptor whatever   *)
(* it now names; a call blocked on a socket keeps that socket alive.       *)
(*                                                                         *)
(* Abstractions.  Flow k uses overlay node k.  A node reads, applies and   *)
(* answers a spec in one step and dies of an end of stream (OverlaySetup   *)
(* has the detail).  Descriptor 0 is stdin; 1, 2, ... are those that the   *)
(* standard streams and the log leave free.  Discovery, probing and        *)
(* interfaces (ManagerAdapter, FlowPlan) are one step: a session starts    *)
(* with all nodes or ends the process.                                     *)
(***************************************************************************)
EXTENDS Integers, Sequences, FiniteSets

CONSTANTS Sessions,      \* experiments of the process: 31 in hi_client_eval,
                         \* 1 in the other applications
          NumFlows,      \* flows of a session
          MaxDarAlerts,  \* max_dar_alerts
          Reactions,     \* what the application may ask for
          MaxSent        \* bound: alerts the Darshana clients send

ASSUME LifecycleAssumption ==
    /\ Sessions \in Nat \ {0} /\ NumFlows \in Nat \ {0}
    /\ MaxDarAlerts \in Nat /\ MaxSent \in Nat
    /\ Reactions \subseteq {"shutdown", "restart", "ignore"}

Flows   == 1 .. NumFlows
Main    == 0
Dars    == 1 .. Sessions      \* the DAR thread of each session
Threads == {Main} \cup Dars

\* Overlay connections: who opened it, for which pass over the flows, to which node.
Conns   == {Main} \X (1 .. 2 * Sessions) \X Flows \cup Dars \X (1 .. MaxSent) \X Flows
Fds     == 0 .. Sessions + 3  \* stdin, DAR, receiver and one per thread

\* What a descriptor names: a session's DAR socket or connection, or an
\* overlay connection.
File(k, s)  == [kind |-> k, id |-> <<s, 1, 1>>]
Overlay(o)  == [kind |-> "ov", id |-> o]
Free        == File("free", 0)
Stdin       == File("stdin", 0)
Files       == {Free, Stdin} \cup {File(k, s) : k \in {"alerts", "receiver"}, s \in Dars}
                 \cup {Overlay(o) : o \in Conns}

VARIABLES
    reaction,      \* reaction_spec; reusing or replacing a path is not
                   \* implemented and does what "ignore" does
    pc, fate,      \* the threads' places; how the process ended, if it did
    session,       \* number_of_experiments
    adding,        \* the main thread is in setup_each_flow
    disposition,   \* what SIGUSR1 does
    fds, connfd, alertfd,
    clock,         \* begin_connection_time
    log,           \* log_file
    inbox, sent,   \* alerts queued on each DAR socket, alerts sent
    count, darfd,  \* per DAR thread: number_of_alerts_received, client_sock_fd
    on,            \* on[t]: what t is blocked on in recv() or read()
    myfd, flow, leg,  \* per thread: overlay socket, loop counter, spec being sent
    inq, acks, stage, net,  \* per overlay connection: unread specs, unread
                            \* echoes, specs the node answered, condition
    queue, down,   \* per node: its connections in order of arrival; dead nodes
    rules, own,    \* flows with rules at their node, at the sender
    begun, early   \* history: threads that began teardown_sender in this
                   \* session, and whether one did outside its connection

procVars    == <<reaction, pc, fate, session, adding, disposition>>
kernelVars  == <<fds, on>>
sharedVars  == <<connfd, alertfd, clock, log>>
alertVars   == <<inbox, sent, count, darfd>>
threadVars  == <<myfd, flow, leg>>
networkVars == <<inq, acks, stage, net, queue, down, rules>>
historyVars == <<begun, early>>
vars == <<procVars, kernelVars, sharedVars, alertVars, threadVars, networkVars, own,
          historyVars>>

\* The places of setup_sender, of setup_overlay_node and of teardown_sender.
Connecting == {"pause", "discover", "add", "monitor", "spawn", "register", "tick", "connect",
               "return"}
Exchanging == {"open", "send", "recv", "wait", "closeOv"}
Cleaning   == {"close", "clock", "stop", "own", "final", "exit"} \cup Exchanging

\* The main thread has no connection to the receiver yet in this session.
Unconnected == pc[Main] \in Connecting \/ adding

TypeOK ==
    /\ pc \in [Threads -> Connecting \cup Cleaning
                     \cup {"app", "answer", "none", "read", "reading", "raise", "ended"}]
    /\ reaction \in Reactions /\ session \in Dars /\ adding \in BOOLEAN
    /\ fate \in {"running", "done", "exited", "killed", "crashed"}
    /\ disposition \in {"default", "handler"}
    /\ fds \in [Fds -> Files] /\ connfd \in Fds /\ alertfd \in Fds
    /\ on \in [Threads -> Files]
    /\ clock \in {"null", "live", "freed"} /\ log \in {"open", "closed"}
    /\ inbox \in [Dars -> 0 .. MaxSent] /\ sent \in 0 .. MaxSent
    /\ count \in [Dars -> 0 .. MaxSent] /\ darfd \in [Dars -> Fds]
    /\ myfd \in [Threads -> Fds]
    /\ flow \in [Threads -> Flows] /\ leg \in [Threads -> {"fwd", "dar"}]
    /\ inq \in [Conns -> Seq({"fwd", "dar"} \X Flows \X {"A", "D"})]
    /\ acks \in [Conns -> 0 .. 2] /\ stage \in [Conns -> 0 .. 2]
    /\ net \in [Conns -> {"none", "ok", "rst", "broken"}]
    /\ queue \in [Flows -> Seq(Conns)] /\ down \subseteq Flows
    /\ rules \subseteq Flows /\ own \subseteq Flows
    /\ begun \subseteq Threads /\ early \in BOOLEAN

Init ==
    /\ reaction \in Reactions
    /\ pc = [t \in Threads |-> IF t = Main THEN "discover" ELSE "none"]
    /\ fate = "running" /\ session = 1 /\ adding = FALSE /\ disposition = "default"
    /\ fds = [f \in Fds |-> IF f = 0 THEN Stdin ELSE Free]
    /\ connfd = 0 /\ alertfd = 0
    /\ on = [t \in Threads |-> Free]
    /\ clock = "null" /\ log = "closed"
    /\ inbox = [s \in Dars |-> 0] /\ sent = 0 /\ count = [t \in Dars |-> 0]
    /\ darfd = [t \in Dars |-> 0]
    /\ myfd = [t \in Threads |-> 0]
    /\ flow = [t \in Threads |-> 1] /\ leg = [t \in Threads |-> "fwd"]
    /\ inq = [o \in Conns |-> <<>>] /\ acks = [o \in Conns |-> 0]
    /\ stage = [o \in Conns |-> 0] /\ net = [o \in Conns |-> "none"]
    /\ queue = [k \in Flows |-> <<>>] /\ down = {}
    /\ rules = {} /\ own = {}
    /\ begun = {} /\ early = FALSE

At(t, l)   == fate = "running" /\ pc[t] = l
Goto(t, l) == /\ pc' = [pc EXCEPT ![t] = l]
              /\ UNCHANGED <<reaction, fate, session, adding, disposition>>

\* The process ends, and the kernel closes what it had open.
Ends(how)  == /\ fate' = how
              /\ pc' = [t \in Threads |-> "ended"]
              /\ fds' = [f \in Fds |-> Free] /\ on' = [t \in Threads |-> Free]
              /\ UNCHANGED <<reaction, session, adding, disposition>>

\* socket() returns the lowest free descriptor.
Socket(f, x) == /\ fds[f] = Free /\ \A g \in 0 .. f - 1 : fds[g] # Free
                /\ fds' = [fds EXCEPT ![f] = x]
Closed(f)    == [fds EXCEPT ![f] = Free]

\* A socket exists while a descriptor or a blocked call refers to it.
Alive(x) == (\E f \in Fds : fds[f] = x) \/ (\E t \in Threads : on[t] = x)

-----------------------------------------------------------------------------
(* setup_sender, on the main thread.                                       *)

\* The log, the queries to the manager, the probing and the interfaces: with
\* too few nodes or without manager the process exits.
Discover ==
    /\ At(Main, "discover")
    /\ \/ /\ down = {}
          /\ log' = "open"
          /\ adding' = TRUE
          /\ pc' = [pc EXCEPT ![Main] = "add"]
          /\ UNCHANGED <<reaction, fate, session, disposition, kernelVars>>
       \/ /\ Ends("exited")
          /\ UNCHANGED log
    /\ UNCHANGED <<connfd, alertfd, clock, alertVars, threadVars, networkVars, own,
                   historyVars>>

\* setup_each_flow: a flow's rules at the sender, then setup_overlay_node.
AddOwnRules ==
    /\ At(Main, "add")
    /\ own' = own \cup {flow[Main]}
    /\ Goto(Main, "open")
    /\ UNCHANGED <<kernelVars, sharedVars, alertVars, threadVars, networkVars, historyVars>>

\* start_path_monitoring_module: init_dar_socket, which exits if bind() fails.
StartMonitoring ==
    /\ At(Main, "monitor")
    /\ \/ /\ \E f \in Fds : Socket(f, File("alerts", session)) /\ alertfd' = f
          /\ Goto(Main, "spawn")
          /\ UNCHANGED on
       \/ /\ Ends("exited")
          /\ UNCHANGED alertfd
    /\ UNCHANGED <<connfd, clock, log, alertVars, threadVars, networkVars, own,
                   historyVars>>

\* start_dar_handler: the thread keeps the descriptor's number.
StartDarHandler ==
    /\ At(Main, "spawn")
    /\ pc' = [pc EXCEPT ![Main] = "register", ![session] = "read"]
    /\ darfd' = [darfd EXCEPT ![session] = alertfd]
    /\ UNCHANGED <<reaction, fate, session, adding, disposition, kernelVars, sharedVars,
                   inbox, sent, count, threadVars, networkVars, own, historyVars>>

RegisterHandler ==
    /\ At(Main, "register")
    /\ disposition' = "handler"
    /\ pc' = [pc EXCEPT ![Main] = "tick"]
    /\ UNCHANGED <<reaction, fate, session, adding, kernelVars, sharedVars, alertVars,
                   threadVars, networkVars, own, historyVars>>

\* init_socket_communication_with_receiver: the clock, then the socket, whose
\* descriptor reaches connection_sock_fd only when setup_sender returns.
BeginConnectionClock ==
    /\ At(Main, "tick")
    /\ clock' = "live"
    /\ Goto(Main, "connect")
    /\ UNCHANGED <<kernelVars, connfd, alertfd, log, alertVars, threadVars, networkVars,
                   own, historyVars>>

ConnectReceiver ==
    /\ At(Main, "connect")
    /\ \/ /\ \E f \in Fds : /\ Socket(f, File("receiver", session))
                            /\ myfd' = [myfd EXCEPT ![Main] = f]
          /\ Goto(Main, "return")
          /\ UNCHANGED on
       \/ /\ Ends("exited")
          /\ UNCHANGED myfd
    /\ UNCHANGED <<sharedVars, alertVars, flow, leg, networkVars, own, historyVars>>

SetupReturns ==
    /\ At(Main, "return")
    /\ connfd' = myfd[Main]
    /\ Goto(Main, "app")
    /\ UNCHANGED <<kernelVars, alertfd, clock, log, alertVars, threadVars, networkVars, own,
                   historyVars>>

-----------------------------------------------------------------------------
(* The application, on the main thread.                                    *)

\* A hello is sent and the echo awaited, for which the receiver may take its
\* time; the call keeps the connection alive though another thread closes it.
\* No other socket gets the connection's number while the application runs.
SendHello ==
    /\ At(Main, "app") /\ fds[connfd] = File("receiver", session)
    /\ on' = [on EXCEPT ![Main] = fds[connfd]]
    /\ Goto(Main, "answer")
    /\ UNCHANGED <<fds, sharedVars, alertVars, threadVars, networkVars, own, historyVars>>

ReceiveEcho ==
    /\ At(Main, "answer")
    /\ on' = [on EXCEPT ![Main] = Free]
    /\ Goto(Main, "app")
    /\ UNCHANGED <<fds, sharedVars, alertVars, threadVars, networkVars, own, historyVars>>

\* The receiver is gone and SIGPIPE ends the process, or the file client finds
\* its socket closed and exits: neither tears anything down.
ApplicationDies ==
    /\ At(Main, "app")
    /\ \/ Ends("killed")
       \/ fds[connfd] # File("receiver", session) /\ Ends("exited")
    /\ UNCHANGED <<sharedVars, alertVars, threadVars, networkVars, own, historyVars>>

\* The application ends its exchange, of its own or because its socket failed.
Teardown ==
    /\ At(Main, "app") \/ At(Main, "answer")
    /\ on' = [on EXCEPT ![Main] = Free]
    /\ begun' = begun \cup {Main}
    /\ Goto(Main, "close")
    /\ UNCHANGED <<fds, sharedVars, alertVars, threadVars, networkVars, own, early>>

\* hi_client_eval, between two experiments: the sender's rules are flushed,
\* the manager's adapter is started again.
NextExperiment ==
    /\ At(Main, "pause")
    /\ session' = session + 1
    /\ pc' = [pc EXCEPT ![Main] = "discover"]
    /\ own' = {}
    /\ begun' = {t \in Dars : pc[t] \in Cleaning}
    /\ early' = (begun' # {})
    /\ UNCHANGED <<reaction, fate, adding, disposition, kernelVars, sharedVars, alertVars,
                   threadVars, networkVars>>

-----------------------------------------------------------------------------
(* teardown_sender, on any thread.                                         *)

\* Mutant of CloseReceiver: close() is missing.
CloseReceiverNot(t) ==
    /\ At(t, "close")
    /\ Goto(t, "clock")
    /\ UNCHANGED <<kernelVars, sharedVars, alertVars, threadVars, networkVars, own,
                   historyVars>>

CloseReceiver(t) ==
    /\ At(t, "close")
    /\ fds' = Closed(connfd)
    /\ Goto(t, "clock")
    /\ UNCHANGED <<on, sharedVars, alertVars, threadVars, networkVars, own, historyVars>>

\* end_clock dereferences the clock and frees it.
EndClock(t) ==
    /\ At(t, "clock")
    /\ \/ /\ clock = "null"
          /\ Ends("crashed")
          /\ UNCHANGED clock
       \/ /\ clock # "null"
          /\ clock' = "freed"
          /\ Goto(t, "stop")
          /\ UNCHANGED kernelVars
    /\ UNCHANGED <<connfd, alertfd, log, alertVars, threadVars, networkVars, own,
                   historyVars>>

\* Freeing the clock again, and writing to or closing a log_file that is
\* closed, may abort the process or go unnoticed.
UseAfterFree(t) ==
    /\ \/ At(t, "clock") /\ clock = "freed"
       \/ log = "closed" /\ \E l \in {"add", "tick", "clock", "wait", "own", "final"} : At(t, l)
    /\ Ends("crashed")
    /\ UNCHANGED <<sharedVars, alertVars, threadVars, networkVars, own, historyVars>>

\* Mutant of StopMonitoring: pthread_join instead of pthread_kill.
StopMonitoringJoins(t) ==
    /\ At(t, "stop") /\ pc[session] = "ended"
    /\ fds' = Closed(alertfd)
    /\ flow' = [flow EXCEPT ![t] = 1]
    /\ Goto(t, "open")
    /\ UNCHANGED <<on, sharedVars, alertVars, myfd, leg, networkVars, own, historyVars>>

\* stop_path_monitoring_module: signal 0 leaves the DAR thread as it is.
StopMonitoring(t) ==
    /\ At(t, "stop")
    /\ fds' = Closed(alertfd)
    /\ flow' = [flow EXCEPT ![t] = 1]
    /\ Goto(t, "open")
    /\ UNCHANGED <<on, sharedVars, alertVars, myfd, leg, networkVars, own, historyVars>>

\* Which pass over the flows this is: two per session on the main thread, one
\* per alert on a DAR thread.
Pass(t) == IF t # Main THEN count[t] ELSE IF adding THEN 2 * session - 1 ELSE 2 * session

\* setup_overlay_node: a connection refused is only printed.
OpenOverlay(t) ==
    LET k == flow[t]
        o == <<t, Pass(t), k>>
    IN /\ At(t, "open")
       /\ \E f \in Fds : Socket(f, Overlay(o)) /\ myfd' = [myfd EXCEPT ![t] = f]
       /\ net' = [net EXCEPT ![o] = IF k \in down THEN "broken" ELSE "ok"]
       /\ queue' = IF k \in down THEN queue ELSE [queue EXCEPT ![k] = Append(@, o)]
       /\ leg' = [leg EXCEPT ![t] = "fwd"]
       /\ Goto(t, "send")
       /\ UNCHANGED <<on, sharedVars, alertVars, flow, inq, acks, stage, down, rules, own,
                      historyVars>>

\* send() on whatever the descriptor names by now; errors are ignored, a
\* broken connection raises SIGPIPE, a reset one says so once.
SendSpec(t) ==
    LET x    == fds[myfd[t]]
        spec == <<leg[t], flow[t], IF t = Main /\ adding THEN "A" ELSE "D">>
    IN /\ At(t, "send")
       /\ \/ /\ x.kind # "ov"
             /\ Goto(t, "recv")
             /\ UNCHANGED <<inq, net, kernelVars>>
          \/ /\ x.kind = "ov" /\ net[x.id] = "ok"
             /\ inq' = [inq EXCEPT ![x.id] = Append(@, spec)]
             /\ Goto(t, "recv")
             /\ UNCHANGED <<net, kernelVars>>
          \/ /\ x.kind = "ov" /\ net[x.id] = "rst"
             /\ net' = [net EXCEPT ![x.id] = "broken"]
             /\ Goto(t, "recv")
             /\ UNCHANGED <<inq, kernelVars>>
          \/ /\ x.kind = "ov" /\ net[x.id] = "broken"
             /\ Ends("killed")
             /\ UNCHANGED <<inq, net>>
       /\ UNCHANGED <<sharedVars, alertVars, threadVars, acks, stage, queue, down, rules,
                      own, historyVars>>

\* After the second spec the connection is closed, after the first the second
\* one is sent.
AfterRecv(t) ==
    /\ leg' = [leg EXCEPT ![t] = "dar"]
    /\ Goto(t, IF leg[t] = "fwd" THEN "send" ELSE "closeOv")

\* recv() on whatever the descriptor names: a socket blocks.
EnterRecv(t) ==
    LET x == fds[myfd[t]] IN
    /\ At(t, "recv")
    /\ \/ /\ x.kind \in {"ov", "alerts", "receiver"}
          /\ on' = [on EXCEPT ![t] = x]
          /\ Goto(t, "wait")
          /\ UNCHANGED leg
       \/ /\ x.kind \notin {"ov", "alerts", "receiver"}
          /\ AfterRecv(t)
          /\ UNCHANGED on
    /\ UNCHANGED <<fds, sharedVars, alertVars, myfd, flow, networkVars, own, historyVars>>

\* recv() returns the node's echo, or fails.  On a descriptor that names
\* another socket by now it takes an alert from the DAR thread or an echo from
\* the application.
LeaveRecv(t) ==
    LET x == on[t] IN
    /\ At(t, "wait")
    /\ \/ /\ x.kind = "ov" /\ (acks[x.id] > 0 \/ net[x.id] # "ok")
          /\ acks' = [acks EXCEPT ![x.id] = IF @ > 0 THEN @ - 1 ELSE @]
          /\ net' = [net EXCEPT ![x.id] = IF acks[x.id] = 0 THEN "broken" ELSE @]
          /\ UNCHANGED inbox
       \/ /\ x.kind = "alerts" /\ inbox[x.id[1]] > 0
          /\ inbox' = [inbox EXCEPT ![x.id[1]] = @ - 1]
          /\ UNCHANGED <<acks, net>>
       \/ /\ x.kind = "receiver" /\ At(Main, "answer")
          /\ UNCHANGED <<inbox, acks, net>>
    /\ on' = [on EXCEPT ![t] = Free]
    /\ AfterRecv(t)
    /\ UNCHANGED <<fds, sharedVars, sent, count, darfd, myfd, flow, inq, stage, queue, down,
                   rules, own, historyVars>>

\* Mutant of CloseOverlay: clean_rules ends after its first loop.
CloseOverlayOneLoop(t) ==
    LET last == flow[t] = NumFlows IN
    /\ At(t, "closeOv")
    /\ fds' = Closed(myfd[t])
    /\ flow' = [flow EXCEPT ![t] = IF last THEN 1 ELSE @ + 1]
    /\ pc' = [pc EXCEPT ![t] = IF t = Main /\ adding THEN IF last THEN "monitor" ELSE "add"
                                ELSE IF last THEN "final" ELSE "open"]
    /\ adding' = IF t = Main THEN adding /\ ~last ELSE adding
    /\ UNCHANGED <<reaction, fate, session, disposition, on, sharedVars, alertVars, myfd,
                   leg, networkVars, own, historyVars>>

\* The end of setup_overlay_node and of a round of its caller's loop.
CloseOverlay(t) ==
    LET last == flow[t] = NumFlows IN
    /\ At(t, "closeOv")
    /\ fds' = Closed(myfd[t])
    /\ flow' = [flow EXCEPT ![t] = IF last THEN 1 ELSE @ + 1]
    /\ pc' = [pc EXCEPT ![t] = IF t = Main /\ adding THEN IF last THEN "monitor" ELSE "add"
                                ELSE IF last THEN "own" ELSE "open"]
    /\ adding' = IF t = Main THEN adding /\ ~last ELSE adding
    /\ UNCHANGED <<reaction, fate, session, disposition, on, sharedVars, alertVars, myfd,
                   leg, networkVars, own, historyVars>>

RemoveOwnRules(t) ==
    /\ At(t, "own")
    /\ own' = own \ {flow[t]}
    /\ flow' = [flow EXCEPT ![t] = IF @ = NumFlows THEN 1 ELSE @ + 1]
    /\ Goto(t, IF flow[t] = NumFlows THEN "final" ELSE "own")
    /\ UNCHANGED <<kernelVars, sharedVars, alertVars, myfd, leg, networkVars, historyVars>>

CloseLog(t) ==
    /\ At(t, "final")
    /\ log' = "closed"
    /\ Goto(t, "exit")
    /\ UNCHANGED <<kernelVars, connfd, alertfd, clock, alertVars, threadVars, networkVars,
                   own, historyVars>>

\* main() returns, or pauses before the next experiment; the handler calls
\* exit(1), except that the restart reaction resumes the DAR loop.
Exit(t) ==
    /\ At(t, "exit")
    /\ \/ t = Main /\ session < Sessions /\ Goto(t, "pause") /\ UNCHANGED kernelVars
       \/ t # Main /\ reaction = "restart" /\ Goto(t, "read") /\ UNCHANGED kernelVars
       \/ /\ IF t = Main THEN session = Sessions ELSE reaction # "restart"
          /\ Ends("done")
    /\ UNCHANGED <<sharedVars, alertVars, threadVars, networkVars, own, historyVars>>

-----------------------------------------------------------------------------
(* The DAR threads.                                                        *)

\* read() on the descriptor number passed to the thread at its creation.
EnterRead(t) ==
    LET x == fds[darfd[t]] IN
    /\ At(t, "read")
    /\ \/ /\ x # Free
          /\ on' = [on EXCEPT ![t] = x]
          /\ Goto(t, "reading")
       \/ /\ x = Free
          /\ Goto(t, "ended")
          /\ UNCHANGED on
    /\ UNCHANGED <<fds, sharedVars, alertVars, threadVars, networkVars, own, historyVars>>

\* Mutant of ReadAlert: more than max_dar_alerts alerts are needed.
ReadAlertOffByOne(t) ==
    LET s == on[t].id[1] IN
    /\ At(t, "reading") /\ on[t].kind = "alerts"
    /\ inbox[s] > 0
    /\ inbox' = [inbox EXCEPT ![s] = @ - 1]
    /\ count' = [count EXCEPT ![t] = @ + 1]
    /\ on' = [on EXCEPT ![t] = Free]
    /\ Goto(t, IF count[t] + 1 > MaxDarAlerts THEN "raise" ELSE "read")
    /\ UNCHANGED <<fds, sharedVars, sent, darfd, threadVars, networkVars, own, historyVars>>

\* One alert: handle_client_alert, then the comparison with max_dar_alerts.
ReadAlert(t) ==
    LET s == on[t].id[1] IN
    /\ At(t, "reading") /\ on[t].kind = "alerts"
    /\ inbox[s] > 0
    /\ inbox' = [inbox EXCEPT ![s] = @ - 1]
    /\ count' = [count EXCEPT ![t] = @ + 1]
    /\ on' = [on EXCEPT ![t] = Free]
    /\ Goto(t, IF count[t] + 1 >= MaxDarAlerts THEN "raise" ELSE "read")
    /\ UNCHANGED <<fds, sharedVars, sent, darfd, threadVars, networkVars, own, historyVars>>

\* Once its descriptor number names another connection, the thread reads an
\* echo (or the connection's end): parse_hijack_alert finds no commas in it
\* and duplicates a NULL field.
ReadStray(t) ==
    LET x == on[t] IN
    /\ At(t, "reading")
    /\ \/ x.kind = "receiver" /\ At(Main, "answer")
       \/ x.kind = "ov" /\ (acks[x.id] > 0 \/ net[x.id] # "ok")
    /\ Ends("crashed")
    /\ UNCHANGED <<sharedVars, alertVars, threadVars, networkVars, own, historyVars>>

\* raise(SIGUSR1): handle_dar_signal, on this thread.
RaiseSignal(t) ==
    /\ At(t, "raise")
    /\ \/ /\ disposition = "default"
          /\ Ends("killed")
          /\ UNCHANGED historyVars
       \/ /\ disposition = "handler" /\ reaction = "ignore"
          /\ Goto(t, "read")
          /\ UNCHANGED <<historyVars, kernelVars>>
       \/ /\ disposition = "handler" /\ reaction # "ignore"
          /\ begun' = begun \cup {t}
          /\ early' = (early \/ Unconnected)
          /\ Goto(t, "close")
          /\ UNCHANGED kernelVars
    /\ UNCHANGED <<sharedVars, alertVars, threadVars, networkVars, own>>

-----------------------------------------------------------------------------
(* The environment: Darshana clients and overlay nodes.                    *)

\* A datagram is lost unless a DAR socket exists; which one gets it, if the
\* sockets of earlier sessions are still bound, is up to the kernel.
SendAlert ==
    LET bound == {s \in Dars : Alive(File("alerts", s))} IN
    /\ fate = "running" /\ sent < MaxSent
    /\ sent' = sent + 1
    /\ \/ bound = {} /\ UNCHANGED inbox
       \/ \E s \in bound : inbox' = [inbox EXCEPT ![s] = @ + 1]
    /\ UNCHANGED <<procVars, kernelVars, sharedVars, count, darfd, threadVars, networkVars,
                   own, historyVars>>

\* The first spec on a connection is taken for a forwarding spec, the second
\* for a Darshana spec, whoever sent them.
NodeAnswers(k) ==
    LET o    == Head(queue[k])
        spec == Head(inq[o])
    IN /\ queue[k] # <<>> /\ inq[o] # <<>>
       /\ inq' = [inq EXCEPT ![o] = Tail(@)]
       /\ acks' = [acks EXCEPT ![o] = @ + 1]
       /\ stage' = [stage EXCEPT ![o] = @ + 1]
       /\ rules' = IF stage[o] = 1 \/ spec[1] # "fwd" \/ spec[2] # k THEN rules
                   ELSE IF spec[3] = "A" THEN rules \cup {k} ELSE rules \ {k}
       /\ queue' = IF stage[o] = 1 THEN [queue EXCEPT ![k] = Tail(@)] ELSE queue
       /\ UNCHANGED <<procVars, kernelVars, sharedVars, alertVars, threadVars, net, down,
                      own, historyVars>>

\* An end of stream in the middle of an exchange kills the node, which resets
\* the connections behind it.
NodeDies(k) ==
    LET o == Head(queue[k]) IN
    /\ queue[k] # <<>> /\ inq[o] = <<>> /\ ~Alive(Overlay(o))
    /\ down' = down \cup {k}
    /\ net' = [c \in Conns |-> IF \E i \in DOMAIN queue[k] : queue[k][i] = c
                                 THEN "rst" ELSE net[c]]
    /\ queue' = [queue EXCEPT ![k] = <<>>]
    /\ UNCHANGED <<procVars, kernelVars, sharedVars, alertVars, threadVars, inq, acks,
                   stage, rules, own, historyVars>>

-----------------------------------------------------------------------------
TeardownStep(t) ==
    \/ CloseReceiver(t) \/ EndClock(t) \/ UseAfterFree(t) \/ StopMonitoring(t)
    \/ OpenOverlay(t) \/ SendSpec(t) \/ EnterRecv(t) \/ LeaveRecv(t) \/ CloseOverlay(t)
    \/ RemoveOwnRules(t) \/ CloseLog(t) \/ Exit(t)

MainSetup == \/ Discover \/ AddOwnRules \/ StartMonitoring \/ StartDarHandler
             \/ RegisterHandler \/ BeginConnectionClock \/ ConnectReceiver \/ SetupReturns
             \/ NextExperiment

Application == SendHello \/ ReceiveEcho \/ ApplicationDies \/ Teardown

DarLoop(t) == EnterRead(t) \/ ReadAlert(t) \/ ReadStray(t) \/ RaiseSignal(t)

NodeStep(k) == NodeAnswers(k) \/ NodeDies(k)

Next ==
    \/ MainSetup \/ Application \/ SendAlert
    \/ \E t \in Threads : TeardownStep(t)
    \/ \E t \in Dars : DarLoop(t)
    \/ \E k \in Flows : NodeStep(k)

Spec == Init /\ [][Next]_vars

\* The threads and the nodes are scheduled; the application and the Darshana
\* clients need do nothing.
FairSpec ==
    /\ Spec
    /\ WF_vars(MainSetup \/ TeardownStep(Main))
    /\ \A t \in Dars : WF_vars(DarLoop(t) \/ TeardownStep(t))
    /\ \A k \in Flows : WF_vars(NodeStep(k))

-----------------------------------------------------------------------------
(* What a sender promises.                                                 *)

Connected == \E s \in Dars : Alive(File("receiver", s))

\* A teardown that no other thread joined leaves nothing behind: no rule at a
\* node, none at the sender, no node killed.
SoloTeardownCleans ==
    \A t \in {Main, session} : begun = {t} /\ pc[t] = "exit" =>
        rules = {} /\ own = {} /\ down = {}

\* Same without the proviso, as the comment of clean_rules has it: once a
\* teardown ended the process and the nodes have read what was sent.
TeardownCleans ==
    /\ fate = "done"
    /\ \A o \in Conns : inq[o] = <<>>
    => rules = {} /\ own = {}

\* Rules are taken away only once their connection is closed, or traffic would
\* leave its paths and go straight to the receiver: true of every teardown
\* that begins while the connection stands.
RulesOutliveConnection ==
    [][rules \ rules' # {} \/ own \ own' # {}
         => early \/ \A f \in Fds : fds[f].kind # "receiver"]_vars

\* Once a thread has counted max_dar_alerts alerts, the process gives up its
\* connection for good if the reaction is to shut down: no thread can keep
\* another from it.  Only a teardown that began outside a connection can fail
\* to: the thread of an earlier session then works on descriptors that the
\* next session's sockets take over, and may wait on one of those for ever.
AlertsStopTraffic ==
    reaction = "shutdown" /\ (\E t \in Dars : count[t] >= MaxDarAlerts /\ count[t] > 0)
        ~> [](~Connected \/ early)

\* A teardown begun by the application ends the session if alerts are ignored,
\* whatever the DAR threads, which no one stops, do with the descriptors.
TeardownEnds ==
    reaction = "ignore" /\ pc[Main] = "close" ~> fate # "running" \/ pc[Main] = "pause"

==============================================================================
