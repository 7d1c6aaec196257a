-------------------------------- MODULE Receiver --------------------------------
(***************************************************************************)
(* The receiver process: setup_receiver, its accept loop with a thread per *)
(* connection, and the two applications that run on it, the file server    *)
(* and the echo server, against the applications of the senders.           *)
(*                                                                         *)
(* Abstractions.  What a client sends is counted in items: the file's name *)
(* (with its length), the file's size, then one item per unit of the file; *)
(* or a message (with its size).  A unit is what one recv() of the file    *)
(* server takes; file sizes are scaled with the width of an int.  An item  *)
(* arrives whole.  stdio flushes a file when it is closed.  The tear-down  *)
(* of the receiver is never reached: accept() does not return 0.           *)
(***************************************************************************)
EXTENDS Integers, Sequences, FiniteSets

CONSTANTS Modes,       \* applications: "file", "echo"
          Clients,     \* senders' applications, one session each
          Names,       \* names of files to send
          Missing,     \* names in directories the receiver does not have
          Files,       \* files to send: pairs of a name and a size
          IntMax,      \* largest int
          SendMax,     \* the most that one sendfile() transfers
          Hellos,      \* exchanges of an echo client (MAX_HELLOS_THRESHOLD)
          MaxFds,      \* per application: descriptors for connections and files
          MaxRestarts, \* bound: restarts of the receiver
          MaxHangUps,  \* bound: clients that vanish in their session
          Other        \* a file name that no client sent

ASSUME ReceiverAssumption ==
    /\ IsFiniteSet(Clients) /\ Clients # {}
    /\ Modes \subseteq {"file", "echo"} /\ Missing \subseteq Names /\ Other \notin Names
    /\ Files \subseteq Names \X Nat /\ IntMax \in Nat /\ SendMax \in 1 .. IntMax
    /\ Hellos \in Nat \ {0} /\ MaxFds \in [Modes -> Nat] /\ MaxRestarts \in Nat /\ MaxHangUps \in Nat

VARIABLES
    mode,        \* the application
    rpc,         \* the main thread's place
    registered,  \* with the multipath manager; stays so when the process dies
    deaf,        \* bind() failed: listen() took another port
    sockets,     \* accepted descriptors, which nobody closes
    lingers,     \* a connection was open when a receiver died
    fork,        \* the thread that starts the CryptoPing server: none, pending, done
    held,        \* the CryptoPing server inherited the listening socket
    orphan,      \* a CryptoPing server holds the port of a receiver that is dead
    restarts, hangups,
    name, size,  \* the file a client sends, once it is connected
    cpc,         \* the clients' places
    out, back,   \* items sent, echoes received (client)
    tpc,         \* the places of the threads serving them
    inn,         \* items read (thread)
    fname,       \* the file opened
    got,         \* units written
    files,       \* content: who wrote each unit
    latest,      \* history: the last client to open each file
    clash        \* history: files that two threads had open at once

mainVars   == <<mode, rpc, registered, deaf, lingers, fork, held, orphan, restarts>>
clientVars == <<name, size, cpc, out, back, hangups>>
fileVars   == <<files, latest, clash>>
threadVars == <<tpc, inn, fname, got>>
vars == <<mainVars, sockets, clientVars, threadVars, fileVars>>

AllNames == Names \cup {Other}

TypeOK ==
    /\ mode \in Modes
    /\ rpc \in {"interfaces", "register", "darshana", "listen", "accept", "waiting", "dead"}
    /\ registered \in BOOLEAN /\ deaf \in BOOLEAN /\ lingers \in BOOLEAN
    /\ fork \in {"none", "pending", "done"}
    /\ held \in BOOLEAN /\ orphan \in BOOLEAN
    /\ sockets \in 0 .. MaxFds[mode] /\ restarts \in 0 .. MaxRestarts /\ hangups \in 0 .. MaxHangUps
    /\ name \in [Clients -> AllNames] /\ size \in [Clients -> Nat]
    /\ cpc \in [Clients -> {"idle", "sending", "awaiting", "refused", "failed", "hungup", "done"}]
    /\ out \in [Clients -> Nat] /\ back \in [Clients -> 0 .. Hellos]
    /\ tpc \in [Clients -> {"none", "backlog", "first", "length", "open", "data", "reply",
                            "ended", "reset", "orphaned"}]
    /\ inn \in [Clients -> Nat]
    /\ fname \in [Clients -> AllNames] /\ got \in [Clients -> Nat]
    /\ files \in [AllNames -> Seq(Clients)]
    /\ latest \in [AllNames -> Clients] /\ clash \subseteq AllNames

Init ==
    /\ mode \in Modes
    /\ fork = "none" /\ held = FALSE /\ orphan = FALSE
    /\ rpc = "interfaces" /\ registered = FALSE /\ deaf = FALSE /\ lingers = FALSE
    /\ sockets = 0 /\ restarts = 0 /\ hangups = 0
    /\ name = [c \in Clients |-> Other] /\ size = [c \in Clients |-> 0]
    /\ cpc = [c \in Clients |-> "idle"]
    /\ out = [c \in Clients |-> 0] /\ back = [c \in Clients |-> 0]
    /\ tpc = [c \in Clients |-> "none"] /\ inn = [c \in Clients |-> 0]
    /\ fname = [c \in Clients |-> Other]
    /\ got = [c \in Clients |-> 0]
    /\ files = [n \in AllNames |-> <<>>]
    /\ latest = [n \in AllNames |-> CHOOSE c \in Clients : TRUE] /\ clash = {}

-----------------------------------------------------------------------------
(* The main thread.                                                        *)

Main(from, to) == rpc = from /\ rpc' = to

\* Descriptors in use; accept() holds one while it waits.
Writing(n) == {c \in Clients : tpc[c] = "data" /\ fname[c] = n}
Used       == sockets + Cardinality({c \in Clients : tpc[c] = "data"})
                + (IF rpc = "waiting" THEN 1 ELSE 0)

Open(c)   == cpc[c] \in {"sending", "awaiting"}
Unread(c) == inn[c] < out[c]
AtEnd(c)  == ~Unread(c) /\ ~Open(c)

\* The end of the process: exit(-1) in a thread, or SIGPIPE.  What was not
\* flushed is lost.  The port stays taken for a while if a connection was open,
\* and for ever if the CryptoPing server has inherited it, with the connections
\* waiting there.
Dies ==
    /\ rpc' = "dead"
    /\ lingers' = (lingers \/ \E c \in Clients : tpc[c] # "none" /\ Open(c))
    /\ orphan' = (orphan \/ held)
    /\ tpc' = [c \in Clients |->
                  CASE tpc[c] \in {"none", "reset", "orphaned"}   -> tpc[c]
                    [] tpc[c] = "ended" /\ ~Open(c)              -> tpc[c]
                    [] tpc[c] = "backlog" /\ held                -> "orphaned"
                    [] OTHER                                     -> "reset"]
    /\ fork' = "none"
    /\ UNCHANGED <<mode, registered, deaf, held, restarts, sockets, inn, fname, got,
                   fileVars>>

\* getPrimary and getLocalInterfaces2: a host without an interface has no address
\* to bind to.
GetInterfaces ==
    /\ Main("interfaces", "register")
    /\ deaf' \in BOOLEAN
    /\ UNCHANGED <<mode, registered, lingers, fork, held, orphan, restarts, sockets,
                   clientVars, threadVars, fileVars>>

\* register_to_manager, before anything listens.
RegisterToManager ==
    /\ Main("register", "darshana")
    /\ registered' = TRUE
    /\ UNCHANGED <<mode, deaf, lingers, fork, held, orphan, restarts, sockets, clientVars,
                   threadVars, fileVars>>

\* run_darshana_server: a thread is created that starts the CryptoPing server.
RunDarshanaServer ==
    /\ Main("darshana", "listen")
    /\ fork' = "pending"
    /\ UNCHANGED <<mode, registered, deaf, lingers, held, orphan, restarts, sockets,
                   clientVars, threadVars, fileVars>>

\* run_command_in_thread, system(): the server inherits the listening socket if it
\* is open by now, and nobody ever stops it.
RunCommand ==
    /\ fork = "pending" /\ fork' = "done"
    /\ held' = (rpc \in {"accept", "waiting"})
    /\ UNCHANGED <<mode, rpc, registered, deaf, lingers, orphan, restarts, sockets,
                   clientVars, threadVars, fileVars>>

\* bind(), whose result is ignored, and listen(), which then takes any port.
Listen ==
    /\ Main("listen", "accept")
    /\ deaf' \in {d \in BOOLEAN : (deaf \/ orphan => d) /\ (d => deaf \/ orphan \/ lingers)}
    /\ UNCHANGED <<mode, registered, lingers, fork, held, orphan, restarts, sockets,
                   clientVars, threadVars, fileVars>>

\* accept() reserves a descriptor first.
CallAccept ==
    /\ Used < MaxFds[mode] /\ Main("accept", "waiting")
    /\ UNCHANGED <<mode, registered, deaf, lingers, fork, held, orphan, restarts, sockets,
                   clientVars, threadVars, fileVars>>

\* Without one it returns -1, for which a thread is started all the same, again
\* and again.  The file server's cannot open a file either and exits.
AcceptFails ==
    /\ rpc = "accept" /\ Used >= MaxFds[mode] /\ mode = "file"
    /\ Dies
    /\ UNCHANGED clientVars

Accepted(c) ==
    /\ tpc[c] = "backlog" /\ tpc' = [tpc EXCEPT ![c] = "first"]
    /\ sockets' = sockets + 1
    /\ UNCHANGED <<mode, registered, deaf, lingers, fork, held, orphan, restarts, inn,
                   fname, got, clientVars, fileVars>>

\* Mutant of AcceptClient: one client instead of a loop.
AcceptFirst(c) == sockets = 0 /\ Main("waiting", "accept") /\ Accepted(c)

AcceptClient(c) == Main("waiting", "accept") /\ Accepted(c)

Restart ==
    /\ restarts < MaxRestarts /\ Main("dead", "interfaces")
    /\ restarts' = restarts + 1
    /\ sockets' = 0 /\ held' = FALSE /\ deaf' = FALSE
    /\ UNCHANGED <<mode, registered, lingers, fork, orphan, clientVars, threadVars,
                   fileVars>>

-----------------------------------------------------------------------------
(* The clients' side of a session.                                         *)

To(c, l) == cpc' = [cpc EXCEPT ![c] = l] /\ UNCHANGED <<name, size>>

Listening == rpc \in {"accept", "waiting"} /\ ~deaf

\* The sender knows the receiver from the manager; refused, it exits.
ConnectReceiver(c) ==
    /\ cpc[c] = "idle" /\ registered
    /\ \/ /\ Listening \/ orphan
          /\ tpc' = [tpc EXCEPT ![c] = IF Listening THEN "backlog" ELSE "orphaned"]
          /\ cpc' = [cpc EXCEPT ![c] = "sending"]
          /\ \/ /\ mode = "file"
                /\ \E f \in Files : /\ name' = [name EXCEPT ![c] = f[1]]
                                    /\ size' = [size EXCEPT ![c] = f[2]]
             \/ mode = "echo" /\ UNCHANGED <<name, size>>
       \/ /\ ~Listening /\ ~orphan
          /\ To(c, "refused") /\ UNCHANGED tpc
    /\ UNCHANGED <<out, back, hangups, inn, fname, got, mainVars, sockets, fileVars>>

\* What send_file_protocol sends: name, size, and what one sendfile() takes.
ToSend(c) == 2 + (IF size[c] < SendMax THEN size[c] ELSE SendMax)

\* One item of it; on a connection that was reset the client dies.
SendFile(c) ==
    /\ mode = "file" /\ cpc[c] = "sending" /\ out[c] < ToSend(c)
    /\ IF tpc[c] = "reset" THEN To(c, "failed") /\ UNCHANGED out
                           ELSE To(c, "sending") /\ out' = [out EXCEPT ![c] = @ + 1]
    /\ UNCHANGED <<back, hangups, mainVars, sockets, threadVars, fileVars>>

\* sendfile() returned, and the teardown closes the connection.
FinishFile(c) ==
    /\ mode = "file" /\ cpc[c] = "sending" /\ out[c] = ToSend(c)
    /\ To(c, "done")
    /\ UNCHANGED <<out, back, hangups, mainVars, sockets, threadVars, fileVars>>

\* execute_hello_message_exchange: a message, then it waits for its echo.
SendHello(c) ==
    /\ mode = "echo" /\ cpc[c] = "sending"
    /\ To(c, "awaiting") /\ out' = [out EXCEPT ![c] = @ + 1]
    /\ UNCHANGED <<back, hangups, mainVars, sockets, threadVars, fileVars>>

\* The echo client notices the end of the connection in recv().
EchoFails(c) ==
    /\ cpc[c] = "awaiting" /\ tpc[c] = "reset"
    /\ To(c, "failed")
    /\ UNCHANGED <<out, back, hangups, mainVars, sockets, threadVars, fileVars>>

\* A client is killed, or an alert closes its connection.
HangUp(c) ==
    /\ cpc[c] \in {"sending", "awaiting"} /\ hangups < MaxHangUps
    /\ hangups' = hangups + 1
    /\ To(c, "hungup")
    /\ UNCHANGED <<out, back, mainVars, sockets, threadVars, fileVars>>

-----------------------------------------------------------------------------
(* The threads' side.                                                      *)

Thread(c, l) == tpc' = [tpc EXCEPT ![c] = l]
Read(c)      == inn' = [inn EXCEPT ![c] = @ + 1]

\* machete_receive_data: the name, the file's size.  No recv() is checked: at the
\* end of the stream the variables keep what they had.
ReceiveHeader(c) ==
    /\ mode = "file"
    /\ \/ tpc[c] = "first" /\ Thread(c, "length")
       \/ tpc[c] = "length" /\ Thread(c, "open")
    /\ \/ Unread(c) /\ Read(c)
       \/ AtEnd(c) /\ UNCHANGED inn
    /\ UNCHANGED <<mainVars, sockets, clientVars, fname, got, fileVars>>

\* A long in an int.
AsInt(z) == ((z + IntMax + 1) % (2 * (IntMax + 1))) - (IntMax + 1)

\* filename holds whatever was in memory; remain_data.
Junk(c)   == inn[c] = 0
Remain(c) == IF inn[c] < 2 THEN 0 ELSE AsInt(size[c]) - got[c]

\* fopen(filename, "w"): the name is not terminated, so that what follows it in
\* memory may be taken for a part of it.  Where no file can be created the thread
\* exits, and with it the receiver.
OpenFile(c) ==
    /\ tpc[c] = "open"
    /\ \/ /\ Junk(c) \/ name[c] \in Missing \/ Used >= MaxFds[mode]
          /\ Dies
       \/ /\ (Junk(c) \/ name[c] \notin Missing) /\ Used < MaxFds[mode]
          /\ \E n \in IF Junk(c) THEN {Other} ELSE {name[c], Other} :
                /\ fname' = [fname EXCEPT ![c] = n]
                /\ files' = [files EXCEPT ![n] = <<>>]
                /\ latest' = [latest EXCEPT ![n] = c]
                /\ clash' = IF Writing(n) = {} THEN clash ELSE clash \cup {n}
          /\ Thread(c, "data")
          /\ UNCHANGED <<inn, got, mainVars, sockets>>
    /\ UNCHANGED clientVars

\* Mutant of More: the loop stops one unit early.
MoreThanOne(c) == Remain(c) > 1

More(c) == Remain(c) > 0

\* The loop reads before it looks at remain_data: it ends with the stream or
\* with one unit too many, which is dropped.
ReceiveData(c) ==
    /\ tpc[c] = "data" /\ Unread(c) /\ Read(c)
    /\ IF More(c)
         THEN /\ got' = [got EXCEPT ![c] = @ + 1]
              /\ UNCHANGED <<tpc, files>>
         ELSE /\ files' = [files EXCEPT ![fname[c]] = [i \in 1 .. got[c] |-> c]
                                             \o SubSeq(@, got[c] + 1, Len(@))]
              /\ Thread(c, "ended") /\ UNCHANGED got
    /\ UNCHANGED <<mainVars, sockets, clientVars, fname, latest, clash>>

\* fclose() writes from the start of the file, over what another thread wrote.
CloseFile(c) ==
    /\ tpc[c] = "data" /\ AtEnd(c)
    /\ files' = [files EXCEPT ![fname[c]] = [i \in 1 .. got[c] |-> c]
                                   \o SubSeq(@, got[c] + 1, Len(@))]
    /\ Thread(c, "ended")
    /\ UNCHANGED <<mainVars, sockets, clientVars, inn, fname, got, latest, clash>>

\* Mutant of ReceiveMessage: the results of recv() are not looked at.
ReceiveUnchecked(c) ==
    /\ mode = "echo"
    /\ tpc[c] = "first" /\ Thread(c, "reply")
    /\ \/ Unread(c) /\ Read(c)
       \/ AtEnd(c) /\ UNCHANGED inn
    /\ UNCHANGED <<mainVars, sockets, clientVars, fname, got, fileVars>>

\* echo_hello_message: the end of the stream ends the thread.
ReceiveMessage(c) ==
    /\ mode = "echo"
    /\ tpc[c] = "first"
    /\ \/ Unread(c) /\ Read(c) /\ Thread(c, "reply")
       \/ AtEnd(c) /\ Thread(c, "ended") /\ UNCHANGED inn
    /\ UNCHANGED <<mainVars, sockets, clientVars, fname, got, fileVars>>

\* The two sends of an echo, and the client's receipt.  A client that has closed
\* answers the first with a reset, on which the second may raise SIGPIPE.
SendEcho(c) ==
    /\ tpc[c] = "reply"
    /\ \/ /\ Open(c) /\ Thread(c, "first")
          /\ back' = [back EXCEPT ![c] = @ + 1]
          /\ To(c, IF back[c] + 1 = Hellos THEN "done" ELSE "sending")
          /\ UNCHANGED <<out, hangups, inn, fname, got, mainVars, sockets, fileVars>>
       \/ /\ ~Open(c) /\ Thread(c, "first")
          /\ UNCHANGED <<clientVars, inn, fname, got, mainVars, sockets, fileVars>>
       \/ /\ ~Open(c) /\ Dies /\ UNCHANGED clientVars

-----------------------------------------------------------------------------
MainThread == \/ GetInterfaces \/ RegisterToManager \/ RunDarshanaServer \/ Listen
              \/ CallAccept \/ AcceptFails \/ \E c \in Clients : AcceptClient(c)

Session(c) == SendFile(c) \/ FinishFile(c) \/ SendHello(c) \/ EchoFails(c)

Serve(c) == \/ ReceiveHeader(c) \/ OpenFile(c) \/ ReceiveData(c) \/ CloseFile(c)
            \/ ReceiveMessage(c) \/ SendEcho(c)

Next == \/ MainThread \/ RunCommand \/ Restart
        \/ \E c \in Clients : ConnectReceiver(c) \/ Session(c) \/ HangUp(c) \/ Serve(c)

Spec == Init /\ [][Next]_vars

\* The receiver's threads and the clients that are in a session are scheduled.
FairSpec == /\ Spec
            /\ WF_vars(MainThread)
            /\ \A c \in Clients : WF_vars(Serve(c)) /\ WF_vars(Session(c))

-----------------------------------------------------------------------------
\* A file sent to its end is on the receiver's disk, byte for byte and nothing
\* more, exactly if one sendfile() could send it: provided no later transfer
\* used the name and no other was writing it at the same time.
StoredWhole ==
    \A c \in Clients :
        mode = "file" /\ cpc[c] = "done" /\ tpc[c] = "ended"
          /\ latest[fname[c]] = c /\ fname[c] \notin clash
        => (files[fname[c]] = [i \in 1 .. size[c] |-> c] <=> size[c] <= SendMax)

\* No orderly client brings the receiver down, however many there are at once: it
\* dies only if one hung up, one named a file in a directory that does not exist,
\* or it has accepted so many that their sockets, which nobody closes, and files
\* can exhaust its descriptors.
OrderlyClientsHarmless ==
    rpc = "dead" => \/ hangups > 0
                    \/ mode = "file" /\ \E c \in Clients : name[c] \in Missing
                    \/ mode = "file" /\ 2 * sockets + 1 >= MaxFds[mode]

\* Every connection in the backlog is served to its end or reset, unless the
\* sockets have used up the descriptors, or the receiver dies and leaves the port
\* to a CryptoPing server that was started too late (FairSpec).
SessionsEnd ==
    \A c \in Clients :
        tpc[c] = "backlog" ~> tpc[c] \in {"ended", "reset", "orphaned"} \/ sockets = MaxFds[mode]
=============================================================================
