---------------------------- MODULE ManagerAdapter ----------------------------
(***************************************************************************)
(* The Multipath Manager: DepSpaceAdapter.run(), a single thread that      *)
(* serves one TCP connection until its end of stream, and the clients that *)
(* register with it (overlay nodes, receivers) or query it (the sender,    *)
(* once for the overlay nodes and then once for the receiver).             *)
(*                                                                         *)
(* TCP keeps no message boundaries: a recv() returns one or more of the    *)
(* lines that println() wrote, while every client takes what it gets for   *)
(* one line.  A client that closes with lines unread resets the            *)
(* connection, and the adapter exits on the exception of its next read.    *)
(*                                                                         *)
(* Abstractions.  Connections are named by the client that opens them;     *)
(* connect() and the first send() are one step.  A line arrives whole.     *)
(* The printed form of a tuple (toStringTuple, a library's) is one the     *)
(* clients' strtok calls accept.  "exit" is a command no client sends.     *)
(***************************************************************************)
EXTENDS Naturals, Sequences, FiniteSets, SequencesExt

CONSTANTS Clients,       \* one for each connection to the adapter
          Role,          \* Role[c]: "node", "receiver", "hops" or "dsts"
          Addr,          \* Addr[c]: the address it registers or asks for
          Num,           \* Num[c]: a receiver's number of interfaces ...
          List,          \* List[c]: ... and their addresses
          After,         \* After[c]: the clients that are over when c starts
          MaxExceptions  \* bound: operations that the tuple space refuses

ASSUME ClientsAssumption ==
    /\ IsFiniteSet(Clients)
    /\ Role \in [Clients -> {"node", "receiver", "hops", "dsts"}]
    /\ Num \in [Clients -> Nat] /\ After \in [Clients -> SUBSET Clients]
    /\ MaxExceptions \in Nat

ByRole(r) == {c \in Clients : Role[c] = r}

\* The tuples <node,addr>, <device,addr,num> and <addr,...> (all interfaces).
NodeTuple(c)   == [kind |-> "node", addr |-> Addr[c], num |-> 1, list |-> List[c]]
DeviceTuple(c) == [kind |-> "device", addr |-> Addr[c], num |-> Num[c], list |-> 0]
ListTuple(c)   == [kind |-> "list", addr |-> Addr[c], num |-> Num[c], list |-> List[c]]

Tuples == {NodeTuple(c) : c \in Clients} \cup {DeviceTuple(c) : c \in Clients}
            \cup {ListTuple(c) : c \in Clients}

\* A line of an answer; "" is the empty line.
OKLine       == [tag |-> "OK", tuple |-> <<>>]
ErrorLine    == [tag |-> "ERROR", tuple |-> <<>>]
EmptyLine    == [tag |-> "", tuple |-> <<>>]
TupleLine(t) == [tag |-> "tuple", tuple |-> <<t>>]
Lines        == {OKLine, ErrorLine, EmptyLine} \cup {TupleLine(t) : t \in Tuples}

VARIABLES
    up, serving, backlog,  \* adapter: running, connection in its inner loop, queue
    space,       \* the tuple space
    exceptions,  \* operations refused so far
    st,          \* each client: idle, recv, done, failed, crashed, killed
    cmds,        \* commands the adapter has not executed
    ans,         \* lines the client has not received
    link,        \* none, open, fin (the client closed), rst (it reset), dead
    ask,         \* a query's command: 1, then 2 for the second of dsts
    buf, stale,  \* tuples left in the client's buffer, whether it was not cleared
    found,       \* result of a query
    confirmed,   \* "Registration was successful!"
    merged,      \* history: a recv() of the client returned several lines
    atRead       \* history: what the adapter answered to a query

adapterVars == <<up, serving, backlog>>
storeVars   == <<space, exceptions, atRead>>
clientVars  == <<st, ask, buf, stale, found, confirmed, merged>>
vars == <<adapterVars, storeVars, clientVars, cmds, ans, link>>

Ops == {"out", "inp", "rdall", "rdp device", "rdp list"}

TypeOK ==
    /\ up \in BOOLEAN /\ serving \in {{}} \cup {{c} : c \in Clients} /\ backlog \in Seq(Clients)
    /\ space \in Seq(Tuples) /\ exceptions \in 0 .. MaxExceptions
    /\ st \in [Clients -> {"idle", "recv", "done", "failed", "crashed", "killed"}]
    /\ cmds \in [Clients -> Seq([op : Ops, tuple : Tuples])]
    /\ ans \in [Clients -> Seq(Lines)]
    /\ link \in [Clients -> {"none", "open", "fin", "rst", "dead"}]
    /\ ask \in [Clients -> {1, 2}]
    /\ buf \in [Clients -> Seq(Tuples)] /\ stale \in [Clients -> BOOLEAN]
    /\ found \in [Clients -> Seq(Tuples)]
    /\ confirmed \in [Clients -> BOOLEAN] /\ merged \in [Clients -> BOOLEAN]
    /\ atRead \in [Clients -> Seq(Tuples)]

Init ==
    /\ up = TRUE /\ serving = {} /\ backlog = <<>>
    /\ space = <<>> /\ exceptions = 0
    /\ st = [c \in Clients |-> "idle"]
    /\ cmds = [c \in Clients |-> <<>>] /\ ans = [c \in Clients |-> <<>>]
    /\ link = [c \in Clients |-> "none"] /\ ask = [c \in Clients |-> 1]
    /\ buf = [c \in Clients |-> <<>>] /\ stale = [c \in Clients |-> FALSE]
    /\ found = [c \in Clients |-> <<>>]
    /\ confirmed = [c \in Clients |-> FALSE] /\ merged = [c \in Clients |-> FALSE]
    /\ atRead = [c \in Clients |-> <<>>]

Cmd(o, t) == [op |-> o, tuple |-> t]

\* registerDep writes its tuple; an earlier registration is not taken out.
NodeCommands(c) == <<Cmd("out", NodeTuple(c))>>

\* Mutant of ReceiverCommands: the list of addresses is not taken out first.
ReceiverCommandsKeep(c) ==
    <<Cmd("inp", DeviceTuple(c)), Cmd("out", DeviceTuple(c)), Cmd("out", ListTuple(c))>>

\* register_to_manager takes out the tuples it is about to write, then writes.
ReceiverCommands(c) ==
    <<Cmd("inp", DeviceTuple(c)), Cmd("inp", ListTuple(c)),
      Cmd("out", DeviceTuple(c)), Cmd("out", ListTuple(c))>>

\* What a client sends when it has connected.
Commands(c) ==
    CASE Role[c] = "node"     -> NodeCommands(c)
      [] Role[c] = "receiver" -> ReceiverCommands(c)
      [] Role[c] = "hops"     -> <<Cmd("rdall", NodeTuple(c))>>
      [] Role[c] = "dsts"     -> <<Cmd("rdp device", DeviceTuple(c))>>

(***************************************************************************)
(* The adapter.                                                            *)
(***************************************************************************)

Accept ==
    /\ up /\ serving = {} /\ backlog # <<>>
    /\ serving' = {Head(backlog)} /\ backlog' = Tail(backlog)
    /\ UNCHANGED <<up, storeVars, clientVars, cmds, ans, link>>

\* The adapter prints the lines ls to c.  PrintWriter hides a failure, and a
\* write to a reset connection may use the error up, so that the next read
\* sees an end of stream.
Println(c, ls) ==
    /\ cmds' = [cmds EXCEPT ![c] = Tail(@)]
    /\ ans' = [ans EXCEPT ![c] = IF link[c] = "open" THEN @ \o ls ELSE @]
    /\ \/ UNCHANGED link
       \/ link[c] = "rst" /\ link' = [link EXCEPT ![c] = "fin"]
    /\ UNCHANGED <<adapterVars, clientVars>>

\* c's first unexecuted command, which readLine() returns, is an o.
Reads(c, o) == up /\ serving = {c} /\ cmds[c] # <<>> /\ Head(cmds[c]).op = o

\* accessor.out adds a tuple.
ExecuteOut(c) ==
    /\ Reads(c, "out")
    /\ space' = Append(space, Head(cmds[c]).tuple)
    /\ Println(c, <<OKLine>>)
    /\ UNCHANGED <<exceptions, atRead>>

\* accessor.inp takes one matching tuple out, if there is one; OK either way.
ExecuteInp(c) ==
    /\ Reads(c, "inp")
    /\ LET matches == {i \in DOMAIN space : space[i] = Head(cmds[c]).tuple}
       IN \/ matches = {} /\ UNCHANGED space
          \/ \E i \in matches : space' = RemoveAt(space, i)
    /\ Println(c, <<OKLine>>)
    /\ UNCHANGED <<exceptions, atRead>>

\* The node tuples of q, in its order.
NodesIn(q) ==
    LET nodes[j \in 0 .. Len(q)] ==
            IF j = 0 THEN <<>>
            ELSE IF q[j].kind = "node" THEN Append(nodes[j - 1], q[j]) ELSE nodes[j - 1]
    IN  nodes[Len(q)]

\* Mutant of ExecuteRdall: the last tuple is not printed.
ExecuteRdallShort(c) ==
    /\ Reads(c, "rdall")
    /\ LET nodes == NodesIn(space)
       IN /\ Println(c, <<OKLine>>
                          \o [i \in 1 .. Len(nodes) - 1 |-> TupleLine(nodes[i])]
                          \o <<EmptyLine>>)
          /\ atRead' = [atRead EXCEPT ![c] = nodes]
    /\ UNCHANGED <<space, exceptions>>

\* accessor.rdAll returns every node tuple; an empty line ends the answer.
ExecuteRdall(c) ==
    /\ Reads(c, "rdall")
    /\ LET nodes == NodesIn(space)
       IN /\ Println(c, <<OKLine>> \o [i \in DOMAIN nodes |-> TupleLine(nodes[i])]
                          \o <<EmptyLine>>)
          /\ atRead' = [atRead EXCEPT ![c] = nodes]
    /\ UNCHANGED <<space, exceptions>>

\* The tuples that match <device,addr,*>, or <addr,*,...,*> of num fields.
Matches(cmd) ==
    {i \in DOMAIN space :
        IF cmd.op = "rdp device"
        THEN space[i].kind = "device" /\ space[i].addr = cmd.tuple.addr
        ELSE space[i].kind = "list" /\ space[i].addr = cmd.tuple.addr
             /\ space[i].num = cmd.tuple.num}

\* accessor.rdp returns any matching tuple, or none: an empty line.
ExecuteRdp(c) ==
    /\ Reads(c, "rdp device") \/ Reads(c, "rdp list")
    /\ LET m == Matches(Head(cmds[c]))
       IN \/ /\ m = {} /\ Println(c, <<OKLine, EmptyLine>>)
             /\ atRead' = [atRead EXCEPT ![c] = <<>>]
          \/ \E i \in m : /\ Println(c, <<OKLine, TupleLine(space[i])>>)
                          /\ atRead' = [atRead EXCEPT ![c] = <<space[i]>>]
    /\ UNCHANGED <<space, exceptions>>

\* The tuple space throws DepSpaceException: the command has no effect.
ExecuteFails(c) ==
    /\ exceptions < MaxExceptions
    /\ \E o \in Ops : Reads(c, o)
    /\ exceptions' = exceptions + 1
    /\ Println(c, <<ErrorLine>>)
    /\ UNCHANGED <<space, atRead>>

\* Mutant of EndOfStream: commands still in the buffer are dropped.
EndOfStreamDrops(c) ==
    /\ up /\ serving = {c} /\ link[c] = "fin"
    /\ serving' = {}
    /\ UNCHANGED <<up, backlog, storeVars, clientVars, cmds, ans, link>>

\* readLine() returns null, or the NUL that ends a client's last string, which
\* is no command: the adapter goes on to the next connection.
EndOfStream(c) ==
    /\ up /\ serving = {c} /\ cmds[c] = <<>> /\ link[c] = "fin"
    /\ serving' = {}
    /\ UNCHANGED <<up, backlog, storeVars, clientVars, cmds, ans, link>>

\* readLine() throws on a reset connection: System.exit(-1), which resets the
\* connections that wait in the backlog.
ReadThrows(c) ==
    /\ up /\ serving = {c} /\ cmds[c] = <<>> /\ link[c] = "rst"
    /\ up' = FALSE /\ serving' = {} /\ backlog' = <<>>
    /\ link' = [d \in Clients |-> IF d \in ToSet(backlog) THEN "dead" ELSE link[d]]
    /\ cmds' = [d \in Clients |-> IF d \in ToSet(backlog) THEN <<>> ELSE cmds[d]]
    /\ UNCHANGED <<storeVars, clientVars, ans>>

(***************************************************************************)
(* The clients.                                                            *)
(***************************************************************************)

Over(c) == st[c] \notin {"idle", "recv"}

\* connect() and send().  A refused connect() is ignored and the send() on the
\* unconnected socket kills the client with SIGPIPE.  The sender's second query
\* follows the first in the same process.
Connect(c) ==
    /\ st[c] = "idle"
    /\ \A d \in After[c] : Over(d) /\ (Role[d] = "hops" => st[d] \in {"done", "failed"})
    /\ \/ /\ up
          /\ st' = [st EXCEPT ![c] = "recv"] /\ link' = [link EXCEPT ![c] = "open"]
          /\ backlog' = Append(backlog, c) /\ cmds' = [cmds EXCEPT ![c] = Commands(c)]
       \/ /\ ~up
          /\ st' = [st EXCEPT ![c] = "killed"]
          /\ UNCHANGED <<link, backlog, cmds>>
    /\ UNCHANGED <<up, serving, storeVars, ans, ask, buf, stale, found, confirmed, merged>>

\* Mutant of Close: the socket is left open.
CloseNot(c, s, rest) ==
    /\ st' = [st EXCEPT ![c] = s]
    /\ ans' = [ans EXCEPT ![c] = <<>>]
    /\ UNCHANGED link

\* c ends as s, which closes its socket; lines that remain unread, rest, make
\* the kernel send a reset instead of an end of stream.
Close(c, s, rest) ==
    /\ st' = [st EXCEPT ![c] = s]
    /\ link' = [link EXCEPT ![c] = IF @ = "dead" THEN "dead"
                                   ELSE IF rest = <<>> THEN "fin" ELSE "rst"]
    /\ ans' = [ans EXCEPT ![c] = <<>>]

\* recv() hands c the first n lines that have arrived.
Recv(c, n) ==
    /\ st[c] = "recv" /\ n \in 1 .. Len(ans[c])
    /\ merged' = [merged EXCEPT ![c] = @ \/ n > 1]

Rest(c, n)  == SubSeq(ans[c], n + 1, Len(ans[c]))
Chunk(c, n) == SubSeq(ans[c], 1, n)
Has(ls, tg) == \E i \in DOMAIN ls : ls[i].tag = tg

\* strtok finds the first tuple among the lines ls, if there is one.
FirstTuple(ls) ==
    LET at == {i \in DOMAIN ls : ls[i].tuple # <<>>}
    IN  IF at = {} THEN <<>> ELSE ls[CHOOSE i \in at : \A j \in at : i <= j].tuple

\* registerDep and register_to_manager look at what one recv() returns.
RecvConfirmation(c) ==
    /\ Role[c] \in {"node", "receiver"}
    /\ \E n \in DOMAIN ans[c] :
        /\ Recv(c, n)
        /\ confirmed' = [confirmed EXCEPT ![c] = Has(Chunk(c, n), "OK")]
        /\ Close(c, "done", Rest(c, n))
    /\ UNCHANGED <<adapterVars, storeVars, cmds, ask, buf, stale, found>>

\* The loop of a query goes on to its next recv().
Continue(c, rest, kept, old) ==
    /\ ans' = [ans EXCEPT ![c] = rest]
    /\ buf' = [buf EXCEPT ![c] = kept] /\ stale' = [stale EXCEPT ![c] = old]
    /\ UNCHANGED <<st, link>>

\* The loop of a query, and the client's part in it, is over.
Finish(c, s, rest) == Close(c, s, rest) /\ UNCHANGED <<buf, stale>>

\* get_overlay_nodes_from_manager.  ERROR anywhere in the buffer ends the loop;
\* OK anywhere discards what came with it but leaves it in the buffer; an empty
\* line ends the loop only if it is all the buffer holds; of anything else the
\* first tuple is taken.  Bytes of an earlier line that an empty line did not
\* overwrite are parsed as a tuple: strcpy(NULL) if there is none.
HopsTuple(c, n) ==
    LET lines == Chunk(c, n) IN
    IF FirstTuple(lines) # <<>> THEN FirstTuple(lines) ELSE buf[c]

RecvHops(c) ==
    /\ Role[c] = "hops"
    /\ \E n \in DOMAIN ans[c] :
        LET lines == Chunk(c, n)
            rest  == Rest(c, n)
            isEnd == lines = <<EmptyLine>> /\ ~stale[c]
        IN /\ Recv(c, n)
           /\ \/ /\ Has(lines, "ERROR")
                 /\ Finish(c, "failed", rest) /\ UNCHANGED found
              \/ /\ ~Has(lines, "ERROR") /\ Has(lines, "OK")
                 /\ Continue(c, rest, FirstTuple(lines), TRUE) /\ UNCHANGED found
              \/ /\ ~Has(lines, "ERROR") /\ ~Has(lines, "OK") /\ isEnd
                 /\ Finish(c, "done", rest) /\ UNCHANGED found
              \/ /\ ~Has(lines, "ERROR") /\ ~Has(lines, "OK") /\ ~isEnd
                 /\ \/ /\ HopsTuple(c, n) = <<>>
                       /\ Finish(c, "crashed", rest) /\ UNCHANGED found
                    \/ /\ HopsTuple(c, n) # <<>>
                       /\ found' = [found EXCEPT ![c] = Append(@, HopsTuple(c, n)[1])]
                       /\ Continue(c, rest, <<>>, FALSE)
    /\ UNCHANGED <<adapterVars, storeVars, cmds, ask, confirmed>>

\* get_receiver_info_from_manager.  OK anywhere discards what came with it; of
\* anything else the first tuple is parsed, and without one strtok's NULL is
\* used.  The device tuple gives the number of addresses to ask for next.
RecvDsts(c) ==
    /\ Role[c] = "dsts"
    /\ \E n \in DOMAIN ans[c] :
        LET lines == Chunk(c, n)
            rest  == Rest(c, n)
            ts    == FirstTuple(lines)
        IN /\ Recv(c, n)
           /\ \/ /\ Has(lines, "OK")
                 /\ Continue(c, rest, <<>>, TRUE) /\ UNCHANGED <<cmds, ask, found>>
              \/ /\ ~Has(lines, "OK") /\ ts = <<>>
                 /\ Finish(c, "crashed", rest) /\ UNCHANGED <<cmds, ask, found>>
              \/ /\ ~Has(lines, "OK") /\ ts # <<>> /\ ask[c] = 1
                 /\ ask' = [ask EXCEPT ![c] = 2]
                 /\ cmds' = [cmds EXCEPT ![c] = Append(@, Cmd("rdp list", ts[1]))]
                 /\ Continue(c, rest, <<>>, FALSE) /\ UNCHANGED found
              \/ /\ ~Has(lines, "OK") /\ ts # <<>> /\ ask[c] = 2
                 /\ found' = [found EXCEPT ![c] = <<ts[1]>>]
                 /\ Finish(c, "done", rest) /\ UNCHANGED <<cmds, ask>>
    /\ UNCHANGED <<adapterVars, storeVars, confirmed>>

\* The adapter is gone: recv() returns 0, or -1, which the loops take for data.
\* Registration goes on unconfirmed; the node query ends with what it has on 0
\* and parses an empty buffer on -1; the receiver query always does.
RecvGone(c) ==
    /\ st[c] = "recv" /\ link[c] = "dead"
    /\ \/ Role[c] \in {"node", "receiver"} /\ Close(c, "done", <<>>)
       \/ Role[c] = "hops" /\ \E s \in {"failed", "crashed"} : Close(c, s, <<>>)
       \/ Role[c] = "dsts" /\ Close(c, "crashed", <<>>)
    /\ UNCHANGED <<adapterVars, storeVars, cmds, ask, buf, stale, found, confirmed, merged>>

Adapter ==
    \/ Accept
    \/ \E c \in Clients :
        \/ ExecuteOut(c) \/ ExecuteInp(c) \/ ExecuteRdall(c) \/ ExecuteRdp(c)
        \/ ExecuteFails(c) \/ EndOfStream(c) \/ ReadThrows(c)

Client(c) ==
    \/ Connect(c) \/ RecvConfirmation(c) \/ RecvHops(c) \/ RecvDsts(c) \/ RecvGone(c)

Next == Adapter \/ \E c \in Clients : Client(c)

Spec == Init /\ [][Next]_vars

\* The adapter's thread and every client process keep running.
FairSpec == Spec /\ WF_vars(Adapter) /\ \A c \in Clients : WF_vars(Client(c))

(***************************************************************************)
(* Properties.                                                             *)
(***************************************************************************)

\* p is what is left of q when some elements are crossed out.
Within(p, q) ==
    \E f \in [DOMAIN p -> DOMAIN q] :
        /\ \A a, b \in DOMAIN p : a < b => f[a] < f[b]
        /\ \A a \in DOMAIN p : p[a] = q[f[a]]

\* However the lines of the answer are cut into recv()s, the overlay nodes the
\* sender ends up with are nodes of the answer, each taken at most once and in
\* order; and if each line came alone it has them all (register_dep.c, the
\* loop that clears its buffer on some iterations only).
DiscoverySound ==
    \A c \in ByRole("hops") :
        /\ Within(found[c], atRead[c])
        /\ st[c] = "done" /\ ~merged[c] => found[c] = atRead[c]

Copies(t) == Cardinality({i \in DOMAIN space : space[i] = t})

\* A receiver that registers again with the same interfaces leaves no duplicate,
\* even though it hangs up after the first of its four answers and its successor
\* may connect while the other commands are still to be executed; an operation
\* the tuple space refuses costs one duplicate at most.  A node, which takes
\* nothing out, is stored at most as often as it registered.
RegistrationIdempotent ==
    \A t \in ToSet(space) :
        Copies(t) <= IF t.kind = "node"
                     THEN Cardinality({c \in ByRole("node") : NodeTuple(c) = t})
                     ELSE 1 + exceptions

\* The sender reads the device tuple and then the list of that length, in two
\* commands: it never finds the second missing (it would use a NULL pointer),
\* because the adapter finishes one connection's commands before the next, and
\* the addresses it gets are those of one registration.
NoTornRegistration ==
    exceptions = 0 =>
        \A c \in ByRole("dsts") :
            /\ ~(st[c] = "crashed" /\ ask[c] = 2)
            /\ st[c] = "done" =>
                 \E r \in ByRole("receiver") : found[c] = <<ListTuple(r)>>

Stored(c) ==
    IF Role[c] = "node" THEN NodeTuple(c) \in ToSet(space)
    ELSE {DeviceTuple(c), ListTuple(c)} \subseteq ToSet(space)

\* A registration that was reported successful is in the tuple space sooner or
\* later, although a receiver was answered before it was written and hung up.
RegistrationStored ==
    \A c \in ByRole("node") \cup ByRole("receiver") :
        confirmed[c] ~> (Stored(c) \/ exceptions > 0)

\* Every client that connected comes to an end, unless a query received several
\* lines at once: it then waits for lines it has already thrown away, and the
\* adapter, still serving it, answers nobody else.
ClientsServed ==
    \A c \in Clients :
        st[c] = "recv" ~>
            (Over(c) \/ \E d \in ByRole("hops") \cup ByRole("dsts") : merged[d])
=============================================================================
