---------------------------- MODULE OverlaySetup ----------------------------
(***************************************************************************)
(* The rule exchange between MACHETE senders and overlay nodes.            *)
(*                                                                         *)
(* A sender walks its flows (setup_each_flow, then clean_rules) and for    *)
(* each one opens a TCP connection to the flow's overlay node, sends a     *)
(* forwarding spec, waits for the echo of its type, sends a Darshana spec, *)
(* waits again and closes (setup_overlay_node).  A node is one thread that *)
(* accepts one connection at a time, answers a spec BEFORE applying it and *)
(* never checks what recv returned (start_overlay).  Senders run           *)
(* concurrently, contend for the nodes' accept loops, and both kinds of    *)
(* process may die at any step.                                            *)
(*                                                                         *)
(* Abstractions.  The four iptables rules of one spec are one pair         *)
(* <<source, destination>> of the node's NAT table: they are appended and  *)
(* deleted together and determined by the pair (one receiver port).  The   *)
(* content of a spec in flight is fixed by the sender's flow, type and     *)
(* addresses, which do not change before it is read, so the channels hold  *)
(* only which spec or answer is in transit.                                *)
(***************************************************************************)
EXTENDS Integers, Sequences, SequencesExt

CONSTANTS Senders, Nodes,   \* sender processes, overlay nodes
          NumSrcs, NumDsts, \* interfaces of a sender, of the receiver
          NumHops, Hops,    \* the hops array left by discovery and probing
          LocalIP,          \* LocalIP[s][i]: address of interface i of s
          PublicIP,         \* PublicIP[s][i]: what a STUN server says of it
          Dsts,             \* the receiver's addresses
          StunSenders,      \* senders started with use_stun_server
          MaxFaults,        \* bound: processes killed from outside
          MaxRestarts       \* bound: overlay nodes started again

\* setup_machete_info leaves at least one flow, and the loops below index
\* 0..NumSrcs-1, 0..NumDsts-1 and 0..NumHops-1.
ASSUME SizeAssumption ==
    /\ Senders # {}
    /\ NumSrcs \in Nat \ {0} /\ NumDsts \in Nat \ {0} /\ NumHops \in Nat \ {0}
    /\ MaxFaults \in Nat /\ MaxRestarts \in Nat
    /\ StunSenders \subseteq Senders

SrcIndex == 0 .. NumSrcs - 1
DstIndex == 0 .. NumDsts - 1
HopIndex == 0 .. NumHops - 1
NumFlows == NumSrcs * NumDsts
Flows    == 0 .. NumFlows - 1

\* The addresses under which a sender may announce itself.
Addrs(s) == {LocalIP[s][i] : i \in SrcIndex} \cup {PublicIP[s][i] : i \in SrcIndex}
SrcAddrs == UNION {Addrs(s) : s \in Senders}
DstAddrs == {Dsts[j] : j \in DstIndex}

ASSUME ArrayAssumption ==
    /\ Hops \in [HopIndex -> Nodes]
    /\ LocalIP \in [Senders -> [SrcIndex -> SrcAddrs]]
    /\ PublicIP \in [Senders -> [SrcIndex -> SrcAddrs]]
    /\ Dsts \in [DstIndex -> DstAddrs]

\* Senders are different hosts, none of which shares its address with another.
ASSUME AddrAssumption ==
    \A s, t \in Senders : s # t => Addrs(s) \cap Addrs(t) = {}

\* No two interfaces of a host have the same address.
ASSUME DistinctAssumption ==
    /\ \A s \in Senders : \A i, j \in SrcIndex : LocalIP[s][i] = LocalIP[s][j] => i = j
    /\ \A i, j \in DstIndex : Dsts[i] = Dsts[j] => i = j

VARIABLES
    pc,       \* pc[s]: where the sender's main thread is
    type,     \* type[s]: "A" while setting up, "D" while cleaning
    flow,     \* flow[s]: the loop counter i*numDsts+j
    srcs,     \* srcs[s]: the array of source addresses, rewritten by STUN
    own,      \* own[s]: NAT table of the sender's host
    link,     \* link[s]: the sender's socket to the current overlay node
    req,      \* req[s]: spec sent on that socket and not yet read
    reply,    \* reply[s]: echo sent by the node and not yet read
    acked,    \* acked[s]: history: specs added and echoed twice, not yet deleted
    npc,      \* npc[n]: where the node's thread is
    backlog,  \* backlog[n]: connections accept() has not returned yet
    client,   \* client[n]: the sender being served
    job,      \* job[n]: the spec in the node's buffer
    handle,   \* handle[n]: darshana_client_pthread was assigned
    table,    \* table[n]: NAT table of the node's host
    faults, restarts

senderVars == <<pc, type, flow, srcs, own, acked>>
socketVars == <<link, req, reply>>
nodeVars   == <<npc, backlog, client, job, handle, table>>
faultVars  == <<faults, restarts>>
vars       == <<senderVars, socketVars, nodeVars, faultVars>>

SrcOf(k) == k \div NumDsts
\* Mutant of DstOf: every flow goes to the first destination.
DstFirst(k) == Dsts[0]

DstOf(k) == Dsts[k % NumDsts]
Hop(k)   == Hops[k % NumHops]

\* The node of the flow that s is working on, and the spec it sends there.
HopOf(s)  == Hop(flow[s])
RuleOf(s) == <<srcs[s][SrcOf(flow[s])], DstOf(flow[s])>>
SpecOf(s) == [type |-> type[s], rule |-> RuleOf(s)]
Claim(s)  == <<HopOf(s), RuleOf(s)>>

Rules == SrcAddrs \X DstAddrs
Specs == [type : {"A", "D"}, rule : Rules]

SenderPC == {"flow", "connect", "sendFwd", "fwdAck", "sendDar", "darAck",
             "up", "cleanOwn", "done", "dead"}
NodePC   == {"accept", "fwdRecv", "fwdApply", "darRecv", "darApply", "down"}
Links    == {"none", "queued", "served", "fin", "rst", "broken"}

TypeOK ==
    /\ pc \in [Senders -> SenderPC]
    /\ type \in [Senders -> {"A", "D"}]
    /\ flow \in [Senders -> Flows]
    /\ srcs \in [Senders -> [SrcIndex -> SrcAddrs]]
    /\ \A s \in Senders, i \in SrcIndex : srcs[s][i] \in Addrs(s)
    /\ own \in [Senders -> Seq(SrcAddrs \X DstAddrs \X Nodes)]
    /\ link \in [Senders -> Links]
    /\ req \in [Senders -> {"none", "fwd", "dar"}]
    /\ reply \in [Senders -> {"none", "ack"}]
    /\ acked \in [Senders -> SUBSET (Nodes \X Rules)]
    /\ npc \in [Nodes -> NodePC]
    /\ backlog \in [Nodes -> Seq(Senders)]
    /\ client \in [Nodes -> Senders]
    /\ job \in [Nodes -> Specs]
    /\ handle \in [Nodes -> BOOLEAN]
    /\ table \in [Nodes -> Seq(Rules)]
    /\ faults \in 0 .. MaxFaults
    /\ restarts \in 0 .. MaxRestarts

Init ==
    /\ pc = [s \in Senders |-> "flow"]
    /\ type = [s \in Senders |-> "A"]
    /\ flow = [s \in Senders |-> 0]
    /\ srcs = LocalIP
    /\ own = [s \in Senders |-> <<>>]
    /\ link = [s \in Senders |-> "none"]
    /\ req = [s \in Senders |-> "none"]
    /\ reply = [s \in Senders |-> "none"]
    /\ acked = [s \in Senders |-> {}]
    /\ npc = [n \in Nodes |-> "accept"]
    /\ backlog = [n \in Nodes |-> <<>>]
    /\ client = [n \in Nodes |-> CHOOSE s \in Senders : TRUE]
    /\ job = [n \in Nodes |-> CHOOSE m \in Specs : TRUE]
    /\ handle = [n \in Nodes |-> FALSE]
    /\ table = [n \in Nodes |-> <<>>]
    /\ faults = 0
    /\ restarts = 0

-----------------------------------------------------------------------------
(* The sender's main thread.                                               *)

Goto(s, l) == pc' = [pc EXCEPT ![s] = l]

\* Mutant of LastFlow: the loop stops one flow early.
LastFlowEarly(s) == flow[s] + 2 >= NumFlows

\* The nested loops over srcs and dsts, as one counter that starts again at 0.
LastFlow(s) == flow[s] + 1 = NumFlows
\* Mutant of NextFlow: the counter is not reset for the next loop.
NextFlowNoReset(s) == flow[s] + 1

NextFlow(s) == IF LastFlow(s) THEN 0 ELSE flow[s] + 1

\* One iteration of setup_each_flow up to setup_overlay_node.  The sender's
\* own rule is set under the address held now; only then STUN overwrites the
\* address in place, or leaves it if the query failed (its result is ignored).
SetOwnRules(s) ==
    /\ pc[s] = "flow"
    /\ LET i == SrcOf(flow[s]) IN
       /\ own' = [own EXCEPT ![s] =
                    Append(@, <<srcs[s][i], DstOf(flow[s]), HopOf(s)>>)]
       /\ \E a \in {srcs[s][i]} \cup (IF s \in StunSenders THEN {PublicIP[s][i]} ELSE {}) :
             srcs' = [srcs EXCEPT ![s][i] = a]
    /\ Goto(s, "connect")
    /\ UNCHANGED <<type, flow, acked, socketVars, nodeVars, faultVars>>

\* connect(), whose failure is printed and otherwise ignored.  The kernel
\* of a listening node queues the connection before accept() returns it.
Connect(s) ==
    /\ pc[s] = "connect"
    /\ LET n == HopOf(s) IN
       \/ /\ npc[n] = "down"
          /\ link' = [link EXCEPT ![s] = "broken"]
          /\ UNCHANGED backlog
       \/ /\ npc[n] # "down"
          /\ link' = [link EXCEPT ![s] = "queued"]
          /\ backlog' = [backlog EXCEPT ![n] = Append(@, s)]
    /\ req' = [req EXCEPT ![s] = "none"]
    /\ reply' = [reply EXCEPT ![s] = "none"]
    /\ Goto(s, "sendFwd")
    /\ UNCHANGED <<type, flow, srcs, own, acked, npc, client, job, handle, table, faultVars>>

\* send() on the node's socket.  Its result is ignored, but on a socket that
\* never connected, or whose reset was already reported, it raises SIGPIPE,
\* which nothing handles.  The first call after a reset only reports it, and
\* a send after the node's FIN is accepted and answered by a reset.
Send(s, m, l) ==
    \/ /\ link[s] = "broken"
       /\ Goto(s, "dead")
       /\ UNCHANGED <<link, req>>
    \/ /\ link[s] \in {"fin", "rst"}
       /\ link' = [link EXCEPT ![s] = IF @ = "fin" THEN "rst" ELSE "broken"]
       /\ Goto(s, l)
       /\ UNCHANGED req
    \/ /\ link[s] \in {"queued", "served"}
       /\ req' = [req EXCEPT ![s] = m]
       /\ Goto(s, l)
       /\ UNCHANGED link

\* From here a flow being cleaned is no longer claimed as installed.
SendForwardingSpec(s) ==
    /\ pc[s] = "sendFwd"
    /\ Send(s, "fwd", "fwdAck")
    /\ acked' = [acked EXCEPT ![s] = IF type[s] = "D" THEN @ \ {Claim(s)} ELSE @]
    /\ UNCHANGED <<type, flow, srcs, own, reply, nodeVars, faultVars>>

SendDarshanaSpec(s) ==
    /\ pc[s] = "sendDar"
    /\ Send(s, "dar", "darAck")
    /\ UNCHANGED <<type, flow, srcs, own, acked, reply, nodeVars, faultVars>>

\* Mutant of AckRead: a failed recv() counts as an echo.
AckReadAny(s) == reply[s] = "ack" \/ link[s] \in {"fin", "rst", "broken"}

\* The loop around recv() ends with the echo, or as soon as recv() fails.
AckRead(s)   == reply[s] = "ack"
AckFailed(s) == reply[s] = "none" /\ link[s] \in {"fin", "rst", "broken"}

\* Mutant of AwaitForwardingAck: the second spec is sent without waiting.
AwaitNothing(s) ==
    /\ pc[s] = "fwdAck"
    /\ Goto(s, "sendDar")
    /\ UNCHANGED <<type, flow, srcs, own, acked, socketVars, nodeVars, faultVars>>

AwaitForwardingAck(s) ==
    /\ pc[s] = "fwdAck"
    /\ AckRead(s) \/ AckFailed(s)
    /\ reply' = [reply EXCEPT ![s] = "none"]
    /\ link' = [link EXCEPT ![s] = IF AckFailed(s) /\ @ = "rst" THEN "broken" ELSE @]
    /\ Goto(s, "sendDar")
    /\ UNCHANGED <<type, flow, srcs, own, acked, req, nodeVars, faultVars>>

\* The exchange ends with close(); the loop goes on to its next flow, or out
\* of setup_each_flow (type "A") or of clean_rules' first loop (type "D").
AwaitDarshanaAck(s) ==
    /\ pc[s] = "darAck"
    /\ AckRead(s) \/ AckFailed(s)
    /\ acked' = [acked EXCEPT ![s] =
                   IF AckRead(s) /\ type[s] = "A" THEN @ \cup {Claim(s)} ELSE @]
    /\ link' = [link EXCEPT ![s] = "none"]
    /\ reply' = [reply EXCEPT ![s] = "none"]
    /\ flow' = [flow EXCEPT ![s] = NextFlow(s)]
    /\ Goto(s, IF LastFlow(s) THEN IF type[s] = "A" THEN "up" ELSE "cleanOwn"
                              ELSE IF type[s] = "A" THEN "flow" ELSE "connect")
    /\ UNCHANGED <<type, srcs, own, req, nodeVars, faultVars>>

\* The application is done: teardown_sender calls clean_rules.
Teardown(s) ==
    /\ pc[s] = "up"
    /\ type' = [type EXCEPT ![s] = "D"]
    /\ Goto(s, "connect")
    /\ UNCHANGED <<flow, srcs, own, acked, socketVars, nodeVars, faultVars>>

\* Mutant of RemoveOwnRules: the rule is looked up under the next hop.
RemoveOwnRulesNextHop(s) ==
    /\ pc[s] = "cleanOwn"
    /\ own' = [own EXCEPT ![s] =
                 RemoveFirst(@, <<srcs[s][SrcOf(flow[s])], DstOf(flow[s]),
                                  Hop(flow[s] + 1)>>)]
    /\ flow' = [flow EXCEPT ![s] = NextFlow(s)]
    /\ Goto(s, IF LastFlow(s) THEN "done" ELSE "cleanOwn")
    /\ UNCHANGED <<type, srcs, acked, socketVars, nodeVars, faultVars>>

\* One iteration of clean_rules' second loop, with the addresses held now.
RemoveOwnRules(s) ==
    /\ pc[s] = "cleanOwn"
    /\ own' = [own EXCEPT ![s] =
                 RemoveFirst(@, <<srcs[s][SrcOf(flow[s])], DstOf(flow[s]), HopOf(s)>>)]
    /\ flow' = [flow EXCEPT ![s] = NextFlow(s)]
    /\ Goto(s, IF LastFlow(s) THEN "done" ELSE "cleanOwn")
    /\ UNCHANGED <<type, srcs, acked, socketVars, nodeVars, faultVars>>

-----------------------------------------------------------------------------
(* The overlay node's only thread.                                         *)

GotoN(n, l) == npc' = [npc EXCEPT ![n] = l]

Serves(n, s) == client[n] = s /\ link[s] = "served" /\ HopOf(s) = n

\* Mutant of NodeDies: connections in the backlog hear nothing of it.
NodeDiesSilently(n) ==
    /\ GotoN(n, "down")
    /\ link' = [s \in Senders |-> IF Serves(n, s) THEN "fin" ELSE link[s]]
    /\ backlog' = [backlog EXCEPT ![n] = <<>>]
    /\ UNCHANGED <<req, reply, client, job, handle, table>>

\* The process of node n ends.  Its kernel resets the connections nobody
\* accepted and the served one if it holds unread data; otherwise the peer
\* sees an ordinary end of stream.
NodeDies(n) ==
    /\ GotoN(n, "down")
    /\ link' = [s \in Senders |->
                  IF Contains(backlog[n], s) \/ (Serves(n, s) /\ req[s] # "none")
                    THEN "rst"
                    ELSE IF Serves(n, s) THEN "fin" ELSE link[s]]
    /\ req' = [s \in Senders |->
                 IF Contains(backlog[n], s) \/ Serves(n, s) THEN "none" ELSE req[s]]
    /\ backlog' = [backlog EXCEPT ![n] = <<>>]
    /\ UNCHANGED <<reply, client, job, handle, table>>

Accept(n) ==
    /\ npc[n] = "accept"
    /\ backlog[n] # <<>>
    /\ client' = [client EXCEPT ![n] = Head(backlog[n])]
    /\ link' = [link EXCEPT ![Head(backlog[n])] = "served"]
    /\ backlog' = [backlog EXCEPT ![n] = Tail(@)]
    /\ GotoN(n, "fwdRecv")
    /\ UNCHANGED <<job, handle, table, req, reply, senderVars, faultVars>>

\* recv(), parse, echo the type.  recv() returning 0 because the sender died
\* is not noticed: strtok finds no fields and the node dereferences NULL.
RecvSpec(n, m, l) ==
    LET s == client[n] IN
    \/ /\ req[s] = m
       /\ req' = [req EXCEPT ![s] = "none"]
       /\ reply' = [reply EXCEPT ![s] = "ack"]
       /\ job' = [job EXCEPT ![n] = SpecOf(s)]
       /\ GotoN(n, l)
       /\ UNCHANGED <<link, backlog, client, handle, table>>
    \/ /\ req[s] = "none" /\ pc[s] = "dead"
       /\ NodeDies(n)

ReceiveForwardingSpec(n) ==
    /\ npc[n] = "fwdRecv"
    /\ RecvSpec(n, "fwd", "fwdApply")
    /\ UNCHANGED <<senderVars, faultVars>>

\* Mutant of ApplyForwardingSpec: deleting is not implemented.
ApplyAddOnly(n) ==
    /\ npc[n] = "fwdApply"
    /\ table' = [table EXCEPT ![n] =
                   IF job[n].type = "A" THEN Append(@, job[n].rule) ELSE @]
    /\ GotoN(n, "darRecv")
    /\ UNCHANGED <<backlog, client, job, handle, senderVars, socketVars, faultVars>>

\* forwardPaths or removeRules, after the echo went out.
ApplyForwardingSpec(n) ==
    /\ npc[n] = "fwdApply"
    /\ table' = [table EXCEPT ![n] =
                   IF job[n].type = "A" THEN Append(@, job[n].rule)
                                        ELSE RemoveFirst(@, job[n].rule)]
    /\ GotoN(n, "darRecv")
    /\ UNCHANGED <<backlog, client, job, handle, senderVars, socketVars, faultVars>>

ReceiveDarshanaSpec(n) ==
    /\ npc[n] = "darRecv"
    /\ RecvSpec(n, "dar", "darApply")
    /\ UNCHANGED <<senderVars, faultVars>>

\* Mutant of ApplyDarshanaSpec: the handle of the client thread is not kept.
ApplyDarshanaNoHandle(n) ==
    /\ npc[n] = "darApply"
    /\ \/ job[n].type = "D" /\ ~handle[n] /\ NodeDies(n)
       \/ /\ job[n].type = "D" => handle[n]
          /\ GotoN(n, "accept")
          /\ UNCHANGED <<backlog, client, job, handle, table, socketVars>>
    /\ UNCHANGED <<senderVars, faultVars>>

\* run_darshana_client assigns the global thread handle; deleting cancels
\* whatever thread the handle names, and cancelling a handle that was never
\* assigned in this process dereferences NULL.
ApplyDarshanaSpec(n) ==
    /\ npc[n] = "darApply"
    /\ \/ /\ job[n].type = "D" /\ ~handle[n]
          /\ NodeDies(n)
       \/ /\ job[n].type = "D" => handle[n]
          /\ handle' = [handle EXCEPT ![n] = TRUE]
          /\ GotoN(n, "accept")
          /\ UNCHANGED <<backlog, client, job, table, socketVars>>
    /\ UNCHANGED <<senderVars, faultVars>>

-----------------------------------------------------------------------------
(* The environment: processes killed from outside, nodes started again.    *)

KillSender(s) ==
    /\ faults < MaxFaults
    /\ pc[s] \notin {"done", "dead"}
    /\ faults' = faults + 1
    /\ Goto(s, "dead")
    /\ UNCHANGED <<type, flow, srcs, own, acked, socketVars, nodeVars, restarts>>

KillNode(n) ==
    /\ faults < MaxFaults
    /\ npc[n] # "down"
    /\ faults' = faults + 1
    /\ NodeDies(n)
    /\ UNCHANGED <<senderVars, restarts>>

\* main() again: a fresh process over the same kernel NAT table.
StartNode(n) ==
    /\ restarts < MaxRestarts
    /\ npc[n] = "down"
    /\ restarts' = restarts + 1
    /\ handle' = [handle EXCEPT ![n] = FALSE]
    /\ GotoN(n, "accept")
    /\ UNCHANGED <<backlog, client, job, table, senderVars, socketVars, faults>>

-----------------------------------------------------------------------------
SenderStep(s) ==
    \/ SetOwnRules(s) \/ Connect(s) \/ SendForwardingSpec(s) \/ AwaitForwardingAck(s)
    \/ SendDarshanaSpec(s) \/ AwaitDarshanaAck(s) \/ RemoveOwnRules(s)

NodeStep(n) ==
    \/ Accept(n) \/ ReceiveForwardingSpec(n) \/ ApplyForwardingSpec(n)
    \/ ReceiveDarshanaSpec(n) \/ ApplyDarshanaSpec(n)

Next ==
    \/ \E s \in Senders : SenderStep(s) \/ Teardown(s) \/ KillSender(s)
    \/ \E n \in Nodes : NodeStep(n) \/ KillNode(n) \/ StartNode(n)

Spec == Init /\ [][Next]_vars

\* Running threads are scheduled; applications, faults and operators are not
\* obliged to do anything.
Fairness == /\ \A s \in Senders : WF_vars(SenderStep(s))
            /\ \A n \in Nodes : WF_vars(NodeStep(n))

FairSpec == Spec /\ Fairness

-----------------------------------------------------------------------------
(* What the exchange promises.                                             *)

\* A flow whose two echoes the sender has read, and which it has not begun to
\* delete, is in its node's NAT table, whatever process dies or restarts:
\* although a node answers a spec before applying it, the second echo cannot
\* overtake the first application (receive_forwarding_rule_specification).
AckedInstalled ==
    \A s \in Senders : \A c \in acked[s] : Contains(table[c[1]], c[2])

\* The lockstep that makes AckedInstalled inductive: a connection in a node's
\* backlog has had nothing read from it, ...
Waiting(s, n) ==
    /\ link[s] = "queued" /\ HopOf(s) = n
    /\ pc[s] \in {"sendFwd", "fwdAck", "dead"}
    /\ req[s] \in {"none", "fwd"} /\ reply[s] = "none"

Queued(n) ==
    /\ \A i \in 1 .. Len(backlog[n]) : Waiting(backlog[n][i], n)
    /\ \A i, j \in 1 .. Len(backlog[n]) : backlog[n][i] = backlog[n][j] => i = j

\* ... the sender a node serves is at the step that matches the node's, with
\* the rule applied once the node waits for the second spec, ...
Lockstep(s, n) ==
    /\ link[s] = "served" /\ HopOf(s) = n
    /\ npc[n] = "fwdRecv" =>
          /\ pc[s] \in {"sendFwd", "fwdAck", "dead"}
          /\ req[s] \in {"none", "fwd"} /\ reply[s] = "none"
    /\ npc[n] # "fwdRecv" =>
          /\ pc[s] \in {"fwdAck", "sendDar", "darAck", "dead"}
          /\ req[s] \in {"none", "dar"}
          /\ pc[s] = "darAck" => reply[s] = "none"
    /\ npc[n] = "fwdApply" =>
          /\ job[n] = SpecOf(s)
          /\ type[s] = "D" => Claim(s) \notin acked[s]
    /\ npc[n] = "darRecv" /\ type[s] = "A" => Contains(table[n], RuleOf(s))

Served(n) == npc[n] \in {"fwdRecv", "fwdApply", "darRecv"} => Lockstep(client[n], n)

\* ... and what is in transit fits the step the sender is at.
InTransit(s) ==
    /\ pc[s] \in {"sendFwd", "sendDar"} => req[s] = "none" /\ reply[s] = "none"
    /\ req[s] = "fwd" => /\ pc[s] \in {"fwdAck", "dead"}
                         /\ type[s] = "D" => Claim(s) \notin acked[s]
    /\ req[s] = "dar" => pc[s] \in {"darAck", "dead"}
    /\ reply[s] = "ack" => req[s] = "none"
    /\ link[s] \notin {"queued", "served"} => req[s] = "none"
    /\ pc[s] = "darAck" /\ reply[s] = "ack" /\ type[s] = "A" =>
          Contains(table[HopOf(s)], RuleOf(s))
    /\ \A c \in acked[s] : c[2][1] \in Addrs(s)

\* A node's echo, its NAT table and the sender's step never disagree: the
\* inductive invariant behind AckedInstalled.
ExchangeInv ==
    /\ \A n \in Nodes : Queued(n) /\ Served(n)
    /\ \A s \in Senders : InTransit(s)
    /\ AckedInstalled

\* setup_sender returns only after every flow was echoed, and the sender's own
\* table then steers every flow, as long as no process was killed: the code
\* ignores every failure of connect, send and recv on the way.
SetupComplete ==
    \A s \in Senders : pc[s] = "up" /\ faults = 0 =>
        \A k \in Flows :
           /\ \E a \in Addrs(s) : <<Hop(k), <<a, DstOf(k)>>>> \in acked[s]
           /\ \E a \in Addrs(s) : Contains(own[s], <<a, DstOf(k), Hop(k)>>)

\* clean_rules leaves the sender's own NAT table empty, whatever node failed on
\* the way.  (With STUN it need not: setup_each_flow adds a rule for an address
\* and then overwrites the address, which clean_rules deletes it by.)
OwnRulesClean ==
    \A s \in Senders : pc[s] = "done" /\ s \notin StunSenders => own[s] = <<>>

\* A packet of flow k ends where it should: the sender's first rule for its source and
\* destination names the node, the node's first rule for that source names the
\* destination (iptables takes the first rule that matches).
Delivered(s, k) ==
    LET a == LocalIP[s][SrcOf(k)]
        i == SelectInSeq(own[s], LAMBDA r : r[1] = a /\ r[2] = DstOf(k))
    IN /\ i > 0
       /\ LET n == own[s][i][3]
              j == SelectInSeq(table[n], LAMBDA r : r[1] = a)
          IN j > 0 /\ table[n][j][2] = DstOf(k)

\* Traffic of an established session reaches the address it was sent to in
\* exactly those plans where no interface reaches two destinations through one
\* node: a node's PREROUTING rules match on the source alone.
Delivery ==
    \A s \in Senders : pc[s] = "up" /\ faults = 0 /\ s \notin StunSenders =>
        (   (\A k \in Flows : Delivered(s, k))
        <=> (\A k, m \in Flows : k # m /\ SrcOf(k) = SrcOf(m) => Hop(k) # Hop(m)) )

\* Killing one process brings down at most one node: a node dies only of the
\* sender it serves, and a sender only of the node it is connected to.  (Nodes
\* started again are excluded: an ordinary teardown kills them, see handle.)
CrashContainment ==
    restarts = 0 => Cardinality({n \in Nodes : npc[n] = "down"}) <= faults

\* Neither setup nor teardown hangs, whoever dies: a sender waiting in recv or
\* in a node's backlog is answered or told of the node's end.
ExchangeEnds ==
    \A s \in Senders :
        /\ pc[s] = "flow" ~> pc[s] \in {"up", "dead"}
        /\ type[s] = "D" ~> pc[s] \in {"done", "dead"}

\* The abstract session behind an exchange: its flows are those whose pair is
\* in the NAT table of their node.
PhaseOf(s) == CASE faults > 0 -> "off"
                [] faults = 0 /\ pc[s] \in {"up", "done"} -> pc[s]
                [] faults = 0 /\ pc[s] \notin {"up", "done"} ->
                       IF type[s] = "D" THEN "teardown" ELSE "setup"
InstalledBy(s) ==
    {k \in Flows : Contains(table[Hop(k)], <<LocalIP[s][SrcOf(k)], DstOf(k)>>)}

Provisioning == INSTANCE PathProvisioning
    WITH Sessions <- Senders, Paths <- Flows,
         phase <- [s \in Senders |-> PhaseOf(s)],
         installed <- [s \in Senders |-> InstalledBy(s)]

\* Without STUN, and until a process is killed, the exchange of echoes with
\* single-threaded nodes that answer before they act implements the abstract
\* session: established only with every flow in place, finished only with none,
\* and no set-up or tear-down left unfinished.
ImplementsProvisioning == Provisioning!ProvSpec
=============================================================================
