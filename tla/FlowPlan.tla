-------------------------------- MODULE FlowPlan --------------------------------
(***************************************************************************)
(* How the sender fixes its flows before OverlaySetup configures them:     *)
(* probing the overlay nodes the manager returned, checking their number,  *)
(* and creating virtual interfaces until there are enough source addresses *)
(* for every hop; and what teardown_sender does with those interfaces.     *)
(*                                                                         *)
(* Abstractions.  A ping is one step with its result (ten echo requests    *)
(* and ten reads of a raw ICMP socket, which takes any ICMP packet as the  *)
(* answer and is closed only on success).  An address is the octet the     *)
(* aliases count up; an interface's name matters by the letters the code   *)
(* looks for in it.  Overlay nodes are outside the sender's network.       *)
(***************************************************************************)
EXTENDS Integers, Sequences, FiniteSets, SequencesExt

CONSTANTS
    Nodes,        \* overlay nodes
    Lists,        \* the lists of nodes the manager may have returned
    DstCounts,    \* how many addresses the receiver may have registered
    MinNodes,     \* what min_number_of_nodes may be
    Hosts,        \* the interfaces a host may have: sequences of [octet, e, m]
    Neighbours,   \* octets other hosts of the network use
    MaxOctet,     \* 255
    MaxFlows,     \* MAX_FLOWS
    MaxFds,       \* bound: descriptors the process may have open
    MaxFlips,     \* bound: nodes failing or recovering during the setup
    MaxSrcs       \* bound: numSrcs saturates here

Junk == "junk"    \* what the slots of hops[] hold that nobody assigned

\* The manager's list fits hops[]; a host has an interface, and no two with one address.
ASSUME FlowPlanAssumption ==
    /\ \A l \in Lists : l \in Seq(Nodes) /\ Len(l) < MaxFlows
    /\ DstCounts \subseteq Nat /\ MinNodes \subseteq Nat
    /\ \A l \in Hosts :
          /\ l \in Seq([octet : 1 .. MaxOctet, e : BOOLEAN, m : BOOLEAN])
          /\ l # <<>> /\ Len(l) <= MaxSrcs
          /\ \A a, b \in 1 .. Len(l) : l[a].octet = l[b].octet => a = b
    /\ MaxOctet \in Nat /\ MaxFlows \in Nat
    /\ MaxFds \in Nat /\ MaxFlips \in Nat /\ MaxSrcs \in Nat

VARIABLES
    pc,       \* probe, validate, plan, create, alias, relist, flows, done, ...
    found,    \* the manager's list
    hops, i, numHops,
    up,       \* the nodes that answer
    steady,   \* those that have answered ever since the setup began
    everUp,   \* those that answered at some time
    flips, leaked,
    odd,      \* history: whether a ping lost all its echoes ("loss") or took
              \* another packet for one ("stray")
    numDsts, numSrcs,
    host,     \* the interfaces the session found
    ifaces,   \* the interfaces getifaddrs lists, without the loopback
    octet,    \* pt4 of create_virtual_ifconfig
    failed    \* how many interfaces could not be created

fixedVars == <<found, numHops, host>>
pingVars  == <<leaked, odd>>
probeVars == <<hops, i>>
nodeVars  == <<up, steady, everUp, flips>>
vars == <<pc, found, hops, i, numHops, up, steady, everUp, flips, leaked, odd,
          numDsts, numSrcs, host, ifaces, octet, failed>>

Primary == Last(host)   \* primary_interface: the last one listed

Iface(kind, o, m) == [kind |-> kind, octet |-> o, m |-> m]

Ifaces == [kind : {"host", "alias", "macvlan"}, octet : 1 .. MaxOctet, m : BOOLEAN]

HostList == [j \in 1 .. Len(host) |-> Iface("host", host[j].octet, host[j].m)]

TypeOK ==
    /\ pc \in {"probe", "validate", "plan", "create", "alias", "relist", "flows", "done",
               "exited", "crashed"}
    /\ found \in Lists
    /\ hops \in [1 .. MaxFlows -> Nodes \cup {Junk}]
    /\ i \in 0 .. numHops /\ numHops \in 0 .. MaxFlows
    /\ up \subseteq Nodes /\ steady \subseteq up /\ up \subseteq everUp
    /\ flips \in 0 .. MaxFlips /\ leaked \in 0 .. MaxFds
    /\ odd \subseteq {"loss", "stray"}
    /\ numDsts \in Nat /\ numSrcs \in Nat /\ host \in Hosts /\ ifaces \in Seq(Ifaces)
    /\ octet \in Nat /\ failed \in 0 .. MaxSrcs

Init ==
    /\ pc = "probe"
    /\ found \in Lists
    /\ hops = [j \in 1 .. MaxFlows |-> IF j <= Len(found) THEN found[j] ELSE Junk]
    /\ i = 0 /\ numHops = Len(found)
    /\ up \in SUBSET ToSet(found) /\ steady = up /\ everUp = up /\ flips = 0
    /\ leaked = 0 /\ odd = {} /\ numDsts = 0 /\ numSrcs = 0
    /\ host \in Hosts /\ ifaces = HostList /\ octet = 0 /\ failed = 0

-----------------------------------------------------------------------------
\* ping_overlay_node of an address that answers, or does not: 1 if some packet
\* arrived, which need not be the answer, else -1, as without a socket.  The
\* socket is left open unless a packet arrived.
Ping(answers, r) ==
    /\ r \in IF leaked = MaxFds THEN {-1} ELSE {1, -1}
    /\ leaked' = IF r = -1 /\ leaked < MaxFds THEN leaked + 1 ELSE leaked
    /\ odd' = odd \cup (IF answers /\ r = -1 THEN {"loss"} ELSE {})
                  \cup (IF ~answers /\ r = 1 THEN {"stray"} ELSE {})

\* probe_overlay_nodes: a hop that answers is kept, in the place of one that
\* does not goes the next of the array; the number of hops stays.
ProbeKept ==
    /\ pc = "probe" /\ i < numHops
    /\ Ping(hops[i + 1] \in up, 1)
    /\ i' = i + 1
    /\ UNCHANGED <<pc, fixedVars, hops, nodeVars, numDsts, numSrcs, ifaces, octet, failed>>

\* Mutant of ProbeReplaced: the unresponsive hop stays and the next is probed.
ProbeSkipped ==
    /\ pc = "probe" /\ i < numHops
    /\ Ping(hops[i + 1] \in up, -1)
    /\ i' = i + 1
    /\ UNCHANGED <<pc, fixedVars, hops, nodeVars, numDsts, numSrcs, ifaces, octet, failed>>

\* Mutant of ProbeReplaced: the unresponsive hop is probed again, for ever.
ProbeRetried ==
    /\ pc = "probe" /\ i < numHops
    /\ Ping(hops[i + 1] \in up, -1)
    /\ UNCHANGED <<pc, fixedVars, hops, i, nodeVars, numDsts, numSrcs, ifaces, octet, failed>>

ProbeReplaced ==
    /\ pc = "probe" /\ i < numHops
    /\ Ping(hops[i + 1] \in up, -1)
    /\ hops' = [hops EXCEPT ![i + 1] = hops[i + 2]]
    /\ UNCHANGED <<pc, fixedVars, i, nodeVars, numDsts, numSrcs, ifaces, octet, failed>>

ProbeReturns ==
    /\ pc = "probe" /\ i = numHops
    /\ pc' = "validate"
    /\ UNCHANGED <<fixedVars, probeVars, nodeVars, pingVars, numDsts, numSrcs, ifaces, octet, failed>>

\* validate_number_of_hops, then get_receiver_info_from_manager.
Validate ==
    /\ pc = "validate"
    /\ \/ /\ \E min \in MinNodes : numHops < min
          /\ pc' = "exited" /\ UNCHANGED numDsts
       \/ /\ \E min \in MinNodes : numHops >= min
          /\ pc' = "plan" /\ numDsts' \in DstCounts
    /\ UNCHANGED <<fixedVars, probeVars, nodeVars, pingVars, numSrcs, ifaces, octet, failed>>

\* A node stops or starts answering.
NodeFlips(n) ==
    /\ flips < MaxFlips /\ pc = "probe"
    /\ flips' = flips + 1
    /\ up' = IF n \in up THEN up \ {n} ELSE up \cup {n}
    /\ steady' = steady \ {n} /\ everUp' = everUp \cup {n}
    /\ UNCHANGED <<pc, fixedVars, probeVars, pingVars, numDsts, numSrcs, ifaces, octet, failed>>

-----------------------------------------------------------------------------
\* get_local_interfaces at the start of setup_machete_info.
ListInterfaces ==
    /\ pc = "plan"
    /\ numSrcs' = Len(ifaces) /\ pc' = "create"
    /\ UNCHANGED <<fixedVars, probeVars, nodeVars, pingVars, numDsts, ifaces, octet, failed>>

\* Mutant of NeedsInterface: one interface too few is created.
NeedsOneLess == numSrcs * numDsts + 1 < numHops

NeedsInterface == numSrcs * numDsts < numHops

\* numSrcs++ after either kind of creation, whether it succeeded or not.
NextSrc == numSrcs' = IF numSrcs < MaxSrcs THEN numSrcs + 1 ELSE numSrcs

\* create_virtual_ifconfig starts from the address of the primary interface.
StartAlias ==
    /\ pc = "create" /\ NeedsInterface /\ Primary.e
    /\ pc' = "alias" /\ octet' = Primary.octet
    /\ UNCHANGED <<fixedVars, probeVars, nodeVars, pingVars, numDsts, numSrcs, ifaces, failed>>

InUse(o) == o \in Neighbours \/ \E a \in ToSet(ifaces) : a.octet = o

\* The next address answers: it is taken, try the one after.
AliasTaken ==
    /\ pc = "alias" /\ octet <= MaxOctet
    /\ Ping(octet + numSrcs <= MaxOctet /\ InUse(octet + numSrcs), 1)
    /\ octet' = octet + numSrcs
    /\ UNCHANGED <<pc, fixedVars, probeVars, nodeVars, numDsts, numSrcs, ifaces, failed>>

\* Mutant of AliasFree: the first address is taken without a ping.
AliasUnchecked ==
    /\ pc = "alias"
    /\ octet' = octet + numSrcs /\ pc' = "create" /\ NextSrc
    /\ IF octet' <= MaxOctet
       THEN /\ ifaces' = Append(ifaces, Iface("alias", octet', Primary.m))
            /\ UNCHANGED failed
       ELSE /\ failed' = IF failed < MaxSrcs THEN failed + 1 ELSE failed
            /\ UNCHANGED ifaces
    /\ UNCHANGED <<fixedVars, probeVars, nodeVars, pingVars, numDsts>>

\* Nobody answers: ifconfig assigns the address to an alias, which fails when
\* it is no address; an address of its own the host only reassigns.
AliasFree ==
    /\ pc = "alias"
    /\ Ping(octet + numSrcs <= MaxOctet /\ InUse(octet + numSrcs), -1)
    /\ octet' = octet + numSrcs /\ pc' = "create" /\ NextSrc
    /\ IF octet' <= MaxOctet /\ \A a \in ToSet(ifaces) : a.octet # octet'
       THEN /\ ifaces' = Append(ifaces, Iface("alias", octet', Primary.m))
            /\ UNCHANGED failed
       ELSE /\ failed' = IF failed < MaxSrcs THEN failed + 1 ELSE failed
            /\ UNCHANGED ifaces
    /\ UNCHANGED <<fixedVars, probeVars, nodeVars, numDsts>>

\* create_virtual_interface: a macvlan link whose address dhclient obtains.  Its
\* name is written past two buffers, which may end the process, and is the same
\* for two links made in one second; then, or without a lease, there is no new
\* address.
CreateMacvlan ==
    /\ pc = "create" /\ NeedsInterface /\ ~Primary.e
    /\ \/ /\ pc' = "crashed" /\ UNCHANGED <<numSrcs, ifaces, failed>>
       \/ /\ NextSrc /\ UNCHANGED <<pc, failed>>
          /\ \E o \in 1 .. MaxOctet :
                ~InUse(o) /\ ifaces' = Append(ifaces, Iface("macvlan", o, TRUE))
       \/ /\ NextSrc /\ UNCHANGED <<pc, ifaces>>
          /\ failed' = IF failed < MaxSrcs THEN failed + 1 ELSE failed
    /\ UNCHANGED <<fixedVars, probeVars, nodeVars, pingVars, numDsts, octet>>

\* Enough: the interfaces are listed again.
Relist ==
    /\ pc = "create" /\ ~NeedsInterface
    /\ pc' = "relist" /\ numSrcs' = Len(ifaces)
    /\ UNCHANGED <<fixedVars, probeVars, nodeVars, pingVars, numDsts, ifaces, octet, failed>>

\* setup_each_flow takes the index of the first flow's hop modulo numHops.
BeginFlows ==
    /\ pc = "relist"
    /\ pc' = IF numHops = 0 /\ numSrcs * numDsts > 0 THEN "crashed" ELSE "flows"
    /\ UNCHANGED <<fixedVars, probeVars, nodeVars, pingVars, numDsts, numSrcs, ifaces, octet, failed>>

\* Mutant of Deletes: every interface but those whose name has an m.
DeletesOthers(a) == ~a.m

\* clean_virtual_interfaces takes down and deletes what has an m in its name.
Deletes(a) == a.m

\* What its loop over the interfaces q leaves of them.
Left(q) ==
    LET left[j \in 0 .. Len(q)] ==
            IF j = 0 THEN <<>>
            ELSE IF Deletes(q[j]) THEN left[j - 1] ELSE Append(left[j - 1], q[j])
    IN  left[Len(q)]

CleanVirtualInterfaces ==
    /\ pc = "flows"
    /\ pc' = "done"
    /\ ifaces' = Left(ifaces)
    /\ UNCHANGED <<fixedVars, probeVars, nodeVars, pingVars, numDsts, numSrcs, octet, failed>>

-----------------------------------------------------------------------------
Sender == \/ ProbeKept \/ ProbeReplaced \/ ProbeReturns \/ Validate
          \/ ListInterfaces \/ StartAlias \/ AliasTaken \/ AliasFree \/ CreateMacvlan
          \/ Relist \/ BeginFlows \/ CleanVirtualInterfaces

Next == Sender \/ \E n \in Nodes : NodeFlips(n)

Spec == Init /\ [][Next]_vars

\* The sender is one thread that is scheduled.
FairSpec == Spec /\ WF_vars(Sender)

-----------------------------------------------------------------------------
Kept   == {hops[j] : j \in 1 .. i}
Probed == pc \notin {"probe"}

\* Without lost or stray packets probe_overlay_nodes keeps exactly what it
\* should, whatever nodes fail or recover while it runs: every hop it keeps
\* answered once, and a node of the list that was there all the time is kept,
\* though entries of the array are overwritten as it goes.
ProbeSound ==
    /\ "stray" \notin odd => Kept \subseteq everUp
    /\ "loss" \notin odd /\ Probed => ToSet(found) \cap steady \subseteq Kept

\* setup_machete_info makes as many source addresses as the hops need and no
\* more, when each creation succeeded: every hop gets a flow, and without the
\* last address created one would not.
FlowsCoverHops ==
    pc = "flows" /\ failed = 0 =>
        /\ numSrcs * numDsts >= numHops
        /\ numSrcs > Len(host) => (numSrcs - 1) * numDsts < numHops

\* create_virtual_ifconfig takes no address another host or interface has,
\* unless all the echoes to its owner were lost or no socket was left to ping.
AddressesFree ==
    "loss" \notin odd =>
        /\ \A a, b \in DOMAIN ifaces : a # b => ifaces[a].octet # ifaces[b].octet
        /\ \A a \in ToSet(ifaces) : a.kind # "host" => a.octet \notin Neighbours

\* On a host none of whose own interface names has an m, and whose primary one
\* has no e, the teardown restores the interfaces the session found.
MacvlansRemoved ==
    pc = "done" /\ ~Primary.e /\ (\A h \in ToSet(host) : ~h.m) => ifaces = HostList

\* The setup gets through its two loops if the node after each dead one of the
\* list answers, and the receiver has an address: probe_overlay_nodes would try
\* an entry for ever otherwise, and setup_machete_info add interfaces for ever.
SuccessorsAnswer ==
    \A j \in DOMAIN found : found[j] \notin up =>
        j < Len(found) /\ found[j + 1] \in up

PlanEndsIfSuccessorsAnswer ==
    SuccessorsAnswer /\ [](flips = 0 /\ odd = {}) /\ [](pc = "create" => numDsts > 0) =>
        <>(pc \in {"exited", "crashed", "flows", "done"})
=============================================================================
