------------------------- MODULE OverlaySetupProofs -------------------------
(***************************************************************************)
(* Type correctness of the rule exchange; the invariant that ties the      *)
(* senders' steps, the channels and the nodes' NAT tables together; what a *)
(* setup and a teardown leave behind, what a kill can bring down, where    *)
(* traffic goes, and that the exchange implements PathProvisioning; all    *)
(* for every number of senders, nodes, flows, deaths and restarts.         *)
(***************************************************************************)
EXTENDS OverlaySetup, TLAPS, SequenceTheorems, WellFoundedInduction, FiniteSetTheorems

-----------------------------------------------------------------------------
(* Sequences and indices.                                                  *)

\* A set of naturals that is not empty has a least element.
LEMMA LeastElement ==
    ASSUME NEW I \in SUBSET Nat, I # {}
    PROVE  \E m \in I : \A i \in I : m <= i
<1>1. PICK m \in I : \A i \in I : ~(<<i, m>> \in OpToRel(<, Nat))
  BY NatLessThanWellFounded, WFMin
<1>2. \A i \in I : ~(i < m)
  BY <1>1 DEF OpToRel
<1>3. QED
  BY <1>2

\* RemoveFirst drops one occurrence of e and nothing else.
LEMMA RemoveFirstIn ==
    ASSUME NEW S, NEW q \in Seq(S), NEW e
    PROVE  /\ RemoveFirst(q, e) \in Seq(S)
           /\ \A x : x # e /\ Contains(q, x) => Contains(RemoveFirst(q, e), x)
<1> DEFINE I == {i \in 1 .. Len(q) : q[i] = e}
<1>1. CASE I = {}
  <2>1. RemoveFirst(q, e) = q
    BY <1>1 DEF RemoveFirst
  <2>2. QED
    BY <2>1
<1>2. CASE I # {}
  <2>1. I \in SUBSET Nat
    OBVIOUS
  <2>2. \E m \in I : \A i \in I : m <= i
    <3> HIDE DEF I
    <3> QED BY <1>2, <2>1, LeastElement
  <2>3. SelectInSeq(q, LAMBDA v : v = e) \in I
    BY <1>2, <2>2 DEF SelectInSeq, Min
  <2>4. PICK k \in 1 .. Len(q) : q[k] = e /\ RemoveFirst(q, e) = RemoveAt(q, k)
    BY <1>2, <2>3 DEF RemoveFirst
  <2> DEFINE l == SubSeq(q, 1, k - 1)
             r == SubSeq(q, k + 1, Len(q))
  <2>5. /\ l \in Seq(S) /\ Len(l) = k - 1
        /\ \A i \in 1 .. k - 1 : l[i] = q[i]
    OBVIOUS
  <2>6. /\ r \in Seq(S) /\ Len(r) = Len(q) - k
        /\ \A i \in 1 .. Len(q) - k : r[i] = q[k + i]
    OBVIOUS
  <2>7. RemoveFirst(q, e) = l \o r
    BY <2>4 DEF RemoveAt
  <2> HIDE DEF l, r
  <2>8. /\ l \o r \in Seq(S) /\ Len(l \o r) = Len(q) - 1
        /\ \A i \in 1 .. Len(q) - 1 :
              (l \o r)[i] = IF i <= k - 1 THEN l[i] ELSE r[i - (k - 1)]
    <3>1. l \o r \in Seq(S) /\ Len(l \o r) = Len(l) + Len(r)
      BY <2>5, <2>6, ConcatProperties
    <3>2. \A i \in 1 .. Len(l) + Len(r) :
             (l \o r)[i] = IF i <= Len(l) THEN l[i] ELSE r[i - Len(l)]
      BY <2>5, <2>6, ConcatProperties
    <3>3. QED
      BY <3>1, <3>2, <2>5, <2>6
  <2>9. ASSUME NEW x, x # e, NEW i \in 1 .. Len(q), q[i] = x
        PROVE  \E j \in 1 .. Len(l \o r) : (l \o r)[j] = x
    <3>1. CASE i < k
      <4>1. i \in 1 .. Len(l \o r) /\ (l \o r)[i] = l[i]
        BY <3>1, <2>5, <2>6, <2>8
      <4>2. QED
        BY <3>1, <4>1, <2>5, <2>9
    <3>2. CASE i > k
      <4>1. i - 1 \in 1 .. Len(l \o r) /\ (l \o r)[i - 1] = r[i - k]
        BY <3>2, <2>5, <2>6, <2>8
      <4>2. r[i - k] = q[i]
        BY <3>2, <2>6
      <4>3. QED
        BY <4>1, <4>2, <2>9
    <3>3. QED
      BY <3>1, <3>2, <2>4, <2>9
  <2>10. QED
    BY <2>7, <2>8, <2>9 DEF Contains
<1>3. QED
  BY <1>1, <1>2

\* i = k / numDsts, j = k % numDsts and k % num_hops index the arrays.
LEMMA FlowIndices ==
    ASSUME NEW k \in Flows
    PROVE  /\ SrcOf(k) \in SrcIndex
           /\ k % NumDsts \in DstIndex
           /\ k % NumHops \in HopIndex
<1>1. k % NumDsts \in DstIndex /\ k % NumHops \in HopIndex
  BY SizeAssumption DEF Flows, NumFlows, DstIndex, HopIndex
<1>2. k \div NumDsts \in Int /\ k = (k \div NumDsts) * NumDsts + (k % NumDsts)
  BY SizeAssumption DEF Flows, NumFlows
<1>3. k < NumSrcs * NumDsts /\ k >= 0
  BY SizeAssumption DEF Flows, NumFlows
<1> DEFINE q == k \div NumDsts
           r == k % NumDsts
<1>4. q \in Int /\ r \in 0 .. NumDsts - 1 /\ k = q * NumDsts + r /\ k \in Int
  BY <1>1, <1>2, <1>3, SizeAssumption DEF DstIndex, Flows
<1> HIDE DEF q, r
<1>5. q < NumSrcs
  <2>1. SUFFICES ASSUME q >= NumSrcs PROVE FALSE
    BY <1>4, SizeAssumption
  <2>2. q * NumDsts >= NumSrcs * NumDsts
    BY <2>1, <1>4, SizeAssumption
  <2>3. QED
    BY <2>2, <1>3, <1>4, SizeAssumption
<1>6. q >= 0
  <2>1. SUFFICES ASSUME q <= -1 PROVE FALSE
    BY <1>4
  <2>2. q * NumDsts <= -NumDsts
    BY <2>1, <1>4, SizeAssumption
  <2>3. QED
    BY <2>2, <1>3, <1>4, SizeAssumption
<1>7. QED
  BY <1>1, <1>4, <1>5, <1>6, SizeAssumption DEF SrcOf, SrcIndex, q

\* The array accesses of a sender's current flow stay within the arrays.
LEMMA FlowTypes ==
    ASSUME NEW k \in Flows
    PROVE  Hop(k) \in Nodes /\ DstOf(k) \in DstAddrs /\ SrcOf(k) \in SrcIndex
BY FlowIndices, ArrayAssumption DEF Hop, DstOf

\* The rule and the spec of a sender's current flow are well-formed and carry
\* one of its own addresses.
LEMMA SpecTypes ==
    ASSUME TypeOK, NEW s \in Senders
    PROVE  /\ HopOf(s) \in Nodes
           /\ RuleOf(s) \in Rules /\ RuleOf(s)[1] \in Addrs(s)
           /\ SpecOf(s) \in Specs
           /\ Claim(s) \in Nodes \X Rules
<1>1. flow[s] \in Flows /\ type[s] \in {"A", "D"}
  BY DEF TypeOK
<1>2. HopOf(s) \in Nodes /\ DstOf(flow[s]) \in DstAddrs /\ SrcOf(flow[s]) \in SrcIndex
  BY <1>1, FlowTypes DEF HopOf
<1>3. /\ srcs[s][SrcOf(flow[s])] \in SrcAddrs
      /\ srcs[s][SrcOf(flow[s])] \in Addrs(s)
  BY <1>2 DEF TypeOK
<1>4. RuleOf(s) \in Rules /\ RuleOf(s)[1] \in Addrs(s)
  BY <1>2, <1>3 DEF RuleOf, Rules
<1>5. QED
  BY <1>1, <1>2, <1>4 DEF SpecOf, Specs, Claim

\* Local and public addresses are among those of their sender.
LEMMA AddrTypes ==
    \A s \in Senders, i \in SrcIndex :
        /\ LocalIP[s][i] \in Addrs(s) /\ PublicIP[s][i] \in Addrs(s)
        /\ Addrs(s) \subseteq SrcAddrs
BY DEF Addrs, SrcAddrs

\* Processes start well-typed.
LEMMA TypeInit == Init => TypeOK
<1> SUFFICES ASSUME Init PROVE TypeOK
  OBVIOUS
<1>1. 0 \in Flows
  <2>1. NumSrcs * NumDsts >= 1
    BY SizeAssumption
  <2>2. QED
    BY <2>1, SizeAssumption DEF Flows, NumFlows
<1>2. srcs \in [Senders -> [SrcIndex -> SrcAddrs]]
  BY ArrayAssumption DEF Init
<1>3. \A s \in Senders, i \in SrcIndex : srcs[s][i] \in Addrs(s)
  BY AddrTypes DEF Init
<1>4. client \in [Nodes -> Senders]
  BY SizeAssumption DEF Init
<1>5. job \in [Nodes -> Specs]
  <2>1. PICK s \in Senders : TRUE
    BY SizeAssumption
  <2>2. 0 \in SrcIndex /\ 0 \in DstIndex
    BY SizeAssumption DEF SrcIndex, DstIndex
  <2>3. LocalIP[s][0] \in SrcAddrs /\ Dsts[0] \in DstAddrs
    BY <2>1, <2>2, ArrayAssumption
  <2>4. [type |-> "A", rule |-> <<LocalIP[s][0], Dsts[0]>>] \in Specs
    BY <2>3 DEF Specs, Rules
  <2>5. QED
    BY <2>4 DEF Init
<1>6. QED
  BY <1>1, <1>2, <1>3, <1>4, <1>5, SizeAssumption DEF Init, TypeOK, SenderPC, NodePC, Links

\* The loop counter stays within the flows.
LEMMA NextFlowType ==
    ASSUME TypeOK, NEW s \in Senders
    PROVE  NextFlow(s) \in Flows
BY SizeAssumption DEF TypeOK, NextFlow, LastFlow, Flows, NumFlows

\* Either outcome of send() is well-typed, ...
LEMMA SendType ==
    ASSUME TypeOK, NEW s \in Senders, NEW m \in {"fwd", "dar"},
           NEW l \in {"fwdAck", "darAck"}, Send(s, m, l)
    PROVE  /\ pc' \in [Senders -> SenderPC]
           /\ link' \in [Senders -> Links]
           /\ req' \in [Senders -> {"none", "fwd", "dar"}]
<1>1. l \in SenderPC /\ "dead" \in SenderPC /\ "rst" \in Links /\ "broken" \in Links
  BY DEF SenderPC, Links
<1>2. /\ pc \in [Senders -> SenderPC] /\ link \in [Senders -> Links]
      /\ req \in [Senders -> {"none", "fwd", "dar"}]
  BY DEF TypeOK
<1>3. pc' \in [Senders -> SenderPC]
  BY <1>1, <1>2 DEF Send, Goto
<1>4. link' \in [Senders -> Links]
  BY <1>1, <1>2 DEF Send
<1>5. req' \in [Senders -> {"none", "fwd", "dar"}]
  BY <1>2 DEF Send
<1>6. QED
  BY <1>3, <1>4, <1>5

\* ... so is the end of a node's process ...
LEMMA NodeDiesType ==
    ASSUME TypeOK, NEW n \in Nodes, NodeDies(n)
    PROVE  /\ npc' \in [Nodes -> NodePC]
           /\ link' \in [Senders -> Links]
           /\ req' \in [Senders -> {"none", "fwd", "dar"}]
           /\ backlog' \in [Nodes -> Seq(Senders)]
           /\ UNCHANGED <<reply, client, job, handle, table>>
<1>1. npc' \in [Nodes -> NodePC] /\ backlog' \in [Nodes -> Seq(Senders)]
  BY DEF TypeOK, NodeDies, GotoN, NodePC
<1>2. link' \in [Senders -> Links]
  BY DEF TypeOK, NodeDies, Links
<1>3. req' \in [Senders -> {"none", "fwd", "dar"}]
  BY DEF TypeOK, NodeDies
<1>4. QED
  BY <1>1, <1>2, <1>3 DEF NodeDies

\* ... and either outcome of a node's recv().
LEMMA RecvSpecType ==
    ASSUME TypeOK, NEW n \in Nodes, NEW m, NEW l \in {"fwdApply", "darApply"},
           RecvSpec(n, m, l), UNCHANGED <<senderVars, faultVars>>
    PROVE  TypeOK'
<1> DEFINE s == client[n]
<1>1. s \in Senders
  BY DEF TypeOK
<1>2. CASE req[s] = m /\ ~NodeDies(n)
  <2>1. SpecOf(s) \in Specs
    BY <1>1, SpecTypes
  <2>2. l \in NodePC
    BY DEF NodePC
  <2>3. /\ req' \in [Senders -> {"none", "fwd", "dar"}]
        /\ reply' \in [Senders -> {"none", "ack"}]
        /\ job' \in [Nodes -> Specs]
        /\ npc' \in [Nodes -> NodePC]
        /\ UNCHANGED <<link, backlog, client, handle, table>>
    <3>1. /\ req' = [req EXCEPT ![s] = "none"] /\ reply' = [reply EXCEPT ![s] = "ack"]
          /\ job' = [job EXCEPT ![n] = SpecOf(s)] /\ npc' = [npc EXCEPT ![n] = l]
          /\ UNCHANGED <<link, backlog, client, handle, table>>
      BY <1>2 DEF RecvSpec, GotoN
    <3>2. QED
      BY <1>1, <2>1, <2>2, <3>1 DEF TypeOK
  <2>4. QED
    BY <2>3 DEF TypeOK, senderVars, faultVars
<1>3. CASE NodeDies(n)
  BY <1>3, NodeDiesType DEF TypeOK, senderVars, faultVars
<1>4. QED
  BY <1>2, <1>3 DEF RecvSpec

\* Every step keeps the types.
LEMMA TypeNext == TypeOK /\ [Next]_vars => TypeOK'
<1> SUFFICES ASSUME TypeOK, [Next]_vars PROVE TypeOK'
  OBVIOUS
<1>1. ASSUME NEW s \in Senders, SetOwnRules(s) PROVE TypeOK'
  <2> DEFINE i == SrcOf(flow[s])
  <2>1. i \in SrcIndex /\ DstOf(flow[s]) \in DstAddrs /\ HopOf(s) \in Nodes
    BY FlowTypes DEF TypeOK, HopOf
  <2>2. PICK a \in Addrs(s) : srcs' = [srcs EXCEPT ![s][i] = a]
    BY <1>1, <2>1, AddrTypes DEF SetOwnRules, TypeOK
  <2>3. a \in SrcAddrs
    BY <2>2, <2>1, AddrTypes
  <2>4. srcs' \in [Senders -> [SrcIndex -> SrcAddrs]]
    BY <2>1, <2>2, <2>3 DEF TypeOK
  <2>5. \A t \in Senders, j \in SrcIndex : srcs'[t][j] \in Addrs(t)
    BY <2>1, <2>2 DEF TypeOK
  <2>6. own' \in [Senders -> Seq(SrcAddrs \X DstAddrs \X Nodes)]
    BY <1>1, <2>1 DEF SetOwnRules, TypeOK
  <2>7. pc' \in [Senders -> SenderPC]
    BY <1>1 DEF SetOwnRules, TypeOK, Goto, SenderPC
  <2>8. UNCHANGED <<type, flow, acked, socketVars, nodeVars, faultVars>>
    BY <1>1 DEF SetOwnRules
  <2>9. QED
    BY <2>4, <2>5, <2>6, <2>7, <2>8 DEF TypeOK, socketVars, nodeVars, faultVars
<1>2. ASSUME NEW s \in Senders, Connect(s) PROVE TypeOK'
  <2>1. HopOf(s) \in Nodes
    BY SpecTypes
  <2>2. /\ pc' \in [Senders -> SenderPC] /\ link' \in [Senders -> Links]
        /\ req' \in [Senders -> {"none", "fwd", "dar"}]
        /\ reply' \in [Senders -> {"none", "ack"}]
    <3>1. \E l \in Links : link' = [link EXCEPT ![s] = l]
      BY <1>2 DEF Connect, Links
    <3>2. QED
      BY <1>2, <3>1 DEF Connect, Goto, TypeOK, SenderPC
  <2>3. backlog' \in [Nodes -> Seq(Senders)]
    <3>1. \/ backlog' = backlog
          \/ backlog' = [backlog EXCEPT ![HopOf(s)] = Append(@, s)]
      BY <1>2 DEF Connect
    <3>2. Append(backlog[HopOf(s)], s) \in Seq(Senders)
      BY <2>1 DEF TypeOK
    <3>3. QED
      BY <2>1, <3>1, <3>2 DEF TypeOK
  <2>4. UNCHANGED <<type, flow, srcs, own, acked, npc, client, job, handle, table, faultVars>>
    BY <1>2 DEF Connect
  <2>5. QED
    BY <2>2, <2>3, <2>4 DEF TypeOK, faultVars
<1>3. ASSUME NEW s \in Senders, SendForwardingSpec(s) PROVE TypeOK'
  <2>1. acked' \in [Senders -> SUBSET (Nodes \X Rules)]
    BY <1>3 DEF SendForwardingSpec, TypeOK
  <2>2. QED
    BY <1>3, <2>1, SendType DEF SendForwardingSpec, TypeOK, nodeVars, faultVars
<1>4. ASSUME NEW s \in Senders, SendDarshanaSpec(s) PROVE TypeOK'
  BY <1>4, SendType DEF SendDarshanaSpec, TypeOK, nodeVars, faultVars
<1>5. ASSUME NEW s \in Senders, AwaitForwardingAck(s) PROVE TypeOK'
  <2>1. /\ pc' \in [Senders -> SenderPC] /\ link' \in [Senders -> Links]
        /\ reply' \in [Senders -> {"none", "ack"}]
    BY <1>5 DEF AwaitForwardingAck, Goto, TypeOK, SenderPC, Links
  <2>2. QED
    BY <1>5, <2>1 DEF AwaitForwardingAck, TypeOK, nodeVars, faultVars
<1>6. ASSUME NEW s \in Senders, AwaitDarshanaAck(s) PROVE TypeOK'
  <2>1. /\ pc' \in [Senders -> SenderPC] /\ link' \in [Senders -> Links]
        /\ reply' \in [Senders -> {"none", "ack"}]
    BY <1>6 DEF AwaitDarshanaAck, Goto, TypeOK, SenderPC, Links
  <2>2. acked' \in [Senders -> SUBSET (Nodes \X Rules)]
    <3>1. Claim(s) \in Nodes \X Rules
      BY SpecTypes
    <3>2. \/ acked' = [acked EXCEPT ![s] = @ \cup {Claim(s)}]
          \/ acked' = [acked EXCEPT ![s] = @]
      BY <1>6 DEF AwaitDarshanaAck
    <3>3. acked[s] \cup {Claim(s)} \in SUBSET (Nodes \X Rules)
      BY <3>1 DEF TypeOK
    <3>4. QED
      BY <3>2, <3>3 DEF TypeOK
  <2>3. flow' \in [Senders -> Flows]
    BY <1>6, NextFlowType DEF AwaitDarshanaAck, TypeOK
  <2>4. QED
    BY <1>6, <2>1, <2>2, <2>3 DEF AwaitDarshanaAck, TypeOK, nodeVars, faultVars
<1>7. ASSUME NEW s \in Senders, Teardown(s) PROVE TypeOK'
  <2>1. pc' \in [Senders -> SenderPC] /\ type' \in [Senders -> {"A", "D"}]
    BY <1>7 DEF Teardown, Goto, TypeOK, SenderPC
  <2>2. QED
    BY <1>7, <2>1 DEF Teardown, TypeOK, socketVars, nodeVars, faultVars
<1>8. ASSUME NEW s \in Senders, RemoveOwnRules(s) PROVE TypeOK'
  <2>1. pc' \in [Senders -> SenderPC]
    BY <1>8 DEF RemoveOwnRules, Goto, TypeOK, SenderPC
  <2>2. flow' \in [Senders -> Flows]
    BY <1>8, NextFlowType DEF RemoveOwnRules, TypeOK
  <2>3. own' \in [Senders -> Seq(SrcAddrs \X DstAddrs \X Nodes)]
    BY <1>8, RemoveFirstIn DEF RemoveOwnRules, TypeOK
  <2>4. QED
    BY <1>8, <2>1, <2>2, <2>3 DEF RemoveOwnRules, TypeOK, socketVars, nodeVars, faultVars
<1>9. ASSUME NEW n \in Nodes, Accept(n) PROVE TypeOK'
  <2>1. /\ Head(backlog[n]) \in Senders
        /\ Tail(backlog[n]) \in Seq(Senders)
    BY <1>9 DEF Accept, TypeOK
  <2>2. /\ client' \in [Nodes -> Senders] /\ link' \in [Senders -> Links]
        /\ backlog' \in [Nodes -> Seq(Senders)] /\ npc' \in [Nodes -> NodePC]
    BY <1>9, <2>1 DEF Accept, GotoN, TypeOK, Links, NodePC
  <2>3. QED
    BY <1>9, <2>2 DEF Accept, TypeOK, senderVars, faultVars
<1>10. ASSUME NEW n \in Nodes, ReceiveForwardingSpec(n) \/ ReceiveDarshanaSpec(n)
       PROVE  TypeOK'
  BY <1>10, RecvSpecType DEF ReceiveForwardingSpec, ReceiveDarshanaSpec
<1>11. ASSUME NEW n \in Nodes, ApplyForwardingSpec(n) PROVE TypeOK'
  <2>1. /\ Append(table[n], job[n].rule) \in Seq(Rules)
        /\ RemoveFirst(table[n], job[n].rule) \in Seq(Rules)
    BY <1>11, RemoveFirstIn DEF TypeOK, Specs
  <2>2. table' \in [Nodes -> Seq(Rules)] /\ npc' \in [Nodes -> NodePC]
    BY <1>11, <2>1 DEF ApplyForwardingSpec, GotoN, TypeOK, NodePC
  <2>3. QED
    BY <1>11, <2>2 DEF ApplyForwardingSpec, TypeOK, senderVars, socketVars, faultVars
<1>12. ASSUME NEW n \in Nodes, ApplyDarshanaSpec(n) PROVE TypeOK'
  <2>1. CASE NodeDies(n)
    BY <1>12, <2>1, NodeDiesType DEF ApplyDarshanaSpec, TypeOK, senderVars, faultVars
  <2>2. CASE ~NodeDies(n)
    <3>1. handle' \in [Nodes -> BOOLEAN] /\ npc' \in [Nodes -> NodePC]
      BY <1>12, <2>2 DEF ApplyDarshanaSpec, GotoN, TypeOK, NodePC
    <3>2. UNCHANGED <<backlog, client, job, table, socketVars, senderVars, faultVars>>
      BY <1>12, <2>2 DEF ApplyDarshanaSpec
    <3>3. QED
      BY <3>1, <3>2 DEF TypeOK, socketVars, senderVars, faultVars
  <2>3. QED
    BY <2>1, <2>2
<1>13. ASSUME NEW s \in Senders, KillSender(s) PROVE TypeOK'
  <2>1. pc' \in [Senders -> SenderPC] /\ faults' \in 0 .. MaxFaults
    BY <1>13, SizeAssumption DEF KillSender, Goto, TypeOK, SenderPC
  <2>2. QED
    BY <1>13, <2>1 DEF KillSender, TypeOK, socketVars, nodeVars
<1>14. ASSUME NEW n \in Nodes, KillNode(n) PROVE TypeOK'
  <2>1. faults' \in 0 .. MaxFaults
    BY <1>14, SizeAssumption DEF KillNode, TypeOK
  <2>2. QED
    BY <1>14, <2>1, NodeDiesType DEF KillNode, TypeOK, senderVars
<1>15. ASSUME NEW n \in Nodes, StartNode(n) PROVE TypeOK'
  <2>1. restarts' \in 0 .. MaxRestarts
    BY <1>15, SizeAssumption DEF StartNode, TypeOK
  <2>2. handle' \in [Nodes -> BOOLEAN] /\ npc' \in [Nodes -> NodePC]
    BY <1>15 DEF StartNode, GotoN, TypeOK, NodePC
  <2>3. QED
    BY <1>15, <2>1, <2>2 DEF StartNode, TypeOK, senderVars, socketVars
<1>16. CASE UNCHANGED vars
  BY <1>16 DEF vars, senderVars, socketVars, nodeVars, faultVars, TypeOK
<1>17. QED
  BY <1>1, <1>2, <1>3, <1>4, <1>5, <1>6, <1>7, <1>8, <1>9, <1>10, <1>11, <1>12,
     <1>13, <1>14, <1>15, <1>16 DEF Next, SenderStep, NodeStep

\* Type correctness of OverlaySetup.
THEOREM TypeCorrect == Spec => []TypeOK
BY TypeInit, TypeNext, PTL DEF Spec

-----------------------------------------------------------------------------
(* The exchange invariant.                                                 *)

\* A sender's spec depends on its flow, addresses and type alone.
LEMMA SameSpec ==
    ASSUME NEW t \in Senders,
           flow'[t] = flow[t], srcs'[t] = srcs[t], type'[t] = type[t]
    PROVE  /\ HopOf(t)' = HopOf(t) /\ RuleOf(t)' = RuleOf(t)
           /\ SpecOf(t)' = SpecOf(t) /\ Claim(t)' = Claim(t)
BY DEF HopOf, RuleOf, SpecOf, Claim, Hop, DstOf, SrcOf

\* A sender whose state a step leaves alone, seen from a node it leaves alone.
LEMMA SameSender ==
    ASSUME NEW t \in Senders, NEW n \in Nodes,
           pc'[t] = pc[t], type'[t] = type[t], flow'[t] = flow[t], srcs'[t] = srcs[t],
           link'[t] = link[t], req'[t] = req[t], reply'[t] = reply[t], acked'[t] = acked[t]
    PROVE  /\ Waiting(t, n) => Waiting(t, n)'
           /\ npc'[n] = npc[n] /\ job'[n] = job[n] /\ table'[n] = table[n]
                 => (Lockstep(t, n) => Lockstep(t, n)')
<1>1. /\ HopOf(t)' = HopOf(t) /\ RuleOf(t)' = RuleOf(t)
      /\ SpecOf(t)' = SpecOf(t) /\ Claim(t)' = Claim(t)
  BY SameSpec
<1>2. Waiting(t, n) => Waiting(t, n)'
  BY <1>1 DEF Waiting
<1>3. npc'[n] = npc[n] /\ job'[n] = job[n] /\ table'[n] = table[n]
                 => (Lockstep(t, n) => Lockstep(t, n)')
  BY <1>1 DEF Lockstep
<1>4. QED
  BY <1>2, <1>3

\* What is left to show of a step of sender s that leaves the nodes' threads
\* alone, ...
LEMMA SenderFrameQueued ==
    ASSUME TypeOK, ExchangeInv, NEW s \in Senders,
           UNCHANGED <<npc, client, job, table>>,
           \A t \in Senders : t # s =>
              /\ pc'[t] = pc[t] /\ type'[t] = type[t] /\ flow'[t] = flow[t]
              /\ srcs'[t] = srcs[t] /\ link'[t] = link[t] /\ req'[t] = req[t]
              /\ reply'[t] = reply[t] /\ acked'[t] = acked[t],
           \A n \in Nodes : Queued(n)',
           \A n \in Nodes : Lockstep(s, n) => Lockstep(s, n)',
           InTransit(s)',
           \A c \in acked'[s] : c \in acked[s] \/ Contains(table[c[1]], c[2])
    PROVE  ExchangeInv'
<1>3. ASSUME NEW n \in Nodes PROVE Served(n)'
  <2>1. Served(n) /\ client[n] \in Senders
    BY DEF ExchangeInv, TypeOK
  <2>2. Lockstep(client[n], n) => Lockstep(client[n], n)'
    <3>1. CASE client[n] = s
      BY <3>1
    <3>2. CASE client[n] # s
      BY <2>1, <3>2, SameSender
    <3>3. QED
      BY <3>1, <3>2
  <2>3. QED
    BY <2>1, <2>2 DEF Served
<1>4. ASSUME NEW t \in Senders PROVE InTransit(t)'
  <2>1. CASE t # s
    <3>1. /\ HopOf(t)' = HopOf(t) /\ RuleOf(t)' = RuleOf(t) /\ Claim(t)' = Claim(t)
      BY <2>1, SameSpec
    <3>2. InTransit(t)
      BY DEF ExchangeInv
    <3>3. QED
      BY <2>1, <3>1, <3>2 DEF InTransit
  <2>2. QED
    BY <2>1
<1>5. AckedInstalled'
  <2>1. AckedInstalled
    BY DEF ExchangeInv
  <2>2. ASSUME NEW t \in Senders, NEW c \in acked'[t] PROVE Contains(table[c[1]], c[2])
    BY <2>1, <2>2 DEF AckedInstalled
  <2>3. QED
    BY <2>2 DEF AckedInstalled
<1>6. QED
  BY <1>3, <1>4, <1>5 DEF ExchangeInv

\* ... and their backlogs too.
LEMMA SenderFrame ==
    ASSUME TypeOK, ExchangeInv, NEW s \in Senders,
           UNCHANGED <<npc, backlog, client, job, table>>,
           \A t \in Senders : t # s =>
              /\ pc'[t] = pc[t] /\ type'[t] = type[t] /\ flow'[t] = flow[t]
              /\ srcs'[t] = srcs[t] /\ link'[t] = link[t] /\ req'[t] = req[t]
              /\ reply'[t] = reply[t] /\ acked'[t] = acked[t],
           \A n \in Nodes : Waiting(s, n) => Waiting(s, n)',
           \A n \in Nodes : Lockstep(s, n) => Lockstep(s, n)',
           InTransit(s)',
           \A c \in acked'[s] : c \in acked[s] \/ Contains(table[c[1]], c[2])
    PROVE  ExchangeInv'
<1>1. ASSUME NEW n \in Nodes PROVE Queued(n)'
  <2>1. Queued(n) /\ backlog[n] \in Seq(Senders)
    BY DEF ExchangeInv, TypeOK
  <2>2. \A i \in 1 .. Len(backlog[n]) : backlog[n][i] \in Senders
    BY <2>1
  <2>3. \A t \in Senders : Waiting(t, n) => Waiting(t, n)'
    <3>1. ASSUME NEW t \in Senders, t # s PROVE Waiting(t, n) => Waiting(t, n)'
      BY <3>1, SameSender
    <3>2. QED
      BY <3>1
  <2>4. \A i \in 1 .. Len(backlog[n]) : Waiting(backlog[n][i], n)'
    BY <2>1, <2>2, <2>3 DEF Queued
  <2>5. QED
    BY <2>1, <2>4 DEF Queued
<1>2. QED
  BY <1>1, SenderFrameQueued

\* setup_each_flow's own rules, Teardown and RemoveOwnRules: the sender holds
\* no connection, so only its own record of what was acknowledged matters.
LEMMA LocalStepExchange ==
    ASSUME TypeOK, ExchangeInv, NEW s \in Senders,
           SetOwnRules(s) \/ Teardown(s) \/ RemoveOwnRules(s)
    PROVE  ExchangeInv'
<1>1. /\ pc[s] \in {"flow", "up", "cleanOwn"}
      /\ pc'[s] \in {"connect", "cleanOwn", "done"}
      /\ UNCHANGED <<link, req, reply, acked, npc, backlog, client, job, handle, table>>
  BY DEF SetOwnRules, Teardown, RemoveOwnRules, Goto, TypeOK, socketVars, nodeVars
<1>2. \A t \in Senders : t # s =>
         pc'[t] = pc[t] /\ type'[t] = type[t] /\ flow'[t] = flow[t] /\ srcs'[t] = srcs[t]
  BY DEF SetOwnRules, Teardown, RemoveOwnRules, Goto, TypeOK
<1>3. \A n \in Nodes : ~Waiting(s, n) /\ ~Lockstep(s, n)
  BY <1>1 DEF Waiting, Lockstep
<1>4. InTransit(s)'
  <2>1. InTransit(s) /\ req[s] \in {"none", "fwd", "dar"}
    BY DEF ExchangeInv, TypeOK
  <2>2. req[s] = "none"
    BY <1>1, <2>1 DEF InTransit
  <2>3. \A c \in acked[s] : c[2][1] \in Addrs(s)
    BY <2>1 DEF InTransit
  <2>4. QED
    BY <1>1, <2>2, <2>3 DEF InTransit
<1>5. QED
  BY <1>1, <1>2, <1>3, <1>4, SenderFrame

\* A dead sender's connections and claims stay as they were.
LEMMA KillSenderExchange ==
    ASSUME TypeOK, ExchangeInv, NEW s \in Senders, KillSender(s)
    PROVE  ExchangeInv'
<1>1. /\ UNCHANGED <<type, flow, srcs, link, req, reply, acked>>
      /\ UNCHANGED <<npc, backlog, client, job, table>>
  BY DEF KillSender, socketVars, nodeVars
<1>2. pc'[s] = "dead" /\ \A t \in Senders : t # s => pc'[t] = pc[t]
  BY DEF KillSender, Goto, TypeOK
<1>3. /\ HopOf(s)' = HopOf(s) /\ RuleOf(s)' = RuleOf(s)
      /\ SpecOf(s)' = SpecOf(s) /\ Claim(s)' = Claim(s)
  BY <1>1, SameSpec
<1>4. \A n \in Nodes : Waiting(s, n) => Waiting(s, n)'
  BY <1>1, <1>2, <1>3 DEF Waiting
<1>5. \A n \in Nodes : Lockstep(s, n) => Lockstep(s, n)'
  BY <1>1, <1>2, <1>3 DEF Lockstep
<1>6. InTransit(s)'
  <2>1. InTransit(s)
    BY DEF ExchangeInv
  <2>2. QED
    BY <1>1, <1>2, <1>3, <2>1 DEF InTransit
<1>7. QED
  BY <1>1, <1>2, <1>4, <1>5, <1>6, SenderFrame

\* The two receives of setup_overlay_node.
LEMMA AwaitForwardingAckExchange ==
    ASSUME TypeOK, ExchangeInv, NEW s \in Senders, AwaitForwardingAck(s)
    PROVE  ExchangeInv'
<1>1. /\ pc[s] = "fwdAck" /\ (reply[s] = "ack" \/ link[s] \in {"fin", "rst", "broken"})
      /\ UNCHANGED <<type, flow, srcs, own, acked, req>>
      /\ UNCHANGED <<npc, backlog, client, job, table>>
  BY DEF AwaitForwardingAck, nodeVars, AckRead, AckFailed
<1>2. /\ pc'[s] = "sendDar" /\ reply'[s] = "none"
      /\ link'[s] = link[s] \/ (link[s] = "rst" /\ link'[s] = "broken")
  BY DEF AwaitForwardingAck, TypeOK, Goto
<1>3. \A t \in Senders : t # s =>
         pc'[t] = pc[t] /\ reply'[t] = reply[t] /\ link'[t] = link[t]
  BY DEF AwaitForwardingAck, TypeOK, Goto
<1>4. /\ HopOf(s)' = HopOf(s) /\ RuleOf(s)' = RuleOf(s)
      /\ SpecOf(s)' = SpecOf(s) /\ Claim(s)' = Claim(s)
  BY <1>1, SameSpec
<1>5. \A n \in Nodes : ~Waiting(s, n)
  BY <1>1 DEF Waiting
<1>6. InTransit(s) /\ req[s] \in {"none", "fwd", "dar"}
  BY DEF ExchangeInv, TypeOK
<1>7. req[s] = "none"
  BY <1>1, <1>6 DEF InTransit
<1>8. \A n \in Nodes : Lockstep(s, n) => Lockstep(s, n)'
  BY <1>1, <1>2, <1>4, <1>7 DEF Lockstep
<1>9. InTransit(s)'
  <2>1. \A c \in acked[s] : c[2][1] \in Addrs(s)
    BY <1>6 DEF InTransit
  <2>2. QED
    BY <1>1, <1>2, <1>7, <2>1 DEF InTransit
<1>10. QED
  BY <1>1, <1>2, <1>3, <1>5, <1>8, <1>9, SenderFrame

\* The second one adds the claim: the rule is in the table by then.
LEMMA AwaitDarshanaAckExchange ==
    ASSUME TypeOK, ExchangeInv, NEW s \in Senders, AwaitDarshanaAck(s)
    PROVE  ExchangeInv'
<1>1. /\ pc[s] = "darAck" /\ (reply[s] = "ack" \/ link[s] \in {"fin", "rst", "broken"})
      /\ UNCHANGED <<type, srcs, own, req>>
      /\ UNCHANGED <<npc, backlog, client, job, table>>
  BY DEF AwaitDarshanaAck, nodeVars, AckRead, AckFailed
<1>2. /\ pc'[s] \in {"up", "cleanOwn", "flow", "connect"} /\ reply'[s] = "none"
      /\ link'[s] = "none"
      /\ \/ acked'[s] = acked[s]
         \/ reply[s] = "ack" /\ type[s] = "A" /\ acked'[s] = acked[s] \cup {Claim(s)}
  BY DEF AwaitDarshanaAck, TypeOK, Goto, AckRead
<1>3. \A t \in Senders : t # s =>
         /\ pc'[t] = pc[t] /\ reply'[t] = reply[t] /\ link'[t] = link[t]
         /\ flow'[t] = flow[t] /\ acked'[t] = acked[t]
  BY DEF AwaitDarshanaAck, TypeOK, Goto
<1>4. InTransit(s) /\ req[s] \in {"none", "fwd", "dar"}
  BY DEF ExchangeInv, TypeOK
<1>5. req[s] = "none"
  BY <1>1, <1>4 DEF InTransit
<1>6. \A n \in Nodes : ~Waiting(s, n) /\ ~Lockstep(s, n)
  <2>1. \A n \in Nodes : ~Waiting(s, n)
    BY <1>1 DEF Waiting
  <2>2. \A n \in Nodes : ~Lockstep(s, n)
    BY <1>1 DEF Lockstep
  <2>3. QED
    BY <2>1, <2>2
<1>7. \A c \in acked'[s] : c[2][1] \in Addrs(s)
  <2>1. Claim(s)[2][1] \in Addrs(s)
    BY SpecTypes DEF Claim
  <2>2. \A c \in acked[s] : c[2][1] \in Addrs(s)
    BY <1>4 DEF InTransit
  <2>3. QED
    BY <1>2, <2>1, <2>2
<1>8. \A c \in acked'[s] : c \in acked[s] \/ Contains(table[c[1]], c[2])
  <2>1. reply[s] = "ack" /\ type[s] = "A" => Contains(table[HopOf(s)], RuleOf(s))
    BY <1>1, <1>4 DEF InTransit
  <2>2. QED
    BY <1>2, <2>1 DEF Claim
<1>9. InTransit(s)'
  BY <1>1, <1>2, <1>5, <1>7 DEF InTransit
<1>10. QED
  BY <1>1, <1>2, <1>3, <1>6, <1>8, <1>9, SenderFrame

\* A connection that a node's kernel queues is the sender's only one.
LEMMA ConnectExchange ==
    ASSUME TypeOK, ExchangeInv, NEW s \in Senders, Connect(s)
    PROVE  ExchangeInv'
<1> DEFINE h == HopOf(s)
<1>1. /\ pc[s] = "connect"
      /\ UNCHANGED <<type, flow, srcs, acked>>
      /\ UNCHANGED <<npc, client, job, table>>
  BY DEF Connect
<1>2. /\ pc'[s] = "sendFwd" /\ req'[s] = "none" /\ reply'[s] = "none"
      /\ \A t \in Senders : t # s =>
           /\ pc'[t] = pc[t] /\ req'[t] = req[t] /\ reply'[t] = reply[t]
           /\ link'[t] = link[t]
  BY DEF Connect, Goto, TypeOK
<1>3. \/ backlog' = backlog
      \/ link'[s] = "queued" /\ backlog' = [backlog EXCEPT ![h] = Append(@, s)]
  BY DEF Connect, TypeOK
<1>4. /\ h \in Nodes
      /\ HopOf(s)' = h
  BY <1>1, SpecTypes, SameSpec
<1>5. \A n \in Nodes : ~Waiting(s, n) /\ ~Lockstep(s, n)
  BY <1>1 DEF Waiting, Lockstep
<1>6. InTransit(s)'
  <2>1. \A c \in acked[s] : c[2][1] \in Addrs(s)
    BY DEF ExchangeInv, InTransit
  <2>2. QED
    BY <1>1, <1>2, <2>1 DEF InTransit
<1>7. CASE backlog' = backlog
  BY <1>1, <1>2, <1>5, <1>6, <1>7, SenderFrame
<1>8. CASE link'[s] = "queued" /\ backlog' = [backlog EXCEPT ![h] = Append(@, s)]
  <2>1. ASSUME NEW n \in Nodes PROVE Queued(n)'
    <3>1. Queued(n) /\ backlog[n] \in Seq(Senders)
      BY DEF ExchangeInv, TypeOK
    <3>2. \A i \in 1 .. Len(backlog[n]) :
             backlog[n][i] \in Senders /\ backlog[n][i] # s /\ Waiting(backlog[n][i], n)
      BY <3>1, <1>5 DEF Queued
    <3>3. \A t \in Senders : t # s /\ Waiting(t, n) => Waiting(t, n)'
      <4>1. ASSUME NEW t \in Senders, t # s PROVE Waiting(t, n) => Waiting(t, n)'
        BY <1>1, <1>2, <4>1, SameSender
      <4>2. QED
        BY <4>1
    <3>4. \A t \in Senders, i \in 1 .. Len(backlog[n]) : t = backlog[n][i] => Waiting(t, n)'
      BY <3>2, <3>3
    <3>5. CASE n # h
      <4>1. backlog'[n] = backlog[n]
        BY <1>4, <1>8, <3>5 DEF TypeOK
      <4>2. QED
        BY <3>1, <3>2, <3>4, <4>1 DEF Queued, Waiting
    <3>6. CASE n = h
      <4>1. backlog'[n] = Append(backlog[n], s)
        BY <1>4, <1>8, <3>6 DEF TypeOK
      <4>2. /\ Len(backlog'[n]) = Len(backlog[n]) + 1
            /\ backlog'[n][Len(backlog[n]) + 1] = s
            /\ \A i \in 1 .. Len(backlog[n]) : backlog'[n][i] = backlog[n][i]
        BY <3>1, <4>1
      <4>3. Waiting(s, n)'
        BY <1>2, <1>4, <1>8, <3>6 DEF Waiting
      <4>4. Len(backlog[n]) \in Nat
        BY <3>1
      <4>5. \A t \in Senders, i \in 1 .. Len(backlog'[n]) :
               t = backlog'[n][i] => Waiting(t, n)'
        <5>1. SUFFICES ASSUME NEW t \in Senders, NEW i \in 1 .. Len(backlog'[n]),
                              t = backlog'[n][i]
                       PROVE  Waiting(t, n)'
          OBVIOUS
        <5>2. CASE i = Len(backlog[n]) + 1
          BY <5>1, <5>2, <4>2, <4>3
        <5>3. CASE i \in 1 .. Len(backlog[n])
          BY <5>1, <5>3, <4>2, <3>4
        <5>4. QED
          BY <5>2, <5>3, <4>2, <4>4
      <4>6. \A i, j \in 1 .. Len(backlog'[n]) : backlog'[n][i] = backlog'[n][j] => i = j
        <5>1. SUFFICES ASSUME NEW i \in 1 .. Len(backlog'[n]), NEW j \in 1 .. Len(backlog'[n]),
                              backlog'[n][i] = backlog'[n][j]
                       PROVE  i = j
          OBVIOUS
        <5>2. /\ i = Len(backlog[n]) + 1 \/ i \in 1 .. Len(backlog[n])
              /\ j = Len(backlog[n]) + 1 \/ j \in 1 .. Len(backlog[n])
          BY <4>2, <4>4
        <5>3. CASE i \in 1 .. Len(backlog[n]) /\ j \in 1 .. Len(backlog[n])
          <6>1. backlog[n][i] = backlog[n][j]
            BY <5>1, <5>3, <4>2
          <6>2. QED
            BY <3>1, <5>3, <6>1 DEF Queued
        <5>4. CASE i = Len(backlog[n]) + 1 /\ j \in 1 .. Len(backlog[n])
          BY <3>2, <4>2, <5>1, <5>4
        <5>5. CASE j = Len(backlog[n]) + 1 /\ i \in 1 .. Len(backlog[n])
          BY <3>2, <4>2, <5>1, <5>5
        <5>6. QED
          BY <5>2, <5>3, <5>4, <5>5
      <4>7. \A i \in 1 .. Len(backlog'[n]) : backlog'[n][i] \in Senders
        BY <3>2, <4>2, <4>4
      <4>8. QED
        BY <4>5, <4>6, <4>7 DEF Queued, Waiting
    <3>7. QED
      BY <3>5, <3>6
  <2>2. QED
    BY <1>1, <1>2, <1>5, <1>6, <2>1, SenderFrameQueued
<1>9. QED
  BY <1>3, <1>7, <1>8

\* Both sends: a spec to be deleted is given up before it can be read.
LEMMA SendExchange ==
    ASSUME TypeOK, ExchangeInv, NEW s \in Senders,
           SendForwardingSpec(s) \/ SendDarshanaSpec(s)
    PROVE  ExchangeInv'
<1>1. /\ UNCHANGED <<type, flow, srcs, reply>>
      /\ UNCHANGED <<npc, backlog, client, job, table>>
  BY DEF SendForwardingSpec, SendDarshanaSpec, nodeVars
<1>2. \A t \in Senders : t # s =>
         /\ pc'[t] = pc[t] /\ req'[t] = req[t] /\ link'[t] = link[t]
         /\ acked'[t] = acked[t]
  BY DEF SendForwardingSpec, SendDarshanaSpec, Send, Goto, TypeOK
<1>3. \/ /\ pc[s] = "sendFwd"
         /\ acked'[s] = IF type[s] = "D" THEN acked[s] \ {Claim(s)} ELSE acked[s]
         /\ \/ pc'[s] = "fwdAck" /\ req'[s] = "fwd" /\ link'[s] = link[s]
               /\ link[s] \in {"queued", "served"}
            \/ /\ pc'[s] \in {"fwdAck", "dead"} /\ req'[s] = req[s]
               /\ link[s] \notin {"queued", "served"}
               /\ link'[s] \notin {"queued", "served"}
      \/ /\ pc[s] = "sendDar"
         /\ acked'[s] = acked[s]
         /\ \/ pc'[s] = "darAck" /\ req'[s] = "dar" /\ link'[s] = link[s]
               /\ link[s] \in {"queued", "served"}
            \/ /\ pc'[s] \in {"darAck", "dead"} /\ req'[s] = req[s]
               /\ link[s] \notin {"queued", "served"}
               /\ link'[s] \notin {"queued", "served"}
  BY DEF SendForwardingSpec, SendDarshanaSpec, Send, Goto, TypeOK
<1>4. /\ HopOf(s)' = HopOf(s) /\ RuleOf(s)' = RuleOf(s)
      /\ SpecOf(s)' = SpecOf(s) /\ Claim(s)' = Claim(s)
  BY <1>1, SameSpec
<1>5. /\ req[s] = "none" /\ reply[s] = "none"
      /\ \A c \in acked[s] : c[2][1] \in Addrs(s)
  <2>1. InTransit(s)
    BY DEF ExchangeInv
  <2>2. QED
    BY <1>3, <2>1 DEF InTransit
<1>6. \A n \in Nodes : Waiting(s, n) => Waiting(s, n)'
  BY <1>1, <1>3, <1>4, <1>5 DEF Waiting
<1>7. \A n \in Nodes : Lockstep(s, n) => Lockstep(s, n)'
  BY <1>1, <1>3, <1>4, <1>5 DEF Lockstep
<1>8. InTransit(s)'
  <2>1. \A c \in acked'[s] : c[2][1] \in Addrs(s)
    BY <1>3, <1>5
  <2>2. QED
    BY <1>1, <1>3, <1>4, <1>5, <2>1 DEF InTransit
<1>9. \A c \in acked'[s] : c \in acked[s]
  BY <1>3
<1>10. QED
  BY <1>1, <1>2, <1>6, <1>7, <1>8, <1>9, SenderFrame

\* What is left to show of a step of node n that leaves the senders' threads
\* alone: every other node keeps its backlog, its client and its table.
LEMMA NodeFrame ==
    ASSUME TypeOK, ExchangeInv, NEW n \in Nodes,
           UNCHANGED <<pc, type, flow, srcs, acked>>,
           \A m \in Nodes : m # n =>
              /\ npc'[m] = npc[m] /\ backlog'[m] = backlog[m] /\ client'[m] = client[m]
              /\ job'[m] = job[m] /\ table'[m] = table[m],
           \A t \in Senders : HopOf(t) # n =>
              link'[t] = link[t] /\ req'[t] = req[t] /\ reply'[t] = reply[t],
           Queued(n)', Served(n)',
           \A t \in Senders : InTransit(t)',
           AckedInstalled'
    PROVE  ExchangeInv'
<1>1. ASSUME NEW m \in Nodes, m # n, NEW t \in Senders
      PROVE  (Waiting(t, m) => Waiting(t, m)') /\ (Lockstep(t, m) => Lockstep(t, m)')
  <2>1. CASE HopOf(t) = n
    <3>1. ~Waiting(t, m) /\ ~Lockstep(t, m)
      BY <1>1, <2>1 DEF Waiting, Lockstep
    <3>2. QED
      BY <3>1
  <2>2. CASE HopOf(t) # n
    BY <1>1, <2>2, SameSender
  <2>3. QED
    BY <2>1, <2>2
<1>2. ASSUME NEW m \in Nodes, m # n PROVE Queued(m)'
  <2>1. Queued(m) /\ backlog[m] \in Seq(Senders) /\ backlog'[m] = backlog[m]
    BY <1>2 DEF ExchangeInv, TypeOK
  <2>2. \A i \in 1 .. Len(backlog[m]) : backlog[m][i] \in Senders
    BY <2>1
  <2>3. \A t \in Senders, i \in 1 .. Len(backlog[m]) : t = backlog[m][i] => Waiting(t, m)'
    BY <2>1, <1>1, <1>2 DEF Queued
  <2>4. QED
    BY <2>1, <2>2, <2>3 DEF Queued, Waiting
<1>3. ASSUME NEW m \in Nodes, m # n PROVE Served(m)'
  <2>1. /\ Served(m) /\ client[m] \in Senders /\ client'[m] = client[m]
        /\ npc'[m] = npc[m]
    BY <1>3 DEF ExchangeInv, TypeOK
  <2>2. ASSUME NEW t \in Senders, t = client[m], Lockstep(t, m) PROVE Lockstep(t, m)'
    BY <2>2, <1>1, <1>3
  <2>3. CASE npc[m] \in {"fwdRecv", "fwdApply", "darRecv"}
    <3>1. PICK t \in Senders : t = client[m]
      BY <2>1
    <3>2. Lockstep(t, m)'
      BY <2>1, <2>2, <2>3, <3>1 DEF Served
    <3>3. QED
      BY <2>1, <3>1, <3>2 DEF Served, Lockstep, SpecOf, Claim, RuleOf, HopOf
  <2>4. QED
    BY <2>1, <2>3 DEF Served
<1>4. QED
  BY <1>2, <1>3 DEF ExchangeInv

\* The end of a node's process cuts only connections to that node.
LEMMA NodeDiesExchange ==
    ASSUME TypeOK, ExchangeInv, NEW n \in Nodes, NodeDies(n), UNCHANGED senderVars
    PROVE  ExchangeInv'
<1>1. /\ UNCHANGED <<pc, type, flow, srcs, acked>>
      /\ UNCHANGED <<reply, client, job, table>>
  BY DEF NodeDies, senderVars
<1>2. /\ npc' = [npc EXCEPT ![n] = "down"]
      /\ backlog' = [backlog EXCEPT ![n] = <<>>]
  BY DEF NodeDies, GotoN
<1>3. /\ npc'[n] = "down" /\ backlog'[n] = <<>>
      /\ \A m \in Nodes : m # n => npc'[m] = npc[m] /\ backlog'[m] = backlog[m]
  BY <1>2 DEF TypeOK
<1>4. \A t \in Senders :
         \/ link'[t] \in {"rst", "fin"} /\ req'[t] = "none" /\ HopOf(t) = n
         \/ link'[t] = link[t] /\ req'[t] = req[t]
  <2>1. SUFFICES ASSUME NEW t \in Senders
                 PROVE \/ link'[t] \in {"rst", "fin"} /\ req'[t] = "none" /\ HopOf(t) = n
                       \/ link'[t] = link[t] /\ req'[t] = req[t]
    OBVIOUS
  <2>2. Queued(n)
    BY DEF ExchangeInv
  <2>3. Contains(backlog[n], t) => HopOf(t) = n
    BY <2>2 DEF Queued, Waiting, Contains
  <2>4. QED
    BY <2>3 DEF NodeDies, Serves
<1>5. Queued(n)' /\ Served(n)'
  BY <1>3 DEF Queued, Served
<1>6. ASSUME NEW t \in Senders PROVE InTransit(t)'
  <2>1. InTransit(t)
    BY DEF ExchangeInv
  <2>2. HopOf(t)' = HopOf(t) /\ RuleOf(t)' = RuleOf(t) /\ Claim(t)' = Claim(t)
    BY <1>1, SameSpec
  <2>3. QED
    BY <1>1, <1>4, <2>1, <2>2 DEF InTransit
<1>7. AckedInstalled'
  BY <1>1 DEF ExchangeInv, AckedInstalled
<1>8. QED
  BY <1>1, <1>3, <1>4, <1>5, <1>6, <1>7, NodeFrame

\* accept() turns the oldest waiting connection into the served one.
LEMMA AcceptExchange ==
    ASSUME TypeOK, ExchangeInv, NEW n \in Nodes, Accept(n)
    PROVE  ExchangeInv'
<1>1. /\ UNCHANGED <<pc, type, flow, srcs, acked>>
      /\ UNCHANGED <<req, reply, job, table>>
  BY DEF Accept, senderVars
<1>2. /\ backlog[n] \in Seq(Senders) /\ backlog[n] # <<>> /\ Queued(n)
      /\ 1 \in 1 .. Len(backlog[n]) /\ Head(backlog[n]) = backlog[n][1]
  BY DEF Accept, ExchangeInv, TypeOK
<1>3. PICK s \in Senders : s = Head(backlog[n]) /\ s = backlog[n][1]
  BY <1>2
<1>4. /\ client'[n] = s /\ npc'[n] = "fwdRecv" /\ backlog'[n] = Tail(backlog[n])
      /\ link'[s] = "served"
      /\ \A t \in Senders : t # s => link'[t] = link[t]
      /\ \A m \in Nodes : m # n =>
            npc'[m] = npc[m] /\ backlog'[m] = backlog[m] /\ client'[m] = client[m]
  BY <1>3 DEF Accept, GotoN, TypeOK
<1>5. Waiting(s, n) /\ HopOf(s) = n
  BY <1>2, <1>3 DEF Queued, Waiting
<1>6. \A t \in Senders : /\ HopOf(t)' = HopOf(t) /\ RuleOf(t)' = RuleOf(t)
                        /\ SpecOf(t)' = SpecOf(t) /\ Claim(t)' = Claim(t)
  BY <1>1, SameSpec
<1>7. Queued(n)'
  <2>1. /\ Len(backlog'[n]) = Len(backlog[n]) - 1 /\ Len(backlog[n]) \in Nat
        /\ \A i \in 1 .. Len(backlog[n]) - 1 : backlog'[n][i] = backlog[n][i + 1]
    BY <1>2, <1>4
  <2>2. \A i \in 1 .. Len(backlog'[n]) :
           /\ i + 1 \in 1 .. Len(backlog[n]) /\ i + 1 # 1
           /\ backlog'[n][i] = backlog[n][i + 1]
    BY <1>2, <2>1
  <2>3. \A i \in 1 .. Len(backlog[n]) :
           /\ backlog[n][i] \in Senders /\ Waiting(backlog[n][i], n)
           /\ i # 1 => backlog[n][i] # s
    BY <1>2, <1>3 DEF Queued
  <2>4. \A t \in Senders : t # s /\ Waiting(t, n) => Waiting(t, n)'
    <3>1. ASSUME NEW t \in Senders, t # s, Waiting(t, n) PROVE Waiting(t, n)'
      BY <3>1, <1>1, <1>4, SameSender
    <3>2. QED
      BY <3>1
  <2>5. \A t \in Senders, i \in 1 .. Len(backlog'[n]) : t = backlog'[n][i] => Waiting(t, n)'
    <3>1. SUFFICES ASSUME NEW t \in Senders, NEW i \in 1 .. Len(backlog'[n]),
                          t = backlog'[n][i]
                   PROVE  Waiting(t, n)'
      OBVIOUS
    <3>2. t # s /\ Waiting(t, n)
      BY <3>1, <2>2, <2>3
    <3>3. QED
      BY <3>2, <2>4
  <2>6. \A i, j \in 1 .. Len(backlog'[n]) : backlog'[n][i] = backlog'[n][j] => i = j
    BY <1>2, <2>1 DEF Queued
  <2>7. \A i \in 1 .. Len(backlog'[n]) : backlog'[n][i] \in Senders
    BY <2>2, <2>3
  <2>8. QED
    BY <2>5, <2>6, <2>7 DEF Queued, Waiting
<1>8. Served(n)'
  <2>1. /\ pc'[s] \in {"sendFwd", "fwdAck", "dead"}
        /\ req'[s] \in {"none", "fwd"} /\ reply'[s] = "none"
    BY <1>1, <1>5 DEF Waiting
  <2>2. Lockstep(s, n)'
    BY <1>4, <1>5, <1>6, <2>1 DEF Lockstep
  <2>3. QED
    BY <1>4, <2>2 DEF Served, Lockstep, SpecOf, Claim, RuleOf, HopOf
<1>9. ASSUME NEW t \in Senders PROVE InTransit(t)'
  <2>1. InTransit(t)
    BY DEF ExchangeInv
  <2>2. link[t] \in {"queued", "served"} \/ link'[t] = link[t]
    BY <1>4, <1>5 DEF Waiting
  <2>3. link'[t] = link[t] \/ link'[t] = "served"
    BY <1>4
  <2>4. QED
    BY <1>1, <1>6, <2>1, <2>2, <2>3 DEF InTransit
<1>10. AckedInstalled'
  BY <1>1 DEF ExchangeInv, AckedInstalled
<1>11. \A t \in Senders : HopOf(t) # n =>
              link'[t] = link[t] /\ req'[t] = req[t] /\ reply'[t] = reply[t]
  BY <1>1, <1>4, <1>5
<1>12. QED
  BY <1>1, <1>4, <1>7, <1>8, <1>9, <1>10, <1>11, NodeFrame

\* Both receives of a node: the spec leaves the channel as its echo enters it.
LEMMA RecvExchange ==
    ASSUME TypeOK, ExchangeInv, NEW n \in Nodes,
           ReceiveForwardingSpec(n) \/ ReceiveDarshanaSpec(n)
    PROVE  ExchangeInv'
<1>1. PICK s \in Senders : s = client[n]
  BY DEF TypeOK
<1>2. CASE NodeDies(n)
  <2>1. UNCHANGED senderVars
    BY DEF ReceiveForwardingSpec, ReceiveDarshanaSpec
  <2>2. QED
    BY <1>2, <2>1, NodeDiesExchange
<1>3. CASE ~NodeDies(n)
  <2>1. /\ UNCHANGED <<pc, type, flow, srcs, acked>>
        /\ UNCHANGED <<link, backlog, client, table>>
    BY <1>3 DEF ReceiveForwardingSpec, ReceiveDarshanaSpec, RecvSpec, senderVars
  <2>2. \E m \in {"fwd", "dar"} :
           /\ req[s] = m
           /\ npc[n] = IF m = "fwd" THEN "fwdRecv" ELSE "darRecv"
           /\ npc' = [npc EXCEPT ![n] = IF m = "fwd" THEN "fwdApply" ELSE "darApply"]
           /\ req' = [req EXCEPT ![s] = "none"] /\ reply' = [reply EXCEPT ![s] = "ack"]
           /\ job' = [job EXCEPT ![n] = SpecOf(s)]
    BY <1>1, <1>3 DEF ReceiveForwardingSpec, ReceiveDarshanaSpec, RecvSpec, GotoN
  <2>3. /\ req'[s] = "none" /\ reply'[s] = "ack" /\ job'[n] = SpecOf(s)
        /\ \/ req[s] = "fwd" /\ npc[n] = "fwdRecv" /\ npc'[n] = "fwdApply"
           \/ req[s] = "dar" /\ npc[n] = "darRecv" /\ npc'[n] = "darApply"
        /\ \A t \in Senders : t # s => req'[t] = req[t] /\ reply'[t] = reply[t]
        /\ \A m \in Nodes : m # n => npc'[m] = npc[m] /\ job'[m] = job[m]
    BY <2>2 DEF TypeOK
  <2>4. Lockstep(s, n) /\ InTransit(s)
    BY <1>1, <2>3 DEF ExchangeInv, Served
  <2>5. HopOf(s) = n /\ link[s] = "served"
    BY <2>4 DEF Lockstep
  <2>6. \A t \in Senders : /\ HopOf(t)' = HopOf(t) /\ RuleOf(t)' = RuleOf(t)
                          /\ SpecOf(t)' = SpecOf(t) /\ Claim(t)' = Claim(t)
    BY <2>1, SameSpec
  <2>7. Queued(n)'
    <3>1. /\ Queued(n) /\ backlog[n] \in Seq(Senders) /\ backlog'[n] = backlog[n]
          /\ \A i \in 1 .. Len(backlog[n]) : backlog[n][i] \in Senders
      BY <2>1 DEF ExchangeInv, TypeOK
    <3>2. ~Waiting(s, n)
      BY <2>5 DEF Waiting
    <3>3. ASSUME NEW t \in Senders, NEW i \in 1 .. Len(backlog[n]), t = backlog[n][i]
          PROVE  Waiting(t, n)'
      <4>1. Waiting(t, n) /\ t # s
        BY <3>1, <3>2, <3>3 DEF Queued
      <4>2. QED
        BY <4>1, <2>1, <2>3, SameSender
    <3>4. QED
      BY <3>1, <3>3 DEF Queued, Waiting
  <2>8. Served(n)'
    <3>1. CASE npc'[n] = "darApply"
      BY <3>1 DEF Served
    <3>2. CASE req[s] = "fwd" /\ npc[n] = "fwdRecv" /\ npc'[n] = "fwdApply"
      <4>1. pc[s] \in {"fwdAck", "dead"} /\ (type[s] = "D" => Claim(s) \notin acked[s])
        BY <2>4, <3>2 DEF InTransit
      <4>2. Lockstep(s, n)'
        BY <2>1, <2>3, <2>5, <2>6, <3>2, <4>1 DEF Lockstep
      <4>3. QED
        BY <1>1, <2>1, <3>2, <4>2 DEF Served, Lockstep, SpecOf, Claim, RuleOf, HopOf
    <3>3. QED
      BY <2>3, <3>1, <3>2
  <2>9. ASSUME NEW t \in Senders PROVE InTransit(t)'
    <3>1. InTransit(t)
      BY DEF ExchangeInv
    <3>2. CASE t # s
      BY <2>1, <2>3, <2>6, <3>1, <3>2 DEF InTransit
    <3>3. CASE t = s
      <4>1. pc[s] \in {"fwdAck", "darAck", "dead"}
        BY <2>3, <2>4 DEF InTransit
      <4>2. pc[s] = "darAck" /\ type[s] = "A" => Contains(table[n], RuleOf(s))
        BY <2>3, <2>4 DEF Lockstep
      <4>3. \A c \in acked[s] : c[2][1] \in Addrs(s)
        BY <2>4 DEF InTransit
      <4>4. QED
        BY <2>1, <2>3, <2>5, <2>6, <3>3, <4>1, <4>2, <4>3 DEF InTransit
    <3>4. QED
      BY <3>2, <3>3
  <2>10. AckedInstalled'
    BY <2>1 DEF ExchangeInv, AckedInstalled
  <2>11. QED
    BY <2>1, <2>3, <2>5, <2>7, <2>8, <2>9, <2>10, NodeFrame
<1>4. QED
  BY <1>2, <1>3

\* forwardPaths and removeRules: a pair that leaves the table belongs to the
\* sender being served, who gave it up before it sent the spec.
LEMMA ApplyForwardingExchange ==
    ASSUME TypeOK, ExchangeInv, NEW n \in Nodes, ApplyForwardingSpec(n)
    PROVE  ExchangeInv'
<1>1. PICK s \in Senders : s = client[n]
  BY DEF TypeOK
<1>2. /\ UNCHANGED <<pc, type, flow, srcs, acked>>
      /\ UNCHANGED <<link, req, reply, backlog, client, job>>
  BY DEF ApplyForwardingSpec, senderVars, socketVars
<1>3. Lockstep(s, n) /\ npc[n] = "fwdApply"
  BY <1>1 DEF ApplyForwardingSpec, ExchangeInv, Served
<1>4. /\ HopOf(s) = n /\ link[s] = "served"
      /\ job[n].type = type[s] /\ job[n].rule = RuleOf(s)
      /\ type[s] = "D" => Claim(s) \notin acked[s]
  BY <1>3 DEF Lockstep, SpecOf
<1>5. /\ npc'[n] = "darRecv"
      /\ table'[n] = IF type[s] = "A" THEN Append(table[n], RuleOf(s))
                                      ELSE RemoveFirst(table[n], RuleOf(s))
      /\ \A m \in Nodes : m # n => npc'[m] = npc[m] /\ table'[m] = table[m]
  BY <1>4 DEF ApplyForwardingSpec, GotoN, TypeOK
<1>6. table[n] \in Seq(Rules) /\ RuleOf(s) \in Rules /\ RuleOf(s)[1] \in Addrs(s)
  BY SpecTypes DEF TypeOK
<1>7. type[s] = "A" => Contains(table'[n], RuleOf(s))
  <2>1. /\ Len(Append(table[n], RuleOf(s))) = Len(table[n]) + 1 /\ Len(table[n]) \in Nat
        /\ Append(table[n], RuleOf(s))[Len(table[n]) + 1] = RuleOf(s)
    BY <1>6
  <2>2. QED
    BY <1>5, <2>1 DEF Contains
<1>8. \A r : Contains(table[n], r) /\ (type[s] = "A" \/ r # RuleOf(s)) => Contains(table'[n], r)
  <2>1. CASE type[s] = "A"
    <3>1. /\ Len(Append(table[n], RuleOf(s))) = Len(table[n]) + 1 /\ Len(table[n]) \in Nat
          /\ \A i \in 1 .. Len(table[n]) : Append(table[n], RuleOf(s))[i] = table[n][i]
      BY <1>6
    <3>2. \A i \in 1 .. Len(table[n]) : i \in 1 .. Len(table'[n]) /\ table'[n][i] = table[n][i]
      BY <1>5, <2>1, <3>1
    <3>3. QED
      BY <3>2 DEF Contains
  <2>2. CASE type[s] # "A"
    BY <1>5, <1>6, <2>2, RemoveFirstIn
  <2>3. QED
    BY <2>1, <2>2
<1>9. \A t \in Senders : /\ HopOf(t)' = HopOf(t) /\ RuleOf(t)' = RuleOf(t)
                        /\ SpecOf(t)' = SpecOf(t) /\ Claim(t)' = Claim(t)
  BY <1>2, SameSpec
<1>10. \A t \in Senders : InTransit(t)
  BY DEF ExchangeInv
<1>11. Queued(n)'
  <2>1. /\ Queued(n) /\ backlog[n] \in Seq(Senders) /\ backlog'[n] = backlog[n]
        /\ \A i \in 1 .. Len(backlog[n]) : backlog[n][i] \in Senders
    BY <1>2 DEF ExchangeInv, TypeOK
  <2>2. ASSUME NEW t \in Senders, NEW i \in 1 .. Len(backlog[n]), t = backlog[n][i]
        PROVE  Waiting(t, n)'
    <3>1. Waiting(t, n)
      BY <2>1, <2>2 DEF Queued
    <3>2. QED
      BY <3>1, <1>2, SameSender
  <2>3. QED
    BY <2>1, <2>2 DEF Queued, Waiting
<1>12. Served(n)'
  <2>1. Lockstep(s, n)'
    <3>1. /\ pc[s] \in {"fwdAck", "sendDar", "darAck", "dead"}
          /\ req[s] \in {"none", "dar"} /\ (pc[s] = "darAck" => reply[s] = "none")
      BY <1>3 DEF Lockstep
    <3>2. QED
      BY <1>2, <1>4, <1>5, <1>7, <1>9, <3>1 DEF Lockstep
  <2>2. QED
    BY <1>1, <1>2, <2>1 DEF Served, Lockstep, SpecOf, Claim, RuleOf, HopOf
<1>13. ASSUME NEW t \in Senders PROVE InTransit(t)'
  <2>1. ASSUME pc[t] = "darAck", reply[t] = "ack", type[t] = "A"
        PROVE  Contains(table'[HopOf(t)], RuleOf(t))
    <3>1. Contains(table[HopOf(t)], RuleOf(t)) /\ HopOf(t) \in Nodes
      BY <1>10, <2>1, SpecTypes DEF InTransit
    <3>2. CASE HopOf(t) # n
      BY <1>5, <3>1, <3>2
    <3>3. CASE HopOf(t) = n /\ t = s
      BY <1>8, <2>1, <3>1, <3>3
    <3>4. CASE HopOf(t) = n /\ t # s
      <4>1. RuleOf(t) # RuleOf(s)
        BY <1>6, <3>4, SpecTypes, AddrAssumption
      <4>2. QED
        BY <1>8, <3>1, <3>4, <4>1
    <3>5. QED
      BY <3>2, <3>3, <3>4
  <2>2. InTransit(t)
    BY <1>10
  <2>3. QED
    BY <1>2, <1>9, <2>1, <2>2 DEF InTransit
<1>14. AckedInstalled'
  <2>1. ASSUME NEW t \in Senders, NEW c \in acked[t] PROVE Contains(table'[c[1]], c[2])
    <3>1. /\ Contains(table[c[1]], c[2]) /\ c \in Nodes \X Rules
          /\ c[1] \in Nodes /\ c = <<c[1], c[2]>>
      BY <2>1 DEF ExchangeInv, AckedInstalled, TypeOK
    <3>2. CASE c[1] # n
      BY <1>5, <3>1, <3>2
    <3>3. CASE c[1] = n /\ t = s
      <4>1. type[s] = "A" \/ c[2] # RuleOf(s)
        <5>1. type[s] \in {"A", "D"}
          BY DEF TypeOK
        <5>2. c[2] = RuleOf(s) => c = Claim(s)
          BY <1>4, <3>1, <3>3 DEF Claim
        <5>3. QED
          BY <1>4, <2>1, <3>3, <5>1, <5>2
      <4>2. QED
        BY <1>8, <3>1, <3>3, <4>1
    <3>4. CASE c[1] = n /\ t # s
      <4>1. c[2][1] \in Addrs(t)
        BY <1>10, <2>1 DEF InTransit
      <4>2. c[2] # RuleOf(s)
        BY <1>6, <3>4, <4>1, AddrAssumption
      <4>3. QED
        BY <1>8, <3>1, <3>4, <4>2
    <3>5. QED
      BY <3>2, <3>3, <3>4
  <2>2. QED
    BY <1>2, <2>1 DEF AckedInstalled
<1>15. QED
  BY <1>2, <1>5, <1>11, <1>12, <1>13, <1>14, NodeFrame

\* A node that goes on to accept has left the exchange it was in.
LEMMA BackToAcceptExchange ==
    ASSUME TypeOK, ExchangeInv, NEW n \in Nodes,
           ApplyDarshanaSpec(n) \/ StartNode(n)
    PROVE  ExchangeInv'
<1>1. CASE NodeDies(n) /\ UNCHANGED senderVars
  BY <1>1, NodeDiesExchange
<1>2. CASE ~(NodeDies(n) /\ UNCHANGED senderVars)
  <2>1. /\ UNCHANGED <<pc, type, flow, srcs, acked>>
        /\ UNCHANGED <<link, req, reply, backlog, client, job, table>>
        /\ npc' = [npc EXCEPT ![n] = "accept"]
    BY <1>2 DEF ApplyDarshanaSpec, StartNode, GotoN, senderVars, socketVars
  <2>2. npc'[n] = "accept" /\ \A m \in Nodes : m # n => npc'[m] = npc[m]
    BY <2>1 DEF TypeOK
  <2>3. \A t \in Senders : /\ HopOf(t)' = HopOf(t) /\ RuleOf(t)' = RuleOf(t)
                          /\ Claim(t)' = Claim(t)
    BY <2>1, SameSpec
  <2>4. Queued(n)'
    <3>1. /\ Queued(n) /\ backlog[n] \in Seq(Senders) /\ backlog'[n] = backlog[n]
          /\ \A i \in 1 .. Len(backlog[n]) : backlog[n][i] \in Senders
      BY <2>1 DEF ExchangeInv, TypeOK
    <3>2. ASSUME NEW t \in Senders, NEW i \in 1 .. Len(backlog[n]), t = backlog[n][i]
          PROVE  Waiting(t, n)'
      <4>1. Waiting(t, n)
        BY <3>1, <3>2 DEF Queued
      <4>2. QED
        BY <4>1, <2>1, SameSender
    <3>3. QED
      BY <3>1, <3>2 DEF Queued, Waiting
  <2>5. Served(n)'
    BY <2>2 DEF Served
  <2>6. ASSUME NEW t \in Senders PROVE InTransit(t)'
    <3>1. InTransit(t)
      BY DEF ExchangeInv
    <3>2. QED
      BY <2>1, <2>3, <3>1 DEF InTransit
  <2>7. AckedInstalled'
    BY <2>1 DEF ExchangeInv, AckedInstalled
  <2>8. QED
    BY <2>1, <2>2, <2>4, <2>5, <2>6, <2>7, NodeFrame
<1>3. QED
  BY <1>1, <1>2

\* No process has sent anything.
LEMMA ExchangeInit == Init => ExchangeInv
<1> SUFFICES ASSUME Init PROVE ExchangeInv
  OBVIOUS
<1>1. ASSUME NEW n \in Nodes PROVE Queued(n) /\ Served(n)
  BY DEF Init, Queued, Served
<1>2. ASSUME NEW s \in Senders PROVE InTransit(s)
  BY DEF Init, InTransit
<1>3. AckedInstalled
  BY DEF Init, AckedInstalled
<1>4. QED
  BY <1>1, <1>2, <1>3 DEF ExchangeInv

\* Every step keeps the exchange invariant.
LEMMA ExchangeNext == TypeOK /\ ExchangeInv /\ [Next]_vars => ExchangeInv'
<1> SUFFICES ASSUME TypeOK, ExchangeInv, [Next]_vars PROVE ExchangeInv'
  OBVIOUS
<1>1. ASSUME NEW s \in Senders, SetOwnRules(s) \/ Teardown(s) \/ RemoveOwnRules(s)
      PROVE  ExchangeInv'
  BY <1>1, LocalStepExchange
<1>2. ASSUME NEW s \in Senders, Connect(s) PROVE ExchangeInv'
  BY <1>2, ConnectExchange
<1>3. ASSUME NEW s \in Senders, SendForwardingSpec(s) \/ SendDarshanaSpec(s)
      PROVE  ExchangeInv'
  BY <1>3, SendExchange
<1>4. ASSUME NEW s \in Senders, AwaitForwardingAck(s) PROVE ExchangeInv'
  BY <1>4, AwaitForwardingAckExchange
<1>5. ASSUME NEW s \in Senders, AwaitDarshanaAck(s) PROVE ExchangeInv'
  BY <1>5, AwaitDarshanaAckExchange
<1>6. ASSUME NEW s \in Senders, KillSender(s) PROVE ExchangeInv'
  BY <1>6, KillSenderExchange
<1>7. ASSUME NEW n \in Nodes, Accept(n) PROVE ExchangeInv'
  BY <1>7, AcceptExchange
<1>8. ASSUME NEW n \in Nodes, ReceiveForwardingSpec(n) \/ ReceiveDarshanaSpec(n)
      PROVE  ExchangeInv'
  BY <1>8, RecvExchange
<1>9. ASSUME NEW n \in Nodes, ApplyForwardingSpec(n) PROVE ExchangeInv'
  BY <1>9, ApplyForwardingExchange
<1>10. ASSUME NEW n \in Nodes, ApplyDarshanaSpec(n) \/ StartNode(n) PROVE ExchangeInv'
  BY <1>10, BackToAcceptExchange
<1>11. ASSUME NEW n \in Nodes, KillNode(n) PROVE ExchangeInv'
  BY <1>11, NodeDiesExchange DEF KillNode
<1>12. CASE UNCHANGED vars
  <2>1. /\ UNCHANGED <<pc, type, flow, srcs, link, req, reply, acked>>
        /\ UNCHANGED <<npc, backlog, client, job, table>>
    BY <1>12 DEF vars, senderVars, socketVars, nodeVars
  <2>2. PICK s \in Senders : TRUE
    BY SizeAssumption
  <2>3. \A n \in Nodes : Waiting(s, n) => Waiting(s, n)'
    BY <2>1, SameSender
  <2>4. \A n \in Nodes : Lockstep(s, n) => Lockstep(s, n)'
    BY <2>1, SameSender
  <2>5. InTransit(s)'
    <3>1. InTransit(s)
      BY DEF ExchangeInv
    <3>2. HopOf(s)' = HopOf(s) /\ RuleOf(s)' = RuleOf(s) /\ Claim(s)' = Claim(s)
      BY <2>1, SameSpec
    <3>3. QED
      BY <2>1, <3>1, <3>2 DEF InTransit
  <2>6. QED
    BY <2>1, <2>3, <2>4, <2>5, SenderFrame
<1>13. QED
  BY <1>1, <1>2, <1>3, <1>4, <1>5, <1>6, <1>7, <1>8, <1>9, <1>10, <1>11, <1>12
     DEF Next, SenderStep, NodeStep

\* The lockstep between senders, channels and nodes holds for any number of
\* senders, nodes, flows, deaths and restarts.
THEOREM ExchangeCorrect == Spec => []ExchangeInv
BY TypeInit, TypeNext, ExchangeInit, ExchangeNext, PTL DEF Spec

\* A flow acknowledged by its node (both echoes read, setup_overlay_node) and
\* not yet given up is in the node's NAT table, although the node answers
\* before it runs iptables (receive_forwarding_rule_specification).
THEOREM AckedInstalledAlways == Spec => []AckedInstalled
<1>1. ExchangeInv => AckedInstalled
  BY DEF ExchangeInv
<1>2. QED
  BY <1>1, ExchangeCorrect, PTL
-----------------------------------------------------------------------------
(* What the sender does to its own table.                                  *)

\* The sender's own rule for flow k, and those for the flows from .. to - 1 in order.
OwnRule(s, k)         == <<LocalIP[s][SrcOf(k)], DstOf(k), Hop(k)>>
OwnRules(s, from, to) == [i \in 1 .. to - from |-> OwnRule(s, from + i - 1)]

Exchanging == {"connect", "sendFwd", "fwdAck", "sendDar", "darAck"}

\* The loop counter is where the loops start when none runs.
LoopInv(s) ==
    /\ pc[s] \in {"flow", "up"} => type[s] = "A"
    /\ pc[s] \in {"cleanOwn", "done"} => type[s] = "D"
    /\ pc[s] \in {"up", "done"} => flow[s] = 0

\* Rules are added in the order of the flows and deleted in the same order, so that
\* each deletion finds its rule first.
OwnInv(s) ==
    s \notin StunSenders =>
        /\ srcs[s] = LocalIP[s]
        /\ pc[s] = "flow" => own[s] = OwnRules(s, 0, flow[s])
        /\ pc[s] \in Exchanging =>
              own[s] = OwnRules(s, 0, IF type[s] = "A" THEN flow[s] + 1 ELSE NumFlows)
        /\ pc[s] = "up" => own[s] = OwnRules(s, 0, NumFlows)
        /\ pc[s] = "cleanOwn" => own[s] = OwnRules(s, flow[s], NumFlows)
        /\ pc[s] = "done" => own[s] = <<>>

SenderInv == \A s \in Senders : LoopInv(s) /\ OwnInv(s)
-----------------------------------------------------------------------------
\* Nodes that are down, or that a dead sender may still bring down.
Stained ==
    {n \in Nodes : \/ npc[n] = "down"
                   \/ \E s \in Senders : /\ pc[s] = "dead" /\ link[s] \in {"queued", "served"}
                                         /\ HopOf(s) = n}

\* The node has its handle, or is about to assign it.
Ready(n) == npc[n] = "down" \/ handle[n] \/ (npc[n] = "darApply" /\ job[n].type = "A")

\* As long as no node was started again: a fault stains one node, a connection that
\* failed is one to a node that is down, and no node that deletes lacks its handle.
StainInv == IsFiniteSet(Stained) /\ Cardinality(Stained) <= faults

ConnInv(s) ==
    /\ link[s] \in {"fin", "rst", "broken"} => npc[HopOf(s)] = "down"
    /\ pc[s] \in {"flow", "connect", "up", "cleanOwn", "done"} => link[s] = "none"
    /\ \A k \in Flows : type[s] = "D" \/ pc[s] = "up" \/ k < flow[s] => Ready(Hop(k))
    /\ type[s] = "A" /\ pc[s] = "darAck" /\ reply[s] = "ack" => Ready(HopOf(s))

HandleInv(n) == npc[n] = "darApply" /\ job[n].type = "D" => handle[n]

ContainInv ==
    restarts = 0 => /\ StainInv
                    /\ \A s \in Senders : ConnInv(s)
                    /\ \A n \in Nodes : HandleInv(n)

\* Without a fault no node has to be started again and no sender dies.
QuietInv == faults = 0 => restarts = 0 /\ \A s \in Senders : pc[s] # "dead"

\* While it sets up, the sender has been answered for the flows behind it, and steers
\* those and the current one.
Answered(s, k) == \E a \in Addrs(s) : <<Hop(k), <<a, DstOf(k)>>>> \in acked[s]
Steered(s, k)  == \E a \in Addrs(s) : Contains(own[s], <<a, DstOf(k), Hop(k)>>)

SetupInv(s) ==
    faults = 0 /\ type[s] = "A" =>
        /\ \A k \in Flows : k < flow[s] \/ pc[s] = "up" => Answered(s, k) /\ Steered(s, k)
        /\ pc[s] \in Exchanging => Steered(s, flow[s])
-----------------------------------------------------------------------------
FlowRule(s, k) == <<LocalIP[s][SrcOf(k)], DstOf(k)>>

\* The node has applied the spec of the sender's current flow.
Applied(s) ==
    \/ pc[s] = "darAck" /\ reply[s] = "ack"
    \/ link[s] = "served" /\ client[HopOf(s)] = s /\ npc[HopOf(s)] = "darRecv"

\* The flows that a sender has in place, as far as it has come.
InPlace(s) ==
    {k \in Flows :
        IF type[s] = "A" THEN pc[s] = "up" \/ k < flow[s] \/ (k = flow[s] /\ Applied(s))
        ELSE /\ pc[s] \notin {"cleanOwn", "done"}
             /\ k > flow[s] \/ (k = flow[s] /\ ~Applied(s))}

RulesOf(s) == {r \in Rules : r[1] \in Addrs(s)}

\* No element of X occurs twice in q.
Once(q, X) == \A i, j \in 1 .. Len(q) : q[i] = q[j] /\ q[i] \in X => i = j

\* Without a fault and without STUN, the tables hold the rules of the flows in place,
\* each at its node, each once, and no other rule of the sender.
TableInv(s) ==
    faults = 0 /\ s \notin StunSenders =>
        /\ InstalledBy(s) = InPlace(s)
        /\ \A n \in Nodes : \A r \in RulesOf(s) :
              Contains(table[n], r) => \E k \in Flows : r = FlowRule(s, k) /\ Hop(k) = n
        /\ \A n \in Nodes : Once(table[n], RulesOf(s))
-----------------------------------------------------------------------------
\* RemoveFirst drops the first occurrence of e and closes the gap.
LEMMA RemoveFirstAt ==
    ASSUME NEW S, NEW q \in Seq(S), NEW e, Contains(q, e)
    PROVE  /\ RemoveFirst(q, e) \in Seq(S) /\ Len(RemoveFirst(q, e)) = Len(q) - 1
           /\ \E k \in 1 .. Len(q) :
                 /\ q[k] = e /\ \A i \in 1 .. k - 1 : q[i] # e
                 /\ \A i \in 1 .. Len(q) - 1 :
                       RemoveFirst(q, e)[i] = IF i < k THEN q[i] ELSE q[i + 1]
<1> DEFINE I == {i \in 1 .. Len(q) : q[i] = e}
<1>1. I # {} /\ I \in SUBSET Nat
  BY DEF Contains
<1>2. \E m \in I : \A i \in I : m <= i
  <2> HIDE DEF I
  <2> QED BY <1>1, LeastElement
<1>3. PICK k \in I : k = SelectInSeq(q, LAMBDA v : v = e) /\ \A i \in I : k <= i
  BY <1>1, <1>2 DEF SelectInSeq, Min
<1>4. k \in 1 .. Len(q) /\ q[k] = e /\ RemoveFirst(q, e) = RemoveAt(q, k)
  BY <1>3 DEF RemoveFirst
<1>5. ASSUME NEW i \in 1 .. k - 1 PROVE q[i] # e
  <2>1. i \in 1 .. Len(q) /\ ~(k <= i)
    BY <1>4
  <2> QED BY <1>3, <2>1
<1> DEFINE l == SubSeq(q, 1, k - 1)
           r == SubSeq(q, k + 1, Len(q))
<1>6. /\ l \in Seq(S) /\ Len(l) = k - 1
      /\ \A i \in 1 .. k - 1 : l[i] = q[i]
  BY <1>4
<1>7. /\ r \in Seq(S) /\ Len(r) = Len(q) - k
      /\ \A i \in 1 .. Len(q) - k : r[i] = q[k + i]
  BY <1>4
<1>8. RemoveFirst(q, e) = l \o r
  BY <1>4 DEF RemoveAt
<1> HIDE DEF l, r
<1>9. l \o r \in Seq(S) /\ Len(l \o r) = Len(q) - 1
  <2>1. l \o r \in Seq(S) /\ Len(l \o r) = Len(l) + Len(r)
    BY <1>6, <1>7, ConcatProperties
  <2> QED BY <1>4, <1>6, <1>7, <2>1
<1>10. ASSUME NEW i \in 1 .. Len(q) - 1 PROVE (l \o r)[i] = IF i < k THEN q[i] ELSE q[i + 1]
  <2>1. i \in 1 .. Len(l) + Len(r)
    BY <1>4, <1>6, <1>7
  <2>2. (l \o r)[i] = IF i <= Len(l) THEN l[i] ELSE r[i - Len(l)]
    BY <1>6, <1>7, <2>1, ConcatProperties
  <2>3. CASE i < k
    BY <1>4, <1>6, <2>2, <2>3
  <2>4. CASE ~(i < k)
    <3>1. i - (k - 1) \in 1 .. Len(q) - k /\ k + (i - (k - 1)) = i + 1
      BY <1>4, <2>4
    <3> QED BY <1>4, <1>6, <1>7, <2>2, <2>4, <3>1
  <2> QED BY <2>3, <2>4
<1> QED BY <1>4, <1>5, <1>8, <1>9, <1>10

\* In front, an element is removed from there.
LEMMA RemoveFirstHead ==
    ASSUME NEW S, NEW q \in Seq(S), NEW e, Len(q) >= 1, q[1] = e
    PROVE  /\ RemoveFirst(q, e) \in Seq(S) /\ Len(RemoveFirst(q, e)) = Len(q) - 1
           /\ \A i \in 1 .. Len(q) - 1 : RemoveFirst(q, e)[i] = q[i + 1]
<1>1. Contains(q, e) /\ 1 \in 1 .. Len(q)
  BY DEF Contains
<1>2. /\ RemoveFirst(q, e) \in Seq(S) /\ Len(RemoveFirst(q, e)) = Len(q) - 1
      /\ \E k \in 1 .. Len(q) :
            /\ q[k] = e /\ \A i \in 1 .. k - 1 : q[i] # e
            /\ \A i \in 1 .. Len(q) - 1 :
                  RemoveFirst(q, e)[i] = IF i < k THEN q[i] ELSE q[i + 1]
  BY <1>1, RemoveFirstAt
<1>3. PICK k \in 1 .. Len(q) :
         /\ \A i \in 1 .. k - 1 : q[i] # e
         /\ \A i \in 1 .. Len(q) - 1 : RemoveFirst(q, e)[i] = IF i < k THEN q[i] ELSE q[i + 1]
  BY <1>2
<1>4. k = 1
  BY <1>1, <1>3
<1> QED BY <1>2, <1>3, <1>4

\* Flow k is determined by its interface and destination index.
LEMMA FlowOf ==
    ASSUME NEW k \in Flows, NEW m \in Flows, SrcOf(k) = SrcOf(m), k % NumDsts = m % NumDsts
    PROVE  k = m
<1>1. k = (k \div NumDsts) * NumDsts + (k % NumDsts)
  BY SizeAssumption DEF Flows, NumFlows
<1>2. m = (m \div NumDsts) * NumDsts + (m % NumDsts)
  BY SizeAssumption DEF Flows, NumFlows
<1> QED BY <1>1, <1>2 DEF SrcOf

\* There is a flow, and the counter of one is a natural number below their number.
LEMMA FlowNumbers ==
    /\ NumFlows \in Nat /\ NumFlows >= 1 /\ 0 \in Flows
    /\ \A k : k \in Flows <=> k \in Nat /\ k < NumFlows
<1>1. NumSrcs * NumDsts >= 1 /\ NumSrcs * NumDsts \in Nat
  BY SizeAssumption
<1> QED BY <1>1 DEF Flows, NumFlows

\* The rules of a range of flows make a sequence.
LEMMA OwnRulesSeq ==
    ASSUME NEW s, NEW f \in Nat, NEW g \in Nat, f <= g, NEW S,
           \A k \in f .. g - 1 : OwnRule(s, k) \in S
    PROVE  /\ OwnRules(s, f, g) \in Seq(S) /\ Len(OwnRules(s, f, g)) = g - f
           /\ \A i \in 1 .. g - f : OwnRules(s, f, g)[i] = OwnRule(s, f + i - 1)
<1>1. g - f \in Nat /\ \A i \in 1 .. g - f : f + i - 1 \in f .. g - 1
  OBVIOUS
<1> HIDE DEF OwnRule
<1> QED BY <1>1 DEF OwnRules

\* Setting the own rule of the next flow.
LEMMA OwnRulesAppend ==
    ASSUME NEW s, NEW f \in Nat
    PROVE  Append(OwnRules(s, 0, f), OwnRule(s, f)) = OwnRules(s, 0, f + 1)
<1> DEFINE S == {OwnRule(s, k) : k \in Nat}
           q == OwnRules(s, 0, f)
           r == OwnRules(s, 0, f + 1)
<1>1. q \in Seq(S) /\ Len(q) = f - 0 /\ \A i \in 1 .. f - 0 : q[i] = OwnRule(s, 0 + i - 1)
  <2>1. 0 <= f /\ 0 \in Nat /\ \A k \in 0 .. f - 1 : OwnRule(s, k) \in S
    OBVIOUS
  <2> HIDE DEF S, OwnRules, OwnRule
  <2> QED BY <2>1, OwnRulesSeq
<1>2. /\ r \in Seq(S) /\ Len(r) = f + 1 - 0
      /\ \A i \in 1 .. f + 1 - 0 : r[i] = OwnRule(s, 0 + i - 1)
  <2> DEFINE g == f + 1
  <2>1. 0 <= g /\ 0 \in Nat /\ g \in Nat /\ \A k \in 0 .. g - 1 : OwnRule(s, k) \in S
    OBVIOUS
  <2> HIDE DEF S, OwnRules, OwnRule, g
  <2>2. /\ OwnRules(s, 0, g) \in Seq(S) /\ Len(OwnRules(s, 0, g)) = g - 0
        /\ \A i \in 1 .. g - 0 : OwnRules(s, 0, g)[i] = OwnRule(s, 0 + i - 1)
    BY <2>1, OwnRulesSeq
  <2> QED BY <2>2 DEF g
<1>3. OwnRule(s, f) \in S
  OBVIOUS
<1> HIDE DEF S, q, r
<1>4. /\ Append(q, OwnRule(s, f)) \in Seq(S) /\ Len(Append(q, OwnRule(s, f))) = f + 1
      /\ \A i \in 1 .. f : Append(q, OwnRule(s, f))[i] = q[i]
      /\ Append(q, OwnRule(s, f))[f + 1] = OwnRule(s, f)
  BY <1>1, <1>3, AppendProperties
<1>5. \A i \in 1 .. f + 1 : Append(q, OwnRule(s, f))[i] = r[i]
  BY <1>1, <1>2, <1>4
<1>6. Append(q, OwnRule(s, f)) = r
  BY <1>2, <1>4, <1>5, SeqEqual
<1> QED BY <1>6 DEF q, r

\* Deleting the own rule of the first flow that still has one.
LEMMA OwnRulesRemove ==
    ASSUME NEW s, NEW f \in Nat, NEW g \in Nat, f < g
    PROVE  RemoveFirst(OwnRules(s, f, g), OwnRule(s, f)) = OwnRules(s, f + 1, g)
<1> DEFINE S == {OwnRule(s, k) : k \in Nat}
           q == OwnRules(s, f, g)
           r == OwnRules(s, f + 1, g)
           d == RemoveFirst(q, OwnRule(s, f))
<1>1. q \in Seq(S) /\ Len(q) = g - f /\ \A i \in 1 .. g - f : q[i] = OwnRule(s, f + i - 1)
  <2>1. f <= g /\ \A k \in f .. g - 1 : OwnRule(s, k) \in S
    OBVIOUS
  <2> HIDE DEF S, OwnRules, OwnRule
  <2> QED BY <2>1, OwnRulesSeq
<1>2. /\ r \in Seq(S) /\ Len(r) = g - (f + 1)
      /\ \A i \in 1 .. g - (f + 1) : r[i] = OwnRule(s, f + 1 + i - 1)
  <2>1. \A k \in f + 1 .. g - 1 : OwnRule(s, k) \in S
    OBVIOUS
  <2>2. f + 1 \in Nat /\ f + 1 <= g
    OBVIOUS
  <2> HIDE DEF S, OwnRules, OwnRule
  <2> QED BY <2>1, <2>2, OwnRulesSeq
<1> HIDE DEF S, q, r, OwnRule
<1>3. Len(q) >= 1 /\ q[1] = OwnRule(s, f)
  BY <1>1
<1>4. /\ d \in Seq(S) /\ Len(d) = Len(q) - 1
      /\ \A i \in 1 .. Len(q) - 1 : d[i] = q[i + 1]
  BY <1>1, <1>3, RemoveFirstHead
<1>5. \A i \in 1 .. Len(r) : d[i] = r[i]
  <2> SUFFICES ASSUME NEW i \in 1 .. Len(r) PROVE d[i] = r[i]
    OBVIOUS
  <2>1. /\ i \in 1 .. Len(q) - 1 /\ i + 1 \in 1 .. g - f
        /\ f + (i + 1) - 1 = f + 1 + i - 1
    BY <1>1, <1>2
  <2> QED BY <1>1, <1>2, <1>4, <2>1
<1> HIDE DEF d
<1>6. d = r
  <2>1. Len(d) = Len(r)
    BY <1>1, <1>2, <1>4
  <2> QED BY <1>2, <1>4, <1>5, <2>1, SeqEqual
<1> QED BY <1>6 DEF d, q, r

\* No flow, no rule.
LEMMA OwnRulesEmpty == ASSUME NEW s, NEW f \in Nat PROVE OwnRules(s, f, f) = <<>>
BY DEF OwnRules

\* A sender is not concerned by the steps of others.
LEMMA SenderInvFrame ==
    ASSUME SenderInv, NEW t \in Senders, pc'[t] = pc[t], type'[t] = type[t], flow'[t] = flow[t],
           srcs'[t] = srcs[t], own'[t] = own[t]
    PROVE  LoopInv(t)' /\ OwnInv(t)'
<1>1. LoopInv(t) /\ OwnInv(t)
  BY DEF SenderInv
<1>2. LoopInv(t)'
  BY <1>1 DEF LoopInv
<1>3. OwnInv(t)'
  BY <1>1 DEF OwnInv
<1> QED BY <1>2, <1>3

\* The own tables start empty.
LEMMA SenderInvInit == Init => SenderInv
<1> SUFFICES ASSUME Init, NEW s \in Senders PROVE LoopInv(s) /\ OwnInv(s)
  BY DEF SenderInv
<1>1. OwnRules(s, 0, 0) = <<>>
  BY OwnRulesEmpty
<1> QED BY <1>1 DEF Init, LoopInv, OwnInv, Exchanging

\* Every step keeps the order of the own rules.
LEMMA SenderInvNext == TypeOK /\ SenderInv /\ [Next]_vars => SenderInv'
<1> SUFFICES ASSUME TypeOK, SenderInv, [Next]_vars PROVE SenderInv'
  OBVIOUS
<1> DEFINE Frame(s) == \A t \in Senders \ {s} :
                          /\ pc'[t] = pc[t] /\ type'[t] = type[t] /\ flow'[t] = flow[t]
                          /\ srcs'[t] = srcs[t] /\ own'[t] = own[t]
<1>1. ASSUME NEW s \in Senders, Frame(s), LoopInv(s)', OwnInv(s)' PROVE SenderInv'
  <2>1. ASSUME NEW t \in Senders PROVE LoopInv(t)' /\ OwnInv(t)'
    <3>1. CASE t = s
      BY <1>1, <3>1
    <3>2. CASE t # s
      BY <1>1, <3>2, SenderInvFrame
    <3> QED BY <3>1, <3>2
  <2> QED BY <2>1 DEF SenderInv
<1>2. ASSUME NEW s \in Senders
      PROVE  /\ LoopInv(s) /\ OwnInv(s) /\ flow[s] \in Nat /\ flow[s] < NumFlows /\ NumFlows \in Nat
             /\ type[s] \in {"A", "D"}
  <2>1. LoopInv(s) /\ OwnInv(s)
    BY DEF SenderInv
  <2>2. flow[s] \in Flows /\ type[s] \in {"A", "D"}
    BY DEF TypeOK
  <2> QED BY <2>1, <2>2, FlowNumbers
<1>3. ASSUME NEW s \in Senders, SetOwnRules(s) PROVE SenderInv'
  <2> DEFINE i == SrcOf(flow[s])
  <2>1. /\ pc[s] = "flow" /\ pc' = [pc EXCEPT ![s] = "connect"] /\ UNCHANGED <<type, flow>>
        /\ own' = [own EXCEPT ![s] = Append(@, <<srcs[s][i], DstOf(flow[s]), HopOf(s)>>)]
    BY <1>3 DEF SetOwnRules, Goto
  <2>2. PICK a \in {srcs[s][i]} \cup (IF s \in StunSenders THEN {PublicIP[s][i]} ELSE {}) :
           srcs' = [srcs EXCEPT ![s][i] = a]
    BY <1>3 DEF SetOwnRules
  <2>3. Frame(s)
    BY <2>1, <2>2 DEF TypeOK
  <2>4. LoopInv(s)'
    BY <1>2, <2>1 DEF LoopInv, TypeOK
  <2>5. OwnInv(s)'
    <3> SUFFICES ASSUME s \notin StunSenders
                 PROVE  /\ srcs'[s] = LocalIP[s] /\ pc'[s] = "connect" /\ type[s] = "A"
                        /\ own'[s] = OwnRules(s, 0, flow[s] + 1)
      BY <2>1 DEF OwnInv, Exchanging
    <3>1. srcs[s] = LocalIP[s] /\ own[s] = OwnRules(s, 0, flow[s]) /\ type[s] = "A"
      BY <1>2, <2>1 DEF OwnInv, LoopInv
    <3>2. srcs'[s] = srcs[s] /\ pc'[s] = "connect"
      BY <2>1, <2>2 DEF TypeOK
    <3>3. own'[s] = Append(own[s], OwnRule(s, flow[s]))
      BY <2>1, <3>1 DEF TypeOK, OwnRule, HopOf
    <3> QED BY <1>2, <3>1, <3>2, <3>3, OwnRulesAppend
  <2> QED BY <1>1, <2>3, <2>4, <2>5
<1>4. ASSUME NEW s \in Senders, \/ Connect(s) \/ SendForwardingSpec(s) \/ SendDarshanaSpec(s)
                                \/ AwaitForwardingAck(s)
      PROVE  SenderInv'
  <2>1. /\ UNCHANGED <<type, flow, srcs, own>> /\ pc[s] \in Exchanging
        /\ \E l \in Exchanging \cup {"dead"} : pc' = [pc EXCEPT ![s] = l]
    BY <1>4 DEF Connect, SendForwardingSpec, SendDarshanaSpec, AwaitForwardingAck, Send, Goto,
                Exchanging
  <2>2. pc'[s] \in Exchanging \cup {"dead"} /\ Frame(s)
    BY <2>1 DEF TypeOK
  <2>3. LoopInv(s)' /\ OwnInv(s)'
    BY <1>2, <2>1, <2>2 DEF LoopInv, OwnInv, Exchanging
  <2> QED BY <1>1, <2>2, <2>3
<1>5. ASSUME NEW s \in Senders, AwaitDarshanaAck(s) PROVE SenderInv'
  <2>1. /\ pc[s] = "darAck" /\ UNCHANGED <<type, srcs, own>>
        /\ flow' = [flow EXCEPT ![s] = NextFlow(s)]
        /\ pc' = [pc EXCEPT ![s] =
                    IF LastFlow(s) THEN IF type[s] = "A" THEN "up" ELSE "cleanOwn"
                                   ELSE IF type[s] = "A" THEN "flow" ELSE "connect"]
    BY <1>5 DEF AwaitDarshanaAck, Goto
  <2>2. /\ Frame(s) /\ flow'[s] = NextFlow(s)
        /\ pc'[s] = IF LastFlow(s) THEN IF type[s] = "A" THEN "up" ELSE "cleanOwn"
                                   ELSE IF type[s] = "A" THEN "flow" ELSE "connect"
    BY <2>1 DEF TypeOK
  <2>3. IF LastFlow(s) THEN flow[s] + 1 = NumFlows /\ flow'[s] = 0
                       ELSE flow[s] + 1 # NumFlows /\ flow'[s] = flow[s] + 1
    BY <2>2 DEF LastFlow, NextFlow
  <2>4. LoopInv(s)'
    BY <1>2, <2>1, <2>2, <2>3 DEF LoopInv
  <2>5. OwnInv(s)'
    BY <1>2, <2>1, <2>2, <2>3 DEF OwnInv, Exchanging
  <2> QED BY <1>1, <2>2, <2>4, <2>5
<1>6. ASSUME NEW s \in Senders, Teardown(s) PROVE SenderInv'
  <2>1. /\ pc[s] = "up" /\ UNCHANGED <<flow, srcs, own>>
        /\ pc' = [pc EXCEPT ![s] = "connect"] /\ type' = [type EXCEPT ![s] = "D"]
    BY <1>6 DEF Teardown, Goto
  <2>2. pc'[s] = "connect" /\ type'[s] = "D" /\ Frame(s)
    BY <2>1 DEF TypeOK
  <2>3. LoopInv(s)' /\ OwnInv(s)'
    BY <1>2, <2>1, <2>2 DEF LoopInv, OwnInv, Exchanging
  <2> QED BY <1>1, <2>2, <2>3
<1>7. ASSUME NEW s \in Senders, RemoveOwnRules(s) PROVE SenderInv'
  <2>1. /\ pc[s] = "cleanOwn" /\ UNCHANGED <<type, srcs>>
        /\ own' = [own EXCEPT ![s] =
                     RemoveFirst(@, <<srcs[s][SrcOf(flow[s])], DstOf(flow[s]), HopOf(s)>>)]
        /\ flow' = [flow EXCEPT ![s] = NextFlow(s)]
        /\ pc' = [pc EXCEPT ![s] = IF LastFlow(s) THEN "done" ELSE "cleanOwn"]
    BY <1>7 DEF RemoveOwnRules, Goto
  <2>2. /\ Frame(s) /\ flow'[s] = NextFlow(s)
        /\ pc'[s] = IF LastFlow(s) THEN "done" ELSE "cleanOwn"
    BY <2>1 DEF TypeOK
  <2>3. IF LastFlow(s) THEN flow[s] + 1 = NumFlows /\ flow'[s] = 0
                       ELSE flow[s] + 1 # NumFlows /\ flow'[s] = flow[s] + 1
    BY <2>2 DEF LastFlow, NextFlow
  <2>4. LoopInv(s)'
    BY <1>2, <2>1, <2>2, <2>3 DEF LoopInv
  <2>5. OwnInv(s)'
    <3> SUFFICES ASSUME s \notin StunSenders PROVE OwnInv(s)'
      BY DEF OwnInv
    <3>1. srcs[s] = LocalIP[s] /\ own[s] = OwnRules(s, flow[s], NumFlows)
      BY <1>2, <2>1 DEF OwnInv
    <3>2. own'[s] = RemoveFirst(own[s], OwnRule(s, flow[s]))
      BY <2>1, <3>1 DEF TypeOK, OwnRule, HopOf
    <3>3. own'[s] = OwnRules(s, flow[s] + 1, NumFlows)
      BY <1>2, <3>1, <3>2, OwnRulesRemove
    <3>4. OwnRules(s, NumFlows, NumFlows) = <<>>
      BY <1>2, OwnRulesEmpty
    <3> QED BY <2>1, <2>2, <2>3, <3>1, <3>3, <3>4 DEF OwnInv, Exchanging
  <2> QED BY <1>1, <2>2, <2>4, <2>5
<1>8. ASSUME NEW s \in Senders, KillSender(s) PROVE SenderInv'
  <2>1. UNCHANGED <<type, flow, srcs, own>> /\ pc' = [pc EXCEPT ![s] = "dead"]
    BY <1>8 DEF KillSender, Goto
  <2>2. pc'[s] = "dead" /\ Frame(s)
    BY <2>1 DEF TypeOK
  <2>3. LoopInv(s)' /\ OwnInv(s)'
    BY <1>2, <2>1, <2>2 DEF LoopInv, OwnInv, Exchanging
  <2> QED BY <1>1, <2>2, <2>3
<1>9. CASE UNCHANGED senderVars
  <2>1. UNCHANGED <<pc, type, flow, srcs, own>>
    BY <1>9 DEF senderVars
  <2> QED BY <2>1, SenderInvFrame DEF SenderInv
<1>10. ASSUME NEW n \in Nodes, NodeStep(n) \/ KillNode(n) \/ StartNode(n)
       PROVE  UNCHANGED senderVars
  BY <1>10 DEF NodeStep, Accept, ReceiveForwardingSpec, ApplyForwardingSpec, ReceiveDarshanaSpec,
               ApplyDarshanaSpec, KillNode, StartNode
<1>11. UNCHANGED vars => UNCHANGED senderVars
  BY DEF vars
<1> QED BY <1>3, <1>4, <1>5, <1>6, <1>7, <1>8, <1>9, <1>10, <1>11 DEF Next, SenderStep

\* Without STUN a sender that finished left nothing in its own table, whatever node
\* failed on the way.
THEOREM OwnRulesCleanAlways == Spec => []OwnRulesClean
<1>1. SenderInv => OwnRulesClean
  BY DEF SenderInv, OwnInv, OwnRulesClean
<1> QED BY <1>1, TypeInit, TypeNext, SenderInvInit, SenderInvNext, PTL DEF Spec
-----------------------------------------------------------------------------
(* How far a crash reaches.                                                *)

\* A node that is stained anew is paid for by a fault.
LEMMA StainStep ==
    ASSUME StainInv, faults \in Nat, NEW n,
           \/ Stained' \subseteq Stained /\ faults' = faults
           \/ Stained' \subseteq Stained \cup {n} /\ faults' = faults + 1
    PROVE  StainInv'
<1>1. IsFiniteSet(Stained) /\ Cardinality(Stained) \in Nat /\ Cardinality(Stained) <= faults
  BY FS_CardinalityType DEF StainInv
<1>2. CASE Stained' \subseteq Stained /\ faults' = faults
  <2>1. IsFiniteSet(Stained') /\ Cardinality(Stained') <= Cardinality(Stained)
    BY <1>1, <1>2, FS_Subset
  <2>2. Cardinality(Stained') \in Nat
    BY <2>1, FS_CardinalityType
  <2> QED BY <1>1, <1>2, <2>1, <2>2 DEF StainInv
<1>3. CASE Stained' \subseteq Stained \cup {n} /\ faults' = faults + 1
  <2>1. /\ IsFiniteSet(Stained \cup {n})
        /\ Cardinality(Stained \cup {n}) = IF n \in Stained THEN Cardinality(Stained)
                                                           ELSE Cardinality(Stained) + 1
    BY <1>1, FS_AddElement
  <2>2. IsFiniteSet(Stained') /\ Cardinality(Stained') <= Cardinality(Stained \cup {n})
    BY <1>3, <2>1, FS_Subset
  <2>3. Cardinality(Stained') \in Nat
    BY <2>2, FS_CardinalityType
  <2>4. Cardinality(Stained') <= faults + 1
    BY <1>1, <2>1, <2>2, <2>3
  <2> QED BY <1>3, <2>2, <2>4 DEF StainInv
<1> QED BY <1>2, <1>3

\* What a step of sender s that is not its death does to the nodes: nothing.
LEMMA SenderContain ==
    ASSUME TypeOK, ContainInv, restarts = 0, NEW s \in Senders,
           UNCHANGED <<npc, job, handle, faults>>,
           \A t \in Senders \ {s} :
              /\ pc'[t] = pc[t] /\ type'[t] = type[t] /\ flow'[t] = flow[t]
              /\ link'[t] = link[t] /\ reply'[t] = reply[t],
           pc'[s] # "dead" \/ link'[s] \notin {"queued", "served"},
           ConnInv(s)'
    PROVE  ContainInv'
<1>1. /\ StainInv /\ (\A t \in Senders : ConnInv(t)) /\ (\A n \in Nodes : HandleInv(n))
      /\ faults \in Nat
  BY SizeAssumption DEF ContainInv, TypeOK
<1>2. \A t \in Senders \ {s} : HopOf(t)' = HopOf(t)
  BY DEF HopOf
<1>3. Stained' \subseteq Stained
  BY <1>2 DEF Stained
<1>4. StainInv'
  BY <1>1, <1>3, StainStep
<1>5. \A n : Ready(n)' = Ready(n)
  BY DEF Ready
<1>6. ASSUME NEW t \in Senders PROVE ConnInv(t)'
  <2>1. CASE t = s
    BY <2>1
  <2>2. CASE t # s
    BY <1>1, <1>2, <1>5, <2>2 DEF ConnInv
  <2> QED BY <2>1, <2>2
<1>7. \A n \in Nodes : HandleInv(n)'
  BY <1>1 DEF HandleInv
<1> QED BY <1>4, <1>6, <1>7 DEF ContainInv

\* Senders' steps: only at a node that is down does a connection fail.
LEMMA SenderStepContain ==
    ASSUME TypeOK, ExchangeInv, SenderInv, ContainInv, restarts = 0, restarts' = 0,
           NEW s \in Senders, SenderStep(s) \/ Teardown(s)
    PROVE  ContainInv'
<1>1. /\ ConnInv(s) /\ InTransit(s) /\ LoopInv(s) /\ type[s] \in {"A", "D"}
      /\ flow[s] \in Nat /\ flow[s] < NumFlows /\ NumFlows \in Nat /\ HopOf(s) \in Nodes
  <2>1. ConnInv(s) /\ InTransit(s) /\ LoopInv(s)
    BY DEF ContainInv, ExchangeInv, SenderInv
  <2>2. flow[s] \in Flows /\ type[s] \in {"A", "D"}
    BY DEF TypeOK
  <2> QED BY <2>1, <2>2, FlowNumbers, SpecTypes
<1>2. UNCHANGED <<npc, job, handle, faults>> /\ \A n : Ready(n)' = Ready(n)
  <2>1. UNCHANGED <<npc, job, handle, faults>>
    BY DEF SenderStep, Teardown, SetOwnRules, Connect, SendForwardingSpec, AwaitForwardingAck,
           SendDarshanaSpec, AwaitDarshanaAck, RemoveOwnRules, nodeVars, faultVars
  <2> QED BY <2>1 DEF Ready
<1>10. /\ pc \in [Senders -> SenderPC] /\ link \in [Senders -> Links]
       /\ reply \in [Senders -> {"none", "ack"}]
  BY DEF TypeOK
<1>3. CASE SetOwnRules(s)
  <2>1. /\ UNCHANGED <<type, flow, link, reply>> /\ pc[s] = "flow"
        /\ pc' = [pc EXCEPT ![s] = "connect"]
    BY <1>3 DEF SetOwnRules, Goto, socketVars
  <2>2. pc'[s] = "connect" /\ \A t \in Senders \ {s} : pc'[t] = pc[t]
    BY <2>1 DEF TypeOK
  <2>3. ConnInv(s)'
    BY <1>1, <1>2, <2>1, <2>2 DEF ConnInv, HopOf
  <2> QED BY <1>2, <2>1, <2>2, <2>3, SenderContain
<1>4. CASE Teardown(s)
  <2>1. /\ UNCHANGED <<flow, link, reply>> /\ pc[s] = "up"
        /\ pc' = [pc EXCEPT ![s] = "connect"] /\ type' = [type EXCEPT ![s] = "D"]
    BY <1>4 DEF Teardown, Goto, socketVars
  <2>2. /\ pc'[s] = "connect" /\ type'[s] = "D"
        /\ \A t \in Senders \ {s} : pc'[t] = pc[t] /\ type'[t] = type[t]
    BY <2>1 DEF TypeOK
  <2>3. ConnInv(s)'
    BY <1>1, <1>2, <2>1, <2>2 DEF ConnInv, HopOf
  <2> QED BY <1>2, <2>1, <2>2, <2>3, SenderContain
<1>5. CASE RemoveOwnRules(s)
  <2>1. /\ UNCHANGED <<type, link, reply>> /\ pc[s] = "cleanOwn"
        /\ flow' = [flow EXCEPT ![s] = NextFlow(s)]
        /\ pc' = [pc EXCEPT ![s] = IF LastFlow(s) THEN "done" ELSE "cleanOwn"]
    BY <1>5 DEF RemoveOwnRules, Goto, socketVars
  <2>2. /\ pc'[s] \in {"cleanOwn", "done"}
        /\ \A t \in Senders \ {s} : pc'[t] = pc[t] /\ flow'[t] = flow[t]
    BY <2>1 DEF TypeOK
  <2>3. ConnInv(s)'
    BY <1>1, <1>2, <2>1, <2>2 DEF ConnInv, LoopInv
  <2> QED BY <1>2, <2>1, <2>2, <2>3, SenderContain
<1>6. CASE Connect(s)
  <2>1. /\ UNCHANGED <<type, flow>> /\ pc[s] = "connect"
        /\ pc' = [pc EXCEPT ![s] = "sendFwd"] /\ reply' = [reply EXCEPT ![s] = "none"]
        /\ \/ npc[HopOf(s)] = "down" /\ link' = [link EXCEPT ![s] = "broken"]
           \/ link' = [link EXCEPT ![s] = "queued"]
    BY <1>6 DEF Connect, Goto
  <2>2. /\ pc'[s] = "sendFwd" /\ (link'[s] = "queued" \/ (link'[s] = "broken" /\ npc[HopOf(s)] = "down"))
        /\ \A t \in Senders \ {s} : pc'[t] = pc[t] /\ link'[t] = link[t] /\ reply'[t] = reply[t]
    <3>1. /\ pc'[s] = "sendFwd"
          /\ \A t \in Senders \ {s} : pc'[t] = pc[t] /\ reply'[t] = reply[t]
      BY <1>10, <2>1
    <3>2. CASE npc[HopOf(s)] = "down" /\ link' = [link EXCEPT ![s] = "broken"]
      BY <1>10, <3>1, <3>2
    <3>3. CASE link' = [link EXCEPT ![s] = "queued"]
      BY <1>10, <3>1, <3>3
    <3> QED BY <2>1, <3>2, <3>3
  <2>3. ConnInv(s)'
    BY <1>1, <1>2, <2>1, <2>2 DEF ConnInv, HopOf
  <2> QED BY <1>2, <2>1, <2>2, <2>3, SenderContain
<1>7. CASE SendForwardingSpec(s) \/ SendDarshanaSpec(s)
  <2>1. /\ UNCHANGED <<type, flow, reply>> /\ pc[s] \in {"sendFwd", "sendDar"}
        /\ \/ /\ link[s] = "broken" /\ pc' = [pc EXCEPT ![s] = "dead"] /\ UNCHANGED link
           \/ /\ pc' = [pc EXCEPT ![s] = "fwdAck"] \/ pc' = [pc EXCEPT ![s] = "darAck"]
              /\ \/ UNCHANGED link
                 \/ /\ link[s] \in {"fin", "rst"}
                    /\ link' = [link EXCEPT ![s] = IF @ = "fin" THEN "rst" ELSE "broken"]
    BY <1>7 DEF SendForwardingSpec, SendDarshanaSpec, Send, Goto
  <2>2. /\ pc'[s] \in {"fwdAck", "darAck", "dead"}
        /\ pc'[s] = "dead" => link'[s] = "broken"
        /\ link'[s] = link[s] \/ (link[s] \in {"fin", "rst"} /\ link'[s] \in {"rst", "broken"})
        /\ \A t \in Senders \ {s} : pc'[t] = pc[t] /\ link'[t] = link[t]
    <3>1. CASE link[s] = "broken" /\ pc' = [pc EXCEPT ![s] = "dead"] /\ UNCHANGED link
      BY <1>10, <3>1
    <3>2. CASE pc' = [pc EXCEPT ![s] = "fwdAck"] \/ pc' = [pc EXCEPT ![s] = "darAck"]
      <4>1. pc'[s] \in {"fwdAck", "darAck"} /\ \A t \in Senders \ {s} : pc'[t] = pc[t]
        BY <1>10, <3>2
      <4>2. CASE UNCHANGED link
        BY <4>1, <4>2
      <4>3. CASE /\ link[s] \in {"fin", "rst"}
                 /\ link' = [link EXCEPT ![s] = IF @ = "fin" THEN "rst" ELSE "broken"]
        BY <1>10, <4>1, <4>3
      <4> QED BY <2>1, <4>1, <4>2, <4>3
    <3> QED BY <2>1, <3>1, <3>2
  <2>3. reply'[s] = "none"
    BY <1>1, <2>1 DEF InTransit
  <2>4. ConnInv(s)'
    BY <1>1, <1>2, <2>1, <2>2, <2>3 DEF ConnInv, HopOf
  <2> QED BY <1>2, <2>1, <2>2, <2>4, SenderContain
<1>8. CASE AwaitForwardingAck(s)
  <2>1. /\ UNCHANGED <<type, flow>> /\ pc[s] = "fwdAck"
        /\ pc' = [pc EXCEPT ![s] = "sendDar"] /\ reply' = [reply EXCEPT ![s] = "none"]
        /\ link' = [link EXCEPT ![s] = IF AckFailed(s) /\ @ = "rst" THEN "broken" ELSE @]
    BY <1>8 DEF AwaitForwardingAck, Goto
  <2>2. /\ pc'[s] = "sendDar" /\ (link'[s] = link[s] \/ (link'[s] = "broken" /\ link[s] = "rst"))
        /\ \A t \in Senders \ {s} : pc'[t] = pc[t] /\ link'[t] = link[t] /\ reply'[t] = reply[t]
    <3>1. /\ pc'[s] = "sendDar"
          /\ \A t \in Senders \ {s} : pc'[t] = pc[t] /\ reply'[t] = reply[t]
      BY <1>10, <2>1
    <3>2. /\ \A t \in Senders \ {s} : link'[t] = link[t]
          /\ link'[s] = IF AckFailed(s) /\ link[s] = "rst" THEN "broken" ELSE link[s]
      BY <1>10, <2>1
    <3> QED BY <3>1, <3>2
  <2>3. ConnInv(s)'
    BY <1>1, <1>2, <2>1, <2>2 DEF ConnInv, HopOf
  <2> QED BY <1>2, <2>1, <2>2, <2>3, SenderContain
<1>9. CASE AwaitDarshanaAck(s)
  <2>1. /\ UNCHANGED type /\ pc[s] = "darAck" /\ (AckRead(s) \/ AckFailed(s))
        /\ flow' = [flow EXCEPT ![s] = NextFlow(s)]
        /\ link' = [link EXCEPT ![s] = "none"] /\ reply' = [reply EXCEPT ![s] = "none"]
        /\ pc' = [pc EXCEPT ![s] =
                    IF LastFlow(s) THEN IF type[s] = "A" THEN "up" ELSE "cleanOwn"
                                   ELSE IF type[s] = "A" THEN "flow" ELSE "connect"]
    BY <1>9 DEF AwaitDarshanaAck, Goto
  <2>2. /\ flow'[s] = NextFlow(s) /\ link'[s] = "none" /\ reply'[s] = "none"
        /\ pc'[s] \in {"up", "cleanOwn", "flow", "connect"} /\ (pc'[s] = "up" => LastFlow(s))
        /\ \A t \in Senders \ {s} : /\ pc'[t] = pc[t] /\ link'[t] = link[t]
                                    /\ reply'[t] = reply[t] /\ flow'[t] = flow[t]
    BY <2>1 DEF TypeOK
  <2>3. type[s] = "A" => Ready(HopOf(s))
    BY <1>1, <2>1 DEF ConnInv, AckRead, AckFailed, Ready
  <2>4. ASSUME NEW k \in Flows, type[s] = "D" \/ pc'[s] = "up" \/ k < flow'[s] PROVE Ready(Hop(k))
    <3>1. k \in Nat /\ k < NumFlows
      BY FlowNumbers
    <3>2. type[s] = "D" \/ k < flow[s] \/ k = flow[s]
      BY <1>1, <2>2, <2>4, <3>1 DEF NextFlow, LastFlow
    <3> QED BY <1>1, <2>3, <3>2 DEF ConnInv, HopOf
  <2>5. ConnInv(s)'
    BY <1>2, <2>1, <2>2, <2>4 DEF ConnInv
  <2> QED BY <1>2, <2>1, <2>2, <2>5, SenderContain
<1> QED BY <1>3, <1>4, <1>5, <1>6, <1>7, <1>8, <1>9 DEF SenderStep
\* What a step of node n that is not its end does to what is known of connections.
LEMMA NodeContain ==
    ASSUME TypeOK, ContainInv, restarts = 0, NEW n \in Nodes, npc[n] # "down", npc'[n] # "down",
           UNCHANGED <<pc, type, flow, faults>>,
           \A m \in Nodes \ {n} : npc'[m] = npc[m] /\ job'[m] = job[m] /\ handle'[m] = handle[m],
           \A t \in Senders :
              \/ link'[t] = link[t]
              \/ /\ link[t] = "queued" /\ link'[t] = "served"
                 /\ pc[t] \in {"sendFwd", "fwdAck", "dead"},
           \A t \in Senders : \/ reply'[t] = reply[t] \/ pc[t] # "darAck"
                              \/ HopOf(t) = n /\ (type[t] = "A" => Ready(n)'),
           Ready(n) => Ready(n)', HandleInv(n)'
    PROVE  ContainInv'
<1>1. /\ StainInv /\ (\A t \in Senders : ConnInv(t)) /\ (\A m \in Nodes : HandleInv(m))
      /\ faults \in Nat
  BY SizeAssumption DEF ContainInv, TypeOK
<1>2. /\ \A t \in Senders : HopOf(t)' = HopOf(t) /\ HopOf(t) \in Nodes
      /\ \A k \in Flows : Hop(k) \in Nodes
  BY SpecTypes, FlowTypes DEF HopOf
<1>3. \A m \in Nodes : Ready(m) => Ready(m)'
  BY DEF Ready
<1>4. Stained' \subseteq Stained
  BY <1>2 DEF Stained
<1>5. StainInv'
  BY <1>1, <1>4, StainStep
<1>6. ASSUME NEW t \in Senders PROVE ConnInv(t)'
  <2>1. link'[t] \in {"fin", "rst", "broken"} => npc'[HopOf(t)] = "down"
    BY <1>1, <1>2 DEF ConnInv
  <2>2. pc[t] \in {"flow", "connect", "up", "cleanOwn", "done"} => link'[t] = "none"
    BY <1>1 DEF ConnInv
  <2>3. \A k \in Flows : type[t] = "D" \/ pc[t] = "up" \/ k < flow[t] => Ready(Hop(k))'
    BY <1>1, <1>2, <1>3 DEF ConnInv, Hop
  <2>4. type[t] = "A" /\ pc[t] = "darAck" /\ reply'[t] = "ack" => Ready(HopOf(t))'
    <3>1. ASSUME Ready(HopOf(t)) PROVE Ready(HopOf(t))'
      BY <1>2, <1>3, <3>1 DEF Ready
    <3>2. ASSUME Ready(n)', HopOf(t) = n PROVE Ready(HopOf(t))'
      BY <1>2, <3>2 DEF Ready
    <3> QED BY <1>1, <3>1, <3>2 DEF ConnInv
  <2> QED BY <1>2, <2>1, <2>2, <2>3, <2>4 DEF ConnInv
<1>7. \A m \in Nodes : HandleInv(m)'
  BY <1>1 DEF HandleInv
<1> QED BY <1>5, <1>6, <1>7 DEF ContainInv

\* The end of a node that was stained, or that is paid for by a fault.
LEMMA NodeDiesContain ==
    ASSUME TypeOK, ExchangeInv, ContainInv, restarts = 0, NEW n \in Nodes, NodeDies(n),
           UNCHANGED senderVars,
           (n \in Stained /\ faults' = faults) \/ faults' = faults + 1
    PROVE  ContainInv'
<1>1. /\ StainInv /\ (\A t \in Senders : ConnInv(t)) /\ (\A m \in Nodes : HandleInv(m))
      /\ faults \in Nat
  BY SizeAssumption DEF ContainInv, TypeOK
<1>2. /\ \A t \in Senders : HopOf(t)' = HopOf(t) /\ HopOf(t) \in Nodes
      /\ \A k \in Flows : Hop(k) \in Nodes
  BY SpecTypes, FlowTypes DEF HopOf, senderVars
<1>3. UNCHANGED <<pc, type, flow, reply, job, handle>>
  BY DEF senderVars, NodeDies
<1>4. npc'[n] = "down" /\ \A m \in Nodes \ {n} : npc'[m] = npc[m]
  BY DEF NodeDies, GotoN, TypeOK
<1>5. ASSUME NEW t \in Senders
      PROVE  \/ link'[t] = link[t]
             \/ HopOf(t) = n /\ link[t] \in {"queued", "served"} /\ link'[t] \in {"rst", "fin"}
  <2>1. Contains(backlog[n], t) => HopOf(t) = n /\ link[t] = "queued"
    <3>1. Queued(n)
      BY DEF ExchangeInv
    <3> QED BY <3>1 DEF Contains, Queued, Waiting
  <2>2. Serves(n, t) => HopOf(t) = n /\ link[t] = "served"
    BY DEF Serves
  <2>3. link'[t] = IF Contains(backlog[n], t) \/ (Serves(n, t) /\ req[t] # "none")
                     THEN "rst" ELSE IF Serves(n, t) THEN "fin" ELSE link[t]
    BY DEF NodeDies
  <2> QED BY <2>1, <2>2, <2>3
<1>6. \A m \in Nodes : Ready(m) => Ready(m)'
  BY <1>3, <1>4 DEF Ready
<1>7. Stained' \subseteq Stained \cup {n}
  BY <1>2, <1>3, <1>4, <1>5 DEF Stained
<1>8. StainInv'
  <2>1. CASE n \in Stained /\ faults' = faults
    BY <1>1, <1>7, <2>1, StainStep
  <2>2. CASE faults' = faults + 1
    BY <1>1, <1>7, <2>2, StainStep
  <2> QED BY <2>1, <2>2
<1>9. ASSUME NEW t \in Senders PROVE ConnInv(t)'
  <2>1. link'[t] \in {"fin", "rst", "broken"} => npc'[HopOf(t)] = "down"
    BY <1>1, <1>2, <1>4, <1>5 DEF ConnInv
  <2>2. pc[t] \in {"flow", "connect", "up", "cleanOwn", "done"} => link'[t] = "none"
    BY <1>1, <1>5 DEF ConnInv
  <2>3. \A k \in Flows : type[t] = "D" \/ pc[t] = "up" \/ k < flow[t] => Ready(Hop(k))'
    BY <1>1, <1>2, <1>6 DEF ConnInv, Hop
  <2>4. type[t] = "A" /\ pc[t] = "darAck" /\ reply'[t] = "ack" => Ready(HopOf(t))'
    <3>1. ASSUME Ready(HopOf(t)) PROVE Ready(HopOf(t))'
      BY <1>2, <1>6, <3>1 DEF Ready
    <3> QED BY <1>1, <1>3, <3>1 DEF ConnInv
  <2> QED BY <1>2, <1>3, <2>1, <2>2, <2>3, <2>4 DEF ConnInv
<1>10. \A m \in Nodes : HandleInv(m)'
  BY <1>1, <1>3, <1>4 DEF HandleInv
<1> QED BY <1>8, <1>9, <1>10 DEF ContainInv
\* Nodes' steps: a node dies only of the dead sender it serves, and one that deletes
\* has its handle.
LEMMA NodeStepContain ==
    ASSUME TypeOK, ExchangeInv, ContainInv, restarts = 0, NEW n \in Nodes, NodeStep(n)
    PROVE  ContainInv'
<1>1. /\ UNCHANGED senderVars /\ UNCHANGED <<pc, type, flow, srcs, faults>> /\ npc[n] # "down"
      /\ faults \in Nat
  BY SizeAssumption DEF NodeStep, Accept, ReceiveForwardingSpec, ApplyForwardingSpec,
     ReceiveDarshanaSpec, ApplyDarshanaSpec, senderVars, faultVars, TypeOK
<1>2. /\ (\A t \in Senders : ConnInv(t)) /\ HandleInv(n) /\ Queued(n) /\ Served(n)
      /\ (\A t \in Senders : InTransit(t))
  BY DEF ContainInv, ExchangeInv
<1>3. /\ npc \in [Nodes -> NodePC] /\ handle \in [Nodes -> BOOLEAN] /\ job \in [Nodes -> Specs]
      /\ backlog[n] \in Seq(Senders) /\ client[n] \in Senders
      /\ link \in [Senders -> Links] /\ reply \in [Senders -> {"none", "ack"}]
  BY DEF TypeOK
<1>4. CASE Accept(n)
  <2> DEFINE h == Head(backlog[n])
  <2>1. /\ npc' = [npc EXCEPT ![n] = "fwdRecv"] /\ npc[n] = "accept" /\ backlog[n] # <<>>
        /\ UNCHANGED <<job, handle, reply>> /\ link' = [link EXCEPT ![h] = "served"]
    BY <1>4 DEF Accept, GotoN
  <2>2. h \in Senders /\ h = backlog[n][1] /\ 1 \in 1 .. Len(backlog[n])
    BY <1>3, <2>1
  <2>3. link[h] = "queued" /\ pc[h] \in {"sendFwd", "fwdAck", "dead"}
    BY <1>2, <2>2 DEF Queued, Waiting
  <2> HIDE DEF h
  <2>4. /\ link'[h] = "served" /\ \A t \in Senders \ {h} : link'[t] = link[t]
        /\ npc'[n] = "fwdRecv" /\ \A m \in Nodes \ {n} : npc'[m] = npc[m]
    BY <1>3, <2>1, <2>2
  <2>5. (Ready(n) => Ready(n)') /\ HandleInv(n)'
    BY <2>1, <2>4 DEF Ready, HandleInv
  <2> QED BY <1>1, <2>1, <2>3, <2>4, <2>5, NodeContain
<1>5. CASE ApplyForwardingSpec(n)
  <2>1. /\ npc' = [npc EXCEPT ![n] = "darRecv"] /\ npc[n] = "fwdApply"
        /\ UNCHANGED <<job, handle, link, reply>>
    BY <1>5 DEF ApplyForwardingSpec, GotoN, socketVars
  <2>2. npc'[n] = "darRecv" /\ \A m \in Nodes \ {n} : npc'[m] = npc[m]
    BY <1>3, <2>1
  <2>3. (Ready(n) => Ready(n)') /\ HandleInv(n)'
    BY <2>1, <2>2 DEF Ready, HandleInv
  <2> QED BY <1>1, <2>1, <2>2, <2>3, NodeContain
<1>6. CASE ApplyDarshanaSpec(n)
  <2>1. ~(job[n].type = "D" /\ ~handle[n]) /\ npc[n] = "darApply"
    BY <1>2, <1>6 DEF ApplyDarshanaSpec, HandleInv
  <2>2. /\ npc' = [npc EXCEPT ![n] = "accept"] /\ handle' = [handle EXCEPT ![n] = TRUE]
        /\ UNCHANGED <<job, link, reply>>
    BY <1>6, <2>1 DEF ApplyDarshanaSpec, GotoN, socketVars
  <2>3. /\ npc'[n] = "accept" /\ handle'[n] = TRUE
        /\ \A m \in Nodes \ {n} : npc'[m] = npc[m] /\ handle'[m] = handle[m]
    BY <1>3, <2>2
  <2>4. (Ready(n) => Ready(n)') /\ HandleInv(n)'
    BY <2>3 DEF Ready, HandleInv
  <2> QED BY <1>1, <2>1, <2>2, <2>3, <2>4, NodeContain
<1>7. CASE ReceiveForwardingSpec(n) \/ ReceiveDarshanaSpec(n)
  <2> DEFINE s == client[n]
  <2>1. s \in Senders /\ Lockstep(s, n) /\ npc[n] \in {"fwdRecv", "darRecv"}
    BY <1>2, <1>3, <1>7 DEF ReceiveForwardingSpec, ReceiveDarshanaSpec, Served
  <2>2. HopOf(s) = n /\ link[s] = "served"
    BY <2>1 DEF Lockstep
  <2>3. CASE pc[s] = "dead" /\ NodeDies(n)
    <3>1. n \in Stained
      BY <2>1, <2>2, <2>3 DEF Stained
    <3> QED BY <1>1, <2>3, <3>1, NodeDiesContain
  <2>4. CASE ~(pc[s] = "dead" /\ NodeDies(n))
    <3>1. /\ UNCHANGED <<link, handle>> /\ reply' = [reply EXCEPT ![s] = "ack"]
          /\ job' = [job EXCEPT ![n] = SpecOf(s)]
          /\ \/ npc[n] = "fwdRecv" /\ req[s] = "fwd" /\ npc' = [npc EXCEPT ![n] = "fwdApply"]
             \/ npc[n] = "darRecv" /\ req[s] = "dar" /\ npc' = [npc EXCEPT ![n] = "darApply"]
      BY <1>7, <2>4 DEF ReceiveForwardingSpec, ReceiveDarshanaSpec, RecvSpec, GotoN
    <3>2. /\ \A m \in Nodes \ {n} : npc'[m] = npc[m] /\ job'[m] = job[m]
          /\ \A t \in Senders \ {s} : reply'[t] = reply[t]
          /\ job'[n] = SpecOf(s) /\ job'[n].type = type[s]
      BY <1>3, <2>1, <3>1 DEF SpecOf
    <3>3. \/ npc[n] = "fwdRecv" /\ npc'[n] = "fwdApply" /\ pc[s] # "darAck"
          \/ npc[n] = "darRecv" /\ npc'[n] = "darApply"
      <4>1. req[s] = "fwd" => pc[s] # "darAck"
        BY <1>2, <2>1 DEF InTransit
      <4> QED BY <1>3, <3>1, <4>1
    <3>4. type[s] = "D" => Ready(n)
      <4>1. flow[s] \in Flows
        BY <2>1 DEF TypeOK
      <4> QED BY <1>2, <2>1, <2>2, <4>1 DEF ConnInv, HopOf
    <3>5. (Ready(n) => Ready(n)') /\ HandleInv(n)'
      BY <2>1, <3>1, <3>2, <3>3, <3>4 DEF Ready, HandleInv
    <3>6. pc[s] # "darAck" \/ (type[s] = "A" => Ready(n)')
      BY <3>2, <3>3 DEF Ready
    <3>7. npc'[n] # "down"
      BY <3>3
    <3> HIDE DEF s
    <3>8. ASSUME NEW t \in Senders
          PROVE  \/ reply'[t] = reply[t] \/ pc[t] # "darAck"
                 \/ HopOf(t) = n /\ (type[t] = "A" => Ready(n)')
      <4>1. CASE t = s
        <5>1. HopOf(t) = n
          BY <2>2, <4>1
        <5>2. pc[t] # "darAck" \/ (type[t] = "A" => Ready(n)')
          BY <3>6, <4>1
        <5> QED BY <5>1, <5>2
      <4>2. CASE t # s
        BY <3>2, <4>2
      <4> QED BY <4>1, <4>2
    <3> QED BY <1>1, <3>1, <3>2, <3>5, <3>7, <3>8, NodeContain
  <2> QED BY <2>3, <2>4
<1> QED BY <1>4, <1>5, <1>6, <1>7 DEF NodeStep

\* A sender that is killed stains the node it is connected to.
LEMMA KillSenderContain ==
    ASSUME TypeOK, ContainInv, restarts = 0, NEW s \in Senders, KillSender(s)
    PROVE  ContainInv'
<1>1. /\ UNCHANGED <<type, flow, srcs, link, reply, npc, job, handle>>
      /\ pc' = [pc EXCEPT ![s] = "dead"] /\ faults' = faults + 1
  BY DEF KillSender, Goto, socketVars, nodeVars
<1>2. pc'[s] = "dead" /\ \A t \in Senders \ {s} : pc'[t] = pc[t]
  BY <1>1 DEF TypeOK
<1>3. /\ StainInv /\ (\A t \in Senders : ConnInv(t)) /\ (\A m \in Nodes : HandleInv(m))
      /\ faults \in Nat
  BY SizeAssumption DEF ContainInv, TypeOK
<1>4. \A t \in Senders : HopOf(t)' = HopOf(t)
  BY <1>1 DEF HopOf
<1>5. Stained' \subseteq Stained \cup {HopOf(s)}
  BY <1>1, <1>2, <1>4 DEF Stained
<1>6. StainInv'
  BY <1>1, <1>3, <1>5, StainStep
<1>7. \A m : Ready(m)' = Ready(m)
  BY <1>1 DEF Ready
<1>8. \A t \in Senders : ConnInv(t)'
  BY <1>1, <1>2, <1>3, <1>4, <1>7 DEF ConnInv
<1>9. \A m \in Nodes : HandleInv(m)'
  BY <1>1, <1>3 DEF HandleInv
<1> QED BY <1>6, <1>8, <1>9 DEF ContainInv

\* At the start nothing is stained and nobody has a connection.
LEMMA ContainInit == Init => ContainInv
<1> SUFFICES ASSUME Init PROVE ContainInv
  OBVIOUS
<1>1. StainInv
  <2>1. Stained = {}
    BY DEF Init, Stained
  <2> QED BY <2>1, FS_EmptySet DEF Init, StainInv
<1>2. ASSUME NEW s \in Senders PROVE ConnInv(s)
  <2>1. \A k \in Flows : ~(k < 0)
    BY FlowNumbers
  <2> QED BY <2>1 DEF Init, ConnInv
<1>3. \A n \in Nodes : HandleInv(n)
  BY DEF Init, HandleInv
<1> QED BY <1>1, <1>2, <1>3 DEF ContainInv

\* Every step keeps crashes contained.
LEMMA ContainNext ==
    TypeOK /\ ExchangeInv /\ SenderInv /\ ContainInv /\ [Next]_vars => ContainInv'
<1> SUFFICES ASSUME TypeOK, ExchangeInv, SenderInv, ContainInv, [Next]_vars, restarts' = 0
             PROVE  ContainInv'
  BY DEF ContainInv
<1>1. ASSUME NEW n \in Nodes, StartNode(n) PROVE FALSE
  <2>1. restarts \in Nat /\ restarts' = restarts + 1
    BY <1>1, SizeAssumption DEF StartNode, TypeOK
  <2> QED BY <2>1
<1>2. restarts = 0
  <2>1. UNCHANGED restarts
    BY <1>1 DEF Next, SenderStep, NodeStep, Teardown, SetOwnRules, Connect, SendForwardingSpec,
       AwaitForwardingAck, SendDarshanaSpec, AwaitDarshanaAck, RemoveOwnRules, KillSender,
       KillNode, Accept, ReceiveForwardingSpec, ApplyForwardingSpec, ReceiveDarshanaSpec,
       ApplyDarshanaSpec, faultVars, vars
  <2> QED BY <2>1
<1>3. ASSUME NEW s \in Senders, SenderStep(s) \/ Teardown(s) PROVE ContainInv'
  BY <1>2, <1>3, SenderStepContain
<1>4. ASSUME NEW s \in Senders, KillSender(s) PROVE ContainInv'
  BY <1>2, <1>4, KillSenderContain
<1>5. ASSUME NEW n \in Nodes, NodeStep(n) PROVE ContainInv'
  BY <1>2, <1>5, NodeStepContain
<1>6. ASSUME NEW n \in Nodes, KillNode(n) PROVE ContainInv'
  BY <1>2, <1>6, NodeDiesContain DEF KillNode
<1>7. CASE UNCHANGED vars
  <2>1. UNCHANGED <<pc, type, flow, srcs, link, reply, npc, job, handle, faults>>
    BY <1>7 DEF vars, senderVars, socketVars, nodeVars, faultVars
  <2>2. Stained' = Stained /\ (\A m : Ready(m)' = Ready(m)) /\ \A t : HopOf(t)' = HopOf(t)
    BY <2>1 DEF Stained, Ready, HopOf
  <2>3. StainInv' /\ \A n \in Nodes : HandleInv(n)'
    BY <1>2, <2>1, <2>2 DEF ContainInv, StainInv, HandleInv
  <2>4. \A t \in Senders : ConnInv(t)'
    BY <1>2, <2>1, <2>2 DEF ContainInv, ConnInv
  <2> QED BY <2>3, <2>4 DEF ContainInv
<1> QED BY <1>1, <1>3, <1>4, <1>5, <1>6, <1>7 DEF Next

\* Crashes stay contained in every behaviour.
LEMMA ContainAlways == Spec => [](TypeOK /\ ExchangeInv /\ SenderInv /\ ContainInv)
BY TypeInit, TypeNext, ExchangeInit, ExchangeNext, SenderInvInit, SenderInvNext, ContainInit,
   ContainNext, PTL DEF Spec

\* Until a node is started again, no more nodes are down than processes were killed.
THEOREM CrashContainmentAlways == Spec => []CrashContainment
<1>1. TypeOK /\ ContainInv => CrashContainment
  <2> SUFFICES ASSUME TypeOK, ContainInv, restarts = 0
               PROVE  Cardinality({n \in Nodes : npc[n] = "down"}) <= faults
    BY DEF CrashContainment
  <2>1. IsFiniteSet(Stained) /\ Cardinality(Stained) <= faults /\ faults \in Nat
    BY SizeAssumption DEF ContainInv, StainInv, TypeOK
  <2>2. {n \in Nodes : npc[n] = "down"} \subseteq Stained
    BY DEF Stained
  <2>3. /\ IsFiniteSet({n \in Nodes : npc[n] = "down"})
        /\ Cardinality({n \in Nodes : npc[n] = "down"}) <= Cardinality(Stained)
    BY <2>1, <2>2, FS_Subset
  <2>4. Cardinality({n \in Nodes : npc[n] = "down"}) \in Nat /\ Cardinality(Stained) \in Nat
    BY <2>1, <2>3, FS_CardinalityType
  <2> QED BY <2>1, <2>3, <2>4
<1> QED BY <1>1, ContainAlways, PTL
-----------------------------------------------------------------------------
(* Set-up without a fault.                                                 *)

\* Without a fault every node is up and no connection fails.
LEMMA Calm ==
    ASSUME TypeOK, ContainInv, QuietInv, faults = 0
    PROVE  /\ restarts = 0
           /\ \A n \in Nodes : npc[n] # "down"
           /\ \A s \in Senders : pc[s] # "dead" /\ link[s] \notin {"fin", "rst", "broken"}
<1>1. restarts = 0 /\ StainInv /\ \A s \in Senders : pc[s] # "dead" /\ ConnInv(s)
  BY DEF QuietInv, ContainInv
<1>2. IsFiniteSet(Stained) /\ Cardinality(Stained) \in Nat /\ Cardinality(Stained) <= 0
  BY <1>1, FS_CardinalityType DEF StainInv
<1>3. Stained = {}
  BY <1>2, FS_EmptySet
<1>4. \A n \in Nodes : npc[n] # "down"
  BY <1>3 DEF Stained
<1>5. \A s \in Senders : HopOf(s) \in Nodes
  BY SpecTypes
<1> QED BY <1>1, <1>4, <1>5 DEF ConnInv

\* Faults are never taken back.
LEMMA FaultsGrow == TypeOK /\ [Next]_vars => faults' = faults \/ faults' = faults + 1
BY DEF Next, SenderStep, NodeStep, Teardown, SetOwnRules, Connect, SendForwardingSpec,
       AwaitForwardingAck, SendDarshanaSpec, AwaitDarshanaAck, RemoveOwnRules, KillSender,
       KillNode, StartNode, Accept, ReceiveForwardingSpec, ApplyForwardingSpec,
       ReceiveDarshanaSpec, ApplyDarshanaSpec, faultVars, vars

\* No step without a fault kills a process or needs one started.
LEMMA QuietNext == TypeOK /\ ContainInv /\ QuietInv /\ [Next]_vars => QuietInv'
<1> SUFFICES ASSUME TypeOK, ContainInv, QuietInv, [Next]_vars, faults' = 0
             PROVE  restarts' = 0 /\ \A s \in Senders : pc'[s] # "dead"
  BY DEF QuietInv
<1>1. faults = 0
  <2>1. faults \in Nat
    BY SizeAssumption DEF TypeOK
  <2> QED BY <2>1, FaultsGrow
<1>2. /\ restarts = 0 /\ \A n \in Nodes : npc[n] # "down"
      /\ \A s \in Senders : pc[s] # "dead" /\ link[s] # "broken"
  BY <1>1, Calm
<1>3. UNCHANGED <<restarts, faults>>
  BY <1>1, <1>2 DEF Next, SenderStep, NodeStep, Teardown, SetOwnRules, Connect,
     SendForwardingSpec, AwaitForwardingAck, SendDarshanaSpec, AwaitDarshanaAck, RemoveOwnRules,
     KillSender, KillNode, StartNode, Accept, ReceiveForwardingSpec, ApplyForwardingSpec,
     ReceiveDarshanaSpec, ApplyDarshanaSpec, faultVars, vars
<1>4. \/ UNCHANGED pc
      \/ \E s \in Senders, l \in SenderPC \ {"dead"} : pc' = [pc EXCEPT ![s] = l]
  <2>1. ASSUME NEW s \in Senders, SenderStep(s) \/ Teardown(s)
        PROVE  \E l \in SenderPC \ {"dead"} : pc' = [pc EXCEPT ![s] = l]
    BY <1>2, <2>1 DEF SenderStep, Teardown, SetOwnRules, Connect, SendForwardingSpec,
       AwaitForwardingAck, SendDarshanaSpec, AwaitDarshanaAck, RemoveOwnRules, Send, Goto, SenderPC
  <2>2. ASSUME NEW s \in Senders, KillSender(s) PROVE FALSE
    BY <1>1, <1>3, <2>2 DEF KillSender
  <2>3. ASSUME NEW n \in Nodes, NodeStep(n) \/ KillNode(n) \/ StartNode(n) PROVE UNCHANGED pc
    BY <2>3 DEF NodeStep, KillNode, StartNode, Accept, ReceiveForwardingSpec,
       ApplyForwardingSpec, ReceiveDarshanaSpec, ApplyDarshanaSpec, senderVars
  <2>4. UNCHANGED vars => UNCHANGED pc
    BY DEF vars, senderVars
  <2> QED BY <2>1, <2>2, <2>3, <2>4 DEF Next
<1>5. \A s \in Senders : pc'[s] # "dead"
  BY <1>2, <1>4 DEF TypeOK
<1> QED BY <1>2, <1>3, <1>5

\* A sequence that grows keeps what it contains.
LEMMA ContainsAppend ==
    ASSUME NEW S, NEW q \in Seq(S), NEW e \in S
    PROVE  /\ Contains(Append(q, e), e)
           /\ \A x : Contains(q, x) => Contains(Append(q, e), x)
<1>1. /\ Len(Append(q, e)) = Len(q) + 1 /\ Len(q) \in Nat
      /\ Append(q, e)[Len(q) + 1] = e
      /\ \A i \in 1 .. Len(q) : Append(q, e)[i] = q[i]
  OBVIOUS
<1>2. \A i \in 1 .. Len(q) : i \in 1 .. Len(q) + 1
  BY <1>1
<1> QED BY <1>1, <1>2 DEF Contains

\* Every step of a set-up without a fault keeps it complete as far as it has come.
LEMMA SetupNext ==
    ASSUME TypeOK, SenderInv, ContainInv, QuietInv, [Next]_vars, NEW s \in Senders, SetupInv(s)
    PROVE  SetupInv(s)'
<1> SUFFICES ASSUME faults' = 0, type'[s] = "A" PROVE SetupInv(s)'
  BY DEF SetupInv
<1>1. faults = 0
  <2>1. faults \in Nat
    BY SizeAssumption DEF TypeOK
  <2> QED BY <2>1, FaultsGrow
<1>2. pc[s] # "dead" /\ link[s] \notin {"fin", "rst", "broken"}
  BY <1>1, Calm
<1>3. /\ LoopInv(s) /\ flow[s] \in Nat /\ flow[s] < NumFlows /\ NumFlows \in Nat /\ flow[s] \in Flows
      /\ acked \in [Senders -> SUBSET (Nodes \X Rules)]
      /\ pc \in [Senders -> SenderPC] /\ flow \in [Senders -> Flows]
      /\ type \in [Senders -> {"A", "D"}]
  <2>1. /\ LoopInv(s) /\ flow[s] \in Flows /\ acked \in [Senders -> SUBSET (Nodes \X Rules)]
        /\ pc \in [Senders -> SenderPC] /\ flow \in [Senders -> Flows]
        /\ type \in [Senders -> {"A", "D"}]
    BY DEF SenderInv, TypeOK
  <2> QED BY <2>1, FlowNumbers
<1>4. CASE UNCHANGED <<pc, type, flow, own, acked>>
  BY <1>1, <1>4 DEF SetupInv, Answered, Steered, Exchanging
<1>5. ASSUME NEW t \in Senders, t # s, SenderStep(t) \/ Teardown(t)
      PROVE  /\ pc'[s] = pc[s] /\ type'[s] = type[s] /\ flow'[s] = flow[s]
             /\ own'[s] = own[s] /\ acked'[s] = acked[s]
  <2>1. /\ \E l : pc' = [pc EXCEPT ![t] = l]
        /\ type' = type \/ \E l : type' = [type EXCEPT ![t] = l]
        /\ flow' = flow \/ \E l : flow' = [flow EXCEPT ![t] = l]
        /\ own' = own \/ \E l : own' = [own EXCEPT ![t] = l]
        /\ acked' = acked \/ \E l : acked' = [acked EXCEPT ![t] = l]
    BY <1>5 DEF SenderStep, Teardown, SetOwnRules, Connect, SendForwardingSpec,
       AwaitForwardingAck, SendDarshanaSpec, AwaitDarshanaAck, RemoveOwnRules, Send, Goto
  <2> QED BY <1>5, <2>1 DEF TypeOK
<1>6. CASE /\ pc'[s] = pc[s] /\ type'[s] = type[s] /\ flow'[s] = flow[s]
           /\ own'[s] = own[s] /\ acked'[s] = acked[s]
  BY <1>1, <1>6 DEF SetupInv, Answered, Steered, Exchanging
<1>7. CASE SetOwnRules(s)
  <2> DEFINE r == <<srcs[s][SrcOf(flow[s])], DstOf(flow[s]), HopOf(s)>>
  <2>1. /\ pc[s] = "flow" /\ pc' = [pc EXCEPT ![s] = "connect"] /\ UNCHANGED <<type, flow, acked>>
        /\ own' = [own EXCEPT ![s] = Append(@, r)]
    BY <1>7 DEF SetOwnRules, Goto
  <2>2. /\ own[s] \in Seq(SrcAddrs \X DstAddrs \X Nodes) /\ own'[s] = Append(own[s], r)
        /\ pc'[s] = "connect"
    BY <2>1 DEF TypeOK
  <2>3. r \in SrcAddrs \X DstAddrs \X Nodes /\ srcs[s][SrcOf(flow[s])] \in Addrs(s)
    <3>1. DstOf(flow[s]) \in DstAddrs /\ SrcOf(flow[s]) \in SrcIndex /\ HopOf(s) \in Nodes
      BY <1>3, FlowTypes DEF HopOf
    <3>2. /\ srcs[s][SrcOf(flow[s])] \in Addrs(s)
          /\ srcs[s][SrcOf(flow[s])] \in SrcAddrs
      BY <3>1 DEF TypeOK
    <3> QED BY <3>1, <3>2
  <2>4. Contains(own'[s], r) /\ \A x : Contains(own[s], x) => Contains(own'[s], x)
    <3> HIDE DEF r
    <3> QED BY <2>2, <2>3, ContainsAppend
  <2>5. Steered(s, flow[s])'
    BY <2>1, <2>3, <2>4 DEF Steered, HopOf, Hop, DstOf
  <2>6. \A k \in Flows : k < flow[s] => Answered(s, k)' /\ Steered(s, k)'
    <3>1. \A k \in Flows : k < flow[s] => Answered(s, k) /\ Steered(s, k)
      BY <1>1, <2>1 DEF SetupInv
    <3> QED BY <2>1, <2>4, <3>1 DEF Answered, Steered, Hop, DstOf
  <2> QED BY <2>1, <2>2, <2>5, <2>6 DEF SetupInv, Steered, Hop, DstOf
<1>8. CASE Connect(s) \/ SendForwardingSpec(s) \/ SendDarshanaSpec(s) \/ AwaitForwardingAck(s)
  <2>1. /\ UNCHANGED <<type, flow, own>> /\ pc[s] \in Exchanging
        /\ \E l \in Exchanging : pc' = [pc EXCEPT ![s] = l]
    BY <1>2, <1>8 DEF Connect, SendForwardingSpec, SendDarshanaSpec, AwaitForwardingAck, Send,
                      Goto, Exchanging
  <2>2. acked'[s] = acked[s]
    <3>1. CASE SendForwardingSpec(s)
      BY <1>3, <2>1, <3>1 DEF SendForwardingSpec
    <3>2. CASE ~SendForwardingSpec(s)
      BY <1>8, <3>2 DEF Connect, SendDarshanaSpec, AwaitForwardingAck
    <3> QED BY <3>1, <3>2
  <2>3. pc'[s] \in Exchanging
    BY <1>3, <2>1
  <2> QED BY <1>1, <2>1, <2>2, <2>3 DEF SetupInv, Answered, Steered, Exchanging
<1>9. CASE AwaitDarshanaAck(s)
  <2>1. /\ pc[s] = "darAck" /\ UNCHANGED <<type, own>> /\ AckRead(s) /\ type[s] = "A"
        /\ flow' = [flow EXCEPT ![s] = NextFlow(s)]
        /\ acked' = [acked EXCEPT ![s] = @ \cup {Claim(s)}]
        /\ pc' = [pc EXCEPT ![s] = IF LastFlow(s) THEN "up" ELSE "flow"]
    BY <1>2, <1>9 DEF AwaitDarshanaAck, Goto, AckFailed
  <2>2. /\ flow'[s] = NextFlow(s) /\ acked'[s] = acked[s] \cup {Claim(s)}
        /\ pc'[s] = IF LastFlow(s) THEN "up" ELSE "flow"
    BY <1>3, <2>1
  <2>3. Claim(s) = <<HopOf(s), <<RuleOf(s)[1], DstOf(flow[s])>>>> /\ RuleOf(s)[1] \in Addrs(s)
    BY SpecTypes DEF Claim, RuleOf
  <2>4. ASSUME NEW k \in Flows, k < flow'[s] \/ pc'[s] = "up"
        PROVE  Answered(s, k)' /\ Steered(s, k)'
    <3>1. k \in Nat /\ k < NumFlows
      BY FlowNumbers
    <3>2. k < flow[s] \/ k = flow[s]
      BY <1>3, <2>2, <2>4, <3>1 DEF NextFlow, LastFlow
    <3>3. Steered(s, k)
      BY <1>1, <2>1, <3>2 DEF SetupInv, Exchanging
    <3>4. Steered(s, k)'
      BY <2>1, <3>3 DEF Steered, Hop, DstOf
    <3>5. Answered(s, k)'
      <4>1. CASE k < flow[s]
        <5>1. Answered(s, k)
          BY <1>1, <2>1, <4>1 DEF SetupInv
        <5> QED BY <2>2, <5>1 DEF Answered, Hop, DstOf
      <4>2. CASE k = flow[s]
        BY <2>2, <2>3, <4>2 DEF Answered, HopOf, Hop, DstOf
      <4> QED BY <3>2, <4>1, <4>2
    <3> QED BY <3>4, <3>5
  <2>5. pc'[s] \notin Exchanging
    BY <2>2 DEF Exchanging
  <2> QED BY <2>4, <2>5 DEF SetupInv
<1>10. ASSUME Teardown(s) \/ RemoveOwnRules(s) PROVE FALSE
  BY <1>3, <1>10 DEF Teardown, RemoveOwnRules, LoopInv
<1>11. ASSUME NEW t \in Senders, KillSender(t) PROVE FALSE
  BY <1>1, <1>11 DEF KillSender
<1>12. ASSUME NEW n \in Nodes, NodeStep(n) \/ KillNode(n) \/ StartNode(n)
       PROVE  UNCHANGED <<pc, type, flow, own, acked>>
  BY <1>12 DEF NodeStep, KillNode, StartNode, Accept, ReceiveForwardingSpec,
     ApplyForwardingSpec, ReceiveDarshanaSpec, ApplyDarshanaSpec, senderVars
<1>13. UNCHANGED vars => UNCHANGED <<pc, type, flow, own, acked>>
  BY DEF vars, senderVars
<1> QED BY <1>4, <1>5, <1>6, <1>7, <1>8, <1>9, <1>10, <1>11, <1>12, <1>13 DEF Next, SenderStep
\* What the sender has done of its set-up is complete, in every behaviour.
SetupsInv == \A s \in Senders : SetupInv(s)

\* Nothing is set up at first.
LEMMA SetupsInit == Init => QuietInv /\ SetupsInv
<1> SUFFICES ASSUME Init PROVE QuietInv /\ SetupsInv
  OBVIOUS
<1>1. QuietInv
  BY DEF Init, QuietInv
<1>2. ASSUME NEW s \in Senders PROVE SetupInv(s)
  <2>1. \A k \in Flows : ~(k < 0)
    BY FlowNumbers
  <2> QED BY <2>1 DEF Init, SetupInv, Exchanging
<1> QED BY <1>1, <1>2 DEF SetupsInv

\* The invariants of a session without a fault hold together.
LEMMA SetupAlways == Spec => [](TypeOK /\ ExchangeInv /\ SenderInv /\ ContainInv /\ QuietInv /\ SetupsInv)
<1>1. TypeOK /\ SenderInv /\ ContainInv /\ QuietInv /\ SetupsInv /\ [Next]_vars => SetupsInv'
  BY SetupNext DEF SetupsInv
<1> QED BY <1>1, ContainAlways, SetupsInit, QuietNext, PTL DEF Spec

\* A set-up that returned without a fault was answered for every flow and steers every
\* flow, although the code ignores every failure on the way.
THEOREM SetupCompleteAlways == Spec => []SetupComplete
<1>1. SenderInv /\ SetupsInv => SetupComplete
  BY DEF SetupComplete, SetupsInv, SetupInv, SenderInv, LoopInv, Answered, Steered
<1> QED BY <1>1, SetupAlways, PTL
-----------------------------------------------------------------------------
(* The nodes' tables without a fault.                                      *)

\* What a sequence contains after an element was appended, ...
LEMMA AppendedOnce ==
    ASSUME NEW S, NEW q \in Seq(S), NEW e \in S, NEW X
    PROVE  /\ \A x : Contains(Append(q, e), x) <=> Contains(q, x) \/ x = e
           /\ Once(q, X) /\ (e \notin X \/ ~Contains(q, e)) => Once(Append(q, e), X)
<1> DEFINE p == Append(q, e)
<1>1. /\ Len(p) = Len(q) + 1 /\ Len(q) \in Nat
      /\ p[Len(q) + 1] = e
      /\ \A i \in 1 .. Len(q) : p[i] = q[i]
  OBVIOUS
<1> HIDE DEF p
<1>2. ASSUME NEW i \in 1 .. Len(p) PROVE i \in 1 .. Len(q) \/ (i = Len(q) + 1 /\ p[i] = e)
  BY <1>1
<1>3. ASSUME NEW x, Contains(p, x) PROVE Contains(q, x) \/ x = e
  BY <1>1, <1>2, <1>3 DEF Contains
<1>4. ASSUME NEW x, Contains(q, x) \/ x = e PROVE Contains(p, x)
  BY <1>1, <1>4 DEF Contains
<1>5. ASSUME Once(q, X), e \notin X \/ ~Contains(q, e) PROVE Once(p, X)
  <2> SUFFICES ASSUME NEW i \in 1 .. Len(p), NEW j \in 1 .. Len(p), p[i] = p[j], p[i] \in X
               PROVE  i = j
    BY DEF Once
  <2>1. CASE i \in 1 .. Len(q) /\ j \in 1 .. Len(q)
    BY <1>1, <1>5, <2>1 DEF Once
  <2>2. CASE i \in 1 .. Len(q) /\ j = Len(q) + 1
    <3>1. q[i] = e /\ e \in X
      BY <1>1, <2>2
    <3> QED BY <1>5, <2>2, <3>1 DEF Contains
  <2>3. CASE j \in 1 .. Len(q) /\ i = Len(q) + 1
    <3>1. q[j] = e /\ e \in X
      BY <1>1, <2>3
    <3> QED BY <1>5, <2>3, <3>1 DEF Contains
  <2> QED BY <1>2, <2>1, <2>2, <2>3
<1> QED BY <1>3, <1>4, <1>5 DEF p

\* ... and after one was removed.
LEMMA RemovedOnce ==
    ASSUME NEW S, NEW q \in Seq(S), NEW e, NEW X
    PROVE  /\ \A x : x # e => (Contains(RemoveFirst(q, e), x) <=> Contains(q, x))
           /\ Once(q, X) => Once(RemoveFirst(q, e), X)
           /\ Once(q, X) /\ e \in X => ~Contains(RemoveFirst(q, e), e)
<1> DEFINE d == RemoveFirst(q, e)
<1>1. CASE ~Contains(q, e)
  <2>1. d = q
    BY <1>1 DEF RemoveFirst, Contains
  <2> QED BY <1>1, <2>1
<1>2. CASE Contains(q, e)
  <2>1. /\ d \in Seq(S) /\ Len(d) = Len(q) - 1
        /\ \E k \in 1 .. Len(q) :
              /\ q[k] = e /\ \A i \in 1 .. k - 1 : q[i] # e
              /\ \A i \in 1 .. Len(q) - 1 : d[i] = IF i < k THEN q[i] ELSE q[i + 1]
    BY <1>2, RemoveFirstAt
  <2>2. PICK k \in 1 .. Len(q) :
           q[k] = e /\ \A i \in 1 .. Len(q) - 1 : d[i] = IF i < k THEN q[i] ELSE q[i + 1]
    BY <2>1
  <2> HIDE DEF d
  <2> DEFINE f(i) == IF i < k THEN i ELSE i + 1
  <2>3. ASSUME NEW i \in 1 .. Len(d) PROVE f(i) \in 1 .. Len(q) /\ f(i) # k /\ d[i] = q[f(i)]
    BY <2>1, <2>2
  <2>4. ASSUME NEW i \in 1 .. Len(d), NEW j \in 1 .. Len(d), f(i) = f(j) PROVE i = j
    BY <2>1, <2>4
  <2> HIDE DEF f
  <2>5. \A x : x # e /\ Contains(q, x) => Contains(d, x)
    BY RemoveFirstIn DEF d
  <2>6. \A x : Contains(d, x) => Contains(q, x)
    BY <2>3 DEF Contains
  <2>7. ASSUME Once(q, X) PROVE Once(d, X)
    <3> SUFFICES ASSUME NEW i \in 1 .. Len(d), NEW j \in 1 .. Len(d), d[i] = d[j], d[i] \in X
                 PROVE  i = j
      BY DEF Once
    <3>1. f(i) = f(j)
      BY <2>3, <2>7 DEF Once
    <3> QED BY <2>4, <3>1
  <2>8. ASSUME Once(q, X), e \in X, NEW i \in 1 .. Len(d), d[i] = e PROVE FALSE
    <3>1. f(i) = k
      BY <2>2, <2>3, <2>8 DEF Once
    <3> QED BY <2>3, <3>1
  <2> QED BY <2>5, <2>6, <2>7, <2>8 DEF d, Contains
<1> QED BY <1>1, <1>2

\* The rules of a sender's flows are its own and differ.
LEMMA FlowRules ==
    ASSUME NEW s \in Senders, NEW k \in Flows
    PROVE  /\ FlowRule(s, k) \in RulesOf(s)
           /\ \A m \in Flows : FlowRule(s, k) = FlowRule(s, m) => k = m
           /\ \A t \in Senders : t # s => FlowRule(s, k) \notin RulesOf(t)
<1>1. SrcOf(k) \in SrcIndex /\ DstOf(k) \in DstAddrs /\ k % NumDsts \in DstIndex
  BY FlowIndices, FlowTypes
<1>2. LocalIP[s][SrcOf(k)] \in Addrs(s) /\ Addrs(s) \subseteq SrcAddrs
  BY <1>1, AddrTypes
<1>3. FlowRule(s, k) \in RulesOf(s)
  BY <1>1, <1>2 DEF FlowRule, RulesOf, Rules
<1>4. ASSUME NEW m \in Flows, FlowRule(s, k) = FlowRule(s, m) PROVE k = m
  <2>1. SrcOf(m) \in SrcIndex /\ m % NumDsts \in DstIndex
    BY FlowIndices
  <2>2. LocalIP[s][SrcOf(k)] = LocalIP[s][SrcOf(m)] /\ Dsts[k % NumDsts] = Dsts[m % NumDsts]
    BY <1>4 DEF FlowRule, DstOf
  <2>3. SrcOf(k) = SrcOf(m) /\ k % NumDsts = m % NumDsts
    BY <1>1, <2>1, <2>2, DistinctAssumption
  <2> QED BY <2>3, FlowOf
<1>5. ASSUME NEW t \in Senders, t # s PROVE FlowRule(s, k) \notin RulesOf(t)
  BY <1>2, <1>5, AddrAssumption DEF FlowRule, RulesOf
<1> QED BY <1>3, <1>4, <1>5
\* What a session without a fault rests on.
SessionInv == TypeOK /\ ExchangeInv /\ SenderInv /\ ContainInv /\ QuietInv

\* The step of a sender leaves the flows in place, for each sender: the node has applied
\* the spec when the second echo moves the loop on.
LEMMA SenderInPlace ==
    ASSUME SessionInv, faults = 0, NEW t \in Senders, SenderStep(t) \/ Teardown(t),
           NEW s \in Senders
    PROVE  UNCHANGED table /\ InPlace(s)' = InPlace(s)
<1> USE DEF SessionInv
<1>1. UNCHANGED <<table, client, npc>>
  BY DEF SenderStep, Teardown, SetOwnRules, Connect, SendForwardingSpec, AwaitForwardingAck,
         SendDarshanaSpec, AwaitDarshanaAck, RemoveOwnRules, nodeVars
<1>2. CASE s # t
  <2>1. /\ \E l : pc' = [pc EXCEPT ![t] = l]
        /\ type' = type \/ \E l : type' = [type EXCEPT ![t] = l]
        /\ flow' = flow \/ \E l : flow' = [flow EXCEPT ![t] = l]
        /\ link' = link \/ \E l : link' = [link EXCEPT ![t] = l]
        /\ reply' = reply \/ \E l : reply' = [reply EXCEPT ![t] = l]
    BY DEF SenderStep, Teardown, SetOwnRules, Connect, SendForwardingSpec, AwaitForwardingAck,
           SendDarshanaSpec, AwaitDarshanaAck, RemoveOwnRules, Send, Goto, socketVars
  <2>2. /\ pc'[s] = pc[s] /\ type'[s] = type[s] /\ flow'[s] = flow[s] /\ link'[s] = link[s]
        /\ reply'[s] = reply[s]
    BY <1>2, <2>1 DEF TypeOK
  <2>3. Applied(s)' = Applied(s)
    BY <1>1, <2>2 DEF Applied, HopOf, Hop
  <2> QED BY <1>1, <2>2, <2>3 DEF InPlace
<1>3. CASE s = t
  <2>1. /\ pc[s] # "dead" /\ link[s] \notin {"fin", "rst", "broken"}
        /\ LoopInv(s) /\ InTransit(s)
        /\ pc[s] \in {"flow", "connect", "up", "cleanOwn", "done"} => link[s] = "none"
    <3>1. pc[s] # "dead" /\ link[s] \notin {"fin", "rst", "broken"} /\ restarts = 0
      BY Calm
    <3> QED BY <3>1 DEF ContainInv, ConnInv, SenderInv, ExchangeInv
  <2>2. /\ pc \in [Senders -> SenderPC] /\ type \in [Senders -> {"A", "D"}]
        /\ flow \in [Senders -> Flows] /\ link \in [Senders -> Links]
        /\ reply \in [Senders -> {"none", "ack"}]
    BY DEF TypeOK
  <2>3. /\ flow[s] \in Nat /\ flow[s] < NumFlows /\ NumFlows \in Nat /\ type[s] \in {"A", "D"}
        /\ \A k \in Flows : k \in Nat /\ k < NumFlows
    <3>1. flow[s] \in Flows /\ type[s] \in {"A", "D"}
      BY <2>2
    <3> QED BY <3>1, FlowNumbers
  <2>4. CASE SetOwnRules(s) \/ Connect(s)
    <3>1. /\ pc'[s] \in {"connect", "sendFwd"} /\ UNCHANGED <<type, flow>>
          /\ link'[s] \in {"none", "queued"} /\ pc[s] \in {"flow", "connect"}
      <4>1. npc[HopOf(s)] # "down"
        BY Calm, SpecTypes
      <4>2. CASE SetOwnRules(s)
        BY <2>1, <2>2, <4>2 DEF SetOwnRules, Goto, socketVars
      <4>3. CASE Connect(s)
        BY <2>1, <2>2, <4>1, <4>3 DEF Connect, Goto
      <4> QED BY <2>4, <4>2, <4>3
    <3>2. ~Applied(s) /\ ~Applied(s)'
      BY <2>1, <3>1 DEF Applied
    <3> QED BY <1>1, <3>1, <3>2 DEF InPlace
  <2>5. CASE SendForwardingSpec(s) \/ AwaitForwardingAck(s) \/ SendDarshanaSpec(s)
    <3>1. /\ UNCHANGED <<type, flow>> /\ link'[s] = link[s]
          /\ pc[s] \in {"sendFwd", "fwdAck", "sendDar"}
          /\ pc'[s] \in {"fwdAck", "sendDar"} \/ (pc'[s] = "darAck" /\ reply'[s] = "none")
      <4>1. CASE SendForwardingSpec(s)
        BY <2>1, <2>2, <4>1 DEF SendForwardingSpec, Send, Goto
      <4>2. CASE AwaitForwardingAck(s)
        BY <2>1, <2>2, <4>2 DEF AwaitForwardingAck, AckFailed, Goto
      <4>3. CASE SendDarshanaSpec(s)
        BY <2>1, <2>2, <4>3 DEF SendDarshanaSpec, Send, Goto, InTransit
      <4> QED BY <2>5, <4>1, <4>2, <4>3
    <3>2. Applied(s)' = Applied(s)
      BY <1>1, <3>1 DEF Applied, HopOf, Hop
    <3> QED BY <1>1, <3>1, <3>2 DEF InPlace
  <2>6. CASE AwaitDarshanaAck(s)
    <3>1. /\ pc[s] = "darAck" /\ reply[s] = "ack" /\ type'[s] = type[s] /\ link'[s] = "none"
          /\ flow'[s] = NextFlow(s)
          /\ pc'[s] = IF LastFlow(s) THEN IF type[s] = "A" THEN "up" ELSE "cleanOwn"
                                     ELSE IF type[s] = "A" THEN "flow" ELSE "connect"
      BY <2>1, <2>2, <2>6 DEF AwaitDarshanaAck, AckRead, AckFailed, Goto
    <3>2. Applied(s) /\ ~Applied(s)'
      BY <3>1 DEF Applied
    <3>3. ASSUME NEW k \in Flows PROVE k \in InPlace(s) <=> k \in InPlace(s)'
      <4>1. CASE type[s] = "A"
        <5>1. k \in InPlace(s) <=> k <= flow[s]
          BY <2>3, <3>1, <3>2, <4>1 DEF InPlace
        <5>2. k \in InPlace(s)' <=> pc'[s] = "up" \/ k < flow'[s]
          BY <3>1, <3>2, <4>1 DEF InPlace
        <5> QED BY <2>3, <3>1, <4>1, <5>1, <5>2 DEF NextFlow, LastFlow
      <4>2. CASE type[s] = "D"
        <5>1. k \in InPlace(s) <=> k > flow[s]
          BY <2>3, <3>1, <3>2, <4>2 DEF InPlace
        <5>2. k \in InPlace(s)' <=> pc'[s] # "cleanOwn" /\ k >= flow'[s]
          <6>1. flow'[s] \in Nat
            BY <2>3, <3>1 DEF NextFlow
          <6> QED BY <2>3, <3>1, <3>2, <4>2, <6>1 DEF InPlace
        <5> QED BY <2>3, <3>1, <4>2, <5>1, <5>2 DEF NextFlow, LastFlow
      <4> QED BY <2>3, <4>1, <4>2
    <3> QED BY <1>1, <3>3 DEF InPlace
  <2>7. CASE Teardown(s)
    <3>1. /\ type[s] = "A" /\ flow[s] = 0 /\ link[s] = "none" /\ pc[s] = "up"
          /\ type'[s] = "D" /\ pc'[s] = "connect" /\ UNCHANGED <<flow, link>>
      BY <2>1, <2>2, <2>7 DEF Teardown, LoopInv, Goto, socketVars
    <3>2. ~Applied(s)'
      BY <3>1 DEF Applied
    <3>3. InPlace(s) = Flows
      BY <3>1 DEF InPlace
    <3>4. InPlace(s)' = Flows
      <4>1. ASSUME NEW k \in Flows PROVE k > flow'[s] \/ (k = flow'[s] /\ ~Applied(s)')
        BY <2>3, <3>1, <3>2
      <4> QED BY <3>1, <4>1 DEF InPlace
    <3> QED BY <1>1, <3>3, <3>4
  <2>8. CASE RemoveOwnRules(s)
    <3>1. /\ type[s] = "D" /\ pc[s] = "cleanOwn" /\ type'[s] = "D"
          /\ pc'[s] \in {"cleanOwn", "done"}
      BY <2>1, <2>2, <2>8 DEF RemoveOwnRules, LoopInv, Goto
    <3> QED BY <1>1, <3>1 DEF InPlace
  <2> QED BY <1>3, <2>4, <2>5, <2>6, <2>7, <2>8 DEF SenderStep
<1> QED BY <1>2, <1>3

\* So does every step of a node but the one that applies a forwarding spec.
LEMMA NodeInPlace ==
    ASSUME SessionInv, faults = 0, NEW n \in Nodes, NEW s \in Senders,
           \/ Accept(n) \/ ReceiveForwardingSpec(n) \/ ReceiveDarshanaSpec(n)
           \/ ApplyDarshanaSpec(n)
    PROVE  UNCHANGED <<table, senderVars>> /\ InPlace(s)' = InPlace(s)
<1> USE DEF SessionInv
<1>1. UNCHANGED senderVars
  BY DEF Accept, ReceiveForwardingSpec, ReceiveDarshanaSpec, ApplyDarshanaSpec
<1>2. /\ \A q \in Senders : pc[q] # "dead" /\ HandleInv(n)
      /\ npc \in [Nodes -> NodePC] /\ client \in [Nodes -> Senders]
      /\ link \in [Senders -> Links] /\ reply \in [Senders -> {"none", "ack"}]
      /\ HopOf(s) \in Nodes /\ client[n] \in Senders
  <2>1. HopOf(s) \in Nodes
    BY SpecTypes
  <2>2. \A q \in Senders : pc[q] # "dead" /\ HandleInv(n)
    BY Calm DEF ContainInv
  <2> QED BY <2>1, <2>2 DEF TypeOK
<1>3. ASSUME UNCHANGED table, Applied(s)' = Applied(s)
      PROVE  UNCHANGED <<table, senderVars>> /\ InPlace(s)' = InPlace(s)
  BY <1>1, <1>3 DEF InPlace, senderVars
<1>4. HopOf(s)' = HopOf(s) /\ pc'[s] = pc[s]
  BY <1>1 DEF senderVars, HopOf, Hop
<1>5. CASE Accept(n)
  <2> DEFINE c == Head(backlog[n])
  <2>1. /\ npc[n] = "accept" /\ npc' = [npc EXCEPT ![n] = "fwdRecv"]
        /\ client' = [client EXCEPT ![n] = c] /\ link' = [link EXCEPT ![c] = "served"]
        /\ UNCHANGED <<table, reply>> /\ backlog[n] # <<>>
    BY <1>5 DEF Accept, GotoN
  <2>2. HopOf(c) = n
    <3>1. backlog[n] \in Seq(Senders) /\ Queued(n)
      BY DEF TypeOK, ExchangeInv
    <3>2. 1 \in 1 .. Len(backlog[n]) /\ c = backlog[n][1]
      BY <2>1, <3>1
    <3> QED BY <3>1, <3>2 DEF Queued, Waiting
  <2>3. Applied(s)' = Applied(s)
    <3>1. CASE HopOf(s) = n
      BY <1>2, <1>4, <2>1, <3>1 DEF Applied
    <3>2. CASE HopOf(s) # n
      <4>1. s # c
        BY <2>2, <3>2
      <4> QED BY <1>2, <1>4, <2>1, <3>2, <4>1 DEF Applied
    <3> QED BY <3>1, <3>2
  <2> QED BY <1>3, <2>1, <2>3
<1>6. CASE ReceiveForwardingSpec(n)
  <2> DEFINE c == client[n]
  <2>1. /\ npc[n] = "fwdRecv" /\ npc' = [npc EXCEPT ![n] = "fwdApply"]
        /\ reply' = [reply EXCEPT ![c] = "ack"] /\ UNCHANGED <<table, link, client>>
    BY <1>2, <1>6 DEF ReceiveForwardingSpec, RecvSpec, GotoN
  <2>2. pc[c] # "darAck"
    BY <2>1 DEF ExchangeInv, Served, Lockstep
  <2>3. Applied(s)' = Applied(s)
    <3>1. pc[s] = "darAck" => reply'[s] = reply[s]
      BY <1>2, <2>1, <2>2
    <3>2. CASE HopOf(s) = n
      BY <1>2, <1>4, <2>1, <3>1, <3>2 DEF Applied
    <3>3. CASE HopOf(s) # n
      BY <1>2, <1>4, <2>1, <3>1, <3>3 DEF Applied
    <3> QED BY <3>2, <3>3
  <2> QED BY <1>3, <2>1, <2>3
<1>7. CASE ReceiveDarshanaSpec(n)
  <2> DEFINE c == client[n]
  <2>1. /\ npc[n] = "darRecv" /\ npc' = [npc EXCEPT ![n] = "darApply"]
        /\ req[c] = "dar"
        /\ reply' = [reply EXCEPT ![c] = "ack"] /\ UNCHANGED <<table, link, client>>
    BY <1>2, <1>7 DEF ReceiveDarshanaSpec, RecvSpec, GotoN
  <2>2. pc[c] = "darAck" /\ link[c] = "served" /\ HopOf(c) = n
    <3>1. Served(n) /\ InTransit(c)
      BY <1>2 DEF ExchangeInv
    <3> QED BY <1>2, <2>1, <3>1 DEF Served, Lockstep, InTransit
  <2>3. Applied(s)' = Applied(s)
    <3>1. CASE s = c
      <4>1. Applied(s)
        BY <2>1, <2>2, <3>1 DEF Applied
      <4>2. Applied(s)'
        BY <1>2, <1>4, <2>1, <2>2, <3>1 DEF Applied
      <4> QED BY <4>1, <4>2
    <3>2. CASE s # c
      <4>1. reply'[s] = reply[s]
        BY <1>2, <2>1, <3>2
      <4>2. CASE HopOf(s) = n
        BY <1>2, <1>4, <2>1, <3>2, <4>1, <4>2 DEF Applied
      <4>3. CASE HopOf(s) # n
        BY <1>2, <1>4, <2>1, <4>1, <4>3 DEF Applied
      <4> QED BY <4>2, <4>3
    <3> QED BY <3>1, <3>2
  <2> QED BY <1>3, <2>1, <2>3
<1>8. CASE ApplyDarshanaSpec(n)
  <2>1. /\ npc[n] = "darApply" /\ npc' = [npc EXCEPT ![n] = "accept"]
        /\ UNCHANGED <<table, link, reply, client>>
    BY <1>2, <1>8 DEF ApplyDarshanaSpec, HandleInv, GotoN, socketVars
  <2>2. Applied(s)' = Applied(s)
    <3>1. CASE HopOf(s) = n
      BY <1>2, <1>4, <2>1, <3>1 DEF Applied
    <3>2. CASE HopOf(s) # n
      BY <1>2, <1>4, <2>1, <3>2 DEF Applied
    <3> QED BY <3>1, <3>2
  <2> QED BY <1>3, <2>1, <2>2
<1> QED BY <1>5, <1>6, <1>7, <1>8
\* Applying a forwarding spec puts the current flow of the node's client in place, or
\* takes it away, and changes nothing for the other senders.
LEMMA ApplyInPlace ==
    ASSUME SessionInv, faults = 0, NEW n \in Nodes, ApplyForwardingSpec(n),
           NEW c \in Senders, c = client[n]
    PROVE  /\ flow[c] \in Flows /\ HopOf(c) = n /\ job[n] = SpecOf(c)
           /\ UNCHANGED senderVars
           /\ pc[c] \notin {"up", "cleanOwn", "done"}
           /\ \A s \in Senders \ {c} : InPlace(s)' = InPlace(s)
           /\ type[c] = "A" => flow[c] \notin InPlace(c) /\ InPlace(c)' = InPlace(c) \cup {flow[c]}
           /\ type[c] = "D" => flow[c] \in InPlace(c) /\ InPlace(c)' = InPlace(c) \ {flow[c]}
<1> USE DEF SessionInv
<1>1. /\ npc[n] = "fwdApply" /\ npc' = [npc EXCEPT ![n] = "darRecv"]
      /\ UNCHANGED <<senderVars, link, reply, client>>
  BY DEF ApplyForwardingSpec, GotoN, socketVars
<1>2. /\ npc \in [Nodes -> NodePC] /\ client \in [Nodes -> Senders] /\ c \in Senders
      /\ flow[c] \in Flows /\ flow[c] \in Nat /\ type[c] \in {"A", "D"}
      /\ \A k \in Flows : k \in Nat
  <2>1. /\ npc \in [Nodes -> NodePC] /\ client \in [Nodes -> Senders] /\ c \in Senders
        /\ flow[c] \in Flows /\ type[c] \in {"A", "D"}
    BY DEF TypeOK
  <2> QED BY <2>1, FlowNumbers
<1>3. /\ link[c] = "served" /\ HopOf(c) = n /\ job[n] = SpecOf(c)
      /\ pc[c] \in {"fwdAck", "sendDar", "darAck"} /\ (pc[c] = "darAck" => reply[c] = "none")
  <2>1. Served(n) /\ pc[c] # "dead"
    BY <1>2, Calm DEF ExchangeInv
  <2> QED BY <1>1, <2>1 DEF Served, Lockstep
<1>4. /\ UNCHANGED <<pc, type, flow>> /\ \A s \in Senders : HopOf(s)' = HopOf(s)
  BY <1>1 DEF senderVars, HopOf, Hop
<1>5. ~Applied(c)
  BY <1>1, <1>3 DEF Applied
<1>6. Applied(c)'
  BY <1>1, <1>2, <1>3, <1>4 DEF Applied
<1>7. ASSUME NEW s \in Senders \ {c} PROVE InPlace(s)' = InPlace(s)
  <2>1. Applied(s)' = Applied(s)
    <3>1. CASE HopOf(s) = n
      BY <1>1, <1>4, <3>1 DEF Applied
    <3>2. CASE HopOf(s) # n
      <4>1. HopOf(s) \in Nodes
        BY SpecTypes
      <4> QED BY <1>1, <1>2, <1>4, <3>2, <4>1 DEF Applied
    <3> QED BY <3>1, <3>2
  <2> QED BY <1>4, <2>1 DEF InPlace
<1>8. ASSUME type[c] = "A"
      PROVE  flow[c] \notin InPlace(c) /\ InPlace(c)' = InPlace(c) \cup {flow[c]}
  <2>1. InPlace(c) = {k \in Flows : k < flow[c]}
    BY <1>3, <1>5, <1>8 DEF InPlace
  <2>2. InPlace(c)' = {k \in Flows : k < flow[c] \/ k = flow[c]}
    BY <1>3, <1>4, <1>6, <1>8 DEF InPlace
  <2> QED BY <1>2, <2>1, <2>2
<1>9. ASSUME type[c] = "D"
      PROVE  flow[c] \in InPlace(c) /\ InPlace(c)' = InPlace(c) \ {flow[c]}
  <2>1. InPlace(c) = {k \in Flows : k > flow[c] \/ k = flow[c]}
    BY <1>3, <1>5, <1>9 DEF InPlace
  <2>2. InPlace(c)' = {k \in Flows : k > flow[c]}
    BY <1>3, <1>4, <1>6, <1>9 DEF InPlace
  <2> QED BY <1>2, <2>1, <2>2
<1> QED BY <1>1, <1>2, <1>3, <1>7, <1>8, <1>9

\* What is in place and what the tables hold change together.
LEMMA TableFrame ==
    ASSUME NEW s \in Senders, TableInv(s), faults = 0, UNCHANGED table, InPlace(s)' = InPlace(s)
    PROVE  TableInv(s)'
<1>1. InstalledBy(s)' = InstalledBy(s)
  BY DEF InstalledBy
<1> QED BY <1>1 DEF TableInv

\* A forwarding spec that is applied changes the tables as it changes the flows in place.
LEMMA ApplyTable ==
    ASSUME SessionInv, faults = 0, NEW n \in Nodes, ApplyForwardingSpec(n),
           NEW s \in Senders, TableInv(s)
    PROVE  TableInv(s)'
<1> USE DEF SessionInv
<1> SUFFICES ASSUME s \notin StunSenders PROVE TableInv(s)'
  BY DEF TableInv
<1>0. PICK c \in Senders : c = client[n]
  BY DEF TypeOK
<1> DEFINE r == RuleOf(c)
<1>1. /\ InstalledBy(s) = InPlace(s)
      /\ \A m \in Nodes : \A x \in RulesOf(s) :
            Contains(table[m], x) => \E k \in Flows : x = FlowRule(s, k) /\ Hop(k) = m
      /\ \A m \in Nodes : Once(table[m], RulesOf(s))
  BY DEF TableInv
<1>2. /\ flow[c] \in Flows /\ HopOf(c) = n /\ job[n] = SpecOf(c)
      /\ \A q \in Senders \ {c} : InPlace(q)' = InPlace(q)
      /\ type[c] = "A" => flow[c] \notin InPlace(c) /\ InPlace(c)' = InPlace(c) \cup {flow[c]}
      /\ type[c] = "D" => flow[c] \in InPlace(c) /\ InPlace(c)' = InPlace(c) \ {flow[c]}
  BY <1>0, ApplyInPlace
<1>3. /\ table \in [Nodes -> Seq(Rules)] /\ r \in Rules /\ r[1] \in Addrs(c)
      /\ type[c] \in {"A", "D"}
  BY <1>2, SpecTypes DEF TypeOK
<1>4. /\ \A m \in Nodes \ {n} : table'[m] = table[m]
      /\ table'[n] = IF type[c] = "A" THEN Append(table[n], r) ELSE RemoveFirst(table[n], r)
  BY <1>2, <1>3 DEF ApplyForwardingSpec, SpecOf
<1>5. table[n] \in Seq(Rules)
  BY <1>3
<1>6. CASE s # c
  <2>1. r \notin RulesOf(s)
    BY <1>2, <1>3, <1>6, AddrAssumption DEF RulesOf
  <2>2. /\ \A x \in RulesOf(s) : Contains(table'[n], x) <=> Contains(table[n], x)
        /\ Once(table'[n], RulesOf(s))
    <3> HIDE DEF r
    <3>1. CASE type[c] = "A"
      <4>1. /\ \A x : Contains(Append(table[n], r), x) <=> Contains(table[n], x) \/ x = r
            /\ Once(Append(table[n], r), RulesOf(s))
        BY <1>1, <1>3, <1>5, <2>1, AppendedOnce
      <4> QED BY <1>4, <2>1, <3>1, <4>1
    <3>2. CASE type[c] = "D"
      <4>1. /\ \A x : x # r => (Contains(RemoveFirst(table[n], r), x) <=> Contains(table[n], x))
            /\ Once(RemoveFirst(table[n], r), RulesOf(s))
        BY <1>1, <1>5, RemovedOnce
      <4> QED BY <1>4, <2>1, <3>2, <4>1
    <3> QED BY <1>3, <3>1, <3>2
  <2>3. \A m \in Nodes : /\ \A x \in RulesOf(s) : Contains(table'[m], x) <=> Contains(table[m], x)
                         /\ Once(table'[m], RulesOf(s))
    BY <1>1, <1>4, <2>2
  <2>4. InstalledBy(s)' = InstalledBy(s)
    <3>1. ASSUME NEW k \in Flows
          PROVE  Contains(table'[Hop(k)], FlowRule(s, k)) <=> Contains(table[Hop(k)], FlowRule(s, k))
      BY <2>3, FlowRules, FlowTypes
    <3> QED BY <3>1 DEF InstalledBy, FlowRule
  <2>5. InPlace(s)' = InPlace(s)
    BY <1>2, <1>6
  <2> QED BY <1>1, <2>3, <2>4, <2>5 DEF TableInv
<1>7. CASE s = c
  <2> DEFINE f == flow[s]
  <2>1. r = FlowRule(s, f) /\ f \in Flows /\ Hop(f) = n
    BY <1>2, <1>7 DEF SenderInv, OwnInv, RuleOf, FlowRule, HopOf
  <2>2. r \in RulesOf(s) /\ \A k \in Flows : FlowRule(s, k) = r => k = f
    BY <2>1, FlowRules
  <2>3. CASE type[c] = "A"
    <3>1. ~Contains(table[n], r)
      <4>1. f \notin InstalledBy(s)
        BY <1>1, <1>2, <1>7, <2>3
      <4> QED BY <2>1, <4>1 DEF InstalledBy, FlowRule
    <3>2. /\ \A x : Contains(table'[n], x) <=> Contains(table[n], x) \/ x = r
          /\ Once(table'[n], RulesOf(s))
      <4> HIDE DEF r
      <4>1. /\ \A x : Contains(Append(table[n], r), x) <=> Contains(table[n], x) \/ x = r
            /\ Once(Append(table[n], r), RulesOf(s))
        BY <1>1, <1>3, <1>5, <3>1, AppendedOnce
      <4> QED BY <1>4, <2>3, <4>1
    <3>3. InstalledBy(s)' = InstalledBy(s) \cup {f}
      <4>1. ASSUME NEW k \in Flows
            PROVE  Contains(table'[Hop(k)], FlowRule(s, k))
                       <=> Contains(table[Hop(k)], FlowRule(s, k)) \/ k = f
        <5>1. CASE Hop(k) = n
          BY <2>1, <2>2, <3>2, <5>1
        <5>2. CASE Hop(k) # n
          BY <1>4, <2>1, <5>2, FlowTypes
        <5> QED BY <5>1, <5>2
      <4> QED BY <2>1, <4>1 DEF InstalledBy, FlowRule
    <3>4. InPlace(s)' = InPlace(s) \cup {f}
      BY <1>2, <1>7, <2>3
    <3>5. \A m \in Nodes : \A x \in RulesOf(s) :
             Contains(table'[m], x) => \E k \in Flows : x = FlowRule(s, k) /\ Hop(k) = m
      BY <1>1, <1>4, <2>1, <3>2
    <3>6. \A m \in Nodes : Once(table'[m], RulesOf(s))
      BY <1>1, <1>4, <3>2
    <3> QED BY <1>1, <3>3, <3>4, <3>5, <3>6 DEF TableInv
  <2>4. CASE type[c] = "D"
    <3>1. /\ \A x : x # r => (Contains(table'[n], x) <=> Contains(table[n], x))
          /\ Once(table'[n], RulesOf(s)) /\ ~Contains(table'[n], r)
      <4> HIDE DEF r
      <4>1. /\ \A x : x # r => (Contains(RemoveFirst(table[n], r), x) <=> Contains(table[n], x))
            /\ Once(RemoveFirst(table[n], r), RulesOf(s)) /\ ~Contains(RemoveFirst(table[n], r), r)
        BY <1>1, <1>5, <2>2, RemovedOnce
      <4> QED BY <1>4, <2>4, <4>1
    <3>2. InstalledBy(s)' = InstalledBy(s) \ {f}
      <4>1. ASSUME NEW k \in Flows
            PROVE  Contains(table'[Hop(k)], FlowRule(s, k))
                       <=> Contains(table[Hop(k)], FlowRule(s, k)) /\ k # f
        <5>1. CASE Hop(k) = n
          BY <2>1, <2>2, <3>1, <5>1
        <5>2. CASE Hop(k) # n
          BY <1>4, <2>1, <5>2, FlowTypes
        <5> QED BY <5>1, <5>2
      <4> QED BY <2>1, <4>1 DEF InstalledBy, FlowRule
    <3>3. InPlace(s)' = InPlace(s) \ {f}
      BY <1>2, <1>7, <2>4
    <3>4. \A m \in Nodes : \A x \in RulesOf(s) :
             Contains(table'[m], x) => \E k \in Flows : x = FlowRule(s, k) /\ Hop(k) = m
      BY <1>1, <1>4, <3>1
    <3>5. \A m \in Nodes : Once(table'[m], RulesOf(s))
      BY <1>1, <1>4, <3>1
    <3> QED BY <1>1, <3>2, <3>3, <3>4, <3>5 DEF TableInv
  <2> QED BY <1>3, <2>3, <2>4
<1> QED BY <1>6, <1>7
\* As long as there is no fault, only the threads of live processes and applications move.
LEMMA SessionSteps ==
    ASSUME SessionInv, [Next]_vars, faults' = 0
    PROVE  /\ faults = 0
           /\ \/ \E t \in Senders : SenderStep(t) \/ Teardown(t)
              \/ \E n \in Nodes : \/ Accept(n) \/ ReceiveForwardingSpec(n)
                                  \/ ReceiveDarshanaSpec(n) \/ ApplyDarshanaSpec(n)
              \/ \E n \in Nodes : ApplyForwardingSpec(n)
              \/ UNCHANGED vars
<1>1. faults = 0
  <2>1. faults \in Nat
    BY SizeAssumption DEF TypeOK, SessionInv
  <2> QED BY <2>1, FaultsGrow DEF SessionInv
<1>2. \A n \in Nodes : npc[n] # "down"
  BY <1>1, Calm DEF SessionInv
<1>3. \A t \in Senders : ~KillSender(t)
  BY <1>1 DEF KillSender
<1>4. \A n \in Nodes : ~KillNode(n)
  BY <1>1 DEF KillNode
<1>5. \A n \in Nodes : ~StartNode(n)
  BY <1>2 DEF StartNode
<1> QED BY <1>1, <1>3, <1>4, <1>5 DEF Next, NodeStep

\* Every step keeps the tables and the flows in place together.
LEMMA TableNext ==
    ASSUME SessionInv, [Next]_vars, NEW s \in Senders, TableInv(s)
    PROVE  TableInv(s)'
<1> SUFFICES ASSUME faults' = 0 PROVE TableInv(s)'
  BY DEF TableInv
<1>1. faults = 0
  BY SessionSteps
<1>2. ASSUME NEW t \in Senders, SenderStep(t) \/ Teardown(t) PROVE TableInv(s)'
  BY <1>1, <1>2, SenderInPlace, TableFrame
<1>3. ASSUME NEW n \in Nodes,
             \/ Accept(n) \/ ReceiveForwardingSpec(n) \/ ReceiveDarshanaSpec(n)
             \/ ApplyDarshanaSpec(n)
      PROVE  TableInv(s)'
  BY <1>1, <1>3, NodeInPlace, TableFrame
<1>4. ASSUME NEW n \in Nodes, ApplyForwardingSpec(n) PROVE TableInv(s)'
  BY <1>1, <1>4, ApplyTable
<1>5. ASSUME UNCHANGED vars PROVE TableInv(s)'
  <2>1. InPlace(s)' = InPlace(s) /\ UNCHANGED table
    BY <1>5 DEF InPlace, Applied, HopOf, Hop, vars, senderVars, socketVars, nodeVars
  <2> QED BY <1>1, <2>1, TableFrame
<1> QED BY <1>2, <1>3, <1>4, <1>5, SessionSteps

\* No flow is in place before the first spec is applied.
LEMMA TableInit == ASSUME Init, NEW s \in Senders PROVE TableInv(s)
<1>1. \A n \in Nodes : table[n] = <<>>
  BY DEF Init
<1>2. \A n \in Nodes : \A r : ~Contains(table[n], r)
  BY <1>1 DEF Contains
<1>3. \A n \in Nodes : Once(table[n], RulesOf(s))
  BY <1>1 DEF Once
<1>4. InstalledBy(s) = {}
  BY <1>2, FlowTypes DEF InstalledBy
<1>5. InPlace(s) = {}
  <2>1. ~Applied(s) /\ type[s] = "A" /\ pc[s] = "flow" /\ flow[s] = 0
    BY DEF Init, Applied
  <2>2. \A k \in Flows : ~(k < 0)
    BY FlowNumbers
  <2> QED BY <2>1, <2>2 DEF InPlace
<1> QED BY <1>2, <1>3, <1>4, <1>5 DEF TableInv

TablesInv == \A s \in Senders : TableInv(s)

\* In every behaviour without a fault, the tables hold what the senders have in place.
LEMMA TablesAlways == Spec => [](SessionInv /\ TablesInv)
<1>1. Init => TablesInv
  BY TableInit DEF TablesInv
<1>2. SessionInv /\ TablesInv /\ [Next]_vars => TablesInv'
  BY TableNext DEF TablesInv
<1>3. TypeOK /\ ExchangeInv /\ SenderInv /\ ContainInv /\ QuietInv /\ SetupsInv => SessionInv
  BY DEF SessionInv
<1> QED BY <1>1, <1>2, <1>3, SetupAlways, PTL DEF Spec
-----------------------------------------------------------------------------
(* Where the traffic of an established session goes.                       *)

\* An established session has every flow in place and steers each flow to its node.
LEMMA SteeredAt ==
    ASSUME SessionInv, NEW s \in Senders, pc[s] = "up", s \notin StunSenders, NEW k \in Flows
    PROVE  LET i == SelectInSeq(own[s], LAMBDA r : r[1] = LocalIP[s][SrcOf(k)] /\ r[2] = DstOf(k))
           IN  i > 0 /\ own[s][i][3] = Hop(k)
<1> DEFINE I == {i \in 1 .. Len(own[s]) : /\ own[s][i][1] = LocalIP[s][SrcOf(k)]
                                          /\ own[s][i][2] = DstOf(k)}
<1>1. own[s] = OwnRules(s, 0, NumFlows)
  BY DEF SessionInv, SenderInv, OwnInv
<1>2. NumFlows \in Nat /\ k \in Nat /\ k < NumFlows
  BY FlowNumbers
<1>3. Len(own[s]) = NumFlows /\ \A i \in 1 .. NumFlows : own[s][i] = OwnRule(s, i - 1)
  <2> DEFINE S == {OwnRule(s, m) : m \in Nat}
  <2>1. 0 \in Nat /\ 0 <= NumFlows /\ \A m \in 0 .. NumFlows - 1 : OwnRule(s, m) \in S
    BY <1>2
  <2> HIDE DEF S, OwnRule
  <2>2. /\ Len(OwnRules(s, 0, NumFlows)) = NumFlows - 0
        /\ \A i \in 1 .. NumFlows - 0 : OwnRules(s, 0, NumFlows)[i] = OwnRule(s, 0 + i - 1)
    BY <1>2, <2>1, OwnRulesSeq
  <2> QED BY <1>1, <1>2, <2>2
<1>4. k + 1 \in I
  BY <1>2, <1>3 DEF OwnRule
<1>5. ASSUME NEW i \in I PROVE i = k + 1
  <2>0. i \in 1 .. NumFlows
    BY <1>3
  <2>1. i \in 1 .. NumFlows /\ i - 1 \in Flows
    BY <1>2, <2>0 DEF Flows
  <2>2. FlowRule(s, i - 1) = FlowRule(s, k)
    BY <1>3, <2>1 DEF OwnRule, FlowRule
  <2>3. i - 1 = k
    BY <2>1, <2>2, FlowRules
  <2> QED BY <1>2, <2>1, <2>3
<1>6. I = {k + 1}
  BY <1>4, <1>5
<1>7. SelectInSeq(own[s], LAMBDA r : r[1] = LocalIP[s][SrcOf(k)] /\ r[2] = DstOf(k)) = k + 1
  BY <1>2, <1>6 DEF SelectInSeq, Min
<1>8. own[s][k + 1][3] = Hop(k)
  BY <1>2, <1>3 DEF OwnRule
<1> QED BY <1>2, <1>7, <1>8

\* The node finds first, of the rules for a flow's source, one of that interface's flows.
LEMMA ForwardedAt ==
    ASSUME SessionInv, TablesInv, faults = 0, NEW s \in Senders, pc[s] = "up",
           s \notin StunSenders, NEW k \in Flows
    PROVE  LET j == SelectInSeq(table[Hop(k)], LAMBDA r : r[1] = LocalIP[s][SrcOf(k)])
           IN  /\ j > 0
               /\ \E m \in Flows : /\ SrcOf(m) = SrcOf(k) /\ Hop(m) = Hop(k)
                                   /\ table[Hop(k)][j] = FlowRule(s, m)
<1> DEFINE n == Hop(k)
           a == LocalIP[s][SrcOf(k)]
           J == {j \in 1 .. Len(table[n]) : table[n][j][1] = a}
<1>1. /\ n \in Nodes /\ table[n] \in Seq(Rules) /\ a \in Addrs(s) /\ SrcOf(k) \in SrcIndex
  BY FlowTypes, AddrTypes DEF SessionInv, TypeOK
<1>2. /\ InstalledBy(s) = InPlace(s)
      /\ \A r \in RulesOf(s) :
            Contains(table[n], r) => \E m \in Flows : r = FlowRule(s, m) /\ Hop(m) = n
  BY <1>1 DEF TablesInv, TableInv
<1>3. Contains(table[n], FlowRule(s, k))
  <2>1. k \in InPlace(s)
    BY DEF InPlace, SessionInv, SenderInv, LoopInv
  <2> QED BY <1>2, <2>1 DEF InstalledBy, FlowRule
<1>4. J # {} /\ J \in SUBSET Nat
  BY <1>3 DEF Contains, FlowRule
<1>5. \E j \in J : \A i \in J : j <= i
  <2> HIDE DEF J
  <2> QED BY <1>4, LeastElement
<1>6. PICK j \in J : j = SelectInSeq(table[n], LAMBDA r : r[1] = a)
  BY <1>4, <1>5 DEF SelectInSeq, Min
<1>7. j \in 1 .. Len(table[n]) /\ j > 0 /\ table[n][j] \in Rules /\ table[n][j][1] = a
  BY <1>1
<1>8. Contains(table[n], table[n][j]) /\ table[n][j] \in RulesOf(s)
  BY <1>1, <1>7 DEF Contains, RulesOf
<1>9. PICK m \in Flows : table[n][j] = FlowRule(s, m) /\ Hop(m) = n
  BY <1>2, <1>8
<1>10. SrcOf(m) = SrcOf(k)
  <2>1. LocalIP[s][SrcOf(m)] = a
    BY <1>7, <1>9 DEF FlowRule
  <2> QED BY <1>1, <2>1, FlowIndices, DistinctAssumption
<1> QED BY <1>6, <1>7, <1>9, <1>10

\* Traffic of an established session reaches the address it was sent to exactly where no
\* interface reaches two destinations through one node.
THEOREM DeliveryAlways == Spec => []Delivery
<1>1. ASSUME SessionInv, TablesInv PROVE Delivery
  <2> SUFFICES ASSUME NEW s \in Senders, pc[s] = "up", faults = 0, s \notin StunSenders
               PROVE  (\A k \in Flows : Delivered(s, k)) <=>
                      (\A k, m \in Flows : k # m /\ SrcOf(k) = SrcOf(m) => Hop(k) # Hop(m))
    BY DEF Delivery
  <2> DEFINE First(k) == table[Hop(k)][SelectInSeq(table[Hop(k)], LAMBDA r : r[1] = LocalIP[s][SrcOf(k)])]
  <2>1. ASSUME NEW k \in Flows PROVE Delivered(s, k) <=> First(k)[2] = DstOf(k)
    BY <1>1, SteeredAt, ForwardedAt DEF Delivered
  <2>2. ASSUME NEW k \in Flows
        PROVE  \E m \in Flows : SrcOf(m) = SrcOf(k) /\ Hop(m) = Hop(k) /\ First(k) = FlowRule(s, m)
    BY <1>1, ForwardedAt
  <2>3. ASSUME NEW k \in Flows, NEW m \in Flows, SrcOf(k) = SrcOf(m), Hop(k) = Hop(m)
        PROVE  First(k) = First(m)
    BY <2>3
  <2>4. ASSUME NEW k \in Flows, NEW m \in Flows, SrcOf(k) = SrcOf(m), DstOf(k) = DstOf(m)
        PROVE  k = m
    BY <2>4, FlowRules DEF FlowRule
  <2> HIDE DEF First
  <2>5. ASSUME \A k \in Flows : Delivered(s, k),
               NEW k \in Flows, NEW m \in Flows, SrcOf(k) = SrcOf(m), Hop(k) = Hop(m)
        PROVE  k = m
    <3>1. First(k)[2] = DstOf(k) /\ First(m)[2] = DstOf(m) /\ First(k) = First(m)
      BY <2>1, <2>3, <2>5
    <3> QED BY <2>4, <2>5, <3>1
  <2>6. ASSUME \A k, m \in Flows : k # m /\ SrcOf(k) = SrcOf(m) => Hop(k) # Hop(m),
               NEW k \in Flows
        PROVE  Delivered(s, k)
    <3>1. PICK m \in Flows : /\ SrcOf(m) = SrcOf(k) /\ Hop(m) = Hop(k)
                             /\ First(k) = FlowRule(s, m)
      BY <2>2
    <3>2. m = k
      BY <2>6, <3>1
    <3> QED BY <2>1, <3>1, <3>2 DEF FlowRule
  <2> QED BY <2>5, <2>6
<1> QED BY <1>1, TablesAlways, PTL
-----------------------------------------------------------------------------
(* The exchange implements the abstract session, without STUN.             *)

\* The phase of a session without a fault.
LEMMA PhaseCalm ==
    ASSUME faults = 0, NEW s \in Senders
    PROVE  PhaseOf(s) = IF pc[s] \in {"up", "done"} THEN pc[s]
                        ELSE IF type[s] = "D" THEN "teardown" ELSE "setup"
BY DEF PhaseOf

\* A fault calls the promise off.
LEMMA FaultStep == TypeOK' /\ faults' # 0 => Provisioning!Off
<1> SUFFICES ASSUME TypeOK', faults' # 0 PROVE Provisioning!Off
  OBVIOUS
<1>1. faults' \in Nat
  BY SizeAssumption DEF TypeOK
<1>2. \A s \in Senders : PhaseOf(s)' = "off"
  BY <1>1 DEF PhaseOf
<1>3. \A s \in Senders : InstalledBy(s)' \in SUBSET Flows
  BY DEF InstalledBy
<1> QED BY <1>2, <1>3 DEF Provisioning!Off

\* No flow is installed at first.
LEMMA ProvInitHolds == Init => Provisioning!ProvInit
<1> SUFFICES ASSUME Init PROVE Provisioning!ProvInit
  OBVIOUS
<1>1. ASSUME NEW s \in Senders PROVE PhaseOf(s) = "setup"
  BY PhaseCalm DEF Init
<1>2. ASSUME NEW s \in Senders PROVE InstalledBy(s) = {}
  <2>1. \A n \in Nodes : \A r : ~Contains(table[n], r)
    BY DEF Init, Contains
  <2> QED BY <2>1, FlowTypes DEF InstalledBy
<1> QED BY <1>1, <1>2 DEF Provisioning!ProvInit

\* Without a fault, each step of the exchange is a step of the abstract session or none.
LEMMA SessionStep ==
    ASSUME StunSenders = {}, SessionInv, TablesInv, TablesInv', [Next]_vars, faults' = 0
    PROVE  Provisioning!ProvNext \/ UNCHANGED Provisioning!provVars
<1> DEFINE ph == [s \in Senders |-> PhaseOf(s)]
           in == [s \in Senders |-> InstalledBy(s)]
<1>1. faults = 0
  BY SessionSteps
<1>2. ASSUME NEW s \in Senders PROVE InstalledBy(s) = InPlace(s) /\ InstalledBy(s)' = InPlace(s)'
  <2>1. TableInv(s) /\ TableInv(s)' /\ s \notin StunSenders
    BY DEF TablesInv
  <2> QED BY <1>1, <2>1 DEF TableInv
<1>3. ASSUME NEW s \in Senders
      PROVE  /\ PhaseOf(s) = IF pc[s] \in {"up", "done"} THEN pc[s]
                             ELSE IF type[s] = "D" THEN "teardown" ELSE "setup"
             /\ PhaseOf(s)' = IF pc'[s] \in {"up", "done"} THEN pc'[s]
                              ELSE IF type'[s] = "D" THEN "teardown" ELSE "setup"
  BY <1>1 DEF PhaseOf
<1>4. /\ pc \in [Senders -> SenderPC] /\ type \in [Senders -> {"A", "D"}]
  BY DEF SessionInv, TypeOK
<1>5. ASSUME \A s \in Senders : InPlace(s)' = InPlace(s),
             \A s \in Senders : PhaseOf(s)' = PhaseOf(s)
      PROVE  UNCHANGED Provisioning!provVars
  <2>1. \A s \in Senders : InstalledBy(s)' = InstalledBy(s)
    BY <1>2, <1>5
  <2> QED BY <1>5, <2>1 DEF Provisioning!provVars
<1>6. ASSUME NEW t \in Senders, SenderStep(t) \/ Teardown(t)
      PROVE  Provisioning!ProvNext \/ UNCHANGED Provisioning!provVars
  <2>1. \A s \in Senders : InPlace(s)' = InPlace(s)
    BY <1>1, <1>6, SenderInPlace
  <2>2. in' = in
    BY <1>2, <2>1
  <2>3. LoopInv(t) /\ pc[t] # "dead" /\ link[t] \notin {"fin", "rst", "broken"}
    BY <1>1, Calm DEF SessionInv, SenderInv
  <2>4. ASSUME NEW s \in Senders, s # t PROVE PhaseOf(s)' = PhaseOf(s)
    <3>1. /\ \E l : pc' = [pc EXCEPT ![t] = l]
          /\ type' = type \/ \E l : type' = [type EXCEPT ![t] = l]
      BY <1>6 DEF SenderStep, Teardown, SetOwnRules, Connect, SendForwardingSpec,
         AwaitForwardingAck, SendDarshanaSpec, AwaitDarshanaAck, RemoveOwnRules, Send, Goto
    <3>2. pc'[s] = pc[s] /\ type'[s] = type[s]
      BY <1>4, <2>4, <3>1
    <3> QED BY <1>3, <3>2
  <2>5. CASE PhaseOf(t)' = PhaseOf(t)
    BY <1>5, <2>1, <2>4, <2>5
  <2>6. CASE PhaseOf(t)' # PhaseOf(t)
    <3> DEFINE p == PhaseOf(t)'
    <3>1. ph' = [ph EXCEPT ![t] = p]
      BY <2>4
    <3>2. ASSUME \/ SetOwnRules(t) \/ Connect(t) \/ SendForwardingSpec(t)
                 \/ AwaitForwardingAck(t) \/ SendDarshanaSpec(t)
          PROVE  FALSE
      BY <1>3, <1>4, <2>3, <2>6, <3>2 DEF SetOwnRules, Connect, SendForwardingSpec,
         AwaitForwardingAck, SendDarshanaSpec, Send, Goto
    <3>3. CASE AwaitDarshanaAck(t)
      <4>1. /\ pc[t] = "darAck" /\ type'[t] = type[t]
            /\ pc'[t] = IF LastFlow(t) THEN IF type[t] = "A" THEN "up" ELSE "cleanOwn"
                                       ELSE IF type[t] = "A" THEN "flow" ELSE "connect"
        BY <1>4, <3>3 DEF AwaitDarshanaAck, Goto
      <4>2. type[t] = "A" /\ type'[t] = "A" /\ pc'[t] = "up" /\ p = "up" /\ PhaseOf(t) = "setup"
        BY <1>3, <1>4, <2>6, <4>1
      <4>3. InPlace(t)' = Flows
        BY <4>2 DEF InPlace
      <4>4. InstalledBy(t) = Flows
        BY <1>2, <2>1, <4>3
      <4>5. Provisioning!Establish(t)
        BY <2>2, <3>1, <4>2, <4>4 DEF Provisioning!Establish
      <4> QED BY <4>5 DEF Provisioning!ProvNext, Provisioning!Progress
    <3>4. CASE Teardown(t)
      <4>1. pc[t] = "up" /\ pc'[t] = "connect" /\ type'[t] = "D"
        BY <1>4, <3>4 DEF Teardown, Goto
      <4>2. PhaseOf(t) = "up" /\ p = "teardown"
        BY <1>3, <4>1
      <4>3. Provisioning!Close(t)
        BY <2>2, <3>1, <4>2 DEF Provisioning!Close
      <4> QED BY <4>3 DEF Provisioning!ProvNext
    <3>5. CASE RemoveOwnRules(t)
      <4>1. /\ pc[t] = "cleanOwn" /\ type[t] = "D" /\ type'[t] = "D"
            /\ pc'[t] \in {"cleanOwn", "done"}
        BY <1>4, <2>3, <3>5 DEF RemoveOwnRules, LoopInv, Goto
      <4>2. PhaseOf(t) = "teardown" /\ p = "done"
        BY <1>3, <2>6, <4>1
      <4>3. InstalledBy(t) = {}
        BY <1>2, <4>1 DEF InPlace
      <4>4. Provisioning!Finish(t)
        BY <2>2, <3>1, <4>2, <4>3 DEF Provisioning!Finish
      <4> QED BY <4>4 DEF Provisioning!ProvNext, Provisioning!Progress
    <3> QED BY <1>6, <3>2, <3>3, <3>4, <3>5 DEF SenderStep
  <2> QED BY <2>5, <2>6
<1>7. ASSUME NEW n \in Nodes,
             \/ Accept(n) \/ ReceiveForwardingSpec(n) \/ ReceiveDarshanaSpec(n)
             \/ ApplyDarshanaSpec(n)
      PROVE  UNCHANGED Provisioning!provVars
  <2>1. UNCHANGED senderVars /\ \A s \in Senders : InPlace(s)' = InPlace(s)
    BY <1>1, <1>7, NodeInPlace, SizeAssumption
  <2>2. UNCHANGED <<pc, type>>
    BY <2>1 DEF senderVars
  <2> QED BY <1>3, <1>5, <2>1, <2>2
<1>8. ASSUME NEW n \in Nodes, ApplyForwardingSpec(n) PROVE Provisioning!ProvNext
  <2>1. PICK c \in Senders : c = client[n]
    BY DEF SessionInv, TypeOK
  <2>2. /\ flow[c] \in Flows /\ UNCHANGED senderVars /\ pc[c] \notin {"up", "cleanOwn", "done"}
        /\ \A s \in Senders \ {c} : InPlace(s)' = InPlace(s)
        /\ type[c] = "A" => flow[c] \notin InPlace(c) /\ InPlace(c)' = InPlace(c) \cup {flow[c]}
        /\ type[c] = "D" => flow[c] \in InPlace(c) /\ InPlace(c)' = InPlace(c) \ {flow[c]}
    BY <1>1, <1>8, <2>1, ApplyInPlace
  <2>3. UNCHANGED <<pc, type>>
    BY <2>2 DEF senderVars
  <2>4. ph' = ph
    BY <1>3, <2>3
  <2>5. PICK f \in Flows : f = flow[c]
    BY <2>2
  <2>6. CASE type[c] = "A"
    <3>1. PhaseOf(c) = "setup"
      BY <1>3, <2>2, <2>6
    <3>2. f \in Flows \ InstalledBy(c) /\ InstalledBy(c)' = InstalledBy(c) \cup {f}
      BY <1>2, <2>2, <2>5, <2>6
    <3>3. in' = [in EXCEPT ![c] = @ \cup {f}]
      BY <1>2, <2>2, <3>2
    <3>4. Provisioning!Install(c)
      BY <2>4, <3>1, <3>2, <3>3 DEF Provisioning!Install
    <3> QED BY <3>4 DEF Provisioning!ProvNext, Provisioning!Progress
  <2>7. CASE type[c] = "D"
    <3>1. PhaseOf(c) = "teardown"
      BY <1>3, <2>2, <2>7
    <3>2. f \in InstalledBy(c) /\ InstalledBy(c)' = InstalledBy(c) \ {f}
      BY <1>2, <2>2, <2>5, <2>7
    <3>3. in' = [in EXCEPT ![c] = @ \ {f}]
      BY <1>2, <2>2, <3>2
    <3>4. Provisioning!Uninstall(c)
      BY <2>4, <3>1, <3>2, <3>3 DEF Provisioning!Uninstall
    <3> QED BY <3>4 DEF Provisioning!ProvNext, Provisioning!Progress
  <2> QED BY <1>4, <2>6, <2>7
<1>9. ASSUME UNCHANGED vars PROVE UNCHANGED Provisioning!provVars
  BY <1>9 DEF vars, senderVars, nodeVars, faultVars, PhaseOf, InstalledBy, Provisioning!provVars
<1> QED BY <1>6, <1>7, <1>8, <1>9, SessionSteps

\* Without STUN, the exchange implements the abstract session: established only with
\* every flow in place, finished only with none, each flow installed and uninstalled once,
\* until a process is killed.
THEOREM ImplementsProvisioningSafely ==
    StunSenders = {} =>
        (Spec => Provisioning!ProvInit /\ [][Provisioning!ProvNext]_(Provisioning!provVars))
<1> SUFFICES ASSUME StunSenders = {}
             PROVE  Spec => /\ Provisioning!ProvInit
                            /\ [][Provisioning!ProvNext]_(Provisioning!provVars)
  OBVIOUS
<1>1. SessionInv /\ TablesInv /\ SessionInv' /\ TablesInv' /\ [Next]_vars =>
         [Provisioning!ProvNext]_(Provisioning!provVars)
  <2> SUFFICES ASSUME SessionInv, TablesInv, SessionInv', TablesInv', [Next]_vars
               PROVE  Provisioning!ProvNext \/ UNCHANGED Provisioning!provVars
    OBVIOUS
  <2>1. CASE faults' = 0
    BY <2>1, SessionStep
  <2>2. CASE faults' # 0
    BY <2>2, FaultStep DEF SessionInv, Provisioning!ProvNext
  <2> QED BY <2>1, <2>2
<1> QED BY <1>1, ProvInitHolds, TablesAlways, PTL DEF Spec
=============================================================================
