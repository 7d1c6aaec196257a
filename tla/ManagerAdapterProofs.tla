------------------------ MODULE ManagerAdapterProofs ------------------------
(***************************************************************************)
(* The manager's tuple space under any number of registrations and         *)
(* queries: how often a tuple is stored, what the sender's two queries can *)
(* find, for every cutting of the answers into recv() calls.               *)
(***************************************************************************)
EXTENDS ManagerAdapter, TLAPS, SequenceTheorems, FiniteSetTheorems, WellFoundedInduction
-----------------------------------------------------------------------------
(* What is in the space, and who may still change it.                      *)

\* What a receiver has still to say after its k-th command.
Todo1(r) == <<Cmd("out", ListTuple(r))>>
Todo2(r) == <<Cmd("out", DeviceTuple(r)), Cmd("out", ListTuple(r))>>
Todo3(r) == <<Cmd("inp", ListTuple(r)), Cmd("out", DeviceTuple(r)), Cmd("out", ListTuple(r))>>

\* A connection is open only while its client receives, and only then has it
\* lines to receive; before, nothing was sent.
ConnectionInv ==
    \A c \in Clients : /\ link[c] = "open" => st[c] = "recv"
                       /\ ans[c] # <<>> => st[c] = "recv"
                       /\ st[c] = "idle" => cmds[c] = <<>>

\* The commands that are still to be executed.  Only the receiver being served
\* can be between two of its own.
CommandInv ==
    \A c \in Clients :
        /\ Role[c] = "node" => cmds[c] \in {<<>>, NodeCommands(c)}
        /\ Role[c] = "receiver" =>
             \/ cmds[c] \in {<<>>, ReceiverCommands(c)}
             \/ c \in serving /\ cmds[c] \in {Todo1(c), Todo2(c), Todo3(c)}
        /\ Role[c] = "hops" => cmds[c] \in {<<>>, <<Cmd("rdall", NodeTuple(c))>>}
        /\ Role[c] = "dsts" => \/ cmds[c] \in {<<>>, <<Cmd("rdp device", DeviceTuple(c))>>}
                               \/ \E t \in Tuples : cmds[c] = <<Cmd("rdp list", t)>>

\* An answer to the receiver query is at most two lines, the first of which is OK
\* or all; it is there only when no command is left.
DstsLines ==
    \A d \in ByRole("dsts") :
        \/ ans[d] = <<>>
        \/ cmds[d] = <<>> /\ \E l \in Lines : ans[d] = <<l>> \/ ans[d] = <<OKLine, l>>

\* What registrations write.
Registered ==
    {NodeTuple(c) : c \in ByRole("node")} \cup {DeviceTuple(c) : c \in ByRole("receiver")}
        \cup {ListTuple(c) : c \in ByRole("receiver")}

SpaceInv == space \in Seq(Registered)

\* The nodes that wrote t.
Writers(t) ==
    {c \in ByRole("node") : NodeTuple(c) = t /\ st[c] # "idle" /\ cmds[c] = <<>>}

\* RegistrationIdempotent, with what a receiver's first two commands leave.
NodeCopies  == \A t \in Tuples : t.kind = "node" => Copies(t) <= Cardinality(Writers(t))
OtherCopies == \A t \in Tuples : t.kind # "node" => Copies(t) <= 1 + exceptions
OwnCopies   ==
    \A r \in ByRole("receiver") :
        /\ cmds[r] \in {Todo3(r), Todo2(r)} => Copies(DeviceTuple(r)) <= exceptions
        /\ cmds[r] \in {Todo2(r), Todo1(r)} => Copies(ListTuple(r)) <= exceptions

CopiesInv == NodeCopies /\ OtherCopies /\ OwnCopies

\* A device's list is in the space, or is the next thing to be written.
Listed(t) ==
    \/ \E l \in ToSet(space) : l.kind = "list" /\ l.addr = t.addr /\ l.num = t.num
    \/ \E r \in ByRole("receiver") \cap serving : cmds[r] = Todo1(r) /\ t = DeviceTuple(r)

WholeInv == exceptions = 0 => \A t \in ToSet(space) : t.kind = "device" => Listed(t)

-----------------------------------------------------------------------------
(* The sender's query for the receiver.                                    *)

\* The answer to the first command ...
FirstAnswer(l) == l = EmptyLine \/ \E t \in ToSet(space) : t.kind = "device" /\ l = TupleLine(t)

\* ... and the one to the second.
SecondAnswer(l) == \E r \in ByRole("receiver") : l = TupleLine(ListTuple(r))

\* Before the first answer, or after it was missed; before it is read; before the
\* second answer; after it.
Asking1(d)   == /\ ask[d] = 1 /\ ans[d] = <<>>
                /\ cmds[d] \in {<<>>, <<Cmd("rdp device", DeviceTuple(d))>>}
Answered1(d) == /\ ask[d] = 1 /\ cmds[d] = <<>> /\ d \in serving /\ link[d] = "open"
                /\ \E l \in Lines : FirstAnswer(l) /\ (ans[d] = <<OKLine, l>> \/ ans[d] = <<l>>)
Asking2(d)   == /\ ask[d] = 2 /\ ans[d] = <<>> /\ st[d] = "recv"
                /\ \E t \in ToSet(space) : t.kind = "device" /\ cmds[d] = <<Cmd("rdp list", t)>>
Answered2(d) == /\ ask[d] = 2 /\ cmds[d] = <<>>
                /\ \/ ans[d] = <<>>
                   \/ \E l \in Lines : SecondAnswer(l) /\ (ans[d] = <<OKLine, l>> \/ ans[d] = <<l>>)

Asks(d) ==
    /\ Asking1(d) \/ Answered1(d) \/ Asking2(d) \/ Answered2(d)
    /\ ask[d] = 2 => st[d] \in {"recv", "done"}
    /\ ask[d] = 2 /\ st[d] = "recv" => d \in serving /\ link[d] = "open"
    /\ st[d] = "done" => \E r \in ByRole("receiver") : found[d] = <<ListTuple(r)>>

DstsInv == exceptions = 0 => \A d \in ByRole("dsts") : Asks(d)

-----------------------------------------------------------------------------
(* The sender's query for the overlay nodes.                               *)

\* The answer of rdall: OK, the tuples, an empty line ...
AllLines(nodes) == <<OKLine>> \o [j \in DOMAIN nodes |-> TupleLine(nodes[j])] \o <<EmptyLine>>

\* ... and what is left of it once the first k tuples have been received.
LinesAfter(nodes, k) ==
    [i \in 1 .. Len(nodes) - k + 1 |->
        IF i <= Len(nodes) - k THEN TupleLine(nodes[k + i]) ELSE EmptyLine]

\* The tuples p found are among the first k of q, in order, and the one left in
\* the buffer b comes after them.
Embeds(p, b, q, k) ==
    \E f \in [DOMAIN p -> 1 .. k] :
        /\ \A a \in DOMAIN p : \A e \in DOMAIN p : a < e => f[a] < f[e]
        /\ \A a \in DOMAIN p : p[a] = q[f[a]]
        /\ b # <<>> => \E j \in 1 .. k : b = <<q[j]>> /\ \A a \in DOMAIN p : f[a] < j

\* With each line alone nothing was skipped.
AllTaken(h, k) ==
    /\ buf[h] = <<>> /\ Len(found[h]) = k /\ \A a \in 1 .. k : found[h][a] = atRead[h][a]

Unanswered(h) ==
    /\ atRead[h] = <<>> /\ found[h] = <<>> /\ buf[h] = <<>> /\ st[h] # "done"
    /\ ans[h] = <<>> \/ (ans[h] = <<ErrorLine>> /\ cmds[h] = <<>>)

Answered(h, k) ==
    /\ cmds[h] = <<>> /\ st[h] # "idle"
    /\ \/ ans[h] = <<>> \/ ans[h] = LinesAfter(atRead[h], k)
       \/ k = 0 /\ ans[h] = AllLines(atRead[h]) /\ found[h] = <<>> /\ buf[h] = <<>>
    /\ Embeds(found[h], buf[h], atRead[h], k)
    /\ ~merged[h] => AllTaken(h, k)
    /\ st[h] = "done" /\ ~merged[h] => k = Len(atRead[h])

Discovers(h) == Unanswered(h) \/ \E k \in 0 .. Len(atRead[h]) : Answered(h, k)

HopsInv == \A h \in ByRole("hops") : Discovers(h)

AdapterInv ==
    /\ TypeOK /\ ConnectionInv /\ CommandInv /\ DstsLines
    /\ SpaceInv /\ CopiesInv /\ WholeInv /\ DstsInv /\ HopsInv
-----------------------------------------------------------------------------
(* Tuples, lines and commands.                                             *)

\* A set of naturals that is not empty has a least element.
LEMMA Least ==
    ASSUME NEW I \in SUBSET Nat, I # {}
    PROVE  \E m \in I : \A k \in I : m <= k
<1>1. PICK m \in I : \A k \in I : ~(<<k, m>> \in OpToRel(<, Nat))
  BY NatLessThanWellFounded, WFMin
<1>2. \A k \in I : ~(k < m)
  BY <1>1 DEF OpToRel
<1> QED BY <1>2

\* A client has one of four roles.
LEMMA Roles ==
    ASSUME NEW c \in Clients
    PROVE  Role[c] \in {"node", "receiver", "hops", "dsts"}
BY ClientsAssumption

\* What the tuples are.
LEMMA TupleFacts ==
    ASSUME NEW c \in Clients
    PROVE  /\ NodeTuple(c) \in Tuples /\ NodeTuple(c).kind = "node"
           /\ DeviceTuple(c) \in Tuples /\ DeviceTuple(c).kind = "device"
           /\ DeviceTuple(c).addr = Addr[c] /\ DeviceTuple(c).num = Num[c]
           /\ ListTuple(c) \in Tuples /\ ListTuple(c).kind = "list"
           /\ ListTuple(c).addr = Addr[c] /\ ListTuple(c).num = Num[c]
<1>1. NodeTuple(c) \in Tuples /\ DeviceTuple(c) \in Tuples /\ ListTuple(c) \in Tuples
  BY DEF Tuples
<1> QED BY <1>1, Zenon DEF NodeTuple, DeviceTuple, ListTuple

\* What the lines are.
LEMMA LineFacts ==
    /\ OKLine \in Lines /\ ErrorLine \in Lines /\ EmptyLine \in Lines
    /\ OKLine.tag = "OK" /\ ErrorLine.tag = "ERROR" /\ EmptyLine.tag = ""
    /\ OKLine.tuple = <<>> /\ ErrorLine.tuple = <<>> /\ EmptyLine.tuple = <<>>
    /\ \A t : TupleLine(t).tag = "tuple" /\ TupleLine(t).tuple = <<t>>
    /\ \A t \in Tuples : TupleLine(t) \in Lines
    /\ \A l \in Lines : l.tuple = <<>> \/ \E t \in Tuples : l.tuple = <<t>>
<1>1. /\ OKLine.tag = "OK" /\ ErrorLine.tag = "ERROR" /\ EmptyLine.tag = ""
      /\ OKLine.tuple = <<>> /\ ErrorLine.tuple = <<>> /\ EmptyLine.tuple = <<>>
      /\ \A t : TupleLine(t).tag = "tuple" /\ TupleLine(t).tuple = <<t>>
  BY Zenon DEF OKLine, ErrorLine, EmptyLine, TupleLine
<1>2. /\ OKLine \in Lines /\ ErrorLine \in Lines /\ EmptyLine \in Lines
      /\ \A t \in Tuples : TupleLine(t) \in Lines
  BY DEF Lines
<1>3. ASSUME NEW l \in Lines PROVE l.tuple = <<>> \/ \E t \in Tuples : l.tuple = <<t>>
  <2>1. l \in {OKLine, ErrorLine, EmptyLine} \/ \E t \in Tuples : l = TupleLine(t)
    BY DEF Lines
  <2> QED BY <1>1, <2>1, Zenon
<1> QED BY <1>1, <1>2, <1>3

\* What a command is.
AllCmds == [op : Ops, tuple : Tuples]

\* A command has what it was made with.
LEMMA CmdFacts ==
    ASSUME NEW o, NEW t
    PROVE  /\ Cmd(o, t).op = o /\ Cmd(o, t).tuple = t
           /\ o \in Ops /\ t \in Tuples => Cmd(o, t) \in AllCmds
<1>1. Cmd(o, t).op = o /\ Cmd(o, t).tuple = t
  BY Zenon DEF Cmd
<1>2. o \in Ops /\ t \in Tuples => Cmd(o, t) \in AllCmds
  BY DEF Cmd, AllCmds
<1> QED BY <1>1, <1>2

\* What a client sends are commands.
LEMMA CommandTypes ==
    ASSUME NEW c \in Clients
    PROVE  Commands(c) \in Seq(AllCmds)
<1>1. NodeTuple(c) \in Tuples /\ DeviceTuple(c) \in Tuples /\ ListTuple(c) \in Tuples
  BY TupleFacts
<1>2. \A t \in Tuples, o \in Ops : Cmd(o, t) \in AllCmds
  BY CmdFacts
<1>3. \A o \in Ops : /\ Cmd(o, NodeTuple(c)) \in AllCmds /\ Cmd(o, DeviceTuple(c)) \in AllCmds
                     /\ Cmd(o, ListTuple(c)) \in AllCmds
  BY <1>1, <1>2
<1>4. /\ Cmd("out", NodeTuple(c)) \in AllCmds /\ Cmd("rdall", NodeTuple(c)) \in AllCmds
      /\ Cmd("inp", DeviceTuple(c)) \in AllCmds /\ Cmd("inp", ListTuple(c)) \in AllCmds
      /\ Cmd("out", DeviceTuple(c)) \in AllCmds /\ Cmd("out", ListTuple(c)) \in AllCmds
      /\ Cmd("rdp device", DeviceTuple(c)) \in AllCmds
  BY <1>3 DEF Ops
<1>5. \A x, y, z, w \in AllCmds : <<x>> \in Seq(AllCmds) /\ <<x, y, z, w>> \in Seq(AllCmds)
  OBVIOUS
<1>6. /\ <<Cmd("rdall", NodeTuple(c))>> \in Seq(AllCmds)
      /\ <<Cmd("rdp device", DeviceTuple(c))>> \in Seq(AllCmds)
      /\ NodeCommands(c) \in Seq(AllCmds) /\ ReceiverCommands(c) \in Seq(AllCmds)
  BY <1>4, <1>5 DEF NodeCommands, ReceiverCommands
<1> HIDE DEF AllCmds
<1> QED BY <1>6, Roles DEF Commands

\* strtok finds the first tuple there is.
LEMMA FirstTupleFacts ==
    ASSUME NEW ls \in Seq(Lines)
    PROVE  \/ FirstTuple(ls) = <<>> /\ \A j \in 1 .. Len(ls) : ls[j].tuple = <<>>
           \/ \E a \in 1 .. Len(ls) :
                 /\ ls[a].tuple # <<>> /\ FirstTuple(ls) = ls[a].tuple
                 /\ \A j \in 1 .. Len(ls) : j < a => ls[j].tuple = <<>>
<1> DEFINE at == {j \in DOMAIN ls : ls[j].tuple # <<>>}
<1>1. DOMAIN ls = 1 .. Len(ls) /\ Len(ls) \in Nat
  OBVIOUS
<1>2. CASE at = {}
  BY <1>1, <1>2 DEF FirstTuple
<1>3. CASE at # {}
  <2>1. at \in SUBSET Nat
    BY <1>1
  <2> DEFINE a == CHOOSE j \in at : \A k \in at : j <= k
  <2>2. a \in at /\ \A k \in at : a <= k
    <3> HIDE DEF at
    <3> QED BY <1>3, <2>1, Least
  <2>3. FirstTuple(ls) = ls[a].tuple
    BY <1>3 DEF FirstTuple
  <2> HIDE DEF a
  <2>4. a \in 1 .. Len(ls) /\ ls[a].tuple # <<>>
    BY <1>1, <2>2
  <2>5. ASSUME NEW j \in 1 .. Len(ls), j < a PROVE ls[j].tuple = <<>>
    BY <1>1, <2>2, <2>4, <2>5
  <2> QED BY <2>3, <2>4, <2>5
<1> QED BY <1>2, <1>3

\* What strtok finds is a tuple.
LEMMA FirstTupleTypes ==
    ASSUME NEW ls \in Seq(Lines)
    PROVE  FirstTuple(ls) = <<>> \/ \E t \in Tuples : FirstTuple(ls) = <<t>>
<1>1. \A a \in 1 .. Len(ls) : ls[a] \in Lines
  OBVIOUS
<1> QED BY <1>1, FirstTupleFacts, LineFacts

\* The loop over the tuple space, unrolled.
LEMMA NodesLoop ==
    ASSUME NEW S, NEW q \in Seq(S)
    PROVE  \E f : /\ f[0] = <<>> /\ NodesIn(q) = f[Len(q)]
                  /\ \A j \in 1 .. Len(q) :
                        f[j] = IF q[j].kind = "node" THEN Append(f[j - 1], q[j]) ELSE f[j - 1]
<1> DEFINE Body(f, j) == IF j = 0 THEN <<>>
                         ELSE IF q[j].kind = "node" THEN Append(f[j - 1], q[j]) ELSE f[j - 1]
           Loop(n) == \E f : f = [j \in 0 .. n |-> Body(f, j)]
           Bad == {n \in 0 .. Len(q) : ~Loop(n)}
<1>1. Loop(0)
  <2> DEFINE f == [j \in {0} |-> <<>>]
  <2>1. 0 .. 0 = {0}
    OBVIOUS
  <2>2. f = [j \in 0 .. 0 |-> Body(f, j)]
    BY <2>1
  <2> QED BY <2>2
<1>2. ASSUME NEW n \in Nat, Loop(n) PROVE Loop(n + 1)
  <2>1. PICK f : f = [j \in 0 .. n |-> Body(f, j)]
    BY <1>2
  <2> DEFINE g == [j \in 0 .. n + 1 |-> IF j <= n THEN f[j] ELSE Body(f, n + 1)]
  <2>2. ASSUME NEW j \in 0 .. n + 1 PROVE g[j] = Body(g, j)
    <3>1. CASE j <= n
      <4>0. j \in 0 .. n /\ g[j] = f[j]
        BY <3>1
      <4>1. g[j] = f[j] /\ f[j] = Body(f, j)
        <5> HIDE DEF g, Body
        <5> QED BY <2>1, <4>0
      <4>2. j # 0 => j - 1 \in 0 .. n + 1 /\ j - 1 <= n /\ g[j - 1] = f[j - 1]
        BY <3>1
      <4> HIDE DEF g
      <4> QED BY <4>1, <4>2
    <3>2. CASE j = n + 1
      <4>1. g[j] = Body(f, n + 1) /\ g[n] = f[n] /\ n + 1 # 0 /\ n + 1 - 1 = n
        BY <3>2
      <4> HIDE DEF g
      <4> QED BY <3>2, <4>1
    <3> QED BY <3>1, <3>2
  <2>3. g = [j \in 0 .. n + 1 |-> g[j]]
    OBVIOUS
  <2>4. g = [j \in 0 .. n + 1 |-> Body(g, j)]
    <3> HIDE DEF g, Body
    <3> QED BY <2>2, <2>3
  <2> QED BY <2>4
<1>3. Bad = {}
  <2> SUFFICES ASSUME Bad # {} PROVE FALSE
    OBVIOUS
  <2> HIDE DEF Loop
  <2>1. Bad \in SUBSET Nat
    OBVIOUS
  <2>2. \E m \in Bad : \A k \in Bad : m <= k
    <3> HIDE DEF Bad
    <3> QED BY <2>1, Least
  <2>3. PICK m \in Bad : \A k \in Bad : m <= k
    BY <2>2
  <2>4. m \in 0 .. Len(q) /\ ~Loop(m) /\ m # 0
    BY <1>1, <2>3
  <2>5. m - 1 \in Nat /\ m - 1 \notin Bad /\ m - 1 \in 0 .. Len(q)
    BY <2>3, <2>4
  <2>6. Loop(m - 1)
    BY <2>5
  <2>7. Loop((m - 1) + 1)
    BY <1>2, <2>5, <2>6
  <2>8. (m - 1) + 1 = m
    BY <2>4
  <2> QED BY <2>4, <2>7, <2>8
<1>4. Loop(Len(q))
  <2>1. Len(q) \in 0 .. Len(q)
    OBVIOUS
  <2> HIDE DEF Loop
  <2> QED BY <1>3, <2>1
<1> DEFINE nodes == CHOOSE f : f = [j \in 0 .. Len(q) |-> Body(f, j)]
<1>5. nodes = [j \in 0 .. Len(q) |-> Body(nodes, j)]
  BY <1>4
<1>6. NodesIn(q) = nodes[Len(q)]
  BY DEF NodesIn
<1> HIDE DEF nodes
<1>7. Len(q) \in Nat /\ \A j \in 0 .. Len(q) : nodes[j] = Body(nodes, j)
  <2> HIDE DEF Body
  <2> QED BY <1>5
<1>8. nodes[0] = <<>>
  BY <1>7
<1>9. \A j \in 1 .. Len(q) :
         nodes[j] = IF q[j].kind = "node" THEN Append(nodes[j - 1], q[j]) ELSE nodes[j - 1]
  BY <1>7
<1> QED BY <1>6, <1>8, <1>9

\* A set that holds 0 and, with each number, the next one up to n.
LEMMA CountUp ==
    ASSUME NEW n \in Nat, NEW G, 0 \in G, \A j \in 1 .. n : j - 1 \in G => j \in G
    PROVE  \A j \in 0 .. n : j \in G
<1> DEFINE B == {j \in 0 .. n : j \notin G}
<1> SUFFICES ASSUME B # {} PROVE FALSE
  OBVIOUS
<1>1. B \in SUBSET Nat
  OBVIOUS
<1>2. \E m \in B : \A k \in B : m <= k
  <2> HIDE DEF B
  <2> QED BY <1>1, Least
<1>3. PICK m \in B : \A k \in B : m <= k
  BY <1>2
<1>4. m \in 1 .. n
  BY <1>3
<1>5. m - 1 \in 0 .. n /\ m - 1 \notin B
  BY <1>3, <1>4
<1> QED BY <1>3, <1>4, <1>5

\* rdAll returns tuples.
LEMMA NodesTypes ==
    ASSUME NEW S, NEW q \in Seq(S)
    PROVE  NodesIn(q) \in Seq(S)
<1>1. PICK f : /\ f[0] = <<>> /\ NodesIn(q) = f[Len(q)]
               /\ \A j \in 1 .. Len(q) :
                     f[j] = IF q[j].kind = "node" THEN Append(f[j - 1], q[j]) ELSE f[j - 1]
  BY NodesLoop
<1> DEFINE Good(j) == f[j] \in Seq(S)
           G == {j \in 0 .. Len(q) : Good(j)}
<1>2. Len(q) \in Nat
  OBVIOUS
<1>3. Good(0)
  BY <1>1
<1>4. ASSUME NEW j \in 1 .. Len(q), Good(j - 1) PROVE Good(j)
  <2>1. q[j] \in S
    OBVIOUS
  <2>2. Append(f[j - 1], q[j]) \in Seq(S)
    BY <1>4, <2>1, AppendProperties
  <2> QED BY <1>1, <1>4, <2>2
<1> HIDE DEF Good
<1>5. 0 \in G /\ \A j \in 1 .. Len(q) : j - 1 \in G => j \in G
  BY <1>2, <1>3, <1>4
<1>6. Len(q) \in G
  <2> HIDE DEF G
  <2>1. \A j \in 0 .. Len(q) : j \in G
    BY <1>2, <1>5, CountUp
  <2>2. Len(q) \in 0 .. Len(q)
    BY <1>2
  <2> QED BY <2>1, <2>2
<1> QED BY <1>1, <1>6 DEF Good

\* The lines of the answer of rdall, by their places.
LEMMA AllLinesFacts ==
    ASSUME NEW q \in Seq(Tuples)
    PROVE  /\ AllLines(q) \in Seq(Lines) /\ Len(AllLines(q)) = Len(q) + 2
           /\ AllLines(q)[1] = OKLine /\ AllLines(q)[Len(q) + 2] = EmptyLine
           /\ \A j \in 1 .. Len(q) : AllLines(q)[j + 1] = TupleLine(q[j])
<1> DEFINE m == [j \in DOMAIN q |-> TupleLine(q[j])]
<1>1. OKLine \in Lines /\ EmptyLine \in Lines /\ \A t \in Tuples : TupleLine(t) \in Lines
  BY LineFacts
<1>2. Len(q) \in Nat /\ DOMAIN q = 1 .. Len(q) /\ \A j \in 1 .. Len(q) : q[j] \in Tuples
  OBVIOUS
<1>3. m \in Seq(Lines) /\ Len(m) = Len(q) /\ \A j \in 1 .. Len(q) : m[j] = TupleLine(q[j])
  BY <1>1, <1>2
<1>4. /\ <<OKLine>> \in Seq(Lines) /\ Len(<<OKLine>>) = 1 /\ <<OKLine>>[1] = OKLine
      /\ <<EmptyLine>> \in Seq(Lines) /\ Len(<<EmptyLine>>) = 1 /\ <<EmptyLine>>[1] = EmptyLine
  BY <1>1
<1>5. AllLines(q) = (<<OKLine>> \o m) \o <<EmptyLine>>
  BY DEF AllLines
<1> HIDE DEF m
<1> DEFINE h == <<OKLine>> \o m
<1>6. /\ h \in Seq(Lines) /\ Len(h) = Len(q) + 1
      /\ \A j \in 1 .. Len(q) + 1 : h[j] = IF j <= 1 THEN OKLine ELSE m[j - 1]
  BY <1>2, <1>3, <1>4, ConcatProperties
<1> HIDE DEF h
<1>7. /\ AllLines(q) \in Seq(Lines) /\ Len(AllLines(q)) = Len(q) + 2
      /\ \A j \in 1 .. Len(q) + 2 :
            AllLines(q)[j] = IF j <= Len(q) + 1 THEN h[j] ELSE EmptyLine
  BY <1>2, <1>4, <1>5, <1>6, ConcatProperties DEF h
<1>8. 1 \in 1 .. Len(q) + 1 /\ 1 \in 1 .. Len(q) + 2 /\ Len(q) + 2 \in 1 .. Len(q) + 2
  BY <1>2
<1>9. AllLines(q)[1] = OKLine /\ AllLines(q)[Len(q) + 2] = EmptyLine
  BY <1>2, <1>6, <1>7, <1>8
<1>10. ASSUME NEW j \in 1 .. Len(q) PROVE AllLines(q)[j + 1] = TupleLine(q[j])
  <2>1. j + 1 \in 1 .. Len(q) + 1 /\ j + 1 \in 1 .. Len(q) + 2 /\ ~(j + 1 <= 1) /\ (j + 1) - 1 = j
    BY <1>2
  <2>2. AllLines(q)[j + 1] = h[j + 1]
    BY <1>2, <1>7, <2>1
  <2>3. h[j + 1] = m[(j + 1) - 1]
    BY <1>2, <1>6, <2>1
  <2> QED BY <1>3, <2>1, <2>2, <2>3
<1> QED BY <1>7, <1>9, <1>10

\* One element less.
LEMMA RemoveAtFacts ==
    ASSUME NEW S, NEW q \in Seq(S), NEW a \in 1 .. Len(q)
    PROVE  /\ RemoveAt(q, a) \in Seq(S) /\ Len(RemoveAt(q, a)) = Len(q) - 1
           /\ \A j \in 1 .. Len(q) - 1 : RemoveAt(q, a)[j] = IF j < a THEN q[j] ELSE q[j + 1]
<1>1. Len(q) \in Nat /\ \A j \in 1 .. Len(q) : q[j] \in S
  OBVIOUS
<1> DEFINE x == SubSeq(q, 1, a - 1)
           y == SubSeq(q, a + 1, Len(q))
<1>2. x \in Seq(S) /\ Len(x) = a - 1 /\ \A j \in 1 .. a - 1 : x[j] = q[j]
  <2>1. 1 \in Int /\ a - 1 \in Int /\ \A j \in 1 .. a - 1 : q[j] \in S
    BY <1>1
  <2>2. /\ x \in Seq(S) /\ Len(x) = IF 1 <= a - 1 THEN (a - 1) - 1 + 1 ELSE 0
        /\ \A j \in 1 .. (a - 1) - 1 + 1 : x[j] = q[1 + j - 1]
    BY <2>1, SubSeqProperties
  <2> HIDE DEF x
  <2> QED BY <1>1, <2>2
<1>3. y \in Seq(S) /\ Len(y) = Len(q) - a /\ \A j \in 1 .. Len(q) - a : y[j] = q[a + j]
  <2>1. a + 1 \in Int /\ Len(q) \in Int /\ \A j \in a + 1 .. Len(q) : q[j] \in S
    BY <1>1
  <2>2. /\ y \in Seq(S) /\ Len(y) = IF a + 1 <= Len(q) THEN Len(q) - (a + 1) + 1 ELSE 0
        /\ \A j \in 1 .. Len(q) - (a + 1) + 1 : y[j] = q[(a + 1) + j - 1]
    BY <2>1, SubSeqProperties
  <2> HIDE DEF y
  <2> QED BY <1>1, <2>2
<1>4. RemoveAt(q, a) = x \o y
  BY DEF RemoveAt
<1> HIDE DEF x, y
<1>5. /\ x \o y \in Seq(S) /\ Len(x \o y) = (a - 1) + (Len(q) - a)
      /\ \A j \in 1 .. (a - 1) + (Len(q) - a) :
            (x \o y)[j] = IF j <= a - 1 THEN x[j] ELSE y[j - (a - 1)]
  <2>1. /\ x \o y \in Seq(S) /\ Len(x \o y) = Len(x) + Len(y)
        /\ \A j \in 1 .. Len(x) + Len(y) :
              (x \o y)[j] = IF j <= Len(x) THEN x[j] ELSE y[j - Len(x)]
    BY <1>2, <1>3, ConcatProperties
  <2> QED BY <1>2, <1>3, <2>1
<1>6. ASSUME NEW j \in 1 .. Len(q) - 1 PROVE (x \o y)[j] = IF j < a THEN q[j] ELSE q[j + 1]
  <2>1. j \in 1 .. (a - 1) + (Len(q) - a)
    BY <1>1
  <2>2. CASE j <= a - 1
    BY <1>1, <1>2, <1>5, <2>1, <2>2
  <2>3. CASE ~(j <= a - 1)
    <3>1. j - (a - 1) \in 1 .. Len(q) - a /\ a + (j - (a - 1)) = j + 1 /\ ~(j < a)
      BY <1>1, <2>3
    <3>2. (x \o y)[j] = y[j - (a - 1)]
      BY <1>5, <2>1, <2>3
    <3> QED BY <1>3, <3>1, <3>2
  <2> QED BY <2>2, <2>3
<1> QED BY <1>1, <1>4, <1>5, <1>6

\* What a recv() returns, and what it leaves.
LEMMA CutFacts ==
    ASSUME NEW S, NEW q \in Seq(S), NEW n \in 1 .. Len(q)
    PROVE  /\ SubSeq(q, 1, n) \in Seq(S) /\ Len(SubSeq(q, 1, n)) = n
           /\ \A j \in 1 .. n : SubSeq(q, 1, n)[j] = q[j]
           /\ SubSeq(q, n + 1, Len(q)) \in Seq(S) /\ Len(SubSeq(q, n + 1, Len(q))) = Len(q) - n
           /\ \A j \in 1 .. Len(q) - n : SubSeq(q, n + 1, Len(q))[j] = q[n + j]
<1>1. Len(q) \in Nat /\ \A j \in 1 .. Len(q) : q[j] \in S
  OBVIOUS
<1> DEFINE x == SubSeq(q, 1, n)
           y == SubSeq(q, n + 1, Len(q))
<1>2. x \in Seq(S) /\ Len(x) = n /\ \A j \in 1 .. n : x[j] = q[j]
  <2>1. 1 \in Int /\ n \in Int /\ \A j \in 1 .. n : q[j] \in S
    BY <1>1
  <2>2. /\ x \in Seq(S) /\ Len(x) = IF 1 <= n THEN n - 1 + 1 ELSE 0
        /\ \A j \in 1 .. n - 1 + 1 : x[j] = q[1 + j - 1]
    BY <2>1, SubSeqProperties
  <2> HIDE DEF x
  <2> QED BY <1>1, <2>2
<1>3. y \in Seq(S) /\ Len(y) = Len(q) - n /\ \A j \in 1 .. Len(q) - n : y[j] = q[n + j]
  <2>1. n + 1 \in Int /\ Len(q) \in Int /\ \A j \in n + 1 .. Len(q) : q[j] \in S
    BY <1>1
  <2>2. /\ y \in Seq(S) /\ Len(y) = IF n + 1 <= Len(q) THEN Len(q) - (n + 1) + 1 ELSE 0
        /\ \A j \in 1 .. Len(q) - (n + 1) + 1 : y[j] = q[(n + 1) + j - 1]
    BY <2>1, SubSeqProperties
  <2> HIDE DEF y
  <2> QED BY <1>1, <2>2
<1> QED BY <1>2, <1>3

-----------------------------------------------------------------------------
(* Types.                                                                  *)

\* TypeOK, with the commands' set by its name.
LEMMA TypeParts ==
    TypeOK <=>
    /\ up \in BOOLEAN /\ serving \in {{}} \cup {{c} : c \in Clients} /\ backlog \in Seq(Clients)
    /\ space \in Seq(Tuples) /\ exceptions \in 0 .. MaxExceptions
    /\ st \in [Clients -> {"idle", "recv", "done", "failed", "crashed", "killed"}]
    /\ cmds \in [Clients -> Seq(AllCmds)] /\ ans \in [Clients -> Seq(Lines)]
    /\ link \in [Clients -> {"none", "open", "fin", "rst", "dead"}]
    /\ ask \in [Clients -> {1, 2}]
    /\ buf \in [Clients -> Seq(Tuples)] /\ stale \in [Clients -> BOOLEAN]
    /\ found \in [Clients -> Seq(Tuples)]
    /\ confirmed \in [Clients -> BOOLEAN] /\ merged \in [Clients -> BOOLEAN]
    /\ atRead \in [Clients -> Seq(Tuples)]
BY DEF TypeOK, AllCmds

\* A step that prints.
LEMMA PrintlnTypes ==
    ASSUME TypeOK, NEW c \in Clients, NEW ls \in Seq(Lines), cmds[c] # <<>>, Println(c, ls),
           space' \in Seq(Tuples), exceptions' \in 0 .. MaxExceptions,
           atRead' \in [Clients -> Seq(Tuples)]
    PROVE  TypeOK'
<1>1. cmds' \in [Clients -> Seq(AllCmds)]
  <2>1. cmds \in [Clients -> Seq(AllCmds)]
    BY TypeParts
  <2>2. Tail(cmds[c]) \in Seq(AllCmds)
    BY <2>1, HeadTailProperties
  <2> QED BY <2>1, <2>2 DEF Println
<1>2. ans' \in [Clients -> Seq(Lines)]
  <2>1. ans \in [Clients -> Seq(Lines)]
    BY TypeParts
  <2>2. ans[c] \in Seq(Lines) /\ ans[c] \o ls \in Seq(Lines)
    BY <2>1, ConcatProperties
  <2> QED BY <2>1, <2>2 DEF Println
<1>3. link' \in [Clients -> {"none", "open", "fin", "rst", "dead"}]
  BY TypeParts DEF Println
<1>4. UNCHANGED <<adapterVars, clientVars>>
  BY DEF Println
<1> QED BY <1>1, <1>2, <1>3, <1>4 DEF TypeOK, AllCmds, adapterVars, clientVars

\* A client's step that leaves the adapter and the space alone.
LEMMA ClientTypes ==
    ASSUME TypeOK, UNCHANGED <<adapterVars, storeVars>>,
           st' \in [Clients -> {"idle", "recv", "done", "failed", "crashed", "killed"}],
           cmds' \in [Clients -> Seq(AllCmds)], ans' \in [Clients -> Seq(Lines)],
           link' \in [Clients -> {"none", "open", "fin", "rst", "dead"}],
           ask' \in [Clients -> {1, 2}],
           buf' \in [Clients -> Seq(Tuples)], stale' \in [Clients -> BOOLEAN],
           found' \in [Clients -> Seq(Tuples)],
           confirmed' \in [Clients -> BOOLEAN], merged' \in [Clients -> BOOLEAN]
    PROVE  TypeOK'
BY DEF TypeOK, AllCmds, adapterVars, storeVars

\* A client that closes its socket.
LEMMA CloseTypes ==
    ASSUME TypeOK, NEW c \in Clients, NEW s \in {"done", "failed", "crashed"}, NEW rest,
           Close(c, s, rest)
    PROVE  /\ st' \in [Clients -> {"idle", "recv", "done", "failed", "crashed", "killed"}]
           /\ link' \in [Clients -> {"none", "open", "fin", "rst", "dead"}]
           /\ ans' \in [Clients -> Seq(Lines)]
<1>1. /\ st \in [Clients -> {"idle", "recv", "done", "failed", "crashed", "killed"}]
      /\ link \in [Clients -> {"none", "open", "fin", "rst", "dead"}]
      /\ ans \in [Clients -> Seq(Lines)]
  BY TypeParts
<1>2. st' \in [Clients -> {"idle", "recv", "done", "failed", "crashed", "killed"}]
  BY <1>1 DEF Close
<1>3. link' \in [Clients -> {"none", "open", "fin", "rst", "dead"}]
  BY <1>1 DEF Close
<1>4. ans' \in [Clients -> Seq(Lines)]
  BY <1>1 DEF Close
<1> QED BY <1>2, <1>3, <1>4

\* A client that goes on.
LEMMA ContinueTypes ==
    ASSUME TypeOK, NEW c \in Clients, NEW rest \in Seq(Lines), NEW kept \in Seq(Tuples),
           NEW old \in BOOLEAN, Continue(c, rest, kept, old)
    PROVE  /\ st' \in [Clients -> {"idle", "recv", "done", "failed", "crashed", "killed"}]
           /\ link' \in [Clients -> {"none", "open", "fin", "rst", "dead"}]
           /\ ans' \in [Clients -> Seq(Lines)]
           /\ buf' \in [Clients -> Seq(Tuples)] /\ stale' \in [Clients -> BOOLEAN]
<1>1. /\ st \in [Clients -> {"idle", "recv", "done", "failed", "crashed", "killed"}]
      /\ link \in [Clients -> {"none", "open", "fin", "rst", "dead"}]
      /\ ans \in [Clients -> Seq(Lines)]
      /\ buf \in [Clients -> Seq(Tuples)] /\ stale \in [Clients -> BOOLEAN]
  BY TypeParts
<1>2. ans' \in [Clients -> Seq(Lines)]
  BY <1>1 DEF Continue
<1>3. buf' \in [Clients -> Seq(Tuples)]
  BY <1>1 DEF Continue
<1>4. stale' \in [Clients -> BOOLEAN]
  BY <1>1, Zenon DEF Continue
<1>5. st' = st /\ link' = link
  BY DEF Continue
<1> QED BY <1>1, <1>2, <1>3, <1>4, <1>5

\* What a recv() returns are lines, and so is what it leaves.
LEMMA RecvTypes ==
    ASSUME TypeOK, NEW c \in Clients, NEW n \in DOMAIN ans[c]
    PROVE  /\ n \in 1 .. Len(ans[c]) /\ Chunk(c, n) \in Seq(Lines) /\ Rest(c, n) \in Seq(Lines)
           /\ \/ FirstTuple(Chunk(c, n)) = <<>>
              \/ \E t \in Tuples : FirstTuple(Chunk(c, n)) = <<t>>
           /\ FirstTuple(Chunk(c, n)) \in Seq(Tuples)
<1>1. ans[c] \in Seq(Lines)
  BY TypeParts
<1>2. n \in 1 .. Len(ans[c])
  BY <1>1
<1>3. Chunk(c, n) \in Seq(Lines) /\ Rest(c, n) \in Seq(Lines)
  BY <1>1, <1>2, CutFacts DEF Chunk, Rest
<1>4. FirstTuple(Chunk(c, n)) = <<>> \/ \E t \in Tuples : FirstTuple(Chunk(c, n)) = <<t>>
  BY <1>3, FirstTupleTypes
<1>5. \A t \in Tuples : <<t>> \in Seq(Tuples)
  OBVIOUS
<1>6. <<>> \in Seq(Tuples)
  OBVIOUS
<1> QED BY <1>2, <1>3, <1>4, <1>5, <1>6

\* Nothing has happened.
LEMMA TypeInit == Init => TypeOK
<1> SUFFICES ASSUME Init PROVE TypeOK
  OBVIOUS
<1>1. 0 \in 0 .. MaxExceptions
  BY ClientsAssumption
<1>2. /\ up \in BOOLEAN /\ serving \in {{}} \cup {{c} : c \in Clients}
      /\ backlog \in Seq(Clients) /\ space \in Seq(Tuples) /\ exceptions \in 0 .. MaxExceptions
  BY <1>1 DEF Init
<1>3. /\ st \in [Clients -> {"idle", "recv", "done", "failed", "crashed", "killed"}]
      /\ link \in [Clients -> {"none", "open", "fin", "rst", "dead"}]
      /\ ask \in [Clients -> {1, 2}]
  BY DEF Init
<1>4. \A S : [c \in Clients |-> <<>>] \in [Clients -> Seq(S)]
  BY EmptySeq
<1>5. /\ cmds \in [Clients -> Seq(AllCmds)] /\ ans \in [Clients -> Seq(Lines)]
      /\ buf \in [Clients -> Seq(Tuples)] /\ found \in [Clients -> Seq(Tuples)]
      /\ atRead \in [Clients -> Seq(Tuples)]
  BY <1>4 DEF Init
<1>6. /\ stale \in [Clients -> BOOLEAN] /\ confirmed \in [Clients -> BOOLEAN]
      /\ merged \in [Clients -> BOOLEAN]
  BY DEF Init
<1> QED BY <1>2, <1>3, <1>5, <1>6, TypeParts

\* The adapter executes a command.
LEMMA TypeExecute ==
    ASSUME TypeOK, NEW c \in Clients,
           \/ ExecuteOut(c) \/ ExecuteInp(c) \/ ExecuteRdall(c) \/ ExecuteRdp(c) \/ ExecuteFails(c)
    PROVE  TypeOK'
<1>1. /\ space \in Seq(Tuples) /\ exceptions \in 0 .. MaxExceptions /\ MaxExceptions \in Nat
      /\ atRead \in [Clients -> Seq(Tuples)] /\ cmds \in [Clients -> Seq(AllCmds)]
  BY TypeParts, ClientsAssumption
<1>2. /\ OKLine \in Lines /\ ErrorLine \in Lines /\ EmptyLine \in Lines
      /\ \A t \in Tuples : TupleLine(t) \in Lines
  BY LineFacts
<1>3. \A x, y \in Lines : <<x>> \in Seq(Lines) /\ <<x, y>> \in Seq(Lines)
  OBVIOUS
<1>4. cmds[c] # <<>>
  BY DEF ExecuteOut, ExecuteInp, ExecuteRdall, ExecuteRdp, ExecuteFails, Reads
<1>5. Head(cmds[c]) \in AllCmds
  BY <1>1, <1>4, HeadTailProperties
<1>6. Head(cmds[c]).tuple \in Tuples
  BY <1>5 DEF AllCmds
<1>7. CASE ExecuteOut(c)
  <2>1. space' \in Seq(Tuples)
    BY <1>1, <1>6, <1>7, AppendProperties DEF ExecuteOut
  <2>2. Println(c, <<OKLine>>) /\ <<OKLine>> \in Seq(Lines) /\ UNCHANGED <<exceptions, atRead>>
    BY <1>2, <1>3, <1>7 DEF ExecuteOut
  <2> QED BY <1>1, <1>4, <2>1, <2>2, PrintlnTypes
<1>8. CASE ExecuteInp(c)
  <2>1. space' \in Seq(Tuples)
    <3>1. space' = space \/ \E i \in DOMAIN space : space' = RemoveAt(space, i)
      BY <1>8 DEF ExecuteInp
    <3>2. \A i \in DOMAIN space : RemoveAt(space, i) \in Seq(Tuples)
      <4>1. DOMAIN space = 1 .. Len(space)
        BY <1>1
      <4> QED BY <1>1, <4>1, RemoveAtFacts
    <3> QED BY <1>1, <3>1, <3>2
  <2>2. Println(c, <<OKLine>>) /\ <<OKLine>> \in Seq(Lines) /\ UNCHANGED <<exceptions, atRead>>
    BY <1>2, <1>3, <1>8 DEF ExecuteInp
  <2> QED BY <1>1, <1>4, <2>1, <2>2, PrintlnTypes
<1>9. CASE ExecuteRdall(c)
  <2>1. NodesIn(space) \in Seq(Tuples)
    BY <1>1, NodesTypes
  <2>2. /\ Println(c, AllLines(NodesIn(space))) /\ atRead' = [atRead EXCEPT ![c] = NodesIn(space)]
        /\ UNCHANGED <<space, exceptions>>
    BY <1>9 DEF ExecuteRdall, AllLines
  <2>3. AllLines(NodesIn(space)) \in Seq(Lines)
    BY <2>1, AllLinesFacts
  <2>4. atRead' \in [Clients -> Seq(Tuples)]
    BY <1>1, <2>1, <2>2
  <2> QED BY <1>1, <1>4, <2>2, <2>3, <2>4, PrintlnTypes
<1>10. CASE ExecuteRdp(c)
  <2>1. UNCHANGED <<space, exceptions>>
    BY <1>10 DEF ExecuteRdp
  <2>2. CASE Println(c, <<OKLine, EmptyLine>>) /\ atRead' = [atRead EXCEPT ![c] = <<>>]
    <3>1. <<OKLine, EmptyLine>> \in Seq(Lines) /\ atRead' \in [Clients -> Seq(Tuples)]
      BY <1>1, <1>2, <1>3, <2>2
    <3> QED BY <1>1, <1>4, <2>1, <2>2, <3>1, PrintlnTypes
  <2>3. ASSUME NEW i \in DOMAIN space, Println(c, <<OKLine, TupleLine(space[i])>>),
               atRead' = [atRead EXCEPT ![c] = <<space[i]>>]
        PROVE  TypeOK'
    <3>1. space[i] \in Tuples
      BY <1>1
    <3>2. <<OKLine, TupleLine(space[i])>> \in Seq(Lines)
      BY <1>2, <1>3, <3>1
    <3>3. atRead' \in [Clients -> Seq(Tuples)]
      BY <1>1, <2>3, <3>1
    <3> QED BY <1>1, <1>4, <2>1, <2>3, <3>2, <3>3, PrintlnTypes
  <2>4. \/ Println(c, <<OKLine, EmptyLine>>) /\ atRead' = [atRead EXCEPT ![c] = <<>>]
        \/ \E i \in DOMAIN space : /\ Println(c, <<OKLine, TupleLine(space[i])>>)
                                   /\ atRead' = [atRead EXCEPT ![c] = <<space[i]>>]
    BY <1>10 DEF ExecuteRdp, Matches
  <2> QED BY <2>2, <2>3, <2>4
<1>11. CASE ExecuteFails(c)
  <2>1. exceptions' \in 0 .. MaxExceptions
    BY <1>1, <1>11 DEF ExecuteFails
  <2>2. Println(c, <<ErrorLine>>) /\ <<ErrorLine>> \in Seq(Lines) /\ UNCHANGED <<space, atRead>>
    BY <1>2, <1>3, <1>11 DEF ExecuteFails
  <2> QED BY <1>1, <1>4, <2>1, <2>2, PrintlnTypes
<1> QED BY <1>7, <1>8, <1>9, <1>10, <1>11

\* The adapter goes from one connection to the next.
LEMMA TypeServe ==
    ASSUME TypeOK, Accept \/ \E c \in Clients : EndOfStream(c) \/ ReadThrows(c)
    PROVE  TypeOK'
<1>1. /\ backlog \in Seq(Clients) /\ link \in [Clients -> {"none", "open", "fin", "rst", "dead"}]
      /\ cmds \in [Clients -> Seq(AllCmds)]
  BY TypeParts
<1>2. CASE Accept
  <2>1. backlog' \in Seq(Clients) /\ Head(backlog) \in Clients
    BY <1>1, <1>2, HeadTailProperties DEF Accept
  <2>2. serving' \in {{}} \cup {{c} : c \in Clients}
    BY <1>2, <2>1 DEF Accept
  <2> QED BY <1>2, <2>1, <2>2 DEF Accept, TypeOK, storeVars, clientVars
<1>3. ASSUME NEW c \in Clients, EndOfStream(c) PROVE TypeOK'
  BY <1>3 DEF EndOfStream, TypeOK, storeVars, clientVars
<1>4. ASSUME NEW c \in Clients, ReadThrows(c) PROVE TypeOK'
  <2>1. link' \in [Clients -> {"none", "open", "fin", "rst", "dead"}]
    BY <1>1, <1>4 DEF ReadThrows
  <2>2. cmds' \in [Clients -> Seq(AllCmds)]
    BY <1>1, <1>4, EmptySeq DEF ReadThrows
  <2>3. up' = FALSE /\ serving' = {} /\ backlog' = <<>>
    BY <1>4 DEF ReadThrows
  <2>4. UNCHANGED <<storeVars, clientVars, ans>>
    BY <1>4 DEF ReadThrows
  <2>5. up' \in BOOLEAN
    BY <2>3, Zenon
  <2>6. backlog' \in Seq(Clients)
    BY <2>3, EmptySeq
  <2> QED BY <2>1, <2>2, <2>3, <2>4, <2>5, <2>6 DEF TypeOK, AllCmds, storeVars, clientVars
<1> QED BY <1>2, <1>3, <1>4

\* A client connects.
LEMMA TypeConnect == ASSUME TypeOK, NEW c \in Clients, Connect(c) PROVE TypeOK'
<1>1. /\ backlog \in Seq(Clients) /\ cmds \in [Clients -> Seq(AllCmds)]
      /\ st \in [Clients -> {"idle", "recv", "done", "failed", "crashed", "killed"}]
      /\ link \in [Clients -> {"none", "open", "fin", "rst", "dead"}]
  BY TypeParts
<1>2. Commands(c) \in Seq(AllCmds) /\ Append(backlog, c) \in Seq(Clients)
  BY <1>1, CommandTypes, AppendProperties
<1>3. st' \in [Clients -> {"idle", "recv", "done", "failed", "crashed", "killed"}]
  BY <1>1 DEF Connect
<1>4. link' \in [Clients -> {"none", "open", "fin", "rst", "dead"}]
  BY <1>1 DEF Connect
<1>5. cmds' \in [Clients -> Seq(AllCmds)] /\ backlog' \in Seq(Clients)
  BY <1>1, <1>2 DEF Connect
<1>6. UNCHANGED <<up, serving, storeVars, ans, ask, buf, stale, found, confirmed, merged>>
  BY DEF Connect
<1> QED BY <1>3, <1>4, <1>5, <1>6 DEF TypeOK, AllCmds, storeVars

\* A registration reads its confirmation, or finds the adapter gone.
LEMMA TypeConfirm ==
    ASSUME TypeOK, NEW c \in Clients, RecvConfirmation(c) \/ RecvGone(c)
    PROVE  TypeOK'
<1>1. CASE RecvConfirmation(c)
  <2>1. PICK n \in DOMAIN ans[c] : /\ Recv(c, n) /\ Close(c, "done", Rest(c, n))
                                   /\ confirmed' = [confirmed EXCEPT ![c] = Has(Chunk(c, n), "OK")]
    BY <1>1 DEF RecvConfirmation
  <2>2. confirmed' \in [Clients -> BOOLEAN]
    BY <2>1, Zenon DEF TypeOK, Has
  <2>3. merged' \in [Clients -> BOOLEAN]
    BY <2>1, Zenon DEF TypeOK, Recv
  <2>4. UNCHANGED <<adapterVars, storeVars, cmds, ask, buf, stale, found>>
    BY <1>1 DEF RecvConfirmation
  <2>5. /\ st' \in [Clients -> {"idle", "recv", "done", "failed", "crashed", "killed"}]
        /\ link' \in [Clients -> {"none", "open", "fin", "rst", "dead"}]
        /\ ans' \in [Clients -> Seq(Lines)]
    BY <2>1, CloseTypes
  <2>6. /\ cmds' \in [Clients -> Seq(AllCmds)] /\ ask' \in [Clients -> {1, 2}]
        /\ buf' \in [Clients -> Seq(Tuples)] /\ stale' \in [Clients -> BOOLEAN]
        /\ found' \in [Clients -> Seq(Tuples)]
    BY <2>4, TypeParts
  <2>7. UNCHANGED <<adapterVars, storeVars>>
    BY <2>4
  <2> QED BY <2>2, <2>3, <2>5, <2>6, <2>7, ClientTypes
<1>2. CASE RecvGone(c)
  <2>1. PICK s \in {"done", "failed", "crashed"} : Close(c, s, <<>>)
    BY <1>2 DEF RecvGone
  <2>2. UNCHANGED <<adapterVars, storeVars, cmds, ask, buf, stale, found, confirmed, merged>>
    BY <1>2 DEF RecvGone
  <2>3. /\ st' \in [Clients -> {"idle", "recv", "done", "failed", "crashed", "killed"}]
        /\ link' \in [Clients -> {"none", "open", "fin", "rst", "dead"}]
        /\ ans' \in [Clients -> Seq(Lines)]
    BY <2>1, CloseTypes
  <2>4. /\ cmds' \in [Clients -> Seq(AllCmds)] /\ ask' \in [Clients -> {1, 2}]
        /\ buf' \in [Clients -> Seq(Tuples)] /\ stale' \in [Clients -> BOOLEAN]
        /\ found' \in [Clients -> Seq(Tuples)]
        /\ confirmed' \in [Clients -> BOOLEAN] /\ merged' \in [Clients -> BOOLEAN]
    BY <2>2, TypeParts
  <2>5. UNCHANGED <<adapterVars, storeVars>>
    BY <2>2
  <2> QED BY <2>3, <2>4, <2>5, ClientTypes
<1> QED BY <1>1, <1>2

\* A query ends or goes on.
LEMMA LoopTypes ==
    ASSUME TypeOK, NEW c \in Clients, NEW n \in DOMAIN ans[c],
           \/ \E s \in {"done", "failed", "crashed"} : Finish(c, s, Rest(c, n))
           \/ \E kept \in Seq(Tuples), old \in BOOLEAN : Continue(c, Rest(c, n), kept, old)
    PROVE  /\ st' \in [Clients -> {"idle", "recv", "done", "failed", "crashed", "killed"}]
           /\ link' \in [Clients -> {"none", "open", "fin", "rst", "dead"}]
           /\ ans' \in [Clients -> Seq(Lines)]
           /\ buf' \in [Clients -> Seq(Tuples)] /\ stale' \in [Clients -> BOOLEAN]
<1>1. ASSUME NEW s \in {"done", "failed", "crashed"}, Finish(c, s, Rest(c, n))
      PROVE  /\ st' \in [Clients -> {"idle", "recv", "done", "failed", "crashed", "killed"}]
             /\ link' \in [Clients -> {"none", "open", "fin", "rst", "dead"}]
             /\ ans' \in [Clients -> Seq(Lines)]
             /\ buf' \in [Clients -> Seq(Tuples)] /\ stale' \in [Clients -> BOOLEAN]
  <2>1. Close(c, s, Rest(c, n)) /\ UNCHANGED <<buf, stale>>
    BY <1>1 DEF Finish
  <2>2. buf' \in [Clients -> Seq(Tuples)] /\ stale' \in [Clients -> BOOLEAN]
    BY <2>1, TypeParts
  <2> QED BY <2>1, <2>2, CloseTypes
<1>2. Rest(c, n) \in Seq(Lines)
  BY RecvTypes
<1> QED BY <1>1, <1>2, ContinueTypes

\* The query for the nodes.
LEMMA TypeHops == ASSUME TypeOK, NEW c \in Clients, RecvHops(c) PROVE TypeOK'
<1>1. PICK n \in DOMAIN ans[c] :
        /\ Recv(c, n)
        /\ \/ Finish(c, "failed", Rest(c, n)) /\ UNCHANGED found
           \/ Continue(c, Rest(c, n), FirstTuple(Chunk(c, n)), TRUE) /\ UNCHANGED found
           \/ Finish(c, "done", Rest(c, n)) /\ UNCHANGED found
           \/ Finish(c, "crashed", Rest(c, n)) /\ UNCHANGED found
           \/ /\ HopsTuple(c, n) # <<>>
              /\ found' = [found EXCEPT ![c] = Append(@, HopsTuple(c, n)[1])]
              /\ Continue(c, Rest(c, n), <<>>, FALSE)
  BY DEF RecvHops
<1>2. FirstTuple(Chunk(c, n)) \in Seq(Tuples)
  BY RecvTypes
<1>3. HopsTuple(c, n) \in Seq(Tuples) /\ found \in [Clients -> Seq(Tuples)]
  BY <1>2, TypeParts DEF HopsTuple
<1>4. found' \in [Clients -> Seq(Tuples)]
  <2>1. CASE UNCHANGED found
    BY <1>3, <2>1
  <2>2. CASE /\ HopsTuple(c, n) # <<>>
             /\ found' = [found EXCEPT ![c] = Append(@, HopsTuple(c, n)[1])]
    <3>1. HopsTuple(c, n)[1] \in Tuples
      BY <1>3, <2>2
    <3>2. Append(found[c], HopsTuple(c, n)[1]) \in Seq(Tuples)
      BY <1>3, <3>1, AppendProperties
    <3> QED BY <1>3, <2>2, <3>2
  <2> QED BY <1>1, <2>1, <2>2
<1>5. /\ st' \in [Clients -> {"idle", "recv", "done", "failed", "crashed", "killed"}]
      /\ link' \in [Clients -> {"none", "open", "fin", "rst", "dead"}]
      /\ ans' \in [Clients -> Seq(Lines)]
      /\ buf' \in [Clients -> Seq(Tuples)] /\ stale' \in [Clients -> BOOLEAN]
  <2>1. <<>> \in Seq(Tuples) /\ TRUE \in BOOLEAN /\ FALSE \in BOOLEAN
    OBVIOUS
  <2>2. \/ \E s \in {"done", "failed", "crashed"} : Finish(c, s, Rest(c, n))
        \/ \E kept \in Seq(Tuples), old \in BOOLEAN : Continue(c, Rest(c, n), kept, old)
    BY <1>1, <1>2, <2>1
  <2> QED BY <2>2, LoopTypes
<1>6. merged' \in [Clients -> BOOLEAN]
  BY <1>1, Zenon DEF TypeOK, Recv
<1>7. UNCHANGED <<adapterVars, storeVars, cmds, ask, confirmed>>
  BY DEF RecvHops
<1>8. /\ cmds' \in [Clients -> Seq(AllCmds)] /\ ask' \in [Clients -> {1, 2}]
      /\ confirmed' \in [Clients -> BOOLEAN]
  BY <1>7, TypeParts
<1>9. UNCHANGED <<adapterVars, storeVars>>
  BY <1>7
<1> QED BY <1>4, <1>5, <1>6, <1>8, <1>9, ClientTypes

\* The query for the receiver.
LEMMA TypeDsts == ASSUME TypeOK, NEW c \in Clients, RecvDsts(c) PROVE TypeOK'
<1>1. PICK n \in DOMAIN ans[c] :
        /\ Recv(c, n)
        /\ \/ Continue(c, Rest(c, n), <<>>, TRUE) /\ UNCHANGED <<cmds, ask, found>>
           \/ Finish(c, "crashed", Rest(c, n)) /\ UNCHANGED <<cmds, ask, found>>
           \/ /\ FirstTuple(Chunk(c, n)) # <<>>
              /\ ask' = [ask EXCEPT ![c] = 2]
              /\ cmds' = [cmds EXCEPT ![c] = Append(@, Cmd("rdp list", FirstTuple(Chunk(c, n))[1]))]
              /\ Continue(c, Rest(c, n), <<>>, FALSE) /\ UNCHANGED found
           \/ /\ FirstTuple(Chunk(c, n)) # <<>>
              /\ found' = [found EXCEPT ![c] = <<FirstTuple(Chunk(c, n))[1]>>]
              /\ Finish(c, "done", Rest(c, n)) /\ UNCHANGED <<cmds, ask>>
  BY DEF RecvDsts
<1>2. FirstTuple(Chunk(c, n)) = <<>> \/ \E t \in Tuples : FirstTuple(Chunk(c, n)) = <<t>>
  BY RecvTypes
<1>3. FirstTuple(Chunk(c, n)) # <<>> => FirstTuple(Chunk(c, n))[1] \in Tuples
  BY <1>2
<1>4. /\ cmds \in [Clients -> Seq(AllCmds)] /\ ask \in [Clients -> {1, 2}]
      /\ found \in [Clients -> Seq(Tuples)]
  BY TypeParts
<1>5. cmds' \in [Clients -> Seq(AllCmds)]
  <2>1. CASE UNCHANGED cmds
    BY <1>4, <2>1
  <2>2. CASE /\ FirstTuple(Chunk(c, n)) # <<>>
             /\ cmds' = [cmds EXCEPT ![c] = Append(@, Cmd("rdp list", FirstTuple(Chunk(c, n))[1]))]
    <3>1. "rdp list" \in Ops
      BY DEF Ops
    <3>2. Cmd("rdp list", FirstTuple(Chunk(c, n))[1]) \in AllCmds
      BY <1>3, <2>2, <3>1, CmdFacts
    <3>3. Append(cmds[c], Cmd("rdp list", FirstTuple(Chunk(c, n))[1])) \in Seq(AllCmds)
      BY <1>4, <3>2, AppendProperties
    <3> QED BY <1>4, <2>2, <3>3
  <2> QED BY <1>1, <2>1, <2>2
<1>6. found' \in [Clients -> Seq(Tuples)]
  <2>1. \A t \in Tuples : <<t>> \in Seq(Tuples)
    OBVIOUS
  <2> QED BY <1>1, <1>3, <1>4, <2>1
<1>7. ask' \in [Clients -> {1, 2}]
  BY <1>1, <1>4
<1>8. /\ st' \in [Clients -> {"idle", "recv", "done", "failed", "crashed", "killed"}]
      /\ link' \in [Clients -> {"none", "open", "fin", "rst", "dead"}]
      /\ ans' \in [Clients -> Seq(Lines)]
      /\ buf' \in [Clients -> Seq(Tuples)] /\ stale' \in [Clients -> BOOLEAN]
  <2>1. <<>> \in Seq(Tuples) /\ TRUE \in BOOLEAN /\ FALSE \in BOOLEAN
    OBVIOUS
  <2>2. \/ \E s \in {"done", "failed", "crashed"} : Finish(c, s, Rest(c, n))
        \/ \E kept \in Seq(Tuples), old \in BOOLEAN : Continue(c, Rest(c, n), kept, old)
    BY <1>1, <2>1
  <2> QED BY <2>2, LoopTypes
<1>9. merged' \in [Clients -> BOOLEAN]
  BY <1>1, Zenon DEF TypeOK, Recv
<1>10. UNCHANGED <<adapterVars, storeVars, confirmed>>
  BY DEF RecvDsts
<1>11. confirmed' \in [Clients -> BOOLEAN] /\ UNCHANGED <<adapterVars, storeVars>>
  BY <1>10, TypeParts
<1> QED BY <1>5, <1>6, <1>7, <1>8, <1>9, <1>11, ClientTypes

\* Every step keeps the types.
LEMMA TypeNext == ASSUME TypeOK, [Next]_vars PROVE TypeOK'
<1>1. CASE UNCHANGED vars
  BY <1>1 DEF vars, adapterVars, storeVars, clientVars, TypeOK
<1>2. CASE Adapter
  BY <1>2, TypeExecute, TypeServe DEF Adapter
<1>3. ASSUME NEW c \in Clients, Client(c) PROVE TypeOK'
  BY <1>3, TypeConnect, TypeConfirm, TypeHops, TypeDsts DEF Client
<1> QED BY <1>1, <1>2, <1>3 DEF Next

-----------------------------------------------------------------------------
(* What a step leaves alone.                                               *)

\* Short sequences.
LEMMA ShortFacts ==
    /\ \A w : Head(<<w>>) = w /\ Tail(<<w>>) = <<>> /\ <<w>> # <<>>
    /\ \A w, x : Head(<<w, x>>) = w /\ Tail(<<w, x>>) = <<x>> /\ <<w, x>> # <<>>
    /\ \A w, x, y : Head(<<w, x, y>>) = w /\ Tail(<<w, x, y>>) = <<x, y>> /\ <<w, x, y>> # <<>>
    /\ \A w, x, y, z : /\ Head(<<w, x, y, z>>) = w /\ Tail(<<w, x, y, z>>) = <<x, y, z>>
                       /\ <<w, x, y, z>> # <<>>
OBVIOUS

\* What a receiver has to say, one by one.
LEMMA TodoFacts ==
    ASSUME NEW r
    PROVE  /\ Head(ReceiverCommands(r)) = Cmd("inp", DeviceTuple(r))
           /\ Tail(ReceiverCommands(r)) = Todo3(r)
           /\ Head(Todo3(r)) = Cmd("inp", ListTuple(r)) /\ Tail(Todo3(r)) = Todo2(r)
           /\ Head(Todo2(r)) = Cmd("out", DeviceTuple(r)) /\ Tail(Todo2(r)) = Todo1(r)
           /\ Head(Todo1(r)) = Cmd("out", ListTuple(r)) /\ Tail(Todo1(r)) = <<>>
           /\ Len(ReceiverCommands(r)) = 4 /\ Len(Todo3(r)) = 3 /\ Len(Todo2(r)) = 2
           /\ Len(Todo1(r)) = 1 /\ Len(<<>>) = 0
<1> DEFINE w == Cmd("inp", DeviceTuple(r))
           x == Cmd("inp", ListTuple(r))
           y == Cmd("out", DeviceTuple(r))
           z == Cmd("out", ListTuple(r))
<1>1. /\ ReceiverCommands(r) = <<w, x, y, z>> /\ Todo3(r) = <<x, y, z>>
      /\ Todo2(r) = <<y, z>> /\ Todo1(r) = <<z>>
  BY DEF ReceiverCommands, Todo1, Todo2, Todo3
<1> HIDE DEF w, x, y, z
<1>2. /\ Head(<<w, x, y, z>>) = w /\ Tail(<<w, x, y, z>>) = <<x, y, z>>
      /\ Head(<<x, y, z>>) = x /\ Tail(<<x, y, z>>) = <<y, z>>
      /\ Head(<<y, z>>) = y /\ Tail(<<y, z>>) = <<z>>
      /\ Head(<<z>>) = z /\ Tail(<<z>>) = <<>>
  OBVIOUS
<1>3. /\ Len(<<w, x, y, z>>) = 4 /\ Len(<<x, y, z>>) = 3 /\ Len(<<y, z>>) = 2
      /\ Len(<<z>>) = 1 /\ Len(<<>>) = 0
  OBVIOUS
<1> QED BY <1>1, <1>2, <1>3 DEF w, x, y, z

\* The adapter prints an answer.
LEMMA PrintlnFacts ==
    ASSUME TypeOK, NEW c \in Clients, NEW ls, Println(c, ls)
    PROVE  /\ cmds'[c] = Tail(cmds[c])
           /\ ans'[c] = IF link[c] = "open" THEN ans[c] \o ls ELSE ans[c]
           /\ link'[c] = link[c] \/ (link[c] = "rst" /\ link'[c] = "fin")
           /\ \A d \in Clients \ {c} : cmds'[d] = cmds[d] /\ ans'[d] = ans[d] /\ link'[d] = link[d]
           /\ UNCHANGED <<up, serving, backlog, st, ask, buf, stale, found, confirmed, merged>>
<1>1. /\ cmds \in [Clients -> Seq(AllCmds)] /\ ans \in [Clients -> Seq(Lines)]
      /\ link \in [Clients -> {"none", "open", "fin", "rst", "dead"}]
  BY TypeParts
<1>2. cmds'[c] = Tail(cmds[c]) /\ \A d \in Clients \ {c} : cmds'[d] = cmds[d]
  BY <1>1 DEF Println
<1>3. /\ ans'[c] = IF link[c] = "open" THEN ans[c] \o ls ELSE ans[c]
      /\ \A d \in Clients \ {c} : ans'[d] = ans[d]
  BY <1>1 DEF Println
<1>4. /\ link'[c] = link[c] \/ (link[c] = "rst" /\ link'[c] = "fin")
      /\ \A d \in Clients \ {c} : link'[d] = link[d]
  BY <1>1 DEF Println
<1>5. UNCHANGED <<up, serving, backlog, st, ask, buf, stale, found, confirmed, merged>>
  BY DEF Println, adapterVars, clientVars
<1> QED BY <1>2, <1>3, <1>4, <1>5

\* A client closes its socket.
LEMMA CloseFacts ==
    ASSUME TypeOK, NEW c \in Clients, NEW s, NEW rest, Close(c, s, rest)
    PROVE  /\ st'[c] = s /\ link'[c] # "open" /\ ans'[c] = <<>>
           /\ link[c] = "dead" => link'[c] = "dead"
           /\ \A d \in Clients \ {c} : st'[d] = st[d] /\ ans'[d] = ans[d] /\ link'[d] = link[d]
<1>1. /\ st \in [Clients -> {"idle", "recv", "done", "failed", "crashed", "killed"}]
      /\ ans \in [Clients -> Seq(Lines)]
      /\ link \in [Clients -> {"none", "open", "fin", "rst", "dead"}]
  BY TypeParts
<1>2. st'[c] = s /\ \A d \in Clients \ {c} : st'[d] = st[d]
  BY <1>1 DEF Close
<1>3. ans'[c] = <<>> /\ \A d \in Clients \ {c} : ans'[d] = ans[d]
  BY <1>1 DEF Close
<1>4. /\ link'[c] # "open" /\ (link[c] = "dead" => link'[c] = "dead")
      /\ \A d \in Clients \ {c} : link'[d] = link[d]
  BY <1>1 DEF Close
<1> QED BY <1>2, <1>3, <1>4

\* A query goes on.
LEMMA ContinueFacts ==
    ASSUME TypeOK, NEW c \in Clients, NEW rest, NEW kept, NEW old, Continue(c, rest, kept, old)
    PROVE  /\ ans'[c] = rest /\ buf'[c] = kept /\ stale'[c] = old /\ st' = st /\ link' = link
           /\ \A d \in Clients \ {c} : /\ ans'[d] = ans[d] /\ buf'[d] = buf[d]
                                       /\ stale'[d] = stale[d]
<1>1. /\ ans \in [Clients -> Seq(Lines)] /\ buf \in [Clients -> Seq(Tuples)]
      /\ DOMAIN stale = Clients
  BY TypeParts
<1>2. ans'[c] = rest /\ \A d \in Clients \ {c} : ans'[d] = ans[d]
  BY <1>1 DEF Continue
<1>3. buf'[c] = kept /\ \A d \in Clients \ {c} : buf'[d] = buf[d]
  BY <1>1 DEF Continue
<1>4. stale'[c] = old /\ \A d \in Clients \ {c} : stale'[d] = stale[d]
  BY <1>1, Zenon DEF Continue
<1>5. st' = st /\ link' = link
  BY DEF Continue
<1> QED BY <1>2, <1>3, <1>4, <1>5

\* A recv() of one client.
LEMMA RecvFacts ==
    ASSUME TypeOK, NEW c \in Clients, NEW n, Recv(c, n)
    PROVE  /\ st[c] = "recv" /\ n \in 1 .. Len(ans[c]) /\ (merged'[c] <=> merged[c] \/ n > 1)
           /\ \A d \in Clients \ {c} : merged'[d] = merged[d]
<1>1. DOMAIN merged = Clients
  BY TypeParts
<1>2. merged' = [merged EXCEPT ![c] = merged[c] \/ n > 1]
  BY DEF Recv
<1>3. (merged'[c] <=> merged[c] \/ n > 1) /\ \A d \in Clients \ {c} : merged'[d] = merged[d]
  BY <1>1, <1>2, Zenon
<1> QED BY <1>3 DEF Recv

\* Execution of a command of c's.
Executes(c) ==
    ExecuteOut(c) \/ ExecuteInp(c) \/ ExecuteRdall(c) \/ ExecuteRdp(c) \/ ExecuteFails(c)

\* c is being served, and a command of its is answered; nobody else notices.
LEMMA ExecutesFacts ==
    ASSUME TypeOK, NEW c \in Clients, Executes(c)
    PROVE  /\ serving = {c} /\ cmds[c] # <<>> /\ \E ls : Println(c, ls)
           /\ \A d \in Clients \ {c} : atRead'[d] = atRead[d]
<1>1. serving = {c} /\ cmds[c] # <<>>
  BY DEF Executes, ExecuteOut, ExecuteInp, ExecuteRdall, ExecuteRdp, ExecuteFails, Reads
<1>2. \E ls : Println(c, ls)
  BY DEF Executes, ExecuteOut, ExecuteInp, ExecuteRdall, ExecuteRdp, ExecuteFails
<1>3. atRead \in [Clients -> Seq(Tuples)]
  BY TypeParts
<1>4. atRead' = atRead \/ \E x : atRead' = [atRead EXCEPT ![c] = x]
  BY DEF Executes, ExecuteOut, ExecuteInp, ExecuteRdall, ExecuteRdp, ExecuteFails
<1> QED BY <1>1, <1>2, <1>3, <1>4

\* A step of one client.
LEMMA ClientFacts ==
    ASSUME TypeOK, NEW c \in Clients, Client(c), NEW d \in Clients \ {c}
    PROVE  /\ st'[d] = st[d] /\ cmds'[d] = cmds[d] /\ ans'[d] = ans[d] /\ link'[d] = link[d]
           /\ ask'[d] = ask[d] /\ buf'[d] = buf[d] /\ stale'[d] = stale[d]
           /\ found'[d] = found[d] /\ merged'[d] = merged[d]
<1>1. /\ st \in [Clients -> {"idle", "recv", "done", "failed", "crashed", "killed"}]
      /\ cmds \in [Clients -> Seq(AllCmds)]
      /\ link \in [Clients -> {"none", "open", "fin", "rst", "dead"}]
      /\ ask \in [Clients -> {1, 2}] /\ found \in [Clients -> Seq(Tuples)]
  BY TypeParts
<1>2. CASE Connect(c)
  BY <1>1, <1>2 DEF Connect
<1>3. CASE RecvConfirmation(c)
  <2>1. PICK n : Recv(c, n) /\ Close(c, "done", Rest(c, n))
    BY <1>3 DEF RecvConfirmation
  <2>2. UNCHANGED <<cmds, ask, buf, stale, found>>
    BY <1>3 DEF RecvConfirmation
  <2> QED BY <2>1, <2>2, RecvFacts, CloseFacts
<1>4. CASE RecvGone(c)
  <2>1. PICK s : Close(c, s, <<>>)
    BY <1>4 DEF RecvGone
  <2>2. UNCHANGED <<cmds, ask, buf, stale, found, merged>>
    BY <1>4 DEF RecvGone
  <2> QED BY <2>1, <2>2, CloseFacts
<1>5. ASSUME NEW s, NEW rest, Finish(c, s, rest)
      PROVE  /\ st'[d] = st[d] /\ ans'[d] = ans[d] /\ link'[d] = link[d]
             /\ buf'[d] = buf[d] /\ stale'[d] = stale[d]
  BY <1>5, CloseFacts DEF Finish
<1>6. ASSUME NEW rest, NEW kept, NEW old, Continue(c, rest, kept, old)
      PROVE  /\ st'[d] = st[d] /\ ans'[d] = ans[d] /\ link'[d] = link[d]
             /\ buf'[d] = buf[d] /\ stale'[d] = stale[d]
  BY <1>6, ContinueFacts
<1>7. CASE RecvHops(c)
  <2>1. PICK n : Recv(c, n)
    BY <1>7 DEF RecvHops
  <2>2. \/ \E s, rest : Finish(c, s, rest)
        \/ \E rest, kept, old : Continue(c, rest, kept, old)
    BY <1>7 DEF RecvHops
  <2>3. found' = found \/ \E x : found' = [found EXCEPT ![c] = x]
    BY <1>7 DEF RecvHops
  <2>4. UNCHANGED <<cmds, ask>>
    BY <1>7 DEF RecvHops
  <2>5. found'[d] = found[d]
    BY <1>1, <2>3
  <2> QED BY <1>5, <1>6, <2>1, <2>2, <2>4, <2>5, RecvFacts
<1>8. CASE RecvDsts(c)
  <2>1. PICK n : Recv(c, n)
    BY <1>8 DEF RecvDsts
  <2>2. \/ \E s, rest : Finish(c, s, rest)
        \/ \E rest, kept, old : Continue(c, rest, kept, old)
    BY <1>8 DEF RecvDsts
  <2>3. found' = found \/ \E x : found' = [found EXCEPT ![c] = x]
    BY <1>8 DEF RecvDsts
  <2>4. ask' = ask \/ \E x : ask' = [ask EXCEPT ![c] = x]
    BY <1>8 DEF RecvDsts
  <2>5. cmds' = cmds \/ \E x : cmds' = [cmds EXCEPT ![c] = x]
    BY <1>8 DEF RecvDsts
  <2>6. found'[d] = found[d] /\ ask'[d] = ask[d] /\ cmds'[d] = cmds[d]
    BY <1>1, <2>3, <2>4, <2>5
  <2> QED BY <1>5, <1>6, <2>1, <2>2, <2>6, RecvFacts
<1> QED BY <1>2, <1>3, <1>4, <1>7, <1>8 DEF Client

\* The adapter and the space do not move while a client does.
LEMMA ClientStore ==
    ASSUME NEW c \in Clients, Client(c)
    PROVE  UNCHANGED <<up, serving, space, exceptions, atRead>>
BY DEF Client, Connect, RecvConfirmation, RecvHops, RecvDsts, RecvGone, adapterVars, storeVars

\* A client connects, in vain or not, ends, or goes on.
LEMMA OwnFacts ==
    ASSUME TypeOK, NEW c \in Clients, Client(c)
    PROVE  \/ /\ st[c] = "idle" /\ st'[c] = "recv" /\ link'[c] = "open"
              /\ cmds'[c] = Commands(c) /\ ans'[c] = ans[c]
           \/ st[c] = "idle" /\ st'[c] = "killed" /\ UNCHANGED <<link, cmds, ans>>
           \/ /\ st[c] = "recv" /\ st'[c] \in {"done", "failed", "crashed"}
              /\ link'[c] # "open" /\ ans'[c] = <<>> /\ cmds'[c] = cmds[c]
           \/ /\ st[c] = "recv" /\ UNCHANGED <<st, link>>
              /\ Role[c] # "dsts" => cmds'[c] = cmds[c]
<1>1. /\ st \in [Clients -> {"idle", "recv", "done", "failed", "crashed", "killed"}]
      /\ cmds \in [Clients -> Seq(AllCmds)]
      /\ link \in [Clients -> {"none", "open", "fin", "rst", "dead"}]
  BY TypeParts
<1>2. CASE Connect(c)
  <2>1. CASE up
    <3>1. /\ st[c] = "idle" /\ st' = [st EXCEPT ![c] = "recv"]
          /\ link' = [link EXCEPT ![c] = "open"] /\ cmds' = [cmds EXCEPT ![c] = Commands(c)]
          /\ UNCHANGED ans
      BY <1>2, <2>1 DEF Connect
    <3>2. st'[c] = "recv" /\ link'[c] = "open" /\ cmds'[c] = Commands(c)
      BY <1>1, <3>1
    <3> QED BY <3>1, <3>2
  <2>2. CASE ~up
    <3>1. st[c] = "idle" /\ st' = [st EXCEPT ![c] = "killed"] /\ UNCHANGED <<link, cmds, ans>>
      BY <1>2, <2>2 DEF Connect
    <3> QED BY <1>1, <3>1
  <2> QED BY <2>1, <2>2
<1>3. CASE RecvConfirmation(c)
  <2>1. PICK n : Recv(c, n) /\ Close(c, "done", Rest(c, n))
    BY <1>3 DEF RecvConfirmation
  <2>2. UNCHANGED cmds
    BY <1>3 DEF RecvConfirmation
  <2> QED BY <2>1, <2>2, CloseFacts DEF Recv
<1>4. CASE RecvGone(c)
  <2>1. PICK s \in {"done", "failed", "crashed"} : Close(c, s, <<>>)
    BY <1>4 DEF RecvGone
  <2>2. UNCHANGED cmds /\ st[c] = "recv"
    BY <1>4 DEF RecvGone
  <2> QED BY <2>1, <2>2, CloseFacts
<1>5. CASE RecvHops(c)
  <2>1. UNCHANGED cmds /\ st[c] = "recv"
    BY <1>5 DEF RecvHops, Recv
  <2>2. \/ \E s \in {"done", "failed", "crashed"} : \E rest : Finish(c, s, rest)
        \/ \E rest, kept, old : Continue(c, rest, kept, old)
    BY <1>5 DEF RecvHops
  <2> QED BY <2>1, <2>2, CloseFacts, ContinueFacts DEF Finish
<1>6. CASE RecvDsts(c)
  <2>1. st[c] = "recv" /\ Role[c] = "dsts"
    BY <1>6 DEF RecvDsts, Recv
  <2>2. \/ UNCHANGED cmds /\ \E s \in {"done", "failed", "crashed"} : \E rest : Finish(c, s, rest)
        \/ \E rest, kept, old : Continue(c, rest, kept, old)
    BY <1>6 DEF RecvDsts
  <2> QED BY <2>1, <2>2, CloseFacts, ContinueFacts DEF Finish
<1> QED BY <1>2, <1>3, <1>4, <1>5, <1>6 DEF Client

\* ReadThrows by client: those of the backlog are cut off, the others keep what they have.
LEMMA ReadThrowsFacts ==
    ASSUME TypeOK, NEW c \in Clients, ReadThrows(c)
    PROVE  /\ serving = {c} /\ serving' = {} /\ cmds[c] = <<>> /\ link[c] = "rst"
           /\ UNCHANGED <<space, exceptions, atRead, st, ask, buf, stale, found, confirmed, merged, ans>>
           /\ \A d \in Clients : \/ cmds'[d] = <<>> /\ link'[d] = "dead"
                                 \/ cmds'[d] = cmds[d] /\ link'[d] = link[d]
BY DEF ReadThrows, storeVars, clientVars

\* Who moves in a step.
LEMMA NextCases ==
    ASSUME [Next]_vars
    PROVE  \/ \E c \in Clients : Executes(c)
           \/ \E c \in Clients : Client(c)
           \/ Accept
           \/ \E c \in Clients : EndOfStream(c)
           \/ \E c \in Clients : ReadThrows(c)
           \/ UNCHANGED vars
BY DEF Next, Adapter, Executes

\* What Accept and EndOfStream change.
LEMMA ServeFacts ==
    ASSUME Accept \/ (\E c \in Clients : EndOfStream(c)) \/ UNCHANGED vars
    PROVE  /\ UNCHANGED <<space, exceptions, atRead, st, ask, buf, stale, found, confirmed, merged,
                          cmds, ans, link>>
           /\ \/ serving = {} \/ UNCHANGED serving
              \/ \E c \in Clients : serving = {c} /\ cmds[c] = <<>> /\ link[c] = "fin" /\ serving' = {}
BY DEF Accept, EndOfStream, vars, adapterVars, storeVars, clientVars
-----------------------------------------------------------------------------
(* Connections and commands.                                               *)

\* Nobody has connected.
LEMMA ConnectionInit == Init => ConnectionInv /\ CommandInv /\ DstsLines
<1> SUFFICES ASSUME Init, NEW c \in Clients
             PROVE  link[c] = "none" /\ ans[c] = <<>> /\ cmds[c] = <<>> /\ st[c] = "idle"
  BY DEF ConnectionInv, CommandInv, DstsLines, ByRole
<1> QED BY DEF Init

\* Every step keeps ConnectionInv.
LEMMA ConnectionNext == ASSUME TypeOK, ConnectionInv, [Next]_vars PROVE ConnectionInv'
<1> SUFFICES ASSUME NEW d \in Clients
             PROVE  /\ link'[d] = "open" => st'[d] = "recv"
                    /\ ans'[d] # <<>> => st'[d] = "recv"
                    /\ st'[d] = "idle" => cmds'[d] = <<>>
  BY DEF ConnectionInv
<1>1. /\ link[d] = "open" => st[d] = "recv"
      /\ ans[d] # <<>> => st[d] = "recv"
      /\ st[d] = "idle" => cmds[d] = <<>>
  BY DEF ConnectionInv
<1>2. ASSUME NEW c \in Clients, Executes(c)
      PROVE  /\ link'[d] = "open" => st'[d] = "recv"
             /\ ans'[d] # <<>> => st'[d] = "recv"
             /\ st'[d] = "idle" => cmds'[d] = <<>>
  <2>1. PICK ls : Println(c, ls)
    BY <1>2, ExecutesFacts
  <2>2. cmds[c] # <<>>
    BY <1>2, ExecutesFacts
  <2>3. CASE d = c
    BY <1>1, <2>1, <2>2, <2>3, PrintlnFacts
  <2>4. CASE d # c
    BY <1>1, <2>1, <2>4, PrintlnFacts
  <2> QED BY <2>3, <2>4
<1>3. ASSUME NEW c \in Clients, Client(c)
      PROVE  /\ link'[d] = "open" => st'[d] = "recv"
             /\ ans'[d] # <<>> => st'[d] = "recv"
             /\ st'[d] = "idle" => cmds'[d] = <<>>
  <2>1. CASE d = c
    BY <1>1, <1>3, <2>1, OwnFacts
  <2>2. CASE d # c
    BY <1>1, <1>3, <2>2, ClientFacts
  <2> QED BY <2>1, <2>2
<1>4. ASSUME NEW c \in Clients, ReadThrows(c)
      PROVE  /\ link'[d] = "open" => st'[d] = "recv"
             /\ ans'[d] # <<>> => st'[d] = "recv"
             /\ st'[d] = "idle" => cmds'[d] = <<>>
  <2>1. UNCHANGED <<st, ans>>
    BY <1>4, ReadThrowsFacts
  <2>2. (cmds'[d] = <<>> /\ link'[d] = "dead") \/ (cmds'[d] = cmds[d] /\ link'[d] = link[d])
    BY <1>4, ReadThrowsFacts
  <2> QED BY <1>1, <2>1, <2>2
<1>5. CASE Accept \/ (\E c \in Clients : EndOfStream(c)) \/ UNCHANGED vars
  BY <1>1, <1>5, ServeFacts
<1> QED BY <1>2, <1>3, <1>4, <1>5, NextCases

\* Sequences of no, one and two elements.
LEMMA SmallSeq ==
    ASSUME NEW S, NEW q \in Seq(S)
    PROVE  /\ Len(q) = 0 => q = <<>>
           /\ Len(q) = 1 => q = <<q[1]>>
           /\ Len(q) = 2 => q = <<q[1], q[2]>>
           /\ \A x \in S : Append(<<>>, x) = <<x>>
<1>1. Len(q) \in Nat /\ \A j \in 1 .. Len(q) : q[j] \in S
  OBVIOUS
<1>2. Len(q) = 0 => q = <<>>
  OBVIOUS
<1>3. ASSUME Len(q) = 1 PROVE q = <<q[1]>>
  <2>1. /\ <<q[1]>> \in Seq(S) /\ Len(<<q[1]>>) = 1
        /\ \A j \in 1 .. Len(q) : q[j] = <<q[1]>>[j]
    BY <1>1, <1>3
  <2> QED BY <1>3, <2>1, SeqEqual
<1>4. ASSUME Len(q) = 2 PROVE q = <<q[1], q[2]>>
  <2>1. /\ <<q[1], q[2]>> \in Seq(S) /\ Len(<<q[1], q[2]>>) = 2
        /\ \A j \in 1 .. Len(q) : q[j] = <<q[1], q[2]>>[j]
    BY <1>1, <1>4
  <2> QED BY <1>4, <2>1, SeqEqual
<1>5. ASSUME NEW x \in S PROVE Append(<<>>, x) = <<x>>
  <2>1. <<>> \in Seq(S) /\ Len(<<>>) = 0
    BY EmptySeq
  <2>2. Append(<<>>, x) \in Seq(S) /\ Len(Append(<<>>, x)) = 1 /\ Append(<<>>, x)[1] = x
    BY <2>1, AppendProperties
  <2>3. /\ <<x>> \in Seq(S) /\ Len(<<x>>) = 1
        /\ \A j \in 1 .. Len(Append(<<>>, x)) : Append(<<>>, x)[j] = <<x>>[j]
    BY <2>2
  <2> QED BY <2>2, <2>3, SeqEqual
<1> QED BY <1>2, <1>3, <1>4, <1>5

\* One line is received in one way ...
LEMMA OneLine ==
    ASSUME NEW c \in Clients, NEW l \in Lines, ans[c] = <<l>>, NEW n \in DOMAIN ans[c]
    PROVE  /\ n = 1 /\ Chunk(c, n) = <<l>> /\ Rest(c, n) = <<>>
           /\ \A tg : Has(Chunk(c, n), tg) <=> l.tag = tg
           /\ FirstTuple(Chunk(c, n)) = l.tuple
<1>1. n = 1 /\ Len(ans[c]) = 1 /\ <<l>> \in Seq(Lines) /\ <<l>>[1] = l
  OBVIOUS
<1>2. /\ SubSeq(<<l>>, 1, 1) \in Seq(Lines) /\ Len(SubSeq(<<l>>, 1, 1)) = 1
      /\ SubSeq(<<l>>, 1, 1)[1] = l
      /\ SubSeq(<<l>>, 2, 1) \in Seq(Lines) /\ Len(SubSeq(<<l>>, 2, 1)) = 0
  BY <1>1, CutFacts
<1>3. Chunk(c, n) = <<l>> /\ Rest(c, n) = <<>>
  <2>1. SubSeq(<<l>>, 1, 1) = <<l>> /\ SubSeq(<<l>>, 2, 1) = <<>>
    BY <1>2, SmallSeq
  <2>2. Chunk(c, n) = SubSeq(<<l>>, 1, 1) /\ Rest(c, n) = SubSeq(<<l>>, 1 + 1, 1)
    BY <1>1 DEF Chunk, Rest
  <2> QED BY <2>1, <2>2
<1>4. \A tg : Has(Chunk(c, n), tg) <=> l.tag = tg
  BY <1>1, <1>3 DEF Has
<1>5. FirstTuple(<<l>>) = l.tuple
  <2>1. Len(<<l>>) = 1 /\ 1 .. 1 = {1}
    OBVIOUS
  <2> DEFINE q == <<l>>
  <2>2. q \in Seq(Lines) /\ 1 .. Len(q) = {1} /\ q[1] = l
    BY <1>1, <2>1
  <2> HIDE DEF q
  <2>3. FirstTuple(q) = l.tuple
    BY <2>2, FirstTupleFacts
  <2> QED BY <2>3 DEF q
<1> QED BY <1>1, <1>3, <1>4, <1>5

\* ... and two lines in two.
LEMMA TwoLines ==
    ASSUME NEW c \in Clients, NEW x \in Lines, NEW y \in Lines, ans[c] = <<x, y>>,
           NEW n \in DOMAIN ans[c]
    PROVE  /\ \/ n = 1 /\ Chunk(c, n) = <<x>> /\ Rest(c, n) = <<y>>
              \/ n = 2 /\ Chunk(c, n) = <<x, y>> /\ Rest(c, n) = <<>>
           /\ Has(Chunk(c, n), x.tag)
<1>1. /\ n \in {1, 2} /\ Len(ans[c]) = 2 /\ <<x, y>> \in Seq(Lines)
      /\ <<x, y>>[1] = x /\ <<x, y>>[2] = y
  OBVIOUS
<1>2. /\ SubSeq(<<x, y>>, 1, 1) \in Seq(Lines) /\ Len(SubSeq(<<x, y>>, 1, 1)) = 1
      /\ SubSeq(<<x, y>>, 1, 1)[1] = x
      /\ SubSeq(<<x, y>>, 2, 2) \in Seq(Lines) /\ Len(SubSeq(<<x, y>>, 2, 2)) = 1
      /\ SubSeq(<<x, y>>, 2, 2)[1] = y
  <2>1. 1 \in 1 .. Len(<<x, y>>) /\ Len(<<x, y>>) = 2
    OBVIOUS
  <2> QED BY <1>1, <2>1, CutFacts
<1>3. SubSeq(<<x, y>>, 1, 2) = <<x, y>> /\ SubSeq(<<x, y>>, 3, 2) = <<>>
  <2>1. Len(<<x, y>>) = 2 /\ 3 \in Int /\ 2 \in Int
    OBVIOUS
  <2>2. SubSeq(<<x, y>>, 1, Len(<<x, y>>)) = <<x, y>>
    BY <1>1, SubSeqFull
  <2>3. SubSeq(<<x, y>>, 3, 2) = <<>>
    BY <2>1, SubSeqEmpty
  <2> QED BY <2>1, <2>2, <2>3
<1>4. CASE n = 1
  <2>1. Chunk(c, n) = <<x>> /\ Rest(c, n) = <<y>>
    <3>1. SubSeq(<<x, y>>, 1, 1) = <<x>> /\ SubSeq(<<x, y>>, 2, 2) = <<y>>
      BY <1>2, SmallSeq
    <3>2. Chunk(c, n) = SubSeq(<<x, y>>, 1, 1) /\ Rest(c, n) = SubSeq(<<x, y>>, 1 + 1, 2)
      BY <1>1, <1>4 DEF Chunk, Rest
    <3> QED BY <3>1, <3>2
  <2>2. Has(<<x>>, x.tag)
    BY DEF Has
  <2> QED BY <1>4, <2>1, <2>2
<1>5. CASE n = 2
  <2>1. Chunk(c, n) = <<x, y>> /\ Rest(c, n) = <<>>
    BY <1>1, <1>3, <1>5 DEF Chunk, Rest
  <2>2. Has(<<x, y>>, x.tag)
    BY <1>1 DEF Has
  <2> QED BY <1>5, <2>1, <2>2
<1> QED BY <1>1, <1>4, <1>5

\* The receiver query sends its second command when nothing is left of the first.
LEMMA DstsAsks ==
    ASSUME TypeOK, DstsLines, NEW c \in Clients, RecvDsts(c)
    PROVE  /\ cmds[c] = <<>> /\ ans[c] # <<>>
           /\ \/ /\ cmds'[c] = <<>>
                 /\ ans'[c] = <<>> \/ \E l \in Lines : ans[c] = <<OKLine, l>> /\ ans'[c] = <<l>>
              \/ ans'[c] = <<>> /\ \E t \in Tuples : cmds'[c] = <<Cmd("rdp list", t)>>
<1>1. PICK n \in DOMAIN ans[c] :
        /\ Recv(c, n)
        /\ \/ Continue(c, Rest(c, n), <<>>, TRUE) /\ UNCHANGED cmds
           \/ Finish(c, "crashed", Rest(c, n)) /\ UNCHANGED cmds
           \/ /\ ~Has(Chunk(c, n), "OK") /\ FirstTuple(Chunk(c, n)) # <<>>
              /\ cmds' = [cmds EXCEPT ![c] = Append(@, Cmd("rdp list", FirstTuple(Chunk(c, n))[1]))]
              /\ Continue(c, Rest(c, n), <<>>, FALSE)
           \/ Finish(c, "done", Rest(c, n)) /\ UNCHANGED cmds
  BY DEF RecvDsts
<1>2. c \in ByRole("dsts") /\ ans[c] # <<>> /\ cmds \in [Clients -> Seq(AllCmds)]
  <2>1. ans[c] # <<>>
    <3>1. n \in 1 .. Len(ans[c])
      BY RecvTypes
    <3> QED BY <3>1
  <2> QED BY <2>1, TypeParts DEF RecvDsts, ByRole
<1>3. cmds[c] = <<>>
  BY <1>2 DEF DstsLines
<1>4. PICK l \in Lines : ans[c] = <<l>> \/ ans[c] = <<OKLine, l>>
  BY <1>2 DEF DstsLines
<1>5. OKLine \in Lines /\ OKLine.tag = "OK"
  BY LineFacts
<1>6. Rest(c, n) = <<>> \/ (ans[c] = <<OKLine, l>> /\ Rest(c, n) = <<l>> /\ Has(Chunk(c, n), "OK"))
  <2>1. CASE ans[c] = <<l>>
    BY <2>1, OneLine
  <2>2. CASE ans[c] = <<OKLine, l>>
    BY <1>5, <2>2, TwoLines
  <2> QED BY <1>4, <2>1, <2>2
<1>7. CASE \E s : Finish(c, s, Rest(c, n)) /\ UNCHANGED cmds
  BY <1>2, <1>3, <1>7, CloseFacts DEF Finish
<1>8. CASE Continue(c, Rest(c, n), <<>>, TRUE) /\ UNCHANGED cmds
  <2>1. ans'[c] = Rest(c, n)
    BY <1>8, ContinueFacts
  <2> QED BY <1>2, <1>3, <1>6, <1>8, <2>1
<1>9. CASE /\ ~Has(Chunk(c, n), "OK") /\ FirstTuple(Chunk(c, n)) # <<>>
           /\ cmds' = [cmds EXCEPT ![c] = Append(@, Cmd("rdp list", FirstTuple(Chunk(c, n))[1]))]
           /\ Continue(c, Rest(c, n), <<>>, FALSE)
  <2>1. ans'[c] = <<>>
    BY <1>6, <1>9, ContinueFacts
  <2>2. PICK t \in Tuples : FirstTuple(Chunk(c, n)) = <<t>>
    BY <1>9, RecvTypes
  <2>3. cmds'[c] = Append(<<>>, Cmd("rdp list", <<t>>[1]))
    BY <1>2, <1>3, <1>9, <2>2
  <2>4. cmds'[c] = <<Cmd("rdp list", t)>>
    <3>1. Cmd("rdp list", t) \in AllCmds
      BY CmdFacts DEF Ops
    <3>2. Append(<<>>, Cmd("rdp list", t)) = <<Cmd("rdp list", t)>>
      BY <1>2, <3>1, SmallSeq
    <3> QED BY <2>3, <3>2
  <2> QED BY <1>2, <1>3, <2>1, <2>4
<1> QED BY <1>1, <1>7, <1>8, <1>9

\* Every step keeps CommandInv.
LEMMA CommandNext == ASSUME TypeOK, CommandInv, DstsLines, [Next]_vars PROVE CommandInv'
<1> DEFINE Fits(d, q, s) ==
             /\ Role[d] = "node" => q \in {<<>>, NodeCommands(d)}
             /\ Role[d] = "receiver" =>
                  \/ q \in {<<>>, ReceiverCommands(d)}
                  \/ d \in s /\ q \in {Todo1(d), Todo2(d), Todo3(d)}
             /\ Role[d] = "hops" => q \in {<<>>, <<Cmd("rdall", NodeTuple(d))>>}
             /\ Role[d] = "dsts" => \/ q \in {<<>>, <<Cmd("rdp device", DeviceTuple(d))>>}
                                    \/ \E t \in Tuples : q = <<Cmd("rdp list", t)>>
<1> SUFFICES ASSUME NEW d \in Clients PROVE Fits(d, cmds'[d], serving')
  BY DEF CommandInv
<1>1. Fits(d, cmds[d], serving)
  BY DEF CommandInv
<1>2. Fits(d, <<>>, serving')
  OBVIOUS
<1>3. cmds'[d] = cmds[d] /\ (d \in serving => d \in serving') => Fits(d, cmds'[d], serving')
  BY <1>1
<1>4. ASSUME NEW c \in Clients, Executes(c) PROVE Fits(d, cmds'[d], serving')
  <2>1. PICK ls : Println(c, ls)
    BY <1>4, ExecutesFacts
  <2>2. serving = {c} /\ serving' = serving /\ cmds[c] # <<>> /\ cmds'[c] = Tail(cmds[c])
    BY <1>4, <2>1, ExecutesFacts, PrintlnFacts
  <2>3. CASE d # c
    BY <1>3, <2>1, <2>2, <2>3, PrintlnFacts
  <2>4. CASE d = c
    <3>1. CASE Role[d] = "receiver"
      <4>1. cmds[d] \in {ReceiverCommands(d), Todo1(d), Todo2(d), Todo3(d)}
        BY <1>1, <2>2, <2>4, <3>1
      <4>2. cmds'[d] \in {<<>>, Todo1(d), Todo2(d), Todo3(d)}
        BY <2>2, <2>4, <4>1, TodoFacts
      <4> QED BY <2>2, <2>4, <3>1, <4>2
    <3>2. CASE Role[d] # "receiver"
      <4>1. \E x : cmds[d] = <<x>>
        BY <1>1, <2>2, <2>4, <3>2, Roles DEF NodeCommands
      <4>2. cmds'[d] = <<>>
        BY <2>2, <2>4, <4>1, ShortFacts
      <4> QED BY <1>2, <4>2
    <3> QED BY <3>1, <3>2
  <2> QED BY <2>3, <2>4
<1>5. ASSUME NEW c \in Clients, Client(c) PROVE Fits(d, cmds'[d], serving')
  <2>1. serving' = serving
    BY <1>5, ClientStore
  <2>2. CASE d # c
    BY <1>3, <1>5, <2>1, <2>2, ClientFacts
  <2>3. CASE d = c
    <3>1. CASE cmds'[d] = cmds[d]
      BY <1>3, <2>1, <3>1
    <3>2. CASE cmds'[d] = Commands(d)
      BY <3>2, Roles DEF Commands
    <3>3. CASE RecvDsts(c)
      <4>1. cmds'[c] = <<>> \/ \E t \in Tuples : cmds'[c] = <<Cmd("rdp list", t)>>
        BY <3>3, DstsAsks
      <4>2. Role[c] = "dsts"
        BY <3>3 DEF RecvDsts
      <4> QED BY <2>3, <4>1, <4>2
    <3>4. Connect(c) \/ RecvDsts(c) \/ UNCHANGED cmds
      BY <1>5 DEF Client, RecvConfirmation, RecvHops, RecvGone
    <3>5. Connect(c) => cmds'[c] = cmds[c] \/ cmds'[c] = Commands(c)
      <4>1. cmds \in [Clients -> Seq(AllCmds)]
        BY TypeParts
      <4> QED BY <4>1 DEF Connect
    <3> QED BY <2>3, <3>1, <3>2, <3>3, <3>4, <3>5
  <2> QED BY <2>2, <2>3
<1>6. ASSUME NEW c \in Clients, ReadThrows(c) PROVE Fits(d, cmds'[d], serving')
  <2>1. cmds'[d] = <<>> \/ cmds'[d] = cmds[d]
    BY <1>6, ReadThrowsFacts
  <2>2. serving = {c} /\ cmds[c] = <<>>
    BY <1>6, ReadThrowsFacts
  <2> QED BY <1>2, <1>3, <2>1, <2>2
<1>7. CASE Accept \/ (\E c \in Clients : EndOfStream(c)) \/ UNCHANGED vars
  <2>1. cmds' = cmds /\ \/ serving = {} \/ serving' = serving
                        \/ \E c \in Clients : serving = {c} /\ cmds[c] = <<>>
    BY <1>7, ServeFacts
  <2> QED BY <1>2, <1>3, <2>1
<1> QED BY <1>4, <1>5, <1>6, <1>7, NextCases

\* What is printed to a receiver query.
LEMMA DstsPrints ==
    ASSUME TypeOK, CommandInv, NEW c \in ByRole("dsts"), Executes(c)
    PROVE  \/ ExecuteFails(c) /\ Println(c, <<ErrorLine>>)
           \/ ExecuteRdp(c) /\ \E l \in Lines : Println(c, <<OKLine, l>>)
<1>1. c \in Clients /\ Role[c] = "dsts"
  BY DEF ByRole
<1>2. cmds[c] # <<>>
  BY <1>1, ExecutesFacts
<1>3. \E t : cmds[c] = <<Cmd("rdp device", t)>> \/ cmds[c] = <<Cmd("rdp list", t)>>
  BY <1>1, <1>2 DEF CommandInv
<1>4. Head(cmds[c]).op \in {"rdp device", "rdp list"}
  <2>1. \A t : /\ Head(<<Cmd("rdp device", t)>>) = Cmd("rdp device", t)
              /\ Head(<<Cmd("rdp list", t)>>) = Cmd("rdp list", t)
    BY ShortFacts
  <2>2. \A t : Cmd("rdp device", t).op = "rdp device" /\ Cmd("rdp list", t).op = "rdp list"
    BY CmdFacts
  <2> QED BY <1>3, <2>1, <2>2
<1>5. ExecuteRdp(c) \/ ExecuteFails(c)
  BY <1>4 DEF Executes, ExecuteOut, ExecuteInp, ExecuteRdall, Reads
<1>6. CASE ExecuteRdp(c)
  <2>1. \/ Println(c, <<OKLine, EmptyLine>>)
        \/ \E i \in DOMAIN space : Println(c, <<OKLine, TupleLine(space[i])>>)
    BY <1>6 DEF ExecuteRdp, Matches
  <2>2. EmptyLine \in Lines /\ \A i \in DOMAIN space : TupleLine(space[i]) \in Lines
    <3>1. space \in Seq(Tuples)
      BY TypeParts
    <3>2. \A i \in DOMAIN space : space[i] \in Tuples
      BY <3>1
    <3> QED BY <3>2, LineFacts
  <2> QED BY <1>6, <2>1, <2>2
<1>7. CASE ExecuteFails(c)
  BY <1>7 DEF ExecuteFails
<1> QED BY <1>5, <1>6, <1>7

\* Every step keeps DstsLines.
LEMMA LinesNext ==
    ASSUME TypeOK, ConnectionInv, CommandInv, DstsLines, [Next]_vars
    PROVE  DstsLines'
<1> SUFFICES ASSUME NEW d \in ByRole("dsts")
             PROVE  \/ ans'[d] = <<>>
                    \/ cmds'[d] = <<>> /\ \E l \in Lines : ans'[d] = <<l>> \/ ans'[d] = <<OKLine, l>>
  BY DEF DstsLines, ByRole
<1>1. d \in Clients /\ Role[d] = "dsts"
  BY DEF ByRole
<1>2. \/ ans[d] = <<>>
      \/ cmds[d] = <<>> /\ \E l \in Lines : ans[d] = <<l>> \/ ans[d] = <<OKLine, l>>
  BY DEF DstsLines
<1>3. CASE ans'[d] = ans[d] /\ (cmds'[d] = <<>> \/ cmds'[d] = cmds[d])
  BY <1>2, <1>3
<1>4. ASSUME NEW c \in Clients, Executes(c)
      PROVE  \/ ans'[d] = <<>>
             \/ cmds'[d] = <<>> /\ \E l \in Lines : ans'[d] = <<l>> \/ ans'[d] = <<OKLine, l>>
  <2>1. CASE d # c
    BY <1>1, <1>3, <1>4, <2>1, ExecutesFacts, PrintlnFacts
  <2>2. CASE d = c
    <3>1. cmds[d] # <<>> /\ ans[d] = <<>>
      BY <1>2, <1>4, <2>2, ExecutesFacts
    <3>2. PICK l \in Lines : Println(d, <<l>>) \/ Println(d, <<OKLine, l>>)
      BY <1>4, <2>2, DstsPrints, LineFacts
    <3>3. PICK x : cmds[d] = <<x>>
      BY <1>1, <3>1 DEF CommandInv
    <3>4. cmds'[d] = <<>>
      <4>1. cmds'[d] = Tail(cmds[d])
        BY <1>1, <3>2, PrintlnFacts
      <4>2. Tail(<<x>>) = <<>>
        BY ShortFacts
      <4> QED BY <3>3, <4>1, <4>2
    <3>5. OKLine \in Lines
      BY LineFacts
    <3>6. <<l>> \in Seq(Lines) /\ <<OKLine, l>> \in Seq(Lines)
      BY <3>5
    <3>7. <<>> \o <<l>> = <<l>> /\ <<>> \o <<OKLine, l>> = <<OKLine, l>>
      BY <3>5, <3>6, ConcatEmptySeq
    <3>8. ans'[d] = <<>> \/ ans'[d] = <<l>> \/ ans'[d] = <<OKLine, l>>
      BY <1>1, <3>1, <3>2, <3>7, PrintlnFacts
    <3> QED BY <3>4, <3>8
  <2> QED BY <2>1, <2>2
<1>5. ASSUME NEW c \in Clients, Client(c)
      PROVE  \/ ans'[d] = <<>>
             \/ cmds'[d] = <<>> /\ \E l \in Lines : ans'[d] = <<l>> \/ ans'[d] = <<OKLine, l>>
  <2>1. CASE d # c
    BY <1>1, <1>3, <1>5, <2>1, ClientFacts
  <2>2. CASE d = c /\ RecvDsts(c)
    BY <1>1, <2>2, DstsAsks
  <2>3. CASE d = c /\ Connect(c)
    <3>1. st[d] = "idle" /\ UNCHANGED ans
      BY <2>3 DEF Connect
    <3>2. ans[d] = <<>>
      BY <1>1, <3>1 DEF ConnectionInv
    <3> QED BY <3>1, <3>2
  <2>4. CASE d = c /\ RecvGone(c)
    BY <1>1, <2>4, CloseFacts DEF RecvGone
  <2>5. ~RecvConfirmation(d) /\ ~RecvHops(d)
    BY <1>1 DEF RecvConfirmation, RecvHops
  <2> QED BY <1>5, <2>1, <2>2, <2>3, <2>4, <2>5 DEF Client
<1>6. ASSUME NEW c \in Clients, ReadThrows(c)
      PROVE  \/ ans'[d] = <<>>
             \/ cmds'[d] = <<>> /\ \E l \in Lines : ans'[d] = <<l>> \/ ans'[d] = <<OKLine, l>>
  BY <1>1, <1>3, <1>6, ReadThrowsFacts
<1>7. CASE Accept \/ (\E c \in Clients : EndOfStream(c)) \/ UNCHANGED vars
  BY <1>3, <1>7, ServeFacts
<1> QED BY <1>4, <1>5, <1>6, <1>7, NextCases

-----------------------------------------------------------------------------
(* How often a tuple is in the space.                                      *)

\* The number of times t occurs in q.
Count(q, t) == Cardinality({j \in DOMAIN q : q[j] = t})

\* It is a number, and 0 if t is not there.
LEMMA CountTypes ==
    ASSUME NEW S, NEW q \in Seq(S), NEW t
    PROVE  /\ Count(q, t) \in Nat /\ IsFiniteSet({j \in 1 .. Len(q) : q[j] = t})
           /\ (\A j \in 1 .. Len(q) : q[j] # t) <=> Count(q, t) = 0
           /\ Count(q, t) = Cardinality({j \in 1 .. Len(q) : q[j] = t})
<1> DEFINE T == {j \in 1 .. Len(q) : q[j] = t}
<1>1. Len(q) \in Nat /\ DOMAIN q = 1 .. Len(q)
  OBVIOUS
<1>2. IsFiniteSet(1 .. Len(q))
  BY <1>1, FS_Interval
<1>3. IsFiniteSet(T)
  BY <1>2, FS_Subset
<1>4. Count(q, t) = Cardinality(T)
  BY <1>1 DEF Count
<1>5. Cardinality(T) \in Nat /\ (Cardinality(T) = 0 <=> T = {})
  <2> HIDE DEF T
  <2> QED BY <1>3, FS_CardinalityType, FS_EmptySet
<1>6. (\A j \in 1 .. Len(q) : q[j] # t) <=> T = {}
  OBVIOUS
<1> QED BY <1>3, <1>4, <1>5, <1>6

\* One tuple more.
LEMMA CountAppend ==
    ASSUME NEW S, NEW q \in Seq(S), NEW x \in S, NEW t
    PROVE  Count(Append(q, x), t) = IF x = t THEN Count(q, t) + 1 ELSE Count(q, t)
<1> DEFINE p == Append(q, x)
           T == {j \in 1 .. Len(q) : q[j] = t}
           U == {j \in 1 .. Len(p) : p[j] = t}
<1>1. /\ p \in Seq(S) /\ Len(p) = Len(q) + 1 /\ Len(q) \in Nat
      /\ \A j \in 1 .. Len(q) : p[j] = q[j]
      /\ p[Len(q) + 1] = x
  BY AppendProperties, LenProperties
<1> HIDE DEF p
<1>2. IsFiniteSet(T) /\ Count(q, t) = Cardinality(T) /\ Count(p, t) = Cardinality(U)
  BY <1>1, CountTypes
<1>3. Len(q) + 1 \notin T
  BY <1>1
<1>4. CASE x = t
  <2>1. U = T \cup {Len(q) + 1}
    BY <1>1, <1>4
  <2>2. Cardinality(T \cup {Len(q) + 1}) = Cardinality(T) + 1
    <3> HIDE DEF T
    <3> QED BY <1>2, <1>3, FS_AddElement
  <2> QED BY <1>2, <1>4, <2>1, <2>2 DEF p
<1>5. CASE x # t
  <2>1. U = T
    BY <1>1, <1>5
  <2> QED BY <1>2, <1>5, <2>1 DEF p
<1> QED BY <1>4, <1>5

\* One tuple less.
LEMMA CountRemove ==
    ASSUME NEW S, NEW q \in Seq(S), NEW a \in 1 .. Len(q), NEW t
    PROVE  /\ Count(RemoveAt(q, a), t) <= Count(q, t)
           /\ q[a] = t => Count(RemoveAt(q, a), t) + 1 <= Count(q, t)
<1> DEFINE p == RemoveAt(q, a)
           T == {j \in 1 .. Len(q) : q[j] = t}
           U == {j \in 1 .. Len(p) : p[j] = t}
           f == [j \in U |-> IF j < a THEN j ELSE j + 1]
<1>1. /\ p \in Seq(S) /\ Len(p) = Len(q) - 1 /\ Len(q) \in Nat
      /\ \A j \in 1 .. Len(q) - 1 : p[j] = IF j < a THEN q[j] ELSE q[j + 1]
  BY RemoveAtFacts, LenProperties
<1> HIDE DEF p
<1>2. /\ IsFiniteSet(T) /\ Count(q, t) = Cardinality(T) /\ Count(p, t) = Cardinality(U)
      /\ IsFiniteSet(U) /\ Cardinality(U) \in Nat /\ Cardinality(T) \in Nat
  <2>1. IsFiniteSet(T) /\ Count(q, t) = Cardinality(T) /\ Count(q, t) \in Nat
    BY CountTypes
  <2>2. IsFiniteSet(U) /\ Count(p, t) = Cardinality(U) /\ Count(p, t) \in Nat
    BY <1>1, CountTypes
  <2> QED BY <2>1, <2>2
<1>3. \A j \in U : f[j] \in T \ {a}
  BY <1>1
<1>4. \A j, k \in U : f[j] = f[k] => j = k
  BY <1>1
<1>5. f \in Injection(U, T \ {a})
  <2>1. f \in [U -> T \ {a}]
    BY <1>3
  <2> HIDE DEF f, U, T
  <2> QED BY <1>4, <2>1 DEF Injection, IsInjective
<1> HIDE DEF f, U, T
<1>6. IsFiniteSet(T \ {a}) /\ Cardinality(T \ {a}) = IF a \in T THEN Cardinality(T) - 1 ELSE Cardinality(T)
  BY <1>2, FS_RemoveElement
<1>7. Cardinality(U) <= Cardinality(T \ {a})
  BY <1>5, <1>6, FS_Injection
<1>8. q[a] = t => a \in T
  BY DEF T
<1> QED BY <1>2, <1>6, <1>7, <1>8 DEF p

\* Taking t out of the space, and adding it; the space may refuse.
Takes(t) ==
    \/ /\ exceptions' = exceptions
       /\ \/ (\A j \in 1 .. Len(space) : space[j] # t) /\ space' = space
          \/ \E j \in 1 .. Len(space) : space[j] = t /\ space' = RemoveAt(space, j)
    \/ exceptions' = exceptions + 1 /\ space' = space

Adds(t) ==
    \/ exceptions' = exceptions /\ space' = Append(space, t)
    \/ exceptions' = exceptions + 1 /\ space' = space

\* What a command does to the space.
LEMMA CommandEffect ==
    ASSUME TypeOK, NEW c \in Clients, Executes(c), NEW o, NEW t, Head(cmds[c]) = Cmd(o, t)
    PROVE  /\ o = "out" => Adds(t)
           /\ o = "inp" => Takes(t)
           /\ o \notin {"out", "inp"} =>
                space' = space /\ (exceptions' = exceptions \/ exceptions' = exceptions + 1)
           /\ cmds'[c] = Tail(cmds[c]) /\ serving = {c} /\ serving' = serving /\ st' = st
<1>1. Head(cmds[c]).op = o /\ Head(cmds[c]).tuple = t
  BY CmdFacts
<1>2. DOMAIN space = 1 .. Len(space)
  BY TypeParts
<1>3. CASE ExecuteFails(c)
  <2>1. exceptions' = exceptions + 1 /\ space' = space
    BY <1>3 DEF ExecuteFails
  <2> QED BY <2>1, ExecutesFacts, PrintlnFacts DEF Adds, Takes
<1>4. CASE ExecuteOut(c)
  <2>1. o = "out" /\ space' = Append(space, t) /\ exceptions' = exceptions
    BY <1>1, <1>4 DEF ExecuteOut, Reads
  <2> QED BY <2>1, ExecutesFacts, PrintlnFacts DEF Adds
<1>5. CASE ExecuteInp(c)
  <2>1. o = "inp" /\ exceptions' = exceptions
    BY <1>1, <1>5 DEF ExecuteInp, Reads
  <2>2. \/ (\A j \in DOMAIN space : space[j] # t) /\ space' = space
        \/ \E j \in DOMAIN space : space[j] = t /\ space' = RemoveAt(space, j)
    BY <1>1, <1>5 DEF ExecuteInp
  <2>3. Takes(t)
    BY <1>2, <2>1, <2>2 DEF Takes
  <2> QED BY <2>1, <2>3, ExecutesFacts, PrintlnFacts
<1>6. CASE ExecuteRdall(c) \/ ExecuteRdp(c)
  <2>1. o \in {"rdall", "rdp device", "rdp list"} /\ UNCHANGED <<space, exceptions>>
    BY <1>1, <1>6 DEF ExecuteRdall, ExecuteRdp, Reads
  <2> QED BY <2>1, ExecutesFacts, PrintlnFacts
<1> QED BY <1>3, <1>4, <1>5, <1>6 DEF Executes

\* A node's registration ...
LEMMA NodeStep ==
    ASSUME TypeOK, CommandInv, NEW c \in ByRole("node"), Executes(c)
    PROVE  cmds[c] # <<>> /\ cmds'[c] = <<>> /\ Adds(NodeTuple(c)) /\ st' = st
<1>1. c \in Clients /\ Role[c] = "node"
  BY DEF ByRole
<1>2. cmds[c] # <<>>
  BY <1>1, ExecutesFacts
<1>3. cmds[c] = <<Cmd("out", NodeTuple(c))>>
  BY <1>1, <1>2 DEF CommandInv, NodeCommands
<1>4. Head(cmds[c]) = Cmd("out", NodeTuple(c)) /\ Tail(cmds[c]) = <<>>
  BY <1>3, ShortFacts
<1> QED BY <1>1, <1>2, <1>4, CommandEffect

\* ... a receiver's, command by command ...
LEMMA ReceiverStep ==
    ASSUME TypeOK, CommandInv, NEW r \in ByRole("receiver"), Executes(r)
    PROVE  \/ cmds[r] = ReceiverCommands(r) /\ cmds'[r] = Todo3(r) /\ Takes(DeviceTuple(r))
           \/ cmds[r] = Todo3(r) /\ cmds'[r] = Todo2(r) /\ Takes(ListTuple(r))
           \/ cmds[r] = Todo2(r) /\ cmds'[r] = Todo1(r) /\ Adds(DeviceTuple(r))
           \/ cmds[r] = Todo1(r) /\ cmds'[r] = <<>> /\ Adds(ListTuple(r))
<1>1. r \in Clients /\ Role[r] = "receiver"
  BY DEF ByRole
<1>2. cmds[r] # <<>>
  BY <1>1, ExecutesFacts
<1>3. cmds[r] \in {ReceiverCommands(r), Todo1(r), Todo2(r), Todo3(r)}
  BY <1>1, <1>2 DEF CommandInv
<1>4. CASE cmds[r] = ReceiverCommands(r)
  <2>1. Head(cmds[r]) = Cmd("inp", DeviceTuple(r)) /\ Tail(cmds[r]) = Todo3(r)
    BY <1>4, TodoFacts
  <2>2. Takes(DeviceTuple(r)) /\ cmds'[r] = Tail(cmds[r])
    BY <1>1, <2>1, CommandEffect
  <2> QED BY <1>4, <2>1, <2>2
<1>5. CASE cmds[r] = Todo3(r)
  <2>1. Head(cmds[r]) = Cmd("inp", ListTuple(r)) /\ Tail(cmds[r]) = Todo2(r)
    BY <1>5, TodoFacts
  <2>2. Takes(ListTuple(r)) /\ cmds'[r] = Tail(cmds[r])
    BY <1>1, <2>1, CommandEffect
  <2> QED BY <1>5, <2>1, <2>2
<1>6. CASE cmds[r] = Todo2(r)
  <2>1. Head(cmds[r]) = Cmd("out", DeviceTuple(r)) /\ Tail(cmds[r]) = Todo1(r)
    BY <1>6, TodoFacts
  <2>2. Adds(DeviceTuple(r)) /\ cmds'[r] = Tail(cmds[r])
    BY <1>1, <2>1, CommandEffect
  <2> QED BY <1>6, <2>1, <2>2
<1>7. CASE cmds[r] = Todo1(r)
  <2>1. Head(cmds[r]) = Cmd("out", ListTuple(r)) /\ Tail(cmds[r]) = <<>>
    BY <1>7, TodoFacts
  <2>2. Adds(ListTuple(r)) /\ cmds'[r] = Tail(cmds[r])
    BY <1>1, <2>1, CommandEffect
  <2> QED BY <1>7, <2>1, <2>2
<1> QED BY <1>3, <1>4, <1>5, <1>6, <1>7

\* ... and a query, which writes nothing.
LEMMA QueryStep ==
    ASSUME TypeOK, CommandInv, NEW c \in Clients, Role[c] \in {"hops", "dsts"}, Executes(c)
    PROVE  space' = space /\ (exceptions' = exceptions \/ exceptions' = exceptions + 1)
<1>1. cmds[c] # <<>>
  BY ExecutesFacts
<1>2. \E t : \/ cmds[c] = <<Cmd("rdall", t)>> \/ cmds[c] = <<Cmd("rdp device", t)>>
             \/ cmds[c] = <<Cmd("rdp list", t)>>
  BY <1>1 DEF CommandInv
<1>3. PICK o \in {"rdall", "rdp device", "rdp list"} : \E t : cmds[c] = <<Cmd(o, t)>>
  BY <1>2
<1>4. PICK t : cmds[c] = <<Cmd(o, t)>>
  BY <1>3
<1>5. Head(cmds[c]) = Cmd(o, t)
  BY <1>4, ShortFacts
<1> QED BY <1>5, CommandEffect

\* What Takes and Adds do to the number of copies.
LEMMA EffectCount ==
    ASSUME TypeOK, NEW x \in Tuples, NEW t
    PROVE  /\ Copies(t) \in Nat /\ exceptions \in Nat
           /\ Takes(x) => /\ Copies(t)' <= Copies(t) /\ Copies(t)' \in Nat
                          /\ exceptions' \in {exceptions, exceptions + 1}
                          /\ Copies(x)' + 1 <= Copies(x) \/ exceptions' = exceptions + 1
                             \/ Copies(x)' = 0
           /\ Adds(x) => /\ x # t => Copies(t)' = Copies(t)
                         /\ Copies(t)' <= Copies(t) + 1 /\ Copies(t)' \in Nat
                         /\ exceptions' \in {exceptions, exceptions + 1}
<1>1. space \in Seq(Tuples) /\ exceptions \in Nat
  BY TypeParts, ClientsAssumption
<1>2. \A y : Copies(y) = Count(space, y) /\ Copies(y)' = Count(space', y)
  BY DEF Copies, Count
<1>3. \A y : Count(space, y) \in Nat
  BY <1>1, CountTypes
<1>4. ASSUME Takes(x)
      PROVE  /\ Copies(t)' <= Copies(t) /\ Copies(t)' \in Nat
             /\ exceptions' \in {exceptions, exceptions + 1}
             /\ Copies(x)' + 1 <= Copies(x) \/ exceptions' = exceptions + 1 \/ Copies(x)' = 0
  <2>1. CASE exceptions' = exceptions + 1 /\ space' = space
    BY <1>2, <1>3, <2>1
  <2>2. CASE exceptions' = exceptions /\ space' = space /\ \A j \in 1 .. Len(space) : space[j] # x
    <3>1. Count(space, x) = 0
      BY <1>1, <2>2, CountTypes
    <3> QED BY <1>2, <1>3, <2>2, <3>1
  <2>3. ASSUME exceptions' = exceptions,
               NEW j \in 1 .. Len(space), space[j] = x, space' = RemoveAt(space, j)
        PROVE  /\ Copies(t)' <= Copies(t) /\ Copies(t)' \in Nat
               /\ exceptions' \in {exceptions, exceptions + 1}
               /\ Copies(x)' + 1 <= Copies(x)
    <3>1. Count(space', t) <= Count(space, t) /\ Count(space', x) + 1 <= Count(space, x)
      BY <1>1, <2>3, CountRemove
    <3>2. space' \in Seq(Tuples)
      BY <1>1, <2>3, RemoveAtFacts
    <3>3. Count(space', t) \in Nat
      BY <3>2, CountTypes
    <3> QED BY <1>2, <2>3, <3>1, <3>3
  <2> QED BY <1>4, <2>1, <2>2, <2>3 DEF Takes
<1>5. ASSUME Adds(x)
      PROVE  /\ x # t => Copies(t)' = Copies(t)
             /\ Copies(t)' <= Copies(t) + 1 /\ Copies(t)' \in Nat
             /\ exceptions' \in {exceptions, exceptions + 1}
  <2>1. CASE exceptions' = exceptions + 1 /\ space' = space
    BY <1>2, <1>3, <2>1
  <2>2. CASE exceptions' = exceptions /\ space' = Append(space, x)
    <3>1. Count(space', t) = IF x = t THEN Count(space, t) + 1 ELSE Count(space, t)
      BY <1>1, <2>2, CountAppend
    <3> QED BY <1>2, <1>3, <2>2, <3>1
  <2> QED BY <1>5, <2>1, <2>2 DEF Adds
<1> QED BY <1>1, <1>2, <1>3, <1>4, <1>5

\* The space changes only by the commands of registrations.
LEMMA SpaceCases ==
    ASSUME TypeOK, CommandInv, [Next]_vars
    PROVE  \/ \E c \in ByRole("node") : Executes(c)
           \/ \E r \in ByRole("receiver") : Executes(r)
           \/ /\ space' = space /\ exceptions' \in {exceptions, exceptions + 1}
              /\ \A c \in ByRole("node") \cup ByRole("receiver") : ~Executes(c)
<1>1. ASSUME NEW c \in Clients, Role[c] \in {"hops", "dsts"}, Executes(c)
      PROVE  /\ space' = space /\ exceptions' \in {exceptions, exceptions + 1}
             /\ \A d \in ByRole("node") \cup ByRole("receiver") : ~Executes(d)
  <2>1. serving = {c} /\ \A d \in Clients : Executes(d) => serving = {d}
    BY <1>1, ExecutesFacts
  <2>2. \A d \in ByRole("node") \cup ByRole("receiver") : d \in Clients /\ d # c
    BY <1>1 DEF ByRole
  <2> QED BY <1>1, <2>1, <2>2, QueryStep
<1>2. CASE \E c \in Clients : Executes(c)
  BY <1>1, <1>2, Roles DEF ByRole
<1>3. CASE ~\E c \in Clients : Executes(c)
  <2>1. \A c \in ByRole("node") \cup ByRole("receiver") : ~Executes(c)
    BY <1>3 DEF ByRole
  <2>2. UNCHANGED <<space, exceptions>>
    BY <1>3, NextCases, ClientStore, ServeFacts, ReadThrowsFacts
  <2> QED BY <2>1, <2>2
<1> QED BY <1>2, <1>3

\* The space is empty at first.
LEMMA SpaceInit == Init => SpaceInv /\ CopiesInv /\ WholeInv
<1> SUFFICES ASSUME Init PROVE SpaceInv /\ CopiesInv /\ WholeInv
  OBVIOUS
<1>1. space = <<>> /\ exceptions = 0 /\ DOMAIN space = {} /\ ToSet(space) = {}
  BY DEF Init, ToSet
<1>2. SpaceInv /\ WholeInv
  BY <1>1 DEF SpaceInv, WholeInv
<1>3. \A t : Copies(t) = 0
  BY <1>1, FS_EmptySet DEF Copies
<1>4. ASSUME NEW t PROVE Cardinality(Writers(t)) >= 0
  <2>1. IsFiniteSet(Writers(t))
    BY ClientsAssumption, FS_Subset DEF Writers, ByRole
  <2>2. Cardinality(Writers(t)) \in Nat
    BY <2>1, FS_CardinalityType
  <2> QED BY <2>2
<1>5. NodeCopies /\ OtherCopies /\ OwnCopies
  BY <1>1, <1>3, <1>4 DEF NodeCopies, OtherCopies, OwnCopies
<1> QED BY <1>2, <1>5 DEF CopiesInv

\* Only registrations write.
LEMMA SpaceNext == ASSUME TypeOK, CommandInv, SpaceInv, [Next]_vars PROVE SpaceInv'
<1>1. space \in Seq(Registered)
  BY DEF SpaceInv
<1>2. ASSUME NEW x \in Registered, Adds(x) \/ Takes(x) PROVE space' \in Seq(Registered)
  <2>1. Append(space, x) \in Seq(Registered)
    BY <1>1, AppendProperties
  <2>2. \A j \in 1 .. Len(space) : RemoveAt(space, j) \in Seq(Registered)
    BY <1>1, RemoveAtFacts
  <2> QED BY <1>1, <1>2, <2>1, <2>2 DEF Adds, Takes
<1>3. /\ \A c \in ByRole("node") : NodeTuple(c) \in Registered
      /\ \A c \in ByRole("receiver") : DeviceTuple(c) \in Registered /\ ListTuple(c) \in Registered
  BY DEF Registered
<1>4. ASSUME NEW c \in ByRole("node"), Executes(c) PROVE space' \in Seq(Registered)
  BY <1>2, <1>3, <1>4, NodeStep
<1>5. ASSUME NEW r \in ByRole("receiver"), Executes(r) PROVE space' \in Seq(Registered)
  BY <1>2, <1>3, <1>5, ReceiverStep
<1>6. space' \in Seq(Registered)
  BY <1>1, <1>4, <1>5, SpaceCases
<1> QED BY <1>6 DEF SpaceInv, Registered

\* A node that has written has written.
LEMMA WritersGrow ==
    ASSUME TypeOK, CommandInv, [Next]_vars, NEW t
    PROVE  /\ Writers(t) \subseteq Writers(t)'
           /\ IsFiniteSet(Writers(t)) /\ IsFiniteSet(Writers(t)')
           /\ Cardinality(Writers(t)) \in Nat /\ Cardinality(Writers(t)') \in Nat
           /\ Cardinality(Writers(t)) <= Cardinality(Writers(t)')
<1>1. ASSUME NEW d \in Clients, Role[d] = "node", st[d] # "idle", cmds[d] = <<>>
      PROVE  st'[d] # "idle" /\ cmds'[d] = <<>>
  <2>1. ASSUME NEW c \in Clients, Executes(c) PROVE st'[d] # "idle" /\ cmds'[d] = <<>>
    <3>1. c # d
      BY <1>1, <2>1, ExecutesFacts
    <3> QED BY <1>1, <2>1, <3>1, ExecutesFacts, PrintlnFacts
  <2>2. ASSUME NEW c \in Clients, Client(c) PROVE st'[d] # "idle" /\ cmds'[d] = <<>>
    <3>1. CASE c # d
      BY <1>1, <2>2, <3>1, ClientFacts
    <3>2. CASE c = d
      BY <1>1, <2>2, <3>2, OwnFacts
    <3> QED BY <3>1, <3>2
  <2>3. ASSUME NEW c \in Clients, ReadThrows(c) PROVE st'[d] # "idle" /\ cmds'[d] = <<>>
    BY <1>1, <2>3, ReadThrowsFacts
  <2>4. CASE Accept \/ (\E c \in Clients : EndOfStream(c)) \/ UNCHANGED vars
    BY <1>1, <2>4, ServeFacts
  <2> QED BY <2>1, <2>2, <2>3, <2>4, NextCases
<1>2. Writers(t) \subseteq Writers(t)'
  BY <1>1 DEF Writers, ByRole
<1>3. IsFiniteSet(Clients) /\ Writers(t) \in SUBSET Clients /\ Writers(t)' \in SUBSET Clients
  BY ClientsAssumption DEF Writers, ByRole
<1>4. IsFiniteSet(Writers(t)) /\ IsFiniteSet(Writers(t)')
  BY <1>3, FS_Subset
<1>5. Cardinality(Writers(t)) \in Nat /\ Cardinality(Writers(t)') \in Nat
  BY <1>4, FS_CardinalityType
<1>6. Cardinality(Writers(t)) <= Cardinality(Writers(t)')
  BY <1>2, <1>4, FS_Subset
<1> QED BY <1>2, <1>4, <1>5, <1>6

\* A step that is no registration's leaves the copies as they are.
LEMMA SameCopies ==
    ASSUME space' = space, NEW t
    PROVE  Copies(t)' = Copies(t)
BY DEF Copies

\* A node is stored once more when it has written once more.
LEMMA NodeCopiesNext ==
    ASSUME TypeOK, ConnectionInv, CommandInv, NodeCopies, [Next]_vars
    PROVE  NodeCopies'
<1> SUFFICES ASSUME NEW t \in Tuples, t.kind = "node"
             PROVE  Copies(t)' <= Cardinality(Writers(t)')
  BY DEF NodeCopies, Tuples, NodeTuple, DeviceTuple, ListTuple
<1>1. /\ Copies(t) <= Cardinality(Writers(t)) /\ Copies(t) \in Nat
      /\ Cardinality(Writers(t)) \in Nat /\ Cardinality(Writers(t)') \in Nat
      /\ Cardinality(Writers(t)) <= Cardinality(Writers(t)')
  BY EffectCount, WritersGrow DEF NodeCopies
<1>2. CASE Copies(t)' \in Nat /\ Copies(t)' <= Copies(t)
  BY <1>1, <1>2
<1>3. ASSUME NEW c \in ByRole("node"), Executes(c) PROVE Copies(t)' <= Cardinality(Writers(t)')
  <2>1. c \in Clients /\ NodeTuple(c) \in Tuples
    BY TupleFacts DEF ByRole
  <2>2. cmds[c] # <<>> /\ cmds'[c] = <<>> /\ Adds(NodeTuple(c))
    BY <1>3, NodeStep
  <2>3. CASE NodeTuple(c) # t
    BY <1>1, <2>1, <2>2, <2>3, EffectCount
  <2>4. CASE NodeTuple(c) = t
    <3>1. Copies(t)' <= Copies(t) + 1 /\ Copies(t)' \in Nat
      BY <2>1, <2>2, <2>4, EffectCount
    <3>2. c \notin Writers(t)
      BY <2>2 DEF Writers
    <3>3. st[c] # "idle"
      BY <2>1, <2>2 DEF ConnectionInv
    <3> QED
      <4>1. c \in Writers(t)'
        BY <1>3, <2>2, <2>4, <3>3, NodeStep DEF Writers, ByRole, NodeTuple
      <4>2. Writers(t) \cup {c} \in SUBSET Writers(t)'
        BY <4>1, WritersGrow
      <4>3. Cardinality(Writers(t) \cup {c}) = Cardinality(Writers(t)) + 1
        BY <3>2, WritersGrow, FS_AddElement
      <4>4. Cardinality(Writers(t) \cup {c}) <= Cardinality(Writers(t)')
        BY <4>2, WritersGrow, FS_Subset
      <4> QED BY <1>1, <3>1, <4>3, <4>4
  <2> QED BY <2>3, <2>4
<1>4. ASSUME NEW r \in ByRole("receiver"), Executes(r) PROVE Copies(t)' <= Cardinality(Writers(t)')
  <2>1. /\ r \in Clients /\ DeviceTuple(r) \in Tuples /\ DeviceTuple(r) # t
        /\ ListTuple(r) \in Tuples /\ ListTuple(r) # t
    BY TupleFacts DEF ByRole
  <2>2. Copies(t)' \in Nat /\ Copies(t)' <= Copies(t)
    BY <1>1, <1>4, <2>1, ReceiverStep, EffectCount
  <2> QED BY <1>2, <2>2
<1>5. CASE space' = space
  BY <1>1, <1>2, <1>5, SameCopies
<1> QED BY <1>3, <1>4, <1>5, SpaceCases

\* A receiver's tuple is stored once more only after one copy was taken out.
LEMMA OtherCopiesNext ==
    ASSUME TypeOK, CommandInv, OtherCopies, OwnCopies, [Next]_vars
    PROVE  OtherCopies'
<1> SUFFICES ASSUME NEW t \in Tuples, t.kind # "node" PROVE Copies(t)' <= 1 + exceptions'
  BY DEF OtherCopies, Tuples, NodeTuple, DeviceTuple, ListTuple
<1>1. Copies(t) <= 1 + exceptions /\ Copies(t) \in Nat /\ exceptions \in Nat
  BY EffectCount DEF OtherCopies
<1>2. ASSUME Copies(t)' \in Nat, Copies(t)' <= Copies(t), exceptions' \in {exceptions, exceptions + 1}
      PROVE  Copies(t)' <= 1 + exceptions'
  BY <1>1, <1>2
<1>3. ASSUME NEW c \in ByRole("node"), Executes(c) PROVE Copies(t)' <= 1 + exceptions'
  <2>1. NodeTuple(c) \in Tuples /\ NodeTuple(c) # t
    BY TupleFacts DEF ByRole
  <2>2. Adds(NodeTuple(c))
    BY <1>3, NodeStep
  <2>3. Copies(t)' = Copies(t) /\ exceptions' \in {exceptions, exceptions + 1}
    BY <2>1, <2>2, EffectCount
  <2> QED BY <1>1, <1>2, <2>3
<1>4. ASSUME NEW r \in ByRole("receiver"), Executes(r) PROVE Copies(t)' <= 1 + exceptions'
  <2>1. r \in Clients /\ DeviceTuple(r) \in Tuples /\ ListTuple(r) \in Tuples
    BY TupleFacts DEF ByRole
  <2>2. ASSUME NEW x \in Tuples, Adds(x), Copies(x) <= exceptions PROVE Copies(t)' <= 1 + exceptions'
    <3>1. CASE x # t
      <4>1. Copies(t)' = Copies(t) /\ exceptions' \in {exceptions, exceptions + 1}
        BY <2>2, <3>1, EffectCount
      <4> QED BY <1>1, <1>2, <4>1
    <3>2. CASE x = t
      <4>1. /\ Copies(t)' <= Copies(t) + 1 /\ Copies(t)' \in Nat
            /\ exceptions' \in {exceptions, exceptions + 1}
        BY <2>2, EffectCount
      <4> QED BY <1>1, <2>2, <3>2, <4>1
    <3> QED BY <3>1, <3>2
  <2>3. ASSUME NEW x \in Tuples, Takes(x) PROVE Copies(t)' <= 1 + exceptions'
    BY <1>2, <2>3, EffectCount
  <2>4. cmds[r] = Todo2(r) => Copies(DeviceTuple(r)) <= exceptions
    BY DEF OwnCopies
  <2>5. cmds[r] = Todo1(r) => Copies(ListTuple(r)) <= exceptions
    BY DEF OwnCopies
  <2> QED BY <1>4, <2>1, <2>2, <2>3, <2>4, <2>5, ReceiverStep
<1>5. CASE space' = space /\ exceptions' \in {exceptions, exceptions + 1}
  BY <1>1, <1>2, <1>5, SameCopies
<1> QED BY <1>3, <1>4, <1>5, SpaceCases

\* After a receiver has taken a tuple out, only refusals have left copies.
LEMMA OwnCopiesNext ==
    ASSUME TypeOK, CommandInv, OtherCopies, OwnCopies, [Next]_vars
    PROVE  OwnCopies'
<1> SUFFICES ASSUME NEW r \in ByRole("receiver")
             PROVE  /\ cmds'[r] \in {Todo3(r), Todo2(r)} => Copies(DeviceTuple(r))' <= exceptions'
                    /\ cmds'[r] \in {Todo2(r), Todo1(r)} => Copies(ListTuple(r))' <= exceptions'
  BY DEF OwnCopies, ByRole, Todo1, Todo2, Todo3, DeviceTuple, ListTuple, Cmd
<1>1. /\ r \in Clients /\ Role[r] = "receiver" /\ DeviceTuple(r) \in Tuples /\ ListTuple(r) \in Tuples
      /\ DeviceTuple(r).kind # "node" /\ ListTuple(r).kind # "node" /\ ListTuple(r) # DeviceTuple(r)
  BY TupleFacts DEF ByRole
<1> DEFINE D == DeviceTuple(r)
           L == ListTuple(r)
<1>2. /\ cmds[r] \in {Todo3(r), Todo2(r)} => Copies(D) <= exceptions
      /\ cmds[r] \in {Todo2(r), Todo1(r)} => Copies(L) <= exceptions
      /\ Copies(D) <= 1 + exceptions /\ Copies(L) <= 1 + exceptions
  BY <1>1 DEF OwnCopies, OtherCopies
<1>3. Copies(D) \in Nat /\ Copies(L) \in Nat /\ exceptions \in Nat
  BY <1>1, EffectCount
<1> HIDE DEF D, L
<1>4. CASE Executes(r)
  <2>1. ASSUME NEW x \in Tuples, NEW y, Takes(x)
        PROVE  /\ Copies(y)' <= Copies(y) /\ Copies(y)' \in Nat /\ Copies(x)' \in Nat
               /\ exceptions' \in {exceptions, exceptions + 1}
               /\ Copies(x)' <= Copies(x)
               /\ Copies(x)' + 1 <= Copies(x) \/ exceptions' = exceptions + 1 \/ Copies(x)' = 0
    BY <2>1, EffectCount
  <2>2. CASE cmds[r] = ReceiverCommands(r) /\ cmds'[r] = Todo3(r) /\ Takes(D)
    <3>1. Copies(D)' <= exceptions'
      BY <1>1, <1>2, <1>3, <2>1, <2>2 DEF D
    <3>2. cmds'[r] \notin {Todo2(r), Todo1(r)}
      BY <2>2, TodoFacts
    <3> QED BY <3>1, <3>2 DEF D
  <2>3. CASE cmds[r] = Todo3(r) /\ cmds'[r] = Todo2(r) /\ Takes(L)
    <3>1. Copies(L)' <= exceptions'
      BY <1>1, <1>2, <1>3, <2>1, <2>3 DEF L
    <3>2. Copies(D)' <= Copies(D) /\ Copies(D)' \in Nat /\ exceptions' \in {exceptions, exceptions + 1}
      BY <1>1, <2>1, <2>3 DEF L
    <3>3. Copies(D)' <= exceptions'
      BY <1>2, <1>3, <2>3, <3>2
    <3> QED BY <3>1, <3>3 DEF D, L
  <2>4. CASE cmds[r] = Todo2(r) /\ cmds'[r] = Todo1(r) /\ Adds(D)
    <3>1. cmds'[r] \notin {Todo3(r), Todo2(r)}
      BY <2>4, TodoFacts
    <3>2. Copies(L)' = Copies(L) /\ exceptions' \in {exceptions, exceptions + 1}
      BY <1>1, <2>4, EffectCount DEF D, L
    <3>3. Copies(L)' <= exceptions'
      BY <1>2, <1>3, <2>4, <3>2
    <3> QED BY <3>1, <3>3 DEF L
  <2>5. CASE cmds'[r] = <<>>
    BY <2>5, TodoFacts
  <2> QED BY <1>4, <2>2, <2>3, <2>4, <2>5, ReceiverStep DEF D, L
<1>5. CASE ~Executes(r)
  <2> SUFFICES ASSUME cmds'[r] \in {Todo1(r), Todo2(r), Todo3(r)}
               PROVE  /\ cmds'[r] = cmds[r] /\ space' = space
                      /\ exceptions' \in {exceptions, exceptions + 1}
    <3>1. space' = space => Copies(D)' = Copies(D) /\ Copies(L)' = Copies(L)
      BY SameCopies
    <3> QED BY <1>2, <1>3, <3>1 DEF D, L
  <2>1. cmds'[r] # <<>> /\ cmds'[r] # ReceiverCommands(r)
    BY TodoFacts
  <2>2. cmds'[r] = cmds[r]
    <3>1. ASSUME NEW c \in Clients, Executes(c) PROVE cmds'[r] = cmds[r]
      BY <1>1, <1>5, <3>1, ExecutesFacts, PrintlnFacts
    <3>2. ASSUME NEW c \in Clients, Client(c) PROVE cmds'[r] = cmds[r]
      <4>1. Commands(r) = ReceiverCommands(r)
        BY <1>1 DEF Commands
      <4>2. CASE c = r
        BY <1>1, <2>1, <3>2, <4>1, <4>2, OwnFacts
      <4>3. CASE c # r
        BY <1>1, <3>2, <4>3, ClientFacts
      <4> QED BY <4>2, <4>3
    <3>3. ASSUME NEW c \in Clients, ReadThrows(c) PROVE cmds'[r] = cmds[r]
      BY <1>1, <2>1, <3>3, ReadThrowsFacts
    <3>4. CASE Accept \/ (\E c \in Clients : EndOfStream(c)) \/ UNCHANGED vars
      BY <3>4, ServeFacts
    <3> QED BY <3>1, <3>2, <3>3, <3>4, NextCases
  <2>3. r \in serving
    BY <1>1, <2>1, <2>2 DEF CommandInv
  <2>4. \A c \in Clients : ~Executes(c)
    BY <1>5, <2>3, ExecutesFacts
  <2>5. \A c \in ByRole("node") \cup ByRole("receiver") : ~Executes(c)
    BY <2>4 DEF ByRole
  <2> QED BY <2>2, <2>5, SpaceCases
<1> QED BY <1>4, <1>5

-----------------------------------------------------------------------------
(* The device's list.                                                      *)

\* A client with a command left is served until the command is executed.
LEMMA ServedStays ==
    ASSUME TypeOK, ConnectionInv, [Next]_vars, NEW r \in Clients, Role[r] # "dsts",
           r \in serving, cmds[r] # <<>>, ~Executes(r)
    PROVE  r \in serving' /\ cmds'[r] = cmds[r]
<1>1. \A c \in Clients : ~Executes(c)
  BY ExecutesFacts
<1>2. ASSUME NEW c \in Clients, Client(c) PROVE r \in serving' /\ cmds'[r] = cmds[r]
  <2>1. serving' = serving
    BY <1>2, ClientStore
  <2>2. CASE c = r
    <3>1. st[r] # "idle"
      BY DEF ConnectionInv
    <3> QED BY <1>2, <2>1, <2>2, <3>1, OwnFacts
  <2>3. CASE c # r
    BY <1>2, <2>1, <2>3, ClientFacts
  <2> QED BY <2>2, <2>3
<1>3. ASSUME NEW c \in Clients, ReadThrows(c) PROVE FALSE
  BY <1>3, ReadThrowsFacts
<1>4. CASE Accept \/ (\E c \in Clients : EndOfStream(c)) \/ UNCHANGED vars
  <2>1. /\ UNCHANGED cmds
        /\ \/ serving = {} \/ UNCHANGED serving
           \/ \E c \in Clients : serving = {c} /\ cmds[c] = <<>>
    BY <1>4, ServeFacts
  <2> QED BY <2>1
<1> QED BY <1>1, <1>2, <1>3, <1>4, NextCases

\* What Takes and Adds do to the set of tuples when nothing is refused.
LEMMA EffectSet ==
    ASSUME TypeOK, NEW x \in Tuples, exceptions' = exceptions
    PROVE  /\ Takes(x) => /\ ToSet(space') \subseteq ToSet(space)
                          /\ ToSet(space) \subseteq ToSet(space') \cup {x}
           /\ Adds(x) => ToSet(space') = ToSet(space) \cup {x}
<1>1. space \in Seq(Tuples) /\ exceptions \in Nat
  BY TypeParts, ClientsAssumption
<1>2. \A S : \A q \in Seq(S) : ToSet(q) = {q[j] : j \in 1 .. Len(q)}
  BY DEF ToSet
<1>3. ToSet(space) = {space[j] : j \in 1 .. Len(space)} /\ Len(space) \in Nat
  BY <1>1, <1>2
<1>4. exceptions' # exceptions + 1
  BY <1>1
<1>5. ASSUME Adds(x) PROVE ToSet(space') = ToSet(space) \cup {x}
  <2>1. space' = Append(space, x)
    BY <1>4, <1>5 DEF Adds
  <2>2. /\ space' \in Seq(Tuples) /\ Len(space') = Len(space) + 1 /\ space'[Len(space) + 1] = x
        /\ \A j \in 1 .. Len(space) : space'[j] = space[j]
    BY <1>1, <2>1, AppendProperties
  <2>3. ToSet(space') = {space'[j] : j \in 1 .. Len(space')}
    BY <1>2, <2>2
  <2>4. ASSUME NEW j \in 1 .. Len(space') PROVE space'[j] \in ToSet(space) \cup {x}
    <3>1. j \in 1 .. Len(space) \/ j = Len(space) + 1
      BY <1>3, <2>2
    <3> QED BY <1>3, <2>2, <3>1
  <2>5. ASSUME NEW j \in 1 .. Len(space) PROVE space[j] \in ToSet(space')
    <3>1. j \in 1 .. Len(space')
      BY <1>3, <2>2
    <3> QED BY <2>2, <2>3, <3>1
  <2>6. x \in ToSet(space')
    <3>1. Len(space) + 1 \in 1 .. Len(space')
      BY <1>3, <2>2
    <3> QED BY <2>2, <2>3, <3>1
  <2> QED BY <1>3, <2>3, <2>4, <2>5, <2>6
<1>6. ASSUME Takes(x)
      PROVE  /\ ToSet(space') \subseteq ToSet(space)
             /\ ToSet(space) \subseteq ToSet(space') \cup {x}
  <2>1. CASE space' = space
    BY <2>1
  <2>2. ASSUME NEW a \in 1 .. Len(space), space[a] = x, space' = RemoveAt(space, a)
        PROVE  /\ ToSet(space') \subseteq ToSet(space)
               /\ ToSet(space) \subseteq ToSet(space') \cup {x}
    <3>1. /\ space' \in Seq(Tuples) /\ Len(space') = Len(space) - 1
          /\ \A j \in 1 .. Len(space) - 1 : space'[j] = IF j < a THEN space[j] ELSE space[j + 1]
      BY <1>1, <2>2, RemoveAtFacts
    <3>2. ToSet(space') = {space'[j] : j \in 1 .. Len(space')}
      BY <1>2, <3>1
    <3>3. ASSUME NEW j \in 1 .. Len(space') PROVE space'[j] \in ToSet(space)
      <4>1. j \in 1 .. Len(space) - 1 /\ j \in 1 .. Len(space) /\ j + 1 \in 1 .. Len(space)
        BY <1>3, <3>1
      <4> QED BY <1>3, <3>1, <4>1
    <3>4. ASSUME NEW j \in 1 .. Len(space) PROVE space[j] \in ToSet(space') \cup {x}
      <4>1. CASE j < a
        <5>1. j \in 1 .. Len(space')
          BY <1>3, <3>1, <4>1
        <5> QED BY <3>1, <3>2, <4>1, <5>1
      <4>2. CASE j = a
        BY <2>2, <4>2
      <4>3. CASE j > a
        <5>1. j - 1 \in 1 .. Len(space') /\ ~(j - 1 < a) /\ (j - 1) + 1 = j
          BY <1>3, <3>1, <4>3
        <5>2. space'[j - 1] = space[j]
          BY <3>1, <5>1
        <5> QED BY <3>2, <5>1, <5>2
      <4> QED BY <4>1, <4>2, <4>3
    <3> QED BY <1>3, <3>2, <3>3, <3>4
  <2> QED BY <1>4, <1>6, <2>1, <2>2 DEF Takes
<1> QED BY <1>5, <1>6

\* Whoever is in the space is counted.
LEMMA InSpace ==
    ASSUME TypeOK, NEW t, Copies(t) <= 0
    PROVE  t \notin ToSet(space)
<1>1. space \in Seq(Tuples)
  BY TypeParts
<1>2. Copies(t) = Count(space, t) /\ Count(space, t) \in Nat
  BY <1>1, CountTypes DEF Copies, Count
<1>3. \A j \in 1 .. Len(space) : space[j] # t
  <2>1. Count(space, t) = 0
    BY <1>2
  <2> QED BY <1>1, <2>1, CountTypes
<1>4. ToSet(space) = {space[j] : j \in 1 .. Len(space)}
  BY <1>1 DEF ToSet
<1> QED BY <1>3, <1>4

\* A device is its address and its number of interfaces.
LEMMA SameDevice ==
    ASSUME NEW t \in Tuples, t.kind = "device", NEW r \in Clients,
           t.addr = Addr[r], t.num = Num[r]
    PROVE  t = DeviceTuple(r)
<1>1. PICK c \in Clients : t = NodeTuple(c) \/ t = DeviceTuple(c) \/ t = ListTuple(c)
  BY DEF Tuples
<1>2. t = DeviceTuple(c)
  BY <1>1, TupleFacts
<1>3. Addr[c] = Addr[r] /\ Num[c] = Num[r]
  BY <1>2, TupleFacts
<1> QED BY <1>2, <1>3, Zenon DEF DeviceTuple

\* Every step keeps a device's list in the space or next in line.
LEMMA WholeNext ==
    ASSUME TypeOK, ConnectionInv, CommandInv, OwnCopies, WholeInv, [Next]_vars
    PROVE  WholeInv'
<1>1. /\ exceptions \in Nat /\ exceptions' \in {exceptions, exceptions + 1}
      /\ space \in Seq(Tuples)
  <2>1. exceptions \in Nat /\ space \in Seq(Tuples)
    BY TypeParts, ClientsAssumption
  <2>2. \A c \in ByRole("node") : NodeTuple(c) \in Tuples
    BY TupleFacts DEF ByRole
  <2>3. \A c \in ByRole("receiver") : DeviceTuple(c) \in Tuples /\ ListTuple(c) \in Tuples
    BY TupleFacts DEF ByRole
  <2>4. \A x : Takes(x) \/ Adds(x) => exceptions' \in {exceptions, exceptions + 1}
    BY DEF Takes, Adds
  <2> QED BY <2>1, <2>4, SpaceCases, NodeStep, ReceiverStep
<1> SUFFICES ASSUME exceptions' = 0, NEW t \in ToSet(space'), t.kind = "device" PROVE Listed(t)'
  BY DEF WholeInv
<1>2. exceptions = 0 /\ exceptions' = exceptions
  BY <1>1
<1>3. ToSet(space) \subseteq Tuples
  BY <1>1 DEF ToSet
<1> DEFINE Has1(s, l) == l \in s /\ l.kind = "list" /\ l.addr = t.addr /\ l.num = t.num
           Next1(s, q, r) == r \in ByRole("receiver") /\ r \in s /\ q = Todo1(r) /\ t = DeviceTuple(r)
<1>4. t \in ToSet(space) => \/ \E l : Has1(ToSet(space), l)
                            \/ \E r : Next1(serving, cmds[r], r)
  BY <1>2 DEF WholeInv, Listed
<1>5. (\E l : Has1(ToSet(space'), l)) \/ (\E r : Next1(serving', cmds'[r], r)) => Listed(t)'
  <2>1. ASSUME NEW l, Has1(ToSet(space'), l) PROVE Listed(t)'
    BY <2>1 DEF Listed
  <2>2. ASSUME NEW r, Next1(serving', cmds'[r], r) PROVE Listed(t)'
    <3>1. Todo1(r)' = Todo1(r) /\ DeviceTuple(r)' = DeviceTuple(r)
      BY DEF Todo1, Cmd, ListTuple, DeviceTuple
    <3> QED BY <2>2, <3>1 DEF Listed, ByRole
  <2> QED BY <2>1, <2>2
<1> HIDE DEF Has1, Next1
<1>6. ASSUME NEW c \in ByRole("node"), Executes(c) PROVE Listed(t)'
  <2>1. c \in Clients /\ Role[c] = "node" /\ NodeTuple(c) \in Tuples /\ NodeTuple(c).kind = "node"
    BY TupleFacts DEF ByRole
  <2>2. serving = {c}
    BY <1>6, <2>1, ExecutesFacts
  <2>3. ToSet(space') = ToSet(space) \cup {NodeTuple(c)}
    BY <1>2, <1>6, <2>1, NodeStep, EffectSet
  <2>4. ~\E r : Next1(serving, cmds[r], r)
    BY <2>1, <2>2 DEF Next1, ByRole
  <2>5. \E l : Has1(ToSet(space'), l)
    BY <1>4, <2>1, <2>3, <2>4 DEF Has1
  <2> QED BY <1>5, <2>5
<1>7. ASSUME NEW r \in ByRole("receiver"), Executes(r) PROVE Listed(t)'
  <2>1. /\ r \in Clients /\ Role[r] = "receiver"
        /\ DeviceTuple(r) \in Tuples /\ ListTuple(r) \in Tuples
        /\ DeviceTuple(r).kind = "device" /\ ListTuple(r).kind = "list"
        /\ ListTuple(r).addr = Addr[r] /\ ListTuple(r).num = Num[r]
        /\ DeviceTuple(r).addr = Addr[r] /\ DeviceTuple(r).num = Num[r]
    BY TupleFacts DEF ByRole
  <2>2. serving = {r} /\ serving' = serving
    BY <1>7, <2>1, ExecutesFacts, PrintlnFacts
  <2>3. cmds[r] # Todo1(r) => ~\E d : Next1(serving, cmds[d], d)
    BY <2>2 DEF Next1
  <2>4. CASE cmds[r] = ReceiverCommands(r) /\ Takes(DeviceTuple(r))
    <3>1. cmds[r] # Todo1(r)
      BY <2>4, TodoFacts
    <3>2. /\ ToSet(space') \subseteq ToSet(space)
          /\ ToSet(space) \subseteq ToSet(space') \cup {DeviceTuple(r)}
      BY <1>2, <2>1, <2>4, EffectSet
    <3>3. \E l : Has1(ToSet(space), l)
      BY <1>4, <2>3, <3>1, <3>2
    <3>4. \E l : Has1(ToSet(space'), l)
      BY <2>1, <3>2, <3>3 DEF Has1
    <3> QED BY <1>5, <3>4
  <2>5. CASE cmds[r] = Todo3(r) /\ Takes(ListTuple(r))
    <3>1. cmds[r] # Todo1(r)
      BY <2>5, TodoFacts
    <3>2. /\ ToSet(space') \subseteq ToSet(space)
          /\ ToSet(space) \subseteq ToSet(space') \cup {ListTuple(r)}
      BY <1>2, <2>1, <2>5, EffectSet
    <3>3. PICK l : Has1(ToSet(space), l)
      BY <1>4, <2>3, <3>1, <3>2
    <3>4. Copies(DeviceTuple(r)) <= 0
      BY <1>2, <2>5 DEF OwnCopies
    <3>5. DeviceTuple(r) \notin ToSet(space)
      BY <3>4, InSpace
    <3>6. t \in Tuples /\ t # DeviceTuple(r)
      BY <1>3, <3>2, <3>5
    <3>7. l # ListTuple(r)
      BY <2>1, <3>3, <3>6, SameDevice DEF Has1
    <3>8. Has1(ToSet(space'), l)
      BY <3>2, <3>3, <3>7 DEF Has1
    <3> QED BY <1>5, <3>8
  <2>6. CASE cmds[r] = Todo2(r) /\ cmds'[r] = Todo1(r) /\ Adds(DeviceTuple(r))
    <3>1. cmds[r] # Todo1(r)
      BY <2>6, TodoFacts
    <3>2. ToSet(space') = ToSet(space) \cup {DeviceTuple(r)}
      BY <1>2, <2>1, <2>6, EffectSet
    <3>3. CASE t = DeviceTuple(r)
      <4>1. Next1(serving', cmds'[r], r)
        BY <2>2, <2>6, <3>3 DEF Next1
      <4> QED BY <1>5, <4>1
    <3>4. CASE t # DeviceTuple(r)
      <4>1. \E l : Has1(ToSet(space), l)
        BY <1>4, <2>3, <3>1, <3>2, <3>4
      <4>2. \E l : Has1(ToSet(space'), l)
        BY <3>2, <4>1 DEF Has1
      <4> QED BY <1>5, <4>2
    <3> QED BY <3>3, <3>4
  <2>7. CASE cmds[r] = Todo1(r) /\ Adds(ListTuple(r))
    <3>1. ToSet(space') = ToSet(space) \cup {ListTuple(r)}
      BY <1>2, <2>1, <2>7, EffectSet
    <3>2. t \in ToSet(space)
      BY <2>1, <3>1
    <3>3. CASE \E l : Has1(ToSet(space), l)
      <4>1. \E l : Has1(ToSet(space'), l)
        BY <3>1, <3>3 DEF Has1
      <4> QED BY <1>5, <4>1
    <3>4. CASE \E d : Next1(serving, cmds[d], d)
      <4>1. t = DeviceTuple(r)
        BY <2>2, <3>4 DEF Next1
      <4>2. Has1(ToSet(space'), ListTuple(r))
        BY <2>1, <3>1, <4>1 DEF Has1
      <4> QED BY <1>5, <4>2
    <3> QED BY <1>4, <3>2, <3>3, <3>4
  <2> QED BY <1>7, <2>4, <2>5, <2>6, <2>7, ReceiverStep
<1>8. CASE space' = space /\ \A c \in ByRole("node") \cup ByRole("receiver") : ~Executes(c)
  <2>1. CASE \E l : Has1(ToSet(space), l)
    BY <1>5, <1>8, <2>1
  <2>2. ASSUME NEW r, Next1(serving, cmds[r], r) PROVE Listed(t)'
    <3>1. /\ r \in Clients /\ Role[r] # "dsts" /\ r \in serving /\ cmds[r] # <<>> /\ ~Executes(r)
          /\ cmds[r] = Todo1(r)
      BY <1>8, <2>2, TodoFacts DEF Next1, ByRole
    <3>2. r \in serving' /\ cmds'[r] = cmds[r]
      BY <3>1, ServedStays
    <3>3. Next1(serving', cmds'[r], r)
      BY <2>2, <3>2 DEF Next1
    <3> QED BY <1>5, <3>3
  <2> QED BY <1>4, <1>8, <2>1, <2>2
<1> QED BY <1>6, <1>7, <1>8, SpaceCases

-----------------------------------------------------------------------------
(* The query for the receiver.                                             *)

\* It has not begun.
LEMMA DstsInit == Init => DstsInv
<1> SUFFICES ASSUME Init, NEW d \in ByRole("dsts") PROVE Asks(d)
  BY DEF DstsInv
<1>1. d \in Clients
  BY DEF ByRole
<1>2. ask[d] = 1 /\ ans[d] = <<>> /\ cmds[d] = <<>> /\ st[d] = "idle"
  BY <1>1 DEF Init
<1> QED BY <1>2 DEF Asks, Asking1

\* A query that is not being served, or not any more, has nothing to lose.
LEMMA AsideDsts ==
    ASSUME NEW d, Asks(d), d \notin serving \/ link[d] # "open",
           st'[d] = st[d], ans'[d] = ans[d], ask'[d] = ask[d], found'[d] = found[d],
           cmds'[d] = <<>> \/ cmds'[d] = cmds[d]
    PROVE  Asks(d)'
<1>1. ~Answered1(d) /\ ~Asking2(d) /\ ~(ask[d] = 2 /\ st[d] = "recv")
  BY DEF Asks, Answered1, Asking2
<1>2. Asking1(d) \/ Answered2(d)
  BY <1>1 DEF Asks
<1>3. Asking1(d) => Asking1(d)'
  BY DEF Asking1, Cmd, DeviceTuple
<1>4. Answered2(d) => Answered2(d)'
  BY DEF Answered2, SecondAnswer, Lines, Tuples, ByRole, TupleLine, OKLine, ErrorLine, EmptyLine,
         NodeTuple, DeviceTuple, ListTuple
<1>5. /\ ask'[d] = 2 => st'[d] \in {"recv", "done"}
      /\ ~(ask'[d] = 2 /\ st'[d] = "recv")
      /\ st'[d] = "done" => \E r \in ByRole("receiver") : found'[d] = <<ListTuple(r)>>
  BY <1>1 DEF Asks
<1> QED BY <1>2, <1>3, <1>4, <1>5 DEF Asks, ByRole, ListTuple

\* A step of others, during which the space does not change while the query is served.
LEMMA FrameDsts ==
    ASSUME NEW d, Asks(d),
           st'[d] = st[d], ans'[d] = ans[d], ask'[d] = ask[d], found'[d] = found[d],
           cmds'[d] = cmds[d], link'[d] = link[d],
           d \in serving => d \in serving' /\ space' = space
    PROVE  Asks(d)'
<1>1. CASE d \in serving /\ link[d] = "open"
  <2>1. d \in serving' /\ space' = space /\ ToSet(space') = ToSet(space)
    BY <1>1
  <2>2. Asking1(d) => Asking1(d)'
    BY DEF Asking1, Cmd, DeviceTuple
  <2>3. Answered1(d) => Answered1(d)'
    BY <2>1 DEF Answered1, FirstAnswer
  <2>4. Asking2(d) => Asking2(d)'
    BY <2>1 DEF Asking2
  <2>5. Answered2(d) => Answered2(d)'
    BY DEF Answered2, SecondAnswer
  <2> QED BY <1>1, <2>1, <2>2, <2>3, <2>4, <2>5 DEF Asks
<1>2. CASE d \notin serving \/ link[d] # "open"
  BY <1>2, AsideDsts
<1> QED BY <1>1, <1>2

\* The lists in the space are receivers'.
LEMMA ListsOfReceivers ==
    ASSUME SpaceInv, NEW i \in DOMAIN space, space[i].kind = "list"
    PROVE  \E r \in ByRole("receiver") : space[i] = ListTuple(r)
<1>1. space[i] \in Registered
  BY DEF SpaceInv
<1>2. /\ \A c \in ByRole("node") : NodeTuple(c).kind = "node"
      /\ \A c \in ByRole("receiver") : DeviceTuple(c).kind = "device"
  BY TupleFacts DEF ByRole
<1> QED BY <1>1, <1>2 DEF Registered

\* The adapter answers the first command with a device, if there is one, and the
\* second with its list, which is there.
LEMMA ExecutesDsts ==
    ASSUME TypeOK, ConnectionInv, CommandInv, SpaceInv, WholeInv, exceptions = 0, exceptions' = 0,
           NEW d \in ByRole("dsts"), Asks(d), Executes(d)
    PROVE  Asks(d)'
<1>1. d \in Clients /\ Role[d] = "dsts" /\ space \in Seq(Tuples) /\ DOMAIN space = 1 .. Len(space)
  BY TypeParts DEF ByRole
<1>2. serving = {d} /\ cmds[d] # <<>>
  BY <1>1, ExecutesFacts
<1>3. ExecuteRdp(d)
  <2>1. ~ExecuteFails(d)
    BY DEF ExecuteFails
  <2> QED BY <2>1, DstsPrints
<1>4. PICK l \in Lines : Println(d, <<OKLine, l>>)
  <2>1. ~ExecuteFails(d)
    BY DEF ExecuteFails
  <2> QED BY <2>1, DstsPrints
<1>5. /\ serving' = {d} /\ UNCHANGED <<st, ask, found>> /\ UNCHANGED space
      /\ link[d] = "open" => link'[d] = "open"
      /\ cmds'[d] = Tail(cmds[d])
      /\ \A ls : Println(d, ls) => ans'[d] = IF link[d] = "open" THEN ans[d] \o ls ELSE ans[d]
  <2>1. UNCHANGED space
    BY <1>3 DEF ExecuteRdp
  <2> QED BY <1>1, <1>2, <1>4, <2>1, PrintlnFacts
<1>6. OKLine \in Lines /\ \A k \in Lines : <<>> \o <<OKLine, k>> = <<OKLine, k>>
  <2>1. OKLine \in Lines
    BY LineFacts
  <2>2. \A k \in Lines : <<OKLine, k>> \in Seq(Lines)
    BY <2>1
  <2> QED BY <2>1, <2>2, ConcatEmptySeq
<1>7. CASE Asking1(d)
  <2>1. cmds[d] = <<Cmd("rdp device", DeviceTuple(d))>> /\ ans[d] = <<>> /\ ask[d] = 1
    BY <1>2, <1>7 DEF Asking1
  <2>2. Head(cmds[d]) = Cmd("rdp device", DeviceTuple(d)) /\ cmds'[d] = <<>>
    BY <1>5, <2>1, ShortFacts
  <2>3. Head(cmds[d]).op = "rdp device"
    <3>1. Cmd("rdp device", DeviceTuple(d)).op = "rdp device"
      BY CmdFacts
    <3> QED BY <2>2, <3>1
  <2>4. \/ Println(d, <<OKLine, EmptyLine>>)
        \/ \E i \in DOMAIN space : space[i].kind = "device" /\ Println(d, <<OKLine, TupleLine(space[i])>>)
    BY <1>3, <2>3 DEF ExecuteRdp, Matches
  <2>5. PICK k \in Lines : FirstAnswer(k) /\ Println(d, <<OKLine, k>>)
    <3>1. EmptyLine \in Lines /\ \A i \in DOMAIN space : TupleLine(space[i]) \in Lines
      <4>1. \A i \in DOMAIN space : space[i] \in Tuples
        BY <1>1
      <4> QED BY <4>1, LineFacts
    <3>2. \A i \in DOMAIN space : space[i] \in ToSet(space)
      BY DEF ToSet
    <3> QED BY <2>4, <3>1, <3>2 DEF FirstAnswer
  <2>6. CASE link[d] = "open"
    <3>1. ans'[d] = <<OKLine, k>>
      BY <1>5, <1>6, <2>1, <2>5, <2>6
    <3>2. Answered1(d)'
      BY <1>5, <2>1, <2>2, <2>5, <2>6, <3>1 DEF Answered1, FirstAnswer
    <3> QED BY <1>5, <2>1, <3>2 DEF Asks
  <2>7. CASE link[d] # "open"
    <3>1. ans'[d] = <<>>
      BY <1>4, <1>5, <2>1, <2>7
    <3>2. Asking1(d)'
      BY <1>5, <2>1, <2>2, <3>1 DEF Asking1
    <3> QED BY <1>5, <2>1, <3>2 DEF Asks
  <2> QED BY <2>6, <2>7
<1>8. CASE Asking2(d)
  <2>1. PICK t \in ToSet(space) : t.kind = "device" /\ cmds[d] = <<Cmd("rdp list", t)>>
    BY <1>8 DEF Asking2
  <2>2. ask[d] = 2 /\ ans[d] = <<>> /\ st[d] = "recv" /\ link[d] = "open"
    BY <1>8 DEF Asking2, Asks
  <2>3. Head(cmds[d]) = Cmd("rdp list", t) /\ cmds'[d] = <<>>
    BY <1>5, <2>1, ShortFacts
  <2>4. Head(cmds[d]).op = "rdp list" /\ Head(cmds[d]).tuple = t
    <3>1. Cmd("rdp list", t).op = "rdp list" /\ Cmd("rdp list", t).tuple = t
      BY CmdFacts
    <3> QED BY <2>3, <3>1
  <2>5. Matches(Head(cmds[d])) = {i \in DOMAIN space : /\ space[i].kind = "list"
                                     /\ space[i].addr = t.addr /\ space[i].num = t.num}
    BY <2>4 DEF Matches
  <2>6. PICK l0 \in ToSet(space) : l0.kind = "list" /\ l0.addr = t.addr /\ l0.num = t.num
    <3>1. Listed(t)
      BY <2>1 DEF WholeInv
    <3>2. ~\E r \in ByRole("receiver") \cap serving : TRUE
      BY <1>1, <1>2 DEF ByRole
    <3> QED BY <3>1, <3>2 DEF Listed
  <2>7. Matches(Head(cmds[d])) # {}
    <3>1. PICK i \in DOMAIN space : l0 = space[i]
      BY DEF ToSet
    <3> QED BY <2>5, <2>6, <3>1
  <2>8. PICK i \in DOMAIN space : space[i].kind = "list" /\ Println(d, <<OKLine, TupleLine(space[i])>>)
    BY <1>3, <2>5, <2>7 DEF ExecuteRdp
  <2>9. PICK r \in ByRole("receiver") : space[i] = ListTuple(r)
    BY <2>8, ListsOfReceivers
  <2>10. SecondAnswer(TupleLine(space[i])) /\ TupleLine(space[i]) \in Lines
    <3>1. space[i] \in Tuples
      BY <1>1
    <3> QED BY <2>9, <3>1, LineFacts DEF SecondAnswer
  <2>11. ans'[d] = <<OKLine, TupleLine(space[i])>>
    BY <1>5, <1>6, <2>2, <2>8, <2>10
  <2>12. Answered2(d)'
    BY <1>5, <2>2, <2>3, <2>10, <2>11 DEF Answered2, SecondAnswer
  <2> QED BY <1>5, <2>2, <2>12 DEF Asks
<1> QED BY <1>2, <1>7, <1>8 DEF Asks, Answered1, Answered2

\* The query reads a line or two.
LEMMA ReadsDsts ==
    ASSUME TypeOK, DstsLines, NEW d \in ByRole("dsts"), Asks(d), RecvDsts(d)
    PROVE  Asks(d)'
<1>1. d \in Clients /\ Role[d] = "dsts"
  BY DEF ByRole
<1>2. PICK n \in DOMAIN ans[d] :
        /\ Recv(d, n)
        /\ \/ /\ Has(Chunk(d, n), "OK") /\ Continue(d, Rest(d, n), <<>>, TRUE)
              /\ UNCHANGED <<cmds, ask, found>>
           \/ /\ ~Has(Chunk(d, n), "OK") /\ FirstTuple(Chunk(d, n)) = <<>>
              /\ Finish(d, "crashed", Rest(d, n)) /\ UNCHANGED <<cmds, ask, found>>
           \/ /\ ~Has(Chunk(d, n), "OK") /\ FirstTuple(Chunk(d, n)) # <<>> /\ ask[d] = 1
              /\ ask' = [ask EXCEPT ![d] = 2]
              /\ cmds' = [cmds EXCEPT ![d] = Append(@, Cmd("rdp list", FirstTuple(Chunk(d, n))[1]))]
              /\ Continue(d, Rest(d, n), <<>>, FALSE) /\ UNCHANGED found
           \/ /\ ~Has(Chunk(d, n), "OK") /\ FirstTuple(Chunk(d, n)) # <<>> /\ ask[d] = 2
              /\ found' = [found EXCEPT ![d] = <<FirstTuple(Chunk(d, n))[1]>>]
              /\ Finish(d, "done", Rest(d, n)) /\ UNCHANGED <<cmds, ask>>
  BY DEF RecvDsts
<1>3. UNCHANGED <<serving, space>> /\ st[d] = "recv"
  BY <1>1, <1>2 DEF RecvDsts, adapterVars, storeVars, Recv
<1>4. cmds[d] = <<>> /\ ans[d] # <<>>
  BY <1>1, DstsAsks
<1>5. /\ cmds \in [Clients -> Seq(AllCmds)] /\ ask \in [Clients -> {1, 2}]
      /\ found \in [Clients -> Seq(Tuples)]
  BY TypeParts
<1>6. OKLine \in Lines /\ OKLine.tag = "OK" /\ EmptyLine.tag # "OK" /\ EmptyLine.tuple = <<>>
  BY LineFacts
<1>7. ASSUME NEW l \in Lines, ans[d] = <<OKLine, l>>
      PROVE  /\ UNCHANGED <<st, link, cmds, ask, found>> /\ (ans'[d] = <<l>> \/ ans'[d] = <<>>)
  <2>1. Has(Chunk(d, n), "OK") /\ (Rest(d, n) = <<l>> \/ Rest(d, n) = <<>>)
    BY <1>1, <1>6, <1>7, TwoLines
  <2> QED BY <1>1, <1>2, <2>1, ContinueFacts
<1>8. CASE Answered1(d)
  <2>1. PICK l \in Lines : FirstAnswer(l) /\ (ans[d] = <<OKLine, l>> \/ ans[d] = <<l>>)
    BY <1>8 DEF Answered1
  <2>2. ask[d] = 1 /\ d \in serving /\ link[d] = "open"
    BY <1>8 DEF Answered1
  <2>3. CASE ans[d] = <<OKLine, l>>
    <3>1. UNCHANGED <<st, link, cmds, ask, found>> /\ (ans'[d] = <<l>> \/ ans'[d] = <<>>)
      BY <1>7, <2>3
    <3>2. CASE ans'[d] = <<l>>
      <4>1. Answered1(d)'
        BY <1>3, <1>4, <2>1, <2>2, <3>1, <3>2 DEF Answered1, FirstAnswer
      <4> QED BY <1>3, <2>2, <3>1, <4>1 DEF Asks
    <3>3. CASE ans'[d] = <<>>
      <4>1. Asking1(d)'
        BY <1>4, <2>2, <3>1, <3>3 DEF Asking1
      <4> QED BY <1>3, <2>2, <3>1, <4>1 DEF Asks
    <3> QED BY <3>1, <3>2, <3>3
  <2>4. CASE ans[d] = <<l>>
    <3>1. Rest(d, n) = <<>> /\ FirstTuple(Chunk(d, n)) = l.tuple /\ (Has(Chunk(d, n), "OK") <=> l.tag = "OK")
      BY <1>1, <2>4, OneLine
    <3>2. CASE l = EmptyLine
      <4>1. Finish(d, "crashed", Rest(d, n)) /\ UNCHANGED <<cmds, ask, found>>
        BY <1>2, <1>6, <3>1, <3>2
      <4>2. st'[d] = "crashed" /\ ans'[d] = <<>>
        BY <1>1, <4>1, CloseFacts DEF Finish
      <4>3. Asking1(d)'
        BY <1>4, <2>2, <4>1, <4>2 DEF Asking1
      <4> QED BY <2>2, <4>1, <4>2, <4>3 DEF Asks
    <3>3. ASSUME NEW t \in ToSet(space), t.kind = "device", l = TupleLine(t) PROVE Asks(d)'
      <4>1. l.tag # "OK" /\ l.tuple = <<t>> /\ <<t>> # <<>> /\ <<t>>[1] = t
        BY <3>3, LineFacts
      <4>2. /\ ask' = [ask EXCEPT ![d] = 2]
            /\ cmds' = [cmds EXCEPT ![d] = Append(@, Cmd("rdp list", t))]
            /\ Continue(d, <<>>, <<>>, FALSE) /\ UNCHANGED found
        <5>1. /\ ~Has(Chunk(d, n), "OK") /\ FirstTuple(Chunk(d, n)) = <<t>>
              /\ FirstTuple(Chunk(d, n)) # <<>> /\ ask[d] # 2
          BY <2>2, <3>1, <4>1
        <5>2. /\ ask' = [ask EXCEPT ![d] = 2]
              /\ cmds' = [cmds EXCEPT ![d] = Append(@, Cmd("rdp list", FirstTuple(Chunk(d, n))[1]))]
              /\ Continue(d, Rest(d, n), <<>>, FALSE) /\ UNCHANGED found
          BY <1>2, <5>1, Zenon
        <5>3. FirstTuple(Chunk(d, n))[1] = t
          BY <4>1, <5>1
        <5> QED BY <3>1, <5>2, <5>3, Zenon
      <4>3. ask'[d] = 2 /\ ans'[d] = <<>> /\ UNCHANGED <<st, link>>
        BY <1>1, <1>5, <4>2, ContinueFacts
      <4>4. cmds'[d] = <<Cmd("rdp list", t)>>
        <5>1. t \in Tuples
          BY TypeParts DEF ToSet
        <5>2. Cmd("rdp list", t) \in AllCmds
          BY <5>1, CmdFacts DEF Ops
        <5>3. Append(<<>>, Cmd("rdp list", t)) = <<Cmd("rdp list", t)>>
          BY <1>1, <1>5, <5>2, SmallSeq
        <5>4. cmds'[d] = Append(<<>>, Cmd("rdp list", t))
          BY <1>1, <1>4, <1>5, <4>2
        <5> QED BY <5>3, <5>4
      <4>5. Asking2(d)'
        BY <1>3, <3>3, <4>3, <4>4 DEF Asking2
      <4> QED BY <1>3, <2>2, <4>3, <4>5 DEF Asks
    <3> QED BY <2>1, <3>2, <3>3 DEF FirstAnswer
  <2> QED BY <2>1, <2>3, <2>4
<1>9. CASE Answered2(d)
  <2>1. PICK l \in Lines : SecondAnswer(l) /\ (ans[d] = <<OKLine, l>> \/ ans[d] = <<l>>)
    BY <1>4, <1>9 DEF Answered2
  <2>2. ask[d] = 2 /\ d \in serving /\ link[d] = "open"
    BY <1>3, <1>9 DEF Answered2, Asks
  <2>3. CASE ans[d] = <<OKLine, l>>
    <3>1. UNCHANGED <<st, link, cmds, ask, found>> /\ (ans'[d] = <<l>> \/ ans'[d] = <<>>)
      BY <1>7, <2>3
    <3>2. Answered2(d)'
      BY <1>4, <2>1, <2>2, <3>1 DEF Answered2, SecondAnswer
    <3> QED BY <1>3, <2>2, <3>1, <3>2 DEF Asks
  <2>4. CASE ans[d] = <<l>>
    <3>1. Rest(d, n) = <<>> /\ FirstTuple(Chunk(d, n)) = l.tuple /\ (Has(Chunk(d, n), "OK") <=> l.tag = "OK")
      BY <1>1, <2>4, OneLine
    <3>2. PICK r \in ByRole("receiver") : l = TupleLine(ListTuple(r))
      BY <2>1 DEF SecondAnswer
    <3>3. /\ l.tag # "OK" /\ l.tuple = <<ListTuple(r)>> /\ <<ListTuple(r)>> # <<>>
          /\ <<ListTuple(r)>>[1] = ListTuple(r)
      BY <3>2, LineFacts
    <3>4. /\ found' = [found EXCEPT ![d] = <<ListTuple(r)>>]
          /\ Finish(d, "done", <<>>) /\ UNCHANGED <<cmds, ask>>
      <4>1. /\ ~Has(Chunk(d, n), "OK") /\ FirstTuple(Chunk(d, n)) = <<ListTuple(r)>>
            /\ FirstTuple(Chunk(d, n)) # <<>> /\ ask[d] # 1
        BY <2>2, <3>1, <3>3
      <4>2. /\ found' = [found EXCEPT ![d] = <<FirstTuple(Chunk(d, n))[1]>>]
            /\ Finish(d, "done", Rest(d, n)) /\ UNCHANGED <<cmds, ask>>
        BY <1>2, <4>1, Zenon
      <4>3. FirstTuple(Chunk(d, n))[1] = ListTuple(r)
        BY <3>3, <4>1
      <4> QED BY <3>1, <4>2, <4>3, Zenon
    <3>5. st'[d] = "done" /\ ans'[d] = <<>> /\ found'[d] = <<ListTuple(r)>>
      BY <1>1, <1>5, <3>4, CloseFacts DEF Finish
    <3>6. Answered2(d)'
      BY <1>4, <2>2, <3>4, <3>5 DEF Answered2
    <3> QED BY <2>2, <3>4, <3>5, <3>6 DEF Asks
  <2> QED BY <2>1, <2>3, <2>4
<1> QED BY <1>4, <1>8, <1>9 DEF Asks, Asking1, Asking2

\* The query connects, or finds the adapter gone.
LEMMA StartsDsts ==
    ASSUME TypeOK, ConnectionInv, NEW d \in ByRole("dsts"), Asks(d), Connect(d) \/ RecvGone(d)
    PROVE  Asks(d)'
<1>1. d \in Clients /\ Role[d] = "dsts" /\ cmds \in [Clients -> Seq(AllCmds)]
  BY TypeParts DEF ByRole
<1>2. CASE Connect(d)
  <2>1. st[d] = "idle" /\ UNCHANGED <<ans, ask, found>>
    BY <1>2 DEF Connect
  <2>2. ask[d] # 2 /\ link[d] # "open"
    BY <1>1, <2>1 DEF Asks, ConnectionInv
  <2>3. Asking1(d)
    BY <2>2 DEF Asks, Answered1, Asking2, Answered2
  <2>4. st'[d] # "done" /\ ask'[d] = 1
    <3>1. ask'[d] = 1
      BY <2>1, <2>3 DEF Asking1
    <3>2. st'[d] # "done"
      BY <1>1, <1>2, TypeParts DEF Connect
    <3> QED BY <3>1, <3>2
  <2>5. cmds'[d] = cmds[d] \/ cmds'[d] = <<Cmd("rdp device", DeviceTuple(d))>>
    <3>1. Commands(d) = <<Cmd("rdp device", DeviceTuple(d))>>
      BY <1>1 DEF Commands
    <3>2. cmds'[d] = cmds[d] \/ cmds'[d] = Commands(d)
      BY <1>1, <1>2 DEF Connect
    <3> QED BY <3>1, <3>2
  <2>6. Asking1(d)'
    BY <2>1, <2>3, <2>5 DEF Asking1, Cmd, DeviceTuple
  <2> QED BY <2>4, <2>6 DEF Asks
<1>3. CASE RecvGone(d)
  <2>1. st[d] = "recv" /\ link[d] = "dead" /\ UNCHANGED <<cmds, ask, found>>
    BY <1>3 DEF RecvGone
  <2>2. ask[d] # 2
    BY <2>1 DEF Asks
  <2>3. Asking1(d)
    BY <2>1, <2>2 DEF Asks, Answered1, Asking2, Answered2
  <2>4. Close(d, "crashed", <<>>)
    BY <1>1, <1>3 DEF RecvGone
  <2>5. st'[d] = "crashed" /\ ans'[d] = <<>>
    BY <1>1, <2>4, CloseFacts
  <2>6. Asking1(d)'
    BY <2>1, <2>3, <2>5 DEF Asking1, Cmd, DeviceTuple
  <2> QED BY <2>1, <2>2, <2>5, <2>6 DEF Asks
<1> QED BY <1>2, <1>3

\* The space refuses no operation and one more.
LEMMA ExceptionsGrow ==
    ASSUME TypeOK, CommandInv, [Next]_vars, exceptions' = 0
    PROVE  exceptions = 0
<1>1. exceptions \in Nat
  BY TypeParts, ClientsAssumption
<1>2. \A x : Takes(x) \/ Adds(x) => exceptions' \in {exceptions, exceptions + 1}
  BY DEF Takes, Adds
<1>3. exceptions' \in {exceptions, exceptions + 1}
  BY <1>2, SpaceCases, NodeStep, ReceiverStep
<1> QED BY <1>1, <1>3

\* Every step keeps the receiver query between its answers.
LEMMA DstsNext ==
    ASSUME TypeOK, ConnectionInv, CommandInv, DstsLines, SpaceInv, WholeInv, DstsInv, [Next]_vars
    PROVE  DstsInv'
<1> SUFFICES ASSUME exceptions' = 0, NEW d \in ByRole("dsts") PROVE Asks(d)'
  BY DEF DstsInv, ByRole
<1>1. exceptions = 0 /\ Asks(d) /\ d \in Clients /\ Role[d] = "dsts"
  BY ExceptionsGrow DEF DstsInv, ByRole
<1>2. ASSUME NEW c \in Clients, Executes(c) PROVE Asks(d)'
  <2>1. CASE c = d
    BY <1>1, <1>2, <2>1, ExecutesDsts
  <2>2. CASE c # d
    <3>1. serving = {c} /\ d \in Clients \ {c}
      BY <1>1, <1>2, <2>2, ExecutesFacts
    <3>2. PICK ls : Println(c, ls)
      BY <1>2, ExecutesFacts
    <3>3. /\ cmds'[d] = cmds[d] /\ ans'[d] = ans[d] /\ link'[d] = link[d]
          /\ UNCHANGED <<st, ask, found>>
      BY <3>1, <3>2, PrintlnFacts
    <3>4. d \notin serving
      BY <3>1
    <3> QED BY <1>1, <3>3, <3>4, FrameDsts
  <2> QED BY <2>1, <2>2
<1>3. ASSUME NEW c \in Clients, Client(c) PROVE Asks(d)'
  <2>1. CASE c # d
    <3>1. /\ st'[d] = st[d] /\ ans'[d] = ans[d] /\ ask'[d] = ask[d] /\ found'[d] = found[d]
          /\ cmds'[d] = cmds[d] /\ link'[d] = link[d]
      BY <1>1, <1>3, <2>1, ClientFacts
    <3>2. UNCHANGED <<serving, space>>
      BY <1>3, ClientStore
    <3> QED BY <1>1, <3>1, <3>2, FrameDsts
  <2>2. CASE c = d
    <3>1. Connect(d) \/ RecvDsts(d) \/ RecvGone(d)
      BY <1>1, <1>3, <2>2 DEF Client, RecvConfirmation, RecvHops
    <3> QED BY <1>1, <3>1, StartsDsts, ReadsDsts
  <2> QED BY <2>1, <2>2
<1>4. ASSUME NEW c \in Clients, ReadThrows(c) PROVE Asks(d)'
  <2>1. /\ serving = {c} /\ link[c] = "rst" /\ UNCHANGED <<st, ans, ask, found>>
        /\ cmds'[d] = <<>> \/ cmds'[d] = cmds[d]
    BY <1>1, <1>4, ReadThrowsFacts
  <2>2. d \notin serving \/ link[d] # "open"
    BY <2>1
  <2> QED BY <1>1, <2>1, <2>2, AsideDsts
<1>5. CASE Accept \/ (\E c \in Clients : EndOfStream(c)) \/ UNCHANGED vars
  <2>1. /\ UNCHANGED <<space, st, ask, found, cmds, ans, link>>
        /\ \/ serving = {} \/ UNCHANGED serving
           \/ \E c \in Clients : serving = {c} /\ cmds[c] = <<>> /\ link[c] = "fin" /\ serving' = {}
    BY <1>5, ServeFacts
  <2>2. CASE UNCHANGED serving
    BY <1>1, <2>1, <2>2, FrameDsts
  <2>3. CASE d \notin serving \/ link[d] # "open"
    BY <1>1, <2>1, <2>3, AsideDsts
  <2> QED BY <2>1, <2>2, <2>3
<1> QED BY <1>2, <1>3, <1>4, <1>5, NextCases

-----------------------------------------------------------------------------
(* The query for the overlay nodes: the lines of its answer.               *)

\* Sequences of the same elements are the same.
LEMMA SameSeq ==
    ASSUME NEW S, NEW p \in Seq(S), NEW q, Len(p) = Len(q), q \in Seq(S),
           \A j \in 1 .. Len(p) : p[j] = q[j]
    PROVE  p = q
OBVIOUS

\* The lines that are left, by their places.
LEMMA AfterFacts ==
    ASSUME NEW q \in Seq(Tuples), NEW k \in 0 .. Len(q)
    PROVE  /\ LinesAfter(q, k) \in Seq(Lines) /\ Len(LinesAfter(q, k)) = Len(q) - k + 1
           /\ \A j \in 1 .. Len(q) - k : LinesAfter(q, k)[j] = TupleLine(q[k + j])
           /\ LinesAfter(q, k)[Len(q) - k + 1] = EmptyLine
<1>1. Len(q) \in Nat /\ k \in Nat /\ Len(q) - k + 1 \in Nat /\ \A j \in 1 .. Len(q) : q[j] \in Tuples
  OBVIOUS
<1>2. EmptyLine \in Lines /\ \A t \in Tuples : TupleLine(t) \in Lines
  BY LineFacts
<1>3. \A j \in 1 .. Len(q) - k : q[k + j] \in Tuples
  BY <1>1
<1>4. \A j \in 1 .. Len(q) - k + 1 :
         (IF j <= Len(q) - k THEN TupleLine(q[k + j]) ELSE EmptyLine) \in Lines
  BY <1>1, <1>2, <1>3
<1>5. LinesAfter(q, k) \in Seq(Lines) /\ Len(LinesAfter(q, k)) = Len(q) - k + 1
  <2> DEFINE m == Len(q) - k + 1
  <2>1. LinesAfter(q, k) \in [1 .. m -> Lines]
    BY <1>4 DEF LinesAfter
  <2>2. m \in Nat
    BY <1>1
  <2> HIDE DEF m
  <2>3. LinesAfter(q, k) \in Seq(Lines) /\ Len(LinesAfter(q, k)) = m
    BY <2>1, <2>2
  <2> QED BY <2>3 DEF m
<1>6. \A j \in 1 .. Len(q) - k : LinesAfter(q, k)[j] = TupleLine(q[k + j])
  BY <1>1 DEF LinesAfter
<1>7. LinesAfter(q, k)[Len(q) - k + 1] = EmptyLine
  BY <1>1 DEF LinesAfter
<1> QED BY <1>5, <1>6, <1>7

\* A recv() of an answer that has not been touched takes OK and n - 1 tuples.
LEMMA CutAll ==
    ASSUME NEW q \in Seq(Tuples), NEW n \in 1 .. Len(q) + 2
    PROVE  SubSeq(AllLines(q), n + 1, Len(q) + 2) =
             IF n <= Len(q) + 1 THEN LinesAfter(q, n - 1) ELSE <<>>
<1>1. /\ AllLines(q) \in Seq(Lines) /\ Len(AllLines(q)) = Len(q) + 2 /\ Len(q) \in Nat
      /\ AllLines(q)[Len(q) + 2] = EmptyLine
      /\ \A j \in 1 .. Len(q) : AllLines(q)[j + 1] = TupleLine(q[j])
  BY AllLinesFacts
<1> DEFINE s == SubSeq(AllLines(q), n + 1, Len(q) + 2)
<1>2. /\ s \in Seq(Lines) /\ Len(s) = Len(q) + 2 - n
      /\ \A j \in 1 .. Len(q) + 2 - n : s[j] = AllLines(q)[n + j]
  <2>1. n \in 1 .. Len(AllLines(q)) /\ s = SubSeq(AllLines(q), n + 1, Len(AllLines(q)))
    BY <1>1
  <2> HIDE DEF s
  <2>2. /\ s \in Seq(Lines) /\ Len(s) = Len(AllLines(q)) - n
        /\ \A j \in 1 .. Len(AllLines(q)) - n : s[j] = AllLines(q)[n + j]
    BY <1>1, <2>1, CutFacts
  <2> QED BY <1>1, <2>2
<1> HIDE DEF s
<1>3. CASE n <= Len(q) + 1
  <2>1. n - 1 \in 0 .. Len(q) /\ Len(q) - (n - 1) + 1 = Len(q) + 2 - n /\ Len(q) - (n - 1) = Len(q) + 1 - n
    BY <1>1, <1>3
  <2>2. /\ LinesAfter(q, n - 1) \in Seq(Lines) /\ Len(LinesAfter(q, n - 1)) = Len(q) + 2 - n
        /\ \A j \in 1 .. Len(q) + 1 - n : LinesAfter(q, n - 1)[j] = TupleLine(q[n - 1 + j])
        /\ LinesAfter(q, n - 1)[Len(q) + 2 - n] = EmptyLine
    BY <2>1, AfterFacts
  <2>3. ASSUME NEW j \in 1 .. Len(q) + 2 - n PROVE s[j] = LinesAfter(q, n - 1)[j]
    <3>1. CASE j <= Len(q) + 1 - n
      <4>1. n - 1 + j \in 1 .. Len(q) /\ n + j = (n - 1 + j) + 1 /\ j \in 1 .. Len(q) + 1 - n
        BY <1>1, <3>1
      <4>2. AllLines(q)[n + j] = TupleLine(q[n - 1 + j])
        BY <1>1, <4>1
      <4>3. LinesAfter(q, n - 1)[j] = TupleLine(q[n - 1 + j])
        BY <2>2, <4>1
      <4> QED BY <1>2, <4>2, <4>3
    <3>2. CASE j = Len(q) + 2 - n
      <4>1. n + j = Len(q) + 2
        BY <1>1, <3>2
      <4> QED BY <1>1, <1>2, <2>2, <3>2, <4>1
    <3>3. j <= Len(q) + 1 - n \/ j = Len(q) + 2 - n
      BY <1>1
    <3> QED BY <3>1, <3>2, <3>3
  <2>4. s = LinesAfter(q, n - 1)
    BY <1>2, <2>2, <2>3, SameSeq
  <2> QED BY <1>3, <2>4 DEF s
<1>4. CASE n = Len(q) + 2
  <2>1. s = <<>>
    BY <1>1, <1>2, <1>4
  <2> QED BY <1>1, <1>4, <2>1 DEF s
<1> QED BY <1>1, <1>3, <1>4

\* A later one takes n tuples.
LEMMA CutAfter ==
    ASSUME NEW q \in Seq(Tuples), NEW k \in 0 .. Len(q), NEW n \in 1 .. Len(q) - k + 1
    PROVE  SubSeq(LinesAfter(q, k), n + 1, Len(q) - k + 1) =
             IF n <= Len(q) - k THEN LinesAfter(q, k + n) ELSE <<>>
<1>1. /\ LinesAfter(q, k) \in Seq(Lines) /\ Len(LinesAfter(q, k)) = Len(q) - k + 1 /\ Len(q) \in Nat
      /\ LinesAfter(q, k)[Len(q) - k + 1] = EmptyLine
      /\ \A j \in 1 .. Len(q) - k : LinesAfter(q, k)[j] = TupleLine(q[k + j])
  BY AfterFacts
<1> DEFINE s == SubSeq(LinesAfter(q, k), n + 1, Len(q) - k + 1)
<1>2. /\ s \in Seq(Lines) /\ Len(s) = Len(q) - k + 1 - n
      /\ \A j \in 1 .. Len(q) - k + 1 - n : s[j] = LinesAfter(q, k)[n + j]
  <2>1. n \in 1 .. Len(LinesAfter(q, k)) /\ s = SubSeq(LinesAfter(q, k), n + 1, Len(LinesAfter(q, k)))
    BY <1>1
  <2> HIDE DEF s
  <2>2. /\ s \in Seq(Lines) /\ Len(s) = Len(LinesAfter(q, k)) - n
        /\ \A j \in 1 .. Len(LinesAfter(q, k)) - n : s[j] = LinesAfter(q, k)[n + j]
    BY <1>1, <2>1, CutFacts
  <2> QED BY <1>1, <2>2
<1> HIDE DEF s
<1>3. CASE n <= Len(q) - k
  <2>1. k + n \in 0 .. Len(q) /\ Len(q) - (k + n) + 1 = Len(q) - k + 1 - n /\ Len(q) - (k + n) = Len(q) - k - n
    BY <1>1, <1>3
  <2>2. /\ LinesAfter(q, k + n) \in Seq(Lines) /\ Len(LinesAfter(q, k + n)) = Len(q) - k + 1 - n
        /\ \A j \in 1 .. Len(q) - k - n : LinesAfter(q, k + n)[j] = TupleLine(q[k + n + j])
        /\ LinesAfter(q, k + n)[Len(q) - k + 1 - n] = EmptyLine
    <3>1. /\ LinesAfter(q, k + n) \in Seq(Lines) /\ Len(LinesAfter(q, k + n)) = Len(q) - (k + n) + 1
          /\ \A j \in 1 .. Len(q) - (k + n) : LinesAfter(q, k + n)[j] = TupleLine(q[(k + n) + j])
          /\ LinesAfter(q, k + n)[Len(q) - (k + n) + 1] = EmptyLine
      BY <2>1, AfterFacts
    <3> QED BY <2>1, <3>1
  <2>3. ASSUME NEW j \in 1 .. Len(q) - k + 1 - n PROVE s[j] = LinesAfter(q, k + n)[j]
    <3>1. CASE j <= Len(q) - k - n
      <4>1. n + j \in 1 .. Len(q) - k /\ k + (n + j) = k + n + j /\ j \in 1 .. Len(q) - k - n
        BY <1>1, <3>1
      <4>2. LinesAfter(q, k)[n + j] = TupleLine(q[k + n + j])
        BY <1>1, <4>1
      <4>3. LinesAfter(q, k + n)[j] = TupleLine(q[k + n + j])
        BY <2>2, <4>1
      <4> QED BY <1>2, <4>2, <4>3
    <3>2. CASE j = Len(q) - k + 1 - n
      <4>1. n + j = Len(q) - k + 1
        BY <1>1, <3>2
      <4> QED BY <1>1, <1>2, <2>2, <3>2, <4>1
    <3>3. j <= Len(q) - k - n \/ j = Len(q) - k + 1 - n
      <4>1. j \in Int /\ k \in Int /\ n \in Int /\ Len(q) \in Int /\ j <= Len(q) - k + 1 - n
        BY <1>1
      <4> QED BY <4>1
    <3> QED BY <3>1, <3>2, <3>3
  <2>4. s = LinesAfter(q, k + n)
    BY <1>2, <2>2, <2>3, SameSeq
  <2> QED BY <1>3, <2>4 DEF s
<1>4. CASE n = Len(q) - k + 1
  <2>1. s = <<>>
    BY <1>1, <1>2, <1>4
  <2> QED BY <1>1, <1>4, <2>1 DEF s
<1> QED BY <1>1, <1>3, <1>4

\* The first recv() of an answer returns OK, no error, and perhaps the first tuple.
LEMMA ChunkAll ==
    ASSUME NEW q \in Seq(Tuples), NEW n \in 1 .. Len(q) + 2
    PROVE  /\ Has(SubSeq(AllLines(q), 1, n), "OK") /\ ~Has(SubSeq(AllLines(q), 1, n), "ERROR")
           /\ \/ FirstTuple(SubSeq(AllLines(q), 1, n)) = <<>>
              \/ /\ n > 1 /\ Len(q) > 0
                 /\ FirstTuple(SubSeq(AllLines(q), 1, n)) = <<q[1]>>
<1>1. /\ AllLines(q) \in Seq(Lines) /\ Len(AllLines(q)) = Len(q) + 2 /\ Len(q) \in Nat
      /\ AllLines(q)[1] = OKLine /\ AllLines(q)[Len(q) + 2] = EmptyLine
      /\ \A j \in 1 .. Len(q) : AllLines(q)[j + 1] = TupleLine(q[j])
  BY AllLinesFacts
<1> DEFINE s == SubSeq(AllLines(q), 1, n)
<1>2. s \in Seq(Lines) /\ Len(s) = n /\ \A j \in 1 .. n : s[j] = AllLines(q)[j]
  BY <1>1, CutFacts
<1> HIDE DEF s
<1>3. DOMAIN s = 1 .. n
  BY <1>2
<1>4. ASSUME NEW j \in 1 .. n
      PROVE  s[j] = OKLine \/ s[j] = EmptyLine \/ (j > 1 /\ j - 1 \in 1 .. Len(q) /\ s[j] = TupleLine(q[j - 1]))
  <2>1. j = 1 \/ j = Len(q) + 2 \/ (j > 1 /\ j - 1 \in 1 .. Len(q) /\ (j - 1) + 1 = j)
    BY <1>1
  <2>2. s[j] = AllLines(q)[j]
    BY <1>2
  <2>3. ASSUME j > 1, j - 1 \in 1 .. Len(q), (j - 1) + 1 = j PROVE s[j] = TupleLine(q[j - 1])
    <3>1. AllLines(q)[(j - 1) + 1] = TupleLine(q[j - 1])
      BY <1>1, <2>3
    <3> QED BY <2>2, <2>3, <3>1
  <2> QED BY <1>1, <2>1, <2>2, <2>3
<1>5. Has(s, "OK")
  <2>1. 1 \in DOMAIN s /\ s[1] = OKLine
    BY <1>1, <1>2, <1>3
  <2> QED BY <2>1, LineFacts DEF Has
<1>6. ~Has(s, "ERROR")
  <2>1. \A j \in DOMAIN s : s[j].tag # "ERROR"
    BY <1>3, <1>4, LineFacts
  <2> QED BY <2>1 DEF Has
<1>7. FirstTuple(s) = <<>> \/ (n > 1 /\ Len(q) > 0 /\ FirstTuple(s) = <<q[1]>>)
  <2>1. CASE FirstTuple(s) = <<>>
    BY <2>1
  <2>2. ASSUME NEW a \in 1 .. n, s[a].tuple # <<>>, FirstTuple(s) = s[a].tuple,
               \A j \in 1 .. n : j < a => s[j].tuple = <<>>
        PROVE  n > 1 /\ Len(q) > 0 /\ FirstTuple(s) = <<q[1]>>
    <3>1. a > 1 /\ a - 1 \in 1 .. Len(q) /\ s[a] = TupleLine(q[a - 1])
      BY <1>4, <2>2, LineFacts
    <3>2. n > 1 /\ Len(q) > 0 /\ 1 \in 1 .. Len(q) /\ 2 \in 1 .. n /\ 2 <= a
      BY <1>1, <3>1
    <3>3. s[2] = TupleLine(q[1]) /\ s[2].tuple = <<q[1]>> /\ <<q[1]>> # <<>>
      <4>1. AllLines(q)[1 + 1] = TupleLine(q[1])
        BY <1>1, <3>2
      <4>2. s[2] = TupleLine(q[1])
        BY <1>2, <3>2, <4>1
      <4> QED BY <4>2, LineFacts
    <3>4. a = 2
      <4>1. ~(2 < a)
        BY <2>2, <3>2, <3>3
      <4>2. a \in Int
        OBVIOUS
      <4> QED BY <3>2, <4>1, <4>2
    <3> QED BY <2>2, <3>2, <3>3, <3>4
  <2> QED BY <1>2, <2>1, <2>2, FirstTupleFacts
<1> QED BY <1>5, <1>6, <1>7 DEF s

\* A later recv() returns neither, and the next tuple if there is one.
LEMMA ChunkAfter ==
    ASSUME NEW q \in Seq(Tuples), NEW k \in 0 .. Len(q), NEW n \in 1 .. Len(q) - k + 1
    PROVE  /\ ~Has(SubSeq(LinesAfter(q, k), 1, n), "OK")
           /\ ~Has(SubSeq(LinesAfter(q, k), 1, n), "ERROR")
           /\ k < Len(q) => FirstTuple(SubSeq(LinesAfter(q, k), 1, n)) = <<q[k + 1]>>
           /\ k = Len(q) => FirstTuple(SubSeq(LinesAfter(q, k), 1, n)) = <<>>
<1>1. /\ LinesAfter(q, k) \in Seq(Lines) /\ Len(LinesAfter(q, k)) = Len(q) - k + 1 /\ Len(q) \in Nat
      /\ LinesAfter(q, k)[Len(q) - k + 1] = EmptyLine
      /\ \A j \in 1 .. Len(q) - k : LinesAfter(q, k)[j] = TupleLine(q[k + j])
  BY AfterFacts
<1> DEFINE s == SubSeq(LinesAfter(q, k), 1, n)
<1>2. s \in Seq(Lines) /\ Len(s) = n /\ \A j \in 1 .. n : s[j] = LinesAfter(q, k)[j]
  <2>1. n \in 1 .. Len(LinesAfter(q, k))
    BY <1>1
  <2> QED BY <1>1, <2>1, CutFacts
<1> HIDE DEF s
<1>3. DOMAIN s = 1 .. n
  BY <1>2
<1>4. ASSUME NEW j \in 1 .. n
      PROVE  (j = Len(q) - k + 1 /\ s[j] = EmptyLine) \/ (j \in 1 .. Len(q) - k /\ s[j] = TupleLine(q[k + j]))
  <2>1. j = Len(q) - k + 1 \/ j \in 1 .. Len(q) - k
    <3>1. j \in Int /\ k \in Int /\ Len(q) \in Int /\ 1 <= j /\ j <= Len(q) - k + 1
      BY <1>1
    <3> QED BY <3>1
  <2>2. s[j] = LinesAfter(q, k)[j]
    BY <1>2
  <2> QED BY <1>1, <2>1, <2>2
<1>5. \A j \in DOMAIN s : s[j].tag # "OK" /\ s[j].tag # "ERROR"
  BY <1>3, <1>4, LineFacts
<1>6. ASSUME k < Len(q) PROVE FirstTuple(s) = <<q[k + 1]>>
  <2>1. 1 \in 1 .. n /\ 1 # Len(q) - k + 1
    BY <1>1, <1>6
  <2>2. s[1] = TupleLine(q[k + 1])
    BY <1>4, <2>1
  <2>3. s[1].tuple = <<q[k + 1]>> /\ s[1].tuple # <<>>
    <3>1. TupleLine(q[k + 1]).tuple = <<q[k + 1]>>
      BY LineFacts
    <3> QED BY <2>2, <3>1
  <2>4. PICK a \in 1 .. n : /\ FirstTuple(s) = s[a].tuple
                            /\ \A j \in 1 .. n : j < a => s[j].tuple = <<>>
    BY <1>2, <2>1, <2>3, FirstTupleFacts
  <2>5. a = 1
    <3>1. ~(1 < a)
      BY <2>1, <2>3, <2>4
    <3>2. a \in Int /\ 1 <= a
      OBVIOUS
    <3> QED BY <3>1, <3>2
  <2> QED BY <2>3, <2>4, <2>5
<1>7. ASSUME k = Len(q) PROVE FirstTuple(s) = <<>>
  <2>1. \A j \in 1 .. n : s[j] = EmptyLine
    <3>1. 1 .. Len(q) - k = {}
      BY <1>1, <1>7
    <3> QED BY <1>4, <3>1
  <2>2. \A j \in 1 .. n : s[j].tuple = <<>>
    BY <2>1, LineFacts
  <2> QED BY <1>2, <2>2, FirstTupleFacts
<1>8. ~Has(s, "OK") /\ ~Has(s, "ERROR")
  BY <1>5 DEF Has
<1> QED BY <1>6, <1>7, <1>8 DEF s

\* Nothing has been found yet.
LEMMA EmbedsNone ==
    ASSUME NEW q, NEW k \in Nat, NEW b, b = <<>> \/ (k > 0 /\ b = <<q[1]>>)
    PROVE  Embeds(<<>>, b, q, k)
<1> DEFINE f == [a \in {} |-> 1]
<1>1. DOMAIN <<>> = {} /\ f \in [{} -> 1 .. k]
  OBVIOUS
<1>2. b # <<>> => 1 \in 1 .. k /\ b = <<q[1]>>
  OBVIOUS
<1> HIDE DEF f
<1> QED BY <1>1, <1>2 DEF Embeds

\* One more tuple has been found, one that comes after the others.
LEMMA EmbedsMore ==
    ASSUME NEW p \in Seq(Tuples), NEW q, NEW k \in Nat, NEW m \in Nat, k <= m,
           NEW j \in 1 .. m, q[j] \in Tuples,
           NEW f \in [DOMAIN p -> 1 .. k],
           \A a \in DOMAIN p : \A e \in DOMAIN p : a < e => f[a] < f[e],
           \A a \in DOMAIN p : p[a] = q[f[a]],
           \A a \in DOMAIN p : f[a] < j
    PROVE  Embeds(Append(p, q[j]), <<>>, q, m)
<1> DEFINE r == Append(p, q[j])
           g == [a \in DOMAIN r |-> IF a <= Len(p) THEN f[a] ELSE j]
<1>1. /\ DOMAIN p = 1 .. Len(p) /\ Len(p) \in Nat /\ DOMAIN r = 1 .. Len(p) + 1
      /\ r[Len(p) + 1] = q[j] /\ \A a \in 1 .. Len(p) : r[a] = p[a]
  OBVIOUS
<1> HIDE DEF r
<1>2. /\ \A a \in 1 .. Len(p) : g[a] = f[a] /\ f[a] \in 1 .. k
      /\ g[Len(p) + 1] = j
  BY <1>1
<1>3. g \in [DOMAIN r -> 1 .. m]
  BY <1>1
<1> HIDE DEF g
<1>4. ASSUME NEW a \in DOMAIN r, NEW e \in DOMAIN r, a < e PROVE g[a] < g[e]
  <2>1. a \in 1 .. Len(p) /\ (e \in 1 .. Len(p) \/ e = Len(p) + 1)
    BY <1>1, <1>4
  <2>2. CASE e \in 1 .. Len(p)
    BY <1>1, <1>2, <1>4, <2>1, <2>2
  <2>3. CASE e = Len(p) + 1
    BY <1>1, <1>2, <2>1, <2>3
  <2> QED BY <2>1, <2>2, <2>3
<1>5. ASSUME NEW a \in DOMAIN r PROVE r[a] = q[g[a]]
  <2>1. a \in 1 .. Len(p) \/ a = Len(p) + 1
    BY <1>1
  <2> QED BY <1>1, <1>2, <2>1
<1>6. Embeds(r, <<>>, q, m)
  BY <1>3, <1>4, <1>5 DEF Embeds
<1> QED BY <1>6 DEF r

-----------------------------------------------------------------------------
(* The query for the overlay nodes.                                        *)

\* It has not begun.
LEMMA HopsInit == Init => HopsInv
<1> SUFFICES ASSUME Init, NEW h \in ByRole("hops") PROVE Discovers(h)
  BY DEF HopsInv
<1>1. h \in Clients
  BY DEF ByRole
<1>2. /\ atRead[h] = <<>> /\ found[h] = <<>> /\ buf[h] = <<>> /\ st[h] = "idle"
      /\ ans[h] = <<>>
  BY <1>1 DEF Init
<1> QED BY <1>2 DEF Discovers, Unanswered

\* A step of others.
LEMMA FrameHops ==
    ASSUME NEW h, Discovers(h),
           st'[h] = st[h], ans'[h] = ans[h], atRead'[h] = atRead[h], found'[h] = found[h],
           buf'[h] = buf[h], merged'[h] = merged[h], cmds'[h] = <<>> \/ cmds'[h] = cmds[h]
    PROVE  Discovers(h)'
<1>1. CASE Unanswered(h)
  <2>1. Unanswered(h)'
    BY <1>1 DEF Unanswered, ErrorLine
  <2> QED BY <2>1 DEF Discovers
<1>2. ASSUME NEW k \in 0 .. Len(atRead[h]), Answered(h, k) PROVE Discovers(h)'
  <2>1. Answered(h, k)'
    <3>1. cmds'[h] = <<>> /\ st'[h] # "idle" /\ (st'[h] = "done" /\ ~merged'[h] => k = Len(atRead'[h]))
      BY <1>2 DEF Answered
    <3>2. \/ ans'[h] = <<>> \/ ans'[h] = LinesAfter(atRead'[h], k)
          \/ k = 0 /\ ans'[h] = AllLines(atRead'[h]) /\ found'[h] = <<>> /\ buf'[h] = <<>>
      BY <1>2 DEF Answered
    <3>3. Embeds(found'[h], buf'[h], atRead'[h], k)
      BY <1>2 DEF Answered
    <3>4. ~merged'[h] => AllTaken(h, k)'
      BY <1>2 DEF Answered, AllTaken
    <3> QED BY <3>1, <3>2, <3>3, <3>4 DEF Answered
  <2> QED BY <2>1 DEF Discovers
<1> QED BY <1>1, <1>2 DEF Discovers

\* The query connects, or finds the adapter gone.
LEMMA StartsHops ==
    ASSUME TypeOK, ConnectionInv, NEW h \in ByRole("hops"), Discovers(h), Connect(h) \/ RecvGone(h)
    PROVE  Discovers(h)'
<1>1. h \in Clients /\ Role[h] = "hops"
  BY DEF ByRole
<1>2. CASE Connect(h)
  <2>1. st[h] = "idle" /\ UNCHANGED <<atRead, ans, buf, found>>
    BY <1>2 DEF Connect, storeVars
  <2>2. ans[h] = <<>> /\ st'[h] # "done"
    BY <1>1, <1>2, <2>1, TypeParts DEF ConnectionInv, Connect
  <2>3. Unanswered(h)
    BY <2>1 DEF Discovers, Answered
  <2>4. Unanswered(h)'
    BY <2>1, <2>2, <2>3 DEF Unanswered
  <2> QED BY <2>4 DEF Discovers
<1>3. CASE RecvGone(h)
  <2>1. UNCHANGED <<atRead, cmds, buf, found, merged>>
    BY <1>3 DEF RecvGone, storeVars
  <2>2. PICK s \in {"failed", "crashed"} : Close(h, s, <<>>)
    BY <1>1, <1>3 DEF RecvGone
  <2>3. st'[h] \in {"failed", "crashed"} /\ ans'[h] = <<>>
    BY <1>1, <2>2, CloseFacts
  <2>4. CASE Unanswered(h)
    <3>1. Unanswered(h)'
      BY <2>1, <2>3, <2>4 DEF Unanswered
    <3> QED BY <3>1 DEF Discovers
  <2>5. ASSUME NEW k \in 0 .. Len(atRead[h]), Answered(h, k) PROVE Discovers(h)'
    <3>1. Answered(h, k)'
      BY <2>1, <2>3, <2>5 DEF Answered, AllTaken
    <3> QED BY <2>1, <3>1 DEF Discovers
  <2> QED BY <2>4, <2>5 DEF Discovers
<1> QED BY <1>2, <1>3

\* The adapter answers with every node of the space, or with an error.
LEMMA ExecutesHops ==
    ASSUME TypeOK, ConnectionInv, CommandInv, NEW h \in ByRole("hops"), Discovers(h), Executes(h)
    PROVE  Discovers(h)'
<1>1. h \in Clients /\ Role[h] = "hops" /\ space \in Seq(Tuples) /\ atRead \in [Clients -> Seq(Tuples)]
  BY TypeParts DEF ByRole
<1>2. cmds[h] # <<>>
  BY <1>1, ExecutesFacts
<1>3. cmds[h] = <<Cmd("rdall", NodeTuple(h))>> /\ st[h] # "idle"
  BY <1>1, <1>2 DEF CommandInv, ConnectionInv
<1>4. Head(cmds[h]).op = "rdall" /\ Tail(cmds[h]) = <<>>
  <2>1. Cmd("rdall", NodeTuple(h)).op = "rdall"
    BY CmdFacts
  <2>2. Head(cmds[h]) = Cmd("rdall", NodeTuple(h)) /\ Tail(cmds[h]) = <<>>
    BY <1>3, ShortFacts
  <2> QED BY <2>1, <2>2
<1>5. Unanswered(h) /\ ans[h] = <<>>
  BY <1>2 DEF Discovers, Answered, Unanswered
<1>6. ExecuteRdall(h) \/ ExecuteFails(h)
  BY <1>4 DEF Executes, ExecuteOut, ExecuteInp, ExecuteRdp, Reads
<1>7. \A ls \in Seq(Lines) : <<>> \o ls = ls
  BY ConcatEmptySeq
<1>8. CASE ExecuteFails(h)
  <2>1. Println(h, <<ErrorLine>>) /\ UNCHANGED atRead
    BY <1>8 DEF ExecuteFails
  <2>2. /\ cmds'[h] = <<>> /\ UNCHANGED <<st, buf, found>>
        /\ ans'[h] = IF link[h] = "open" THEN <<>> \o <<ErrorLine>> ELSE <<>>
    BY <1>1, <1>4, <1>5, <2>1, PrintlnFacts
  <2>3. <<>> \o <<ErrorLine>> = <<ErrorLine>>
    <3>1. <<ErrorLine>> \in Seq(Lines)
      <4>1. ErrorLine \in Lines
        BY LineFacts
      <4> QED BY <4>1
    <3> QED BY <1>7, <3>1
  <2>4. ans'[h] = <<>> \/ ans'[h] = <<ErrorLine>>
    BY <2>2, <2>3
  <2>5. Unanswered(h)'
    BY <1>5, <2>1, <2>2, <2>4 DEF Unanswered, ErrorLine
  <2> QED BY <2>5 DEF Discovers
<1>9. CASE ExecuteRdall(h)
  <2> DEFINE q == NodesIn(space)
  <2>1. Println(h, AllLines(q)) /\ atRead' = [atRead EXCEPT ![h] = q]
    BY <1>9 DEF ExecuteRdall, AllLines
  <2>2. q \in Seq(Tuples)
    BY <1>1, NodesTypes
  <2> HIDE DEF q
  <2>3. AllLines(q) \in Seq(Lines) /\ atRead'[h] = q /\ Len(q) \in Nat
    BY <1>1, <2>1, <2>2, AllLinesFacts
  <2>4. /\ cmds'[h] = <<>> /\ UNCHANGED <<st, buf, found, merged>>
        /\ ans'[h] = IF link[h] = "open" THEN <<>> \o AllLines(q) ELSE <<>>
    BY <1>1, <1>4, <1>5, <2>1, PrintlnFacts
  <2>5. ans'[h] = <<>> \/ ans'[h] = AllLines(q)
    BY <1>7, <2>3, <2>4
  <2>6. found'[h] = <<>> /\ buf'[h] = <<>> /\ st'[h] # "done" /\ st'[h] # "idle"
    BY <1>3, <1>5, <2>4 DEF Unanswered
  <2>7. Embeds(found'[h], buf'[h], atRead'[h], 0)
    <3>1. 0 \in Nat
      OBVIOUS
    <3>2. Embeds(<<>>, <<>>, q, 0)
      BY <3>1, EmbedsNone
    <3> QED BY <2>3, <2>6, <3>2
  <2>8. AllTaken(h, 0)'
    BY <2>6 DEF AllTaken
  <2>9. Answered(h, 0)'
    BY <2>3, <2>4, <2>5, <2>6, <2>7, <2>8 DEF Answered
  <2>10. 0 \in 0 .. Len(atRead'[h])
    BY <2>3
  <2> QED BY <2>9, <2>10 DEF Discovers
<1> QED BY <1>6, <1>8, <1>9

\* The query reads some lines; each may be the last of what it asked for.
LEMMA ReadsHops ==
    ASSUME TypeOK, NEW h \in ByRole("hops"), Discovers(h), RecvHops(h)
    PROVE  Discovers(h)'
<1> DEFINE q == atRead[h]
<1>1. /\ h \in Clients /\ Role[h] = "hops" /\ ans[h] \in Seq(Lines) /\ buf[h] \in Seq(Tuples)
      /\ found \in [Clients -> Seq(Tuples)] /\ q \in Seq(Tuples)
      /\ \A j \in 1 .. Len(q) : q[j] \in Tuples
  BY TypeParts DEF ByRole
<1>2. PICK n \in DOMAIN ans[h] :
        /\ Recv(h, n)
        /\ \/ /\ Has(Chunk(h, n), "ERROR")
              /\ Finish(h, "failed", Rest(h, n)) /\ UNCHANGED found
           \/ /\ ~Has(Chunk(h, n), "ERROR") /\ Has(Chunk(h, n), "OK")
              /\ Continue(h, Rest(h, n), FirstTuple(Chunk(h, n)), TRUE) /\ UNCHANGED found
           \/ /\ ~Has(Chunk(h, n), "ERROR") /\ ~Has(Chunk(h, n), "OK")
              /\ Chunk(h, n) = <<EmptyLine>>
              /\ Finish(h, "done", Rest(h, n)) /\ UNCHANGED found
           \/ /\ ~Has(Chunk(h, n), "ERROR") /\ ~Has(Chunk(h, n), "OK")
              /\ Finish(h, "crashed", Rest(h, n)) /\ UNCHANGED found
           \/ /\ ~Has(Chunk(h, n), "ERROR") /\ ~Has(Chunk(h, n), "OK") /\ HopsTuple(h, n) # <<>>
              /\ found' = [found EXCEPT ![h] = Append(@, HopsTuple(h, n)[1])]
              /\ Continue(h, Rest(h, n), <<>>, FALSE)
  BY DEF RecvHops
<1>3. UNCHANGED <<atRead, cmds>>
  BY DEF RecvHops, storeVars
<1>4. /\ st[h] = "recv" /\ n \in 1 .. Len(ans[h]) /\ Len(ans[h]) \in Nat /\ ans[h] # <<>>
      /\ merged'[h] <=> (merged[h] \/ n > 1)
  <2>1. Len(ans[h]) \in Nat /\ (ans[h] = <<>> => 1 .. Len(ans[h]) = {})
    BY <1>1
  <2>2. n \in 1 .. Len(ans[h])
    BY <1>1, <1>2, RecvFacts
  <2>3. /\ st[h] = "recv" /\ (merged'[h] <=> (merged[h] \/ n > 1))
    BY <1>1, <1>2, RecvFacts
  <2> QED BY <2>1, <2>2, <2>3
<1>5. ASSUME NEW s, NEW rest, s # "idle", Finish(h, s, rest), UNCHANGED found
      PROVE  st'[h] = s /\ ans'[h] = <<>> /\ UNCHANGED <<buf, found>>
  BY <1>1, <1>5, CloseFacts DEF Finish
<1>0. ASSUME NEW rest, NEW kept, NEW old, Continue(h, rest, kept, old)
      PROVE  ans'[h] = rest /\ buf'[h] = kept /\ UNCHANGED st
  BY <1>0, <1>1, ContinueFacts
<1>6. CASE Unanswered(h)
  <2>1. ans[h] = <<ErrorLine>> /\ ErrorLine \in Lines /\ ErrorLine.tag = "ERROR"
    BY <1>4, <1>6, LineFacts DEF Unanswered
  <2>2. Has(Chunk(h, n), "ERROR")
    BY <1>1, <1>2, <2>1, OneLine
  <2>3. Finish(h, "failed", Rest(h, n)) /\ UNCHANGED found
    BY <1>2, <2>2
  <2>4. st'[h] = "failed" /\ ans'[h] = <<>> /\ UNCHANGED <<buf, found>>
    BY <1>5, <2>3
  <2>5. Unanswered(h)'
    BY <1>3, <1>6, <2>4 DEF Unanswered
  <2> QED BY <2>5 DEF Discovers
<1>7. ASSUME NEW k \in 0 .. Len(q), Answered(h, k), ans[h] = AllLines(q),
             found[h] = <<>>
      PROVE  Discovers(h)'
  <2>1. Len(AllLines(q)) = Len(q) + 2 /\ Len(q) \in Nat /\ n \in 1 .. Len(q) + 2
    BY <1>1, <1>4, <1>7, AllLinesFacts
  <2>2. /\ Chunk(h, n) = SubSeq(AllLines(q), 1, n)
        /\ Rest(h, n) = SubSeq(AllLines(q), n + 1, Len(q) + 2)
    BY <1>7, <2>1 DEF Chunk, Rest
  <2>3. /\ Has(Chunk(h, n), "OK") /\ ~Has(Chunk(h, n), "ERROR")
        /\ \/ FirstTuple(Chunk(h, n)) = <<>>
           \/ n > 1 /\ Len(q) > 0 /\ FirstTuple(Chunk(h, n)) = <<q[1]>>
    BY <1>1, <2>1, <2>2, ChunkAll
  <2>4. Rest(h, n) = IF n <= Len(q) + 1 THEN LinesAfter(q, n - 1) ELSE <<>>
    BY <1>1, <2>1, <2>2, CutAll
  <2>5. Continue(h, Rest(h, n), FirstTuple(Chunk(h, n)), TRUE) /\ UNCHANGED found
    BY <1>2, <2>3, Zenon
  <2>6. ans'[h] = Rest(h, n) /\ buf'[h] = FirstTuple(Chunk(h, n)) /\ UNCHANGED st
    BY <1>0, <2>5
  <2>7. PICK m \in Nat :
          /\ m \in 0 .. Len(q) /\ (n > 1 /\ Len(q) > 0 => m > 0) /\ (~(n > 1) => m = 0)
          /\ n <= Len(q) + 1 => m = n - 1
    <3>1. CASE n <= Len(q) + 1
      <4> WITNESS n - 1 \in Nat
      <4> QED BY <2>1, <3>1
    <3>2. CASE n = Len(q) + 2
      <4> WITNESS Len(q) \in Nat
      <4> QED BY <2>1, <3>2
    <3> QED BY <2>1, <3>1, <3>2
  <2>8. ans'[h] = <<>> \/ ans'[h] = LinesAfter(atRead'[h], m)
    BY <1>3, <2>4, <2>6, <2>7
  <2>9. Embeds(found'[h], buf'[h], atRead'[h], m)
    <3>1. buf'[h] = <<>> \/ (m > 0 /\ buf'[h] = <<q[1]>>)
      BY <2>3, <2>6, <2>7
    <3>2. Embeds(<<>>, buf'[h], q, m)
      BY <2>7, <3>1, EmbedsNone
    <3> QED BY <1>3, <1>7, <2>5, <3>2
  <2>10. ~merged'[h] => AllTaken(h, m)'
    <3>1. ASSUME ~merged'[h] PROVE m = 0 /\ buf'[h] = <<>>
      BY <1>4, <2>3, <2>6, <2>7, <3>1
    <3>2. found'[h] = <<>>
      BY <1>7, <2>5
    <3> QED BY <3>1, <3>2 DEF AllTaken
  <2>11. cmds'[h] = <<>> /\ st'[h] = "recv"
    BY <1>3, <1>4, <1>7, <2>6 DEF Answered
  <2>12. Answered(h, m)'
    BY <2>8, <2>9, <2>10, <2>11 DEF Answered
  <2> QED BY <1>3, <2>7, <2>12 DEF Discovers
<1>8. ASSUME NEW k \in 0 .. Len(q), Answered(h, k), ans[h] = LinesAfter(q, k)
      PROVE  Discovers(h)'
  <2>1. /\ Len(LinesAfter(q, k)) = Len(q) - k + 1 /\ Len(q) \in Nat /\ n \in 1 .. Len(q) - k + 1
        /\ n \in Nat /\ k \in Nat
    <3>1. Len(LinesAfter(q, k)) = Len(q) - k + 1
      BY <1>1, AfterFacts
    <3> QED BY <1>1, <1>4, <1>8, <3>1
  <2>2. /\ Chunk(h, n) = SubSeq(LinesAfter(q, k), 1, n)
        /\ Rest(h, n) = SubSeq(LinesAfter(q, k), n + 1, Len(q) - k + 1)
    BY <1>8, <2>1 DEF Chunk, Rest
  <2>3. /\ ~Has(Chunk(h, n), "OK") /\ ~Has(Chunk(h, n), "ERROR")
        /\ k < Len(q) => FirstTuple(Chunk(h, n)) = <<q[k + 1]>>
        /\ k = Len(q) => FirstTuple(Chunk(h, n)) = <<>>
    BY <1>1, <2>1, <2>2, ChunkAfter
  <2>4. Rest(h, n) = IF n <= Len(q) - k THEN LinesAfter(q, k + n) ELSE <<>>
    BY <1>1, <2>1, <2>2, CutAfter
  <2>5. cmds'[h] = <<>> /\ Embeds(found[h], buf[h], q, k) /\ (~merged[h] => AllTaken(h, k))
    BY <1>3, <1>8 DEF Answered
  <2>6. ASSUME st'[h] \in {"done", "crashed"}, ans'[h] = <<>>, UNCHANGED <<buf, found>>,
               st'[h] = "done" => k = Len(q)
        PROVE  Discovers(h)'
    <3>1. ~merged'[h] => AllTaken(h, k)'
      BY <1>3, <1>4, <2>5, <2>6 DEF AllTaken
    <3>2. Embeds(found'[h], buf'[h], atRead'[h], k)
      BY <1>3, <2>5, <2>6
    <3>3. Answered(h, k)'
      BY <1>3, <2>5, <2>6, <3>1, <3>2 DEF Answered
    <3> QED BY <1>3, <3>3 DEF Discovers
  <2>7. CASE Chunk(h, n) = <<EmptyLine>> /\ Finish(h, "done", Rest(h, n)) /\ UNCHANGED found
    <3>1. st'[h] = "done" /\ ans'[h] = <<>> /\ UNCHANGED <<buf, found>>
      BY <1>5, <2>7
    <3>2. FirstTuple(Chunk(h, n)) = <<>>
      <4>1. <<EmptyLine>> \in Seq(Lines) /\ Len(<<EmptyLine>>) = 1 /\ <<EmptyLine>>[1] = EmptyLine
        <5>1. EmptyLine \in Lines
          BY LineFacts
        <5> QED BY <5>1
      <4>2. \A j \in 1 .. Len(<<EmptyLine>>) : <<EmptyLine>>[j].tuple = <<>>
        <5>1. EmptyLine.tuple = <<>>
          BY LineFacts
        <5>2. \A j \in 1 .. Len(<<EmptyLine>>) : <<EmptyLine>>[j] = EmptyLine
          BY <4>1
        <5> QED BY <5>1, <5>2
      <4>3. FirstTuple(<<EmptyLine>>) = <<>>
        BY <4>1, <4>2, FirstTupleFacts
      <4> QED BY <2>7, <4>3
    <3>3. k = Len(q)
      <4>1. \A x : <<x>> # <<>>
        BY ShortFacts
      <4>2. ~(k < Len(q))
        BY <2>3, <3>2, <4>1
      <4> QED BY <2>1, <4>2
    <3> QED BY <2>6, <3>1, <3>3
  <2>8. CASE Finish(h, "crashed", Rest(h, n)) /\ UNCHANGED found
    <3>1. st'[h] = "crashed" /\ ans'[h] = <<>> /\ UNCHANGED <<buf, found>>
      BY <1>5, <2>8
    <3> QED BY <2>6, <3>1
  <2>9. CASE /\ HopsTuple(h, n) # <<>>
             /\ found' = [found EXCEPT ![h] = Append(@, HopsTuple(h, n)[1])]
             /\ Continue(h, Rest(h, n), <<>>, FALSE)
    <3>1. /\ ans'[h] = Rest(h, n) /\ buf'[h] = <<>> /\ UNCHANGED st
          /\ found'[h] = Append(found[h], HopsTuple(h, n)[1]) /\ found[h] \in Seq(Tuples)
      <4>1. ans'[h] = Rest(h, n) /\ buf'[h] = <<>> /\ UNCHANGED st
        BY <1>0, <2>9
      <4>2. found'[h] = Append(found[h], HopsTuple(h, n)[1]) /\ found[h] \in Seq(Tuples)
        BY <1>1, <2>9
      <4> QED BY <4>1, <4>2
    <3>2. PICK m \in Nat :
            /\ m \in 0 .. Len(q) /\ k <= m /\ (k < Len(q) => k + 1 \in 1 .. m)
            /\ (n <= Len(q) - k => m = k + n) /\ (k < Len(q) /\ ~(n > 1) => m = k + 1)
      <4>1. CASE n <= Len(q) - k
        <5> WITNESS k + n \in Nat
        <5> QED BY <2>1, <4>1
      <4>2. CASE ~(n <= Len(q) - k)
        <5> WITNESS Len(q) \in Nat
        <5> QED BY <2>1, <4>2
      <4> QED BY <4>1, <4>2
    <3>3. ans'[h] = <<>> \/ ans'[h] = LinesAfter(atRead'[h], m)
      BY <1>3, <2>4, <3>1, <3>2
    <3>4. PICK f \in [DOMAIN found[h] -> 1 .. k] :
            /\ \A a \in DOMAIN found[h] : \A e \in DOMAIN found[h] : a < e => f[a] < f[e]
            /\ \A a \in DOMAIN found[h] : found[h][a] = q[f[a]]
            /\ buf[h] # <<>> => \E j \in 1 .. k : buf[h] = <<q[j]>> /\ \A a \in DOMAIN found[h] : f[a] < j
      BY <2>5 DEF Embeds
    <3>5. cmds'[h] = <<>> /\ st'[h] = "recv"
      BY <1>4, <2>5, <3>1
    <3>6. ASSUME NEW j \in 1 .. m, HopsTuple(h, n) = <<q[j]>>, \A a \in DOMAIN found[h] : f[a] < j,
                 ~merged'[h] => AllTaken(h, m)'
          PROVE  Discovers(h)'
      <4>1. HopsTuple(h, n)[1] = q[j] /\ q[j] \in Tuples /\ found'[h] = Append(found[h], q[j])
        BY <1>1, <3>1, <3>2, <3>6
      <4>2. Embeds(Append(found[h], q[j]), <<>>, q, m)
        BY <2>1, <3>1, <3>2, <3>4, <3>6, <4>1, EmbedsMore
      <4>3. Embeds(found'[h], buf'[h], atRead'[h], m)
        BY <1>3, <3>1, <4>1, <4>2
      <4>4. Answered(h, m)'
        BY <3>3, <3>5, <3>6, <4>3 DEF Answered
      <4> QED BY <1>3, <3>2, <4>4 DEF Discovers
    <3>7. CASE k < Len(q)
      <4>1. HopsTuple(h, n) = <<q[k + 1]>> /\ HopsTuple(h, n)[1] = q[k + 1]
        <5>1. FirstTuple(Chunk(h, n)) = <<q[k + 1]>> /\ FirstTuple(Chunk(h, n)) # <<>>
          BY <2>3, <3>7, ShortFacts
        <5> QED BY <5>1 DEF HopsTuple
      <4>2. \A a \in DOMAIN found[h] : f[a] < k + 1
        BY <2>1, <3>4
      <4>3. ASSUME ~merged'[h] PROVE AllTaken(h, m)'
        <5>1. ~merged[h] /\ ~(n > 1)
          BY <1>4, <4>3
        <5>2. m = k + 1 /\ Len(found[h]) = k /\ \A a \in 1 .. k : found[h][a] = q[a]
          BY <2>5, <3>2, <3>7, <5>1 DEF AllTaken
        <5>3. found'[h] = Append(found[h], q[k + 1])
          BY <3>1, <4>1
        <5>4. /\ Len(found'[h]) = k + 1 /\ found'[h][k + 1] = q[k + 1]
              /\ \A a \in 1 .. k : found'[h][a] = found[h][a]
          BY <3>1, <5>2, <5>3
        <5>5. \A a \in 1 .. k + 1 : found'[h][a] = q[a]
          <6>1. \A a \in 1 .. k + 1 : a \in 1 .. k \/ a = k + 1
            BY <2>1
          <6> QED BY <5>2, <5>4, <6>1
        <5> QED BY <1>3, <3>1, <5>2, <5>4, <5>5 DEF AllTaken
      <4> QED BY <3>2, <3>6, <3>7, <4>1, <4>2, <4>3
    <3>8. CASE k = Len(q)
      <4>1. HopsTuple(h, n) = buf[h] /\ buf[h] # <<>>
        BY <2>3, <2>9, <3>8 DEF HopsTuple
      <4>2. PICK j \in 1 .. k : buf[h] = <<q[j]>> /\ \A a \in DOMAIN found[h] : f[a] < j
        BY <3>4, <4>1
      <4>3. merged'[h]
        BY <1>4, <2>5, <4>1 DEF AllTaken
      <4>4. j \in 1 .. m
        BY <2>1, <3>2
      <4> QED BY <3>6, <4>1, <4>2, <4>3, <4>4
    <3> QED BY <2>1, <3>7, <3>8
  <2> QED BY <1>2, <2>3, <2>7, <2>8, <2>9
<1> QED BY <1>4, <1>6, <1>7, <1>8 DEF Discovers, Answered

\* Every step keeps the node query within its answer.
LEMMA HopsNext ==
    ASSUME TypeOK, ConnectionInv, CommandInv, HopsInv, [Next]_vars
    PROVE  HopsInv'
<1> SUFFICES ASSUME NEW h \in ByRole("hops") PROVE Discovers(h)'
  BY DEF HopsInv, ByRole
<1>1. Discovers(h) /\ h \in Clients /\ Role[h] = "hops"
  BY DEF HopsInv, ByRole
<1>2. ASSUME NEW c \in Clients, Executes(c) PROVE Discovers(h)'
  <2>1. CASE c = h
    BY <1>1, <1>2, <2>1, ExecutesHops
  <2>2. CASE c # h
    <3>1. h \in Clients \ {c} /\ atRead'[h] = atRead[h]
      BY <1>1, <1>2, <2>2, ExecutesFacts
    <3>2. PICK ls : Println(c, ls)
      BY <1>2, ExecutesFacts
    <3>3. cmds'[h] = cmds[h] /\ ans'[h] = ans[h] /\ UNCHANGED <<st, found, buf, merged>>
      BY <3>1, <3>2, PrintlnFacts
    <3> QED BY <1>1, <3>1, <3>3, FrameHops
  <2> QED BY <2>1, <2>2
<1>3. ASSUME NEW c \in Clients, Client(c) PROVE Discovers(h)'
  <2>1. CASE c # h
    <3>1. /\ st'[h] = st[h] /\ ans'[h] = ans[h] /\ found'[h] = found[h] /\ buf'[h] = buf[h]
          /\ merged'[h] = merged[h] /\ cmds'[h] = cmds[h]
      BY <1>1, <1>3, <2>1, ClientFacts
    <3>2. UNCHANGED atRead
      BY <1>3, ClientStore
    <3> QED BY <1>1, <3>1, <3>2, FrameHops
  <2>2. CASE c = h
    <3>1. Connect(h) \/ RecvHops(h) \/ RecvGone(h)
      BY <1>1, <1>3, <2>2 DEF Client, RecvConfirmation, RecvDsts
    <3> QED BY <1>1, <3>1, StartsHops, ReadsHops
  <2> QED BY <2>1, <2>2
<1>4. ASSUME NEW c \in Clients, ReadThrows(c) PROVE Discovers(h)'
  <2>1. /\ UNCHANGED <<st, ans, atRead, found, buf, merged>>
        /\ cmds'[h] = <<>> \/ cmds'[h] = cmds[h]
    BY <1>1, <1>4, ReadThrowsFacts
  <2> QED BY <1>1, <2>1, FrameHops
<1>5. CASE Accept \/ (\E c \in Clients : EndOfStream(c)) \/ UNCHANGED vars
  <2>1. UNCHANGED <<st, ans, atRead, found, buf, merged, cmds>>
    BY <1>5, ServeFacts
  <2> QED BY <1>1, <2>1, FrameHops
<1> QED BY <1>2, <1>3, <1>4, <1>5, NextCases

-----------------------------------------------------------------------------
(* The results.                                                            *)

\* The inductive invariant holds.
LEMMA AdapterAlways == Spec => []AdapterInv
<1>1. Init => AdapterInv
  BY TypeInit, ConnectionInit, SpaceInit, DstsInit, HopsInit DEF AdapterInv
<1>2. AdapterInv /\ [Next]_vars => AdapterInv'
  <2> SUFFICES ASSUME TypeOK, ConnectionInv, CommandInv, DstsLines, SpaceInv, CopiesInv, WholeInv,
                      DstsInv, HopsInv, [Next]_vars
               PROVE  AdapterInv'
    BY DEF AdapterInv
  <2>1. TypeOK' /\ ConnectionInv' /\ CommandInv' /\ DstsLines'
    BY TypeNext, ConnectionNext, CommandNext, LinesNext
  <2>2. SpaceInv' /\ WholeInv'
    BY SpaceNext, WholeNext DEF CopiesInv
  <2>3. CopiesInv'
    BY NodeCopiesNext, OtherCopiesNext, OwnCopiesNext DEF CopiesInv
  <2>4. DstsInv' /\ HopsInv'
    BY DstsNext, HopsNext
  <2> QED BY <2>1, <2>2, <2>3, <2>4 DEF AdapterInv
<1> QED BY <1>1, <1>2, PTL DEF Spec

\* The adapter's and the clients' state stays within its types, for any set of
\* registrations and queries (DepSpaceAdapter.run(), register_dep.c).
THEOREM AdapterTypes == Spec => []TypeOK
<1>1. AdapterInv => TypeOK
  BY DEF AdapterInv
<1> QED BY <1>1, AdapterAlways, PTL

\* A receiver that registers again leaves no duplicate but for operations the
\* tuple space refused, and a node is stored at most as often as it registered
\* (register_to_manager's two inp before its two out; registerDep's single out).
THEOREM RegistrationIdempotentAlways == Spec => []RegistrationIdempotent
<1>1. ASSUME AdapterInv PROVE RegistrationIdempotent
  <2> SUFFICES ASSUME NEW t \in ToSet(space)
               PROVE  Copies(t) <= IF t.kind = "node"
                                   THEN Cardinality({c \in ByRole("node") : NodeTuple(c) = t})
                                   ELSE 1 + exceptions
    BY DEF RegistrationIdempotent
  <2>1. TypeOK /\ NodeCopies /\ OtherCopies
    BY <1>1 DEF AdapterInv, CopiesInv
  <2>2. space \in Seq(Tuples) /\ t \in Tuples
    BY <2>1, TypeParts DEF ToSet
  <2>3. CASE t.kind # "node"
    BY <2>1, <2>2, <2>3 DEF OtherCopies
  <2>4. CASE t.kind = "node"
    <3> DEFINE W == {c \in ByRole("node") : NodeTuple(c) = t}
    <3>1. Writers(t) \subseteq W /\ W \subseteq Clients
      BY DEF Writers, ByRole
    <3>2. IsFiniteSet(W)
      BY <3>1, ClientsAssumption, FS_Subset
    <3> HIDE DEF W
    <3>3. /\ Cardinality(Writers(t)) <= Cardinality(W) /\ Cardinality(W) \in Nat
          /\ Cardinality(Writers(t)) \in Nat
      BY <3>1, <3>2, FS_Subset, FS_CardinalityType
    <3>4. Copies(t) <= Cardinality(Writers(t)) /\ Copies(t) \in Nat
      <4>1. Copies(t) = Count(space, t)
        BY DEF Copies, Count
      <4>2. Count(space, t) \in Nat
        BY <2>2, CountTypes
      <4> QED BY <2>1, <2>2, <2>4, <4>1, <4>2 DEF NodeCopies
    <3>5. Copies(t) <= Cardinality(W)
      BY <3>3, <3>4
    <3> QED BY <2>4, <3>5 DEF W
  <2> QED BY <2>3, <2>4
<1> QED BY <1>1, AdapterAlways, PTL

\* The sender never finds a device tuple without its list, and the addresses it
\* gets are those of one registration, when the tuple space refuses nothing
\* (get_receiver_info_from_manager's two commands on one connection).
THEOREM NoTornRegistrationAlways == Spec => []NoTornRegistration
<1>1. AdapterInv => NoTornRegistration
  <2> SUFFICES ASSUME DstsInv, exceptions = 0, NEW c \in ByRole("dsts")
               PROVE  /\ ~(st[c] = "crashed" /\ ask[c] = 2)
                      /\ st[c] = "done" => \E r \in ByRole("receiver") : found[c] = <<ListTuple(r)>>
    BY DEF AdapterInv, NoTornRegistration
  <2>1. Asks(c)
    BY DEF DstsInv
  <2> QED BY <2>1 DEF Asks
<1> QED BY <1>1, AdapterAlways, PTL

\* However the answer is cut into recv()s, the overlay nodes the sender ends up
\* with are nodes of the answer, each at most once and in order, and all of them
\* if each line came alone (get_overlay_nodes_from_manager's loop).
THEOREM DiscoverySoundAlways == Spec => []DiscoverySound
<1>1. ASSUME AdapterInv PROVE DiscoverySound
  <2> SUFFICES ASSUME NEW h \in ByRole("hops")
               PROVE  /\ Within(found[h], atRead[h])
                      /\ st[h] = "done" /\ ~merged[h] => found[h] = atRead[h]
    BY DEF DiscoverySound
  <2>1. /\ TypeOK /\ Discovers(h)
    BY <1>1 DEF AdapterInv, HopsInv
  <2>2. /\ found[h] \in Seq(Tuples) /\ atRead[h] \in Seq(Tuples) /\ Len(atRead[h]) \in Nat
        /\ DOMAIN atRead[h] = 1 .. Len(atRead[h])
    BY <2>1, TypeParts DEF ByRole
  <2>3. ASSUME NEW k \in 0 .. Len(atRead[h]), Embeds(found[h], buf[h], atRead[h], k)
        PROVE  Within(found[h], atRead[h])
    <3>1. PICK f \in [DOMAIN found[h] -> 1 .. k] :
            /\ \A a \in DOMAIN found[h] : \A e \in DOMAIN found[h] : a < e => f[a] < f[e]
            /\ \A a \in DOMAIN found[h] : found[h][a] = atRead[h][f[a]]
      BY <2>3 DEF Embeds
    <3>2. f \in [DOMAIN found[h] -> DOMAIN atRead[h]]
      BY <2>2
    <3> QED BY <3>1, <3>2 DEF Within
  <2>4. CASE Unanswered(h)
    <3>1. found[h] = <<>> /\ buf[h] = <<>> /\ st[h] # "done"
      BY <2>4 DEF Unanswered
    <3>2. 0 \in 0 .. Len(atRead[h]) /\ 0 \in Nat
      BY <2>2
    <3>3. Embeds(<<>>, <<>>, atRead[h], 0)
      BY <3>2, EmbedsNone
    <3> QED BY <2>3, <3>1, <3>2, <3>3
  <2>5. ASSUME NEW k \in 0 .. Len(atRead[h]), Answered(h, k)
        PROVE  /\ Within(found[h], atRead[h])
               /\ st[h] = "done" /\ ~merged[h] => found[h] = atRead[h]
    <3>1. Within(found[h], atRead[h])
      BY <2>3, <2>5 DEF Answered
    <3>2. ASSUME st[h] = "done", ~merged[h] PROVE found[h] = atRead[h]
      <4>1. /\ k = Len(atRead[h]) /\ Len(found[h]) = k
            /\ \A a \in 1 .. k : found[h][a] = atRead[h][a]
        BY <2>5, <3>2 DEF Answered, AllTaken
      <4> QED BY <2>2, <4>1, SameSeq
    <3> QED BY <3>1, <3>2
  <2> QED BY <2>1, <2>4, <2>5 DEF Discovers
<1> QED BY <1>1, AdapterAlways, PTL
=============================================================================
