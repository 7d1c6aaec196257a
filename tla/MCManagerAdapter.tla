--------------------------- MODULE MCManagerAdapter ---------------------------
(* Instances of ManagerAdapter for TLC: overlay nodes a1 and a2, receiver    *)
(* registrations r1 and r2 of one host, the sender's queries h and d.        *)
EXTENDS ManagerAdapter

CONSTANTS a1, a2, r1, r2, h, d

MCRole == [c \in Clients |->
    CASE c \in {a1, a2} -> "node" [] c \in {r1, r2} -> "receiver"
      [] c = h -> "hops" [] OTHER -> "dsts"]

\* Node addresses 1 and 2, the receiver's primary address 3.
MCAddr == [c \in Clients |-> CASE c = a1 -> 1 [] c = a2 -> 2 [] OTHER -> 3]

\* The receiver comes back with the same two interfaces.
MCNum  == [c \in Clients |-> 2]
MCList == [c \in Clients |-> 1]

\* A host registers again once its earlier process is over; the sender asks for
\* the receiver when it has the nodes.
MCAfter == [c \in Clients |-> Clients \cap CASE c = r2 -> {r1} [] c = d -> {h}
                                             [] OTHER -> {}]
=============================================================================
