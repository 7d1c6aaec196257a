------------------------------- MODULE MCFlowPlan -------------------------------
(* Instances of FlowPlan for TLC: up to three nodes, a host on a small network. *)
EXTENDS FlowPlan

CONSTANTS a, b, c

MCNodes      == {a, b, c}
\* In the last, node a registered again when it was restarted.
MCLists      == {<<>>, <<a>>, <<a, b>>, <<a, b, c>>, <<a, a, b>>}
\* A host with one wired interface, and one with a wireless one.
MCHosts      == { <<[octet |-> 1, e |-> w, m |-> FALSE]>> : w \in BOOLEAN }
=============================================================================
