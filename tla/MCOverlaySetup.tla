--------------------------- MODULE MCOverlaySetup ---------------------------
(* Instances of OverlaySetup for TLC: two senders, two nodes, two flows.   *)
EXTENDS OverlaySetup

CONSTANTS s1, s2, n1, n2

\* Interface i of sender s, as the host and as a STUN server see it.
MCLocal  == [s \in Senders |-> [i \in SrcIndex |-> <<"local", s, i>>]]
MCPublic == [s \in Senders |-> [i \in SrcIndex |-> <<"public", s, i>>]]
MCDsts   == [j \in DstIndex |-> <<"receiver", j>>]
MCHops2  == [h \in HopIndex |-> IF h = 0 THEN n1 ELSE n2]
MCHops1  == [h \in HopIndex |-> n1]
=============================================================================
