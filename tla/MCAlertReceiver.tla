---------------------------- MODULE MCAlertReceiver ----------------------------
(* Instances of AlertReceiver for TLC: two relays, one of them on two paths. *)
EXTENDS AlertReceiver

CONSTANTS x, y, o   \* two relays, an end point

MCPaths  == <<[relay |-> x], [relay |-> y], [relay |-> x]>>
\* From the sender to a relay, from a relay to the receiver, between relays.
MCAlerts == [source : {o}, destination : {x, y}] \cup [source : {x, y}, destination : {o}]
              \cup {[source |-> x, destination |-> y]}
=============================================================================
