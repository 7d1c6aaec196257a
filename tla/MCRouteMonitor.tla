------------------------------ MODULE MCRouteMonitor ------------------------------
(* Instances of RouteMonitor for TLC: a full trace, a blind one, an unfinished one. *)
EXTENDS RouteMonitor

MCTraces == { [nones |-> 0, hops |-> 3, complete |-> TRUE],
              [nones |-> 2, hops |-> 3, complete |-> FALSE],
              [nones |-> 3, hops |-> 3, complete |-> FALSE] }
=============================================================================
