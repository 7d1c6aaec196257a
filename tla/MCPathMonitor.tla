------------------------------ MODULE MCPathMonitor ------------------------------
(* Instances of PathMonitor for TLC: a route that changes in its middle. *)
EXTENDS PathMonitor

CONSTANTS s, m1, m2, d   \* source's AS, two transit ASes, destination's AS

MCASes   == {s, m1, m2, d}
\* The route by either transit AS, one with no answers but the first hop's.
MCRoutes == {{s, m1, d}, {s, m2, d}, {s}}
=============================================================================
