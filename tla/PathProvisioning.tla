-------------------------- MODULE PathProvisioning --------------------------
(***************************************************************************)
(* What MACHETE's set-up and tear-down promise to an application, said     *)
(* without sockets, nodes or echoes: a session is usable only while every  *)
(* one of its flows is installed in the overlay, and it ends with none.    *)
(* The promise is off from the moment a process of the overlay is killed:  *)
(* the set-up ignores every error.  OverlaySetup implements this.          *)
(***************************************************************************)
EXTENDS Integers

CONSTANTS Sessions, Paths

VARIABLES phase,     \* phase[s]: "setup", "up", "teardown", "done" or "off"
          installed  \* installed[s]: the paths of s present in the overlay

provVars == <<phase, installed>>

ProvInit == /\ phase = [s \in Sessions |-> "setup"]
            /\ installed = [s \in Sessions |-> {}]

Install(s) ==
    /\ phase[s] = "setup"
    /\ \E p \in Paths \ installed[s] :
          installed' = [installed EXCEPT ![s] = @ \cup {p}]
    /\ UNCHANGED phase

Establish(s) ==
    /\ phase[s] = "setup" /\ installed[s] = Paths
    /\ phase' = [phase EXCEPT ![s] = "up"]
    /\ UNCHANGED installed

Close(s) ==
    /\ phase[s] = "up"
    /\ phase' = [phase EXCEPT ![s] = "teardown"]
    /\ UNCHANGED installed

Uninstall(s) ==
    /\ phase[s] = "teardown"
    /\ \E p \in installed[s] : installed' = [installed EXCEPT ![s] = @ \ {p}]
    /\ UNCHANGED phase

Finish(s) ==
    /\ phase[s] = "teardown" /\ installed[s] = {}
    /\ phase' = [phase EXCEPT ![s] = "done"]
    /\ UNCHANGED installed

\* A process is killed; from then on a path may come and go.
Off == /\ phase' = [s \in Sessions |-> "off"]
       /\ installed' \in [Sessions -> SUBSET Paths]

Progress(s) == Install(s) \/ Establish(s) \/ Uninstall(s) \/ Finish(s)

ProvNext == Off \/ \E s \in Sessions : Progress(s) \/ Close(s)

\* Once begun, a set-up and a tear-down complete or are called off; an
\* application may keep its session for ever.
ProvSpec == /\ ProvInit /\ [][ProvNext]_provVars
            /\ \A s \in Sessions : WF_provVars(Progress(s))
=============================================================================
