------------------------- MODULE MCSenderLifecycle -------------------------
(* Instances of SenderLifecycle for TLC.                                   *)
EXTENDS SenderLifecycle
=============================================================================
