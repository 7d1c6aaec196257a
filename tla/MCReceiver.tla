------------------------------- MODULE MCReceiver -------------------------------
(* Instances of Receiver for TLC. *)
EXTENDS Receiver

CONSTANTS f, g   \* a name, and a name in a directory the receiver lacks

\* Files that one sendfile() transfers, whose size does not fit an int, and that
\* cannot be created.
MCFiles == {<<f, 2>>, <<f, 9>>, <<g, 0>>}

\* Enough for two transfers at once but not for a third, and for two connections.
MCMaxFds == [m \in {"file", "echo"} |-> IF m = "file" THEN 4 ELSE 2]
=============================================================================
