------------------------- MODULE MCPoKeysAsyncComp --------------------------
(* Small instances of PoKeysAsyncComp for TLC. *)
EXTENDS PoKeysAsyncComp

CONSTANTS readSN, getIO

NoStrays == {}

\* A late answer to the synchronous layer, which shares the socket.
LateSyncAnswer == {[header |-> TRUE, id |-> 5, cmd |-> getIO, serial |-> 0]}

=============================================================================
