-------------------------- MODULE MCPoKeysLibAsync --------------------------
(* Small instances of PoKeysLibAsync for TLC. *)
EXTENDS MailboxOutcomes

CONSTANTS readSN, getIO

\* Nothing but answers to the requests of the mailbox on the socket.
NoStrays == {}

\* A late answer to the synchronous layer, which shares the socket and counts
\* its own ids, and a datagram that does not start with 0xAA.
LateSyncAnswers ==
    {[header |-> TRUE,  id |-> 1, cmd |-> getIO,  serial |-> 0],
     [header |-> FALSE, id |-> 1, cmd |-> readSN, serial |-> 0]}

=============================================================================
