--------------------------- MODULE MCSendRequest ---------------------------
(* A small instance of SendRequest for TLC. *)
EXTENDS SendRequest

\* Answers of the asynchronous layer, with ids that this one uses too.
AsyncAnswers == {[id |-> 1, number |-> 0, intact |-> TRUE],
                 [id |-> 3, number |-> 0, intact |-> TRUE]}
=============================================================================
