--------------------------- MODULE AsyncRequests ---------------------------
(***************************************************************************)
(* The steps of the asynchronous functions, in the vocabulary of Requests: *)
(* an exchange is CreateRequestAsync() or CreateRequestAsyncWithPayload()  *)
(* followed by SendRequestAsync(); its in-fields are what the parser       *)
(* stores when the answer is dispatched.  A function is Skipping() where   *)
(* its code ignores the return codes.                                      *)
(***************************************************************************)
EXTENDS Requests

\* The fields reach the device as other bytes than the ones it looks for: the
\* data are handed over as target_ptr, or put where another field belongs.
Garbled(fields, steps) ==
    [i \in DOMAIN steps |->
        [steps[i] EXCEPT !.garbles = {item \in steps[i].out : item[1] \in fields}]]
SetGarbled(fields) == Garbled(fields, Set(fields))

\* The fields are put together by undefined behaviour.
Unsure(fields, steps) ==
    [i \in DOMAIN steps |->
        [steps[i] EXCEPT !.unsure = {item \in steps[i].out : item[1] \in fields}]]

Misreading(fields, steps) ==
    [i \in DOMAIN steps |->
        [steps[i] EXCEPT !.misreads = {item \in steps[i].in : item[1] \in fields}]]

Needing(fields, steps) == Changed(steps, "needs", Items(fields, 0))
AtCurrentAxis(steps)   == Changed(steps, "current", TRUE)

\* PEv2.param1 names an axis.
SelectAxis(axis) == << [Step("select") EXCEPT !.in = Items({"param1"}, axis)] >>

\* The function returns PK_OK when the fields are as its static copy has them,
\* and updates the copy otherwise - before the request is made.
ReturnIfUnchanged(fields, copy) ==
    << [Step("compare") EXCEPT !.out = Items(fields, 0), !.in = Items({copy}, 0)] >>

\* The items that the asynchronous functions carry wrongly, or read wrongly.
Misencoded(steps) == UNION {steps[i].garbles \cup steps[i].unsure : i \in DOMAIN steps}
Misread(steps)    == UNION {steps[i].misreads : i \in DOMAIN steps}
=============================================================================
