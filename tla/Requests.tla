------------------------------ MODULE Requests ------------------------------
(***************************************************************************)
(* What a function of the synchronous API does, as a sequence of steps.    *)
(* Every such function checks its device and its arguments, then makes one *)
(* SendRequest() after another: each carries fields of the sPoKeysDevice   *)
(* structure (or arguments) to the device and stores fields of the answer. *)
(*                                                                         *)
(* An item is a field and the number of the part of it that one request    *)
(* carries: <<"PinFunction", 0>>.  A function of the API is an operator    *)
(* that yields its steps, in the order of its code.                        *)
(***************************************************************************)
EXTENDS Integers, Sequences, SequencesExt

Results == {"PK_OK", "PK_ERR_GENERIC", "PK_ERR_TRANSFER", "PK_ERR_PARAMETER",
            "PK_ERR_NOT_SUPPORTED", "PK_ERR_NOT_CONNECTED"}

Items(fields, part) == fields \X {part}

\* The kinds of steps share one record.
\*   out, in    what an exchange carries to the device and stores of the answer
\*   onFail     what SendRequest() failing does: "return" the result, or "skip"
\*              the answer
\*   zeroes     items the exchange sets to zero at the device
\*   clears     items the structure holds as zero once the answer is stored
\*   nested     the step is passed over with the one before it
\*   refusable  the answer has a status that makes the function return refusal
\*   partial    the device may take less than the exchange carries, and say so
\*              in an answer the function does not act on
\*   silent     no answer is waited for, and sending counts as a failure
\*   drops      items the structure holds as zero after such a refusal
\*   unless     the step is left out when this item is "clear"
\* and, in the asynchronous functions alone,
\*   garbles    items of out that the device does not get as they are
\*   unsure     items of out that it may or may not get as they are
\*   misreads   items of in that are not taken from where the answer has them
\*   needs      items the parser depends on
\*   current    the answer is stored for the axis PEv2.param1 names by then
Step(kind) ==
    [kind |-> kind, out |-> {}, in |-> {}, onFail |-> "return", refusable |-> FALSE,
     refusal |-> "PK_ERR_GENERIC", partial |-> FALSE, silent |-> FALSE, zeroes |-> {}, clears |-> {},
     nested |-> FALSE, drops |-> {}, unless |-> {}, token |-> "none",
     result |-> "PK_ERR_TRANSFER",
     garbles |-> {}, unsure |-> {}, misreads |-> {}, needs |-> {}, current |-> FALSE]

\* CreateRequest(), the payload, SendRequest(), the answer.
ExchangeItems(out, in) == << [Step("exchange") EXCEPT !.out = out, !.in = in] >>
ExchangePart(part, out, in) ==
    ExchangeItems(Items(out, part), Items(in, part))
Exchange(out, in) == ExchangePart(0, out, in)
Get(in)  == Exchange({}, in)
Set(out) == Exchange(out, {})
Command  == Exchange({}, {})

\* One exchange for each part.
EachPart(parts, out, in) ==
    FlattenSeq([k \in 1..parts |-> ExchangePart(k, out, in)])

Changed(steps, field, value) ==
    [i \in DOMAIN steps |-> [steps[i] EXCEPT ![field] = value]]
Skipping(steps)  == Changed(steps, "onFail", "skip")
Refusable(steps) == Changed(steps, "refusable", TRUE)
RefusedWith(error, steps) == Changed(Refusable(steps), "refusal", error)
Partial(steps)   == Changed(steps, "partial", TRUE)
Silent(steps)    == Changed(steps, "silent", TRUE)
Dropping(fields, steps) == Changed(Refusable(steps), "drops", Items(fields, 0))
Nested(steps)    == Changed(steps, "nested", TRUE)
Zeroing(items, steps)  == Changed(steps, "zeroes", items)
Clearing(items, steps) == Changed(steps, "clears", items)
FailingWith(error, steps) == Changed(steps, "result", error)

\* The function returns, with what follows never run.
Return_(result) == << [Step("return") EXCEPT !.result = result] >>
Require(condition, error) == IF condition THEN <<>> ELSE Return_(error)
When(condition, steps) == IF condition THEN steps ELSE <<>>

\* The function writes fields of the device structure: "arg" from its
\* arguments, "pin" from HAL pins, "clear" with zero.
Assign(fields, token) ==
    << [Step("assign") EXCEPT !.in = Items(fields, 0), !.token = token] >>
Takes(arguments) == Assign(arguments, "arg")
TakesParts(arguments, parts) ==
    << [Step("assign") EXCEPT !.in = arguments \X parts, !.token = "arg"] >>
SetArguments(arguments) == Takes(arguments) \o Set(arguments)
\* A slip for SendFlagged: the flag is cleared before the part is sent.
SendFlagged_ClearFirst(part, out, flag) ==
    << [Step("assign") EXCEPT !.in = Items({flag}, part), !.unless = Items({flag}, part),
                              !.token = "clear"],
       [Step("exchange") EXCEPT !.out = Items(out, part), !.unless = Items({flag}, part)] >>

\* A part that is only sent while its flag is set, and clears the flag then.
SendFlagged(part, out, flag) ==
    << [Step("exchange") EXCEPT !.out = Items(out, part), !.unless = Items({flag}, part)],
       [Step("assign") EXCEPT !.in = Items({flag}, part), !.unless = Items({flag}, part),
                              !.token = "clear"] >>

\* The items a function reads from the device, and those it carries to it.
ItemsIn(steps)  == UNION {steps[i].in : i \in {j \in DOMAIN steps : steps[j].kind = "exchange"}}
ItemsOut(steps) == UNION {steps[i].out \cup steps[i].zeroes : i \in DOMAIN steps}
ItemsTaken(steps) == UNION {steps[i].in : i \in {j \in DOMAIN steps : steps[j].token = "arg"}}
AllItems(steps) ==
    ItemsOut(steps) \cup UNION {steps[i].in \cup steps[i].unless \cup steps[i].drops
                                 \cup steps[i].clears : i \in DOMAIN steps}
=============================================================================
