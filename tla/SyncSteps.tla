----------------------------- MODULE SyncSteps -----------------------------
(***************************************************************************)
(* The order of the steps in a function of the synchronous API: conditions *)
(* on its code alone, one item at a time, that make the properties of      *)
(* SyncCalls true whatever requests fail and however often it is repeated. *)
(***************************************************************************)
EXTENDS SyncCalls

Sends(s, i) == s.kind = "exchange" /\ s.unless = {} /\ i \in s.out \ s.clears
Gets(s, i)  == s.kind = "exchange" /\ s.unless = {} /\ i \in s.in
Arguments(s, i) == s.kind = "assign" /\ s.unless = {} /\ s.token = "arg" /\ i \in s.in

\* A step that does not part structure and device in the item, one that leaves
\* the field of the structure as it is, and one that also leaves the device with it.
KeepsEqual(s, i) == IF s.kind = "assign" THEN i \notin s.in
                    ELSE i \notin (s.zeroes \ (s.out \cup s.in)) \cup s.clears
KeepsField(s, i) == IF s.kind = "assign" THEN i \notin s.in
                    ELSE i \notin (s.in \ s.out) \cup s.clears
KeepsSent(s, i)  == KeepsField(s, i) /\ i \notin s.zeroes \ s.out
\* One that leaves the item alone at the device, and in the structure but by reading.
OnlyGets(s, i) == IF s.kind = "assign" THEN i \notin s.in
                  ELSE i \notin s.out \cup s.zeroes \cup s.clears

After(k, steps) == {m \in DOMAIN steps : m > k}

\* The kinds of steps, which return no PK_OK when they fail.
WellFormed(s) ==
    /\ s.kind \in {"assign", "exchange", "return"}
    /\ s.result \in Results \ {"PK_OK"} \/ (s.kind = "exchange" /\ s.onFail = "skip" /\ ~s.silent)
    /\ s.refusal \in Results \ {"PK_OK"}

\* Exchange k of the item comes after all that parts structure and device.
SettlesAt(steps, i, k) ==
    /\ Sends(steps[k], i) \/ Gets(steps[k], i)
    /\ \A m \in After(k, steps) : KeepsEqual(steps[m], i)

\* Exchange k sets the item to zero, and none sends it.
ErasesAt(steps, i, k) ==
    /\ steps[k].kind = "exchange" /\ steps[k].unless = {} /\ i \in steps[k].zeroes
    /\ \A m \in DOMAIN steps : i \notin steps[m].out

\* An item that is sent only while flag f is set: the flag is touched only
\* after step k has done that, and nothing else is done with the item.
SentByFlag(steps, i, f, k) ==
    /\ \A m \in DOMAIN steps :
        /\ i \notin steps[m].in \cup steps[m].zeroes \cup steps[m].clears \cup steps[m].drops
        /\ i \in steps[m].out => steps[m].unless = {f}
    /\ steps[k].kind = "exchange" /\ i \in steps[k].out
    /\ \A m \in DOMAIN steps : f \in steps[m].in => m > k

\* The argument is taken at j, then sent at k, and nothing else is stored or
\* sent after it.
DeliversAt(steps, i, j, k) ==
    /\ j < k /\ Arguments(steps[j], i) /\ Sends(steps[k], i)
    /\ \A m \in After(j, steps) : KeepsField(steps[m], i)
    /\ \A m \in After(k, steps) : KeepsSent(steps[m], i)

\* The item is read at k, and left alone otherwise ...
ReadsAt(steps, i, k) ==
    /\ Gets(steps[k], i) /\ ~steps[k].partial
    /\ \A m \in DOMAIN steps : OnlyGets(steps[m], i)

\* ... sent as the structure has it, in a request that is not passed over.
WritesAt(steps, i, k) ==
    /\ Sends(steps[k], i) /\ ~steps[k].nested /\ ~steps[k].partial
    /\ steps[k].onFail = "return"
    /\ \A m \in DOMAIN steps : KeepsField(steps[m], i)
    /\ \A m \in After(k, steps) : KeepsSent(steps[m], i)

Flags(steps) == UNION {steps[k].unless : k \in DOMAIN steps}

InOrder(s, d) ==
    LET steps == [c \in DOMAIN s.calls |-> Table(s.group, d)[s.calls[c]]] IN
    /\ \A c \in DOMAIN steps :
        /\ steps[c] \in Seq(Range(steps[c]))
        /\ \A m \in DOMAIN steps[c] :
            /\ WellFormed(steps[c][m])
            /\ steps[c][m].onFail = "skip" => s.calls[1] \in BestEffort
        /\ \A i \in (ItemsOut(steps[c]) \cup ItemsIn(steps[c])) \cap Erased :
            \E k \in DOMAIN steps[c] : ErasesAt(steps[c], i, k)
        /\ \A i \in (ItemsOut(steps[c]) \cup ItemsIn(steps[c])) \ Erased :
            \E k \in DOMAIN steps[c] :
                \/ SettlesAt(steps[c], i, k)
                \/ s.kind = "retry" /\ \E f \in Flags(steps[c]) : SentByFlag(steps[c], i, f, k)
        /\ \A i \in ItemsTaken(steps[c]) \cap ItemsOut(steps[c]) :
            s.calls[c] \in PWMFromPins \/ \E j, k \in DOMAIN steps[c] : DeliversAt(steps[c], i, j, k)
    /\ s.kind = "rmw" =>
        \A i \in ItemsOut(steps[2]) \ (NeverRead(d) \cup Erased) :
            /\ \E k \in DOMAIN steps[1] : ReadsAt(steps[1], i, k)
            /\ \E k \in DOMAIN steps[2] : WritesAt(steps[2], i, k)
    /\ s.kind = "between" =>
        \A i \in ItemsOut(steps[2]) \ (ItemsTaken(steps[2]) \cup ReadByOthers \cup Erased) :
            /\ \A m \in DOMAIN steps[1] : KeepsField(steps[1][m], i)
            /\ \E k \in DOMAIN steps[2] : WritesAt(steps[2], i, k)

\* Every function takes its arguments before it sends them, reads before it
\* changes what it read, and ends on an exchange of all that it is about.
FunctionsInOrder ==
    (pc = "ready" /\ script.kind = "none") =>
        \A group \in Groups : \A s \in ScriptsOf(group, Table(group, Info)) : InOrder(s, Info)
=============================================================================
