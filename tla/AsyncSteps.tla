----------------------------- MODULE AsyncSteps -----------------------------
(***************************************************************************)
(* The order of the steps in a function of the asynchronous API, and of    *)
(* the functions in a script: conditions on their code alone, one item at  *)
(* a time, that make the properties of AsyncCalls true however many        *)
(* requests are lost, sent again or answered late.                         *)
(***************************************************************************)
EXTENDS AsyncCalls

Spoiled(steps) == Misencoded(steps) \cup Misread(steps)
Exchanges(s)   == s.kind = "exchange"
Carries(s, i)  == Exchanges(s) /\ i \in s.out \cup s.zeroes
Stores(s, i)   == Exchanges(s) /\ i \in s.in
Assigns(s, i)  == s.kind = "assign" /\ i \in s.in
\* The parser may store something in the item, for whichever axis.
Touches(s, i)  ==
    Exchanges(s) /\ (i \in s.in \cup s.clears \/ (s.current /\ \E x \in s.in : x[1] = i[1]))
\* No step writes the item of the structure but by storing an answer.
Untouched(s, i) ==
    /\ s.kind \in {"assign", "compare"} => i \notin s.in
    /\ s.kind = "select" => i[1] # "param1"

WellFormed(s) ==
    /\ s.kind \in {"assign", "select", "return", "compare", "exchange"}
    /\ s.result \in Results \ {"PK_OK"}
    /\ s.kind \notin {"exchange", "compare"} => s.out = {}
    /\ s.kind \in {"select", "compare"} => s.in # {}
    /\ ~Exchanges(s) => s.zeroes = {}

From(k, steps)  == {m \in DOMAIN steps : m >= k}
After(k, steps) == {m \in DOMAIN steps : m > k}

\* Exchange k carries the item as the structure has it; neither the structure nor
\* the request is given anything else from there on.
SettlesAt(steps, i, k) ==
    /\ Exchanges(steps[k]) /\ i \in steps[k].out /\ steps[k].unless = {}
    /\ \A m \in From(k, steps) : Untouched(steps[m], i) /\ i \notin steps[m].zeroes

\* An item that is sent only while flag f is set: the flag is touched only after
\* step k has done that, and nothing else is done with the item.
SentByFlag(steps, i, f, k) ==
    /\ \A m \in DOMAIN steps :
        /\ steps[m].kind \in {"exchange", "assign"} /\ ~steps[m].current
        /\ i \notin steps[m].in \cup steps[m].zeroes \cup steps[m].drops \cup steps[m].clears
        /\ i \in steps[m].out => steps[m].unless = {f}
        /\ f \in steps[m].in => steps[m].kind = "assign" /\ m > k
        /\ f \notin steps[m].drops \cup steps[m].clears
    /\ Exchanges(steps[k]) /\ i \in steps[k].out

\* Every request carries the same value of the item: what the structure has, and
\* the answers to such requests give back, or what the function assigns to it first.
Steady(steps, i) ==
    /\ \A m \in DOMAIN steps :
        /\ i \notin steps[m].zeroes \cup steps[m].drops \cup steps[m].clears
        /\ Stores(steps[m], i) => i \in steps[m].out /\ steps[m].needs = {}
        /\ steps[m].current => \A x \in steps[m].in : x[1] # i[1]
        /\ steps[m].kind # "compare" /\ (~Assigns(steps[m], i) => Untouched(steps[m], i))
    /\ \A m, n \in DOMAIN steps :
        Assigns(steps[m], i) =>
            /\ steps[m].unless = {} /\ ~Stores(steps[n], i)
            /\ Assigns(steps[n], i) => steps[m].token = steps[n].token
            /\ i \in steps[n].out => \E j \in DOMAIN steps : j < n /\ Assigns(steps[j], i)

\* Exchange k reads the item; neither side is given anything else from there on.
LandsAt(steps, i, k) ==
    /\ Stores(steps[k], i) /\ steps[k].unless = {} /\ ~steps[k].silent
    /\ \A m \in From(k, steps) :
        Untouched(steps[m], i) /\ (Touches(steps[m], i) => i \in steps[m].in)
    /\ \A m \in After(k, steps) : ~Carries(steps[m], i)
    /\ \A m \in DOMAIN steps : i \notin steps[m].clears

\* Neither the function nor the answers to its requests change the field.
Leaves(steps, i) ==
    \A m \in DOMAIN steps :
        Untouched(steps[m], i) /\ ~Touches(steps[m], i) /\ i \notin steps[m].drops

\* Nor do they, as long as each answer is stored for the axis it was asked for.
LeavesInPlace(steps, i) ==
    \A m \in DOMAIN steps :
        /\ Untouched(steps[m], i) /\ steps[m].kind # "compare"
        /\ i \notin steps[m].in \cup steps[m].clears \cup steps[m].drops

Needed(steps) == UNION {steps[m].needs : m \in DOMAIN steps}

\* Exchange j reads item n, which parsers need, before any of them is asked for;
\* it is sent only after that.
KnownBy(steps, n, j) ==
    /\ Stores(steps[j], n) /\ n \notin steps[j].misreads
    /\ steps[j].unless = {} /\ steps[j].needs = {} /\ ~steps[j].refusable
    /\ \A m \in DOMAIN steps :
        /\ Untouched(steps[m], n) /\ n \notin steps[m].drops
        /\ m # j => ~Touches(steps[m], n)
        /\ m <= j => ~Carries(steps[m], n)
        /\ ~steps[m].current
        /\ n \in steps[m].needs => m > j
\* A function that sends it as the structure has it.
LeavesKnown(steps, n) ==
    /\ Leaves(steps, n) /\ n \notin Needed(steps)
    /\ n \notin Misencoded(steps) \cup UNION {steps[m].zeroes : m \in DOMAIN steps}

NeverFails(steps) ==
    \A m \in DOMAIN steps : Exchanges(steps[m]) /\ steps[m].onFail = "skip" /\ ~steps[m].silent

\* An answer that is stored for the axis that is named by then is asked for after
\* the function has named that axis, once.
AxisNamed(steps) ==
    /\ \A m \in DOMAIN steps :
        /\ steps[m].kind # "select" =>
              Untouched(steps[m], SelectedAxis) /\ ~Touches(steps[m], SelectedAxis)
        /\ SelectedAxis \notin steps[m].drops
    /\ \A m \in DOMAIN steps : steps[m].current =>
        \E j \in DOMAIN steps : \E param1 \in steps[j].in :
            /\ j < m /\ steps[j].kind = "select" /\ steps[j].in = {param1} /\ steps[j].unless = {}
            /\ \A x \in steps[m].in \ SharedByAxes : x = <<x[1], param1[2]>>
            /\ \A n \in DOMAIN steps : steps[n].kind = "select" => n = j

FunctionInOrder(name, kind, steps) ==
    /\ steps \in Seq(Range(steps))
    /\ \A m \in DOMAIN steps :
        /\ WellFormed(steps[m])
        /\ steps[m].onFail = "skip" => name \in IgnoresFailures
    /\ \A i \in ItemsOut(steps) \ (Spoiled(steps) \cup Erased) :
        /\ \A m \in DOMAIN steps : steps[m].kind # "compare"
        /\ \E k \in DOMAIN steps :
            \/ SettlesAt(steps, i, k)
            \/ kind \in {"retry", "pair"} /\ \E f \in Flags(steps) : SentByFlag(steps, i, f, k)
        /\ kind # "pair" /\ name # "MatrixKBConfigurationSet" => Steady(steps, i)
    /\ \A i \in ItemsIn(steps) \ Spoiled(steps) :
        /\ i \notin Erased /\ \A m \in DOMAIN steps : steps[m].kind # "compare"
        /\ \E k \in DOMAIN steps : LandsAt(steps, i, k)
        /\ i \in ItemsOut(steps) /\ kind # "pair" =>
               /\ Steady(steps, i)
               /\ \A m \in DOMAIN steps :
                    ~Assigns(steps[m], i) /\ (Carries(steps[m], i) => ~steps[m].silent)
    /\ AxisNamed(steps)
    /\ Needed(steps) # {} =>
        /\ name = "PinConfigurationGet" /\ NeverFails(steps)
        /\ \A n \in Needed(steps) : \E j \in DOMAIN steps : KnownBy(steps, n, j)

InOrder(s, d) ==
    LET steps == [c \in DOMAIN s.calls |-> Table(s.group, d)[s.calls[c]]] IN
    /\ \A c \in DOMAIN steps : FunctionInOrder(s.calls[c], s.kind, steps[c])
    /\ Len(s.calls) = 2 /\ s.calls # <<"PinConfigurationGet", "PinConfigurationGet">> =>
        \A n \in Needed(steps[2]) : s.kind = "pair" /\ LeavesKnown(steps[1], n)
    /\ s.kind = "rmw" =>
        /\ s.calls[1] \in IgnoresFailures => s.calls[2] \in IgnoresFailures
        /\ \A i \in ItemsOut(steps[2]) \ (NeverRead \cup Erased \cup Spoiled(steps[1])
                                       \cup Spoiled(steps[2])) :
            /\ i \in ItemsIn(steps[1]) \ ItemsOut(steps[1])
            /\ \A m \in DOMAIN steps[1] :
                Untouched(steps[1][m], i)
                /\ (steps[1][m].refusable => ~Touches(steps[1][m], i) /\ i \notin steps[1][m].drops)
            /\ Leaves(steps[2], i)
            /\ \A m \in DOMAIN steps[2] : Carries(steps[2][m], i) => ~steps[2][m].silent
    /\ s.kind = "between" =>
        \A i \in ItemsOut(steps[2]) \ (ItemsTaken(steps[2]) \cup ReadByOthers \cup Erased
                                       \cup Spoiled(steps[1]) \cup Spoiled(steps[2])) :
            /\ LeavesInPlace(steps[1], i) /\ Leaves(steps[2], i) /\ Steady(steps[2], i)
            /\ \A m \in DOMAIN steps[2] : Carries(steps[2][m], i) => ~steps[2][m].silent
    /\ s.kind = "pair" /\ (\A m \in DOMAIN steps[1] : ~steps[1][m].current) =>
        \A i \in ItemsIn(steps[1]) \ (ItemsOut(steps[2]) \cup ItemsTaken(steps[2]) \cup ItemsIn(steps[2])
                                      \cup Spoiled(steps[1]) \cup Spoiled(steps[2])) :
            /\ s.calls[1] \in IgnoresFailures => s.calls[2] \in IgnoresFailures
            /\ \A m \in DOMAIN steps[1] : Stores(steps[1][m], i) => steps[1][m].needs = {}
            /\ Leaves(steps[2], i) /\ i \notin Flags(steps[2])
            /\ \A m \in DOMAIN steps[2] : ~Carries(steps[2][m], i)

\* Every function changes what it sends before it sends it, sends it as it is from
\* there on, and reads it where nothing that it sends later changes it.
FunctionsInOrder ==
    script.kind = "none" =>
        \A d \in Devices, group \in Groups : \A s \in ScriptsOf(group, Table(group, d)) : InOrder(s, d)
=============================================================================
