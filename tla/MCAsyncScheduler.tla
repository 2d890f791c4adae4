-------------------------- MODULE MCAsyncScheduler --------------------------
(* Instances of AsyncScheduler for TLC. *)
EXTENDS AsyncScheduler

TheNames == {"pev2_movepv", "encoders", "aio", "load_monitor"}

Reg(n, i, p) == [name |-> n, interval |-> i, priority |-> p]

\* Set-ups with rates, orders and priorities that make the tasks compete; one
\* with more calls than the table has entries, as a second instance of the
\* component makes them; and one with a freq_hz that is not positive.
Competing ==
    {<<Reg("pev2_movepv", 1, "CRITICAL"), Reg("encoders", 2, "HIGH"),
       Reg("load_monitor", 2, "LOW")>>,
     <<Reg("load_monitor", 2, "LOW"), Reg("aio", 3, "NORMAL"),
       Reg("encoders", 1, "HIGH")>>,
     <<Reg("encoders", 2, "HIGH"), Reg("load_monitor", 2, "LOW"),
       Reg("encoders", 2, "HIGH"), Reg("load_monitor", 2, "LOW")>>,
     <<Reg("encoders", 2, "HIGH"), Reg("aio", -1, "NORMAL")>>}
ThreeTasks == {<<Reg("pev2_movepv", 1, "CRITICAL"), Reg("encoders", 2, "HIGH"),
                 Reg("load_monitor", 2, "LOW")>>}

NoOffsets == [k \in 0..15 |-> 0]
NoCalls  == {}
AllCalls == BOOLEAN
Toggle1  == {"encoders"}

=============================================================================
