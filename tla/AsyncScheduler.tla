--------------------------- MODULE AsyncScheduler ---------------------------
(***************************************************************************)
(* The periodic-task scheduler of PoKeysLibAsync.c and the way the HAL     *)
(* component experimental/pokeys_async.c uses it: the component registers  *)
(* one task per subsystem while it is set up; after that its thread calls  *)
(* async_dispatcher(), which fires the most overdue task that the device   *)
(* load and the state of the machine do not throttle.                      *)
(*                                                                         *)
(* What a task sends is of no interest here, except for pk_load_monitor_   *)
(* task: it feeds the load the throttling depends on back to the           *)
(* scheduler.  lastFired and overtook are history variables.               *)
(***************************************************************************)
EXTENDS Integers, Sequences

CONSTANTS
    MAX_ASYNC_TASKS,   \* entries of async_tasks (16)
    TaskNames,         \* the names tasks are registered under
    Plans,             \* the calls of register_async_task() a set-up may make
    PrimeOffsets,      \* prime_offsets_ns
    LoadMonitor,       \* the name of pk_load_monitor_task
    iLoadStatus,       \* dev->info.iLoadStatus: the device reports its load
    Loads,             \* CPU loads the device may report, in percent
    ToggledTasks,      \* names passed to async_task_set_active()
    MachineOnCalls,    \* values passed to scheduler_set_machine_on()
    Budgeted,          \* TRUE: FUNCTION(_), cut off by its time budget;
                       \* FALSE: user_mainloop, fires all that is due
    MaxNow             \* bound on the clock

Priorities == {"CRITICAL", "HIGH", "NORMAL", "LOW"}

\* The arguments of a call: the interval that belongs to freq_hz, which is
\* not positive when freq_hz is not.
Registration == [name : TaskNames, interval : Int, priority : Priorities]

ASSUME SchedulerAssumption ==
    /\ MAX_ASYNC_TASKS \in Nat \ {0}
    /\ LoadMonitor \in TaskNames
    /\ \A p \in Plans : p \in Seq(Registration)
    /\ PrimeOffsets \in [0..15 -> Nat]
    /\ iLoadStatus \in BOOLEAN
    /\ Loads \subseteq 0..255
    /\ MachineOnCalls \subseteq BOOLEAN
    /\ Budgeted \in BOOLEAN
    /\ MaxNow \in Nat

VARIABLES
    plan,           \* the calls this set-up makes
    phase,          \* EXTRA_SETUP in progress, "running", or "failed"
    count,          \* async_task_count_internal
    tasks,          \* async_tasks
    now,            \* rtapi_get_time()
    systemLoad,     \* scheduler_system_load
    machineOn,      \* scheduler_machine_on
    cpuLoad,        \* dev->deviceLoadStatus.CPUload
    loadRequested,  \* a load-status request awaits its answer
    lastFired,      \* when the entry was last fired, Never at first
    overtook        \* how often the second entry was fired while the first
                    \* one waited

envVars == <<plan, cpuLoad, loadRequested>>
vars == <<plan, phase, count, tasks, now, systemLoad, machineOn, cpuLoad,
          loadRequested, lastFired, overtook>>

Entries == 1..MAX_ASYNC_TASKS
Never   == -1

Task == [name : TaskNames, interval : Nat, next : Nat, active : BOOLEAN,
         priority : Priorities]

\* async_tasks is static: zero until an entry is registered.
ZeroTask == [name |-> LoadMonitor, interval |-> 0, next |-> 0, active |-> FALSE,
             priority |-> "CRITICAL"]

TypeOK ==
    /\ plan \in Plans
    /\ phase \in {"setup", "running", "failed"}
    /\ count \in 0..MAX_ASYNC_TASKS
    /\ tasks \in [Entries -> Task]
    /\ now \in Nat
    /\ systemLoad \in 0..255
    /\ machineOn \in BOOLEAN
    /\ cpuLoad \in 0..255
    /\ loadRequested \in BOOLEAN
    /\ lastFired \in [Entries -> Nat \cup {Never}]
    /\ overtook \in [Entries -> [Entries -> Nat]]

Init ==
    /\ plan \in Plans
    /\ phase = "setup"
    /\ count = 0
    /\ tasks = [i \in Entries |-> ZeroTask]
    /\ now = 0
    /\ systemLoad = 0
    /\ machineOn = FALSE
    /\ cpuLoad = 0
    /\ loadRequested = FALSE
    /\ lastFired = [i \in Entries |-> Never]
    /\ overtook = [i \in Entries |-> [j \in Entries |-> 0]]

-----------------------------------------------------------------------------
(* Mutated forms of the definitions below. *)

Periodic_Unchecked(r)     == r \in Registration
Before_LatestFirst(i, j)  == \/ tasks[i].next > tasks[j].next
                             \/ tasks[i].next = tasks[j].next /\ i <= j
NextCall_CatchUp(t)       == t.next + t.interval

-----------------------------------------------------------------------------
(* register_async_task() *)

Periodic(r) == r.interval > 0
Stagger(k)  == PrimeOffsets[k % 16]

NewTask(r) == [name |-> r.name, interval |-> r.interval,
               next |-> now + r.interval + Stagger(count),
               active |-> TRUE, priority |-> r.priority]

\* The set-up makes the next of its calls; the first that returns -1 makes
\* start_async_processing(), EXTRA_SETUP and rtapi_app_main() fail.
RegisterAsyncTask ==
    /\ phase = "setup"
    /\ count < Len(plan)
    /\ LET r == plan[count + 1] IN
         IF count < MAX_ASYNC_TASKS /\ Periodic(r)
         THEN /\ count' = count + 1
              /\ tasks' = [tasks EXCEPT ![count + 1] = NewTask(r)]
              /\ UNCHANGED phase
         ELSE phase' = "failed" /\ UNCHANGED <<count, tasks>>
    /\ UNCHANGED <<now, systemLoad, machineOn, lastFired, overtook>>
    /\ UNCHANGED envVars

\* Every call succeeded: the thread that dispatches is started.
SetupDone ==
    /\ phase = "setup"
    /\ count = Len(plan)
    /\ phase' = "running"
    /\ UNCHANGED <<count, tasks, now, systemLoad, machineOn, lastFired, overtook>>
    /\ UNCHANGED envVars

-----------------------------------------------------------------------------
(* async_dispatcher() *)

Throttled(t) ==
    \/ t.priority = "LOW"    /\ systemLoad > 50
    \/ t.priority = "NORMAL" /\ systemLoad > 80
    \/ t.priority = "HIGH"   /\ systemLoad > 95
    \/ t.priority = "LOW"    /\ machineOn

\* An entry the dispatcher may fire now.
Waits(i) == /\ i <= count
            /\ tasks[i].active
            /\ tasks[i].next <= now
            /\ ~Throttled(tasks[i])

\* The scan keeps the earliest next_call_time, the first entry of several.
Before(i, j) == \/ tasks[i].next < tasks[j].next
                \/ tasks[i].next = tasks[j].next /\ i <= j
Selected(i) == Waits(i) /\ \A j \in Entries : Waits(j) => Before(i, j)

NextCall(t) == now + t.interval

\* pk_load_monitor_task() hands over the load it knows and asks for a new one.
RunTask(t) == IF t.name = LoadMonitor /\ iLoadStatus
              THEN systemLoad' = cpuLoad /\ loadRequested' = TRUE
              ELSE UNCHANGED <<systemLoad, loadRequested>>

Dispatch(i) ==
    /\ phase = "running"
    /\ Selected(i)
    /\ RunTask(tasks[i])
    /\ tasks' = [tasks EXCEPT ![i].next = NextCall(tasks[i])]
    /\ lastFired' = [lastFired EXCEPT ![i] = now]
    /\ overtook' = [k \in Entries |->
           IF k = i THEN [j \in Entries |-> 0]
           ELSE IF Waits(k) THEN [overtook[k] EXCEPT ![i] = @ + 1]
           ELSE overtook[k]]
    /\ UNCHANGED <<plan, phase, count, now, machineOn, cpuLoad>>

-----------------------------------------------------------------------------
(* The rest of the interface, and the environment *)

\* async_task_set_active() acts on the first entry of that name.
AsyncTaskSetActive(n, a) ==
    /\ phase = "running"
    /\ \E i \in 1..count :
         /\ tasks[i].name = n
         /\ \A k \in 1..(i-1) : tasks[k].name # n
         /\ tasks' = [tasks EXCEPT ![i].active = a]
    /\ UNCHANGED <<phase, count, now, systemLoad, machineOn, lastFired, overtook>>
    /\ UNCHANGED envVars

SchedulerSetMachineOn(m) ==
    /\ phase = "running"
    /\ machineOn' = m
    /\ UNCHANGED <<phase, count, tasks, now, systemLoad, lastFired, overtook>>
    /\ UNCHANGED envVars

\* PK_Parse_LoadStatus() stores the load the device reports.
ParseLoadStatus(load) ==
    /\ loadRequested
    /\ loadRequested' = FALSE
    /\ cpuLoad' = load
    /\ UNCHANGED <<plan, phase, count, tasks, now, systemLoad, machineOn,
                   lastFired, overtook>>

\* Time passes between two calls of the dispatcher, in user_mainloop only
\* after it has returned 0; the set-up takes less than a unit of it.
Tick ==
    /\ phase = "running"
    /\ now < MaxNow
    /\ Budgeted \/ \A i \in Entries : ~Waits(i)
    /\ now' = now + 1
    /\ UNCHANGED <<phase, count, tasks, systemLoad, machineOn, lastFired, overtook>>
    /\ UNCHANGED envVars

Next ==
    \/ RegisterAsyncTask
    \/ SetupDone
    \/ \E i \in Entries : Dispatch(i)
    \/ \E n \in ToggledTasks, a \in BOOLEAN : AsyncTaskSetActive(n, a)
    \/ \E m \in MachineOnCalls : SchedulerSetMachineOn(m)
    \/ \E load \in Loads : ParseLoadStatus(load)
    \/ Tick

Spec == Init /\ [][Next]_vars

-----------------------------------------------------------------------------
(* Properties *)

\* "Fire the single most-overdue registered task": while a task is due and
\* not throttled, no other task is fired twice before it, whatever their
\* rates, priorities and order of registration.  No task starves.
OvertakenAtMostOnce ==
    \A i, j \in Entries : overtook[i][j] <= 1

Fires(i) == tasks'[i].next # tasks[i].next /\ phase = "running"

\* "periodic, rate-limited firing": a task that fell behind, because it was
\* throttled, inactive or out of budget, does not catch up in a burst.
NoBurst ==
    [][\A i \in Entries :
         Fires(i) /\ lastFired[i] # Never => now - lastFired[i] >= tasks[i].interval]_vars

\* "so the value is refreshed on the next scheduler cycle"
\* (pk_load_monitor_task): the load that throttles is at most two of the
\* monitor's intervals old.
LoadRefreshed ==
    \A i \in 1..count :
        tasks[i].name = LoadMonitor /\ lastFired[i] # Never
        => now - lastFired[i] <= 2 * tasks[i].interval

=============================================================================
