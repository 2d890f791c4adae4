------------------------ MODULE AsyncScheduler_proof ------------------------
(***************************************************************************)
(* The periodic-task scheduler: which task the dispatcher may fire, for     *)
(* every number of tasks, every set-up, every load and every pace at which  *)
(* the dispatcher is called.                                                *)
(***************************************************************************)
EXTENDS AsyncScheduler, TLAPS

\* Initially the variables have their types.
LEMMA InitTypes == Init => TypeOK
<1> SUFFICES ASSUME Init PROVE TypeOK
  OBVIOUS
<1>1. ZeroTask \in Task
  <2>1. 0 \in Nat /\ LoadMonitor \in TaskNames
    BY SchedulerAssumption, SMT
  <2>. QED BY <2>1 DEF ZeroTask, Task, Priorities
<1>2. tasks \in [Entries -> Task] /\ lastFired \in [Entries -> Nat \cup {Never}]
  BY <1>1 DEF Init
<1>3. overtook \in [Entries -> [Entries -> Nat]]
  BY DEF Init
<1>4. 0 \in 0..MAX_ASYNC_TASKS /\ 0 \in 0..255 /\ 0 \in Nat
  BY SchedulerAssumption, SMT
<1>. QED BY <1>2, <1>3, <1>4 DEF Init, TypeOK

\* What register_async_task() stores is a task that is due after its interval.
LEMMA NewTaskType ==
    ASSUME TypeOK, NEW r \in Registration, Periodic(r), count < MAX_ASYNC_TASKS
    PROVE  /\ NewTask(r) \in Task
           /\ NewTask(r).interval > 0
<1>1. count % 16 \in 0..15
  BY SMT DEF TypeOK
<1>2. Stagger(count) \in Nat
  BY <1>1, SchedulerAssumption DEF Stagger
<1>3. r.interval \in Nat /\ r.interval > 0
  BY SMT DEF Registration, Periodic
<1>4. now + r.interval + Stagger(count) \in Nat
  BY <1>2, <1>3, SMT DEF TypeOK
<1>. QED BY <1>3, <1>4 DEF NewTask, Task, Registration

LEMMA RegisterTypes == TypeOK /\ RegisterAsyncTask => TypeOK'
<1> SUFFICES ASSUME TypeOK, RegisterAsyncTask PROVE TypeOK'
  OBVIOUS
<1> DEFINE r == plan[count + 1]
<1>1. /\ UNCHANGED <<now, systemLoad, machineOn, lastFired, overtook, plan, cpuLoad, loadRequested>>
      /\ count \in Nat /\ count < Len(plan)
  BY DEF RegisterAsyncTask, envVars, TypeOK
<1>2. r \in Registration
  <2>1. plan \in Seq(Registration)
    BY SchedulerAssumption DEF TypeOK
  <2>2. count + 1 \in 1..Len(plan)
    BY <1>1, <2>1, SMT
  <2>. QED BY <2>1, <2>2
<1>3. CASE count < MAX_ASYNC_TASKS /\ Periodic(r)
  <2>1. count' = count + 1 /\ tasks' = [tasks EXCEPT ![count + 1] = NewTask(r)] /\ phase' = phase
    BY <1>3 DEF RegisterAsyncTask
  <2>2. tasks' \in [Entries -> Task]
    BY <1>2, <1>3, <2>1, NewTaskType DEF TypeOK
  <2>3. count' \in 0..MAX_ASYNC_TASKS
    BY <1>1, <1>3, <2>1, SchedulerAssumption, SMT
  <2>. QED BY <1>1, <2>1, <2>2, <2>3 DEF TypeOK
<1>4. CASE ~(count < MAX_ASYNC_TASKS /\ Periodic(r))
  BY <1>1, <1>4 DEF RegisterAsyncTask, TypeOK
<1>. QED BY <1>3, <1>4

\* Firing a task moves the time it is next due on by its interval.
LEMMA DispatchTypes ==
    ASSUME TypeOK, NEW i \in Entries, Dispatch(i)
    PROVE  TypeOK'
<1>1. tasks[i] \in Task /\ now \in Nat
  BY DEF TypeOK
<1>2. NextCall(tasks[i]) \in Nat
  BY <1>1, SMT DEF NextCall, Task
<1>3. tasks' \in [Entries -> Task]
  BY <1>2 DEF TypeOK, Dispatch, Task
<1>4. lastFired' \in [Entries -> Nat \cup {Never}]
  BY <1>1 DEF TypeOK, Dispatch
<1>5. overtook' \in [Entries -> [Entries -> Nat]]
  <2>1. ASSUME NEW k \in Entries
        PROVE  [overtook[k] EXCEPT ![i] = @ + 1] \in [Entries -> Nat]
    BY SMT DEF TypeOK
  <2>2. \A k \in Entries : overtook[k] \in [Entries -> Nat]
    BY DEF TypeOK
  <2>. QED BY <2>1, <2>2 DEF Dispatch
<1>6. systemLoad' \in 0..255 /\ loadRequested' \in BOOLEAN
  BY DEF Dispatch, RunTask, TypeOK
<1>. QED BY <1>3, <1>4, <1>5, <1>6 DEF Dispatch, TypeOK

LEMMA SetActiveTypes ==
    ASSUME TypeOK, NEW n \in ToggledTasks, NEW a \in BOOLEAN, AsyncTaskSetActive(n, a)
    PROVE  TypeOK'
<1>1. PICK i \in 1..count : tasks' = [tasks EXCEPT ![i].active = a]
  BY DEF AsyncTaskSetActive
<1>2. tasks' \in [Entries -> Task]
  <2>1. tasks \in [Entries -> Task]
    BY DEF TypeOK
  <2>2. \A t \in Task : [t EXCEPT !.active = a] \in Task
    BY DEF Task
  <2>. QED BY <1>1, <2>1, <2>2
<1>. QED BY <1>2 DEF AsyncTaskSetActive, envVars, TypeOK

LEMMA OtherTypes ==
    TypeOK /\ (\/ SetupDone \/ (\E m \in MachineOnCalls : SchedulerSetMachineOn(m))
               \/ (\E load \in Loads : ParseLoadStatus(load)) \/ Tick)
    => TypeOK'
<1> SUFFICES ASSUME TypeOK PROVE
      /\ SetupDone => TypeOK'
      /\ \A m \in MachineOnCalls : SchedulerSetMachineOn(m) => TypeOK'
      /\ \A load \in Loads : ParseLoadStatus(load) => TypeOK'
      /\ Tick => TypeOK'
  BY Zenon
<1>1. SetupDone => TypeOK'
  BY DEF SetupDone, envVars, TypeOK
<1>2. \A m \in MachineOnCalls : SchedulerSetMachineOn(m) => TypeOK'
  <2>1. \A m \in MachineOnCalls : m \in BOOLEAN
    BY SchedulerAssumption
  <2>. QED BY <2>1, Zenon DEF SchedulerSetMachineOn, envVars, TypeOK
<1>3. \A load \in Loads : ParseLoadStatus(load) => TypeOK'
  <2>1. \A load \in Loads : load \in 0..255
    BY SchedulerAssumption
  <2>. QED BY <2>1, Zenon DEF ParseLoadStatus, TypeOK
<1>4. Tick => TypeOK'
  <2>1. now \in Nat => now + 1 \in Nat
    BY SMT
  <2>. QED BY <2>1 DEF Tick, envVars, TypeOK
<1>. QED BY <1>1, <1>2, <1>3, <1>4

LEMMA StepTypes == TypeOK /\ [Next]_vars => TypeOK'
<1> SUFFICES ASSUME TypeOK, [Next]_vars PROVE TypeOK'
  OBVIOUS
<1>1. CASE UNCHANGED vars
  BY <1>1 DEF vars, TypeOK
<1>. QED BY <1>1, RegisterTypes, DispatchTypes, SetActiveTypes, OtherTypes DEF Next

\* The tables of the scheduler keep their types.
THEOREM TypeCorrect == Spec => []TypeOK
  BY InitTypes, StepTypes, PTL DEF Spec

(***************************************************************************)
(* Overtaking.  The dispatcher fires the task that has been due longest; a  *)
(* task that overtook another while that one waited is due after it from    *)
(* then on.                                                                 *)
(***************************************************************************)
Positive == \A i \in 1..count : tasks[i].interval > 0

Untouched ==
    phase = "setup" => /\ \A i, j \in Entries : overtook[i][j] = 0
                       /\ \A i \in Entries : lastFired[i] = Never

Behind ==
    \A i, j \in Entries :
        overtook[i][j] >= 1 => overtook[i][j] = 1 /\ tasks[i].next < tasks[j].next

\* The next call of a task is its interval after the last one.
Spaced ==
    \A i \in Entries :
        lastFired[i] # Never => tasks[i].next = lastFired[i] + tasks[i].interval

FiringInv == TypeOK /\ Positive /\ Untouched /\ Behind /\ Spaced

\* The entries registered are entries of the table.
LEMMA EntriesInUse == TypeOK => \A i \in 1..count : i \in Entries
<1>1. TypeOK => count \in Nat /\ count <= MAX_ASYNC_TASKS /\ MAX_ASYNC_TASKS \in Nat
  BY SchedulerAssumption, SMT DEF TypeOK
<1>. QED BY <1>1, SMT DEF Entries

LEMMA FiringInit == Init => FiringInv
<1> SUFFICES ASSUME Init PROVE FiringInv
  OBVIOUS
<1>1. \A i, j \in Entries : overtook[i][j] = 0 /\ lastFired[i] = Never
  BY DEF Init
<1>2. Positive
  BY SMT DEF Init, Positive
<1>3. Untouched
  BY <1>1 DEF Untouched
<1>4. Behind
  BY <1>1, SMT DEF Behind
<1>5. Spaced
  BY <1>1 DEF Spaced
<1>. QED BY <1>2, <1>3, <1>4, <1>5, InitTypes DEF FiringInv

\* A registration touches no entry that has been fired, since none has.
LEMMA RegisterKeeps == FiringInv /\ RegisterAsyncTask => FiringInv'
<1> SUFFICES ASSUME FiringInv, RegisterAsyncTask PROVE FiringInv'
  OBVIOUS
<1>1. TypeOK' /\ TypeOK
  BY RegisterTypes DEF FiringInv
<1>2. UNCHANGED <<lastFired, overtook>> /\ phase = "setup"
  BY DEF RegisterAsyncTask
<1>3. \A i, j \in Entries : overtook'[i][j] = 0 /\ lastFired'[i] = Never
  BY <1>2 DEF FiringInv, Untouched
<1>4. Positive'
  <2> DEFINE r == plan[count + 1]
  <2>1. CASE count < MAX_ASYNC_TASKS /\ Periodic(r)
    <3>1. count' = count + 1 /\ tasks' = [tasks EXCEPT ![count + 1] = NewTask(r)]
      BY <2>1 DEF RegisterAsyncTask
    <3>2. NewTask(r).interval > 0
      BY <2>1 DEF NewTask, Periodic
    <3>3. count + 1 \in Entries /\ \A i \in 1..count' : i \in Entries /\ (i \in 1..count \/ i = count + 1)
      <4>1. count \in Nat /\ count < MAX_ASYNC_TASKS /\ MAX_ASYNC_TASKS \in Nat
        BY <1>1, <2>1, SchedulerAssumption, SMT DEF TypeOK
      <4>. QED BY <3>1, <4>1, SMT DEF Entries
    <3>4. tasks'[count + 1].interval > 0
      BY <1>1, <3>1, <3>2, <3>3 DEF TypeOK
    <3>5. ASSUME NEW i \in 1..count', i # count + 1 PROVE tasks'[i].interval > 0
      BY <1>1, <3>1, <3>3, <3>5 DEF TypeOK, FiringInv, Positive
    <3>. QED BY <3>4, <3>5 DEF Positive
  <2>2. CASE ~(count < MAX_ASYNC_TASKS /\ Periodic(r))
    <3>1. UNCHANGED <<count, tasks>>
      BY <2>2 DEF RegisterAsyncTask
    <3>. QED BY <3>1 DEF FiringInv, Positive
  <2>. QED BY <2>1, <2>2
<1>5. Untouched' /\ Spaced'
  BY <1>3 DEF Untouched, Spaced
<1>6. Behind'
  BY <1>3, SMT DEF Behind
<1>. QED BY <1>1, <1>4, <1>5, <1>6 DEF FiringInv

LEMMA DispatchKeeps ==
    ASSUME FiringInv, NEW i \in Entries, Dispatch(i)
    PROVE  FiringInv'
<1>1. TypeOK /\ TypeOK'
  BY DispatchTypes DEF FiringInv
<1>2. /\ phase = "running" /\ phase' = phase /\ count' = count /\ now' = now
      /\ Waits(i) /\ \A j \in Entries : Waits(j) => Before(i, j)
  BY DEF Dispatch, Selected
<1>3. i \in 1..count /\ tasks[i].next <= now
  BY <1>1, <1>2, SMT DEF Waits, TypeOK, Entries
<1>4. \A k \in Entries : /\ tasks[k].next \in Nat /\ tasks[k].interval \in Nat
                         /\ tasks'[k].next \in Nat /\ now \in Nat
  BY <1>1 DEF TypeOK, Task
<1>5. tasks'[i].next = now + tasks[i].interval /\ tasks'[i].interval = tasks[i].interval
  BY <1>1 DEF Dispatch, NextCall, TypeOK, Task
<1>6. \A k \in Entries \ {i} : tasks'[k] = tasks[k]
  BY <1>1 DEF Dispatch, TypeOK
<1>7. tasks[i].interval > 0
  BY <1>3 DEF FiringInv, Positive
<1>8. tasks'[i].next > now
  BY <1>4, <1>5, <1>7, SMT
<1>9. Positive'
  <2>1. \A k \in 1..count : k \in Entries
    BY <1>1, EntriesInUse
  <2>. QED BY <1>2, <1>5, <1>6, <2>1 DEF FiringInv, Positive
<1>10. Untouched'
  BY <1>2 DEF Untouched
<1>11. Spaced'
  <2>1. lastFired'[i] = now /\ \A k \in Entries \ {i} : lastFired'[k] = lastFired[k]
    BY <1>1 DEF Dispatch, TypeOK
  <2>. QED BY <1>5, <1>6, <2>1 DEF FiringInv, Spaced
<1>12. Behind'
  <2> SUFFICES ASSUME NEW k \in Entries, NEW j \in Entries, overtook'[k][j] >= 1
               PROVE  overtook'[k][j] = 1 /\ tasks'[k].next < tasks'[j].next
    BY DEF Behind
  <2>1. overtook[k] \in [Entries -> Nat] /\ overtook[k][j] \in Nat
    BY <1>1 DEF TypeOK
  <2>2. overtook'[k] = IF k = i THEN [x \in Entries |-> 0]
                       ELSE IF Waits(k) THEN [overtook[k] EXCEPT ![i] = @ + 1]
                       ELSE overtook[k]
    BY DEF Dispatch
  <2>3. k # i
    BY <2>2, SMT
  <2>4. CASE j = i /\ Waits(k)
    <3>1. tasks[i].next <= tasks[k].next /\ tasks[k].next <= now
      BY <1>2, <1>4, <2>4, SMT DEF Before, Waits
    <3>2. ~(overtook[k][i] >= 1)
      BY <1>4, <3>1, SMT DEF FiringInv, Behind
    <3>3. overtook'[k][i] = 1
      BY <2>1, <2>2, <2>3, <2>4, <3>2, SMT
    <3>. QED BY <1>4, <1>6, <1>8, <2>3, <2>4, <3>1, <3>3, SMT
  <2>5. CASE ~(j = i /\ Waits(k))
    <3>1. overtook'[k][j] = overtook[k][j]
      BY <2>1, <2>2, <2>3, <2>5
    <3>2. overtook[k][j] = 1 /\ tasks[k].next < tasks[j].next
      BY <3>1 DEF FiringInv, Behind
    <3>3. tasks[j].next <= tasks'[j].next
      BY <1>3, <1>4, <1>6, <1>8, SMT
    <3>. QED BY <1>4, <1>6, <2>3, <3>1, <3>2, <3>3, SMT
  <2>. QED BY <2>4, <2>5
<1>. QED BY <1>1, <1>9, <1>10, <1>11, <1>12 DEF FiringInv

\* No other step changes when a task is due, or an interval.
LEMMA TimesKept ==
    ASSUME FiringInv, TypeOK', UNCHANGED <<count, lastFired, overtook>>,
           phase' = "setup" => phase = "setup",
           \A i \in Entries : /\ tasks'[i].next = tasks[i].next
                              /\ tasks'[i].interval = tasks[i].interval
    PROVE  FiringInv'
<1>1. \A i \in 1..count : i \in Entries
  BY EntriesInUse DEF FiringInv
<1>2. Positive'
  BY <1>1 DEF FiringInv, Positive
<1>3. Untouched'
  BY DEF FiringInv, Untouched
<1>4. Behind' /\ Spaced'
  BY DEF FiringInv, Behind, Spaced
<1>. QED BY <1>2, <1>3, <1>4 DEF FiringInv

LEMMA FiringStep == FiringInv /\ [Next]_vars => FiringInv'
<1> SUFFICES ASSUME FiringInv, [Next]_vars PROVE FiringInv'
  OBVIOUS
<1>1. TypeOK /\ TypeOK'
  BY StepTypes DEF FiringInv
<1>2. CASE \E n \in ToggledTasks, a \in BOOLEAN : AsyncTaskSetActive(n, a)
  <2>1. PICK n \in ToggledTasks, a \in BOOLEAN : AsyncTaskSetActive(n, a)
    BY <1>2
  <2>2. PICK i \in 1..count : tasks' = [tasks EXCEPT ![i].active = a]
    BY <2>1 DEF AsyncTaskSetActive
  <2>3. \A k \in Entries : /\ tasks'[k].next = tasks[k].next
                           /\ tasks'[k].interval = tasks[k].interval
    BY <1>1, <2>2 DEF TypeOK, Task
  <2>4. UNCHANGED <<count, lastFired, overtook, phase>>
    BY <2>1 DEF AsyncTaskSetActive
  <2>. QED BY <1>1, <2>3, <2>4, TimesKept
<1>3. CASE SetupDone
  BY <1>1, <1>3, TimesKept DEF SetupDone
<1>4. CASE \E m \in MachineOnCalls : SchedulerSetMachineOn(m)
  BY <1>1, <1>4, TimesKept DEF SchedulerSetMachineOn
<1>5. CASE \E load \in Loads : ParseLoadStatus(load)
  BY <1>1, <1>5, TimesKept DEF ParseLoadStatus
<1>6. CASE Tick
  BY <1>1, <1>6, TimesKept DEF Tick
<1>7. CASE UNCHANGED vars
  BY <1>1, <1>7, TimesKept DEF vars
<1>. QED BY <1>2, <1>3, <1>4, <1>5, <1>6, <1>7, RegisterKeeps, DispatchKeeps DEF Next

LEMMA FiringInvHolds == Spec => []FiringInv
  BY FiringInit, FiringStep, PTL DEF Spec

\* No task starves: while a task is due and not throttled, no other one is
\* fired twice, for every number of tasks, all rates and priorities, and
\* however the load, the machine and the activity of tasks change in between.
THEOREM NobodyStarves == Spec => []OvertakenAtMostOnce
<1>1. FiringInv => OvertakenAtMostOnce
  <2> SUFFICES ASSUME FiringInv, NEW i \in Entries, NEW j \in Entries
               PROVE  overtook[i][j] <= 1
    BY DEF OvertakenAtMostOnce
  <2>1. overtook[i][j] \in Nat
    BY DEF FiringInv, TypeOK
  <2>. QED BY <2>1, SMT DEF FiringInv, Behind
<1>. QED BY <1>1, FiringInvHolds, PTL

\* A task is never fired sooner than its interval after the time before,
\* however far it fell behind.
THEOREM NoCatchingUp == Spec => NoBurst
<1> DEFINE Rested ==
      \A i \in Entries :
         Fires(i) /\ lastFired[i] # Never => now - lastFired[i] >= tasks[i].interval
<1>1. ASSUME FiringInv, [Next]_vars PROVE Rested
  <2> SUFFICES ASSUME NEW i \in Entries, tasks'[i].next # tasks[i].next, phase = "running",
                      lastFired[i] # Never
               PROVE  now - lastFired[i] >= tasks[i].interval
    BY DEF Fires
  <2>1. Dispatch(i)
    <3>1. \A k \in Entries : Dispatch(k) => \A x \in Entries \ {k} : tasks'[x] = tasks[x]
      BY <1>1 DEF Dispatch, FiringInv, TypeOK
    <3>2. ~RegisterAsyncTask /\ ~SetupDone
      BY DEF RegisterAsyncTask, SetupDone
    <3>3. \A n \in ToggledTasks, a \in BOOLEAN :
            AsyncTaskSetActive(n, a) => tasks'[i].next = tasks[i].next
      BY <1>1 DEF AsyncTaskSetActive, FiringInv, TypeOK, Task
    <3>4. \A m \in MachineOnCalls : ~SchedulerSetMachineOn(m)
      BY DEF SchedulerSetMachineOn
    <3>5. \A load \in Loads : ~ParseLoadStatus(load)
      BY DEF ParseLoadStatus
    <3>6. ~Tick /\ ~UNCHANGED vars
      BY DEF Tick, vars
    <3>. QED BY <1>1, <3>1, <3>2, <3>3, <3>4, <3>5, <3>6 DEF Next
  <2>2. tasks[i].next <= now
    BY <2>1 DEF Dispatch, Selected, Waits
  <2>3. tasks[i].next = lastFired[i] + tasks[i].interval
    BY <1>1 DEF FiringInv, Spaced
  <2>4. lastFired[i] \in Nat /\ tasks[i].interval \in Nat /\ now \in Nat
    BY <1>1 DEF FiringInv, TypeOK, Task
  <2>. QED BY <2>2, <2>3, <2>4, SMT
<1>2. FiringInv /\ [Next]_vars => [Rested]_vars
  BY <1>1
<1>. QED BY <1>2, FiringInvHolds, PTL DEF Spec, NoBurst
=============================================================================
