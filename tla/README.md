# A verification development for pokeysHal

PoKeysLib talks to PoKeys devices (I/O, encoders, pulse engine, PoNET
keyboards) over USB or the network; `experimental/pokeys_async.c` is the LinuxCNC
HAL component on top of it. This directory models what decides whether a
request ends with the right answer, with no answer, or never; whether a function
of the library, made of several requests, has done what its `PK_OK` says; and
whether what LinuxCNC commands reaches the pulse engine. TLC checks the models,
TLAPS proves the main results.

    tlc -config AsyncWrap.cfg MCPoKeysLibAsync     # one run, see "The runs"
    tlapm PoKeysLibAsync_proof.tla                 # one module of proofs

## 1. Inventory of the code

| part | source | state | operations | hard behaviour |
|---|---|---|---|---|
| asynchronous mailbox | `PoKeysLibAsync.c` 1-512 | `pk_transactions[64]`, `current_request_id`, the breaker's `consecutive_errors`, `last_error_time` | create and send (with payload), receive and dispatch, time out and retry | answers lost, late, twice, reordered; ids come round; sends that fail; the breaker |
| task scheduler | `PoKeysLibAsync.c` 515-640 | `async_tasks[16]`, load, machine-on flag | register, dispatch, activate, set load, set machine on | starvation, bursts, throttling that feeds back on itself, table full |
| HAL component | `experimental/pokeys_async.c` | instance list, the device, `device_cache`, command queue, motion buffer | `FUNCTION(_)` (servo thread), `user_mainloop`, the realtime functions, set-up, export | order of the phases, time budgets, datagrams that arrive in between |
| motion buffer | `pokeys_async.c` 907-1012 | `MotionBuffer`, its entry count, carried fractions of steps | fill, send | a byte-wide count, rounding, answers that belong to another request |
| commands | `pokeys_async.c` 307-353, 652-826, 1150-1305 | `cmd_queue`, `motion_data`, `device_cache` | read pins, enqueue, process, update the cache | a full ring, two threads, a queue that stops when the link is bad |
| synchronous requests | `PoKeysLibCore.c` 953-1162, `PoKeysLibCoreSockets.c` 632-1003, `PoKeysLibFastUSB.c` 345-594 | `requestID`, retry limits, socket, handles | with and without response, multi-part | late answers, retry accounting, blocking reads, failed writes |
| connecting, device types | `PoKeysLibCore.c` 152-340, 577-822, `PoKeysLibDeviceData.c` | `device->info`, `DeviceData`, the arrays allocated by them | connect by serial number, read the device's data | nine requests any of which may fail; tables by hand |
| functions of the synchronous API | `PoKeysLibIO.c`, `..Encoders`, `..MatrixKB`, `..PulseEngine_v2`, `..LCD`, `..RTC`, `..I2C`, `..1Wire`, `..PoIL`, `..PoNET`, ... | the structure `sPoKeysDevice` | functions, each a sequence of requests | requests failing half-way; one call overwriting what another prepared |
| functions of the asynchronous API | `PoKeysLib*Async.c` | the same structure, and static contexts | functions, each made of requests and parsers | answers that come when the structure has changed; requests sent again |
| connecting, asynchronous | `PoKeysLibCoreAsync.c`, `PoKeysLibCoreSocketsAsync.c` | search and connection state | search, connect, disconnect | timeouts between steps |
| HAL canonical devices | `hal-canon/` | HAL pins | create | partial creation |
| vendored | `hid.c`, `hid-libusb.c`, `hid-mac.c` | | | not ours |

How they interact. An asynchronous function (`PK_EncoderValuesGetAsync`, ...)
calls `CreateRequestAsync` and `SendRequestAsync`, which take a slot of the
mailbox and send; the thread of the component calls such functions through the
scheduler, and `PK_ReceiveAndDispatch`, which finds the slot by the id the device
echoes and calls the function's parser on the device structure. A synchronous
function fills `device->request`, calls `SendRequest` and copies from
`device->response`. The two layers share the socket, each with a counter of ids of
its own. The realtime functions of the component turn pins into commands and
entries of the motion buffer, a second thread turns those into requests.

What makes each correct. Of the request layers: that `PK_OK` is given for the
answer to this request, that a request goes out a bounded number of times, and
that the caller gets an end. Of the scheduler: that no due task starves, none
fires in a burst, and throttling reacts to the load. Of connecting: that the device
is the one asked for, and that the structure never claims more than its arrays
hold. Of the functions: that after `PK_OK` structure and device agree, that what
the caller gave arrives, and that reading, changing and writing back changes
nothing else. Of the motion buffer and the queue: that every step and every
command reaches the engine once, in order.

`PROJECT.json` lists every component, and under "hazards" each place where one
of these could go wrong, with the property that covers it.

## 2. The modules

| module | models | source |
|---|---|---|
| `PoKeysLibAsync` | the mailbox, the network, the device, the clock | `PoKeysLibAsync.c` 13-512 |
| `RequestOutcomes`, `MailboxOutcomes` | what a client is promised of each request; the mailbox implements it | the same, as its callers see it |
| `PoKeysAsyncComp` | the component's thread around the mailbox, receive buffer included; refines `PoKeysLibAsync` | `pokeys_async.c` 621-645, 1014-1069 |
| `AsyncScheduler` | the scheduler, the component's registration of tasks, the load monitor | `PoKeysLibAsync.c` 515-640, `pokeys_async.c` 1088-1096, 1308-1357, `PoKeysLibDeviceStatusAsync.c` 52-63 |
| `EthRequest`, `HidRequest`, `FastUsbRequest` | the three request functions over one interface each | `PoKeysLibCoreSockets.c` 632-1003; `PoKeysLibCore.c` 988-1162; `PoKeysLibFastUSB.c` 345-594 |
| `SendRequest` | the request functions as every synchronous function calls them: composes the three | `PoKeysLibCore.c` 953-1130 |
| `MotionBuffer` | motion buffer, its requests and their answers | `pokeys_async.c` 907-1012, parts of `PoKeysLibPulseEngine_v2Async.c` |
| `CommandQueue`, `PulseCommands` | the ring; the realtime functions that fill it, its processing, the device cache | `pokeys_async.c` 307-353, 652-826, 1150-1305 |
| `DeviceTypes` | which type of device has which capabilities, counts, pins | `PoKeysLibDeviceData.c`, `PoKeysLibIO.c` |
| `DeviceData` | connecting by serial number, reading a device's data | `PoKeysLibCore.c`, `PoKeysLibDeviceData.c` |
| `Requests`, `IOCalls`, `PulseEngineCalls`, `PeripheralCalls`, `BusCalls`, `PoILCalls` | the functions of the synchronous API | one row of `map` each |
| `SyncApi`, `SyncCalls` | an application that calls them on a device found by `DeviceData` | |
| `SyncSteps` | in which order the steps of a function must come | the functions of `SyncApi` |
| `AsyncRequests`, `AsyncIOCalls`, `AsyncPulseCalls`, `AsyncPeripheralCalls` | the functions of the asynchronous API | one row of `map` each |
| `AsyncApi`, `AsyncCalls` | a program that calls them over the mailbox | |
| `AsyncSteps` | in which order the steps of an asynchronous function must come | the functions of `AsyncApi` |
| `..._proof` | theorems about `PoKeysLibAsync` (and `MailboxOutcomes`), `PoKeysAsyncComp`, `AsyncScheduler`, `SendRequest`, `MotionBuffer`, `PulseCommands`, `SyncCalls` (and `DeviceData`), `AsyncCalls` | |
| `MC...` | instances for TLC | |

### PoKeysLibAsync

`trans[i]` is `pk_transactions[i]`: `id`, `cmd` (`command_sent`), `status`,
`retries` (`retries_left`), and `age`, which stands for `now - timestamp_sent`
and saturates just above the timeout: the code compares the difference and
nothing else, and a slot never sent (`timestamp_sent == 0`) is older than any
timeout. A cleared slot is PENDING with id 0, as `memset` leaves it, and is
timed out and answered like any other. `CreateAndSendRequestAsync` is the two
calls every client makes; it allocates the first slot that is closed or has
id 0, takes the next id, looks the slot up again by that id, as
`SendRequestAsync` does, and sends or fails to. `CreateRequestTooBig` is the
return of -3 after a slot and an id have been taken. `ReceiveDiscard` and
`ReceiveDispatch` are `PK_ReceiveAndDispatch`. `PK_TimeoutAndRetryCheck` is
`TimeoutCheckNoHandle`, `TimeoutCheckBackoff` or `TimeoutCheckStart`, and then
one `TimeoutSlot...` step per slot; `scan` is the loop variable, and the host
does nothing else while it is not 0. The network (`wire`, `replies`) loses,
repeats and reorders. `Strays` are datagrams that answer nothing the mailbox
sent: late answers to the synchronous layer, wrong start bytes.

`serial`, `life`, `sends`, `disp` and `streak` are history: which request a slot
holds, for how long, how often it was transmitted, the last delivery, the
failures since the last success. Payloads are left to `AsyncCalls`; whether the
parser fails does not matter here, its result is ignored by the code.

### PoKeysAsyncComp

EXTENDS the mailbox and adds the thread (`phase`) and the socket's receive
buffer (`rx`, in order). `rtapi` chooses the build: drain, check timeouts,
dispatch, drain (`FUNCTION(_)`) or dispatch, drain, check timeouts
(`user_mainloop`). A discarded datagram returns a negative code and ends the
drain; the budget may end the second drain and the dispatching at any point.
Refinement: the mailbox's `replies` are the network's and the buffer's.

### AsyncScheduler

`plan` is the list of `register_async_task` calls a set-up makes; the first
failure stops it. `Dispatch(i)` is one call of `async_dispatcher()` that fires:
the earliest `next_call_time`, the first entry of several, after throttling.
`RunTask` keeps of the tasks only what the load monitor does to the scheduler.
`overtook` and `lastFired` are history. Time is an integer; tasks fire within
a unit; with `Budgeted` the clock may move while tasks are due.

### EthRequest, HidRequest, FastUsbRequest, SendRequest

One caller; each turn of the loops is an action. `requestID` wraps; packets
carry the number of the id they were given, so that equal ids can be told
apart. The counters (`retries1`, `retries2`, `waits`) are kept as the code
counts, post-increments and missing resets included. Over UDP the socket starts
with a stray answer or none; a multi-part request takes `BigParts` ids. The device
may answer a request the host does not wait for (it cannot tell), so that the
next call meets that answer. In `HidRequest` `hid_read()` blocks, as the devices
are opened, and fails only when unplugged; in `FastUsbRequest` reads end after
10 ms, and transfers fail at any time. `SendRequest` chooses the interface by
`connectionType`, as the switch statements of `PoKeysLibCore.c` do; a multi-part
request over HID is refused. Packets are abstracted to id and intactness.

### MotionBuffer

`MotionBufferFill` is `rt_motion_buffer_fill`: per axis the commanded position less the
accumulated one, in units of 1/`StepUnits` of a step, dead-banded, cut to whole
steps, clamped to seven bits, the rest carried. `MotionBufferSend` is
`rt_motion_buffer_send`: it queues `PK_PEv2_BufferFillAsync` and at once looks for an
answer (`CollectAnswer`, `CollectNothing`), and takes the accepted entries off the
buffer by shifting the bytes (`RemoveAccepted`). The device
takes any prefix of what it gets; answers arrive in that call, or later, or twice,
or never. `CountMod` is the width of the entry count. A status answer may change
the number of axes (`DeviceSetup`), and with it the size of an entry. A byte of the
buffer is modelled by the entry and axis it was made for. `missed` and `moved` are
history: a call has returned without its own answer, the number of axes has changed.

### CommandQueue, PulseCommands

`CommandQueue` has one action per step of `enqueue_async_command` and
`dequeue_async_command` (look at the count, write or read the cell, move the
index, change the count), since the two run in different threads and only the
count is atomic. `PulseCommands` drives it: the functions that read motion pins
and compare them with `motion_data`, home, set external outputs and handle the
emergency switch on the one side, `process_async_commands` (at most
`MAX_COMMANDS_PER_CYCLE`), the error count, and `update_device_cache` with its
reconnection on the other. A command is first put into `PEv2` (`reference`,
`extOutputs`) and the request made from there; when that fails `PEv2` keeps what no
request carries. What reached a request is history: `sent` and `sentOut`, and `failed`
and `failedOut` for axes and outputs whose last request could not be made.

### DeviceTypes, DeviceData

`DeviceTypes` holds the tables of `PK_DeviceDataGet` as functions of a device's
type and firmware: mask bits, capability flags, counts, and the three tables that
say which pin has a digital counter. `DeviceData` is `PK_ConnectToPoKeysDevice`:
candidates in the order of enumeration, each opened, initialised, compared and
kept or passed on; and `PK_DeviceDataGet` request by request, each of which may
fail. `allocated` is what the arrays were allocated for.

### Requests, the call modules, SyncApi, SyncCalls

A function of the API is a sequence of steps: what its guard demands, what a
request sends (`carries`) and what its answer stores (`reads`), what is assigned
from an argument (`takes`) or by the code, and whether a failure ends the
function, is ignored, or only skips the rest. The data are tokens: an *item* is a
field of the structure together with the index of the array half or axis a request
covers, and its value tells where it comes from (the device, the application, an
argument, never read). A field of which a function treats parts differently is an item
for each part: the key mappings of pins that the structure knows as inputs (part 0) and
of the other pins (part 1, `OtherPins`), which are stored as zero whatever is read
(`clears`) and sent as zero whatever the structure has (`zeroes`); the counter options
of pins with a counter and of those without. A field that the structure has once but
exchanges with every axis is one item (`SharedByAxes`). What a function can only send
as zero is `Erased`. `SyncApi` is the table of functions, with those that read
settings paired with those that write them. In `SyncCalls` a script is one of: a
function, called again while it fails; a reading function, then its writing one;
settings prepared, then another read, then the writing function. Each request may
be answered, fail before the device has carried it out, or after. Devices are
those `DeviceData` has connected to, with what failing reads left.

`SyncSteps` says of the steps alone, one item at a time, what makes the properties of
`SyncCalls` true: the last exchange of an item comes after all that parts structure
and device, or the item is sent only while a flag is set that is cleared after it
(`SettlesAt`, `SentByFlag`); an argument is taken before it is sent and not overwritten
in between (`DeliversAt`); a reading function changes nothing but the structure, and
the writing one sends what is there (`ReadsAt`, `WritesAt`); a step that fails returns
no PK_OK. `FunctionsInOrder` demands it of every script on the device at hand.

### AsyncRequests, the asynchronous call modules, AsyncApi, AsyncCalls

As above, but a request is filled in when it is queued, executed when it reaches
the device, and parsed when its answer is dispatched, with the structure as it is
by then: three actions. `AsyncCalls` keeps of the mailbox what the parsers can see:
requests can be lost, answered late, sent once more (also after a later
request was carried out), answered out of order, refused, fail to find a slot or
to be sent. Scripts are as in `SyncCalls`, and pairs of calls without waiting.
`marks` records which disturbances a behaviour had.

`AsyncSteps` says of the steps, one item at a time, what makes the properties of
`AsyncCalls` true. The last exchange of an item sends what the structure has from
there on (`SettlesAt`), or the item is sent only while a flag is set (`SentByFlag`);
every request of the function carries the same value of it (`Steady`), so that an old
one that is sent again does no harm; the exchange that reads it comes after all that
sends it (`LandsAt`). `AxisNamed`: an answer that is stored for the axis `PEv2.param1`
names is asked for after the function has named that axis, once. `KnownBy`: the pin
functions are read before the key mappings that are parsed by them. `Leaves`: a
function, and the answers to it, leave a field alone that the program has prepared;
`LeavesInPlace` asks that only of answers stored for the axis they were asked for. What
the first of two overlapping calls reads, the second leaves alone too.
`FunctionsInOrder` demands it of every function in every script.

## 3. The runs

CHECK_DEADLOCK FALSE is used where a run stops at a bound on calls or faults, in
`SchedulerFair`, where a set-up that fails stops the program, and in `SyncCalls`,
where a failed search does.

| run | checks | bounds, and why they suffice |
|---|---|---|
| `AsyncWrap` | TypeOK, MisdeliveryNeedsWrap, ThirdSendNeedsWrap, ErrorsBounded, KeepsPromise | 2 slots, 2 usable ids, 3 requests, timeout of one period: ids come round while the first request is still open, slots are reused, and an answer outlives both; 3.4 million states |
| `AsyncNoWrap` | FreedWithinTwoTimeouts | 8 ids, the breaker out of reach: what the comment says of a slot is true where neither ids nor breaker interfere |
| `CompMailbox` | ImplementsMailbox, PendingResolved | both builds, 2 requests, a breaker that opens at the first failure |
| `SchedulerFair` | TypeOK, OvertakenAtMostOnce, NoBurst | four set-ups (rates 1:2:2, 2:3:1, one registration too many, a bad rate), loads below and above the thresholds, toggling, 5 time units |
| `SendRequest` | RequestTypeOK, OwnAnswer, TransmissionsBounded, FailsOnlyBehind, Returns | over UDP 2 calls of up to 2 attempts, over USB 4 calls of up to 2 tries, 4 ids, multi-part of 2, two stray answers with ids that are used: ids come round within the calls, every retry branch is taken, answers to calls given up meet later ones |
| `MotionBuffer` | TypeOK, StepsConserved, CountStaysInRange, EachEntryOnce | 2 or 4 axes, a request of 4 bytes (two entries or one), half-step positions in both directions, one step per entry, a count modulo 6, 3 fills and 3 sends, one answer lost, late or repeated: the buffer is full, partly accepted and refilled |
| `PulseCommands` | TypeOK, OldestFirst, LastCommandKept, QueueDrained | a ring of 2, 4 commands, 2 axes, 4 changes of pins: the ring is full and comes round, the link fails after two errors and comes back |
| `SyncCalls` | TypeOK, RightDevice, NeverOverclaims, ArraysHoldCounts, CounterTablesAgree, OkMeansDone, ArgumentsReach, ReadModifyWrite, EditsSurviveReads, FunctionsInOrder | ten devices, one of each way of being identified, alone and with neighbours; one failing read in the search and one failing request in a script; every function, every pair of reading and writing, every other read in between; the order of the steps on all ten, after complete and partial reads |
| `AsyncCalls` | TypeOK, SettledMeansDone, AnswersLand, ReadModifyWrite, EditsSurviveReads, FunctionsInOrder | a network device of each generation, one fault a script; every function, and every pair; the order of the steps of each |

Arrays are two halves, axes two: a request covers one part, and one part not
covered is all a slip in a loop can show. One fault is enough where each failing
request is one more independent choice: what follows a failure is the script from
there, and it is explored from each.

What they show. Of the mailbox: an answer reaches the parser of another request
only if 255 ids (IdMod - 1) lie between the two; the same holds for a third
transmission; a client sees each request open, then answered, given up or failed,
its slot reused only after that, and given up only if it was sent; the
breaker is overshot by less than one table. Every request is resolved. Of the
component: both threads keep to the protocol of the mailbox, so the mailbox's
results hold of them. Of the scheduler: a waiting task is overtaken by each
other task once at most, and a task that fell behind fires no burst. Of the
synchronous requests: PK_OK is given for the answer to the latest transmission
only (or one a whole cycle of ids older); how often a request is carried out is
bounded; a call over the network fails only after a wait in vain or when it met an
older answer; a call returns unless a USB device stays silent. Of connecting: the
device is the one asked for, as far as numbers are compared, and a partial read claims
less than the device has, never more. Of the functions: PK_OK means done, settings that
are read and written back stay as they were and prepared settings arrive, but for the
exceptions named below; their steps are in order on every device, in both interfaces.
Of the motion buffer: no
fraction of a step is lost; entries are lost, repeated or shifted, and the count leaves
its range, only after one of two things: a call of the sender returned without its own
answer (`missed`), or a status answer changed the number of axes while entries were
buffered (`moved`; `PulseEngine_v2Async.c` 47). Of the commands: they come out in
order, and the last one is in the queue or in the last request made for it, unless the
code dropped it (`dropped`, `droppedOut`: a full queue, a device that is not ready) or
could not make the request (`failed`, `failedOut`).

Mutants: each property of a passing run is violated when one definition of the
model is replaced by the slip listed for it in `PROJECT.json` (the id not
masked, retries not counted, the breaker off by one, ...).

### The exceptions the properties name

Each is a definition of its own, read from the code:

| in | exception | what the code does |
|---|---|---|
| `DeviceData` | `Disputed` | two pins with a counter in one table and none in the other |
| | `CountersByMaskOnly` | four types have counters by their mask and none by their type |
| `SyncCalls` | `BestEffort` | encoder values, keyboard rows and code blocks whose request fails are passed over, with PK_OK |
| | `PWMFromPins` | enabled channels and duty cycles given as arguments are overwritten from HAL pins before they are sent |
| | `NeverRead` | PWM channels and duty cycles, COSM's description, the counter options of pins without a counter, and encoders from 13 on without ultra-fast encoders are written but never read |
| | `Erased` | the key mappings of pins that are not inputs, and byte 44 of an axis' configuration ("MPG 1x mode"), are sent as zero whatever the device has |
| | `StatusAndSetup`, `SharedByAxes` | fields of the pulse engine that are a setting and part of every status; the filter of the probe input, one field that comes with the configuration of every axis |
| | `short` | PoIL and UART transfers of which the device takes less than it was sent |
| `AsyncCalls` | `IgnoresFailures` | functions that go on when a request of theirs could not be made |
| | `OldRequestWins` | a request sent again after a later one undoes it; within `MatrixKBConfigurationSet` that leaves the keyboard off |
| | `OutOfOrder` | answers are stored where `PEv2.param1` points by then, and key mappings by pin functions |
| | `PinsReadTwice` | the second call wipes the pin functions the answers of the first are parsed by |
| | `ReadBefore` | of two calls that read an axis without waiting, the answer to the first is stored under the axis of the second, in whatever order they come: what the first has read of its axis is left out |
| | `NeverRead` | answers with the pins and key codes of encoders are thrown away; as in `SyncCalls` |
| | `Erased`, `ReadByOthers` | as in `SyncCalls` |
| | `uses.spoils` | items a function shifts, swaps or overwrites on the way (below) |

### Where code and documentation disagree

| run | the code | what is said of it |
|---|---|---|
| `SchedulerLoadLatch` | the load monitor is throttled by the load it should refresh | "so the value is refreshed on the next scheduler cycle" |
| `MotionResend` | entries the device has accepted are sent again when the answer is late | "unaccepted entries are then shifted ... so they are retransmitted" |
| `AsyncOutputs` | the request of `PK_DigitalIOSetAsync` carries zeros | "Asynchronously sets the digital IO values" |

Met while modelling, and not given runs of their own. Of the request layers:

- `transaction_find()` returns the first slot with the id whatever its status
  (`PoKeysLibAsync.c` 68; 61: "Finds an open transaction"), so that a late answer
  runs the parser of a closed transaction.
- a retry that goes out takes one error back (478; 477: "Reset consecutive error
  counter"), so that failures that are not consecutive open the breaker.
- "a slot is freed within 2 x timeout_us" (464) fails when the breaker is open.
- a discarded datagram ends the drain (`pokeys_async.c` 1023; 1019: "Drain ALL
  pending responses").
- over UDP, once one late answer is in the socket, each attempt reads the answer to
  the attempt before it (`PoKeysLibCoreSockets.c` 749; 625: "until a valid response
  is received or retries are exhausted"): the second case of `FailsOnlyBehind`.
- a failed write uses up both tries over HID and the fast interface
  (`PoKeysLibCore.c` 1042; 1037: "In case of an error, try sending again");
  a multi-part request over the fast interface never repeats although its loop
  says four.
- `SendRequest_NoResponse` over HID and UDP never returns PK_OK, so that
  `PK_WS2812_SendLEDdata` of more than 18 LEDs sends the first packet only; over the
  fast interface it returns PK_OK also when both writes failed.

Of the component:

- `scheduler_set_machine_on` is called only from `update_device_cache`, which
  nothing calls: LOW tasks are never suppressed by "Machine On", against
  `PoKeysLibAsync.h` 513.
- the motion buffer and the realtime functions are not called by the shipped
  `FUNCTION(_)`; commands queued before an emergency stop are still sent after it.
- a second instance of the component registers 14 more tasks in a table of 16
  and fails to load.
- the first due times of the shipped tasks (rate plus prime offset: 1000, 4, 8,
  10, 12, 21, 23, 117, 119, 123, 39, 33, 47, 241 ms) are all different, as
  "never fire simultaneously on the first scheduler cycle" wants.

Of connecting and device data:

- a network search that finds nothing reads the device it did not find for a
  message; `serialSearch` is compared but never written (`PoKeysLibCore.c` 603); a
  rejected USB candidate's handle is not closed (711); the fast interface compares
  the last five digits of a serial number.
- after a first read that failed half-way and a later complete one the counts exceed
  the arrays: `ArraysHoldCounts` holds of complete first reads only.
- the tables of counters by type and by pin disagree on pin 20 of the 57CNC and pin 19
  of the pro4x25 (`Disputed`), and those by type and by mask on four whole types
  (`CountersByMaskOnly`: 57Utest, OEM1, SerialReader, X15_02_24). These have the mask bit
  of the 57 series and with it 25 counters (`PoKeysLibIO.c` 396-397), and no case of their
  own by type, so none (459). OEM1 and SerialReader also have the capability
  `iDigitalCounters`, so that `PK_PinConfigurationGet` takes those pins for counters.
  `PK_DeviceID_27E` and `27U` are put into a mask of type bits
  (`PoKeysLibDeviceData.c` 1366).

Of the functions:

- asynchronous sets of PWM, PoExtBus and the RC filter send zeros, as
  `DigitalIOSet` does; `PK_EncoderConfigurationSetAsync` shifts the second halves by
  one byte and `PK_EncoderValuesSetAsync` writes past its array; answers 13 and 14
  of `PK_PinConfigurationGetAsync` are stored in each other's place, and its request
  for counters zeroes the pin functions; parsers of analog inputs and counters read
  the structure's request or response instead of the datagram; homing masks are
  sent in the payload instead of the parameters.
- after a failed send `PK_DigitalIOSetAsync` returns PK_OK without sending, since
  its copy of the last outputs is renewed first.
- reading the pin configuration stores zero for the key mappings of pins that are not
  (triggered) inputs, and writing sends zero for them (`PoKeysLibIO.c` 93-180, 240-308;
  `PoKeysLibIOAsync.c` 189-290, 384-431): writing back what was read erases them on the
  device. The counter options are read of pins with a counter only and written of all
  pins (74-81, 228).
- writing the configuration of an axis sends zero for the "MPG 1x mode", which reading
  skips (`PoKeysLibPulseEngine_v2.c` 274, 335; `PoKeysLibPulseEngine_v2Async.c` 212).
  `FilterProbeInput` belongs to no axis (279, 341): prepared for one, it is overwritten
  by reading another.
- `PK_PEv2_AxisConfigParse` stores an answer under the axis that `PEv2.param1` names by
  then (`PoKeysLibPulseEngine_v2Async.c` 79): of two axes read without waiting, the first
  is stored under the second, and then overwritten by it.
- `PK_EmergencyStopAllAsync` sets flags and does not stop the engine;
  `PK_UARTWriteAsync` ignores how many bytes were taken; transfers over SPI never
  fill the buffer to be read; button states are those of the previous answer.
- `PK_MatrixKBConfigurationSet` failing midway leaves the keyboard off; the PoIL
  memory functions of type 0 ignore failures; `PK_EasySensorsSetupGet` clears the
  pointer to the sensor's value.

### Fairness

Mailbox: weak fairness of the timeout check and of its loop, which the thread
calls in every period, and strong fairness of the clock, which cannot move in
the middle of that loop. The component is assumed to have only weak fairness of
its thread and of the clock; that it satisfies the mailbox's fairness is part of
`ImplementsMailbox`. `SendRequest`: the caller's thread runs; `select()` and bulk
reads time out; `hid_read()` does not, but the device deals with each report it
gets (it may ignore it). `PulseCommands`: the steps of an enqueue that has begun, the
processing (its comment, `pokeys_async.c` 1150: "called from RT thread
periodically"), and, while the link counts as bad, the update of the cache.

## 4. The proofs

### The mailbox

`PoKeysLibAsync_proof` proves for every number of slots, ids, requests, every
timeout and threshold (assumptions: `AsyncAssumption`, each constant a number of
the right kind and at least one usable id):

| theorem | property |
|---|---|
| `TypeCorrect` | TypeOK |
| `SharedIdOnlyByWrap` | SharedIdNeedsWrap, which no run checks |
| `MisdeliveryOnlyByWrap` | MisdeliveryNeedsWrap |
| `BreakerOvershoot` | ErrorsBounded |
| `ThirdSendOnlyByWrap` | ThirdSendNeedsWrap |
| `TimeoutOnlyIfSent` | TimeoutMeansSent |
| `FreedInTime` | FreedWithinTwoTimeouts, while ~BackedOff and NextIdFree |
| `PromiseKept` | KeepsPromise |

The argument. `IdInv`: the serial number of a request and its id agree modulo
IdMod - 1, in every slot, every datagram and `currentId` itself; needed because
the property speaks of two serials and nothing else ties them to ids. Two
requests with one id then differ by a multiple of IdMod - 1
(`SameIdApart`). `ErrorInv` relates the counter to the loop variable: at slot
`scan` fewer than threshold + scan - 1 errors have been counted. `SendInv`:
transmissions plus retries left are at most two for the request of every slot
whose id has not come round, serials in the table are distinct, a request out of
retries has been transmitted, and serials not handed out have not been sent. Each
invariant has one step per action; steps that touch neither ids (`SameIdsKeep`)
nor transmissions (`NothingSentKeeps`) share a lemma.

`FreedInTime` is the comment's "freed within 2 x timeout_us" with what it takes for
granted as its hypotheses: that the check is never held back by the breaker
(`BackedOff`), during which no slot is looked at, and that no slot still holds the
next id (`NextIdFree`), since `SendRequestAsync` would then renew the time of that
slot instead of the new one's. `AsyncNoWrap` has instances of both. `TimeInv`: the
time a slot has been open is bounded by its age and its retries (`InTime`), and once
the check has gone past a slot in this period (`Seen`) nothing overdue is left
there (`Clear`), so that the clock adds one period to an age below the timeout.

`PromiseKept`: the mailbox implements
`RequestOutcomes` (`KeepsPromise`), a specification that knows of no slots, ids,
retries or clock, only of what became of each request and which were transmitted.
The refinement mapping reads the outcome off the slot that holds the request.
`SlotTaken` shows that `transaction_alloc` takes only slots of resolved requests
(one with id 0 holds none, by `IdInv`), `CreateMakes` that it does not matter to the
clients when `SendRequestAsync` finds another slot, `SlotChanges` covers the steps
that resolve one request; that GiveUp only meets requests sent is `SendInv`.

### The component

`PoKeysAsyncComp_proof` proves of both builds, for every number of datagrams in the
socket:

| theorem | property |
|---|---|
| `KeepsToMailbox` | CompSpec => Mailbox!Spec, the safety half of ImplementsMailbox |
| `ComponentMisdelivery` | MisdeliveryNeedsWrap |
| `ComponentTransmissions` | ThirdSendNeedsWrap, TimeoutMeansSent, ErrorsBounded |
| `ComponentPromise` | KeepsPromise of its mailbox |

A step of a phase is one step of the mailbox or none; reading one datagram of the
socket's queue is one delivery by the network, whose `replies` are those on the way
and those in the queue (`ReceivedTail`). `PhaseInv` ties the phase of the thread to
`scan` and `polled` of the mailbox: no call starts while the check goes through the
slots, and the thread sleeps, letting the clock move, only when the check was made. The
theorems of the mailbox are then theorems of the component, by instantiation.

### The scheduler

`AsyncScheduler_proof`, for every table size, set-up, period, budget and load
(`SchedulerAssumption`):

| theorem | property |
|---|---|
| `TypeCorrect` | TypeOK |
| `NobodyStarves` | OvertakenAtMostOnce |
| `NoCatchingUp` | NoBurst |

The counters of `OvertakenAtMostOnce` say nothing of when tasks fall due, so that
`FiringInv` adds it: a task that overtook another once is due after it (`Behind`),
and the dispatcher, which fires what has been due longest, then does not prefer it
again; that needs intervals above 0 (`Positive`), which registering requires. `Spaced`
says a task that ran is due its interval later; a task never due early is what
`NoBurst` comes to.

### The motion buffer

`MotionBuffer_proof`, for every number of axes, size of the request, width of
the count, scale, deadband and set of commands (`MotionBufferAssumption`):

| theorem | property |
|---|---|
| `TypeCorrect` | TypeOK |
| `NoStepLost` | StepsConserved |
| `NoEntryLostOrRepeated` | EachEntryOnce |
| `CountStaysInRoom` | CountStaysInRange |

The argument: `StepsConserved` is inductive together with the types. `StepKeepsSum`
is the step for one axis: cutting to whole steps rounds down (`FloorAndRest`, for
moves of either sign), the rest and the fraction kept before make at most one step
more, and what is left is again a fraction. That the entry count keeps within its
byte needs that no request has room for as many entries (`RoomIsNarrow`,
`FitsInCount`); the products of the sums are taken apart by `Distributes`.

`EachEntryOnce` speaks of the device's entries only. `OrderInv` says, for as long as
every call has collected its own answer and the axes have not changed (`Calm`), that
the buffer holds the entries made after those taken, in order and for the right axis
(`Lined`), and that at most one request is under way, which carries the buffer as it
is (`UnderWay`): after the device has taken `acc` entries and before the sender has
moved the rest down, these are in both places. Otherwise nothing is under way
(`Quiet`).

### The commands

`PulseCommands_proof`, for every size of the ring, number of axes, positions,
limits and interleaving (`CommandQueueAssumption`, `PulseCommandsAssumption`):

| theorem | property |
|---|---|
| `TypeCorrect` | TypeOK |
| `CommandsInOrder` | OldestFirst |
| `NoCommandLost` | LastCommandKept, of positions and of external outputs |

The argument: the ring holds, from `tail` on, the commands put in and not yet taken
out, in order. Between the steps of the two threads this is true only up to the
step each is in (a command written and not counted, one counted and already
copied), so `Positioned` states head, tail and count relative to the lengths of the
history and the two program counters, and `Filled` what the cells between hold; these
are distinct because their number never exceeds the ring (`CellsApart`).
`PulseCommands` uses the queue only by its steps (`QueueKept`), so that `QueueInv`
carries over; `CycleInv` bounds the commands of one cycle.

`NoCommandLost` is about the last of the commands of one kind that still wait. They are
named by their numbers, so that a step of the queue changes a set (`SameWaiting`,
`OldestGone`), not a sequence to be filtered; `PosKept` of `CommandInv` says that the
last position commanded is that of the last such command, or, when none waits, the
one in the last request made for the axis, if that request could be made.

### The request functions

`SendRequest_proof` proves of the three interfaces at once, for every number of ids,
retries, waits, calls, parts of a request and stray answers
(`SendRequestAssumption`, `HidAssumption`, `FastUsbAssumption`):

| theorem | property |
|---|---|
| `SendTypes` | RequestTypeOK |
| `TakesOwnAnswer` | OwnAnswer |
| `TransmitsNoMore` | TransmissionsBounded |
| `FailsOnlyWhenBehind` | FailsOnlyBehind |

The argument: `OwnAnswer` speaks of the number of the answer taken, the code compares
ids. `NetIds` and `UsbIds` tie the two: what is on the wire, in the socket or in an
endpoint carries the remainder of a number handed out (`Numbered`), the counter is the
remainder of their count, a multi-part request advancing both by its parts
(`RestOfSum`); answers from before the program carry no number. Two numbers with one
id are equal or a whole cycle apart (`SameIdApart`). `NetAttempts` counts the
transmissions by `retries2`, one behind while an answer is awaited; `UsbAttempts` by
`retries`, except in the multi-part function, which leaves after one. The actions of HID
and of the bulk endpoints share one lemma for a write (`UsbWrites`), one for a read
(`UsbReads`) and one for the rest (`UsbGoesOn`).

`FailsOnlyWhenBehind` needs to know what is on the way: as long as a call has heard
nothing and no wait of it was in vain (`Unanswered`), it is at its first attempt, and
everything on the wire and in the socket is older than the call or belongs to that
attempt (`NetBehind`), so that the first datagram heard answers it, or is behind.

### Connecting

`SyncCalls_proof` proves of `DeviceSpec` (the part of the program that connects), for every set of identities and list of
candidates (`DeviceAssumption`), every number of failing requests and of reads:

| theorem | property |
|---|---|
| `HandsOutRightDevice` | RightDevice |
| `ClaimsNoMore` | NeverOverclaims |
| `ArraysLargeEnough` | ArraysHoldCounts |
| `CounterTablesOfAll` | CounterTablesAgree |
| `DeviceTyped` | DeviceTypeOK, the device's part of TypeOK |

The steps of `SyncCalls` that connect and read are those of `DeviceSpec` (`Connects`). A USB device
that does not show its number is opened before it is known: `SerialInv` says that until
the first read returns its number is 0 or the true one, after it the number asked for,
and that nobody asks for 0. `NeverOverclaims` is inductive, as the structure is
cleared first. `ArrayInv` adds that counts once read are those of the type (`Counted`), and
that the arrays allocated after a complete read are too (`Allocated`). `TypeInv` says
that once the device data are read, type and mask are those of the device; the tables are
then compared for each type there is (`MaskAgrees`, `NoneByType`, `PinsAgree`), not only for
the ten devices of the run. `RightDevice` holds the number only as far as the code
compares it: in full over the network and of a USB device that hides it, in the last
five digits over the fast interface, and not at all where a USB descriptor shows it.
`CounterTablesAgree` has two exceptions, both named: the pins in `Disputed` and, for
the counters a type has by its mask only, the types in `CountersByMaskOnly`.

### The functions of the synchronous API

It proves of `Spec /\ []FunctionsInOrder`, for every set of devices and
any number of failing requests (`SyncAssumption`); the run has one failure:

| theorem | property |
|---|---|
| `OkIsDone` | OkMeansDone |
| `ArgumentsArrive` | ArgumentsReach |
| `ReadAndWriteBack` | ReadModifyWrite |
| `EditsArrive` | EditsSurviveReads |
| `TypeCorrect` | TypeOK |
| `Connects` | DeviceSpec: what is proved of connecting holds here |

The hypothesis is about the functions' code alone: it does not speak of failures, of
what the device has done, nor of the other call of a script; the run checks it.
`RunInv` says where a call is: `todo` is the rest of its steps after `At` of them, it
has returned exactly when nothing is left to be run, and only a BestEffort function
goes on after a failure. `StepMoves` lists all that one step can do to one item:
passed over, assigned, exchanged, taken in part, failed and passed over, or the call
ends. Each property then has an invariant about an item and the position k where its
order is settled: once `At` has passed k, the property holds of the item, and no
later step undoes it (`SettlesStep`, `DeliversStep`, `ReadsStep`, `WritesStep`).
`FlagInv` is the one that outlives a failed call: a flag that is clear tells, in all
calls to come, that its item has been sent (`FlagStep`), though the request that sends
it will be passed over.

### The functions of the asynchronous API

`AsyncCalls_proof` proves of `Spec /\ []FunctionsInOrder`, for every set of devices and
any number of faults (`AsyncCallsAssumption`); the run has one fault:

| theorem | property |
|---|---|
| `TypeCorrect` | TypeOK |
| `DoneWhenSettled` | SettledMeansDone |
| `EditsSurvive` | EditsSurviveReads |
| `AnswersAreStored` | AnswersLand |
| `WrittenAsRead` | ReadModifyWrite |

The hypothesis speaks of the functions' code alone (`AsyncSteps`), not of faults, of
the mailbox or of the device; the run checks it.

Where a script is: `RunInv`, as in `SyncCalls_proof`, with `MailOK`, which ties every
request to a step of a call so far and every answer to a request. A step of the
function (`CallingMoves`) and one of the mailbox (`MailMoves`) are each summed up in
one lemma: which requests are made or change, which are executed, where an answer
comes from. All that follows uses these, not the actions.

`DoneWhenSettled` needs two invariants. `CoverInv`: once the step that settles an item
is over, the device has the value meant, or a request that carries it is neither
answered nor has an answer on its way (`Covered`, `Undone`); when all is answered, the
first is left. A retry executes such a request once more, which must not change the
item: `ValueInv` says that where `Steady` holds all requests under way, all answers
and the structure have one value of it (`Target`). `FlagInv` carries `CoverInv` over a
call that failed and is made again, where a cleared flag is all that is left of it.
`LiveInv` keeps the calls apart: without overlapping, requests not yet dead are those
of the call that runs.

`EditsSurvive` adds `EditInv`: the prepared field and what was meant are as the program
left them, since the function in between leaves the item in place (`LeavesInPlace`):
answers stored for an axis go to the axis it named (`AxisInv`), and fields that all
axes share (`SharedByAxes`) are left out.

`AnswersAreStored` has a case for answers in their order and one for answers in any
order. In order (`InSequence`), `OnceInv` says that each request is answered at most
once; `QueueInv` follows the queue of answers: the structure has the device's value
and no answer under way touches the item, or the last that does carries that value
(`Fresh`, `Landed`), or a request was lost for good (`Doomed`), and the call cannot
succeed. Out of order only what the call reads and does not send needs care: all
answers then carry one value, the device's (`ReadInv`, `DeviceKept`), so that it does
not matter which comes last, only that one does (`LandInv`: the item agrees, or a request
for it is still open). Items that are both read and sent have one value by `ValueInv`.
Two invariants say how answers are stored: `AxisInv`, that `PEv2.param1` names the
axis asked for as long as an answer for it is on its way; `KnownInv`, that the pin
functions are known before the key mappings arrive, or an answer that precedes them
will tell (`Foretold`); its first half, about the call before, is `FirstInv`, and
`NoFailInv` says that the function does not stop in between. Of two overlapping calls
the second is the one these are about; what the first has read and the second leaves
alone is the matter of `EarlierInv`: the structure has the device's value, or the last
answer under way that stores the item brings it, or a request was lost for good.

`WrittenAsRead` is the sum of these: at the second call the structure has what the
device has, by the invariants of `AnswersAreStored`, or a request of the first has failed
for good (`Dead`); nothing changes it until it is sent (`RmwInv`), and what is sent
arrives, by `CoverInv`.

### What is only model-checked

Liveness and ENABLED, which are out of the prover's reach: `PendingResolved`,
the fairness half of `ImplementsMailbox`, `Returns`, `QueueDrained`.

Which request of which function covers which items: `FunctionsInOrder` of both
interfaces, the hypothesis of their theorems. The synchronous one is evaluated for
every function on ten devices, in every state reading them can leave, the asynchronous
one on a device of each generation; there are some 300 functions, put together by
`FlattenSeq`, a recursive function, about which nothing can be proved here without
induction over data.

All other invariants of the passing runs are theorems.

## 5. Not modelled, and why

- The bytes of requests and answers: the call modules say which items a request
  covers, not where in the packet they lie. Slips of position appear where they move
  an item to another (`uses.spoils`).
- Devices, other than through their answers; what bus partners answer.
- HAL: export of pins, canonical devices (`hal-canon/`), the mapping of PoNET modules
  (`PoKeysLibPoNETHal.c`). They run once at start-up or copy values.
- Searches: the broadcast search over the network, USB enumeration, the
  asynchronous state machines of `PoKeysLibCoreAsync.c` and of the Industrial devices.
  `DeviceData` takes what they find as given. TCP: no loss or reordering, so that the
  UDP model covers its answers.
- Windows code paths (`#ifdef WIN32`: other retry limits), vendored HIDAPI.
- `PoKeysLibPWMAsync.c`, `pokeys_async2.c`, `experimental/async_scheduler.c`: in no
  build of the component.
- The percentage of connection quality and the capped failure count, which nothing
  reads.
- Floating point: positions are integers in units of 1/StepUnits of a step.
- How long a task takes: `user_mainloop`'s loop over due tasks ends in the models.

## 6. Plan

1. Asynchronous connecting and the search of the Industrial devices.
