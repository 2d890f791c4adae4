---------------------------- MODULE DeviceData ----------------------------
(***************************************************************************)
(* Connecting to a device by its serial number and learning what it is:    *)
(* PK_ConnectToPoKeysDevice() and InitializeNewDevice() of PoKeysLibCore.c *)
(* and PK_DeviceDataGet() of PoKeysLibDeviceData.c.  PK_DeviceDataGet()    *)
(* clears the info structure and fills it while up to nine requests        *)
(* succeed; each of them may fail, and its callers ignore the result.      *)
(*                                                                         *)
(* A candidate is what enumerating the interfaces and searching the        *)
(* network find: a device, the interface (via), whether the USB descriptor *)
(* shows its serial number, and whether opening it succeeds.  The network  *)
(* comes last: a search that begins there and finds nothing ends the       *)
(* program, by reading the device that was not found for a message.        *)
(***************************************************************************)
EXTENDS DeviceTypes, Sequences

CONSTANTS
    Identities,   \* what devices report of themselves
    Searches,     \* sequences of candidates, in the order they are tried
    MaxFailures,  \* bound on the requests that fail
    MaxReads      \* bound on the calls of PK_DeviceDataGet()

\* activated: bit 0 of the activated options.
Identity == [extended : BOOLEAN, serial : Nat \ {0}, type : STRING, major : 0..255, minor : 0..255,
             activated : BOOLEAN]
Candidate == [device : Identities, via : {"usb", "net", "fast"}, shown : BOOLEAN,
              opens : BOOLEAN]

ASSUME DeviceAssumption ==
    /\ Identities \subseteq Identity
    /\ \A s \in Searches : \A i \in DOMAIN s :
           /\ s[i] \in Candidate
           /\ s[i].via = "net" => \A j \in i..Len(s) : s[j].via = "net"
    /\ MaxFailures \in Nat /\ MaxReads \in Nat

VARIABLES
    pc,         \* "search", "get" (in PK_DeviceDataGet), "ready" or "gone"
    wanted,     \* the serial number asked for
    search,     \* the candidates not tried yet
    device,     \* the candidate that is open
    stage,      \* the next request of PK_DeviceDataGet()
    type,       \* DeviceData.DeviceType
    mask,       \* DeviceData.DeviceTypeID
    serial,     \* DeviceData.SerialNumber
    counts,     \* info: numbers of pins, encoders, PWM outputs
    flags,      \* info: the capabilities
    allocated,  \* what InitializeNewDevice() allocated the arrays of the device for:
                \* counts, whether there are sensors, and the result of the read before
    rc,         \* what PK_DeviceDataGet() last returned
    fresh,      \* it was called by InitializeNewDevice()
    failures, reads

deviceVars == <<pc, wanted, search, device, stage, type, mask, serial, counts, flags, allocated,
                rc, fresh, failures, reads>>

Stages == {"identify", "lock", "network", "name", "build0", "build1", "build2", "activation"}
AllFlags == DOMAIN CapabilityIf("57U", FALSE) \cup {"iPulseEngine", "iPulseEnginev2",
                                                     "iEasySensors"}

DeviceTypeOK ==
    /\ pc \in {"search", "get", "ready", "gone"}
    /\ stage \in Stages
    /\ counts \in [DOMAIN NoCounts -> 0..55] /\ allocated.counts \in [DOMAIN NoCounts -> 0..55]
    /\ flags \subseteq AllFlags
    /\ rc \in {"none", "PK_OK", "PK_ERR_TRANSFER"}
    /\ {fresh} \subseteq BOOLEAN
    /\ failures \in 0..MaxFailures /\ reads \in 0..MaxReads

DeviceInit ==
    /\ search \in Searches
    /\ \E i \in DOMAIN search : wanted = search[i].device.serial
    /\ pc = "search" /\ device = search[1] /\ stage = "identify"
    /\ type = "55v1" /\ mask = {} /\ serial = 0 /\ counts = NoCounts /\ flags = {}
    /\ allocated = [counts |-> NoCounts, sensors |-> FALSE, read |-> "none"]
    /\ rc = "none" /\ fresh = FALSE /\ failures = 0 /\ reads = 0

EarlyFirmware(id) == id.major = 32 /\ id.minor < 13

\* The type of the open device, as PK_DeviceDataGet() finds it.
TypeFound(c) ==
    IF c.device.extended THEN c.device.type
    ELSE LegacyType(c.device.serial, c.device.major, c.via = "net")

(***************************************************************************)
(* PK_DeviceDataGet().                                                     *)
(***************************************************************************)
\* A slip for BeginDataGet: the info structure of the device before stays.
BeginDataGet_NoReset(new) ==
    /\ reads < MaxReads
    /\ reads' = reads + 1
    /\ pc' = "get" /\ stage' = "identify" /\ fresh' = new
    /\ type' = "55v1" /\ UNCHANGED <<counts, flags>>
    /\ mask' = IF new THEN {} ELSE mask
    /\ serial' = IF new THEN 0 ELSE serial

BeginDataGet(new) ==
    /\ reads < MaxReads
    /\ reads' = reads + 1
    /\ pc' = "get" /\ stage' = "identify" /\ fresh' = new
    /\ type' = "55v1" /\ counts' = NoCounts /\ flags' = {}
    /\ mask' = IF new THEN {} ELSE mask
    /\ serial' = IF new THEN 0 ELSE serial

Reads(s) ==
    CASE s = "network" -> devEth(TypeFound(device))
      [] s \in {"build0", "build1", "build2"} -> ~device.device.extended
      [] s = "activation" -> Series(TypeFound(device)) \in {"27", "55", "56", "57", "58"}
      [] OTHER -> TRUE

Order == <<"identify", "lock", "network", "name", "build0", "build1", "build2", "activation">>
StageAt(s) == CHOOSE i \in DOMAIN Order : Order[i] = s
LaterStages(s) == {i \in DOMAIN Order : i > StageAt(s) /\ Reads(Order[i])}
NextStage(s) == Order[CHOOSE i \in LaterStages(s) : \A j \in LaterStages(s) : i <= j]
\* A slip for KeepsSearching: the number read is not compared any more.
KeepsSearching_Never == fresh /\ FALSE

\* Whether the search goes on after InitializeNewDevice() has returned: a
\* device whose descriptor showed no serial number is compared only now.
KeepsSearching == fresh /\ device.via = "usb" /\ ~device.shown /\ serial' # wanted
\* A slip for Return: the arrays are allocated before the last answer counts.
Return_AllocatesEarly(result) ==
    /\ rc' = result
    /\ pc' = IF KeepsSearching THEN "search" ELSE "ready"
    /\ allocated' = IF fresh
                    THEN [counts |-> counts', sensors |-> "iEasySensors" \in flags, read |-> result]
                    ELSE allocated
    /\ UNCHANGED stage

\* PK_DeviceDataGet() returns; InitializeNewDevice() goes on whatever it returned.
Return(result) ==
    /\ rc' = result
    /\ pc' = IF KeepsSearching THEN "search" ELSE "ready"
    /\ allocated' = IF fresh
                    THEN [counts |-> counts', sensors |-> "iEasySensors" \in flags', read |-> result]
                    ELSE allocated
    /\ UNCHANGED stage

\* The capabilities are worked out once all requests but the last have been
\* answered, the pulse engine after the last.
Derived(s) ==
    LET id   == device.device
        base == Capabilities(TypeFound(device), EarlyFirmware(id))
    IN  IF LaterStages(s) = {}
        THEN base \cup PulseEngine(TypeFound(device), id.major, id.minor, id.activated)
        ELSE IF NextStage(s) = "activation" THEN base ELSE flags

Answered ==
    /\ pc = "get"
    /\ serial' = IF stage = "identify" THEN device.device.serial ELSE serial
    /\ IF stage = "lock"
       THEN /\ type' = TypeFound(device)
            /\ mask' = DeviceMask(TypeFound(device), mask)
            /\ counts' = Counts(TypeFound(device))
       ELSE UNCHANGED <<type, mask, counts>>
    /\ flags' = Derived(stage)
    /\ IF LaterStages(stage) = {} THEN Return("PK_OK")
       ELSE stage' = NextStage(stage) /\ UNCHANGED <<pc, rc, allocated>>
    /\ UNCHANGED <<wanted, search, device, fresh, failures, reads>>

\* SendRequest() fails: PK_ERR_TRANSFER, the rest stays as it is.
NotAnswered ==
    /\ pc = "get" /\ failures < MaxFailures
    /\ failures' = failures + 1
    /\ UNCHANGED <<serial, type, mask, counts, flags>>
    /\ Return("PK_ERR_TRANSFER")
    /\ UNCHANGED <<wanted, search, device, fresh, reads>>

(***************************************************************************)
(* PK_ConnectToPoKeysDevice(): the interfaces in the order of the search.  *)
(***************************************************************************)
SameDigits(m, n) == m % 100000 = n % 100000

\* What comparing the numbers may yield: serialSearch, with which the descriptor
\* of a USB device is compared, is never written.
Comparisons(c) ==
    CASE c.via = "usb"  -> IF c.shown THEN BOOLEAN ELSE {TRUE}
      [] c.via = "fast" -> {SameDigits(c.device.serial, wanted)}
      [] OTHER          -> {c.device.serial = wanted}

\* Opening a device that fails ends the search over that USB interface.
AfterFailure(c) ==
    CASE c.via = "usb"  -> SelectSeq(Tail(search), LAMBDA other : other.via = "net")
      [] c.via = "fast" -> SelectSeq(Tail(search), LAMBDA other : other.via # "fast")
      [] OTHER          -> Tail(search)

TryCandidate ==
    /\ pc = "search" /\ search # <<>>
    /\ LET c == Head(search) IN
       \E matches \in Comparisons(c) :
          IF matches /\ c.opens
          THEN /\ device' = c /\ search' = Tail(search)
               /\ BeginDataGet(TRUE)
               /\ UNCHANGED <<wanted, allocated, rc, failures>>
          ELSE /\ search' = IF matches THEN AfterFailure(c) ELSE Tail(search)
               /\ UNCHANGED <<pc, wanted, device, stage, type, mask, serial, counts, flags,
                              allocated, rc, fresh, failures, reads>>

\* NULL is returned - or, after a search of the network, read for a message.
NotFound ==
    /\ pc = "search" /\ search = <<>>
    /\ pc' = "gone"
    /\ UNCHANGED <<wanted, search, device, stage, type, mask, serial, counts, flags, allocated, rc,
                   fresh, failures, reads>>

\* The application calls PK_DeviceDataGet() of a device it has.
ReadAgain ==
    /\ pc = "ready"
    /\ BeginDataGet(FALSE)
    /\ UNCHANGED <<wanted, search, device, allocated, rc, failures>>

DeviceNext == Answered \/ NotAnswered \/ TryCandidate \/ NotFound \/ ReadAgain

DeviceSpec == DeviceInit /\ [][DeviceNext]_deviceVars

(***************************************************************************)
(* Properties.                                                             *)
(***************************************************************************)
\* A device handed out under a serial number is the one with that number,
\* whatever was opened and read before it and however reads failed - as far as
\* the number is compared: not with a USB descriptor, and over the fast
\* interface by its last five digits.
RightDevice ==
    pc = "ready" =>
        CASE device.via = "usb" /\ device.shown -> TRUE
          [] device.via = "fast" -> SameDigits(device.device.serial, wanted)
          [] OTHER -> device.device.serial = wanted

\* A partial read claims less, never more: whatever failed, the info structure
\* holds no capability and no count a complete read of this device would not give.
NeverOverclaims ==
    LET id == device.device IN
    pc \in {"get", "ready"} =>
        /\ flags \subseteq Capabilities(TypeFound(device), EarlyFirmware(id)) \cup
                           PulseEngine(TypeFound(device), id.major, id.minor, id.activated)
        /\ counts \in {NoCounts, Counts(TypeFound(device))}

\* A device whose first read was complete never claims more pins, encoders,
\* outputs or sensors than its arrays have room for, whatever later reads did.
ArraysHoldCounts ==
    (pc = "ready" /\ allocated.read = "PK_OK") =>
        /\ \A n \in DOMAIN counts : counts[n] <= allocated.counts[n]
        /\ "iEasySensors" \in flags => allocated.sensors

\* The pins the two capability tables disagree about: one has the counter, one has not.
Disputed == {<<"57CNC", 19>>, <<"57CNCpro4x25", 18>>}

\* Types with the mask bit of the 57 series and no case of their own in
\* PK_IsCounterAvailableByTypeID: to them the mask gives the counters of the series
\* (PoKeysLibIO.c 396-397) and the type none (459).
CountersByMaskOnly == {"57Utest", "OEM1", "SerialReader", "X15_02_24"}

\* The three tables of digital counters agree.  A counter the type has the mask has
\* too, and only the types of CountersByMaskOnly have one by mask and not by type;
\* the capability of a pin and the counters of the type agree on every pin of every
\* type but the two in dispute.
CounterTablesAgree ==
    (pc = "ready" /\ rc = "PK_OK") =>
        \A pin \in 0..54 :
            LET byType == IsCounterAvailableByTypeID(type, pin)
                byMask == IsCounterAvailableByDevice(mask, pin)
            IN  /\ byType => byMask
                /\ byMask => byType \/ type \in CountersByMaskOnly
                /\ \/ <<type, pin>> \in Disputed
                   \/ CheckPinCapabilityByTypeID(type, pin, "digitalCounter") <=> byType
=============================================================================
