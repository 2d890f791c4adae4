-------------------------- MODULE SyncCalls_proof --------------------------
(***************************************************************************)
(* Connecting hands out the right device, and the info structure never     *)
(* claims more than the device has or its arrays hold, for every set of    *)
(* devices, every order of the search and any number of failing requests.  *)
(* A function whose steps are in order (FunctionsInOrder) then keeps what  *)
(* it promises, however many requests fail, whether or not the device has  *)
(* done what they asked, and however often it is called again.             *)
(***************************************************************************)
EXTENDS SyncSteps, TLAPS

(***************************************************************************)
(* The right device.                                                       *)
(***************************************************************************)
\* The number of a device whose descriptor hides it: not known before its first
\* read has returned.
Hidden == device.via = "usb" /\ ~device.shown
Unread == pc = "get" /\ fresh

\* A device is open only if it compared equal; a hidden one, once its first read
\* has returned; until then the number is that of the device, or 0.
Opened ==
    CASE device.via = "usb"  -> TRUE
      [] device.via = "fast" -> SameDigits(device.device.serial, wanted)
      [] OTHER               -> device.device.serial = wanted
Learned ==
    Hidden => IF Unread THEN serial \in {0, device.device.serial}
              ELSE device.device.serial = wanted

SerialInv == wanted # 0 /\ (pc \in {"get", "ready"} => Opened /\ Learned)

LEMMA SerialInit == DeviceInit => SerialInv
<1> SUFFICES ASSUME DeviceInit PROVE SerialInv
  OBVIOUS
<1>1. PICK i \in DOMAIN search : wanted = search[i].device.serial
  BY DEF DeviceInit
<1>2. search[i] \in Candidate
  BY DeviceAssumption DEF DeviceInit
<1>3. search[i].device \in Identity
  BY <1>2, DeviceAssumption DEF Candidate
<1>4. wanted # 0
  BY <1>1, <1>3 DEF Identity
<1>. QED BY <1>4 DEF DeviceInit, SerialInv

\* What comparing before opening yields.
LEMMA ComparedEqual ==
    ASSUME NEW c, TRUE \in Comparisons(c)
    PROVE  CASE c.via = "usb"  -> TRUE
             [] c.via = "fast" -> SameDigits(c.device.serial, wanted)
             [] OTHER          -> c.device.serial = wanted
<1>1. CASE c.via = "usb"
  BY <1>1
<1>2. CASE c.via = "fast"
  BY <1>2 DEF Comparisons
<1>3. CASE c.via \notin {"usb", "fast"}
  BY <1>3 DEF Comparisons
<1>. QED BY <1>1, <1>2, <1>3

LEMMA SerialStep == SerialInv /\ [DeviceNext]_deviceVars => SerialInv'
<1> SUFFICES ASSUME SerialInv, [DeviceNext]_deviceVars PROVE SerialInv'
  OBVIOUS
<1> USE DEF SerialInv, Learned, Hidden, Unread
<1>1. CASE Answered
  <2>1. pc = "get" /\ UNCHANGED <<wanted, device, fresh>> /\ (Opened' <=> Opened)
    BY <1>1 DEF Answered, Opened
  <2>2. serial' \in {serial, device.device.serial}
    BY <1>1 DEF Answered
  <2>3. pc' = "get" \/ pc' = IF KeepsSearching THEN "search" ELSE "ready"
    BY <1>1, <2>1 DEF Answered, Return
  <2>. QED BY <2>1, <2>2, <2>3 DEF KeepsSearching
<1>2. CASE NotAnswered
  <2>1. pc = "get" /\ UNCHANGED <<wanted, device, fresh, serial>> /\ (Opened' <=> Opened)
    BY <1>2 DEF NotAnswered, Opened
  <2>2. pc' = IF KeepsSearching THEN "search" ELSE "ready"
    BY <1>2 DEF NotAnswered, Return
  <2>. QED BY <2>1, <2>2 DEF KeepsSearching
<1>3. CASE TryCandidate
  <2>1. PICK matches \in Comparisons(Head(search)) :
           IF matches /\ Head(search).opens
           THEN /\ device' = Head(search) /\ BeginDataGet(TRUE) /\ UNCHANGED wanted
           ELSE UNCHANGED <<pc, wanted>>
    BY <1>3 DEF TryCandidate
  <2>2. CASE matches /\ Head(search).opens
    <3>1. matches = TRUE
      BY <2>1, <2>2 DEF Comparisons
    <3>2. Opened'
      BY <2>1, <2>2, <3>1, ComparedEqual DEF Opened
    <3>3. fresh' = TRUE /\ serial' = 0 /\ pc' = "get" /\ wanted' = wanted
      BY <2>1, <2>2 DEF BeginDataGet
    <3>. QED BY <3>2, <3>3
  <2>3. CASE ~(matches /\ Head(search).opens)
    BY <1>3, <2>1, <2>3 DEF TryCandidate
  <2>. QED BY <2>2, <2>3
<1>4. CASE NotFound
  BY <1>4 DEF NotFound
<1>5. CASE ReadAgain
  BY <1>5 DEF ReadAgain, BeginDataGet, Opened
<1>6. CASE UNCHANGED deviceVars
  BY <1>6 DEF deviceVars, Opened
<1>. QED BY <1>1, <1>2, <1>3, <1>4, <1>5, <1>6 DEF DeviceNext

(* Of every search, whatever was opened before it and whichever reads fail, *)
(* the device handed out has the number asked for as far as the number is   *)
(* compared: all of it over the network and of a USB device that hides it,  *)
(* the last five digits over the fast interface.  Of a USB device that      *)
(* shows a number in its descriptor nothing is said.                        *)
THEOREM HandsOutRightDevice == DeviceSpec => []RightDevice
<1>1. SerialInv => RightDevice
  BY DEF SerialInv, RightDevice, Opened, Learned, Hidden, Unread
<1>. QED BY <1>1, SerialInit, SerialStep, PTL DEF DeviceSpec

(***************************************************************************)
(* What the info structure claims.                                         *)
(***************************************************************************)
\* What a complete read finds.
Full ==
    Capabilities(TypeFound(device), EarlyFirmware(device.device)) \cup
    PulseEngine(TypeFound(device), device.device.major, device.device.minor,
                device.device.activated)

LEMMA DerivedWithin ==
    ASSUME NEW s, flags \subseteq Full
    PROVE  Derived(s) \subseteq Full
  BY DEF Derived, Full

\* A read begins with the structure cleared.
LEMMA Cleared ==
    ASSUME NEW new, BeginDataGet(new)
    PROVE  /\ pc' = "get" /\ stage' = "identify" /\ fresh' = new
           /\ counts' = NoCounts /\ flags' = {}
  BY DEF BeginDataGet

LEMMA ClaimsStep == NeverOverclaims /\ [DeviceNext]_deviceVars => NeverOverclaims'
<1> SUFFICES ASSUME NeverOverclaims, [DeviceNext]_deviceVars PROVE NeverOverclaims'
  OBVIOUS
<1> DEFINE Within == flags \subseteq Full /\ counts \in {NoCounts, Counts(TypeFound(device))}
<1>1. NeverOverclaims <=> (pc \in {"get", "ready"} => Within)
  BY DEF NeverOverclaims, Full
<1>2. NeverOverclaims' <=> (pc' \in {"get", "ready"} => Within')
  BY DEF NeverOverclaims, Full, TypeFound
<1>3. UNCHANGED device => Full' = Full /\ TypeFound(device)' = TypeFound(device)
  BY DEF Full, TypeFound
<1>4. CASE Answered
  <2>1. Within /\ UNCHANGED device
    BY <1>1, <1>4 DEF Answered
  <2>2. flags' \subseteq Full
    BY <1>4, <2>1, DerivedWithin DEF Answered
  <2>3. counts' \in {counts, Counts(TypeFound(device))}
    BY <1>4 DEF Answered
  <2>. QED BY <1>2, <1>3, <2>1, <2>2, <2>3
<1>5. CASE NotAnswered
  BY <1>1, <1>2, <1>3, <1>5 DEF NotAnswered
<1>6. CASE TryCandidate
  <2>1. \/ BeginDataGet(TRUE)
        \/ UNCHANGED <<pc, device, counts, flags>> /\ pc = "search"
    BY <1>6 DEF TryCandidate
  <2>2. CASE BeginDataGet(TRUE)
    BY <1>2, <2>2, Cleared
  <2>. QED BY <1>2, <2>1, <2>2
<1>7. CASE NotFound
  BY <1>2, <1>7 DEF NotFound
<1>8. CASE ReadAgain
  <2>1. BeginDataGet(FALSE)
    BY <1>8 DEF ReadAgain
  <2>. QED BY <1>2, <2>1, Cleared
<1>9. CASE UNCHANGED deviceVars
  BY <1>1, <1>2, <1>3, <1>9 DEF deviceVars
<1>. QED BY <1>4, <1>5, <1>6, <1>7, <1>8, <1>9 DEF DeviceNext

(* A read of the device's data that fails on the way leaves no capability   *)
(* and no count a complete one would not give: NeverOverclaims is           *)
(* inductive, since PK_DeviceDataGet() clears the structure first.          *)
THEOREM ClaimsNoMore == DeviceSpec => []NeverOverclaims
<1>1. DeviceInit => NeverOverclaims
  BY DEF DeviceInit, NeverOverclaims
<1>. QED BY <1>1, ClaimsStep, PTL DEF DeviceSpec

(***************************************************************************)
(* The arrays.                                                             *)
(***************************************************************************)
\* The counts are known once the lock request, the second of a read, is answered.
Counted == pc = "get" /\ stage \notin {"identify", "lock"} => counts = Counts(TypeFound(device))

\* The arrays of a device whose first read was complete are those of its type.
Allocated ==
    pc \in {"get", "ready"} /\ ~Unread /\ allocated.read = "PK_OK" =>
        /\ allocated.counts = Counts(TypeFound(device))
        /\ allocated.sensors <=> "iEasySensors" \in Full

ArrayInv == NeverOverclaims /\ Counted /\ Allocated

\* The lock request is the second one for every device.
LEMMA LockIsSecond == LaterStages("identify") # {} /\ NextStage("identify") = "lock"
<1>1. StageAt("identify") = 1
  BY DEF StageAt, Order
<1>2. 2 \in LaterStages("identify") /\ LaterStages("identify") \subseteq {2, 3, 4, 5, 6, 7, 8}
  BY <1>1, SMT DEF LaterStages, Order, Reads
<1>3. PICK k \in LaterStages("identify") :
         /\ \A j \in LaterStages("identify") : k <= j
         /\ k = CHOOSE i \in LaterStages("identify") : \A j \in LaterStages("identify") : i <= j
  BY <1>2, SMT
<1>4. k = 2
  BY <1>2, <1>3, SMT
<1>. QED BY <1>2, <1>3, <1>4 DEF NextStage, Order

\* The counts of no type are below none.
LEMMA CountsAreMore ==
    \A t : /\ DOMAIN NoCounts = DOMAIN Counts(t)
           /\ \A n \in DOMAIN NoCounts : /\ NoCounts[n] <= Counts(t)[n]
                                         /\ Counts(t)[n] <= Counts(t)[n]
  BY SMT DEF NoCounts, Counts, Count

LEMMA ArrayStep == ArrayInv /\ [DeviceNext]_deviceVars => ArrayInv'
<1> SUFFICES ASSUME ArrayInv, [DeviceNext]_deviceVars PROVE Counted' /\ Allocated'
  BY ClaimsStep DEF ArrayInv
<1>1. UNCHANGED device => Full' = Full /\ TypeFound(device)' = TypeFound(device)
  BY DEF Full, TypeFound
<1>2. CASE Answered
  <2>1. pc = "get" /\ Counted /\ Allocated /\ UNCHANGED <<device, fresh>>
    BY <1>2 DEF Answered, ArrayInv
  <2>2. stage # "identify" => counts' = Counts(TypeFound(device))
    BY <1>2, <2>1 DEF Answered, Counted
  <2>3. CASE LaterStages(stage) = {}
    <3>1. stage # "identify"
      BY <2>3, LockIsSecond
    <3>2. Return("PK_OK")
      BY <1>2, <2>3 DEF Answered
    <3>3. flags' = Full
      BY <1>2, <2>3 DEF Answered, Derived, Full
    <3>4. pc' # "get"
      BY <3>2 DEF Return
    <3>5. CASE fresh
      <4>1. allocated' = [counts |-> counts', sensors |-> "iEasySensors" \in flags',
                          read |-> "PK_OK"]
        BY <3>2, <3>5 DEF Return
      <4>. QED BY <1>1, <2>1, <2>2, <3>1, <3>3, <3>4, <4>1 DEF Counted, Allocated
    <3>6. CASE ~fresh
      <4>1. UNCHANGED allocated
        BY <3>2, <3>6 DEF Return
      <4>. QED BY <1>1, <2>1, <3>4, <3>6, <4>1 DEF Counted, Allocated, Unread
    <3>. QED BY <3>5, <3>6
  <2>4. CASE LaterStages(stage) # {}
    <3>1. stage' = NextStage(stage) /\ UNCHANGED <<pc, allocated>>
      BY <1>2, <2>4 DEF Answered
    <3>2. Counted'
      BY <1>1, <2>1, <2>2, <3>1, LockIsSecond DEF Counted
    <3>3. Allocated'
      BY <1>1, <2>1, <3>1 DEF Allocated, Unread
    <3>. QED BY <3>2, <3>3
  <2>. QED BY <2>3, <2>4
<1>3. CASE NotAnswered
  <2>1. pc = "get" /\ Allocated /\ UNCHANGED <<device, fresh>> /\ Return("PK_ERR_TRANSFER")
    BY <1>3 DEF NotAnswered, ArrayInv
  <2>2. pc' # "get"
    BY <2>1 DEF Return
  <2>3. CASE fresh
    <3>1. allocated'.read = "PK_ERR_TRANSFER"
      BY <2>1, <2>3 DEF Return
    <3>. QED BY <2>2, <3>1 DEF Counted, Allocated
  <2>4. CASE ~fresh
    <3>1. UNCHANGED allocated
      BY <2>1, <2>4 DEF Return
    <3>. QED BY <1>1, <2>1, <2>2, <2>4, <3>1 DEF Counted, Allocated, Unread
  <2>. QED BY <2>3, <2>4
<1>4. CASE TryCandidate
  <2>1. \/ BeginDataGet(TRUE)
        \/ UNCHANGED pc /\ pc = "search"
    BY <1>4 DEF TryCandidate
  <2>2. CASE BeginDataGet(TRUE)
    <3>1. pc' = "get" /\ stage' = "identify" /\ fresh' = TRUE
      BY <2>2, Cleared
    <3>2. Counted'
      BY <3>1 DEF Counted
    <3>3. Allocated'
      BY <3>1 DEF Allocated, Unread
    <3>. QED BY <3>2, <3>3
  <2>3. CASE UNCHANGED pc /\ pc = "search"
    BY <2>3 DEF Counted, Allocated
  <2>. QED BY <2>1, <2>2, <2>3
<1>5. CASE NotFound
  BY <1>5 DEF NotFound, Counted, Allocated
<1>6. CASE ReadAgain
  <2>1. BeginDataGet(FALSE) /\ pc = "ready" /\ Allocated /\ UNCHANGED <<device, allocated>>
    BY <1>6 DEF ReadAgain, ArrayInv
  <2>. QED BY <1>1, <2>1, Cleared DEF Counted, Allocated, Unread
<1>7. CASE UNCHANGED deviceVars
  <2>1. UNCHANGED <<pc, stage, device, counts, allocated, fresh>> /\ Counted /\ Allocated
    BY <1>7 DEF deviceVars, ArrayInv
  <2>2. Counted'
    BY <1>1, <2>1 DEF Counted
  <2>3. Allocated'
    BY <1>1, <2>1 DEF Allocated, Unread
  <2>. QED BY <2>2, <2>3
<1>. QED BY <1>2, <1>3, <1>4, <1>5, <1>6, <1>7 DEF DeviceNext

(* Whatever later reads do, a device whose first read was complete has      *)
(* arrays as large as the info structure claims: ArraysHoldCounts.          *)
THEOREM ArraysLargeEnough == DeviceSpec => []ArraysHoldCounts
<1>1. DeviceInit => ArrayInv
  BY DEF DeviceInit, ArrayInv, NeverOverclaims, Counted, Allocated
<1>2. ArrayInv => ArraysHoldCounts
  <2> SUFFICES ASSUME ArrayInv, pc = "ready", allocated.read = "PK_OK"
               PROVE  /\ \A n \in DOMAIN counts : counts[n] <= allocated.counts[n]
                      /\ "iEasySensors" \in flags => allocated.sensors
    BY DEF ArraysHoldCounts
  <2>1. /\ flags \subseteq Full /\ counts \in {NoCounts, Counts(TypeFound(device))}
        /\ allocated.counts = Counts(TypeFound(device))
        /\ allocated.sensors <=> "iEasySensors" \in Full
    BY DEF ArrayInv, NeverOverclaims, Full, Allocated, Unread
  <2>. QED BY <2>1, CountsAreMore
<1>. QED BY <1>1, <1>2, ArrayStep, PTL DEF DeviceSpec

(***************************************************************************)
(* The tables of counters.                                                 *)
(***************************************************************************)
\* Types that the range table of pin capabilities describes by a mask.
Ranged == {"56E", "56U", "57E", "57E_v0", "57U", "57U_v0"}
OtherTypes(t) == t \notin Ranged \cup {"57CNC", "57CNCpro4x25"}

LEMMA MaskOfRanged ==
    ASSUME NEW t \in Ranged
    PROVE  /\ DeviceMask(t, {}) \cap {"56", "57"} # {}
           /\ DeviceMask(t, {}) \cap {"Bootloader", "PoPLC58", "57CNCdb25", "57CNC",
                                      "57CNCpro4x25"} = {}
           /\ MaskOfTypeID(t) = DeviceMask(t, {}) /\ t \notin Described
  BY DEF Ranged, DeviceMask, MaskOfTypeID, Described

LEMMA SupportedPins == \A pin : pin \in counterSupported => pin \in 0..54
  BY SMT DEF counterSupported

\* By the type's number and by its mask, for any number a device may report.
LEMMA MaskAgrees ==
    ASSUME NEW t, NEW pin \in 0..54,
           t \notin CountersByMaskOnly
    PROVE  IsCounterAvailableByDevice(DeviceMask(t, {}), pin)
               <=> IsCounterAvailableByTypeID(t, pin)
<1>1. CASE t \in Ranged
  <2>1. IsCounterAvailableByTypeID(t, pin) <=> pin \in counterSupported
    BY <1>1 DEF Ranged, IsCounterAvailableByTypeID
  <2>. QED BY <1>1, <2>1, MaskOfRanged, SMT DEF IsCounterAvailableByDevice
<1>2. CASE t = "57CNC"
  BY <1>2, SMT DEF IsCounterAvailableByTypeID, IsCounterAvailableByDevice, DeviceMask
<1>3. CASE t = "57CNCpro4x25"
  BY <1>3, SMT DEF IsCounterAvailableByTypeID, IsCounterAvailableByDevice, DeviceMask
<1>4. CASE OtherTypes(t)
  <2>1. ~IsCounterAvailableByTypeID(t, pin)
    BY <1>4 DEF OtherTypes, Ranged, IsCounterAvailableByTypeID
  <2>2. \/ DeviceMask(t, {}) \cap {"Bootloader", "PoPLC58", "57CNCdb25"} # {}
        \/ DeviceMask(t, {}) \cap {"56", "57", "57CNC", "57CNCpro4x25"} = {}
    BY <1>4, SMT DEF OtherTypes, Ranged, DeviceMask, CountersByMaskOnly
  <2>. QED BY <2>1, <2>2 DEF IsCounterAvailableByDevice
<1>. QED BY <1>1, <1>2, <1>3, <1>4 DEF OtherTypes

\* A type of no case has no counter, whatever its mask says.
LEMMA NoneByType ==
    \A t \in CountersByMaskOnly, pin \in 0..54 : ~IsCounterAvailableByTypeID(t, pin)
  BY DEF CountersByMaskOnly, IsCounterAvailableByTypeID

LEMMA PinsAgree ==
    ASSUME NEW t, NEW pin \in 0..54, <<t, pin>> \notin Disputed
    PROVE  CheckPinCapabilityByTypeID(t, pin, "digitalCounter")
               <=> IsCounterAvailableByTypeID(t, pin)
<1> DEFINE m == MaskOfTypeID(t)
<1>1. CheckPinCapabilityByDevice(m, pin, "digitalCounter") <=>
          m \cap {"56", "57"} # {} /\ IsCounterAvailableByDevice(m, pin)
  <2> DEFINE counters == PinCap("digitalCounter", 1, 55, TRUE, {"56", "57"})
  <2>1. counters \in pinCaps
    BY DEF pinCaps
  <2>2. \A row \in pinCaps : row.cap = "digitalCounter" => row = counters
    BY DEF pinCaps, PinCap
  <2>3. /\ counters.cap = "digitalCounter" /\ counters.devices = {"56", "57"}
        /\ counters.check = TRUE /\ (pin + 1) \in counters.pins
    BY SMT DEF PinCap
  <2> HIDE DEF counters, m
  <2>. QED BY <2>1, <2>2, <2>3 DEF CheckPinCapabilityByDevice
<1>2. CASE t \in Ranged
  <2>1. IsCounterAvailableByTypeID(t, pin) <=> pin \in counterSupported
    BY <1>2 DEF Ranged, IsCounterAvailableByTypeID
  <2>2. IsCounterAvailableByDevice(m, pin) <=> pin \in counterSupported
    BY <1>2, MaskOfRanged, SMT DEF IsCounterAvailableByDevice
  <2>. QED BY <1>1, <1>2, <2>1, <2>2, MaskOfRanged DEF CheckPinCapabilityByTypeID
<1>3. CASE t = "57CNC"
  <2>1. pin # 19
    BY <1>3 DEF Disputed
  <2>2. CheckPinCapabilityByTypeID(t, pin, "digitalCounter") <=>
            \/ pin + 1 \in 1..6 \/ pin + 1 \in {9, 10, 11, 15, 16, 19}
            \/ pin + 1 \in 33..38 \/ pin + 1 \in 41..44
    <3> DEFINE Sets == {1..2, 3..6, {9, 10, 11, 15, 16, 19}, 33..38, 41..44}
    <3>1. \A row \in deviceDesc(t) : "digitalCounter" \in row[2] => row[1] \in Sets
      <4>1. "digitalCounter" \notin DIO /\ "digitalCounter" \notin DI /\ "digitalCounter" \notin DO
        BY DEF DIO, DI, DO
      <4>2. ASSUME NEW row \in deviceDesc("57CNC"), "digitalCounter" \in row[2]
            PROVE  \/ row = <<1..2, DIO \cup {"digitalCounter"}>>
                   \/ row = <<3..6, DI \cup {"digitalCounter"}>>
                   \/ row = <<{9, 10, 11, 15, 16, 19}, DI \cup {"digitalCounter"}>>
                   \/ row = <<33..38, DIO \cup {"digitalCounter"}>>
                   \/ row = <<41..44, DIO \cup {"digitalCounter", "analogInput"}>>
        BY <4>1, <4>2, SMTT(60) DEF deviceDesc
      <4>. QED BY <1>3, <4>2
    <3>2. \A S \in Sets : \E row \in deviceDesc(t) : row[1] = S /\ "digitalCounter" \in row[2]
      <4>1. /\ <<1..2, DIO \cup {"digitalCounter"}>> \in deviceDesc(t)
            /\ <<3..6, DI \cup {"digitalCounter"}>> \in deviceDesc(t)
            /\ <<{9, 10, 11, 15, 16, 19}, DI \cup {"digitalCounter"}>> \in deviceDesc(t)
            /\ <<33..38, DIO \cup {"digitalCounter"}>> \in deviceDesc(t)
            /\ <<41..44, DIO \cup {"digitalCounter", "analogInput"}>> \in deviceDesc(t)
        BY <1>3 DEF deviceDesc
      <4>. QED BY <4>1
    <3>3. CheckPinCapabilityByTypeID(t, pin, "digitalCounter") <=> \E S \in Sets : pin + 1 \in S
      <4> HIDE DEF Sets
      <4>. QED BY <1>3, <3>1, <3>2 DEF CheckPinCapabilityByTypeID, Described
    <3>. QED BY <3>3, SMT
  <2>3. IsCounterAvailableByTypeID(t, pin) <=> pin \in counters_57CNC
    BY <1>3 DEF IsCounterAvailableByTypeID
  <2>. QED BY <2>1, <2>2, <2>3, SMT DEF counters_57CNC
<1>4. CASE t = "57CNCpro4x25"
  <2>1. ~CheckPinCapabilityByTypeID(t, pin, "digitalCounter")
    BY <1>4 DEF CheckPinCapabilityByTypeID, Described, deviceDesc, DIO, DI, DO
  <2>2. pin # 18
    BY <1>4 DEF Disputed
  <2>3. IsCounterAvailableByTypeID(t, pin) <=> pin \in counters_57CNCpro4x25
    BY <1>4 DEF IsCounterAvailableByTypeID
  <2>. QED BY <2>1, <2>2, <2>3 DEF counters_57CNCpro4x25
<1>5. CASE OtherTypes(t)
  <2>1. ~IsCounterAvailableByTypeID(t, pin)
    BY <1>5 DEF OtherTypes, Ranged, IsCounterAvailableByTypeID
  <2>2. CASE t \in Described
    BY <1>5, <2>1, <2>2
    DEF OtherTypes, CheckPinCapabilityByTypeID, Described, deviceDesc, DIO, DI, DO
  <2>3. CASE t \notin Described
    <3>1. m \cap {"56", "57"} = {}
      BY <1>5, SMT DEF OtherTypes, Ranged, MaskOfTypeID, DeviceMask
    <3>. QED BY <1>1, <2>1, <2>3, <3>1 DEF CheckPinCapabilityByTypeID
  <2>. QED BY <2>2, <2>3
<1>. QED BY <1>2, <1>3, <1>4, <1>5 DEF OtherTypes

\* The mask a type of no case leaves as it was is that of no type.
LEMMA MaskAgain ==
    ASSUME NEW t, NEW old, old \in {{}, DeviceMask(t, {})}
    PROVE  DeviceMask(t, old) = DeviceMask(t, {})
  BY DEF DeviceMask

\* The type and its mask are known once the lock request is answered; the mask
\* of a device read before stays only while another one is searched for.
Recognised == type = TypeFound(device) /\ mask = DeviceMask(TypeFound(device), {})
TypeInv ==
    /\ pc \in {"get", "ready"} => mask \in {{}, DeviceMask(TypeFound(device), {})}
    /\ pc = "get" /\ stage \notin {"identify", "lock"} => Recognised
    /\ pc = "ready" /\ rc = "PK_OK" => Recognised

LEMMA TypeStep == TypeInv /\ [DeviceNext]_deviceVars => TypeInv'
<1> SUFFICES ASSUME TypeInv, [DeviceNext]_deviceVars PROVE TypeInv'
  OBVIOUS
<1>1. UNCHANGED device => TypeFound(device)' = TypeFound(device)
  BY DEF TypeFound
<1>2. CASE Answered
  <2>1. pc = "get" /\ UNCHANGED device
    BY <1>2 DEF Answered
  <2>2. stage # "identify" => Recognised'
    <3>1. CASE stage = "lock"
      <4>1. type' = TypeFound(device) /\ mask' = DeviceMask(TypeFound(device), mask)
        BY <1>2, <3>1 DEF Answered
      <4>. QED BY <1>1, <2>1, <4>1, MaskAgain DEF TypeInv, Recognised
    <3>2. CASE stage \notin {"identify", "lock"}
      BY <1>1, <1>2, <2>1, <3>2 DEF Answered, TypeInv, Recognised
    <3>. QED BY <3>1, <3>2
  <2>3. mask' \in {{}, DeviceMask(TypeFound(device), {})}
    <3>1. mask' = mask \/ mask' = DeviceMask(TypeFound(device), mask)
      BY <1>2 DEF Answered
    <3>. QED BY <2>1, <3>1, MaskAgain DEF TypeInv
  <2>4. stage = "identify" => pc' = "get" /\ stage' = "lock"
    BY <1>2, LockIsSecond DEF Answered
  <2>. QED BY <1>1, <2>1, <2>2, <2>3, <2>4 DEF TypeInv
<1>3. CASE NotAnswered
  <2>1. pc = "get" /\ UNCHANGED <<device, mask>> /\ rc' = "PK_ERR_TRANSFER" /\ pc' # "get"
    BY <1>3 DEF NotAnswered, Return
  <2>. QED BY <1>1, <2>1 DEF TypeInv
<1>4. CASE TryCandidate
  <2>1. BeginDataGet(TRUE) \/ (UNCHANGED pc /\ pc = "search")
    BY <1>4 DEF TryCandidate
  <2>2. CASE BeginDataGet(TRUE)
    BY <2>2 DEF BeginDataGet, TypeInv
  <2>. QED BY <2>1, <2>2 DEF TypeInv
<1>5. CASE NotFound
  BY <1>5 DEF NotFound, TypeInv
<1>6. CASE ReadAgain
  <2>1. /\ pc = "ready" /\ UNCHANGED <<device, mask>>
        /\ pc' = "get" /\ stage' = "identify"
    BY <1>6 DEF ReadAgain, BeginDataGet
  <2>. QED BY <1>1, <2>1 DEF TypeInv
<1>7. CASE UNCHANGED deviceVars
  <2>1. UNCHANGED <<pc, stage, device, type, mask, rc>>
    BY <1>7 DEF deviceVars
  <2>. QED BY <1>1, <2>1 DEF TypeInv, Recognised
<1>. QED BY <1>2, <1>3, <1>4, <1>5, <1>6, <1>7 DEF DeviceNext

(* Whatever type a device reports, once it has been read in full the tables *)
(* of counters give one answer for each pin by the type and by the mask, or *)
(* it is one of four types that have counters by the mask only; and the pin *)
(* capabilities give the answer of the type on each pin but two.            *)
THEOREM CounterTablesOfAll == DeviceSpec => []CounterTablesAgree
<1>1. DeviceInit => TypeInv
  BY DEF DeviceInit, TypeInv
<1>2. TypeInv => CounterTablesAgree
  BY MaskAgrees, NoneByType, PinsAgree DEF TypeInv, Recognised, CounterTablesAgree
<1>. QED BY <1>1, <1>2, TypeStep, PTL DEF DeviceSpec

(***************************************************************************)
(* Types.                                                                  *)
(***************************************************************************)
Typed == [DOMAIN NoCounts -> 0..55]

LEMMA CountsTyped == NoCounts \in Typed /\ \A t : Counts(t) \in Typed
<1>1. ASSUME NEW p \in 0..55, NEW e \in 0..55, NEW b \in 0..55, NEW w \in 0..55
      PROVE  Count(p, e, b, w) \in Typed
  <2>1. Count(p, e, b, w) = [n \in DOMAIN NoCounts |-> Count(p, e, b, w)[n]]
    BY DEF NoCounts, Count
  <2>2. \A n \in DOMAIN NoCounts : Count(p, e, b, w)[n] \in 0..55
    BY DEF NoCounts, Count
  <2>. QED BY <2>1, <2>2 DEF Typed
<1>2. {0, 3, 5, 6, 16, 17, 25, 26, 27, 55} \subseteq 0..55
  BY SMT
<1>3. /\ Count(0, 0, 0, 0) \in Typed /\ Count(55, 25, 25, 6) \in Typed
      /\ Count(55, 26, 25, 6) \in Typed /\ Count(55, 0, 0, 0) \in Typed
      /\ Count(17, 0, 0, 6) \in Typed /\ Count(27, 0, 0, 0) \in Typed
      /\ Count(16, 0, 0, 0) \in Typed /\ Count(55, 5, 5, 0) \in Typed
      /\ Count(55, 5, 5, 3) \in Typed
  BY <1>1, <1>2
<1>4. NoCounts \in Typed
  BY <1>3 DEF NoCounts
<1>5. \A t : Counts(t) \in Typed
  BY <1>3, <1>4, Zenon DEF Counts
<1>. QED BY <1>4, <1>5

LEMMA CapabilitiesTyped == ASSUME NEW t, NEW e PROVE Capabilities(t, e) \subseteq AllFlags
<1>1. DOMAIN CapabilityIf(t, e) \subseteq AllFlags
  <2>1. DOMAIN CapabilityIf(t, e) = DOMAIN CapabilityIf("57U", FALSE)
    BY DEF CapabilityIf
  <2>. QED BY <2>1 DEF AllFlags
<1>2. {"iAnalogInputs", "iAnalogFiltering", "iLoadStatus", "iSensorList"} \subseteq DOMAIN CapabilityIf(t, e)
  BY DEF CapabilityIf
<1>3. Exceptions(t).has \subseteq {"iAnalogInputs", "iAnalogFiltering", "iSensorList"}
  BY DEF Exceptions
<1>. QED BY <1>1, <1>2, <1>3 DEF Capabilities

LEMMA PulseEngineTyped == \A t, major, minor, on : PulseEngine(t, major, minor, on) \subseteq AllFlags
  BY DEF PulseEngine, AllFlags

\* The next request is one of the list.
LEMMA NextStageTyped == ASSUME NEW s, LaterStages(s) # {} PROVE NextStage(s) \in Stages
<1>1. DOMAIN Order = 1..8
  BY SMT DEF Order
<1>2. LaterStages(s) \subseteq 1..8
  BY <1>1 DEF LaterStages
<1>3. PICK k \in LaterStages(s) : \A j \in LaterStages(s) : k <= j
  BY <1>2, SMT
<1>4. (CHOOSE i \in LaterStages(s) : \A j \in LaterStages(s) : i <= j) \in 1..8
  BY <1>2, <1>3
<1>5. \A i \in 1..8 : Order[i] \in Stages
  BY SMT DEF Order, Stages
<1>. QED BY <1>4, <1>5 DEF NextStage

LEMMA DeviceTypeStep == DeviceTypeOK /\ [DeviceNext]_deviceVars => DeviceTypeOK'
<1> SUFFICES ASSUME DeviceTypeOK, [DeviceNext]_deviceVars PROVE DeviceTypeOK'
  OBVIOUS
<1>1. /\ pc \in {"search", "get", "ready", "gone"} /\ stage \in Stages
      /\ counts \in Typed /\ allocated.counts \in Typed
      /\ flags \subseteq AllFlags /\ rc \in {"none", "PK_OK", "PK_ERR_TRANSFER"}
      /\ {fresh} \subseteq BOOLEAN /\ failures \in 0..MaxFailures /\ reads \in 0..MaxReads
  BY DEF DeviceTypeOK, Typed
<1>2. ASSUME NEW answer \in {"PK_OK", "PK_ERR_TRANSFER"}, Return(answer), counts' \in Typed
      PROVE  /\ pc' \in {"search", "get", "ready", "gone"} /\ stage' \in Stages
             /\ rc' \in {"none", "PK_OK", "PK_ERR_TRANSFER"} /\ allocated'.counts \in Typed
  BY <1>1, <1>2 DEF Return
<1>3. ASSUME NEW new \in BOOLEAN, BeginDataGet(new)
      PROVE  /\ pc' \in {"search", "get", "ready", "gone"} /\ stage' \in Stages
             /\ counts' \in Typed /\ flags' \subseteq AllFlags
             /\ {fresh'} \subseteq BOOLEAN /\ reads' \in 0..MaxReads
  <2>1. reads' = reads + 1 /\ reads < MaxReads
    BY <1>3 DEF BeginDataGet
  <2>2. reads' \in 0..MaxReads
    BY <1>1, <2>1, DeviceAssumption
  <2>. QED BY <1>3, <2>2, CountsTyped DEF BeginDataGet, Stages
<1>4. CASE Answered
  <2>1. counts' \in Typed
    BY <1>1, <1>4, CountsTyped DEF Answered
  <2>2. flags' \subseteq AllFlags
    BY <1>1, <1>4, CapabilitiesTyped, PulseEngineTyped DEF Answered, Derived
  <2>3. UNCHANGED <<fresh, failures, reads>>
    BY <1>4 DEF Answered
  <2>4. CASE LaterStages(stage) = {}
    <3>1. Return("PK_OK")
      BY <1>4, <2>4 DEF Answered
    <3>. QED BY <1>1, <1>2, <2>1, <2>2, <2>3, <3>1 DEF DeviceTypeOK, Typed
  <2>5. CASE LaterStages(stage) # {}
    <3>1. stage' = NextStage(stage) /\ UNCHANGED <<pc, rc, allocated>>
      BY <1>4, <2>5 DEF Answered
    <3>. QED BY <1>1, <2>1, <2>2, <2>3, <2>5, <3>1, NextStageTyped DEF DeviceTypeOK, Typed
  <2>. QED BY <2>4, <2>5
<1>5. CASE NotAnswered
  <2>1. /\ Return("PK_ERR_TRANSFER") /\ UNCHANGED <<counts, flags, fresh, reads>>
        /\ failures < MaxFailures /\ failures' = failures + 1
    BY <1>5 DEF NotAnswered
  <2>2. failures' \in 0..MaxFailures
    BY <1>1, <2>1, DeviceAssumption
  <2>. QED BY <1>1, <1>2, <2>1, <2>2 DEF DeviceTypeOK, Typed
<1>6. CASE TryCandidate
  <2>1. \/ BeginDataGet(TRUE) /\ UNCHANGED <<allocated, rc, failures>>
        \/ UNCHANGED <<pc, stage, counts, flags, allocated, rc, fresh, failures, reads>>
    BY <1>6 DEF TryCandidate
  <2>. QED BY <1>1, <1>3, <2>1 DEF DeviceTypeOK, Typed
<1>7. CASE NotFound
  BY <1>1, <1>7 DEF NotFound, DeviceTypeOK, Typed
<1>8. CASE ReadAgain
  <2>1. BeginDataGet(FALSE) /\ UNCHANGED <<allocated, rc, failures>>
    BY <1>8 DEF ReadAgain
  <2>. QED BY <1>1, <1>3, <2>1 DEF DeviceTypeOK, Typed
<1>9. CASE UNCHANGED deviceVars
  BY <1>1, <1>9 DEF deviceVars, DeviceTypeOK, Typed
<1>. QED BY <1>4, <1>5, <1>6, <1>7, <1>8, <1>9 DEF DeviceNext

(* What is read of a device has the types of DeviceTypeOK throughout.       *)
THEOREM DeviceTyped == DeviceSpec => []DeviceTypeOK
<1>1. DeviceInit => DeviceTypeOK
  <2> SUFFICES ASSUME DeviceInit PROVE DeviceTypeOK
    OBVIOUS
  <2>1. counts \in Typed /\ allocated.counts \in Typed
    BY CountsTyped DEF DeviceInit
  <2>2. failures \in 0..MaxFailures /\ reads \in 0..MaxReads
    BY DeviceAssumption DEF DeviceInit
  <2>. QED BY <2>1, <2>2 DEF DeviceInit, DeviceTypeOK, Stages, Typed
<1>. QED BY <1>1, DeviceTypeStep, PTL DEF DeviceSpec

(***************************************************************************)
(* A call of a function.                                                   *)
(***************************************************************************)
\* The steps of the call, how many of them are over, and whether it may go on.
StepsOf(c) == Table(script.group, Info)[script.calls[c]]
Steps == StepsOf(step)
At == Len(Steps) - Len(todo)
Underway == result \in {"none", "PK_OK"}

Shape ==
    /\ script.kind \in {"retry", "rmw", "between"}
    /\ DOMAIN script.calls = IF script.kind = "retry" THEN {1} ELSE {1, 2}
    /\ Len(script.calls) = IF script.kind = "retry" THEN 1 ELSE 2
    /\ step \in DOMAIN script.calls
    /\ InOrder(script, Info)
    /\ uses = [carries |-> ItemsOut(Steps), reads |-> ItemsIn(Steps), takes |-> ItemsTaken(Steps)]

\* What is still to be run is the rest of the steps.
Position ==
    /\ result \in {"none"} \cup Results
    /\ todo \in Seq(Range(Steps)) /\ (todo = <<>> <=> result # "none")
    /\ Len(todo) <= Len(Steps) /\ \A n \in 1..Len(todo) : todo[n] = Steps[At + n]

\* Only a BestEffort function goes on after a failed request.
Careful == skipped => ~Complete

Allotted ==
    /\ DOMAIN mirror = DOMAIN dev
    /\ \A c \in DOMAIN script.calls : AllItems(StepsOf(c)) \subseteq DOMAIN mirror

RunInv ==
    /\ lost \in Nat
    /\ IF script.kind = "none" THEN todo = <<>>
       ELSE Shape /\ Position /\ Careful /\ Allotted

(***************************************************************************)
(* One step.                                                               *)
(***************************************************************************)
Stepping == PassOver \/ AssignFields \/ ReturnEarly \/ Request

\* What the device holds in the item once it has got the request.
Given(s, i) ==
    IF i \in s.out THEN mirror[i] ELSE IF i \in s.zeroes THEN "zero" ELSE dev[i]

Over(s, i)     == Passed(s) /\ mirror'[i] = mirror[i] /\ dev'[i] = dev[i]
Assigned(s, i) ==
    /\ ~Passed(s) /\ s.kind = "assign" /\ dev'[i] = dev[i]
    /\ mirror'[i] = IF i \in s.in THEN s.token ELSE mirror[i]
Exchanged(s, i) ==
    /\ ~Passed(s) /\ s.kind = "exchange" /\ dev'[i] = Given(s, i)
    /\ mirror'[i] = IF i \in s.in THEN dev'[i] ELSE IF i \in s.clears THEN "zero" ELSE mirror[i]
InPart(s, i) ==
    /\ ~Passed(s) /\ s.kind = "exchange" /\ s.partial /\ short'
    /\ mirror'[i] = mirror[i] /\ dev'[i] = dev[i]
FailedOver(s, i) ==
    /\ ~Passed(s) /\ s.kind = "exchange" /\ s.onFail = "skip" /\ ~Complete'
    /\ mirror'[i] = mirror[i] /\ dev'[i] \in {dev[i], Given(s, i)}
Stopped(s, i) ==
    /\ ~Underway' /\ dev'[i] \in {dev[i], Given(s, i)}
    /\ mirror'[i] = mirror[i] \/ (mirror'[i] = "zero" /\ i \in s.drops)

Moves(s, i) ==
    \/ Over(s, i) \/ Assigned(s, i) \/ Exchanged(s, i)
    \/ InPart(s, i) \/ FailedOver(s, i) \/ Stopped(s, i)

LEMMA SameSteps ==
    ASSUME UNCHANGED <<deviceVars, script, step>>
    PROVE  /\ Info' = Info /\ Steps' = Steps /\ \A c : StepsOf(c)' = StepsOf(c)
           /\ InOrder(script, Info)' = InOrder(script, Info)
<1>1. Info' = Info
  BY DEF Info, deviceVars
<1>2. \A c : StepsOf(c)' = StepsOf(c)
  BY <1>1 DEF StepsOf
<1>3. Steps' = Steps
  BY <1>1 DEF Steps, StepsOf
<1>. QED BY <1>1, <1>2, <1>3

\* The steps of the call are as InOrder has them.
LEMMA StepsInOrder ==
    ASSUME Shape
    PROVE  /\ Steps \in Seq(Range(Steps))
           /\ \A m \in DOMAIN Steps :
                /\ WellFormed(Steps[m])
                /\ Steps[m].onFail = "skip" => script.calls[1] \in BestEffort
  BY DEF Shape, InOrder, Steps, StepsOf

\* Where the call is.
LEMMA NextStep ==
    ASSUME Shape, Position, todo # <<>>
    PROVE  /\ At + 1 \in DOMAIN Steps /\ At \in Nat /\ Head(todo) = Steps[At + 1]
           /\ Len(Tail(todo)) = Len(todo) - 1 /\ Tail(todo) \in Seq(Range(Steps))
           /\ \A n \in 1..Len(Tail(todo)) : Tail(todo)[n] = Steps[At + 1 + n]
<1>1. /\ Steps \in Seq(Range(Steps)) /\ todo \in Seq(Range(Steps))
      /\ Len(todo) <= Len(Steps) /\ \A n \in 1..Len(todo) : todo[n] = Steps[At + n]
  BY StepsInOrder DEF Position
<1>2. Len(todo) \in Nat \ {0} /\ Len(Steps) \in Nat /\ DOMAIN Steps = 1..Len(Steps)
  BY <1>1
<1>3. At \in Nat /\ At + 1 \in DOMAIN Steps
  BY <1>1, <1>2 DEF At
<1>4. Head(todo) = todo[1] /\ Tail(todo) \in Seq(Range(Steps)) /\ Len(Tail(todo)) = Len(todo) - 1
      /\ \A n \in 1..Len(Tail(todo)) : Tail(todo)[n] = todo[n + 1]
  BY <1>1
<1>5. Head(todo) = Steps[At + 1]
  BY <1>1, <1>2, <1>4
<1>6. ASSUME NEW n \in 1..Len(Tail(todo)) PROVE Tail(todo)[n] = Steps[At + 1 + n]
  <2>1. n + 1 \in 1..Len(todo)
    BY <1>2, <1>4
  <2>2. At + (n + 1) = At + 1 + n
    BY <1>3
  <2>. QED BY <1>1, <1>4, <2>1, <2>2
<1>. QED BY <1>3, <1>4, <1>5, <1>6

\* All that a step does to one item.
LEMMA StepMoves ==
    ASSUME Shape, Position, Allotted, Stepping, lost \in Nat, NEW i \in DOMAIN mirror
    PROVE  todo # <<>> /\ Moves(Steps[At + 1], i)
<1>1. todo # <<>> /\ i \in DOMAIN dev
  BY DEF Stepping, PassOver, AssignFields, ReturnEarly, Request, RequestAnswered, Runs, Allotted,
     RequestTakenInPart, RequestRefused, RequestFails, RequestUnanswered
<1> DEFINE s == Steps[At + 1]
<1> SUFFICES Moves(s, i)
  BY <1>1
<1>2. s = Head(todo) /\ s = Now /\ At + 1 \in DOMAIN Steps
  BY <1>1, NextStep DEF Now
<1>3. WellFormed(s) /\ (s.onFail = "skip" => script.calls[1] \in BestEffort)
  BY <1>2, StepsInOrder
<1> HIDE DEF s
<1>4. Done[i] = Given(s, i)
  BY <1>1, <1>2 DEF Done, Given
<1>5. CASE PassOver
  BY <1>2, <1>5 DEF PassOver, Moves, Over
<1>6. CASE AssignFields
  BY <1>1, <1>2, <1>6 DEF AssignFields, Runs, Overlay, Moves, Assigned
<1>7. CASE ReturnEarly
  <2>1. s.result \in Results \ {"PK_OK"}
    BY <1>2, <1>3, <1>7 DEF ReturnEarly, Runs, WellFormed
  <2>2. ~Underway'
    BY <1>2, <1>7, <2>1 DEF ReturnEarly, ReturnWith, Underway, Results
  <2>. QED BY <1>7, <2>2 DEF ReturnEarly, Moves, Stopped
<1>8. CASE RequestAnswered
  BY <1>1, <1>2, <1>4, <1>8 DEF RequestAnswered, Runs, Moves, Exchanged
<1>9. CASE RequestTakenInPart
  BY <1>2, <1>9 DEF RequestTakenInPart, Runs, Moves, InPart
<1>10. CASE RequestRefused
  <2>1. ~Underway'
    BY <1>2, <1>3, <1>10 DEF RequestRefused, ReturnWith, Underway, Results, WellFormed
  <2>2. mirror'[i] = IF i \in s.drops THEN "zero" ELSE mirror[i]
    BY <1>2, <1>10 DEF RequestRefused, Overlay
  <2>3. dev'[i] \in {dev[i], Given(s, i)}
    BY <1>4, <1>10 DEF RequestRefused
  <2>. QED BY <2>1, <2>2, <2>3 DEF Moves, Stopped
<1>11. CASE RequestFails
  <2>1. dev'[i] \in {dev[i], Given(s, i)} /\ mirror'[i] = mirror[i]
    BY <1>4, <1>11 DEF RequestFails
  <2>2. CASE s.onFail = "skip"
    <3>1. lost' = lost + 1 /\ script' = script /\ lost \in Nat
      BY <1>11 DEF RequestFails
    <3>2. ~Complete'
      BY <1>3, <2>2, <3>1 DEF Complete, BestEffort
    <3>. QED BY <1>2, <1>11, <2>1, <2>2, <3>2 DEF RequestFails, Runs, Moves, FailedOver
  <2>3. CASE s.onFail # "skip"
    <3>1. s.result \in Results \ {"PK_OK"}
      BY <1>3, <2>3 DEF WellFormed
    <3>2. ~Underway'
      BY <1>2, <1>11, <2>3, <3>1 DEF RequestFails, ReturnWith, Underway, Results
    <3>. QED BY <2>1, <3>2 DEF Moves, Stopped
  <2>. QED BY <2>2, <2>3
<1>12. CASE RequestUnanswered
  <2>1. s.result \in Results \ {"PK_OK"}
    BY <1>2, <1>3, <1>12 DEF RequestUnanswered, Runs, WellFormed
  <2>2. ~Underway'
    BY <1>2, <1>12, <2>1 DEF RequestUnanswered, ReturnWith, Underway, Results
  <2>3. dev'[i] \in {dev[i], Given(s, i)} /\ mirror'[i] = mirror[i]
    BY <1>4, <1>12 DEF RequestUnanswered
  <2>. QED BY <2>2, <2>3 DEF Moves, Stopped
<1>. QED BY <1>5, <1>6, <1>7, <1>8, <1>9, <1>10, <1>11, <1>12 DEF Stepping, Request

\* The control of the call after a step.
LEMMA StepControl ==
    ASSUME RunInv, Stepping
    PROVE  /\ UNCHANGED <<deviceVars, script, step, uses>> /\ script.kind # "none"
           /\ DOMAIN mirror' = DOMAIN mirror /\ DOMAIN dev' = DOMAIN dev
           /\ Underway /\ todo # <<>> /\ lost' \in Nat
           /\ (Complete' => Complete) /\ (short => short')
           /\ Underway' => At' = At + 1
           /\ Position' /\ Careful'
<1>1. UNCHANGED <<deviceVars, script, step, uses>> /\ todo # <<>>
  BY DEF Stepping, PassOver, AssignFields, ReturnEarly, Request, RequestAnswered, Runs,
     RequestTakenInPart, RequestRefused, RequestFails, RequestUnanswered
<1>2. script.kind # "none" /\ Shape /\ Position /\ Careful /\ Allotted /\ lost \in Nat
  BY <1>1 DEF RunInv
<1>3. DOMAIN mirror' = DOMAIN mirror /\ DOMAIN dev' = DOMAIN dev
  BY DEF Stepping, PassOver, AssignFields, ReturnEarly, Request, RequestAnswered, Overlay, Done,
     RequestTakenInPart, RequestRefused, RequestFails, RequestUnanswered
<1>4. Underway
  BY <1>1, <1>2 DEF Position, Underway
<1>5. lost' \in {lost, lost + 1} /\ (short' = short \/ short' = TRUE)
  BY DEF Stepping, PassOver, AssignFields, ReturnEarly, Request, RequestAnswered,
     RequestTakenInPart, RequestRefused, RequestFails, RequestUnanswered
<1>6. lost' \in Nat /\ (Complete' => Complete) /\ (short => short')
  BY <1>1, <1>2, <1>5 DEF Complete, BestEffort
<1>7. Now = Steps[At + 1] /\ At + 1 \in DOMAIN Steps /\ WellFormed(Now)
      /\ (Now.onFail = "skip" => script.calls[1] \in BestEffort)
  BY <1>1, <1>2, NextStep, StepsInOrder DEF Now
<1>8. Continue(Tail(todo)) \/ \E error \in Results \ {"PK_OK"} : ReturnWith(error)
  <2>1. CASE PassOver \/ AssignFields \/ RequestAnswered \/ RequestTakenInPart
    BY <2>1 DEF PassOver, AssignFields, RequestAnswered, RequestTakenInPart
  <2>2. CASE ReturnEarly
    BY <1>7, <2>2 DEF ReturnEarly, Runs, WellFormed
  <2>3. CASE RequestRefused
    BY <1>7, <2>3 DEF RequestRefused, WellFormed
  <2>4. CASE RequestFails
    BY <1>7, <2>4 DEF RequestFails, WellFormed
  <2>5. CASE RequestUnanswered
    BY <1>7, <2>5 DEF RequestUnanswered, Runs, WellFormed
  <2>. QED BY <2>1, <2>2, <2>3, <2>4, <2>5 DEF Stepping, Request
<1>9. Careful'
  <2>1. skipped' \in {skipped, FALSE} \/ (RequestFails /\ Now.onFail = "skip")
    BY DEF Stepping, PassOver, AssignFields, ReturnEarly, Request, RequestAnswered,
       RequestTakenInPart, RequestRefused, RequestFails, RequestUnanswered
  <2>2. CASE skipped' \in {skipped, FALSE}
    BY <1>2, <1>6, <2>2 DEF Careful
  <2>3. CASE RequestFails /\ Now.onFail = "skip"
    <3>1. lost' = lost + 1
      BY <2>3 DEF RequestFails
    <3>2. ~Complete'
      BY <1>1, <1>2, <1>7, <2>3, <3>1 DEF Complete, BestEffort
    <3>. QED BY <3>2 DEF Careful
  <2>. QED BY <2>1, <2>2, <2>3
<1>10. Steps' = Steps /\ Steps \in Seq(Range(Steps)) /\ Len(Steps) \in Nat
  BY <1>1, <1>2, SameSteps, StepsInOrder
<1>11. /\ At \in Nat /\ Len(Tail(todo)) = Len(todo) - 1 /\ Tail(todo) \in Seq(Range(Steps))
       /\ \A n \in 1..Len(Tail(todo)) : Tail(todo)[n] = Steps[At + 1 + n]
       /\ Len(todo) \in Nat /\ Len(todo) <= Len(Steps)
  BY <1>1, <1>2, NextStep DEF Position
<1>12. CASE Continue(Tail(todo))
  <2>1. todo' = Tail(todo) /\ result' = IF Tail(todo) = <<>> THEN "PK_OK" ELSE "none"
    BY <1>12 DEF Continue
  <2>2. At' = At + 1
    BY <1>10, <1>11, <2>1 DEF At
  <2>3. Position'
    BY <1>10, <1>11, <2>1, <2>2 DEF Position, Results
  <2>. QED BY <1>1, <1>2, <1>3, <1>4, <1>6, <1>9, <2>2, <2>3
<1>13. ASSUME NEW error \in Results \ {"PK_OK"}, ReturnWith(error)
       PROVE  Position' /\ ~Underway'
  <2>1. todo' = <<>> /\ result' = error /\ error # "none"
    BY <1>13 DEF ReturnWith, Results
  <2>. QED BY <1>10, <1>13, <2>1 DEF Position, Underway
<1>. QED BY <1>1, <1>2, <1>3, <1>4, <1>6, <1>8, <1>9, <1>12, <1>13

(***************************************************************************)
(* A call begins.                                                          *)
(***************************************************************************)
LEMMA ScriptShape ==
    ASSUME NEW group, NEW table, NEW s \in ScriptsOf(group, table)
    PROVE  /\ s.kind \in {"retry", "rmw", "between"} /\ s.group = group
           /\ DOMAIN s.calls = IF s.kind = "retry" THEN {1} ELSE {1, 2}
           /\ Len(s.calls) = IF s.kind = "retry" THEN 1 ELSE 2
<1>1. CASE \E c \in DOMAIN table : s = [kind |-> "retry", group |-> group, calls |-> <<c>>]
  <2>1. \A c : DOMAIN <<c>> = {1} /\ Len(<<c>>) = 1
    BY SMT
  <2>. QED BY <1>1, <2>1
<1>2. CASE \E c \in DOMAIN table \cap DOMAIN ReadsFor :
              s = [kind |-> "rmw", group |-> group, calls |-> <<ReadsFor[c], c>>]
  <2>1. \A c, e : DOMAIN <<c, e>> = {1, 2} /\ Len(<<c, e>>) = 2
    BY SMT
  <2>. QED BY <1>2, <2>1
<1>3. CASE \E pair \in (DOMAIN table) \X (DOMAIN table) :
              s = [kind |-> "between", group |-> group, calls |-> pair]
  <2>1. PICK pair \in (DOMAIN table) \X (DOMAIN table) :
               s = [kind |-> "between", group |-> group, calls |-> pair]
    BY <1>3
  <2>2. DOMAIN pair = {1, 2} /\ Len(pair) = 2
    BY SMT
  <2>. QED BY <2>1, <2>2
<1>. QED BY <1>1, <1>2, <1>3 DEF ScriptsOf

\* The call begins with all of its steps to be run.
LEMMA Entered ==
    ASSUME Shape', Enter(Steps')
    PROVE  Position' /\ Careful' /\ At' = 0
<1>1. Steps' \in Seq(Range(Steps'))
  BY DEF Shape, InOrder, Steps, StepsOf
<1>2. /\ todo' = Steps' /\ result' = IF Steps' = <<>> THEN "PK_OK" ELSE "none"
      /\ skipped' = FALSE
  BY DEF Enter, Continue
<1>3. At' = 0 /\ Len(todo') <= Len(Steps')
  BY <1>1, <1>2 DEF At
<1>4. \A n \in 1..Len(todo') : todo'[n] = Steps'[At' + n]
  BY <1>1, <1>2, <1>3
<1>. QED BY <1>1, <1>2, <1>3, <1>4 DEF Position, Careful, Results

\* The first call of a script.
LEMMA BeginEnters ==
    ASSUME RunInv, FunctionsInOrder, BeginScript
    PROVE  /\ Shape' /\ Allotted' /\ Enter(Steps') /\ UNCHANGED lost /\ step' = 1
           /\ script'.kind # "none"
           /\ \A i \in DOMAIN mirror' :
                /\ mirror'[i] = IF script'.kind = "rmw" THEN "unset" ELSE "app"
                /\ dev'[i] = "dev"
<1>1. PICK group \in Groups : \E s \in ScriptsOf(group, Table(group, Info)) :
         LET table == Table(group, Info)
             items == UNION {AllItems(table[s.calls[k]]) : k \in DOMAIN s.calls} IN
         /\ script' = s /\ step' = 1
         /\ mirror' = [i \in items |-> IF s.kind = "rmw" THEN "unset" ELSE "app"]
         /\ dev' = [i \in items |-> "dev"]
         /\ Enter(table[s.calls[1]])
  BY DEF BeginScript
<1> DEFINE table == Table(group, Info)
<1>2. PICK s \in ScriptsOf(group, table) :
         LET items == UNION {AllItems(table[s.calls[k]]) : k \in DOMAIN s.calls} IN
         /\ script' = s /\ step' = 1
         /\ mirror' = [i \in items |-> IF s.kind = "rmw" THEN "unset" ELSE "app"]
         /\ dev' = [i \in items |-> "dev"]
         /\ Enter(table[s.calls[1]])
  BY <1>1
<1>3. pc = "ready" /\ script.kind = "none" /\ lost' = lost /\ lost \in Nat
  BY DEF BeginScript, RunInv
<1>4. InOrder(s, Info) /\ Info' = Info
  BY <1>3 DEF FunctionsInOrder, BeginScript, Info, deviceVars
<1>5. /\ s.kind \in {"retry", "rmw", "between"} /\ s.group = group
      /\ DOMAIN s.calls = IF s.kind = "retry" THEN {1} ELSE {1, 2}
      /\ Len(s.calls) = IF s.kind = "retry" THEN 1 ELSE 2
  BY ScriptShape
<1>6. \A c : StepsOf(c)' = table[s.calls[c]]
  BY <1>2, <1>4, <1>5 DEF StepsOf
<1>7. Steps' = table[s.calls[1]]
  BY <1>2, <1>4, <1>5 DEF Steps, StepsOf
<1>8. InOrder(script, Info)'
  BY <1>2, <1>4
<1>9. Enter(Steps')
  BY <1>2, <1>7
<1>10. Shape'
  BY <1>2, <1>5, <1>8, <1>9 DEF Shape, Enter
<1>11. Allotted'
  <2>1. DOMAIN mirror' = UNION {AllItems(table[s.calls[k]]) : k \in DOMAIN s.calls}
        /\ DOMAIN dev' = DOMAIN mirror'
    BY <1>2
  <2>. QED BY <1>2, <1>6, <2>1 DEF Allotted
<1>12. ASSUME NEW i \in DOMAIN mirror'
       PROVE  mirror'[i] = (IF s.kind = "rmw" THEN "unset" ELSE "app") /\ dev'[i] = "dev"
  BY <1>2
<1>. QED BY <1>2, <1>3, <1>5, <1>9, <1>10, <1>11, <1>12

\* The call that failed starts again from its first step.
LEMMA AgainEnters ==
    ASSUME RunInv, CallAgain
    PROVE  /\ Shape' /\ Allotted' /\ Enter(Steps') /\ script.kind = "retry" /\ Steps' = Steps
           /\ UNCHANGED <<deviceVars, script, step, mirror, dev, short, lost>>
<1>1. script.kind = "retry" /\ UNCHANGED <<deviceVars, script, step, mirror, dev, short, lost>>
      /\ Enter(Table(script.group, Info)[script.calls[1]])
  BY DEF CallAgain
<1>2. Shape /\ Allotted /\ lost \in Nat
  BY <1>1 DEF RunInv
<1>3. step = 1
  BY <1>1, <1>2 DEF Shape
<1>4. Steps' = Table(script.group, Info)[script.calls[1]]
  BY <1>1, <1>3, SameSteps DEF Steps, StepsOf
<1>5. Steps' = Steps /\ Enter(Steps')
  BY <1>1, <1>4, SameSteps
<1>6. Shape'
  BY <1>1, <1>2, <1>5, SameSteps DEF Shape, Enter
<1>7. Allotted'
  BY <1>1, <1>2, SameSteps DEF Allotted
<1>. QED BY <1>1, <1>2, <1>4, <1>5, <1>6, <1>7

\* The second call of a script.
LEMMA OnwardEnters ==
    ASSUME RunInv, CallNext
    PROVE  /\ Shape' /\ Allotted' /\ Enter(Steps') /\ \A c : StepsOf(c)' = StepsOf(c)
           /\ script.kind \in {"rmw", "between"} /\ step = 1 /\ result = "PK_OK" /\ step' = 2
           /\ UNCHANGED <<deviceVars, script, mirror, dev, short, lost>>
<1>1. /\ script.kind \in {"rmw", "between"} /\ step = 1 /\ result = "PK_OK" /\ step' = 2
      /\ UNCHANGED <<deviceVars, script, mirror, dev, short, lost>>
      /\ Enter(Table(script.group, Info)[script.calls[2]])
  BY DEF CallNext
<1>2. Shape /\ Allotted /\ lost \in Nat
  BY <1>1 DEF RunInv
<1>3. Info' = Info
  BY <1>1 DEF Info, deviceVars
<1>4. Steps' = Table(script.group, Info)[script.calls[2]] /\ \A c : StepsOf(c)' = StepsOf(c)
  BY <1>1, <1>3 DEF Steps, StepsOf
<1>5. Enter(Steps')
  BY <1>1, <1>4
<1>6. InOrder(script, Info)'
  BY <1>1, <1>2, <1>3 DEF Shape
<1>7. Shape'
  BY <1>1, <1>2, <1>5, <1>6 DEF Shape, Enter
<1>8. Allotted'
  BY <1>1, <1>2, <1>4 DEF Allotted
<1>. QED BY <1>1, <1>2, <1>4, <1>5, <1>7, <1>8

\* RunInv is inductive.
LEMMA RunStep ==
    ASSUME RunInv, FunctionsInOrder, [Next]_vars
    PROVE  RunInv'
<1>1. CASE Connecting
  <2>1. script.kind = "none" /\ UNCHANGED <<script, todo, lost>>
    BY <1>1 DEF Connecting, callVars
  <2>. QED BY <2>1 DEF RunInv
<1>2. CASE BeginScript
  BY <1>2, BeginEnters, Entered DEF RunInv
<1>3. CASE CallAgain
  BY <1>3, AgainEnters, Entered DEF RunInv
<1>4. CASE CallNext
  BY <1>4, OnwardEnters, Entered DEF RunInv
<1>5. CASE Stepping
  <2>1. Shape /\ Allotted
    BY <1>5, StepControl DEF RunInv
  <2>2. Shape' /\ Allotted'
    BY <1>5, <2>1, StepControl, SameSteps DEF Shape, Allotted
  <2>. QED BY <1>5, <2>2, StepControl DEF RunInv
<1>6. CASE UNCHANGED vars
  <2>1. UNCHANGED <<deviceVars, script, step, todo, uses, mirror, dev, result, skipped, lost>>
    BY <1>6 DEF vars, callVars
  <2>2. At' = At /\ Complete' = Complete
    BY <2>1, SameSteps DEF At, Complete
  <2>. QED BY <2>1, <2>2, SameSteps DEF RunInv, Shape, Position, Careful, Allotted
<1>. QED BY <1>1, <1>2, <1>3, <1>4, <1>5, <1>6 DEF Next, Stepping

\* The items a call is about are all there, at both sides.
LEMMA ItemsThere ==
    ASSUME NEW steps
    PROVE  /\ ItemsOut(steps) \subseteq AllItems(steps) /\ ItemsIn(steps) \subseteq AllItems(steps)
           /\ Flags(steps) \subseteq AllItems(steps)
  BY DEF ItemsOut, ItemsIn, AllItems, Flags

\* A call that is over with PK_OK is over with all of its steps.
LEMMA AllOver ==
    ASSUME RunInv, Succeeded
    PROVE  /\ Underway /\ Shape /\ Allotted
           /\ \A k \in DOMAIN Steps : k \in Nat /\ k <= At
<1>1. Underway /\ Shape /\ Position /\ Allotted
  BY DEF RunInv, Succeeded, Underway
<1>2. todo = <<>> /\ Steps \in Seq(Range(Steps))
  BY <1>1, StepsInOrder DEF Position, Succeeded
<1>3. At = Len(Steps)
  BY <1>2 DEF At
<1>. QED BY <1>1, <1>2, <1>3

\* What a step is about, and what the earlier steps have left.
LEMMA StepOf ==
    ASSUME RunInv, Stepping
    PROVE  /\ At \in Nat /\ At + 1 \in DOMAIN Steps /\ DOMAIN Steps \subseteq Nat
           /\ Underway' => At' = At + 1
           /\ \A i \in DOMAIN mirror : Moves(Steps[At + 1], i)
           /\ WellFormed(Steps[At + 1])
           /\ Steps' = Steps /\ Underway /\ (Complete' => ~skipped)
<1>1. Shape /\ Position /\ Allotted /\ Careful /\ lost \in Nat /\ todo # <<>>
  BY StepControl DEF RunInv
<1>2. Steps \in Seq(Range(Steps)) /\ At \in Nat /\ At + 1 \in DOMAIN Steps
  BY <1>1, NextStep, StepsInOrder
<1>. QED BY <1>1, <1>2, StepControl, StepMoves, StepsInOrder, SameSteps DEF Careful

Sure == Complete /\ ~short

LEMMA SureBefore == ASSUME RunInv, Stepping, Sure' PROVE Sure
  BY StepControl DEF Sure

(***************************************************************************)
(* PK_OK means done.                                                       *)
(***************************************************************************)
LEMMA SettlesStep ==
    ASSUME RunInv, Stepping, Sure', Underway',
           NEW i \in DOMAIN mirror, NEW k \in DOMAIN Steps, SettlesAt(Steps, i, k), k <= At',
           k <= At => mirror[i] = dev[i]
    PROVE  mirror'[i] = dev'[i]
<1> DEFINE s == Steps[At + 1]
<1>1. At \in Nat /\ At' = At + 1 /\ At + 1 \in DOMAIN Steps /\ k \in Nat /\ Moves(s, i) /\ ~skipped
      /\ WellFormed(s)
  BY StepOf DEF Sure
<1>2. ~Stopped(s, i) /\ ~InPart(s, i) /\ ~FailedOver(s, i)
  BY DEF Sure, Stopped, InPart, FailedOver
<1>3. CASE k = At + 1
  <2>1. ~Passed(s) /\ s.kind = "exchange" /\ (i \in s.out \ s.clears \/ i \in s.in)
    BY <1>1, <1>3 DEF SettlesAt, Sends, Gets, Passed
  <2>. QED BY <1>1, <1>2, <2>1 DEF Moves, Over, Assigned, Exchanged, Given
<1>4. CASE k # At + 1
  <2>1. mirror[i] = dev[i] /\ KeepsEqual(s, i)
    BY <1>1, <1>4 DEF SettlesAt, After
  <2>. QED BY <1>1, <1>2, <2>1 DEF Moves, Over, Assigned, Exchanged, Given, KeepsEqual
<1>. QED BY <1>3, <1>4

\* A flag that is clear tells that its item is sent; nothing parts them again.
LEMMA FlagStep ==
    ASSUME RunInv, Stepping, Sure', NEW i \in DOMAIN mirror, NEW f \in DOMAIN mirror,
           NEW k \in DOMAIN Steps, SentByFlag(Steps, i, f, k),
           mirror[f] = "clear" => mirror[i] = dev[i],
           k <= At => mirror[i] = dev[i]
    PROVE  /\ mirror'[f] = "clear" => mirror'[i] = dev'[i]
           /\ Underway' /\ k <= At' => mirror'[i] = dev'[i]
<1> DEFINE s == Steps[At + 1]
<1>1. At \in Nat /\ (Underway' => At' = At + 1) /\ At + 1 \in DOMAIN Steps /\ k \in Nat
      /\ Moves(s, i) /\ Moves(s, f) /\ ~skipped /\ WellFormed(s)
  BY StepOf DEF Sure
<1>2. ~InPart(s, i) /\ ~FailedOver(s, i)
  BY DEF Sure, InPart, FailedOver
<1>3. i \notin s.in \cup s.zeroes \cup s.clears \cup s.drops /\ (i \in s.out => s.unless = {f})
      /\ (f \in s.in => At + 1 > k)
  BY <1>1 DEF SentByFlag
<1>4. mirror'[i] = mirror[i] /\ dev'[i] \in {dev[i], mirror[i]}
  BY <1>1, <1>2, <1>3 DEF Moves, Over, Assigned, Exchanged, Stopped, Given
<1>5. mirror[i] = dev[i] => mirror'[i] = dev'[i]
  BY <1>4
<1>6. ASSUME mirror'[f] = "clear", mirror[f] # "clear" PROVE mirror[i] = dev[i]
  <2>1. f \in s.in
    BY <1>1, <1>6 DEF Moves, Over, Assigned, Exchanged, InPart, FailedOver, Stopped
  <2>. QED BY <1>1, <1>3, <2>1
<1>7. ASSUME Underway', k = At + 1 PROVE mirror'[i] = dev'[i]
  <2>1. s.kind = "exchange" /\ i \in s.out /\ s.unless = {f}
    BY <1>3, <1>7 DEF SentByFlag
  <2>2. CASE Passed(s)
    <3>1. mirror[f] = "clear"
      BY <1>1, <2>1, <2>2 DEF Passed
    <3>. QED BY <1>5, <3>1
  <2>3. CASE ~Passed(s)
    BY <1>1, <1>2, <1>3, <1>7, <2>1, <2>3 DEF Moves, Over, Assigned, Exchanged, Stopped, Given
  <2>. QED BY <2>2, <2>3
<1>. QED BY <1>1, <1>5, <1>6, <1>7

\* What is erased is never sent otherwise.
LEMMA ErasesStep ==
    ASSUME RunInv, Stepping, Sure', Underway',
           NEW i \in DOMAIN mirror, NEW k \in DOMAIN Steps, ErasesAt(Steps, i, k), k <= At',
           k <= At => dev[i] = "zero"
    PROVE  dev'[i] = "zero"
<1> DEFINE s == Steps[At + 1]
<1>1. At \in Nat /\ At' = At + 1 /\ At + 1 \in DOMAIN Steps /\ k \in Nat /\ Moves(s, i) /\ ~skipped
      /\ WellFormed(s) /\ i \notin s.out
  BY StepOf DEF Sure, ErasesAt
<1>2. ~Stopped(s, i) /\ ~InPart(s, i) /\ ~FailedOver(s, i)
  BY DEF Sure, Stopped, InPart, FailedOver
<1>3. CASE k = At + 1
  <2>1. ~Passed(s) /\ s.kind = "exchange" /\ i \in s.zeroes
    BY <1>1, <1>3 DEF ErasesAt, Passed
  <2>. QED BY <1>1, <1>2, <2>1 DEF Moves, Over, Assigned, Exchanged, Given
<1>4. CASE k # At + 1
  BY <1>1, <1>2, <1>4 DEF Moves, Over, Assigned, Exchanged, Given
<1>. QED BY <1>3, <1>4

(***************************************************************************)
(* Arguments.                                                              *)
(***************************************************************************)
LEMMA DeliversStep ==
    ASSUME RunInv, Stepping, Sure', Underway',
           NEW i \in DOMAIN mirror, NEW j \in DOMAIN Steps, NEW k \in DOMAIN Steps,
           DeliversAt(Steps, i, j, k),
           j <= At => mirror[i] = "arg", k <= At => dev[i] = "arg"
    PROVE  (j <= At' => mirror'[i] = "arg") /\ (k <= At' => dev'[i] = "arg")
<1> DEFINE s == Steps[At + 1]
<1>1. At \in Nat /\ At' = At + 1 /\ At + 1 \in DOMAIN Steps /\ j \in Nat /\ k \in Nat
      /\ Moves(s, i) /\ ~skipped /\ WellFormed(s) /\ j < k
  BY StepOf DEF Sure, DeliversAt
<1>2. ~Stopped(s, i) /\ ~InPart(s, i) /\ ~FailedOver(s, i)
  BY DEF Sure, Stopped, InPart, FailedOver
<1>3. j <= At' => mirror'[i] = "arg"
  <2>1. CASE j = At + 1
    <3>1. ~Passed(s) /\ s.kind = "assign" /\ i \in s.in /\ s.token = "arg"
      BY <1>1, <2>1 DEF DeliversAt, Arguments, Passed
    <3>. QED BY <1>1, <1>2, <3>1 DEF Moves, Over, Assigned, Exchanged
  <2>2. CASE j <= At
    <3>1. mirror[i] = "arg" /\ KeepsField(s, i)
      BY <1>1, <2>2 DEF DeliversAt, After
    <3>. QED BY <1>1, <1>2, <3>1 DEF Moves, Over, Assigned, Exchanged, Given, KeepsField
  <2>. QED BY <1>1, <2>1, <2>2
<1>4. k <= At' => dev'[i] = "arg"
  <2>1. CASE k = At + 1
    <3>1. ~Passed(s) /\ s.kind = "exchange" /\ i \in s.out /\ mirror[i] = "arg"
      BY <1>1, <2>1 DEF DeliversAt, Sends, Passed
    <3>. QED BY <1>1, <1>2, <3>1 DEF Moves, Over, Assigned, Exchanged, Given
  <2>2. CASE k <= At
    <3>1. mirror[i] = "arg" /\ dev[i] = "arg" /\ KeepsSent(s, i)
      BY <1>1, <2>2 DEF DeliversAt, After
    <3>. QED BY <1>1, <1>2, <3>1 DEF Moves, Over, Assigned, Exchanged, Given, KeepsSent
  <2>. QED BY <1>1, <2>1, <2>2
<1>. QED BY <1>3, <1>4

(***************************************************************************)
(* Settings read, and settings written back.                               *)
(***************************************************************************)
LEMMA FieldKept ==
    ASSUME RunInv, Stepping, Underway', NEW i \in DOMAIN mirror,
           \A m \in DOMAIN Steps : KeepsField(Steps[m], i)
    PROVE  mirror'[i] = mirror[i]
<1> DEFINE s == Steps[At + 1]
<1>1. Moves(s, i) /\ WellFormed(s) /\ KeepsField(s, i)
  BY StepOf
<1>. QED BY <1>1 DEF Moves, Over, Assigned, Exchanged, InPart, FailedOver, Stopped, Given, KeepsField

LEMMA ReadsStep ==
    ASSUME RunInv, Stepping, Underway', Complete', NEW i \in DOMAIN mirror,
           \A m \in DOMAIN Steps : OnlyGets(Steps[m], i), dev[i] = "dev",
           NEW k \in DOMAIN Steps, k <= At => mirror[i] = "dev",
           Gets(Steps[k], i), ~Steps[k].partial
    PROVE  dev'[i] = "dev" /\ (k <= At' => mirror'[i] = "dev")
<1> DEFINE s == Steps[At + 1]
<1>1. At \in Nat /\ At' = At + 1 /\ At + 1 \in DOMAIN Steps /\ k \in Nat
      /\ Moves(s, i) /\ ~skipped /\ WellFormed(s) /\ OnlyGets(s, i)
  BY StepOf
<1>2. ~Stopped(s, i) /\ ~FailedOver(s, i)
  BY DEF Stopped, FailedOver
<1>3. dev'[i] = "dev"
  BY <1>1, <1>2 DEF Moves, Over, Assigned, Exchanged, InPart, Given, OnlyGets
<1>4. CASE k = At + 1
  <2>1. ~Passed(s) /\ s.kind = "exchange" /\ i \in s.in /\ ~s.partial
    BY <1>1, <1>4 DEF Gets, Passed
  <2>. QED BY <1>1, <1>2, <1>3, <2>1 DEF Moves, Over, Assigned, Exchanged, InPart
<1>5. CASE k <= At
  BY <1>1, <1>2, <1>3, <1>5 DEF Moves, Over, Assigned, Exchanged, InPart, OnlyGets
<1>. QED BY <1>1, <1>3, <1>4, <1>5

LEMMA WritesStep ==
    ASSUME RunInv, Stepping, Underway', NEW i \in DOMAIN mirror, NEW k \in DOMAIN Steps,
           WritesAt(Steps, i, k), k <= At => dev[i] = mirror[i]
    PROVE  mirror'[i] = mirror[i] /\ (k <= At' => dev'[i] = mirror'[i])
<1> DEFINE s == Steps[At + 1]
<1>1. At \in Nat /\ At' = At + 1 /\ At + 1 \in DOMAIN Steps /\ k \in Nat
      /\ Moves(s, i) /\ WellFormed(s)
  BY StepOf
<1>2. mirror'[i] = mirror[i] /\ ~Stopped(s, i)
  BY FieldKept DEF WritesAt, Stopped
<1>3. CASE k = At + 1
  <2>1. /\ ~Passed(s) /\ s.kind = "exchange" /\ i \in s.out /\ ~s.partial
        /\ s.onFail = "return"
    BY <1>1, <1>3 DEF WritesAt, Sends, Passed
  <2>. QED BY <1>1, <1>2, <2>1 DEF Moves, Over, Assigned, Exchanged, InPart, FailedOver, Given
<1>4. CASE k <= At
  <2>1. dev[i] = mirror[i] /\ KeepsSent(s, i)
    BY <1>1, <1>4 DEF WritesAt, After
  <2>. QED BY <1>1, <1>2, <2>1
       DEF Moves, Over, Assigned, Exchanged, InPart, FailedOver, Given, KeepsSent
<1>. QED BY <1>1, <1>2, <1>3, <1>4

(***************************************************************************)
(* The theorems.                                                           *)
(***************************************************************************)
Starts == BeginScript \/ CallAgain \/ CallNext
Rests == UNCHANGED vars

LEMMA StartsFresh ==
    ASSUME RunInv, FunctionsInOrder, Starts
    PROVE  Shape' /\ Allotted' /\ At' = 0 /\ \A k \in DOMAIN Steps' : ~(k <= At')
<1>1. Shape' /\ Allotted' /\ Enter(Steps')
  BY BeginEnters, AgainEnters, OnwardEnters DEF Starts
<1>2. At' = 0
  BY <1>1, Entered
<1>3. Steps' \in Seq(Range(Steps'))
  BY <1>1 DEF Shape, InOrder, Steps, StepsOf
<1>. QED BY <1>1, <1>2, <1>3

LEMMA RestsAll ==
    ASSUME Rests
    PROVE  /\ UNCHANGED <<script, step, uses, mirror, dev, result, short, lost>>
           /\ Steps' = Steps /\ At' = At /\ (Underway' <=> Underway) /\ Info' = Info
           /\ (Complete' <=> Complete) /\ (Sure' <=> Sure) /\ \A c : StepsOf(c)' = StepsOf(c)
<1>1. UNCHANGED <<deviceVars, script, step, todo, uses, mirror, dev, result, short, lost>>
  BY DEF Rests, vars, callVars
<1>. QED BY <1>1, SameSteps DEF At, Underway, Complete, Sure

LEMMA NextCases ==
    ASSUME RunInv, [Next]_vars, script'.kind # "none"
    PROVE  Starts \/ Stepping \/ Rests
<1>1. ~Connecting
  BY DEF Connecting, callVars
<1>. QED BY <1>1 DEF Next, Starts, Stepping, Rests

\* The items that have been exchanged for the last time agree.
DoneInv ==
    script.kind # "none" /\ Sure /\ Underway =>
        \A i \in DOMAIN mirror : \A k \in DOMAIN Steps :
            SettlesAt(Steps, i, k) /\ k <= At => mirror[i] = dev[i]

\* The ones that have been erased are zero.
ErasedInv ==
    script.kind # "none" /\ Sure /\ Underway =>
        \A i \in DOMAIN mirror : \A k \in DOMAIN Steps :
            ErasesAt(Steps, i, k) /\ k <= At => dev[i] = "zero"

\* So do those whose flag is clear, also after a failure.
FlagInv ==
    script.kind = "retry" /\ Sure =>
        \A i, f \in DOMAIN mirror : \A k \in DOMAIN Steps :
            SentByFlag(Steps, i, f, k) =>
                /\ mirror[f] = "clear" => mirror[i] = dev[i]
                /\ Underway /\ k <= At => mirror[i] = dev[i]

LEMMA DoneInvStep ==
    ASSUME RunInv, DoneInv, FunctionsInOrder, [Next]_vars
    PROVE  DoneInv'
<1> SUFFICES ASSUME (script.kind # "none" /\ Sure /\ Underway)', NEW i \in DOMAIN mirror',
                    NEW k \in DOMAIN Steps', SettlesAt(Steps', i, k), k <= At'
             PROVE  mirror'[i] = dev'[i]
  BY DEF DoneInv
<1>1. CASE Starts
  BY <1>1, StartsFresh
<1>2. CASE Stepping
  <2>1. Sure /\ Underway /\ Steps' = Steps /\ script.kind # "none" /\ DOMAIN mirror' = DOMAIN mirror
    BY <1>2, SureBefore, StepControl, StepOf
  <2>2. k <= At => mirror[i] = dev[i]
    BY <2>1 DEF DoneInv
  <2>. QED BY <1>2, <2>1, <2>2, SettlesStep
<1>3. CASE Rests
  BY <1>3, RestsAll DEF DoneInv
<1>. QED BY <1>1, <1>2, <1>3, NextCases

LEMMA ErasedInvStep ==
    ASSUME RunInv, ErasedInv, FunctionsInOrder, [Next]_vars
    PROVE  ErasedInv'
<1> SUFFICES ASSUME (script.kind # "none" /\ Sure /\ Underway)', NEW i \in DOMAIN mirror',
                    NEW k \in DOMAIN Steps', ErasesAt(Steps', i, k), k <= At'
             PROVE  dev'[i] = "zero"
  BY DEF ErasedInv
<1>1. CASE Starts
  BY <1>1, StartsFresh
<1>2. CASE Stepping
  <2>1. Sure /\ Underway /\ Steps' = Steps /\ script.kind # "none" /\ DOMAIN mirror' = DOMAIN mirror
    BY <1>2, SureBefore, StepControl, StepOf
  <2>2. k <= At => dev[i] = "zero"
    BY <2>1 DEF ErasedInv
  <2>. QED BY <1>2, <2>1, <2>2, ErasesStep
<1>3. CASE Rests
  BY <1>3, RestsAll DEF ErasedInv
<1>. QED BY <1>1, <1>2, <1>3, NextCases

LEMMA FlagInvStep ==
    ASSUME RunInv, FlagInv, FunctionsInOrder, [Next]_vars
    PROVE  FlagInv'
<1> SUFFICES ASSUME (script.kind = "retry" /\ Sure)', NEW i \in DOMAIN mirror',
                    NEW f \in DOMAIN mirror', NEW k \in DOMAIN Steps', SentByFlag(Steps', i, f, k)
             PROVE  /\ mirror'[f] = "clear" => mirror'[i] = dev'[i]
                    /\ Underway' /\ k <= At' => mirror'[i] = dev'[i]
  BY DEF FlagInv
<1>1. CASE BeginScript
  <2>1. mirror'[f] = "app"
    BY <1>1, BeginEnters
  <2>. QED BY <1>1, <2>1, StartsFresh DEF Starts
<1>2. CASE CallAgain
  <2>1. UNCHANGED <<script, mirror, dev, short, lost>> /\ Steps' = Steps /\ script.kind = "retry"
    BY <1>2, AgainEnters
  <2>2. Sure
    BY <2>1 DEF Sure, Complete
  <2>. QED BY <1>2, <2>1, <2>2, StartsFresh DEF Starts, FlagInv
<1>3. CASE CallNext
  BY <1>3 DEF CallNext
<1>4. CASE Stepping
  <2>1. Sure /\ Underway /\ Steps' = Steps /\ script' = script /\ DOMAIN mirror' = DOMAIN mirror
    BY <1>4, SureBefore, StepControl, StepOf
  <2>2. (mirror[f] = "clear" => mirror[i] = dev[i]) /\ (k <= At => mirror[i] = dev[i])
    BY <2>1 DEF FlagInv
  <2>. QED BY <1>4, <2>1, <2>2, FlagStep
<1>5. CASE Rests
  BY <1>5, RestsAll DEF FlagInv
<1>. QED BY <1>1, <1>2, <1>3, <1>4, <1>5, NextCases DEF Starts

LEMMA DoneInvImplies == RunInv /\ DoneInv /\ ErasedInv /\ FlagInv => OkMeansDone
<1> SUFFICES ASSUME RunInv, DoneInv, ErasedInv, FlagInv, Succeeded, Complete, ~short,
                    NEW i \in uses.carries \cup uses.reads
             PROVE  dev[i] = IF i \in Erased THEN "zero" ELSE mirror[i]
  BY DEF OkMeansDone
<1>1. /\ Underway /\ Shape /\ Allotted /\ Sure
      /\ \A k \in DOMAIN Steps : k <= At
  BY AllOver DEF Sure
<1>2. i \in ItemsOut(Steps) \cup ItemsIn(Steps) /\ AllItems(Steps) \subseteq DOMAIN mirror
  BY <1>1 DEF Shape, Allotted, Steps
<1>3. i \in DOMAIN mirror /\ Flags(Steps) \subseteq DOMAIN mirror
  BY <1>2, ItemsThere
<1>4. CASE i \in Erased
  <2>1. PICK k \in DOMAIN Steps : ErasesAt(Steps, i, k)
    BY <1>1, <1>2, <1>4 DEF Shape, InOrder, Steps, StepsOf
  <2>. QED BY <1>1, <1>3, <1>4, <2>1 DEF ErasedInv, Succeeded
<1>5. CASE i \notin Erased
  <2>1. PICK k \in DOMAIN Steps :
           \/ SettlesAt(Steps, i, k)
           \/ script.kind = "retry" /\ \E f \in Flags(Steps) : SentByFlag(Steps, i, f, k)
    BY <1>1, <1>2, <1>5 DEF Shape, InOrder, Steps, StepsOf
  <2>. QED BY <1>1, <1>3, <1>5, <2>1 DEF DoneInv, FlagInv, Succeeded
<1>. QED BY <1>4, <1>5

\* PK_OK means done, for any number of failing requests: OkMeansDone for functions
\* whose steps are in order, though a request that failed may have been executed
\* and a switch may be off by then.
THEOREM OkIsDone == Spec /\ []FunctionsInOrder => []OkMeansDone
<1>1. Init => RunInv /\ DoneInv /\ ErasedInv /\ FlagInv
  BY DEF Init, RunInv, DoneInv, ErasedInv, FlagInv
<1>2. /\ RunInv /\ DoneInv /\ ErasedInv /\ FlagInv /\ FunctionsInOrder /\ [Next]_vars
      => RunInv' /\ DoneInv' /\ ErasedInv' /\ FlagInv'
  BY RunStep, DoneInvStep, ErasedInvStep, FlagInvStep
<1>. QED BY <1>1, <1>2, DoneInvImplies, PTL DEF Spec

\* Arguments are in the structure once taken, and at the device once sent.
ArgsInv ==
    script.kind # "none" /\ Sure /\ Underway =>
        \A i \in DOMAIN mirror : \A j, k \in DOMAIN Steps :
            DeliversAt(Steps, i, j, k) =>
                (j <= At => mirror[i] = "arg") /\ (k <= At => dev[i] = "arg")

LEMMA ArgsInvStep ==
    ASSUME RunInv, ArgsInv, FunctionsInOrder, [Next]_vars
    PROVE  ArgsInv'
<1> SUFFICES ASSUME (script.kind # "none" /\ Sure /\ Underway)', NEW i \in DOMAIN mirror',
                    NEW j \in DOMAIN Steps', NEW k \in DOMAIN Steps', DeliversAt(Steps', i, j, k)
             PROVE  (j <= At' => mirror'[i] = "arg") /\ (k <= At' => dev'[i] = "arg")
  BY DEF ArgsInv
<1>1. CASE Starts
  BY <1>1, StartsFresh
<1>2. CASE Stepping
  <2>1. Sure /\ Underway /\ Steps' = Steps /\ script.kind # "none" /\ DOMAIN mirror' = DOMAIN mirror
    BY <1>2, SureBefore, StepControl, StepOf
  <2>2. (j <= At => mirror[i] = "arg") /\ (k <= At => dev[i] = "arg")
    BY <2>1 DEF ArgsInv
  <2>. QED BY <1>2, <2>1, <2>2, DeliversStep
<1>3. CASE Rests
  BY <1>3, RestsAll DEF ArgsInv
<1>. QED BY <1>1, <1>2, <1>3, NextCases

LEMMA ArgsInvImplies == RunInv /\ ArgsInv => ArgumentsReach
<1> SUFFICES ASSUME RunInv, ArgsInv, Succeeded, Complete, ~short, Call \notin PWMFromPins,
                    NEW i \in uses.takes \cap uses.carries
             PROVE  dev[i] = "arg"
  BY DEF ArgumentsReach
<1>1. /\ Underway /\ Shape /\ Allotted /\ Sure
      /\ \A k \in DOMAIN Steps : k <= At
  BY AllOver DEF Sure
<1>2. i \in ItemsTaken(Steps) \cap ItemsOut(Steps) /\ AllItems(Steps) \subseteq DOMAIN mirror
  BY <1>1 DEF Shape, Allotted, Steps
<1>3. i \in DOMAIN mirror
  BY <1>2, ItemsThere
<1>4. PICK j, k \in DOMAIN Steps : DeliversAt(Steps, i, j, k)
  BY <1>1, <1>2 DEF Shape, InOrder, Steps, StepsOf, Call
<1>. QED BY <1>1, <1>3, <1>4 DEF ArgsInv, Succeeded

\* What a function is given reaches the device, for any number of failing requests
\* and repetitions: ArgumentsReach for functions whose steps are in order.
THEOREM ArgumentsArrive == Spec /\ []FunctionsInOrder => []ArgumentsReach
<1>1. Init => RunInv /\ ArgsInv
  BY DEF Init, RunInv, ArgsInv
<1>2. RunInv /\ ArgsInv /\ FunctionsInOrder /\ [Next]_vars => RunInv' /\ ArgsInv'
  BY RunStep, ArgsInvStep
<1>. QED BY <1>1, <1>2, ArgsInvImplies, PTL DEF Spec

\* While settings are read the device keeps them, and the structure has those that
\* have been read; while they are written the structure has all of them, and the
\* device those that have been sent.
WrittenBack == ItemsOut(StepsOf(2)) \ (NeverRead(Info) \cup Erased)
RmwInv ==
    script.kind = "rmw" /\ Complete /\ Underway =>
        \A i \in WrittenBack : \A k \in DOMAIN Steps :
            /\ step = 1 => dev[i] = "dev"
            /\ step = 1 /\ ReadsAt(Steps, i, k) /\ k <= At => mirror[i] = "dev"
            /\ step = 2 => mirror[i] = "dev"
            /\ step = 2 /\ WritesAt(Steps, i, k) /\ k <= At => dev[i] = mirror[i]

\* The functions of such a script are in order.
LEMMA RmwOrder ==
    ASSUME Shape, Allotted, script.kind = "rmw", NEW i \in WrittenBack
    PROVE  /\ i \in DOMAIN mirror /\ step \in {1, 2}
           /\ step = 1 => \E k \in DOMAIN Steps : ReadsAt(Steps, i, k)
           /\ step = 2 => \E k \in DOMAIN Steps : WritesAt(Steps, i, k)
<1>1. DOMAIN script.calls = {1, 2} /\ step \in {1, 2} /\ InOrder(script, Info)
  BY DEF Shape
<1>2. i \in ItemsOut(StepsOf(2)) \ (NeverRead(Info) \cup Erased)
  BY DEF WrittenBack
<1>3. i \in DOMAIN mirror
  BY <1>1, <1>2, ItemsThere DEF Allotted
<1>4. /\ \E k \in DOMAIN StepsOf(1) : ReadsAt(StepsOf(1), i, k)
      /\ \E k \in DOMAIN StepsOf(2) : WritesAt(StepsOf(2), i, k)
  BY <1>1, <1>2 DEF InOrder, StepsOf
<1>. QED BY <1>1, <1>3, <1>4 DEF Steps

LEMMA RmwInvStep ==
    ASSUME RunInv, RmwInv, FunctionsInOrder, [Next]_vars
    PROVE  RmwInv'
<1> SUFFICES ASSUME (script.kind = "rmw" /\ Complete /\ Underway)', NEW i \in WrittenBack',
                    NEW k \in DOMAIN Steps'
             PROVE  /\ step' = 1 => dev'[i] = "dev"
                    /\ step' = 1 /\ ReadsAt(Steps', i, k) /\ k <= At' => mirror'[i] = "dev"
                    /\ step' = 2 => mirror'[i] = "dev"
                    /\ step' = 2 /\ WritesAt(Steps', i, k) /\ k <= At' => dev'[i] = mirror'[i]
  BY DEF RmwInv
<1>1. CASE BeginScript
  <2>1. Shape' /\ Allotted' /\ step' = 1 /\ ~(k <= At')
    BY <1>1, BeginEnters, StartsFresh DEF Starts
  <2>2. i \in DOMAIN mirror'
    <3>1. DOMAIN script'.calls = {1, 2} /\ i \in ItemsOut(StepsOf(2)')
      BY <2>1 DEF Shape, WrittenBack
    <3>. QED BY <2>1, <3>1, ItemsThere DEF Allotted
  <2>. QED BY <1>1, <2>1, <2>2, BeginEnters
<1>2. CASE CallAgain
  BY <1>2, AgainEnters
<1>3. CASE CallNext
  <2>1. Succeeded /\ script.kind = "rmw" /\ step = 1 /\ step' = 2
    BY <1>3, OnwardEnters DEF Succeeded
  <2>2. /\ UNCHANGED <<deviceVars, script, mirror, dev, lost>> /\ StepsOf(2)' = StepsOf(2)
        /\ ~(k <= At')
    BY <1>3, OnwardEnters, StartsFresh DEF Starts
  <2>3. Complete /\ i \in WrittenBack
    BY <2>2 DEF Complete, WrittenBack, Info, deviceVars
  <2>4. Underway /\ Shape /\ Allotted /\ \A m \in DOMAIN Steps : m <= At
    BY <2>1, AllOver
  <2>5. PICK m \in DOMAIN Steps : ReadsAt(Steps, i, m)
    BY <2>1, <2>3, <2>4, RmwOrder
  <2>6. mirror[i] = "dev"
    BY <2>1, <2>3, <2>4, <2>5 DEF RmwInv
  <2>. QED BY <2>1, <2>2, <2>6
<1>4. CASE Stepping
  <2>1. Complete /\ Underway /\ Steps' = Steps /\ UNCHANGED <<deviceVars, script, step>>
    BY <1>4, StepControl, StepOf
  <2>2. i \in WrittenBack /\ Shape /\ Allotted
    BY <1>4, <2>1, SameSteps, StepControl DEF WrittenBack, RunInv
  <2>3. i \in DOMAIN mirror /\ step \in {1, 2}
    BY <2>1, <2>2, RmwOrder
  <2>4. CASE step = 1
    <3>1. PICK m \in DOMAIN Steps : ReadsAt(Steps, i, m)
      BY <2>1, <2>2, <2>4, RmwOrder
    <3>2. dev[i] = "dev" /\ \A n \in DOMAIN Steps : ReadsAt(Steps, i, n) /\ n <= At => mirror[i] = "dev"
      BY <2>1, <2>2, <2>4, <3>1 DEF RmwInv
    <3>3. dev'[i] = "dev"
      BY <1>4, <2>3, <3>1, <3>2, ReadsStep DEF ReadsAt
    <3>4. ASSUME ReadsAt(Steps, i, k), k <= At' PROVE mirror'[i] = "dev"
      BY <1>4, <2>1, <2>3, <3>2, <3>4, ReadsStep DEF ReadsAt
    <3>. QED BY <2>1, <2>4, <3>3, <3>4
  <2>5. CASE step = 2
    <3>1. PICK m \in DOMAIN Steps : WritesAt(Steps, i, m)
      BY <2>1, <2>2, <2>5, RmwOrder
    <3>2. mirror[i] = "dev" /\ \A n \in DOMAIN Steps :
             WritesAt(Steps, i, n) /\ n <= At => dev[i] = mirror[i]
      BY <2>1, <2>2, <2>5, <3>1 DEF RmwInv
    <3>3. mirror'[i] = "dev"
      BY <1>4, <2>3, <3>1, <3>2, WritesStep
    <3>4. ASSUME WritesAt(Steps, i, k), k <= At' PROVE dev'[i] = mirror'[i]
      BY <1>4, <2>1, <2>3, <3>2, <3>4, WritesStep
    <3>. QED BY <2>1, <2>5, <3>3, <3>4
  <2>. QED BY <2>3, <2>4, <2>5
<1>5. CASE Rests
  BY <1>5, RestsAll DEF RmwInv, WrittenBack
<1>. QED BY <1>1, <1>2, <1>3, <1>4, <1>5, NextCases DEF Starts

LEMMA RmwInvImplies == RunInv /\ RmwInv => ReadModifyWrite
<1> SUFFICES ASSUME RunInv, RmwInv, Succeeded, Complete, script.kind = "rmw", step = 2,
                    NEW i \in uses.carries \ (NeverRead(Info) \cup Erased)
             PROVE  dev[i] = "dev"
  BY DEF ReadModifyWrite
<1>1. /\ Underway /\ Shape /\ Allotted
      /\ \A k \in DOMAIN Steps : k <= At
  BY AllOver
<1>2. i \in WrittenBack
  BY <1>1 DEF Shape, WrittenBack, Steps
<1>3. PICK k \in DOMAIN Steps : WritesAt(Steps, i, k)
  BY <1>1, <1>2, RmwOrder
<1>. QED BY <1>1, <1>2, <1>3 DEF RmwInv

\* Reading settings and writing them back leaves the device as it was, whichever
\* requests fail on the way, but for what is erased and what is never read:
\* ReadModifyWrite for functions whose steps are in order.
THEOREM ReadAndWriteBack == Spec /\ []FunctionsInOrder => []ReadModifyWrite
<1>1. Init => RunInv /\ RmwInv
  BY DEF Init, RunInv, RmwInv
<1>2. RunInv /\ RmwInv /\ FunctionsInOrder /\ [Next]_vars => RunInv' /\ RmwInv'
  BY RunStep, RmwInvStep
<1>. QED BY <1>1, <1>2, RmwInvImplies, PTL DEF Spec

\* Prepared settings stay in the structure, and reach the device.
Prepared == ItemsOut(StepsOf(2)) \ (ItemsTaken(StepsOf(2)) \cup ReadByOthers \cup Erased)
EditsInv ==
    script.kind = "between" /\ Underway =>
        \A i \in Prepared :
            /\ mirror[i] = "app"
            /\ step = 2 => \A k \in DOMAIN Steps :
                              WritesAt(Steps, i, k) /\ k <= At => dev[i] = mirror[i]

LEMMA EditsOrder ==
    ASSUME Shape, Allotted, script.kind = "between", NEW i \in Prepared
    PROVE  /\ i \in DOMAIN mirror /\ step \in {1, 2}
           /\ step = 1 => \A m \in DOMAIN Steps : KeepsField(Steps[m], i)
           /\ step = 2 => \E k \in DOMAIN Steps : WritesAt(Steps, i, k)
<1>1. DOMAIN script.calls = {1, 2} /\ step \in {1, 2} /\ InOrder(script, Info)
  BY DEF Shape
<1>2. i \in ItemsOut(StepsOf(2)) \ (ItemsTaken(StepsOf(2)) \cup ReadByOthers \cup Erased)
  BY DEF Prepared
<1>3. i \in DOMAIN mirror
  BY <1>1, <1>2, ItemsThere DEF Allotted
<1>4. /\ \A m \in DOMAIN StepsOf(1) : KeepsField(StepsOf(1)[m], i)
      /\ \E k \in DOMAIN StepsOf(2) : WritesAt(StepsOf(2), i, k)
  BY <1>1, <1>2 DEF InOrder, StepsOf
<1>. QED BY <1>1, <1>3, <1>4 DEF Steps

LEMMA EditsInvStep ==
    ASSUME RunInv, EditsInv, FunctionsInOrder, [Next]_vars
    PROVE  EditsInv'
<1> SUFFICES ASSUME (script.kind = "between" /\ Underway)', NEW i \in Prepared'
             PROVE  /\ mirror'[i] = "app"
                    /\ step' = 2 => \A k \in DOMAIN Steps' :
                          WritesAt(Steps', i, k) /\ k <= At' => dev'[i] = mirror'[i]
  BY DEF EditsInv
<1>1. CASE BeginScript
  <2>1. Shape' /\ Allotted' /\ step' = 1
    BY <1>1, BeginEnters
  <2>2. i \in DOMAIN mirror'
    <3>1. DOMAIN script'.calls = {1, 2} /\ i \in ItemsOut(StepsOf(2)')
      BY <2>1 DEF Shape, Prepared
    <3>. QED BY <2>1, <3>1, ItemsThere DEF Allotted
  <2>. QED BY <1>1, <2>1, <2>2, BeginEnters
<1>2. CASE CallAgain
  BY <1>2, AgainEnters
<1>3. CASE CallNext
  <2>1. /\ UNCHANGED <<script, mirror>> /\ result = "PK_OK" /\ StepsOf(2)' = StepsOf(2)
        /\ \A k \in DOMAIN Steps' : ~(k <= At')
    BY <1>3, OnwardEnters, StartsFresh DEF Starts
  <2>2. Underway /\ i \in Prepared
    BY <2>1 DEF Prepared, Underway
  <2>. QED BY <2>1, <2>2 DEF EditsInv
<1>4. CASE Stepping
  <2>1. Underway /\ Steps' = Steps /\ UNCHANGED <<deviceVars, script, step>>
    BY <1>4, StepControl, StepOf
  <2>2. i \in Prepared /\ Shape /\ Allotted
    BY <1>4, <2>1, SameSteps, StepControl DEF Prepared, RunInv
  <2>3. i \in DOMAIN mirror /\ step \in {1, 2}
    BY <2>1, <2>2, EditsOrder
  <2>4. mirror[i] = "app"
    BY <2>1, <2>2 DEF EditsInv
  <2>5. CASE step = 1
    BY <1>4, <2>1, <2>2, <2>3, <2>4, <2>5, EditsOrder, FieldKept
  <2>6. CASE step = 2
    <3>1. \A n \in DOMAIN Steps : WritesAt(Steps, i, n) /\ n <= At => dev[i] = mirror[i]
      BY <2>1, <2>2, <2>6 DEF EditsInv
    <3>2. PICK m \in DOMAIN Steps : WritesAt(Steps, i, m)
      BY <2>1, <2>2, <2>6, EditsOrder
    <3>3. mirror'[i] = "app"
      BY <1>4, <2>3, <2>4, <3>1, <3>2, WritesStep
    <3>4. ASSUME NEW k \in DOMAIN Steps, WritesAt(Steps, i, k), k <= At' PROVE dev'[i] = mirror'[i]
      BY <1>4, <2>3, <3>1, <3>4, WritesStep
    <3>. QED BY <2>1, <3>3, <3>4
  <2>. QED BY <2>3, <2>5, <2>6
<1>5. CASE Rests
  BY <1>5, RestsAll DEF EditsInv, Prepared
<1>. QED BY <1>1, <1>2, <1>3, <1>4, <1>5, NextCases DEF Starts

LEMMA EditsInvImplies == RunInv /\ EditsInv => EditsSurviveReads
<1> SUFFICES ASSUME RunInv, EditsInv, Succeeded, script.kind = "between", step = 2,
                    NEW i \in uses.carries \ (uses.takes \cup ReadByOthers \cup Erased)
             PROVE  dev[i] = "app"
  BY DEF EditsSurviveReads
<1>1. /\ Underway /\ Shape /\ Allotted
      /\ \A k \in DOMAIN Steps : k <= At
  BY AllOver
<1>2. i \in Prepared
  BY <1>1 DEF Shape, Prepared, Steps
<1>3. PICK k \in DOMAIN Steps : WritesAt(Steps, i, k)
  BY <1>1, <1>2, EditsOrder
<1>. QED BY <1>1, <1>2, <1>3 DEF EditsInv

\* Settings prepared in the structure reach the device as they were prepared,
\* though something else is read first and whatever fails of that: EditsSurviveReads
\* for functions whose steps are in order.
THEOREM EditsArrive == Spec /\ []FunctionsInOrder => []EditsSurviveReads
<1>1. Init => RunInv /\ EditsInv
  BY DEF Init, RunInv, EditsInv
<1>2. RunInv /\ EditsInv /\ FunctionsInOrder /\ [Next]_vars => RunInv' /\ EditsInv'
  BY RunStep, EditsInvStep
<1>. QED BY <1>1, <1>2, EditsInvImplies, PTL DEF Spec

\* The device is connected to as DeviceData has it: what is proved of DeviceSpec
\* holds while the functions of the API are called.
THEOREM Connects == Spec => DeviceSpec
<1>1. Init => DeviceInit
  BY DEF Init
<1>2. [Next]_vars => [DeviceNext]_deviceVars
  <2> SUFFICES ASSUME [Next]_vars PROVE DeviceNext \/ UNCHANGED deviceVars
    OBVIOUS
  <2>1. CASE Stepping
    BY <2>1 DEF Stepping, PassOver, AssignFields, ReturnEarly, Request, RequestAnswered,
       RequestTakenInPart, RequestRefused, RequestFails, RequestUnanswered
  <2>2. CASE Starts
    BY <2>2 DEF Starts, BeginScript, CallAgain, CallNext
  <2>. QED BY <2>1, <2>2 DEF Next, Connecting, vars, Starts, Stepping
<1>. QED BY <1>1, <1>2, PTL DEF Spec, DeviceSpec

\* Outside a script nothing has been called.
LostInv == lost \in 0..MaxLost
IdleInv ==
    script.kind = "none" =>
        script.calls = <<>> /\ step = 0 /\ result = "none" /\ DOMAIN mirror = DOMAIN dev

LEMMA LostInvStep == LostInv /\ [Next]_vars => LostInv'
<1> SUFFICES ASSUME LostInv, [Next]_vars PROVE lost' \in 0..MaxLost
  BY DEF LostInv
<1>1. CASE RequestFails
  <2>1. lost < MaxLost /\ lost' = lost + 1 /\ lost \in 0..MaxLost
    BY <1>1 DEF RequestFails, LostInv
  <2>. QED BY <2>1, SyncAssumption
<1>2. CASE ~RequestFails
  <2>1. lost' = lost
    BY <1>2 DEF Next, Connecting, BeginScript, CallAgain, CallNext, PassOver, AssignFields,
       ReturnEarly, Request, RequestAnswered, RequestTakenInPart, RequestRefused,
       RequestUnanswered, vars, callVars
  <2>. QED BY <2>1 DEF LostInv
<1>. QED BY <1>1, <1>2

LEMMA IdleInvStep == RunInv /\ FunctionsInOrder /\ IdleInv /\ [Next]_vars => IdleInv'
<1> SUFFICES ASSUME RunInv, FunctionsInOrder, IdleInv, [Next]_vars, script'.kind = "none"
             PROVE  /\ script'.calls = <<>> /\ step' = 0 /\ result' = "none"
                    /\ DOMAIN mirror' = DOMAIN dev'
  BY DEF IdleInv
<1>1. ~Starts
  BY BeginEnters DEF Starts, CallAgain, CallNext
<1>2. ~Stepping
  BY StepControl
<1>. QED BY <1>1, <1>2 DEF Next, Starts, Stepping, Connecting, callVars, vars, IdleInv

\* Types of all that connecting and calling change, for any number of failing
\* requests: a call returns no result but those of the API.
THEOREM TypeCorrect == Spec /\ []FunctionsInOrder => []TypeOK
<1>1. Init => RunInv /\ IdleInv /\ LostInv
  BY SyncAssumption DEF Init, RunInv, IdleInv, LostInv
<1>2. /\ RunInv /\ IdleInv /\ LostInv /\ FunctionsInOrder /\ [Next]_vars
      => RunInv' /\ IdleInv' /\ LostInv'
  BY RunStep, IdleInvStep, LostInvStep
<1>3. RunInv /\ IdleInv /\ LostInv /\ DeviceTypeOK => TypeOK
  <2> SUFFICES ASSUME RunInv, IdleInv, LostInv, DeviceTypeOK PROVE TypeOK
    OBVIOUS
  <2>1. CASE script.kind = "none"
    BY <2>1 DEF TypeOK, IdleInv, LostInv
  <2>2. CASE script.kind # "none"
    <3>1. Shape /\ Position /\ Allotted
      BY <2>2 DEF RunInv
    <3>2. step \in 0..Len(script.calls)
      BY <3>1 DEF Shape
    <3>. QED BY <3>1, <3>2 DEF TypeOK, Shape, Position, Allotted, LostInv
  <2>. QED BY <2>1, <2>2
<1>. QED BY <1>1, <1>2, <1>3, Connects, DeviceTyped, PTL DEF Spec
=============================================================================
