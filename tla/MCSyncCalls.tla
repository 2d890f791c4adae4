----------------------------- MODULE MCSyncCalls -----------------------------
(* Small instances of SyncCalls: a device of each kind of identification.   *)
EXTENDS SyncSteps

Device(extended, number, name, firmware, minor_, on) ==
    [extended |-> extended, serial |-> number, type |-> name, major |-> firmware,
     minor |-> minor_, activated |-> on]

PoKeys55  == Device(FALSE, 11600, "none", 35, 0, FALSE)
PoKeys56E == Device(FALSE, 20001, "none", 33, 10, FALSE)
PoKeys27  == Device(FALSE, 20002, "none", 64, 0, FALSE)
PoKeys57E == Device(TRUE, 30001, "57E", 68, 0, FALSE)
PoKeysCNC == Device(TRUE, 30002, "57CNC", 68, 0, FALSE)
Pro4x25   == Device(TRUE, 30003, "57CNCpro4x25", 69, 0, FALSE)
Utest     == Device(TRUE, 30004, "57Utest", 68, 0, FALSE)
Custom    == Device(TRUE, 30005, "X15_02_24", 68, 0, FALSE)
Alike     == Device(TRUE, 130001, "57U", 68, 0, FALSE)
PoPLC     == Device(TRUE, 30006, "PoPLC58", 67, 0, FALSE)

MC_Identities ==
    {PoKeys55, PoKeys56E, PoKeys27, PoKeys57E, PoKeysCNC, Pro4x25, Utest, Custom, PoPLC,
     Alike}
MC_CallsOn == {PoKeys55, PoKeys27, PoKeys57E, PoKeysCNC}

Via(d, via, shown, opens) == [device |-> d, via |-> via, shown |-> shown, opens |-> opens]

\* Each device alone, and neighbours that hide their serial number, do not open, or
\* have the same last five digits.
MC_Searches ==
    {<<Via(d, "usb", shown, TRUE)>> : d \in MC_Identities, shown \in BOOLEAN} \cup
    {<<Via(d, "net", TRUE, TRUE)>> : d \in MC_Identities} \cup
    {<<Via(PoKeys27, "usb", FALSE, opens), Via(PoKeys57E, "usb", shown, TRUE),
       Via(PoKeys57E, "net", TRUE, TRUE)>> : opens \in BOOLEAN, shown \in BOOLEAN} \cup
    {<<Via(Alike, "fast", TRUE, opens), Via(PoKeys57E, "usb", FALSE, TRUE)>> : opens \in BOOLEAN}
=============================================================================
