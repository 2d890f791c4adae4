---------------------------- MODULE SendRequest ----------------------------
(***************************************************************************)
(* SendRequest(), SendRequest_NoResponse() and SendRequest_multiPart() of  *)
(* PoKeysLibCore.c, as every synchronous function calls them: over the     *)
(* interface the device was connected by, the functions of EthRequest, of  *)
(* HidRequest or of FastUsbRequest.  The calls, the request ids and what   *)
(* the caller gets are the same variables for all of them.                 *)
(***************************************************************************)
EXTENDS FastUsbRequest

CONSTANTS
    sendRetries, readRetries, selectRetries, Strays, \* as in EthRequest
    NetworkMod,  \* IdMod of EthRequest
    NetworkCalls \* bound on the calls over the network

ASSUME SendRequestAssumption ==
    /\ NetworkMod \in Nat /\ NetworkMod > 1
    /\ sendRetries \in Nat /\ readRetries \in Nat /\ selectRetries \in Nat
    /\ NetworkCalls \in Nat
    /\ Strays \subseteq [id : 0..(NetworkMod-1), number : {0}, intact : BOOLEAN]

VARIABLES
    connectionType,      \* device->connectionType
    retries1, retries2, heard, wire, executed, rx  \* as in EthRequest

usbVars == <<retries, waits, deviceVars>>
ethVars == <<retries1, retries2, heard, wire, executed, rx>>
sendVars == <<connectionType, vars, ethVars>>

Eth == INSTANCE EthRequest WITH IdMod <- NetworkMod, MaxCalls <- NetworkCalls

SendInit ==
    /\ connectionType \in {"network", "usb", "fast"}
    /\ Init /\ Eth!Init
    /\ connectionType # "network" => rx = <<>>

Over(type) == connectionType = type /\ UNCHANGED connectionType

NetworkStep == Over("network") /\ Eth!Next  /\ UNCHANGED usbVars
HidStep     == Over("usb")     /\ Next      /\ UNCHANGED ethVars
FastStep    == Over("fast")    /\ FastNext  /\ UNCHANGED ethVars

SendNext == NetworkStep \/ HidStep \/ FastStep

SendSpec == SendInit /\ [][SendNext]_sendVars

\* The thread of the caller runs: select() and bulk reads time out; hid_read()
\* does not, but the device deals with every report it gets.
SendFairness ==
    /\ WF_sendVars(Over("network") /\ Eth!Caller /\ UNCHANGED usbVars)
    /\ WF_sendVars(Over("usb") /\ Caller /\ UNCHANGED ethVars)
    /\ WF_sendVars(Over("usb") /\ Device /\ UNCHANGED ethVars)
    /\ WF_sendVars(Over("fast") /\ FastCaller /\ UNCHANGED ethVars)
FairSendSpec == SendSpec /\ SendFairness

(***************************************************************************)
(* Properties.                                                             *)
(***************************************************************************)
RequestTypeOK == IF connectionType = "network" THEN Eth!TypeOK ELSE TypeOK

\* A call returns PK_OK only with the answer to its own latest transmission,
\* or with one so old that all the ids have been used in between: whatever is
\* lost, late, repeated or corrupt, the answers to requests given up, its own
\* and those of earlier calls, are not taken for it.  A call that waits for no
\* answer returns PK_OK over the fast interface only, with none.
OwnAnswer ==
    IF connectionType = "network" THEN Eth!AcceptsOwnAnswer
    ELSE AcceptsOwnAnswer \/ (connectionType = "fast" /\ op = "noResponse" /\ accepted = 0)

\* How often one call has the device carry out its request, at the most.
TransmissionsBounded ==
    CASE connectionType = "network" -> Eth!SendsBounded
      [] connectionType = "fast" /\ op = "big" -> sent <= 1
      [] OTHER -> WrittenTwice

\* A call over the network that has read the answer to one of its
\* transmissions fails only if some wait of it was in vain, or if it met an
\* answer to an earlier call: each attempt after that reads the answer to the
\* attempt before it, and the call fails with all of them answered.
FailsOnlyBehind == connectionType = "network" => Eth!FailsOnlyBehind

\* A call returns - over HID, unless it waits for a report that the device,
\* which is still connected, will not send.
Returns ==
    (pc # "idle") ~> \/ pc = "idle"
                     \/ /\ connectionType = "usb" /\ pc = "read" /\ plugged
                        /\ toDevice = <<>> /\ reports = <<>>
=============================================================================
