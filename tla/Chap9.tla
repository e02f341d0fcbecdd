------------------------------- MODULE Chap9 -------------------------------
(***************************************************************************)
(* The device requests of the keyboard (CHAP_9.c, HID.c and the dispatch   *)
(* of MAINLOOP.c) as functions: what a request answers and what it changes *)
(* in the device, given the device's state when the handler runs.  When    *)
(* the handler runs, and what interrupts it, is the subject of             *)
(* ControlPipe.  A definition marked "Mistaken" is a plausible error in    *)
(* the one that follows it, which the properties must tell from the code.  *)
(*                                                                         *)
(* A request is DEVICE_REQUEST of BASICTYP.h with bmRequestType split into *)
(* its direction, type and recipient:                                      *)
(*   [in, type, recipient, bRequest, wValue, wIndex, wLength]              *)
(* A device is the three state bits, the fields of D13FLAGS the requests   *)
(* write, the alternate setting, the HID state and the address register:   *)
(*   [default, address, config, configuration, wakeup, alt, hid, addr]     *)
(***************************************************************************)
EXTENDS Naturals, Sequences

RequestTypes == {"standard", "class", "vendor"}
Recipients   == {"device", "interface", "endpoint", "other"}
ReplyKinds   == {"none", "single", "burst", "stall"}

Device == [default: BOOLEAN, address: BOOLEAN, config: BOOLEAN,
           configuration: 0..1, wakeup: BOOLEAN, alt: 0..1,
           hid: {"reset", "connected"}, addr: 0..127]

\* ControlData.DeviceRequest before the first SETUP: zeroed static storage.
ZeroRequest == [in |-> FALSE, type |-> "standard", recipient |-> "device",
                bRequest |-> 0, wValue |-> 0, wIndex |-> 0, wLength |-> 0]

-----------------------------------------------------------------------------
(* What a handler hands to the chip: a reply of some kind and length, the  *)
(* device it leaves and the endpoint indexes halted (0 is EP0 OUT, 1 is    *)
(* EP0 IN, 2 is EP1).                                                      *)

Answer(kind, len, d, halt) == [kind |-> kind, len |-> len, dev |-> d, halt |-> halt]

Silence(d, halt)     == Answer("none", 0, d, halt)
Single(n, d, halt)   == Answer("single", n, d, halt)
Burst(n, d, halt)    == Answer("burst", n, d, halt)
\* Hal4D13_StallEP0InControlRead and -Write halt both directions of EP0.
StallEP0(d, halt)    == Answer("stall", 0, d, halt \cup {0, 1})

\* endp + 1 of the endpoint requests: -1 + 1 for endpoint 0.
EndpointIndex(r) == IF r.wIndex = 0 THEN 0 ELSE (r.wIndex % 16) + 1

-----------------------------------------------------------------------------
(* Standard requests. *)

FeatureStall  == 0
FeatureWakeup == 1

GetStatus(r, d, halt) ==
  CASE d.address /\ (r.recipient = "device" \/ (r.recipient = "endpoint" /\ r.wIndex = 0))
         -> Single(2, d, halt)
    [] d.address -> StallEP0(d, halt)
    [] ~d.address /\ (r.wValue # 0 \/ r.wLength # 2) -> Silence(d, halt)
    [] ~d.address /\ r.recipient = "other" -> StallEP0(d, halt)
    [] OTHER -> Single(2, d, halt)

ClearFeature(r, d, halt) ==
  CASE r.wLength # 0 -> Silence(d, halt)
    [] r.recipient = "device" /\ r.wValue = FeatureWakeup
         -> Single(0, [d EXCEPT !.wakeup = FALSE], halt)
    [] r.recipient = "endpoint" /\ r.wValue = FeatureStall /\ (d.address => r.wIndex = 0)
         -> Single(0, d, halt \ {EndpointIndex(r)})
    [] OTHER -> StallEP0(d, halt)

\* In the address state every endpoint but 0 is taken for endpoint index 1; in the
\* others an unknown endpoint feature clears EP0 IN's halt (endp is still 0) and is acknowledged.
SetFeature(r, d, halt) ==
  CASE ~d.address /\ r.wLength # 0 -> Silence(d, halt)
    [] r.recipient = "device" /\ r.wValue = FeatureWakeup
         -> Single(0, [d EXCEPT !.wakeup = TRUE], halt)
    [] r.recipient = "endpoint" /\ r.wValue = FeatureStall
         -> Single(0, d, halt \cup {IF d.address /\ r.wIndex # 0 THEN 1 ELSE EndpointIndex(r)})
    [] r.recipient = "endpoint" /\ r.wValue # FeatureStall /\ ~d.address
         -> Single(0, d, halt \ {1})
    [] OTHER -> StallEP0(d, halt)

\* The state and the address register after an address has been accepted.
Addressed(d, a) == [d EXCEPT !.default = (a = 0), !.address = (a # 0), !.addr = a]

\* Behind neither state bit the address is not written and the device is the default one again.
SetAddress(r, d, halt, abort) ==
  LET a == r.wValue % 128
  IN  CASE abort \/ (d.default /\ a = 0) -> Silence(d, halt)
        [] ~abort /\ (IF d.default THEN a # 0 ELSE d.address)
             -> Single(0, Addressed(d, a), halt)
        [] OTHER
             -> Single(0, [d EXCEPT !.default = TRUE, !.address = FALSE, !.config = FALSE], halt)

\* sizeof of the descriptor that wValue names: type in the high byte, index in the low.
StringLength == <<4, 56, 66, 26, 18, 24>>

GetDescriptor(r, d, halt) ==
  LET type  == r.wValue \div 256
      index == r.wValue % 256
  IN  CASE type = 1 -> Burst(18, d, halt)
        [] type = 2 -> Burst(34, d, halt)
        [] type = 3 /\ index \in 0..5 -> Burst(StringLength[index + 1], d, halt)
        [] type \in {4, 5, 6, 34} ->
             IF r.in /\ r.recipient = "interface" THEN Burst(45, d, halt) ELSE Silence(d, halt)
        [] OTHER -> StallEP0(d, halt)

GetConfiguration(r, d, halt) ==
  IF d.address \/ (r.wValue = 0 /\ r.wIndex = 0 /\ r.wLength = 1)
  THEN Single(1, d, halt)
  ELSE Silence(d, halt)

\* Mistaken: the address state is not left.
ConfiguredKeepsAddress(d) == [d EXCEPT !.configuration = 1, !.config = TRUE]
Configured(d) == [d EXCEPT !.configuration = 1, !.address = FALSE, !.config = TRUE]

\* Mistaken: the configured state is not left.
UnconfiguredKeepsBit(d) == [d EXCEPT !.configuration = 0, !.address = TRUE]
Unconfigured(d) ==
  [d EXCEPT !.configuration = 0, !.address = TRUE, !.config = IF d.address THEN @ ELSE FALSE]

SetConfiguration(r, d, halt) ==
  CASE d.address /\ (r.wIndex # 0 \/ r.wLength # 0) -> Silence(d, halt)
    [] r.wValue = 0 -> Single(0, Unconfigured(d), halt)
    [] r.wValue = 1 -> Single(0, Configured(d), halt)
    [] OTHER -> StallEP0(d, halt)

GetInterface(r, d, halt) ==
  IF ~d.address /\ r.wValue = 0 /\ r.wIndex = 0 /\ r.wLength = 1
  THEN Single(1, d, halt)
  ELSE StallEP0(d, halt)

\* The part after the test of the direction, which both directions reach.
SetInterface(r, d, halt) ==
  IF ~d.address /\ r.wValue \in {0, 1} /\ r.wIndex = 0
  THEN Single(0, [d EXCEPT !.alt = r.wValue], halt)
  ELSE StallEP0(d, halt)

-----------------------------------------------------------------------------
(* HID class requests. *)

ReportSize == 8

\* hid_settings.state = connected comes after the transmission: ControlPipe's step.
HID_Get_Report(r, d, halt) ==
  IF ReportSize <= r.wLength THEN Burst(ReportSize, d, halt) ELSE Silence(d, halt)

HID_Set_Idle(r, d, halt) == Silence([d EXCEPT !.hid = "connected"], halt)

-----------------------------------------------------------------------------
(* DeviceRequest_Handler: the tables and the bounds that guard them. *)

StandardDeviceRequest ==
  <<"GetStatus", "ClearFeature", "StallEP0", "SetFeature", "StallEP0", "SetAddress",
    "GetDescriptor", "StallEP0", "GetConfiguration", "SetConfiguration", "GetInterface",
    "SetInterface", "StallEP0">>

ClassDeviceRequest ==
  <<"ML_Reserved", "HID_Get_Report", "HID_Get_Idle", "HID_Get_Protocol", "ML_Reserved",
    "ML_Reserved", "ML_Reserved", "ML_Reserved", "ML_Reserved", "HID_Set_Report",
    "HID_Set_Idle", "HID_Set_Protocol">>

MAX_STANDARD_REQUEST == 13
MAX_CLASS_REQUEST    == 11

HandlerOf(r) ==
  CASE r.type = "standard" /\ r.bRequest < MAX_STANDARD_REQUEST
         -> StandardDeviceRequest[r.bRequest + 1]
    [] r.type = "class" /\ r.bRequest < MAX_CLASS_REQUEST
         -> ClassDeviceRequest[r.bRequest + 1]
    [] OTHER -> "StallEP0"

\* The handlers that only print or clear the EP0 OUT buffer.
SilentHandlers == {"ML_Reserved", "HID_Get_Idle", "HID_Get_Protocol", "HID_Set_Report"}

DeviceRequest(r, d, halt, abort) ==
  LET h == HandlerOf(r)
  IN  CASE h = "GetStatus"        -> GetStatus(r, d, halt)
        [] h = "ClearFeature"     -> ClearFeature(r, d, halt)
        [] h = "SetFeature"       -> SetFeature(r, d, halt)
        [] h = "SetAddress"       -> SetAddress(r, d, halt, abort)
        [] h = "GetDescriptor"    -> GetDescriptor(r, d, halt)
        [] h = "GetConfiguration" -> GetConfiguration(r, d, halt)
        [] h = "SetConfiguration" -> SetConfiguration(r, d, halt)
        [] h = "GetInterface"     -> GetInterface(r, d, halt)
        [] h = "SetInterface"     -> IF r.in THEN StallEP0(d, halt) ELSE SetInterface(r, d, halt)
        [] h = "HID_Get_Report"   -> HID_Get_Report(r, d, halt)
        [] h = "HID_Set_Idle"     -> HID_Set_Idle(r, d, halt)
        [] h \in SilentHandlers   -> Silence(d, halt)
        [] OTHER                  -> StallEP0(d, halt)
=============================================================================
