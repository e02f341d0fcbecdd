-------------------------- MODULE ControlPipeProofs --------------------------
(***************************************************************************)
(* The invariants of the control pipe, for every set of requests and every *)
(* number of SETUPs, aborted transfers, bus resets, suspends and reports.  *)
(*                                                                         *)
(* PacketsInsideDescriptor, DataOutReady and AnswerAccounted are not       *)
(* inductive: what DCP_state says of the counters holds because the main   *)
(* loop writes them only where DCP_state is none of the states that speak  *)
(* of them (Quiet), and because the request in hand and its length agree   *)
(* from SetupToken_Handler to DeviceRequest_Handler (Lengths), although    *)
(* both are written with the interrupts on.  A handler or the main loop    *)
(* may at any time store an earlier value of DCP_state (WriteBack): what   *)
(* DCP_state promises must hold of that value too (Held), which for        *)
(* DATAOUT over moved counters rests on the buffer: no data are in it, and *)
(* none can come before the next SETUP has been acknowledged (Buffer,      *)
(* Dry).  Two invariants of their own follow: Ep1Inv for Ep1NotOverrun,    *)
(* which counts the reports in endpoint 1, and OrderInv for the device     *)
(* states, under a host that keeps the order of chapter 9.                 *)
(***************************************************************************)
EXTENDS ControlPipe, FiniteSetTheorems, SequenceTheorems, TLAPS

-----------------------------------------------------------------------------
(* What every request handler of Chap9 returns, for all requests and       *)
(* devices.                                                                *)

Request == [in: BOOLEAN, type: RequestTypes, recipient: Recipients, bRequest: 0..255,
            wValue: Nat, wIndex: Nat, wLength: Nat]

Halts == SUBSET (0..16)

AnswerType == [kind: ReplyKinds, len: 0..66, dev: Device, halt: Halts]

\* A single reply is a status of at most two bytes, a burst a descriptor or a report.
Sized(a) == a.kind = "single" => a.len <= 2

HasState(d) == d.default \/ d.address \/ d.config

\* What every handler keeps: the type of the answer and some state bit.
Sound(a, d) == a \in AnswerType /\ Sized(a) /\ (HasState(d) => HasState(a.dev))

LEMMA ShortAnswers ==
  ASSUME NEW d \in Device, NEW e \in Device, NEW halt \in Halts, HasState(d) => HasState(e)
  PROVE  /\ Sound(Silence(e, halt), d) /\ Sound(StallEP0(e, halt), d)
         /\ \A n \in 0..2 : Sound(Single(n, e, halt), d)
         /\ \A n \in 0..66 : Sound(Burst(n, e, halt), d)
  <1> USE DEF Sound, Answer, AnswerType, ReplyKinds, Sized
  <1>1. halt \cup {0, 1} \in Halts
    BY DEF Halts
  <1>2. Sound(Silence(e, halt), d)
    BY DEF Silence
  <1>3. Sound(StallEP0(e, halt), d)
    BY <1>1 DEF StallEP0
  <1>4. \A n \in 0..2 : Sound(Single(n, e, halt), d)
    BY DEF Single
  <1>5. \A n \in 0..66 : Sound(Burst(n, e, halt), d)
    BY DEF Burst
  <1> QED BY <1>2, <1>3, <1>4, <1>5

LEMMA EndpointIndexInRange == ASSUME NEW r \in Request PROVE EndpointIndex(r) \in 0..16
  BY DEF EndpointIndex, Request

LEMMA StatusSound ==
  ASSUME NEW r \in Request, NEW d \in Device, NEW halt \in Halts
  PROVE  Sound(GetStatus(r, d, halt), d) /\ Sound(GetConfiguration(r, d, halt), d)
         /\ Sound(GetInterface(r, d, halt), d)
  BY ShortAnswers DEF GetStatus, GetConfiguration, GetInterface

LEMMA FeatureSound ==
  ASSUME NEW r \in Request, NEW d \in Device, NEW halt \in Halts
  PROVE  Sound(ClearFeature(r, d, halt), d) /\ Sound(SetFeature(r, d, halt), d)
  <1>1. /\ [d EXCEPT !.wakeup = FALSE] \in Device
        /\ HasState(d) => HasState([d EXCEPT !.wakeup = FALSE])
    BY DEF Device, HasState
  <1>5. /\ [d EXCEPT !.wakeup = TRUE] \in Device
        /\ HasState(d) => HasState([d EXCEPT !.wakeup = TRUE])
    BY DEF Device, HasState
  <1>2. EndpointIndex(r) \in 0..16 /\ halt \ {EndpointIndex(r)} \in Halts
        /\ halt \cup {EndpointIndex(r)} \in Halts /\ halt \cup {1} \in Halts
        /\ halt \ {1} \in Halts
    <2>1. EndpointIndex(r) \in 0..16
      BY EndpointIndexInRange
    <2>2. \A i \in 0..16 : halt \ {i} \in Halts /\ halt \cup {i} \in Halts
      BY DEF Halts
    <2>3. 1 \in 0..16
      OBVIOUS
    <2> QED BY ONLY <2>1, <2>2, <2>3, Zenon
  <1>3. Sound(ClearFeature(r, d, halt), d)
    BY <1>1, <1>2, ShortAnswers DEF ClearFeature
  <1>4. Sound(SetFeature(r, d, halt), d)
    <2> DEFINE e == [d EXCEPT !.wakeup = TRUE]
               set == halt \cup {IF d.address /\ r.wIndex # 0 THEN 1 ELSE EndpointIndex(r)}
    <2>1. set \in Halts
      BY <1>2
    <2>2. /\ Sound(Silence(d, halt), d) /\ Sound(StallEP0(d, halt), d)
          /\ Sound(Single(0, e, halt), d) /\ Sound(Single(0, d, set), d)
          /\ Sound(Single(0, d, halt \ {1}), d)
      BY <1>1, <1>5, <1>2, <2>1, ShortAnswers
    <2> HIDE DEF e, set
    <2> QED BY <2>2 DEF SetFeature, e, set
  <1> QED BY <1>3, <1>4

LEMMA AddressSound ==
  ASSUME NEW r \in Request, NEW d \in Device, NEW halt \in Halts, NEW aborted \in BOOLEAN
  PROVE  Sound(SetAddress(r, d, halt, aborted), d)
  <1> DEFINE a == r.wValue % 128
             e == [d EXCEPT !.default = TRUE, !.address = FALSE, !.config = FALSE]
  <1>1. a \in 0..127
    BY DEF Request
  <1>2. Addressed(d, a) \in Device /\ HasState(Addressed(d, a))
    BY <1>1 DEF Addressed, Device, HasState
  <1>3. e \in Device /\ HasState(e)
    BY DEF Device, HasState
  <1> HIDE DEF a, e
  <1>4. /\ Sound(Silence(d, halt), d) /\ Sound(Single(0, Addressed(d, a), halt), d)
        /\ Sound(Single(0, e, halt), d)
    BY <1>2, <1>3, ShortAnswers
  <1> QED BY <1>4 DEF SetAddress, a, e

LEMMA ConfigurationSound ==
  ASSUME NEW r \in Request, NEW d \in Device, NEW halt \in Halts
  PROVE  Sound(SetConfiguration(r, d, halt), d)
  <1>1. Configured(d) \in Device /\ HasState(Configured(d))
    <2>1. \A n \in 0..1 : [d EXCEPT !.configuration = n, !.address = FALSE, !.config = TRUE]
                            \in Device
      BY DEF Device
    <2>2. Configured(d).config = TRUE
      BY DEF Configured, Device
    <2> QED BY <2>1, <2>2 DEF HasState, Configured
  <1>2. Unconfigured(d) \in Device /\ HasState(Unconfigured(d))
    <2>1. \A n \in 0..1, c \in BOOLEAN :
            [d EXCEPT !.configuration = n, !.address = TRUE, !.config = c] \in Device
      BY DEF Device
    <2>2. Unconfigured(d).address = TRUE
      BY DEF Unconfigured, Device
    <2> DEFINE bit == IF d.address THEN d.config ELSE FALSE
    <2>3. bit \in BOOLEAN
      BY DEF Device
    <2>4. Unconfigured(d) \in Device
      <3>1. Unconfigured(d) = [d EXCEPT !.configuration = 0, !.address = TRUE, !.config = bit]
        BY DEF Unconfigured
      <3>2. 0 \in 0..1
        OBVIOUS
      <3> HIDE DEF bit
      <3> QED BY <2>1, <2>3, <3>1, <3>2, Zenon
    <2> QED BY <2>2, <2>4 DEF HasState
  <1> QED BY <1>1, <1>2, ShortAnswers DEF SetConfiguration

\* Both parts of Chap9_SetInterface.
LEMMA InterfaceSound ==
  ASSUME NEW r \in Request, NEW d \in Device, NEW halt \in Halts
  PROVE  Sound(SetInterface(r, d, halt), d) /\ SetInterface(r, d, halt).kind \in {"single", "stall"}
  <1>1. r.wValue \in {0, 1} => [d EXCEPT !.alt = r.wValue] \in Device
                               /\ (HasState(d) => HasState([d EXCEPT !.alt = r.wValue]))
    BY DEF Device, HasState
  <1>2. Sound(SetInterface(r, d, halt), d)
    BY <1>1, ShortAnswers DEF SetInterface
  <1>3. SetInterface(r, d, halt).kind \in {"single", "stall"}
    BY DEF SetInterface, Single, StallEP0, Answer
  <1> QED BY <1>2, <1>3

LEMMA DescriptorSound ==
  ASSUME NEW r \in Request, NEW d \in Device, NEW halt \in Halts
  PROVE  Sound(GetDescriptor(r, d, halt), d)
  <1>1. \A i \in 0..5 : StringLength[i + 1] \in 0..66
    BY DEF StringLength
  <1>2. /\ Sound(Silence(d, halt), d) /\ Sound(StallEP0(d, halt), d)
        /\ \A n \in 0..66 : Sound(Burst(n, d, halt), d)
    BY ShortAnswers
  <1>3. r.wValue % 256 \in 0..5 => Sound(Burst(StringLength[(r.wValue % 256) + 1], d, halt), d)
    BY <1>1, <1>2
  <1> QED BY <1>2, <1>3 DEF GetDescriptor

LEMMA ReportSound ==
  ASSUME NEW r \in Request, NEW d \in Device, NEW halt \in Halts
  PROVE  Sound(HID_Get_Report(r, d, halt), d) /\ Sound(HID_Set_Idle(r, d, halt), d)
  <1>1. [d EXCEPT !.hid = "connected"] \in Device
        /\ (HasState(d) => HasState([d EXCEPT !.hid = "connected"]))
    BY DEF Device, HasState
  <1> QED BY <1>1, ShortAnswers DEF HID_Get_Report, HID_Set_Idle, ReportSize

\* Whatever the request, the device and the endpoints, the handler's answer has its type and
\* leaves the device in some state of chapter 9 if it was in one.
THEOREM DeviceRequestSound ==
  ASSUME NEW r \in Request, NEW d \in Device, NEW halt \in Halts, NEW aborted \in BOOLEAN
  PROVE  Sound(DeviceRequest(r, d, halt, aborted), d)
  <1>1. Sound(Silence(d, halt), d) /\ Sound(StallEP0(d, halt), d)
    BY ShortAnswers
  <1> QED
    BY <1>1, StatusSound, FeatureSound, AddressSound, ConfigurationSound, InterfaceSound,
       DescriptorSound, ReportSound
       DEF DeviceRequest

IsBurst(a) == a.kind = "burst"

\* A descriptor or report is the same in every state of the device: what is under way when
\* the device changes is not affected.
LEMMA BurstFixed ==
  ASSUME NEW r \in Request, NEW d \in Device, NEW halt \in Halts, NEW aborted \in BOOLEAN,
         NEW e \in Device, IsBurst(DeviceRequest(r, d, halt, aborted))
  PROVE  /\ IsBurst(DeviceRequest(r, e, {}, FALSE))
         /\ DeviceRequest(r, e, {}, FALSE).len = DeviceRequest(r, d, halt, aborted).len
  <1> USE DEF IsBurst, Answer, Silence, Single, Burst, StallEP0
  <1>1. HandlerOf(r) \in {"GetDescriptor", "HID_Get_Report"}
    <2>1. ~IsBurst(GetStatus(r, d, halt)) /\ ~IsBurst(GetConfiguration(r, d, halt))
          /\ ~IsBurst(GetInterface(r, d, halt)) /\ ~IsBurst(SetInterface(r, d, halt))
      BY DEF GetStatus, GetConfiguration, GetInterface, SetInterface
    <2>2. ~IsBurst(ClearFeature(r, d, halt)) /\ ~IsBurst(SetFeature(r, d, halt))
      BY DEF ClearFeature, SetFeature
    <2>3. ~IsBurst(SetAddress(r, d, halt, aborted)) /\ ~IsBurst(SetConfiguration(r, d, halt))
      BY DEF SetAddress, SetConfiguration
    <2>4. ~IsBurst(HID_Set_Idle(r, d, halt)) /\ ~IsBurst(Silence(d, halt))
          /\ ~IsBurst(StallEP0(d, halt))
      BY DEF HID_Set_Idle
    <2> HIDE DEF IsBurst
    <2> QED BY <2>1, <2>2, <2>3, <2>4 DEF DeviceRequest
  <1>2. CASE HandlerOf(r) = "GetDescriptor"
    <2>1. IsBurst(GetDescriptor(r, d, halt))
          => /\ IsBurst(GetDescriptor(r, e, {}))
             /\ GetDescriptor(r, e, {}).len = GetDescriptor(r, d, halt).len
      BY DEF GetDescriptor
    <2> QED BY <1>2, <2>1 DEF DeviceRequest
  <1>3. CASE HandlerOf(r) = "HID_Get_Report"
    <2>1. IsBurst(HID_Get_Report(r, d, halt))
          => /\ IsBurst(HID_Get_Report(r, e, {}))
             /\ HID_Get_Report(r, e, {}).len = HID_Get_Report(r, d, halt).len
      BY DEF HID_Get_Report
    <2> QED BY <1>3, <2>1 DEF DeviceRequest
  <1> QED BY <1>1, <1>2, <1>3

\* SetInterface refuses the direction of a read by its first test.
LEMMA SetInterfaceIn ==
  ASSUME NEW r \in Request, NEW d \in Device, NEW halt \in Halts, NEW aborted \in BOOLEAN,
         HandlerOf(r) = "SetInterface", r.in
  PROVE  DeviceRequest(r, d, halt, aborted).kind = "stall"
  <1>1. r.in = TRUE
    BY DEF Request
  <1>2. DeviceRequest(r, d, halt, aborted) = StallEP0(d, halt)
    BY <1>1 DEF DeviceRequest, SilentHandlers
  <1> QED BY <1>2 DEF StallEP0, Answer

-----------------------------------------------------------------------------
(* The invariant.                                                          *)

AnyRequest == Requests \cup {ZeroRequest}
SourceSets == SUBSET Sources
Bytes      == 0..EP0_PACKET_SIZE
Packets    == SUBSET Bytes
Phases     == {"idle"} \cup Active \cup Ended

ChipType == [int: SourceSets, out: Bytes, isSetup: BOOLEAN, setup: AnyRequest, ovwr: BOOLEAN,
             acked: BOOLEAN, in: Packets, halt: Halts, ep1: Nat]

HostType == [phase: Phases, req: AnyRequest, got: Nat, calm: BOOLEAN, undone: BOOLEAN]

LeftType == [setups: 0..MaxSetups, aborts: 0..MaxAborts, resets: 0..MaxResets,
             suspends: 0..MaxSuspends, reports: 0..MaxReports]

FlagsType == [dcp: DCPStates, suspend: BOOLEAN, configuration: 0..1, wakeup: BOOLEAN]

\* DCP_state is in S, or will be when the read-modify-write under way stores what it has read.
Held(S) == dcp \in S \/ \E f \in snap : f.dcp \in S

\* Where the main loop is held up by handlers that have reopened the processor.
BehindGate == {"setup", "setupLength", "setupStall", "request", "setupLateAck", "connect",
               "interface", "ep1", "send", "resetCheck"}

\* A read-modify-write is under way in one place at a time, with the gate open; no handler
\* begins a data stage in the middle of it.
WriteBack ==
  /\ gate = "closed" => pc \in {"setupRead", "setupAck", "requestRun"}
  /\ gate = "opening" \/ reopened # <<>> => pc \in BehindGate
  /\ snap # {} => gate = "open" /\ (pc = "ep1Store" \/ reopened # <<>>)
  /\ pc = "ep1Store" => \A f \in snap : f.dcp = "IDLE"
  /\ dcp \in {"DATAIN", "DATAOUT"} => \A f \in snap : f.dcp \in {dcp, "IDLE"}

\* A descriptor under way is the answer to the request in hand.
ReadInHand ==
  Held({"DATAIN"}) =>
    /\ IsBurst(DeviceRequest(req, dev, {}, FALSE))
    /\ wCount <= wLength
    /\ wLength <= Least(req.wLength, DeviceRequest(req, dev, {}, FALSE).len)

\* No data of a write are in the buffer, and none can come before the next SETUP has been
\* acknowledged.
Dry ==
  /\ chip.isSetup \/ chip.out = 0
  /\ ~(host.phase = "dataOut" /\ chip.acked)

\* What DATAOUT promises of the counters, restored or not.
WriteInHand ==
  Held({"DATAOUT"}) =>
    /\ wLength \in 1..MAX_CONTROLDATA_SIZE
    /\ wCount = 0 \/ Dry
    /\ pc = "setupLateAck" => wCount = 0

\* A SETUP shuts the buffer until it has been acknowledged, which empties it. From the read of
\* a SETUP to its acknowledgement no data come.
Buffer ==
  /\ ~chip.isSetup => chip.acked
  /\ host.phase = "dataOut" => chip.isSetup
  /\ host.phase = "dataOut" /\ chip.acked => chip.out = 0
  /\ pc \in {"setupLength", "setupAck", "setupLateAck"} => Dry

\* An answer that is complete, or will be said to be, has been counted.
AnswerInHand == Held({"HANDSHAKE"}) /\ ~IsVendorStatus(req) => wCount = wLength

\* Where the main loop has a SETUP or a reply in hand.
InHand == {"setupEnter", "setupRead", "setupLength", "setupAck", "setupStall",
           "setupStallNote", "requestRun", "interface", "interfaceNote"}

\* There no data stage is under way and no request waits: the handler may interrupt, but it
\* brings none of these states about on its own.
Quiet ==
  /\ pc \in InHand => ~Held({"DATAIN", "DATAOUT", "HANDSHAKE", "REQUESTPROC"})
  /\ pc = "requestEnter" => ~Held({"DATAIN", "DATAOUT", "HANDSHAKE"})

\* wLength is the request's own from the end of SetupToken_Handler to the reply.
Lengths ==
  /\ pc \in {"setupAck", "requestEnter", "requestRun"} \/ Held({"REQUESTPROC", "DATAOUT"})
       => wLength = req.wLength
  /\ pc = "setupAck" => wCount = 0

\* The replies that are noted in a later step are no bursts.
Noted ==
  /\ pc = "setupStallNote" => reply.kind = "stall"
  /\ pc = "interfaceNote" => reply.kind \in {"single", "stall"}

Counters == ReadInHand /\ WriteInHand /\ AnswerInHand /\ SomeDeviceState

Guards == Quiet /\ Lengths /\ Noted

IInv == TypeOK /\ WriteBack /\ Buffer /\ Counters /\ Guards

-----------------------------------------------------------------------------
(* Types. *)

Typed ==
  PipeTypeOK /\ LoopTypeOK /\ chip \in ChipType /\ host \in HostType /\ left \in LeftType

LEMMA TypedIsTypeOK == TypeOK <=> Typed
  BY DEF TypeOK, ChipTypeOK, Typed, ChipType, HostType, LeftType, AnyRequest, Halts,
         SourceSets, Bytes, Packets, Phases

LEMMA TypedIsTypeOKNext == TypeOK' <=> Typed'
  BY DEF TypeOK, ChipTypeOK, Typed, ChipType, HostType, LeftType, AnyRequest, Halts,
         SourceSets, Bytes, Packets, Phases

LEMMA RequestsTyped == AnyRequest \subseteq Request
  <1>1. Requests \subseteq Request
    BY RequestsAssumption DEF Request
  <1>2. ZeroRequest \in Request
    BY DEF ZeroRequest, Request, RequestTypes, Recipients
  <1> QED BY <1>1, <1>2 DEF AnyRequest

LEMMA LeastFacts ==
  ASSUME NEW a \in Nat, NEW b \in Nat
  PROVE  /\ Least(a, b) \in Nat /\ Least(a, b) <= a /\ Least(a, b) <= b
         /\ Least(a, b) = a \/ Least(a, b) = b
  BY DEF Least

LEMMA SourceFacts ==
  /\ {} \in SourceSets
  /\ \A s \in SourceSets, t \in SourceSets : s \cup t \in SourceSets
  /\ \A s \in SourceSets : \A t : s \cap t \in SourceSets /\ s \ t \in SourceSets
  /\ \A x \in Sources : {x} \in SourceSets
  BY DEF SourceSets

LEMMA PacketFacts ==
  /\ 0 \in Bytes /\ 8 \in Bytes /\ {} \in Packets
  /\ \A n \in Bytes : {n} \in Packets /\ n \in Nat
  /\ \A p \in Packets : \A n \in p : n \in Bytes
  <1>1. 0 \in Bytes /\ 8 \in Bytes /\ \A n \in Bytes : n \in Nat
    BY DEF Bytes, EP0_PACKET_SIZE
  <1> QED BY <1>1 DEF Packets

LEMMA HaltFacts ==
  /\ {} \in Halts
  /\ \A h \in Halts : h \cup {0, 1} \in Halts /\ h \ {0, 1} \in Halts
  BY DEF Halts

LEMMA OnePacket == ASSUME NEW a \in Nat PROVE Least(a, EP0_PACKET_SIZE) \in Bytes
  BY DEF Least, Bytes, EP0_PACKET_SIZE

LEMMA ReadStatusType ==
  ASSUME NEW c \in ChipType, NEW s PROVE ReadStatus(c, s) \in ChipType
  <1>1. c.int \ {s} \in SourceSets /\ (IF s = "EP0OUT" THEN FALSE ELSE c.ovwr) \in BOOLEAN
    BY SourceFacts DEF ChipType
  <1> QED BY <1>1 DEF ReadStatus, ChipType

LEMMA AcknowledgeType == ASSUME NEW c \in ChipType PROVE Acknowledge(c) \in ChipType
  BY PacketFacts DEF Acknowledge, ChipType

LEMMA EmptyOutType == ASSUME NEW c \in ChipType PROVE [c EXCEPT !.out = 0] \in ChipType
  BY PacketFacts DEF ChipType

LEMMA WriteInType ==
  ASSUME NEW c \in ChipType, NEW n \in Bytes, req \in AnyRequest
  PROVE  WriteIn(c, n) \in ChipType
  <1>1. {n} \in Packets
    BY PacketFacts
  <1> QED BY <1>1 DEF WriteIn, ChipType

LEMMA HaltType ==
  ASSUME NEW c \in ChipType, NEW h \in Halts PROVE [c EXCEPT !.halt = h] \in ChipType
  BY DEF ChipType

LEMMA HaltEP0Type ==
  ASSUME NEW c \in ChipType PROVE [c EXCEPT !.halt = @ \cup {0, 1}] \in ChipType
  <1>1. c.halt \cup {0, 1} \in Halts
    BY HaltFacts DEF ChipType
  <1> QED BY <1>1, HaltType

LEMMA TransmitType ==
  ASSUME NEW c \in ChipType, NEW a \in AnswerType, Sized(a), req \in AnyRequest, wLength \in Nat
  PROVE  Transmit(c, a.kind, a.len, a.halt) \in ChipType
  <1>1. a.len \in Nat /\ a.halt \in Halts /\ (a.kind = "single" => a.len \in Bytes)
    BY DEF AnswerType, Sized, Bytes, EP0_PACKET_SIZE
  <1>2. [c EXCEPT !.halt = a.halt] \in ChipType
    BY <1>1, HaltType
  <1>3. Least(Least(wLength, a.len), EP0_PACKET_SIZE) \in Bytes
    BY <1>1, LeastFacts, OnePacket
  <1> QED BY <1>1, <1>2, <1>3, WriteInType DEF Transmit

LEMMA OneLess ==
  ASSUME NEW m \in Nat, NEW n \in 0..m PROVE n > 0 => n - 1 \in 0..m
  OBVIOUS

LEMMA BoundFacts ==
  MaxSetups \in Nat /\ MaxAborts \in Nat /\ MaxResets \in Nat /\ MaxSuspends \in Nat
  /\ MaxReports \in Nat
  BY BoundsAssumption

\* What a reply may do to DCP_state and the counters.
LEMMA NoteEffect ==
  ASSUME NEW k, NEW n \in Nat, NEW d, Note(k, n, d), wLength \in Nat, wCount \in Nat
  PROVE  /\ wLength' \in Nat /\ wCount' \in Nat
         /\ \/ dcp' = d /\ (k # "burst" => UNCHANGED <<wLength, wCount>>)
            \/ dcp' = "STALL" /\ UNCHANGED <<wLength, wCount>>
            \/ dcp' = "HANDSHAKE" /\ k # "stall" /\ wCount' = wLength'
            \/ /\ dcp' = "DATAIN" /\ k = "burst"
               /\ wLength' = Least(wLength, n) /\ wCount' = 64 /\ wCount' <= wLength'
  <1>1. CASE k = "single" /\ ~abort
    BY <1>1 DEF Note
  <1>2. CASE k = "stall" /\ ~abort
    BY <1>2 DEF Note
  <1>3. CASE k = "burst" /\ ~abort
    <2>1. Least(wLength, n) \in Nat
      BY LeastFacts
    <2>2. wLength' = Least(wLength, n) /\ NoteBurst(Least(wLength, n))
      BY <1>3 DEF Note
    <2> QED BY <1>3, <2>1, <2>2 DEF NoteBurst, EP0_PACKET_SIZE
  <1>4. CASE k = "burst" /\ abort
    BY <1>4, LeastFacts DEF Note
  <1>5. CASE ~(k = "single" /\ ~abort) /\ ~(k = "stall" /\ ~abort) /\ k # "burst"
    BY <1>5 DEF Note
  <1> QED BY <1>1, <1>2, <1>3, <1>4, <1>5

-----------------------------------------------------------------------------
(* What the steps do to the chip, as far as the invariants look at it. *)

\* Nothing but an emptied EP0 OUT.
Alike(c, d) ==
  /\ c.ep1 = d.ep1 /\ c.int = d.int /\ c.isSetup = d.isSetup /\ c.acked = d.acked
  /\ c.out \in {d.out, 0}

\* Nothing but an acknowledgement, which empties EP0 OUT.
Acks(c, d) ==
  /\ c.ep1 = d.ep1 /\ c.int = d.int /\ c.isSetup = d.isSetup
  /\ (c.acked = d.acked /\ c.out = d.out) \/ (c.acked = TRUE /\ c.out = 0)

LEMMA AlikeFacts ==
  ASSUME NEW c \in ChipType
  PROVE  /\ Alike(c, c) /\ Acks(Acknowledge(c), c)
         /\ Alike([c EXCEPT !.out = 0], c)
         /\ \A h : Alike([c EXCEPT !.halt = h], c)
         /\ \A n : Alike(WriteIn(c, n), c)
  BY DEF Alike, Acks, Acknowledge, WriteIn, ChipType

LEMMA TransmitAlike ==
  ASSUME NEW c \in ChipType, NEW h \in Halts, NEW k, NEW len
  PROVE  Alike(Transmit(c, k, len, h), c)
  <1> DEFINE d == [c EXCEPT !.halt = h]
  <1>1. d \in ChipType /\ Alike(d, c)
    BY HaltType, AlikeFacts
  <1>2. \A n : Alike(WriteIn(d, n), d)
    BY <1>1, AlikeFacts
  <1>3. Transmit(c, k, len, h) = d \/ \E n : Transmit(c, k, len, h) = WriteIn(d, n)
    BY DEF Transmit
  <1> HIDE DEF d
  <1> QED BY <1>1, <1>2, <1>3 DEF Alike

LEMMA StatusRead ==
  ASSUME NEW c \in ChipType, NEW s
  PROVE  /\ ReadStatus(c, s).ep1 = c.ep1 /\ ReadStatus(c, s).int = c.int \ {s}
         /\ ReadStatus(c, s).isSetup = c.isSetup /\ ReadStatus(c, s).acked = c.acked
         /\ ReadStatus(c, s).out = c.out
  BY DEF ReadStatus, ChipType

\* The steps of the main loop that write to the chip.
LEMMA MainChip ==
  ASSUME Typed, MainStep
  PROVE  /\ SetupAck \/ SetupLateAck => Acks(chip', chip)
         /\ ~SetupAck /\ ~SetupLateAck /\ ~SendReport => Alike(chip', chip)
         /\ SendReport => /\ chip'.int = chip.int /\ chip'.isSetup = chip.isSetup
                          /\ chip'.acked = chip.acked /\ chip'.out = chip.out
  <1>0. /\ chip \in ChipType /\ req \in Request /\ dev \in Device /\ chip.halt \in Halts
        /\ abort \in BOOLEAN
    BY RequestsTyped DEF Typed, PipeTypeOK, ChipType, AnyRequest
  <1> USE <1>0
  <1>1. CASE chip' = chip
    BY <1>1, AlikeFacts DEF Alike, Acks
  <1>2. CASE SetupRead
    <2>1. chip' = [chip EXCEPT !.out = 0] \/ chip' = chip
      BY <1>2 DEF SetupRead
    <2>2. ~SetupAck /\ ~SetupLateAck /\ ~SendReport
      BY <1>2 DEF SetupRead, SetupAck, SetupLateAck, SendReport, At
    <2> QED BY <2>1, <2>2, AlikeFacts
  <1>3. CASE SetupAck \/ SetupLateAck
    <2>1. \/ chip' = Acknowledge(chip) \/ chip' = chip
          \/ chip' = [Acknowledge(chip) EXCEPT !.halt = Acknowledge(chip).halt \cup {0, 1}]
      BY <1>3 DEF SetupAck, SetupLateAck
    <2>2. Acknowledge(chip) \in ChipType /\ Acks(Acknowledge(chip), chip)
      BY AcknowledgeType, AlikeFacts
    <2>3. \A h : [Acknowledge(chip) EXCEPT !.halt = h].out = Acknowledge(chip).out
                 /\ Alike([Acknowledge(chip) EXCEPT !.halt = h], Acknowledge(chip))
      BY <2>2, AlikeFacts DEF ChipType
    <2>4. Acks(chip', chip)
      BY <2>1, <2>2, <2>3 DEF Alike, Acks
    <2>5. ~SendReport
      BY <1>3 DEF SetupAck, SetupLateAck, SendReport, At
    <2> QED BY <1>3, <2>4, <2>5
  <1>4. CASE SetupStall
    <2>1. chip' = [chip EXCEPT !.halt = chip.halt \cup {0, 1}]
      BY <1>4 DEF SetupStall
    <2>2. ~SetupAck /\ ~SetupLateAck /\ ~SendReport
      BY <1>4 DEF SetupStall, SetupAck, SetupLateAck, SendReport, At
    <2> QED BY <2>1, <2>2, AlikeFacts
  <1>5. CASE RequestRun
    <2> DEFINE a == DeviceRequest(req, dev, chip.halt, abort)
               c == IF HandlerOf(req) = "ML_Reserved" /\ chip.acked
                    THEN [chip EXCEPT !.out = 0] ELSE chip
    <2>1. chip' = Transmit(c, a.kind, a.len, a.halt)
      BY <1>5 DEF RequestRun
    <2>2. c \in ChipType /\ Alike(c, chip)
      BY EmptyOutType, AlikeFacts
    <2>3. a.halt \in Halts
      BY DeviceRequestSound DEF Sound, AnswerType
    <2>4. ~SetupAck /\ ~SetupLateAck /\ ~SendReport
      BY <1>5 DEF RequestRun, SetupAck, SetupLateAck, SendReport, At
    <2> HIDE DEF a, c
    <2>5. Alike(chip', c)
      BY <2>1, <2>2, <2>3, TransmitAlike
    <2> QED BY <2>2, <2>4, <2>5 DEF Alike
  <1>6. CASE InterfaceReply
    <2> DEFINE a == SetInterface(req, dev, chip.halt)
    <2>1. chip' = Transmit(chip, a.kind, a.len, a.halt)
      BY <1>6 DEF InterfaceReply
    <2>2. a.halt \in Halts
      BY InterfaceSound DEF Sound, AnswerType
    <2>3. ~SetupAck /\ ~SetupLateAck /\ ~SendReport
      BY <1>6 DEF InterfaceReply, SetupAck, SetupLateAck, SendReport, At
    <2> HIDE DEF a
    <2> QED BY <2>1, <2>2, <2>3, TransmitAlike
  <1>7. CASE SendReport
    <2>1. ~SetupAck /\ ~SetupLateAck
      BY <1>7 DEF SetupAck, SetupLateAck, SendReport, At
    <2> QED BY <1>7, <2>1 DEF SendReport, ChipType
  <1>8. \/ chip' = chip \/ SetupRead \/ SetupAck \/ SetupLateAck \/ SetupStall \/ RequestRun
        \/ InterfaceReply \/ SendReport
    BY DEF MainStep, CheckSuspend, CheckSetup, SetupEnter, SetupLength, SetupStallNote,
           CheckRequest, RequestEnter, Connect, InterfaceNote, CheckEp1, Ep1Load, Ep1Store,
           CheckReport, CheckReset
  <1> QED BY <1>1, <1>2, <1>3, <1>4, <1>5, <1>6, <1>7, <1>8

-----------------------------------------------------------------------------
(* Steps of the main loop. *)

\* At a step of the main loop no handler is under way, and no read-modify-write but its own.
LEMMA AtFacts ==
  ASSUME IInv, NEW l, At(l)
  PROVE  /\ pc = l /\ ~inIsr /\ reopened = <<>> /\ gate # "opening"
         /\ l # "ep1Store" => snap = {}
         /\ l \notin {"setupRead", "setupAck", "requestRun"} => gate = "open" /\ chip.int = {}
  BY DEF IInv, TypeOK, LoopTypeOK, GateStates, WriteBack, At, Preempted

LEMMA MainWriteBack == ASSUME IInv, MainStep PROVE WriteBack'
  <1>1. reopened = <<>> /\ reopened' = reopened /\ gate # "opening"
    BY DEF MainStep, CheckSuspend, CheckSetup, SetupEnter, SetupRead, SetupLength, SetupAck,
           SetupLateAck, SetupStall, SetupStallNote, CheckRequest, RequestEnter, RequestRun,
           Connect, InterfaceReply, InterfaceNote, CheckEp1, Ep1Load, Ep1Store, CheckReport,
           SendReport, CheckReset, At, gateVars, isrVars
  <1>2. CASE Ep1Load
    <2>1. gate = "open" /\ gate' = gate /\ dcp' = dcp /\ pc' = "ep1Store"
          /\ snap' = {[D13Flags EXCEPT !.dcp = "IDLE"]}
      BY <1>2, AtFacts DEF Ep1Load, gateVars, pipeVars
    <2>2. \A f \in snap' : f.dcp = "IDLE"
      BY <2>1 DEF D13Flags
    <2> QED BY <1>1, <2>1, <2>2 DEF WriteBack
  <1>3. CASE ~Ep1Load
    <2>1. snap' = {} /\ pc' # "ep1Store"
      <3>1. CASE Ep1Store
        BY <3>1 DEF Ep1Store, StoreFlags
      <3>2. CASE ~Ep1Store
        <4>1. snap' = snap /\ pc' # "ep1Store" /\ \E l : l # "ep1Store" /\ At(l)
          BY <1>3, <3>2
             DEF MainStep, CheckSuspend, CheckSetup, SetupEnter, SetupRead, SetupLength, SetupAck,
                 SetupLateAck, SetupStall, SetupStallNote, CheckRequest, RequestEnter, RequestRun,
                 Connect, InterfaceReply, InterfaceNote, CheckEp1, CheckReport, SendReport,
                 CheckReset
        <4> QED BY <4>1, AtFacts
      <3> QED BY <3>1, <3>2
    <2>2. /\ gate' = "opening" => pc' \in BehindGate
          /\ gate' = "closed" => pc' \in {"setupRead", "setupAck", "requestRun"}
      BY <1>3, AtFacts
         DEF MainStep, CheckSuspend, CheckSetup, SetupEnter, SetupRead, SetupLength, SetupAck,
             SetupLateAck, SetupStall, SetupStallNote, CheckRequest, RequestEnter, RequestRun,
             Connect, InterfaceReply, InterfaceNote, CheckEp1, Ep1Store, CheckReport,
             SendReport, CheckReset, gateVars, BehindGate
    <2> QED BY <1>1, <2>1, <2>2 DEF WriteBack
  <1> QED BY <1>2, <1>3

\* The main loop leaves the buffer of EP0 OUT as it is, empties it or lets the host fill it.
LEMMA MainBuffer ==
  ASSUME IInv, MainStep
  PROVE  Buffer' /\ (~SetupAck /\ ~SetupLateAck /\ Dry => Dry')
  <1>0. IInv /\ Typed /\ chip.acked \in BOOLEAN
    BY TypedIsTypeOK DEF IInv, Typed, ChipType
  <1>1. host'.phase = host.phase
    BY <1>0
       DEF MainStep, CheckSuspend, CheckSetup, SetupEnter, SetupRead, SetupLength, SetupAck,
           SetupLateAck, SetupStall, SetupStallNote, CheckRequest, RequestEnter, RequestRun,
           Connect, InterfaceReply, InterfaceNote, CheckEp1, Ep1Load, Ep1Store, CheckReport,
           SendReport, CheckReset, StoreFlags, Typed, HostType
  <1>2. chip'.isSetup = chip.isSetup /\ (chip'.out = chip.out \/ chip'.out = 0)
        /\ (chip'.acked = chip.acked \/ (chip'.acked = TRUE /\ chip'.out = 0))
        /\ (~SetupAck /\ ~SetupLateAck => chip'.acked = chip.acked)
    BY <1>0, MainChip DEF Alike, Acks
  <1>3. ~SetupAck /\ ~SetupLateAck /\ Dry => Dry'
    BY <1>1, <1>2 DEF Dry
  <1>4. pc' \in {"setupLength", "setupAck", "setupLateAck"} => Dry'
    <2>1. CASE SetupRead
      <3>1. pc' = "setupLength" => chip.out >= 8 /\ chip.out # 0
        BY <2>1, <1>0 DEF SetupRead, Typed, ChipType
      <3>2. chip'.out = IF chip.acked THEN 0 ELSE chip.out
        BY <2>1, <1>0 DEF SetupRead, Typed, ChipType
      <3>3. ~SetupAck /\ ~SetupLateAck /\ pc' \in {"setupLength", "setupStall"}
        BY <2>1 DEF SetupRead, SetupAck, SetupLateAck, At
      <3>4. (~chip.isSetup => chip.acked) /\ (host.phase = "dataOut" /\ chip.acked => chip.out = 0)
        BY <1>0 DEF IInv, Buffer
      <3>5. CASE pc' = "setupLength"
        <4>1. chip'.isSetup \/ chip'.out = 0
          BY <1>2, <3>2, <3>4
        <4>2. ~(host'.phase = "dataOut" /\ chip'.acked)
          BY <1>1, <1>2, <3>1, <3>3, <3>4, <3>5
        <4> QED BY <4>1, <4>2 DEF Dry
      <3> QED BY <3>3, <3>5
    <2>2. CASE SetupLength
      <3>1. pc = "setupLength" /\ ~SetupAck /\ ~SetupLateAck
        BY <2>2 DEF SetupLength, SetupAck, SetupLateAck, At
      <3> QED BY <1>0, <1>3, <3>1 DEF IInv, Buffer
    <2>3. CASE SetupAck
      <3>1. pc' = "setupLateAck" => chip' = chip
        BY <2>3 DEF SetupAck
      <3>2. pc = "setupAck" /\ pc' \in {"request", "setupLateAck"}
        BY <2>3 DEF SetupAck, At
      <3>3. Dry
        BY <1>0, <3>2 DEF IInv, Buffer
      <3> QED BY <1>1, <3>1, <3>2, <3>3 DEF Dry
    <2>4. SetupRead \/ SetupLength \/ SetupAck
          \/ pc' \notin {"setupLength", "setupAck", "setupLateAck"}
      BY DEF MainStep, CheckSuspend, CheckSetup, SetupEnter, SetupLateAck, SetupStall,
             SetupStallNote, CheckRequest, RequestEnter, RequestRun, Connect, InterfaceReply,
             InterfaceNote, CheckEp1, Ep1Load, Ep1Store, CheckReport, SendReport, CheckReset
    <2> QED BY <2>1, <2>2, <2>3, <2>4
  <1>5. Buffer'
    BY <1>0, <1>1, <1>2, <1>4 DEF IInv, Buffer
  <1> QED BY <1>3, <1>5

LEMMA SamePipe ==
  ASSUME IInv, UNCHANGED <<dcp, snap, req, wLength, wCount, dev>>,
         pc' = "setupLateAck" => pc = "setupLateAck",
         (Dry => Dry') \/ (Held({"DATAOUT"}) => wCount = 0)
  PROVE  Counters'
  BY DEF IInv, Counters, ReadInHand, WriteInHand, AnswerInHand, SomeDeviceState, Held

\* The steps that only look at the pipe.
LooksOn ==
  \/ CheckSuspend \/ CheckSetup \/ SetupLateAck \/ CheckRequest \/ CheckEp1 \/ CheckReport
  \/ SendReport \/ CheckReset \/ SetupStall

LEMMA LooksOnKeeps ==
  ASSUME IInv, LooksOn PROVE Typed' /\ Counters' /\ Guards'
  <1>0. Typed /\ IInv
    BY TypedIsTypeOK DEF IInv
  <1>1. /\ UNCHANGED <<dcp, req, wLength, wCount, dev, host, abort, snap, reopened>>
        /\ suspend' \in BOOLEAN /\ snap = {}
    <2>1. \E l : l # "ep1Store" /\ At(l)
      BY DEF LooksOn, CheckSuspend, CheckSetup, SetupLateAck, CheckRequest, CheckEp1,
             CheckReport, SendReport, CheckReset, SetupStall
    <2>2. /\ UNCHANGED <<dcp, req, wLength, wCount, dev, host, abort, snap, reopened>>
          /\ suspend' \in BOOLEAN
      BY <1>0
         DEF LooksOn, CheckSuspend, CheckSetup, SetupLateAck, CheckRequest, CheckEp1,
             CheckReport, SendReport, CheckReset, SetupStall, pipeVars, Typed, PipeTypeOK,
             gateVars, isrVars
    <2> QED BY <2>1, <2>2, AtFacts
  <1>2. PipeTypeOK'
    BY <1>0, <1>1 DEF Typed, PipeTypeOK
  <1>3. Counters'
    <2>1. pc' # "setupLateAck"
      BY DEF LooksOn, CheckSuspend, CheckSetup, SetupLateAck, CheckRequest, CheckEp1,
             CheckReport, SendReport, CheckReset, SetupStall
    <2>2. CASE SetupLateAck
      <3>1. pc = "setupLateAck"
        BY <2>2 DEF SetupLateAck, At
      <3>2. Held({"DATAOUT"}) => wCount = 0
        BY <1>0, <3>1 DEF IInv, Counters, WriteInHand
      <3> QED BY <1>1, <2>1, <3>2, SamePipe
    <2>3. CASE ~SetupLateAck
      <3>1. ~SetupAck /\ MainStep
        BY <2>3 DEF LooksOn, CheckSuspend, CheckSetup, CheckRequest, CheckEp1, CheckReport,
                    SendReport, CheckReset, SetupStall, SetupAck, At, MainStep
      <3> QED BY <1>1, <2>1, <2>3, <3>1, SamePipe, MainBuffer
    <2> QED BY <2>2, <2>3
  <1>4. (Quiet /\ Lengths /\ Noted)'
    BY <1>0, <1>1
       DEF LooksOn, CheckSuspend, CheckSetup, SetupLateAck, CheckRequest, CheckEp1,
           CheckReport, SendReport, CheckReset, SetupStall, IInv, Guards, Quiet, Lengths, Noted,
           At, InHand, Held
  <1> USE <1>0 DEF Typed, LoopTypeOK, At, pipeVars, gateVars, isrVars, GateStates
  <1>5. CASE CheckSuspend \/ CheckSetup \/ CheckRequest \/ CheckReport \/ CheckReset \/ CheckEp1
    <2>1. UNCHANGED <<reply, inIsr, ist, chip, left>> /\ bufferAvailable' \in BOOLEAN
          /\ pc' \in Places /\ gate' \in {gate, "opening"}
      BY <1>5 DEF CheckSuspend, CheckSetup, CheckRequest, CheckReport, CheckReset, CheckEp1, Places
    <2>2. LoopTypeOK'
      BY <1>1, <2>1
    <2>3. Typed'
      BY <1>1, <1>2, <2>1, <2>2
    <2> QED BY <1>3, <1>4, <2>3 DEF Guards
  <1>6. CASE SetupLateAck
    <2>1. chip' \in ChipType
      BY <1>6, AcknowledgeType DEF SetupLateAck
    <2>2. LoopTypeOK'
      BY <1>1, <1>6 DEF SetupLateAck, Places
    <2>3. Typed'
      BY <1>1, <1>2, <1>6, <2>1, <2>2 DEF SetupLateAck
    <2> QED BY <1>3, <1>4, <2>3 DEF Guards
  <1>7. CASE SendReport
    <2>1. chip' \in ChipType
      BY <1>7 DEF SendReport, ChipType
    <2>2. left' \in LeftType
      <3>0. left.reports \in 0..MaxReports
        BY DEF LeftType
      <3>1. left.reports > 0 => left.reports - 1 \in 0..MaxReports
        BY <3>0, BoundFacts, OneLess
      <3>2. \/ left' = left
            \/ left.reports > 0 /\ left' = [left EXCEPT !.reports = left.reports - 1]
        BY <1>7 DEF SendReport
      <3> QED BY <3>1, <3>2 DEF LeftType
    <2>3. LoopTypeOK'
      BY <1>1, <1>7 DEF SendReport, Places
    <2>4. Typed'
      BY <1>1, <1>2, <2>1, <2>2, <2>3
    <2> QED BY <1>3, <1>4, <2>4 DEF Guards
  <1>8. CASE SetupStall
    <2>1. chip' \in ChipType
      BY <1>8, HaltEP0Type DEF SetupStall
    <2>2. LoopTypeOK'
      <3>1. reply' \in [kind: ReplyKinds, len: Nat]
        BY <1>8 DEF SetupStall, ReplyKinds
      <3> QED BY <1>1, <1>8, <3>1 DEF SetupStall, Places
    <2>3. Typed'
      BY <1>1, <1>2, <1>8, <2>1, <2>2 DEF SetupStall
    <2> QED BY <1>3, <1>4, <2>3 DEF Guards
  <1> QED BY <1>5, <1>6, <1>7, <1>8 DEF LooksOn

\* SetupToken_Handler: no data stage is under way, so nothing is said of the counters.
LEMMA SetupKeeps ==
  ASSUME IInv, SetupEnter \/ SetupRead \/ SetupLength \/ SetupAck
  PROVE  Typed' /\ Counters' /\ Guards'
  <1>0. Typed /\ IInv
    BY TypedIsTypeOK DEF IInv
  <1>1. req \in Request /\ req.wLength \in Nat /\ wLength \in Nat /\ wCount \in Nat
    BY <1>0, RequestsTyped DEF Typed, PipeTypeOK, AnyRequest, Request
  <1>2. /\ dcp \notin {"DATAIN", "DATAOUT", "HANDSHAKE", "REQUESTPROC"}
        /\ snap = {} /\ snap' = {} /\ reopened' = reopened
    <2>1. snap = {} /\ snap' = snap /\ reopened' = reopened
      BY AtFacts DEF SetupEnter, SetupRead, SetupLength, SetupAck, isrVars
    <2> QED BY <1>0, <2>1
        DEF IInv, Guards, Quiet, InHand, Held, SetupEnter, SetupRead, SetupLength, SetupAck, At
  <1>3. SomeDeviceState'
    BY <1>0 DEF IInv, Counters, SomeDeviceState, SetupEnter, SetupRead, SetupLength, SetupAck
  <1> USE <1>0, <1>1 DEF Typed, At, isrVars, GateStates
  <1>4. CASE SetupEnter
    <2>1. Typed'
      BY <1>4 DEF SetupEnter, PipeTypeOK, LoopTypeOK, Places
    <2>2. Counters' /\ Guards'
      BY <1>2, <1>3, <1>4
         DEF SetupEnter, Counters, ReadInHand, WriteInHand, AnswerInHand, Held, Guards, Quiet,
             Lengths, Noted, InHand
    <2> QED BY <2>1, <2>2
  <1>5. CASE SetupRead
    <2>1. chip.setup \in AnyRequest /\ Requests \subseteq AnyRequest
      BY DEF ChipType, AnyRequest
    <2>2. req' \in AnyRequest
      BY <1>5, <2>1 DEF SetupRead, PipeTypeOK, AnyRequest
    <2>3. chip' \in ChipType
      BY <1>5, EmptyOutType DEF SetupRead
    <2>4. Typed'
      BY <1>5, <2>2, <2>3 DEF SetupRead, PipeTypeOK, LoopTypeOK, Places, AnyRequest
    <2>5. dcp' = dcp /\ pc' \in {"setupLength", "setupStall"}
      BY <1>5 DEF SetupRead
    <2>6. Counters' /\ Guards'
      BY <1>2, <1>3, <2>5
         DEF Counters, ReadInHand, WriteInHand, AnswerInHand, Held, Guards, Quiet,
             Lengths, Noted, InHand
    <2> QED BY <2>4, <2>6
  <1>6. CASE SetupLength
    <2>1. Typed'
      BY <1>6 DEF SetupLength, PipeTypeOK, LoopTypeOK, Places
    <2>2. Counters' /\ Guards'
      BY <1>2, <1>3, <1>6
         DEF SetupLength, Counters, ReadInHand, WriteInHand, AnswerInHand, Held, Guards, Quiet,
             Lengths, Noted, InHand
    <2> QED BY <2>1, <2>2
  <1>7. CASE SetupAck
    <2>1. chip' \in ChipType
      <3>1. Acknowledge(chip) \in ChipType
        BY AcknowledgeType
      <3>2. [Acknowledge(chip) EXCEPT !.halt = @ \cup {0, 1}] \in ChipType
        BY <3>1, HaltEP0Type
      <3> QED BY <1>7, <3>1, <3>2 DEF SetupAck
    <2>2. /\ wLength = req.wLength /\ wCount = 0
          /\ UNCHANGED <<req, wLength, wCount, reply>> /\ gate' = "opening"
          /\ \/ /\ dcp' = IF IsVendorStatus(req) THEN "HANDSHAKE" ELSE "REQUESTPROC"
                /\ pc' = "request"
             \/ /\ dcp' = "DATAOUT" /\ req.wLength \in 1..MAX_CONTROLDATA_SIZE
                /\ pc' = "setupLateAck"
             \/ dcp' = "STALL" /\ pc' = "request"
      <3>1. wLength = req.wLength /\ wCount = 0
        BY <1>7 DEF SetupAck, IInv, Guards, Lengths
      <3> QED BY <1>7, <3>1 DEF SetupAck, FitsBuffer
    <2>3. Typed'
      BY <1>7, <2>1, <2>2 DEF SetupAck, PipeTypeOK, LoopTypeOK, Places, DCPStates
    <2>4. /\ wLength' = req'.wLength /\ wCount' = 0 /\ snap' = {}
          /\ dcp' \in {"HANDSHAKE", "REQUESTPROC", "DATAOUT", "STALL"}
          /\ dcp' = "HANDSHAKE" => IsVendorStatus(req')
          /\ dcp' = "DATAOUT" => wLength' \in 1..MAX_CONTROLDATA_SIZE
          /\ pc' \in {"request", "setupLateAck"}
      BY <1>2, <2>2
    <2>5. IsVendorStatus(req)' <=> IsVendorStatus(req')
      BY DEF IsVendorStatus
    <2>6. Counters'
      BY <1>3, <2>4, <2>5 DEF Counters, ReadInHand, WriteInHand, AnswerInHand, Held
    <2>7. Guards'
      BY <2>4 DEF Held, Guards, Quiet, Lengths, Noted, InHand
    <2> QED BY <2>3, <2>6, <2>7
  <1> QED BY <1>4, <1>5, <1>6, <1>7

\* The notes of the two replies that are not bursts.
LEMMA NoteKeeps ==
  ASSUME IInv, dcp \notin {"DATAIN", "DATAOUT", "HANDSHAKE", "REQUESTPROC"},
         NEW k, NEW n \in Nat, k # "burst", Note(k, n, dcp),
         pc' \in {"request", "ep1"}, UNCHANGED <<req, dev>>, snap' = {}
  PROVE  /\ wLength' \in Nat /\ wCount' \in Nat /\ dcp' \in DCPStates
         /\ Counters' /\ Guards'
  <1>1. wLength \in Nat /\ wCount \in Nat /\ dcp \in DCPStates /\ SomeDeviceState'
    BY DEF IInv, TypeOK, PipeTypeOK, Counters, SomeDeviceState
  <1>2. /\ wLength' \in Nat /\ wCount' \in Nat
        /\ \/ dcp' = dcp
           \/ dcp' = "STALL"
           \/ dcp' = "HANDSHAKE" /\ wCount' = wLength'
    BY <1>1, NoteEffect
  <1> QED
    BY <1>1, <1>2
       DEF Counters, ReadInHand, WriteInHand, AnswerInHand, Held, Guards, Quiet,
           Lengths, Noted, InHand, DCPStates

\* DeviceRequest_Handler and what surrounds it.
LEMMA RequestKeeps ==
  ASSUME IInv, RequestEnter \/ RequestRun \/ Connect
  PROVE  Typed' /\ Counters' /\ Guards'
  <1>0. Typed /\ IInv
    BY TypedIsTypeOK DEF IInv
  <1>1. /\ req \in AnyRequest /\ req \in Request /\ req.wLength \in Nat
        /\ wLength \in Nat /\ wCount \in Nat /\ dev \in Device /\ abort \in BOOLEAN
        /\ chip.halt \in Halts
    BY <1>0, RequestsTyped DEF Typed, PipeTypeOK, ChipType, AnyRequest, Request
  <1>5. snap = {} /\ snap' = {} /\ reopened' = reopened
    <2>1. snap = {} /\ snap' = snap /\ reopened' = reopened
      BY AtFacts DEF RequestEnter, RequestRun, Connect, gateVars, isrVars
    <2> QED BY <2>1
  <1> USE <1>0, <1>1, <1>5 DEF Typed, At, isrVars, GateStates
  <1>2. CASE RequestEnter
    <2>1. Typed'
      BY <1>2 DEF RequestEnter, PipeTypeOK, LoopTypeOK, Places, DCPStates
    <2>2. Counters' /\ Guards'
      BY <1>2 DEF RequestEnter, IInv, Counters, ReadInHand, WriteInHand, AnswerInHand,
                  Held, SomeDeviceState, Guards, Quiet, Lengths, Noted, InHand
    <2> QED BY <2>1, <2>2
  <1>3. CASE RequestRun
    <2> DEFINE a == DeviceRequest(req, dev, chip.halt, abort)
               c == IF HandlerOf(req) = "ML_Reserved" /\ chip.acked
                    THEN [chip EXCEPT !.out = 0] ELSE chip
    <2>1. Sound(a, dev)
      BY DeviceRequestSound
    <2>2. a \in AnswerType /\ Sized(a) /\ (HasState(dev) => HasState(a.dev)) /\ a.len \in Nat
          /\ a.dev \in Device
      BY <2>1 DEF Sound, AnswerType
    <2>3. c \in ChipType
      BY EmptyOutType
    <2>4. /\ chip' = Transmit(c, a.kind, a.len, a.halt) /\ dev' = a.dev
          /\ Note(a.kind, a.len, dcp) /\ gate' = "opening"
          /\ pc' \in {"connect", "interface", "ep1"} /\ (pc' = "interface" => a.kind = "stall")
          /\ UNCHANGED <<abort, req, suspend, bufferAvailable, reply, snap, inIsr, ist, host, left>>
      <3>1. HandlerOf(req) = "SetInterface" /\ req.in => a.kind = "stall"
        BY SetInterfaceIn
      <3>2. /\ pc' \in {"connect", "interface", "ep1"}
            /\ pc' = "interface" => HandlerOf(req) = "SetInterface" /\ req.in
        BY <1>3 DEF RequestRun
      <3>3. pc' \in {"connect", "interface", "ep1"} /\ (pc' = "interface" => a.kind = "stall")
        BY <3>1, <3>2
      <3>4. /\ chip' = Transmit(c, a.kind, a.len, a.halt) /\ dev' = a.dev
            /\ Note(a.kind, a.len, dcp) /\ gate' = "opening"
            /\ UNCHANGED <<abort, req, suspend, bufferAvailable, reply, snap, inIsr, ist, host, left>>
        BY <1>3 DEF RequestRun
      <3> QED BY <3>3, <3>4
    <2>5. dcp \notin {"DATAIN", "DATAOUT", "HANDSHAKE", "REQUESTPROC"} /\ wLength = req.wLength
      BY <1>3 DEF RequestRun, IInv, Guards, Quiet, Held, Lengths, InHand
    <2> DEFINE b == DeviceRequest(req, a.dev, {}, FALSE)
    <2>6. IsBurst(a) => IsBurst(b) /\ b.len = a.len
      <3>1. \A e \in Device : IsBurst(a) => /\ IsBurst(DeviceRequest(req, e, {}, FALSE))
                                           /\ DeviceRequest(req, e, {}, FALSE).len = a.len
        BY <1>1, BurstFixed, Zenon
      <3> QED BY <2>2, <3>1, Zenon
    <2>14. DeviceRequest(req', dev', {}, FALSE) = b
      BY <2>4
    <2> HIDE DEF a, b, c
    <2>7. chip' \in ChipType
      BY <2>2, <2>3, <2>4, TransmitType
    <2>8. /\ wLength' \in Nat /\ wCount' \in Nat
          /\ \/ dcp' = dcp \/ dcp' = "STALL"
             \/ dcp' = "HANDSHAKE" /\ a.kind # "stall" /\ wCount' = wLength'
             \/ /\ dcp' = "DATAIN" /\ a.kind = "burst" /\ IsBurst(a)
                /\ wLength' = Least(wLength, a.len) /\ wCount' = 64 /\ wCount' <= wLength'
      BY <2>2, <2>4, NoteEffect DEF IsBurst
    <2>9. Typed'
      <3>1. PipeTypeOK'
        BY <2>2, <2>4, <2>8 DEF PipeTypeOK, DCPStates
      <3>2. LoopTypeOK'
        BY <2>4 DEF LoopTypeOK, Places
      <3> QED BY <3>1, <3>2, <2>4, <2>7
    <2>10. SomeDeviceState'
      BY <2>2, <2>4 DEF IInv, Counters, SomeDeviceState, HasState
    <2>11. ReadInHand'
      <3> SUFFICES ASSUME dcp' = "DATAIN"
                   PROVE  IsBurst(b) /\ wCount' <= wLength' /\ wLength' <= Least(req.wLength, b.len)
        BY <2>4, <2>14 DEF ReadInHand, Held
      <3>1. IsBurst(b) /\ b.len = a.len /\ wCount' = 64 /\ wCount' <= wLength'
            /\ wLength' = Least(req.wLength, a.len)
        BY <2>5, <2>6, <2>8
      <3>2. Least(req.wLength, a.len) \in Nat
        BY <2>2, LeastFacts
      <3> QED BY <3>1, <3>2
    <2>12. (WriteInHand /\ AnswerInHand)'
      BY <2>5, <2>8 DEF WriteInHand, AnswerInHand, Held
    <2>13. Guards'
      BY <2>4, <2>5, <2>8 DEF Quiet, Held, Lengths, Noted, InHand, Guards
    <2> QED BY <2>9, <2>10, <2>11, <2>12, <2>13 DEF Counters
  <1>4. CASE Connect
    <2>1. dev' \in Device /\ UNCHANGED <<dcp, req, wLength, wCount, reply>> /\ pc' = "ep1"
          /\ dev'.default = dev.default /\ dev'.address = dev.address /\ dev'.config = dev.config
      BY <1>4 DEF Connect, Device, pipeVars
    <2>2. IsBurst(DeviceRequest(req, dev, {}, FALSE))
          => /\ IsBurst(DeviceRequest(req, dev', {}, FALSE))
             /\ DeviceRequest(req, dev', {}, FALSE).len = DeviceRequest(req, dev, {}, FALSE).len
      BY <2>1, BurstFixed, HaltFacts
    <2>3. Typed'
      BY <1>4, <2>1 DEF Connect, PipeTypeOK, LoopTypeOK, Places, pipeVars, gateVars
    <2>4. ReadInHand' /\ AnswerInHand' /\ SomeDeviceState'
      BY <2>1, <2>2 DEF IInv, Counters, ReadInHand, AnswerInHand, Held, SomeDeviceState
    <2>5. WriteInHand'
      <3>1. UNCHANGED <<chip, host>>
        BY <1>4 DEF Connect
      <3> QED BY <2>1, <3>1 DEF IInv, Counters, WriteInHand, Held, Dry
    <2>6. Guards'
      BY <2>1 DEF IInv, Held, Guards, Quiet, Lengths, Noted, InHand
    <2> QED BY <2>3, <2>4, <2>5, <2>6 DEF Counters
  <1> QED BY <1>2, <1>3, <1>4

\* The replies that are given and noted in two steps, and INTR1DONE.
LEMMA LateStepsKeep ==
  ASSUME IInv, SetupStallNote \/ InterfaceReply \/ InterfaceNote \/ Ep1Load \/ Ep1Store
  PROVE  Typed' /\ Counters' /\ Guards'
  <1>0. Typed /\ IInv
    BY TypedIsTypeOK DEF IInv
  <1>1. /\ req \in AnyRequest /\ req \in Request /\ wLength \in Nat /\ wCount \in Nat
        /\ dev \in Device /\ chip.halt \in Halts /\ reply.len \in Nat
    BY <1>0, RequestsTyped DEF Typed, PipeTypeOK, LoopTypeOK, ChipType, AnyRequest
  <1> USE <1>0, <1>1 DEF Typed, At, isrVars, GateStates
  <1>2. CASE SetupStallNote \/ InterfaceNote
    <2>1. /\ dcp \notin {"DATAIN", "DATAOUT", "HANDSHAKE", "REQUESTPROC"} /\ reply.kind # "burst"
          /\ Note(reply.kind, reply.len, dcp) /\ pc' \in {"request", "ep1"}
          /\ UNCHANGED <<abort, req, suspend, dev, bufferAvailable, reply, isrVars, chip, host, left>>
          /\ gate' = "opening" /\ snap' = {}
      <3>1. snap = {}
        BY <1>2, AtFacts DEF SetupStallNote, InterfaceNote
      <3> QED BY <1>2, <3>1
          DEF SetupStallNote, InterfaceNote, IInv, Guards, Quiet, Held, Noted, InHand
    <2>2. wLength' \in Nat /\ wCount' \in Nat /\ dcp' \in DCPStates /\ Counters' /\ Guards'
      BY <2>1, NoteKeeps
    <2>3. Typed'
      BY <2>1, <2>2 DEF PipeTypeOK, LoopTypeOK, Places
    <2> QED BY <2>2, <2>3
  <1>3. CASE InterfaceReply
    <2> DEFINE a == SetInterface(req, dev, chip.halt)
    <2>1. Sound(a, dev) /\ a.kind \in {"single", "stall"}
      BY InterfaceSound
    <2>2. a \in AnswerType /\ Sized(a) /\ (HasState(dev) => HasState(a.dev)) /\ a.len \in Nat
          /\ a.dev \in Device /\ a.kind \in ReplyKinds
      BY <2>1 DEF Sound, AnswerType
    <2>3. /\ chip' = Transmit(chip, a.kind, a.len, a.halt) /\ dev' = a.dev
          /\ reply' = [kind |-> a.kind, len |-> a.len] /\ pc' = "interfaceNote"
          /\ UNCHANGED <<pipeVars, suspend, bufferAvailable, snap, gateVars, host, left>>
      BY <1>3 DEF InterfaceReply
    <2>4. dcp \notin {"DATAIN", "DATAOUT", "HANDSHAKE", "REQUESTPROC"}
      BY <1>3 DEF InterfaceReply, IInv, Guards, Quiet, Held, InHand
    <2>9. snap' = {}
      BY <1>3, <2>3, AtFacts DEF InterfaceReply
    <2> HIDE DEF a
    <2>5. chip' \in ChipType
      BY <2>2, <2>3, TransmitType
    <2>6. Typed'
      <3>1. PipeTypeOK'
        BY <2>2, <2>3 DEF PipeTypeOK, pipeVars
      <3>2. reply' \in [kind: ReplyKinds, len: Nat]
        BY <2>2, <2>3
      <3>3. LoopTypeOK'
        BY <2>3, <3>2 DEF LoopTypeOK, Places, gateVars
      <3> QED BY <2>3, <2>5, <3>1, <3>3
    <2>7. SomeDeviceState'
      BY <2>2, <2>3 DEF IInv, Counters, SomeDeviceState, HasState
    <2>8. Counters' /\ Guards'
      BY <2>1, <2>3, <2>4, <2>7, <2>9
         DEF Counters, ReadInHand, WriteInHand, AnswerInHand, Held, Guards, Quiet,
             Lengths, Noted, InHand, pipeVars
    <2> QED BY <2>6, <2>8
  <1>4. CASE Ep1Load
    <2> DEFINE f == [D13Flags EXCEPT !.dcp = "IDLE"]
    <2>1. f \in FlagsType /\ f.dcp = "IDLE"
      BY DEF D13Flags, FlagsType, PipeTypeOK, Device, DCPStates
    <2>2. /\ snap = {} /\ snap' = {f} /\ pc = "ep1Load" /\ pc' = "ep1Store"
          /\ UNCHANGED <<pipeVars, suspend, dev, bufferAvailable, reply, gateVars, chip, host, left>>
      BY <1>4, AtFacts DEF Ep1Load
    <2> HIDE DEF f
    <2>3. \A S : Held(S) <=> dcp \in S
      BY <2>2 DEF Held
    <2>4. Typed'
      <3>1. LoopTypeOK'
        BY <2>1, <2>2 DEF LoopTypeOK, FlagsType, Places, gateVars
      <3> QED BY <2>2, <3>1 DEF PipeTypeOK, pipeVars
    <2>5. Counters' /\ Guards'
      BY <2>1, <2>2
         DEF IInv, Counters, ReadInHand, WriteInHand, AnswerInHand, Held, SomeDeviceState, Dry,
             Guards, Quiet, Lengths, Noted, InHand, pipeVars
    <2> QED BY <2>4, <2>5
  <1>5. CASE Ep1Store
    <2>1. PICK f \in snap : StoreFlags(f, "INTR1DONE")
      BY <1>5 DEF Ep1Store
    <2>2. f \in FlagsType /\ f.dcp = "IDLE"
      BY <1>5 DEF Ep1Store, IInv, WriteBack, LoopTypeOK, FlagsType
    <2>3. /\ dcp' = "IDLE" /\ pc' = "report" /\ suspend' = f.suspend /\ snap' = {}
          /\ dev' = [dev EXCEPT !.configuration = f.configuration, !.wakeup = f.wakeup]
          /\ host' = [host EXCEPT !.undone =
                        host.undone \/ (host.phase \in Active /\ dcp # "INTR1DONE")]
          /\ bufferAvailable' \in BOOLEAN
          /\ UNCHANGED <<abort, req, wLength, wCount, reply, gateVars, chip, left>>
      BY <1>5, <2>1, <2>2, BoundsAssumption DEF Ep1Store, StoreFlags, LoopTypeOK
    <2>4. f.configuration \in 0..1 /\ f.wakeup \in BOOLEAN /\ f.suspend \in BOOLEAN
      BY <2>2 DEF FlagsType
    <2>5. dev' \in Device /\ host' \in HostType
      BY <2>3, <2>4 DEF Device, HostType
    <2>6. Typed'
      BY <2>3, <2>4, <2>5 DEF PipeTypeOK, LoopTypeOK, Places, DCPStates, gateVars
    <2>7. SomeDeviceState'
      BY <2>3 DEF IInv, Counters, SomeDeviceState, Device
    <2>8. Counters' /\ Guards'
      BY <2>3, <2>7
         DEF Counters, ReadInHand, WriteInHand, AnswerInHand, Held, Guards, Quiet, Lengths,
             Noted, InHand
    <2> QED BY <2>6, <2>8
  <1> QED BY <1>2, <1>3, <1>4, <1>5

LEMMA MainKeeps == ASSUME IInv, MainStep PROVE IInv'
  <1>1. Typed' /\ Counters' /\ Guards'
    BY LooksOnKeeps, SetupKeeps, RequestKeeps, LateStepsKeep DEF MainStep, LooksOn
  <1> QED BY <1>1, MainWriteBack, MainBuffer, TypedIsTypeOKNext DEF IInv

-----------------------------------------------------------------------------
(* Steps of the interrupt handler. *)

\* What handlers still have to do grows at the front and is done there.
LEMMA GoesOnSeq ==
  ASSUME NEW S, reopened \in Seq(S), NEW l \in S, GoesOnAt(l)
  PROVE  /\ reopened' \in Seq(S)
         /\ reopened' # <<>> => gate = "opening" \/ reopened # <<>>
         /\ gate # "opening" => reopened' = reopened
  <1>1. <<l>> \in Seq(S)
    OBVIOUS
  <1>2. <<l>> \o reopened \in Seq(S)
    BY <1>1, ConcatProperties
  <1> QED BY <1>2 DEF GoesOnAt

LEMMA AdvancesSeq ==
  ASSUME NEW S, reopened \in Seq(S), "At_IRQL1" \in S, Statements \subseteq S \/ S = {"At_IRQL1"},
         reopened # <<>>, Advances
  PROVE  reopened' \in Seq(S)
  <1>1. Head(reopened) \in S /\ Tail(reopened) \in Seq(S)
    BY HeadTailProperties
  <1>2. Following(Head(reopened)) \in Seq(S)
    <2>1. CASE Statements \subseteq S
      <3>1. <<"dma_disable">> \in Seq(S) /\ <<"State_bits">> \in Seq(S)
            /\ <<"At_IRQL1">> \in Seq(S) /\ <<>> \in Seq(S)
        BY <2>1, EmptySeq DEF Statements
      <3> QED BY <3>1 DEF Following
    <2>2. CASE S = {"At_IRQL1"}
      <3>1. Following(Head(reopened)) = <<>>
        BY <1>1, <2>2 DEF Following
      <3> QED BY <3>1, EmptySeq
    <2> QED BY <2>1, <2>2
  <1> QED BY <1>1, <1>2, ConcatProperties DEF Advances

\* A step that leaves the counters and the chip alone and brings no state but IDLE into
\* DCP_state or the read-modify-write that was in neither.
FlagMoves ==
  /\ UNCHANGED <<req, wLength, wCount, pc, reply, gate, chip>> /\ host'.phase = host.phase
  /\ dcp' \in {dcp, "IDLE"} \/ \E f \in snap : dcp' = f.dcp
  /\ \A g \in snap' : g \in snap \/ g.dcp \in {dcp, "IDLE"}
  /\ dev' \in Device /\ (HasState(dev) => HasState(dev'))

LEMMA FlagsKeep == ASSUME IInv, FlagMoves PROVE Buffer' /\ Counters' /\ Guards'
  <1>1. \A S : Held(S)' => Held(S) \/ "IDLE" \in S
    BY DEF FlagMoves, Held
  <1>2. req \in Request /\ dev \in Device /\ dev' \in Device /\ req' = req
    BY RequestsTyped DEF IInv, TypeOK, PipeTypeOK, FlagMoves, AnyRequest
  <1>3. IsBurst(DeviceRequest(req, dev, {}, FALSE))
          => /\ IsBurst(DeviceRequest(req, dev', {}, FALSE))
             /\ DeviceRequest(req, dev', {}, FALSE).len = DeviceRequest(req, dev, {}, FALSE).len
    BY <1>2, BurstFixed, HaltFacts
  <1>4. /\ Held({"DATAIN"})' => Held({"DATAIN"})
        /\ Held({"DATAOUT"})' => Held({"DATAOUT"})
        /\ Held({"HANDSHAKE"})' => Held({"HANDSHAKE"})
        /\ Held({"REQUESTPROC", "DATAOUT"})' => Held({"REQUESTPROC", "DATAOUT"})
        /\ Held({"DATAIN", "DATAOUT", "HANDSHAKE"})' => Held({"DATAIN", "DATAOUT", "HANDSHAKE"})
        /\ Held({"DATAIN", "DATAOUT", "HANDSHAKE", "REQUESTPROC"})'
             => Held({"DATAIN", "DATAOUT", "HANDSHAKE", "REQUESTPROC"})
    BY <1>1
  <1>5. ReadInHand'
    <2>1. UNCHANGED <<req, wLength, wCount>>
      BY DEF FlagMoves
    <2> QED BY <1>3, <1>4, <2>1 DEF IInv, Counters, ReadInHand
  <1>6. Dry => Dry'
    BY DEF FlagMoves, Dry
  <1>7. WriteInHand' /\ AnswerInHand'
    BY <1>4, <1>6 DEF IInv, Counters, WriteInHand, AnswerInHand, FlagMoves
  <1>8. SomeDeviceState'
    BY DEF IInv, Counters, SomeDeviceState, FlagMoves, HasState
  <1>9. Guards'
    BY <1>4 DEF IInv, Guards, Quiet, Lengths, Noted, FlagMoves
  <1>10. Buffer'
    BY <1>6 DEF IInv, Buffer, FlagMoves
  <1> QED BY <1>5, <1>7, <1>8, <1>9, <1>10 DEF Counters

\* A step that serves endpoint 0 or 1. It leaves the main loop, the request in hand and the
\* read-modify-write alone, and moves the counters only in a data stage: those of DATAIN inside
\* the descriptor, those of DATAOUT with the one packet that the buffer can have.
HandlerMoves ==
  /\ dcp' \in DCPStates /\ wCount' \in Nat
  /\ UNCHANGED <<req, wLength, dev, pc, reply, snap, gate, host>>
  /\ chip'.isSetup = chip.isSetup /\ chip'.acked = chip.acked /\ chip'.out \in {chip.out, 0}
  /\ \/ dcp' \in {dcp, "IDLE", "SETUPPROC", "STALL", "INTR1DONE"} /\ wCount' = wCount
     \/ /\ dcp = "DATAOUT" /\ dcp' = "REQUESTPROC"
        /\ wCount' = wCount \/ (Dry' /\ pc # "setupLateAck")
     \/ dcp = "DATAIN" /\ dcp' = "HANDSHAKE" /\ wCount' = wLength
     \/ dcp = "DATAIN" /\ dcp' = "DATAIN" /\ wCount' <= wLength

LEMMA HandlerKeeps == ASSUME IInv, HandlerMoves PROVE Buffer' /\ Counters' /\ Guards'
  <1>1. Dry => Dry'
    BY DEF HandlerMoves, Dry
  <1>2. /\ UNCHANGED <<req, wLength, dev, pc, reply, snap>>
        /\ dcp' \in {"DATAIN", "DATAOUT"} => dcp' = dcp
        /\ dcp' = "HANDSHAKE" => dcp = dcp' \/ (dcp = "DATAIN" /\ wCount' = wLength)
        /\ dcp' = "REQUESTPROC" => dcp \in {"DATAOUT", "REQUESTPROC"}
        /\ wCount' = wCount \/ dcp \in {"DATAIN", "DATAOUT"}
    BY DEF HandlerMoves
  <1>3. dcp \in {"DATAIN", "DATAOUT"} => \A f \in snap : f.dcp \in {dcp, "IDLE"}
    BY DEF IInv, WriteBack
  <1>4. ReadInHand'
    <2>1. Held({"DATAIN"})' => Held({"DATAIN"})
      BY <1>2 DEF Held
    <2>2. Held({"DATAIN"})' => wCount' = wCount \/ (dcp = "DATAIN" /\ wCount' <= wLength)
      <3>1. CASE wCount' = wCount
        BY <3>1
      <3>2. CASE dcp = "DATAIN" /\ wCount' # wCount
        <4>1. wLength \in Nat /\ wLength <= wLength
          BY DEF IInv, TypeOK, PipeTypeOK
        <4> QED BY <3>2, <4>1 DEF HandlerMoves
      <3>3. CASE dcp = "DATAOUT" /\ wCount' # wCount
        <4>1. dcp' = "REQUESTPROC"
          BY <3>3 DEF HandlerMoves
        <4> QED BY <1>2, <1>3, <3>3, <4>1 DEF Held
      <3> QED BY <1>2, <3>1, <3>2, <3>3
    <2> QED BY <1>2, <2>1, <2>2 DEF IInv, Counters, ReadInHand
  <1>5. WriteInHand'
    <2> SUFFICES ASSUME Held({"DATAOUT"})'
                 PROVE  /\ wLength \in 1..MAX_CONTROLDATA_SIZE /\ (wCount' = 0 \/ Dry')
                        /\ pc = "setupLateAck" => wCount' = 0
      BY <1>2 DEF WriteInHand
    <2>1. Held({"DATAOUT"}) /\ dcp # "DATAIN"
      BY <1>2, <1>3 DEF Held, HandlerMoves
    <2>2. wCount' = wCount \/ (Dry' /\ pc # "setupLateAck")
      BY <2>1 DEF HandlerMoves
    <2> QED BY <1>1, <2>1, <2>2 DEF IInv, Counters, WriteInHand
  <1>6. AnswerInHand'
    <2> SUFFICES ASSUME Held({"HANDSHAKE"})', ~IsVendorStatus(req) PROVE wCount' = wLength
      BY <1>2 DEF AnswerInHand
    <2>1. CASE dcp' = "HANDSHAKE" /\ dcp = "DATAIN"
      BY <1>2, <2>1
    <2>2. CASE ~(dcp' = "HANDSHAKE" /\ dcp = "DATAIN")
      <3>1. Held({"HANDSHAKE"}) /\ dcp \notin {"DATAIN", "DATAOUT"}
        BY <1>2, <1>3, <2>2 DEF Held
      <3> QED BY <1>2, <3>1 DEF IInv, Counters, AnswerInHand
    <2> QED BY <2>1, <2>2
  <1>7. SomeDeviceState'
    BY <1>2 DEF IInv, Counters, SomeDeviceState
  <1>8. Guards'
    <2>1. /\ Held({"REQUESTPROC", "DATAOUT"})' => Held({"REQUESTPROC", "DATAOUT"})
          /\ Held({"DATAIN", "DATAOUT", "HANDSHAKE"})' => Held({"DATAIN", "DATAOUT", "HANDSHAKE"})
          /\ Held({"DATAIN", "DATAOUT", "HANDSHAKE", "REQUESTPROC"})'
               => Held({"DATAIN", "DATAOUT", "HANDSHAKE", "REQUESTPROC"})
      BY <1>2 DEF Held
    <2>2. pc = "setupAck" => wCount' = wCount
      BY <1>2 DEF IInv, Guards, Quiet, InHand, Held
    <2> QED BY <1>2, <2>1, <2>2 DEF IInv, Guards, Quiet, Lengths, Noted
  <1>9. Buffer'
    BY <1>1 DEF IInv, Buffer, HandlerMoves
  <1> QED BY <1>4, <1>5, <1>6, <1>7, <1>8, <1>9 DEF Counters

\* The write-back of a handler begins where the gate is open and no other is under way.
LEMMA IsrWriteBack ==
  ASSUME IInv, FlagMoves \/ HandlerMoves, gate' = gate,
         \/ snap' = snap /\ (dcp' \in {"DATAIN", "DATAOUT"} => dcp' = dcp)
         \/ snap' = {}
         \/ /\ gate = "open" /\ reopened' # <<>> /\ snap = {} /\ dcp' = dcp
            /\ \A f \in snap' : f.dcp \in {dcp, "IDLE"},
         reopened' # <<>> => gate = "opening" \/ reopened # <<>>,
         snap' # {} => reopened' = reopened \/ gate = "opening" \/ reopened' # <<>>
  PROVE  WriteBack'
  <1>1. pc' = pc /\ gate' = gate
    BY DEF FlagMoves, HandlerMoves
  <1>2. pc = "ep1Store" => reopened = <<>> /\ gate # "opening"
    BY DEF IInv, WriteBack, BehindGate
  <1> QED BY <1>1, <1>2 DEF IInv, WriteBack

\* The state bits go to default in one statement or another.
LEMMA ResetDevice ==
  ASSUME NEW d \in Device
  PROVE  /\ ResetState(d) \in Device /\ HasState(ResetState(d))
         /\ [d EXCEPT !.configuration = 0, !.wakeup = FALSE] \in Device
         /\ HasState(d) => HasState([d EXCEPT !.configuration = 0, !.wakeup = FALSE])
  <1>1. ResetState(d) \in Device /\ HasState(ResetState(d))
    BY DEF ResetState, Device, HasState
  <1>2. \A n \in 0..1 : [d EXCEPT !.configuration = n, !.wakeup = FALSE] \in Device
    BY DEF Device
  <1>3. 0 \in 0..1
    OBVIOUS
  <1>4. [d EXCEPT !.configuration = 0, !.wakeup = FALSE] \in Device
    BY <1>2, <1>3, Zenon
  <1>5. HasState(d) => HasState([d EXCEPT !.configuration = 0, !.wakeup = FALSE])
    BY DEF HasState, Device
  <1> QED BY <1>1, <1>4, <1>5

\* The steps that serve nothing, and those of a handler that has reopened the processor.
LEMMA IsrFlagsKeep ==
  ASSUME IInv, IsrBusReset \/ IsrSuspendChange \/ IsrResume \/ IsrLoad \/ IsrStore \/ IsrResetState
  PROVE  IInv'
  <1>0. Typed /\ IInv /\ dev \in Device /\ dcp \in DCPStates
    BY TypedIsTypeOK DEF IInv, Typed, PipeTypeOK
  <1>1. reopened \in Seq(Statements)
        /\ {"DCP_state", "dma_disable", "State_bits", "At_IRQL1"} = Statements
    BY <1>0 DEF Typed, LoopTypeOK, Statements
  <1> USE <1>0
  <1>2. CASE IsrBusReset
    <2>1. /\ UNCHANGED <<abort, req, wLength, wCount, loopVars, gate, chip, host, left>>
          /\ dcp' = "IDLE" /\ suspend' = FALSE /\ inIsr' = FALSE /\ ist' = {}
          /\ GoesOnAt("DCP_state")
          /\ dev' = [IF gate = "opening" THEN dev ELSE ResetState(dev)
                      EXCEPT !.configuration = 0, !.wakeup = FALSE]
      BY <1>2 DEF IsrBusReset
    <2>2. dev' \in Device /\ (HasState(dev) => HasState(dev'))
      BY <2>1, ResetDevice
    <2>3. /\ reopened' \in Seq(Statements)
          /\ reopened' # <<>> => gate = "opening" \/ reopened # <<>>
          /\ gate # "opening" => reopened' = reopened
      BY <1>1, <2>1, GoesOnSeq
    <2>4. Typed'
      <3>1. PipeTypeOK'
        BY <2>1, <2>2 DEF Typed, PipeTypeOK, DCPStates
      <3>2. LoopTypeOK'
        BY <2>1, <2>3 DEF Typed, LoopTypeOK, loopVars
      <3> QED BY <2>1, <3>1, <3>2 DEF Typed
    <2>5. FlagMoves
      BY <2>1, <2>2 DEF FlagMoves, loopVars
    <2>6. WriteBack'
      BY <2>1, <2>3, <2>5, IsrWriteBack DEF loopVars
    <2> QED BY <2>4, <2>5, <2>6, FlagsKeep, TypedIsTypeOKNext DEF IInv
  <1>3. CASE IsrSuspendChange \/ IsrResume
    <2>1. /\ UNCHANGED <<pipeVars, dev, loopVars, gate, chip, host, left>>
          /\ suspend' \in BOOLEAN /\ inIsr' = FALSE /\ ist' = {} /\ GoesOnAt("At_IRQL1")
      BY <1>3 DEF IsrSuspendChange, IsrResume, Typed, PipeTypeOK
    <2>3. /\ reopened' \in Seq(Statements)
          /\ reopened' # <<>> => gate = "opening" \/ reopened # <<>>
          /\ gate # "opening" => reopened' = reopened
      BY <1>1, <2>1, GoesOnSeq
    <2>4. Typed'
      <3>1. PipeTypeOK'
        BY <2>1 DEF Typed, PipeTypeOK, pipeVars
      <3>2. LoopTypeOK'
        BY <2>1, <2>3 DEF Typed, LoopTypeOK, loopVars
      <3> QED BY <2>1, <3>1, <3>2 DEF Typed
    <2>5. FlagMoves
      BY <2>1 DEF FlagMoves, loopVars, pipeVars
    <2>6. WriteBack'
      BY <2>1, <2>3, <2>5, IsrWriteBack DEF loopVars, pipeVars
    <2> QED BY <2>4, <2>5, <2>6, FlagsKeep, TypedIsTypeOKNext DEF IInv
  <1>4. CASE IsrLoad
    <2>1. PICK f \in {[D13Flags EXCEPT !.dcp = "IDLE"], D13Flags} : snap' = {f}
      BY <1>4 DEF IsrLoad
    <2>2. f \in FlagsType /\ f.dcp \in {dcp, "IDLE"}
      BY DEF D13Flags, FlagsType, Typed, PipeTypeOK, Device, DCPStates
    <2>3. /\ UNCHANGED <<pipeVars, suspend, dev, pc, reply, bufferAvailable, gateVars, chip, host, left>>
          /\ gate = "open" /\ reopened # <<>> /\ snap = {}
      BY <1>4 DEF IsrLoad, Resumes
    <2>4. Typed'
      <3>1. PipeTypeOK'
        BY <2>3 DEF Typed, PipeTypeOK, pipeVars
      <3>2. LoopTypeOK'
        BY <2>1, <2>2, <2>3 DEF Typed, LoopTypeOK, FlagsType, gateVars, isrVars
      <3> QED BY <2>3, <3>1, <3>2 DEF Typed
    <2>5. FlagMoves
      BY <2>1, <2>2, <2>3 DEF FlagMoves, pipeVars, gateVars
    <2>6. WriteBack'
      BY <2>1, <2>2, <2>3, <2>5, IsrWriteBack DEF pipeVars, gateVars, isrVars
    <2> QED BY <2>4, <2>5, <2>6, FlagsKeep, TypedIsTypeOKNext DEF IInv
  <1>5. CASE IsrStore
    <2>1. PICK f \in snap : StoreFlags(f, f.dcp)
      BY <1>5 DEF IsrStore
    <2>2. f \in FlagsType
      BY DEF Typed, LoopTypeOK, FlagsType
    <2>3. /\ dcp' = f.dcp /\ suspend' = f.suspend /\ snap' = {}
          /\ dev' = [dev EXCEPT !.configuration = f.configuration, !.wakeup = f.wakeup]
          /\ host' = [host EXCEPT !.undone =
                        host.undone \/ (host.phase \in Active /\ dcp # f.dcp)]
          /\ UNCHANGED <<abort, req, wLength, wCount, pc, reply, bufferAvailable, gate, inIsr, ist,
                         chip, left>>
          /\ reopened # <<>> /\ Advances
      BY <1>5, <2>1 DEF IsrStore, StoreFlags, Resumes
    <2>4. f.configuration \in 0..1 /\ f.wakeup \in BOOLEAN /\ f.suspend \in BOOLEAN
          /\ f.dcp \in DCPStates
      BY <2>2 DEF FlagsType
    <2>5. dev' \in Device /\ host' \in HostType /\ (HasState(dev) => HasState(dev'))
          /\ host'.phase = host.phase
      BY <2>3, <2>4 DEF Device, HostType, HasState, Typed
    <2>6. reopened' \in Seq(Statements)
      BY <1>1, <2>3, AdvancesSeq
    <2>7. Typed'
      <3>1. PipeTypeOK'
        BY <2>3, <2>4, <2>5 DEF Typed, PipeTypeOK
      <3>2. LoopTypeOK'
        BY <2>3, <2>6 DEF Typed, LoopTypeOK
      <3> QED BY <2>3, <2>5, <3>1, <3>2 DEF Typed
    <2>8. FlagMoves
      BY <2>3, <2>5 DEF FlagMoves
    <2>9. WriteBack'
      BY <2>3, <2>8, IsrWriteBack
    <2> QED BY <2>7, <2>8, <2>9, FlagsKeep, TypedIsTypeOKNext DEF IInv
  <1>6. CASE IsrResetState
    <2>1. /\ UNCHANGED <<pipeVars, suspend, loopVars, gate, inIsr, ist, chip, host, left>>
          /\ dev' = ResetState(dev) /\ reopened # <<>> /\ Advances /\ snap' = snap /\ dcp' = dcp
          /\ Head(reopened) = "State_bits" /\ reopened' = <<"At_IRQL1">> \o Tail(reopened)
      BY <1>6 DEF IsrResetState, Resumes, loopVars, pipeVars, Advances, Following
    <2>2. dev' \in Device /\ HasState(dev')
      BY <2>1, ResetDevice
    <2>3. reopened' \in Seq(Statements)
      BY <1>1, <2>1, AdvancesSeq
    <2>4. Typed'
      <3>1. PipeTypeOK'
        BY <2>1, <2>2 DEF Typed, PipeTypeOK, pipeVars
      <3>2. LoopTypeOK'
        BY <2>1, <2>3 DEF Typed, LoopTypeOK, loopVars
      <3> QED BY <2>1, <3>1, <3>2 DEF Typed
    <2>5. FlagMoves
      BY <2>1, <2>2 DEF FlagMoves, loopVars, pipeVars
    <2>6. WriteBack'
      <3>1. snap' = snap /\ gate' = gate
        BY <2>1 DEF loopVars
      <3>2. reopened' # <<>>
        <4>1. Tail(reopened) \in Seq(Statements) /\ <<"At_IRQL1">> \in Seq(Statements)
          BY <1>1, <2>1, HeadTailProperties
        <4>2. Len(<<"At_IRQL1">>) = 1 /\ Len(Tail(reopened)) \in Nat /\ Len(<<>>) = 0
          BY <4>1
        <4>3. Len(reopened') = 1 + Len(Tail(reopened))
          BY <2>1, <4>1, <4>2, ConcatProperties
        <4> QED BY <4>2, <4>3
      <3> QED BY <2>1, <2>5, <3>1, <3>2, IsrWriteBack
    <2> QED BY <2>4, <2>5, <2>6, FlagsKeep, TypedIsTypeOKNext DEF IInv
  <1> QED BY <1>2, <1>3, <1>4, <1>5, <1>6

\* The steps that serve endpoint 0 or 1.
LEMMA ServeKeeps ==
  ASSUME IInv, HandlerMoves, NEW src, Serve(src), abort' \in BOOLEAN, chip' \in ChipType,
         UNCHANGED <<suspend, bufferAvailable, left>>
  PROVE  IInv'
  <1>0. Typed /\ IInv
    BY TypedIsTypeOK DEF IInv
  <1>1. /\ reopened' \in Seq(Statements)
        /\ reopened' # <<>> => gate = "opening" \/ reopened # <<>>
        /\ gate # "opening" => reopened' = reopened
    <2>1. CASE ist = {src}
      BY <1>0, <2>1, GoesOnSeq DEF Serve, Typed, LoopTypeOK, Statements
    <2>2. CASE ist # {src}
      BY <1>0, <2>2 DEF Serve, Typed, LoopTypeOK
    <2> QED BY <2>1, <2>2
  <1>2. ist' \in SUBSET Sources /\ inIsr' \in BOOLEAN
    BY <1>0 DEF Serve, Typed, LoopTypeOK
  <1>3. Typed'
    <2>1. PipeTypeOK'
      BY <1>0 DEF Typed, PipeTypeOK, HandlerMoves
    <2>2. LoopTypeOK'
      BY <1>0, <1>1, <1>2 DEF Typed, LoopTypeOK, HandlerMoves
    <2> QED BY <1>0, <2>1, <2>2 DEF Typed, HandlerMoves
  <1>4. WriteBack'
    <2>1. snap' = snap /\ gate' = gate /\ (dcp' \in {"DATAIN", "DATAOUT"} => dcp' = dcp)
      BY DEF HandlerMoves
    <2> QED BY <1>1, <2>1, IsrWriteBack
  <1> QED BY <1>3, <1>4, HandlerKeeps, TypedIsTypeOKNext DEF IInv

LEMMA IsrKeeps == ASSUME IInv, IsrStep PROVE IInv'
  <1>0. Typed /\ IInv
    BY TypedIsTypeOK DEF IInv
  <1>1. /\ wLength \in Nat /\ wCount \in Nat /\ dcp \in DCPStates /\ req \in AnyRequest
        /\ dev \in Device /\ abort \in BOOLEAN /\ suspend \in BOOLEAN /\ chip \in ChipType
    BY <1>0 DEF Typed, PipeTypeOK, AnyRequest
  <1>2. /\ chip.int \in SourceSets /\ chip.out \in Bytes /\ chip.out \in Nat
        /\ chip.isSetup \in BOOLEAN /\ chip.acked \in BOOLEAN
    BY <1>1, PacketFacts DEF ChipType
  <1> USE <1>0, <1>1, <1>2
  <1>3. CASE IsrEnter
    <2>1. chip' \in ChipType
      <3>1. chip.int \cap EndpointSources \in SourceSets
        BY SourceFacts
      <3> QED BY <1>3, <3>1 DEF IsrEnter, ChipType
    <2>2. Typed'
      BY <1>3, <2>1
         DEF IsrEnter, Typed, PipeTypeOK, LoopTypeOK, pipeVars, loopVars, SourceSets, ChipType
    <2>3. HandlerMoves
      BY <1>3 DEF IsrEnter, HandlerMoves, pipeVars, loopVars, ChipType
    <2>4. WriteBack'
      BY <1>3, <2>3, IsrWriteBack DEF IsrEnter, IInv, WriteBack, pipeVars, loopVars
    <2> QED BY <2>2, <2>3, <2>4, HandlerKeeps, TypedIsTypeOKNext DEF IInv
  <1>4. CASE Isr_Ep00RxDone
    <2> DEFINE c == ReadStatus(chip, "EP0OUT")
               i == Least(c.out, EP0_PACKET_SIZE)
    <2>1. /\ c \in ChipType /\ c.isSetup = chip.isSetup /\ c.acked = chip.acked
          /\ c.out = chip.out
      BY ReadStatusType, StatusRead
    <2>2. /\ UNCHANGED <<req, wLength, suspend, dev, pc, reply, snap, bufferAvailable, gate, host,
                         left>>
          /\ Serve("EP0OUT")
      BY <1>4 DEF Isr_Ep00RxDone, loopVars
    <2> HIDE DEF c
    <2>3. /\ abort' \in BOOLEAN /\ chip' \in ChipType /\ HandlerMoves
      <3>1. CASE chip.isSetup
        <4>1. dcp' = "SETUPPROC" /\ chip' = c /\ wCount' = wCount /\ abort' \in BOOLEAN
          BY <1>4, <3>1 DEF Isr_Ep00RxDone, c
        <4> QED BY <2>1, <2>2, <4>1 DEF HandlerMoves, DCPStates
      <3>2. CASE ~chip.isSetup /\ dcp = "DATAOUT"
        <4>1. TakeDataOut(c) /\ abort' = abort
          BY <1>4, <3>2 DEF Isr_Ep00RxDone, c
        <4>2. i \in Nat /\ (chip.out = 0 => i = 0) /\ wCount + i \in Nat
          <5>1. i \in Nat /\ (chip.out = 0 => i = 0)
            BY <2>1 DEF Least, EP0_PACKET_SIZE
          <5> HIDE DEF i
          <5> QED BY <5>1
        <4>3. /\ wCount' = wCount + i
              /\ dcp' = IF i # EP0_PACKET_SIZE \/ wCount + i >= wLength THEN "REQUESTPROC" ELSE dcp
              /\ chip' = IF c.acked THEN [c EXCEPT !.out = 0] ELSE c
          BY <4>1 DEF TakeDataOut
        <4>4. chip.acked
          BY <3>2 DEF IInv, Buffer
        <4>5. chip' = [c EXCEPT !.out = 0]
          BY <2>1, <4>3, <4>4
        <4>6. chip' \in ChipType /\ chip'.out = 0 /\ chip'.isSetup = chip.isSetup
              /\ chip'.acked = chip.acked
          BY <2>1, <4>5, EmptyOutType DEF ChipType
        <4>7. Held({"DATAOUT"})
          BY <3>2 DEF Held
        <4>8. wLength <= 16 /\ wLength \in Nat
          BY <4>7 DEF IInv, Counters, WriteInHand, MAX_CONTROLDATA_SIZE
        <4>9. dcp' = "REQUESTPROC"
          <5> HIDE DEF i
          <5> QED BY <4>2, <4>3, <4>8 DEF EP0_PACKET_SIZE
        <4>10. wCount' = wCount \/ (Dry' /\ pc # "setupLateAck")
          <5>1. CASE chip.out = 0
            <6>1. i = 0
              BY <4>2, <5>1
            <6> HIDE DEF i
            <6> QED BY <4>3, <6>1
          <5>2. CASE chip.out # 0
            <6>1. pc # "setupLateAck"
              BY <3>2, <5>2 DEF IInv, Buffer, Dry
            <6>2. host.phase # "dataOut"
              BY <3>2 DEF IInv, Buffer
            <6> QED BY <2>2, <4>6, <6>1, <6>2 DEF Dry
          <5> QED BY <5>1, <5>2
        <4> HIDE DEF i
        <4> QED BY <2>2, <3>2, <4>1, <4>2, <4>3, <4>6, <4>9, <4>10 DEF HandlerMoves, DCPStates
      <3>3. CASE ~chip.isSetup /\ dcp = "HANDSHAKE"
        <4>1. dcp' = "IDLE" /\ chip' = c /\ UNCHANGED <<abort, wCount>>
          BY <1>4, <3>3 DEF Isr_Ep00RxDone, c
        <4> QED BY <2>1, <2>2, <4>1 DEF HandlerMoves, DCPStates
      <3>4. CASE ~chip.isSetup /\ dcp \in {"STALL", "SETUPPROC", "REQUESTPROC", "DATAIN"}
        <4>1. chip' = c /\ UNCHANGED <<dcp, abort, wCount>>
          BY <1>4, <3>4 DEF Isr_Ep00RxDone, c
        <4> QED BY <2>1, <2>2, <4>1 DEF HandlerMoves, DCPStates
      <3>5. CASE ~chip.isSetup /\ dcp \in {"IDLE", "INTR1DONE"}
        <4>1. /\ dcp' = "STALL" /\ UNCHANGED <<abort, wCount>>
              /\ chip' = [c EXCEPT !.halt = @ \cup {0, 1}]
          BY <1>4, <3>5 DEF Isr_Ep00RxDone, c
        <4>2. chip' \in ChipType /\ chip'.isSetup = c.isSetup /\ chip'.acked = c.acked
              /\ chip'.out = c.out
          BY <2>1, <4>1, HaltEP0Type DEF ChipType
        <4> QED BY <2>1, <2>2, <4>1, <4>2 DEF HandlerMoves, DCPStates
      <3> QED BY <3>1, <3>2, <3>3, <3>4, <3>5 DEF DCPStates
    <2> QED BY <2>2, <2>3, ServeKeeps
  <1>5. CASE Isr_Ep00TxDone
    <2> DEFINE r == ReadStatus(chip, "EP0IN")
               c == [r EXCEPT !.int = @ \cap EndpointSources]
    <2>1. /\ c \in ChipType /\ c.isSetup = chip.isSetup /\ c.acked = chip.acked
          /\ c.out = chip.out
      <3>1. r \in ChipType /\ r.isSetup = chip.isSetup /\ r.acked = chip.acked /\ r.out = chip.out
        BY ReadStatusType, StatusRead
      <3>2. r.int \cap EndpointSources \in SourceSets
        BY <3>1, SourceFacts DEF ChipType
      <3> HIDE DEF r
      <3> QED BY <3>1, <3>2 DEF ChipType
    <2>2. /\ UNCHANGED <<abort, req, wLength, suspend, dev, pc, reply, snap, bufferAvailable, gate,
                         host, left>>
          /\ Serve("EP0IN")
      BY <1>5 DEF Isr_Ep00TxDone, loopVars
    <2>3. \/ dcp = "DATAIN" /\ NextPacket(c)
          \/ dcp = "INTR1DONE" /\ dcp' = "STALL" /\ wCount' = wCount
             /\ chip' = [c EXCEPT !.halt = @ \cup {0, 1}]
          \/ dcp \notin {"DATAIN", "INTR1DONE"} /\ chip' = c /\ UNCHANGED <<dcp, wCount>>
      BY <1>5 DEF Isr_Ep00TxDone
    <2> HIDE DEF c
    <2>4. chip' \in ChipType /\ HandlerMoves
      <3>1. CASE dcp = "DATAIN" /\ NextPacket(c)
        <4> DEFINE left1 == wLength - wCount
                   n     == Least(left1, EP0_PACKET_SIZE)
        <4>0. Held({"DATAIN"})
          BY <3>1 DEF Held
        <4>1. wCount <= wLength /\ left1 \in Nat
          BY <4>0 DEF IInv, Counters, ReadInHand
        <4>2. n \in Nat /\ n \in Bytes /\ n <= left1 /\ (n = left1 \/ n = 64) /\ (left1 < 64 => n = left1)
              /\ (left1 >= 64 => n = 64)
          BY <4>1, OnePacket DEF Least, EP0_PACKET_SIZE
        <4>3. /\ chip' = WriteIn(c, n) /\ wCount' = wCount + n
              /\ dcp' = IF left1 >= 64 THEN dcp ELSE "HANDSHAKE"
          BY <3>1 DEF NextPacket, EP0_PACKET_SIZE
        <4> HIDE DEF n
        <4>4. chip' \in ChipType /\ Alike(chip', c)
          BY <2>1, <4>2, <4>3, WriteInType, AlikeFacts
        <4>5. chip'.isSetup = chip.isSetup /\ chip'.acked = chip.acked /\ chip'.out \in {chip.out, 0}
          BY <2>1, <4>4 DEF Alike
        <4>6. CASE left1 >= 64
          <5>1. dcp' = "DATAIN" /\ wCount' <= wLength /\ wCount' \in Nat
            BY <3>1, <4>1, <4>2, <4>3, <4>6
          <5> QED BY <2>2, <3>1, <4>4, <4>5, <5>1 DEF HandlerMoves
        <4>7. CASE ~(left1 >= 64)
          <5>1. dcp' = "HANDSHAKE" /\ wCount' = wLength
            BY <4>1, <4>2, <4>3, <4>7
          <5> QED BY <2>2, <3>1, <4>4, <4>5, <5>1 DEF HandlerMoves, DCPStates
        <4> QED BY <4>6, <4>7
      <3>2. CASE /\ dcp = "INTR1DONE" /\ dcp' = "STALL" /\ wCount' = wCount
                 /\ chip' = [c EXCEPT !.halt = @ \cup {0, 1}]
        <4>1. chip' \in ChipType /\ chip'.isSetup = c.isSetup /\ chip'.acked = c.acked
              /\ chip'.out = c.out
          BY <2>1, <3>2, HaltEP0Type DEF ChipType
        <4> QED BY <2>1, <2>2, <3>2, <4>1 DEF HandlerMoves, DCPStates
      <3>3. CASE dcp \notin {"DATAIN", "INTR1DONE"} /\ chip' = c /\ UNCHANGED <<dcp, wCount>>
        BY <2>1, <2>2, <3>3 DEF HandlerMoves
      <3> QED BY <2>3, <3>1, <3>2, <3>3
    <2> QED BY <2>2, <2>4, ServeKeeps
  <1>6. CASE Isr_Ep01Done
    <2>1. /\ UNCHANGED <<abort, req, wLength, wCount, suspend, dev, pc, reply, snap, bufferAvailable,
                         gate, host, left>>
          /\ dcp' = "INTR1DONE" /\ chip' = ReadStatus(chip, "EP01") /\ Serve("EP01")
      BY <1>6 DEF Isr_Ep01Done, loopVars
    <2>2. chip' \in ChipType
      BY <2>1, ReadStatusType
    <2>3. HandlerMoves
      BY <2>1, StatusRead DEF HandlerMoves, DCPStates
    <2> QED BY <2>1, <2>2, <2>3, ServeKeeps
  <1> QED BY <1>3, <1>4, <1>5, <1>6, IsrFlagsKeep DEF IsrStep

-----------------------------------------------------------------------------
(* Steps of the host: they leave the firmware alone. *)

\* What the host may do to EP0 OUT: nothing, a SETUP, which shuts it, the data stage it is in, or
\* a packet that leaves it empty.
FillsBuffer ==
  \/ /\ UNCHANGED <<chip.isSetup, chip.acked, chip.out>>
     /\ host'.phase = "dataOut" => host.phase = "dataOut"
  \/ chip'.isSetup /\ ~chip'.acked
  \/ host.phase = "dataOut" /\ chip.acked /\ chip'.acked /\ host'.phase # "dataOut"
  \/ chip'.out = 0 /\ chip'.acked /\ host'.phase # "dataOut"

LEMMA HostTypes ==
  ASSUME IInv, UNCHANGED firmwareVars,
         chip' \in ChipType, host' \in HostType, left' \in LeftType, FillsBuffer
  PROVE  IInv'
  <1>0. UNCHANGED <<dcp, abort, req, wLength, wCount, suspend, dev, pc, reply, snap,
                    bufferAvailable, gate, inIsr, ist, reopened>>
    BY DEF firmwareVars, pipeVars, loopVars, gateVars, isrVars
  <1>1. Typed'
    BY <1>0, TypedIsTypeOK DEF IInv, Typed, PipeTypeOK, LoopTypeOK
  <1>2. Dry => Dry'
    BY DEF FillsBuffer, Dry
  <1>3. Counters'
    BY <1>0, <1>2, SamePipe
  <1>4. Guards' /\ WriteBack'
    BY <1>0 DEF IInv, Guards, Quiet, Lengths, Noted, WriteBack, Held
  <1>5. Buffer'
    BY <1>0, <1>2 DEF IInv, Buffer, FillsBuffer, Dry
  <1> QED BY <1>1, <1>3, <1>4, <1>5, TypedIsTypeOKNext DEF IInv

\* The chip's side of the steps: sources are added, packets come and go.
LEMMA HostKeeps == ASSUME IInv, HostStep PROVE IInv'
  <1>0. chip \in ChipType /\ host \in HostType /\ left \in LeftType
    BY TypedIsTypeOK DEF IInv, Typed
  <1>1. /\ chip.int \in SourceSets /\ chip.halt \in Halts /\ chip.in \in Packets /\ chip.ep1 \in Nat
        /\ chip.isSetup \in BOOLEAN /\ chip.acked \in BOOLEAN
        /\ host.req \in AnyRequest /\ host.got \in Nat /\ host.req.wLength \in Nat
    BY <1>0, RequestsTyped DEF ChipType, HostType, Request
  <1>2. \A x \in Sources : chip.int \cup {x} \in SourceSets
    BY <1>1, SourceFacts
  <1>3. {"EP0OUT", "EP0IN", "EP01", "BUSRESET", "SUSPEND", "RESUME"} \subseteq Sources
    BY DEF Sources, DeviceSources, EndpointSources
  <1>4. Active \subseteq Phases /\ Ended \subseteq Phases /\ "idle" \in Phases
    BY DEF Phases
  <1>5. {"dataIn", "dataOut", "statusIn", "statusOut"} = Active
        /\ {"complete", "stalled"} = Ended
    BY DEF Active, Ended
  <1> USE <1>0, <1>1, <1>2, <1>3, PacketFacts
  <1>6. ASSUME NEW r \in Requests, HostSetup(r) PROVE IInv'
    <2>1. left' \in LeftType
      <3>1. left.setups - 1 \in 0..MaxSetups
            /\ (IF host.phase \in Active THEN left.aborts - 1 ELSE left.aborts) \in 0..MaxAborts
        BY <1>6, BoundFacts, OneLess DEF HostSetup, LeftType
      <3> QED BY <1>6, <3>1 DEF HostSetup, LeftType
    <2>2. host' \in HostType
      BY <1>6, <1>4, <1>5 DEF HostSetup, HostType, FirstPhase, Calm, AnyRequest
    <2>3. chip' \in ChipType
      BY <1>6, HaltFacts DEF HostSetup, ChipType, AnyRequest
    <2>9. FillsBuffer
      BY <1>6 DEF HostSetup, FillsBuffer, ChipType, HostType
    <2> QED BY <1>6, <2>1, <2>2, <2>3, <2>9, HostTypes DEF HostSetup
  <1>7. CASE HostTakeData
    <2>1. PICK n \in chip.in :
            host' = [host EXCEPT !.got = @ + n,
                                 !.phase = IF n < EP0_PACKET_SIZE \/ host.got + n >= host.req.wLength
                                           THEN "statusOut" ELSE "dataIn"]
      BY <1>7 DEF HostTakeData
    <2>2. host.got + n \in Nat
      <3>1. n \in Bytes
        BY <2>1, <1>1, PacketFacts, Zenon
      <3>2. n \in Nat
        BY <3>1, PacketFacts, Zenon
      <3> QED BY ONLY <3>2, host.got \in Nat
    <2>3. host' \in HostType
      BY <2>1, <2>2, <1>4, <1>5 DEF HostType
    <2>4. chip' \in ChipType
      BY <1>7 DEF HostTakeData, ChipType
    <2>9. FillsBuffer
      BY <1>7 DEF HostTakeData, FillsBuffer, ChipType, HostType
    <2> QED BY <1>7, <2>3, <2>4, <2>9, HostTypes DEF HostTakeData
  <1>8. CASE HostSendData
    <2>1. Least(host.req.wLength, EP0_PACKET_SIZE) \in Bytes
      BY OnePacket
    <2>2. chip' \in ChipType
      BY <1>8, <2>1 DEF HostSendData, ChipType
    <2>3. host' \in HostType
      BY <1>8, <1>4, <1>5 DEF HostSendData, HostType
    <2>9. FillsBuffer
      BY <1>8 DEF HostSendData, FillsBuffer, ChipType, HostType
    <2> QED BY <1>8, <2>2, <2>3, <2>9, HostTypes DEF HostSendData
  <1>9. CASE HostStatusOut
    <2>1. chip' \in ChipType
      BY <1>9 DEF HostStatusOut, ChipType
    <2>2. host' \in HostType
      BY <1>9, <1>4, <1>5 DEF HostStatusOut, HostType
    <2>9. FillsBuffer
      BY <1>9 DEF HostStatusOut, FillsBuffer, ChipType, HostType
    <2> QED BY <1>9, <2>1, <2>2, <2>9, HostTypes DEF HostStatusOut
  <1>10. CASE HostStatusIn
    <2>1. chip' \in ChipType
      BY <1>10 DEF HostStatusIn, ChipType
    <2>2. host' \in HostType
      BY <1>10, <1>4, <1>5 DEF HostStatusIn, HostType
    <2>9. FillsBuffer
      BY <1>10 DEF HostStatusIn, FillsBuffer, ChipType, HostType
    <2> QED BY <1>10, <2>1, <2>2, <2>9, HostTypes DEF HostStatusIn
  <1>11. CASE HostSeesStall
    <2>1. host' \in HostType
      BY <1>11, <1>4, <1>5 DEF HostSeesStall, HostType
    <2>9. FillsBuffer
      BY <1>11 DEF HostSeesStall, FillsBuffer, ChipType, HostType
    <2> QED BY <1>11, <2>1, <2>9, HostTypes DEF HostSeesStall
  <1>12. CASE HostPoll
    <2>1. chip.ep1 - 1 \in Nat
      BY <1>12 DEF HostPoll
    <2>2. chip' \in ChipType
      BY <1>12, <2>1 DEF HostPoll, ChipType
    <2>9. FillsBuffer
      BY <1>12 DEF HostPoll, FillsBuffer, ChipType, HostType
    <2> QED BY <1>12, <2>2, <2>9, HostTypes DEF HostPoll
  <1>13. CASE HostReset
    <2>1. left' \in LeftType
      <3>1. left.resets - 1 \in 0..MaxResets
        BY <1>13, BoundFacts, OneLess DEF HostReset, LeftType
      <3> QED BY <1>13, <3>1 DEF HostReset, LeftType
    <2>2. host' \in HostType
      BY <1>13, <1>4 DEF HostReset, HostType
    <2>3. chip' \in ChipType
      <3>1. PICK stale \in {{}, chip.int} :
              chip' = [chip EXCEPT !.int = stale \cup {"BUSRESET"}, !.out = 0, !.isSetup = FALSE,
                                   !.ovwr = FALSE, !.acked = TRUE, !.in = {}, !.halt = {}, !.ep1 = 0]
        BY <1>13 DEF HostReset
      <3>2. stale \cup {"BUSRESET"} \in SourceSets
        BY SourceFacts
      <3> QED BY <3>1, <3>2, HaltFacts DEF ChipType
    <2>9. FillsBuffer
      BY <1>13 DEF HostReset, FillsBuffer, ChipType, HostType
    <2> QED BY <1>13, <2>1, <2>2, <2>3, <2>9, HostTypes DEF HostReset
  <1>14. CASE HostSuspendOrResume
    <2>1. left' \in LeftType
      <3>1. left.suspends - 1 \in 0..MaxSuspends
        BY <1>14, BoundFacts, OneLess DEF HostSuspendOrResume, LeftType
      <3> QED BY <1>14, <3>1 DEF HostSuspendOrResume, LeftType
    <2>2. chip' \in ChipType
      BY <1>14 DEF HostSuspendOrResume, ChipType
    <2>9. FillsBuffer
      BY <1>14 DEF HostSuspendOrResume, FillsBuffer, ChipType, HostType
    <2> QED BY <1>14, <2>1, <2>2, <2>9, HostTypes DEF HostSuspendOrResume
  <1> QED
    BY <1>6, <1>7, <1>8, <1>9, <1>10, <1>11, <1>12, <1>13, <1>14 DEF HostStep, HostMoves

-----------------------------------------------------------------------------

LEMMA InitIInv == Init => IInv
  <1> SUFFICES ASSUME Init PROVE IInv
    OBVIOUS
  <1>1. ZeroRequest \in AnyRequest
    BY DEF AnyRequest
  <1>2. PipeTypeOK
    <2>1. \A n \in 0..1, a \in 0..127 :
            [default |-> TRUE, address |-> FALSE, config |-> FALSE, configuration |-> n,
             wakeup |-> FALSE, alt |-> n, hid |-> "reset", addr |-> a] \in Device
      BY DEF Device
    <2>2. 0 \in 0..1 /\ 0 \in 0..127
      OBVIOUS
    <2>3. dev \in Device
      BY <2>1, <2>2, Zenon DEF Init
    <2> QED BY <2>3 DEF Init, PipeTypeOK, DCPStates
  <1>3. LoopTypeOK
    <2>4. reply \in [kind: ReplyKinds, len: Nat]
      BY DEF Init, ReplyKinds
    <2>5. snap = {} /\ reopened \in Seq(Statements)
      BY EmptySeq DEF Init
    <2> QED BY <2>4, <2>5 DEF Init, LoopTypeOK, Places, GateStates
  <1>8. 0 \in Nat /\ {} \in SourceSets /\ 0 \in Bytes /\ {} \in Packets /\ {} \in Halts
        /\ "idle" \in Phases
    BY SourceFacts, PacketFacts, HaltFacts DEF Phases
  <1>4. chip \in ChipType
    BY <1>1, <1>8 DEF Init, ChipType
  <1>5. host \in HostType
    BY <1>1, <1>8 DEF Init, HostType
  <1>6. left \in LeftType
    BY BoundFacts DEF Init, LeftType
  <1>7. Counters /\ Guards /\ WriteBack /\ Buffer
    BY DEF Init, Counters, ReadInHand, WriteInHand, AnswerInHand, SomeDeviceState, Held, Guards,
           Quiet, Lengths, Noted, InHand, WriteBack, Buffer, Dry
  <1> QED BY <1>2, <1>3, <1>4, <1>5, <1>6, <1>7, TypedIsTypeOK DEF IInv, Typed

\* INT_Enabled = 1.
LEMMA OpenGateKeeps == ASSUME IInv, OpenGate PROVE IInv'
  <1>1. /\ UNCHANGED <<dcp, abort, req, wLength, wCount, suspend, dev, pc, reply, snap,
                       bufferAvailable, inIsr, ist, reopened, chip, host, left>>
        /\ gate = "opening" /\ gate' = "open"
    BY DEF OpenGate, pipeVars, loopVars, isrVars
  <1>2. Typed'
    BY <1>1, TypedIsTypeOK DEF IInv, Typed, PipeTypeOK, LoopTypeOK, GateStates
  <1>3. Counters' /\ Guards' /\ Buffer'
    <2>1. Dry <=> Dry'
      BY <1>1 DEF Dry
    <2>2. pc' = "setupLateAck" => pc = "setupLateAck"
      BY <1>1
    <2>3. Counters'
      BY <1>1, <2>1, <2>2, SamePipe
    <2> QED BY <1>1, <2>1, <2>3 DEF IInv, Guards, Quiet, Lengths, Noted, Held, Buffer
  <1>4. WriteBack'
    BY <1>1 DEF IInv, WriteBack
  <1> QED BY <1>2, <1>3, <1>4, TypedIsTypeOKNext DEF IInv

LEMMA Inductive == IInv /\ [Next]_vars => IInv'
  <1> SUFFICES ASSUME IInv, [Next]_vars PROVE IInv'
    OBVIOUS
  <1>1. CASE UNCHANGED vars
    <2>1. UNCHANGED firmwareVars /\ UNCHANGED <<chip, host, left>>
      BY <1>1 DEF vars, firmwareVars, pipeVars, loopVars, gateVars, isrVars
    <2>2. FillsBuffer
      BY <2>1 DEF FillsBuffer
    <2> QED BY <2>1, <2>2, HostTypes, TypedIsTypeOK DEF IInv, Typed
  <1>2. CASE Next
    BY <1>2, OpenGateKeeps, MainKeeps, IsrKeeps, HostKeeps DEF Next
  <1> QED BY <1>1, <1>2

LEMMA Always == Spec => []IInv
  BY InitIInv, Inductive, PTL DEF Spec

\* Main loop, handler, chip and host keep their types, whatever their order.
THEOREM TypeCorrect == Spec => []TypeOK
  <1>1. IInv => TypeOK
    BY DEF IInv
  <1> QED BY Always, <1>1, PTL

\* However a descriptor is interrupted, aborted, overtaken and restored, the handler that sends
\* its packets never leaves it.
THEOREM PacketsStayInside == Spec => []PacketsInsideDescriptor
  <1>1. IInv => PacketsInsideDescriptor
    BY DEF IInv, Counters, ReadInHand, Held, PacketsInsideDescriptor
  <1> QED BY Always, <1>1, PTL

\* The data of a write always find the counters of their own SETUP, although the write-back of a
\* handler may restore DATAOUT over counters that have moved.
THEOREM DataOutIsReady == Spec => []DataOutReady
  <1>1. IInv => DataOutReady
    <2> SUFFICES ASSUME IInv, dcp = "DATAOUT", ~chip.isSetup, chip.out > 0
                 PROVE  wCount = 0 /\ wLength \in 1..MAX_CONTROLDATA_SIZE
      BY DEF DataOutReady
    <2>1. chip.out # 0
      OBVIOUS
    <2> QED BY <2>1 DEF IInv, Counters, WriteInHand, Held, Dry
  <1> QED BY Always, <1>1, PTL

\* Behind a complete answer nothing is left to send.
THEOREM AnswersAreAccounted == Spec => []AnswerAccounted
  <1>1. IInv => AnswerAccounted
    BY DEF IInv, Counters, AnswerInHand, Held, AnswerAccounted
  <1> QED BY Always, <1>1, PTL

\* No order of requests, resets and read-modify-writes clears all the state bits.
THEOREM AlwaysSomeDeviceState == Spec => []SomeDeviceState
  <1>1. IInv => SomeDeviceState
    BY DEF IInv, Counters
  <1> QED BY Always, <1>1, PTL

-----------------------------------------------------------------------------
(* Endpoint 1.  A report takes the place of bufferAvailable, a completion  *)
(* on its way (an interrupt not served, INTR1DONE not seen by the main     *)
(* loop) takes the place of the report: their sum never exceeds the two    *)
(* buffers of the chip while the device is connected.  Before that the     *)
(* test of the reset in the main loop gives bufferAvailable away for       *)
(* nothing, and one report of the connection before may still be there.    *)

Completion ==
  "EP01" \in chip.int \cup ist \/ Held({"INTR1DONE"}) \/ pc \in {"ep1Load", "ep1Store"}

\* The main loop is about to take the completion, and no other follows.
LastCompletion ==
  \/ pc \in {"ep1Load", "ep1Store"}
  \/ /\ Held({"INTR1DONE"}) /\ "EP01" \notin chip.int \cup ist
     /\ pc \in {"suspend", "setup", "request", "ep1"}

Gate == ~inIsr => ist = {}

\* A bus reset has still to be served, or the handler that serves it has not finished.
Resetting == "BUSRESET" \in chip.int \cup ist \/ reopened \notin Seq({"At_IRQL1"})

One(b) == IF b THEN 1 ELSE 0

Slots ==
  /\ Resetting => chip.ep1 = 0
  /\ dev.hid = "connected"
       => chip.ep1 + One(bufferAvailable) + One(Completion) <= EP1_FIFO_SLOTS
  /\ dev.hid = "reset" =>
       /\ chip.ep1 <= 1
       /\ pc = "send" => chip.ep1 = 0
       /\ chip.ep1 = 1 /\ Completion => pc = "resetCheck" \/ LastCompletion

Ep1Inv == Gate /\ Slots

LEMMA OneFacts ==
  ASSUME NEW e \in Nat, NEW a \in BOOLEAN, NEW b \in BOOLEAN
  PROVE  /\ One(a) \in 0..1 /\ One(FALSE) = 0 /\ One(TRUE) = 1
         /\ \A c \in BOOLEAN : (c => b) /\ e + One(a) + One(b) <= EP1_FIFO_SLOTS
                                => e + One(a) + One(c) <= EP1_FIFO_SLOTS
         /\ e <= 1 /\ ~(e = 1 /\ b) => e + One(a) + One(b) <= EP1_FIFO_SLOTS
         /\ \A c \in BOOLEAN : e + One(a) + One(TRUE) <= EP1_FIFO_SLOTS
                                => e + One(c) + One(FALSE) <= EP1_FIFO_SLOTS
         /\ e + One(TRUE) + One(b) <= EP1_FIFO_SLOTS => (e + 1) + One(FALSE) + One(b) <= EP1_FIFO_SLOTS
         /\ e > 0 /\ e + One(a) + One(b) <= EP1_FIFO_SLOTS
              => (e - 1) + One(a) + One(TRUE) <= EP1_FIFO_SLOTS
  BY DEF One, EP1_FIFO_SLOTS


\* A request leaves the connection as it is or makes it.
LEMMA ConnectionKept ==
  ASSUME NEW r, NEW d \in Device, NEW halt, NEW aborted
  PROVE  /\ DeviceRequest(r, d, halt, aborted).dev.hid \in {d.hid, "connected"}
         /\ SetInterface(r, d, halt).dev.hid = d.hid
  <1> USE DEF Answer, Silence, Single, Burst, StallEP0
  <1> DEFINE Kept(a) == a.dev.hid \in {d.hid, "connected"}
  <1>1. Kept(GetStatus(r, d, halt)) /\ Kept(GetConfiguration(r, d, halt))
        /\ Kept(GetInterface(r, d, halt)) /\ Kept(GetDescriptor(r, d, halt))
        /\ Kept(HID_Get_Report(r, d, halt))
    BY DEF GetStatus, GetConfiguration, GetInterface, GetDescriptor, HID_Get_Report
  <1>2. Kept(ClearFeature(r, d, halt)) /\ Kept(SetFeature(r, d, halt))
    BY DEF ClearFeature, SetFeature, Device
  <1>3. Kept(SetAddress(r, d, halt, aborted)) /\ Kept(SetConfiguration(r, d, halt))
    BY DEF SetAddress, SetConfiguration, Addressed, Configured, Unconfigured, Device
  <1>4. Kept(HID_Set_Idle(r, d, halt)) /\ Kept(Silence(d, halt)) /\ Kept(StallEP0(d, halt))
    BY DEF HID_Set_Idle, Device
  <1>5. SetInterface(r, d, halt).dev.hid = d.hid
    BY DEF SetInterface, Device
  <1>6. Kept(SetInterface(r, d, halt))
    BY <1>5
  <1> HIDE DEF Kept
  <1>7. Kept(DeviceRequest(r, d, halt, aborted))
    BY <1>1, <1>2, <1>3, <1>4, <1>6 DEF DeviceRequest
  <1> QED BY <1>5, <1>7 DEF Kept

\* The steps that neither send a report nor take a place back.
LEMMA Settled ==
  ASSUME Typed, Slots, chip'.ep1 = chip.ep1, bufferAvailable' = bufferAvailable,
         Resetting' => Resetting,
         Completion' => Completion,
         dev'.hid = dev.hid \/ (dev'.hid = "connected" /\ ~(chip.ep1 = 1 /\ Completion)),
         dev'.hid = "reset" /\ pc' = "send" => pc = "send",
         dev'.hid = "reset" /\ chip.ep1 = 1 /\ Completion'
           /\ (pc = "resetCheck" \/ LastCompletion) => pc' = "resetCheck" \/ LastCompletion'
  PROVE  Slots'
  <1>1. chip.ep1 \in Nat /\ bufferAvailable \in BOOLEAN /\ dev.hid \in {"reset", "connected"}
    BY DEF Typed, ChipType, LoopTypeOK, PipeTypeOK, Device
  <1>2. Completion \in BOOLEAN /\ Completion' \in BOOLEAN
    BY DEF Completion
  <1>3. dev'.hid = "connected"
          => chip'.ep1 + One(bufferAvailable') + One(Completion') <= EP1_FIFO_SLOTS
    <2>1. CASE dev.hid = "connected"
      <3>1. chip.ep1 + One(bufferAvailable) + One(Completion) <= EP1_FIFO_SLOTS
        BY <2>1 DEF Slots
      <3>2. chip.ep1 + One(bufferAvailable) + One(Completion') <= EP1_FIFO_SLOTS
        BY <3>1, <1>1, <1>2, OneFacts
      <3> QED BY <3>2
    <2>2. CASE dev.hid = "reset" /\ dev'.hid = "connected"
      <3>1. chip.ep1 <= 1 /\ ~(chip.ep1 = 1 /\ Completion)
        BY <2>2 DEF Slots
      <3>2. ~(chip.ep1 = 1 /\ Completion')
        BY <3>1
      <3>3. chip.ep1 + One(bufferAvailable) + One(Completion') <= EP1_FIFO_SLOTS
        BY <3>1, <3>2, <1>1, <1>2, OneFacts
      <3> QED BY <3>3
    <2> QED BY <1>1, <2>1, <2>2
  <1>4. dev'.hid = "reset" =>
          /\ chip'.ep1 <= 1
          /\ pc' = "send" => chip'.ep1 = 0
          /\ chip'.ep1 = 1 /\ Completion' => pc' = "resetCheck" \/ LastCompletion'
    BY DEF Slots
  <1>5. Resetting' => chip'.ep1 = 0
    BY DEF Slots
  <1> QED BY <1>3, <1>4, <1>5 DEF Slots

\* An empty endpoint 1 has room for whatever is on its way.
LEMMA Emptied ==
  ASSUME chip'.ep1 = 0, bufferAvailable' \in BOOLEAN PROVE Slots'
  <1>1. Completion' \in BOOLEAN
    BY DEF Completion
  <1>2. 0 + One(bufferAvailable') + One(Completion') <= EP1_FIFO_SLOTS
    <2>1. One(bufferAvailable') \in 0..1 /\ One(Completion') \in 0..1
      BY <1>1 DEF One
    <2> QED BY <2>1 DEF EP1_FIFO_SLOTS
  <1>3. chip'.ep1 <= 1 /\ chip'.ep1 # 1
    OBVIOUS
  <1> QED BY <1>2, <1>3 DEF Slots

\* The steps of the main loop that leave endpoint 1, its place and the connection alone.
PassesBy ==
  \/ CheckSuspend \/ CheckSetup \/ SetupEnter \/ SetupRead \/ SetupLength \/ SetupAck
  \/ SetupLateAck \/ SetupStall \/ SetupStallNote \/ CheckRequest \/ RequestEnter
  \/ InterfaceReply \/ InterfaceNote \/ CheckEp1 \/ Ep1Load \/ CheckReport

\* A reply is noted in a state that is not a completion's.
LEMMA NoteIsNoCompletion ==
  ASSUME NEW k, NEW len, Note(k, len, dcp), dcp' = "INTR1DONE" PROVE dcp = "INTR1DONE"
  BY DEF Note, NoteBurst

LEMMA PassesByKeeps == ASSUME IInv, Slots, PassesBy PROVE Slots'
  <1> USE DEF pipeVars, gateVars, isrVars
  <1>0. Typed /\ MainStep /\ ~SendReport /\ snap = {}
    <2>1. Typed
      BY TypedIsTypeOK DEF IInv
    <2>2. MainStep
      BY DEF PassesBy, MainStep
    <2>3. \E l : l # "ep1Store" /\ l # "send" /\ At(l)
      BY DEF PassesBy, CheckSuspend, CheckSetup, SetupEnter, SetupRead, SetupLength, SetupAck,
             SetupLateAck, SetupStall, SetupStallNote, CheckRequest, RequestEnter,
             InterfaceReply, InterfaceNote, CheckEp1, Ep1Load, CheckReport
    <2>4. snap = {} /\ pc # "send"
      BY <2>3, AtFacts
    <2> QED BY <2>1, <2>2, <2>4 DEF SendReport, At
  <1>1. chip'.ep1 = chip.ep1 /\ chip'.int = chip.int
    BY <1>0, MainChip DEF Alike, Acks
  <1>2. UNCHANGED <<ist, bufferAvailable, reopened>>
    BY DEF PassesBy, CheckSuspend, CheckSetup, SetupEnter, SetupRead, SetupLength, SetupAck,
           SetupLateAck, SetupStall, SetupStallNote, CheckRequest, RequestEnter,
           InterfaceReply, InterfaceNote, CheckEp1, Ep1Load, CheckReport
  <1>3. dev'.hid = dev.hid
    <2>1. dev' = dev \/ dev' = SetInterface(req, dev, chip.halt).dev
      BY DEF PassesBy, CheckSuspend, CheckSetup, SetupEnter, SetupRead, SetupLength, SetupAck,
             SetupLateAck, SetupStall, SetupStallNote, CheckRequest, RequestEnter,
             InterfaceReply, InterfaceNote, CheckEp1, Ep1Load, CheckReport
    <2> QED BY <1>0, <2>1, ConnectionKept DEF Typed, PipeTypeOK
  <1>4. Held({"INTR1DONE"})' => dcp' = "INTR1DONE" /\ dcp = "INTR1DONE"
    <2>1. dcp' = "INTR1DONE" => dcp = "INTR1DONE"
      BY NoteIsNoCompletion
         DEF PassesBy, CheckSuspend, CheckSetup, SetupEnter, SetupRead, SetupLength, SetupAck,
             SetupLateAck, SetupStall, SetupStallNote, CheckRequest, RequestEnter,
             InterfaceReply, InterfaceNote, CheckEp1, Ep1Load, CheckReport
    <2>2. snap' = {} \/ snap' = {[D13Flags EXCEPT !.dcp = "IDLE"]}
      BY <1>0
         DEF PassesBy, CheckSuspend, CheckSetup, SetupEnter, SetupRead, SetupLength, SetupAck,
             SetupLateAck, SetupStall, SetupStallNote, CheckRequest, RequestEnter,
             InterfaceReply, InterfaceNote, CheckEp1, Ep1Load, CheckReport
    <2>3. [D13Flags EXCEPT !.dcp = "IDLE"].dcp = "IDLE"
      BY DEF D13Flags
    <2> QED BY <2>1, <2>2, <2>3 DEF Held
  <1>5. /\ pc' = "ep1Load" => dcp = "INTR1DONE"
        /\ pc' = "ep1Store" => pc = "ep1Load"
        /\ pc = "ep1Load" => pc' = "ep1Store"
        /\ pc' = "send" => dev.hid = "connected"
        /\ pc # "resetCheck" /\ pc # "ep1Store"
        /\ pc \in {"suspend", "setup", "request", "ep1"} /\ dcp = "INTR1DONE"
             => pc' \in {"setup", "request", "ep1", "ep1Load"}
    BY DEF PassesBy, CheckSuspend, CheckSetup, SetupEnter, SetupRead, SetupLength, SetupAck,
           SetupLateAck, SetupStall, SetupStallNote, CheckRequest, RequestEnter,
           InterfaceReply, InterfaceNote, CheckEp1, Ep1Load, CheckReport, At
  <1>6. Completion' => Completion
    BY <1>1, <1>2, <1>4, <1>5 DEF Completion, Held
  <1>7. LastCompletion /\ Completion' => LastCompletion'
    <2> SUFFICES ASSUME LastCompletion, Completion' PROVE LastCompletion'
      OBVIOUS
    <2>1. CASE pc = "ep1Load"
      BY <1>5, <2>1 DEF LastCompletion
    <2>2. CASE pc # "ep1Load"
      <3>1. "EP01" \notin chip.int \cup ist /\ pc \in {"suspend", "setup", "request", "ep1"}
            /\ dcp = "INTR1DONE"
        BY <1>0, <1>5, <2>2 DEF LastCompletion, Held
      <3>2. pc' \in {"setup", "request", "ep1", "ep1Load"}
        BY <1>5, <3>1
      <3> QED BY <1>1, <1>2, <3>1, <3>2 DEF Completion, LastCompletion
    <2> QED BY <2>1, <2>2
  <1>8. Resetting' => Resetting
    BY <1>1, <1>2 DEF Resetting
  <1> QED BY <1>0, <1>1, <1>2, <1>3, <1>5, <1>6, <1>7, <1>8, Settled


LEMMA RequestConnects ==
  ASSUME IInv, Slots, RequestRun \/ Connect PROVE Slots'
  <1> USE DEF pipeVars, gateVars, isrVars
  <1>0. Typed /\ MainStep /\ ~SendReport /\ snap = {}
    <2>1. Typed
      BY TypedIsTypeOK DEF IInv
    <2>2. \E l : l # "ep1Store" /\ l # "send" /\ At(l)
      BY DEF RequestRun, Connect
    <2>3. snap = {} /\ pc # "send"
      BY <2>2, AtFacts
    <2> QED BY <2>1, <2>3 DEF MainStep, SendReport, At
  <1>1. chip'.ep1 = chip.ep1 /\ chip'.int = chip.int
    <2>1. ~SetupAck /\ ~SetupLateAck
      BY DEF RequestRun, Connect, SetupAck, SetupLateAck, At
    <2> QED BY <1>0, <2>1, MainChip DEF Alike
  <1>2. UNCHANGED <<ist, bufferAvailable, reopened, snap>>
    BY DEF RequestRun, Connect
  <1>3. dev'.hid = dev.hid \/ dev'.hid = "connected"
    <2>1. CASE RequestRun
      <3>1. dev' = DeviceRequest(req, dev, chip.halt, abort).dev
        BY <2>1 DEF RequestRun
      <3> QED BY <1>0, <3>1, ConnectionKept DEF Typed, PipeTypeOK
    <2>2. CASE Connect
      BY <1>0, <2>2 DEF Connect, Typed, PipeTypeOK, Device
    <2> QED BY <2>1, <2>2
  <1>4. dcp' = "INTR1DONE" => dcp = "INTR1DONE"
    BY NoteIsNoCompletion DEF RequestRun, Connect
  <1>5. pc \in {"requestRun", "connect"} /\ pc' \notin {"send", "ep1Load", "ep1Store"}
    BY DEF RequestRun, Connect, At
  <1>6. Completion' => Completion
    BY <1>0, <1>1, <1>2, <1>4, <1>5 DEF Completion, Held
  <1>7. ~LastCompletion /\ pc # "resetCheck"
    BY <1>5 DEF LastCompletion
  <1>8. dev.hid = "reset" => ~(chip.ep1 = 1 /\ Completion)
    BY <1>7 DEF Slots
  <1>9. dev'.hid = dev.hid \/ (dev'.hid = "connected" /\ ~(chip.ep1 = 1 /\ Completion))
    BY <1>0, <1>3, <1>8 DEF Typed, PipeTypeOK, Device
  <1>10. Resetting' => Resetting
    BY <1>1, <1>2 DEF Resetting
  <1> QED BY <1>0, <1>1, <1>2, <1>5, <1>6, <1>7, <1>9, <1>10, Settled

LEMMA TakesBackKeeps ==
  ASSUME IInv, Gate, Slots, Ep1Store \/ CheckReset PROVE Slots'
  <1>0. Typed /\ chip.int = {} /\ ist = {}
    BY AtFacts, TypedIsTypeOK DEF Ep1Store, CheckReset, Gate, IInv
  <1>1. /\ chip' = chip /\ ist' = ist /\ dev'.hid = dev.hid /\ chip.int = {} /\ ist = {}
        /\ reopened' = reopened /\ snap' = {}
    <2>1. chip' = chip /\ ist' = ist /\ reopened' = reopened
      BY DEF Ep1Store, CheckReset, gateVars, isrVars
    <2>2. dev'.hid = dev.hid /\ snap' = {}
      <3>1. CASE Ep1Store
        BY <1>0, <3>1 DEF Ep1Store, StoreFlags, Typed, PipeTypeOK, Device
      <3>2. CASE CheckReset
        BY <3>2, AtFacts DEF CheckReset
      <3> QED BY <3>1, <3>2
    <2> QED BY <1>0, <2>1, <2>2
  <1>2. /\ chip.ep1 \in Nat /\ bufferAvailable \in BOOLEAN /\ bufferAvailable' \in BOOLEAN
        /\ dev.hid \in {"reset", "connected"}
    BY <1>0, BoundsAssumption
       DEF Typed, ChipType, LoopTypeOK, PipeTypeOK, Device, Ep1Store, CheckReset
  <1>3. CASE Ep1Store
    <2>1. Completion = TRUE /\ Completion' = FALSE
      <3>1. PICK f \in snap : StoreFlags(f, "INTR1DONE")
        BY <1>3 DEF Ep1Store
      <3>2. dcp' = "IDLE"
        BY <1>3, <3>1 DEF Ep1Store, At, StoreFlags, IInv, WriteBack
      <3> QED BY <1>1, <1>3, <3>2 DEF Completion, Ep1Store, At, Held
    <2>2. dev.hid = "connected"
            => chip.ep1 + One(bufferAvailable') + One(Completion') <= EP1_FIFO_SLOTS
      <3>1. dev.hid = "connected"
              => chip.ep1 + One(bufferAvailable) + One(TRUE) <= EP1_FIFO_SLOTS
        BY <2>1 DEF Slots
      <3>2. dev.hid = "connected"
              => chip.ep1 + One(bufferAvailable') + One(FALSE) <= EP1_FIFO_SLOTS
        BY <3>1, <1>2, OneFacts
      <3> QED BY <3>2, <2>1
    <2>3. dev.hid = "reset" => chip.ep1 <= 1 /\ pc' # "send"
      BY <1>3 DEF Slots, Ep1Store
    <2>4. Resetting' => Resetting
      BY <1>1 DEF Resetting
    <2> QED BY <1>1, <2>1, <2>2, <2>3, <2>4 DEF Slots
  <1>4. CASE CheckReset
    <2>1. /\ UNCHANGED <<dcp, dev>> /\ pc = "resetCheck" /\ pc' = "suspend"
          /\ bufferAvailable' = (bufferAvailable \/ dev.hid = "reset")
      BY <1>4 DEF CheckReset, At, pipeVars
    <2>2. Completion' = Completion /\ (Completion => LastCompletion')
      <3>1. snap = {}
        BY <1>4, AtFacts DEF CheckReset
      <3> QED BY <1>1, <2>1, <3>1 DEF Completion, LastCompletion, Held
    <2>5. Resetting' => Resetting
      BY <1>1 DEF Resetting
    <2>3. CASE dev.hid = "reset"
      <3>1. chip.ep1 <= 1 /\ dev'.hid # "connected" /\ (Resetting' => chip.ep1 = 0)
        BY <1>1, <2>3, <2>5 DEF Slots
      <3> QED BY <1>1, <2>1, <2>2, <3>1 DEF Slots
    <2>4. CASE dev.hid = "connected"
      <3>1. bufferAvailable' = bufferAvailable
        BY <1>2, <2>1, <2>4
      <3> QED BY <1>0, <1>1, <2>1, <2>2, <2>4, <2>5, <3>1, Settled
    <2> QED BY <1>2, <2>3, <2>4
  <1> QED BY <1>3, <1>4

LEMMA SendKeeps == ASSUME IInv, Gate, Slots, SendReport PROVE Slots'
  <1>0. Typed
    BY TypedIsTypeOK DEF IInv
  <1>1. /\ UNCHANGED <<dcp, dev, ist, snap, reopened>> /\ pc = "send" /\ pc' = "resetCheck"
        /\ chip.int = {} /\ ist = {} /\ snap = {}
    <2>1. chip.int = {} /\ ist = {} /\ snap = {}
      BY AtFacts DEF SendReport, Gate
    <2> QED BY <2>1 DEF SendReport, isrVars, pipeVars, At
  <1>2. CASE UNCHANGED <<bufferAvailable, chip>>
    <2>1. Completion' => Completion
      BY <1>1, <1>2 DEF Completion, Held
    <2>2. Resetting' => Resetting
      BY <1>1, <1>2 DEF Resetting
    <2> QED BY <1>0, <1>1, <1>2, <2>1, <2>2, Settled
  <1>3. CASE bufferAvailable /\ bufferAvailable' = FALSE /\ chip' = [chip EXCEPT !.ep1 = @ + 1]
    <2>1. chip.ep1 \in Nat /\ chip'.ep1 = chip.ep1 + 1 /\ chip'.int = chip.int
          /\ bufferAvailable = TRUE
      BY <1>0, <1>3 DEF Typed, ChipType, LoopTypeOK
    <2>2. Completion' = Completion /\ Completion \in BOOLEAN
      BY <1>1, <2>1 DEF Completion, Held
    <2>3. dev.hid = "connected"
            => chip'.ep1 + One(bufferAvailable') + One(Completion') <= EP1_FIFO_SLOTS
      <3>1. dev.hid = "connected"
              => chip.ep1 + One(TRUE) + One(Completion) <= EP1_FIFO_SLOTS
        BY <2>1 DEF Slots
      <3>2. dev.hid = "connected"
              => (chip.ep1 + 1) + One(FALSE) + One(Completion) <= EP1_FIFO_SLOTS
        BY <3>1, <2>1, <2>2, OneFacts
      <3> QED BY <3>2, <1>3, <2>1, <2>2
    <2>4. dev.hid = "reset" => chip'.ep1 <= 1
      BY <1>1, <2>1 DEF Slots
    <2>5. ~Resetting'
      <3>1. reopened = <<>>
        BY AtFacts DEF SendReport
      <3>2. reopened \in Seq({"At_IRQL1"})
        BY <3>1, EmptySeq
      <3> QED BY <1>1, <2>1, <3>2 DEF Resetting
    <2> QED BY <1>1, <2>3, <2>4, <2>5 DEF Slots
  <1> QED BY <1>2, <1>3 DEF SendReport

LEMMA MainSlots == ASSUME IInv, Gate, Slots, MainStep PROVE Slots'
  BY PassesByKeeps, RequestConnects, TakesBackKeeps, SendKeeps DEF MainStep, PassesBy


\* The handler serves what it has seen and asks for nothing new; only the completion of
\* endpoint 1 brings INTR1DONE about.
HandlerTakes ==
  /\ chip'.ep1 = chip.ep1
  /\ (chip.int \cup ist)' \subseteq chip.int \cup ist
  /\ reopened \in Seq({"At_IRQL1"}) => reopened' \in Seq({"At_IRQL1"})
  /\ UNCHANGED <<pc, bufferAvailable>> /\ dev'.hid = dev.hid
  /\ Held({"INTR1DONE"})' => Held({"INTR1DONE"}) \/ "EP01" \in ist

LEMMA HandlerTakesKeeps == ASSUME Typed, Slots, HandlerTakes PROVE Slots'
  <1>1. Completion' => Completion
    BY DEF HandlerTakes, Completion
  <1>2. LastCompletion /\ Completion' => LastCompletion'
    BY DEF HandlerTakes, Completion, LastCompletion
  <1>3. Resetting' => Resetting
    BY DEF HandlerTakes, Resetting
  <1> QED BY <1>1, <1>2, <1>3, Settled DEF HandlerTakes

LEMMA EndpointServed ==
  ASSUME Typed, Isr_Ep00RxDone \/ Isr_Ep00TxDone \/ Isr_Ep01Done PROVE HandlerTakes
  <1>1. ist' \subseteq ist /\ UNCHANGED <<pc, bufferAvailable, dev, snap>>
        /\ (reopened' = reopened \/ GoesOnAt("At_IRQL1"))
    BY DEF Isr_Ep00RxDone, Isr_Ep00TxDone, Isr_Ep01Done, Serve, loopVars
  <1>2. Held({"INTR1DONE"})' => Held({"INTR1DONE"}) \/ "EP01" \in ist
    <2>1. dcp' = "INTR1DONE" => dcp = "INTR1DONE" \/ "EP01" \in ist
      BY DEF Isr_Ep00RxDone, Isr_Ep00TxDone, Isr_Ep01Done, TakeDataOut, NextPacket
    <2> QED BY <1>1, <2>1 DEF Held
  <1>4. reopened \in Seq({"At_IRQL1"}) => reopened' \in Seq({"At_IRQL1"})
    BY <1>1, GoesOnSeq
  <1>3. chip'.ep1 = chip.ep1 /\ chip'.int \subseteq chip.int
    <2>0. chip \in ChipType
      BY DEF Typed
    <2>1. CASE Isr_Ep00RxDone
      <3> DEFINE c == ReadStatus(chip, "EP0OUT")
      <3>1. c \in ChipType /\ c.ep1 = chip.ep1 /\ c.int \subseteq chip.int
        BY <2>0, ReadStatusType, StatusRead
      <3>2. \/ chip' = c \/ chip' = [c EXCEPT !.out = 0]
            \/ chip' = [c EXCEPT !.halt = c.halt \cup {0, 1}]
        BY <2>1 DEF Isr_Ep00RxDone, TakeDataOut
      <3> HIDE DEF c
      <3>3. Alike(chip', c)
        BY <3>1, <3>2, AlikeFacts
      <3> QED BY <3>1, <3>3 DEF Alike
    <2>2. CASE Isr_Ep00TxDone
      <3> DEFINE b == ReadStatus(chip, "EP0IN")
                 c == [b EXCEPT !.int = b.int \cap EndpointSources]
      <3>1. b \in ChipType /\ b.ep1 = chip.ep1 /\ b.int \subseteq chip.int
        BY <2>0, ReadStatusType, StatusRead
      <3>2. \/ chip' = c \/ \E n : chip' = WriteIn(c, n)
            \/ chip' = [c EXCEPT !.halt = c.halt \cup {0, 1}]
        BY <2>2 DEF Isr_Ep00TxDone, NextPacket
      <3> HIDE DEF b
      <3>3. b.int \cap EndpointSources \in SourceSets
        BY <3>1, SourceFacts DEF ChipType
      <3>4. c \in ChipType /\ c.ep1 = b.ep1 /\ c.int \subseteq b.int
        BY <3>1, <3>3 DEF ChipType
      <3> HIDE DEF c
      <3>5. Alike(chip', c)
        BY <3>2, <3>4, AlikeFacts
      <3> QED BY <3>1, <3>4, <3>5 DEF Alike
    <2>3. CASE Isr_Ep01Done
      BY <2>0, <2>3, StatusRead DEF Isr_Ep01Done
    <2> QED BY <2>1, <2>2, <2>3
  <1> QED BY <1>1, <1>2, <1>3, <1>4 DEF HandlerTakes

LEMMA IsrSlots == ASSUME Typed, Slots, IsrStep PROVE Slots'
  <1>0. chip \in ChipType /\ dev \in Device /\ bufferAvailable \in BOOLEAN
    BY DEF Typed, PipeTypeOK, LoopTypeOK
  <1>1. CASE IsrEnter
    <2>1. chip' = [chip EXCEPT !.int = chip.int \cap EndpointSources]
      BY <1>1 DEF IsrEnter
    <2>2. chip'.ep1 = chip.ep1 /\ chip'.int \subseteq chip.int
      BY <1>0, <2>1 DEF ChipType
    <2>3. HandlerTakes
      BY <1>1, <2>2 DEF IsrEnter, HandlerTakes, Held, pipeVars, loopVars
    <2> QED BY <2>3, HandlerTakesKeeps
  <1>2. CASE IsrBusReset
    <2>1. chip' = chip /\ chip.ep1 = 0 /\ bufferAvailable' = bufferAvailable
      BY <1>2 DEF IsrBusReset, Slots, Resetting, loopVars
    <2> QED BY <1>0, <2>1, Emptied
  <1>3. CASE IsrSuspendChange \/ IsrResume
    <2>1. /\ UNCHANGED <<dcp, dev, snap, pc, bufferAvailable, chip>> /\ ist' = {}
          /\ GoesOnAt("At_IRQL1")
      BY <1>3 DEF IsrSuspendChange, IsrResume, pipeVars, loopVars
    <2>2. HandlerTakes
      BY <2>1, GoesOnSeq DEF HandlerTakes, Held
    <2> QED BY <2>2, HandlerTakesKeeps
  <1>4. CASE Isr_Ep00RxDone \/ Isr_Ep00TxDone \/ Isr_Ep01Done
    BY <1>4, EndpointServed, HandlerTakesKeeps
  <1>5. CASE IsrLoad
    <2>1. /\ UNCHANGED <<dcp, dev, pc, bufferAvailable, chip, ist, reopened>>
          /\ \A f \in snap' : f.dcp \in {dcp, "IDLE"}
      BY <1>5 DEF IsrLoad, D13Flags, pipeVars, gateVars, isrVars
    <2>2. HandlerTakes
      BY <2>1 DEF HandlerTakes, Held
    <2> QED BY <2>2, HandlerTakesKeeps
  <1>6. CASE IsrStore
    <2>1. PICK f \in snap : StoreFlags(f, f.dcp)
      BY <1>6 DEF IsrStore
    <2>2. /\ dcp' = f.dcp /\ snap' = {} /\ UNCHANGED <<pc, bufferAvailable, chip, ist>>
          /\ dev' = [dev EXCEPT !.configuration = f.configuration, !.wakeup = f.wakeup]
          /\ reopened # <<>> /\ Advances
      BY <1>6, <2>1 DEF IsrStore, StoreFlags, Resumes
    <2>3. dev'.hid = dev.hid
      BY <1>0, <2>2 DEF Device
    <2>4. reopened \in Seq({"At_IRQL1"}) => reopened' \in Seq({"At_IRQL1"})
      BY <2>2, AdvancesSeq
    <2>5. HandlerTakes
      BY <2>2, <2>3, <2>4 DEF HandlerTakes, Held
    <2> QED BY <2>5, HandlerTakesKeeps
  <1>7. CASE IsrResetState
    <2>1. /\ chip' = chip /\ bufferAvailable' = bufferAvailable /\ reopened # <<>>
          /\ Head(reopened) = "State_bits"
      BY <1>7 DEF IsrResetState, Resumes, loopVars
    <2>2. reopened \notin Seq({"At_IRQL1"})
      <3> SUFFICES ASSUME reopened \in Seq({"At_IRQL1"}) PROVE FALSE
        OBVIOUS
      <3>1. Head(reopened) \in {"At_IRQL1"}
        BY <2>1, HeadTailProperties
      <3> QED BY <2>1, <3>1
    <2>3. chip.ep1 = 0
      BY <2>2 DEF Slots, Resetting
    <2> QED BY <1>0, <2>1, <2>3, Emptied
  <1> QED BY <1>1, <1>2, <1>3, <1>4, <1>5, <1>6, <1>7 DEF IsrStep

LEMMA HostSlots == ASSUME Typed, Slots, HostStep PROVE Slots'
  <1>1. UNCHANGED <<dcp, snap, pc, bufferAvailable, dev, ist, reopened>>
    BY DEF HostStep, HostMoves, HostSetup, HostTakeData, HostSendData, HostStatusOut,
           HostStatusIn, HostSeesStall, HostPoll, HostReset, HostSuspendOrResume,
           firmwareVars, pipeVars, loopVars, gateVars, isrVars
  <1>2. /\ chip.ep1 \in Nat /\ bufferAvailable \in BOOLEAN /\ Completion \in BOOLEAN
        /\ Completion' \in BOOLEAN /\ dev.hid \in {"reset", "connected"}
    BY DEF Typed, ChipType, LoopTypeOK, PipeTypeOK, Device, Completion
  <1>3. CASE HostPoll
    <2>1. /\ chip'.ep1 = chip.ep1 - 1 /\ chip.ep1 > 0 /\ chip'.int = chip.int \cup {"EP01"}
      BY <1>3 DEF HostPoll, Typed, ChipType
    <2>2. dev.hid = "connected"
            => chip'.ep1 + One(bufferAvailable') + One(Completion') <= EP1_FIFO_SLOTS
      <3>1. Completion' = TRUE
        BY <2>1 DEF Completion
      <3>2. dev.hid = "connected"
              => (chip.ep1 - 1) + One(bufferAvailable) + One(TRUE) <= EP1_FIFO_SLOTS
        BY <1>2, <2>1, OneFacts DEF Slots
      <3> QED BY <3>1, <3>2, <1>1, <2>1
    <2>3. ~Resetting'
      <3>1. chip.ep1 # 0
        BY <1>2, <2>1
      <3>2. ~Resetting
        BY <3>1 DEF Slots
      <3> QED BY <3>2, <1>1, <2>1 DEF Resetting
    <2>4. dev.hid = "reset" => chip'.ep1 = 0
      BY <1>2, <2>1 DEF Slots
    <2>5. chip'.ep1 = 0 => chip'.ep1 <= 1 /\ chip'.ep1 # 1
      OBVIOUS
    <2> QED BY <1>1, <2>2, <2>3, <2>4, <2>5 DEF Slots
  <1>4. CASE HostReset
    <2>1. PICK stale : chip' = [chip EXCEPT !.int = stale \cup {"BUSRESET"}, !.out = 0,
                   !.isSetup = FALSE, !.ovwr = FALSE, !.acked = TRUE, !.in = {}, !.halt = {},
                   !.ep1 = 0]
      BY <1>4 DEF HostReset
    <2>2. chip'.ep1 = 0
      BY <2>1 DEF Typed, ChipType
    <2> QED BY <1>1, <1>2, <2>2, Emptied
  <1>5. CASE ~HostPoll /\ ~HostReset
    <2> DEFINE Raised == {"EP0OUT", "EP0IN", "SUSPEND", "RESUME"}
    <2>1. \/ chip'.int = chip.int
          \/ \E s \in Raised : chip'.int = chip.int \cup {s}
      <3>1. CASE \E r \in Requests : HostSetup(r)
        BY <3>1 DEF HostSetup, Typed, ChipType
      <3>2. CASE HostMoves
        BY <3>2 DEF HostMoves, HostTakeData, HostSendData, HostStatusOut, HostStatusIn,
                    HostSeesStall, Typed, ChipType
      <3>3. CASE HostSuspendOrResume
        BY <3>3 DEF HostSuspendOrResume, Typed, ChipType
      <3> QED BY <1>5, <3>1, <3>2, <3>3 DEF HostStep
    <2>2. chip'.ep1 = chip.ep1
      BY <1>5
         DEF HostStep, HostMoves, HostSetup, HostTakeData, HostSendData, HostStatusOut,
             HostStatusIn, HostSeesStall, HostSuspendOrResume, Typed, ChipType
    <2>3. Completion' = Completion /\ LastCompletion' = LastCompletion
          /\ (Resetting' => Resetting)
      BY <1>1, <2>1 DEF Completion, LastCompletion, Held, Resetting
    <2> QED BY <1>1, <2>2, <2>3, Settled
  <1> QED BY <1>3, <1>4, <1>5

LEMMA GateKeeps == ASSUME Gate, Next PROVE Gate'
  <1>1. CASE MainStep \/ OpenGate
    <2>1. UNCHANGED <<inIsr, ist>>
      BY <1>1 DEF MainStep, CheckSuspend, CheckSetup, SetupEnter, SetupRead, SetupLength,
                  SetupAck, SetupLateAck, SetupStall, SetupStallNote, CheckRequest,
                  RequestEnter, RequestRun, Connect, InterfaceReply, InterfaceNote, CheckEp1,
                  Ep1Load, Ep1Store, CheckReport, SendReport, CheckReset, OpenGate, gateVars,
                  isrVars
    <2> QED BY <2>1 DEF Gate
  <1>2. CASE IsrStep
    BY <1>2 DEF IsrStep, IsrEnter, IsrBusReset, IsrSuspendChange, IsrResume, Isr_Ep00RxDone,
                Isr_Ep00TxDone, Isr_Ep01Done, Serve, IsrLoad, IsrStore, IsrResetState,
                gateVars, isrVars, Gate
  <1>3. CASE HostStep
    BY <1>3 DEF HostStep, HostMoves, HostSetup, HostTakeData, HostSendData, HostStatusOut,
                HostStatusIn, HostSeesStall, HostPoll, HostReset, HostSuspendOrResume,
                firmwareVars, gateVars, isrVars, Gate
  <1> QED BY <1>1, <1>2, <1>3 DEF Next

LEMMA Ep1Inductive == IInv /\ Ep1Inv /\ [Next]_vars => Ep1Inv'
  <1> SUFFICES ASSUME IInv, Ep1Inv, [Next]_vars PROVE Ep1Inv'
    OBVIOUS
  <1>1. Typed
    BY TypedIsTypeOK DEF IInv
  <1>2. CASE Next
    <2>1. ASSUME OpenGate PROVE Slots'
      <3>1. UNCHANGED <<dcp, dev, pc, snap, bufferAvailable, ist, reopened, chip>>
        BY <2>1 DEF OpenGate, pipeVars, loopVars, isrVars
      <3> QED BY <3>1 DEF Ep1Inv, Slots, Completion, LastCompletion, Held, Resetting
    <2> QED BY <1>1, <1>2, <2>1, MainSlots, IsrSlots, HostSlots, GateKeeps DEF Ep1Inv, Next
  <1>3. CASE UNCHANGED vars
    BY <1>3 DEF vars, Ep1Inv, Gate, Slots, Completion, LastCompletion, Held, Resetting
  <1> QED BY <1>2, <1>3

LEMMA Ep1Begins == Init => Ep1Inv
  <1> SUFFICES ASSUME Init PROVE Ep1Inv
    OBVIOUS
  <1>1. /\ Gate /\ chip.ep1 = 0 /\ chip.int = {} /\ ist = {} /\ dev.hid = "reset"
        /\ reopened = <<>>
    BY DEF Init, Gate
  <1>2. chip.ep1 <= 1 /\ chip.ep1 # 1
    BY <1>1
  <1> QED BY <1>1, <1>2 DEF Ep1Inv, Slots

\* bufferAvailable is enough: the main loop never writes a report to endpoint 1 while both
\* of its buffers are full, although a reset gives the place away unasked and the completion
\* of a report of before may still be on its way.
THEOREM Endpoint1NotOverrun == Spec => []Ep1NotOverrun
  <1>1. IInv /\ Ep1Inv => Ep1NotOverrun
    <2> SUFFICES ASSUME IInv, Ep1Inv PROVE Ep1NotOverrun
      OBVIOUS
    <2>1. /\ chip.ep1 \in Nat /\ bufferAvailable \in BOOLEAN /\ Completion \in BOOLEAN
          /\ dev.hid \in {"reset", "connected"}
      BY TypedIsTypeOK
         DEF IInv, Typed, ChipType, LoopTypeOK, PipeTypeOK, Device, Completion
    <2>2. One(bufferAvailable) \in 0..1 /\ One(Completion) \in 0..1
      BY <2>1, OneFacts
    <2>3. \/ chip.ep1 <= 1
          \/ chip.ep1 + One(bufferAvailable) + One(Completion) <= EP1_FIFO_SLOTS
      BY <2>1 DEF Ep1Inv, Slots
    <2> QED BY <2>1, <2>2, <2>3 DEF Ep1NotOverrun, EP1_FIFO_SLOTS
  <1>2. Spec => []Ep1Inv
    BY Always, Ep1Begins, Ep1Inductive, PTL DEF Spec
  <1> QED BY Always, <1>1, <1>2, PTL
-----------------------------------------------------------------------------
(* The device states, for a host that keeps the order of chapter 9.  That  *)
(* a request fits the device is known when the host sends it; it is served *)
(* much later, and other requests in between.  The invariant says that the *)
(* device then still is in the state it was sent to: a SETUP not yet read  *)
(* is the host's last (Whole), and a request not yet served is the host's  *)
(* current one, of which the host has seen nothing yet (Alone), or the     *)
(* reading of a descriptor, which changes nothing and refuses nothing.     *)

Halted == chip.halt \cap {0, 1} # {}

Enumerating == MaxResets = 0 /\ MaxReports = 0

\* DCP_state is in S, and stays there when the read-modify-write under way stores what it has
\* read.
Sure(S) == dcp \in S /\ \A f \in snap : f.dcp \in S

\* Exactly one state bit, in agreement with GetConfiguration.
Ordered(d) ==
  /\ d.config <=> d.configuration = 1
  /\ d.default <=> ~(d.address \/ d.config)
  /\ ~(d.address /\ d.config)

\* What neither resets nor reports leave out, and the gate.
Unhurried ==
  /\ left.reports = 0 /\ left.resets = 0 /\ chip.ep1 = 0
  /\ "EP01" \notin chip.int \cup ist /\ "BUSRESET" \notin chip.int \cup ist
  /\ ist \cap EndpointSources \subseteq chip.int
  /\ ~inIsr => ist = {}
  /\ ~Held({"INTR1DONE"})
  /\ gate = "closed" <=> pc \in {"setupRead", "setupAck", "requestRun"}
  /\ gate = "closed" => ~inIsr
  /\ pc \notin {"setupStall", "setupStallNote", "interface", "interfaceNote", "ep1Load",
                "ep1Store"}
  /\ reopened \in Seq({"At_IRQL1"})
  /\ \A f \in snap : f.configuration = dev.configuration

SetupWaits == "EP0OUT" \in chip.int /\ chip.isSetup

\* A SETUP that the main loop has still to read, or takes for one.
Unread == SetupWaits \/ Held({"SETUPPROC"}) \/ pc \in {"setupEnter", "setupRead"}

Whole ==
  /\ chip.isSetup /\ chip.out = 8 /\ ~chip.acked /\ chip.in = {} /\ ~Halted
  /\ chip.setup = host.req /\ host.req \in Requests /\ host.phase = FirstPhase(host.req)
  /\ Fits(host.req, dev)

\* A request that has been read and may still be served.
Reading == {"setupLength", "setupAck", "setupLateAck", "requestEnter", "requestRun"}
Unserved == pc \in Reading \/ Held({"DATAOUT", "REQUESTPROC"})

Alone ==
  /\ req = host.req /\ host.phase \in {"dataIn", "dataOut", "statusIn"}
  /\ chip.in = {} /\ ~Halted /\ Fits(req, dev)
  /\ pc # "setupLength" => ~SetupWaits
  /\ pc \notin {"setupLength", "setupAck"} => ~Held({"SETUPPROC"})
  /\ pc \in {"setupLateAck", "requestEnter"} => Sure({"DATAOUT", "REQUESTPROC"})

Stages ==
  /\ pc \in {"setupEnter", "setupRead", "setupLength", "setupAck"} => Sure({"SETUPPROC"})
  /\ pc \in {"setupRead", "setupLength", "setupAck"} => ~chip.acked
  /\ pc = "setupAck" /\ SetupWaits => chip.ovwr
  /\ pc = "setupLateAck" => ~req.in
  /\ pc = "requestRun" => dcp = "IDLE"
  /\ Held({"DATAOUT", "REQUESTPROC"}) => dcp \in {"DATAOUT", "REQUESTPROC", "SETUPPROC"}
  /\ HandlerOf(req) \in SettingHandlers => ~req.in

OrderInv ==
  /\ Unhurried /\ Ordered(dev) /\ Stages
  /\ Unread => Whole
  /\ Unserved => Readable(req) \/ Alone

LEMMA OrderedIsOneState ==
  ASSUME dev \in Device, Ordered(dev) PROVE OneDeviceState /\ ConfigurationAgrees
  <1> DEFINE Set == {b \in {"default", "address", "config"} : dev[b]}
  <1>1. Set = {"default"} \/ Set = {"address"} \/ Set = {"config"}
    BY DEF Ordered, Device
  <1>2. \A b : Cardinality({b}) = 1
    BY FS_Singleton
  <1> QED BY <1>1, <1>2 DEF OneDeviceState, ConfigurationAgrees, Ordered

\* A descriptor is there or not, whatever state the device is in.
LEMMA DescriptorKind ==
  \A r, d, e, h, g : GetDescriptor(r, d, h).kind = GetDescriptor(r, e, g).kind
  BY DEF GetDescriptor, Burst, Silence, StallEP0, Answer

\* Reading a descriptor that there is leaves the device and the endpoints alone.
LEMMA ReadableAnswer ==
  ASSUME Readable(req), NEW h, NEW aborted
  PROVE  /\ DeviceRequest(req, dev, h, aborted) = GetDescriptor(req, dev, h)
         /\ GetDescriptor(req, dev, h).kind = "burst"
         /\ GetDescriptor(req, dev, h).dev = dev
         /\ GetDescriptor(req, dev, h).halt = h
  <1>1. DeviceRequest(req, dev, h, aborted) = GetDescriptor(req, dev, h)
    BY DEF Readable, DeviceRequest, SilentHandlers
  <1>2. GetDescriptor(req, dev, h).kind = "burst"
    BY DescriptorKind DEF Readable
  <1>3. GetDescriptor(req, dev, h).dev = dev /\ GetDescriptor(req, dev, h).halt = h
    BY <1>2 DEF GetDescriptor, Burst, Silence, StallEP0, Answer
  <1> QED BY <1>1, <1>2, <1>3

LEMMA ReadableStays == ASSUME req' = req, Readable(req) PROVE Readable(req)'
  BY DescriptorKind DEF Readable

LEMMA FitsStays ==
  ASSUME NEW r, dev'.config = dev.config, dev'.default = dev.default, Fits(r, dev)
  PROVE  Fits(r, dev')
  BY DEF Fits

\* Every request that fits leaves the device in one state.
LEMMA RequestOrdered ==
  ASSUME NEW r \in Request, NEW d \in Device, NEW h \in Halts, NEW aborted \in BOOLEAN,
         Ordered(d), Fits(r, d)
  PROVE  Ordered(DeviceRequest(r, d, h, aborted).dev)
  <1> USE DEF Answer, Silence, Single, Burst, StallEP0
  <1> DEFINE Same(a) == /\ a.dev.default = d.default /\ a.dev.address = d.address
                        /\ a.dev.config = d.config /\ a.dev.configuration = d.configuration
  <1>1. Same(GetStatus(r, d, h)) /\ Same(GetConfiguration(r, d, h))
        /\ Same(GetInterface(r, d, h)) /\ Same(GetDescriptor(r, d, h))
        /\ Same(HID_Get_Report(r, d, h)) /\ Same(Silence(d, h)) /\ Same(StallEP0(d, h))
    BY DEF GetStatus, GetConfiguration, GetInterface, GetDescriptor, HID_Get_Report
  <1>2. Same(ClearFeature(r, d, h)) /\ Same(SetFeature(r, d, h))
    BY DEF ClearFeature, SetFeature, Device
  <1>3. Same(SetInterface(r, d, h)) /\ Same(HID_Set_Idle(r, d, h))
    BY DEF SetInterface, HID_Set_Idle, Device
  <1>4. HandlerOf(r) = "SetAddress" => Ordered(SetAddress(r, d, h, aborted).dev)
    BY DEF SetAddress, Addressed, Device, Fits, Ordered
  <1>5. HandlerOf(r) = "SetConfiguration" => Ordered(SetConfiguration(r, d, h).dev)
    BY DEF SetConfiguration, Configured, Unconfigured, Device, Fits, Ordered
  <1>6. \A a : Same(a) => Ordered(a.dev)
    BY DEF Ordered
  <1> HIDE DEF Same
  <1> QED BY <1>1, <1>2, <1>3, <1>4, <1>5, <1>6 DEF DeviceRequest

LEMMA OrderTypes ==
  ASSUME IInv
  PROVE  /\ chip \in ChipType /\ host \in HostType /\ left \in LeftType /\ dev \in Device
         /\ req \in Request /\ host.req \in Request /\ abort \in BOOLEAN /\ wLength \in Nat
         /\ chip.halt \in Halts
  BY TypedIsTypeOK, RequestsTyped DEF IInv, Typed, PipeTypeOK, HostType, ChipType, AnyRequest

LEMMA FirstPhases ==
  ASSUME NEW r \in Request PROVE FirstPhase(r) \in {"dataIn", "dataOut", "statusIn"}
  BY DEF FirstPhase, Request

\* At a step of the main loop with the gate open nothing asks for an interrupt.
LEMMA NothingWaits ==
  ASSUME IInv, OrderInv, NEW l, At(l)
  PROVE  /\ pc = l /\ ~inIsr /\ ist = {} /\ snap = {} /\ gate # "opening"
         /\ l \notin {"setupRead", "setupAck", "requestRun"}
              => gate = "open" /\ chip.int = {} /\ ~SetupWaits
  BY AtFacts DEF OrderInv, Unhurried, SetupWaits, Held

\* The steps that take the main loop past the pipe.
Passing ==
  \/ CheckSuspend \/ CheckSetup \/ CheckRequest \/ Connect \/ CheckEp1 \/ CheckReport
  \/ SendReport \/ CheckReset

LEMMA PassingKeepsOrder == ASSUME IInv, OrderInv, Passing PROVE OrderInv'
  <1>0. snap = {} /\ gate # "closed"
    <2>1. \E l \in {"suspend", "setup", "request", "connect", "ep1", "report", "send",
                    "resetCheck"} : At(l)
      BY DEF Passing, CheckSuspend, CheckSetup, CheckRequest, Connect, CheckEp1, CheckReport,
             SendReport, CheckReset
    <2> QED BY <2>1, NothingWaits
  <1>1. /\ UNCHANGED <<dcp, snap, req, abort, inIsr, ist, reopened, host, chip, left>>
        /\ gate' # "closed"
        /\ dev'.default = dev.default /\ dev'.address = dev.address
        /\ dev'.config = dev.config /\ dev'.configuration = dev.configuration
    <2>1. left.reports = 0
      BY DEF OrderInv, Unhurried, Held
    <2>2. dev \in Device /\ left.reports \in Nat
      BY <2>1, OrderTypes
    <2> QED BY <1>0, <2>1, <2>2
            DEF Passing, CheckSuspend, CheckSetup, CheckRequest, Connect, CheckEp1, CheckReport,
                SendReport, CheckReset, pipeVars, gateVars, isrVars, Device
  <1>2. /\ pc \in {"suspend", "setup", "request", "connect", "ep1", "report", "send", "resetCheck"}
        /\ pc' \in {"setup", "setupEnter", "request", "requestEnter", "ep1", "report",
                    "send", "suspend", "resetCheck"}
        /\ pc' = "setupEnter" => dcp = "SETUPPROC"
        /\ pc' = "requestEnter" => dcp = "REQUESTPROC"
    <2>1. dcp # "INTR1DONE"
      BY DEF OrderInv, Unhurried, Held
    <2> QED BY <2>1 DEF Passing, CheckSuspend, CheckSetup, CheckRequest, Connect, CheckEp1,
                    CheckReport, SendReport, CheckReset, At
  <1>3. Unhurried' /\ Stages' /\ Ordered(dev)'
    BY <1>0, <1>1, <1>2 DEF OrderInv, Unhurried, Stages, Ordered, SetupWaits, Held, Sure
  <1>4. Unread' => Unread
    BY <1>1, <1>2 DEF Unread, SetupWaits, Held
  <1>5. Whole => Whole'
    BY <1>1, FitsStays DEF Whole, Halted
  <1>6. Unserved' => Unserved
    BY <1>1, <1>2 DEF Unserved, Reading, Held
  <1>7. Readable(req) => Readable(req)'
    BY <1>1, ReadableStays
  <1>8. Alone => Alone'
    BY <1>0, <1>1, <1>2, FitsStays DEF Alone, Halted, SetupWaits, Held, Sure
  <1> QED BY <1>3, <1>4, <1>5, <1>6, <1>7, <1>8 DEF OrderInv

\* The SETUP that the chip holds is the host's, whole and not overwritten.
LEMMA SetupReadKeepsOrder ==
  ASSUME IInv, OrderInv, SetupEnter \/ SetupRead \/ SetupLength PROVE OrderInv'
  <1>1. UNCHANGED <<dcp, snap, inIsr, ist, reopened, host, left, dev>>
    BY DEF SetupEnter, SetupRead, SetupLength, isrVars
  <1>2. CASE SetupEnter
    <2>1. pc = "setupEnter" /\ pc' = "setupRead" /\ gate' = "closed" /\ ~inIsr
          /\ UNCHANGED <<req, chip>>
      BY <1>2 DEF SetupEnter, At
    <2>2. Unread /\ Whole /\ dcp = "SETUPPROC" /\ ~SetupWaits /\ snap = {}
      BY <1>2, <2>1, NothingWaits DEF SetupEnter, OrderInv, Unread, Stages, Held, Sure
    <2>3. Whole' /\ Stages' /\ Unhurried'
      BY <1>1, <2>1, <2>2 DEF OrderInv, Whole, Halted, Stages, Unhurried, Held, Sure
    <2>4. ~Unserved'
      BY <1>1, <2>1, <2>2 DEF Unserved, Reading, Held
    <2> QED BY <1>1, <2>3, <2>4 DEF OrderInv
  <1>3. CASE SetupRead
    <2>1. pc = "setupRead" /\ gate' = "opening"
      BY <1>3 DEF SetupRead, At
    <2>2. Whole /\ Sure({"SETUPPROC"})
      BY <2>1 DEF OrderInv, Unread, Stages, Held, Sure
    <2>3. req' = host.req /\ chip' = chip /\ pc' = "setupLength"
      BY <1>3, <2>2 DEF SetupRead, Whole
    <2>4. Whole' /\ Unhurried'
      BY <1>1, <2>1, <2>2, <2>3 DEF OrderInv, Whole, Halted, Unhurried, Held
    <2>5. Stages'
      BY <1>1, <2>2, <2>3 DEF Stages, Whole, Fits, Held, Sure
    <2>6. Alone'
      BY <1>1, <2>2, <2>3, FirstPhases, OrderTypes DEF Alone, Whole, Halted, Held, Sure
    <2> QED BY <1>1, <2>4, <2>5, <2>6 DEF OrderInv
  <1>4. CASE SetupLength
    <2>1. pc = "setupLength" /\ pc' = "setupAck" /\ gate' = "closed" /\ ~inIsr
          /\ UNCHANGED <<req, chip>>
      BY <1>4 DEF SetupLength, At
    <2>2. Unread /\ Whole /\ dcp = "SETUPPROC" /\ ~SetupWaits /\ ~chip.acked
      BY <1>4, <2>1, NothingWaits DEF SetupLength, OrderInv, Unread, Stages, Held, Sure
    <2>3. Whole' /\ Stages' /\ Unhurried' /\ ~SetupWaits'
      BY <1>1, <2>1, <2>2 DEF OrderInv, Whole, Halted, Stages, Unhurried, SetupWaits, Held, Sure
    <2>4. Unserved /\ (Readable(req) \/ Alone)
      BY <2>1 DEF OrderInv, Unserved, Reading, Held
    <2>5. Readable(req) => Readable(req)'
      BY <2>1, ReadableStays
    <2>6. Alone => Alone'
      BY <1>1, <2>1, <2>2, <2>3 DEF Alone, Halted, Held, Sure
    <2> QED BY <1>1, <2>3, <2>4, <2>5, <2>6 DEF OrderInv
  <1> QED BY <1>2, <1>3, <1>4

\* The acknowledgement lets the answer into endpoint 0, unless another SETUP has come: that
\* one is then still to be read.
LEMMA SetupAckKeepsOrder ==
  ASSUME IInv, OrderInv, SetupAck \/ SetupLateAck PROVE OrderInv'
  <1>1. /\ UNCHANGED <<req, snap, inIsr, ist, reopened, host, left, dev, abort>>
        /\ snap = {} /\ chip \in ChipType /\ Acknowledge(chip) \in ChipType
    <2>1. snap = {}
      BY NothingWaits DEF SetupAck, SetupLateAck
    <2> QED BY <2>1, OrderTypes, AcknowledgeType
            DEF SetupAck, SetupLateAck, pipeVars, gateVars, isrVars
  <1>2. \A c \in ChipType : \A h :
          /\ [c EXCEPT !.halt = h].halt = h
          /\ [c EXCEPT !.halt = h].int = c.int /\ [c EXCEPT !.halt = h].ep1 = c.ep1
          /\ [c EXCEPT !.halt = h].in = c.in /\ [c EXCEPT !.halt = h].isSetup = c.isSetup
    BY DEF ChipType
  <1>3. /\ Acknowledge(chip).int = chip.int /\ Acknowledge(chip).ep1 = chip.ep1
        /\ Acknowledge(chip).in = chip.in /\ Acknowledge(chip).isSetup = chip.isSetup
        /\ Acknowledge(chip).halt = chip.halt
        /\ chip.ovwr => Acknowledge(chip) = chip
    BY <1>1 DEF Acknowledge, ChipType
  <1>4. /\ chip'.int = chip.int /\ chip'.ep1 = chip.ep1 /\ chip'.in = chip.in
        /\ chip'.isSetup = chip.isSetup
    <2>1. \/ chip' = Acknowledge(chip) \/ chip' = chip
          \/ chip' = [Acknowledge(chip) EXCEPT !.halt = Acknowledge(chip).halt \cup {0, 1}]
      <3>1. CASE SetupAck
        BY <3>1 DEF SetupAck
      <3>2. CASE SetupLateAck
        BY <3>2 DEF SetupLateAck
      <3> QED BY <3>1, <3>2
    <2>0. PICK k : k = Acknowledge(chip)
      OBVIOUS
    <2>2. k \in ChipType /\ k.int = chip.int /\ k.ep1 = chip.ep1 /\ k.in = chip.in
          /\ k.isSetup = chip.isSetup
      BY <1>1, <1>3, <2>0
    <2>3. chip' = k \/ chip' = chip \/ \E h : chip' = [k EXCEPT !.halt = h]
      BY <2>0, <2>1
    <2>4. CASE chip' = k \/ chip' = chip
      BY <2>2, <2>4
    <2>5. CASE \E h : chip' = [k EXCEPT !.halt = h]
      <3>1. PICK h : chip' = [k EXCEPT !.halt = h]
        BY <2>5
      <3>2. [k EXCEPT !.halt = h].int = k.int /\ [k EXCEPT !.halt = h].ep1 = k.ep1
            /\ [k EXCEPT !.halt = h].in = k.in /\ [k EXCEPT !.halt = h].isSetup = k.isSetup
        BY <1>2, <2>2
      <3> QED BY <2>2, <3>1, <3>2
    <2> QED BY <2>3, <2>4, <2>5
  <1>5. SetupWaits' <=> SetupWaits
    BY <1>4 DEF SetupWaits
  <1>6. CASE SetupLateAck
    <2>1. pc = "setupLateAck" /\ pc' = "request" /\ UNCHANGED <<dcp, gate>>
          /\ chip' = Acknowledge(chip)
      BY <1>6 DEF SetupLateAck, At, pipeVars, gateVars
    <2>2. ~Readable(req) /\ Alone
      BY <2>1 DEF OrderInv, Stages, Unserved, Reading, Readable, Held, Sure
    <2>3. ~Unread'
      BY <1>1, <1>5, <2>1, <2>2 DEF Unread, Alone, Held, Sure
    <2>4. Alone'
      BY <1>1, <1>3, <1>4, <1>5, <2>1, <2>2 DEF Alone, Halted, Held, Sure
    <2>5. Unhurried' /\ Stages'
      BY <1>1, <1>4, <2>1 DEF OrderInv, Unhurried, Stages, Held, Sure
    <2> QED BY <1>1, <2>3, <2>4, <2>5 DEF OrderInv
  <1>7. CASE SetupAck
    <2>1. /\ pc = "setupAck" /\ gate' = "opening" /\ pc' \in {"request", "setupLateAck"}
          /\ dcp' \in {"HANDSHAKE", "REQUESTPROC", "DATAOUT", "STALL"}
          /\ pc' = "setupLateAck" => dcp' = "DATAOUT" /\ ~req.in
      BY <1>7 DEF SetupAck, At
    <2>2. Readable(req) \/ Alone
      BY <2>1 DEF OrderInv, Unserved, Reading, Held
    <2>3. dcp' \in {"REQUESTPROC", "DATAOUT"} => chip'.halt = chip.halt
      BY <1>3, <1>7 DEF SetupAck
    <2>4. Unhurried' /\ Stages'
      BY <1>1, <1>4, <2>1 DEF OrderInv, Unhurried, Stages, Held, Sure
    <2>5. Readable(req) => Readable(req)' /\ req.in
      BY <1>1, ReadableStays DEF Readable
    <2>6. Alone /\ Unserved' => Alone'
      <3>1. Unserved' => dcp' \in {"REQUESTPROC", "DATAOUT"}
        BY <1>1, <2>1 DEF Unserved, Reading, Held
      <3> QED BY <1>1, <1>4, <1>5, <2>1, <2>3, <3>1 DEF Alone, Halted, Held, Sure
    <2>7. Unread' => Whole'
      <3> SUFFICES ASSUME Unread' PROVE Whole'
        OBVIOUS
      <3>1. SetupWaits
        BY <1>1, <1>5, <2>1 DEF Unread, Held
      <3>2. chip.ovwr /\ Whole
        BY <2>1, <3>1 DEF OrderInv, Stages, Unread, Held, Sure
      <3>3. Readable(req) /\ req.in
        BY <2>1, <2>2, <2>5, <3>1 DEF Alone, Held, Sure
      <3>4. chip' = chip
        BY <1>3, <1>7, <3>2, <3>3 DEF SetupAck
      <3> QED BY <1>1, <3>2, <3>4 DEF Whole, Halted
    <2> QED BY <1>1, <2>2, <2>4, <2>5, <2>6, <2>7 DEF OrderInv
  <1> QED BY <1>6, <1>7

\* What is in hand is served. The reading of a descriptor answers nobody while another SETUP
\* waits; everything else is the host's own request, and it fits.
LEMMA RequestKeepsOrder ==
  ASSUME IInv, OrderInv, RequestEnter \/ RequestRun PROVE OrderInv'
  <1>1. UNCHANGED <<req, snap, inIsr, ist, reopened, host, left, abort>> /\ snap = {}
    BY NothingWaits DEF RequestEnter, RequestRun, isrVars
  <1>2. CASE RequestEnter
    <2>1. /\ pc = "requestEnter" /\ pc' = "requestRun" /\ gate' = "closed" /\ dcp' = "IDLE"
          /\ ~inIsr /\ UNCHANGED <<chip, dev>>
      BY <1>2 DEF RequestEnter, At
    <2>2. ~SetupWaits /\ ~SetupWaits'
      BY <1>2, <2>1, NothingWaits DEF RequestEnter, OrderInv, SetupWaits
    <2>3. ~Unread' /\ Stages' /\ Unhurried'
      BY <1>1, <2>1, <2>2 DEF OrderInv, Unread, Stages, Unhurried, Held, Sure
    <2>4. Readable(req) \/ Alone
      BY <2>1 DEF OrderInv, Unserved, Reading, Held
    <2>5. Readable(req) => Readable(req)'
      BY <1>1, ReadableStays
    <2>6. Alone => Alone'
      BY <1>1, <2>1, <2>2 DEF Alone, Halted, Held, Sure
    <2> QED BY <2>1, <2>3, <2>4, <2>5, <2>6 DEF OrderInv
  <1>3. CASE RequestRun
    <2> DEFINE a == DeviceRequest(req, dev, chip.halt, abort)
               c == IF HandlerOf(req) = "ML_Reserved" /\ chip.acked
                    THEN [chip EXCEPT !.out = 0] ELSE chip
    <2>1. /\ pc = "requestRun" /\ gate' = "opening" /\ ~inIsr /\ dcp = "IDLE"
          /\ chip' = Transmit(c, a.kind, a.len, a.halt) /\ dev' = a.dev
          /\ Note(a.kind, a.len, dcp)
      BY <1>3 DEF RequestRun, At, OrderInv, Stages, Held, Sure
    <2>2. pc' \in {"connect", "ep1"}
      BY <1>3, <2>1 DEF RequestRun, OrderInv, Stages, SettingHandlers, Held, Sure
    <2>3. dcp' \in {"IDLE", "HANDSHAKE", "STALL", "DATAIN"}
      BY <2>1 DEF Note, NoteBurst
    <2>4. ~Unserved' /\ Stages'
      BY <1>1, <2>2, <2>3 DEF Unserved, Reading, OrderInv, Stages, Held, Sure
    <2>5. c \in ChipType /\ c.int = chip.int /\ c.ep1 = chip.ep1 /\ c.isSetup = chip.isSetup
      BY OrderTypes, EmptyOutType DEF ChipType
    <2>6. Sound(a, dev)
      BY OrderTypes, DeviceRequestSound
    <2>7. [c EXCEPT !.halt = a.halt] \in ChipType
      BY <2>5, <2>6, HaltType DEF Sound, AnswerType
    <2>8. chip'.int = c.int /\ chip'.ep1 = c.ep1 /\ chip'.isSetup = c.isSetup
      <3> DEFINE h == [c EXCEPT !.halt = a.halt]
      <3>1. h.int = c.int /\ h.ep1 = c.ep1 /\ h.isSetup = c.isSetup
        BY <2>5 DEF ChipType
      <3>2. \A n : LET w == WriteIn(h, n) IN w.int = h.int /\ w.ep1 = h.ep1 /\ w.isSetup = h.isSetup
        BY <2>7 DEF WriteIn, ChipType
      <3>3. chip' = h \/ \E n : chip' = WriteIn(h, n)
        BY <2>1 DEF Transmit
      <3> HIDE DEF h
      <3> QED BY <3>1, <3>2, <3>3
    <2>9. SetupWaits' <=> SetupWaits
      BY <2>5, <2>8 DEF SetupWaits
    <2>10. Unhurried'
      BY <1>1, <2>1, <2>2, <2>3, <2>5, <2>8 DEF OrderInv, Unhurried, Held
    <2>11. Unread' => SetupWaits
      BY <1>1, <2>2, <2>3, <2>9 DEF Unread, Held
    <2>12. Readable(req) \/ Alone
      BY <2>1 DEF OrderInv, Unserved, Reading, Held
    <2>13. CASE Readable(req)
      <3>1. a.kind = "burst" /\ a.dev = dev /\ a.halt = chip.halt
        BY <2>13, ReadableAnswer
      <3>2. HandlerOf(req) # "ML_Reserved"
        BY <2>13 DEF Readable
      <3>3. Unread' => Whole /\ ~chip.acked
        BY <2>11 DEF OrderInv, Unread, Whole, Held
      <3>4. ~chip.acked => chip' = chip
        <4> HIDE DEF a
        <4>1. chip' = Transmit(chip, a.kind, a.len, chip.halt)
          BY <2>1, <3>1, <3>2
        <4>2. [chip EXCEPT !.halt = chip.halt] = chip
          BY OrderTypes DEF ChipType
        <4> QED BY <3>1, <4>1, <4>2 DEF Transmit, WriteIn
      <3>5. Unread' => Whole'
        BY <1>1, <2>1, <3>1, <3>3, <3>4 DEF Whole, Halted
      <3>6. Ordered(dev)'
        BY <2>1, <3>1 DEF OrderInv
      <3> QED BY <2>4, <2>10, <3>5, <3>6 DEF OrderInv
    <2>14. CASE Alone
      <3>1. ~Unread'
        BY <2>1, <2>11, <2>14 DEF Alone, Held, Sure
      <3>2. Ordered(dev)'
        BY <2>1, <2>14, OrderTypes, RequestOrdered DEF OrderInv, Alone, Held, Sure
      <3> QED BY <2>4, <2>10, <3>1, <3>2 DEF OrderInv
    <2> QED BY <2>12, <2>13, <2>14
  <1> QED BY <1>2, <1>3

LEMMA MainKeepsOrder == ASSUME IInv, OrderInv, MainStep PROVE OrderInv'
  <1>1. pc \notin {"setupStall", "setupStallNote", "interface", "interfaceNote", "ep1Load",
                 "ep1Store"}
    BY DEF OrderInv, Unhurried, Held
  <1>2. ~(SetupStall \/ SetupStallNote \/ InterfaceReply \/ InterfaceNote \/ Ep1Load \/ Ep1Store)
    BY <1>1 DEF SetupStall, SetupStallNote, InterfaceReply, InterfaceNote, Ep1Load, Ep1Store, At
  <1> QED BY <1>2, PassingKeepsOrder, SetupReadKeepsOrder, SetupAckKeepsOrder, RequestKeepsOrder
          DEF MainStep, Passing

\* The steps of the handler that look at no endpoint.
LEMMA DeviceSourceKeepsOrder ==
  ASSUME IInv, OrderInv, IsrEnter \/ IsrSuspendChange \/ IsrResume PROVE OrderInv'
  <1>1. /\ UNCHANGED <<dcp, snap, req, dev, pc, gate, host, left>>
        /\ reopened' = reopened \/ GoesOnAt("At_IRQL1")
    BY DEF IsrEnter, IsrSuspendChange, IsrResume, pipeVars, loopVars
  <1>2. /\ chip'.int \in {chip.int, chip.int \cap EndpointSources}
        /\ chip'.ep1 = chip.ep1 /\ chip'.isSetup = chip.isSetup /\ chip'.out = chip.out
        /\ chip'.acked = chip.acked /\ chip'.in = chip.in /\ chip'.halt = chip.halt
        /\ chip'.setup = chip.setup /\ chip'.ovwr = chip.ovwr
    <2>1. chip \in ChipType
      BY OrderTypes
    <2> QED BY <2>1 DEF IsrEnter, IsrSuspendChange, IsrResume, ChipType
  <1>3. /\ ist' \in {{}, chip.int} /\ (inIsr' => gate # "closed") /\ (~inIsr' => ist' = {})
        /\ ist' # {} => chip'.int = chip.int \cap EndpointSources
    <2>1. chip \in ChipType
      BY OrderTypes
    <2>2. CASE IsrEnter
      BY <2>1, <2>2 DEF IsrEnter, Preempted, ChipType
    <2>3. CASE IsrSuspendChange \/ IsrResume
      BY <2>3 DEF IsrSuspendChange, IsrResume
    <2> QED BY <2>2, <2>3
  <1>4. "EP0OUT" \in chip'.int <=> "EP0OUT" \in chip.int
    BY <1>2 DEF EndpointSources
  <1>5. Unhurried'
    <2>1. reopened' \in Seq({"At_IRQL1"})
      BY <1>1, GoesOnSeq DEF OrderInv, Unhurried, Held
    <2> QED BY <1>1, <1>2, <1>3, <2>1 DEF OrderInv, Unhurried, Held
  <1>6. /\ SetupWaits' <=> SetupWaits
        /\ (Whole => Whole') /\ (Alone => Alone')
        /\ (Readable(req) => Readable(req)')
    BY <1>1, <1>2, <1>4, ReadableStays DEF SetupWaits, Whole, Halted, Alone, Held, Sure
  <1>7. (Unread' => Unread) /\ (Unserved' => Unserved)
    BY <1>1, <1>6 DEF Unread, Unserved, Held
  <1>8. Stages' /\ Ordered(dev)'
    BY <1>1, <1>2, <1>6 DEF OrderInv, Stages, Held, Sure
  <1>9. Unread' => Whole'
    BY <1>6, <1>7 DEF OrderInv
  <1>10. Unserved' => Readable(req)' \/ Alone'
    BY <1>6, <1>7 DEF OrderInv
  <1> QED BY <1>5, <1>8, <1>9, <1>10 DEF OrderInv

\* The status of EP0 OUT: a SETUP is handed to the main loop as it came, and nothing that is no
\* SETUP is taken for one.
LEMMA OutReadKeepsOrder == ASSUME IInv, OrderInv, Isr_Ep00RxDone PROVE OrderInv'
  <1>0. GoesOnAt("At_IRQL1") \/ reopened' = reopened
    BY DEF Isr_Ep00RxDone, Serve
  <1>1. /\ UNCHANGED <<snap, req, dev, pc, gate, host, left>>
        /\ reopened' \in Seq({"At_IRQL1"})
        /\ inIsr /\ "EP0OUT" \in ist /\ ist \cap EndpointSources \subseteq chip.int
        /\ ist' = ist \ {"EP0OUT"} /\ inIsr' = (ist # {"EP0OUT"})
    BY <1>0, GoesOnSeq DEF Isr_Ep00RxDone, Serve, loopVars, OrderInv, Unhurried, Held
  <1>2. /\ pc \notin {"setupRead", "setupAck", "requestRun"} /\ gate # "closed"
        /\ "EP0OUT" \in chip.int
    BY <1>1 DEF OrderInv, Unhurried, EndpointSources, Held
  <1>3. PICK c : c = ReadStatus(chip, "EP0OUT")
    OBVIOUS
  <1>4. /\ c \in ChipType /\ c.int = chip.int \ {"EP0OUT"} /\ c.ep1 = chip.ep1
        /\ c.isSetup = chip.isSetup /\ c.out = chip.out /\ c.acked = chip.acked
        /\ c.in = chip.in /\ c.halt = chip.halt /\ c.setup = chip.setup
    BY <1>3, OrderTypes, ReadStatusType DEF ReadStatus, ChipType
  <1>5. CASE chip.isSetup
    <2>1. dcp' = "SETUPPROC" /\ chip' = c
      BY <1>3, <1>5 DEF Isr_Ep00RxDone
    <2>2. Unread /\ Whole /\ SetupWaits /\ ~SetupWaits'
      BY <1>2, <1>4, <1>5, <2>1 DEF OrderInv, Unread, SetupWaits, Held
    <2>3. Unhurried' /\ Stages' /\ Ordered(dev)'
      BY <1>1, <1>2, <1>4, <2>1, <2>2 DEF OrderInv, Unhurried, Stages, Held, Sure
    <2>4. Whole'
      BY <1>1, <1>4, <2>1, <2>2 DEF Whole, Halted
    <2>5. Unserved' => Unserved
      BY <1>1, <2>1 DEF Unserved, Held
    <2>6. Alone /\ Unserved' => Alone'
      BY <1>1, <1>4, <2>1, <2>2 DEF Alone, Halted, Held, Sure
    <2>7. Readable(req) => Readable(req)'
      BY <1>1, ReadableStays
    <2> QED BY <2>3, <2>4, <2>5, <2>6, <2>7 DEF OrderInv
  <1>6. CASE ~chip.isSetup
    <2>1. ~SetupWaits /\ ~Unread
      BY <1>6 DEF OrderInv, SetupWaits, Whole
    <2>2. /\ dcp # "SETUPPROC" /\ dcp # "INTR1DONE"
          /\ pc \notin {"setupEnter", "setupRead", "setupLength", "setupAck", "requestRun"}
      BY <1>2, <2>1 DEF OrderInv, Unread, Unhurried, Stages, Held, Sure
    <2>3. /\ dcp' \in {dcp, "IDLE", "STALL", "REQUESTPROC"}
          /\ dcp \in {"DATAOUT", "REQUESTPROC"} =>
               dcp' \in {"DATAOUT", "REQUESTPROC"} /\ chip'.in = chip.in /\ chip'.halt = chip.halt
          /\ dcp \notin {"DATAOUT", "REQUESTPROC"} => dcp' \notin {"DATAOUT", "REQUESTPROC"}
          /\ chip'.int = c.int /\ chip'.ep1 = chip.ep1
      <3>1. CASE dcp = "DATAOUT"
        <4>1. TakeDataOut(c)
          BY <1>3, <1>6, <3>1 DEF Isr_Ep00RxDone
        <4> QED BY <1>4, <3>1, <4>1 DEF TakeDataOut, ChipType
      <3>2. CASE dcp = "HANDSHAKE"
        BY <1>3, <1>4, <1>6, <3>2 DEF Isr_Ep00RxDone
      <3>3. CASE dcp \in {"STALL", "REQUESTPROC", "DATAIN"}
        BY <1>3, <1>4, <1>6, <3>3 DEF Isr_Ep00RxDone
      <3>4. CASE dcp \notin {"DATAOUT", "HANDSHAKE", "STALL", "REQUESTPROC", "DATAIN"}
        <4>1. dcp' = "STALL" /\ chip' = [c EXCEPT !.halt = @ \cup {0, 1}]
          BY <1>3, <1>6, <2>2, <3>4 DEF Isr_Ep00RxDone
        <4>2. \A h : [c EXCEPT !.halt = h].int = c.int /\ [c EXCEPT !.halt = h].ep1 = c.ep1
          BY <1>4 DEF ChipType
        <4> QED BY <1>4, <3>4, <4>1, <4>2
      <3> QED BY <3>1, <3>2, <3>3, <3>4
    <2>4. Unhurried' /\ Stages' /\ Ordered(dev)'
      BY <1>1, <1>2, <1>4, <2>2, <2>3 DEF OrderInv, Unhurried, Stages, SetupWaits, Held, Sure
    <2>5. ~Unread'
      BY <1>1, <1>4, <2>1, <2>2, <2>3 DEF Unread, SetupWaits, Held
    <2>6. Unserved' => Unserved
      BY <1>1, <2>3 DEF Unserved, Held
    <2>7. Alone /\ Unserved' => Alone'
      <3> SUFFICES ASSUME Alone, Unserved' PROVE Alone'
        OBVIOUS
      <3>1. dcp \in {"DATAOUT", "REQUESTPROC"}
        BY <1>1, <2>2, <2>3 DEF OrderInv, Stages, Alone, Unserved, Reading, Held, Sure
      <3> QED BY <1>1, <1>4, <2>2, <2>3, <3>1 DEF Alone, Halted, SetupWaits, Held, Sure
    <2>8. Readable(req) => Readable(req)'
      BY <1>1, ReadableStays
    <2> QED BY <2>4, <2>5, <2>6, <2>7, <2>8 DEF OrderInv
  <1> QED BY <1>5, <1>6

\* The packet that follows one the host has taken reaches the FIFO only while no SETUP waits.
LEMMA InTakenKeepsOrder == ASSUME IInv, OrderInv, Isr_Ep00TxDone PROVE OrderInv'
  <1>0. GoesOnAt("At_IRQL1") \/ reopened' = reopened
    BY DEF Isr_Ep00TxDone, Serve
  <1>1. /\ UNCHANGED <<snap, req, dev, pc, gate, host, left>>
        /\ reopened' \in Seq({"At_IRQL1"})
        /\ inIsr /\ "EP0OUT" \notin ist /\ ist \cap EndpointSources \subseteq chip.int
        /\ ist' = ist \ {"EP0IN"} /\ inIsr' = (ist # {"EP0IN"})
    BY <1>0, GoesOnSeq DEF Isr_Ep00TxDone, Serve, loopVars, OrderInv, Unhurried, Held
  <1>2. /\ pc \notin {"setupRead", "setupAck", "requestRun"} /\ gate # "closed"
        /\ ~Held({"INTR1DONE"}) /\ dcp # "INTR1DONE"
    BY <1>1 DEF OrderInv, Unhurried, Held
  <1>3. PICK c : c = [ReadStatus(chip, "EP0IN") EXCEPT !.int = @ \cap EndpointSources]
    OBVIOUS
  <1>4. /\ c.int = (chip.int \ {"EP0IN"}) \cap EndpointSources /\ c.ep1 = chip.ep1
        /\ c.isSetup = chip.isSetup /\ c.out = chip.out /\ c.acked = chip.acked
        /\ c.in = chip.in /\ c.halt = chip.halt /\ c.setup = chip.setup
        /\ c.ovwr = chip.ovwr /\ c \in ChipType
    <2>1. PICK d : d = ReadStatus(chip, "EP0IN")
      OBVIOUS
    <2>2. /\ d \in ChipType /\ d.int = chip.int \ {"EP0IN"} /\ d.ep1 = chip.ep1
          /\ d.isSetup = chip.isSetup /\ d.out = chip.out /\ d.acked = chip.acked
          /\ d.in = chip.in /\ d.halt = chip.halt /\ d.setup = chip.setup /\ d.ovwr = chip.ovwr
      BY <2>1, OrderTypes, ReadStatusType DEF ReadStatus, ChipType
    <2>3. c = [d EXCEPT !.int = @ \cap EndpointSources]
      BY <1>3, <2>1
    <2> QED BY <2>2, <2>3 DEF ChipType, SourceSets
  <1>5. /\ chip'.int = c.int /\ chip'.ep1 = chip.ep1 /\ chip'.isSetup = chip.isSetup
        /\ chip'.out = chip.out /\ chip'.acked = chip.acked /\ chip'.halt = chip.halt
        /\ chip'.setup = chip.setup /\ chip'.ovwr = chip.ovwr
        /\ (chip.acked /\ dcp = "DATAIN") \/ chip'.in = chip.in
        /\ dcp' = dcp \/ (dcp = "DATAIN" /\ dcp' = "HANDSHAKE")
    <2>1. CASE dcp = "DATAIN"
      <3>1. NextPacket(c)
        BY <1>3, <2>1 DEF Isr_Ep00TxDone
      <3>2. PICK n : chip' = WriteIn(c, n)
        BY <3>1 DEF NextPacket
      <3>3. dcp' = dcp \/ dcp' = "HANDSHAKE"
        BY <3>1 DEF NextPacket
      <3> QED BY <1>4, <2>1, <3>2, <3>3 DEF WriteIn, ChipType
    <2>2. CASE dcp # "DATAIN"
      <3>1. chip' = c /\ dcp' = dcp
        BY <1>2, <1>3, <2>2 DEF Isr_Ep00TxDone
      <3> QED BY <1>4, <3>1
    <2> QED BY <2>1, <2>2
  <1>6. SetupWaits' <=> SetupWaits
    BY <1>4, <1>5 DEF SetupWaits, EndpointSources
  <1>7. Unhurried' /\ Stages' /\ Ordered(dev)'
    <2>1. Unhurried'
      BY <1>1, <1>2, <1>4, <1>5 DEF OrderInv, Unhurried, Held
    <2>2. Stages'
      BY <1>1, <1>2, <1>5, <1>6 DEF OrderInv, Stages, Held, Sure
    <2> QED BY <1>1, <2>1, <2>2 DEF OrderInv
  <1>8. Unread' => Unread
    BY <1>1, <1>5, <1>6 DEF Unread, Held
  <1>9. Whole => Whole'
    BY <1>1, <1>5 DEF Whole, Halted
  <1>10. Unserved' => Unserved
    BY <1>1, <1>5 DEF Unserved, Held
  <1>11. Alone /\ Unserved' => Alone'
    <2> SUFFICES ASSUME Alone, Unserved' PROVE Alone'
      OBVIOUS
    <2>1. dcp # "DATAIN"
      BY <1>1, <1>2, <1>5 DEF OrderInv, Stages, Alone, Unserved, Reading, Held, Sure
    <2> QED BY <1>1, <1>5, <1>6, <2>1 DEF Alone, Halted, Held, Sure
  <1>12. Readable(req) => Readable(req)'
    BY <1>1, ReadableStays
  <1> QED BY <1>7, <1>8, <1>9, <1>10, <1>11, <1>12 DEF OrderInv

\* A handler goes on behind the enable_irq that has reopened the processor. What it loads and
\* stores again is a DCP_state that still may come, and the configuration that still holds: no
\* request is served meanwhile.
LEMMA WriteBackKeepsOrder == ASSUME IInv, OrderInv, IsrLoad \/ IsrStore PROVE OrderInv'
  <1>1. /\ UNCHANGED <<req, pc, gate, inIsr, ist, chip, left>>
        /\ host'.req = host.req /\ host'.phase = host.phase
    <2>1. host \in HostType
      BY OrderTypes
    <2> QED BY <2>1 DEF IsrLoad, IsrStore, StoreFlags, pipeVars, gateVars, isrVars, HostType
  <1>2. reopened # <<>>
    BY DEF IsrLoad, IsrStore, Resumes
  <1>3. pc \in BehindGate
    BY <1>2 DEF IInv, WriteBack
  <1>4. reopened' \in Seq({"At_IRQL1"})
    <2>1. reopened' = reopened \/ Advances
      BY DEF IsrLoad, IsrStore, gateVars, isrVars
    <2> QED BY <1>2, <2>1, AdvancesSeq DEF OrderInv, Unhurried, Held
  <1>5. \A S : (Held(S)' => Held(S) /\ dcp' \in S) /\ (Sure(S) => Sure(S)')
    <2>1. CASE IsrLoad
      <3>1. Head(reopened) \in {"At_IRQL1"}
        BY <1>2, HeadTailProperties DEF OrderInv, Unhurried, Held
      <3>2. dcp' = dcp /\ snap' = {D13Flags} /\ D13Flags.dcp = dcp
        BY <2>1, <3>1 DEF IsrLoad, pipeVars, D13Flags
      <3> QED BY <3>2 DEF Held, Sure
    <2>2. CASE IsrStore
      <3>1. PICK f \in snap : StoreFlags(f, f.dcp)
        BY <2>2 DEF IsrStore
      <3> QED BY <3>1 DEF StoreFlags, Held, Sure
    <2> QED BY <2>1, <2>2
  <1>6. /\ dev'.default = dev.default /\ dev'.address = dev.address
        /\ dev'.config = dev.config /\ dev'.configuration = dev.configuration
        /\ \A f \in snap' : f.configuration = dev.configuration
    <2>0. dev \in Device
      BY OrderTypes
    <2>1. CASE IsrLoad
      BY <2>0, <2>1 DEF IsrLoad, D13Flags
    <2>2. CASE IsrStore
      <3>1. PICK f \in snap : StoreFlags(f, f.dcp)
        BY <2>2 DEF IsrStore
      <3>2. f.configuration = dev.configuration
        BY <3>1 DEF OrderInv, Unhurried, Held
      <3> QED BY <2>0, <3>1, <3>2 DEF StoreFlags, Device
    <2> QED BY <2>1, <2>2
  <1>7. Unhurried' /\ Ordered(dev)'
    BY <1>1, <1>4, <1>5, <1>6 DEF OrderInv, Unhurried, Ordered, Held
  <1>8. Stages'
    <2>1. pc # "requestRun"
      BY <1>3 DEF BehindGate
    <2>2. \A S, R : Held(S)' /\ S \subseteq R => dcp' \in R
      BY <1>5
    <2>3. Held({"DATAOUT", "REQUESTPROC"})' => dcp' \in {"DATAOUT", "REQUESTPROC", "SETUPPROC"}
      BY <2>2
    <2> QED BY <1>1, <1>5, <2>1, <2>3 DEF OrderInv, Stages, SetupWaits
  <1>9. (Unread' => Unread) /\ (Unserved' => Unserved)
    BY <1>1, <1>5 DEF Unread, Unserved, SetupWaits, Held
  <1>10. (Whole => Whole') /\ (Alone => Alone')
    BY <1>1, <1>5, <1>6, FitsStays DEF Whole, Alone, Halted, SetupWaits, Held, Sure
  <1>11. Readable(req) => Readable(req)'
    BY <1>1, ReadableStays
  <1>12. (Unread' => Whole') /\ (Unserved' => Readable(req)' \/ Alone')
    BY <1>9, <1>10, <1>11 DEF OrderInv
  <1> QED BY <1>7, <1>8, <1>12 DEF OrderInv

LEMMA IsrKeepsOrder == ASSUME IInv, OrderInv, IsrStep PROVE OrderInv'
  <1>1. ~IsrBusReset /\ ~Isr_Ep01Done
    BY DEF IsrBusReset, Isr_Ep01Done, OrderInv, Unhurried, Held
  <1>2. ~IsrResetState
    <2> SUFFICES ASSUME IsrResetState PROVE FALSE
      OBVIOUS
    <2>1. reopened \in Seq({"At_IRQL1"}) /\ reopened # <<>> /\ Head(reopened) = "State_bits"
      BY DEF IsrResetState, Resumes, OrderInv, Unhurried, Held
    <2>2. Head(reopened) \in {"At_IRQL1"}
      BY <2>1, HeadTailProperties
    <2> QED BY <2>1, <2>2
  <1> QED BY <1>1, <1>2, DeviceSourceKeepsOrder, OutReadKeepsOrder, InTakenKeepsOrder,
             WriteBackKeepsOrder DEF IsrStep

\* An orderly host sends a SETUP that fits, and gives up for it only what may be given up.
LEMMA SetupSentKeepsOrder ==
  ASSUME IInv, OrderInv, Orderly, NEW r \in Requests, HostSetup(r) PROVE OrderInv'
  <1>1. /\ UNCHANGED <<dcp, snap, req, dev, pc, gate, inIsr, ist, reopened>>
        /\ Fits(r, dev) /\ (host.phase \in Active => Readable(host.req))
    BY DEF HostSetup, firmwareVars, pipeVars, loopVars, gateVars, isrVars, Orderly
  <1>2. /\ chip'.int = chip.int \cup {"EP0OUT"} /\ chip'.out = 8 /\ chip'.isSetup
        /\ chip'.setup = r /\ chip'.ovwr = ~chip.acked /\ ~chip'.acked /\ chip'.in = {}
        /\ chip'.halt = chip.halt \ {0, 1} /\ chip'.ep1 = chip.ep1
    <2>1. chip \in ChipType
      BY OrderTypes
    <2> QED BY <2>1 DEF HostSetup, ChipType
  <1>3. host'.phase = FirstPhase(r) /\ host'.req = r
    BY DEF HostSetup
  <1>4. left'.resets = left.resets /\ left'.reports = left.reports
    <2>1. left \in LeftType
      BY OrderTypes
    <2> QED BY <2>1 DEF HostSetup, LeftType
  <1>5. Unhurried'
    BY <1>1, <1>2, <1>4 DEF OrderInv, Unhurried, Held
  <1>6. Stages' /\ Ordered(dev)'
    BY <1>1, <1>2 DEF OrderInv, Stages, Held, Sure
  <1>7. Whole'
    BY <1>1, <1>2, <1>3 DEF Whole, Halted
  <1>8. Unserved' => Readable(req)'
    <2>1. Unserved' => Readable(req) \/ Alone
      BY <1>1 DEF OrderInv, Unserved, Held
    <2>2. Alone => Readable(req)
      BY <1>1 DEF Alone, Active, Held, Sure
    <2> QED BY <1>1, <2>1, <2>2, ReadableStays
  <1> QED BY <1>5, <1>6, <1>7, <1>8 DEF OrderInv

\* What the host takes, or sees refused, answers a request that has been served.
LEMMA AnswerTakenKeepsOrder ==
  ASSUME IInv, OrderInv, HostTakeData \/ HostStatusIn \/ HostSeesStall PROVE OrderInv'
  <1>1. UNCHANGED <<dcp, snap, req, dev, pc, gate, inIsr, ist, reopened, left>>
    BY DEF HostTakeData, HostStatusIn, HostSeesStall, firmwareVars, pipeVars, loopVars, gateVars, isrVars
  <1>2. chip.in # {} \/ Halted
    BY DEF HostTakeData, HostStatusIn, HostSeesStall, Halted
  <1>3. ~Whole /\ ~Alone
    BY <1>2 DEF Whole, Alone, Held, Sure
  <1>4. /\ chip'.int \in {chip.int, chip.int \cup {"EP0IN"}} /\ chip'.ep1 = chip.ep1
        /\ chip'.isSetup = chip.isSetup /\ chip'.acked = chip.acked /\ chip'.ovwr = chip.ovwr
    <2>1. chip \in ChipType
      BY OrderTypes
    <2> QED BY <2>1 DEF HostTakeData, HostStatusIn, HostSeesStall, ChipType
  <1>5. SetupWaits' <=> SetupWaits
    BY <1>4 DEF SetupWaits
  <1>6. Unhurried' /\ Stages' /\ Ordered(dev)'
    BY <1>1, <1>4, <1>5 DEF OrderInv, Unhurried, Stages, Held, Sure
  <1>7. ~Unread'
    BY <1>1, <1>3, <1>5 DEF OrderInv, Unread, Held
  <1>8. Unserved' => Readable(req)'
    BY <1>1, <1>3, ReadableStays DEF OrderInv, Unserved, Held
  <1> QED BY <1>6, <1>7, <1>8 DEF OrderInv

\* A packet of the host is accepted when no SETUP waits for its acknowledgement.
LEMMA PacketSentKeepsOrder ==
  ASSUME IInv, OrderInv, HostSendData \/ HostStatusOut PROVE OrderInv'
  <1>1. /\ UNCHANGED <<dcp, snap, req, dev, pc, gate, inIsr, ist, reopened, left>>
        /\ chip.acked
    BY DEF HostSendData, HostStatusOut, firmwareVars, pipeVars, loopVars, gateVars, isrVars
  <1>2. /\ chip'.int = chip.int \cup {"EP0OUT"} /\ chip'.ep1 = chip.ep1 /\ ~chip'.isSetup
        /\ chip'.acked = chip.acked /\ chip'.in = chip.in /\ chip'.halt = chip.halt
    <2>1. chip \in ChipType
      BY OrderTypes
    <2> QED BY <2>1 DEF HostSendData, HostStatusOut, ChipType
  <1>3. /\ host'.req = host.req
        /\ host.phase = "statusOut" \/ host'.phase = "statusIn"
    <2>1. host \in HostType
      BY OrderTypes
    <2> QED BY <2>1 DEF HostSendData, HostStatusOut, HostType
  <1>4. ~Unread /\ ~SetupWaits'
    BY <1>1, <1>2 DEF OrderInv, Whole, SetupWaits
  <1>5. Unhurried' /\ Stages' /\ Ordered(dev)'
    BY <1>1, <1>2, <1>4 DEF OrderInv, Unhurried, Stages, Held, Sure
  <1>6. ~Unread'
    BY <1>1, <1>4 DEF Unread, Held
  <1>7. Unserved' => Readable(req) \/ Alone
    BY <1>1 DEF OrderInv, Unserved, Held
  <1>8. Alone => Alone'
    BY <1>1, <1>2, <1>3, <1>4 DEF Alone, Halted, Held, Sure
  <1>9. Readable(req) => Readable(req)'
    BY <1>1, ReadableStays
  <1> QED BY <1>5, <1>6, <1>7, <1>8, <1>9 DEF OrderInv

LEMMA SleepKeepsOrder == ASSUME IInv, OrderInv, HostSuspendOrResume PROVE OrderInv'
  <1>1. UNCHANGED <<dcp, snap, req, dev, pc, gate, inIsr, ist, reopened, host>>
    BY DEF HostSuspendOrResume, firmwareVars, pipeVars, loopVars, gateVars, isrVars
  <1>2. /\ \E src \in {"SUSPEND", "RESUME"} : chip'.int = chip.int \cup {src}
        /\ chip'.ep1 = chip.ep1 /\ chip'.isSetup = chip.isSetup /\ chip'.out = chip.out
        /\ chip'.acked = chip.acked /\ chip'.in = chip.in /\ chip'.halt = chip.halt
        /\ chip'.setup = chip.setup /\ chip'.ovwr = chip.ovwr
    <2>1. chip \in ChipType
      BY OrderTypes
    <2> QED BY <2>1 DEF HostSuspendOrResume, ChipType
  <1>3. left'.resets = left.resets /\ left'.reports = left.reports
    <2>1. left \in LeftType
      BY OrderTypes
    <2> QED BY <2>1 DEF HostSuspendOrResume, LeftType
  <1>4. SetupWaits' <=> SetupWaits
    BY <1>2 DEF SetupWaits
  <1>5. Unhurried' /\ Stages' /\ Ordered(dev)'
    BY <1>1, <1>2, <1>3, <1>4 DEF OrderInv, Unhurried, Stages, Held, Sure
  <1>6. (Unread' => Unread) /\ (Unserved' => Unserved)
    BY <1>1, <1>4 DEF Unread, Unserved, Held
  <1>7. (Whole => Whole') /\ (Alone => Alone')
    BY <1>1, <1>2, <1>4 DEF Whole, Alone, Halted, Held, Sure
  <1>8. Readable(req) => Readable(req)'
    BY <1>1, ReadableStays
  <1> QED BY <1>5, <1>6, <1>7, <1>8 DEF OrderInv

LEMMA HostKeepsOrder == ASSUME IInv, OrderInv, Orderly, HostStep PROVE OrderInv'
  <1>1. ~HostPoll /\ ~HostReset
    BY DEF HostPoll, HostReset, OrderInv, Unhurried, Held
  <1> QED BY <1>1, SetupSentKeepsOrder, AnswerTakenKeepsOrder, PacketSentKeepsOrder,
             SleepKeepsOrder DEF HostStep, HostMoves

LEMMA SameKeepsOrder ==
  ASSUME OrderInv,
         UNCHANGED <<dcp, snap, req, dev, pc, inIsr, ist, reopened, host, chip, left>>,
         gate' = "closed" <=> gate = "closed"
  PROVE  OrderInv'
  <1>1. Unhurried' /\ Stages' /\ Ordered(dev)' /\ (Unread' => Unread) /\ (Unserved' => Unserved)
    BY DEF OrderInv, Unhurried, Stages, Unread, Unserved, SetupWaits, Held, Sure
  <1>2. (Whole => Whole') /\ (Alone => Alone')
    BY DEF Whole, Alone, Halted, SetupWaits, Held, Sure
  <1>3. Readable(req) => Readable(req)'
    BY ReadableStays
  <1> QED BY <1>1, <1>2, <1>3 DEF OrderInv

LEMMA OrderInductive == IInv /\ OrderInv /\ [Next /\ Orderly]_vars => OrderInv'
  <1> SUFFICES ASSUME IInv, OrderInv, [Next /\ Orderly]_vars PROVE OrderInv'
    OBVIOUS
  <1>1. CASE Next /\ Orderly
    <2>1. CASE OpenGate
      <3>1. UNCHANGED <<dcp, snap, req, dev, pc, inIsr, ist, reopened, host, chip, left>>
            /\ gate # "closed" /\ gate' # "closed"
        BY <2>1 DEF OpenGate, pipeVars, loopVars, isrVars
      <3> QED BY <3>1, SameKeepsOrder
    <2> QED BY <1>1, <2>1, MainKeepsOrder, IsrKeepsOrder, HostKeepsOrder DEF Next
  <1>2. CASE UNCHANGED vars
    <2>1. UNCHANGED <<dcp, snap, req, dev, pc, gate, inIsr, ist, reopened, host, chip, left>>
      BY <1>2 DEF vars
    <2> QED BY <2>1, SameKeepsOrder
  <1> QED BY <1>1, <1>2

LEMMA OrderBegins == ASSUME Enumerating, Init PROVE OrderInv
  <1>1. Unhurried /\ Ordered(dev)
    BY EmptySeq DEF Enumerating, Init, Unhurried, Ordered, Held
  <1>2. ~req.in
    BY DEF Init, ZeroRequest
  <1>3. Stages
    BY <1>2 DEF Init, Stages, Held, Sure
  <1>4. ~Unread /\ ~Unserved
    BY DEF Init, Unread, SetupWaits, Unserved, Reading, Held
  <1> QED BY <1>1, <1>3, <1>4 DEF OrderInv

LEMMA AlwaysOrdered == ASSUME Enumerating PROVE OrderlySpec => [](IInv /\ OrderInv)
  <1>1. [Next /\ Orderly]_vars => [Next]_vars
    OBVIOUS
  <1>2. Init => IInv /\ OrderInv
    BY InitIInv, OrderBegins
  <1>3. IInv /\ OrderInv /\ [Next /\ Orderly]_vars => (IInv /\ OrderInv)'
    BY <1>1, Inductive, OrderInductive
  <1> QED BY <1>2, <1>3, PTL DEF OrderlySpec

\* A host that keeps the order of chapter 9 finds the device in one of its three states, never
\* in two at once, although requests are served long after they are sent, in another order
\* than the interrupts, and readings of descriptors are given up in the middle.
THEOREM OneStateForOrderlyHost ==
  ASSUME Enumerating PROVE OrderlySpec => []OneDeviceState
  <1>1. IInv /\ OrderInv => OneDeviceState
    BY OrderTypes, OrderedIsOneState DEF OrderInv
  <1> QED BY <1>1, AlwaysOrdered, PTL

\* For such a host GetConfiguration answers what the state bits say: configuration is 1
\* exactly in the configured state.
THEOREM ConfigurationAgreesForOrderlyHost ==
  ASSUME Enumerating PROVE OrderlySpec => []ConfigurationAgrees
  <1>1. IInv /\ OrderInv => ConfigurationAgrees
    BY OrderTypes, OrderedIsOneState DEF OrderInv
  <1> QED BY <1>1, AlwaysOrdered, PTL

=============================================================================
