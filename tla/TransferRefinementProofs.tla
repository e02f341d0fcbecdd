---------------------- MODULE TransferRefinementProofs ----------------------
(***************************************************************************)
(* The control pipe implements ControlTransfer for every patient host: any *)
(* set of proper requests, any number of SETUPs and of suspends.           *)
(*                                                                         *)
(* That a packet the host finds in endpoint 0 is the next one of its own   *)
(* answer says nothing of the firmware, which may still be busy with the   *)
(* transfer before.  The invariant follows a transfer through the firmware *)
(* from the SETUP that lies in the chip to the answer that is complete;    *)
(* the handler and the main loop each take it from one stage to the next,  *)
(* and what is left over from the transfer before (an IN interrupt, a      *)
(* descriptor still open, D13FLAGS about to be stored) is harmless in each *)
(* of them.  A write-back may lose a SETUP or the data of a write: such a  *)
(* transfer stays where it is, in a stage of its own.                      *)
(***************************************************************************)
EXTENDS TransferRefinement, ControlPipeProofs

Over == {"idle", "complete", "stalled"}

\* Where the main loop has nothing in hand.
Loop == {"suspend", "setup", "request", "connect", "ep1", "report", "send", "resetCheck"}

OutPending == "EP0OUT" \in chip.int
InPending  == "EP0IN" \in chip.int

\* What a patient host leaves out, and the sources the handler has still to serve.
Plumbing ==
  /\ left.aborts = 0 /\ left.resets = 0 /\ left.reports = 0 /\ chip.ep1 = 0
  /\ ist \cap EndpointSources \subseteq chip.int
  /\ ~inIsr => ist = {}
  /\ "EP01" \notin chip.int \cup ist /\ "BUSRESET" \notin chip.int \cup ist
  /\ "EP0OUT" \in ist /\ InPending => "EP0IN" \in ist
  /\ ~Held({"INTR1DONE"})
  /\ reopened \in Seq({"At_IRQL1"})

\* DCP_state when no request waits and no data of a write are awaited.
NoRequest == {"IDLE", "DATAIN", "HANDSHAKE", "STALL"}

\* An IN interrupt that is left over is served before the handler ends.
Served == InPending => "EP0IN" \in ist /\ ist \cap DeviceSources = {}

\* No transfer is under way for the host. The firmware may not have seen the end.
Rest ==
  /\ host.phase \in Over
  /\ pc \in Loop /\ Sure(NoRequest)
  /\ OutPending => ~chip.isSetup

\* The SETUP of a transfer lies in the chip, which lets nothing into endpoint 0 meanwhile.
Fresh ==
  /\ host.phase = FirstPhase(host.req) /\ host.got = 0
  /\ chip.isSetup /\ ~chip.acked /\ chip.in = {} /\ chip.setup = host.req /\ chip.out = 8
  /\ ~Halted

\* The handler has not seen it yet.
SetupPending == Fresh /\ OutPending /\ pc \in Loop /\ Sure(NoRequest)

\* SetupToken_Handler has not acknowledged it yet.
SetupTaken ==
  /\ Fresh /\ ~OutPending /\ ~chip.ovwr
  /\ Served
  /\ dcp = "SETUPPROC" /\ \A f \in snap : f.dcp \in NoRequest \cup {"SETUPPROC"}
  /\ pc \notin Loop => \A f \in snap : f.dcp = "SETUPPROC"
  /\ pc \in Loop \cup {"setupEnter", "setupRead", "setupLength", "setupAck"}
  /\ pc \in {"setupLength", "setupAck"} => req = host.req
  /\ pc \in {"setupRead", "setupLength", "setupAck"} => ~abort

\* A write-back has undone what the handler made of it. The host waits for ever.
SetupLost == Fresh /\ ~OutPending /\ pc \in Loop /\ Sure(NoRequest)

\* The request is in hand and nothing is answered.
Unanswered ==
  /\ host.got = 0 /\ chip.in = {} /\ ~Halted
  /\ req = host.req /\ (~req.in => req.wLength <= MAX_CONTROLDATA_SIZE)
  /\ Served

\* The data of a write are awaited, or lie in the chip.
DataAwaited ==
  /\ Unanswered /\ ~req.in /\ Sure({"DATAOUT"})
  /\ \/ host.phase = "dataOut" /\ ~OutPending /\ pc \in Loop
     \/ host.phase = "dataOut" /\ ~OutPending /\ pc = "setupLateAck" /\ ~chip.acked
     \/ host.phase = "statusIn" /\ OutPending /\ ~chip.isSetup /\ pc \in Loop /\ chip.acked

\* DeviceRequest_Handler is to answer, and may write into endpoint 0.
RequestReady ==
  /\ Unanswered /\ ~OutPending /\ chip.acked
  /\ host.phase = IF req.in THEN "dataIn" ELSE "statusIn"
  /\ \/ dcp = "REQUESTPROC" /\ pc \in Loop \cup {"requestEnter"}
     \/ dcp = "IDLE" /\ pc = "requestRun"
  /\ \A f \in snap : f.dcp = "REQUESTPROC" \/ (f.dcp = "DATAOUT" /\ ~req.in)
  /\ pc \notin Loop => snap = {}

\* A write-back has undone that the data of a write have come.
DataLost ==
  /\ Unanswered /\ ~OutPending /\ ~req.in
  /\ host.phase = "statusIn" /\ pc \in Loop /\ Sure({"DATAOUT"})

\* A descriptor of more than one packet is under way.
Sending ==
  /\ host.phase = "dataIn" /\ req = host.req /\ req.in
  /\ Sure({"DATAIN"}) /\ pc \in Loop
  /\ chip.acked /\ ~OutPending /\ ~Halted
  /\ wLength = Brings(req)
  /\ \/ chip.in = {EP0_PACKET_SIZE} /\ ~InPending /\ wCount = host.got + EP0_PACKET_SIZE
     \/ chip.in = {} /\ InPending /\ wCount = host.got

\* What the chip has for the host is the rest of the answer, or a refusal. DATAIN may come back
\* while the host still has the last packet to take.
Replied ==
  /\ host.phase \in Active /\ ~OutPending
  /\ pc \in Loop
  /\ Sure(NoRequest)
  /\ Held({"DATAIN"}) =>
       \/ host.phase = "statusOut"
       \/ host.phase = "dataIn" /\ ~InPending /\ \E n \in chip.in : n < EP0_PACKET_SIZE
  /\ host.phase = "dataIn" /\ chip.in # {} /\ 1 \notin chip.halt
       => chip.in = {Least(Brings(host.req) - host.got, EP0_PACKET_SIZE)}
  /\ host.phase = "dataOut" => 0 \in chip.halt
  /\ Halted => Refusable(host.req)

UnderWay ==
  \/ SetupPending \/ SetupTaken \/ SetupLost \/ DataAwaited \/ RequestReady \/ DataLost
  \/ Sending \/ Replied

\* Stays within what was asked for, so that the length ends the data stage where it should.
Within == host.got <= Brings(host.req)

TInv == Plumbing /\ (Rest \/ (host.req \in Requests /\ UnderWay)) /\ Within

-----------------------------------------------------------------------------
(* What a request may be answered with.                                    *)

DeviceOf(b) ==
  [default |-> b = 1, address |-> b = 2, config |-> b = 3, configuration |-> 0,
   wakeup |-> FALSE, alt |-> 0, hid |-> "reset", addr |-> 0]

LEMMA DevicesTyped ==
  /\ Devices = {DeviceOf(1), DeviceOf(2), DeviceOf(3)}
  /\ Devices \subseteq Device
  /\ \A d \in Device : \E e \in Devices : e.address = d.address
  <1>1. \A x, y, z \in BOOLEAN, n \in 0..1, m \in 0..127 :
          [default |-> x, address |-> y, config |-> z, configuration |-> n, wakeup |-> FALSE,
           alt |-> n, hid |-> "reset", addr |-> m] \in Device
    BY DEF Device
  <1>2. 0 \in 0..1 /\ 0 \in 0..127
    OBVIOUS
  <1>3. \A b \in 1..3 : DeviceOf(b) \in Device
    <2> TAKE b \in 1..3
    <2>1. (b = 1) \in BOOLEAN /\ (b = 2) \in BOOLEAN /\ (b = 3) \in BOOLEAN
      OBVIOUS
    <2> QED BY <1>1, <1>2, <2>1, Zenon DEF DeviceOf
  <1>4. Devices = {DeviceOf(b) : b \in 1..3}
    BY DEF Devices, DeviceOf
  <1>5. 1..3 = {1, 2, 3}
    OBVIOUS
  <1>6. DeviceOf(1).address = FALSE /\ DeviceOf(2).address = TRUE
    <2>1. \A b : DeviceOf(b).address = (b = 2)
      BY Zenon DEF DeviceOf
    <2>2. (1 = 2) = FALSE /\ (2 = 2) = TRUE
      OBVIOUS
    <2> QED BY ONLY <2>1, <2>2, Zenon
  <1>7. \A d \in Device : d.address \in BOOLEAN
    BY DEF Device
  <1>8. Devices = {DeviceOf(1), DeviceOf(2), DeviceOf(3)} /\ Devices \subseteq Device
    BY <1>3, <1>4, <1>5
  <1>9. \A d \in Device : \E e \in Devices : e.address = d.address
    <2> TAKE d \in Device
    <2>1. /\ d.address \in BOOLEAN
          /\ DeviceOf(1).address \in BOOLEAN /\ DeviceOf(2).address \in BOOLEAN
      BY <1>7, <1>8
    <2> QED BY <1>6, <1>8, <2>1
  <1> QED BY <1>8, <1>9

LEMMA AnswersTyped ==
  ASSUME NEW r \in Request, NEW d \in Device
  PROVE  DeviceRequest(r, d, {}, FALSE).len \in Nat
  <1> DEFINE a == DeviceRequest(r, d, {}, FALSE)
  <1>1. {} \in Halts /\ FALSE \in BOOLEAN
    BY DEF Halts
  <1>2. Sound(a, d)
    BY <1>1, DeviceRequestSound, Zenon
  <1> HIDE DEF a
  <1>3. a.len \in Nat
    BY <1>2 DEF Sound, AnswerType
  <1> QED BY <1>3 DEF a

\* Three lengths have a largest.
LEMMA LongestFacts ==
  ASSUME NEW r \in Request
  PROVE  /\ Longest(r) \in Nat
         /\ \E d \in Devices : Longest(r) = DeviceRequest(r, d, {}, FALSE).len
         /\ \A d \in Devices : DeviceRequest(r, d, {}, FALSE).len <= Longest(r)
  <1> DEFINE len(d) == DeviceRequest(r, d, {}, FALSE).len
             Lens   == {a.len : a \in Answers(r)}
             Top(n) == \A a \in Answers(r) : a.len <= n
  <1>1. \A d \in Devices : len(d) \in Nat
    BY AnswersTyped, DevicesTyped
  <1>2. Devices = {DeviceOf(1), DeviceOf(2), DeviceOf(3)}
    BY DevicesTyped
  <1>3. Answers(r) = {DeviceRequest(r, d, {}, FALSE) : d \in Devices}
    BY DEF Answers
  <1>4. Lens = {len(d) : d \in Devices}
    BY <1>3
  <1>5. \E n \in Lens : \A d \in Devices : len(d) <= n
    <2>1. len(DeviceOf(1)) \in Nat /\ len(DeviceOf(2)) \in Nat /\ len(DeviceOf(3)) \in Nat
      BY <1>1, <1>2
    <2>2. \E n \in {len(DeviceOf(1)), len(DeviceOf(2)), len(DeviceOf(3))} :
            len(DeviceOf(1)) <= n /\ len(DeviceOf(2)) <= n /\ len(DeviceOf(3)) <= n
      <3> HIDE DEF len
      <3> QED BY <2>1
    <2> HIDE DEF len
    <2> QED BY <1>2, <1>4, <2>2
  <1>6. \E n \in Lens : Top(n)
    BY <1>3, <1>5
  <1>7. Longest(r) = CHOOSE n \in Lens : Top(n)
    BY DEF Longest
  <1> HIDE DEF Top, Lens
  <1>8. Longest(r) \in Lens /\ Top(Longest(r))
    BY <1>6, <1>7
  <1>9. PICK d \in Devices : Longest(r) = len(d)
    BY <1>4, <1>8
  <1> QED BY <1>1, <1>3, <1>8, <1>9 DEF Top

\* The dispatch of DeviceRequest_Handler: what the answer is, by the name of the handler.
Dispatched(h, r, d, halt, aborted, a) ==
  /\ h = "GetStatus" => a = GetStatus(r, d, halt)
  /\ h = "ClearFeature" => a = ClearFeature(r, d, halt)
  /\ h = "SetFeature" => a = SetFeature(r, d, halt)
  /\ h = "SetAddress" => a = SetAddress(r, d, halt, aborted)
  /\ h = "GetDescriptor" => a = GetDescriptor(r, d, halt)
  /\ h = "GetConfiguration" => a = GetConfiguration(r, d, halt)
  /\ h = "SetConfiguration" => a = SetConfiguration(r, d, halt)
  /\ h = "GetInterface" => a = GetInterface(r, d, halt)
  /\ h = "SetInterface" /\ r.in => a = StallEP0(d, halt)
  /\ h = "SetInterface" /\ ~r.in => a = SetInterface(r, d, halt)
  /\ h = "HID_Get_Report" => a = HID_Get_Report(r, d, halt)
  /\ h = "HID_Set_Idle" => a = HID_Set_Idle(r, d, halt)
  /\ h \in SilentHandlers => a = Silence(d, halt)
  /\ h \notin SilentHandlers \cup
        {"GetStatus", "ClearFeature", "SetFeature", "SetAddress", "GetDescriptor",
         "GetConfiguration", "SetConfiguration", "GetInterface", "SetInterface",
         "HID_Get_Report", "HID_Set_Idle"} => a = StallEP0(d, halt)

LEMMA Dispatch ==
  ASSUME NEW r, NEW d, NEW halt, NEW aborted
  PROVE  Dispatched(HandlerOf(r), r, d, halt, aborted, DeviceRequest(r, d, halt, aborted))
  BY DEF Dispatched, DeviceRequest, SilentHandlers

\* A status is the longest answer there is, and the same in every device with that state bit.
LEMMA SingleLength ==
  ASSUME NEW r \in Request, NEW d \in Device, NEW halt \in Halts, NEW aborted \in BOOLEAN,
         DeviceRequest(r, d, halt, aborted).kind = "single", NEW e \in Device
  PROVE  /\ DeviceRequest(r, e, {}, FALSE).len <= DeviceRequest(r, d, halt, aborted).len
         /\ e.address = d.address
            => DeviceRequest(r, d, halt, aborted).len <= DeviceRequest(r, e, {}, FALSE).len
  <1> USE DEF Silence, Single, Burst, StallEP0, Answer
  <1> DEFINE Agrees(x, y) == x.kind = "single"
                             => y.len <= x.len /\ (e.address = d.address => x.len <= y.len)
             a == DeviceRequest(r, d, halt, aborted)
             b == DeviceRequest(r, e, {}, FALSE)
  <1>1. /\ Agrees(GetStatus(r, d, halt), GetStatus(r, e, {}))
        /\ Agrees(GetConfiguration(r, d, halt), GetConfiguration(r, e, {}))
        /\ Agrees(GetInterface(r, d, halt), GetInterface(r, e, {}))
    BY DEF GetStatus, GetConfiguration, GetInterface
  <1>2. /\ Agrees(ClearFeature(r, d, halt), ClearFeature(r, e, {}))
        /\ Agrees(SetFeature(r, d, halt), SetFeature(r, e, {}))
    BY DEF ClearFeature, SetFeature
  <1>3. /\ Agrees(SetAddress(r, d, halt, aborted), SetAddress(r, e, {}, FALSE))
        /\ Agrees(SetConfiguration(r, d, halt), SetConfiguration(r, e, {}))
        /\ Agrees(SetInterface(r, d, halt), SetInterface(r, e, {}))
    BY DEF SetAddress, SetConfiguration, SetInterface
  <1>4. /\ GetDescriptor(r, d, halt).kind # "single"
        /\ HID_Get_Report(r, d, halt).kind # "single"
        /\ HID_Set_Idle(r, d, halt).kind # "single"
        /\ Silence(d, halt).kind # "single" /\ StallEP0(d, halt).kind # "single"
    BY DEF GetDescriptor, HID_Get_Report, HID_Set_Idle
  <1> HIDE DEF Silence, Single, Burst, StallEP0, Answer
  <1>5. \/ a = GetStatus(r, d, halt) /\ b = GetStatus(r, e, {})
        \/ a = GetConfiguration(r, d, halt) /\ b = GetConfiguration(r, e, {})
        \/ a = GetInterface(r, d, halt) /\ b = GetInterface(r, e, {})
        \/ a = ClearFeature(r, d, halt) /\ b = ClearFeature(r, e, {})
        \/ a = SetFeature(r, d, halt) /\ b = SetFeature(r, e, {})
        \/ a = SetAddress(r, d, halt, aborted) /\ b = SetAddress(r, e, {}, FALSE)
        \/ a = SetConfiguration(r, d, halt) /\ b = SetConfiguration(r, e, {})
        \/ a = SetInterface(r, d, halt) /\ b = SetInterface(r, e, {})
        \/ a.kind # "single"
    <2> DEFINE h == HandlerOf(r)
    <2>1. Dispatched(h, r, d, halt, aborted, a) /\ Dispatched(h, r, e, {}, FALSE, b)
      BY Dispatch
    <2> HIDE DEF h, a, b
    <2> QED BY <1>4, <2>1 DEF Dispatched
  <1> HIDE DEF a, b
  <1>6. Agrees(a, b)
    BY <1>1, <1>2, <1>3, <1>5
  <1> QED BY <1>6 DEF a, b

\* A status fits what a proper request asks for.
LEMMA SingleFits ==
  ASSUME NEW r \in Request, NEW d \in Device, NEW halt \in Halts, NEW aborted \in BOOLEAN,
         DeviceRequest(r, d, halt, aborted).kind = "single", r.in, r.wLength > 0, Proper(r)
  PROVE  DeviceRequest(r, d, halt, aborted).len <= r.wLength
  <1> USE DEF Silence, Single, Burst, StallEP0, Answer
  <1> DEFINE h == HandlerOf(r)
             a == DeviceRequest(r, d, halt, aborted)
             Small(x) == x.kind = "single" => x.len <= r.wLength
  <1>1. r.wLength \in Nat /\ r.in = TRUE /\ (h = "GetStatus" => r.wLength >= 2)
    BY DEF Proper, Request
  <1>2. h = "GetStatus" => Small(GetStatus(r, d, halt))
    BY <1>1 DEF GetStatus
  <1>3. Small(GetConfiguration(r, d, halt)) /\ Small(GetInterface(r, d, halt))
    BY <1>1 DEF GetConfiguration, GetInterface
  <1>4. /\ Small(ClearFeature(r, d, halt)) /\ Small(SetFeature(r, d, halt))
        /\ Small(SetAddress(r, d, halt, aborted)) /\ Small(SetConfiguration(r, d, halt))
    BY <1>1 DEF ClearFeature, SetFeature, SetAddress, SetConfiguration
  <1>5. /\ GetDescriptor(r, d, halt).kind # "single"
        /\ HID_Get_Report(r, d, halt).kind # "single"
        /\ HID_Set_Idle(r, d, halt).kind # "single"
        /\ Silence(d, halt).kind # "single" /\ StallEP0(d, halt).kind # "single"
    BY DEF GetDescriptor, HID_Get_Report, HID_Set_Idle
  <1> HIDE DEF Silence, Single, Burst, StallEP0, Answer
  <1>6. Dispatched(h, r, d, halt, aborted, a)
    BY Dispatch
  <1> HIDE DEF h, a
  <1>7. a.kind = "single"
    BY DEF a
  <1>8. a.len <= r.wLength
    BY <1>1, <1>2, <1>3, <1>4, <1>5, <1>6, <1>7 DEF Dispatched
  <1> QED BY <1>8 DEF a

\* What halts endpoint 0 in one device does so in every device with that state bit.
LEMMA SameHalts ==
  ASSUME NEW r \in Request, NEW d \in Device, NEW halt \in Halts, NEW aborted \in BOOLEAN,
         halt \cap {0, 1} = {}, NEW e \in Device, e.address = d.address
  PROVE  /\ IsBurst(DeviceRequest(r, d, halt, aborted))
            => DeviceRequest(r, d, halt, aborted).halt = halt
         /\ DeviceRequest(r, d, halt, aborted).halt \cap {0, 1} # {}
            => DeviceRequest(r, e, {}, FALSE).halt \cap {0, 1} # {}
  <1> USE DEF Silence, Single, Burst, StallEP0, Answer
  <1> DEFINE h == HandlerOf(r)
             a == DeviceRequest(r, d, halt, aborted)
             b == DeviceRequest(r, e, {}, FALSE)
             H(x) == x.halt \cap {0, 1} # {}
             Agrees(x, y) == (x.kind = "burst" => x.halt = halt) /\ (H(x) => H(y))
  <1>1. /\ Agrees(GetStatus(r, d, halt), GetStatus(r, e, {}))
        /\ Agrees(GetConfiguration(r, d, halt), GetConfiguration(r, e, {}))
        /\ Agrees(GetInterface(r, d, halt), GetInterface(r, e, {}))
    BY DEF GetStatus, GetConfiguration, GetInterface
  <1>2. Agrees(ClearFeature(r, d, halt), ClearFeature(r, e, {}))
    BY DEF ClearFeature
  <1>3. Agrees(SetFeature(r, d, halt), SetFeature(r, e, {}))
    BY DEF SetFeature
  <1>4. /\ Agrees(SetAddress(r, d, halt, aborted), SetAddress(r, e, {}, FALSE))
        /\ Agrees(SetConfiguration(r, d, halt), SetConfiguration(r, e, {}))
        /\ Agrees(SetInterface(r, d, halt), SetInterface(r, e, {}))
    BY DEF SetAddress, SetConfiguration, SetInterface
  <1>5. /\ Agrees(GetDescriptor(r, d, halt), GetDescriptor(r, e, {}))
        /\ Agrees(HID_Get_Report(r, d, halt), HID_Get_Report(r, e, {}))
        /\ Agrees(HID_Set_Idle(r, d, halt), HID_Set_Idle(r, e, {}))
        /\ Agrees(Silence(d, halt), Silence(e, {})) /\ Agrees(StallEP0(d, halt), StallEP0(e, {}))
    BY DEF GetDescriptor, HID_Get_Report, HID_Set_Idle
  <1> HIDE DEF Silence, Single, Burst, StallEP0, Answer
  <1>6. Dispatched(h, r, d, halt, aborted, a) /\ Dispatched(h, r, e, {}, FALSE, b)
    BY Dispatch
  <1> HIDE DEF h, a, b, H
  <1>7. Agrees(a, b)
    <2>1. CASE h \in {"GetStatus", "GetConfiguration", "GetInterface", "ClearFeature", "SetFeature"}
      BY <1>1, <1>2, <1>3, <1>6, <2>1 DEF Dispatched
    <2>2. CASE h \in {"SetAddress", "SetConfiguration"} \/ (h = "SetInterface" /\ ~r.in)
      BY <1>4, <1>6, <2>2 DEF Dispatched
    <2>3. CASE h \in {"GetDescriptor", "HID_Get_Report", "HID_Set_Idle"}
      BY <1>5, <1>6, <2>3 DEF Dispatched
    <2>4. CASE (h = "SetInterface" /\ r.in)
      BY <1>5, <1>6, <2>4 DEF Dispatched
    <2>5. CASE h \in SilentHandlers
      BY <1>5, <1>6, <2>5 DEF Dispatched
    <2>6. CASE h \notin SilentHandlers \cup
                {"GetStatus", "ClearFeature", "SetFeature", "SetAddress", "GetDescriptor",
                 "GetConfiguration", "SetConfiguration", "GetInterface", "SetInterface",
                 "HID_Get_Report", "HID_Set_Idle"}
      BY <1>5, <1>6, <2>6 DEF Dispatched
    <2> QED BY <2>1, <2>2, <2>3, <2>4, <2>5, <2>6
  <1> QED BY <1>7 DEF a, b, H, IsBurst

LEMMA BringsFacts ==
  ASSUME NEW r \in Request
  PROVE  /\ Longest(r) \in Nat /\ Brings(r) \in Nat /\ r.wLength \in Nat
         /\ Brings(r) <= r.wLength /\ Brings(r) = Least(r.wLength, Longest(r))
  <1>1. Longest(r) \in Nat /\ r.wLength \in Nat
    BY LongestFacts DEF Request
  <1>2. Brings(r) = Least(r.wLength, Longest(r))
    BY DEF Brings
  <1> QED BY <1>1, <1>2, LeastFacts

\* What a transfer brings, and whether it may be refused, is what the handler answers whatever
\* the device: a descriptor is cut to what was asked for, a status is not.
LEMMA AnswerFacts ==
  ASSUME NEW r \in Request, NEW d \in Device, NEW halt \in Halts, NEW aborted \in BOOLEAN,
         halt \cap {0, 1} = {}, r.in => r.wLength > 0, Proper(r)
  PROVE  LET a == DeviceRequest(r, d, halt, aborted)
         IN  /\ a.kind = "burst" => Longest(r) = a.len /\ a.halt = halt
             /\ a.kind = "single" /\ r.in => Brings(r) = a.len
             /\ a.halt \cap {0, 1} # {} => Refusable(r)
  <1> DEFINE a == DeviceRequest(r, d, halt, aborted)
             len(x) == DeviceRequest(r, x, {}, FALSE).len
  <1>1. PICK e \in Devices : e.address = d.address
    BY DevicesTyped
  <1>2. e \in Device /\ Devices \subseteq Device
    BY DevicesTyped
  <1>3. PICK top \in Devices : Longest(r) = len(top)
    BY LongestFacts
  <1>4. \A x \in Devices : len(x) <= Longest(r) /\ len(x) \in Nat
    BY LongestFacts, AnswersTyped, <1>2
  <1>5. Sound(a, d)
    BY DeviceRequestSound
  <1>6. a.kind = "burst" => Longest(r) = a.len /\ a.halt = halt
    <2> SUFFICES ASSUME IsBurst(a) PROVE Longest(r) = a.len /\ a.halt = halt
      BY DEF IsBurst
    <2>3. r \in Request /\ d \in Device /\ halt \in Halts /\ aborted \in BOOLEAN
      OBVIOUS
    <2>4. \A x \in Device : IsBurst(a) => /\ IsBurst(DeviceRequest(r, x, {}, FALSE))
                                           /\ DeviceRequest(r, x, {}, FALSE).len = a.len
      BY <2>3, BurstFixed, Zenon
    <2>1. len(top) = a.len
      BY <1>2, <1>3, <2>4
    <2>2. a.halt = halt
      BY <1>1, <1>2, SameHalts
    <2> QED BY <1>3, <2>1, <2>2
  <1>7. a.kind = "single" => Longest(r) = a.len
    <2> SUFFICES ASSUME a.kind = "single" PROVE Longest(r) = a.len
      OBVIOUS
    <2>1. len(top) <= a.len
      BY <1>2, <1>3, SingleLength
    <2>2. a.len <= len(e)
      BY <1>1, <1>2, SingleLength
    <2>3. a.len \in Nat
      <3> HIDE DEF a
      <3> QED BY <1>5 DEF Sound, AnswerType
    <2> HIDE DEF a, len
    <2> QED BY <1>1, <1>3, <1>4, <2>1, <2>2, <2>3
  <1>8. a.kind = "single" /\ r.in => Brings(r) = a.len
    <2> SUFFICES ASSUME a.kind = "single", r.in PROVE Brings(r) = a.len
      OBVIOUS
    <2>1. a.len <= r.wLength
      BY SingleFits
    <2>2. Longest(r) = a.len
      BY <1>7
    <2> HIDE DEF a
    <2>3. a.len <= r.wLength /\ a.len \in Nat /\ r.wLength \in Nat
      BY <2>1, <2>2, BringsFacts
    <2> QED BY <2>2, <2>3, BringsFacts DEF Least
  <1>9. a.halt \cap {0, 1} # {} => Refusable(r)
    <2> SUFFICES ASSUME a.halt \cap {0, 1} # {} PROVE Refusable(r)
      OBVIOUS
    <2>1. DeviceRequest(r, e, {}, FALSE).halt \cap {0, 1} # {}
      BY <1>1, <1>2, SameHalts
    <2>2. DeviceRequest(r, e, {}, FALSE) \in Answers(r)
      BY <1>1 DEF Answers
    <2> HIDE DEF a
    <2> QED BY <2>1, <2>2 DEF Refusable
  <1> QED BY <1>6, <1>8, <1>9

\* What the abstract transfer assumes of its constants.
LEMMA AssumptionHolds == Transfer!TransferAssumption
  <1>1. \A r \in Requests : r \in Request
    BY RequestsTyped DEF AnyRequest
  <1>2. \A r \in Requests : r.in \in BOOLEAN /\ Asked(r) \in Nat /\ Brings(r) \in Nat
                            /\ Brings(r) <= Asked(r)
    BY <1>1, BringsFacts DEF Asked, Request
  <1>3. \A r \in Requests : {IsRead(r), HasData(r), Refusable(r)} \subseteq BOOLEAN
    BY <1>2 DEF IsRead, HasData, Refusable
  <1>4. EP0_PACKET_SIZE \in Nat \ {0}
    BY DEF EP0_PACKET_SIZE
  <1> QED BY <1>2, <1>3, <1>4 DEF Transfer!TransferAssumption

-----------------------------------------------------------------------------
(* Steps of the main loop. *)

LEMMA Facts ==
  ASSUME IInv
  PROVE  /\ host.req \in Request /\ host.req.in \in BOOLEAN /\ host.req.wLength \in Nat
         /\ host.got \in Nat /\ req \in Request /\ wLength \in Nat /\ wCount \in Nat
         /\ chip \in ChipType /\ host \in HostType /\ left \in LeftType
         /\ chip.halt \in Halts /\ dev \in Device /\ abort \in BOOLEAN /\ dcp \in DCPStates
         /\ host.req \in Requests /\ host.req.in => host.req.wLength > 0
  <1>1. Typed
    BY TypedIsTypeOK DEF IInv
  <1>2. host.req \in AnyRequest /\ req \in AnyRequest /\ host.got \in Nat /\ chip.halt \in Halts
    BY <1>1 DEF Typed, PipeTypeOK, HostType, ChipType, AnyRequest
  <1>3. host.req \in Request /\ req \in Request
    BY <1>2, RequestsTyped
  <1> QED BY <1>1, <1>2, <1>3, RequestsAssumption DEF Typed, PipeTypeOK, Request

\* DCP_state and D13FLAGS stay as they are.
LEMMA SameFlags ==
  ASSUME UNCHANGED <<dcp, snap>>
  PROVE  \A S : (Held(S)' <=> Held(S)) /\ (Sure(S)' <=> Sure(S))
  BY DEF Held, Sure

\* The transfer is not touched.
LEMMA LoopKeeps ==
  ASSUME TInv, pc \in Loop, pc' \in Loop,
         UNCHANGED <<dcp, snap, req, wLength, wCount, inIsr, ist, reopened, chip, host, left>>
  PROVE  TInv'
  <1>0. \A S : (Held(S)' <=> Held(S)) /\ (Sure(S)' <=> Sure(S))
    BY SameFlags
  <1>1. Plumbing' /\ Within'
    BY <1>0 DEF TInv, Plumbing, Within, InPending
  <1>2. Rest => Rest'
    BY <1>0 DEF Rest, OutPending
  <1>3. Fresh => Fresh'
    BY DEF Fresh, Halted
  <1>4. (SetupPending => SetupPending') /\ (SetupLost => SetupLost')
    BY <1>0, <1>3 DEF SetupPending, SetupLost, OutPending
  <1>5. SetupTaken => SetupTaken'
    BY <1>3 DEF SetupTaken, OutPending, InPending, Served, Loop
  <1>6. Unanswered => Unanswered'
    BY DEF Unanswered, Served, InPending, Halted
  <1>7. (DataAwaited => DataAwaited') /\ (DataLost => DataLost')
    BY <1>0, <1>6 DEF DataAwaited, DataLost, OutPending, Loop
  <1>8. RequestReady => RequestReady'
    BY <1>6 DEF RequestReady, OutPending, Loop
  <1>9. Sending => Sending'
    BY <1>0 DEF Sending, OutPending, InPending, Halted
  <1>10. Replied => Replied'
    BY <1>0 DEF Replied, OutPending, InPending, Halted
  <1> QED
    BY <1>1, <1>2, <1>4, <1>5, <1>7, <1>8, <1>9, <1>10 DEF TInv, UnderWay

LEMMA LoopStepsKeep ==
  ASSUME IInv, TInv,
         \/ CheckSuspend \/ CheckEp1 \/ CheckReport \/ SendReport \/ CheckReset \/ Connect
         \/ CheckSetup /\ dcp # "SETUPPROC"
         \/ CheckRequest /\ (dcp # "REQUESTPROC" \/ abort)
  PROVE  TInv'
  <1>1. /\ UNCHANGED <<dcp, snap, req, wLength, wCount, inIsr, ist, reopened, host>>
        /\ pc \in Loop
    BY DEF CheckSuspend, CheckEp1, CheckReport, SendReport, CheckReset, Connect, CheckSetup,
           CheckRequest, pipeVars, gateVars, isrVars, At, Loop
  <1>2. dcp # "INTR1DONE" /\ left.reports = 0
    BY DEF TInv, Plumbing, Held
  <1>3. UNCHANGED <<chip, left>>
    BY <1>2 DEF CheckSuspend, CheckEp1, CheckReport, SendReport, CheckReset, Connect, CheckSetup,
                CheckRequest
  <1>4. pc' \in Loop
    BY <1>2 DEF CheckSuspend, CheckEp1, CheckReport, SendReport, CheckReset, Connect, CheckSetup,
                CheckRequest, Loop
  <1> QED BY <1>1, <1>3, <1>4, LoopKeeps

\* Where the main loop is tells the stage.
LEMMA PlaceTells ==
  ASSUME TInv
  PROVE  /\ pc \in {"setupEnter", "setupRead", "setupLength", "setupAck"} \/ dcp = "SETUPPROC"
            => SetupTaken /\ host.req \in Requests
         /\ pc = "setupLateAck" => DataAwaited /\ host.req \in Requests
         /\ pc \in {"requestEnter", "requestRun"} \/ dcp = "REQUESTPROC"
            => RequestReady /\ host.req \in Requests
         /\ pc \notin {"setupStall", "setupStallNote", "interface", "interfaceNote", "ep1Load",
                      "ep1Store"}
  BY DEF TInv, Rest, UnderWay, SetupPending, SetupTaken, SetupLost, DataAwaited, RequestReady,
         DataLost, Sending, Replied, Loop, Sure, NoRequest

\* The main loop leaves the host and the handler's sources alone, and makes its steps with no
\* read-modify-write under way.
LEMMA QuietStep ==
  ASSUME TInv, UNCHANGED <<inIsr, ist, reopened, host, left>>, dcp' # "INTR1DONE", snap' = {},
         chip'.int = chip.int, chip'.ep1 = chip.ep1
  PROVE  /\ Plumbing' /\ Within' /\ Served' = Served
         /\ \A S : (Held(S)' <=> dcp' \in S) /\ (Sure(S)' <=> dcp' \in S)
  BY DEF TInv, Plumbing, Within, Served, InPending, Held, Sure

LEMMA SetupStepsKeep ==
  ASSUME IInv, TInv,
         \/ CheckSetup /\ dcp = "SETUPPROC"
         \/ SetupEnter \/ SetupRead \/ SetupLength
  PROVE  TInv'
  <1>1. SetupTaken /\ host.req \in Requests
    BY PlaceTells DEF SetupEnter, SetupRead, SetupLength, At
  <1>2. chip.isSetup /\ ~chip.acked /\ chip.out = 8 /\ chip.setup = host.req
    BY <1>1 DEF SetupTaken, Fresh
  <1>3. /\ UNCHANGED <<inIsr, ist, reopened, host, left, chip, dcp, snap>>
        /\ \E l : l # "ep1Store" /\ At(l)
    BY <1>2 DEF CheckSetup, SetupEnter, SetupRead, SetupLength, pipeVars, gateVars, isrVars
  <1>9. snap = {}
    BY <1>3, AtFacts
  <1>4. dcp' # "INTR1DONE"
    BY <1>1, <1>3 DEF SetupTaken
  <1>5. Plumbing' /\ Within' /\ Served' = Served
    BY <1>3, <1>4, <1>9, QuietStep
  <1>6. Fresh' /\ ~OutPending' /\ ~chip'.ovwr
    BY <1>1, <1>3 DEF SetupTaken, Fresh, OutPending, Halted
  <1>7. /\ pc' \in {"setupEnter", "setupRead", "setupLength", "setupAck"}
        /\ pc' \in {"setupLength", "setupAck"} => req' = host.req
        /\ pc' \in {"setupRead", "setupLength", "setupAck"} => ~abort'
    BY <1>1, <1>2 DEF CheckSetup, SetupEnter, SetupRead, SetupLength, SetupTaken, At, pipeVars
  <1>8. SetupTaken'
    BY <1>1, <1>3, <1>5, <1>6, <1>7, <1>9 DEF SetupTaken
  <1> QED BY <1>1, <1>3, <1>5, <1>8 DEF TInv, UnderWay

\* The acknowledgement and what follows from the request: an answer is due, data are awaited,
\* or the data are refused.
LEMMA AckKeeps ==
  ASSUME IInv, TInv, SetupAck
  PROVE  TInv'
  <1>1. SetupTaken /\ host.req \in Requests
    BY PlaceTells DEF SetupAck, At
  <1>2. ist = {}
    BY DEF SetupAck, At, TInv, Plumbing
  <1>3. /\ req = host.req /\ ~abort /\ ~chip.ovwr /\ chip \in ChipType /\ ~OutPending
        /\ host.phase = FirstPhase(host.req) /\ host.got = 0 /\ chip.in = {} /\ ~Halted
        /\ chip.halt \in Halts /\ req \in Request /\ req.in \in BOOLEAN /\ req.wLength \in Nat
    BY <1>1, Facts DEF SetupTaken, Fresh, SetupAck, At
  <1>4. ~InPending
    BY <1>1, <1>2 DEF SetupTaken, Served
  <1>5. UNCHANGED <<req, inIsr, ist, reopened, host, left>> /\ snap' = {}
    BY AtFacts DEF SetupAck, isrVars
  <1>6. LET c == Acknowledge(chip)
        IN  /\ c.acked /\ c.int = chip.int /\ c.ep1 = chip.ep1 /\ c.in = chip.in
            /\ c.halt = chip.halt /\ c \in ChipType
    BY <1>3, AcknowledgeType DEF Acknowledge, ChipType
  <1> DEFINE c == Acknowledge(chip)
  <1> HIDE DEF c
  <1>7. CASE req.in \/ req.wLength = 0
    <2>1. chip' = c /\ dcp' \in {"HANDSHAKE", "REQUESTPROC"} /\ pc' = "request"
          /\ (dcp' = "HANDSHAKE" => req.in)
      BY <1>7 DEF SetupAck, FitsBuffer, c, IsVendorStatus
    <2>2. /\ Plumbing' /\ Within' /\ Served' = Served
          /\ \A S : (Held(S)' <=> dcp' \in S) /\ (Sure(S)' <=> dcp' \in S)
      BY <1>5, <1>6, <2>1, QuietStep DEF c
    <2>3. /\ ~OutPending' /\ ~InPending' /\ ~Halted' /\ chip'.acked /\ chip'.in = {}
      BY <1>3, <1>4, <1>6, <2>1 DEF OutPending, InPending, Halted, c
    <2>4. host.phase = IF req.in THEN "dataIn" ELSE "statusIn"
      BY <1>3, <1>7 DEF FirstPhase
    <2>5. CASE dcp' = "REQUESTPROC"
      <3>1. Unanswered'
        BY <1>3, <1>5, <1>7, <2>3 DEF Unanswered, Served, MAX_CONTROLDATA_SIZE
      <3>2. RequestReady'
        BY <1>5, <2>1, <2>3, <2>4, <2>5, <3>1 DEF RequestReady, Loop
      <3> QED BY <1>1, <1>5, <2>2, <3>2 DEF TInv, UnderWay
    <2>6. CASE dcp' = "HANDSHAKE"
      <3>1. Replied'
        BY <1>5, <2>1, <2>2, <2>3, <2>4, <2>6 DEF Replied, Loop, Active, NoRequest
      <3> QED BY <1>1, <1>5, <2>2, <3>1 DEF TInv, UnderWay
    <2> QED BY <2>1, <2>5, <2>6
  <1>8. CASE ~req.in /\ req.wLength \in 1..MAX_CONTROLDATA_SIZE
    <2>1. chip' = chip /\ dcp' = "DATAOUT" /\ pc' = "setupLateAck"
      BY <1>8 DEF SetupAck, FitsBuffer, MAX_CONTROLDATA_SIZE
    <2>2. /\ Plumbing' /\ Within' /\ Served' = Served
          /\ \A S : (Held(S)' <=> dcp' \in S) /\ (Sure(S)' <=> dcp' \in S)
      BY <1>5, <2>1, QuietStep
    <2>3. host.phase = "dataOut"
      BY <1>3, <1>8 DEF FirstPhase, MAX_CONTROLDATA_SIZE
    <2>4. Unanswered'
      BY <1>3, <1>4, <1>5, <1>8, <2>1 DEF Unanswered, Served, InPending, Halted, MAX_CONTROLDATA_SIZE
    <2>5. DataAwaited'
      BY <1>1, <1>3, <1>5, <1>8, <2>1, <2>2, <2>3, <2>4 DEF DataAwaited, OutPending, SetupTaken, Fresh
    <2> QED BY <1>1, <1>5, <2>2, <2>5 DEF TInv, UnderWay
  <1>9. CASE ~req.in /\ req.wLength > MAX_CONTROLDATA_SIZE
    <2>1. chip' = [c EXCEPT !.halt = @ \cup {0, 1}] /\ dcp' = "STALL" /\ pc' = "request"
      BY <1>9 DEF SetupAck, FitsBuffer, c, MAX_CONTROLDATA_SIZE
    <2>2. chip'.int = chip.int /\ chip'.ep1 = chip.ep1 /\ chip'.in = chip.in /\ 0 \in chip'.halt
      BY <1>6, <2>1 DEF c, ChipType
    <2>3. /\ Plumbing' /\ Within' /\ Served' = Served
          /\ \A S : (Held(S)' <=> dcp' \in S) /\ (Sure(S)' <=> dcp' \in S)
      BY <1>5, <2>1, <2>2, QuietStep
    <2>4. host.phase = "dataOut" /\ Refusable(host.req)
      BY <1>3, <1>9 DEF FirstPhase, Refusable, MAX_CONTROLDATA_SIZE
    <2>5. Replied'
      BY <1>3, <1>5, <2>1, <2>2, <2>3, <2>4 DEF Replied, OutPending, Loop, Active, NoRequest
    <2> QED BY <1>1, <1>5, <2>3, <2>5 DEF TInv, UnderWay
  <1> QED BY <1>3, <1>7, <1>8, <1>9 DEF MAX_CONTROLDATA_SIZE

LEMMA LateAckKeeps ==
  ASSUME IInv, TInv, SetupLateAck
  PROVE  TInv'
  <1>1. DataAwaited /\ host.req \in Requests
    BY PlaceTells DEF SetupLateAck, At
  <1>2. /\ host.phase = "dataOut" /\ ~OutPending /\ Unanswered /\ dcp = "DATAOUT" /\ ~req.in
    BY <1>1 DEF DataAwaited, SetupLateAck, At, Loop, Sure
  <1>3. UNCHANGED <<dcp, req, inIsr, ist, reopened, host, left>> /\ pc' = "request" /\ snap' = {}
    BY AtFacts DEF SetupLateAck, pipeVars, gateVars, isrVars
  <1>4. /\ chip'.int = chip.int /\ chip'.ep1 = chip.ep1 /\ chip'.in = chip.in
        /\ chip'.halt = chip.halt
    BY Facts DEF SetupLateAck, Acknowledge, ChipType
  <1>5. Plumbing' /\ Within' /\ Served' = Served /\ Sure({"DATAOUT"})'
    BY <1>2, <1>3, <1>4, QuietStep
  <1>6. Unanswered'
    BY <1>2, <1>3, <1>4, <1>5 DEF Unanswered, Halted
  <1>7. DataAwaited'
    BY <1>2, <1>3, <1>4, <1>5, <1>6 DEF DataAwaited, OutPending, Loop
  <1> QED BY <1>1, <1>3, <1>5, <1>7 DEF TInv, UnderWay

\* What a reply does to a chip that has the SETUP acknowledged.
LEMMA TransmitEffect ==
  ASSUME NEW c \in ChipType, c.acked, NEW kind, NEW len, NEW halt
  PROVE  LET t == Transmit(c, kind, len, halt)
         IN  /\ t.int = c.int /\ t.ep1 = c.ep1 /\ t.acked /\ t.halt = halt
             /\ kind = "single" => t.in = {len}
             /\ kind = "burst" => t.in = {Least(Least(wLength, len), EP0_PACKET_SIZE)}
             /\ kind \notin {"single", "burst"} => t.in = c.in
  BY DEF Transmit, WriteIn, ChipType

LEMMA RequestEnterKeeps ==
  ASSUME IInv, TInv, (CheckRequest /\ dcp = "REQUESTPROC" /\ ~abort) \/ RequestEnter
  PROVE  TInv'
  <1>1. RequestReady /\ host.req \in Requests
    BY PlaceTells DEF RequestEnter, At
  <1>2. UNCHANGED <<req, inIsr, ist, reopened, host, left, chip>> /\ snap' = {}
    BY AtFacts DEF CheckRequest, RequestEnter, pipeVars, gateVars, isrVars
  <1>3. \/ dcp' = "REQUESTPROC" /\ pc' = "requestEnter"
        \/ dcp' = "IDLE" /\ pc' = "requestRun"
    BY DEF CheckRequest, RequestEnter, pipeVars
  <1>4. Plumbing' /\ Within' /\ Served' = Served
    BY <1>2, <1>3, QuietStep
  <1>5. Unanswered'
    BY <1>1, <1>2, <1>4 DEF RequestReady, Unanswered, Halted
  <1>6. RequestReady'
    BY <1>1, <1>2, <1>3, <1>5 DEF RequestReady, OutPending
  <1> QED BY <1>1, <1>2, <1>4, <1>6 DEF TInv, UnderWay

\* DeviceRequest_Handler gives the answer, or its first packet, or refuses it.
LEMMA RequestRunKeeps ==
  ASSUME Patient, IInv, TInv, RequestRun
  PROVE  TInv'
  <1> DEFINE a == DeviceRequest(req, dev, chip.halt, abort)
             c == IF HandlerOf(req) = "ML_Reserved" /\ chip.acked
                  THEN [chip EXCEPT !.out = 0] ELSE chip
  <1>1. /\ RequestReady /\ host.req \in Requests /\ ist = {} /\ pc = "requestRun"
        /\ dcp = "IDLE"
    BY PlaceTells DEF RequestRun, At, TInv, Plumbing, RequestReady, Loop
  <1>2. /\ req = host.req /\ chip.acked /\ ~OutPending /\ host.got = 0 /\ chip.in = {} /\ ~Halted
        /\ ~InPending /\ chip.halt \cap {0, 1} = {}
        /\ host.phase = IF req.in THEN "dataIn" ELSE "statusIn"
        /\ ~req.in => req.wLength <= MAX_CONTROLDATA_SIZE
    BY <1>1 DEF RequestReady, Unanswered, Served, Halted
  <1>3. /\ req \in Request /\ dev \in Device /\ chip.halt \in Halts /\ abort \in BOOLEAN
        /\ (req.in => req.wLength > 0) /\ Proper(req) /\ req.in \in BOOLEAN
    BY <1>1, <1>2, Facts DEF Patient
  <1>4. wLength = req.wLength /\ wLength \in Nat /\ wCount \in Nat
    BY <1>1, Facts DEF IInv, Guards, Lengths
  <1>5. /\ a.kind = "burst" => Longest(req) = a.len /\ a.halt = chip.halt
        /\ a.kind = "single" /\ req.in => Brings(req) = a.len
        /\ a.halt \cap {0, 1} # {} => Refusable(req)
    BY <1>2, <1>3, AnswerFacts
  <1>6. Sound(a, dev)
    BY <1>3, DeviceRequestSound
  <1>7. c \in ChipType /\ c.acked /\ c.int = chip.int /\ c.ep1 = chip.ep1 /\ c.in = {}
    BY <1>2, Facts, EmptyOutType DEF ChipType
  <1>8. /\ chip' = Transmit(c, a.kind, a.len, a.halt) /\ Note(a.kind, a.len, dcp)
        /\ UNCHANGED <<req, inIsr, ist, reopened, host, left>> /\ snap' = {}
    BY <1>1, AtFacts DEF RequestRun, isrVars
  <1>9. pc' \in {"connect", "ep1"}
    BY <1>3 DEF RequestRun, Proper
  <1> HIDE DEF a, c
  <1>10. a.len \in Nat /\ (a.kind = "single" => a.len <= 2) /\ a.kind \in ReplyKinds
    BY <1>6 DEF Sound, AnswerType, Sized
  <1>11. /\ chip'.int = chip.int /\ chip'.ep1 = chip.ep1 /\ chip'.acked /\ chip'.halt = a.halt
         /\ a.kind = "single" => chip'.in = {a.len}
         /\ a.kind = "burst" => chip'.in = {Least(Least(wLength, a.len), EP0_PACKET_SIZE)}
         /\ a.kind \notin {"single", "burst"} => chip'.in = {}
    BY <1>7, <1>8, TransmitEffect
  <1>12. \/ dcp' \in {"IDLE", "STALL", "HANDSHAKE"}
         \/ /\ dcp' = "DATAIN" /\ a.kind = "burst"
            /\ wLength' = Least(wLength, a.len) /\ wCount' = 64 /\ wCount' <= wLength'
    BY <1>1, <1>4, <1>8, <1>10, NoteEffect
  <1>13. /\ Plumbing' /\ Within'
         /\ \A S : (Held(S)' <=> dcp' \in S) /\ (Sure(S)' <=> dcp' \in S)
    BY <1>8, <1>11, <1>12, QuietStep
  <1>14. ~OutPending' /\ ~InPending'
    BY <1>2, <1>11 DEF OutPending, InPending
  <1>15. /\ Brings(req) \in Nat /\ Brings(req) <= req.wLength
         /\ Brings(req) = Least(req.wLength, Longest(req))
    BY <1>3, BringsFacts
  <1>16. CASE dcp' \in {"IDLE", "STALL", "HANDSHAKE"}
    <2>1. host.phase = "dataIn" /\ chip'.in # {}
          => chip'.in = {Least(Brings(req) - host.got, EP0_PACKET_SIZE)}
      <3>1. CASE a.kind = "single"
        BY <1>2, <1>5, <1>10, <1>11, <3>1 DEF Least, EP0_PACKET_SIZE
      <3>2. CASE a.kind = "burst"
        BY <1>2, <1>4, <1>5, <1>11, <1>15, <3>2
      <3> QED BY <1>11, <3>1, <3>2
    <2>2. Halted' => Refusable(req)
      BY <1>5, <1>11 DEF Halted
    <2>3. Replied'
      BY <1>2, <1>8, <1>9, <1>13, <1>14, <1>16, <2>1, <2>2 DEF Replied, Active, Loop, NoRequest
    <2> QED BY <1>1, <1>8, <1>13, <2>3 DEF TInv, UnderWay
  <1>17. CASE /\ dcp' = "DATAIN" /\ a.kind = "burst"
              /\ wLength' = Least(wLength, a.len) /\ wCount' = 64 /\ wCount' <= wLength'
    <2>1. wLength' = Brings(req) /\ ~Halted'
      BY <1>2, <1>4, <1>5, <1>11, <1>15, <1>17 DEF Halted
    <2>2. chip'.in = {EP0_PACKET_SIZE}
      BY <1>5, <1>11, <1>15, <1>17, <2>1 DEF Least, EP0_PACKET_SIZE
    <2>3. req.in
      <3>1. 64 <= Brings(req) /\ Brings(req) <= req.wLength /\ req.wLength \in Nat
        BY <1>3, <1>15, <1>17, <2>1, BringsFacts
      <3>2. ~(req.wLength <= MAX_CONTROLDATA_SIZE)
        BY <1>15, <3>1 DEF MAX_CONTROLDATA_SIZE
      <3> QED BY <1>2, <3>2
    <2>4. Sending'
      <3>1. /\ host'.phase = "dataIn" /\ req' = host'.req /\ req'.in /\ pc' \in Loop
            /\ dcp' = "DATAIN" /\ chip'.acked /\ host'.got = 0
        BY <1>2, <1>8, <1>9, <1>11, <1>17, <2>3 DEF Loop
      <3>2. wLength' = Brings(req') /\ wCount' = host'.got + EP0_PACKET_SIZE
        BY <1>8, <1>17, <2>1, <3>1 DEF EP0_PACKET_SIZE
      <3> QED BY <1>13, <1>14, <2>1, <2>2, <3>1, <3>2 DEF Sending
    <2> QED BY <1>1, <1>8, <1>13, <2>4 DEF TInv, UnderWay
  <1> QED BY <1>12, <1>16, <1>17

-----------------------------------------------------------------------------
(* Steps of the interrupt handler. *)

Stage == Rest \/ (host.req \in Requests /\ UnderWay)

\* Interrupts come and go that the stage of the transfer does not depend on, and D13FLAGS is
\* loaded as it is.
LEMMA StageKept ==
  ASSUME Stage, UNCHANGED <<dcp, req, wLength, wCount, pc, abort>>,
         host'.phase = host.phase, host'.req = host.req, host'.got = host.got,
         snap' = snap \/ (pc \in BehindGate /\ \A f \in snap' : f.dcp = dcp),
         chip'.in = chip.in, chip'.out = chip.out, chip'.isSetup = chip.isSetup,
         chip'.setup = chip.setup, chip'.ovwr = chip.ovwr, chip'.acked = chip.acked,
         chip'.halt = chip.halt,
         OutPending' <=> OutPending, InPending' => InPending,
         dcp = "DATAIN" => (InPending' <=> InPending),
         Served => Served'
  PROVE  Stage'
  <1>0. \A S : (Held(S)' => Held(S)) /\ (Sure(S) => Sure(S)')
    BY DEF Held, Sure
  <1>1. Rest => Rest'
    BY <1>0 DEF Rest
  <1>2. Fresh => Fresh'
    BY DEF Fresh, Halted
  <1>3. (SetupPending => SetupPending') /\ (SetupLost => SetupLost')
    BY <1>0, <1>2 DEF SetupPending, SetupLost
  <1>4. SetupTaken => SetupTaken'
    BY <1>2 DEF SetupTaken, BehindGate, Loop
  <1>5. Unanswered => Unanswered'
    BY DEF Unanswered, Halted
  <1>6. (DataAwaited => DataAwaited') /\ (DataLost => DataLost')
    BY <1>0, <1>5 DEF DataAwaited, DataLost
  <1>7. RequestReady => RequestReady'
    BY <1>5 DEF RequestReady, BehindGate, Loop
  <1>8. Sending => Sending'
    BY <1>0 DEF Sending, Halted, Sure
  <1>9. Replied => Replied'
    BY <1>0 DEF Replied, Halted
  <1> QED BY <1>1, <1>3, <1>4, <1>6, <1>7, <1>8, <1>9 DEF Stage, UnderWay

LEMMA EnterKeeps == ASSUME IInv, TInv, IsrEnter PROVE TInv'
  <1>1. /\ ist = {} /\ ist' = chip.int /\ inIsr' = TRUE
        /\ chip' = [chip EXCEPT !.int = @ \cap EndpointSources] /\ chip \in ChipType
        /\ UNCHANGED <<dcp, snap, reopened, req, wLength, wCount, pc, abort, host, left>>
    BY Facts DEF IsrEnter, TInv, Plumbing, pipeVars, loopVars
  <1>2. chip'.int = chip.int \cap EndpointSources /\ chip'.ep1 = chip.ep1
    BY <1>1 DEF ChipType
  <1>3. {"EP0OUT", "EP0IN"} \subseteq EndpointSources
    BY DEF EndpointSources
  <1>4. Plumbing' /\ Within'
    BY <1>1, <1>2, <1>3, SameFlags DEF TInv, Plumbing, Within, InPending
  <1>5. (OutPending' <=> OutPending) /\ (InPending' <=> InPending)
    BY <1>2, <1>3 DEF OutPending, InPending
  <1>6. Served => Served'
    BY <1>1, <1>5 DEF Served
  <1>7. Stage'
    BY <1>1, <1>5, <1>6, StageKept DEF TInv, Stage, ChipType
  <1> QED BY <1>4, <1>7 DEF TInv, Stage

LEMMA DeviceStepsKeep ==
  ASSUME IInv, TInv, IsrSuspendChange \/ IsrResume PROVE TInv'
  <1>1. /\ inIsr' = FALSE /\ ist' = {} /\ ist \cap DeviceSources # {}
        /\ GoesOnAt("At_IRQL1")
        /\ UNCHANGED <<dcp, snap, req, wLength, wCount, pc, abort, host, left, chip>>
    BY DEF IsrSuspendChange, IsrResume, pipeVars, loopVars, DeviceSources
  <1>2. reopened' \in Seq({"At_IRQL1"})
    BY <1>1, GoesOnSeq DEF TInv, Plumbing
  <1>3. Plumbing' /\ Within'
    BY <1>1, <1>2, SameFlags DEF TInv, Plumbing, Within, InPending
  <1>4. Served => Served'
    BY <1>1 DEF Served, InPending
  <1>5. Stage'
    BY <1>1, <1>4, StageKept DEF TInv, Stage, OutPending, InPending
  <1> QED BY <1>3, <1>5 DEF TInv, Stage

\* Where the write-backs of D13FLAGS are made.
LEMMA ResumesFacts ==
  ASSUME IInv, TInv, Resumes
  PROVE  Head(reopened) = "At_IRQL1" /\ pc \in BehindGate /\ ist = {}
         /\ (Advances => reopened' \in Seq({"At_IRQL1"}))
  <1>1. reopened \in Seq({"At_IRQL1"}) /\ reopened # <<>> /\ ist = {}
    BY DEF TInv, Plumbing, Resumes
  <1>2. Head(reopened) \in {"At_IRQL1"}
    BY <1>1, HeadTailProperties
  <1>3. Advances => reopened' \in Seq({"At_IRQL1"})
    BY <1>1, AdvancesSeq
  <1>4. pc \in BehindGate
    BY <1>1 DEF IInv, WriteBack
  <1> QED BY <1>1, <1>2, <1>3, <1>4

LEMMA LoadKeeps == ASSUME IInv, TInv, IsrLoad PROVE TInv' /\ UNCHANGED host
  <1>1. /\ pc \in BehindGate /\ snap' = {D13Flags}
        /\ UNCHANGED <<dcp, inIsr, ist, reopened, req, wLength, wCount, pc, abort, host, left,
                       chip>>
    BY ResumesFacts DEF IsrLoad, pipeVars, gateVars, isrVars
  <1>2. \A f \in snap' : f.dcp = dcp
    BY <1>1 DEF D13Flags
  <1>3. Plumbing' /\ Within'
    BY <1>1, <1>2 DEF TInv, Plumbing, Within, InPending, Held
  <1>4. Stage'
    BY <1>1, <1>2, StageKept DEF TInv, Stage, OutPending, InPending, Served
  <1> QED BY <1>1, <1>3, <1>4 DEF TInv, Stage

\* The store brings back the state of the load. If a SETUP or the data of a write have come
\* since, they are lost; everything else stays in its stage.
LEMMA StoreKeeps == ASSUME IInv, TInv, IsrStore PROVE TInv' /\ UNCHANGED Transfer!vars
  <1>1. PICK f \in snap : StoreFlags(f, f.dcp)
    BY DEF IsrStore
  <1>2. /\ dcp' = f.dcp /\ snap' = {} /\ host \in HostType /\ pc \in BehindGate
        /\ reopened' \in Seq({"At_IRQL1"})
        /\ UNCHANGED <<req, wLength, wCount, abort, inIsr, ist, pc, left, chip>>
    BY <1>1, Facts, ResumesFacts DEF IsrStore, StoreFlags
  <1>3. host'.phase = host.phase /\ host'.req = host.req /\ host'.got = host.got
    BY <1>1, <1>2 DEF StoreFlags, HostType
  <1>4. \A S : (Held(S)' => Held(S)) /\ (Sure(S) => Sure(S)')
    BY <1>1, <1>2 DEF Held, Sure
  <1>5. Plumbing' /\ Within'
    BY <1>2, <1>3, <1>4 DEF TInv, Plumbing, Within, InPending
  <1>6. (OutPending' <=> OutPending) /\ (InPending' <=> InPending) /\ (Served' <=> Served)
        /\ (Halted' <=> Halted)
    BY <1>2 DEF OutPending, InPending, Served, Halted
  <1>7. Rest => Rest'
    BY <1>2, <1>3, <1>4, <1>6 DEF Rest
  <1>8. Fresh => Fresh'
    BY <1>2, <1>3, <1>6 DEF Fresh
  <1>9. (SetupPending => SetupPending') /\ (SetupLost => SetupLost')
    BY <1>2, <1>4, <1>6, <1>8 DEF SetupPending, SetupLost
  <1>10. SetupTaken => SetupTaken' \/ SetupLost'
    <2>1. CASE f.dcp = "SETUPPROC"
      BY <1>2, <1>3, <1>6, <1>8, <2>1 DEF SetupTaken
    <2>2. CASE f.dcp # "SETUPPROC"
      BY <1>2, <1>6, <1>8, <2>2 DEF SetupTaken, SetupLost, Sure
    <2> QED BY <2>1, <2>2
  <1>11. Unanswered => Unanswered'
    BY <1>2, <1>3, <1>6 DEF Unanswered
  <1>12. (DataAwaited => DataAwaited') /\ (DataLost => DataLost')
    BY <1>2, <1>3, <1>4, <1>6, <1>11 DEF DataAwaited, DataLost
  <1>13. RequestReady => RequestReady' \/ DataLost'
    <2> SUFFICES ASSUME RequestReady PROVE RequestReady' \/ DataLost'
      OBVIOUS
    <2>1. pc \in Loop /\ f.dcp \in {"REQUESTPROC", "DATAOUT"} /\ (f.dcp = "DATAOUT" => ~req.in)
      BY <1>2 DEF RequestReady, BehindGate, Loop
    <2>2. CASE f.dcp = "REQUESTPROC"
      BY <1>2, <1>3, <1>6, <1>11, <2>1, <2>2 DEF RequestReady
    <2>3. CASE f.dcp = "DATAOUT"
      BY <1>2, <1>3, <1>6, <1>11, <2>1, <2>3 DEF RequestReady, DataLost, Sure
    <2> QED BY <2>1, <2>2, <2>3
  <1>14. Sending => Sending'
    BY <1>2, <1>3, <1>4, <1>6 DEF Sending
  <1>15. Replied => Replied'
    BY <1>2, <1>3, <1>4, <1>6 DEF Replied
  <1>16. Stage'
    BY <1>3, <1>7, <1>9, <1>10, <1>12, <1>13, <1>14, <1>15 DEF TInv, Stage, UnderWay
  <1> QED BY <1>3, <1>5, <1>16 DEF TInv, Stage, Transfer!vars

LEMMA OpenKeeps == ASSUME TInv, OpenGate PROVE TInv' /\ UNCHANGED host
  <1>1. UNCHANGED <<dcp, snap, inIsr, ist, reopened, req, wLength, wCount, pc, abort, host, left,
                    chip>>
    BY DEF OpenGate, pipeVars, loopVars, isrVars
  <1>2. Plumbing' /\ Within'
    BY <1>1, SameFlags DEF TInv, Plumbing, Within, InPending
  <1>3. Stage'
    BY <1>1, StageKept DEF TInv, Stage, OutPending, InPending, Served
  <1> QED BY <1>1, <1>2, <1>3 DEF TInv, Stage

\* The handler of an endpoint ends, or goes on to the next.
LEMMA ServeFacts ==
  ASSUME TInv, NEW src, Serve(src)
  PROVE  ist' = ist \ {src} /\ inIsr' = (ist # {src}) /\ reopened' \in Seq({"At_IRQL1"})
  BY GoesOnSeq DEF Serve, TInv, Plumbing

\* The OUT interrupt: a SETUP, the data of a write, or the status of a transfer that is over.
LEMMA RxDoneKeeps == ASSUME IInv, TInv, Isr_Ep00RxDone PROVE TInv'
  <1> DEFINE c == ReadStatus(chip, "EP0OUT")
  <1>1. /\ ist \cap DeviceSources = {} /\ "EP0OUT" \in ist /\ ist' = ist \ {"EP0OUT"}
        /\ inIsr' = (ist # {"EP0OUT"}) /\ reopened' \in Seq({"At_IRQL1"})
        /\ UNCHANGED <<req, wLength, pc, snap, host, left>>
    BY ServeFacts DEF Isr_Ep00RxDone, loopVars
  <1>2. chip \in ChipType /\ wLength \in Nat /\ chip.out \in Nat
    BY Facts, PacketFacts DEF ChipType
  <1>3. /\ c \in ChipType /\ c.int = chip.int \ {"EP0OUT"} /\ ~c.ovwr /\ c.ep1 = chip.ep1
        /\ c.in = chip.in /\ c.out = chip.out /\ c.isSetup = chip.isSetup /\ c.setup = chip.setup
        /\ c.acked = chip.acked /\ c.halt = chip.halt
    BY <1>2, ReadStatusType DEF ReadStatus, ChipType
  <1>4. OutPending /\ (InPending => "EP0IN" \in ist)
    BY <1>1 DEF TInv, Plumbing, OutPending, EndpointSources
  <1>5. \/ Rest
        \/ SetupPending /\ host.req \in Requests
        \/ /\ DataAwaited /\ host.req \in Requests /\ host.phase = "statusIn"
           /\ ~chip.isSetup /\ pc \in Loop /\ chip.acked
    BY <1>4 DEF TInv, UnderWay, SetupTaken, SetupLost, DataAwaited, RequestReady, DataLost,
                Sending, Replied
  <1> HIDE DEF c
  <1>6. ASSUME dcp' # "INTR1DONE", chip'.int = c.int, chip'.ep1 = c.ep1, chip'.in = c.in
        PROVE  Plumbing' /\ Within' /\ ~OutPending' /\ Served'
    <2>1. Within'
      BY <1>1 DEF TInv, Within
    <2>2. ~OutPending' /\ ~("EP0OUT" \in ist')
      BY <1>1, <1>3, <1>6 DEF OutPending
    <2>5. ~Held({"INTR1DONE"})'
      BY <1>1, <1>6 DEF TInv, Plumbing, Held
    <2>3. Plumbing'
      BY <1>1, <1>3, <1>6, <2>2, <2>5 DEF TInv, Plumbing
    <2>4. Served'
      BY <1>1, <1>3, <1>4, <1>6 DEF Served, InPending
    <2> QED BY <2>1, <2>2, <2>3, <2>4
  <1>7. CASE SetupPending /\ host.req \in Requests
    <2>1. chip.isSetup /\ pc \in Loop
      BY <1>7 DEF SetupPending, Fresh
    <2>2. dcp' = "SETUPPROC" /\ chip' = c
      BY <2>1 DEF Isr_Ep00RxDone, c
    <2>3. Plumbing' /\ Within' /\ ~OutPending' /\ Served'
      BY <1>6, <2>2
    <2>4. Fresh'
      BY <1>1, <1>3, <1>7, <2>2 DEF SetupPending, Fresh, Halted
    <2>5. SetupTaken'
      BY <1>1, <1>3, <1>7, <2>1, <2>2, <2>3, <2>4 DEF SetupTaken, SetupPending, Sure, Loop
    <2> QED BY <1>1, <1>7, <2>3, <2>5 DEF TInv, UnderWay
  <1>8. CASE /\ DataAwaited /\ host.req \in Requests /\ host.phase = "statusIn"
             /\ ~chip.isSetup /\ pc \in Loop /\ chip.acked
    <2>1. Unanswered /\ dcp = "DATAOUT" /\ ~req.in /\ \A f \in snap : f.dcp = "DATAOUT"
      BY <1>8 DEF DataAwaited, Sure
    <2>2. TakeDataOut(c)
      BY <1>8, <2>1 DEF Isr_Ep00RxDone, c
    <2>3. (wCount = 0 \/ chip.out = 0) /\ wLength <= 16
      BY <1>8, <2>1 DEF IInv, Counters, WriteInHand, Dry, Held, MAX_CONTROLDATA_SIZE
    <2>4. dcp' = "REQUESTPROC"
      BY <1>2, <1>3, <2>2, <2>3 DEF TakeDataOut, Least, EP0_PACKET_SIZE
    <2>5. /\ chip'.int = c.int /\ chip'.ep1 = c.ep1 /\ chip'.in = c.in /\ chip'.acked
          /\ chip'.halt = c.halt
      BY <1>3, <1>8, <2>2 DEF TakeDataOut, ChipType
    <2>6. Plumbing' /\ Within' /\ ~OutPending' /\ Served'
      BY <1>6, <2>4, <2>5
    <2>7. Unanswered'
      BY <1>1, <1>3, <2>1, <2>5, <2>6 DEF Unanswered, Halted
    <2>8. RequestReady'
      BY <1>1, <1>8, <2>1, <2>4, <2>5, <2>6, <2>7 DEF RequestReady
    <2> QED BY <1>1, <1>8, <2>6, <2>8 DEF TInv, UnderWay
  <1>9. CASE Rest
    <2>1. ~chip.isSetup /\ dcp \in {"IDLE", "DATAIN", "HANDSHAKE", "STALL"} /\ pc \in Loop
          /\ host.phase \in Over /\ \A f \in snap : f.dcp \in NoRequest
      BY <1>4, <1>9 DEF Rest, Sure, NoRequest
    <2>2. /\ dcp' \in {"IDLE", "DATAIN", "STALL"}
          /\ chip' = c \/ chip' = [c EXCEPT !.halt = @ \cup {0, 1}]
      BY <2>1 DEF Isr_Ep00RxDone, c
    <2>3. chip'.int = c.int /\ chip'.ep1 = c.ep1 /\ chip'.in = c.in /\ chip'.isSetup = c.isSetup
      BY <1>3, <2>2 DEF ChipType
    <2>4. Plumbing' /\ Within' /\ ~OutPending' /\ Served'
      BY <1>6, <2>2, <2>3
    <2>5. Rest'
      BY <1>1, <2>1, <2>2, <2>4 DEF Rest, Sure, NoRequest
    <2> QED BY <2>4, <2>5 DEF TInv
  <1> QED BY <1>5, <1>7, <1>8, <1>9

\* The IN interrupt: the next packet of a descriptor under way, for a host that may have all it
\* wants, or have sent another SETUP; in all other states nothing.
LEMMA TxDoneKeeps == ASSUME IInv, TInv, Isr_Ep00TxDone PROVE TInv'
  <1> DEFINE c == [ReadStatus(chip, "EP0IN") EXCEPT !.int = @ \cap EndpointSources]
  <1>1. /\ "EP0IN" \in ist /\ "EP0OUT" \notin ist /\ ist' = ist \ {"EP0IN"}
        /\ inIsr' = (ist # {"EP0IN"}) /\ reopened' \in Seq({"At_IRQL1"})
        /\ UNCHANGED <<req, wLength, pc, abort, snap, host, left>>
    BY ServeFacts DEF Isr_Ep00TxDone, loopVars
  <1>2. chip \in ChipType /\ wLength \in Nat /\ wCount \in Nat /\ host.got \in Nat
    BY Facts
  <1>3. /\ c.int = (chip.int \ {"EP0IN"}) \cap EndpointSources /\ c.ep1 = chip.ep1
        /\ c.in = chip.in /\ c.out = chip.out /\ c.isSetup = chip.isSetup /\ c.setup = chip.setup
        /\ c.acked = chip.acked /\ c.halt = chip.halt /\ c.ovwr = chip.ovwr
    BY <1>2 DEF ReadStatus, ChipType
  <1>4. c \in ChipType
    <2>1. c = [chip EXCEPT !.int = (chip.int \ {"EP0IN"}) \cap EndpointSources]
      BY <1>2 DEF ReadStatus, ChipType
    <2>2. (chip.int \ {"EP0IN"}) \cap EndpointSources \in SourceSets
      BY <1>2, SourceFacts DEF ChipType
    <2> HIDE DEF c
    <2> QED BY <1>2, <2>1, <2>2 DEF ChipType
  <1>5. dcp # "INTR1DONE"
    BY DEF TInv, Plumbing, Held
  <1>6. /\ dcp # "DATAIN" => chip' = c /\ UNCHANGED <<dcp, wCount>>
        /\ dcp = "DATAIN" => NextPacket(c)
    BY <1>5 DEF Isr_Ep00TxDone
  <1> HIDE DEF c
  <1>7. ASSUME dcp' # "INTR1DONE", chip'.int = c.int, chip'.ep1 = c.ep1
        PROVE  /\ Plumbing' /\ Within' /\ ~InPending' /\ Served' /\ (OutPending' <=> OutPending)
    <2>1. ~InPending' /\ (OutPending' <=> OutPending) /\ Served'
      BY <1>3, <1>7 DEF InPending, OutPending, Served, EndpointSources
    <2>2. Plumbing' /\ Within'
      BY <1>1, <1>3, <1>7 DEF TInv, Plumbing, Within, Held
    <2> QED BY <2>1, <2>2
  <1>8. CASE dcp # "DATAIN"
    <2>1. chip' = c /\ UNCHANGED <<dcp, wCount>>
      BY <1>6, <1>8
    <2>2. Plumbing' /\ Within' /\ ~InPending' /\ Served' /\ (OutPending' <=> OutPending)
      BY <1>5, <1>7, <2>1
    <2>3. Stage'
      BY <1>1, <1>3, <1>8, <2>1, <2>2, StageKept DEF TInv, Stage
    <2> QED BY <2>2, <2>3 DEF TInv, Stage
  <1>9. CASE dcp = "DATAIN"
    <2> DEFINE i == wLength - wCount
               n == Least(i, EP0_PACKET_SIZE)
    <2>1. chip' = WriteIn(c, n) /\ wCount' = wCount + n
          /\ dcp' = IF i >= EP0_PACKET_SIZE THEN "DATAIN" ELSE "HANDSHAKE"
      BY <1>6, <1>9 DEF NextPacket
    <2>2. i \in Nat
      BY <1>2, <1>9 DEF IInv, Counters, ReadInHand, Held
    <2>3. /\ chip'.int = c.int /\ chip'.ep1 = c.ep1 /\ chip'.isSetup = c.isSetup
          /\ chip'.out = c.out /\ chip'.setup = c.setup
          /\ chip'.acked = c.acked /\ chip'.halt = c.halt
          /\ chip'.in = IF c.acked THEN {n} ELSE c.in
      <3> HIDE DEF n
      <3> QED BY <1>4, <2>1 DEF WriteIn, ChipType
    <2>4. dcp' \in {"DATAIN", "HANDSHAKE"}
      BY <2>1
    <2>5. Plumbing' /\ Within' /\ ~InPending' /\ Served' /\ (OutPending' <=> OutPending)
      BY <1>7, <2>3, <2>4
    <2>11. InPending
      BY <1>1 DEF TInv, Plumbing, InPending, EndpointSources
    <2>6. \/ Rest
          \/ SetupPending /\ host.req \in Requests
          \/ SetupLost /\ host.req \in Requests
          \/ Sending /\ host.req \in Requests
          \/ Replied /\ host.req \in Requests /\ host.phase = "statusOut"
      BY <1>9, <2>11 DEF TInv, UnderWay, SetupTaken, DataAwaited, RequestReady, DataLost, Replied,
                         Sure, Held
    <2>12. Sure(NoRequest) => Sure(NoRequest)'
      BY <1>1, <2>4 DEF Sure, NoRequest
    <2>7. CASE Rest
      <3>1. Rest'
        BY <1>1, <1>3, <2>3, <2>5, <2>7, <2>12 DEF Rest
      <3> QED BY <2>5, <3>1 DEF TInv
    <2>8. CASE (SetupPending \/ SetupLost) /\ host.req \in Requests
      <3>1. Fresh'
        BY <1>1, <1>3, <2>3, <2>8 DEF SetupPending, SetupLost, Fresh, Halted
      <3>2. SetupPending' \/ SetupLost'
        BY <1>1, <2>5, <2>8, <2>12, <3>1 DEF SetupPending, SetupLost
      <3> QED BY <1>1, <2>5, <2>8, <3>2 DEF TInv, UnderWay
    <2>9. CASE Replied /\ host.req \in Requests /\ host.phase = "statusOut"
      <3>1. Replied'
        BY <1>1, <1>3, <2>3, <2>5, <2>9, <2>12 DEF Replied, Halted
      <3> QED BY <1>1, <2>5, <2>9, <3>1 DEF TInv, UnderWay
    <2>10. CASE Sending /\ host.req \in Requests
      <3>2. /\ wCount = host.got /\ wLength = Brings(req) /\ req = host.req /\ req.in
            /\ host.phase = "dataIn" /\ chip.acked /\ ~OutPending /\ ~Halted /\ pc \in Loop
            /\ \A f \in snap : f.dcp = "DATAIN"
        BY <2>10, <2>11 DEF Sending, Sure
      <3>3. chip'.in = {n} /\ chip'.acked /\ ~Halted'
        BY <1>3, <2>3, <3>2 DEF Halted
      <3>4. CASE i >= EP0_PACKET_SIZE
        <4>1. n = EP0_PACKET_SIZE /\ dcp' = "DATAIN"
          BY <2>1, <2>2, <3>4 DEF Least, EP0_PACKET_SIZE
        <4>2. chip'.in = {EP0_PACKET_SIZE} /\ wCount' = host.got + EP0_PACKET_SIZE
          BY <2>1, <3>2, <3>3, <4>1
        <4> HIDE DEF n, i
        <4>3. Sending'
          BY <1>1, <2>5, <3>2, <3>3, <4>1, <4>2 DEF Sending, Sure
        <4> QED BY <1>1, <2>5, <2>10, <4>3 DEF TInv, UnderWay
      <3>5. CASE ~(i >= EP0_PACKET_SIZE)
        <4>1. dcp' = "HANDSHAKE" /\ n = Least(Brings(req) - host.got, EP0_PACKET_SIZE)
          BY <2>1, <3>2, <3>5
        <4>4. n < EP0_PACKET_SIZE
          BY <2>2, <3>5 DEF Least, EP0_PACKET_SIZE
        <4> HIDE DEF n, i
        <4>2. chip'.in = {Least(Brings(host.req) - host.got, EP0_PACKET_SIZE)}
          BY <3>2, <3>3, <4>1
        <4>5. Sure(NoRequest)' /\ \E m \in chip'.in : m < EP0_PACKET_SIZE
          BY <1>1, <3>2, <3>3, <4>1, <4>4 DEF Sure, NoRequest
        <4>3. Replied'
          BY <1>1, <2>5, <3>2, <3>3, <4>2, <4>5 DEF Replied, Active
        <4> QED BY <1>1, <2>5, <2>10, <4>3 DEF TInv, UnderWay
      <3> QED BY <3>4, <3>5
    <2> QED BY <2>6, <2>7, <2>8, <2>9, <2>10
  <1> QED BY <1>8, <1>9

-----------------------------------------------------------------------------
(* Steps of the host, each of them also as a step of the abstract transfer. *)

LEMMA FirstPhaseFacts ==
  ASSUME NEW r \in Request
  PROVE  /\ FirstPhase(r) \in {"dataIn", "dataOut", "statusIn"}
         /\ FirstPhase(r) = IF r.in THEN "dataIn" ELSE IF r.wLength > 0 THEN "dataOut" ELSE "statusIn"
  BY DEF FirstPhase, Request

LEMMA ActiveUnderWay ==
  ASSUME IInv, TInv
  PROVE  /\ host.phase \in Active => host.req \in Requests /\ UnderWay
         /\ host.phase \in Over => Rest
  <1>1. FirstPhase(host.req) \in Active
    BY Facts, FirstPhaseFacts DEF Active
  <1>2. UnderWay => host.phase \in Active
    BY <1>1 DEF UnderWay, SetupPending, SetupTaken, SetupLost, Fresh, DataAwaited, RequestReady,
                DataLost, Sending, Replied, Active
  <1> QED BY <1>2 DEF TInv, Rest, Over, Active

\* A patient host begins a transfer only when it has seen the end of the one before.
LEMMA HostSetupKeeps ==
  ASSUME IInv, TInv, NEW r \in Requests, HostSetup(r)
  PROVE  TInv' /\ Transfer!Begin(r)
  <1>1. left.aborts = 0 /\ host.phase \notin Active
    BY DEF TInv, Plumbing, HostSetup
  <1>2. host.phase \in Over
    BY <1>1, Facts DEF HostType, Phases, Active, Ended, Over
  <1>3. Rest
    BY <1>2, ActiveUnderWay
  <1>4. chip \in ChipType /\ r \in Request /\ left \in LeftType
    BY Facts, RequestsTyped DEF AnyRequest
  <1>5. /\ UNCHANGED <<dcp, snap, pc, inIsr, ist, reopened>>
        /\ left'.aborts = left.aborts /\ left'.resets = left.resets /\ left'.reports = left.reports
        /\ host'.phase = FirstPhase(r) /\ host'.req = r /\ host'.got = 0
    BY <1>1, <1>4 DEF HostSetup, firmwareVars, pipeVars, loopVars, gateVars, isrVars, LeftType
  <1>6. /\ chip'.int = chip.int \cup {"EP0OUT"} /\ chip'.out = 8 /\ chip'.isSetup
        /\ chip'.setup = r /\ ~chip'.acked /\ chip'.in = {} /\ chip'.halt = chip.halt \ {0, 1}
        /\ chip'.ep1 = chip.ep1
    BY <1>4 DEF HostSetup, ChipType
  <1>7. OutPending' /\ (InPending' <=> InPending)
    BY <1>6 DEF OutPending, InPending
  <1>8. Plumbing'
    BY <1>5, <1>6, <1>7, SameFlags DEF TInv, Plumbing
  <1>9. Within'
    BY <1>4, <1>5, BringsFacts DEF Within
  <1>10. Fresh'
    BY <1>5, <1>6 DEF Fresh, Halted
  <1>11. SetupPending'
    BY <1>3, <1>5, <1>7, <1>10, SameFlags DEF SetupPending, Rest
  <1>12. TInv'
    BY <1>5, <1>8, <1>9, <1>11 DEF TInv, UnderWay
  <1>13. Transfer!Begin(r)
    BY <1>2, <1>4, <1>5, FirstPhaseFacts DEF Transfer!Begin, Transfer!Over, Over, IsRead, HasData
  <1> QED BY <1>12, <1>13

\* The host's other steps leave the firmware alone, so that only the stage is in question.
LEMMA HostQuiet ==
  ASSUME TInv, UNCHANGED firmwareVars, UNCHANGED left,
         chip'.ep1 = chip.ep1, chip'.int \in {chip.int, chip.int \cup {"EP0IN"}, chip.int \cup {"EP0OUT"}},
         chip'.int = chip.int \cup {"EP0IN"} => ~OutPending
  PROVE  Plumbing'
  <1>1. UNCHANGED <<dcp, snap, inIsr, ist, reopened>>
    BY DEF firmwareVars, pipeVars, loopVars, gateVars, isrVars
  <1>2. "EP0OUT" \in ist => OutPending
    BY DEF TInv, Plumbing, OutPending, EndpointSources
  <1> QED BY <1>1, <1>2, SameFlags DEF TInv, Plumbing, InPending, OutPending

LEMMA HostSendDataKeeps ==
  ASSUME IInv, TInv, HostSendData
  PROVE  TInv' /\ Transfer!SendData
  <1>1. host.phase = "dataOut" /\ chip.acked /\ 0 \notin chip.halt /\ host.req \in Requests /\ UnderWay
    BY ActiveUnderWay DEF HostSendData, Active
  <1>2. /\ DataAwaited /\ ~OutPending /\ pc \in Loop /\ Unanswered /\ ~req.in
        /\ Sure({"DATAOUT"})
    BY <1>1 DEF UnderWay, SetupPending, SetupTaken, SetupLost, Fresh, DataAwaited, RequestReady,
                DataLost, Sending, Replied, Sure
  <1>3. /\ UNCHANGED <<dcp, snap, req, pc, ist, left>>
        /\ host' = [host EXCEPT !.phase = "statusIn"] /\ host \in HostType /\ chip \in ChipType
    BY Facts DEF HostSendData, firmwareVars, pipeVars, loopVars, gateVars, isrVars
  <1>4. /\ chip'.int = chip.int \cup {"EP0OUT"} /\ ~chip'.isSetup /\ chip'.in = chip.in
        /\ chip'.halt = chip.halt /\ chip'.acked = chip.acked /\ chip'.ep1 = chip.ep1
    BY <1>3 DEF HostSendData, ChipType
  <1>5. host'.phase = "statusIn" /\ host'.req = host.req /\ host'.got = host.got
    BY <1>3 DEF HostType
  <1>6. OutPending' /\ (InPending' <=> InPending) /\ (Served' <=> Served)
    BY <1>3, <1>4 DEF OutPending, InPending, Served
  <1>7. Plumbing' /\ Within'
    BY <1>2, <1>3, <1>4, <1>5, HostQuiet DEF TInv, Within, HostSendData
  <1>8. Unanswered'
    BY <1>2, <1>3, <1>4, <1>5, <1>6 DEF Unanswered, Halted
  <1>9. DataAwaited'
    BY <1>1, <1>2, <1>3, <1>4, <1>5, <1>6, <1>8, SameFlags DEF DataAwaited
  <1>10. TInv'
    BY <1>1, <1>5, <1>7, <1>9 DEF TInv, UnderWay
  <1>11. Transfer!SendData
    BY <1>1, <1>5 DEF Transfer!SendData
  <1> QED BY <1>10, <1>11

\* The status stage, whatever its direction, is the last the host asks for.
LEMMA HostStatusKeeps ==
  ASSUME IInv, TInv, HostStatusOut \/ HostStatusIn
  PROVE  TInv' /\ Transfer!Status
  <1>1. /\ host.phase \in {"statusOut", "statusIn"} /\ host.req \in Requests /\ UnderWay
        /\ host.phase = "statusIn" => chip.in # {}
    BY ActiveUnderWay DEF HostStatusOut, HostStatusIn, Active
  <1>2. Replied
    <2>1. FirstPhase(host.req) # "statusOut"
      BY Facts, FirstPhaseFacts
    <2> QED BY <1>1, <2>1 DEF UnderWay, SetupPending, SetupTaken, SetupLost, Fresh, DataAwaited,
                              RequestReady, DataLost, Unanswered, Sending
  <1>3. /\ UNCHANGED <<dcp, snap, pc, ist, left>>
        /\ host' = [host EXCEPT !.phase = "complete"] /\ host \in HostType /\ chip \in ChipType
    BY Facts DEF HostStatusOut, HostStatusIn, firmwareVars, pipeVars, loopVars, gateVars, isrVars
  <1>4. host'.phase = "complete" /\ host'.req = host.req /\ host'.got = host.got
    BY <1>3 DEF HostType
  <1>5. /\ chip'.ep1 = chip.ep1
        /\ \/ chip'.int = chip.int \cup {"EP0OUT"} /\ ~chip'.isSetup
           \/ chip'.int = chip.int \cup {"EP0IN"}
    BY <1>3 DEF HostStatusOut, HostStatusIn, ChipType
  <1>6. OutPending' => ~chip'.isSetup
    BY <1>2, <1>5 DEF OutPending, Replied
  <1>7. Plumbing' /\ Within'
    BY <1>2, <1>3, <1>4, <1>5, HostQuiet DEF TInv, Within, HostStatusOut, HostStatusIn, Replied
  <1>8. Rest'
    BY <1>2, <1>3, <1>4, <1>6, SameFlags DEF Rest, Replied, Over
  <1>9. TInv'
    BY <1>7, <1>8 DEF TInv
  <1>10. Transfer!Status
    BY <1>1, <1>4 DEF Transfer!Status
  <1> QED BY <1>9, <1>10

\* A stall is seen only of a request that may be refused.
LEMMA HostStallKeeps ==
  ASSUME IInv, TInv, HostSeesStall
  PROVE  TInv' /\ Transfer!Stall
  <1>1. /\ host.phase \in Active /\ host.req \in Requests /\ UnderWay /\ Halted
    BY ActiveUnderWay DEF HostSeesStall, Active, Halted
  <1>2. Replied
    BY <1>1 DEF UnderWay, SetupPending, SetupTaken, SetupLost, Fresh, DataAwaited, RequestReady,
                DataLost, Unanswered, Sending
  <1>3. /\ UNCHANGED <<dcp, snap, pc, ist, left, chip>>
        /\ host' = [host EXCEPT !.phase = "stalled"] /\ host \in HostType
    BY Facts DEF HostSeesStall, firmwareVars, pipeVars, loopVars, gateVars, isrVars
  <1>4. host'.phase = "stalled" /\ host'.req = host.req /\ host'.got = host.got
    BY <1>3 DEF HostType
  <1>5. Plumbing' /\ Within'
    BY <1>2, <1>3, <1>4, HostQuiet DEF TInv, Within, HostSeesStall, Replied
  <1>6. Rest'
    BY <1>2, <1>3, <1>4, SameFlags DEF Rest, Replied, Over, OutPending
  <1>7. TInv'
    BY <1>5, <1>6 DEF TInv
  <1>8. Transfer!Stall
    BY <1>1, <1>2, <1>4 DEF Transfer!Stall, Transfer!Running, Active, Replied
  <1> QED BY <1>7, <1>8

\* The packet the host takes is the next of its own answer: all of it that is left, or a full one.
LEMMA HostTakeDataKeeps ==
  ASSUME IInv, TInv, HostTakeData
  PROVE  TInv' /\ Transfer!Packet
  <1> DEFINE rest == Brings(host.req) - host.got
             n    == Least(rest, EP0_PACKET_SIZE)
  <1>1. /\ host.phase = "dataIn" /\ chip.in # {} /\ 1 \notin chip.halt
        /\ host.req \in Requests /\ UnderWay
    BY ActiveUnderWay DEF HostTakeData, Active
  <1>2. (Sending /\ chip.in = {EP0_PACKET_SIZE} /\ wCount = host.got + EP0_PACKET_SIZE) \/ Replied
    BY <1>1 DEF UnderWay, SetupPending, SetupTaken, SetupLost, Fresh, DataAwaited, RequestReady,
                DataLost, Unanswered, Sending
  <1>3. /\ Brings(host.req) \in Nat /\ Brings(host.req) <= host.req.wLength
        /\ host.req.wLength \in Nat /\ host.got \in Nat /\ host.got <= Brings(host.req)
    BY Facts, BringsFacts DEF TInv, Within
  <1>4. rest \in Nat
    BY <1>3
  <1>5. chip.in = {n}
    <2>1. CASE Sending /\ chip.in = {EP0_PACKET_SIZE} /\ wCount = host.got + EP0_PACKET_SIZE
      <3>1. wCount <= Brings(host.req)
        BY <2>1 DEF Sending, Sure, IInv, Counters, ReadInHand, Held
      <3>2. n = EP0_PACKET_SIZE
        BY <1>3, <2>1, <3>1 DEF Least, EP0_PACKET_SIZE
      <3> QED BY <2>1, <3>2
    <2>2. CASE Replied
      BY <1>1, <2>2 DEF Replied
    <2> QED BY <1>2, <2>1, <2>2
  <1>6. /\ n \in Nat /\ n <= rest /\ (n < EP0_PACKET_SIZE => n = rest)
        /\ n = IF rest < EP0_PACKET_SIZE THEN rest ELSE EP0_PACKET_SIZE
        /\ host.got + n \in Nat /\ host.got + n <= Brings(host.req)
    BY <1>3, <1>4 DEF Least, EP0_PACKET_SIZE
  <1>7. /\ UNCHANGED <<dcp, snap, req, wLength, wCount, pc, ist, left>>
        /\ chip' = [chip EXCEPT !.in = {}, !.int = @ \cup {"EP0IN"}]
        /\ host \in HostType /\ chip \in ChipType
    BY Facts DEF HostTakeData, firmwareVars, pipeVars, loopVars, gateVars, isrVars
  <1> HIDE DEF n
  <1>8. host' = [host EXCEPT !.got = @ + n,
                             !.phase = IF n < EP0_PACKET_SIZE \/ host.got + n >= host.req.wLength
                                       THEN "statusOut" ELSE "dataIn"]
    BY <1>5 DEF HostTakeData
  <1>9. /\ host'.got = host.got + n /\ host'.req = host.req
        /\ host'.phase = IF n < EP0_PACKET_SIZE \/ host.got + n >= host.req.wLength
                         THEN "statusOut" ELSE "dataIn"
    BY <1>7, <1>8 DEF HostType
  <1>10. /\ chip'.in = {} /\ chip'.int = chip.int \cup {"EP0IN"} /\ chip'.ep1 = chip.ep1
         /\ chip'.halt = chip.halt /\ chip'.acked = chip.acked
    BY <1>7 DEF ChipType
  <1>11. ~OutPending /\ pc \in Loop
    BY <1>2 DEF Sending, Replied
  <1>12. ~OutPending' /\ InPending' /\ (Halted' <=> Halted)
    BY <1>10, <1>11 DEF OutPending, InPending, Halted
  <1>13. Plumbing'
    BY <1>7, <1>10, <1>11, HostQuiet DEF HostTakeData
  <1>14. Within'
    BY <1>6, <1>9 DEF Within
  <1>15. UnderWay'
    <2>1. CASE Sending /\ wCount = host.got + EP0_PACKET_SIZE /\ chip.in = {EP0_PACKET_SIZE}
               /\ host'.phase = "dataIn"
      <3>1. n = EP0_PACKET_SIZE
        BY <1>5, <2>1
      <3>2. wCount' = host'.got /\ wLength' = Brings(req') /\ req' = host'.req
        BY <1>7, <1>9, <2>1, <3>1 DEF Sending
      <3>3. Sending'
        BY <1>7, <1>10, <1>12, <2>1, <3>2, SameFlags DEF Sending
      <3> QED BY <3>3 DEF UnderWay
    <2>2. CASE host'.phase = "statusOut"
      <3>1. Sure(NoRequest) /\ (Halted => Refusable(host.req))
        BY <1>2 DEF Sending, Replied, Sure, NoRequest
      <3>2. Replied'
        BY <1>7, <1>9, <1>10, <1>11, <1>12, <2>2, <3>1, SameFlags DEF Replied, Active
      <3> QED BY <3>2 DEF UnderWay
    <2>3. CASE Replied /\ host'.phase = "dataIn"
      <3>2. ~Held({"DATAIN"})
        BY <1>1, <1>5, <1>9, <2>3 DEF Replied
      <3>1. Replied'
        BY <1>1, <1>7, <1>9, <1>10, <1>11, <1>12, <2>3, <3>2, SameFlags DEF Replied, Active
      <3> QED BY <3>1 DEF UnderWay
    <2> QED BY <1>2, <1>9, <2>1, <2>2, <2>3
  <1>16. TInv'
    BY <1>1, <1>9, <1>13, <1>14, <1>15 DEF TInv
  <1>17. Transfer!Packet
    <2>1. host.got + n >= host.req.wLength <=> host.got + n = host.req.wLength
      BY <1>3, <1>6
    <2>2. host'.phase = IF n < EP0_PACKET_SIZE \/ host'.got = Asked(host.req)
                        THEN "statusOut" ELSE "dataIn"
      BY <1>9, <2>1 DEF Asked
    <2>3. n = IF Brings(host.req) - host.got < EP0_PACKET_SIZE
              THEN Brings(host.req) - host.got ELSE EP0_PACKET_SIZE
      BY <1>6
    <2> QED BY <1>1, <1>9, <2>2, <2>3 DEF Transfer!Packet
  <1> QED BY <1>16, <1>17

LEMMA SuspendKeeps == ASSUME IInv, TInv, HostSuspendOrResume PROVE TInv' /\ UNCHANGED host
  <1>1. PICK src \in {"SUSPEND", "RESUME"} : chip' = [chip EXCEPT !.int = @ \cup {src}]
    BY DEF HostSuspendOrResume
  <1>2. /\ UNCHANGED <<dcp, snap, req, wLength, wCount, pc, abort, inIsr, ist, reopened, host>>
        /\ left'.aborts = left.aborts /\ left'.resets = left.resets /\ left'.reports = left.reports
        /\ chip \in ChipType
    BY Facts DEF HostSuspendOrResume, firmwareVars, pipeVars, loopVars, gateVars, isrVars, LeftType
  <1>3. /\ chip'.int = chip.int \cup {src} /\ chip'.ep1 = chip.ep1 /\ chip'.in = chip.in
        /\ chip'.out = chip.out /\ chip'.isSetup = chip.isSetup /\ chip'.setup = chip.setup
        /\ chip'.ovwr = chip.ovwr /\ chip'.acked = chip.acked /\ chip'.halt = chip.halt
    BY <1>1, <1>2 DEF ChipType
  <1>4. (OutPending' <=> OutPending) /\ (InPending' <=> InPending) /\ (Served' <=> Served)
    BY <1>2, <1>3 DEF OutPending, InPending, Served
  <1>5. Plumbing' /\ Within'
    BY <1>2, <1>3, <1>4, SameFlags DEF TInv, Plumbing, Within
  <1>6. Stage'
    BY <1>2, <1>3, <1>4, StageKept DEF TInv, Stage
  <1> QED BY <1>2, <1>5, <1>6 DEF TInv, Stage

-----------------------------------------------------------------------------

LEMMA InitTInv == ASSUME Patient, Init PROVE TInv /\ Transfer!Init
  <1>1. MaxAborts = 0 /\ MaxResets = 0 /\ MaxReports = 0
    BY DEF Patient
  <1>2. Plumbing
    BY <1>1, EmptySeq DEF Init, Plumbing, InPending, Held
  <1>3. Rest
    BY DEF Init, Rest, Over, Loop, OutPending, Sure, NoRequest
  <1>4. Within
    <2>1. ZeroRequest \in Request
      BY RequestsTyped DEF AnyRequest
    <2>2. Brings(ZeroRequest) \in Nat
      BY <2>1, BringsFacts
    <2> QED BY <2>2 DEF Init, Within
  <1>5. Transfer!Init
    BY DEF Init, Transfer!Init
  <1> QED BY <1>2, <1>3, <1>4, <1>5 DEF TInv

LEMMA MainKeepsTInv ==
  ASSUME Patient, IInv, TInv, MainStep PROVE TInv' /\ UNCHANGED host
  <1>1. ~(SetupStall \/ SetupStallNote \/ InterfaceReply \/ InterfaceNote \/ Ep1Load \/ Ep1Store)
    BY PlaceTells DEF SetupStall, SetupStallNote, InterfaceReply, InterfaceNote, Ep1Load, Ep1Store,
                      At
  <1>2. TInv'
    BY <1>1, LoopStepsKeep, SetupStepsKeep, AckKeeps, LateAckKeeps, RequestEnterKeeps,
       RequestRunKeeps DEF MainStep
  <1>3. UNCHANGED host
    BY <1>1 DEF MainStep, CheckSuspend, CheckSetup, SetupEnter, SetupRead, SetupLength, SetupAck,
                SetupLateAck, CheckRequest, RequestEnter, RequestRun, Connect, CheckEp1,
                CheckReport, SendReport, CheckReset
  <1> QED BY <1>2, <1>3

LEMMA IsrKeepsTInv == ASSUME IInv, TInv, IsrStep PROVE TInv' /\ UNCHANGED Transfer!vars
  <1>1. ~(IsrBusReset \/ Isr_Ep01Done \/ IsrResetState)
    BY ResumesFacts DEF TInv, Plumbing, IsrBusReset, Isr_Ep01Done, IsrResetState
  <1>2. CASE IsrStore
    BY <1>2, StoreKeeps
  <1>3. CASE ~IsrStore
    <2>1. TInv'
      BY <1>1, <1>3, EnterKeeps, DeviceStepsKeep, RxDoneKeeps, TxDoneKeeps, LoadKeeps DEF IsrStep
    <2>2. UNCHANGED host
      BY <1>1, <1>3 DEF IsrStep, IsrEnter, IsrSuspendChange, IsrResume, Isr_Ep00RxDone,
                        Isr_Ep00TxDone, IsrLoad
    <2> QED BY <2>1, <2>2 DEF Transfer!vars
  <1> QED BY <1>2, <1>3

LEMMA HostKeepsTInv ==
  ASSUME IInv, TInv, HostStep PROVE TInv' /\ (Transfer!Next \/ UNCHANGED host)
  <1>1. ~(HostPoll \/ HostReset)
    BY DEF TInv, Plumbing, HostPoll, HostReset
  <1> QED
    BY <1>1, HostSetupKeeps, HostSendDataKeeps, HostStatusKeeps, HostStallKeeps,
       HostTakeDataKeeps, SuspendKeeps
       DEF HostStep, HostMoves, Transfer!Next

LEMMA StepRefines ==
  ASSUME Patient, IInv, TInv, [Next]_vars PROVE TInv' /\ [Transfer!Next]_Transfer!vars
  <1>1. CASE UNCHANGED vars
    <2>1. UNCHANGED <<dcp, snap, req, wLength, wCount, pc, abort, inIsr, ist, reopened, chip,
                      host, left>>
      BY <1>1 DEF vars
    <2>2. Stage'
      BY <2>1, StageKept DEF TInv, Stage, OutPending, InPending, Served
    <2>3. Plumbing' /\ Within'
      BY <2>1, SameFlags DEF TInv, Plumbing, Within, InPending
    <2> QED BY <2>1, <2>2, <2>3 DEF TInv, Stage, Transfer!vars
  <1>2. UNCHANGED host => UNCHANGED Transfer!vars
    BY DEF Transfer!vars
  <1>3. CASE Next
    BY <1>2, <1>3, OpenKeeps, MainKeepsTInv, IsrKeepsTInv, HostKeepsTInv DEF Next
  <1> QED BY <1>1, <1>3

LEMMA AlwaysTInv == ASSUME Patient PROVE Spec => []TInv
  BY InitTInv, StepRefines, Always, PTL DEF Spec

\* Whatever the requests of a patient host and however the handler, the main loop and the host
\* interleave, the host sees transfers of ControlTransfer: every step of the pipe is one of its
\* steps or none.
THEOREM PipeImplementsTransfer == ASSUME Patient PROVE Spec => ImplementsTransfer
  BY InitTInv, StepRefines, AlwaysTInv, Always, PTL DEF Spec, ImplementsTransfer, Transfer!Spec

Abstract == INSTANCE ControlTransferProofs WITH
  PacketSize <- EP0_PACKET_SIZE, None <- ZeroRequest,
  phase <- host.phase, req <- host.req, got <- host.got, Answer <- Brings

\* A read of a patient host that has reached its status stage has brought the descriptor, the
\* report or the status it asked for, the whole of it and nothing else.
THEOREM PipeReadsAreExact == ASSUME Patient PROVE Spec => []ReadIsExact
  <1>1. Abstract!TransferAssumption
    BY AssumptionHolds DEF Transfer!TransferAssumption, Abstract!TransferAssumption
  <1>2. Transfer!Init => Abstract!Init
    BY DEF Transfer!Init, Abstract!Init
  <1>3. [Transfer!Next]_Transfer!vars => [Abstract!Next]_Abstract!vars
    BY DEF Transfer!Next, Transfer!Packet, Transfer!SendData, Transfer!Status,
           Transfer!Stall, Transfer!Begin, Transfer!vars, Transfer!Over, Transfer!Running,
           Abstract!Next, Abstract!Packet, Abstract!SendData, Abstract!Status,
           Abstract!Stall, Abstract!Begin, Abstract!vars, Abstract!Over, Abstract!Running
  <1>4. Abstract!Spec => []Abstract!ReadIsExact
    BY <1>1, Abstract!ReadsAreExact
  <1>5. Abstract!ReadIsExact => ReadIsExact
    BY DEF Abstract!ReadIsExact, ReadIsExact, Transfer!ReadIsExact
  <1> QED
    BY <1>2, <1>3, <1>4, <1>5, PipeImplementsTransfer, PTL
       DEF ImplementsTransfer, Transfer!Spec, Abstract!Spec
=============================================================================
