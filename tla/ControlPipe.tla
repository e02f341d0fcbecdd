---------------------------- MODULE ControlPipe ----------------------------
(***************************************************************************)
(* The default control pipe of the keyboard: the state machine DCP_state   *)
(* that the USB interrupt handler (ISR.c) and the main loop (main.c, read  *)
(* from FinalFlashedDE2.objdump; MAINLOOP.c; CHAP_9.c) share, with the     *)
(* interrupt gate of usb_irq.c between them.                               *)
(*                                                                         *)
(* A step of the main loop is the code between two points at which an      *)
(* interrupt can matter: pc names the next one.  A step of the handler is  *)
(* one Isr_ function; the handler preempts the main loop as soon as the    *)
(* processor is open and the chip asks for it.  A handler taken at the     *)
(* wrctl of enable_irq finds INT_Enabled still 0, and its own enable_irq   *)
(* reopens the processor: reopened has what such handlers still have to    *)
(* do, and other handlers may interrupt them there (module IrqGate has     *)
(* the gate's own instructions).  The chip (ISP1362) and the host are      *)
(* external: chip has what the code can see of the registers and FIFOs,    *)
(* host the transfer the host believes is under way.  Definitions marked   *)
(* "Mistaken" are plausible errors in those that follow them.              *)
(***************************************************************************)
EXTENDS Chap9, FiniteSets, Sequences

CONSTANTS
  Requests,     \* the requests the host may send
  Ep1Results,   \* the outcomes GetErrorCode may report for endpoint 1
  MaxSetups,    \* SETUP packets in a behaviour
  MaxAborts,    \* of them, those that abandon a transfer under way
  MaxResets,    \* bus resets in a behaviour
  MaxSuspends,  \* suspend and resume events in a behaviour
  MaxReports,   \* keyboard reports written to endpoint 1 in a behaviour
  MaxReopened   \* handlers at a time that go on with interrupts reopened

ASSUME RequestsAssumption ==
  \A r \in Requests :
    /\ r \in [in: BOOLEAN, type: RequestTypes, recipient: Recipients, bRequest: 0..255,
              wValue: Nat, wIndex: Nat, wLength: Nat]
    /\ r.in => r.wLength > 0

ASSUME BoundsAssumption ==
  /\ Ep1Results \subseteq BOOLEAN
  /\ {MaxSetups, MaxAborts, MaxResets, MaxSuspends, MaxReports, MaxReopened} \subseteq Nat

VARIABLES
  dcp,          \* bD13flags.bits.DCP_state
  suspend,      \* bD13flags.bits.suspend
  abort,        \* ControlData.Abort
  req,          \* ControlData.DeviceRequest
  wLength,      \* ControlData.wLength
  wCount,       \* ControlData.wCount
  dev,          \* the device state of Chap9
  bufferAvailable,
  gate,         \* what enable_irq and disable_irq have left to the code outside the handler
  pc,           \* where the main loop is
  reply,        \* a reply given to the chip and not yet noted in DCP_state
  snap,         \* D13FLAGS as it will be stored by a read-modify-write under way
  inIsr, ist,   \* whether the handler runs, and the sources it still has to serve
  reopened,     \* the statements at which interrupted handlers go on, the innermost first
  chip, host,
  left          \* what is left of the bounds

isrVars   == <<inIsr, ist, reopened>>
gateVars  == <<gate, isrVars>>
pipeVars  == <<dcp, abort, req, wLength, wCount>>
loopVars  == <<pc, reply, snap, bufferAvailable>>
vars == <<dcp, suspend, abort, req, wLength, wCount, dev, bufferAvailable, gate, pc, reply,
          snap, inIsr, ist, reopened, chip, host, left>>

-----------------------------------------------------------------------------

EP0_PACKET_SIZE      == 64
MAX_CONTROLDATA_SIZE == 16
EP1_FIFO_SLOTS       == 2      \* endpoint 1 is configured double buffered

DCPStates == {"IDLE", "DATAIN", "DATAOUT", "REQUESTPROC", "HANDSHAKE", "SETUPPROC",
              "STALL", "INTR1DONE"}
DeviceSources   == {"BUSRESET", "SUSPEND", "RESUME"}
EndpointSources == {"EP0OUT", "EP0IN", "EP01"}
Sources         == DeviceSources \cup EndpointSources

Places == {"suspend", "setup", "setupEnter", "setupRead", "setupLength", "setupAck",
           "setupLateAck", "setupStall", "setupStallNote", "request", "requestEnter",
           "requestRun", "connect", "interface", "interfaceNote", "ep1", "ep1Load", "ep1Store",
           "report", "send", "resetCheck"}

\* Behind the wrctl of enable_irq the gate is opening: the processor takes interrupts and
\* INT_Enabled is still 0.
GateStates == {"closed", "opening", "open"}

\* What a handler still has to assign behind the enable_irq that has reopened the processor.
Statements == {"DCP_state", "dma_disable", "State_bits", "At_IRQL1"}

Least(a, b) == IF a < b THEN a ELSE b

Init ==
  /\ dcp = "IDLE" /\ suspend = FALSE /\ abort = FALSE
  /\ req = ZeroRequest /\ wLength = 0 /\ wCount = 0
  /\ dev = [default |-> TRUE, address |-> FALSE, config |-> FALSE, configuration |-> 0,
            wakeup |-> FALSE, alt |-> 0, hid |-> "reset", addr |-> 0]
  /\ bufferAvailable = TRUE
  /\ gate = "open" /\ pc = "suspend"
  /\ reply = [kind |-> "none", len |-> 0]
  /\ snap = {}
  /\ inIsr = FALSE /\ ist = {} /\ reopened = <<>>
  /\ chip = [int |-> {}, out |-> 0, isSetup |-> FALSE, setup |-> ZeroRequest, ovwr |-> FALSE,
             acked |-> TRUE, in |-> {}, halt |-> {}, ep1 |-> 0]
  /\ host = [phase |-> "idle", req |-> ZeroRequest, got |-> 0, calm |-> FALSE,
             undone |-> FALSE]
  /\ left = [setups |-> MaxSetups, aborts |-> MaxAborts, resets |-> MaxResets,
             suspends |-> MaxSuspends, reports |-> MaxReports]

-----------------------------------------------------------------------------
(* What the code does to the chip (HAL4D13.c). *)

\* Hal4D13_GetEndpointStatusWInteruptClear: reading the status clears the endpoint's
\* interrupt, and the overwrite mark of EP0 OUT with it.
ReadStatus(c, src) ==
  [c EXCEPT !.int = @ \ {src}, !.ovwr = IF src = "EP0OUT" THEN FALSE ELSE @]

\* ML_AcknowledgeSETUP.
Acknowledge(c) ==
  IF c.ovwr \/ abort THEN c ELSE [c EXCEPT !.acked = TRUE, !.out = 0]

\* Hal4D13_WriteEndpoint on EP0 IN. The chip ignores the validation of a buffer while
\* a SETUP is not acknowledged.
WriteIn(c, n) == IF c.acked THEN [c EXCEPT !.in = {n}] ELSE c

\* Mistaken: the whole answer goes into one packet.
TransmitWhole(c, kind, len, halt) ==
  LET h == [c EXCEPT !.halt = halt]
  IN  CASE kind = "single" -> WriteIn(h, len)
        [] kind = "burst"  -> WriteIn(h, Least(wLength, len))
        [] OTHER           -> h

\* What a reply does to the chip: the endpoint halts, then the packet.
Transmit(c, kind, len, halt) ==
  LET h == [c EXCEPT !.halt = halt]
  IN  CASE kind = "single" -> WriteIn(h, len)
        [] kind = "burst"  -> WriteIn(h, Least(Least(wLength, len), EP0_PACKET_SIZE))
        [] OTHER           -> h

\* Mistaken: the bytes of a short answer are not counted.
NoteBurstUncounted(total) ==
  IF total >= EP0_PACKET_SIZE
  THEN dcp' = "DATAIN" /\ wCount' = EP0_PACKET_SIZE
  ELSE dcp' = "HANDSHAKE" /\ wCount' = 0

NoteBurst(total) ==
  IF total >= EP0_PACKET_SIZE
  THEN dcp' = "DATAIN" /\ wCount' = EP0_PACKET_SIZE
  ELSE dcp' = "HANDSHAKE" /\ wCount' = total

\* What a reply does to the pipe between RaiseIRQL and LowerIRQL, from the state d. A burst
\* sets the counters whether or not it is aborted.
Note(kind, len, d) ==
  CASE kind = "single" /\ ~abort ->
         dcp' = "HANDSHAKE" /\ wLength' = len /\ wCount' = len
    [] kind = "stall" /\ ~abort ->
         dcp' = "STALL" /\ UNCHANGED <<wLength, wCount>>
    [] kind = "burst" /\ ~abort ->
         wLength' = Least(wLength, len) /\ NoteBurst(Least(wLength, len))
    [] kind = "burst" /\ abort ->
         wLength' = Least(wLength, len) /\ wCount' = 0 /\ dcp' = d
    [] OTHER -> dcp' = d /\ UNCHANGED <<wLength, wCount>>

-----------------------------------------------------------------------------
(* The interrupt gate, and the word the handler and the main loop share. *)

\* An interrupt is taken as soon as the processor is open. With MaxReopened handlers held up
\* it waits until INT_Enabled is set.
Preempted ==
  /\ chip.int # {}
  /\ gate = "open" \/ (gate = "opening" /\ Len(reopened) < MaxReopened)

\* INT_Enabled = 1, the end of enable_irq.
OpenGate ==
  /\ gate = "opening" /\ ~inIsr /\ ~Preempted
  /\ gate' = "open"
  /\ UNCHANGED <<pipeVars, suspend, dev, loopVars, isrVars, chip, host, left>>

\* The phases of a transfer, as the host sees it.
Active == {"dataIn", "dataOut", "statusIn", "statusOut"}
Ended  == {"complete", "stalled"}

D13Flags == [dcp |-> dcp, suspend |-> suspend, configuration |-> dev.configuration,
             wakeup |-> dev.wakeup]

\* The second half of an assignment to a bit of bD13flags: all of the word is stored. What a
\* handler has made of DCP_state since is undone, and host.undone remembers it: expected is
\* what DCP_state has been since the load if no handler has touched it.
StoreFlags(f, expected) ==
  /\ dcp' = f.dcp /\ suspend' = f.suspend
  /\ dev' = [dev EXCEPT !.configuration = f.configuration, !.wakeup = f.wakeup]
  /\ host' = [host EXCEPT !.undone = @ \/ (host.phase \in Active /\ dcp # expected)]
  /\ snap' = {}

-----------------------------------------------------------------------------
(* The main loop. *)

\* The main loop makes a step at l unless a handler preempts it there or is still under way.
At(l) == pc = l /\ gate # "opening" /\ ~inIsr /\ reopened = <<>> /\ ~Preempted

\* The suspend test and what it guards, which is behind the gate.
CheckSuspend ==
  /\ At("suspend")
  /\ suspend' = FALSE
  /\ gate' = IF suspend THEN "opening" ELSE gate
  /\ pc' = "setup"
  /\ UNCHANGED <<pipeVars, dev, bufferAvailable, reply, snap, isrVars, chip, host, left>>

CheckSetup ==
  /\ At("setup")
  /\ pc' = IF dcp = "SETUPPROC" THEN "setupEnter" ELSE "request"
  /\ UNCHANGED <<pipeVars, suspend, dev, bufferAvailable, reply, snap, gateVars, chip, host, left>>

\* Mistaken: Abort of the transfer before is left standing.
SetupEnterStaleAbort ==
  /\ At("setupEnter")
  /\ gate' = "closed" /\ wLength' = 0 /\ wCount' = 0
  /\ pc' = "setupRead"
  /\ UNCHANGED <<dcp, abort, req, suspend, dev, bufferAvailable, reply, snap, isrVars, chip,
                 host, left>>

\* disable_irq, and SetupToken_Handler up to the read of the SETUP packet.
SetupEnter ==
  /\ At("setupEnter")
  /\ gate' = "closed" /\ abort' = FALSE /\ wLength' = 0 /\ wCount' = 0
  /\ pc' = "setupRead"
  /\ UNCHANGED <<dcp, req, suspend, dev, bufferAvailable, reply, snap, isrVars, chip, host, left>>

\* The read, and LowerIRQL. The chip ignores the clear of an unacknowledged SETUP. At
\* least eight bytes that are not a SETUP are taken for one.
SetupRead ==
  /\ At("setupRead")
  /\ gate' = "opening"
  /\ IF chip.out >= 8
     THEN /\ req' \in IF chip.isSetup THEN {chip.setup} ELSE Requests
          /\ pc' = "setupLength"
     ELSE req' = req /\ pc' = "setupStall"
  /\ chip' = IF chip.acked THEN [chip EXCEPT !.out = 0] ELSE chip
  /\ UNCHANGED <<dcp, abort, wLength, wCount, suspend, dev, bufferAvailable, reply, snap,
                 isrVars, host, left>>

\* The lengths are written with the gate open; then RaiseIRQL.
SetupLength ==
  /\ At("setupLength")
  /\ wLength' = req.wLength /\ wCount' = 0
  /\ gate' = "closed"
  /\ pc' = "setupAck"
  /\ UNCHANGED <<dcp, abort, req, suspend, dev, bufferAvailable, reply, snap, isrVars,
                 chip, host, left>>

\* bRequest 0 with bmRequestType 0xc0, which is answered without a handler.
IsVendorStatus(r) ==
  r.in /\ r.type = "vendor" /\ r.recipient = "device" /\ r.bRequest = 0

\* Mistaken: no limit.
FitsBufferAlways(r) == r.wLength > 0

\* The data of a write that dataBuffer has room for.
FitsBuffer(r) == r.wLength \in 1..MAX_CONTROLDATA_SIZE

\* The three ways to go on behind one RaiseIRQL ... LowerIRQL each. The data stage of a
\* write is acknowledged after LowerIRQL.
SetupAck ==
  /\ At("setupAck")
  /\ gate' = "opening"
  /\ CASE req.in \/ req.wLength = 0 ->
            /\ chip' = Acknowledge(chip)
            /\ dcp' = IF IsVendorStatus(req) THEN "HANDSHAKE" ELSE "REQUESTPROC"
            /\ pc' = "request"
       [] ~req.in /\ FitsBuffer(req) ->
            /\ dcp' = "DATAOUT"
            /\ pc' = "setupLateAck"
            /\ chip' = chip
       [] OTHER ->
            /\ chip' = [Acknowledge(chip) EXCEPT !.halt = @ \cup {0, 1}]
            /\ dcp' = "STALL"
            /\ pc' = "request"
  /\ UNCHANGED <<abort, req, wLength, wCount, suspend, dev, bufferAvailable, reply, snap,
                 isrVars, host, left>>

SetupLateAck ==
  /\ At("setupLateAck")
  /\ chip' = Acknowledge(chip)
  /\ pc' = "request"
  /\ UNCHANGED <<pipeVars, suspend, dev, bufferAvailable, reply, snap, gateVars, host, left>>

\* "wrong setup command": Chap9_StallEP0, its chip half with the gate open.
SetupStall ==
  /\ At("setupStall")
  /\ chip' = [chip EXCEPT !.halt = @ \cup {0, 1}]
  /\ reply' = [kind |-> "stall", len |-> 0]
  /\ pc' = "setupStallNote"
  /\ UNCHANGED <<pipeVars, suspend, dev, bufferAvailable, snap, gateVars, host, left>>

SetupStallNote ==
  /\ At("setupStallNote")
  /\ Note(reply.kind, reply.len, dcp)
  /\ gate' = "opening"
  /\ pc' = "request"
  /\ UNCHANGED <<abort, req, suspend, dev, bufferAvailable, reply, snap, isrVars, chip, host, left>>

CheckRequest ==
  /\ At("request")
  /\ pc' = IF dcp = "REQUESTPROC" /\ ~abort THEN "requestEnter" ELSE "ep1"
  /\ UNCHANGED <<pipeVars, suspend, dev, bufferAvailable, reply, snap, gateVars, chip, host, left>>

\* disable_irq and DCP_state = 0.
RequestEnter ==
  /\ At("requestEnter")
  /\ gate' = "closed" /\ dcp' = "IDLE"
  /\ pc' = "requestRun"
  /\ UNCHANGED <<abort, req, wLength, wCount, suspend, dev, bufferAvailable, reply, snap,
                 isrVars, chip, host, left>>

\* DeviceRequest_Handler up to its first LowerIRQL (or to the enable_irq that follows it).
\* HID_Get_Report and a SetInterface of the wrong direction go on from there.
RequestRun ==
  LET answer == DeviceRequest(req, dev, chip.halt, abort)
      reserved == HandlerOf(req) = "ML_Reserved"
  IN  /\ At("requestRun")
      /\ dev' = answer.dev
      /\ chip' = Transmit(IF reserved /\ chip.acked THEN [chip EXCEPT !.out = 0] ELSE chip,
                          answer.kind, answer.len, answer.halt)
      /\ Note(answer.kind, answer.len, dcp)
      /\ gate' = "opening"
      /\ pc' = CASE HandlerOf(req) = "HID_Get_Report" -> "connect"
                 [] HandlerOf(req) = "SetInterface" /\ req.in -> "interface"
                 [] OTHER -> "ep1"
      /\ UNCHANGED <<abort, req, suspend, bufferAvailable, reply, snap, isrVars, host, left>>

\* hid_settings.state = connected at the end of HID_Get_Report, with the gate open.
Connect ==
  /\ At("connect")
  /\ dev' = [dev EXCEPT !.hid = "connected"]
  /\ pc' = "ep1"
  /\ UNCHANGED <<pipeVars, suspend, bufferAvailable, reply, snap, gateVars, chip, host, left>>

\* Chap9_SetInterface behind the stall of its first test: the chip half of the second reply.
InterfaceReply ==
  LET answer == SetInterface(req, dev, chip.halt)
  IN  /\ At("interface")
      /\ dev' = answer.dev
      /\ chip' = Transmit(chip, answer.kind, answer.len, answer.halt)
      /\ reply' = [kind |-> answer.kind, len |-> answer.len]
      /\ pc' = "interfaceNote"
      /\ UNCHANGED <<pipeVars, suspend, bufferAvailable, snap, gateVars, host, left>>

InterfaceNote ==
  /\ At("interfaceNote")
  /\ Note(reply.kind, reply.len, dcp)
  /\ gate' = "opening"
  /\ pc' = "ep1"
  /\ UNCHANGED <<abort, req, suspend, dev, bufferAvailable, reply, snap, isrVars, chip, host, left>>

CheckEp1 ==
  /\ At("ep1")
  /\ pc' = IF dcp = "INTR1DONE" THEN "ep1Load" ELSE "report"
  /\ UNCHANGED <<pipeVars, suspend, dev, bufferAvailable, reply, snap, gateVars, chip, host, left>>

\* DCP_state = 0 for INTR1DONE is a load, a mask and a store of all of D13FLAGS with the
\* gate open.
Ep1Load ==
  /\ At("ep1Load")
  /\ snap' = {[D13Flags EXCEPT !.dcp = "IDLE"]}
  /\ pc' = "ep1Store"
  /\ UNCHANGED <<pipeVars, suspend, dev, bufferAvailable, reply, gateVars, chip, host, left>>

Ep1Store ==
  /\ At("ep1Store")
  /\ \E f \in snap : StoreFlags(f, "INTR1DONE")
  /\ \E ok \in Ep1Results : bufferAvailable' = (bufferAvailable \/ ok)
  /\ pc' = "report"
  /\ UNCHANGED <<abort, req, wLength, wCount, reply, gateVars, chip, left>>

\* The connected test. A character read from the serial port may send the loop back to its
\* top ("continue"); otherwise the report is built, behind the gate.
CheckReport ==
  /\ At("report")
  /\ pc' \in IF dev.hid = "connected" THEN {"send", "suspend"} ELSE {"resetCheck"}
  /\ gate' = IF pc' = "send" THEN "opening" ELSE gate
  /\ UNCHANGED <<pipeVars, suspend, dev, bufferAvailable, reply, snap, isrVars, chip, host, left>>

\* Behind disable_irq: the report is written if it has changed, which is left open here.
SendReport ==
  /\ At("send")
  /\ \/ /\ bufferAvailable /\ left.reports > 0
        /\ bufferAvailable' = FALSE
        /\ chip' = [chip EXCEPT !.ep1 = @ + 1]
        /\ left' = [left EXCEPT !.reports = @ - 1]
     \/ UNCHANGED <<bufferAvailable, chip, left>>
  /\ gate' = "opening"
  /\ pc' = "resetCheck"
  /\ UNCHANGED <<pipeVars, suspend, dev, reply, snap, isrVars, host>>

\* Mistaken: the buffer is declared free in every round.
CheckResetAlways ==
  /\ At("resetCheck")
  /\ bufferAvailable' = TRUE
  /\ pc' = "suspend"
  /\ UNCHANGED <<pipeVars, suspend, dev, reply, snap, gateVars, chip, host, left>>

CheckReset ==
  /\ At("resetCheck")
  /\ bufferAvailable' = (bufferAvailable \/ dev.hid = "reset")
  /\ pc' = "suspend"
  /\ UNCHANGED <<pipeVars, suspend, dev, reply, snap, gateVars, chip, host, left>>

MainStep ==
  \/ CheckSuspend \/ CheckSetup \/ SetupEnter \/ SetupRead \/ SetupLength \/ SetupAck
  \/ SetupLateAck \/ SetupStall \/ SetupStallNote \/ CheckRequest \/ RequestEnter
  \/ RequestRun \/ Connect \/ InterfaceReply \/ InterfaceNote \/ CheckEp1 \/ Ep1Load
  \/ Ep1Store \/ CheckReport \/ SendReport \/ CheckReset

-----------------------------------------------------------------------------
(* The interrupt handler. *)

\* usb_isr: the read of the interrupt register clears the device sources, the endpoint
\* sources stay until their status is read.
IsrEnter ==
  /\ ~inIsr /\ Preempted
  /\ inIsr' = TRUE
  /\ ist' = chip.int
  /\ chip' = [chip EXCEPT !.int = @ \cap EndpointSources]
  /\ UNCHANGED <<pipeVars, suspend, dev, loopVars, gate, reopened, host, left>>

\* enable_irq at the end of the handler, or LowerIRQL inside it. Only a handler that found the
\* gate opening opens the processor again, with the assignment l and what follows it to come;
\* any other does them before it can be interrupted.
GoesOnAt(l) == reopened' = IF gate = "opening" THEN <<l>> \o reopened ELSE reopened

\* The handler serves src last, or goes on with the endpoints that are left.
Serve(src) ==
  /\ ist' = ist \ {src}
  /\ inIsr' = (ist # {src})
  /\ IF ist = {src} THEN GoesOnAt("At_IRQL1") ELSE reopened' = reopened

\* Mistaken: the default state is not entered.
ResetStateNoDefault(d) == [d EXCEPT !.address = FALSE, !.config = FALSE, !.hid = "reset"]

ResetState(d) ==
  [d EXCEPT !.default = TRUE, !.address = FALSE, !.config = FALSE, !.hid = "reset"]

\* Isr_BusReset up to the LowerIRQL inside connect_USB_controller, and all of it if that does
\* not open the processor.
IsrBusReset ==
  /\ inIsr /\ "BUSRESET" \in ist
  /\ dcp' = "IDLE" /\ suspend' = FALSE
  /\ dev' = [IF gate = "opening" THEN dev ELSE ResetState(dev)
              EXCEPT !.configuration = 0, !.wakeup = FALSE]
  /\ inIsr' = FALSE /\ ist' = {} /\ GoesOnAt("DCP_state")
  /\ UNCHANGED <<abort, req, wLength, wCount, loopVars, gate, chip, host, left>>

IsrSuspendChange ==
  /\ inIsr /\ "BUSRESET" \notin ist /\ "SUSPEND" \in ist
  /\ suspend' = TRUE
  /\ inIsr' = FALSE /\ ist' = {} /\ GoesOnAt("At_IRQL1")
  /\ UNCHANGED <<pipeVars, dev, loopVars, gate, chip, host, left>>

IsrResume ==
  /\ inIsr /\ ist \cap {"BUSRESET", "SUSPEND"} = {} /\ "RESUME" \in ist
  /\ inIsr' = FALSE /\ ist' = {} /\ GoesOnAt("At_IRQL1")
  /\ UNCHANGED <<pipeVars, suspend, dev, loopVars, gate, chip, host, left>>

\* Mistaken: the packet is read as a SETUP is, which leaves it in the buffer.
TakeDataOutUncleared(c) ==
  LET i == Least(c.out, EP0_PACKET_SIZE)
  IN  /\ wCount' = wCount + i
      /\ dcp' = IF i # EP0_PACKET_SIZE \/ wCount + i >= wLength THEN "REQUESTPROC" ELSE dcp
      /\ chip' = c

\* A packet of the data stage of a write, read into dataBuffer.
TakeDataOut(c) ==
  LET i == Least(c.out, EP0_PACKET_SIZE)
  IN  /\ wCount' = wCount + i
      /\ dcp' = IF i # EP0_PACKET_SIZE \/ wCount + i >= wLength THEN "REQUESTPROC" ELSE dcp
      /\ chip' = IF c.acked THEN [c EXCEPT !.out = 0] ELSE c

Isr_Ep00RxDone ==
  LET c == ReadStatus(chip, "EP0OUT")
  IN  /\ inIsr /\ ist \cap DeviceSources = {} /\ "EP0OUT" \in ist
      /\ Serve("EP0OUT")
      /\ CASE chip.isSetup ->
                /\ abort' = (abort \/ dcp = "REQUESTPROC")
                /\ dcp' = "SETUPPROC" /\ chip' = c /\ wCount' = wCount
           [] ~chip.isSetup /\ dcp = "DATAOUT" ->
                TakeDataOut(c) /\ abort' = abort
           [] ~chip.isSetup /\ dcp = "HANDSHAKE" ->
                dcp' = "IDLE" /\ chip' = c /\ UNCHANGED <<abort, wCount>>
           [] ~chip.isSetup /\ dcp \in {"STALL", "SETUPPROC", "REQUESTPROC", "DATAIN"} ->
                chip' = c /\ UNCHANGED <<dcp, abort, wCount>>
           [] OTHER ->
                /\ dcp' = "STALL" /\ UNCHANGED <<abort, wCount>>
                /\ chip' = [c EXCEPT !.halt = @ \cup {0, 1}]
      /\ UNCHANGED <<req, wLength, suspend, dev, loopVars, gate, host, left>>

\* Mistaken: packets are full as long as anything is left.
NextPacketFull(c) ==
  IF wLength # wCount
  THEN chip' = WriteIn(c, EP0_PACKET_SIZE) /\ wCount' = wCount + EP0_PACKET_SIZE /\ dcp' = dcp
  ELSE chip' = WriteIn(c, 0) /\ wCount' = wCount /\ dcp' = "HANDSHAKE"

\* Mistaken: every packet but a full one is taken for the empty packet that ends a read.
NextPacketEmpty(c) ==
  IF wLength - wCount >= EP0_PACKET_SIZE
  THEN chip' = WriteIn(c, EP0_PACKET_SIZE) /\ wCount' = wCount + EP0_PACKET_SIZE /\ dcp' = dcp
  ELSE chip' = WriteIn(c, 0) /\ wCount' = wCount /\ dcp' = "HANDSHAKE"

\* The packet that follows the one the host has taken.
NextPacket(c) ==
  LET i == wLength - wCount
      n == Least(i, EP0_PACKET_SIZE)
  IN  /\ chip' = WriteIn(c, n)
      /\ wCount' = wCount + n
      /\ dcp' = IF i >= EP0_PACKET_SIZE THEN dcp ELSE "HANDSHAKE"

\* The second read of the interrupt register drops device sources that came meanwhile.
Isr_Ep00TxDone ==
  LET c == [ReadStatus(chip, "EP0IN") EXCEPT !.int = @ \cap EndpointSources]
  IN  /\ inIsr /\ ist \cap DeviceSources = {} /\ "EP0OUT" \notin ist /\ "EP0IN" \in ist
      /\ Serve("EP0IN")
      /\ CASE dcp = "DATAIN" -> NextPacket(c)
           [] dcp = "INTR1DONE" ->
                /\ dcp' = "STALL" /\ wCount' = wCount
                /\ chip' = [c EXCEPT !.halt = @ \cup {0, 1}]
           [] OTHER -> chip' = c /\ UNCHANGED <<dcp, wCount>>
      /\ UNCHANGED <<abort, req, wLength, suspend, dev, loopVars, gate, host, left>>

Isr_Ep01Done ==
  /\ inIsr /\ ist = {"EP01"}
  /\ Serve("EP01")
  /\ dcp' = "INTR1DONE"
  /\ chip' = ReadStatus(chip, "EP01")
  /\ UNCHANGED <<abort, req, wLength, wCount, suspend, dev, loopVars, gate, host, left>>

\* The innermost handler that has reopened the processor goes on.
Resumes == reopened # <<>> /\ gate = "open" /\ ~inIsr /\ ~Preempted

Following(l) ==
  CASE l = "DCP_state"   -> <<"dma_disable">>
    [] l = "dma_disable" -> <<"State_bits">>
    [] l = "State_bits"  -> <<"At_IRQL1">>
    [] OTHER             -> <<>>

Advances == reopened' = Following(Head(reopened)) \o Tail(reopened)

\* DCP_state = 0 and dma_disable = 0 of Isr_BusReset and At_IRQL1 = 0 of usb_isr, each a load,
\* a mask and a store of all of D13FLAGS.
IsrLoad ==
  /\ Resumes /\ snap = {} /\ Head(reopened) # "State_bits"
  /\ snap' = {IF Head(reopened) = "DCP_state" THEN [D13Flags EXCEPT !.dcp = "IDLE"]
              ELSE D13Flags}
  /\ UNCHANGED <<pipeVars, suspend, dev, pc, reply, bufferAvailable, gateVars, chip, host, left>>

IsrStore ==
  /\ Resumes
  /\ \E f \in snap : StoreFlags(f, f.dcp)
  /\ Advances
  /\ UNCHANGED <<abort, req, wLength, wCount, pc, reply, bufferAvailable, gate, inIsr, ist,
                 chip, left>>

\* The rest of Isr_BusReset.
IsrResetState ==
  /\ Resumes /\ Head(reopened) = "State_bits"
  /\ dev' = ResetState(dev)
  /\ Advances
  /\ UNCHANGED <<pipeVars, suspend, loopVars, gate, inIsr, ist, chip, host, left>>

IsrStep ==
  \/ IsrEnter \/ IsrBusReset \/ IsrSuspendChange \/ IsrResume
  \/ Isr_Ep00RxDone \/ Isr_Ep00TxDone \/ Isr_Ep01Done
  \/ IsrLoad \/ IsrStore \/ IsrResetState

-----------------------------------------------------------------------------
(* The chip and the host, external to the code. *)

firmwareVars == <<pipeVars, suspend, dev, loopVars, gateVars>>

FirstPhase(r) ==
  CASE r.in -> "dataIn"
    [] ~r.in /\ r.wLength > 0 -> "dataOut"
    [] OTHER -> "statusIn"

\* Nothing is left that could disturb the transfer a SETUP begins now.
Calm ==
  /\ chip.int = {} /\ ~inIsr /\ reopened = <<>> /\ gate = "open" /\ pc = "suspend"
  /\ chip.ep1 = 0
  /\ left.aborts = 0 /\ left.resets = 0 /\ left.reports = 0

\* A SETUP packet is always accepted: it flushes EP0 and lifts its halts, and blocks both
\* directions until it is acknowledged.
HostSetup(r) ==
  /\ left.setups > 0
  /\ host.phase \in Active => left.aborts > 0
  /\ left' = [left EXCEPT !.setups = @ - 1,
                          !.aborts = IF host.phase \in Active THEN @ - 1 ELSE @]
  /\ host' = [phase |-> FirstPhase(r), req |-> r, got |-> 0, calm |-> Calm,
               undone |-> FALSE]
  /\ chip' = [chip EXCEPT !.int = @ \cup {"EP0OUT"}, !.out = 8, !.isSetup = TRUE, !.setup = r,
                          !.ovwr = ~chip.acked, !.acked = FALSE, !.in = {},
                          !.halt = @ \ {0, 1}]
  /\ UNCHANGED firmwareVars

HostTakeData ==
  /\ host.phase = "dataIn" /\ chip.in # {} /\ 1 \notin chip.halt
  /\ \E n \in chip.in :
       host' = [host EXCEPT !.got = @ + n,
                            !.phase = IF n < EP0_PACKET_SIZE \/ host.got + n >= host.req.wLength
                                      THEN "statusOut" ELSE "dataIn"]
  /\ chip' = [chip EXCEPT !.in = {}, !.int = @ \cup {"EP0IN"}]
  /\ UNCHANGED <<firmwareVars, left>>

HostSendData ==
  /\ host.phase = "dataOut" /\ chip.acked /\ 0 \notin chip.halt
  /\ chip' = [chip EXCEPT !.out = Least(host.req.wLength, EP0_PACKET_SIZE),
                          !.isSetup = FALSE, !.int = @ \cup {"EP0OUT"}]
  /\ host' = [host EXCEPT !.phase = "statusIn"]
  /\ UNCHANGED <<firmwareVars, left>>

HostStatusOut ==
  /\ host.phase = "statusOut" /\ chip.acked /\ 0 \notin chip.halt
  /\ chip' = [chip EXCEPT !.out = 0, !.isSetup = FALSE, !.int = @ \cup {"EP0OUT"}]
  /\ host' = [host EXCEPT !.phase = "complete"]
  /\ UNCHANGED <<firmwareVars, left>>

HostStatusIn ==
  /\ host.phase = "statusIn" /\ chip.in # {} /\ 1 \notin chip.halt
  /\ chip' = [chip EXCEPT !.in = {}, !.int = @ \cup {"EP0IN"}]
  /\ host' = [host EXCEPT !.phase = "complete"]
  /\ UNCHANGED <<firmwareVars, left>>

HostSeesStall ==
  /\ \/ host.phase \in {"dataIn", "statusIn"} /\ 1 \in chip.halt
     \/ host.phase \in {"dataOut", "statusOut"} /\ 0 \in chip.halt
  /\ host' = [host EXCEPT !.phase = "stalled"]
  /\ UNCHANGED <<firmwareVars, chip, left>>

HostPoll ==
  /\ chip.ep1 > 0 /\ 2 \notin chip.halt
  /\ chip' = [chip EXCEPT !.ep1 = @ - 1, !.int = @ \cup {"EP01"}]
  /\ UNCHANGED <<firmwareVars, host, left>>

\* Endpoint interrupts of before a bus reset may or may not survive it.
HostReset ==
  /\ left.resets > 0
  /\ left' = [left EXCEPT !.resets = @ - 1]
  /\ \E stale \in {{}, chip.int} :
       chip' = [chip EXCEPT !.int = stale \cup {"BUSRESET"}, !.out = 0, !.isSetup = FALSE,
                            !.ovwr = FALSE, !.acked = TRUE, !.in = {}, !.halt = {}, !.ep1 = 0]
  /\ host' = [host EXCEPT !.phase = "idle", !.calm = FALSE]
  /\ UNCHANGED firmwareVars

HostSuspendOrResume ==
  /\ left.suspends > 0
  /\ left' = [left EXCEPT !.suspends = @ - 1]
  /\ \E src \in {"SUSPEND", "RESUME"} : chip' = [chip EXCEPT !.int = @ \cup {src}]
  /\ UNCHANGED <<firmwareVars, host>>

HostMoves ==
  \/ HostTakeData \/ HostSendData \/ HostStatusOut \/ HostStatusIn \/ HostSeesStall

HostStep ==
  \/ \E r \in Requests : HostSetup(r)
  \/ HostMoves \/ HostPoll \/ HostReset \/ HostSuspendOrResume

-----------------------------------------------------------------------------

Next == OpenGate \/ MainStep \/ IsrStep \/ HostStep

Spec == Init /\ [][Next]_vars

\* The processor runs, the interrupt line is level triggered, the host polls and goes on
\* with a transfer. Nothing obliges the host to begin one, abandon one or reset the bus.
Fairness ==
  /\ WF_vars(OpenGate) /\ WF_vars(MainStep) /\ WF_vars(IsrStep)
  /\ WF_vars(HostMoves) /\ WF_vars(HostPoll)

FairSpec == Spec /\ Fairness
-----------------------------------------------------------------------------
(* Correctness. *)

PipeTypeOK ==
  /\ dcp \in DCPStates /\ suspend \in BOOLEAN /\ abort \in BOOLEAN
  /\ req \in Requests \cup {ZeroRequest}
  /\ wLength \in Nat /\ wCount \in Nat
  /\ dev \in Device

LoopTypeOK ==
  /\ pc \in Places
  /\ reply \in [kind: ReplyKinds, len: Nat]
  /\ snap \in SUBSET [dcp: DCPStates, suspend: BOOLEAN, configuration: 0..1, wakeup: BOOLEAN]
  /\ bufferAvailable \in BOOLEAN
  /\ gate \in GateStates /\ inIsr \in BOOLEAN /\ ist \in SUBSET Sources
  /\ reopened \in Seq(Statements)

ChipTypeOK ==
  /\ chip \in [int: SUBSET Sources, out: 0..EP0_PACKET_SIZE, isSetup: BOOLEAN,
               setup: Requests \cup {ZeroRequest}, ovwr: BOOLEAN, acked: BOOLEAN,
               in: SUBSET (0..EP0_PACKET_SIZE), halt: SUBSET (0..16), ep1: Nat]
  /\ host \in [phase: {"idle"} \cup Active \cup Ended, req: Requests \cup {ZeroRequest},
               got: Nat, calm: BOOLEAN, undone: BOOLEAN]
  /\ left \in [setups: 0..MaxSetups, aborts: 0..MaxAborts, resets: 0..MaxResets,
               suspends: 0..MaxSuspends, reports: 0..MaxReports]

TypeOK == PipeTypeOK /\ LoopTypeOK /\ ChipTypeOK

\* Isr_Ep00TxDone takes every packet from inside the descriptor that Chap9_BurstTransmitEP0
\* pointed it at, whatever interrupts, aborts, resets and undone assignments came between the
\* packets: its unsigned counters never cross, and it ends with the descriptor or what was asked
\* for.
PacketsInsideDescriptor ==
  dcp = "DATAIN" =>
    /\ wCount <= wLength
    /\ wLength <= Least(req.wLength, DeviceRequest(req, dev, {}, FALSE).len)

\* Whenever there are data for Isr_Ep00RxDone to take, the counters are those of a data stage
\* that has not begun, so that the data end up at the start of dataBuffer, in its 16 bytes. The
\* write-back of a handler may leave DATAOUT standing over counters that have moved, but no
\* more data come then before the next SETUP has been read.
DataOutReady ==
  dcp = "DATAOUT" /\ ~chip.isSetup /\ chip.out > 0
    => wCount = 0 /\ wLength \in 1..MAX_CONTROLDATA_SIZE

\* The requests always leave the device in some state of chapter 9: no order of requests,
\* resets and aborts clears all three bits.
SomeDeviceState == dev.default \/ dev.address \/ dev.config

\* bufferAvailable keeps the main loop from writing to a full endpoint 1.
Ep1NotOverrun == chip.ep1 <= EP1_FIFO_SLOTS

\* A reply handed to the chip whole is accounted for as such, so that a late IN interrupt
\* finds nothing left to send.
AnswerAccounted == dcp = "HANDSHAKE" /\ ~IsVendorStatus(req) => wCount = wLength

\* A transfer begun when nothing disturbs it any more ends, whatever came before it, if its
\* handler is one of those that answer at all.
Answered(r) == HandlerOf(r) \notin SilentHandlers \cup {"HID_Set_Idle"}
Recovers    == host.calm /\ Answered(host.req) ~> host.phase \in Ended

\* The bits agree with the value GetConfiguration returns, if the host keeps the order of
\* chapter 9.
ConfigurationAgrees == dev.config <=> dev.configuration = 1

\* No more than one state bit, if the host keeps the order of chapter 9.
OneDeviceState ==
  Cardinality({b \in {"default", "address", "config"} : dev[b]}) = 1
-----------------------------------------------------------------------------
(* A host that keeps the order of chapter 9. The state bits are only kept  *)
(* apart for such a host: SetConfiguration from the default state leaves   *)
(* two of them set, and SetAddress leaves configuration standing.          *)

SettingHandlers == {"SetAddress", "SetConfiguration", "SetInterface"}

\* What it may send to a device in the state d: an address before a configuration, and no new
\* address for a configured device. What sets something is a write.
Fits(r, d) ==
  /\ HandlerOf(r) \in SettingHandlers => ~r.in
  /\ HandlerOf(r) = "SetAddress" => ~d.config
  /\ HandlerOf(r) = "SetConfiguration" => ~d.default

\* A descriptor that there is. Its reading is the one transfer such a host may give up: a read
\* that is refused halts endpoint 0 also under the SETUP that has replaced it, and the host
\* then goes on while that SETUP is still to be served.
Readable(r) ==
  r.in /\ HandlerOf(r) = "GetDescriptor" /\ GetDescriptor(r, dev, {}).kind = "burst"

Orderly ==
  \A r \in Requests :
    HostSetup(r) => Fits(r, dev) /\ (host.phase \in Active => Readable(host.req))

OrderlySpec == Init /\ [][Next /\ Orderly]_vars
=============================================================================
