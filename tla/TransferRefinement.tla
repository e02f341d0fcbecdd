------------------------ MODULE TransferRefinement ------------------------
(***************************************************************************)
(* ControlPipe as an implementation of ControlTransfer: the host's side of *)
(* the pipe is the abstract transfer, everything else is hidden.           *)
(***************************************************************************)
EXTENDS ControlPipe

\* What a request may be answered with is read off the device in each of the three states it
\* can be in.
Devices ==
  {[default |-> b = 1, address |-> b = 2, config |-> b = 3, configuration |-> 0,
    wakeup |-> FALSE, alt |-> 0, hid |-> "reset", addr |-> 0] : b \in 1..3}

Answers(r) == {DeviceRequest(r, d, {}, FALSE) : d \in Devices}

Longest(r) ==
  CHOOSE n \in {a.len : a \in Answers(r)} : \A a \in Answers(r) : a.len <= n

IsRead(r)  == r.in
HasData(r) == r.wLength > 0
Asked(r)   == r.wLength
Brings(r)  == Least(r.wLength, Longest(r))

\* Some answer halts endpoint 0, or the data are too many.
Refusable(r) ==
  \/ \E a \in Answers(r) : a.halt \cap {0, 1} # {}
  \/ ~r.in /\ r.wLength > MAX_CONTROLDATA_SIZE

Transfer == INSTANCE ControlTransfer WITH
  PacketSize <- EP0_PACKET_SIZE, None <- ZeroRequest,
  phase <- host.phase, req <- host.req, got <- host.got, Answer <- Brings

\* A patient host waits for the end of each transfer, does not reset the bus and is sent no
\* reports. It knows two things that chapter 9 says of requests: the status of GetStatus has
\* two bytes, and the data of SetInterface do not go to the host. (The handlers send two bytes
\* also to a host that asked for one, and reply twice to a SetInterface that reads.)
Proper(r) ==
  /\ HandlerOf(r) = "GetStatus" /\ r.in => r.wLength > 1
  /\ HandlerOf(r) = "SetInterface" => ~r.in

Patient ==
  /\ MaxAborts = 0 /\ MaxResets = 0 /\ MaxReports = 0
  /\ \A r \in Requests : Proper(r)

\* The pipe's transfers are transfers of ControlTransfer: whatever usb_isr and the main loop do
\* in between, a patient host sees each request answered in whole packets, or refused. A handler
\* whose transition is undone by another's write-back may keep the host waiting, but never has
\* it take a wrong answer.
ImplementsTransfer == Transfer!Spec

\* A read that has reached its status stage has brought exactly the bytes there are of the
\* answer, across Chap9_BurstTransmitEP0 and Isr_Ep00TxDone.
ReadIsExact == Transfer!ReadIsExact

\* Every transfer of a patient host ends, also the read that brings less than was asked for,
\* unless a write-back of D13FLAGS has undone what a handler did for it (ISR.c:79).
Ends == host.phase \in Active ~> host.phase \in Ended \/ host.undone
=============================================================================
