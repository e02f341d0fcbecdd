--------------------------- MODULE MCControlPipe ---------------------------
(* The requests and bounds under which TLC checks ControlPipe. *)
EXTENDS TransferRefinement

Standard(in, recipient, bRequest, wValue, length) ==
  [in |-> in, type |-> "standard", recipient |-> recipient, bRequest |-> bRequest,
   wValue |-> wValue, wIndex |-> 0, wLength |-> length]

Class(in, bRequest, wValue, length) ==
  [in |-> in, type |-> "class", recipient |-> "interface", bRequest |-> bRequest,
   wValue |-> wValue, wIndex |-> 0, wLength |-> length]

\* What a host sends to a keyboard: the product string is the one descriptor of two packets.
SetAddress5      == Standard(FALSE, "device", 5, 5, 0)
SetAddress0      == Standard(FALSE, "device", 5, 0, 0)
GetDevice        == Standard(TRUE, "device", 6, 256, 64)
GetProduct       == Standard(TRUE, "device", 6, 770, 255)
GetHalfProduct   == Standard(TRUE, "device", 6, 770, 64)
GetReportDescr   == Standard(TRUE, "interface", 6, 34 * 256, 255)
GetUnknown       == Standard(TRUE, "device", 6, 7 * 256, 10)
SetConfiguration1 == Standard(FALSE, "device", 9, 1, 0)
SetConfiguration0 == Standard(FALSE, "device", 9, 0, 0)
GetConfiguration1 == Standard(TRUE, "device", 8, 0, 1)
GetInterfaceIn   == Standard(TRUE, "interface", 10, 0, 1)
SetInterfaceIn   == Standard(TRUE, "interface", 11, 0, 1)
GetReport        == Class(TRUE, 1, 256, 8)
SetReport        == Class(FALSE, 9, 512, 8)
SetLong          == Class(FALSE, 9, 512, 20)

WildRequests    == {SetAddress5, GetProduct, SetConfiguration1, SetReport, GetReport, SetLong}
RecoveryRequests == {GetProduct, SetReport, SetInterfaceIn, GetReport}

PatientRequests == {SetAddress5, GetDevice, GetProduct, GetHalfProduct, GetReportDescr, GetUnknown,
                    SetConfiguration1, SetConfiguration0, GetConfiguration1, GetInterfaceIn,
                    SetLong}

EnumerationRequests == {SetAddress5, SetAddress0, SetConfiguration1, SetConfiguration0, GetProduct,
                        GetUnknown, GetReport, SetReport, SetLong}
=============================================================================
