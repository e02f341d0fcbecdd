-------------------------- MODULE ControlTransfer --------------------------
(***************************************************************************)
(* What a host may rely on when it makes one control transfer after the    *)
(* other on endpoint 0: a read brings exactly what there is of the answer, *)
(* up to the length asked for, in full packets and a last short one, and a *)
(* transfer ends in a stall only if the device may refuse it.              *)
(* ControlPipe is shown to implement it for a host that waits for the end  *)
(* of each transfer.                                                       *)
(***************************************************************************)
EXTENDS Naturals

CONSTANTS
  Requests,
  None,                    \* no request yet
  PacketSize,
  IsRead(_), HasData(_),   \* the stages of a request's transfer
  Asked(_),                \* wLength
  Answer(_),               \* the bytes a read brings
  Refusable(_)             \* whether the device may stall it

\* What the theorems assume of the constants, and ControlPipe's meet.
TransferAssumption ==
  /\ PacketSize \in Nat \ {0}
  /\ \A r \in Requests :
       /\ {IsRead(r), HasData(r), Refusable(r)} \subseteq BOOLEAN
       /\ Asked(r) \in Nat /\ Answer(r) \in Nat
       /\ Answer(r) <= Asked(r)

VARIABLES phase, req, got
vars == <<phase, req, got>>

Running == {"dataIn", "dataOut", "statusIn", "statusOut"}
Over    == {"idle", "complete", "stalled"}

Init == phase = "idle" /\ req = None /\ got = 0

Begin(r) ==
  /\ phase \in Over
  /\ phase' = IF IsRead(r) THEN "dataIn" ELSE IF HasData(r) THEN "dataOut" ELSE "statusIn"
  /\ req' = r /\ got' = 0

\* A packet is full unless it is the last; a last full packet is known by the length asked for.
Packet ==
  LET left == Answer(req) - got
      n    == IF left < PacketSize THEN left ELSE PacketSize
  IN  /\ phase = "dataIn"
      /\ got' = got + n
      /\ phase' = IF n < PacketSize \/ got' = Asked(req) THEN "statusOut" ELSE "dataIn"
      /\ UNCHANGED req

SendData ==
  /\ phase = "dataOut" /\ phase' = "statusIn"
  /\ UNCHANGED <<req, got>>

Status ==
  /\ phase \in {"statusIn", "statusOut"} /\ phase' = "complete"
  /\ UNCHANGED <<req, got>>

Stall ==
  /\ phase \in Running /\ Refusable(req) /\ phase' = "stalled"
  /\ UNCHANGED <<req, got>>

Next ==
  \/ \E r \in Requests : Begin(r)
  \/ Packet \/ SendData \/ Status \/ Stall

Spec == Init /\ [][Next]_vars

-----------------------------------------------------------------------------

TypeOK ==
  /\ phase \in Running \cup Over
  /\ got \in Nat
  /\ phase # "idle" => req \in Requests

\* A read that has reached its status stage has brought the whole answer and nothing else,
\* whatever the lengths: no packet size, in particular no answer of full packets only, makes
\* the last packet ambiguous.
ReadIsExact ==
  phase \in {"statusOut", "complete"} /\ IsRead(req) => got = Answer(req)
=============================================================================
