------------------------------ MODULE TwoWire ------------------------------
(***************************************************************************)
(* The glove's I2C master (i2cmaster.c) on the AVR's two-wire interface,   *)
(* and at the other end of the bus a sensor with numbered registers.  A    *)
(* driver's call is the list todo of the primitives it makes; each gives   *)
(* the interface a command and polls for its end a bounded number of       *)
(* times.  The wires may go dead and come back (the glove moves), and the  *)
(* sensor may fail to acknowledge.                                         *)
(*                                                                         *)
(* Definitions marked "Mistaken" are plausible errors in those that follow *)
(* them.                                                                   *)
(***************************************************************************)
EXTENDS Integers, Sequences, FiniteSets

CONSTANTS
  Timeout,       \* polls before a wait is given up: 100
  MaxFaults      \* bound: outages of the bus and bytes refused by the sensor, weighted

ASSUME BusAssumption == {Timeout, MaxFaults} \subseteq Nat /\ Timeout > 0

I2C_WRITE == 0
I2C_READ  == 1

CONSTANT Address     \* MPU6050_ADDR

VARIABLES
  todo,      \* primitives of the call that are left; the first is being made
  at,        \* where it is
  timeout,   \* the wait's counter
  data,      \* what i2c_readAck and i2c_readNak have returned in this call
  flight,    \* the command the interface is carrying out
  TWINT, TWSR, TWDR,
  phase,     \* the sensor's side of the transfer
  pointer,   \* its register pointer
  regs,      \* its registers
  alive,     \* the wires carry signals
  faults,    \* the weight of the faults so far
  calm       \* history: this call began on a quiet bus and has met no fault

master   == <<todo, at, timeout, data>>
twi      == <<flight, TWINT, TWSR, TWDR>>
sensor   == <<phase, pointer, regs>>
wires    == <<alive, faults>>

-----------------------------------------------------------------------------
(* Primitives. *)

i2c_start(address) == [do |-> "start", byte |-> address]
i2c_write(byte)    == [do |-> "write", byte |-> byte]
i2c_readAck        == [do |-> "readAck", byte |-> 0]
i2c_readNak        == [do |-> "readNak", byte |-> 0]
i2c_stop           == [do |-> "stop", byte |-> 0]

Prim == Head(todo)

\* Without START, an interface that is not the master of a transfer has nothing to do.
Accepted(command) == IF command \in {"go", "goAck"} /\ phase = "idle" THEN "none" ELSE command

\* TWCR is written: TWINT is cleared, and the command is carried out. While another is still
\* under way it is lost, or takes the place of a START or STOP the bus has not let through.
TWCR(command) ==
  /\ TWINT' = FALSE
  /\ IF flight = "none"
       THEN flight' = Accepted(command)
       ELSE \/ flight' = flight
            \/ flight \in {"start", "stop"} /\ flight' = Accepted(command)

\* TWDR can be written only while nothing is being shifted.
Load(byte) == TWDR' = IF flight = "none" THEN byte ELSE TWDR

Wait(where) == at' = where /\ timeout' = Timeout

Issue ==
  /\ todo # <<>> /\ at = "issue"
  /\ CASE Prim.do = "start"   -> TWCR("start") /\ Wait("starting") /\ UNCHANGED TWDR
       [] Prim.do = "write"   -> TWCR("go") /\ Wait("sync") /\ Load(Prim.byte)
       [] Prim.do = "readAck" -> TWCR("goAck") /\ Wait("sync") /\ UNCHANGED TWDR
       [] Prim.do = "readNak" -> TWCR("go") /\ Wait("sync") /\ UNCHANGED TWDR
       [] OTHER               -> TWCR("stop") /\ Wait("stopping") /\ UNCHANGED TWDR
  /\ UNCHANGED <<todo, data, TWSR, sensor, wires, calm>>

\* What the loops of i2c_sync and i2c_waitStop wait for: TWINT set, TWSTO cleared.
Over == IF at = "stopping" THEN flight = "none" ELSE TWINT

\* Mistaken: the wait is not bounded.
PollForEver ==
  /\ at # "issue" /\ ~Over /\ timeout > 0
  /\ ~(alive /\ flight # "none")
  /\ UNCHANGED <<master, twi, sensor, wires, calm>>

\* Mistaken: the counter is counted down past zero.
PollPastZero ==
  /\ at # "issue" /\ ~Over
  /\ ~(alive /\ flight # "none")
  /\ timeout' = timeout - 1
  /\ UNCHANGED <<todo, at, data, twi, sensor, wires, calm>>

\* One round of a wait. A working bus ends a byte long before the polls are used up.
Poll ==
  /\ at # "issue" /\ ~Over /\ timeout > 0
  /\ ~(alive /\ flight # "none")
  /\ timeout' = timeout - 1
  /\ UNCHANGED <<todo, at, data, twi, sensor, wires, calm>>

\* The loop is left. At timeout 0 it has failed, even if its last look would now succeed.
WaitEnds == at # "issue" /\ (Over \/ timeout = 0)
Synced   == timeout # 0

Return == todo' = Tail(todo) /\ at' = "issue" /\ UNCHANGED timeout

\* What i2c_start returns when a wait of its ends; 2 if it goes on.
StartReturns ==
  CASE ~Synced -> 0
    [] Synced /\ at = "starting" -> IF TWSR \in {"START", "REP_START"} THEN 2 ELSE 1
    [] OTHER -> IF TWSR \in {"MT_SLA_ACK", "MR_SLA_ACK"} THEN 0 ELSE 1

\* i2c_start, behind its first wait: the address follows if START went out.
Started ==
  /\ WaitEnds /\ at = "starting"
  /\ UNCHANGED <<data, TWSR, sensor, wires, calm>>
  /\ IF StartReturns = 2
       THEN TWCR("go") /\ Load(Prim.byte) /\ Wait("addressing") /\ UNCHANGED todo
       ELSE Return /\ UNCHANGED <<TWINT, flight, TWDR>>

\* i2c_start, behind its second wait.
Addressed ==
  /\ WaitEnds /\ at = "addressing"
  /\ Return
  /\ UNCHANGED <<data, twi, sensor, wires, calm>>

\* i2c_write, i2c_readAck and i2c_readNak do not look at what their wait returned.
Transferred ==
  /\ WaitEnds /\ at = "sync"
  /\ data' = IF Prim.do = "write" THEN data ELSE Append(data, TWDR)
  /\ Return
  /\ UNCHANGED <<twi, sensor, wires, calm>>

Stopped ==
  /\ WaitEnds /\ at = "stopping"
  /\ Return
  /\ UNCHANGED <<data, twi, sensor, wires, calm>>

Master == Issue \/ Poll \/ Started \/ Addressed \/ Transferred \/ Stopped

-----------------------------------------------------------------------------
(* The interface and the sensor (not in this repository). *)

Done(status) == flight' = "none" /\ TWINT' = TRUE /\ TWSR' = status

StartSent ==
  /\ alive /\ flight = "start"
  /\ Done(IF phase = "idle" THEN "START" ELSE "REP_START")
  /\ phase' = "begun"
  /\ UNCHANGED <<master, TWDR, pointer, regs, wires, calm>>

StopSent ==
  /\ alive /\ flight = "stop"
  /\ flight' = "none" /\ phase' = "idle"
  /\ UNCHANGED <<master, TWINT, TWSR, TWDR, pointer, regs, wires, calm>>

\* The byte behind START is an address; the sensor answers to its own.
AddressSent ==
  /\ alive /\ flight \in {"go", "goAck"} /\ phase = "begun"
  /\ CASE TWDR = Address + I2C_WRITE -> Done("MT_SLA_ACK") /\ phase' = "pointer"
       [] TWDR = Address + I2C_READ  -> Done("MR_SLA_ACK") /\ phase' = "read"
       [] OTHER                      -> Done("NACK") /\ phase' = "nobody"
  /\ UNCHANGED <<master, TWDR, pointer, regs, wires, calm>>

\* The first byte written is a register's number, those behind it go into the registers.
ByteSent ==
  /\ alive /\ flight \in {"go", "goAck"} /\ phase \in {"pointer", "write"}
  /\ Done("MT_DATA_ACK")
  /\ phase' = "write"
  /\ pointer' = IF phase = "pointer" THEN TWDR ELSE pointer + 1
  /\ regs' = IF phase = "write" /\ pointer \in DOMAIN regs
               THEN [regs EXCEPT ![pointer] = TWDR] ELSE regs
  /\ UNCHANGED <<master, TWDR, wires, calm>>

ByteReceived(byte) ==
  /\ alive /\ flight \in {"go", "goAck"} /\ phase = "read"
  /\ Done("MR_DATA")
  /\ TWDR' = byte
  /\ pointer' = pointer + 1
  /\ phase' = IF flight = "goAck" THEN "read" ELSE "nobody"
  /\ UNCHANGED <<master, regs, wires, calm>>

NobodyAnswers ==
  /\ alive /\ flight \in {"go", "goAck"} /\ phase = "nobody"
  /\ Done("NACK")
  /\ TWDR' \in {TWDR, 255}
  /\ UNCHANGED <<master, sensor, wires, calm>>

Refuse(weight) ==
  /\ alive /\ flight \in {"go", "goAck"} /\ phase \in {"begun", "pointer", "write"}
  /\ faults + weight <= MaxFaults /\ faults' = faults + weight /\ calm' = FALSE
  /\ Done("NACK") /\ phase' = "nobody"
  /\ UNCHANGED <<master, TWDR, pointer, regs, alive>>

Die(weight) ==
  /\ alive /\ faults + weight <= MaxFaults
  /\ alive' = FALSE /\ faults' = faults + weight /\ calm' = FALSE
  /\ UNCHANGED <<master, twi, sensor>>

Revive ==
  /\ ~alive /\ alive' = TRUE
  /\ UNCHANGED <<master, twi, sensor, faults, calm>>

Carry(byte) ==
  StartSent \/ StopSent \/ AddressSent \/ ByteSent \/ ByteReceived(byte) \/ NobodyAnswers
=============================================================================
