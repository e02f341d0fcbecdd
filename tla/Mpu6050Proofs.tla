---------------------------- MODULE Mpu6050Proofs ----------------------------
(***************************************************************************)
(* The driver and the bus, for any number of faults, any length of the     *)
(* waits and any contents of the registers.                                *)
(*                                                                         *)
(* Reading raw data is harmless.  A START that is lost turns a reading     *)
(* into a writing, of bytes nobody meant to write; what saves the settings *)
(* is that the sensor's register pointer then starts at the measurement    *)
(* and cannot be moved on far enough: every primitive has at most one byte *)
(* sent, and a reading has eighteen.                                       *)
(*                                                                         *)
(* A call that meets no fault does exactly what it is for.  DeepInv says,  *)
(* of a calm call, at each of its primitives where the sensor stands, what *)
(* has been read so far and what is left to be written.                    *)
(***************************************************************************)
EXTENDS Mpu6050, SequenceTheorems, TLAPS

Going == flight \in {"go", "goAck"}

\* The bytes that may still be sent before the call is over.
Budget == Len(todo) - (IF at \in {"sync", "addressing"} THEN 1 ELSE 0) + (IF Going THEN 1 ELSE 0)

\* True of every call: TWINT and the command in flight exclude each other, and a status that
\* lets i2c_start send the address is only seen while the sensor expects one.
Base ==
  /\ DOMAIN regs = Configuration
  /\ flight # "none" => ~TWINT
  /\ TWINT /\ TWSR \in {"START", "REP_START"} => phase = "begun"
  /\ todo = <<>> => at = "issue"
  /\ op \in Nat
  /\ rewriting => op < 6

\* What a reading's call is made of.
Primitives ==
  {i2c_start(Address + I2C_WRITE), i2c_start(Address + I2C_READ), i2c_write(RA_ACCEL_XOUT_H),
   i2c_readAck, i2c_readNak, i2c_stop}

\* True of a reading that has begun with the bus at rest.
ReadingInv ==
  /\ todo \in Seq(Primitives) /\ Len(todo) <= 18
  /\ phase = "pointer" => TWDR \in {RA_ACCEL_XOUT_H, Address}
  /\ phase = "write" =>
       /\ pointer \in Int /\ pointer >= RA_ACCEL_XOUT_H
       /\ pointer < Address => pointer + Budget <= RA_ACCEL_XOUT_H + 19

Reading == op > Len(mpu6050_init) /\ before.quiet

IInv == Base /\ (Reading => ReadingInv)

LEMMA AddressIsHigh == Address \in Int /\ Address >= 128
  BY AddressAssumption DEF AddressAssumption

LEMMA InitLength == Len(mpu6050_init) = 6
  BY DEF mpu6050_init

\* The one byte a reading writes is the number of the first register of the measurement.
LEMMA WrittenByte == \A p \in Primitives : p.do = "write" => p.byte = RA_ACCEL_XOUT_H
  BY DEF Primitives, i2c_start, i2c_write, i2c_readAck, i2c_readNak, i2c_stop

LEMMA Joined ==
  ASSUME NEW S, NEW s \in Seq(S), NEW t \in Seq(S)
  PROVE  s \o t \in Seq(S) /\ Len(s \o t) = Len(s) + Len(t)
  BY ConcatProperties

\* The call of mpu6050_getRawData has the shape the invariant asks for.
LEMMA ReadBytesShape ==
  /\ mpu6050_readBytes(RA_ACCEL_XOUT_H, 14) \in Seq(Primitives)
  /\ Len(mpu6050_readBytes(RA_ACCEL_XOUT_H, 14)) = 18
  <1> DEFINE head == <<i2c_start(Address + I2C_WRITE), i2c_write(RA_ACCEL_XOUT_H),
                       i2c_start(Address + I2C_READ)>>
             reads == [i \in 1..14 |-> IF i = 14 THEN i2c_readNak ELSE i2c_readAck]
             last == <<i2c_stop>>
  <1>1. /\ i2c_start(Address + I2C_WRITE) \in Primitives
        /\ i2c_write(RA_ACCEL_XOUT_H) \in Primitives
        /\ i2c_start(Address + I2C_READ) \in Primitives
        /\ i2c_readNak \in Primitives /\ i2c_readAck \in Primitives /\ i2c_stop \in Primitives
    BY Zenon DEF Primitives
  <1>2. head \in Seq(Primitives) /\ Len(head) = 3
    BY <1>1
  <1>3. reads \in Seq(Primitives) /\ Len(reads) = 14
    <2>1. \A x, y : x \in Primitives /\ y \in Primitives =>
            LET s == [i \in 1..14 |-> IF i = 14 THEN x ELSE y]
            IN  s \in Seq(Primitives) /\ Len(s) = 14
      OBVIOUS
    <2> QED BY <1>1, <2>1
  <1>4. last \in Seq(Primitives) /\ Len(last) = 1
    BY <1>1
  <1>5. mpu6050_readBytes(RA_ACCEL_XOUT_H, 14) = (head \o reads) \o last
    BY DEF mpu6050_readBytes
  <1> HIDE DEF head, reads, last
  <1>6. head \o reads \in Seq(Primitives) /\ Len(head \o reads) = 17
    <2>1. head \o reads \in Seq(Primitives) /\ Len(head \o reads) = Len(head) + Len(reads)
      BY <1>2, <1>3, Joined
    <2> QED BY <1>2, <1>3, <2>1
  <1>7. (head \o reads) \o last \in Seq(Primitives) /\ Len((head \o reads) \o last) = 18
    <2> DEFINE front == head \o reads
    <2>1. front \in Seq(Primitives) /\ Len(front) = 17
      BY <1>6
    <2> HIDE DEF front
    <2>2. front \o last \in Seq(Primitives) /\ Len(front \o last) = Len(front) + Len(last)
      BY <1>4, <2>1, Joined
    <2> QED BY <1>4, <2>1, <2>2 DEF front
  <1> QED BY <1>5, <1>7

-----------------------------------------------------------------------------
(* Base is inductive. *)

LEMMA BaseInit == Init => Base
  <1> SUFFICES ASSUME Init PROVE Base
    OBVIOUS
  <1>1. DOMAIN regs = Configuration
    <2>1. regs \in [Configuration -> 0..255]
      BY ResetsAssumption DEF Init, ResetsAssumption
    <2> QED BY <2>1
  <1> QED BY <1>1 DEF Init, Base

LEMMA BaseMaster ==
  ASSUME Base, Master, UNCHANGED <<driver, measured>>
  PROVE  Base'
  <1> USE DEF Base, driver, twi, sensor, wires, master
  <1>1. CASE Issue
    BY <1>1 DEF Issue, TWCR, Wait
  <1>2. CASE Poll
    BY <1>2 DEF Poll
  <1>3. CASE Started
    BY <1>3 DEF Started, TWCR, Wait, Return
  <1>4. CASE Addressed
    BY <1>4 DEF Addressed, Return
  <1>5. CASE Transferred
    BY <1>5 DEF Transferred, Return
  <1>6. CASE Stopped
    BY <1>6 DEF Stopped, Return
  <1> QED BY <1>1, <1>2, <1>3, <1>4, <1>5, <1>6 DEF Master

LEMMA BaseBus ==
  ASSUME Base, UNCHANGED <<driver, measured>>,
         Carry(Contents(pointer)) \/ Refuse(Weight) \/ Die(Weight) \/ Revive
  PROVE  Base'
  <1> USE DEF Base, driver, twi, sensor, wires, master
  <1>1. CASE StartSent
    BY <1>1 DEF StartSent, Done
  <1>2. CASE StopSent
    BY <1>2 DEF StopSent
  <1>3. CASE AddressSent
    <2>1. flight' = "none" /\ TWSR' \in {"MT_SLA_ACK", "MR_SLA_ACK", "NACK"}
      <3>1. CASE TWDR = Address + I2C_WRITE
        BY <1>3, <3>1 DEF AddressSent, Done
      <3>2. CASE TWDR # Address + I2C_WRITE /\ TWDR = Address + I2C_READ
        BY <1>3, <3>2 DEF AddressSent, Done
      <3>3. CASE TWDR # Address + I2C_WRITE /\ TWDR # Address + I2C_READ
        BY <1>3, <3>3 DEF AddressSent, Done
      <3> QED BY <3>1, <3>2, <3>3
    <2> QED BY <1>3, <2>1 DEF AddressSent
  <1>4. CASE ByteSent
    <2>1. DOMAIN regs' = DOMAIN regs
      BY <1>4 DEF ByteSent
    <2> QED BY <1>4, <2>1 DEF ByteSent, Done
  <1>5. CASE ByteReceived(Contents(pointer))
    BY <1>5 DEF ByteReceived, Done
  <1>6. CASE NobodyAnswers
    BY <1>6 DEF NobodyAnswers, Done
  <1>7. CASE Refuse(Weight)
    BY <1>7 DEF Refuse, Done
  <1>8. CASE Die(Weight)
    BY <1>8 DEF Die
  <1>9. CASE Revive
    BY <1>9 DEF Revive
  <1> QED BY <1>1, <1>2, <1>3, <1>4, <1>5, <1>6, <1>7, <1>8, <1>9 DEF Carry

LEMMA BaseDriver ==
  ASSUME Base, Driver
  PROVE  Base'
  <1> USE InitLength DEF Base, Call, twi, sensor, wires, Initialized
  <1>1. CASE BeginBits
    BY <1>1 DEF BeginBits
  <1>2. CASE Rewrite
    BY <1>2 DEF Rewrite
  <1>3. CASE WriteByte
    BY <1>3 DEF WriteByte
  <1>4. CASE GetRawData
    BY <1>4 DEF GetRawData
  <1> QED BY <1>1, <1>2, <1>3, <1>4 DEF Driver

-----------------------------------------------------------------------------
(* Once a reading has begun with the bus at rest, its primitives and the   *)
(* bus keep what bounds the register pointer.                              *)

\* The first primitive is made and taken off the list.
LEMMA Shortened ==
  ASSUME todo \in Seq(Primitives), Len(todo) <= 18, todo # <<>>, todo' = Tail(todo)
  PROVE  /\ todo' \in Seq(Primitives) /\ Len(todo') = Len(todo) - 1 /\ Len(todo) >= 1
         /\ Len(todo) \in Nat /\ Len(todo') \in Nat
  <1>1. \A S : \A s \in Seq(S) :
          s # <<>> => Tail(s) \in Seq(S) /\ Len(Tail(s)) = Len(s) - 1 /\ Len(s) >= 1
                      /\ Len(s) \in Nat
    OBVIOUS
  <1> QED BY <1>1

\* Nothing a call does while it waits raises the pointer's bound.
LEMMA WritePhaseKept ==
  ASSUME ReadingInv, pointer' = pointer, phase' = phase,
         Len(todo') \in Nat, Budget \in Int, Budget' \in Int, Budget' <= Budget
  PROVE  phase' = "write" => /\ pointer' \in Int /\ pointer' >= RA_ACCEL_XOUT_H
                             /\ pointer' < Address => pointer' + Budget' <= RA_ACCEL_XOUT_H + 19
  BY AddressIsHigh DEF ReadingInv, RA_ACCEL_XOUT_H

LEMMA ReadingMaster ==
  ASSUME Base, ReadingInv, Master
  PROVE  ReadingInv'
  <1>0. Len(todo) \in Nat /\ Len(todo) <= 18 /\ todo \in Seq(Primitives)
    BY DEF ReadingInv
  <1>a. pointer' = pointer /\ phase' = phase
    BY DEF Master, Issue, Poll, Started, Addressed, Transferred, Stopped, sensor, master, twi
  <1>b. Budget \in Int
    BY <1>0 DEF Budget
  \* It is enough that the call gets no longer, the bound does not rise and the byte that a
  \* fresh transfer would send is right.
  <1>c. ASSUME todo' \in Seq(Primitives), Len(todo') <= 18, Budget' <= Budget, Budget' \in Int,
               phase = "pointer" => TWDR' \in {TWDR, RA_ACCEL_XOUT_H}
        PROVE  ReadingInv'
    <2>1. Len(todo') \in Nat
      BY <1>c
    <2>2. phase' = "write" => /\ pointer' \in Int /\ pointer' >= RA_ACCEL_XOUT_H
                              /\ pointer' < Address => pointer' + Budget' <= RA_ACCEL_XOUT_H + 19
      BY <1>a, <1>b, <1>c, <2>1, WritePhaseKept
    <2>3. phase' = "pointer" => TWDR' \in {RA_ACCEL_XOUT_H, Address}
      BY <1>a, <1>c DEF ReadingInv
    <2> QED BY <1>c, <2>2, <2>3 DEF ReadingInv
  <1>1. CASE Issue
    <2>1. Prim \in Primitives /\ todo' = todo /\ todo # <<>> /\ at = "issue" /\ Len(todo) >= 1
      BY <1>0, <1>1 DEF Issue, Prim
    <2>2. TWDR' \in {TWDR, RA_ACCEL_XOUT_H}
      BY <1>1, <2>1, WrittenByte DEF Issue, Load
    <2>3. Budget' <= Budget /\ Budget' \in Int
      <3>1. CASE Prim.do \in {"write", "readAck", "readNak"}
        <4>1. at' = "sync"
          BY <1>1, <3>1 DEF Issue, Wait
        <4> QED BY <1>0, <2>1, <4>1 DEF Budget
      <3>2. CASE Prim.do = "start"
        <4>1. Going' => Going
          BY <1>1, <3>2 DEF Issue, TWCR, Accepted, Going
        <4>2. at' = "starting"
          BY <1>1, <3>2 DEF Issue, Wait
        <4> QED BY <1>0, <2>1, <4>1, <4>2 DEF Budget
      <3>3. CASE Prim.do \notin {"write", "readAck", "readNak", "start"}
        <4>1. Going' => Going
          BY <1>1, <3>3 DEF Issue, TWCR, Accepted, Going
        <4>2. at' = "stopping"
          BY <1>1, <3>3 DEF Issue, Wait
        <4> QED BY <1>0, <2>1, <4>1, <4>2 DEF Budget
      <3> QED BY <3>1, <3>2, <3>3
    <2> QED BY <1>0, <1>c, <2>1, <2>2, <2>3
  <1>2. CASE Poll
    <2>1. todo' = todo /\ at' = at /\ flight' = flight /\ TWDR' = TWDR
      BY <1>2 DEF Poll, twi
    <2>2. Budget' = Budget
      BY <2>1 DEF Budget, Going
    <2> QED BY <1>0, <1>b, <1>c, <2>1, <2>2
  <1>3. CASE Started
    <2>0. todo # <<>> /\ at = "starting"
      BY <1>3 DEF Started, Base
    <2>1. CASE StartReturns = 2
      <3>1. phase # "pointer" /\ phase # "write"
        BY <1>3, <2>1 DEF Started, StartReturns, Synced, WaitEnds, Over, Base
      <3>2. todo' = todo
        BY <1>3, <2>1 DEF Started
      <3> QED BY <1>0, <1>a, <3>1, <3>2 DEF ReadingInv
    <2>2. CASE StartReturns # 2
      <3>1. todo' = Tail(todo) /\ at' = "issue" /\ TWDR' = TWDR /\ flight' = flight
        BY <1>3, <2>2 DEF Started, Return
      <3>2. todo' \in Seq(Primitives) /\ Len(todo') = Len(todo) - 1
        BY <1>0, <2>0, <3>1, Shortened
      <3>3. Budget' <= Budget /\ Budget' \in Int
        BY <1>0, <2>0, <3>1, <3>2 DEF Budget, Going
      <3> QED BY <1>0, <1>c, <3>1, <3>2, <3>3
    <2> QED BY <2>1, <2>2
  <1>4. CASE Addressed \/ Transferred \/ Stopped
    <2>1. /\ todo' = Tail(todo) /\ at' = "issue" /\ TWDR' = TWDR /\ flight' = flight
          /\ todo # <<>>
      BY <1>4 DEF Addressed, Transferred, Stopped, Return, Base, twi
    <2>2. todo' \in Seq(Primitives) /\ Len(todo') = Len(todo) - 1
      BY <1>0, <2>1, Shortened
    <2>3. Going' <=> Going
      BY <2>1 DEF Going
    <2>4. Budget' <= Budget /\ Budget' \in Int
      <3>1. CASE Going
        BY <1>0, <2>1, <2>2, <2>3, <3>1 DEF Budget
      <3>2. CASE ~Going
        <4>1. Budget = Len(todo) - (IF at \in {"sync", "addressing"} THEN 1 ELSE 0)
          BY <1>0, <3>2 DEF Budget
        <4>2. Budget' = Len(todo')
          <5>1. at' = "issue" /\ ~Going' /\ Len(todo') \in Int
            BY <1>0, <2>1, <2>2, <2>3, <3>2
          <5> QED BY <5>1 DEF Budget
        <4> QED BY <1>0, <2>2, <4>1, <4>2
      <3> QED BY <3>1, <3>2
    <2> QED BY <1>0, <1>c, <2>1, <2>2, <2>4
  <1> QED BY <1>1, <1>2, <1>3, <1>4 DEF Master

LEMMA ReadingBus ==
  ASSUME Base, ReadingInv, Carry(Contents(pointer)) \/ Refuse(Weight) \/ Die(Weight) \/ Revive
  PROVE  ReadingInv'
  <1>0. Len(todo) \in Nat /\ Len(todo) <= 18 /\ todo \in Seq(Primitives)
    BY DEF ReadingInv
  <1>a. todo' = todo /\ at' = at
    BY DEF Carry, StartSent, StopSent, AddressSent, ByteSent, ByteReceived, NobodyAnswers,
           Refuse, Die, Revive, master
  <1>b. ASSUME phase' \notin {"pointer", "write"} PROVE ReadingInv'
    BY <1>0, <1>a, <1>b DEF ReadingInv
  <1>1. CASE StartSent \/ StopSent \/ ByteReceived(Contents(pointer)) \/ Refuse(Weight)
    BY <1>1, <1>b DEF StartSent, StopSent, ByteReceived, Refuse
  <1>2. CASE AddressSent
    <2>1. CASE TWDR = Address + I2C_WRITE
      <3>0. TWDR' = Address
        BY <1>2, <2>1, AddressIsHigh DEF AddressSent, I2C_WRITE
      <3>1. phase' = "pointer" /\ TWDR' = Address
        BY <1>2, <2>1, <3>0, AddressIsHigh DEF AddressSent, I2C_WRITE, I2C_READ
      <3> QED BY <1>0, <1>a, <3>1 DEF ReadingInv
    <2>2. CASE TWDR # Address + I2C_WRITE
      <3>1. phase' \in {"read", "nobody"}
        BY <1>2, <2>2 DEF AddressSent
      <3> QED BY <1>b, <3>1
    <2> QED BY <2>1, <2>2
  <1>3. CASE ByteSent
    <2>1. phase' = "write" /\ Going /\ ~Going'
      BY <1>3 DEF ByteSent, Done, Going
    <2>2. Budget \in Int /\ Budget' = Budget - 1
      BY <1>0, <1>a, <2>1 DEF Budget
    <2>3. Budget' <= 18
      BY <1>0, <1>a, <2>1 DEF Budget
    <2>4. /\ pointer' \in Int /\ pointer' >= RA_ACCEL_XOUT_H
          /\ pointer' < Address => pointer' + Budget' <= RA_ACCEL_XOUT_H + 19
      <3>1. CASE phase = "pointer"
        <4>1. pointer' = RA_ACCEL_XOUT_H \/ pointer' = Address
          BY <1>3, <3>1 DEF ByteSent, ReadingInv
        <4> QED BY <2>2, <2>3, <4>1, AddressIsHigh DEF RA_ACCEL_XOUT_H
      <3>2. CASE phase = "write"
        <4>1. pointer' = pointer + 1
          BY <1>3, <3>2 DEF ByteSent
        <4> QED BY <2>2, <3>2, <4>1, AddressIsHigh DEF ReadingInv, RA_ACCEL_XOUT_H
      <3> QED BY <1>3, <3>1, <3>2 DEF ByteSent
    <2> QED BY <1>0, <1>a, <2>1, <2>4 DEF ReadingInv
  <1>4. CASE NobodyAnswers
    BY <1>4, <1>b DEF NobodyAnswers, sensor
  <1>5. CASE Die(Weight) \/ Revive
    <2>1. UNCHANGED <<todo, at, flight, TWDR, phase, pointer>>
      BY <1>5 DEF Die, Revive, master, twi, sensor
    <2>2. Budget' = Budget
      BY <2>1 DEF Budget, Going
    <2> QED BY <2>1, <2>2 DEF ReadingInv
  <1> QED BY <1>1, <1>2, <1>3, <1>4, <1>5 DEF Carry

-----------------------------------------------------------------------------
(* The invariant, and what follows from it. *)

LEMMA ReadingDriver ==
  ASSUME Base, Driver, Reading'
  PROVE  ReadingInv'
  <1>1. GetRawData
    BY InitLength DEF Driver, BeginBits, Rewrite, WriteByte, Reading, Base, Initialized
  <1>2. /\ todo' = mpu6050_readBytes(RA_ACCEL_XOUT_H, 14)
        /\ phase = "idle" /\ phase' = phase
    BY <1>1 DEF GetRawData, Call, Reading, Quiet, sensor
  <1>3. todo' \in Seq(Primitives) /\ Len(todo') = 18
    BY <1>2, ReadBytesShape
  <1>4. phase' # "pointer" /\ phase' # "write"
    BY <1>2
  <1> QED BY <1>3, <1>4 DEF ReadingInv

LEMMA Inductive == IInv /\ [Next]_vars => IInv'
  <1> SUFFICES ASSUME IInv, [Next]_vars PROVE IInv'
    OBVIOUS
  <1>1. CASE Driver
    BY <1>1, BaseDriver, ReadingDriver DEF IInv
  <1>2. CASE OnBus(Master)
    <2>1. Reading' = Reading
      BY <1>2 DEF OnBus, driver, Reading
    <2> QED BY <1>2, <2>1, BaseMaster, ReadingMaster DEF IInv, OnBus
  <1>3. CASE OnBus(Carry(Contents(pointer))) \/ OnBus(Refuse(Weight)) \/ OnBus(Die(Weight)) \/ OnBus(Revive)
    <2>1. Reading' = Reading
      BY <1>3 DEF OnBus, driver, Reading
    <2> QED BY <1>3, <2>1, BaseBus, ReadingBus DEF IInv, OnBus
  <1>4. CASE UNCHANGED vars
    BY <1>4 DEF vars, master, twi, sensor, wires, driver, IInv, Base, Reading, ReadingInv,
                Budget, Going
  <1> QED BY <1>1, <1>2, <1>3, <1>4 DEF Next

\* While a reading that began with the bus at rest is made, no step changes a register.
LEMMA NoRegisterChanges ==
  ASSUME IInv, [Next]_vars, Reading
  PROVE  regs' = regs
  <1>1. ReadingInv /\ Base
    BY DEF IInv
  <1>2. CASE ByteSent
    <2>1. Budget \in Int /\ Budget >= 0
      BY <1>1 DEF Base, ReadingInv, Budget
    <2>2. phase = "write" => pointer \notin Configuration
      <3>1. phase = "write" => pointer >= 59 /\ (pointer < Address => pointer + Budget <= 78)
        BY <1>1, AddressIsHigh DEF ReadingInv, RA_ACCEL_XOUT_H
      <3> QED BY <2>1, <3>1, AddressIsHigh DEF Configuration, RA_SMPLRT_DIV, RA_CONFIG,
                RA_GYRO_CONFIG, RA_ACCEL_CONFIG, RA_PWR_MGMT_1
    <2>3. DOMAIN regs = Configuration
      BY <1>1 DEF Base
    <2> QED BY <1>2, <2>2, <2>3 DEF ByteSent
  <1>3. CASE ~ByteSent
    BY <1>3 DEF Next, OnBus, Master, Issue, Poll, Started, Addressed, Transferred, Stopped, Carry,
      StartSent, StopSent, AddressSent, ByteReceived, NobodyAnswers, Refuse, Die, Revive, Driver,
      BeginBits, Rewrite, WriteByte, GetRawData, Call, vars, sensor, twi, master, wires
  <1> QED BY <1>2, <1>3

\* Raw data read from a bus at rest (mpu6050_getRawData) never change a setting of the sensor,
\* however many bytes and commands are lost or refused and wherever the waits are given up.
THEOREM ReadingIsHarmless == Spec => ReadingChangesNothing
  <1>1. Init => IInv
    <2>1. Init => ~Reading
      BY InitLength DEF Init, Reading
    <2> QED BY <2>1, BaseInit DEF IInv
  <1>2. IInv /\ [Next]_vars => [Reading => regs' = regs]_vars
    BY NoRegisterChanges
  <1>3. (Reading => regs' = regs) <=> (op > Len(mpu6050_init) /\ before.quiet => regs' = regs)
    BY DEF Reading
  <1> QED BY <1>1, <1>2, <1>3, Inductive, PTL DEF Spec, ReadingChangesNothing
-----------------------------------------------------------------------------
(* What a call has done, and on a calm bus what it has brought about. *)

Kinds == {"start", "write", "readAck", "readNak", "stop"}

AnyPrimitive == [do : Kinds, byte : 0..255]

\* The k-th primitive of mpu6050_readBytes, and of mpu6050_writeBytes with one byte.
ReadStep(reg, n, k) ==
  IF k = 1 THEN i2c_start(Address + I2C_WRITE) ELSE IF k = 2 THEN i2c_write(reg)
  ELSE IF k = 3 THEN i2c_start(Address + I2C_READ) ELSE IF k = n + 4 THEN i2c_stop
  ELSE IF k = n + 3 THEN i2c_readNak ELSE i2c_readAck

WriteStep(reg, byte, k) ==
  IF k = 1 THEN i2c_start(Address + I2C_WRITE) ELSE IF k = 2 THEN i2c_write(reg)
  ELSE IF k = 3 THEN i2c_write(byte) ELSE i2c_stop

\* Primitives made.
ReadMade(n) == n + 4 - Len(todo)
WriteMade   == 4 - Len(todo)

\* True of every call: what is left is the end of it, and the bytes returned are counted.
ReadShape(reg, n) ==
  /\ todo \in Seq(AnyPrimitive) /\ Len(todo) <= n + 4
  /\ \A i \in 1..Len(todo) : todo[i] = ReadStep(reg, n, ReadMade(n) + i)
  /\ data \in Seq(0..255)
  /\ Len(data) = IF ReadMade(n) <= 3 THEN 0 ELSE IF ReadMade(n) = n + 4 THEN n ELSE ReadMade(n) - 3

WriteShape(reg, byte) ==
  /\ todo \in Seq(AnyPrimitive) /\ Len(todo) <= 4
  /\ \A i \in 1..Len(todo) : todo[i] = WriteStep(reg, byte, WriteMade + i)
  /\ data = <<>>

\* The sensor as the first m primitives of a calm call leave it.
ReadAfter(reg, n, m) ==
  /\ m = 1 => phase = "pointer"
  /\ m = 2 => phase = "write" /\ pointer = reg
  /\ m \in 3..n + 2 => phase = "read" /\ pointer = reg + m - 3
  /\ m = n + 3 => phase = "nobody"
  /\ regs = before.regs

WriteAfter(reg, byte, m) ==
  /\ m = 1 => phase = "pointer"
  /\ m = 2 => phase = "write" /\ pointer = reg
  /\ m = 3 => phase = "write"
  /\ regs = IF m < 3 THEN before.regs ELSE [before.regs EXCEPT ![reg] = byte]

\* Where a calm call stands: it waits for what the bus carries or has carried.
Starting ==
  \/ flight = "start"
  \/ flight = "none" /\ TWINT /\ TWSR \in {"START", "REP_START"} /\ phase = "begun"

Calling == flight = "go" /\ phase = "begun" /\ TWDR = Prim.byte

ReadCalm(reg, n) ==
  LET m == ReadMade(n)
  IN  /\ alive /\ (at # "issue" => timeout = Timeout)
      /\ at = "issue" => flight = "none" /\ ReadAfter(reg, n, m)
      /\ at = "starting" => Starting /\ regs = before.regs /\ (m = 2 => pointer = reg)
      /\ at = "addressing" =>
           \/ Calling /\ regs = before.regs /\ (m = 2 => pointer = reg)
           \/ flight = "none" /\ TWINT /\ ReadAfter(reg, n, m + 1)
      /\ at = "sync" =>
           \/ /\ flight = (IF Prim.do = "readAck" THEN "goAck" ELSE "go")
              /\ ReadAfter(reg, n, m) /\ (m = 1 => TWDR = reg)
           \/ /\ flight = "none" /\ TWINT /\ ReadAfter(reg, n, m + 1)
              /\ m >= 3 => TWDR = Contents(reg + m - 3)
      /\ at = "stopping" => flight \in {"none", "stop"} /\ regs = before.regs
      /\ \A i \in 1..Len(data) : data[i] = Contents(reg + i - 1)

WriteCalm(reg, byte) ==
  LET m == WriteMade
  IN  /\ alive /\ (at # "issue" => timeout = Timeout)
      /\ at = "issue" => flight = "none" /\ WriteAfter(reg, byte, m)
      /\ at = "starting" => Starting /\ regs = before.regs
      /\ at = "addressing" =>
           \/ Calling /\ regs = before.regs
           \/ flight = "none" /\ TWINT /\ WriteAfter(reg, byte, m + 1)
      /\ at = "sync" =>
           \/ flight = "go" /\ WriteAfter(reg, byte, m) /\ TWDR = Prim.byte
           \/ flight = "none" /\ TWINT /\ WriteAfter(reg, byte, m + 1)
      /\ at = "stopping" =>
           flight \in {"none", "stop"} /\ regs = [before.regs EXCEPT ![reg] = byte]

Places == {"issue", "starting", "addressing", "sync", "stopping"}

Typed ==
  /\ at \in Places /\ (at # "issue" => todo # <<>>)
  /\ timeout \in 0..Timeout
  /\ regs \in [Configuration -> 0..255] /\ before.regs \in [Configuration -> 0..255]
  /\ TWDR \in 0..255
  /\ flight # "none" => ~TWINT
  /\ measured \in [1..6 -> -2^15..2^15 - 1]
  /\ at \in {"starting", "addressing"} => Prim.do = "start"
  /\ at = "sync" => Prim.do \in {"write", "readAck", "readNak"}
  /\ at = "stopping" => Prim.do = "stop"

\* The byte that setting f makes of b.
Setting(f, b) == IF f.length < 8 THEN Merged(b, f.bitStart, f.length, f.value) ELSE f.value

Written(f, byte) ==
  /\ WriteShape(f.reg, byte)
  /\ calm => byte = Setting(f, before.regs[f.reg]) /\ WriteCalm(f.reg, byte)

Read(reg, n) == ReadShape(reg, n) /\ (calm => ReadCalm(reg, n))

CallInv ==
  /\ op \in 0..7
  /\ rewriting => op < 6 /\ Now.length < 8 /\ Read(Now.reg, 1)
  /\ ~rewriting /\ op = 0 => todo = <<>> /\ data = <<>>
  /\ ~rewriting /\ op \in 1..6 => \E byte \in 0..255 : Written(mpu6050_init[op], byte)
  /\ op = 7 => Read(RA_ACCEL_XOUT_H, 14)

DeepInv == Typed /\ CallInv

-----------------------------------------------------------------------------
(* Numbers. *)

\* A word is what its two bytes are put together to, its sign included.
LEMMA WordBytes ==
  ASSUME NEW m \in -2^15..2^15 - 1
  PROVE  /\ ((m % 2^16) \div 256) \in 0..255 /\ ((m % 2^16) % 256) \in 0..255
         /\ Int16((m % 2^16) \div 256, (m % 2^16) % 256) = m
  <1>1. m \in Int /\ m >= -32768 /\ m <= 32767
    OBVIOUS
  <1>2. PICK v \in Int : v = m % 65536
    BY <1>1
  <1>3. v >= 0 /\ v <= 65535 /\ v = IF m >= 0 THEN m ELSE m + 65536
    BY <1>1, <1>2
  <1>4. PICK hi \in Int, lo \in Int : hi = v \div 256 /\ lo = v % 256
    BY <1>3
  <1>5. hi >= 0 /\ hi <= 255 /\ lo >= 0 /\ lo <= 255 /\ 256 * hi + lo = v
    BY <1>3, <1>4
  <1>6. Int16(hi, lo) = m
    BY <1>1, <1>3, <1>5 DEF Int16
  <1>7. 2^16 = 65536
    OBVIOUS
  <1> QED BY <1>2, <1>4, <1>5, <1>6, <1>7

\* Every register holds a byte.
LEMMA ContentsByte ==
  ASSUME Typed, NEW reg
  PROVE  Contents(reg) \in 0..255
  <1>1. CASE reg \in DOMAIN regs
    <2>1. regs[reg] \in 0..255
      BY <1>1 DEF Typed
    <2> QED BY <1>1, <2>1 DEF Contents
  <1>2. CASE reg \notin DOMAIN regs /\ reg \notin 59..72 \ {65, 66}
    BY <1>2 DEF Contents
  <1>3. CASE reg \notin DOMAIN regs /\ reg \in 59..72 \ {65, 66}
    <2> DEFINE i == (reg - 59) \div 2
               j == IF i < 3 THEN i + 1 ELSE i
    <2>1. j \in 1..6
      BY <1>3
    <2>2. measured[j] \in -2^15..2^15 - 1
      BY <2>1 DEF Typed
    <2>3. /\ ((measured[j] % 2^16) \div 256) \in 0..255
          /\ ((measured[j] % 2^16) % 256) \in 0..255
      BY <2>2, WordBytes
    <2>4. Contents(reg) = IF reg % 2 = 1 THEN (measured[j] % 2^16) \div 256 ELSE (measured[j] % 2^16) % 256
      BY <1>3, Zenon DEF Contents
    <2> QED BY <2>3, <2>4, Zenon
  <1> QED BY <1>1, <1>2, <1>3

-----------------------------------------------------------------------------
(* Calls and their primitives. *)

LEMMA MadeOf ==
  ASSUME NEW b \in 0..255
  PROVE  /\ i2c_start(b) \in AnyPrimitive /\ i2c_write(b) \in AnyPrimitive
         /\ i2c_readAck \in AnyPrimitive /\ i2c_readNak \in AnyPrimitive /\ i2c_stop \in AnyPrimitive
  <1>1. \A z \in 0..255, x \in Kinds : [do |-> x, byte |-> z] \in AnyPrimitive
    BY DEF AnyPrimitive
  <1>2. 0 \in 0..255
    OBVIOUS
  <1>3. "start" \in Kinds /\ "write" \in Kinds /\ "readAck" \in Kinds /\ "readNak" \in Kinds /\ "stop" \in Kinds
    BY DEF Kinds
  <1> QED BY <1>1, <1>2, <1>3, Zenon DEF i2c_start, i2c_write, i2c_readAck, i2c_readNak, i2c_stop

LEMMA AddressBytes == Address + I2C_WRITE \in 0..255 /\ Address + I2C_READ \in 0..255
  BY AddressAssumption DEF AddressAssumption, I2C_WRITE, I2C_READ

LEMMA ReadStepTyped ==
  ASSUME NEW reg \in 0..255, NEW n, NEW k
  PROVE  ReadStep(reg, n, k) \in AnyPrimitive
  BY AddressBytes, MadeOf, Zenon DEF ReadStep

LEMMA WriteStepTyped ==
  ASSUME NEW reg \in 0..255, NEW byte \in 0..255, NEW k
  PROVE  WriteStep(reg, byte, k) \in AnyPrimitive
  BY AddressBytes, MadeOf, Zenon DEF WriteStep

\* A call's k-th primitive.
LEMMA ReadBytesIs ==
  ASSUME NEW reg \in 0..255, NEW n \in Nat \ {0}
  PROVE  /\ mpu6050_readBytes(reg, n) \in Seq(AnyPrimitive)
         /\ Len(mpu6050_readBytes(reg, n)) = n + 4
         /\ \A k \in 1..n + 4 : mpu6050_readBytes(reg, n)[k] = ReadStep(reg, n, k)
  <1> DEFINE s1 == i2c_start(Address + I2C_WRITE)
             s2 == i2c_write(reg)
             s3 == i2c_start(Address + I2C_READ)
             nak == i2c_readNak
             ack == i2c_readAck
             stop == i2c_stop
             head == <<s1, s2, s3>>
             reads == [i \in 1..n |-> IF i = n THEN nak ELSE ack]
             last == <<stop>>
             front == head \o reads
  <1>1. s1 \in AnyPrimitive /\ s2 \in AnyPrimitive /\ s3 \in AnyPrimitive
        /\ nak \in AnyPrimitive /\ ack \in AnyPrimitive /\ stop \in AnyPrimitive
    BY AddressBytes, MadeOf
  <1>2. mpu6050_readBytes(reg, n) = front \o last
    BY DEF mpu6050_readBytes
  <1>3. \A k \in 1..n + 4 :
          ReadStep(reg, n, k) = IF k = 1 THEN s1 ELSE IF k = 2 THEN s2 ELSE IF k = 3 THEN s3
                                ELSE IF k = n + 4 THEN stop ELSE IF k = n + 3 THEN nak ELSE ack
    BY DEF ReadStep
  <1> HIDE DEF s1, s2, s3, nak, ack, stop
  <1>4. head \in Seq(AnyPrimitive) /\ Len(head) = 3 /\ head[1] = s1 /\ head[2] = s2 /\ head[3] = s3
    BY <1>1
  <1>5. reads \in Seq(AnyPrimitive) /\ Len(reads) = n
        /\ \A i \in 1..n : reads[i] = IF i = n THEN nak ELSE ack
    BY <1>1
  <1>6. last \in Seq(AnyPrimitive) /\ Len(last) = 1 /\ last[1] = stop
    BY <1>1
  <1> HIDE DEF head, reads, last
  <1>7. /\ front \in Seq(AnyPrimitive) /\ Len(front) = n + 3
        /\ \A i \in 1..n + 3 : front[i] = IF i <= 3 THEN head[i] ELSE reads[i - 3]
    <2>1. /\ front \in Seq(AnyPrimitive) /\ Len(front) = Len(head) + Len(reads)
          /\ \A i \in 1..Len(head) + Len(reads) :
               front[i] = IF i <= Len(head) THEN head[i] ELSE reads[i - Len(head)]
      BY <1>4, <1>5, ConcatProperties
    <2> QED BY <1>4, <1>5, <2>1
  <1> HIDE DEF front
  <1>8. /\ front \o last \in Seq(AnyPrimitive) /\ Len(front \o last) = n + 4
        /\ \A i \in 1..n + 4 : (front \o last)[i] = IF i <= n + 3 THEN front[i] ELSE last[i - (n + 3)]
    <2>1. /\ front \o last \in Seq(AnyPrimitive) /\ Len(front \o last) = Len(front) + Len(last)
          /\ \A i \in 1..Len(front) + Len(last) :
               (front \o last)[i] = IF i <= Len(front) THEN front[i] ELSE last[i - Len(front)]
      BY <1>6, <1>7, ConcatProperties
    <2> QED BY <1>6, <1>7, <2>1
  <1>9. ASSUME NEW k \in 1..n + 4 PROVE (front \o last)[k] = ReadStep(reg, n, k)
    <2>1. CASE k <= 3
      BY <1>3, <1>4, <1>7, <1>8, <2>1
    <2>2. CASE k > 3 /\ k <= n + 3
      <3>1. k - 3 \in 1..n /\ (k - 3 = n <=> k = n + 3)
        BY <2>2
      <3>2. (front \o last)[k] = reads[k - 3]
        BY <1>7, <1>8, <2>2
      <3> QED BY <1>3, <1>5, <2>2, <3>1, <3>2
    <2>3. CASE k = n + 4
      BY <1>3, <1>6, <1>8, <2>3
    <2>4. k <= 3 \/ (k > 3 /\ k <= n + 3) \/ k = n + 4
      OBVIOUS
    <2> QED BY <2>1, <2>2, <2>3, <2>4
  <1> QED BY <1>2, <1>8, <1>9

LEMMA WriteBytesIs ==
  ASSUME NEW reg \in 0..255, NEW byte \in 0..255
  PROVE  /\ mpu6050_writeBytes(reg, <<byte>>) \in Seq(AnyPrimitive)
         /\ Len(mpu6050_writeBytes(reg, <<byte>>)) = 4
         /\ \A k \in 1..4 : mpu6050_writeBytes(reg, <<byte>>)[k] = WriteStep(reg, byte, k)
  <1> DEFINE s1 == i2c_start(Address + I2C_WRITE)
             s2 == i2c_write(reg)
             s3 == i2c_write(byte)
             stop == i2c_stop
             body == [i \in 1..Len(<<byte>>) |-> i2c_write(<<byte>>[i])]
  <1>1. s1 \in AnyPrimitive /\ s2 \in AnyPrimitive /\ s3 \in AnyPrimitive /\ stop \in AnyPrimitive
    BY AddressBytes, MadeOf
  <1>2. mpu6050_writeBytes(reg, <<byte>>) = (<<s1, s2>> \o body) \o <<stop>>
    BY DEF mpu6050_writeBytes
  <1>3. body = <<s3>>
    BY DEF i2c_write
  <1>4. \A k \in 1..4 :
          WriteStep(reg, byte, k) = IF k = 1 THEN s1 ELSE IF k = 2 THEN s2 ELSE IF k = 3 THEN s3 ELSE stop
    BY Zenon DEF WriteStep
  <1> DEFINE head == <<s1, s2>>
             middle == <<s3>>
             last == <<stop>>
             front == head \o middle
  <1> HIDE DEF s1, s2, s3, stop, body
  <1>5. /\ head \in Seq(AnyPrimitive) /\ Len(head) = 2 /\ head[1] = s1 /\ head[2] = s2
        /\ middle \in Seq(AnyPrimitive) /\ Len(middle) = 1 /\ middle[1] = s3
        /\ last \in Seq(AnyPrimitive) /\ Len(last) = 1 /\ last[1] = stop
    BY <1>1
  <1> HIDE DEF head, middle, last
  <1>6. front \in Seq(AnyPrimitive) /\ Len(front) = 3 /\ front[1] = s1 /\ front[2] = s2 /\ front[3] = s3
    <2>1. /\ front \in Seq(AnyPrimitive) /\ Len(front) = Len(head) + Len(middle)
          /\ \A i \in 1..Len(head) + Len(middle) :
               front[i] = IF i <= Len(head) THEN head[i] ELSE middle[i - Len(head)]
      BY <1>5, ConcatProperties
    <2> QED BY <1>5, <2>1
  <1> HIDE DEF front
  <1>7. /\ front \o last \in Seq(AnyPrimitive) /\ Len(front \o last) = 4
        /\ \A k \in 1..4 : (front \o last)[k] =
             IF k = 1 THEN s1 ELSE IF k = 2 THEN s2 ELSE IF k = 3 THEN s3 ELSE stop
    <2>1. /\ front \o last \in Seq(AnyPrimitive) /\ Len(front \o last) = Len(front) + Len(last)
          /\ \A i \in 1..Len(front) + Len(last) :
               (front \o last)[i] = IF i <= Len(front) THEN front[i] ELSE last[i - Len(front)]
      BY <1>5, <1>6, ConcatProperties
    <2> QED BY <1>5, <1>6, <2>1
  <1>8. mpu6050_writeBytes(reg, <<byte>>) = front \o last
    BY <1>2, <1>3 DEF front, head, middle, last
  <1> QED BY <1>4, <1>7, <1>8

\* What a primitive does, by its place in the call.
LEMMA ReadKinds ==
  ASSUME NEW reg, NEW n \in Nat \ {0}, NEW k \in 1..n + 4
  PROVE  /\ k = 1 => ReadStep(reg, n, k).do = "start" /\ ReadStep(reg, n, k).byte = Address + I2C_WRITE
         /\ k = 2 => ReadStep(reg, n, k).do = "write" /\ ReadStep(reg, n, k).byte = reg
         /\ k = 3 => ReadStep(reg, n, k).do = "start" /\ ReadStep(reg, n, k).byte = Address + I2C_READ
         /\ k \in 4..n + 2 => ReadStep(reg, n, k).do = "readAck"
         /\ k = n + 3 => ReadStep(reg, n, k).do = "readNak"
         /\ k = n + 4 => ReadStep(reg, n, k).do = "stop"
  BY DEF ReadStep, i2c_start, i2c_write, i2c_readAck, i2c_readNak, i2c_stop

LEMMA WriteKinds ==
  ASSUME NEW reg, NEW byte, NEW k \in 1..4
  PROVE  /\ k = 1 => WriteStep(reg, byte, k).do = "start" /\ WriteStep(reg, byte, k).byte = Address + I2C_WRITE
         /\ k = 2 => WriteStep(reg, byte, k).do = "write" /\ WriteStep(reg, byte, k).byte = reg
         /\ k = 3 => WriteStep(reg, byte, k).do = "write" /\ WriteStep(reg, byte, k).byte = byte
         /\ k = 4 => WriteStep(reg, byte, k).do = "stop"
  BY DEF WriteStep, i2c_start, i2c_write, i2c_stop

LEMMA TailFacts ==
  ASSUME todo \in Seq(AnyPrimitive), todo # <<>>
  PROVE  /\ Prim \in AnyPrimitive /\ Prim = todo[1]
         /\ Len(todo) \in Nat /\ Len(todo) >= 1
         /\ Tail(todo) \in Seq(AnyPrimitive) /\ Len(Tail(todo)) = Len(todo) - 1
         /\ \A i \in 1..Len(todo) - 1 : Tail(todo)[i] = todo[i + 1]
  <1>1. \A S : \A s \in Seq(S) : s # <<>> =>
          /\ Head(s) \in S /\ Head(s) = s[1] /\ Len(s) \in Nat /\ Len(s) >= 1
          /\ Tail(s) \in Seq(S) /\ Len(Tail(s)) = Len(s) - 1
          /\ \A i \in 1..Len(s) - 1 : Tail(s)[i] = s[i + 1]
    OBVIOUS
  <1> QED BY <1>1 DEF Prim

\* The primitive being made, and the rest of the call.
LEMMA ReadPrim ==
  ASSUME NEW reg, NEW n \in Nat \ {0}, ReadShape(reg, n), todo # <<>>
  PROVE  /\ ReadMade(n) \in 0..n + 3 /\ Len(todo) = n + 4 - ReadMade(n)
         /\ Prim = ReadStep(reg, n, ReadMade(n) + 1) /\ Prim \in AnyPrimitive
         /\ Prim.do = "start" => ReadMade(n) \in {0, 2}
         /\ Prim.do = "write" => ReadMade(n) = 1 /\ Prim.byte = reg
         /\ Prim.do = "readAck" => ReadMade(n) \in 3..n + 1
         /\ Prim.do = "readNak" => ReadMade(n) = n + 2
         /\ Prim.do = "stop" => ReadMade(n) = n + 3
  <1>1. Len(todo) \in Nat /\ Len(todo) >= 1 /\ Len(todo) <= n + 4 /\ Prim = todo[1] /\ Prim \in AnyPrimitive
    BY TailFacts DEF ReadShape
  <1>2. ReadMade(n) \in 0..n + 3 /\ Len(todo) = n + 4 - ReadMade(n)
    BY <1>1 DEF ReadMade
  <1>3. Prim = ReadStep(reg, n, ReadMade(n) + 1)
    BY <1>1 DEF ReadShape
  <1> DEFINE k == ReadMade(n) + 1
  <1>4. k \in 1..n + 4
    BY <1>2
  <1>5. k = 1 \/ k = 2 \/ k = 3 \/ k \in 4..n + 2 \/ k = n + 3 \/ k = n + 4
    BY <1>4
  <1>6. /\ k = 1 => Prim.do = "start"
        /\ k = 2 => Prim.do = "write" /\ Prim.byte = reg
        /\ k = 3 => Prim.do = "start"
        /\ k \in 4..n + 2 => Prim.do = "readAck"
        /\ k = n + 3 => Prim.do = "readNak"
        /\ k = n + 4 => Prim.do = "stop"
    BY <1>3, <1>4, ReadKinds
  <1>7. /\ Prim.do = "start" => k \in {1, 3}
        /\ Prim.do = "write" => k = 2 /\ Prim.byte = reg
        /\ Prim.do = "readAck" => k \in 4..n + 2
        /\ Prim.do = "readNak" => k = n + 3
        /\ Prim.do = "stop" => k = n + 4
    BY <1>5, <1>6
  <1> QED BY <1>1, <1>2, <1>3, <1>7

LEMMA WritePrim ==
  ASSUME NEW reg, NEW byte, WriteShape(reg, byte), todo # <<>>
  PROVE  /\ WriteMade \in 0..3 /\ Len(todo) = 4 - WriteMade
         /\ Prim = WriteStep(reg, byte, WriteMade + 1) /\ Prim \in AnyPrimitive
         /\ WriteMade = 0 => Prim.do = "start" /\ Prim.byte = Address + I2C_WRITE
         /\ WriteMade = 1 => Prim.do = "write" /\ Prim.byte = reg
         /\ WriteMade = 2 => Prim.do = "write" /\ Prim.byte = byte
         /\ WriteMade = 3 => Prim.do = "stop"
  <1>1. Len(todo) \in Nat /\ Len(todo) >= 1 /\ Len(todo) <= 4 /\ Prim = todo[1] /\ Prim \in AnyPrimitive
    BY TailFacts DEF WriteShape
  <1>2. WriteMade \in 0..3 /\ Len(todo) = 4 - WriteMade
    <2>1. \A x \in Nat : x >= 1 /\ x <= 4 => 4 - x \in 0..3 /\ x = 4 - (4 - x)
      OBVIOUS
    <2> QED BY <1>1, <2>1 DEF WriteMade
  <1>3. Prim = WriteStep(reg, byte, WriteMade + 1)
    BY <1>1 DEF WriteShape
  <1>4. WriteMade + 1 \in 1..4
    BY <1>2
  <1> QED BY <1>1, <1>2, <1>3, <1>4, WriteKinds

\* The rest of a call stays the end of it while its primitives return.
LEMMA ReadShapeReturns ==
  ASSUME NEW reg, NEW n \in Nat \ {0}, ReadShape(reg, n), Typed, todo # <<>>, todo' = Tail(todo),
         data' = IF Prim.do \in {"readAck", "readNak"} THEN Append(data, TWDR) ELSE data
  PROVE  ReadShape(reg, n)' /\ ReadMade(n)' = ReadMade(n) + 1
  <1>1. /\ todo' \in Seq(AnyPrimitive) /\ Len(todo') = Len(todo) - 1 /\ Len(todo) \in Nat
        /\ \A i \in 1..Len(todo) - 1 : todo'[i] = todo[i + 1]
    BY TailFacts DEF ReadShape
  <1>2. ReadMade(n) \in 0..n + 3 /\ ReadMade(n)' = ReadMade(n) + 1 /\ Len(todo) = n + 4 - ReadMade(n)
    <2>1. ReadMade(n) \in 0..n + 3 /\ Len(todo) = n + 4 - ReadMade(n)
      BY ReadPrim
    <2>2. ReadMade(n)' = ReadMade(n) + 1
      BY <1>1 DEF ReadMade
    <2> QED BY <2>1, <2>2
  <1>3. ASSUME NEW i \in 1..Len(todo') PROVE todo'[i] = ReadStep(reg, n, ReadMade(n)' + i)
    <2>1. i + 1 \in 1..Len(todo) /\ todo'[i] = todo[i + 1]
      BY <1>1
    <2>2. todo[i + 1] = ReadStep(reg, n, ReadMade(n) + (i + 1))
      BY <2>1 DEF ReadShape
    <2>3. ReadMade(n) + (i + 1) = ReadMade(n)' + i
      BY <1>2
    <2> QED BY <2>1, <2>2, <2>3
  <1>4. /\ data' \in Seq(0..255)
        /\ Len(data') = IF ReadMade(n)' <= 3 THEN 0
                        ELSE IF ReadMade(n)' = n + 4 THEN n ELSE ReadMade(n)' - 3
    <2>0. data \in Seq(0..255) /\ Len(data) \in Nat /\ TWDR \in 0..255
      <3>1. data \in Seq(0..255)
        BY DEF ReadShape
      <3>2. Len(data) \in Nat
        BY <3>1
      <3> QED BY <3>1, <3>2 DEF Typed
    <2>1. CASE Prim.do \in {"readAck", "readNak"}
      <3>1. ReadMade(n) \in 3..n + 2
        BY <2>1, ReadPrim
      <3>2. Len(data) = ReadMade(n) - 3
        BY <3>1 DEF ReadShape
      <3>3. data' \in Seq(0..255) /\ Len(data') = Len(data) + 1
        BY <2>0, <2>1
      <3> QED BY <1>2, <3>1, <3>2, <3>3
    <2>2. CASE Prim.do \notin {"readAck", "readNak"}
      <3>1. Prim.do \in {"start", "write", "stop"}
        BY <2>2, ReadPrim DEF AnyPrimitive, Kinds
      <3>2. ReadMade(n) \in {0, 1, 2, n + 3}
        BY <3>1, ReadPrim
      <3>3. data' = data
        BY <2>2
      <3> QED BY <1>2, <2>0, <3>2, <3>3 DEF ReadShape
    <2> QED BY <2>1, <2>2
  <1> QED BY <1>1, <1>2, <1>3, <1>4 DEF ReadShape

LEMMA WriteShapeReturns ==
  ASSUME NEW reg, NEW byte, WriteShape(reg, byte), todo # <<>>, todo' = Tail(todo), data' = data
  PROVE  WriteShape(reg, byte)' /\ WriteMade' = WriteMade + 1
  <1>1. /\ todo' \in Seq(AnyPrimitive) /\ Len(todo') = Len(todo) - 1 /\ Len(todo) \in Nat
        /\ \A i \in 1..Len(todo) - 1 : todo'[i] = todo[i + 1]
    BY TailFacts DEF WriteShape
  <1>2. WriteMade \in 0..3 /\ WriteMade' = WriteMade + 1 /\ Len(todo) = 4 - WriteMade
    BY <1>1, WritePrim DEF WriteMade
  <1>3. ASSUME NEW i \in 1..Len(todo') PROVE todo'[i] = WriteStep(reg, byte, WriteMade' + i)
    <2>1. i + 1 \in 1..Len(todo) /\ todo'[i] = todo[i + 1]
      BY <1>1
    <2>2. todo[i + 1] = WriteStep(reg, byte, WriteMade + (i + 1))
      BY <2>1 DEF WriteShape
    <2>3. WriteMade + (i + 1) = WriteMade' + i
      BY <1>2
    <2> QED BY <2>1, <2>2, <2>3
  <1> QED BY <1>1, <1>2, <1>3 DEF WriteShape

-----------------------------------------------------------------------------
(* The call keeps its shape, and everything its type. *)

LEMMA MasterMoves ==
  ASSUME Typed, Master
  PROVE  \/ todo' = todo /\ data' = data /\ at' # "issue" /\ todo # <<>>
         \/ /\ todo # <<>> /\ todo' = Tail(todo) /\ at' = "issue"
            /\ data' = IF Prim.do \in {"readAck", "readNak"} THEN Append(data, TWDR) ELSE data
  <1>1. CASE Issue
    <2>1. at' # "issue"
      <3>1. CASE Prim.do = "start"
        BY <1>1, <3>1 DEF Issue, Wait
      <3>2. CASE Prim.do = "write"
        BY <1>1, <3>2 DEF Issue, Wait
      <3>3. CASE Prim.do = "readAck"
        BY <1>1, <3>3 DEF Issue, Wait
      <3>4. CASE Prim.do = "readNak"
        BY <1>1, <3>4 DEF Issue, Wait
      <3>5. CASE Prim.do \notin {"start", "write", "readAck", "readNak"}
        BY <1>1, <3>5 DEF Issue, Wait
      <3> QED BY <3>1, <3>2, <3>3, <3>4, <3>5
    <2> QED BY <1>1, <2>1 DEF Issue
  <1>2. CASE Poll
    BY <1>2 DEF Poll, Typed
  <1>3. CASE Started
    <2>1. Prim.do = "start" /\ todo # <<>> /\ data' = data
      BY <1>3 DEF Started, Typed
    <2>2. (todo' = todo /\ at' = "addressing") \/ (todo' = Tail(todo) /\ at' = "issue")
      BY <1>3 DEF Started, Return, Wait
    <2> QED BY <2>1, <2>2
  <1>4. CASE Addressed
    BY <1>4 DEF Addressed, Return, Typed
  <1>5. CASE Transferred
    <2>1. Prim.do \in {"write", "readAck", "readNak"} /\ todo # <<>>
      BY <1>5 DEF Transferred, Typed
    <2> QED BY <1>5, <2>1 DEF Transferred, Return
  <1>6. CASE Stopped
    BY <1>6 DEF Stopped, Return, Typed
  <1> QED BY <1>1, <1>2, <1>3, <1>4, <1>5, <1>6 DEF Master

LEMMA ReadShapeMaster ==
  ASSUME NEW reg, NEW n \in Nat \ {0}, ReadShape(reg, n), Typed, Master
  PROVE  ReadShape(reg, n)'
  <1>1. CASE todo' = todo /\ data' = data
    BY <1>1 DEF ReadShape, ReadMade
  <1>2. CASE /\ todo # <<>> /\ todo' = Tail(todo)
             /\ data' = IF Prim.do \in {"readAck", "readNak"} THEN Append(data, TWDR) ELSE data
    BY <1>2, ReadShapeReturns
  <1> QED BY <1>1, <1>2, MasterMoves

LEMMA WriteShapeMaster ==
  ASSUME NEW reg, NEW byte, WriteShape(reg, byte), Typed, Master
  PROVE  WriteShape(reg, byte)'
  <1>1. CASE todo' = todo /\ data' = data
    BY <1>1 DEF WriteShape, WriteMade
  <1>2. CASE /\ todo # <<>> /\ todo' = Tail(todo)
             /\ data' = IF Prim.do \in {"readAck", "readNak"} THEN Append(data, TWDR) ELSE data
    <2>1. WriteMade = 0 \/ WriteMade = 1 \/ WriteMade = 2 \/ WriteMade = 3
      BY <1>2, WritePrim
    <2>2. Prim.do \notin {"readAck", "readNak"}
      BY <1>2, <2>1, WritePrim
    <2> QED BY <1>2, <2>2, WriteShapeReturns
  <1> QED BY <1>1, <1>2, MasterMoves

LEMMA TypedMaster ==
  ASSUME Typed, todo \in Seq(AnyPrimitive), Master, UNCHANGED <<driver, measured>>
  PROVE  Typed'
  <1>0. Timeout \in Nat /\ Timeout > 0
    BY BusAssumption DEF BusAssumption
  <1>a. UNCHANGED <<regs, before, measured>>
    BY DEF Master, Issue, Poll, Started, Addressed, Transferred, Stopped, sensor, driver
  <1>1. CASE Issue
    <2>1. todo' = todo /\ todo # <<>> /\ Prim' = Prim /\ Prim \in AnyPrimitive
      BY <1>1, TailFacts DEF Issue, Prim
    <2>2. Prim.byte \in 0..255 /\ Prim.do \in Kinds
      BY <2>1 DEF AnyPrimitive
    <2>3. TWDR' \in {TWDR, Prim.byte} /\ ~TWINT'
      BY <1>1 DEF Issue, TWCR, Load
    <2>4. timeout' = Timeout
      BY <1>1 DEF Issue, Wait
    <2>5. /\ at' \in Places
          /\ at' \in {"starting", "addressing"} => Prim.do = "start"
          /\ at' = "sync" => Prim.do \in {"write", "readAck", "readNak"}
          /\ at' = "stopping" => Prim.do = "stop"
      <3>1. CASE Prim.do = "start"
        BY <1>1, <3>1 DEF Issue, Wait, Places
      <3>2. CASE Prim.do \in {"write", "readAck", "readNak"}
        BY <1>1, <3>2 DEF Issue, Wait, Places
      <3>3. CASE Prim.do = "stop"
        BY <1>1, <3>3 DEF Issue, Wait, Places
      <3> QED BY <2>2, <3>1, <3>2, <3>3 DEF Kinds
    <2>6. TWDR' \in 0..255
      BY <2>2, <2>3 DEF Typed
    <2>7. timeout' \in 0..Timeout
      BY <1>0, <2>4
    <2> QED BY <1>a, <2>1, <2>3, <2>5, <2>6, <2>7 DEF Typed
  <1>2. CASE Poll
    <2>1. timeout' \in 0..Timeout
      <3>1. timeout' = timeout - 1 /\ timeout > 0 /\ timeout \in Nat /\ timeout <= Timeout
        <4>1. timeout \in 0..Timeout
          BY DEF Typed
        <4>2. timeout' = timeout - 1 /\ timeout > 0
          BY <1>2 DEF Poll
        <4> QED BY <1>0, <4>1, <4>2
      <3> QED BY <1>0, <3>1
    <2> QED BY <1>2, <1>a, <2>1 DEF Poll, Typed, twi, Prim
  <1>3. CASE Started
    <2>0. todo # <<>> /\ at = "starting" /\ Prim.do = "start"
      BY <1>3 DEF Started, Typed
    <2>1. Prim.byte \in 0..255
      BY <2>0, TailFacts DEF AnyPrimitive
    <2>2. CASE StartReturns = 2
      <3>1. todo' = todo /\ at' = "addressing" /\ timeout' = Timeout /\ ~TWINT' /\ TWDR' \in {TWDR, Prim.byte}
        BY <1>3, <2>2 DEF Started, TWCR, Load, Wait
      <3>2. Prim' = Prim
        BY <3>1 DEF Prim
      <3>3. TWDR' \in 0..255
        BY <2>1, <3>1 DEF Typed
      <3>4. timeout' \in 0..Timeout
        BY <1>0, <3>1
      <3> QED BY <1>a, <2>0, <3>1, <3>2, <3>3, <3>4 DEF Typed, Places
    <2>3. CASE StartReturns # 2
      <3>1. at' = "issue" /\ UNCHANGED <<timeout, TWINT, flight, TWDR>>
        BY <1>3, <2>3 DEF Started, Return
      <3> QED BY <1>a, <3>1 DEF Typed, Places
    <2> QED BY <2>2, <2>3
  <1>4. CASE Addressed \/ Transferred \/ Stopped
    <2>1. at' = "issue" /\ UNCHANGED <<timeout, TWINT, flight, TWDR>>
      BY <1>4 DEF Addressed, Transferred, Stopped, Return, twi
    <2> QED BY <1>a, <2>1 DEF Typed, Places
  <1> QED BY <1>1, <1>2, <1>3, <1>4 DEF Master

LEMMA BusKeepsCall ==
  ASSUME Carry(Contents(pointer)) \/ Refuse(Weight) \/ Die(Weight) \/ Revive
  PROVE  UNCHANGED <<todo, at, timeout, data>>
  BY DEF Carry, StartSent, StopSent, AddressSent, ByteSent, ByteReceived, NobodyAnswers, Refuse, Die,
         Revive, master

LEMMA TypedBus ==
  ASSUME Typed, UNCHANGED <<driver, measured>>,
         Carry(Contents(pointer)) \/ Refuse(Weight) \/ Die(Weight) \/ Revive
  PROVE  Typed'
  <1>1. /\ UNCHANGED <<todo, at, timeout, before, measured>> /\ Prim' = Prim
    BY BusKeepsCall DEF driver, Prim
  <1>2. TWDR' \in 0..255
    <2>1. CASE ByteReceived(Contents(pointer))
      <3>1. Contents(pointer) \in 0..255
        BY ContentsByte
      <3> QED BY <2>1, <3>1 DEF ByteReceived
    <2>2. CASE NobodyAnswers
      <3>1. TWDR' \in {TWDR, 255} /\ TWDR \in 0..255
        BY <2>2 DEF NobodyAnswers, Typed
      <3> QED BY <3>1
    <2>3. CASE ~ByteReceived(Contents(pointer)) /\ ~NobodyAnswers
      <3>1. TWDR' = TWDR
        BY <2>3 DEF Carry, StartSent, StopSent, AddressSent, ByteSent, Refuse, Die, Revive, twi
      <3> QED BY <3>1 DEF Typed
    <2> QED BY <2>1, <2>2, <2>3
  <1>3. regs' \in [Configuration -> 0..255]
    <2>0. regs \in [Configuration -> 0..255] /\ TWDR \in 0..255
      BY DEF Typed
    <2>1. CASE ByteSent
      BY <2>0, <2>1 DEF ByteSent
    <2>2. CASE ~ByteSent
      <3>1. regs' = regs
        BY <2>2 DEF Carry, StartSent, StopSent, AddressSent, ByteReceived, NobodyAnswers, Refuse, Die,
                    Revive, sensor
      <3> QED BY <2>0, <3>1
    <2> QED BY <2>1, <2>2
  <1>4. flight' # "none" => ~TWINT'
    <2>1. (flight' = "none") \/ (flight' = flight /\ TWINT' = TWINT)
      <3>1. CASE AddressSent
        <4>1. flight' = "none"
          <5>1. CASE TWDR = Address + I2C_WRITE
            BY <3>1, <5>1 DEF AddressSent, Done
          <5>2. CASE TWDR # Address + I2C_WRITE /\ TWDR = Address + I2C_READ
            BY <3>1, <5>2 DEF AddressSent, Done
          <5>3. CASE TWDR # Address + I2C_WRITE /\ TWDR # Address + I2C_READ
            BY <3>1, <5>3 DEF AddressSent, Done
          <5> QED BY <5>1, <5>2, <5>3
        <4> QED BY <4>1
      <3>2. CASE ~AddressSent
        BY <3>2 DEF Carry, StartSent, StopSent, ByteSent, ByteReceived, NobodyAnswers, Refuse, Die,
                    Revive, Done, twi
      <3> QED BY <3>1, <3>2
    <2> QED BY <2>1 DEF Typed
  <1> QED BY <1>1, <1>2, <1>3, <1>4 DEF Typed

-----------------------------------------------------------------------------
(* A reading on a calm bus goes as it should. *)

LEMMA ContentsKept ==
  ASSUME regs' = regs, measured' = measured
  PROVE  \A r : Contents(r)' = Contents(r)
  BY DEF Contents

\* A wait of a calm call is over when the bus has carried what it was given, and not before.
LEMMA CalmReadWaits ==
  ASSUME NEW reg, NEW n \in Nat \ {0}, ReadCalm(reg, n), Typed
  PROVE  /\ ~Poll
         /\ WaitEnds => flight = "none" /\ (at # "stopping" => TWINT) /\ Synced
  <1>0. Timeout > 0 /\ Timeout # 0
    BY BusAssumption DEF BusAssumption
  <1>1. alive /\ (at # "issue" => timeout = Timeout)
    BY DEF ReadCalm
  <1>2. at \in {"starting", "addressing", "sync"} => (flight = "none" => TWINT)
    BY DEF ReadCalm, Starting, Calling
  <1>3. WaitEnds => at # "issue" /\ Over
    BY <1>0, <1>1 DEF WaitEnds
  <1>4. at \in Places /\ (flight # "none" => ~TWINT)
    BY DEF Typed
  <1> QED BY <1>0, <1>1, <1>2, <1>3, <1>4 DEF Poll, Over, Places, Synced, WaitEnds

LEMMA ReadCalmMaster ==
  ASSUME NEW reg \in 0..255, NEW n \in Nat \ {0}, ReadShape(reg, n), Typed, ReadCalm(reg, n),
         Master, UNCHANGED <<driver, measured>>
  PROVE  ReadCalm(reg, n)'
  <1>k. PICK k : k = ReadMade(n)
    OBVIOUS
  <1>0. /\ UNCHANGED <<phase, pointer, regs, alive, before, measured>> /\ alive
        /\ before.regs' = before.regs
    BY DEF Master, Issue, Poll, Started, Addressed, Transferred, Stopped, sensor, wires, driver, ReadCalm
  <1>a. \A r : Contents(r)' = Contents(r)
    BY <1>0, ContentsKept
  <1>b. ASSUME data' = data PROVE \A i \in 1..Len(data') : data'[i] = Contents(reg + i - 1)'
    BY <1>a, <1>b DEF ReadCalm
  <1>1. CASE Issue
    <2>1. /\ todo' = todo /\ data' = data /\ todo # <<>> /\ Prim' = Prim /\ ReadMade(n)' = k
          /\ flight = "none" /\ ReadAfter(reg, n, k)
      BY <1>k, <1>1 DEF Issue, Prim, ReadMade, ReadCalm
    <2>2. k \in 0..n + 3 /\ Prim.do \in Kinds
      BY <1>k, <2>1, ReadPrim DEF AnyPrimitive
    <2>3. timeout' = Timeout
      BY <1>1 DEF Issue, Wait
    <2>4. CASE Prim.do = "start"
      <3>1. at' = "starting" /\ flight' = "start"
        BY <1>1, <2>1, <2>4 DEF Issue, TWCR, Accepted, Wait
      <3>2. regs' = before.regs' /\ (k = 2 => pointer' = reg)
        BY <1>0, <2>1 DEF ReadAfter
      <3> QED BY <1>0, <1>b, <2>1, <2>3, <3>1, <3>2 DEF ReadCalm, Starting
    <2>5. CASE Prim.do = "write"
      <3>1. k = 1 /\ Prim.byte = reg
        BY <1>k, <2>1, <2>5, ReadPrim
      <3>2. phase = "pointer"
        BY <2>1, <3>1 DEF ReadAfter
      <3>3. at' = "sync" /\ flight' = "go" /\ TWDR' = reg
        BY <1>1, <2>1, <2>5, <3>1, <3>2 DEF Issue, TWCR, Accepted, Wait, Load
      <3>4. ReadAfter(reg, n, k)'
        BY <1>0, <2>1, <3>1 DEF ReadAfter
      <3> QED BY <1>0, <1>b, <2>1, <2>3, <2>5, <3>1, <3>3, <3>4 DEF ReadCalm, ReadAfter
    <2>6. CASE Prim.do \in {"readAck", "readNak"}
      <3>1. k \in 3..n + 2
        BY <1>k, <2>1, <2>6, ReadPrim
      <3>2. phase = "read"
        BY <2>1, <3>1 DEF ReadAfter
      <3>3. at' = "sync" /\ flight' = IF Prim.do = "readAck" THEN "goAck" ELSE "go"
        <4>1. CASE Prim.do = "readAck"
          BY <1>1, <2>1, <4>1, <3>2 DEF Issue, TWCR, Accepted, Wait
        <4>2. CASE Prim.do = "readNak"
          BY <1>1, <2>1, <4>2, <3>2 DEF Issue, TWCR, Accepted, Wait
        <4> QED BY <2>6, <4>1, <4>2
      <3>4. k # 1
        BY <3>1
      <3> QED BY <1>0, <1>b, <2>1, <2>3, <3>3, <3>4 DEF ReadCalm, ReadAfter
    <2>7. CASE Prim.do = "stop"
      <3>1. at' = "stopping" /\ flight' = "stop"
        BY <1>1, <2>1, <2>7 DEF Issue, TWCR, Accepted, Wait
      <3> QED BY <1>0, <1>b, <2>1, <2>3, <3>1 DEF ReadCalm, ReadAfter
    <2> QED BY <2>2, <2>4, <2>5, <2>6, <2>7 DEF Kinds
  <1>2. CASE Poll
    BY <1>2, CalmReadWaits
  <1>3. CASE Started
    <2>1. flight = "none" /\ TWINT /\ Synced /\ at = "starting" /\ Starting
      BY <1>3, CalmReadWaits DEF Started, ReadCalm
    <2>2. TWSR \in {"START", "REP_START"} /\ phase = "begun"
      BY <2>1 DEF Starting
    <2>3. StartReturns = 2
      BY <2>1, <2>2 DEF StartReturns
    <2>4. /\ flight' = "go" /\ TWDR' = Prim.byte /\ at' = "addressing" /\ timeout' = Timeout
          /\ todo' = todo /\ data' = data
      BY <1>3, <2>1, <2>2, <2>3 DEF Started, TWCR, Accepted, Load, Wait
    <2>5. Prim' = Prim /\ ReadMade(n)' = ReadMade(n)
      BY <1>k, <2>4 DEF Prim, ReadMade
    <2>6. regs = before.regs /\ (k = 2 => pointer = reg)
      BY <1>k, <2>1 DEF ReadCalm
    <2> QED BY <1>k, <1>0, <1>b, <2>2, <2>4, <2>5, <2>6 DEF ReadCalm, Calling
  <1>4. CASE Addressed \/ Transferred \/ Stopped
    <2>1. /\ todo # <<>> /\ todo' = Tail(todo) /\ at' = "issue" /\ flight' = flight /\ flight = "none"
          /\ data' = IF Prim.do \in {"readAck", "readNak"} THEN Append(data, TWDR) ELSE data
      <3>1. todo # <<>> /\ flight = "none" /\ flight' = flight /\ todo' = Tail(todo) /\ at' = "issue"
        BY <1>4, CalmReadWaits DEF Addressed, Transferred, Stopped, Typed, twi, Return
      <3> QED BY <3>1, MasterMoves
    <2>2. ReadMade(n)' = k + 1 /\ k \in 0..n + 3
      BY <1>k, <2>1, ReadShapeReturns, ReadPrim
    <2>3. ReadAfter(reg, n, k + 1)
      <3>1. CASE Addressed \/ Transferred
        BY <1>k, <2>1, <3>1 DEF Addressed, Transferred, ReadCalm, Calling
      <3>2. CASE Stopped
        <4>1. at = "stopping" /\ Prim.do = "stop"
          BY <3>2 DEF Stopped, Typed
        <4>2. k = n + 3
          BY <1>k, <2>1, <4>1, ReadPrim
        <4>3. regs = before.regs
          BY <4>1 DEF ReadCalm
        <4> QED BY <4>2, <4>3 DEF ReadAfter
      <3> QED BY <1>4, <3>1, <3>2
    <2>4. \A i \in 1..Len(data') : data'[i] = Contents(reg + i - 1)'
      <3>1. CASE Prim.do \in {"readAck", "readNak"}
        <4>1. k \in 3..n + 2
          BY <1>k, <2>1, <3>1, ReadPrim
        <4>2. at = "sync"
          BY <1>4, <3>1 DEF Addressed, Transferred, Stopped, Typed
        <4>3. TWDR = Contents(reg + k - 3)
          BY <1>k, <2>1, <4>1, <4>2 DEF ReadCalm
        <4>4. Len(data) = k - 3 /\ data \in Seq(0..255) /\ Len(data) \in Nat
          <5>1. data \in Seq(0..255) /\ Len(data) = k - 3
            BY <1>k, <4>1 DEF ReadShape
          <5> QED BY <5>1
        <4>5. /\ Len(data') = Len(data) + 1 /\ data'[Len(data) + 1] = TWDR
              /\ \A i \in 1..Len(data) : data'[i] = data[i]
          BY <2>1, <3>1, <4>4
        <4>6. TAKE i \in 1..Len(data')
        <4>7. CASE i = Len(data) + 1
          <5>1. reg + i - 1 = reg + k - 3
            BY <4>1, <4>4, <4>7
          <5> QED BY <1>a, <4>3, <4>5, <4>7, <5>1
        <4>8. CASE i # Len(data) + 1
          <5>1. i \in 1..Len(data)
            BY <4>4, <4>5, <4>8
          <5>2. data[i] = Contents(reg + i - 1)
            BY <5>1 DEF ReadCalm
          <5> QED BY <1>a, <4>5, <5>1, <5>2
        <4> QED BY <4>7, <4>8
      <3>2. CASE Prim.do \notin {"readAck", "readNak"}
        BY <1>b, <2>1, <3>2
      <3> QED BY <3>1, <3>2
    <2>5. ReadAfter(reg, n, ReadMade(n))'
      BY <1>0, <2>2, <2>3 DEF ReadAfter
    <2> QED BY <1>0, <2>1, <2>4, <2>5 DEF ReadCalm
  <1> QED BY <1>1, <1>2, <1>3, <1>4 DEF Master

LEMMA ReadCalmBus ==
  ASSUME NEW reg \in 0..255, NEW n \in Nat \ {0}, ReadShape(reg, n), Typed, ReadCalm(reg, n),
         Carry(Contents(pointer)), UNCHANGED <<driver, measured>>
  PROVE  ReadCalm(reg, n)'
  <1>k. PICK k : k = ReadMade(n)
    OBVIOUS
  <1>0. /\ UNCHANGED <<todo, at, timeout, data, before, measured, alive>> /\ alive /\ Prim' = Prim
        /\ before.regs' = before.regs /\ ReadMade(n)' = k
    BY <1>k, BusKeepsCall DEF driver, Prim, ReadCalm, Carry, StartSent, StopSent, AddressSent, ByteSent,
       ByteReceived, NobodyAnswers, wires, ReadMade
  <1>1. flight # "none" => at # "issue" /\ todo # <<>>
    BY DEF ReadCalm, Typed
  <1>2. flight # "none" => k \in 0..n + 3
    BY <1>k, <1>1, ReadPrim
  <1>3. at = "sync" /\ flight # "none" =>
          /\ flight \in {"go", "goAck"} /\ ReadAfter(reg, n, k) /\ (k = 1 => TWDR = reg)
          /\ flight = "goAck" => k \in 3..n + 1
          /\ flight = "go" => k = 1 \/ k = n + 2
    <2> SUFFICES ASSUME at = "sync", flight # "none"
                 PROVE  /\ flight \in {"go", "goAck"} /\ ReadAfter(reg, n, k) /\ (k = 1 => TWDR = reg)
                        /\ flight = "goAck" => k \in 3..n + 1
                        /\ flight = "go" => k = 1 \/ k = n + 2
      OBVIOUS
    <2>1. /\ flight = (IF Prim.do = "readAck" THEN "goAck" ELSE "go")
          /\ ReadAfter(reg, n, k) /\ (k = 1 => TWDR = reg)
      BY <1>k DEF ReadCalm
    <2>2. Prim.do \in {"write", "readAck", "readNak"}
      BY DEF Typed
    <2> QED BY <1>k, <1>1, <2>1, <2>2, ReadPrim
  <1>4. regs' = regs /\ regs = before.regs
    <2>1. regs = before.regs
      <3>1. CASE at = "issue"
        BY <3>1 DEF ReadCalm, ReadAfter
      <3>2. CASE at = "starting"
        BY <3>2 DEF ReadCalm
      <3>3. CASE at = "addressing"
        BY <3>3 DEF ReadCalm, ReadAfter
      <3>4. CASE at = "sync"
        BY <3>4 DEF ReadCalm, ReadAfter
      <3>5. CASE at = "stopping"
        BY <3>5 DEF ReadCalm
      <3> QED BY <3>1, <3>2, <3>3, <3>4, <3>5 DEF Typed, Places
    <2>2. CASE ByteSent
      <3>1. flight \in {"go", "goAck"} /\ phase \in {"pointer", "write"}
        BY <2>2 DEF ByteSent
      <3>2. at = "sync"
        BY <3>1 DEF ReadCalm, Starting, Calling, Typed, Places
      <3>3. k = 1 \/ k \in 3..n + 2
        BY <1>2, <1>3, <3>1, <3>2
      <3>4. phase = "pointer"
        BY <1>3, <3>1, <3>2, <3>3 DEF ReadAfter
      <3> QED BY <2>1, <2>2, <3>4 DEF ByteSent
    <2>3. CASE ~ByteSent
      BY <2>1, <2>3 DEF Carry, StartSent, StopSent, AddressSent, ByteReceived, NobodyAnswers, sensor
    <2> QED BY <2>2, <2>3
  <1>5. \A i \in 1..Len(data') : data'[i] = Contents(reg + i - 1)'
    BY <1>0, <1>4, ContentsKept DEF ReadCalm
  <1>6. CASE StartSent
    <2>1. at = "starting" /\ (k = 2 => pointer = reg)
      BY <1>k, <1>6 DEF StartSent, ReadCalm, Calling, Typed, Places
    <2>2. Starting' /\ pointer' = pointer
      BY <1>6 DEF StartSent, Starting, Done
    <2> QED BY <1>0, <1>4, <1>5, <2>1, <2>2 DEF ReadCalm
  <1>7. CASE StopSent
    <2>1. at = "stopping"
      BY <1>7 DEF StopSent, ReadCalm, Starting, Calling, Typed, Places
    <2>2. flight' = "none"
      BY <1>7 DEF StopSent
    <2> QED BY <1>0, <1>4, <1>5, <2>1, <2>2 DEF ReadCalm
  <1>8. CASE AddressSent
    <2>1. flight \in {"go", "goAck"} /\ phase = "begun"
      BY <1>8 DEF AddressSent
    <2>2. at # "sync"
      <3>1. CASE at = "sync"
        <4>1. k = 1 \/ k \in 3..n + 2
          BY <1>2, <1>3, <2>1, <3>1
        <4>2. phase \in {"pointer", "read"}
          BY <1>3, <2>1, <3>1, <4>1 DEF ReadAfter
        <4> QED BY <2>1, <4>2
      <3> QED BY <3>1
    <2>3. at = "addressing" /\ TWDR = Prim.byte /\ (k = 2 => pointer = reg) /\ Prim.do = "start"
      BY <1>k, <2>1, <2>2 DEF ReadCalm, Starting, Calling, Typed, Places
    <2>4. k \in {0, 2} /\ Prim = ReadStep(reg, n, k + 1)
      BY <1>k, <1>1, <2>1, <2>3, ReadPrim
    <2>5. pointer' = pointer
      BY <1>8 DEF AddressSent
    <2>6. CASE k = 0
      <3>1. TWDR = Address + I2C_WRITE
        BY <2>3, <2>4, <2>6, ReadKinds
      <3>2. flight' = "none" /\ TWINT' /\ phase' = "pointer"
        BY <1>8, <3>1, AddressIsHigh DEF AddressSent, Done, I2C_READ, I2C_WRITE
      <3>3. ReadAfter(reg, n, k + 1)'
        BY <1>0, <1>4, <2>6, <3>2 DEF ReadAfter
      <3> QED BY <1>0, <1>4, <1>5, <2>3, <3>2, <3>3 DEF ReadCalm, ReadAfter
    <2>7. CASE k = 2
      <3>1. TWDR = Address + I2C_READ
        BY <2>3, <2>4, <2>7, ReadKinds
      <3>2. TWDR # Address + I2C_WRITE
        BY <3>1, AddressIsHigh DEF I2C_READ, I2C_WRITE
      <3>3. flight' = "none" /\ TWINT' /\ phase' = "read"
        BY <1>8, <3>1, <3>2 DEF AddressSent, Done
      <3>4. ReadAfter(reg, n, k + 1)'
        BY <1>0, <1>4, <2>3, <2>5, <2>7, <3>3 DEF ReadAfter
      <3> QED BY <1>0, <1>4, <1>5, <2>3, <3>3, <3>4 DEF ReadCalm, ReadAfter
    <2> QED BY <2>4, <2>6, <2>7
  <1>9. CASE ByteSent \/ ByteReceived(Contents(pointer)) \/ NobodyAnswers
    <2>1. flight \in {"go", "goAck"} /\ phase \in {"pointer", "write", "read", "nobody"}
      BY <1>9 DEF ByteSent, ByteReceived, NobodyAnswers
    <2>2. at = "sync"
      BY <2>1 DEF ReadCalm, Starting, Calling, Typed, Places
    <2>3. flight' = "none" /\ TWINT'
      BY <1>9 DEF ByteSent, ByteReceived, NobodyAnswers, Done
    <2>4. CASE k = 1
      <3>1. phase = "pointer" /\ TWDR = reg
        BY <1>3, <2>1, <2>2, <2>4 DEF ReadAfter
      <3>2. phase' = "write" /\ pointer' = reg
        BY <1>9, <3>1 DEF ByteSent, ByteReceived, NobodyAnswers
      <3>3. ReadAfter(reg, n, k + 1)'
        BY <1>0, <1>4, <2>4, <3>2 DEF ReadAfter
      <3> QED BY <1>0, <1>4, <1>5, <2>2, <2>3, <2>4, <3>3 DEF ReadCalm, ReadAfter
    <2>5. CASE k \in 3..n + 2
      <3>1. phase = "read" /\ pointer = reg + k - 3
        BY <1>3, <2>1, <2>2, <2>5 DEF ReadAfter
      <3>2. /\ TWDR' = Contents(reg + k - 3) /\ pointer' = pointer + 1
            /\ phase' = IF flight = "goAck" THEN "read" ELSE "nobody"
        BY <1>9, <3>1 DEF ByteSent, ByteReceived, NobodyAnswers
      <3>3. TWDR' = Contents(reg + k - 3)'
        BY <1>0, <1>4, <3>2, ContentsKept
      <3>4. CASE flight = "goAck"
        <4>1. k + 1 \in 4..n + 2 /\ pointer' = reg + (k + 1) - 3
          BY <1>3, <2>2, <2>5, <3>1, <3>2, <3>4
        <4>2. ReadAfter(reg, n, k + 1)'
          BY <1>0, <1>4, <3>2, <3>4, <4>1 DEF ReadAfter
        <4> QED BY <1>0, <1>4, <1>5, <2>2, <2>3, <2>5, <3>3, <4>2 DEF ReadCalm, ReadAfter
      <3>5. CASE flight = "go"
        <4>1. k + 1 = n + 3
          BY <1>3, <2>2, <2>5, <3>5
        <4>2. ReadAfter(reg, n, k + 1)'
          BY <1>0, <1>4, <3>2, <3>5, <4>1 DEF ReadAfter
        <4> QED BY <1>0, <1>4, <1>5, <2>2, <2>3, <2>5, <3>3, <4>2 DEF ReadCalm, ReadAfter
      <3> QED BY <2>1, <3>4, <3>5
    <2>6. k = 1 \/ k \in 3..n + 2
      BY <1>2, <1>3, <2>1, <2>2
    <2> QED BY <2>4, <2>5, <2>6
  <1> QED BY <1>6, <1>7, <1>8, <1>9 DEF Carry

-----------------------------------------------------------------------------
(* So does a writing. *)

LEMMA CalmWriteWaits ==
  ASSUME NEW reg, NEW byte, WriteCalm(reg, byte), Typed
  PROVE  /\ ~Poll
         /\ WaitEnds => flight = "none" /\ (at # "stopping" => TWINT) /\ Synced
  <1>0. Timeout > 0 /\ Timeout # 0
    BY BusAssumption DEF BusAssumption
  <1>1. alive /\ (at # "issue" => timeout = Timeout)
    BY DEF WriteCalm
  <1>2. at \in {"starting", "addressing", "sync"} => (flight = "none" => TWINT)
    BY DEF WriteCalm, Starting, Calling
  <1>3. WaitEnds => at # "issue" /\ Over
    BY <1>0, <1>1 DEF WaitEnds
  <1>4. at \in Places /\ (flight # "none" => ~TWINT)
    BY DEF Typed
  <1> QED BY <1>0, <1>1, <1>2, <1>3, <1>4 DEF Poll, Over, Places, Synced, WaitEnds

LEMMA WriteCalmMaster ==
  ASSUME NEW reg, NEW byte, WriteShape(reg, byte), Typed, WriteCalm(reg, byte),
         Master, UNCHANGED <<driver, measured>>
  PROVE  WriteCalm(reg, byte)'
  <1>k. PICK k : k = WriteMade
    OBVIOUS
  <1>0. /\ UNCHANGED <<phase, pointer, regs, alive, before, measured>> /\ alive
        /\ before.regs' = before.regs
    BY DEF Master, Issue, Poll, Started, Addressed, Transferred, Stopped, sensor, wires, driver, WriteCalm
  <1>p. todo # <<>> =>
          /\ k \in 0..3 /\ (k = 0 \/ k = 1 \/ k = 2 \/ k = 3)
          /\ k = 0 => Prim.do = "start" /\ Prim.byte = Address + I2C_WRITE
          /\ k = 1 => Prim.do = "write" /\ Prim.byte = reg
          /\ k = 2 => Prim.do = "write" /\ Prim.byte = byte
          /\ k = 3 => Prim.do = "stop"
    BY <1>k, WritePrim
  <1>1. CASE Issue
    <2>1. /\ todo' = todo /\ todo # <<>> /\ Prim' = Prim /\ WriteMade' = k
          /\ flight = "none" /\ WriteAfter(reg, byte, k)
      BY <1>k, <1>1 DEF Issue, Prim, WriteMade, WriteCalm
    <2>3. timeout' = Timeout
      BY <1>1 DEF Issue, Wait
    <2>4. CASE k = 0
      <3>1. at' = "starting" /\ flight' = "start"
        BY <1>1, <1>p, <2>1, <2>4 DEF Issue, TWCR, Accepted, Wait
      <3>2. regs' = before.regs'
        BY <1>0, <2>1, <2>4 DEF WriteAfter
      <3> QED BY <1>0, <2>1, <2>3, <3>1, <3>2 DEF WriteCalm, Starting
    <2>5. CASE k = 1 \/ k = 2
      <3>1. phase # "idle"
        BY <2>1, <2>5 DEF WriteAfter
      <3>2. at' = "sync" /\ flight' = "go" /\ TWDR' = Prim'.byte
        BY <1>1, <1>p, <2>1, <2>5, <3>1 DEF Issue, TWCR, Accepted, Wait, Load
      <3>3. WriteAfter(reg, byte, k)'
        BY <1>0, <2>1 DEF WriteAfter
      <3> QED BY <1>0, <2>1, <2>3, <3>2, <3>3 DEF WriteCalm
    <2>6. CASE k = 3
      <3>1. at' = "stopping" /\ flight' = "stop"
        BY <1>1, <1>p, <2>1, <2>6 DEF Issue, TWCR, Accepted, Wait
      <3>2. regs' = [before.regs' EXCEPT ![reg] = byte]
        BY <1>0, <2>1, <2>6 DEF WriteAfter
      <3> QED BY <1>0, <2>1, <2>3, <3>1, <3>2 DEF WriteCalm
    <2> QED BY <1>p, <2>1, <2>4, <2>5, <2>6
  <1>2. CASE Poll
    BY <1>2, CalmWriteWaits
  <1>3. CASE Started
    <2>1. flight = "none" /\ TWINT /\ Synced /\ at = "starting" /\ Starting
      BY <1>3, CalmWriteWaits DEF Started, WriteCalm
    <2>2. TWSR \in {"START", "REP_START"} /\ phase = "begun"
      BY <2>1 DEF Starting
    <2>3. StartReturns = 2
      BY <2>1, <2>2 DEF StartReturns
    <2>4. /\ flight' = "go" /\ TWDR' = Prim.byte /\ at' = "addressing" /\ timeout' = Timeout
          /\ todo' = todo
      BY <1>3, <2>1, <2>2, <2>3 DEF Started, TWCR, Accepted, Load, Wait
    <2>5. Prim' = Prim
      BY <2>4 DEF Prim
    <2>6. regs = before.regs
      BY <2>1 DEF WriteCalm
    <2> QED BY <1>0, <2>2, <2>4, <2>5, <2>6 DEF WriteCalm, Calling
  <1>4. CASE Addressed \/ Transferred \/ Stopped
    <2>1. todo # <<>> /\ todo' = Tail(todo) /\ at' = "issue" /\ flight' = flight /\ flight = "none"
      BY <1>4, CalmWriteWaits DEF Addressed, Transferred, Stopped, Typed, twi, Return
    <2>2. data' = data
      <3>1. Prim.do \notin {"readAck", "readNak"}
        BY <1>p, <2>1
      <3> QED BY <2>1, <3>1, MasterMoves
    <2>3. WriteMade' = k + 1
      BY <1>k, <2>1, <2>2, WriteShapeReturns
    <2>4. WriteAfter(reg, byte, k + 1)
      <3>1. CASE Addressed \/ Transferred
        BY <1>k, <2>1, <3>1 DEF Addressed, Transferred, WriteCalm, Calling
      <3>2. CASE Stopped
        <4>1. at = "stopping" /\ Prim.do = "stop"
          BY <3>2 DEF Stopped, Typed
        <4>2. k = 3
          BY <1>p, <2>1, <4>1
        <4>3. regs = [before.regs EXCEPT ![reg] = byte]
          BY <4>1 DEF WriteCalm
        <4> QED BY <4>2, <4>3 DEF WriteAfter
      <3> QED BY <1>4, <3>1, <3>2
    <2>5. WriteAfter(reg, byte, WriteMade)'
      BY <1>0, <2>3, <2>4 DEF WriteAfter
    <2> QED BY <1>0, <2>1, <2>5 DEF WriteCalm
  <1> QED BY <1>1, <1>2, <1>3, <1>4 DEF Master

LEMMA WriteCalmBus ==
  ASSUME NEW reg \in Configuration, NEW byte, WriteShape(reg, byte), Typed, WriteCalm(reg, byte),
         Carry(Contents(pointer)), UNCHANGED <<driver, measured>>
  PROVE  WriteCalm(reg, byte)'
  <1>k. PICK k : k = WriteMade
    OBVIOUS
  <1>0. /\ UNCHANGED <<todo, at, timeout, before, alive>> /\ alive /\ Prim' = Prim
        /\ before.regs' = before.regs /\ WriteMade' = k
    BY <1>k, BusKeepsCall DEF driver, Prim, WriteCalm, Carry, StartSent, StopSent, AddressSent, ByteSent,
       ByteReceived, NobodyAnswers, wires, WriteMade
  <1>1. flight # "none" =>
          /\ at # "issue" /\ todo # <<>>
          /\ k = 0 \/ k = 1 \/ k = 2 \/ k = 3
          /\ k = 0 => Prim.do = "start" /\ Prim.byte = Address + I2C_WRITE
          /\ k = 1 => Prim.do = "write" /\ Prim.byte = reg
          /\ k = 2 => Prim.do = "write" /\ Prim.byte = byte
          /\ k = 3 => Prim.do = "stop"
    <2>1. flight # "none" => at # "issue" /\ todo # <<>>
      BY DEF WriteCalm, Typed
    <2> QED BY <1>k, <2>1, WritePrim
  <1>2. at = "sync" /\ flight # "none" =>
          /\ WriteAfter(reg, byte, k) /\ TWDR = Prim.byte /\ (k = 1 \/ k = 2)
          /\ phase \in {"pointer", "write"}
    BY <1>k, <1>1 DEF WriteCalm, WriteAfter, Typed
  <1>3. regs \in [Configuration -> 0..255]
    BY DEF Typed
  <1>6. CASE StartSent
    <2>1. at = "starting" /\ regs = before.regs
      BY <1>6 DEF StartSent, WriteCalm, Calling, Typed, Places
    <2>2. Starting' /\ regs' = regs
      BY <1>6 DEF StartSent, Starting, Done
    <2> QED BY <1>0, <2>1, <2>2 DEF WriteCalm
  <1>7. CASE StopSent
    <2>1. at = "stopping" /\ regs = [before.regs EXCEPT ![reg] = byte]
      BY <1>7 DEF StopSent, WriteCalm, Starting, Calling, Typed, Places
    <2>2. flight' = "none" /\ regs' = regs
      BY <1>7 DEF StopSent
    <2> QED BY <1>0, <2>1, <2>2 DEF WriteCalm
  <1>8. CASE AddressSent
    <2>1. flight \in {"go", "goAck"} /\ phase = "begun" /\ regs' = regs
      BY <1>8 DEF AddressSent
    <2>2. at = "addressing" /\ TWDR = Prim.byte /\ regs = before.regs /\ Prim.do = "start"
      BY <1>2, <2>1 DEF WriteCalm, Starting, Calling, Typed, Places
    <2>3. k = 0 /\ TWDR = Address + I2C_WRITE
      BY <1>1, <2>1, <2>2
    <2>4. flight' = "none" /\ TWINT' /\ phase' = "pointer"
      BY <1>8, <2>3, AddressIsHigh DEF AddressSent, Done, I2C_READ, I2C_WRITE
    <2>5. WriteAfter(reg, byte, k + 1)'
      BY <1>0, <2>1, <2>2, <2>3, <2>4 DEF WriteAfter
    <2> QED BY <1>0, <2>2, <2>4, <2>5 DEF WriteCalm
  <1>9. CASE ByteSent \/ ByteReceived(Contents(pointer)) \/ NobodyAnswers
    <2>1. flight \in {"go", "goAck"} /\ phase \in {"pointer", "write", "read", "nobody"}
      BY <1>9 DEF ByteSent, ByteReceived, NobodyAnswers
    <2>2. at = "sync"
      BY <2>1 DEF WriteCalm, Starting, Calling, Typed, Places
    <2>3. ByteSent /\ flight' = "none" /\ TWINT'
      BY <1>2, <1>9, <2>1, <2>2 DEF ByteSent, ByteReceived, NobodyAnswers, Done
    <2>4. CASE k = 1
      <3>1. phase = "pointer" /\ TWDR = reg /\ regs = before.regs
        BY <1>1, <1>2, <2>1, <2>2, <2>4 DEF WriteAfter
      <3>2. phase' = "write" /\ pointer' = reg /\ regs' = regs
        BY <2>3, <3>1 DEF ByteSent
      <3>3. WriteAfter(reg, byte, k + 1)'
        BY <1>0, <2>4, <3>1, <3>2 DEF WriteAfter
      <3> QED BY <1>0, <2>2, <2>3, <3>3 DEF WriteCalm
    <2>5. CASE k = 2
      <3>1. phase = "write" /\ pointer = reg /\ TWDR = byte /\ regs = before.regs
        BY <1>1, <1>2, <2>1, <2>2, <2>5 DEF WriteAfter
      <3>2. phase' = "write" /\ regs' = [regs EXCEPT ![reg] = byte]
        BY <1>3, <2>3, <3>1 DEF ByteSent
      <3>3. WriteAfter(reg, byte, k + 1)'
        BY <1>0, <2>5, <3>1, <3>2 DEF WriteAfter
      <3> QED BY <1>0, <2>2, <2>3, <3>3 DEF WriteCalm
    <2> QED BY <1>2, <2>1, <2>2, <2>4, <2>5
  <1> QED BY <1>6, <1>7, <1>8, <1>9 DEF Carry

-----------------------------------------------------------------------------
(* Fields of a register. *)

\* new has value in the bits low..high, and every other bit of old.
Field(old, new, high, low, value) ==
  \A i \in 0..7 : Bit(new, i) = IF i \in low..high THEN Bit(value, i - low) ELSE Bit(old, i)

LEMMA ClearBit6 ==
  ASSUME NEW b \in 0..255
  PROVE  Merged(b, 6, 1, 0) \in 0..255 /\ Field(b, Merged(b, 6, 1, 0), 6, 6, 0)
  <1>1. PICK x \in Int : x = (b \div 128) * 128 + (b % 64)
    OBVIOUS
  <1>2. Merged(b, 6, 1, 0) = x
    BY <1>1 DEF Merged
  <1>3. x >= 0 /\ x <= 255
    BY <1>1
  <1>4. /\ Bit(x, 0) = Bit(b, 0) /\ Bit(x, 1) = Bit(b, 1) /\ Bit(x, 2) = Bit(b, 2) /\ Bit(x, 3) = Bit(b, 3)
        /\ Bit(x, 4) = Bit(b, 4) /\ Bit(x, 5) = Bit(b, 5) /\ Bit(x, 6) = Bit(0, 0) /\ Bit(x, 7) = Bit(b, 7)
    BY <1>1 DEF Bit
  <1>5. Field(b, x, 6, 6, 0)
    BY <1>4 DEF Field
  <1> QED BY <1>2, <1>3, <1>5

LEMMA SetBits0To2One ==
  ASSUME NEW b \in 0..255
  PROVE  Merged(b, 2, 3, 1) \in 0..255 /\ Field(b, Merged(b, 2, 3, 1), 2, 0, 1)
  <1>1. PICK x \in Int : x = (b \div 8) * 8 + 1
    OBVIOUS
  <1>2. Merged(b, 2, 3, 1) = x
    BY <1>1 DEF Merged
  <1>3. x >= 0 /\ x <= 255
    BY <1>1
  <1>4. /\ Bit(x, 0) = Bit(1, 0) /\ Bit(x, 1) = Bit(1, 1) /\ Bit(x, 2) = Bit(1, 2) /\ Bit(x, 3) = Bit(b, 3)
        /\ Bit(x, 4) = Bit(b, 4) /\ Bit(x, 5) = Bit(b, 5) /\ Bit(x, 6) = Bit(b, 6) /\ Bit(x, 7) = Bit(b, 7)
    BY <1>1 DEF Bit
  <1>5. Field(b, x, 2, 0, 1)
    BY <1>4 DEF Field
  <1> QED BY <1>2, <1>3, <1>5

LEMMA SetBits0To2Three ==
  ASSUME NEW b \in 0..255
  PROVE  Merged(b, 2, 3, 3) \in 0..255 /\ Field(b, Merged(b, 2, 3, 3), 2, 0, 3)
  <1>1. PICK x \in Int : x = (b \div 8) * 8 + 3
    OBVIOUS
  <1>2. Merged(b, 2, 3, 3) = x
    BY <1>1 DEF Merged
  <1>3. x >= 0 /\ x <= 255
    BY <1>1
  <1>4. /\ Bit(x, 0) = Bit(3, 0) /\ Bit(x, 1) = Bit(3, 1) /\ Bit(x, 2) = Bit(3, 2) /\ Bit(x, 3) = Bit(b, 3)
        /\ Bit(x, 4) = Bit(b, 4) /\ Bit(x, 5) = Bit(b, 5) /\ Bit(x, 6) = Bit(b, 6) /\ Bit(x, 7) = Bit(b, 7)
    BY <1>1 DEF Bit
  <1>5. Field(b, x, 2, 0, 3)
    BY <1>4 DEF Field
  <1> QED BY <1>2, <1>3, <1>5

LEMMA SetBits3To4Three ==
  ASSUME NEW b \in 0..255
  PROVE  Merged(b, 4, 2, 3) \in 0..255 /\ Field(b, Merged(b, 4, 2, 3), 4, 3, 3)
  <1>1. PICK x \in Int : x = (b \div 32) * 32 + 24 + (b % 8)
    OBVIOUS
  <1>2. Merged(b, 4, 2, 3) = x
    BY <1>1 DEF Merged
  <1>3. x >= 0 /\ x <= 255
    BY <1>1
  <1>4. /\ Bit(x, 0) = Bit(b, 0) /\ Bit(x, 1) = Bit(b, 1) /\ Bit(x, 2) = Bit(b, 2) /\ Bit(x, 3) = Bit(3, 0)
        /\ Bit(x, 4) = Bit(3, 1) /\ Bit(x, 5) = Bit(b, 5) /\ Bit(x, 6) = Bit(b, 6) /\ Bit(x, 7) = Bit(b, 7)
    BY <1>1 DEF Bit
  <1>5. Field(b, x, 4, 3, 3)
    BY <1>4 DEF Field
  <1> QED BY <1>2, <1>3, <1>5

LEMMA ClearBits3To4 ==
  ASSUME NEW b \in 0..255
  PROVE  Merged(b, 4, 2, 0) \in 0..255 /\ Field(b, Merged(b, 4, 2, 0), 4, 3, 0)
  <1>1. PICK x \in Int : x = (b \div 32) * 32 + (b % 8)
    OBVIOUS
  <1>2. Merged(b, 4, 2, 0) = x
    BY <1>1 DEF Merged
  <1>3. x >= 0 /\ x <= 255
    BY <1>1
  <1>4. /\ Bit(x, 0) = Bit(b, 0) /\ Bit(x, 1) = Bit(b, 1) /\ Bit(x, 2) = Bit(b, 2) /\ Bit(x, 3) = Bit(0, 0)
        /\ Bit(x, 4) = Bit(0, 1) /\ Bit(x, 5) = Bit(b, 5) /\ Bit(x, 6) = Bit(b, 6) /\ Bit(x, 7) = Bit(b, 7)
    BY <1>1 DEF Bit
  <1>5. Field(b, x, 4, 3, 0)
    BY <1>4 DEF Field
  <1> QED BY <1>2, <1>3, <1>5

LEMMA WholeByte == ASSUME NEW b PROVE Field(b, 4, 7, 0, 4)
  BY DEF Field

LEMMA SettingsDo ==
  ASSUME NEW o \in 1..6, NEW b \in 0..255, NEW f, f = mpu6050_init[o]
  PROVE  /\ f.reg \in Configuration /\ f.reg \in 0..255
         /\ Setting(f, b) \in 0..255
         /\ Field(b, Setting(f, b), f.bitStart, f.bitStart - f.length + 1, f.value)
  <1> USE DEF Configuration, RA_PWR_MGMT_1, RA_CONFIG, RA_SMPLRT_DIV, RA_GYRO_CONFIG, RA_ACCEL_CONFIG
  <1>0. o = 1 \/ o = 2 \/ o = 3 \/ o = 4 \/ o = 5 \/ o = 6
    OBVIOUS
  <1>1. CASE o = 1
    <2>1. f.reg = 107 /\ f.bitStart = 6 /\ f.length = 1 /\ f.value = 0
      BY <1>1 DEF mpu6050_init, Bits
    <2>2. Setting(f, b) = Merged(b, 6, 1, 0) /\ f.bitStart - f.length + 1 = 6
      BY <2>1 DEF Setting
    <2>3. f.reg \in Configuration /\ f.reg \in 0..255
      BY <2>1
    <2>4. Setting(f, b) \in 0..255 /\ Field(b, Setting(f, b), 6, 6, 0)
      BY <2>2, ClearBit6, Zenon
    <2> QED BY <2>1, <2>2, <2>3, <2>4, Zenon
  <1>2. CASE o = 2
    <2>1. f.reg = 107 /\ f.bitStart = 2 /\ f.length = 3 /\ f.value = 1
      BY <1>2 DEF mpu6050_init, Bits
    <2>2. Setting(f, b) = Merged(b, 2, 3, 1) /\ f.bitStart - f.length + 1 = 0
      BY <2>1 DEF Setting
    <2>3. f.reg \in Configuration /\ f.reg \in 0..255
      BY <2>1
    <2> QED BY <2>1, <2>2, <2>3, SetBits0To2One
  <1>3. CASE o = 3
    <2>1. f.reg = 26 /\ f.bitStart = 2 /\ f.length = 3 /\ f.value = 3
      BY <1>3 DEF mpu6050_init, Bits
    <2>2. Setting(f, b) = Merged(b, 2, 3, 3) /\ f.bitStart - f.length + 1 = 0
      BY <2>1 DEF Setting
    <2>3. f.reg \in Configuration /\ f.reg \in 0..255
      BY <2>1
    <2> QED BY <2>1, <2>2, <2>3, SetBits0To2Three
  <1>4. CASE o = 4
    <2>1. f.reg = 25 /\ f.bitStart = 7 /\ f.length = 8 /\ f.value = 4
      BY <1>4 DEF mpu6050_init, Bits
    <2> QED BY <2>1, WholeByte DEF Setting
  <1>5. CASE o = 5
    <2>1. f.reg = 27 /\ f.bitStart = 4 /\ f.length = 2 /\ f.value = 3
      BY <1>5 DEF mpu6050_init, Bits
    <2>2. Setting(f, b) = Merged(b, 4, 2, 3) /\ f.bitStart - f.length + 1 = 3
      BY <2>1 DEF Setting
    <2>3. f.reg \in Configuration /\ f.reg \in 0..255
      BY <2>1
    <2> QED BY <2>1, <2>2, <2>3, SetBits3To4Three
  <1>6. CASE o = 6
    <2>1. f.reg = 28 /\ f.bitStart = 4 /\ f.length = 2 /\ f.value = 0
      BY <1>6 DEF mpu6050_init, Bits
    <2>2. Setting(f, b) = Merged(b, 4, 2, 0) /\ f.bitStart - f.length + 1 = 3
      BY <2>1 DEF Setting
    <2>3. f.reg \in Configuration /\ f.reg \in 0..255
      BY <2>1
    <2>4. Setting(f, b) \in 0..255 /\ Field(b, Setting(f, b), 4, 3, 0)
      BY <2>2, ClearBits3To4, Zenon
    <2> QED BY <2>1, <2>2, <2>3, <2>4, Zenon
  <1> QED BY <1>0, <1>1, <1>2, <1>3, <1>4, <1>5, <1>6

LEMMA SettingRegister ==
  ASSUME NEW o \in 1..6
  PROVE  mpu6050_init[o].reg \in Configuration /\ mpu6050_init[o].reg \in 0..255
  <1>1. 0 \in 0..255
    OBVIOUS
  <1> QED BY <1>1, SettingsDo

-----------------------------------------------------------------------------
(* The invariant of calls. *)

LEMMA ReadKept ==
  ASSUME NEW reg \in 0..255, NEW n \in Nat \ {0}, Read(reg, n), Typed,
         UNCHANGED <<driver, measured>>,
         \/ Master \/ Carry(Contents(pointer)) \/ Refuse(Weight) \/ Die(Weight) \/ Revive
         \/ UNCHANGED <<master, twi, sensor, wires, calm>>
  PROVE  Read(reg, n)'
  <1>1. CASE Master
    <2>1. calm' = calm
      BY <1>1 DEF Master, Issue, Poll, Started, Addressed, Transferred, Stopped
    <2> QED BY <1>1, <2>1, ReadShapeMaster, ReadCalmMaster DEF Read
  <1>2. CASE Carry(Contents(pointer)) \/ Refuse(Weight) \/ Die(Weight) \/ Revive
    <2>1. ReadShape(reg, n)'
      BY <1>2, BusKeepsCall DEF Read, ReadShape, ReadMade
    <2>2. CASE Carry(Contents(pointer))
      <3>1. calm' = calm
        BY <2>2 DEF Carry, StartSent, StopSent, AddressSent, ByteSent, ByteReceived, NobodyAnswers
      <3> QED BY <2>1, <2>2, <3>1, ReadCalmBus DEF Read
    <2>3. CASE Refuse(Weight) \/ Die(Weight)
      BY <2>1, <2>3 DEF Read, Refuse, Die
    <2>4. CASE Revive
      <3>1. ~calm'
        BY <2>4 DEF Revive, Read, ReadCalm
      <3> QED BY <2>1, <3>1 DEF Read
    <2> QED BY <1>2, <2>2, <2>3, <2>4
  <1>3. CASE UNCHANGED <<master, twi, sensor, wires, calm>>
    <2>1. UNCHANGED <<todo, at, timeout, data, flight, TWINT, TWSR, TWDR, phase, pointer, regs, alive,
                      calm, before, measured>>
      BY <1>3 DEF master, twi, sensor, wires, driver
    <2>2. ReadMade(n)' = ReadMade(n) /\ Prim' = Prim /\ Starting' = Starting /\ Calling' = Calling
      BY <2>1 DEF ReadMade, Prim, Starting, Calling
    <2>3. ReadShape(reg, n)'
      BY <2>1, <2>2 DEF Read, ReadShape
    <2>4. calm => ReadCalm(reg, n)'
      BY <2>1, <2>2, ContentsKept DEF Read, ReadCalm, ReadAfter
    <2> QED BY <2>1, <2>3, <2>4 DEF Read
  <1> QED BY <1>1, <1>2, <1>3

LEMMA WrittenKept ==
  ASSUME NEW f, f.reg \in Configuration, NEW byte, Written(f, byte), Typed,
         UNCHANGED <<driver, measured>>,
         \/ Master \/ Carry(Contents(pointer)) \/ Refuse(Weight) \/ Die(Weight) \/ Revive
         \/ UNCHANGED <<master, twi, sensor, wires, calm>>
  PROVE  Written(f, byte)'
  <1>0. before' = before
    BY DEF driver
  <1>1. CASE Master
    <2>1. calm' = calm
      BY <1>1 DEF Master, Issue, Poll, Started, Addressed, Transferred, Stopped
    <2> QED BY <1>0, <1>1, <2>1, WriteShapeMaster, WriteCalmMaster DEF Written
  <1>2. CASE Carry(Contents(pointer)) \/ Refuse(Weight) \/ Die(Weight) \/ Revive
    <2>1. WriteShape(f.reg, byte)'
      BY <1>2, BusKeepsCall DEF Written, WriteShape, WriteMade
    <2>2. CASE Carry(Contents(pointer))
      <3>1. calm' = calm
        BY <2>2 DEF Carry, StartSent, StopSent, AddressSent, ByteSent, ByteReceived, NobodyAnswers
      <3> QED BY <1>0, <2>1, <2>2, <3>1, WriteCalmBus DEF Written
    <2>3. CASE Refuse(Weight) \/ Die(Weight)
      BY <2>1, <2>3 DEF Written, Refuse, Die
    <2>4. CASE Revive
      <3>1. ~calm'
        BY <2>4 DEF Revive, Written, WriteCalm
      <3> QED BY <2>1, <3>1 DEF Written
    <2> QED BY <1>2, <2>2, <2>3, <2>4
  <1>3. CASE UNCHANGED <<master, twi, sensor, wires, calm>>
    <2>1. UNCHANGED <<todo, at, timeout, data, flight, TWINT, TWSR, TWDR, phase, pointer, regs, alive,
                      calm, before>>
      BY <1>3 DEF master, twi, sensor, wires, driver
    <2>2. WriteMade' = WriteMade /\ Prim' = Prim /\ Starting' = Starting /\ Calling' = Calling
      BY <2>1 DEF WriteMade, Prim, Starting, Calling
    <2>3. WriteShape(f.reg, byte)'
      BY <2>1, <2>2 DEF Written, WriteShape
    <2>4. calm => WriteCalm(f.reg, byte)'
      BY <2>1, <2>2 DEF Written, WriteCalm, WriteAfter
    <2> QED BY <2>1, <2>3, <2>4 DEF Written
  <1> QED BY <1>1, <1>2, <1>3

LEMMA CallKept ==
  ASSUME DeepInv, UNCHANGED <<driver, measured>>,
         \/ Master \/ Carry(Contents(pointer)) \/ Refuse(Weight) \/ Die(Weight) \/ Revive
         \/ UNCHANGED <<master, twi, sensor, wires, calm>>
  PROVE  CallInv'
  <1>0. UNCHANGED <<op, rewriting, before, measured>> /\ Typed /\ CallInv
    BY DEF driver, DeepInv
  <1>1. op \in 0..7
    BY <1>0 DEF CallInv
  <1>2. ASSUME rewriting PROVE op < 6 /\ Now'.length < 8 /\ Read(Now.reg, 1)'
    <2>1. PICK f : f = Now
      OBVIOUS
    <2>2. op < 6 /\ f.length < 8 /\ Read(f.reg, 1)
      BY <1>0, <1>2, <2>1 DEF CallInv
    <2>3. op + 1 \in 1..6
      BY <1>1, <2>2
    <2>4. f.reg \in 0..255
      BY <2>1, <2>3, SettingRegister DEF Now
    <2>5. Now' = f
      BY <1>0, <2>1 DEF Now
    <2>6. 1 \in Nat \ {0}
      OBVIOUS
    <2>7. Read(f.reg, 1)'
      BY <1>0, <2>2, <2>4, <2>6, ReadKept
    <2> QED BY <2>2, <2>5, <2>7
  <1>3. ASSUME ~rewriting, op = 0 PROVE todo' = <<>> /\ data' = <<>>
    <2>1. todo = <<>> /\ data = <<>>
      BY <1>0, <1>3 DEF CallInv
    <2>2. ~Master
      <3>1. ASSUME Master PROVE FALSE
        BY <1>0, <2>1, <3>1, MasterMoves
      <3> QED BY <3>1
    <2> QED BY <2>1, <2>2, BusKeepsCall DEF master
  <1>4. ASSUME ~rewriting, op \in 1..6 PROVE \E byte \in 0..255 : Written(mpu6050_init[op], byte)'
    <2>1. PICK f : f = mpu6050_init[op]
      OBVIOUS
    <2>2. PICK byte \in 0..255 : Written(f, byte)
      BY <1>0, <1>4, <2>1 DEF CallInv
    <2>3. f.reg \in Configuration
      BY <1>4, <2>1, SettingRegister
    <2>4. Written(f, byte)'
      BY <1>0, <2>2, <2>3, WrittenKept
    <2>5. mpu6050_init[op]' = f
      BY <1>0, <2>1 DEF mpu6050_init
    <2> QED BY <2>4, <2>5
  <1>5. ASSUME op = 7 PROVE Read(RA_ACCEL_XOUT_H, 14)'
    <2>1. RA_ACCEL_XOUT_H \in 0..255 /\ 14 \in Nat \ {0}
      BY DEF RA_ACCEL_XOUT_H
    <2>2. Read(RA_ACCEL_XOUT_H, 14)
      BY <1>0, <1>5 DEF CallInv
    <2> QED BY <1>0, <2>1, <2>2, ReadKept
  <1> QED BY <1>0, <1>1, <1>2, <1>3, <1>4, <1>5 DEF CallInv

\* Every call has its shape and knows its place.
LEMMA CallSeq == DeepInv => todo \in Seq(AnyPrimitive)
  <1> SUFFICES ASSUME DeepInv PROVE todo \in Seq(AnyPrimitive)
    OBVIOUS
  <1>1. op \in 0..7
    BY DEF DeepInv, CallInv
  <1>2. CASE rewriting
    BY <1>2 DEF DeepInv, CallInv, Read, ReadShape
  <1>3. CASE ~rewriting /\ op = 0
    BY <1>3 DEF DeepInv, CallInv
  <1>4. CASE ~rewriting /\ op \in 1..6
    BY <1>4 DEF DeepInv, CallInv, Written, WriteShape
  <1>5. CASE ~rewriting /\ op = 7
    BY <1>5 DEF DeepInv, CallInv, Read, ReadShape
  <1> QED BY <1>1, <1>2, <1>3, <1>4, <1>5

\* A call that begins has done nothing yet.
LEMMA ReadBegins ==
  ASSUME NEW reg \in 0..255, NEW n \in Nat \ {0},
         todo' = mpu6050_readBytes(reg, n), data' = <<>>, at' = "issue",
         before'.regs = regs', calm' => alive' /\ flight' = "none"
  PROVE  Read(reg, n)'
  <1>1. todo' \in Seq(AnyPrimitive) /\ Len(todo') = n + 4
        /\ \A k \in 1..n + 4 : todo'[k] = ReadStep(reg, n, k)
    BY ReadBytesIs
  <1>2. ReadMade(n)' = 0
    BY <1>1 DEF ReadMade
  <1>3. ReadShape(reg, n)'
    <2>1. \A i \in 1..Len(todo') : todo'[i] = ReadStep(reg, n, ReadMade(n)' + i)
      BY <1>1, <1>2
    <2>2. data' \in Seq(0..255) /\ Len(data') = 0
      OBVIOUS
    <2> QED BY <1>1, <1>2, <2>1, <2>2 DEF ReadShape
  <1>4. Len(data') = 0
    OBVIOUS
  <1>5. calm' => ReadCalm(reg, n)'
    BY <1>2, <1>4 DEF ReadCalm, ReadAfter
  <1> QED BY <1>3, <1>5 DEF Read

LEMMA WriteBegins ==
  ASSUME NEW f, f.reg \in 0..255, NEW byte \in 0..255,
         todo' = mpu6050_writeBytes(f.reg, <<byte>>), data' = <<>>, at' = "issue",
         calm' => /\ alive' /\ flight' = "none" /\ before'.regs = regs'
                  /\ byte = Setting(f, before'.regs[f.reg])
  PROVE  Written(f, byte)'
  <1>1. todo' \in Seq(AnyPrimitive) /\ Len(todo') = 4
        /\ \A k \in 1..4 : todo'[k] = WriteStep(f.reg, byte, k)
    BY WriteBytesIs
  <1>2. WriteMade' = 0
    BY <1>1 DEF WriteMade
  <1>3. WriteShape(f.reg, byte)'
    <2>1. \A i \in 1..Len(todo') : todo'[i] = WriteStep(f.reg, byte, WriteMade' + i)
      BY <1>1, <1>2
    <2> QED BY <1>1, <2>1 DEF WriteShape
  <1>4. calm' => WriteCalm(f.reg, byte)'
    BY <1>2 DEF WriteCalm, WriteAfter
  <1> QED BY <1>3, <1>4 DEF Written

\* The byte that Rewrite writes: on a calm bus, what the setting makes of the register's.
LEMMA ByteRead ==
  ASSUME NEW f, f.reg \in Configuration, Read(f.reg, 1), Typed, todo = <<>>
  PROVE  /\ data[1] \in 0..255
         /\ calm => /\ data[1] = before.regs[f.reg] /\ regs = before.regs
                    /\ alive /\ flight = "none"
  <1>1. Len(todo) = 0 /\ at = "issue"
    BY DEF Typed
  <1>2. ReadMade(1) = 5
    BY <1>1 DEF ReadMade
  <1>3. data \in Seq(0..255) /\ Len(data) = 1
    BY <1>2 DEF Read, ReadShape
  <1>4. ASSUME calm
        PROVE  data[1] = before.regs[f.reg] /\ regs = before.regs /\ alive /\ flight = "none"
    <2>1. ReadCalm(f.reg, 1)
      BY <1>4 DEF Read
    <2>2. data[1] = Contents(f.reg + 1 - 1) /\ regs = before.regs /\ alive /\ flight = "none"
      BY <1>1, <1>3, <2>1 DEF ReadCalm, ReadAfter
    <2>3. f.reg + 1 - 1 = f.reg
      BY DEF Configuration, RA_PWR_MGMT_1, RA_CONFIG, RA_SMPLRT_DIV, RA_GYRO_CONFIG, RA_ACCEL_CONFIG
    <2>4. f.reg \in DOMAIN regs
      BY DEF Typed
    <2>5. Contents(f.reg) = regs[f.reg]
      BY <2>4 DEF Contents
    <2> QED BY <2>2, <2>3, <2>5
  <1>5. data[1] \in 0..255
    <2>1. \A S : \A s \in Seq(S) : \A i \in 1..Len(s) : s[i] \in S
      OBVIOUS
    <2>2. 1 \in 1..Len(data)
      BY <1>3
    <2> QED BY <1>3, <2>1, <2>2
  <1> QED BY <1>4, <1>5

LEMMA DeepDriver ==
  ASSUME DeepInv, Driver
  PROVE  DeepInv'
  <1>0. Typed /\ CallInv /\ op \in 0..7
    BY DEF DeepInv, CallInv
  <1>1. /\ todo = <<>> /\ at = "issue" /\ at' = "issue" /\ data' = <<>>
        /\ UNCHANGED <<timeout, twi, sensor, wires>>
    BY <1>0 DEF Driver, BeginBits, Rewrite, WriteByte, GetRawData, Call, Typed
  <1>2. regs' = regs /\ alive' = alive /\ flight' = flight
    BY <1>1 DEF sensor, wires, twi
  <1>3. before'.regs \in [Configuration -> 0..255] /\ measured' \in [1..6 -> -2^15..2^15 - 1]
    <2>1. before' = before \/ before'.regs = regs
      BY DEF Driver, BeginBits, Rewrite, WriteByte, GetRawData
    <2>2. measured' = measured \/ measured' \in Measurements
      BY DEF Driver, BeginBits, Rewrite, WriteByte, GetRawData
    <2> QED BY <1>0, <2>1, <2>2, MeasurementsAssumption DEF Typed, MeasurementsAssumption
  <1>4. Typed'
    BY <1>0, <1>1, <1>2, <1>3 DEF Typed, twi, Places
  <1>5. ASSUME op < 6 PROVE op + 1 \in 1..6 /\ Now.reg \in Configuration /\ Now.reg \in 0..255
    <2>1. op + 1 \in 1..6
      BY <1>0, <1>5
    <2> QED BY <2>1, SettingRegister DEF Now
  <1>6. CASE BeginBits
    <2>1. op < 6 /\ Now.length < 8 /\ op' = op /\ rewriting'
      BY <1>0, <1>6, InitLength DEF BeginBits, Initialized
    <2>2. PICK f : f = Now /\ Now' = f
      BY <2>1 DEF Now
    <2>3. /\ todo' = mpu6050_readBytes(f.reg, 1) /\ before'.regs = regs
          /\ calm' => alive /\ flight = "none"
      BY <1>6, <2>2 DEF BeginBits, Call, Quiet
    <2>4. f.reg \in 0..255 /\ 1 \in Nat \ {0}
      BY <1>5, <2>1, <2>2
    <2>5. Read(f.reg, 1)'
      BY <1>1, <1>2, <2>3, <2>4, ReadBegins
    <2>6. op' # 7
      BY <2>1
    <2> QED BY <1>0, <1>4, <2>1, <2>2, <2>5, <2>6 DEF DeepInv, CallInv
  <1>7. CASE Rewrite
    <2>1. rewriting /\ ~rewriting' /\ op' = op + 1
      BY <1>7 DEF Rewrite
    <2>2. PICK f : f = Now
      OBVIOUS
    <2>3. op < 6 /\ f.length < 8 /\ Read(f.reg, 1)
      BY <1>0, <2>1, <2>2 DEF CallInv
    <2>4. f = mpu6050_init[op + 1] /\ op + 1 \in 1..6 /\ f.reg \in Configuration /\ f.reg \in 0..255
      BY <1>5, <2>2, <2>3 DEF Now
    <2>5. /\ data[1] \in 0..255
          /\ calm => data[1] = before.regs[f.reg] /\ regs = before.regs /\ alive /\ flight = "none"
      BY <1>0, <1>1, <2>3, <2>4, ByteRead
    <2>6. PICK byte : byte = Setting(f, data[1])
      OBVIOUS
    <2>7. byte \in 0..255
      BY <2>4, <2>5, <2>6, SettingsDo
    <2>8. /\ todo' = mpu6050_writeBytes(f.reg, <<byte>>) /\ before' = before
          /\ calm' => calm
      BY <1>7, <2>2, <2>3, <2>6 DEF Rewrite, Call, Setting
    <2>9. Written(f, byte)'
      BY <1>1, <1>2, <2>4, <2>5, <2>6, <2>7, <2>8, WriteBegins
    <2>10. op' \in 1..6 /\ op' # 0 /\ op' # 7 /\ op' \in 0..7 /\ mpu6050_init[op]' = f
      BY <2>1, <2>4 DEF mpu6050_init
    <2> QED BY <1>4, <2>1, <2>7, <2>9, <2>10 DEF DeepInv, CallInv
  <1>8. CASE WriteByte
    <2>1. op < 6 /\ ~rewriting /\ ~rewriting' /\ op' = op + 1
      BY <1>0, <1>8, InitLength DEF WriteByte, Initialized
    <2>2. PICK f : f = Now
      OBVIOUS
    <2>4. f = mpu6050_init[op + 1] /\ op + 1 \in 1..6 /\ f.reg \in Configuration /\ f.reg \in 0..255
      BY <1>5, <2>1, <2>2 DEF Now
    <2>5. /\ todo' = mpu6050_writeBytes(f.reg, <<f.value>>) /\ before'.regs = regs /\ f.length = 8
          /\ calm' => alive /\ flight = "none"
      BY <1>8, <2>2 DEF WriteByte, Call, Quiet
    <2>6. \A b : Setting(f, b) = f.value
      BY <2>5 DEF Setting
    <2>7. f.value \in 0..255
      <3>1. 0 \in 0..255
        OBVIOUS
      <3>2. Setting(f, 0) \in 0..255
        BY <2>4, <3>1, SettingsDo
      <3> QED BY <2>6, <3>2
    <2>9. Written(f, f.value)'
      BY <1>1, <1>2, <2>4, <2>5, <2>6, <2>7, WriteBegins
    <2>10. op' \in 1..6 /\ op' # 0 /\ op' # 7 /\ op' \in 0..7 /\ mpu6050_init[op]' = f
      BY <2>1, <2>4 DEF mpu6050_init
    <2> QED BY <1>4, <2>1, <2>7, <2>9, <2>10 DEF DeepInv, CallInv
  <1>9. CASE GetRawData
    <2>1. ~rewriting /\ ~rewriting' /\ op' = 7
      <3>1. op >= 6 /\ op' = 7 /\ rewriting' = rewriting
        BY <1>9, InitLength DEF GetRawData, Initialized
      <3>2. rewriting => op < 6
        BY <1>0 DEF CallInv
      <3> QED BY <1>0, <3>1, <3>2
    <2>2. /\ todo' = mpu6050_readBytes(RA_ACCEL_XOUT_H, 14) /\ before'.regs = regs
          /\ calm' => alive /\ flight = "none"
      BY <1>9 DEF GetRawData, Call, Quiet
    <2>3. RA_ACCEL_XOUT_H \in 0..255 /\ 14 \in Nat \ {0}
      BY DEF RA_ACCEL_XOUT_H
    <2>4. Read(RA_ACCEL_XOUT_H, 14)'
      BY <1>1, <1>2, <2>2, <2>3, ReadBegins
    <2> QED BY <1>4, <2>1, <2>4 DEF DeepInv, CallInv
  <1> QED BY <1>6, <1>7, <1>8, <1>9 DEF Driver

LEMMA DeepInit == Init => DeepInv
  <1> SUFFICES ASSUME Init PROVE DeepInv
    OBVIOUS
  <1>1. regs \in [Configuration -> 0..255] /\ measured \in [1..6 -> -2^15..2^15 - 1]
    BY ResetsAssumption, MeasurementsAssumption DEF Init, ResetsAssumption, MeasurementsAssumption
  <1>2. timeout \in 0..Timeout
    BY BusAssumption DEF BusAssumption, Init
  <1>3. Typed
    <2>1. before.regs = regs /\ at = "issue" /\ flight = "none"
      BY DEF Init
    <2>2. TWDR \in 0..255
      BY DEF Init
    <2> QED BY <1>1, <1>2, <2>1, <2>2 DEF Typed, Places
  <1>4. CallInv
    BY DEF Init, CallInv
  <1> QED BY <1>3, <1>4 DEF DeepInv

LEMMA DeepInductive == DeepInv /\ [Next]_vars => DeepInv'
  <1> SUFFICES ASSUME DeepInv, [Next]_vars PROVE DeepInv'
    OBVIOUS
  <1>1. CASE Driver
    BY <1>1, DeepDriver
  <1>2. CASE OnBus(Master)
    BY <1>2, CallSeq, CallKept, TypedMaster DEF OnBus, DeepInv
  <1>3. CASE OnBus(Carry(Contents(pointer))) \/ OnBus(Refuse(Weight)) \/ OnBus(Die(Weight)) \/ OnBus(Revive)
    BY <1>3, CallKept, TypedBus DEF OnBus, DeepInv
  <1>4. CASE UNCHANGED vars
    <2>1. /\ UNCHANGED <<todo, at, timeout, data, flight, TWINT, TWSR, TWDR, phase, pointer, regs,
                         alive, calm, op, rewriting, before, measured>>
      BY <1>4 DEF vars, master, twi, sensor, wires, driver
    <2>2. Typed'
      <3>1. Prim' = Prim
        BY <2>1 DEF Prim
      <3> QED BY <2>1, <3>1 DEF DeepInv, Typed
    <2>3. CallInv'
      BY <1>4, CallKept DEF vars
    <2> QED BY <2>2, <2>3 DEF DeepInv
  <1> QED BY <1>1, <1>2, <1>3, <1>4 DEF Next

-----------------------------------------------------------------------------
(* What the driver promises. *)

LEMMA DeepTypes == DeepInv => TypeOK
  <1> SUFFICES ASSUME DeepInv PROVE TypeOK
    OBVIOUS
  <1>1. op \in 0..7 /\ Typed /\ CallInv
    BY DEF DeepInv, CallInv
  <1>2. Len(data) <= 14
    <2>1. ASSUME NEW reg, NEW n \in 1..14, ReadShape(reg, n) PROVE Len(data) <= 14
      <3>1. Len(todo) \in Nat /\ ReadMade(n) \in Int /\ ReadMade(n) <= n + 4
        BY <2>1 DEF ReadShape, ReadMade
      <3>2. Len(data) = 0 \/ Len(data) = n \/ (ReadMade(n) # n + 4 /\ Len(data) = ReadMade(n) - 3)
        BY <2>1 DEF ReadShape
      <3> QED BY <3>1, <3>2
    <2>2. CASE rewriting
      <3>1. ReadShape(Now.reg, 1) /\ 1 \in 1..14
        BY <1>1, <2>2 DEF CallInv, Read
      <3> QED BY <2>1, <3>1
    <2>3. CASE ~rewriting /\ op \in 0..6
      <3>1. data = <<>>
        BY <1>1, <2>3 DEF CallInv, Written, WriteShape
      <3> QED BY <3>1
    <2>4. CASE op = 7
      <3>1. ReadShape(RA_ACCEL_XOUT_H, 14) /\ 14 \in 1..14
        BY <1>1, <2>4 DEF CallInv, Read
      <3> QED BY <2>1, <3>1
    <2> QED BY <1>1, <2>2, <2>3, <2>4
  <1> QED BY <1>1, <1>2 DEF Typed, TypeOK, Places

LEMMA DeepSettings == DeepInv => SettingExact
  <1> SUFFICES ASSUME DeepInv, todo = <<>>, op \in DOMAIN mpu6050_init, ~rewriting, calm
               PROVE  LET f   == mpu6050_init[op]
                          low == f.bitStart - f.length + 1
                      IN  \A reg \in Configuration, i \in 0..7 :
                            Bit(regs[reg], i) = IF reg = f.reg /\ i \in low..f.bitStart
                                                  THEN Bit(f.value, i - low) ELSE Bit(before.regs[reg], i)
    BY DEF SettingExact
  <1>1. op \in 1..6
    BY DEF mpu6050_init
  <1>2. PICK f : f = mpu6050_init[op]
    OBVIOUS
  <1>3. PICK byte \in 0..255 : Written(f, byte)
    BY <1>1, <1>2 DEF DeepInv, CallInv
  <1>4. WriteMade = 4 /\ at = "issue"
    <2>1. Len(todo) = 0 /\ at = "issue"
      BY DEF DeepInv, Typed
    <2> QED BY <2>1 DEF WriteMade
  <1>5. byte = Setting(f, before.regs[f.reg]) /\ regs = [before.regs EXCEPT ![f.reg] = byte]
    BY <1>3, <1>4 DEF Written, WriteCalm, WriteAfter
  <1>6. before.regs \in [Configuration -> 0..255] /\ f.reg \in Configuration
    BY <1>1, <1>2, SettingRegister DEF DeepInv, Typed
  <1>7. before.regs[f.reg] \in 0..255
    BY <1>6
  <1> DEFINE low == f.bitStart - f.length + 1
  <1>8. Field(before.regs[f.reg], byte, f.bitStart, low, f.value)
    BY <1>1, <1>2, <1>5, <1>7, SettingsDo
  <1>9. ASSUME NEW reg \in Configuration, NEW i \in 0..7
        PROVE  Bit(regs[reg], i) = IF reg = f.reg /\ i \in low..f.bitStart
                                     THEN Bit(f.value, i - low) ELSE Bit(before.regs[reg], i)
    <2> HIDE DEF low
    <2>1. CASE reg = f.reg
      <3>1. regs[reg] = byte
        BY <1>5, <1>6, <2>1
      <3> QED BY <1>8, <2>1, <3>1 DEF Field
    <2>2. CASE reg # f.reg
      <3>1. regs[reg] = before.regs[reg]
        BY <1>5, <1>6, <2>2
      <3> QED BY <2>2, <3>1
    <2> QED BY <2>1, <2>2
  <1> QED BY <1>2, <1>9

\* The registers of the measurement hold its words, high bytes first, around the temperature.
LEMMA MeasuredBytes ==
  ASSUME Typed, NEW i \in 1..6, NEW k, k = IF i <= 3 THEN i ELSE i + 1
  PROVE  /\ Contents(57 + 2 * k) = (measured[i] % 2^16) \div 256
         /\ Contents(58 + 2 * k) = (measured[i] % 2^16) % 256
  <1>0. DOMAIN regs = Configuration
    BY DEF Typed
  <1>1. k \in 1..7 \ {4}
    OBVIOUS
  <1>2. PICK hi, lo : hi = 57 + 2 * k /\ lo = 58 + 2 * k
    OBVIOUS
  <1>3. hi \in 59..72 \ {65, 66} /\ lo \in 59..72 \ {65, 66} /\ hi % 2 = 1 /\ lo % 2 # 1
    BY <1>1, <1>2
  <1>4. hi \notin DOMAIN regs /\ lo \notin DOMAIN regs
    BY <1>0, <1>3 DEF Configuration, RA_PWR_MGMT_1, RA_CONFIG, RA_SMPLRT_DIV, RA_GYRO_CONFIG,
       RA_ACCEL_CONFIG
  <1>5. ASSUME NEW r, r = hi \/ r = lo
        PROVE  (IF (r - 59) \div 2 < 3 THEN (r - 59) \div 2 + 1 ELSE (r - 59) \div 2) = i
    <2>1. (r - 59) \div 2 = k - 1
      BY <1>1, <1>2, <1>5
    <2> QED BY <1>1, <2>1
  <1>6. ASSUME NEW r, r = hi \/ r = lo
        PROVE  Contents(r) = IF r % 2 = 1 THEN (measured[i] % 2^16) \div 256 ELSE (measured[i] % 2^16) % 256
    <2>1. r \notin DOMAIN regs /\ r \in 59..72 \ {65, 66}
      BY <1>3, <1>4, <1>6
    <2>2. (IF (r - 59) \div 2 < 3 THEN (r - 59) \div 2 + 1 ELSE (r - 59) \div 2) = i
      BY <1>5, <1>6
    <2> QED BY <2>1, <2>2, Zenon DEF Contents
  <1> QED BY <1>2, <1>3, <1>6

LEMMA DeepMeasurement == DeepInv => MeasurementExact
  <1> SUFFICES ASSUME DeepInv, todo = <<>>, op > Len(mpu6050_init), calm
               PROVE  Raw(data) = measured
    BY DEF MeasurementExact
  <1>1. op = 7
    <2>1. op \in 0..7 /\ op > 6
      BY InitLength DEF DeepInv, CallInv
    <2> QED BY <2>1
  <1>2. ReadShape(59, 14) /\ ReadCalm(59, 14)
    BY <1>1 DEF DeepInv, CallInv, Read, RA_ACCEL_XOUT_H
  <1>3. ReadMade(14) = 18
    BY DEF ReadMade
  <1>4. Len(data) = 14
    BY <1>2, <1>3 DEF ReadShape
  <1>5. \A j \in 1..14 : data[j] = Contents(58 + j)
    <2> TAKE j \in 1..14
    <2>1. data[j] = Contents(59 + j - 1)
      BY <1>2, <1>4 DEF ReadCalm
    <2>2. 59 + j - 1 = 58 + j
      OBVIOUS
    <2> QED BY <2>1, <2>2
  <1>6. measured \in [1..6 -> -2^15..2^15 - 1] /\ Typed
    BY DEF DeepInv, Typed
  <1>7. ASSUME NEW i \in 1..6
        PROVE  (LET k == IF i <= 3 THEN i ELSE i + 1 IN Int16(data[2 * k - 1], data[2 * k])) = measured[i]
    <2>1. PICK k : k = IF i <= 3 THEN i ELSE i + 1
      OBVIOUS
    <2>2. 2 * k - 1 \in 1..14 /\ 2 * k \in 1..14 /\ 58 + (2 * k - 1) = 57 + 2 * k
      BY <2>1
    <2>3. data[2 * k - 1] = Contents(57 + 2 * k) /\ data[2 * k] = Contents(58 + 2 * k)
      BY <1>5, <2>2
    <2>4. /\ Contents(57 + 2 * k) = (measured[i] % 2^16) \div 256
          /\ Contents(58 + 2 * k) = (measured[i] % 2^16) % 256
      BY <1>6, <2>1, MeasuredBytes
    <2>5. measured[i] \in -2^15..2^15 - 1
      BY <1>6
    <2>6. Int16((measured[i] % 2^16) \div 256, (measured[i] % 2^16) % 256) = measured[i]
      BY <2>5, WordBytes
    <2>7. Int16(data[2 * k - 1], data[2 * k]) = measured[i]
      BY <2>3, <2>4, <2>6
    <2> QED BY <2>1, <2>7
  <1>8. measured = [i \in 1..6 |-> measured[i]]
    BY <1>6
  <1> QED BY <1>7, <1>8, Zenon DEF Raw

\* The driver's state keeps its types: a call never returns more bytes than the buffer has
\* (mpu6050_getRawData), a register never holds more than a byte, and no wait goes on past its
\* polls (i2c_sync, i2c_waitStop).
THEOREM DriverTypeCorrect == Spec => []TypeOK
  BY DeepInit, DeepInductive, DeepTypes, PTL DEF Spec

\* A setting of mpu6050_init made on a quiet bus replaces exactly its field (mpu6050_writeBits),
\* whatever went wrong before it and whatever the sensor held.
THEOREM SettingsAreExact == Spec => []SettingExact
  BY DeepInit, DeepInductive, DeepSettings, PTL DEF Spec

\* Raw data read on a quiet bus are the measurement, sign and order included
\* (mpu6050_getRawData), for every measurement there can be.
THEOREM MeasurementsAreExact == Spec => []MeasurementExact
  BY DeepInit, DeepInductive, DeepMeasurement, PTL DEF Spec

=============================================================================
