------------------------------ MODULE Mpu6050 ------------------------------
(***************************************************************************)
(* The glove's motion sensor driver (mpu6050.c) over the I2C master: ioinit *)
(* calls mpu6050_init, and for every press the main loop reads raw data.   *)
(* No function looks at what i2c_start and i2c_write return, so a call     *)
(* that meets a fault goes on to its end with whatever TWDR holds.         *)
(***************************************************************************)
EXTENDS TwoWire

CONSTANTS
  InitWeight,      \* bound: what a fault in mpu6050_init weighs; one in a reading weighs 1
  Resets,          \* contents of the configuration registers when init begins
  Measurements     \* what the sensor may measure: six signed 16-bit values

RA_SMPLRT_DIV   == 25
RA_CONFIG       == 26
RA_GYRO_CONFIG  == 27
RA_ACCEL_CONFIG == 28
RA_SELF_TEST_X  == 13      \* Mistaken, in place of the next
RA_ACCEL_XOUT_H == 59
RA_PWR_MGMT_1   == 107
Configuration   == {RA_SMPLRT_DIV, RA_CONFIG, RA_GYRO_CONFIG, RA_ACCEL_CONFIG, RA_PWR_MGMT_1}

ASSUME ResetsAssumption == Resets \subseteq [Configuration -> 0..255]

ASSUME MeasurementsAssumption == Measurements \subseteq [1..6 -> -2^15..2^15 - 1]

\* Above every register a reading can reach.
ASSUME AddressAssumption == Address \in 128..254

VARIABLES
  op,          \* operations of mpu6050_init begun, and one more for the main loop's reading
  rewriting,   \* the second half of mpu6050_writeBits, or mpu6050_writeBit, is being made
  measured,    \* the sensor's measurement
  before       \* history: regs when the operation began, and whether the bus was quiet

driver == <<op, rewriting, before>>
vars   == <<master, twi, sensor, wires, calm, driver, measured>>

-----------------------------------------------------------------------------
(* The calls of the bus. *)

\* Mistaken: the last byte is acknowledged and the first is not.
readBytesNakFirst(reg, n) ==
  <<i2c_start(Address + I2C_WRITE), i2c_write(reg), i2c_start(Address + I2C_READ)>>
    \o [i \in 1..n |-> IF i = 1 THEN i2c_readNak ELSE i2c_readAck] \o <<i2c_stop>>

mpu6050_readBytes(reg, n) ==
  <<i2c_start(Address + I2C_WRITE), i2c_write(reg), i2c_start(Address + I2C_READ)>>
    \o [i \in 1..n |-> IF i = n THEN i2c_readNak ELSE i2c_readAck] \o <<i2c_stop>>

mpu6050_writeBytes(reg, bytes) ==
  <<i2c_start(Address + I2C_WRITE), i2c_write(reg)>>
    \o [i \in 1..Len(bytes) |-> i2c_write(bytes[i])] \o <<i2c_stop>>

\* Mistaken: the field is or-ed into the byte, not replaced in it.
MergedWithoutMask(b, bitStart, length, value) ==
  LET low == 2^(bitStart - length + 1)
      old == (b \div low) % 2^length
  IN  b - old * low + (IF old > value THEN old ELSE value) * low

\* (b & ~mask) | data: bits bitStart, bitStart - 1, ... are replaced.
Merged(b, bitStart, length, value) ==
  LET low  == 2^(bitStart - length + 1)
      high == 2^(bitStart + 1)
  IN  (b \div high) * high + (value % 2^length) * low + (b % low)

Bits(reg, bitStart, length, value) ==
  [reg |-> reg, bitStart |-> bitStart, length |-> length, value |-> value]

\* mpu6050_setSleepDisabled, then the settings in the order of mpu6050_init. The sample rate
\* fills its register and is written without being read.
mpu6050_init ==
  <<Bits(RA_PWR_MGMT_1, 6, 1, 0), Bits(RA_PWR_MGMT_1, 2, 3, 1), Bits(RA_CONFIG, 2, 3, 3),
    Bits(RA_SMPLRT_DIV, 7, 8, 4), Bits(RA_GYRO_CONFIG, 4, 2, 3), Bits(RA_ACCEL_CONFIG, 4, 2, 0)>>

Initialized == op >= Len(mpu6050_init)
Now         == mpu6050_init[op + 1]

\* A call begins.
Call(primitives) ==
  /\ todo' = primitives /\ data' = <<>>
  /\ UNCHANGED <<at, timeout, twi, sensor, wires>>

Quiet == alive /\ flight = "none"

BeginBits ==
  /\ todo = <<>> /\ ~Initialized /\ ~rewriting /\ Now.length < 8
  /\ Call(mpu6050_readBytes(Now.reg, 1))
  /\ rewriting' = TRUE /\ before' = [regs |-> regs, quiet |-> TRUE]
  /\ calm' = Quiet
  /\ UNCHANGED <<op, measured>>

\* mpu6050_readBytes returns 1 whatever happened: the byte is merged and written.
Rewrite ==
  /\ todo = <<>> /\ rewriting
  /\ Call(mpu6050_writeBytes(Now.reg, <<Merged(data[1], Now.bitStart, Now.length, Now.value)>>))
  /\ rewriting' = FALSE /\ op' = op + 1
  /\ calm' = (calm /\ Quiet)
  /\ UNCHANGED <<before, measured>>

WriteByte ==
  /\ todo = <<>> /\ ~Initialized /\ ~rewriting /\ Now.length = 8
  /\ Call(mpu6050_writeBytes(Now.reg, <<Now.value>>))
  /\ op' = op + 1 /\ before' = [regs |-> regs, quiet |-> TRUE]
  /\ calm' = Quiet
  /\ UNCHANGED <<rewriting, measured>>

\* The main loop asks for raw data, and takes it when the call is over. The sensor keeps one
\* measurement through a reading.
GetRawData ==
  /\ todo = <<>> /\ Initialized
  /\ Call(mpu6050_readBytes(RA_ACCEL_XOUT_H, 14))
  /\ measured' \in Measurements
  /\ op' = Len(mpu6050_init) + 1
  /\ before' = [regs |-> regs, quiet |-> Quiet /\ phase = "idle"]
  /\ calm' = Quiet
  /\ UNCHANGED rewriting

\* (int16_t) buffer[i] << 8 | buffer[i + 1]
Int16(hi, lo) == LET w == 256 * hi + lo IN IF w >= 2^15 THEN w - 2^16 ELSE w

\* Mistaken: the temperature between the accelerations and the rates is taken for a rate.
RawWithTemperature(b) == [i \in 1..6 |-> Int16(b[2 * i - 1], b[2 * i])]

\* The temperature is left out.
Raw(b) == [i \in 1..6 |-> LET k == IF i <= 3 THEN i ELSE i + 1 IN Int16(b[2 * k - 1], b[2 * k])]

-----------------------------------------------------------------------------
(* The sensor. *)

\* Registers 59..72 hold the measurement, high bytes first, with the temperature (here 0) in
\* the fourth place.
Contents(reg) ==
  IF reg \in DOMAIN regs THEN regs[reg]
  ELSE IF reg \notin 59..72 \ {65, 66} THEN 0
  ELSE LET i == (reg - 59) \div 2
           v == measured[IF i < 3 THEN i + 1 ELSE i] % 2^16
       IN  IF reg % 2 = 1 THEN v \div 256 ELSE v % 256

Init ==
  /\ todo = <<>> /\ at = "issue" /\ timeout = 0 /\ data = <<>>
  /\ flight = "none" /\ TWINT = FALSE /\ TWSR = "none" /\ TWDR = 255
  /\ phase = "idle" /\ pointer = 0 /\ regs \in Resets
  /\ alive = TRUE /\ faults = 0 /\ calm = TRUE
  /\ op = 0 /\ rewriting = FALSE
  /\ measured \in Measurements
  /\ before = [regs |-> regs, quiet |-> TRUE]

Driver == BeginBits \/ Rewrite \/ WriteByte \/ GetRawData

Weight == IF op > Len(mpu6050_init) THEN 1 ELSE InitWeight

OnBus(A) == A /\ UNCHANGED <<driver, measured>>

Next ==
  \/ OnBus(Master) \/ OnBus(Carry(Contents(pointer)))
  \/ OnBus(Refuse(Weight)) \/ OnBus(Die(Weight)) \/ OnBus(Revive)
  \/ Driver

Spec == Init /\ [][Next]_vars

\* The processor runs, and a working bus carries what it is given.
FairSpec == Spec /\ WF_vars(OnBus(Master)) /\ WF_vars(OnBus(Carry(Contents(pointer))))

-----------------------------------------------------------------------------
(* Properties. *)

TypeOK ==
  /\ at \in {"issue", "starting", "addressing", "sync", "stopping"}
  /\ at # "issue" => todo # <<>>
  /\ timeout \in 0..Timeout /\ Len(data) <= 14
  /\ regs \in [Configuration -> 0..255] /\ TWDR \in 0..255
  /\ flight # "none" => ~TWINT

Bit(b, i) == (b \div 2^i) % 2

\* A setting (writeBits, writeBit, writeByte) that begins with the bus at rest and meets no
\* fault replaces the bits of its field and no other bit of any register, whatever faults the
\* settings and readings before it have met.
SettingExact ==
  (todo = <<>> /\ op \in DOMAIN mpu6050_init /\ ~rewriting /\ calm) =>
    LET f   == mpu6050_init[op]
        low == f.bitStart - f.length + 1
    IN  \A reg \in Configuration, i \in 0..7 :
          Bit(regs[reg], i) = IF reg = f.reg /\ i \in low..f.bitStart
                                THEN Bit(f.value, i - low) ELSE Bit(before.regs[reg], i)

\* Raw data read with the bus at rest and without a fault are what the sensor measures, also
\* after readings that met faults.
MeasurementExact ==
  (todo = <<>> /\ op > Len(mpu6050_init) /\ calm) => Raw(data) = measured

\* Reading raw data never changes a setting, whatever goes wrong on the bus, though a START that
\* is lost turns the reading into a writing. (A byte of mpu6050_init may still be under way when
\* the first reading begins on a bus that is not at rest.)
ReadingChangesNothing ==
  [][op > Len(mpu6050_init) /\ before.quiet => regs' = regs]_vars

\* i2cmaster.c says of i2c_start "return 0 = device accessible": the sensor has then been
\* addressed. (It returns 0 also when a wait of its runs out.)
AccessibleMeansAddressed ==
  (at \in {"starting", "addressing"} /\ WaitEnds /\ StartReturns = 0)
    => phase \in {"pointer", "read"}

\* Every call returns, even if the bus stays dead: the glove's loop is never stuck in a wait.
CallsEnd == (todo # <<>>) ~> (todo = <<>>)
=============================================================================
