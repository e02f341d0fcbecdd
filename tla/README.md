# Gesture control interface: a verification project

A glove samples an accelerometer and sends it over a serial line to a Nios II
processor, which recognises a gesture and types a key: it is a USB keyboard,
built on an ISP1362 device controller and the Philips/Altera demonstration
firmware. This directory models that firmware in TLA+, checks it with TLC and
proves some of it with TLAPS.

`APP` below is `src/DE2Component_FLASH/Software/FinalFlashedDE2`. The source of
`main.c` is not in the tree: it is read from `APP/FinalFlashedDE2.objdump`, the
listing of the shipped program with its source lines between the instructions.

## 1. Inventory

| Component | Source | State | Operations | Interacts with |
|---|---|---|---|---|
| Interrupt handler | `ISR.c` | `D13FLAGS.DCP_state`, `suspend`, the device state, `ControlData.Abort`, `wCount` | `usb_isr`, bus reset, suspend, EP0 OUT, EP0 IN, EP1 | preempts the main loop; talks to the chip |
| Control pipe of the main loop | `MAINLOOP.c`, objdump 6535-6614 | `ControlData`, `DCP_state` | suspend test, `SetupToken_Handler`, `DeviceRequest_Handler` | shares everything with the handler, behind the gate |
| Device requests | `CHAP_9.c`, `HID.c` | device state bits, configuration, wakeup, alternate setting, HID state, address | 12 standard and 6 class handlers | called by the main loop with the gate closed; each opens it (`LowerIRQL`) |
| Interrupt gate | `usb_irq.c` | `INT_Enabled`, `status`, the processor's enable bit | `disable_irq`, `enable_irq` | everything above |
| Keyboard reports | objdump 6617-6654, 7318-7497 | `gesture`, `new_report`, `old_report`, `bufferAvailable` | INTR1DONE, build, send, update, reset test | endpoint 1; `DCP_state`; HID state |
| Glove stream parser | objdump 6656-7316 | stream flags, `buffer`, counters, velocities | a character, a number, the end of a stream | serial FIFO; sets `gesture` |
| Gesture classifier | objdump 7685-8322 | none | `orientation`, `noMovement`, `largest`, `largestPalmLeft/Right/Up` | called by the parser |
| Chip access | `HAL4D13.c` | none (the chip's registers) | register, buffer and status accesses | the chip |
| Glove firmware | `AVR_Testing.c` | button, accelerations at rest, samples | sample while the button is held, print the stream | I2C, UART |
| I2C master | `i2cmaster.c` | the two-wire interface | start, write, read, stop, each with a bounded wait | the bus |
| MPU6050 driver | `mpu6050.c` | the sensor's registers | set up, read raw data | the I2C master |
| Console | `altera_avalon_jtag_uart_write.c`, `..._init.c` | ring, `irq_enable`, `host_inactive` | `printf` of the main loop and of `usb_isr`, the UART's interrupt, the host check | the JTAG UART, the clock |
| System clock | `alt_tick.c`, `alt_alarm_start.c` | `_alt_nticks`, alarms | a tick | calls the console's host check |

The rest of the board support package, the hardware design and IDE metadata are
third-party or generated and are left out. One old property of the design
explains much of what follows: one 4-bit field, `DCP_state`, is at once the
state of the control pipe, the mailbox from the handler to the main loop, and
the mark that endpoint 1 has finished.

What is hard, component by component, and what makes each correct:

- *Control pipe.* An interrupt falls between any two steps of the main loop
  that are not inside the gate, and between two steps of a handler that has
  reopened it; both store whole words over what the other has written; a host may
  abandon a transfer by a new SETUP at any time; a bus reset comes at any time.
  Correct: packets come from inside
  the descriptor, data land at the start of the buffer, an abandoned transfer
  leaves nothing behind that stops the next one, every transfer ends.
- *Device requests.* Three bits stand for one state and are changed by five
  handlers. Correct: always some state; exactly one for a host that keeps the
  order of chapter 9; the bits agree with `GetConfiguration`.
- *Gate.* It does not count, is called from both sides, and writes a flag and a
  register apart. Correct: it excludes, and is never lost.
- *Reports.* A release follows from the completion of the press; the buffer is
  a Boolean. Correct: gestures reach the host, keys go up, the keyboard never
  falls silent, no overrun.
- *Parser and classifier.* Characters are lost, nothing bounds the indexes, the
  count may be zero, ties and the way the palm faces decide between directions.
  Correct: a press becomes the gesture its wearer made; a lost character harms
  its press and the one behind it, and no other.
- *I2C master and driver.* Waits are given up, results are thrown away, the bus
  dies and comes back. Correct: a call that meets no fault does exactly what it
  is for, whatever the calls before it met; a reading never writes; every call
  returns.
- *Console.* A ring between a writer and an interrupt handler, an enable bit both
  write, a clock that wraps, a host that may not be there. Correct: characters
  leave in order and none stays behind; a write ends.

## 2. Modules

| Module | What it is |
|---|---|
| `Chap9` | the device requests as functions from request and device to answer and device |
| `ControlPipe` (extends `Chap9`) | main loop, interrupt handler, chip and host around the control pipe |
| `ControlTransfer` | what a host may rely on: the abstract control transfer |
| `TransferRefinement` | `ControlPipe` as an implementation of `ControlTransfer` |
| `IrqGate` | `disable_irq` and `enable_irq`, instruction by instruction |
| `ReportPipe` | from gesture to key: the report half of the main loop and endpoint 1 |
| `Classifier` | from accelerations to a movement and a gesture, as functions |
| `GestureStream` (extends `Classifier`) | a press on its way to a gesture: glove, serial line, parser |
| `Gestures` | what a wearer may rely on: the abstract gesture, with its own idea of palms and directions |
| `TwoWire` | the I2C master's primitives, the interface and a sensor with registers |
| `Mpu6050` (extends `TwoWire`) | the sensor's driver: setting up and reading |
| `Console` | `printf`'s ring, its interrupt handler, the clock's alarm |
| `MCControlPipe`, `MCGestureStream`, `MCMpu6050`, `MCConsole` | inputs and definitions for TLC |
| `ControlPipeProofs` (with `Chap9`'s), `ControlTransferProofs`, `TransferRefinementProofs`, `IrqGateProofs`, `ReportPipeProofs`, `GestureStreamProofs` (with `Classifier`'s), `Mpu6050Proofs`, `ConsoleProofs` | theorems |

### ControlPipe

`pc` names the next point of the main loop at which an interrupt can matter; a
step is the code from there to the next such point. The names of the places
follow the calls: `setupEnter`, `setupRead`, `setupLength`, `setupAck`,
`setupLateAck` cut `SetupToken_Handler` at its `RaiseIRQL`s and `LowerIRQL`s,
`requestEnter` and `requestRun` are `DCP_state = 0` and the handler called from
the table, `ep1`, `ep1Load` and `ep1Store` are the test of INTR1DONE and the load
and the store of the read-modify-write of `D13FLAGS` that the main loop makes with
the gate open. A step of the handler is one `Isr_` function. `At(l)` says that the
main loop moves only when no interrupt is pending with the processor open: the
handler preempts at once.

`gate` is `closed`, `opening` or `open`. `opening` is behind the `wrctl` of
`enable_irq`, where the processor is open and `INT_Enabled` still 0 (`OpenGate` is
the store that sets it). An interrupt that was pending behind the closed gate is
taken there, and then `usb_isr`'s own `enable_irq`, or the `LowerIRQL` inside
`Isr_BusReset`, finds `INT_Enabled` 0 and opens the processor inside the handler.
What the handler still has to do comes behind: `At_IRQL1 = 0` (`ISR.c:79`), or the
last assignments of `Isr_BusReset`, each a load, a mask and a store of all of
`D13FLAGS` (objdump 4938-4944, 4966-4980). `reopened` is the stack of the
statements at which such handlers go on, the innermost first; `snap` is the word
that a load has taken and a store will bring back (`IsrLoad`, `IsrStore`; the main
loop's `Ep1Load`, `Ep1Store`). A handler nested between the two has its change of
`DCP_state`, `suspend`, the configuration value or the wakeup bit undone, and
`host.undone` remembers it for the transfer under way. A handler that finds the
gate open finishes in one go: its `disable_irq` has read a status with the
processor closed, and that is what its `enable_irq` writes back.

`chip` and `host` are external. What the code shows of the ISP1362:

- reading the interrupt register clears its device sources; endpoint sources
  stay until the endpoint's status is read (`ISR.c` reads the one and then the
  other);
- reading the status of EP0 OUT also clears the mark (OVWR) that a SETUP was
  overwritten, which `Hal4D13_IsSetupPktInvalid` looks at later;
- until a SETUP is acknowledged, validating EP0 IN and clearing EP0 OUT have no
  effect; a SETUP flushes EP0 and lifts its halts;
- endpoint 1 has two buffers and is configured once, at the start.

`SetupRead` takes eight bytes or more for a SETUP, as
`Hal4D13_ReadEndpointWOClearBuffer` cuts what is longer to eight; bytes that are
none are any of the requests.

Left out: logging, LEDs, the DMA and SOF interrupts (never enabled), the branch
on `RESET_BITS` (nothing sets it to 1), the bytes of descriptors and data.
`printf` in the handler costs time and no state.

### IrqGate

`ControlPipe` keeps of the gate what its properties need: the `wrctl` of
`enable_irq`, which opens the processor, apart from the store of `INT_Enabled`.
That `disable_irq` closes it in one step, and that no nesting loses it, is
`IrqGate`'s subject: `frame[1]` is the main loop, the others are nested handlers, each in
the middle of the read, the test or the write it was interrupted in. The
processor clears its enable bit at an interrupt and restores it at the return.

### ReportPipe

The same main loop, the other half: `CheckEp1`, `ReadCharacter` (a character
sends the loop to its top, the last one of a stream sets `gesture`),
`BuildReport`, `SendReport`, `UpdateOld`, `CheckReset`. The control pipe is
reduced to `hid`, `done` (DCP_state is INTR1DONE) and `OverwriteDone` (a SETUP
recorded over it). `fresh` says that the loop has not been round since a bus
reset: the enumeration that follows one takes several rounds, so the host
connects only after it. A handler is one step here: that the write-back of
`ISR.c:79` may undo INTR1DONE is not represented in this module. It would have the
effect of `OverwriteDone`, and `Forgotten` would have to except it as well. `sent`
is a history variable. `StreamLength` is two:
more characters only repeat the first.

### GestureStream and Classifier

The glove's loop is `PressDown`, `Sample`, `Release` (which prints the whole
stream), `Touch` for the fingers that print noise. The parser's if-chain is one
action per branch (`StartStream`, `EndCount`, `EndInit`, `EndSample`,
`EndStream`, `Buffer`, `Ignore`); the guard of each is its condition and the
negation of the earlier ones. A numeral is one character, with its digits
counted where the code counts places. `p.buffer` holds what `atoi` will make of
the characters in `buffer`, moved on by each of them (`Scan`); `dirty` says that
an older number may still stand behind the new one, and `atoi` then has two
outcomes. `Stream` gives what a press prints place by place: three characters to
a number, between a `C` and an `E`.
The parser's arrays are not kept: an element is used in the step that stores
it. `Quotient` is C's division, and for a divisor of zero what the division
routine of this build leaves. A lost character is taken from the head of the
line, which is as good as anywhere, since the line is read in order.

`Gestures` does not use the classifier's tables: it says which way a palm may be
said to face, turns the speed into the wearer's frame, and allows every
direction that is nobody's loser. `KeepsPromise` is `GestureStream` implementing
it, fairness included: every press is turned, in order, unless its own end was
lost.

### TwoWire and Mpu6050

`todo` is what is left of the driver's call, as primitives. A primitive gives the
interface a command (`Issue`), polls (`Poll`), and goes on when the condition
holds or the counter is zero. `TWCR` and `Load` say what a command given while
another is under way does: it is lost, or takes the place of a START or STOP
that is still waiting. The wires may die (`Die`) and come back (`Revive`), the
sensor may refuse a byte (`Refuse`). While the bus works a byte ends long before
a hundred polls, so `Poll` counts only what the bus is not about to end.
`mpu6050_init` is its list of settings; `BeginBits` and `Rewrite` are the two
halves of `mpu6050_writeBits` and `mpu6050_writeBit`; `GetRawData` is the main
loop's reading. `calm` and `before` are history.

### Console

`Write`, `Space`, `Copy`, `Advance`, `Kick`, `WaitForSpace` cut the write function
where an interrupt can matter. The handlers (`altera_avalon_jtag_uart_irq`,
`Tick`, `UsbIsr`) are single steps that need the gate open. Characters are
numbered in the order in which they are put into the ring, which is all that the
properties tell apart. `UsbIsr` is the prints of `usb_isr`, which has closed the
gate.

## 3. Runs

| Run | Question | Bounds | Result |
|---|---|---|---|
| `wild` | Do the shared counters and bits survive any order, is endpoint 1 ever written to when full? | 6 requests, 2 SETUPs, 1 abandonment, 1 bus reset, 3 reports, failures; 2 reopened handlers | holds, 835 640 states |
| `patient` | Does the pipe implement the abstract transfer, bring exactly the answer, and end what the write-back has not undone? | 11 requests, 3 transfers, 1 suspend or resume; 2 reopened handlers | holds, 505 721 |
| `enumeration` | One device state, and the right one, for an orderly host? Do data find their counters under a resume? | 4 SETUPs of 9 requests, 1 abandoned read, 1 suspend or resume; 2 reopened handlers; `OrderlySpec` | holds, 872 119 |
| `recovery` | Does a calm transfer end, whatever came before it? | 4 requests, 3 SETUPs, 1 abandonment, 1 bus reset, 1 report; 2 reopened handlers | holds, 1 310 860 |
| `irq_gate` | Does the gate exclude, and is it never lost? | four nested handlers | holds |
| `report` | Do gestures reach the host, are keys released, does ALT outlive TAB, is `old_report` what was sent, can the keyboard fall silent? | 4 streams, 1 SETUP, 2 bus resets | holds, 11 172 |
| `stream` | Is every movement the gesture the wearer made? | 5 ways to hold the palm, 6 samples, up to 2 in a press; noise between | holds, 13 526 |
| `stream_lossy` | How far does a lost character reach, and does a whole stream always fit? | 3 presses, 2 losses anywhere | holds, 90 000 |
| `glove` | Is the sensor set up and read as meant over a bus that fails? | all six settings and every reading; a fault in the set-up or two in readings | holds, 614 972 |
| `console` | Do characters leave in order, does anything stay behind, does a write end? | messages of 3 characters over a ring of 3 and a FIFO of 2, a clock of 8 values | holds, 592 760 |
| `change_sent`, `start_result` | see 4 | | violated |

Why the bounds are enough. Two SETUPs and one abandonment make every pair of
transfers that can meet; a third in `recovery` is the calm one after the pair.
The product string is the one descriptor of two packets, so `GetProduct` is the
one request with a packet between two interrupts; the others are one each of
the ways a handler answers (nothing, a single packet, a burst, a stall, data
first). Four SETUPs take a device through all its states and back. Two reopened handlers
(`MaxReopened`) are what a lost write takes, one between its load and its store and
one that has done with another statement; the handler whose write is lost need not
reopen anything. At the bound a pending interrupt waits until `INT_Enabled` is set.
A suspend or resume is the handler that reopens the gate without touching
`DCP_state`: `patient` and `enumeration` have one, `wild` and `recovery` reopen it
by resets, completions and the endpoint's own interrupts. The invariants of `wild`
are proved for any of these bounds. Four nested
handlers put one in each of the windows of the two functions at the same time.
Three reports are one more than endpoint 1 holds. Four streams give a gesture
behind a gesture behind a gesture, and let ALT be held over two TABs and
released.

In `stream` each way to hold the palm meets each direction, a tie of two axes
and a speed on each side of the threshold, alone and in sums of two samples. In
`stream_lossy` the second loss may hit the press that the first has damaged or
the next, and the third press shows that the damage has gone. Three losses are
outside the bound on purpose: with three in one press `countStart` and
`initStart` can both be left set, no newline ends anything any more, and the
parser is stuck for good.

In `glove` a wait has one poll: more only repeat it. A fault in the set-up can
be any of a dead bus and a refused byte at any byte of any setting; the later
settings and the readings then meet what it left behind. In `console` the ring
wraps within a message, a message does not fit into it, and the clock wraps
between two alarms.

`CheckReset` and `SendReport` of `ControlPipe` leave open whether a report has
changed, since only its presence in endpoint 1 matters there.

Fairness. The processor runs (`WF(MainStep)`, and `WF(OpenGate)` for the store behind
the `wrctl`), the interrupt line is level
triggered so that a pending interrupt is taken (`WF(IsrStep)`), a host goes on
with the transfer it has begun and polls endpoint 1 (`WF(HostMoves)`,
`WF(HostPoll)`). Nothing makes a host begin a transfer, give one up, reset the
bus or suspend it; nothing makes a glove move. In `GestureStream` only the main
loop is fair (`WF(ReadCharacter)`): it comes round whether the wearer lets go of
the button or not. In `Mpu6050` the AVR's program runs and a bus that works
carries what it is given; a dead one need never come back. In `Console` the main
loop runs and, with the gate open, the interrupts of the UART and of the clock
are taken; the host owes nothing.

Assumptions on the environment that a run makes, and what happens without:

- `wild`, `patient`, `enumeration`, `recovery`: an interrupt that is pending when a
  handler reopens the processor is taken there at once, before `alt_irq_handler`
  comes to read `ipending` again.
- `patient`: its requests are answered (`PatientRequests` has none of the class
  requests that send nothing) and `Proper`, that is, the host asks for two bytes of
  a status and does not read with `SetInterface`. `Ends` excepts a transfer for
  which a store of `D13FLAGS` has undone a transition (`host.undone`). Such a
  transfer does hang: the status stage of one transfer interrupts the main loop at
  the `wrctl` of `enable_irq`, its handler reopens the gate and loads `D13FLAGS`,
  the next SETUP is served there, and the store removes its SETUPPROC; or a RESUME
  does the same to the data of a write. `ImplementsTransfer` is the safety half:
  what such a host has seen is right, it only sees no more.
- `enumeration`: the host keeps the order of chapter 9 (`Orderly`). It sends
  what fits the state of the device at that moment: no `SetConfiguration` to a
  device in the default state, no `SetAddress` to a configured one. Without it
  two state bits can be set at once. It gives up nothing but the reading of a
  descriptor there is. A read that is refused, given up just before it is
  served, halts endpoint 0 under the SETUP that has replaced it; the host takes
  the halt for the answer to that SETUP, sends another, and the two are served
  in a device neither was meant for. There are no bus resets and no keyboard
  reports: INTR1DONE and an interrupt of EP0 IN in one entry of `usb_isr` make
  the handler stall, and the data of a write are then taken for a SETUP.
- `recovery`: the last transfer begins with nothing else under way (`Calm`) and
  has a handler that answers (`Answered`; `HID_Get_Idle`, `HID_Get_Protocol`,
  `HID_Set_Report` and `HID_Set_Idle` send nothing). `Calm` rules out a handler or
  a `D13FLAGS` on its way to be stored, and with it the SETUPPROC that the store of
  INTR1DONE's clearing (objdump 6617) or of `ISR.c:79` loses, and the second note
  of a `SetInterface` (`CHAP_9.c:866`) over a newer SETUP: those transfers do not
  end. It says that the transfer ends, not how: a bus reset that
  `Isr_Ep00TxDone` has dropped (`ISR.c:191`) leaves a device with its old address,
  to which this host still talks and a real one would not.
- `report`: a stream begins when the report before it is settled (`SlowGlove`); a
  stream lasts much longer than a poll. Without it changes are dropped
  (`change_sent`), and the same gesture made twice between the completion and
  the next report leaves its key down. Reports succeed (`Ep1Results`), and the
  liveness properties give up when a SETUP comes between the completion of a
  report and the test of INTR1DONE (`Forgotten`): `bufferAvailable` then stays
  FALSE and the keyboard is silent until a bus reset.
- `stream`, `stream_lossy`: the glove prints only when the parser is at most
  `MaxLag` characters behind; a stream takes far longer to press than to read.
- `glove`: `MeasurementExact` and `SettingExact` are about calls that begin with
  the bus at rest and meet no fault; `ReadingChangesNothing` about readings that
  begin with the bus at rest. A faulty call in the set-up does leave a wrong
  setting, and nothing reports it.
- `console`: `WritesEnd` excepts a wait behind a closed gate, which the code does
  not survive: the main loop prints in places with the gate closed, and `usb_isr`
  always does, and what they then wait for are handlers. `SentInOrder` excepts a
  message of `usb_isr` between the main loop's copy of `tx_in` and its store.

Deadlock is checked except where the system may stop: in `stream`,
`stream_lossy`, `glove` and `console` the bounds of the environment run out and
nothing is left to do.

## 4. Where the code and what it says differ

- `change_sent`. "If the report has changed send it" (objdump 7327):
  `old_report` follows `new_report` although nothing was sent.
- `start_result`. "return 0 = device accessible, 1= failed to access device"
  (`i2cmaster.c:55`): when a wait runs out `i2c_start` returns 0, the same as for
  a device that answered.

Four more show in the model without a run of their own: the assignment
`At_IRQL1 = 0` behind `enable_irq` (`ISR.c:79`) undoes what a handler nested in it
has made of `DCP_state`, and the transfer hangs (`host.undone`); a SETUP that marks the
request in hand as aborted between the test of `Abort` and the closing of the
gate is served all the same (objdump 6591, against `BASICTYP.h:133`); EP0 OUT and
EP1 in one entry of `usb_isr` leave INTR1DONE, and the SETUP is lost (`ISR.c:235`);
`HID_Set_Idle` sends no status packet (`HID.c:45`).

## 5. Proofs

All for any values of the constants, from the assumptions named in the modules
(`RequestsAssumption`: a read asks for something; `BoundsAssumption`,
`TransferAssumption`, `DepthAssumption`, `ReportAssumption`, `BusAssumption`,
`ResetsAssumption`: types; `StreamAssumption`: types, the ranges of an `int16_t`, and
room for a sample in the parser's arrays; `AddressAssumption`: the sensor's address on the bus
is above every register a reading can reach; `ConsoleAssumption`: the ring holds
a character, the FIFO more than its threshold, the clock's range two seconds).

- `ControlPipeProofs!DeviceRequestSound`: a case per handler; what a handler
  answers is an answer, and the device it leaves is in some state if the device
  it got was.
- `ControlPipeProofs`: `TypeCorrect`, `PacketsStayInside`, `DataOutIsReady`,
  `AnswersAreAccounted`, `AlwaysSomeDeviceState`. The properties are not
  inductive: the counters are written outside the gate, the request is replaced
  and the device reset while a burst is under way, and a store may bring back a
  `DCP_state` of before. `IInv` therefore says of `DCP_state` and of every value
  about to be stored (`Held`) what `DCP_state` promises of the counters.
  `WriteBack` says where a store can be under way: one at a time, with the gate
  open; while `DCP_state` is DATAIN or DATAOUT, of the same value or of IDLE. `Quiet`: where the request in hand is about to be replaced or
  answered, none of the states that speak of the counters is held. `Lengths` and
  `Noted`: which of the counters and replies are set where. DATAOUT is the one
  state that can be brought back over counters that have moved. `Buffer` and `Dry`
  show that this is harmless: data move the counters only by leaving the buffer,
  and no more come before the next SETUP has been acknowledged, behind the write
  of both counters. Each action is one lemma, each part of the invariant one step
  of it.
- `ControlPipeProofs!Endpoint1NotOverrun`. A report that lies in the chip, the
  completion that is on its way (in the chip, in `ist`, as INTR1DONE, or already
  behind the load of `D13FLAGS`) and `bufferAvailable` are three forms of one
  place: `Slots` says that of a connected device they are together at most two. A
  device that has been reset gives the place away unasked; then endpoint 1 holds
  one report at most, and none when the next is written, and a completion on top
  of it is the last one, about to be taken.
- `ControlPipeProofs!OneStateForOrderlyHost`, `ConfigurationAgreesForOrderlyHost`,
  from the hypothesis `Enumerating` (no bus resets, no reports) for every
  `OrderlySpec`. That a request fits the device is known when it is sent, and it
  is served much later. `OrderInv` carries it there: a SETUP that has not been
  read is the host's last one, whole and unacknowledged, and fits the device as
  it still is (`Whole`); a request that has been read and not yet served is the
  host's current one, and the host has seen nothing of its answer (`Alone`), or
  it is the reading of a descriptor, which changes nothing (`Readable`).
- `TransferRefinementProofs!PipeImplementsTransfer` and `PipeReadsAreExact`, from
  the hypothesis `Patient`: a host that gives nothing up, without resets and
  reports, and whose requests are `Proper` (it asks for two bytes of a status,
  and does not read with `SetInterface`; for the others the code's answer is not
  what chapter 9 says). Every step of the pipe is a step of `ControlTransfer` or
  none. `TInv` follows a transfer through the firmware, one predicate per stage:
  no transfer, a SETUP in the chip, one taken by the main loop, data awaited, a
  request in hand, packets being sent, the answer complete, and two in which a
  store has undone that a SETUP or the data of a write have come (`SetupLost`,
  `DataLost`) and nothing happens any more. What is left over
  from the transfer before, an IN interrupt or a descriptor still open, is part
  of each stage it may reach into. The exactness of the reads is then that of
  `ControlTransfer`.
- `IrqGateProofs`: `GateExcludes` and `MainNeverLockedOut` for any depth of
  nesting. The invariant says of every suspended frame in which window it was
  interrupted, and that the bit saved in `status` and in `context` is set
  whenever somebody will still write it back.
- `ControlTransferProofs`: `ReadsAreExact`; while data are left, what has come
  is full packets only, never more than the answer.
- `ReportPipeProofs`: `NeverJammed` (reports succeed). `ResetSeen` strengthens
  `NotJammed`: a loop that has been round since a reset has freed the buffer.
  `SlowGestureIsSent`: with a glove that waits, `old_report` is what was sent; the
  invariant says at each point of the loop what the report being built has to do
  with the one last written.
- `GestureStreamProofs!MovementIsMeant`: for all integers, the movement the code
  finds is one the wearer may be said to have made, by `Gestures`' definition. The
  four tables are compared with one rotation, a case per way to hold the palm.
- `GestureStreamProofs!GestureStreamTypes`, for any losses. It needs that what is
  printed fits an `int16_t`, as the glove casts it, so that five places hold its
  digits (`StreamAssumption`).
- `GestureStreamProofs!StreamsFit` and `StreamKeepsPromise`, for presses of any
  number and length. `Unread` labels the characters in the line with marks (press,
  number, part of the number), each leading to the next, from the mark `m` of the
  first one to the end of the last press. `IInv` says where the parser has to be at
  `m`, in four parts:
  - `Exact`: in a press nothing was lost from, and with nothing lost from the one
    before it, the parser is `InStep`: its flags and counters are those of the
    number `m` is in, the numbers read so far are the ones printed, and the sums
    are `Running`. The parser adds the speed once a sample; `Gestures` counts
    sample `i` of `n` for itself and all behind it. What relates them after `i`
    samples is that the sum and `n - i` times the speed are the total so far.
  - `Clean`: outside a stream the flags, counters and sums are those of the start,
    and a stream that is being read there has lost its `C`.
  - `Slack`: while the parser waits for newlines (four for the count and the
    accelerations at rest) there are as many to come in the press, and one more for
    each character that may still be lost. It needs `MaxLost <= 2`: the shortest
    stream has six newlines. It is what makes every `E` find the parser past them.
  - `Between`: behind a press that lost nothing the parser is outside a stream.

  `StreamsFit` is for streams nothing was lost from and needs no bound on the
  losses to come. `StreamKeepsPromise` has the hypothesis `MaxLost <= 2`, and says
  that each step is `Press`, `Lose`, `Miss`, `Turn` or nothing of `Gestures`: the
  loss of an `E` is `Miss`, an `E` that is read is `Turn`, and in a press read
  whole `InStep` gives the total that `MovementIsMeant` is applied to. With three
  losses in one press the promise is broken, as the bounds of `stream_lossy` say.
  That a sum over the samples exists and is an integer is shown from the
  well-ordering of the naturals: the first place without it has one before it.
- `Mpu6050Proofs!ReadingIsHarmless`. A START that is lost leaves the sensor
  expecting a register number, and the bytes of the reading are then written.
  What saves the settings is that the number is that of the first measurement, 59,
  or the sensor's own address, and that every primitive sends one byte at most:
  `ReadingInv` bounds the sensor's pointer by the primitives left, so that it
  stays below 107, the next configuration register.
- `Mpu6050Proofs`: `DriverTypeCorrect`, `SettingsAreExact`, `MeasurementsAreExact`.
  `DeepInv` has two layers. The shape of every call, faults or not: which
  primitives are left, and that what was read has the length that belongs to the
  place. And for a call that has met no fault: where the sensor stands, that its
  pointer has advanced with the bytes, that each byte read is that of its
  register, and that the byte about to be written is the register with its own
  bits changed and no others. That two bytes give back the word they were cut
  from, sign included, is a lemma about integers.
- `ConsoleProofs`: `AlarmOutlivesWrap`: the distance to the alarm, modulo the
  clock's range, is one less at every tick and a second again when it fires.
  `NobodyStranded`: the handler clears the enable bit only with room left in the
  FIFO, and then it has taken all there was, so the ring's ends meet.
  `CharactersInOrder`: unless `usb_isr` has printed into a message (`mixed`), the
  place that lies k ahead of `tx_out` holds the k-th character after the last one
  sent (`Holds`), and the run the writer has measured stays free while the
  handler moves `tx_out` under it (`Reserved`).

Only model-checked:

- liveness, which is beyond the prover: `Recovers`, `Ends`, `KeyReleased`,
  `GestureReachesHost`, `AltOutlivesTab`, `CallsEnd`, `WritesEnd`, and the
  liveness half of `KeepsPromise`, whose safety half is proved for at most two
  losses.

Every invariant and every action property the runs check is proved, and so is the
safety property `ImplementsTransfer`.

## 6. Not modelled

- Floating point: `mpu6050_getConvData`, `mpu6050_getNextData` and the glove's
  conversion to thousandths. What the stream carries are integers; how they
  follow from raw data is arithmetic on doubles that TLC cannot do.
- Writing past an array: the parser indexes `buffer` and the sample arrays
  without a bound. `StreamFits` says when it stays inside; what is overwritten
  when it does not is up to the stack of the build.
- The read half of the JTAG UART driver, alarms that stop, `i2c_start_wait`,
  `mpu6050_readBits`, `mpu6050_testConnection`, `mpu6050_setSleepEnabled` and the
  attitude code: nothing calls them, or they are compiled out.
- The USB host controller's drivers and mouse driver, the system ID, the HAL's
  start-up, file layer, flash and DMA lists, `alt_log_printf`, the C library's
  hooks, `alt_irq_handler`'s dispatch: third-party code that this program links
  and either does not call or calls in straight lines. They are most of the
  lines of the repository.
- The chip access functions bit by bit: their effect is in `ControlPipe`; their
  register numbers and delays have no state.
- `ControlPipe` and `ReportPipe` together on one `DCP_state`: each models what the
  other does to it as an action of its environment (`CheckEp1`, `SendReport`
  there, `OverwriteDone`, `Connect` here). The product is too large for TLC with
  bounds at which both halves do something.
- Contents of descriptors, LEDs, wording of what is printed, the Qsys design.
