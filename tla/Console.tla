------------------------------ MODULE Console ------------------------------
(***************************************************************************)
(* The way of a printf to the host: the write function of the JTAG UART    *)
(* driver and its interrupt handler share a ring of characters and the     *)
(* interrupt enable bit; an alarm of the system clock looks every second   *)
(* whether the host is there, so that a writer need not wait for ever.     *)
(* The main loop prints with the interrupt gate open or closed, and        *)
(* usb_isr prints behind a closed one.  Characters are numbered in the     *)
(* order in which they are put into the ring.                              *)
(*                                                                         *)
(* Definitions marked "Mistaken" are plausible errors in those that follow *)
(* them.                                                                   *)
(***************************************************************************)
EXTENDS Integers

CONSTANTS
  BUF_LEN,         \* 2048
  DEPTH,           \* JTAG_UART_0_WRITE_DEPTH: 64
  THRESHOLD,       \* JTAG_UART_0_WRITE_THRESHOLD: 8
  TIMEOUT,         \* ALTERA_AVALON_JTAG_UART_DEFAULT_TIMEOUT: 10
  TICKS,           \* alt_ticks_per_second: 1000
  MOD,             \* values of _alt_nticks and of an alarm's time: 2^32
  Messages,        \* lengths of what is printed
  MaxInterrupts    \* bound: messages of usb_isr

ASSUME ConsoleAssumption ==
  /\ {BUF_LEN, DEPTH, THRESHOLD, TIMEOUT, TICKS, MOD, MaxInterrupts} \subseteq Nat
  /\ BUF_LEN > 1 /\ THRESHOLD < DEPTH /\ TIMEOUT > 0
  /\ TICKS > 0 /\ 2 * TICKS < MOD
  /\ Messages \subseteq Nat \ {0}

VARIABLES
  tx_buf, tx_in, tx_out,
  WE,              \* the write bit of irq_enable and of the control register
  host_inactive,
  nticks,
  alarm,           \* [time, rollover]
  w,               \* the main loop's write: [pc, count, in, out, n]
  gate,            \* the processor's interrupt enable bit
  hung,            \* usb_isr is in a wait of its write
  interrupts,      \* messages of usb_isr so far
  fifo,            \* characters in the hardware's
  AC,              \*   and its activity bit
  written, sent,   \* history: numbers of the next character to be written, to be sent
  mixed, broken    \*   usb_isr printed in the middle of a write; a wrong character was sent

driver == <<tx_buf, tx_in, tx_out, WE>>
clock  == <<host_inactive, nticks, alarm>>
record == <<written, sent, mixed, broken>>
vars   == <<driver, clock, w, gate, hung, interrupts, fifo, AC, record>>

\* A bound: numbers are used again when no character with them is left.
NUMBERS == 2 * BUF_LEN

\* What is left in a place whose character has been sent, or is no longer told from others.
Old == NUMBERS

\* Characters are numbered until usb_isr prints in the middle of a write.
Number(k) == IF mixed' THEN Old ELSE k % NUMBERS

Idle == [pc |-> "idle", count |-> 0, in |-> 0, out |-> 0, n |-> 0]

-----------------------------------------------------------------------------
(* altera_avalon_jtag_uart_write, called by the main loop. *)

Write(count) ==
  /\ w.pc = "idle"
  /\ w' = [Idle EXCEPT !.pc = "space", !.count = count]
  /\ gate' \in BOOLEAN
  /\ UNCHANGED <<driver, clock, hung, interrupts, fifo, AC, record>>

\* Mistaken: a ring that is written up to tx_out looks empty.
RunWithoutGap(in, out) == IF in < out THEN out - in ELSE BUF_LEN - in

\* The characters that can be copied in one run; one place always stays empty.
Run(in, out) ==
  IF in < out THEN out - 1 - in ELSE IF out > 0 THEN BUF_LEN - in ELSE BUF_LEN - 1 - in

Least(a, b) == IF a < b THEN a ELSE b

Space ==
  LET n == Least(Run(tx_in, tx_out), w.count)
  IN  /\ w.pc = "space"
      /\ w' = IF n > 0 THEN [w EXCEPT !.in = tx_in, !.n = n, !.pc = "copy"]
                        ELSE [w EXCEPT !.out = tx_out, !.pc = "kick"]
      /\ UNCHANGED <<driver, clock, gate, hung, interrupts, fifo, AC, record>>

\* The ring with the next n numbers in the places behind place in.
Copied(in, n) ==
  [i \in 0..BUF_LEN - 1 |-> IF i \in in..in + n - 1 THEN Number(written + i - in) ELSE tx_buf[i]]

Copy ==
  /\ w.pc = "copy"
  /\ UNCHANGED mixed
  /\ tx_buf' = Copied(w.in, w.n)
  /\ w' = [w EXCEPT !.pc = "advance", !.count = @ - w.n]
  /\ UNCHANGED <<tx_in, tx_out, WE, clock, gate, hung, interrupts, fifo, AC, written, sent, broken>>

Advance ==
  /\ w.pc = "advance"
  /\ UNCHANGED mixed
  /\ tx_in' = (w.in + w.n) % BUF_LEN
  /\ written' = Number(written + w.n)
  /\ w' = [Idle EXCEPT !.count = w.count, !.pc = IF w.count > 0 THEN "space" ELSE "kick"]
  /\ UNCHANGED <<tx_buf, tx_out, WE, clock, gate, hung, interrupts, fifo, AC, sent, broken>>

Return == w' = Idle /\ gate' = TRUE

Kick ==
  /\ w.pc = "kick"
  /\ WE' = TRUE
  /\ IF w.count > 0 THEN w' = [w EXCEPT !.pc = "wait"] /\ UNCHANGED gate ELSE Return
  /\ UNCHANGED <<tx_buf, tx_in, tx_out, clock, hung, interrupts, fifo, AC, record>>

\* Mistaken: the writer waits for the handler alone.
WaitForSpaceOnly ==
  /\ w.pc = "wait" /\ w.out # tx_out
  /\ w' = [w EXCEPT !.pc = "space"]
  /\ UNCHANGED <<driver, clock, gate, hung, interrupts, fifo, AC, record>>

\* The ring is full: until the handler has sent something, or the host is found absent; what
\* is left of the message is then given up (-EIO).
WaitForSpace ==
  /\ w.pc = "wait" /\ (w.out # tx_out \/ host_inactive >= TIMEOUT)
  /\ IF w.out = tx_out THEN Return
     ELSE w' = [Idle EXCEPT !.count = w.count, !.pc = "space"] /\ UNCHANGED gate
  /\ UNCHANGED <<driver, clock, hung, interrupts, fifo, AC, record>>

Main == Space \/ Copy \/ Advance \/ Kick \/ WaitForSpace

-----------------------------------------------------------------------------
(* Interrupt handlers; each runs with the gate closed. *)

Pending == (tx_in - tx_out) % BUF_LEN

\* The handler's write, as far as it gets: nothing changes under it.
UsbIsr(count) ==
  LET n     == Least(count, BUF_LEN - 1 - Pending)
      first == Least(n, BUF_LEN - tx_in)
  IN  /\ gate
      /\ interrupts < MaxInterrupts /\ interrupts' = interrupts + 1
      /\ mixed' = (mixed \/ w.pc \in {"copy", "advance"})
      /\ tx_buf' = [i \in 0..BUF_LEN - 1 |->
                      IF mixed' \/ (i - tx_in) % BUF_LEN < n
                        THEN Number(written + ((i - tx_in) % BUF_LEN)) ELSE tx_buf[i]]
      /\ tx_in' = (tx_in + n) % BUF_LEN
      /\ written' = Number(written + n)
      /\ WE' = TRUE
      /\ hung' = (n < count /\ host_inactive < TIMEOUT)
      /\ UNCHANGED <<tx_out, clock, w, gate, fifo, AC, sent, broken>>

\* The UART asks for characters when THRESHOLD of them, or fewer, are left in its FIFO.
WriteIrq == WE /\ fifo <= THRESHOLD /\ gate

\* n characters go from the ring to the hardware; the bit is cleared if there is room for more.
Drained(n) ==
  LET place(i) == (tx_out + i) % BUF_LEN
  IN  /\ fifo' = fifo + n
      /\ tx_out' = place(n)
      /\ tx_buf' = [p \in DOMAIN tx_buf |-> IF \E i \in 0..n - 1 : p = place(i) THEN Old ELSE tx_buf[p]]
      /\ sent' = Number(sent + n)
      /\ broken' = (broken \/ \E i \in 0..n - 1 : tx_buf[place(i)] # Number(sent + i))

\* Mistaken: the bit is cleared although there are characters left.
IrqClearsAlways ==
  LET n == Least(DEPTH - fifo, Pending)
  IN  /\ WriteIrq
      /\ UNCHANGED mixed
      /\ Drained(n)
      /\ WE' = FALSE
      /\ UNCHANGED <<tx_in, clock, w, gate, hung, interrupts, AC, written>>

altera_avalon_jtag_uart_irq ==
  LET n == Least(DEPTH - fifo, Pending)
  IN  /\ WriteIrq
      /\ UNCHANGED mixed
      /\ Drained(n)
      /\ WE' = (fifo' = DEPTH)
      /\ UNCHANGED <<tx_in, clock, w, gate, hung, interrupts, AC, written>>

\* altera_avalon_jtag_uart_timeout, the alarm's callback.
HostCheck ==
  IF AC THEN host_inactive' = 0 /\ AC' = FALSE
        ELSE host_inactive' = Least(host_inactive + 1, TIMEOUT) /\ AC' = AC

\* Mistaken: the alarm does not know that its time is one of the next round of the counter.
TimedWithoutRollover(now, last, rollover) == [time |-> (last + TICKS) % MOD, rollover |-> FALSE]

\* The alarm's next time, and whether the counter must go through zero before it.
Timed(now, last, rollover) ==
  LET time == (last + TICKS) % MOD
  IN  [time |-> time, rollover |-> rollover \/ time < now]

\* alt_tick, with the one alarm there is.
Tick ==
  LET now      == (nticks + 1) % MOD
      rollover == alarm.rollover /\ now # 0
  IN  /\ gate
      /\ nticks' = now
      /\ IF alarm.time <= now /\ ~rollover
           THEN HostCheck /\ alarm' = Timed(now, alarm.time, rollover)
           ELSE alarm' = [alarm EXCEPT !.rollover = rollover] /\ UNCHANGED <<host_inactive, AC>>
      /\ UNCHANGED <<driver, w, gate, hung, interrupts, fifo, record>>

-----------------------------------------------------------------------------
(* The host (not in this repository) *)

HostReads ==
  /\ fifo > 0
  /\ fifo' = fifo - 1 /\ AC' = TRUE
  /\ UNCHANGED <<driver, clock, w, gate, hung, interrupts, record>>

\* alt_sys_init: the clock first, then the driver with its alarm.
Init ==
  /\ tx_buf = [i \in 0..BUF_LEN - 1 |-> Old] /\ tx_in = 0 /\ tx_out = 0 /\ WE = FALSE
  /\ host_inactive = 0 /\ nticks = 0
  /\ alarm = [time |-> TICKS + 1, rollover |-> FALSE]
  /\ w = Idle /\ gate = TRUE /\ hung = FALSE /\ interrupts = 0
  /\ fifo = 0 /\ AC = FALSE
  /\ written = 0 /\ sent = 0 /\ mixed = FALSE /\ broken = FALSE

Runs(A) == ~hung /\ A

Next ==
  \/ \E count \in Messages : Runs(Write(count)) \/ Runs(UsbIsr(count))
  \/ Runs(Main)
  \/ Runs(altera_avalon_jtag_uart_irq)
  \/ Runs(Tick)
  \/ HostReads

Spec == Init /\ [][Next]_vars

\* The processor runs, and with the gate open its interrupts are taken. The host owes nothing.
FairSpec ==
  Spec /\ WF_vars(Runs(Main)) /\ WF_vars(Runs(altera_avalon_jtag_uart_irq)) /\ WF_vars(Runs(Tick))

-----------------------------------------------------------------------------
(* Properties. *)

\* Characters reach the hardware in the order in which they were written, each once and none
\* left out, while the handler drains the ring under the writer's hands; only a message of
\* usb_isr in the middle of a write of the main loop can break that.
SentInOrder == ~mixed => ~broken

\* No character is left in the ring with nobody to send it.
NoneStranded == tx_in # tx_out => WE \/ w.pc \in {"copy", "advance", "space", "kick"}

\* The alarm keeps its period when the tick counter wraps: after every tick its next time is at
\* most a second away, and the flag says whether it lies behind the wrap.
AlarmKeepsPace ==
  /\ (alarm.time - nticks) % MOD \in 1..TICKS + 1
  /\ alarm.rollover <=> alarm.time < nticks

\* A write ends, also without a host, unless its wait is behind a closed gate: the handlers it
\* waits for cannot then run.
Stuck == hung \/ (w.pc = "wait" /\ ~gate)
WritesEnd == (w.pc # "idle") ~> (w.pc = "idle" \/ Stuck)
=============================================================================
