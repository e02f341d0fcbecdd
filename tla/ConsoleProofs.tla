--------------------------- MODULE ConsoleProofs ---------------------------
(***************************************************************************)
(* Proofs about Console, for any sizes of the ring, the FIFO and the       *)
(* messages and any rate and width of the clock: the alarm that watches    *)
(* the host keeps its period when the tick counter wraps, no character is  *)
(* left in the ring with nobody to send it, and the characters leave it in *)
(* the order in which they were written.                                   *)
(***************************************************************************)
EXTENDS Console, TLAPS

Clock ==
  /\ nticks \in 0..MOD - 1
  /\ alarm \in [time: 0..MOD - 1, rollover: BOOLEAN]

IInv == Clock /\ AlarmKeepsPace

\* A sum of two values of the counter, and a difference.
LEMMA Wrapped ==
  ASSUME NEW m \in Nat, m > 0, NEW x \in Int
  PROVE  /\ 0 <= x /\ x < m => x % m = x
         /\ m <= x /\ x < 2 * m => x % m = x - m
         /\ -m <= x /\ x < 0 => x % m = x + m
  OBVIOUS

LEMMA Bounds == MOD \in Nat /\ TICKS \in Nat /\ TICKS > 0 /\ 2 * TICKS < MOD
  BY ConsoleAssumption DEF ConsoleAssumption

LEMMA ClockInit == Init => IInv
  <1> SUFFICES ASSUME Init PROVE IInv
    OBVIOUS
  <1>1. nticks = 0 /\ alarm.time = TICKS + 1 /\ alarm.rollover = FALSE
    BY DEF Init
  <1>2. Clock
    BY Bounds DEF Clock, Init
  <1>3. (alarm.time - nticks) % MOD = TICKS + 1
    BY <1>1, Bounds, Wrapped
  <1> QED BY <1>1, <1>2, <1>3, Bounds DEF IInv, AlarmKeepsPace

\* The alarm has not fired: a tick less to its time.
LEMMA Waits ==
  ASSUME NEW now \in 0..MOD - 1, NEW n \in 0..MOD - 1, NEW time \in 0..MOD - 1,
         now = (n + 1) % MOD, (time - n) % MOD \in 1..TICKS + 1, time # now
  PROVE  (time - now) % MOD \in 1..TICKS + 1
  <1>1. now = IF n = MOD - 1 THEN 0 ELSE n + 1
    BY Bounds, Wrapped
  <1>2. (time - n) % MOD = IF time >= n THEN time - n ELSE time - n + MOD
    BY Bounds, Wrapped
  <1>3. (time - now) % MOD = IF time >= now THEN time - now ELSE time - now + MOD
    BY Bounds, Wrapped
  <1> QED BY <1>1, <1>2, <1>3, Bounds

\* It has fired: a second to its next time.
LEMMA Fires ==
  ASSUME NEW now \in 0..MOD - 1
  PROVE  LET time == (now + TICKS) % MOD
         IN  time \in 0..MOD - 1 /\ (time - now) % MOD = TICKS
  <1> DEFINE time == (now + TICKS) % MOD
  <1>1. time = IF now + TICKS < MOD THEN now + TICKS ELSE now + TICKS - MOD
    BY Bounds, Wrapped
  <1>2. time \in 0..MOD - 1 /\ time - now = (IF now + TICKS < MOD THEN TICKS ELSE TICKS - MOD)
    BY <1>1, Bounds
  <1> HIDE DEF time
  <1>3. (time - now) % MOD = TICKS
    BY <1>2, Bounds, Wrapped
  <1> QED BY <1>2, <1>3 DEF time

LEMMA ClockTick ==
  ASSUME IInv, Tick
  PROVE  IInv'
  <1> DEFINE now == (nticks + 1) % MOD
             time == alarm.time
             rollover == alarm.rollover /\ now # 0
  <1>1. /\ nticks \in 0..MOD - 1 /\ time \in 0..MOD - 1 /\ alarm.rollover \in BOOLEAN
        /\ (time - nticks) % MOD \in 1..TICKS + 1 /\ (alarm.rollover <=> time < nticks)
    BY DEF IInv, Clock, AlarmKeepsPace
  <1>2. now = (IF nticks = MOD - 1 THEN 0 ELSE nticks + 1) /\ now \in 0..MOD - 1
    BY <1>1, Bounds, Wrapped
  <1>3. time # nticks
    BY <1>1, Bounds, Wrapped
  <1>4. nticks' = now
    BY DEF Tick
  <1>5. CASE time <= now /\ ~rollover
    <2>1. time = now
      BY <1>1, <1>2, <1>3, <1>5
    <2>2. alarm' = Timed(now, time, rollover)
      BY <1>5 DEF Tick
    <2>3. alarm' = [time |-> (now + TICKS) % MOD,
                    rollover |-> rollover \/ (now + TICKS) % MOD < now]
      BY <2>1, <2>2 DEF Timed
    <2> HIDE DEF now, time, rollover
    <2>4. /\ alarm'.time = (now + TICKS) % MOD
          /\ alarm'.rollover <=> (now + TICKS) % MOD < now
          /\ alarm' \in [time: {(now + TICKS) % MOD}, rollover: BOOLEAN]
      BY <1>5, <2>3
    <2>5. alarm'.time \in 0..MOD - 1 /\ (alarm'.time - now) % MOD = TICKS
      BY <1>2, <2>4, Fires
    <2>6. alarm' \in [time: 0..MOD - 1, rollover: BOOLEAN]
      BY <2>4, <2>5
    <2> QED BY <1>2, <1>4, <2>4, <2>5, <2>6, Bounds DEF IInv, Clock, AlarmKeepsPace
  <1>6. CASE ~(time <= now /\ ~rollover)
    <2>1. time # now
      BY <1>1, <1>2, <1>3, <1>6
    <2>2. alarm' = [alarm EXCEPT !.rollover = rollover]
      BY <1>6 DEF Tick
    <2>3. /\ alarm' \in [time: 0..MOD - 1, rollover: BOOLEAN]
          /\ alarm'.time = time /\ alarm'.rollover = rollover
      BY <2>2 DEF IInv, Clock
    <2>4. (time - now) % MOD \in 1..TICKS + 1
      BY <1>1, <1>2, <2>1, Waits
    <2>5. rollover <=> time < now
      BY <1>1, <1>2, <1>3, <1>6, <2>1
    <2> QED BY <1>2, <1>4, <2>3, <2>4, <2>5 DEF IInv, Clock, AlarmKeepsPace
  <1> QED BY <1>5, <1>6

\* Nothing but the tick moves the clock or the alarm.
LEMMA ClockInductive == IInv /\ [Next]_vars => IInv'
  <1> SUFFICES ASSUME IInv, [Next]_vars PROVE IInv'
    OBVIOUS
  <1>1. CASE Tick
    BY <1>1, ClockTick
  <1>2. CASE ~Tick
    <2>1. nticks' = nticks /\ alarm' = alarm
      BY <1>2 DEF Next, Runs, Main, Write, Space, Copy, Advance, Kick, WaitForSpace, UsbIsr,
             altera_avalon_jtag_uart_irq, HostReads, clock, vars
    <2> QED BY <2>1 DEF IInv, Clock, AlarmKeepsPace
  <1> QED BY <1>1, <1>2

\* The alarm that watches the host (alt_tick) keeps its period through every wrap of the tick
\* counter, however the console and its handlers are scheduled.
THEOREM AlarmOutlivesWrap == Spec => []AlarmKeepsPace
  BY ClockInit, ClockInductive, PTL DEF Spec, IInv

-----------------------------------------------------------------------------
(* The ring.                                                               *)

Places == 0..BUF_LEN - 1

Writes ==
  [pc: {"idle", "space", "copy", "advance", "kick", "wait"}, count: Int, in: Int, out: Int, n: Int]

Ring ==
  /\ tx_in \in Places /\ tx_out \in Places
  /\ fifo \in 0..DEPTH
  /\ w \in Writes

LEMMA Sizes == BUF_LEN \in Nat /\ BUF_LEN > 1 /\ DEPTH \in Nat /\ THRESHOLD \in Nat
  BY ConsoleAssumption DEF ConsoleAssumption

LEMMA MessageLengths == Messages \subseteq Int
  BY ConsoleAssumption DEF ConsoleAssumption

LEMMA LeastInt == \A a, b \in Int : Least(a, b) \in Int /\ Least(a, b) <= a /\ Least(a, b) <= b
  BY DEF Least

LEMMA RunInt == \A in, out \in Int : Run(in, out) \in Int
  BY Sizes DEF Run

LEMMA Place == \A i \in Int : i % BUF_LEN \in Places
  BY Sizes DEF Places

LEMMA IdleType == Idle \in Writes
  <1>1. \A p \in {"idle", "space", "copy", "advance", "kick", "wait"}, a, b, c, d \in Int :
          [pc |-> p, count |-> a, in |-> b, out |-> c, n |-> d] \in Writes
    BY DEF Writes
  <1>2. 0 \in Int /\ "idle" \in {"idle", "space", "copy", "advance", "kick", "wait"}
    OBVIOUS
  <1> QED BY <1>1, <1>2, Zenon DEF Idle

LEMMA RunType ==
  ASSUME NEW x \in Writes, NEW a \in Int, NEW b \in Int
  PROVE  [x EXCEPT !.in = a, !.n = b, !.pc = "copy"] \in Writes
         /\ [x EXCEPT !.in = a, !.n = b, !.pc = "copy"].pc = "copy"
  BY DEF Writes

LEMMA FullType ==
  ASSUME NEW x \in Writes, NEW a \in Int
  PROVE  [x EXCEPT !.out = a, !.pc = "kick"] \in Writes
         /\ [x EXCEPT !.out = a, !.pc = "kick"].pc = "kick"
  BY DEF Writes

LEMMA AdvanceType ==
  ASSUME NEW x \in Writes, NEW a \in Int
  PROVE  [x EXCEPT !.pc = "advance", !.count = a] \in Writes
         /\ [x EXCEPT !.pc = "advance", !.count = a].pc = "advance"
  BY DEF Writes

LEMMA AgainType ==
  ASSUME NEW a \in Int, NEW pc \in {"space", "kick"}
  PROVE  [Idle EXCEPT !.count = a, !.pc = pc] \in Writes
         /\ [Idle EXCEPT !.count = a, !.pc = pc].pc = pc
  BY IdleType DEF Writes

LEMMA WaitType == \A x \in Writes : [x EXCEPT !.pc = "wait"] \in Writes
  BY DEF Writes

\* What the handler can take is what lies between the two ends of the ring; all of it taken,
\* the ring is empty.
LEMMA AllTaken ==
  ASSUME Ring
  PROVE  Pending \in 0..BUF_LEN - 1 /\ (tx_out + Pending) % BUF_LEN = tx_in
  <1>1. Pending = IF tx_in >= tx_out THEN tx_in - tx_out ELSE tx_in - tx_out + BUF_LEN
    BY Sizes, Wrapped DEF Pending, Ring, Places
  <1> QED BY <1>1, Sizes, Wrapped DEF Ring, Places

\* The handler's step: it clears the enable bit only when it has emptied the ring.
LEMMA Emptied ==
  ASSUME Ring, altera_avalon_jtag_uart_irq
  PROVE  Ring' /\ (tx_in' # tx_out' => WE')
  <1> DEFINE n == Least(DEPTH - fifo, Pending)
  <1>1. Pending \in Nat /\ fifo \in Nat /\ fifo <= DEPTH
    BY AllTaken, Sizes DEF Ring
  <1>2. n \in Nat /\ n <= DEPTH - fifo /\ (n = DEPTH - fifo \/ n = Pending)
    BY <1>1, Sizes DEF Least
  <1>3. fifo' = fifo + n /\ tx_out' = (tx_out + n) % BUF_LEN /\ tx_in' = tx_in /\ w' = w
        /\ WE' = (fifo' = DEPTH)
    BY DEF altera_avalon_jtag_uart_irq, Drained
  <1> HIDE DEF n
  <1>4. fifo' \in 0..DEPTH
    BY <1>1, <1>2, <1>3, Sizes
  <1>5. tx_out' \in Places
    BY <1>2, <1>3, Place DEF Ring, Places
  <1>6. n = DEPTH - fifo => fifo' = DEPTH
    BY <1>1, <1>3, Sizes
  <1>7. n = Pending => tx_out' = tx_in
    BY <1>3, AllTaken
  <1> QED BY <1>2, <1>3, <1>4, <1>5, <1>6, <1>7 DEF Ring

LEMMA RingInit == Init => Ring /\ NoneStranded
  <1> SUFFICES ASSUME Init PROVE Ring /\ NoneStranded
    OBVIOUS
  <1>1. w \in Writes
    BY IdleType DEF Init
  <1> QED BY <1>1, Sizes DEF Init, Ring, Places, NoneStranded

LEMMA RingMain ==
  ASSUME Ring, NoneStranded, Main
  PROVE  Ring' /\ NoneStranded'
  <1>0. /\ w \in Writes
        /\ w.count \in Int /\ w.in \in Int /\ w.out \in Int /\ w.n \in Int
        /\ tx_in \in Int /\ tx_out \in Int
    BY Sizes DEF Ring, Places, Writes
  <1>1. CASE Space
    <2> DEFINE k == Least(Run(tx_in, tx_out), w.count)
    <2>1. k \in Int
      BY <1>0, LeastInt, RunInt
    <2>2. w' = [w EXCEPT !.in = tx_in, !.n = k, !.pc = "copy"] \/ w' = [w EXCEPT !.out = tx_out, !.pc = "kick"]
      BY <1>1 DEF Space
    <2> HIDE DEF k
    <2>3. w' \in Writes /\ w'.pc \in {"copy", "kick"}
      <3>1. CASE w' = [w EXCEPT !.in = tx_in, !.n = k, !.pc = "copy"]
        BY <1>0, <2>1, <3>1, RunType, Zenon
      <3>2. CASE w' = [w EXCEPT !.out = tx_out, !.pc = "kick"]
        BY <1>0, <3>2, FullType, Zenon
      <3> QED BY <2>2, <3>1, <3>2
    <2> QED BY <1>1, <2>3 DEF Space, Ring, NoneStranded, driver
  <1>2. CASE Copy
    <2>1. w' = [w EXCEPT !.pc = "advance", !.count = w.count - w.n]
      BY <1>2 DEF Copy
    <2>2. w.count - w.n \in Int
      BY <1>0
    <2>3. w' \in Writes /\ w'.pc = "advance"
      BY <1>0, <2>1, <2>2, AdvanceType, Zenon
    <2> QED BY <1>2, <2>3 DEF Copy, Ring, NoneStranded
  <1>3. CASE Advance
    <2>1. PICK pc \in {"space", "kick"} : w' = [Idle EXCEPT !.count = w.count, !.pc = pc]
      BY <1>3 DEF Advance
    <2>2. w' \in Writes /\ w'.pc = pc
      BY <1>0, <2>1, AgainType, Zenon
    <2>3. w' \in Writes /\ w'.pc \in {"space", "kick"}
      BY <2>2
    <2>4. tx_in' = (w.in + w.n) % BUF_LEN
      BY <1>3 DEF Advance
    <2>5. tx_in' \in Places
      BY <1>0, <2>4, Place
    <2> QED BY <1>3, <2>3, <2>5 DEF Advance, Ring, NoneStranded
  <1>4. CASE Kick
    <2>1. w' = [w EXCEPT !.pc = "wait"] \/ w' = Idle
      BY <1>4 DEF Kick, Return
    <2>2. w' \in Writes
      BY <1>0, <2>1, IdleType, WaitType, Zenon
    <2> QED BY <1>4, <2>2 DEF Kick, Ring, NoneStranded
  <1>5. CASE WaitForSpace
    <2>1. w' = Idle \/ w' = [Idle EXCEPT !.count = w.count, !.pc = "space"]
      BY <1>5 DEF WaitForSpace, Return
    <2>2. "space" \in {"space", "kick"}
      OBVIOUS
    <2>3. w' \in Writes
      BY <1>0, <2>1, <2>2, IdleType, AgainType, Zenon
    <2>4. tx_in # tx_out => WE
      BY <1>5 DEF WaitForSpace, NoneStranded
    <2> QED BY <1>5, <2>3, <2>4 DEF WaitForSpace, Ring, NoneStranded, driver
  <1> QED BY <1>1, <1>2, <1>3, <1>4, <1>5 DEF Main

LEMMA RingInductive == Ring /\ NoneStranded /\ [Next]_vars => Ring' /\ NoneStranded'
  <1> SUFFICES ASSUME Ring, NoneStranded, [Next]_vars PROVE Ring' /\ NoneStranded'
    OBVIOUS
  <1>1. CASE Main
    BY <1>1, RingMain
  <1>2. ASSUME NEW count \in Messages, Write(count) PROVE Ring' /\ NoneStranded'
    <2>1. w' \in Writes /\ w'.pc = "space"
      BY <1>2, MessageLengths, IdleType DEF Write, Writes
    <2> QED BY <1>2, <2>1 DEF Write, Ring, NoneStranded, driver
  <1>3. ASSUME NEW count \in Messages, UsbIsr(count) PROVE Ring' /\ NoneStranded'
    <2>1. Least(count, BUF_LEN - 1 - Pending) \in Int
      BY MessageLengths, LeastInt, AllTaken, Sizes
    <2>2. tx_in' \in Places
      BY <1>3, <2>1, Place DEF UsbIsr, Ring, Places
    <2> QED BY <1>3, <2>2 DEF UsbIsr, Ring, NoneStranded
  <1>4. CASE altera_avalon_jtag_uart_irq
    BY <1>4, Emptied DEF NoneStranded
  <1>5. CASE Tick
    BY <1>5 DEF Tick, Ring, NoneStranded, driver
  <1>6. CASE HostReads
    BY <1>6, Sizes DEF HostReads, Ring, NoneStranded, driver
  <1>7. CASE UNCHANGED vars
    BY <1>7 DEF vars, driver, Ring, NoneStranded
  <1> QED BY <1>1, <1>2, <1>3, <1>4, <1>5, <1>6, <1>7 DEF Next, Runs

\* As long as a character is in the ring, its sender is enabled or a writer is about to enable
\* it (altera_avalon_jtag_uart_irq clears the bit only behind the last one), whatever the sizes.
THEOREM NobodyStranded == Spec => []NoneStranded
  BY RingInit, RingInductive, PTL DEF Spec

-----------------------------------------------------------------------------
(* The characters.  As long as usb_isr has not printed in the middle of a  *)
(* write, the ring holds consecutive numbers from sent up to written, and  *)
(* the run that the writer copies lies in places that are free and stay    *)
(* free: the handler only moves tx_out away from it.                       *)

\* How far place a lies ahead of place b, and the number k after a.
Ahead(a, b) == IF a >= b THEN a - b ELSE a - b + BUF_LEN
Later(a, k) == IF a + k < NUMBERS THEN a + k ELSE a + k - NUMBERS

Numbered ==
  /\ ~broken
  /\ sent \in 0..NUMBERS - 1
  /\ written = Later(sent, Ahead(tx_in, tx_out))

Holds ==
  \A p \in Places : Ahead(p, tx_out) < Ahead(tx_in, tx_out)
                      => tx_buf[p] = Later(sent, Ahead(p, tx_out))

\* The run the writer has measured: whole, in free places, its numbers not yet counted.
Reserved ==
  w.pc \in {"copy", "advance"} =>
    /\ w.in = tx_in /\ w.n \in 1..BUF_LEN - 1 - Ahead(tx_in, tx_out)
    /\ w.in + w.n <= BUF_LEN
    /\ w.pc = "advance" => \A p \in w.in..w.in + w.n - 1 : tx_buf[p] = Later(written, p - w.in)

InOrder ==
  /\ DOMAIN tx_buf = Places
  /\ ~mixed => Numbered /\ Holds /\ Reserved

LEMMA AheadFacts ==
  ASSUME NEW a \in Places, NEW b \in Places
  PROVE  /\ Ahead(a, b) \in Places /\ Ahead(a, b) \in Nat /\ Ahead(a, b) <= BUF_LEN - 1
         /\ (a - b) % BUF_LEN = Ahead(a, b)
  BY Sizes, Wrapped DEF Ahead, Places

LEMMA PendingIsAhead == ASSUME Ring PROVE Pending = Ahead(tx_in, tx_out)
  BY AheadFacts DEF Pending, Ring

LEMMA LaterFacts ==
  ASSUME NEW s \in 0..NUMBERS - 1, NEW k \in 0..BUF_LEN
  PROVE  /\ Later(s, k) \in 0..NUMBERS - 1 /\ (s + k) % NUMBERS = Later(s, k)
         /\ \A j \in 0..BUF_LEN : j + k <= BUF_LEN => Later(Later(s, k), j) = Later(s, k + j)
  <1>1. NUMBERS \in Nat /\ NUMBERS = BUF_LEN + BUF_LEN /\ NUMBERS > 0
    BY Sizes DEF NUMBERS
  <1>2. (s + k) % NUMBERS = Later(s, k) /\ Later(s, k) \in 0..NUMBERS - 1
    BY <1>1, Sizes, Wrapped DEF Later
  <1>3. \A j \in 0..BUF_LEN : j + k <= BUF_LEN => Later(Later(s, k), j) = Later(s, k + j)
    BY <1>1, Sizes DEF Later
  <1> QED BY <1>2, <1>3

LEMMA Turned ==
  ASSUME NEW x \in Int, 0 <= x, x < 2 * BUF_LEN
  PROVE  x % BUF_LEN = IF x < BUF_LEN THEN x ELSE x - BUF_LEN
  BY Sizes, Wrapped

\* Place a moves n places on, away from b.
LEMMA MovesOn ==
  ASSUME NEW a \in Places, NEW b \in Places, NEW n \in 0..BUF_LEN - 1 - Ahead(a, b)
  PROVE  LET m == (a + n) % BUF_LEN
         IN  /\ m \in Places /\ Ahead(m, b) = Ahead(a, b) + n
             /\ \A p \in Places : Ahead(p, a) < n => Ahead(p, b) = Ahead(a, b) + Ahead(p, a)
             /\ \A p \in Places : Ahead(p, b) < Ahead(a, b) + n /\ ~(Ahead(p, a) < n)
                                  => Ahead(p, b) < Ahead(a, b)
  <1> DEFINE x == a + n
             m == x % BUF_LEN
  <1>1. x >= 0 /\ x < 2 * BUF_LEN /\ x \in Int
    BY Sizes DEF Ahead, Places
  <1> HIDE DEF x
  <1>2. m = IF x < BUF_LEN THEN x ELSE x - BUF_LEN
    BY <1>1, Turned
  <1> HIDE DEF m
  <1> USE DEF x
  <1>3. m \in Places /\ Ahead(m, b) = Ahead(a, b) + n
    BY <1>1, <1>2, Sizes DEF Ahead, Places
  <1>4. \A p \in Places : Ahead(p, a) < n => Ahead(p, b) = Ahead(a, b) + Ahead(p, a)
    BY Sizes DEF Ahead, Places
  <1>5. \A p \in Places : Ahead(p, b) < Ahead(a, b) + n /\ ~(Ahead(p, a) < n)
                           => Ahead(p, b) < Ahead(a, b)
    BY Sizes DEF Ahead, Places
  <1> QED BY <1>3, <1>4, <1>5 DEF m, x

\* Place b follows a by n places.
LEMMA Follows ==
  ASSUME NEW a \in Places, NEW b \in Places, NEW n \in 0..Ahead(a, b)
  PROVE  LET m == (b + n) % BUF_LEN
         IN  /\ m \in Places /\ Ahead(a, m) = Ahead(a, b) - n
             /\ n < BUF_LEN => Ahead(m, b) = n
             /\ \A p \in Places : Ahead(p, m) < Ahead(a, m) => Ahead(p, b) = Ahead(p, m) + n
  <1> DEFINE x == b + n
             m == x % BUF_LEN
  <1>1. x >= 0 /\ x < 2 * BUF_LEN /\ x \in Int
    BY Sizes DEF Ahead, Places
  <1> HIDE DEF x
  <1>2. m = IF x < BUF_LEN THEN x ELSE x - BUF_LEN
    BY <1>1, Turned
  <1> HIDE DEF m
  <1> USE DEF x
  <1>3. m \in Places /\ Ahead(a, m) = Ahead(a, b) - n
    BY <1>1, <1>2, Sizes DEF Ahead, Places
  <1>4. n < BUF_LEN => Ahead(m, b) = n
    BY <1>1, <1>2, Sizes DEF Ahead, Places
  <1>5. \A p \in Places : Ahead(p, m) < Ahead(a, m) => Ahead(p, b) = Ahead(p, m) + n
    BY <1>1, <1>2, Sizes DEF Ahead, Places
  <1> QED BY <1>3, <1>4, <1>5 DEF m, x

\* What Space measures is free and whole.
LEMMA RunFits ==
  ASSUME NEW in \in Places, NEW out \in Places
  PROVE  Run(in, out) <= BUF_LEN - 1 - Ahead(in, out) /\ in + Run(in, out) <= BUF_LEN
  BY Sizes DEF Run, Ahead, Places

LEMMA OrderInit == Init => InOrder
  <1> SUFFICES ASSUME Init PROVE InOrder
    OBVIOUS
  <1>1. DOMAIN tx_buf = Places /\ w.pc = "idle" /\ tx_in = 0 /\ tx_out = 0 /\ sent = 0
        /\ written = 0 /\ ~broken
    BY DEF Init, Places, Idle
  <1>2. Ahead(0, 0) = 0 /\ Later(0, 0) = 0 /\ 0 \in 0..NUMBERS - 1
    BY Sizes DEF Ahead, Later, NUMBERS
  <1>3. Holds
    BY <1>1, <1>2, AheadFacts, Sizes DEF Holds, Places
  <1> QED BY <1>1, <1>2, <1>3 DEF InOrder, Numbered, Reserved


\* The numbers of what is there already, and of what is put behind it.
LEMMA Numbers ==
  ASSUME Ring, Numbered, NEW k \in 0..BUF_LEN, Ahead(tx_in, tx_out) + k <= BUF_LEN
  PROVE  /\ Later(written, k) = Later(sent, Ahead(tx_in, tx_out) + k)
         /\ (written + k) % NUMBERS = Later(written, k)
  <1>1. Ahead(tx_in, tx_out) \in 0..BUF_LEN
    BY AheadFacts, Sizes DEF Ring
  <1>2. written \in 0..NUMBERS - 1 /\ sent \in 0..NUMBERS - 1
    BY <1>1, LaterFacts DEF Numbered
  <1>3. Later(Later(sent, Ahead(tx_in, tx_out)), k) = Later(sent, Ahead(tx_in, tx_out) + k)
    BY <1>1, <1>2, LaterFacts
  <1> QED BY <1>2, <1>3, LaterFacts DEF Numbered

LEMMA OrderSpace == ASSUME Ring, InOrder, Space PROVE InOrder'
  <1> DEFINE k == Least(Run(tx_in, tx_out), w.count)
  <1>1. UNCHANGED <<tx_buf, tx_in, tx_out, record>>
    BY DEF Space, driver
  <1>2. DOMAIN tx_buf' = Places /\ (~mixed' => Numbered' /\ Holds')
    BY <1>1 DEF InOrder, Numbered, Holds, record
  <1>3. tx_in \in Places /\ tx_out \in Places /\ tx_in \in Int /\ tx_out \in Int /\ w.count \in Int
        /\ Ahead(tx_in, tx_out) \in Int
    BY Sizes, AheadFacts DEF Ring, Writes, Places
  <1>4. k \in Int /\ k <= Run(tx_in, tx_out) /\ Run(tx_in, tx_out) \in Int
    BY <1>3, LeastInt, RunInt
  <1>5. k <= BUF_LEN - 1 - Ahead(tx_in, tx_out) /\ tx_in + k <= BUF_LEN
    BY <1>3, <1>4, RunFits, Sizes
  <1>6. w' = IF k > 0 THEN [w EXCEPT !.in = tx_in, !.n = k, !.pc = "copy"]
                      ELSE [w EXCEPT !.out = tx_out, !.pc = "kick"]
    BY DEF Space
  <1> HIDE DEF k
  <1>7. CASE k > 0
    <2>1. w'.in = tx_in /\ w'.n = k /\ w'.pc = "copy"
      BY <1>6, <1>7 DEF Ring, Writes
    <2>2. Reserved'
      <3>1. k \in 1..BUF_LEN - 1 - Ahead(tx_in, tx_out)
        BY <1>3, <1>4, <1>5, <1>7, Sizes
      <3> QED BY <1>1, <1>5, <2>1, <3>1 DEF Reserved
    <2> QED BY <1>2, <2>2 DEF InOrder
  <1>8. CASE ~(k > 0)
    <2>1. w'.pc = "kick"
      BY <1>6, <1>8 DEF Ring, Writes
    <2> QED BY <1>2, <2>1 DEF InOrder, Reserved
  <1> QED BY <1>7, <1>8

LEMMA OrderCopy == ASSUME Ring, InOrder, Copy PROVE InOrder'
  <1>1. UNCHANGED <<tx_in, tx_out, written, sent, mixed, broken>>
        /\ w'.pc = "advance" /\ w'.in = w.in /\ w'.n = w.n
    BY DEF Copy, Ring, Writes
  <1>2. DOMAIN tx_buf' = Places
    BY DEF Copy, Copied, Places
  <1> SUFFICES ASSUME ~mixed PROVE Numbered' /\ Holds' /\ Reserved'
    BY <1>1, <1>2 DEF InOrder
  <1>3. Numbered /\ Holds /\ Reserved
    BY DEF InOrder
  <1> DEFINE a == Ahead(tx_in, tx_out)
  <1>4. /\ w.in = tx_in /\ w.n \in 1..BUF_LEN - 1 - a /\ tx_in + w.n <= BUF_LEN
        /\ tx_in \in Places /\ tx_out \in Places /\ a \in 0..BUF_LEN - 1 /\ w.n \in Nat
    BY <1>3, AheadFacts, Sizes DEF Reserved, Copy, Ring, Places
  <1>5. Numbered'
    BY <1>1, <1>3 DEF Numbered
  <1>6. ASSUME NEW p \in Places
        PROVE  tx_buf'[p] = IF p \in tx_in..tx_in + w.n - 1
                            THEN (written + p - tx_in) % NUMBERS ELSE tx_buf[p]
    BY <1>1, <1>4 DEF Copy, Copied, Number, Places
  <1>7. Holds'
    <2> SUFFICES ASSUME NEW p \in Places, Ahead(p, tx_out) < a
                 PROVE  tx_buf'[p] = Later(sent, Ahead(p, tx_out))
      BY <1>1 DEF Holds
    <2>1. p \notin tx_in..tx_in + w.n - 1
      BY <1>4, Sizes DEF Ahead, Places
    <2>2. tx_buf'[p] = tx_buf[p]
      BY <1>6, <2>1
    <2> QED BY <1>3, <2>2 DEF Holds
  <1>8. Reserved'
    <2> SUFFICES ASSUME NEW p \in tx_in..tx_in + w.n - 1
                 PROVE  tx_buf'[p] = Later(written, p - tx_in)
      BY <1>1, <1>4 DEF Reserved
    <2>1. p \in Places /\ p - tx_in \in 0..BUF_LEN /\ a + (p - tx_in) <= BUF_LEN
          /\ written + (p - tx_in) = written + p - tx_in
      <3>1. p \in Places /\ p - tx_in \in 0..BUF_LEN /\ a + (p - tx_in) <= BUF_LEN
        BY <1>4, Sizes DEF Places
      <3>2. written \in Int
        BY <1>3, AheadFacts, LaterFacts, <1>4, Sizes DEF Numbered
      <3> QED BY <1>4, <3>1, <3>2 DEF Places
    <2>2. tx_buf'[p] = (written + (p - tx_in)) % NUMBERS
      BY <1>6, <2>1
    <2> QED BY <1>3, <2>1, <2>2, Numbers
  <1> QED BY <1>5, <1>7, <1>8

LEMMA OrderAdvance == ASSUME Ring, InOrder, Advance PROVE InOrder'
  <1>1. UNCHANGED <<tx_buf, tx_out, sent, mixed, broken>> /\ w'.pc \notin {"copy", "advance"}
    BY IdleType DEF Advance, Writes
  <1> SUFFICES ASSUME ~mixed PROVE Numbered' /\ Holds'
    BY <1>1 DEF InOrder, Reserved
  <1>2. Numbered /\ Holds /\ Reserved
    BY DEF InOrder
  <1> DEFINE a == Ahead(tx_in, tx_out)
  <1>3. /\ w.in = tx_in /\ w.n \in 1..BUF_LEN - 1 - a /\ tx_in + w.n <= BUF_LEN
        /\ tx_in \in Places /\ tx_out \in Places /\ a \in 0..BUF_LEN - 1 /\ w.n \in Nat
        /\ \A p \in tx_in..tx_in + w.n - 1 : tx_buf[p] = Later(written, p - tx_in)
    BY <1>2, AheadFacts, Sizes DEF Reserved, Advance, Ring, Places
  <1>4. /\ tx_in' = (tx_in + w.n) % BUF_LEN /\ written' = (written + w.n) % NUMBERS
    BY <1>1, <1>3 DEF Advance, Number
  <1>5. w.n \in 0..BUF_LEN - 1 - a /\ w.n \in 0..BUF_LEN /\ a + w.n <= BUF_LEN
    BY <1>3, Sizes
  <1>6. Ahead(tx_in', tx_out) = a + w.n
    BY <1>3, <1>4, <1>5, MovesOn
  <1>7. written' = Later(sent, a + w.n)
    BY <1>2, <1>4, <1>5, Numbers
  <1>8. Numbered'
    BY <1>1, <1>2, <1>6, <1>7 DEF Numbered
  <1>9. Holds'
    <2> SUFFICES ASSUME NEW p \in Places, Ahead(p, tx_out) < a + w.n
                 PROVE  tx_buf[p] = Later(sent, Ahead(p, tx_out))
      BY <1>1, <1>6 DEF Holds
    <2>1. CASE Ahead(p, tx_in) < w.n
      <3>1. Ahead(p, tx_out) = a + Ahead(p, tx_in)
        BY <1>3, <1>5, <2>1, MovesOn
      <3>2. p \in tx_in..tx_in + w.n - 1 /\ Ahead(p, tx_in) = p - tx_in
        BY <1>3, <2>1, Sizes DEF Ahead, Places
      <3>3. p - tx_in \in 0..BUF_LEN /\ a + (p - tx_in) <= BUF_LEN
        BY <1>3, <3>2, Sizes
      <3> QED BY <1>2, <1>3, <3>1, <3>2, <3>3, Numbers
    <2>2. CASE ~(Ahead(p, tx_in) < w.n)
      <3>1. Ahead(p, tx_out) < a
        BY <1>3, <1>5, <2>2, MovesOn
      <3> QED BY <1>2, <3>1 DEF Holds
    <2> QED BY <2>1, <2>2
  <1> QED BY <1>8, <1>9


\* usb_isr prints behind what is there; a run of the main loop in hand makes it mixed.
LEMMA OrderUsbIsr ==
  ASSUME Ring, InOrder, NEW count \in Messages, UsbIsr(count) PROVE InOrder'
  <1> DEFINE n == Least(count, BUF_LEN - 1 - Pending)
             a == Ahead(tx_in, tx_out)
  <1>1. UNCHANGED <<tx_out, w, sent, broken>>
        /\ mixed' = (mixed \/ w.pc \in {"copy", "advance"})
    BY DEF UsbIsr
  <1>2. DOMAIN tx_buf' = Places
    BY DEF UsbIsr, Places
  <1> SUFFICES ASSUME ~mixed' PROVE Numbered' /\ Holds' /\ Reserved'
    BY <1>2 DEF InOrder
  <1>3. Numbered /\ Holds /\ Reserved'
    BY <1>1 DEF InOrder, Reserved
  <1>4. /\ tx_in \in Places /\ tx_out \in Places /\ a \in 0..BUF_LEN - 1 /\ Pending = a
        /\ count \in Nat
    BY AheadFacts, PendingIsAhead, Sizes, ConsoleAssumption DEF ConsoleAssumption, Ring, Places
  <1>5. n \in 0..BUF_LEN - 1 - a /\ n \in 0..BUF_LEN /\ a + n <= BUF_LEN
    BY <1>4, Sizes DEF Least
  <1>6. /\ tx_in' = (tx_in + n) % BUF_LEN /\ written' = (written + n) % NUMBERS
        /\ \A p \in Places : tx_buf'[p] = IF (p - tx_in) % BUF_LEN < n
                                  THEN (written + ((p - tx_in) % BUF_LEN)) % NUMBERS
                                  ELSE tx_buf[p]
    BY DEF UsbIsr, Number, Places
  <1> HIDE DEF n
  <1>7. Ahead(tx_in', tx_out) = a + n
    BY <1>4, <1>5, <1>6, MovesOn
  <1>8. Numbered'
    <2>1. written' = Later(sent, a + n)
      BY <1>3, <1>5, <1>6, Numbers
    <2> QED BY <1>1, <1>3, <1>7, <2>1 DEF Numbered
  <1>9. Holds'
    <2> SUFFICES ASSUME NEW p \in Places, Ahead(p, tx_out) < a + n
                 PROVE  tx_buf'[p] = Later(sent, Ahead(p, tx_out))
      BY <1>1, <1>7 DEF Holds
    <2>1. (p - tx_in) % BUF_LEN = Ahead(p, tx_in) /\ Ahead(p, tx_in) \in Nat
      BY <1>4, AheadFacts
    <2>2. CASE Ahead(p, tx_in) < n
      <3>1. Ahead(p, tx_out) = a + Ahead(p, tx_in)
        BY <1>4, <1>5, <2>2, MovesOn
      <3>2. Ahead(p, tx_in) \in 0..BUF_LEN /\ a + Ahead(p, tx_in) <= BUF_LEN
        BY <1>4, <1>5, <2>1, <2>2, Sizes
      <3>3. tx_buf'[p] = (written + Ahead(p, tx_in)) % NUMBERS
        BY <1>6, <2>1, <2>2
      <3> QED BY <1>3, <3>1, <3>2, <3>3, Numbers
    <2>3. CASE ~(Ahead(p, tx_in) < n)
      <3>1. Ahead(p, tx_out) < a
        BY <1>4, <1>5, <2>3, MovesOn
      <3>2. tx_buf'[p] = tx_buf[p]
        BY <1>6, <2>1, <2>3
      <3> QED BY <1>3, <3>1, <3>2 DEF Holds
    <2> QED BY <2>2, <2>3
  <1> QED BY <1>3, <1>8, <1>9

\* The handler takes the first characters, which are the next to be sent, and leaves the rest
\* and the writer's run where they are.
LEMMA OrderDrained ==
  ASSUME Ring, InOrder, altera_avalon_jtag_uart_irq PROVE InOrder'
  <1> DEFINE n == Least(DEPTH - fifo, Pending)
             a == Ahead(tx_in, tx_out)
             place(i) == (tx_out + i) % BUF_LEN
  <1>1. UNCHANGED <<mixed, tx_in, w, written>> /\ Drained(n)
    BY DEF altera_avalon_jtag_uart_irq
  <1>2. DOMAIN tx_buf' = Places
    BY <1>1 DEF Drained, InOrder
  <1> SUFFICES ASSUME ~mixed PROVE Numbered' /\ Holds' /\ Reserved'
    BY <1>1, <1>2 DEF InOrder
  <1>3. Numbered /\ Holds /\ Reserved /\ DOMAIN tx_buf = Places
    BY DEF InOrder
  <1>4. /\ tx_in \in Places /\ tx_out \in Places /\ a \in 0..BUF_LEN - 1 /\ Pending = a
        /\ DEPTH - fifo \in Nat
    BY AheadFacts, PendingIsAhead, Sizes DEF Ring, Places
  <1>5. n \in 0..a /\ n \in 0..BUF_LEN
    BY <1>4, Sizes DEF Least
  <1> HIDE DEF n
  <1>6. /\ tx_out' = (tx_out + n) % BUF_LEN /\ sent' = (sent + n) % NUMBERS
        /\ broken' = (broken \/ \E i \in 0..n - 1 : tx_buf[place(i)] # (sent + i) % NUMBERS)
        /\ \A p \in Places : tx_buf'[p] = IF \E i \in 0..n - 1 : p = place(i) THEN Old ELSE tx_buf[p]
    BY <1>1, <1>3 DEF Drained, Number
  <1>7. Ahead(tx_in, tx_out') = a - n /\ tx_out' \in Places
    BY <1>4, <1>5, <1>6, Follows
  <1>8. ASSUME NEW i \in 0..n - 1
        PROVE  place(i) \in Places /\ Ahead(place(i), tx_out) = i /\ i < a /\ i \in 0..BUF_LEN
    <2>1. i \in 0..a /\ i < BUF_LEN /\ i < a /\ i \in 0..BUF_LEN
      BY <1>4, <1>5, Sizes
    <2> QED BY <1>4, <2>1, Follows
  <1>9. ~broken'
    <2> SUFFICES ASSUME NEW i \in 0..n - 1 PROVE tx_buf[place(i)] = (sent + i) % NUMBERS
      BY <1>3, <1>6 DEF Numbered
    <2>1. tx_buf[place(i)] = Later(sent, i)
      BY <1>3, <1>8 DEF Holds
    <2> QED BY <1>3, <1>8, <2>1, LaterFacts DEF Numbered
  <1>10. sent' = Later(sent, n) /\ sent' \in 0..NUMBERS - 1
    BY <1>3, <1>5, <1>6, LaterFacts DEF Numbered
  <1>11. ASSUME NEW k \in 0..BUF_LEN, k + n <= BUF_LEN PROVE Later(sent', k) = Later(sent, k + n)
    <2>1. \A j \in 0..BUF_LEN : j + n <= BUF_LEN => Later(Later(sent, n), j) = Later(sent, n + j)
      BY <1>3, <1>5, LaterFacts DEF Numbered
    <2>2. n + k = k + n
      BY <1>5
    <2> QED BY <1>10, <1>11, <2>1, <2>2
  <1>12. Numbered'
    <2>1. a - n \in 0..BUF_LEN /\ (a - n) + n = a /\ a <= BUF_LEN
      BY <1>4, <1>5, Sizes
    <2>2. Later(sent', a - n) = Later(sent, a)
      BY <1>11, <2>1
    <2> QED BY <1>1, <1>3, <1>7, <1>9, <1>10, <2>2 DEF Numbered
  <1>13. Holds'
    <2> SUFFICES ASSUME NEW p \in Places, Ahead(p, tx_out') < a - n
                 PROVE  tx_buf'[p] = Later(sent', Ahead(p, tx_out'))
      BY <1>1, <1>7 DEF Holds
    <2>1. Ahead(p, tx_out) = Ahead(p, tx_out') + n
      BY <1>4, <1>5, <1>6, <1>7, Follows
    <2>2. Ahead(p, tx_out') \in Nat /\ Ahead(p, tx_out') \in 0..BUF_LEN
          /\ Ahead(p, tx_out') + n <= BUF_LEN /\ Ahead(p, tx_out) < a
      BY <1>4, <1>5, <1>7, <2>1, AheadFacts, Sizes
    <2>3. ~ \E i \in 0..n - 1 : p = place(i)
      <3>1. ~(Ahead(p, tx_out) < n)
        BY <1>5, <2>1, <2>2
      <3> QED BY <1>8, <3>1, <1>5
    <2>4. tx_buf'[p] = Later(sent, Ahead(p, tx_out))
      BY <1>3, <1>6, <2>2, <2>3 DEF Holds
    <2> QED BY <1>11, <2>1, <2>2, <2>4
  <1>14. Reserved'
    <2>1. \A k \in 1..BUF_LEN - 1 - a : k \in 1..BUF_LEN - 1 - (a - n)
      BY <1>4, <1>5, Sizes
    <2>2. ASSUME NEW p \in w.in..w.in + w.n - 1, w.pc = "advance" PROVE tx_buf'[p] = tx_buf[p]
      <3>1. /\ w.in = tx_in /\ w.n \in 1..BUF_LEN - 1 - a /\ w.in + w.n <= BUF_LEN
        BY <1>3, <2>2 DEF Reserved
      <3>2. p \in Places /\ Ahead(p, tx_out) >= a
        BY <1>4, <3>1, Sizes DEF Ahead, Places
      <3>3. ~ \E i \in 0..n - 1 : p = place(i)
        BY <1>4, <1>8, <3>2
      <3> QED BY <1>6, <3>2, <3>3
    <2> QED BY <1>1, <1>3, <1>7, <2>1, <2>2 DEF Reserved
  <1> QED BY <1>12, <1>13, <1>14

LEMMA OrderInductive == Ring /\ InOrder /\ [Next]_vars => InOrder'
  <1> SUFFICES ASSUME Ring, InOrder, [Next]_vars PROVE InOrder'
    OBVIOUS
  <1>1. CASE Space \/ Copy \/ Advance
    BY <1>1, OrderSpace, OrderCopy, OrderAdvance
  <1>2. ASSUME NEW count \in Messages, UsbIsr(count) PROVE InOrder'
    BY <1>2, OrderUsbIsr
  <1>3. CASE altera_avalon_jtag_uart_irq
    BY <1>3, OrderDrained
  <1>4. CASE UNCHANGED <<tx_buf, tx_in, tx_out, record>>
             /\ (w' = w \/ w'.pc \notin {"copy", "advance"})
    BY <1>4 DEF InOrder, Numbered, Holds, Reserved, record
  <1>5. CASE Kick \/ WaitForSpace
    <2>1. \/ w' = Idle \/ w' = [w EXCEPT !.pc = "wait"]
          \/ w' = [Idle EXCEPT !.count = w.count, !.pc = "space"]
      BY <1>5 DEF Kick, WaitForSpace, Return
    <2>2. w'.pc \in {"idle", "wait", "space"}
      <3>1. CASE w' = Idle
        BY <3>1 DEF Idle
      <3>2. CASE w' = [w EXCEPT !.pc = "wait"]
        BY <3>2 DEF Ring, Writes
      <3>3. CASE w' = [Idle EXCEPT !.count = w.count, !.pc = "space"]
        BY <3>3 DEF Idle
      <3> QED BY <2>1, <3>1, <3>2, <3>3
    <2>3. w'.pc \notin {"copy", "advance"}
      BY <2>2
    <2>4. UNCHANGED <<tx_buf, tx_in, tx_out, record>>
      BY <1>5 DEF Kick, WaitForSpace, driver
    <2> QED BY <1>4, <2>3, <2>4
  <1>6. ASSUME NEW count \in Messages, Write(count) PROVE InOrder'
    <2>1. w'.pc = "space"
      BY <1>6 DEF Write, Idle
    <2> QED BY <1>4, <1>6, <2>1 DEF Write, driver
  <1>7. CASE Tick \/ HostReads \/ UNCHANGED vars
    BY <1>4, <1>7 DEF Tick, HostReads, vars, driver
  <1> QED BY <1>1, <1>2, <1>3, <1>5, <1>6, <1>7 DEF Next, Runs, Main

\* However large the ring and the FIFO, and wherever in the writer's steps the handler drains
\* them: what reaches the hardware is what was written, in order, each character once, unless
\* usb_isr has printed in the middle of a write of the main loop.
THEOREM CharactersInOrder == Spec => []SentInOrder
  <1>1. InOrder => SentInOrder
    BY DEF InOrder, Numbered, SentInOrder
  <1>2. Init => Ring /\ NoneStranded /\ InOrder
    BY RingInit, OrderInit
  <1>3. Ring /\ NoneStranded /\ InOrder /\ [Next]_vars => (Ring /\ NoneStranded /\ InOrder)'
    BY RingInductive, OrderInductive
  <1> QED BY <1>1, <1>2, <1>3, PTL DEF Spec

=============================================================================
