--------------------------- MODULE GestureStream ---------------------------
(***************************************************************************)
(* A press of the glove's button on its way to a gesture: the glove's main *)
(* loop (AVR_Testing.c) samples while the button is held and prints a      *)
(* stream, the serial line carries it and may lose characters, and the     *)
(* keyboard's main loop reads one character a round and keeps its parser   *)
(* in local variables (main, FinalFlashedDE2.objdump).                     *)
(*                                                                         *)
(* A character is [c, v, of]: its class, the value if it is a numeral      *)
(* (which stands for all its digits) and, for the properties only, the     *)
(* number of the press it belongs to.  Definitions marked "Mistaken" are   *)
(* plausible errors in those that follow them.                             *)
(***************************************************************************)
EXTENDS Classifier, Sequences, FiniteSets

CONSTANTS
  Inits,         \* accelerations <<x, y, z>> the glove may be held at
  Samples,       \* accelerations <<y, z>> it may sample
  MaxSamples,    \* places in accy, accz, ay and az: 100
  MaxPresses,    \* bound: presses made
  MaxTouches,    \* bound: touches of the middle or the little finger
  MaxLost,       \* bound: characters lost
  MaxLag         \* bound: characters unread when the glove begins to print again

ASSUME StreamAssumption ==
  /\ {MaxSamples, MaxPresses, MaxTouches, MaxLost, MaxLag} \subseteq Nat
  /\ MaxSamples \in 1..2^15 - 1
  /\ LET int16_t == -2^15..2^15 - 1
     IN  Inits \subseteq int16_t \X int16_t \X int16_t /\ Samples \subseteq int16_t \X int16_t

BUFFER == 8      \* char buffer[8]

VARIABLES
  glove,     \* the fore finger's variables: [held, init, samples]
  line,      \* characters printed and not read
  p,         \* the parser's variables
  gesture,
  presses,   \* history: the presses made
  turned,    \*   how many of them have had their 'E' read or lost
  lost,      \*   the presses that have lost a character
  left       \* what is left of the bounds

history == <<presses, turned, lost>>
vars == <<glove, line, p, gesture, history, left>>

-----------------------------------------------------------------------------
(* Characters. *)

Char(c, of)    == [c |-> c, v |-> 0, of |-> of]
Numeral(n, of) == [c |-> "numeral", v |-> n, of |-> of]

\* The digits of a number; "%d" prints no more than five of an int.
Decades   == <<10, 100, 1000, 10000, 100000>>
Digits(n) == CHOOSE d \in 1..5 : n < Decades[d] /\ (d > 1 => Decades[d - 1] <= n)

Places(ch) ==
  CASE ch.c = "numeral" -> Digits(Abs(ch.v)) + (IF ch.v < 0 THEN 1 ELSE 0)
    [] ch.c = "test" -> 4
    [] OTHER -> 1

\* The buffer is kept as what atoi has made of its characters: it skips blanks, reads one
\* numeral (two that have lost what was between them are one) and stops at anything else.
Empty == [state |-> "blank", v |-> 0]

Scan(read, ch) ==
  CASE read.state = "blank" /\ ch.c \in {"CR", "LF"} -> read
    [] read.state = "blank" /\ ch.c = "numeral" -> [state |-> "digits", v |-> ch.v]
    [] read.state = "digits" /\ ch.c = "numeral" /\ ch.v >= 0
         -> [read EXCEPT !.v = IF @ < 0 THEN @ * Decades[Digits(ch.v)] - ch.v
                                        ELSE @ * Decades[Digits(ch.v)] + ch.v]
    [] OTHER -> [read EXCEPT !.state = "over"]

\* Behind the last character come zeros, or the characters of an older number if they were
\* not cleared.
atoi(read, dirty) ==
  IF dirty /\ read.state # "over"
    THEN {read.v, IF read.v < 0 THEN 10 * read.v - 9 ELSE 10 * read.v + 9}
    ELSE {read.v}

-----------------------------------------------------------------------------
(* The glove. *)

\* The numbers of a stream: how many samples there are, the accelerations at rest, and
\* then the samples, y and z in turn.
Words(samples) == 4 + 2 * Len(samples)

Word(init, samples, w) ==
  IF w = 1 THEN Len(samples)
  ELSE IF w <= 4 THEN init[w - 1]
  ELSE samples[(w - 3) \div 2][IF w % 2 = 1 THEN 1 ELSE 2]

\* A 'C', each number by printf("%d\n"), with the '\r' uart_putchar puts before '\n', and an 'E'.
Stream(init, samples, k) ==
  LET Symbol(w, part) ==
        CASE w = 0 -> Char("C", k)
          [] w = Words(samples) + 1 -> Char("E", k)
          [] OTHER -> CASE part = 0 -> Numeral(Word(init, samples, w), k)
                        [] part = 1 -> Char("CR", k)
                        [] part = 2 -> Char("LF", k)
  IN  [i \in 1..(3 * Words(samples) + 2) |-> Symbol((i + 1) \div 3, (i + 1) % 3)]

\* The fore finger goes down: mpu6050_getConvData gives the accelerations at rest.
PressDown ==
  /\ ~glove.held /\ Len(line) <= MaxLag
  /\ Len(presses) < MaxPresses
  /\ \E init \in Inits : glove' = [held |-> TRUE, init |-> init, samples |-> <<>>]
  /\ UNCHANGED <<line, p, gesture, history, left>>

\* While it is held, also after the arrays are full.
Sample ==
  /\ glove.held /\ Len(glove.samples) < MaxSamples
  /\ \E a \in Samples : glove' = [glove EXCEPT !.samples = Append(@, a)]
  /\ UNCHANGED <<line, p, gesture, history, left>>

\* The first sample is taken before the button is looked at again.
Release ==
  LET k == Len(presses) + 1
  IN  /\ glove.held /\ glove.samples # <<>>
      /\ presses' = Append(presses, [init |-> glove.init, samples |-> glove.samples])
      /\ line' = line \o Stream(glove.init, glove.samples, k)
      /\ glove' = [glove EXCEPT !.held = FALSE]
      /\ UNCHANGED <<p, gesture, turned, lost, left>>

\* The middle finger prints '2', the little one "test\n". Between streams both are noise.
Touch ==
  /\ ~glove.held /\ Len(line) <= MaxLag
  /\ left.touches > 0
  /\ left' = [left EXCEPT !.touches = @ - 1]
  /\ \E noise \in {<<Numeral(2, 0)>>, <<Char("test", 0), Char("CR", 0), Char("LF", 0)>>} :
       line' = line \o noise
  /\ UNCHANGED <<glove, p, gesture, history>>

\* A character lost on the air, or because the FIFO of the serial port is full.
LoseCharacter ==
  /\ line # <<>> /\ left.losses > 0
  /\ left' = [left EXCEPT !.losses = @ - 1]
  /\ line' = Tail(line)
  /\ lost' = IF Head(line).of = 0 THEN lost ELSE lost \cup {Head(line).of}
  /\ turned' = IF Head(line).c = "E" THEN Head(line).of ELSE turned
  /\ UNCHANGED <<glove, p, gesture, presses>>

-----------------------------------------------------------------------------
(* The parser: the actions of one if-chain, the first whose condition holds. *)

Idle == [streamStart |-> FALSE, countStart |-> FALSE, initStart |-> FALSE,
         initCounter |-> 0, cycleCount |-> 0, counti |-> 0, count |-> 0,
         buffer |-> Empty, inc_i |-> 0, dirty |-> TRUE, init |-> [i \in 1..3 |-> 0],
         vOldy |-> 0, vOldz |-> 0, VAveragey |-> 0, VAveragez |-> 0]

\* read_data: the character at the head of the FIFO is gone, whatever becomes of it.
Read(c) == line # <<>> /\ Head(line).c \in c /\ line' = Tail(line)

Anything == {"C", "E", "CR", "LF", "numeral", "test"}

\* inc_i = 0 without clearing the buffer.
Rewound(q) == [q EXCEPT !.buffer = Empty, !.inc_i = 0, !.dirty = @ \/ q.inc_i # 0]
Cleared(q) == [q EXCEPT !.buffer = Empty, !.inc_i = 0, !.dirty = FALSE]

StartStream ==
  /\ Read({"C"}) /\ ~p.streamStart
  /\ p' = Rewound([p EXCEPT !.streamStart = TRUE, !.countStart = TRUE,
                            !.cycleCount = 0, !.counti = 0])
  /\ UNCHANGED <<glove, gesture, history, left>>

EndCount ==
  /\ Read({"LF"}) /\ p.streamStart /\ p.countStart /\ ~p.initStart
  /\ \E n \in atoi(p.buffer, p.dirty) :
       p' = Cleared([p EXCEPT !.countStart = FALSE, !.cycleCount = 0, !.count = n,
                              !.counti = 0, !.initStart = TRUE, !.initCounter = 0])
  /\ UNCHANGED <<glove, gesture, history, left>>

\* Mistaken: the counter is left at the last number.
EndInitKeepsCounting ==
  /\ Read({"LF"}) /\ p.streamStart /\ ~p.countStart /\ p.initStart
  /\ \E n \in atoi(p.buffer, p.dirty) :
       p' = Cleared([p EXCEPT !.init[p.initCounter + 1] = n,
                              !.initStart = p.initCounter < 2,
                              !.initCounter = @ + 1,
                              !.counti = IF p.initCounter = 2 THEN 0 ELSE @])
  /\ UNCHANGED <<glove, gesture, history, left>>

EndInit ==
  /\ Read({"LF"}) /\ p.streamStart /\ ~p.countStart /\ p.initStart
  /\ \E n \in atoi(p.buffer, p.dirty) :
       p' = Cleared([p EXCEPT !.init[p.initCounter + 1] = n,
                              !.initStart = p.initCounter < 2,
                              !.initCounter = (@ + 1) % 3,
                              !.counti = IF p.initCounter = 2 THEN 0 ELSE @])
  /\ UNCHANGED <<glove, gesture, history, left>>

\* Mistaken: both numbers of a sample are counted.
EndSampleCountsBoth ==
  /\ Read({"LF"}) /\ p.streamStart /\ ~p.countStart /\ ~p.initStart
  /\ \E n \in atoi(p.buffer, p.dirty) :
       p' = Cleared(IF p.cycleCount = 0
                    THEN [p EXCEPT !.vOldy = @ + n, !.VAveragey = @ + p.vOldy + n,
                                   !.counti = @ + 1, !.cycleCount = 1]
                    ELSE [p EXCEPT !.vOldz = @ + n, !.VAveragez = @ + p.vOldz + n,
                                   !.counti = @ + 1, !.cycleCount = 0])
  /\ UNCHANGED <<glove, gesture, history, left>>

\* ay[counti] and az[counti] are read at once and never again.
EndSample ==
  /\ Read({"LF"}) /\ p.streamStart /\ ~p.countStart /\ ~p.initStart
  /\ \E n \in atoi(p.buffer, p.dirty) :
       p' = Cleared(IF p.cycleCount = 0
                    THEN [p EXCEPT !.vOldy = @ + n, !.VAveragey = @ + p.vOldy + n,
                                   !.cycleCount = 1]
                    ELSE [p EXCEPT !.vOldz = @ + n, !.VAveragez = @ + p.vOldz + n,
                                   !.counti = @ + 1, !.cycleCount = 0])
  /\ UNCHANGED <<glove, gesture, history, left>>

\* Mistaken: a stream ends only with the samples it announced.
EndStreamStrict ==
  LET y == Quotient(p.VAveragey, p.count)
      z == Quotient(p.VAveragez, p.count)
  IN  /\ Read({"E"}) /\ p.streamStart /\ ~p.countStart /\ p.counti = p.count
      /\ gesture' = GestureOf(movementDirection(p.init, y, z), gesture)
      /\ p' = Rewound([p EXCEPT !.streamStart = FALSE, !.cycleCount = 0, !.counti = 0,
                                !.VAveragey = 0, !.VAveragez = 0, !.count = 0,
                                !.vOldy = 0, !.vOldz = 0])
      /\ turned' = Head(line).of
      /\ UNCHANGED <<glove, presses, lost, left>>

EndStream ==
  LET y == Quotient(p.VAveragey, p.count)
      z == Quotient(p.VAveragez, p.count)
  IN  /\ Read({"E"}) /\ p.streamStart /\ ~p.countStart
      /\ gesture' = GestureOf(movementDirection(p.init, y, z), gesture)
      /\ p' = Rewound([p EXCEPT !.streamStart = FALSE, !.cycleCount = 0, !.counti = 0,
                                !.VAveragey = 0, !.VAveragez = 0, !.count = 0,
                                !.vOldy = 0, !.vOldz = 0])
      /\ turned' = Head(line).of
      /\ UNCHANGED <<glove, presses, lost, left>>

\* Everything else inside a stream, a 'C', and with the count still open an 'E', included:
\* a newline is one of them when initStart is left over from an earlier stream.
Buffer ==
  /\ Read(Anything) /\ p.streamStart
  /\ Head(line).c = "LF" => p.countStart /\ p.initStart
  /\ Head(line).c = "E" => p.countStart
  /\ p' = [p EXCEPT !.buffer = Scan(@, Head(line)), !.inc_i = @ + Places(Head(line))]
  /\ turned' = IF Head(line).c = "E" THEN Head(line).of ELSE turned
  /\ UNCHANGED <<glove, gesture, presses, lost, left>>

\* Outside a stream, anything but a 'C'.
Ignore ==
  /\ Read(Anything \ {"C"}) /\ ~p.streamStart
  /\ turned' = IF Head(line).c = "E" THEN Head(line).of ELSE turned
  /\ UNCHANGED <<glove, p, gesture, presses, lost, left>>

ReadCharacter == StartStream \/ EndCount \/ EndInit \/ EndSample \/ EndStream \/ Buffer \/ Ignore

-----------------------------------------------------------------------------

Init ==
  /\ glove = [held |-> FALSE, init |-> <<0, 0, 0>>, samples |-> <<>>]
  /\ line = <<>> /\ p = Idle /\ gesture = "null"
  /\ presses = <<>> /\ turned = 0 /\ lost = {}
  /\ left = [touches |-> MaxTouches, losses |-> MaxLost]

Next == PressDown \/ Sample \/ Release \/ Touch \/ LoseCharacter \/ ReadCharacter

Spec     == Init /\ [][Next]_vars
\* The main loop comes round; the wearer may hold the button for ever.
FairSpec == Spec /\ WF_vars(ReadCharacter)

-----------------------------------------------------------------------------

TypeOK ==
  /\ glove \in [held: BOOLEAN, init: Inits \cup {<<0, 0, 0>>}, samples: Seq(Samples)]
  /\ p \in [streamStart: BOOLEAN, countStart: BOOLEAN, initStart: BOOLEAN,
            initCounter: 0..2, cycleCount: 0..1, counti: Nat, count: Int,
            buffer: [state: {"blank", "digits", "over"}, v: Int], inc_i: Nat, dirty: BOOLEAN,
            init: [1..3 -> Int], vOldy: Int, vOldz: Int, VAveragey: Int, VAveragez: Int]
  /\ line \in Seq([c: Anything, v: Int, of: Nat])
  /\ gesture \in {"null", "left", "right", "up", "down"}

\* As long as no character has been lost, what the glove prints fits the parser's arrays and
\* a stream ends with the samples its head announced, never with a count of zero to divide by.
StreamFits ==
  left.losses = MaxLost =>
    /\ p.inc_i <= BUFFER
    /\ p.streamStart /\ ~p.countStart => p.count \in 1..MaxSamples
    /\ p.cycleCount = 1 => p.counti < MaxSamples
    /\ line # <<>> /\ Head(line).c = "E" => p.streamStart /\ p.counti = p.count

\* The stream and its parser give the wearer what Gestures promises.
Promise == INSTANCE Gestures WITH
  Presses <- [init: Inits, samples: UNION {[1..n -> Samples] : n \in 1..MaxSamples}]

KeepsPromise == Promise!FairSpec
=============================================================================
