------------------------- MODULE GestureStreamProofs -------------------------
(***************************************************************************)
(* Proofs about a press on its way to a gesture. The gesture a movement    *)
(* sets is one it may be said to make (MovementIsMeant); every variable    *)
(* has its type (GestureStreamTypes); until a character is lost a stream   *)
(* fits the parser (StreamsFit); with two lost at most the wearer is given *)
(* what Gestures promises (StreamKeepsPromise).                            *)
(*                                                                         *)
(* What is unread in the line is labelled with marks: which number of      *)
(* which press a character belongs to, and which part of it. The mark of   *)
(* the first one says where the parser has to be, and IInv that it is      *)
(* there, in a press nothing was lost from.                                *)
(***************************************************************************)
EXTENDS GestureStream, FiniteSetTheorems, WellFoundedInduction, TLAPS


LEMMA AbsIsMagnitude ==
  ASSUME NEW n \in Int
  PROVE  Promise!Magnitude(n) = Abs(n) /\ Abs(n) \in Nat
BY DEF Promise!Magnitude, Abs

\* orientation answers with a way the palm may be said to face.
LEMMA OrientationIsAPalm ==
  ASSUME NEW x \in Int, NEW y \in Int, NEW z \in Int
  PROVE  LET o == orientation(x, y, z)
             P == Promise!Palms(<<x, y, z>>)
         IN  \/ o = 0 /\ "down" \in P
             \/ o = 1 /\ "left" \in P
             \/ o = 2 /\ "right" \in P
             \/ o = 3 /\ "up" \in P
<1> DEFINE P == Promise!Palms(<<x, y, z>>)
<1>1. P = (IF Abs(x) >= Abs(y) /\ Abs(x) >= Abs(z) THEN {"down"} ELSE {}) \cup
          (IF Abs(y) >= Abs(x) /\ Abs(y) >= Abs(z) THEN {IF y >= 0 THEN "left" ELSE "right"} ELSE {}) \cup
          (IF Abs(z) >= Abs(x) /\ Abs(z) >= Abs(y) THEN {IF z >= 0 THEN "down" ELSE "up"} ELSE {})
  BY AbsIsMagnitude DEF Promise!Palms
<1>2. Abs(x) \in Nat /\ Abs(y) \in Nat /\ Abs(z) \in Nat
  BY AbsIsMagnitude
<1> HIDE DEF P
<1>3. CASE Abs(z) >= Abs(y) /\ Abs(z) >= Abs(x)
  BY <1>1, <1>2, <1>3 DEF orientation, P
<1>4. CASE ~(Abs(z) >= Abs(y) /\ Abs(z) >= Abs(x)) /\ Abs(y) >= Abs(x)
  BY <1>1, <1>2, <1>4 DEF orientation, P
<1>5. CASE ~(Abs(z) >= Abs(y) /\ Abs(z) >= Abs(x)) /\ ~(Abs(y) >= Abs(x))
  BY <1>1, <1>2, <1>5 DEF orientation, P
<1>6. QED
  BY <1>3, <1>4, <1>5

\* What the direction of a speed is said to be, written out.
LEMMA DirectedAre ==
  ASSUME NEW l \in Int, NEW u \in Int
  PROVE  /\ l >= Abs(u) => "left" \in Promise!Directed(<<l, u>>)
         /\ -l >= Abs(u) => "right" \in Promise!Directed(<<l, u>>)
         /\ u >= Abs(l) => "up" \in Promise!Directed(<<l, u>>)
         /\ -u >= Abs(l) => "down" \in Promise!Directed(<<l, u>>)
BY AbsIsMagnitude DEF Promise!Directed

\* What the four tables make of a fast movement along y and one along z, as the wearer
\* sees them.
LEMMA StrongestIsDirected ==
  ASSUME NEW vy \in Int, NEW vz \in Int, ~noMovement(0, vy, vz),
         NEW yUp, NEW yDown, NEW zUp, NEW zDown
  PROVE  LET m == Strongest(0, vy, vz, yUp, yDown, zUp, zDown)
         IN  \/ m = yUp /\ vy >= Abs(vz)
             \/ m = yDown /\ -vy >= Abs(vz)
             \/ m = zUp /\ vz >= Abs(vy)
             \/ m = zDown /\ -vz >= Abs(vy)
<1>1. Abs(0) = 0 /\ (Abs(vy) > 0 \/ Abs(vz) > 0)
  BY DEF noMovement, Abs, Threshold
<1>2. ~(Abs(0) >= Abs(vy) /\ Abs(0) >= Abs(vz))
  BY <1>1, AbsIsMagnitude
<1>3. CASE Abs(vy) >= Abs(vz) /\ vy >= 0
  BY <1>2, <1>3 DEF Strongest, Abs
<1>4. CASE Abs(vy) >= Abs(vz) /\ ~(vy >= 0)
  BY <1>2, <1>4 DEF Strongest, Abs
<1>5. CASE ~(Abs(vy) >= Abs(vz)) /\ vz >= 0
  BY <1>2, <1>5 DEF Strongest, Abs
<1>6. CASE ~(Abs(vy) >= Abs(vz)) /\ ~(vz >= 0)
  BY <1>2, <1>6 DEF Strongest, Abs
<1>7. QED
  BY <1>3, <1>4, <1>5, <1>6

LEMMA AbsOfOpposite == ASSUME NEW n \in Int PROVE Abs(-n) = Abs(n) /\ -(-n) = n
BY DEF Abs

LEMMA GestureOfMovement ==
  ASSUME NEW m, NEW g, NEW directions,
         \/ m = 2 /\ "left" \in directions
         \/ m = 3 /\ "right" \in directions
         \/ m = 4 /\ "up" \in directions
         \/ m = 5 /\ "down" \in directions
  PROVE  GestureOf(m, g) \in directions
BY DEF GestureOf

\* A movement that is none is no gesture, and any other is one the wearer made, seen with
\* the palm as orientation says it faces.
THEOREM MovementIsMeant ==
  ASSUME NEW x \in Int, NEW y \in Int, NEW z \in Int,
         NEW vy \in Int, NEW vz \in Int, NEW g
  PROVE  GestureOf(movementDirection(<<x, y, z>>, vy, vz), g)
           \in Promise!Meant(<<x, y, z>>, vy, vz)
<1> DEFINE init == <<x, y, z>>
           o == orientation(x, y, z)
           m == movementDirection(init, vy, vz)
           Meant == Promise!Meant(init, vy, vz)
<1>1. CASE noMovement(0, vy, vz)
  <2>1. m = 6
    BY <1>1 DEF movementDirection
  <2>2. Promise!Magnitude(vy) < Threshold /\ Promise!Magnitude(vz) < Threshold
    BY <1>1, AbsIsMagnitude DEF noMovement
  <2>3. QED
    BY <2>1, <2>2 DEF Promise!Meant, GestureOf
<1>2. CASE ~noMovement(0, vy, vz)
  <2>1. ~(Promise!Magnitude(vy) < Threshold /\ Promise!Magnitude(vz) < Threshold)
    BY <1>2, AbsIsMagnitude DEF noMovement, Abs, Threshold
  <2>2. Meant = UNION {Promise!Directed(Promise!Turned(q, vy, vz)) : q \in Promise!Palms(init)}
    BY <2>1 DEF Promise!Meant
  <2>3. \A q \in Promise!Palms(init) : Promise!Directed(Promise!Turned(q, vy, vz)) \subseteq Meant
    BY <2>2
  <2> HIDE DEF Meant
  <2>4. CASE o = 0 /\ "down" \in Promise!Palms(init)
    <3>1. m = Strongest(0, vy, vz, 2, 3, 4, 5)
      BY <1>2, <2>4 DEF movementDirection, largest
    <3>2. Promise!Directed(<<vy, vz>>) \subseteq Meant
      BY <2>3, <2>4 DEF Promise!Turned
    <3>3. \/ m = 2 /\ vy >= Abs(vz)
          \/ m = 3 /\ -vy >= Abs(vz)
          \/ m = 4 /\ vz >= Abs(vy)
          \/ m = 5 /\ -vz >= Abs(vy)
      BY <3>1, <1>2, StrongestIsDirected
    <3>4. \/ m = 2 /\ "left" \in Promise!Directed(<<vy, vz>>)
          \/ m = 3 /\ "right" \in Promise!Directed(<<vy, vz>>)
          \/ m = 4 /\ "up" \in Promise!Directed(<<vy, vz>>)
          \/ m = 5 /\ "down" \in Promise!Directed(<<vy, vz>>)
      <4> HIDE DEF m
      <4>1. vy \in Int /\ vz \in Int
        OBVIOUS
      <4>2. QED
        BY <3>3, <4>1, DirectedAre, AbsOfOpposite
    <3>5. QED
      <4>1. GestureOf(m, g) \in Meant
        <5> HIDE DEF m
        <5>1. QED
          BY <3>2, <3>4, GestureOfMovement
      <4>2. QED
        BY <4>1 DEF Meant
  <2>5. CASE o = 1 /\ "left" \in Promise!Palms(init)
    <3>1. m = Strongest(0, vy, vz, 4, 5, 3, 2)
      BY <1>2, <2>5 DEF movementDirection, largestPalmLeft
    <3>2. Promise!Directed(<<-vz, vy>>) \subseteq Meant
      BY <2>3, <2>5 DEF Promise!Turned
    <3>3. \/ m = 4 /\ vy >= Abs(vz)
          \/ m = 5 /\ -vy >= Abs(vz)
          \/ m = 3 /\ vz >= Abs(vy)
          \/ m = 2 /\ -vz >= Abs(vy)
      BY <3>1, <1>2, StrongestIsDirected
    <3>4. \/ m = 2 /\ "left" \in Promise!Directed(<<-vz, vy>>)
          \/ m = 3 /\ "right" \in Promise!Directed(<<-vz, vy>>)
          \/ m = 4 /\ "up" \in Promise!Directed(<<-vz, vy>>)
          \/ m = 5 /\ "down" \in Promise!Directed(<<-vz, vy>>)
      <4> HIDE DEF m
      <4>1. -vz \in Int /\ vy \in Int
        OBVIOUS
      <4>2. QED
        BY <3>3, <4>1, DirectedAre, AbsOfOpposite
    <3>5. QED
      <4>1. GestureOf(m, g) \in Meant
        <5> HIDE DEF m
        <5>1. QED
          BY <3>2, <3>4, GestureOfMovement
      <4>2. QED
        BY <4>1 DEF Meant
  <2>6. CASE o = 2 /\ "right" \in Promise!Palms(init)
    <3>1. m = Strongest(0, vy, vz, 5, 4, 2, 3)
      BY <1>2, <2>6 DEF movementDirection, largestPalmRight
    <3>2. Promise!Directed(<<vz, -vy>>) \subseteq Meant
      BY <2>3, <2>6 DEF Promise!Turned
    <3>3. \/ m = 5 /\ vy >= Abs(vz)
          \/ m = 4 /\ -vy >= Abs(vz)
          \/ m = 2 /\ vz >= Abs(vy)
          \/ m = 3 /\ -vz >= Abs(vy)
      BY <3>1, <1>2, StrongestIsDirected
    <3>4. \/ m = 2 /\ "left" \in Promise!Directed(<<vz, -vy>>)
          \/ m = 3 /\ "right" \in Promise!Directed(<<vz, -vy>>)
          \/ m = 4 /\ "up" \in Promise!Directed(<<vz, -vy>>)
          \/ m = 5 /\ "down" \in Promise!Directed(<<vz, -vy>>)
      <4> HIDE DEF m
      <4>1. vz \in Int /\ -vy \in Int
        OBVIOUS
      <4>2. QED
        BY <3>3, <4>1, DirectedAre, AbsOfOpposite
    <3>5. QED
      <4>1. GestureOf(m, g) \in Meant
        <5> HIDE DEF m
        <5>1. QED
          BY <3>2, <3>4, GestureOfMovement
      <4>2. QED
        BY <4>1 DEF Meant
  <2>7. CASE o = 3 /\ "up" \in Promise!Palms(init)
    <3>1. m = Strongest(0, vy, vz, 3, 2, 5, 4)
      BY <1>2, <2>7 DEF movementDirection, largestPalmUp
    <3>2. Promise!Directed(<<-vy, -vz>>) \subseteq Meant
      BY <2>3, <2>7 DEF Promise!Turned
    <3>3. \/ m = 3 /\ vy >= Abs(vz)
          \/ m = 2 /\ -vy >= Abs(vz)
          \/ m = 5 /\ vz >= Abs(vy)
          \/ m = 4 /\ -vz >= Abs(vy)
      BY <3>1, <1>2, StrongestIsDirected
    <3>4. \/ m = 2 /\ "left" \in Promise!Directed(<<-vy, -vz>>)
          \/ m = 3 /\ "right" \in Promise!Directed(<<-vy, -vz>>)
          \/ m = 4 /\ "up" \in Promise!Directed(<<-vy, -vz>>)
          \/ m = 5 /\ "down" \in Promise!Directed(<<-vy, -vz>>)
      <4> HIDE DEF m
      <4>1. -vy \in Int /\ -vz \in Int
        OBVIOUS
      <4>2. QED
        BY <3>3, <4>1, DirectedAre, AbsOfOpposite
    <3>5. QED
      <4>1. GestureOf(m, g) \in Meant
        <5> HIDE DEF m
        <5>1. QED
          BY <3>2, <3>4, GestureOfMovement
      <4>2. QED
        BY <4>1 DEF Meant
  <2>8. QED
    BY <2>4, <2>5, <2>6, <2>7, OrientationIsAPalm
<1>3. QED
  BY <1>1, <1>2


-----------------------------------------------------------------------------
(* Sums. *)

Before == {ss \in Nat \X Nat : ss[1] < ss[2]}
LEMMA Less == IsWellFoundedOn(Before, Nat)
  BY NatLessThanWellFounded DEF OpToRel, Before
LEMMA InBefore == ASSUME NEW i \in Nat, NEW j \in Nat, i < j PROVE <<i, j>> \in Before
  BY DEF Before
LEMMA LeastOf == ASSUME NEW T, T \subseteq Nat, T # {} PROVE \E x \in T : \A y \in T : x <= y
  <1>1. PICK x \in T : \A y \in T : <<y, x>> \notin Before
    BY Less, WFMin
  <1>2. \A y \in T : ~(y < x)
    BY <1>1, InBefore
  <1> QED BY <1>2

IsSum(t, m, a) == t[0] = 0 /\ \A i \in 1..m : t[i] = t[i - 1] + a[i]
Summed(n, a) == {m \in 0..n : \E t \in [0..m -> Int] : IsSum(t, m, a)}

LEMMA SumOfNone == ASSUME NEW n \in Nat, NEW a PROVE 0 \in Summed(n, a)
<1> DEFINE t == [i \in 0..0 |-> 0]
<1>1. t \in [0..0 -> Int] /\ IsSum(t, 0, a)
  BY DEF IsSum
<1> HIDE DEF t
<1>2. 0 \in 0..n
  OBVIOUS
<1>3. QED
  BY <1>1, <1>2 DEF Summed

LEMMA SumOfOneMore ==
  ASSUME NEW n \in Nat, NEW a \in [1..n -> Int], NEW m \in 1..n, m - 1 \in Summed(n, a)
  PROVE  m \in Summed(n, a)
<1>1. PICK t \in [0..(m - 1) -> Int] : IsSum(t, m - 1, a)
  BY DEF Summed
<1> DEFINE u == [i \in 0..m |-> IF i = m THEN t[m - 1] + a[m] ELSE t[i]]
<1>2. u \in [0..m -> Int]
  <2>1. t[m - 1] \in Int /\ a[m] \in Int /\ \A i \in 0..m : i # m => t[i] \in Int
    BY <1>1
  <2>2. t[m - 1] + a[m] \in Int
    BY <2>1
  <2> QED BY <2>1, <2>2
<1>3. u[0] = 0
  BY <1>1 DEF IsSum
<1>4. \A i \in 1..m : u[i] = u[i - 1] + a[i]
  BY <1>1 DEF IsSum
<1>5. IsSum(u, m, a)
  BY <1>3, <1>4 DEF IsSum
<1> HIDE DEF u
<1>6. m \in 0..n
  OBVIOUS
<1>7. QED
  BY <1>2, <1>5, <1>6 DEF Summed

\* A sum that runs along a sequence of numbers exists.
LEMMA Sums ==
  ASSUME NEW n \in Nat, NEW a \in [1..n -> Int]
  PROVE  \E t \in [0..n -> Int] : t = [i \in 0..n |-> IF i = 0 THEN 0 ELSE t[i - 1] + a[i]]
<1> DEFINE Without == (0..n) \ Summed(n, a)
<1>1. Without = {}
  <2>1. SUFFICES ASSUME Without # {} PROVE FALSE
    OBVIOUS
  <2>2. Without \subseteq Nat
    OBVIOUS
  <2>3. PICK m \in Without : \A k \in Without : m <= k
    <3> HIDE DEF Without
    <3>1. QED
      BY <2>1, <2>2, LeastOf
  <2>4. m # 0
    BY <2>3, SumOfNone
  <2>5. m \in 1..n /\ m - 1 \in Summed(n, a)
    BY <2>3, <2>4
  <2>6. QED
    BY <2>3, <2>5, SumOfOneMore
<1>2. n \in Summed(n, a)
  BY <1>1
<1>3. PICK t \in [0..n -> Int] : IsSum(t, n, a)
  BY <1>2 DEF Summed
<1>4. \A i \in 0..n : t[i] = IF i = 0 THEN 0 ELSE t[i - 1] + a[i]
  BY <1>3 DEF IsSum
<1>5. t = [i \in 0..n |-> IF i = 0 THEN 0 ELSE t[i - 1] + a[i]]
  BY <1>4
<1>6. QED
  BY <1>5


-----------------------------------------------------------------------------
(* Types. *)

int16   == -2^15..2^15 - 1
Letters == [c: Anything, v: int16, of: Nat]
Press   == [init: Inits, samples: Seq(Samples)]
Reads   == [state: {"blank", "digits", "over"}, v: Int]
Parser  == [streamStart: BOOLEAN, countStart: BOOLEAN, initStart: BOOLEAN,
            initCounter: 0..2, cycleCount: 0..1, counti: Nat, count: Int,
            buffer: Reads, inc_i: Nat, dirty: BOOLEAN,
            init: [1..3 -> Int], vOldy: Int, vOldz: Int, VAveragey: Int, VAveragez: Int]

History ==
  /\ line \in Seq(Letters)
  /\ presses \in Seq(Press)
  /\ \A k \in 1..Len(presses) : Len(presses[k].samples) \in 1..MaxSamples
  /\ (glove.held => glove.init \in Inits) /\ Len(glove.samples) <= MaxSamples
  /\ turned \in Nat
  /\ left \in [touches: Nat, losses: 0..MaxLost]
  /\ (left.losses = MaxLost => lost = {})

Types == TypeOK /\ History

LEMMA DigitsAre ==
  ASSUME NEW n \in Nat, n < 100000
  PROVE  Digits(n) \in 1..5 /\ Decades[Digits(n)] \in Nat
<1>1. \E d \in 1..5 : n < Decades[d] /\ (d > 1 => Decades[d - 1] <= n)
  <2>1. CASE n < 10
    BY <2>1 DEF Decades
  <2>2. CASE 10 <= n /\ n < 100
    BY <2>2 DEF Decades
  <2>3. CASE 100 <= n /\ n < 1000
    BY <2>3 DEF Decades
  <2>4. CASE 1000 <= n /\ n < 10000
    BY <2>4 DEF Decades
  <2>5. CASE 10000 <= n /\ n < 100000
    BY <2>5 DEF Decades
  <2>6. QED
    BY <2>1, <2>2, <2>3, <2>4, <2>5
<1>2. Digits(n) \in 1..5
  BY <1>1 DEF Digits
<1>3. \A d \in 1..5 : Decades[d] \in Nat
  BY DEF Decades
<1>4. QED
  BY <1>2, <1>3

LEMMA LetterIs ==
  ASSUME NEW ch \in Letters
  PROVE  ch.c \in Anything /\ ch.v \in int16 /\ ch.of \in Nat
BY DEF Letters

LEMMA Int16Is ==
  ASSUME NEW n \in int16
  PROVE  n \in Int /\ n <= 32767 /\ -32768 <= n /\ Abs(n) \in Nat /\ Abs(n) <= 32768
<1>1. n \in Int /\ n <= 32767 /\ -32768 <= n
  BY DEF int16
<1>2. QED
  BY <1>1 DEF Abs

LEMMA PlacesAre ==
  ASSUME NEW ch \in Letters
  PROVE  Places(ch) \in 1..6 /\ (ch.c = "CR" => Places(ch) = 1)
<1>1. CASE ch.c = "numeral"
  <2>1. Abs(ch.v) \in Nat /\ Abs(ch.v) < 100000
    BY LetterIs, Int16Is
  <2>2. Digits(Abs(ch.v)) \in 1..5
    BY <2>1, DigitsAre
  <2>3. Places(ch) = Digits(Abs(ch.v)) + (IF ch.v < 0 THEN 1 ELSE 0)
    BY <1>1 DEF Places
  <2>4. QED
    BY <2>2, <2>3, <1>1
<1>2. CASE ch.c # "numeral"
  BY <1>2 DEF Places
<1>3. QED
  BY <1>1, <1>2

LEMMA ScanReads ==
  ASSUME NEW read \in Reads, NEW ch \in Letters
  PROVE  Scan(read, ch) \in Reads
<1>1. CASE read.state = "digits" /\ ch.c = "numeral" /\ ch.v >= 0
  <2>1. ch.v \in Int /\ ch.v < 100000 /\ Abs(ch.v) = ch.v /\ read.v \in Int
    BY <1>1, LetterIs, Int16Is DEF Reads, Abs
  <2>2. Decades[Digits(ch.v)] \in Int
    BY <1>1, <2>1, DigitsAre
  <2> DEFINE v == IF read.v < 0 THEN read.v * Decades[Digits(ch.v)] - ch.v
                                ELSE read.v * Decades[Digits(ch.v)] + ch.v
  <2>3. v \in Int
    BY <2>1, <2>2
  <2>4. Scan(read, ch) = [read EXCEPT !.v = v]
    BY <1>1 DEF Scan
  <2> HIDE DEF v
  <2>5. QED
    BY <2>3, <2>4 DEF Reads
<1>2. CASE read.state = "blank" /\ ch.c = "numeral"
  BY <1>2, LetterIs, Int16Is DEF Scan, Reads
<1>3. CASE read.state = "blank" /\ ch.c \in {"CR", "LF"}
  BY <1>3 DEF Scan, Reads
<1>4. QED
  BY <1>1, <1>2, <1>3 DEF Scan, Reads

LEMMA AtoiIsInt ==
  ASSUME NEW read \in Reads, NEW dirty \in BOOLEAN
  PROVE  /\ atoi(read, dirty) \subseteq Int
         /\ (read.state = "over" => atoi(read, dirty) = {read.v})
BY DEF atoi, Reads

LEMMA EmptyBuffer ==
  ASSUME NEW q \in Parser, NEW d \in BOOLEAN
  PROVE  [q EXCEPT !.buffer = Empty, !.inc_i = 0, !.dirty = d] \in Parser
<1>1. Empty \in Reads
  BY DEF Empty, Reads
<1>2. QED
  BY <1>1 DEF Parser

LEMMA RewoundParser == ASSUME NEW q \in Parser PROVE Rewound(q) \in Parser
<1>1. (q.dirty \/ q.inc_i # 0) \in BOOLEAN
  OBVIOUS
<1>2. QED
  BY <1>1, EmptyBuffer DEF Rewound

LEMMA ClearedParser == ASSUME NEW q \in Parser PROVE Cleared(q) \in Parser
BY EmptyBuffer DEF Cleared

\* The character at the head of a line, and what is behind it.
LEMMA HeadAndTail ==
  ASSUME line \in Seq(Letters), line # <<>>
  PROVE  /\ Head(line) \in Letters /\ Head(line) = line[1]
         /\ Tail(line) \in Seq(Letters)
         /\ Len(line) \in Nat \ {0} /\ Len(Tail(line)) = Len(line) - 1
         /\ \A i \in 1..Len(Tail(line)) : Tail(line)[i] = line[i + 1]
OBVIOUS

LEMMA BoundsAre ==
  /\ MaxSamples \in Nat /\ MaxSamples >= 1 /\ MaxSamples <= 32767
  /\ MaxPresses \in Nat /\ MaxTouches \in Nat /\ MaxLost \in Nat /\ MaxLag \in Nat
<1>1. /\ MaxSamples \in 1..2^15 - 1
      /\ MaxPresses \in Nat /\ MaxTouches \in Nat /\ MaxLost \in Nat /\ MaxLag \in Nat
  BY StreamAssumption, Zenon
<1>2. QED
  BY <1>1

\* What a stream is made of.
LEMMA WordIsInt ==
  ASSUME NEW press \in Press, Len(press.samples) \in 1..MaxSamples,
         NEW w \in 1..Words(press.samples)
  PROVE  Word(press.init, press.samples, w) \in int16
<1> DEFINE n == Len(press.samples)
           j == (w - 3) \div 2
<1>1. press.init \in int16 \X int16 \X int16 /\ press.samples \in Seq(int16 \X int16)
  <2>1. Inits \subseteq int16 \X int16 \X int16 /\ Samples \subseteq int16 \X int16
    BY StreamAssumption DEF int16
  <2>2. press.init \in Inits /\ press.samples \in Seq(Samples)
    BY DEF Press
  <2>3. QED
    BY <2>1, <2>2
<1>2. n \in Nat /\ n <= 32767 /\ w \in Nat /\ w >= 1 /\ w <= 4 + 2 * n
  <2>1. MaxSamples \in Nat /\ MaxSamples <= 32767
    BY BoundsAre
  <2>2. n \in Nat /\ n <= MaxSamples
    BY <1>1, <2>1
  <2>3. QED
    BY <2>1, <2>2 DEF Words
<1>3. CASE w = 1
  BY <1>2, <1>3 DEF Word, int16
<1>4. CASE w # 1 /\ w <= 4
  BY <1>1, <1>2, <1>4 DEF Word
<1>5. CASE w > 4
  <2>1. j \in 1..n
    BY <1>2, <1>5
  <2>2. press.samples[j] \in int16 \X int16
    BY <1>1, <2>1
  <2>3. press.samples[j][1] \in int16 /\ press.samples[j][2] \in int16
    BY <2>2
  <2>4. Word(press.init, press.samples, w) = press.samples[j][IF w % 2 = 1 THEN 1 ELSE 2]
    BY <1>2, <1>5 DEF Word
  <2>5. QED
    BY <2>3, <2>4
<1>6. QED
  BY <1>2, <1>3, <1>4, <1>5


LEMMA SymbolsAreLetters ==
  ASSUME NEW k \in Nat
  PROVE  /\ \A c \in Anything : Char(c, k) \in Letters
         /\ \A v \in int16 : Numeral(v, k) \in Letters
<1>1. 0 \in int16 /\ "numeral" \in Anything
  BY DEF int16, Anything
<1>2. \A c \in Anything, v \in int16 : [c |-> c, v |-> v, of |-> k] \in Letters
  BY DEF Letters
<1>3. QED
  BY <1>1, <1>2, Zenon DEF Char, Numeral

\* A stream, symbol by symbol.
LEMMA StreamIs ==
  ASSUME NEW press \in Press, Len(press.samples) \in 1..MaxSamples, NEW k \in Nat
  PROVE  LET str == Stream(press.init, press.samples, k)
             n   == Words(press.samples)
         IN  /\ n \in Nat /\ n >= 6
             /\ str \in Seq(Letters) /\ Len(str) = 3 * n + 2
             /\ str[1] = Char("C", k)
             /\ \A w \in 1..n :
                  /\ str[3 * w - 1] = Numeral(Word(press.init, press.samples, w), k)
                  /\ str[3 * w] = Char("CR", k)
                  /\ str[3 * w + 1] = Char("LF", k)
             /\ str[3 * n + 2] = Char("E", k)
<1> DEFINE n == Words(press.samples)
           Symbol(w, part) ==
             CASE w = 0 -> Char("C", k)
               [] w = n + 1 -> Char("E", k)
               [] OTHER -> CASE part = 0 -> Numeral(Word(press.init, press.samples, w), k)
                             [] part = 1 -> Char("CR", k)
                             [] part = 2 -> Char("LF", k)
           str == Stream(press.init, press.samples, k)
<1>1. n \in Nat /\ n >= 6
  <2>1. Len(press.samples) \in Nat /\ Len(press.samples) >= 1
    BY BoundsAre
  <2>2. QED
    BY <2>1 DEF Words
<1>2. str = [i \in 1..(3 * n + 2) |-> Symbol((i + 1) \div 3, (i + 1) % 3)]
  BY DEF Stream
<1> HIDE DEF str
<1>3. \A w \in 1..n : Word(press.init, press.samples, w) \in int16
  BY WordIsInt
<1>4. /\ Symbol(0, 2) = Char("C", k) /\ Symbol(n + 1, 0) = Char("E", k)
      /\ \A w \in 1..n : /\ Symbol(w, 0) = Numeral(Word(press.init, press.samples, w), k)
                         /\ Symbol(w, 1) = Char("CR", k)
                         /\ Symbol(w, 2) = Char("LF", k)
  BY <1>1
<1>5. Symbol(0, 2) \in Letters /\ Symbol(n + 1, 0) \in Letters
  BY <1>4, SymbolsAreLetters DEF Anything
<1>6. \A w \in 1..n : Symbol(w, 0) \in Letters /\ Symbol(w, 1) \in Letters /\ Symbol(w, 2) \in Letters
  BY <1>3, <1>4, SymbolsAreLetters DEF Anything
<1> HIDE DEF Symbol, n
<1>7. \A i \in 1..(3 * n + 2) : str[i] \in Letters
  <2>1. TAKE i \in 1..(3 * n + 2)
  <2>2. str[i] = Symbol((i + 1) \div 3, (i + 1) % 3)
    BY <1>2
  <2>3. \/ (i + 1) \div 3 = 0 /\ (i + 1) % 3 = 2
        \/ (i + 1) \div 3 = n + 1 /\ (i + 1) % 3 = 0
        \/ (i + 1) \div 3 \in 1..n /\ (i + 1) % 3 \in {0, 1, 2}
    BY <1>1
  <2>4. QED
    BY <2>2, <2>3, <1>5, <1>6
<1>8. str \in Seq(Letters) /\ Len(str) = 3 * n + 2
  <2>1. str \in [1..(3 * n + 2) -> Letters] /\ 3 * n + 2 \in Nat
    BY <1>1, <1>2, <1>7
  <2>2. QED
    BY <2>1
<1>9. str[1] = Char("C", k) /\ str[3 * n + 2] = Char("E", k)
  <2>1. (1 + 1) \div 3 = 0 /\ (1 + 1) % 3 = 2
    OBVIOUS
  <2>2. (3 * n + 2 + 1) \div 3 = n + 1 /\ (3 * n + 2 + 1) % 3 = 0
    BY <1>1
  <2>3. 1 \in 1..(3 * n + 2) /\ 3 * n + 2 \in 1..(3 * n + 2)
    BY <1>1
  <2>4. str[1] = Symbol((1 + 1) \div 3, (1 + 1) % 3)
    BY <1>2, <2>3
  <2>5. str[3 * n + 2] = Symbol((3 * n + 2 + 1) \div 3, (3 * n + 2 + 1) % 3)
    BY <1>2, <2>3
  <2>6. QED
    BY <2>1, <2>2, <2>4, <2>5, <1>4
<1>10. ASSUME NEW w \in 1..n
       PROVE  /\ str[3 * w - 1] = Numeral(Word(press.init, press.samples, w), k)
              /\ str[3 * w] = Char("CR", k)
              /\ str[3 * w + 1] = Char("LF", k)
  <2>1. /\ (3 * w - 1 + 1) \div 3 = w /\ (3 * w - 1 + 1) % 3 = 0
        /\ (3 * w + 1) \div 3 = w /\ (3 * w + 1) % 3 = 1
        /\ (3 * w + 1 + 1) \div 3 = w /\ (3 * w + 1 + 1) % 3 = 2
    BY <1>1
  <2>2. 3 * w - 1 \in 1..(3 * n + 2) /\ 3 * w \in 1..(3 * n + 2) /\ 3 * w + 1 \in 1..(3 * n + 2)
    BY <1>1
  <2>3. /\ str[3 * w - 1] = Symbol((3 * w - 1 + 1) \div 3, (3 * w - 1 + 1) % 3)
        /\ str[3 * w] = Symbol((3 * w + 1) \div 3, (3 * w + 1) % 3)
        /\ str[3 * w + 1] = Symbol((3 * w + 1 + 1) \div 3, (3 * w + 1 + 1) % 3)
    BY <1>2, <2>2
  <2>4. QED
    BY <2>1, <2>3, <1>4
<1>11. QED
  BY <1>1, <1>8, <1>9, <1>10 DEF n, str

-----------------------------------------------------------------------------
(* Where the parser is in what the glove has printed. *)

\* Part s of word w of press k: word 0 is the 'C', the last the 'E', and those between are
\* numbers with a '\r' (part 1) and a '\n' (part 2). Between two streams w is 0.
Mark == [k: Nat \ {0}, w: Nat, s: 0..2]

W(k) == Words(presses[k].samples)

\* ch may be the character at mark m of the presses made, and n is the mark behind it.
Leads(made, m, ch, n) ==
  \/ m.w = 0 /\ ch.of = 0 /\ ch.c \notin {"C", "E"} /\ n = m
  \/ /\ m.k \in 1..Len(made) /\ ch.of = m.k
     /\ LET press == made[m.k]
            last  == Words(press.samples)
        IN  \/ m.w = 0 /\ ch.c = "C" /\ n = [k |-> m.k, w |-> 1, s |-> 0]
            \/ /\ m.w \in 1..last /\ m.s = 0
               /\ ch.c = "numeral" /\ ch.v = Word(press.init, press.samples, m.w)
               /\ n = [k |-> m.k, w |-> m.w, s |-> 1]
            \/ m.w \in 1..last /\ m.s = 1 /\ ch.c = "CR" /\ n = [k |-> m.k, w |-> m.w, s |-> 2]
            \/ m.w \in 1..last /\ m.s = 2 /\ ch.c = "LF" /\ n = [k |-> m.k, w |-> m.w + 1, s |-> 0]
            \/ m.w = last + 1 /\ ch.c = "E" /\ n = [k |-> m.k + 1, w |-> 0, s |-> 2]

\* The characters unread are those from mark m to the end of the last press.
Unread(m) ==
  \E f \in [1..(Len(line) + 1) -> Mark] :
    /\ f[1] = m
    /\ \A i \in 1..Len(line) : Leads(presses, f[i], line[i], f[i + 1])
    /\ f[Len(line) + 1] = [k |-> Len(presses) + 1, w |-> 0, s |-> 2]

-----------------------------------------------------------------------------
(* What the parser has made of what it has read. *)

\* Two losses leave the parser newlines enough to be out of the count and of the
\* accelerations at rest before the 'E'.
Few      == MaxLost <= 2
Sound    == Few \/ lost = {}
Whole(k) == k \notin lost /\ k - 1 \notin lost

Still == p.vOldy = 0 /\ p.vOldz = 0 /\ p.VAveragey = 0 /\ p.VAveragez = 0

\* Outside a stream the parser is as it was at first, and a stream read there has lost its 'C'.
Clean(m) ==
  Sound /\ ~p.streamStart =>
    /\ ~p.countStart /\ ~p.initStart /\ Still /\ p.inc_i = 0 /\ p.cycleCount = 0
    /\ m.w >= 1 => m.k \in lost

\* While it counts newlines there are at least as many to come as it waits for, whatever
\* may still be lost.
Slack(m) ==
  Few /\ p.streamStart /\ (p.countStart \/ p.initStart) =>
    /\ m.w >= 1 /\ Still
    /\ ~(p.countStart /\ p.initStart)
    /\ p.countStart => W(m.k) + 1 - m.w >= 4 + left.losses
    /\ p.initStart  => W(m.k) + 1 - m.w >= 3 - p.initCounter + left.losses

Between(m) == Sound /\ m.w = 0 /\ m.k - 1 \notin lost => ~p.streamStart

\* The speeds so far, and what they come to if the rest of the samples are zero.
Running(press) ==
  LET n == Len(press.samples)
      i == p.counti + p.cycleCount
  IN  /\ p.VAveragey + (n - i) * p.vOldy = Promise!Totals(press.samples, 1)[i]
      /\ p.VAveragez + (n - p.counti) * p.vOldz = Promise!Totals(press.samples, 2)[p.counti]

Scanned(press, m) ==
  /\ m.s = 0 => p.buffer = Empty /\ p.inc_i = 0
  /\ m.s = 1 => /\ p.buffer.state = "digits" /\ p.buffer.v = Word(press.init, press.samples, m.w)
                /\ p.inc_i <= 6
  /\ m.s = 2 => /\ p.buffer.state = "over" /\ p.buffer.v = Word(press.init, press.samples, m.w)
                /\ p.inc_i <= 7

\* The parser in a stream it has read whole.
InStep(press, m) ==
  /\ p.streamStart
  /\ m.w = 1 => p.countStart /\ ~p.initStart
  /\ m.w \in 2..4 => ~p.countStart /\ p.initStart /\ p.initCounter = m.w - 2
  /\ m.w >= 5 => ~p.countStart /\ ~p.initStart
  /\ m.w >= 2 => p.count = Len(press.samples)
  /\ \A i \in 1..3 : m.w >= i + 2 => p.init[i] = press.init[i]
  /\ m.w <= 4 => Still /\ p.counti = 0 /\ p.cycleCount = 0
  /\ m.w >= 5 => m.w = 5 + 2 * p.counti + p.cycleCount /\ Running(press)
  /\ Scanned(press, m)

Exact(m) == Sound /\ m.w >= 1 /\ Whole(m.k) => InStep(presses[m.k], m)

At(m) == m.k = turned + 1 /\ Clean(m) /\ Slack(m) /\ Between(m) /\ Exact(m)

IInv == Types /\ \E m \in Mark : Unread(m) /\ At(m)

-----------------------------------------------------------------------------
(* Every step keeps the types. *)

LEMMA InitTypes == Init => Types
<1> SUFFICES ASSUME Init PROVE Types
  OBVIOUS
<1>1. glove \in [held: BOOLEAN, init: Inits \cup {<<0, 0, 0>>}, samples: Seq(Samples)]
  BY DEF Init
<1>2. p \in Parser
  BY DEF Init, Idle, Parser, Reads, Empty
<1>3. line = <<>> /\ presses = <<>> /\ turned = 0 /\ lost = {} /\ gesture = "null"
  BY DEF Init
<1>4. left \in [touches: Nat, losses: 0..MaxLost]
  BY BoundsAre DEF Init
<1>5. ~glove.held /\ glove.samples = <<>>
  BY DEF Init
<1>6. History
  <2>1. Len(glove.samples) <= MaxSamples
    BY <1>5, BoundsAre
  <2>2. QED
    BY <1>3, <1>4, <1>5, <2>1 DEF History
<1>7. line \in Seq([c: Anything, v: Int, of: Nat])
  BY <1>3
<1>8. QED
  BY <1>1, <1>2, <1>3, <1>6, <1>7 DEF Types, TypeOK, Parser, Reads

\* TypeOK, with its sets named.
LEMMA TypesAre ==
  ASSUME Types
  PROVE  /\ glove \in [held: BOOLEAN, init: Inits \cup {<<0, 0, 0>>}, samples: Seq(Samples)]
         /\ p \in Parser
         /\ gesture \in {"null", "left", "right", "up", "down"}
         /\ History
BY DEF Types, TypeOK, Parser, Reads

LEMMA SeqOfMore ==
  ASSUME NEW S, NEW T, \A e \in S : e \in T, NEW sq \in Seq(S)
  PROVE  sq \in Seq(T)
OBVIOUS

LEMMA LettersAreTyped ==
  ASSUME NEW sq \in Seq(Letters)
  PROVE  sq \in Seq([c: Anything, v: Int, of: Nat])
<1>1. ASSUME NEW ch \in Letters
      PROVE  ch \in [c: Anything, v: Int, of: Nat]
  <2>1. ch.c \in Anything /\ ch.v \in Int /\ ch.of \in Nat
    BY LetterIs, Int16Is
  <2>2. ch = [c |-> ch.c, v |-> ch.v, of |-> ch.of]
    BY DEF Letters
  <2>3. QED
    BY <2>1, <2>2
<1>2. QED
  BY <1>1, SeqOfMore

LEMMA TypesNext ==
  ASSUME glove' \in [held: BOOLEAN, init: Inits \cup {<<0, 0, 0>>}, samples: Seq(Samples)],
         p' \in Parser,
         gesture' \in {"null", "left", "right", "up", "down"},
         History'
  PROVE  Types'
<1>1. line' \in Seq(Letters)
  BY DEF History
<1>2. line' \in Seq([c: Anything, v: Int, of: Nat])
  BY <1>1, LettersAreTyped
<1>3. QED
  BY <1>2 DEF Types, TypeOK, Parser, Reads

\* A character taken from the line, and what an action of the reader does besides.
LEMMA ReadTypes ==
  ASSUME Types, line # <<>>, line' = Tail(line), p' \in Parser,
         gesture' \in {"null", "left", "right", "up", "down"},
         turned' \in Nat, lost' = lost, UNCHANGED <<glove, presses, left>>
  PROVE  Types'
<1>1. line' \in Seq(Letters)
  BY HeadAndTail DEF Types, History
<1>2. History'
  BY <1>1 DEF Types, History
<1>3. QED
  BY <1>2, TypesAre, TypesNext

LEMMA ReadIs ==
  ASSUME NEW classes, Types, Read(classes)
  PROVE  /\ line # <<>> /\ line' = Tail(line)
         /\ Head(line) \in Letters /\ Head(line).c \in classes /\ Head(line).of \in Nat
BY HeadAndTail, LetterIs DEF Read, Types, History

LEMMA StartStreamTypes ==
  ASSUME Types, StartStream
  PROVE  Types'
<1>1. p \in Parser
  BY TypesAre
<1>2. [p EXCEPT !.streamStart = TRUE, !.countStart = TRUE, !.cycleCount = 0, !.counti = 0] \in Parser
  <2>1. ASSUME NEW t \in BOOLEAN, NEW i \in 0..1, NEW j \in Nat
        PROVE  [p EXCEPT !.streamStart = t, !.countStart = t, !.cycleCount = i, !.counti = j] \in Parser
    BY <1>1 DEF Parser
  <2>2. TRUE \in BOOLEAN /\ 0 \in 0..1 /\ 0 \in Nat
    OBVIOUS
  <2>3. QED
    BY <2>1, <2>2, Zenon
<1>3. p' \in Parser
  BY <1>2, RewoundParser DEF StartStream
<1>4. QED
  BY <1>3, ReadIs, TypesAre, ReadTypes DEF StartStream, history, History

LEMMA EndCountTypes ==
  ASSUME Types, EndCount
  PROVE  Types'
<1>1. p \in Parser /\ p.buffer \in Reads /\ p.dirty \in BOOLEAN
  BY TypesAre DEF Parser
<1>2. PICK n \in atoi(p.buffer, p.dirty) :
        p' = Cleared([p EXCEPT !.countStart = FALSE, !.cycleCount = 0, !.count = n,
                               !.counti = 0, !.initStart = TRUE, !.initCounter = 0])
  BY DEF EndCount
<1>3. n \in Int
  BY <1>1, AtoiIsInt
<1>4. [p EXCEPT !.countStart = FALSE, !.cycleCount = 0, !.count = n,
                !.counti = 0, !.initStart = TRUE, !.initCounter = 0] \in Parser
  <2>1. ASSUME NEW t \in BOOLEAN, NEW f \in BOOLEAN, NEW i \in 0..1, NEW j \in Nat, NEW c \in 0..2
        PROVE  [p EXCEPT !.countStart = f, !.cycleCount = i, !.count = n,
                         !.counti = j, !.initStart = t, !.initCounter = c] \in Parser
    BY <1>1, <1>3 DEF Parser
  <2>2. TRUE \in BOOLEAN /\ FALSE \in BOOLEAN /\ 0 \in 0..1 /\ 0 \in Nat /\ 0 \in 0..2
    OBVIOUS
  <2>3. QED
    BY <2>1, <2>2, Zenon
<1>5. p' \in Parser
  BY <1>2, <1>4, ClearedParser
<1>6. QED
  BY <1>5, ReadIs, TypesAre, ReadTypes DEF EndCount, history, History

LEMMA EndInitTypes ==
  ASSUME Types, EndInit
  PROVE  Types'
<1>1. /\ p \in Parser /\ p.buffer \in Reads /\ p.dirty \in BOOLEAN
      /\ p.initCounter \in 0..2 /\ p.init \in [1..3 -> Int] /\ p.counti \in Nat
  BY TypesAre DEF Parser
<1>2. PICK n \in atoi(p.buffer, p.dirty) :
        p' = Cleared([p EXCEPT !.init[p.initCounter + 1] = n,
                               !.initStart = p.initCounter < 2,
                               !.initCounter = (p.initCounter + 1) % 3,
                               !.counti = IF p.initCounter = 2 THEN 0 ELSE p.counti])
  BY DEF EndInit
<1>3. n \in Int
  BY <1>1, AtoiIsInt
<1>4. PICK i : i = [p.init EXCEPT ![p.initCounter + 1] = n]
  OBVIOUS
<1>5. i \in [1..3 -> Int] /\ (p.initCounter < 2) \in BOOLEAN /\ (p.initCounter + 1) % 3 \in 0..2
      /\ (IF p.initCounter = 2 THEN 0 ELSE p.counti) \in Nat
  BY <1>1, <1>3, <1>4
<1>6. p' = Cleared([p EXCEPT !.init = i,
                             !.initStart = p.initCounter < 2,
                             !.initCounter = (p.initCounter + 1) % 3,
                             !.counti = IF p.initCounter = 2 THEN 0 ELSE p.counti])
  BY <1>2, <1>4
<1>7. ASSUME NEW b \in BOOLEAN, NEW c \in 0..2, NEW j \in Nat
      PROVE  [p EXCEPT !.init = i, !.initStart = b, !.initCounter = c, !.counti = j] \in Parser
  BY <1>1, <1>5 DEF Parser
<1>8. p' \in Parser
  BY <1>5, <1>6, <1>7, ClearedParser
<1>9. QED
  BY <1>8, ReadIs, TypesAre, ReadTypes DEF EndInit, history, History

LEMMA EndSampleTypes ==
  ASSUME Types, EndSample
  PROVE  Types'
<1>1. /\ p \in Parser /\ p.buffer \in Reads /\ p.dirty \in BOOLEAN /\ p.counti \in Nat
      /\ p.vOldy \in Int /\ p.vOldz \in Int /\ p.VAveragey \in Int /\ p.VAveragez \in Int
  BY TypesAre DEF Parser
<1>2. PICK n \in atoi(p.buffer, p.dirty) :
        p' = Cleared(IF p.cycleCount = 0
                     THEN [p EXCEPT !.vOldy = p.vOldy + n, !.VAveragey = p.VAveragey + p.vOldy + n,
                                    !.cycleCount = 1]
                     ELSE [p EXCEPT !.vOldz = p.vOldz + n, !.VAveragez = p.VAveragez + p.vOldz + n,
                                    !.counti = p.counti + 1, !.cycleCount = 0])
  BY DEF EndSample
<1>3. n \in Int
  BY <1>1, AtoiIsInt
<1>4. [p EXCEPT !.vOldy = p.vOldy + n, !.VAveragey = p.VAveragey + p.vOldy + n,
                !.cycleCount = 1] \in Parser
  <2>1. ASSUME NEW y \in Int, NEW ay \in Int, NEW i \in 0..1
        PROVE  [p EXCEPT !.vOldy = y, !.VAveragey = ay, !.cycleCount = i] \in Parser
    BY <1>1 DEF Parser
  <2>2. p.vOldy + n \in Int /\ p.VAveragey + p.vOldy + n \in Int /\ 1 \in 0..1
    BY <1>1, <1>3
  <2>3. QED
    BY <2>1, <2>2, Zenon
<1>5. [p EXCEPT !.vOldz = p.vOldz + n, !.VAveragez = p.VAveragez + p.vOldz + n,
                !.counti = p.counti + 1, !.cycleCount = 0] \in Parser
  <2>1. ASSUME NEW z \in Int, NEW az \in Int, NEW j \in Nat, NEW i \in 0..1
        PROVE  [p EXCEPT !.vOldz = z, !.VAveragez = az, !.counti = j, !.cycleCount = i] \in Parser
    BY <1>1 DEF Parser
  <2>2. /\ p.vOldz + n \in Int /\ p.VAveragez + p.vOldz + n \in Int
        /\ p.counti + 1 \in Nat /\ 0 \in 0..1
    BY <1>1, <1>3
  <2>3. QED
    BY <2>1, <2>2, Zenon
<1>6. p' \in Parser
  BY <1>2, <1>4, <1>5, ClearedParser
<1>7. QED
  BY <1>6, ReadIs, TypesAre, ReadTypes DEF EndSample, history, History

LEMMA EndStreamTypes ==
  ASSUME Types, EndStream
  PROVE  Types'
<1>1. p \in Parser /\ gesture \in {"null", "left", "right", "up", "down"}
  BY TypesAre
<1>2. [p EXCEPT !.streamStart = FALSE, !.cycleCount = 0, !.counti = 0,
                !.VAveragey = 0, !.VAveragez = 0, !.count = 0,
                !.vOldy = 0, !.vOldz = 0] \in Parser
  <2>1. ASSUME NEW f \in BOOLEAN, NEW i \in 0..1, NEW j \in Nat, NEW v \in Int
        PROVE  [p EXCEPT !.streamStart = f, !.cycleCount = i, !.counti = j,
                         !.VAveragey = v, !.VAveragez = v, !.count = v,
                         !.vOldy = v, !.vOldz = v] \in Parser
    BY <1>1 DEF Parser
  <2>2. FALSE \in BOOLEAN /\ 0 \in 0..1 /\ 0 \in Nat /\ 0 \in Int
    OBVIOUS
  <2>3. QED
    BY <2>1, <2>2, Zenon
<1>3. p' \in Parser
  BY <1>2, RewoundParser DEF EndStream
<1>4. \A mv : GestureOf(mv, gesture) \in {"null", "left", "right", "up", "down"}
  BY <1>1 DEF GestureOf
<1>5. gesture' \in {"null", "left", "right", "up", "down"}
  BY <1>4, Zenon DEF EndStream
<1>6. turned' \in Nat /\ line # <<>> /\ line' = Tail(line) /\ lost' = lost
      /\ UNCHANGED <<glove, presses, left>>
  BY ReadIs DEF EndStream
<1>7. QED
  BY <1>3, <1>5, <1>6, ReadTypes

LEMMA BufferTypes ==
  ASSUME Types, Buffer
  PROVE  Types'
<1>1. p \in Parser /\ p.buffer \in Reads /\ p.inc_i \in Nat /\ Head(line) \in Letters
  BY TypesAre, ReadIs DEF Parser, Buffer
<1>2. Scan(p.buffer, Head(line)) \in Reads /\ p.inc_i + Places(Head(line)) \in Nat
  BY <1>1, ScanReads, PlacesAre
<1>3. ASSUME NEW b \in Reads, NEW i \in Nat
      PROVE  [p EXCEPT !.buffer = b, !.inc_i = i] \in Parser
  BY <1>1 DEF Parser
<1>4. p' \in Parser
  BY <1>2, <1>3 DEF Buffer
<1>5. turned' \in Nat
  BY TypesAre, ReadIs DEF Buffer, History
<1>6. QED
  BY <1>4, <1>5, ReadIs, TypesAre, ReadTypes DEF Buffer

LEMMA IgnoreTypes ==
  ASSUME Types, Ignore
  PROVE  Types'
<1>1. turned' \in Nat
  BY TypesAre, ReadIs DEF Ignore, History
<1>2. QED
  BY <1>1, ReadIs, TypesAre, ReadTypes DEF Ignore

LEMMA PressDownTypes ==
  ASSUME Types, PressDown
  PROVE  Types'
<1>1. PICK init \in Inits : glove' = [held |-> TRUE, init |-> init, samples |-> <<>>]
  BY DEF PressDown
<1>2. glove' \in [held: BOOLEAN, init: Inits \cup {<<0, 0, 0>>}, samples: Seq(Samples)]
  BY <1>1
<1>3. glove'.init \in Inits /\ Len(glove'.samples) <= MaxSamples
  BY <1>1, BoundsAre
<1>4. History'
  BY <1>3, TypesAre DEF PressDown, History, history
<1>5. QED
  BY <1>2, <1>4, TypesAre, TypesNext DEF PressDown

LEMMA SampleTypes ==
  ASSUME Types, Sample
  PROVE  Types'
<1>1. /\ glove \in [held: BOOLEAN, init: Inits \cup {<<0, 0, 0>>}, samples: Seq(Samples)]
      /\ Len(glove.samples) < MaxSamples
  BY TypesAre DEF Sample
<1>2. PICK a \in Samples : glove' = [glove EXCEPT !.samples = Append(glove.samples, a)]
  BY DEF Sample
<1>3. /\ Append(glove.samples, a) \in Seq(Samples)
      /\ Len(Append(glove.samples, a)) = Len(glove.samples) + 1
      /\ Len(glove.samples) \in Nat
  BY <1>1, <1>2
<1>4. /\ glove' \in [held: BOOLEAN, init: Inits \cup {<<0, 0, 0>>}, samples: Seq(Samples)]
      /\ glove'.init = glove.init /\ glove'.held = glove.held
      /\ glove'.samples = Append(glove.samples, a)
  BY <1>1, <1>2, <1>3
<1>5. Len(glove'.samples) <= MaxSamples
  BY <1>1, <1>3, <1>4, BoundsAre
<1>6. History'
  BY <1>4, <1>5, TypesAre DEF Sample, History, history
<1>7. QED
  BY <1>4, <1>6, TypesAre, TypesNext DEF Sample

\* What a press adds to those made and to the line.
LEMMA ReleaseTypes ==
  ASSUME Types, Release
  PROVE  /\ Types'
         /\ LET press == [init |-> glove.init, samples |-> glove.samples]
            IN  /\ press \in Press /\ Len(press.samples) \in 1..MaxSamples
                /\ presses' = Append(presses, press)
                /\ line' = line \o Stream(press.init, press.samples, Len(presses) + 1)
<1> DEFINE press == [init |-> glove.init, samples |-> glove.samples]
           k     == Len(presses) + 1
<1>1. /\ glove \in [held: BOOLEAN, init: Inits \cup {<<0, 0, 0>>}, samples: Seq(Samples)]
      /\ glove.held /\ glove.init \in Inits /\ Len(glove.samples) <= MaxSamples
      /\ presses \in Seq(Press)
      /\ \A j \in 1..Len(presses) : Len(presses[j].samples) \in 1..MaxSamples
      /\ line \in Seq(Letters)
  BY TypesAre DEF Release, History
<1>2. press \in Press
  BY <1>1 DEF Press
<1>3. Len(press.samples) \in 1..MaxSamples
  BY <1>1, BoundsAre DEF Release
<1>4. /\ presses' = Append(presses, press)
      /\ line' = line \o Stream(press.init, press.samples, k)
  BY DEF Release
<1>5. k \in Nat
  BY <1>1
<1> HIDE DEF press, k
<1>6. line' \in Seq(Letters)
  BY <1>1, <1>2, <1>3, <1>4, <1>5, StreamIs
<1>7. /\ presses' \in Seq(Press)
      /\ \A j \in 1..Len(presses') : Len(presses'[j].samples) \in 1..MaxSamples
  BY <1>1, <1>2, <1>3, <1>4
<1>8. /\ glove' \in [held: BOOLEAN, init: Inits \cup {<<0, 0, 0>>}, samples: Seq(Samples)]
      /\ ~glove'.held /\ glove'.samples = glove.samples
  BY <1>1 DEF Release
<1>9. History'
  BY <1>1, <1>6, <1>7, <1>8, TypesAre DEF Release, History
<1>10. Types'
  BY <1>8, <1>9, TypesAre, TypesNext DEF Release
<1>11. QED
  BY <1>2, <1>3, <1>4, <1>10 DEF press, k

\* Noise is neither the beginning of a stream nor the end of one.
LEMMA TouchTypes ==
  ASSUME Types, Touch
  PROVE  /\ Types'
         /\ \E noise \in Seq(Letters) :
              /\ line' = line \o noise
              /\ \A i \in 1..Len(noise) : noise[i].of = 0 /\ noise[i].c \notin {"C", "E"}
<1>1. PICK noise \in {<<Numeral(2, 0)>>, <<Char("test", 0), Char("CR", 0), Char("LF", 0)>>} :
        line' = line \o noise
  BY DEF Touch
<1>2. /\ Numeral(2, 0) \in Letters
      /\ Char("test", 0) \in Letters /\ Char("CR", 0) \in Letters /\ Char("LF", 0) \in Letters
  <2>1. 2 \in int16 /\ 0 \in Nat
    BY DEF int16
  <2>2. QED
    BY <2>1, SymbolsAreLetters DEF Anything
<1>3. noise \in Seq(Letters)
  <2>1. <<Numeral(2, 0)>> \in Seq(Letters)
    BY <1>2
  <2>2. <<Char("test", 0), Char("CR", 0), Char("LF", 0)>> \in Seq(Letters)
    BY <1>2
  <2>3. QED
    BY <1>1, <2>1, <2>2
<1>4. /\ Numeral(2, 0).of = 0 /\ Numeral(2, 0).c = "numeral"
      /\ \A c \in Anything : Char(c, 0).of = 0 /\ Char(c, 0).c = c
  BY DEF Numeral, Char
<1>5. \A i \in 1..Len(noise) : noise[i].of = 0 /\ noise[i].c \notin {"C", "E"}
  <2>1. CASE noise = <<Numeral(2, 0)>>
    BY <2>1, <1>4
  <2>2. CASE noise = <<Char("test", 0), Char("CR", 0), Char("LF", 0)>>
    <3>1. /\ Len(noise) = 3
          /\ noise[1] = Char("test", 0) /\ noise[2] = Char("CR", 0) /\ noise[3] = Char("LF", 0)
      BY <2>2
    <3>2. \A i \in 1..Len(noise) : \E c \in {"test", "CR", "LF"} : noise[i] = Char(c, 0)
      BY <3>1
    <3>3. QED
      BY <3>2, <1>4 DEF Anything
  <2>3. QED
    BY <1>1, <2>1, <2>2
<1>6. line' \in Seq(Letters)
  BY <1>1, <1>3, TypesAre DEF History
<1>7. left' \in [touches: Nat, losses: 0..MaxLost] /\ left'.losses = left.losses
  <2>1. left \in [touches: Nat, losses: 0..MaxLost] /\ left.touches > 0
        /\ left' = [left EXCEPT !.touches = left.touches - 1]
    BY TypesAre DEF Touch, History
  <2>2. left.touches - 1 \in Nat
    BY <2>1
  <2>3. QED
    BY <2>1, <2>2
<1>8. History'
  BY <1>6, <1>7, TypesAre DEF Touch, History, history
<1>9. Types'
  BY <1>8, TypesAre, TypesNext DEF Touch
<1>10. QED
  BY <1>1, <1>3, <1>5, <1>9

LEMMA LoseCharacterTypes ==
  ASSUME Types, LoseCharacter
  PROVE  /\ Types' /\ line # <<>> /\ line' = Tail(line) /\ Head(line) \in Letters
         /\ left.losses \in Nat /\ left.losses <= MaxLost
         /\ left'.losses = left.losses - 1 /\ lost \subseteq lost'
<1>1. /\ line # <<>> /\ line' = Tail(line) /\ line' \in Seq(Letters) /\ Head(line) \in Letters
      /\ Head(line).of \in Nat
  BY TypesAre, HeadAndTail, LetterIs DEF LoseCharacter, History
<1>2. left \in [touches: Nat, losses: 0..MaxLost] /\ left.losses > 0
  BY TypesAre DEF LoseCharacter, History
<1>3. left' \in [touches: Nat, losses: 0..MaxLost] /\ left'.losses = left.losses - 1
  BY <1>2, BoundsAre DEF LoseCharacter
<1>4. left'.losses # MaxLost
  BY <1>2, <1>3, BoundsAre
<1>5. turned' \in Nat
  BY <1>1, TypesAre DEF LoseCharacter, History
<1>6. History'
  BY <1>1, <1>3, <1>4, <1>5, TypesAre DEF LoseCharacter, History
<1>7. Types'
  BY <1>6, TypesAre, TypesNext DEF LoseCharacter
<1>8. QED
  BY <1>1, <1>2, <1>3, <1>7, BoundsAre DEF LoseCharacter

LEMMA StutterTypes ==
  ASSUME Types, UNCHANGED vars
  PROVE  Types'
<1>1. History'
  BY TypesAre DEF vars, history, History
<1>2. QED
  BY <1>1, TypesAre, TypesNext DEF vars

LEMMA StepTypes ==
  ASSUME Types, [Next]_vars
  PROVE  Types'
BY PressDownTypes, SampleTypes, ReleaseTypes, TouchTypes, LoseCharacterTypes, StartStreamTypes,
   EndCountTypes, EndInitTypes, EndSampleTypes, EndStreamTypes, BufferTypes, IgnoreTypes,
   StutterTypes DEF Next, ReadCharacter

\* What the parser works with and what the wearer sees keep their types, whatever is lost:
\* no number that is merged or cut short by a loss is too long to be one.
THEOREM GestureStreamTypes == Spec => []TypeOK
<1>1. Types => TypeOK
  BY DEF Types
<1>2. Types /\ [Next]_vars => Types'
  BY StepTypes
<1>3. QED
  BY InitTypes, <1>1, <1>2, PTL DEF Spec

-----------------------------------------------------------------------------
(* What happens to the line. *)

LEMMA MarkIs ==
  ASSUME NEW m \in Mark
  PROVE  m.k \in Nat /\ m.k > 0 /\ m.w \in Nat /\ m.s \in 0..2
         /\ m = [k |-> m.k, w |-> m.w, s |-> m.s]
BY DEF Mark

LEMMA PressIs ==
  ASSUME Types, NEW k \in 1..Len(presses)
  PROVE  /\ presses[k] \in Press /\ Len(presses[k].samples) \in 1..MaxSamples
         /\ presses[k].init \in Inits /\ presses[k].samples \in Seq(Samples)
         /\ W(k) \in Nat /\ W(k) >= 6 /\ W(k) = 4 + 2 * Len(presses[k].samples)
<1>1. presses[k] \in Press /\ Len(presses[k].samples) \in 1..MaxSamples
  BY TypesAre DEF History
<1>2. presses[k].init \in Inits /\ presses[k].samples \in Seq(Samples)
  BY <1>1 DEF Press
<1>3. W(k) \in Nat /\ W(k) >= 6 /\ W(k) = 4 + 2 * Len(presses[k].samples)
  BY <1>1, BoundsAre DEF W, Words
<1>4. QED
  BY <1>1, <1>2, <1>3

\* A mark inside a stream has a character to read.
LEMMA InsideAStream ==
  ASSUME Types, NEW m \in Mark, Unread(m), m.w >= 1
  PROVE  m.k \in 1..Len(presses) /\ m.w <= W(m.k) + 1 /\ line # <<>>
<1>1. PICK f \in [1..(Len(line) + 1) -> Mark] :
        /\ f[1] = m
        /\ \A i \in 1..Len(line) : Leads(presses, f[i], line[i], f[i + 1])
        /\ f[Len(line) + 1] = [k |-> Len(presses) + 1, w |-> 0, s |-> 2]
  BY DEF Unread
<1>2. line \in Seq(Letters)
  BY TypesAre DEF History
<1>3. Len(line) # 0
  BY <1>1, MarkIs
<1>4. line # <<>> /\ 1 \in 1..Len(line)
  BY <1>2, <1>3
<1>5. Leads(presses, m, line[1], f[2])
  BY <1>1, <1>4
<1>6. m.k \in 1..Len(presses) /\ (m.w \in 1..W(m.k) \/ m.w = W(m.k) + 1)
  BY <1>5, MarkIs DEF Leads, W
<1>7. W(m.k) \in Nat
  BY <1>6, PressIs
<1>8. QED
  BY <1>4, <1>6, <1>7

LEMMA UnreadTail ==
  ASSUME Types, NEW m \in Mark, Unread(m),
         line # <<>>, line' = Tail(line), presses' = presses
  PROVE  \E n \in Mark : Leads(presses, m, Head(line), n) /\ Unread(n)'
<1>1. PICK f \in [1..(Len(line) + 1) -> Mark] :
        /\ f[1] = m
        /\ \A i \in 1..Len(line) : Leads(presses, f[i], line[i], f[i + 1])
        /\ f[Len(line) + 1] = [k |-> Len(presses) + 1, w |-> 0, s |-> 2]
  BY DEF Unread
<1>2. /\ Head(line) = line[1] /\ Len(line) \in Nat \ {0} /\ Len(line') = Len(line) - 1
      /\ \A i \in 1..Len(line') : line'[i] = line[i + 1]
  BY TypesAre, HeadAndTail DEF History
<1> DEFINE g == [i \in 1..(Len(line') + 1) |-> f[i + 1]]
<1>3. g \in [1..(Len(line') + 1) -> Mark]
  BY <1>1, <1>2
<1>4. \A i \in 1..(Len(line') + 1) : g[i] = f[i + 1]
  OBVIOUS
<1>5. g[1] = f[2] /\ g[Len(line') + 1] = [k |-> Len(presses') + 1, w |-> 0, s |-> 2]
  BY <1>1, <1>2, <1>4
<1> HIDE DEF g
<1>6. \A i \in 1..Len(line') : Leads(presses, g[i], line'[i], g[i + 1])
  BY <1>1, <1>2, <1>4
<1>7. \A i \in 1..Len(line') : Leads(presses', g[i], line'[i], g[i + 1])
  BY <1>6
<1>8. Unread(f[2])'
  BY <1>3, <1>5, <1>7 DEF Unread
<1>9. f[2] \in Mark /\ Leads(presses, m, Head(line), f[2])
  BY <1>1, <1>2
<1>10. QED
  BY <1>8, <1>9

LEMMA LeadsMore ==
  ASSUME NEW made \in Seq(Press), NEW press, NEW m, NEW ch, NEW n, Leads(made, m, ch, n)
  PROVE  Leads(Append(made, press), m, ch, n)
<1> DEFINE more == Append(made, press)
<1>1. Len(more) = Len(made) + 1 /\ \A k \in 1..Len(made) : more[k] = made[k]
  OBVIOUS
<1>2. Len(made) \in Nat
  OBVIOUS
<1> HIDE DEF more
<1>3. \A k \in 1..Len(made) : k \in 1..Len(more)
  BY <1>1, <1>2
<1>4. CASE m.k \in 1..Len(made)
  BY <1>1, <1>3, <1>4 DEF Leads
<1>5. CASE m.k \notin 1..Len(made)
  BY <1>5 DEF Leads
<1>6. QED
  BY <1>4, <1>5 DEF more

\* Noise behind the last press.
LEMMA UnreadNoise ==
  ASSUME Types, NEW m \in Mark, Unread(m), presses' = presses,
         NEW noise \in Seq(Letters), line' = line \o noise,
         \A i \in 1..Len(noise) : noise[i].of = 0 /\ noise[i].c \notin {"C", "E"}
  PROVE  Unread(m)'
<1>1. PICK f \in [1..(Len(line) + 1) -> Mark] :
        /\ f[1] = m
        /\ \A i \in 1..Len(line) : Leads(presses, f[i], line[i], f[i + 1])
        /\ f[Len(line) + 1] = [k |-> Len(presses) + 1, w |-> 0, s |-> 2]
  BY DEF Unread
<1>2. line \in Seq(Letters) /\ Len(line) \in Nat /\ Len(noise) \in Nat
  BY TypesAre DEF History
<1>3. /\ Len(line') = Len(line) + Len(noise)
      /\ \A i \in 1..Len(line) : line'[i] = line[i]
      /\ \A i \in 1..Len(noise) : line'[Len(line) + i] = noise[i]
  BY <1>2
<1> DEFINE end  == f[Len(line) + 1]
           g    == [i \in 1..(Len(line') + 1) |-> IF i <= Len(line) + 1 THEN f[i] ELSE end]
<1>4. end \in Mark /\ end.w = 0 /\ end = [k |-> Len(presses') + 1, w |-> 0, s |-> 2]
  <2>1. Len(line) + 1 \in 1..(Len(line) + 1)
    BY <1>2
  <2>2. end \in Mark
    BY <1>1, <2>1
  <2>3. end = [k |-> Len(presses') + 1, w |-> 0, s |-> 2]
    BY <1>1
  <2>4. QED
    BY <2>2, <2>3
<1>5. g \in [1..(Len(line') + 1) -> Mark]
  BY <1>1, <1>2, <1>3, <1>4
<1>6. \A i \in 1..(Len(line') + 1) : g[i] = IF i <= Len(line) + 1 THEN f[i] ELSE end
  OBVIOUS
<1>7. g[1] = m /\ g[Len(line') + 1] = end
  BY <1>1, <1>2, <1>3, <1>6
<1> HIDE DEF g, end
<1>8. ASSUME NEW i \in 1..Len(line')
      PROVE  Leads(presses', g[i], line'[i], g[i + 1])
  <2>1. CASE i <= Len(line)
    <3>1. g[i] = f[i] /\ g[i + 1] = f[i + 1] /\ line'[i] = line[i] /\ i \in 1..Len(line)
      <4>1. i \in 1..Len(line) /\ i + 1 <= Len(line) + 1 /\ i <= Len(line) + 1
        BY <2>1, <1>2
      <4>2. i \in 1..(Len(line') + 1) /\ i + 1 \in 1..(Len(line') + 1)
        BY <1>2, <1>3
      <4>3. QED
        BY <4>1, <4>2, <1>3, <1>6
    <3>2. QED
      BY <3>1, <1>1
  <2>2. CASE i > Len(line)
    <3>1. g[i] = end /\ g[i + 1] = end
      <4>1. /\ i \in 1..(Len(line') + 1) /\ i + 1 \in 1..(Len(line') + 1)
            /\ ~(i + 1 <= Len(line) + 1)
        BY <2>2, <1>2, <1>3
      <4>2. g[i + 1] = end
        BY <4>1, <1>6
      <4>3. g[i] = end
        <5>1. CASE i = Len(line) + 1
          BY <5>1, <4>1, <1>6 DEF end
        <5>2. CASE i # Len(line) + 1
          <6>1. ~(i <= Len(line) + 1)
            BY <5>2, <2>2, <1>2
          <6>2. QED
            BY <6>1, <4>1, <1>6
        <5>3. QED
          BY <5>1, <5>2
      <4>4. QED
        BY <4>2, <4>3
    <3>2. i - Len(line) \in 1..Len(noise) /\ i = Len(line) + (i - Len(line))
      BY <2>2, <1>2, <1>3
    <3>3. line'[i].of = 0 /\ line'[i].c \notin {"C", "E"}
      BY <3>2, <1>3
    <3>4. QED
      BY <3>1, <3>3, <1>4 DEF Leads
  <2>3. QED
    BY <2>1, <2>2, <1>2, <1>3
<1>9. QED
  BY <1>4, <1>5, <1>7, <1>8 DEF Unread

\* The marks of a stream.
MarkOf(k, n, i) ==
  IF i = 3 * n + 3 THEN [k |-> k + 1, w |-> 0, s |-> 2]
  ELSE [k |-> k, w |-> (i + 1) \div 3, s |-> (i + 1) % 3]

LEMMA StreamLeads ==
  ASSUME NEW made \in Seq(Press), NEW k \in 1..Len(made), Len(made[k].samples) \in 1..MaxSamples,
         NEW i \in 1..(3 * Words(made[k].samples) + 2)
  PROVE  LET n == Words(made[k].samples)
         IN  Leads(made, MarkOf(k, n, i), Stream(made[k].init, made[k].samples, k)[i],
                   MarkOf(k, n, i + 1))
<1> DEFINE n   == Words(made[k].samples)
           str == Stream(made[k].init, made[k].samples, k)
<1>1. made[k] \in Press /\ k \in Nat /\ k > 0
  OBVIOUS
<1>2. n \in Nat /\ n >= 6
  BY <1>1, StreamIs
<1>3. str[1] = Char("C", k) /\ str[3 * n + 2] = Char("E", k)
  BY <1>1, StreamIs
<1>4. \A w \in 1..n : /\ str[3 * w - 1] = Numeral(Word(made[k].init, made[k].samples, w), k)
                      /\ str[3 * w] = Char("CR", k)
                      /\ str[3 * w + 1] = Char("LF", k)
  BY <1>1, StreamIs
<1>5. ASSUME NEW m, NEW ch, NEW mm, m.k = k, ch.of = k,
             \/ m.w = 0 /\ ch.c = "C" /\ mm = [k |-> k, w |-> 1, s |-> 0]
             \/ /\ m.w \in 1..n /\ m.s = 0
                /\ ch.c = "numeral" /\ ch.v = Word(made[k].init, made[k].samples, m.w)
                /\ mm = [k |-> k, w |-> m.w, s |-> 1]
             \/ m.w \in 1..n /\ m.s = 1 /\ ch.c = "CR" /\ mm = [k |-> k, w |-> m.w, s |-> 2]
             \/ m.w \in 1..n /\ m.s = 2 /\ ch.c = "LF" /\ mm = [k |-> k, w |-> m.w + 1, s |-> 0]
             \/ m.w = n + 1 /\ ch.c = "E" /\ mm = [k |-> k + 1, w |-> 0, s |-> 2]
      PROVE  Leads(made, m, ch, mm)
  BY <1>5 DEF Leads
<1> HIDE DEF n, str
<1>6. CASE i = 1
  <2>1. MarkOf(k, n, 1) = [k |-> k, w |-> 0, s |-> 2] /\ MarkOf(k, n, 1 + 1) = [k |-> k, w |-> 1, s |-> 0]
    BY <1>2 DEF MarkOf
  <2>2. QED
    BY <2>1, <1>3, <1>5, <1>6 DEF Char, n, str
<1>7. ASSUME NEW w \in 1..n, i = 3 * w - 1
      PROVE  Leads(made, MarkOf(k, n, i), str[i], MarkOf(k, n, i + 1))
  <2>1. MarkOf(k, n, i) = [k |-> k, w |-> w, s |-> 0]
    BY <1>2, <1>7 DEF MarkOf
  <2>2. MarkOf(k, n, i + 1) = [k |-> k, w |-> w, s |-> 1]
    BY <1>2, <1>7 DEF MarkOf
  <2>3. str[i] = Numeral(Word(made[k].init, made[k].samples, w), k)
    BY <1>4, <1>7
  <2>4. QED
    BY <2>1, <2>2, <2>3, <1>5 DEF Numeral
<1>8. ASSUME NEW w \in 1..n, i = 3 * w
      PROVE  Leads(made, MarkOf(k, n, i), str[i], MarkOf(k, n, i + 1))
  <2>1. MarkOf(k, n, i) = [k |-> k, w |-> w, s |-> 1]
    BY <1>2, <1>8 DEF MarkOf
  <2>2. MarkOf(k, n, i + 1) = [k |-> k, w |-> w, s |-> 2]
    BY <1>2, <1>8 DEF MarkOf
  <2>3. str[i] = Char("CR", k)
    BY <1>4, <1>8
  <2>4. QED
    BY <2>1, <2>2, <2>3, <1>5 DEF Char
<1>9. ASSUME NEW w \in 1..n, i = 3 * w + 1
      PROVE  Leads(made, MarkOf(k, n, i), str[i], MarkOf(k, n, i + 1))
  <2>1. MarkOf(k, n, i) = [k |-> k, w |-> w, s |-> 2]
    <3>1. i # 3 * n + 3 /\ (i + 1) \div 3 = w /\ (i + 1) % 3 = 2
      BY <1>2, <1>9
    <3>2. QED
      BY <3>1 DEF MarkOf
  <2>2. MarkOf(k, n, i + 1) = [k |-> k, w |-> w + 1, s |-> 0]
    BY <1>2, <1>9 DEF MarkOf
  <2>3. str[i] = Char("LF", k)
    BY <1>4, <1>9
  <2>4. QED
    BY <2>1, <2>2, <2>3, <1>5 DEF Char
<1>10. CASE i = 3 * n + 2
  <2>1. MarkOf(k, n, i) = [k |-> k, w |-> n + 1, s |-> 0]
    BY <1>2, <1>10 DEF MarkOf
  <2>2. MarkOf(k, n, i + 1) = [k |-> k + 1, w |-> 0, s |-> 2]
    BY <1>2, <1>10 DEF MarkOf
  <2>3. str[i] = Char("E", k)
    BY <1>3, <1>10
  <2>4. QED
    BY <2>1, <2>2, <2>3, <1>5 DEF Char, n, str
<1>11. \/ i = 1 \/ i = 3 * n + 2
       \/ \E w \in 1..n : i = 3 * w - 1 \/ i = 3 * w \/ i = 3 * w + 1
  <2>1. i \in 1..(3 * n + 2)
    BY DEF n
  <2>2. ASSUME i # 1, i # 3 * n + 2
        PROVE  /\ (i + 1) \div 3 \in 1..n
               /\ \/ i = 3 * ((i + 1) \div 3) - 1
                  \/ i = 3 * ((i + 1) \div 3)
                  \/ i = 3 * ((i + 1) \div 3) + 1
    BY <2>1, <2>2, <1>2
  <2>3. QED
    BY <2>2
<1>12. QED
  BY <1>6, <1>7, <1>8, <1>9, <1>10, <1>11 DEF n, str

LEMMA Joined ==
  ASSUME NEW a \in Seq(Letters), NEW b \in Seq(Letters), NEW c, c = a \o b
  PROVE  /\ Len(c) = Len(a) + Len(b)
         /\ \A i \in 1..Len(a) : c[i] = a[i]
         /\ \A i \in 1..Len(b) : c[Len(a) + i] = b[i]
OBVIOUS

\* The stream of one more press behind the last.
LEMMA UnreadStream ==
  ASSUME Types, NEW m \in Mark, Unread(m),
         NEW press \in Press, Len(press.samples) \in 1..MaxSamples,
         presses' = Append(presses, press),
         line' = line \o Stream(press.init, press.samples, Len(presses) + 1)
  PROVE  Unread(m)'
<1> DEFINE k    == Len(presses) + 1
           n    == Words(press.samples)
           str  == Stream(press.init, press.samples, k)
<1>1. PICK f \in [1..(Len(line) + 1) -> Mark] :
        /\ f[1] = m
        /\ \A i \in 1..Len(line) : Leads(presses, f[i], line[i], f[i + 1])
        /\ f[Len(line) + 1] = [k |-> k, w |-> 0, s |-> 2]
  BY DEF Unread
<1>2. line \in Seq(Letters) /\ Len(line) \in Nat /\ presses \in Seq(Press) /\ k \in Nat /\ k > 0
  BY TypesAre DEF History
<1>3. n \in Nat /\ n >= 6 /\ str \in Seq(Letters) /\ Len(str) = 3 * n + 2
  BY <1>2, StreamIs
<1>4. /\ presses' \in Seq(Press) /\ k \in 1..Len(presses') /\ presses'[k] = press
      /\ Len(presses') = k
  BY <1>2
<1> HIDE DEF k, n
<1>5. /\ Len(line') = Len(line) + 3 * n + 2
      /\ \A i \in 1..Len(line) : line'[i] = line[i]
      /\ \A i \in 1..(3 * n + 2) : line'[Len(line) + i] = str[i]
  <2>1. line' = line \o str
    BY DEF k
  <2> HIDE DEF str
  <2>2. /\ Len(line') = Len(line) + Len(str)
        /\ \A i \in 1..Len(line) : line'[i] = line[i]
        /\ \A i \in 1..Len(str) : line'[Len(line) + i] = str[i]
    <3>1. line \in Seq(Letters) /\ str \in Seq(Letters)
      BY <1>2, <1>3
    <3>2. QED
      BY <3>1, <2>1, Joined
  <2>3. Len(line) + Len(str) = Len(line) + 3 * n + 2
    BY <1>2, <1>3
  <2>4. QED
    BY <1>3, <2>2, <2>3
<1> HIDE DEF str
<1> DEFINE g == [i \in 1..(Len(line') + 1) |-> IF i <= Len(line) THEN f[i] ELSE MarkOf(k, n, i - Len(line))]
<1>6. \A i \in 1..(Len(line') + 1) :
        g[i] = IF i <= Len(line) THEN f[i] ELSE MarkOf(k, n, i - Len(line))
  OBVIOUS
<1>7. MarkOf(k, n, 1) = [k |-> k, w |-> 0, s |-> 2] /\ MarkOf(k, n, 3 * n + 3) = [k |-> k + 1, w |-> 0, s |-> 2]
  BY <1>3 DEF MarkOf
<1>8. ASSUME NEW i \in 1..(3 * n + 3)
      PROVE  MarkOf(k, n, i) \in Mark
  <2>1. (i + 1) \div 3 \in Nat /\ (i + 1) % 3 \in 0..2 /\ k \in Nat \ {0} /\ k + 1 \in Nat \ {0}
    BY <1>2, <1>3
  <2>2. ASSUME NEW a \in Nat \ {0}, NEW b \in Nat, NEW c \in 0..2
        PROVE  [k |-> a, w |-> b, s |-> c] \in Mark
    BY DEF Mark
  <2>3. 0 \in Nat /\ 2 \in 0..2
    OBVIOUS
  <2>4. QED
    BY <2>1, <2>2, <2>3, Zenon DEF MarkOf
<1>9. g \in [1..(Len(line') + 1) -> Mark]
  <2>1. ASSUME NEW i \in 1..(Len(line') + 1)
        PROVE  (IF i <= Len(line) THEN f[i] ELSE MarkOf(k, n, i - Len(line))) \in Mark
    <3>1. CASE i <= Len(line)
      <4>1. i \in 1..(Len(line) + 1)
        BY <3>1, <1>2
      <4>2. QED
        BY <4>1, <3>1, <1>1
    <3>2. CASE ~(i <= Len(line))
      <4>1. i - Len(line) \in 1..(3 * n + 3)
        BY <3>2, <1>2, <1>3, <1>5
      <4>2. QED
        BY <4>1, <3>2, <1>8
    <3>3. QED
      BY <3>1, <3>2
  <2>2. QED
    BY <2>1
<1>10. \A i \in 1..(Len(line) + 1) : g[i] = f[i]
  <2>1. TAKE i \in 1..(Len(line) + 1)
  <2>2. i \in 1..(Len(line') + 1)
    BY <1>2, <1>3, <1>5
  <2>3. CASE i <= Len(line)
    BY <2>2, <2>3, <1>6
  <2>4. CASE i = Len(line) + 1
    <3>1. ~(i <= Len(line)) /\ i - Len(line) = 1
      BY <2>4, <1>2
    <3>2. g[i] = MarkOf(k, n, 1)
      BY <3>1, <2>2, <1>6
    <3>3. f[i] = MarkOf(k, n, 1)
      BY <2>4, <1>1, <1>7
    <3>4. QED
      BY <3>2, <3>3
  <2>5. QED
    BY <2>3, <2>4, <1>2
<1>11. \A i \in 1..(3 * n + 3) : g[Len(line) + i] = MarkOf(k, n, i)
  <2>1. TAKE i \in 1..(3 * n + 3)
  <2>2. /\ Len(line) + i \in 1..(Len(line') + 1) /\ ~(Len(line) + i <= Len(line))
        /\ (Len(line) + i) - Len(line) = i
    BY <1>2, <1>3, <1>5
  <2>3. QED
    BY <2>2, <1>6
<1> HIDE DEF g
<1>12. g[1] = m
  BY <1>1, <1>2, <1>10
<1>13. g[Len(line') + 1] = [k |-> Len(presses') + 1, w |-> 0, s |-> 2]
  <2>1. Len(line') + 1 = Len(line) + (3 * n + 3)
    <3>1. Len(line') = Len(line) + 3 * n + 2
      BY <1>5
    <3>2. QED
      <4>1. ASSUME NEW a \in Nat, NEW b \in Nat
            PROVE  a + 3 * b + 2 + 1 = a + (3 * b + 3)
        OBVIOUS
      <4>2. Len(line) \in Nat /\ n \in Nat
        BY <1>2, <1>3
      <4>3. QED
        BY <3>1, <4>1, <4>2, Zenon
  <2>3. 3 * n + 3 \in 1..(3 * n + 3)
    BY <1>3
  <2>2. QED
    BY <2>1, <2>3, <1>4, <1>7, <1>11
<1>14. ASSUME NEW i \in 1..Len(line')
       PROVE  Leads(presses', g[i], line'[i], g[i + 1])
  <2>1. CASE i <= Len(line)
    <3>1. i \in 1..Len(line) /\ i \in 1..(Len(line) + 1) /\ i + 1 \in 1..(Len(line) + 1)
      BY <2>1, <1>2
    <3>2. g[i] = f[i] /\ g[i + 1] = f[i + 1] /\ line'[i] = line[i]
      BY <3>1, <1>5, <1>10
    <3>3. Leads(presses, f[i], line[i], f[i + 1])
      BY <3>1, <1>1
    <3>4. QED
      BY <3>2, <3>3, <1>2, LeadsMore
  <2>2. CASE i > Len(line)
    <3> DEFINE j == i - Len(line)
    <3>1. /\ j \in 1..(3 * n + 2) /\ j \in 1..(3 * n + 3) /\ j + 1 \in 1..(3 * n + 3)
          /\ i = Len(line) + j /\ i + 1 = Len(line) + (j + 1)
      BY <2>2, <1>2, <1>3, <1>5
    <3> HIDE DEF j
    <3>2. g[i] = MarkOf(k, n, j) /\ g[i + 1] = MarkOf(k, n, j + 1) /\ line'[i] = str[j]
      BY <3>1, <1>5, <1>11
    <3>3. Leads(presses', MarkOf(k, n, j), str[j], MarkOf(k, n, j + 1))
      <4>1. Len(presses'[k].samples) \in 1..MaxSamples
        BY <1>4
      <4>2. n = Words(presses'[k].samples) /\ str = Stream(presses'[k].init, presses'[k].samples, k)
        BY <1>4 DEF n, str
      <4>3. QED
        BY <4>1, <4>2, <3>1, <1>4, StreamLeads
    <3>4. QED
      BY <3>2, <3>3
  <2>3. QED
    BY <2>1, <2>2, <1>2, <1>5
<1>15. QED
  BY <1>9, <1>12, <1>13, <1>14 DEF Unread

-----------------------------------------------------------------------------
(* What a step of the parser does. *)

\* The kinds of character the mark may be at.
AtNoise(m, ch, n) == m.w = 0 /\ ch.of = 0 /\ ch.c \notin {"C", "E"} /\ n = m

Inside(m, ch) == m.k \in 1..Len(presses) /\ ch.of = m.k

AtC(m, ch, n) == Inside(m, ch) /\ m.w = 0 /\ ch.c = "C" /\ n.k = m.k /\ n.w = 1 /\ n.s = 0

AtNumeral(m, ch, n) ==
  /\ Inside(m, ch) /\ m.w >= 1 /\ m.w <= W(m.k) /\ m.s = 0
  /\ ch.c = "numeral" /\ ch.v = Word(presses[m.k].init, presses[m.k].samples, m.w)
  /\ n.k = m.k /\ n.w = m.w /\ n.s = 1

AtCR(m, ch, n) ==
  /\ Inside(m, ch) /\ m.w >= 1 /\ m.w <= W(m.k) /\ m.s = 1
  /\ ch.c = "CR" /\ n.k = m.k /\ n.w = m.w /\ n.s = 2

AtLF(m, ch, n) ==
  /\ Inside(m, ch) /\ m.w >= 1 /\ m.w <= W(m.k) /\ m.s = 2
  /\ ch.c = "LF" /\ n.k = m.k /\ n.w = m.w + 1 /\ n.s = 0

AtE(m, ch, n) ==
  Inside(m, ch) /\ m.w = W(m.k) + 1 /\ ch.c = "E" /\ n.k = m.k + 1 /\ n.w = 0

LEMMA LeadsTo ==
  ASSUME Types, NEW m \in Mark, NEW n \in Mark, NEW ch, Leads(presses, m, ch, n)
  PROVE  \/ AtNoise(m, ch, n) \/ AtC(m, ch, n) \/ AtNumeral(m, ch, n)
         \/ AtCR(m, ch, n) \/ AtLF(m, ch, n) \/ AtE(m, ch, n)
<1>1. CASE m.w = 0 /\ ch.of = 0 /\ ch.c \notin {"C", "E"} /\ n = m
  BY <1>1 DEF AtNoise
<1>2. CASE ~(m.w = 0 /\ ch.of = 0 /\ ch.c \notin {"C", "E"} /\ n = m)
  <2>1. m.k \in 1..Len(presses) /\ ch.of = m.k
    BY <1>2 DEF Leads
  <2>2. W(m.k) \in Nat /\ m.w \in Nat /\ Words(presses[m.k].samples) = W(m.k)
    BY <2>1, PressIs, MarkIs DEF W
  <2>3. CASE m.w = 0 /\ ch.c = "C" /\ n = [k |-> m.k, w |-> 1, s |-> 0]
    BY <2>1, <2>3 DEF AtC, Inside
  <2>4. CASE /\ m.w \in 1..W(m.k) /\ m.s = 0
             /\ ch.c = "numeral" /\ ch.v = Word(presses[m.k].init, presses[m.k].samples, m.w)
             /\ n = [k |-> m.k, w |-> m.w, s |-> 1]
    BY <2>1, <2>2, <2>4 DEF AtNumeral, Inside
  <2>5. CASE m.w \in 1..W(m.k) /\ m.s = 1 /\ ch.c = "CR" /\ n = [k |-> m.k, w |-> m.w, s |-> 2]
    BY <2>1, <2>2, <2>5 DEF AtCR, Inside
  <2>6. CASE m.w \in 1..W(m.k) /\ m.s = 2 /\ ch.c = "LF" /\ n = [k |-> m.k, w |-> m.w + 1, s |-> 0]
    BY <2>1, <2>2, <2>6 DEF AtLF, Inside
  <2>7. CASE m.w = W(m.k) + 1 /\ ch.c = "E" /\ n = [k |-> m.k + 1, w |-> 0, s |-> 2]
    BY <2>1, <2>2, <2>7 DEF AtE, Inside
  <2>8. QED
    BY <1>2, <2>2, <2>3, <2>4, <2>5, <2>6, <2>7 DEF Leads
<1>3. QED
  BY <1>1, <1>2

\* The variables of the parser, one by one.
LEMMA ParserIs ==
  ASSUME Types
  PROVE  /\ p \in Parser
         /\ p.streamStart \in BOOLEAN /\ p.countStart \in BOOLEAN /\ p.initStart \in BOOLEAN
         /\ p.initCounter \in 0..2 /\ p.cycleCount \in 0..1 /\ p.counti \in Nat /\ p.count \in Int
         /\ p.buffer \in Reads /\ p.inc_i \in Nat /\ p.dirty \in BOOLEAN /\ p.init \in [1..3 -> Int]
         /\ p.vOldy \in Int /\ p.vOldz \in Int /\ p.VAveragey \in Int /\ p.VAveragez \in Int
         /\ left.losses \in Nat /\ left.losses <= MaxLost /\ turned \in Nat
<1>1. p \in Parser
  BY TypesAre
<1>2. left.losses \in Nat /\ left.losses <= MaxLost /\ turned \in Nat
  BY TypesAre, BoundsAre DEF History
<1>3. QED
  BY <1>1, <1>2 DEF Parser

SpeedsKept == p'.vOldy = p.vOldy /\ p'.vOldz = p.vOldz /\ p'.VAveragey = p.VAveragey /\ p'.VAveragez = p.VAveragez

LEMMA StartStreamDoes ==
  ASSUME Types, StartStream
  PROVE  /\ Head(line).c = "C" /\ ~p.streamStart
         /\ p'.streamStart /\ p'.countStart /\ p'.initStart = p.initStart
         /\ p'.counti = 0 /\ p'.cycleCount = 0 /\ p'.buffer = Empty /\ p'.inc_i = 0
         /\ SpeedsKept
         /\ gesture' = gesture /\ turned' = turned
<1>1. p \in Parser
  BY TypesAre
<1>2. p' = Rewound([p EXCEPT !.streamStart = TRUE, !.countStart = TRUE, !.cycleCount = 0, !.counti = 0])
  BY DEF StartStream
<1>3. QED
  BY <1>1, <1>2 DEF StartStream, Read, Rewound, Parser, SpeedsKept, history

LEMMA EndCountDoes ==
  ASSUME Types, EndCount
  PROVE  /\ Head(line).c = "LF" /\ p.streamStart /\ p.countStart /\ ~p.initStart
         /\ p'.streamStart /\ ~p'.countStart /\ p'.initStart /\ p'.initCounter = 0
         /\ p'.count \in atoi(p.buffer, p.dirty)
         /\ p'.counti = 0 /\ p'.cycleCount = 0 /\ p'.buffer = Empty /\ p'.inc_i = 0
         /\ SpeedsKept
         /\ gesture' = gesture /\ turned' = turned
<1>1. p \in Parser
  BY TypesAre
<1>2. PICK n \in atoi(p.buffer, p.dirty) :
        p' = Cleared([p EXCEPT !.countStart = FALSE, !.cycleCount = 0, !.count = n,
                               !.counti = 0, !.initStart = TRUE, !.initCounter = 0])
  BY DEF EndCount
<1>3. /\ p'.streamStart = p.streamStart /\ ~p'.countStart /\ p'.initStart /\ p'.initCounter = 0
      /\ p'.count = n
      /\ p'.counti = 0 /\ p'.cycleCount = 0 /\ p'.buffer = Empty /\ p'.inc_i = 0
      /\ SpeedsKept
  BY <1>1, <1>2 DEF Cleared, Parser, SpeedsKept
<1>4. QED
  BY <1>2, <1>3 DEF EndCount, Read, history

LEMMA EndInitDoes ==
  ASSUME Types, EndInit
  PROVE  /\ Head(line).c = "LF" /\ p.streamStart /\ ~p.countStart /\ p.initStart
         /\ p'.streamStart /\ ~p'.countStart
         /\ (p.initCounter < 2 => p'.initStart) /\ (p.initCounter = 2 => ~p'.initStart)
         /\ (p.initCounter < 2 => p'.initCounter = p.initCounter + 1)
         /\ p'.count = p.count
         /\ p'.init[p.initCounter + 1] \in atoi(p.buffer, p.dirty)
         /\ \A i \in 1..3 : i # p.initCounter + 1 => p'.init[i] = p.init[i]
         /\ p'.counti \in {0, p.counti} /\ p'.cycleCount = p.cycleCount
         /\ p'.buffer = Empty /\ p'.inc_i = 0
         /\ SpeedsKept
         /\ gesture' = gesture /\ turned' = turned
<1>1. p \in Parser /\ p.initCounter \in 0..2 /\ p.init \in [1..3 -> Int]
  BY ParserIs
<1>2. PICK n \in atoi(p.buffer, p.dirty) :
        p' = Cleared([p EXCEPT !.init[p.initCounter + 1] = n,
                               !.initStart = p.initCounter < 2,
                               !.initCounter = (p.initCounter + 1) % 3,
                               !.counti = IF p.initCounter = 2 THEN 0 ELSE p.counti])
  BY DEF EndInit
<1>3. /\ p'.streamStart = p.streamStart /\ p'.countStart = p.countStart
      /\ p'.initStart = (p.initCounter < 2) /\ p'.initCounter = (p.initCounter + 1) % 3
      /\ p'.count = p.count /\ p'.init = [p.init EXCEPT ![p.initCounter + 1] = n]
      /\ p'.counti = (IF p.initCounter = 2 THEN 0 ELSE p.counti) /\ p'.cycleCount = p.cycleCount
      /\ p'.buffer = Empty /\ p'.inc_i = 0
      /\ SpeedsKept
  BY <1>1, <1>2 DEF Cleared, Parser, SpeedsKept
<1>4. p'.init[p.initCounter + 1] = n /\ \A i \in 1..3 : i # p.initCounter + 1 => p'.init[i] = p.init[i]
  BY <1>1, <1>3
<1>5. p.initCounter < 2 => p'.initCounter = p.initCounter + 1
  BY <1>1, <1>3
<1>6. (p.initCounter < 2 => p'.initStart) /\ (p.initCounter = 2 => ~p'.initStart)
  <2>1. p'.initStart = (p.initCounter < 2)
    BY <1>3
  <2>2. p.initCounter = 2 => ~(p.initCounter < 2)
    OBVIOUS
  <2>3. QED
    BY <2>1, <2>2, Zenon
<1>7. p'.counti \in {0, p.counti}
  BY <1>3
<1>8. QED
  BY <1>2, <1>3, <1>4, <1>5, <1>6, <1>7 DEF EndInit, Read, history

LEMMA EndSampleDoes ==
  ASSUME Types, EndSample
  PROVE  /\ Head(line).c = "LF" /\ p.streamStart /\ ~p.countStart /\ ~p.initStart
         /\ p'.streamStart /\ ~p'.countStart /\ ~p'.initStart
         /\ p'.count = p.count /\ p'.init = p.init
         /\ p'.buffer = Empty /\ p'.inc_i = 0
         /\ \E n \in atoi(p.buffer, p.dirty) :
              \/ /\ p.cycleCount = 0 /\ p'.cycleCount = 1 /\ p'.counti = p.counti
                 /\ p'.vOldy = p.vOldy + n /\ p'.VAveragey = p.VAveragey + p.vOldy + n
                 /\ p'.vOldz = p.vOldz /\ p'.VAveragez = p.VAveragez
              \/ /\ p.cycleCount = 1 /\ p'.cycleCount = 0 /\ p'.counti = p.counti + 1
                 /\ p'.vOldy = p.vOldy /\ p'.VAveragey = p.VAveragey
                 /\ p'.vOldz = p.vOldz + n /\ p'.VAveragez = p.VAveragez + p.vOldz + n
         /\ gesture' = gesture /\ turned' = turned
<1>1. p \in Parser /\ p.cycleCount \in 0..1
  BY ParserIs
<1>2. PICK n \in atoi(p.buffer, p.dirty) :
        p' = Cleared(IF p.cycleCount = 0
                     THEN [p EXCEPT !.vOldy = p.vOldy + n, !.VAveragey = p.VAveragey + p.vOldy + n,
                                    !.cycleCount = 1]
                     ELSE [p EXCEPT !.vOldz = p.vOldz + n, !.VAveragez = p.VAveragez + p.vOldz + n,
                                    !.counti = p.counti + 1, !.cycleCount = 0])
  BY DEF EndSample
<1>3. /\ p'.streamStart = p.streamStart /\ p'.countStart = p.countStart /\ p'.initStart = p.initStart
      /\ p'.count = p.count /\ p'.init = p.init
      /\ p'.buffer = Empty /\ p'.inc_i = 0
      /\ \/ /\ p.cycleCount = 0 /\ p'.cycleCount = 1 /\ p'.counti = p.counti
            /\ p'.vOldy = p.vOldy + n /\ p'.VAveragey = p.VAveragey + p.vOldy + n
            /\ p'.vOldz = p.vOldz /\ p'.VAveragez = p.VAveragez
         \/ /\ p.cycleCount = 1 /\ p'.cycleCount = 0 /\ p'.counti = p.counti + 1
            /\ p'.vOldy = p.vOldy /\ p'.VAveragey = p.VAveragey
            /\ p'.vOldz = p.vOldz + n /\ p'.VAveragez = p.VAveragez + p.vOldz + n
  <2>1. CASE p.cycleCount = 0
    <3>1. p' = Cleared([p EXCEPT !.vOldy = p.vOldy + n, !.VAveragey = p.VAveragey + p.vOldy + n,
                                 !.cycleCount = 1])
      BY <2>1, <1>2
    <3>2. QED
      BY <2>1, <3>1, <1>1 DEF Cleared, Parser
  <2>2. CASE p.cycleCount = 1
    <3>1. p' = Cleared([p EXCEPT !.vOldz = p.vOldz + n, !.VAveragez = p.VAveragez + p.vOldz + n,
                                 !.counti = p.counti + 1, !.cycleCount = 0])
      BY <2>2, <1>2
    <3>2. QED
      BY <2>2, <3>1, <1>1 DEF Cleared, Parser
  <2>3. QED
    BY <2>1, <2>2, <1>1
<1>4. QED
  BY <1>2, <1>3 DEF EndSample, Read, history

LEMMA EndStreamDoes ==
  ASSUME Types, EndStream
  PROVE  /\ Head(line).c = "E" /\ p.streamStart /\ ~p.countStart
         /\ ~p'.streamStart /\ ~p'.countStart /\ p'.initStart = p.initStart
         /\ p'.inc_i = 0 /\ p'.vOldy = 0 /\ p'.vOldz = 0 /\ p'.VAveragey = 0 /\ p'.VAveragez = 0
         /\ p'.cycleCount = 0
         /\ turned' = Head(line).of
<1>1. p \in Parser
  BY TypesAre
<1>2. p' = Rewound([p EXCEPT !.streamStart = FALSE, !.cycleCount = 0, !.counti = 0,
                             !.VAveragey = 0, !.VAveragez = 0, !.count = 0,
                             !.vOldy = 0, !.vOldz = 0])
  BY DEF EndStream
<1>3. /\ ~p'.streamStart /\ p'.countStart = p.countStart /\ p'.initStart = p.initStart
      /\ p'.inc_i = 0 /\ p'.vOldy = 0 /\ p'.vOldz = 0 /\ p'.VAveragey = 0 /\ p'.VAveragez = 0
      /\ p'.cycleCount = 0
  BY <1>1, <1>2 DEF Rewound, Parser
<1>4. QED
  BY <1>3 DEF EndStream, Read

\* The variables of the parser that buffering a character leaves alone.
Kept ==
  /\ p'.streamStart = p.streamStart /\ p'.countStart = p.countStart /\ p'.initStart = p.initStart
  /\ p'.initCounter = p.initCounter /\ p'.cycleCount = p.cycleCount /\ p'.counti = p.counti
  /\ p'.count = p.count /\ p'.init = p.init
  /\ SpeedsKept

LEMMA BufferDoes ==
  ASSUME Types, Buffer
  PROVE  /\ p.streamStart
         /\ (Head(line).c = "LF" => p.countStart /\ p.initStart)
         /\ (Head(line).c = "E" => p.countStart)
         /\ Kept
         /\ p'.buffer = Scan(p.buffer, Head(line)) /\ p'.inc_i = p.inc_i + Places(Head(line))
         /\ gesture' = gesture
         /\ (Head(line).c = "E" => turned' = Head(line).of)
         /\ (Head(line).c # "E" => turned' = turned)
<1>1. p \in Parser
  BY TypesAre
<1>2. p' = [p EXCEPT !.buffer = Scan(p.buffer, Head(line)), !.inc_i = p.inc_i + Places(Head(line))]
  BY DEF Buffer
<1>3. Kept /\ p'.buffer = Scan(p.buffer, Head(line)) /\ p'.inc_i = p.inc_i + Places(Head(line))
  BY <1>1, <1>2 DEF Kept, SpeedsKept, Parser
<1>4. QED
  BY <1>3 DEF Buffer, Read

LEMMA IgnoreDoes ==
  ASSUME Ignore
  PROVE  /\ ~p.streamStart /\ Head(line).c # "C" /\ p' = p /\ gesture' = gesture
         /\ (Head(line).c = "E" => turned' = Head(line).of)
         /\ (Head(line).c # "E" => turned' = turned)
BY DEF Ignore, Read

LEMMA LoseCharacterDoes ==
  ASSUME LoseCharacter
  PROVE  /\ p' = p /\ gesture' = gesture
         /\ (Head(line).of # 0 => lost' = lost \cup {Head(line).of})
         /\ (Head(line).of = 0 => lost' = lost)
         /\ (Head(line).c = "E" => turned' = Head(line).of)
         /\ (Head(line).c # "E" => turned' = turned)
BY DEF LoseCharacter

-----------------------------------------------------------------------------
(* Every step of the parser keeps step with the mark. *)

LEMMA TotalsAre ==
  ASSUME NEW samples, NEW axis, Len(samples) \in Nat,
         \A i \in 1..Len(samples) : samples[i][axis] \in Int
  PROVE  LET t == Promise!Totals(samples, axis)
             n == Len(samples)
         IN  /\ t[0] = 0
             /\ \A i \in 1..n : t[i] = t[i - 1] + (n - i + 1) * samples[i][axis]
             /\ \A i \in 0..n : t[i] \in Int
<1> DEFINE n    == Len(samples)
           a    == [i \in 1..n |-> (n - i + 1) * samples[i][axis]]
           Rec(t) == t = [i \in 0..n |-> IF i = 0 THEN 0 ELSE t[i - 1] + (n - i + 1) * samples[i][axis]]
           t    == Promise!Totals(samples, axis)
<1>1. a \in [1..n -> Int]
  <2>1. ASSUME NEW i \in 1..n
        PROVE  (n - i + 1) * samples[i][axis] \in Int
    <3>1. n - i + 1 \in Int /\ samples[i][axis] \in Int
      OBVIOUS
    <3>2. QED
      BY <3>1
  <2>2. QED
    BY <2>1
<1>2. \A i \in 1..n : a[i] = (n - i + 1) * samples[i][axis]
  OBVIOUS
<1> HIDE DEF a
<1>3. PICK u \in [0..n -> Int] : u = [i \in 0..n |-> IF i = 0 THEN 0 ELSE u[i - 1] + a[i]]
  BY <1>1, Sums
<1>4. Rec(u)
  <2>1. \A i \in 0..n : (IF i = 0 THEN 0 ELSE u[i - 1] + a[i])
                          = (IF i = 0 THEN 0 ELSE u[i - 1] + (n - i + 1) * samples[i][axis])
    BY <1>2
  <2>2. QED
    BY <1>3, <2>1
<1>5. t = CHOOSE v : Rec(v)
  BY DEF Promise!Totals
<1>6. Rec(t)
  <2> HIDE DEF t, Rec
  <2>1. QED
    BY <1>4, <1>5
<1> HIDE DEF t
<1>7. t[0] = 0 /\ \A i \in 1..n : t[i] = t[i - 1] + a[i]
  <2>1. \A i \in 0..n : t[i] = IF i = 0 THEN 0 ELSE t[i - 1] + (n - i + 1) * samples[i][axis]
    <3> HIDE DEF n
    <3>1. t = [i \in 0..n |-> IF i = 0 THEN 0 ELSE t[i - 1] + (n - i + 1) * samples[i][axis]]
      BY <1>6
    <3>2. QED
      BY <3>1
  <2>2. QED
    BY <2>1, <1>2
<1>8. \A i \in 0..n : t[i] \in Int
  <2> DEFINE Without == {i \in 0..n : t[i] \notin Int}
  <2>1. SUFFICES ASSUME Without # {} PROVE FALSE
    OBVIOUS
  <2>2. Without \subseteq Nat
    OBVIOUS
  <2>3. PICK m \in Without : \A i \in Without : m <= i
    <3> HIDE DEF Without
    <3>1. QED
      BY <2>1, <2>2, LeastOf
  <2>4. m \in 1..n /\ m - 1 \in 0..n /\ m - 1 \notin Without
    <3>1. m # 0
      BY <2>3, <1>7
    <3>2. m \in Nat /\ m <= n /\ m - 1 \notin Without
      BY <2>3, <3>1
    <3>3. QED
      BY <3>1, <3>2
  <2>5. t[m - 1] \in Int /\ a[m] \in Int /\ t[m] = t[m - 1] + a[m]
    BY <2>4, <1>1, <1>7
  <2>6. QED
    BY <2>3, <2>5
<1>9. QED
  BY <1>2, <1>7, <1>8 DEF t

\* The totals of a press.
LEMMA PressTotals ==
  ASSUME Types, NEW k \in 1..Len(presses), NEW axis \in {1, 2}
  PROVE  LET samples == presses[k].samples
             t == Promise!Totals(samples, axis)
             n == Len(samples)
         IN  /\ n \in Nat /\ n >= 1 /\ n <= MaxSamples
             /\ t[0] = 0
             /\ \A i \in 1..n : /\ samples[i][axis] \in Int
                                /\ t[i] = t[i - 1] + (n - i + 1) * samples[i][axis]
             /\ \A i \in 0..n : t[i] \in Int
<1> DEFINE samples == presses[k].samples
           n == Len(samples)
<1>1. samples \in Seq(Samples) /\ n \in 1..MaxSamples
  BY PressIs
<1>2. n \in Nat /\ n >= 1 /\ n <= MaxSamples
  BY <1>1, BoundsAre
<1>3. Samples \subseteq int16 \X int16
  BY StreamAssumption DEF int16
<1>4. \A i \in 1..n : samples[i] \in int16 \X int16
  BY <1>1, <1>3
<1>5. \A i \in 1..n : samples[i][axis] \in int16
  BY <1>4
<1>6. \A i \in 1..n : samples[i][axis] \in Int
  BY <1>5, Int16Is
<1> DEFINE t == Promise!Totals(samples, axis)
<1>7. /\ t[0] = 0
      /\ \A i \in 1..n : t[i] = t[i - 1] + (n - i + 1) * samples[i][axis]
      /\ \A i \in 0..n : t[i] \in Int
  <2> HIDE DEF samples
  <2>1. QED
    BY <1>2, <1>6, TotalsAre
<1> HIDE DEF t
<1>8. \A i \in 1..n : samples[i][axis] \in Int /\ t[i] = t[i - 1] + (n - i + 1) * samples[i][axis]
  BY <1>6, <1>7
<1>9. QED
  BY <1>2, <1>7, <1>8, Zenon DEF t

LEMMA StartStreamAt ==
  ASSUME Types, NEW m \in Mark, NEW n \in Mark, Unread(m), At(m),
         Leads(presses, m, Head(line), n), StartStream
  PROVE  At(n)'
<1>1. AtC(m, Head(line), n)
  BY LeadsTo, StartStreamDoes DEF AtNoise, AtNumeral, AtCR, AtLF, AtE
<1>2. presses' = presses /\ lost' = lost /\ left' = left /\ turned' = turned
  BY DEF StartStream, history
<1>3. W(m.k) \in Nat /\ W(m.k) >= 6
  BY <1>1, PressIs DEF AtC, Inside
<1>4. ~p.streamStart /\ p'.streamStart /\ p'.countStart /\ p'.initStart = p.initStart
  BY StartStreamDoes
<1>5. Sound => ~p.initStart /\ Still
  BY <1>4 DEF At, Clean
<1>6. Sound => ~p'.initStart /\ Still'
  BY <1>4, <1>5, StartStreamDoes, Zenon DEF Still, SpeedsKept
<1>7. n.k = m.k /\ n.w = 1 /\ n.s = 0 /\ n.w >= 1 /\ n.w # 0
  BY <1>1 DEF AtC
<1>8. Clean(n)'
  BY <1>4 DEF Clean
<1>9. Slack(n)'
  <2>1. W(n.k)' = W(m.k)
    BY <1>2, <1>7 DEF W
  <2>2. Few => W(m.k) + 1 - n.w >= 4 + left.losses
    BY <1>3, <1>7, ParserIs, BoundsAre DEF Few
  <2>3. Few => Sound
    BY DEF Sound
  <2>4. QED
    BY <1>2, <1>4, <1>6, <1>7, <2>1, <2>2, <2>3 DEF Slack
<1>10. Between(n)'
  BY <1>7 DEF Between
<1>11. Exact(n)'
  <2>1. SUFFICES ASSUME Sound PROVE InStep(presses[n.k], n)'
    BY <1>2 DEF Exact, Sound
  <2>2. p'.streamStart /\ p'.countStart /\ ~p'.initStart /\ Still'
    BY <1>4, <1>6, <2>1
  <2>3. p'.counti = 0 /\ p'.cycleCount = 0 /\ p'.buffer = Empty /\ p'.inc_i = 0
    BY StartStreamDoes
  <2>4. QED
    BY <2>2, <2>3, <1>7 DEF InStep, Scanned
<1>12. n.k = turned' + 1
  BY <1>2, <1>7 DEF At
<1>13. QED
  BY <1>8, <1>9, <1>10, <1>11, <1>12 DEF At

\* In step, the number before a newline is the one the glove printed.
LEMMA NumberRead ==
  ASSUME Types, NEW press, NEW m, m.s = 2, InStep(press, m)
  PROVE  atoi(p.buffer, p.dirty) = {Word(press.init, press.samples, m.w)}
<1>1. p.buffer.state = "over" /\ p.buffer.v = Word(press.init, press.samples, m.w)
  BY DEF InStep, Scanned
<1>2. QED
  BY <1>1, ParserIs, AtoiIsInt

\* A newline of noise is read outside the marks of a stream.
LEMMA NoiseAt ==
  ASSUME NEW m \in Mark, At(m), m.w = 0, p.streamStart
  PROVE  (Sound => m.k - 1 \in lost) /\ (Few => ~p.countStart /\ ~p.initStart)
BY DEF At, Between, Slack

LEMMA EndCountAt ==
  ASSUME Types, NEW m \in Mark, NEW n \in Mark, Unread(m), At(m),
         Leads(presses, m, Head(line), n), EndCount
  PROVE  At(n)'
<1>1. presses' = presses /\ lost' = lost /\ left' = left /\ turned' = turned
  BY DEF EndCount, history
<1>2. p.streamStart /\ p.countStart /\ ~p.initStart
      /\ p'.streamStart /\ ~p'.countStart /\ p'.initStart
  BY EndCountDoes
<1>3. Clean(n)'
  BY <1>2 DEF Clean
<1>4. CASE AtNoise(m, Head(line), n)
  <2>1. n = m /\ n.w = 0 /\ (Sound => n.k - 1 \in lost) /\ ~Few
    BY <1>2, <1>4, NoiseAt DEF AtNoise
  <2>2. Slack(n)' /\ Between(n)'
    BY <1>1, <2>1 DEF Slack, Between, Sound, Few
  <2>3. Exact(n)'
    BY <2>1 DEF Exact
  <2>4. n.k = turned' + 1
    BY <1>1, <2>1 DEF At
  <2>5. QED
    BY <1>3, <2>2, <2>3, <2>4 DEF At
<1>5. CASE AtLF(m, Head(line), n)
  <2>1. /\ m.k \in 1..Len(presses) /\ m.w >= 1 /\ m.w <= W(m.k) /\ m.s = 2
        /\ n.k = m.k /\ n.w = m.w + 1 /\ n.s = 0
        /\ m.w \in Nat /\ W(m.k) \in Nat
    BY <1>5, PressIs, MarkIs DEF AtLF, Inside
  <2>2. W(n.k)' = W(m.k)
    BY <1>1, <2>1 DEF W
  <2>3. Slack(n)'
    <3>1. Few => Still /\ W(m.k) + 1 - m.w >= 4 + left.losses
      BY <1>2 DEF At, Slack
    <3>2. Few => W(m.k) + 1 - n.w >= 3 - 0 + left.losses
      <4>1. ASSUME NEW last \in Nat, NEW w \in Nat, NEW losses \in Nat, last + 1 - w >= 4 + losses
            PROVE  last + 1 - (w + 1) >= 3 - 0 + losses
        BY <4>1
      <4>2. left.losses \in Nat
        BY ParserIs
      <4>3. QED
        BY <2>1, <3>1, <4>1, <4>2, Zenon
    <3>3. Few => Still'
      BY <3>1, EndCountDoes, Zenon DEF Still, SpeedsKept
    <3>4. p'.initCounter = 0 /\ n.w >= 1
      BY <2>1, EndCountDoes
    <3>5. QED
      BY <1>1, <1>2, <2>2, <3>2, <3>3, <3>4 DEF Slack, Few
  <2>4. Between(n)'
    BY <2>1 DEF Between
  <2>5. Exact(n)'
    <3> DEFINE press == presses[m.k]
    <3>1. SUFFICES ASSUME Sound, Whole(m.k) PROVE InStep(press, n)'
      BY <1>1, <2>1 DEF Exact, Sound, Whole
    <3>2. InStep(press, m)
      BY <2>1, <3>1 DEF At, Exact
    <3>3. m.w = 1
      BY <1>2, <2>1, <3>2 DEF InStep
    <3>4. p'.count = Len(press.samples)
      BY <2>1, <3>2, <3>3, NumberRead, EndCountDoes DEF Word
    <3>5. Still'
      BY <3>2, <3>3, EndCountDoes DEF InStep, Still, SpeedsKept
    <3>6. p'.counti = 0 /\ p'.cycleCount = 0 /\ p'.buffer = Empty /\ p'.inc_i = 0 /\ p'.initCounter = 0
      BY EndCountDoes
    <3>7. n.w = 2 /\ n.s = 0
      BY <2>1, <3>3
    <3>8. QED
      BY <1>1, <1>2, <3>4, <3>5, <3>6, <3>7 DEF InStep, Scanned
  <2>6. n.k = turned' + 1
    BY <1>1, <2>1 DEF At
  <2>7. QED
    BY <1>3, <2>3, <2>4, <2>5, <2>6 DEF At
<1>6. QED
  BY <1>4, <1>5, LeadsTo, EndCountDoes DEF AtC, AtNumeral, AtCR, AtE

LEMMA EndInitAt ==
  ASSUME Types, NEW m \in Mark, NEW n \in Mark, Unread(m), At(m),
         Leads(presses, m, Head(line), n), EndInit
  PROVE  At(n)'
<1>1. presses' = presses /\ lost' = lost /\ left' = left /\ turned' = turned
  BY DEF EndInit, history
<1>2. p.streamStart /\ ~p.countStart /\ p.initStart /\ p'.streamStart /\ ~p'.countStart
  BY EndInitDoes
<1>3. Clean(n)'
  BY <1>2 DEF Clean
<1>4. CASE AtNoise(m, Head(line), n)
  <2>1. n = m /\ n.w = 0 /\ (Sound => n.k - 1 \in lost) /\ ~Few
    BY <1>2, <1>4, NoiseAt DEF AtNoise
  <2>2. Slack(n)' /\ Between(n)'
    BY <1>1, <2>1 DEF Slack, Between, Sound, Few
  <2>3. Exact(n)'
    BY <2>1 DEF Exact
  <2>4. n.k = turned' + 1
    BY <1>1, <2>1 DEF At
  <2>5. QED
    BY <1>3, <2>2, <2>3, <2>4 DEF At
<1>5. CASE AtLF(m, Head(line), n)
  <2>1. /\ m.k \in 1..Len(presses) /\ m.w >= 1 /\ m.w <= W(m.k) /\ m.s = 2
        /\ n.k = m.k /\ n.w = m.w + 1 /\ n.s = 0
        /\ m.w \in Nat /\ W(m.k) \in Nat
    BY <1>5, PressIs, MarkIs DEF AtLF, Inside
  <2>2. W(n.k)' = W(m.k)
    BY <1>1, <2>1 DEF W
  <2>3. Slack(n)'
    <3>1. Few => Still /\ W(m.k) + 1 - m.w >= 3 - p.initCounter + left.losses
      BY <1>2 DEF At, Slack
    <3>2. p'.initStart => p.initCounter < 2 /\ p'.initCounter = p.initCounter + 1
      BY EndInitDoes, ParserIs
    <3>3. Few /\ p'.initStart => W(m.k) + 1 - n.w >= 3 - p'.initCounter + left.losses
      <4>1. ASSUME NEW last \in Nat, NEW w \in Nat, NEW losses \in Nat, NEW c \in 0..2,
                   last + 1 - w >= 3 - c + losses
            PROVE  last + 1 - (w + 1) >= 3 - (c + 1) + losses
        BY <4>1
      <4>2. left.losses \in Nat /\ p.initCounter \in 0..2
        BY ParserIs
      <4>3. QED
        BY <2>1, <3>1, <3>2, <4>1, <4>2, Zenon
    <3>4. Few => Still'
      BY <3>1, EndInitDoes, Zenon DEF Still, SpeedsKept
    <3>5. n.w >= 1
      BY <2>1
    <3>6. QED
      BY <1>1, <1>2, <2>2, <3>3, <3>4, <3>5 DEF Slack, Few
  <2>4. Between(n)'
    BY <2>1 DEF Between
  <2>5. Exact(n)'
    <3> DEFINE press == presses[m.k]
    <3>1. SUFFICES ASSUME Sound, Whole(m.k) PROVE InStep(press, n)'
      BY <1>1, <2>1 DEF Exact, Sound, Whole
    <3>2. InStep(press, m)
      BY <2>1, <3>1 DEF At, Exact
    <3>3. m.w \in 2..4 /\ p.initCounter = m.w - 2
      BY <1>2, <2>1, <3>2 DEF InStep
    <3>4. p'.init[m.w - 1] = press.init[m.w - 1]
      <4>1. Word(press.init, press.samples, m.w) = press.init[m.w - 1]
        BY <3>3 DEF Word
      <4>2. p'.init[p.initCounter + 1] = press.init[m.w - 1]
        BY <2>1, <3>2, <4>1, NumberRead, EndInitDoes
      <4>3. p.initCounter + 1 = m.w - 1
        BY <3>3
      <4>4. QED
        BY <4>2, <4>3
    <3>5. \A i \in 1..3 : n.w >= i + 2 => p'.init[i] = press.init[i]
      <4>1. TAKE i \in 1..3
      <4>2. CASE i = m.w - 1
        BY <4>2, <3>4
      <4>3. CASE i # m.w - 1
        <5>1. i # p.initCounter + 1
          BY <3>3, <4>3
        <5>2. p'.init[i] = p.init[i]
          BY <5>1, EndInitDoes
        <5>3. n.w >= i + 2 => m.w >= i + 2
          BY <2>1, <4>3
        <5>4. QED
          BY <5>2, <5>3, <3>2 DEF InStep
      <4>4. QED
        BY <4>2, <4>3
    <3>6. Still' /\ Still /\ p.counti = 0 /\ p.cycleCount = 0
      BY <3>2, <3>3, EndInitDoes DEF InStep, Still, SpeedsKept
    <3>7. p'.counti = 0 /\ p'.cycleCount = 0 /\ p'.buffer = Empty /\ p'.inc_i = 0
      BY <3>6, EndInitDoes
    <3>8. p'.count = Len(press.samples)
      BY <3>2, <3>3, EndInitDoes DEF InStep
    <3>9. CASE m.w < 4
      <4>1. p'.initStart /\ p'.initCounter = n.w - 2 /\ n.w \in 2..4 /\ n.w >= 2 /\ ~(n.w >= 5) /\ n.w # 1
            /\ n.s = 0
        BY <2>1, <3>3, <3>9, EndInitDoes
      <4>2. QED
        BY <1>1, <1>2, <4>1, <3>5, <3>6, <3>7, <3>8 DEF InStep, Scanned
    <3>10. CASE m.w = 4
      <4>1. ~p'.initStart /\ n.w = 5 /\ n.s = 0
        BY <2>1, <3>3, <3>10, EndInitDoes
      <4>2. Running(press)'
        <5>1. Promise!Totals(press.samples, 1)[0] = 0 /\ Promise!Totals(press.samples, 2)[0] = 0
          BY <2>1, PressTotals
        <5>2. Len(press.samples) \in Nat
          BY <2>1, PressIs
        <5>3. p'.vOldy = 0 /\ p'.vOldz = 0 /\ p'.VAveragey = 0 /\ p'.VAveragez = 0
          BY <3>6 DEF Still
        <5>4. 0 + 0 = 0 /\ 0 + (Len(press.samples) - 0) * 0 = 0
          BY <5>2
        <5>5. QED
          BY <1>1, <3>7, <5>1, <5>3, <5>4 DEF Running
      <4>3. n.w = 5 + 2 * p'.counti + p'.cycleCount
        BY <3>7, <4>1
      <4>4. QED
        BY <1>1, <1>2, <4>1, <4>2, <4>3, <3>5, <3>6, <3>7, <3>8 DEF InStep, Scanned
    <3>11. QED
      BY <3>3, <3>9, <3>10
  <2>6. n.k = turned' + 1
    BY <1>1, <2>1 DEF At
  <2>7. QED
    BY <1>3, <2>3, <2>4, <2>5, <2>6 DEF At
<1>6. QED
  BY <1>4, <1>5, LeadsTo, EndInitDoes DEF AtC, AtNumeral, AtCR, AtE

\* A sample more, in its place in the sum.
LEMMA OneMore ==
  ASSUME NEW n \in Nat, NEW i \in Nat, NEW v \in Int, NEW sum \in Int, NEW a \in Int,
         NEW before \in Int, sum + (n - i) * v = before
  PROVE  (sum + v + a) + (n - (i + 1)) * (v + a) = before + (n - (i + 1) + 1) * a
<1>1. n - i \in Int /\ v + a \in Int /\ n - (i + 1) + 1 = n - i
  OBVIOUS
<1>2. (n - (i + 1)) * (v + a) = (n - i) * (v + a) - (v + a)
  OBVIOUS
<1>3. (n - i) * (v + a) = (n - i) * v + (n - i) * a
  OBVIOUS
<1>4. (n - i) * v \in Int /\ (n - i) * a \in Int
  OBVIOUS
<1>5. QED
  BY <1>1, <1>2, <1>3, <1>4

LEMMA EndSampleAt ==
  ASSUME Types, NEW m \in Mark, NEW n \in Mark, Unread(m), At(m),
         Leads(presses, m, Head(line), n), EndSample
  PROVE  At(n)'
<1>1. presses' = presses /\ lost' = lost /\ left' = left /\ turned' = turned
  BY DEF EndSample, history
<1>2. p.streamStart /\ ~p.countStart /\ ~p.initStart
      /\ p'.streamStart /\ ~p'.countStart /\ ~p'.initStart
  BY EndSampleDoes
<1>3. Clean(n)' /\ Slack(n)'
  BY <1>2 DEF Clean, Slack
<1>4. CASE AtNoise(m, Head(line), n)
  <2>1. n = m /\ n.w = 0 /\ (Sound => n.k - 1 \in lost)
    BY <1>2, <1>4, NoiseAt DEF AtNoise
  <2>2. Between(n)'
    BY <1>1, <2>1 DEF Between, Sound, Few
  <2>3. Exact(n)'
    BY <2>1 DEF Exact
  <2>4. n.k = turned' + 1
    BY <1>1, <2>1 DEF At
  <2>5. QED
    BY <1>3, <2>2, <2>3, <2>4 DEF At
<1>5. CASE AtLF(m, Head(line), n)
  <2>1. /\ m.k \in 1..Len(presses) /\ m.w >= 1 /\ m.w <= W(m.k) /\ m.s = 2
        /\ n.k = m.k /\ n.w = m.w + 1 /\ n.s = 0
        /\ m.w \in Nat /\ W(m.k) \in Nat /\ W(m.k) = 4 + 2 * Len(presses[m.k].samples)
    BY <1>5, PressIs, MarkIs DEF AtLF, Inside
  <2>2. Between(n)'
    BY <2>1 DEF Between
  <2>3. Exact(n)'
    <3> DEFINE press == presses[m.k]
               len   == Len(press.samples)
               word  == Word(press.init, press.samples, m.w)
    <3>1. SUFFICES ASSUME Sound, Whole(m.k) PROVE InStep(press, n)'
      BY <1>1, <2>1 DEF Exact, Sound, Whole
    <3>2. InStep(press, m)
      BY <2>1, <3>1 DEF At, Exact
    <3>3. m.w >= 5
      BY <1>2, <2>1, <3>2 DEF InStep
    <3>4. m.w = 5 + 2 * p.counti + p.cycleCount /\ Running(press)
      BY <3>2, <3>3 DEF InStep
    <3>5. /\ p.counti \in Nat /\ p.cycleCount \in 0..1 /\ len \in Nat
          /\ p.vOldy \in Int /\ p.vOldz \in Int /\ p.VAveragey \in Int /\ p.VAveragez \in Int
      <4>1. len \in Nat
        BY <2>1, PressTotals
      <4>2. QED
        BY <4>1, ParserIs
    <3> HIDE DEF len
    <3>6. p.counti + 1 <= len /\ m.w \in Nat
      <4>1. W(m.k) = 4 + 2 * len /\ m.w = 5 + 2 * p.counti + p.cycleCount
        BY <2>1, <3>4 DEF len
      <4>2. QED
        BY <2>1, <3>5, <4>1
    <3>7. word = press.samples[p.counti + 1][IF p.cycleCount = 0 THEN 1 ELSE 2]
      <4>1. (m.w - 3) \div 2 = p.counti + 1 
            /\ (p.cycleCount = 0 => m.w % 2 = 1) /\ (p.cycleCount = 1 => m.w % 2 # 1)
        <5>1. ASSUME NEW w, NEW i \in Nat, NEW c \in 0..1, w = 5 + 2 * i + c
              PROVE  (w - 3) \div 2 = i + 1 /\ (c = 0 => w % 2 = 1) /\ (c = 1 => w % 2 # 1)
          BY <5>1
        <5>2. m.w = 5 + 2 * p.counti + p.cycleCount
          BY <3>4
        <5>3. QED
          BY <3>5, <5>1, <5>2
      <4>2. word = press.samples[(m.w - 3) \div 2][IF m.w % 2 = 1 THEN 1 ELSE 2]
        BY <3>3, <3>6 DEF Word
      <4>3. QED
        BY <4>1, <4>2, <3>5
    <3>8. atoi(p.buffer, p.dirty) = {word}
      BY <2>1, <3>2, NumberRead
    <3>9. \A i \in 1..3 : p'.init[i] = press.init[i]
      <4>1. \A i \in 1..3 : m.w >= i + 2
        BY <3>3, <2>1
      <4>2. p'.init = p.init
        BY EndSampleDoes
      <4>3. QED
        BY <3>2, <4>1, <4>2 DEF InStep
    <3>10. p'.count = len /\ p'.buffer = Empty /\ p'.inc_i = 0
      <4>1. m.w >= 2
        BY <3>3, <3>6
      <4>2. QED
        BY <3>2, <4>1, EndSampleDoes DEF InStep, len
    <3> HIDE DEF word
    <3>11. n.w = 5 + 2 * p'.counti + p'.cycleCount
      <4>1. CASE p.cycleCount = 0 /\ p'.cycleCount = 1 /\ p'.counti = p.counti
        BY <4>1, <2>1, <3>4, <3>5
      <4>2. CASE p.cycleCount = 1 /\ p'.cycleCount = 0 /\ p'.counti = p.counti + 1
        BY <4>2, <2>1, <3>4, <3>5
      <4>3. QED
        BY <4>1, <4>2, EndSampleDoes
    <3>12. Running(press)'
      <4> DEFINE ty == Promise!Totals(press.samples, 1)
                 tz == Promise!Totals(press.samples, 2)
                 c  == p.counti + 1
      <4>1. /\ press.samples[c][1] \in Int /\ ty[c] = ty[c - 1] + (len - c + 1) * press.samples[c][1]
            /\ press.samples[c][2] \in Int /\ tz[c] = tz[c - 1] + (len - c + 1) * press.samples[c][2]
            /\ ty[c - 1] \in Int /\ tz[c - 1] \in Int
        <5>1. c \in 1..len /\ c - 1 \in 0..len
          BY <3>5, <3>6
        <5>2. QED
          BY <2>1, <5>1, PressTotals DEF len
      <4>2. c - 1 = p.counti /\ c \in Nat
        BY <3>5
      <4>3. /\ p.VAveragey + (len - (p.counti + p.cycleCount)) * p.vOldy = ty[p.counti + p.cycleCount]
            /\ p.VAveragez + (len - p.counti) * p.vOldz = tz[p.counti]
        BY <3>4 DEF Running, len
      <4> HIDE DEF ty, tz, len
      <4>4. CASE /\ p.cycleCount = 0 /\ p'.cycleCount = 1 /\ p'.counti = p.counti
                 /\ p'.vOldy = p.vOldy + word /\ p'.VAveragey = p.VAveragey + p.vOldy + word
                 /\ p'.vOldz = p.vOldz /\ p'.VAveragez = p.VAveragez
        <5>1. word = press.samples[c][1] /\ word \in Int
          BY <4>4, <3>7, <4>1
        <5>2. p.counti + p.cycleCount = p.counti /\ p'.counti + p'.cycleCount = c
          BY <4>4, <3>5
        <5>3. p.VAveragey + (len - p.counti) * p.vOldy = ty[p.counti]
          BY <4>3, <5>2
        <5>4. (p.VAveragey + p.vOldy + word) + (len - c) * (p.vOldy + word)
                = ty[p.counti] + (len - c + 1) * word
          <6>1. ty[p.counti] \in Int
            BY <4>1, <4>2
          <6>2. QED
            <7>1. /\ p.VAveragey \in Int /\ p.vOldy \in Int /\ word \in Int /\ len \in Nat
                  /\ p.counti \in Nat /\ p.VAveragey + (len - p.counti) * p.vOldy = ty[p.counti]
              BY <3>5, <5>1, <5>3
            <7>2. QED
              BY <7>1, <6>1, OneMore
        <5>5. p'.VAveragey + (len - (p'.counti + p'.cycleCount)) * p'.vOldy = ty[p'.counti + p'.cycleCount]
          BY <4>1, <4>2, <4>4, <5>1, <5>2, <5>4
        <5>6. p'.VAveragez + (len - p'.counti) * p'.vOldz = tz[p'.counti]
          BY <4>3, <4>4
        <5>7. QED
          BY <1>1, <5>5, <5>6 DEF Running, ty, tz, len
      <4>5. CASE /\ p.cycleCount = 1 /\ p'.cycleCount = 0 /\ p'.counti = p.counti + 1
                 /\ p'.vOldy = p.vOldy /\ p'.VAveragey = p.VAveragey
                 /\ p'.vOldz = p.vOldz + word /\ p'.VAveragez = p.VAveragez + p.vOldz + word
        <5>1. word = press.samples[c][2] /\ word \in Int
          BY <4>5, <3>7, <4>1
        <5>2. p.counti + p.cycleCount = c /\ p'.counti + p'.cycleCount = c /\ p'.counti = c
          BY <4>5, <3>5
        <5>3. p'.VAveragey + (len - (p'.counti + p'.cycleCount)) * p'.vOldy = ty[p'.counti + p'.cycleCount]
          BY <4>3, <4>5, <5>2
        <5>4. (p.VAveragez + p.vOldz + word) + (len - c) * (p.vOldz + word)
                = tz[p.counti] + (len - c + 1) * word
          <6>1. tz[p.counti] \in Int
            BY <4>1, <4>2
          <6>2. QED
            <7>1. /\ p.VAveragez \in Int /\ p.vOldz \in Int /\ word \in Int /\ len \in Nat
                  /\ p.counti \in Nat /\ p.VAveragez + (len - p.counti) * p.vOldz = tz[p.counti]
              BY <3>5, <4>3, <5>1
            <7>2. QED
              BY <7>1, <6>1, OneMore
        <5>5. p'.VAveragez + (len - p'.counti) * p'.vOldz = tz[p'.counti]
          BY <4>1, <4>2, <4>5, <5>1, <5>2, <5>4
        <5>6. QED
          BY <1>1, <5>3, <5>5 DEF Running, ty, tz, len
      <4>6. QED
        BY <4>4, <4>5, <3>8, EndSampleDoes
    <3>13. n.w >= 5 /\ ~(n.w <= 4) /\ n.w # 1 /\ n.w \notin 2..4 /\ n.w >= 2 /\ n.s = 0
      BY <2>1, <3>3
    <3>14. QED
      BY <1>1, <1>2, <3>9, <3>10, <3>11, <3>12, <3>13 DEF InStep, Scanned, len
  <2>4. n.k = turned' + 1
    BY <1>1, <2>1 DEF At
  <2>5. QED
    BY <1>3, <2>2, <2>3, <2>4 DEF At
<1>6. QED
  BY <1>4, <1>5, LeadsTo, EndSampleDoes DEF AtC, AtNumeral, AtCR, AtE

LEMMA EndStreamAt ==
  ASSUME Types, NEW m \in Mark, NEW n \in Mark, Unread(m), At(m),
         Leads(presses, m, Head(line), n), EndStream
  PROVE  At(n)'
<1>1. presses' = presses /\ lost' = lost /\ left' = left
  BY DEF EndStream
<1>2. p.streamStart /\ ~p.countStart /\ ~p'.streamStart /\ ~p'.countStart /\ p'.initStart = p.initStart
  BY EndStreamDoes
<1>3. AtE(m, Head(line), n)
  BY LeadsTo, EndStreamDoes DEF AtNoise, AtC, AtNumeral, AtCR, AtLF
<1>4. /\ m.k \in 1..Len(presses) /\ Head(line).of = m.k /\ m.w = W(m.k) + 1 /\ n.k = m.k + 1 /\ n.w = 0
      /\ W(m.k) \in Nat /\ W(m.k) >= 6 /\ m.k \in Nat
  BY <1>3, PressIs, MarkIs DEF AtE, Inside
<1>5. Few => ~p.initStart
  <2>1. SUFFICES ASSUME Few, p.initStart PROVE FALSE
    OBVIOUS
  <2>2. W(m.k) + 1 - m.w >= 3 - p.initCounter + left.losses
    BY <1>2, <2>1 DEF At, Slack
  <2>3. W(m.k) + 1 - m.w = 0 /\ left.losses \in Nat /\ p.initCounter \in 0..2
    BY <1>4, ParserIs
  <2>4. QED
    BY <2>2, <2>3
<1>6. Sound => ~p.initStart
  <2>1. SUFFICES ASSUME lost = {} PROVE ~p.initStart
    BY <1>5 DEF Sound
  <2>2. Sound /\ Whole(m.k) /\ m.w >= 1 /\ m.w >= 5
    BY <2>1, <1>4 DEF Sound, Whole
  <2>3. InStep(presses[m.k], m)
    BY <2>2 DEF At, Exact
  <2>4. QED
    BY <2>2, <2>3 DEF InStep
<1>7. Still' /\ p'.inc_i = 0 /\ p'.cycleCount = 0
  BY EndStreamDoes DEF Still
<1>8. Clean(n)'
  BY <1>1, <1>2, <1>4, <1>6, <1>7 DEF Clean, Sound, Few
<1>9. Slack(n)' /\ Between(n)'
  BY <1>2 DEF Slack, Between
<1>10. Exact(n)'
  BY <1>4 DEF Exact
<1>11. n.k = turned' + 1
  BY <1>4, EndStreamDoes
<1>12. QED
  BY <1>8, <1>9, <1>10, <1>11 DEF At

LEMMA IgnoreAt ==
  ASSUME Types, NEW m \in Mark, NEW n \in Mark, Unread(m), At(m),
         Leads(presses, m, Head(line), n), Ignore
  PROVE  At(n)'
<1>1. presses' = presses /\ lost' = lost /\ left' = left /\ p' = p /\ ~p.streamStart
  BY DEF Ignore
<1>2. Slack(n)' /\ Between(n)'
  BY <1>1 DEF Slack, Between
<1>3. CASE AtNoise(m, Head(line), n)
  <2>1. n = m /\ turned' = turned
    BY <1>3, IgnoreDoes DEF AtNoise
  <2>2. Clean(n)' /\ Exact(n)'
    <3>1. n.w = 0 /\ (n.w >= 1 => FALSE)
      BY <1>3, <2>1 DEF AtNoise
    <3>2. QED
      BY <1>1, <2>1, <3>1 DEF At, Clean, Exact, Sound, Few, Still
  <2>3. QED
    BY <1>2, <2>1, <2>2 DEF At
<1>4. CASE AtNumeral(m, Head(line), n) \/ AtCR(m, Head(line), n) \/ AtLF(m, Head(line), n)
  <2>1. n.k = m.k /\ m.w >= 1 /\ turned' = turned
    BY <1>4, IgnoreDoes DEF AtNumeral, AtCR, AtLF
  <2>2. Sound => m.k \in lost
    BY <1>1, <2>1 DEF At, Clean
  <2>3. Clean(n)'
    BY <1>1, <2>1, <2>2 DEF At, Clean, Sound, Few, Still
  <2>4. Exact(n)'
    BY <1>1, <2>1, <2>2 DEF Exact, Whole, Sound, Few
  <2>5. QED
    BY <1>2, <2>1, <2>3, <2>4 DEF At
<1>5. CASE AtE(m, Head(line), n)
  <2>1. n.k = m.k + 1 /\ n.w = 0 /\ ~(n.w >= 1) /\ turned' = m.k
    BY <1>5, IgnoreDoes DEF AtE, Inside
  <2>2. Clean(n)' /\ Exact(n)'
    BY <1>1, <2>1 DEF At, Clean, Exact, Sound, Few, Still
  <2>3. QED
    BY <1>2, <2>1, <2>2 DEF At
<1>6. QED
  BY <1>3, <1>4, <1>5, LeadsTo, IgnoreDoes DEF AtC

LEMMA BufferAt ==
  ASSUME Types, NEW m \in Mark, NEW n \in Mark, Unread(m), At(m),
         Leads(presses, m, Head(line), n), Buffer
  PROVE  At(n)'
<1> DEFINE ch == Head(line)
<1>1. presses' = presses /\ lost' = lost /\ left' = left
  BY DEF Buffer
<1>2. p.streamStart /\ Kept /\ p'.streamStart
  BY BufferDoes DEF Kept
<1>3. Clean(n)'
  BY <1>2 DEF Clean
<1>4. CASE AtNoise(m, ch, n)
  <2>1. n = m /\ m.w = 0 /\ turned' = turned
    BY <1>4, BufferDoes DEF AtNoise
  <2>2. (Sound => m.k - 1 \in lost) /\ (Few => ~p.countStart /\ ~p.initStart)
    BY <1>2, <2>1, NoiseAt
  <2>3. Slack(n)' /\ Between(n)'
    BY <1>1, <1>2, <2>1, <2>2 DEF Slack, Between, Sound, Few, Kept
  <2>4. Exact(n)'
    BY <2>1 DEF Exact
  <2>5. QED
    BY <1>3, <2>1, <2>3, <2>4 DEF At
<1>5. CASE AtC(m, ch, n)
  <2>1. n.k = m.k /\ n.w = 1 /\ m.w = 0 /\ turned' = turned
    BY <1>5, BufferDoes DEF AtC
  <2>2. (Sound => m.k - 1 \in lost) /\ (Few => ~p.countStart /\ ~p.initStart)
    BY <1>2, <2>1, NoiseAt
  <2>3. Slack(n)' /\ Between(n)'
    BY <1>1, <1>2, <2>1, <2>2 DEF Slack, Between, Few, Kept
  <2>4. Exact(n)'
    BY <1>1, <2>1, <2>2 DEF Exact, Whole, Sound, Few
  <2>5. QED
    BY <1>3, <2>1, <2>3, <2>4 DEF At
<1>6. CASE AtNumeral(m, ch, n) \/ AtCR(m, ch, n)
  <2>1. n.k = m.k /\ n.w = m.w /\ m.w >= 1 /\ turned' = turned /\ m.k \in 1..Len(presses)
    BY <1>6, BufferDoes DEF AtNumeral, AtCR, Inside
  <2>2. n.w # 0
    BY <2>1, MarkIs
  <2>3. W(n.k)' = W(m.k)
    BY <1>1, <2>1 DEF W
  <2>4. Slack(n)'
    BY <1>1, <1>2, <2>1, <2>3 DEF At, Slack, Few, Kept, Still, SpeedsKept
  <2>5. Between(n)'
    BY <2>2 DEF Between
  <2>6. Exact(n)'
    <3> DEFINE press == presses[m.k]
    <3>1. SUFFICES ASSUME Sound, Whole(m.k) PROVE InStep(press, n)'
      BY <1>1, <2>1 DEF Exact, Sound, Whole
    <3>2. InStep(press, m)
      BY <2>1, <3>1 DEF At, Exact
    <3>3. ch \in Letters
      BY ReadIs DEF Buffer
    <3>4. Scanned(press, n)'
      <4>1. CASE AtNumeral(m, ch, n)
        <5>1. m.s = 0 /\ n.s = 1 /\ ch.c = "numeral" /\ ch.v = Word(press.init, press.samples, m.w)
          BY <4>1 DEF AtNumeral
        <5>2. p.buffer = Empty /\ p.inc_i = 0
          BY <3>2, <5>1 DEF InStep, Scanned
        <5>3. Scan(p.buffer, ch) = [state |-> "digits", v |-> ch.v]
          BY <5>1, <5>2 DEF Scan, Empty
        <5>4. p'.buffer.state = "digits" /\ p'.buffer.v = ch.v
          BY <5>3, BufferDoes
        <5>5. p'.inc_i <= 6
          <6>1. Places(ch) \in 1..6 /\ p'.inc_i = 0 + Places(ch)
            BY <3>3, <5>2, PlacesAre, BufferDoes
          <6>2. QED
            BY <6>1
        <5>6. QED
          BY <1>1, <2>1, <5>1, <5>4, <5>5 DEF Scanned
      <4>2. CASE AtCR(m, ch, n)
        <5>1. m.s = 1 /\ n.s = 2 /\ ch.c = "CR"
          BY <4>2 DEF AtCR
        <5>2. /\ p.buffer.state = "digits" /\ p.buffer.v = Word(press.init, press.samples, m.w)
              /\ p.inc_i <= 6
          BY <3>2, <5>1 DEF InStep, Scanned
        <5>3. p.buffer \in Reads /\ p.inc_i \in Nat
          BY ParserIs
        <5>4. Scan(p.buffer, ch) = [p.buffer EXCEPT !.state = "over"]
          BY <5>1, <5>2 DEF Scan
        <5>5. p'.buffer.state = "over" /\ p'.buffer.v = p.buffer.v
          BY <5>3, <5>4, BufferDoes DEF Reads
        <5>6. p'.inc_i <= 7
          <6>1. Places(ch) = 1 /\ p'.inc_i = p.inc_i + Places(ch)
            BY <3>3, <5>1, PlacesAre, BufferDoes
          <6>2. QED
            BY <6>1, <5>2, <5>3
        <5>7. QED
          BY <1>1, <2>1, <5>1, <5>2, <5>5, <5>6 DEF Scanned
      <4>3. QED
        BY <4>1, <4>2, <1>6
    <3>5. Still => Still'
      BY <1>2 DEF Kept, Still, SpeedsKept
    <3>6. Running(press) => Running(press)'
      BY <1>1, <1>2 DEF Kept, Running, SpeedsKept
    <3>7. QED
      BY <1>1, <1>2, <2>1, <3>2, <3>4, <3>5, <3>6 DEF Kept, InStep
  <2>7. QED
    BY <1>3, <2>1, <2>4, <2>5, <2>6 DEF At
<1>7. CASE AtLF(m, ch, n)
  <2>1. /\ n.k = m.k /\ n.w = m.w + 1 /\ m.w >= 1 /\ turned' = turned
        /\ p.countStart /\ p.initStart
    BY <1>7, BufferDoes DEF AtLF
  <2>2. n.w # 0
    BY <2>1, MarkIs
  <2>3. ~Few
    BY <1>2, <2>1 DEF At, Slack
  <2>4. ~(Sound /\ Whole(m.k))
    <3>1. SUFFICES ASSUME Sound, Whole(m.k) PROVE FALSE
      OBVIOUS
    <3>2. InStep(presses[m.k], m)
      BY <2>1, <3>1 DEF At, Exact
    <3>3. m.w = 1 \/ m.w \in 2..4 \/ m.w >= 5
      BY <2>1, MarkIs
    <3>4. QED
      BY <2>1, <3>2, <3>3 DEF InStep
  <2>5. Slack(n)' /\ Between(n)'
    BY <2>2, <2>3 DEF Slack, Between, Few
  <2>6. Exact(n)'
    BY <1>1, <2>1, <2>4 DEF Exact, Whole, Sound, Few
  <2>7. QED
    BY <1>3, <2>1, <2>5, <2>6 DEF At
<1>8. CASE AtE(m, ch, n)
  <2>1. /\ m.w = W(m.k) + 1 /\ n.k = m.k + 1 /\ n.w = 0 /\ turned' = m.k
        /\ p.countStart /\ W(m.k) \in Nat /\ W(m.k) >= 6
    BY <1>8, BufferDoes, PressIs DEF AtE, Inside
  <2>2. ~Few
    <3>1. SUFFICES ASSUME Few PROVE FALSE
      OBVIOUS
    <3>2. W(m.k) + 1 - m.w >= 4 + left.losses
      BY <1>2, <2>1, <3>1 DEF At, Slack
    <3>3. W(m.k) + 1 - m.w = 0 /\ left.losses \in Nat
      BY <2>1, ParserIs
    <3>4. QED
      BY <3>2, <3>3
  <2>3. ~Sound
    <3>1. SUFFICES ASSUME lost = {} PROVE FALSE
      BY <2>2 DEF Sound
    <3>2. Sound /\ Whole(m.k) /\ m.w >= 1 /\ m.w >= 5
      BY <2>1, <3>1 DEF Sound, Whole
    <3>3. InStep(presses[m.k], m)
      BY <3>2 DEF At, Exact
    <3>4. QED
      BY <2>1, <3>2, <3>3 DEF InStep
  <2>4. Slack(n)' /\ Between(n)'
    BY <1>1, <2>2, <2>3 DEF Slack, Between, Sound, Few
  <2>5. Exact(n)'
    BY <2>1 DEF Exact
  <2>6. QED
    BY <1>3, <2>1, <2>4, <2>5 DEF At
<1>9. QED
  BY <1>4, <1>5, <1>6, <1>7, <1>8, LeadsTo

LEMMA LoseCharacterAt ==
  ASSUME Types, NEW m \in Mark, NEW n \in Mark, Unread(m), At(m),
         Leads(presses, m, Head(line), n), LoseCharacter
  PROVE  At(n)'
<1> DEFINE ch == Head(line)
<1>1. presses' = presses /\ p' = p
  BY DEF LoseCharacter
<1>2. /\ left.losses \in Nat /\ left.losses <= MaxLost /\ left'.losses = left.losses - 1
      /\ lost \subseteq lost' /\ left'.losses < left.losses
  BY LoseCharacterTypes
<1>3. (Sound' => Sound) /\ (Few' => Few)
  BY <1>2 DEF Sound, Few
<1>4. CASE AtNoise(m, ch, n)
  <2>1. n = m /\ n.w = 0 /\ ~(n.w >= 1) /\ turned' = turned /\ lost' = lost
    BY <1>4, LoseCharacterDoes DEF AtNoise
  <2>2. Clean(n)' /\ Between(n)' /\ Exact(n)'
    BY <1>1, <1>3, <2>1 DEF At, Clean, Between, Exact, Still
  <2>3. Slack(n)'
    BY <1>1, <1>3, <2>1 DEF At, Slack
  <2>4. QED
    BY <2>1, <2>2, <2>3 DEF At
<1>5. ASSUME Inside(m, ch)
      PROVE  m.k \in lost' /\ m.k \in 1..Len(presses)
  <2>1. ch.of = m.k /\ ch.of # 0
    BY <1>5, MarkIs DEF Inside
  <2>2. QED
    BY <1>5, <2>1, LoseCharacterDoes DEF Inside
<1>6. CASE AtC(m, ch, n)
  <2>1. n.k = m.k /\ n.w = 1 /\ n.w # 0 /\ m.w = 0 /\ ~(m.w >= 1) /\ turned' = turned /\ m.k \in lost'
    BY <1>5, <1>6, LoseCharacterDoes DEF AtC
  <2>2. Clean(n)' /\ Between(n)' /\ Exact(n)'
    BY <1>1, <1>3, <2>1 DEF At, Clean, Between, Exact, Still, Whole
  <2>3. Slack(n)'
    BY <1>1, <1>3, <2>1 DEF At, Slack
  <2>4. QED
    BY <2>1, <2>2, <2>3 DEF At
<1>7. CASE AtNumeral(m, ch, n) \/ AtCR(m, ch, n) \/ AtLF(m, ch, n)
  <2>1. /\ n.k = m.k /\ m.w >= 1 /\ turned' = turned /\ m.k \in lost' /\ m.k \in 1..Len(presses)
        /\ n.w \in {m.w, m.w + 1}
    BY <1>5, <1>7, LoseCharacterDoes DEF AtNumeral, AtCR, AtLF
  <2>2. n.w >= 1 /\ n.w # 0 /\ n.w \in Nat /\ m.w \in Nat
    BY <2>1, MarkIs
  <2>3. Clean(n)' /\ Between(n)' /\ Exact(n)'
    BY <1>1, <1>3, <2>1, <2>2 DEF At, Clean, Between, Exact, Still, Whole
  <2>4. Slack(n)'
    <3>1. W(n.k)' = W(m.k) /\ W(m.k) \in Nat
      BY <1>1, <2>1, PressIs DEF W
    <3>2. SUFFICES ASSUME Few, p.streamStart, p.countStart \/ p.initStart
                   PROVE  /\ Still /\ ~(p.countStart /\ p.initStart)
                          /\ (p.countStart => W(m.k) + 1 - n.w >= 4 + left'.losses)
                          /\ (p.initStart  => W(m.k) + 1 - n.w >= 3 - p.initCounter + left'.losses)
      BY <1>1, <1>3, <2>2, <3>1 DEF Slack, Still
    <3>3. /\ Still /\ ~(p.countStart /\ p.initStart)
          /\ (p.countStart => W(m.k) + 1 - m.w >= 4 + left.losses)
          /\ (p.initStart  => W(m.k) + 1 - m.w >= 3 - p.initCounter + left.losses)
      BY <3>2 DEF At, Slack
    <3>4. \A c \in Int : W(m.k) + 1 - m.w >= c + left.losses => W(m.k) + 1 - n.w >= c + left'.losses
      <4>1. ASSUME NEW last \in Nat, NEW w \in Nat, NEW w2 \in {w, w + 1}, NEW losses \in Nat,
                   NEW c \in Int, last + 1 - w >= c + losses
            PROVE  last + 1 - w2 >= c + (losses - 1)
        BY <4>1
      <4>2. /\ W(m.k) \in Nat /\ m.w \in Nat /\ n.w \in {m.w, m.w + 1} /\ left.losses \in Nat
            /\ left'.losses = left.losses - 1
        BY <1>2, <2>1, <2>2, <3>1
      <4>3. QED
        BY <4>1, <4>2, Zenon
    <3>5. 4 \in Int /\ 3 - p.initCounter \in Int
      BY ParserIs
    <3>6. QED
      BY <3>3, <3>4, <3>5
  <2>5. QED
    BY <2>1, <2>3, <2>4 DEF At
<1>8. CASE AtE(m, ch, n)
  <2>1. /\ m.w = W(m.k) + 1 /\ n.k = m.k + 1 /\ n.w = 0 /\ ~(n.w >= 1) /\ turned' = m.k
        /\ W(m.k) \in Nat /\ n.k - 1 = m.k /\ m.k \in lost'
    <3>1. Inside(m, ch)
      BY <1>8 DEF AtE
    <3>2. m.k \in lost' /\ m.k \in 1..Len(presses) /\ ch.of = m.k
      BY <1>5, <3>1 DEF Inside
    <3>3. W(m.k) \in Nat
      BY <3>2, PressIs
    <3>4. QED
      BY <1>8, <3>2, <3>3, LoseCharacterDoes DEF AtE
  <2>2. Clean(n)' /\ Between(n)' /\ Exact(n)'
    BY <1>1, <1>3, <2>1 DEF At, Clean, Between, Exact, Still
  <2>3. Slack(n)'
    <3>1. SUFFICES ASSUME Few, p.streamStart, p.countStart \/ p.initStart PROVE FALSE
      BY <1>1, <1>3 DEF Slack
    <3>2. /\ (p.countStart => W(m.k) + 1 - m.w >= 4 + left.losses)
          /\ (p.initStart  => W(m.k) + 1 - m.w >= 3 - p.initCounter + left.losses)
      BY <3>1 DEF At, Slack
    <3>3. \A c \in Int : c >= 1 => ~(W(m.k) + 1 - m.w >= c + left.losses)
      BY <1>2, <2>1
    <3>4. 4 \in Int /\ 4 >= 1 /\ 3 - p.initCounter \in Int /\ 3 - p.initCounter >= 1
      BY ParserIs
    <3>5. QED
      BY <3>1, <3>2, <3>3, <3>4
  <2>4. QED
    BY <2>1, <2>2, <2>3 DEF At
<1>9. QED
  BY <1>4, <1>6, <1>7, <1>8, LeadsTo

\* A step of the reader, or a loss: the mark moves to the character behind.
LEMMA ReadAt ==
  ASSUME Types, NEW m \in Mark, Unread(m), At(m),
         line # <<>>, line' = Tail(line), presses' = presses,
         LoseCharacter \/ ReadCharacter
  PROVE  \E n \in Mark : Unread(n)' /\ At(n)'
<1>1. PICK n \in Mark : Leads(presses, m, Head(line), n) /\ Unread(n)'
  BY UnreadTail
<1>2. At(n)'
  BY <1>1, StartStreamAt, EndCountAt, EndInitAt, EndSampleAt, EndStreamAt, BufferAt, IgnoreAt,
     LoseCharacterAt DEF ReadCharacter
<1>3. QED
  BY <1>1, <1>2

\* At says nothing of what is not printed yet.
LEMMA SameAt ==
  ASSUME Types, NEW m \in Mark, Unread(m), At(m),
         p' = p, lost' = lost, turned' = turned, left'.losses = left.losses,
         \A k \in 1..Len(presses) : presses'[k] = presses[k]
  PROVE  At(m)'
<1>1. Clean(m)' /\ Between(m)'
  BY DEF At, Clean, Between, Sound, Few, Still
<1>2. m.w >= 1 => m.k \in 1..Len(presses) /\ presses'[m.k] = presses[m.k] /\ W(m.k)' = W(m.k)
  BY InsideAStream DEF W
<1>3. Slack(m)'
  BY <1>2 DEF At, Slack, Few, Still
<1>4. Exact(m)'
  <2>1. SUFFICES ASSUME Sound, m.w >= 1, Whole(m.k) PROVE InStep(presses[m.k], m)'
    BY DEF Exact, Sound, Few, Whole
  <2>2. InStep(presses[m.k], m) /\ presses'[m.k] = presses[m.k]
    BY <1>2, <2>1 DEF At, Exact
  <2>3. QED
    BY <2>2 DEF InStep, Scanned, Running, Still
<1>5. QED
  BY <1>1, <1>3, <1>4 DEF At

LEMMA StepAt ==
  ASSUME IInv, [Next]_vars
  PROVE  IInv'
<1>1. Types /\ Types'
  BY StepTypes DEF IInv
<1>2. PICK m \in Mark : Unread(m) /\ At(m)
  BY DEF IInv
<1>3. CASE LoseCharacter
  <2>1. line # <<>> /\ line' = Tail(line) /\ presses' = presses
    BY <1>3 DEF LoseCharacter
  <2>2. QED
    BY <1>1, <1>2, <1>3, <2>1, ReadAt DEF IInv
<1>4. CASE ReadCharacter
  <2>1. line # <<>> /\ line' = Tail(line) /\ presses' = presses
    BY <1>4 DEF ReadCharacter, StartStream, EndCount, EndInit, EndSample, EndStream, Buffer, Ignore,
                Read, history
  <2>2. QED
    BY <1>1, <1>2, <1>4, <2>1, ReadAt DEF IInv
<1>5. CASE PressDown \/ Sample \/ UNCHANGED vars
  <2>1. UNCHANGED <<line, p, gesture, history, left>>
    BY <1>5 DEF PressDown, Sample, vars
  <2>2. /\ line' = line /\ p' = p /\ presses' = presses /\ turned' = turned /\ lost' = lost
        /\ left' = left
    BY <2>1 DEF history
  <2>3. Unread(m)'
    BY <1>2, <2>2 DEF Unread
  <2>4. At(m)'
    BY <1>1, <1>2, <2>2, SameAt
  <2>5. QED
    BY <1>1, <2>3, <2>4 DEF IInv
<1>6. CASE Release
  <2>1. PICK press \in Press :
          /\ Len(press.samples) \in 1..MaxSamples
          /\ presses' = Append(presses, press)
          /\ line' = line \o Stream(press.init, press.samples, Len(presses) + 1)
    BY <1>1, <1>6, ReleaseTypes
  <2>2. Unread(m)'
    BY <1>1, <1>2, <2>1, UnreadStream
  <2>3. p' = p /\ turned' = turned /\ lost' = lost /\ left' = left
    BY <1>6 DEF Release
  <2>4. presses \in Seq(Press)
    BY <1>1, TypesAre DEF History
  <2>5. \A k \in 1..Len(presses) : presses'[k] = presses[k]
    BY <2>1, <2>4
  <2>6. At(m)'
    BY <1>1, <1>2, <2>3, <2>5, SameAt
  <2>7. QED
    BY <1>1, <2>2, <2>6 DEF IInv
<1>7. CASE Touch
  <2>1. PICK noise \in Seq(Letters) :
          /\ line' = line \o noise
          /\ \A i \in 1..Len(noise) : noise[i].of = 0 /\ noise[i].c \notin {"C", "E"}
    BY <1>1, <1>7, TouchTypes
  <2>2. p' = p /\ presses' = presses /\ turned' = turned /\ lost' = lost
    BY <1>7 DEF Touch, history
  <2>3. left'.losses = left.losses
    <3>1. left \in [touches: Nat, losses: 0..MaxLost] /\ left' = [left EXCEPT !.touches = left.touches - 1]
      BY <1>1, <1>7, TypesAre DEF Touch, History
    <3>2. QED
      BY <3>1
  <2>4. Unread(m)'
    BY <1>1, <1>2, <2>1, <2>2, UnreadNoise
  <2>5. At(m)'
    BY <1>1, <1>2, <2>2, <2>3, SameAt
  <2>6. QED
    BY <1>1, <2>4, <2>5 DEF IInv
<1>8. QED
  BY <1>3, <1>4, <1>5, <1>6, <1>7 DEF Next

LEMMA InitAt == Init => IInv
<1> SUFFICES ASSUME Init PROVE IInv
  OBVIOUS
<1>1. Types
  BY InitTypes
<1> DEFINE m == [k |-> 1, w |-> 0, s |-> 2]
           f == [i \in 1..(Len(line) + 1) |-> m]
<1>2. m \in Mark
  <2>1. \A k \in Nat \ {0}, w \in Nat, s \in 0..2 : [k |-> k, w |-> w, s |-> s] \in Mark
    BY DEF Mark
  <2>2. 1 \in Nat \ {0} /\ 0 \in Nat /\ 2 \in 0..2
    OBVIOUS
  <2>3. QED
    BY <2>1, <2>2, Zenon
<1>3. line = <<>> /\ presses = <<>> /\ turned = 0 /\ lost = {} /\ p = Idle
  BY DEF Init
<1>4. Unread(m)
  <2>1. Len(line) = 0 /\ Len(line) + 1 = 1 /\ Len(presses) + 1 = 1
    BY <1>3
  <2>2. f \in [1..(Len(line) + 1) -> Mark] /\ f[1] = m /\ f[Len(line) + 1] = m
    BY <1>2, <2>1
  <2>3. m = [k |-> Len(presses) + 1, w |-> 0, s |-> 2]
    BY <2>1
  <2> HIDE DEF f, m
  <2>4. \A i \in 1..Len(line) : FALSE
    BY <2>1
  <2>5. QED
    BY <2>2, <2>3, <2>4 DEF Unread
<1>5. At(m)
  <2>1. m.k = 1 /\ m.w = 0 /\ ~(m.w >= 1)
    OBVIOUS
  <2>2. ~p.streamStart /\ ~p.countStart /\ ~p.initStart /\ Still /\ p.inc_i = 0 /\ p.cycleCount = 0
    BY <1>3 DEF Idle, Still
  <2> HIDE DEF m
  <2>3. m.k = turned + 1
    BY <1>3, <2>1
  <2>4. QED
    BY <2>1, <2>2, <2>3 DEF At, Clean, Slack, Between, Exact
<1>6. QED
  BY <1>1, <1>2, <1>4, <1>5 DEF IInv

LEMMA Inductive == Spec => []IInv
<1>1. IInv /\ [Next]_vars => IInv'
  BY StepAt
<1>2. QED
  BY InitAt, <1>1, PTL DEF Spec

-----------------------------------------------------------------------------
(* What follows for the arrays and for the wearer. *)

LEMMA HeadLeads ==
  ASSUME Types, NEW m \in Mark, Unread(m), line # <<>>
  PROVE  \E n \in Mark : Leads(presses, m, Head(line), n)
<1>1. PICK f \in [1..(Len(line) + 1) -> Mark] :
        /\ f[1] = m
        /\ \A i \in 1..Len(line) : Leads(presses, f[i], line[i], f[i + 1])
        /\ f[Len(line) + 1] = [k |-> Len(presses) + 1, w |-> 0, s |-> 2]
  BY DEF Unread
<1>2. Head(line) = line[1] /\ Len(line) \in Nat \ {0}
  BY TypesAre, HeadAndTail DEF History
<1>3. 1 \in 1..Len(line) /\ 1 + 1 = 2 /\ 2 \in 1..(Len(line) + 1)
  BY <1>2
<1>4. f[2] \in Mark
  BY <1>1, <1>3
<1>5. Leads(presses, m, Head(line), f[2])
  BY <1>1, <1>2, <1>3
<1>6. QED
  BY <1>4, <1>5

\* An 'E' that is read stands at the end of a press.
LEMMA EIsLast ==
  ASSUME Types, NEW m \in Mark, Unread(m), line # <<>>, Head(line).c = "E"
  PROVE  /\ m.k \in 1..Len(presses) /\ Head(line).of = m.k
         /\ m.w = W(m.k) + 1 /\ m.w >= 1 /\ m.w >= 5 /\ m.w \in Nat
<1>1. PICK n \in Mark : Leads(presses, m, Head(line), n)
  BY HeadLeads
<1>2. AtE(m, Head(line), n)
  BY <1>1, LeadsTo DEF AtNoise, AtC, AtNumeral, AtCR, AtLF
<1>3. m.k \in 1..Len(presses) /\ Head(line).of = m.k /\ m.w = W(m.k) + 1
  BY <1>2 DEF AtE, Inside
<1>4. W(m.k) \in Nat /\ W(m.k) >= 6
  BY <1>3, PressIs
<1>5. QED
  BY <1>3, <1>4

\* In step, there is room for the number that is read.
LEMMA RoomFor ==
  ASSUME Types, NEW m \in Mark, m.k \in 1..Len(presses), m.w >= 1, m.w <= W(m.k) + 1,
         InStep(presses[m.k], m)
  PROVE  /\ p.inc_i <= 7
         /\ (~p.countStart => p.count = Len(presses[m.k].samples))
         /\ (p.cycleCount = 1 => p.counti < Len(presses[m.k].samples))
         /\ (m.w = W(m.k) + 1 => p.counti = Len(presses[m.k].samples) /\ p.cycleCount = 0)
<1> DEFINE n == Len(presses[m.k].samples)
<1>1. n \in Nat /\ W(m.k) = 4 + 2 * n /\ m.w \in Nat /\ W(m.k) >= 6
  BY PressIs, PressTotals, MarkIs
<1>2. p.cycleCount \in 0..1 /\ p.counti \in Nat
  BY ParserIs
<1>3. p.inc_i <= 7
  <2>1. m.s = 0 \/ m.s = 1 \/ m.s = 2
    BY MarkIs
  <2>2. p.inc_i \in Nat /\ (p.inc_i = 0 \/ p.inc_i <= 6 \/ p.inc_i <= 7)
    BY <2>1, ParserIs DEF InStep, Scanned
  <2>3. QED
    BY <2>2
<1>4. ~p.countStart => p.count = n
  BY <1>1 DEF InStep
<1>5. m.w >= 5 => m.w = 5 + 2 * p.counti + p.cycleCount
  BY DEF InStep
<1>6. m.w <= 4 => p.cycleCount = 0
  BY DEF InStep
<1> HIDE DEF n
<1>7. p.cycleCount = 1 => p.counti < n
  <2>1. SUFFICES ASSUME p.cycleCount = 1 PROVE p.counti < n
    OBVIOUS
  <2>2. m.w >= 5
    BY <2>1, <1>1, <1>6
  <2>3. 5 + 2 * p.counti + 1 <= 4 + 2 * n + 1
    BY <2>1, <2>2, <1>1, <1>5
  <2>4. QED
    BY <2>3, <1>1, <1>2
<1>8. m.w = W(m.k) + 1 => p.counti = n /\ p.cycleCount = 0
  <2>1. SUFFICES ASSUME m.w = W(m.k) + 1 PROVE p.counti = n /\ p.cycleCount = 0
    OBVIOUS
  <2>2. 5 + 2 * p.counti + p.cycleCount = 4 + 2 * n + 1
    BY <2>1, <1>1, <1>5
  <2>3. QED
    BY <2>2, <1>1, <1>2
<1>9. QED
  BY <1>3, <1>4, <1>7, <1>8 DEF n

\* Until a character is lost, the numbers of a stream fit the parser's buffer and its samples
\* the arrays, and a stream ends with the samples its head announced: for streams of any
\* length the glove may print, with noise of the other fingers between them.
THEOREM StreamsFit == Spec => []StreamFits
<1>1. IInv => StreamFits
  <2> SUFFICES ASSUME IInv, left.losses = MaxLost
               PROVE  /\ p.inc_i <= BUFFER
                      /\ (p.streamStart /\ ~p.countStart => p.count \in 1..MaxSamples)
                      /\ (p.cycleCount = 1 => p.counti < MaxSamples)
                      /\ (line # <<>> /\ Head(line).c = "E" => p.streamStart /\ p.counti = p.count)
    BY DEF StreamFits
  <2>1. Types
    BY DEF IInv
  <2>2. PICK m \in Mark : Unread(m) /\ At(m)
    BY DEF IInv
  <2>3. lost = {} /\ Sound /\ Whole(m.k) /\ m.k - 1 \notin lost
    BY <2>1, TypesAre DEF History, Sound, Whole
  <2>4. p.inc_i \in Nat /\ p.counti \in Nat /\ m.w \in Nat
    BY <2>1, ParserIs, MarkIs
  <2>5. CASE ~p.streamStart
    <3>1. p.inc_i = 0 /\ p.cycleCount = 0 /\ ~(m.w >= 1)
      BY <2>2, <2>3, <2>5 DEF At, Clean
    <3>2. ~(line # <<>> /\ Head(line).c = "E")
      BY <2>1, <2>2, <3>1, EIsLast
    <3>3. 0 <= 8 /\ 0 # 1
      OBVIOUS
    <3>4. QED
      BY <2>5, <3>1, <3>2, <3>3 DEF BUFFER
  <2>6. CASE p.streamStart
    <3> DEFINE n == Len(presses[m.k].samples)
    <3>1. m.w >= 1
      BY <2>2, <2>3, <2>4, <2>6 DEF At, Between
    <3>2. m.k \in 1..Len(presses) /\ m.w <= W(m.k) + 1
      BY <2>1, <2>2, <3>1, InsideAStream
    <3>3. InStep(presses[m.k], m)
      BY <2>2, <2>3, <3>1 DEF At, Exact
    <3>4. n \in 1..MaxSamples /\ n <= MaxSamples /\ MaxSamples \in Nat /\ n \in Nat
      BY <2>1, <3>2, PressIs, PressTotals, BoundsAre
    <3>5. /\ p.inc_i <= 7 /\ (~p.countStart => p.count = n) /\ (p.cycleCount = 1 => p.counti < n)
          /\ (m.w = W(m.k) + 1 => p.counti = n)
      BY <2>1, <3>1, <3>2, <3>3, RoomFor
    <3> HIDE DEF n
    <3>6. p.inc_i <= BUFFER
      BY <2>4, <3>5 DEF BUFFER
    <3>7. ~p.countStart => p.count \in 1..MaxSamples
      BY <3>4, <3>5
    <3>8. p.cycleCount = 1 => p.counti < MaxSamples
      BY <2>4, <3>4, <3>5
    <3>9. line # <<>> /\ Head(line).c = "E" => p.counti = p.count
      <4>1. SUFFICES ASSUME line # <<>>, Head(line).c = "E" PROVE p.counti = p.count
        OBVIOUS
      <4>2. m.w = W(m.k) + 1 /\ m.w >= 5
        BY <2>1, <2>2, <4>1, EIsLast
      <4>3. ~p.countStart
        BY <3>3, <4>2 DEF InStep
      <4>4. QED
        BY <3>5, <4>2, <4>3
    <3>10. QED
      BY <2>6, <3>6, <3>7, <3>8, <3>9
  <2>7. QED
    BY <2>5, <2>6
<1>2. QED
  BY Inductive, <1>1, PTL

-----------------------------------------------------------------------------
(* The stream and its parser keep the promise, step by step. *)

LEMMA QuotientIs ==
  ASSUME NEW a \in Int, NEW n \in Nat, n >= 1
  PROVE  /\ Quotient(a, n) = IF a < 0 THEN -((-a) \div n) ELSE a \div n
         /\ Quotient(a, n) \in Int
<1>1. Abs(n) = n /\ n # 0 /\ ~(n < 0)
  BY DEF Abs
<1>2. CASE a < 0
  <2>1. Abs(a) = -a /\ -a \in Nat
    BY <1>2 DEF Abs
  <2>2. Quotient(a, n) = -((-a) \div n)
    BY <1>1, <1>2, <2>1 DEF Quotient
  <2>3. -((-a) \div n) \in Int
    BY <2>1
  <2>4. QED
    BY <1>2, <2>2, <2>3
<1>3. CASE ~(a < 0)
  <2>1. Abs(a) = a /\ a \in Nat
    BY <1>3 DEF Abs
  <2>2. Quotient(a, n) = a \div n
    BY <1>1, <1>3, <2>1 DEF Quotient
  <2>3. a \div n \in Int
    BY <2>1
  <2>4. QED
    BY <1>3, <2>2, <2>3
<1>4. QED
  BY <1>2, <1>3

\* The stream of a press read whole is turned into the gesture of the movement.
LEMMA GestureIsMeant ==
  ASSUME Types, NEW m \in Mark, m.k \in 1..Len(presses), m.w = W(m.k) + 1,
         InStep(presses[m.k], m), EndStream
  PROVE  gesture' \in Promise!GesturesFor(presses[m.k])
<1> DEFINE press == presses[m.k]
           n     == Len(press.samples)
           ty    == Promise!Totals(press.samples, 1)
           tz    == Promise!Totals(press.samples, 2)
           y     == Quotient(p.VAveragey, p.count)
           z     == Quotient(p.VAveragez, p.count)
<1>1. /\ n \in Nat /\ n >= 1 /\ ty[n] \in Int /\ tz[n] \in Int
      /\ W(m.k) \in Nat /\ W(m.k) >= 6 /\ m.w >= 5 /\ m.w >= 1 /\ m.w <= W(m.k) + 1
      /\ \A i \in 1..3 : m.w >= i + 2
  <2>1. n \in Nat /\ n >= 1 /\ (\A i \in 0..n : ty[i] \in Int) /\ (\A i \in 0..n : tz[i] \in Int)
    BY PressTotals
  <2>2. n \in 0..n
    BY <2>1
  <2>3. W(m.k) \in Nat /\ W(m.k) >= 6
    BY PressIs
  <2>4. m.w >= 5 /\ m.w >= 1 /\ m.w <= W(m.k) + 1 /\ \A i \in 1..3 : m.w >= i + 2
    BY <2>3
  <2> HIDE DEF n, ty, tz
  <2>5. QED
    BY <2>1, <2>2, <2>3, <2>4
<1>2. p.counti = n /\ p.cycleCount = 0 /\ p.count = n
  <2>1. ~p.countStart
    BY <1>1 DEF InStep
  <2>2. QED
    BY <1>1, <2>1, RoomFor
<1>3. p.VAveragey = ty[n] /\ p.VAveragez = tz[n]
  <2>1. Running(press)
    BY <1>1 DEF InStep
  <2>2. /\ p.VAveragey + (n - (n + 0)) * p.vOldy = ty[n + 0]
        /\ p.VAveragez + (n - n) * p.vOldz = tz[n]
    BY <1>2, <2>1 DEF Running
  <2>3. n + 0 = n
    BY <1>1
  <2>4. /\ p.VAveragey \in Int /\ p.VAveragez \in Int /\ p.vOldy \in Int /\ p.vOldz \in Int
    BY ParserIs
  <2>5. ASSUME NEW i \in Nat, NEW a \in Int, NEW v \in Int
        PROVE  a + (i - i) * v = a
    OBVIOUS
  <2> HIDE DEF n, ty, tz
  <2>6. /\ p.VAveragey + (n - n) * p.vOldy = p.VAveragey
        /\ p.VAveragez + (n - n) * p.vOldz = p.VAveragez
    BY <1>1, <2>4, <2>5
  <2>7. QED
    BY <2>2, <2>3, <2>6
<1>4. /\ y = Promise!Speed(press.samples, 1) /\ y \in Int
      /\ z = Promise!Speed(press.samples, 2) /\ z \in Int
  <2>1. Promise!Speed(press.samples, 1) = (IF ty[n] < 0 THEN -((-ty[n]) \div n) ELSE ty[n] \div n)
    BY DEF Promise!Speed
  <2>2. Promise!Speed(press.samples, 2) = (IF tz[n] < 0 THEN -((-tz[n]) \div n) ELSE tz[n] \div n)
    BY DEF Promise!Speed
  <2>3. y = Quotient(ty[n], n) /\ z = Quotient(tz[n], n)
    BY <1>2, <1>3
  <2> HIDE DEF y, z, ty, tz, n
  <2>4. QED
    BY <1>1, <2>1, <2>2, <2>3, QuotientIs
<1> HIDE DEF y, z, n, ty, tz
<1>5. /\ press.init = <<press.init[1], press.init[2], press.init[3]>>
      /\ press.init[1] \in Int /\ press.init[2] \in Int /\ press.init[3] \in Int
  <2>1. press.init \in int16 \X int16 \X int16
    <3>1. press.init \in Inits
      BY PressIs
    <3>2. Inits \subseteq int16 \X int16 \X int16
      BY StreamAssumption DEF int16
    <3>3. QED
      BY <3>1, <3>2
  <2>2. /\ press.init = <<press.init[1], press.init[2], press.init[3]>>
        /\ press.init[1] \in int16 /\ press.init[2] \in int16 /\ press.init[3] \in int16
    BY <2>1
  <2>3. QED
    BY <2>2, Int16Is
<1>6. p.init[1] = press.init[1] /\ p.init[2] = press.init[2] /\ p.init[3] = press.init[3]
  <2>1. \A i \in 1..3 : p.init[i] = press.init[i]
    BY <1>1 DEF InStep
  <2>2. 1 \in 1..3 /\ 2 \in 1..3 /\ 3 \in 1..3
    OBVIOUS
  <2>3. QED
    BY <2>1, <2>2
<1>7. movementDirection(p.init, y, z) = movementDirection(press.init, y, z)
  <2>1. orientation(p.init[1], p.init[2], p.init[3])
          = orientation(press.init[1], press.init[2], press.init[3])
    BY <1>6, Zenon
  <2> HIDE DEF press
  <2>2. QED
    BY <2>1 DEF movementDirection
<1>8. gesture' = GestureOf(movementDirection(press.init, y, z), gesture)
  BY <1>7 DEF EndStream, y, z
<1>9. gesture' \in Promise!Meant(press.init, y, z)
  <2> DEFINE a == press.init[1]
             b == press.init[2]
             c == press.init[3]
  <2>1. GestureOf(movementDirection(<<a, b, c>>, y, z), gesture) \in Promise!Meant(<<a, b, c>>, y, z)
    <3>1. a \in Int /\ b \in Int /\ c \in Int /\ y \in Int /\ z \in Int
      BY <1>4, <1>5
    <3> HIDE DEF a, b, c
    <3>2. QED
      BY <3>1, MovementIsMeant
  <2>2. press.init = <<a, b, c>>
    BY <1>5
  <2> HIDE DEF a, b, c, press
  <2>3. QED
    BY <1>8, <2>1, <2>2
<1>10. QED
  BY <1>4, <1>9 DEF Promise!GesturesFor

LEMMA PromiseInit == Init => Promise!Init
BY DEF Init, Promise!Init

LEMMA ReadPromised ==
  ASSUME Few, Types, NEW m \in Mark, Unread(m), At(m), ReadCharacter
  PROVE  Promise!Turn \/ UNCHANGED Promise!vars
<1> DEFINE ch == Head(line)
<1>1. /\ line # <<>> /\ presses' = presses /\ lost' = lost
  BY DEF ReadCharacter, StartStream, EndCount, EndInit, EndSample, EndStream, Buffer, Ignore, Read,
         history
<1>2. Sound /\ m.k = turned + 1
  BY DEF Sound, At
<1>3. CASE ch.c # "E"
  <2>1. gesture' = gesture /\ turned' = turned
    <3>1. ~EndStream
      BY <1>3, EndStreamDoes
    <3>2. QED
      BY <1>3, <3>1, StartStreamDoes, EndCountDoes, EndInitDoes, EndSampleDoes, BufferDoes,
         IgnoreDoes DEF ReadCharacter
  <2>2. QED
    BY <1>1, <2>1 DEF Promise!vars
<1>4. CASE ch.c = "E"
  <2>1. /\ m.k \in 1..Len(presses) /\ ch.of = m.k
        /\ m.w = W(m.k) + 1 /\ m.w >= 1 /\ m.w >= 5
    BY <1>1, <1>4, EIsLast
  <2>2. EndStream \/ Buffer \/ Ignore
    BY <1>4, StartStreamDoes, EndCountDoes, EndInitDoes, EndSampleDoes DEF ReadCharacter
  <2>3. turned' = m.k
    BY <1>4, <2>1, <2>2, EndStreamDoes, BufferDoes, IgnoreDoes
  <2>4. turned < Len(presses) /\ turned' = turned + 1
    <3>1. turned \in Nat /\ Len(presses) \in Nat
      BY TypesAre DEF History
    <3>2. QED
      BY <1>2, <2>1, <2>3, <3>1
  <2>5. gesture' \in IF Promise!Garbled(m.k) THEN Promise!AllGestures
                     ELSE Promise!GesturesFor(presses[m.k])
    <3>1. CASE EndStream
      <4>1. CASE Promise!Garbled(m.k)
        <5>1. gesture' \in {"null", "left", "right", "up", "down"}
          BY <3>1, EndStreamTypes DEF Types, TypeOK
        <5>2. QED
          BY <4>1, <5>1 DEF Promise!AllGestures
      <4>2. CASE ~Promise!Garbled(m.k)
        <5>1. Whole(m.k)
          BY <4>2 DEF Promise!Garbled, Whole
        <5>2. InStep(presses[m.k], m)
          BY <1>2, <2>1, <5>1 DEF At, Exact
        <5>3. QED
          BY <2>1, <3>1, <4>2, <5>2, GestureIsMeant
      <4>3. QED
        BY <4>1, <4>2
    <3>2. CASE Buffer
      <4>1. p.streamStart /\ p.countStart
        BY <1>4, <3>2, BufferDoes
      <4>2. W(m.k) + 1 - m.w >= 4 + left.losses
        BY <4>1 DEF At, Slack
      <4>3. W(m.k) \in Nat /\ left.losses \in Nat
        BY <2>1, PressIs, ParserIs
      <4>4. QED
        BY <2>1, <4>2, <4>3
    <3>3. CASE Ignore
      <4>1. ~p.streamStart /\ gesture' = gesture
        BY <3>3, IgnoreDoes
      <4>2. m.k \in lost
        BY <1>2, <2>1, <4>1 DEF At, Clean
      <4>3. gesture \in {"null", "left", "right", "up", "down"}
        BY DEF Types, TypeOK
      <4>4. QED
        BY <4>1, <4>2, <4>3 DEF Promise!Garbled, Promise!AllGestures
    <3>4. QED
      BY <2>2, <3>1, <3>2, <3>3
  <2>6. Promise!Turn
    BY <1>1, <2>3, <2>4, <2>5 DEF Promise!Turn
  <2>7. QED
    BY <2>6
<1>5. QED
  BY <1>3, <1>4

LEMMA LosePromised ==
  ASSUME Types, NEW m \in Mark, Unread(m), At(m), LoseCharacter
  PROVE  \/ Promise!Miss \/ UNCHANGED Promise!vars
         \/ \E k \in (turned + 1)..Len(presses) : Promise!Lose(k)
<1> DEFINE ch == Head(line)
<1>1. line # <<>> /\ presses' = presses /\ gesture' = gesture
  BY DEF LoseCharacter
<1>2. PICK n \in Mark : Leads(presses, m, ch, n)
  BY <1>1, HeadLeads
<1>3. m.k = turned + 1 /\ turned \in Nat /\ Len(presses) \in Nat
  BY TypesAre DEF History, At
<1>4. CASE AtNoise(m, ch, n)
  <2>1. turned' = turned /\ lost' = lost
    BY <1>4, LoseCharacterDoes DEF AtNoise
  <2>2. QED
    BY <1>1, <2>1 DEF Promise!vars
<1>5. CASE AtE(m, ch, n)
  <2>1. m.k \in 1..Len(presses) /\ ch.of = m.k /\ ch.of # 0 /\ turned' = m.k
    BY <1>3, <1>5, LoseCharacterDoes DEF AtE, Inside
  <2>2. lost' = lost \cup {turned'} /\ turned < Len(presses) /\ turned' = turned + 1
    BY <1>3, <2>1, LoseCharacterDoes
  <2>3. QED
    BY <1>1, <2>2 DEF Promise!Miss
<1>6. CASE AtC(m, ch, n) \/ AtNumeral(m, ch, n) \/ AtCR(m, ch, n) \/ AtLF(m, ch, n)
  <2>1. /\ m.k \in 1..Len(presses) /\ ch.of = m.k /\ ch.of # 0 /\ ch.c # "E"
    BY <1>3, <1>6 DEF AtC, AtNumeral, AtCR, AtLF, Inside
  <2>2. turned' = turned /\ lost' = lost \cup {m.k} /\ m.k \in (turned + 1)..Len(presses)
    BY <1>3, <2>1, LoseCharacterDoes
  <2>3. QED
    BY <1>1, <2>2 DEF Promise!Lose
<1>7. QED
  BY <1>2, <1>4, <1>5, <1>6, LeadsTo

LEMMA StepPromised ==
  ASSUME Few, IInv, [Next]_vars
  PROVE  [Promise!Next]_Promise!vars
<1>1. Types
  BY DEF IInv
<1>2. PICK m \in Mark : Unread(m) /\ At(m)
  BY DEF IInv
<1>3. CASE PressDown \/ Sample \/ Touch \/ UNCHANGED vars
  <2>1. UNCHANGED <<gesture, history>>
    BY <1>3 DEF PressDown, Sample, Touch, vars
  <2>2. QED
    BY <2>1 DEF history, Promise!vars
<1>4. CASE Release
  <2>1. PICK press \in Press :
          Len(press.samples) \in 1..MaxSamples /\ presses' = Append(presses, press)
    BY <1>1, <1>4, ReleaseTypes
  <2>2. press \in [init: Inits, samples: UNION {[1..n -> Samples] : n \in 1..MaxSamples}]
    <3>1. press.samples \in [1..Len(press.samples) -> Samples]
      BY DEF Press
    <3>2. press.samples \in UNION {[1..n -> Samples] : n \in 1..MaxSamples}
      BY <2>1, <3>1
    <3>3. press = [init |-> press.init, samples |-> press.samples] /\ press.init \in Inits
      BY DEF Press
    <3>4. QED
      BY <3>2, <3>3
  <2>3. Promise!Press(press)
    BY <1>4, <2>1 DEF Release, Promise!Press
  <2>4. QED
    BY <2>2, <2>3 DEF Promise!Next
<1>5. CASE LoseCharacter
  BY <1>1, <1>2, <1>5, LosePromised DEF Promise!Next
<1>6. CASE ReadCharacter
  BY <1>1, <1>2, <1>6, ReadPromised DEF Promise!Next
<1>7. QED
  BY <1>3, <1>4, <1>5, <1>6 DEF Next

\* What the wearer is promised, its safety: as long as no more than two characters are lost,
\* each press is turned once and in order into the gesture of the movement made while it was
\* held, except a press that has lost a character and the one behind it.  It takes three losses
\* in one press to leave the parser waiting for numbers when the next stream begins.
THEOREM StreamKeepsPromise ==
  ASSUME MaxLost <= 2
  PROVE  Spec => Promise!Spec
<1>1. Few
  BY DEF Few
<1>2. IInv /\ [Next]_vars => [Promise!Next]_Promise!vars
  BY <1>1, StepPromised
<1>3. QED
  BY Inductive, PromiseInit, <1>2, PTL DEF Spec, Promise!Spec

=============================================================================
