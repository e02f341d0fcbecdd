----------------------------- MODULE Classifier -----------------------------
(***************************************************************************)
(* How the main loop turns a stream of the glove into a gesture: the       *)
(* functions orientation, largest, largestPalm... and noMovement and the   *)
(* two switches that use them, on the integers the parser has read.        *)
(* Movements keep the numbers of the code: 0 forward, 1 backward, 2 left,  *)
(* 3 right, 4 up, 5 down, 6 none.  A definition marked "Mistaken" is a     *)
(* plausible error in the one that follows it.                             *)
(***************************************************************************)
EXTENDS Integers

Threshold == 1500

Abs(n) == IF n < 0 THEN -n ELSE n

\* Truncation towards zero, and what __divsi3 of this build leaves for a divisor of zero.
Quotient(a, b) ==
  LET q == Abs(a) \div Abs(b)
  IN  IF b = 0 THEN IF a = 0 THEN 1 ELSE 0
      ELSE IF (a < 0) = (b < 0) THEN q ELSE -q

\* 0 palm down, 1 palm left, 2 palm right, 3 palm up.
orientation(x, y, z) ==
  IF Abs(z) >= Abs(y) /\ Abs(z) >= Abs(x) THEN IF z >= 0 THEN 0 ELSE 3
  ELSE IF Abs(y) >= Abs(x) THEN IF y >= 0 THEN 1 ELSE 2
  ELSE 0

noMovement(x, y, z) == Abs(x) < Threshold /\ Abs(y) < Threshold /\ Abs(z) < Threshold

\* The four largest... functions differ in the movement that each direction stands for.
Strongest(x, y, z, yUp, yDown, zUp, zDown) ==
  IF Abs(x) >= Abs(y) /\ Abs(x) >= Abs(z) THEN IF x >= 0 THEN 0 ELSE 1
  ELSE IF Abs(y) >= Abs(z) THEN IF y >= 0 THEN yUp ELSE yDown
  ELSE IF z >= 0 THEN zUp ELSE zDown

largest(x, y, z)          == Strongest(x, y, z, 2, 3, 4, 5)
largestPalmLeft(x, y, z)  == Strongest(x, y, z, 4, 5, 3, 2)
\* Mistaken: the table of the left palm.
largestPalmRightAsLeft(x, y, z) == Strongest(x, y, z, 4, 5, 3, 2)
largestPalmRight(x, y, z) == Strongest(x, y, z, 5, 4, 2, 3)
largestPalmUp(x, y, z)    == Strongest(x, y, z, 3, 2, 5, 4)

movementDirection(init, y, z) ==
  LET gloveOrientation == orientation(init[1], init[2], init[3])
  IN  IF noMovement(0, y, z) THEN 6
      ELSE CASE gloveOrientation = 0 -> largest(0, y, z)
             [] gloveOrientation = 1 -> largestPalmLeft(0, y, z)
             [] gloveOrientation = 2 -> largestPalmRight(0, y, z)
             [] OTHER -> largestPalmUp(0, y, z)

\* The gesture a movement sets; forward and backward set none.
GestureOf(movement, gesture) ==
  CASE movement = 2 -> "left"
    [] movement = 3 -> "right"
    [] movement = 4 -> "up"
    [] movement = 5 -> "down"
    [] movement = 6 -> "null"
    [] OTHER -> gesture
=============================================================================
