------------------------------ MODULE Gestures ------------------------------
(***************************************************************************)
(* What the wearer of the glove may rely on: every press of the button is  *)
(* turned, in order, into the gesture of the movement made while it was    *)
(* held, whichever way the palm faced.  A press one of whose characters is *)
(* lost may be turned into any gesture or none, and so may the press       *)
(* behind it, but no later one.                                            *)
(*                                                                         *)
(* A press is the acceleration when the button goes down, as <<x, y, z>>,  *)
(* and the accelerations <<y, z>> sampled until it goes up.                *)
(***************************************************************************)
EXTENDS Integers, Sequences

CONSTANTS Presses,         \* the presses a wearer may make
          Threshold        \* the speed below which there was no movement

VARIABLES
  presses,     \* the presses made
  turned,      \* how many of them have been turned into a gesture
  lost,        \* those that have lost a character, by number
  gesture

vars == <<presses, turned, lost, gesture>>

AllGestures == {"left", "right", "up", "down", "null"}

Magnitude(n) == IF n < 0 THEN -n ELSE n

\* Sample i counts for itself and for all the samples behind it.
Totals(samples, axis) ==
  LET n == Len(samples)
      total[i \in 0..n] == IF i = 0 THEN 0 ELSE total[i - 1] + (n - i + 1) * samples[i][axis]
  IN  total

\* The speed along an axis averaged over the samples. C divides towards zero.
Speed(samples, axis) ==
  LET n     == Len(samples)
      total == Totals(samples, axis)[n]
  IN  IF total < 0 THEN -((-total) \div n) ELSE total \div n

\* Which way the palm may be said to face: the axis gravity is strongest on, any of
\* them if there are several. A glove whose fingers point up or down counts as palm down.
Palms(init) ==
  LET x == Magnitude(init[1])
      y == Magnitude(init[2])
      z == Magnitude(init[3])
  IN  (IF x >= y /\ x >= z THEN {"down"} ELSE {}) \cup
      (IF y >= x /\ y >= z THEN {IF init[2] >= 0 THEN "left" ELSE "right"} ELSE {}) \cup
      (IF z >= x /\ z >= y THEN {IF init[3] >= 0 THEN "down" ELSE "up"} ELSE {})

\* A speed <<y, z>> of the glove as the wearer sees it, <<to the left, upwards>>.
Turned(palm, y, z) ==
  CASE palm = "down"  -> <<y, z>>
    [] palm = "left"  -> <<-z, y>>
    [] palm = "right" -> <<z, -y>>
    [] OTHER          -> <<-y, -z>>

\* The directions in which a speed may be said to go: two of them if it goes between.
Directed(v) ==
  (IF v[1]  >= Magnitude(v[2]) THEN {"left"} ELSE {}) \cup
  (IF -v[1] >= Magnitude(v[2]) THEN {"right"} ELSE {}) \cup
  (IF v[2]  >= Magnitude(v[1]) THEN {"up"} ELSE {}) \cup
  (IF -v[2] >= Magnitude(v[1]) THEN {"down"} ELSE {})

Meant(init, y, z) ==
  IF Magnitude(y) < Threshold /\ Magnitude(z) < Threshold THEN {"null"}
  ELSE UNION {Directed(Turned(p, y, z)) : p \in Palms(init)}

GesturesFor(p) == Meant(p.init, Speed(p.samples, 1), Speed(p.samples, 2))

-----------------------------------------------------------------------------

Init == presses = <<>> /\ turned = 0 /\ lost = {} /\ gesture = "null"

Press(p) ==
  /\ presses' = Append(presses, p)
  /\ UNCHANGED <<turned, lost, gesture>>

Lose(k) ==
  /\ lost' = lost \cup {k}
  /\ UNCHANGED <<presses, turned, gesture>>

Garbled(k) == k \in lost \/ k - 1 \in lost

Turn ==
  /\ turned < Len(presses)
  /\ turned' = turned + 1
  /\ gesture' \in IF Garbled(turned') THEN AllGestures ELSE GesturesFor(presses[turned'])
  /\ UNCHANGED <<presses, lost>>

\* A press whose end is lost is turned into nothing.
Miss ==
  /\ turned < Len(presses)
  /\ turned' = turned + 1
  /\ lost' = lost \cup {turned'}
  /\ UNCHANGED <<presses, gesture>>

Next ==
  \/ Turn \/ Miss
  \/ \E p \in Presses : Press(p)
  \/ \E k \in (turned + 1)..Len(presses) : Lose(k)

Spec     == Init /\ [][Next]_vars
FairSpec == Spec /\ WF_vars(Turn)
=============================================================================
