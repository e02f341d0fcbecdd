-------------------------- MODULE MCGestureStream --------------------------
(* The palm held each way, and movements in each direction, slow and fast. *)
EXTENDS GestureStream

\* The palm down, left, right and up, and the fingers up.
AllInits   == {<<0, 200, 1000>>, <<300, 900, -200>>, <<0, -1000, 0>>, <<0, 0, -1000>>, <<980, 0, 100>>}
\* The axes, a tie, and speeds around the threshold: two slow samples add up to a fast one.
AllSamples == {<<2000, -100>>, <<-2000, 0>>, <<0, 2000>>, <<300, -1600>>, <<1000, -1000>>,
               <<-1499, 1499>>}

FewInits   == {<<0, -1000, 0>>}
FewSamples == {<<2000, -1600>>, <<-700, 1500>>}
=============================================================================
