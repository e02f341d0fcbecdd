------------------------------ MODULE MCConsole ------------------------------
(* A ring of three characters before a FIFO of two, and a clock of three bits. *)
EXTENDS Console

Long == {3}
=============================================================================
