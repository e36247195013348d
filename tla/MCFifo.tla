------------------------------- MODULE MCFifo -------------------------------
(* An instance of Fifo for TLC: the pointers go round several times. *)
EXTENDS Fifo
=============================================================================
