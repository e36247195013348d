------------------------------ MODULE MCMutex ------------------------------
(***************************************************************************)
(* Instances of Mutex for TLC: first and third of main/main.cpp send debug *)
(* frames, tlay2 replies to what it reads.                                 *)
(***************************************************************************)
EXTENDS Mutex

CONSTANTS first, third, tlay2
=============================================================================
