------------------------------ MODULE MCSched ------------------------------
(***************************************************************************)
(* Instances of Sched for TLC.  The threads are those of main/main.cpp:    *)
(* second and third sleep, the tlay2 process reads the serial port, and    *)
(* one thread computes and then exits.                                     *)
(***************************************************************************)
EXTENDS Sched, TLC

CONSTANTS second, third, tlay2, worker

TwoSleepers   == {second, third}
ThreeSleepers == {second, third, worker}
AllTasks      == {second, third, tlay2, worker}
Worker        == {worker}

\* Sound where all three have the same role: every CHOOSE of Sched has one
\* value to choose.
Symmetry == Permutations(ThreeSleepers)
=============================================================================
