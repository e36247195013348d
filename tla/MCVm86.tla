------------------------------- MODULE MCVm86 -------------------------------
(* An instance of Vm86 for TLC: 4 bytes in a paragraph, the BIOS at segment  *)
(* 12, code and a stack of its own at segment 9, whose offsets overlap it,   *)
(* and another stack at segment 8, which they do not.                        *)
EXTENDS Vm86

MCivt == [v \in {0} |-> <<5, 12>>]

MCOwnStack == {[ss |-> 9, esp |-> 1], [ss |-> 8, esp |-> 1]}

MCMemory == 26 .. 51

MCJumps == {<<9, 3>>}
=============================================================================
