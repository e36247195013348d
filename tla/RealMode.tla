------------------------------ MODULE RealMode ------------------------------
(***************************************************************************)
(* What the code called by callx86int and callx86ptr is promised: a real   *)
(* mode CPU with the stack as a sequence of words and the interrupt enable *)
(* flag out of reach.  A push is an Append, an interrupt saves the flags   *)
(* and the place to return to, IRET takes them back.                       *)
(***************************************************************************)
EXTENDS Integers, Sequences, SequencesExt

CONSTANTS
    WordSize,       \* one more than the largest word
    UserBits,       \* the flags of a word below this bit are the program's own
    Args,           \* words that a call may leave on the stack
    Vector(_)       \* the interrupt vectors

VARIABLES
    running,        \* the CPU executes the called code
    at,             \* <<segment, offset>> of the next instruction
    flags,          \* the flags register, a word
    stacks, cur,    \* the words on each of two stacks, and the one in use
    acc,            \* the accumulator
    bus             \* the last transfer on the I/O bus

Words == 0 .. WordSize - 1

vars == <<running, at, flags, stacks, cur, acc, bus>>

\* An instruction of n bytes is behind us.
Step(n) == at' = <<at[1], at[2] + n>>

Pinned(w) == (w % UserBits) + (flags - (flags % UserBits))

Init ==
    /\ running = FALSE /\ at = <<0, 0>> /\ flags = 0
    /\ stacks = <<<<>>, <<>>>> /\ cur = 1 /\ acc = 0
    /\ bus = <<"none">>

Call ==
    /\ ~running /\ running' = TRUE
    /\ at' \in Words \X Words
    /\ flags' \in Words /\ flags' % UserBits = 0
    /\ \E s \in {<<>>} \cup [1 .. Args -> Words] : stacks' = <<s, <<>>>>
    /\ cur' = 1 /\ acc' \in Words
    /\ bus' = <<"none">>

Push(ws) == stacks' = [stacks EXCEPT ![cur] = @ \o ws]

\* The last n words, the one on top first.
Top(n) == Reverse(SubSeq(stacks[cur], Len(stacks[cur]) - n + 1, Len(stacks[cur])))

Pop(n) ==
    /\ Len(stacks[cur]) >= n
    /\ stacks' = [stacks EXCEPT ![cur] = SubSeq(@, 1, Len(@) - n)]

\* Instructions a real mode program and one in virtual-8086 mode execute alike.
Plain ==
    \/ /\ at' \in Words \X Words /\ acc' \in Words
       /\ flags' \in {Pinned(w) : w \in Words} /\ UNCHANGED <<stacks, cur>>
    \/ /\ \E w \in Words : Push(<<w>>)
       /\ UNCHANGED <<at, flags, cur, acc>>
    \/ /\ Pop(1) /\ UNCHANGED <<at, flags, cur, acc>>
    \/ /\ cur' = 3 - cur /\ UNCHANGED <<at, flags, stacks, acc>>
    \/ /\ Push(<<at[1], (at[2] + 5) % WordSize>>) /\ at' \in Words \X Words
       /\ UNCHANGED <<flags, cur, acc>>
    \/ /\ Pop(2) /\ at' = <<Top(2)[2], Top(2)[1]>>
       /\ UNCHANGED <<flags, cur, acc>>

PushFlags(n) ==
    /\ Step(n) /\ Push(<<flags>>) /\ UNCHANGED <<flags, cur, acc>>

PopFlags(n) ==
    /\ Step(n) /\ Pop(1) /\ flags' = Pinned(Top(1)[1]) /\ UNCHANGED <<cur, acc>>

\* With an operand size prefix the upper half of the flags goes too, as 0.
PushFlagsD(n) ==
    /\ Step(n) /\ Push(<<0, flags>>) /\ UNCHANGED <<flags, cur, acc>>

PopFlagsD(n) ==
    /\ Step(n) /\ Pop(2) /\ flags' = Pinned(Top(1)[1]) /\ UNCHANGED <<cur, acc>>

Interrupt(v, n) ==
    /\ Push(<<flags, at[1], (at[2] + n) % WordSize>>)
    /\ at' = Vector(v)
    /\ UNCHANGED <<flags, cur, acc>>

InterruptReturn ==
    /\ Pop(3)
    /\ at' = <<Top(2)[2], Top(1)[1]>>
    /\ flags' = Pinned(Top(3)[3])
    /\ UNCHANGED <<cur, acc>>

\* Transfers of size bits: the rest of the accumulator is left alone.
In(size, val, n) ==
    /\ Step(n) /\ acc' = acc - (acc % 2^size) + val
    /\ bus' = <<"in", size>>
    /\ UNCHANGED <<flags, stacks, cur>>

Out(size, n) ==
    /\ Step(n) /\ bus' = <<"out", size, acc % 2^size>>
    /\ UNCHANGED <<flags, stacks, cur, acc>>

Instruction ==
    \/ Plain
    \/ \E n \in 1 .. 3 :
          \/ Step(n) /\ UNCHANGED <<flags, stacks, cur, acc>>
          \/ PushFlags(n) \/ PopFlags(n) \/ PushFlagsD(n) \/ PopFlagsD(n)
          \/ \E v \in Words : Interrupt(v, n)
    \/ InterruptReturn

Transfer ==
    \E size \in {2, 4, 6}, n \in 1 .. 4 :
        Out(size, n) \/ \E val \in 0 .. 2^size - 1 : In(size, val, n)

\* The program halts, which ends the call.
Halt ==
    /\ running' = FALSE
    /\ bus' = <<"none">>
    /\ UNCHANGED <<at, flags, stacks, cur, acc>>

Next ==
    \/ Call
    \/ /\ running /\ running' = TRUE
       /\ Transfer \/ (Instruction /\ bus' = <<"none">>)
    \/ running /\ Halt

Spec == Init /\ [][Next]_vars
=============================================================================
