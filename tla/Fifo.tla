-------------------------------- MODULE Fifo --------------------------------
(***************************************************************************)
(* The ring buffer fifo_t of uart/fifo.h.  The pointers wrptr and rdptr   *)
(* are kept as offsets into data.  Both point at the slot used last, so a  *)
(* call first steps its pointer and then uses the slot; one slot is never  *)
(* filled, which tells a full buffer from an empty one.                    *)
(*                                                                         *)
(* Every caller in uart.cpp is inside an atomic section or an interrupt    *)
(* handler, so a call is one step.                                         *)
(***************************************************************************)
EXTENDS Integers, Sequences

CONSTANTS
    Byte,
    Size        \* the macro argument size: FIFO_SIZE in uart.cpp

ASSUME SizeAssumption == Size \in Nat /\ Size > 1

VARIABLES data, wrptr, rdptr, answer

vars == <<data, wrptr, rdptr, answer>>

Slots == 0 .. Size - 1

TypeOK ==
    /\ data \in [Slots -> Byte]
    /\ wrptr \in Slots /\ rdptr \in Slots

\* A pointer moved one slot on, back to data at data_end.
Advance(p) == IF p + 1 = Size THEN 0 ELSE p + 1

\* DEFINE_STATIC_FIFO; the contents of the array do not matter.
Init ==
    /\ data \in [Slots -> Byte]
    /\ wrptr = 0 /\ rdptr = 0
    /\ answer = <<"clear">>

\* The number of bytes that fifo_check computes from the two pointers.
Count == IF wrptr < rdptr THEN wrptr - rdptr + Size ELSE wrptr - rdptr

fifo_put(b) ==
    IF Advance(wrptr) = rdptr
    THEN /\ answer' = <<"put", 0>>
         /\ UNCHANGED <<data, wrptr, rdptr>>
    ELSE /\ data' = [data EXCEPT ![Advance(wrptr)] = b]
         /\ wrptr' = Advance(wrptr)
         /\ answer' = <<"put", 1>>
         /\ UNCHANGED rdptr

\* Mutant: the slot is read before the pointer is stepped.
fifo_get_before_step ==
    IF wrptr = rdptr
    THEN /\ answer' = <<"get", 0>>
         /\ UNCHANGED <<data, wrptr, rdptr>>
    ELSE /\ answer' = <<"get", 1, data[rdptr]>>
         /\ rdptr' = Advance(rdptr)
         /\ UNCHANGED <<data, wrptr>>

fifo_get ==
    IF wrptr = rdptr
    THEN /\ answer' = <<"get", 0>>
         /\ UNCHANGED <<data, wrptr, rdptr>>
    ELSE /\ answer' = <<"get", 1, data[Advance(rdptr)]>>
         /\ rdptr' = Advance(rdptr)
         /\ UNCHANGED <<data, wrptr>>

fifo_check ==
    /\ answer' = <<"check", Count>>
    /\ UNCHANGED <<data, wrptr, rdptr>>

fifo_clear ==
    /\ wrptr' = 0 /\ rdptr' = 0
    /\ answer' = <<"clear">>
    /\ UNCHANGED data

Next == (\E b \in Byte : fifo_put(b)) \/ fifo_get \/ fifo_check \/ fifo_clear

Spec == Init /\ [][Next]_vars

-----------------------------------------------------------------------------
(* Refinement. *)

\* The slot i steps after rdptr.
Slot(i) == IF rdptr + i < Size THEN rdptr + i ELSE rdptr + i - Size

\* The bytes in the buffer, oldest first.
Contents == [i \in 1 .. Count |-> data[Slot(i)]]

Queue == INSTANCE ByteQueue WITH queue <- Contents, Capacity <- Size - 1

\* fifo.h:27-56 behaves as a queue of Size - 1 bytes: no byte is lost,
\* repeated or taken out of turn as the pointers go round, a put is refused
\* exactly when that many are in, and fifo_check counts them.
IsByteQueue == Queue!Spec
=============================================================================
