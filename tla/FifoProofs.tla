----------------------------- MODULE FifoProofs -----------------------------
(***************************************************************************)
(* The ring buffer of uart/fifo.h implements a bounded queue, whatever its *)
(* size and the values it carries.                                         *)
(***************************************************************************)
EXTENDS Fifo, SequenceTheorems, TLAPS

USE SizeAssumption

\* Typing is an invariant of the buffer.
THEOREM TypeCorrect == Spec => []TypeOK
<1>1. Init => TypeOK
  BY DEF Init, TypeOK, Slots
<1>2. TypeOK /\ [Next]_vars => TypeOK'
  <2> SUFFICES ASSUME TypeOK, [Next]_vars PROVE TypeOK'
    OBVIOUS
  <2>1. \A p \in Slots : Advance(p) \in Slots
    BY DEF Advance, Slots
  <2>2. CASE \E b \in Byte : fifo_put(b)
    BY <2>1, <2>2 DEF TypeOK, fifo_put
  <2>3. CASE fifo_get \/ fifo_check \/ fifo_clear \/ UNCHANGED vars
    BY <2>1, <2>3 DEF TypeOK, fifo_get, fifo_check, fifo_clear, vars, Slots
  <2>4. QED
    BY <2>2, <2>3 DEF Next
<1>3. QED
  BY <1>1, <1>2, PTL DEF Spec

\* The count and the contents have the ranges a queue needs.
LEMMA ContentsType ==
    ASSUME TypeOK
    PROVE  /\ Count \in 0 .. Size - 1
           /\ \A i \in 1 .. Size - 1 : Slot(i) \in Slots
           /\ Contents \in Seq(Byte) /\ Len(Contents) = Count
<1>1. Count \in 0 .. Size - 1
  BY DEF TypeOK, Count, Slots
<1>2. \A i \in 1 .. Size - 1 : Slot(i) \in Slots
  BY DEF TypeOK, Slot, Slots
<1>3. \A i \in 1 .. Count : data[Slot(i)] \in Byte
  BY <1>1, <1>2 DEF TypeOK
<1>4. Contents \in [1 .. Count -> Byte]
  BY <1>3 DEF Contents
<1>5. QED
  BY <1>1, <1>2, <1>4

\* A sequence is the function of its elements.
LEMMA SeqAsFunction ==
    ASSUME NEW S, NEW s \in Seq(S)
    PROVE  s = [i \in 1 .. Len(s) |-> s[i]]
OBVIOUS

\* A put with room appends the byte to the contents.
LEMMA PutAppends ==
    ASSUME TypeOK, NEW b \in Byte, fifo_put(b), Advance(wrptr) # rdptr
    PROVE  Count < Size - 1 /\ Contents' = Append(Contents, b)
<1>1. /\ data' = [data EXCEPT ![Advance(wrptr)] = b]
      /\ wrptr' = Advance(wrptr) /\ rdptr' = rdptr
  BY DEF fifo_put
<1>2. /\ Count \in 0 .. Size - 2 /\ Count' = Count + 1
      /\ Slot(Count + 1) = Advance(wrptr)
  BY <1>1 DEF TypeOK, Count, Slot, Advance, Slots
<1>3. \A i \in 1 .. Count + 1 : Slot(i)' = Slot(i)
  BY <1>1 DEF Slot
<1>4. \A i \in 1 .. Count : Slot(i) # Advance(wrptr) /\ Slot(i) \in Slots
  BY DEF TypeOK, Count, Slot, Advance, Slots
<1>5. \A i \in 1 .. Count : data'[Slot(i)] = data[Slot(i)]
  BY <1>1, <1>4 DEF TypeOK
<1>6. data'[Advance(wrptr)] = b
  BY <1>1 DEF TypeOK, Advance, Slots
<1>7. Contents' = [i \in 1 .. Count + 1 |-> IF i <= Count THEN data[Slot(i)] ELSE b]
  <2>1. Contents' = [i \in 1 .. Count + 1 |-> data'[Slot(i)']]
    BY <1>2 DEF Contents
  <2>2. \A i \in 1 .. Count + 1 :
          data'[Slot(i)'] = IF i <= Count THEN data[Slot(i)] ELSE b
    BY <1>2, <1>3, <1>5, <1>6
  <2>3. QED
    BY <2>1, <2>2
<1>8. /\ Append(Contents, b) \in Seq(Byte)
      /\ Len(Append(Contents, b)) = Count + 1
      /\ \A i \in 1 .. Count : Append(Contents, b)[i] = data[Slot(i)]
      /\ Append(Contents, b)[Count + 1] = b
  BY ContentsType, AppendProperties DEF Contents
<1> DEFINE a == Append(Contents, b)
<1> HIDE DEF a
<1>9. a = [i \in 1 .. Count + 1 |-> a[i]]
  <2>1. a \in Seq(Byte) /\ Len(a) = Count + 1
    BY <1>8 DEF a
  <2>2. QED
    BY <2>1, SeqAsFunction
<1>10. \A i \in 1 .. Count + 1 :
         a[i] = IF i <= Count THEN data[Slot(i)] ELSE b
  BY <1>2, <1>8 DEF a
<1>11. Contents' = a
  BY <1>7, <1>9, <1>10
<1>12. QED
  BY <1>2, <1>11 DEF a

\* A put is refused only when Size - 1 bytes are in.
LEMMA PutRefused ==
    ASSUME TypeOK, Advance(wrptr) = rdptr
    PROVE  Count = Size - 1
BY DEF TypeOK, Count, Advance, Slots

\* A get takes the first byte of the contents.
LEMMA GetTakesHead ==
    ASSUME TypeOK, fifo_get, wrptr # rdptr
    PROVE  /\ Contents # <<>>
           /\ Contents' = Tail(Contents)
           /\ data[Advance(rdptr)] = Head(Contents)
<1>1. data' = data /\ wrptr' = wrptr /\ rdptr' = Advance(rdptr)
  BY DEF fifo_get
<1>2. /\ Count \in 1 .. Size - 1 /\ Count' = Count - 1
      /\ Slot(1) = Advance(rdptr)
  BY <1>1 DEF TypeOK, Count, Slot, Advance, Slots
<1>3. \A i \in 1 .. Count - 1 : Slot(i)' = Slot(i + 1)
  BY <1>1, <1>2 DEF TypeOK, Slot, Advance, Slots
<1>4. Contents \in Seq(Byte) /\ Len(Contents) = Count
  BY ContentsType
<1>5. Contents # <<>> /\ Head(Contents) = Contents[1]
  BY <1>2, <1>4, EmptySeq
<1>6. Contents[1] = data[Advance(rdptr)]
  BY <1>2 DEF Contents
<1>7. Contents' = [i \in 1 .. Count - 1 |-> data[Slot(i + 1)]]
  <2>1. Contents' = [i \in 1 .. Count - 1 |-> data[Slot(i)']]
    BY <1>1, <1>2 DEF Contents
  <2>2. QED
    BY <1>3, <2>1
<1>8. /\ Tail(Contents) \in Seq(Byte) /\ Len(Tail(Contents)) = Count - 1
      /\ \A i \in 1 .. Count - 1 : Tail(Contents)[i] = Contents[i + 1]
  BY <1>2, <1>4, <1>5, HeadTailProperties
<1>9. \A i \in 1 .. Count - 1 : Contents[i + 1] = data[Slot(i + 1)]
  BY <1>2 DEF Contents
<1> DEFINE r == Tail(Contents)
<1> HIDE DEF r
<1>10. r = [i \in 1 .. Count - 1 |-> r[i]]
  <2>1. r \in Seq(Byte) /\ Len(r) = Count - 1
    BY <1>8 DEF r
  <2>2. QED
    BY <2>1, SeqAsFunction
<1>11. \A i \in 1 .. Count - 1 : r[i] = data[Slot(i + 1)]
  BY <1>8, <1>9 DEF r
<1>12. Contents' = r
  BY <1>7, <1>10, <1>11
<1>13. QED
  BY <1>5, <1>6, <1>12 DEF r

\* fifo.h:27-56: each call on the buffer is the call on the queue that the
\* mapping Contents shows.
THEOREM Refinement == Spec => IsByteQueue
<1>1. Init => Queue!Init
  <2> SUFFICES ASSUME Init PROVE Queue!Init
    OBVIOUS
  <2>1. TypeOK /\ Count = 0
    BY DEF Init, TypeOK, Count, Slots
  <2>2. Contents = <<>>
    BY <2>1, ContentsType, EmptySeq
  <2>3. QED
    BY <2>2 DEF Init, Queue!Init
<1>2. TypeOK /\ [Next]_vars => [Queue!Next]_<<Contents, answer>>
  <2> SUFFICES ASSUME TypeOK, [Next]_vars
               PROVE  Queue!Next \/ UNCHANGED <<Contents, answer>>
    OBVIOUS
  <2> USE ContentsType
  <2>1. ASSUME NEW b \in Byte, fifo_put(b) PROVE Queue!Put(b)
    <3>1. CASE Advance(wrptr) = rdptr
      <4>1. Contents' = Contents
        BY <2>1, <3>1 DEF fifo_put, Contents, Count, Slot
      <4>2. QED
        BY <2>1, <3>1, <4>1, PutRefused DEF fifo_put, Queue!Put
    <3>2. CASE Advance(wrptr) # rdptr
      BY <2>1, <3>2, PutAppends DEF fifo_put, Queue!Put
    <3>3. QED
      BY <3>1, <3>2
  <2>2. ASSUME fifo_get PROVE Queue!Get
    <3>1. CASE wrptr = rdptr
      <4>1. Count = 0 /\ Contents' = Contents
        BY <2>2, <3>1 DEF fifo_get, Contents, Count, Slot, TypeOK, Slots
      <4>2. Contents = <<>>
        BY <4>1, EmptySeq
      <4>3. QED
        BY <2>2, <3>1, <4>1, <4>2 DEF fifo_get, Queue!Get
    <3>2. CASE wrptr # rdptr
      BY <2>2, <3>2, GetTakesHead DEF fifo_get, Queue!Get
    <3>3. QED
      BY <3>1, <3>2
  <2>3. ASSUME fifo_check PROVE Queue!Check
    <3>1. Contents' = Contents
      BY <2>3 DEF fifo_check, Contents, Count, Slot
    <3>2. QED
      BY <2>3, <3>1 DEF fifo_check, Queue!Check
  <2>4. ASSUME fifo_clear PROVE Queue!Clear
    <3>1. TypeOK' /\ Count' = 0
      BY <2>4 DEF fifo_clear, TypeOK, Count, Slots
    <3>2. Contents' = [i \in 1 .. 0 |-> data'[Slot(i)']]
      BY <3>1 DEF Contents
    <3>3. Contents' = <<>>
      BY <3>2
    <3>4. QED
      BY <2>4, <3>3 DEF fifo_clear, Queue!Clear
  <2>5. CASE UNCHANGED vars
    BY <2>5 DEF vars, Contents, Count, Slot
  <2>6. QED
    BY <2>1, <2>2, <2>3, <2>4, <2>5 DEF Next, Queue!Next
<1>3. QED
  BY <1>1, <1>2, TypeCorrect, PTL DEF Spec, IsByteQueue, Queue!Spec
=============================================================================
