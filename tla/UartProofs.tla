----------------------------- MODULE UartProofs -----------------------------
(***************************************************************************)
(* The serial driver for fifos of any size and any traffic.  Every         *)
(* invariant that TLC checks of module Uart is proved: the two streams,    *)
(* the mask of the receiver, the edges of the interrupt line, the          *)
(* transmit fifo and the waiting reader.                                   *)
(*                                                                         *)
(* None but TxNeverQueues is inductive as it stands; what each needs to    *)
(* know of the handler's program counter is in the Inv of its section.     *)
(***************************************************************************)
EXTENDS Uart, SequenceTheorems, TLAPS

-----------------------------------------------------------------------------
(* Queues *)

LEMMA TakeHead ==
    ASSUME NEW S, NEW q \in Seq(S), q # <<>>
    PROVE  Head(q) \in S /\ Tail(q) \in Seq(S) /\ Len(Tail(q)) = Len(q) - 1 /\ Len(q) > 0
OBVIOUS

LEMMA PutLast ==
    ASSUME NEW S, NEW q \in Seq(S), NEW x \in S
    PROVE  Append(q, x) \in Seq(S) /\ Len(Append(q, x)) = Len(q) + 1
OBVIOUS

\* The first of one queue becomes the last of the one in front of it.
LEMMA HandOver ==
    ASSUME NEW S, NEW p \in Seq(S), NEW q \in Seq(S), q # <<>>
    PROVE  Append(p, Head(q)) \o Tail(q) = p \o q
<1>1. /\ Len(p) \in Nat /\ Len(q) \in Nat \ {0}
      /\ Head(q) \in S /\ Tail(q) \in Seq(S) /\ Len(Tail(q)) = Len(q) - 1
      /\ \A i \in 1 .. Len(q) - 1 : Tail(q)[i] = q[i + 1]
      /\ Head(q) = q[1]
  OBVIOUS
<1>2. /\ Append(p, Head(q)) \in Seq(S) /\ Len(Append(p, Head(q))) = Len(p) + 1
      /\ \A i \in 1 .. Len(p) : Append(p, Head(q))[i] = p[i]
      /\ Append(p, Head(q))[Len(p) + 1] = q[1]
  BY <1>1
<1> DEFINE a == Append(p, Head(q)) \o Tail(q)
           b == p \o q
<1>3. a \in Seq(S) /\ b \in Seq(S) /\ Len(a) = Len(p) + Len(q) /\ Len(b) = Len(p) + Len(q)
  BY <1>1, <1>2
<1>4. ASSUME NEW i \in 1 .. Len(p) + Len(q)
      PROVE  a[i] = b[i]
  <2>1. CASE i \in 1 .. Len(p)
    BY <1>1, <1>2, <2>1
  <2>2. CASE i = Len(p) + 1
    BY <1>1, <1>2, <2>2
  <2>3. CASE i > Len(p) + 1
    <3>1. a[i] = Tail(q)[i - (Len(p) + 1)]
      BY <1>1, <1>2, <2>3
    <3>2. b[i] = q[i - Len(p)]
      BY <1>1, <2>3
    <3>3. i - (Len(p) + 1) \in 1 .. Len(q) - 1
      BY <1>1, <2>3
    <3>4. QED
      BY <1>1, <3>1, <3>2, <3>3
  <2>4. QED
    BY <1>1, <2>1, <2>2, <2>3
<1>5. QED
  BY <1>3, <1>4, SeqEqual

\* A last element goes through a concatenation.
LEMMA AppendConcat ==
    ASSUME NEW S, NEW p \in Seq(S), NEW q \in Seq(S), NEW x \in S
    PROVE  p \o Append(q, x) = Append(p \o q, x)
OBVIOUS

-----------------------------------------------------------------------------
(* The transmit fifo *)

\* While it is not empty the byte in it is the one of the call under way.
TxInv ==
    IF pc = "put_thr" THEN serial_tx = <<sent + 1>> /\ ~tx_cv /\ sent < MaxTx
    ELSE serial_tx = <<>> /\ ~tx_cv

LEMMA NextTx ==
    ASSUME TxInv, [Next]_vars
    PROVE  TxInv'
<1>1. CASE UNCHANGED vars \/ receive \/ transmit
  BY <1>1 DEF TxInv, vars, driver, ends, receive, transmit
<1>2. CASE serial_recv
  BY <1>2 DEF TxInv, serial_recv
<1>3. CASE serial_send
  BY <1>3 DEF TxInv, serial_send
<1>4. CASE send_to_thr
  <2>1. serial_tx = <<sent + 1>>
    BY <1>4 DEF TxInv, send_to_thr
  <2>2. Tail(serial_tx) = <<>>
    BY <2>1
  <2>3. QED
    BY <1>4, <2>2 DEF TxInv, send_to_thr
<1>5. CASE irq_enter \/ read_iir \/ wake
  <2>1. pc # "put_thr" /\ pc' # "put_thr"
    BY <1>5 DEF irq_enter, read_iir, wake
  <2>2. UNCHANGED <<serial_tx, tx_cv>>
    BY <1>5 DEF irq_enter, read_iir, wake, driver
  <2>3. QED
    BY <2>1, <2>2 DEF TxInv
<1>6. CASE rx_test \/ rx_read
  BY <1>6 DEF TxInv, rx_test, rx_read, notify_reader, ends
<1>7. CASE tx_test
  BY <1>7 DEF TxInv, tx_test
<1>8. QED
  BY <1>1, <1>2, <1>3, <1>4, <1>5, <1>6, <1>7 DEF Next, UART_IRQ

-----------------------------------------------------------------------------
(* Types *)

\* The handler reads RBR with a byte in it and with room for it.
ReadInv == pc = "rx_read" => rbr # <<>> /\ Len(serial_rx) < Capacity

LEMMA NextRead ==
    ASSUME TypeOK, ReadInv, [Next]_vars
    PROVE  ReadInv'
<1>1. CASE UNCHANGED vars
  BY <1>1 DEF ReadInv, vars, chip, driver
<1>2. CASE receive
  <2>1. rbr \in Seq(1 .. MaxRx) /\ arrived + 1 \in 1 .. MaxRx
    BY <1>2, UartAssumption DEF TypeOK, Numbers, receive
  <2>2. Len(Append(rbr, arrived + 1)) = Len(rbr) + 1 /\ Len(rbr) \in Nat
    BY <2>1, PutLast
  <2>3. Append(rbr, arrived + 1) # <<>>
    BY <2>2
  <2>4. rbr' \in {rbr, Append(rbr, arrived + 1)} /\ UNCHANGED <<pc, serial_rx>>
    BY <1>2 DEF receive, driver
  <2>5. QED
    BY <2>3, <2>4 DEF ReadInv
<1>3. CASE rx_test
  BY <1>3 DEF ReadInv, rx_test, HasRoom
<1>4. CASE pc' # "rx_read"
  BY <1>4 DEF ReadInv
<1>5. CASE transmit
  BY <1>5 DEF ReadInv, transmit, driver
<1>6. CASE tx_test
  BY <1>6 DEF ReadInv, tx_test
<1>7. CASE serial_recv \/ serial_send \/ send_to_thr \/ irq_enter \/ read_iir \/ rx_read \/ wake
  <2>1. pc' # "rx_read"
    BY <1>7 DEF serial_recv, serial_send, send_to_thr, irq_enter, read_iir, rx_read, wake
  <2>2. QED
    BY <2>1 DEF ReadInv
<1>8. QED
  BY <1>1, <1>2, <1>3, <1>5, <1>6, <1>7 DEF Next, UART_IRQ

LEMMA InitType == Init => TypeOK
<1> SUFFICES ASSUME Init PROVE TypeOK
  OBVIOUS
<1>1. \A n : <<>> \in Seq(1 .. n) /\ Len(<<>>) = 0
  OBVIOUS
<1>2. 0 <= Depth /\ 0 <= Capacity /\ 0 \in 0 .. MaxRx /\ 0 \in 0 .. MaxTx
  BY UartAssumption
<1>3. QED
  BY <1>1, <1>2 DEF Init, TypeOK, Numbers, Where

\* The parts of TypeOK: each end of the line, and the rest.
RxType ==
    /\ rbr \in Seq(1 .. MaxRx) /\ Len(rbr) <= Depth
    /\ serial_rx \in Seq(1 .. MaxRx) /\ Len(serial_rx) <= Capacity
    /\ arrived \in 0 .. MaxRx /\ got \in Seq(1 .. MaxRx)

TxType ==
    /\ thr \in Seq(1 .. MaxTx) /\ Len(thr) <= Depth
    /\ serial_tx \in Seq(1 .. MaxTx) /\ Len(serial_tx) <= Capacity
    /\ sent \in 0 .. MaxTx /\ wire \in Seq(1 .. MaxTx)

FlagType ==
    /\ ier \subseteq {"rx", "tx"}
    /\ thri \in BOOLEAN /\ irr \in BOOLEAN /\ in_service \in BOOLEAN
    /\ rx_cv \in BOOLEAN /\ tx_cv \in BOOLEAN /\ rxcvthread \in BOOLEAN
    /\ pc \in Where
    /\ overrun \subseteq {"rx", "tx"}

LEMMA TypeParts == TypeOK <=> RxType /\ TxType /\ FlagType
BY DEF TypeOK, RxType, TxType, FlagType, Numbers

LEMMA NextRxType ==
    ASSUME RxType, ReadInv, [Next]_vars
    PROVE  RxType'
<1> USE DEF RxType
<1>1. CASE receive
  <2>1. arrived + 1 \in 1 .. MaxRx /\ Len(rbr) \in Nat /\ Depth \in Nat
    BY <1>1, UartAssumption DEF receive
  <2>2. Append(rbr, arrived + 1) \in Seq(1 .. MaxRx)
        /\ Len(Append(rbr, arrived + 1)) = Len(rbr) + 1
    BY <2>1, PutLast
  <2>3. rbr' \in Seq(1 .. MaxRx) /\ Len(rbr') <= Depth
    <3>1. rbr' = rbr \/ (Len(rbr) < Depth /\ rbr' = Append(rbr, arrived + 1))
      BY <1>1 DEF receive
    <3>2. CASE rbr' = rbr
      BY <3>2
    <3>3. CASE Len(rbr) < Depth /\ rbr' = Append(rbr, arrived + 1)
      BY <2>1, <2>2, <3>3
    <3>4. QED
      BY <3>1, <3>2, <3>3
  <2>4. QED
    BY <1>1, <2>1, <2>3 DEF receive, driver
<1>2. CASE serial_recv
  <2>1. CASE serial_rx = <<>>
    BY <1>2, <2>1 DEF serial_recv
  <2>2. CASE serial_rx # <<>>
    <3>1. /\ Head(serial_rx) \in 1 .. MaxRx /\ Tail(serial_rx) \in Seq(1 .. MaxRx)
          /\ Len(Tail(serial_rx)) = Len(serial_rx) - 1
      BY <2>2, TakeHead
    <3>2. Append(got, Head(serial_rx)) \in Seq(1 .. MaxRx)
      BY <3>1, PutLast
    <3>3. got' = Append(got, Head(serial_rx)) /\ serial_rx' = Tail(serial_rx)
          /\ UNCHANGED <<rbr, arrived>>
      BY <1>2, <2>2 DEF serial_recv
    <3>4. QED
      BY <3>1, <3>2, <3>3, UartAssumption
  <2>3. QED
    BY <2>1, <2>2
<1>3. CASE rx_read
  <2>1. rbr # <<>> /\ Len(serial_rx) < Capacity
    BY <1>3 DEF rx_read, ReadInv
  <2>2. /\ Head(rbr) \in 1 .. MaxRx /\ Tail(rbr) \in Seq(1 .. MaxRx)
        /\ Len(Tail(rbr)) = Len(rbr) - 1
    BY <2>1, TakeHead
  <2>3. /\ Append(serial_rx, Head(rbr)) \in Seq(1 .. MaxRx)
        /\ Len(Append(serial_rx, Head(rbr))) = Len(serial_rx) + 1
    BY <2>2, PutLast
  <2>4. rbr' = Tail(rbr) /\ serial_rx' = Append(serial_rx, Head(rbr))
        /\ UNCHANGED <<arrived, got>>
    BY <1>3, <2>1 DEF rx_read, ends
  <2>5. QED
    BY <2>1, <2>2, <2>3, <2>4, UartAssumption
<1>4. CASE \/ UNCHANGED vars \/ transmit \/ serial_send \/ send_to_thr
           \/ irq_enter \/ read_iir \/ rx_test \/ tx_test \/ wake
  <2>1. UNCHANGED <<rbr, serial_rx, arrived, got>>
    BY <1>4 DEF vars, chip, driver, ends, transmit, serial_send, send_to_thr, irq_enter,
                read_iir, rx_test, tx_test, wake
  <2>2. QED
    BY <2>1
<1>5. QED
  BY <1>1, <1>2, <1>3, <1>4 DEF Next, UART_IRQ

LEMMA NextTxType ==
    ASSUME TxType, TxInv, [Next]_vars
    PROVE  TxType'
<1> USE DEF TxType
<1>1. CASE transmit
  <2>1. /\ Head(thr) \in 1 .. MaxTx /\ Tail(thr) \in Seq(1 .. MaxTx)
        /\ Len(Tail(thr)) = Len(thr) - 1
    BY <1>1, TakeHead DEF transmit
  <2>2. Append(wire, Head(thr)) \in Seq(1 .. MaxTx)
    BY <2>1, PutLast
  <2>3. thr' = Tail(thr) /\ wire' = Append(wire, Head(thr)) /\ UNCHANGED <<serial_tx, sent>>
    BY <1>1 DEF transmit, driver
  <2>4. QED
    BY <2>1, <2>2, <2>3, UartAssumption
<1>2. CASE serial_send
  <2>1. serial_tx = <<>> /\ serial_tx' = <<sent + 1>> /\ UNCHANGED <<thr, sent, wire>>
    BY <1>2 DEF serial_send, TxInv
  <2>2. sent + 1 \in 1 .. MaxTx
    BY <1>2, UartAssumption DEF serial_send
  <2>3. <<sent + 1>> \in Seq(1 .. MaxTx) /\ Len(<<sent + 1>>) = 1
    BY <2>2
  <2>4. QED
    BY <2>1, <2>3, UartAssumption
<1>3. CASE send_to_thr
  <2>1. serial_tx = <<sent + 1>> /\ sent + 1 \in 1 .. MaxTx
    BY <1>3, UartAssumption DEF send_to_thr, TxInv
  <2>2. Head(serial_tx) = sent + 1 /\ Tail(serial_tx) = <<>>
    BY <2>1
  <2>3. /\ Append(thr, sent + 1) \in Seq(1 .. MaxTx)
        /\ Len(Append(thr, sent + 1)) = Len(thr) + 1 /\ Len(thr) \in Nat
    BY <2>1, PutLast
  <2>4. thr' \in Seq(1 .. MaxTx) /\ Len(thr') <= Depth
    <3>1. thr' = thr \/ (Len(thr) < Depth /\ thr' = Append(thr, sent + 1))
      BY <1>3, <2>2 DEF send_to_thr, write_thr
    <3>2. CASE thr' = thr
      BY <3>2
    <3>3. CASE Len(thr) < Depth /\ thr' = Append(thr, sent + 1)
      BY <2>3, <3>3, UartAssumption
    <3>4. QED
      BY <3>1, <3>2, <3>3
  <2>5. serial_tx' = <<>> /\ sent' = sent + 1 /\ wire' = wire
    BY <1>3, <2>2 DEF send_to_thr
  <2>6. <<>> \in Seq(1 .. MaxTx) /\ Len(<<>>) = 0
    OBVIOUS
  <2>7. QED
    BY <2>1, <2>4, <2>5, <2>6, UartAssumption
<1>4. CASE tx_test
  <2>1. serial_tx = <<>>
    BY <1>4 DEF tx_test, TxInv
  <2>2. UNCHANGED <<thr, serial_tx, sent, wire>>
    BY <1>4, <2>1 DEF tx_test
  <2>3. QED
    BY <2>2
<1>5. CASE \/ UNCHANGED vars \/ receive \/ serial_recv
           \/ irq_enter \/ read_iir \/ rx_test \/ rx_read \/ wake
  <2>1. UNCHANGED <<thr, serial_tx, sent, wire>>
    BY <1>5 DEF vars, chip, driver, ends, receive, serial_recv, irq_enter, read_iir,
                rx_test, rx_read, wake
  <2>2. QED
    BY <2>1
<1>6. QED
  BY <1>1, <1>2, <1>3, <1>4, <1>5 DEF Next, UART_IRQ

LEMMA NextFlagType ==
    ASSUME FlagType, [Next]_vars
    PROVE  FlagType'
<1> USE DEF FlagType, Where
<1>1. irr' \in BOOLEAN
  BY DEF Latch, Next, vars, receive, transmit, serial_recv, serial_send, send_to_thr,
         UART_IRQ, irq_enter, read_iir, rx_test, rx_read, tx_test, wake
<1>2. CASE UNCHANGED vars
  BY <1>2 DEF vars, chip, driver, ends
<1>3. CASE receive \/ transmit
  BY <1>1, <1>3 DEF receive, transmit, driver
<1>4. CASE serial_recv
  BY <1>1, <1>4 DEF serial_recv
<1>5. CASE serial_send \/ send_to_thr
  BY <1>1, <1>5 DEF serial_send, send_to_thr, write_thr
<1>6. CASE irq_enter \/ wake
  BY <1>1, <1>6 DEF irq_enter, wake, chip, driver, ends
<1>7. CASE read_iir
  BY <1>1, <1>7 DEF read_iir, driver, ends, Source
<1>8. CASE rx_test
  BY <1>1, <1>8 DEF rx_test, BeforeRead, notify_reader, ends
<1>9. CASE rx_read
  BY <1>1, <1>9 DEF rx_read, ends
<1>10. CASE tx_test
  BY <1>1, <1>10 DEF tx_test, write_thr
<1>11. QED
  BY <1>2, <1>3, <1>4, <1>5, <1>6, <1>7, <1>8, <1>9, <1>10 DEF Next, UART_IRQ

BaseInv == TypeOK /\ TxInv /\ ReadInv

LEMMA NextBase ==
    ASSUME BaseInv, [Next]_vars
    PROVE  BaseInv'
<1>1. TypeOK'
  <2>1. RxType /\ TxType /\ FlagType
    BY TypeParts DEF BaseInv
  <2>2. RxType' /\ TxType' /\ FlagType'
    BY <2>1, NextRxType, NextTxType, NextFlagType DEF BaseInv
  <2>3. QED
    BY <2>2 DEF TypeOK, RxType, TxType, FlagType, Numbers
<1>2. QED
  BY <1>1, NextTx, NextRead DEF BaseInv

LEMMA Base == Spec => []BaseInv
<1>1. Init => BaseInv
  <2>1. Init => TxInv /\ ReadInv
    BY DEF Init, TxInv, ReadInv
  <2>2. QED
    BY <2>1, InitType DEF BaseInv
<1>2. QED
  BY <1>1, NextBase, PTL DEF Spec

\* The driver's variables have their types: in particular neither software fifo
\* is ever put beyond its size, nor the chip's.
THEOREM UartTypeOK == Spec => []TypeOK
<1>1. BaseInv => TypeOK
  BY DEF BaseInv
<1>2. QED
  BY <1>1, Base, PTL

\* uart.cpp:117-139: the transmit fifo is empty between calls, so no sender
\* ever waits for tx_cv.
THEOREM TxNeverQueuesAlways == Spec => []TxNeverQueues
<1>1. BaseInv => TxNeverQueues
  BY DEF BaseInv, TxInv, TxNeverQueues
<1>2. QED
  BY <1>1, Base, PTL

-----------------------------------------------------------------------------
(* The mask of the receiver *)

\* Between the write of IER and the read of RBR the fifo is still one short.
MaskInv ==
    IF pc = "rx_read" THEN "rx" \notin ier <=> Len(serial_rx) = Capacity - 1
    ELSE "rx" \notin ier <=> Len(serial_rx) = Capacity

LEMMA NextMask ==
    ASSUME BaseInv, MaskInv, [Next]_vars
    PROVE  MaskInv'
<1>0. Capacity \in Nat \ {0} /\ serial_rx \in Seq(1 .. MaxRx) /\ Len(serial_rx) \in Nat
      /\ Len(serial_rx) <= Capacity /\ rbr \in Seq(1 .. MaxRx)
  BY UartAssumption DEF BaseInv, TypeOK, Numbers
<1>1. CASE UNCHANGED vars \/ receive \/ transmit
  BY <1>1 DEF MaskInv, vars, chip, driver, receive, transmit
<1>2. CASE serial_recv
  <2>1. ier' = ier \cup {"rx"} /\ pc' = "threads"
    BY <1>2 DEF serial_recv
  <2>2. Len(serial_rx') < Capacity
    <3>1. CASE serial_rx = <<>>
      BY <1>0, <1>2, <3>1 DEF serial_recv
    <3>2. CASE serial_rx # <<>>
      BY <1>0, <1>2, <3>2, TakeHead DEF serial_recv
    <3>3. QED
      BY <3>1, <3>2
  <2>3. QED
    BY <2>1, <2>2 DEF MaskInv
<1>3. CASE serial_send \/ send_to_thr
  <2>1. serial_rx' = serial_rx /\ ("rx" \in ier' <=> "rx" \in ier)
        /\ pc # "rx_read" /\ pc' # "rx_read"
    BY <1>3 DEF serial_send, send_to_thr
  <2>2. QED
    BY <2>1 DEF MaskInv
<1>4. CASE irq_enter \/ read_iir \/ wake
  <2>1. UNCHANGED <<serial_rx, ier>> /\ pc # "rx_read" /\ pc' # "rx_read"
    BY <1>4 DEF irq_enter, read_iir, wake, chip, driver
  <2>2. QED
    BY <2>1 DEF MaskInv
<1>5. CASE rx_test
  <2>1. serial_rx' = serial_rx /\ pc = "rx_test"
    BY <1>5 DEF rx_test
  <2>2. CASE rbr # <<>> /\ HasRoom
    <3>1. /\ pc' = "rx_read" /\ Len(serial_rx) < Capacity
          /\ ier' = IF Len(serial_rx) = Capacity - 1 THEN ier \ {"rx"} ELSE ier
      BY <1>5, <2>2 DEF rx_test, HasRoom, BeforeRead
    <3>2. QED
      BY <1>0, <2>1, <3>1 DEF MaskInv
  <2>3. CASE ~(rbr # <<>> /\ HasRoom)
    BY <1>5, <2>1, <2>3 DEF rx_test, MaskInv
  <2>4. QED
    BY <2>2, <2>3
<1>6. CASE rx_read
  <2>1. rbr # <<>> /\ Len(serial_rx) < Capacity
    BY <1>6 DEF rx_read, BaseInv, ReadInv
  <2>2. /\ serial_rx' = Append(serial_rx, Head(rbr)) /\ ier' = ier
        /\ pc = "rx_read" /\ pc' = "rx_test"
    BY <1>6, <2>1 DEF rx_read
  <2>3. Len(serial_rx') = Len(serial_rx) + 1
    BY <1>0, <2>1, <2>2, TakeHead, PutLast
  <2>4. QED
    BY <1>0, <2>2, <2>3 DEF MaskInv
<1>7. CASE tx_test
  <2>1. serial_rx' = serial_rx /\ ("rx" \in ier' <=> "rx" \in ier)
        /\ pc # "rx_read" /\ pc' # "rx_read"
    BY <1>7 DEF tx_test
  <2>2. QED
    BY <2>1 DEF MaskInv
<1>8. QED
  BY <1>1, <1>2, <1>3, <1>4, <1>5, <1>6, <1>7 DEF Next, UART_IRQ

\* uart.cpp:81-84, 149-152: the receiver is masked exactly while the software
\* fifo is full, whatever its size.
THEOREM MaskedIffFullAlways == Spec => []MaskedIffFull
<1>1. Init => MaskInv
  <2>1. Init => "rx" \in ier /\ Len(serial_rx) = 0 /\ pc = "threads"
    BY DEF Init
  <2>2. QED
    BY <2>1, UartAssumption DEF MaskInv
<1>2. MaskInv => MaskedIffFull
  BY DEF MaskInv, MaskedIffFull
<1>3. QED
  BY <1>1, <1>2, Base, NextMask, PTL DEF Spec

-----------------------------------------------------------------------------
(* Edges *)

\* Where the handler is not about to read IIR again.
EdgeInv ==
    pc \in {"threads", "recv", "put_thr", "wake"} /\ Line => irr

LEMMA NextEdge ==
    ASSUME BaseInv, EdgeInv, [Next]_vars
    PROVE  EdgeInv'
<1>1. CASE UNCHANGED vars
  BY <1>1 DEF EdgeInv, vars, Line, Source, chip
<1>2. CASE /\ Latch(irr)
           /\ pc \in {"threads", "recv", "put_thr", "wake"}
              \/ pc' \notin {"threads", "recv", "put_thr", "wake"}
  BY <1>2 DEF EdgeInv, Latch
<1>3. CASE read_iir
  <2>1. CASE Source = "none"
    <3>1. UNCHANGED <<rbr, ier, thri>>
      BY <1>3, <2>1 DEF read_iir, BaseInv, TypeOK
    <3>2. ~Line'
      BY <2>1, <3>1 DEF Line, Source
    <3>3. QED
      BY <3>2 DEF EdgeInv
  <2>2. CASE Source # "none"
    <3>1. pc' \in {"rx_test", "tx_test"}
      BY <1>3, <2>2 DEF read_iir, Source
    <3>2. QED
      BY <3>1 DEF EdgeInv
  <2>3. QED
    BY <2>1, <2>2
<1>4. CASE irq_enter
  <2>1. pc' = "iir"
    BY <1>4 DEF irq_enter
  <2>2. QED
    BY <2>1 DEF EdgeInv
<1>5. CASE receive \/ transmit
  <2>1. Latch(irr) /\ pc' = pc
    BY <1>5 DEF receive, transmit
  <2>2. QED
    BY <1>2, <2>1
<1>6. CASE serial_recv \/ serial_send \/ send_to_thr \/ rx_test \/ rx_read \/ tx_test \/ wake
  <2>1. /\ Latch(irr)
        /\ pc \in {"threads", "recv", "put_thr", "wake"}
           \/ pc' \notin {"threads", "recv", "put_thr", "wake"}
    BY <1>6 DEF serial_recv, serial_send, send_to_thr, rx_test, rx_read, tx_test, wake
  <2>2. QED
    BY <1>2, <2>1
<1>7. QED
  BY <1>1, <1>3, <1>4, <1>5, <1>6 DEF Next, UART_IRQ

\* uart.cpp:77-113: the handler leaves no cause behind that would never make an
\* edge again.
THEOREM NoEdgeMissedAlways == Spec => []NoEdgeMissed
<1>1. Init => EdgeInv
  BY DEF Init, EdgeInv, Line, Source
<1>2. EdgeInv => NoEdgeMissed
  BY DEF EdgeInv, NoEdgeMissed
<1>3. QED
  BY <1>1, <1>2, Base, NextEdge, PTL DEF Spec

-----------------------------------------------------------------------------
(* The waiting reader *)

LEMMA NextSleep ==
    ASSUME BaseInv, ReaderSleepsEmpty, [Next]_vars
    PROVE  ReaderSleepsEmpty'
<1> USE DEF ReaderSleepsEmpty
<1>1. CASE \/ UNCHANGED vars \/ receive \/ transmit \/ serial_send \/ send_to_thr
           \/ irq_enter \/ read_iir \/ tx_test \/ wake
  <2>1. /\ UNCHANGED <<rx_cv, serial_rx>>
        /\ \/ pc' \in {"rx_test", "rx_read"}
           \/ pc \notin {"rx_test", "rx_read"}
           \/ pc' = pc
    BY <1>1 DEF vars, driver, receive, transmit, serial_send, send_to_thr, irq_enter,
                read_iir, tx_test, wake
  <2>2. QED
    BY <2>1
<1>2. CASE serial_recv
  <2>1. CASE serial_rx = <<>>
    BY <1>2, <2>1 DEF serial_recv
  <2>2. CASE serial_rx # <<>>
    <3>1. ~rx_cv /\ rx_cv' = rx_cv
      BY <1>2, <2>2 DEF serial_recv, BaseInv, TypeOK
    <3>2. QED
      BY <3>1
  <2>3. QED
    BY <2>1, <2>2
<1>3. CASE rx_test
  BY <1>3 DEF rx_test, notify_reader
<1>4. CASE rx_read
  <2>1. pc' = "rx_test"
    BY <1>4 DEF rx_read
  <2>2. QED
    BY <2>1
<1>5. QED
  BY <1>1, <1>2, <1>3, <1>4 DEF Next, UART_IRQ

\* uart.cpp:142-161, 91-96: no byte lies in the software fifo while the reader
\* waits, so the notification that ends its wait is never missing.
THEOREM ReaderSleepsEmptyAlways == Spec => []ReaderSleepsEmpty
<1>1. Init => ReaderSleepsEmpty
  BY DEF Init, ReaderSleepsEmpty
<1>2. QED
  BY <1>1, Base, NextSleep, PTL DEF Spec

-----------------------------------------------------------------------------
(* The two streams *)

\* A stream of numbers up to n, in order, and all of them if nothing was lost.
Stream(s, n, complete) ==
    /\ Increasing(s)
    /\ \A i \in DOMAIN s : s[i] <= n
    /\ complete => Len(s) = n

LEMMA StreamGrows ==
    ASSUME NEW n \in Nat, NEW S, S \subseteq Nat, NEW s \in Seq(S), n + 1 \in S,
           NEW complete, Stream(s, n, complete)
    PROVE  Stream(Append(s, n + 1), n + 1, complete)
<1> DEFINE t == Append(s, n + 1)
<1>1. /\ Len(s) \in Nat /\ DOMAIN s = 1 .. Len(s)
      /\ t \in Seq(S) /\ Len(t) = Len(s) + 1 /\ DOMAIN t = 1 .. Len(s) + 1
      /\ \A i \in 1 .. Len(s) : t[i] = s[i]
      /\ t[Len(s) + 1] = n + 1
  BY AppendProperties, LenProperties
<1>2. \A i \in 1 .. Len(s) : s[i] \in Nat
  BY <1>1, ElementOfSeq
<1>3. /\ \A i, j \in 1 .. Len(s) : i < j => s[i] < s[j]
      /\ \A i \in 1 .. Len(s) : s[i] <= n
      /\ complete => Len(s) = n
  BY <1>1 DEF Stream, Increasing
<1> HIDE DEF t
<1>4. ASSUME NEW i \in 1 .. Len(s) + 1, NEW j \in 1 .. Len(s) + 1, i < j
      PROVE  t[i] < t[j]
  <2>1. i \in 1 .. Len(s)
    BY <1>1, <1>4
  <2>2. CASE j \in 1 .. Len(s)
    BY <1>1, <1>3, <1>4, <2>1, <2>2
  <2>3. CASE j = Len(s) + 1
    <3>1. t[j] = n + 1 /\ t[i] = s[i]
      BY <1>1, <2>1, <2>3
    <3>2. s[i] \in Nat /\ s[i] <= n
      BY <1>2, <1>3, <2>1
    <3>3. QED
      BY <3>1, <3>2
  <2>4. QED
    BY <1>1, <2>2, <2>3
<1>5. \A i \in 1 .. Len(s) + 1 : t[i] <= n + 1
  <2>1. SUFFICES ASSUME NEW i \in 1 .. Len(s) + 1 PROVE t[i] <= n + 1
    OBVIOUS
  <2>2. CASE i \in 1 .. Len(s)
    <3>1. t[i] = s[i] /\ s[i] \in Nat /\ s[i] <= n
      BY <1>1, <1>2, <1>3, <2>2
    <3>2. QED
      BY <3>1
  <2>3. CASE i = Len(s) + 1
    BY <1>1, <2>3
  <2>4. QED
    BY <1>1, <2>2, <2>3
<1>6. Stream(t, n + 1, complete)
  BY <1>1, <1>3, <1>4, <1>5 DEF Stream, Increasing
<1>7. QED
  BY <1>6 DEF t

\* A number is left out: it was lost.
LEMMA StreamSkips ==
    ASSUME NEW n \in Nat, NEW S, S \subseteq Nat, NEW s \in Seq(S),
           NEW complete, Stream(s, n, complete)
    PROVE  Stream(s, n + 1, FALSE)
<1>1. \A i \in DOMAIN s : s[i] \in Nat
  BY LenProperties, ElementOfSeq
<1>2. \A i \in DOMAIN s : s[i] <= n + 1
  BY <1>1 DEF Stream
<1>3. QED
  BY <1>2 DEF Stream

RxInv == Stream(got \o serial_rx \o rbr, arrived, "rx" \notin overrun)
TxStreamInv == Stream(wire \o thr, sent, "tx" \notin overrun)

\* Other steps move a byte on by one queue or leave the stream as it is.
LEMMA NextRx ==
    ASSUME BaseInv, RxInv, [Next]_vars
    PROVE  RxInv'
<1> DEFINE N == 1 .. MaxRx
<1>0. /\ got \in Seq(N) /\ serial_rx \in Seq(N) /\ rbr \in Seq(N)
      /\ arrived \in Nat /\ MaxRx \in Nat /\ N \subseteq Nat
      /\ got \o serial_rx \in Seq(N) /\ got \o serial_rx \o rbr \in Seq(N)
  BY UartAssumption DEF BaseInv, TypeOK, Numbers
<1>1. CASE receive
  <2>1. arrived + 1 \in N /\ arrived' = arrived + 1 /\ UNCHANGED <<got, serial_rx>>
    BY <1>0, <1>1 DEF receive, driver
  <2>2. CASE Len(rbr) < Depth
    <3>1. rbr' = Append(rbr, arrived + 1) /\ overrun' = overrun
      BY <1>1, <2>2 DEF receive
    <3>2. got' \o serial_rx' \o rbr' = Append(got \o serial_rx \o rbr, arrived + 1)
      BY <1>0, <2>1, <3>1, AppendConcat
    <3>3. QED
      BY <1>0, <2>1, <3>1, <3>2, StreamGrows DEF RxInv
  <2>3. CASE ~(Len(rbr) < Depth)
    <3>1. rbr' = rbr /\ "rx" \in overrun'
      BY <1>1, <2>3 DEF receive
    <3>2. Stream(got \o serial_rx \o rbr, arrived + 1, FALSE)
      BY <1>0, StreamSkips DEF RxInv
    <3>3. QED
      BY <2>1, <3>1, <3>2 DEF RxInv
  <2>4. QED
    BY <2>2, <2>3
<1>2. CASE got' \o serial_rx' \o rbr' = got \o serial_rx \o rbr /\ UNCHANGED <<arrived>>
           /\ ("rx" \in overrun' <=> "rx" \in overrun)
  BY <1>2 DEF RxInv
<1>3. CASE serial_recv
  <2>1. UNCHANGED <<rbr, arrived, overrun>>
    BY <1>3 DEF serial_recv
  <2>2. CASE serial_rx = <<>>
    BY <1>2, <1>3, <2>1, <2>2 DEF serial_recv
  <2>3. CASE serial_rx # <<>>
    <3>1. got' = Append(got, Head(serial_rx)) /\ serial_rx' = Tail(serial_rx)
      BY <1>3, <2>3 DEF serial_recv
    <3>2. got' \o serial_rx' = got \o serial_rx
      BY <1>0, <2>3, <3>1, HandOver
    <3>3. QED
      BY <1>2, <2>1, <3>2
  <2>4. QED
    BY <2>2, <2>3
<1>4. CASE rx_read
  <2>1. rbr # <<>> /\ Len(serial_rx) < Capacity
    BY <1>4 DEF rx_read, BaseInv, ReadInv
  <2>2. /\ serial_rx' = Append(serial_rx, Head(rbr)) /\ rbr' = Tail(rbr)
        /\ UNCHANGED <<got, arrived, overrun>>
    BY <1>4, <2>1 DEF rx_read, ends
  <2>3. Head(rbr) \in N
    BY <1>0, <2>1, TakeHead
  <2>4. got \o Append(serial_rx, Head(rbr)) = Append(got \o serial_rx, Head(rbr))
    BY <1>0, <2>3, AppendConcat
  <2>5. Append(got \o serial_rx, Head(rbr)) \o Tail(rbr) = got \o serial_rx \o rbr
    BY <1>0, <2>1, HandOver
  <2>6. QED
    BY <1>2, <2>2, <2>4, <2>5
<1>5. CASE \/ UNCHANGED vars \/ transmit \/ serial_send \/ send_to_thr
           \/ irq_enter \/ read_iir \/ rx_test \/ tx_test \/ wake
  <2>1. UNCHANGED <<got, serial_rx, rbr, arrived>>
    BY <1>5 DEF vars, chip, driver, ends, transmit, serial_send, send_to_thr, irq_enter,
                read_iir, rx_test, tx_test, wake
  <2>2. overrun' = overrun \/ overrun' = overrun \cup {"tx"}
    BY <1>5 DEF vars, ends, transmit, serial_send, send_to_thr, irq_enter, read_iir,
                rx_test, tx_test, wake, write_thr
  <2>3. QED
    BY <1>2, <2>1, <2>2
<1>6. QED
  BY <1>1, <1>3, <1>4, <1>5 DEF Next, UART_IRQ

LEMMA NextTxStream ==
    ASSUME BaseInv, TxStreamInv, [Next]_vars
    PROVE  TxStreamInv'
<1> DEFINE N == 1 .. MaxTx
<1>0. /\ wire \in Seq(N) /\ thr \in Seq(N) /\ wire \o thr \in Seq(N)
      /\ sent \in Nat /\ MaxTx \in Nat /\ N \subseteq Nat
  BY UartAssumption DEF BaseInv, TypeOK, Numbers
<1>1. CASE wire' \o thr' = wire \o thr /\ sent' = sent
           /\ ("tx" \in overrun' <=> "tx" \in overrun)
  BY <1>1 DEF TxStreamInv
<1>2. CASE transmit
  <2>1. /\ wire' = Append(wire, Head(thr)) /\ thr' = Tail(thr) /\ thr # <<>>
        /\ UNCHANGED <<sent, overrun>>
    BY <1>2 DEF transmit
  <2>2. wire' \o thr' = wire \o thr
    BY <1>0, <2>1, HandOver
  <2>3. QED
    BY <1>1, <2>1, <2>2
<1>3. CASE send_to_thr
  <2>1. serial_tx = <<sent + 1>> /\ sent + 1 \in N
    BY <1>0, <1>3 DEF send_to_thr, BaseInv, TxInv
  <2>2. Head(serial_tx) = sent + 1
    BY <2>1
  <2>3. sent' = sent + 1 /\ wire' = wire
    BY <1>3 DEF send_to_thr
  <2>4. CASE Len(thr) < Depth
    <3>1. thr' = Append(thr, sent + 1) /\ overrun' = overrun
      BY <1>3, <2>2, <2>4 DEF send_to_thr, write_thr
    <3>2. wire' \o thr' = Append(wire \o thr, sent + 1)
      BY <1>0, <2>1, <2>3, <3>1, AppendConcat
    <3>3. QED
      BY <1>0, <2>1, <2>3, <3>1, <3>2, StreamGrows DEF TxStreamInv
  <2>5. CASE ~(Len(thr) < Depth)
    <3>1. thr' = thr /\ "tx" \in overrun'
      BY <1>3, <2>5 DEF send_to_thr, write_thr
    <3>2. Stream(wire \o thr, sent + 1, FALSE)
      BY <1>0, StreamSkips DEF TxStreamInv
    <3>3. QED
      BY <2>3, <3>1, <3>2 DEF TxStreamInv
  <2>6. QED
    BY <2>4, <2>5
<1>4. CASE \/ UNCHANGED vars \/ receive \/ serial_recv \/ serial_send
           \/ irq_enter \/ read_iir \/ rx_test \/ rx_read \/ wake
  <2>1. UNCHANGED <<wire, thr>>
    BY <1>4 DEF vars, chip, ends, receive, serial_recv, serial_send, irq_enter,
                read_iir, rx_test, rx_read, wake
  <2>2. sent' = sent
    <3>1. CASE serial_send
      BY <3>1 DEF serial_send, BaseInv, TxInv
    <3>2. CASE ~serial_send
      BY <1>4, <3>2 DEF vars, ends, receive, serial_recv, irq_enter, read_iir, rx_test,
                        rx_read, wake
    <3>3. QED
      BY <3>1, <3>2
  <2>3. overrun' = overrun \/ overrun' = overrun \cup {"rx"}
    BY <1>4 DEF vars, ends, receive, serial_recv, serial_send, irq_enter, read_iir,
                rx_test, rx_read, wake
  <2>4. QED
    BY <1>1, <2>1, <2>2, <2>3
<1>5. CASE tx_test
  <2>1. UNCHANGED <<wire, thr, sent, overrun>>
    BY <1>5 DEF tx_test, BaseInv, TxInv
  <2>2. QED
    BY <1>1, <2>1
<1>6. QED
  BY <1>2, <1>3, <1>4, <1>5 DEF Next, UART_IRQ

\* uart.cpp:79-90, 142-161: bytes are received in order, and none is lost but
\* in the chip's own fifo, whatever the sizes of the two.
THEOREM RxStreamAlways == Spec => []RxStream
<1>1. Init => RxInv
  <2>1. Init => got \o serial_rx \o rbr = <<>> /\ arrived = 0
    BY DEF Init
  <2>2. Stream(<<>>, 0, TRUE) /\ Stream(<<>>, 0, FALSE)
    BY DEF Stream, Increasing
  <2>3. QED
    BY <2>1, <2>2 DEF RxInv, Stream
<1>2. RxInv => RxStream
  BY DEF RxInv, RxStream, Stream
<1>3. QED
  BY <1>1, <1>2, Base, NextRx, PTL DEF Spec

\* uart.cpp:117-139: bytes leave in the order of the calls, and none is lost
\* but by a write to a full fifo of the chip.
THEOREM TxStreamAlways == Spec => []TxStream
<1>1. Init => TxStreamInv
  <2>1. Init => wire \o thr = <<>> /\ sent = 0
    BY DEF Init
  <2>2. Stream(<<>>, 0, TRUE) /\ Stream(<<>>, 0, FALSE)
    BY DEF Stream, Increasing
  <2>3. QED
    BY <2>1, <2>2 DEF TxStreamInv, Stream
<1>2. TxStreamInv => TxStream
  BY DEF TxStreamInv, TxStream, Stream
<1>3. QED
  BY <1>1, <1>2, Base, NextTxStream, PTL DEF Spec
=============================================================================
