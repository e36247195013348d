-------------------------------- MODULE Uart --------------------------------
(***************************************************************************)
(* The serial driver platform_pc/uart/uart.cpp on its 16550 and the 8259:  *)
(* one thread that receives, one that sends, the interrupt handler, and    *)
(* the hardware working on between any two port accesses of the handler.   *)
(*                                                                         *)
(* The interrupt controller is edge triggered: a request is latched when   *)
(* the line of the UART rises and at no other time, so a handler that      *)
(* leaves with the line still high would never be called again.            *)
(*                                                                         *)
(* Bytes are numbered in the order they are sent.  The two software fifos  *)
(* are the queues that module Fifo shows fifo_t to be.                     *)
(***************************************************************************)
EXTENDS Integers, Sequences

CONSTANTS
    Capacity,   \* bytes a software fifo holds: FIFO_SIZE - 1
    Depth,      \* bytes a fifo of the chip holds
    MaxRx,      \* bound: bytes that come in
    MaxTx       \* bound: bytes that are sent

ASSUME UartAssumption ==
    /\ Capacity \in Nat \ {0} /\ Depth \in Nat \ {0}
    /\ MaxRx \in Nat /\ MaxTx \in Nat

VARIABLES
    \* the chip
    rbr,        \* its receive fifo
    thr,        \* its transmit fifo
    ier,        \* the enabled sources, of {"rx", "tx"}
    thri,       \* a "transmitter empty" interrupt is pending
    \* the controller
    irr,        \* a request is latched
    in_service, \* the request being served is not acknowledged yet
    \* the driver
    serial_rx, serial_tx,
    rx_cv, tx_cv,   \* a thread waits on the condition variable
    pc,         \* where the CPU is
    rxcvthread, \* the local of UART_IRQ: the reader was notified
    \* the two ends
    arrived,    \* bytes that have come in over the line
    got,        \* bytes bezbios_serial_recv has returned
    sent,       \* calls of bezbios_serial_send so far
    wire,       \* bytes that have left over the line
    overrun     \* ends at which the chip dropped a byte, of {"rx", "tx"}

chip   == <<rbr, thr, ier, thri>>
driver == <<serial_rx, serial_tx, rx_cv, tx_cv, rxcvthread>>
ends   == <<arrived, got, sent, wire, overrun>>
vars   == <<chip, irr, in_service, pc, driver, ends>>

(***************************************************************************)
(* Where the CPU is: in the threads with interrupts enabled; in            *)
(* bezbios_serial_recv or _send with interrupts disabled (recv, put_thr);  *)
(* or in UART_IRQ, about to read IIR, to test LSR in one of the two loops, *)
(* to read RBR, or to hand the CPU to the notified reader (wake).          *)
(***************************************************************************)
Where == {"threads", "recv", "put_thr", "iir", "rx_test", "rx_read",
          "tx_test", "wake"}

Numbers(n) == Seq(1 .. n)

TypeOK ==
    /\ rbr \in Numbers(MaxRx) /\ Len(rbr) <= Depth
    /\ thr \in Numbers(MaxTx) /\ Len(thr) <= Depth
    /\ ier \subseteq {"rx", "tx"}
    /\ thri \in BOOLEAN /\ irr \in BOOLEAN /\ in_service \in BOOLEAN
    /\ serial_rx \in Numbers(MaxRx) /\ Len(serial_rx) <= Capacity
    /\ serial_tx \in Numbers(MaxTx) /\ Len(serial_tx) <= Capacity
    /\ rx_cv \in BOOLEAN /\ tx_cv \in BOOLEAN /\ rxcvthread \in BOOLEAN
    /\ pc \in Where
    /\ arrived \in 0 .. MaxRx /\ got \in Numbers(MaxRx)
    /\ sent \in 0 .. MaxTx /\ wire \in Numbers(MaxTx)
    /\ overrun \subseteq {"rx", "tx"}

-----------------------------------------------------------------------------
(* The chip and the controller. *)

\* What IIR reports, the receiver first; and the interrupt line.
Source ==
    IF "rx" \in ier /\ rbr # <<>> THEN "rx"
    ELSE IF "tx" \in ier /\ thri THEN "tx" ELSE "none"
Line == Source # "none"

\* The controller latches a rising edge, whatever else the step does to irr.
Latch(request) == irr' = (request \/ (~Line /\ Line'))

\* A byte comes in; with the chip's fifo full it is dropped.
receive ==
    /\ arrived < MaxRx
    /\ arrived' = arrived + 1
    /\ IF Len(rbr) < Depth
       THEN rbr' = Append(rbr, arrived + 1) /\ UNCHANGED overrun
       ELSE overrun' = overrun \cup {"rx"} /\ UNCHANGED rbr
    /\ UNCHANGED <<thr, ier, thri, in_service, pc, driver, got, sent, wire>>
    /\ Latch(irr)

\* A byte goes out; the last one raises the transmitter interrupt.
transmit ==
    /\ thr # <<>>
    /\ wire' = Append(wire, Head(thr))
    /\ thr' = Tail(thr)
    /\ thri' = (thri \/ thr' = <<>>)
    /\ UNCHANGED <<rbr, ier, in_service, pc, driver, arrived, got, sent,
                   overrun>>
    /\ Latch(irr)

\* THR = c: the pending transmitter interrupt goes; a full fifo loses c.
write_thr(c) ==
    /\ IF Len(thr) < Depth
       THEN thr' = Append(thr, c) /\ UNCHANGED overrun
       ELSE overrun' = overrun \cup {"tx"} /\ UNCHANGED thr
    /\ thri' = FALSE

-----------------------------------------------------------------------------
(* bezbios_serial_recv and bezbios_serial_send. *)

\* Mutant: a masked receiver stays masked.
serial_recv_masked ==
    /\ pc = "recv" \/ (pc = "threads" /\ ~rx_cv)
    /\ UNCHANGED ier
    /\ IF serial_rx # <<>>
       THEN /\ got' = Append(got, Head(serial_rx))
            /\ serial_rx' = Tail(serial_rx)
            /\ UNCHANGED rx_cv
       ELSE /\ rx_cv' = TRUE
            /\ UNCHANGED <<got, serial_rx>>
    /\ pc' = "threads"
    /\ UNCHANGED <<rbr, thr, thri, in_service, serial_tx, tx_cv, rxcvthread,
                   arrived, sent, wire, overrun>>
    /\ Latch(irr)

\* The loop of bezbios_serial_recv, from its start or after rx_cv.wait().  A
\* masked receiver is unmasked whether or not a byte was there.
serial_recv ==
    /\ pc = "recv" \/ (pc = "threads" /\ ~rx_cv)
    /\ ier' = ier \cup {"rx"}
    /\ IF serial_rx # <<>>
       THEN /\ got' = Append(got, Head(serial_rx))
            /\ serial_rx' = Tail(serial_rx)
            /\ UNCHANGED rx_cv
       ELSE /\ rx_cv' = TRUE
            /\ UNCHANGED <<got, serial_rx>>
    /\ pc' = "threads"
    /\ UNCHANGED <<rbr, thr, thri, in_service, serial_tx, tx_cv, rxcvthread,
                   arrived, sent, wire, overrun>>
    /\ Latch(irr)

\* Mutant: the byte is left to the interrupt handler.
serial_send_queues ==
    /\ pc = "threads" /\ ~tx_cv /\ sent < MaxTx
    /\ IF serial_tx = <<>>
       THEN /\ serial_tx' = <<sent + 1>>
            /\ ier' = ier \cup {"tx"}
            /\ thri' = (thri \/ ("tx" \notin ier /\ thr = <<>>))
            /\ sent' = sent + 1
            /\ UNCHANGED <<pc, tx_cv>>
       ELSE /\ IF Len(serial_tx) < Capacity
               THEN /\ serial_tx' = Append(serial_tx, sent + 1)
                    /\ sent' = sent + 1
                    /\ UNCHANGED tx_cv
               ELSE /\ tx_cv' = TRUE
                    /\ UNCHANGED <<serial_tx, sent>>
            /\ UNCHANGED <<ier, thri, pc>>
    /\ UNCHANGED <<rbr, thr, in_service, serial_rx, rx_cv, rxcvthread,
                   arrived, got, wire, overrun>>
    /\ Latch(irr)

\* bezbios_serial_send up to the write of THR.  Enabling the transmitter
\* interrupt while the transmitter is empty raises it at once.
serial_send ==
    /\ pc = "threads" /\ ~tx_cv /\ sent < MaxTx
    /\ IF serial_tx = <<>>
       THEN /\ serial_tx' = <<sent + 1>>
            /\ ier' = ier \cup {"tx"}
            /\ thri' = (thri \/ ("tx" \notin ier /\ thr = <<>>))
            /\ pc' = "put_thr"
            /\ UNCHANGED <<tx_cv, sent>>
       ELSE /\ IF Len(serial_tx) < Capacity
               THEN /\ serial_tx' = Append(serial_tx, sent + 1)
                    /\ sent' = sent + 1
                    /\ UNCHANGED tx_cv
               ELSE /\ tx_cv' = TRUE
                    /\ UNCHANGED <<serial_tx, sent>>
            /\ UNCHANGED <<ier, thri, pc>>
    /\ UNCHANGED <<rbr, thr, in_service, serial_rx, rx_cv, rxcvthread,
                   arrived, got, wire, overrun>>
    /\ Latch(irr)

\* Mutant: the byte also stays in the fifo.
send_to_thr_keeps ==
    /\ pc = "put_thr"
    /\ write_thr(Head(serial_tx))
    /\ UNCHANGED serial_tx
    /\ sent' = sent + 1
    /\ pc' = "threads"
    /\ UNCHANGED <<rbr, ier, in_service, serial_rx, rx_cv, tx_cv, rxcvthread,
                   arrived, got, wire>>
    /\ Latch(irr)

\* The byte just put is taken out again and written to THR, with no look at
\* LSR; the put has succeeded, so the call returns.
send_to_thr ==
    /\ pc = "put_thr"
    /\ write_thr(Head(serial_tx))
    /\ serial_tx' = Tail(serial_tx)
    /\ sent' = sent + 1
    /\ pc' = "threads"
    /\ UNCHANGED <<rbr, ier, in_service, serial_rx, rx_cv, tx_cv, rxcvthread,
                   arrived, got, wire>>
    /\ Latch(irr)

-----------------------------------------------------------------------------
(* UART_IRQ. *)

irq_enter ==
    /\ pc = "threads" /\ irr /\ ~in_service
    /\ in_service' = TRUE
    /\ rxcvthread' = FALSE
    /\ pc' = "iir"
    /\ UNCHANGED <<chip, serial_rx, serial_tx, rx_cv, tx_cv, ends>>
    /\ Latch(FALSE)

\* IIR is read, which takes back a transmitter interrupt it reports, and the
\* request is acknowledged before the cause is dealt with.
read_iir ==
    /\ pc = "iir"
    /\ thri' = (thri /\ Source # "tx")
    /\ in_service' = FALSE
    /\ pc' = CASE Source = "rx" -> "rx_test"
               [] Source = "tx" -> "tx_test"
               [] OTHER -> "wake"
    /\ UNCHANGED <<rbr, thr, ier, driver, ends>>
    /\ Latch(irr)

\* The condition of the receive loop on serial_rx; a mutant without it.
HasRoom_untested == TRUE
HasRoom == Len(serial_rx) < Capacity

\* IER before RBR is read: the receiver is masked when the byte is the last
\* there is room for.  Mutants: one byte late; IER = ~0x01, which enables what
\* was never enabled.
BeforeRead_late == IF Len(serial_rx) = Capacity THEN ier \ {"rx"} ELSE ier
BeforeRead_sets_bits ==
    IF Len(serial_rx) = Capacity - 1 THEN {"tx", "lsr", "msr"} ELSE ier
BeforeRead ==
    IF Len(serial_rx) = Capacity - 1 THEN ier \ {"rx"} ELSE ier

\* rx_cv.notify(), kept for the end of the handler; a mutant without it.
notify_reader_not == UNCHANGED <<rx_cv, rxcvthread>>
notify_reader ==
    /\ rxcvthread' = (rxcvthread \/ rx_cv)
    /\ rx_cv' = FALSE

\* Mutant: the handler deals with one cause and returns.
rx_test_once ==
    /\ pc = "rx_test"
    /\ IF rbr # <<>> /\ HasRoom
       THEN /\ ier' = BeforeRead
            /\ pc' = "rx_read"
            /\ UNCHANGED <<rx_cv, rxcvthread>>
       ELSE /\ notify_reader
            /\ pc' = "wake"
            /\ UNCHANGED ier
    /\ UNCHANGED <<rbr, thr, thri, in_service, serial_rx, serial_tx, tx_cv,
                   ends>>
    /\ Latch(irr)

\* The head of the receive loop: room for one more is the sign to mask the
\* receiver.  When the loop ends the reader is notified.
rx_test ==
    /\ pc = "rx_test"
    /\ IF rbr # <<>> /\ HasRoom
       THEN /\ ier' = BeforeRead
            /\ pc' = "rx_read"
            /\ UNCHANGED <<rx_cv, rxcvthread>>
       ELSE /\ notify_reader
            /\ pc' = "iir"
            /\ UNCHANGED ier
    /\ UNCHANGED <<rbr, thr, thri, in_service, serial_rx, serial_tx, tx_cv,
                   ends>>
    /\ Latch(irr)

\* RBR is read and the byte put; a fifo without room would drop it.
rx_read ==
    /\ pc = "rx_read"
    /\ rbr' = Tail(rbr)
    /\ serial_rx' = IF Len(serial_rx) < Capacity
                    THEN Append(serial_rx, Head(rbr)) ELSE serial_rx
    /\ pc' = "rx_test"
    /\ UNCHANGED <<thr, ier, thri, in_service, serial_tx, rx_cv, tx_cv,
                   rxcvthread, ends>>
    /\ Latch(irr)

\* The transmit loop: while the transmitter is empty it is given a byte, or
\* its interrupt is masked when there is none; then the sender is notified.
tx_test ==
    /\ pc = "tx_test"
    /\ IF thr = <<>> /\ serial_tx # <<>>
       THEN /\ write_thr(Head(serial_tx))
            /\ serial_tx' = Tail(serial_tx)
            /\ UNCHANGED <<ier, tx_cv, pc>>
       ELSE /\ ier' = IF thr = <<>> THEN ier \ {"tx"} ELSE ier
            /\ tx_cv' = FALSE
            /\ pc' = "iir"
            /\ UNCHANGED <<thr, thri, serial_tx, overrun>>
    /\ UNCHANGED <<rbr, in_service, serial_rx, rx_cv, rxcvthread, arrived, got,
                   sent, wire>>
    /\ Latch(irr)

\* Nothing is pending: sel_task to the reader if it was notified, which goes
\* on inside its atomic section; otherwise the handler returns.
wake ==
    /\ pc = "wake"
    /\ pc' = IF rxcvthread THEN "recv" ELSE "threads"
    /\ UNCHANGED <<chip, in_service, driver, ends>>
    /\ Latch(irr)

UART_IRQ == irq_enter \/ read_iir \/ rx_test \/ rx_read \/ tx_test \/ wake

-----------------------------------------------------------------------------
\* After bezbios_serial_init.
Init ==
    /\ rbr = <<>> /\ thr = <<>> /\ ier = {"rx"} /\ thri = FALSE
    /\ irr = FALSE /\ in_service = FALSE
    /\ serial_rx = <<>> /\ serial_tx = <<>>
    /\ rx_cv = FALSE /\ tx_cv = FALSE /\ rxcvthread = FALSE
    /\ pc = "threads"
    /\ arrived = 0 /\ got = <<>> /\ sent = 0 /\ wire = <<>> /\ overrun = {}

Next ==
    \/ receive \/ transmit
    \/ serial_recv \/ serial_send \/ send_to_thr
    \/ UART_IRQ

Spec == Init /\ [][Next]_vars

\* The chip sends what it has, an atomic section and the handler run to their
\* end, a latched request is taken, and the reader calls recv again.
Fairness ==
    /\ WF_vars(transmit) /\ WF_vars(send_to_thr)
    /\ WF_vars(UART_IRQ) /\ SF_vars(irq_enter)
    /\ SF_vars(serial_recv)

FairSpec == Spec /\ Fairness

-----------------------------------------------------------------------------
(* Properties. *)

Increasing(s) == \A i, j \in DOMAIN s : i < j => s[i] < s[j]

\* Bytes are received in order, and all of them unless the chip's own fifo
\* overran: no byte is lost between RBR, the software fifo and the caller
\* (uart.cpp:79-90, 142-161).
RxStream ==
    LET s == got \o serial_rx \o rbr
    IN  Increasing(s) /\ ("rx" \notin overrun => Len(s) = arrived)

\* The receiver is masked exactly while the software fifo is full, outside the
\* handler's loop (uart.cpp:81-84, 149-152): it is masked in time, and never
\* left masked with room in the fifo.
MaskedIffFull ==
    pc \in {"threads", "put_thr", "recv", "iir", "wake"} =>
        ("rx" \notin ier <=> Len(serial_rx) = Capacity)

\* While the CPU runs threads, an active interrupt line has its request
\* latched: the handler loops until IIR reports nothing (uart.cpp:98-99), so
\* every later cause makes a new edge.
NoEdgeMissed == pc = "threads" /\ Line => irr

\* The driver never queues a byte to send: between calls the software transmit
\* fifo is empty, so the wait for tx_cv at uart.cpp:138 is not reached.
TxNeverQueues == pc # "put_thr" => serial_tx = <<>> /\ ~tx_cv

\* Bytes leave in the order of the calls, and all of them unless the transmit
\* fifo of the chip was written while full (uart.cpp:132 looks at no LSR).
TxStream ==
    LET s == wire \o thr
    IN  Increasing(s) /\ ("tx" \notin overrun => Len(s) = sent)

\* A waiting reader has seen every byte: none is in the software fifo, unless
\* the handler is about to notify or hand over.
ReaderSleepsEmpty ==
    rx_cv /\ pc \notin {"rx_test", "rx_read"} => serial_rx = <<>>

\* A byte that reaches the chip's fifo is returned by bezbios_serial_recv to a
\* thread that keeps calling it.
ByteDelivered ==
    \A n \in 1 .. MaxRx :
        (\E i \in DOMAIN rbr : rbr[i] = n) ~> (\E i \in DOMAIN got : got[i] = n)
=============================================================================
