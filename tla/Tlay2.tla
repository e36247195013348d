-------------------------------- MODULE Tlay2 --------------------------------
(***************************************************************************)
(* Tlay2 frames on the serial line, byte by byte: how they are put, and    *)
(* how the reader at the other end finds them again.                       *)
(*                                                                         *)
(* The two directions do not share state, so a behaviour is about one of   *)
(* them: "down", from tlay2_server.py to Tlay2::process, or "up", from the *)
(* device to tlay2_server.py.  The line may lose a byte, as the driver and *)
(* its chip do on overrun, or, on the way up, a debug message may be put   *)
(* by polling in the middle of another frame: one of the two in a          *)
(* behaviour (bound), so that what each of them costs can be told apart.   *)
(*                                                                         *)
(* A byte is read as soon as it is put; how long it is in some fifo makes  *)
(* no difference to the reader.                                            *)
(***************************************************************************)
EXTENDS Crc8

CONSTANTS
    Payloads,   \* the payloads sent, sequences of bytes
    BufSize,    \* sizeof(buff) in Tlay2
    MaxFrames,  \* bound: frames sent, not counting the debug message
    MaxDrops    \* bound: bytes the line loses

ASSUME Tlay2Assumption ==
    /\ \A p \in Payloads : p \in Seq(Byte)
    /\ BufSize \in Nat /\ BufSize > 3

VARIABLES
    dir,        \* the direction this behaviour is about
    sent,       \* the frames sent, unescaped, with their CRC
    out,        \* what is still to be put of the frame under way
    buff, crc,  \* of the reader
    esc,        \* it has seen the escape byte
    skip,       \* it waits for the end of an overlong frame
    accepted,   \* the frames it took for good
    drops,      \* bytes lost so far
    debugged,   \* the debug message has been put
    cost        \* history: how many frames the line's faults may have cost

vars == <<dir, sent, out, buff, crc, esc, skip, accepted, drops, debugged, cost>>

NL  == 10
ESC == 220

-----------------------------------------------------------------------------
(* Sending. *)

\* put_escaped; a mutant that escapes no escape byte.
put_escaped_nl(c) == IF c = NL THEN <<ESC, Xor(c, 128)>> ELSE <<c>>
put_escaped(c) == IF c \in {NL, ESC} THEN <<ESC, Xor(c, 128)>> ELSE <<c>>

\* ctr, pid, payload and the CRC of all of them.
Frame(ctr, pid, payload) ==
    LET s == <<ctr, pid>> \o payload IN Append(s, Crc(s))

\* The frame as it is put on the line, and what is put of it from its n-th byte
\* from the end on.
Puts(frame) ==
    LET put[n \in 0 .. Len(frame)] ==
            IF n = 0 THEN <<NL>>
            ELSE put_escaped(frame[Len(frame) - n + 1]) \o put[n - 1]
    IN  put

Encoded(frame) == Puts(frame)[Len(frame)]

\* msgout, dbgout, and a request in udprecv of the server, which numbers them
\* from 1 to 255 and round; a reply has the number of its request.
send(frame) ==
    /\ out = <<>>
    /\ Len(sent) < MaxFrames
    /\ sent' = Append(sent, frame)
    /\ out' = Encoded(frame)
    /\ UNCHANGED <<dir, buff, crc, esc, skip, accepted, drops, debugged, cost>>

msgout ==
    \E p \in Payloads : send(Frame((Len(sent) % 255) + 1, 1, p))

dbgout ==
    /\ dir = "up"
    /\ \E p \in Payloads \ {<<>>} : send(Frame(0, 0, p))

\* DbgOut<UartBlocking>: with interrupts off a newline and a frame are put, in
\* whatever another thread is putting.  It costs the frame it cuts in two, and
\* its own if the newline falls behind an escape byte.
DebugMessage == Frame(0, 0, <<68>>)

Cut == sent # <<>> /\ Len(out) \in 2 .. Len(Encoded(Last(sent))) - 1

debug_out ==
    /\ dir = "up" /\ ~debugged /\ drops = 0
    /\ debugged' = TRUE
    /\ sent' = IF Len(out) <= 1
               THEN Append(sent, DebugMessage)
               ELSE Front(sent) \o <<DebugMessage, Last(sent)>>
    /\ out' = <<NL>> \o Encoded(DebugMessage) \o out
    /\ cost' = cost + (IF Cut THEN 1 ELSE 0) + (IF esc THEN 1 ELSE 0)
    /\ UNCHANGED <<dir, buff, crc, esc, skip, accepted, drops>>

-----------------------------------------------------------------------------
(* Reading. *)

reset ==
    /\ buff' = <<>> /\ crc' = crc_init
    /\ esc' = FALSE /\ skip' = FALSE
    /\ UNCHANGED accepted

\* Mutant: an overlong frame is noticed one byte late.
store_late(c) ==
    /\ buff' = Append(buff, c)
    /\ crc' = crc_update(crc, c)
    /\ esc' = FALSE
    /\ skip' = (Len(buff') > BufSize)
    /\ UNCHANGED accepted

\* buff[l++] = c, and the test of l.
store(c) ==
    /\ buff' = Append(buff, c)
    /\ crc' = crc_update(crc, c)
    /\ esc' = FALSE
    /\ skip' = (Len(buff') = BufSize)
    /\ UNCHANGED accepted

\* The end of a frame in process(); a mutant that takes it whatever its CRC.
frame_end_unchecked ==
    /\ accepted' = IF Len(buff) >= 3 THEN Append(accepted, buff) ELSE accepted
    /\ buff' = <<>> /\ crc' = crc_init
    /\ UNCHANGED <<esc, skip>>

frame_end ==
    /\ accepted' = IF crc = 0 /\ Len(buff) >= 3
                   THEN Append(accepted, buff) ELSE accepted
    /\ buff' = <<>> /\ crc' = crc_init
    /\ UNCHANGED <<esc, skip>>

\* Tlay2::process, for the byte that getch() returns: behind an overlong frame
\* anything but a newline is passed over; behind an escape byte anything is
\* data, a newline too.
process(c) ==
    CASE skip           -> IF c = NL
                           THEN reset
                           ELSE UNCHANGED <<buff, crc, esc, skip, accepted>>
      [] ~skip /\ esc   -> store(Xor(c, 128))
      [] ~skip /\ ~esc  ->
            IF c = NL THEN frame_end
            ELSE IF c = ESC
            THEN esc' = TRUE /\ UNCHANGED <<buff, crc, skip, accepted>>
            ELSE store(c)

\* The main loop of tlay2_server.py, which has no limit and takes the CRC at
\* the end.
server_read(c) ==
    /\ IF esc
       THEN buff' = Append(buff, Xor(c, 128)) /\ esc' = FALSE /\ UNCHANGED accepted
       ELSE IF c = NL
       THEN /\ accepted' = IF Len(buff) >= 3 /\ Crc(buff) = 0
                           THEN Append(accepted, buff) ELSE accepted
            /\ buff' = <<>>
            /\ UNCHANGED esc
       ELSE IF c = ESC
       THEN esc' = TRUE /\ UNCHANGED <<buff, accepted>>
       ELSE buff' = Append(buff, c) /\ UNCHANGED <<esc, accepted>>
    /\ UNCHANGED <<crc, skip>>

\* The next byte goes over the line.
putch ==
    /\ out # <<>>
    /\ out' = Tail(out)
    /\ IF dir = "down" THEN process(Head(out)) ELSE server_read(Head(out))
    /\ UNCHANGED <<dir, sent, drops, debugged, cost>>

\* It is lost.  It may have been the end of a frame or the half of an escaped
\* byte, so the next frame may go with this one.
lose ==
    /\ out # <<>> /\ drops < MaxDrops /\ ~debugged
    /\ out' = Tail(out)
    /\ drops' = drops + 1
    /\ cost' = cost + 2
    /\ UNCHANGED <<dir, sent, buff, crc, esc, skip, accepted, debugged>>

-----------------------------------------------------------------------------
Init ==
    /\ dir \in {"down", "up"}
    /\ sent = <<>> /\ out = <<>>
    /\ buff = <<>> /\ crc = crc_init /\ esc = FALSE /\ skip = FALSE
    /\ accepted = <<>>
    /\ drops = 0 /\ debugged = FALSE /\ cost = 0

Next == msgout \/ dbgout \/ debug_out \/ putch \/ lose

Spec == Init /\ [][Next]_vars

-----------------------------------------------------------------------------
(* Properties. *)

\* tlay2.cpp:44-49: the reader never writes behind its buffer, whatever the
\* line delivers.
WithinBuffer ==
    dir = "down" => Len(buff) < BufSize \/ (skip /\ Len(buff) = BufSize)

\* crc8.c:28-41: the CRC taken byte by byte is the remainder of what has been
\* read divided by x^8 + x^2 + x + 1.
CrcIsRemainder == dir = "down" => crc = Remainder(buff)

\* What may be accepted for the frames from the a-th to the b-th: one frame as
\* it was sent; if a byte was lost, also several that have lost the newline
\* between them, for the CRC is 0 again at the end of each; and, as zeros do not
\* change a CRC of 0, a debug frame whose first bytes are lost or cut off.
Readings(a, b) ==
    LET joined == FlattenSeq(SubSeq(sent, a, b))
        zeros  == IF drops = 0 /\ ~debugged THEN {}
                  ELSE {k \in 1 .. 2 : \A i \in 1 .. k : joined[i] = 0}
    IN  IF a < b /\ drops = 0 THEN {}
        ELSE {SubSeq(joined, k + 1, Len(joined)) : k \in {0} \cup zeros}

\* Where in sent, behind from, a frame accepted may end, at the earliest; behind
\* everything if it was not sent.
Earliest(from, frame) ==
    LET ends == {b \in from + 1 .. Len(sent) :
                    \E a \in from + 1 .. b : frame \in Readings(a, b)}
    IN  IF ends = {} THEN Len(sent) + 1 ELSE Min(ends)

\* Where the first i frames accepted may end.
Reached[i \in 0 .. Len(accepted)] ==
    IF i = 0 THEN 0 ELSE Earliest(Reached[i - 1], accepted[i])

\* tlay2.cpp:52-71, tlay2_server.py:57-75: what is accepted was sent, each frame
\* at most once and in that order, exactly as it was sent as long as the line
\* loses nothing and no debug message cuts in, and as Readings says otherwise.
Genuine == Reached[Len(accepted)] <= Len(sent)

\* Frames that do not fit the reader's buffer.
TooLong == {i \in DOMAIN sent : dir = "down" /\ Len(sent[i]) >= BufSize}

\* The frames accepted at the places S are frames sent, in that order.
InOrder(S) ==
    \E g \in [S -> DOMAIN sent] :
        /\ \A i \in S : accepted[i] = sent[g[i]]
        /\ \A i, j \in S : i < j => g[i] < g[j]

\* How many frames that were not sent the line's faults may make of those that
\* were: a lost byte one, the debug message one of each part of what it cuts.
Misread == drops + (IF debugged THEN 2 ELSE 0)

\* tlay2.cpp:29-62, tlay2_server.py:56-75: after a fault the reader finds the
\* frames again.  But for Misread of them the frames accepted are frames that
\* were sent, in that order, and once all bytes are put no more of those are
\* missing than the faults account for.
Accounted ==
    \E S \in SUBSET DOMAIN accepted :
        /\ InOrder(S)
        /\ Len(accepted) - Cardinality(S) <= Misread
        /\ out = <<>> =>
               Len(sent) - Cardinality(S) <= cost + Cardinality(TooLong)
=============================================================================
