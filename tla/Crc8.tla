-------------------------------- MODULE Crc8 --------------------------------
(***************************************************************************)
(* The CRC of uart/crc8.c: width 8, polynomial x^8 + x^2 + x + 1, initial  *)
(* value 0, nothing reflected, four bits at a time from a table.           *)
(***************************************************************************)
EXTENDS Integers, SequencesExt

Byte == 0 .. 255
Nibble == 0 .. 15

\* The bit of weight w in n.
Bit(n, w) == (n \div w) % 2

\* Exclusive or, of nibbles from a table and of bytes by nibbles.
XorNibble ==
    [a \in Nibble |-> [b \in Nibble |->
        LET bit(w) == IF Bit(a, w) # Bit(b, w) THEN w ELSE 0
        IN  bit(1) + bit(2) + bit(4) + bit(8)]]

Xor(a, b) == 16 * XorNibble[a \div 16][b \div 16] + XorNibble[a % 16][b % 16]

crc_table == <<0, 7, 14, 9, 28, 27, 18, 21, 56, 63, 54, 49, 36, 35, 42, 45>>

\* One nibble is shifted in.
crc_nibble(crc, n) ==
    Xor(crc_table[XorNibble[crc \div 16][n] + 1], (crc * 16) % 256)

\* Mutant: the nibbles in the wrong order.
crc_update_swapped(crc, byte) ==
    crc_nibble(crc_nibble(crc, byte % 16), byte \div 16)

crc_update(crc, byte) ==
    crc_nibble(crc_nibble(crc, byte \div 16), byte % 16)

crc_init == 0

\* The CRC of a sequence of bytes, and of each of its beginnings.
Crcs(s) ==
    LET of[n \in 0 .. Len(s)] ==
            IF n = 0 THEN crc_init ELSE crc_update(of[n - 1], s[n])
    IN  of

Crc(s) == Crcs(s)[Len(s)]

-----------------------------------------------------------------------------
(* What it is meant to be. *)

\* A bit enters at the right of the remainder; if a one leaves at the left,
\* the polynomial is subtracted.
Divide(rem, bit) ==
    IF rem >= 128 THEN Xor((2 * rem + bit) % 256, 7) ELSE 2 * rem + bit

\* The bits of a nibble, and of a byte, enter from the left.
DivideNibble(rem, n) ==
    Divide(Divide(Divide(Divide(rem, Bit(n, 8)), Bit(n, 4)), Bit(n, 2)), Bit(n, 1))

DivideByte(rem, byte) ==
    DivideNibble(DivideNibble(rem, byte \div 16), byte % 16)

Remainders(s) ==
    LET of[n \in 0 .. Len(s)] ==
            IF n = 0 THEN 0 ELSE DivideByte(of[n - 1], s[n])
    IN  of

\* The remainder of the bits of s, followed by eight zeros, divided by the
\* polynomial.
Remainder(s) == DivideByte(Remainders(s)[Len(s)], 0)
=============================================================================
